# Mother Ticker: TLA+ models

Mother Ticker is a GPS-disciplined NTP appliance: chrony and gpsd on a
Raspberry Pi, a Python application around them that watches, repairs, reports
and displays, and an Ansible role that installs it all. This directory holds
TLA+ models of the parts of that application that keep state, with the TLC
configurations that check them on small instances and the TLAPS proofs of what
matters most. Source paths below are relative to the repository root; every
definition's lines are in `PROJECT.json` under `map`.

## The system

Several processes run on a unit and share very little: systemd units, two small
files, and what each can read of the host.

| component | source | state it keeps | operations |
|---|---|---|---|
| health evaluation | `health/evaluate.py` | none | `evaluate` of a snapshot: a level and a list of problems |
| escalation ladder | `health/check.py`, healthcheck service and timer | counters in a JSON file under `/run` | `run_check`: evaluate, load, decide, apply, save |
| alerts | `metrics/alerts.py` | last level and packages observed, counts of sent and failed | `consider`, `decide`, `send` |
| prometheus exporter | `metrics/prometheus.py`, `cli.py` | the cached page | the refresh loop, the scrape handler |
| update check | `collectors/updates.py` | `updates.json` | `run_check` once a day, `save_state`, `load_state` |
| syslog exporter | `metrics/syslog.py`, `cli.py` | the socket, the count of failed sends | `run_forever`, `send`, `close` |
| gpsd collector | `collectors/gpsd.py` | none beyond a session | `_read_until`, `merge_reports` |
| fake gpsd | `bench/fake_gpsd.py` | clients and whether they watch | a thread per client |
| terminal UI | `tui/app.py`, `tui/screens.py` | last snapshot, the screen stack, a collector thread | screens, confirmed actions, admin login |
| service control | `collectors/services.py` | none | restart, reboot, maintenance mode through sudo |
| maintenance mode | `mother-ticker-maint.sh` | the overlay and boot partition settings | `on`, `off`, `status`, reboot |
| other collectors | `collectors/{chrony,pps,system,network}.py` | none | readers and parsers |
| metric names and values | `metrics/model.py` | none | `snapshot_to_metrics` |
| rendering | `tui/format.py`, `tui/screens.py`, `cli.py` | none | the words and colours of the panels, `mother-ticker status` |
| alert rules and Grafana dashboard | `grafana/rules`, `scripts/gen_grafana_dashboard.py` | per rule, how long its expression has held | expressions, hold times, colours of the stat panels |
| configuration | `config.py` | none; read once when a process starts | `load_config` |
| demo mode | `tui/demo.py` | none | `demo_snapshot` |
| provisioning | `ansible/`, `scripts/install.sh` | none at run time | |

How they interact:

- The healthcheck, the exporter and the TUI each gather a snapshot of their own
  and call `evaluate`; none of them talks to another.
- The healthcheck restarts units and reboots the host through `systemctl`. Its
  counters live on a tmpfs: a boot forgets them, a killed check does not.
- The daily update check leaves a file; the exporter reads it on each turn and
  turns differences into webhook messages.
- In syslog mode the exporter pushes a message per interval to a relay and
  never reads anything back.
- The TUI calls `services.py`, which calls the maintenance script.
- A Prometheus server scrapes the page; the alert rules and the dashboard see the
  unit only through its metrics, and repeat some of its thresholds.

What is hard about it:

- a check can be killed between its commands and its save, its save can fail,
  and a reboot order can be refused;
- alerts go out on edges only, nothing is retried, and the last observation is
  in memory;
- a POST can succeed, fail, or raise an exception that `send` does not catch;
- a file that says "nothing pending" may come from a check that failed;
- a TCP send can stop inside a frame, or succeed into a dead connection;
- two units can be blamed for one fault, each with a counter of its own;
- a command of the TUI holds the one thread that handles keys and shows
  snapshots, while other threads go on and wait to hand over what they have;
- maintenance mode changes two settings one after the other, and may stop
  between them;
- a unit that is dead, cut off or not yet refreshed has no series, and a rule on
  a series that is absent holds for nothing;
- the words on a panel, its colour, the rules and the stats of the dashboard come
  from four chains of conditions over the same readings.

`PROJECT.json` lists these hazards at their lines, with the property that would
notice each of them going wrong. One has none: a page that is never refreshed again is
served as if it were new, and nothing in the code would notice.

### What makes each component correct

- *health evaluation*: what is critical follows from the raw answers, whatever their
  errors; a worse sensor never makes the unit look better.
- *ladder*: no restart or reboot without the run of critical checks that
  justifies it; restarts back off; no reboot below the uptime floor; a host that
  stays critical is rebooted in the end; a recovery is recorded.
- *exporter and alerts*: a receiver that missed nothing knows the level; it is
  told nothing twice; a pending package is announced once; a broken webhook
  does not stop the metrics; every send is counted.
- *syslog exporter*: the relay never sees two messages joined; the failure count
  is right; the relay hears from the unit again after every outage.
- *gpsd collector*: a session ends by its deadline; what it reports is what whole
  reports said.
- *rules and dashboard*: a unit that stays critical, dead or unreachable is paged
  and keeps being paged; what has recovered clears; nothing pages for a unit
  that calls itself healthy.
- *rendering*: no problem is hidden, no alarming word is on a green panel, and
  what cannot be read is said to be unknown.
- *configuration*: what loads has the types the code reads; an empty file is no file.
- *terminal UI*: nothing disruptive happens without a yes to the question that
  names it, on the screen that offers it; the dashboard comes to show the level;
  quitting ends.
- *maintenance mode*: a command that says it succeeded has left the unit in the
  state it names.

## The models

### HealthEvaluate (`health/evaluate.py`), Readings (`collectors/`, `metrics/model.py`)

Pure operators: each `_check_*` function is one operator that returns a set of
problems, `Evaluate` joins them, `Headline` and `BySubsystem` are the methods of
`HealthReport`. A message is reduced to a word that identifies it. Readings are
integers; temperature may be `NoReading`.

`Readings` is what lies before and behind: a *host* is a record of what every
source would answer (the age of the last PPS edge or the way reading it fails, the
reports of a gpsd session in order, the two outputs of `chronyc`, a state per
unit, ...), the `Collect...` operators are the collectors with their error paths,
`Gather` makes the snapshot and `SnapshotToMetrics` what a scrape or the relay
sees of it.

`Host` is the set of all hosts there can be. `MCHealthEvaluate` gives this a
state, one host, and lets one source change its answer at a time (`PpsAnswer`,
`GpsdAnswer`, `ChronycAnswer`, `ShowAnswer`, `SystemAnswer`, `UpdatesAnswer`), so
that a step compares two evaluations that differ in one answer. The answers are
those the sources can give, on both sides of every threshold. `MAX_OFF` bounds
how many sources are away from nominal: two, which is enough because every check
looks at one subsystem and `Evaluate` only joins them: the headline, the level,
the metrics and the screens relate at most two subsystems. (The theorems of
`EvaluateProofs` need no such argument.)

Run `health_evaluate`:

- `CriticalMatchesAlertTable`: from the raw answers, the critical subsystems are exactly
  those of `Gone`: PPS gone, no fix, chrony unsynchronised or its offset past the
  critical threshold, a unit of `tui.services` not active, the SoC past its critical
  temperature, a time source that cannot be read counting as gone; the headline names
  them all, and apart from the services each is one problem (the ladder keeps one message per subsystem);
- `CriticalShowsInMetrics`: whoever sees only the metrics can tell from the others
  why `mother_ticker_health_level` is 2, none looks critical when it is not, and a
  relay message has severity 2 exactly then;
- `WorseNeverLooksBetter`: a step to a snapshot that is no better in any sensor
  lowers neither the overall level nor that of any subsystem (the checks are
  `elif` chains, in which a worse reading takes another branch);
- `ScreensTell` and `RulesAgree`, of the next two modules.

### Display (`tui/format.py`, `tui/screens.py`, `cmd_status`), Rules (`grafana/`)

`Display` is what a reader is told of a snapshot: the dashboard's banner and
panels (`Dashboard`), the system and services screens, `mother-ticker status`. A
line is its words and numbers without their formatting. `Rules` is what is made of
the metrics outside the unit: `Fires` is the set of rules of
`mother-ticker.rules.yml` whose expression holds, `Stats` and `UpdateStats` the
colours of the dashboard's stat panels. Both are pure, and the run
`health_evaluate` reads them on each host it reaches:

- `ScreensTell`: the dashboard hides nothing but a warm, full or throttled host
  under a critical banner; alarming words are on a coloured panel, and a red panel has
  alarming words or is chrony's with a large offset; a source that cannot be read
  is said to be unknown somewhere, even where `evaluate` takes it for fine;
- `RulesAgree`: a rule about time never fires beside a green banner, a critical one
  fires exactly beside a red one; a rule about updates fires only when the host panel
  says so; the stats about time are never worse than the Health stat, and a red
  Health stat has a red one beside it, or a service, offset or temperature. It
  needs that the unit warns no later than the rules (`RulesAssumption`), which holds
  of the values shipped.

### Alerting (`grafana/rules`, `metrics/prometheus.py`)

The way to the operator: `Exporter` as a component, with a scraper around it.
`Scrape` reads the page and advances each health rule by the scrapes its expression
has held (`HOLDS_FOR`, 3 for a scrape that gets nothing, 2 for critical and 3 for a warning,
in place of minutes); a scrape without an answer sets `up` to 0 and ends the
series, the page from before the first refresh has no series either. `panel` is the
dashboard's last value that was not null. `NetworkChanges` cuts the unit off.

Run `alerting`, with no packages (`exporter` has them):

- `CriticalIsPaged`: a unit that stays critical comes to fire a critical rule for
  good, the one on its level with a red panel, or the one on the missing scrape;
- `AlertsClear`: a unit that stays healthy and can be reached comes to have no rule
  pending and a green panel.

Both have the premise `WayStands`: in the end the exporter is no longer stopped, killed
or booted, its refresh goes on ending with a new page, and the network no longer
flaps. It says where the rules are blind: a refresh that always raises leaves
a page of long ago and `up` at 1; a scrape that fails every other time, an
exporter that keeps dying, or a level that alternates between 1 and 2 holds no rule
for long enough. Fairness: that of the exporter, and the scraper works (weak
fairness of `Scrape`).

### Config (`config.py`), Demo (`tui/demo.py`)

Pure operators, proved about and not model-checked. `Config` goes from a parsed TOML
file to the settings: `ConfigFromDict` is a `ConfigError`, an exception nobody
catches, or the settings, with Python's conversions (`ToInt`, `ToBool`, ...) as
they are. `tomllib` is external. A string may be a number to `float()` and none to `int()`, `inf`
and `nan` are floats that no range refuses, and a file that cannot be read or is not UTF-8
is a traceback, not a `ConfigError`. `Demo` makes the three snapshots of `--demo` and
evaluates them under the thresholds shipped, by an instance of `Display`.

### HealthLadder, HealthCheck, RebootPolicy (`health/check.py`)

`HealthLadder` is the pure part, `decide`: from a report, the saved counters and
the uptime to the commands and the counters to save. `HealthCheck` is the whole
check as systemd runs it: `StartCheck` (gather, load, decide), then one action
per command and outcome (`CommandSucceeds`, `CommandFails`, `CommandTimesOut`),
then `Save` or `SaveFails`. `KilledBySystemd` is `TimeoutStartSec=90`: each
command that hangs costs 60 s, so with `HANG_BUDGET = 1` the second one is cut
and nothing is saved. (This is for a collection of less than 30 s. On a host where gpsd,
`chronyc` and `systemctl show` all hang as well, at up to three times 5 s for the
first and 5 s for each call of the others, even the first wait is cut: the same
outcome, one command earlier.) `RebootCompletes` and `PowerCut` start a boot with no file.
`HostChanges` replaces the snapshot at any time, and
`GatherRaises` is a collector that throws: the check ends before the ladder counts
anything.

History variables record what the checks really found; no other variable depends on
them. `streak`, `rows` and `since` speak of the current row of critical checks, `found`
and `blamed` count all of them since the last recovery on record. `lost` says that a
check left no record since that recovery: a kill or a failed save lets an old counter
live on, so that the file may join two rows into one. It never holds more than `found`
and `blamed` do, lost or not.

`RebootPolicy` is the promise about reboots, without any counter: only after
`REBOOT_AFTER` critical checks in a row (after a lost record: that many with no recovery
on record between them), and only after `MIN_UPTIME` checks of uptime. `Policy` is that module with the
check's variables for its own (`INSTANCE ... WITH`), and `PolicySpec` says that every step
of the check is a step of the policy or changes nothing it speaks of.

Run `health_check`: two units, three host conditions (degraded, gpsd dead, PPS
gone), no command stuck or those of gpsd and the reboot, restarts after 2 checks,
reboot after 3, a floor of 4, one hang, one failed reboot order per boot, the tally
of restarts saturating at 1. The floor is above the reboot threshold, so
that the count passes it before the floor does, and a row of four checks spans the
back-off. Safety:

- `CountersBacked`: the file never claims more critical checks in a row than
  there were;
- `CommandsJustified`: every restart and reboot on the list is backed by checks
  that really ran, and by the floor;
- `RestartsBackOff`: restarts of one subsystem in one row are at least
  2 x `RESTART_AFTER` checks apart;
- `PolicySpec`: the refinement.

Liveness, on the same instance:

- `RebootsUntilCured`: on a host that stays critical, and whose commands return,
  reboots go on, whatever fails in between;
- `RecoveryIsRecorded`: once the host stays out of critical the file ends with
  no counts.

Fairness: a check starts, or throws, again and again (weak: the timer has
`OnUnitActiveSec`), the steps of `apply` weakly (each command ends by itself or by its
60 s timeout, or the whole check is killed), `Save` strongly (a disk that accepts
writes again and again takes one in the end; `SaveFails` remains possible for ever
many checks), `RebootCompletes` weakly (systemd finishes an accepted reboot). The
premises say the rest: the power stays on and `gather` returns again and again
(`KeepsChecking`). Nothing is assumed of the host or of a command's outcome; the
bound `MAX_FAILED_REBOOTS` stands for "systemd does not refuse for ever".

### Exporter (`metrics/alerts.py`, `metrics/prometheus.py`, `collectors/updates.py`)

`Collect` is one turn of `cmd_exporter`'s refresh up to the decision: gather,
evaluate, `consider`, which remembers the observation *before* anything is sent.
Then each alert is sent by `PostSucceeds`, `PostFails` (counted) or
`PostRaises` (an exception that leaves `send`, drops the alert behind it and ends
the turn in `serve_forever`). `Publish` replaces the page. `SigTerm`, `Exit`,
`Killed` and `Boot` end the process. The world is `level`, the package `lists`
and the `file`; the daily check is `CheckSucceeds`, `CheckFails` (the simulation
fails, and the file lists fewer packages as if checked now) or `CheckCut` (no
file is written).

`told` is what a receiver that has missed nothing was told last, `None` when it
may have missed something: after a lost POST, or a restart, because the first
observation of a process is silent (`tests/test_updates_alerts.py`). `announced`
counts how often a package was called new while it stayed pending.

Run `exporter`: one package, both floors of `min_level`, every level:

- `ReceiverInStep`: a receiver that missed nothing knows on which side of the floor the
  level is. This is what the documents promise; it does not use that the code also
  sends for moves above the floor (see the divergences);
- `NeverToldTwice`: it is never told the same level twice running;
- `AnnouncedOnce`: a pending package is announced once, unless a failed check
  or a boot dropped it from the file;
- `PageSurvivesBrokenWebhook`: even if every POST raises, the page comes to show
  the level and the counters.

Fairness: systemd restarts the exporter (`Restart=always`), the loop's steps go
on, a POST ends by its timeout in one of its three ways. Counters saturate at
`COUNT_MAX`, 1 in this run and 2 where a violation needs two alerts in a turn.

### SyslogRelay, RelayLog (`metrics/syslog.py`)

The loop (`Build`, `BuildRaises`, `Tick`, `Restart`), the sender (`Connect`,
`ConnectFails`, `SendSucceeds`, `SendFails`) and, external to the repository, the
network and the relay. A frame is `LEN` pieces, because `sendall` may stop after
any of them; the last holds the newline, the first the octet count. A connection
can die without the sender knowing, and sends into it succeed until a reset
comes back. All three modes (`udp`, newline, octet-counted) are initial states.

Run `syslog_relay`: two connections at a time (one closing while the next is
used), frames of 2 pieces, 3 pieces of kernel buffer (a second message can block
inside its frame), 4 messages told apart per process, later ones share a number
and leave no history:

- `NoMergedMessages`: a connection carries whole messages and at most one cut
  one, at its end;
- `FailuresSurfaced`: a message the relay read carries exactly the number of sends of
  its process that failed before it;
- `LogSpec`: the refinement of `RelayLog`, which has neither sockets nor framings nor
  networks: a process writes messages, gives up the one in hand, may lose what it has
  sent without knowing, and what is heard was not given up and carries the exact count
  of those before it that were (so the count never overstates what the relay missed; it
  may understate it: a send into a dead connection counts as sent);
- `RelayHearsAgain`: once the relay stays reachable, over TCP, it hears again and
  again with nobody restarting the exporter.

Fairness: every socket call ends within its 5 s, the loop goes on, what is on a
live wire arrives, a reset comes back in the end.

### GpsdReports, GpsdSession (`collectors/gpsd.py`, `bench/fake_gpsd.py`)

`GpsdReports` is `merge_reports` and the end of `collect_gnss`. `GpsdSession` is
one session after another: the client connects (`Connect`, `ConnectFails`), reads
(`Recv` is one turn of the loop of `_read_until`, `RecvTimesOut`, `RecvEnd` and
`RecvReset` the ways out of it) and concludes. The server is the one of
`fake_gpsd.py`: `StartWatch` answers the watch command with DEVICES, WATCH, and
SKY and TPV at once, `NextCycle` follows every interval. A report is two pieces,
and the stream is three counters: written, arrived, read. The receiver may change
between cycles, pieces may be as late as they like, and gpsd may end in the middle
of a write (`ServerEnds`) or reset the connection.

Run `gpsd_session`, a timeout of three ticks, an interval of one, three cycles (one
more than the latest and the one before it):

- `SessionBounded`: a session ends in less than *twice* the timeout (the deadline
  is looked at between two reads, and each read waits for a full timeout);
- `NoFixHasAReason`: the client never reports a receiver without a fix because it
  stopped listening too early;
- `OneMoment`: the fix is the one of the last whole TPV, and the satellites are of
  the same cycle or the next.

The client is prompt: no time passes while its `recv` has something to return.
Nothing is assumed of the server or the network.

### Maintenance (`mother-ticker-maint.sh`)

Two settings for the next boot, `cmdline` (overlay) and `fstab` (boot partition),
what is mounted now, and per invocation a place in the script: `Guard` ("nothing
to do"), `FirstCommand`, `SecondCommand`, `OrderReboot`. `CommandFails` is `set -e`,
with the command's effect done or not; `Cut` is a caller that went away (the TUI
lets go after 120 s) and took the script with it; `Boot` is a reboot or a power cut at
any moment. `raspi-config` is external, modelled by what the script relies on: that
the boot partition must be writable to switch the overlay.

Run `maintenance`, two invocations that may overlap, any number one after another:

- `BootPartitionFollows`: the boot partition is read-only at the next boot only
  under the overlay;
- `SuccessDelivers`: what exit 0 means, "nothing to do" included. `on` has made both
  filesystems writable for the next boot. `off` has the overlay on; the boot partition
  is read-only as well unless an invocation before it stopped between its two commands
  (`interrupted`), because the retry looks at the overlay alone and does not finish;
- `RebootsWhole`: no reboot is ordered into half a change.

All three hold as long as no two invocations have overlapped, whatever fails; what
an overlap costs is the run `maintenance_on`.

### Tui, Console (`tui/app.py`, `tui/screens.py`, `mother-ticker-login.sh`)

The UI thread is an event loop that does one thing at a time: one action is a key
with the handler it reaches, or a hand-over from another thread with everything it
updates. `stack` is `screen_stack`; a screen is a record of its class and what it was
opened for (`of`: the unit of a journal, the command of a question). `busy` is the
command whose `subprocess.run` holds the UI thread, or the admin's `su`: while it is
set no key is handled and nothing is handed over. `collector` is `_collect_loop`
(gather, wait for the UI thread, sleep, and `raised` when a collector threw) and
`handed` what it passed to `call_from_thread`; `loads` are the threads of
`JournalScreen._load`, which outlive their screen. `proc` is the login script: the
TUI, its end, the shell behind exit code 10, and the restart by systemd. `typed` and
`late` are history.

Textual is external. Modelled of it: screens handle keys one at a time and the top
one gets them, a modal question sees no binding of the app but Ctrl+Q, a failed worker
ends the app, the end of the app cancels workers and waits for their threads, a
cancelled worker's failure is ignored. Not modelled: that two keys may reach a
screen's queue before the first is handled; what screens other than the dashboard
and the journal show.

Run `tui`, two services, all keys and options, no bound on the length of a session
(the stack bounds itself: five screens at most):

- `ConsoleSpec`: the refinement of `Console`, which has no keys, stack, threads or
  script. There a command is asked about on a screen that offers it, runs once, alone
  and with no question open, only after an answer that was meant (something else than
  Enter was typed: "No is the default answer"), also for keys typed ahead; and the
  session ends in a shell only after the same. `Place`, `Seen`, `About` and `Meant` are
  what an operator sees of the TUI;
- `OneLateSnapshot`: however long a command held the UI thread, at most one snapshot
  from before its end is shown after it;
- `RightJournal`: a journal screen shows its own unit, whatever loads return late;
- `EachScreenOnce`: no screen is on the stack twice;
- `BannerFollows`: when the level stays, the dashboard comes to show it, if the TUI
  is not quit, killed or crashed for ever and nobody stays in a shell;
- `LeavesInTheEnd`: quitting ends, wherever the threads are.

Fairness: systemd starts the TUI again (`Restart=always`), collectors and commands
have timeouts, and asyncio serves what is handed to it in order, which is strong
fairness of `Publish`, `WorkerFailed` and the loads: commands may interrupt their
turn again and again. `HANDED_MAX = 2` is one more than the code can fill
(`NothingPilesUp`).

## Where the code and its documents part

Four runs expect TLC to find a violation; each refutes a sentence of the
repository (quoted in `PROJECT.json` under `findings`).

- `health_check_hang`: a gpsd that hangs on restart is ordered to restart twice
  in a check (as the cause of `gnss` and as a stopped `service`). The second
  60 s wait passes `TimeoutStartSec=90`, systemd kills the check before it
  saves, the counters never advance, and the host is never rebooted.
- `exporter_uncounted`: an answer that is not HTTP raises
  `http.client.HTTPException`, which `send` does not catch: the alert is neither
  sent nor failed, and the one behind it is dropped.
- `exporter_reannounced`: a failed simulation is saved as a check that found
  less, so the next good one announces old packages as new.
- `maintenance_on`: an `on` and an `off` that overlap can leave the boot partition
  read-only without the overlay, for good: each later `on` finds "nothing to do".

Smaller ones met while reading, with no run of their own:

- `docs/alerts.md` lists warnings of the host for the banner; under a critical banner
  the dashboard shows them nowhere (`ScreensTell` has the exact exception).
- `ARCHITECTURE.md:176` says restarts back off. The back-off is kept per subsystem:
  a stopped gpsd is restarted twice in one check, once as the cause of `gnss` and
  once as a stopped `service` (the order behind `health_check_hang`).
- `ARCHITECTURE.md:148-150` says evaluation warns about updates; `evaluate` does
  not look at them.
- `docs/alerts.md:74-75`, `ARCHITECTURE.md:154-155` and `alerts.py:5-6` say a health
  message goes out when the level crosses the floor in either direction. With the floor at
  warning a move between warning and critical crosses nothing and is sent too
  (`moved_while_high`, `alerts.py:100`; no test covers it). Theorem
  `ReceiverKnowsLevel` is what follows from that; `ReceiverInStep` asks for the crossings
  alone.
- `alerts.py:6-7` says a message follows when the set of security updates
  changes; only additions do. `alerts.py:96` says "last sent" where the code
  keeps the last observed.
- `docs/alerts.md:12` has GPS lost as a warning; no fix at all is critical. Its table
  has no critical offset and no critical temperature, and names gpsd and chronyd where
  any unit of `tui.services` counts.
- `docs/bench.md:121` expects a message after restarting the exporter in a
  critical state; the first observation of a process is silent.
- `LadderState.load` does not catch the `UnicodeDecodeError` of a file that is not
  UTF-8; `save` replaces the file in one rename, so no step of the code writes
  such a file.
- `model.py:222` calls a snapshot "gathered at one instant"; `gather` runs the
  collectors one after another, each for up to several seconds, and the time it
  carries is the one before the first.
- The Grafana rule `MotherTickerServiceRestarting` ("The health ladder is restarting a
  service") and the dashboard's "Service restarts" read `NRestarts`, which counts
  systemd's automatic restarts and not the `systemctl restart` of the ladder.
- A pending leap second is a warning of `evaluate` that no metric shows: among the
  metrics, `mother_ticker_health_level` is 1 for no visible reason.
- `_read_until` says "until ... the timeout passes"; it may take almost twice that
  (`SessionBounded` is the bound that holds).
- `mother-ticker-maint.sh:5` says `off` reboots. An `off` that failed between its two
  commands, or ran with `--no-reboot`, makes the next one find "nothing to do": it
  exits 0 and does not reboot, and in the first case leaves the boot partition
  writable (the exception of `SuccessDelivers`).
- "Ctrl+A, from any screen" (`README.md`) does not hold on a question:
  `ConfirmScreen` is modal and binds only y, n and Esc.
- A second reload of a journal leaves the thread of the first running
  (`exclusive=True` cancels the worker only), so the older text may be shown last.
- `docs/alerts.md:15` promises an alert when the update check "never ran or its lists are
  stale". The metric of `MotherTickerUpdateCheckStale` is absent as long as no check
  ran, so the rule never fires then; and a check that keeps failing saves `checked_at` as
  now, so `rules.yml`'s "or the check keeps failing" does not either.
- `updates.stale_after_s` ("how stale is too stale", `config.py:105`) is read from
  the file and used nowhere.
- `updates.py:9` says the health banner follows from the file. `evaluate` does not
  read it, and there is no subsystem `updates` for the colour that `screens.py:158`
  asks for.
- `metrics/model.py:198`, "the daily update check has run since boot": without the
  overlay the file survives a boot.
- The Grafana stat for satellites is amber below 6, where the unit has nothing to say.
- `ConfigError` is documented for "missing a required value" (`config.py:28`); nothing is
  required. A number that does not convert leaves as a traceback instead of exit 2,
  keys of no setting are ignored, `allow_shell = "false"` is true, `services = "gpsd"` is
  four services of a letter each, and a threshold of 0 is taken (`LoadedTypes` says
  what does hold).
- `check.py:10-12`: gpsd is restarted "when gpsd is unreachable or the fix has been lost
  with the receiver silent", and chronyd while "PPS and GNSS are fine". `decide` restarts
  gpsd only when it is unreachable, and does not look at GNSS before it restarts chronyd.
- Exit 2 of `mother-ticker status` is a critical level or a bad configuration file.
- A role cut between `off --no-reboot` and its own reboot skips both when it is run
  again (`overlay.yml:12`), and fails its last assertion until somebody reboots.

## Proofs

`HealthCheckProofs` proves, for every set of units and snapshots and all
thresholds:

- `TypeCorrect`: `Spec => []TypeOK`;
- `CountersAreBacked`, `CommandsAreJustified`: the two invariants of that name;
- `ImplementsPolicy`: `Spec => PolicySpec`;
- `RestartsDoBackOff`: `RestartsBackOff`;
- `LadderActsInTime`: the other half of `CommandsAreJustified`. As long as no record was
  lost, the check that makes the threshold orders the restart or, with the uptime met and
  no reboot order that failed before, the reboot. `RebootsUntilCured` rests on this step.

The two invariants are not inductive. While a check runs, what is known about
the counters in the file (they are backed by what was found *before* this check)
differs from what is known about the counters to be saved (backed by what was
found *in* it); `Invariant` states both, adds that a check which found nothing
critical has fresh counters, and that `lost` covers every way in which the two
can part. The bound that holds even then (`Earned`) needs that a save which ends the
count of what was found also writes a zero, per subsystem (`Control`). The refinement proof maps each action to a policy step under that
invariant. For the back-off, `Spaced` keeps the place of a counter in its period of
`2 * RESTART_AFTER` checks: as long as no record was lost it never runs ahead of the
checks since the last restart. To act in time, the counter must also not fall behind the
row (`Full`): only a lost record or a reboot order that did not take can do that.

`EvaluateProofs` proves, for every set of units, all thresholds and every host (not only
those TLC enumerates), in this order:

- of `Evaluate`, for every snapshot: `OneCriticalMessage`, and `WorseLooksNoBetter` (each
  check on a worse reading returns a problem that covers the old one);
- of the screens: `DashboardHidesOnlyTheHost`, `PanelsAgree` and `UnknownIsNamed`;
- `AlertTable`: what is critical in the report is what is critical among the readings of the
  snapshot (`CriticalIsBad`), and that is what is gone at the host (`BadIsGone`). The second
  half goes through the collectors; the hard one is the session of gpsd, where the
  report that counts is the last of its class (`LatestIsLast`);
- `CriticalIsInMetrics` and `RulesFollowTheLevel`, from the metrics' values;
- from `AlwaysAHost` (`Spec => [](host \in Host)`), the five properties of the run
  `health_evaluate`: `AlertTableHolds`, `MetricsTell`, `NeverLooksBetter`, `ScreensDoTell`,
  `RulesDoAgree`.

`ExporterProofs` proves, for every set of packages and every bound:

- `ExporterTypes`: `Spec => []TypeOK`;
- `ReceiverKnows`, `NoRepetition`: `ReceiverInStep` and `NeverToldTwice`, and
  `ReceiverKnowsLevel`, that above the floor the receiver knows the level itself
  (`LevelKnown`), which holds because the code does more than its documents say.
  They are inductive together only with what the receiver knows while an alert is on
  its way (`Behind`): that it is in step with the observation before;
- `UpdatesAnnouncedOnce`: `AnnouncedOnce`. The strengthening (`Known`) relates
  three memories: what the process observed, what the file holds and what was
  announced;
- `CountsNothingTwice`: the counters of alerts sent and failed never exceed the alerts
  that were handed to `send` (the run `exporter_uncounted` shows that they may fall
  short of them);
- `AlertingTypes`, `OneRuleAtATime`: `AlertingTypeOK`, and that no two health rules hold at
  a scrape, those pending are about the last one, and the panel agrees with it.

`SyslogRelayProofs` proves, for any number of connections, frames of any length, any
buffer and all three framings:

- `TypeCorrect`: `Spec => []TypeOK`;
- `MessagesStayApart`: `NoMergedMessages`. The strengthening (`Streams`) is on what the relay
  holds and what is under way taken together: each piece follows the one before, only
  the socket in use is open, a stream that may be written to ends with a whole message,
  and a dead one is empty;
- `FailuresAreSurfaced`: `FailuresSurfaced`. `Counts` says that each message that was sent,
  wherever it is, carries the number of those lost before it, and that what may be read
  whole is not lost. `NoFailureInvented` is the state of affairs at the relay that follows:
  no message counts more failures than there are numbers missing before it;
- `ImplementsLog`: `Spec => LogSpec`, under `Counts`. Most steps are seen by no one; the
  send that fails is the one that gives up, and a datagram or a last piece that arrives is
  the one heard.

`GpsdSessionProofs` proves, for every timeout, interval and number of cycles:

- `SessionIsBounded`: `SessionBounded`. The invariant (`Timers`) bounds the moment at which
  the current `recv` gives up, because it was entered before the deadline;
- `TypeCorrect`, `FixIsNotMissed`, `FixIsOfOneMoment`: `TypeOK`, `NoFixHasAReason` and
  `OneMoment`. The invariant relates what was written to the cycles of the receiver
  (`Stream`) and says why a session may have ended and with what (`Outcome`); the latest
  report of a class among those read is then found by its number.

`MaintenanceProofs` proves for any number of invocations `MaintenanceTypes`,
`OrderOfCommandsProtects`, `SuccessOfEachAction` and `NoRebootHalfway`, the last three
for a unit on which no two invocations have overlapped. The invariant
says what a script that stands at a place has already done (`Progress`), and that
without an overlap all others are idle, so that nobody can undo it. `Settled` says that the
two settings disagree only while a script is between its commands or after one stopped
there, which is what an `off` that finds nothing to do relies on. And about what the
run `maintenance_on` ends in (`Trapped`: root writable, boot partition read-only, now and
at the next boot): `NoWayOut`, no further call of the script and no reboot ever leads out
of it, and `TrapNeedsOverlap`, only an overlap leads into it.

`TuiProofs` proves, for every set of services, with and without the shell and the
admin login:

- `TypeCorrect`: `Spec => []TypeOK`;
- `ScreensOnce`: `EachScreenOnce`. It is not inductive; the invariant (`Orderly`)
  ranks the screens, and each lies on screens of a lower rank;
- `AsAsked`: a command starts, or the TUI makes way for a shell, only by an answer to its
  own question (`CommandAsAsked`). A question lies on the screen that offers its command
  (`Orderly` again), and the focus is on Yes only after a Tab (`Focus`);
- `JournalRight`: `RightJournal`, because a load that still has a screen to show
  itself on, and what is shown, belong to the journal screen of the stack
  (`JournalsOpen`), of which there is one;
- `OneLate`: `OneLateSnapshot`. The collector has one snapshot on its way and waits
  for it (`OneAtATime`), so once an old one has been shown none is left;
- `ImplementsConsole`: `Spec => ConsoleSpec`, one step per action. `Session` adds that
  commands and the way to the shell begin in a TUI with no question open;
- `NothingPilesUp`: never more than five screens (by their ranks) or one snapshot on its
  way, so `HANDED_MAX` never holds the collector up;
- `LeavingWindsDown`: what `LeavesInTheEnd` rests on. On its way out the TUI takes up
  nothing new, and each step of a thread brings it nearer to its end.

`ShippedProofs` proves of the configuration that an empty file is no file
(`EmptyFileIsDefault`) and that settings which load have the types the code reads
them with (`LoadedTypes`); and of the demo that each state has the level of its name
(`DemoLevels`) and that what it makes up twice agrees (`DemoReadingsAgree`).

The assumptions are the named `ASSUME`s of the modules (thresholds are positive, `None`
is not a level, a set of packages, a service or a command; for the readings, that the
marks for an unreadable source are no numbers; for the rules, that the unit warns no later
than they do), which TLC evaluates on each run that extends the module, and in
`LoadedTypes` that the strings `Config` takes for numbers stand for numbers.

Only model-checked: the liveness properties (`RebootsUntilCured`, `RecoveryIsRecorded`,
`PageSurvivesBrokenWebhook`, `RelayHearsAgain`, `BannerFollows`, `LeavesInTheEnd`,
`CriticalIsPaged`, `AlertsClear`), which need fairness. Every invariant, action property
and refinement of the passing runs is a theorem.

## Not modelled

Text: message wording, RFC 5424 syntax, the Prometheus exposition format, TOML, screen
layout, units and formatting, art and screenshots. The field syntax of `chronyc`, sysfs
and `/proc`: `Readings` starts from fields. Positions, chrony's list of sources and
the network, on which nothing depends, and so the GNSS, chrony and network detail
screens. Of `fake_gpsd`, the requests the collector never sends. The rules on counters
over an hour (`increase(...)`), and the graphs. Provisioning: tasks that run once. A
`healthcheck` run by hand next to the timer's is left out: systemd never starts a
oneshot twice. The scrape handler against `MetricsCache.update`: both hold one lock
for one assignment, and `Alerting` reads the page in one step.

## Plan

The modules in the order they were written; what each says is above.

1. `HealthEvaluate`, `HealthLadder`, `HealthCheck` with `RebootPolicy`, and
   `HealthCheckProofs`: what can restart a time server matters most.
2. `Exporter`, `ExporterProofs`: what the operator is told.
3. `SyslogRelay`: what the isolated unit tells its relay.
4. `Readings`: from the raw answers to the snapshot and to the metrics.
5. `GpsdSession`: the one collector that keeps a conversation, and its bound.
6. `Maintenance`, `MaintenanceProofs`: the two settings and the script.
7. `Tui`, `TuiProofs`: the collector thread against the UI thread, the screen stack, the
   confirmed actions, the login loop around it.
8. `Display`, `Rules`: what the readers of a snapshot and of the metrics are told.
9. `Alerting`: the exporter, the scraper and the rules together.
10. `Config`, `Demo`, `ShippedProofs`.
11. `EvaluateProofs`, `SyslogRelayProofs`, the rest of `GpsdSessionProofs` and the back-off
    in `HealthCheckProofs`.
12. `RelayLog`, `Console` and the refinements into them; the exporter's promises carried over
    to `Alerting`; that the ladder acts in time, that nothing piles up in the TUI, and
    what an overlap of maintenance invocations costs.

Left: an order on the loads of one journal screen (two reloads may show the older text
last, which is a divergence above and has no property); the rules on counters
over an hour; the refresh loop of the update file composed with the rules about it.

## Running

    tlc -workers 2 -config HealthCheck.cfg MCHealthCheck
    tlapm HealthCheckProofs.tla
