--------------------------------- MODULE Config ---------------------------------
(***************************************************************************)
(* config.py: from the TOML file to the Config that every entry point      *)
(* reads.  Settings are named by their key, with the section before it     *)
(* where two sections have the same key.  A TOML value is a record         *)
(* [type, value].  Whole settings are numbers; the others that are numbers *)
(* are counted in thousandths, and so is the value of a TOML float.        *)
(***************************************************************************)
EXTENDS Integers, Sequences

CONSTANTS
  None,            \* Python's None
  NoText,          \* the empty string
  Absent,          \* a key that is not in the file, a file that is not there
  NotReadable,     \* a file that cannot be read, or is not UTF-8
  NotToml,         \* a file that tomllib refuses
  NotFinite,       \* inf and nan
  IntText,         \* the strings that int() accepts, with their numbers
  FloatText        \* the same of float()

Section == {"gpsd", "pps", "metrics", "metrics.prometheus", "metrics.syslog", "health",
            "health.thresholds", "tui", "updates", "alerts"}

(* The fields of the dataclasses by their type, with their defaults. *)
Whole ==
  [gpsd_port |-> 2947, prometheus_port |-> 9101, syslog_port |-> 514, facility |-> 16,
   min_satellites |-> 4, restart_after_failures |-> 4, reboot_after_failures |-> 40,
   min_uptime_before_reboot_s |-> 1800]

Fraction ==
  [gpsd_timeout_s |-> 5000, pps_stale_after_s |-> 3000, prometheus_refresh_s |-> 5000,
   interval_s |-> 15000, offset_warn_s |-> 1, offset_crit_s |-> 100, temp_warn_c |-> 70000,
   temp_crit_c |-> 80000, disk_warn_pct |-> 85000, mem_warn_pct |-> 90000,
   tui_refresh_s |-> 1000, network_refresh_s |-> 30000, updates_stale_after_s |-> 259200000,
   alerts_timeout_s |-> 10000]

Truth == [reboot_enabled |-> TRUE, allow_shell |-> TRUE, ascii_only |-> FALSE]

Words ==
  [gpsd_host |-> "127.0.0.1", device |-> "pps0", bind |-> "0.0.0.0", syslog_host |-> "127.0.0.1",
   app_name |-> "mother-ticker", health_state_path |-> "/run/mother-ticker/health.json",
   admin_user |-> NoText, updates_state_path |-> "/var/lib/mother-ticker/updates.json",
   webhook_url |-> NoText, ntfy_topic |-> "mother-ticker", token_file |-> NoText]

Literal ==
  [site |-> "main-lan", mode |-> "none", transport |-> "tcp", framing |-> "newline",
   format |-> "json", min_level |-> "warning"]

Other == [hostname |-> None, services |-> <<"chrony", "gpsd">>]

Key == DOMAIN Whole \cup DOMAIN Fraction \cup DOMAIN Truth \cup DOMAIN Words \cup DOMAIN Literal
       \cup DOMAIN Other

Default ==
  [k \in Key |-> IF k \in DOMAIN Whole THEN Whole[k]
                 ELSE IF k \in DOMAIN Fraction THEN Fraction[k]
                 ELSE IF k \in DOMAIN Truth THEN Truth[k]
                 ELSE IF k \in DOMAIN Words THEN Words[k]
                 ELSE IF k \in DOMAIN Literal THEN Literal[k] ELSE Other[k]]

(* The literals' values, and the defaults config_from_dict() gives to get() itself. *)
Allowed ==
  [site |-> {"main-lan", "malware-net"}, mode |-> {"prometheus", "syslog", "none"},
   transport |-> {"tcp", "udp"}, framing |-> {"newline", "octet-counted"},
   format |-> {"json", "ntfy"}, min_level |-> {"warning", "critical"}]

Fallback ==
  [site |-> "main-lan", mode |-> "none", transport |-> "tcp", framing |-> "newline",
   format |-> "json", min_level |-> "warning", webhook_url |-> NoText, token_file |-> NoText]

-----------------------------------------------------------------------------
(* int(), float(), bool(), str() and tuple() of a TOML value. *)

Value ==
  [type : {"integer"}, value : Int] \cup [type : {"float"}, value : Int \cup {NotFinite}]
  \cup [type : {"boolean"}, value : BOOLEAN]
  \cup [type : {"string"}, value : STRING] \cup [type : {"array"}, value : Seq(STRING)]
  \cup [type : {"datetime", "table"}, value : {None}]

IsInt(v) ==
  \/ v.type \in {"integer", "boolean"}
  \/ v.type = "float" /\ v.value # NotFinite
  \/ v.type = "string" /\ v.value \in DOMAIN IntText

IsFloat(v) ==
  \/ v.type \in {"integer", "float", "boolean"}
  \/ v.type = "string" /\ v.value \in DOMAIN FloatText

Trunc(n) == IF n < 0 THEN -((-n) \div 1000) ELSE n \div 1000

ToInt(v) ==
  IF v.type = "integer" THEN v.value
  ELSE IF v.type = "float" THEN Trunc(v.value)
  ELSE IF v.type = "boolean" THEN (IF v.value THEN 1 ELSE 0) ELSE IntText[v.value]

ToFloat(v) ==
  IF v.type = "float" THEN v.value
  ELSE IF v.type = "string" THEN FloatText[v.value] ELSE 1000 * ToInt(v)

(* Any string but the empty one is true, "false" as well. *)
ToBool(v) ==
  IF v.type = "boolean" THEN v.value
  ELSE IF v.type \in {"integer", "float"} THEN v.value # 0
  ELSE IF v.type = "string" THEN v.value # NoText
  ELSE IF v.type = "array" THEN v.value # <<>> ELSE TRUE

(* Anything else has some text too; its type stands for it. *)
ToStr(v) == IF v.type = "string" THEN v.value ELSE v.type

(* A string is taken for the sequence of its letters, a table for its keys. *)
ToTuple(v) ==
  IF v.type = "array" THEN v.value
  ELSE IF v.type = "string" THEN [i \in 1 .. Len(v.value) |-> SubSeq(v.value, i, i)]
  ELSE <<v.type>>

-----------------------------------------------------------------------------
(***************************************************************************)
(* config_from_dict().  data has the names of sections that are no tables, *)
(* and for each key a value or Absent.  Sections and literals are looked   *)
(* at first, and what is wrong with them is a ConfigError, which cli.py    *)
(* turns into a message and exit 2; a value that cannot be converted is a  *)
(* ValueError, TypeError or OverflowError, which it does not catch.  Keys  *)
(* of no setting are not looked at, and no number is held against a range. *)
(***************************************************************************)
Data == [notTables : SUBSET Section, settings : [Key -> Value \cup {Absent}]]
EmptyFile == [notTables |-> {}, settings |-> [k \in Key |-> Absent]]

SectionsOk(data) == data.notTables = {}

Chosen(v, k) == IF v = Absent THEN Fallback[k] ELSE ToStr(v)
ChoiceOk(v, k) == (v # Absent => v.type = "string") /\ Chosen(v, k) \in Allowed[k]

Converts(v, k) ==
  /\ k \in DOMAIN Whole => IsInt(v)
  /\ k \in DOMAIN Fraction => IsFloat(v)
  /\ k = "services" => v.type \in {"array", "string", "table"}

Setting(v, k) ==
  IF k \in DOMAIN Literal THEN Chosen(v, k)
  ELSE IF v = Absent THEN (IF k \in DOMAIN Fallback THEN Fallback[k] ELSE Default[k])
  ELSE IF k \in DOMAIN Whole THEN ToInt(v)
  ELSE IF k \in DOMAIN Fraction THEN ToFloat(v)
  ELSE IF k \in DOMAIN Truth THEN ToBool(v)
  ELSE IF k \in DOMAIN Words THEN ToStr(v)
  ELSE IF k = "services" THEN ToTuple(v) ELSE v       \* hostname, of whatever type

ConfigFromDict(data) ==
  IF ~SectionsOk(data) \/ \E k \in DOMAIN Literal : ~ChoiceOk(data.settings[k], k)
  THEN [outcome |-> "ConfigError"]
  ELSE IF \E k \in Key : data.settings[k] # Absent /\ ~Converts(data.settings[k], k)
  THEN [outcome |-> "traceback"]
  ELSE [outcome |-> "config", settings |-> [k \in Key |-> Setting(data.settings[k], k)]]

(* load_config(): only what tomllib refuses becomes a ConfigError.         *)
LoadConfig(file) ==
  IF file = Absent THEN [outcome |-> "config", settings |-> Default]
  ELSE IF file = NotReadable THEN [outcome |-> "traceback"]
  ELSE IF file = NotToml THEN [outcome |-> "ConfigError"] ELSE ConfigFromDict(file)

=============================================================================
