SPECIFICATION Spec
CONSTANTS
  Invocation = {i1, i2}
SYMMETRY Symmetry
INVARIANTS TypeOK BootPartitionFollows SuccessDelivers
PROPERTIES RebootsWhole
