\* Two operations in a session; a rename of a condition makes two entries.
SPECIFICATION Spec
CONSTANTS
  Size = 4
  MaxEdits = 2
  Dyns = {"d1", "d2"}
  Conds = {"c1", "c2"}
  CondPorts = {"k", "l"}
  Views = {"v1", "v2"}
  Obs = {"o1", "o2"}
  ObsPorts = {"q", "r"}
  Models = {"a", "b", "c"}
  Ports = {"p1", "p2"}
  Outputs = {"vle.output", "other"}
  InitialDoc <- MCDoc
INVARIANTS
  UndoExact
  NamesResolve
  UnstarredIsSaved
