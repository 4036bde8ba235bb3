SPECIFICATION Spec
CONSTANTS
  Families = {"share", "comb", "cond", "call", "square", "unsigned", "fold"}
  Sources <- AllSources
  Address <- MCAddress
  Initially <- MCInitially
  Junk = {0, 31111}
INVARIANTS
  FoldExact
  LiveHeld
  CodeExact
