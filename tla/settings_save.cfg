CONSTANTS
  h1 = h1  h2 = h2  r1 = r1  r2 = r2  v0 = v0  v1 = v1
  Handlers = {h1, h2}
  Movers = {r1, r2}
  Main = Main
  None = None
  Ports = {1, 2}
  EnvPort = 1
  Values = {v0, v1}
  FirstValue = v0
  Schema = 2
  MaxSaves = 2
  MaxTakes = 1
  MaxErrors = 1
  MaxEnds = 1
SPECIFICATION Spec
INVARIANTS NoLostUpdate MemoryFollows SchemaWhole Drained
PROPERTIES Reachable Answered Exits
CHECK_DEADLOCK FALSE
