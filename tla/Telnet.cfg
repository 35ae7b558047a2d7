SPECIFICATION TelnetSpec
CONSTANTS
  Size = 3
  Frames = 2
  MaxChunk = 4
  MaxOutput = 9
  Options = {"ECHO", "NAWS"}
  Echo = "ECHO"
  WantLocal = {"NAWS"}
  WantRemote = {"ECHO"}
  SupportedLocal = {"NAWS"}
  SupportedRemote = {"ECHO"}
  Steps <- MCSteps
  Printable = {"login", "IAC"}
  Window = 2
  Capacity = 1
  ReadMax = 1
  MaxPrinted = 2
  MaxChanges = 1
  MaxKeys = 1
CHECK_DEADLOCK FALSE
INVARIANTS OutputFaithful ScriptYields
PROPERTIES NegotiationEnds

