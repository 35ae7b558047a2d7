SPECIFICATION ConnectSpec
CONSTANTS
  k1 = k1
  k2 = k2
  k3 = k3
  Attempts = {a, b}
  Keys <- MCKeys
  TypeOf <- MCTypeOf
  Types = {"ed25519", "rsa"}
  Lines = {l}
  Kinds = {"terminal", "files", "telnet", "serial", "import"}
  None = None
SYMMETRY Symmetry
INVARIANTS KeysVetted AuthOnRecord NothingLeft
