SPECIFICATION Spec
CONSTANTS
  Sessions = {s1, s2}
  Requests = {r1, r2}
  Objects = {o1, o2, o3}
  Deks = {d1, d2}
  Passphrases = {p1, p2}
  Creds = {c1}
  MaxResets = 1
  None = None
  Zero = Zero
  Torn = Torn
SYMMETRY Symmetry
CHECK_DEADLOCK FALSE
INVARIANTS CredentialsOpen KeysAgree KeysWiped
