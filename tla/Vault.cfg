SPECIFICATION Spec
CONSTANTS
  Servers = {s}
  Ids = {i}
  Endpoints = {e, f}
  Passwords = {p, q}
  MaxEntries = 1
  MaxFaults = 1
  s = s
  i = i
  e = e
  f = f
  p = p
  q = q
SYMMETRY Symmetry
INVARIANTS KeyKept SecretsAgree
