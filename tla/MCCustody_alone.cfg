SPECIFICATION Spec
CONSTANTS
  NULL = NULL
  Agent = {a1, a2}
  ApiKey = {k1}
  Passphrase = {w1, w2}
  Proc = {p1}
  MaxOpen = 1
SYMMETRY Symmetry
INVARIANTS CreatedKeysKept MissingIsLoud
PROPERTY PassphraseStays
CHECK_DEADLOCK FALSE
