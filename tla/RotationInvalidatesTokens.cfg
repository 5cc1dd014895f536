\* One staff session, one computer, one address: the switch is off, the rule of
\* the computer requires a key.
CONSTANTS
    Staff = {s1}
    Computers = {c1}
    Addresses = {i1}
    MaxAccessOps = 3
SPECIFICATION AccessSpec
INVARIANTS RotationInvalidatesTokens
CHECK_DEADLOCK FALSE
