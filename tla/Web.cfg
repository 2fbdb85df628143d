\* Two requests overlap, and two codes are rotated.  The window is longer than
\* the lockout and the limit more than one, as in the code (5 in 60 s, 30 s).
CONSTANTS
  r1 = r1
  r2 = r2
  c1 = c1
  c2 = c2
  Requests = {r1, r2}
  Codes = {c1, c2}
  NoCode = NoCode
  MaxFailed = 3
  Window = 4
  Lockout = 2
SPECIFICATION Spec
INVARIANTS AttemptsBounded SessionsAreCurrent
PROPERTY LockoutLifted
