SPECIFICATION Spec
CONSTANTS
  Browsers = {b1, b2}
  Challenges = {c1, c2, c3}
  Requests = {q1, q2}
  Workers = {w1, w2}
  First = w1
  None = none
  Legacy = legacy
  Settings <- SettingsChecked
  MaxPasswords = 1
  MaxFaults = 1
SYMMETRY Symmetry
INVARIANTS
  ChallengeUsedOnce
  SessionsAreKept
  PasswordEndsSessions
  KeyOpens
  BrowsersShareKey
PROPERTIES
  KeyIsKept
CHECK_DEADLOCK FALSE
