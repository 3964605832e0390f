SPECIFICATION Spec
CONSTANTS
  BROWSERS = {b1, b2}
  EMAILS = {ana, bo}
  REGISTERED = {ana}
  IpOf <- MCIpOf
  ABSOLUTE = 3
  IDLE = 2
  REFRESH = 1
  WINDOW = 3
  BACKOFF_AFTER = 1
  LOCKOUT_AFTER = 2
  MAX_SESSIONS = 2
  MAX_GUESSES = 3
  MAX_TIME = 4
SYMMETRY Interchangeable
INVARIANTS
  ActiveStaysSignedIn
  GuessesAreBounded
PROPERTIES
  EndedStaysEnded
CHECK_DEADLOCK FALSE
