\* Three sessions, up to three capture toggles, then stop().  Sessions are
\* interchangeable; no symmetry is declared, as StopReturns is a liveness property.
CONSTANTS
  Sessions = {s1, s2, s3}
  NoSession = NoSession
  MaxCaptureCalls = 3

SPECIFICATION Spec
INVARIANT SessionsFollowCapture ThreadsJoinedOnReturn
PROPERTY StopReturns
