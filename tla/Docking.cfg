SPECIFICATION Spec
CONSTANTS
  app = app
  server = server
  Callers <- MCCallers
  TheServer = server
  Failures = TRUE
  Exceptions = TRUE
  PatientStart = TRUE
  MaxSessions = 2
  MaxNewtons = 2
  MaxCalls = 1
  MaxStarts = 2
  MaxStops = 1
  MaxActs = 2
INVARIANTS DockingIInv NoDanglingPipe NeverStuck ListensWhileUp
PROPERTIES ServerSafety PipeClosed CallAnswered StopServed RequestHonoured
CHECK_DEADLOCK FALSE
