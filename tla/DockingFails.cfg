SPECIFICATION Spec
CONSTANTS
  app = app
  server = server
  Callers <- MCCallers
  TheServer = server
  Failures = TRUE
  Exceptions = FALSE
  PatientStart = TRUE
  MaxSessions = 2
  MaxNewtons = 2
  MaxCalls = 0
  MaxStarts = 1
  MaxStops = 1
  MaxActs = 1
PROPERTY OldPipeGoes
CHECK_DEADLOCK FALSE
