SPECIFICATION MCSpec
CONSTANTS
  a = a
  b = b
  c = c
  d = d
  e = e
  f = f
  Calls <- MCCalls
  MaxConcurrent = 1
  MaxQueue = 1
  MaxInflight = 2
  AuthMax = 1
  Throttled <- MCRoutes
INVARIANTS ThrottleHolds InflightExact
PROPERTIES LineIsSemaphore RequestsAnswered
