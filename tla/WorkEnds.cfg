CONSTANTS
  t1 = t1
  t2 = t2
  t3 = t3
  k1 = k1
  k2 = k2
  Threads = {t1, t2, t3}
  Keys = {k1, k2}
  MaxFailures = 2
  Requests = {r1, r2}
  Kinds = {"v1_users", "v1_ask_stream", "create_user", "get_profile", "clean_profile"}
  MaxStops = 1
  Free = Free
  NoChart = NoChart
  NoFile = NoFile
  Torn = Torn
  Charts = {c1}
  TimeContexts = {none}
  Aspects = {"CAREER"}
  MaxWorkers = 1
  MaxTurns = 1
SPECIFICATION EndsSpec
INVARIANTS
  OneComputationPerKey
  AnswersAreOwnOrExcused
PROPERTIES
  EveryCallReturns
  WorkEnds
CHECK_DEADLOCK FALSE
