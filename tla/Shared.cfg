CONSTANTS
  Requests = {r1, r2, r3}
  Kinds = {"v1_ask_stream", "cli", "clean_profile"}
  Charts = {c1, c2}
  MaxStops = 1
  Free = Free
  NoChart = NoChart
  NoFile = NoFile
  Torn = Torn
  Console = console
  Nobody = Nobody
  Legacy = Legacy
  HistoryNs = {0, 1, 5}
  MaxTears = 2
  MaxPrunes = 1
SYMMETRY Symmetry
SPECIFICATION SharedSpec
INVARIANTS
  ProfileStaysWhole
  RoundsPairUp
  TearsAreContained
  ThrowsKeepApart
PROPERTIES
  NoLostEdit
CHECK_DEADLOCK FALSE
