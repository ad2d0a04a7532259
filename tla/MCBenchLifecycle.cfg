CONSTANTS
  Cpus = 2
  BootValues = {"ON", "custom"}
SPECIFICATION SpecMain
CHECK_DEADLOCK FALSE
INVARIANTS RegistersComeBack TestsRunAsAsked ReturnReleases
