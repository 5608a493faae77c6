\* One runner; the window is one date and two weeks.
CONSTANTS
  RetainDaily = 1
  RetainWeekly = 2
  WeekLength = 2
  Plain <- Collections
  Agents <- TwoAgents
  PruneOrder <- TwoPrefixes
  PrefixOf <- PrefixOfSource
  Runners = {loop}
  MaxDay = 5
  MaxRuns = 5
  MaxFaults = 1
SPECIFICATION Spec
INVARIANTS
  TypeOK
  WindowKept
  WindowOnly
  LoopPlansWindow
  ManifestHonest
\* The days and the runs end.
CHECK_DEADLOCK FALSE
