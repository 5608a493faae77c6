\* The watch loop and a run command beside it, with or without --no-alert, killed
\* anywhere but in the middle of a write.
CONSTANTS
  Targets = {t1, t2}
  Procs = {watch, cron}
  Loops = {watch}
  Quiet = {cron}
  Threshold = 2
  CrashPoints <- WholeFile
  MaxCrashes = 1
SPECIFICATION Spec
CONSTRAINT InTurn
INVARIANTS
  AlertsAlternate
  HeardIsRemembered
  NoBlipPages
PROPERTY
  HeardEventually
