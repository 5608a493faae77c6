CONSTANTS
  Guards = {g1, g2}
  Free = Free
  MaxIssued = 6
  MaxKills = 1
  MaxRevoked = 1
  Tools = {"t1", "t2"}
  Patterns = {"own", "default"}
  Names = {"s1", "s2"}
  Vars = {"KEY1", "KEY2", "V1", "V2"}
  DefaultDeny = {"default"}
  DefaultKey = "KEY1"
  Environ <- SmallEnviron
  Entries <- SmallEntries
  Texts <- FewTexts
  MaxChanges = 2
SYMMETRY Symmetry
SPECIFICATION ProxySpec
INVARIANTS
  FileHeals
  ChildComplete
  CallsAgree
\* What can be issued is bounded.
CHECK_DEADLOCK FALSE
