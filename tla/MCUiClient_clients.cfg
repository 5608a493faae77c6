\* Two users of one tab, two handlers that wait at a time.
CONSTANTS
  Users = {u1, u2}
  Nobody = Nobody
  Names = {n1}
  NoName = NoName
  Slots = {h1, h2}
  MaxSessions = 2
  MaxClicks = 6
  MaxFaults = 1
  MaxVersion = 2
SYMMETRY Symmetry
SPECIFICATION Spec
INVARIANTS
  TypeOK
  OwnForm
  EditKept
\* Clicks are bounded.
CHECK_DEADLOCK FALSE
