\* Another user logs in where a session ended over an open form.
CONSTANTS
  Users = {u1, u2}
  Nobody = Nobody
  Names = {n1}
  NoName = NoName
  Slots = {h1}
  MaxSessions = 2
  MaxClicks = 6
  MaxFaults = 1
  MaxVersion = 2
SYMMETRY Symmetry
SPECIFICATION Spec
INVARIANT
  StartsClean
\* Clicks are bounded.
CHECK_DEADLOCK FALSE
