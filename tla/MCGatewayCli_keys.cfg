\* One secret, the server and one command at a time, two salts.
CONSTANTS
  Names = {n1}
  Commands = {c1}
  Server = server
  NoFile = NoFile
  MaxSalts = 2
SPECIFICATION Spec
INVARIANTS Readable NeverBlanked
CHECK_DEADLOCK FALSE
