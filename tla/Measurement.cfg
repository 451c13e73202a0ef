CONSTANTS
  Samplers = {1, 2}
  FIELDS = 4
  UTIME = 3
  SYSTEM_FIELDS = 3
SPECIFICATION Spec
INVARIANTS
  ReadsOwnUtime
