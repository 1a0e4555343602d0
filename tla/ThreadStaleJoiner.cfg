SPECIFICATION Spec
CONSTANTS
  Joiners = {j1}
  Nobody = Nobody
CHECK_DEADLOCK FALSE
INVARIANTS
  ResumesTheLiving
