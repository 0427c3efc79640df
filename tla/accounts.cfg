SPECIFICATION Spec
CONSTANTS
  Emails = {e1, e2}
  Subs = {s1}
  MaxCalls = 3
  Earlier = Earlier
  Nobody = Nobody
  None = None
INVARIANTS
  RowsConsistent
  LastChoiceCounts
  BootstrapOnce
CHECK_DEADLOCK FALSE
