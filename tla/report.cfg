SPECIFICATION Spec
CONSTANTS
  Requests = {r1, r2}
  MaxEvidences = 2
  MaxIds = 3
  Sources = {s1}
  Garbage = Garbage
  Text = Text
  None = None
  even = even
  skewed = skewed
  whole = whole
  Weightings <- MCWeightings
  Answers <- MCAnswers
SYMMETRY Symmetry
INVARIANTS
  ReportConsistent
  ObservedIsSubstantiated
  ReportReadable
CHECK_DEADLOCK FALSE
