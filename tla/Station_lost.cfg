CONSTANTS
  Width = 3
  MaxGap = 3
  MaxTotal = 26
  CanLose = TRUE
SPECIFICATION Spec
INVARIANT CounterExact
