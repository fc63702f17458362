SPECIFICATION Spec
CONSTANTS
  Saturated = 3
  MaxCount = 60
PROPERTY CountRefines
CHECK_DEADLOCK FALSE
