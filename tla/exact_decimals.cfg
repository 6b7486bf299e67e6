SPECIFICATION Spec
CONSTANTS
  MaxCoeffDigits = 2
  ExpMin <- MCExpMin
  ExpMax = 1
  MaxStrDigits = 3
  Coefficients = {0, 1, 2, 5, 25, 99}
INVARIANTS
  ExactWorth
  FoldsWhatLiteralsCanSay
  OneEncodingPerValue
  ComparesWorth
CHECK_DEADLOCK FALSE
