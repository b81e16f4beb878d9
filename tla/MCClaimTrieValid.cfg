SPECIFICATION Spec
CONSTANTS
  Claims <- TwoClaims
  Amount <- Amounts
  MaxHeight = 4
  MaxVersion = 1
  MaxDelay = 1
  MaxFaults = 0
CHECK_DEADLOCK FALSE
INVARIANTS
  SelectsNewlyValid
