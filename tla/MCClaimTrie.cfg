SPECIFICATION FairSpec
CONSTANTS
  Claims <- TwoClaims
  Amount <- Amounts
  MaxHeight = 4
  MaxVersion = 2
  MaxDelay = 1
  MaxFaults = 2
CHECK_DEADLOCK FALSE
INVARIANTS
  TypeOK
  

  
