SPECIFICATION Spec
CONSTANT
  Inputs <- Ints
  MaxInt = 63
INVARIANT
  SieveCorrect
  SumsExact
  PageShowsSums
PROPERTY
  Terminates
CHECK_DEADLOCK FALSE
