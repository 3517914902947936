SPECIFICATION Spec
CONSTANT
  Inputs <- MCInputs
INVARIANT
  TypeOK
  FactorsMultiply
  FactorsPrime
  PageIsFactorization
PROPERTY
  Terminates
CHECK_DEADLOCK FALSE
