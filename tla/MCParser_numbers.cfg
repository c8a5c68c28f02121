SPECIFICATION Spec
CONSTANTS
  Inputs <- SomeInputs
  MaxInteger = 1
INVARIANT NumbersAsWritten
