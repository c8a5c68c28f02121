SPECIFICATION Spec
CONSTANTS
  Inputs <- SomeInputs
  MaxInteger = 1
INVARIANTS TypeOK ParsesBack AcceptsTheGrammar
