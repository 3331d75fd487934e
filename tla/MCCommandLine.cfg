CONSTANTS
  CommandLines <- MCCommandLines
  Inputs <- MCInputs
  Numbers = {"5"}
SPECIFICATION Spec
INVARIANTS
  MenuIsUnderstood
  OptionsAreThePairs
PROPERTY
  ProgramEnds
