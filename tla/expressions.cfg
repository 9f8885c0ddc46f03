SPECIFICATION EitherSpec
CONSTANTS
  Literals <- MCLiterals
  Written <- MCWritten
  Styles = {"explicit"}
  BitWidth = 3
  Sources <- MCSources
  Authored <- MCAuthored
  Formulas <- MCFormulas
  Words <- MCWords
  Valuations <- MCValuations
  StepFields <- MCStepFields
  Numbers <- MCNumbers
INVARIANTS LoweringKeepsMeaning EncodingsAdequate FrontendExact
CHECK_DEADLOCK FALSE
