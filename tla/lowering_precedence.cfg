SPECIFICATION EitherSpec
CONSTANTS
  Literals <- MCLiterals
  Written <- IamWritten
  Styles = {"minimal"}
  BitWidth = 3
  Sources = {}
  Authored = {}
  Formulas = {}
  Words = {}
  Valuations = {}
  StepFields = {}
  Numbers = {}
INVARIANT LoweringKeepsMeaning
CHECK_DEADLOCK FALSE
