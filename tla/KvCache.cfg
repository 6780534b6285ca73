SPECIFICATION Spec
CONSTANTS
  Keys = {1, 2}
  Values = {1}
  Ttls = {0, 1}
  Priority <- TwoKeys
  MaxLevel = 2
  MaxNodes = 3
  MaxTime = 1
INVARIANTS TypeOK ListComplete LevelsNested AnswersExact
PROPERTIES KeysIndependent
