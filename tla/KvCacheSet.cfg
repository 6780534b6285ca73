SPECIFICATION Spec
CONSTANTS
  Keys = {1, 2}
  Values = {1, 2}
  Ttls = {1}
  Priority <- TwoKeys
  MaxLevel = 1
  MaxNodes = 2
  MaxTime = 1
PROPERTIES SetReplaces
