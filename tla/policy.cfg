CONSTANTS
  Callers <- MCCallers
  Domains <- MCDomains
  Enables <- MCEnables
  Configs <- MCConfigs
  MaxCalls = 1
  MaxWrites = 2
SPECIFICATION Spec
INVARIANTS PersonalExact
PROPERTIES AnswerWasTrue
CHECK_DEADLOCK FALSE
