SPECIFICATION FairSpec
CONSTANTS
  Order <- MCOrder
  Symbols <- MCSymbols
  modules_sym = "MOD"
  TypeOf <- MCTypeOf
  Prompt <- MCPrompt
  Defaults <- MCDefaults
  RevDep <- MCRevDep
  ValDep <- MCValDep
  ChoiceOf <- MCChoiceOf
  RangeOf <- MCRangeOf
  Children <- MCChildren
  Number <- MCNumber
  Numbers = {0, 1, 2, 3, 7}
  Inputs = {1, 3, 7}
  calc_value <- expr_calc_value
  Mentions <- MCMentions
  Given <- MCSelectedOnly
  MaxSteps = 1
PROPERTY
  UntilNoMoreChanges
CHECK_DEADLOCK FALSE
