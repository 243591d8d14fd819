SPECIFICATION Spec
CONSTANTS
  Symbols = {"A", "B", "MOD"}
  modules_sym = "MOD"
  TypeOf <- MCTypeOf
  Deps <- MCDeps
  ParentDeps <- MCParentDeps
  Prompts <- MCPrompts
INVARIANTS
  TypeOK
  AnswersKept
  VisibilityKept
  NormalForm
  SubmenuShown
CHECK_DEADLOCK FALSE
