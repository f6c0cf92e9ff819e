SPECIFICATION Spec
CONSTANTS
  Names <- MCNames
  Slashed = {"x/y"}
  ProviderNames <- MCProviders
  BadRules = {"bad rules"}
  MaxCallable = 3
  Initial <- MCInitial
  GroupInputs <- MCGroupInputs
  RedirectInputs <- MCRedirectInputs
  ProviderInputs <- MCProviderInputs
  KeyInputs <- MCKeyInputs
  RuleInputs = {"bad rules", "new rules"}
  CascadeNames <- MCCascadeNames
  MaxEdits = 2
  MaxApplies = 1
  MaxCrashes = 1
INVARIANTS LookupsEnd RestartKeepsActive
PROPERTY EditsKeepDraft
CHECK_DEADLOCK FALSE
