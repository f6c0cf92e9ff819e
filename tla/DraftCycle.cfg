SPECIFICATION Spec
CONSTANTS
  Names <- MCNames
  Slashed = {"x/y"}
  ProviderNames <- MCProviders
  BadRules = {"bad rules"}
  MaxCallable = 3
  Initial <- ChainOnly
  GroupInputs <- ChainGroupInputs
  RedirectInputs = {}
  ProviderInputs = {}
  KeyInputs = {}
  RuleInputs = {}
  CascadeNames = {}
  MaxEdits = 2
  MaxApplies = 1
  MaxCrashes = 0
INVARIANT RunningPlansEnd
CHECK_DEADLOCK FALSE
