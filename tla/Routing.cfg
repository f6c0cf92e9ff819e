SPECIFICATION Spec
CONSTANTS
  Names <- MCNames
  Slashed = {}
  ProviderNames <- MCProviders
  BadRules = {}
  MaxCallable = 4
  DayMinutes = 1440
  Window = 6
  Nodes <- Nodes2
  Configs <- MCConfigs
  Requests <- MCRequests
  Ask <- MCAsk
  FormatsOf <- MCFormatsOf
  AddressOf <- MCAddressOf
  SpokeOf <- MCSpokeOf
  ModelAt <- MCModelAt
  Spelling <- MCSpelling
  DeepSeek = {"u", "v"}
  MaxDepth = 4
INVARIANTS ConversationIntact NoEcho PlanAsConfigured SmartRouteAgrees
PROPERTIES NotFoundExplained Answered
CHECK_DEADLOCK FALSE
