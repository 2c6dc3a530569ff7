SPECIFICATION Spec
CONSTANTS
  Order <- ListedOrder
  Inputs <- ListedInputs
  Outputs <- ListedOutputs
  RulesOf <- ListedRules
  ContentOf <- ListedContent
  Weight <- ListedWeight
  Requests <- ListedRequests
INVARIANT HaltedIsQuiescent
