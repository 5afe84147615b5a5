\* The same instance, without a look at the other properties.
CONSTANTS
  Refs <- MCRefs
  StaleAfter = 1
  Longest = 1
  Refusals = 2
  Horizon = 2
SPECIFICATION Spec
INVARIANTS ReportsWhatWasDeleted
