SPECIFICATION EvaluationSpec
CONSTANTS
  RequiredFields <- MCFields
  EvaluationDatasets <- MCDatasets
  Drafts <- MCDrafts
INVARIANTS
  Recount
CHECK_DEADLOCK FALSE
