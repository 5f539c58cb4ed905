SPECIFICATION Spec
CONSTANTS
  date = date
  endDate = endDate
  Fields = {date}
  OtherIssue = endDate
  Datasets <- MCDatasets
  Evaluators = {"1", "2"}
INVARIANTS
  TypeOK
  NothingLost
  ImprovementsPass
