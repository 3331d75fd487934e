CONSTANTS
  Apps = {1, 2, 3}
  Runs = {1, 2, 3, 4, 5, 6, 7, 8, 9, 10, 11, 12}
  Datasets <- MCDatasets
SPECIFICATION Spec
INVARIANTS
  RunsStayTogether
  MixedTrainingIsBalanced
  CompleteRunsCoverEveryApp
  ReportsAddUp
