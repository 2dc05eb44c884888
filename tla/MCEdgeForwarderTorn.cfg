\* One file, no crash, no truncation, a broker that always answers.
SPECIFICATION Spec
CONSTANTS
  Files <- MCOneFile
  MaxLines <- MCTwoLines
  MaxGen <- MCNoErase
  MaxCrashes = 0
  MaxBatch = 1
  Filtered <- MCNone
  Malformed <- MCNone
  DeliveryFails = FALSE
INVARIANT
  PassedFactsAreForwarded
CHECK_DEADLOCK FALSE
