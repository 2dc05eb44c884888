SPECIFICATION AdmissionSpec
CONSTANTS
  Cases <- MCCases
INVARIANTS
  WindowsPartition
  FaultStaysInEvidence
  BudgetIsKept
  GatesAgree
CHECK_DEADLOCK FALSE
