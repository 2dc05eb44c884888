SPECIFICATION FairSpec
CONSTANTS
  Files <- MCFiles
  MaxLines <- MCMaxLines
  MaxGen <- MCMaxGen
  MaxCrashes = 1
  MaxBatch = 1
  Filtered <- MCFiltered
  Malformed <- MCMalformed
  DeliveryFails = TRUE
INVARIANTS
  TypeOK
  CheckpointAccounted
  NoResendInOneLife
  LossHasCause
PROPERTY
  EveryLineSettles
\* Sleep makes the forwarder's loop endless; only the file bounds stop the rest.
CHECK_DEADLOCK FALSE
