CONSTANTS
  NumCpus <- MCNumCpus
  MaxThreads <- MCMaxThreads
  Codes <- MCCodes
SPECIFICATION Spec
INVARIANT RunningNeverFreed
