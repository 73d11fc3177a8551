CONSTANTS
  NumCpus <- MCNumCpus
  MaxThreads <- MCMaxThreads
  Codes <- MCCodes
  NUMSIGNALS <- MCNUMSIGNALS
  SignalInputs <- MCNegativeInputs
  MaxSignals <- MCMaxSignals
SPECIFICATION SigSpec
INVARIANT OneActiveSignal
