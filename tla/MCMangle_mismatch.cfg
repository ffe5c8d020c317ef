CONSTANTS
  MaxFileSz <- MCSmallFileSz
  MutationsPerRun = 0
  RunMutations = {1}
  OnlyPrintable = FALSE
  Dictionaries <- MCRawDictionaries
  InitBytes <- MCRawBytes
  RndBytes <- MCRawBytes
  RndPrintables <- MCPrintBytes
  Deltas <- MCDeltas
  Rnd64Vals <- MCRnd64Vals
  MagicChoices <- MCMagicChoices
SPECIFICATION Spec
\* mangleContent returns after its loop, or is stuck in the draw.
CHECK_DEADLOCK FALSE
PROPERTIES
  SessionTerminates
