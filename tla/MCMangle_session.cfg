CONSTANTS
  MaxFileSz <- MCSmallFileSz
  MutationsPerRun = 2
  RunMutations = {0, 2}
  OnlyPrintable = TRUE
  Dictionaries <- MCPrintDictionaries
  InitBytes <- MCPrintBytes
  RndBytes <- MCRawBytes
  RndPrintables <- MCPrintBytes
  Deltas <- MCDeltas
  Rnd64Vals <- MCRnd64Vals
  MagicChoices <- MCMagicChoices
SPECIFICATION Spec
\* mangleContent returns after its loop: the call really stops.
CHECK_DEADLOCK FALSE
PROPERTIES
  SessionRefined
