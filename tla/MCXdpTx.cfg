\* Two possible CPUs, a ring of three slots: what a run of several frames does.
CONSTANTS
  NumCPU = 2
  MaxPacketEntry = 3
  MaxTemplateSize = 4
  EthHlen = 2
  SampleLen = 3
  FrameBound = 3
  EntryLists <- MCEntryLists
SPECIFICATION Spec
INVARIANTS DatapathInv OneFramePerCPU
PROPERTIES AbortIsFinal
CHECK_DEADLOCK FALSE
