\* A ring of one slot, the case in which the slot walk meets a filled slot again:
\* a CPU sends many frames, and the histories grow.
CONSTANTS
  NumCPU = 2
  MaxPacketEntry = 1
  MaxTemplateSize = 4
  EthHlen = 2
  SampleLen = 3
  FrameBound = 3
  EntryLists <- MCEntryLists
SPECIFICATION Spec
INVARIANTS TypeOK FramesAreTheEntry StatsCountTransmits
PROPERTIES StreamSpec
CHECK_DEADLOCK FALSE
