\* A Count that does not fit Repeat: the modulus stands for 2^32.
CONSTANTS
  NumCPU = 3
  MaxPacketEntry = 1
  MaxTemplateSize = 3
  EthHlen = 2
  SampleLen = 3
  FrameBound = 3
  EntryLists <- MCEntryLists
  MaxCount = 3
  MaxParallelism = 1
  OnlineCPUs <- MCOnlineCPUs
  RepeatModulus = 2
  Responses <- MCResponses
  SignalBound = 2
  InterruptBound = 0
SPECIFICATION ClientSpec
INVARIANTS RepeatsCoverCount
