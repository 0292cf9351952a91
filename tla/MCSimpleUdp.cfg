\* The requests of MCInputs, each from the bytes of the request to a frame on the wire.
CONSTANTS
  NumCPU = 1
  MaxPacketEntry = 1
  MaxTemplateSize = 2048
  EthHlen = 14
  SampleLen = 1500
  FrameBound = 1
  OutputMaxLen = 90000
  Inputs <- MCInputs
  EntryLists <- MCEntryLists
SPECIFICATION GenSpec
INVARIANTS HeadersAreValid DatagramsAreValid AnswersAreSent SentIsAPrefix
CHECK_DEADLOCK FALSE
