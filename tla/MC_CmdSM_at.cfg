\* '@' typed by the host with an argument: the dispatch loop never ends.
CONSTANTS
  FrameSize = 1
  HostBytes <- MC_HostBytesAt
  MaxLine = 4
  MaxReply = 5
SPECIFICATION Spec
PROPERTY DispatchCompletes
