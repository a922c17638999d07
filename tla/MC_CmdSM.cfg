\* Protocol run: replies, framing and completion of every dispatch.
CONSTANTS
  FrameSize = 1
  HostBytes <- MC_HostBytes
  MaxLine = 4
  MaxReply = 5
SPECIFICATION Spec
INVARIANT TypeOK
INVARIANT LineReply
PROPERTY DispatchCompletes
