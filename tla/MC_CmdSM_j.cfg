\* 'J', the code just past _CMD_COMMANDS, dispatched by the host.
CONSTANTS
  FrameSize = 1
  HostBytes <- MC_HostBytesJ
  MaxLine = 3
  MaxReply = 5
SPECIFICATION Spec
INVARIANT UnknownCommandNotImplemented
