\* Requests up to the full 260-byte inbound buffer at the edges of memory.
CONSTANTS
  BufSize = 4096
  InbufSize = 260
  AddrSet = {0, 1, 3840, 3841, 4094, 4095}
SPECIFICATION Spec
INVARIANT WorkerLogsTransfer
