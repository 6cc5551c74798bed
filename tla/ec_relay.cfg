CONSTANTS
  Command <- MCCommand
  Discriminant = {1}
  Kind = {"success", "error", "request", "foreign", "headless", "short", "long"}
  FrameLen = 3
  RX_PACKET_LEN = 3
  RX_POLL_BUDGET = 2
  MaxInvokes = 2
SPECIFICATION Spec
INVARIANTS TypeOK LagBounded
PROPERTY ImplementsChannel
