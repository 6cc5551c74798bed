CONSTANTS
  Command <- MCCommand
  Discriminant = {1}
  Kind = {"success", "error", "request"}
  FrameLen = 2
  RX_PACKET_LEN = 2
  RX_POLL_BUDGET = 2
  MaxInvokes = 3
SPECIFICATION Spec
INVARIANT AnswersOwnRequest
