CONSTANTS
  a = a
  b = b
  nil = nil
  Uuid <- MCUuid
  NilUuid <- nil
  Cookie <- MCCookie
  SrcId <- MCSrcId
  Messages <- SingleTupleMessages
  NOTIFY_MAX_SERVICES = 2
  NOTIFY_MAX_MAPPINGS = 2
  NOTIFY_MAX_TUPLES_PER_REQ = 1
  BITS = 2
SPECIFICATION Spec
INVARIANT NoBitConflict
