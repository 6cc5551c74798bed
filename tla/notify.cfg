CONSTANTS
  a = a
  b = b
  nil = nil
  Uuid <- MCUuid
  NilUuid <- nil
  Cookie <- MCCookie
  SrcId <- MCSrcId
  Messages <- MCMessages
  NOTIFY_MAX_SERVICES = 2
  NOTIFY_MAX_MAPPINGS = 2
  NOTIFY_MAX_TUPLES_PER_REQ = 2
  BITS = 3
SPECIFICATION Spec
INVARIANTS TypeOK OneEntryPerService NoUnwrapPanic
PROPERTIES BitmapKept AllOrNothing OnlyOwnerFrees
