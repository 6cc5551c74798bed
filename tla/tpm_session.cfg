CONSTANTS
  NUM_LOCALITIES = 2
  Requests <- MCRequests
  InitialCrb <- MCInitialCrb
  LocalityControlValues <- MCLocalityControl
  ControlRequestValues <- MCControlRequest
SPECIFICATION Spec
CONSTRAINT BoundedPending
PROPERTY FreshSessionIdle
