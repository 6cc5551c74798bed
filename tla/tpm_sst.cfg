CONSTANTS
  Locality = {l0, l1}
  NO_ACTIVE_LOCALITY = no_locality
  CommandId = {c1, c2}
  TPM_HEADER_SIZE = 1
  CRB_DATA_BUFFER_SIZE = 2
  Size <- MCSize
SPECIFICATION Spec
INVARIANTS
  TypeOK CopiesBounded ViewAgrees OwnResponse PanicConfined
PROPERTY CallReturns
