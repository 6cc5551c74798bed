CONSTANTS
  Command <- MCCommand
  Discriminant = {0, 1}
  Kind = {"success", "error", "long"}
  MaxInvokes = 2
SPECIFICATION ServicesSpec
INVARIANTS TypeOK BodyFitsCommand StatusIsTrue
PROPERTY Answered
