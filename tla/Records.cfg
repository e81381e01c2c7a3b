CONSTANTS
  None = None
  Handlers = {h1, h2}
  Replicas = {k1, k2}
  Shifts = {1}
  Trips = {1}
  LastTime = 6
  ApprovalRows = {r1, r2, r3}
  LastStep = 3
  SealRows = {1, 2}
  LastSeal = 2
  Letters = {"|", "a"}
  Bar = "|"
  MaxText = 1
  Authors = {1, 2}
  Answers = {"yes", "", "null"}
  Empty = ""
  Mute = "null"
  FileIds = {1, 2}
  Quota = 1
  VisitIds = {1, 2}
  Days = {1, 2}
  MaxEvents = 1
  SessionIds = {1, 2}
  Recipients = {1, 2}
  Amounts = {1, 2}
  MAX_ATTEMPTS = 3
  TTL = 2
  LinkIds = {r1, r2, r3}
  CodeIds = {1, 2}
  RecordIds = {1, 2}
  MaxSaves = 1
  Tokens = {1, 2}
  ChunkSize = 2
  Attempts = 2
CHECK_DEADLOCK FALSE
SPECIFICATION Spec
SYMMETRY Symmetry
CONSTRAINT Bounded
INVARIANTS
  TypeOK
  OneStory
  ShiftsAreSettled
  NobodySkipped
  ApprovedByAll
  SealTells
  StoresInStep
PROPERTIES
  SealHolds
  DecidedOnce
