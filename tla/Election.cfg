CONSTANTS
  MAX_PROPOSALS = 2
  U8_MAX = 3
  U64_MAX = 9
  InvalidPoint = InvalidPoint
  NoRoot = NoRoot
  None = None
  p1 = p1  p2 = p2  p3 = p3  g1 = g1
  DECADE_COUNT = 1
  proposal_count = 2
  chairperson = chair
  CreateRequests = {c1}
  CloseRequests = {k1}
  ResolveRequests = {q1}
  FinalizeRequests = {f1}
  DecadeFinalizeRequests = {g1}
  Batches = {p1, p2, p3}
  decade_of <- MCDecadeOf
  tally_of <- MCTallyOf
  MaxRestarts = 0
SPECIFICATION Spec
CHECK_DEADLOCK FALSE
INVARIANTS
  TypeOK
  WinnerHadMostVotes
  TiesDecidedByChairperson
  FinalizedMeansRecorded
