CONSTANTS
  MAX_PROPOSALS = 2
  U8_MAX = 3
  U64_MAX = 9
  InvalidPoint = InvalidPoint
  NoRoot = NoRoot
  None = None
  p1 = p1  p2 = p2  p3 = p3  g1 = g1
  DECADE_COUNT = 2
  proposal_count = 2
  chairperson = chair
  CreateRequests = {c1}
  CloseRequests = {k1}
  ResolveRequests = {}
  FinalizeRequests = {f1}
  DecadeFinalizeRequests = {}
  Batches = {p1, p2}
  decade_of <- MCTwoDecades
  tally_of <- MCTallyOf
  MaxRestarts = 1
SPECIFICATION FairSpec
CHECK_DEADLOCK FALSE
INVARIANTS
  ClosedFlagBehindChain
  ResultsBehindChain
PROPERTY AdminAnswers
