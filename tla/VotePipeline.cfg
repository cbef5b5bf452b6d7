CONSTANTS
  MAX_PROPOSALS = 2
  U8_MAX = 3
  U64_MAX = 9
  InvalidPoint = InvalidPoint
  NoRoot = NoRoot
  r1 = r1  r2 = r2  r3 = r3
  w1 = w1  w2 = w2
  h1 = h1  h2 = h2
  VoteRequests = {r1, r2, r3}
  FlushRequests = {f1}
  CloseRequests = {c1}
  Valid = {r1, r2, r3}
  vote_of <- MCVoteOf
  proposal_count = 2
  chairperson = chair
  MAX_BATCH_SIZE = 2
  merkle_root <- MCMerkleRoot
SPECIFICATION Spec
CHECK_DEADLOCK FALSE
INVARIANTS
  TypeOK
  EachVoteInOnePlace
  AcceptanceOrder
  PendingBounded
  ChainCountsLandedVotes
  ReceiptsMatchBatches
PROPERTY ImplementsLedger
