CONSTANTS
  MAX_PROPOSALS = 2
  U8_MAX = 3
  U64_MAX = 2
  InvalidPoint = InvalidPoint
  NoRoot = NoRoot
  b1 = b1
  b2 = b2
  Ballots = {b1, b2}
  Keys = {k1, k2}
  Roots = {m1}
  Counts <- MCCounts
  Vectors <- MCVectors
  BatchSizes = {0, 1, 2}
SPECIFICATION Spec
SYMMETRY KeySymmetry
CONSTRAINT SecondElectionSmall
CHECK_DEADLOCK FALSE
INVARIANTS
  TypeOK
  TallyMatchesProposals
  DirectVotesCounted
  WinnerExactlyWhenFinalized
PROPERTIES
  ElectionMovesForward
  VoteIsFinal
