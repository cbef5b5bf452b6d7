CONSTANTS
  Scalar <- Zq
  Point <- Zq
  SZero = 0
  SOne = 1
  SAdd <- ZqAdd
  SSub <- ZqSub
  SMul <- ZqMul
  PAdd <- ZqAdd
  PSub <- ZqSub
  Mul <- ZqMul
  G = 1
  H = 2
  P = 1
  VoteHash <- ZqVoteHash
  SumHash <- ZqSumHash
  Undecodable = Undecodable
  proposal_count = 2
  Nonces = {1, 2}
  OtherVotes <- MCOtherVotes
SPECIFICATION Spec
CHECK_DEADLOCK FALSE
INVARIANTS
  ProvedPositionsVerify
  HonestVotesAccepted
  VerifiersAgree
  AcceptedPositionsAreBits
  AcceptedVoteIsOneChoice
