CONSTANTS
  Wallets = {w1, w2}
  chairperson = w2
  Decades = {0, 1}
  Movies = {m1, m2}
  MaxCalls = 2
  MaxChecks = 1
  NONE = NONE
  l1 = l1
  l2 = l2
  l3 = l3
  k1 = k1
  k2 = k2
  Keys = {k1, k2}
  Logins = {l1, l2, l3}
  key_of <- MCKeyOf
  NoMessage = NoMessage
  DECADE_COUNT = 2
  VotedDecades = {0}
  Tasks = {t1, t2}
  MaxFaults = 1
  NoTask = NoTask
  TallyDecades = {0, 1}
  Outcomes <- MCOutcomes
  MaxLoads = 1
  Nothing = Nothing
  Sessions = {"voter", "login", "steps", "ties"}
SPECIFICATION FrontendSpec
CHECK_DEADLOCK FALSE
INVARIANTS
  ReceiptsMatchAnswers
  PageShowsItsVote
  ChallengeUsedOnce
  StepReflectsElection
  OnlyDecidedLeaveTheList
PROPERTIES
  ChallengeEndsByUse
  StuckOnlyByLeaving
SYMMETRY MCTasks
