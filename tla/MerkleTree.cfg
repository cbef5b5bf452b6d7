CONSTANTS
  Votes = {v1, v2}
  MaxVotes = 7
  Leaf <- MCLeaf
  LeafSequences <- MCLeafSequences
  hash_pair <- MCHashPair
SPECIFICATION Spec
CHECK_DEADLOCK FALSE
INVARIANTS
  RootBindsLeaves
  TypeOK
  ReceiptVerifies
  OnlyItsLeafVerifies
  RootIsTreeRoot
