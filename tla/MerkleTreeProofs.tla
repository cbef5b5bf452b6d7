-------------------------- MODULE MerkleTreeProofs --------------------------
(***************************************************************************)
(* The receipts of a batch, for any number of votes.  Nodes have no type.  *)
(*                                                                         *)
(* For any hash function at all: the nodes of a proof lead from the leaf   *)
(* to the node at `index' of the level reached so far, so every receipt    *)
(* verifies; the levels of merkle_proof are the rows of merkle_root, and   *)
(* their root is that of the binary tree defined from the top.             *)
(*                                                                         *)
(* For a hash without collisions, which is what NoCollisions asks of       *)
(* hash_pair (pairing has it, SHA-256 is used as if it had): a receipt     *)
(* verifies for its own vote alone, and the root of a batch tells its      *)
(* votes, given their number.                                              *)
(***************************************************************************)
EXTENDS MerkleTree, SequenceFacts, TLAPS

\* A sequence of whatever it holds.
IsSequence(s) == Len(s) \in Nat /\ s = [i \in 1..Len(s) |-> s[i]]

(* Appending to a sequence without a type.                                 *)
LEMMA Appended ==
  ASSUME NEW s, IsSequence(s), NEW x
  PROVE  /\ IsSequence(Append(s, x))
         /\ Len(Append(s, x)) = Len(s) + 1
         /\ \A i \in 1..Len(s) : Append(s, x)[i] = s[i]
         /\ Append(s, x)[Len(s) + 1] = x
<1> DEFINE S == {s[i] : i \in 1..Len(s)} \cup {x}
<1>1. s \in Seq(S) /\ x \in S
  BY DEF IsSequence
<1> HIDE DEF S
<1>2. /\ Append(s, x) \in Seq(S)
      /\ Len(Append(s, x)) = Len(s) + 1
      /\ \A i \in 1..Len(s) : Append(s, x)[i] = s[i]
      /\ Append(s, x)[Len(s) + 1] = x
  BY <1>1
<1> DEFINE t == Append(s, x)
<1>3. t \in Seq(S)
  BY <1>2
<1> HIDE DEF t
<1>4. IsSequence(t)
  BY <1>3 DEF IsSequence
<1> QED BY <1>2, <1>4 DEF t

(* The level above one of n nodes has (n + 1) / 2.                         *)
LEMMA ParentLevels ==
  ASSUME NEW row, IsSequence(row), Len(row) > 1
  PROVE  /\ IsSequence(ParentLevel(row))
         /\ Len(ParentLevel(row)) = (Len(row) + 1) \div 2
         /\ Len(ParentLevel(row)) \in Nat \ {0}
         /\ \A i \in 1..Len(ParentLevel(row)) :
              ParentLevel(row)[i] =
                hash_pair(row[2*i - 1], IF 2*i <= Len(row) THEN row[2*i]
                                                        ELSE row[2*i - 1])
<1> DEFINE n == (Len(row) + 1) \div 2
<1>1. n \in Nat \ {0}
  BY DEF IsSequence
<1>2. DOMAIN ParentLevel(row) = 1..n
  BY DEF ParentLevel
<1> HIDE DEF n
<1>3. Len(ParentLevel(row)) = n
  BY <1>1, <1>2
<1> QED BY <1>1, <1>2, <1>3 DEF ParentLevel, IsSequence, n

(* One turn of the loop: the node of the proof leads from the node at      *)
(* `pos' to its parent, on the left, on the right or alone.                *)
LEMMA NodeLeadsToParent ==
  ASSUME NEW row, IsSequence(row), Len(row) > 1,
         NEW pos \in 0..(Len(row) - 1)
  PROVE  /\ pos \div 2 \in 0..(Len(ParentLevel(row)) - 1)
         /\ VerifyStep(row[pos + 1], ProofNode(row, pos)) =
              ParentLevel(row)[pos \div 2 + 1]
<1>0. Len(row) \in Nat
  BY DEF IsSequence
<1>1. CASE pos % 2 = 0
  <2>1. PICK m \in Nat : pos = 2*m /\ pos \div 2 = m
    BY <1>0, <1>1
  <2>2. m + 1 \in 1..Len(ParentLevel(row))
    BY <1>0, <2>1, ParentLevels
  <2>3. /\ 2*(m + 1) - 1 = pos + 1
        /\ 2*(m + 1) = pos + 2
        /\ 2*(m + 1) <= Len(row) <=> pos + 1 < Len(row)
    BY <1>0, <2>1
  <2>4. ParentLevel(row)[m + 1] =
          hash_pair(row[pos + 1],
                    IF pos + 1 < Len(row) THEN row[pos + 2]
                                              ELSE row[pos + 1])
    BY <2>2, <2>3, ParentLevels
  <2>5. VerifyStep(row[pos + 1], ProofNode(row, pos)) =
          hash_pair(row[pos + 1],
                    IF pos + 1 < Len(row) THEN row[pos + 2]
                                              ELSE row[pos + 1])
    <3>1. (pos + 1) + 1 = pos + 2
      BY <1>0
    <3>2. ~(pos % 2 = 1)
      BY <1>1
    <3> QED BY <1>1, <3>1, <3>2 DEF VerifyStep, ProofNode, sibling_index
  <2> QED BY <1>0, <2>1, <2>2, <2>4, <2>5
<1>2. CASE pos % 2 = 1
  <2>1. PICK m \in Nat : pos = 2*m + 1 /\ pos \div 2 = m
    BY <1>0, <1>2
  <2>2. m + 1 \in 1..Len(ParentLevel(row))
    BY <1>0, <2>1, ParentLevels
  <2>3. /\ 2*(m + 1) - 1 = pos
        /\ 2*(m + 1) = pos + 1
        /\ 2*(m + 1) <= Len(row)
        /\ pos - 1 < Len(row)
        /\ (pos - 1) + 1 = pos
        /\ pos % 2 # 0
    BY <1>0, <1>2, <2>1
  <2>4. ParentLevel(row)[m + 1] = hash_pair(row[pos], row[pos + 1])
    BY <2>2, <2>3, ParentLevels
  <2>5. VerifyStep(row[pos + 1], ProofNode(row, pos)) =
          hash_pair(row[pos], row[pos + 1])
    BY <1>2, <2>3 DEF VerifyStep, ProofNode, sibling_index
  <2> QED BY <1>0, <2>1, <2>2, <2>4, <2>5
<1> QED BY <1>0, <1>1, <1>2

-----------------------------------------------------------------------------
(* The inductive invariant *)

ProofLeadsToLevel ==
  /\ IsSequence(level) /\ Len(level) >= 1
  /\ IsSequence(proof) /\ IsSequence(path)
  /\ \A k \in 1..Len(proof) : path[k + 1] = VerifyStep(path[k], proof[k])
  /\ path[Len(path)] = level[index + 1]

VerifierOnPath ==
  /\ pc = "prove" => node = 0
  /\ current = path[node + 1]
  /\ pc # "prove" => Len(level) = 1
  /\ pc = "done" => verified

IInv == TypeOK /\ ProofLeadsToLevel /\ VerifierOnPath

LEMMA InitIInv == Init => IInv
<1> SUFFICES ASSUME Init PROVE IInv
  OBVIOUS
<1>1. leaves \in Seq(Leaf) /\ Len(leaves) \in Nat \ {0}
  BY MerkleAssumption DEF Init
<1>2. IsSequence(leaves)
  BY <1>1 DEF IsSequence
<1>3. /\ Len(path) = 1 /\ IsSequence(path) /\ path[1] = leaves[leaf_index + 1]
      /\ Len(proof) = 0 /\ IsSequence(proof)
  BY DEF Init, IsSequence
<1>4. TypeOK
  <2>1. /\ DOMAIN level = 1..Len(level)
        /\ index \in 0..(Len(level) - 1)
        /\ leaf_index \in 0..(Len(leaves) - 1)
    BY <1>1 DEF Init
  <2>2. DOMAIN proof = 1..Len(proof)
    BY <1>3 DEF Init
  <2>3. /\ Len(path) = Len(proof) + 1
        /\ node \in 0..Len(proof)
    BY <1>3 DEF Init
  <2>4. /\ pc \in {"prove", "verify", "done"}
        /\ leaves \in LeafSequences
        /\ verified \in BOOLEAN
    BY DEF Init
  <2> QED BY <2>1, <2>2, <2>3, <2>4 DEF TypeOK
<1>5. ProofLeadsToLevel
  BY <1>1, <1>2, <1>3 DEF Init, ProofLeadsToLevel
<1>6. VerifierOnPath
  BY <1>3 DEF Init, VerifierOnPath
<1> QED BY <1>4, <1>5, <1>6 DEF IInv

LEMMA ClimbIInv == IInv /\ Climb => IInv'
<1> SUFFICES ASSUME IInv, Climb PROVE IInv'
  OBVIOUS
<1> USE DEF IInv
<1>1. /\ IsSequence(level) /\ Len(level) > 1 /\ Len(level) \in Nat
      /\ index \in 0..(Len(level) - 1)
      /\ pc = "prove" /\ pc' = pc /\ node = 0 /\ node' = node
  BY DEF TypeOK, ProofLeadsToLevel, VerifierOnPath, Climb, IsSequence
<1>2. /\ level' = ParentLevel(level) /\ index' = index \div 2
      /\ proof' = Append(proof, ProofNode(level, index))
      /\ path' = Append(path, VerifyStep(path[Len(path)],
                                         ProofNode(level, index)))
  BY DEF Climb, ParentIndex
<1>3. /\ IsSequence(level') /\ Len(level') \in Nat \ {0}
      /\ index' \in 0..(Len(level') - 1)
  BY <1>1, <1>2, ParentLevels, NodeLeadsToParent
<1>4. /\ IsSequence(proof') /\ Len(proof') = Len(proof) + 1
      /\ \A k \in 1..Len(proof) : proof'[k] = proof[k]
      /\ proof'[Len(proof) + 1] = ProofNode(level, index)
  BY <1>2, Appended DEF ProofLeadsToLevel
<1>5. /\ IsSequence(path') /\ Len(path') = Len(path) + 1
      /\ \A k \in 1..Len(path) : path'[k] = path[k]
      /\ path'[Len(path) + 1] = VerifyStep(path[Len(path)],
                                           ProofNode(level, index))
  BY <1>2, Appended DEF ProofLeadsToLevel
<1>6. Len(proof) \in Nat /\ Len(path) = Len(proof) + 1
  BY DEF TypeOK, ProofLeadsToLevel, IsSequence
<1>7. path'[Len(path')] = level'[index' + 1]
  BY <1>1, <1>2, <1>5, NodeLeadsToParent DEF ProofLeadsToLevel
<1>8. \A k \in 1..Len(proof') : path'[k + 1] = VerifyStep(path'[k], proof'[k])
  <2> TAKE k \in 1..Len(proof')
  <2>1. CASE k \in 1..Len(proof)
    BY <1>4, <1>5, <1>6, <2>1 DEF ProofLeadsToLevel
  <2>2. CASE k = Len(proof) + 1
    BY <1>4, <1>5, <1>6, <2>2
  <2> QED BY <1>4, <1>6, <2>1, <2>2
<1>9. ProofLeadsToLevel'
  BY <1>3, <1>4, <1>5, <1>7, <1>8 DEF ProofLeadsToLevel
<1>10. current' = path'[node' + 1]
  BY <1>1, <1>5, <1>6 DEF VerifierOnPath, Climb
<1>11. TypeOK'
  BY <1>1, <1>3, <1>4, <1>5, <1>6 DEF TypeOK, Climb, IsSequence
<1> QED BY <1>1, <1>9, <1>10, <1>11 DEF VerifierOnPath

LEMMA ProvedIInv == IInv /\ Proved => IInv'
  BY DEF IInv, Proved, TypeOK, ProofLeadsToLevel, VerifierOnPath, IsSequence

LEMMA VerifyIInv == IInv /\ Verify => IInv'
<1> SUFFICES ASSUME IInv, Verify PROVE IInv'
  OBVIOUS
<1> USE DEF IInv
<1>1. Len(proof) \in Nat /\ node \in 0..Len(proof) /\ node < Len(proof)
      /\ node' = node + 1
  BY DEF TypeOK, ProofLeadsToLevel, IsSequence, Verify
<1>2. node + 1 \in 1..Len(proof) /\ node' \in 0..Len(proof)
  BY <1>1
<1>3. path[(node + 1) + 1] = VerifyStep(path[node + 1], proof[node + 1])
  BY <1>2 DEF ProofLeadsToLevel
<1>4. current' = path'[node' + 1]
  BY <1>1, <1>3 DEF Verify, VerifierOnPath
<1>5. TypeOK'
  BY <1>2 DEF TypeOK, Verify
<1>6. ProofLeadsToLevel'
  BY DEF ProofLeadsToLevel, IsSequence, Verify
<1> QED BY <1>4, <1>5, <1>6 DEF VerifierOnPath, Verify

LEMMA CompareIInv == IInv /\ Compare => IInv'
<1> SUFFICES ASSUME IInv, Compare PROVE IInv'
  OBVIOUS
<1> USE DEF IInv
<1>1. Len(path) = node + 1 /\ Len(level) = 1 /\ index = 0
  BY DEF TypeOK, VerifierOnPath, Compare
<1>2. current = level[1]
  BY <1>1 DEF VerifierOnPath, ProofLeadsToLevel
<1>3. TypeOK'
  BY DEF TypeOK, Compare
<1>4. ProofLeadsToLevel'
  BY DEF ProofLeadsToLevel, IsSequence, Compare
<1> QED BY <1>2, <1>3, <1>4 DEF VerifierOnPath, Compare

LEMMA StepIInv == IInv /\ [Next]_vars => IInv'
<1>1. IInv /\ UNCHANGED vars => IInv'
  BY DEF IInv, TypeOK, ProofLeadsToLevel, VerifierOnPath, IsSequence, vars
<1> QED
  BY <1>1, ClimbIInv, ProvedIInv, VerifyIInv, CompareIInv DEF Next

LEMMA Inductive == Spec => []IInv
<1> QED BY InitIInv, StepIInv, PTL DEF Spec

(* No index of the loops is ever out of bounds, for any number of votes    *)
(* (merkle.rs:61-66, 79).                                                  *)
THEOREM IndicesInBounds == Spec => []TypeOK
<1>1. IInv => TypeOK
  BY DEF IInv
<1> QED BY <1>1, Inductive, PTL

(* The assertion of create_batch_for_decade (batches.rs:104) never fails,  *)
(* whatever the hash function, the votes and their number.                 *)
THEOREM AssertionHolds == Spec => []ReceiptVerifies
<1>1. IInv => ReceiptVerifies
  BY DEF IInv, VerifierOnPath, ReceiptVerifies
<1> QED BY <1>1, Inductive, PTL

-----------------------------------------------------------------------------
(* The levels of the tree *)

\* One turn of the loop of merkle_root: a single node is the root.
Up(row) == IF Len(row) = 1 THEN row ELSE ParentLevel(row)

\* lv[n] is the row that n turns make of the leaves s, for n up to h.
AreLevels(lv, s, h) ==
  lv = [n \in 0..h |-> IF n = 0 THEN s ELSE Up(lv[n - 1])]

(* The rows exist, so that merkle_root is one of their nodes.              *)
LEMMA LevelsExist ==
  ASSUME NEW s, NEW h \in Nat
  PROVE  \E lv : AreLevels(lv, s, h)
<1> DEFINE P == {m \in Nat : \E lv : AreLevels(lv, s, m)}
<1>1. 0 \in P
  <2> DEFINE f == [n \in 0..0 |-> s]
  <2>1. f = [n \in 0..0 |-> IF n = 0 THEN s ELSE Up(f[n - 1])]
    OBVIOUS
  <2> HIDE DEF f
  <2> QED BY <2>1 DEF AreLevels
<1>2. ASSUME NEW m \in Nat, m \in P PROVE m + 1 \in P
  <2>1. PICK f : AreLevels(f, s, m)
    BY <1>2
  <2> DEFINE g == [n \in 0..(m + 1) |-> IF n = m + 1 THEN Up(f[m]) ELSE f[n]]
  <2>2. \A n \in 0..(m + 1) : g[n] = IF n = 0 THEN s ELSE Up(g[n - 1])
    <3> TAKE n \in 0..(m + 1)
    <3>1. CASE n = m + 1
      BY <3>1
    <3>2. CASE n \in 0..m
      <4>1. f[n] = IF n = 0 THEN s ELSE Up(f[n - 1])
        BY <2>1, <3>2 DEF AreLevels
      <4> QED BY <3>2, <4>1
    <3> QED BY <3>1, <3>2
  <2>3. g = [n \in 0..(m + 1) |-> IF n = 0 THEN s ELSE Up(g[n - 1])]
    BY <2>2
  <2> HIDE DEF g
  <2> QED BY <2>3 DEF AreLevels
<1>3. Nat \subseteq P
  <2> HIDE DEF P
  <2> QED BY <1>1, <1>2, SetInduction
<1> QED BY <1>3

Levels(s) == CHOOSE lv : AreLevels(lv, s, Len(s))

(* What the definition of merkle_root says.                                *)
LEMMA LevelsOf ==
  ASSUME NEW s, Len(s) \in Nat
  PROVE  /\ Levels(s)[0] = s
         /\ \A n \in 0..(Len(s) - 1) : Levels(s)[n + 1] = Up(Levels(s)[n])
         /\ MerkleRoot(s) = Levels(s)[Len(s)][1]
<1>1. AreLevels(Levels(s), s, Len(s))
  BY LevelsExist DEF Levels
<1> DEFINE Unfolds(lv) == lv = [n \in 0..Len(s) |->
              IF n = 0 THEN s
              ELSE IF Len(lv[n - 1]) = 1 THEN lv[n - 1]
              ELSE ParentLevel(lv[n - 1])]
           rows == CHOOSE lv : Unfolds(lv)
<1>2. MerkleRoot(s) = rows[Len(s)][1]
  BY DEF MerkleRoot
<1>3. Unfolds(Levels(s))
  BY <1>1 DEF AreLevels, Up
<1>4. Unfolds(rows)
  <2> HIDE DEF Unfolds
  <2> QED BY <1>3
<1>5. rows = [n \in 0..Len(s) |-> IF n = 0 THEN s ELSE Up(rows[n - 1])]
  BY <1>4 DEF Up
<1> HIDE DEF rows
<1> DEFINE P == {n \in Nat : n <= Len(s) => rows[n] = Levels(s)[n]}
<1>6. 0 \in P
  BY <1>1, <1>5 DEF AreLevels
<1>7. ASSUME NEW n \in Nat, n \in P PROVE n + 1 \in P
  BY <1>1, <1>5, <1>7 DEF AreLevels
<1>8. Nat \subseteq P
  <2> HIDE DEF P
  <2> QED BY <1>6, <1>7, SetInduction
<1>9. rows[Len(s)] = Levels(s)[Len(s)]
  BY <1>8
<1>10. /\ Levels(s)[0] = s
       /\ \A n \in 0..(Len(s) - 1) : Levels(s)[n + 1] = Up(Levels(s)[n])
  BY <1>1 DEF AreLevels
<1> QED BY <1>2, <1>9, <1>10

\* A row of the tree: some nodes, at least one.
IsRow(r) == IsSequence(r) /\ Len(r) \in Nat \ {0}

(* A turn of the loop halves a row, rounding up.                           *)
LEMMA UpShrinks ==
  ASSUME NEW r, IsRow(r)
  PROVE  /\ IsRow(Up(r))
         /\ Len(Up(r)) = (Len(r) + 1) \div 2
         /\ Len(r) # 1 => Len(Up(r)) <= Len(r) - 1
<1>1. CASE Len(r) = 1
  <2>1. Up(r) = r /\ (1 + 1) \div 2 = 1
    BY <1>1 DEF Up
  <2>2. (Len(r) + 1) \div 2 = 1
    BY ONLY <1>1, <2>1
  <2>3. Len(Up(r)) = (Len(r) + 1) \div 2
    BY <1>1, <2>1, <2>2
  <2> QED BY <1>1, <2>1, <2>3
<1>2. CASE Len(r) # 1
  <2>0. IsSequence(r) /\ Len(r) \in Nat \ {0}
    BY DEF IsRow
  <2>1. Up(r) = ParentLevel(r) /\ IsSequence(r) /\ Len(r) > 1 /\ Len(r) \in Nat
    <3>1. \A k \in Nat \ {0} : k # 1 => k > 1
      OBVIOUS
    <3>2. Up(r) = ParentLevel(r)
      BY <1>2 DEF Up
    <3> QED BY <1>2, <2>0, <3>1, <3>2
  <2>2. /\ IsRow(ParentLevel(r))
        /\ Len(ParentLevel(r)) = (Len(r) + 1) \div 2
    BY <2>1, ParentLevels DEF IsRow
  <2>3. \A k \in Nat : k > 1 => (k + 1) \div 2 <= k - 1
    OBVIOUS
  <2> QED BY <2>1, <2>2, <2>3
<1> QED BY <1>1, <1>2

(* Every row is a sequence of nodes and, until it is a single node, each   *)
(* turn makes it shorter, so that Len(s) turns reach the root.             *)
LEMMA RowsShrink ==
  ASSUME NEW s, IsRow(s), NEW n \in 0..Len(s)
  PROVE  /\ IsRow(Levels(s)[n])
         /\ Len(Levels(s)[n]) = 1 \/ Len(Levels(s)[n]) <= Len(s) - n
<1>1. PICK lv : lv = Levels(s)
  OBVIOUS
<1>2. /\ Len(s) \in Nat /\ lv[0] = s
      /\ \A m \in 0..(Len(s) - 1) : lv[m + 1] = Up(lv[m])
  BY <1>1, LevelsOf DEF IsRow
<1> DEFINE P == {m \in Nat : m <= Len(s) =>
                   /\ IsRow(lv[m])
                   /\ Len(lv[m]) = 1 \/ Len(lv[m]) <= Len(s) - m}
<1>3. 0 \in P
  BY <1>2
<1>4. ASSUME NEW m \in Nat, m \in P PROVE m + 1 \in P
  <2>1. SUFFICES ASSUME m + 1 <= Len(s)
                 PROVE  /\ IsRow(lv[m + 1])
                        /\ \/ Len(lv[m + 1]) = 1
                           \/ Len(lv[m + 1]) <= Len(s) - (m + 1)
    OBVIOUS
  <2>2. /\ lv[m + 1] = Up(lv[m]) /\ IsRow(lv[m])
        /\ Len(lv[m]) = 1 \/ Len(lv[m]) <= Len(s) - m
    BY <1>2, <1>4, <2>1
  <2>3. /\ IsRow(lv[m + 1])
        /\ Len(lv[m]) # 1 => Len(lv[m + 1]) <= Len(lv[m]) - 1
        /\ Len(lv[m]) = 1 => Len(lv[m + 1]) = 1
    BY <2>2, UpShrinks DEF Up
  <2>4. Len(lv[m]) \in Nat /\ Len(lv[m + 1]) \in Nat
    BY <2>2, <2>3 DEF IsRow
  <2> QED BY <1>2, <2>2, <2>3, <2>4
<1>5. Nat \subseteq P
  <2> HIDE DEF P
  <2> QED BY <1>3, <1>4, SetInduction
<1>6. n \in Nat /\ n <= Len(s)
  BY <1>2
<1> QED BY <1>1, <1>5, <1>6

(* The hash of two nodes tells which nodes they were: the idealisation of  *)
(* a collision-resistant hash.                                             *)
NoCollisions ==
  \A a, b, c, d : hash_pair(a, b) = hash_pair(c, d) => a = c /\ b = d

(* Then a row follows from its length and the row above it.                *)
LEMMA RowBelow ==
  ASSUME NoCollisions, NEW r, IsSequence(r), NEW t, IsSequence(t),
         Len(r) > 0, Len(r) = Len(t), Up(r) = Up(t)
  PROVE  r = t
<1>1. CASE Len(r) = 1
  BY <1>1 DEF Up
<1>2. CASE Len(r) > 1
  <2>1. /\ ParentLevel(r) = ParentLevel(t) /\ Len(r) \in Nat
        /\ Len(t) > 1
    BY <1>2 DEF Up, IsSequence
  <2>2. ASSUME NEW j \in 1..((Len(r) + 1) \div 2)
        PROVE  /\ r[2*j - 1] = t[2*j - 1]
               /\ 2*j <= Len(r) => r[2*j] = t[2*j]
    <3>1. /\ ParentLevel(r)[j] =
               hash_pair(r[2*j - 1], IF 2*j <= Len(r) THEN r[2*j]
                                                      ELSE r[2*j - 1])
          /\ ParentLevel(t)[j] =
               hash_pair(t[2*j - 1], IF 2*j <= Len(t) THEN t[2*j]
                                                      ELSE t[2*j - 1])
      BY <1>2, <2>1, ParentLevels
    <3> QED BY <2>1, <3>1 DEF NoCollisions
  <2>3. ASSUME NEW i \in 1..Len(r) PROVE r[i] = t[i]
    <3>1. CASE i % 2 = 0
      <4>1. PICK j \in 1..((Len(r) + 1) \div 2) : i = 2*j
        BY <2>1, <3>1
      <4> QED BY <2>2, <4>1
    <3>2. CASE i % 2 = 1
      <4>1. PICK j \in 1..((Len(r) + 1) \div 2) : i = 2*j - 1
        <5>1. (i + 1) \div 2 \in 1..((Len(r) + 1) \div 2)
              /\ i = 2*((i + 1) \div 2) - 1
          BY <2>1, <3>2
        <5> QED BY <5>1
      <4> QED BY <2>2, <4>1
    <3> QED BY <3>1, <3>2
  <2> QED BY <2>3 DEF IsSequence
<1> QED BY <1>1, <1>2 DEF IsSequence

(* So do rows of a single node.                                            *)
LEMMA SameRoot ==
  ASSUME NEW r, IsSequence(r), NEW t, IsSequence(t),
         Len(r) = 1, Len(t) = 1, r[1] = t[1]
  PROVE  r = t
<1>1. r = [i \in 1..1 |-> r[i]] /\ t = [i \in 1..1 |-> t[i]]
  BY DEF IsSequence
<1>2. \A i \in 1..1 : r[i] = t[i]
  OBVIOUS
<1> QED BY <1>1, <1>2

(* Equally many leaves give rows of equal lengths, and equal roots mean    *)
(* equal rows all the way down.                                            *)
LEMMA RootsBind ==
  ASSUME NoCollisions, NEW s, IsRow(s), NEW t, IsRow(t),
         Len(s) = Len(t), MerkleRoot(s) = MerkleRoot(t)
  PROVE  s = t
<1>0. PICK N : N = Len(s)
  OBVIOUS
<1>1. PICK a, b : a = Levels(s) /\ b = Levels(t)
  OBVIOUS
<1>2. /\ N \in Nat /\ a[0] = s /\ b[0] = t
      /\ \A n \in 0..(N - 1) : a[n + 1] = Up(a[n]) /\ b[n + 1] = Up(b[n])
      /\ a[N][1] = b[N][1]
  BY <1>0, <1>1, LevelsOf DEF IsRow
<1>3. \A n \in 0..N :
        /\ IsRow(a[n]) /\ IsRow(b[n])
        /\ Len(a[n]) = 1 \/ Len(a[n]) <= N - n
        /\ Len(b[n]) = 1 \/ Len(b[n]) <= N - n
  BY <1>0, <1>1, RowsShrink
<1>4. \A n \in 0..N : Len(a[n]) = Len(b[n])
  <2> DEFINE P == {n \in Nat : n <= N => Len(a[n]) = Len(b[n])}
  <2>1. 0 \in P
    BY <1>0, <1>2
  <2>2. ASSUME NEW n \in Nat, n \in P PROVE n + 1 \in P
    <3>1. SUFFICES ASSUME n + 1 <= N PROVE  Len(a[n + 1]) = Len(b[n + 1])
      OBVIOUS
    <3>2. /\ Len(a[n]) = Len(b[n]) /\ IsRow(a[n]) /\ IsRow(b[n])
          /\ a[n + 1] = Up(a[n]) /\ b[n + 1] = Up(b[n])
      BY <1>2, <1>3, <2>2, <3>1
    <3> QED BY <3>2, UpShrinks
  <2>3. Nat \subseteq P
    <3> HIDE DEF P
    <3> QED BY <2>1, <2>2, SetInduction
  <2> QED BY <1>2, <2>3
<1>5. a[N] = b[N]
  <2>1. N \in 0..N
    BY <1>2
  <2>2. IsRow(a[N]) /\ IsRow(b[N]) /\ Len(a[N]) = 1
    BY <1>2, <1>3, <2>1 DEF IsRow
  <2>3. Len(b[N]) = 1
    BY <1>4, <2>1, <2>2
  <2> QED BY <1>2, <2>2, <2>3, SameRoot DEF IsRow
<1> DEFINE Q == {n \in Nat : n <= N => a[N - n] = b[N - n]}
<1>6. 0 \in Q
  BY <1>2, <1>5
<1>7. ASSUME NEW n \in Nat, n \in Q PROVE n + 1 \in Q
  <2>1. SUFFICES ASSUME n + 1 <= N PROVE a[N - (n + 1)] = b[N - (n + 1)]
    OBVIOUS
  <2>2. PICK m : m = N - (n + 1)
    OBVIOUS
  <2>3. m \in 0..(N - 1) /\ m \in 0..N /\ m + 1 = N - n /\ n <= N
    BY <1>2, <2>1, <2>2
  <2>4. Up(a[m]) = Up(b[m])
    BY <1>2, <1>7, <2>3
  <2>5. IsRow(a[m]) /\ IsRow(b[m]) /\ Len(a[m]) = Len(b[m])
    BY <1>3, <1>4, <2>3
  <2>6. a[m] = b[m]
    BY <2>4, <2>5, RowBelow DEF IsRow
  <2> QED BY <2>2, <2>6
<1>8. Nat \subseteq Q
  <2> HIDE DEF Q
  <2> QED BY <1>6, <1>7, SetInduction
<1>9. a[N - N] = b[N - N]
  BY <1>2, <1>8
<1> QED BY <1>2, <1>9

(* A row that is a single node stays: it is the root.                      *)
LEMMA RootStays ==
  ASSUME NEW s, IsRow(s), NEW h \in 0..Len(s), Len(Levels(s)[h]) = 1
  PROVE  MerkleRoot(s) = Levels(s)[h][1]
<1>1. PICK lv : lv = Levels(s)
  OBVIOUS
<1>2. /\ Len(s) \in Nat
      /\ \A m \in 0..(Len(s) - 1) : lv[m + 1] = Up(lv[m])
      /\ MerkleRoot(s) = lv[Len(s)][1]
  BY <1>1, LevelsOf DEF IsRow
<1> DEFINE P == {m \in Nat : h + m <= Len(s) => lv[h + m] = lv[h]}
<1>3. 0 \in P
  BY <1>2
<1>4. ASSUME NEW m \in Nat, m \in P PROVE m + 1 \in P
  <2>1. SUFFICES ASSUME h + (m + 1) <= Len(s) PROVE lv[h + (m + 1)] = lv[h]
    OBVIOUS
  <2>2. /\ h + m \in 0..(Len(s) - 1) /\ (h + m) + 1 = h + (m + 1)
        /\ h + m <= Len(s)
    BY <1>2, <2>1
  <2>3. lv[h + (m + 1)] = Up(lv[h + m]) /\ lv[h + m] = lv[h]
    BY <1>2, <1>4, <2>2
  <2> QED BY <1>1, <2>3 DEF Up
<1>5. Nat \subseteq P
  <2> HIDE DEF P
  <2> QED BY <1>3, <1>4, SetInduction
<1>6. PICK m \in Nat : h + m = Len(s)
  <2>1. Len(s) - h \in Nat /\ h + (Len(s) - h) = Len(s)
    BY <1>2
  <2> QED BY <2>1
<1>7. lv[h + m] = lv[h]
  <2>1. m \in P /\ h + m <= Len(s)
    BY <1>2, <1>5, <1>6
  <2> QED BY <2>1
<1> QED BY <1>1, <1>2, <1>6, <1>7

-----------------------------------------------------------------------------
(* The tree from the top *)

\* The nodes at height k of the tree over s, from those below them.
NodesAt(below, s, k) ==
  [j \in {x \in 0..(Len(s) - 1) : x * 2^k < Len(s)} |->
     IF k = 0 THEN s[j + 1]
     ELSE hash_pair(below[2*j],
                    IF (2*j + 1) * 2^(k - 1) < Len(s)
                    THEN below[2*j + 1] ELSE below[2*j])]

AreNodes(t, s, h) == t = [k \in 0..h |-> NodesAt(t[k - 1], s, k)]

LEMMA NodesExist ==
  ASSUME NEW s, NEW h \in Nat
  PROVE  \E t : AreNodes(t, s, h)
<1> DEFINE P == {m \in Nat : \E t : AreNodes(t, s, m)}
<1>0. \A a, b : NodesAt(a, s, 0) = NodesAt(b, s, 0)
  BY DEF NodesAt
<1>1. 0 \in P
  <2> DEFINE f == [n \in 0..0 |-> NodesAt(s, s, 0)]
  <2>1. \A n \in 0..0 : f[n] = NodesAt(f[n - 1], s, n)
    BY <1>0
  <2>2. f = [n \in 0..0 |-> NodesAt(f[n - 1], s, n)]
    BY <2>1
  <2> HIDE DEF f
  <2> QED BY <2>2 DEF AreNodes
<1>2. ASSUME NEW m \in Nat, m \in P PROVE m + 1 \in P
  <2>1. PICK f : AreNodes(f, s, m)
    BY <1>2
  <2> DEFINE g == [n \in 0..(m + 1) |-> IF n = m + 1 THEN NodesAt(f[m], s, m + 1)
                                                     ELSE f[n]]
  <2>2. \A n \in 0..(m + 1) : g[n] = NodesAt(g[n - 1], s, n)
    <3> TAKE n \in 0..(m + 1)
    <3>1. CASE n = m + 1
      BY <3>1
    <3>2. CASE n \in 0..m
      <4>1. f[n] = NodesAt(f[n - 1], s, n)
        BY <2>1, <3>2 DEF AreNodes
      <4>2. CASE n = 0
        BY <1>0, <4>1, <4>2
      <4>3. CASE n # 0
        <5>1. n - 1 \in 0..m /\ n - 1 # m + 1 /\ n # m + 1
          BY <3>2, <4>3
        <5> QED BY <3>2, <4>1, <5>1
      <4> QED BY <4>2, <4>3
    <3> QED BY <3>1, <3>2
  <2>3. g = [n \in 0..(m + 1) |-> NodesAt(g[n - 1], s, n)]
    BY <2>2
  <2> HIDE DEF g
  <2> QED BY <2>3 DEF AreNodes
<1>3. Nat \subseteq P
  <2> HIDE DEF P
  <2> QED BY <1>1, <1>2, SetInduction
<1> QED BY <1>3

(* As long as rows have more than one node, the row after k turns is the   *)
(* row of nodes at height k: it has a node for every 2^k leaves, the last  *)
(* ones perhaps fewer.                                                     *)
LEMMA RowsAreNodes ==
  ASSUME NEW s, IsRow(s), NEW h \in 0..Len(s),
         \A m \in 0..(h - 1) : Len(Levels(s)[m]) # 1,
         NEW t, AreNodes(t, s, h), NEW k \in 0..h
  PROVE  /\ \A j \in Nat : j < Len(Levels(s)[k]) <=> j * 2^k < Len(s)
         /\ \A j \in Nat : j < Len(Levels(s)[k]) =>
                             t[k][j] = Levels(s)[k][j + 1]
<1>1. PICK lv : lv = Levels(s)
  OBVIOUS
<1>2. PICK N \in Nat \ {0} : N = Len(s)
  BY DEF IsRow
<1>3. /\ lv[0] = s
      /\ \A m \in 0..(N - 1) : lv[m + 1] = Up(lv[m])
  BY <1>1, <1>2, LevelsOf
<1>4. \A m \in 0..N : IsRow(lv[m]) /\ (Len(lv[m]) = 1 \/ Len(lv[m]) <= N - m)
  BY <1>1, <1>2, RowsShrink
<1>5. \A m \in 0..h : t[m] = NodesAt(t[m - 1], s, m)
  BY DEF AreNodes
<1> DEFINE Cover(m) == \A j \in Nat : j < Len(lv[m]) <=> j * 2^m < N
           Agree(m) == \A j \in Nat : j < Len(lv[m]) => t[m][j] = lv[m][j + 1]
           P == {m \in Nat : m <= h => Cover(m) /\ Agree(m)}
<1>6. 0 \in P
  <2>1. Cover(0)
    BY <1>2, <1>3, PowersOfTwo
  <2>2. Agree(0)
    <3>1. \A j \in Nat : j < N => j \in 0..(N - 1) /\ j * 2^0 < N
      BY PowersOfTwo
    <3>2. t[0] = NodesAt(t[0 - 1], s, 0)
      BY <1>5
    <3> QED BY <1>2, <1>3, <3>1, <3>2 DEF NodesAt
  <2> QED BY <2>1, <2>2
<1>7. ASSUME NEW m \in Nat, m \in P PROVE m + 1 \in P
  <2>1. SUFFICES ASSUME m + 1 <= h PROVE Cover(m + 1) /\ Agree(m + 1)
    OBVIOUS
  <2>2. /\ m \in 0..(h - 1) /\ m \in 0..(N - 1) /\ m \in 0..N
        /\ m + 1 \in 0..h /\ m + 1 \in 0..N
    BY <1>2, <2>1
  <2>3. Cover(m) /\ Agree(m)
    BY <1>7, <2>2
  <2>4. lv[m + 1] = Up(lv[m]) /\ Len(lv[m]) # 1 /\ IsRow(lv[m])
    BY <1>1, <1>3, <1>4, <2>2
  <2>5. PICK L \in Nat : L = Len(lv[m]) /\ L > 1
    <3>1. Len(lv[m]) \in Nat \ {0}
      BY <2>4 DEF IsRow
    <3>2. \A n \in Nat \ {0} : n # 1 => n \in Nat /\ n > 1
      OBVIOUS
    <3> QED BY <2>4, <3>1, <3>2
  <2>6. PICK H \in Nat : H = Len(lv[m + 1]) /\ H = (L + 1) \div 2 /\ H <= N
    <3>1. Len(lv[m + 1]) = (L + 1) \div 2
      BY <2>4, <2>5, UpShrinks
    <3>2. Len(lv[m + 1]) \in Nat
      <4>1. \A n \in Nat : (n + 1) \div 2 \in Nat
        OBVIOUS
      <4> QED BY <3>1, <4>1
    <3>3. Len(lv[m + 1]) <= N
      <4>1. \A n \in Nat : n = 1 \/ n <= N - (m + 1) => n <= N
        OBVIOUS
      <4> QED BY <1>4, <2>2, <3>2, <4>1
    <3> QED BY <3>1, <3>2, <3>3
  <2>7. PICK p \in Nat : p = 2^m /\ 2^(m + 1) = p + p
    BY PowersOfTwo
  <2>8. ASSUME NEW j \in Nat
        PROVE  /\ j < H <=> 2*j < L
               /\ 2*j + 1 < L <=> 2*(j + 1) <= L
               /\ j * (p + p) = (2*j) * p
    <3>1. \A a, b \in Nat : a * (b + b) = (2*a) * b
      OBVIOUS
    <3>2. j < H <=> 2*j < L
      BY <2>6
    <3>3. 2*j + 1 < L <=> 2*(j + 1) <= L
      OBVIOUS
    <3> QED BY <3>1, <3>2, <3>3
  <2>9. Cover(m + 1)
    <3>1. SUFFICES ASSUME NEW j \in Nat
                   PROVE  j < H <=> j * 2^(m + 1) < N
      BY <2>6
    <3>2. 2*j \in Nat /\ (2*j < L <=> (2*j) * p < N)
      BY <2>3, <2>5, <2>7
    <3> QED BY <2>7, <2>8, <3>2
  <2>10. ASSUME NEW j \in Nat, j < H PROVE t[m + 1][j] = lv[m + 1][j + 1]
    <3>1. /\ 2*j \in Nat /\ 2*j < L /\ 2*j + 1 \in Nat
          /\ 2*j + 1 < L <=> (2*j + 1) * p < N
          /\ 2*j + 1 < L <=> 2*(j + 1) <= L
      BY <2>3, <2>5, <2>7, <2>8, <2>10
    <3>2. /\ t[m][2*j] = lv[m][2*j + 1]
          /\ 2*j + 1 < L => t[m][2*j + 1] = lv[m][(2*j + 1) + 1]
      BY <2>3, <2>5, <3>1
    <3>3. t[m + 1][j] = hash_pair(t[m][2*j],
                          IF (2*j + 1) * p < N THEN t[m][2*j + 1] ELSE t[m][2*j])
      <4>1. t[m + 1] = NodesAt(t[(m + 1) - 1], s, m + 1) /\ (m + 1) - 1 = m
        BY <1>5, <2>2
      <4>2. j \in 0..(N - 1) /\ j * 2^(m + 1) < N /\ m + 1 # 0
        BY <2>6, <2>9, <2>10
      <4> QED BY <1>2, <2>7, <4>1, <4>2 DEF NodesAt
    <3>4. lv[m + 1][j + 1] =
            hash_pair(lv[m][2*(j + 1) - 1],
                      IF 2*(j + 1) <= L THEN lv[m][2*(j + 1)]
                                        ELSE lv[m][2*(j + 1) - 1])
      <4>1. lv[m + 1] = ParentLevel(lv[m]) /\ IsSequence(lv[m])
        BY <2>4 DEF Up, IsRow
      <4>2. j + 1 \in 1..Len(lv[m + 1])
        BY <2>6, <2>10
      <4> QED BY <2>5, <4>1, <4>2, ParentLevels
    <3>5. 2*(j + 1) - 1 = 2*j + 1 /\ (2*j + 1) + 1 = 2*(j + 1)
      OBVIOUS
    <3> QED BY <3>1, <3>2, <3>3, <3>4, <3>5
  <2> QED BY <2>6, <2>9, <2>10
<1>8. Nat \subseteq P
  <2> HIDE DEF P
  <2> QED BY <1>6, <1>7, SetInduction
<1>9. k \in P /\ k <= h
  BY <1>8
<1> QED BY <1>1, <1>2, <1>9

-----------------------------------------------------------------------------
(* merkle_proof climbs the rows of merkle_root *)

OnLevels ==
  /\ Len(proof) <= Len(leaves)
  /\ level = Levels(leaves)[Len(proof)]
  /\ \A m \in 0..(Len(proof) - 1) : Len(Levels(leaves)[m]) # 1
  /\ path[1] = leaves[leaf_index + 1]

LEMMA LeavesAreRow == IInv => IsRow(leaves) /\ leaves \in Seq(Leaf)
<1> SUFFICES ASSUME IInv PROVE IsRow(leaves) /\ leaves \in Seq(Leaf)
  OBVIOUS
<1>1. leaves \in Seq(Leaf) /\ leaves # <<>>
  BY MerkleAssumption DEF IInv, TypeOK
<1>2. Len(leaves) \in Nat \ {0} /\ leaves = [i \in 1..Len(leaves) |-> leaves[i]]
  BY <1>1
<1> QED BY <1>1, <1>2 DEF IsRow, IsSequence

LEMMA InitOnLevels == Init => OnLevels
<1> SUFFICES ASSUME Init PROVE OnLevels
  OBVIOUS
<1>1. IsRow(leaves)
  BY InitIInv, LeavesAreRow
<1>2. Len(leaves) \in Nat /\ Levels(leaves)[0] = leaves
  BY <1>1, LevelsOf DEF IsRow
<1>3. level = leaves /\ Len(proof) = 0 /\ path[1] = leaves[leaf_index + 1]
  BY DEF Init
<1> QED BY <1>2, <1>3 DEF OnLevels

LEMMA StepOnLevels == IInv /\ OnLevels /\ [Next]_vars => OnLevels'
<1> SUFFICES ASSUME IInv, OnLevels, [Next]_vars PROVE OnLevels'
  OBVIOUS
<1>1. CASE Climb
  <2>1. PICK s, h : s = leaves /\ h = Len(proof)
    OBVIOUS
  <2>2. /\ IsRow(s) /\ Len(s) \in Nat /\ h \in 0..Len(s)
        /\ level = Levels(s)[h]
        /\ \A m \in 0..(h - 1) : Len(Levels(s)[m]) # 1
    BY <2>1, LeavesAreRow
    DEF OnLevels, IInv, ProofLeadsToLevel, IsSequence, IsRow
  <2>3. Len(level) > 1 /\ Len(level) \in Nat /\ IsSequence(level)
    BY <1>1 DEF Climb, IInv, ProofLeadsToLevel, IsSequence
  <2>10. Len(level) # 1
    <3>1. \A n \in Nat : n > 1 => n # 1
      OBVIOUS
    <3> QED BY <2>3, <3>1
  <2>4. h + 1 <= Len(s)
    <3>1. Len(level) = 1 \/ Len(level) <= Len(s) - h
      BY <2>2, RowsShrink
    <3>2. \A n \in Nat : n > 1 /\ n <= Len(s) - h => h + 1 <= Len(s)
      BY <2>2
    <3> QED BY <2>3, <2>10, <3>1, <3>2
  <2>5. level' = Levels(s)[h + 1]
    <3>1. Levels(s)[h + 1] = Up(Levels(s)[h])
      BY <2>2, <2>4, LevelsOf
    <3>2. level' = Up(level)
      BY <1>1, <2>10 DEF Climb, Up
    <3> QED BY <2>2, <3>1, <3>2
  <2>6. Len(proof') = h + 1
    BY <1>1, <2>1, Appended DEF Climb, IInv, ProofLeadsToLevel
  <2>7. path'[1] = path[1]
    <3>1. /\ IsSequence(path) /\ Len(path) \in Nat /\ Len(path) >= 1
          /\ path' = Append(path, VerifyStep(path[Len(path)],
                                             ProofNode(level, index)))
      <4>1. IsSequence(proof) /\ IsSequence(path) /\ Len(path) = Len(proof) + 1
        BY DEF IInv, TypeOK, ProofLeadsToLevel
      <4> QED BY <1>1, <4>1 DEF Climb, IsSequence
    <3>2. 1 \in 1..Len(path)
      BY <3>1
    <3> QED BY <3>1, <3>2, Appended
  <2>8. leaves' = s /\ leaf_index' = leaf_index
    BY <1>1, <2>1 DEF Climb
  <2>9. \A m \in 0..((h + 1) - 1) : Len(Levels(s)[m]) # 1
    <3>1. \A m \in 0..((h + 1) - 1) : m = h \/ m \in 0..(h - 1)
      BY <2>2
    <3>2. Len(Levels(s)[h]) # 1
      BY <2>2, <2>10
    <3> QED BY <2>2, <3>1, <3>2
  <2> QED BY <2>1, <2>4, <2>5, <2>6, <2>7, <2>8, <2>9 DEF OnLevels
<1>2. CASE UNCHANGED <<leaves, leaf_index, level, proof, path>>
  BY <1>2 DEF OnLevels
<1> QED BY <1>1, <1>2 DEF Next, Proved, Verify, Compare, vars

LEMMA AlwaysOnLevels == Spec => [](IInv /\ OnLevels)
  BY InitIInv, StepIInv, InitOnLevels, StepOnLevels, PTL DEF Spec

(* What holds when the receipt is there.                                   *)
LEMMA AtRoot ==
  ASSUME IInv, OnLevels, pc = "done"
  PROVE  /\ Len(level) = 1 /\ IsSequence(level)
         /\ Len(proof) \in 0..Len(leaves)
         /\ MerkleRoot(leaves) = level[1]
         /\ path[Len(proof) + 1] = level[1]
<1>1. IsSequence(level) /\ Len(level) = 1 /\ index = 0
  BY DEF IInv, TypeOK, ProofLeadsToLevel, VerifierOnPath
<1>2. Len(proof) \in Nat /\ Len(path) = Len(proof) + 1
  BY DEF IInv, TypeOK, ProofLeadsToLevel, IsSequence
<1>3. path[Len(proof) + 1] = level[1]
  BY <1>1, <1>2 DEF IInv, ProofLeadsToLevel
<1>4. IsRow(leaves) /\ Len(proof) \in 0..Len(leaves)
  BY <1>2, LeavesAreRow DEF OnLevels, IsRow
<1>5. MerkleRoot(leaves) = level[1]
  BY <1>1, <1>4, RootStays DEF OnLevels
<1> QED BY <1>1, <1>3, <1>4, <1>5

(* The proofs of a batch end at the root of the binary tree over its votes, *)
(* of the least height that covers them, and at the root that merkle_root  *)
(* computes in a loop of its own (merkle.rs:20-41 and 44-83), whatever the *)
(* hash function and the number of votes.                                  *)
THEOREM RootOfTheTree == Spec => []RootIsTreeRoot
<1>1. IInv /\ OnLevels => RootIsTreeRoot
  <2> SUFFICES ASSUME IInv, OnLevels, pc = "done"
               PROVE  /\ 2^Len(proof) >= Len(leaves)
                      /\ Len(proof) > 0 => 2^(Len(proof) - 1) < Len(leaves)
                      /\ level = <<ReferenceNode(Len(proof), 0)>>
                      /\ MerkleRoot(leaves) = level[1]
    BY DEF RootIsTreeRoot
  <2>1. PICK s, h : s = leaves /\ h = Len(proof)
    OBVIOUS
  <2>2. /\ IsRow(s) /\ Len(s) \in Nat /\ h \in Nat /\ h \in 0..Len(s)
        /\ level = Levels(s)[h] /\ Len(level) = 1 /\ IsSequence(level)
        /\ \A m \in 0..(h - 1) : Len(Levels(s)[m]) # 1
    BY <2>1, AtRoot, LeavesAreRow DEF OnLevels, IsRow
  <2>3. PICK t : AreNodes(t, s, h)
    BY <2>2, NodesExist
  <2>4. \A k \in 0..h :
          /\ \A j \in Nat : j < Len(Levels(s)[k]) <=> j * 2^k < Len(s)
          /\ \A j \in Nat : j < Len(Levels(s)[k]) =>
                              t[k][j] = Levels(s)[k][j + 1]
    BY <2>2, <2>3, RowsAreNodes
  <2>5. 2^h \in Nat /\ ~(1 * 2^h < Len(s))
    <3>1. 2^h \in Nat /\ h \in 0..h
      BY <2>2, PowersOfTwo
    <3>2. 1 < Len(Levels(s)[h]) <=> 1 * 2^h < Len(s)
      BY <2>4, <3>1
    <3>3. ~(1 < 1) /\ Len(Levels(s)[h]) = 1
      BY <2>2
    <3>4. ~(1 < Len(Levels(s)[h]))
      BY ONLY <3>3
    <3> QED BY <3>1, <3>2, <3>4
  <2>6. ASSUME h > 0 PROVE 2^(h - 1) < Len(s)
    <3>1. /\ h - 1 \in 0..h /\ h - 1 \in 0..(h - 1) /\ h - 1 \in 0..Len(s)
          /\ h - 1 \in Nat
      BY <2>2, <2>6
    <3>2. IsRow(Levels(s)[h - 1]) /\ Len(Levels(s)[h - 1]) # 1
      BY <2>2, <3>1, RowsShrink
    <3>3. 1 < Len(Levels(s)[h - 1])
      <4>1. Len(Levels(s)[h - 1]) \in Nat \ {0}
        BY <3>2 DEF IsRow
      <4>2. \A n \in Nat \ {0} : n # 1 => 1 < n
        OBVIOUS
      <4> QED BY <3>2, <4>1, <4>2
    <3>4. 1 * 2^(h - 1) < Len(s) /\ 2^(h - 1) \in Nat
      BY <2>4, <3>1, <3>3, PowersOfTwo
    <3> QED BY <3>4
  <2>7. t[h][0] = level[1]
    <3>1. 0 < 1 /\ Len(Levels(s)[h]) = 1 /\ h \in 0..h /\ 0 + 1 = 1
      BY <2>2
    <3>2. 0 < Len(Levels(s)[h])
      BY ONLY <3>1
    <3>3. t[h][0] = Levels(s)[h][0 + 1]
      BY <2>4, <3>1, <3>2
    <3> QED BY <2>2, <3>1, <3>3
  <2>8. ReferenceNode(h, 0) = level[1]
    <3> DEFINE Unfolds(f) == f = [k \in 0..h |->
                  [j \in {x \in 0..(Len(leaves) - 1) : x * 2^k < Len(leaves)} |->
                     IF k = 0 THEN leaves[j + 1]
                     ELSE hash_pair(f[k - 1][2*j],
                            IF (2*j + 1) * 2^(k - 1) < Len(leaves)
                            THEN f[k - 1][2*j + 1] ELSE f[k - 1][2*j])]]
               tree == CHOOSE f : Unfolds(f)
    <3>1. ReferenceNode(h, 0) = tree[h][0]
      BY DEF ReferenceNode
    <3>2. \A f : Unfolds(f) <=> AreNodes(f, s, h)
      BY <2>1 DEF AreNodes, NodesAt
    <3>3. Unfolds(tree)
      <4>1. Unfolds(t)
        BY <2>3, <3>2
      <4> HIDE DEF Unfolds
      <4> QED BY <4>1
    <3>4. AreNodes(tree, s, h)
      BY <3>2, <3>3
    <3> HIDE DEF tree
    <3>5. 0 < 1 /\ Len(Levels(s)[h]) = 1 /\ h \in 0..h /\ 0 + 1 = 1
      BY <2>2
    <3>6. 0 < Len(Levels(s)[h])
      BY ONLY <3>5
    <3>7. \A j \in Nat : j < Len(Levels(s)[h]) =>
            tree[h][j] = Levels(s)[h][j + 1]
      BY <2>2, <3>4, <3>5, RowsAreNodes
    <3>8. tree[h][0] = Levels(s)[h][0 + 1]
      BY <3>6, <3>7
    <3> QED BY <2>2, <3>1, <3>5, <3>8
  <2>9. level = <<level[1]>>
    BY <2>2 DEF IsSequence
  <2> QED BY <2>1, <2>2, <2>5, <2>6, <2>8, <2>9, AtRoot
<1> QED BY <1>1, AlwaysOnLevels, PTL

(* Without collisions, equal roots of equally many votes mean equal votes  *)
(* in equal order: only the number of votes has to be hashed with the root *)
(* to make batch_id a name of the batch (batches.rs:47-58).                *)
THEOREM RootBinds == ASSUME NoCollisions PROVE Spec => []RootBindsLeaves
<1>1. IInv /\ OnLevels => RootBindsLeaves
  <2> SUFFICES ASSUME IInv, OnLevels, pc = "done", NEW other \in LeafSequences,
                      Len(other) = Len(leaves), MerkleRoot(other) = level[1]
               PROVE  other = leaves
    BY DEF RootBindsLeaves
  <2>1. IsRow(leaves) /\ MerkleRoot(leaves) = level[1]
    BY AtRoot, LeavesAreRow
  <2>2. IsRow(other)
    <3>1. other \in Seq(Leaf) /\ other # <<>>
      BY MerkleAssumption
    <3>2. Len(other) \in Nat \ {0} /\ other = [i \in 1..Len(other) |-> other[i]]
      BY <3>1
    <3> QED BY <3>2 DEF IsRow, IsSequence
  <2> QED BY <2>1, <2>2, RootsBind
<1> QED BY <1>1, AlwaysOnLevels, PTL

-----------------------------------------------------------------------------
(* Verifying a receipt for another vote *)

\* f[k] is the hash that k turns of verify_merkle_proof reach from a leaf.
AreHashes(f, leaf, nodes, h) ==
  f = [k \in 0..h |-> IF k = 0 THEN leaf ELSE VerifyStep(f[k - 1], nodes[k])]

LEMMA HashesExist ==
  ASSUME NEW leaf, NEW nodes, NEW h \in Nat
  PROVE  \E f : AreHashes(f, leaf, nodes, h)
<1> DEFINE P == {m \in Nat : \E f : AreHashes(f, leaf, nodes, m)}
<1>1. 0 \in P
  <2> DEFINE f == [k \in 0..0 |-> leaf]
  <2>1. f = [k \in 0..0 |-> IF k = 0 THEN leaf ELSE VerifyStep(f[k - 1], nodes[k])]
    OBVIOUS
  <2> HIDE DEF f
  <2> QED BY <2>1 DEF AreHashes
<1>2. ASSUME NEW m \in Nat, m \in P PROVE m + 1 \in P
  <2>1. PICK f : AreHashes(f, leaf, nodes, m)
    BY <1>2
  <2> DEFINE g == [k \in 0..(m + 1) |-> IF k = m + 1
                                        THEN VerifyStep(f[m], nodes[m + 1])
                                        ELSE f[k]]
  <2>2. \A k \in 0..(m + 1) :
          g[k] = IF k = 0 THEN leaf ELSE VerifyStep(g[k - 1], nodes[k])
    <3> TAKE k \in 0..(m + 1)
    <3>1. CASE k = m + 1
      BY <3>1
    <3>2. CASE k \in 0..m
      <4>1. f[k] = IF k = 0 THEN leaf ELSE VerifyStep(f[k - 1], nodes[k])
        BY <2>1, <3>2 DEF AreHashes
      <4> QED BY <3>2, <4>1
    <3> QED BY <3>1, <3>2
  <2>3. g = [k \in 0..(m + 1) |->
               IF k = 0 THEN leaf ELSE VerifyStep(g[k - 1], nodes[k])]
    BY <2>2
  <2> HIDE DEF g
  <2> QED BY <2>3 DEF AreHashes
<1>3. Nat \subseteq P
  <2> HIDE DEF P
  <2> QED BY <1>1, <1>2, SetInduction
<1> QED BY <1>3

(* Without collisions a receipt verifies for its own vote alone, although  *)
(* the doubled last nodes of odd rows repeat hashes in the proof           *)
(* (merkle.rs:51-93).                                                      *)
THEOREM OnlyItsLeaf == ASSUME NoCollisions PROVE Spec => []OnlyItsLeafVerifies
<1>1. IInv /\ OnLevels => OnlyItsLeafVerifies
  <2> SUFFICES ASSUME IInv, OnLevels, pc = "done", NEW leaf \in Leaf,
                      Climbed(leaf) = level[1]
               PROVE  leaf = leaves[leaf_index + 1]
    BY DEF OnlyItsLeafVerifies
  <2>1. PICK h, p, nodes : h = Len(proof) /\ p = path /\ nodes = proof
    OBVIOUS
  <2>2. /\ h \in Nat /\ p[h + 1] = level[1] /\ p[1] = leaves[leaf_index + 1]
        /\ \A k \in 1..h : p[k + 1] = VerifyStep(p[k], nodes[k])
    BY <2>1, AtRoot DEF OnLevels, IInv, ProofLeadsToLevel, IsSequence
  <2>3. PICK f : AreHashes(f, leaf, nodes, h) /\ f[h] = level[1]
    <3> DEFINE Unfolds(g) == g = [k \in 0..Len(proof) |->
                 IF k = 0 THEN leaf ELSE VerifyStep(g[k - 1], proof[k])]
               hash == CHOOSE g : Unfolds(g)
    <3>1. Climbed(leaf) = hash[Len(proof)]
      BY DEF Climbed
    <3>2. \A g : Unfolds(g) <=> AreHashes(g, leaf, nodes, h)
      BY <2>1 DEF AreHashes
    <3>3. Unfolds(hash)
      <4>1. \E g : Unfolds(g)
        BY <2>2, <3>2, HashesExist
      <4> HIDE DEF Unfolds
      <4> QED BY <4>1
    <3>4. AreHashes(hash, leaf, nodes, h)
      BY <3>2, <3>3
    <3> HIDE DEF hash
    <3> QED BY <2>1, <3>1, <3>4
  <2> DEFINE Q == {n \in Nat : n <= h => f[h - n] = p[(h - n) + 1]}
  <2>4. 0 \in Q
    BY <2>2, <2>3
  <2>5. ASSUME NEW n \in Nat, n \in Q PROVE n + 1 \in Q
    <3>1. SUFFICES ASSUME n + 1 <= h
                   PROVE  f[h - (n + 1)] = p[(h - (n + 1)) + 1]
      OBVIOUS
    <3>2. PICK k : k = h - n
      OBVIOUS
    <3>3. /\ k \in 1..h /\ k - 1 = h - (n + 1) /\ (k - 1) + 1 = k
          /\ k \in 0..h /\ k # 0 /\ n <= h
      BY <2>2, <3>1, <3>2
    <3>4. f[k] = VerifyStep(f[k - 1], nodes[k])
      BY <2>3, <3>3 DEF AreHashes
    <3>5. p[k + 1] = VerifyStep(p[k], nodes[k]) /\ f[k] = p[k + 1]
      BY <2>2, <2>5, <3>2, <3>3
    <3>6. f[k - 1] = p[k]
      BY <3>4, <3>5 DEF NoCollisions, VerifyStep
    <3> QED BY <3>2, <3>3, <3>6
  <2>6. Nat \subseteq Q
    <3> HIDE DEF Q
    <3> QED BY <2>4, <2>5, SetInduction
  <2>7. f[0] = p[1]
    <3>1. h \in Q /\ h - h = 0 /\ 0 + 1 = 1
      BY <2>2, <2>6
    <3> QED BY <2>2, <3>1
  <2>8. f[0] = leaf
    BY <2>2, <2>3 DEF AreHashes
  <2> QED BY <2>2, <2>7, <2>8
<1> QED BY <1>1, AlwaysOnLevels, PTL
=============================================================================
