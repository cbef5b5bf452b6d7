------------------------ MODULE VoteProofFlowProofs -------------------------
(***************************************************************************)
(* Completeness, special soundness and agreement of the vote proofs, for   *)
(* every group and every hash that satisfy the assumptions of VoteSigma:   *)
(* first of the proofs of single positions, then of the sum.               *)
(***************************************************************************)
EXTENDS VoteProofFlow, SequenceFacts, TLAPS

\* The bases the API and the prover recover from two encryptions are the
\* generators and the key themselves: the literal bytes of proofs.rs.
LEMMA DerivedBases ==
  /\ derive_bases = [g |-> G, h |-> H, p |-> P]
  /\ api_derive_bases = [g |-> G, h |-> H, p |-> P]
  /\ chain_derive_bases = [g |-> G, h |-> H, p |-> P]
<1>1. /\ PAdd(Mul(G, SOne), Mul(H, SZero)) = G
      /\ PAdd(Mul(G, SZero), Mul(H, SOne)) = H
      /\ Mul(P, SOne) = P
  BY ModuleLaws DEF ModuleLaws
<1>2. QED
  BY <1>1 DEF derive_bases, api_derive_bases, chain_derive_bases, Encrypt

\* An encryption is a pair of points, and taking b*G off the commitment of
\* a bit b leaves the opening times H.
LEMMA EncryptionOpens ==
  ASSUME NEW r \in Scalar
  PROVE  /\ \A value \in Scalar :
              /\ Encrypt(value, r) \in [commitment : Point, handle : Point]
              /\ Encrypt(value, r).handle = Mul(P, r)
         /\ Encrypt(SZero, r).commitment = Mul(H, r)
         /\ PSub(Encrypt(SOne, r).commitment, G) = Mul(H, r)
<1>1. /\ PAdd(Mul(G, SZero), Mul(H, r)) = Mul(H, r)
      /\ PSub(PAdd(Mul(G, SOne), Mul(H, r)), G) = Mul(H, r)
  <2>1. Mul(H, r) \in Point /\ G \in Point /\ Mul(G, SOne) = G
    BY ModuleLaws DEF ModuleLaws
  <2>2. PAdd(Mul(G, SZero), Mul(H, r)) = Mul(H, r)
    BY <2>1, ModuleLaws DEF ModuleLaws
  <2>3. PSub(PAdd(G, Mul(H, r)), G) = Mul(H, r)
    BY <2>1, ModuleLaws DEF ModuleLaws
  <2>4. QED
    BY <2>1, <2>2, <2>3
<1>2. \A value \in Scalar : PAdd(Mul(G, value), Mul(H, r)) \in Point
  BY ModuleLaws DEF ModuleLaws
<1>3. Mul(P, r) \in Point
  BY ModuleLaws DEF ModuleLaws
<1>4. QED
  BY <1>1, <1>2, <1>3 DEF Encrypt

\* The real branch: the answer w + c*r satisfies its equation.
LEMMA AnswerVerifies ==
  ASSUME NEW x \in Point, NEW r \in Scalar, NEW w \in Scalar, NEW c \in Scalar
  PROVE  Mul(x, SAdd(w, SMul(c, r))) = PAdd(Mul(x, w), Mul(Mul(x, r), c))
BY ModuleLaws DEF ModuleLaws

\* The simulated branch: the first message was made to fit the answer.
LEMMA SimulationVerifies ==
  ASSUME NEW x \in Point, NEW y \in Point, NEW s \in Scalar, NEW c \in Scalar
  PROVE  /\ PSub(Mul(x, s), Mul(y, c)) \in Point
         /\ Mul(x, s) = PAdd(PSub(Mul(x, s), Mul(y, c)), Mul(y, c))
BY ModuleLaws DEF ModuleLaws

\* A proof of an encrypted 0 is accepted.
LEMMA ZeroProofVerifies ==
  ASSUME NEW r \in Scalar, NEW w \in Scalar, NEW c \in Scalar, NEW s \in Scalar
  PROVE  /\ ProveZero(Encrypt(SZero, r), r, w, c, s) \in VoteProofs
         /\ api_verify_vote_proof(Encrypt(SZero, r),
                                  ProveZero(Encrypt(SZero, r), r, w, c, s))
<1> DEFINE ct == Encrypt(SZero, r)
           proof == ProveZero(ct, r, w, c, s)
           off == PSub(ct.commitment, G)
           a1 == PSub(Mul(H, s), Mul(off, c))
           b1 == PSub(Mul(P, s), Mul(ct.handle, c))
           e == VoteHash(ct.commitment, ct.handle, Mul(H, w), Mul(P, w), a1, b1)
           c0 == SSub(e, c)
           s0 == SAdd(w, SMul(c0, r))
<1>1. /\ SZero \in Scalar /\ G \in Point /\ H \in Point /\ P \in Point
      /\ SOne \in Scalar
  BY ModuleLaws DEF ModuleLaws
<1>2. /\ ct.commitment = Mul(H, r) /\ ct.handle = Mul(P, r)
      /\ ct.commitment \in Point /\ ct.handle \in Point
  BY <1>1, EncryptionOpens
<1>3. off \in Point
  BY <1>1, <1>2, ModuleLaws DEF ModuleLaws
<1>4. /\ a1 \in Point /\ b1 \in Point
      /\ Mul(H, s) = PAdd(a1, Mul(off, c))
      /\ Mul(P, s) = PAdd(b1, Mul(ct.handle, c))
  BY <1>1, <1>2, <1>3, SimulationVerifies
<1>5. Mul(H, w) \in Point /\ Mul(P, w) \in Point
  BY <1>1, ModuleLaws DEF ModuleLaws
<1>6. e \in Scalar
  BY <1>2, <1>4, <1>5, HashesYieldScalars DEF HashesYieldScalars
<1>7. c0 \in Scalar /\ SAdd(c0, c) = e
  BY <1>6, ModuleLaws DEF ModuleLaws
<1>8. /\ Mul(H, s0) = PAdd(Mul(H, w), Mul(ct.commitment, c0))
      /\ Mul(P, s0) = PAdd(Mul(P, w), Mul(ct.handle, c0))
  BY <1>1, <1>2, <1>7, AnswerVerifies
<1>9. s0 \in Scalar
  BY <1>7, ModuleLaws DEF ModuleLaws
<1>10. proof = [a0 |-> Mul(H, w), b0 |-> Mul(P, w), c0 |-> c0, s0 |-> s0,
                a1 |-> a1, b1 |-> b1, c1 |-> c, s1 |-> s]
  BY DerivedBases DEF ProveZero, challenge_vote_proof
<1>11. proof \in VoteProofs
  <2> HIDE DEF a1, b1, c0, s0, proof
  <2> QED BY <1>4, <1>5, <1>7, <1>9, <1>10 DEF VoteProofs, Bytes
<1>12. VoteProofDecodes(ct, proof)
  <2> HIDE DEF ct, a1, b1, c0, s0, proof
  <2> QED BY <1>2, <1>4, <1>5, <1>7, <1>9, <1>10 DEF VoteProofDecodes
<1>13. SAdd(proof.c0, proof.c1) =
         api_challenge_vote_proof(ct, proof.a0, proof.b0, proof.a1, proof.b1)
  <2> HIDE DEF ct, a1, b1, c0, s0, proof
  <2> QED BY <1>7, <1>10 DEF api_challenge_vote_proof
<1>14. api_vote_equations(ct, proof)
  <2> HIDE DEF ct, a1, b1, c0, s0, proof
  <2> QED BY <1>4, <1>8, <1>10, DerivedBases DEF api_vote_equations
<1>15. QED
  BY <1>11, <1>12, <1>13, <1>14 DEF api_verify_vote_proof

\* A proof of an encrypted 1 is accepted.
LEMMA OneProofVerifies ==
  ASSUME NEW r \in Scalar, NEW w \in Scalar, NEW c \in Scalar, NEW s \in Scalar
  PROVE  api_verify_vote_proof(Encrypt(SOne, r),
                               ProveOne(Encrypt(SOne, r), r, w, c, s))
<1> DEFINE ct == Encrypt(SOne, r)
           proof == ProveOne(ct, r, w, c, s)
           off == PSub(ct.commitment, G)
           a0 == PSub(Mul(H, s), Mul(ct.commitment, c))
           b0 == PSub(Mul(P, s), Mul(ct.handle, c))
           e == VoteHash(ct.commitment, ct.handle, a0, b0, Mul(H, w), Mul(P, w))
           c1 == SSub(e, c)
           s1 == SAdd(w, SMul(c1, r))
<1>1. /\ SZero \in Scalar /\ G \in Point /\ H \in Point /\ P \in Point
      /\ SOne \in Scalar
  BY ModuleLaws DEF ModuleLaws
<1>2. /\ off = Mul(H, r) /\ ct.handle = Mul(P, r)
      /\ ct.commitment \in Point /\ ct.handle \in Point
  BY <1>1, EncryptionOpens
<1>4. /\ a0 \in Point /\ b0 \in Point
      /\ Mul(H, s) = PAdd(a0, Mul(ct.commitment, c))
      /\ Mul(P, s) = PAdd(b0, Mul(ct.handle, c))
  <2> DEFINE x == ct.commitment
             y == ct.handle
  <2>1. x \in Point /\ y \in Point
    BY <1>2
  <2> HIDE DEF x, y
  <2>2. /\ PSub(Mul(H, s), Mul(x, c)) \in Point
        /\ PSub(Mul(P, s), Mul(y, c)) \in Point
        /\ Mul(H, s) = PAdd(PSub(Mul(H, s), Mul(x, c)), Mul(x, c))
        /\ Mul(P, s) = PAdd(PSub(Mul(P, s), Mul(y, c)), Mul(y, c))
    BY <1>1, <2>1, SimulationVerifies
  <2>3. QED
    BY <2>2 DEF x, y
<1>5. Mul(H, w) \in Point /\ Mul(P, w) \in Point
  BY <1>1, ModuleLaws DEF ModuleLaws
<1>6. e \in Scalar
  BY <1>2, <1>4, <1>5, HashesYieldScalars DEF HashesYieldScalars
<1>7. c1 \in Scalar /\ SAdd(c, c1) = e
  BY <1>6, ModuleLaws DEF ModuleLaws
<1>8. /\ Mul(H, s1) = PAdd(Mul(H, w), Mul(off, c1))
      /\ Mul(P, s1) = PAdd(Mul(P, w), Mul(ct.handle, c1))
  BY <1>1, <1>2, <1>7, AnswerVerifies
<1>9. s1 \in Scalar
  BY <1>7, ModuleLaws DEF ModuleLaws
<1>10. proof = [a0 |-> a0, b0 |-> b0, c0 |-> c, s0 |-> s,
                a1 |-> Mul(H, w), b1 |-> Mul(P, w), c1 |-> c1, s1 |-> s1]
  BY DerivedBases DEF ProveOne, challenge_vote_proof
<1>12. VoteProofDecodes(ct, proof)
  <2> HIDE DEF ct, a0, b0, c1, s1, proof
  <2> QED BY <1>2, <1>4, <1>5, <1>7, <1>9, <1>10 DEF VoteProofDecodes
<1>13. SAdd(proof.c0, proof.c1) =
         api_challenge_vote_proof(ct, proof.a0, proof.b0, proof.a1, proof.b1)
  <2> HIDE DEF ct, a0, b0, c1, s1, proof
  <2> QED BY <1>7, <1>10 DEF api_challenge_vote_proof
<1>14. api_vote_equations(ct, proof)
  <2> HIDE DEF ct, a0, b0, c1, s1, proof
  <2> QED BY <1>4, <1>8, <1>10, DerivedBases DEF api_vote_equations
<1>15. QED
  BY <1>12, <1>13, <1>14 DEF api_verify_vote_proof

-----------------------------------------------------------------------------
\* r is what two answers s and t to the challenges c and d reveal.
Reveals(s, t, c, d, r) ==
  \A x, y, a \in Point :
    /\ Mul(x, s) = PAdd(a, Mul(y, c))
    /\ Mul(x, t) = PAdd(a, Mul(y, d))
    => y = Mul(x, r)

\* Two answers to one first message: c # d and x*s = a + y*c, x*t = a + y*d
\* give y as a multiple of x.
LEMMA TwoAnswers ==
  ASSUME NEW s \in Scalar, NEW t \in Scalar, NEW c \in Scalar, NEW d \in Scalar,
         c # d
  PROVE  \E r \in Scalar : Reveals(s, t, c, d, r)
<1> DEFINE gap == SSub(c, d)
<1>1. gap \in Scalar \ {SZero}
  BY ModuleLaws DEF ModuleLaws
<1>2. PICK inverse \in Scalar : \A x \in Point : Mul(Mul(x, gap), inverse) = x
  <2> HIDE DEF gap
  <2> QED BY <1>1, ModuleLaws DEF ModuleLaws
<1>3. SMul(inverse, SSub(s, t)) \in Scalar /\ SSub(s, t) \in Scalar
  BY ModuleLaws DEF ModuleLaws
<1>4. ASSUME NEW x \in Point, NEW y \in Point, NEW a \in Point,
             Mul(x, s) = PAdd(a, Mul(y, c)),
             Mul(x, t) = PAdd(a, Mul(y, d))
      PROVE  y = Mul(x, SMul(inverse, SSub(s, t)))
  <2>1. Mul(x, SSub(s, t)) = PSub(PAdd(a, Mul(y, c)), PAdd(a, Mul(y, d)))
    BY <1>4, ModuleLaws DEF ModuleLaws
  <2>2. /\ Mul(y, c) \in Point /\ Mul(y, d) \in Point
        /\ Mul(y, gap) = PSub(Mul(y, c), Mul(y, d))
    BY ModuleLaws DEF ModuleLaws
  <2>3. PSub(PAdd(a, Mul(y, c)), PAdd(a, Mul(y, d))) =
          PSub(Mul(y, c), Mul(y, d))
    BY <2>2, ModuleLaws DEF ModuleLaws
  <2>4. Mul(x, SSub(s, t)) = Mul(y, gap)
    BY <2>1, <2>2, <2>3
  <2>5. Mul(x, SMul(inverse, SSub(s, t))) = Mul(Mul(x, SSub(s, t)), inverse)
    BY <1>3, ModuleLaws DEF ModuleLaws
  <2>6. Mul(Mul(y, gap), inverse) = y
    BY <1>2
  <2>7. QED
    BY <2>4, <2>5, <2>6
<1>5. QED
  BY <1>3, <1>4 DEF Reveals

\* Special soundness of one VoteProof: who can answer two challenges to the
\* same first messages has encrypted a 0 or a 1.
LEMMA SpecialSoundness ==
  ASSUME NEW ct, NEW proof,
         ct \in [commitment : Bytes(Point), handle : Bytes(Point)],
         proof \in VoteProofs,
         VoteProofDecodes(ct, proof),
         api_vote_equations(ct, proof),
         Extractable(ct, proof)
  PROVE  EncryptsBit(ct)
<1>1. /\ ct.commitment \in Point /\ ct.handle \in Point
      /\ proof.a0 \in Point /\ proof.b0 \in Point
      /\ proof.a1 \in Point /\ proof.b1 \in Point
      /\ proof.c0 \in Scalar /\ proof.s0 \in Scalar
      /\ proof.c1 \in Scalar /\ proof.s1 \in Scalar
  BY DEF VoteProofDecodes
<1>2. PICK c0 \in Scalar, s0 \in Scalar, c1 \in Scalar, s1 \in Scalar :
        /\ SAdd(c0, c1) # SAdd(proof.c0, proof.c1)
        /\ api_vote_equations(ct, [proof EXCEPT !.c0 = c0, !.s0 = s0,
                                                !.c1 = c1, !.s1 = s1])
  BY DEF Extractable
<1> DEFINE off == PSub(ct.commitment, G)
<1>3. /\ Mul(H, s0) = PAdd(proof.a0, Mul(ct.commitment, c0))
      /\ Mul(P, s0) = PAdd(proof.b0, Mul(ct.handle, c0))
      /\ Mul(H, s1) = PAdd(proof.a1, Mul(off, c1))
      /\ Mul(P, s1) = PAdd(proof.b1, Mul(ct.handle, c1))
  BY <1>2, DerivedBases DEF api_vote_equations, VoteProofs
<1>4. /\ Mul(H, proof.s0) = PAdd(proof.a0, Mul(ct.commitment, proof.c0))
      /\ Mul(P, proof.s0) = PAdd(proof.b0, Mul(ct.handle, proof.c0))
      /\ Mul(H, proof.s1) = PAdd(proof.a1, Mul(off, proof.c1))
      /\ Mul(P, proof.s1) = PAdd(proof.b1, Mul(ct.handle, proof.c1))
  BY DerivedBases DEF api_vote_equations
<1>5. off \in Point /\ G \in Point /\ H \in Point /\ P \in Point
  BY <1>1, ModuleLaws DEF ModuleLaws
<1> HIDE DEF off
<1>6. CASE c0 # proof.c0
  <2>1. PICK r \in Scalar : /\ ct.commitment = Mul(H, r)
                            /\ ct.handle = Mul(P, r)
    <3>1. PICK r \in Scalar : Reveals(s0, proof.s0, c0, proof.c0, r)
      BY <1>1, <1>2, <1>6, TwoAnswers
    <3>2. QED
      BY <3>1, <1>1, <1>3, <1>4, <1>5 DEF Reveals
  <2>2. Encrypt(SZero, r) = [commitment |-> Mul(H, r), handle |-> Mul(P, r)]
    BY EncryptionOpens DEF Encrypt
  <2>3. ct = [commitment |-> ct.commitment, handle |-> ct.handle]
    OBVIOUS
  <2>4. QED
    BY <2>1, <2>2, <2>3 DEF EncryptsBit, Bits
<1>7. CASE c1 # proof.c1
  <2>1. PICK r \in Scalar : off = Mul(H, r) /\ ct.handle = Mul(P, r)
    <3>1. PICK r \in Scalar : Reveals(s1, proof.s1, c1, proof.c1, r)
      BY <1>1, <1>2, <1>7, TwoAnswers
    <3>2. QED
      BY <3>1, <1>1, <1>3, <1>4, <1>5 DEF Reveals
  <2>2. ct.commitment = PAdd(G, Mul(H, r))
    BY <2>1, <1>1, <1>5, ModuleLaws DEF ModuleLaws, off
  <2>3. Encrypt(SOne, r) = [commitment |-> PAdd(G, Mul(H, r)),
                            handle |-> Mul(P, r)]
    BY <1>5, ModuleLaws DEF Encrypt, ModuleLaws
  <2>4. ct = [commitment |-> ct.commitment, handle |-> ct.handle]
    OBVIOUS
  <2>5. QED
    BY <2>1, <2>2, <2>3, <2>4 DEF EncryptsBit, Bits
<1>8. QED
  BY <1>2, <1>6, <1>7

\* The verifiers of the API and of the program on chain are one predicate.
LEMMA SameVerdict ==
  ASSUME NEW ciphertexts, NEW proofs, NEW sum_proof
  PROVE  api_verify_encrypted_vote_proofs(ciphertexts, proofs, sum_proof) <=>
         chain_verify_encrypted_vote_proofs(ciphertexts, proofs, sum_proof)
<1>1. api_derive_bases = chain_derive_bases
  BY DerivedBases
<1>2. ASSUME NEW ct, NEW proof
      PROVE  api_verify_vote_proof(ct, proof) <=>
             chain_verify_vote_proof(ct, proof)
  BY <1>1 DEF api_verify_vote_proof, chain_verify_vote_proof,
              api_vote_equations, api_challenge_vote_proof,
              chain_challenge_vote_proof
<1>3. api_verify_vote_sum_proof(ciphertexts, sum_proof) <=>
      chain_verify_vote_sum_proof(ciphertexts, sum_proof)
  BY <1>1 DEF api_verify_vote_sum_proof, chain_verify_vote_sum_proof,
              api_sum_equations, api_challenge_sum_proof,
              chain_challenge_sum_proof
<1>4. api_verify_vote_sum_proof(ciphertexts, sum_proof) => ciphertexts # <<>>
  BY DEF api_verify_vote_sum_proof
<1>5. QED
  BY <1>2, <1>3, <1>4 DEF api_verify_encrypted_vote_proofs,
                          chain_verify_encrypted_vote_proofs

-----------------------------------------------------------------------------
\* What the client has made so far, and where it is in its loops.
Made ==
  /\ vote \in Seq(Scalar) /\ openings \in Seq(Scalar)
  /\ encrypted_vote \in Seq(Ciphertexts) /\ vote_proofs \in Seq(VoteProofs)
  /\ Len(encrypted_vote) = Len(openings)
  /\ \A i \in 1..Len(openings) :
       encrypted_vote[i] = Encrypt(vote[i], openings[i])
  /\ client = "frontend" => \A i \in DOMAIN vote : vote[i] \in Bits

Progress ==
  /\ stage \in {"choose", "encrypt", "prove", "sum", "posted"}
  /\ stage = "choose" => openings = <<>>
  /\ stage # "choose" => vote # <<>>
  /\ stage \in {"choose", "encrypt"} => vote_proofs = <<>>
  /\ stage = "encrypt" => Len(openings) < Len(vote)
  /\ stage \in {"prove", "sum", "posted"} => Len(openings) = Len(vote)
  /\ stage = "prove" => Len(vote_proofs) < Len(vote)
  /\ stage \in {"sum", "posted"} /\ intact => Len(vote_proofs) = Len(vote)

\* A verdict is the verdict on what lies there: nothing changes after it.
VerdictsStand ==
  /\ stage # "posted" => api_verdict = "none" /\ chain_verdict = "none"
  /\ api_verdict # "none" =>
       api_verdict = Verdict(api_verify_encrypted_vote_proofs(
                               encrypted_vote, vote_proofs, vote_sum_proof))
  /\ chain_verdict # "none" =>
       chain_verdict = Verdict(chain_verify_encrypted_vote_proofs(
                                 encrypted_vote, vote_proofs, vote_sum_proof))

FlowInv == Made /\ Progress /\ ProvedPositionsVerify /\ VerdictsStand

\* A proof consists of points and scalars, whatever was encrypted.
LEMMA ProofTypes ==
  ASSUME NEW value \in Scalar, NEW r \in Scalar,
         NEW w \in Scalar, NEW c \in Scalar, NEW s \in Scalar
  PROVE  /\ ProveZero(Encrypt(value, r), r, w, c, s) \in VoteProofs
         /\ ProveOne(Encrypt(value, r), r, w, c, s) \in VoteProofs
<1> DEFINE ct == Encrypt(value, r)
           x == ct.commitment
           y == ct.handle
<1>1. x \in Point /\ y \in Point
  BY EncryptionOpens
<1> HIDE DEF ct
<1> HIDE DEF x, y
<1>2. /\ H \in Point /\ P \in Point /\ G \in Point
      /\ Mul(H, w) \in Point /\ Mul(P, w) \in Point
  BY ModuleLaws DEF ModuleLaws
<1>3. ASSUME NEW a \in Point, NEW b \in Point
      PROVE  PSub(Mul(a, s), Mul(b, c)) \in Point
  BY ModuleLaws DEF ModuleLaws
<1>4. PSub(x, G) \in Point
  BY <1>1, <1>2, ModuleLaws DEF ModuleLaws
<1>5. ASSUME NEW e \in Scalar
      PROVE  SSub(e, c) \in Scalar /\ SAdd(w, SMul(SSub(e, c), r)) \in Scalar
  BY ModuleLaws DEF ModuleLaws
<1>6. ASSUME NEW a \in Point, NEW b \in Point,
             NEW a2 \in Point, NEW b2 \in Point
      PROVE  VoteHash(x, y, a, b, a2, b2) \in Scalar
  BY <1>1, HashesYieldScalars DEF HashesYieldScalars
<1>7. ProveZero(ct, r, w, c, s) \in VoteProofs
  <2> DEFINE a1 == PSub(Mul(H, s), Mul(PSub(x, G), c))
             b1 == PSub(Mul(P, s), Mul(y, c))
             e == VoteHash(x, y, Mul(H, w), Mul(P, w), a1, b1)
  <2>1. a1 \in Point /\ b1 \in Point
    BY <1>1, <1>2, <1>3, <1>4
  <2>2. e \in Scalar
    BY <2>1, <1>2, <1>6
  <2>3. ProveZero(ct, r, w, c, s) =
          [a0 |-> Mul(H, w), b0 |-> Mul(P, w), c0 |-> SSub(e, c),
           s0 |-> SAdd(w, SMul(SSub(e, c), r)),
           a1 |-> a1, b1 |-> b1, c1 |-> c, s1 |-> s]
    BY DerivedBases DEF ProveZero, challenge_vote_proof, x, y
  <2> HIDE DEF a1, b1, e
  <2>4. QED
    BY <2>1, <2>2, <2>3, <1>2, <1>5 DEF VoteProofs, Bytes
<1>8. ProveOne(ct, r, w, c, s) \in VoteProofs
  <2> DEFINE a0 == PSub(Mul(H, s), Mul(x, c))
             b0 == PSub(Mul(P, s), Mul(y, c))
             e == VoteHash(x, y, a0, b0, Mul(H, w), Mul(P, w))
  <2>1. a0 \in Point /\ b0 \in Point
    BY <1>1, <1>2, <1>3
  <2>2. e \in Scalar
    BY <2>1, <1>2, <1>6
  <2>3. ProveOne(ct, r, w, c, s) =
          [a0 |-> a0, b0 |-> b0, c0 |-> c, s0 |-> s,
           a1 |-> Mul(H, w), b1 |-> Mul(P, w), c1 |-> SSub(e, c),
           s1 |-> SAdd(w, SMul(SSub(e, c), r))]
    BY DerivedBases DEF ProveOne, challenge_vote_proof, x, y
  <2> HIDE DEF a0, b0, e
  <2>4. QED
    BY <2>1, <2>2, <2>3, <1>2, <1>5 DEF VoteProofs, Bytes
<1>9. QED
  BY <1>7, <1>8 DEF ct

\* Before the proofs are disturbed, appending one for position k keeps the
\* positions proved; the step of the proving loop.
LEMMA ProveNextKeeps ==
  ASSUME FlowInv, ProveNext
  PROVE  FlowInv'
<1> DEFINE k == Len(vote_proofs) + 1
<1>1. PICK w \in Nonces, c \in Nonces, s \in Nonces :
        vote_proofs' = Append(vote_proofs,
          IF client = "frontend"
          THEN generate_vote_proof(encrypted_vote[k], vote[k], openings[k],
                                   w, c, s)
          ELSE script_generate_vote_proof(encrypted_vote[k], vote[k],
                                          openings[k], w, c, s))
  BY DEF ProveNext
<1> DEFINE new == IF client = "frontend"
          THEN generate_vote_proof(encrypted_vote[k], vote[k], openings[k],
                                   w, c, s)
          ELSE script_generate_vote_proof(encrypted_vote[k], vote[k],
                                          openings[k], w, c, s)
<1>2. w \in Scalar /\ c \in Scalar /\ s \in Scalar
  BY FlowAssumption DEF FlowAssumption
<1>3. /\ k \in 1..Len(vote) /\ Len(openings) = Len(vote)
      /\ vote[k] \in Scalar /\ openings[k] \in Scalar
      /\ encrypted_vote[k] = Encrypt(vote[k], openings[k])
      /\ client = "frontend" => vote[k] \in Bits
      /\ vote_proofs \in Seq(VoteProofs)
  BY DEF FlowInv, Made, Progress, ProveNext
<1>4. \/ /\ new = ProveOne(encrypted_vote[k], openings[k], w, c, s)
         /\ vote[k] # SZero
      \/ /\ new = ProveZero(encrypted_vote[k], openings[k], w, c, s)
         /\ vote[k] = SZero
  <2>1. vote[k] \in Bits => vote[k] = SZero \/ vote[k] = SOne
    BY DEF Bits
  <2>2. CASE client = "frontend"
    <3>1. new = generate_vote_proof(encrypted_vote[k], vote[k], openings[k],
                                    w, c, s)
      BY <2>2
    <3>2. SZero # SOne /\ (vote[k] = SZero \/ vote[k] = SOne)
      BY <2>1, <2>2, <1>3, ModuleLaws DEF ModuleLaws
    <3> HIDE DEF new, k
    <3>3. QED
      BY <3>1, <3>2 DEF generate_vote_proof
  <2>3. CASE client # "frontend"
    BY <2>3 DEF script_generate_vote_proof
  <2>4. QED
    BY <2>2, <2>3
<1>5. new \in VoteProofs
  BY <1>2, <1>3, <1>4, ProofTypes
<1>6. vote[k] \in Bits => api_verify_vote_proof(encrypted_vote[k], new)
  BY <1>2, <1>3, <1>4, ZeroProofVerifies, OneProofVerifies DEF Bits
<1>7. vote_proofs' = Append(vote_proofs, new)
  BY <1>1
<1> HIDE DEF new
<1>8. /\ vote_proofs' \in Seq(VoteProofs) /\ Len(vote_proofs') = k
      /\ vote_proofs'[k] = new
      /\ \A i \in 1..Len(vote_proofs) : vote_proofs'[i] = vote_proofs[i]
  BY <1>3, <1>5, <1>7
<1>9. /\ UNCHANGED <<client, vote, encrypted_vote, openings, vote_sum_proof,
                     intact, api_verdict, chain_verdict>>
      /\ stage = "prove"
      /\ stage' = IF k = Len(vote) THEN "sum" ELSE stage
  BY DEF ProveNext
<1>10. Made'
  BY <1>8, <1>9 DEF FlowInv, Made
<1>11. Progress'
  BY <1>3, <1>8, <1>9 DEF FlowInv, Progress, Made
<1>12. ProvedPositionsVerify'
  <2> SUFFICES ASSUME intact', NEW i \in DOMAIN vote_proofs', vote[i] \in Bits
               PROVE  api_verify_vote_proof(encrypted_vote[i], vote_proofs'[i])
    BY <1>9 DEF ProvedPositionsVerify
  <2>1. i \in 1..k
    BY <1>8
  <2>2. CASE i = k
    BY <2>2, <1>6, <1>8
  <2>3. CASE i # k
    BY <2>1, <2>3, <1>3, <1>8, <1>9 DEF FlowInv, ProvedPositionsVerify
  <2>4. QED
    BY <2>2, <2>3
<1>13. VerdictsStand'
  BY <1>9 DEF FlowInv, VerdictsStand
<1>14. QED
  BY <1>10, <1>11, <1>12, <1>13 DEF FlowInv

\* The client's choice of a vector starts the loops.
LEMMA StartKeeps ==
  ASSUME FlowInv, NEW who, NEW vector \in Seq(Scalar) \ {<<>>},
         who = "frontend" => \A i \in DOMAIN vector : vector[i] \in Bits,
         StartsWith(who, vector)
  PROVE  FlowInv'
<1>1. /\ stage = "choose" /\ stage' = "encrypt"
      /\ client' = who /\ vote' = vector
      /\ UNCHANGED <<encrypted_vote, openings, vote_proofs, vote_sum_proof,
                     intact, api_verdict, chain_verdict>>
  BY DEF StartsWith
<1>2. openings = <<>> /\ vote_proofs = <<>> /\ Len(vector) > 0
  BY <1>1 DEF FlowInv, Progress
<1>3. Made'
  BY <1>1, <1>2 DEF FlowInv, Made
<1>4. Progress'
  BY <1>1, <1>2 DEF Progress
<1>5. ProvedPositionsVerify'
  BY <1>1, <1>2 DEF ProvedPositionsVerify
<1>6. VerdictsStand'
  BY <1>1 DEF FlowInv, VerdictsStand
<1>7. QED
  BY <1>3, <1>4, <1>5, <1>6 DEF FlowInv

\* One turn of the encryption loop.
LEMMA EncryptNextKeeps ==
  ASSUME FlowInv, EncryptNext
  PROVE  FlowInv'
<1> DEFINE k == Len(encrypted_vote) + 1
<1>1. PICK r \in Nonces :
        /\ encrypted_vote' = Append(encrypted_vote, Encrypt(vote[k], r))
        /\ openings' = Append(openings, r)
  BY DEF EncryptNext
<1>2. /\ stage = "encrypt"
      /\ stage' = IF k = Len(vote) THEN "prove" ELSE stage
      /\ UNCHANGED <<client, vote, vote_proofs, vote_sum_proof, intact,
                     api_verdict, chain_verdict>>
  BY DEF EncryptNext
<1>3. /\ Len(openings) < Len(vote) /\ Len(encrypted_vote) = Len(openings)
      /\ vote_proofs = <<>> /\ vote \in Seq(Scalar)
      /\ openings \in Seq(Scalar) /\ encrypted_vote \in Seq(Ciphertexts)
  BY <1>2 DEF FlowInv, Progress, Made
<1>4. r \in Scalar /\ vote[k] \in Scalar
  BY <1>3, FlowAssumption DEF FlowAssumption
<1>5. Encrypt(vote[k], r) \in Ciphertexts
  BY <1>4, EncryptionOpens DEF Ciphertexts, Bytes
<1>6. Made'
  BY <1>1, <1>2, <1>3, <1>4, <1>5 DEF FlowInv, Made
<1>7. Progress'
  BY <1>1, <1>2, <1>3, <1>4, <1>5 DEF FlowInv, Progress
<1>8. ProvedPositionsVerify'
  BY <1>2, <1>3 DEF ProvedPositionsVerify
<1>9. VerdictsStand'
  BY <1>2 DEF FlowInv, VerdictsStand
<1>10. QED
  BY <1>6, <1>7, <1>8, <1>9 DEF FlowInv

\* The sum proof touches nothing the other parts speak of.
LEMMA ProveSumKeeps ==
  ASSUME FlowInv, ProveSum
  PROVE  FlowInv'
<1>1. /\ stage = "sum" /\ stage' = "posted"
      /\ UNCHANGED <<client, vote, encrypted_vote, openings, vote_proofs,
                     intact, api_verdict, chain_verdict>>
  BY DEF ProveSum
<1>2. Made' /\ Progress' /\ ProvedPositionsVerify'
  BY <1>1 DEF FlowInv, Made, Progress, ProvedPositionsVerify
<1>3. VerdictsStand'
  BY <1>1 DEF FlowInv, VerdictsStand
<1>4. QED
  BY <1>2, <1>3 DEF FlowInv

\* Disturbed proofs carry no promise, and nobody has judged them yet.
LEMMA DisturbsKeeps ==
  ASSUME FlowInv, NEW proofs \in Seq(VoteProofs), NEW sum_proof,
         Disturbs(proofs, sum_proof)
  PROVE  FlowInv'
<1>1. /\ stage = "posted" /\ api_verdict = "none" /\ chain_verdict = "none"
      /\ vote_proofs' = proofs /\ ~intact'
      /\ UNCHANGED <<client, stage, vote, encrypted_vote, openings,
                     api_verdict, chain_verdict>>
  BY DEF Disturbs, Unverified
<1>2. Made' /\ Progress' /\ ProvedPositionsVerify'
  BY <1>1 DEF FlowInv, Made, Progress, ProvedPositionsVerify
<1>3. VerdictsStand'
  BY <1>1 DEF FlowInv, VerdictsStand
<1>4. QED
  BY <1>2, <1>3 DEF FlowInv

\* A verdict is given on what lies there.
LEMMA VerifyKeeps ==
  ASSUME FlowInv, ApiVerifies \/ ChainVerifies
  PROVE  FlowInv'
<1>1. /\ stage = "posted"
      /\ UNCHANGED <<client, stage, vote, encrypted_vote, openings,
                     vote_proofs, vote_sum_proof, intact>>
  BY DEF ApiVerifies, ChainVerifies
<1>2. Made' /\ Progress' /\ ProvedPositionsVerify'
  BY <1>1 DEF FlowInv, Made, Progress, ProvedPositionsVerify
<1>3. VerdictsStand'
  BY <1>1 DEF FlowInv, VerdictsStand, ApiVerifies, ChainVerifies
<1>4. QED
  BY <1>2, <1>3 DEF FlowInv

LEMMA FlowInvInit == Init => FlowInv
<1> SUFFICES ASSUME Init PROVE FlowInv
  OBVIOUS
<1>1. Made /\ Progress /\ ProvedPositionsVerify /\ VerdictsStand
  BY DEF Init, Made, Progress, ProvedPositionsVerify, VerdictsStand
<1>2. QED
  BY <1>1 DEF FlowInv

LEMMA FlowInvNext == FlowInv /\ [Next]_vars => FlowInv'
<1> SUFFICES ASSUME FlowInv, [Next]_vars PROVE FlowInv'
  OBVIOUS
<1>1. ASSUME NEW i \in 0..(proposal_count - 1),
             FrontendChooses(i) \/ ScriptChooses(i)
      PROVE  FlowInv'
  <2> DEFINE vector == create_vote_vector(i, proposal_count)
  <2>1. /\ vector \in Seq(Scalar) \ {<<>>}
        /\ \A j \in DOMAIN vector : vector[j] \in Bits
    <3>1. \A j \in 1..proposal_count :
            (IF j = i + 1 THEN SOne ELSE SZero) \in Bits \cap Scalar
      BY ModuleLaws DEF ModuleLaws, Bits
    <3>2. QED
      BY <3>1, FlowAssumption DEF create_vote_vector, FlowAssumption
  <2>2. QED
    BY <1>1, <2>1, StartKeeps DEF FrontendChooses, ScriptChooses
<1>2. ASSUME NEW vector \in OtherVotes, OtherChooses(vector)
      PROVE  FlowInv'
  BY <1>2, FlowAssumption, StartKeeps DEF OtherChooses, FlowAssumption
<1>3. CASE EncryptNext
  BY <1>3, EncryptNextKeeps
<1>4. CASE ProveNext
  BY <1>4, ProveNextKeeps
<1>5. CASE ProveSum
  BY <1>5, ProveSumKeeps
<1>6. vote_proofs \in Seq(VoteProofs)
  BY DEF FlowInv, Made
<1>7. CASE LosesLastProof
  <2>1. SubSeq(vote_proofs, 1, Len(vote_proofs) - 1) \in Seq(VoteProofs)
    BY <1>6
  <2>2. QED
    BY <2>1, <1>7, DisturbsKeeps DEF LosesLastProof
<1>8. CASE SwapsProofs
  <2>1. Reverse(vote_proofs) \in Seq(VoteProofs)
    BY <1>6 DEF Reverse
  <2>2. QED
    BY <2>1, <1>8, DisturbsKeeps DEF SwapsProofs
<1>9. ASSUME NEW field \in {"a0", "s1"}, SpoilsProof(field)
      PROVE  FlowInv'
  <2>1. Len(vote_proofs) > 0
    BY <1>9 DEF SpoilsProof, Disturbs, Unverified, FlowInv, Progress, Made
  <2>2. [vote_proofs[1] EXCEPT ![field] = Undecodable] \in VoteProofs
    <3>1. vote_proofs[1] \in VoteProofs
      BY <1>6, <2>1
    <3>2. QED
      BY <3>1, <1>9 DEF VoteProofs, Bytes
  <2>3. [vote_proofs EXCEPT ![1] = [@ EXCEPT ![field] = Undecodable]]
          \in Seq(VoteProofs)
    BY <1>6, <2>1, <2>2
  <2>4. QED
    BY <2>3, <1>9, DisturbsKeeps DEF SpoilsProof
<1>10. ASSUME NEW field \in {"b", "c"}, SpoilsSumProof(field)
       PROVE  FlowInv'
  BY <1>6, <1>10, DisturbsKeeps DEF SpoilsSumProof
<1>11. CASE ApiVerifies \/ ChainVerifies
  BY <1>11, VerifyKeeps
<1>12. CASE UNCHANGED vars
  BY <1>12 DEF vars, FlowInv, Made, Progress, ProvedPositionsVerify,
               VerdictsStand
<1>13. QED
  BY <1>1, <1>2, <1>3, <1>4, <1>5, <1>7, <1>8, <1>9, <1>10, <1>11, <1>12
     DEF Next

-----------------------------------------------------------------------------
\* Completeness: for every group, key, hash and randomness a proof made for
\* an encrypted 0 or 1 passes the verifier.
THEOREM Completeness == Spec => []ProvedPositionsVerify
<1>1. FlowInv => ProvedPositionsVerify
  BY DEF FlowInv
<1>2. QED
  BY <1>1, FlowInvInit, FlowInvNext, PTL DEF Spec

\* Agreement: the API and the program on chain never judge one vote
\* differently.
THEOREM Agreement == Spec => []VerifiersAgree
<1>1. FlowInv => VerifiersAgree
  BY SameVerdict DEF FlowInv, VerdictsStand, VerifiersAgree, Verdict
<1>2. QED
  BY <1>1, FlowInvInit, FlowInvNext, PTL DEF Spec

\* Soundness: every position of an accepted vote encrypts a 0 or a 1, unless
\* its prover guessed the challenge.
THEOREM Soundness == Spec => []AcceptedPositionsAreBits
<1>1. FlowInv => AcceptedPositionsAreBits
  <2> SUFFICES ASSUME FlowInv, api_verdict = "ok",
                      NEW i \in DOMAIN encrypted_vote,
                      Extractable(encrypted_vote[i], vote_proofs[i])
               PROVE  EncryptsBit(encrypted_vote[i])
    BY DEF AcceptedPositionsAreBits
  <2>1. api_verify_encrypted_vote_proofs(encrypted_vote, vote_proofs,
                                         vote_sum_proof)
    BY DEF FlowInv, VerdictsStand, Verdict
  <2>2. /\ api_verify_vote_proof(encrypted_vote[i], vote_proofs[i])
        /\ Len(encrypted_vote) = Len(vote_proofs)
    BY <2>1 DEF api_verify_encrypted_vote_proofs
  <2>3. encrypted_vote[i] \in Ciphertexts /\ vote_proofs[i] \in VoteProofs
    BY <2>2 DEF FlowInv, Made
  <2>4. QED
    BY <2>2, <2>3, SpecialSoundness DEF api_verify_vote_proof, Ciphertexts
<1>2. QED
  BY <1>1, FlowInvInit, FlowInvNext, PTL DEF Spec

-----------------------------------------------------------------------------
(* The sum proof: what the loops over the ciphertexts and openings add up to. *)

\* f[k] is the sum of base and the first k points.
AddsPoints(f, base, s) ==
  /\ f \in [0..Len(s) -> Point]
  /\ f[0] = base
  /\ \A k \in 1..Len(s) : f[k] = PAdd(f[k - 1], s[k])

(* The fold of Aggregate ends where adding the points one by one ends.     *)
LEMMA PointFold ==
  ASSUME NEW base \in Point, NEW s \in Seq(Point)
  PROVE  \E f : AddsPoints(f, base, s) /\ FoldLeft(PAdd, base, s) = f[Len(s)]
<1> DEFINE D == DOMAIN s
           Unfolds(h) == h = [T \in SUBSET D |->
             IF T = {} THEN base ELSE PAdd(h[T \ {Max(T)}], s[Max(T)])]
           iter == CHOOSE h : Unfolds(h)
           X == Point \cup {iter[T] : T \in SUBSET D}
           sum == [x \in X |-> [y \in X |-> PAdd(x, y)]]
<1>1. FoldLeft(PAdd, base, s) = iter[D]
  BY DEF FoldLeft, MapThenFoldSet
<1>2. D = 1..Len(s) /\ Len(s) \in Nat /\ \A i \in D : s[i] \in Point
  OBVIOUS
<1>3. \A x, y \in Point : PAdd(x, y) \in Point
  BY ModuleLaws DEF ModuleLaws
<1>4. \E h : Unfolds(h)
  <2> DEFINE add == [x \in Point |-> [y \in Point |-> PAdd(x, y)]]
  <2>1. add \in [Point -> [Point -> Point]]
    BY <1>3
  <2>2. \A x, y \in Point : add[x][y] = PAdd(x, y)
    OBVIOUS
  <2> HIDE DEF add
  <2>3. PICK g : FoldsLeft(g, Point, base, s, add)
    BY <2>1, LeftRecursion
  <2>4. g = [T \in SUBSET D |-> g[T]] /\ \A T \in SUBSET D : g[T] \in Point
    BY <2>3 DEF FoldsLeft
  <2>5. ASSUME NEW T \in SUBSET D
        PROVE  g[T] = IF T = {} THEN base
                      ELSE PAdd(g[T \ {Max(T)}], s[Max(T)])
    <3>1. T # {} => /\ s[Max(T)] \in Point /\ T \ {Max(T)} \in SUBSET D
                    /\ g[T \ {Max(T)}] \in Point
      BY <1>2, <2>4, LargestPosition
    <3>2. QED
      BY <2>2, <2>3, <3>1 DEF FoldsLeft
  <2>6. Unfolds(g)
    BY <2>4, <2>5
  <2>7. QED
    BY <2>6
<1>5. \A T \in SUBSET D :
        iter[T] = IF T = {} THEN base ELSE PAdd(iter[T \ {Max(T)}], s[Max(T)])
  <2>1. Unfolds(iter)
    <3> HIDE DEF Unfolds
    <3>1. QED
      BY <1>4
  <2> HIDE DEF iter
  <2>2. QED
    BY <2>1
<1> HIDE DEF iter
<1>6. \A x, y \in X : sum[x][y] = PAdd(x, y)
  OBVIOUS
<1>7. Point \subseteq X /\ \A T \in SUBSET D : iter[T] \in X
  OBVIOUS
<1> HIDE DEF X, sum
<1>8. \A x, y \in Point : sum[x][y] = PAdd(x, y) /\ sum[x][y] \in Point
  BY <1>3, <1>6, <1>7
<1>9. ASSUME NEW T \in SUBSET D
      PROVE  iter[T] = IF T = {} THEN base
                       ELSE sum[iter[T \ {Max(T)}]][s[Max(T)]]
  <2>1. T # {} => s[Max(T)] \in X /\ iter[T \ {Max(T)}] \in X
    BY <1>2, <1>7, LargestPosition
  <2>2. QED
    BY <1>5, <1>6, <2>1
<1>10. PICK f : /\ Reaches(f, Point, base, s, sum)
                /\ f[Len(s)] = iter[D]
  <2>1. FoldEquations(iter, base, s, sum)
    BY <1>9 DEF FoldEquations
  <2>2. QED
    BY <1>8, <2>1, LeftSteps
<1>11. AddsPoints(f, base, s)
  <2>1. ASSUME NEW k \in 1..Len(s) PROVE f[k] = PAdd(f[k - 1], s[k])
    <3>1. k - 1 \in 0..Len(s) /\ s[k] \in Point
      BY <1>2
    <3>2. f[k - 1] \in Point /\ f[k] = sum[f[k - 1]][s[k]]
      BY <1>10, <3>1 DEF Reaches
    <3>3. QED
      BY <1>8, <3>1, <3>2
  <2>2. QED
    BY <1>10, <2>1 DEF Reaches, AddsPoints
<1>12. QED
  BY <1>1, <1>10, <1>11

\* f[k] is the sum of base and the first k scalars.
AddsScalars(f, base, s) ==
  /\ f \in [0..Len(s) -> Scalar]
  /\ f[0] = base
  /\ \A k \in 1..Len(s) : f[k] = SAdd(f[k - 1], s[k])

(* The same for the fold over the openings.                                *)
LEMMA ScalarFold ==
  ASSUME NEW base \in Scalar, NEW s \in Seq(Scalar)
  PROVE  \E f : AddsScalars(f, base, s) /\ FoldLeft(SAdd, base, s) = f[Len(s)]
<1> DEFINE D == DOMAIN s
           Unfolds(h) == h = [T \in SUBSET D |->
             IF T = {} THEN base ELSE SAdd(h[T \ {Max(T)}], s[Max(T)])]
           iter == CHOOSE h : Unfolds(h)
           X == Scalar \cup {iter[T] : T \in SUBSET D}
           sum == [x \in X |-> [y \in X |-> SAdd(x, y)]]
<1>1. FoldLeft(SAdd, base, s) = iter[D]
  BY DEF FoldLeft, MapThenFoldSet
<1>2. D = 1..Len(s) /\ Len(s) \in Nat /\ \A i \in D : s[i] \in Scalar
  OBVIOUS
<1>3. \A x, y \in Scalar : SAdd(x, y) \in Scalar
  BY ModuleLaws DEF ModuleLaws
<1>4. \E h : Unfolds(h)
  <2> DEFINE add == [x \in Scalar |-> [y \in Scalar |-> SAdd(x, y)]]
  <2>1. add \in [Scalar -> [Scalar -> Scalar]]
    BY <1>3
  <2>2. \A x, y \in Scalar : add[x][y] = SAdd(x, y)
    OBVIOUS
  <2> HIDE DEF add
  <2>3. PICK g : FoldsLeft(g, Scalar, base, s, add)
    BY <2>1, LeftRecursion
  <2>4. g = [T \in SUBSET D |-> g[T]] /\ \A T \in SUBSET D : g[T] \in Scalar
    BY <2>3 DEF FoldsLeft
  <2>5. ASSUME NEW T \in SUBSET D
        PROVE  g[T] = IF T = {} THEN base
                      ELSE SAdd(g[T \ {Max(T)}], s[Max(T)])
    <3>1. T # {} => /\ s[Max(T)] \in Scalar /\ T \ {Max(T)} \in SUBSET D
                    /\ g[T \ {Max(T)}] \in Scalar
      BY <1>2, <2>4, LargestPosition
    <3>2. QED
      BY <2>2, <2>3, <3>1 DEF FoldsLeft
  <2>6. Unfolds(g)
    BY <2>4, <2>5
  <2>7. QED
    BY <2>6
<1>5. \A T \in SUBSET D :
        iter[T] = IF T = {} THEN base ELSE SAdd(iter[T \ {Max(T)}], s[Max(T)])
  <2>1. Unfolds(iter)
    <3> HIDE DEF Unfolds
    <3>1. QED
      BY <1>4
  <2> HIDE DEF iter
  <2>2. QED
    BY <2>1
<1> HIDE DEF iter
<1>6. \A x, y \in X : sum[x][y] = SAdd(x, y)
  OBVIOUS
<1>7. Scalar \subseteq X /\ \A T \in SUBSET D : iter[T] \in X
  OBVIOUS
<1> HIDE DEF X, sum
<1>8. \A x, y \in Scalar : sum[x][y] = SAdd(x, y) /\ sum[x][y] \in Scalar
  BY <1>3, <1>6, <1>7
<1>9. ASSUME NEW T \in SUBSET D
      PROVE  iter[T] = IF T = {} THEN base
                       ELSE sum[iter[T \ {Max(T)}]][s[Max(T)]]
  <2>1. T # {} => s[Max(T)] \in X /\ iter[T \ {Max(T)}] \in X
    BY <1>2, <1>7, LargestPosition
  <2>2. QED
    BY <1>5, <1>6, <2>1
<1>10. PICK f : /\ Reaches(f, Scalar, base, s, sum)
                /\ f[Len(s)] = iter[D]
  <2>1. FoldEquations(iter, base, s, sum)
    BY <1>9 DEF FoldEquations
  <2>2. QED
    BY <1>8, <2>1, LeftSteps
<1>11. AddsScalars(f, base, s)
  <2>1. ASSUME NEW k \in 1..Len(s) PROVE f[k] = SAdd(f[k - 1], s[k])
    <3>1. k - 1 \in 0..Len(s) /\ s[k] \in Scalar
      BY <1>2
    <3>2. f[k - 1] \in Scalar /\ f[k] = sum[f[k - 1]][s[k]]
      BY <1>10, <3>1 DEF Reaches
    <3>3. QED
      BY <1>8, <3>1, <3>2
  <2>2. QED
    BY <1>10, <2>1 DEF Reaches, AddsScalars
<1>12. QED
  BY <1>1, <1>10, <1>11

-----------------------------------------------------------------------------
(* Sums of two pairs of points may be taken in either order.               *)
LEMMA Interchange ==
  ASSUME NEW a \in Point, NEW b \in Point, NEW c \in Point, NEW d \in Point
  PROVE  PAdd(PAdd(a, b), PAdd(c, d)) = PAdd(PAdd(a, c), PAdd(b, d))
<1>1. \A x, y \in Point : PAdd(x, y) \in Point
  BY ModuleLaws DEF ModuleLaws
<1>2. PAdd(PAdd(a, b), PAdd(c, d)) = PAdd(a, PAdd(b, PAdd(c, d)))
  BY <1>1, PointsCommute DEF PointsCommute
<1>3. PAdd(b, PAdd(c, d)) = PAdd(c, PAdd(b, d))
  <2>1. PAdd(b, PAdd(c, d)) = PAdd(PAdd(b, c), d)
    BY PointsCommute DEF PointsCommute
  <2>2. PAdd(b, c) = PAdd(c, b)
    BY PointsCommute DEF PointsCommute
  <2>3. PAdd(PAdd(c, b), d) = PAdd(c, PAdd(b, d))
    BY PointsCommute DEF PointsCommute
  <2>4. QED
    BY <2>1, <2>2, <2>3
<1>4. PAdd(a, PAdd(c, PAdd(b, d))) = PAdd(PAdd(a, c), PAdd(b, d))
  BY <1>1, PointsCommute DEF PointsCommute
<1>5. QED
  BY <1>2, <1>3, <1>4

\* t[k] times G is the sum of the first k plaintexts of v times G.
Tallies(t, v) ==
  /\ t \in [0..Len(v) -> Scalar]
  /\ t[0] = SZero
  /\ \A k \in 1..Len(v) : Mul(G, t[k]) = PAdd(Mul(G, t[k - 1]), Mul(G, v[k]))

\* Position by position cts encrypts v with the openings r.
EncryptedWith(cts, v, r) ==
  /\ v \in Seq(Scalar) \ {<<>>} /\ r \in Seq(Scalar)
  /\ cts \in Seq(Ciphertexts)
  /\ Len(cts) = Len(v) /\ Len(r) = Len(v)
  /\ \A i \in 1..Len(v) : cts[i] = Encrypt(v[i], r[i])

\* The sum of encryptions encrypts the sum, with the sum of the openings.
LEMMA AggregateOpens ==
  ASSUME NEW cts, NEW v, NEW r, EncryptedWith(cts, v, r),
         NEW t, Tallies(t, v)
  PROVE  LET opening == FoldLeft(SAdd, SZero, r) IN
         /\ opening \in Scalar
         /\ Aggregate(commitments(cts)) =
              PAdd(Mul(G, t[Len(v)]), Mul(H, opening))
         /\ Aggregate(handles(cts)) = Mul(P, opening)
<1> DEFINE n == Len(v)
           c == commitments(cts)
           h == handles(cts)
<1>1. /\ n \in Nat \ {0} /\ n - 1 \in Nat /\ Len(r) = n
      /\ \A i \in 1..n : v[i] \in Scalar /\ r[i] \in Scalar
      /\ r \in Seq(Scalar)
  BY DEF EncryptedWith
<1>2. ASSUME NEW i \in 1..n
      PROVE  /\ Encrypt(v[i], r[i]).commitment =
                  PAdd(Mul(G, v[i]), Mul(H, r[i]))
             /\ Encrypt(v[i], r[i]).handle = Mul(P, r[i])
             /\ PAdd(Mul(G, v[i]), Mul(H, r[i])) \in Point
             /\ Mul(P, r[i]) \in Point
  BY <1>1, ModuleLaws DEF Encrypt, ModuleLaws
<1>3. /\ c \in Seq(Point) /\ Len(c) = n
      /\ h \in Seq(Point) /\ Len(h) = n
      /\ \A i \in 1..n : /\ c[i] = PAdd(Mul(G, v[i]), Mul(H, r[i]))
                         /\ h[i] = Mul(P, r[i])
  <2>1. DOMAIN cts = 1..n /\ \A i \in 1..n : cts[i] = Encrypt(v[i], r[i])
    BY DEF EncryptedWith
  <2>2. /\ c = [i \in 1..n |-> Encrypt(v[i], r[i]).commitment]
        /\ h = [i \in 1..n |-> Encrypt(v[i], r[i]).handle]
    BY <2>1 DEF commitments, handles
  <2> HIDE DEF c, h, n
  <2>3. \A i \in 1..n : c[i] \in Point /\ h[i] \in Point
    BY <1>2, <2>2
  <2>4. QED
    BY <1>1, <1>2, <2>2, <2>3
<1> HIDE DEF c, h
<1>4. /\ Head(c) \in Point /\ Tail(c) \in Seq(Point) /\ Len(Tail(c)) = n - 1
      /\ Head(c) = c[1] /\ \A i \in 1..(n - 1) : Tail(c)[i] = c[i + 1]
  BY <1>1, <1>3
<1>5. /\ Head(h) \in Point /\ Tail(h) \in Seq(Point) /\ Len(Tail(h)) = n - 1
      /\ Head(h) = h[1] /\ \A i \in 1..(n - 1) : Tail(h)[i] = h[i + 1]
  BY <1>1, <1>3
<1>6. PICK fc : /\ AddsPoints(fc, Head(c), Tail(c))
                /\ Aggregate(c) = fc[n - 1]
  BY <1>4, PointFold DEF Aggregate
<1>7. PICK fh : /\ AddsPoints(fh, Head(h), Tail(h))
                /\ Aggregate(h) = fh[n - 1]
  BY <1>5, PointFold DEF Aggregate
<1>8. SZero \in Scalar /\ G \in Point /\ H \in Point /\ P \in Point
  BY ModuleLaws DEF ModuleLaws
<1>9. PICK fr : AddsScalars(fr, SZero, r) /\ FoldLeft(SAdd, SZero, r) = fr[n]
  BY <1>1, <1>8, ScalarFold
<1>10. \A k \in 0..n : fr[k] \in Scalar /\ t[k] \in Scalar
  BY <1>1, <1>9 DEF AddsScalars, Tallies
<1>11. \A k \in 1..n : /\ fr[k] = SAdd(fr[k - 1], r[k])
                       /\ Mul(G, t[k]) = PAdd(Mul(G, t[k - 1]), Mul(G, v[k]))
  BY <1>1, <1>9 DEF AddsScalars, Tallies
<1>12. \A k \in 1..n : \A x \in Point :
         Mul(x, fr[k]) = PAdd(Mul(x, fr[k - 1]), Mul(x, r[k]))
  <2> TAKE k \in 1..n
  <2> TAKE x \in Point
  <2>1. k - 1 \in 0..n
    BY <1>1
  <2>2. fr[k - 1] \in Scalar /\ r[k] \in Scalar /\ fr[k] = SAdd(fr[k - 1], r[k])
    BY <1>1, <1>10, <1>11, <2>1
  <2>3. \A a, b \in Scalar : Mul(x, SAdd(a, b)) = PAdd(Mul(x, a), Mul(x, b))
    BY ModuleLaws DEF ModuleLaws
  <2>4. QED
    BY <2>2, <2>3
<1> DEFINE Q == {k \in Nat : k < n =>
                   /\ fc[k] = PAdd(Mul(G, t[k + 1]), Mul(H, fr[k + 1]))
                   /\ fh[k] = Mul(P, fr[k + 1])}
<1>13. 0 \in Q
  <2>1. 1 \in 1..n /\ 0 \in 0..n /\ 1 - 1 = 0 /\ 0 + 1 = 1
    BY <1>1
  <2>2. fc[0] = c[1] /\ fh[0] = h[1]
    BY <1>4, <1>5, <1>6, <1>7 DEF AddsPoints
  <2>3. t[0] = SZero /\ fr[0] = SZero
    BY <1>9 DEF AddsScalars, Tallies
  <2>4. \A x, y \in Point : PAdd(Mul(x, SZero), y) = y
    BY ModuleLaws DEF ModuleLaws
  <2>5. \A x \in Point, a \in Scalar : Mul(x, a) \in Point
    BY ModuleLaws DEF ModuleLaws
  <2>6. /\ Mul(G, t[1]) = PAdd(Mul(G, SZero), Mul(G, v[1]))
        /\ Mul(H, fr[1]) = PAdd(Mul(H, SZero), Mul(H, r[1]))
        /\ Mul(P, fr[1]) = PAdd(Mul(P, SZero), Mul(P, r[1]))
    BY <1>8, <1>11, <1>12, <2>1, <2>3
  <2>7. /\ Mul(G, t[1]) = Mul(G, v[1])
        /\ Mul(H, fr[1]) = Mul(H, r[1])
        /\ Mul(P, fr[1]) = Mul(P, r[1])
    BY <1>1, <1>8, <2>1, <2>4, <2>5, <2>6
  <2>8. /\ fc[0] = PAdd(Mul(G, t[1]), Mul(H, fr[1]))
        /\ fh[0] = Mul(P, fr[1])
    BY <1>3, <2>1, <2>2, <2>7
  <2>9. QED
    BY <2>1, <2>8
<1>14. ASSUME NEW k \in Nat, k \in Q PROVE k + 1 \in Q
  <2> SUFFICES ASSUME k + 1 < n
               PROVE  /\ fc[k + 1] = PAdd(Mul(G, t[(k + 1) + 1]),
                                          Mul(H, fr[(k + 1) + 1]))
                      /\ fh[k + 1] = Mul(P, fr[(k + 1) + 1])
    OBVIOUS
  <2>1. PICK i, j : i = k + 1 /\ j = i + 1
    OBVIOUS
  <2>2. /\ i \in 1..(n - 1) /\ i \in 0..n /\ i - 1 = k
        /\ j \in 1..n /\ j \in 0..n /\ j - 1 = i
    <3> HIDE DEF n
    <3>1. i \in 1..(n - 1) /\ i \in 0..n /\ i - 1 = k
      BY <1>1, <2>1
    <3>2. j \in 1..n /\ j \in 0..n /\ j - 1 = i
      BY <1>1, <2>1
    <3>3. QED
      BY <3>1, <3>2
  <2>3. fc[k] = PAdd(Mul(G, t[i]), Mul(H, fr[i])) /\ fh[k] = Mul(P, fr[i])
    BY <1>1, <1>14, <2>1, <2>2
  <2>4. fc[i] = PAdd(fc[k], c[j]) /\ fh[i] = PAdd(fh[k], h[j])
    BY <1>4, <1>5, <1>6, <1>7, <2>1, <2>2 DEF AddsPoints
  <2>5. /\ c[j] = PAdd(Mul(G, v[j]), Mul(H, r[j]))
        /\ h[j] = Mul(P, r[j])
    BY <1>3, <2>2
  <2>6. /\ Mul(G, t[j]) = PAdd(Mul(G, t[i]), Mul(G, v[j]))
        /\ Mul(H, fr[j]) = PAdd(Mul(H, fr[i]), Mul(H, r[j]))
        /\ Mul(P, fr[j]) = PAdd(Mul(P, fr[i]), Mul(P, r[j]))
    BY <1>8, <1>11, <1>12, <2>2
  <2>7. /\ Mul(G, t[i]) \in Point /\ Mul(H, fr[i]) \in Point
        /\ Mul(G, v[j]) \in Point /\ Mul(H, r[j]) \in Point
    BY <1>1, <1>8, <1>10, <2>2, ModuleLaws DEF ModuleLaws
  <2>8. fc[i] = PAdd(Mul(G, t[j]), Mul(H, fr[j]))
    BY <2>3, <2>4, <2>5, <2>6, <2>7, Interchange
  <2>9. fh[i] = Mul(P, fr[j])
    BY <2>3, <2>4, <2>5, <2>6
  <2>10. QED
    BY <2>1, <2>8, <2>9
<1>15. n - 1 \in Q
  <2> HIDE DEF Q
  <2>1. Nat \subseteq Q
    BY <1>13, <1>14, SetInduction
  <2>2. QED
    BY <1>1, <2>1
<1>16. (n - 1) + 1 = n /\ n - 1 < n
  BY <1>1
<1>17. /\ Aggregate(c) = PAdd(Mul(G, t[n]), Mul(H, fr[n]))
       /\ Aggregate(h) = Mul(P, fr[n])
  BY <1>6, <1>7, <1>15, <1>16
<1>18. fr[n] \in Scalar
  BY <1>1, <1>10
<1>19. QED
  BY <1>9, <1>17, <1>18 DEF c, h
\* A vector for one movie.
OneChoice(v) ==
  \E i \in DOMAIN v : /\ v[i] = SOne
                      /\ \A j \in DOMAIN v \ {i} : v[j] = SZero

\* The plaintexts of a vote for one movie add up to 1.
LEMMA OneChoiceTallies ==
  ASSUME NEW v \in Seq(Scalar), OneChoice(v)
  PROVE  \E t : Tallies(t, v) /\ t[Len(v)] = SOne
<1>1. PICK i \in DOMAIN v : /\ v[i] = SOne
                            /\ \A j \in DOMAIN v \ {i} : v[j] = SZero
  BY DEF OneChoice
<1> DEFINE t == [k \in 0..Len(v) |-> IF k < i THEN SZero ELSE SOne]
<1>2. DOMAIN v = 1..Len(v) /\ Len(v) \in Nat /\ i \in 1..Len(v)
  OBVIOUS
<1>3. /\ SZero \in Scalar /\ SOne \in Scalar
      /\ \A x, y \in Scalar : Mul(G, x) \in Point
      /\ \A x \in Scalar : PAdd(Mul(G, SZero), Mul(G, x)) = Mul(G, x)
      /\ \A x \in Scalar : PAdd(Mul(G, x), Mul(G, SZero)) = Mul(G, x)
  <2>1. /\ SZero \in Scalar /\ SOne \in Scalar /\ G \in Point
        /\ \A x \in Scalar : Mul(G, x) \in Point
    BY ModuleLaws DEF ModuleLaws
  <2>2. \A x \in Point : /\ PAdd(Mul(G, SZero), x) = x
                         /\ PAdd(x, Mul(G, SZero)) = x
    BY <2>1, ModuleLaws DEF ModuleLaws
  <2>3. QED
    BY <2>1, <2>2
<1>4. t \in [0..Len(v) -> Scalar]
  BY <1>3
<1>5. t[0] = SZero /\ t[Len(v)] = SOne
  BY <1>2
<1>6. ASSUME NEW k \in 1..Len(v)
      PROVE  Mul(G, t[k]) = PAdd(Mul(G, t[k - 1]), Mul(G, v[k]))
  <2>1. k \in 0..Len(v) /\ k - 1 \in 0..Len(v)
    BY <1>2
  <2>2. CASE k < i
    <3>1. t[k] = SZero /\ t[k - 1] = SZero /\ v[k] = SZero
      BY <1>1, <1>2, <2>1, <2>2
    <3>2. QED
      BY <1>3, <3>1
  <2>3. CASE k = i
    <3>1. t[k] = SOne /\ t[k - 1] = SZero /\ v[k] = SOne
      BY <1>1, <1>2, <2>1, <2>3
    <3>2. QED
      BY <1>3, <3>1
  <2>4. CASE i < k
    <3>1. t[k] = SOne /\ t[k - 1] = SOne /\ v[k] = SZero
      BY <1>1, <1>2, <2>1, <2>4
    <3>2. QED
      BY <1>3, <3>1
  <2>5. QED
    BY <1>2, <2>2, <2>3, <2>4
<1> HIDE DEF t
<1>7. Tallies(t, v)
  BY <1>4, <1>5, <1>6 DEF Tallies
<1>8. QED
  BY <1>5, <1>7

\* Every vector has a running sum.
LEMMA SomeTally ==
  ASSUME NEW v \in Seq(Scalar)
  PROVE  \E t : Tallies(t, v)
<1>1. SZero \in Scalar /\ G \in Point /\ Len(v) \in Nat
  BY ModuleLaws DEF ModuleLaws
<1>2. PICK t : AddsScalars(t, SZero, v)
  BY <1>1, ScalarFold
<1>3. ASSUME NEW k \in 1..Len(v)
      PROVE  Mul(G, t[k]) = PAdd(Mul(G, t[k - 1]), Mul(G, v[k]))
  <2>1. k - 1 \in 0..Len(v) /\ v[k] \in Scalar
    BY <1>1
  <2>2. t[k - 1] \in Scalar /\ t[k] = SAdd(t[k - 1], v[k])
    BY <1>2, <2>1 DEF AddsScalars
  <2>3. \A x, y \in Scalar : Mul(G, SAdd(x, y)) = PAdd(Mul(G, x), Mul(G, y))
    BY <1>1, ModuleLaws DEF ModuleLaws
  <2>4. QED
    BY <2>1, <2>2, <2>3
<1>4. Tallies(t, v)
  BY <1>2, <1>3 DEF AddsScalars, Tallies
<1>5. QED
  BY <1>4

SumProofs == [a : Bytes(Point), b : Bytes(Point),
              c : Bytes(Scalar), s : Bytes(Scalar)]

\* What generate_vote_sum_proof makes is a sum proof, and it is accepted if
\* the vote is for one movie.
LEMMA SumProofVerifies ==
  ASSUME NEW cts, NEW v, NEW r, EncryptedWith(cts, v, r), NEW w \in Scalar
  PROVE  /\ generate_vote_sum_proof(cts, r, w) \in SumProofs
         /\ OneChoice(v) =>
              api_verify_vote_sum_proof(cts, generate_vote_sum_proof(cts, r, w))
<1> DEFINE A == Aggregate(commitments(cts))
           B == Aggregate(handles(cts))
           R == FoldLeft(SAdd, SZero, r)
           a == Mul(H, w)
           b == Mul(P, w)
           c == SumHash(A, B, a, b)
           s == SAdd(w, SMul(c, R))
           proof == generate_vote_sum_proof(cts, r, w)
<1>1. proof = [a |-> a, b |-> b, c |-> c, s |-> s]
  BY DerivedBases DEF generate_vote_sum_proof, challenge_sum_proof
<1>2. /\ G \in Point /\ H \in Point /\ P \in Point
      /\ \A x \in Point, d \in Scalar : Mul(x, d) \in Point
      /\ SOne \in Scalar /\ SZero \in Scalar
  BY ModuleLaws DEF ModuleLaws
<1>3. /\ cts \in Seq(Ciphertexts) /\ cts # <<>> /\ v \in Seq(Scalar)
      /\ \A i \in DOMAIN cts : /\ cts[i].commitment \in Point
                               /\ cts[i].handle \in Point
  <2>1. ASSUME NEW i \in DOMAIN cts
        PROVE  cts[i].commitment \in Point /\ cts[i].handle \in Point
    <3>1. /\ cts[i] = Encrypt(v[i], r[i])
          /\ v[i] \in Scalar /\ r[i] \in Scalar
      BY DEF EncryptedWith
    <3>2. QED
      BY <3>1, EncryptionOpens
  <2>2. QED
    BY <2>1 DEF EncryptedWith
<1>4. A \in Point /\ B \in Point /\ R \in Scalar
  <2>1. PICK t : Tallies(t, v)
    BY <1>3, SomeTally
  <2>2. R \in Scalar /\ A = PAdd(Mul(G, t[Len(v)]), Mul(H, R)) /\ B = Mul(P, R)
    BY <2>1, AggregateOpens
  <2>3. t[Len(v)] \in Scalar
    BY <1>3, <2>1 DEF Tallies
  <2>4. \A x, y \in Point : PAdd(x, y) \in Point
    BY ModuleLaws DEF ModuleLaws
  <2> HIDE DEF A, B, R
  <2>5. QED
    BY <1>2, <2>2, <2>3, <2>4
<1>5. a \in Point /\ b \in Point
  BY <1>2
<1> HIDE DEF A, B, R, a, b
<1>6. c \in Scalar
  BY <1>4, <1>5, HashesYieldScalars DEF HashesYieldScalars
<1> HIDE DEF c
<1>7. s \in Scalar
  BY <1>4, <1>6, ModuleLaws DEF ModuleLaws
<1>8. proof \in SumProofs
  <2> HIDE DEF s, proof
  <2>1. QED
    BY <1>1, <1>5, <1>6, <1>7 DEF SumProofs, Bytes
<1>9. ASSUME OneChoice(v)
      PROVE  api_verify_vote_sum_proof(cts, proof)
  <2>1. PICK t : Tallies(t, v) /\ t[Len(v)] = SOne
    BY <1>3, <1>9, OneChoiceTallies
  <2>2. A = PAdd(Mul(G, SOne), Mul(H, R)) /\ B = Mul(P, R)
    BY <2>1, AggregateOpens DEF A, B, R
  <2>3. PSub(A, G) = Mul(H, R)
    BY <1>2, <1>4, <2>2, ModuleLaws DEF ModuleLaws
  <2>4. /\ Mul(H, s) = PAdd(a, Mul(PSub(A, G), c))
        /\ Mul(P, s) = PAdd(b, Mul(B, c))
    <3>1. /\ Mul(H, s) = PAdd(Mul(H, w), Mul(Mul(H, R), c))
          /\ Mul(P, s) = PAdd(Mul(P, w), Mul(Mul(P, R), c))
      BY <1>2, <1>4, <1>6, AnswerVerifies
    <3>2. QED
      BY <2>2, <2>3, <3>1 DEF a, b
  <2> HIDE DEF s, proof
  <2>5. api_sum_equations(cts, proof)
    BY <1>1, <2>4, DerivedBases DEF api_sum_equations, A, B
  <2>6. SumProofDecodes(cts, proof)
    BY <1>1, <1>3, <1>5, <1>6, <1>7 DEF SumProofDecodes
  <2>7. proof.c = api_challenge_sum_proof(A, B, proof.a, proof.b)
    BY <1>1 DEF api_challenge_sum_proof, c
  <2>8. QED
    BY <1>3, <2>5, <2>6, <2>7 DEF api_verify_vote_sum_proof, A, B
<1>10. QED
  BY <1>8, <1>9
\* Lengths as scalars, up to n.
Counts(scalar, n) ==
  /\ scalar \in [0..n -> Scalar] /\ IsInjective(scalar)
  /\ scalar[0] = SZero /\ scalar[1] = SOne
  /\ \A k \in 1..n : scalar[k] = SAdd(scalar[k - 1], SOne)

\* The positions among the first k that hold a 1.
Ones(v, k) == {i \in 1..k : v[i] = SOne}

(* One position more holds one 1 more, or none.                            *)
LEMMA OnesFacts ==
  ASSUME NEW v, NEW k \in Nat
  PROVE  /\ Cardinality(Ones(v, k)) \in 0..k
         /\ k = 0 => Cardinality(Ones(v, k)) = 0
         /\ k # 0 => Cardinality(Ones(v, k)) =
              Cardinality(Ones(v, k - 1)) + (IF v[k] = SOne THEN 1 ELSE 0)
         /\ IsFiniteSet(Ones(v, k))
<1>1. \A j \in Nat : IsFiniteSet(1..j) /\ Cardinality(1..j) = j
  BY FS_Interval
<1>2. \A j \in Nat : /\ IsFiniteSet(Ones(v, j))
                     /\ Cardinality(Ones(v, j)) \in Nat
                     /\ Cardinality(Ones(v, j)) <= j
  <2> TAKE j \in Nat
  <2>1. Ones(v, j) \subseteq 1..j
    BY DEF Ones
  <2>2. /\ IsFiniteSet(Ones(v, j))
        /\ Cardinality(Ones(v, j)) <= Cardinality(1..j)
    BY <1>1, <2>1, FS_Subset
  <2>3. QED
    BY <1>1, <2>2, FS_CardinalityType
<1>3. ASSUME k # 0
      PROVE  Cardinality(Ones(v, k)) =
               Cardinality(Ones(v, k - 1)) + (IF v[k] = SOne THEN 1 ELSE 0)
  <2>1. k - 1 \in Nat /\ 1..k = (1..(k - 1)) \cup {k} /\ k \notin 1..(k - 1)
    BY <1>3
  <2>2. k \notin Ones(v, k - 1) /\ IsFiniteSet(Ones(v, k - 1))
    BY <1>2, <2>1 DEF Ones
  <2>3. CASE v[k] = SOne
    <3>1. Ones(v, k) = Ones(v, k - 1) \cup {k}
      BY <2>1, <2>3 DEF Ones
    <3>2. Cardinality(Ones(v, k - 1) \cup {k}) = Cardinality(Ones(v, k - 1)) + 1
      BY <2>2, FS_AddElement
    <3>3. QED
      BY <2>3, <3>1, <3>2
  <2>4. CASE v[k] # SOne
    <3>1. Ones(v, k) = Ones(v, k - 1)
      BY <2>1, <2>4 DEF Ones
    <3>2. Cardinality(Ones(v, k - 1)) \in Nat
      BY <1>2, <2>1
    <3>3. QED
      BY <2>4, <3>1, <3>2
  <2>5. QED
    BY <2>3, <2>4
<1>4. k = 0 => Cardinality(Ones(v, k)) = 0
  BY <1>2
<1>5. QED
  BY <1>2, <1>3, <1>4

\* The plaintexts of a vector of bits add up to the number of ones.
LEMMA BitsTally ==
  ASSUME NEW v \in Seq(Scalar), \A i \in DOMAIN v : v[i] \in Bits,
         NEW scalar, Counts(scalar, Len(v))
  PROVE  \E t : /\ Tallies(t, v)
               /\ t[Len(v)] = scalar[Cardinality(Ones(v, Len(v)))]
<1> DEFINE m(k) == Cardinality(Ones(v, k))
           t == [k \in 0..Len(v) |-> scalar[m(k)]]
<1>1. /\ Len(v) \in Nat /\ DOMAIN v = 1..Len(v)
      /\ \A j \in 0..Len(v) : scalar[j] \in Scalar
      /\ scalar[0] = SZero
      /\ \A k \in 1..Len(v) : scalar[k] = SAdd(scalar[k - 1], SOne)
  BY DEF Counts
<1>2. \A k \in 0..Len(v) : m(k) \in 0..Len(v)
  <2> TAKE k \in 0..Len(v)
  <2>1. k \in Nat
    OBVIOUS
  <2>2. m(k) \in 0..k
    BY <2>1, OnesFacts
  <2>3. QED
    BY <1>1, <2>2
<1>3. m(0) = 0
  BY OnesFacts
<1>4. /\ SZero \in Scalar /\ SOne \in Scalar /\ SZero # SOne
      /\ \A x \in Scalar : PAdd(Mul(G, x), Mul(G, SZero)) = Mul(G, x)
      /\ \A x, y \in Scalar : Mul(G, SAdd(x, y)) = PAdd(Mul(G, x), Mul(G, y))
  <2>1. /\ SZero \in Scalar /\ SOne \in Scalar /\ G \in Point /\ SZero # SOne
        /\ \A x \in Scalar : Mul(G, x) \in Point
    BY ModuleLaws DEF ModuleLaws
  <2>2. \A x \in Point : PAdd(x, Mul(G, SZero)) = x
    BY <2>1, ModuleLaws DEF ModuleLaws
  <2>3. \A x, y \in Scalar : Mul(G, SAdd(x, y)) = PAdd(Mul(G, x), Mul(G, y))
    BY <2>1, ModuleLaws DEF ModuleLaws
  <2>4. QED
    BY <2>1, <2>2, <2>3
<1>5. ASSUME NEW k \in 1..Len(v)
      PROVE  Mul(G, t[k]) = PAdd(Mul(G, t[k - 1]), Mul(G, v[k]))
  <2>1. PICK j : j = k - 1
    OBVIOUS
  <2>2. k \in Nat /\ k # 0 /\ j \in 0..Len(v) /\ k \in 0..Len(v)
    BY <1>1, <2>1
  <2>3. m(k) = m(j) + (IF v[k] = SOne THEN 1 ELSE 0)
    BY <2>1, <2>2, OnesFacts
  <2>4. /\ t[k] = scalar[m(k)] /\ t[j] = scalar[m(j)]
        /\ m(k) \in 0..Len(v) /\ m(j) \in 0..Len(v)
    BY <1>2, <2>2
  <2> HIDE DEF m, t
  <2>5. PICK mk, mj : mk = m(k) /\ mj = m(j)
    OBVIOUS
  <2>6. /\ mk = mj + (IF v[k] = SOne THEN 1 ELSE 0)
         /\ t[k] = scalar[mk] /\ t[j] = scalar[mj]
         /\ mk \in 0..Len(v) /\ mj \in 0..Len(v)
    BY <2>3, <2>4, <2>5
  <2>7. CASE v[k] = SOne
    <3>1. mk \in 1..Len(v) /\ mk - 1 = mj
      BY <1>1, <2>6, <2>7
    <3>2. t[k] = SAdd(t[j], SOne) /\ t[j] \in Scalar
      BY <1>1, <2>6, <3>1
    <3>3. QED
      BY <1>4, <2>1, <2>7, <3>2
  <2>8. CASE v[k] = SZero
    <3>1. mk = mj
      BY <1>4, <2>6, <2>8
    <3>2. t[k] = t[j] /\ t[j] \in Scalar
      BY <1>1, <2>6, <3>1
    <3>3. QED
      BY <1>4, <2>1, <2>8, <3>2
  <2>9. v[k] \in Bits
    BY <1>1
  <2>10. QED
    BY <2>7, <2>8, <2>9 DEF Bits
<1>6. t \in [0..Len(v) -> Scalar]
  <2> HIDE DEF m
  <2>1. QED
    BY <1>1, <1>2
<1>7. t[0] = SZero /\ t[Len(v)] = scalar[m(Len(v))]
  <2> HIDE DEF m
  <2>1. QED
    BY <1>1, <1>3
<1> HIDE DEF t
<1>8. Tallies(t, v)
  BY <1>5, <1>6, <1>7 DEF Tallies
<1>9. QED
  BY <1>7, <1>8

\* Special soundness of the sum proof: who can answer two challenges for
\* encrypted bits has encrypted exactly one 1.
LEMMA SumSoundness ==
  ASSUME NEW v, NEW r, EncryptedWith(encrypted_vote, v, r),
         \A i \in DOMAIN v : v[i] \in Bits,
         NEW scalar, Counts(scalar, Len(v)),
         NEW proof \in SumProofs,
         api_verify_vote_sum_proof(encrypted_vote, proof),
         SumExtractable(proof)
  PROVE  OneChoice(v)
<1> DEFINE A == Aggregate(commitments(encrypted_vote))
           B == Aggregate(handles(encrypted_vote))
           R == FoldLeft(SAdd, SZero, r)
           ones == Cardinality(Ones(v, Len(v)))
<1>1. v \in Seq(Scalar) /\ v # <<>> /\ Len(v) \in Nat \ {0}
  BY DEF EncryptedWith
<1>2. PICK t : Tallies(t, v) /\ t[Len(v)] = scalar[ones]
  BY <1>1, BitsTally
<1>3. R \in Scalar /\ A = PAdd(Mul(G, scalar[ones]), Mul(H, R)) /\ B = Mul(P, R)
  BY <1>2, AggregateOpens
<1>4. ones \in 0..Len(v) /\ scalar[ones] \in Scalar
  <2>1. ones \in 0..Len(v)
    BY <1>1, OnesFacts
  <2>2. QED
    BY <2>1 DEF Counts
<1>5. /\ G \in Point /\ H \in Point /\ P \in Point /\ SOne \in Scalar
      /\ \A x \in Point, d \in Scalar : Mul(x, d) \in Point
      /\ \A x, y \in Point : PAdd(x, y) \in Point /\ PSub(x, y) \in Point
      /\ Mul(G, SOne) = G
  BY ModuleLaws DEF ModuleLaws
<1> HIDE DEF A, B, R, ones
<1>6. A \in Point /\ B \in Point /\ PSub(A, G) \in Point
  BY <1>3, <1>4, <1>5
<1>7. /\ proof.a \in Point /\ proof.b \in Point
      /\ proof.c \in Scalar /\ proof.s \in Scalar
      /\ Mul(H, proof.s) = PAdd(proof.a, Mul(PSub(A, G), proof.c))
      /\ Mul(P, proof.s) = PAdd(proof.b, Mul(B, proof.c))
  BY DerivedBases DEF api_verify_vote_sum_proof, SumProofDecodes,
                      api_sum_equations, A, B
<1>8. PICK c \in Scalar, s \in Scalar :
        /\ c # proof.c
        /\ api_sum_equations(encrypted_vote, [proof EXCEPT !.c = c, !.s = s])
  BY DEF SumExtractable
<1>9. /\ Mul(H, s) = PAdd(proof.a, Mul(PSub(A, G), c))
      /\ Mul(P, s) = PAdd(proof.b, Mul(B, c))
  BY <1>8, DerivedBases DEF api_sum_equations, SumProofs, A, B
<1>10. PICK rho \in Scalar : PSub(A, G) = Mul(H, rho) /\ B = Mul(P, rho)
  <2>1. PICK rho \in Scalar : Reveals(s, proof.s, c, proof.c, rho)
    BY <1>7, <1>8, TwoAnswers
  <2>2. QED
    BY <1>5, <1>6, <1>7, <1>9, <2>1 DEF Reveals
<1>11. rho = R
  BY <1>3, <1>10, Generators DEF Generators
<1>12. Mul(G, scalar[ones]) = G
  <2> DEFINE x == Mul(G, scalar[ones])
             y == Mul(H, R)
  <2>1. x \in Point /\ y \in Point
    BY <1>3, <1>4, <1>5
  <2>2. A = PAdd(x, y) /\ PSub(A, G) = y
    BY <1>3, <1>10, <1>11
  <2> HIDE DEF x, y
  <2>3. PAdd(PSub(A, G), G) = A
    BY <1>5, <1>6, ModuleLaws DEF ModuleLaws
  <2>4. PAdd(G, y) = PAdd(x, y)
    BY <1>5, <2>1, <2>2, <2>3, PointsCommute DEF PointsCommute
  <2>5. \A z \in Point : PSub(PAdd(z, y), y) = z
    BY <2>1, ModuleLaws DEF ModuleLaws
  <2>6. PSub(PAdd(G, y), y) = G /\ PSub(PAdd(x, y), y) = x
    BY <1>5, <2>1, <2>5
  <2>7. x = G
    BY <2>4, <2>6
  <2>8. QED
    BY <2>7 DEF x
<1>13. scalar[ones] = SOne
  BY <1>4, <1>5, <1>12, Generators DEF Generators
<1>14. ones = 1
  BY <1>1, <1>4, <1>13 DEF Counts, IsInjective
<1>15. PICK i : Ones(v, Len(v)) = {i}
  BY <1>1, <1>14, OnesFacts, FS_Singleton DEF ones
<1>16. i \in DOMAIN v /\ v[i] = SOne
  BY <1>1, <1>15 DEF Ones
<1>17. ASSUME NEW j \in DOMAIN v \ {i} PROVE v[j] = SZero
  <2>1. j \in 1..Len(v) /\ j \notin Ones(v, Len(v)) /\ v[j] \in Bits
    BY <1>1, <1>15
  <2>2. QED
    BY <2>1 DEF Ones, Bits
<1>18. QED
  BY <1>16, <1>17 DEF OneChoice

\* A ciphertext has one plaintext: its handle gives the opening away.
LEMMA OnePlaintext ==
  ASSUME NEW x \in Scalar, NEW y \in Scalar, NEW a \in Scalar, NEW b \in Scalar,
         Encrypt(x, a) = Encrypt(y, b)
  PROVE  x = y
<1>1. /\ PAdd(Mul(G, x), Mul(H, a)) = PAdd(Mul(G, y), Mul(H, b))
      /\ Mul(P, a) = Mul(P, b)
  BY DEF Encrypt
<1>2. a = b
  BY <1>1, Generators DEF Generators
<1>3. Mul(G, x) \in Point /\ Mul(G, y) \in Point /\ Mul(H, a) \in Point
  BY ModuleLaws DEF ModuleLaws
<1>4. \A z \in Point : PSub(PAdd(z, Mul(H, a)), Mul(H, a)) = z
  BY <1>3, ModuleLaws DEF ModuleLaws
<1>5. Mul(G, x) = Mul(G, y)
  BY <1>1, <1>2, <1>3, <1>4
<1>6. QED
  BY <1>5, Generators DEF Generators
-----------------------------------------------------------------------------
Honest == client \in {"frontend", "script"}

\* Whose vote it is, and what the sum proof of a vote for one movie is worth.
SumInv ==
  /\ client \in {"none", "frontend", "script", "other"}
  /\ stage # "choose" => client # "none"
  /\ Honest => OneChoice(vote)
  /\ client = "other" => vote \in OtherVotes
  /\ vote_sum_proof \in SumProofs
  /\ stage = "posted" /\ intact /\ OneChoice(vote) =>
       api_verify_vote_sum_proof(encrypted_vote, vote_sum_proof)

\* After its loops the client has encrypted the whole vote.
LEMMA AllEncrypted ==
  ASSUME FlowInv, stage \in {"prove", "sum", "posted"}
  PROVE  EncryptedWith(encrypted_vote, vote, openings)
BY DEF FlowInv, Made, Progress, EncryptedWith

(* Nothing is known of a vote before a client has chosen one.              *)
LEMMA SumInvInit == Init => SumInv
BY DEF Init, SumInv, Honest, NoSumProof, SumProofs, Bytes

\* A movie of the ballot makes a vector for one movie.
LEMMA ChosenMovie ==
  ASSUME NEW i \in 0..(proposal_count - 1)
  PROVE  OneChoice(create_vote_vector(i, proposal_count))
<1> DEFINE v == create_vote_vector(i, proposal_count)
<1>1. i + 1 \in 1..proposal_count
  BY FlowAssumption DEF FlowAssumption
<1>2. PICK j \in 1..proposal_count : j = i + 1
  BY <1>1
<1>3. v = [k \in 1..proposal_count |-> IF k = j THEN SOne ELSE SZero]
  BY <1>2 DEF create_vote_vector
<1> HIDE DEF v
<1>4. DOMAIN v = 1..proposal_count /\ v[j] = SOne
  BY <1>3
<1>5. \A k \in DOMAIN v \ {j} : v[k] = SZero
  BY <1>3
<1>6. OneChoice(v)
  BY <1>4, <1>5 DEF OneChoice
<1>7. QED
  BY <1>6 DEF v

(* Only the choice of a vote, the proof of its sum and a disturbance touch *)
(* what SumInv is about.                                                   *)
LEMMA SumInvNext == FlowInv /\ SumInv /\ [Next]_vars => SumInv'
<1> SUFFICES ASSUME FlowInv, SumInv, [Next]_vars PROVE SumInv'
  OBVIOUS
<1>1. ASSUME NEW i \in 0..(proposal_count - 1),
             FrontendChooses(i) \/ ScriptChooses(i)
      PROVE  SumInv'
  <2>1. /\ client' \in {"frontend", "script"}
        /\ vote' = create_vote_vector(i, proposal_count)
        /\ stage' = "encrypt" /\ vote_sum_proof' = vote_sum_proof
    BY <1>1 DEF FrontendChooses, ScriptChooses, StartsWith
  <2>2. OneChoice(vote')
    BY <2>1, ChosenMovie
  <2>3. QED
    BY <2>1, <2>2 DEF SumInv, Honest
<1>2. ASSUME NEW vector \in OtherVotes, OtherChooses(vector)
      PROVE  SumInv'
  <2>1. /\ client' = "other" /\ vote' = vector
        /\ stage' = "encrypt" /\ vote_sum_proof' = vote_sum_proof
    BY <1>2 DEF OtherChooses, StartsWith
  <2>2. QED
    BY <2>1 DEF SumInv, Honest
<1>3. CASE EncryptNext
  <2>1. /\ UNCHANGED <<client, vote, vote_sum_proof, intact>>
        /\ stage # "choose" /\ stage' # "posted" /\ stage' # "choose"
    BY <1>3 DEF EncryptNext
  <2>2. QED
    BY <2>1 DEF SumInv, Honest
<1>4. CASE ProveNext
  <2>1. /\ UNCHANGED <<client, vote, vote_sum_proof, intact>>
        /\ stage # "choose" /\ stage' # "posted" /\ stage' # "choose"
    BY <1>4 DEF ProveNext
  <2>2. QED
    BY <2>1 DEF SumInv, Honest
<1>5. CASE ProveSum
  <2>1. /\ stage = "sum" /\ stage' = "posted"
        /\ UNCHANGED <<client, vote, encrypted_vote, openings, intact>>
    BY <1>5 DEF ProveSum
  <2>2. PICK w \in Nonces :
          vote_sum_proof' = generate_vote_sum_proof(encrypted_vote, openings, w)
    BY <1>5 DEF ProveSum
  <2>3. w \in Scalar
    BY FlowAssumption DEF FlowAssumption
  <2>4. EncryptedWith(encrypted_vote, vote, openings)
    BY <2>1, AllEncrypted
  <2>5. /\ vote_sum_proof' \in SumProofs
        /\ OneChoice(vote) =>
             api_verify_vote_sum_proof(encrypted_vote, vote_sum_proof')
    BY <2>2, <2>3, <2>4, SumProofVerifies
  <2>6. QED
    BY <2>1, <2>5 DEF SumInv, Honest
<1>6. ASSUME NEW proofs, NEW sum_proof \in SumProofs,
             Disturbs(proofs, sum_proof)
      PROVE  SumInv'
  <2>1. /\ vote_sum_proof' = sum_proof /\ ~intact' /\ stage' = stage
        /\ client' = client /\ vote' = vote
    BY <1>6 DEF Disturbs
  <2>2. QED
    BY <2>1 DEF SumInv, Honest
<1>7. vote_sum_proof \in SumProofs
  BY DEF SumInv
<1>8. CASE LosesLastProof
  BY <1>6, <1>7, <1>8 DEF LosesLastProof
<1>9. CASE SwapsProofs
  BY <1>6, <1>7, <1>9 DEF SwapsProofs
<1>10. ASSUME NEW field \in {"a0", "s1"}, SpoilsProof(field)
       PROVE  SumInv'
  BY <1>6, <1>7, <1>10 DEF SpoilsProof
<1>11. ASSUME NEW field \in {"b", "c"}, SpoilsSumProof(field)
       PROVE  SumInv'
  <2>1. [vote_sum_proof EXCEPT ![field] = Undecodable] \in SumProofs
    BY <1>7, <1>11 DEF SumProofs, Bytes
  <2>2. QED
    BY <1>6, <1>11, <2>1 DEF SpoilsSumProof
<1>12. CASE ApiVerifies \/ ChainVerifies
  <2>1. UNCHANGED <<client, stage, vote, encrypted_vote, vote_sum_proof,
                    intact>>
    BY <1>12 DEF ApiVerifies, ChainVerifies
  <2>2. QED
    BY <2>1 DEF SumInv, Honest
<1>13. CASE UNCHANGED vars
  BY <1>13 DEF vars, SumInv, Honest
<1>14. QED
  BY <1>1, <1>2, <1>3, <1>4, <1>5, <1>8, <1>9, <1>10, <1>11, <1>12, <1>13
     DEF Next

\* Completeness of the whole vote: what the frontend or the test program
\* posts for one movie is never refused on account of its proofs, whatever
\* the number of movies and the randomness (zk_vote.rs:192-266 and
\* vote_crypto.rs against zk_verify.rs:158-240).
THEOREM HonestVotesPass == Spec => []HonestVotesAccepted
<1>1. FlowInv /\ SumInv => HonestVotesAccepted
  <2> SUFFICES ASSUME FlowInv, SumInv, intact, Honest, api_verdict = "error"
               PROVE  FALSE
    BY DEF HonestVotesAccepted, Honest
  <2>1. /\ stage = "posted"
        /\ ~api_verify_encrypted_vote_proofs(encrypted_vote, vote_proofs,
                                             vote_sum_proof)
    BY DEF FlowInv, VerdictsStand, Verdict
  <2>2. OneChoice(vote) /\ EncryptedWith(encrypted_vote, vote, openings)
    BY <2>1, AllEncrypted DEF SumInv
  <2>3. Len(vote_proofs) = Len(vote) /\ vote_proofs \in Seq(VoteProofs)
    BY <2>1 DEF FlowInv, Progress, Made
  <2>4. ASSUME NEW i \in DOMAIN encrypted_vote
        PROVE  api_verify_vote_proof(encrypted_vote[i], vote_proofs[i])
    <3>1. i \in DOMAIN vote_proofs /\ i \in DOMAIN vote
      BY <2>2, <2>3 DEF EncryptedWith
    <3>2. vote[i] \in Bits
      BY <2>2, <3>1 DEF OneChoice, Bits
    <3>3. QED
      BY <3>1, <3>2 DEF FlowInv, ProvedPositionsVerify
  <2>5. api_verify_vote_sum_proof(encrypted_vote, vote_sum_proof)
    BY <2>1, <2>2 DEF SumInv
  <2>6. Len(encrypted_vote) = Len(vote_proofs)
    BY <2>2, <2>3 DEF EncryptedWith
  <2>7. QED
    BY <2>1, <2>4, <2>5, <2>6 DEF api_verify_encrypted_vote_proofs
<1>2. QED
  BY <1>1, FlowInvInit, FlowInvNext, SumInvInit, SumInvNext, PTL DEF Spec

\* Soundness of the whole vote: what the API accepts is a vote for exactly
\* one movie, unless its prover guessed a challenge.  Every position holds a
\* bit, a ciphertext has one plaintext, and as many ones as there are
\* positions cannot wrap around to 1.
THEOREM AcceptedVotesAreChoices == Spec => []AcceptedVoteIsOneChoice
<1>1. FlowInv /\ SumInv => AcceptedVoteIsOneChoice
  <2> SUFFICES ASSUME FlowInv, SumInv, api_verdict = "ok",
                      SumExtractable(vote_sum_proof),
                      \A i \in DOMAIN encrypted_vote :
                        Extractable(encrypted_vote[i], vote_proofs[i])
               PROVE  OneChoice(vote)
    BY DEF AcceptedVoteIsOneChoice, OneChoice
  <2>1. /\ stage = "posted"
        /\ api_verify_encrypted_vote_proofs(encrypted_vote, vote_proofs,
                                            vote_sum_proof)
    BY DEF FlowInv, VerdictsStand, Verdict
  <2>2. EncryptedWith(encrypted_vote, vote, openings)
    BY <2>1, AllEncrypted
  <2>3. /\ \A i \in DOMAIN encrypted_vote :
             api_verify_vote_proof(encrypted_vote[i], vote_proofs[i])
        /\ Len(encrypted_vote) = Len(vote_proofs)
        /\ api_verify_vote_sum_proof(encrypted_vote, vote_sum_proof)
    BY <2>1 DEF api_verify_encrypted_vote_proofs
  <2>4. ASSUME NEW i \in DOMAIN vote
        PROVE  vote[i] \in Bits
    <3>1. /\ i \in DOMAIN encrypted_vote /\ i \in DOMAIN vote_proofs
          /\ encrypted_vote[i] \in Ciphertexts /\ vote_proofs[i] \in VoteProofs
          /\ vote[i] \in Scalar /\ openings[i] \in Scalar
          /\ encrypted_vote[i] = Encrypt(vote[i], openings[i])
      <4>1. /\ vote \in Seq(Scalar) /\ openings \in Seq(Scalar)
            /\ encrypted_vote \in Seq(Ciphertexts)
            /\ Len(encrypted_vote) = Len(vote) /\ Len(openings) = Len(vote)
            /\ \A j \in 1..Len(vote) :
                 encrypted_vote[j] = Encrypt(vote[j], openings[j])
        BY <2>2 DEF EncryptedWith
      <4>2. vote_proofs \in Seq(VoteProofs) /\ Len(vote_proofs) = Len(vote)
        BY <2>3, <4>1 DEF FlowInv, Made
      <4>3. i \in 1..Len(vote)
        BY <4>1
      <4>4. QED
        BY <4>1, <4>2, <4>3
    <3>2. EncryptsBit(encrypted_vote[i])
      BY <2>3, <3>1, SpecialSoundness DEF api_verify_vote_proof, Ciphertexts
    <3>3. PICK bit \in Bits, a \in Scalar : encrypted_vote[i] = Encrypt(bit, a)
      BY <3>2 DEF EncryptsBit
    <3>4. bit \in Scalar
      BY ModuleLaws DEF ModuleLaws, Bits
    <3>5. vote[i] = bit
      BY <3>1, <3>3, <3>4, OnePlaintext
    <3>6. QED
      BY <3>5
  <2>5. CASE client = "other"
    <3>1. PICK scalar : Counts(scalar, Len(vote))
      BY <2>5, LengthsAreScalars DEF LengthsAreScalars, SumInv, Counts
    <3>2. vote_sum_proof \in SumProofs
      BY DEF SumInv
    <3>3. QED
      BY <2>2, <2>3, <2>4, <3>1, <3>2, SumSoundness
  <2>6. CASE client # "other"
    BY <2>1, <2>6 DEF SumInv, Honest
  <2>7. QED
    BY <2>5, <2>6
<1>2. QED
  BY <1>1, FlowInvInit, FlowInvNext, SumInvInit, SumInvNext, PTL DEF Spec
=============================================================================
