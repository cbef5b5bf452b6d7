----------------------------- MODULE VoteSigma ------------------------------
(***************************************************************************)
(* The two proofs that accompany an encrypted vote, as calculations in a   *)
(* group: VoteProof (a ciphertext encrypts 0 or 1) and VoteSumProof (the   *)
(* ciphertexts add up to an encryption of 1).  Three programs hold a copy  *)
(* of this arithmetic and must agree on it to the last sign: the prover of *)
(* the frontend (zk_vote.rs; submit_test_vote.rs has its own), the         *)
(* verifier of the API (zk_verify.rs) and the verifier on chain            *)
(* (proofs.rs).  Each copy is translated from its own file.                *)
(*                                                                         *)
(* Ristretto points and scalars are the members of two constant sets with  *)
(* the operations of curve25519_dalek as constant operators; ModuleLaws is *)
(* all that is assumed of them.  SHA-512 is a constant operator too.       *)
(***************************************************************************)
EXTENDS Integers, SequencesExt

CONSTANTS Scalar, Point,                     \* curve25519_dalek's types
          SZero, SOne, SAdd(_, _), SSub(_, _), SMul(_, _),
          PAdd(_, _), PSub(_, _),
          Mul(_, _),                         \* point * scalar
          G, H,                              \* Pedersen generators of the SDK
          P,                                 \* ElGamal public key of a ballot
          VoteHash(_, _, _, _, _, _),        \* "kaonashi-vote-proof" ...
          SumHash(_, _, _, _),               \* "kaonashi-vote-sum-proof" ...
          Undecodable                        \* bytes that are no point, or
                                             \* no canonical scalar

\* A prime-order group, its scalars, and hashes that yield scalars.
ASSUME ModuleLaws ==
  /\ {G, H, P} \subseteq Point /\ {SZero, SOne} \subseteq Scalar /\ SZero # SOne
  /\ Undecodable \notin Point \cup Scalar
  /\ \A a, b \in Scalar :
       /\ {SAdd(a, b), SSub(a, b), SMul(a, b)} \subseteq Scalar
       /\ SAdd(SSub(a, b), b) = a /\ SAdd(a, SSub(b, a)) = b
       /\ SSub(a, b) = SZero => a = b
  /\ \A x, y \in Point :
       /\ {PAdd(x, y), PSub(x, y)} \subseteq Point
       /\ PAdd(PSub(x, y), y) = x /\ PSub(PAdd(x, y), x) = y
  /\ \A x, y, z \in Point : PSub(PAdd(x, y), PAdd(x, z)) = PSub(y, z)
  /\ \A x \in Point :
       /\ Mul(x, SOne) = x
       /\ \A y \in Point : /\ PAdd(Mul(y, SZero), x) = x
                           /\ PAdd(x, Mul(y, SZero)) = x
  /\ \A x \in Point, a, b \in Scalar :
       /\ Mul(x, a) \in Point
       /\ Mul(x, SAdd(a, b)) = PAdd(Mul(x, a), Mul(x, b))
       /\ Mul(x, SSub(a, b)) = PSub(Mul(x, a), Mul(x, b))
       /\ Mul(x, SMul(a, b)) = Mul(Mul(x, b), a)
  /\ \A d \in Scalar \ {SZero} :
       \E inverse \in Scalar : \A x \in Point : Mul(Mul(x, d), inverse) = x

ASSUME PointsCommute ==
  \A x, y, z \in Point : /\ PAdd(x, y) = PAdd(y, x)
                         /\ PAdd(PAdd(x, y), z) = PAdd(x, PAdd(y, z))

\* Neither G nor a key is the identity, and the order of the group is prime.
ASSUME Generators ==
  \A x \in {G, P}, a, b \in Scalar : Mul(x, a) = Mul(x, b) => a = b

ASSUME HashesYieldScalars ==
  /\ \A c, d, a, b, x, y \in Point : VoteHash(c, d, a, b, x, y) \in Scalar
  /\ \A c, d, a, b \in Point : SumHash(c, d, a, b) \in Scalar

\* ElGamalPubkey::encrypt_with_u64: a Pedersen commitment and its handle.
Encrypt(value, opening) ==
  [commitment |-> PAdd(Mul(G, value), Mul(H, opening)),
   handle     |-> Mul(P, opening)]

Bytes(values) == values \cup {Undecodable}
Ciphertexts == [commitment : Bytes(Point), handle : Bytes(Point)]
VoteProofs == [a0 : Bytes(Point), b0 : Bytes(Point),
               c0 : Bytes(Scalar), s0 : Bytes(Scalar),
               a1 : Bytes(Point), b1 : Bytes(Point),
               c1 : Bytes(Scalar), s1 : Bytes(Scalar)]

-----------------------------------------------------------------------------
(* The prover: zk_vote.rs and vote_crypto.rs of the frontend.               *)

derive_bases == [g |-> Encrypt(SOne, SZero).commitment,
                 h |-> Encrypt(SZero, SOne).commitment,
                 p |-> Encrypt(SZero, SOne).handle]

\* Every copy hashes the ciphertext and the first messages in this order.
challenge_vote_proof(ct, a0, b0, a1, b1) ==
  VoteHash(ct.commitment, ct.handle, a0, b0, a1, b1)
challenge_sum_proof(commitment, handle, a, b) ==
  SumHash(commitment, handle, a, b)

\* vote[selected_index] = 1; an index outside the ballot is an error.
create_vote_vector(selected_index, proposal_count) ==
  [i \in 1..proposal_count |->
     IF i = selected_index + 1 THEN SOne ELSE SZero]

FaultySimulation(ct, opening, w, c, s) ==
  LET base == derive_bases
      a1 == PSub(Mul(base.h, s), Mul(ct.commitment, c))
      b1 == PSub(Mul(base.p, s), Mul(ct.handle, c))
      a0 == Mul(base.h, w)
      b0 == Mul(base.p, w)
      c0 == SSub(challenge_vote_proof(ct, a0, b0, a1, b1), c)
  IN [a0 |-> a0, b0 |-> b0, c0 |-> c0, s0 |-> SAdd(w, SMul(c0, opening)),
      a1 |-> a1, b1 |-> b1, c1 |-> c, s1 |-> s]

\* Enc(0): branch 0 is proved with the opening, branch 1 simulated from its
\* answers c and s.
ProveZero(ct, opening, w, c, s) ==
  LET base == derive_bases
      a1 == PSub(Mul(base.h, s), Mul(PSub(ct.commitment, base.g), c))
      b1 == PSub(Mul(base.p, s), Mul(ct.handle, c))
      a0 == Mul(base.h, w)
      b0 == Mul(base.p, w)
      c0 == SSub(challenge_vote_proof(ct, a0, b0, a1, b1), c)
  IN [a0 |-> a0, b0 |-> b0, c0 |-> c0, s0 |-> SAdd(w, SMul(c0, opening)),
      a1 |-> a1, b1 |-> b1, c1 |-> c, s1 |-> s]

\* Enc(1): branch 0 is simulated, branch 1 proved.
ProveOne(ct, opening, w, c, s) ==
  LET base == derive_bases
      a0 == PSub(Mul(base.h, s), Mul(ct.commitment, c))
      b0 == PSub(Mul(base.p, s), Mul(ct.handle, c))
      a1 == Mul(base.h, w)
      b1 == Mul(base.p, w)
      c1 == SSub(challenge_vote_proof(ct, a0, b0, a1, b1), c)
  IN [a0 |-> a0, b0 |-> b0, c0 |-> c, s0 |-> s,
      a1 |-> a1, b1 |-> b1, c1 |-> c1, s1 |-> SAdd(w, SMul(c1, opening))]

\* The frontend's copy refuses a value that is neither 0 nor 1.
generate_vote_proof(ct, value, opening, w, c, s) ==
  CASE value = SZero -> ProveZero(ct, opening, w, c, s)
    [] value = SOne  -> ProveOne(ct, opening, w, c, s)

\* The copy of submit_test_vote.rs takes every value but 0 for a 1.
script_generate_vote_proof(ct, value, opening, w, c, s) ==
  IF value = SZero THEN ProveZero(ct, opening, w, c, s)
                   ELSE ProveOne(ct, opening, w, c, s)

commitments(encrypted_vote) ==
  [i \in DOMAIN encrypted_vote |-> encrypted_vote[i].commitment]
handles(encrypted_vote) ==
  [i \in DOMAIN encrypted_vote |-> encrypted_vote[i].handle]

\* The loops over Option<RistrettoPoint>: the first element, then +.
Aggregate(points) == FoldLeft(PAdd, Head(points), Tail(points))

FaultySumProof(encrypted_vote, openings, w) ==
  LET base == derive_bases
      a == Mul(base.h, w)
      b == Mul(base.p, w)
      c == challenge_sum_proof(Aggregate(commitments(encrypted_vote)),
                               Aggregate(handles(encrypted_vote)), a, b)
  IN [a |-> a, b |-> b, c |-> c,
      s |-> SAdd(w, SMul(c, FoldLeft(SAdd, SZero, Tail(openings))))]

generate_vote_sum_proof(encrypted_vote, openings, w) ==
  LET base == derive_bases
      a == Mul(base.h, w)
      b == Mul(base.p, w)
      c == challenge_sum_proof(Aggregate(commitments(encrypted_vote)),
                               Aggregate(handles(encrypted_vote)), a, b)
  IN [a |-> a, b |-> b, c |-> c,
      s |-> SAdd(w, SMul(c, FoldLeft(SAdd, SZero, openings)))]

-----------------------------------------------------------------------------
(* The API: zk_verify.rs.  Decoding comes first, then the challenge, then   *)
(* the equations; every failure is an error of the request.                 *)

api_derive_bases == [g |-> Encrypt(SOne, SZero).commitment,
                     h |-> Encrypt(SZero, SOne).commitment,
                     p |-> Encrypt(SZero, SOne).handle]

api_challenge_vote_proof(ct, a0, b0, a1, b1) ==
  VoteHash(ct.commitment, ct.handle, a0, b0, a1, b1)
api_challenge_sum_proof(commitment, handle, a, b) ==
  SumHash(commitment, handle, a, b)

VoteProofDecodes(ct, proof) ==
  /\ {ct.commitment, ct.handle} \subseteq Point
  /\ {proof.a0, proof.b0, proof.a1, proof.b1} \subseteq Point
  /\ {proof.c0, proof.s0, proof.c1, proof.s1} \subseteq Scalar

SumProofDecodes(encrypted_vote, proof) ==
  /\ \A i \in DOMAIN encrypted_vote :
       {encrypted_vote[i].commitment, encrypted_vote[i].handle} \subseteq Point
  /\ {proof.a, proof.b} \subseteq Point
  /\ {proof.c, proof.s} \subseteq Scalar

FaultyEquations(ct, proof) ==
  LET base == api_derive_bases IN
  /\ Mul(base.h, proof.s0) = PAdd(proof.a0, Mul(ct.commitment, proof.c0))
  /\ Mul(base.h, proof.s1) =
       PAdd(proof.a1, Mul(PSub(ct.commitment, base.g), proof.c1))
  /\ Mul(base.p, proof.s1) = PAdd(proof.b1, Mul(ct.handle, proof.c1))

api_vote_equations(ct, proof) ==
  LET base == api_derive_bases IN
  /\ Mul(base.h, proof.s0) = PAdd(proof.a0, Mul(ct.commitment, proof.c0))
  /\ Mul(base.p, proof.s0) = PAdd(proof.b0, Mul(ct.handle, proof.c0))
  /\ Mul(base.h, proof.s1) =
       PAdd(proof.a1, Mul(PSub(ct.commitment, base.g), proof.c1))
  /\ Mul(base.p, proof.s1) = PAdd(proof.b1, Mul(ct.handle, proof.c1))

api_verify_vote_proof(ct, proof) ==
  /\ VoteProofDecodes(ct, proof)
  /\ SAdd(proof.c0, proof.c1) =
       api_challenge_vote_proof(ct, proof.a0, proof.b0, proof.a1, proof.b1)
  /\ api_vote_equations(ct, proof)

FaultySumEquations(encrypted_vote, proof) ==
  LET base == api_derive_bases IN
  Mul(base.p, proof.s) =
    PAdd(proof.b, Mul(Aggregate(handles(encrypted_vote)), proof.c))

api_sum_equations(encrypted_vote, proof) ==
  LET base == api_derive_bases IN
  /\ Mul(base.h, proof.s) =
       PAdd(proof.a, Mul(PSub(Aggregate(commitments(encrypted_vote)), base.g),
                         proof.c))
  /\ Mul(base.p, proof.s) =
       PAdd(proof.b, Mul(Aggregate(handles(encrypted_vote)), proof.c))

api_verify_vote_sum_proof(encrypted_vote, proof) ==
  /\ encrypted_vote # <<>>
  /\ SumProofDecodes(encrypted_vote, proof)
  /\ proof.c = api_challenge_sum_proof(
                 Aggregate(commitments(encrypted_vote)),
                 Aggregate(handles(encrypted_vote)), proof.a, proof.b)
  /\ api_sum_equations(encrypted_vote, proof)

api_verify_encrypted_vote_proofs(encrypted_vote, vote_proofs, sum_proof) ==
  /\ Len(encrypted_vote) = Len(vote_proofs)
  /\ \A i \in DOMAIN encrypted_vote :
       api_verify_vote_proof(encrypted_vote[i], vote_proofs[i])
  /\ api_verify_vote_sum_proof(encrypted_vote, sum_proof)

-----------------------------------------------------------------------------
(* The program on chain: proofs.rs, with G and H as literal bytes.          *)

chain_derive_bases == [g |-> G, h |-> H, p |-> P]

FaultyChallengeOrder(ct, a0, b0, a1, b1) ==
  VoteHash(ct.commitment, ct.handle, a0, a1, b0, b1)

chain_challenge_vote_proof(ct, a0, b0, a1, b1) ==
  VoteHash(ct.commitment, ct.handle, a0, b0, a1, b1)
chain_challenge_sum_proof(commitment, handle, a, b) ==
  SumHash(commitment, handle, a, b)

chain_verify_vote_proof(ct, proof) ==
  LET base == chain_derive_bases IN
  /\ VoteProofDecodes(ct, proof)
  /\ SAdd(proof.c0, proof.c1) =
       chain_challenge_vote_proof(ct, proof.a0, proof.b0, proof.a1, proof.b1)
  /\ Mul(base.h, proof.s0) = PAdd(proof.a0, Mul(ct.commitment, proof.c0))
  /\ Mul(base.p, proof.s0) = PAdd(proof.b0, Mul(ct.handle, proof.c0))
  /\ Mul(base.h, proof.s1) =
       PAdd(proof.a1, Mul(PSub(ct.commitment, base.g), proof.c1))
  /\ Mul(base.p, proof.s1) = PAdd(proof.b1, Mul(ct.handle, proof.c1))

chain_verify_vote_sum_proof(encrypted_vote, proof) ==
  LET base == chain_derive_bases IN
  /\ encrypted_vote # <<>>
  /\ SumProofDecodes(encrypted_vote, proof)
  /\ proof.c = chain_challenge_sum_proof(
                 Aggregate(commitments(encrypted_vote)),
                 Aggregate(handles(encrypted_vote)), proof.a, proof.b)
  /\ Mul(base.h, proof.s) =
       PAdd(proof.a, Mul(PSub(Aggregate(commitments(encrypted_vote)), base.g),
                         proof.c))
  /\ Mul(base.p, proof.s) =
       PAdd(proof.b, Mul(Aggregate(handles(encrypted_vote)), proof.c))

chain_verify_encrypted_vote_proofs(encrypted_vote, vote_proofs, sum_proof) ==
  /\ encrypted_vote # <<>>
  /\ Len(encrypted_vote) = Len(vote_proofs)
  /\ \A i \in DOMAIN encrypted_vote :
       chain_verify_vote_proof(encrypted_vote[i], vote_proofs[i])
  /\ chain_verify_vote_sum_proof(encrypted_vote, sum_proof)
=============================================================================
