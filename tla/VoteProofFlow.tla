--------------------------- MODULE VoteProofFlow ----------------------------
(***************************************************************************)
(* One encrypted vote from its encryption to the verdicts: a client draws  *)
(* an opening for every movie, proves every position, proves the sum, and  *)
(* posts the result.  The API verifies what is posted to it, the program   *)
(* what a transaction brings to it.  The signed message of a vote covers   *)
(* the ciphertexts and not the proofs, so proofs may arrive that are not   *)
(* the ones that were made for these ciphertexts.                          *)
(***************************************************************************)
EXTENDS VoteSigma

CONSTANTS proposal_count,   \* movies of a ballot
          Nonces,           \* the values Scalar::random returns
          OtherVotes        \* what clients of other make encrypt

ASSUME FlowAssumption ==
  /\ proposal_count \in Nat \ {0}
  /\ Nonces \subseteq Scalar
  /\ OtherVotes \subseteq Seq(Scalar) \ {<<>>}

\* A scalar is a number modulo a prime of 253 bits: lengths of vectors are
\* different scalars.
ASSUME LengthsAreScalars ==
  \A vector \in OtherVotes :
    \E scalar \in [0..Len(vector) -> Scalar] :
      /\ IsInjective(scalar)
      /\ scalar[0] = SZero /\ scalar[1] = SOne
      /\ \A k \in 1..Len(vector) : scalar[k] = SAdd(scalar[k - 1], SOne)

VARIABLES client,           \* whose code makes the proofs
          stage,            \* how far the client is
          vote,             \* the plaintexts
          encrypted_vote, openings, vote_proofs, vote_sum_proof,
          intact,           \* the proofs are the ones the client made
          api_verdict, chain_verdict

vars == <<client, stage, vote, encrypted_vote, openings, vote_proofs,
          vote_sum_proof, intact, api_verdict, chain_verdict>>

Verdicts == {"none", "ok", "error"}
Verdict(holds) == IF holds THEN "ok" ELSE "error"
NoSumProof == [a |-> Undecodable, b |-> Undecodable,
               c |-> Undecodable, s |-> Undecodable]

Init ==
  /\ client = "none" /\ stage = "choose" /\ vote = <<>>
  /\ encrypted_vote = <<>> /\ openings = <<>>
  /\ vote_proofs = <<>> /\ vote_sum_proof = NoSumProof
  /\ intact = TRUE
  /\ api_verdict = "none" /\ chain_verdict = "none"

StartsWith(who, vector) ==
  /\ stage = "choose"
  /\ client' = who
  /\ vote' = vector
  /\ stage' = "encrypt"
  /\ UNCHANGED <<encrypted_vote, openings, vote_proofs, vote_sum_proof,
                 intact, api_verdict, chain_verdict>>

\* The frontend; an index outside the ballot ends in an error.
FrontendChooses(selected_index) ==
  /\ selected_index < proposal_count
  /\ StartsWith("frontend",
                create_vote_vector(selected_index, proposal_count))

\* submit_one_vote of the test program.
ScriptChooses(movie_index) ==
  /\ movie_index < proposal_count
  /\ StartsWith("script", create_vote_vector(movie_index, proposal_count))

\* The API is open to every client.
OtherChooses(vector) == StartsWith("other", vector)

\* One turn of the loop of encrypt_vote_with_witness.
EncryptNext ==
  /\ stage = "encrypt"
  /\ \E r \in Nonces :
       /\ encrypted_vote' =
            Append(encrypted_vote, Encrypt(vote[Len(encrypted_vote) + 1], r))
       /\ openings' = Append(openings, r)
  /\ stage' = IF Len(encrypted_vote) + 1 = Len(vote) THEN "prove" ELSE stage
  /\ UNCHANGED <<client, vote, vote_proofs, vote_sum_proof, intact,
                 api_verdict, chain_verdict>>

\* One turn of generate_vote_proofs.
ProveNext ==
  /\ stage = "prove"
  /\ LET k == Len(vote_proofs) + 1 IN
     /\ \E w, c, s \in Nonces :
          vote_proofs' = Append(vote_proofs,
            IF client = "frontend"
            THEN generate_vote_proof(encrypted_vote[k], vote[k], openings[k],
                                     w, c, s)
            ELSE script_generate_vote_proof(encrypted_vote[k], vote[k],
                                            openings[k], w, c, s))
     /\ stage' = IF k = Len(vote) THEN "sum" ELSE stage
  /\ UNCHANGED <<client, vote, encrypted_vote, openings, vote_sum_proof,
                 intact, api_verdict, chain_verdict>>

ProveSum ==
  /\ stage = "sum"
  /\ \E w \in Nonces :
       vote_sum_proof' = generate_vote_sum_proof(encrypted_vote, openings, w)
  /\ stage' = "posted"
  /\ UNCHANGED <<client, vote, encrypted_vote, openings, vote_proofs, intact,
                 api_verdict, chain_verdict>>

-----------------------------------------------------------------------------
(* Proofs that arrive otherwise than they were made.                        *)

Unverified == stage = "posted" /\ api_verdict = "none" /\ chain_verdict = "none"

Disturbs(proofs, sum_proof) ==
  /\ Unverified /\ intact
  /\ vote_proofs' = proofs
  /\ vote_sum_proof' = sum_proof
  /\ intact' = FALSE
  /\ UNCHANGED <<client, stage, vote, encrypted_vote, openings, api_verdict,
                 chain_verdict>>

LosesLastProof ==
  Disturbs(SubSeq(vote_proofs, 1, Len(vote_proofs) - 1), vote_sum_proof)

SwapsProofs == Disturbs(Reverse(vote_proofs), vote_sum_proof)

SpoilsProof(field) ==
  Disturbs([vote_proofs EXCEPT ![1] = [@ EXCEPT ![field] = Undecodable]],
           vote_sum_proof)

SpoilsSumProof(field) ==
  Disturbs(vote_proofs, [vote_sum_proof EXCEPT ![field] = Undecodable])

-----------------------------------------------------------------------------
ApiVerifies ==
  /\ stage = "posted" /\ api_verdict = "none"
  /\ api_verdict' = Verdict(api_verify_encrypted_vote_proofs(
                              encrypted_vote, vote_proofs, vote_sum_proof))
  /\ UNCHANGED <<client, stage, vote, encrypted_vote, openings, vote_proofs,
                 vote_sum_proof, intact, chain_verdict>>

\* An undecodable field is an array of 32 bytes like any other here: the
\* account data of the instruction has no other lengths.
ChainVerifies ==
  /\ stage = "posted" /\ chain_verdict = "none"
  /\ chain_verdict' = Verdict(chain_verify_encrypted_vote_proofs(
                                encrypted_vote, vote_proofs, vote_sum_proof))
  /\ UNCHANGED <<client, stage, vote, encrypted_vote, openings, vote_proofs,
                 vote_sum_proof, intact, api_verdict>>

Next ==
  \/ \E i \in 0..(proposal_count - 1) : FrontendChooses(i) \/ ScriptChooses(i)
  \/ \E vector \in OtherVotes : OtherChooses(vector)
  \/ EncryptNext \/ ProveNext \/ ProveSum
  \/ LosesLastProof \/ SwapsProofs
  \/ \E field \in {"a0", "s1"} : SpoilsProof(field)
  \/ \E field \in {"b", "c"} : SpoilsSumProof(field)
  \/ ApiVerifies \/ ChainVerifies

Spec == Init /\ [][Next]_vars

-----------------------------------------------------------------------------
Bits == {SZero, SOne}

\* Every proof a client of this repository makes for a 0 or a 1 passes the
\* verifier of the API, whatever the randomness: the two branches share the
\* challenge as the prover divided it (generate_vote_proof of zk_vote.rs and
\* of submit_test_vote.rs against verify_vote_proof of zk_verify.rs).
ProvedPositionsVerify ==
  intact =>
    \A i \in DOMAIN vote_proofs :
      vote[i] \in Bits =>
        api_verify_vote_proof(encrypted_vote[i], vote_proofs[i])

\* A vote for one movie, proved by the frontend or by the test program, is
\* never refused by the API on account of its proofs (handler.rs answers
\* "rejected" there and the voter would have to start over).
HonestVotesAccepted ==
  intact /\ client \in {"frontend", "script"} => api_verdict # "error"

\* The API and the program on chain accept exactly the same proofs, also of
\* votes that are no choice of one movie and of proofs that were lost,
\* exchanged or spoiled: a vote the API has let pass would pass on chain.
VerifiersAgree ==
  "none" \in {api_verdict, chain_verdict} \/ api_verdict = chain_verdict

\* The prover behind a proof could have answered another challenge to the
\* same first messages, too: it did not just guess the challenge.
Extractable(ct, proof) ==
  \E c0, s0, c1, s1 \in Scalar :
    /\ SAdd(c0, c1) # SAdd(proof.c0, proof.c1)
    /\ api_vote_equations(ct, [proof EXCEPT !.c0 = c0, !.s0 = s0,
                                            !.c1 = c1, !.s1 = s1])

SumExtractable(proof) ==
  \E c, s \in Scalar :
    /\ c # proof.c
    /\ api_sum_equations(encrypted_vote, [proof EXCEPT !.c = c, !.s = s])

EncryptsBit(ct) == \E bit \in Bits, r \in Scalar : ct = Encrypt(bit, r)

\* Special soundness of verify_vote_proof: what the API accepts encrypts a 0
\* or a 1 under the key of the ballot, unless the prover guessed the
\* challenge.
AcceptedPositionsAreBits ==
  api_verdict = "ok" =>
    \A i \in DOMAIN encrypted_vote :
      Extractable(encrypted_vote[i], vote_proofs[i]) =>
        EncryptsBit(encrypted_vote[i])

\* Together with the sum proof: an accepted vote is a vote for one movie, so
\* a sum of accepted votes counts every voter once.
AcceptedVoteIsOneChoice ==
  /\ api_verdict = "ok" /\ SumExtractable(vote_sum_proof)
  /\ \A i \in DOMAIN encrypted_vote :
       Extractable(encrypted_vote[i], vote_proofs[i])
  => \E i \in DOMAIN vote :
       /\ vote[i] = SOne
       /\ \A j \in DOMAIN vote \ {i} : vote[j] = SZero
=============================================================================
