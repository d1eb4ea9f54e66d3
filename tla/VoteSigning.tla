---------------------------- MODULE VoteSigning ----------------------------
(***************************************************************************)
(* What a vote is made of: the randomness and the signatures of the EOTS   *)
(* manager (eotsmanager/localmanager.go, randgenerator.go), the adapter of *)
(* the instance that asks for them (service/eots_manager_adapter.go) and   *)
(* the proofs it adds (store/pub_rand.go).                                 *)
(*                                                                         *)
(* Randomness is a keyed hash, so it is identified by what is hashed, and  *)
(* its private and its public half by each other.  A signature is          *)
(* identified by its key, its randomness and its message.                  *)
(***************************************************************************)
EXTENDS Integers, Sequences

GenerateRandomness(key, chainID, height) == [key |-> key, chainID |-> chainID, height |-> height]

\* Mutant: the list starts one height later than it is asked to.
CreateRandomnessPairList_FromNext(fpPk, chainID, startHeight, num) ==
  [i \in 1..num |-> GenerateRandomness(fpPk, chainID, startHeight + i)]

CreateRandomnessPairList(fpPk, chainID, startHeight, num) ==
  [i \in 1..num |-> GenerateRandomness(fpPk, chainID, startHeight + i - 1)]

SignEOTS(fpPk, chainID, msg, height) ==
  [key |-> fpPk, rand |-> GenerateRandomness(fpPk, chainID, height), msg |-> msg]

getMsgToSignForVote(b) == <<b.height, b.hash>>

\* The adapter asks with the key and the chain of the instance.
getPubRandList(fp, startHeight, numPubRand) ==
  CreateRandomnessPairList(fp.btcPk, fp.chainID, startHeight, numPubRand)

signFinalitySig(fp, b) == SignEOTS(fp.btcPk, fp.chainID, getMsgToSignForVote(b), b.height)

-----------------------------------------------------------------------------
(* The proof store is a function from heights (of the provider's own       *)
(* randomness) to the trees that the proofs belong to.                     *)

ErrPubRandProofNotFound == 0

GetPubRandProof(proofs, pubRand) ==
  IF pubRand.height \in DOMAIN proofs THEN proofs[pubRand.height] ELSE ErrPubRandProofNotFound

\* Either all of the proofs or, with the error, none.
GetPubRandProofList(proofs, pubRandList) ==
  IF \A i \in DOMAIN pubRandList : pubRandList[i].height \in DOMAIN proofs
  THEN [i \in DOMAIN pubRandList |-> proofs[pubRandList[i].height]]
  ELSE <<>>

\* The vote that SubmitFinalitySignature sends for a block.
Vote(fp, proofs, b) ==
  LET pubRand == getPubRandList(fp, b.height, 1)[1]
  IN  [block |-> b, pubRand |-> pubRand,
       proof |-> GetPubRandProof(proofs, pubRand), sig |-> signFinalitySig(fp, b)]

\* The votes that SubmitBatchFinalitySignatures sends for blocks in ascending
\* order: none if a proof is missing.
BatchVotes(fp, proofs, blocks) ==
  LET prList == getPubRandList(fp, blocks[1].height, Len(blocks))
      proofList == GetPubRandProofList(proofs, prList)
  IN  [i \in DOMAIN proofList |->
         [block |-> blocks[i], pubRand |-> prList[i],
          proof |-> proofList[i], sig |-> signFinalitySig(fp, blocks[i])]]
=============================================================================
