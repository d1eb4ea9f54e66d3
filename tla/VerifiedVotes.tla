--------------------------- MODULE VerifiedVotes ---------------------------
(***************************************************************************)
(* Votes over committed randomness: what VoteSigning puts into a vote,     *)
(* against the commits and the proofs that the loop of PubRand leaves      *)
(* behind.                                                                 *)
(***************************************************************************)
EXTENDS PubRand, VoteSigning

CONSTANTS
  FpPk,       \* the BTC public key of the provider
  ChainID,    \* the chain of the instance
  BlockHash   \* the hash of a block; blocks are told apart by their heights

fp == [btcPk |-> FpPk, chainID |-> ChainID]

Block(h) == [height |-> h, hash |-> BlockHash]

Committed == UNION {CommitRange(commits[i]) : i \in DOMAIN commits}

\* What the chain checks of a vote: its randomness is in the committed list at
\* the place of its height, the proof is one of that tree, and the signature is
\* one of the block under that randomness.
Verifies(vote) ==
  \E i \in DOMAIN commits :
    /\ vote.block.height \in CommitRange(commits[i])
    /\ vote.pubRand = getPubRandList(fp, commits[i], NumPubRand)[vote.block.height - commits[i] + 1]
    /\ vote.proof = commits[i]
    /\ vote.sig.key = fp.btcPk
    /\ vote.sig.rand = vote.pubRand
    /\ vote.sig.msg = getMsgToSignForVote(vote.block)

(***************************************************************************)
(* The chain can verify every vote for a committed height, and every batch *)
(* for consecutive ones, also across two commits: what CommitPubRand       *)
(* committed, what the EOTS manager signs with and the proofs found by     *)
(* randomness agree, after any failed, repeated or late commit             *)
(* (fp_instance.go:638, fp_instance.go:681).                               *)
(***************************************************************************)
VotesVerify ==
  ~fresh =>
    /\ \A h \in Committed : Verifies(Vote(fp, proofs, Block(h)))
    /\ \A h, l \in Committed :
         h <= l =>
           LET votes == BatchVotes(fp, proofs, [i \in 1..(l - h + 1) |-> Block(h + i - 1)])
           IN  Len(votes) = l - h + 1 /\ \A i \in DOMAIN votes : Verifies(votes[i])
=============================================================================
