---------------------------- MODULE ChainQueries ----------------------------
(***************************************************************************)
(* The queries of the client controller that come back in pages            *)
(* (clientcontroller/babylon.go) and the loops that put pages together.    *)
(* A chain is given by the heights its finality module has indexed.        *)
(***************************************************************************)
EXTENDS Integers, Sequences, FiniteSetsExt

\* The elements of a finite set of heights or keys in ascending order, which is
\* how the store that answers the queries iterates over them.
Ascending(S) ==
  CHOOSE s \in [1..Cardinality(S) -> S] :
    \A i, j \in 1..Cardinality(S) : i < j => s[i] < s[j]

Reversed(s) == [i \in 1..Len(s) |-> s[Len(s) - i + 1]]

\* The element the next round or page is asked for after.
LastOf(s) == s[Len(s)]

\* The first count elements of a set of heights or keys, from startKey on in the
\* order asked for.
queryLatestBlocks(indexed, startKey, count, reverse) ==
  LET from == Ascending({h \in indexed : h >= startKey})
      inOrder == IF reverse THEN Reversed(from) ELSE from
  IN  SubSeq(inOrder, 1, Min({count, Len(inOrder)}))

\* Mutant: the range is taken to exclude its end.
QueryBlocks_ExclusiveEnd(indexed, startHeight, endHeight, limit) ==
  queryLatestBlocks(indexed, startHeight, Min({endHeight - startHeight, limit}), FALSE)

QueryBlocks(indexed, startHeight, endHeight, limit) ==
  queryLatestBlocks(indexed, startHeight, Min({endHeight - startHeight + 1, limit}), FALSE)

\* The rounds of FastSync: each begins after the last block of the one before.
FetchedBlocks(indexed, startHeight, endHeight, limit) ==
  LET rounds[s \in startHeight..endHeight + 1] ==
        LET blocks == IF s > endHeight THEN <<>> ELSE QueryBlocks(indexed, s, endHeight, limit)
        IN  IF blocks = <<>> THEN <<>> ELSE blocks \o rounds[LastOf(blocks) + 1]
  IN  rounds[startHeight]

QueryLatestFinalizedBlocks(finalized, count) == queryLatestBlocks(finalized, 0, count, TRUE)

\* Mutant: the block is not asked for in reverse order.
QueryBestBlock_Oldest(indexed, cometTip) ==
  LET blocks == queryLatestBlocks(indexed, 0, 1, FALSE)
  IN  IF Len(blocks) = 1 THEN blocks[1] ELSE cometTip

\* The latest indexed block or, when there is none, what CometBFT says.
QueryBestBlock(indexed, cometTip) ==
  LET blocks == queryLatestBlocks(indexed, 0, 1, TRUE)
  IN  IF Len(blocks) = 1 THEN blocks[1] ELSE cometTip

\* Mutant: only the first page is read.
QueryFinalityProviders_FirstPage(keys, limit) == queryLatestBlocks(keys, 0, limit, FALSE)

\* Page after page until the answer has no NextKey.
QueryFinalityProviders(keys, limit) ==
  LET pages[k \in keys] ==
        LET page == queryLatestBlocks(keys, k, limit, FALSE)
            after == {j \in keys : j > LastOf(page)}
        IN  IF after = {} THEN page ELSE page \o pages[Min(after)]
  IN  IF keys = {} THEN <<>> ELSE pages[Min(keys)]
=============================================================================
