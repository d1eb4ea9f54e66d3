---------------------------- MODULE ExactQueries ----------------------------
(***************************************************************************)
(* What the queries of ChainQueries answer on the chains that the poller   *)
(* polls: the finality module indexes the blocks from the activation on.   *)
(***************************************************************************)
EXTENDS ChainPoller, ChainQueries

IndexedUpTo(h) == IF activated = 0 THEN {} ELSE activated..h

(***************************************************************************)
(* The rounds of FastSync over QueryBlocks deliver each indexed block of   *)
(* the range once and in order, also when the range ends beyond the tip    *)
(* and whatever the limit of a round (fastsync.go:35, babylon.go:328).     *)
(***************************************************************************)
PagesCoverRange ==
  \A start \in Max({1, activated})..MaxHeight : \A end \in start..MaxHeight, limit \in 1..2 :
    FetchedBlocks(IndexedUpTo(tip), start, end, limit)
      = Ascending((start..end) \intersect IndexedUpTo(tip))

(***************************************************************************)
(* QueryFinalityProviders lists every provider once, whatever the size of  *)
(* a page (babylon.go:493).                                                *)
(***************************************************************************)
ProvidersListedOnce ==
  \A keys \in SUBSET (1..tip), limit \in 1..2 :
    QueryFinalityProviders(keys, limit) = Ascending(keys)

(***************************************************************************)
(* The best block exists and is never behind a finalized one, also before  *)
(* the finality module has indexed any block (babylon.go:390): fast sync   *)
(* starts from the one and ends at the other (fp_instance.go).             *)
(***************************************************************************)
BestBlockCoversFinalized ==
  \A indexed \in Max({1, activated})..tip : \A final \in 0..indexed :
    LET best == QueryBestBlock(IndexedUpTo(indexed), tip)
        finalized == QueryLatestFinalizedBlocks(IndexedUpTo(final), 1)
    IN  /\ best \in indexed..tip
        /\ \A i \in DOMAIN finalized : finalized[i] <= best

(***************************************************************************)
(* The queries that fast sync, the status synchronisation and the start of *)
(* an instance rest on are exact: all of the above.                        *)
(***************************************************************************)
QueriesExact == PagesCoverRange /\ ProvidersListedOnce /\ BestBlockCoversFinalized
=============================================================================
