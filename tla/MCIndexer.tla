------------------------------- MODULE MCIndexer -------------------------------
(***************************************************************************)
(* Values for Indexer.                                                     *)
(*                                                                         *)
(* The pacer has two upstreams of different widths, the narrow one of      *)
(* which has pruned a block.  A range of logs that the wide one serves     *)
(* comes with a call, whose client may leave, and that block; then two     *)
(* ranges too wide for both, of which the client of one leaves; then two   *)
(* ranges of which the wide one refuses the shorter for its many logs.     *)
(*                                                                         *)
(* The batcher has groups of one, two and three calls, some of which       *)
(* revert: a lone call, and all the calls of another group.                *)
(*                                                                         *)
(* The prices are a vault's and a boost's that is priced as it, and two    *)
(* refreshes may overlap.  The worker has one version of one chain.        *)
(***************************************************************************)
EXTENDS Indexer, Naturals

TogetherValue == {{"logs", "call", "block"}, {"tooWide", "leaves"}, {"logs", "many"}}
RequestsValue == UNION TogetherValue
UpstreamsValue == {"narrow", "wide"}
RangeOfValue == [logs |-> 2, call |-> 0, block |-> 0, tooWide |-> 3, leaves |-> 3, many |-> 1]
LimitOfValue == [narrow |-> 1, wide |-> 2]
CrowdedValue == [narrow |-> {}, wide |-> {"many"}]
LacksValue == [narrow |-> {"block"}, wide |-> {}]

GroupsValue == {"one", "other", "two", "three"}
BlockOfValue == [g \in Groups |-> IF g = "three" THEN "late" ELSE "early"]
SizeOfValue == [one |-> 1, other |-> 1, two |-> 2, three |-> 3]
BytesOfValue == [one |-> 1, other |-> 1, two |-> 3, three |-> 2]
RevertingValue == {<<"one", 1>>, <<"two", 1>>, <<"two", 2>>}

PoolOfValue == [b |-> "v"]
ListedInValue == [v |-> "prices"]
=============================================================================
