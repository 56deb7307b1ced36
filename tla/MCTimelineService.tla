--------------------------- MODULE MCTimelineService ---------------------------
(* One account and a switch to one of two newer versions; one place and one waiter for the  *)
(* queries, and a cache that holds two small responses or one large one; the largest does   *)
(* not fit.                                                                                 *)
EXTENDS TimelineService, TLC

ThreeVersions == {1, 2, 3}
ThreeSizes == {1, 2, 3}

AlikeBuilds == Permutations(Builds)
=============================================================================
