--------------------------- MODULE MulticallAnswers ---------------------------
(***************************************************************************)
(* What the indexer's multicall promises (apps/indexer/src/lib/viem.ts):   *)
(* each group of reads that is asked for is answered at most once, with    *)
(* the results of its own calls in their order, or rejected as a whole     *)
(* while the RPC refuses it however it is sent.  An outage of the RPC is   *)
(* never an answer, nor are calls that revert a failure.                   *)
(***************************************************************************)
CONSTANTS Groups, NoAnswer, Rejected, OwnResults(_)

VARIABLES
    asked, answer,
    refused     \* the groups that the RPC refuses now

TypeOK ==
    /\ asked \subseteq Groups
    /\ answer \in [Groups -> {NoAnswer, Rejected} \cup {OwnResults(g) : g \in Groups}]

Init ==
    /\ asked = {}
    /\ answer = [g \in Groups |-> NoAnswer]

Ask(g) ==
    /\ g \notin asked
    /\ asked' = asked \cup {g}
    /\ UNCHANGED answer

\* The groups that shared a request are answered together.
Give(S) ==
    /\ S \subseteq asked
    /\ \A g \in S : answer[g] = NoAnswer
    /\ answer' = [g \in Groups |-> IF g \in S THEN OwnResults(g) ELSE answer[g]]
    /\ UNCHANGED asked

Reject(g) ==
    /\ g \in asked \cap refused
    /\ answer[g] = NoAnswer
    /\ answer' = [answer EXCEPT ![g] = Rejected]
    /\ UNCHANGED asked

Next ==
    \/ \E g \in Groups : Ask(g) \/ Reject(g)
    \/ \E S \in SUBSET Groups : Give(S)

Spec == Init /\ [][Next]_<<asked, answer>>
=============================================================================
