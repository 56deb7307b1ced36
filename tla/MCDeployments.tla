---------------------------- MODULE MCDeployments ----------------------------
(***************************************************************************)
(* Deployments, with two operators and the worker's cleanup: commands one  *)
(* at a time with --force; operators who never force and take turns, next  *)
(* to a cleanup at any moment of theirs; operators whose commands overlap. *)
(* One version was written by hand.                                        *)
(***************************************************************************)
EXTENDS Deployments, TLC

TwoViews == <<"user_timeline_api", "api_status">>
\* Version 3 was written by hand, on the database of version 1.
HandWritten == <<1, 2, 1>>

Careful == {[forced |-> TRUE, overlap |-> FALSE, serial |-> TRUE],
            [forced |-> FALSE, overlap |-> FALSE, serial |-> FALSE],
            [forced |-> FALSE, overlap |-> TRUE, serial |-> FALSE]}

Alike == Permutations(Operators)

\* How long ago a version was retired is asked of retired ones only; of what a cleanup
\* listed it asks which versions are expired and which others are in use; an operator's list
\* is asked only whether deploy found its version.  States that differ in nothing else are one.
Asked == [v \in Versions |-> IF rows[v].state = "retired" THEN rows[v]
                             ELSE [rows[v] EXCEPT !.retired = "null"]]
AskedOf(listed) == <<Expired(listed), {v \in Versions : listed[v].state \in {"none", "dropped"}}>>
AskedBy(p) ==
    IF p \in Operators
    THEN [job[p] EXCEPT !.list = job[p].version # NoVersion /\ Registers(p)]
    ELSE [job[p] EXCEPT !.list = AskedOf(@)]
ByWhatIsAsked ==
    <<mode, Asked, gone, view, aside, [p \in Processes |-> AskedBy(p)]>>

\* Commands that overlap are checked with the version written by hand already cleaned up,
\* the others with it there.
SmallInit == Init /\ (mode.overlap <=> rows[3].state = "dropped")
SmallSpec == SmallInit /\ [][Next]_vars
==============================================================================
