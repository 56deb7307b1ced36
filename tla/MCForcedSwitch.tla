---------------------------- MODULE MCForcedSwitch ----------------------------
(* Deployments with an operator who forces, or two whose commands overlap: what the docs   *)
(* of a command say of it, and does not hold.                                              *)
EXTENDS Deployments

TwoViews == <<"user_timeline_api", "api_status">>
TwoDatabases == <<1, 2>>
OneAtATime == {[forced |-> TRUE, overlap |-> FALSE, serial |-> TRUE]}
AtAnyMoment == {[forced |-> TRUE, overlap |-> FALSE, serial |-> FALSE]}
Overlapping == {[forced |-> FALSE, overlap |-> TRUE, serial |-> FALSE]}
===============================================================================
