--------------------------- MODULE LimiterConstants ---------------------------
(* The settings of the limiter (apps/api/src/http/limiter.ts) and what is assumed of them. *)
EXTENDS Naturals

CONSTANTS MaxInFlight, MaxQueue

ASSUME LimiterAssumption == MaxInFlight \in Nat \ {0} /\ MaxQueue \in Nat
=============================================================================
