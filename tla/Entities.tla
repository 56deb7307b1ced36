------------------------------- MODULE Entities -------------------------------
(***************************************************************************)
(* What the handlers of a chain keep in the database, whose two halves     *)
(* depend on nothing of each other: the registry of its contracts and      *)
(* tokens, and the ledger of the share events.                             *)
(***************************************************************************)
EXTENDS Registry, Integers

CONSTANTS Accounts, Zero, Tokens, Boosts, Values, MaxTx, MaxLogs
VARIABLES tx, at, held, issued, balance, supply, flow, transfers, timeline

Ledger == INSTANCE ShareLedger

ledger == <<tx, at, held, issued, balance, supply, flow, transfers, timeline>>

ASSUME LedgerAssumption == Ledger!LedgerAssumption

-----------------------------------------------------------------------------
\* Balance and TokenSupply are what the chain says, whatever an event's two sides are
\* (balances.ts:1-8).
SumsAreTheChains == Ledger!SumsAreTheChains

\* The BALANCE rows of an account are its step function (balances.ts:42-70).
StepFunction == Ledger!StepFunction

\* The MINT and BURN rows of the transfers that change a balance are those their whole
\* transaction calls for (timeline.ts:5-10).
AttributionExact == Ledger!AttributionExact
=============================================================================
