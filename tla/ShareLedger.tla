----------------------------- MODULE ShareLedger -----------------------------
(***************************************************************************)
(* What the indexer makes of the share events of one chain                 *)
(* (apps/indexer/src/lib/balances.ts and timeline.ts): the running Balance *)
(* and TokenSupply of each share token and boost, and the BALANCE, MINT    *)
(* and BURN rows of TimelineEvent, with the zap attribution kept in        *)
(* ShareFlow.  Envio runs the handlers of a chain in log order and each to *)
(* its end, so a handler is one step.                                      *)
(*                                                                         *)
(* The chain itself is held: what each contract says its holders have.     *)
(***************************************************************************)
EXTENDS Integers, FiniteSets, FiniteSetsExt

CONSTANTS
    Accounts,       \* every account but 0x0
    Zero,           \* 0x0
    Tokens,         \* share tokens
    Boosts,         \* boosts, treated as share tokens
    Values,         \* the amounts an event may carry
    MaxTx,          \* bound on the transactions
    MaxLogs         \* bound on the events

LedgerAssumption ==
    /\ Zero \notin Accounts
    /\ Tokens \cap Boosts = {}
    /\ Values \subseteq Nat
    /\ MaxTx \in Nat
    /\ MaxLogs \in Nat

VARIABLES
    tx,             \* the transaction whose logs are handled
    at,             \* the last log handled
    held,           \* the chain: what each account holds
    issued,         \* the chain: totalSupply()
    balance,        \* Balance
    supply,         \* TokenSupply
    flow,           \* ShareFlow, of each share token
    transfers,      \* ShareTransfer
    timeline        \* TimelineEvent

chain == <<tx, at, held, issued>>
vars == <<chain, balance, supply, flow, transfers, timeline>>

Contracts == Tokens \cup Boosts
Parties == Accounts \cup {Zero}

Transfers == [token : Tokens, tx : Nat, at : Nat, from : Parties, to : Parties, value : Values]
Legs == [from : Parties, to : Accounts, value : Values, at : Nat]
Flows == [tx : Nat, legs : SUBSET Legs]
\* delta and after are 0 in MINT and BURN rows.
Rows == [contract : Contracts, at : Nat, account : Parties,
         kind : {"BALANCE", "MINT", "BURN"}, delta : Int, after : Int]

\* The variables keep their types; 0x0 has no Balance and no leg ends at it.
TypeOK ==
    /\ tx \in Nat
    /\ at \in Nat
    /\ held \in [Contracts -> [Accounts -> Nat]]
    /\ issued \in [Contracts -> Int]
    /\ balance \in [Contracts -> [Accounts -> Int]]
    /\ supply \in [Contracts -> Int]
    /\ flow \in [Tokens -> Flows]
    /\ transfers \subseteq Transfers
    /\ timeline \subseteq Rows

Init ==
    /\ tx = 1
    /\ at = 0
    /\ held = [c \in Contracts |-> [a \in Accounts |-> 0]]
    /\ issued = [c \in Contracts |-> 0]
    /\ balance = [c \in Contracts |-> [a \in Accounts |-> 0]]
    /\ supply = [c \in Contracts |-> 0]
    /\ flow = [c \in Tokens |-> [tx |-> 0, legs |-> {}]]
    /\ transfers = {}
    /\ timeline = {}

-----------------------------------------------------------------------------
(* The chain.                                                              *)

NextTransaction ==
    /\ tx < MaxTx
    /\ tx' = tx + 1
    /\ UNCHANGED <<at, held, issued, balance, supply, flow, transfers, timeline>>

\* A contract emits one more log.
NextLog ==
    /\ at < MaxLogs
    /\ at' = at + 1
    /\ UNCHANGED tx

\* An ERC-20 moves value: a holder gives no more than it has.
Moves(c, from, to, value) ==
    /\ from \in Accounts => value <= held[c][from]
    /\ held' = [held EXCEPT ![c] = [a \in Accounts |->
                    @[a] + (IF a = to THEN value ELSE 0) - (IF a = from THEN value ELSE 0)]]
    /\ issued' = [issued EXCEPT ![c] =
                    @ + (IF from = Zero THEN value ELSE 0) - (IF to = Zero THEN value ELSE 0)]

-----------------------------------------------------------------------------
(* balances.ts                                                             *)

Row(c, account, kind, log) ==
    [contract |-> c, at |-> log, account |-> account, kind |-> kind, delta |-> 0, after |-> 0]

BalanceRowReadBefore(c, account, delta) ==
    [Row(c, account, "BALANCE", at + 1) EXCEPT !.delta = delta, !.after = balance[c][account]]
BalanceRow(c, account, delta) ==
    [Row(c, account, "BALANCE", at + 1) EXCEPT !.delta = delta, !.after = balance[c][account] + delta]

\* The accounts of an event whose balance it changes.
Tracked(deltas) == {a \in DOMAIN deltas : deltas[a] # 0 /\ a # Zero}

\* applyBalanceDeltas reads every balance first and then writes them.
ApplyBalanceDeltas(c, deltas) ==
    balance' = [balance EXCEPT ![c] = [a \in Accounts |->
                    IF a \in Tracked(deltas) THEN @[a] + deltas[a] ELSE @[a]]]
BalanceRows(c, deltas) == {BalanceRow(c, a, deltas[a]) : a \in Tracked(deltas)}

\* The two sides of a transfer; a self-transfer has none.
SidesReceiverLast(from, to, value) == [a \in {from, to} |-> IF a = to THEN value ELSE -value]
Sides(from, to, value) ==
    [a \in IF from = to THEN {} ELSE {from, to} |-> IF a = to THEN value ELSE -value]

\* Mints and burns change the supply, but not a transfer from 0x0 to itself.
SupplyDeltaMintOnly(from, to, value) == IF from = Zero /\ to # Zero THEN value ELSE 0
SupplyDelta(from, to, value) ==
    IF (from = Zero) = (to = Zero) THEN 0 ELSE IF from = Zero THEN value ELSE -value

ApplySupplyDelta(c, delta) == supply' = [supply EXCEPT ![c] = @ + delta]

-----------------------------------------------------------------------------
(* timeline.ts                                                             *)

\* A flow of another transaction is over.
LegsOfAnyTransaction(c) == flow[c].legs
LegsOf(c) == IF flow[c].tx = tx THEN flow[c].legs ELSE {}

DirectRows(c, from, to) ==
    (IF from = Zero THEN {Row(c, to, "MINT", at + 1)} ELSE {})
        \cup (IF to = Zero THEN {Row(c, from, "BURN", at + 1)} ELSE {})

\* from gives up shares it received: each sender of the same value withdrew through it.
RoutedBurns(c, from, value) ==
    {Row(c, leg.from, "BURN", leg.at) :
        leg \in {l \in LegsOf(c) : l.from # Zero /\ l.to = from /\ l.value = value}}

\* from forwards shares minted to it: the receiver deposited through it.
RoutedMints(c, from, to, value) ==
    IF \E l \in LegsOf(c) : l.from = Zero /\ l.to = from /\ l.value = value
    THEN {Row(c, to, "MINT", at + 1)} ELSE {}

TransferRows(c, from, to, value) ==
    DirectRows(c, from, to) \cup
        CASE from = Zero -> {}
          [] to = Zero /\ from # Zero -> RoutedBurns(c, from, value)
          [] from # Zero /\ to # Zero -> RoutedMints(c, from, to, value)

\* A burn leaves the flow as it is stored.
RecordLeg(c, from, to, value) ==
    flow' = IF to = Zero THEN flow
            ELSE [flow EXCEPT ![c] =
                    [tx |-> tx,
                     legs |-> LegsOf(c) \cup {[from |-> from, to |-> to, value |-> value, at |-> at + 1]}]]

-----------------------------------------------------------------------------
(* The handlers.                                                           *)

ShareTransfer(c, from, to, value) ==
    [token |-> c, tx |-> tx, at |-> at + 1, from |-> from, to |-> to, value |-> value]

HandleShareTransfer(c, from, to, value) ==
    /\ NextLog
    /\ Moves(c, from, to, value)
    /\ ApplySupplyDelta(c, SupplyDelta(from, to, value))
    /\ ApplyBalanceDeltas(c, Sides(from, to, value))
    /\ RecordLeg(c, from, to, value)
    /\ timeline' = timeline \cup BalanceRows(c, Sides(from, to, value))
                            \cup TransferRows(c, from, to, value)
    /\ transfers' = transfers \cup {ShareTransfer(c, from, to, value)}

\* Staked and Withdrawn of a boost: one balance and the supply.
HandleBoostStake(c, user, delta) ==
    /\ NextLog
    /\ held[c][user] + delta >= 0
    /\ held' = [held EXCEPT ![c][user] = @ + delta]
    /\ issued' = [issued EXCEPT ![c] = @ + delta]
    /\ ApplySupplyDelta(c, delta)
    /\ ApplyBalanceDeltas(c, [a \in {user} |-> delta])
    /\ timeline' = timeline \cup BalanceRows(c, [a \in {user} |-> delta])
    /\ UNCHANGED <<flow, transfers>>

Next ==
    \/ NextTransaction
    \/ \E c \in Tokens, from, to \in Parties, value \in Values :
        HandleShareTransfer(c, from, to, value)
    \/ \E c \in Boosts, user \in Accounts, amount \in Values :
        HandleBoostStake(c, user, amount) \/ HandleBoostStake(c, user, -amount)

Spec == Init /\ [][Next]_vars

-----------------------------------------------------------------------------
(* Properties.                                                             *)

\* Every running sum is what the chain says, whatever an event's two sides are (the same
\* account, 0x0, a zero value).
SumsAreTheChains == balance = held /\ supply = issued

\* The BALANCE rows of an account are its step function: each one starts where the one
\* before left it, and the last one is its Balance.
StepsOf(c, a) == {r \in timeline : r.contract = c /\ r.account = a /\ r.kind = "BALANCE"}
BeforeStep(r) == {s \in StepsOf(r.contract, r.account) : s.at < r.at}
LastOf(steps) == IF steps = {} THEN 0 ELSE (CHOOSE s \in steps : \A t \in steps : t.at <= s.at).after
StepFunction ==
    \A c \in Contracts, a \in Accounts :
        /\ balance[c][a] = LastOf(StepsOf(c, a))
        /\ \A r \in StepsOf(c, a) : r.after = LastOf(BeforeStep(r)) + r.delta

\* What MINT and BURN mean (timeline.ts:6-12), over the transfers of a whole transaction.
MintOf(e) == Row(e.token, e.to, "MINT", e.at)
BurnOf(e) == Row(e.token, e.from, "BURN", e.at)
SameShares(e, f) == e.token = f.token /\ e.tx = f.tx /\ e.value = f.value
Forwards(e) ==
    /\ e.from # Zero /\ e.to # Zero
    /\ \E m \in transfers : SameShares(m, e) /\ m.at < e.at /\ m.from = Zero /\ m.to = e.from
WithdrawsThrough(e) ==
    /\ e.from # Zero /\ e.to # Zero
    /\ \E b \in transfers : SameShares(b, e) /\ e.at < b.at /\ b.to = Zero /\ b.from = e.to
Attributed(S) ==
    {MintOf(e) : e \in {f \in S : f.from = Zero \/ Forwards(f)}}
        \cup {BurnOf(e) : e \in {f \in S : f.to = Zero \/ WithdrawsThrough(f)}}
Attributions == {r \in timeline : r.kind # "BALANCE"}

\* "Zero-value transfers and self-transfers change no balance: only the ShareTransfer row is
\* written" (balances.ts:8).  MINT and BURN rows are written for them all the same
\* (timeline.ts:137-138, 149-150; README, "Other places").
Counted == {e \in transfers : e.value # 0 /\ e.from # e.to}
OfCounted(r) == \E e \in Counted : e.at = r.at

\* The MINT and BURN rows of the transfers that change a balance are exactly those that the
\* transfers of each transaction call for, though the handlers see one log at a time and
\* remember one transaction per token.
AttributionExact == {r \in Attributions : OfCounted(r)} = Attributed(Counted)
=============================================================================
