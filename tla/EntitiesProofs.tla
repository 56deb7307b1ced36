---------------------------- MODULE EntitiesProofs ----------------------------
(***************************************************************************)
(* Proofs about the ledger of Entities, for any accounts, contracts,       *)
(* amounts and any number of transactions and logs.                        *)
(***************************************************************************)
EXTENDS Entities, TLAPS

USE LedgerAssumption DEF Ledger!LedgerAssumption


-----------------------------------------------------------------------------
(* Types.                                                                  *)

LEMMA ValuesAreNumbers == \A v \in Values : v \in Nat /\ -v \in Int
  OBVIOUS

\* What a handler adds to a contract's sums is an integer.
LEMMA SidesTyped ==
  ASSUME NEW from \in Ledger!Parties, NEW to \in Ledger!Parties, NEW value \in Values
  PROVE  /\ \A a \in DOMAIN Ledger!Sides(from, to, value) :
              a \in {from, to} /\ Ledger!Sides(from, to, value)[a] \in Int
         /\ Ledger!SupplyDelta(from, to, value) \in Int
  BY ValuesAreNumbers DEF Ledger!Sides, Ledger!SupplyDelta

\* Balances stay integers, and the BALANCE rows are rows.
LEMMA DeltasTyped ==
  ASSUME Ledger!TypeOK, NEW c \in Ledger!Contracts, NEW deltas, NEW S \in SUBSET Ledger!Parties,
         DOMAIN deltas = S, \A a \in S : deltas[a] \in Int, Ledger!ApplyBalanceDeltas(c, deltas)
  PROVE  /\ balance' \in [Ledger!Contracts -> [Accounts -> Int]]
         /\ Ledger!BalanceRows(c, deltas) \subseteq Ledger!Rows
  <1>1. \A a \in Ledger!Tracked(deltas) : a \in Accounts /\ deltas[a] \in Int
    BY DEF Ledger!Tracked, Ledger!Parties
  <1>2. balance[c] \in [Accounts -> Int]
    BY DEF Ledger!TypeOK
  <1>3. [a \in Accounts |-> IF a \in Ledger!Tracked(deltas) THEN balance[c][a] + deltas[a] ELSE balance[c][a]]
          \in [Accounts -> Int]
    BY <1>1, <1>2
  <1>4. balance' \in [Ledger!Contracts -> [Accounts -> Int]]
    BY <1>3 DEF Ledger!TypeOK, Ledger!ApplyBalanceDeltas
  <1>5. ASSUME NEW a \in Ledger!Tracked(deltas)
        PROVE  Ledger!BalanceRow(c, a, deltas[a]) \in Ledger!Rows
    <2>1. balance[c][a] + deltas[a] \in Int /\ at + 1 \in Nat
      BY <1>1, <1>2 DEF Ledger!TypeOK
    <2>. QED
      BY <1>1, <2>1 DEF Ledger!BalanceRow, Ledger!Row, Ledger!Rows, Ledger!Parties
  <1>. QED
    BY <1>4, <1>5 DEF Ledger!BalanceRows

\* The legs a handler may use are legs, and the rows it writes are rows.
LEMMA LegsTyped ==
  ASSUME Ledger!TypeOK, NEW c \in Tokens
  PROVE  Ledger!LegsOf(c) \subseteq Ledger!Legs
  BY DEF Ledger!TypeOK, Ledger!LegsOf, Ledger!Flows

LEMMA RowTyped ==
  ASSUME NEW c \in Ledger!Contracts, NEW a \in Ledger!Parties, NEW log \in Nat,
         NEW k \in {"MINT", "BURN"}
  PROVE  Ledger!Row(c, a, k, log) \in Ledger!Rows
  BY DEF Ledger!Row, Ledger!Rows

LEMMA TransferRowsTyped ==
  ASSUME Ledger!TypeOK, NEW c \in Tokens, NEW from \in Ledger!Parties,
         NEW to \in Ledger!Parties, NEW value \in Values
  PROVE  Ledger!TransferRows(c, from, to, value) \subseteq Ledger!Rows
  <1>1. c \in Ledger!Contracts /\ at + 1 \in Nat
    BY DEF Ledger!TypeOK, Ledger!Contracts
  <1>2. Ledger!DirectRows(c, from, to) \subseteq Ledger!Rows
    BY <1>1, RowTyped DEF Ledger!DirectRows
  <1>3. Ledger!RoutedBurns(c, from, value) \subseteq Ledger!Rows
    <2>1. \A l \in Ledger!LegsOf(c) : l.from \in Ledger!Parties /\ l.at \in Nat
      BY LegsTyped DEF Ledger!Legs
    <2>. QED
      BY <1>1, <2>1, RowTyped DEF Ledger!RoutedBurns
  <1>4. Ledger!RoutedMints(c, from, to, value) \subseteq Ledger!Rows
    BY <1>1, RowTyped DEF Ledger!RoutedMints
  <1>. QED
    BY <1>2, <1>3, <1>4 DEF Ledger!TransferRows

LEMMA TypeInit == Ledger!Init => Ledger!TypeOK
  BY DEF Ledger!Init, Ledger!TypeOK, Ledger!Flows

\* A holder gives no more than it has.
LEMMA MovesTyped ==
  ASSUME Ledger!TypeOK, NEW c \in Ledger!Contracts, NEW from \in Ledger!Parties,
         NEW to \in Ledger!Parties,
         NEW value \in Values, Ledger!Moves(c, from, to, value)
  PROVE  held' \in [Ledger!Contracts -> [Accounts -> Nat]] /\ issued' \in [Ledger!Contracts -> Int]
  <1>1. held[c] \in [Accounts -> Nat] /\ value \in Nat
    BY DEF Ledger!TypeOK
  <1>2. ASSUME NEW a \in Accounts
        PROVE  held[c][a] + (IF a = to THEN value ELSE 0) - (IF a = from THEN value ELSE 0) \in Nat
    <2>1. held[c][a] \in Nat /\ (a = from => value <= held[c][a])
      BY <1>1 DEF Ledger!Moves
    <2>. QED
      BY <1>1, <2>1
  <1>3. held' \in [Ledger!Contracts -> [Accounts -> Nat]]
    BY <1>2 DEF Ledger!Moves, Ledger!TypeOK
  <1>4. issued' \in [Ledger!Contracts -> Int]
    BY <1>1 DEF Ledger!Moves, Ledger!TypeOK
  <1>. QED
    BY <1>3, <1>4

LEMMA TypeTransfer ==
  ASSUME Ledger!TypeOK, NEW c \in Tokens, NEW from \in Ledger!Parties, NEW to \in Ledger!Parties,
         NEW value \in Values, Ledger!HandleShareTransfer(c, from, to, value)
  PROVE  Ledger!TypeOK'
  <1>. c \in Ledger!Contracts
    BY DEF Ledger!Contracts
  <1>1. at' \in Nat /\ tx' \in Nat /\ at' = at + 1
    BY DEF Ledger!HandleShareTransfer, Ledger!NextLog, Ledger!TypeOK
  <1>2. supply' \in [Ledger!Contracts -> Int]
    BY SidesTyped DEF Ledger!HandleShareTransfer, Ledger!ApplySupplyDelta, Ledger!TypeOK
  <1>3. /\ balance' \in [Ledger!Contracts -> [Accounts -> Int]]
        /\ Ledger!BalanceRows(c, Ledger!Sides(from, to, value)) \subseteq Ledger!Rows
    <2>1. DOMAIN Ledger!Sides(from, to, value) \in SUBSET Ledger!Parties
      BY DEF Ledger!Sides
    <2>. QED
      BY <2>1, SidesTyped, DeltasTyped DEF Ledger!HandleShareTransfer
  <1>4. flow' \in [Tokens -> Ledger!Flows]
    <2>1. CASE to = Zero
      BY <2>1 DEF Ledger!HandleShareTransfer, Ledger!RecordLeg, Ledger!TypeOK
    <2>2. CASE to # Zero
      <3>1. [from |-> from, to |-> to, value |-> value, at |-> at + 1] \in Ledger!Legs
        BY <1>1, <2>2 DEF Ledger!Legs, Ledger!Parties
      <3>. QED
        BY <2>2, <3>1, LegsTyped DEF Ledger!HandleShareTransfer, Ledger!RecordLeg, Ledger!TypeOK,
           Ledger!Flows
    <2>. QED
      BY <2>1, <2>2
  <1>5. transfers' \subseteq Ledger!Transfers
    BY <1>1 DEF Ledger!HandleShareTransfer, Ledger!ShareTransfer, Ledger!Transfers, Ledger!TypeOK
  <1>6. timeline' \subseteq Ledger!Rows
    BY <1>3, TransferRowsTyped DEF Ledger!HandleShareTransfer, Ledger!TypeOK
  <1>7. held' \in [Ledger!Contracts -> [Accounts -> Nat]] /\ issued' \in [Ledger!Contracts -> Int]
    BY MovesTyped DEF Ledger!HandleShareTransfer
  <1>. QED
    BY <1>1, <1>2, <1>3, <1>4, <1>5, <1>6, <1>7 DEF Ledger!TypeOK

LEMMA TypeStake ==
  ASSUME Ledger!TypeOK, NEW c \in Boosts, NEW user \in Accounts, NEW delta \in Int,
         Ledger!HandleBoostStake(c, user, delta)
  PROVE  Ledger!TypeOK'
  <1>. c \in Ledger!Contracts
    BY DEF Ledger!Contracts
  <1>1. at' \in Nat /\ tx' \in Nat
    BY DEF Ledger!HandleBoostStake, Ledger!NextLog, Ledger!TypeOK
  <1>2. held' \in [Ledger!Contracts -> [Accounts -> Nat]]
    <2>1. held[c] \in [Accounts -> Nat] /\ held[c][user] + delta \in Nat
      BY DEF Ledger!TypeOK, Ledger!HandleBoostStake
    <2>. QED
      BY <2>1 DEF Ledger!TypeOK, Ledger!HandleBoostStake
  <1>3. issued' \in [Ledger!Contracts -> Int] /\ supply' \in [Ledger!Contracts -> Int]
    BY DEF Ledger!TypeOK, Ledger!HandleBoostStake, Ledger!ApplySupplyDelta
  <1>4. /\ balance' \in [Ledger!Contracts -> [Accounts -> Int]]
        /\ Ledger!BalanceRows(c, [a \in {user} |-> delta]) \subseteq Ledger!Rows
    <2>1. {user} \in SUBSET Ledger!Parties
      BY DEF Ledger!Parties
    <2>. QED
      BY <2>1, DeltasTyped DEF Ledger!HandleBoostStake
  <1>. QED
    BY <1>1, <1>2, <1>3, <1>4 DEF Ledger!TypeOK, Ledger!HandleBoostStake

LEMMA TypeStep == Ledger!TypeOK /\ [Ledger!Next]_(Ledger!vars) => Ledger!TypeOK'
  <1>. SUFFICES ASSUME Ledger!TypeOK, [Ledger!Next]_(Ledger!vars) PROVE Ledger!TypeOK'
    OBVIOUS
  <1>1. CASE Ledger!NextTransaction
    BY <1>1 DEF Ledger!NextTransaction, Ledger!TypeOK
  <1>2. ASSUME NEW c \in Tokens, NEW from \in Ledger!Parties, NEW to \in Ledger!Parties,
               NEW value \in Values, Ledger!HandleShareTransfer(c, from, to, value)
        PROVE  Ledger!TypeOK'
    BY <1>2, TypeTransfer
  <1>3. ASSUME NEW c \in Boosts, NEW user \in Accounts, NEW amount \in Values,
               Ledger!HandleBoostStake(c, user, amount) \/ Ledger!HandleBoostStake(c, user, -amount)
        PROVE  Ledger!TypeOK'
    BY <1>3, TypeStake, ValuesAreNumbers
  <1>4. CASE UNCHANGED Ledger!vars
    BY <1>4 DEF Ledger!vars, Ledger!chain, Ledger!TypeOK
  <1>. QED
    BY <1>1, <1>2, <1>3, <1>4 DEF Ledger!Next

\* The ledger's variables keep their types, whatever events the chain emits.
THEOREM LedgerTypeCorrect == Ledger!Spec => []Ledger!TypeOK
  BY TypeInit, TypeStep, PTL DEF Ledger!Spec

-----------------------------------------------------------------------------
(* Sums.                                                                   *)

LEMMA SumsTransfer ==
  ASSUME Ledger!TypeOK, Ledger!SumsAreTheChains, NEW c \in Tokens, NEW from \in Ledger!Parties,
         NEW to \in Ledger!Parties, NEW value \in Values, Ledger!HandleShareTransfer(c, from, to, value)
  PROVE  Ledger!SumsAreTheChains'
  <1>. DEFINE deltas == Ledger!Sides(from, to, value)
              changed == [a \in Accounts |-> IF a \in Ledger!Tracked(deltas)
                            THEN balance[c][a] + deltas[a] ELSE balance[c][a]]
              moved == [a \in Accounts |-> held[c][a] + (IF a = to THEN value ELSE 0)
                            - (IF a = from THEN value ELSE 0)]
  <1>. c \in Ledger!Contracts /\ value \in Nat
    BY DEF Ledger!Contracts
  <1>1. ASSUME NEW a \in Accounts PROVE changed[a] = moved[a]
    <2>1. held[c][a] \in Nat /\ balance[c][a] = held[c][a] /\ a # Zero
      BY DEF Ledger!TypeOK, Ledger!SumsAreTheChains
    <2>2. CASE from = to
      <3>1. a \notin Ledger!Tracked(deltas)
        BY <2>2 DEF Ledger!Tracked, Ledger!Sides
      <3>. QED
        BY <2>1, <2>2, <3>1
    <2>3. CASE from # to /\ a \in {from, to}
      <3>1. a \in DOMAIN deltas /\ deltas[a] = IF a = to THEN value ELSE -value
        BY <2>3 DEF Ledger!Sides
      <3>2. a \in Ledger!Tracked(deltas) <=> deltas[a] # 0
        BY <2>1, <3>1 DEF Ledger!Tracked
      <3>. QED
        BY <2>1, <2>3, <3>1, <3>2
    <2>4. CASE from # to /\ a \notin {from, to}
      <3>1. a \notin Ledger!Tracked(deltas)
        BY <2>4 DEF Ledger!Tracked, Ledger!Sides
      <3>. QED
        BY <2>1, <2>4, <3>1
    <2>. QED
      BY <2>2, <2>3, <2>4
  <1>2. changed = moved
    BY <1>1
  <1>3. balance' = [balance EXCEPT ![c] = changed]
    BY DEF Ledger!HandleShareTransfer, Ledger!ApplyBalanceDeltas
  <1>4. held' = [held EXCEPT ![c] = moved]
    BY DEF Ledger!HandleShareTransfer, Ledger!Moves
  <1>5. balance' = held'
    BY <1>2, <1>3, <1>4 DEF Ledger!SumsAreTheChains
  <1>6. supply' = issued'
    <2>1. issued[c] \in Int /\ supply = issued
      BY DEF Ledger!TypeOK, Ledger!SumsAreTheChains
    <2>2. issued[c] + Ledger!SupplyDelta(from, to, value)
            = issued[c] + (IF from = Zero THEN value ELSE 0) - (IF to = Zero THEN value ELSE 0)
      BY <2>1 DEF Ledger!SupplyDelta
    <2>. QED
      BY <2>1, <2>2 DEF Ledger!HandleShareTransfer, Ledger!ApplySupplyDelta, Ledger!Moves
  <1>. QED
    BY <1>5, <1>6 DEF Ledger!SumsAreTheChains

LEMMA SumsStake ==
  ASSUME Ledger!TypeOK, Ledger!SumsAreTheChains, NEW c \in Boosts, NEW user \in Accounts,
         NEW delta \in Int,
         Ledger!HandleBoostStake(c, user, delta)
  PROVE  Ledger!SumsAreTheChains'
  <1>. DEFINE deltas == [a \in {user} |-> delta]
              changed == [a \in Accounts |-> IF a \in Ledger!Tracked(deltas)
                            THEN balance[c][a] + deltas[a] ELSE balance[c][a]]
              moved == [held[c] EXCEPT ![user] = @ + delta]
  <1>. c \in Ledger!Contracts
    BY DEF Ledger!Contracts
  <1>0. held[c] \in [Accounts -> Nat] /\ balance[c] = held[c]
    BY DEF Ledger!TypeOK, Ledger!SumsAreTheChains
  <1>1. ASSUME NEW a \in Accounts PROVE changed[a] = moved[a]
    <2>1. a \in Ledger!Tracked(deltas) <=> a = user /\ delta # 0
      BY DEF Ledger!Tracked
    <2>2. held[c][a] \in Nat /\ held[c][a] + 0 = held[c][a]
      BY <1>0
    <2>. QED
      BY <1>0, <2>1, <2>2
  <1>2. changed = moved
    BY <1>0, <1>1
  <1>3. balance' = [balance EXCEPT ![c] = changed]
    BY DEF Ledger!HandleBoostStake, Ledger!ApplyBalanceDeltas
  <1>4. held' = [held EXCEPT ![c] = moved]
    BY DEF Ledger!HandleBoostStake
  <1>5. balance' = held'
    BY <1>2, <1>3, <1>4 DEF Ledger!SumsAreTheChains
  <1>. QED
    BY <1>5 DEF Ledger!SumsAreTheChains, Ledger!HandleBoostStake, Ledger!ApplySupplyDelta

\* Balance and TokenSupply are what the chain says after every event.
THEOREM SumsCorrect == Ledger!Spec => []SumsAreTheChains
  <1>1. Ledger!Init => Ledger!SumsAreTheChains
    BY DEF Ledger!Init, Ledger!SumsAreTheChains
  <1>2. Ledger!TypeOK /\ Ledger!SumsAreTheChains /\ [Ledger!Next]_(Ledger!vars) => Ledger!SumsAreTheChains'
    <2>. SUFFICES ASSUME Ledger!TypeOK, Ledger!SumsAreTheChains,
        [Ledger!Next]_(Ledger!vars) PROVE Ledger!SumsAreTheChains'
      OBVIOUS
    <2>1. CASE Ledger!NextTransaction
      BY <2>1 DEF Ledger!NextTransaction, Ledger!SumsAreTheChains
    <2>2. ASSUME NEW c \in Tokens, NEW from \in Ledger!Parties, NEW to \in Ledger!Parties,
                 NEW value \in Values, Ledger!HandleShareTransfer(c, from, to, value)
          PROVE  Ledger!SumsAreTheChains'
      BY <2>2, SumsTransfer
    <2>3. ASSUME NEW c \in Boosts, NEW user \in Accounts, NEW amount \in Values,
                 Ledger!HandleBoostStake(c, user, amount) \/ Ledger!HandleBoostStake(c, user, -amount)
          PROVE  Ledger!SumsAreTheChains'
      BY <2>3, SumsStake, ValuesAreNumbers
    <2>4. CASE UNCHANGED Ledger!vars
      BY <2>4 DEF Ledger!vars, Ledger!chain, Ledger!SumsAreTheChains
    <2>. QED
      BY <2>1, <2>2, <2>3, <2>4 DEF Ledger!Next
  <1>. QED
    BY <1>1, <1>2, LedgerTypeCorrect, PTL DEF Ledger!Spec, SumsAreTheChains
-----------------------------------------------------------------------------
(* Attribution.  The handlers know of a transaction only the legs in its    *)
(* token's flow: what makes that enough is that these are exactly its       *)
(* transfers that are not burns, and that nothing recorded lies ahead of    *)
(* the log and the transaction being handled.                               *)

LegOf(e) == [from |-> e.from, to |-> e.to, value |-> e.value, at |-> e.at]
Unburned(c) == {e \in transfers : e.token = c /\ e.tx = tx /\ e.to # Zero}

FlowExact ==
    /\ \A e \in transfers : e.tx <= tx /\ e.at <= at
    /\ \A c \in Tokens : flow[c].tx <= tx /\ Ledger!LegsOf(c) = {LegOf(e) : e \in Unburned(c)}

LEMMA FlowInit == Ledger!Init => FlowExact
  BY DEF Ledger!Init, FlowExact, Ledger!LegsOf, Unburned

LEMMA FlowNextTransaction ==
  ASSUME Ledger!TypeOK, FlowExact, Ledger!NextTransaction
  PROVE  FlowExact'
  <1>1. \A e \in transfers : e.tx <= tx /\ e.tx \in Nat /\ e.at <= at
    BY DEF FlowExact, Ledger!TypeOK, Ledger!Transfers
  <1>2. tx \in Nat /\ tx' = tx + 1 /\ UNCHANGED <<at, flow, transfers>>
    BY DEF Ledger!NextTransaction, Ledger!TypeOK
  <1>3. \A e \in transfers' : e.tx <= tx' /\ e.tx # tx' /\ e.at <= at'
    BY <1>1, <1>2
  <1>4. ASSUME NEW c \in Tokens PROVE flow[c].tx \in Nat /\ flow[c].tx <= tx
    BY DEF FlowExact, Ledger!TypeOK, Ledger!Flows
  <1>5. ASSUME NEW c \in Tokens
        PROVE  flow'[c].tx <= tx' /\ Ledger!LegsOf(c)' = {LegOf(e) : e \in Unburned(c)'}
    <2>1. Unburned(c)' = {}
      BY <1>3 DEF Unburned
    <2>2. flow'[c].tx # tx' /\ flow'[c].tx <= tx'
      BY <1>2, <1>4
    <2>. QED
      BY <2>1, <2>2 DEF Ledger!LegsOf
  <1>. QED
    BY <1>3, <1>5 DEF FlowExact

\* The transfer a handler records.
LEMMA NewTransfer ==
  ASSUME Ledger!TypeOK, FlowExact, NEW c \in Tokens, NEW from \in Ledger!Parties,
         NEW to \in Ledger!Parties,
         NEW value \in Values, Ledger!HandleShareTransfer(c, from, to, value),
         NEW n, n = Ledger!ShareTransfer(c, from, to, value)
  PROVE  /\ transfers' = transfers \cup {n}
         /\ at' = at + 1 /\ tx' = tx /\ at \in Nat /\ tx \in Nat
         /\ n.token = c /\ n.tx = tx /\ n.at = at + 1 /\ n.from = from /\ n.to = to /\ n.value = value
         /\ \A e \in transfers : e.at \in Nat /\ e.at < n.at /\ ~(n.at < e.at)
         /\ n \notin transfers
  <1>1. \A e \in transfers : e.at \in Nat /\ e.at <= at
    BY DEF FlowExact, Ledger!TypeOK, Ledger!Transfers
  <1>2. at \in Nat /\ tx \in Nat /\ at' = at + 1 /\ tx' = tx
    BY DEF Ledger!TypeOK, Ledger!HandleShareTransfer, Ledger!NextLog
  <1>3. n.token = c /\ n.tx = tx /\ n.at = at + 1 /\ n.from = from /\ n.to = to /\ n.value = value
    BY DEF Ledger!ShareTransfer
  <1>. QED
    BY <1>1, <1>2, <1>3 DEF Ledger!HandleShareTransfer

LEMMA FlowTransfer ==
  ASSUME Ledger!TypeOK, FlowExact, NEW c \in Tokens, NEW from \in Ledger!Parties,
         NEW to \in Ledger!Parties,
         NEW value \in Values, Ledger!HandleShareTransfer(c, from, to, value)
  PROVE  FlowExact'
  <1>. DEFINE n == Ledger!ShareTransfer(c, from, to, value)
              leg == [from |-> from, to |-> to, value |-> value, at |-> at + 1]
  <1>1. /\ transfers' = transfers \cup {n} /\ at' = at + 1 /\ tx' = tx /\ at \in Nat /\ tx \in Nat
        /\ n.token = c /\ n.tx = tx /\ n.at = at + 1 /\ n.from = from /\ n.to = to /\ n.value = value
    BY NewTransfer
  <1>2. \A e \in transfers' : e.tx <= tx' /\ e.at <= at'
    <2>1. \A e \in transfers : e.tx \in Nat /\ e.at \in Nat /\ e.tx <= tx /\ e.at <= at
      BY DEF FlowExact, Ledger!TypeOK, Ledger!Transfers
    <2>. QED
      BY <1>1, <2>1
  <1>3. LegOf(n) = leg
    BY <1>1 DEF LegOf
  <1>4. ASSUME NEW d \in Tokens
        PROVE  flow'[d].tx <= tx' /\ Ledger!LegsOf(d)' = {LegOf(e) : e \in Unburned(d)'}
    <2>1. flow[d].tx <= tx /\ Ledger!LegsOf(d) = {LegOf(e) : e \in Unburned(d)}
      BY DEF FlowExact
    <2>2. CASE d # c \/ to = Zero
      <3>1. Unburned(d)' = Unburned(d)
        BY <1>1, <2>2 DEF Unburned
      <3>2. flow'[d] = flow[d]
        BY <2>2 DEF Ledger!HandleShareTransfer, Ledger!RecordLeg, Ledger!TypeOK
      <3>3. Ledger!LegsOf(d)' = Ledger!LegsOf(d)
        BY <1>1, <3>2 DEF Ledger!LegsOf
      <3>. QED
        BY <1>1, <2>1, <3>1, <3>2, <3>3
    <2>3. CASE d = c /\ to # Zero
      <3>1. Unburned(d)' = Unburned(d) \cup {n}
        BY <1>1, <2>3 DEF Unburned
      <3>2. flow'[d] = [tx |-> tx, legs |-> Ledger!LegsOf(c) \cup {leg}]
        BY <2>3 DEF Ledger!HandleShareTransfer, Ledger!RecordLeg, Ledger!TypeOK
      <3>3. Ledger!LegsOf(d)' = Ledger!LegsOf(d) \cup {leg} /\ flow'[d].tx <= tx'
        BY <1>1, <2>3, <3>2 DEF Ledger!LegsOf
      <3>4. {LegOf(e) : e \in Unburned(d)'} = {LegOf(e) : e \in Unburned(d)} \cup {leg}
        BY <1>3, <3>1
      <3>. QED
        BY <2>1, <3>3, <3>4
    <2>. QED
      BY <2>2, <2>3
  <1>. QED
    BY <1>2, <1>4 DEF FlowExact

LEMMA FlowStake ==
  ASSUME Ledger!TypeOK, FlowExact, NEW c \in Boosts, NEW user \in Accounts, NEW delta \in Int,
         Ledger!HandleBoostStake(c, user, delta)
  PROVE  FlowExact'
  <1>1. at \in Nat /\ at' = at + 1 /\ UNCHANGED <<tx, flow, transfers>>
    BY DEF Ledger!TypeOK, Ledger!HandleBoostStake, Ledger!NextLog
  <1>2. \A e \in transfers : e.at \in Nat /\ e.at <= at
    BY DEF Ledger!TypeOK, FlowExact, Ledger!Transfers
  <1>3. \A e \in transfers : e.at <= at'
    BY <1>1, <1>2
  <1>. QED
    BY <1>1, <1>3 DEF FlowExact, Ledger!LegsOf, Unburned

\* The legs a handler looks at, as transfers.
LEMMA LegsAreTransfers ==
  ASSUME FlowExact, NEW c \in Tokens
  PROVE  /\ \A e \in Unburned(c) : LegOf(e) \in Ledger!LegsOf(c)
         /\ \A l \in Ledger!LegsOf(c) : \E e \in Unburned(c) : l = LegOf(e)
  BY DEF FlowExact

\* A transfer recorded later changes nothing about who forwards what.
LEMMA ForwardsKept ==
  ASSUME Ledger!TypeOK, FlowExact, NEW c \in Tokens, NEW from \in Ledger!Parties,
         NEW to \in Ledger!Parties,
         NEW value \in Values, Ledger!HandleShareTransfer(c, from, to, value), NEW e \in transfers
  PROVE  Ledger!Forwards(e)' <=> Ledger!Forwards(e)
  <1>. DEFINE n == Ledger!ShareTransfer(c, from, to, value)
  <1>1. transfers' = transfers \cup {n} /\ ~(n.at < e.at)
    BY NewTransfer
  <1>. QED
    BY <1>1 DEF Ledger!Forwards, Ledger!SameShares

\* The new transfer is marked MINT exactly when the flow says so.
LEMMA NewMint ==
  ASSUME Ledger!TypeOK, FlowExact, NEW c \in Tokens, NEW from \in Ledger!Parties,
         NEW to \in Ledger!Parties,
         NEW value \in Values, Ledger!HandleShareTransfer(c, from, to, value),
         NEW n, n = Ledger!ShareTransfer(c, from, to, value)
  PROVE  Ledger!Forwards(n)' <=>
            /\ from # Zero /\ to # Zero
            /\ \E l \in Ledger!LegsOf(c) : l.from = Zero /\ l.to = from /\ l.value = value
  <1>1. /\ transfers' = transfers \cup {n}
        /\ n.token = c /\ n.tx = tx /\ n.at = at + 1 /\ n.from = from /\ n.to = to /\ n.value = value
        /\ \A e \in transfers : e.at < n.at
        /\ ~(n.at < n.at)
    BY NewTransfer
  <1>2. ASSUME Ledger!Forwards(n)'
        PROVE  /\ from # Zero /\ to # Zero
               /\ \E l \in Ledger!LegsOf(c) : l.from = Zero /\ l.to = from /\ l.value = value
    <2>1. PICK m \in transfers : m.token = c /\ m.tx = tx /\ m.value = value /\ m.from = Zero /\ m.to = from
      BY <1>1, <1>2 DEF Ledger!Forwards, Ledger!SameShares
    <2>2. from # Zero /\ to # Zero
      BY <1>1, <1>2 DEF Ledger!Forwards
    <2>3. m \in Unburned(c)
      BY <2>1, <2>2 DEF Unburned
    <2>4. LegOf(m) \in Ledger!LegsOf(c)
      BY <2>3, LegsAreTransfers
    <2>. QED
      BY <2>1, <2>2, <2>4 DEF LegOf
  <1>3. ASSUME from # Zero, to # Zero, NEW l \in Ledger!LegsOf(c), l.from = Zero, l.to = from,
      l.value = value
        PROVE  Ledger!Forwards(n)'
    <2>1. PICK m \in Unburned(c) : l = LegOf(m)
      BY LegsAreTransfers
    <2>2. m.from = Zero /\ m.to = from /\ m.value = value
      BY <1>3, <2>1 DEF LegOf
    <2>3. m \in transfers' /\ m.token = c /\ m.tx = tx /\ m.at < n.at
      BY <1>1 DEF Unburned
    <2>. QED
      BY <1>1, <1>3, <2>2, <2>3 DEF Ledger!Forwards, Ledger!SameShares
  <1>. QED
    BY <1>2, <1>3

\* A burn marks the senders of its value in the flow; any other transfer marks no one.
LEMMA NewBurns ==
  ASSUME Ledger!TypeOK, FlowExact, NEW c \in Tokens, NEW from \in Ledger!Parties,
         NEW to \in Ledger!Parties,
         NEW value \in Values, Ledger!HandleShareTransfer(c, from, to, value), NEW e \in transfers
  PROVE  Ledger!WithdrawsThrough(e)' <=>
            \/ Ledger!WithdrawsThrough(e)
            \/ to = Zero /\ e \in Unburned(c) /\ e.from # Zero /\ e.to = from /\ e.value = value
  <1>. DEFINE n == Ledger!ShareTransfer(c, from, to, value)
  <1>1. /\ transfers' = transfers \cup {n} /\ e.at < n.at
        /\ n.token = c /\ n.tx = tx /\ n.from = from /\ n.to = to /\ n.value = value
    BY NewTransfer
  <1>2. ASSUME Ledger!WithdrawsThrough(e)'
        PROVE  \/ Ledger!WithdrawsThrough(e)
               \/ to = Zero /\ e \in Unburned(c) /\ e.from # Zero /\ e.to = from /\ e.value = value
    <2>1. PICK b \in transfers' : Ledger!SameShares(b, e) /\ e.at < b.at /\ b.to = Zero /\ b.from = e.to
      BY <1>2 DEF Ledger!WithdrawsThrough
    <2>2. e.from # Zero /\ e.to # Zero
      BY <1>2 DEF Ledger!WithdrawsThrough
    <2>3. CASE b \in transfers
      BY <2>1, <2>2, <2>3 DEF Ledger!WithdrawsThrough
    <2>4. CASE b = n
      BY <1>1, <2>1, <2>2, <2>4 DEF Ledger!SameShares, Unburned
    <2>. QED
      BY <1>1, <2>1, <2>3, <2>4
  <1>3. ASSUME Ledger!WithdrawsThrough(e) PROVE Ledger!WithdrawsThrough(e)'
    BY <1>1, <1>3 DEF Ledger!WithdrawsThrough
  <1>4. ASSUME to = Zero, e \in Unburned(c), e.from # Zero, e.to = from, e.value = value
        PROVE  Ledger!WithdrawsThrough(e)'
    <2>1. n \in transfers' /\ Ledger!SameShares(n, e) /\ e.at < n.at /\ n.to = Zero /\ n.from = e.to
      BY <1>1, <1>4 DEF Ledger!SameShares, Unburned
    <2>. QED
      BY <1>4, <2>1 DEF Ledger!WithdrawsThrough, Unburned
  <1>. QED
    BY <1>2, <1>3, <1>4

\* No burn of the new transfer's value is recorded after it.
LEMMA NewNotWithdrawn ==
  ASSUME Ledger!TypeOK, FlowExact, NEW c \in Tokens, NEW from \in Ledger!Parties,
         NEW to \in Ledger!Parties,
         NEW value \in Values, Ledger!HandleShareTransfer(c, from, to, value),
         NEW n, n = Ledger!ShareTransfer(c, from, to, value)
  PROVE  ~Ledger!WithdrawsThrough(n)'
  <1>1. transfers' = transfers \cup {n} /\ (\A e \in transfers : ~(n.at < e.at)) /\ ~(n.at < n.at)
    <2>1. n.at \in Nat
      BY NewTransfer
    <2>. QED
      BY <2>1, NewTransfer
  <1>. QED
    BY <1>1 DEF Ledger!WithdrawsThrough

\* The rows of the transfers before and after, by kind.
Mints == {Ledger!MintOf(e) : e \in {f \in transfers : f.from = Zero \/ Ledger!Forwards(f)}}
Burns == {Ledger!BurnOf(e) : e \in {f \in transfers : f.to = Zero \/ Ledger!WithdrawsThrough(f)}}

LEMMA MintsTransfer ==
  ASSUME Ledger!TypeOK, FlowExact, NEW c \in Tokens, NEW from \in Ledger!Parties,
         NEW to \in Ledger!Parties,
         NEW value \in Values, Ledger!HandleShareTransfer(c, from, to, value)
  PROVE  Mints' = Mints \cup
            (IF from = Zero \/ (to # Zero /\ Ledger!RoutedMints(c, from, to, value) # {})
             THEN {Ledger!Row(c, to, "MINT", at + 1)} ELSE {})
  <1>. PICK n : n = Ledger!ShareTransfer(c, from, to, value)
    OBVIOUS
  <1>1. /\ transfers' = transfers \cup {n} /\ n.token = c /\ n.at = at + 1 /\ n.from = from /\ n.to = to
    BY NewTransfer
  <1>2. Ledger!MintOf(n) = Ledger!Row(c, to, "MINT", at + 1)
    BY <1>1 DEF Ledger!MintOf
  <1>3. \A e \in transfers : Ledger!Forwards(e)' <=> Ledger!Forwards(e)
    BY ForwardsKept
  <1>4. (n.from = Zero \/ Ledger!Forwards(n)') <=> (from = Zero \/ (to # Zero /\ Ledger!RoutedMints(c, from, to, value) # {}))
    <2>1. Ledger!Forwards(n)' <=> /\ from # Zero /\ to # Zero
                           /\ \E l \in Ledger!LegsOf(c) : l.from = Zero /\ l.to = from /\ l.value = value
      BY NewMint
    <2>. QED
      BY <1>1, <2>1 DEF Ledger!RoutedMints
  <1>5. Mints' = {Ledger!MintOf(e) : e \in {f \in transfers' : f.from = Zero \/ Ledger!Forwards(f)'}}
    BY DEF Mints, Ledger!MintOf, Ledger!Row
  <1>6. {f \in transfers' : f.from = Zero \/ Ledger!Forwards(f)'}
          = {f \in transfers : f.from = Zero \/ Ledger!Forwards(f)}
              \cup (IF n.from = Zero \/ Ledger!Forwards(n)' THEN {n} ELSE {})
    BY <1>1, <1>3
  <1>. QED
    BY <1>2, <1>4, <1>5, <1>6 DEF Mints

LEMMA BurnsTransfer ==
  ASSUME Ledger!TypeOK, FlowExact, NEW c \in Tokens, NEW from \in Ledger!Parties,
         NEW to \in Ledger!Parties,
         NEW value \in Values, Ledger!HandleShareTransfer(c, from, to, value)
  PROVE  Burns' = Burns \cup
            (IF to = Zero THEN {Ledger!Row(c, from, "BURN", at + 1)} \cup Ledger!RoutedBurns(c, from, value) ELSE {})
  <1>. PICK n : n = Ledger!ShareTransfer(c, from, to, value)
    OBVIOUS
  <1>. DEFINE through == {e \in Unburned(c) : e.from # Zero /\ e.to = from /\ e.value = value}
  <1>1. /\ transfers' = transfers \cup {n} /\ n.token = c /\ n.at = at + 1 /\ n.from = from /\ n.to = to
    BY NewTransfer
  <1>2. Ledger!BurnOf(n) = Ledger!Row(c, from, "BURN", at + 1)
    BY <1>1 DEF Ledger!BurnOf
  <1>3. ~Ledger!WithdrawsThrough(n)'
    BY NewNotWithdrawn
  <1>4. \A e \in transfers : Ledger!WithdrawsThrough(e)' <=> Ledger!WithdrawsThrough(e) \/ (to = Zero /\ e \in through)
    <2>. SUFFICES ASSUME NEW e \in transfers
                  PROVE  Ledger!WithdrawsThrough(e)' <=> Ledger!WithdrawsThrough(e) \/ (to = Zero /\ e \in through)
      OBVIOUS
    <2>1. Ledger!WithdrawsThrough(e)' <=>
            \/ Ledger!WithdrawsThrough(e)
            \/ to = Zero /\ e \in Unburned(c) /\ e.from # Zero /\ e.to = from /\ e.value = value
      BY NewBurns
    <2>2. e \in through <=> e \in Unburned(c) /\ e.from # Zero /\ e.to = from /\ e.value = value
      OBVIOUS
    <2>. HIDE DEF through
    <2>. QED
      BY <2>1, <2>2
  <1>5. Burns' = {Ledger!BurnOf(e) : e \in {f \in transfers' : f.to = Zero \/ Ledger!WithdrawsThrough(f)'}}
    BY DEF Burns, Ledger!BurnOf, Ledger!Row
  <1>6. {f \in transfers' : f.to = Zero \/ Ledger!WithdrawsThrough(f)'}
          = {f \in transfers : f.to = Zero \/ Ledger!WithdrawsThrough(f)}
              \cup (IF to = Zero THEN {n} \cup through ELSE {})
    <2>1. through \subseteq transfers
      BY DEF Unburned
    <2>2. CASE to = Zero
      <3>. HIDE DEF through
      <3>. QED
        BY <1>1, <1>3, <1>4, <2>1, <2>2
    <2>3. CASE to # Zero
      <3>. HIDE DEF through
      <3>. QED
        BY <1>1, <1>3, <1>4, <2>3
    <2>. QED
      BY <2>2, <2>3
  <1>7. {Ledger!BurnOf(e) : e \in through} = Ledger!RoutedBurns(c, from, value)
    <2>1. \A e \in through : LegOf(e) \in Ledger!LegsOf(c) /\ e.token = c
      BY LegsAreTransfers DEF Unburned
    <2>2. \A l \in Ledger!LegsOf(c) : l.from # Zero /\ l.to = from /\ l.value = value
            => \E e \in through : l = LegOf(e)
      BY LegsAreTransfers DEF LegOf
    <2>3. \A e \in through : /\ Ledger!BurnOf(e) = Ledger!Row(c, LegOf(e).from, "BURN", LegOf(e).at)
                              /\ LegOf(e).from # Zero /\ LegOf(e).to = from /\ LegOf(e).value = value
      BY <2>1 DEF Ledger!BurnOf, LegOf
    <2>. QED
      BY <2>1, <2>2, <2>3 DEF Ledger!RoutedBurns
  <1>. QED
    BY <1>2, <1>5, <1>6, <1>7 DEF Burns

\* The rows of all transfers, those that change no balance included, and that no two transfers
\* are of one log.
AttributionWhole == Ledger!Attributions = Ledger!Attributed(transfers)
LogsDiffer == \A e, f \in transfers : e.at = f.at => e = f

LEMMA LogsDifferKept ==
  ASSUME Ledger!TypeOK, FlowExact, LogsDiffer, NEW c \in Tokens, NEW from \in Ledger!Parties,
         NEW to \in Ledger!Parties, NEW value \in Values, Ledger!HandleShareTransfer(c, from, to, value)
  PROVE  LogsDiffer'
  <1>. DEFINE n == Ledger!ShareTransfer(c, from, to, value)
  <1>1. transfers' = transfers \cup {n} /\ \A e \in transfers : e.at # n.at
    <2>1. at \in Nat /\ n.at = at + 1 /\ \A e \in transfers : e.at \in Nat /\ e.at < n.at
      BY NewTransfer
    <2>. QED
      BY <2>1, NewTransfer
  <1>. QED
    BY <1>1 DEF LogsDiffer

\* What is left of the rows without the transfers that change no balance.
LEMMA WholeIsExact ==
  ASSUME AttributionWhole, LogsDiffer
  PROVE  Ledger!AttributionExact
  <1>1. \A e \in transfers : Ledger!MintOf(e).at = e.at /\ Ledger!BurnOf(e).at = e.at
    BY DEF Ledger!MintOf, Ledger!BurnOf, Ledger!Row
  <1>2. \A r : \A e \in transfers : r.at = e.at => (Ledger!OfCounted(r) <=> e \in Ledger!Counted)
    BY DEF Ledger!OfCounted, Ledger!Counted, LogsDiffer
  <1>3. Ledger!Counted \subseteq transfers
    BY DEF Ledger!Counted
  <1>4. {r \in Ledger!Attributed(transfers) : Ledger!OfCounted(r)} = Ledger!Attributed(Ledger!Counted)
    <2>1. ASSUME NEW r \in Ledger!Attributed(transfers),
        Ledger!OfCounted(r) PROVE r \in Ledger!Attributed(Ledger!Counted)
      BY <1>1, <1>2, <2>1 DEF Ledger!Attributed
    <2>2. ASSUME NEW r \in Ledger!Attributed(Ledger!Counted) PROVE r \in Ledger!Attributed(transfers) /\ Ledger!OfCounted(r)
      BY <1>1, <1>2, <1>3, <2>2 DEF Ledger!Attributed
    <2>. QED
      BY <2>1, <2>2
  <1>. QED
    BY <1>4 DEF Ledger!AttributionExact, AttributionWhole

LEMMA AttributionTransfer ==
  ASSUME Ledger!TypeOK, FlowExact, AttributionWhole, NEW c \in Tokens, NEW from \in Ledger!Parties,
         NEW to \in Ledger!Parties, NEW value \in Values, Ledger!HandleShareTransfer(c, from, to, value)
  PROVE  AttributionWhole'
  <1>. DEFINE attributed == Ledger!TransferRows(c, from, to, value)
  <1>1. Ledger!Attributed(transfers) = Mints \cup Burns
    BY DEF Ledger!Attributed, Mints, Burns
  <1>2. Ledger!Attributed(transfers)' = Mints' \cup Burns'
    BY DEF Ledger!Attributed, Mints, Burns, Ledger!MintOf, Ledger!BurnOf, Ledger!Row
  <1>3. Ledger!RoutedMints(c, from, to, value) \subseteq {Ledger!Row(c, to, "MINT", at + 1)}
    BY DEF Ledger!RoutedMints
  <1>4. Mints' \cup Burns' = Mints \cup Burns \cup attributed
    <2>1. CASE from = Zero /\ to = Zero
      <3>1. Ledger!RoutedBurns(c, from, value) = {}
        <4>1. \A l \in Ledger!LegsOf(c) : l.to # from
          BY <2>1, LegsTyped DEF Ledger!Legs
        <4>. QED
          BY <4>1 DEF Ledger!RoutedBurns
      <3>. QED
        BY <2>1, <3>1, MintsTransfer, BurnsTransfer DEF Ledger!TransferRows, Ledger!DirectRows
    <2>2. CASE from = Zero /\ to # Zero
      BY <2>2, MintsTransfer, BurnsTransfer DEF Ledger!TransferRows, Ledger!DirectRows
    <2>3. CASE from # Zero /\ to = Zero
      BY <2>3, MintsTransfer, BurnsTransfer DEF Ledger!TransferRows, Ledger!DirectRows
    <2>4. CASE from # Zero /\ to # Zero
      BY <1>3, <2>4, MintsTransfer, BurnsTransfer DEF Ledger!TransferRows, Ledger!DirectRows
    <2>. QED
      BY <2>1, <2>2, <2>3, <2>4
  <1>5. \A r \in attributed : r.kind # "BALANCE"
    BY DEF Ledger!TransferRows, Ledger!DirectRows, Ledger!RoutedBurns, Ledger!RoutedMints, Ledger!Row
  <1>6. \A r \in Ledger!BalanceRows(c, Ledger!Sides(from, to, value)) : r.kind = "BALANCE"
    BY DEF Ledger!BalanceRows, Ledger!BalanceRow, Ledger!Row
  <1>7. timeline' = timeline \cup Ledger!BalanceRows(c, Ledger!Sides(from, to, value)) \cup attributed
    BY DEF Ledger!HandleShareTransfer
  <1>8. {r \in timeline' : r.kind # "BALANCE"} = {r \in timeline : r.kind # "BALANCE"} \cup attributed
    BY <1>5, <1>6, <1>7
  <1>. QED
    BY <1>1, <1>2, <1>4, <1>8 DEF AttributionWhole, Ledger!Attributions

LEMMA AttributionKept ==
  ASSUME AttributionWhole, transfers' = transfers,
         {r \in timeline' : r.kind # "BALANCE"} = {r \in timeline : r.kind # "BALANCE"}
  PROVE  AttributionWhole'
  BY DEF AttributionWhole, Ledger!Attributions, Ledger!Attributed, Ledger!Forwards,
     Ledger!WithdrawsThrough, Ledger!SameShares, Ledger!MintOf, Ledger!BurnOf, Ledger!Row

LEMMA AttributionStake ==
  ASSUME AttributionWhole, NEW c \in Boosts, NEW user \in Accounts, NEW delta \in Int,
         Ledger!HandleBoostStake(c, user, delta)
  PROVE  AttributionWhole'
  <1>1. \A r \in Ledger!BalanceRows(c, [a \in {user} |-> delta]) : r.kind = "BALANCE"
    BY DEF Ledger!BalanceRows, Ledger!BalanceRow, Ledger!Row
  <1>2. /\ timeline' = timeline \cup Ledger!BalanceRows(c, [a \in {user} |-> delta])
        /\ transfers' = transfers
    BY DEF Ledger!HandleBoostStake
  <1>3. {r \in timeline' : r.kind # "BALANCE"} = {r \in timeline : r.kind # "BALANCE"}
    BY <1>1, <1>2
  <1>. QED
    BY <1>2, <1>3, AttributionKept

\* The MINT and BURN rows written log by log are exactly those that the transfers of each
\* transaction call for, for any tokens whose logs interleave.
THEOREM AttributionCorrect == Ledger!Spec => []AttributionExact
  <1>. DEFINE Inv == FlowExact /\ AttributionWhole /\ LogsDiffer
  <1>1. Ledger!Init => Inv
    <2>1. Ledger!Init => AttributionWhole /\ LogsDiffer
      BY DEF Ledger!Init, AttributionWhole, Ledger!Attributions, Ledger!Attributed, LogsDiffer
    <2>. QED
      BY <2>1, FlowInit
  <1>2. Ledger!TypeOK /\ Inv /\ [Ledger!Next]_(Ledger!vars) => Inv'
    <2>. SUFFICES ASSUME Ledger!TypeOK, Inv, [Ledger!Next]_(Ledger!vars) PROVE Inv'
      OBVIOUS
    <2>1. CASE Ledger!NextTransaction
      <3>1. transfers' = transfers /\ timeline' = timeline
        BY <2>1 DEF Ledger!NextTransaction
      <3>2. AttributionWhole' /\ LogsDiffer'
        BY <3>1, AttributionKept DEF LogsDiffer
      <3>. QED
        BY <2>1, <3>2, FlowNextTransaction
    <2>2. ASSUME NEW c \in Tokens, NEW from \in Ledger!Parties, NEW to \in Ledger!Parties,
                 NEW value \in Values, Ledger!HandleShareTransfer(c, from, to, value)
          PROVE  Inv'
      BY <2>2, FlowTransfer, AttributionTransfer, LogsDifferKept
    <2>3. ASSUME NEW c \in Boosts, NEW user \in Accounts, NEW amount \in Values,
                 Ledger!HandleBoostStake(c, user, amount) \/ Ledger!HandleBoostStake(c, user, -amount)
          PROVE  Inv'
      <3>1. transfers' = transfers
        BY <2>3 DEF Ledger!HandleBoostStake
      <3>. QED
        BY <2>3, <3>1, FlowStake, AttributionStake, ValuesAreNumbers DEF LogsDiffer
    <2>4. CASE UNCHANGED Ledger!vars
      <3>1. transfers' = transfers /\ timeline' = timeline
        BY <2>4 DEF Ledger!vars
      <3>2. AttributionWhole' /\ LogsDiffer'
        BY <3>1, AttributionKept DEF LogsDiffer
      <3>3. FlowExact'
        BY <2>4 DEF Ledger!vars, Ledger!chain, FlowExact, Ledger!LegsOf, Unburned
      <3>. QED
        BY <3>2, <3>3
    <2>. QED
      BY <2>1, <2>2, <2>3, <2>4 DEF Ledger!Next
  <1>3. Inv => Ledger!AttributionExact
    BY WholeIsExact
  <1>. QED
    BY <1>1, <1>2, <1>3, LedgerTypeCorrect, PTL DEF Ledger!Spec, AttributionExact

-----------------------------------------------------------------------------
(* The BALANCE rows of an account are its step function.  A new row comes   *)
(* after all there are, so it is the last of its account and changes what   *)
(* no older row follows.                                                    *)

StepsBounded == \A r \in timeline : r.kind = "BALANCE" => r.at <= at

LEMMA LastIsNew ==
  ASSUME NEW S, NEW n, n.at \in Nat, \A s \in S : s.at \in Nat /\ s.at < n.at
  PROVE  Ledger!LastOf(S \cup {n}) = n.after
  <1>. DEFINE Latest(s) == \A t \in S \cup {n} : t.at <= s.at
  <1>1. n \in S \cup {n} /\ Latest(n)
    OBVIOUS
  <1>2. \A s \in S \cup {n} : Latest(s) => s = n
    OBVIOUS
  <1>3. (CHOOSE s \in S \cup {n} : Latest(s)) = n
    <2>. HIDE DEF Latest
    <2>. QED
      BY <1>1, <1>2
  <1>. QED
    BY <1>3 DEF Ledger!LastOf

\* The rows of one account before and after an event.
LEMMA StepsAfter ==
  ASSUME Ledger!TypeOK, Ledger!StepFunction, StepsBounded, NEW c \in Ledger!Contracts, NEW deltas,
         \A a \in Ledger!Tracked(deltas) : deltas[a] \in Int, Ledger!ApplyBalanceDeltas(c, deltas),
         at' = at + 1, NEW other, \A r \in other : r.kind # "BALANCE",
         timeline' = timeline \cup Ledger!BalanceRows(c, deltas) \cup other,
         NEW d \in Ledger!Contracts, NEW a \in Accounts
  PROVE  /\ balance'[d][a] = Ledger!LastOf(Ledger!StepsOf(d, a)')
         /\ \A r \in Ledger!StepsOf(d, a)' : r.after = Ledger!LastOf(Ledger!BeforeStep(r)') + r.delta
  <1>0. \A r \in Ledger!StepsOf(d, a) : /\ r.contract = d /\ r.account = a /\ r.kind = "BALANCE"
                                 /\ r \in timeline /\ r.at \in Nat /\ r.at <= at
    BY DEF Ledger!StepsOf, StepsBounded, Ledger!TypeOK, Ledger!Rows
  <1>. at \in Nat
    BY DEF Ledger!TypeOK
  <1>1. \A r \in Ledger!BalanceRows(c, deltas) : r.at = at + 1 /\ r.contract = c
    BY DEF Ledger!BalanceRows, Ledger!BalanceRow, Ledger!Row
  <1>2. ASSUME NEW r \in Ledger!StepsOf(d, a)
        PROVE  Ledger!BeforeStep(r)' = Ledger!BeforeStep(r)
    BY <1>0, <1>1 DEF Ledger!BeforeStep, Ledger!StepsOf
  <1>3. \A r \in Ledger!StepsOf(d, a) : r.after = Ledger!LastOf(Ledger!BeforeStep(r)) + r.delta
    BY DEF Ledger!StepFunction
  <1>4. balance[d][a] = Ledger!LastOf(Ledger!StepsOf(d, a))
    BY DEF Ledger!StepFunction
  <1>5. CASE d = c /\ a \in Ledger!Tracked(deltas)
    <2>1. PICK n : n = Ledger!BalanceRow(c, a, deltas[a])
      OBVIOUS
    <2>2. /\ n.contract = c /\ n.account = a /\ n.kind = "BALANCE" /\ n.at = at + 1
          /\ n.delta = deltas[a] /\ n.after = balance[c][a] + deltas[a]
      BY <2>1 DEF Ledger!BalanceRow, Ledger!Row
    <2>3. Ledger!StepsOf(d, a)' = Ledger!StepsOf(d, a) \cup {n}
      <3>1. \A r \in Ledger!BalanceRows(c, deltas) : r.account = a => r = n
        BY <2>1 DEF Ledger!BalanceRows, Ledger!BalanceRow, Ledger!Row
      <3>2. n \in Ledger!BalanceRows(c, deltas)
        BY <1>5, <2>1 DEF Ledger!BalanceRows
      <3>. QED
        BY <1>1, <1>5, <2>2, <3>1, <3>2 DEF Ledger!StepsOf
    <2>4. Ledger!BeforeStep(n)' = Ledger!StepsOf(d, a)
      BY <1>0, <1>5, <2>2, <2>3 DEF Ledger!BeforeStep, Ledger!StepsOf
    <2>5. Ledger!LastOf(Ledger!StepsOf(d, a)') = n.after
      <3>1. n.at \in Nat /\ \A s \in Ledger!StepsOf(d, a) : s.at \in Nat /\ s.at < n.at
        BY <1>0, <2>2
      <3>2. Ledger!LastOf(Ledger!StepsOf(d, a) \cup {n}) = n.after
        BY <3>1, LastIsNew
      <3>. QED
        BY <2>3, <3>2
    <2>6. balance'[d][a] = balance[d][a] + deltas[a]
      BY <1>5 DEF Ledger!ApplyBalanceDeltas, Ledger!TypeOK
    <2>7. n.after = Ledger!LastOf(Ledger!BeforeStep(n)') + n.delta
      BY <1>4, <1>5, <2>2, <2>4
    <2>8. \A r \in Ledger!StepsOf(d, a) : r.after = Ledger!LastOf(Ledger!BeforeStep(r)') + r.delta
      BY <1>2, <1>3
    <2>. QED
      BY <1>5, <2>2, <2>3, <2>5, <2>6, <2>7, <2>8
  <1>6. CASE ~(d = c /\ a \in Ledger!Tracked(deltas))
    <2>1. Ledger!StepsOf(d, a)' = Ledger!StepsOf(d, a)
      <3>1. \A r \in Ledger!BalanceRows(c, deltas) : r.account \in Ledger!Tracked(deltas)
        BY DEF Ledger!BalanceRows, Ledger!BalanceRow, Ledger!Row
      <3>. QED
        BY <1>1, <1>6, <3>1 DEF Ledger!StepsOf
    <2>2. balance'[d][a] = balance[d][a]
      BY <1>6 DEF Ledger!ApplyBalanceDeltas, Ledger!TypeOK
    <2>. QED
      BY <1>2, <1>3, <1>4, <2>1, <2>2
  <1>. QED
    BY <1>5, <1>6

LEMMA StepsExtend ==
  ASSUME Ledger!TypeOK, Ledger!StepFunction, StepsBounded, NEW c \in Ledger!Contracts, NEW deltas,
         \A a \in Ledger!Tracked(deltas) : deltas[a] \in Int, Ledger!ApplyBalanceDeltas(c, deltas),
         at' = at + 1, NEW other, \A r \in other : r.kind # "BALANCE",
         timeline' = timeline \cup Ledger!BalanceRows(c, deltas) \cup other
  PROVE  Ledger!StepFunction' /\ StepsBounded'
  <1>1. Ledger!StepFunction'
    <2>1. \A d \in Ledger!Contracts, a \in Accounts :
            /\ balance'[d][a] = Ledger!LastOf(Ledger!StepsOf(d, a)')
            /\ \A r \in Ledger!StepsOf(d, a)' : r.after = Ledger!LastOf(Ledger!BeforeStep(r)') + r.delta
      BY StepsAfter
    <2>. QED
      BY <2>1 DEF Ledger!StepFunction, Ledger!LastOf
  <1>2. StepsBounded'
    <2>1. \A r \in Ledger!BalanceRows(c, deltas) : r.at = at + 1
      BY DEF Ledger!BalanceRows, Ledger!BalanceRow, Ledger!Row
    <2>2. \A r \in timeline : r.at \in Nat
      BY DEF Ledger!TypeOK, Ledger!Rows
    <2>. QED
      BY <2>1, <2>2 DEF StepsBounded, Ledger!TypeOK
  <1>. QED
    BY <1>1, <1>2

LEMMA StepsTransfer ==
  ASSUME Ledger!TypeOK, Ledger!StepFunction, StepsBounded, NEW c \in Tokens,
         NEW from \in Ledger!Parties,
         NEW to \in Ledger!Parties, NEW value \in Values, Ledger!HandleShareTransfer(c, from, to, value)
  PROVE  Ledger!StepFunction' /\ StepsBounded'
  <1>1. \A a \in Ledger!Tracked(Ledger!Sides(from, to, value)) : Ledger!Sides(from, to, value)[a] \in Int
    BY SidesTyped DEF Ledger!Tracked
  <1>2. \A r \in Ledger!TransferRows(c, from, to, value) : r.kind # "BALANCE"
    BY DEF Ledger!TransferRows, Ledger!DirectRows, Ledger!RoutedBurns, Ledger!RoutedMints, Ledger!Row
  <1>3. /\ Ledger!ApplyBalanceDeltas(c, Ledger!Sides(from, to, value)) /\ at' = at + 1 /\ c \in Ledger!Contracts
        /\ timeline' = timeline \cup Ledger!BalanceRows(c, Ledger!Sides(from, to, value))
                                \cup Ledger!TransferRows(c, from, to, value)
    BY DEF Ledger!HandleShareTransfer, Ledger!NextLog, Ledger!Contracts
  <1>. QED
    BY <1>1, <1>2, <1>3, StepsExtend

LEMMA StepsStake ==
  ASSUME Ledger!TypeOK, Ledger!StepFunction, StepsBounded, NEW c \in Boosts, NEW user \in Accounts,
         NEW delta \in Int, Ledger!HandleBoostStake(c, user, delta)
  PROVE  Ledger!StepFunction' /\ StepsBounded'
  <1>. DEFINE deltas == [a \in {user} |-> delta]
  <1>1. \A a \in Ledger!Tracked(deltas) : deltas[a] \in Int
    BY DEF Ledger!Tracked
  <1>2. /\ Ledger!ApplyBalanceDeltas(c, deltas) /\ at' = at + 1 /\ c \in Ledger!Contracts
        /\ timeline' = timeline \cup Ledger!BalanceRows(c, deltas) \cup {}
    BY DEF Ledger!HandleBoostStake, Ledger!NextLog, Ledger!Contracts
  <1>. HIDE DEF deltas
  <1>. QED
    BY <1>1, <1>2, StepsExtend

\* The BALANCE rows of an account are its step function (applyBalanceDeltas): each starts
\* where the one before it left the balance, and the last is its Balance.
THEOREM StepsCorrect == Ledger!Spec => []StepFunction
  <1>. DEFINE Inv == Ledger!StepFunction /\ StepsBounded
  <1>1. Ledger!Init => Inv
    BY DEF Ledger!Init, Ledger!StepFunction, StepsBounded, Ledger!StepsOf, Ledger!LastOf
  <1>2. Ledger!TypeOK /\ Inv /\ [Ledger!Next]_(Ledger!vars) => Inv'
    <2>. SUFFICES ASSUME Ledger!TypeOK, Inv, [Ledger!Next]_(Ledger!vars) PROVE Inv'
      OBVIOUS
    <2>1. CASE Ledger!NextTransaction \/ UNCHANGED Ledger!vars
      <3>1. UNCHANGED <<at, balance, timeline>>
        BY <2>1 DEF Ledger!NextTransaction, Ledger!vars, Ledger!chain
      <3>. QED
        BY <3>1 DEF Ledger!StepFunction, StepsBounded, Ledger!StepsOf, Ledger!BeforeStep, Ledger!LastOf
    <2>2. ASSUME NEW c \in Tokens, NEW from \in Ledger!Parties, NEW to \in Ledger!Parties,
                 NEW value \in Values, Ledger!HandleShareTransfer(c, from, to, value)
          PROVE  Inv'
      BY <2>2, StepsTransfer
    <2>3. ASSUME NEW c \in Boosts, NEW user \in Accounts, NEW amount \in Values,
                 Ledger!HandleBoostStake(c, user, amount) \/ Ledger!HandleBoostStake(c, user, -amount)
          PROVE  Inv'
      BY <2>3, StepsStake, ValuesAreNumbers
    <2>. QED
      BY <2>1, <2>2, <2>3 DEF Ledger!Next
  <1>. QED
    BY <1>1, <1>2, LedgerTypeCorrect, PTL DEF Ledger!Spec, StepFunction
=============================================================================
