---------------------------- MODULE TimelineBuild ----------------------------
(***************************************************************************)
(* From the rows of an account to the items of its timeline: the sort of   *)
(* apps/api/src/timeline/repository.ts and buildTimeline of build.ts, one  *)
(* item per transaction and product, newest first.                         *)
(*                                                                         *)
(* The rows are what the indexer writes for the moves the account makes on *)
(* one chain; what it really holds and does is kept beside them.  Prices   *)
(* and formats are left out.                                               *)
(***************************************************************************)
EXTENDS Integers, Sequences, SequencesExt

CONSTANTS
    Products,       \* CLM managers, each a share token with a boost of its own
    MaxRows,        \* bound on the account's rows
    MaxSecond,      \* bound on the chain's clock
    SameSecond      \* whether blocks may share a second

BuildAssumption == MaxRows \in Nat /\ MaxSecond \in Nat /\ SameSecond \in BOOLEAN

VARIABLES
    second, block, log, trx,    \* where the chain is
    rows,       \* the account's TimelineEvent rows, as they were written
    shares,     \* what the account holds of each contract
    heldAfter,  \* ... and held after each transaction
    done        \* the moves of each transaction

chain == <<second, block, log, trx>>
vars == <<chain, rows, shares, heldAfter, done>>

Share(p) == <<p, "share">>
Boost(p) == <<p, "boost">>
Contracts == Products \X {"share", "boost"}
ProductOf(c) == c[1]
HeldOf(p, held) == held[Share(p)] + held[Boost(p)]

Init ==
    /\ second = 1 /\ block = 1 /\ log = 0 /\ trx = 1
    /\ rows = <<>>
    /\ shares = [c \in Contracts |-> 0]
    /\ heldAfter = <<shares>>
    /\ done = <<{}>>

-----------------------------------------------------------------------------
(* The account's moves and their rows.                                     *)

Row(kind, c, source, delta, at) ==
    [second |-> second, block |-> block, log |-> log + at, trx |-> trx, kind |-> kind,
     contract |-> c, source |-> source, delta |-> delta, after |-> shares[c] + delta]
Moved(c, delta, at) == Row("BALANCE", c, "TRANSFER", delta, at)
Staked(c, delta, at) == Row("BALANCE", c, "BOOST_STAKE", delta, at)
Told(kind, c, at) == [Row(kind, c, "", 0, at) EXCEPT !.after = 0]

\* The rows of each kind of move: a share token's transfer and its MINT or BURN are one log.
RowsOf(move, p) ==
    CASE move = "deposit" -> <<Moved(Share(p), 1, 1), Told("MINT", Share(p), 1), Told("CLM_DEPOSIT", Share(p), 2)>>
      [] move = "withdraw" -> <<Moved(Share(p), -1, 1), Told("BURN", Share(p), 1), Told("CLM_WITHDRAW", Share(p), 2)>>
      [] move = "stake" -> <<Moved(Share(p), -1, 1), Staked(Boost(p), 1, 2)>>
      [] move = "unstake" -> <<Staked(Boost(p), -1, 1), Moved(Share(p), 1, 2)>>
      [] move = "transfer_in" -> <<Moved(Share(p), 1, 1)>>
      [] move = "transfer_out" -> <<Moved(Share(p), -1, 1)>>
      [] move = "claim" -> <<Told("CLAIM", Boost(p), 1)>>
Transfers == {"transfer_in", "transfer_out"}
Moves == Transfers \cup {"deposit", "withdraw", "stake", "unstake", "claim"}

IsBalance(r) == r.kind = "BALANCE"
DiffOf(s) == FoldLeft(LAMBDA sum, r : sum + r.delta, 0, s)

Do(move, p) ==
    LET new == RowsOf(move, p)
        held == [c \in Contracts |-> shares[c] + DiffOf(SelectSeq(new, LAMBDA r : r.contract = c))]
    IN  /\ Len(rows) + Len(new) <= MaxRows
        /\ \A c \in Contracts : held[c] >= 0
        /\ rows' = rows \o new
        /\ log' = Last(new).log
        /\ shares' = held
        /\ heldAfter' = [heldAfter EXCEPT ![trx] = held]
        /\ done' = [done EXCEPT ![trx] = @ \cup {<<move, p>>}]
        /\ UNCHANGED <<second, block, trx>>

\* The account's next transaction: in this block, or in a later one, whose logs count from 0.
NextTransaction ==
    /\ done[trx] # {}
    /\ trx' = trx + 1
    /\ heldAfter' = Append(heldAfter, shares)
    /\ done' = Append(done, {})
    /\ \/ UNCHANGED <<second, block, log>>
       \/ /\ second' \in {second + 1} \cup (IF SameSecond THEN {second} ELSE {})
          /\ second' <= MaxSecond
          /\ block' = block + 1
          /\ log' = 0
    /\ UNCHANGED <<rows, shares>>

Next == (\E move \in Moves, p \in Products : Do(move, p)) \/ NextTransaction

Spec == Init /\ [][Next]_vars

-----------------------------------------------------------------------------
(* repository.ts                                                           *)

\* chronological.
ByLog(r, s) == r.log < s.log
Chronological(r, s) == r.second < s.second \/ (r.second = s.second /\ r.log < s.log)

\* rows(account): the query's are in no order; rows that compare equal stay as they came.
Read == SortSeq(rows, Chronological)

-----------------------------------------------------------------------------
(* build.ts                                                                *)

\* What a change of a boost's balance was; the first is a build that reads each one as a stake.
AlwaysStake(r) == "stake"
StakeAction(r) == IF r.delta > 0 THEN "stake" ELSE "unstake"

\* actionsOf.
ActionOf(r) ==
    CASE r.kind \in {"CLM_DEPOSIT", "MINT"} -> {"deposit"}
      [] r.kind \in {"CLM_WITHDRAW", "BURN"} -> {"withdraw"}
      [] r.kind = "CLAIM" -> {"claim"}
      [] r.kind = "BALANCE" /\ r.delta = 0 -> {}
      [] r.kind = "BALANCE" /\ r.source = "BOOST_STAKE" -> {StakeAction(r)}
      [] OTHER -> {IF r.delta > 0 THEN "transfer_in" ELSE "transfer_out"}
ActionsWithTransfers(group) == UNION {ActionOf(group[i]) : i \in DOMAIN group}
ActionsOf(group) ==
    LET unique == ActionsWithTransfers(group)
    IN  unique \ ((IF unique \cap {"deposit", "unstake"} # {} THEN {"transfer_in"} ELSE {})
                    \cup (IF unique \cap {"withdraw", "stake"} # {} THEN {"transfer_out"} ELSE {}))

\* The groups of the rows read, with the product's balance after the last row of each.
SameGroup(g, r) == g.trx = r.trx /\ g.product = ProductOf(r.contract)
OwnBalance(balances, r) == [balances EXCEPT ![ProductOf(r.contract)] = IF IsBalance(r) THEN r.after ELSE @]
Balance(balances, r) == [balances EXCEPT ![ProductOf(r.contract)] = IF IsBalance(r) THEN @ + r.delta ELSE @]
Grouped(state, r) ==
    LET balances == Balance(state.balances, r)
        after == balances[ProductOf(r.contract)]
        own == {i \in DOMAIN state.groups : SameGroup(state.groups[i], r)}
    IN  [balances |-> balances,
         groups |->
            IF own = {}
            THEN Append(state.groups,
                        [trx |-> r.trx, product |-> ProductOf(r.contract), rows |-> <<r>>, after |-> after])
            ELSE [i \in DOMAIN state.groups |->
                    IF i \in own
                    THEN [state.groups[i] EXCEPT !.rows = Append(@, r), !.after = after]
                    ELSE state.groups[i]]]
Groups(read) ==
    FoldLeft(Grouped, [balances |-> [p \in Products |-> 0], groups |-> <<>>], read).groups

\* The item of a group; the contracts of its BALANCE rows, each with its last balance.
ItemOf(g) ==
    LET moved == SelectSeq(g.rows, IsBalance)
        of(c) == SelectSeq(moved, LAMBDA r : r.contract = c)
    IN  [trx |-> g.trx,
         product |-> g.product,
         second |-> Last(g.rows).second,
         actions |-> ActionsOf(g.rows),
         balance |-> g.after,
         delta |-> DiffOf(moved),
         contracts |-> [c \in {moved[i].contract : i \in DOMAIN moved} |->
                            [balance |-> Last(of(c)).after, diff |-> DiffOf(of(c))]]]

BuildOldestFirst(groups) == [i \in DOMAIN groups |-> ItemOf(groups[i])]
BuildTimeline(groups) == [i \in DOMAIN groups |-> ItemOf(groups[Len(groups) + 1 - i])]
Timeline == BuildTimeline(Groups(Read))

-----------------------------------------------------------------------------
\* "Shares held across the product after this transaction" (routes/timeline.ts:30), and held
\* of each of its contracts: what the account really held then, with the rows read in no order.
BalancesAfter ==
    \A item \in Range(Timeline) :
        LET held == heldAfter[item.trx]
        IN  /\ item.balance = HeldOf(item.product, held)
            /\ \A c \in DOMAIN item.contracts : item.contracts[c].balance = held[c]

\* "newest first" (routes/timeline.ts:71), one item for each product a transaction touched:
\* none is missing or split, and the changes told add up to what is held.
KeyOf(item) == <<item.trx, item.product>>
NewestFirst ==
    LET items == Timeline
    IN  /\ \A i, j \in DOMAIN items : i < j =>
            /\ items[i].trx >= items[j].trx
            /\ KeyOf(items[i]) # KeyOf(items[j])
        /\ {KeyOf(item) : item \in Range(items)} = UNION {{<<t, m[2]>> : m \in done[t]} : t \in DOMAIN done}
        /\ \A p \in Products : HeldOf(p, shares) = DiffOf(SelectSeq(items, LAMBDA item : item.product = p))

\* Each item names every deposit, withdrawal, stake, unstake and claim of its transaction and
\* nothing that was not done: the transfers inside a stake, a mint or a burn are not told.
ActionsTold ==
    \A item \in Range(Timeline) :
        LET moves == {m[1] : m \in {d \in done[item.trx] : d[2] = item.product}}
        IN  item.actions \subseteq moves /\ moves \ Transfers \subseteq item.actions
=============================================================================
