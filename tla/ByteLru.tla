-------------------------------- MODULE ByteLru --------------------------------
(***************************************************************************)
(* The API's cache of built timelines (apps/api/src/http/lru.ts): bounded  *)
(* by bytes, least recently used first out, and three lifetimes of an      *)
(* entry.  The Map, which iterates in insertion order, is a sequence, least *)
(* recently used first.  The clock only decides which lifetime an entry is *)
(* in: Age moves one entry on, at any time.                                *)
(***************************************************************************)
EXTENDS Integers, Sequences, SequencesExt

CONSTANTS Keys, Values, MaxBytes

VARIABLES
    entries,        \* the cached entries, least recently used first
    used            \* the bytes counted

vars == <<entries, used>>

\* What a lookup says of an entry; "gone" is one past its last lifetime, still counted until
\* a lookup or an eviction drops it.
Lives == {"fresh", "stale", "error-only", "gone"}
Entry == [key : Keys, value : Values, bytes : Nat, life : Lives]

TypeOK ==
    /\ entries \in Seq(Entry)
    /\ used \in Nat

Init ==
    /\ entries = <<>>
    /\ used = 0

PlaceOf(k) == CHOOSE i \in DOMAIN entries : entries[i].key = k
Has(k) == \E i \in DOMAIN entries : entries[i].key = k
EntryOf(k) == entries[PlaceOf(k)]

\* The state a lookup finds k in; a key that is not there is as good as gone.
LifeOf(k) == IF Has(k) THEN EntryOf(k).life ELSE "gone"

WithoutNothing(k) == entries
Without(k) == IF Has(k) THEN RemoveAt(entries, PlaceOf(k)) ELSE entries
BytesOf(k) == IF Has(k) THEN EntryOf(k).bytes ELSE 0
Bytes(s) ==
    LET sum[n \in 0..Len(s)] == IF n = 0 THEN 0 ELSE sum[n - 1] + s[n].bytes
    IN  sum[Len(s)]

\* get: drops an entry past its lifetimes, and moves another to the end.
Get(k) ==
    IF ~Has(k) THEN UNCHANGED vars
    ELSE IF EntryOf(k).life = "gone"
         THEN entries' = Without(k) /\ used' = used - BytesOf(k)
         ELSE entries' = Append(Without(k), EntryOf(k)) /\ UNCHANGED used

OverBudget(total) == total > MaxBytes

\* set, of a value that fits: the oldest entries go until the rest is within the budget,
\* or until none is left.
Store(k, value, bytes) ==
    LET all == Append(Without(k), [key |-> k, value |-> value, bytes |-> bytes, life |-> "fresh"])
        Left(n) == used - BytesOf(k) + bytes - Bytes(SubSeq(all, 1, n))
    IN  \E evicted \in 0..Len(all) :
            /\ ~OverBudget(Left(evicted)) \/ evicted = Len(all)
            /\ \A m \in 0..(evicted - 1) : OverBudget(Left(m))
            /\ entries' = SubSeq(all, evicted + 1, Len(all))
            /\ used' = Left(evicted)

\* set: one larger than the whole cache replaces the old value with nothing.
Set(k, value, bytes) ==
    IF bytes > MaxBytes
    THEN entries' = Without(k) /\ used' = used - BytesOf(k)
    ELSE Store(k, value, bytes)

\* Time passes for an entry.  staleMs may be 0: then there is no stale lifetime.
NextLives(life) ==
    CASE life = "fresh" -> {"stale", "error-only"}
      [] life = "stale" -> {"error-only"}
      [] life = "error-only" -> {"gone"}
      [] life = "gone" -> {}

Age ==
    /\ \E i \in DOMAIN entries : \E life \in NextLives(entries[i].life) :
        entries' = [entries EXCEPT ![i].life = life]
    /\ UNCHANGED used

-----------------------------------------------------------------------------
\* "a cache bounded by bytes" (lru.ts:8): the entries never take more than the budget.  It
\* is the counter that the evictions go by, so the counter is what the entries take.
WithinBudget == used = Bytes(entries) /\ used <= MaxBytes

\* A key has one entry, so dropping it once forgets it.
OneEntryPerKey == \A i, j \in DOMAIN entries : entries[i].key = entries[j].key => i = j
=============================================================================
