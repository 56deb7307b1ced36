----------------------------- MODULE RegistryProofs -----------------------------
(***************************************************************************)
(* The registry's guarantees for any addresses and any chain, whatever     *)
(* reads fail and in whichever order contracts register: price facts are   *)
(* right, complete facts stay complete, a stake is priced as its product   *)
(* is known, and nothing known is forgotten.                               *)
(*                                                                         *)
(* The argument: a row's established kind is the contract's true one and   *)
(* never changes, so facts copied from a product's row under its kind stay *)
(* true; and a product that is known was asked for as a token, so that no  *)
(* other row of the same step changes what it is priced by.                *)
(***************************************************************************)
EXTENDS Registry, TLAPS

USE RegistryAssumption DEF RegistryAssumption

\* PriceFactsSound of one row, by the kinds of the rows rs.
Sound(rs, a, row) ==
    /\ row.decimals = NoAddress <=> row.productKind = NoKind
    /\ row.product # NoAddress =>
        row.product = IF row.kind \in ProductKinds THEN a
                      ELSE chain.target[a][PricingRelation(row.kind)]
    /\ row.decimals # NoAddress =>
        /\ row.product # NoAddress
        /\ IF row.productKind = "UNKNOWN"
           THEN row.kind = "REWARD_POOL" /\ row.decimals = row.product
           ELSE /\ row.productKind = rs[row.product].kind
                /\ row.decimals = TrueDecimals(row.product)

\* Rows whose established kind is the contract's own, that name a product only if they are a
\* product or a stake, and whose price facts are sound.
GoodRows(rs) ==
    /\ rs \in [Addresses -> Row \cup {NoRow}]
    /\ \A a \in Addresses :
        /\ rs[a].kind \in {NoKind, "UNKNOWN", chain.kind[a]}
        /\ rs[a].product # NoAddress => rs[a].kind \in ProductKinds \cup Stakes
        /\ Sound(rs, a, rs[a])

Inv == TypeOK /\ GoodRows(rows)

LEMMA InvSound == Inv => PriceFactsSound
  BY DEF Inv, GoodRows, PriceFactsSound, Sound

-----------------------------------------------------------------------------
(* The kinds and their links.                                              *)

LEMMA KindFacts ==
    /\ Stakes \cup ProductKinds \subseteq KnownKinds
    /\ "UNKNOWN" \in Kinds /\ NoKind \notin Kinds
    /\ Stakes \cap ProductKinds = {}
  BY DEF Kinds, KnownKinds, LinksOf, Stakes, ProductKinds, NoKind

LEMMA PricingLinks ==
    ASSUME NEW k \in Stakes \cup {"VAULT"}
    PROVE  PricingRelation(k) \in LinksOf[k] /\ PricingRelation(k) \in Relations
<1>1. CASE k = "BOOST"
  <2>1. "BOOST_STAKED" \in LinksOf["BOOST"] /\ "BOOST" \in Kinds
    BY DEF LinksOf, Kinds
  <2> QED  BY <1>1, <2>1 DEF PricingRelation, Relations
<1>2. CASE k = "REWARD_POOL"
  <2>1. "REWARD_POOL_STAKED" \in LinksOf["REWARD_POOL"] /\ "REWARD_POOL" \in Kinds
    BY DEF LinksOf, Kinds
  <2> QED  BY <1>2, <2>1 DEF PricingRelation, Relations
<1>3. CASE k = "VAULT"
  <2>1. "VAULT_WANT" \in LinksOf["VAULT"] /\ "VAULT" \in Kinds
    BY DEF LinksOf, Kinds
  <2> QED  BY <1>3, <2>1 DEF PricingRelation, Relations
<1> QED  BY <1>1, <1>2, <1>3 DEF Stakes

\* What a stake or a vault is priced by is another address.
LEMMA PricingTarget ==
    ASSUME chain \in Chains, NEW a \in Addresses, NEW k \in Stakes \cup {"VAULT"},
           chain.kind[a] = k
    PROVE  chain.target[a][PricingRelation(k)] \in Addresses \ {a}
<1>1. IsChain(chain)
  OBVIOUS
<1>2. PICK c : c = chain
  OBVIOUS
<1>3. PICK r : r = PricingRelation(k)
  OBVIOUS
<1>4. r \in Relations /\ r \in LinksOf[c.kind[a]]
  BY PricingLinks, <1>2, <1>3
<1>5. c.target[a][r] \in Addresses /\ c.target[a][r] # a
  BY <1>1, <1>2, <1>4 DEF IsChain
<1> QED  BY <1>2, <1>3, <1>5

-----------------------------------------------------------------------------
(* The pieces of a step.                                                   *)

LEMMA NewRowType == \A k \in Kinds : NewRow(k) \in Row
  BY DEF NewRow, Row, NoBlock

LEMMA TokensType ==
    ASSUME NEW ts \in [Addresses -> Token], NEW shares, NEW answers
    PROVE  TokensAfter(ts, shares, answers) \in [Addresses -> Token]
  BY DEF TokensAfter, TokenRow, Token

\* applyFacts gives a row of the same kind whose price facts are sound.
LEMMA WithFactsSound ==
    ASSUME TypeOK, NEW a \in Addresses, NEW row \in Row, NEW ts, NEW found,
           row.kind = chain.kind[a], row.kind # "UNKNOWN",
           row.product # NoAddress => row.kind \in ProductKinds \cup Stakes,
           Sound(rows, a, row),
           rows[a].kind \in {NoKind, row.kind} \/ row.decimals = NoAddress
    PROVE  LET new == WithFacts(a, row, ts, found)
           IN  /\ new \in Row /\ new.kind = row.kind
               /\ new.product # NoAddress => row.kind \in ProductKinds \cup Stakes
               /\ Sound([rows EXCEPT ![a] = new], a, new)
<1> DEFINE new == WithFacts(a, row, ts, found)
           k == row.kind
           dec == OwnDecimals(a, k, ts, found)
           prod == ProductOf(a, k, found)
<1>1. prod \in Addresses \cup {NoAddress}
      /\ (prod # NoAddress => /\ k \in ProductKinds \cup Stakes
                              /\ prod = IF k \in ProductKinds THEN a ELSE chain.target[a][PricingRelation(k)])
  BY PricingTarget DEF ProductOf, TypeOK
<1>2. dec \in Addresses \cup {NoAddress}
      /\ (dec # NoAddress => k \in ProductKinds /\ dec = TrueDecimals(a))
  BY PricingTarget DEF OwnDecimals, TypeOK, ProductKinds, TrueDecimals, PricingRelation
<1>3. /\ new.kind = k /\ new.product = Kept(prod, row.product) /\ new.decimals = Kept(dec, row.decimals)
      /\ new.productKind = IF dec = NoAddress THEN row.productKind ELSE k
  BY DEF WithFacts
<1>4. new \in Row
  <2>1. block \in Nat /\ FactsStatus(a, k, ts, found) \in {"none", "PARTIAL", "OK"}
    BY DEF TypeOK, FactsStatus
  <2>2. Kept(prod, row.product) \in Addresses \cup {NoAddress}
        /\ Kept(dec, row.decimals) \in Addresses \cup {NoAddress}
    BY <1>1, <1>2 DEF Kept, Row
  <2> QED  BY <2>1, <2>2 DEF WithFacts, Row
<1>5. new.product # NoAddress => k \in ProductKinds \cup Stakes
  BY <1>1, <1>3 DEF Kept
<1>6. new.product # NoAddress =>
        new.product = IF k \in ProductKinds THEN a ELSE chain.target[a][PricingRelation(k)]
  BY <1>1, <1>3 DEF Kept, Sound
<1>7. rows \in [Addresses -> Row \cup {NoRow}]
  BY DEF TypeOK
<1>8. CASE dec # NoAddress
  <2>1. new.decimals = TrueDecimals(a) /\ new.productKind = k /\ new.product = a /\ k # NoKind
    BY <1>1, <1>2, <1>3, <1>8, KindFacts DEF Kept, ProductOf, KnownKinds
  <2> QED  BY <1>2, <1>3, <1>4, <1>5, <1>6, <1>7, <1>8, <2>1 DEF Sound
<1>9. CASE dec = NoAddress
  <2>1. new.decimals = row.decimals /\ new.productKind = row.productKind
    BY <1>3, <1>9 DEF Kept
  <2>2. CASE row.decimals = NoAddress
    BY <1>3, <1>4, <1>5, <1>6, <2>1, <2>2 DEF Sound
  <2>3. CASE row.decimals # NoAddress
    <3>1. row.product # NoAddress /\ new.product = row.product /\ new.product \in Addresses
      BY <1>1, <1>3, <1>6, <2>3 DEF Sound, Kept, Row
    <3>2. row.productKind # "UNKNOWN" => [rows EXCEPT ![a] = new][row.product].kind = rows[row.product].kind
      <4>1. CASE row.product = a
        BY <1>3, <1>7, <2>3, <3>1, <4>1, KindFacts DEF Sound, Row
      <4>2. CASE row.product # a
        BY <1>7, <3>1, <4>2
      <4> QED  BY <4>1, <4>2
    <3> QED  BY <1>3, <1>4, <1>5, <1>6, <2>1, <2>3, <3>1, <3>2 DEF Sound
  <2> QED  BY <2>2, <2>3
<1> QED  BY <1>3, <1>4, <1>5, <1>8, <1>9

\* What stakedPriceFacts answers, if anything: a provisional UNKNOWN, or the product's kind
\* with the decimals of the token that prices it.
LEMMA StakedFacts ==
    ASSUME NEW rs, GoodRows(rs), chain \in Chains, NEW ts, NEW kind \in Kinds, NEW p \in Addresses,
           StakedPriceFacts(rs, ts, kind, p) # Unpriced
    PROVE  LET facts == StakedPriceFacts(rs, ts, kind, p)
           IN  /\ facts.decimals \in Addresses /\ facts.productKind \in Kinds
               /\ IF facts.productKind = "UNKNOWN"
                  THEN kind = "REWARD_POOL" /\ facts.decimals = p
                  ELSE facts.productKind = rs[p].kind /\ facts.decimals = TrueDecimals(p)
<1>1. rs[p] \in Row \cup {NoRow} /\ rs[p].kind \in {NoKind, "UNKNOWN", chain.kind[p]} /\ Sound(rs, p, rs[p])
  BY DEF GoodRows
<1>2. CASE rs[p].kind \in {NoKind, "UNKNOWN"}
  <2>1. kind = "REWARD_POOL" /\ StakedPriceFacts(rs, ts, kind, p) = PricedByToken(ts, p, "UNKNOWN")
    BY <1>2, KindFacts DEF StakedPriceFacts, KnownKinds
  <2>2. PricedByToken(ts, p, "UNKNOWN") = [decimals |-> p, productKind |-> "UNKNOWN"]
    BY <2>1 DEF PricedByToken
  <2> QED  BY <2>1, <2>2, KindFacts
<1>3. CASE rs[p].kind \in ProductKinds
  <2>1. rs[p].kind \notin {NoKind, "UNKNOWN"} /\ rs[p].kind \in Kinds /\ rs[p].kind # "REWARD_POOL"
    BY <1>3 DEF ProductKinds, NoKind, Kinds, LinksOf
  <2>2. /\ rs[p].decimals # NoAddress
        /\ StakedPriceFacts(rs, ts, kind, p) = [decimals |-> rs[p].decimals, productKind |-> rs[p].kind]
    BY <1>3, <2>1 DEF StakedPriceFacts
  <2>3. rs[p].decimals = TrueDecimals(p)
    BY <1>1, <1>3, <2>1, <2>2 DEF Sound
  <2>4. rs[p] \in Row
    BY <1>1, <2>1 DEF NoRow, NewRow
  <2> QED  BY <2>1, <2>2, <2>3, <2>4 DEF Row
<1>4. CASE rs[p].kind \notin {NoKind, "UNKNOWN"} \cup ProductKinds
  <2>1. rs[p].kind = chain.kind[p] /\ rs[p].kind # "VAULT" /\ TrueDecimals(p) = p
    BY <1>1, <1>4 DEF ProductKinds, TrueDecimals
  <2>2. rs[p].kind \in Kinds
    BY <1>1, <1>4 DEF NoRow, NewRow, Row
  <2>3. StakedPriceFacts(rs, ts, kind, p) = PricedByToken(ts, p, rs[p].kind)
    BY <1>4 DEF StakedPriceFacts
  <2>4. PricedByToken(ts, p, rs[p].kind) = [decimals |-> p, productKind |-> rs[p].kind]
    BY <2>3 DEF PricedByToken
  <2> QED  BY <1>4, <2>1, <2>2, <2>3, <2>4
<1> QED  BY <1>2, <1>3, <1>4

\* A row may take the place of one whose kind it keeps or establishes.
LEMMA Replaced ==
    ASSUME NEW rs, GoodRows(rs), NEW a \in Addresses, NEW new \in Row,
           new.kind \in {"UNKNOWN", chain.kind[a]},
           rs[a].kind \in {NoKind, "UNKNOWN", new.kind},
           new.product # NoAddress => new.kind \in ProductKinds \cup Stakes,
           Sound([rs EXCEPT ![a] = new], a, new)
    PROVE  GoodRows([rs EXCEPT ![a] = new])
<1> DEFINE after == [rs EXCEPT ![a] = new]
<1>1. after \in [Addresses -> Row \cup {NoRow}] /\ after[a] = new
  BY DEF GoodRows
<1>2. ASSUME NEW b \in Addresses
      PROVE  /\ after[b].kind \in {NoKind, "UNKNOWN", chain.kind[b]}
             /\ after[b].product # NoAddress => after[b].kind \in ProductKinds \cup Stakes
             /\ Sound(after, b, after[b])
  <2>1. CASE b = a
    BY <1>1, <2>1
  <2>2. CASE b # a
    <3>1. after[b] = rs[b] /\ Sound(rs, b, rs[b]) /\ rs[b] \in Row \cup {NoRow}
      BY <2>2 DEF GoodRows
    <3>2. ASSUME rs[b].decimals # NoAddress, rs[b].productKind # "UNKNOWN"
          PROVE  rs[b].productKind = after[rs[b].product].kind
      <4>1. rs[b].product # NoAddress /\ rs[b].productKind = rs[rs[b].product].kind
        BY <3>1, <3>2 DEF Sound
      <4>2. rs[b].product \in Addresses /\ rs[b].productKind # NoKind
        BY <3>1, <3>2, <4>1, KindFacts DEF Row, NoRow, NewRow, Sound
      <4> QED  BY <1>1, <3>2, <4>1, <4>2 DEF GoodRows
    <3>3. Sound(after, b, after[b])
      BY <3>1, <3>2 DEF Sound
    <3> QED  BY <3>1, <3>3 DEF GoodRows
  <2> QED  BY <2>1, <2>2
<1> QED  BY <1>1, <1>2 DEF GoodRows

\* completePriceFacts keeps the rows good.
LEMMA CompletedGood ==
    ASSUME NEW rs, GoodRows(rs), chain \in Chains, NEW ts, NEW a \in Addresses, rs[a] \in Row
    PROVE  LET new == Completed(rs, ts, rs[a])
           IN  GoodRows([rs EXCEPT ![a] = new]) /\ new \in Row /\ new.kind = rs[a].kind
<1> DEFINE row == rs[a]
           facts == StakedPriceFacts(rs, ts, row.kind, row.product)
           new == [row EXCEPT !.decimals = facts.decimals, !.productKind = facts.productKind]
<1>1. row.kind \in {"UNKNOWN", chain.kind[a]} /\ Sound(rs, a, row) /\ row.kind \in Kinds
  BY KindFacts DEF GoodRows, Row
<1>2. CASE row.kind \in Stakes /\ row.product # NoAddress /\ facts # Unpriced /\ ~Priced(row)
  <2>1. row.product \in Addresses \ {a} /\ row.kind \notin ProductKinds
    BY <1>1, <1>2, PricingTarget, KindFacts DEF Sound, KnownKinds
  <2>2. /\ facts.decimals \in Addresses /\ facts.productKind \in Kinds
        /\ IF facts.productKind = "UNKNOWN"
           THEN row.kind = "REWARD_POOL" /\ facts.decimals = row.product
           ELSE facts.productKind = rs[row.product].kind /\ facts.decimals = TrueDecimals(row.product)
    BY <1>1, <1>2, <2>1, StakedFacts
  <2>3. /\ new \in Row /\ new.kind = row.kind /\ new.product = row.product
        /\ new.decimals = facts.decimals /\ new.productKind = facts.productKind
    BY <2>2 DEF Row
  <2>4. [rs EXCEPT ![a] = new][row.product] = rs[row.product]
    BY <2>1 DEF GoodRows
  <2>5. Sound([rs EXCEPT ![a] = new], a, new)
    BY <1>1, <1>2, <2>1, <2>2, <2>3, <2>4, KindFacts DEF Sound
  <2>6. GoodRows([rs EXCEPT ![a] = new])
    BY <1>1, <1>2, <2>3, <2>5, Replaced
  <2> QED  BY <1>2, <2>3, <2>6 DEF Completed
<1>3. CASE ~(row.kind \in Stakes /\ row.product # NoAddress /\ facts # Unpriced /\ ~Priced(row))
  <2>1. Completed(rs, ts, row) = row
    BY <1>3 DEF Completed
  <2>2. [rs EXCEPT ![a] = row] = rs
    BY DEF GoodRows
  <2> QED  BY <2>1, <2>2
<1> QED  BY <1>2, <1>3

-----------------------------------------------------------------------------
(* A handler's step.                                                       *)

LEMMA AnswersType ==
    ASSUME TypeOK, NEW a \in Addresses, NEW k \in Kinds, NEW found \in SUBSET LinksOf[k]
    PROVE  Asked(a, k, found) \subseteq Addresses /\ {a} \X found \subseteq Addresses \X Relations
<1>1. found \subseteq Relations
  BY DEF Relations
<1>2. \A r \in Relations : chain.target[a][r] \in Addresses
  <2>1. IsChain(chain)
    BY DEF TypeOK
  <2>2. PICK c : c = chain
    OBVIOUS
  <2>3. \A r \in Relations : c.target[a][r] \in Addresses
    BY <2>1, <2>2 DEF IsChain
  <2> QED  BY <2>2, <2>3
<1> QED  BY <1>1, <1>2 DEF Asked

\* What a row knows, and what may take its place.
RowKept(old, new) ==
    /\ old.kind \in KnownKinds => new.kind = old.kind
    /\ old.product # NoAddress => new.product = old.product
    /\ old.decimals # NoAddress =>
        /\ new.decimals # NoAddress
        /\ old.productKind # "UNKNOWN" => new.decimals = old.decimals /\ new.productKind = old.productKind

\* A read of the facts takes nothing away: what it finds is what was found before.
LEMMA WithFactsKept ==
    ASSUME TypeOK, NEW a \in Addresses, NEW row \in Row, NEW ts, NEW found,
           row.kind = chain.kind[a], row.kind # "UNKNOWN",
           Sound(rows, a, row), rows[a].kind = row.kind
    PROVE  RowKept(row, WithFacts(a, row, ts, found))
<1> DEFINE new == WithFacts(a, row, ts, found)
           k == row.kind
           dec == OwnDecimals(a, k, ts, found)
           prod == ProductOf(a, k, found)
<1>1. /\ new.kind = k /\ new.product = Kept(prod, row.product) /\ new.decimals = Kept(dec, row.decimals)
      /\ new.productKind = IF dec = NoAddress THEN row.productKind ELSE k
  BY DEF WithFacts
<1>2. prod # NoAddress => prod = IF k \in ProductKinds THEN a ELSE chain.target[a][PricingRelation(k)]
  BY DEF ProductOf
<1>3. dec # NoAddress => k \in ProductKinds /\ dec = TrueDecimals(a)
  BY DEF OwnDecimals, ProductKinds, TrueDecimals, PricingRelation
<1>4. row.product # NoAddress => new.product = row.product
  BY <1>1, <1>2 DEF Kept, Sound
<1>5. ASSUME row.decimals # NoAddress
      PROVE  /\ new.decimals # NoAddress
             /\ row.productKind # "UNKNOWN" => new.decimals = row.decimals /\ new.productKind = row.productKind
  <2>1. CASE dec = NoAddress
    BY <1>1, <1>5, <2>1 DEF Kept
  <2>2. CASE dec # NoAddress
    <3>1. new.decimals = TrueDecimals(a) /\ new.productKind = k /\ k \in ProductKinds
      BY <1>1, <1>3, <2>2 DEF Kept
    <3>2. row.product = a
      BY <1>5, <3>1 DEF Sound
    <3> QED  BY <1>1, <1>5, <2>2, <3>1, <3>2 DEF Sound, Kept
  <2> QED  BY <2>1, <2>2
<1> QED  BY <1>1, <1>4, <1>5 DEF RowKept

\* completePriceFacts only adds.
LEMMA CompletedKept ==
    ASSUME NEW rs, GoodRows(rs), chain \in Chains, NEW ts, NEW a \in Addresses, rs[a] \in Row
    PROVE  RowKept(rs[a], Completed(rs, ts, rs[a]))
<1> DEFINE row == rs[a]
           facts == StakedPriceFacts(rs, ts, row.kind, row.product)
           new == [row EXCEPT !.decimals = facts.decimals, !.productKind = facts.productKind]
<1>1. row.kind \in Kinds
  BY DEF Row
<1>2. CASE row.kind \in Stakes /\ row.product # NoAddress /\ facts # Unpriced /\ ~Priced(row)
  <2>1. facts.decimals \in Addresses
    BY <1>1, <1>2, StakedFacts DEF Row
  <2>2. new.kind = row.kind /\ new.product = row.product /\ new.decimals = facts.decimals
    BY DEF Row
  <2>3. row.decimals # NoAddress => row.productKind = "UNKNOWN"
    BY <1>2 DEF Priced
  <2>4. Completed(rs, ts, row) = new
    BY <1>2 DEF Completed
  <2> HIDE DEF facts, new
  <2> QED  BY <2>1, <2>2, <2>3, <2>4 DEF RowKept
<1>3. CASE ~(row.kind \in Stakes /\ row.product # NoAddress /\ facts # Unpriced /\ ~Priced(row))
  <2>1. Completed(rs, ts, row) = row
    BY <1>3 DEF Completed
  <2> QED  BY <2>1 DEF RowKept
<1> QED  BY <1>2, <1>3

\* The row of a handler once its facts were read, if they had to be.
Updated(a, row, ts, found) == IF NeedsFacts(row) THEN WithFacts(a, row, ts, found) ELSE row

LEMMA UpdatedGood ==
    ASSUME Inv, NEW a \in Addresses, NEW row \in Row, row.kind \in {"UNKNOWN", chain.kind[a]},
           row = rows[a] \/ (row = NewRow(row.kind) /\ rows[a].kind \in {NoKind, "UNKNOWN"}),
           NEW ts, NEW found
    PROVE  LET updated == Updated(a, row, ts, found)
           IN  /\ GoodRows([rows EXCEPT ![a] = updated]) /\ updated \in Row /\ updated.kind = row.kind
               /\ RowKept(rows[a], updated)
<1> DEFINE updated == Updated(a, row, ts, found)
           rs == [rows EXCEPT ![a] = updated]
           needs == NeedsFacts(row)
<1>1. TypeOK /\ GoodRows(rows) /\ chain \in Chains
  BY DEF Inv, TypeOK
<1>2. /\ row.product # NoAddress => row.kind \in ProductKinds \cup Stakes
      /\ Sound(rows, a, row)
      /\ rows[a].kind \in {NoKind, row.kind} \/ row.decimals = NoAddress
      /\ rows[a].kind \in {NoKind, "UNKNOWN", row.kind}
  <2>1. CASE row = rows[a]
    BY <1>1, <2>1 DEF GoodRows
  <2>2. CASE row = NewRow(row.kind) /\ rows[a].kind \in {NoKind, "UNKNOWN"}
    <3>1. row.product = NoAddress /\ row.decimals = NoAddress /\ row.productKind = NoKind
      BY <2>2 DEF NewRow
    <3> QED  BY <2>2, <3>1 DEF Sound
  <2> QED  BY <2>1, <2>2
<1>3. GoodRows(rs) /\ updated \in Row /\ updated.kind = row.kind
  <2>1. CASE needs
    <3>1. row.kind = chain.kind[a] /\ row.kind # "UNKNOWN"
      BY <2>1 DEF NeedsFacts
    <3>2. /\ updated \in Row /\ updated.kind = row.kind
          /\ updated.product # NoAddress => row.kind \in ProductKinds \cup Stakes
          /\ Sound([rows EXCEPT ![a] = updated], a, updated)
      BY <1>1, <1>2, <2>1, <3>1, WithFactsSound DEF Updated
    <3> QED  BY <1>1, <1>2, <3>1, <3>2, Replaced
  <2>2. CASE ~needs
    <3>1. Sound(rs, a, row)
      <4>1. CASE row = rows[a]
        BY <1>1, <1>2, <2>2, <4>1 DEF GoodRows, Sound, Updated
      <4>2. CASE row = NewRow(row.kind)
        BY <2>2, <4>2 DEF NewRow, Sound, Updated
      <4> QED  BY <4>1, <4>2
    <3> QED  BY <1>1, <1>2, <2>2, <3>1, Replaced DEF Updated
  <2> QED  BY <2>1, <2>2
<1>4. RowKept(rows[a], updated)
  <2>1. CASE row = rows[a] /\ needs
    <3>1. row.kind = chain.kind[a] /\ row.kind # "UNKNOWN"
      BY <2>1 DEF NeedsFacts
    <3> QED  BY <1>1, <1>2, <2>1, <3>1, WithFactsKept DEF Updated
  <2>2. CASE row = rows[a] /\ ~needs
    BY <2>2 DEF Updated, RowKept
  <2>3. CASE rows[a].kind \in {NoKind, "UNKNOWN"}
    <3>1. rows[a].kind \notin KnownKinds
      BY <2>3, KindFacts DEF KnownKinds
    <3>2. rows[a].product = NoAddress /\ rows[a].decimals = NoAddress
      BY <1>1, <3>1, KindFacts DEF GoodRows, Sound
    <3> QED  BY <3>1, <3>2 DEF RowKept
  <2> QED  BY <2>1, <2>2, <2>3
<1> QED  BY <1>3, <1>4

\* The row a handler starts from is the stored one or a new one of the true kind.
LEMMA FinishInv ==
    ASSUME Inv, NEW a \in Addresses, NEW row \in Row, NEW seen \in SUBSET Addresses,
           row.kind \in {"UNKNOWN", chain.kind[a]},
           row = rows[a] \/ (row = NewRow(row.kind) /\ rows[a].kind \in {NoKind, "UNKNOWN"}),
           Finish(a, row, seen), UNCHANGED <<chain, block>>, handled' \in Addresses \cup {NoAddress}
    PROVE  Inv'
<1> DEFINE needs == NeedsFacts(row)
<1>1. PICK found \in (IF needs THEN FactAnswers(a, row.kind) ELSE {{}}) :
        LET asked == IF needs THEN Asked(a, row.kind, found) ELSE {}
            read == TokensRead(tokens, asked, {a}, TRUE)
            also == TokensRead(tokens, seen \ asked, {}, FALSE)
        IN  \E answers \in Answers(read), others \in Answers(also) :
                LET ts == TokensAfter(tokens, {a}, answers)
                    updated == IF needs THEN WithFacts(a, row, ts, found) ELSE row
                IN  /\ rows' = [rows EXCEPT ![a] = Completed([rows EXCEPT ![a] = updated], ts, updated)]
                    /\ tokens' = TokensAfter(ts, {}, others)
                    /\ tokenRead' = tokenRead \cup CachedOf(answers) \cup CachedOf(others)
                    /\ links' = links \cup ({a} \X found)
                    /\ factsRead' = IF needs /\ found = LinksOf[row.kind]
                                    THEN factsRead \cup {a} ELSE factsRead
  BY DEF Finish
<1> DEFINE asked == IF needs THEN Asked(a, row.kind, found) ELSE {}
           read == TokensRead(tokens, asked, {a}, TRUE)
           also == TokensRead(tokens, seen \ asked, {}, FALSE)
<1>2. PICK answers \in Answers(read), others \in Answers(also) :
        LET ts == TokensAfter(tokens, {a}, answers)
            updated == IF needs THEN WithFacts(a, row, ts, found) ELSE row
        IN  /\ rows' = [rows EXCEPT ![a] = Completed([rows EXCEPT ![a] = updated], ts, updated)]
            /\ tokens' = TokensAfter(ts, {}, others)
            /\ tokenRead' = tokenRead \cup CachedOf(answers) \cup CachedOf(others)
            /\ links' = links \cup ({a} \X found)
            /\ factsRead' = IF needs /\ found = LinksOf[row.kind]
                            THEN factsRead \cup {a} ELSE factsRead
  BY <1>1
<1> DEFINE ts == TokensAfter(tokens, {a}, answers)
           updated == IF needs THEN WithFacts(a, row, ts, found) ELSE row
           rs == [rows EXCEPT ![a] = updated]
<1>3. TypeOK /\ GoodRows(rows) /\ chain \in Chains /\ row.kind \in Kinds
  BY DEF Inv, TypeOK, Row
<1>4. found \in SUBSET LinksOf[row.kind]
  BY <1>1 DEF FactAnswers
<1>5. Asked(a, row.kind, found) \subseteq Addresses /\ {a} \X found \subseteq Addresses \X Relations
  BY <1>3, <1>4, AnswersType
<1>6. CachedOf(answers) \subseteq Addresses /\ CachedOf(others) \subseteq Addresses
  <2>1. DOMAIN answers = read /\ DOMAIN others = also
    BY DEF Answers
  <2>2. read \subseteq Addresses /\ also \subseteq Addresses
    BY <1>5 DEF TokensRead
  <2> QED  BY <2>1, <2>2 DEF CachedOf
<1>7. GoodRows(rs) /\ updated \in Row
  BY <1>3, UpdatedGood DEF Updated
<1>8. GoodRows(rows')
  <2>1. rs[a] = updated
    BY <1>3 DEF GoodRows
  <2>2. GoodRows([rs EXCEPT ![a] = Completed(rs, ts, updated)])
    <3>1. rs[a] \in Row
      BY <1>7, <2>1
    <3> HIDE DEF rs, ts, updated
    <3>2. GoodRows([rs EXCEPT ![a] = Completed(rs, ts, rs[a])])
      BY <1>3, <1>7, <3>1, CompletedGood
    <3> QED  BY <2>1, <3>2
  <2>3. rows' = [rs EXCEPT ![a] = Completed(rs, ts, updated)]
    BY <1>2, <1>3 DEF GoodRows
  <2> QED  BY <2>2, <2>3
<1>9. tokens' \in [Addresses -> Token]
  <2>1. ts \in [Addresses -> Token]
    BY <1>3, TokensType DEF TypeOK
  <2> QED  BY <1>2, <2>1, TokensType
<1>10. links' \subseteq Addresses \X Relations /\ factsRead' \subseteq Addresses /\ tokenRead' \subseteq Addresses
  BY <1>2, <1>3, <1>5, <1>6 DEF TypeOK
<1>11. GoodRows(rows)'
  BY <1>8 DEF GoodRows, Sound, TrueDecimals
<1> QED  BY <1>3, <1>8, <1>9, <1>10, <1>11 DEF Inv, TypeOK, GoodRows

-----------------------------------------------------------------------------
(* The theorem.                                                            *)

LEMMA InitInv == Init => Inv
<1> SUFFICES ASSUME Init  PROVE Inv
  OBVIOUS
<1>1. \A a \in Addresses : rows[a] = NoRow
  BY DEF Init
<1>2. /\ NoRow.kind = NoKind /\ NoRow.product = NoAddress /\ NoRow.decimals = NoAddress
      /\ NoRow.productKind = NoKind
  BY DEF NoRow, NewRow
<1>3. TypeOK
  BY DEF Init, TypeOK, Token, NoToken
<1> QED  BY <1>1, <1>2, <1>3 DEF Inv, GoodRows, Sound, TypeOK

\* Every step of a handler starts from the contract's row, or from a new one where none is
\* established.
LEMMA HandlerStarts ==
    ASSUME Inv, NEW a \in Addresses, Created(a) \/ Handled(a)
    PROVE  \E row \in Row, seen \in SUBSET Addresses :
                /\ row.kind \in {"UNKNOWN", chain.kind[a]}
                /\ row = rows[a] \/ (row = NewRow(row.kind) /\ rows[a].kind \in {NoKind, "UNKNOWN"})
                /\ Finish(a, row, seen)
                /\ UNCHANGED <<chain, block>> /\ handled' \in {a, NoAddress}
<1>1. TypeOK /\ GoodRows(rows) /\ chain \in Chains
  BY DEF Inv, TypeOK
<1>2. \A b \in Addresses : chain.kind[b] \in Kinds
  <2>1. IsChain(chain)
    BY <1>1
  <2> QED  BY <2>1 DEF IsChain
<1>3. CASE Created(a)
  <2>1. PICK k \in {chain.kind[a], "UNKNOWN"} :
            /\ Replaces(rows[a], k)
            /\ Finish(a, NewRow(k), {})
            /\ handled' = NoAddress
            /\ UNCHANGED <<chain, block>>
    BY <1>3 DEF Created
  <2>2. NewRow(k) \in Row /\ NewRow(k).kind = k /\ rows[a].kind \in {NoKind, "UNKNOWN"}
    BY <1>2, <2>1, NewRowType, KindFacts DEF Replaces, NewRow, NoRow
  <2> QED  BY <2>1, <2>2
<1>4. CASE Handled(a)
  <2> DEFINE k == chain.kind[a]
             row == IF rows[a] = NoRow THEN NewRow(k) ELSE rows[a]
  <2>1. /\ k # "UNKNOWN" /\ rows[a].kind \in {NoKind, k}
        /\ handled' = a /\ UNCHANGED <<chain, block>>
    BY <1>4 DEF Handled
  <2>2. PICK seen \in SeenBy(k) : Finish(a, row, seen)
    BY <1>4 DEF Handled
  <2>3. seen \in SUBSET Addresses
    BY <2>2 DEF SeenBy
  <2>4. row \in Row /\ row.kind = k
    <3>1. CASE rows[a] = NoRow
      BY <1>2, <3>1, NewRowType DEF NewRow
    <3>2. CASE rows[a] # NoRow
      <4>1. rows[a] \in Row
        BY <1>1, <3>2 DEF GoodRows
      <4> QED  BY <2>1, <3>2, <4>1, KindFacts DEF Row
    <3> QED  BY <3>1, <3>2
  <2>5. row = rows[a] \/ (row = NewRow(row.kind) /\ rows[a].kind \in {NoKind, "UNKNOWN"})
    BY <2>4 DEF NoRow, NewRow
  <2> QED  BY <2>1, <2>2, <2>3, <2>4, <2>5
<1> QED  BY <1>3, <1>4

LEMMA NextInv == Inv /\ [Next]_vars => Inv'
<1> SUFFICES ASSUME Inv, [Next]_vars  PROVE Inv'
  OBVIOUS
<1>1. TypeOK /\ GoodRows(rows) /\ chain \in Chains
  BY DEF Inv, TypeOK
<1>2. CASE NextBlock
  <2>1. block' \in 1..MaxBlock
    BY <1>1, <1>2 DEF NextBlock, TypeOK
  <2>2. GoodRows(rows)'
    BY <1>1, <1>2 DEF NextBlock, GoodRows, Sound, TrueDecimals
  <2> QED  BY <1>1, <1>2, <2>1, <2>2 DEF NextBlock, Inv, TypeOK
<1>3. ASSUME NEW a \in Addresses, Created(a) \/ Handled(a)  PROVE Inv'
  <2>1. PICK row \in Row, seen \in SUBSET Addresses :
            /\ row.kind \in {"UNKNOWN", chain.kind[a]}
            /\ row = rows[a] \/ (row = NewRow(row.kind) /\ rows[a].kind \in {NoKind, "UNKNOWN"})
            /\ Finish(a, row, seen)
            /\ UNCHANGED <<chain, block>> /\ handled' \in {a, NoAddress}
    BY <1>3, HandlerStarts
  <2> QED  BY <2>1, FinishInv
<1>4. CASE UNCHANGED vars
  BY <1>1, <1>4 DEF vars, Inv, TypeOK, GoodRows, Sound, TrueDecimals
<1> QED  BY <1>2, <1>3, <1>4 DEF Next

\* The price facts a row has are those of its product, in any run of the registry
\* (PriceFactsSound); and its rows are well typed.
THEOREM PriceFactsAreTheProducts == Spec => [](TypeOK /\ PriceFactsSound)
<1>1. Inv => TypeOK /\ PriceFactsSound
  BY InvSound DEF Inv
<1> QED  BY <1>1, InitInv, NextInv, PTL DEF Spec

-----------------------------------------------------------------------------
(* Complete facts stay complete: metadata that was read is in the effect   *)
(* cache, so a Token row that is rewritten gets it again.                  *)

Cached == \A t \in Addresses : tokens[t].status = "OK" => t \in tokenRead

CompleteInv == Inv /\ Cached /\ FactsComplete

\* Rewriting Token rows loses no metadata, and what is OK is cached.
LEMMA TokensKept ==
    ASSUME NEW ts \in [Addresses -> Token], NEW shares, NEW read, NEW answers \in Answers(read),
           NEW more, tokenRead \subseteq more, CachedOf(answers) \subseteq more,
           \A t \in Addresses : ts[t].status = "OK" => t \in more,
           \A t \in read : ts[t].status = "OK" => t \in tokenRead
    PROVE  \A t \in Addresses :
                /\ ts[t].status = "OK" => TokensAfter(ts, shares, answers)[t].status = "OK"
                /\ TokensAfter(ts, shares, answers)[t].status = "OK" => t \in more
<1> SUFFICES ASSUME NEW t \in Addresses
             PROVE  /\ ts[t].status = "OK" => TokensAfter(ts, shares, answers)[t].status = "OK"
                    /\ TokensAfter(ts, shares, answers)[t].status = "OK" => t \in more
  OBVIOUS
<1>1. DOMAIN answers = read /\ \A u \in read : answers[u] \in TokenAnswers(u)
  BY DEF Answers
<1>2. CASE t \in read
  <2>1. TokensAfter(ts, shares, answers)[t].status = IF answers[t] = "ok" THEN "OK" ELSE "INVALID"
    BY <1>1, <1>2 DEF TokensAfter, TokenRow
  <2>2. t \in tokenRead => answers[t] = "ok"
    BY <1>1, <1>2 DEF TokenAnswers
  <2>3. answers[t] = "ok" => t \in more
    BY <1>1, <1>2 DEF CachedOf, Caches
  <2> QED  BY <1>2, <2>1, <2>2, <2>3
<1>3. CASE t \notin read
  BY <1>1, <1>3 DEF TokensAfter
<1> QED  BY <1>2, <1>3

LEMMA FinishComplete ==
    ASSUME CompleteInv, NEW a \in Addresses, NEW row \in Row, NEW seen \in SUBSET Addresses,
           row = rows[a] \/ row.status = "none",
           Finish(a, row, seen), UNCHANGED chain
    PROVE  /\ Cached' /\ FactsComplete'
           /\ \A t \in Addresses : tokens[t].status = "OK" => tokens'[t].status = "OK"
<1> DEFINE needs == NeedsFacts(row)
<1>1. PICK found \in (IF needs THEN FactAnswers(a, row.kind) ELSE {{}}) :
        LET asked == IF needs THEN Asked(a, row.kind, found) ELSE {}
            read == TokensRead(tokens, asked, {a}, TRUE)
            also == TokensRead(tokens, seen \ asked, {}, FALSE)
        IN  \E answers \in Answers(read), others \in Answers(also) :
                LET ts == TokensAfter(tokens, {a}, answers)
                    updated == IF needs THEN WithFacts(a, row, ts, found) ELSE row
                IN  /\ rows' = [rows EXCEPT ![a] = Completed([rows EXCEPT ![a] = updated], ts, updated)]
                    /\ tokens' = TokensAfter(ts, {}, others)
                    /\ tokenRead' = tokenRead \cup CachedOf(answers) \cup CachedOf(others)
                    /\ links' = links \cup ({a} \X found)
  BY DEF Finish
<1> DEFINE asked == IF needs THEN Asked(a, row.kind, found) ELSE {}
           read == TokensRead(tokens, asked, {a}, TRUE)
           also == TokensRead(tokens, seen \ asked, {}, FALSE)
<1>2. PICK answers \in Answers(read), others \in Answers(also) :
        LET ts == TokensAfter(tokens, {a}, answers)
            updated == IF needs THEN WithFacts(a, row, ts, found) ELSE row
        IN  /\ rows' = [rows EXCEPT ![a] = Completed([rows EXCEPT ![a] = updated], ts, updated)]
            /\ tokens' = TokensAfter(ts, {}, others)
            /\ tokenRead' = tokenRead \cup CachedOf(answers) \cup CachedOf(others)
            /\ links' = links \cup ({a} \X found)
  BY <1>1
<1> DEFINE ts == TokensAfter(tokens, {a}, answers)
           updated == IF needs THEN WithFacts(a, row, ts, found) ELSE row
           completed == Completed([rows EXCEPT ![a] = updated], ts, updated)
<1>3. TypeOK /\ Cached /\ FactsComplete
  BY DEF CompleteInv, Inv
<1>4. read \subseteq asked /\ also \cap asked = {} /\ also \subseteq Addresses
  BY DEF TokensRead
<1>5. ts \in [Addresses -> Token] /\ tokens \in [Addresses -> Token]
  BY <1>3, TokensType DEF TypeOK
<1>6. read \subseteq Addresses
  <2>1. needs => found \in SUBSET LinksOf[row.kind]
    BY <1>1 DEF FactAnswers
  <2>2. asked \subseteq Addresses
    BY <1>3, <2>1, AnswersType DEF Row
  <2> QED  BY <1>4, <2>2
<1>7. \A t \in Addresses : /\ tokens[t].status = "OK" => ts[t].status = "OK"
                           /\ ts[t].status = "OK" => t \in tokenRead'
  <2>1. PICK more : more = tokenRead'
    OBVIOUS
  <2>2. tokenRead \subseteq more /\ CachedOf(answers) \subseteq more
    BY <1>2, <2>1
  <2>3. \A t \in Addresses : tokens[t].status = "OK" => t \in tokenRead
    BY <1>3 DEF Cached
  <2>4. answers \in Answers(read)
    BY <1>2
  <2> HIDE DEF read
  <2>5. \A t \in Addresses : /\ tokens[t].status = "OK" => TokensAfter(tokens, {a}, answers)[t].status = "OK"
                             /\ TokensAfter(tokens, {a}, answers)[t].status = "OK" => t \in more
    BY <1>5, <1>6, <2>2, <2>3, <2>4, TokensKept
  <2> QED  BY <2>1, <2>5
<1>8. \A t \in Addresses : /\ ts[t].status = "OK" => tokens'[t].status = "OK"
                           /\ tokens'[t].status = "OK" => t \in tokenRead'
  <2>1. PICK more : more = tokenRead'
    OBVIOUS
  <2>3. tokenRead \subseteq more /\ CachedOf(others) \subseteq more /\ others \in Answers(also)
    BY <1>2, <2>1
  <2>2. \A t \in also : ts[t].status = "OK" => t \in tokenRead
    <3>1. ASSUME NEW t \in also  PROVE ts[t] = tokens[t]
      <4>1. DOMAIN answers = read
        BY DEF Answers
      <4> QED  BY <1>4, <4>1, <3>1 DEF TokensAfter
    <3> QED  BY <1>3, <1>4, <3>1 DEF Cached
  <2>4. \A t \in Addresses : ts[t].status = "OK" => t \in more
    BY <1>7, <2>1
  <2> HIDE DEF also, ts
  <2>5. \A t \in Addresses : /\ ts[t].status = "OK" => TokensAfter(ts, {}, others)[t].status = "OK"
                             /\ TokensAfter(ts, {}, others)[t].status = "OK" => t \in more
    BY <1>5, <2>2, <2>3, <2>4, TokensKept
  <2>6. tokens' = TokensAfter(ts, {}, others)
    BY <1>2 DEF ts
  <2> QED  BY <2>1, <2>5, <2>6
<1>9. Cached'
  BY <1>8 DEF Cached
<1> HIDE DEF ts
<1>10. completed.kind = row.kind /\ completed.status = updated.status
  <2>1. updated.kind = row.kind
    BY DEF WithFacts
  <2>2. updated \in Row \/ updated = WithFacts(a, row, ts, found)
    OBVIOUS
  <2>3. completed.kind = updated.kind /\ completed.status = updated.status
    BY <2>2 DEF Completed, Row, WithFacts
  <2> QED  BY <2>1, <2>3
<1>11. rows' = [rows EXCEPT ![a] = completed] /\ rows \in [Addresses -> Row \cup {NoRow}]
  BY <1>2, <1>3 DEF TypeOK, ts
<1>12. ASSUME NEW b \in Addresses, rows'[b].status = "OK"
       PROVE  /\ {b} \X LinksOf[rows'[b].kind] \subseteq links'
              /\ \A r \in LinksOf[rows'[b].kind] \cap TokenRelations :
                    tokens'[chain.target[b][r]].status = "OK"
              /\ rows'[b].kind \in ShareTokenKinds \ NonErc20Kinds => tokens'[b].status = "OK"
  <2>0. \A k \in Kinds : \A r \in LinksOf[k] : chain.target[b][r] \in Addresses
    <3>1. IsChain(chain)
      BY <1>3 DEF TypeOK
    <3>2. PICK c : c = chain
      OBVIOUS
    <3>3. \A r \in Relations : c.target[b][r] \in Addresses
      BY <3>1, <3>2 DEF IsChain
    <3>4. \A k \in Kinds : \A r \in LinksOf[k] : r \in Relations
      BY DEF Relations
    <3> QED  BY <3>2, <3>3, <3>4
  <2>1. CASE rows'[b].kind = rows[b].kind /\ rows[b].status = "OK"
    <3>1. /\ {b} \X LinksOf[rows[b].kind] \subseteq links
          /\ \A r \in LinksOf[rows[b].kind] \cap TokenRelations : tokens[chain.target[b][r]].status = "OK"
          /\ rows[b].kind \in ShareTokenKinds \ NonErc20Kinds => tokens[b].status = "OK"
      BY <1>3, <2>1 DEF FactsComplete
    <3>2. rows[b].kind \in Kinds
      BY <1>11, <2>1 DEF Row, NoRow, NewRow
    <3>3. {b} \X LinksOf[rows'[b].kind] \subseteq links'
      BY <1>2, <2>1, <3>1
    <3>4. \A t \in Addresses : tokens[t].status = "OK" => tokens'[t].status = "OK"
      BY <1>7, <1>8
    <3>5. \A r \in LinksOf[rows[b].kind] : chain.target[b][r] \in Addresses
      BY <2>0, <3>2
    <3> QED  BY ONLY <2>1, <3>1, <3>3, <3>4, <3>5, b \in Addresses
  <2>2. CASE b = a /\ needs
    <3>1. rows'[a].kind = row.kind /\ rows'[a].status = FactsStatus(a, row.kind, ts, found)
      BY <1>10, <1>11, <2>2 DEF WithFacts
    <3>2. found = LinksOf[row.kind] /\ row.kind \in Kinds
      BY <1>12, <2>2, <3>1 DEF FactsStatus, Row
    <3>3. /\ \A r \in found \cap TokenRelations : ts[chain.target[a][r]].status = "OK"
          /\ row.kind \in ShareTokenKinds \ NonErc20Kinds => ts[a].status = "OK"
      BY <1>12, <2>2, <3>1 DEF FactsStatus
    <3>4. {a} \X LinksOf[row.kind] \subseteq links'
      BY <1>2, <3>2 DEF ts
    <3>5. \A r \in LinksOf[row.kind] : chain.target[a][r] \in Addresses
      BY <2>0, <2>2, <3>2
    <3>6. \A t \in Addresses : ts[t].status = "OK" => tokens'[t].status = "OK"
      BY <1>8
    <3>7. \A r \in LinksOf[row.kind] \cap TokenRelations : tokens'[chain.target[a][r]].status = "OK"
      BY <3>2, <3>3, <3>5, <3>6
    <3>8. row.kind \in ShareTokenKinds \ NonErc20Kinds => tokens'[a].status = "OK"
      BY <3>3, <3>6
    <3> QED  BY ONLY <2>2, <3>1, <3>4, <3>7, <3>8
  <2>3. CASE ~(b = a /\ needs)
    <3>1. rows'[b].kind = rows[b].kind /\ rows[b].status = "OK"
      BY <1>10, <1>11, <1>12, <2>3
    <3> QED  BY <2>1, <3>1
  <2> QED  BY <2>2, <2>3
<1>13. FactsComplete'
  BY <1>12 DEF FactsComplete
<1>14. \A t \in Addresses : tokens[t].status = "OK" => tokens'[t].status = "OK"
  BY <1>7, <1>8
<1> QED  BY <1>9, <1>13, <1>14

LEMMA InitComplete == Init => CompleteInv
<1>1. Init => Cached /\ FactsComplete
  BY DEF Init, Cached, FactsComplete, NoToken, NoRow, NewRow
<1> QED  BY <1>1, InitInv DEF CompleteInv

LEMMA NextComplete == CompleteInv /\ [Next]_vars => CompleteInv'
<1> SUFFICES ASSUME CompleteInv, [Next]_vars  PROVE CompleteInv'
  OBVIOUS
<1>1. Inv'
  BY NextInv DEF CompleteInv
<1>2. CASE NextBlock \/ UNCHANGED vars
  BY <1>1, <1>2 DEF NextBlock, vars, CompleteInv, Cached, FactsComplete
<1>3. ASSUME NEW a \in Addresses, Created(a) \/ Handled(a)  PROVE CompleteInv'
  <2>1. PICK row \in Row, seen \in SUBSET Addresses :
            /\ row = rows[a] \/ row = NewRow(row.kind)
            /\ Finish(a, row, seen) /\ UNCHANGED chain
    BY <1>3, HandlerStarts DEF CompleteInv
  <2>2. row = rows[a] \/ row.status = "none"
    BY <2>1 DEF NewRow
  <2> QED  BY <1>1, <2>1, <2>2, FinishComplete DEF CompleteInv
<1> QED  BY <1>2, <1>3 DEF Next

\* Complete facts, which are never read again, stay complete: links, and the metadata of
\* every token, whichever contracts rewrite the Token rows (FactsComplete).
THEOREM FactsStayComplete == Spec => []FactsComplete
<1>1. CompleteInv => FactsComplete
  BY DEF CompleteInv
<1> QED  BY <1>1, InitComplete, NextComplete, PTL DEF Spec

-----------------------------------------------------------------------------
(* What a handler's step keeps, and what its row is priced by.             *)

\* What a known stake is of was asked for as a token.
ProductsSeen ==
    \A a \in Addresses : rows[a].kind \in Stakes /\ rows[a].product # NoAddress =>
        tokens[rows[a].product] # NoToken

\* A Token row, once written, stays one.
LEMMA TokensStay ==
    ASSUME NEW ts, NEW shares, NEW answers, NEW t \in Addresses
    PROVE  /\ ts[t] # NoToken => TokensAfter(ts, shares, answers)[t] # NoToken
           /\ t \in DOMAIN answers => TokensAfter(ts, shares, answers)[t] # NoToken
           /\ ts[t].share => TokensAfter(ts, shares, answers)[t].share
<1>1. CASE t \in DOMAIN answers
  <2>1. TokensAfter(ts, shares, answers)[t] = TokenRow(ts[t], t \in shares, answers[t])
    BY <1>1 DEF TokensAfter
  <2>2. \A row, share, answer : /\ TokenRow(row, share, answer).status # "none"
                                /\ row.share => TokenRow(row, share, answer).share
    BY DEF TokenRow
  <2>3. NoToken.status = "none"
    BY DEF NoToken
  <2> QED  BY <2>1, <2>2, <2>3
<1>2. CASE t \notin DOMAIN answers
  BY <1>2 DEF TokensAfter
<1> QED  BY <1>1, <1>2

\* Whatever a stake is priced by, while its product has a price or not, is no other product's.
LEMMA FactsAgree ==
    ASSUME NEW rs, GoodRows(rs), chain \in Chains, NEW ts, NEW a \in Addresses, rs[a] \in Row,
           rs[a].kind \in Stakes, rs[a].product # NoAddress, Priced(rs[a]),
           StakedPriceFacts(rs, ts, rs[a].kind, rs[a].product) # Unpriced
    PROVE  LET facts == StakedPriceFacts(rs, ts, rs[a].kind, rs[a].product)
           IN  rs[a].decimals = facts.decimals /\ rs[a].productKind = facts.productKind
<1> DEFINE row == rs[a]
           p == row.product
           facts == StakedPriceFacts(rs, ts, row.kind, p)
<1>1. p \in Addresses /\ row.kind \in Kinds /\ Sound(rs, a, row)
  BY DEF Row, GoodRows
<1>2. row.productKind = rs[p].kind /\ row.decimals = TrueDecimals(p) /\ row.productKind \notin {NoKind, "UNKNOWN"}
  BY <1>1 DEF Priced, Sound
<1>3. IF facts.productKind = "UNKNOWN" THEN row.kind = "REWARD_POOL" /\ facts.decimals = p
      ELSE facts.productKind = rs[p].kind /\ facts.decimals = TrueDecimals(p)
  BY <1>1, StakedFacts
<1>4. facts.productKind # "UNKNOWN"
  <2>1. CASE rs[p].kind \in ProductKinds
    <3>1. facts = IF rs[p].decimals = NoAddress THEN Unpriced
                  ELSE [decimals |-> rs[p].decimals, productKind |-> rs[p].kind]
      BY <1>2, <2>1 DEF StakedPriceFacts
    <3>2. facts.productKind = rs[p].kind
      BY <3>1
    <3> QED  BY <1>2, <3>2
  <2>2. CASE rs[p].kind \notin ProductKinds
    <3>1. facts = PricedByToken(ts, p, rs[p].kind)
      BY <1>2, <2>2 DEF StakedPriceFacts
    <3>2. facts = [decimals |-> p, productKind |-> rs[p].kind]
      BY <3>1 DEF PricedByToken
    <3> QED  BY <1>2, <3>2
  <2> QED  BY <2>1, <2>2
<1> QED  BY <1>2, <1>3, <1>4

LEMMA FinishKnows ==
    ASSUME Inv, ProductsSeen, NEW a \in Addresses, NEW row \in Row, NEW seen \in SUBSET Addresses,
           row.kind \in {"UNKNOWN", chain.kind[a]},
           row = rows[a] \/ (row = NewRow(row.kind) /\ rows[a].kind \in {NoKind, "UNKNOWN"}),
           Finish(a, row, seen), UNCHANGED chain
    PROVE  /\ \A b \in Addresses : RowKept(rows[b], rows'[b]) /\ (tokens[b].share => tokens'[b].share)
           /\ links \subseteq links'
           /\ ProductsSeen'
           /\ LET new == rows'[a]
                  facts == StakedPriceFacts(rows', tokens', new.kind, new.product)
              IN  new.kind \in Stakes /\ new.product # NoAddress /\ facts # Unpriced =>
                      new.decimals = facts.decimals /\ new.productKind = facts.productKind
<1> DEFINE needs == NeedsFacts(row)
<1>1. PICK found \in (IF needs THEN FactAnswers(a, row.kind) ELSE {{}}) :
        LET asked == IF needs THEN Asked(a, row.kind, found) ELSE {}
            read == TokensRead(tokens, asked, {a}, TRUE)
            also == TokensRead(tokens, seen \ asked, {}, FALSE)
        IN  \E answers \in Answers(read), others \in Answers(also) :
                LET ts == TokensAfter(tokens, {a}, answers)
                    updated == IF needs THEN WithFacts(a, row, ts, found) ELSE row
                IN  /\ rows' = [rows EXCEPT ![a] = Completed([rows EXCEPT ![a] = updated], ts, updated)]
                    /\ tokens' = TokensAfter(ts, {}, others)
                    /\ links' = links \cup ({a} \X found)
  BY DEF Finish
<1> DEFINE asked == IF needs THEN Asked(a, row.kind, found) ELSE {}
           read == TokensRead(tokens, asked, {a}, TRUE)
           also == TokensRead(tokens, seen \ asked, {}, FALSE)
<1>2. PICK answers \in Answers(read), others \in Answers(also) :
        LET ts == TokensAfter(tokens, {a}, answers)
            updated == IF needs THEN WithFacts(a, row, ts, found) ELSE row
        IN  /\ rows' = [rows EXCEPT ![a] = Completed([rows EXCEPT ![a] = updated], ts, updated)]
            /\ tokens' = TokensAfter(ts, {}, others)
            /\ links' = links \cup ({a} \X found)
  BY <1>1
<1>3. PICK ts : ts = TokensAfter(tokens, {a}, answers)
  OBVIOUS
<1>4. PICK updated : updated = Updated(a, row, ts, found)
  OBVIOUS
<1>5. PICK rs : rs = [rows EXCEPT ![a] = updated]
  OBVIOUS
<1>6. PICK new : new = Completed(rs, ts, updated)
  OBVIOUS
<1>7. TypeOK /\ GoodRows(rows) /\ chain \in Chains
  BY DEF Inv, TypeOK
<1>8. GoodRows(rs) /\ updated \in Row /\ updated.kind = row.kind /\ RowKept(rows[a], updated)
  <2>1. LET after == Updated(a, row, ts, found)
        IN  /\ GoodRows([rows EXCEPT ![a] = after]) /\ after \in Row /\ after.kind = row.kind
            /\ RowKept(rows[a], after)
    BY UpdatedGood
  <2> QED  BY <1>4, <1>5, <2>1
<1>9. rs[a] = updated /\ rows' = [rows EXCEPT ![a] = new] /\ rows' = [rs EXCEPT ![a] = new]
      /\ rows'[a] = new /\ tokens' = TokensAfter(ts, {}, others)
  BY <1>2, <1>3, <1>4, <1>5, <1>6, <1>7 DEF GoodRows, Updated
<1>10. /\ GoodRows(rows') /\ new \in Row /\ new.kind = row.kind
       /\ RowKept(updated, new)
  <2> rs[a] \in Row
    BY <1>8, <1>9
  <2>1. /\ GoodRows([rs EXCEPT ![a] = Completed(rs, ts, rs[a])])
        /\ Completed(rs, ts, rs[a]) \in Row /\ Completed(rs, ts, rs[a]).kind = rs[a].kind
    BY <1>7, <1>8, CompletedGood
  <2>2. RowKept(rs[a], Completed(rs, ts, rs[a]))
    BY <1>7, <1>8, CompletedKept
  <2> QED  BY <1>6, <1>8, <1>9, <2>1, <2>2
<1>11. \A b \in Addresses : RowKept(rows[b], rows'[b])
  <2>1. RowKept(rows[a], new)
    BY <1>8, <1>10 DEF RowKept
  <2>2. \A b \in Addresses \ {a} : rows'[b] = rows[b]
    BY <1>9, <1>7 DEF GoodRows
  <2>3. \A old : RowKept(old, old)
    BY DEF RowKept
  <2> QED  BY <1>9, <2>1, <2>2, <2>3
<1>12. \A b \in Addresses : tokens[b].share => tokens'[b].share
  BY <1>3, <1>9, TokensStay
<1>13. \A b \in Addresses : /\ tokens[b] # NoToken => ts[b] # NoToken
                            /\ ts[b] # NoToken => tokens'[b] # NoToken
  BY <1>3, <1>9, TokensStay
<1>14. new.product = updated.product
  BY <1>6 DEF Completed
<1>15. ASSUME new.kind \in Stakes, new.product # NoAddress
       PROVE  new.product \in Addresses \ {a} /\ ts[new.product] # NoToken
  <2>1. /\ new.kind = chain.kind[a] /\ new.kind \notin ProductKinds
        /\ new.product = chain.target[a][PricingRelation(new.kind)]
    <3>1. Sound(rows', a, new) /\ new.kind \in {NoKind, "UNKNOWN", chain.kind[a]}
      BY <1>9, <1>10 DEF GoodRows
    <3> QED  BY <1>10, <1>15, <3>1, KindFacts DEF Sound, KnownKinds
  <2>2. new.product \in Addresses \ {a}
    BY <1>7, <1>15, <2>1, PricingTarget
  <2>3. CASE updated.product = row.product
    <3>1. row = rows[a]
      BY <1>14, <1>15, <2>3 DEF NewRow
    <3>2. tokens[row.product] # NoToken
      BY <1>10, <1>14, <1>15, <2>3, <3>1 DEF ProductsSeen
    <3> QED  BY <1>13, <1>14, <2>2, <2>3, <3>2
  <2>4. CASE updated.product # row.product
    <3>1. needs /\ updated.product = Kept(ProductOf(a, row.kind, found), row.product)
      BY <1>4, <2>4 DEF Updated, WithFacts
    <3>2. PricingRelation(row.kind) \in found
      BY <1>10, <1>15, <2>1, <2>4, <3>1 DEF Kept, ProductOf
    <3>3. PricingRelation(row.kind) \in TokenRelations
      <4>1. PricingRelation(row.kind) \in Relations
        BY <1>10, <1>15, PricingLinks
      <4>2. PricingRelation(row.kind) \in {"BOOST_STAKED", "REWARD_POOL_STAKED"}
        BY <1>10, <1>15 DEF Stakes, PricingRelation
      <4> QED  BY <4>1, <4>2 DEF TokenRelations
    <3>4. new.product \in asked
      BY <1>10, <2>1, <3>1, <3>2, <3>3 DEF Asked
    <3>5. CASE new.product \in read
      <4>1. DOMAIN answers = read
        BY <1>2 DEF Answers
      <4> QED  BY <1>3, <2>2, <3>5, <4>1, TokensStay
    <3>6. CASE new.product \notin read
      <4>1. tokens[new.product] # NoToken
        BY <3>4, <3>6 DEF TokensRead, ReadsToken
      <4> QED  BY <1>13, <2>2, <4>1
    <3> QED  BY <3>5, <3>6
  <2> QED  BY <2>2, <2>3, <2>4
<1>16. ProductsSeen'
  <2> SUFFICES ASSUME NEW b \in Addresses, rows'[b].kind \in Stakes, rows'[b].product # NoAddress
               PROVE  tokens'[rows'[b].product] # NoToken
    BY DEF ProductsSeen
  <2>1. CASE b = a
    BY <1>9, <1>13, <1>15, <2>1
  <2>2. CASE b # a
    <3>1. rows'[b] = rows[b] /\ rows[b] \in Row \cup {NoRow}
      BY <1>7, <1>9, <2>2 DEF GoodRows
    <3>2. rows[b].product \in Addresses /\ tokens[rows[b].product] # NoToken
      BY <3>1 DEF ProductsSeen, Row, NoRow, NewRow
    <3> QED  BY <1>13, <3>1, <3>2
  <2> QED  BY <2>1, <2>2
<1>17. ASSUME new.kind \in Stakes, new.product # NoAddress,
              StakedPriceFacts(rows', tokens', new.kind, new.product) # Unpriced
       PROVE  LET facts == StakedPriceFacts(rows', tokens', new.kind, new.product)
              IN  new.decimals = facts.decimals /\ new.productKind = facts.productKind
  <2>1. new.product \in Addresses \ {a} /\ ts[new.product] # NoToken
    BY <1>15, <1>17
  <2>2. rows'[new.product] = rs[new.product]
    BY <1>5, <1>7, <1>9, <2>1 DEF GoodRows
  <2>3. tokens'[new.product] = ts[new.product]
    <3>1. new.product \notin asked => tokens[new.product] = ts[new.product]
      <4>1. DOMAIN answers = read
        BY <1>2 DEF Answers
      <4> QED  BY <1>3, <2>1, <4>1 DEF TokensAfter, TokensRead
    <3>2. new.product \notin also
      BY <2>1, <3>1 DEF TokensRead, ReadsToken
    <3>3. DOMAIN others = also
      BY <1>2 DEF Answers
    <3> QED  BY <1>9, <2>1, <3>2, <3>3 DEF TokensAfter
  <2>4. PICK facts : facts = StakedPriceFacts(rs, ts, updated.kind, updated.product)
    OBVIOUS
  <2>5. StakedPriceFacts(rows', tokens', new.kind, new.product) = facts
    BY <1>8, <1>10, <1>14, <2>2, <2>3, <2>4 DEF StakedPriceFacts, PricedByToken
  <2>6. updated.kind \in Stakes /\ updated.product # NoAddress /\ facts # Unpriced
    BY <1>8, <1>10, <1>14, <1>17, <2>5
  <2>7. CASE Priced(updated)
    <3>1. new = updated
      BY <1>6, <2>7 DEF Completed
    <3>2. updated.decimals = facts.decimals /\ updated.productKind = facts.productKind
      BY <1>7, <1>8, <1>9, <2>4, <2>6, <2>7, FactsAgree
    <3> QED  BY <2>5, <3>1, <3>2
  <2>8. CASE ~Priced(updated)
    <3>1. new = [updated EXCEPT !.decimals = facts.decimals, !.productKind = facts.productKind]
      BY <1>6, <2>4, <2>6, <2>8 DEF Completed
    <3>2. new.decimals = facts.decimals /\ new.productKind = facts.productKind
      BY <1>8, <3>1 DEF Row
    <3> QED  BY <2>5, <3>2
  <2> QED  BY <2>7, <2>8
<1>18. links \subseteq links'
  BY <1>2
<1> QED  BY <1>9, <1>11, <1>12, <1>16, <1>17, <1>18

\* The invariant both rest on, with the pricing of the stake a handler goes on with.
KnownInv == CompleteInv /\ ProductsSeen /\ PricedByProduct

LEMMA NextKnown == KnownInv /\ [Next]_vars => KnownInv'
<1> SUFFICES ASSUME KnownInv, [Next]_vars  PROVE KnownInv'
  OBVIOUS
<1>1. CompleteInv' /\ Inv /\ ProductsSeen
  BY NextComplete DEF KnownInv, CompleteInv
<1>2. CASE NextBlock
  BY <1>1, <1>2 DEF NextBlock, KnownInv, ProductsSeen, PricedByProduct
<1>3. ASSUME NEW a \in Addresses, Created(a) \/ Handled(a)  PROVE KnownInv'
  <2>1. PICK row \in Row, seen \in SUBSET Addresses :
            /\ row.kind \in {"UNKNOWN", chain.kind[a]}
            /\ row = rows[a] \/ (row = NewRow(row.kind) /\ rows[a].kind \in {NoKind, "UNKNOWN"})
            /\ Finish(a, row, seen)
            /\ UNCHANGED <<chain, block>> /\ handled' \in {a, NoAddress}
    BY <1>1, <1>3, HandlerStarts
  <2>2. /\ ProductsSeen'
        /\ LET new == rows'[a]
               facts == StakedPriceFacts(rows', tokens', new.kind, new.product)
           IN  new.kind \in Stakes /\ new.product # NoAddress /\ facts # Unpriced =>
                   new.decimals = facts.decimals /\ new.productKind = facts.productKind
    BY <1>1, <2>1, FinishKnows
  <2>3. PricedByProduct'
    BY <2>1, <2>2 DEF PricedByProduct, StakedPriceFacts, PricedByToken
  <2> QED  BY <1>1, <2>2, <2>3 DEF KnownInv
<1>4. CASE UNCHANGED vars
  BY <1>1, <1>4 DEF vars, KnownInv, ProductsSeen, PricedByProduct, StakedPriceFacts, PricedByToken
<1> QED  BY <1>2, <1>3, <1>4 DEF Next

LEMMA InitKnown == Init => KnownInv
<1> SUFFICES ASSUME Init  PROVE ProductsSeen /\ PricedByProduct
  BY InitComplete DEF KnownInv
<1>1. ProductsSeen
  BY DEF Init, ProductsSeen, NoRow, NewRow
<1>2. PricedByProduct
  BY DEF Init, PricedByProduct
<1> QED  BY <1>1, <1>2

\* The row a stake's handler goes on with is priced as its product is known at that moment,
\* in whichever order the two registered (PricedByProduct).
THEOREM StakesPriced == Spec => []PricedByProduct
<1>1. KnownInv => PricedByProduct
  BY DEF KnownInv
<1> QED  BY <1>1, InitKnown, NextKnown, PTL DEF Spec

\* A step forgets nothing.
LEMMA NextRemembers ==
    ASSUME KnownInv, [Next]_vars
    PROVE  /\ \A a \in Addresses : /\ RowKept(rows[a], rows'[a])
                                   /\ tokens[a].status = "OK" => tokens'[a].status = "OK"
                                   /\ tokens[a].share => tokens'[a].share
           /\ links \subseteq links'
<1>1. CompleteInv /\ Inv /\ ProductsSeen
  BY DEF KnownInv, CompleteInv
<1>2. CASE NextBlock \/ UNCHANGED vars
  BY <1>2 DEF NextBlock, vars, RowKept
<1>3. ASSUME NEW a \in Addresses, Created(a) \/ Handled(a)
      PROVE  /\ \A b \in Addresses : /\ RowKept(rows[b], rows'[b])
                                     /\ tokens[b].status = "OK" => tokens'[b].status = "OK"
                                     /\ tokens[b].share => tokens'[b].share
             /\ links \subseteq links'
  <2>1. PICK row \in Row, seen \in SUBSET Addresses :
            /\ row.kind \in {"UNKNOWN", chain.kind[a]}
            /\ row = rows[a] \/ (row = NewRow(row.kind) /\ rows[a].kind \in {NoKind, "UNKNOWN"})
            /\ Finish(a, row, seen)
            /\ UNCHANGED <<chain, block>> /\ handled' \in {a, NoAddress}
    BY <1>1, <1>3, HandlerStarts
  <2>2. /\ \A b \in Addresses : RowKept(rows[b], rows'[b]) /\ (tokens[b].share => tokens'[b].share)
        /\ links \subseteq links'
    BY <1>1, <2>1, FinishKnows
  <2>3. row = rows[a] \/ row.status = "none"
    BY <2>1 DEF NewRow
  <2>4. \A t \in Addresses : tokens[t].status = "OK" => tokens'[t].status = "OK"
    BY <1>1, <2>1, <2>3, FinishComplete
  <2> QED  BY <2>2, <2>4
<1> QED  BY <1>2, <1>3 DEF Next

\* What the registry knows it never forgets, whatever fails on a later read
\* (NothingForgotten).
THEOREM RegistryForgetsNothing == Spec => NothingForgotten
<1>1. KnownInv /\ [Next]_vars =>
        [/\ \A a \in Addresses :
            /\ rows[a].kind \in KnownKinds => rows'[a].kind = rows[a].kind
            /\ rows[a].product # NoAddress => rows'[a].product = rows[a].product
            /\ rows[a].decimals # NoAddress =>
                /\ rows'[a].decimals # NoAddress
                /\ rows[a].productKind # "UNKNOWN" => /\ rows'[a].decimals = rows[a].decimals
                                                     /\ rows'[a].productKind = rows[a].productKind
            /\ tokens[a].status = "OK" => tokens'[a].status = "OK"
            /\ tokens[a].share => tokens'[a].share
         /\ links \subseteq links']_vars
  BY NextRemembers DEF RowKept
<1> QED  BY <1>1, InitKnown, NextKnown, PTL DEF Spec, NothingForgotten
=============================================================================
