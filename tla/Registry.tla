-------------------------------- MODULE Registry --------------------------------
(***************************************************************************)
(* The indexer's registry of one chain (apps/indexer/src/lib/registry.ts): *)
(* the Contract, Token and ContractLink rows, written by the factory       *)
(* events and by every product handler, from on-chain reads of which some  *)
(* calls may fail (effects/facts.effects.ts, effects/token.effects.ts).    *)
(*                                                                         *)
(* A handler is one step: handlers of a chain run one after the other, in  *)
(* log order, and what they read within a step they read at latest.  An    *)
(* answer's value never changes on chain; whether it comes is a choice.    *)
(***************************************************************************)
EXTENDS Naturals, FiniteSets

CONSTANTS
    Addresses,
    Chains,             \* the chains to choose from: what the addresses really are
    NoAddress,
    FactsRetryBlocks,   \* FACTS_RETRY_BLOCKS
    MaxBlock            \* bound: the last block

\* readFacts: the links a kind's one-time read gives.
LinksOf == [
    VAULT           |-> {"VAULT_WANT"},
    STRATEGY        |-> {"STRATEGY_VAULT"},
    CLM_STRATEGY    |-> {"CLM_STRATEGY_MANAGER", "CLM_POOL"},
    BOOST           |-> {"BOOST_STAKED", "BOOST_REWARD"},
    REWARD_POOL     |-> {"REWARD_POOL_STAKED"},
    CLM_MANAGER     |-> {"CLM_WANT0", "CLM_WANT1"},
    ERC4626_ADAPTER |-> {"ADAPTER_VAULT"},
    LST_VAULT       |-> {"VAULT_WANT"},
    TOKEN           |-> {},
    SWAPPER         |-> {},
    UNKNOWN         |-> {}]

Kinds == DOMAIN LinksOf
KnownKinds == Kinds \ {"UNKNOWN"}
Relations == UNION {LinksOf[k] : k \in Kinds}
TokenRelations == Relations \ {"STRATEGY_VAULT", "CLM_STRATEGY_MANAGER", "CLM_POOL"}

ShareTokenKinds == KnownKinds \ {"STRATEGY", "CLM_STRATEGY", "SWAPPER"}
NonErc20Kinds == {"BOOST"}
ProductKinds == {"VAULT", "CLM_MANAGER"}
Stakes == {"BOOST", "REWARD_POOL"}

\* The relation whose target a contract is priced by (a CLM is priced by itself).
PricingRelation(k) == CASE k = "VAULT" -> "VAULT_WANT"
                        [] k = "BOOST" -> "BOOST_STAKED"
                        [] k = "REWARD_POOL" -> "REWARD_POOL_STAKED"

\* What a chain holds: each Beefy contract's kind (UNKNOWN: the address is not one), what
\* its links lead to, and which addresses answer as an ERC-20.
IsChain(c) ==
    /\ c.kind \in [Addresses -> Kinds]
    /\ c.target \in [Addresses -> [Relations -> Addresses]]
    /\ c.erc20 \subseteq Addresses
    /\ \A a \in Addresses : \A r \in LinksOf[c.kind[a]] : c.target[a][r] # a

ASSUME RegistryAssumption ==
    /\ NoAddress \notin Addresses
    /\ \A c \in Chains : IsChain(c)
    /\ FactsRetryBlocks \in Nat \ {0}
    /\ MaxBlock \in Nat \ {0}

NoKind == "none"
NoBlock == 0

VARIABLES
    chain,      \* what the addresses are, never changed
    block,      \* of the current event
    rows,       \* the Contract rows
    tokens,     \* the Token rows
    links,      \* the READ rows of ContractLink: the contracts and relations that have one
    factsRead,  \* effect cache: the contracts whose complete facts are kept
    tokenRead,  \* effect cache: the tokens whose complete metadata is kept
    handled     \* the contract whose product event the last step handled

vars == <<chain, block, rows, tokens, links, factsRead, tokenRead, handled>>

\* decimals is the token whose decimals are the price decimals: the number is the token's.
Row == [kind : Kinds, factsBlock : Nat, status : {"none", "PARTIAL", "OK"},
        product : Addresses \cup {NoAddress},
        decimals : Addresses \cup {NoAddress}, productKind : Kinds \cup {NoKind}]
Unpriced == [decimals |-> NoAddress, productKind |-> NoKind]
NewRow(k) == [kind |-> k, factsBlock |-> NoBlock, status |-> "none", product |-> NoAddress,
              decimals |-> NoAddress, productKind |-> NoKind]
NoRow == NewRow(NoKind)
Token == [status : {"none", "INVALID", "OK"}, decimals : BOOLEAN, share : BOOLEAN]
NoToken == [status |-> "none", decimals |-> FALSE, share |-> FALSE]

TypeOK ==
    /\ chain \in Chains
    /\ block \in 1..MaxBlock
    /\ rows \in [Addresses -> Row \cup {NoRow}]
    /\ tokens \in [Addresses -> Token]
    /\ links \subseteq Addresses \X Relations
    /\ factsRead \subseteq Addresses /\ tokenRead \subseteq Addresses
    /\ handled \in Addresses \cup {NoAddress}

Init ==
    /\ chain \in Chains
    /\ block = 1
    /\ rows = [a \in Addresses |-> NoRow]
    /\ tokens = [a \in Addresses |-> NoToken]
    /\ links = {}
    /\ factsRead = {} /\ tokenRead = {}
    /\ handled = NoAddress

NextBlock ==
    /\ block < MaxBlock
    /\ block' = block + 1
    /\ handled' = NoAddress
    /\ UNCHANGED <<chain, rows, tokens, links, factsRead, tokenRead>>

-----------------------------------------------------------------------------
(* The reads.                                                              *)

\* The links a read of a contract's facts may give: each call may fail but the two wants of
\* a CLM are one call.  A complete answer is cached, and is the answer from then on.
FactAnswers(a, k) ==
    IF a \in factsRead THEN {LinksOf[k]}
    ELSE IF k = "CLM_MANAGER" THEN {{}, LinksOf[k]}
    ELSE SUBSET LinksOf[k]

\* Token metadata: all of it, the decimals without a name or a symbol, or no decimals.
TokenAnswers(t) ==
    IF t \in tokenRead THEN {"ok"}
    ELSE IF t \in chain.erc20 THEN {"ok", "decimals", "nothing"}
    ELSE {"nothing"}

CachesNone(answer) == FALSE
Caches(answer) == answer = "ok"

\* tokenRow: whether the metadata is read.
ReadsToken(row, share, retry) ==
    \/ row = NoToken
    \/ share /\ ~row.share
    \/ retry /\ row.status # "OK"

TokenRow(row, share, answer) ==
    [status |-> IF answer = "ok" THEN "OK" ELSE "INVALID",
     decimals |-> answer # "nothing",
     share |-> share \/ row.share]

\* The Token rows ts after tokenRow for each token of asked, the ones of shares being asked
\* for as share tokens, and the metadata read for it.
TokensRead(ts, asked, shares, retry) ==
    {t \in asked : ReadsToken(ts[t], t \in shares, retry)}
TokensAfter(ts, shares, answers) ==
    [t \in Addresses |->
        IF t \in DOMAIN answers THEN TokenRow(ts[t], t \in shares, answers[t]) ELSE ts[t]]
CachedOf(answers) == {t \in DOMAIN answers : Caches(answers[t])}
Answers(read) == {f \in [read -> {"ok", "decimals", "nothing"}] : \A t \in read : f[t] \in TokenAnswers(t)}

-----------------------------------------------------------------------------
(* The price facts.                                                        *)

PricedByToken(ts, t, k) ==
    IF ts[t].decimals THEN [decimals |-> t, productKind |-> k] ELSE Unpriced

StakedPriceFactsOfToken(rs, ts, kind, product) ==
    PricedByToken(ts, product, rs[product].kind)

\* stakedPriceFacts: a product's own price decimals, any other known contract's decimals; a
\* reward pool may stake what is no known contract, its token's decimals.
StakedPriceFacts(rs, ts, kind, product) ==
    LET row == rs[product]
    IN  CASE row.kind \in {NoKind, "UNKNOWN"} ->
                IF kind = "REWARD_POOL" THEN PricedByToken(ts, product, "UNKNOWN") ELSE Unpriced
          [] row.kind \in ProductKinds ->
                IF row.decimals = NoAddress THEN Unpriced
                ELSE [decimals |-> row.decimals, productKind |-> row.kind]
          [] OTHER -> PricedByToken(ts, product, row.kind)

PricedOnce(row) == row.decimals # NoAddress
Priced(row) == row.decimals # NoAddress /\ row.productKind # "UNKNOWN"

\* completePriceFacts
Completed(rs, ts, row) ==
    LET facts == StakedPriceFacts(rs, ts, row.kind, row.product)
    IN  IF row.kind \notin Stakes \/ row.product = NoAddress \/ Priced(row) \/ facts = Unpriced THEN row
        ELSE [row EXCEPT !.decimals = facts.decimals, !.productKind = facts.productKind]

-----------------------------------------------------------------------------
(* The handlers.                                                           *)

NeedsFacts(row) ==
    /\ row.kind # "UNKNOWN"
    /\ \/ row.factsBlock = NoBlock
       \/ row.status = "PARTIAL" /\ block >= row.factsBlock + FactsRetryBlocks

\* applyFacts: the row of a, whose links found gave, with the Token rows ts.
FactsStatus(a, k, ts, found) ==
    LET needed == {chain.target[a][r] : r \in found \cap TokenRelations}
                  \cup (IF k \in ShareTokenKinds \ NonErc20Kinds THEN {a} ELSE {})
    IN  IF found = LinksOf[k] /\ \A t \in needed : ts[t].status = "OK" THEN "OK" ELSE "PARTIAL"

ProductOf(a, k, found) ==
    IF k \in ProductKinds THEN a
    ELSE IF k \in Stakes /\ PricingRelation(k) \in found THEN chain.target[a][PricingRelation(k)]
    ELSE NoAddress

OwnDecimals(a, k, ts, found) ==
    LET token == IF k = "VAULT" /\ PricingRelation(k) \in found THEN chain.target[a][PricingRelation(k)]
                 ELSE IF k = "CLM_MANAGER" THEN a
                 ELSE NoAddress
    IN  IF token # NoAddress /\ ts[token].decimals THEN token ELSE NoAddress

KeptForgotten(new, old) == new
\* "a later read never forgets a fact an earlier one found"
Kept(new, old) == IF new = NoAddress THEN old ELSE new

WithFacts(a, row, ts, found) ==
    LET decimals == OwnDecimals(a, row.kind, ts, found)
    IN  [kind |-> row.kind,
         factsBlock |-> block,
         status |-> FactsStatus(a, row.kind, ts, found),
         product |-> Kept(ProductOf(a, row.kind, found), row.product),
         decimals |-> Kept(decimals, row.decimals),
         productKind |-> IF decimals = NoAddress THEN row.productKind ELSE row.kind]

\* The tokens applyFacts asks for: its own, if it is a share, and its links'.
Asked(a, k, found) ==
    {chain.target[a][r] : r \in found \cap TokenRelations} \cup {t \in {a} : k \in ShareTokenKinds}

\* The rest of a handler, once the contract's row is row: its facts, read or completed, and
\* ensureToken for the tokens of seen.
Finish(a, row, seen) ==
    \E found \in IF NeedsFacts(row) THEN FactAnswers(a, row.kind) ELSE {{}} :
        LET asked == IF NeedsFacts(row) THEN Asked(a, row.kind, found) ELSE {}
            read == TokensRead(tokens, asked, {a}, TRUE)
            also == TokensRead(tokens, seen \ asked, {}, FALSE)
        IN  \E answers \in Answers(read), others \in Answers(also) :
                LET ts == TokensAfter(tokens, {a}, answers)
                    updated == IF NeedsFacts(row) THEN WithFacts(a, row, ts, found) ELSE row
                IN  /\ rows' = [rows EXCEPT ![a] = Completed([rows EXCEPT ![a] = updated], ts, updated)]
                    /\ tokens' = TokensAfter(ts, {}, others)
                    /\ tokenRead' = tokenRead \cup CachedOf(answers) \cup CachedOf(others)
                    /\ links' = links \cup ({a} \X found)
                    /\ factsRead' = IF NeedsFacts(row) /\ found = LinksOf[row.kind]
                                    THEN factsRead \cup {a} ELSE factsRead

\* registerCreatedContract: the first established kind wins.
Replaces(old, k) == old = NoRow \/ (old.kind = "UNKNOWN" /\ k # "UNKNOWN")

\* A factory event: the kind is the contract's, or unknown (a failed classification read, a
\* ContractDeployed).
Created(a) ==
    \E k \in {chain.kind[a], "UNKNOWN"} :
        /\ Replaces(rows[a], k)
        /\ Finish(a, NewRow(k), {})
        /\ handled' = NoAddress
        /\ UNCHANGED <<chain, block>>

\* The tokens a handler ensures itself: a reward pool's AddReward, a swapper's SetSwapInfo.
SeenBy(k) == CASE k = "REWARD_POOL" -> {{}} \cup {{t} : t \in Addresses}
               [] k = "SWAPPER" -> {{}} \cup {{t, u} : t, u \in Addresses}
               [] OTHER -> {{}}

\* A product event of a, through ensureContract: first seen here if config.yaml lists it.
\* The handlers of other kinds, which an unclassified proxy is routed to as well, and all of
\* them while the row is UNKNOWN, change nothing.
Handled(a) ==
    LET k == chain.kind[a]
    IN  /\ k # "UNKNOWN"
        /\ rows[a].kind \in {NoKind, k}
        /\ \E seen \in SeenBy(k) : Finish(a, IF rows[a] = NoRow THEN NewRow(k) ELSE rows[a], seen)
        /\ handled' = a
        /\ UNCHANGED <<chain, block>>

Next ==
    \/ NextBlock
    \/ \E a \in Addresses : Created(a) \/ Handled(a)

Spec == Init /\ [][Next]_vars

-----------------------------------------------------------------------------
\* What the registry knows it never forgets, whatever fails on a later read: an established
\* kind (architecture.md:45), a product, price decimals, links, a token's metadata and
\* that it is a share.  Only a reward pool's provisional decimals give way, to those of
\* its product.
NothingForgotten ==
    [][/\ \A a \in Addresses :
            /\ rows[a].kind \in KnownKinds => rows'[a].kind = rows[a].kind
            /\ rows[a].product # NoAddress => rows'[a].product = rows[a].product
            /\ rows[a].decimals # NoAddress =>
                /\ rows'[a].decimals # NoAddress
                /\ rows[a].productKind # "UNKNOWN" => /\ rows'[a].decimals = rows[a].decimals
                                                     /\ rows'[a].productKind = rows[a].productKind
            /\ tokens[a].status = "OK" => tokens'[a].status = "OK"
            /\ tokens[a].share => tokens'[a].share
       /\ links \subseteq links']_vars

\* The token that sets the price decimals of a product, were all of it known.
TrueDecimals(p) == IF chain.kind[p] = "VAULT" THEN chain.target[p]["VAULT_WANT"] ELSE p

\* The price facts of a row are those of its product: together, under the product's kind as
\* registered, or UNKNOWN, which only a reward pool's may be, with the decimals of the token
\* that prices it.  They are copied once, from whatever the rows said at that moment.
PriceFactsSound ==
    \A a \in Addresses : LET row == rows[a] IN
        /\ row.decimals = NoAddress <=> row.productKind = NoKind
        /\ row.product # NoAddress =>
            row.product = IF row.kind \in ProductKinds THEN a
                          ELSE chain.target[a][PricingRelation(row.kind)]
        /\ row.decimals # NoAddress =>
            /\ row.product # NoAddress
            /\ IF row.productKind = "UNKNOWN"
               THEN row.kind = "REWARD_POOL" /\ row.decimals = row.product
               ELSE /\ row.productKind = rows[row.product].kind
                    /\ row.decimals = TrueDecimals(row.product)

\* A stake's event is priced by its product as soon as the product's facts are there
\* (registry.ts:240): in whichever order the two register and their reads succeed, the row
\* its handler goes on with has them.
PricedByProduct ==
    handled # NoAddress =>
        LET row == rows[handled]
            facts == StakedPriceFacts(rows, tokens, row.kind, row.product)
        IN  (row.kind \in Stakes /\ row.product # NoAddress /\ facts # Unpriced) =>
                /\ row.decimals = facts.decimals
                /\ row.productKind = facts.productKind

\* Facts that are OK are never read again, so what they stand for must stay: every link has
\* its row and every token its metadata, though other contracts write those Token rows too.
FactsComplete ==
    \A a \in Addresses : rows[a].status = "OK" =>
        /\ {a} \X LinksOf[rows[a].kind] \subseteq links
        /\ \A r \in LinksOf[rows[a].kind] \cap TokenRelations : tokens[chain.target[a][r]].status = "OK"
        /\ rows[a].kind \in ShareTokenKinds \ NonErc20Kinds => tokens[a].status = "OK"
=============================================================================
