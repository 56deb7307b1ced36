---------------------------- MODULE IntegrityAudit ----------------------------
(***************************************************************************)
(* The post-sync integrity audit (apps/indexer/scripts/integrity): what    *)
(* the Beefy API and config.yaml list against what is indexed, then the    *)
(* probes of the registry and of the ledger, each a statement of its own,  *)
(* and the exit code.  The index no longer moves; what may be wrong with   *)
(* it is chosen at the start, out of the ways an indexer goes wrong.       *)
(***************************************************************************)
EXTENDS Integers, Sequences, SequencesExt, Functions

CONSTANTS
    KindOf,         \* the contracts of the chains, by id (chain, address): their kind
    Selected,       \* the chains audited
    ListOf,         \* by id: the list of products it is on, or "none"
    Deltas          \* by share token and account: the changes of the balance

VARIABLES
    damage,                     \* what is wrong: [what, id, of]
    statuses, blacklist,        \* by id: the statuses it is listed with; the ids blacklisted
    contracts, links, tokens,   \* the registry's tables
    steps, balances, supplies,  \* the ledger's
    pools,                      \* ClmPoolState: whether the read of each manager's pool failed
    pc,
    catalog, indexed,           \* the products listed; per entity the ids indexed
    probed, findings            \* how many probes have run, and what was found

index == <<damage, statuses, blacklist, contracts, links, tokens, steps, balances, supplies, pools>>
vars == <<index, pc, catalog, indexed, probed, findings>>

Ids == DOMAIN KindOf
ChainOf(id) == id[1]

-----------------------------------------------------------------------------
(* What is expected of the registry (checks.ts).                           *)

Link(kind, relation, severity) == [kind |-> kind, relation |-> relation, severity |-> severity]
RequiredLinks ==
    <<Link("VAULT", "VAULT_WANT", "error"),
      Link("BOOST", "BOOST_STAKED", "error"), Link("BOOST", "BOOST_REWARD", "warning"),
      Link("REWARD_POOL", "REWARD_POOL_STAKED", "error"),
      Link("CLM_MANAGER", "CLM_WANT0", "error"), Link("CLM_MANAGER", "CLM_WANT1", "error"),
      Link("CLM_STRATEGY", "CLM_STRATEGY_MANAGER", "warning"), Link("CLM_STRATEGY", "CLM_POOL", "warning"),
      Link("STRATEGY", "STRATEGY_VAULT", "warning"),
      Link("ERC4626_ADAPTER", "ADAPTER_VAULT", "warning")>>

ShareTokenKinds ==
    {"VAULT", "BOOST", "REWARD_POOL", "CLM_MANAGER", "ERC4626_ADAPTER", "LST_VAULT", "TOKEN"}
CatalogKinds == {"VAULT", "BOOST", "REWARD_POOL", "CLM_MANAGER", "LST_VAULT", "SWAPPER"}

-----------------------------------------------------------------------------
(* The catalog (catalog.ts): the API's lists and the configured products.  *)

EntityOf == [vaults |-> "Classic", cows |-> "Clm", govs |-> "RewardPool", boosts |-> "ClassicBoost",
             LstVault |-> "LstVault", BeefySwapper |-> "Swapper"]
Entities == Range(EntityOf)
EntityKinds ==
    [Classic |-> {"VAULT"}, Clm |-> {"CLM_MANAGER"}, RewardPool |-> {"REWARD_POOL", "BOOST"},
     ClassicBoost |-> {"BOOST"}, LstVault |-> {"LST_VAULT"}, Swapper |-> {"SWAPPER"}]

isLiveStatus(status) == status \in {"active", "paused"}

\* addProduct: one entry per entity and id, live if any of its rows is.
LiveIfAll(id) == \A status \in statuses[id] : isLiveStatus(status)
Live(id) == \E status \in statuses[id] : isLiveStatus(status)

On(list) == {id \in Ids : ListOf[id] = list /\ ChainOf(id) \in Selected}

\* collectVaults, of each list of the API, and configuredProducts, of each in config.yaml.
Collected(list) == {[entity |-> EntityOf[list], id |-> id, live |-> Live(id)] : id \in On(list)}
Configured(list) == {[entity |-> EntityOf[list], id |-> id, live |-> TRUE] : id \in On(list)}
Catalog ==
    UNION ({Collected(list) : list \in {"vaults", "cows", "govs", "boosts"}}
           \cup {Configured(list) : list \in {"LstVault", "BeefySwapper"}})
CatalogIds == {product.id : product \in catalog}

-----------------------------------------------------------------------------
(* The index as it should be, and as it is with something wrong.           *)

Relations(id) == {l.relation : l \in {r \in Range(RequiredLinks) : r.kind = KindOf[id]}}
Known(id) == KindOf[id] # "UNKNOWN"
Nothing == [what |-> "nothing", id |-> CHOOSE id \in Ids : TRUE, of |-> "none"]
Damage(what, ids, of) == [what : {what}, id : ids, of : of]
Ledger(what) == UNION {Damage(what, {token}, DOMAIN Deltas[token]) : token \in DOMAIN Deltas}
ShareTokens == {id \in Ids : KindOf[id] \in ShareTokenKinds}

Damages ==
    {Nothing}
    \cup Damage("no-contract", Ids, {"none"})
    \cup Damage("unclassified", {id \in Ids : Known(id)}, {"none"})
    \cup Damage("id-drift", Ids, {"none"})
    \cup UNION {Damage("no-link", {id}, Relations(id)) : id \in Ids}
    \cup UNION {Damage("zero-link", {id}, Relations(id)) : id \in Ids}
    \cup Damage("no-token", ShareTokens, {"none"})
    \cup Damage("invalid-token", ShareTokens, {"none"})
    \cup Damage("unread", {id \in Ids : Known(id)}, {"none"})
    \cup Damage("partial", {id \in Ids : Known(id)}, {"none"})
    \cup Damage("pool-unread", {id \in Ids : KindOf[id] = "CLM_MANAGER"}, {"none"})
    \cup Ledger("lost-first-step") \cup Ledger("lost-last-step") \cup Ledger("balance-off")
    \cup Damage("supply-low", DOMAIN Deltas, {"none"})

\* Whether d is wrong with this contract.
Is(d, what, id) == d.what = what /\ d.id = id
FactsRead(d, id) == Known(id) /\ ~Is(d, "unclassified", id) /\ ~Is(d, "unread", id)

ContractRow(d, id) ==
    [id |-> id,
     rowId |-> IF Is(d, "id-drift", id) THEN <<"other", id>> ELSE <<"own", id>>,
     kind |-> IF Is(d, "unclassified", id) THEN "UNKNOWN" ELSE KindOf[id],
     facts |-> IF ~FactsRead(d, id) THEN "unread" ELSE IF Is(d, "partial", id) THEN "partial" ELSE "complete"]

\* The balance steps of an account, each with the balance after it.
After(changes, i) == FoldSeq(LAMBDA delta, sum : sum + delta, 0, SubSeq(changes, 1, i))
StepsOf(changes) == [i \in DOMAIN changes |-> [delta |-> changes[i], after |-> After(changes, i)]]

Init ==
    /\ damage \in Damages
    /\ \E listing \in {{"active"}, {"paused"}, {"eol"}, {"eol", "active"}} :
        statuses = [id \in Ids |->
                        IF id = damage.id /\ ListOf[id] \notin {"LstVault", "BeefySwapper"}
                        THEN listing ELSE {"active"}]
    /\ blacklist \in SUBSET {damage.id}
    /\ contracts = {ContractRow(damage, id) : id \in {i \in Ids : ~Is(damage, "no-contract", i)}}
    /\ links = {[from |-> id, relation |-> relation, zero |-> Is(damage, "zero-link", id) /\ damage.of = relation] :
                   <<id, relation>> \in
                      {p \in Ids \X {l.relation : l \in Range(RequiredLinks)} :
                          /\ FactsRead(damage, p[1]) /\ p[2] \in Relations(p[1])
                          /\ ~(Is(damage, "no-link", p[1]) /\ damage.of = p[2])}}
    /\ tokens = {[id |-> id, valid |-> ~Is(damage, "invalid-token", id)] :
                    id \in {i \in ShareTokens : FactsRead(damage, i) /\ ~Is(damage, "no-token", i)}}
    /\ pools = [id \in {i \in Ids : KindOf[i] = "CLM_MANAGER"} |-> ~Is(damage, "pool-unread", id)]
    /\ steps = [token \in DOMAIN Deltas |-> [account \in DOMAIN Deltas[token] |->
                  LET all == StepsOf(Deltas[token][account])
                      here == damage.id = token /\ damage.of = account
                  IN  IF here /\ damage.what = "lost-first-step" THEN Tail(all)
                      ELSE IF here /\ damage.what = "lost-last-step" THEN Front(all) ELSE all]]
    /\ balances = [token \in DOMAIN Deltas |-> [account \in DOMAIN Deltas[token] |->
                     After(Deltas[token][account], Len(Deltas[token][account]))
                       - (IF Is(damage, "balance-off", token) /\ damage.of = account THEN 1 ELSE 0)]]
    /\ supplies = [token \in DOMAIN Deltas |->
                     FoldFunction(LAMBDA changes, sum : sum + After(changes, Len(changes)), 0, Deltas[token])
                       - (IF Is(damage, "supply-low", token) THEN 1 ELSE 0)]
    /\ pc = "loading"
    /\ catalog = {} /\ indexed = [entity \in Entities |-> {}]
    /\ probed = 0 /\ findings = {}

-----------------------------------------------------------------------------
(* Loading (cli.ts), and the coverage of the catalog.                      *)

\* fetchContractIds: the ids as the rows say them.
IndexedIds(entity) ==
    {row.rowId : row \in {c \in contracts : c.kind \in EntityKinds[entity] /\ ChainOf(c.id) \in Selected}}

Load ==
    /\ pc = "loading"
    /\ pc' = "covering"
    /\ catalog' = Catalog
    /\ indexed' = [entity \in Entities |-> IndexedIds(entity)]
    /\ UNCHANGED <<index, probed, findings>>

Found(check, severity, rows) == IF rows = {} THEN {} ELSE {[check |-> check, severity |-> severity]}

\* diffCoverage: missing, and neither blacklisted nor, for an error, closed.
MissingAlsoBlacklisted == {p \in catalog : <<"own", p.id>> \notin indexed[p.entity]}
Missing == {p \in catalog : <<"own", p.id>> \notin indexed[p.entity] /\ p.id \notin blacklist}
diffCoverage(entity) ==
    LET missing == {p \in Missing : p.entity = entity} IN
    Found("missing-active", IF entity = "Swapper" THEN "warning" ELSE "error", {p \in missing : p.live})
    \cup Found("missing-eol", "warning", {p \in missing : ~p.live})

Cover ==
    /\ pc = "covering"
    /\ pc' = "probing"
    /\ findings' = UNION {diffCoverage(entity) : entity \in Entities}
    /\ UNCHANGED <<index, catalog, indexed, probed>>

-----------------------------------------------------------------------------
(* The probes: the rows each finds on the chains selected and in its       *)
(* scope.                                                                  *)

\* scopePredicate
InScope(scope, id) == scope = "none" \/ id \in {<<"own", i>> : i \in CatalogIds}
Probe(check, severity, scope, rows) ==
    [check |-> check, severity |-> severity,
     rows |-> {row \in rows : ChainOf(row[2]) \in Selected /\ InScope(scope, row)}]

RowsWhere(Where(_)) == {row.rowId : row \in {c \in contracts : Where(c)}}

missingLink(l) ==
    Probe(l.relation, l.severity, IF l.kind \in CatalogKinds THEN "contract" ELSE "none",
          RowsWhere(LAMBDA c :
              /\ c.kind = l.kind /\ c.facts # "unread"
              /\ ~\E link \in links : link.from = c.id /\ link.relation = l.relation))

StructureProbes ==
    <<Probe("id-mismatch", "error", "none", RowsWhere(LAMBDA c : c.rowId # <<"own", c.id>>)),
      Probe("facts-unread", "warning", "contract", RowsWhere(LAMBDA c : c.facts = "unread" /\ c.kind # "UNKNOWN")),
      Probe("facts-partial", "warning", "contract", RowsWhere(LAMBDA c : c.facts = "partial")),
      Probe("unclassified-proxy", "warning", "none", RowsWhere(LAMBDA c : c.kind = "UNKNOWN"))>>
    \o [i \in DOMAIN RequiredLinks |-> missingLink(RequiredLinks[i])]
    \o <<Probe("zero-target", "error", "none", {<<"own", l.from>> : l \in {k \in links : k.zero}}),
         Probe("missing-share-token", "error", "contract",
               RowsWhere(LAMBDA c : /\ c.kind \in ShareTokenKinds /\ c.facts # "unread"
                                    /\ c.rowId \notin {<<"own", token.id>> : token \in tokens})),
         Probe("invalid-share-metadata", "warning", "contract",
               {<<"own", token.id>> : token \in {k \in tokens : ~k.valid}})>>

\* The balances of a token's accounts, by what is wrong with one.
TokensWhere(Where(_, _)) ==
    {<<"own", token>> : token \in {t \in DOMAIN steps : \E account \in DOMAIN steps[t] : Where(t, account)}}
PreviousAfter(s, i) == IF i = 1 THEN 0 ELSE s[i - 1].after
Discontinuous(s) == \E i \in DOMAIN s : s[i].after - s[i].delta # PreviousAfter(s, i)
Drifted(s, balance) == s # <<>> /\ Last(s).after # balance
TrackedSum(token) == FoldFunction(+, 0, balances[token])

SanityProbes ==
    <<Probe("negative", "error", "contract", TokensWhere(LAMBDA t, a : balances[t][a] < 0)),
      Probe("drift-from-last-change", "error", "contract",
            TokensWhere(LAMBDA t, a : Drifted(steps[t][a], balances[t][a]))),
      Probe("balance-discontinuity", "error", "contract", TokensWhere(LAMBDA t, a : Discontinuous(steps[t][a]))),
      Probe("negative-supply", "error", "contract", TokensWhere(LAMBDA t, a : supplies[t] < 0)),
      Probe("below-tracked-balances", "error", "contract",
            TokensWhere(LAMBDA t, a : TrackedSum(t) > supplies[t])),
      Probe("read-failed", "warning", "none", {<<"own", id>> : id \in {i \in DOMAIN pools : ~pools[i]}})>>

AllProbes == StructureProbes \o SanityProbes

RunProbe ==
    /\ pc = "probing" /\ probed < Len(AllProbes)
    /\ LET probe == AllProbes[probed + 1]
       IN  findings' = findings \cup Found(probe.check, probe.severity, probe.rows)
    /\ probed' = probed + 1
    /\ UNCHANGED <<index, pc, catalog, indexed>>

\* The exit code: 1 with any error.
Exit ==
    /\ pc = "probing" /\ probed = Len(AllProbes)
    /\ pc' = IF \E f \in findings : f.severity = "error" THEN "exit 1" ELSE "exit 0"
    /\ UNCHANGED <<index, catalog, indexed, probed, findings>>

\* A request to the API or to ClickHouse fails: main's catch exits as an error found does.
QueryFails ==
    /\ pc = "loading" \/ (pc = "probing" /\ probed < Len(AllProbes))
    /\ pc' = "exit 1"
    /\ UNCHANGED <<index, catalog, indexed, probed, findings>>

Next == Load \/ Cover \/ RunProbe \/ Exit \/ QueryFails
Spec == Init /\ [][Next]_vars

-----------------------------------------------------------------------------
(* What "Hard failures (missing active products, missing registry links /  *)
(* share tokens, id drift, ledger drift)" (cli.ts:8) are, said of what is  *)
(* wrong.                                                                  *)

Audited == ChainOf(damage.id) \in Selected
OnAList == Audited /\ ListOf[damage.id] # "none"
AccountSteps == Len(Deltas[damage.id][damage.of])
HardFailure ==
    \/ /\ damage.what \in {"no-contract", "unclassified"}
       /\ OnAList /\ KindOf[damage.id] # "SWAPPER"
       /\ damage.id \notin blacklist
       /\ statuses[damage.id] \cap {"active", "paused"} # {}
    \/ damage.what \in {"id-drift", "zero-link"} /\ Audited
    \/ damage.what \in {"no-token"} /\ OnAList
    \/ /\ damage.what = "no-link" /\ OnAList
       /\ damage.of \in {"VAULT_WANT", "BOOST_STAKED", "REWARD_POOL_STAKED", "CLM_WANT0", "CLM_WANT1"}
    \/ /\ damage.what \in {"lost-first-step", "lost-last-step", "balance-off", "supply-low"} /\ OnAList
       \* an account without any step is not compared with one
       /\ damage.what \in {"lost-first-step", "lost-last-step"} => AccountSteps > 1

\* The audit exits 0 only once every probe was answered and nothing is wrong that is a hard
\* failure; it exits 1 on a hard failure (not on a closed, blacklisted or unlisted product,
\* another chain's, or a warning), or when a request failed, which its exit code does not tell
\* from one (cli.ts:142-145).
AuditTells ==
    /\ pc = "exit 0" => probed = Len(AllProbes) /\ ~HardFailure
    /\ pc = "exit 1" => HardFailure \/ probed < Len(AllProbes)
=============================================================================
