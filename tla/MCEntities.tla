------------------------------- MODULE MCEntities -------------------------------
(***************************************************************************)
(* The two halves of Entities, each a part of one run.                     *)
(*                                                                         *)
(* Of the registry six small chains, each with a contract x, one that      *)
(* stakes it, y, and tokens: a vault under a reward pool and under a       *)
(* boost, a CLM and an ERC-4626 adapter under a boost, a plain token under *)
(* a reward pool, and a vault whose tokens a swapper meets.  Blocks 1 to 3 *)
(* with a retry after two: an event of the block between is too early for  *)
(* it.  Of the ledger four logs of two transactions, accounts and tokens   *)
(* being numbers.                                                          *)
(***************************************************************************)
EXTENDS Entities, TLC

CONSTANTS x, y, w, z

VARIABLE part

\* Accounts are alike, and so are tokens: each is first met after the ones before it.
MetAccounts == (UNION {{e.from, e.to} : e \in transfers} \cup {r.account : r \in timeline}) \ {Zero}
MetTokens == {e.token : e \in transfers}
InOrder == \A S \in {MetAccounts, MetTokens} : \A n \in S : 1..n \subseteq S

\* The chain of the kinds and links of x and y; a boost does not answer as an ERC-20.
Chain(kx, linksX, ky, linksY) ==
    [kind |-> (x :> kx @@ y :> ky @@ w :> "UNKNOWN" @@ z :> "UNKNOWN"),
     target |-> [a \in Addresses |-> [r \in Relations |->
        IF a = x /\ r \in DOMAIN linksX THEN linksX[r]
        ELSE IF a = y /\ r \in DOMAIN linksY THEN linksY[r] ELSE w]],
     erc20 |-> IF ky = "BOOST" THEN {x, w, z} ELSE {x, y, w, z}]

Pool == [REWARD_POOL_STAKED |-> x]
Boost == [BOOST_STAKED |-> x, BOOST_REWARD |-> z]

SmallChains == {
    Chain("VAULT", [VAULT_WANT |-> w], "REWARD_POOL", Pool),
    Chain("VAULT", [VAULT_WANT |-> w], "BOOST", Boost),
    Chain("CLM_MANAGER", [CLM_WANT0 |-> w, CLM_WANT1 |-> z], "BOOST", Boost),
    Chain("ERC4626_ADAPTER", [ADAPTER_VAULT |-> w], "BOOST", Boost),
    Chain("UNKNOWN", <<>>, "REWARD_POOL", Pool),
    Chain("VAULT", [VAULT_WANT |-> w], "SWAPPER", <<>>)}

-----------------------------------------------------------------------------
\* The chain of the part that does not run is the first.
MCInit ==
    /\ part \in {"registry", "ledger"}
    /\ Init /\ (part = "ledger" => chain = CHOOSE c \in Chains : TRUE)
    /\ Ledger!Init

MCNext ==
    \/ part = "registry" /\ Next /\ UNCHANGED <<part, ledger>>
    \/ part = "ledger" /\ Ledger!Next /\ InOrder' /\ UNCHANGED <<part, vars>>
MCSpec == MCInit /\ [][MCNext]_<<part, vars, ledger>>
=============================================================================
