------------------------------ MODULE KnownWorld ------------------------------
(***************************************************************************)
(* A chain for KnownContracts: a vault v with its strategy s and the next  *)
(* one s2, a CLM manager m with its strategy t, a boost b, a reward pool p,*)
(* and two that are no products: f claims to be a strategy of v, w has the *)
(* strategy of another.                                                    *)
(***************************************************************************)
EXTENDS Naturals, FiniteSets

KnownAddresses == {"v", "s", "s2", "m", "t", "b", "p", "f", "w"}
\* The addresses of a candidate come before the strategies it names.
KnownOrder == <<"b", "f", "m", "p", "s", "s2", "t", "v", "w">>
KnownKind == [a \in KnownAddresses |->
    CASE a = "v" -> "VAULT" [] a \in {"s", "s2"} -> "STRATEGY" [] a = "m" -> "CLM_MANAGER"
      [] a = "t" -> "CLM_STRATEGY" [] a = "b" -> "BOOST" [] a = "p" -> "REWARD_POOL"
      [] a \in {"f", "w"} -> "UNKNOWN"]

Says(vault, strategy, rewardToken, stakedToken, wants) ==
    [vault |-> vault, strategy |-> strategy, rewardToken |-> rewardToken, stakedToken |-> stakedToken,
     wants |-> wants]
KnownAnswers == [after \in BOOLEAN |-> [a \in KnownAddresses |->
    CASE a = "v" -> Says({}, IF after THEN {"s2"} ELSE {"s"}, {}, {}, {})
      [] a = "w" -> Says({}, {"s"}, {}, {}, {})
      [] a \in {"s", "s2"} -> Says({"v"}, {}, {}, {}, {})
      [] a = "m" -> Says({}, {"t"}, {}, {}, {"v"})
      [] a = "t" -> Says({"m"}, {}, {}, {}, {})
      [] a = "b" -> Says({}, {}, {"v"}, {"v"}, {})
      [] a = "p" -> Says({}, {}, {}, {"v"}, {})
      [] a = "f" -> Says({"v"}, {}, {"v"}, {"zero"}, {})]]

\* The API may be wrong of anything.
Claim(list, address, strategy) == [list |-> list, address |-> address, strategy |-> strategy]
Claims ==
    {Claim("vaults", "v", {}), Claim("vaults", "v", {"f"}), Claim("vaults", "v", {"s2"}),
     Claim("boosts", "v", {}), Claim("vaults", "w", {}), Claim("cow-vaults", "m", {}),
     Claim("vaults", "m", {}), Claim("cow-vaults", "m", {"f"}), Claim("gov-vaults 1", "b", {}), Claim("vaults", "b", {"s"}),
     Claim("boosts", "p", {}), Claim("gov-vaults 2", "p", {}), Claim("cow-vaults", "s", {}),
     Claim("boosts", "f", {})}
KnownLists ==
    {L \in SUBSET Claims :
        /\ Cardinality(L) <= 2
        /\ \A x, y \in L : x.address = y.address /\ x.list = y.list => x = y}
KnownHands == {{}, {<<"ClassicVault", "v">>}}
=============================================================================
