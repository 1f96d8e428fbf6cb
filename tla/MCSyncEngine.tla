---------------------------- MODULE MCSyncEngine ----------------------------
(***************************************************************************)
(* Instances of SyncEngine.  "Core" is the AddressProvider with two price  *)
(* oracles, the second replacing the first, a contracts register and two   *)
(* pools in a wrapper.  "Feed" is a price oracle with a Chainlink feed     *)
(* whose aggregator is rotated, above them a query feed.  "Conf" is a      *)
(* credit manager that replaces its configurator, both in a wrapper.       *)
(***************************************************************************)
EXTENDS SyncEngine

CoreAdapter == {"ap", "po1", "po2", "cr", "p1", "p2"}
CoreWrapper == {"admin", "pool"}
CoreWrapperOf ==
    [a \in CoreAdapter |-> CASE a = "cr" -> "admin"
                             [] a \in {"p1", "p2"} -> "pool"
                             [] OTHER -> "none"]
CoreLevelOf == [ap |-> 0, po1 |-> 1, po2 |-> 1, admin |-> 1, pool |-> 2]
CoreFirstLogAt == [ap |-> 1, po1 |-> 1, po2 |-> 3, cr |-> 1, p1 |-> 2, p2 |-> 2]
CoreAddedBy == [ap |-> "ap", po1 |-> "ap", po2 |-> "ap", cr |-> "ap",
                p1 |-> "cr", p2 |-> "cr"]
CoreAddedAt == [ap |-> 1, po1 |-> 1, po2 |-> 3, cr |-> 1, p1 |-> 2, p2 |-> 3]
CoreSupersedes == [a \in CoreAdapter |-> IF a = "po2" THEN {"po1"} ELSE {}]
CoreOracleOf == [a \in CoreAdapter |-> a]

FeedAdapter == {"ap", "po", "f1", "f2", "q"}
FeedWrapper == {}
FeedWrapperOf == [a \in FeedAdapter |-> "none"]
FeedLevelOf == [ap |-> 0, po |-> 1, f1 |-> 2, f2 |-> 2, q |-> 3]
FeedFirstLogAt == [ap |-> 1, po |-> 1, f1 |-> 1, f2 |-> 2, q |-> 2]
FeedAddedBy == [ap |-> "ap", po |-> "ap", f1 |-> "po", f2 |-> "f1", q |-> "po"]
FeedAddedAt == [ap |-> 1, po |-> 1, f1 |-> 1, f2 |-> 3, q |-> 2]
FeedSupersedes == [a \in FeedAdapter |-> {}]
FeedOracleOf == [a \in FeedAdapter |-> IF a \in {"f1", "f2"} THEN "eth" ELSE a]

ConfAdapter == {"ap", "cm", "cc1", "cc2"}
ConfWrapper == {"cmw", "cfw"}
ConfWrapperOf == [ap |-> "none", cm |-> "cmw", cc1 |-> "cfw", cc2 |-> "cfw"]
ConfLevelOf == [ap |-> 0, cmw |-> 1, cfw |-> 2]
ConfFirstLogAt == [ap |-> 1, cm |-> 1, cc1 |-> 1, cc2 |-> 2]
ConfAddedBy == [ap |-> "ap", cm |-> "ap", cc1 |-> "cm", cc2 |-> "cm"]
ConfAddedAt == [ap |-> 1, cm |-> 1, cc1 |-> 1, cc2 |-> 3]
ConfSupersedes == [a \in ConfAdapter |-> IF a = "cc2" THEN {"cc1"} ELSE {}]
ConfOracleOf == [a \in ConfAdapter |-> a]
=============================================================================
