---------------------------- MODULE MCPriceFeeds ----------------------------
(* One token t with every kind of oracle; and a query token q that depends on *)
(* a Chainlink token c.                                                       *)
EXTENDS PriceFeeds

MCKind == [link |-> "chainlink", base |-> "chainlink", comp |-> "composite",
           query |-> "query", zero |-> "zero"]
MCParts == [comp |-> <<"link", "base">>]
MCMaxAgg == [link |-> 3, base |-> 2]

MCOraclesOf == [t |-> {"link", "comp", "query", "zero"}]
MCFirstOf == [t |-> {"link", "comp"}]
MCDeps == [t |-> {}]

MCDepsOraclesOf == [c |-> {"link"}, q |-> {"query"}]
MCDepsDeps == [c |-> {}, q |-> {"c"}]
=============================================================================
