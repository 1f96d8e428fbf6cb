----------------------------- MODULE PriceFeeds -----------------------------
(***************************************************************************)
(* The prices of tokens: price oracles replaced through the address        *)
(* provider, the table of current oracles (handlers/token_oracle.go),      *)
(* Chainlink feeds with aggregator rotation, composite feeds, query feeds  *)
(* with their interval and their dependencies, and the price store that    *)
(* refuses prices out of order (handlers/prev_price.go).                   *)
(*                                                                         *)
(*   chain  what happened on the chain up to its head: a sequence of       *)
(*          events, external, read through AggAt, PriceOf, OracleAt...;    *)
(*          aggregators log answers, which may repeat a price or come      *)
(*          several to a block, and other events                           *)
(*   m      the indexer's memory; handlers are operators from m to m, and  *)
(*          a log.Fatal leaves its reason in m.fatal.                      *)
(*   db     what the last Flush saved of it.                               *)
(*   round  the round in progress: its target and its level.               *)
(*                                                                         *)
(* A feed is named [oracle, id]: the aggregator number of a Chainlink      *)
(* proxy, the discovery block of a composite adapter (the random           *)
(* identifier of the code), 0 for an oracle named by its own address.      *)
(* Everything is of protocol version 2; bounded answers are answers.  A    *)
(* block range that ends before it starts is refused by a strict node and  *)
(* empty for another.                                                      *)
(***************************************************************************)
EXTENDS Naturals, Sequences, FiniteSets, FiniteSetsExt, SequencesExt, Functions

CONSTANTS Tokens,
          OraclesOf,      \* OraclesOf[t]: the oracles token t may get
          FirstOf,        \* FirstOf[t]: the ones it may have from the start
          Kind,           \* Kind[o]: "chainlink", "composite", "query", "zero"
          Parts,          \* Parts[o]: the two proxies of a composite oracle
          Deps,           \* Deps[t]: the tokens a query price of t depends on
          PriceOracles,   \* price oracle contracts, 1..n in order of registration
          Interval,       \* blocks between two queries of query feeds
          MaxAgg,         \* MaxAgg[o]: how many aggregators a proxy may have
          Prices,         \* what an aggregator may answer
          MaxBlock, MaxEvents, MaxRestarts

ASSUME PriceBoundsAssumption ==
    /\ {Interval, MaxBlock, MaxEvents, PriceOracles} \cup Range(MaxAgg) \cup Prices \subseteq Nat \ {0}
    /\ MaxRestarts \in Nat

VARIABLES chain, m, db, round
vars == <<chain, m, db, round>>

Never == MaxBlock + 1            \* math.MaxInt64: above every block
NoFeed == [oracle |-> "none", id |-> 0]
NoOracle == [feed |-> NoFeed, block |-> 0]
Proxies == {o \in DOMAIN Kind : Kind[o] = "chainlink"}
Named(o) == [oracle |-> o, id |-> 0]

Fatal(c, why) == [c EXCEPT !.fatal = why]
Step(c, Handler(_)) == IF c.fatal # "" THEN c ELSE Handler(c)
Ascending(S) == SetToSortSeq(S, LAMBDA x, y : x < y)

-----------------------------------------------------------------------------
(***************************************************************************)
(* What the contracts answer for a block.  Aggregator n of a proxy exists  *)
(* from the start and has answered n in block 1; it goes on answering      *)
(* whether or not the proxy points to it.                                  *)
(***************************************************************************)
FirstAnswers ==
    SetToSeq(UNION {{[type |-> "answer", block |-> 1, oracle |-> o, agg |-> n, price |-> n] :
                       n \in 1..MaxAgg[o]} : o \in DOMAIN MaxAgg})

History == FirstAnswers \o chain.events

Events(type) == {e \in ToSet(chain.events) : e.type = type}

AggAt(o, b) == 1 + Cardinality({e \in Events("rotate") : e.oracle = o /\ e.block <= b})

Agg(o, n) == [oracle |-> o, agg |-> n]

\* What a node returns for a set of aggregators: all logs, and one topic only.
GetLogs(aggs, from, to) ==
    SelectSeq(History, LAMBDA e : /\ e.type \in {"answer", "other"}
                                  /\ Agg(e.oracle, e.agg) \in aggs /\ e.block \in from..to)

AnswerUpdated(aggs, from, to) == SelectSeq(GetLogs(aggs, from, to), LAMBDA e : e.type = "answer")

AnswerBlocks(o, n, from, to) == {e.block : e \in ToSet(AnswerUpdated({Agg(o, n)}, from, to))}

PriceOf(o, n, b) == Last(AnswerUpdated({Agg(o, n)}, 1, b)).price

ProxyPrice(o, b) == PriceOf(o, AggAt(o, b), b)

OraclePrice(o, b) ==
    CASE Kind[o] = "chainlink" -> ProxyPrice(o, b)
      [] Kind[o] = "composite" -> ProxyPrice(Parts[o][1], b) * ProxyPrice(Parts[o][2], b)
      [] Kind[o] = "query" -> 1 + b \div 2
      [] OTHER -> 0

FeedPrice(f, b) == IF f.id = 0 THEN OraclePrice(f.oracle, b) ELSE PriceOf(f.oracle, f.id, b)

\* The price oracle in charge at a block and the oracle it has for a token.
InCharge(b) == Max({1} \cup {e.po : e \in {x \in Events("register") : x.block <= b}})

LastIndex(S) == Max({i \in DOMAIN chain.events : chain.events[i] \in S})

OracleAt(t, b) ==
    LET set == {e \in Events("NewPriceFeed") : e.po = InCharge(b) /\ e.token = t /\ e.block <= b}
    IN  IF set = {} THEN "none" ELSE chain.events[LastIndex(set)].oracle

FeedAt(t, b) ==
    LET o == OracleAt(t, b)
    IN  CASE o = "none" -> NoFeed
          [] o # "none" /\ Kind[o] = "chainlink" -> [oracle |-> o, id |-> AggAt(o, b)]
          [] OTHER -> Named(o)

-----------------------------------------------------------------------------
(***************************************************************************)
(* Price rows (PrevPriceStore.canAddPF, BlocksRepo.AddPriceFeed).          *)
(***************************************************************************)
PriceRow(t, f, b, p) == [token |-> t, feed |-> f, block |-> b, price |-> p]

AddPriceFeed(c, row) ==
    LET key == <<row.token, row.feed>>
        known == key \in DOMAIN c.prev
    IN  IF known /\ c.prev[key].block >= row.block THEN Fatal(c, "price out of order")
        ELSE [c EXCEPT !.prev = (key :> row) @@ @,
                       !.rows = IF known /\ c.prev[key].price = row.price THEN @
                                ELSE @ \cup {row}]

AddPriceFeeds(c, rows) ==
    FoldLeft(LAMBDA d, r : Step(d, LAMBDA e : AddPriceFeed(e, r)), c, rows)

-----------------------------------------------------------------------------
(***************************************************************************)
(* Query feeds: the wrapper (AQFWrapper) and its feeds, each with the      *)
(* blocks from which and up to which a token uses it.                      *)
(***************************************************************************)
DisableToken(c, t, o, b) ==
    IF Len(c.qfeeds[o].tokens[t]) # 1 THEN Fatal(c, "malformed enable block")
    ELSE [c EXCEPT !.qfeeds[o].tokens[t] = Append(@, b)]

AddToken(c, t, o, b) ==
    LET spans == c.qfeeds[o].tokens
    IN  IF t \in DOMAIN spans /\ Len(spans[t]) = 1 THEN c
        ELSE [c EXCEPT !.qfeeds[o].tokens = (t :> <<b>>) @@ @]

AddYearnFeed(c, t, o, b) ==
    [c EXCEPT !.qfeeds = @ @@ (o :> [lastSync |-> b, tokens |-> (t :> <<b>>)]),
              !.aqfSync = Min({b, @})]

AddFeedOrToken(c, t, o, b) ==
    [(IF o \in DOMAIN c.qfeeds THEN AddToken(c, t, o, b) ELSE AddYearnFeed(c, t, o, b))
        EXCEPT !.queryFeedPrices = Append(@, PriceRow(t, Named(o), b, OraclePrice(o, b)))]

TokensValidAtBlock(q, b) ==
    {t \in DOMAIN q.tokens : q.tokens[t][1] + 1 <= b /\ (Len(q.tokens[t]) = 1 \/ b < q.tokens[t][2])}

(***************************************************************************)
(* The dependencies: what a Chainlink update of a token in these blocks    *)
(* makes the query feeds fetch.  The update replaces the one before it.    *)
(***************************************************************************)
ChainlinkPriceUpdatedAt(c, t, blocks) ==
    IF blocks = {} THEN c ELSE [c EXCEPT !.updatedBlocks = (t :> blocks) @@ @]

GetChainlinkBasedQueryUpdates(c, clearExtraBefore) ==
    {<<t, b>> \in Tokens \X (1..MaxBlock) :
        /\ b > clearExtraBefore
        /\ \E d \in Deps[t] \cap DOMAIN c.updatedBlocks : b \in c.updatedBlocks[d]}

\* Mutant: the extra prices replace the ones that are waiting.
ExtraPriceMutant(c, clearExtraBefore) ==
    [c EXCEPT !.updatedBlocks = <<>>, !.queryFeedPrices = <<>>]

ExtraPriceForQueryFeed(c, clearExtraBefore) ==
    LET updates == {u \in GetChainlinkBasedQueryUpdates(c, clearExtraBefore) :
                       u[2] \notin c.fetchedBlocks /\ c.cur[u[1]] # NoOracle}
        extra == {PriceRow(u[1], c.cur[u[1]].feed, u[2], FeedPrice(c.cur[u[1]].feed, u[2])) : u \in updates}
    IN  [c EXCEPT !.updatedBlocks = <<>>,
                  !.queryFeedPrices = @ \o SetToSeq(extra)]

(***************************************************************************)
(* Query: the prices of every Interval-th block, counted from the last     *)
(* sync, then the extra ones; all of them are handed on in block order.    *)
(***************************************************************************)
QueryBlocks(c, till) ==
    {b \in 1..till : b >= c.aqfSync + Interval /\ (b - c.aqfSync) % Interval = 0}

Query(c, till) ==
    LET blocks == QueryBlocks(c, till)
        rows == {PriceRow(t, Named(o), b, OraclePrice(o, b)) : <<t, o, b>> \in
                   {x \in Tokens \X (DOMAIN c.qfeeds) \X blocks :
                       /\ x[3] > c.qfeeds[x[2]].lastSync
                       /\ x[1] \in TokensValidAtBlock(c.qfeeds[x[2]], x[3])}}
        fetched == [c EXCEPT !.fetchedBlocks = @ \cup blocks,
                             !.queryFeedPrices = @ \o SetToSeq(rows),
                             !.qfeeds = [o \in DOMAIN @ |-> [@[o] EXCEPT !.lastSync = Max({@, till})]]]
        extra == ExtraPriceForQueryFeed(fetched, c.aqfSync + Interval)
        sorted == SortSeq(extra.queryFeedPrices, LAMBDA x, y : x.block < y.block)
    IN  IF DOMAIN c.qfeeds = {} THEN c
        ELSE AddPriceFeeds([extra EXCEPT !.queryFeedPrices = <<>>], sorted)

QueryModel(c, till) ==
    IF c.aqfSync + 1 > till THEN c
    ELSE Step(Query(c, till), LAMBDA d : [d EXCEPT !.aqfSync = till])

-----------------------------------------------------------------------------
(***************************************************************************)
(* The current oracle of a token (TokenOracleRepo).                        *)
(***************************************************************************)
\* Mutant: the oracles are compared, not the feeds behind them.
AlreadyActiveMutant(c, t, feed) == c.cur[t].feed.oracle = feed.oracle

AlreadyActiveFeedForToken(c, t, feed) == c.cur[t].feed = feed

\* The adapter of the old feed is looked up by the feed's address: a composite
\* adapter has another one and is not found.
DisablePrevAdapter(c, t, b) ==
    LET old == c.cur[t].feed
    IN  CASE c.cur[t] # NoOracle /\ old \in DOMAIN c.feeds ->
               [c EXCEPT !.feeds[old].disableOn = b]
          [] c.cur[t] # NoOracle /\ old.id = 0 /\ old.oracle \in DOMAIN c.qfeeds ->
               DisableToken(c, t, old.oracle, b)
          [] OTHER -> c

DisablePrevAdapterAndAddNewTokenOracle(c, t, feed, b) ==
    Step(DisablePrevAdapter(c, t, b),
         LAMBDA d : [d EXCEPT !.cur[t] = [feed |-> feed, block |-> b],
                              !.oracleRows = {r \in @ : r.token # t \/ r.block # b}
                                               \cup {[token |-> t, feed |-> feed, block |-> b]}])

Feed(t, o, parts, lastSync) ==
    [token |-> t, oracle |-> o, parts |-> parts, prices |-> <<>>, lastSync |-> lastSync,
     disableOn |-> Never, disabled |-> FALSE]

\* An address the kit has already is in its level twice from then on.
AddSyncAdapter(c, addr, feed) ==
    [c EXCEPT !.feeds = (addr :> feed) @@ @, !.twice = @ \cup ({addr} \cap DOMAIN c.feeds)]

\* Mutants: one block too many; without the answer before the discovery.
NewChainlinkEarlyMutant(t, o, n, b) ==
    LET before == AnswerBlocks(o, n, 1, b - 1)
    IN  Feed(t, o, <<Agg(o, n)>>, (IF before = {} THEN b ELSE Max(before)) - 2)

NewChainlinkLateMutant(t, o, n, b) == Feed(t, o, <<Agg(o, n)>>, b - 1)

\* A new feed starts at its last answer before it was discovered.
NewChainlinkPriceFeed(t, o, n, b) ==
    LET before == AnswerBlocks(o, n, 1, b - 1)
    IN  Feed(t, o, <<Agg(o, n)>>, (IF before = {} THEN b ELSE Max(before)) - 1)

NewCompositeChainlinkPF(t, o, b) ==
    [Feed(t, o, [i \in 1..2 |-> Agg(Parts[o][i], AggAt(Parts[o][i], b))], b)
        EXCEPT !.prices = [i \in 1..2 |-> ProxyPrice(Parts[o][i], b)]]

(***************************************************************************)
(* History, kept for the properties only.  What was unusual about an event *)
(* of a token, in odd[t]:                                                  *)
(*   past               its block belongs to an earlier round              *)
(*   late               an event of the same or a later block was applied  *)
(*                      to the token before                                *)
(*   older              one of a newer price oracle was                    *)
(*   readded            its aggregator has been a feed before              *)
(*   compositeAgain     the composite oracle the token has is set again    *)
(*   compositeReplaced  the token had a composite oracle                   *)
(* The aggregators a proxy had only inside one batch, in skipped; what a   *)
(* second break point of a composite feed is wrong about, in twoBreaks;    *)
(* the prices that waited for a query when the process ended, in lost.     *)
(***************************************************************************)
Oddities(c, t, o, b, po) ==
    LET old == c.cur[t].feed.oracle
        isComposite(x) == x # "none" /\ Kind[x] = "composite"
        addr == [oracle |-> o, id |-> AggAt(o, b)]
    IN  {odd \in {"past", "late", "older", "readded", "compositeAgain", "compositeReplaced"} :
           CASE odd = "past" -> b <= round.saved
             [] odd = "late" -> b <= c.cur[t].block
             [] odd = "older" -> po < c.setBy[t]
             [] odd = "readded" -> /\ Kind[o] = "chainlink" /\ addr # c.cur[t].feed
                                   /\ addr \in DOMAIN c.feeds \cup DOMAIN db.feeds
             [] odd = "compositeAgain" -> old = o /\ isComposite(o)
             [] odd = "compositeReplaced" -> old # o /\ isComposite(old)}

Note(c, t, o, b, po) == [c EXCEPT !.odd[t] = @ \cup Oddities(c, t, o, b, po), !.setBy[t] = po]

AddNewPriceOracleEvent(c0, t, o, b, po) ==
    LET c == Note(c0, t, o, b, po)
    IN  CASE Kind[o] \in {"query", "zero"} ->
               IF AlreadyActiveFeedForToken(c, t, Named(o)) THEN c
               ELSE Step(DisablePrevAdapterAndAddNewTokenOracle(c, t, Named(o), b),
                         LAMBDA d : IF Kind[o] = "zero" THEN AddPriceFeed(d, PriceRow(t, Named(o), b, 0))
                                    ELSE AddFeedOrToken(d, t, o, b))
          [] Kind[o] = "chainlink" ->
               LET feed == [oracle |-> o, id |-> AggAt(o, b)]
               IN  IF AlreadyActiveFeedForToken(c, t, feed) THEN c
                   ELSE Step(DisablePrevAdapterAndAddNewTokenOracle(c, t, feed, b),
                             LAMBDA d : AddSyncAdapter(d, feed, NewChainlinkPriceFeed(t, o, feed.id, b)))
          [] Kind[o] = "composite" ->
               \* its constructor adds the price of the block, also when it is active
               Step(AddPriceFeed(c, PriceRow(t, Named(o), b, OraclePrice(o, b))),
                    LAMBDA d : IF AlreadyActiveFeedForToken(d, t, Named(o)) THEN d
                               ELSE Step(DisablePrevAdapterAndAddNewTokenOracle(d, t, Named(o), b),
                                         LAMBDA e : AddSyncAdapter(e, [oracle |-> o, id |-> b],
                                                                   NewCompositeChainlinkPF(t, o, b))))

-----------------------------------------------------------------------------
(***************************************************************************)
(* One feed in one round (Engine.SyncModel).                               *)
(***************************************************************************)
SyncTill(x, till) == Min({x.disableOn, till})
Inverted(x, till) == SyncTill(x, till) < x.lastSync + 1

\* The proxy of a part changes in the last block: nothing is behind the break point.
RotatesAt(f, b) == \E e \in Events("rotate") : e.block = b /\ e.oracle \in {f.parts[i].oracle : i \in DOMAIN f.parts}

\* Only then does it matter whether the node is strict.
Refusable(f, till) == Inverted(f, till) \/ RotatesAt(f, till)


Synced(x, till) == [x EXCEPT !.lastSync = till, !.disabled = till >= x.disableOn]

\* GetFeedUpdateBlockUsingPhaseId, a binary search over a monotone history.
FeedUpdateBlock(o, n, from, to) == Min({b \in from..to : AggAt(o, b) = n})

\* An answer is used unless the next log is of the same block, whatever it is.
UsedAnswers(logs) ==
    Ascending({i \in DOMAIN logs : /\ logs[i].type = "answer"
                                   /\ i < Len(logs) => logs[i + 1].block # logs[i].block})

\* Mutant: the first answer of a block is used.
OnLogsChainlinkMutant(c, addr, till) ==
    LET f == c.feeds[addr]
        logs == GetLogs(ToSet(f.parts), f.lastSync + 1, till)
        used == Ascending({i \in DOMAIN logs : /\ logs[i].type = "answer"
                                               /\ i > 1 => logs[i - 1].block # logs[i].block})
        rows == [k \in DOMAIN used |-> PriceRow(f.token, addr, logs[used[k]].block, logs[used[k]].price)]
    IN  AddPriceFeeds(c, rows)

OnLogsChainlink(c, addr, till) ==
    LET f == c.feeds[addr]
        logs == GetLogs(ToSet(f.parts), f.lastSync + 1, till)
        used == UsedAnswers(logs)
        rows == [k \in DOMAIN used |-> PriceRow(f.token, addr, logs[used[k]].block, logs[used[k]].price)]
    IN  Step(AddPriceFeeds(c, rows),
             LAMBDA d : ChainlinkPriceUpdatedAt(d, f.token, {r.block : r \in ToSet(rows)}))

\* The hook asks the proxy which aggregator it has at the end of the range.
AfterSyncHookChainlink(c, addr, till) ==
    LET f == c.feeds[addr]
        new == AggAt(addr.oracle, till)
        rotated == IF new = addr.id THEN c
                   ELSE IF till < f.lastSync + 1 THEN Fatal(c, "endless phase search")
                   ELSE AddNewPriceOracleEvent(c, f.token, addr.oracle,
                                               FeedUpdateBlock(addr.oracle, new, f.lastSync + 1, till),
                                               c.setBy[f.token])
    IN  Step(rotated, LAMBDA d : [d EXCEPT !.feeds[addr] = Synced(@, till),
                                           !.skipped = @ \cup {[addr EXCEPT !.id = n] : n \in (addr.id + 1)..(new - 1)}])

SyncChainlink(c, addr, till) ==
    LET to == SyncTill(c.feeds[addr], till)
    IN  Step(OnLogsChainlink(c, addr, to), LAMBDA d : AfterSyncHookChainlink(d, addr, to))

(***************************************************************************)
(* A composite feed multiplies the answers of two aggregators.  Up to the  *)
(* first block in which a proxy has changed (the break point) it uses the  *)
(* aggregators it knows, from there on those of the end of the range.      *)
(***************************************************************************)
BreakPoint(f, i, till) ==
    LET o == f.parts[i].oracle
        new == AggAt(o, till)
    IN  IF new = f.parts[i].agg THEN Never ELSE FeedUpdateBlock(o, new, f.lastSync + 1, till)

\* The part that changes after the break point.
LatePart(f, bp, till) ==
    {[feed |-> Named(f.oracle), part |-> Agg(f.parts[i].oracle, AggAt(f.parts[i].oracle, till)), block |-> bp] :
        i \in {j \in 1..2 : BreakPoint(f, j, till) \in (bp + 1)..till}}

PartPrice(f, i, logs) ==
    LET mine == SelectSeq(logs, LAMBDA e : e.type = "answer" /\ Agg(e.oracle, e.agg) = f.parts[i])
    IN  IF mine = <<>> THEN f.prices[i] ELSE Last(mine).price

AnswersOfParts(c, addr, logs) ==
    LET f == c.feeds[addr]
        used == UsedAnswers(logs)
        product(k) == PartPrice(f, 1, SubSeq(logs, 1, k)) * PartPrice(f, 2, SubSeq(logs, 1, k))
        rows == [k \in DOMAIN used |->
                   PriceRow(f.token, Named(f.oracle), logs[used[k]].block, product(used[k]))]
    IN  Step(AddPriceFeeds(c, rows),
             LAMBDA d : [d EXCEPT !.feeds[addr].prices = [i \in 1..2 |-> PartPrice(f, i, logs)]])

SwitchParts(c, addr, bp, till) ==
    LET f == c.feeds[addr]
        switched == [c EXCEPT
            !.feeds[addr].parts = [i \in 1..2 |-> Agg(@[i].oracle, AggAt(@[i].oracle, till))],
            !.feeds[addr].prices = [i \in 1..2 |-> ProxyPrice(f.parts[i].oracle, bp)],
            !.twoBreaks = @ \cup LatePart(f, bp, till)]
    IN  AddPriceFeed(switched, PriceRow(f.token, Named(f.oracle), bp, OraclePrice(f.oracle, bp)))

\* Mutant: the logs of the break point are fetched after its price was added.
OnLogsCompositeMutant(c, addr, till, strict) ==
    LET f == c.feeds[addr]
        bp == Min({BreakPoint(f, i, till) : i \in 1..2})
        known == AnswersOfParts(c, addr, GetLogs(ToSet(f.parts), f.lastSync + 1, Min({bp - 1, till})))
    IN  IF bp = Never THEN known
        ELSE Step(Step(known, LAMBDA d : SwitchParts(d, addr, bp, till)),
                  LAMBDA d : AnswersOfParts(d, addr, AnswerUpdated(ToSet(d.feeds[addr].parts), bp, till)))

OnLogsComposite(c, addr, till, strict) ==
    LET f == c.feeds[addr]
        bp == Min({BreakPoint(f, i, till) : i \in 1..2})
        known == AnswersOfParts(c, addr, GetLogs(ToSet(f.parts), f.lastSync + 1, Min({bp - 1, till})))
        rest(d) == IF bp = till /\ strict THEN Fatal(d, "nothing after the break point")
                   ELSE AnswersOfParts(d, addr, AnswerUpdated(ToSet(d.feeds[addr].parts), bp + 1, till))
    IN  IF bp = Never THEN known
        ELSE Step(Step(known, LAMBDA d : SwitchParts(d, addr, bp, till)), rest)

SyncComposite(c, addr, till, strict) ==
    Step(OnLogsComposite(c, addr, till, strict), LAMBDA d : [d EXCEPT !.feeds[addr] = Synced(@, till)])

SyncModel(c, addr, till, strict) ==
    LET f == c.feeds[addr]
    IN  CASE f.lastSync + 1 > till -> c
          [] f.lastSync + 1 <= till /\ Inverted(f, till) /\ strict -> Fatal(c, "inverted range")
          [] OTHER -> IF Kind[addr.oracle] = "composite" THEN SyncComposite(c, addr, till, strict)
                      ELSE SyncChainlink(c, addr, till)

-----------------------------------------------------------------------------
(***************************************************************************)
(* Price oracles: a registration asks every older one that still runs to   *)
(* stop, whatever it was told before; their logs are the tokens' oracles.  *)
(***************************************************************************)
FirstLogAt(po, b) == Min({b} \cup {e.block : e \in {x \in Events("NewPriceFeed") : x.po = po}})

AddPriceOracle(c, po, b) ==
    LET old == [p \in DOMAIN c.pos |-> IF c.pos[p].disabled THEN c.pos[p]
                                       ELSE [c.pos[p] EXCEPT !.disableOn = b]]
    IN  [c EXCEPT !.pos = old @@ (po :> [lastSync |-> FirstLogAt(po, b) - 1,
                                         disableOn |-> Never, disabled |-> FALSE])]

AddressProviderLogs(c, till) ==
    LET logs == SelectSeq(chain.events,
                          LAMBDA e : e.type = "register" /\ e.block \in (c.apSync + 1)..till)
    IN  [FoldLeft(LAMBDA d, e : AddPriceOracle(d, e.po, e.block), c, logs) EXCEPT !.apSync = till]

SyncPriceOracle(c, po, till) ==
    LET p == c.pos[po]
        to == SyncTill(p, till)
        logs == SelectSeq(chain.events,
                          LAMBDA e : /\ e.type = "NewPriceFeed" /\ e.po = po
                                     /\ e.block \in (p.lastSync + 1)..to)
        applied == FoldLeft(LAMBDA d, e : Step(d, LAMBDA x :
                              AddNewPriceOracleEvent(x, e.token, e.oracle, e.block, po)), c, logs)
    IN  Step(applied, LAMBDA d : [d EXCEPT !.pos[po] = Synced(@, to)])

-----------------------------------------------------------------------------
(***************************************************************************)
(* What a restart reads back: adapters that are not disabled, the newest   *)
(* oracle row and the newest price row of each token, nothing of what was  *)
(* waiting for the next query.                                             *)
(***************************************************************************)
Newest(S, t) ==
    LET mine == {r \in S : r.token = t}
    IN  {r \in mine : \A x \in mine : x.block <= r.block}

LoadPrices(f) ==
    IF Kind[f.oracle] # "composite" THEN f
    ELSE [f EXCEPT !.prices = [i \in 1..2 |-> ProxyPrice(Parts[f.oracle][i], f.lastSync)]]

Loaded(d) ==
    LET lastPrices == {CHOOSE r \in Newest(d.rows, t) : TRUE : t \in {r.token : r \in d.rows}}
    IN  [pos |-> d.pos, apSync |-> d.apSync, oracleRows |-> d.oracleRows, rows |-> d.rows,
         feeds |-> [a \in {x \in DOMAIN d.feeds : ~d.feeds[x].disabled} |-> LoadPrices(d.feeds[a])],
         cur |-> [t \in Tokens |-> LET rows == Newest(d.oracleRows, t)
                                   IN  IF rows = {} THEN NoOracle
                                       ELSE LET r == CHOOSE r \in rows : TRUE
                                            IN  [feed |-> r.feed, block |-> r.block]],
         prev |-> [k \in {<<r.token, r.feed>> : r \in lastPrices} |->
                     CHOOSE r \in lastPrices : <<r.token, r.feed>> = k],
         qfeeds |-> d.qfeeds,
         aqfSync |-> Min({Never} \cup {d.qfeeds[o].lastSync : o \in DOMAIN d.qfeeds}),
         queryFeedPrices |-> <<>>, updatedBlocks |-> <<>>, fetchedBlocks |-> {}, twice |-> {},
         odd |-> d.odd, setBy |-> d.setBy, skipped |-> d.skipped, twoBreaks |-> d.twoBreaks,
         lost |-> d.lost \cup d.waiting, fatal |-> ""]

Saved(c) ==
    [pos |-> c.pos, apSync |-> c.apSync, oracleRows |-> c.oracleRows, rows |-> c.rows,
     feeds |-> c.feeds @@ db.feeds, qfeeds |-> c.qfeeds,
     odd |-> c.odd, setBy |-> c.setBy, skipped |-> c.skipped, twoBreaks |-> c.twoBreaks,
     lost |-> c.lost, waiting |-> ToSet(c.queryFeedPrices)]

-----------------------------------------------------------------------------
(***************************************************************************)
(* The chain: the next block collects events until it is complete.  What   *)
(* a round reads was there when it started, so the chain only moves while  *)
(* no round is running; the order of a block's events of different         *)
(* contracts shows nowhere, so one order is enough.                        *)
(***************************************************************************)
Rank(e) == CASE e.type = "register" -> 1 [] e.type = "NewPriceFeed" -> 2
             [] e.type = "rotate" -> 3 [] OTHER -> 4

Moving == m.fatal = "" /\ round.level = "idle" /\ chain.head < MaxBlock

Open == Moving /\ Len(chain.events) < MaxEvents

Emit(e) ==
    /\ \A x \in ToSet(chain.events) : x.block = e.block => Rank(x) <= Rank(e)
    /\ chain' = [chain EXCEPT !.events = Append(@, e)]
    /\ UNCHANGED <<m, db, round>>

NewPriceFeed(po, t, o) ==
    /\ Open
    /\ po <= InCharge(chain.head + 1) + 1
    /\ ~\E e \in Events("NewPriceFeed") : e.token = t /\ e.block = chain.head + 1
    /\ Emit([type |-> "NewPriceFeed", block |-> chain.head + 1, po |-> po, token |-> t, oracle |-> o])

Register(po) ==
    /\ Open
    /\ po = InCharge(chain.head + 1) + 1
    /\ Emit([type |-> "register", block |-> chain.head + 1, po |-> po])

Rotate(o) ==
    /\ Open
    /\ AggAt(o, chain.head + 1) < MaxAgg[o]
    /\ Emit([type |-> "rotate", block |-> chain.head + 1, oracle |-> o])

\* Answers of two aggregators one after the other come in one order.
Position(o, n) == CHOOSE i \in DOMAIN FirstAnswers : FirstAnswers[i].oracle = o /\ FirstAnswers[i].agg = n

LastLog == Last(chain.events)
AfterAnswer == LastLog.block > chain.head /\ LastLog.type = "answer"

Answer(o, n, price) ==
    /\ Open
    /\ n + 1 >= AggAt(o, chain.head) /\ n <= AggAt(o, chain.head) + 1
    /\ AfterAnswer => Position(LastLog.oracle, LastLog.agg) <= Position(o, n)
    /\ Emit([type |-> "answer", block |-> chain.head + 1, oracle |-> o, agg |-> n, price |-> price])

\* Another log of an aggregator: it is seen only behind an answer of its block,
\* its own or one of the other proxy.
OtherLog(o, n) ==
    /\ Open /\ AfterAnswer
    /\ IF LastLog.oracle = o THEN n = LastLog.agg ELSE n = AggAt(o, chain.head + 1)
    /\ Emit([type |-> "other", block |-> chain.head + 1, oracle |-> o, agg |-> n])

NewBlock ==
    /\ Moving
    /\ chain' = [chain EXCEPT !.head = @ + 1]
    /\ UNCHANGED <<m, db, round>>

(***************************************************************************)
(* A round: level by level, the adapters of a level in any order.  A feed  *)
(* that is registered while its level runs may or may not be reached.  A   *)
(* block that is not complete is invisible, so a round or a restart with   *)
(* one pending is not told apart from one without.                         *)
(***************************************************************************)
BlockComplete == \A e \in ToSet(chain.events) : e.block <= chain.head

StartRound ==
    /\ m.fatal = "" /\ round.level = "idle"
    /\ chain.head > round.till /\ BlockComplete
    /\ m' = AddressProviderLogs(m, chain.head)
    /\ round' = [round EXCEPT !.level = "oracles", !.till = chain.head, !.todo = {}]
    /\ UNCHANGED <<chain, db>>

SyncOracle(po) ==
    /\ m.fatal = "" /\ round.level = "oracles"
    /\ ~m.pos[po].disabled /\ m.pos[po].lastSync < round.till
    /\ m.pos[po].disableOn > m.pos[po].lastSync
    /\ m' = SyncPriceOracle(m, po, round.till)
    /\ UNCHANGED <<chain, db, round>>

EndOracles ==
    /\ m.fatal = "" /\ round.level = "oracles"
    /\ \A po \in DOMAIN m.pos : m.pos[po].disabled \/ m.pos[po].lastSync >= round.till
    /\ round' = [round EXCEPT !.level = "feeds",
                              !.todo = {a \in DOMAIN m.feeds : ~m.feeds[a].disabled}]
    /\ UNCHANGED <<chain, m, db>>

SyncFeed(a, strict) ==
    /\ m.fatal = "" /\ round.level = "feeds"
    /\ ~m.feeds[a].disabled
    /\ a \in round.todo \/ m.feeds[a].lastSync < round.till
    /\ strict => Refusable(m.feeds[a], round.till)
    /\ m' = SyncModel(m, a, round.till, strict)
    /\ round' = [round EXCEPT !.todo = @ \ {a}]
    /\ UNCHANGED <<chain, db>>

EndFeeds ==
    /\ m.fatal = "" /\ round.level = "feeds" /\ round.todo = {}
    /\ m' = QueryModel(m, round.till)
    /\ round' = [round EXCEPT !.level = "flush"]
    /\ UNCHANGED <<chain, db>>

Flush ==
    /\ m.fatal = "" /\ round.level = "flush" /\ m.twice = {}
    /\ db' = Saved(m)
    /\ round' = [round EXCEPT !.level = "idle", !.saved = round.till]
    /\ UNCHANGED <<chain, m>>

\* One statement cannot update a row twice: the transaction fails.
FlushRefused ==
    /\ m.fatal = "" /\ round.level = "flush" /\ m.twice # {}
    /\ m' = Fatal(m, "adapter saved twice")
    /\ UNCHANGED <<chain, db, round>>

\* The process dies, by a log.Fatal or otherwise, and is started again.
Restart ==
    /\ round.restarts < MaxRestarts /\ BlockComplete
    /\ m' = Loaded(db)
    /\ round' = [round EXCEPT !.level = "idle", !.till = round.saved, !.todo = {}, !.restarts = @ + 1]
    /\ UNCHANGED <<chain, db>>

Configured(t, o) == [type |-> "NewPriceFeed", block |-> 1, po |-> 1, token |-> t, oracle |-> o]

Init ==
    /\ \E first \in [Tokens -> DOMAIN Kind] :
         /\ \A t \in Tokens : first[t] \in FirstOf[t]
         /\ chain = [head |-> 1, events |-> SetToSeq({Configured(t, first[t]) : t \in Tokens})]
    /\ db = [pos |-> (1 :> [lastSync |-> 0, disableOn |-> Never, disabled |-> FALSE]), apSync |-> 1,
             oracleRows |-> {}, rows |-> {}, feeds |-> <<>>, qfeeds |-> <<>>,
             odd |-> [t \in Tokens |-> {}], setBy |-> [t \in Tokens |-> 0],
             skipped |-> {}, twoBreaks |-> {}, lost |-> {}, waiting |-> {}]
    /\ m = Loaded(db)
    /\ round = [level |-> "idle", till |-> 0, todo |-> {}, saved |-> 0, restarts |-> 0]

Next ==
    \/ \E po \in 1..PriceOracles, t \in Tokens : \E o \in OraclesOf[t] : NewPriceFeed(po, t, o)
    \/ \E po \in 1..PriceOracles : Register(po)
    \/ \E o \in Proxies : Rotate(o)
    \/ \E o \in Proxies : \E n \in 1..MaxAgg[o] : OtherLog(o, n) \/ \E p \in Prices : Answer(o, n, p)
    \/ NewBlock \/ StartRound
    \/ \E po \in DOMAIN m.pos : SyncOracle(po)
    \/ EndOracles
    \/ \E a \in DOMAIN m.feeds, strict \in BOOLEAN : SyncFeed(a, strict)
    \/ EndFeeds \/ Flush \/ FlushRefused \/ Restart

Spec == Init /\ [][Next]_vars

-----------------------------------------------------------------------------
(***************************************************************************)
(* Properties.                                                             *)
(***************************************************************************)

\* Types of what the handlers keep and of what a Flush saves of it.
TypeOK ==
    /\ chain.head \in 1..MaxBlock /\ Len(chain.events) <= MaxEvents
    /\ \A c \in {m, db} :
         /\ \A a \in DOMAIN c.feeds : /\ c.feeds[a].lastSync \in 0..MaxBlock
                                     /\ c.feeds[a].disableOn \in 1..Never
         /\ \A o \in DOMAIN c.qfeeds : \A t \in DOMAIN c.qfeeds[o].tokens : Len(c.qfeeds[o].tokens[t]) \in 1..2
         /\ \A r \in c.rows : r.token \in Tokens /\ r.block \in 1..MaxBlock
    /\ m.aqfSync \in 1..Never /\ \A t \in Tokens : m.cur[t].block \in 0..MaxBlock
    /\ round.level \in {"idle", "oracles", "feeds", "flush"} /\ round.saved <= round.till

Odd == UNION Range(m.odd)

(***************************************************************************)
(* The process stops itself only for known causes.  A price store refuses  *)
(* a second price of a block only for an aggregator that comes back, a     *)
(* composite oracle that is set again or goes on after it was replaced, or *)
(* events out of order (PrevPriceStore.canAddPF); an adapter is saved      *)
(* twice only when its aggregator comes back (SyncAdaptersRepo.Save); a    *)
(* block range is inverted and a phase search has nothing to search only   *)
(* when a price oracle was configured before it was registered or events   *)
(* reach a token in the wrong order (Engine.SyncModel,                     *)
(* GetFeedUpdateBlockUsingPhaseId), and only the latter ends a query       *)
(* feed's span twice (QueryPriceFeed.DisableToken); a composite feed asks  *)
(* for logs behind the end of its batch only when one of its proxies       *)
(* changed in the last block of it (CompositeChainlinkPF.OnLogs).          *)
(***************************************************************************)
StopsOnlyOnKnownCauses ==
    CASE m.fatal = "price out of order" ->
           Odd \cap {"late", "readded", "compositeAgain", "compositeReplaced"} # {}
      [] m.fatal = "adapter saved twice" -> "readded" \in Odd
      [] m.fatal \in {"inverted range", "endless phase search"} -> Odd \cap {"past", "late"} # {}
      [] m.fatal = "malformed enable block" -> "late" \in Odd
      [] m.fatal = "nothing after the break point" ->
           \E a \in DOMAIN m.feeds : Kind[a.oracle] = "composite" /\ RotatesAt(m.feeds[a], round.till)
      [] OTHER -> m.fatal = ""

BlockSaved == m.fatal = "" /\ round.level = "idle" /\ round.saved > 0

(***************************************************************************)
(* After a round the feed of a token in TokenOracleRepo is the aggregator  *)
(* or the oracle the price oracle in charge has for it on the chain,       *)
(* unless events of two price oracles, or a rotation and a new oracle,     *)
(* were applied out of order.                                              *)
(***************************************************************************)
CurrentFeedMatchesChain ==
    BlockSaved =>
        \A t \in Tokens :
            m.odd[t] \cap {"late", "older"} = {} /\ OracleAt(t, round.saved) # "none" =>
                m.cur[t].feed = FeedAt(t, round.saved)


\* The newest price the store has of a token's feed up to a block.
StoredAt(t, f, b, price) ==
    LET mine == {r \in m.rows : r.token = t /\ r.feed = f /\ r.block <= b}
    IN  \E r \in mine : r.price = price /\ \A x \in mine : x.block <= r.block

\* The last answer behind a feed is followed by another log in its block.
Masked(f, b) ==
    LET logs == GetLogs(IF f.id # 0 THEN {Agg(f.oracle, f.id)}
                        ELSE {Agg(o, AggAt(o, b)) : o \in ToSet(Parts[f.oracle])}, 1, b)
    IN  /\ Last(logs).type = "other"
        /\ \E e \in ToSet(logs) : e.type = "answer" /\ e.block = Last(logs).block

\* A part that changed behind a break point and has not answered since.
WrongPart(f, b) ==
    \E w \in m.twoBreaks :
        /\ w.feed = f /\ AggAt(w.part.oracle, b) = w.part.agg
        /\ AnswerUpdated({w.part}, w.block + 1, b) = <<>>

(***************************************************************************)
(* The newest price row of the feed a token uses is what the contracts     *)
(* answer at the last saved block, when the feed has been synced up to it: *)
(* over rotations, restarts and batches of any size.  The exceptions: the  *)
(* last answer is skipped for another log behind it in its block           *)
(* (ChainlinkPriceFeed.OnLogs), and the proxies of a composite feed        *)
(* changed one after the other in one batch, of which OnLogs handles the   *)
(* first, and the second has not answered since.                           *)
(***************************************************************************)
CurrentPriceMatchesChain ==
    BlockSaved =>
        \A t \in Tokens :
            LET f == m.cur[t].feed
                synced == f \in DOMAIN m.feeds => m.feeds[f].lastSync = round.saved
                reported == /\ f.oracle # "none" /\ Kind[f.oracle] # "query" /\ synced
                            /\ Kind[f.oracle] # "zero" => ~Masked(f, round.saved)
                            /\ ~WrongPart(f, round.saved)
            IN  reported /\ "late" \notin m.odd[t] =>
                  StoredAt(t, f, round.saved, FeedPrice(f, round.saved))

(***************************************************************************)
(* The price rows of an aggregator are its answers.  In every block whose  *)
(* last log is an answer of the aggregator the token's proxy points to,    *)
(* the store has that answer from then on, in a row of the block or, when  *)
(* it repeats the price before it, in an earlier row; also around a        *)
(* rotation that is found at the end of the batch                          *)
(* (ChainlinkPriceFeed.AfterSyncHook).  Only an aggregator the proxy had   *)
(* for a part of one batch is never registered.  And a row is never        *)
(* anything else than such an answer, the last of its block.               *)
(***************************************************************************)
AnswersRecorded ==
    BlockSaved =>
        \A t \in {x \in Tokens : "late" \notin m.odd[x]}, o \in Proxies : \A n \in 1..MaxAgg[o] :
            LET f == [oracle |-> o, id |-> n]
                logs == GetLogs({Agg(o, n)}, 1, round.saved)
                used == {logs[i] : i \in Range(UsedAnswers(logs))}
                synced(b) == f \in DOMAIN m.feeds => m.feeds[f].lastSync >= b
            IN  /\ \A e \in used : FeedAt(t, e.block) = f /\ synced(e.block) /\ f \notin m.skipped =>
                      StoredAt(t, f, e.block, e.price)
                /\ \A r \in m.rows : r.token = t /\ r.feed = f =>
                      \E e \in used : e.block = r.block /\ e.price = r.price

(***************************************************************************)
(* A token that gets a query oracle has the price of that block            *)
(* (AQFWrapper.AddFeedOrToken), in a row or still to be handed on by the   *)
(* next query; only a price that waited when the process ended is lost.    *)
(***************************************************************************)
QueryPriceFromStart ==
    BlockSaved =>
        \A r \in m.oracleRows : Kind[r.feed.oracle] = "query" =>
            LET first == PriceRow(r.token, r.feed, r.block, OraclePrice(r.feed.oracle, r.block))
            IN  \/ first \in ToSet(m.queryFeedPrices) \cup m.lost
                \/ StoredAt(r.token, r.feed, r.block, first.price)

(***************************************************************************)
(* dependency.go: the blocks in which a Chainlink price changed are blocks *)
(* in which "we need to fetch price for dependent query pf", those after   *)
(* the last sync of the query feeds: for a block with a row of a Chainlink *)
(* token the store has the price of a query token that depends on it.      *)
(***************************************************************************)
DependentPricesFetched ==
    BlockSaved =>
        \A q \in Tokens : \A r \in m.rows :
            LET f == FeedAt(q, r.block)
            IN  /\ r.token \in Deps[q] /\ FeedAt(r.token, r.block) = r.feed
                /\ f.oracle # "none" /\ Kind[f.oracle] = "query" /\ FeedAt(q, r.block - 1) = f
                => StoredAt(q, f, r.block, OraclePrice(f.oracle, r.block))
=============================================================================
