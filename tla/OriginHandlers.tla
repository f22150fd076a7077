---------------------------- MODULE OriginHandlers ----------------------------
(***************************************************************************)
(* The price origins (pkg/price/provider/origins): what each handler makes *)
(* of the reply to one of its requests. A pair is a record of two assets   *)
(* and of the marks the aliases leave on them; a price is the market it is *)
(* the price of.                                                           *)
(*                                                                         *)
(* A reply has failed (no connection, a status other than 200), or it is   *)
(* garbage (not the expected JSON), refused (well-formed, with the error   *)
(* status of that API), or it has entries: markets that are "good",        *)
(* "blank" (the fields of the price are left out), "bad" (a field is not a *)
(* number), "short" (a list of fields is too short) or "frozen".           *)
(***************************************************************************)
EXTENDS Integers, Sequences, FiniteSets, SequencesExt

CONSTANTS Contracts,   \* markets with a contract address in the configuration
          RefRates,    \* markets with a Ref: entry, for balancerV2,
          RefInverse,  \* and those with one of the inverse pair
          Blocks,      \* averageFromBlocks
          SameSymbol,  \* a market whose name is that of another -> the other
          NameOrder    \* all markets in the order of their names

Market(p) == <<p.base, p.quote>>
Turned(m) == <<m[2], m[1]>>

\* Base and quote joined without a separator, as a symbol: the market that the
\* exchange lists under it, which is not always the one that was meant.
Symbol(m) == IF m \in DOMAIN SameSymbol THEN SameSymbol[m] ELSE m
SymbolName(p) == Symbol(Market(p))

ZeroPrice == <<"zero">>
Price(p, m) == [pair |-> p, ok |-> TRUE, of |-> m]
Error(p) == [pair |-> p, ok |-> FALSE, of |-> ZeroPrice]

\* fetchResultListWithErrors
Errors(ps) == [i \in 1..Len(ps) |-> Error(ps[i])]

Result(list) == [panic |-> FALSE, list |-> list]
Panic == [panic |-> TRUE, list |-> <<>>]

Lost(r) == r.failed \/ r.garbage
Bad(r) == {m \in DOMAIN r.entries : r.entries[m] \in {"bad", "short"}}

\* stringAsFloat64 and its like: one entry that is not a number, of whatever
\* market, and the body as a whole is not parsed.
Typed(r) == ~Lost(r) /\ Bad(r) = {}

\* An entry whose fields are parsed by the handler itself ("strict") has to have
\* them all; one that encoding/json fills in leaves the price zero.
Entry(p, r, m, strict) ==
    IF m \notin DOMAIN r.entries THEN Error(p)
    ELSE CASE r.entries[m] \in {"good", "frozen"} -> Price(p, m)
           [] r.entries[m] = "blank" /\ ~strict -> Price(p, ZeroPrice)
           [] OTHER -> Error(p)

ByName(ps, r, parsed, strict, Name(_)) ==
    IF parsed THEN Result([i \in 1..Len(ps) |-> Entry(ps[i], r, Name(ps[i]), strict)])
    ELSE Result(Errors(ps))

-----------------------------------------------------------------------------
(* Handlers that get all markets, or all that are asked for, at once *)

Binance(ps, r) == ByName(ps, r, Typed(r), FALSE, SymbolName)

\* "Hack to treat prices with USD quotes from Bitfinex as if they were with
\* USDT quotes"
BitfinexName(p) == Symbol(IF p.quote = "USDT" THEN <<p.base, "USD">> ELSE Market(p))

Bitfinex(ps, r) == ByName(ps, r, ~Lost(r), TRUE, BitfinexName)

\* Three markets against USD are asked for by number, but not when an alias has
\* touched the pair: then, as any other pair, by its base, which is no number.
CmcName(p) ==
    IF p.baseReplaced \/ p.quoteReplaced \/ p.quote # "USD" THEN <<"unknown">> ELSE Market(p)

CoinMarketCap(ps, r) == ByName(ps, r, Typed(r) /\ ~r.refused, FALSE, CmcName)

CryptoCompare(ps, r) == ByName(ps, r, Typed(r), FALSE, Market)
Ddex(ps, r) == ByName(ps, r, Typed(r) /\ ~r.refused, FALSE, Market)
Folgory(ps, r) == ByName(ps, r, Typed(r), FALSE, Market)

\* One request per base; a refusal has no rates.
Fx(ps, r) == ByName(ps, r, Typed(r) /\ ~r.refused, FALSE, Market)

Gateio(ps, r) == ByName(ps, r, ~Lost(r) /\ DOMAIN r.entries # {}, TRUE, Market)
Hitbtc(ps, r) == ByName(ps, r, ~Lost(r), TRUE, SymbolName)
Huobi(ps, r) == ByName(ps, r, Typed(r) /\ ~r.refused, FALSE, SymbolName)

\* firstStringFromSliceAsFloat64 takes the first string of a list that may be
\* empty.
Kraken(ps, r) ==
    IF ~Lost(r) /\ \E m \in DOMAIN r.entries : r.entries[m] = "short" THEN Panic
    ELSE ByName(ps, r, Typed(r), FALSE, Market)

\* A row that has ten fields passes the check of its length, and the eleventh
\* is read.
Loopring(ps, r) ==
    IF Lost(r) \/ Cardinality(DOMAIN r.entries) # Len(ps) THEN Result(Errors(ps))
    ELSE IF \E i \in 1..Len(ps) : Market(ps[i]) \in DOMAIN r.entries /\ r.entries[Market(ps[i])] = "short"
         THEN Panic
    ELSE ByName(ps, r, TRUE, TRUE, Market)

Okex(ps, r) == ByName(ps, r, Typed(r), FALSE, Market)

PoloniexName(p) ==
    LET v2(a) == IF a = "REP" THEN "REPV2" ELSE a IN <<v2(p.base), v2(p.quote)>>

\* An entry without isFrozen counts as frozen.
Poloniex(ps, r) ==
    IF ~Typed(r) THEN Result(Errors(ps))
    ELSE Result([i \in 1..Len(ps) |->
            LET m == PoloniexName(ps[i]) IN
            IF m \in DOMAIN r.entries /\ r.entries[m] = "good" THEN Price(ps[i], m) ELSE Error(ps[i])])

Upbit(ps, r) == ByName(ps, r, Typed(r), FALSE, Market)

-----------------------------------------------------------------------------
(* Handlers that ask for each pair: the only entry is taken for the pair *)

Single(p, r, m, parsed, strict) ==
    Result(<<IF parsed THEN Entry(p, r, m, strict) ELSE Error(p)>>)

Bitstamp(p, r) == Single(p, r, SymbolName(p), ~Lost(r), TRUE)
BitThump(p, r) == Single(p, r, Market(p), Typed(r) /\ ~r.refused /\ Cardinality(DOMAIN r.entries) = 1, FALSE)
Bittrex(p, r) == Single(p, r, Market(p), Typed(r) /\ ~r.refused, FALSE)
CoinbasePro(p, r) == Single(p, r, Market(p), ~Lost(r), TRUE)
Gemini(p, r) == Single(p, r, SymbolName(p), ~Lost(r), TRUE)
Kucoin(p, r) == Single(p, r, Market(p), ~Lost(r), TRUE)
Okx(p, r) == Single(p, r, Market(p), Typed(r) /\ ~r.refused /\ Cardinality(DOMAIN r.entries) = 1, FALSE)
OpenExchangeRates(p, r) == Single(p, r, Market(p), Typed(r), FALSE)

\* The symbol is the base alone; the market is the one against USD.
GsuName(p) == <<p.base, "USD">>

\* GSU.fetch, newPrice: a request that fails ends the fetch of all pairs.
GSU(p, r) == Result(<<Entry(p, r, GsuName(p), TRUE)>>)
GSU1(p, r) == Result(<<Entry(p, r, GsuName(p), TRUE)>>)
GSU2(p, r) == Result(<<Entry(p, r, GsuName(p), TRUE)>>)

\* A price for every text of the page that looks like one: none, if there is
\* none. A text that is no number, and a pair other than this one, fails all.
ISharesKnows(p) == SymbolName(p) = <<"IBTA", "USD">>

IShares(p, r) ==
    LET m == SymbolName(p)
    IN  Result(IF m \in DOMAIN r.entries /\ r.entries[m] = "good" THEN <<Price(p, m)>> ELSE <<>>)

\* Fetches that end at the first failure, with errors for all pairs.
EndsFetch(k, p, r) ==
    \/ k \in {"gsu", "gsu1", "gsu2"} /\ Lost(r)
    \/ k = "ishares" /\ (Lost(r) \/ Bad(r) # {})

-----------------------------------------------------------------------------
(* Pools, asked by the address of a contract that serves both directions *)

HasContract(p) == Market(p) \in Contracts \/ Turned(Market(p)) \in Contracts

\* ContractAddresses.ByPair, of a pair that has a contract: its market, and whether
\* the pair is the inverse of it.
ByPair(p) ==
    [contract |-> IF Market(p) \in Contracts THEN Market(p) ELSE Turned(Market(p)),
     inverted |-> Market(p) \notin Contracts]

\* token1Price of a pool is the price of its first token, token0Price that of
\* its second.
PoolPrice(p, r) ==
    LET m == Market(p)
        turned == Entry(p, r, Turned(m), FALSE)
    IN  IF m \in DOMAIN r.entries THEN Entry(p, r, m, FALSE)
        ELSE IF turned.ok /\ turned.of # ZeroPrice THEN Price(p, m) ELSE turned

Uniswap(ps, r) ==
    IF ~Typed(r) THEN Result(Errors(ps))
    ELSE Result([i \in 1..Len(ps) |-> PoolPrice(ps[i], r)])

UniswapV3(p, r) == Result(<<IF Typed(r) THEN PoolPrice(p, r) ELSE Error(p)>>)
Sushiswap(p, r) == Result(<<IF Typed(r) THEN PoolPrice(p, r) ELSE Error(p)>>)

\* The token whose price the contract of a pair stands for, in USD.
TokenName(p) == <<ByPair(p).contract[1], "USD">>

\* The first of the prices, of a list that may be empty. The contract of the inverse
\* pair is taken as well, and the symbol is the quote of the pair then.
Balancer(p, r) ==
    IF ~Typed(r) THEN Result(<<Error(p)>>)
    ELSE IF DOMAIN r.entries = {} THEN Panic
    ELSE LET first == CHOOSE m \in DOMAIN r.entries : TRUE
         IN  Result(<<IF first[1] # p.base THEN Error(p) ELSE Entry(p, r, first, FALSE)>>)

-----------------------------------------------------------------------------
(* Contract calls, averaged over blocks *)

\* nestedMultiCall: the calls of all pairs are made in one list, and the list of
\* results is given the structure of the calls again.
Unnest(calls, flat, i, j) ==
    LET before[k \in 1..Len(calls)] == IF k = 1 THEN 0 ELSE before[k - 1] + Len(calls[k - 1])
    IN  flat[before[i] + j]

Calls(m) == IF m \in RefRates THEN <<<<m, "getLatest">>, <<m, "getPriceRateCache">>>> ELSE <<<<m, "getLatest">>>>

\* sort.Slice by the names of the pairs
Sorted(ps) ==
    LET place(p) == CHOOSE n \in 1..Len(NameOrder) : NameOrder[n] = Market(p)
    IN  SortSeq(ps, LAMBDA p, q : place(p) < place(q))

\* A price is made of the results of the pair's own calls at each of the blocks.
BalancerV2(ps, r) ==
    LET s == Sorted(ps)
        calls == [i \in 1..Len(s) |-> Calls(Market(s[i]))]
        mrs(b) == [n \in 1..Len(FlattenSeq(calls)) |-> <<FlattenSeq(calls)[n], b>>]
        own(i) == \A j \in 1..Len(calls[i]) : \A b \in Blocks : Unnest(calls, mrs(b), i, j) = <<calls[i][j], b>>
    IN  IF Lost(r) \/ Bad(r) # {} THEN Result(Errors(s))
        ELSE Result([i \in 1..Len(s) |-> Price(s[i], IF own(i) THEN Market(s[i]) ELSE <<"mixed">>)])

\* Mutant: the indices of the tokens are not exchanged for the inverse pair.
RateOneWay(c) == c.contract

\* What a contract answers to the call for its own pair (get_dy of base and quote,
\* getExchangeRate, stEthPerToken) and to that for the inverse (get_dy of quote and
\* base, getRethValue, tokensPerStEth).
Rate(c) == IF c.inverted THEN Turned(c.contract) ELSE c.contract

\* Calls in the order of the sorted pairs, made at once for each block.
CurveFinance(ps, r) ==
    LET s == Sorted(ps)
        cds == [i \in 1..Len(s) |-> ByPair(s[i])]
    IN  IF Lost(r) \/ Bad(r) # {} THEN Result(Errors(s))
        ELSE Result([i \in 1..Len(s) |-> Price(s[i], Rate(cds[i]))])

CallOneContract(p, r) ==
    Result(<<IF ~Lost(r) /\ Bad(r) = {} THEN Price(p, Rate(ByPair(p))) ELSE Error(p)>>)

RocketPool(p, r) == CallOneContract(p, r)
WrappedStakedETH(p, r) == CallOneContract(p, r)

-----------------------------------------------------------------------------
(* All of them *)

BatchOrigins ==
    {"binance", "bitfinex", "coinmarketcap", "cryptocompare", "ddex", "folgory",
     "gateio", "hitbtc", "huobi", "kraken", "loopring", "okex", "poloniex",
     "upbit", "uniswap", "balancerV2", "curve"}

SingleOrigins ==
    {"bitstamp", "bithumb", "bittrex", "coinbasepro", "gemini", "kucoin", "okx",
     "openexchangerates", "gsu", "gsu1", "gsu2", "ishares", "uniswapV3",
     "sushiswap", "balancer", "rocketpool", "wsteth"}

\* "unknown" is a name without a handler.
Kinds == BatchOrigins \cup SingleOrigins \cup {"fx", "unknown"}

\* Those that call an Ethereum client instead of the pool of HTTP workers, and
\* those whose request has a body.
EthOrigins == {"balancerV2", "curve", "rocketpool", "wsteth"}
PostOrigins == {"uniswap", "uniswapV3", "sushiswap", "balancer"}

\* Those that join the symbols of a pair.
JoiningOrigins == {"binance", "bitfinex", "bitstamp", "gemini", "hitbtc", "huobi", "ishares"}

\* A group of pairs that a handler fails before it makes a request: a pair with
\* no contract (balancerV2 takes none of the inverse pair, nor a reference), the wrong fund,
\* or an origin that is not there (ErrUnknownOrigin).
FailsAtOnce(k, ps) ==
    \E i \in 1..Len(ps) :
        \/ k \in PostOrigins \cup EthOrigins /\ ~HasContract(ps[i])
        \/ k = "balancerV2" /\ \/ Market(ps[i]) \notin Contracts
                               \/ Market(ps[i]) \in RefInverse \ RefRates
        \/ k = "ishares" /\ ~ISharesKnows(ps[i])
        \/ k = "unknown"

\* NewHandler, and PullPrices of the handler with the reply to one request.
PullPrices(k, ps, r) ==
    CASE k = "binance" -> Binance(ps, r)
      [] k = "bitfinex" -> Bitfinex(ps, r)
      [] k = "coinmarketcap" -> CoinMarketCap(ps, r)
      [] k = "cryptocompare" -> CryptoCompare(ps, r)
      [] k = "ddex" -> Ddex(ps, r)
      [] k = "folgory" -> Folgory(ps, r)
      [] k = "fx" -> Fx(ps, r)
      [] k = "gateio" -> Gateio(ps, r)
      [] k = "hitbtc" -> Hitbtc(ps, r)
      [] k = "huobi" -> Huobi(ps, r)
      [] k = "kraken" -> Kraken(ps, r)
      [] k = "loopring" -> Loopring(ps, r)
      [] k = "okex" -> Okex(ps, r)
      [] k = "poloniex" -> Poloniex(ps, r)
      [] k = "upbit" -> Upbit(ps, r)
      [] k = "uniswap" -> Uniswap(ps, r)
      [] k = "balancerV2" -> BalancerV2(ps, r)
      [] k = "curve" -> CurveFinance(ps, r)
      [] k = "bitstamp" -> Bitstamp(ps[1], r)
      [] k = "bithumb" -> BitThump(ps[1], r)
      [] k = "bittrex" -> Bittrex(ps[1], r)
      [] k = "coinbasepro" -> CoinbasePro(ps[1], r)
      [] k = "gemini" -> Gemini(ps[1], r)
      [] k = "kucoin" -> Kucoin(ps[1], r)
      [] k = "okx" -> Okx(ps[1], r)
      [] k = "openexchangerates" -> OpenExchangeRates(ps[1], r)
      [] k = "gsu" -> GSU(ps[1], r)
      [] k = "gsu1" -> GSU1(ps[1], r)
      [] k = "gsu2" -> GSU2(ps[1], r)
      [] k = "ishares" -> IShares(ps[1], r)
      [] k = "uniswapV3" -> UniswapV3(ps[1], r)
      [] k = "sushiswap" -> Sushiswap(ps[1], r)
      [] k = "balancer" -> Balancer(ps[1], r)
      [] k = "rocketpool" -> RocketPool(ps[1], r)
      [] k = "wsteth" -> WrappedStakedETH(ps[1], r)
===============================================================================
