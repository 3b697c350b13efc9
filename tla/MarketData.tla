------------------------------ MODULE MarketData ------------------------------
(***************************************************************************)
(* Market data while the active exchange changes: the fetcher's poll loop, *)
(* the tickers it keeps and the queues it streams from                     *)
(* (marketdata/fetcher.py, the SSE endpoint of web/server.py), the balances*)
(* of the portfolio tracker, and the cache of symbols that decides what is *)
(* polled (pairlist/cache.py).  Everything runs on one event loop and can  *)
(* be overtaken at each await of a request to an exchange or the database. *)
(*                                                                         *)
(* The stream is modelled as the endpoint's function is written, on the    *)
(* fetcher that polls.  As deployed nothing arrives: the function holds    *)
(* another fetcher, which main.py builds in _create_app and never starts,  *)
(* and its route is declared after /api/market-data/{symbol}, which takes  *)
(* the request.                                                            *)
(*                                                                         *)
(* Only who answered is kept of a ticker or a balance; a message is the    *)
(* number of its ticker.  Transactions are left to SharedConnection: the   *)
(* cache is what the connection sees.                                      *)
(***************************************************************************)
EXTENDS Naturals, Sequences

CONSTANTS
    Exchanges,   \* enabled adapters
    Symbols,     \* generic symbols, listed by any of them
    Subscribers, \* clients of the SSE endpoint
    Refreshers,  \* bound: refresh tasks in flight
    QueueSize,   \* messages a queue holds (100)
    None,        \* no exchange
    MaxTickers,  \* bound: tickers fetched
    MaxRequests  \* bound: requests that switch the exchange or refresh the cache

ASSUME MarketAssumption ==
    /\ Exchanges # {}
    /\ None \notin Exchanges
    /\ QueueSize \in Nat \ {0}
    /\ MaxTickers \in Nat
    /\ MaxRequests \in Nat

VARIABLES
    active,      \* the active exchange as the settings, the fetcher and the tracker have it
    tickers,     \* _tickers[s][e]: the exchange that sent the ticker filed under e
    balances,    \* _balances[e]: the exchange that sent the balances filed under e
    fetched,     \* tickers fetched so far
    poller,      \* the poll loop: where it is, symbols to do, exchange asked
    refreshing,  \* the exchange the tracker has asked for balances, or None
    subscribed,  \* clients whose queue is in _subscribers
    queue,       \* queue[c]: the numbers of the tickers waiting for client c
    client,      \* client[c]: "off", "waiting" for its queue, "sending", "gone"
    got,         \* history: tickers client c took from its queue
    due,         \* history: tickers broadcast while c was subscribed and its queue not full
    cache,       \* exchange_symbols: pairs of exchange and symbol
    task,        \* task[r]: a refresh of the cache
    overlapped,  \* history: refreshes overlapped, and none ran alone since
    requests     \* requests so far

stream == <<subscribed, queue, client, got, due>>
prices == <<tickers, fetched, poller>>
symbols == <<cache, task, overlapped>>
vars == <<active, balances, refreshing, prices, stream, symbols, requests>>

-----------------------------------------------------------------------------
(* Types and helpers *)

Holders == {"settings", "fetcher", "tracker"}

Poller == [at : {"pairs", "fetch", "answer"}, todo : SUBSET Symbols,
           exchange : Exchanges \cup {None}, symbol : Symbols \cup {None}]

\* The awaits of a refresh; listed is what the exchange answered.
Task == [at : {"idle", "others", "list", "own", "insert"},
         exchange : Exchanges \cup {None}, listed : SUBSET Symbols]
NoTask == [at |-> "idle", exchange |-> None, listed |-> {}]

Rows(e, S) == {e} \X S

\* Startup refreshes the cache from the active exchange and gives up after ten seconds.
Init ==
    /\ \E e \in Exchanges : /\ active = [h \in Holders |-> e]
                            /\ \E S \in SUBSET Symbols : cache = Rows(e, S)
    /\ tickers = [s \in Symbols |-> [e \in Exchanges |-> None]]
    /\ balances = [e \in Exchanges |-> None]
    /\ fetched = 0
    /\ poller = [at |-> "pairs", todo |-> {}, exchange |-> None, symbol |-> None]
    /\ refreshing = None
    /\ subscribed = {}
    /\ queue = [c \in Subscribers |-> <<>>]
    /\ client = [c \in Subscribers |-> "off"]
    /\ got = [c \in Subscribers |-> <<>>]
    /\ due = [c \in Subscribers |-> <<>>]
    /\ task = [r \in Refreshers |-> NoTask]
    /\ overlapped = FALSE
    /\ requests = 0

-----------------------------------------------------------------------------
(* MarketDataFetcher._poll_loop and _fetch_symbol *)

\* The pair list (all_symbols) reads the cache as it is, in the middle of a refresh too.
GetPairs ==
    /\ poller.at = "pairs"
    /\ poller' = [poller EXCEPT !.at = "fetch", !.todo = {row[2] : row \in cache}]
    /\ UNCHANGED <<active, balances, refreshing, tickers, fetched, stream, symbols, requests>>

\* The adapter of the active exchange is asked; which one is remembered in a local.
Fetch(s) ==
    /\ poller.at = "fetch"
    /\ s \in poller.todo
    /\ poller' = [at |-> "answer", todo |-> poller.todo \ {s},
                  exchange |-> active["fetcher"], symbol |-> s]
    /\ UNCHANGED <<active, balances, refreshing, tickers, fetched, stream, symbols, requests>>

\* Mutant of Broadcast: the size is compared too late by one.
BroadcastOneMore(n) ==
    /\ queue' = [c \in Subscribers |->
                   IF c \in subscribed /\ Len(queue[c]) <= QueueSize
                   THEN Append(queue[c], n) ELSE queue[c]]
    /\ due' = [c \in Subscribers |->
                 IF c \in subscribed /\ Len(queue[c]) < QueueSize
                 THEN Append(due[c], n) ELSE due[c]]

\* Mutant of Broadcast: one full queue ends the loop over the subscribers.
BroadcastStops(n) ==
    /\ queue' = [c \in Subscribers |->
                   IF c \in subscribed /\ \A d \in subscribed : Len(queue[d]) < QueueSize
                   THEN Append(queue[c], n) ELSE queue[c]]
    /\ due' = [c \in Subscribers |->
                 IF c \in subscribed /\ Len(queue[c]) < QueueSize
                 THEN Append(due[c], n) ELSE due[c]]

\* Every subscriber gets it whose queue has room; for the others it is dropped.
Broadcast(n) ==
    LET Room == {c \in subscribed : Len(queue[c]) < QueueSize}
        Put(q) == [c \in Subscribers |-> IF c \in Room THEN Append(q[c], n) ELSE q[c]]
    IN queue' = Put(queue) /\ due' = Put(due)

\* Mutant of FilingExchange: the attribute is read again after the await.
FilingExchangeNow == active["fetcher"]

\* active_adapter.name of the request that was sent.
FilingExchange == poller.exchange

Asked == [poller EXCEPT !.at = "fetch", !.exchange = None, !.symbol = None]

\* The answer is stored and broadcast without an await in between.
Answer ==
    /\ poller.at = "answer"
    /\ fetched < MaxTickers
    /\ fetched' = fetched + 1
    /\ tickers' = [tickers EXCEPT ![poller.symbol] =
                     [@ EXCEPT ![FilingExchange] = poller.exchange]]
    /\ Broadcast(fetched + 1)
    /\ poller' = Asked
    /\ UNCHANGED <<active, balances, refreshing, subscribed, client, got, symbols, requests>>

\* The request raised: the symbol is skipped.
NoAnswer ==
    /\ poller.at = "answer"
    /\ poller' = Asked
    /\ UNCHANGED <<active, balances, refreshing, tickers, fetched, stream, symbols, requests>>

\* The round is over; the next begins when the loop has slept.
Sleep ==
    /\ poller.at = "fetch"
    /\ poller.todo = {}
    /\ poller' = [poller EXCEPT !.at = "pairs"]
    /\ UNCHANGED <<active, balances, refreshing, tickers, fetched, stream, symbols, requests>>

-----------------------------------------------------------------------------
(* PortfolioTracker._refresh_balances *)

AskBalances ==
    /\ refreshing = None
    /\ refreshing' = active["tracker"]
    /\ UNCHANGED <<active, balances, prices, stream, symbols, requests>>

\* Balances of an exchange that is no longer active stay where they are.
StoreBalances ==
    /\ refreshing # None
    /\ balances' = [balances EXCEPT ![refreshing] = refreshing]
    /\ refreshing' = None
    /\ UNCHANGED <<active, prices, stream, symbols, requests>>

NoBalances ==
    /\ refreshing # None
    /\ refreshing' = None
    /\ UNCHANGED <<active, balances, prices, stream, symbols, requests>>

-----------------------------------------------------------------------------
(* GET /api/market-data/stream *)

Subscribe(c) ==
    /\ client[c] = "off"
    /\ client' = [client EXCEPT ![c] = "waiting"]
    /\ subscribed' = subscribed \cup {c}
    /\ UNCHANGED <<active, balances, refreshing, prices, queue, got, due, symbols, requests>>

Take(c) ==
    /\ client[c] = "waiting"
    /\ queue[c] # <<>>
    /\ client' = [client EXCEPT ![c] = "sending"]
    /\ got' = [got EXCEPT ![c] = Append(@, Head(queue[c]))]
    /\ queue' = [queue EXCEPT ![c] = Tail(@)]
    /\ UNCHANGED <<active, balances, refreshing, prices, subscribed, due, symbols, requests>>

Sent(c) ==
    /\ client[c] = "sending"
    /\ client' = [client EXCEPT ![c] = "waiting"]
    /\ UNCHANGED <<active, balances, refreshing, prices, subscribed, queue, got, due, symbols,
                   requests>>

\* CancelledError is caught where the generator waits for its queue, which is forgotten;
\* who comes back gets another.
Leave(c) ==
    /\ client[c] = "waiting"
    /\ client' = [client EXCEPT ![c] = "off"]
    /\ subscribed' = subscribed \ {c}
    /\ queue' = [queue EXCEPT ![c] = <<>>]
    /\ got' = [got EXCEPT ![c] = <<>>]
    /\ due' = [due EXCEPT ![c] = <<>>]
    /\ UNCHANGED <<active, balances, refreshing, prices, symbols, requests>>

\* Cancelled while a message is being sent, the generator is at its yield and sees no
\* CancelledError: the queue stays subscribed.
LeaveSending(c) ==
    /\ client[c] = "sending"
    /\ client' = [client EXCEPT ![c] = "gone"]
    /\ UNCHANGED <<active, balances, refreshing, prices, subscribed, queue, got, due, symbols,
                   requests>>

-----------------------------------------------------------------------------
(* POST /api/exchanges/active, POST /api/pairlists/refresh-cache, SymbolCache *)

Running == {r \in Refreshers : task[r].at # "idle"}

Start(r, at, e) ==
    /\ requests < MaxRequests
    /\ requests' = requests + 1
    /\ r \notin Running
    /\ task' = [task EXCEPT ![r] = [at |-> at, exchange |-> e, listed |-> {}]]
    /\ UNCHANGED <<balances, refreshing, prices, stream, cache>>

\* Mutant of Switch: the refresh that leaves the rows of other exchanges alone.
SwitchKeepingOthers(r, e) ==
    /\ Start(r, "list", e)
    /\ active' = [h \in Holders |-> e]
    /\ overlapped' = (Running # {})

\* All components are told, then a task refreshes the cache; nobody stops an earlier one.
Switch(r, e) ==
    /\ Start(r, "others", e)
    /\ active' = [h \in Holders |-> e]
    /\ overlapped' = (Running # {})

\* refresh_for_exchange of the exchange that is active at the request.
ForceRefresh(r) ==
    /\ Start(r, "list", active["settings"])
    /\ overlapped' = (overlapped \/ Running # {})
    /\ UNCHANGED active

Advance(r, from, to) == /\ task[r].at = from
                        /\ task' = [task EXCEPT ![r].at = to]

End(r) == task' = [task EXCEPT ![r] = NoTask]

rest == <<active, balances, refreshing, prices, stream, overlapped, requests>>

DeleteOthers(r) ==
    /\ Advance(r, "others", "list")
    /\ cache' = {row \in cache : row[1] = task[r].exchange}
    /\ UNCHANGED rest

List(r) ==
    /\ task[r].at = "list"
    /\ \E S \in SUBSET Symbols :
         task' = [task EXCEPT ![r] = [@ EXCEPT !.at = "own", !.listed = S]]
    /\ UNCHANGED <<rest, cache>>

\* The exchange does not answer: the task ends, nothing is put back.
ListFails(r) ==
    /\ task[r].at = "list"
    /\ End(r)
    /\ UNCHANGED <<rest, cache>>

DeleteOwn(r) ==
    /\ task[r].at = "own"
    /\ cache' = {row \in cache : row[1] # task[r].exchange}
    /\ IF task[r].listed = {} THEN End(r) ELSE Advance(r, "own", "insert")
    /\ UNCHANGED rest

New(r) == Rows(task[r].exchange, task[r].listed)

InsertOwn(r) ==
    /\ task[r].at = "insert"
    /\ New(r) \cap cache = {}
    /\ cache' = cache \cup New(r)
    /\ End(r)
    /\ UNCHANGED rest

\* A row is there already, by a refresh of the same exchange: PRIMARY KEY.  The rows of
\* the batch before it stay.
InsertOwnFails(r) ==
    /\ task[r].at = "insert"
    /\ New(r) \cap cache # {}
    /\ \E before \in SUBSET (New(r) \ cache) : cache' = cache \cup before
    /\ End(r)
    /\ UNCHANGED rest

-----------------------------------------------------------------------------
(* Specification *)

Poll == GetPairs \/ (\E s \in Symbols : Fetch(s)) \/ Answer \/ NoAnswer \/ Sleep

Balances == AskBalances \/ StoreBalances \/ NoBalances

Serve(c) == Subscribe(c) \/ Take(c) \/ Sent(c) \/ Leave(c) \/ LeaveSending(c)

Refresh(r) ==
    \/ \E e \in Exchanges : Switch(r, e)
    \/ ForceRefresh(r) \/ DeleteOthers(r) \/ List(r) \/ ListFails(r) \/ DeleteOwn(r)
    \/ InsertOwn(r) \/ InsertOwnFails(r)

Next == \/ Poll
        \/ Balances
        \/ \E c \in Subscribers : Serve(c)
        \/ \E r \in Refreshers : Refresh(r)

Spec == Init /\ [][Next]_vars

-----------------------------------------------------------------------------
(* Properties *)

\* Every variable has its type; no queue holds more than the fetcher allows.
TypeOK ==
    /\ active \in [Holders -> Exchanges]
    /\ tickers \in [Symbols -> [Exchanges -> Exchanges \cup {None}]]
    /\ balances \in [Exchanges -> Exchanges \cup {None}]
    /\ fetched \in 0 .. MaxTickers
    /\ poller \in Poller
    /\ refreshing \in Exchanges \cup {None}
    /\ subscribed \subseteq Subscribers
    /\ {queue, got, due} \subseteq [Subscribers -> Seq(1 .. MaxTickers)]
    /\ \A c \in Subscribers : Len(queue[c]) <= QueueSize
    /\ client \in [Subscribers -> {"off", "waiting", "sending", "gone"}]
    /\ cache \subseteq Exchanges \X Symbols
    /\ task \in [Refreshers -> Task]
    /\ overlapped \in BOOLEAN
    /\ requests \in 0 .. MaxRequests

\* A price or a balance is found under the exchange it came from, though the exchange may
\* be switched, more than once, between the request and its answer.
FiledUnderSource ==
    \A e \in Exchanges : /\ \A s \in Symbols : tickers[s][e] \in {e, None}
                         /\ balances[e] \in {e, None}

\* A client is handed, in order, each ticker that was broadcast while its own queue had
\* room: a slow client, or one that left in the middle of a message, costs nobody else any.
ClientsIndependent ==
    \A c \in Subscribers : got[c] \o queue[c] = due[c]

\* Between refreshes that did not overlap, the symbols polled are symbols of the active
\* exchange only, also after refreshes that failed.
CacheFollowsActive ==
    Running = {} /\ ~overlapped => \A row \in cache : row[1] = active["settings"]
=============================================================================
