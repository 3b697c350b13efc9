--------------------------- MODULE MarketDataProofs ---------------------------
(***************************************************************************)
(* Proofs about MarketData, for any exchanges, symbols, clients, sizes of  *)
(* queues and numbers of refreshes and requests.                           *)
(*                                                                         *)
(* Prices: the exchange a ticker is filed under is the one remembered when *)
(* it was asked for (AskedOK).  The stream needs no more than its property.*)
(* The cache: refreshes that did not overlap are one, of the active        *)
(* exchange, and after its first DELETE every row is of that one (CacheOK).*)
(***************************************************************************)
EXTENDS MarketData, SequenceTheorems, TLAPS

Numbers == 1 .. MaxTickers

\* A request under way has an exchange, and so has a task.
AskedOK == /\ poller.at = "answer" => poller.exchange \in Exchanges
           /\ \A r \in Running : task[r].exchange \in Exchanges

\* All rows are of e.
Only(e) == \A row \in cache : row[1] = e

CacheOK ==
    ~overlapped =>
        /\ \A r, q \in Running : r = q
        /\ \A r \in Running : task[r].exchange = active["settings"]
        /\ (\A r \in Refreshers : task[r].at # "others") => Only(active["settings"])

IInv == TypeOK /\ AskedOK /\ FiledUnderSource /\ ClientsIndependent /\ CacheOK

-----------------------------------------------------------------------------
(* Sequences *)

\* Moving the head of a queue to what was taken changes nothing of the two together.
LEMMA TakeHead ==
    ASSUME NEW S, NEW s \in Seq(S), NEW t \in Seq(S), t # <<>>
    PROVE  Append(s, Head(t)) \o Tail(t) = s \o t
  <1>1. Head(t) \in S /\ Tail(t) \in Seq(S) /\ Len(Tail(t)) = Len(t) - 1
        BY HeadTailProperties
  <1>2. Append(s, Head(t)) \in Seq(S) /\ Len(Append(s, Head(t))) = Len(s) + 1
        BY <1>1, AppendProperties
  <1>3. /\ Append(s, Head(t)) \o Tail(t) \in Seq(S)
        /\ s \o t \in Seq(S)
        /\ Len(Append(s, Head(t)) \o Tail(t)) = Len(s) + 1 + (Len(t) - 1)
        /\ Len(s \o t) = Len(s) + Len(t)
        BY <1>1, <1>2, ConcatProperties
  <1>4. Len(s) \in Nat /\ Len(t) \in Nat
        BY LenProperties
  <1>5. ASSUME NEW i \in 1 .. Len(s) + Len(t)
        PROVE  (Append(s, Head(t)) \o Tail(t))[i] = (s \o t)[i]
        BY <1>1, <1>2, <1>4, t # <<>>
  <1>6. QED
        BY <1>3, <1>4, <1>5, SeqEqual

\* Appending to a queue is appending to the two together.
LEMMA PutLast ==
    ASSUME NEW S, NEW s \in Seq(S), NEW t \in Seq(S), NEW n \in S
    PROVE  s \o Append(t, n) = Append(s \o t, n)
  <1>1. <<n>> \in Seq(S) /\ s \o t \in Seq(S)
        BY ConcatProperties
  <1>2. Append(t, n) = t \o <<n>> /\ Append(s \o t, n) = (s \o t) \o <<n>>
        BY <1>1, AppendIsConcat
  <1>3. (s \o t) \o <<n>> = s \o (t \o <<n>>)
        BY <1>1, ConcatAssociative
  <1>4. QED
        BY <1>2, <1>3

-----------------------------------------------------------------------------
(* Types *)

\* The types of the stream's variables, in parts.
LEMMA StreamTypes ==
    ASSUME TypeOK
    PROVE  /\ queue \in [Subscribers -> Seq(Numbers)]
           /\ got \in [Subscribers -> Seq(Numbers)]
           /\ due \in [Subscribers -> Seq(Numbers)]
  BY DEF TypeOK, Numbers

\* A broadcast puts the number of the ticker at the end of some queues, and no queue grows
\* beyond its size.
LEMMA BroadcastPuts ==
    ASSUME TypeOK, NEW n \in Numbers, Broadcast(n)
    PROVE  /\ queue' \in [Subscribers -> Seq(Numbers)]
           /\ due' \in [Subscribers -> Seq(Numbers)]
           /\ \A c \in Subscribers :
                 /\ Len(queue'[c]) <= QueueSize
                 /\ \/ queue'[c] = queue[c] /\ due'[c] = due[c]
                    \/ queue'[c] = Append(queue[c], n) /\ due'[c] = Append(due[c], n)
  <1> DEFINE Room == {c \in subscribed : Len(queue[c]) < QueueSize}
  <1>1. /\ queue' = [c \in Subscribers |->
                       IF c \in Room THEN Append(queue[c], n) ELSE queue[c]]
        /\ due' = [c \in Subscribers |-> IF c \in Room THEN Append(due[c], n) ELSE due[c]]
        BY DEF Broadcast
  <1>2. \A c \in Room : Len(queue[c]) < QueueSize
        OBVIOUS
  <1> HIDE DEF Room
  <1>3. ASSUME NEW c \in Subscribers
        PROVE  /\ queue'[c] \in Seq(Numbers) /\ due'[c] \in Seq(Numbers)
               /\ Len(queue'[c]) <= QueueSize
               /\ \/ queue'[c] = queue[c] /\ due'[c] = due[c]
                  \/ queue'[c] = Append(queue[c], n) /\ due'[c] = Append(due[c], n)
    <2>1. queue[c] \in Seq(Numbers) /\ due[c] \in Seq(Numbers)
          BY StreamTypes
    <2>2. CASE c \in Room
      <3>1. queue'[c] = Append(queue[c], n) /\ due'[c] = Append(due[c], n)
            BY <1>1, <2>2
      <3>2. Append(queue[c], n) \in Seq(Numbers) /\ Append(due[c], n) \in Seq(Numbers)
            /\ Len(Append(queue[c], n)) = Len(queue[c]) + 1
            BY <2>1, AppendProperties
      <3>3. Len(queue[c]) \in Nat
            BY <2>1, LenProperties
      <3>4. QED
            BY <1>2, <2>2, <3>1, <3>2, <3>3, MarketAssumption
    <2>3. CASE c \notin Room
          BY <1>1, <2>1, <2>3 DEF TypeOK
    <2>4. QED
          BY <2>2, <2>3
  <1>4. QED
        BY <1>1, <1>3

\* The variables have their types at the start.
LEMMA InitTypes == Init => TypeOK
  <1> SUFFICES ASSUME Init PROVE TypeOK
      OBVIOUS
  <1>1. PICK e \in Exchanges : /\ active = [h \in Holders |-> e]
                               /\ \E S \in SUBSET Symbols : cache = Rows(e, S)
        BY DEF Init
  <1>2. active \in [Holders -> Exchanges] /\ cache \subseteq Exchanges \X Symbols
        BY <1>1 DEF Rows
  <1>3. <<>> \in Seq(Numbers) /\ Len(<<>>) = 0
        OBVIOUS
  <1>4. {queue, got, due} \subseteq [Subscribers -> Seq(Numbers)]
        BY <1>3 DEF Init
  <1>5. \A c \in Subscribers : Len(queue[c]) <= QueueSize
        BY <1>3, MarketAssumption DEF Init
  <1>6. poller \in Poller /\ task \in [Refreshers -> Task]
        BY DEF Init, Poller, Task, NoTask
  <1>7. fetched \in 0 .. MaxTickers /\ requests \in 0 .. MaxRequests
        BY MarketAssumption DEF Init
  <1>8. QED
        BY <1>2, <1>4, <1>5, <1>6, <1>7 DEF Init, TypeOK, Numbers

\* A step of the poll loop keeps the types.
LEMMA PollTypes == TypeOK /\ Poll => TypeOK'
  <1> SUFFICES ASSUME TypeOK, Poll PROVE TypeOK'
      OBVIOUS
  <1>0. /\ poller.todo \subseteq Symbols /\ poller.exchange \in Exchanges \cup {None}
        /\ poller.symbol \in Symbols \cup {None} /\ active["fetcher"] \in Exchanges
        /\ poller \in Poller
        BY DEF TypeOK, Poller, Holders
  <1>1. CASE GetPairs
    <2>1. {row[2] : row \in cache} \subseteq Symbols
          BY DEF TypeOK
    <2>2. poller' \in Poller
          BY <1>0, <1>1, <2>1 DEF GetPairs, Poller
    <2>3. QED
          BY <1>1, <2>2 DEF GetPairs, TypeOK, stream, symbols
  <1>2. ASSUME NEW s \in Symbols, Fetch(s)
        PROVE  TypeOK'
    <2>1. poller' \in Poller
          BY <1>0, <1>2 DEF Fetch, Poller
    <2>2. QED
          BY <1>2, <2>1 DEF Fetch, TypeOK, stream, symbols
  <1>3. Asked \in Poller
        BY <1>0 DEF Asked, Poller
  <1>4. CASE Answer
    <2>1. fetched + 1 \in Numbers /\ fetched' \in 0 .. MaxTickers
          BY <1>4, MarketAssumption DEF Answer, TypeOK, Numbers
    <2>2. /\ queue' \in [Subscribers -> Seq(Numbers)]
          /\ due' \in [Subscribers -> Seq(Numbers)]
          /\ \A c \in Subscribers : Len(queue'[c]) <= QueueSize
          BY <1>4, <2>1, BroadcastPuts DEF Answer
    <2>3. tickers' \in [Symbols -> [Exchanges -> Exchanges \cup {None}]]
          BY <1>0, <1>4 DEF Answer, TypeOK
    <2>4. QED
          BY <1>3, <1>4, <2>1, <2>2, <2>3 DEF Answer, TypeOK, Numbers, symbols
  <1>5. CASE NoAnswer
        BY <1>3, <1>5 DEF NoAnswer, TypeOK, stream, symbols
  <1>6. CASE Sleep
    <2>1. poller' \in Poller
          BY <1>0, <1>6 DEF Sleep, Poller
    <2>2. QED
          BY <1>6, <2>1 DEF Sleep, TypeOK, stream, symbols
  <1>7. QED
        BY <1>1, <1>2, <1>4, <1>5, <1>6 DEF Poll

\* A client of the stream keeps the types.
LEMMA ServeTypes == ASSUME TypeOK, NEW c \in Subscribers, Serve(c) PROVE TypeOK'
  <1>1. CASE Subscribe(c)
        BY <1>1 DEF Subscribe, TypeOK, prices, symbols
  <1>2. CASE Take(c)
    <2>1. queue[c] \in Seq(Numbers) /\ got[c] \in Seq(Numbers) /\ queue[c] # <<>>
          BY <1>2, StreamTypes DEF Take
    <2>2. /\ Head(queue[c]) \in Numbers /\ Tail(queue[c]) \in Seq(Numbers)
          /\ Len(Tail(queue[c])) = Len(queue[c]) - 1
          BY <2>1, HeadTailProperties
    <2>3. Append(got[c], Head(queue[c])) \in Seq(Numbers)
          BY <2>1, <2>2, AppendProperties
    <2>4. Len(queue[c]) \in Nat /\ Len(queue[c]) <= QueueSize
          BY <2>1, LenProperties DEF TypeOK
    <2>5. /\ queue' \in [Subscribers -> Seq(Numbers)] /\ got' \in [Subscribers -> Seq(Numbers)]
          /\ due' \in [Subscribers -> Seq(Numbers)]
          BY <1>2, <2>2, <2>3, StreamTypes DEF Take
    <2>6. \A d \in Subscribers : Len(queue'[d]) <= QueueSize
          BY <1>2, <2>2, <2>4, MarketAssumption DEF Take, TypeOK
    <2>7. QED
          BY <1>2, <2>5, <2>6 DEF Take, TypeOK, Numbers, prices, symbols
  <1>3. CASE Sent(c)
        BY <1>3 DEF Sent, TypeOK, prices, symbols
  <1>4. CASE Leave(c)
    <2>1. <<>> \in Seq(Numbers) /\ Len(<<>>) = 0
          OBVIOUS
    <2>2. /\ queue' \in [Subscribers -> Seq(Numbers)] /\ got' \in [Subscribers -> Seq(Numbers)]
          /\ due' \in [Subscribers -> Seq(Numbers)]
          BY <1>4, <2>1, StreamTypes DEF Leave
    <2>3. \A d \in Subscribers : Len(queue'[d]) <= QueueSize
          BY <1>4, <2>1, MarketAssumption DEF Leave, TypeOK
    <2>4. QED
          BY <1>4, <2>2, <2>3 DEF Leave, TypeOK, Numbers, prices, symbols
  <1>5. CASE LeaveSending(c)
        BY <1>5 DEF LeaveSending, TypeOK, prices, symbols
  <1>6. QED
        BY <1>1, <1>2, <1>3, <1>4, <1>5 DEF Serve

\* A refresh of the cache keeps the types.
LEMMA RefreshTypes == ASSUME TypeOK, AskedOK, NEW r \in Refreshers, Refresh(r) PROVE TypeOK'
  <1>1. /\ task[r] \in Task /\ task[r].listed \subseteq Symbols
        /\ task[r].at # "idle" => task[r].exchange \in Exchanges
        /\ active["settings"] \in Exchanges /\ NoTask \in Task
        BY DEF TypeOK, AskedOK, Running, Task, NoTask, Holders
  <1>2. ASSUME UNCHANGED rest, task' \in [Refreshers -> Task],
               cache' \subseteq Exchanges \X Symbols
        PROVE  TypeOK'
        BY <1>2 DEF rest, TypeOK, prices, stream
  <1>3. ASSUME NEW at \in {"others", "list"}, NEW e \in Exchanges, Start(r, at, e),
               active' \in [Holders -> Exchanges], overlapped' \in BOOLEAN
        PROVE  TypeOK'
    <2>1. [at |-> at, exchange |-> e, listed |-> {}] \in Task
          BY DEF Task
    <2>2. task' \in [Refreshers -> Task] /\ requests' \in 0 .. MaxRequests
          BY <1>3, <2>1, MarketAssumption DEF Start, TypeOK
    <2>3. QED
          BY <1>3, <2>2 DEF Start, TypeOK, prices, stream
  <1>4. ASSUME NEW e \in Exchanges, Switch(r, e)
        PROVE  TypeOK'
        BY <1>3, <1>4 DEF Switch
  <1>5. CASE ForceRefresh(r)
        BY <1>1, <1>3, <1>5 DEF ForceRefresh, TypeOK
  <1>6. CASE DeleteOthers(r)
    <2>1. [task[r] EXCEPT !.at = "list"] \in Task
          BY <1>1 DEF Task
    <2>2. QED
          BY <1>2, <1>6, <2>1 DEF DeleteOthers, Advance, TypeOK
  <1>7. CASE List(r)
    <2>1. PICK S \in SUBSET Symbols :
              task' = [task EXCEPT ![r] = [@ EXCEPT !.at = "own", !.listed = S]]
          BY <1>7 DEF List
    <2>2. [task[r] EXCEPT !.at = "own", !.listed = S] \in Task
          BY <1>1 DEF Task
    <2>3. QED
          BY <1>2, <1>7, <2>1, <2>2 DEF List, TypeOK
  <1>8. CASE ListFails(r)
        BY <1>1, <1>2, <1>8 DEF ListFails, End, TypeOK
  <1>9. CASE DeleteOwn(r)
    <2>1. [task[r] EXCEPT !.at = "insert"] \in Task
          BY <1>1 DEF Task
    <2>2. QED
          BY <1>1, <1>2, <1>9, <2>1 DEF DeleteOwn, Advance, End, TypeOK
  <1>10. CASE InsertOwn(r) \/ InsertOwnFails(r)
    <2>1. New(r) \subseteq Exchanges \X Symbols
          BY <1>1, <1>10 DEF InsertOwn, InsertOwnFails, New, Rows
    <2>2. cache' \subseteq cache \cup New(r)
          BY <1>10 DEF InsertOwn, InsertOwnFails
    <2>3. QED
          BY <1>1, <1>2, <1>10, <2>1, <2>2 DEF InsertOwn, InsertOwnFails, End, TypeOK
  <1>11. QED
         BY <1>4, <1>5, <1>6, <1>7, <1>8, <1>9, <1>10 DEF Refresh

\* Every step keeps the types.
LEMMA StepTypes == TypeOK /\ AskedOK /\ [Next]_vars => TypeOK'
  <1> SUFFICES ASSUME TypeOK, AskedOK, [Next]_vars PROVE TypeOK'
      OBVIOUS
  <1>1. CASE Balances
    <2>1. active["tracker"] \in Exchanges
          BY DEF TypeOK, Holders
    <2>2. refreshing' \in Exchanges \cup {None}
          /\ balances' \in [Exchanges -> Exchanges \cup {None}]
          BY <1>1, <2>1 DEF Balances, AskBalances, StoreBalances, NoBalances, TypeOK
    <2>3. QED
          BY <1>1, <2>2 DEF Balances, AskBalances, StoreBalances, NoBalances, TypeOK, prices,
                            stream, symbols
  <1>2. CASE UNCHANGED vars
        BY <1>2 DEF vars, TypeOK, prices, stream, symbols
  <1>3. QED
        BY <1>1, <1>2, PollTypes, ServeTypes, RefreshTypes DEF Next

-----------------------------------------------------------------------------
(* Requests and prices *)

\* Nothing is asked and nothing filed at the start.
LEMMA InitFiled == Init => AskedOK /\ FiledUnderSource
  BY DEF Init, AskedOK, FiledUnderSource, Running, NoTask

\* Who asks remembers whom: the poll loop in a local, a task in its argument.
LEMMA StepAsked == TypeOK /\ AskedOK /\ [Next]_vars => AskedOK'
  <1> SUFFICES ASSUME TypeOK, AskedOK, [Next]_vars PROVE AskedOK'
      OBVIOUS
  <1>1. CASE Poll
    <2>1. task' = task
          BY <1>1 DEF Poll, GetPairs, Fetch, Answer, NoAnswer, Sleep, symbols
    <2>2. poller'.at = "answer" => poller'.exchange \in Exchanges
      <3>1. ASSUME NEW s \in Symbols, Fetch(s)
            PROVE  poller'.exchange \in Exchanges
            BY <3>1 DEF Fetch, TypeOK, Holders
      <3>2. ASSUME GetPairs \/ Answer \/ NoAnswer \/ Sleep
            PROVE  poller'.at # "answer"
            BY <3>2 DEF GetPairs, Answer, NoAnswer, Sleep, Asked, TypeOK, Poller
      <3>3. QED
            BY <1>1, <3>1, <3>2 DEF Poll
    <2>3. QED
          BY <2>1, <2>2 DEF AskedOK, Running
  <1>2. ASSUME NEW r \in Refreshers, Refresh(r)
        PROVE  AskedOK'
    <2>1. poller' = poller
          BY <1>2 DEF Refresh, Switch, ForceRefresh, Start, DeleteOthers, List, ListFails,
                      DeleteOwn, InsertOwn, InsertOwnFails, rest, prices
    <2>2. \A q \in Refreshers : q # r => task'[q] = task[q]
          BY <1>2 DEF Refresh, Switch, ForceRefresh, Start, DeleteOthers, List, ListFails,
                      DeleteOwn, InsertOwn, InsertOwnFails, Advance, End, TypeOK
    <2>3. task'[r].at = "idle" \/ task'[r].exchange \in Exchanges
      <3>1. ASSUME NEW e \in Exchanges, Switch(r, e)
            PROVE  task'[r].exchange \in Exchanges
            BY <3>1 DEF Switch, Start, TypeOK
      <3>2. CASE ForceRefresh(r)
            BY <3>2 DEF ForceRefresh, Start, TypeOK, Holders
      <3>3. CASE DeleteOthers(r)
            BY <3>3 DEF DeleteOthers, Advance, AskedOK, Running, TypeOK, Task
      <3>4. CASE List(r)
            BY <3>4 DEF List, AskedOK, Running, TypeOK, Task
      <3>5. CASE DeleteOwn(r)
        <4>1. CASE End(r)
              BY <4>1 DEF End, NoTask, TypeOK
        <4>2. CASE Advance(r, "own", "insert")
              BY <4>2 DEF Advance, AskedOK, Running, TypeOK, Task
        <4>3. QED
              BY <3>5, <4>1, <4>2 DEF DeleteOwn
      <3>6. CASE ListFails(r) \/ InsertOwn(r) \/ InsertOwnFails(r)
            BY <3>6 DEF ListFails, InsertOwn, InsertOwnFails, End, NoTask, TypeOK
      <3>7. QED
            BY <1>2, <3>1, <3>2, <3>3, <3>4, <3>5, <3>6 DEF Refresh
    <2>4. QED
          BY <2>1, <2>2, <2>3 DEF AskedOK, Running
  <1>3. ASSUME UNCHANGED <<poller, task>>
        PROVE  AskedOK'
        BY <1>3 DEF AskedOK, Running
  <1>4. ASSUME NEW c \in Subscribers, Serve(c)
        PROVE  UNCHANGED <<poller, task>>
        BY <1>4 DEF Serve, Subscribe, Take, Sent, Leave, LeaveSending, prices, symbols
  <1>5. Balances \/ UNCHANGED vars => UNCHANGED <<poller, task>>
        BY DEF Balances, AskBalances, StoreBalances, NoBalances, vars, prices, symbols
  <1>6. QED
        BY <1>1, <1>2, <1>3, <1>4, <1>5 DEF Next

\* An answer is filed under the exchange that was asked.
LEMMA StepFiled ==
    TypeOK /\ AskedOK /\ FiledUnderSource /\ [Next]_vars => FiledUnderSource'
  <1> SUFFICES ASSUME TypeOK, AskedOK, FiledUnderSource, [Next]_vars PROVE FiledUnderSource'
      OBVIOUS
  <1>1. CASE Answer
    <2>1. /\ poller.exchange \in Exchanges /\ balances' = balances
          /\ tickers' = [tickers EXCEPT ![poller.symbol] =
                           [@ EXCEPT ![poller.exchange] = poller.exchange]]
          BY <1>1 DEF Answer, AskedOK, FilingExchange
    <2>2. ASSUME NEW e \in Exchanges, NEW s \in Symbols
          PROVE  tickers'[s][e] \in {e, None}
      <3>1. CASE s = poller.symbol
            BY <2>1, <3>1 DEF FiledUnderSource, TypeOK
      <3>2. CASE s # poller.symbol
            BY <2>1, <3>2 DEF FiledUnderSource, TypeOK
      <3>3. QED
            BY <3>1, <3>2
    <2>3. QED
          BY <2>1, <2>2 DEF FiledUnderSource
  <1>2. CASE StoreBalances
        BY <1>2 DEF StoreBalances, FiledUnderSource, TypeOK, prices
  <1>3. ASSUME UNCHANGED <<tickers, balances>>
        PROVE  FiledUnderSource'
        BY <1>3 DEF FiledUnderSource
  <1>4. ASSUME NEW r \in Refreshers, Refresh(r)
        PROVE  UNCHANGED <<tickers, balances>>
        BY <1>4 DEF Refresh, Switch, ForceRefresh, Start, DeleteOthers, List, ListFails,
                    DeleteOwn, InsertOwn, InsertOwnFails, rest, prices
  <1>5. ASSUME NEW c \in Subscribers, Serve(c)
        PROVE  UNCHANGED <<tickers, balances>>
        BY <1>5 DEF Serve, Subscribe, Take, Sent, Leave, LeaveSending, prices
  <1>6. ASSUME NEW s \in Symbols, Fetch(s)
        PROVE  UNCHANGED <<tickers, balances>>
        BY <1>6 DEF Fetch
  <1>7. GetPairs \/ NoAnswer \/ Sleep \/ AskBalances \/ NoBalances \/ UNCHANGED vars
            => UNCHANGED <<tickers, balances>>
        BY DEF GetPairs, NoAnswer, Sleep, AskBalances, NoBalances, vars, prices
  <1>8. QED
        BY <1>1, <1>2, <1>3, <1>4, <1>5, <1>6, <1>7 DEF Next, Poll, Balances

-----------------------------------------------------------------------------
(* The stream *)

\* Nobody has a ticker at the start.
LEMMA InitStream == Init => ClientsIndependent
  <1>1. <<>> \o <<>> = <<>>
        OBVIOUS
  <1>2. QED
        BY <1>1 DEF Init, ClientsIndependent

\* No step changes what a client was and will be handed, but a broadcast to it.
LEMMA StepStream == TypeOK /\ ClientsIndependent /\ [Next]_vars => ClientsIndependent'
  <1> SUFFICES ASSUME TypeOK, ClientsIndependent, [Next]_vars PROVE ClientsIndependent'
      OBVIOUS
  <1> USE StreamTypes
  <1>1. CASE Answer
    <2>1. fetched + 1 \in Numbers
          BY <1>1, MarketAssumption DEF Answer, TypeOK, Numbers
    <2>2. got' = got
          BY <1>1 DEF Answer
    <2>3. ASSUME NEW c \in Subscribers
          PROVE  got'[c] \o queue'[c] = due'[c]
      <3> DEFINE n == fetched + 1
      <3>1. /\ got[c] \in Seq(Numbers) /\ queue[c] \in Seq(Numbers)
            /\ got[c] \o queue[c] = due[c]
            BY DEF ClientsIndependent
      <3>2. \/ queue'[c] = queue[c] /\ due'[c] = due[c]
            \/ queue'[c] = Append(queue[c], n) /\ due'[c] = Append(due[c], n)
            BY <1>1, <2>1, BroadcastPuts DEF Answer
      <3> HIDE DEF n
      <3>3. got[c] \o Append(queue[c], n) = Append(got[c] \o queue[c], n)
            BY <2>1, <3>1, PutLast DEF n
      <3>4. QED
            BY <2>2, <3>1, <3>2, <3>3
    <2>4. QED
          BY <2>3 DEF ClientsIndependent
  <1>2. ASSUME NEW c \in Subscribers, Take(c)
        PROVE  ClientsIndependent'
    <2>1. /\ queue[c] # <<>> /\ due' = due
          /\ got' = [got EXCEPT ![c] = Append(@, Head(queue[c]))]
          /\ queue' = [queue EXCEPT ![c] = Tail(@)]
          BY <1>2 DEF Take
    <2>2. got[c] \in Seq(Numbers) /\ queue[c] \in Seq(Numbers)
          OBVIOUS
    <2>3. Append(got[c], Head(queue[c])) \o Tail(queue[c]) = got[c] \o queue[c]
          BY <2>1, <2>2, TakeHead
    <2>4. ASSUME NEW d \in Subscribers
          PROVE  got'[d] \o queue'[d] = due'[d]
      <3>1. CASE d = c
            BY <2>1, <2>3, <3>1 DEF ClientsIndependent
      <3>2. CASE d # c
            BY <2>1, <3>2 DEF ClientsIndependent
      <3>3. QED
            BY <3>1, <3>2
    <2>5. QED
          BY <2>4 DEF ClientsIndependent
  <1>3. ASSUME NEW c \in Subscribers, Leave(c)
        PROVE  ClientsIndependent'
    <2>1. /\ got' = [got EXCEPT ![c] = <<>>] /\ queue' = [queue EXCEPT ![c] = <<>>]
          /\ due' = [due EXCEPT ![c] = <<>>]
          BY <1>3 DEF Leave
    <2>2. <<>> \o <<>> = <<>>
          OBVIOUS
    <2>3. ASSUME NEW d \in Subscribers
          PROVE  got'[d] \o queue'[d] = due'[d]
      <3>1. CASE d = c
            BY <2>1, <2>2, <3>1
      <3>2. CASE d # c
            BY <2>1, <3>2 DEF ClientsIndependent
      <3>3. QED
            BY <3>1, <3>2
    <2>4. QED
          BY <2>3 DEF ClientsIndependent
  <1>4. ASSUME UNCHANGED <<queue, got, due>>
        PROVE  ClientsIndependent'
        BY <1>4 DEF ClientsIndependent
  <1>5. ASSUME NEW c \in Subscribers, Subscribe(c) \/ Sent(c) \/ LeaveSending(c)
        PROVE  UNCHANGED <<queue, got, due>>
        BY <1>5 DEF Subscribe, Sent, LeaveSending
  <1>6. ASSUME NEW s \in Symbols, Fetch(s)
        PROVE  UNCHANGED <<queue, got, due>>
        BY <1>6 DEF Fetch, stream
  <1>7. ASSUME NEW r \in Refreshers, Refresh(r)
        PROVE  UNCHANGED <<queue, got, due>>
        BY <1>7 DEF Refresh, Switch, ForceRefresh, Start, DeleteOthers, List, ListFails,
                    DeleteOwn, InsertOwn, InsertOwnFails, rest, stream
  <1>8. GetPairs \/ NoAnswer \/ Sleep \/ Balances \/ UNCHANGED vars
            => UNCHANGED <<queue, got, due>>
        BY DEF GetPairs, NoAnswer, Sleep, Balances, AskBalances, StoreBalances, NoBalances,
               vars, stream
  <1>9. QED
        BY <1>1, <1>2, <1>3, <1>4, <1>5, <1>6, <1>7, <1>8 DEF Next, Poll, Serve

-----------------------------------------------------------------------------
(* The cache *)

\* The cache holds symbols of the active exchange at the start, and no refresh runs.
LEMMA InitCache == Init => CacheOK
  <1> SUFFICES ASSUME Init PROVE CacheOK
      OBVIOUS
  <1>1. PICK e \in Exchanges : /\ active = [h \in Holders |-> e]
                               /\ \E S \in SUBSET Symbols : cache = Rows(e, S)
        BY DEF Init
  <1>2. Only(active["settings"])
        BY <1>1 DEF Only, Rows, Holders
  <1>3. Running = {}
        BY DEF Init, Running, NoTask
  <1>4. QED
        BY <1>2, <1>3 DEF CacheOK

\* A task that goes on or ends, and leaves only rows of the exchange it is for where it found
\* no others (or deleted them), keeps CacheOK.
LEMMA TaskStep ==
    ASSUME TypeOK, CacheOK, NEW r \in Refreshers, task[r].at # "idle",
           UNCHANGED rest, task' = [task EXCEPT ![r] = task'[r]],
           task'[r].at = "idle" \/ task'[r].exchange = task[r].exchange,
           task'[r].at # "others",
           Only(task[r].exchange) \/ task[r].at = "others"
               => \A row \in cache' : row[1] = task[r].exchange
    PROVE  CacheOK'
  <1> SUFFICES ASSUME ~overlapped' PROVE /\ \A p, q \in Running' : p = q
                                         /\ \A q \in Running' :
                                               task'[q].exchange = active'["settings"]
                                         /\ Only(active["settings"])'
      BY DEF CacheOK
  <1>1. ~overlapped /\ active' = active
        BY DEF rest
  <1>2. r \in Running /\ \A q \in Running : q = r
        BY <1>1 DEF CacheOK, Running
  <1>3. task[r].exchange = active["settings"]
        BY <1>1, <1>2 DEF CacheOK
  <1>4. \A q \in Refreshers : q # r => task'[q] = task[q] /\ task[q].at = "idle"
        BY <1>2 DEF TypeOK, Running
  <1>5. \A q \in Running' : q = r
        BY <1>4 DEF Running
  <1>6. \A q \in Running' : task'[q].exchange = active'["settings"]
        BY <1>1, <1>3, <1>5 DEF Running
  <1>7. task[r].at # "others" => Only(task[r].exchange)
        BY <1>1, <1>3, <1>4 DEF CacheOK
  <1>8. QED
        BY <1>1, <1>3, <1>5, <1>6, <1>7 DEF Only

\* Every step keeps CacheOK.
LEMMA StepCache == TypeOK /\ CacheOK /\ [Next]_vars => CacheOK'
  <1> SUFFICES ASSUME TypeOK, CacheOK, [Next]_vars PROVE CacheOK'
      OBVIOUS
  <1>1. ASSUME NEW r \in Refreshers, NEW e \in Exchanges, Switch(r, e)
        PROVE  CacheOK'
    <2>1. /\ r \notin Running /\ overlapped' = (Running # {})
          /\ task' = [task EXCEPT ![r] = [at |-> "others", exchange |-> e, listed |-> {}]]
          /\ active' = [h \in Holders |-> e]
          BY <1>1 DEF Switch, Start
    <2>2. task'[r] = [at |-> "others", exchange |-> e, listed |-> {}]
          BY <2>1 DEF TypeOK
    <2>3. task'[r].at = "others" /\ task'[r].exchange = e /\ active'["settings"] = e
          BY <2>1, <2>2 DEF Holders
    <2>4. ~overlapped' => \A q \in Running' : q = r
          BY <2>1 DEF Running, TypeOK
    <2>5. QED
          BY <2>3, <2>4 DEF CacheOK
  <1>2. ASSUME NEW r \in Refreshers, ForceRefresh(r)
        PROVE  CacheOK'
    <2> DEFINE e == active["settings"]
    <2>1. /\ r \notin Running /\ overlapped' = (overlapped \/ Running # {})
          /\ task' = [task EXCEPT ![r] = [at |-> "list", exchange |-> e, listed |-> {}]]
          /\ active' = active /\ cache' = cache
          BY <1>2 DEF ForceRefresh, Start
    <2>2. task'[r] = [at |-> "list", exchange |-> e, listed |-> {}]
          BY <2>1 DEF TypeOK
    <2>3. task'[r].at = "list" /\ task'[r].exchange = e /\ active'["settings"] = e
          BY <2>1, <2>2
    <2>4. ~overlapped' => Running = {} /\ \A q \in Running' : q = r
          BY <2>1 DEF Running, TypeOK
    <2>5. ~overlapped' => Only(e)
          BY <2>1, <2>4 DEF CacheOK, Running
    <2>6. ~overlapped' => Only(active["settings"])'
          BY <2>1, <2>5 DEF Only
    <2>7. QED
          BY <2>3, <2>4, <2>6 DEF CacheOK
  <1>3. ASSUME NEW r \in Refreshers, DeleteOthers(r)
        PROVE  CacheOK'
    <2>1. /\ task[r].at = "others" /\ UNCHANGED rest
          /\ task' = [task EXCEPT ![r] = [@ EXCEPT !.at = "list"]]
          /\ cache' = {row \in cache : row[1] = task[r].exchange}
          BY <1>3 DEF DeleteOthers, Advance
    <2>2. task'[r].at = "list" /\ task'[r].exchange = task[r].exchange
          /\ task' = [task EXCEPT ![r] = task'[r]]
          BY <2>1 DEF TypeOK, Task
    <2>3. \A row \in cache' : row[1] = task[r].exchange
          BY <2>1
    <2>4. QED
          BY <2>1, <2>2, <2>3, TaskStep
  <1>4. ASSUME NEW r \in Refreshers, List(r) \/ ListFails(r)
        PROVE  CacheOK'
    <2>1. task[r].at = "list" /\ UNCHANGED <<rest, cache>>
          BY <1>4 DEF List, ListFails
    <2>2. /\ task' = [task EXCEPT ![r] = task'[r]] /\ task'[r].at # "others"
          /\ task'[r].at = "idle" \/ task'[r].exchange = task[r].exchange
      <3>1. CASE List(r)
            BY <3>1 DEF List, TypeOK, Task
      <3>2. CASE ListFails(r)
            BY <3>2 DEF ListFails, End, NoTask, TypeOK
      <3>3. QED
            BY <1>4, <3>1, <3>2
    <2>3. Only(task[r].exchange) => \A row \in cache' : row[1] = task[r].exchange
          BY <2>1 DEF Only
    <2>4. QED
          BY <2>1, <2>2, <2>3, TaskStep
  <1>5. ASSUME NEW r \in Refreshers, DeleteOwn(r)
        PROVE  CacheOK'
    <2>1. /\ task[r].at = "own" /\ UNCHANGED rest
          /\ cache' = {row \in cache : row[1] # task[r].exchange}
          BY <1>5 DEF DeleteOwn
    <2>2. /\ task' = [task EXCEPT ![r] = task'[r]] /\ task'[r].at # "others"
          /\ task'[r].at = "idle" \/ task'[r].exchange = task[r].exchange
      <3>1. CASE End(r)
            BY <3>1 DEF End, NoTask, TypeOK
      <3>2. CASE Advance(r, "own", "insert")
            BY <3>2 DEF Advance, TypeOK, Task
      <3>3. QED
            BY <1>5, <3>1, <3>2 DEF DeleteOwn
    <2>3. Only(task[r].exchange) => \A row \in cache' : row[1] = task[r].exchange
          BY <2>1 DEF Only
    <2>4. QED
          BY <2>1, <2>2, <2>3, TaskStep
  <1>6. ASSUME NEW r \in Refreshers, InsertOwn(r) \/ InsertOwnFails(r)
        PROVE  CacheOK'
    <2>1. /\ task[r].at = "insert" /\ UNCHANGED rest /\ cache' \subseteq cache \cup New(r)
          /\ task' = [task EXCEPT ![r] = NoTask]
          BY <1>6 DEF InsertOwn, InsertOwnFails, End
    <2>2. task' = [task EXCEPT ![r] = task'[r]] /\ task'[r].at = "idle"
          BY <2>1 DEF NoTask, TypeOK
    <2>3. \A row \in New(r) : row[1] = task[r].exchange
          BY DEF New, Rows
    <2>4. Only(task[r].exchange) => \A row \in cache' : row[1] = task[r].exchange
          BY <2>1, <2>3 DEF Only
    <2>5. QED
          BY <2>1, <2>2, <2>4, TaskStep
  <1>7. ASSUME UNCHANGED <<active, symbols>>
        PROVE  CacheOK'
        BY <1>7 DEF symbols, CacheOK, Running, Only
  <1>8. ASSUME NEW c \in Subscribers, Serve(c)
        PROVE  UNCHANGED <<active, symbols>>
        BY <1>8 DEF Serve, Subscribe, Take, Sent, Leave, LeaveSending
  <1>9. ASSUME NEW s \in Symbols, Fetch(s)
        PROVE  UNCHANGED <<active, symbols>>
        BY <1>9 DEF Fetch
  <1>10. GetPairs \/ Answer \/ NoAnswer \/ Sleep \/ Balances \/ UNCHANGED vars
            => UNCHANGED <<active, symbols>>
        BY DEF GetPairs, Answer, NoAnswer, Sleep, Balances, AskBalances, StoreBalances,
               NoBalances, vars
  <1>11. QED
         BY <1>1, <1>2, <1>3, <1>4, <1>5, <1>6, <1>7, <1>8, <1>9, <1>10
            DEF Next, Poll, Refresh

-----------------------------------------------------------------------------
(* Theorems *)

\* The inductive invariant is an invariant.
THEOREM Invariant == Spec => []IInv
  <1>1. Init => IInv
        BY InitTypes, InitFiled, InitStream, InitCache DEF IInv
  <1>2. IInv /\ [Next]_vars => IInv'
        BY StepTypes, StepAsked, StepFiled, StepStream, StepCache DEF IInv
  <1>3. QED
        BY <1>1, <1>2, PTL DEF Spec

\* Every variable has its type, and subscribe's queues never exceed their size.
THEOREM TypeCorrect == Spec => []TypeOK
  <1>1. IInv => TypeOK
        BY DEF IInv
  <1>2. QED
        BY <1>1, Invariant, PTL

\* Prices and balances are filed under the exchange that sent them, whatever is switched.
THEOREM SourcesRight == Spec => []FiledUnderSource
  <1>1. IInv => FiledUnderSource
        BY DEF IInv
  <1>2. QED
        BY <1>1, Invariant, PTL

\* What a client of the stream is handed does not depend on the other clients.
THEOREM ClientsApart == Spec => []ClientsIndependent
  <1>1. IInv => ClientsIndependent
        BY DEF IInv
  <1>2. QED
        BY <1>1, Invariant, PTL

\* Between refreshes that did not overlap the cache is that of the active exchange.
THEOREM CacheOfActive == Spec => []CacheFollowsActive
  <1>1. IInv => CacheFollowsActive
    <2> SUFFICES ASSUME IInv, Running = {}, ~overlapped
                 PROVE  Only(active["settings"])
        BY DEF CacheFollowsActive, Only
    <2>1. \A r \in Refreshers : task[r].at = "idle"
          BY DEF Running
    <2>2. QED
          BY <2>1 DEF IInv, CacheOK
  <1>2. QED
        BY <1>1, Invariant, PTL
=============================================================================
