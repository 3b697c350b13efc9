--------------------------- MODULE KlineCacheProofs ---------------------------
(***************************************************************************)
(* Proofs about KlineCache: its three invariants, for every number of      *)
(* requests and keys, every staleness bound, timeout and length of a run.  *)
(*                                                                         *)
(* FreshIsRecent is not inductive: that candles look fresh says only when  *)
(* they were stored.  What bounds their age is that a stamp is never more  *)
(* than one timeout after the source produced them (Bounded), which holds  *)
(* because no request to the source outlives its timeout (InTime).         *)
(* NothingForgotten needs the file to have what the last save wrote, since *)
(* that is what a restart puts into the cache (OnFile).                    *)
(***************************************************************************)
EXTENDS KlineCache, TLAPS

\* Stamps come after the candles, by at most the timeout.
Bounded(rows) ==
    \A k \in Keys : rows[k] # None =>
        rows[k].at <= rows[k].stamp /\ rows[k].stamp <= rows[k].at + Timeout

\* Who waits for the source waits for a key, no longer than the timeout, and gets candles
\* that were produced after it asked.
InTime ==
    \A r \in Requests : request[r].state # "idle" =>
        /\ request[r].key \in Keys
        /\ now <= request[r].since + Timeout
        /\ request[r].state = "coming" => request[r].since <= request[r].at

\* The file has what the last save wrote.
OnFile ==
    \A k \in Keys : kept[k] # None => file[k] # None /\ file[k].stamp >= kept[k]

IInv == /\ TypeOK
        /\ Bounded(cache)
        /\ Bounded(file)
        /\ InTime
        /\ OnFile
        /\ FreshIsRecent
        /\ NothingForgotten

-----------------------------------------------------------------------------
(* Lemmas *)

\* Entries and times stay what they are when the clock goes on.
LEMMA TypesOverTime ==
    ASSUME NEW t \in Nat, NEW u \in Nat, t <= u
    PROVE  /\ 0 .. t \subseteq 0 .. u
           /\ \A e \in [at : 0 .. t, stamp : 0 .. t] :
                 /\ e \in [at : 0 .. u, stamp : 0 .. u]
                 /\ e # None
  BY KlineAssumption

\* What an answer that is coming puts into the cache: an entry for its key, sound, with
\* today's stamp, and nothing else changes.
LEMMA StoredEntry ==
    ASSUME TypeOK, InTime, NEW r \in Requests, request[r].state = "coming"
    PROVE  /\ Stored(r) \in [Keys -> Entry \cup {None}]
           /\ \A k \in Keys \ {request[r].key} : Stored(r)[k] = cache[k]
           /\ \A k \in {request[r].key} :
                 /\ Stored(r)[k] # None
                 /\ Stored(r)[k].stamp = now
                 /\ Stored(r)[k].at = request[r].at
           /\ request[r].key \in Keys
           /\ request[r].at <= now
           /\ now <= request[r].at + Timeout
  <1>1. /\ request[r].key \in Keys
        /\ now <= request[r].since + Timeout
        /\ request[r].since <= request[r].at
        BY DEF InTime
  <1>2. /\ request[r] \in Request
        /\ now \in Nat
        /\ cache \in [Keys -> Entry \cup {None}]
        BY KlineAssumption DEF TypeOK
  <1>3. request[r].at \in 0 .. now /\ request[r].since \in 0 .. now
        BY <1>2 DEF Request
  <1>4. now \in 0 .. now
        BY <1>2
  <1>5. /\ [at |-> request[r].at, stamp |-> now] \in Entry
        /\ [at |-> request[r].at, stamp |-> now] # None
        BY <1>2, <1>3, <1>4, TypesOverTime DEF Entry
  <1>6. /\ now <= request[r].at + Timeout
        /\ request[r].at <= now
        BY <1>1, <1>2, <1>3, KlineAssumption
  <1>7. QED
        BY <1>1, <1>2, <1>5, <1>6 DEF Stored

-----------------------------------------------------------------------------
(* The inductive invariant *)

\* The first state: nothing is cached, saved or asked for.
LEMMA InitInv == Init => IInv
  <1> SUFFICES ASSUME Init PROVE IInv
      OBVIOUS
  <1>1. TypeOK
        BY KlineAssumption DEF Init, TypeOK, Entry, Request, NoRequest, Answers
  <1>2. QED
        BY <1>1, KlineAssumption
        DEF Init, IInv, Bounded, InTime, OnFile, FreshIsRecent, NothingForgotten, NoRequest

\* A request that ends or is cut leaves the others as they were.
LEMMA RequestEnds ==
    ASSUME TypeOK, InTime, NEW r \in Requests, Finish(r), now' = now
    PROVE  request' \in [Requests -> Request]' /\ InTime'
  <1>1. NoRequest \in Request
        BY KlineAssumption DEF TypeOK, Request, NoRequest
  <1>2. request' \in [Requests -> Request]'
        BY <1>1 DEF TypeOK, Finish, Request
  <1>3. \A q \in Requests : request'[q] = IF q = r THEN NoRequest ELSE request[q]
        BY DEF Finish, TypeOK
  <1>4. InTime'
        BY <1>3 DEF InTime, NoRequest
  <1>5. QED
        BY <1>2, <1>4

\* An answer from fresh candles: the stamp bounds their age.
LEMMA HitInv ==
    ASSUME IInv, NEW r \in Requests, NEW k \in Keys, Hit(r, k)
    PROVE  IInv'
  <1>1. cache[k] # None /\ now - cache[k].stamp <= StaleSeconds
        <2>1. ~IsStale(k)
              BY DEF Hit
        <2>2. cache[k] # None
              BY <2>1 DEF IsStale
        <2>3. cache[k] \in Entry /\ now \in Nat
              BY <2>2, KlineAssumption DEF IInv, TypeOK
        <2>4. ~(now - cache[k].stamp > StaleSeconds)
              BY <2>1, <2>2 DEF IsStale
        <2>5. QED
              BY <2>2, <2>3, <2>4, KlineAssumption DEF Entry
  <1>2. cache[k] \in Entry /\ now \in Nat
        BY <1>1, KlineAssumption DEF IInv, TypeOK
  <1>3. shown' = [how |-> "hit", age |-> now - cache[k].at]
        BY DEF Hit, Show
  <1>4. now - cache[k].at \in 0 .. now
        BY <1>2 DEF Entry
  <1>5. now - cache[k].at <= StaleSeconds + Timeout
        <2>1. cache[k].stamp <= cache[k].at + Timeout
              BY <1>1 DEF IInv, Bounded
        <2>2. QED
              BY <1>1, <1>2, <2>1, KlineAssumption DEF Entry
  <1>6. UNCHANGED <<now, cache, file, request, kept, restarts>>
        BY DEF Hit
  <1>7. TypeOK'
        BY <1>3, <1>4, <1>6 DEF IInv, TypeOK, Entry, Request, Answers
  <1>8. FreshIsRecent'
        BY <1>3, <1>5 DEF FreshIsRecent
  <1>9. QED
        BY <1>6, <1>7, <1>8 DEF IInv, Bounded, InTime, OnFile, NothingForgotten

\* A request asks the source.
LEMMA AskInv ==
    ASSUME IInv, NEW r \in Requests, NEW k \in Keys, NEW refresh \in BOOLEAN,
           Ask(r, k, refresh)
    PROVE  IInv'
  <1> DEFINE new == [state |-> "asking", key |-> k, since |-> now, at |-> 0]
  <1>1. request' = [request EXCEPT ![r] = new] /\ request \in [Requests -> Request]
        BY DEF Ask, IInv, TypeOK
  <1>2. now \in Nat /\ now' = now
        BY KlineAssumption DEF Ask, IInv, TypeOK
  <1>3. new \in Request
        BY <1>2 DEF Request
  <1>4. \A q \in Requests : request'[q] = IF q = r THEN new ELSE request[q]
        BY <1>1
  <1>5. TypeOK'
        <2>1. request' \in [Requests -> Request]
              BY <1>1, <1>3
        <2>2. QED
              BY <2>1, <1>2 DEF Ask, IInv, TypeOK, Entry, Request
  <1>6. InTime'
        BY <1>2, <1>4, KlineAssumption DEF IInv, InTime
  <1>7. QED
        BY <1>5, <1>6
        DEF Ask, IInv, Bounded, OnFile, FreshIsRecent, NothingForgotten

\* The source answers: the candles are as they are now.
LEMMA ProduceInv ==
    ASSUME IInv, NEW r \in Requests, Produce(r)
    PROVE  IInv'
  <1> DEFINE new == [state |-> "coming", key |-> request[r].key,
                     since |-> request[r].since, at |-> now]
  <1>1. request' = [request EXCEPT ![r] = new] /\ request \in [Requests -> Request]
        BY DEF Produce, IInv, TypeOK
  <1>2. now \in Nat /\ now' = now
        BY KlineAssumption DEF Produce, IInv, TypeOK
  <1>3. /\ new \in Request
        /\ new.key = request[r].key
        /\ new.since = request[r].since
        /\ new.since \in 0 .. now
        /\ new.at = now
        BY <1>1, <1>2 DEF Request
  <1>4. \A q \in Requests : request'[q] = IF q = r THEN new ELSE request[q]
        BY <1>1
  <1>5. TypeOK'
        <2>1. request' \in [Requests -> Request]
              BY <1>1, <1>3
        <2>2. QED
              BY <2>1, <1>2 DEF Produce, IInv, TypeOK, Entry, Request
  <1>6. InTime'
        <2> SUFFICES ASSUME NEW q \in Requests, request'[q].state # "idle"
                     PROVE  /\ request'[q].key \in Keys
                            /\ now' <= request'[q].since + Timeout
                            /\ request'[q].state = "coming"
                                  => request'[q].since <= request'[q].at
            BY DEF InTime
        <2>1. CASE q # r
              BY <2>1, <1>2, <1>4 DEF IInv, InTime
        <2>2. CASE q = r
              <3>1. request[r].state # "idle"
                    BY DEF Produce
              <3>2. QED
                    BY <2>2, <3>1, <1>2, <1>3, <1>4 DEF IInv, InTime
        <2>3. QED
              BY <2>1, <2>2
  <1>7. QED
        BY <1>5, <1>6
        DEF Produce, IInv, Bounded, OnFile, FreshIsRecent, NothingForgotten

\* The answer arrives: the cache gets it, and so does the file, unless the save fails.
LEMMA ArriveInv ==
    ASSUME IInv, NEW r \in Requests, NEW outcome \in Outcomes, Arrive(r, outcome)
    PROVE  IInv'
  <1> DEFINE rows == Stored(r)
  <1>1. /\ request[r].state = "coming"
        /\ TypeOK /\ InTime
        /\ cache' = rows
        /\ now' = now
        /\ restarts' = restarts
        /\ Finish(r)
        /\ file' = FileAfter(r, outcome, rows)
        /\ kept' = KeptAfter(outcome, rows)
        /\ shown' = [how |-> "fetched", age |-> now - request[r].at]
        BY DEF Arrive, Show, IInv
  <1>2. /\ rows \in [Keys -> Entry \cup {None}]
        /\ \A k \in Keys \ {request[r].key} : rows[k] = cache[k]
        /\ \A k \in {request[r].key} :
              rows[k] # None /\ rows[k].stamp = now /\ rows[k].at = request[r].at
        /\ request[r].key \in Keys
        /\ request[r].at <= now
        /\ now <= request[r].at + Timeout
        BY <1>1, StoredEntry
  <1>3. /\ now \in Nat
        /\ request[r].at \in Nat
        BY <1>1, KlineAssumption DEF TypeOK, Request
  <1>4. Bounded(rows)
        <2> SUFFICES ASSUME NEW k \in Keys, rows[k] # None
                     PROVE  rows[k].at <= rows[k].stamp /\ rows[k].stamp <= rows[k].at + Timeout
            BY DEF Bounded
        <2>1. CASE k = request[r].key
              BY <2>1, <1>2
        <2>2. CASE k # request[r].key
              BY <2>2, <1>2 DEF IInv, Bounded
        <2>3. QED
              BY <2>1, <2>2
  <1>5. \A k \in Keys : rows[k] # None => rows[k].stamp \in 0 .. now
        BY <1>2, KlineAssumption, TypesOverTime, <1>3 DEF Entry
  <1>6. \A k \in Keys : kept[k] # None => rows[k] # None /\ rows[k].stamp >= kept[k]
        <2> SUFFICES ASSUME NEW k \in Keys, kept[k] # None
                     PROVE  rows[k] # None /\ rows[k].stamp >= kept[k]
            OBVIOUS
        <2>1. CASE k = request[r].key
              <3>1. kept[k] \in 0 .. now
                    BY <1>1 DEF TypeOK
              <3>2. QED
                    BY <3>1, <2>1, <1>2, <1>3
        <2>2. CASE k # request[r].key
              BY <2>2, <1>2 DEF IInv, NothingForgotten
        <2>3. QED
              BY <2>1, <2>2
  <1>7. /\ file' \in [Keys -> Entry \cup {None}]
        /\ kept' \in [Keys -> (0 .. now) \cup {None}]
        /\ Bounded(file')
        /\ OnFile'
        /\ \A k \in Keys : kept'[k] # None => rows[k] # None /\ rows[k].stamp >= kept'[k]
        <2>1. CASE outcome = "written"
              <3>1. file' = rows
                    BY <1>1, <2>1 DEF FileAfter
              <3>2. kept' = [k \in Keys |-> IF rows[k] = None THEN None ELSE rows[k].stamp]
                    BY <1>1, <2>1 DEF KeptAfter
              <3>3. kept' \in [Keys -> (0 .. now) \cup {None}]
                    BY <3>2, <1>5
              <3>4. \A k \in Keys : kept'[k] # None =>
                        rows[k] # None /\ rows[k].stamp >= kept'[k]
                    <4> SUFFICES ASSUME NEW k \in Keys, kept'[k] # None
                                 PROVE  rows[k] # None /\ rows[k].stamp >= kept'[k]
                        OBVIOUS
                    <4>1. rows[k] # None /\ kept'[k] = rows[k].stamp
                          BY <3>2
                    <4>2. rows[k].stamp \in Nat
                          BY <4>1, <1>5
                    <4>3. QED
                          BY <4>1, <4>2
              <3>5. QED
                    BY <3>1, <3>3, <3>4, <1>2, <1>4 DEF OnFile
        <2>2. CASE outcome = "skipped"
              <3>1. file' = file
                    BY <1>1, <2>2 DEF FileAfter
              <3>2. kept' = kept
                    BY <1>1, <2>2 DEF KeptAfter
              <3>3. QED
                    BY <3>1, <3>2, <1>1, <1>6 DEF IInv, OnFile, TypeOK
        <2>3. CASE outcome = "cut"
              <3>1. file' = [k \in Keys |-> None]
                    BY <1>1, <2>3 DEF FileAfter
              <3>2. kept' = [k \in Keys |-> None]
                    BY <1>1, <2>3 DEF KeptAfter
              <3>3. QED
                    BY <3>1, <3>2 DEF OnFile, Bounded
        <2>4. QED
              BY <2>1, <2>2, <2>3 DEF Outcomes
  <1>8. request' \in [Requests -> Request]' /\ InTime'
        BY <1>1, RequestEnds
  <1>9. shown' \in [how : Answers, age : 0 .. now]
        BY <1>1, <1>2, <1>3 DEF Answers
  <1>10. TypeOK'
        BY <1>1, <1>2, <1>7, <1>8, <1>9 DEF TypeOK, Entry
  <1>11. FreshIsRecent'
        BY <1>1, <1>2, <1>3, KlineAssumption DEF FreshIsRecent
  <1>12. QED
        BY <1>1, <1>4, <1>7, <1>8, <1>10, <1>11 DEF IInv, NothingForgotten

\* The request ends without candles of its own; old ones are shown, or an error.
LEMMA NoAnswerInv ==
    ASSUME IInv, NEW r \in Requests, FallBack(r) \/ Fail(r)
    PROVE  IInv'
  <1>1. /\ TypeOK /\ InTime
        /\ Finish(r)
        /\ UNCHANGED <<now, cache, file, kept, restarts>>
        /\ now \in Nat
        BY KlineAssumption DEF FallBack, Fail, IInv, TypeOK
  <1>2. request' \in [Requests -> Request]' /\ InTime'
        BY <1>1, RequestEnds
  <1>3. request[r].state # "idle" /\ request[r].key \in Keys
        BY DEF FallBack, Fail, IInv, InTime
  <1>4. \E how \in {"fallback", "error"}, age \in 0 .. now :
            shown' = [how |-> how, age |-> age]
        <2>1. CASE FallBack(r)
              <3>1. cache[request[r].key] # None
                    BY <2>1 DEF FallBack
              <3>2. cache[request[r].key] \in Entry
                    BY <3>1, <1>1, <1>3 DEF TypeOK
              <3>3. now - cache[request[r].key].at \in 0 .. now
                    BY <3>2, <1>1 DEF Entry
              <3>4. QED
                    BY <2>1, <3>3 DEF FallBack, Show
        <2>2. CASE Fail(r)
              <3>1. now - now \in 0 .. now
                    BY <1>1
              <3>2. QED
                    BY <2>2, <3>1 DEF Fail, Show
        <2>3. QED
              BY <2>1, <2>2
  <1>5. shown' \in [how : Answers, age : 0 .. now] /\ FreshIsRecent'
        BY <1>4 DEF Answers, FreshIsRecent
  <1>6. TypeOK'
        BY <1>1, <1>2, <1>5 DEF TypeOK, Entry
  <1>7. QED
        BY <1>1, <1>2, <1>5, <1>6 DEF IInv, Bounded, OnFile, NothingForgotten

\* The clock goes on as long as no request to the source is over its time.
LEMMA TickInv == IInv /\ Tick => IInv'
  <1> SUFFICES ASSUME IInv, Tick PROVE IInv'
      OBVIOUS
  <1>1. /\ now \in Nat
        /\ now' = now + 1
        /\ now' <= MaxTime
        /\ UNCHANGED <<cache, file, request, shown, kept, restarts>>
        /\ \A r \in Requests : request[r].state # "idle" => now < request[r].since + Timeout
        BY KlineAssumption DEF Tick, IInv, TypeOK
  <1>2. /\ 0 .. now \subseteq 0 .. now'
        /\ Entry \subseteq Entry'
        BY <1>1, TypesOverTime DEF Entry
  <1>3. Request \subseteq Request'
        BY <1>1, <1>2 DEF Request
  <1>4. TypeOK'
        <2>1. now' \in 0 .. MaxTime
              BY <1>1, KlineAssumption
        <2>2. /\ cache' \in [Keys -> Entry' \cup {None}]
              /\ file' \in [Keys -> Entry' \cup {None}]
              BY <1>1, <1>2 DEF IInv, TypeOK
        <2>3. request' \in [Requests -> Request']
              BY <1>1, <1>3 DEF IInv, TypeOK
        <2>4. shown' \in [how : Answers, age : 0 .. now']
              BY <1>1, <1>2 DEF IInv, TypeOK
        <2>5. kept' \in [Keys -> (0 .. now') \cup {None}]
              BY <1>1, <1>2 DEF IInv, TypeOK
        <2>6. QED
              BY <1>1, <2>1, <2>2, <2>3, <2>4, <2>5 DEF IInv, TypeOK, Entry, Request
  <1>5. InTime'
        <2> SUFFICES ASSUME NEW r \in Requests, request[r].state # "idle"
                     PROVE  /\ request[r].key \in Keys
                            /\ now' <= request[r].since + Timeout
                            /\ request[r].state = "coming"
                                  => request[r].since <= request[r].at
            BY <1>1 DEF InTime
        <2>1. request[r].since \in Nat
              BY <1>1 DEF IInv, TypeOK, Request
        <2>2. QED
              BY <1>1, <2>1, KlineAssumption DEF IInv, InTime
  <1>6. QED
        BY <1>1, <1>4, <1>5
        DEF IInv, Bounded, OnFile, FreshIsRecent, NothingForgotten

\* A new life begins with what the file has.
LEMMA RestartInv == IInv /\ Restart => IInv'
  <1> SUFFICES ASSUME IInv, Restart PROVE IInv'
      OBVIOUS
  <1>1. /\ now \in Nat
        /\ restarts < MaxRestarts
        /\ restarts' = restarts + 1
        /\ cache' = file
        /\ request' = [r \in Requests |-> NoRequest]
        /\ UNCHANGED <<now, file, shown, kept>>
        BY KlineAssumption DEF Restart, IInv, TypeOK
  <1>2. NoRequest \in Request
        BY <1>1 DEF Request, NoRequest
  <1>3. TypeOK'
        BY <1>1, <1>2, KlineAssumption DEF IInv, TypeOK, Entry, Request
  <1>4. InTime'
        BY <1>1 DEF InTime, NoRequest
  <1>5. QED
        BY <1>1, <1>3, <1>4
        DEF IInv, Bounded, OnFile, FreshIsRecent, NothingForgotten

\* A new life after a save that was cut begins with nothing.
LEMMA RestartWhileSavingInv ==
    ASSUME IInv, NEW r \in Requests, RestartWhileSaving(r)
    PROVE  IInv'
  <1> DEFINE nothing == [k \in Keys |-> None]
  <1>1. /\ now \in Nat
        /\ restarts < MaxRestarts
        /\ restarts' = restarts + 1
        /\ file' = nothing
        /\ kept' = nothing
        /\ cache' = nothing
        /\ request' = [q \in Requests |-> NoRequest]
        /\ UNCHANGED <<now, shown>>
        BY KlineAssumption DEF RestartWhileSaving, FileAfter, KeptAfter, IInv, TypeOK
  <1>2. NoRequest \in Request
        BY <1>1 DEF Request, NoRequest
  <1>3. TypeOK'
        BY <1>1, <1>2, KlineAssumption DEF IInv, TypeOK, Entry, Request
  <1>4. InTime'
        BY <1>1 DEF InTime, NoRequest
  <1>5. Bounded(nothing) /\ OnFile' /\ NothingForgotten'
        BY <1>1 DEF Bounded, OnFile, NothingForgotten
  <1>6. QED
        BY <1>1, <1>3, <1>4, <1>5 DEF IInv, FreshIsRecent

\* Every step keeps the inductive invariant.
LEMMA NextInv == IInv /\ [Next]_vars => IInv'
  <1> SUFFICES ASSUME IInv, [Next]_vars PROVE IInv'
      OBVIOUS
  <1>1. ASSUME NEW r \in Requests, Handle(r)
        PROVE  IInv'
        BY <1>1, HitInv, AskInv, ProduceInv, ArriveInv, NoAnswerInv, RestartWhileSavingInv
        DEF Handle
  <1>2. CASE Tick
        BY <1>2, TickInv
  <1>3. CASE Restart
        BY <1>3, RestartInv
  <1>4. CASE UNCHANGED vars
        BY <1>4 DEF vars, IInv, TypeOK, Entry, Request, Bounded, InTime, OnFile,
                    FreshIsRecent, NothingForgotten
  <1>5. QED
        BY <1>1, <1>2, <1>3, <1>4 DEF Next

\* So it holds in every state.
LEMMA InvAlways == Spec => []IInv
  <1>1. QED
        BY InitInv, NextInv, PTL DEF Spec

-----------------------------------------------------------------------------
(* Theorems *)

\* Type correctness of the candle cache: no stamp is ever ahead of the clock.
THEOREM TypeCorrect == Spec => []TypeOK
  <1>1. IInv => TypeOK
        BY DEF IInv
  <1>2. QED
        BY <1>1, InvAlways, PTL

\* What get_klines answers as fresh is at most cache_stale_seconds plus one timeout of the
\* source old, however requests overlap, fail and outlive restarts.
THEOREM AnswersRecent == Spec => []FreshIsRecent
  <1>1. IInv => FreshIsRecent
        BY DEF IInv
  <1>2. QED
        BY <1>1, InvAlways, PTL

\* Candles that save has written are in the cache from then on, those or later ones, unless
\* a save was cut.
THEOREM CandlesKept == Spec => []NothingForgotten
  <1>1. IInv => NothingForgotten
        BY DEF IInv
  <1>2. QED
        BY <1>1, InvAlways, PTL
=============================================================================
