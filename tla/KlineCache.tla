------------------------------ MODULE KlineCache ------------------------------
(***************************************************************************)
(* Candles for the chart: GET /api/kline asks the registry                 *)
(* (datasource/registry.py), which answers from the cache                  *)
(* (datasource/cache.py) while that is fresh, asks CryptoCompare           *)
(* (datasource/cryptocompare.py) when it is not, and falls back to what    *)
(* the cache has when the source fails.  The cache is one pickle file,     *)
(* written whole on every update, in place, and read at startup.           *)
(*                                                                         *)
(* Requests overlap at the await of the source; nothing keeps two from     *)
(* asking for the same candles, or the older answer from arriving last.    *)
(* Of a list of candles only the time at which the source produced it is   *)
(* kept; its length, which the limit of a request cuts, is left out.       *)
(***************************************************************************)
EXTENDS Naturals

CONSTANTS
    Requests,     \* requests handled at the same time
    Keys,         \* pairs of symbol and timeframe
    StaleSeconds, \* cache_stale_seconds, in ticks
    Timeout,      \* TIMEOUT_SECONDS of a request to the source, in ticks
    None,         \* no key, nothing cached
    MaxTime,      \* bound: the clock
    MaxRestarts   \* bound: restarts of the process

ASSUME KlineAssumption ==
    /\ StaleSeconds \in Nat
    /\ Timeout \in Nat
    /\ None \notin Keys \cup Nat
    /\ None \notin [at : Nat, stamp : Nat]
    /\ MaxTime \in Nat
    /\ MaxRestarts \in Nat

VARIABLES
    now,       \* time.time()
    cache,     \* cache[k]: the candles of _cache and their entry in _timestamps, or None
    file,      \* what load would make of the file, if it ran now
    request,   \* request[r]: the fetch request r waits for
    shown,     \* the last answer to a client: how it came about, and its age
    kept,      \* history: kept[k]: the stamp of the candles last saved, None if a save was cut
    restarts   \* restarts so far

vars == <<now, cache, file, request, shown, kept, restarts>>

-----------------------------------------------------------------------------
(* Types and helpers *)

\* at: when the source produced the candles; stamp: when they were put in the cache.
Entry == [at : 0 .. now, stamp : 0 .. now]

\* "asking": the source has not answered; "coming": it has, at the time at.
Request == [state : {"idle", "asking", "coming"}, key : Keys \cup {None},
            since : 0 .. now, at : 0 .. now]
NoRequest == [state |-> "idle", key |-> None, since |-> 0, at |-> 0]

Answers == {"hit", "fetched", "fallback", "error"}

Init ==
    \* there is no file yet
    /\ now = 0
    /\ cache = [k \in Keys |-> None]
    /\ file = cache
    /\ request = [r \in Requests |-> NoRequest]
    /\ shown = [how |-> "error", age |-> 0]
    /\ kept = [k \in Keys |-> None]
    /\ restarts = 0

\* is_stale: measured from the stamp; what is not cached is stale.
IsStale(k) == IF cache[k] = None THEN TRUE ELSE now - cache[k].stamp > StaleSeconds

Show(how, at) == shown' = [how |-> how, age |-> now - at]

Finish(r) == request' = [request EXCEPT ![r] = NoRequest]

-----------------------------------------------------------------------------
(* DataSourceRegistry.get_klines *)

\* The cache has it, it is fresh, and refresh was not asked for.
Hit(r, k) ==
    /\ request[r].state = "idle"
    /\ ~IsStale(k)
    /\ Show("hit", cache[k].at)
    /\ UNCHANGED <<now, cache, file, request, kept, restarts>>

\* The source is asked, on a miss or because of refresh; another request may have asked.
Ask(r, k, refresh) ==
    /\ request[r].state = "idle"
    /\ refresh \/ IsStale(k)
    /\ request' = [request EXCEPT ![r] =
                     [state |-> "asking", key |-> k, since |-> now, at |-> 0]]
    /\ UNCHANGED <<now, cache, file, shown, kept, restarts>>

\* CryptoCompare produces the candles as they are now.
Produce(r) ==
    /\ request[r].state = "asking"
    /\ request' = [request EXCEPT ![r] =
                     [state |-> "coming", key |-> request[r].key,
                      since |-> request[r].since, at |-> now]]
    /\ UNCHANGED <<now, cache, file, shown, kept, restarts>>

\* Mutant of Stored: the stamp is the moment the candles get stale.
StoredUntil(r) ==
    [cache EXCEPT ![request[r].key] =
        [at |-> request[r].at, stamp |-> now + StaleSeconds]]

\* update_candles: the answer is stamped when it arrives, whenever it was produced, and
\* replaces what another request stored meanwhile.
Stored(r) ==
    [cache EXCEPT ![request[r].key] = [at |-> request[r].at, stamp |-> now]]

\* The outcomes of save, which logs its exceptions: the file is written, left alone
\* (the directory or the file cannot be opened), or truncated and not completed.
Outcomes == {"written", "skipped", "cut"}

\* Mutant of FileAfter: only the candles that are new are written.
FileAfterNew(r, outcome, rows) ==
    CASE outcome = "written" -> [[k \in Keys |-> None] EXCEPT ![request[r].key] =
                                    rows[request[r].key]]
      [] outcome = "skipped" -> file
      [] outcome = "cut"     -> [k \in Keys |-> None]

\* save dumps everything the cache has; a pickle that was cut cannot be loaded.
FileAfter(r, outcome, rows) ==
    CASE outcome = "written" -> rows
      [] outcome = "skipped" -> file
      [] outcome = "cut"     -> [k \in Keys |-> None]

KeptAfter(outcome, rows) ==
    CASE outcome = "written" -> [k \in Keys |-> IF rows[k] = None THEN None
                                                ELSE rows[k].stamp]
      [] outcome = "skipped" -> kept
      [] outcome = "cut"     -> [k \in Keys |-> None]

\* The candles arrive, are cached and saved, and go to the client; no await in between.
Arrive(r, outcome) ==
    /\ request[r].state = "coming"
    /\ cache' = Stored(r)
    /\ file' = FileAfter(r, outcome, Stored(r))
    /\ kept' = KeptAfter(outcome, Stored(r))
    /\ Show("fetched", request[r].at)
    /\ Finish(r)
    /\ UNCHANGED <<now, restarts>>

\* Mutant of FallBack: the stamp is renewed, to spare a source that fails.
FallBackRenewed(r) ==
    LET k == request[r].key
    IN /\ request[r].state # "idle"
       /\ cache[k] # None
       /\ Show("fallback", cache[k].at)
       /\ cache' = [cache EXCEPT ![k] = [at |-> cache[k].at, stamp |-> now]]
       /\ Finish(r)
       /\ UNCHANGED <<now, file, kept, restarts>>

\* The request timed out, failed or was refused, wherever it was: old candles will do.
FallBack(r) ==
    LET k == request[r].key
    IN /\ request[r].state # "idle"
       /\ cache[k] # None
       /\ Show("fallback", cache[k].at)
       /\ Finish(r)
       /\ UNCHANGED <<now, cache, file, kept, restarts>>

\* There are none: the endpoint answers 404.
Fail(r) ==
    /\ request[r].state # "idle"
    /\ cache[request[r].key] = None
    /\ Show("error", now)
    /\ Finish(r)
    /\ UNCHANGED <<now, cache, file, kept, restarts>>

-----------------------------------------------------------------------------
(* The environment *)

\* No request to the source outlives its timeout.
Tick ==
    /\ now < MaxTime
    /\ \A r \in Requests : request[r].state # "idle" => now < request[r].since + Timeout
    /\ now' = now + 1
    /\ UNCHANGED <<cache, file, request, shown, kept, restarts>>

\* The process ends and starts again: load replaces the cache.
Restart ==
    /\ restarts < MaxRestarts
    /\ restarts' = restarts + 1
    /\ cache' = file
    /\ request' = [r \in Requests |-> NoRequest]
    /\ UNCHANGED <<now, file, shown, kept>>

\* It dies while it writes the file of a request's candles: load finds half a pickle.
RestartWhileSaving(r) ==
    /\ restarts < MaxRestarts
    /\ request[r].state = "coming"
    /\ restarts' = restarts + 1
    /\ file' = FileAfter(r, "cut", Stored(r))
    /\ kept' = KeptAfter("cut", Stored(r))
    /\ cache' = file'
    /\ request' = [q \in Requests |-> NoRequest]
    /\ UNCHANGED <<now, shown>>

-----------------------------------------------------------------------------
(* Specification *)

Handle(r) ==
    \/ \E k \in Keys : Hit(r, k)
    \/ \E k \in Keys, refresh \in BOOLEAN : Ask(r, k, refresh)
    \/ Produce(r)
    \/ \E outcome \in Outcomes : Arrive(r, outcome)
    \/ FallBack(r)
    \/ Fail(r)
    \/ RestartWhileSaving(r)

Next == (\E r \in Requests : Handle(r)) \/ Tick \/ Restart

Spec == Init /\ [][Next]_vars

-----------------------------------------------------------------------------
(* Properties *)

\* Every variable has its type, and no stamp lies in the future, where it would keep
\* candles fresh for longer.
TypeOK ==
    /\ now \in 0 .. MaxTime
    /\ cache \in [Keys -> Entry \cup {None}]
    /\ file \in [Keys -> Entry \cup {None}]
    /\ request \in [Requests -> Request]
    /\ shown \in [how : Answers, age : 0 .. now]
    /\ kept \in [Keys -> (0 .. now) \cup {None}]
    /\ restarts \in 0 .. MaxRestarts

\* What a client gets as fresh is: candles were produced at most the staleness bound plus
\* one timeout ago.  Also when overlapping answers arrive in the wrong order and the older
\* stays in the cache, when the source failed in between, and with the stamps that a file
\* brings into the next life of the process.
FreshIsRecent ==
    shown.how \in {"hit", "fetched"} => shown.age <= StaleSeconds + Timeout

\* Candles that a save has written are there from then on, those or newer, for a later
\* request to fall back on: restarts and the saves of other symbols do not take them away.
\* Only a save that is cut does, at the next start: it destroys the file it replaces.
NothingForgotten ==
    \A k \in Keys : kept[k] # None => cache[k] # None /\ cache[k].stamp >= kept[k]
=============================================================================
