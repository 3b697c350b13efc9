------------------------------ MODULE Guardrails ------------------------------
(***************************************************************************)
(* The guardrails in front of the wired order manager:                     *)
(* horizon/internal/guardrails (evaluator, rules, cooldown_tracker) as     *)
(* submit_order calls them, under the manager's lock, next to the          *)
(* five-minute cleanup of cooldown_tracking, which takes no lock, and the  *)
(* strategy configuration, which an endpoint changes in the database and   *)
(* a start of the process loads.                                           *)
(*                                                                         *)
(* Time is counted in ticks.  One action is what happens between two       *)
(* awaits; what submit_order writes elsewhere is OrderManager's.           *)
(***************************************************************************)
EXTENDS Naturals

CONSTANTS
    Clients,       \* coroutines inside submit_order
    Pairs,         \* (exchange, symbol) pairs
    Notionals,     \* price * volume of requests; 0 is a market order, which has no price
    Configs,       \* strategy_configs rows, as far as the rules read them
    DefaultMin,    \* what _load_strategy_config puts for a column that is 0
    DefaultMax,
    DefaultSecs,
    None,          \* no client
    MaxTime,       \* bound: the clock stops here
    MaxCrashes     \* bound: how often the process dies and restarts

ASSUME GuardrailAssumption ==
    /\ Notionals \subseteq Nat
    /\ Configs \subseteq [listed : SUBSET Pairs, min : Nat, max : Nat, secs : Nat]
    /\ DefaultMin \in Nat \ {0}
    /\ DefaultMax \in Nat \ {0}
    /\ DefaultSecs \in Nat \ {0}
    /\ None \notin Clients
    /\ MaxTime \in Nat
    /\ MaxCrashes \in Nat

VARIABLES
    now,       \* the clock
    cool,      \* cool[x]: the cooldown_tracking row of x as the connection sees it
    coolDisk,  \* the same as last committed
    stored,    \* the enabled strategy_configs row
    config,    \* the evaluator's strategy_config, loaded when the process started
    holder,    \* the client inside the manager's lock
    pc,        \* pc[c]: the await at which client c is suspended
    req,       \* req[c]: the request c submits
    sweep,     \* the cleanup: "idle", or "delete" within its loop
    doomed,    \* rows the running cleanup has still to delete
    seen,      \* history: the rows as that cleanup read them
    promised,  \* history: when the cooldown of the last acknowledged order on x ends
    lapsed,    \* history: a crash or a cleanup took that cooldown away
    crashes    \* restarts so far

cooldowns == <<cool, coolDisk>>
clients == <<holder, pc, req>>
cleanup == <<sweep, doomed, seen>>
history == <<promised, lapsed>>
vars == <<now, cool, coolDisk, stored, config, holder, pc, req, sweep, doomed, seen,
          promised, lapsed, crashes>>

-----------------------------------------------------------------------------
(* Types and helpers *)

Request == [pair : Pairs, notional : Nat]
NoRequest == [pair |-> None, notional |-> 0]

\* A row of cooldown_tracking; a config that was loaded has no cooldown of 0.
Row == [last : Nat, secs : Nat]
NoRow == [last |-> 0, secs |-> 0]

Points == {"idle", "evaluate", "place", "reject", "record", "upsert", "commit"}

\* The order is at the exchange and the client knows, but the cooldown is not durable.
Owing == {"record", "upsert", "commit"}

\* _load_strategy_config: a 0 in the table counts as missing.
OrDefault(value, default) == IF value = 0 THEN default ELSE value

Load(c) == [c EXCEPT !.min = OrDefault(@, DefaultMin),
                     !.max = OrDefault(@, DefaultMax),
                     !.secs = OrDefault(@, DefaultSecs)]

Init ==
    /\ now = 0
    /\ cool = [x \in Pairs |-> NoRow]
    /\ coolDisk = cool
    /\ stored \in Configs
    /\ config = Load(stored)
    /\ holder = None
    /\ pc = [c \in Clients |-> "idle"]
    /\ req = [c \in Clients |-> NoRequest]
    /\ sweep = "idle"
    /\ doomed = {}
    /\ seen = cool
    /\ promised = [x \in Pairs |-> 0]
    /\ lapsed = [x \in Pairs |-> FALSE]
    /\ crashes = 0

Goto(c, from, to) == /\ pc[c] = from
                     /\ pc' = [pc EXCEPT ![c] = to]
                     /\ UNCHANGED <<holder, req>>

\* submit_order returns or raises: the `async with self._lock` ends.
Leave(c, from) == /\ pc[c] = from
                  /\ pc' = [pc EXCEPT ![c] = "idle"]
                  /\ holder' = None
                  /\ req' = [req EXCEPT ![c] = NoRequest]

-----------------------------------------------------------------------------
(* The rules *)

\* Mutant of InCooldown: the length is the current configuration's, not the row's.
InCooldownLoaded(x) == cool[x] # NoRow /\ cool[x].last + config.secs > now

\* is_in_cooldown: remaining = cooldown_seconds - elapsed > 0.
InCooldown(x) == cool[x] # NoRow /\ cool[x].last + cool[x].secs > now

AssetWhitelistRule(r) == r.pair \in config.listed
CooldownRule(r) == ~InCooldown(r.pair)
OrderNotionalRule(r) == config.min <= r.notional /\ r.notional <= config.max

\* _get_portfolio_snapshot has nothing to offer, and without a snapshot the exposure,
\* position and daily-loss rules pass.
Snapshot == None
PortfolioRules(r) == Snapshot = None

Passes(r) == AssetWhitelistRule(r) /\ CooldownRule(r) /\ OrderNotionalRule(r)
             /\ PortfolioRules(r)

-----------------------------------------------------------------------------
(* submit_order, as far as the guardrails are concerned *)

\* Mutant of Submit: no lock.
SubmitAnyway(c, r) ==
    /\ holder' = c
    /\ pc[c] = "idle"
    /\ pc' = [pc EXCEPT ![c] = "evaluate"]
    /\ req' = [req EXCEPT ![c] = r]
    /\ UNCHANGED <<now, cooldowns, stored, config, cleanup, history, crashes>>

Submit(c, r) ==
    /\ holder = None
    /\ holder' = c
    /\ pc[c] = "idle"
    /\ pc' = [pc EXCEPT ![c] = "evaluate"]
    /\ req' = [req EXCEPT ![c] = r]
    /\ UNCHANGED <<now, cooldowns, stored, config, cleanup, history, crashes>>

\* Every rule passes; the orders row and its created event are committed.
EvaluatePass(c) ==
    /\ Goto(c, "evaluate", "place")
    /\ Passes(req[c])
    /\ coolDisk' = cool
    /\ UNCHANGED <<now, cool, stored, config, cleanup, history, crashes>>

\* Mutant of EvaluateBreach: the exception leaves the lock held.
EvaluateBreachLocked(c) ==
    /\ pc[c] = "evaluate"
    /\ pc' = [pc EXCEPT ![c] = "idle"]
    /\ ~Passes(req[c])
    /\ UNCHANGED <<now, cooldowns, stored, config, holder, req, cleanup, history, crashes>>

\* _persist_guardrail_event inserts an action_taken that migration 003 does not allow:
\* every breach ends in an IntegrityError instead of a result that did not pass.
EvaluateBreach(c) ==
    /\ Leave(c, "evaluate")
    /\ ~Passes(req[c])
    /\ UNCHANGED <<now, cooldowns, stored, config, cleanup, history, crashes>>

\* The exchange takes the order and its answer arrives.
Place(c) ==
    /\ Goto(c, "place", "record")
    /\ promised' = [promised EXCEPT ![req[c].pair] = now + config.secs]
    /\ lapsed' = [lapsed EXCEPT ![req[c].pair] = FALSE]
    /\ UNCHANGED <<now, cooldowns, stored, config, cleanup, crashes>>

\* The adapter raises, whatever the exchange did: no cooldown is recorded.
PlaceFails(c) ==
    /\ Goto(c, "place", "reject")
    /\ UNCHANGED <<now, cooldowns, stored, config, cleanup, history, crashes>>

\* The rejection is stored and committed, as is, below, the submission.
Reject(c) ==
    /\ Leave(c, "reject")
    /\ coolDisk' = cool
    /\ UNCHANGED <<now, cool, stored, config, cleanup, history, crashes>>

RecordOrder(c) ==
    /\ Goto(c, "record", "upsert")
    /\ coolDisk' = cool
    /\ UNCHANGED <<now, cool, stored, config, cleanup, history, crashes>>

\* Mutant of RecordTrade: a row that exists is kept.
RecordTradeOnce(c) ==
    /\ Goto(c, "upsert", "commit")
    /\ cool' = IF cool[req[c].pair] # NoRow THEN cool
               ELSE [cool EXCEPT ![req[c].pair] = [last |-> now, secs |-> config.secs]]
    /\ UNCHANGED <<now, coolDisk, stored, config, cleanup, history, crashes>>

\* record_trade: INSERT ... ON CONFLICT DO UPDATE, with the loaded cooldown_seconds.
RecordTrade(c) ==
    /\ Goto(c, "upsert", "commit")
    /\ cool' = [cool EXCEPT ![req[c].pair] = [last |-> now, secs |-> config.secs]]
    /\ UNCHANGED <<now, coolDisk, stored, config, cleanup, history, crashes>>

RecordCommit(c) ==
    /\ Leave(c, "commit")
    /\ coolDisk' = cool
    /\ UNCHANGED <<now, cool, stored, config, cleanup, history, crashes>>

-----------------------------------------------------------------------------
(* cleanup_expired *)

\* All rows are read and judged at once; elapsed >= cooldown_seconds is over.
CleanupSelect ==
    /\ sweep = "idle"
    /\ sweep' = "delete"
    /\ doomed' = {x \in Pairs : cool[x] # NoRow /\ cool[x].last + cool[x].secs <= now}
    /\ seen' = cool
    /\ UNCHANGED <<now, cooldowns, stored, config, clients, history, crashes>>

\* DELETE ... WHERE exchange = ? AND symbol = ?: whatever the row holds by now.
CleanupDelete(x) ==
    /\ x \in doomed
    /\ doomed' = doomed \ {x}
    /\ cool' = [cool EXCEPT ![x] = NoRow]
    /\ lapsed' = [lapsed EXCEPT ![x] = @ \/ cool[x] # seen[x]]
    /\ UNCHANGED <<now, coolDisk, stored, config, clients, sweep, seen, promised, crashes>>

\* Mutant of CleanupCommit: the task ends after one round.
CleanupCommitOnce ==
    /\ sweep = "delete"
    /\ doomed = {}
    /\ sweep' = "done"
    /\ coolDisk' = cool
    /\ UNCHANGED <<now, cool, stored, config, clients, doomed, seen, history, crashes>>

CleanupCommit ==
    /\ sweep = "delete"
    /\ doomed = {}
    /\ sweep' = "idle"
    /\ seen' = [x \in Pairs |-> NoRow]
    /\ coolDisk' = cool
    /\ UNCHANGED <<now, cool, stored, config, clients, doomed, history, crashes>>

-----------------------------------------------------------------------------
(* The environment *)

Tick ==
    /\ now < MaxTime
    /\ now' = now + 1
    /\ UNCHANGED <<cooldowns, stored, config, clients, cleanup, history, crashes>>

\* PUT /api/strategy/config changes and commits the row, not what the evaluator holds.
SetConfig(c) ==
    /\ stored # c
    /\ stored' = c
    /\ coolDisk' = cool
    /\ UNCHANGED <<now, cool, config, clients, cleanup, history, crashes>>

\* Any other component commits the shared connection; evaluate_proposal does when it
\* has stored its verdict in the proposal.
SomeoneCommits ==
    /\ coolDisk # cool
    /\ coolDisk' = cool
    /\ UNCHANGED <<now, cool, stored, config, clients, cleanup, history, crashes>>

\* The process dies and starts again with what was committed.
Restart ==
    /\ crashes < MaxCrashes
    /\ crashes' = crashes + 1
    /\ cool' = coolDisk
    /\ config' = Load(stored)
    /\ holder' = None
    /\ pc' = [c \in Clients |-> "idle"]
    /\ req' = [c \in Clients |-> NoRequest]
    /\ sweep' = "idle"
    /\ doomed' = {}
    /\ seen' = [x \in Pairs |-> NoRow]
    /\ lapsed' = [x \in Pairs |->
                    lapsed[x] \/ \E c \in Clients : pc[c] \in Owing /\ req[c].pair = x]
    /\ UNCHANGED <<now, coolDisk, stored, promised>>

-----------------------------------------------------------------------------
(* Specification *)

ClientStep(c) ==
    \/ \E x \in Pairs, n \in Notionals : Submit(c, [pair |-> x, notional |-> n])
    \/ EvaluatePass(c) \/ EvaluateBreach(c)
    \/ Place(c) \/ PlaceFails(c) \/ Reject(c)
    \/ RecordOrder(c) \/ RecordTrade(c) \/ RecordCommit(c)

CleanupStep == \/ CleanupSelect \/ CleanupCommit
               \/ \E x \in Pairs : CleanupDelete(x)

Next == \/ \E c \in Clients : ClientStep(c)
        \/ CleanupStep
        \/ Tick \/ SomeoneCommits \/ Restart
        \/ \E c \in Configs : SetConfig(c)

Spec == Init /\ [][Next]_vars

\* The cleanup loop never ends: it sleeps, runs and catches every exception.
FairSpec == Spec /\ WF_vars(CleanupStep)

-----------------------------------------------------------------------------
(* Properties *)

\* Every variable has its type, and the lock is held exactly by the client inside.
TypeOK ==
    /\ now \in 0 .. MaxTime
    /\ cool \in [Pairs -> Row]
    /\ coolDisk \in [Pairs -> Row]
    /\ stored \in Configs
    /\ config \in {Load(c) : c \in Configs}
    /\ holder \in Clients \cup {None}
    /\ pc \in [Clients -> Points]
    /\ req \in [Clients -> Request \cup {NoRequest}]
    /\ sweep \in {"idle", "delete"}
    /\ doomed \subseteq Pairs
    /\ seen \in [Pairs -> Row]
    /\ promised \in [Pairs -> Nat]
    /\ lapsed \in [Pairs -> BOOLEAN]
    /\ crashes \in 0 .. MaxCrashes
    /\ \A c \in Clients : holder = c <=> pc[c] # "idle"

\* What goes out still passes every rule at that moment: neither the clock, another
\* client, a new configuration nor a restart makes the verdict stale while it is awaited.
VerdictHolds ==
    [][\A c \in Clients : Place(c) \/ PlaceFails(c) => Passes(req[c])]_vars

\* Once an order on x was acknowledged, the next one on x goes out no earlier than its
\* cooldown is over, across restarts and changes of the configuration, unless a crash came
\* before the cooldown was committed or a cleanup deleted a row newer than the one it read.
PlacedApart ==
    [][\A c \in Clients : Place(c) \/ PlaceFails(c) =>
          promised[req[c].pair] <= now \/ lapsed[req[c].pair]]_vars

\* The cooldown of an acknowledged order is on disk, for the whole of its time, as soon as
\* the client that placed the order is out of the lock (with the same two exceptions).
PromiseDurable ==
    \A x \in Pairs :
        promised[x] > now /\ ~lapsed[x]
            => \/ \E c \in Clients : pc[c] \in Owing /\ req[c].pair = x
               \/ coolDisk[x].last + coolDisk[x].secs >= promised[x]

\* A row whose time is over does not stay: the cleanup deletes it, or a new order renews it.
ExpiredRowsGo ==
    \A x \in Pairs :
        cool[x] # NoRow /\ ~InCooldown(x) ~> cool[x] = NoRow \/ InCooldown(x)
=============================================================================
