---------------------------- MODULE AnalysisEngine ----------------------------
(***************************************************************************)
(* One LLM analysis after the other: horizon/internal/llm/scheduler.py     *)
(* serialises the callers of trigger_now, engine.py gathers data, asks the *)
(* model, has parser.py make proposals of the answer, records the run in   *)
(* llm_analysis_history and puts the proposals into the queue.             *)
(*                                                                         *)
(* The periodic loop of the scheduler is never started by main.py; it      *)
(* would be one more caller.  An action is what happens between two awaits *)
(* whose order matters; commits are those of the shared connection.        *)
(***************************************************************************)
EXTENDS Integers, FiniteSets

CONSTANTS
    Callers,     \* POST /api/llm/trigger requests in flight
    Symbols,     \* trading pairs
    Whitelists,  \* values asset_whitelist can take
    Items,       \* what the "proposals" list of an answer can hold
    None,        \* nobody
    MaxRuns,     \* bound: analyses started
    MaxCrashes   \* bound: how often the process dies and restarts

\* An item as the model wrote it.  sound: it has all fields, and exchange, side and
\* order_type are known; storable: what the table demands beyond that (a rationale, a
\* volume that is a number).
Item == [symbol : Symbols, sound : BOOLEAN, limit : BOOLEAN, priced : BOOLEAN,
         confidence : Int, tier : {"low", "medium", "high", "other"}, storable : BOOLEAN]

ASSUME EngineAssumption ==
    /\ Whitelists \subseteq SUBSET Symbols
    /\ Items \subseteq Item
    /\ IsFiniteSet(Items)
    /\ None \notin Callers
    /\ MaxRuns \in Nat
    /\ MaxCrashes \in Nat

VARIABLES
    whitelist,  \* asset_whitelist of the enabled strategy_configs row
    allowed,    \* the parser's whitelist, taken from that row when the process started
    holder,     \* the caller inside the scheduler's lock
    pc,         \* pc[c]: the await at which caller c is suspended
    job,        \* job[c]: what c's analysis has gathered so far
    tables,     \* llm_analysis_history and the proposals, as the connection sees them
    disk,       \* the same as last committed
    runs,       \* analyses started
    lost,       \* history: runs cut by a crash, or with a row that could not be stored
    skipped,    \* history: runs that ended before there was a configuration to run with
    crashes     \* restarts so far

vars == <<whitelist, allowed, holder, pc, job, tables, disk, runs, lost, skipped, crashes>>

-----------------------------------------------------------------------------
(* Types and helpers *)

\* symbols: the whitelist the run loaded; tickers: those of them with a price; todo: the
\* proposals still to enqueue; count: how many there were; verdict: the row to store.
Job == [run : Nat, symbols : SUBSET Symbols, tickers : SUBSET Symbols,
        todo : SUBSET Items, count : Nat, verdict : {"none", "success", "error", "timeout"}]
NoJob == [run |-> 0, symbols |-> {}, tickers |-> {}, todo |-> {}, count |-> 0,
          verdict |-> "none"]

\* The tables: rows of history by run, status and parsed_proposals_count; proposals by
\* the run and the item they came from, with the fields the parser may have changed.
Tables == [history : SUBSET (Nat \X {"success", "error", "timeout"} \X Nat),
           queue : SUBSET (Nat \X Items \X (0 .. 100) \X {"low", "medium", "high"})]

Points == {"idle", "wait", "load", "gather", "portfolio", "ask", "parse", "record",
           "recordCommit", "enqueue", "enqueueCommit"}

Init ==
    /\ whitelist \in Whitelists
    /\ allowed = whitelist
    /\ holder = None
    /\ pc = [c \in Callers |-> "idle"]
    /\ job = [c \in Callers |-> NoJob]
    /\ tables = [history |-> {}, queue |-> {}]
    /\ disk = tables
    /\ runs = 0
    /\ lost = {}
    /\ skipped = {}
    /\ crashes = 0

Goto(c, from, to) == /\ pc[c] = from
                     /\ pc' = [pc EXCEPT ![c] = to]
                     /\ UNCHANGED holder

\* c's analysis goes on from one await to the next knowing j.
Step(c, from, to, j) == /\ Goto(c, from, to)
                        /\ job' = [job EXCEPT ![c] = j]
                        /\ UNCHANGED <<whitelist, allowed, runs, crashes>>

\* The `async with self._lock` ends.
Leave(c, from) == /\ pc[c] = from
                  /\ pc' = [pc EXCEPT ![c] = "idle"]
                  /\ job' = [job EXCEPT ![c] = NoJob]
                  /\ holder' = None
                  /\ UNCHANGED <<whitelist, allowed, runs, crashes>>

Silent == UNCHANGED <<tables, disk, lost, skipped>>
World == <<whitelist, allowed, crashes>>

-----------------------------------------------------------------------------
(* The scheduler's lock *)

Trigger(c) ==
    /\ runs < MaxRuns
    /\ Goto(c, "idle", "wait")
    /\ runs' = runs + 1
    /\ job' = [job EXCEPT ![c] = [NoJob EXCEPT !.run = runs + 1]]
    /\ Silent
    /\ UNCHANGED World

\* Mutant of Enter: concurrent invocations are not serialised.
EnterAnyway(c) ==
    /\ pc[c] = "wait"
    /\ pc' = [pc EXCEPT ![c] = "load"]
    /\ holder' = c
    /\ Silent
    /\ UNCHANGED <<job, runs, World>>

Enter(c) ==
    /\ pc[c] = "wait"
    /\ holder = None
    /\ pc' = [pc EXCEPT ![c] = "load"]
    /\ holder' = c
    /\ Silent
    /\ UNCHANGED <<job, runs, World>>

-----------------------------------------------------------------------------
(* Loading and gathering *)

Load(c) ==
    /\ Step(c, "load", "gather", [job[c] EXCEPT !.symbols = whitelist])
    /\ Silent

\* No strategy_configs row is enabled, or the SELECT raises: the try that records what
\* goes wrong has not begun, and the run is over without a history row.
LoadNothing(c) ==
    /\ Leave(c, "load")
    /\ skipped' = skipped \cup {job[c].run}
    /\ UNCHANGED <<tables, disk, lost>>

\* The symbols are asked for concurrently; one that fails is left out.
Gather(c) ==
    /\ \E got \in SUBSET job[c].symbols :
          Step(c, "gather", "portfolio", [job[c] EXCEPT !.tickers = got])
    /\ Silent

Portfolio(c) ==
    /\ Step(c, "portfolio", "ask", job[c])
    /\ Silent

\* An unexpected exception: the catch-all records an error row.
Unexpected(c) ==
    /\ Step(c, "portfolio", "record", [job[c] EXCEPT !.verdict = "error"])
    /\ Silent

-----------------------------------------------------------------------------
(* The call of the model *)

\* An answer that parses at least as JSON with the required keys is looked at next.
Answer(c) ==
    /\ \E items \in SUBSET Items :
          Step(c, "ask", "parse", [job[c] EXCEPT !.todo = items])
    /\ Silent

\* The API raises, or the answer has no usable JSON (LLMParseError).
AnswerUnusable(c) ==
    /\ \E s \in {"error", "timeout"} :
          Step(c, "ask", "record", [job[c] EXCEPT !.verdict = s])
    /\ Silent

\* Mutant of AskTimeout: no limit is set on the call.
AskForever(c) == FALSE /\ UNCHANGED vars

\* wait_for gives up after 60 s.
AskTimeout(c) ==
    /\ Step(c, "ask", "record", [job[c] EXCEPT !.verdict = "timeout"])
    /\ Silent

-----------------------------------------------------------------------------
(* The parser *)

\* _get_market_price: only a symbol that was gathered has a ticker in the snapshot.
HasPrice(j, i) == i.symbol \in j.tickers

\* _parse_single_proposal keeps the item; an empty whitelist allows everything.
Accepted(j, i) == /\ i.sound
                  /\ allowed = {} \/ i.symbol \in allowed
                  /\ i.limit => i.priced
                  /\ HasPrice(j, i)

\* confidence_score is clamped, an unknown risk_tier becomes the default.
Clamped(n) == IF n < 0 THEN 0 ELSE IF n > 100 THEN 100 ELSE n
Tier(i) == IF i.tier = "other" THEN "medium" ELSE i.tier

Proposal(c, i) == <<job[c].run, i, Clamped(i.confidence), Tier(i)>>

Parse(c) ==
    LET kept == {i \in job[c].todo : Accepted(job[c], i)}
    IN /\ Step(c, "parse", "record",
               [job[c] EXCEPT !.todo = kept, !.count = Cardinality(kept), !.verdict = "success"])
       /\ Silent

-----------------------------------------------------------------------------
(* _record_analysis_history *)

\* Mutant of HistoryRow: the count is left at its default.
HistoryRowUncounted(j) == <<j.run, j.verdict, 0>>

HistoryRow(j) == <<j.run, j.verdict, IF j.verdict = "success" THEN j.count ELSE 0>>

Record(c) ==
    /\ Step(c, "record", "recordCommit", job[c])
    /\ tables' = [tables EXCEPT !.history = @ \cup {HistoryRow(job[c])}]
    /\ UNCHANGED <<disk, lost, skipped>>

\* After a success the proposals follow, after anything else the run is over.
AfterRecord(c, from) ==
    IF job[c].verdict = "success"
    THEN Step(c, from, "enqueue", job[c])
    ELSE Leave(c, from)

RecordCommit(c) ==
    /\ AfterRecord(c, "recordCommit")
    /\ disk' = tables
    /\ UNCHANGED <<tables, lost, skipped>>

\* The INSERT raises: it is logged, and the run goes on as if the row were there.
RecordFails(c) ==
    /\ AfterRecord(c, "record")
    /\ lost' = lost \cup {job[c].run}
    /\ UNCHANGED <<tables, disk, skipped>>

-----------------------------------------------------------------------------
(* ProposalQueue.enqueue, for one proposal after the other *)

Enqueue(c, i) ==
    /\ i \in job[c].todo
    /\ i.storable
    /\ Step(c, "enqueue", "enqueueCommit", [job[c] EXCEPT !.todo = @ \ {i}])
    /\ tables' = [tables EXCEPT !.queue = @ \cup {Proposal(c, i)}]
    /\ UNCHANGED <<disk, lost, skipped>>

EnqueueCommit(c) ==
    /\ Step(c, "enqueueCommit", "enqueue", job[c])
    /\ disk' = tables
    /\ UNCHANGED <<tables, lost, skipped>>

\* Mutant of EnqueueFails: the proposal is skipped.
EnqueueSkips(c, i) ==
    /\ i \in job[c].todo
    /\ ~i.storable
    /\ Step(c, "enqueue", "enqueue", [job[c] EXCEPT !.todo = @ \ {i}])
    /\ Silent

\* The INSERT violates a constraint of the table: the catch-all adds an error row to the
\* success row of the same run, and the rest of the proposals is dropped.
EnqueueFails(c, i) ==
    /\ i \in job[c].todo
    /\ ~i.storable
    /\ Step(c, "enqueue", "record", [job[c] EXCEPT !.todo = {}, !.verdict = "error"])
    /\ Silent

Finish(c) ==
    /\ job[c].todo = {}
    /\ Leave(c, "enqueue")
    /\ Silent

-----------------------------------------------------------------------------
(* The environment *)

\* PUT /api/strategy/config; the engine built at the start does not hear of it.
SetWhitelist(w) ==
    /\ w # whitelist
    /\ whitelist' = w
    /\ disk' = tables
    /\ UNCHANGED <<allowed, holder, pc, job, tables, runs, lost, skipped, crashes>>

\* Some other component commits the shared connection.
SomeoneCommits ==
    /\ disk # tables
    /\ disk' = tables
    /\ UNCHANGED <<whitelist, allowed, holder, pc, job, tables, runs, lost, skipped, crashes>>

Restart ==
    /\ crashes < MaxCrashes
    /\ crashes' = crashes + 1
    /\ tables' = disk
    /\ allowed' = whitelist
    /\ holder' = None
    /\ pc' = [c \in Callers |-> "idle"]
    /\ job' = [c \in Callers |-> NoJob]
    /\ lost' = lost \cup {job[c].run : c \in {d \in Callers : pc[d] # "idle"}}
    /\ UNCHANGED <<whitelist, disk, runs, skipped>>

-----------------------------------------------------------------------------
(* Specification *)

\* What ends without the model's help.
OwnStep(c) ==
    \/ Load(c) \/ LoadNothing(c) \/ Gather(c) \/ Portfolio(c) \/ Unexpected(c)
    \/ AskTimeout(c) \/ Parse(c)
    \/ Record(c) \/ RecordCommit(c) \/ RecordFails(c)
    \/ \E i \in Items : Enqueue(c, i) \/ EnqueueFails(c, i)
    \/ EnqueueCommit(c) \/ Finish(c)

Next ==
    \/ \E c \in Callers : Trigger(c) \/ Enter(c) \/ OwnStep(c) \/ Answer(c) \/ AnswerUnusable(c)
    \/ \E w \in Whitelists : SetWhitelist(w)
    \/ SomeoneCommits \/ Restart

Spec == Init /\ [][Next]_vars

\* The event loop resumes who can go on, exchange adapters have time limits of their own,
\* and the lock is first in, first out.  Nothing makes the model answer.
FairSpec == Spec /\ \A c \in Callers : WF_vars(OwnStep(c)) /\ SF_vars(Enter(c))

-----------------------------------------------------------------------------
(* Properties *)

\* Every variable has its type, and only the holder of the lock is in an analysis.
TypeOK ==
    /\ whitelist \in Whitelists
    /\ allowed \in Whitelists
    /\ holder \in Callers \cup {None}
    /\ pc \in [Callers -> Points]
    /\ job \in [Callers -> Job]
    /\ tables \in Tables
    /\ disk \in Tables
    /\ runs \in 0 .. MaxRuns
    /\ lost \subseteq 1 .. MaxRuns
    /\ skipped \subseteq 1 .. MaxRuns
    /\ crashes \in 0 .. MaxCrashes
    /\ \A c \in Callers : holder = c <=> pc[c] \notin {"idle", "wait"}

StatusesOf(t, r) == {row[2] : row \in {h \in t.history : h[1] = r}}
ProposalsOf(t, r) == {q \in t.queue : q[1] = r}

\* The audit trail comes first: wherever the process dies, a proposal in the database has
\* the successful history row of the run that made it, unless storing that row failed.
ProposalsAudited ==
    \A q \in disk.queue : q[1] \in lost \/ <<q[1], "success">> \in {<<h[1], h[2]>> : h \in disk.history}

\* What the engine implements: the records of every run, as they are on disk, and how many
\* of its proposals are there, change only as AuditTrail allows, wherever the process dies.
Trail == INSTANCE AuditTrail WITH
             Runs <- 1 .. MaxRuns,
             MaxProposals <- Cardinality(Items),
             rows <- [r \in 1 .. MaxRuns |-> {<<h[2], h[3]>> : h \in {g \in disk.history : g[1] = r}}],
             made <- [r \in 1 .. MaxRuns |-> Cardinality(ProposalsOf(disk, r))]

ImplementsAuditTrail == Trail!Spec

Over(r) == r \in 1 .. runs /\ r \notin lost /\ \A c \in Callers : job[c].run # r

\* A run that is over and was neither cut nor left unrecorded is accounted for on disk: a
\* success row counts the proposals it enqueued; if a further row says "error", some are
\* missing; and a run that failed before has that one row and no proposal.  Only a run
\* without a configuration to run with has no row, and it has no proposal either.
RunsAccounted ==
    \A r \in 1 .. MaxRuns : Over(r) =>
        LET rows == {h \in disk.history : h[1] = r}
            queued == Cardinality(ProposalsOf(disk, r))
        IN IF r \in skipped THEN rows = {} /\ queued = 0
           ELSE \/ rows = {<<r, "success", queued>>}
                \/ \E n \in (queued + 1) .. Cardinality(Items) :
                       rows = {<<r, "success", n>>, <<r, "error", 0>>}
                \/ queued = 0 /\ \E s \in {"error", "timeout"} : rows = {<<r, s, 0>>}

\* Every trigger is answered: no call that hangs keeps the lock from those who wait.
TriggersAnswered == \A c \in Callers : pc[c] # "idle" ~> pc[c] = "idle"
=============================================================================
