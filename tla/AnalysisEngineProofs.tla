------------------------- MODULE AnalysisEngineProofs -------------------------
(***************************************************************************)
(* Proofs about AnalysisEngine, for any callers, symbols, items, whitelists *)
(* and numbers of runs and restarts.                                       *)
(*                                                                         *)
(* A run belongs to one caller until it is over (RunsOK), and only that    *)
(* caller writes rows of it (Frame).  StageOK is what the tables hold of   *)
(* the run at each await, CommittedOK what of it is on disk before the     *)
(* next proposal, OverOK what is left of it in the end.  AuditOK is the    *)
(* audit trail, for the tables as well: a restart makes them what is on    *)
(* disk.  The refinement of AuditTrail adds that the tables are ahead of   *)
(* the disk by one write at most (OnePending), and what a lost run can     *)
(* still record (LossOK).                                                  *)
(***************************************************************************)
EXTENDS AnalysisEngine, FiniteSetTheorems, TLAPS

RowsOf(t, r) == {h \in t.history : h[1] = r}

Unrecorded == {"wait", "load", "gather", "portfolio", "ask", "parse"}

RunsOK ==
    /\ \A c \in Callers : IF pc[c] = "idle" THEN job[c] = NoJob ELSE job[c].run \in 1 .. runs
    /\ \A c, d \in Callers : c # d /\ pc[c] # "idle" => job[c].run # job[d].run
    /\ \A h \in tables.history : h[1] \in 1 .. runs
    /\ \A q \in tables.queue : q[1] \in 1 .. runs
    /\ disk.history \subseteq tables.history
    /\ disk.queue \subseteq tables.queue
    /\ skipped \subseteq 1 .. runs
    /\ \A c \in Callers : pc[c] # "idle" => job[c].run \notin skipped
    /\ \A c \in Callers : /\ pc[c] \in {"record", "recordCommit"} => job[c].verdict # "none"
                          /\ job[c].count <= Cardinality(Items)

\* What the rows of a run say when it is over.
Outcome(r, rows, queued) ==
    \/ rows = {<<r, "success", queued>>}
    \/ \E n \in (queued + 1) .. Cardinality(Items) :
           rows = {<<r, "success", n>>, <<r, "error", 0>>}
    \/ queued = 0 /\ \E s \in {"error", "timeout"} : rows = {<<r, s, 0>>}

\* What the tables hold of the run j when its caller is at an await.
AtRecord(j, rows, props) ==
    \/ /\ rows = {}
       /\ props = {}
       /\ j.verdict = "success" => j.count = Cardinality(j.todo)
    \/ /\ j.verdict = "error"
       /\ \E n \in (Cardinality(props) + 1) .. Cardinality(Items) :
              rows = {<<j.run, "success", n>>}

AtCommit(j, rows, props) ==
    IF j.verdict = "success"
    THEN /\ rows = {<<j.run, "success", j.count>>}
         /\ props = {}
         /\ j.count = Cardinality(j.todo)
    ELSE Outcome(j.run, rows, Cardinality(props))

Enqueuing(j, rows, props) ==
    /\ rows = {<<j.run, "success", j.count>>}
    /\ \A q \in props : q[2] \notin j.todo
    /\ Cardinality(props) + Cardinality(j.todo) = j.count

Stage(at, j, rows, props) ==
    /\ IsFiniteSet(props)
    /\ at \in Unrecorded => rows = {} /\ props = {}
    /\ at = "record" => AtRecord(j, rows, props)
    /\ at = "recordCommit" => AtCommit(j, rows, props)
    /\ at \in {"enqueue", "enqueueCommit"} => Enqueuing(j, rows, props)

Known(c) == pc[c] # "idle" /\ job[c].run \notin lost

StageOK ==
    \A c \in Callers : Known(c) =>
        Stage(pc[c], job[c], RowsOf(tables, job[c].run), ProposalsOf(tables, job[c].run))

CommittedOK ==
    \A c \in Callers : Known(c) /\ pc[c] = "enqueue" =>
        /\ RowsOf(disk, job[c].run) = RowsOf(tables, job[c].run)
        /\ ProposalsOf(disk, job[c].run) = ProposalsOf(tables, job[c].run)

\* What t holds of a run that is over, given the runs that ended before they began.
Closed(t, r, without) ==
    LET queued == Cardinality(ProposalsOf(t, r))
    IN IF r \in without THEN RowsOf(t, r) = {} /\ queued = 0 ELSE Outcome(r, RowsOf(t, r), queued)

OverOK ==
    \A r \in 1 .. runs : Over(r) => Closed(tables, r, skipped) /\ Closed(disk, r, skipped)

Audited(t) ==
    \A q \in t.queue : q[1] \in lost \/ \E h \in t.history : h[1] = q[1] /\ h[2] = "success"

AuditOK == Audited(tables) /\ Audited(disk)

IInv == TypeOK /\ RunsOK /\ StageOK /\ CommittedOK /\ OverOK /\ AuditOK

-----------------------------------------------------------------------------
(* Types *)

\* The types of what is not stored, and of what is.
CallersTyped ==
    /\ whitelist \in Whitelists
    /\ allowed \in Whitelists
    /\ holder \in Callers \cup {None}
    /\ pc \in [Callers -> Points]
    /\ job \in [Callers -> Job]
    /\ runs \in 0 .. MaxRuns
    /\ crashes \in 0 .. MaxCrashes
    /\ \A c \in Callers : holder = c <=> pc[c] \notin {"idle", "wait"}

StoreTyped ==
    /\ tables \in Tables
    /\ disk \in Tables
    /\ lost \subseteq 1 .. MaxRuns
    /\ skipped \subseteq 1 .. MaxRuns

\* The two together are the type invariant.
LEMMA TypesSplit ==
    /\ TypeOK => CallersTyped /\ StoreTyped
    /\ CallersTyped' /\ StoreTyped' => TypeOK'
  BY DEF TypeOK, CallersTyped, StoreTyped

\* An idle caller has no analysis.
LEMMA NoJobTyped == NoJob \in Job
  BY DEF NoJob, Job

\* An analysis goes from one await to the next inside the lock.
LEMMA StepTyped ==
    ASSUME TypeOK, NEW c \in Callers, NEW from, NEW to \in Points, NEW j \in Job,
           from \notin {"idle", "wait"}, to \notin {"idle", "wait"}, Step(c, from, to, j)
    PROVE  CallersTyped'
  BY DEF TypeOK, CallersTyped, Step, Goto

\* An analysis ends and the lock is free.
LEMMA LeaveTyped ==
    ASSUME TypeOK, NEW c \in Callers, NEW from, from \notin {"idle", "wait"}, Leave(c, from)
    PROVE  CallersTyped'
  <1>1. \A d \in Callers : d # c => pc[d] \in {"idle", "wait"}
        BY DEF TypeOK, Leave
  <1>2. \A d \in Callers : None # d
        BY EngineAssumption
  <1>3. pc' \in [Callers -> Points] /\ job' \in [Callers -> Job]
        BY NoJobTyped DEF TypeOK, Leave, Points
  <1>4. \A d \in Callers : holder' = d <=> pc'[d] \notin {"idle", "wait"}
        BY <1>1, <1>2 DEF TypeOK, Leave
  <1>5. QED
        BY <1>3, <1>4 DEF TypeOK, CallersTyped, Leave

\* The proposal the parser makes of an item fits the table.
LEMMA ProposalTyped ==
    ASSUME TypeOK, NEW c \in Callers, NEW i \in Items
    PROVE  Proposal(c, i) \in Nat \X Items \X (0 .. 100) \X {"low", "medium", "high"}
  <1>1. i.confidence \in Int /\ i.tier \in {"low", "medium", "high", "other"}
        BY EngineAssumption DEF Item
  <1>2. Clamped(i.confidence) \in 0 .. 100
        BY <1>1 DEF Clamped
  <1>3. Tier(i) \in {"low", "medium", "high"}
        BY <1>1 DEF Tier
  <1>4. job[c].run \in Nat
        BY DEF TypeOK, Job
  <1>5. QED
        BY <1>2, <1>3, <1>4 DEF Proposal

\* What a run with a verdict stores fits the table.
LEMMA RowTyped ==
    ASSUME NEW j \in Job, j.verdict # "none"
    PROVE  HistoryRow(j) \in Nat \X {"success", "error", "timeout"} \X Nat
  BY DEF Job, HistoryRow

\* A set of items the parser keeps is finite and no larger than all of them.
LEMMA ItemsFinite ==
    ASSUME NEW S \in SUBSET Items
    PROVE  IsFiniteSet(S) /\ Cardinality(S) \in Nat /\ Cardinality(S) <= Cardinality(Items)
  BY EngineAssumption, FS_Subset, FS_CardinalityType

\* One row more, one proposal more, and the rest as before.
LEMMA AddRow ==
    ASSUME NEW t \in Tables, NEW row
    PROVE  /\ [t EXCEPT !.history = @ \cup {row}].history = t.history \cup {row}
           /\ [t EXCEPT !.history = @ \cup {row}].queue = t.queue
           /\ [t EXCEPT !.queue = @ \cup {row}].queue = t.queue \cup {row}
           /\ [t EXCEPT !.queue = @ \cup {row}].history = t.history
  BY DEF Tables

\* The variables have their types at the start.
LEMMA InitTypes == Init => TypeOK
  <1> SUFFICES ASSUME Init PROVE TypeOK
      OBVIOUS
  <1>1. tables \in Tables /\ disk \in Tables
        BY DEF Init, Tables
  <1>2. pc \in [Callers -> Points] /\ job \in [Callers -> Job]
        BY NoJobTyped DEF Init, Points
  <1>3. runs \in 0 .. MaxRuns /\ crashes \in 0 .. MaxCrashes
        BY EngineAssumption DEF Init
  <1>4. \A c \in Callers : holder = c <=> pc[c] \notin {"idle", "wait"}
        BY EngineAssumption DEF Init
  <1>5. QED
        BY <1>1, <1>2, <1>3, <1>4 DEF Init, TypeOK

\* A caller that records or has recorded.
RecordStep(c) == Record(c) \/ RecordCommit(c) \/ RecordFails(c)

\* A caller between its turn in the lock and its verdict.
QuietStep(c) ==
    \/ Load(c) \/ Gather(c) \/ Portfolio(c) \/ Unexpected(c) \/ AskTimeout(c) \/ Parse(c)
    \/ Answer(c) \/ AnswerUnusable(c)

\* Such a step takes the run on to a later await, with nothing stored.
LEMMA QuietMoves ==
    ASSUME TypeOK, NEW c \in Callers, QuietStep(c)
    PROVE  \E to \in (Unrecorded \ {"wait"}) \cup {"record"}, j \in Job :
              /\ Step(c, pc[c], to, j)
              /\ Silent
              /\ pc[c] \in Unrecorded \ {"wait"}
              /\ j.run = job[c].run
              /\ j.count = job[c].count \/ j.count \in 0 .. Cardinality(Items)
              /\ to = "record" => /\ j.verdict # "none"
                                  /\ j.verdict = "success" => j.count = Cardinality(j.todo)
  <1> USE DEF Unrecorded
  <1> DEFINE Goal ==
        \E to \in (Unrecorded \ {"wait"}) \cup {"record"}, j \in Job :
              /\ Step(c, pc[c], to, j)
              /\ Silent
              /\ pc[c] \in Unrecorded \ {"wait"}
              /\ j.run = job[c].run
              /\ j.count = job[c].count \/ j.count \in 0 .. Cardinality(Items)
              /\ to = "record" => /\ j.verdict # "none"
                                  /\ j.verdict = "success" => j.count = Cardinality(j.todo)
  <1>0. job[c] \in Job
        BY DEF TypeOK
  <1>a. ASSUME NEW from \in Unrecorded \ {"wait"}, NEW j \in Job,
               NEW to \in (Unrecorded \ {"wait"}) \cup {"record"},
               Step(c, from, to, j), Silent, j.run = job[c].run,
               j.count = job[c].count \/ j.count \in 0 .. Cardinality(Items),
               to = "record" => /\ j.verdict # "none"
                                /\ j.verdict = "success" => j.count = Cardinality(j.todo)
        PROVE  Goal
    <2>1. from = pc[c]
          BY <1>a DEF Step, Goto
    <2>2. Step(c, pc[c], to, j)
          BY <1>a, <2>1
    <2>3. QED
          BY <1>a, <2>1, <2>2
  <1>1. CASE Load(c)
    <2> DEFINE j == [job[c] EXCEPT !.symbols = whitelist]
    <2>1. j \in Job /\ j.run = job[c].run /\ j.count = job[c].count
          BY <1>0, EngineAssumption DEF TypeOK, Job
    <2>2. Step(c, "load", "gather", j) /\ Silent
          BY <1>1 DEF Load
    <2>3. QED
          BY <1>a, <2>1, <2>2
  <1>2. CASE Gather(c)
    <2>1. PICK got \in SUBSET job[c].symbols :
             Step(c, "gather", "portfolio", [job[c] EXCEPT !.tickers = got])
          BY <1>2 DEF Gather
    <2> DEFINE j == [job[c] EXCEPT !.tickers = got]
    <2>2. j \in Job /\ j.run = job[c].run /\ j.count = job[c].count
          BY <1>0 DEF Job
    <2>3. Step(c, "gather", "portfolio", j) /\ Silent
          BY <1>2, <2>1 DEF Gather
    <2>4. QED
          BY <1>a, <2>2, <2>3
  <1>3. CASE Portfolio(c)
    <2>1. Step(c, "portfolio", "ask", job[c]) /\ Silent
          BY <1>3 DEF Portfolio
    <2>2. QED
          BY <1>a, <1>0, <2>1
  <1>4. ASSUME NEW s \in {"error", "timeout"}, NEW from \in {"ask", "portfolio"},
               Step(c, from, "record", [job[c] EXCEPT !.verdict = s]), Silent
        PROVE  Goal
    <2> DEFINE j == [job[c] EXCEPT !.verdict = s]
    <2>1. j \in Job /\ j.run = job[c].run /\ j.count = job[c].count /\ j.verdict = s
          BY <1>0 DEF Job
    <2>2. QED
          BY <1>a, <1>4, <2>1
  <1>5. CASE Parse(c)
    <2> DEFINE kept == {i \in job[c].todo : Accepted(job[c], i)}
               j == [job[c] EXCEPT !.todo = kept, !.count = Cardinality(kept),
                                   !.verdict = "success"]
    <2>1. kept \in SUBSET Items
          BY <1>0 DEF Job
    <2>2. Cardinality(kept) \in Nat /\ Cardinality(kept) \in 0 .. Cardinality(Items)
          BY <2>1, ItemsFinite
    <2>3. /\ j \in Job /\ j.run = job[c].run /\ j.count = Cardinality(kept)
          /\ j.todo = kept /\ j.verdict = "success"
          BY <1>0, <2>1, <2>2 DEF Job
    <2>4. Step(c, "parse", "record", j) /\ Silent
          BY <1>5 DEF Parse
    <2>5. QED
          BY <1>a, <2>2, <2>3, <2>4
  <1>6. CASE Answer(c)
    <2>1. PICK items \in SUBSET Items :
             Step(c, "ask", "parse", [job[c] EXCEPT !.todo = items])
          BY <1>6 DEF Answer
    <2> DEFINE j == [job[c] EXCEPT !.todo = items]
    <2>2. j \in Job /\ j.run = job[c].run /\ j.count = job[c].count
          BY <1>0 DEF Job
    <2>3. Step(c, "ask", "parse", j) /\ Silent
          BY <1>6, <2>1 DEF Answer
    <2>4. QED
          BY <1>a, <2>2, <2>3
  <1>7. CASE Unexpected(c)
        BY <1>7, <1>4 DEF Unexpected
  <1>8. CASE AskTimeout(c)
        BY <1>8, <1>4 DEF AskTimeout
  <1>9. CASE AnswerUnusable(c)
        BY <1>9, <1>4 DEF AnswerUnusable
  <1>10. QED
         BY <1>1, <1>2, <1>3, <1>5, <1>6, <1>7, <1>8, <1>9 DEF QuietStep

\* A run stored or not, the caller goes on with its proposals or leaves.
LEMMA AfterRecordTyped ==
    ASSUME TypeOK, NEW c \in Callers, NEW from, from \notin {"idle", "wait"},
           AfterRecord(c, from)
    PROVE  CallersTyped' /\ pc[c] = from
  <1>1. job[c] \in Job /\ "enqueue" \in Points
        BY DEF TypeOK, Points
  <1>2. CASE job[c].verdict = "success"
    <2>1. Step(c, from, "enqueue", job[c])
          BY <1>2 DEF AfterRecord
    <2>2. QED
          BY <1>1, <2>1, StepTyped DEF Step, Goto
  <1>3. CASE job[c].verdict # "success"
    <2>1. Leave(c, from)
          BY <1>3 DEF AfterRecord
    <2>2. QED
          BY <2>1, LeaveTyped DEF Leave
  <1>4. QED
        BY <1>2, <1>3

\* Every step keeps the types.
LEMMA StepTypes ==
    ASSUME TypeOK, RunsOK, [Next]_vars
    PROVE  TypeOK'
  <1> USE TypesSplit
  <1>1. ASSUME NEW c \in Callers
        PROVE  job[c] \in Job /\ pc[c] \in Points
        BY DEF TypeOK
  <1>p. /\ "record" \in Points /\ "recordCommit" \in Points /\ "enqueueCommit" \in Points
        /\ "enqueue" \notin {"idle", "wait"} /\ "record" \notin {"idle", "wait"}
        /\ "recordCommit" \notin {"idle", "wait"} /\ "enqueueCommit" \notin {"idle", "wait"}
        BY DEF Points
  <1>2. ASSUME NEW c \in Callers, Trigger(c)
        PROVE  TypeOK'
    <2>1. runs + 1 \in 0 .. MaxRuns
          BY <1>2, EngineAssumption DEF Trigger, TypeOK
    <2>2. [NoJob EXCEPT !.run = runs + 1] \in Job
          BY <2>1 DEF NoJob, Job
    <2>3. /\ pc' \in [Callers -> Points] /\ job' \in [Callers -> Job]
          /\ \A d \in Callers : holder' = d <=> pc'[d] \notin {"idle", "wait"}
          BY <1>2, <2>2 DEF Trigger, Goto, TypeOK, Points
    <2>4. QED
          BY <1>2, <2>1, <2>3 DEF Trigger, Goto, Silent, World, CallersTyped, StoreTyped
  <1>3. ASSUME NEW c \in Callers, Enter(c)
        PROVE  TypeOK'
    <2>1. \A d \in Callers : d # c => pc[d] \in {"idle", "wait"}
          BY <1>3, EngineAssumption DEF Enter, TypeOK
    <2>2. /\ pc' \in [Callers -> Points]
          /\ \A d \in Callers : holder' = d <=> pc'[d] \notin {"idle", "wait"}
          BY <1>3, <2>1 DEF Enter, TypeOK, Points
    <2>3. QED
          BY <1>3, <2>2 DEF Enter, Silent, World, CallersTyped, StoreTyped
  <1>4. ASSUME NEW c \in Callers, QuietStep(c)
        PROVE  TypeOK'
    <2>1. PICK to \in (Unrecorded \ {"wait"}) \cup {"record"}, j \in Job :
             Step(c, pc[c], to, j) /\ Silent /\ pc[c] \in Unrecorded \ {"wait"}
          BY <1>4, QuietMoves
    <2>2. to \in Points /\ pc[c] \notin {"idle", "wait"} /\ to \notin {"idle", "wait"}
          BY <2>1 DEF Unrecorded, Points
    <2>3. CallersTyped'
          BY <2>1, <2>2, StepTyped
    <2>4. QED
          BY <2>1, <2>3 DEF Silent, StoreTyped
  <1>5. ASSUME NEW c \in Callers, Record(c)
        PROVE  TypeOK'
    <2>1. job[c].verdict # "none"
          BY <1>5 DEF Record, Step, Goto, RunsOK
    <2>2. tables' \in Tables
          BY <1>1, <1>5, <2>1, RowTyped DEF Record, TypeOK, Tables
    <2>3. CallersTyped'
          BY <1>1, <1>5, <1>p, StepTyped DEF Record
    <2>4. QED
          BY <1>5, <2>2, <2>3 DEF Record, StoreTyped
  <1>6. ASSUME NEW c \in Callers, RecordCommit(c)
        PROVE  TypeOK'
        BY <1>6, AfterRecordTyped DEF RecordCommit, StoreTyped
  <1>7. ASSUME NEW c \in Callers, RecordFails(c)
        PROVE  TypeOK'
    <2>1. CallersTyped' /\ pc[c] = "record"
          BY <1>7, AfterRecordTyped DEF RecordFails
    <2>2. job[c].run \in 1 .. MaxRuns
          BY <2>1, EngineAssumption DEF RunsOK, TypeOK
    <2>3. QED
          BY <1>7, <2>1, <2>2 DEF RecordFails, StoreTyped
  <1>8. ASSUME NEW c \in Callers, NEW i \in Items, Enqueue(c, i)
        PROVE  TypeOK'
    <2>1. [job[c] EXCEPT !.todo = @ \ {i}] \in Job
          BY <1>1 DEF Job
    <2>2. CallersTyped'
          BY <1>8, <1>p, <2>1, StepTyped DEF Enqueue
    <2>3. tables' \in Tables
          BY <1>8, ProposalTyped DEF Enqueue, TypeOK, Tables
    <2>4. QED
          BY <1>8, <2>2, <2>3 DEF Enqueue, StoreTyped
  <1>9. ASSUME NEW c \in Callers, NEW i \in Items, EnqueueFails(c, i)
        PROVE  TypeOK'
    <2>1. [job[c] EXCEPT !.todo = {}, !.verdict = "error"] \in Job
          BY <1>1 DEF Job
    <2>2. CallersTyped'
          BY <1>9, <1>p, <2>1, StepTyped DEF EnqueueFails
    <2>3. QED
          BY <1>9, <2>2 DEF EnqueueFails, Silent, StoreTyped
  <1>10. ASSUME NEW c \in Callers, EnqueueCommit(c)
         PROVE  TypeOK'
    <2>1. CallersTyped'
          BY <1>1, <1>10, StepTyped DEF EnqueueCommit, Points
    <2>2. QED
          BY <1>10, <2>1 DEF EnqueueCommit, StoreTyped
  <1>11. ASSUME NEW c \in Callers, Finish(c)
         PROVE  TypeOK'
         BY <1>11, LeaveTyped DEF Finish, Silent, StoreTyped
  <1>l. ASSUME NEW c \in Callers, LoadNothing(c)
        PROVE  TypeOK'
    <2>1. CallersTyped' /\ pc[c] = "load"
          BY <1>l, LeaveTyped DEF LoadNothing, Leave
    <2>2. job[c].run \in 1 .. MaxRuns
          BY <2>1, EngineAssumption DEF RunsOK, TypeOK
    <2>3. QED
          BY <1>l, <2>1, <2>2 DEF LoadNothing, StoreTyped
  <1>12. ASSUME NEW w \in Whitelists, SetWhitelist(w)
         PROVE  TypeOK'
         BY <1>12 DEF SetWhitelist, CallersTyped, StoreTyped
  <1>13. CASE SomeoneCommits
         BY <1>13 DEF SomeoneCommits, CallersTyped, StoreTyped
  <1>14. CASE Restart
    <2>1. {job[c].run : c \in {d \in Callers : pc[d] # "idle"}} \subseteq 1 .. MaxRuns
          BY EngineAssumption DEF RunsOK, TypeOK
    <2>2. pc' \in [Callers -> Points] /\ job' \in [Callers -> Job]
          BY <1>14, NoJobTyped DEF Restart, Points
    <2>3. crashes' \in 0 .. MaxCrashes
          BY <1>14, EngineAssumption DEF Restart, TypeOK
    <2>4. \A c \in Callers : holder' = c <=> pc'[c] \notin {"idle", "wait"}
          BY <1>14, EngineAssumption DEF Restart
    <2>5. QED
          BY <1>14, <2>1, <2>2, <2>3, <2>4 DEF Restart, TypeOK
  <1>15. CASE UNCHANGED vars
         BY <1>15 DEF vars, CallersTyped, StoreTyped
  <1>16. QED
         BY <1>2, <1>3, <1>4, <1>5, <1>6, <1>7, <1>8, <1>9, <1>10, <1>11, <1>l, <1>12, <1>13,
            <1>14, <1>15
            DEF Next, OwnStep, QuietStep

-----------------------------------------------------------------------------
(* What a caller leaves alone *)

\* A step of c stores at most rows of its own run.
Grows(c) ==
    /\ tables.history \subseteq tables'.history
    /\ tables.queue \subseteq tables'.queue
    /\ \A h \in tables'.history \ tables.history : h[1] = job[c].run
    /\ \A q \in tables'.queue \ tables.queue : q[1] = job[c].run

Frame(c) ==
    /\ \A d \in Callers : d # c => pc'[d] = pc[d] /\ job'[d] = job[d]
    /\ Grows(c)
    /\ disk' = disk \/ disk' = tables
    /\ lost' = lost \/ lost' = lost \cup {job[c].run}
    /\ skipped' = skipped \/ skipped' = skipped \cup {job[c].run}
    /\ runs' = runs

\* c stays in its run, and what is known of the run fits the await; or leaves it closed.
Own(c) ==
    LET r == job[c].run
    IN \/ /\ pc'[c] # "idle"
          /\ job'[c].run = r
          /\ skipped' = skipped
          /\ r \notin lost' =>
                /\ Stage(pc'[c], job'[c], RowsOf(tables', r), ProposalsOf(tables', r))
                /\ pc'[c] = "enqueue" => /\ RowsOf(disk', r) = RowsOf(tables', r)
                                         /\ ProposalsOf(disk', r) = ProposalsOf(tables', r)
       \/ /\ pc'[c] = "idle"
          /\ job'[c] = NoJob
          /\ r \in lost' \/ (Closed(tables', r, skipped') /\ Closed(disk', r, skipped'))

\* The rows of other runs stay what they are.
LEMMA Elsewhere ==
    ASSUME NEW c \in Callers, Grows(c), NEW r, r # job[c].run
    PROVE  RowsOf(tables', r) = RowsOf(tables, r) /\ ProposalsOf(tables', r) = ProposalsOf(tables, r)
  BY DEF Grows, RowsOf, ProposalsOf

\* So what is known of the other runs stays known.
LEMMA FrameKeeps ==
    ASSUME TypeOK, RunsOK, StageOK, CommittedOK, OverOK,
           NEW c \in Callers, pc[c] # "idle", Frame(c), Own(c)
    PROVE  StageOK' /\ CommittedOK' /\ OverOK'
  <1>1. lost \subseteq lost'
        BY DEF Frame
  <1>2. \A r : r # job[c].run => /\ RowsOf(tables', r) = RowsOf(tables, r)
                                 /\ ProposalsOf(tables', r) = ProposalsOf(tables, r)
        BY Elsewhere DEF Frame
  <1>3. ASSUME NEW d \in Callers, d # c, Known(d)'
        PROVE  /\ Known(d)
               /\ pc'[d] = pc[d] /\ job'[d] = job[d]
               /\ job[d].run # job[c].run
        BY <1>1, <1>3 DEF Frame, Known, RunsOK
  <1>4. StageOK'
    <2> SUFFICES ASSUME NEW d \in Callers, Known(d)'
                 PROVE  Stage(pc'[d], job'[d], RowsOf(tables', job'[d].run),
                              ProposalsOf(tables', job'[d].run))
        BY DEF StageOK
    <2>1. CASE d = c
          BY <2>1 DEF Own, Known
    <2>2. CASE d # c
          BY <1>2, <1>3, <2>2 DEF StageOK
    <2>3. QED
          BY <2>1, <2>2
  <1>5. CommittedOK'
    <2> SUFFICES ASSUME NEW d \in Callers, Known(d)', pc'[d] = "enqueue"
                 PROVE  /\ RowsOf(disk', job'[d].run) = RowsOf(tables', job'[d].run)
                        /\ ProposalsOf(disk', job'[d].run) = ProposalsOf(tables', job'[d].run)
        BY DEF CommittedOK
    <2>1. CASE d = c
          BY <2>1 DEF Own, Known
    <2>2. CASE d # c
      <3>1. /\ RowsOf(disk, job[d].run) = RowsOf(tables, job[d].run)
            /\ ProposalsOf(disk, job[d].run) = ProposalsOf(tables, job[d].run)
            BY <1>3, <2>2 DEF CommittedOK
      <3>2. disk' = disk \/ disk' = tables
            BY DEF Frame
      <3>3. QED
            BY <1>2, <1>3, <2>2, <3>1, <3>2
    <2>3. QED
          BY <2>1, <2>2
  <1>6. OverOK'
    <2> SUFFICES ASSUME NEW r \in 1 .. runs', Over(r)'
                 PROVE  Closed(tables', r, skipped') /\ Closed(disk', r, skipped')
        BY DEF OverOK
    <2>1. CASE r = job[c].run
          BY <2>1 DEF Own, Over
    <2>2. CASE r # job[c].run
      <3>1. Over(r)
            BY <1>1, <2>2 DEF Over, Frame
      <3>2. Closed(tables, r, skipped) /\ Closed(disk, r, skipped)
            BY <3>1 DEF OverOK, Over
      <3>3. r \in skipped' <=> r \in skipped
            BY <2>2 DEF Frame
      <3>4. Closed(tables', r, skipped') /\ Closed(tables, r, skipped')
            BY <1>2, <2>2, <3>2, <3>3 DEF Closed
      <3>5. Closed(disk, r, skipped')
            BY <3>2, <3>3 DEF Closed
      <3>6. QED
            BY <3>4, <3>5 DEF Frame
    <2>3. QED
          BY <2>1, <2>2
  <1>7. QED
        BY <1>4, <1>5, <1>6

\* A run keeps its caller, and rows stay behind the counter.
LEMMA FrameRuns ==
    ASSUME TypeOK, RunsOK, NEW c \in Callers, pc[c] # "idle", Frame(c), Own(c),
           pc'[c] \in {"record", "recordCommit"} => job'[c].verdict # "none",
           job'[c].count <= Cardinality(Items)
    PROVE  RunsOK'
  <1>1. job[c].run \in 1 .. runs /\ runs' = runs
        BY DEF RunsOK, Frame
  <1>2. \A d \in Callers : IF pc'[d] = "idle" THEN job'[d] = NoJob ELSE job'[d].run \in 1 .. runs'
        BY <1>1 DEF Own, Frame, RunsOK
  <1>3. ASSUME NEW d \in Callers, NEW e \in Callers, d # e, pc'[d] # "idle"
        PROVE  job'[d].run # job'[e].run
    <2>1. job'[d].run = job[d].run /\ pc[d] # "idle"
          BY <1>3 DEF Own, Frame
    <2>2. CASE job'[e].run = job[e].run
          BY <1>3, <2>1, <2>2 DEF RunsOK
    <2>3. CASE job'[e] = NoJob
      <3>1. job[d].run \in 1 .. runs
            BY <2>1 DEF RunsOK
      <3>2. job[d].run # 0
            BY <3>1 DEF TypeOK
      <3>3. QED
            BY <2>1, <2>3, <3>2 DEF NoJob
    <2>4. QED
          BY <2>2, <2>3 DEF Own, Frame
  <1>4. /\ \A h \in tables'.history : h[1] \in 1 .. runs'
        /\ \A q \in tables'.queue : q[1] \in 1 .. runs'
        BY <1>1 DEF Frame, Grows, RunsOK
  <1>5. disk'.history \subseteq tables'.history /\ disk'.queue \subseteq tables'.queue
        BY DEF Frame, Grows, RunsOK
  <1>6. \A d \in Callers : /\ pc'[d] \in {"record", "recordCommit"} => job'[d].verdict # "none"
                           /\ job'[d].count <= Cardinality(Items)
        BY DEF Frame, RunsOK
  <1>7. skipped' \subseteq 1 .. runs'
        BY <1>1 DEF Frame, RunsOK
  <1>8. \A d \in Callers : pc'[d] # "idle" => job'[d].run \notin skipped'
        BY DEF Own, Frame, RunsOK
  <1>9. QED
        BY <1>2, <1>3, <1>4, <1>5, <1>6, <1>7, <1>8 DEF RunsOK

\* The audit trail stays ahead.
LEMMA FrameAudit ==
    ASSUME AuditOK, NEW c \in Callers, Frame(c),
           \A q \in tables'.queue \ tables.queue :
               q[1] \in lost \/ \E h \in tables.history : h[1] = q[1] /\ h[2] = "success"
    PROVE  AuditOK'
  <1>1. lost \subseteq lost' /\ tables.history \subseteq tables'.history
        BY DEF Frame, Grows
  <1>2. \A q \in tables'.queue :
            q[1] \in lost \/ \E h \in tables.history : h[1] = q[1] /\ h[2] = "success"
        BY DEF AuditOK, Audited
  <1>3. \A q \in disk'.queue :
            q[1] \in lost \/ \E h \in disk'.history : h[1] = q[1] /\ h[2] = "success"
        BY DEF AuditOK, Audited, Frame
  <1>4. QED
        BY <1>1, <1>2, <1>3 DEF AuditOK, Audited

-----------------------------------------------------------------------------
(* One caller's steps *)

\* The four together.
LEMMA CallerKeeps ==
    ASSUME IInv, NEW c \in Callers, pc[c] # "idle", Frame(c), Own(c),
           pc'[c] \in {"record", "recordCommit"} => job'[c].verdict # "none",
           job'[c].count <= Cardinality(Items),
           \A q \in tables'.queue \ tables.queue :
               q[1] \in lost \/ \E h \in tables.history : h[1] = q[1] /\ h[2] = "success"
    PROVE  RunsOK' /\ StageOK' /\ CommittedOK' /\ OverOK' /\ AuditOK'
  BY FrameKeeps, FrameRuns, FrameAudit DEF IInv

\* A step that stores nothing is framed.
LEMMA SilentFrame ==
    ASSUME TypeOK, NEW c \in Callers, NEW from, NEW to, NEW j, Step(c, from, to, j), Silent
    PROVE  Frame(c) /\ tables'.queue \ tables.queue = {} /\ pc'[c] = to /\ job'[c] = j
  BY DEF TypeOK, Step, Goto, Silent, Frame, Grows

\* So is one that commits and stores nothing.
LEMMA CommitFrame ==
    ASSUME TypeOK, NEW c \in Callers, NEW from, NEW to, NEW j, Step(c, from, to, j),
           tables' = tables, disk' = tables, lost' = lost, skipped' = skipped
    PROVE  Frame(c) /\ tables'.queue \ tables.queue = {} /\ pc'[c] = to /\ job'[c] = j
  BY DEF TypeOK, Step, Goto, Frame, Grows

\* And one that ends an analysis and stores nothing.
LEMMA LeaveFrame ==
    ASSUME TypeOK, NEW c \in Callers, NEW from, Leave(c, from), tables' = tables,
           disk' = disk \/ disk' = tables, lost' = lost \/ lost' = lost \cup {job[c].run},
           skipped' = skipped \/ skipped' = skipped \cup {job[c].run}
    PROVE  /\ Frame(c) /\ tables'.queue \ tables.queue = {}
           /\ pc'[c] = "idle" /\ job'[c] = NoJob /\ pc[c] = from
  BY DEF TypeOK, Leave, Frame, Grows

\* What is known of the run of c.
LEMMA StageOf ==
    ASSUME StageOK, NEW c \in Callers, pc[c] # "idle", job[c].run \notin lost
    PROVE  Stage(pc[c], job[c], RowsOf(tables, job[c].run), ProposalsOf(tables, job[c].run))
  BY DEF StageOK, Known

\* The lock is entered, nothing is known of the run yet.
LEMMA EnterKeeps ==
    ASSUME IInv, NEW c \in Callers, Enter(c)
    PROVE  RunsOK' /\ StageOK' /\ CommittedOK' /\ OverOK' /\ AuditOK'
  <1> USE DEF IInv
  <1>1. /\ Frame(c) /\ tables' = tables /\ pc[c] = "wait" /\ pc'[c] = "load"
        /\ job'[c] = job[c] /\ lost' = lost /\ skipped' = skipped
        BY DEF Enter, Silent, TypeOK, Frame, Grows
  <1>2. Own(c)
        BY <1>1, StageOf DEF Own, Stage, Unrecorded
  <1>3. job'[c].count <= Cardinality(Items)
        BY <1>1 DEF RunsOK
  <1>4. QED
        BY <1>1, <1>2, <1>3, CallerKeeps

\* The run is over before anything is stored of it.
LEMMA LoadNothingKeeps ==
    ASSUME IInv, NEW c \in Callers, LoadNothing(c)
    PROVE  RunsOK' /\ StageOK' /\ CommittedOK' /\ OverOK' /\ AuditOK'
  <1> USE DEF IInv
  <1> DEFINE r == job[c].run
  <1>1. /\ Leave(c, "load") /\ tables' = tables /\ disk' = disk /\ lost' = lost
        /\ skipped' = skipped \cup {r}
        BY DEF LoadNothing
  <1>2. /\ Frame(c) /\ tables'.queue \ tables.queue = {}
        /\ pc'[c] = "idle" /\ job'[c] = NoJob /\ pc[c] = "load"
        BY <1>1, LeaveFrame
  <1>3. ASSUME r \notin lost
        PROVE  Closed(tables', r, skipped') /\ Closed(disk', r, skipped')
    <2>1. RowsOf(tables, r) = {} /\ ProposalsOf(tables, r) = {}
          BY <1>2, <1>3, StageOf DEF Stage, Unrecorded
    <2>2. RowsOf(disk, r) = {} /\ ProposalsOf(disk, r) = {}
          BY <2>1 DEF RunsOK, RowsOf, ProposalsOf
    <2>3. QED
          BY <1>1, <2>1, <2>2, FS_EmptySet DEF Closed
  <1>4. Own(c)
        BY <1>1, <1>2, <1>3 DEF Own
  <1>5. job'[c].count <= Cardinality(Items)
        BY <1>2, ItemsFinite, EngineAssumption DEF NoJob
  <1>6. QED
        BY <1>2, <1>4, <1>5, CallerKeeps

\* Up to the verdict nothing is stored.
LEMMA QuietKeeps ==
    ASSUME IInv, NEW c \in Callers, QuietStep(c)
    PROVE  RunsOK' /\ StageOK' /\ CommittedOK' /\ OverOK' /\ AuditOK'
  <1> USE DEF IInv
  <1>1. PICK to \in (Unrecorded \ {"wait"}) \cup {"record"}, j \in Job :
              /\ Step(c, pc[c], to, j)
              /\ Silent
              /\ pc[c] \in Unrecorded \ {"wait"}
              /\ j.run = job[c].run
              /\ j.count = job[c].count \/ j.count \in 0 .. Cardinality(Items)
              /\ to = "record" => /\ j.verdict # "none"
                                  /\ j.verdict = "success" => j.count = Cardinality(j.todo)
        BY QuietMoves
  <1>2. /\ Frame(c) /\ tables'.queue \ tables.queue = {} /\ pc'[c] = to /\ job'[c] = j
        /\ tables' = tables /\ lost' = lost /\ skipped' = skipped
        BY <1>1, SilentFrame DEF Silent
  <1>3. pc[c] # "idle" /\ to # "idle" /\ to \notin {"recordCommit", "enqueue", "enqueueCommit"}
        BY <1>1 DEF Unrecorded
  <1>4. ASSUME job[c].run \notin lost
        PROVE  Stage(to, j, RowsOf(tables, job[c].run), ProposalsOf(tables, job[c].run))
    <2>1. /\ IsFiniteSet(ProposalsOf(tables, job[c].run))
          /\ RowsOf(tables, job[c].run) = {} /\ ProposalsOf(tables, job[c].run) = {}
          BY <1>1, <1>3, <1>4, StageOf DEF Stage
    <2>2. QED
          BY <1>1, <1>3, <2>1 DEF Stage, AtRecord
  <1>5. Own(c)
        BY <1>1, <1>2, <1>3, <1>4 DEF Own
  <1>6. job'[c].count <= Cardinality(Items)
        BY <1>1, <1>2, ItemsFinite, EngineAssumption DEF RunsOK
  <1>7. QED
        BY <1>1, <1>2, <1>3, <1>5, <1>6, CallerKeeps

\* The row goes into the table.
LEMMA RecordKeeps ==
    ASSUME IInv, NEW c \in Callers, Record(c)
    PROVE  RunsOK' /\ StageOK' /\ CommittedOK' /\ OverOK' /\ AuditOK'
  <1> USE DEF IInv
  <1> DEFINE r == job[c].run
             row == HistoryRow(job[c])
  <1>1. /\ pc[c] = "record" /\ pc'[c] = "recordCommit" /\ job'[c] = job[c]
        /\ \A d \in Callers : d # c => pc'[d] = pc[d] /\ job'[d] = job[d]
        /\ disk' = disk /\ lost' = lost /\ skipped' = skipped /\ runs' = runs
        BY DEF Record, Step, Goto, TypeOK
  <1>2. tables'.history = tables.history \cup {row} /\ tables'.queue = tables.queue
        BY AddRow DEF Record, TypeOK
  <1>3. row[1] = r
        BY DEF HistoryRow
  <1>4. Frame(c)
        BY <1>1, <1>2, <1>3 DEF Frame, Grows
  <1>5. /\ RowsOf(tables', r) = RowsOf(tables, r) \cup {row}
        /\ ProposalsOf(tables', r) = ProposalsOf(tables, r)
        BY <1>2, <1>3 DEF RowsOf, ProposalsOf
  <1>6. job[c].verdict \in {"success", "error", "timeout"} /\ job[c].verdict # "none"
        BY <1>1 DEF RunsOK, TypeOK, Job
  <1>7. ASSUME r \notin lost
        PROVE  Stage("recordCommit", job[c], RowsOf(tables', r), ProposalsOf(tables', r))
    <2> DEFINE rows == RowsOf(tables, r)
               props == ProposalsOf(tables, r)
    <2>1. IsFiniteSet(props) /\ AtRecord(job[c], rows, props)
          BY <1>1, <1>7, StageOf DEF Stage
    <2>2. AtCommit(job[c], rows \cup {row}, props)
      <3>1. CASE rows = {} /\ props = {} /\ job[c].verdict = "success"
            BY <2>1, <3>1 DEF AtRecord, AtCommit, HistoryRow
      <3>2. CASE rows = {} /\ props = {} /\ job[c].verdict # "success"
        <4>1. Cardinality(props) = 0
              BY <3>2, FS_EmptySet
        <4>2. row = <<r, job[c].verdict, 0>> /\ rows \cup {row} = {row}
              BY <3>2 DEF HistoryRow
        <4>3. QED
              BY <1>6, <3>2, <4>1, <4>2 DEF AtCommit, Outcome
      <3>3. ASSUME NEW n \in (Cardinality(props) + 1) .. Cardinality(Items),
                   job[c].verdict = "error", rows = {<<r, "success", n>>}
            PROVE  AtCommit(job[c], rows \cup {row}, props)
        <4>1. row = <<r, "error", 0>>
              BY <3>3 DEF HistoryRow
        <4>2. rows \cup {row} = {<<r, "success", n>>, <<r, "error", 0>>}
              BY <3>3, <4>1
        <4>3. QED
              BY <3>3, <4>2 DEF AtCommit, Outcome
      <3>4. QED
            BY <2>1, <3>1, <3>2, <3>3 DEF AtRecord
    <2>3. QED
          BY <1>5, <2>1, <2>2 DEF Stage, Unrecorded
  <1>8. Own(c)
        BY <1>1, <1>7 DEF Own
  <1>9. job'[c].count <= Cardinality(Items)
        BY <1>1 DEF RunsOK
  <1>10. QED
         BY <1>1, <1>2, <1>4, <1>6, <1>8, <1>9, CallerKeeps

\* The row is committed; the proposals follow, or the run is over.
LEMMA RecordCommitKeeps ==
    ASSUME IInv, NEW c \in Callers, RecordCommit(c)
    PROVE  RunsOK' /\ StageOK' /\ CommittedOK' /\ OverOK' /\ AuditOK'
  <1> USE DEF IInv
  <1> DEFINE r == job[c].run
             rows == RowsOf(tables, r)
             props == ProposalsOf(tables, r)
  <1>1. tables' = tables /\ disk' = tables /\ lost' = lost /\ skipped' = skipped
        BY DEF RecordCommit
  <1>2. CASE job[c].verdict = "success"
    <2>1. Step(c, "recordCommit", "enqueue", job[c])
          BY <1>2 DEF RecordCommit, AfterRecord
    <2>2. Frame(c) /\ tables'.queue \ tables.queue = {} /\ pc'[c] = "enqueue" /\ job'[c] = job[c]
          BY <1>1, <2>1, CommitFrame
    <2>3. pc[c] = "recordCommit"
          BY <2>1 DEF Step, Goto
    <2>4. ASSUME r \notin lost
          PROVE  Stage("enqueue", job[c], rows, props)
      <3>1. IsFiniteSet(props) /\ AtCommit(job[c], rows, props)
            BY <2>3, <2>4, StageOf DEF Stage
      <3>2. /\ rows = {<<job[c].run, "success", job[c].count>>} /\ props = {}
            /\ job[c].count = Cardinality(job[c].todo)
            BY <1>2, <3>1 DEF AtCommit
      <3>3. Cardinality(props) = 0 /\ Cardinality(job[c].todo) \in Nat
            BY <3>2, FS_EmptySet, ItemsFinite DEF TypeOK, Job
      <3>4. Enqueuing(job[c], rows, props)
            BY <3>2, <3>3 DEF Enqueuing
      <3>5. QED
            BY <3>1, <3>4 DEF Stage, Unrecorded
    <2>5. Own(c)
          BY <1>1, <2>2, <2>4 DEF Own
    <2>6. job'[c].count <= Cardinality(Items)
          BY <2>2 DEF RunsOK
    <2>7. QED
          BY <2>2, <2>3, <2>5, <2>6, CallerKeeps
  <1>3. CASE job[c].verdict # "success"
    <2>1. Leave(c, "recordCommit")
          BY <1>3 DEF RecordCommit, AfterRecord
    <2>2. /\ Frame(c) /\ tables'.queue \ tables.queue = {}
          /\ pc'[c] = "idle" /\ job'[c] = NoJob /\ pc[c] = "recordCommit"
          BY <1>1, <2>1, LeaveFrame
    <2>3. ASSUME r \notin lost
          PROVE  Closed(tables, r, skipped)
      <3>1. Outcome(r, rows, Cardinality(props))
            BY <1>3, <2>2, <2>3, StageOf DEF Stage, AtCommit
      <3>2. r \notin skipped
            BY <2>2 DEF RunsOK
      <3>3. QED
            BY <3>1, <3>2 DEF Closed
    <2>4. Own(c)
          BY <1>1, <2>2, <2>3 DEF Own
    <2>5. job'[c].count <= Cardinality(Items)
          BY <2>2, ItemsFinite, EngineAssumption DEF NoJob
    <2>6. QED
          BY <2>2, <2>4, <2>5, CallerKeeps
  <1>4. QED
        BY <1>2, <1>3

\* The run is noted as lost.
LEMMA RecordFailsKeeps ==
    ASSUME IInv, NEW c \in Callers, RecordFails(c)
    PROVE  RunsOK' /\ StageOK' /\ CommittedOK' /\ OverOK' /\ AuditOK'
  <1> USE DEF IInv
  <1>1. tables' = tables /\ disk' = disk /\ lost' = lost \cup {job[c].run} /\ skipped' = skipped
        /\ runs' = runs
        BY DEF RecordFails, AfterRecord, Step, Leave
  <1>2. CASE job[c].verdict = "success"
    <2>1. Step(c, "record", "enqueue", job[c])
          BY <1>2 DEF RecordFails, AfterRecord
    <2>2. /\ pc[c] = "record" /\ pc'[c] = "enqueue" /\ job'[c] = job[c]
          /\ \A d \in Callers : d # c => pc'[d] = pc[d] /\ job'[d] = job[d]
          BY <2>1 DEF Step, Goto, TypeOK
    <2>3. Frame(c)
          BY <1>1, <2>2 DEF Frame, Grows
    <2>4. Own(c)
          BY <1>1, <2>2 DEF Own
    <2>5. job'[c].count <= Cardinality(Items)
          BY <2>2 DEF RunsOK
    <2>6. QED
          BY <1>1, <2>2, <2>3, <2>4, <2>5, CallerKeeps
  <1>3. CASE job[c].verdict # "success"
    <2>1. Leave(c, "record")
          BY <1>3 DEF RecordFails, AfterRecord
    <2>2. /\ Frame(c) /\ tables'.queue \ tables.queue = {}
          /\ pc'[c] = "idle" /\ job'[c] = NoJob /\ pc[c] = "record"
          BY <1>1, <2>1, LeaveFrame
    <2>3. Own(c)
          BY <1>1, <2>2 DEF Own
    <2>4. job'[c].count <= Cardinality(Items)
          BY <2>2, ItemsFinite, EngineAssumption DEF NoJob
    <2>5. QED
          BY <2>2, <2>3, <2>4, CallerKeeps
  <1>4. QED
        BY <1>2, <1>3

\* One proposal more in the table, one less to do.
LEMMA EnqueueKeeps ==
    ASSUME IInv, NEW c \in Callers, NEW i \in Items, Enqueue(c, i)
    PROVE  RunsOK' /\ StageOK' /\ CommittedOK' /\ OverOK' /\ AuditOK'
  <1> USE DEF IInv
  <1> DEFINE r == job[c].run
             j == [job[c] EXCEPT !.todo = @ \ {i}]
             q == Proposal(c, i)
             rows == RowsOf(tables, r)
             props == ProposalsOf(tables, r)
  <1>1. /\ pc[c] = "enqueue" /\ pc'[c] = "enqueueCommit" /\ job'[c] = j
        /\ \A d \in Callers : d # c => pc'[d] = pc[d] /\ job'[d] = job[d]
        /\ disk' = disk /\ lost' = lost /\ skipped' = skipped /\ runs' = runs
        /\ i \in job[c].todo
        BY DEF Enqueue, Step, Goto, TypeOK
  <1>2. tables'.queue = tables.queue \cup {q} /\ tables'.history = tables.history
        BY AddRow DEF Enqueue, TypeOK
  <1>3. q[1] = r /\ q[2] = i
        BY DEF Proposal
  <1>4. job[c] \in Job /\ j.run = r /\ j.count = job[c].count /\ j.verdict = job[c].verdict
        /\ j.todo = job[c].todo \ {i}
        BY DEF TypeOK, Job
  <1>5. Frame(c)
        BY <1>1, <1>2, <1>3 DEF Frame, Grows
  <1>6. RowsOf(tables', r) = rows /\ ProposalsOf(tables', r) = props \cup {q}
        BY <1>2, <1>3 DEF RowsOf, ProposalsOf
  <1>7. ASSUME r \notin lost
        PROVE  Stage("enqueueCommit", j, rows, props \cup {q}) /\ rows = {<<r, "success", job[c].count>>}
    <2>1. IsFiniteSet(props) /\ Enqueuing(job[c], rows, props)
          BY <1>1, <1>7, StageOf DEF Stage
    <2>2. /\ rows = {<<r, "success", job[c].count>>}
          /\ \A p \in props : p[2] \notin job[c].todo
          /\ Cardinality(props) + Cardinality(job[c].todo) = job[c].count
          BY <2>1 DEF Enqueuing
    <2>3. q \notin props
          BY <1>1, <1>3, <2>2
    <2>4. IsFiniteSet(props \cup {q}) /\ Cardinality(props \cup {q}) = Cardinality(props) + 1
          BY <2>1, <2>3, FS_AddElement
    <2>5. IsFiniteSet(job[c].todo)
          BY <1>4, ItemsFinite DEF Job
    <2>6. Cardinality(j.todo) = Cardinality(job[c].todo) - 1
          BY <1>1, <1>4, <2>5, FS_RemoveElement
    <2>7. Cardinality(props) \in Nat /\ Cardinality(job[c].todo) \in Nat
          BY <2>1, <2>5, FS_CardinalityType
    <2>8. Cardinality(props \cup {q}) + Cardinality(j.todo) = j.count
          BY <1>4, <2>2, <2>4, <2>6, <2>7
    <2>9. \A p \in props \cup {q} : p[2] \notin j.todo
          BY <1>3, <1>4, <2>2
    <2>10. Enqueuing(j, rows, props \cup {q})
           BY <1>4, <2>2, <2>8, <2>9 DEF Enqueuing
    <2>11. QED
           BY <2>2, <2>4, <2>10 DEF Stage, Unrecorded
  <1>8. Own(c)
        BY <1>1, <1>4, <1>6, <1>7 DEF Own
  <1>9. ASSUME r \notin lost
        PROVE  \E h \in tables.history : h[1] = r /\ h[2] = "success"
    <2>1. <<r, "success", job[c].count>> \in rows
          BY <1>7, <1>9
    <2>2. QED
          BY <2>1 DEF RowsOf
  <1>10. job'[c].count <= Cardinality(Items)
         BY <1>1, <1>4 DEF RunsOK
  <1>11. QED
         BY <1>1, <1>2, <1>3, <1>5, <1>8, <1>9, <1>10, CallerKeeps

\* Some proposals of a recorded success are missing.
LEMMA EnqueueFailsKeeps ==
    ASSUME IInv, NEW c \in Callers, NEW i \in Items, EnqueueFails(c, i)
    PROVE  RunsOK' /\ StageOK' /\ CommittedOK' /\ OverOK' /\ AuditOK'
  <1> USE DEF IInv
  <1> DEFINE r == job[c].run
             j == [job[c] EXCEPT !.todo = {}, !.verdict = "error"]
             rows == RowsOf(tables, r)
             props == ProposalsOf(tables, r)
  <1>1. Step(c, "enqueue", "record", j) /\ Silent /\ i \in job[c].todo
        BY DEF EnqueueFails
  <1>2. /\ Frame(c) /\ tables'.queue \ tables.queue = {} /\ pc'[c] = "record" /\ job'[c] = j
        /\ tables' = tables /\ lost' = lost /\ skipped' = skipped /\ pc[c] = "enqueue"
        BY <1>1, SilentFrame DEF Silent, Step, Goto
  <1>3. job[c] \in Job /\ j.run = r /\ j.count = job[c].count /\ j.verdict = "error"
        BY DEF TypeOK, Job
  <1>4. ASSUME r \notin lost
        PROVE  Stage("record", j, rows, props)
    <2>1. IsFiniteSet(props) /\ Enqueuing(job[c], rows, props)
          BY <1>2, <1>4, StageOf DEF Stage
    <2>2. /\ rows = {<<r, "success", job[c].count>>}
          /\ Cardinality(props) + Cardinality(job[c].todo) = job[c].count
          BY <2>1 DEF Enqueuing
    <2>3. IsFiniteSet(job[c].todo)
          BY <1>3, ItemsFinite DEF Job
    <2>4. Cardinality(job[c].todo \ {i}) = Cardinality(job[c].todo) - 1
          BY <1>1, <2>3, FS_RemoveElement
    <2>5. Cardinality(props) \in Nat /\ Cardinality(job[c].todo) \in Nat
          /\ Cardinality(job[c].todo \ {i}) \in Nat
          BY <2>1, <2>3, FS_CardinalityType, FS_RemoveElement
    <2>6. job[c].count <= Cardinality(Items) /\ Cardinality(Items) \in Nat
          BY EngineAssumption, FS_CardinalityType DEF RunsOK
    <2>7. job[c].count \in (Cardinality(props) + 1) .. Cardinality(Items)
          BY <2>2, <2>4, <2>5, <2>6
    <2>8. AtRecord(j, rows, props)
          BY <1>3, <2>2, <2>7 DEF AtRecord
    <2>9. QED
          BY <2>1, <2>8 DEF Stage, Unrecorded
  <1>5. Own(c)
        BY <1>2, <1>3, <1>4 DEF Own
  <1>6. job'[c].count <= Cardinality(Items)
        BY <1>2, <1>3 DEF RunsOK
  <1>7. QED
        BY <1>2, <1>3, <1>5, <1>6, CallerKeeps

\* What was enqueued is committed.
LEMMA EnqueueCommitKeeps ==
    ASSUME IInv, NEW c \in Callers, EnqueueCommit(c)
    PROVE  RunsOK' /\ StageOK' /\ CommittedOK' /\ OverOK' /\ AuditOK'
  <1> USE DEF IInv
  <1>1. Step(c, "enqueueCommit", "enqueue", job[c]) /\ tables' = tables /\ disk' = tables
        /\ lost' = lost /\ skipped' = skipped
        BY DEF EnqueueCommit
  <1>2. /\ Frame(c) /\ tables'.queue \ tables.queue = {} /\ pc'[c] = "enqueue"
        /\ job'[c] = job[c] /\ pc[c] = "enqueueCommit"
        BY <1>1, CommitFrame DEF Step, Goto
  <1>3. ASSUME job[c].run \notin lost
        PROVE  Stage("enqueue", job[c], RowsOf(tables, job[c].run), ProposalsOf(tables, job[c].run))
        BY <1>2, <1>3, StageOf DEF Stage, Unrecorded
  <1>4. Own(c)
        BY <1>1, <1>2, <1>3 DEF Own
  <1>5. job'[c].count <= Cardinality(Items)
        BY <1>2 DEF RunsOK
  <1>6. QED
        BY <1>2, <1>4, <1>5, CallerKeeps

\* The run is over: as many proposals as its row says, on disk.
LEMMA FinishKeeps ==
    ASSUME IInv, NEW c \in Callers, Finish(c)
    PROVE  RunsOK' /\ StageOK' /\ CommittedOK' /\ OverOK' /\ AuditOK'
  <1> USE DEF IInv
  <1> DEFINE r == job[c].run
             rows == RowsOf(tables, r)
             props == ProposalsOf(tables, r)
  <1>1. Leave(c, "enqueue") /\ tables' = tables /\ disk' = disk /\ lost' = lost /\ skipped' = skipped
        /\ job[c].todo = {}
        BY DEF Finish, Silent
  <1>2. /\ Frame(c) /\ tables'.queue \ tables.queue = {}
        /\ pc'[c] = "idle" /\ job'[c] = NoJob /\ pc[c] = "enqueue"
        BY <1>1, LeaveFrame
  <1>3. ASSUME r \notin lost
        PROVE  Closed(tables, r, skipped) /\ Closed(disk, r, skipped)
    <2>1. IsFiniteSet(props) /\ Enqueuing(job[c], rows, props)
          BY <1>2, <1>3, StageOf DEF Stage
    <2>2. Cardinality(job[c].todo) = 0 /\ Cardinality(props) \in Nat
          BY <1>1, <2>1, FS_EmptySet, FS_CardinalityType
    <2>3. rows = {<<r, "success", Cardinality(props)>>}
          BY <2>1, <2>2 DEF Enqueuing
    <2>4. r \notin skipped
          BY <1>2 DEF RunsOK
    <2>c. Closed(tables, r, skipped)
          BY <2>3, <2>4 DEF Closed, Outcome
    <2>5. RowsOf(disk, r) = rows /\ ProposalsOf(disk, r) = props
          BY <1>2, <1>3 DEF CommittedOK, Known
    <2>6. QED
          BY <2>c, <2>5 DEF Closed
  <1>4. Own(c)
        BY <1>1, <1>2, <1>3 DEF Own
  <1>5. job'[c].count <= Cardinality(Items)
        BY <1>2, ItemsFinite, EngineAssumption DEF NoJob
  <1>6. QED
        BY <1>2, <1>4, <1>5, CallerKeeps

-----------------------------------------------------------------------------
(* All steps *)

\* Nothing has happened yet.
LEMMA InitInv == Init => IInv
  <1> SUFFICES ASSUME Init PROVE IInv
      OBVIOUS
  <1>1. \A c \in Callers : pc[c] = "idle" /\ job[c] = NoJob
        BY DEF Init
  <1>2. 0 <= Cardinality(Items)
        BY EngineAssumption, FS_CardinalityType
  <1>3. RunsOK
        BY <1>1, <1>2 DEF Init, RunsOK, NoJob
  <1>4. StageOK /\ CommittedOK /\ OverOK /\ AuditOK
        BY <1>1 DEF Init, StageOK, CommittedOK, OverOK, AuditOK, Audited, Known
  <1>5. QED
        BY <1>3, <1>4, InitTypes DEF IInv

\* A new run gets a number no row has.
LEMMA TriggerKeeps ==
    ASSUME IInv, NEW c \in Callers, Trigger(c)
    PROVE  RunsOK' /\ StageOK' /\ CommittedOK' /\ OverOK' /\ AuditOK'
  <1> USE DEF IInv
  <1> DEFINE j == [NoJob EXCEPT !.run = runs + 1]
  <1>1. /\ runs' = runs + 1 /\ runs \in Nat
        /\ pc[c] = "idle" /\ pc'[c] = "wait" /\ job'[c] = j
        /\ \A d \in Callers : d # c => pc'[d] = pc[d] /\ job'[d] = job[d]
        /\ tables' = tables /\ disk' = disk /\ lost' = lost /\ skipped' = skipped
        BY DEF Trigger, Goto, Silent, TypeOK
  <1>2. j.run = runs + 1 /\ j.count = 0 /\ j.verdict = "none"
        BY DEF NoJob
  <1> HIDE DEF j
  <1>3. 0 <= Cardinality(Items)
        BY EngineAssumption, FS_CardinalityType
  <1>4. \A d \in Callers : job[d].run # runs + 1
        BY <1>1 DEF RunsOK, NoJob
  <1>5. RunsOK'
    <2>1. \A d \in Callers : IF pc'[d] = "idle" THEN job'[d] = NoJob
                             ELSE job'[d].run \in 1 .. runs'
          BY <1>1, <1>2 DEF RunsOK
    <2>2. \A d, e \in Callers : d # e /\ pc'[d] # "idle" => job'[d].run # job'[e].run
          BY <1>1, <1>2, <1>4 DEF RunsOK
    <2>3. /\ \A h \in tables'.history : h[1] \in 1 .. runs'
          /\ \A q \in tables'.queue : q[1] \in 1 .. runs'
          BY <1>1 DEF RunsOK
    <2>4. \A d \in Callers : /\ pc'[d] \in {"record", "recordCommit"} => job'[d].verdict # "none"
                             /\ job'[d].count <= Cardinality(Items)
          BY <1>1, <1>2, <1>3 DEF RunsOK
    <2>5. disk'.history \subseteq tables'.history /\ disk'.queue \subseteq tables'.queue
          BY <1>1 DEF RunsOK
    <2>6. skipped' \subseteq 1 .. runs'
          BY <1>1 DEF RunsOK
    <2>7. \A d \in Callers : pc'[d] # "idle" => job'[d].run \notin skipped'
          BY <1>1, <1>2 DEF RunsOK
    <2>8. QED
          BY <2>1, <2>2, <2>3, <2>4, <2>5, <2>6, <2>7 DEF RunsOK
  <1>6. RowsOf(tables, runs + 1) = {} /\ ProposalsOf(tables, runs + 1) = {}
        BY <1>1 DEF RunsOK, RowsOf, ProposalsOf
  <1>7. Stage("wait", j, RowsOf(tables, j.run), ProposalsOf(tables, j.run))
        BY <1>2, <1>6, FS_EmptySet DEF Stage, Unrecorded
  <1>8. StageOK'
    <2> SUFFICES ASSUME NEW d \in Callers, Known(d)'
                 PROVE  Stage(pc'[d], job'[d], RowsOf(tables', job'[d].run),
                              ProposalsOf(tables', job'[d].run))
        BY DEF StageOK
    <2>1. CASE d = c
          BY <1>1, <1>7, <2>1
    <2>2. CASE d # c
          BY <1>1, <2>2 DEF Known, StageOK
    <2>3. QED
          BY <2>1, <2>2
  <1>9. CommittedOK'
        BY <1>1 DEF CommittedOK, Known
  <1>10. OverOK'
    <2> SUFFICES ASSUME NEW r \in 1 .. runs', Over(r)'
                 PROVE  Closed(tables', r, skipped') /\ Closed(disk', r, skipped')
        BY DEF OverOK
    <2>0. job'[c].run # r
          BY DEF Over
    <2>1. r # runs + 1 /\ r \in 1 .. runs
          BY <1>1, <1>2, <2>0
    <2>2. \A d \in Callers : job[d].run # r
      <3>1. ASSUME NEW d \in Callers, d # c
            PROVE  job[d].run # r
            BY <1>1, <3>1 DEF Over
      <3>2. job[c].run # r
            BY <1>1, <2>1 DEF RunsOK, NoJob
      <3>3. QED
            BY <3>1, <3>2
    <2>3. Over(r)
          BY <1>1, <2>1, <2>2 DEF Over
    <2>4. QED
          BY <1>1, <2>1, <2>3 DEF OverOK
  <1>11. AuditOK'
         BY <1>1 DEF AuditOK, Audited
  <1>12. QED
         BY <1>5, <1>8, <1>9, <1>10, <1>11

\* A commit by anybody brings the disk up to the tables.
LEMMA CommitKeeps ==
    ASSUME IInv, disk' = tables, UNCHANGED <<pc, job, tables, runs, lost, skipped>>
    PROVE  RunsOK' /\ StageOK' /\ CommittedOK' /\ OverOK' /\ AuditOK'
  <1> USE DEF IInv
  <1>1. RunsOK'
        BY DEF RunsOK
  <1>2. StageOK' /\ CommittedOK'
        BY DEF StageOK, CommittedOK, Known
  <1>3. OverOK'
        BY DEF OverOK, Over
  <1>4. AuditOK'
        BY DEF AuditOK, Audited
  <1>5. QED
        BY <1>1, <1>2, <1>3, <1>4

\* A restart loses the runs that are not over and keeps what is on disk.
LEMMA RestartKeeps ==
    ASSUME IInv, Restart
    PROVE  RunsOK' /\ StageOK' /\ CommittedOK' /\ OverOK' /\ AuditOK'
  <1> USE DEF IInv
  <1>1. /\ \A c \in Callers : pc'[c] = "idle" /\ job'[c] = NoJob
        /\ tables' = disk /\ disk' = disk /\ runs' = runs /\ skipped' = skipped
        /\ lost' = lost \cup {job[c].run : c \in {d \in Callers : pc[d] # "idle"}}
        BY DEF Restart
  <1>2. 0 <= Cardinality(Items)
        BY EngineAssumption, FS_CardinalityType
  <1>3. RunsOK'
        BY <1>1, <1>2 DEF RunsOK, NoJob
  <1>4. StageOK' /\ CommittedOK'
        BY <1>1 DEF StageOK, CommittedOK, Known
  <1>5. OverOK'
    <2> SUFFICES ASSUME NEW r \in 1 .. runs', Over(r)'
                 PROVE  Closed(tables', r, skipped') /\ Closed(disk', r, skipped')
        BY DEF OverOK
    <2>1. r \in 1 .. runs /\ r \notin lost /\ r # 0
          BY <1>1 DEF Over, TypeOK
    <2>2. ASSUME NEW c \in Callers
          PROVE  job[c].run # r
      <3>1. CASE pc[c] = "idle"
            BY <2>1, <3>1 DEF RunsOK, NoJob
      <3>2. CASE pc[c] # "idle"
        <4>1. job[c].run \in lost'
              BY <1>1, <3>2
        <4>2. r \notin lost'
              BY DEF Over
        <4>3. QED
              BY <4>1, <4>2
      <3>3. QED
            BY <3>1, <3>2
    <2>3. Over(r)
          BY <2>1, <2>2 DEF Over
    <2>4. QED
          BY <1>1, <2>1, <2>3 DEF OverOK
  <1>6. AuditOK'
        BY <1>1 DEF AuditOK, Audited
  <1>7. QED
        BY <1>3, <1>4, <1>5, <1>6

\* Every step keeps the rest of the inductive invariant.
LEMMA StepRuns ==
    ASSUME IInv, [Next]_vars
    PROVE  RunsOK' /\ StageOK' /\ CommittedOK' /\ OverOK' /\ AuditOK'
  <1> DEFINE Goal == RunsOK' /\ StageOK' /\ CommittedOK' /\ OverOK' /\ AuditOK'
  <1>1. ASSUME NEW c \in Callers, OwnStep(c) \/ Answer(c) \/ AnswerUnusable(c)
        PROVE  Goal
    <2>1. CASE QuietStep(c)
          BY <2>1, QuietKeeps
    <2>2. CASE RecordStep(c)
          BY <2>2, RecordKeeps, RecordCommitKeeps, RecordFailsKeeps DEF RecordStep
    <2>3. ASSUME NEW i \in Items, Enqueue(c, i) \/ EnqueueFails(c, i)
          PROVE  Goal
          BY <2>3, EnqueueKeeps, EnqueueFailsKeeps
    <2>4. CASE EnqueueCommit(c) \/ Finish(c) \/ LoadNothing(c)
          BY <2>4, EnqueueCommitKeeps, FinishKeeps, LoadNothingKeeps
    <2>5. QED
          BY <1>1, <2>1, <2>2, <2>3, <2>4 DEF OwnStep, QuietStep, RecordStep
  <1>2. ASSUME NEW c \in Callers, Trigger(c) \/ Enter(c)
        PROVE  Goal
        BY <1>2, TriggerKeeps, EnterKeeps
  <1>3. ASSUME NEW w \in Whitelists, SetWhitelist(w)
        PROVE  Goal
        BY <1>3, CommitKeeps DEF SetWhitelist
  <1>4. CASE SomeoneCommits
        BY <1>4, CommitKeeps DEF SomeoneCommits
  <1>5. CASE Restart
        BY <1>5, RestartKeeps
  <1>6. CASE UNCHANGED vars
    <2>1. UNCHANGED <<pc, job, tables, disk, runs, lost, skipped>>
          BY <1>6 DEF vars
    <2>2. QED
          BY <2>1 DEF IInv, RunsOK, StageOK, CommittedOK, OverOK, AuditOK, Known, Over, Audited
  <1>7. QED
        BY <1>1, <1>2, <1>3, <1>4, <1>5, <1>6 DEF Next

-----------------------------------------------------------------------------
(* Theorems *)

\* The inductive invariant is an invariant.
THEOREM Invariant == Spec => []IInv
  <1>1. IInv /\ [Next]_vars => IInv'
        BY StepTypes, StepRuns DEF IInv
  <1>2. QED
        BY <1>1, InitInv, PTL DEF Spec

\* Every variable has its type, and one caller at a time is in an analysis.
THEOREM TypeCorrect == Spec => []TypeOK
  <1>1. IInv => TypeOK
        BY DEF IInv
  <1>2. QED
        BY <1>1, Invariant, PTL

\* A proposal on disk has the success row of its run there, unless storing the row failed.
THEOREM AuditFirst == Spec => []ProposalsAudited
  <1>1. IInv => ProposalsAudited
    <2> SUFFICES ASSUME IInv, NEW q \in disk.queue, q[1] \notin lost
                 PROVE  <<q[1], "success">> \in {<<h[1], h[2]>> : h \in disk.history}
        BY DEF ProposalsAudited
    <2>1. PICK h \in disk.history : h[1] = q[1] /\ h[2] = "success"
          BY DEF IInv, AuditOK, Audited
    <2>2. QED
          BY <2>1
  <1>2. QED
        BY <1>1, Invariant, PTL

\* What a run that is over has left on disk adds up.
THEOREM RunsAddUp == Spec => []RunsAccounted
  <1>1. IInv => RunsAccounted
    <2> SUFFICES ASSUME IInv, NEW r \in 1 .. MaxRuns, Over(r)
                 PROVE  Closed(disk, r, skipped)
        BY DEF RunsAccounted, Closed, Outcome, RowsOf
    <2>1. r \in 1 .. runs
          BY DEF Over
    <2>2. QED
          BY <2>1 DEF IInv, OverOK
  <1>2. QED
        BY <1>1, Invariant, PTL

-----------------------------------------------------------------------------
(* The audit trail: what it needs beyond IInv *)

Failing(c) == pc[c] = "recordCommit" /\ job[c].verdict # "success"

\* A run is lost at its record at the earliest, and then only an error is recorded of it;
\* until that row is written none of its rows says that it failed.
LossOK(c) ==
    /\ pc[c] \in Unrecorded => job[c].run \notin lost
    /\ pc[c] \in {"record", "recordCommit"} /\ job[c].run \in lost => job[c].verdict = "error"
    /\ pc[c] # "idle" /\ ~Failing(c) =>
           \A h \in tables.history : h[1] = job[c].run => h[2] = "success"

\* All that can be missing on disk is what the caller in the lock has just written.
PendingRow(c) ==
    /\ pc[c] = "recordCommit"
    /\ tables.queue = disk.queue
    /\ tables.history = disk.history \cup {HistoryRow(job[c])}

PendingProposal(c) ==
    /\ pc[c] = "enqueueCommit"
    /\ tables.history = disk.history
    /\ \E q \in tables.queue : q[1] = job[c].run /\ tables.queue = disk.queue \cup {q}

OnePending == tables = disk \/ \E c \in Callers : PendingRow(c) \/ PendingProposal(c)

TrailInv ==
    /\ lost \subseteq 1 .. runs
    /\ \A c \in Callers : LossOK(c)
    /\ OnePending
    /\ IsFiniteSet(tables.queue)

\* Nothing is pending while the caller in the lock is not before a commit.
LEMMA NothingPending ==
    ASSUME IInv, TrailInv, NEW c \in Callers,
           pc[c] \notin {"idle", "wait", "recordCommit", "enqueueCommit"}
    PROVE  tables = disk
  <1>1. holder = c
        BY DEF IInv, TypeOK
  <1>2. \A d \in Callers : PendingRow(d) \/ PendingProposal(d) => holder = d
        BY DEF IInv, TypeOK, PendingRow, PendingProposal
  <1>3. \A d \in Callers : PendingRow(d) \/ PendingProposal(d) => pc[d] # pc[c]
        BY DEF PendingRow, PendingProposal
  <1>4. QED
        BY <1>1, <1>2, <1>3 DEF TrailInv, OnePending

\* A step of c leaves what is known of the other runs.
LEMMA CallerTrail ==
    ASSUME IInv, TrailInv, NEW c \in Callers, pc[c] # "idle", Frame(c),
           LossOK(c)', OnePending', IsFiniteSet(tables'.queue)
    PROVE  TrailInv'
  <1> USE DEF IInv
  <1>1. job[c].run \in 1 .. runs
        BY DEF RunsOK
  <1>2. lost' \subseteq 1 .. runs'
        BY <1>1 DEF Frame, TrailInv
  <1>3. ASSUME NEW d \in Callers, d # c
        PROVE  LossOK(d)'
    <2>1. pc'[d] = pc[d] /\ job'[d] = job[d] /\ LossOK(d)
          BY <1>3 DEF Frame, TrailInv
    <2>2. CASE pc[d] = "idle"
          BY <2>1, <2>2 DEF LossOK, Unrecorded
    <2>3. CASE pc[d] # "idle"
      <3>1. job[d].run # job[c].run
            BY <1>3, <2>3 DEF RunsOK
      <3>2. job[d].run \in lost' => job[d].run \in lost
            BY <3>1 DEF Frame
      <3>3. \A h \in tables'.history : h[1] = job[d].run => h \in tables.history
            BY <3>1 DEF Frame, Grows
      <3>4. QED
            BY <2>1, <3>2, <3>3 DEF LossOK, Failing
    <2>4. QED
          BY <2>2, <2>3
  <1>4. QED
        BY <1>2, <1>3 DEF TrailInv

\* Up to the verdict, and where proposals are missing or none are left, nothing is stored.
LEMMA SilentTrail ==
    ASSUME IInv, TrailInv, NEW c \in Callers,
           pc[c] \notin {"idle", "wait", "recordCommit", "enqueueCommit"},
           Frame(c), LossOK(c)', tables' = tables, disk' = disk
    PROVE  TrailInv'
  <1>1. tables = disk
        BY NothingPending
  <1>2. OnePending'
        BY <1>1 DEF OnePending
  <1>3. IsFiniteSet(tables'.queue)
        BY DEF TrailInv
  <1>4. QED
        BY <1>2, <1>3, CallerTrail

\* After a commit nothing is pending.
LEMMA CommitTrail ==
    ASSUME IInv, TrailInv, NEW c \in Callers, pc[c] # "idle", Frame(c), LossOK(c)',
           tables' = tables, disk' = tables
    PROVE  TrailInv'
  <1>1. OnePending'
        BY DEF OnePending
  <1>2. IsFiniteSet(tables'.queue)
        BY DEF TrailInv
  <1>3. QED
        BY <1>1, <1>2, CallerTrail

\* The lock is free, so nothing is pending.
LEMMA EnterTrail ==
    ASSUME IInv, TrailInv, NEW c \in Callers, Enter(c)
    PROVE  TrailInv'
  <1> USE DEF IInv
  <1>1. /\ Frame(c) /\ tables' = tables /\ disk' = disk /\ pc[c] = "wait" /\ pc'[c] = "load"
        /\ job'[c] = job[c] /\ lost' = lost /\ skipped' = skipped
        BY DEF Enter, Silent, TypeOK, Frame, Grows
  <1>2. \A d \in Callers : pc[d] \in {"idle", "wait"}
        BY EngineAssumption DEF Enter, TypeOK
  <1>3. tables = disk
        BY <1>2 DEF TrailInv, OnePending, PendingRow, PendingProposal
  <1>4. LossOK(c)'
        BY <1>1 DEF TrailInv, LossOK, Unrecorded, Failing
  <1>5. OnePending' /\ IsFiniteSet(tables'.queue)
        BY <1>1, <1>3 DEF OnePending, TrailInv
  <1>6. QED
        BY <1>1, <1>4, <1>5, CallerTrail

\* A run that has not come to its record is not lost.
LEMMA QuietTrail ==
    ASSUME IInv, TrailInv, NEW c \in Callers, QuietStep(c)
    PROVE  TrailInv'
  <1> USE DEF IInv
  <1>1. PICK to \in (Unrecorded \ {"wait"}) \cup {"record"}, j \in Job :
              /\ Step(c, pc[c], to, j)
              /\ Silent
              /\ pc[c] \in Unrecorded \ {"wait"}
              /\ j.run = job[c].run
        BY QuietMoves
  <1>2. /\ Frame(c) /\ pc'[c] = to /\ job'[c] = j
        /\ tables' = tables /\ disk' = disk /\ lost' = lost /\ skipped' = skipped
        BY <1>1, SilentFrame DEF Silent
  <1>3. pc[c] \notin {"idle", "wait", "recordCommit", "enqueueCommit"}
        BY <1>1 DEF Unrecorded
  <1>4. LossOK(c)'
        BY <1>1, <1>2, <1>3 DEF TrailInv, LossOK, Failing, Unrecorded
  <1>5. QED
        BY <1>2, <1>3, <1>4, SilentTrail

\* The row is pending now.
LEMMA RecordTrail ==
    ASSUME IInv, TrailInv, NEW c \in Callers, Record(c)
    PROVE  TrailInv'
  <1> USE DEF IInv
  <1> DEFINE row == HistoryRow(job[c])
  <1>1. /\ pc[c] = "record" /\ pc'[c] = "recordCommit" /\ job'[c] = job[c]
        /\ \A d \in Callers : d # c => pc'[d] = pc[d] /\ job'[d] = job[d]
        /\ disk' = disk /\ lost' = lost /\ skipped' = skipped /\ runs' = runs
        BY DEF Record, Step, Goto, TypeOK
  <1>2. tables'.history = tables.history \cup {row} /\ tables'.queue = tables.queue
        BY AddRow DEF Record, TypeOK
  <1>3. row[1] = job[c].run /\ row[2] = job[c].verdict
        BY DEF HistoryRow
  <1>4. Frame(c)
        BY <1>1, <1>2, <1>3 DEF Frame, Grows
  <1>5. LossOK(c)'
        BY <1>1, <1>2, <1>3 DEF TrailInv, LossOK, Failing, Unrecorded
  <1>6. tables = disk
        BY <1>1, NothingPending
  <1>7. PendingRow(c)'
        BY <1>1, <1>2, <1>6 DEF PendingRow, HistoryRow
  <1>8. OnePending' /\ IsFiniteSet(tables'.queue)
        BY <1>2, <1>7 DEF OnePending, TrailInv
  <1>9. QED
        BY <1>1, <1>4, <1>5, <1>8, CallerTrail

\* The record is over: it is durable, or the run is lost.
LEMMA AfterRecordTrail ==
    ASSUME IInv, TrailInv, NEW c \in Callers, RecordCommit(c) \/ RecordFails(c)
    PROVE  TrailInv'
  <1> USE DEF IInv
  <1>1. PICK from \in {"record", "recordCommit"} :
              /\ AfterRecord(c, from)
              /\ tables' = tables
              /\ \/ from = "recordCommit" /\ disk' = tables /\ lost' = lost
                 \/ from = "record" /\ disk' = disk /\ lost' = lost \cup {job[c].run}
              /\ skipped' = skipped
        BY DEF RecordCommit, RecordFails
  <1>2. CASE job[c].verdict = "success"
    <2>1. Step(c, from, "enqueue", job[c])
          BY <1>1, <1>2 DEF AfterRecord
    <2>2. /\ pc[c] = from /\ pc'[c] = "enqueue" /\ job'[c] = job[c] /\ runs' = runs
          /\ \A d \in Callers : d # c => pc'[d] = pc[d] /\ job'[d] = job[d]
          BY <2>1 DEF Step, Goto, TypeOK
    <2>3. Frame(c)
          BY <1>1, <2>2 DEF Frame, Grows
    <2>4. LossOK(c)'
          BY <1>1, <1>2, <2>2 DEF TrailInv, LossOK, Failing, Unrecorded
    <2>5. QED
          BY <1>1, <2>2, <2>3, <2>4, SilentTrail, CommitTrail
  <1>3. CASE job[c].verdict # "success"
    <2>1. Leave(c, from)
          BY <1>1, <1>3 DEF AfterRecord
    <2>2. /\ Frame(c) /\ pc'[c] = "idle" /\ pc[c] = from
          BY <1>1, <2>1, LeaveFrame
    <2>3. LossOK(c)'
          BY <2>2 DEF LossOK, Unrecorded
    <2>4. QED
          BY <1>1, <2>2, <2>3, SilentTrail, CommitTrail
  <1>4. QED
        BY <1>2, <1>3

\* The proposal is pending now.
LEMMA EnqueueTrail ==
    ASSUME IInv, TrailInv, NEW c \in Callers, NEW i \in Items, Enqueue(c, i)
    PROVE  TrailInv'
  <1> USE DEF IInv
  <1> DEFINE j == [job[c] EXCEPT !.todo = @ \ {i}]
             q == Proposal(c, i)
  <1>1. /\ pc[c] = "enqueue" /\ pc'[c] = "enqueueCommit" /\ job'[c] = j
        /\ \A d \in Callers : d # c => pc'[d] = pc[d] /\ job'[d] = job[d]
        /\ disk' = disk /\ lost' = lost /\ skipped' = skipped /\ runs' = runs
        BY DEF Enqueue, Step, Goto, TypeOK
  <1>2. tables'.queue = tables.queue \cup {q} /\ tables'.history = tables.history
        BY AddRow DEF Enqueue, TypeOK
  <1>3. q[1] = job[c].run
        BY DEF Proposal
  <1>4. j.run = job[c].run
        BY DEF TypeOK, Job
  <1>5. Frame(c)
        BY <1>1, <1>2, <1>3 DEF Frame, Grows
  <1>6. LossOK(c)'
        BY <1>1, <1>2, <1>4 DEF TrailInv, LossOK, Failing, Unrecorded
  <1>7. tables = disk
        BY <1>1, NothingPending
  <1>8. PendingProposal(c)'
        BY <1>1, <1>2, <1>3, <1>4, <1>7 DEF PendingProposal
  <1>9. OnePending' /\ IsFiniteSet(tables'.queue)
        BY <1>2, <1>8, FS_AddElement DEF OnePending, TrailInv
  <1>10. QED
         BY <1>1, <1>5, <1>6, <1>9, CallerTrail

\* The remaining steps store nothing.
LEMMA RestTrail ==
    ASSUME IInv, TrailInv, NEW c \in Callers,
           \/ \E i \in Items : EnqueueFails(c, i)
           \/ EnqueueCommit(c)
           \/ Finish(c)
           \/ LoadNothing(c)
    PROVE  TrailInv'
  <1> USE DEF IInv
  <1>1. ASSUME NEW i \in Items, EnqueueFails(c, i)
        PROVE  TrailInv'
    <2> DEFINE j == [job[c] EXCEPT !.todo = {}, !.verdict = "error"]
    <2>1. Step(c, "enqueue", "record", j) /\ Silent
          BY <1>1 DEF EnqueueFails
    <2>2. /\ Frame(c) /\ pc'[c] = "record" /\ job'[c] = j
          /\ tables' = tables /\ disk' = disk /\ lost' = lost /\ pc[c] = "enqueue"
          BY <2>1, SilentFrame DEF Silent, Step, Goto
    <2>3. j.run = job[c].run /\ j.verdict = "error"
          BY DEF TypeOK, Job
    <2>4. LossOK(c)'
          BY <2>2, <2>3 DEF TrailInv, LossOK, Failing, Unrecorded
    <2>5. QED
          BY <2>2, <2>4, SilentTrail
  <1>2. CASE EnqueueCommit(c)
    <2>1. Step(c, "enqueueCommit", "enqueue", job[c]) /\ tables' = tables /\ disk' = tables
          /\ lost' = lost /\ skipped' = skipped
          BY <1>2 DEF EnqueueCommit
    <2>2. Frame(c) /\ pc'[c] = "enqueue" /\ job'[c] = job[c] /\ pc[c] = "enqueueCommit"
          BY <2>1, CommitFrame DEF Step, Goto
    <2>3. LossOK(c)'
          BY <2>1, <2>2 DEF TrailInv, LossOK, Failing, Unrecorded
    <2>4. QED
          BY <2>1, <2>2, <2>3, CommitTrail
  <1>3. CASE Finish(c)
    <2>1. Leave(c, "enqueue") /\ tables' = tables /\ disk' = disk /\ lost' = lost /\ skipped' = skipped
          BY <1>3 DEF Finish, Silent
    <2>2. Frame(c) /\ pc'[c] = "idle" /\ pc[c] = "enqueue"
          BY <2>1, LeaveFrame
    <2>3. LossOK(c)'
          BY <2>2 DEF LossOK, Unrecorded
    <2>4. QED
          BY <2>1, <2>2, <2>3, SilentTrail
  <1>4. CASE LoadNothing(c)
    <2>1. /\ Leave(c, "load") /\ tables' = tables /\ disk' = disk /\ lost' = lost
          /\ skipped' = skipped \cup {job[c].run}
          BY <1>4 DEF LoadNothing
    <2>2. Frame(c) /\ pc'[c] = "idle" /\ pc[c] = "load"
          BY <2>1, LeaveFrame
    <2>3. LossOK(c)'
          BY <2>2 DEF LossOK, Unrecorded
    <2>4. QED
          BY <2>1, <2>2, <2>3, SilentTrail
  <1>5. QED
        BY <1>1, <1>2, <1>3, <1>4

\* A new run is not lost and has no rows.
LEMMA TriggerTrail ==
    ASSUME IInv, TrailInv, NEW c \in Callers, Trigger(c)
    PROVE  TrailInv'
  <1> USE DEF IInv
  <1>1. /\ pc[c] = "idle" /\ pc'[c] = "wait" /\ job'[c].run = runs + 1 /\ runs' = runs + 1
        /\ \A d \in Callers : d # c => pc'[d] = pc[d] /\ job'[d] = job[d]
        /\ tables' = tables /\ disk' = disk /\ lost' = lost /\ skipped' = skipped
        BY DEF Trigger, Goto, Silent, TypeOK, NoJob
  <1>2. runs \in Nat
        BY DEF TypeOK
  <1>3. runs + 1 \notin lost /\ lost \subseteq 1 .. runs'
        BY <1>1, <1>2 DEF TrailInv
  <1>4. \A h \in tables.history : h[1] # runs + 1
        BY <1>2 DEF RunsOK
  <1>5. LossOK(c)'
        BY <1>1, <1>3, <1>4 DEF LossOK, Unrecorded
  <1>6. \A d \in Callers : d # c => LossOK(d)'
        BY <1>1 DEF TrailInv, LossOK, Failing
  <1>7. OnePending'
    <2>1. CASE tables = disk
          BY <1>1, <2>1 DEF OnePending
    <2>2. ASSUME NEW d \in Callers, PendingRow(d) \/ PendingProposal(d)
          PROVE  OnePending'
      <3>1. d # c
            BY <1>1, <2>2 DEF PendingRow, PendingProposal
      <3>2. PendingRow(d)' \/ PendingProposal(d)'
            BY <1>1, <2>2, <3>1 DEF PendingRow, PendingProposal, HistoryRow
      <3>3. QED
            BY <3>2 DEF OnePending
    <2>3. QED
          BY <2>1, <2>2 DEF TrailInv, OnePending
  <1>8. QED
        BY <1>1, <1>3, <1>5, <1>6, <1>7 DEF TrailInv

\* Whoever commits, nothing is pending then; a restart loses the runs in the middle.
LEMMA WorldTrail ==
    ASSUME IInv, TrailInv,
           SomeoneCommits \/ Restart \/ \E w \in Whitelists : SetWhitelist(w)
    PROVE  TrailInv'
  <1> USE DEF IInv
  <1>1. ASSUME disk' = tables, UNCHANGED <<pc, job, tables, runs, lost, skipped>>
        PROVE  TrailInv'
    <2>1. OnePending' /\ \A c \in Callers : LossOK(c)'
          BY <1>1 DEF OnePending, TrailInv, LossOK, Failing
    <2>2. QED
          BY <1>1, <2>1 DEF TrailInv
  <1>2. CASE Restart
    <2>1. /\ \A c \in Callers : pc'[c] = "idle"
          /\ tables' = disk /\ disk' = disk /\ runs' = runs
          /\ lost' = lost \cup {job[c].run : c \in {d \in Callers : pc[d] # "idle"}}
          BY <1>2 DEF Restart
    <2>2. lost' \subseteq 1 .. runs'
          BY <2>1 DEF TrailInv, RunsOK
    <2>3. \A c \in Callers : LossOK(c)'
          BY <2>1 DEF LossOK, Unrecorded
    <2>4. IsFiniteSet(tables'.queue)
          BY <2>1, FS_Subset DEF TrailInv, RunsOK
    <2>5. QED
          BY <2>1, <2>2, <2>3, <2>4 DEF TrailInv, OnePending
  <1>3. QED
        BY <1>1, <1>2 DEF SomeoneCommits, SetWhitelist

\* Together with IInv it is inductive.
LEMMA TrailHolds == Spec => []TrailInv
  <1>1. Init => TrailInv
    <2> SUFFICES ASSUME Init PROVE TrailInv
        OBVIOUS
    <2>1. tables = disk /\ tables.queue = {} /\ lost = {} /\ \A c \in Callers : pc[c] = "idle"
          BY DEF Init
    <2>2. QED
          BY <2>1, FS_EmptySet DEF TrailInv, OnePending, LossOK, Unrecorded
  <1>2. IInv /\ TrailInv /\ [Next]_vars => TrailInv'
    <2> SUFFICES ASSUME IInv, TrailInv, [Next]_vars PROVE TrailInv'
        OBVIOUS
    <2>1. ASSUME NEW c \in Callers, OwnStep(c) \/ Answer(c) \/ AnswerUnusable(c)
          PROVE  TrailInv'
      <3>1. CASE QuietStep(c)
            BY <3>1, QuietTrail
      <3>2. CASE RecordStep(c)
            BY <3>2, RecordTrail, AfterRecordTrail DEF RecordStep
      <3>3. ASSUME NEW i \in Items, Enqueue(c, i) \/ EnqueueFails(c, i)
            PROVE  TrailInv'
            BY <3>3, EnqueueTrail, RestTrail
      <3>4. CASE EnqueueCommit(c) \/ Finish(c) \/ LoadNothing(c)
            BY <3>4, RestTrail
      <3>5. QED
            BY <2>1, <3>1, <3>2, <3>3, <3>4 DEF OwnStep, QuietStep, RecordStep
    <2>2. ASSUME NEW c \in Callers, Trigger(c) \/ Enter(c)
          PROVE  TrailInv'
          BY <2>2, TriggerTrail, EnterTrail
    <2>3. CASE SomeoneCommits \/ Restart \/ \E w \in Whitelists : SetWhitelist(w)
          BY <2>3, WorldTrail
    <2>4. CASE UNCHANGED vars
      <3>1. UNCHANGED <<pc, job, tables, disk, runs, lost, skipped>>
            BY <2>4 DEF vars
      <3>2. QED
            BY <3>1 DEF TrailInv, LossOK, Failing, OnePending, PendingRow, PendingProposal,
                        HistoryRow
    <2>5. QED
          BY <2>1, <2>2, <2>3, <2>4 DEF Next
  <1>3. QED
        BY <1>1, <1>2, Invariant, PTL DEF Spec

-----------------------------------------------------------------------------
(* The audit trail: every step is one of AuditTrail *)

TrailStep == Trail!Next \/ UNCHANGED <<disk, lost>>

\* The trail of run r on disk.
Said(r) == {<<h[2], h[3]>> : h \in RowsOf(disk, r)}
MadeOf(r) == Cardinality(ProposalsOf(disk, r))

\* One row more on disk is one row more of its run.
LEMMA TrailWrite ==
    ASSUME NEW r \in 1 .. MaxRuns, NEW s, NEW n, NEW row, row = <<r, s, n>>,
           disk'.history = disk.history \cup {row}, disk'.queue = disk.queue, lost' = lost
    PROVE  Trail!Write(r, s, n)
  <1>1. ASSUME NEW k \in 1 .. MaxRuns
        PROVE  Said(k)' = IF k = r THEN Said(k) \cup {<<s, n>>} ELSE Said(k)
    <2>1. RowsOf(disk', k) = IF k = r THEN RowsOf(disk, k) \cup {row} ELSE RowsOf(disk, k)
          BY DEF RowsOf
    <2>2. QED
          BY <2>1 DEF Said
  <1>2. \A k \in 1 .. MaxRuns : MadeOf(k)' = MadeOf(k)
        BY DEF MadeOf, ProposalsOf
  <1>3. QED
        BY <1>1, <1>2 DEF Trail!Write, Said, MadeOf, RowsOf

\* One proposal more on disk is one more of its run.
LEMMA TrailAdd ==
    ASSUME NEW r \in 1 .. MaxRuns, NEW q, q[1] = r, q \notin disk.queue,
           disk'.queue = disk.queue \cup {q}, disk'.history = disk.history, lost' = lost,
           IsFiniteSet(disk.queue)
    PROVE  Trail!Add(r)
  <1>1. ASSUME NEW k \in 1 .. MaxRuns
        PROVE  MadeOf(k)' = IF k = r THEN MadeOf(k) + 1 ELSE MadeOf(k)
    <2>1. CASE k = r
      <3>1. ProposalsOf(disk', k) = ProposalsOf(disk, k) \cup {q} /\ q \notin ProposalsOf(disk, k)
            BY <2>1 DEF ProposalsOf
      <3>2. IsFiniteSet(ProposalsOf(disk, k))
            BY FS_Subset DEF ProposalsOf
      <3>3. Cardinality(ProposalsOf(disk, k) \cup {q}) = Cardinality(ProposalsOf(disk, k)) + 1
            BY <3>1, <3>2, FS_AddElement
      <3>4. QED
            BY <2>1, <3>1, <3>3 DEF MadeOf
    <2>2. CASE k # r
          BY <2>2 DEF MadeOf, ProposalsOf
    <2>3. QED
          BY <2>1, <2>2
  <1>2. \A k \in 1 .. MaxRuns : Said(k)' = Said(k)
        BY DEF Said, RowsOf
  <1>3. QED
        BY <1>1, <1>2 DEF Trail!Add, Said, MadeOf, RowsOf

\* What Owes and Blank say of the disk.
LEMMA TrailGuards ==
    ASSUME NEW r \in 1 .. MaxRuns
    PROVE  /\ Trail!Blank(r) <=> Said(r) = {} /\ MadeOf(r) = 0
           /\ Trail!Owes(r) <=> \E n \in 1 .. Cardinality(Items) :
                                    Said(r) = {<<"success", n>>} /\ MadeOf(r) < n
  BY DEF Trail!Blank, Trail!Owes, Said, MadeOf, RowsOf

\* A lost run that no row calls failed may go on.
LEMMA TrailStray ==
    ASSUME NEW r \in 1 .. MaxRuns, r \in lost, <<"error", 0>> \notin Said(r)
    PROVE  /\ Trail!Add(r) => Trail!Stray(r)
           /\ Trail!Write(r, "error", 0) => Trail!Stray(r)
  <1>1. <<"error", 0>> \notin [k \in 1 .. MaxRuns |-> Said(k)][r]
        OBVIOUS
  <1>2. QED
        BY <1>1 DEF Trail!Stray, Said, RowsOf

\* Each of these is a step of the trail.
LEMMA TrailMoves ==
    ASSUME NEW r \in 1 .. MaxRuns
    PROVE  /\ Trail!Succeed(r) => TrailStep
           /\ Trail!Fail(r) => TrailStep
           /\ Trail!Propose(r) => TrailStep
           /\ Trail!Abort(r) => TrailStep
           /\ Trail!Stray(r) => TrailStep
  BY DEF TrailStep, Trail!Next

\* The commit that makes a record durable.
LEMMA RowImplements ==
    ASSUME IInv, TrailInv, NEW c \in Callers, PendingRow(c), disk' = tables, lost' = lost
    PROVE  TrailStep
  <1>0. PICK r : r = job[c].run
        OBVIOUS
  <1> USE <1>0 DEF IInv
  <1> DEFINE row == HistoryRow(job[c])
             rows == RowsOf(tables, r)
             props == ProposalsOf(tables, r)
  <1>1. /\ pc[c] = "recordCommit" /\ tables.queue = disk.queue
        /\ tables.history = disk.history \cup {row}
        BY DEF PendingRow
  <1>2. r \in 1 .. MaxRuns /\ job[c] \in Job
        BY <1>1, EngineAssumption DEF RunsOK, TypeOK
  <1>3. job[c].verdict \in {"success", "error", "timeout"}
        BY <1>1, <1>2 DEF RunsOK, Job
  <1>4. CASE row \in disk.history
    <2>1. tables.history = disk.history
          BY <1>1, <1>4
    <2>2. tables = disk
          BY <1>1, <2>1 DEF TypeOK, Tables
    <2>3. QED
          BY <2>2 DEF TrailStep
  <1>5. CASE row \notin disk.history
    <2>1. rows = RowsOf(disk, r) \cup {row} /\ row \notin RowsOf(disk, r)
          BY <1>1, <1>5 DEF RowsOf, HistoryRow
    <2>2. ProposalsOf(disk, r) = props
          BY <1>1 DEF ProposalsOf
    <2>3. job[c].verdict # "success" => row = <<r, job[c].verdict, 0>>
          BY DEF HistoryRow
    <2>4. ASSUME NEW s, NEW n, row = <<r, s, n>>
          PROVE  Trail!Write(r, s, n)
          BY <1>1, <1>2, <2>4, TrailWrite
    <2>5. CASE r \in lost
      <3>1. job[c].verdict = "error"
            BY <1>1, <2>5 DEF TrailInv, LossOK
      <3>2. row = <<r, "error", 0>>
            BY <2>3, <3>1
      <3>3. \A h \in disk.history : h = <<h[1], h[2], h[3]>>
            BY DEF TypeOK, Tables
      <3>4. <<"error", 0>> \notin Said(r)
            BY <1>5, <3>2, <3>3 DEF Said, RowsOf
      <3>5. Trail!Stray(r)
            BY <1>2, <2>4, <2>5, <3>2, <3>4, TrailStray
      <3>6. QED
            BY <1>2, <3>5, TrailMoves
    <2>6. CASE r \notin lost
      <3>1. IsFiniteSet(props) /\ AtCommit(job[c], rows, props)
            BY <1>1, <2>6, StageOf DEF Stage
      <3>2. ASSUME rows = {row}, Cardinality(props) = 0
            PROVE  Trail!Blank(r)
        <4>1. RowsOf(disk, r) = {}
              BY <2>1, <3>2
        <4>2. QED
              BY <1>2, <2>2, <3>2, <4>1, TrailGuards DEF Said, MadeOf
      <3>3. CASE job[c].verdict = "success"
        <4>1. /\ rows = {row} /\ row = <<r, "success", job[c].count>>
              /\ Cardinality(props) = 0
              BY <3>1, <3>3, FS_EmptySet DEF AtCommit, HistoryRow
        <4>2. job[c].count \in 0 .. Cardinality(Items)
              BY <1>2, ItemsFinite DEF RunsOK, Job
        <4>3. Trail!Succeed(r)
              BY <2>4, <2>6, <3>2, <4>1, <4>2 DEF Trail!Succeed
        <4>4. QED
              BY <1>2, <4>3, TrailMoves
      <3>4. CASE job[c].verdict # "success"
        <4>1. row = <<r, job[c].verdict, 0>> /\ row \in rows
              BY <2>1, <2>3, <3>4
        <4>2. Outcome(r, rows, Cardinality(props))
              BY <3>1, <3>4 DEF AtCommit
        <4>3. rows # {<<r, "success", Cardinality(props)>>}
              BY <3>4, <4>1
        <4>4. CASE Cardinality(props) = 0 /\ \E s \in {"error", "timeout"} : rows = {<<r, s, 0>>}
          <5>1. rows = {row}
                BY <4>1, <4>4
          <5>2. Trail!Fail(r)
                BY <1>3, <2>4, <3>2, <3>4, <4>1, <4>4, <5>1 DEF Trail!Fail
          <5>3. QED
                BY <1>2, <5>2, TrailMoves
        <4>5. ASSUME NEW n \in (Cardinality(props) + 1) .. Cardinality(Items),
                     rows = {<<r, "success", n>>, <<r, "error", 0>>}
              PROVE  TrailStep
          <5>1. row = <<r, "error", 0>>
                BY <3>4, <4>1, <4>5
          <5>2. RowsOf(disk, r) = {<<r, "success", n>>}
                BY <2>1, <4>5, <5>1
          <5>3. Said(r) = {<<"success", n>>}
                BY <5>2 DEF Said
          <5>4. Cardinality(props) \in Nat
                BY <3>1, FS_CardinalityType
          <5>5. n \in 1 .. Cardinality(Items) /\ MadeOf(r) < n
                BY <2>2, <5>4, ItemsFinite DEF MadeOf
          <5>6. Trail!Abort(r)
                BY <1>2, <2>4, <5>1, <5>3, <5>5, TrailGuards DEF Trail!Abort
          <5>7. QED
                BY <1>2, <5>6, TrailMoves
        <4>6. QED
              BY <4>2, <4>3, <4>4, <4>5 DEF Outcome
      <3>5. QED
            BY <3>3, <3>4
    <2>7. QED
          BY <2>5, <2>6
  <1>6. QED
        BY <1>4, <1>5

\* The commit that makes a proposal durable.
LEMMA ProposalImplements ==
    ASSUME IInv, TrailInv, NEW c \in Callers, PendingProposal(c), disk' = tables, lost' = lost
    PROVE  TrailStep
  <1>0. PICK r : r = job[c].run
        OBVIOUS
  <1> USE <1>0 DEF IInv
  <1> DEFINE rows == RowsOf(tables, r)
             props == ProposalsOf(tables, r)
  <1>1. PICK q \in tables.queue : q[1] = r /\ tables.queue = disk.queue \cup {q}
        BY DEF PendingProposal
  <1>2. pc[c] = "enqueueCommit" /\ tables.history = disk.history
        BY DEF PendingProposal
  <1>3. r \in 1 .. MaxRuns /\ job[c] \in Job
        BY <1>2, EngineAssumption DEF RunsOK, TypeOK
  <1>4. CASE q \in disk.queue
    <2>0. tables.queue = disk.queue
          BY <1>1, <1>4
    <2>1. tables = disk
          BY <1>2, <2>0 DEF TypeOK, Tables
    <2>2. QED
          BY <2>1 DEF TrailStep
  <1>5. CASE q \notin disk.queue
    <2>1. IsFiniteSet(disk.queue)
          BY FS_Subset DEF TrailInv, RunsOK
    <2>2. Trail!Add(r)
          BY <1>1, <1>2, <1>3, <1>5, <2>1, TrailAdd
    <2>3. RowsOf(disk, r) = rows
          BY <1>2 DEF RowsOf
    <2>4. CASE r \in lost
      <3>1. \A h \in RowsOf(disk, r) : h[2] = "success"
            BY <1>2 DEF TrailInv, LossOK, Failing, RowsOf
      <3>2. <<"error", 0>> \notin Said(r)
            BY <3>1 DEF Said
      <3>3. Trail!Stray(r)
            BY <1>3, <2>2, <2>4, <3>2, TrailStray
      <3>4. QED
            BY <1>3, <3>3, TrailMoves
    <2>5. CASE r \notin lost
      <3>1. IsFiniteSet(props) /\ Enqueuing(job[c], rows, props)
            BY <1>2, <2>5, StageOf DEF Stage
      <3>2. Said(r) = {<<"success", job[c].count>>}
            BY <2>3, <3>1 DEF Enqueuing, Said
      <3>3. props = ProposalsOf(disk, r) \cup {q} /\ q \notin ProposalsOf(disk, r)
            BY <1>1, <1>5 DEF ProposalsOf
      <3>4. IsFiniteSet(ProposalsOf(disk, r))
            BY <2>1, FS_Subset DEF ProposalsOf
      <3>5. Cardinality(props) = MadeOf(r) + 1 /\ MadeOf(r) \in Nat
            BY <3>3, <3>4, FS_AddElement, FS_CardinalityType DEF MadeOf
      <3>6. Cardinality(job[c].todo) \in Nat
            BY <1>3, ItemsFinite DEF Job
      <3>7. job[c].count <= Cardinality(Items) /\ Cardinality(Items) \in Nat
            BY ItemsFinite DEF RunsOK
      <3>8. job[c].count \in 1 .. Cardinality(Items) /\ MadeOf(r) < job[c].count
            BY <3>1, <3>5, <3>6, <3>7 DEF Enqueuing
      <3>9. Trail!Propose(r)
            BY <1>3, <2>2, <3>2, <3>8, TrailGuards DEF Trail!Propose
      <3>10. QED
             BY <1>3, <3>9, TrailMoves
    <2>6. QED
          BY <2>4, <2>5
  <1>6. QED
        BY <1>4, <1>5

\* Steps write at most what is pending to disk, or lose runs.
LEMMA StepImplements ==
    ASSUME IInv, TrailInv, [Next]_vars
    PROVE  TrailStep
  <1> USE DEF IInv
  <1>1. ASSUME disk' = tables, lost' = lost
        PROVE  TrailStep
    <2>1. CASE tables = disk
          BY <1>1, <2>1 DEF TrailStep
    <2>2. QED
          BY <1>1, <2>1, RowImplements, ProposalImplements DEF TrailInv, OnePending
  <1>2. CASE UNCHANGED <<disk, lost>>
        BY <1>2 DEF TrailStep
  <1>3. ASSUME NEW some \in SUBSET (1 .. MaxRuns), disk' = disk, lost' = lost \cup some
        PROVE  TrailStep
    <2>1. Trail!Lose(some)
          BY <1>3 DEF Trail!Lose
    <2>2. QED
          BY <2>1 DEF TrailStep, Trail!Next
  <1>4. ASSUME NEW c \in Callers, OwnStep(c) \/ Answer(c) \/ AnswerUnusable(c)
        PROVE  TrailStep
    <2>1. CASE QuietStep(c)
          BY <1>2, <2>1, QuietMoves DEF Silent
    <2>2. CASE Record(c)
          BY <1>2, <2>2 DEF Record
    <2>3. CASE RecordCommit(c) \/ EnqueueCommit(c)
          BY <1>1, <2>3 DEF RecordCommit, EnqueueCommit
    <2>4. CASE RecordFails(c)
      <3>1. pc[c] = "record"
            BY <2>4 DEF RecordFails, AfterRecord, Step, Leave, Goto
      <3>2. {job[c].run} \in SUBSET (1 .. MaxRuns)
            BY <3>1, EngineAssumption DEF RunsOK, TypeOK
      <3>3. QED
            BY <1>3, <2>4, <3>2 DEF RecordFails
    <2>5. ASSUME NEW i \in Items, Enqueue(c, i) \/ EnqueueFails(c, i)
          PROVE  TrailStep
          BY <1>2, <2>5 DEF Enqueue, EnqueueFails, Silent
    <2>6. CASE Finish(c) \/ LoadNothing(c)
          BY <1>2, <2>6 DEF Finish, LoadNothing, Silent
    <2>7. QED
          BY <1>4, <2>1, <2>2, <2>3, <2>4, <2>5, <2>6 DEF OwnStep, QuietStep
  <1>5. ASSUME NEW c \in Callers, Trigger(c) \/ Enter(c)
        PROVE  TrailStep
        BY <1>2, <1>5 DEF Trigger, Enter, Silent
  <1>6. CASE SomeoneCommits \/ \E w \in Whitelists : SetWhitelist(w)
        BY <1>1, <1>6 DEF SomeoneCommits, SetWhitelist
  <1>7. CASE Restart
    <2> DEFINE some == {job[c].run : c \in {d \in Callers : pc[d] # "idle"}}
    <2>1. disk' = disk /\ lost' = lost \cup some
          BY <1>7 DEF Restart
    <2>2. some \in SUBSET (1 .. MaxRuns)
          BY EngineAssumption DEF RunsOK, TypeOK
    <2>3. QED
          BY <1>3, <2>1, <2>2
  <1>8. CASE UNCHANGED vars
        BY <1>2, <1>8 DEF vars
  <1>9. QED
        BY <1>4, <1>5, <1>6, <1>7, <1>8 DEF Next

\* The engine implements the audit trail: wherever the process dies, a run is recorded
\* before its proposals, has at most as many as its record says, and none after an error.
THEOREM ImplementsTrail == Spec => ImplementsAuditTrail
  <1>1. Init => Trail!Init
    <2> SUFFICES ASSUME Init PROVE Trail!Init
        OBVIOUS
    <2>1. disk = [history |-> {}, queue |-> {}] /\ lost = {}
          BY DEF Init
    <2>2. QED
          BY <2>1, FS_EmptySet DEF Trail!Init, ProposalsOf
  <1>2. IInv /\ TrailInv /\ [Next]_vars => TrailStep
        BY StepImplements
  <1>3. TrailStep => [Trail!Next]_<<[r \in 1 .. MaxRuns |->
                          {<<h[2], h[3]>> : h \in {g \in disk.history : g[1] = r}}],
                      [r \in 1 .. MaxRuns |-> Cardinality(ProposalsOf(disk, r))], lost>>
        BY DEF TrailStep, ProposalsOf
  <1>4. QED
        BY <1>1, <1>2, <1>3, Invariant, TrailHolds, PTL DEF Spec, ImplementsAuditTrail, Trail!Spec
=============================================================================
