---------------------------- MODULE ProposalQueue ----------------------------
(***************************************************************************)
(* The trade-proposal queue of horizon/internal/proposals/queue.py, run by *)
(* the coroutines that share it on one asyncio event loop: API request     *)
(* handlers (enqueue, approve, reject, check_expiry), the 60 s expiry      *)
(* scanner and the 30 s auto-execution scanner.                            *)
(*                                                                         *)
(* A coroutine is interrupted exactly at an `await`, so one action is the  *)
(* code between two awaits whose order other coroutines can observe: a     *)
(* SELECT, an UPDATE, a commit, a price fetch, an order placement.  All    *)
(* components share one aiosqlite connection: an UPDATE is visible to      *)
(* everybody at once (row), any commit makes everybody's pending writes    *)
(* durable (disk), any rollback undoes everybody's, and a crash falls back *)
(* to what was committed.                                                  *)
(***************************************************************************)
EXTENDS Naturals, FiniteSets

CONSTANTS
    Proposals,        \* proposal ids
    Handlers,         \* API requests that can be in flight at the same time
    Scanners,         \* the background tasks running, of {"expiry", "auto"}
    AutonomyEnabled,  \* what the evaluator's strategy_config says of autonomy_enabled
    Eligible,         \* proposals within min_confidence_threshold and max_risk_tier
    Modes,            \* values strategy_configs.mode can take
    Truthful,         \* proposals for an exchange whose adapter raises when it is refused
    None,             \* no proposal
    MaxFaults         \* bound: restarts, rollbacks by other components, and
                      \* auto-executions that raise with their order placed

ASSUME QueueAssumption ==
    /\ Scanners \subseteq {"expiry", "auto"}
    /\ Handlers \cap {"expiry", "auto"} = {}
    /\ AutonomyEnabled \in BOOLEAN
    /\ Eligible \subseteq Proposals
    /\ Modes \subseteq {"live", "paper", "collaborative"}
    /\ Truthful \subseteq Proposals
    /\ None \notin Proposals
    /\ MaxFaults \in Nat

VARIABLES
    row,     \* row[p]: the proposals row (and its paper trades) as the connection sees it
    disk,    \* disk[p]: the same as last committed
    pc,      \* pc[c]: the await at which coroutine c is suspended
    cur,     \* cur[c]: the proposal c is working on
    todo,    \* todo[c]: rows of scanner c's snapshot not visited yet
    manual,  \* manual[p]: exchange orders placed by approve for p
    auto,    \* auto[p]: exchange orders placed by auto-execution for p
    late,    \* late[p]: the clock has passed p.expires_at
    mode,    \* strategy_configs.mode
    cuts,    \* restarts and rollbacks so far
    lost,    \* auto-executions so far that raised with their order placed
    undone   \* history: proposals of which a rollback undid what somebody went on from

db == <<row, disk>>
vars == <<row, disk, pc, cur, todo, manual, auto, late, mode, cuts, lost, undone>>

-----------------------------------------------------------------------------
(* Types and helpers *)

Statuses == {"proposed", "approved", "rejected", "expired", "executed", "auto_executed"}

\* "none": the id is not in the table.  linked: executed_order_id is set.
\* trades: paper_trades rows that carry this proposal_id.
Row == [status : Statuses \cup {"none"}, linked : BOOLEAN, trades : Nat]
NoRow == [status |-> "none", linked |-> FALSE, trades |-> 0]

Coroutines == Handlers \cup Scanners

\* Any price a ticker can return, seen from proposed_price; "unknown" is the
\* None of _get_current_price (no adapter, disabled adapter, failed fetch).
Prices == {"unknown", "near", "drifted"}

HandlerPoints == {"idle", "enqueueCommit", "approvePrice", "approveCommit", "submit",
                  "execute", "executeCommit", "reject", "rejectCommit",
                  "expire", "expireCommit"}
ScannerPoints == {"idle", "next", "price", "expire", "expireCommit", "gate", "route",
                  "paperTrade", "liveOrder", "mark", "markCommit"}

\* A status that only a decision about the proposal can have produced.
Decided(s) == s \in Statuses \ {"proposed"}

\* TradeProposal.is_expired for a snapshot whose status is PROPOSED.
IsExpired(p, price) == late[p] \/ price = "drifted"

Init ==
    /\ row = [p \in Proposals |-> NoRow]
    /\ disk = row
    /\ pc = [c \in Coroutines |-> "idle"]
    /\ cur = [c \in Coroutines |-> None]
    /\ todo = [c \in Coroutines |-> {}]
    /\ manual = [p \in Proposals |-> 0]
    /\ auto = [p \in Proposals |-> 0]
    /\ late = [p \in Proposals |-> FALSE]
    /\ mode \in Modes
    /\ cuts = 0
    /\ lost = 0
    /\ undone = {}

Goto(c, point) == pc' = [pc EXCEPT ![c] = point]

\* Coroutine c suspends at `from` working on p; it resumes and suspends at `to`.
Step(c, from, to) == /\ pc[c] = from
                     /\ Goto(c, to)
                     /\ UNCHANGED <<cur, todo>>

\* A request handler starts on proposal p.
Begin(h, p, to) == /\ pc[h] = "idle"
                   /\ Goto(h, to)
                   /\ cur' = [cur EXCEPT ![h] = p]
                   /\ UNCHANGED todo

\* A request handler returns or raises: its coroutine is over.
Return(h, from) == /\ pc[h] = from
                   /\ Goto(h, "idle")
                   /\ cur' = [cur EXCEPT ![h] = None]
                   /\ UNCHANGED todo

\* A scanner is done with its row and turns to the rest of its snapshot.
NextRow(s, from) == /\ pc[s] = from
                    /\ Goto(s, "next")
                    /\ cur' = [cur EXCEPT ![s] = None]
                    /\ UNCHANGED todo

Exists(p) == row[p].status # "none"

\* UPDATE proposals SET status = s WHERE id = p: by id alone, whatever the status.  A row
\* that a rollback took back is not found.
SetStatus(p, s) == row' = IF Exists(p) THEN [row EXCEPT ![p].status = s] ELSE row

\* The UPDATE that also stores executed_order_id, again by id alone.
SetExecuted(p, s) ==
    row' = IF Exists(p)
           THEN [row EXCEPT ![p] = [status |-> s, linked |-> TRUE, trades |-> @.trades]]
           ELSE row

\* INSERT INTO paper_trades, with the proposal's id.
AddTrade(p) == row' = [row EXCEPT ![p].trades = @ + 1]

\* db.commit() on the shared connection: everything pending becomes durable.
Commit == /\ disk' = row
          /\ UNCHANGED row

Orders == <<manual, auto>>
World == <<late, mode, cuts, lost, undone>>

-----------------------------------------------------------------------------
(* enqueue *)

\* expires_at lies in the future when a proposal is made, and its id is a new UUID: one
\* that a rollback took back does not come again.
Enqueue(h, p) ==
    /\ ~Exists(p)
    /\ p \notin undone
    /\ ~late[p]
    /\ Begin(h, p, "enqueueCommit")
    /\ row' = [row EXCEPT ![p].status = "proposed"]
    /\ UNCHANGED <<disk, Orders, World>>

EnqueueCommit(h) ==
    /\ Return(h, "enqueueCommit")
    /\ Commit
    /\ UNCHANGED <<Orders, World>>

-----------------------------------------------------------------------------
(* approve *)

\* The SELECT, the mode check and the status check on the row just read.
ApproveRead(h, p) ==
    /\ row[p].status = "proposed"
    /\ mode # "collaborative"
    /\ Begin(h, p, "approvePrice")
    /\ UNCHANGED <<db, Orders, World>>

\* The price arrives and the snapshot has expired: _expire's UPDATE is queued.
ApproveExpired(h) ==
    /\ Step(h, "approvePrice", "expireCommit")
    /\ \E price \in Prices : price # "unknown" /\ IsExpired(cur[h], price)
    /\ SetStatus(cur[h], "expired")
    /\ UNCHANGED <<disk, Orders, World>>

\* Mutant of ApproveWrite: the order goes out before the decision is recorded.
ApproveWriteAfter(h) ==
    /\ Step(h, "approvePrice", "submit")
    /\ \E price \in Prices : price = "unknown" \/ ~IsExpired(cur[h], price)
    /\ UNCHANGED <<db, Orders, World>>

\* Not expired, or no price to check expiry with: the UPDATE to APPROVED is queued.
ApproveWrite(h) ==
    /\ Step(h, "approvePrice", "approveCommit")
    /\ \E price \in Prices : price = "unknown" \/ ~IsExpired(cur[h], price)
    /\ SetStatus(cur[h], "approved")
    /\ UNCHANGED <<disk, Orders, World>>

ApproveCommit(h) ==
    /\ Step(h, "approveCommit", "submit")
    /\ Commit
    /\ UNCHANGED <<Orders, World>>

\* Mutant of ApproveSubmit: a placement whose answer does not come is tried again.
ApproveSubmitAgain(h) ==
    /\ \E to \in {"submit", "execute"} : Step(h, "submit", to)
    /\ Commit
    /\ manual' = [manual EXCEPT ![cur[h]] = @ + 1]
    /\ UNCHANGED <<auto, World>>

\* submit_order returns: the order is at the exchange, or the adapter has made a result of
\* a refusal, which nobody looks at.  It commits its own orders row before it places.
ApproveSubmit(h) ==
    /\ Step(h, "submit", "execute")
    /\ Commit
    /\ \/ manual' = [manual EXCEPT ![cur[h]] = @ + 1]
       \/ cur[h] \notin Truthful /\ UNCHANGED manual
    /\ UNCHANGED <<auto, World>>

\* Mutant of ApproveSubmitFails: the failed proposal is offered again.
ApproveSubmitReopens(h) ==
    /\ pc[h] = "submit"
    /\ SetStatus(cur[h], "proposed")
    /\ Return(h, "submit")
    /\ UNCHANGED <<disk, Orders, World>>

\* Mutant of ApproveSubmitFails: the exception is swallowed.
ApproveSubmitSwallows(h) ==
    /\ Step(h, "submit", "execute")
    /\ UNCHANGED <<db, Orders, World>>

\* submit_order raises; approve lets it through and the proposal stays APPROVED.  Nothing
\* was placed (wrong exchange, guardrail, refusal: only some of these paths commit), or the
\* order is there and its answer, or a write after it, was lost.
ApproveSubmitFails(h) ==
    /\ Return(h, "submit")
    /\ \/ (Commit \/ UNCHANGED db) /\ UNCHANGED manual
       \/ Commit /\ manual' = [manual EXCEPT ![cur[h]] = @ + 1]
    /\ UNCHANGED <<auto, World>>

ApproveExecute(h) ==
    /\ Step(h, "execute", "executeCommit")
    /\ SetExecuted(cur[h], "executed")
    /\ UNCHANGED <<disk, Orders, World>>

ApproveExecuteCommit(h) ==
    /\ Return(h, "executeCommit")
    /\ Commit
    /\ UNCHANGED <<Orders, World>>

-----------------------------------------------------------------------------
(* reject, check_expiry *)

\* Mutant of RejectRead: the status is not tested.
RejectReadAny(h, p) ==
    /\ row[p].status # "none"
    /\ Begin(h, p, "reject")
    /\ UNCHANGED <<db, Orders, World>>

RejectRead(h, p) ==
    /\ row[p].status = "proposed"
    /\ Begin(h, p, "reject")
    /\ UNCHANGED <<db, Orders, World>>

RejectWrite(h) ==
    /\ Step(h, "reject", "rejectCommit")
    /\ SetStatus(cur[h], "rejected")
    /\ UNCHANGED <<disk, Orders, World>>

RejectCommit(h) ==
    /\ Return(h, "rejectCommit")
    /\ Commit
    /\ UNCHANGED <<Orders, World>>

\* The caller passes the price, so a drifted one is always possible.
CheckExpiryRead(h, p) ==
    /\ row[p].status = "proposed"
    /\ Begin(h, p, "expire")
    /\ UNCHANGED <<db, Orders, World>>

-----------------------------------------------------------------------------
(* _expire, for every caller: approve, check_expiry, _scan_proposals *)

Expire(c) ==
    /\ Step(c, "expire", "expireCommit")
    /\ SetStatus(cur[c], "expired")
    /\ UNCHANGED <<disk, Orders, World>>

ExpireCommit(c) ==
    /\ IF c \in Handlers
       THEN Return(c, "expireCommit")
       ELSE NextRow(c, "expireCommit")
    /\ Commit
    /\ UNCHANGED <<Orders, World>>

-----------------------------------------------------------------------------
(* The scanners' loops: _scan_proposals ("expiry"), _scan_and_auto_execute ("auto") *)

\* One SELECT fetches every PROPOSED row; the rows are then worked off one by one.
ScanRead(s) ==
    /\ pc[s] = "idle"
    /\ Goto(s, "next")
    /\ todo' = [todo EXCEPT ![s] = {p \in Proposals : row[p].status = "proposed"}]
    /\ UNCHANGED <<cur, db, Orders, World>>

\* Mutant of ScanNext: the clock is not looked at, only the price (as in approve).
ScanNextUntimed(s, p) ==
    /\ pc[s] = "next"
    /\ p \in todo[s]
    /\ todo' = [todo EXCEPT ![s] = @ \ {p}]
    /\ cur' = [cur EXCEPT ![s] = p]
    /\ Goto(s, IF s = "auto" THEN "gate" ELSE "price")
    /\ UNCHANGED <<db, Orders, World>>

\* The next row, in no promised order (the SELECT has no ORDER BY).  The expiry
\* scanner takes the time before it fetches the price; the other one goes straight
\* to attempt_auto_execution when the row passes its confidence and tier filters.
ScanNext(s, p) ==
    /\ pc[s] = "next"
    /\ p \in todo[s]
    /\ todo' = [todo EXCEPT ![s] = @ \ {p}]
    /\ \/ /\ s = "auto" /\ p \notin Eligible
          /\ UNCHANGED <<pc, cur>>
       \/ /\ s = "auto" => p \in Eligible
          /\ cur' = [cur EXCEPT ![s] = p]
          /\ Goto(s, IF s = "auto" THEN "gate" ELSE IF late[p] THEN "expire" ELSE "price")
    /\ UNCHANGED <<db, Orders, World>>

ScanDone(s) ==
    /\ pc[s] = "next"
    /\ todo[s] = {}
    /\ Goto(s, "idle")
    /\ UNCHANGED <<cur, todo, db, Orders, World>>

\* The price of a row that was in time when visited: is_expired looks at the clock again.
ScanExpired(s) ==
    /\ Step(s, "price", "expireCommit")
    /\ \E price \in Prices : price # "unknown" /\ IsExpired(cur[s], price)
    /\ SetStatus(cur[s], "expired")
    /\ UNCHANGED <<disk, Orders, World>>

ScanKept(s) ==
    /\ IF AutonomyEnabled /\ cur[s] \in Eligible
       THEN Step(s, "price", "gate")
       ELSE NextRow(s, "price")
    /\ \E price \in Prices : price = "unknown" \/ ~IsExpired(cur[s], price)
    /\ UNCHANGED <<db, Orders, World>>

\* An exception leaves the scan: the rest of the snapshot waits for the next period.
ScanAborts(s, from) ==
    /\ pc[s] = from
    /\ Goto(s, "idle")
    /\ cur' = [cur EXCEPT ![s] = None]
    /\ todo' = [todo EXCEPT ![s] = {}]

-----------------------------------------------------------------------------
(* attempt_auto_execution *)

\* can_autonomously_execute allows it and evaluate_proposal passes (it stores its
\* verdict in the row and commits).  The status test reads the scan's snapshot,
\* which is PROPOSED by construction.
AutoGatePass(s) ==
    /\ mode # "collaborative"
    /\ AutonomyEnabled
    /\ Step(s, "gate", "route")
    /\ Commit
    /\ UNCHANGED <<Orders, World>>

\* Not allowed, or a rule is violated: the row is left PROPOSED.
AutoGateRefuses(s) ==
    /\ NextRow(s, "gate")
    /\ Commit \/ UNCHANGED db
    /\ UNCHANGED <<Orders, World>>

\* Storing a breach, simulating or submitting raises before anything is traded.
AutoRaises(s) ==
    /\ \E from \in {"gate", "paperTrade", "liveOrder"} : ScanAborts(s, from)
    /\ Commit \/ UNCHANGED db
    /\ UNCHANGED <<Orders, World>>

\* An exception comes when the order is there: its answer or a write after it is lost, the
\* simulator raises behind its INSERT, or the UPDATE of the proposal does.  The row stays
\* PROPOSED, and the next period's scan places the order again.
AutoRaisesLate(s) ==
    /\ cuts + lost < MaxFaults
    /\ lost' = lost + 1
    /\ \/ /\ ScanAborts(s, "liveOrder")
          /\ Commit
          /\ auto' = [auto EXCEPT ![cur[s]] = @ + 1]
       \/ /\ ScanAborts(s, "paperTrade")
          /\ AddTrade(cur[s])
          /\ UNCHANGED <<disk, auto>>
       \/ /\ ScanAborts(s, "mark")
          /\ UNCHANGED <<db, auto>>
    /\ UNCHANGED <<manual, late, mode, cuts, undone>>

\* Mutant of AutoRoute: the mode's branch places no order.
AutoRouteNowhere(s) ==
    /\ Step(s, "route", "mark")
    /\ UNCHANGED <<db, Orders, World>>

\* The mode is read again and decides where the order goes.
AutoRoute(s) ==
    /\ IF mode = "collaborative"
       THEN NextRow(s, "route")
       ELSE Step(s, "route", IF mode = "paper" THEN "paperTrade" ELSE "liveOrder")
    /\ UNCHANGED <<db, Orders, World>>

\* The simulator inserts the trade and leaves the commit to its caller.
AutoPaperTrade(s) ==
    /\ Step(s, "paperTrade", "mark")
    /\ AddTrade(cur[s])
    /\ UNCHANGED <<disk, Orders, World>>

\* submit_order returns, with or without an order as in ApproveSubmit.
AutoLiveOrder(s) ==
    /\ Step(s, "liveOrder", "mark")
    /\ Commit
    /\ \/ auto' = [auto EXCEPT ![cur[s]] = @ + 1]
       \/ cur[s] \notin Truthful /\ UNCHANGED auto
    /\ UNCHANGED <<manual, World>>

\* Mutant of AutoMark: a status outside ProposalStatus.
AutoMarkUnlisted(s) ==
    /\ Step(s, "mark", "markCommit")
    /\ SetExecuted(cur[s], "done")
    /\ UNCHANGED <<disk, Orders, World>>

\* Mutant of AutoMark: executed_order_id is stored, the status forgotten.
AutoMarkOpen(s) ==
    /\ Step(s, "mark", "markCommit")
    /\ SetExecuted(cur[s], row[cur[s]].status)
    /\ UNCHANGED <<disk, Orders, World>>

AutoMark(s) ==
    /\ Step(s, "mark", "markCommit")
    /\ SetExecuted(cur[s], "auto_executed")
    /\ UNCHANGED <<disk, Orders, World>>

AutoMarkCommit(s) ==
    /\ NextRow(s, "markCommit")
    /\ Commit
    /\ UNCHANGED <<Orders, World>>

-----------------------------------------------------------------------------
(* The environment *)

\* The clock passes p.expires_at.
Deadline(p) ==
    /\ Exists(p)
    /\ ~late[p]
    /\ late' = [late EXCEPT ![p] = TRUE]
    /\ UNCHANGED <<db, pc, cur, todo, Orders, mode, cuts, lost, undone>>

\* POST /api/strategy/mode: UPDATE strategy_configs and commit, also of the mode there is.
SetMode(m) ==
    /\ m # mode \/ row # disk
    /\ mode' = m
    /\ Commit
    /\ UNCHANGED <<pc, cur, todo, Orders, late, cuts, lost, undone>>

\* A rollback now takes p's row away, approve's decision before its commit, or the paper
\* trade that is about to be recorded.
Exposed(p) ==
    \/ Exists(p) /\ disk[p].status = "none"
    \/ \E c \in Coroutines :
          /\ cur[c] = p
          /\ \/ pc[c] = "approveCommit" /\ ~Decided(disk[p].status)
             \/ pc[c] = "mark" /\ row[p].trades # disk[p].trades

\* A portfolio snapshot fails and its ROLLBACK undoes what everybody has pending on the
\* connection; nobody is told, and every coroutine goes on from where it is.
SomeoneRollsBack ==
    /\ row # disk
    /\ cuts + lost < MaxFaults
    /\ cuts' = cuts + 1
    /\ row' = disk
    /\ undone' = undone \cup {p \in Proposals : Exposed(p)}
    /\ UNCHANGED <<disk, pc, cur, todo, Orders, late, mode, lost>>

\* The process dies, or shuts down (the scanners are cancelled at their await and the
\* connection is closed without a commit), and starts again: memory and pending
\* writes are gone, the exchange keeps its orders.
Restart ==
    /\ cuts + lost < MaxFaults
    /\ cuts' = cuts + 1
    /\ row' = disk
    /\ pc' = [c \in Coroutines |-> "idle"]
    /\ cur' = [c \in Coroutines |-> None]
    /\ todo' = [c \in Coroutines |-> {}]
    /\ UNCHANGED <<disk, Orders, late, mode, lost, undone>>

-----------------------------------------------------------------------------
(* Specification *)

HandlerStart(h, p) == Enqueue(h, p) \/ ApproveRead(h, p) \/ RejectRead(h, p)
                      \/ CheckExpiryRead(h, p)

HandlerStep(h) == \/ EnqueueCommit(h)
                  \/ ApproveExpired(h) \/ ApproveWrite(h) \/ ApproveCommit(h)
                  \/ ApproveSubmit(h) \/ ApproveSubmitFails(h)
                  \/ ApproveExecute(h) \/ ApproveExecuteCommit(h)
                  \/ RejectWrite(h) \/ RejectCommit(h)
                  \/ Expire(h) \/ ExpireCommit(h)

ScannerStep(s) == \/ ScanRead(s) \/ ScanDone(s)
                  \/ \E p \in Proposals : ScanNext(s, p)
                  \/ ScanExpired(s) \/ ScanKept(s)
                  \/ Expire(s) \/ ExpireCommit(s)
                  \/ AutoGatePass(s) \/ AutoGateRefuses(s) \/ AutoRoute(s)
                  \/ AutoRaises(s) \/ AutoRaisesLate(s)
                  \/ AutoPaperTrade(s) \/ AutoLiveOrder(s)
                  \/ AutoMark(s) \/ AutoMarkCommit(s)

Environment == \/ \E p \in Proposals : Deadline(p)
               \/ \E m \in Modes : SetMode(m)
               \/ SomeoneRollsBack
               \/ Restart

Next == \/ \E h \in Handlers : HandlerStep(h) \/ \E p \in Proposals : HandlerStart(h, p)
        \/ \E s \in Scanners : ScannerStep(s)
        \/ Environment

Spec == Init /\ [][Next]_vars

\* The loops never stop scanning: the event loop resumes every coroutine whose
\* await is done, and a period's exception is logged and the loop goes on.
\* The clock does not stop either.
Fairness == /\ \A s \in Scanners : WF_vars(ScannerStep(s))
            /\ \A p \in Proposals : WF_vars(Deadline(p))

FairSpec == Spec /\ Fairness
-----------------------------------------------------------------------------
(* Properties *)

\* Every variable has its type.
TypeOK ==
    /\ row \in [Proposals -> Row]
    /\ disk \in [Proposals -> Row]
    /\ pc \in [Coroutines -> HandlerPoints \cup ScannerPoints]
    /\ cur \in [Coroutines -> Proposals \cup {None}]
    /\ todo \in [Coroutines -> SUBSET Proposals]
    /\ manual \in [Proposals -> Nat]
    /\ auto \in [Proposals -> Nat]
    /\ late \in [Proposals -> BOOLEAN]
    /\ mode \in Modes
    /\ cuts \in 0..MaxFaults
    /\ lost \in 0..MaxFaults
    /\ undone \subseteq Proposals

\* A proposal that says it was executed (executed_order_id is set) has an order, on the
\* exchange or among the paper trades: after any interleaving of approve, the scanners,
\* lost answers and a crash between the trade, the UPDATE and the commit.  Two things break
\* it: an adapter that returns when it is refused, and a rollback that takes the paper
\* trade back before the proposal is marked.
RecordedOrderExists ==
    \A p \in Truthful \ undone : \A r \in {row[p], disk[p]} :
        r.linked => manual[p] + auto[p] + r.trades > 0

\* approve commits its decision before it calls the exchange: whenever an order of its
\* exists there, a restart finds the proposal decided and cannot approve it again, unless
\* a rollback came between its UPDATE and its commit.
ManualWriteAhead ==
    \A p \in Proposals \ undone : manual[p] > 0 => Decided(disk[p].status)

\* Two approve requests that overlap both pass the status test and both place an order, but
\* no request does so twice, and neither a lost answer nor a restart lets any in again: a
\* proposal has at most one order of approve per request that can be in flight at the same
\* time, unless a rollback came between the UPDATE and the commit of one.
ManualOncePerHandler == \A p \in Proposals \ undone : manual[p] <= Cardinality(Handlers)

\* Of requests that come one at a time that is one order, restarts included.
ManualAtMostOnce == \A p \in Proposals \ undone : manual[p] <= 1

\* Auto-execution places its order before it records anything: a crash in between repeats
\* it after the restart, a rollback before the commit repeats it in the next period, and the
\* two scanners, which both auto-execute, can both do so from snapshots taken at the same
\* time; an exception behind the order repeats one more.  Nothing else makes it happen more
\* often, whatever requests interleave.
AutoOncePerScanner ==
    \A p \in Proposals :
        auto[p] + row[p].trades <= Cardinality(Scanners) * (1 + cuts) + lost

\* A decision is never undone: on disk never, in the connection's view only by a crash
\* or a rollback that came before the commit.
DecisionDurable ==
    [][\A p \in Proposals :
          /\ Decided(disk[p].status) => Decided(disk'[p].status)
          /\ Decided(row[p].status) /\ ~Decided(row'[p].status)
                => (Restart \/ SomeoneRollsBack) /\ ~Decided(disk[p].status)]_vars

\* p is decided durably and nobody works on it or has it in a snapshot.
Closed(p) == /\ Decided(disk[p].status)
             /\ \A c \in Coroutines : cur[c] # p /\ p \notin todo[c]

\* p keeps its status, link and orders; a cut may still take a trade whose scan raised.
LeftAlone(p) == /\ Closed(p)'
                /\ row'[p].status = row[p].status
                /\ row'[p].linked = row[p].linked
                /\ row'[p].trades <= row[p].trades
                /\ <<manual'[p], auto'[p]>> = <<manual[p], auto[p]>>

\* Nobody ever picks up a closed proposal again, not even after a restart or a rollback:
\* every way in (approve, reject, check_expiry, both scans) tests the status it just read.
ClosedStaysClosed == [][\A p \in Proposals : Closed(p) => LeftAlone(p)]_vars

\* The expiry scanner enforces expires_at: a proposal past it leaves PROPOSED, even when
\* other rows of the snapshot keep raising and abort the scan.
DeadlineEnforced ==
    \A p \in Proposals :
        late[p] /\ row[p].status = "proposed" ~> row[p].status # "proposed"

\* The proposal state machine of step 2: PROPOSED -> APPROVED / REJECTED / EXPIRED,
\* APPROVED -> EXECUTED, and PROPOSED -> AUTO_EXECUTED of step 3.
LegalTransitions ==
    [][\A p \in Proposals :
          /\ row'[p].status # row[p].status
          /\ Exists(p)
          /\ ~Restart /\ ~SomeoneRollsBack
          => \/ row[p].status = "proposed" /\ row'[p].status # "executed"
             \/ row[p].status = "approved" /\ row'[p].status = "executed"]_vars

\* The lifecycle as a restart would find it: the committed status of every row.
Lifecycle == INSTANCE ProposalLifecycle
             WITH status <- [p \in Proposals |-> disk[p].status],
                  orders <- manual

\* Requests that come one at a time implement the lifecycle, lost answers, refusals,
\* restarts and rollbacks included.
ImplementsLifecycle == Lifecycle!Spec
=============================================================================
