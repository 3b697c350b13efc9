--------------------------- MODULE SharedConnection ---------------------------
(***************************************************************************)
(* Transactions on the aiosqlite connection that lifespan() opens and all  *)
(* components it builds share (main.py; the REST order manager has another *)
(* one).  The portfolio tracker opens a transaction explicitly             *)
(* (portfolio/tracker.py), the Co-Pilot leaves one open across its call of *)
(* the model (llm/copilot.py), everybody else opens one implicitly with a  *)
(* first write; and each commit or rollback ends the transaction for all.  *)
(*                                                                         *)
(* sqlite3 opens a transaction before any INSERT, UPDATE or DELETE that    *)
(* finds none, and leaves it open when that statement fails.               *)
(***************************************************************************)
EXTENDS Naturals, FiniteSets

CONSTANTS
    Assets,      \* balances of the active exchange: the rows of one snapshot
    Sessions,    \* Co-Pilot sessions that exist
    Clients,     \* Co-Pilot requests in flight
    None,        \* no session
    MaxSends,    \* bound: messages sent
    MaxRounds,   \* bound: snapshots begun
    MaxCrashes   \* bound: restarts of the process, orderly ones included

ASSUME ConnectionAssumption ==
    /\ Assets # {}
    /\ IsFiniteSet(Assets)
    /\ None \notin Sessions
    /\ MaxSends \in Nat
    /\ MaxRounds \in Nat
    /\ MaxCrashes \in Nat

VARIABLES
    tables,   \* the tables as the connection sees them
    disk,     \* the same as last committed
    inTxn,    \* a transaction is open
    pc,       \* pc[c]: the await at which client c is suspended
    job,      \* job[c]: the message c sends or the session it deletes
    snapper,  \* where the tracker is: "sleep", "begin", "insert", "rollback"
    left,     \* balances the running snapshot has still to insert
    round,    \* snapshots begun
    stopping, \* PortfolioTracker.stop was called
    owed,     \* history: the final snapshot has begun and no statement of it failed
    sends,    \* messages sent
    replied,  \* history: messages whose reply was returned
    broken,   \* history: messages whose writes a rollback undid or a restart cut
    deleted,  \* history: sessions somebody began to delete
    torn,     \* history: snapshots of which someone else committed a part
    crashes   \* restarts so far

clients == <<pc, job, sends, replied, deleted>>
tracker == <<snapper, left, round, stopping, owed>>
vars == <<tables, disk, inTxn, pc, job, snapper, left, round, stopping, owed, sends,
          replied, broken, deleted, torn, crashes>>

-----------------------------------------------------------------------------
(* Types and helpers *)

Message == [session : Sessions, send : Nat, role : {"user", "assistant"}]

\* portfolio_snapshots by round and asset, copilot_messages, and message_count of the
\* copilot_sessions that exist.
Tables == [rows : SUBSET (Nat \X Assets), messages : SUBSET Message,
           sessions : SUBSET Sessions, count : [Sessions -> Nat]]

Job == [session : Sessions \cup {None}, send : Nat]
NoJob == [session |-> None, send |-> 0]

Points == {"idle", "history", "model", "assistant", "count", "commit", "failed",
           "session", "deleteCommit"}

Init ==
    /\ tables = [rows |-> {}, messages |-> {}, sessions |-> Sessions,
                 count |-> [s \in Sessions |-> 0]]
    /\ disk = tables
    /\ inTxn = FALSE
    /\ pc = [c \in Clients |-> "idle"]
    /\ job = [c \in Clients |-> NoJob]
    /\ snapper = "sleep"
    /\ left = {}
    /\ round = 0
    /\ stopping = FALSE
    /\ owed = FALSE
    /\ sends = 0
    /\ replied = {}
    /\ broken = {}
    /\ deleted = {}
    /\ torn = {}
    /\ crashes = 0

\* Mutant of Write: as if each statement committed itself.
WriteOutside(t) == /\ tables' = t
                   /\ UNCHANGED <<disk, inTxn>>

\* A write: it opens a transaction unless there is one.
Write(t) == /\ tables' = t
            /\ inTxn' = TRUE
            /\ UNCHANGED disk

\* db.commit(), which is silent when there is nothing to commit.
Commit == /\ disk' = tables
          /\ inTxn' = FALSE
          /\ UNCHANGED tables

Unwritten == tables.rows \ disk.rows

\* A commit that is not the tracker's: it may cut a snapshot in two.
CommitOfOthers == /\ Commit
                  /\ torn' = torn \cup {r[1] : r \in Unwritten}

Goto(c, from, to) == /\ pc[c] = from
                     /\ pc' = [pc EXCEPT ![c] = to]

Finish(c, from) == /\ Goto(c, from, "idle")
                   /\ job' = [job EXCEPT ![c] = NoJob]

Msg(c, role) == [session |-> job[c].session, send |-> job[c].send, role |-> role]

-----------------------------------------------------------------------------
(* CoPilotEngine.send_message *)

\* The user's message is inserted and not committed.
Send(c, s) ==
    /\ ~stopping
    /\ sends < MaxSends
    /\ Goto(c, "idle", "history")
    /\ sends' = sends + 1
    /\ job' = [job EXCEPT ![c] = [session |-> s, send |-> sends + 1]]
    /\ Write([tables EXCEPT !.messages =
                @ \cup {[session |-> s, send |-> sends + 1, role |-> "user"]}])
    /\ UNCHANGED <<tracker, replied, broken, deleted, torn, crashes>>

\* Market data and portfolio are gathered, the session's earlier messages are loaded.
LoadHistory(c) ==
    /\ Goto(c, "history", "model")
    /\ UNCHANGED <<tables, disk, inTxn, tracker, job, sends, replied, broken, deleted, torn,
                   crashes>>

ModelAnswers(c) ==
    /\ Goto(c, "model", "assistant")
    /\ UNCHANGED <<tables, disk, inTxn, tracker, job, sends, replied, broken, deleted, torn,
                   crashes>>

\* An exception or the 60 s timeout: the user's message is committed, the error raised.
ModelFails(c) ==
    /\ Finish(c, "model")
    /\ CommitOfOthers
    /\ UNCHANGED <<tracker, sends, replied, broken, deleted, crashes>>

InsertAssistant(c) ==
    /\ Goto(c, "assistant", "count")
    /\ Write([tables EXCEPT !.messages = @ \cup {Msg(c, "assistant")}])
    /\ UNCHANGED <<tracker, job, sends, replied, broken, deleted, torn, crashes>>

\* message_count + 2, computed in the database; no row matches a session that is gone.
BumpCount(c) ==
    /\ Goto(c, "count", "commit")
    /\ Write(IF job[c].session \in tables.sessions
             THEN [tables EXCEPT !.count[job[c].session] = @ + 2]
             ELSE tables)
    /\ UNCHANGED <<tracker, job, sends, replied, broken, deleted, torn, crashes>>

\* Mutant of Reply: the commit is left out.
ReplyUncommitted(c) ==
    /\ Finish(c, "commit")
    /\ replied' = replied \cup {<<job[c].session, job[c].send>>}
    /\ UNCHANGED <<tables, disk, inTxn, tracker, sends, broken, deleted, torn, crashes>>

Reply(c) ==
    /\ Finish(c, "commit")
    /\ CommitOfOthers
    /\ replied' = replied \cup {<<job[c].session, job[c].send>>}
    /\ UNCHANGED <<tracker, sends, broken, deleted, crashes>>

-----------------------------------------------------------------------------
(* CoPilotEngine.delete_session *)

\* The messages first.  Nobody looks whether one is being answered.
DeleteMessages(c, s) ==
    /\ ~stopping
    /\ s \in tables.sessions
    /\ Goto(c, "idle", "session")
    /\ job' = [job EXCEPT ![c] = [NoJob EXCEPT !.session = s]]
    /\ deleted' = deleted \cup {s}
    /\ Write([tables EXCEPT !.messages = {m \in @ : m.session # s}])
    /\ UNCHANGED <<tracker, sends, replied, broken, torn, crashes>>

DeleteSession(c) ==
    /\ Goto(c, "session", "deleteCommit")
    /\ Write([tables EXCEPT !.sessions = @ \ {job[c].session},
                            !.count[job[c].session] = 0])
    /\ UNCHANGED <<tracker, job, sends, replied, broken, deleted, torn, crashes>>

DeleteCommit(c) ==
    /\ Finish(c, "deleteCommit")
    /\ CommitOfOthers
    /\ UNCHANGED <<tracker, sends, replied, broken, deleted, crashes>>

-----------------------------------------------------------------------------
(* PortfolioTracker.save_snapshot, every minute and when the tracker stops *)

\* The balances are copied from memory.
SnapStart ==
    /\ snapper = "sleep"
    /\ round < MaxRounds
    /\ ~stopping
    /\ snapper' = "begin"
    /\ round' = round + 1
    /\ left' = Assets
    /\ UNCHANGED <<tables, disk, inTxn, clients, stopping, owed, broken, torn, crashes>>

\* BEGIN TRANSACTION is outside the try.
SnapBegin ==
    /\ snapper = "begin"
    /\ ~inTxn
    /\ inTxn' = TRUE
    /\ snapper' = "insert"
    /\ owed' = stopping
    /\ UNCHANGED <<tables, disk, clients, left, round, stopping, broken, torn, crashes>>

SnapQuits == /\ snapper' = "sleep"
             /\ left' = {}
             /\ UNCHANGED <<round, stopping>>

\* A transaction within a transaction is refused; the round is skipped.
SnapBeginFails ==
    /\ snapper = "begin"
    /\ inTxn
    /\ SnapQuits
    /\ UNCHANGED <<tables, disk, inTxn, clients, owed, broken, torn, crashes>>

SnapInsert(a) ==
    /\ snapper = "insert"
    /\ a \in left
    /\ left' = left \ {a}
    /\ Write([tables EXCEPT !.rows = @ \cup {<<round, a>>}])
    /\ UNCHANGED <<clients, snapper, round, stopping, owed, broken, torn, crashes>>

\* The database is locked by the other connection, or full.
SnapInsertFails ==
    /\ snapper = "insert"
    /\ left # {}
    /\ inTxn' = TRUE
    /\ snapper' = "rollback"
    /\ owed' = FALSE
    /\ UNCHANGED <<tables, disk, clients, left, round, stopping, broken, torn, crashes>>

\* Mutant of SnapCommit: the COMMIT is left to whoever commits next.
SnapCommitLater ==
    /\ snapper = "insert"
    /\ left = {}
    /\ inTxn
    /\ SnapQuits
    /\ UNCHANGED <<tables, disk, inTxn, clients, owed, broken, torn, crashes>>

SnapCommit ==
    /\ snapper = "insert"
    /\ left = {}
    /\ inTxn
    /\ Commit
    /\ SnapQuits
    /\ UNCHANGED <<clients, owed, broken, torn, crashes>>

\* Somebody else committed after the last INSERT: COMMIT raises.
SnapCommitFails ==
    /\ snapper = "insert"
    /\ left = {}
    /\ ~inTxn
    /\ snapper' = "rollback"
    /\ UNCHANGED <<tables, disk, inTxn, clients, left, round, stopping, owed, broken, torn,
                   crashes>>

\* Messages with a part that is not committed.
Pending == {<<m.session, m.send>> : m \in (tables.messages \ disk.messages)}

\* Messages whose sender has not returned yet: their count may be the part that is lost.
InFlight == {<<job[c].session, job[c].send>> : c \in {d \in Clients : job[d].send # 0}}

\* Mutant of SnapRollback: the exception is handled without a ROLLBACK.
SnapRollbackNot ==
    /\ snapper = "rollback"
    /\ Commit
    /\ SnapQuits
    /\ UNCHANGED <<clients, owed, broken, torn, crashes>>

\* ROLLBACK undoes what anybody has pending; without a transaction it raises in its turn.
SnapRollback ==
    /\ snapper = "rollback"
    /\ tables' = disk
    /\ inTxn' = FALSE
    /\ broken' = broken \cup Pending \cup (IF inTxn THEN InFlight ELSE {})
    /\ SnapQuits
    /\ UNCHANGED <<disk, clients, owed, torn, crashes>>

-----------------------------------------------------------------------------
(* The environment *)

\* Any other component writes and has not committed yet (an order being settled, also
\* while the tracker stops), or never does: the INSERT of a guardrail's breach always fails.
SomeoneWrites ==
    /\ ~inTxn
    /\ inTxn' = TRUE
    /\ UNCHANGED <<tables, disk, clients, tracker, broken, torn, crashes>>

\* Any other component commits.
SomeoneCommits ==
    /\ inTxn
    /\ CommitOfOthers
    /\ UNCHANGED <<clients, tracker, broken, crashes>>

\* Shutdown, requests are over: stop() cancels the loop wherever it is (CancelledError is
\* no Exception, so there is no ROLLBACK) and saves a final snapshot.
Stop ==
    /\ ~stopping
    /\ \A c \in Clients : pc[c] = "idle"
    /\ stopping' = TRUE
    /\ owed' = FALSE
    /\ snapper' = "begin"
    /\ round' = round + 1
    /\ left' = Assets
    /\ UNCHANGED <<tables, disk, inTxn, clients, broken, torn, crashes>>

\* The connection is closed without a commit and the process starts again.
Reopen ==
    /\ crashes < MaxCrashes
    /\ crashes' = crashes + 1
    /\ tables' = disk
    /\ inTxn' = FALSE
    /\ pc' = [c \in Clients |-> "idle"]
    /\ job' = [c \in Clients |-> NoJob]
    /\ snapper' = "sleep"
    /\ left' = {}
    /\ stopping' = FALSE
    /\ owed' = FALSE
    /\ broken' = broken \cup InFlight
    /\ UNCHANGED <<disk, round, sends, replied, deleted, torn>>

Close == stopping /\ snapper = "sleep" /\ Reopen

Crash == ~stopping /\ Reopen

-----------------------------------------------------------------------------
(* Specification *)

ClientStep(c) ==
    \/ \E s \in Sessions : Send(c, s) \/ DeleteMessages(c, s)
    \/ LoadHistory(c) \/ ModelAnswers(c) \/ ModelFails(c)
    \/ InsertAssistant(c) \/ BumpCount(c) \/ Reply(c)
    \/ DeleteSession(c) \/ DeleteCommit(c)

SnapStep ==
    \/ SnapStart \/ SnapBegin \/ SnapBeginFails
    \/ \E a \in Assets : SnapInsert(a)
    \/ SnapInsertFails \/ SnapCommit \/ SnapCommitFails \/ SnapRollback

Next == \/ \E c \in Clients : ClientStep(c)
        \/ SnapStep
        \/ SomeoneWrites \/ SomeoneCommits \/ Stop \/ Close \/ Crash

Spec == Init /\ [][Next]_vars

-----------------------------------------------------------------------------
(* Properties *)

\* Every variable has its type, and writes are pending only while a transaction is open.
TypeOK ==
    /\ tables \in Tables
    /\ disk \in Tables
    /\ inTxn \in BOOLEAN
    /\ pc \in [Clients -> Points]
    /\ job \in [Clients -> Job]
    /\ snapper \in {"sleep", "begin", "insert", "rollback"}
    /\ left \subseteq Assets
    /\ round \in Nat
    /\ stopping \in BOOLEAN
    /\ owed \in BOOLEAN
    /\ sends \in 0 .. MaxSends
    /\ replied \subseteq Sessions \X Nat
    /\ broken \subseteq Sessions \X Nat
    /\ deleted \subseteq Sessions
    /\ torn \subseteq Nat
    /\ crashes \in 0 .. MaxCrashes
    /\ tables # disk => inTxn

\* A snapshot is in the database whole or not at all (what its transaction is for), after
\* failed statements, skipped rounds, cancellation and crashes, as long as nobody else
\* commits while a part of it is pending.
SnapshotWhole ==
    \A k \in 1 .. round : k \notin torn =>
        {r[2] : r \in {s \in disk.rows : s[1] = k}} \in {{}, Assets}

\* Nobody works on the session, and nothing of it was rolled back or deleted.
Settled(s) == /\ \A c \in Clients : job[c].session # s
              /\ s \notin deleted
              /\ \A b \in broken : b[1] # s

\* Once the reply was returned, the user's message and the assistant's are on disk, unless
\* a failed snapshot rolled them back before their commit or the session was deleted; and
\* message_count is two for every answer, however the requests of the session overlap.
ReplyDurable ==
    /\ \A r \in replied : r \notin broken /\ r[1] \notin deleted =>
           \A role \in {"user", "assistant"} :
               [session |-> r[1], send |-> r[2], role |-> role] \in disk.messages
    /\ \A s \in Sessions : Settled(s) =>
           tables.count[s] = 2 * Cardinality({m \in tables.messages :
                                                m.session = s /\ m.role = "assistant"})

\* Once the final snapshot of stop() has begun and its inserts succeed, it is in the database
\* before the connection is closed, whoever else writes and commits meanwhile.
FinalSnapshotSaved == [][Close /\ owed => {<<round, a>> : a \in Assets} \subseteq disk.rows]_vars
=============================================================================
