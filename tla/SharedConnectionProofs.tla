------------------------ MODULE SharedConnectionProofs ------------------------
(***************************************************************************)
(* Proofs about SharedConnection, for any balances, sessions, clients and  *)
(* numbers of messages, snapshots and restarts.                            *)
(*                                                                         *)
(* Snapshots (SnapOK): when one begins, nothing is pending, so that until  *)
(* it ends only its own rows are, and whoever commits them too early tears *)
(* this one.  Replies (StoredOK, WrittenOK): what is pending belongs to a  *)
(* request in flight, because every request ends with a commit; a rollback *)
(* and a restart break those in flight and nothing else.  CountOK leaves   *)
(* out the answers whose request is between its INSERT and its UPDATE.     *)
(***************************************************************************)
EXTENDS SharedConnection, FiniteSetTheorems, TLAPS

-----------------------------------------------------------------------------
(* Snapshots *)

\* The balances of round k in t.
Saved(t, k) == {a \in Assets : <<k, a>> \in t.rows}

SnapOK ==
    /\ \A r \in tables.rows : r[1] \in 1 .. round
    /\ disk.rows \subseteq tables.rows
    /\ \A k \in 1 .. round : k \notin torn => Saved(disk, k) \in {{}, Assets}
    /\ snapper = "begin" => /\ round # 0
                            /\ left = Assets
                            /\ Saved(tables, round) = {}
                            /\ ~owed
    /\ snapper = "insert" =>
          /\ round # 0
          /\ Saved(tables, round) = Assets \ left
          /\ \A r \in Unwritten : r[1] = round
          /\ round \notin torn => Saved(disk, round) = {}
    /\ owed => stopping
    /\ owed /\ snapper \in {"rollback", "sleep"} => Saved(disk, round) = Assets

-----------------------------------------------------------------------------
(* Messages *)

Sending == {"history", "model", "assistant", "count", "commit"}
Deleting == {"session", "deleteCommit"}

ClientOK ==
    /\ \A c \in Clients :
          /\ pc[c] \in {"idle"} \cup Sending \cup Deleting
          /\ pc[c] = "idle" => job[c] = NoJob
          /\ pc[c] \in Sending => job[c].session \in Sessions /\ job[c].send \in 1 .. sends
          /\ pc[c] \in Deleting => job[c].session \in deleted /\ job[c].send = 0
    /\ \A c, d \in Clients : c # d /\ job[c].send # 0 => job[c].send # job[d].send

StoredOK ==
    /\ \A m \in tables.messages \cup disk.messages : m.send \in 1 .. sends
    /\ \A s \in Sessions \ deleted : s \in tables.sessions /\ s \in disk.sessions
    /\ \A m \in disk.messages : m.session \notin deleted => m \in tables.messages
    /\ \A c \in Clients : pc[c] \in {"history", "model", "assistant"} =>
          Msg(c, "assistant") \notin tables.messages \cup disk.messages
    /\ Pending \subseteq InFlight

\* Nothing undid or deleted what was written for the message.
Sound(s, n) == <<s, n>> \notin broken /\ s \notin deleted

WrittenOK ==
    /\ \A c \in Clients : Sound(job[c].session, job[c].send) =>
          /\ pc[c] \in Sending => Msg(c, "user") \in tables.messages
          /\ pc[c] \in {"count", "commit"} => Msg(c, "assistant") \in tables.messages
    /\ \A r \in replied : Sound(r[1], r[2]) =>
          \A role \in {"user", "assistant"} :
              [session |-> r[1], send |-> r[2], role |-> role] \in tables.messages \cap disk.messages

\* Answers of s but those whose message_count has still to be raised.
Counted(s) ==
    {m \in tables.messages :
        /\ m.session = s
        /\ m.role = "assistant"
        /\ \A c \in Clients : pc[c] = "count" /\ job[c].session = s => job[c].send # m.send}

Intact(s) == s \notin deleted /\ \A b \in broken : b[1] # s

CountOK ==
    \A s \in Sessions : Intact(s) =>
        /\ IsFiniteSet(Counted(s))
        /\ tables.count[s] = 2 * Cardinality(Counted(s))
        /\ tables.count[s] # disk.count[s] =>
              \E c \in Clients : pc[c] = "commit" /\ job[c].session = s

MsgOK == ClientOK /\ StoredOK /\ WrittenOK /\ CountOK

IInv == TypeOK /\ SnapOK /\ MsgOK

-----------------------------------------------------------------------------
(* Types *)

StoreTyped ==
    /\ tables \in Tables
    /\ disk \in Tables
    /\ inTxn \in BOOLEAN
    /\ tables # disk => inTxn

ClientsTyped ==
    /\ pc \in [Clients -> Points]
    /\ job \in [Clients -> Job]
    /\ sends \in 0 .. MaxSends
    /\ replied \subseteq Sessions \X Nat
    /\ broken \subseteq Sessions \X Nat
    /\ deleted \subseteq Sessions
    /\ crashes \in 0 .. MaxCrashes

TrackerTyped ==
    /\ snapper \in {"sleep", "begin", "insert", "rollback"}
    /\ left \subseteq Assets
    /\ round \in Nat
    /\ stopping \in BOOLEAN
    /\ owed \in BOOLEAN
    /\ torn \subseteq Nat

\* The three together are the type invariant.
LEMMA TypesSplit ==
    /\ TypeOK => StoreTyped /\ ClientsTyped /\ TrackerTyped
    /\ StoreTyped' /\ ClientsTyped' /\ TrackerTyped' => TypeOK'
  BY DEF TypeOK, StoreTyped, ClientsTyped, TrackerTyped

\* A write leaves a table and an open transaction.
LEMMA WriteTyped ==
    ASSUME TypeOK, NEW t \in Tables, Write(t)
    PROVE  StoreTyped'
  BY DEF TypeOK, Write, StoreTyped

\* A commit leaves nothing pending.
LEMMA CommitTyped ==
    ASSUME TypeOK, Commit
    PROVE  StoreTyped'
  BY DEF TypeOK, Commit, StoreTyped

\* So does a commit that tears a snapshot.
LEMMA OthersTyped ==
    ASSUME TypeOK, SnapOK, CommitOfOthers, UNCHANGED tracker
    PROVE  StoreTyped' /\ TrackerTyped'
  <1>1. {r[1] : r \in Unwritten} \subseteq Nat
        BY DEF Unwritten, SnapOK, TypeOK
  <1>2. QED
        BY <1>1, CommitTyped DEF CommitOfOthers, TypeOK, TrackerTyped, tracker

\* A client goes on.
LEMMA GotoTyped ==
    ASSUME TypeOK, NEW c \in Clients, NEW from, NEW to \in Points, Goto(c, from, to)
    PROVE  pc' \in [Clients -> Points]
  BY DEF TypeOK, Goto

\* Nobody's job is a job.
LEMMA NoJobTyped == NoJob \in Job
  BY DEF NoJob, Job

\* A client is done.
LEMMA FinishTyped ==
    ASSUME TypeOK, NEW c \in Clients, NEW from, Finish(c, from)
    PROVE  pc' \in [Clients -> Points] /\ job' \in [Clients -> Job]
  BY NoJobTyped DEF TypeOK, Finish, Goto, Points

\* A tracker's step leaves the clients alone.
LEMMA OnlyTracker ==
    ASSUME TypeOK, UNCHANGED <<clients, broken, crashes>>
    PROVE  ClientsTyped'
  BY DEF TypeOK, ClientsTyped, clients

\* The variables have their types at the start.
LEMMA InitTypes == Init => TypeOK
  <1> SUFFICES ASSUME Init PROVE TypeOK
      OBVIOUS
  <1>1. tables \in Tables /\ disk \in Tables
        BY DEF Init, Tables
  <1>2. pc \in [Clients -> Points] /\ job \in [Clients -> Job]
        BY NoJobTyped DEF Init, Points
  <1>3. sends \in 0 .. MaxSends /\ crashes \in 0 .. MaxCrashes
        BY ConnectionAssumption DEF Init
  <1>4. QED
        BY <1>1, <1>2, <1>3 DEF Init, TypeOK

\* Every step keeps the types.
LEMMA StepTypes ==
    ASSUME TypeOK, SnapOK, ClientOK, [Next]_vars
    PROVE  TypeOK'
  <1> USE TypesSplit
  <1>t. StoreTyped /\ ClientsTyped /\ TrackerTyped
        OBVIOUS
  <1>1. ASSUME NEW c \in Clients, NEW s \in Sessions, Send(c, s)
        PROVE  TypeOK'
    <2> DEFINE m == [session |-> s, send |-> sends + 1, role |-> "user"]
               t == [tables EXCEPT !.messages = @ \cup {m}]
    <2>1. sends + 1 \in 0 .. MaxSends /\ sends + 1 \in Nat
          BY <1>1, ConnectionAssumption DEF Send, TypeOK
    <2>2. m \in Message
          BY <2>1 DEF Message
    <2>3. t \in Tables
          BY <2>2 DEF TypeOK, Tables
    <2>4. StoreTyped'
          BY <1>1, <2>3, WriteTyped DEF Send
    <2>5. [session |-> s, send |-> sends + 1] \in Job
          BY <2>1 DEF Job
    <2>6. pc' \in [Clients -> Points]
          BY <1>1, GotoTyped DEF Send, Points
    <2>7. QED
          BY <1>1, <2>1, <2>4, <2>5, <2>6 DEF Send, ClientsTyped, TrackerTyped, tracker, TypeOK
  <1>2. ASSUME NEW c \in Clients, LoadHistory(c) \/ ModelAnswers(c)
        PROVE  TypeOK'
    <2>1. pc' \in [Clients -> Points]
          BY <1>2, GotoTyped DEF LoadHistory, ModelAnswers, Points
    <2>2. QED
          BY <1>2, <1>t, <2>1 DEF LoadHistory, ModelAnswers, StoreTyped, ClientsTyped,
             TrackerTyped, tracker
  <1>3. ASSUME NEW c \in Clients, ModelFails(c) \/ Reply(c) \/ DeleteCommit(c)
        PROVE  TypeOK'
    <2>1. StoreTyped' /\ TrackerTyped'
          BY <1>3, OthersTyped DEF ModelFails, Reply, DeleteCommit, tracker
    <2>2. pc' \in [Clients -> Points] /\ job' \in [Clients -> Job]
          BY <1>3, FinishTyped DEF ModelFails, Reply, DeleteCommit
    <2>3. replied' \subseteq Sessions \X Nat
      <3>1. CASE Reply(c)
        <4>1. pc[c] \in Sending
              BY <3>1 DEF Reply, Finish, Goto, Sending
        <4>2. job[c].session \in Sessions /\ job[c].send \in Nat
              BY <4>1 DEF ClientOK, TypeOK, Job
        <4>3. QED
              BY <3>1, <4>2 DEF Reply, TypeOK
      <3>2. QED
            BY <1>3, <3>1 DEF ModelFails, DeleteCommit, TypeOK
    <2>4. QED
          BY <1>3, <1>t, <2>1, <2>2, <2>3 DEF ModelFails, Reply, DeleteCommit, ClientsTyped
  <1>4. ASSUME NEW c \in Clients, InsertAssistant(c)
        PROVE  TypeOK'
    <2>1. pc[c] \in Sending
          BY <1>4 DEF InsertAssistant, Goto, Sending
    <2>2. job[c].session \in Sessions /\ job[c].send \in Nat
          BY <2>1 DEF ClientOK, TypeOK, Job
    <2>3. Msg(c, "assistant") \in Message
          BY <2>2 DEF Msg, Message
    <2>4. [tables EXCEPT !.messages = @ \cup {Msg(c, "assistant")}] \in Tables
          BY <2>3 DEF TypeOK, Tables
    <2>5. StoreTyped'
          BY <1>4, <2>4, WriteTyped DEF InsertAssistant
    <2>6. pc' \in [Clients -> Points]
          BY <1>4, GotoTyped DEF InsertAssistant, Points
    <2>7. QED
          BY <1>4, <1>t, <2>5, <2>6 DEF InsertAssistant, ClientsTyped, TrackerTyped, tracker
  <1>5. ASSUME NEW c \in Clients, BumpCount(c)
        PROVE  TypeOK'
    <2> DEFINE t == IF job[c].session \in tables.sessions
                    THEN [tables EXCEPT !.count[job[c].session] = @ + 2]
                    ELSE tables
    <2>1. t \in Tables
          BY DEF TypeOK, Tables
    <2>2. StoreTyped'
          BY <1>5, <2>1, WriteTyped DEF BumpCount
    <2>3. pc' \in [Clients -> Points]
          BY <1>5, GotoTyped DEF BumpCount, Points
    <2>4. QED
          BY <1>5, <1>t, <2>2, <2>3 DEF BumpCount, ClientsTyped, TrackerTyped, tracker
  <1>6. ASSUME NEW c \in Clients, NEW s \in Sessions, DeleteMessages(c, s)
        PROVE  TypeOK'
    <2> DEFINE t == [tables EXCEPT !.messages = {m \in @ : m.session # s}]
    <2>1. t \in Tables
          BY DEF TypeOK, Tables
    <2>2. StoreTyped'
          BY <1>6, <2>1, WriteTyped DEF DeleteMessages
    <2>3. [NoJob EXCEPT !.session = s] \in Job
          BY DEF NoJob, Job
    <2>4. pc' \in [Clients -> Points]
          BY <1>6, GotoTyped DEF DeleteMessages, Points
    <2>5. QED
          BY <1>6, <1>t, <2>2, <2>3, <2>4
             DEF DeleteMessages, ClientsTyped, TrackerTyped, tracker, TypeOK
  <1>7. ASSUME NEW c \in Clients, DeleteSession(c)
        PROVE  TypeOK'
    <2> DEFINE t == [tables EXCEPT !.sessions = @ \ {job[c].session},
                                   !.count[job[c].session] = 0]
    <2>1. t \in Tables
          BY DEF TypeOK, Tables
    <2>2. StoreTyped'
          BY <1>7, <2>1, WriteTyped DEF DeleteSession
    <2>3. pc' \in [Clients -> Points]
          BY <1>7, GotoTyped DEF DeleteSession, Points
    <2>4. QED
          BY <1>7, <1>t, <2>2, <2>3 DEF DeleteSession, ClientsTyped, TrackerTyped, tracker
  <1>8. CASE SnapStart \/ SnapBeginFails \/ SnapInsertFails \/ Stop
    <2>1. ClientsTyped'
          BY <1>8, OnlyTracker DEF SnapStart, SnapBeginFails, SnapInsertFails, Stop
    <2>a. ASSUME SnapStart PROVE TrackerTyped'
          BY <2>a DEF SnapStart, TypeOK, TrackerTyped
    <2>b. ASSUME SnapBeginFails \/ SnapInsertFails PROVE TrackerTyped'
          BY <2>b DEF SnapBeginFails, SnapInsertFails, SnapQuits, TypeOK, TrackerTyped
    <2>c. ASSUME Stop PROVE TrackerTyped'
      <3>1. snapper' = "begin" /\ left' = Assets /\ round' = round + 1 /\ stopping' = TRUE
            /\ owed' = FALSE /\ torn' = torn
            BY <2>c DEF Stop
      <3>2. stopping' \in BOOLEAN /\ owed' \in BOOLEAN
            BY <3>1
      <3>3. snapper' \in {"sleep", "begin", "insert", "rollback"} /\ left' \subseteq Assets
            BY <3>1
      <3>4. round' \in Nat /\ torn' \subseteq Nat
            BY <3>1 DEF TypeOK
      <3>5. QED
            BY <3>2, <3>3, <3>4 DEF TrackerTyped
    <2>2. TrackerTyped'
          BY <1>8, <2>a, <2>b, <2>c
    <2>3. StoreTyped'
          BY <1>8 DEF SnapStart, SnapBeginFails, SnapInsertFails, Stop, TypeOK, StoreTyped
    <2>4. QED
          BY <2>1, <2>2, <2>3
  <1>9. CASE SnapBegin \/ SnapCommitFails
    <2>1. ClientsTyped'
          BY <1>9, OnlyTracker DEF SnapBegin, SnapCommitFails
    <2>2. TrackerTyped'
          BY <1>9 DEF SnapBegin, SnapCommitFails, TypeOK, TrackerTyped
    <2>3. StoreTyped'
          BY <1>9 DEF SnapBegin, SnapCommitFails, TypeOK, StoreTyped
    <2>4. QED
          BY <2>1, <2>2, <2>3
  <1>10. ASSUME NEW a \in Assets, SnapInsert(a)
         PROVE  TypeOK'
    <2>1. [tables EXCEPT !.rows = @ \cup {<<round, a>>}] \in Tables
          BY DEF TypeOK, Tables
    <2>2. StoreTyped'
          BY <1>10, <2>1, WriteTyped DEF SnapInsert
    <2>3. ClientsTyped'
          BY <1>10, OnlyTracker DEF SnapInsert
    <2>4. QED
          BY <1>10, <2>2, <2>3 DEF SnapInsert, TypeOK, TrackerTyped
  <1>11. CASE SnapCommit
    <2>1. StoreTyped'
          BY <1>11, CommitTyped DEF SnapCommit
    <2>2. ClientsTyped'
          BY <1>11, OnlyTracker DEF SnapCommit
    <2>3. QED
          BY <1>11, <2>1, <2>2 DEF SnapCommit, SnapQuits, TypeOK, TrackerTyped
  <1>12. InFlight \subseteq Sessions \X Nat
    <2> SUFFICES ASSUME NEW c \in Clients, job[c].send # 0
                 PROVE  job[c].session \in Sessions /\ job[c].send \in Nat
        BY DEF InFlight
    <2>1. pc[c] \in Sending
          BY DEF ClientOK, NoJob
    <2>2. QED
          BY <2>1 DEF ClientOK, TypeOK, Job
  <1>13. CASE SnapRollback
    <2>1. StoreTyped'
          BY <1>13 DEF SnapRollback, TypeOK, StoreTyped
    <2>2. Pending \subseteq Sessions \X Nat
          BY DEF Pending, TypeOK, Tables, Message
    <2>3. ClientsTyped'
          BY <1>13, <1>12, <2>2 DEF SnapRollback, clients, TypeOK, ClientsTyped
    <2>4. QED
          BY <1>13, <2>1, <2>3 DEF SnapRollback, SnapQuits, TypeOK, TrackerTyped
  <1>14. CASE SomeoneWrites
         BY <1>14, <1>t DEF SomeoneWrites, StoreTyped, ClientsTyped, TrackerTyped, clients, tracker
  <1>15. CASE SomeoneCommits
    <2>1. StoreTyped' /\ TrackerTyped'
          BY <1>15, OthersTyped DEF SomeoneCommits, tracker
    <2>2. QED
          BY <1>15, <2>1, OnlyTracker DEF SomeoneCommits
  <1>16. CASE Reopen
    <2>1. StoreTyped'
          BY <1>16 DEF Reopen, TypeOK, StoreTyped
    <2>2. TrackerTyped'
          BY <1>16 DEF Reopen, TypeOK, TrackerTyped
    <2>3. pc' \in [Clients -> Points] /\ job' \in [Clients -> Job]
          BY <1>16, NoJobTyped DEF Reopen, Points
    <2>4. crashes' \in 0 .. MaxCrashes
          BY <1>16, ConnectionAssumption DEF Reopen, TypeOK
    <2>5. QED
          BY <1>16, <1>12, <2>1, <2>2, <2>3, <2>4 DEF Reopen, TypeOK, ClientsTyped
  <1>17. CASE UNCHANGED vars
         BY <1>17 DEF vars, TypeOK
  <1>18. QED
         BY <1>1, <1>2, <1>3, <1>4, <1>5, <1>6, <1>7, <1>8, <1>9, <1>10, <1>11, <1>13, <1>14,
            <1>15, <1>16, <1>17
            DEF Next, ClientStep, SnapStep, Close, Crash

-----------------------------------------------------------------------------
(* Snapshots *)

\* No row yet.
LEMMA InitSnap == Init => SnapOK
  BY ConnectionAssumption DEF Init, SnapOK, Saved

\* Who leaves the rows alone leaves the snapshots alone.
LEMMA RowsAlone ==
    ASSUME SnapOK, tables'.rows = tables.rows, disk'.rows = disk.rows,
           UNCHANGED <<tracker, torn>>
    PROVE  SnapOK'
  BY DEF SnapOK, Saved, Unwritten, tracker

\* What is not torn by a commit had nothing pending.
LEMMA OthersTear ==
    ASSUME TypeOK, SnapOK, CommitOfOthers, UNCHANGED tracker
    PROVE  SnapOK'
  <1>1. /\ tables' = tables /\ disk' = tables
        /\ torn' = torn \cup {r[1] : r \in Unwritten}
        /\ snapper' = snapper /\ left' = left /\ round' = round /\ stopping' = stopping
        /\ owed' = owed
        BY DEF CommitOfOthers, Commit, tracker
  <1>2. ASSUME NEW k \in Nat, k \notin torn'
        PROVE  k \notin torn /\ Saved(tables, k) = Saved(disk, k)
    <2>1. ASSUME NEW a \in Assets, <<k, a>> \in tables.rows
          PROVE  <<k, a>> \in disk.rows
      <3>1. SUFFICES ASSUME <<k, a>> \in Unwritten PROVE FALSE
            BY <2>1 DEF Unwritten
      <3>2. <<k, a>>[1] \in torn'
            BY <1>1, <3>1
      <3>3. QED
            BY <1>2, <3>2
    <2>2. QED
          BY <1>1, <1>2, <2>1 DEF SnapOK, Saved
  <1>3. \A k \in 1 .. round' : k \notin torn' => Saved(disk', k) \in {{}, Assets}
        BY <1>1, <1>2 DEF SnapOK
  <1>4. snapper' = "insert" =>
          /\ round' # 0
          /\ Saved(tables', round') = Assets \ left'
          /\ \A r \in Unwritten' : r[1] = round'
          /\ round' \notin torn' => Saved(disk', round') = {}
        BY <1>1, <1>2 DEF SnapOK, Unwritten, TypeOK
  <1>5. owed' /\ snapper' \in {"rollback", "sleep"} => Saved(disk', round') = Assets
        BY <1>1 DEF SnapOK, Saved
  <1>6. QED
        BY <1>1, <1>3, <1>4, <1>5 DEF SnapOK

\* A round begins, in the loop or as the tracker stops.
LEMMA StartSnap ==
    ASSUME TypeOK, SnapOK, SnapStart \/ Stop
    PROVE  SnapOK'
  <1>1. /\ tables' = tables /\ disk' = disk /\ torn' = torn
        /\ round' = round + 1 /\ snapper' = "begin" /\ left' = Assets
        BY DEF SnapStart, Stop
  <1>2. ~owed'
        BY DEF SnapStart, Stop, SnapOK
  <1>3. \A a \in Assets : <<round + 1, a>> \notin tables.rows /\ <<round + 1, a>> \notin disk.rows
        BY DEF SnapOK, TypeOK
  <1>4. Saved(tables', round') = {} /\ Saved(disk', round') = {}
        BY <1>1, <1>3 DEF Saved
  <1>5. \A k \in 1 .. round' : k \in 1 .. round \/ k = round'
        BY <1>1 DEF TypeOK
  <1>6. \A k \in 1 .. round' : k \notin torn' => Saved(disk', k) \in {{}, Assets}
        BY <1>1, <1>4, <1>5 DEF SnapOK
  <1>7. \A r \in tables'.rows : r[1] \in 1 .. round'
        BY <1>1 DEF SnapOK, TypeOK
  <1>8. round' # 0
        BY <1>1 DEF TypeOK
  <1>9. QED
        BY <1>1, <1>2, <1>4, <1>6, <1>7, <1>8 DEF SnapOK

\* The transaction begins, and nothing is pending.
LEMMA BeginSnap ==
    ASSUME TypeOK, SnapOK, SnapBegin
    PROVE  SnapOK'
  <1>1. /\ tables' = tables /\ disk' = disk /\ torn' = torn /\ round' = round /\ left' = left
        /\ snapper = "begin" /\ snapper' = "insert" /\ owed' = stopping /\ stopping' = stopping
        /\ tables = disk
        BY DEF SnapBegin, TypeOK
  <1>2. Saved(tables, round) = {}
        BY <1>1 DEF SnapOK
  <1>3. Unwritten' = {}
        BY <1>1 DEF Unwritten
  <1>4. QED
        BY <1>1, <1>2, <1>3 DEF SnapOK

\* A round is given up before anything was inserted.
LEMMA SkipSnap ==
    ASSUME TypeOK, SnapOK, SnapBeginFails
    PROVE  SnapOK'
  BY DEF SnapBeginFails, SnapQuits, SnapOK, Saved, Unwritten

\* One row more of the running round.
LEMMA InsertSnap ==
    ASSUME TypeOK, SnapOK, NEW a \in Assets, SnapInsert(a)
    PROVE  SnapOK'
  <1>1. /\ disk' = disk /\ torn' = torn /\ round' = round /\ left' = left \ {a} /\ a \in left
        /\ snapper = "insert" /\ snapper' = "insert" /\ owed' = owed /\ stopping' = stopping
        BY DEF SnapInsert, Write
  <1>2. tables'.rows = tables.rows \cup {<<round, a>>}
        BY DEF SnapInsert, Write, TypeOK, Tables
  <1>3. round \in 1 .. round /\ round # 0
        BY <1>1 DEF SnapOK, TypeOK
  <1>4. Saved(tables, round) = Assets \ left
        BY <1>1 DEF SnapOK
  <1>5. Saved(tables', round') = Assets \ left'
        BY <1>1, <1>2, <1>4 DEF Saved, TypeOK
  <1>6. \A r \in Unwritten' : r[1] = round'
        BY <1>1, <1>2 DEF Unwritten, SnapOK
  <1>7. /\ \A r \in tables'.rows : r[1] \in 1 .. round'
        /\ disk'.rows \subseteq tables'.rows
        BY <1>1, <1>2, <1>3 DEF SnapOK
  <1>8. \A k \in 1 .. round' : k \notin torn' => Saved(disk', k) \in {{}, Assets}
        BY <1>1 DEF SnapOK
  <1>9. round' \notin torn' => Saved(disk', round') = {}
        BY <1>1 DEF SnapOK
  <1>10. owed' => stopping'
         BY <1>1 DEF SnapOK
  <1>11. QED
         BY <1>1, <1>3, <1>5, <1>6, <1>7, <1>8, <1>9, <1>10 DEF SnapOK

\* A statement fails; if it is the COMMIT, another one has been there after the last row.
LEMMA FailSnap ==
    ASSUME TypeOK, SnapOK, SnapInsertFails \/ SnapCommitFails
    PROVE  SnapOK'
  <1>1. /\ tables' = tables /\ disk' = disk /\ torn' = torn /\ round' = round /\ left' = left
        /\ snapper = "insert" /\ snapper' = "rollback" /\ stopping' = stopping
        BY DEF SnapInsertFails, SnapCommitFails
  <1>2. owed' => Saved(disk, round) = Assets /\ stopping
    <2>1. CASE SnapInsertFails
          BY <2>1 DEF SnapInsertFails
    <2>2. CASE SnapCommitFails
      <3>1. tables = disk /\ left = {} /\ owed' = owed
            BY <2>2 DEF SnapCommitFails, TypeOK
      <3>2. Saved(tables, round) = Assets
            BY <1>1, <3>1 DEF SnapOK
      <3>3. QED
            BY <3>1, <3>2 DEF SnapOK
    <2>3. QED
          BY <2>1, <2>2
  <1>3. QED
        BY <1>1, <1>2 DEF SnapOK

\* The snapshot is committed, and it is all there was.
LEMMA CommitSnap ==
    ASSUME TypeOK, SnapOK, SnapCommit
    PROVE  SnapOK'
  <1>1. /\ tables' = tables /\ disk' = tables /\ torn' = torn /\ round' = round /\ left = {}
        /\ snapper = "insert" /\ snapper' = "sleep" /\ owed' = owed /\ stopping' = stopping
        BY DEF SnapCommit, Commit, SnapQuits
  <1>2. Saved(tables, round) = Assets
        BY <1>1 DEF SnapOK
  <1>3. ASSUME NEW k \in 1 .. round, k # round
        PROVE  Saved(tables, k) = Saved(disk, k)
    <2>1. \A a \in Assets : <<k, a>> \notin Unwritten
          BY <1>1, <1>3 DEF SnapOK
    <2>2. QED
          BY <2>1 DEF Saved, Unwritten, SnapOK
  <1>4. \A k \in 1 .. round' : k \notin torn' => Saved(disk', k) \in {{}, Assets}
        BY <1>1, <1>2, <1>3 DEF SnapOK
  <1>5. QED
        BY <1>1, <1>2, <1>4 DEF SnapOK

\* The tables become what is on disk, after a ROLLBACK or a restart.
LEMMA UndoSnap ==
    ASSUME TypeOK, SnapOK, tables' = disk, disk' = disk, torn' = torn, round' = round,
           snapper' = "sleep",
           ~owed' \/ (snapper = "rollback" /\ owed' = owed /\ stopping' = stopping)
    PROVE  SnapOK'
  <1>1. owed' => stopping' /\ Saved(disk, round) = Assets
        BY DEF SnapOK
  <1>2. \A r \in disk.rows : r[1] \in 1 .. round
        BY DEF SnapOK
  <1>3. \A k \in 1 .. round : k \notin torn => Saved(disk, k) \in {{}, Assets}
        BY DEF SnapOK
  <1>4. QED
        BY <1>1, <1>2, <1>3 DEF SnapOK

\* A client's step writes no row of a snapshot.
LEMMA ClientsSnap ==
    ASSUME TypeOK, SnapOK, NEW c \in Clients, ClientStep(c)
    PROVE  SnapOK'
  <1>1. CASE \E s \in Sessions : Send(c, s) \/ DeleteMessages(c, s)
        BY <1>1, RowsAlone DEF Send, DeleteMessages, Write, TypeOK, Tables
  <1>2. CASE LoadHistory(c) \/ ModelAnswers(c)
        BY <1>2, RowsAlone DEF LoadHistory, ModelAnswers
  <1>3. CASE InsertAssistant(c) \/ DeleteSession(c)
        BY <1>3, RowsAlone DEF InsertAssistant, DeleteSession, Write, TypeOK, Tables
  <1>4. CASE BumpCount(c)
    <2>1. tables'.rows = tables.rows
          BY <1>4 DEF BumpCount, Write, TypeOK, Tables
    <2>2. QED
          BY <1>4, <2>1, RowsAlone DEF BumpCount, Write
  <1>5. CASE ModelFails(c) \/ Reply(c) \/ DeleteCommit(c)
        BY <1>5, OthersTear DEF ModelFails, Reply, DeleteCommit
  <1>6. QED
        BY <1>1, <1>2, <1>3, <1>4, <1>5 DEF ClientStep

\* Every step keeps the snapshots.
LEMMA StepSnap ==
    ASSUME TypeOK, SnapOK, [Next]_vars
    PROVE  SnapOK'
  <1>1. ASSUME NEW c \in Clients, ClientStep(c)
        PROVE  SnapOK'
        BY <1>1, ClientsSnap
  <1>2. CASE SnapStart \/ Stop
        BY <1>2, StartSnap
  <1>3. CASE SnapBegin \/ SnapBeginFails
        BY <1>3, BeginSnap, SkipSnap
  <1>4. ASSUME NEW a \in Assets, SnapInsert(a)
        PROVE  SnapOK'
        BY <1>4, InsertSnap
  <1>5. CASE SnapInsertFails \/ SnapCommitFails
        BY <1>5, FailSnap
  <1>6. CASE SnapCommit
        BY <1>6, CommitSnap
  <1>7. CASE SnapRollback
        BY <1>7, UndoSnap DEF SnapRollback, SnapQuits
  <1>8. CASE SomeoneWrites
        BY <1>8, RowsAlone DEF SomeoneWrites
  <1>9. CASE SomeoneCommits
        BY <1>9, OthersTear DEF SomeoneCommits
  <1>10. CASE Reopen
         BY <1>10, UndoSnap DEF Reopen
  <1>11. CASE UNCHANGED vars
    <2>1. UNCHANGED <<tables, disk, tracker, torn>>
          BY <1>11 DEF vars, tracker
    <2>2. QED
          BY <2>1, RowsAlone
  <1>12. QED
         BY <1>1, <1>2, <1>3, <1>4, <1>5, <1>6, <1>7, <1>8, <1>9, <1>10, <1>11
            DEF Next, SnapStep, Close, Crash

-----------------------------------------------------------------------------
(* Messages *)

\* The tables of messages, sessions and counts in t and u are the same.
SameTexts(t, u) == t.messages = u.messages /\ t.sessions = u.sessions /\ t.count = u.count

\* No message yet.
LEMMA InitMsg == Init => MsgOK
  <1> SUFFICES ASSUME Init PROVE MsgOK
      OBVIOUS
  <1>1. ClientOK
        BY DEF Init, ClientOK, NoJob, Sending, Deleting
  <1>2. StoredOK /\ WrittenOK
        BY <1>1 DEF Init, StoredOK, WrittenOK, Pending, Sending
  <1>3. \A s \in Sessions : Counted(s) = {}
        BY DEF Init, Counted
  <1>4. CountOK
        BY <1>3, FS_EmptySet DEF Init, CountOK
  <1>5. QED
        BY <1>1, <1>2, <1>4 DEF MsgOK

\* Who leaves clients and texts alone leaves the messages alone.
LEMMA TextsAlone ==
    ASSUME MsgOK, SameTexts(tables', tables), SameTexts(disk', disk),
           UNCHANGED <<clients, broken>>
    PROVE  MsgOK'
  <1> USE DEF SameTexts, clients
  <1>1. ClientOK'
        BY DEF MsgOK, ClientOK
  <1>2. StoredOK'
        BY DEF MsgOK, StoredOK, Pending, InFlight, Msg
  <1>3. WrittenOK'
        BY DEF MsgOK, WrittenOK, Sound, Msg
  <1>4. CountOK'
        BY DEF MsgOK, CountOK, Intact, Counted
  <1>5. QED
        BY <1>1, <1>2, <1>3, <1>4 DEF MsgOK

\* A commit while the clients wait.
LEMMA CommitMsg ==
    ASSUME MsgOK, Commit, UNCHANGED <<clients, broken>>
    PROVE  MsgOK'
  <1> USE DEF Commit, clients
  <1>1. ClientOK'
        BY DEF MsgOK, ClientOK
  <1>2. StoredOK'
        BY DEF MsgOK, StoredOK, Pending, InFlight, Msg
  <1>3. WrittenOK'
        BY DEF MsgOK, WrittenOK, Sound, Msg
  <1>4. CountOK'
        BY DEF MsgOK, CountOK, Intact, Counted
  <1>5. QED
        BY <1>1, <1>2, <1>3, <1>4 DEF MsgOK

\* The new message has a number no other has.
LEMMA SendMsg ==
    ASSUME TypeOK, MsgOK, NEW c \in Clients, NEW s \in Sessions, Send(c, s)
    PROVE  MsgOK'
  <1> USE DEF MsgOK
  <1> DEFINE n == sends + 1
             m == [session |-> s, send |-> n, role |-> "user"]
  <1>1. /\ pc[c] = "idle" /\ pc'[c] = "history" /\ sends' = n /\ sends \in Nat
        /\ job'[c] = [session |-> s, send |-> n]
        /\ \A d \in Clients : d # c => pc'[d] = pc[d] /\ job'[d] = job[d]
        /\ disk' = disk /\ replied' = replied /\ broken' = broken /\ deleted' = deleted
        BY DEF Send, Goto, Write, TypeOK
  <1>2. /\ tables'.messages = tables.messages \cup {m}
        /\ tables'.sessions = tables.sessions /\ tables'.count = tables.count
        BY DEF Send, Write, TypeOK, Tables
  <1>3. ASSUME NEW d \in Clients
        PROVE  job[d].send # n
    <2>1. job[d].send = 0 \/ job[d].send \in 1 .. sends
          BY DEF ClientOK, NoJob
    <2>2. QED
          BY <1>1, <2>1
  <1>4. ClientOK'
    <2>1. ASSUME NEW d \in Clients
          PROVE  /\ pc'[d] \in {"idle"} \cup Sending \cup Deleting
                 /\ pc'[d] = "idle" => job'[d] = NoJob
                 /\ pc'[d] \in Sending => job'[d].session \in Sessions /\ job'[d].send \in 1 .. sends'
                 /\ pc'[d] \in Deleting => job'[d].session \in deleted' /\ job'[d].send = 0
      <3>1. CASE d = c
            BY <1>1, <3>1 DEF Sending, Deleting
      <3>2. CASE d # c
            BY <1>1, <3>2 DEF ClientOK
      <3>3. QED
            BY <3>1, <3>2
    <2>2. \A d, e \in Clients : d # e /\ job'[d].send # 0 => job'[d].send # job'[e].send
          BY <1>1, <1>3 DEF ClientOK
    <2>3. QED
          BY <2>1, <2>2 DEF ClientOK
  <1>5. StoredOK'
    <2>1. \A x \in tables'.messages \cup disk'.messages : x.send \in 1 .. sends'
          BY <1>1, <1>2 DEF StoredOK
    <2>2. Msg(c, "assistant")' \notin tables'.messages \cup disk'.messages
      <3>1. Msg(c, "assistant")' = [session |-> s, send |-> n, role |-> "assistant"]
            BY <1>1 DEF Msg
      <3>2. \A x \in tables.messages \cup disk.messages : x.send # n
            BY <1>1 DEF StoredOK
      <3>3. m # [session |-> s, send |-> n, role |-> "assistant"]
            OBVIOUS
      <3>4. QED
            BY <1>1, <1>2, <3>1, <3>2, <3>3
    <2>3. ASSUME NEW d \in Clients, pc'[d] \in {"history", "model", "assistant"}
          PROVE  Msg(d, "assistant")' \notin tables'.messages \cup disk'.messages
      <3>1. CASE d # c
        <4>1. Msg(d, "assistant")' = Msg(d, "assistant")
              BY <1>1, <3>1 DEF Msg
        <4>2. Msg(d, "assistant") \notin tables.messages \cup disk.messages
              BY <1>1, <2>3, <3>1 DEF StoredOK
        <4>3. Msg(d, "assistant") # m
              BY DEF Msg
        <4>4. QED
              BY <1>1, <1>2, <4>1, <4>2, <4>3
      <3>2. QED
            BY <2>2, <3>1
    <2>4. Pending' \subseteq InFlight'
      <3>1. \A x \in tables'.messages \ disk'.messages :
                x = m \/ x \in tables.messages \ disk.messages
            BY <1>1, <1>2
      <3>2. <<s, n>> \in InFlight'
            BY <1>1 DEF InFlight
      <3>3. InFlight \subseteq InFlight'
        <4>1. job[c].send = 0
              BY <1>1 DEF ClientOK, NoJob
        <4>2. QED
              BY <1>1, <4>1 DEF InFlight
      <3>4. \A x \in tables.messages \ disk.messages : <<x.session, x.send>> \in InFlight
            BY DEF StoredOK, Pending
      <3>5. QED
            BY <3>1, <3>2, <3>3, <3>4 DEF Pending
    <2>5. QED
          BY <1>1, <1>2, <2>1, <2>3, <2>4 DEF StoredOK
  <1>6. WrittenOK'
    <2>1. ASSUME NEW d \in Clients, Sound(job[d].session, job[d].send)', d # c
          PROVE  /\ pc'[d] \in Sending => Msg(d, "user")' \in tables'.messages
                 /\ pc'[d] \in {"count", "commit"} => Msg(d, "assistant")' \in tables'.messages
          BY <1>1, <1>2, <2>1 DEF WrittenOK, Sound, Msg
    <2>2. Msg(c, "user")' \in tables'.messages
          BY <1>1, <1>2 DEF Msg
    <2>3. pc'[c] \notin {"count", "commit"}
          BY <1>1
    <2>4. \A r \in replied' : Sound(r[1], r[2])' =>
             \A role \in {"user", "assistant"} :
                [session |-> r[1], send |-> r[2], role |-> role] \in tables'.messages \cap disk'.messages
          BY <1>1, <1>2 DEF WrittenOK, Sound
    <2>5. QED
          BY <2>1, <2>2, <2>3, <2>4 DEF WrittenOK
  <1>7. \A z \in Sessions : Counted(z)' = Counted(z)
        BY <1>1, <1>2 DEF Counted
  <1>8. CountOK'
        BY <1>1, <1>2, <1>7 DEF CountOK, Intact
  <1>9. QED
        BY <1>4, <1>5, <1>6, <1>8

\* Waiting for the history or the model changes nothing.
LEMMA WaitMsg ==
    ASSUME TypeOK, MsgOK, NEW c \in Clients, LoadHistory(c) \/ ModelAnswers(c)
    PROVE  MsgOK'
  <1> USE DEF MsgOK
  <1>1. /\ pc[c] \in {"history", "model"} /\ pc'[c] \in {"model", "assistant"}
        /\ \A d \in Clients : d # c => pc'[d] = pc[d]
        /\ UNCHANGED <<job, tables, disk, sends, replied, broken, deleted>>
        BY DEF LoadHistory, ModelAnswers, Goto, TypeOK
  <1>2. \A d \in Clients : /\ pc'[d] \in Sending <=> pc[d] \in Sending
                           /\ pc'[d] \in Deleting <=> pc[d] \in Deleting
                           /\ pc'[d] = "idle" <=> pc[d] = "idle"
                           /\ pc'[d] = "count" <=> pc[d] = "count"
                           /\ pc'[d] = "commit" <=> pc[d] = "commit"
                           /\ pc'[d] \in {"history", "model", "assistant"} <=>
                              pc[d] \in {"history", "model", "assistant"}
        BY <1>1 DEF Sending, Deleting
  <1>3. ClientOK'
        BY <1>1, <1>2 DEF ClientOK
  <1>4. StoredOK'
        BY <1>1, <1>2 DEF StoredOK, Pending, InFlight, Msg
  <1>5. WrittenOK'
        BY <1>1, <1>2 DEF WrittenOK, Sound, Msg
  <1>6. \A z \in Sessions : Counted(z)' = Counted(z)
        BY <1>1, <1>2 DEF Counted
  <1>7. CountOK'
        BY <1>1, <1>2, <1>6 DEF CountOK, Intact
  <1>8. QED
        BY <1>3, <1>4, <1>5, <1>7

\* A message of a session, by number and role.
LEMMA MessageIs ==
    ASSUME NEW x \in Message, NEW c \in Clients, x.role = "assistant",
           x.session = job[c].session, x.send = job[c].send
    PROVE  x = Msg(c, "assistant")
  BY DEF Message, Msg

\* The answer is stored, and not counted yet.
LEMMA AnswerMsg ==
    ASSUME TypeOK, MsgOK, NEW c \in Clients, InsertAssistant(c)
    PROVE  MsgOK'
  <1> USE DEF MsgOK
  <1> DEFINE m == Msg(c, "assistant")
             s == job[c].session
             n == job[c].send
  <1>1. /\ pc[c] = "assistant" /\ pc'[c] = "count"
        /\ \A d \in Clients : d # c => pc'[d] = pc[d]
        /\ UNCHANGED <<job, disk, sends, replied, broken, deleted>>
        BY DEF InsertAssistant, Goto, Write, TypeOK
  <1>2. /\ tables'.messages = tables.messages \cup {m}
        /\ tables'.sessions = tables.sessions /\ tables'.count = tables.count
        BY DEF InsertAssistant, Write, TypeOK, Tables
  <1>3. m.session = s /\ m.send = n /\ m.role = "assistant"
        BY DEF Msg
  <1>4. pc[c] \in Sending /\ n \in 1 .. sends /\ n # 0
        BY <1>1 DEF ClientOK, Sending, TypeOK
  <1>5. \A d \in Clients : d # c => job[d].send # n
        BY <1>4 DEF ClientOK
  <1>6. m \notin tables.messages
        BY <1>1 DEF StoredOK
  <1>7. ClientOK'
        BY <1>1, <1>4 DEF ClientOK, Sending, Deleting
  <1>8. StoredOK'
    <2>1. \A x \in tables'.messages \cup disk'.messages : x.send \in 1 .. sends'
          BY <1>1, <1>2, <1>3, <1>4 DEF StoredOK
    <2>2. ASSUME NEW d \in Clients, pc'[d] \in {"history", "model", "assistant"}
          PROVE  Msg(d, "assistant")' \notin tables'.messages \cup disk'.messages
      <3>1. d # c
            BY <1>1, <2>2
      <3>2. Msg(d, "assistant")' = Msg(d, "assistant") /\ Msg(d, "assistant").send = job[d].send
            BY <1>1 DEF Msg
      <3>3. Msg(d, "assistant") # m
            BY <1>3, <1>5, <3>1, <3>2
      <3>4. QED
            BY <1>1, <1>2, <2>2, <3>1, <3>2, <3>3 DEF StoredOK
    <2>3. InFlight' = InFlight
          BY <1>1 DEF InFlight
    <2>4. <<s, n>> \in InFlight
          BY <1>4 DEF InFlight
    <2>5. \A x \in tables.messages \ disk.messages : <<x.session, x.send>> \in InFlight
          BY DEF StoredOK, Pending
    <2>6. Pending' \subseteq InFlight'
          BY <1>1, <1>2, <1>3, <2>3, <2>4, <2>5 DEF Pending
    <2>7. QED
          BY <1>1, <1>2, <2>1, <2>2, <2>6 DEF StoredOK
  <1>9. WrittenOK'
    <2>1. ASSUME NEW d \in Clients, Sound(job[d].session, job[d].send)'
          PROVE  /\ pc'[d] \in Sending => Msg(d, "user")' \in tables'.messages
                 /\ pc'[d] \in {"count", "commit"} => Msg(d, "assistant")' \in tables'.messages
      <3>1. Sound(job[d].session, job[d].send)
            BY <1>1, <2>1 DEF Sound
      <3>2. CASE d = c
            BY <1>1, <1>2, <1>4, <3>1, <3>2 DEF WrittenOK, Msg
      <3>3. CASE d # c
            BY <1>1, <1>2, <3>1, <3>3 DEF WrittenOK, Msg
      <3>4. QED
            BY <3>2, <3>3
    <2>2. QED
          BY <1>1, <1>2, <2>1 DEF WrittenOK, Sound
  <1>10. ASSUME NEW z \in Sessions
         PROVE  Counted(z)' = Counted(z)
    <2>1. ASSUME NEW x \in tables.messages, x.session = z, x.role = "assistant", s = z
          PROVE  n # x.send
      <3>1. x \in Message
            BY DEF TypeOK, Tables
      <3>2. QED
            BY <1>6, <2>1, <3>1, MessageIs
    <2>2. m \notin Counted(z)'
          BY <1>1, <1>3 DEF Counted
    <2>3. QED
          BY <1>1, <1>2, <2>1, <2>2 DEF Counted
  <1>11. CountOK'
         BY <1>1, <1>2, <1>10 DEF CountOK, Intact
  <1>12. QED
         BY <1>7, <1>8, <1>9, <1>11

\* The answer is counted.
LEMMA CountMsg ==
    ASSUME TypeOK, MsgOK, NEW c \in Clients, BumpCount(c)
    PROVE  MsgOK'
  <1> USE DEF MsgOK
  <1> DEFINE m == Msg(c, "assistant")
             s == job[c].session
             n == job[c].send
  <1>1. /\ pc[c] = "count" /\ pc'[c] = "commit"
        /\ \A d \in Clients : d # c => pc'[d] = pc[d]
        /\ UNCHANGED <<job, disk, sends, replied, broken, deleted>>
        BY DEF BumpCount, Goto, Write, TypeOK
  <1>2. pc[c] \in Sending /\ s \in Sessions /\ n \in 1 .. sends /\ n # 0
        BY <1>1 DEF ClientOK, Sending, TypeOK
  <1>3. /\ tables'.messages = tables.messages /\ tables'.sessions = tables.sessions
        /\ \A z \in Sessions : z # s => tables'.count[z] = tables.count[z]
        /\ s \in tables.sessions => tables'.count[s] = tables.count[s] + 2
        BY <1>2 DEF BumpCount, Write, TypeOK, Tables
  <1>4. m.session = s /\ m.send = n /\ m.role = "assistant"
        BY DEF Msg
  <1>5. \A d \in Clients : d # c => job[d].send # n
        BY <1>2 DEF ClientOK
  <1>6. ClientOK'
        BY <1>1, <1>2 DEF ClientOK, Sending, Deleting
  <1>7. StoredOK'
        BY <1>1, <1>3 DEF StoredOK, Pending, InFlight, Msg
  <1>8. WrittenOK'
    <2>1. ASSUME NEW d \in Clients, Sound(job[d].session, job[d].send)'
          PROVE  /\ pc'[d] \in Sending => Msg(d, "user")' \in tables'.messages
                 /\ pc'[d] \in {"count", "commit"} => Msg(d, "assistant")' \in tables'.messages
      <3>1. Sound(job[d].session, job[d].send)
            BY <1>1, <2>1 DEF Sound
      <3>2. CASE d = c
            BY <1>1, <1>2, <1>3, <3>1, <3>2 DEF WrittenOK, Msg
      <3>3. CASE d # c
            BY <1>1, <1>3, <3>1, <3>3 DEF WrittenOK, Msg
      <3>4. QED
            BY <3>2, <3>3
    <2>2. QED
          BY <1>1, <1>3, <2>1 DEF WrittenOK, Sound
  <1>9. \A z \in Sessions : z # s => Counted(z)' = Counted(z)
        BY <1>1, <1>3 DEF Counted
  <1>10. ASSUME NEW z \in Sessions, z = s, Intact(z)
         PROVE  /\ m \notin Counted(z)
                /\ Counted(z)' = Counted(z) \cup {m}
    <2>1. Sound(s, n)
      <3>1. \A b \in broken : b # <<s, n>>
            BY <1>10 DEF Intact
      <3>2. QED
            BY <1>10, <3>1 DEF Sound, Intact
    <2>2. m \in tables.messages
          BY <1>1, <2>1 DEF WrittenOK
    <2>3. m \notin Counted(z)
          BY <1>1, <1>4, <1>10 DEF Counted
    <2>4. m \in Counted(z)'
          BY <1>1, <1>3, <1>4, <1>5, <1>10, <2>2 DEF Counted
    <2>5. Counted(z) \subseteq Counted(z)'
          BY <1>1, <1>3 DEF Counted
    <2>6. ASSUME NEW x \in Counted(z)', x # m
          PROVE  x \in Counted(z)
      <3>1. x \in tables.messages /\ x.session = z /\ x.role = "assistant" /\ x \in Message
            BY <1>1, <1>3 DEF Counted, TypeOK, Tables
      <3>2. x.send # n
            BY <1>10, <2>6, <3>1, MessageIs
      <3>3. \A d \in Clients : pc[d] = "count" /\ job[d].session = z => job[d].send # x.send
            BY <1>1, <3>2 DEF Counted
      <3>4. QED
            BY <3>1, <3>3 DEF Counted
    <2>7. QED
          BY <2>3, <2>4, <2>5, <2>6
  <1>11. CountOK'
    <2> SUFFICES ASSUME NEW z \in Sessions, Intact(z)'
                 PROVE  /\ IsFiniteSet(Counted(z)')
                        /\ tables'.count[z] = 2 * Cardinality(Counted(z)')
                        /\ tables'.count[z] # disk'.count[z] =>
                              \E d \in Clients : pc'[d] = "commit" /\ job'[d].session = z
        BY DEF CountOK
    <2>1. /\ Intact(z)
          /\ IsFiniteSet(Counted(z))
          /\ tables.count[z] = 2 * Cardinality(Counted(z))
          /\ tables.count[z] # disk.count[z] =>
                \E d \in Clients : pc[d] = "commit" /\ job[d].session = z
          BY <1>1 DEF Intact, CountOK
    <2>2. CASE z # s
          BY <1>1, <1>3, <1>9, <2>1, <2>2
    <2>3. CASE z = s
      <3>1. s \in tables.sessions
            BY <1>2, <2>1, <2>3 DEF Intact, StoredOK
      <3>2. tables'.count[z] = tables.count[z] + 2
            BY <1>3, <2>3, <3>1
      <3>3. /\ IsFiniteSet(Counted(z)')
            /\ Cardinality(Counted(z)') = Cardinality(Counted(z)) + 1
            BY <1>10, <2>1, <2>3, FS_AddElement
      <3>4. Cardinality(Counted(z)) \in Nat
            BY <2>1, FS_CardinalityType
      <3>5. QED
            BY <1>1, <2>1, <2>3, <3>2, <3>3, <3>4
    <2>4. QED
          BY <2>2, <2>3
  <1>12. QED
         BY <1>6, <1>7, <1>8, <1>11

\* A request ends, always with a commit, so that nothing of it is left pending.
LEMMA EndMsg ==
    ASSUME TypeOK, MsgOK, NEW c \in Clients, ModelFails(c) \/ Reply(c) \/ DeleteCommit(c)
    PROVE  MsgOK'
  <1> USE DEF MsgOK
  <1>1. /\ pc[c] \in {"model", "commit", "deleteCommit"} /\ pc'[c] = "idle" /\ job'[c] = NoJob
        /\ \A d \in Clients : d # c => pc'[d] = pc[d] /\ job'[d] = job[d]
        /\ tables' = tables /\ disk' = tables
        /\ UNCHANGED <<sends, broken, deleted>>
        BY DEF ModelFails, Reply, DeleteCommit, Finish, Goto, CommitOfOthers, Commit, TypeOK
  <1>2. \A r \in replied' : \/ r \in replied
                            \/ r = <<job[c].session, job[c].send>> /\ pc[c] = "commit"
        BY DEF ModelFails, Reply, DeleteCommit, Finish, Goto
  <1>3. ClientOK'
        BY <1>1 DEF ClientOK, NoJob, Sending, Deleting
  <1>4. StoredOK'
    <2>1. Pending' = {}
          BY <1>1 DEF Pending
    <2>2. ASSUME NEW d \in Clients, pc'[d] \in {"history", "model", "assistant"}
          PROVE  Msg(d, "assistant")' \notin tables'.messages \cup disk'.messages
          BY <1>1, <2>2 DEF StoredOK, Msg
    <2>3. QED
          BY <1>1, <2>1, <2>2 DEF StoredOK
  <1>5. WrittenOK'
    <2>1. ASSUME NEW d \in Clients, Sound(job[d].session, job[d].send)'
          PROVE  /\ pc'[d] \in Sending => Msg(d, "user")' \in tables'.messages
                 /\ pc'[d] \in {"count", "commit"} => Msg(d, "assistant")' \in tables'.messages
      <3>1. CASE d = c
            BY <1>1, <3>1 DEF Sending
      <3>2. CASE d # c
            BY <1>1, <2>1, <3>2 DEF WrittenOK, Sound, Msg
      <3>3. QED
            BY <3>1, <3>2
    <2>2. ASSUME NEW r \in replied', Sound(r[1], r[2])', NEW role \in {"user", "assistant"}
          PROVE  [session |-> r[1], send |-> r[2], role |-> role] \in tables'.messages \cap disk'.messages
      <3>1. Sound(r[1], r[2])
            BY <1>1, <2>2 DEF Sound
      <3>2. CASE r \in replied
            BY <1>1, <3>1, <3>2 DEF WrittenOK
      <3>3. CASE r = <<job[c].session, job[c].send>> /\ pc[c] = "commit"
        <4>1. r[1] = job[c].session /\ r[2] = job[c].send
              BY <3>3
        <4>2. Msg(c, "user") \in tables.messages /\ Msg(c, "assistant") \in tables.messages
              BY <3>1, <3>3, <4>1 DEF WrittenOK, Sending
        <4>3. QED
              BY <1>1, <4>1, <4>2 DEF Msg
      <3>4. QED
            BY <1>2, <3>2, <3>3
    <2>3. QED
          BY <2>1, <2>2 DEF WrittenOK
  <1>6. \A z \in Sessions : Counted(z)' = Counted(z)
        BY <1>1 DEF Counted
  <1>7. CountOK'
        BY <1>1, <1>6 DEF CountOK, Intact
  <1>8. QED
        BY <1>3, <1>4, <1>5, <1>7

\* The messages of a session go, and nothing is promised of it any more.
LEMMA DeleteMsg ==
    ASSUME TypeOK, MsgOK, NEW c \in Clients, NEW s \in Sessions, DeleteMessages(c, s)
    PROVE  MsgOK'
  <1> USE DEF MsgOK
  <1>1. /\ pc[c] = "idle" /\ pc'[c] = "session"
        /\ job'[c].session = s /\ job'[c].send = 0
        /\ \A d \in Clients : d # c => pc'[d] = pc[d] /\ job'[d] = job[d]
        /\ deleted' = deleted \cup {s}
        /\ UNCHANGED <<disk, sends, replied, broken>>
        BY DEF DeleteMessages, Goto, Write, NoJob, TypeOK
  <1>2. /\ tables'.messages = {m \in tables.messages : m.session # s}
        /\ tables'.sessions = tables.sessions /\ tables'.count = tables.count
        BY DEF DeleteMessages, Write, TypeOK, Tables
  <1>3. job[c].send = 0
        BY <1>1 DEF ClientOK, NoJob
  <1>4. ClientOK'
        BY <1>1, <1>3 DEF ClientOK, Sending, Deleting
  <1>5. StoredOK'
    <2>1. InFlight' = InFlight
          BY <1>1, <1>3 DEF InFlight
    <2>2. Pending' \subseteq Pending
          BY <1>1, <1>2 DEF Pending
    <2>3. ASSUME NEW d \in Clients, pc'[d] \in {"history", "model", "assistant"}
          PROVE  Msg(d, "assistant")' \notin tables'.messages \cup disk'.messages
          BY <1>1, <1>2, <2>3 DEF StoredOK, Msg
    <2>4. QED
          BY <1>1, <1>2, <2>1, <2>2, <2>3 DEF StoredOK
  <1>6. WrittenOK'
    <2>1. ASSUME NEW d \in Clients, Sound(job[d].session, job[d].send)'
          PROVE  /\ pc'[d] \in Sending => Msg(d, "user")' \in tables'.messages
                 /\ pc'[d] \in {"count", "commit"} => Msg(d, "assistant")' \in tables'.messages
      <3>1. CASE d = c
            BY <1>1, <3>1 DEF Sending
      <3>2. CASE d # c
        <4>1. Sound(job[d].session, job[d].send) /\ job[d].session # s
              BY <1>1, <2>1, <3>2 DEF Sound
        <4>2. Msg(d, "user").session = job[d].session /\ Msg(d, "assistant").session = job[d].session
              BY DEF Msg
        <4>3. Msg(d, "user")' = Msg(d, "user") /\ Msg(d, "assistant")' = Msg(d, "assistant")
              BY <1>1, <3>2 DEF Msg
        <4>4. QED
              BY <1>1, <1>2, <3>2, <4>1, <4>2, <4>3 DEF WrittenOK
      <3>3. QED
            BY <3>1, <3>2
    <2>2. ASSUME NEW r \in replied', Sound(r[1], r[2])', NEW role \in {"user", "assistant"}
          PROVE  [session |-> r[1], send |-> r[2], role |-> role] \in tables'.messages \cap disk'.messages
      <3>1. Sound(r[1], r[2]) /\ r[1] # s /\ r \in replied
            BY <1>1, <2>2 DEF Sound
      <3>2. [session |-> r[1], send |-> r[2], role |-> role] \in tables.messages \cap disk.messages
            BY <3>1 DEF WrittenOK
      <3>3. QED
            BY <1>1, <1>2, <3>1, <3>2
    <2>3. QED
          BY <2>1, <2>2 DEF WrittenOK
  <1>7. \A z \in Sessions : z # s => Counted(z)' = Counted(z)
        BY <1>1, <1>2 DEF Counted
  <1>8. CountOK'
        BY <1>1, <1>2, <1>7 DEF CountOK, Intact
  <1>9. QED
        BY <1>4, <1>5, <1>6, <1>8

\* The session goes.
LEMMA DropMsg ==
    ASSUME TypeOK, MsgOK, NEW c \in Clients, DeleteSession(c)
    PROVE  MsgOK'
  <1> USE DEF MsgOK
  <1>1. /\ pc[c] = "session" /\ pc'[c] = "deleteCommit"
        /\ \A d \in Clients : d # c => pc'[d] = pc[d]
        /\ UNCHANGED <<job, disk, sends, replied, broken, deleted>>
        BY DEF DeleteSession, Goto, Write, TypeOK
  <1>2. job[c].session \in deleted /\ job[c].send = 0
        BY <1>1 DEF ClientOK, Deleting
  <1>3. /\ tables'.messages = tables.messages
        /\ tables'.sessions = tables.sessions \ {job[c].session}
        /\ \A z \in Sessions : z # job[c].session => tables'.count[z] = tables.count[z]
        BY <1>2 DEF DeleteSession, Write, TypeOK, Tables
  <1>4. \A d \in Clients : /\ pc'[d] \in Sending <=> pc[d] \in Sending
                           /\ pc'[d] = "idle" <=> pc[d] = "idle"
                           /\ pc'[d] = "count" <=> pc[d] = "count"
                           /\ pc'[d] = "commit" <=> pc[d] = "commit"
                           /\ pc'[d] \in {"history", "model", "assistant"} <=>
                              pc[d] \in {"history", "model", "assistant"}
        BY <1>1 DEF Sending
  <1>5. ClientOK'
        BY <1>1, <1>2, <1>4 DEF ClientOK, Deleting
  <1>6. StoredOK'
        BY <1>1, <1>2, <1>3, <1>4 DEF StoredOK, Pending, InFlight, Msg
  <1>7. WrittenOK'
        BY <1>1, <1>3, <1>4 DEF WrittenOK, Sound, Msg
  <1>8. \A z \in Sessions : Counted(z)' = Counted(z)
        BY <1>1, <1>3, <1>4 DEF Counted
  <1>9. CountOK'
        BY <1>1, <1>2, <1>3, <1>4, <1>8 DEF CountOK, Intact
  <1>10. QED
         BY <1>5, <1>6, <1>7, <1>9

\* The tables become what is on disk, and the requests in flight are broken.
LEMMA UndoMsg ==
    ASSUME TypeOK, MsgOK, tables' = disk, disk' = disk,
           broken \cup InFlight \subseteq broken',
           UNCHANGED <<sends, replied, deleted>>,
           \/ UNCHANGED <<pc, job>>
           \/ \A c \in Clients : pc'[c] = "idle" /\ job'[c] = NoJob
    PROVE  MsgOK'
  <1> USE DEF MsgOK
  <1>1. ClientOK'
        BY DEF ClientOK, NoJob, Sending, Deleting
  <1>2. StoredOK'
    <2>1. Pending' = {}
          BY DEF Pending
    <2>2. ASSUME NEW d \in Clients, pc'[d] \in {"history", "model", "assistant"}
          PROVE  Msg(d, "assistant")' \notin tables'.messages \cup disk'.messages
          BY <2>2 DEF StoredOK, Msg
    <2>3. QED
          BY <2>1, <2>2 DEF StoredOK
  <1>3. ASSUME NEW d \in Clients, pc[d] \in Sending
        PROVE  <<job[d].session, job[d].send>> \in broken'
    <2>1. job[d].send # 0
          BY <1>3 DEF ClientOK, TypeOK
    <2>2. QED
          BY <2>1 DEF InFlight
  <1>4. WrittenOK'
    <2>1. ASSUME NEW d \in Clients, pc'[d] \in Sending
          PROVE  ~Sound(job[d].session, job[d].send)'
          BY <1>3, <2>1 DEF Sound, Sending
    <2>2. \A d \in Clients : pc'[d] \in {"count", "commit"} => pc'[d] \in Sending
          BY DEF Sending
    <2>3. \A r \in replied' : Sound(r[1], r[2])' => Sound(r[1], r[2])
          BY DEF Sound
    <2>4. QED
          BY <2>1, <2>2, <2>3 DEF WrittenOK
  <1>5. CountOK'
    <2> SUFFICES ASSUME NEW z \in Sessions, Intact(z)'
                 PROVE  /\ IsFiniteSet(Counted(z)')
                        /\ tables'.count[z] = 2 * Cardinality(Counted(z)')
                        /\ tables'.count[z] = disk'.count[z]
        BY DEF CountOK
    <2>1. Intact(z)
          BY DEF Intact
    <2>2. \A d \in Clients : pc[d] \in Sending => job[d].session # z
          BY <1>3 DEF Intact
    <2>3. tables.count[z] = disk.count[z]
          BY <2>1, <2>2 DEF CountOK, Sending
    <2>4. ASSUME NEW x \in tables.messages, x.session = z
          PROVE  x \in disk.messages
      <3>1. SUFFICES ASSUME x \notin disk.messages PROVE FALSE
            OBVIOUS
      <3>2. <<x.session, x.send>> \in broken'
            BY <3>1 DEF StoredOK, Pending
      <3>3. QED
            BY <2>4, <3>2 DEF Intact
    <2>5. \A x \in disk.messages : x.session = z => x \in tables.messages
          BY <2>1 DEF StoredOK, Intact
    <2>6. \A d \in Clients : /\ ~(pc[d] = "count" /\ job[d].session = z)
                             /\ ~(pc'[d] = "count" /\ job'[d].session = z)
          BY <2>2 DEF Sending
    <2>7. Counted(z)' = Counted(z)
          BY <2>4, <2>5, <2>6 DEF Counted
    <2>8. QED
          BY <2>1, <2>3, <2>7 DEF CountOK
  <1>6. QED
        BY <1>1, <1>2, <1>4, <1>5

\* A ROLLBACK outside a transaction has nothing to undo.
LEMMA RollbackMsg ==
    ASSUME TypeOK, MsgOK, SnapRollback
    PROVE  MsgOK'
  <1>1. UNCHANGED clients /\ tables' = disk /\ disk' = disk
        BY DEF SnapRollback
  <1>2. CASE inTxn
        BY <1>1, <1>2, UndoMsg DEF SnapRollback, clients
  <1>3. CASE ~inTxn
    <2>1. tables = disk
          BY <1>3 DEF TypeOK
    <2>2. broken' = broken
          BY <1>3, <2>1 DEF SnapRollback, Pending
    <2>3. QED
          BY <1>1, <2>1, <2>2, TextsAlone DEF SameTexts
  <1>4. QED
        BY <1>2, <1>3

\* Every step keeps the messages.
LEMMA StepMsg ==
    ASSUME TypeOK, MsgOK, [Next]_vars
    PROVE  MsgOK'
  <1>1. ASSUME NEW c \in Clients, ClientStep(c)
        PROVE  MsgOK'
        BY <1>1, SendMsg, DeleteMsg, WaitMsg, EndMsg, AnswerMsg, CountMsg, DropMsg DEF ClientStep
  <1>2. CASE SnapStart \/ SnapBegin \/ SnapBeginFails \/ SnapInsertFails \/ SnapCommitFails
             \/ Stop \/ SomeoneWrites
    <2>1. tables' = tables /\ disk' = disk /\ UNCHANGED <<clients, broken>>
          BY <1>2 DEF SnapStart, SnapBegin, SnapBeginFails, SnapInsertFails, SnapCommitFails,
             Stop, SomeoneWrites
    <2>2. QED
          BY <2>1, TextsAlone DEF SameTexts
  <1>3. ASSUME NEW a \in Assets, SnapInsert(a)
        PROVE  MsgOK'
    <2>1. SameTexts(tables', tables) /\ disk' = disk /\ UNCHANGED <<clients, broken>>
          BY <1>3 DEF SnapInsert, Write, SameTexts, TypeOK, Tables
    <2>2. QED
          BY <2>1, TextsAlone DEF SameTexts
  <1>4. CASE SnapCommit \/ SomeoneCommits
        BY <1>4, CommitMsg DEF SnapCommit, SomeoneCommits, CommitOfOthers
  <1>5. CASE SnapRollback
        BY <1>5, RollbackMsg
  <1>6. CASE Reopen
        BY <1>6, UndoMsg DEF Reopen
  <1>7. CASE UNCHANGED vars
    <2>1. tables' = tables /\ disk' = disk /\ UNCHANGED <<clients, broken>>
          BY <1>7 DEF vars, clients
    <2>2. QED
          BY <2>1, TextsAlone DEF SameTexts
  <1>8. QED
        BY <1>1, <1>2, <1>3, <1>4, <1>5, <1>6, <1>7 DEF Next, SnapStep, Close, Crash

-----------------------------------------------------------------------------
(* Theorems *)

\* The inductive invariant is an invariant.
THEOREM Invariant == Spec => []IInv
  <1>1. Init => IInv
        BY InitTypes, InitSnap, InitMsg DEF IInv
  <1>2. IInv /\ [Next]_vars => IInv'
        BY StepTypes, StepSnap, StepMsg DEF IInv, MsgOK
  <1>3. QED
        BY <1>1, <1>2, PTL DEF Spec

\* Every variable has its type, and what is pending is in an open transaction.
THEOREM TypeCorrect == Spec => []TypeOK
  <1>1. IInv => TypeOK
        BY DEF IInv
  <1>2. QED
        BY <1>1, Invariant, PTL

\* A snapshot nobody else committed a part of is on disk whole or not at all.
THEOREM WholeSnapshots == Spec => []SnapshotWhole
  <1>1. IInv => SnapshotWhole
    <2> SUFFICES ASSUME IInv, NEW k \in 1 .. round, k \notin torn
                 PROVE  {r[2] : r \in {s \in disk.rows : s[1] = k}} \in {{}, Assets}
        BY DEF SnapshotWhole
    <2>1. disk.rows \subseteq Nat \X Assets
          BY DEF IInv, TypeOK, Tables
    <2>2. {r[2] : r \in {s \in disk.rows : s[1] = k}} = Saved(disk, k)
          BY <2>1 DEF Saved
    <2>3. QED
          BY <2>2 DEF IInv, SnapOK
  <1>2. QED
        BY <1>1, Invariant, PTL

\* An answered message is on disk, and message_count counts the answers.
THEOREM RepliesDurable == Spec => []ReplyDurable
  <1>1. IInv => ReplyDurable
    <2> SUFFICES ASSUME IInv PROVE ReplyDurable
        OBVIOUS
    <2>1. ASSUME NEW r \in replied, r \notin broken, r[1] \notin deleted,
                 NEW role \in {"user", "assistant"}
          PROVE  [session |-> r[1], send |-> r[2], role |-> role] \in disk.messages
      <3>1. r = <<r[1], r[2]>>
            BY DEF IInv, TypeOK
      <3>2. QED
            BY <2>1, <3>1 DEF IInv, MsgOK, WrittenOK, Sound
    <2>2. ASSUME NEW s \in Sessions, Settled(s)
          PROVE  tables.count[s] = 2 * Cardinality({m \in tables.messages :
                                                m.session = s /\ m.role = "assistant"})
      <3>1. Intact(s)
            BY <2>2 DEF Settled, Intact
      <3>2. Counted(s) = {m \in tables.messages : m.session = s /\ m.role = "assistant"}
            BY <2>2 DEF Settled, Counted
      <3>3. QED
            BY <3>1, <3>2 DEF IInv, MsgOK, CountOK
    <2>3. QED
          BY <2>1, <2>2 DEF ReplyDurable
  <1>2. QED
        BY <1>1, Invariant, PTL

\* The last snapshot is on disk when the connection is closed, if its inserts succeeded.
THEOREM LastSnapshotSaved == Spec => FinalSnapshotSaved
  <1>1. ASSUME IInv, Close, owed
        PROVE  {<<round, a>> : a \in Assets} \subseteq disk.rows
    <2>1. Saved(disk, round) = Assets
          BY <1>1 DEF Close, IInv, SnapOK
    <2>2. QED
          BY <2>1 DEF Saved
  <1>2. IInv /\ [Next]_vars => [Close /\ owed => {<<round, a>> : a \in Assets} \subseteq disk.rows]_vars
        BY <1>1
  <1>3. QED
        BY <1>2, Invariant, PTL DEF Spec, FinalSnapshotSaved
=============================================================================
