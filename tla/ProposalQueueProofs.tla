------------------------ MODULE ProposalQueueProofs ------------------------
(***************************************************************************)
(* Theorems about ProposalQueue, for any proposals, any number of requests *)
(* in flight, any scanners, adapters, restarts, rollbacks, lost answers.   *)
(***************************************************************************)
EXTENDS ProposalQueue, FiniteSetTheorems, TLAPS

(* The parts of the inductive invariant *)

\* A coroutine that is working on a row has one.
HasProposal ==
    \A c \in Coroutines : pc[c] \notin {"idle", "next"} => cur[c] \in Proposals

\* The rows somebody works on or is about to are there, unless a rollback took them.
Held ==
    \A c \in Coroutines, p \in Proposals :
        cur[c] = p \/ p \in todo[c] => Exists(p) \/ p \in undone

\* What is decided or traded on disk is so in the connection's view.
DiskBehind ==
    \A p \in Proposals : /\ Decided(disk[p].status) => Decided(row[p].status)
                         /\ disk[p].trades <= row[p].trades

\* approve's decision is written before its commit, and durable from there on.
ApproveCommits ==
    \A c \in Coroutines : cur[c] \notin undone =>
        /\ pc[c] = "approveCommit" => Decided(row[cur[c]].status)
        /\ pc[c] = "submit" => Decided(disk[cur[c]].status)

\* A coroutine about to record an execution has placed its order.
OrderPlaced ==
    \A c \in Coroutines : cur[c] \in Truthful \ undone =>
        /\ pc[c] = "execute" => manual[cur[c]] > 0
        /\ pc[c] = "mark" => auto[cur[c]] > 0 \/ row[cur[c]].trades > 0

LinkedRows ==
    \A p \in Truthful \ undone :
        /\ row[p].linked => manual[p] > 0 \/ auto[p] > 0 \/ row[p].trades > 0
        /\ disk[p].linked => manual[p] > 0 \/ auto[p] > 0 \/ disk[p].trades > 0

IInv == /\ TypeOK
        /\ HasProposal
        /\ Held
        /\ DiskBehind
        /\ ApproveCommits
        /\ ManualWriteAhead
        /\ OrderPlaced
        /\ LinkedRows

-----------------------------------------------------------------------------

\* The inductive invariant holds at the start.
LEMMA InitIInv == Init => IInv
  <1> SUFFICES ASSUME Init PROVE IInv
    OBVIOUS
  <1> USE QueueAssumption DEF Init, NoRow, Row, Statuses, Coroutines
  <1>1. TypeOK
    BY DEF TypeOK, HandlerPoints
  <1>2. HasProposal /\ ApproveCommits /\ OrderPlaced /\ Held
    BY DEF HasProposal, ApproveCommits, OrderPlaced, Held
  <1>3. DiskBehind /\ ManualWriteAhead /\ LinkedRows
    BY DEF DiskBehind, ManualWriteAhead, LinkedRows, Decided
  <1> QED
    BY <1>1, <1>2, <1>3 DEF IInv

(* What the statements write into a row *)

\* What an INSERT of a proposal does to every row.
LEMMA WritesNew ==
    ASSUME TypeOK, NEW p \in Proposals, row' = [row EXCEPT ![p].status = "proposed"]
    PROVE  /\ row' \in [Proposals -> Row]
           /\ \A q \in Proposals : q # p => row'[q] = row[q]
           /\ row'[p].status = "proposed"
           /\ row'[p].linked = row[p].linked /\ row'[p].trades = row[p].trades
  <1>1. row[p] \in Row /\ [row[p] EXCEPT !.status = "proposed"] \in Row
    BY DEF TypeOK, Row, Statuses
  <1> QED
    BY <1>1 DEF TypeOK, Row

\* What an UPDATE of the status does to every row.
LEMMA WritesStatus ==
    ASSUME TypeOK, NEW p \in Proposals, NEW s \in Statuses, SetStatus(p, s)
    PROVE  /\ row' \in [Proposals -> Row]
           /\ \A q \in Proposals : q # p => row'[q] = row[q]
           /\ Exists(p) => row'[p].status = s
           /\ ~Exists(p) => row'[p].status = row[p].status
           /\ row'[p].linked = row[p].linked /\ row'[p].trades = row[p].trades
  <1>1. row[p] \in Row /\ [row[p] EXCEPT !.status = s] \in Row
    BY DEF TypeOK, Row
  <1>2. CASE Exists(p)
    BY <1>1, <1>2 DEF SetStatus, TypeOK, Row
  <1>3. CASE ~Exists(p)
    BY <1>1, <1>3 DEF SetStatus, TypeOK
  <1> QED
    BY <1>2, <1>3

\* What the UPDATE that links the order does to every row.
LEMMA WritesExecuted ==
    ASSUME TypeOK, NEW p \in Proposals, NEW s \in Statuses, SetExecuted(p, s)
    PROVE  /\ row' \in [Proposals -> Row]
           /\ \A q \in Proposals : q # p => row'[q] = row[q]
           /\ Exists(p) => row'[p].status = s
           /\ ~Exists(p) => row'[p].status = row[p].status /\ row'[p].linked = row[p].linked
           /\ row'[p].trades = row[p].trades
  <1>1. row[p] \in Row /\ [status |-> s, linked |-> TRUE, trades |-> row[p].trades] \in Row
    BY DEF TypeOK, Row
  <1>2. CASE Exists(p)
    BY <1>1, <1>2 DEF SetExecuted, TypeOK, Row
  <1>3. CASE ~Exists(p)
    BY <1>1, <1>3 DEF SetExecuted, TypeOK
  <1> QED
    BY <1>2, <1>3

\* What the INSERT of a paper trade does to every row.
LEMMA WritesTrade ==
    ASSUME TypeOK, NEW p \in Proposals, AddTrade(p)
    PROVE  /\ row' \in [Proposals -> Row]
           /\ \A q \in Proposals : q # p => row'[q] = row[q]
           /\ row'[p].status = row[p].status /\ row'[p].linked = row[p].linked
           /\ row'[p].trades = row[p].trades + 1
  <1>1. row[p] \in Row /\ [row[p] EXCEPT !.trades = @ + 1] \in Row
    BY DEF TypeOK, Row
  <1> QED
    BY <1>1 DEF AddTrade, TypeOK, Row

\* Types: each step writes one status (or flag, or counter) of one row, or copies a
\* whole table (commit, rollback, restart).
LEMMA StepTypes ==
    ASSUME TypeOK, HasProposal, [Next]_vars
    PROVE  TypeOK' /\ HasProposal'
  <1> USE QueueAssumption DEF TypeOK, HasProposal, Statuses, Coroutines, HandlerPoints,
          ScannerPoints, Goto, Step, NextRow, Begin, Return, Commit, db, Orders, World
  <1>1. ASSUME NEW h \in Handlers, NEW p \in Proposals, Enqueue(h, p) PROVE TypeOK' /\ HasProposal'
    BY <1>1, WritesNew DEF Enqueue
  <1>2. ASSUME NEW h \in Handlers, EnqueueCommit(h) PROVE TypeOK' /\ HasProposal'
    BY <1>2 DEF EnqueueCommit
  <1>3. ASSUME NEW h \in Handlers, NEW p \in Proposals, ApproveRead(h, p) PROVE TypeOK' /\ HasProposal'
    BY <1>3 DEF ApproveRead
  <1>4. ASSUME NEW h \in Handlers, ApproveExpired(h) PROVE TypeOK' /\ HasProposal'
    BY <1>4, WritesStatus DEF ApproveExpired
  <1>5. ASSUME NEW h \in Handlers, ApproveWrite(h) PROVE TypeOK' /\ HasProposal'
    BY <1>5, WritesStatus DEF ApproveWrite
  <1>6. ASSUME NEW h \in Handlers, ApproveCommit(h) PROVE TypeOK' /\ HasProposal'
    BY <1>6 DEF ApproveCommit
  <1>7. ASSUME NEW h \in Handlers, ApproveSubmit(h) PROVE TypeOK' /\ HasProposal'
    BY <1>7 DEF ApproveSubmit
  <1>8. ASSUME NEW h \in Handlers, ApproveSubmitFails(h) PROVE TypeOK' /\ HasProposal'
    BY <1>8 DEF ApproveSubmitFails
  <1>9. ASSUME NEW h \in Handlers, ApproveExecute(h) PROVE TypeOK' /\ HasProposal'
    BY <1>9, WritesExecuted DEF ApproveExecute
  <1>10. ASSUME NEW h \in Handlers, ApproveExecuteCommit(h) PROVE TypeOK' /\ HasProposal'
    BY <1>10 DEF ApproveExecuteCommit
  <1>11. ASSUME NEW h \in Handlers, NEW p \in Proposals, RejectRead(h, p) PROVE TypeOK' /\ HasProposal'
    BY <1>11 DEF RejectRead
  <1>12. ASSUME NEW h \in Handlers, RejectWrite(h) PROVE TypeOK' /\ HasProposal'
    BY <1>12, WritesStatus DEF RejectWrite
  <1>13. ASSUME NEW h \in Handlers, RejectCommit(h) PROVE TypeOK' /\ HasProposal'
    BY <1>13 DEF RejectCommit
  <1>14. ASSUME NEW h \in Handlers, NEW p \in Proposals, CheckExpiryRead(h, p) PROVE TypeOK' /\ HasProposal'
    BY <1>14 DEF CheckExpiryRead
  <1>15. ASSUME NEW c \in Coroutines, Expire(c) PROVE TypeOK' /\ HasProposal'
    BY <1>15, WritesStatus DEF Expire
  <1>16. ASSUME NEW c \in Coroutines, ExpireCommit(c) PROVE TypeOK' /\ HasProposal'
    BY <1>16 DEF ExpireCommit
  <1>17. ASSUME NEW s \in Scanners, ScanRead(s) PROVE TypeOK' /\ HasProposal'
    BY <1>17 DEF ScanRead
  <1>18. ASSUME NEW s \in Scanners, NEW p \in Proposals, ScanNext(s, p) PROVE TypeOK' /\ HasProposal'
    BY <1>18 DEF ScanNext
  <1>19. ASSUME NEW s \in Scanners, ScanDone(s) PROVE TypeOK' /\ HasProposal'
    BY <1>19 DEF ScanDone
  <1>20. ASSUME NEW s \in Scanners, ScanExpired(s) PROVE TypeOK' /\ HasProposal'
    BY <1>20, WritesStatus DEF ScanExpired
  <1>21. ASSUME NEW s \in Scanners, ScanKept(s) PROVE TypeOK' /\ HasProposal'
    BY <1>21 DEF ScanKept
  <1>22. ASSUME NEW s \in Scanners, AutoGatePass(s) PROVE TypeOK' /\ HasProposal'
    BY <1>22 DEF AutoGatePass
  <1>23. ASSUME NEW s \in Scanners, AutoGateRefuses(s) PROVE TypeOK' /\ HasProposal'
    BY <1>23 DEF AutoGateRefuses
  <1>24. ASSUME NEW s \in Scanners, AutoRaises(s) PROVE TypeOK' /\ HasProposal'
    BY <1>24 DEF AutoRaises, ScanAborts
  <1>25. ASSUME NEW s \in Scanners, AutoRaisesLate(s) PROVE TypeOK' /\ HasProposal'
    BY <1>25, WritesTrade DEF AutoRaisesLate, ScanAborts
  <1>26. ASSUME NEW s \in Scanners, AutoRoute(s) PROVE TypeOK' /\ HasProposal'
    BY <1>26 DEF AutoRoute
  <1>27. ASSUME NEW s \in Scanners, AutoPaperTrade(s) PROVE TypeOK' /\ HasProposal'
    BY <1>27, WritesTrade DEF AutoPaperTrade
  <1>28. ASSUME NEW s \in Scanners, AutoLiveOrder(s) PROVE TypeOK' /\ HasProposal'
    BY <1>28 DEF AutoLiveOrder
  <1>29. ASSUME NEW s \in Scanners, AutoMark(s) PROVE TypeOK' /\ HasProposal'
    BY <1>29, WritesExecuted DEF AutoMark
  <1>30. ASSUME NEW s \in Scanners, AutoMarkCommit(s) PROVE TypeOK' /\ HasProposal'
    BY <1>30 DEF AutoMarkCommit
  <1>31. ASSUME NEW p \in Proposals, Deadline(p) PROVE TypeOK' /\ HasProposal'
    BY <1>31 DEF Deadline
  <1>32. ASSUME NEW m \in Modes, SetMode(m) PROVE TypeOK' /\ HasProposal'
    BY <1>32 DEF SetMode
  <1>33. ASSUME SomeoneRollsBack PROVE TypeOK' /\ HasProposal'
    BY <1>33 DEF SomeoneRollsBack
  <1>34. ASSUME Restart PROVE TypeOK' /\ HasProposal'
    BY <1>34 DEF Restart
  <1>35. CASE UNCHANGED vars
    BY <1>35 DEF vars
  <1>36. ASSUME NEW h \in Handlers, HandlerStep(h) \/ \E p \in Proposals : HandlerStart(h, p)
         PROVE  TypeOK' /\ HasProposal'
    BY <1>36, <1>1, <1>2, <1>3, <1>4, <1>5, <1>6, <1>7, <1>8, <1>9, <1>10, <1>11, <1>12, <1>13, <1>14, <1>15, <1>16
    DEF HandlerStep, HandlerStart
  <1>37. ASSUME NEW s \in Scanners, ScannerStep(s) PROVE TypeOK' /\ HasProposal'
    BY <1>37, <1>15, <1>16, <1>17, <1>18, <1>19, <1>20, <1>21, <1>22, <1>23, <1>24, <1>25, <1>26, <1>27, <1>28, <1>29, <1>30
    DEF ScannerStep
  <1> QED
    BY <1>31, <1>32, <1>33, <1>34, <1>35, <1>36, <1>37 DEF Next, Environment

\* Somebody takes up a proposal by reading its row or by making it, and a row goes only by a
\* restart, when nobody holds it, or by a rollback.
LEMMA StepHeld ==
    ASSUME TypeOK, HasProposal, Held, [Next]_vars
    PROVE  Held'
  <1> USE QueueAssumption DEF TypeOK, HasProposal, Held, Exists, Row, Statuses, Coroutines, Goto,
          Step, NextRow, Begin, Return, Commit, db, Orders, World
  <1>1. ASSUME NEW h \in Handlers, NEW p \in Proposals, Enqueue(h, p) PROVE Held'
    BY <1>1, WritesNew DEF Enqueue
  <1>2. ASSUME NEW h \in Handlers, EnqueueCommit(h) PROVE Held'
    BY <1>2 DEF EnqueueCommit
  <1>3. ASSUME NEW h \in Handlers, NEW p \in Proposals, ApproveRead(h, p) PROVE Held'
    BY <1>3 DEF ApproveRead
  <1>4. ASSUME NEW h \in Handlers, ApproveExpired(h) PROVE Held'
    <2>1. \A q \in Proposals : Exists(q) => Exists(q)'
      BY <1>4, WritesStatus DEF ApproveExpired
    <2>2. cur' = cur /\ todo' = todo /\ undone' = undone
      BY <1>4 DEF ApproveExpired
    <2> QED
      BY <2>1, <2>2
  <1>5. ASSUME NEW h \in Handlers, ApproveWrite(h) PROVE Held'
    BY <1>5, WritesStatus DEF ApproveWrite
  <1>6. ASSUME NEW h \in Handlers, ApproveCommit(h) PROVE Held'
    BY <1>6 DEF ApproveCommit
  <1>7. ASSUME NEW h \in Handlers, ApproveSubmit(h) PROVE Held'
    BY <1>7 DEF ApproveSubmit
  <1>8. ASSUME NEW h \in Handlers, ApproveSubmitFails(h) PROVE Held'
    BY <1>8 DEF ApproveSubmitFails
  <1>9. ASSUME NEW h \in Handlers, ApproveExecute(h) PROVE Held'
    <2>1. \A q \in Proposals : Exists(q) => Exists(q)'
      BY <1>9, WritesExecuted DEF ApproveExecute
    <2>2. cur' = cur /\ todo' = todo /\ undone' = undone
      BY <1>9 DEF ApproveExecute
    <2> QED
      BY <2>1, <2>2
  <1>10. ASSUME NEW h \in Handlers, ApproveExecuteCommit(h) PROVE Held'
    BY <1>10 DEF ApproveExecuteCommit
  <1>11. ASSUME NEW h \in Handlers, NEW p \in Proposals, RejectRead(h, p) PROVE Held'
    BY <1>11 DEF RejectRead
  <1>12. ASSUME NEW h \in Handlers, RejectWrite(h) PROVE Held'
    BY <1>12, WritesStatus DEF RejectWrite
  <1>13. ASSUME NEW h \in Handlers, RejectCommit(h) PROVE Held'
    BY <1>13 DEF RejectCommit
  <1>14. ASSUME NEW h \in Handlers, NEW p \in Proposals, CheckExpiryRead(h, p) PROVE Held'
    BY <1>14 DEF CheckExpiryRead
  <1>15. ASSUME NEW c \in Coroutines, Expire(c) PROVE Held'
    BY <1>15, WritesStatus DEF Expire
  <1>16. ASSUME NEW c \in Coroutines, ExpireCommit(c) PROVE Held'
    BY <1>16 DEF ExpireCommit
  <1>17. ASSUME NEW s \in Scanners, ScanRead(s) PROVE Held'
    BY <1>17 DEF ScanRead
  <1>18. ASSUME NEW s \in Scanners, NEW p \in Proposals, ScanNext(s, p) PROVE Held'
    BY <1>18 DEF ScanNext
  <1>19. ASSUME NEW s \in Scanners, ScanDone(s) PROVE Held'
    BY <1>19 DEF ScanDone
  <1>20. ASSUME NEW s \in Scanners, ScanExpired(s) PROVE Held'
    BY <1>20, WritesStatus DEF ScanExpired
  <1>21. ASSUME NEW s \in Scanners, ScanKept(s) PROVE Held'
    BY <1>21 DEF ScanKept
  <1>22. ASSUME NEW s \in Scanners, AutoGatePass(s) PROVE Held'
    BY <1>22 DEF AutoGatePass
  <1>23. ASSUME NEW s \in Scanners, AutoGateRefuses(s) PROVE Held'
    BY <1>23 DEF AutoGateRefuses
  <1>24. ASSUME NEW s \in Scanners, AutoRaises(s) PROVE Held'
    BY <1>24 DEF AutoRaises, ScanAborts
  <1>25. ASSUME NEW s \in Scanners, AutoRaisesLate(s) PROVE Held'
    BY <1>25, WritesTrade DEF AutoRaisesLate, ScanAborts
  <1>26. ASSUME NEW s \in Scanners, AutoRoute(s) PROVE Held'
    BY <1>26 DEF AutoRoute
  <1>27. ASSUME NEW s \in Scanners, AutoPaperTrade(s) PROVE Held'
    BY <1>27, WritesTrade DEF AutoPaperTrade
  <1>28. ASSUME NEW s \in Scanners, AutoLiveOrder(s) PROVE Held'
    BY <1>28 DEF AutoLiveOrder
  <1>29. ASSUME NEW s \in Scanners, AutoMark(s) PROVE Held'
    <2>1. \A q \in Proposals : Exists(q) => Exists(q)'
      BY <1>29, WritesExecuted DEF AutoMark
    <2>2. cur' = cur /\ todo' = todo /\ undone' = undone
      BY <1>29 DEF AutoMark
    <2> QED
      BY <2>1, <2>2
  <1>30. ASSUME NEW s \in Scanners, AutoMarkCommit(s) PROVE Held'
    BY <1>30 DEF AutoMarkCommit
  <1>31. ASSUME NEW p \in Proposals, Deadline(p) PROVE Held'
    BY <1>31 DEF Deadline
  <1>32. ASSUME NEW m \in Modes, SetMode(m) PROVE Held'
    BY <1>32 DEF SetMode
  <1>33. ASSUME SomeoneRollsBack PROVE Held'
    BY <1>33 DEF SomeoneRollsBack, Exposed
  <1>34. ASSUME Restart PROVE Held'
    BY <1>34 DEF Restart
  <1>35. CASE UNCHANGED vars
    BY <1>35 DEF vars
  <1>36. ASSUME NEW h \in Handlers, HandlerStep(h) \/ \E p \in Proposals : HandlerStart(h, p)
         PROVE  Held'
    BY <1>36, <1>1, <1>2, <1>3, <1>4, <1>5, <1>6, <1>7, <1>8, <1>9, <1>10, <1>11, <1>12, <1>13, <1>14, <1>15, <1>16
    DEF HandlerStep, HandlerStart
  <1>37. ASSUME NEW s \in Scanners, ScannerStep(s) PROVE Held'
    BY <1>37, <1>15, <1>16, <1>17, <1>18, <1>19, <1>20, <1>21, <1>22, <1>23, <1>24, <1>25, <1>26, <1>27, <1>28, <1>29, <1>30
    DEF ScannerStep
  <1> QED
    BY <1>31, <1>32, <1>33, <1>34, <1>35, <1>36, <1>37 DEF Next, Environment

\* What every step but a restart and a rollback does to a proposal: nothing is taken back,
\* an execution is recorded by somebody who placed its order, and an order of approve is
\* placed by somebody who came that far, in a step that commits.
Forward(p) ==
    /\ undone' = undone
    /\ Decided(row[p].status) => Decided(row'[p].status)
    /\ Exists(p) => Exists(p)'
    /\ p \in undone => Exists(p)' = Exists(p)
    /\ row[p].trades <= row'[p].trades
    /\ auto[p] <= auto'[p]
    /\ \/ row'[p].linked = row[p].linked
       \/ \E c \in Coroutines : cur[c] = p /\ pc[c] \in {"execute", "mark"}
    /\ \/ manual'[p] = manual[p]
       \/ /\ manual'[p] = manual[p] + 1 /\ Commit
          /\ \E h \in Handlers : cur[h] = p /\ pc[h] = "submit"

\* Every step goes forward, but a rollback and a restart.
LEMMA StepForward ==
    ASSUME TypeOK, HasProposal, [Next]_vars, NEW q \in Proposals
    PROVE  Forward(q) \/ SomeoneRollsBack \/ Restart
  <1> DEFINE Goal == Forward(q) \/ SomeoneRollsBack \/ Restart
  <1>0. /\ row[q].trades \in Nat /\ auto[q] \in Nat /\ manual[q] \in Nat
        /\ row[q].status \in Statuses \cup {"none"}
    BY DEF TypeOK, Row
  <1> USE <1>0 DEF Forward, Exists, Coroutines, Step, Return, Begin, NextRow, Commit, db, Orders, World
  <1>1. ASSUME NEW h \in Handlers, NEW p \in Proposals, Enqueue(h, p) PROVE Goal
    BY <1>1, WritesNew DEF Enqueue, Decided, Statuses
  <1>2. ASSUME NEW h \in Handlers, EnqueueCommit(h) PROVE Goal
    BY <1>2 DEF EnqueueCommit
  <1>3. ASSUME NEW h \in Handlers, NEW p \in Proposals, ApproveRead(h, p) PROVE Goal
    BY <1>3 DEF ApproveRead
  <1>4. ASSUME NEW h \in Handlers, ApproveExpired(h) PROVE Goal
    <2>1. cur[h] \in Proposals
      BY <1>4 DEF ApproveExpired, HasProposal
    <2> QED
      BY <1>4, <2>1, WritesStatus DEF ApproveExpired, Decided, Statuses
  <1>5. ASSUME NEW h \in Handlers, ApproveWrite(h) PROVE Goal
    <2>1. cur[h] \in Proposals
      BY <1>5 DEF ApproveWrite, HasProposal
    <2> QED
      BY <1>5, <2>1, WritesStatus DEF ApproveWrite, Decided, Statuses
  <1>6. ASSUME NEW h \in Handlers, ApproveCommit(h) PROVE Goal
    BY <1>6 DEF ApproveCommit
  <1>7. ASSUME NEW h \in Handlers, ApproveSubmit(h) PROVE Goal
    BY <1>7 DEF ApproveSubmit, TypeOK, HasProposal
  <1>8. ASSUME NEW h \in Handlers, ApproveSubmitFails(h) PROVE Goal
    BY <1>8 DEF ApproveSubmitFails, TypeOK, HasProposal
  <1>9. ASSUME NEW h \in Handlers, ApproveExecute(h) PROVE Goal
    <2>1. cur[h] \in Proposals
      BY <1>9 DEF ApproveExecute, HasProposal
    <2> QED
      BY <1>9, <2>1, WritesExecuted DEF ApproveExecute, Decided, Statuses
  <1>10. ASSUME NEW h \in Handlers, ApproveExecuteCommit(h) PROVE Goal
    BY <1>10 DEF ApproveExecuteCommit
  <1>11. ASSUME NEW h \in Handlers, NEW p \in Proposals, RejectRead(h, p) PROVE Goal
    BY <1>11 DEF RejectRead
  <1>12. ASSUME NEW h \in Handlers, RejectWrite(h) PROVE Goal
    <2>1. cur[h] \in Proposals
      BY <1>12 DEF RejectWrite, HasProposal
    <2> QED
      BY <1>12, <2>1, WritesStatus DEF RejectWrite, Decided, Statuses
  <1>13. ASSUME NEW h \in Handlers, RejectCommit(h) PROVE Goal
    BY <1>13 DEF RejectCommit
  <1>14. ASSUME NEW h \in Handlers, NEW p \in Proposals, CheckExpiryRead(h, p) PROVE Goal
    BY <1>14 DEF CheckExpiryRead
  <1>15. ASSUME NEW c \in Coroutines, Expire(c) PROVE Goal
    <2>1. cur[c] \in Proposals
      BY <1>15 DEF Expire, HasProposal
    <2> QED
      BY <1>15, <2>1, WritesStatus DEF Expire, Decided, Statuses
  <1>16. ASSUME NEW c \in Coroutines, ExpireCommit(c) PROVE Goal
    BY <1>16 DEF ExpireCommit
  <1>17. ASSUME NEW s \in Scanners, ScanRead(s) PROVE Goal
    BY <1>17 DEF ScanRead
  <1>18. ASSUME NEW s \in Scanners, NEW p \in Proposals, ScanNext(s, p) PROVE Goal
    BY <1>18 DEF ScanNext
  <1>19. ASSUME NEW s \in Scanners, ScanDone(s) PROVE Goal
    BY <1>19 DEF ScanDone
  <1>20. ASSUME NEW s \in Scanners, ScanExpired(s) PROVE Goal
    <2>1. cur[s] \in Proposals
      BY <1>20 DEF ScanExpired, HasProposal
    <2> QED
      BY <1>20, <2>1, WritesStatus DEF ScanExpired, Decided, Statuses
  <1>21. ASSUME NEW s \in Scanners, ScanKept(s) PROVE Goal
    BY <1>21 DEF ScanKept
  <1>22. ASSUME NEW s \in Scanners, AutoGatePass(s) PROVE Goal
    BY <1>22 DEF AutoGatePass
  <1>23. ASSUME NEW s \in Scanners, AutoGateRefuses(s) PROVE Goal
    BY <1>23 DEF AutoGateRefuses
  <1>24. ASSUME NEW s \in Scanners, AutoRaises(s) PROVE Goal
    BY <1>24 DEF AutoRaises, ScanAborts
  <1>25. ASSUME NEW s \in Scanners, AutoRaisesLate(s) PROVE Goal
    <2>1. cur[s] \in Proposals /\ undone' = undone /\ manual' = manual
      BY <1>25 DEF AutoRaisesLate, ScanAborts, HasProposal
    <2>2. CASE row' = row
      BY <1>25, <2>1, <2>2 DEF AutoRaisesLate, TypeOK
    <2>3. CASE AddTrade(cur[s]) /\ auto' = auto
      BY <2>1, <2>3, WritesTrade DEF Decided, Statuses
    <2> QED
      BY <1>25, <2>2, <2>3 DEF AutoRaisesLate
  <1>26. ASSUME NEW s \in Scanners, AutoRoute(s) PROVE Goal
    BY <1>26 DEF AutoRoute
  <1>27. ASSUME NEW s \in Scanners, AutoPaperTrade(s) PROVE Goal
    <2>1. cur[s] \in Proposals
      BY <1>27 DEF AutoPaperTrade, HasProposal
    <2> QED
      BY <1>27, <2>1, WritesTrade DEF AutoPaperTrade, Decided, Statuses
  <1>28. ASSUME NEW s \in Scanners, AutoLiveOrder(s) PROVE Goal
    BY <1>28 DEF AutoLiveOrder, TypeOK, HasProposal
  <1>29. ASSUME NEW s \in Scanners, AutoMark(s) PROVE Goal
    <2>1. cur[s] \in Proposals
      BY <1>29 DEF AutoMark, HasProposal
    <2> QED
      BY <1>29, <2>1, WritesExecuted DEF AutoMark, Decided, Statuses
  <1>30. ASSUME NEW s \in Scanners, AutoMarkCommit(s) PROVE Goal
    BY <1>30 DEF AutoMarkCommit
  <1>31. ASSUME NEW p \in Proposals, Deadline(p) PROVE Goal
    BY <1>31 DEF Deadline
  <1>32. ASSUME NEW m \in Modes, SetMode(m) PROVE Goal
    BY <1>32 DEF SetMode
  <1>33. ASSUME SomeoneRollsBack PROVE Goal
    BY <1>33 DEF SomeoneRollsBack
  <1>34. ASSUME Restart PROVE Goal
    BY <1>34 DEF Restart
  <1>35. CASE UNCHANGED vars
    BY <1>35 DEF vars
  <1>36. ASSUME NEW h \in Handlers, HandlerStep(h) \/ \E p \in Proposals : HandlerStart(h, p)
         PROVE  Goal
    BY <1>36, <1>1, <1>2, <1>3, <1>4, <1>5, <1>6, <1>7, <1>8, <1>9, <1>10, <1>11, <1>12, <1>13, <1>14, <1>15, <1>16
    DEF HandlerStep, HandlerStart
  <1>37. ASSUME NEW s \in Scanners, ScannerStep(s) PROVE Goal
    BY <1>37, <1>15, <1>16, <1>17, <1>18, <1>19, <1>20, <1>21, <1>22, <1>23, <1>24, <1>25, <1>26, <1>27, <1>28, <1>29, <1>30
    DEF ScannerStep
  <1> QED
    BY <1>31, <1>32, <1>33, <1>34, <1>35, <1>36, <1>37 DEF Next, Environment

\* How a coroutine gets to where it has decided or placed something.
Arrives(c) ==
    \/ pc'[c] \notin {"approveCommit", "submit", "execute", "mark"}
    \/ pc'[c] = pc[c] /\ cur'[c] = cur[c]
    \/ pc'[c] = "approveCommit" /\ ApproveWrite(c)
    \/ pc'[c] = "submit" /\ ApproveCommit(c)
    \/ pc'[c] = "execute" /\ ApproveSubmit(c)
    \/ pc'[c] = "mark" /\ (AutoPaperTrade(c) \/ AutoLiveOrder(c))

\* No coroutine is where it decided or placed something without having done so.
LEMMA StepArrives ==
    ASSUME TypeOK, [Next]_vars, NEW d \in Coroutines
    PROVE  Arrives(d)
  <1>0. pc \in [Coroutines -> HandlerPoints \cup ScannerPoints] /\ cur \in [Coroutines -> Proposals \cup {None}]
    BY DEF TypeOK
  <1> USE <1>0 DEF Arrives, Coroutines, Goto, Step, Return, Begin, NextRow
  <1>1. ASSUME NEW h \in Handlers, NEW p \in Proposals, Enqueue(h, p) PROVE Arrives(d)
    BY <1>1 DEF Enqueue
  <1>2. ASSUME NEW h \in Handlers, EnqueueCommit(h) PROVE Arrives(d)
    BY <1>2 DEF EnqueueCommit
  <1>3. ASSUME NEW h \in Handlers, NEW p \in Proposals, ApproveRead(h, p) PROVE Arrives(d)
    BY <1>3 DEF ApproveRead
  <1>4. ASSUME NEW h \in Handlers, ApproveExpired(h) PROVE Arrives(d)
    BY <1>4 DEF ApproveExpired
  <1>5. ASSUME NEW h \in Handlers, ApproveWrite(h) PROVE Arrives(d)
    BY <1>5 DEF ApproveWrite
  <1>6. ASSUME NEW h \in Handlers, ApproveCommit(h) PROVE Arrives(d)
    BY <1>6 DEF ApproveCommit
  <1>7. ASSUME NEW h \in Handlers, ApproveSubmit(h) PROVE Arrives(d)
    BY <1>7 DEF ApproveSubmit
  <1>8. ASSUME NEW h \in Handlers, ApproveSubmitFails(h) PROVE Arrives(d)
    BY <1>8 DEF ApproveSubmitFails
  <1>9. ASSUME NEW h \in Handlers, ApproveExecute(h) PROVE Arrives(d)
    BY <1>9 DEF ApproveExecute
  <1>10. ASSUME NEW h \in Handlers, ApproveExecuteCommit(h) PROVE Arrives(d)
    BY <1>10 DEF ApproveExecuteCommit
  <1>11. ASSUME NEW h \in Handlers, NEW p \in Proposals, RejectRead(h, p) PROVE Arrives(d)
    BY <1>11 DEF RejectRead
  <1>12. ASSUME NEW h \in Handlers, RejectWrite(h) PROVE Arrives(d)
    BY <1>12 DEF RejectWrite
  <1>13. ASSUME NEW h \in Handlers, RejectCommit(h) PROVE Arrives(d)
    BY <1>13 DEF RejectCommit
  <1>14. ASSUME NEW h \in Handlers, NEW p \in Proposals, CheckExpiryRead(h, p) PROVE Arrives(d)
    BY <1>14 DEF CheckExpiryRead
  <1>15. ASSUME NEW c \in Coroutines, Expire(c) PROVE Arrives(d)
    BY <1>15 DEF Expire
  <1>16. ASSUME NEW c \in Coroutines, ExpireCommit(c) PROVE Arrives(d)
    BY <1>16 DEF ExpireCommit
  <1>17. ASSUME NEW s \in Scanners, ScanRead(s) PROVE Arrives(d)
    BY <1>17 DEF ScanRead
  <1>18. ASSUME NEW s \in Scanners, NEW p \in Proposals, ScanNext(s, p) PROVE Arrives(d)
    BY <1>18 DEF ScanNext
  <1>19. ASSUME NEW s \in Scanners, ScanDone(s) PROVE Arrives(d)
    BY <1>19 DEF ScanDone
  <1>20. ASSUME NEW s \in Scanners, ScanExpired(s) PROVE Arrives(d)
    BY <1>20 DEF ScanExpired
  <1>21. ASSUME NEW s \in Scanners, ScanKept(s) PROVE Arrives(d)
    BY <1>21 DEF ScanKept
  <1>22. ASSUME NEW s \in Scanners, AutoGatePass(s) PROVE Arrives(d)
    BY <1>22 DEF AutoGatePass
  <1>23. ASSUME NEW s \in Scanners, AutoGateRefuses(s) PROVE Arrives(d)
    BY <1>23 DEF AutoGateRefuses
  <1>24. ASSUME NEW s \in Scanners, AutoRaises(s) PROVE Arrives(d)
    BY <1>24 DEF AutoRaises, ScanAborts
  <1>25. ASSUME NEW s \in Scanners, AutoRaisesLate(s) PROVE Arrives(d)
    BY <1>25 DEF AutoRaisesLate, ScanAborts
  <1>26. ASSUME NEW s \in Scanners, AutoRoute(s) PROVE Arrives(d)
    BY <1>26 DEF AutoRoute
  <1>27. ASSUME NEW s \in Scanners, AutoPaperTrade(s) PROVE Arrives(d)
    BY <1>27 DEF AutoPaperTrade
  <1>28. ASSUME NEW s \in Scanners, AutoLiveOrder(s) PROVE Arrives(d)
    BY <1>28 DEF AutoLiveOrder
  <1>29. ASSUME NEW s \in Scanners, AutoMark(s) PROVE Arrives(d)
    BY <1>29 DEF AutoMark
  <1>30. ASSUME NEW s \in Scanners, AutoMarkCommit(s) PROVE Arrives(d)
    BY <1>30 DEF AutoMarkCommit
  <1>31. ASSUME NEW p \in Proposals, Deadline(p) PROVE Arrives(d)
    BY <1>31 DEF Deadline
  <1>32. ASSUME NEW m \in Modes, SetMode(m) PROVE Arrives(d)
    BY <1>32 DEF SetMode
  <1>33. ASSUME SomeoneRollsBack PROVE Arrives(d)
    BY <1>33 DEF SomeoneRollsBack
  <1>34. ASSUME Restart PROVE Arrives(d)
    BY <1>34 DEF Restart
  <1>35. CASE UNCHANGED vars
    BY <1>35 DEF vars
  <1>36. ASSUME NEW h \in Handlers, HandlerStep(h) \/ \E p \in Proposals : HandlerStart(h, p)
         PROVE  Arrives(d)
    BY <1>36, <1>1, <1>2, <1>3, <1>4, <1>5, <1>6, <1>7, <1>8, <1>9, <1>10, <1>11, <1>12, <1>13, <1>14, <1>15, <1>16
    DEF HandlerStep, HandlerStart
  <1>37. ASSUME NEW s \in Scanners, ScannerStep(s) PROVE Arrives(d)
    BY <1>37, <1>15, <1>16, <1>17, <1>18, <1>19, <1>20, <1>21, <1>22, <1>23, <1>24, <1>25, <1>26, <1>27, <1>28, <1>29, <1>30
    DEF ScannerStep
  <1> QED
    BY <1>31, <1>32, <1>33, <1>34, <1>35, <1>36, <1>37 DEF Next, Environment

\* On disk a step changes nothing or copies the connection's view.
LEMMA StepDisk ==
    ASSUME [Next]_vars
    PROVE  disk' = disk \/ Commit
  <1> USE DEF Commit, db
  <1>1. ASSUME NEW h \in Handlers, HandlerStep(h) \/ \E q \in Proposals : HandlerStart(h, q)
        PROVE  disk' = disk \/ Commit
    BY <1>1 DEF HandlerStart, Enqueue, ApproveRead, RejectRead, CheckExpiryRead, HandlerStep,
       EnqueueCommit, ApproveExpired, ApproveWrite, ApproveCommit, ApproveSubmit,
       ApproveSubmitFails, ApproveExecute, ApproveExecuteCommit, RejectWrite, RejectCommit,
       Expire, ExpireCommit
  <1>2. ASSUME NEW s \in Scanners, ScannerStep(s) PROVE disk' = disk \/ Commit
    BY <1>2 DEF ScannerStep, ScanRead, ScanDone, ScanNext, ScanExpired, ScanKept, Expire,
       ExpireCommit, AutoGatePass, AutoGateRefuses, AutoRaises, AutoRaisesLate, AutoRoute,
       AutoPaperTrade, AutoLiveOrder, AutoMark, AutoMarkCommit
  <1> QED
    BY <1>1, <1>2 DEF Next, Environment, Deadline, SetMode, SomeoneRollsBack, Restart, vars

\* Decisions: a status leaves PROPOSED in the connection's view first, on disk later, and
\* approve is between its commit and its order only when both have happened.
LEMMA StepDiskBehind ==
    ASSUME TypeOK, TypeOK', HasProposal, DiskBehind, [Next]_vars
    PROVE  DiskBehind'
  <1> SUFFICES ASSUME NEW p \in Proposals
               PROVE  /\ Decided(disk'[p].status) => Decided(row'[p].status)
                      /\ disk'[p].trades <= row'[p].trades
    BY DEF DiskBehind
  <1>1. CASE SomeoneRollsBack \/ Restart
    BY <1>1 DEF SomeoneRollsBack, Restart, TypeOK, Row
  <1>2. CASE Commit
    BY <1>2 DEF Commit, TypeOK, Row
  <1>3. CASE disk' = disk /\ Forward(p)
    BY <1>3 DEF DiskBehind, Forward, TypeOK, Row
  <1> QED
    BY <1>1, <1>2, <1>3, StepDisk, StepForward

\* What a rollback undid is remembered.
LEMMA UndoneGrows ==
    ASSUME TypeOK, HasProposal, [Next]_vars
    PROVE  undone \subseteq undone'
  <1>1. ASSUME NEW p \in Proposals PROVE undone \subseteq undone'
    BY <1>1, StepForward DEF Forward, SomeoneRollsBack, Restart
  <1> QED
    BY <1>1 DEF TypeOK

\* Every step keeps what is known of a decision from its UPDATE to the placement.
LEMMA StepDecisions ==
    ASSUME TypeOK, HasProposal, HasProposal', Held, DiskBehind, ApproveCommits, [Next]_vars
    PROVE  ApproveCommits'
  <1> SUFFICES ASSUME NEW c \in Coroutines, cur'[c] \notin undone'
               PROVE  /\ pc'[c] = "approveCommit" => Decided(row'[cur'[c]].status)
                      /\ pc'[c] = "submit" => Decided(disk'[cur'[c]].status)
    BY DEF ApproveCommits
  <1>1. Arrives(c) /\ undone \subseteq undone' /\ (disk' = disk \/ Commit)
    BY StepArrives, UndoneGrows, StepDisk
  <1>2. ASSUME pc'[c] = pc[c], cur'[c] = cur[c], pc[c] \in {"approveCommit", "submit"}
        PROVE  /\ pc[c] = "approveCommit" => Decided(row'[cur[c]].status)
               /\ pc[c] = "submit" => Decided(disk'[cur[c]].status)
    <2>1. /\ cur[c] \in Proposals /\ cur[c] \notin undone
          /\ pc[c] = "approveCommit" => Decided(row[cur[c]].status)
          /\ pc[c] = "submit" => Decided(disk[cur[c]].status)
      BY <1>1, <1>2 DEF HasProposal, ApproveCommits
    <2>2. pc[c] = "submit" => Decided(disk'[cur[c]].status)
      BY <1>1, <2>1 DEF DiskBehind, Commit
    <2>3. CASE Forward(cur[c])
      BY <2>1, <2>2, <2>3 DEF Forward
    <2>4. CASE SomeoneRollsBack
      BY <1>2, <2>1, <2>2, <2>4 DEF SomeoneRollsBack, Exposed
    <2>5. CASE Restart
      BY <1>2, <2>5 DEF Restart
    <2> QED
      BY <2>1, <2>3, <2>4, <2>5, StepForward
  <1>3. CASE pc'[c] = "approveCommit" /\ ApproveWrite(c)
    <2>1. /\ cur[c] \in Proposals /\ cur'[c] = cur[c] /\ SetStatus(cur[c], "approved")
          /\ Exists(cur[c])
      BY <1>1, <1>3 DEF ApproveWrite, Step, HasProposal, Held
    <2>2. row'[cur[c]].status = "approved"
      BY <2>1, WritesStatus DEF Statuses
    <2> QED
      BY <1>3, <2>1, <2>2 DEF Decided, Statuses
  <1>4. CASE pc'[c] = "submit" /\ ApproveCommit(c)
    BY <1>1, <1>4 DEF ApproveCommit, Step, Commit, ApproveCommits
  <1>5. CASE pc'[c] \notin {"approveCommit", "submit"}
    BY <1>5
  <1> QED
    BY <1>1, <1>2, <1>3, <1>4, <1>5 DEF Arrives

\* Every step keeps the decision ahead of the order.
LEMMA StepWriteAhead ==
    ASSUME TypeOK, HasProposal, DiskBehind, ApproveCommits, ManualWriteAhead, [Next]_vars
    PROVE  ManualWriteAhead'
  <1> SUFFICES ASSUME NEW p \in Proposals, p \notin undone', manual'[p] > 0
               PROVE  Decided(disk'[p].status)
    BY DEF ManualWriteAhead
  <1>1. p \notin undone /\ (disk' = disk \/ Commit)
    BY UndoneGrows, StepDisk
  <1>2. CASE manual'[p] = manual[p]
    BY <1>1, <1>2 DEF ManualWriteAhead, DiskBehind, Commit
  <1>3. ASSUME NEW h \in Handlers, cur[h] = p, pc[h] = "submit" PROVE Decided(disk'[p].status)
    BY <1>1, <1>3 DEF ApproveCommits, DiskBehind, Commit, Coroutines
  <1>4. CASE SomeoneRollsBack \/ Restart
    BY <1>2, <1>4 DEF SomeoneRollsBack, Restart, Orders
  <1> QED
    BY <1>2, <1>3, <1>4, StepForward DEF Forward

\* Orders: counters only grow, and a flag is set only behind an order, of an adapter that
\* tells and with no rollback in between.
LEMMA StepPlaced ==
    ASSUME TypeOK, TypeOK', HasProposal, HasProposal', OrderPlaced, [Next]_vars
    PROVE  OrderPlaced'
  <1> SUFFICES ASSUME NEW c \in Coroutines, cur'[c] \in Truthful \ undone'
               PROVE  /\ pc'[c] = "execute" => manual'[cur'[c]] > 0
                      /\ pc'[c] = "mark" => auto'[cur'[c]] > 0 \/ row'[cur'[c]].trades > 0
    BY DEF OrderPlaced
  <1>1. Arrives(c) /\ undone \subseteq undone'
    BY StepArrives, UndoneGrows
  <1>2. ASSUME pc'[c] = pc[c], cur'[c] = cur[c], pc[c] \in {"execute", "mark"}
        PROVE  /\ pc[c] = "execute" => manual'[cur[c]] > 0
               /\ pc[c] = "mark" => auto'[cur[c]] > 0 \/ row'[cur[c]].trades > 0
    <2>1. /\ cur[c] \in Proposals /\ cur[c] \in Truthful \ undone
          /\ manual[cur[c]] \in Nat /\ auto[cur[c]] \in Nat /\ auto'[cur[c]] \in Nat
          /\ row[cur[c]].trades \in Nat /\ row'[cur[c]].trades \in Nat
      BY <1>1, <1>2 DEF HasProposal, TypeOK, Row
    <2>2. /\ pc[c] = "execute" => manual[cur[c]] > 0
          /\ pc[c] = "mark" => auto[cur[c]] > 0 \/ row[cur[c]].trades > 0
      BY <2>1 DEF OrderPlaced
    <2>3. CASE Forward(cur[c])
      BY <2>1, <2>2, <2>3 DEF Forward
    <2>4. CASE SomeoneRollsBack
      <3>1. manual' = manual /\ auto' = auto /\ row' = disk
        BY <2>4 DEF SomeoneRollsBack, Orders
      <3>2. pc[c] = "mark" => disk[cur[c]].trades = row[cur[c]].trades
        BY <1>2, <2>1, <2>4 DEF SomeoneRollsBack, Exposed
      <3> QED
        BY <2>2, <3>1, <3>2
    <2>5. CASE Restart
      BY <1>2, <2>5 DEF Restart
    <2> QED
      BY <2>1, <2>3, <2>4, <2>5, StepForward
  <1>3. CASE pc'[c] = "execute" /\ ApproveSubmit(c)
    <2>1. cur[c] \in Proposals /\ cur'[c] = cur[c] /\ manual[cur[c]] \in Nat
      BY <1>3 DEF ApproveSubmit, Step, HasProposal, TypeOK
    <2> QED
      BY <1>3, <2>1 DEF ApproveSubmit, TypeOK
  <1>4. CASE pc'[c] = "mark" /\ AutoPaperTrade(c)
    <2>1. cur[c] \in Proposals /\ cur'[c] = cur[c] /\ AddTrade(cur[c]) /\ row[cur[c]].trades \in Nat
      BY <1>4 DEF AutoPaperTrade, Step, HasProposal, TypeOK, Row
    <2> QED
      BY <1>4, <2>1, WritesTrade
  <1>5. CASE pc'[c] = "mark" /\ AutoLiveOrder(c)
    <2>1. cur[c] \in Proposals /\ cur'[c] = cur[c] /\ auto[cur[c]] \in Nat
      BY <1>5 DEF AutoLiveOrder, Step, HasProposal, TypeOK
    <2> QED
      BY <1>5, <2>1 DEF AutoLiveOrder, TypeOK
  <1>6. CASE pc'[c] \notin {"execute", "mark"}
    BY <1>6
  <1> QED
    BY <1>1, <1>2, <1>3, <1>4, <1>5, <1>6 DEF Arrives

\* Every step keeps an order behind what says executed.
LEMMA StepLinked ==
    ASSUME TypeOK, TypeOK', HasProposal, OrderPlaced, LinkedRows, [Next]_vars
    PROVE  LinkedRows'
  <1> DEFINE Backed(t, p) == manual'[p] > 0 \/ auto'[p] > 0 \/ t[p].trades > 0
  <1> SUFFICES ASSUME NEW p \in Truthful \ undone'
               PROVE  /\ row'[p].linked => Backed(row', p)
                      /\ disk'[p].linked => Backed(disk', p)
    BY DEF LinkedRows
  <1>0. /\ p \in Proposals /\ p \in Truthful \ undone
        /\ manual[p] \in Nat /\ auto[p] \in Nat /\ manual'[p] \in Nat /\ auto'[p] \in Nat
        /\ row[p].trades \in Nat /\ row'[p].trades \in Nat
        /\ row[p].linked \in BOOLEAN /\ row'[p].linked \in BOOLEAN
    BY UndoneGrows, QueueAssumption DEF TypeOK, Row
  <1>1. /\ row[p].linked => manual[p] > 0 \/ auto[p] > 0 \/ row[p].trades > 0
        /\ disk[p].linked => manual[p] > 0 \/ auto[p] > 0 \/ disk[p].trades > 0
    BY <1>0 DEF LinkedRows
  <1>2. CASE SomeoneRollsBack \/ Restart
    BY <1>1, <1>2 DEF SomeoneRollsBack, Restart, Orders
  <1>3. CASE Forward(p)
    <2>1. manual'[p] >= manual[p] /\ auto'[p] >= auto[p] /\ row'[p].trades >= row[p].trades
      BY <1>0, <1>3 DEF Forward
    <2>2. ASSUME row'[p].linked = row[p].linked PROVE row'[p].linked => Backed(row', p)
      BY <1>0, <1>1, <2>1, <2>2
    <2>3. ASSUME NEW c \in Coroutines, cur[c] = p, pc[c] \in {"execute", "mark"}
          PROVE  Backed(row', p)
      <3>1. manual[p] > 0 \/ auto[p] > 0 \/ row[p].trades > 0
        BY <1>0, <2>3 DEF OrderPlaced
      <3> QED
        BY <1>0, <2>1, <3>1
    <2>4. row'[p].linked => Backed(row', p)
      BY <1>0, <1>1, <1>3, <2>1, <2>2, <2>3 DEF Forward
    <2>5. CASE Commit
      BY <2>4, <2>5 DEF Commit
    <2>6. CASE disk' = disk
      BY <1>0, <1>1, <2>1, <2>4, <2>6
    <2> QED
      BY <2>4, <2>5, <2>6, StepDisk
  <1> QED
    BY <1>0, <1>2, <1>3, StepForward

\* Every step keeps the inductive invariant ...
LEMMA StepIInv == IInv /\ [Next]_vars => IInv'
  BY StepTypes, StepHeld, StepDiskBehind, StepDecisions, StepWriteAhead, StepPlaced, StepLinked
  DEF IInv

\* ... which therefore holds in every reachable state.
LEMMA Inductive == Spec => []IInv
  BY InitIInv, StepIInv, PTL DEF Spec

\* Every reachable state is well typed.
THEOREM TypeCorrect == Spec => []TypeOK
  BY Inductive, PTL DEF IInv

\* No exchange order of approve precedes the durable decision, so no restart can lead to
\* a second approval of a proposal that already has an order, unless a rollback came between
\* the UPDATE and its commit.
THEOREM WriteAhead == Spec => []ManualWriteAhead
  BY Inductive, PTL DEF IInv

\* executed_order_id is never set without an order behind it, where the adapter tells and
\* no rollback takes the trade away first.
THEOREM RecordedOrders == Spec => []RecordedOrderExists
  <1>1. IInv => RecordedOrderExists
    <2> SUFFICES ASSUME IInv, NEW p \in Truthful \ undone, NEW r \in {row[p], disk[p]}, r.linked
                 PROVE  manual[p] + auto[p] + r.trades > 0
      BY DEF RecordedOrderExists
    <2>1. manual[p] > 0 \/ auto[p] > 0 \/ r.trades > 0
      BY DEF IInv, LinkedRows
    <2>2. manual[p] \in Nat /\ auto[p] \in Nat /\ r.trades \in Nat
      BY QueueAssumption DEF IInv, TypeOK, Row
    <2> QED
      BY <2>1, <2>2
  <1> QED
    BY <1>1, Inductive, PTL

\* Decisions are durable once committed, and before that only a crash or a rollback undoes
\* them.
THEOREM DecisionsDurable == Spec => DecisionDurable
  <1>1. ASSUME IInv, [Next]_vars, NEW p \in Proposals
        PROVE  /\ Decided(disk[p].status) => Decided(disk'[p].status)
               /\ Decided(row[p].status) /\ ~Decided(row'[p].status)
                     => (Restart \/ SomeoneRollsBack) /\ ~Decided(disk[p].status)
    <2>1. Decided(disk[p].status) => Decided(disk'[p].status)
      BY <1>1, StepDisk DEF IInv, DiskBehind, Commit
    <2>2. ASSUME Decided(row[p].status), ~Decided(row'[p].status)
          PROVE  (Restart \/ SomeoneRollsBack) /\ ~Decided(disk[p].status)
      <3>1. Restart \/ SomeoneRollsBack
        BY <1>1, <2>2, StepForward DEF IInv, Forward
      <3> QED
        BY <2>2, <3>1 DEF Restart, SomeoneRollsBack
    <2> QED
      BY <2>1, <2>2
  <1>2. IInv /\ [Next]_vars
          => [\A p \in Proposals :
                /\ Decided(disk[p].status) => Decided(disk'[p].status)
                /\ Decided(row[p].status) /\ ~Decided(row'[p].status)
                      => (Restart \/ SomeoneRollsBack) /\ ~Decided(disk[p].status)]_vars
    BY <1>1
  <1> QED
    BY <1>2, Inductive, PTL DEF Spec, DecisionDurable

-----------------------------------------------------------------------------
(* How often approve places an order *)

\* The requests that read p PROPOSED and may still place an order for it.
Approving(p) == {h \in Handlers :
                    cur[h] = p /\ pc[h] \in {"approvePrice", "approveCommit", "submit"}}

\* The orders placed and those that may still be; a request that joins finds none placed.
ManualOK == \A p \in Proposals \ undone :
                manual[p] + Cardinality(Approving(p)) <= Cardinality(Handlers)

\* Counting sets of requests.
LEMMA ApprovingFinite ==
    ASSUME IsFiniteSet(Handlers), NEW S \in SUBSET Handlers, NEW T \in SUBSET S
    PROVE  /\ Cardinality(S) \in Nat /\ Cardinality(T) \in Nat
           /\ Cardinality(T) <= Cardinality(S)
           /\ Cardinality(S) <= Cardinality(Handlers)
           /\ Cardinality(Handlers) \in Nat
           /\ \A h \in S : Cardinality(S \ {h}) = Cardinality(S) - 1
  BY FS_Subset, FS_CardinalityType, FS_RemoveElement

\* A scanner touches neither the requests in flight nor approve's orders.
LEMMA ScannerFrame ==
    ASSUME TypeOK, NEW s \in Scanners, ScannerStep(s)
    PROVE  /\ manual' = manual /\ undone' = undone
           /\ \A h \in Handlers : pc'[h] = pc[h] /\ cur'[h] = cur[h]
  <1> USE QueueAssumption DEF TypeOK, Coroutines, Goto, Step, NextRow, Orders, World
  <1>1. CASE ScanRead(s) \/ ScanDone(s) \/ \E p \in Proposals : ScanNext(s, p)
    BY <1>1 DEF ScanRead, ScanDone, ScanNext
  <1>2. CASE ScanExpired(s) \/ ScanKept(s) \/ Expire(s) \/ ExpireCommit(s)
    BY <1>2 DEF ScanExpired, ScanKept, Expire, ExpireCommit
  <1>3. CASE AutoGatePass(s) \/ AutoGateRefuses(s) \/ AutoRaises(s) \/ AutoRaisesLate(s) \/ AutoRoute(s)
    BY <1>3 DEF AutoGatePass, AutoGateRefuses, AutoRaises, AutoRaisesLate, ScanAborts, AutoRoute
  <1>4. CASE AutoPaperTrade(s) \/ AutoLiveOrder(s) \/ AutoMark(s) \/ AutoMarkCommit(s)
    BY <1>4 DEF AutoPaperTrade, AutoLiveOrder, AutoMark, AutoMarkCommit
  <1> QED
    BY <1>1, <1>2, <1>3, <1>4 DEF ScannerStep

\* A request joins those that approve p only while p has no order; it leaves them with its
\* order, when it has one.
LEMMA HandlerApproves ==
    ASSUME IInv, NEW h \in Handlers, HandlerStep(h) \/ (\E q \in Proposals : HandlerStart(h, q)),
           NEW p \in Proposals \ undone
    PROVE  \/ manual'[p] = manual[p] /\ Approving(p)' \subseteq Approving(p)
           \/ manual'[p] = 0
           \/ /\ manual'[p] = manual[p] + 1 /\ h \in Approving(p)
              /\ Approving(p)' \subseteq Approving(p) \ {h}
  <1> USE DEF Step, Return, Begin, Goto, Orders, Coroutines, IInv, TypeOK, HasProposal
  <1>1. \A g \in Handlers \ {h} : pc'[g] = pc[g] /\ cur'[g] = cur[g]
    <2>1. \/ \E to : pc' = [pc EXCEPT ![h] = to] /\ cur' = cur
          \/ \E to, q : pc' = [pc EXCEPT ![h] = to] /\ cur' = [cur EXCEPT ![h] = q]
      BY DEF HandlerStep, HandlerStart, Enqueue, ApproveRead, RejectRead, CheckExpiryRead,
             EnqueueCommit, ApproveExpired, ApproveWrite, ApproveCommit, ApproveSubmit,
             ApproveSubmitFails, ApproveExecute, ApproveExecuteCommit, RejectWrite, RejectCommit,
             Expire, ExpireCommit
    <2> QED
      BY <2>1
  <1>2. ASSUME h \in Approving(p)' => h \in Approving(p)
        PROVE  Approving(p)' \subseteq Approving(p)
    BY <1>1, <1>2 DEF Approving
  <1>3. CASE \E q \in Proposals : ApproveRead(h, q)
    <2>1. PICK q \in Proposals : ApproveRead(h, q)
      BY <1>3
    <2>2. manual' = manual
      BY <2>1 DEF ApproveRead
    <2>3. CASE q = p
      <3>1. manual[p] = 0
        BY <2>1, <2>3 DEF ApproveRead, DiskBehind, ManualWriteAhead, Decided
      <3> QED
        BY <2>2, <3>1
    <2>4. CASE q # p
      <3>1. h \notin Approving(p)'
        BY <2>1, <2>4 DEF ApproveRead, Approving
      <3> QED
        BY <1>2, <2>2, <3>1
    <2> QED
      BY <2>3, <2>4
  <1>4. CASE \E q \in Proposals : Enqueue(h, q) \/ RejectRead(h, q) \/ CheckExpiryRead(h, q)
    <2>1. h \notin Approving(p)' /\ manual' = manual
      BY <1>4 DEF Enqueue, RejectRead, CheckExpiryRead, Approving
    <2> QED
      BY <1>2, <2>1
  <1>5. CASE ApproveWrite(h) \/ ApproveCommit(h)
    <2>1. (h \in Approving(p)' => h \in Approving(p)) /\ manual' = manual
      BY <1>5 DEF ApproveWrite, ApproveCommit, Approving
    <2> QED
      BY <1>2, <2>1
  <1>6. CASE ApproveSubmit(h) \/ ApproveSubmitFails(h)
    <2>1. /\ pc[h] = "submit" /\ h \notin Approving(p)'
          /\ cur[h] \in Proposals
          /\ manual' = manual \/ manual' = [manual EXCEPT ![cur[h]] = @ + 1]
      BY <1>6 DEF ApproveSubmit, ApproveSubmitFails, Approving
    <2>2. CASE cur[h] = p
      BY <1>2, <2>1, <2>2 DEF Approving
    <2>3. CASE cur[h] # p
      BY <1>2, <2>1, <2>3
    <2> QED
      BY <2>2, <2>3
  <1>7. CASE HandlerStep(h) /\ ~(\/ ApproveWrite(h) \/ ApproveCommit(h)
                                 \/ ApproveSubmit(h) \/ ApproveSubmitFails(h))
    <2>1. h \notin Approving(p)' /\ manual' = manual
      BY <1>7 DEF HandlerStep, EnqueueCommit, ApproveExpired, ApproveExecute,
         ApproveExecuteCommit, RejectWrite, RejectCommit, Expire, ExpireCommit, Approving
    <2> QED
      BY <1>2, <2>1
  <1> QED
    BY <1>3, <1>4, <1>5, <1>6, <1>7 DEF HandlerStart

\* What the counting makes of it.
LEMMA ManualCount ==
    ASSUME IsFiniteSet(Handlers), TypeOK, TypeOK', NEW p \in Proposals,
           manual[p] + Cardinality(Approving(p)) <= Cardinality(Handlers),
           \/ manual'[p] = manual[p] /\ Approving(p)' \subseteq Approving(p)
           \/ manual'[p] = 0
           \/ \E h \in Approving(p) : /\ manual'[p] = manual[p] + 1
                                      /\ Approving(p)' \subseteq Approving(p) \ {h}
    PROVE  manual'[p] + Cardinality(Approving(p)') <= Cardinality(Handlers)
  <1>1. Approving(p) \in SUBSET Handlers /\ Approving(p)' \in SUBSET Handlers
    BY DEF Approving
  <1>2. /\ manual[p] \in Nat /\ manual'[p] \in Nat /\ Cardinality(Handlers) \in Nat
        /\ Cardinality(Approving(p)) \in Nat /\ Cardinality(Approving(p)') \in Nat
        /\ Cardinality(Approving(p)') <= Cardinality(Handlers)
    BY <1>1, ApprovingFinite DEF TypeOK
  <1>3. CASE manual'[p] = manual[p] /\ Approving(p)' \subseteq Approving(p)
    <2>1. Cardinality(Approving(p)') <= Cardinality(Approving(p))
      BY <1>1, <1>3, ApprovingFinite
    <2> QED
      BY <1>2, <1>3, <2>1
  <1>4. CASE manual'[p] = 0
    BY <1>2, <1>4
  <1>5. ASSUME NEW h \in Approving(p), manual'[p] = manual[p] + 1,
               Approving(p)' \subseteq Approving(p) \ {h}
        PROVE  manual'[p] + Cardinality(Approving(p)') <= Cardinality(Handlers)
    <2>1. Approving(p) \ {h} \in SUBSET Handlers
      BY <1>1
    <2>2. /\ Cardinality(Approving(p)') <= Cardinality(Approving(p) \ {h})
          /\ Cardinality(Approving(p) \ {h}) = Cardinality(Approving(p)) - 1
      BY <1>1, <1>5, <2>1, ApprovingFinite
    <2> QED
      BY <1>2, <1>5, <2>2
  <1> QED
    BY <1>3, <1>4, <1>5

\* Every step keeps the bound on approve's orders.
LEMMA StepManual ==
    ASSUME IsFiniteSet(Handlers), IInv, IInv', ManualOK, [Next]_vars
    PROVE  ManualOK'
  <1> SUFFICES ASSUME NEW p \in Proposals, p \notin undone'
               PROVE  manual'[p] + Cardinality(Approving(p)') <= Cardinality(Handlers)
    BY DEF ManualOK
  <1>0. /\ TypeOK /\ TypeOK' /\ p \notin undone
        /\ manual[p] + Cardinality(Approving(p)) <= Cardinality(Handlers)
    BY UndoneGrows DEF IInv, ManualOK
  <1>1. ASSUME NEW h \in Handlers, HandlerStep(h) \/ \E q \in Proposals : HandlerStart(h, q)
        PROVE  manual'[p] + Cardinality(Approving(p)') <= Cardinality(Handlers)
    BY <1>0, <1>1, HandlerApproves, ManualCount
  <1>2. ASSUME manual'[p] = manual[p] /\ Approving(p)' \subseteq Approving(p)
        PROVE  manual'[p] + Cardinality(Approving(p)') <= Cardinality(Handlers)
    BY <1>0, <1>2, ManualCount
  <1>3. ASSUME NEW s \in Scanners, ScannerStep(s)
        PROVE  manual'[p] = manual[p] /\ Approving(p)' \subseteq Approving(p)
    BY <1>0, <1>3, ScannerFrame DEF Approving
  <1>4. CASE Restart
    <2>1. manual' = manual /\ Approving(p)' = {}
      BY <1>4 DEF Restart, Orders, Approving, Coroutines
    <2> QED
      BY <1>2, <2>1
  <1>5. CASE \/ UNCHANGED vars \/ SomeoneRollsBack
             \/ (\E q \in Proposals : Deadline(q)) \/ (\E m \in Modes : SetMode(m))
    <2>1. UNCHANGED <<manual, pc, cur>>
      BY <1>5 DEF vars, SomeoneRollsBack, Deadline, SetMode, Orders
    <2> QED
      BY <1>2, <2>1 DEF Approving
  <1> QED
    BY <1>1, <1>2, <1>3, <1>4, <1>5 DEF Next, Environment

\* Requests that overlap can each place an order for one proposal, but no request places a
\* second one, before or after a restart: the orders of a proposal are no more than the
\* requests that can be in flight at the same time, whatever the scanners do in between and
\* whichever answers are lost, unless a rollback came between an UPDATE and its commit.
THEOREM ManualBounded ==
    ASSUME IsFiniteSet(Handlers)
    PROVE  Spec => []ManualOncePerHandler
  <1>1. Init => ManualOK
    <2> SUFFICES ASSUME Init, NEW p \in Proposals \ undone
                 PROVE  manual[p] + Cardinality(Approving(p)) <= Cardinality(Handlers)
      BY DEF ManualOK
    <2>1. Approving(p) \in SUBSET Handlers
      BY DEF Approving
    <2>2. /\ Cardinality(Approving(p)) \in Nat /\ Cardinality(Handlers) \in Nat
          /\ Cardinality(Approving(p)) <= Cardinality(Handlers)
      BY <2>1, ApprovingFinite
    <2> QED
      BY <2>2 DEF Init
  <1>2. IInv /\ IInv' /\ ManualOK /\ [Next]_vars => ManualOK'
    BY StepManual
  <1>3. IInv /\ ManualOK => ManualOncePerHandler
    <2> SUFFICES ASSUME IInv, ManualOK, NEW p \in Proposals \ undone
                 PROVE  manual[p] <= Cardinality(Handlers)
      BY DEF ManualOncePerHandler
    <2>1. Approving(p) \in SUBSET Handlers
      BY DEF Approving
    <2>2. Cardinality(Approving(p)) \in Nat /\ Cardinality(Handlers) \in Nat
      BY <2>1, ApprovingFinite
    <2> QED
      BY <2>2 DEF ManualOK, IInv, TypeOK
  <1> QED
    BY <1>1, <1>2, <1>3, Inductive, PTL DEF Spec

\* With requests coming one at a time approve places at most one order per proposal,
\* whatever the scanners do in between and however often the process restarts, unless a
\* rollback undid its approval.
THEOREM SerialAtMostOnce ==
    ASSUME \A h1, h2 \in Handlers : h1 = h2
    PROVE  Spec => []ManualAtMostOnce
  <1>1. IsFiniteSet(Handlers) /\ Cardinality(Handlers) \in {0, 1}
    <2>1. CASE Handlers = {}
      BY <2>1, FS_EmptySet
    <2>2. ASSUME NEW h \in Handlers PROVE IsFiniteSet(Handlers) /\ Cardinality(Handlers) = 1
      <3>1. Handlers = {h}
        OBVIOUS
      <3> QED
        BY <3>1, FS_Singleton
    <2> QED
      BY <2>1, <2>2
  <1>2. TypeOK /\ ManualOncePerHandler => ManualAtMostOnce
    BY <1>1 DEF ManualOncePerHandler, ManualAtMostOnce, TypeOK
  <1>3. Spec => []ManualOncePerHandler
    BY <1>1, ManualBounded
  <1> QED
    BY <1>2, <1>3, TypeCorrect, PTL

-----------------------------------------------------------------------------
(* Closed proposals *)

\* The awaits between an UPDATE of a proposal and its commit.
Writing == {"enqueueCommit", "approveCommit", "expireCommit", "executeCommit",
            "rejectCommit", "markCommit"}

Marks(r) == <<r.status, r.linked>>

\* What is not on disk of a decision belongs to a coroutine that is about to commit it.
PendingOwned ==
    \A p \in Proposals :
        Marks(row[p]) # Marks(disk[p]) => \E c \in Coroutines : cur[c] = p /\ pc[c] \in Writing

\* A commit leaves nothing pending.
LEMMA CommitOwned ==
    ASSUME Commit
    PROVE  PendingOwned'
  BY DEF Commit, PendingOwned

\* A step that decides nothing, of a coroutine that has nothing to commit.
LEMMA QuietOwned ==
    ASSUME PendingOwned, UNCHANGED disk,
           \A p \in Proposals : Marks(row'[p]) = Marks(row[p]),
           NEW c \in Coroutines, pc[c] \notin Writing,
           \A d \in Coroutines : d # c => pc'[d] = pc[d] /\ cur'[d] = cur[d]
    PROVE  PendingOwned'
  BY DEF PendingOwned

\* A step of c that writes the row it works on, and goes on to its commit.
LEMMA WriteOwned ==
    ASSUME PendingOwned, UNCHANGED disk, NEW c \in Coroutines,
           \A p \in Proposals : p # cur'[c] => row'[p] = row[p],
           pc'[c] \in Writing, pc[c] \in Writing => cur'[c] = cur[c],
           \A d \in Coroutines : d # c => pc'[d] = pc[d] /\ cur'[d] = cur[d]
    PROVE  PendingOwned'
  <1> SUFFICES ASSUME NEW p \in Proposals, Marks(row'[p]) # Marks(disk'[p])
               PROVE  \E d \in Coroutines : cur'[d] = p /\ pc'[d] \in Writing
    BY DEF PendingOwned
  <1>1. CASE p = cur'[c]
    BY <1>1
  <1>2. CASE p # cur'[c]
    <2>1. PICK d \in Coroutines : cur[d] = p /\ pc[d] \in Writing
      BY <1>2 DEF PendingOwned
    <2> QED
      BY <1>2, <2>1
  <1> QED
    BY <1>1, <1>2

\* Every step keeps what is pending with its owner.
LEMMA StepOwned ==
    ASSUME TypeOK, HasProposal, PendingOwned, [Next]_vars
    PROVE  PendingOwned'
  <1> USE DEF TypeOK, HasProposal, Coroutines, Goto, Step, NextRow, Begin, Return, Writing, db
  <1>1. ASSUME NEW h \in Handlers, HandlerStep(h) PROVE PendingOwned'
    <2>1. CASE Commit
      BY <2>1, CommitOwned
    <2>2. CASE ApproveSubmitFails(h) /\ UNCHANGED db
      BY <2>2, QuietOwned DEF ApproveSubmitFails
    <2>3. CASE ApproveExpired(h) \/ ApproveWrite(h) \/ RejectWrite(h) \/ Expire(h)
      <3>1. \A p \in Proposals : p # cur[h] => row'[p] = row[p]
        BY <2>3, WritesStatus DEF ApproveExpired, ApproveWrite, RejectWrite, Expire, Statuses
      <3> QED
        BY <2>3, <3>1, WriteOwned DEF ApproveExpired, ApproveWrite, RejectWrite, Expire
    <2>4. CASE ApproveExecute(h)
      <3>1. \A p \in Proposals : p # cur[h] => row'[p] = row[p]
        BY <2>4, WritesExecuted DEF ApproveExecute, Statuses
      <3> QED
        BY <2>4, <3>1, WriteOwned DEF ApproveExecute
    <2> QED
      BY <1>1, <2>1, <2>2, <2>3, <2>4 DEF HandlerStep, EnqueueCommit, ApproveCommit,
         ApproveSubmit, ApproveSubmitFails, ApproveExecuteCommit, RejectCommit, ExpireCommit
  <1>2. ASSUME NEW h \in Handlers, NEW p \in Proposals, HandlerStart(h, p) PROVE PendingOwned'
    <2>1. CASE Enqueue(h, p)
      BY <2>1, WriteOwned DEF Enqueue
    <2>2. CASE ApproveRead(h, p) \/ RejectRead(h, p) \/ CheckExpiryRead(h, p)
      BY <2>2, QuietOwned DEF ApproveRead, RejectRead, CheckExpiryRead
    <2> QED
      BY <1>2, <2>1, <2>2 DEF HandlerStart
  <1>3. ASSUME NEW s \in Scanners, ScannerStep(s) PROVE PendingOwned'
    <2>1. CASE Commit
      BY <2>1, CommitOwned
    <2>2. CASE ScanRead(s) \/ ScanDone(s) \/ ScanKept(s)
      BY <2>2, QuietOwned DEF ScanRead, ScanDone, ScanKept
    <2>3. CASE \E p \in Proposals : ScanNext(s, p)
      BY <2>3, QuietOwned DEF ScanNext
    <2>4. CASE (AutoGateRefuses(s) \/ AutoRaises(s)) /\ UNCHANGED db
      BY <2>4, QuietOwned DEF AutoGateRefuses, AutoRaises, ScanAborts
    <2>5. CASE AutoRoute(s)
      BY <2>5, QuietOwned DEF AutoRoute
    <2>6. CASE ScanExpired(s) \/ Expire(s)
      <3>1. \A p \in Proposals : p # cur[s] => row'[p] = row[p]
        BY <2>6, WritesStatus DEF ScanExpired, Expire, Statuses
      <3> QED
        BY <2>6, <3>1, WriteOwned DEF ScanExpired, Expire
    <2>7. CASE (AutoPaperTrade(s) \/ AutoRaisesLate(s)) /\ ~Commit
      <3>1. cur[s] \in Proposals /\ disk' = disk /\ (AddTrade(cur[s]) \/ row' = row)
        BY <2>7 DEF AutoPaperTrade, AutoRaisesLate, ScanAborts
      <3>2. \A p \in Proposals : Marks(row'[p]) = Marks(row[p])
        BY <3>1, WritesTrade DEF Marks
      <3> QED
        BY <2>7, <3>1, <3>2, QuietOwned DEF AutoPaperTrade, AutoRaisesLate, ScanAborts
    <2>8. CASE AutoMark(s)
      <3>1. \A p \in Proposals : p # cur[s] => row'[p] = row[p]
        BY <2>8, WritesExecuted DEF AutoMark, Statuses
      <3> QED
        BY <2>8, <3>1, WriteOwned DEF AutoMark
    <2> QED
      BY <1>3, <2>1, <2>2, <2>3, <2>4, <2>5, <2>6, <2>7, <2>8 DEF ScannerStep, ExpireCommit,
         AutoGatePass, AutoGateRefuses, AutoRaises, AutoLiveOrder, AutoMarkCommit
  <1>4. CASE Environment
    BY <1>4 DEF Environment, Deadline, SetMode, Commit, SomeoneRollsBack, Restart, PendingOwned
  <1>5. CASE UNCHANGED vars
    BY <1>5 DEF vars, PendingOwned
  <1> QED
    BY <1>1, <1>2, <1>3, <1>4, <1>5 DEF Next

\* What is pending has its owner in every reachable state.
LEMMA Owned == Spec => []PendingOwned
  <1>1. Init => PendingOwned
    BY DEF Init, PendingOwned
  <1>2. IInv /\ PendingOwned /\ [Next]_vars => PendingOwned'
    BY StepOwned DEF IInv
  <1> QED
    BY <1>1, <1>2, Inductive, PTL DEF Spec

\* Nobody works on p or is about to.
Left(p) == \A c \in Coroutines : cur[c] # p /\ p \notin todo[c]

\* What is decided and left is not taken up, and keeps its decision and orders; a restart
\* or a rollback, too, finds them as they were, since nobody has anything to commit for it.
LEMMA StepClosed ==
    ASSUME TypeOK, HasProposal, DiskBehind, PendingOwned, [Next]_vars,
           NEW p \in Proposals, Closed(p)
    PROVE  /\ Left(p)'
           /\ row'[p].status = row[p].status /\ row'[p].linked = row[p].linked
           /\ row'[p].trades <= row[p].trades
           /\ manual'[p] = manual[p] /\ auto'[p] = auto[p]
  <1> DEFINE Kept == Left(p)' /\ row'[p] = row[p] /\ manual'[p] = manual[p] /\ auto'[p] = auto[p]
  <1>0. Left(p) /\ Decided(row[p].status) /\ p # None
    BY QueueAssumption DEF Closed, Left, DiskBehind
  <1> USE <1>0 DEF Left, TypeOK, HasProposal, Coroutines, Goto, Step, NextRow, Begin, Return,
          Commit, db, Orders
  <1>1. ASSUME NEW h \in Handlers, HandlerStep(h) PROVE Kept
    <2>1. CASE EnqueueCommit(h) \/ ApproveCommit(h) \/ ApproveExecuteCommit(h) \/ RejectCommit(h)
      BY <2>1 DEF EnqueueCommit, ApproveCommit, ApproveExecuteCommit, RejectCommit
    <2>2. CASE ExpireCommit(h)
      BY <2>2 DEF ExpireCommit
    <2>3. CASE ApproveSubmit(h) \/ ApproveSubmitFails(h)
      BY <2>3 DEF ApproveSubmit, ApproveSubmitFails
    <2>4. CASE ApproveExpired(h) \/ ApproveWrite(h) \/ RejectWrite(h) \/ Expire(h)
      <3>1. row'[p] = row[p]
        BY <2>4, WritesStatus DEF ApproveExpired, ApproveWrite, RejectWrite, Expire, Statuses
      <3> QED
        BY <2>4, <3>1 DEF ApproveExpired, ApproveWrite, RejectWrite, Expire
    <2>5. CASE ApproveExecute(h)
      <3>1. row'[p] = row[p]
        BY <2>5, WritesExecuted DEF ApproveExecute, Statuses
      <3> QED
        BY <2>5, <3>1 DEF ApproveExecute
    <2> QED
      BY <1>1, <2>1, <2>2, <2>3, <2>4, <2>5 DEF HandlerStep
  <1>2. ASSUME NEW h \in Handlers, NEW q \in Proposals, HandlerStart(h, q) PROVE Kept
    <2>1. p # q
      BY <1>2 DEF HandlerStart, Enqueue, Exists, ApproveRead, RejectRead, CheckExpiryRead, Decided, Statuses
    <2> QED
      BY <1>2, <2>1 DEF HandlerStart, Enqueue, ApproveRead, RejectRead, CheckExpiryRead
  <1>3. ASSUME NEW s \in Scanners, ScannerStep(s) PROVE Kept
    <2>1. CASE ScanRead(s)
      BY <2>1 DEF ScanRead, Decided
    <2>2. CASE ScanDone(s) \/ ScanKept(s) \/ \E q \in Proposals : ScanNext(s, q)
      BY <2>2 DEF ScanDone, ScanKept, ScanNext
    <2>3. CASE ScanExpired(s) \/ Expire(s)
      <3>1. row'[p] = row[p]
        BY <2>3, WritesStatus DEF ScanExpired, Expire, Statuses
      <3> QED
        BY <2>3, <3>1 DEF ScanExpired, Expire
    <2>4. CASE ExpireCommit(s) \/ AutoGatePass(s) \/ AutoGateRefuses(s)
      BY <2>4 DEF ExpireCommit, AutoGatePass, AutoGateRefuses
    <2>5. CASE AutoRaises(s)
      BY <2>5 DEF AutoRaises, ScanAborts
    <2>6. CASE AutoRoute(s) \/ AutoMarkCommit(s)
      BY <2>6 DEF AutoRoute, AutoMarkCommit
    <2>7. CASE AutoPaperTrade(s)
      <3>1. row'[p] = row[p]
        BY <2>7, WritesTrade DEF AutoPaperTrade
      <3> QED
        BY <2>7, <3>1 DEF AutoPaperTrade
    <2>8. CASE AutoLiveOrder(s)
      BY <2>8 DEF AutoLiveOrder
    <2>9. CASE AutoMark(s)
      <3>1. row'[p] = row[p]
        BY <2>9, WritesExecuted DEF AutoMark, Statuses
      <3> QED
        BY <2>9, <3>1 DEF AutoMark
    <2>10. CASE AutoRaisesLate(s)
      <3>1. row'[p] = row[p]
        BY <2>10, WritesTrade DEF AutoRaisesLate, ScanAborts
      <3> QED
        BY <2>10, <3>1 DEF AutoRaisesLate, ScanAborts
    <2> QED
      BY <1>3, <2>1, <2>2, <2>3, <2>4, <2>5, <2>6, <2>7, <2>8, <2>9, <2>10 DEF ScannerStep
  <1>4. CASE Restart \/ SomeoneRollsBack
    <2>1. Marks(row[p]) = Marks(disk[p]) /\ disk[p].trades <= row[p].trades
      BY DEF PendingOwned, DiskBehind
    <2>2. Left(p)' /\ row' = disk /\ manual' = manual /\ auto' = auto
      BY <1>4 DEF Restart, SomeoneRollsBack
    <2> QED
      BY <2>1, <2>2 DEF Marks
  <1>5. ASSUME (\E q \in Proposals : Deadline(q)) \/ \E m \in Modes : SetMode(m) PROVE Kept
    BY <1>5 DEF Deadline, SetMode
  <1>6. ASSUME UNCHANGED vars PROVE Kept
    BY <1>6 DEF vars
  <1>7. ASSUME Kept PROVE row'[p].trades <= row[p].trades
    BY <1>7 DEF Row
  <1> QED
    BY <1>1, <1>2, <1>3, <1>4, <1>5, <1>6, <1>7 DEF Next, Environment

\* A closed proposal is closed for good, for any requests, scanners, restarts
\* and rollbacks.
THEOREM ClosedForGood == Spec => ClosedStaysClosed
  <1>1. ASSUME IInv, PendingOwned, [Next]_vars, NEW p \in Proposals, Closed(p)
        PROVE  LeftAlone(p)
    <2>1. Decided(disk'[p].status)
      BY <1>1, StepDisk DEF IInv, DiskBehind, Closed, Commit
    <2> QED
      BY <1>1, <2>1, StepClosed DEF IInv, Closed, Left, LeftAlone
  <1>2. IInv /\ PendingOwned /\ [Next]_vars
          => [\A p \in Proposals : Closed(p) => LeftAlone(p)]_vars
    BY <1>1
  <1> QED
    BY <1>2, Inductive, Owned, PTL DEF Spec, ClosedStaysClosed

-----------------------------------------------------------------------------
(* How often auto-execution places an order *)

\* A scanner between two rows works on none, and does not meet its row again in the
\* snapshot it is in.
AtRest == \A s \in Scanners : /\ pc[s] \in {"idle", "next"} => cur[s] = None
                              /\ cur[s] \notin todo[s]

\* p is in the queue or still to come.
Open(p) == ~Decided(row[p].status) /\ (Exists(p) \/ p \notin undone)

\* The scanners that may place an order for p before the next cut: those on their way to p,
\* and, while p is open, all but those that have just placed one.
May(p) == {s \in Scanners :
             \/ p \in todo[s]
             \/ cur[s] = p /\ pc[s] \notin {"mark", "markCommit"}
             \/ Open(p) /\ ~(cur[s] = p /\ pc[s] = "mark")}

Bound == Cardinality(Scanners) * (1 + cuts) + lost

AutoOK == \A p \in Proposals : auto[p] + row[p].trades + Cardinality(May(p)) <= Bound

\* A request touches neither the scanners nor their orders.
LEMMA HandlerFrame ==
    ASSUME TypeOK, HasProposal, NEW h \in Handlers,
           HandlerStep(h) \/ \E p \in Proposals : HandlerStart(h, p)
    PROVE  /\ UNCHANGED <<auto, cuts, lost>>
           /\ \A p \in Proposals : row'[p].trades = row[p].trades
           /\ \A s \in Scanners : pc'[s] = pc[s] /\ cur'[s] = cur[s] /\ todo'[s] = todo[s]
  <1> USE QueueAssumption DEF TypeOK, HasProposal, Coroutines, Goto, Step, Begin, Return,
          Commit, Orders, World, db
  <1>1. CASE \E p \in Proposals : Enqueue(h, p)
    BY <1>1, WritesNew DEF Enqueue
  <1>2. CASE \E p \in Proposals : ApproveRead(h, p) \/ RejectRead(h, p) \/ CheckExpiryRead(h, p)
    BY <1>2 DEF ApproveRead, RejectRead, CheckExpiryRead
  <1>3. CASE EnqueueCommit(h) \/ ApproveCommit(h) \/ ApproveExecuteCommit(h) \/ RejectCommit(h)
    BY <1>3 DEF EnqueueCommit, ApproveCommit, ApproveExecuteCommit, RejectCommit
  <1>4. CASE ExpireCommit(h) \/ ApproveSubmit(h) \/ ApproveSubmitFails(h)
    BY <1>4 DEF ExpireCommit, ApproveSubmit, ApproveSubmitFails
  <1>5. CASE ApproveExpired(h) \/ ApproveWrite(h)
    BY <1>5, WritesStatus DEF ApproveExpired, ApproveWrite, Statuses
  <1>6. CASE RejectWrite(h) \/ Expire(h)
    BY <1>6, WritesStatus DEF RejectWrite, Expire, Statuses
  <1>7. CASE ApproveExecute(h)
    BY <1>7, WritesExecuted DEF ApproveExecute, Statuses
  <1> QED
    BY <1>1, <1>2, <1>3, <1>4, <1>5, <1>6, <1>7 DEF HandlerStep, HandlerStart

\* There are finitely many scanners.
LEMMA FiniteScanners == IsFiniteSet(Scanners) /\ Cardinality(Scanners) \in Nat
  <1>1. IsFiniteSet({"expiry", "auto"})
    <2>1. IsFiniteSet({"expiry"})
      BY FS_Singleton
    <2>2. IsFiniteSet({"expiry"} \cup {"auto"})
      BY <2>1, FS_AddElement
    <2>3. {"expiry", "auto"} = {"expiry"} \cup {"auto"}
      OBVIOUS
    <2> QED
      BY <2>2, <2>3
  <1> QED
    BY <1>1, FS_Subset, FS_CardinalityType, QueueAssumption

\* Counting sets of scanners.
LEMMA MayFinite ==
    ASSUME NEW S \in SUBSET Scanners, NEW T \in SUBSET S
    PROVE  /\ Cardinality(S) \in Nat /\ Cardinality(T) \in Nat
           /\ Cardinality(T) <= Cardinality(S)
           /\ Cardinality(S) <= Cardinality(Scanners)
           /\ \A s \in S : Cardinality(S \ {s}) = Cardinality(S) - 1
  BY FiniteScanners, FS_Subset, FS_CardinalityType, FS_RemoveElement

\* What only takes scanners out of May keeps the bound ...
LEMMA MayFewer ==
    ASSUME TypeOK, TypeOK', UNCHANGED <<cuts, lost>>, NEW p \in Proposals,
           auto[p] + row[p].trades + Cardinality(May(p)) <= Bound,
           auto'[p] + row'[p].trades = auto[p] + row[p].trades,
           May(p)' \subseteq May(p)
    PROVE  auto'[p] + row'[p].trades + Cardinality(May(p)') <= Bound'
  <1>1. May(p) \in SUBSET Scanners /\ May(p)' \in SUBSET May(p)
    BY DEF May
  <1>2. Bound' = Bound /\ Bound \in Nat
    BY FiniteScanners DEF Bound, TypeOK
  <1>3. /\ Cardinality(May(p)) \in Nat /\ Cardinality(May(p)') \in Nat
        /\ Cardinality(May(p)') <= Cardinality(May(p))
    BY <1>1, MayFinite
  <1> QED
    BY <1>2, <1>3 DEF TypeOK, Row

\* ... and so does an order of a scanner that leaves it.
LEMMA MayPlace ==
    ASSUME TypeOK, TypeOK', UNCHANGED <<cuts, lost>>, NEW p \in Proposals, NEW s \in May(p),
           auto[p] + row[p].trades + Cardinality(May(p)) <= Bound,
           auto'[p] + row'[p].trades = auto[p] + row[p].trades + 1,
           May(p)' \subseteq May(p) \ {s}
    PROVE  auto'[p] + row'[p].trades + Cardinality(May(p)') <= Bound'
  <1>1. /\ May(p) \in SUBSET Scanners /\ May(p) \ {s} \in SUBSET Scanners
        /\ May(p)' \in SUBSET (May(p) \ {s})
    BY DEF May
  <1>2. Bound' = Bound /\ Bound \in Nat
    BY FiniteScanners DEF Bound, TypeOK
  <1>3. /\ Cardinality(May(p)) \in Nat /\ Cardinality(May(p)') \in Nat
        /\ Cardinality(May(p)') <= Cardinality(May(p)) - 1
    BY <1>1, MayFinite
  <1> QED
    BY <1>2, <1>3 DEF TypeOK, Row

\* A lost answer makes room for the order it hides, or for the scanner it lets in again.
LEMMA MayLose ==
    ASSUME TypeOK, TypeOK', cuts' = cuts, lost' = lost + 1, NEW p \in Proposals, NEW s \in Scanners,
           auto[p] + row[p].trades + Cardinality(May(p)) <= Bound,
           \/ /\ auto'[p] + row'[p].trades = auto[p] + row[p].trades
              /\ May(p)' \subseteq May(p) \cup {s}
           \/ /\ auto'[p] + row'[p].trades = auto[p] + row[p].trades + 1
              /\ May(p)' \subseteq May(p)
    PROVE  auto'[p] + row'[p].trades + Cardinality(May(p)') <= Bound'
  <1>1. May(p) \in SUBSET Scanners /\ May(p)' \in SUBSET Scanners
    BY DEF May
  <1>2. Bound' = Bound + 1 /\ Bound \in Nat
    BY FiniteScanners DEF Bound, TypeOK
  <1>3. ASSUME May(p)' \subseteq May(p) \cup {s}
        PROVE  Cardinality(May(p)') <= Cardinality(May(p)) + 1
    <2>1. IsFiniteSet(May(p))
      BY <1>1, FiniteScanners, FS_Subset
    <2>2. May(p) \cup {s} \in SUBSET Scanners
      BY <1>1
    <2>3. Cardinality(May(p) \cup {s}) <= Cardinality(May(p)) + 1
      <3>1. CASE s \in May(p)
        <4>1. May(p) \cup {s} = May(p)
          BY <3>1
        <4>2. Cardinality(May(p)) \in Nat
          BY <1>1, MayFinite
        <4> QED
          BY <4>1, <4>2
      <3>2. CASE s \notin May(p)
        <4>1. Cardinality(May(p) \cup {s}) = Cardinality(May(p)) + 1
          BY <2>1, <3>2, FS_AddElement
        <4>2. Cardinality(May(p)) \in Nat
          BY <1>1, MayFinite
        <4> QED
          BY <4>1, <4>2
      <3> QED
        BY <3>1, <3>2
    <2>4. /\ Cardinality(May(p)') <= Cardinality(May(p) \cup {s})
          /\ Cardinality(May(p)') \in Nat /\ Cardinality(May(p) \cup {s}) \in Nat
      BY <1>3, <2>2, MayFinite
    <2>5. Cardinality(May(p)) \in Nat
      BY <1>1, MayFinite
    <2> QED
      BY <2>3, <2>4, <2>5
  <1>4. Cardinality(May(p)) \in Nat /\ Cardinality(May(p)') \in Nat
    BY <1>1, MayFinite
  <1>5. /\ auto[p] \in Nat /\ auto'[p] \in Nat /\ row[p].trades \in Nat /\ row'[p].trades \in Nat
    BY DEF TypeOK, Row
  <1>6. CASE May(p)' \subseteq May(p)
    <2>1. Cardinality(May(p)') <= Cardinality(May(p))
      BY <1>1, <1>6, MayFinite
    <2> QED
      BY <1>2, <1>4, <1>5, <2>1
  <1> QED
    BY <1>2, <1>3, <1>4, <1>5, <1>6

\* Every step keeps a resting scanner without a proposal.
LEMMA StepRest ==
    ASSUME TypeOK, HasProposal, AtRest, [Next]_vars
    PROVE  AtRest'
  <1> USE QueueAssumption DEF AtRest, TypeOK, Coroutines
  <1>1. ASSUME NEW h \in Handlers, HandlerStep(h) \/ \E p \in Proposals : HandlerStart(h, p)
        PROVE  AtRest'
    BY <1>1, HandlerFrame
  <1>2. ASSUME NEW s \in Scanners, ScannerStep(s) PROVE AtRest'
    <2> USE DEF Goto, Step, NextRow
    <2>1. CASE ScanRead(s) \/ ScanDone(s)
      BY <2>1 DEF ScanRead, ScanDone
    <2>2. CASE \E p \in Proposals : ScanNext(s, p)
      BY <2>2 DEF ScanNext
    <2>3. CASE ScanExpired(s) \/ ScanKept(s) \/ Expire(s) \/ ExpireCommit(s)
      BY <2>3 DEF ScanExpired, ScanKept, Expire, ExpireCommit
    <2>4. CASE AutoGatePass(s) \/ AutoGateRefuses(s) \/ AutoRoute(s)
      BY <2>4 DEF AutoGatePass, AutoGateRefuses, AutoRoute
    <2>5. CASE AutoRaises(s) \/ AutoRaisesLate(s)
      BY <2>5 DEF AutoRaises, AutoRaisesLate, ScanAborts
    <2>6. CASE AutoPaperTrade(s) \/ AutoLiveOrder(s) \/ AutoMark(s) \/ AutoMarkCommit(s)
      BY <2>6 DEF AutoPaperTrade, AutoLiveOrder, AutoMark, AutoMarkCommit
    <2> QED
      BY <1>2, <2>1, <2>2, <2>3, <2>4, <2>5, <2>6 DEF ScannerStep
  <1>3. CASE Environment
    BY <1>3 DEF Environment, Deadline, SetMode, SomeoneRollsBack, Restart
  <1>4. CASE UNCHANGED vars
    BY <1>4 DEF vars
  <1> QED
    BY <1>1, <1>2, <1>3, <1>4 DEF Next

\* No step opens a proposal again but a restart and a rollback.
LEMMA OpenShrinks ==
    ASSUME NEW p \in Proposals, Forward(p), Open(p)'
    PROVE  Open(p)
  BY DEF Forward, Open

\* A scanner's step places at most one order, and only for the row it works on; the
\* scanner then leaves May, until it has marked the row, which decides it, or it raises.
LEMMA ScannerPlaces ==
    ASSUME TypeOK, HasProposal, Held, AtRest, NEW s \in Scanners, ScannerStep(s),
           NEW p \in Proposals, Forward(p)
    PROVE  /\ cuts' = cuts
           /\ \/ /\ lost' = lost
                 /\ auto'[p] + row'[p].trades = auto[p] + row[p].trades
                 /\ May(p)' \subseteq May(p)
              \/ /\ lost' = lost
                 /\ auto'[p] + row'[p].trades = auto[p] + row[p].trades + 1
                 /\ s \in May(p)
                 /\ May(p)' \subseteq May(p) \ {s}
              \/ /\ lost' = lost + 1
                 /\ auto'[p] + row'[p].trades = auto[p] + row[p].trades
                 /\ May(p)' \subseteq May(p) \cup {s}
              \/ /\ lost' = lost + 1
                 /\ auto'[p] + row'[p].trades = auto[p] + row[p].trades + 1
                 /\ May(p)' \subseteq May(p)
  <1> DEFINE Same == /\ auto'[p] = auto[p] /\ row'[p].trades = row[p].trades
                     /\ cuts' = cuts /\ lost' = lost
  <1>0. /\ auto[p] \in Nat /\ row[p].trades \in Nat
        /\ \A t \in Scanners : t # s => pc'[t] = pc[t] /\ cur'[t] = cur[t] /\ todo'[t] = todo[t]
        /\ Open(p)' => Open(p)
        /\ pc \in [Coroutines -> HandlerPoints \cup ScannerPoints]
        /\ cur \in [Coroutines -> Proposals \cup {None}]
        /\ todo \in [Coroutines -> SUBSET Proposals]
        /\ auto \in [Proposals -> Nat]
        /\ s \in Coroutines /\ None \notin Proposals
    <2> USE DEF Goto, Step, NextRow, TypeOK, Coroutines, Row
    <2>1. CASE ScanRead(s) \/ ScanDone(s) \/ \E q \in Proposals : ScanNext(s, q)
      BY <2>1, OpenShrinks, QueueAssumption DEF ScanRead, ScanDone, ScanNext
    <2>2. CASE ScanExpired(s) \/ ScanKept(s) \/ Expire(s) \/ ExpireCommit(s)
      BY <2>2, OpenShrinks, QueueAssumption DEF ScanExpired, ScanKept, Expire, ExpireCommit
    <2>3. CASE AutoGatePass(s) \/ AutoGateRefuses(s) \/ AutoRoute(s)
      BY <2>3, OpenShrinks, QueueAssumption DEF AutoGatePass, AutoGateRefuses, AutoRoute
    <2>4. CASE AutoRaises(s) \/ AutoRaisesLate(s)
      BY <2>4, OpenShrinks, QueueAssumption DEF AutoRaises, AutoRaisesLate, ScanAborts
    <2>5. CASE AutoPaperTrade(s) \/ AutoLiveOrder(s) \/ AutoMark(s) \/ AutoMarkCommit(s)
      BY <2>5, OpenShrinks, QueueAssumption DEF AutoPaperTrade, AutoLiveOrder, AutoMark, AutoMarkCommit
    <2> QED
      BY <2>1, <2>2, <2>3, <2>4, <2>5 DEF ScannerStep
  <1>1. ASSUME s \in May(p)' => s \in May(p)
        PROVE  May(p)' \subseteq May(p)
    BY <1>0, <1>1 DEF May
  <1> USE DEF Goto, Step, NextRow, Commit, db, Orders, World
  <1>2. CASE ScanRead(s)
    <2>1. s \in May(p)' => s \in May(p)
      BY <1>0, <1>2 DEF ScanRead, May, Open, Decided, Exists, AtRest
    <2> QED
      BY <1>0, <1>1, <1>2, <2>1 DEF ScanRead
  <1>3. CASE ScanDone(s) \/ \E q \in Proposals : ScanNext(s, q)
    <2>1. s \in May(p)' => s \in May(p)
      BY <1>0, <1>3 DEF ScanDone, ScanNext, May, AtRest
    <2> QED
      BY <1>0, <1>1, <1>3, <2>1 DEF ScanDone, ScanNext
  <1>4. CASE ScanExpired(s) \/ Expire(s)
    <2>1. s \in May(p)' => s \in May(p)
      BY <1>0, <1>4 DEF ScanExpired, Expire, May
    <2>2. cur[s] \in Proposals /\ SetStatus(cur[s], "expired") /\ auto' = auto /\ cuts' = cuts /\ lost' = lost
      BY <1>0, <1>4 DEF ScanExpired, Expire, HasProposal
    <2>3. Same
      BY <2>2, WritesStatus DEF Statuses
    <2> QED
      BY <1>1, <2>1, <2>3
  <1>5. CASE ScanKept(s) \/ ExpireCommit(s)
    <2>1. s \in May(p)' => s \in May(p)
      BY <1>0, <1>5, QueueAssumption DEF ScanKept, ExpireCommit, May
    <2> QED
      BY <1>0, <1>1, <1>5, <2>1 DEF ScanKept, ExpireCommit
  <1>6. CASE AutoGatePass(s) \/ AutoGateRefuses(s) \/ AutoRoute(s)
    <2>1. s \in May(p)' => s \in May(p)
      BY <1>0, <1>6 DEF AutoGatePass, AutoGateRefuses, AutoRoute, May
    <2> QED
      BY <1>0, <1>1, <1>6, <2>1 DEF AutoGatePass, AutoGateRefuses, AutoRoute
  <1>7. CASE AutoRaises(s) \/ AutoMarkCommit(s)
    <2>1. s \in May(p)' => s \in May(p)
      BY <1>0, <1>7 DEF AutoRaises, ScanAborts, AutoMarkCommit, May
    <2> QED
      BY <1>0, <1>1, <1>7, <2>1 DEF AutoRaises, ScanAborts, AutoMarkCommit
  <1>8. CASE AutoMark(s)
    <2>1. /\ cur[s] \in Proposals /\ pc[s] = "mark" /\ pc'[s] = "markCommit"
          /\ cur' = cur /\ todo' = todo /\ undone' = undone
          /\ SetExecuted(cur[s], "auto_executed") /\ auto' = auto /\ cuts' = cuts /\ lost' = lost
      BY <1>0, <1>8 DEF AutoMark, HasProposal
    <2>2. Same
      BY <2>1, WritesExecuted DEF Statuses
    <2>3. CASE cur[s] = p
      <3>1. ~Open(p)'
        <4>1. CASE Exists(p)
          <5>1. row'[p].status = "auto_executed"
            BY <2>1, <2>3, <4>1, WritesExecuted DEF Statuses
          <5> QED
            BY <5>1 DEF Open, Decided, Statuses
        <4>2. CASE ~Exists(p)
          <5>1. p \in undone /\ row'[p].status = "none"
            BY <1>0, <2>1, <2>3, <4>2, WritesExecuted DEF Held, Exists, Statuses
          <5> QED
            BY <2>1, <5>1 DEF Open, Exists
        <4> QED
          BY <4>1, <4>2
      <3>2. s \in May(p)' => s \in May(p)
        BY <2>1, <2>3, <3>1 DEF May
      <3> QED
        BY <1>1, <2>2, <3>2
    <2>4. CASE cur[s] # p
      <3>1. s \in May(p)' => s \in May(p)
        BY <1>0, <2>1, <2>4 DEF May
      <3> QED
        BY <1>1, <2>2, <3>1
    <2> QED
      BY <2>3, <2>4
  <1>9. CASE AutoPaperTrade(s) \/ AutoLiveOrder(s)
    <2>1. /\ cur[s] \in Proposals /\ cur' = cur /\ todo' = todo /\ pc[s] # "mark"
          /\ pc[s] # "markCommit" /\ pc[s] \notin {"idle", "next"} /\ pc'[s] = "mark"
          /\ cuts' = cuts /\ lost' = lost
      BY <1>0, <1>9 DEF AutoPaperTrade, AutoLiveOrder, HasProposal
    <2>2. auto'[p] + row'[p].trades = auto[p] + row[p].trades
            \/ (cur[s] = p /\ auto'[p] + row'[p].trades = auto[p] + row[p].trades + 1)
      <3>1. CASE AutoPaperTrade(s)
        <4>1. AddTrade(cur[s]) /\ auto' = auto
          BY <3>1 DEF AutoPaperTrade
        <4>2. row'[p].trades = row[p].trades \/ (cur[s] = p /\ row'[p].trades = row[p].trades + 1)
          BY <2>1, <4>1, WritesTrade
        <4> QED
          BY <1>0, <4>1, <4>2
      <3>2. CASE AutoLiveOrder(s)
        <4>1. row' = row /\ (auto' = auto \/ auto' = [auto EXCEPT ![cur[s]] = @ + 1])
          BY <3>2 DEF AutoLiveOrder
        <4> QED
          BY <1>0, <2>1, <4>1
      <3> QED
        BY <1>9, <3>1, <3>2
    <2>3. CASE cur[s] = p
      <3>1. s \in May(p) /\ s \notin May(p)'
        BY <1>0, <2>1, <2>3 DEF May, AtRest
      <3> QED
        BY <1>1, <2>1, <2>2, <3>1
    <2>4. CASE cur[s] # p
      <3>1. s \in May(p)' => s \in May(p)
        BY <1>0, <2>1, <2>4 DEF May
      <3> QED
        BY <1>1, <2>1, <2>2, <2>4, <3>1
    <2> QED
      BY <2>3, <2>4
  <1>10. CASE AutoRaisesLate(s)
    <2>1. /\ cur[s] \in Proposals /\ pc[s] \notin {"idle", "next", "markCommit"}
          /\ pc'[s] = "idle" /\ cur'[s] = None /\ todo'[s] = {}
          /\ cuts' = cuts /\ lost' = lost + 1
      BY <1>0, <1>10 DEF AutoRaisesLate, ScanAborts, HasProposal
    <2>2. \/ row' = row /\ auto' = auto
          \/ /\ pc[s] # "mark"
             /\ \/ row' = row /\ auto' = [auto EXCEPT ![cur[s]] = @ + 1]
                \/ AddTrade(cur[s]) /\ auto' = auto
      BY <1>10 DEF AutoRaisesLate, ScanAborts
    <2>3. May(p)' \subseteq May(p) \cup {s}
      BY <1>0 DEF May
    <2>4. CASE row' = row /\ auto' = auto
      BY <2>1, <2>3, <2>4
    <2>5. CASE /\ pc[s] # "mark"
               /\ \/ row' = row /\ auto' = [auto EXCEPT ![cur[s]] = @ + 1]
                  \/ AddTrade(cur[s]) /\ auto' = auto
      <3>1. s \in May(p)' => s \in May(p)
        BY <1>0, <2>1, <2>5 DEF May
      <3>2. \/ auto'[p] + row'[p].trades = auto[p] + row[p].trades
            \/ auto'[p] + row'[p].trades = auto[p] + row[p].trades + 1
        <4>1. CASE row' = row /\ auto' = [auto EXCEPT ![cur[s]] = @ + 1]
          BY <1>0, <2>1, <4>1
        <4>2. CASE AddTrade(cur[s]) /\ auto' = auto
          <5>1. row'[p].trades = row[p].trades \/ row'[p].trades = row[p].trades + 1
            BY <2>1, <4>2, WritesTrade
          <5> QED
            BY <1>0, <4>2, <5>1
        <4> QED
          BY <2>5, <4>1, <4>2
      <3> QED
        BY <1>1, <2>1, <2>3, <3>1, <3>2
    <2> QED
      BY <2>2, <2>4, <2>5
  <1> QED
    BY <1>2, <1>3, <1>4, <1>5, <1>6, <1>7, <1>8, <1>9, <1>10 DEF ScannerStep

\* Every step keeps the bound on auto-execution's orders.
LEMMA StepAuto ==
    ASSUME IInv, IInv', AtRest, AutoOK, [Next]_vars
    PROVE  AutoOK'
  <1> SUFFICES ASSUME NEW p \in Proposals
               PROVE  auto'[p] + row'[p].trades + Cardinality(May(p)') <= Bound'
    BY DEF AutoOK
  <1>0. /\ TypeOK /\ TypeOK' /\ HasProposal /\ Held
        /\ auto[p] \in Nat /\ row[p].trades \in Nat /\ disk[p].trades \in Nat
        /\ auto'[p] \in Nat /\ row'[p].trades \in Nat
        /\ auto[p] + row[p].trades + Cardinality(May(p)) <= Bound
        /\ disk[p].trades <= row[p].trades
    BY DEF IInv, AutoOK, DiskBehind, TypeOK, Row
  <1>1. CASE SomeoneRollsBack \/ Restart
    <2>1. /\ auto' = auto /\ row' = disk /\ cuts' = cuts + 1 /\ lost' = lost
      BY <1>1 DEF SomeoneRollsBack, Restart, Orders
    <2>2. Bound' = Bound + Cardinality(Scanners) /\ Bound \in Nat
      <3>1. Cardinality(Scanners) \in Nat /\ cuts \in Nat /\ lost \in Nat
        BY <1>0, FiniteScanners DEF TypeOK
      <3>2. \A k, n \in Nat : k * (1 + (n + 1)) = k * (1 + n) + k /\ k * (1 + n) \in Nat
        OBVIOUS
      <3>3. /\ Cardinality(Scanners) * (1 + (cuts + 1))
                 = Cardinality(Scanners) * (1 + cuts) + Cardinality(Scanners)
            /\ Cardinality(Scanners) * (1 + cuts) \in Nat
        BY <3>1, <3>2
      <3> QED
        BY <2>1, <3>1, <3>3 DEF Bound
    <2>3. /\ Cardinality(May(p)') <= Cardinality(Scanners)
          /\ Cardinality(May(p)') \in Nat /\ Cardinality(May(p)) \in Nat
      <3>1. May(p) \in SUBSET Scanners /\ May(p)' \in SUBSET Scanners
        BY DEF May
      <3> QED
        BY <3>1, MayFinite
    <2>4. auto'[p] + row'[p].trades <= Bound
      BY <1>0, <2>1, <2>2, <2>3
    <2> QED
      BY <1>0, <2>1, <2>2, <2>3, <2>4, FiniteScanners
  <1>2. ASSUME Forward(p), UNCHANGED <<cuts, lost>>, auto'[p] = auto[p], row'[p].trades = row[p].trades,
               \A s \in Scanners : pc'[s] = pc[s] /\ cur'[s] = cur[s] /\ todo'[s] = todo[s]
        PROVE  auto'[p] + row'[p].trades + Cardinality(May(p)') <= Bound'
    <2>1. Open(p)' => Open(p)
      BY <1>2, OpenShrinks
    <2>2. May(p)' \subseteq May(p)
      BY <1>2, <2>1 DEF May
    <2> QED
      BY <1>0, <1>2, <2>2, MayFewer
  <1>3. ASSUME NEW h \in Handlers, HandlerStep(h) \/ \E q \in Proposals : HandlerStart(h, q), Forward(p)
        PROVE  auto'[p] + row'[p].trades + Cardinality(May(p)') <= Bound'
    BY <1>0, <1>2, <1>3, HandlerFrame
  <1>4. ASSUME NEW s \in Scanners, ScannerStep(s), Forward(p)
        PROVE  auto'[p] + row'[p].trades + Cardinality(May(p)') <= Bound'
    <2>1. /\ cuts' = cuts
          /\ \/ /\ lost' = lost
                /\ auto'[p] + row'[p].trades = auto[p] + row[p].trades
                /\ May(p)' \subseteq May(p)
             \/ /\ lost' = lost
                /\ auto'[p] + row'[p].trades = auto[p] + row[p].trades + 1
                /\ s \in May(p)
                /\ May(p)' \subseteq May(p) \ {s}
             \/ /\ lost' = lost + 1
                /\ auto'[p] + row'[p].trades = auto[p] + row[p].trades
                /\ May(p)' \subseteq May(p) \cup {s}
             \/ /\ lost' = lost + 1
                /\ auto'[p] + row'[p].trades = auto[p] + row[p].trades + 1
                /\ May(p)' \subseteq May(p)
      BY <1>0, <1>4, ScannerPlaces
    <2>2. CASE lost' = lost + 1
      BY <1>0, <2>1, <2>2, MayLose DEF TypeOK
    <2>3. CASE lost' = lost
      BY <1>0, <2>1, <2>3, MayFewer, MayPlace DEF TypeOK
    <2> QED
      BY <2>1, <2>2, <2>3
  <1>5. ASSUME Forward(p), UNCHANGED vars \/ (\E q \in Proposals : Deadline(q)) \/ (\E m \in Modes : SetMode(m))
        PROVE  auto'[p] + row'[p].trades + Cardinality(May(p)') <= Bound'
    <2>1. UNCHANGED <<row, auto, pc, cur, todo, cuts, lost>>
      BY <1>5 DEF vars, Deadline, SetMode, Commit, db, Orders
    <2> QED
      BY <1>2, <1>5, <2>1
  <1>6. ASSUME Forward(p)
        PROVE  auto'[p] + row'[p].trades + Cardinality(May(p)') <= Bound'
    BY <1>1, <1>3, <1>4, <1>5, <1>6 DEF Next, Environment
  <1> QED
    BY <1>0, <1>1, <1>6, StepForward

\* One order or paper trade per scanner, once more after every restart and rollback, and one
\* per lost answer, whatever requests do in between: the bound holds with what may still be
\* placed added to it.
THEOREM AutoBounded == Spec => []AutoOncePerScanner
  <1>1. Init => AtRest /\ AutoOK
    <2>1. ASSUME Init, NEW p \in Proposals
          PROVE  auto[p] + row[p].trades + Cardinality(May(p)) <= Bound
      <3>1. May(p) \in SUBSET Scanners
        BY DEF May
      <3>2. Cardinality(May(p)) \in Nat /\ Cardinality(May(p)) <= Cardinality(Scanners)
        BY <3>1, MayFinite
      <3> QED
        BY <2>1, <3>2, FiniteScanners DEF Init, NoRow, Bound
    <2> QED
      BY <2>1, QueueAssumption DEF Init, NoRow, AtRest, AutoOK, Coroutines
  <1>2. IInv /\ IInv' /\ AtRest /\ AutoOK /\ [Next]_vars => AtRest' /\ AutoOK'
    BY StepRest, StepAuto DEF IInv
  <1>3. IInv /\ AutoOK => AutoOncePerScanner
    <2> SUFFICES ASSUME IInv, AutoOK, NEW p \in Proposals
                 PROVE  auto[p] + row[p].trades <= Cardinality(Scanners) * (1 + cuts) + lost
      BY DEF AutoOncePerScanner
    <2>1. May(p) \in SUBSET Scanners
      BY DEF May
    <2>2. Cardinality(May(p)) \in Nat /\ Bound \in Nat
      BY <2>1, MayFinite, FiniteScanners DEF IInv, TypeOK, Bound
    <2> QED
      BY <2>2 DEF AutoOK, Bound, IInv, TypeOK, Row
  <1> QED
    BY <1>1, <1>2, <1>3, Inductive, PTL DEF Spec

-----------------------------------------------------------------------------
(* Requests that come one at a time implement the lifecycle *)

\* A change on its way to disk: written or committed, by whoever commits, or rolled back.
Passing(r, d, from, to) == \/ r = to /\ d \in {from, to}
                           \/ r = from /\ d = from

\* What a request for p finds at its awaits: r and d the statuses in the connection's view
\* and on disk, n the orders of approve.
Stage(p, at, r, d, n) ==
    /\ at \in HandlerPoints \ {"idle"}
    /\ at = "enqueueCommit" => Passing(r, d, "none", "proposed")
    /\ at \in {"approvePrice", "reject", "expire"} => r = "proposed" /\ d = r
    /\ at = "approveCommit" => Passing(r, d, "proposed", "approved") /\ (r = "proposed" => p \in undone)
    /\ at = "rejectCommit" => Passing(r, d, "proposed", "rejected")
    /\ at = "expireCommit" => Passing(r, d, "proposed", "expired")
    /\ at \in {"submit", "execute"} => r = d /\ (r = "approved" \/ (p \in undone /\ r = "proposed"))
    /\ at = "executeCommit" => \/ Passing(r, d, "approved", "executed")
                               \/ p \in undone /\ Passing(r, d, "proposed", "executed")
    /\ at \in {"approveCommit", "submit"} => n = 0 \/ p \in undone
    /\ at \in {"execute", "executeCommit"} => n = 1 \/ p \notin Truthful \/ p \in undone

Busy(h, p) == pc[h] # "idle" /\ cur[h] = p

SerialOK ==
    /\ \A s \in Scanners : pc[s] \in {"idle", "next", "gate"}
    /\ \A h \in Handlers, p \in Proposals :
           Busy(h, p) => Stage(p, pc[h], row[p].status, disk[p].status, manual[p])
    /\ \A p \in Proposals :
           (\A h \in Handlers : ~Busy(h, p)) => row[p].status = disk[p].status

\* The instances the refinement is about: with a second request, or a scanner that
\* writes, a stale row can be written over a decision (see LegalTransitions).
Serial == /\ \A g, h \in Handlers : g = h
          /\ Scanners = {"auto"}
          /\ ~AutonomyEnabled

LifeStep == [Lifecycle!Next]_<<[p \in Proposals |-> disk[p].status], manual, undone>>

\* Nothing happens to the lifecycle ...
LEMMA LifeStays ==
    ASSUME \A p \in Proposals : disk'[p].status = disk[p].status, UNCHANGED <<manual, undone>>
    PROVE  LifeStep
  BY DEF LifeStep

\* ... or one proposal moves in it ...
LEMMA LifeMoves ==
    ASSUME TypeOK, NEW p \in Proposals, UNCHANGED <<manual, undone>>,
           \A q \in Proposals : q # p => disk'[q].status = disk[q].status,
           \/ disk[p].status = "none" /\ disk'[p].status = "proposed"
           \/ disk[p].status = "proposed" /\ disk'[p].status \in {"approved", "rejected", "expired"}
           \/ /\ disk[p].status = "approved" /\ disk'[p].status = "executed"
              /\ manual[p] = 1 \/ p \notin Truthful \/ p \in undone
           \/ disk[p].status = "proposed" /\ disk'[p].status = "executed" /\ p \in undone
    PROVE  LifeStep
  <1> DEFINE S == [q \in Proposals |-> disk[q].status]
  <1>1. [q \in Proposals |-> disk'[q].status] = [S EXCEPT ![p] = disk'[p].status]
    OBVIOUS
  <1>2. S[p] = disk[p].status
    OBVIOUS
  <1>3. CASE disk[p].status = "none" /\ disk'[p].status = "proposed"
    <2>1. Lifecycle!Propose(p)
      BY <1>1, <1>2, <1>3 DEF Lifecycle!Propose, Lifecycle!Move
    <2> QED
      BY <2>1 DEF LifeStep, Lifecycle!Next
  <1>4. CASE disk[p].status = "proposed" /\ disk'[p].status \in {"approved", "rejected", "expired"}
    <2>1. Lifecycle!Approve(p) \/ Lifecycle!Reject(p) \/ Lifecycle!Expire(p)
      BY <1>1, <1>2, <1>4 DEF Lifecycle!Approve, Lifecycle!Reject, Lifecycle!Expire, Lifecycle!Move
    <2> QED
      BY <2>1 DEF LifeStep, Lifecycle!Next
  <1>5. CASE \/ /\ disk[p].status = "approved" /\ disk'[p].status = "executed"
                /\ manual[p] = 1 \/ p \notin Truthful \/ p \in undone
             \/ disk[p].status = "proposed" /\ disk'[p].status = "executed" /\ p \in undone
    <2>1. Lifecycle!Execute(p)
      BY <1>1, <1>2, <1>5 DEF Lifecycle!Execute, Lifecycle!Move
    <2> QED
      BY <2>1 DEF LifeStep, Lifecycle!Next
  <1> QED
    BY <1>3, <1>4, <1>5

\* ... or gets its order ...
LEMMA LifePlaces ==
    ASSUME TypeOK, NEW p \in Proposals, undone' = undone,
           \A q \in Proposals : disk'[q].status = disk[q].status,
           manual' = [manual EXCEPT ![p] = @ + 1],
           \/ disk[p].status = "approved" /\ manual[p] = 0
           \/ p \in undone
    PROVE  LifeStep
  <1>1. [q \in Proposals |-> disk'[q].status] = [q \in Proposals |-> disk[q].status]
    OBVIOUS
  <1>2. Lifecycle!Place(p)
    BY <1>1 DEF Lifecycle!Place
  <1> QED
    BY <1>2 DEF LifeStep, Lifecycle!Next

\* ... or a rollback takes what is not decided on disk.
LEMMA LifeUndoes ==
    ASSUME Serial, TypeOK, HasProposal, SerialOK, SomeoneRollsBack
    PROVE  LifeStep
  <1>1. ASSUME NEW p \in undone' \ undone PROVE p \in Proposals /\ disk[p].status \in {"none", "proposed"}
    <2>1. p \in Proposals /\ Exposed(p)
      BY <1>1 DEF SomeoneRollsBack
    <2>2. disk[p].status \in Statuses \cup {"none"}
      BY <2>1 DEF TypeOK, Row
    <2>3. ASSUME NEW c \in Coroutines, pc[c] = "mark", cur[c] = p PROVE FALSE
      <3>1. CASE c \in Handlers
        <4>1. Stage(p, pc[c], row[p].status, disk[p].status, manual[p])
          BY <2>1, <2>3, <3>1 DEF SerialOK, Busy
        <4> QED
          BY <2>3, <4>1 DEF Stage, HandlerPoints
      <3>2. CASE c \in Scanners
        BY <2>3, <3>2 DEF SerialOK
      <3> QED
        BY <3>1, <3>2 DEF Coroutines
    <2> QED
      BY <2>1, <2>2, <2>3 DEF Exposed, Decided, Statuses
  <1>2. /\ undone' \in SUBSET Proposals /\ undone \subseteq undone'
        /\ disk' = disk /\ manual' = manual
    BY DEF SomeoneRollsBack, TypeOK, Orders
  <1>3. Lifecycle!Undo
    BY <1>1, <1>2 DEF Lifecycle!Undo
  <1> QED
    BY <1>3 DEF LifeStep, Lifecycle!Next

\* Whoever commits: what is pending is the one change of the one request.
LEMMA LifeCommits ==
    ASSUME Serial, TypeOK, SerialOK, Commit, UNCHANGED <<manual, undone>>
    PROVE  LifeStep
  <1>1. CASE \A p \in Proposals : row[p].status = disk[p].status
    BY <1>1, LifeStays DEF Commit
  <1>2. ASSUME NEW p \in Proposals, row[p].status # disk[p].status
        PROVE  LifeStep
    <2>1. PICK h \in Handlers : Busy(h, p)
      BY <1>2 DEF SerialOK
    <2>2. Stage(p, pc[h], row[p].status, disk[p].status, manual[p])
      BY <2>1 DEF SerialOK
    <2>3. ASSUME NEW q \in Proposals, q # p PROVE disk'[q].status = disk[q].status
      <3>1. \A g \in Handlers : ~Busy(g, q)
        BY <2>1, <2>3 DEF Serial, Busy
      <3> QED
        BY <3>1 DEF SerialOK, Commit
    <2>4. disk'[p].status = row[p].status
      BY DEF Commit
    <2>5. \/ disk[p].status = "none" /\ row[p].status = "proposed"
          \/ disk[p].status = "proposed" /\ row[p].status \in {"approved", "rejected", "expired"}
          \/ /\ disk[p].status = "approved" /\ row[p].status = "executed"
             /\ manual[p] = 1 \/ p \notin Truthful \/ p \in undone
          \/ disk[p].status = "proposed" /\ row[p].status = "executed" /\ p \in undone
      BY <1>2, <2>2 DEF Stage, Passing, HandlerPoints
    <2> QED
      BY <2>3, <2>4, <2>5, LifeMoves
  <1> QED
    BY <1>1, <1>2

\* A commit of somebody else leaves every request where it can go on.
LEMMA CommitSerial ==
    ASSUME SerialOK, disk' = disk \/ disk' = row, UNCHANGED <<row, manual, undone>>,
           \A s \in Scanners : pc'[s] \in {"idle", "next", "gate"},
           \A h \in Handlers : pc'[h] = pc[h] /\ cur'[h] = cur[h]
    PROVE  SerialOK'
  BY DEF SerialOK, Busy, Stage, Passing

\* So does a rollback, and it marks what it undid.
LEMMA RollbackSerial ==
    ASSUME TypeOK, SerialOK, SomeoneRollsBack
    PROVE  SerialOK'
  <1>1. ASSUME NEW h \in Handlers, NEW p \in Proposals, Busy(h, p)
        PROVE  Stage(p, pc[h], disk[p].status, disk[p].status, manual[p])'
    <2>1. Stage(p, pc[h], row[p].status, disk[p].status, manual[p])
      BY <1>1 DEF SerialOK
    <2>2. /\ UNCHANGED <<disk, pc, manual>> /\ undone \subseteq undone'
          /\ pc[h] = "approveCommit" /\ disk[p].status = "proposed" => p \in undone'
      BY <1>1 DEF SomeoneRollsBack, Exposed, Busy, Coroutines, Orders, Decided, Statuses
    <2> QED
      BY <2>1, <2>2 DEF Stage, Passing
  <1>2. UNCHANGED <<disk, pc, cur, manual>> /\ row' = disk
    BY DEF SomeoneRollsBack, Orders
  <1> QED
    BY <1>1, <1>2 DEF SerialOK, Busy

\* A scanner without autonomy reads and refuses.
LEMMA ScannerRefuses ==
    ASSUME Serial, TypeOK, SerialOK, NEW s \in Scanners, ScannerStep(s)
    PROVE  /\ UNCHANGED <<row, undone>>
           /\ disk' = disk \/ Commit
           /\ \A t \in Scanners : pc'[t] \in {"idle", "next", "gate"}
  <1> USE DEF Serial, SerialOK, TypeOK, Coroutines, Goto, Step, NextRow, db, World
  <1>1. CASE ScanRead(s) \/ ScanDone(s) \/ \E p \in Proposals : ScanNext(s, p)
    BY <1>1 DEF ScanRead, ScanDone, ScanNext
  <1>2. CASE AutoGateRefuses(s)
    BY <1>2 DEF AutoGateRefuses, Commit
  <1>3. CASE AutoRaises(s)
    BY <1>3 DEF AutoRaises, ScanAborts, Commit
  <1>4. ~AutoGatePass(s)
    BY DEF AutoGatePass
  <1>5. ~ScanExpired(s) /\ ~ScanKept(s) /\ ~Expire(s)
    BY DEF ScanExpired, ScanKept, Expire
  <1>6. ~ExpireCommit(s)
    BY QueueAssumption DEF ExpireCommit
  <1>7. ~AutoRoute(s) /\ ~AutoPaperTrade(s) /\ ~AutoLiveOrder(s)
    BY DEF AutoRoute, AutoPaperTrade, AutoLiveOrder
  <1>9. ~AutoRaisesLate(s)
    BY DEF AutoRaisesLate, ScanAborts
  <1>8. ~AutoMark(s) /\ ~AutoMarkCommit(s)
    BY DEF AutoMark, AutoMarkCommit
  <1> QED
    BY <1>1, <1>2, <1>3, <1>4, <1>5, <1>6, <1>7, <1>8, <1>9 DEF ScannerStep

\* A step of the only request keeps its stage, and is one of the lifecycle.
LEMMA HandlerSerial ==
    ASSUME Serial, TypeOK, HasProposal, ManualWriteAhead, SerialOK, NEW h \in Handlers, HandlerStep(h)
    PROVE  SerialOK' /\ LifeStep
  <1> DEFINE p == cur[h]
  <1>0. /\ p \in Proposals
        /\ Stage(p, pc[h], row[p].status, disk[p].status, manual[p])
        /\ undone' = undone
        /\ \A q \in Proposals : q # p => row[q].status = disk[q].status
    <2>1. p \in Proposals /\ pc[h] # "idle"
      BY DEF HandlerStep, EnqueueCommit, ApproveExpired, ApproveWrite, ApproveCommit, ApproveSubmit,
         ApproveSubmitFails, ApproveExecute, ApproveExecuteCommit, RejectWrite, RejectCommit,
         Expire, ExpireCommit, Step, Return, HasProposal, Coroutines
    <2>2. undone' = undone
      BY DEF HandlerStep, EnqueueCommit, ApproveExpired, ApproveWrite, ApproveCommit, ApproveSubmit,
         ApproveSubmitFails, ApproveExecute, ApproveExecuteCommit, RejectWrite, RejectCommit,
         Expire, ExpireCommit, World
    <2> QED
      BY <2>1, <2>2 DEF Serial, SerialOK, Busy
  <1>1. \A s \in Scanners : h # s
    BY QueueAssumption
  <1> HIDE DEF p
  <1>2. ASSUME Return(h, pc[h]), \A q \in Proposals : row'[q].status = disk'[q].status
        PROVE  SerialOK'
    BY <1>1, <1>2 DEF Return, Goto, Serial, SerialOK, Busy, TypeOK, Coroutines
  <1>3. ASSUME NEW to, Step(h, pc[h], to), to # "idle",
               Stage(p, to, row'[p].status, disk'[p].status, manual'[p]),
               \A q \in Proposals : q # p => row'[q].status = disk'[q].status
        PROVE  SerialOK'
    <2>1. pc' = [pc EXCEPT ![h] = to] /\ cur' = cur
      BY <1>3 DEF Step, Goto
    <2>2. pc'[h] = to /\ \A s \in Scanners : pc'[s] = pc[s]
      BY <1>1, <2>1 DEF TypeOK, Coroutines
    <2>3. pc'[h] # "idle" /\ cur'[h] = p
      BY <1>3, <2>1, <2>2 DEF p
    <2>4. \A g \in Handlers : g = h
      BY DEF Serial
    <2>5. \A q \in Proposals : Busy(h, q)' => q = p
      BY <2>1 DEF Busy, p
    <2>6. \A s \in Scanners : pc'[s] \in {"idle", "next", "gate"}
      BY <2>2 DEF SerialOK
    <2>7. ASSUME NEW g \in Handlers, NEW q \in Proposals, Busy(g, q)'
          PROVE  Stage(q, pc[g], row[q].status, disk[q].status, manual[q])'
      <3>1. g = h /\ q = p
        BY <2>4, <2>5, <2>7
      <3> QED
        BY <1>0, <1>3, <2>2, <3>1 DEF Stage
    <2>8. ASSUME NEW q \in Proposals, \A g \in Handlers : ~Busy(g, q)'
          PROVE  row'[q].status = disk'[q].status
      <3>1. q # p
        BY <2>3, <2>8 DEF Busy
      <3> QED
        BY <1>3, <3>1
    <2> QED
      BY <2>6, <2>7, <2>8 DEF SerialOK
  <1>4. CASE EnqueueCommit(h) \/ ApproveExecuteCommit(h) \/ RejectCommit(h) \/ ExpireCommit(h)
    <2>1. Return(h, pc[h]) /\ Commit /\ manual' = manual
      BY <1>4 DEF EnqueueCommit, ApproveExecuteCommit, RejectCommit, ExpireCommit, Return, Orders
    <2> QED
      BY <1>0, <1>2, <2>1, LifeCommits DEF Commit
  <1>5. CASE ApproveCommit(h)
    <2>1. Step(h, pc[h], "submit") /\ pc[h] = "approveCommit" /\ Commit /\ manual' = manual
      BY <1>5 DEF ApproveCommit, Step, Orders
    <2>2. Stage(p, "submit", row'[p].status, disk'[p].status, manual'[p])
      BY <1>0, <2>1 DEF Stage, Passing, Commit, HandlerPoints
    <2> QED
      BY <1>0, <1>3, <2>1, <2>2, LifeCommits DEF Commit
  <1>6. ASSUME pc[h] = "submit", row' = row, disk' = disk \/ disk' = row,
               \/ manual' = manual
               \/ manual' = [manual EXCEPT ![p] = @ + 1]
        PROVE  /\ LifeStep
               /\ \A q \in Proposals : row'[q].status = disk'[q].status
    <2>1. \A q \in Proposals : /\ disk'[q].status = disk[q].status
                               /\ row'[q].status = disk'[q].status
      BY <1>0, <1>6 DEF Stage
    <2>2. CASE manual' = manual
      BY <1>0, <2>1, <2>2, LifeStays
    <2>3. CASE manual' = [manual EXCEPT ![p] = @ + 1]
      <3>1. p \in undone \/ (disk[p].status = "approved" /\ manual[p] = 0)
        BY <1>0, <1>6 DEF Stage
      <3> QED
        BY <1>0, <2>1, <2>3, <3>1, LifePlaces
    <2> QED
      BY <1>6, <2>1, <2>2, <2>3
  <1>7. CASE ApproveSubmit(h)
    <2>1. /\ Step(h, pc[h], "execute") /\ pc[h] = "submit" /\ Commit
          /\ \/ manual' = [manual EXCEPT ![p] = @ + 1]
             \/ p \notin Truthful /\ manual' = manual
      BY <1>7 DEF ApproveSubmit, Step, p
    <2>2. manual'[p] = 1 \/ p \notin Truthful \/ p \in undone
      BY <1>0, <2>1 DEF Stage, TypeOK
    <2>3. Stage(p, "execute", row'[p].status, disk'[p].status, manual'[p])
      BY <1>0, <2>1, <2>2 DEF Stage, Commit, HandlerPoints
    <2> QED
      BY <1>3, <1>6, <2>1, <2>3 DEF Commit
  <1>8. CASE ApproveSubmitFails(h)
    <2>1. /\ Return(h, pc[h]) /\ pc[h] = "submit" /\ row' = row
          /\ disk' = disk \/ disk' = row
          /\ manual' = manual \/ manual' = [manual EXCEPT ![p] = @ + 1]
      BY <1>8 DEF ApproveSubmitFails, Return, Orders, Commit, db, p
    <2> QED
      BY <1>2, <1>6, <2>1
  <1>9. ASSUME NEW to \in {"expireCommit", "approveCommit", "rejectCommit", "executeCommit"},
               Step(h, pc[h], to), UNCHANGED <<disk, manual>>,
               \A q \in Proposals : q # p => row'[q] = row[q],
               Stage(p, to, row'[p].status, disk[p].status, manual[p])
        PROVE  SerialOK' /\ LifeStep
    BY <1>0, <1>3, <1>9, LifeStays
  <1>10. CASE RejectWrite(h) \/ ApproveExpired(h) \/ Expire(h) \/ ApproveWrite(h)
    <2>1. disk[p].status = "proposed" /\ row[p].status = "proposed" /\ Exists(p)
      BY <1>0, <1>10 DEF RejectWrite, ApproveExpired, Expire, ApproveWrite, Step, Stage, Exists
    <2>2. ASSUME NEW r \in Statuses, SetStatus(p, r)
          PROVE  row'[p].status = r /\ \A q \in Proposals : q # p => row'[q] = row[q]
      BY <1>0, <2>1, <2>2, WritesStatus
    <2>3. CASE RejectWrite(h)
      <3>1. SetStatus(p, "rejected") /\ Step(h, pc[h], "rejectCommit") /\ UNCHANGED <<disk, manual>>
        BY <2>3 DEF RejectWrite, Step, Orders, p
      <3>2. row'[p].status = "rejected" /\ \A q \in Proposals : q # p => row'[q] = row[q]
        BY <2>2, <3>1 DEF Statuses
      <3>3. Stage(p, "rejectCommit", "rejected", disk[p].status, manual[p])
        BY <2>1 DEF Stage, Passing, HandlerPoints
      <3> QED
        BY <1>9, <3>1, <3>2, <3>3
    <2>4. CASE ApproveExpired(h) \/ Expire(h)
      <3>1. SetStatus(p, "expired") /\ Step(h, pc[h], "expireCommit") /\ UNCHANGED <<disk, manual>>
        BY <2>4 DEF ApproveExpired, Expire, Step, Orders, p
      <3>2. row'[p].status = "expired" /\ \A q \in Proposals : q # p => row'[q] = row[q]
        BY <2>2, <3>1 DEF Statuses
      <3>3. Stage(p, "expireCommit", "expired", disk[p].status, manual[p])
        BY <2>1 DEF Stage, Passing, HandlerPoints
      <3> QED
        BY <1>9, <3>1, <3>2, <3>3
    <2>5. CASE ApproveWrite(h)
      <3>1. SetStatus(p, "approved") /\ Step(h, pc[h], "approveCommit") /\ UNCHANGED <<disk, manual>>
        BY <2>5 DEF ApproveWrite, Step, Orders, p
      <3>2. row'[p].status = "approved" /\ \A q \in Proposals : q # p => row'[q] = row[q]
        BY <2>2, <3>1 DEF Statuses
      <3>3. manual[p] = 0 \/ p \in undone
        BY <1>0, <2>1 DEF ManualWriteAhead, Decided, TypeOK
      <3>4. Stage(p, "approveCommit", "approved", disk[p].status, manual[p])
        BY <2>1, <3>3 DEF Stage, Passing, HandlerPoints
      <3> QED
        BY <1>9, <3>1, <3>2, <3>4
    <2> QED
      BY <1>10, <2>3, <2>4, <2>5
  <1>11. CASE ApproveExecute(h)
    <2>1. /\ SetExecuted(p, "executed") /\ Step(h, pc[h], "executeCommit") /\ pc[h] = "execute"
          /\ UNCHANGED <<disk, manual>>
      BY <1>11 DEF ApproveExecute, Step, Orders, p
    <2>2. /\ disk[p].status = "approved" \/ (p \in undone /\ disk[p].status = "proposed")
          /\ Exists(p)
          /\ manual[p] = 1 \/ p \notin Truthful \/ p \in undone
      BY <1>0, <2>1 DEF Stage, Exists
    <2>3. row'[p].status = "executed" /\ \A q \in Proposals : q # p => row'[q] = row[q]
      BY <1>0, <2>1, <2>2, WritesExecuted DEF Statuses
    <2>4. Stage(p, "executeCommit", "executed", disk[p].status, manual[p])
      BY <2>2 DEF Stage, Passing, HandlerPoints
    <2> QED
      BY <1>9, <2>1, <2>3, <2>4
  <1> QED
    BY <1>4, <1>5, <1>7, <1>8, <1>10, <1>11 DEF HandlerStep

\* Every step keeps the stage, and is one of the lifecycle or none.
LEMMA StepSerial ==
    ASSUME Serial, IInv, SerialOK, [Next]_vars
    PROVE  SerialOK' /\ LifeStep
  <1>0. TypeOK /\ HasProposal /\ ManualWriteAhead
    BY DEF IInv
  <1>1. ASSUME NEW h \in Handlers, HandlerStep(h) PROVE SerialOK' /\ LifeStep
    BY <1>0, <1>1, HandlerSerial
  <1>2. ASSUME NEW h \in Handlers, NEW p \in Proposals, HandlerStart(h, p)
        PROVE  SerialOK' /\ LifeStep
    <2>1. /\ pc[h] = "idle" /\ disk' = disk /\ manual' = manual /\ undone' = undone
          /\ cur' = [cur EXCEPT ![h] = p]
          /\ \E to \in {"enqueueCommit", "approvePrice", "reject", "expire"} :
                /\ pc' = [pc EXCEPT ![h] = to]
                /\ IF to = "enqueueCommit"
                   THEN row[p].status = "none" /\ row' = [row EXCEPT ![p].status = "proposed"]
                   ELSE row[p].status = "proposed" /\ row' = row
      BY <1>2 DEF HandlerStart, Enqueue, Exists, ApproveRead, RejectRead, CheckExpiryRead, Begin,
         Goto, Orders, World, db
    <2>2. \A g \in Handlers : g = h
      BY DEF Serial
    <2>3. \A q \in Proposals : row[q].status = disk[q].status
      BY <2>1, <2>2 DEF SerialOK, Busy
    <2>4. \A q \in Proposals : q # p => row'[q] = row[q]
      BY <1>0, <2>1 DEF TypeOK
    <2>5. Stage(p, pc[h], row[p].status, disk[p].status, manual[p])'
      BY <1>0, <2>1, <2>3, WritesNew DEF Stage, Passing, HandlerPoints, TypeOK, Coroutines
    <2>6. \A s \in Scanners : pc'[s] = pc[s]
      BY <1>0, <2>1, QueueAssumption DEF TypeOK, Coroutines
    <2>7. cur'[h] = p /\ pc'[h] # "idle"
      BY <1>0, <2>1 DEF TypeOK, Coroutines
    <2>8. SerialOK'
      BY <2>1, <2>2, <2>3, <2>4, <2>5, <2>6, <2>7 DEF SerialOK, Busy
    <2> QED
      BY <2>1, <2>8, LifeStays
  <1>3. ASSUME NEW s \in Scanners, ScannerStep(s) PROVE SerialOK' /\ LifeStep
    <2>1. /\ row' = row /\ manual' = manual /\ undone' = undone /\ (disk' = disk \/ Commit)
          /\ \A t \in Scanners : pc'[t] \in {"idle", "next", "gate"}
          /\ \A h \in Handlers : pc'[h] = pc[h] /\ cur'[h] = cur[h]
      BY <1>0, <1>3, ScannerRefuses, ScannerFrame
    <2>2. disk' = disk \/ disk' = row
      BY <2>1 DEF Commit
    <2>3. SerialOK'
      BY <2>1, <2>2, CommitSerial
    <2>4. CASE Commit
      BY <1>0, <2>1, <2>3, <2>4, LifeCommits
    <2>5. CASE disk' = disk
      BY <2>1, <2>3, <2>5, LifeStays
    <2> QED
      BY <2>1, <2>4, <2>5
  <1>4. CASE UNCHANGED vars \/ (\E p \in Proposals : Deadline(p)) \/ (\E m \in Modes : SetMode(m))
    <2>1. /\ row' = row /\ manual' = manual /\ undone' = undone /\ (disk' = disk \/ Commit)
          /\ pc' = pc /\ cur' = cur
      BY <1>4 DEF vars, Deadline, SetMode, Orders, Commit, db
    <2>2. \A s \in Scanners : pc'[s] \in {"idle", "next", "gate"}
      BY <2>1 DEF SerialOK
    <2>3. disk' = disk \/ disk' = row
      BY <2>1 DEF Commit
    <2>4. SerialOK'
      BY <2>1, <2>2, <2>3, CommitSerial
    <2>5. CASE Commit
      BY <1>0, <2>1, <2>4, <2>5, LifeCommits
    <2>6. CASE disk' = disk
      BY <2>1, <2>4, <2>6, LifeStays
    <2> QED
      BY <2>1, <2>5, <2>6
  <1>5. CASE Restart
    <2>1. SerialOK'
      BY <1>5 DEF Restart, SerialOK, Busy, Coroutines
    <2> QED
      BY <1>5, <2>1, LifeStays DEF Restart, Orders
  <1>6. CASE SomeoneRollsBack
    BY <1>0, <1>6, RollbackSerial, LifeUndoes
  <1> QED
    BY <1>1, <1>2, <1>3, <1>4, <1>5, <1>6 DEF Next, Environment

\* Requests that come one at a time, with the scanner that cannot act, implement the
\* lifecycle, for any proposals and adapters, lost answers, restarts and rollbacks.
THEOREM SerialImplements ==
    ASSUME Serial
    PROVE  Spec => ImplementsLifecycle
  <1>1. Init => Lifecycle!Init
    BY DEF Init, Lifecycle!Init, NoRow
  <1>2. Init => SerialOK
    BY DEF Init, SerialOK, Busy, Coroutines
  <1>3. IInv /\ SerialOK /\ [Next]_vars
          => SerialOK' /\ [Lifecycle!Next]_<<[p \in Proposals |-> disk[p].status], manual, undone>>
    BY StepSerial DEF LifeStep
  <1> QED
    BY <1>1, <1>2, <1>3, Inductive, PTL DEF Spec, ImplementsLifecycle, Lifecycle!Spec
=============================================================================
