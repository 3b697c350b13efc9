-------------------------- MODULE OrderManagerProofs --------------------------
(***************************************************************************)
(* Proofs about OrderManager, for any orders, exchanges, clients, managers,*)
(* adapters, and any number of restarts and failing writes.                *)
(*                                                                         *)
(* The argument is the lock.  An order belongs to the manager that was     *)
(* asked to submit it (Belongs), so whoever works on an order holds the    *)
(* lock of its manager and is the only one to do so.  What is left is to   *)
(* follow one operation: what row, exchange and entries look like at each  *)
(* of its awaits (ClientOK, SyncOK), what an entry in _open_orders says of *)
(* row and exchange (EntryOK), and what may be said of an order that       *)
(* nobody works on (OrderOK).  That the managers implement OrderLifecycle  *)
(* needs one more idea (Once): the row of an order is refreshed from a     *)
(* listing at most once, as the entry loses the UUID by it.                *)
(***************************************************************************)
EXTENDS OrderManager, TLAPS

ClientPoints == {"check", "insert", "created", "place", "record", "track", "cool",
                 "reject", "rejected", "cancel", "cancelled", "dropped"}
SyncPoints == {"fetch", "next", "forget", "refresh"}

\* Clients and sync tasks keep to their own operations, and have an entry to work on.
Roles ==
    /\ \A c \in Coroutines : pc[c] = "idle" => cur[c] = NoEntry
    /\ \A c \in Clients : /\ pc[c] \in ClientPoints \cup {"idle"}
                          /\ pc[c] # "idle" => cur[c] \in Entry
    /\ \A m \in Wired : /\ pc[m] \in SyncPoints \cup {"idle"}
                        /\ mgr[m] \in {m, None}
                        /\ pc[m] \in {"forget", "refresh"} => cur[m] \in Entry

\* An order is worked on, tracked and synchronised by the manager that was asked to submit it.
Belongs ==
    /\ \A c \in Coroutines : cur[c] # NoEntry => by[cur[c].order] = mgr[c]
    /\ \A m \in Managers : \A e \in open[m] \cup batch[m] : by[e.order] = m

Truth(o) == TellsTruth(Kind(o))

\* Points of submit_order before the order enters _open_orders.
Early == {"check", "insert", "created", "place", "record", "track", "reject", "rejected"}

\* What holds of the order of a client at each await of its operation.
ClientOK(c) ==
    LET o == cur[c].order
    IN /\ pc[c] \in Early => /\ cur[c] = Fresh(o)
                             /\ \A e \in open[mgr[c]] : e.order # o
       /\ pc[c] \in {"check", "insert"} => row[o] = "none"
       /\ pc[c] \in {"created", "place", "record", "reject"} => row[o] = "pending"
       /\ pc[c] \in {"check", "insert", "created", "place"} => venue[o] = "none"
       /\ pc[c] = "place" => Event(o, "local", "created") \in events
       /\ pc[c] \in {"record", "track"} => (Truth(o) => venue[o] # "none")
       /\ pc[c] = "track" => row[o] = "submitted"
       /\ pc[c] = "rejected" => row[o] = "rejected"
       /\ pc[c] \in {"cancel", "cancelled", "dropped"} => cur[c] \in open[mgr[c]]
       /\ pc[c] \in {"cancelled", "dropped"} => (Truth(o) => venue[o] = "cancelled")
       /\ pc[c] = "dropped" => (cur[c].key = "local" => row[o] = "cancelled")

\* e is an entry whose order was just cancelled, or found to be over.
Leaving(m, e) ==
    \/ \E c \in Clients : pc[c] = "dropped" /\ cur[c] = e
    \/ m \in Wired /\ pc[m] = "forget" /\ cur[m].id = "local" /\ cur[m].order = e.order

\* An entry under the UUID has a row that is open, unless it is about to leave (or a bare
\* manager's write failed when it was).
EntryOK(m, e) ==
    /\ e.id = "local" => e.key = "local"
    /\ Truth(e.order) => venue[e.order] # "none"
    /\ e.key = "local" => \/ row[e.order] \in OpenRows
                          \/ row[e.order] = "cancelled" /\ m \notin Wired
                          \/ Leaving(m, e)

\* _open_orders is a dict.
Dict == \A m \in Managers : \A e, f \in open[m] :
            e.order = f.order /\ e.key = f.key => e = f

\* What a running sync knows of the entries it has still to look at, and of the one it is at.
SyncOK(m) ==
    /\ pc[m] = "idle" => batch[m] = {}
    /\ pc[m] # "idle" => asked[m] \in Exchanges
    /\ \A e, f \in batch[m] : e.id = "local" /\ f.id = "local" /\ e.order = f.order => e = f
    /\ \A e \in batch[m] : /\ exch[e.order] = asked[m]
                           /\ e.id = "local" => row[e.order] \in OpenRows
                           /\ Truth(e.order) => venue[e.order] # "none"
    /\ pc[m] \in {"next", "forget", "refresh"} =>
           \A e \in batch[m] : listing[m][e.order] = "none" /\ Truth(e.order)
                                  => venue[e.order] \notin Live
    /\ pc[m] = "forget" => (cur[m].id = "local" => row[cur[m].order] = "filled")
    /\ pc[m] = "refresh" =>
           /\ cur[m].id = "local" => row[cur[m].order] \in OpenRows
           /\ Truth(cur[m].order) => venue[cur[m].order] # "none"
           /\ listing[m][cur[m].order] # "none"

\* What holds of an order whoever works on it: the properties, and that nothing is known
\* of one nobody asked to submit.
OrderOK(o) ==
    /\ by[o] = None => row[o] = "none" /\ venue[o] = "none"
    /\ venue[o] # "none" => row[o] # "none" /\ Event(o, "local", "created") \in events
    /\ row[o] = "cancelled" /\ Truth(o) => venue[o] = "cancelled"
    /\ row[o] = "filled" /\ Truth(o) => venue[o] \in {"filled", "cancelled"}
    /\ crashes = 0 /\ row[o] \in OpenRows
           => Tracked(o) \/ o \in cut \/ \E c \in Clients : pc[c] = "track" /\ cur[c].order = o

IInv == /\ TypeOK /\ Roles /\ Belongs /\ Dict
        /\ \A c \in Clients : ClientOK(c)
        /\ \A m \in Managers : \A e \in open[m] : EntryOK(m, e)
        /\ \A m \in Wired : SyncOK(m)
        /\ \A o \in Orders : OrderOK(o)

-----------------------------------------------------------------------------
(* The adapters *)

\* An order that is live at an exchange is in what its adapter lists, if that answers.
LEMMA LiveIsListed ==
    ASSUME NEW kind \in Kinds, NEW state, "none" \in ListedStatuses(kind, state)
    PROVE  state \notin Live
  <1> SUFFICES ASSUME state \in Live PROVE FALSE
      OBVIOUS
  <1>1. IsListed(state)
        BY DEF IsListed, Live
  <1>2. Known(state) # "none"
        BY DEF Known
  <1>3. CASE kind = "binance"
        BY <1>1, <1>2, <1>3 DEF ListedStatuses, BinanceOpenOrders, BinanceStatus
  <1>4. CASE kind = "htx"
        BY <1>1, <1>2, <1>4 DEF ListedStatuses, HtxOpenOrders, HtxStatus
  <1>5. CASE kind = "bitget"
        BY <1>1, <1>2, <1>5 DEF ListedStatuses, BitgetOpenOrders, BitgetStatus
  <1>6. CASE kind = "hyperliquid"
        BY <1>1, <1>6 DEF ListedStatuses, HyperliquidOpenOrders
  <1>7. QED
        BY <1>3, <1>4, <1>5, <1>6 DEF Kinds

\* Binance's and HTX's adapters raise when the exchange refuses; Bitget's takes an error in
\* the body of a 200 for a result, and Hyperliquid's answers without asking.
THEOREM TruthfulAdapters ==
    ASSUME NEW kind \in Kinds
    PROVE  TellsTruth(kind) <=> kind \in {"binance", "htx"}
  <1>1. CASE kind = "binance"
    <2>1. \A a \in Answers("binance", FALSE) : BinanceRequest(a) = "raises"
          BY DEF Answers, Refusals, BinanceRequest
    <2>2. PlaceResults("binance", FALSE) = BinancePlace(FALSE)
          BY DEF PlaceResults
    <2>3. CancelResults("binance", FALSE) = BinanceCancel(FALSE)
          BY DEF CancelResults
    <2>4. BinancePlace(FALSE) \subseteq {"raises"} /\ BinanceCancel(FALSE) \subseteq {FALSE}
          BY <2>1 DEF BinancePlace, BinanceCancel
    <2>5. QED
          BY <1>1, <2>2, <2>3, <2>4 DEF TellsTruth, ListsErrorAsEmpty
  <1>2. CASE kind = "htx"
    <2>1. \A a \in Answers("htx", FALSE) : HtxRequest(a) = "raises"
          BY DEF Answers, Refusals, HtxRequest
    <2>2. PlaceResults("htx", FALSE) = HtxPlace(FALSE)
          BY DEF PlaceResults
    <2>3. CancelResults("htx", FALSE) = HtxCancel(FALSE)
          BY DEF CancelResults
    <2>4. HtxPlace(FALSE) \subseteq {"raises"} /\ HtxCancel(FALSE) \subseteq {FALSE}
          BY <2>1 DEF HtxPlace, HtxCancel
    <2>5. QED
          BY <1>2, <2>2, <2>3, <2>4 DEF TellsTruth, ListsErrorAsEmpty
  <1>3. CASE kind = "bitget"
        BY <1>3 DEF TellsTruth, ListsErrorAsEmpty
  <1>4. CASE kind = "hyperliquid"
    <2>1. PlaceResults("hyperliquid", FALSE) = HyperliquidPlace(FALSE)
          BY DEF PlaceResults
    <2>2. "noId" \in HyperliquidPlace(FALSE)
          BY DEF HyperliquidPlace
    <2>3. "noId" \in PlaceResults("hyperliquid", FALSE)
          BY <2>1, <2>2, Zenon
    <2>4. ~TellsTruth("hyperliquid")
          BY <2>3, "noId" # "raises" DEF TellsTruth
    <2>5. QED
          BY <1>4, <2>4
  <1>5. QED
        BY <1>1, <1>2, <1>3, <1>4 DEF Kinds

-----------------------------------------------------------------------------
(* The lock *)

\* What TypeOK says of the lock and of those who hold it.
Lock ==
    /\ holder \in [Managers -> Coroutines \cup {None}]
    /\ pc \in [Coroutines -> Points]
    /\ mgr \in [Coroutines -> Managers \cup {None}]
    /\ cur \in [Coroutines -> Entry \cup {NoEntry}]
    /\ \A c \in Coroutines : /\ pc[c] = "idle" <=> mgr[c] = None
                             /\ \A m \in Managers : holder[m] = c <=> mgr[c] = m

\* No entry, no coroutine and no order is None.
LEMMA Nobody ==
    /\ \A e \in Entry : e # NoEntry /\ e.order \in Orders /\ e.order # None
    /\ NoEntry.order = None
    /\ None \notin Coroutines
    /\ None \notin Managers /\ None \notin Orders
    /\ \A c \in Clients : c \notin Managers /\ c \notin Wired
    /\ Wired \subseteq Managers
  BY ManagerAssumption DEF Entry, NoEntry, Coroutines

LEMMA AcquireLock ==
    ASSUME Lock, NEW c \in Coroutines, NEW m \in Managers, NEW e \in Entry \cup {NoEntry},
           NEW to \in Points \ {"idle"}, Acquire(c, m, e, to)
    PROVE  Lock' /\ holder'[m] = c
  <1>1. /\ pc[c] = "idle" /\ mgr[c] = None /\ holder[m] = None
        /\ holder' = [holder EXCEPT ![m] = c]
        /\ pc' = [pc EXCEPT ![c] = to]
        /\ mgr' = [mgr EXCEPT ![c] = m]
        /\ cur' = [cur EXCEPT ![c] = e]
        BY DEF Acquire, Lock
  <1>2. /\ holder' \in [Managers -> Coroutines \cup {None}]
        /\ pc' \in [Coroutines -> Points]
        /\ mgr' \in [Coroutines -> Managers \cup {None}]
        /\ cur' \in [Coroutines -> Entry \cup {NoEntry}]
        BY <1>1 DEF Lock
  <1>3. ASSUME NEW d \in Coroutines
        PROVE  /\ pc'[d] = "idle" <=> mgr'[d] = None
               /\ \A n \in Managers : holder'[n] = d <=> mgr'[d] = n
        BY <1>1, <1>3, Nobody DEF Lock
  <1>4. QED
        BY <1>1, <1>2, <1>3 DEF Lock

LEMMA ReleaseLock ==
    ASSUME Lock, NEW c \in Coroutines, NEW from \in Points \ {"idle"}, Release(c, from)
    PROVE  Lock'
  <1>1. /\ pc[c] = from /\ mgr[c] \in Managers /\ holder[mgr[c]] = c
        /\ holder' = [holder EXCEPT ![mgr[c]] = None]
        /\ pc' = [pc EXCEPT ![c] = "idle"]
        /\ mgr' = [mgr EXCEPT ![c] = None]
        /\ cur' = [cur EXCEPT ![c] = NoEntry]
        BY DEF Release, Lock
  <1>2. /\ holder' \in [Managers -> Coroutines \cup {None}]
        /\ pc' \in [Coroutines -> Points]
        /\ mgr' \in [Coroutines -> Managers \cup {None}]
        /\ cur' \in [Coroutines -> Entry \cup {NoEntry}]
        BY <1>1 DEF Lock, Points
  <1>3. ASSUME NEW d \in Coroutines
        PROVE  /\ pc'[d] = "idle" <=> mgr'[d] = None
               /\ \A n \in Managers : holder'[n] = d <=> mgr'[d] = n
        BY <1>1, <1>3, Nobody DEF Lock
  <1>4. QED
        BY <1>2, <1>3 DEF Lock

\* The next await of an operation, perhaps with another entry.
LEMMA StepLock ==
    ASSUME Lock, NEW c \in Coroutines, pc[c] # "idle", NEW to \in Points \ {"idle"},
           pc' = [pc EXCEPT ![c] = to], UNCHANGED <<holder, mgr>>,
           cur' \in [Coroutines -> Entry \cup {NoEntry}]
    PROVE  Lock'
  <1>1. ASSUME NEW d \in Coroutines
        PROVE  /\ pc'[d] = "idle" <=> mgr'[d] = None
               /\ \A n \in Managers : holder'[n] = d <=> mgr'[d] = n
        BY <1>1 DEF Lock
  <1>2. QED
        BY <1>1 DEF Lock

\* c goes to its next await, or returns; the others stay where they are.
LEMMA StepMoves ==
    ASSUME Lock, NEW c \in Coroutines, NEW from \in Points \ {"idle"},
           NEW to \in Points \ {"idle"}, Step(c, from, to)
    PROVE  /\ Lock' /\ pc[c] = from
           /\ pc'[c] = to /\ cur'[c] = cur[c] /\ mgr'[c] = mgr[c]
           /\ \A d \in Coroutines \ {c} :
                  pc'[d] = pc[d] /\ cur'[d] = cur[d] /\ mgr'[d] = mgr[d]
  <1>1. /\ pc[c] = from
        /\ pc' = [pc EXCEPT ![c] = to]
        /\ UNCHANGED <<holder, mgr, cur>>
        BY DEF Step
  <1>2. Lock'
        BY <1>1, StepLock DEF Lock
  <1>3. pc'[c] = to /\ \A d \in Coroutines \ {c} : pc'[d] = pc[d]
        BY <1>1 DEF Lock
  <1>4. QED
        BY <1>1, <1>2, <1>3

LEMMA ReleaseMoves ==
    ASSUME Lock, NEW c \in Coroutines, NEW from \in Points \ {"idle"}, Release(c, from)
    PROVE  /\ Lock' /\ pc[c] = from
           /\ pc'[c] = "idle" /\ cur'[c] = NoEntry /\ mgr'[c] = None
           /\ \A d \in Coroutines \ {c} :
                  pc'[d] = pc[d] /\ cur'[d] = cur[d] /\ mgr'[d] = mgr[d]
  <1>1. /\ pc[c] = from
        /\ pc' = [pc EXCEPT ![c] = "idle"]
        /\ mgr' = [mgr EXCEPT ![c] = None]
        /\ cur' = [cur EXCEPT ![c] = NoEntry]
        BY DEF Release
  <1>2. Lock'
        BY ReleaseLock
  <1>3. /\ pc'[c] = "idle" /\ mgr'[c] = None /\ cur'[c] = NoEntry
        /\ \A d \in Coroutines \ {c} : pc'[d] = pc[d] /\ mgr'[d] = mgr[d] /\ cur'[d] = cur[d]
        BY <1>1 DEF Lock
  <1>4. QED
        BY <1>1, <1>2, <1>3

\* Two coroutines at work are at work in different managers, and on different orders.
LEMMA Exclusive ==
    ASSUME Lock, Belongs, NEW c \in Coroutines, NEW d \in Coroutines \ {c},
           pc[c] # "idle"
    PROVE  /\ mgr[c] # mgr[d]
           /\ cur[c] # NoEntry => cur[c].order # cur[d].order
  <1>1. mgr[c] \in Managers /\ holder[mgr[c]] = c
        BY DEF Lock
  <1>2. mgr[c] # mgr[d]
        BY <1>1 DEF Lock
  <1>3. ASSUME cur[c] # NoEntry PROVE cur[c].order # cur[d].order
        <2>1. CASE cur[d] = NoEntry
              BY <1>3, <2>1, Nobody DEF Lock
        <2>2. CASE cur[d] # NoEntry
              BY <1>2, <1>3, <2>2 DEF Belongs
        <2>3. QED
              BY <2>1, <2>2
  <1>4. QED
        BY <1>2, <1>3

-----------------------------------------------------------------------------
(* The step of a client *)

\* The rest of TypeOK.
Data ==
    /\ row \in [Orders -> RowStatuses]
    /\ events \subseteq Orders \X Ids \X EventTypes
    /\ exch \in [Orders -> Exchanges \cup {None}]
    /\ by \in [Orders -> Managers \cup {None}]
    /\ open \in [Managers -> SUBSET Entry]
    /\ active \in [Managers -> Exchanges]
    /\ batch \in [Managers -> SUBSET Entry]
    /\ asked \in [Managers -> Exchanges \cup {None}]
    /\ listing \in [Managers -> [Orders -> OpenRows \cup {"odd", "none"}]]
    /\ venue \in [Orders -> VenueStatuses]
    /\ setting \in Exchanges
    /\ crashes \in 0 .. MaxCrashes
    /\ cuts \in 0 .. MaxCuts
    /\ cut \subseteq Orders

LEMMA TypeParts == TypeOK <=> Lock /\ Data
  BY DEF TypeOK, Lock, Data

\* Coroutine c, the only one in manager m, goes on, returns or starts.
Moves(c, m) ==
    /\ Lock'
    /\ \A d \in Coroutines \ {c} : /\ mgr[d] # m
                                  /\ pc'[d] = pc[d] /\ cur'[d] = cur[d] /\ mgr'[d] = mgr[d]
    /\ pc'[c] = "idle" => cur'[c] = NoEntry
    /\ cur'[c] # NoEntry => mgr'[c] = m /\ by'[cur'[c].order] = m
    /\ c \in Clients => /\ pc'[c] \in ClientPoints \cup {"idle"}
                        /\ pc'[c] # "idle" => cur'[c] \in Entry
    /\ c \in Wired => /\ m = c
                      /\ pc'[c] \in SyncPoints \cup {"idle"}
                      /\ mgr'[c] \in {c, None}
                      /\ pc'[c] \in {"forget", "refresh"} => cur'[c] \in Entry

\* What changes is the orders P of manager m, or what m's sync knows.
Touches(P, m) ==
    /\ Data'
    /\ crashes' = crashes
    /\ events \subseteq events'
    /\ cut \subseteq cut'
    /\ \A p \in P : by[p] \in {m, None} /\ by'[p] = m
    /\ \A p \in Orders \ P : /\ row'[p] = row[p] /\ venue'[p] = venue[p]
                             /\ by'[p] = by[p] /\ exch'[p] = exch[p]
    /\ \A n \in Managers \ {m} : /\ open'[n] = open[n] /\ batch'[n] = batch[n]
                                 /\ asked'[n] = asked[n] /\ listing'[n] = listing[n]
    /\ \A e \in Entry : e.order \notin P => (e \in open'[m] <=> e \in open[m])
    /\ batch'[m] \subseteq batch[m] \cup open[m]

\* The rest of the invariant, once c's own part of it is shown.
LEMMA Frame ==
    ASSUME IInv, NEW c \in Coroutines, NEW m \in Managers, NEW P \in SUBSET Orders,
           Moves(c, m), Touches(P, m),
           cur[c] # NoEntry /\ (c \in Clients \/ pc[c] = "forget") => cur[c].order \in P
    PROVE  /\ TypeOK' /\ Roles' /\ Belongs'
           /\ \A d \in Clients \ {c} : ClientOK(d)'
           /\ \A n \in Wired \ {m} : SyncOK(n)'
           /\ \A n \in Managers : \A e \in open'[n] :
                  n # m \/ e.order \notin P => EntryOK(n, e)'
           /\ \A p \in Orders \ P : OrderOK(p)'
  <1>1. /\ Lock /\ Data /\ Roles /\ Belongs
        BY TypeParts DEF IInv
  <1>2. /\ Lock'
        /\ \A d \in Coroutines \ {c} : /\ mgr[d] # m
                                      /\ pc'[d] = pc[d] /\ cur'[d] = cur[d]
                                      /\ mgr'[d] = mgr[d]
        BY DEF Moves
  <1>3. /\ Data'
        /\ crashes' = crashes
        /\ events \subseteq events'
        /\ cut \subseteq cut'
        /\ \A p \in P : by[p] \in {m, None} /\ by'[p] = m
        /\ \A p \in Orders \ P : /\ row'[p] = row[p] /\ venue'[p] = venue[p]
                                 /\ by'[p] = by[p] /\ exch'[p] = exch[p]
        /\ \A n \in Managers \ {m} : /\ open'[n] = open[n] /\ batch'[n] = batch[n]
                                     /\ asked'[n] = asked[n] /\ listing'[n] = listing[n]
        /\ \A e \in Entry : e.order \notin P => (e \in open'[m] <=> e \in open[m])
        /\ batch'[m] \subseteq batch[m] \cup open[m]
        BY DEF Touches
  <1>4. TypeOK'
        BY <1>2, <1>3, TypeParts DEF TypeOK, Lock, Data
  <1>5. \A p \in Orders \ P : Truth(p)' <=> Truth(p)
        BY <1>3 DEF Truth, Kind
  <1>6. ASSUME NEW d \in Coroutines \ {c}, cur[d] # NoEntry
        PROVE  /\ mgr[d] \in Managers \ {m} /\ cur[d] \in Entry
               /\ cur[d].order \in Orders \ P
        BY <1>1, <1>2, <1>3, <1>6, Nobody DEF Lock, Roles, Belongs
  <1>7. ASSUME NEW n \in Managers, NEW e \in open[n] \cup batch[n]
        PROVE  /\ e \in Entry /\ e.order \in Orders /\ by[e.order] = n
               /\ n # m => e.order \notin P
        BY <1>1, <1>3, <1>7, Nobody DEF Belongs, Data
  <1>8. Roles'
        BY <1>1, <1>2, Nobody DEF Roles, Moves, Coroutines
  <1>9. Belongs'
    <2>1. ASSUME NEW d \in Coroutines, cur'[d] # NoEntry
          PROVE  by'[cur'[d].order] = mgr'[d]
      <3>1. CASE d = c
            BY <2>1, <3>1 DEF Moves
      <3>2. CASE d # c
            BY <1>1, <1>2, <1>3, <1>6, <2>1, <3>2 DEF Belongs
      <3>3. QED
            BY <3>1, <3>2
    <2>2. ASSUME NEW n \in Managers, NEW e \in open'[n] \cup batch'[n]
          PROVE  by'[e.order] = n
      <3>1. e \in Entry /\ e.order \in Orders
            BY <1>3, <2>2, Nobody DEF Data
      <3>2. CASE e.order \in P /\ n = m
            BY <1>3, <3>2
      <3>3. CASE e.order \notin P \/ n # m
            <4>1. e \in open[n] \cup batch[n]
                  BY <1>3, <2>2, <3>1, <3>3
            <4>2. e.order \notin P /\ by[e.order] = n
                  BY <1>7, <3>3, <4>1
            <4>3. QED
                  BY <1>3, <3>1, <4>2
      <3>4. QED
            BY <3>2, <3>3
    <2>3. QED
          BY <2>1, <2>2 DEF Belongs
  <1>10. ASSUME NEW d \in Clients \ {c} PROVE ClientOK(d)'
    <2>1. /\ d \in Coroutines /\ ClientOK(d)
          /\ pc'[d] = pc[d] /\ cur'[d] = cur[d] /\ mgr'[d] = mgr[d]
          BY <1>2 DEF IInv, Coroutines
    <2>2. CASE pc[d] = "idle"
          BY <2>1, <2>2 DEF ClientOK, Early
    <2>3. CASE pc[d] # "idle"
      <3>1. cur[d] # NoEntry
            BY <1>1, <2>1, <2>3, Nobody DEF Roles
      <3>2. PICK q \in Orders \ P : cur[d].order = q
            BY <1>6, <2>1, <3>1
      <3>3. /\ row'[q] = row[q] /\ venue'[q] = venue[q] /\ (Truth(q)' <=> Truth(q))
            /\ open'[mgr[d]] = open[mgr[d]]
            /\ events \subseteq events'
            BY <1>3, <1>5, <1>6, <2>1, <3>1, <3>2
      <3>4. QED
            BY <2>1, <3>2, <3>3 DEF ClientOK, Fresh, Event
    <2>4. QED
          BY <2>2, <2>3
  <1>11. ASSUME NEW n \in Wired \ {m} PROVE SyncOK(n)'
    <2>1. n \in Coroutines /\ n \in Managers /\ SyncOK(n)
          BY Nobody DEF IInv, Coroutines
    <2>2. n # c
          BY <1>11, Nobody DEF Moves
    <2>3. /\ pc'[n] = pc[n] /\ cur'[n] = cur[n]
          /\ batch'[n] = batch[n] /\ asked'[n] = asked[n] /\ listing'[n] = listing[n]
          BY <1>2, <1>3, <1>11, <2>1, <2>2
    <2>4. \A e \in batch[n] : e.order \in Orders \ P
          BY <1>7, <1>11, <2>1
    <2>5. pc[n] \in {"forget", "refresh"} => cur[n].order \in Orders \ P
          BY <1>1, <1>6, <2>1, <2>2, Nobody DEF Roles
    <2>6. QED
          BY <1>3, <1>5, <2>1, <2>3, <2>4, <2>5 DEF SyncOK
  <1>12. ASSUME NEW n \in Managers, NEW e \in open'[n], n # m \/ e.order \notin P
         PROVE  EntryOK(n, e)'
    <2>1. e \in Entry /\ e.order \in Orders
          BY <1>3, <1>12, Nobody DEF Data
    <2>2. e \in open[n]
          BY <1>3, <1>12, <2>1
    <2>3. e.order \in Orders \ P /\ EntryOK(n, e)
          BY <1>7, <1>12, <2>1, <2>2 DEF IInv
    <2>4. ASSUME Leaving(n, e) PROVE Leaving(n, e)'
      <3>1. ASSUME NEW d \in Clients, pc[d] = "dropped", cur[d] = e
            PROVE  pc'[d] = "dropped" /\ cur'[d] = e
            BY <1>2, <2>1, <2>3, <3>1, Nobody DEF Coroutines
      <3>2. ASSUME n \in Wired, pc[n] = "forget", cur[n].id = "local", cur[n].order = e.order
            PROVE  pc'[n] = "forget" /\ cur'[n] = cur[n]
            <4>1. cur[n] # NoEntry
                  BY <2>1, <3>2, Nobody
            <4>2. n # c /\ n \in Coroutines
                  BY <2>3, <3>2, <4>1 DEF Coroutines
            <4>3. QED
                  BY <1>2, <3>2, <4>2
      <3>3. QED
            BY <2>4, <3>1, <3>2 DEF Leaving
    <2>5. QED
          BY <1>3, <1>5, <2>3, <2>4 DEF EntryOK
  <1>13. ASSUME NEW p \in Orders \ P PROVE OrderOK(p)'
    <2>1. OrderOK(p)
          BY DEF IInv
    <2>2. /\ row'[p] = row[p] /\ venue'[p] = venue[p] /\ by'[p] = by[p]
          /\ (Truth(p)' <=> Truth(p)) /\ events \subseteq events' /\ crashes' = crashes
          BY <1>3, <1>5
    <2>3. ASSUME Tracked(p) PROVE Tracked(p)'
      <3>1. PICK e \in open[by[p]] : e.order = p /\ e.key = "local"
            BY <2>3 DEF Tracked
      <3>2. by[p] \in Managers
            BY <1>1, <2>3 DEF Tracked, Data
      <3>3. e \in open'[by[p]]
            BY <1>3, <1>7, <3>1, <3>2
      <3>4. QED
            BY <2>2, <2>3, <3>1, <3>3 DEF Tracked
    <2>4. ASSUME NEW d \in Clients, pc[d] = "track", cur[d].order = p
          PROVE  pc'[d] = "track" /\ cur'[d].order = p
      <3>1. cur[d] # NoEntry /\ d \in Coroutines
            BY <1>13, <2>4, Nobody DEF Coroutines
      <3>2. QED
            BY <1>2, <1>13, <2>4, <3>1
    <2>5. QED
          BY <1>3, <2>1, <2>2, <2>3, <2>4 DEF OrderOK, Event
  <1>14. QED
        BY <1>4, <1>8, <1>9, <1>10, <1>11, <1>12, <1>13

\* Client c goes to its next await, or returns or raises.
Goes(c) == Release(c, pc[c]) \/ \E to \in ClientPoints : Step(c, pc[c], to)

\* While client c works on order o of manager m, m's sync waits for the lock, nobody else
\* works on o, and no entry of o is leaving but the one c removes.
LEMMA ClientFacts ==
    ASSUME IInv, NEW c \in Clients, pc[c] # "idle"
    PROVE  /\ Lock /\ Data /\ Roles /\ Belongs /\ Dict /\ ClientOK(c)
           /\ c \in Coroutines /\ c \notin Wired
           /\ cur[c] \in Entry /\ cur[c].order \in Orders /\ OrderOK(cur[c].order)
           /\ mgr[c] \in Managers /\ by[cur[c].order] = mgr[c]
           /\ mgr[c] \in Wired => pc[mgr[c]] = "idle" /\ batch[mgr[c]] = {}
           /\ \A d \in Coroutines \ {c} : mgr[d] # mgr[c] /\ cur[d].order # cur[c].order
           /\ \A e \in open[mgr[c]] :
                  e.order = cur[c].order => /\ EntryOK(mgr[c], e)
                                            /\ Leaving(mgr[c], e) => pc[c] = "dropped" /\ cur[c] = e
  <1>1. /\ Lock /\ Data /\ Roles /\ Belongs /\ Dict /\ ClientOK(c)
        /\ c \in Coroutines /\ c \notin Wired
        BY TypeParts, Nobody DEF IInv, Coroutines
  <1>2. /\ cur[c] \in Entry /\ cur[c] # NoEntry
        /\ cur[c].order \in Orders /\ OrderOK(cur[c].order)
        BY <1>1, Nobody DEF Roles, IInv
  <1>3. mgr[c] \in Managers /\ by[cur[c].order] = mgr[c]
        BY <1>1, <1>2 DEF Lock, Belongs
  <1>4. \A d \in Coroutines \ {c} : mgr[d] # mgr[c] /\ cur[d].order # cur[c].order
        BY <1>1, <1>2, Exclusive
  <1>5. ASSUME mgr[c] \in Wired PROVE pc[mgr[c]] = "idle" /\ batch[mgr[c]] = {}
    <2>1. mgr[c] \in Coroutines /\ mgr[c] # c
          BY <1>1, <1>5 DEF Coroutines
    <2>2. mgr[mgr[c]] = None
          BY <1>1, <1>4, <1>5, <2>1 DEF Roles
    <2>3. pc[mgr[c]] = "idle"
          BY <1>1, <2>1, <2>2 DEF Lock
    <2>4. QED
          BY <1>5, <2>3 DEF IInv, SyncOK
  <1>6. ASSUME NEW e \in open[mgr[c]], e.order = cur[c].order
        PROVE  EntryOK(mgr[c], e) /\ (Leaving(mgr[c], e) => pc[c] = "dropped" /\ cur[c] = e)
    <2>1. EntryOK(mgr[c], e)
          BY <1>3, <1>6 DEF IInv
    <2>2. ASSUME Leaving(mgr[c], e) PROVE pc[c] = "dropped" /\ cur[c] = e
      <3>1. PICK d \in Clients : pc[d] = "dropped" /\ cur[d] = e
            BY <1>5, <2>2 DEF Leaving
      <3>2. d = c
            BY <1>4, <1>6, <3>1 DEF Coroutines
      <3>3. QED
            BY <3>1, <3>2
    <2>3. QED
          BY <2>1, <2>2
  <1>7. QED
        BY <1>1, <1>2, <1>3, <1>4, <1>5, <1>6

\* What is left to show of a step of client c: what becomes of the order it works on.
LEMMA ClientFrame ==
    ASSUME IInv, NEW c \in Clients, NEW m \in Managers, NEW o \in Orders,
           pc[c] # "idle", mgr[c] = m, cur[c].order = o,
           Goes(c), Data', UNCHANGED <<by, exch, crashes, batch, asked, listing>>,
           \A p \in Orders \ {o} : row'[p] = row[p] /\ venue'[p] = venue[p],
           events \subseteq events', cut \subseteq cut',
           \A n \in Managers \ {m} : open'[n] = open[n],
           \A e \in Entry : e.order # o => (e \in open'[m] <=> e \in open[m]),
           \A e, f \in open'[m] : e.order = o /\ f.order = o /\ e.key = f.key => e = f,
           pc'[c] # "idle" => ClientOK(c)',
           \A e \in open'[m] : e.order = o => EntryOK(m, e)',
           OrderOK(o)'
    PROVE  IInv'
  <1>1. /\ Lock /\ Data /\ Roles /\ Belongs /\ Dict /\ ClientOK(c)
        /\ c \in Coroutines /\ c \notin Wired
        /\ cur[c] \in Entry /\ by[o] = m
        /\ m \in Wired => pc[m] = "idle" /\ batch[m] = {}
        /\ \A d \in Coroutines \ {c} : mgr[d] # m
        BY ClientFacts
  <1>2. /\ Lock'
        /\ \A d \in Coroutines \ {c} : pc'[d] = pc[d] /\ cur'[d] = cur[d] /\ mgr'[d] = mgr[d]
        /\ \/ pc'[c] = "idle" /\ cur'[c] = NoEntry
           \/ pc'[c] \in ClientPoints /\ cur'[c] = cur[c] /\ mgr'[c] = m
    <2>1. CASE Release(c, pc[c])
          BY <1>1, <2>1, ReleaseMoves DEF Lock
    <2>2. ASSUME NEW to \in ClientPoints, Step(c, pc[c], to)
          PROVE  /\ Lock'
                 /\ pc'[c] = to /\ cur'[c] = cur[c] /\ mgr'[c] = m
                 /\ \A d \in Coroutines \ {c} :
                        pc'[d] = pc[d] /\ cur'[d] = cur[d] /\ mgr'[d] = mgr[d]
      <3>1. to \in Points \ {"idle"} /\ pc[c] \in Points \ {"idle"}
            BY <1>1 DEF Lock, Points, ClientPoints
      <3>2. QED
            BY <1>1, <2>2, <3>1, StepMoves
    <2>3. QED
          BY <2>1, <2>2 DEF Goes
  <1>3. Moves(c, m)
        BY <1>1, <1>2 DEF Moves, ClientPoints
  <1>4. Touches({o}, m)
        BY <1>1 DEF Touches
  <1>5. /\ TypeOK' /\ Roles' /\ Belongs'
        /\ \A d \in Clients \ {c} : ClientOK(d)'
        /\ \A n \in Wired \ {m} : SyncOK(n)'
        /\ \A n \in Managers : \A e \in open'[n] : n # m \/ e.order # o => EntryOK(n, e)'
        /\ \A p \in Orders \ {o} : OrderOK(p)'
        BY <1>1, <1>3, <1>4, Frame
  <1>6. ClientOK(c)'
        BY <1>2 DEF ClientOK, Early
  <1>7. ASSUME m \in Wired PROVE SyncOK(m)'
        BY <1>1, <1>2, <1>7 DEF SyncOK, Coroutines
  <1>8. Dict'
    <2> SUFFICES ASSUME NEW n \in Managers, NEW e \in open'[n], NEW f \in open'[n],
                        e.order = f.order, e.key = f.key
                 PROVE  e = f
        BY DEF Dict
    <2>1. CASE n # m
          BY <1>1, <2>1 DEF Dict
    <2>2. CASE n = m /\ e.order # o
          BY <1>1, <2>2 DEF Dict, Data
    <2>3. CASE n = m /\ e.order = o
          BY <2>3
    <2>4. QED
          BY <2>1, <2>2, <2>3
  <1>9. QED
        BY <1>5, <1>6, <1>7, <1>8 DEF IInv

-----------------------------------------------------------------------------
(* submit_order *)

\* Before the order is tracked no entry of it is in _open_orders.
LEMMA EarlyFrame ==
    ASSUME IInv, NEW c \in Clients, NEW o \in Orders, cur[c].order = o, pc[c] \in Early,
           Goes(c), row' \in [Orders -> RowStatuses], venue' \in [Orders -> VenueStatuses],
           events' \subseteq Orders \X Ids \X EventTypes,
           UNCHANGED <<requests, open, sync, World>>,
           \A p \in Orders \ {o} : row'[p] = row[p] /\ venue'[p] = venue[p],
           events \subseteq events',
           pc'[c] # "idle" => ClientOK(c)', OrderOK(o)'
    PROVE  IInv'
  <1>1. PICK m \in Managers : mgr[c] = m
        BY ClientFacts DEF Early
  <1>2. /\ Data /\ Dict /\ ClientOK(c)
        BY ClientFacts DEF Early
  <1>3. Data'
        BY <1>2 DEF Data, requests, sync, World
  <1>4. \A e \in open[m] : e.order # o
        BY <1>1, <1>2 DEF ClientOK
  <1>5. QED
        BY <1>1, <1>3, <1>4, ClientFrame DEF Early, requests, sync, World

LEMMA SubmitAllowedKeeps ==
    ASSUME IInv, NEW c \in Clients, SubmitAllowed(c) PROVE IInv'
  <1>1. /\ pc[c] = "check" /\ Step(c, "check", "insert")
        /\ UNCHANGED <<row, events, requests, open, sync, venue, World>>
        BY DEF SubmitAllowed, Step, db
  <1>2. PICK o \in Orders : cur[c].order = o
        BY <1>1, ClientFacts
  <1>3. /\ Lock /\ Data /\ ClientOK(c) /\ c \in Coroutines /\ OrderOK(o)
        BY <1>1, <1>2, ClientFacts
  <1>4. pc'[c] = "insert" /\ cur'[c] = cur[c] /\ mgr'[c] = mgr[c]
        BY <1>1, <1>3, StepMoves DEF Points
  <1>5. ClientOK(c)'
        BY <1>1, <1>2, <1>3, <1>4 DEF ClientOK, Early, Fresh
  <1>6. OrderOK(o)'
        BY <1>1, <1>2, <1>3 DEF OrderOK, ClientOK, OpenRows, requests, World
  <1>7. Goes(c)
        BY <1>1 DEF Goes, ClientPoints
  <1>8. QED
        BY <1>1, <1>2, <1>3, <1>5, <1>6, <1>7, EarlyFrame DEF Early, Data

LEMMA SubmitBlockedKeeps ==
    ASSUME IInv, NEW c \in Clients, SubmitBlocked(c) PROVE IInv'
  <1>1. /\ pc[c] = "check" /\ Release(c, "check")
        /\ UNCHANGED <<row, events, requests, open, sync, venue, World>>
        BY DEF SubmitBlocked, Release, db
  <1>2. PICK o \in Orders : cur[c].order = o
        BY <1>1, ClientFacts
  <1>3. /\ Lock /\ Data /\ ClientOK(c) /\ c \in Coroutines /\ OrderOK(o)
        BY <1>1, <1>2, ClientFacts
  <1>4. pc'[c] = "idle"
        BY <1>1, <1>3, ReleaseMoves DEF Points
  <1>5. OrderOK(o)'
        BY <1>1, <1>2, <1>3 DEF OrderOK, ClientOK, Early, OpenRows, Event, Truth, Kind, requests, World
  <1>6. Goes(c)
        BY <1>1 DEF Goes, ClientPoints
  <1>7. QED
        BY <1>1, <1>2, <1>3, <1>4, <1>5, <1>6, EarlyFrame DEF Early, Data

LEMMA SubmitInsertKeeps ==
    ASSUME IInv, NEW c \in Clients, SubmitInsert(c) PROVE IInv'
  <1>1. /\ pc[c] = "insert" /\ Step(c, "insert", "created")
        /\ row' = [row EXCEPT ![cur[c].order] = "pending"]
        /\ UNCHANGED <<events, requests, open, sync, venue, World>>
        BY DEF SubmitInsert, Step, db, SetRow
  <1>2. PICK o \in Orders : cur[c].order = o
        BY <1>1, ClientFacts
  <1>3. /\ Lock /\ Data /\ ClientOK(c) /\ c \in Coroutines /\ OrderOK(o)
        /\ by[o] # None
        BY <1>1, <1>2, ClientFacts, Nobody
  <1>4. /\ row'[o] = "pending" /\ \A p \in Orders \ {o} : row'[p] = row[p]
        /\ row' \in [Orders -> RowStatuses]
        BY <1>1, <1>2, <1>3 DEF Data, Event, Ids, EventTypes, RowStatuses
  <1>5. pc'[c] = "created" /\ cur'[c] = cur[c] /\ mgr'[c] = mgr[c]
        BY <1>1, <1>3, StepMoves DEF Points
  <1>6. ClientOK(c)'
        BY <1>1, <1>2, <1>3, <1>4, <1>5 DEF ClientOK, Early, Fresh, Truth, Kind, requests
  <1>7. OrderOK(o)'
        BY <1>1, <1>2, <1>3, <1>4 DEF OrderOK, ClientOK, Early, OpenRows, Event, Truth, Kind, requests, World
  <1>8. Goes(c)
        BY <1>1 DEF Goes, ClientPoints
  <1>9. QED
        BY <1>1, <1>2, <1>3, <1>4, <1>6, <1>7, <1>8, EarlyFrame DEF Early, Data

LEMMA SubmitCreatedKeeps ==
    ASSUME IInv, NEW c \in Clients, SubmitCreated(c) PROVE IInv'
  <1>1. /\ pc[c] = "created" /\ Step(c, "created", "place")
        /\ events' = events \cup {Event(cur[c].order, "local", "created")}
        /\ UNCHANGED <<row, requests, open, sync, venue, World>>
        BY DEF SubmitCreated, Step, db, Record
  <1>2. PICK o \in Orders : cur[c].order = o
        BY <1>1, ClientFacts
  <1>3. /\ Lock /\ Data /\ ClientOK(c) /\ c \in Coroutines /\ OrderOK(o)
        BY <1>1, <1>2, ClientFacts
  <1>4. /\ events' \subseteq Orders \X Ids \X EventTypes /\ Event(o, "local", "created") \in events'
        BY <1>1, <1>2, <1>3 DEF Data, Event, Ids, EventTypes, RowStatuses
  <1>5. pc'[c] = "place" /\ cur'[c] = cur[c] /\ mgr'[c] = mgr[c]
        BY <1>1, <1>3, StepMoves DEF Points
  <1>6. ClientOK(c)'
        BY <1>1, <1>2, <1>3, <1>4, <1>5 DEF ClientOK, Early, Fresh, Truth, Kind, requests
  <1>7. OrderOK(o)'
        BY <1>1, <1>2, <1>3, <1>4 DEF OrderOK, ClientOK, Early, OpenRows, Event, Truth, Kind, requests, World
  <1>8. Goes(c)
        BY <1>1 DEF Goes, ClientPoints
  <1>9. QED
        BY <1>1, <1>2, <1>3, <1>4, <1>6, <1>7, <1>8, EarlyFrame DEF Early, Data

LEMMA SubmitRecordKeeps ==
    ASSUME IInv, NEW c \in Clients, SubmitRecord(c) PROVE IInv'
  <1>1. /\ pc[c] = "record" /\ Step(c, "record", "track")
        /\ row' = [row EXCEPT ![cur[c].order] = "submitted"]
        /\ UNCHANGED <<events, requests, open, sync, venue, World>>
        BY DEF SubmitRecord, Step, db, SetRow
  <1>2. PICK o \in Orders : cur[c].order = o
        BY <1>1, ClientFacts
  <1>3. /\ Lock /\ Data /\ ClientOK(c) /\ c \in Coroutines /\ OrderOK(o)
        BY <1>1, <1>2, ClientFacts
  <1>4. /\ row'[o] = "submitted" /\ \A p \in Orders \ {o} : row'[p] = row[p]
        /\ row' \in [Orders -> RowStatuses]
        BY <1>1, <1>2, <1>3 DEF Data, Event, Ids, EventTypes, RowStatuses
  <1>5. pc'[c] = "track" /\ cur'[c] = cur[c] /\ mgr'[c] = mgr[c]
        BY <1>1, <1>3, StepMoves DEF Points
  <1>6. ClientOK(c)'
        BY <1>1, <1>2, <1>3, <1>4, <1>5 DEF ClientOK, Early, Fresh, Truth, Kind, requests
  <1>7. OrderOK(o)'
        BY <1>1, <1>2, <1>3, <1>4, <1>5 DEF OrderOK, ClientOK, Early, OpenRows, Event, Truth, Kind, requests, World
  <1>8. Goes(c)
        BY <1>1 DEF Goes, ClientPoints
  <1>9. QED
        BY <1>1, <1>2, <1>3, <1>4, <1>6, <1>7, <1>8, EarlyFrame DEF Early, Data

LEMMA RejectRowKeeps ==
    ASSUME IInv, NEW c \in Clients, RejectRow(c) PROVE IInv'
  <1>1. /\ pc[c] = "reject" /\ Step(c, "reject", "rejected")
        /\ row' = [row EXCEPT ![cur[c].order] = "rejected"]
        /\ UNCHANGED <<events, requests, open, sync, venue, World>>
        BY DEF RejectRow, Step, db, SetRow
  <1>2. PICK o \in Orders : cur[c].order = o
        BY <1>1, ClientFacts
  <1>3. /\ Lock /\ Data /\ ClientOK(c) /\ c \in Coroutines /\ OrderOK(o)
        BY <1>1, <1>2, ClientFacts
  <1>4. /\ row'[o] = "rejected" /\ \A p \in Orders \ {o} : row'[p] = row[p]
        /\ row' \in [Orders -> RowStatuses]
        BY <1>1, <1>2, <1>3 DEF Data, Event, Ids, EventTypes, RowStatuses
  <1>5. pc'[c] = "rejected" /\ cur'[c] = cur[c] /\ mgr'[c] = mgr[c]
        BY <1>1, <1>3, StepMoves DEF Points
  <1>6. ClientOK(c)'
        BY <1>1, <1>2, <1>3, <1>4, <1>5 DEF ClientOK, Early, Fresh, Truth, Kind, requests
  <1>7. OrderOK(o)'
        BY <1>1, <1>2, <1>3, <1>4 DEF OrderOK, ClientOK, Early, OpenRows, Event, Truth, Kind, requests, World
  <1>8. Goes(c)
        BY <1>1 DEF Goes, ClientPoints
  <1>9. QED
        BY <1>1, <1>2, <1>3, <1>4, <1>6, <1>7, <1>8, EarlyFrame DEF Early, Data

LEMMA RejectEventKeeps ==
    ASSUME IInv, NEW c \in Clients, RejectEvent(c) PROVE IInv'
  <1>1. /\ pc[c] = "rejected" /\ Release(c, "rejected")
        /\ events' = events \cup {Event(cur[c].order, "local", "rejected")}
        /\ UNCHANGED <<row, requests, open, sync, venue, World>>
        BY DEF RejectEvent, Release, db, Record
  <1>2. PICK o \in Orders : cur[c].order = o
        BY <1>1, ClientFacts
  <1>3. /\ Lock /\ Data /\ ClientOK(c) /\ c \in Coroutines /\ OrderOK(o)
        BY <1>1, <1>2, ClientFacts
  <1>4. /\ events' \subseteq Orders \X Ids \X EventTypes /\ Event(o, "local", "rejected") \in events'
        BY <1>1, <1>2, <1>3 DEF Data, Event, Ids, EventTypes, RowStatuses
  <1>5. pc'[c] = "idle"
        BY <1>1, <1>3, ReleaseMoves DEF Points
  <1>6. OrderOK(o)'
        BY <1>1, <1>2, <1>3, <1>4 DEF OrderOK, ClientOK, Early, OpenRows, Event, Truth, Kind, requests, World
  <1>7. Goes(c)
        BY <1>1 DEF Goes, ClientPoints
  <1>8. QED
        BY <1>1, <1>2, <1>3, <1>4, <1>5, <1>6, <1>7, EarlyFrame DEF Early, Data

\* Only an adapter that does not tell the truth gives a result for an order that was not taken.
LEMMA PlaceKeeps ==
    ASSUME IInv, NEW c \in Clients, NEW taken \in BOOLEAN, Place(c, taken) PROVE IInv'
  <1>1. PICK o \in Orders : cur[c].order = o
        BY ClientFacts DEF Place
  <1>2. PICK result \in PlaceResults(Kind(o), taken) :
            Step(c, "place", IF result = "raises" THEN "reject" ELSE "record")
        BY <1>1 DEF Place
  <1>3. /\ pc[c] = "place"
        /\ venue' = IF taken THEN [venue EXCEPT ![o] = "open"] ELSE venue
        /\ UNCHANGED <<row, events, requests, open, sync, World>>
        BY <1>1 DEF Place, db
  <1>4. /\ Lock /\ Data /\ ClientOK(c) /\ c \in Coroutines /\ OrderOK(o) /\ by[o] # None
        BY <1>1, <1>3, ClientFacts, Nobody
  <1>5. /\ venue' \in [Orders -> VenueStatuses]
        /\ \A p \in Orders \ {o} : venue'[p] = venue[p]
        /\ taken => venue'[o] = "open"
        /\ ~taken => venue' = venue
        BY <1>3, <1>4 DEF Data, VenueStatuses
  <1>6. Truth(o) /\ result # "raises" => taken
        BY <1>2 DEF Truth, TellsTruth
  <1>7. ASSUME result # "raises" PROVE ClientOK(c)' /\ Goes(c)
    <2>1. Step(c, "place", "record")
          BY <1>2, <1>7
    <2>2. pc'[c] = "record" /\ cur'[c] = cur[c] /\ mgr'[c] = mgr[c]
          BY <1>4, <2>1, StepMoves DEF Points
    <2>3. Goes(c)
          BY <1>3, <2>1 DEF Goes, ClientPoints
    <2>4. QED
          BY <1>1, <1>3, <1>4, <1>5, <1>6, <1>7, <2>2, <2>3
             DEF ClientOK, Early, Fresh, Truth, Kind, requests
  <1>8. ASSUME result = "raises" PROVE ClientOK(c)' /\ Goes(c)
    <2>1. Step(c, "place", "reject")
          BY <1>2, <1>8
    <2>2. pc'[c] = "reject" /\ cur'[c] = cur[c] /\ mgr'[c] = mgr[c]
          BY <1>4, <2>1, StepMoves DEF Points
    <2>3. Goes(c)
          BY <1>3, <2>1 DEF Goes, ClientPoints
    <2>4. QED
          BY <1>1, <1>3, <1>4, <1>5, <2>2, <2>3
             DEF ClientOK, Early, Fresh, Truth, Kind, requests
  <1>9. OrderOK(o)'
        BY <1>1, <1>3, <1>4, <1>5 DEF OrderOK, ClientOK, Early, OpenRows, Event, requests, World
  <1>10. QED
        BY <1>1, <1>3, <1>4, <1>5, <1>7, <1>8, <1>9, EarlyFrame DEF Early, Data

\* The order enters _open_orders with its row "submitted"; a wired manager goes on to the
\* cooldown, a bare one returns.
LEMMA SubmitTrackKeeps ==
    ASSUME IInv, NEW c \in Clients, SubmitTrack(c) PROVE IInv'
  <1>1. pc[c] = "track"
        BY DEF SubmitTrack, Step, Release
  <1>2. PICK m \in Managers : mgr[c] = m
        BY <1>1, ClientFacts
  <1>3. PICK o \in Orders : cur[c].order = o
        BY <1>1, ClientFacts
  <1>4. /\ Lock /\ Data /\ ClientOK(c) /\ c \in Coroutines /\ OrderOK(o) /\ by[o] = m
        /\ cur[c] = Fresh(o) /\ cur[c] \in Entry
        /\ \A e \in open[m] : e.order # o
        BY <1>1, <1>2, <1>3, ClientFacts DEF ClientOK, Early
  <1>5. /\ events' = events \cup {Event(o, "local", "submitted")}
        /\ open' = [open EXCEPT ![m] = @ \cup {Fresh(o)}]
        /\ UNCHANGED <<row, requests, sync, venue, World>>
        BY <1>2, <1>3, <1>4 DEF SubmitTrack, Record
  <1>6. Goes(c) /\ pc'[c] \in {"cool", "idle"}
    <2>1. CASE m \in Wired
          BY <1>1, <1>2, <1>4, <2>1, StepMoves DEF SubmitTrack, Goes, ClientPoints, Points
    <2>2. CASE m \notin Wired
          BY <1>1, <1>2, <1>4, <2>2, ReleaseMoves DEF SubmitTrack, Goes, Points
    <2>3. QED
          BY <2>1, <2>2
  <1>7. /\ Fresh(o) \in open'[m] /\ Fresh(o).order = o
        /\ Fresh(o).key = "local" /\ Fresh(o).id = "local"
        /\ \A e \in open'[m] : e.order = o => e = Fresh(o)
        /\ \A e \in Entry : e.order # o => (e \in open'[m] <=> e \in open[m])
        /\ \A n \in Managers \ {m} : open'[n] = open[n]
        BY <1>4, <1>5 DEF Data, Fresh
  <1>8. Data'
    <2>1. events' \subseteq Orders \X Ids \X EventTypes
          BY <1>4, <1>5 DEF Data, Event, Ids, EventTypes
    <2>2. open' \in [Managers -> SUBSET Entry]
          BY <1>4, <1>5 DEF Data
    <2>3. QED
          BY <1>4, <1>5, <2>1, <2>2 DEF Data, requests, sync, World
  <1>9. pc'[c] # "idle" => ClientOK(c)'
        BY <1>6 DEF ClientOK, Early
  <1>10. EntryOK(m, Fresh(o))'
        BY <1>1, <1>3, <1>4, <1>5, <1>7 DEF ClientOK, EntryOK, Truth, Kind, OpenRows, requests
  <1>11. OrderOK(o)'
    <2>1. Tracked(o)'
          BY <1>4, <1>5, <1>7, Nobody DEF Tracked, requests
    <2>2. QED
          BY <1>1, <1>3, <1>4, <1>5, <2>1 DEF OrderOK, ClientOK, Event, Truth, Kind, requests, World
  <1>12. QED
        BY <1>1, <1>2, <1>3, <1>5, <1>6, <1>7, <1>8, <1>9, <1>10, <1>11, ClientFrame
           DEF requests, sync, World

\* An entry of c's order stays what it is if its row does and the exchange does not forget it.
LEMMA EntryStays ==
    ASSUME IInv, NEW c \in Clients, NEW m \in Managers, mgr[c] = m,
           NEW o \in Orders, cur[c].order = o,
           pc[c] \notin {"idle", "dropped"}, exch' = exch, row'[o] = row[o],
           venue[o] # "none" => venue'[o] # "none",
           NEW e \in open[m], e.order = o
    PROVE  EntryOK(m, e)'
  <1>1. EntryOK(m, e) /\ ~Leaving(m, e)
        BY ClientFacts
  <1>2. QED
        BY <1>1 DEF EntryOK, Truth, Kind

\* While c works on an open order it has tracked, or did not submit, the order is tracked.
LEMMA TrackStays ==
    ASSUME IInv, NEW c \in Clients, pc[c] \notin {"idle", "track"}, NEW o \in Orders,
           cur[c].order = o, crashes = 0, row[o] \in OpenRows
    PROVE  Tracked(o) \/ o \in cut
  <1>1. OrderOK(o) /\ \A d \in Coroutines \ {c} : cur[d].order # o
        BY ClientFacts
  <1>2. \A d \in Clients : pc[d] = "track" => cur[d].order # o
        BY <1>1 DEF Coroutines
  <1>3. QED
        BY <1>1, <1>2 DEF OrderOK

LEMMA SubmitCoolKeeps ==
    ASSUME IInv, NEW c \in Clients, SubmitCool(c) PROVE IInv'
  <1>1. /\ pc[c] = "cool" /\ Release(c, "cool")
        /\ UNCHANGED <<row, events, requests, open, sync, venue, World>>
        BY DEF SubmitCool, Release, db
  <1>2. PICK m \in Managers : mgr[c] = m
        BY <1>1, ClientFacts
  <1>3. PICK o \in Orders : cur[c].order = o
        BY <1>1, ClientFacts
  <1>4. /\ Lock /\ Data /\ Dict /\ c \in Coroutines /\ OrderOK(o)
        BY <1>1, <1>2, <1>3, ClientFacts
  <1>5. pc'[c] = "idle"
        BY <1>1, <1>4, ReleaseMoves DEF Points
  <1>6. \A e \in open[m] : e.order = o => EntryOK(m, e)'
        BY <1>1, <1>2, <1>3, EntryStays DEF requests
  <1>7. OrderOK(o)'
    <2>1. crashes' = 0 /\ row'[o] \in OpenRows => Tracked(o)' \/ o \in cut'
          BY <1>1, <1>3, TrackStays DEF Tracked, requests, World
    <2>2. QED
          BY <1>1, <1>4, <2>1 DEF OrderOK, Truth, Kind, requests, World
  <1>8. Data' /\ Goes(c)
        BY <1>1, <1>4 DEF Data, Goes, requests, sync, World
  <1>9. QED
        BY <1>1, <1>2, <1>3, <1>4, <1>5, <1>6, <1>7, <1>8, ClientFrame
           DEF Dict, requests, sync, World

-----------------------------------------------------------------------------
(* cancel_order *)

\* A success is a cancelled order, if the adapter tells the truth.
LEMMA CancelAskKeeps ==
    ASSUME IInv, NEW c \in Clients, NEW done \in BOOLEAN, CancelAsk(c, done) PROVE IInv'
  <1>1. pc[c] = "cancel"
        BY DEF CancelAsk
  <1>2. PICK m \in Managers : mgr[c] = m
        BY <1>1, ClientFacts
  <1>3. PICK o \in Orders : cur[c].order = o
        BY <1>1, ClientFacts
  <1>4. PICK success \in CancelResults(Kind(o), done) :
            IF success THEN Step(c, "cancel", "cancelled") ELSE Release(c, "cancel")
        BY <1>3 DEF CancelAsk
  <1>5. /\ done => venue[o] \in Live
        /\ venue' = IF done THEN [venue EXCEPT ![o] = "cancelled"] ELSE venue
        /\ UNCHANGED <<row, events, requests, open, sync, World>>
        BY <1>3 DEF CancelAsk, db
  <1>6. /\ Lock /\ Data /\ Dict /\ ClientOK(c) /\ c \in Coroutines /\ OrderOK(o)
        BY <1>1, <1>2, <1>3, ClientFacts
  <1>7. /\ venue' \in [Orders -> VenueStatuses]
        /\ \A p \in Orders \ {o} : venue'[p] = venue[p]
        /\ done => venue'[o] = "cancelled" /\ venue[o] \in {"open", "partial"}
        /\ ~done => venue' = venue
        BY <1>5, <1>6 DEF Data, VenueStatuses, Live
  <1>8. Truth(o) /\ success => done
        BY <1>4 DEF Truth, TellsTruth
  <1>9. Goes(c) /\ (pc'[c] # "idle" => ClientOK(c)')
    <2>1. ASSUME success PROVE Goes(c) /\ ClientOK(c)'
      <3>1. Step(c, "cancel", "cancelled")
            BY <1>4, <2>1
      <3>2. pc'[c] = "cancelled" /\ cur'[c] = cur[c] /\ mgr'[c] = mgr[c]
            BY <1>6, <3>1, StepMoves DEF Points
      <3>3. Truth(o)' => venue'[o] = "cancelled"
            BY <1>5, <1>7, <1>8, <2>1 DEF Truth, Kind, requests
      <3>4. QED
            BY <1>1, <1>3, <1>5, <1>6, <3>1, <3>2, <3>3
               DEF ClientOK, Early, Goes, ClientPoints
    <2>2. ASSUME ~success PROVE Goes(c) /\ pc'[c] = "idle"
          BY <1>1, <1>4, <1>6, <2>2, ReleaseMoves DEF Goes, Points
    <2>3. QED
          BY <2>1, <2>2
  <1>10. \A e \in open[m] : e.order = o => EntryOK(m, e)'
        BY <1>1, <1>2, <1>3, <1>5, <1>7, EntryStays DEF requests
  <1>11. OrderOK(o)'
    <2>1. crashes' = 0 /\ row'[o] \in OpenRows => Tracked(o)' \/ o \in cut'
          BY <1>1, <1>3, <1>5, TrackStays DEF Tracked, requests, World
    <2>2. QED
          BY <1>5, <1>6, <1>7, <2>1 DEF OrderOK, Truth, Kind, requests, World
  <1>12. Data'
        BY <1>5, <1>6, <1>7 DEF Data, requests, sync, World
  <1>13. QED
        BY <1>1, <1>2, <1>3, <1>5, <1>6, <1>7, <1>9, <1>10, <1>11, <1>12, ClientFrame
           DEF Dict, requests, sync, World

\* The row of an order cancelled under its UUID was open, or "cancelled" before.
LEMMA CancelRowKeeps ==
    ASSUME IInv, NEW c \in Clients, CancelRow(c) PROVE IInv'
  <1>1. /\ pc[c] = "cancelled" /\ Step(c, "cancelled", "dropped")
        /\ UNCHANGED <<events, requests, open, sync, venue, World>>
        BY DEF CancelRow, Step
  <1>2. PICK m \in Managers : mgr[c] = m
        BY <1>1, ClientFacts
  <1>3. PICK o \in Orders : cur[c].order = o
        BY <1>1, ClientFacts
  <1>4. /\ Lock /\ Data /\ Dict /\ ClientOK(c) /\ c \in Coroutines /\ OrderOK(o)
        /\ cur[c] \in open[m] /\ by[o] # None
        /\ \A e \in open[m] : e.order = o => EntryOK(m, e) /\ ~Leaving(m, e)
        BY <1>1, <1>2, <1>3, ClientFacts, Nobody DEF ClientOK
  <1>5. pc'[c] = "dropped" /\ cur'[c] = cur[c] /\ mgr'[c] = mgr[c]
        BY <1>1, <1>4, StepMoves DEF Points
  <1>6. /\ row' \in [Orders -> RowStatuses]
        /\ \A p \in Orders \ {o} : row'[p] = row[p]
        /\ cur[c].key = "local" => row'[o] = "cancelled" /\ row[o] \in OpenRows \cup {"cancelled"}
        /\ cur[c].key # "local" => row' = row
    <2>1. row' = IF cur[c].key = "local" THEN [row EXCEPT ![o] = "cancelled"] ELSE row
          BY <1>3 DEF CancelRow, UpdateRow, SetRow
    <2>2. cur[c].key = "local" => row[o] \in OpenRows \cup {"cancelled"}
          BY <1>3, <1>4 DEF EntryOK
    <2>3. QED
          BY <1>4, <2>1, <2>2 DEF Data, RowStatuses
  <1>7. ClientOK(c)'
        BY <1>1, <1>2, <1>3, <1>4, <1>5, <1>6 DEF ClientOK, Early, Truth, Kind, requests
  <1>8. ASSUME NEW e \in open[m], e.order = o PROVE EntryOK(m, e)'
    <2>1. CASE cur[c].key = "local" /\ e.key = "local"
      <3>1. e = cur[c]
            BY <1>3, <1>4, <1>8, <2>1 DEF Dict
      <3>2. Leaving(m, e)'
            BY <1>5, <3>1 DEF Leaving
      <3>3. QED
            BY <1>1, <1>4, <1>8, <3>2 DEF EntryOK, Truth, Kind, requests
    <2>2. CASE e.key # "local"
          BY <1>1, <1>4, <1>8, <2>2 DEF EntryOK, Truth, Kind, requests
    <2>3. CASE cur[c].key # "local"
          BY <1>1, <1>2, <1>3, <1>6, <1>8, <2>3, EntryStays DEF requests
    <2>4. QED
          BY <2>1, <2>2, <2>3
  <1>9. OrderOK(o)'
    <2>1. crashes' = 0 /\ row'[o] \in OpenRows => Tracked(o)' \/ o \in cut'
          BY <1>1, <1>3, <1>6, TrackStays DEF Tracked, requests, World, OpenRows
    <2>2. Truth(o) => venue[o] = "cancelled"
          BY <1>1, <1>3, <1>4 DEF ClientOK
    <2>3. QED
          BY <1>1, <1>4, <1>6, <2>1, <2>2 DEF OrderOK, Truth, Kind, requests, World
  <1>10. Data' /\ Goes(c)
        BY <1>1, <1>4, <1>6 DEF Data, Goes, ClientPoints, requests, sync, World
  <1>11. QED
        BY <1>1, <1>2, <1>3, <1>4, <1>6, <1>7, <1>8, <1>9, <1>10, ClientFrame
           DEF Dict, requests, sync, World

\* The entry that leaves is the only one under its key: the others keep their rows.
LEMMA CancelDropKeeps ==
    ASSUME IInv, NEW c \in Clients, CancelDrop(c) PROVE IInv'
  <1>1. /\ pc[c] = "dropped" /\ Release(c, "dropped")
        /\ UNCHANGED <<row, requests, sync, venue, World>>
        BY DEF CancelDrop, Release
  <1>2. PICK m \in Managers : mgr[c] = m
        BY <1>1, ClientFacts
  <1>3. PICK o \in Orders : cur[c].order = o
        BY <1>1, ClientFacts
  <1>4. PICK g \in Entry : cur[c] = g
        BY <1>1, ClientFacts
  <1>5. /\ Lock /\ Data /\ Dict /\ ClientOK(c) /\ c \in Coroutines /\ OrderOK(o)
        /\ g \in open[m] /\ g.order = o /\ by[o] = m
        /\ \A e \in open[m] : e.order = o => EntryOK(m, e) /\ (Leaving(m, e) => e = g)
        BY <1>1, <1>2, <1>3, <1>4, ClientFacts DEF ClientOK
  <1>6. /\ events' = events \cup {Event(o, g.key, "cancelled")}
        /\ open' = [open EXCEPT ![m] = @ \ {g}]
        BY <1>2, <1>3, <1>4 DEF CancelDrop, Record
  <1>7. /\ open'[m] = open[m] \ {g}
        /\ \A n \in Managers \ {m} : open'[n] = open[n]
        BY <1>5, <1>6 DEF Data
  <1>8. pc'[c] = "idle"
        BY <1>1, <1>5, ReleaseMoves DEF Points
  <1>9. ASSUME NEW e \in open'[m], e.order = o PROVE EntryOK(m, e)'
        BY <1>1, <1>5, <1>7, <1>9 DEF EntryOK, Truth, Kind, requests
  <1>10. OrderOK(o)'
    <2>1. ASSUME crashes = 0, row[o] \in OpenRows PROVE Tracked(o)' \/ o \in cut
      <3>1. ASSUME Tracked(o) PROVE Tracked(o)'
        <4>1. PICK e \in open[m] : e.order = o /\ e.key = "local"
              BY <1>5, <3>1 DEF Tracked
        <4>2. e # g
              BY <1>1, <1>3, <1>4, <1>5, <2>1, <4>1 DEF ClientOK, OpenRows
        <4>3. QED
              BY <1>1, <1>5, <1>7, <3>1, <4>1, <4>2 DEF Tracked, requests
      <3>2. QED
            BY <1>1, <1>3, <2>1, <3>1, TrackStays
    <2>2. QED
          BY <1>1, <1>5, <1>6, <2>1 DEF OrderOK, Truth, Kind, requests, World
  <1>11. Data'
    <2>1. events' \subseteq Orders \X Ids \X EventTypes
          BY <1>5, <1>6 DEF Data, Event, Ids, EventTypes, Entry
    <2>2. open' \in [Managers -> SUBSET Entry]
          BY <1>5, <1>6 DEF Data
    <2>3. QED
          BY <1>1, <1>5, <2>1, <2>2 DEF Data, requests, sync, World
  <1>12. QED
    <2>1. /\ \A e \in Entry : e.order # o => (e \in open'[m] <=> e \in open[m])
          /\ \A e, f \in open'[m] : e.order = o /\ f.order = o /\ e.key = f.key => e = f
          /\ events \subseteq events'
          BY <1>5, <1>6, <1>7 DEF Dict
    <2>2. Goes(c)
          BY <1>1 DEF Goes
    <2>3. QED
          BY <1>1, <1>2, <1>3, <1>7, <1>8, <1>9, <1>10, <1>11, <2>1, <2>2, ClientFrame
             DEF requests, sync, World

-----------------------------------------------------------------------------
(* A write that fails *)

\* A write that fails leaves an open row without an entry only when it was the event between
\* the two (cut), and an entry with a cancelled row only in a bare manager.
LEMMA WriteFailsKeeps ==
    ASSUME IInv, NEW c \in Clients, WriteFails(c) PROVE IInv'
  <1>1. /\ pc[c] \in WritePoints /\ pc[c] # "idle" /\ mgr[c] \notin Wired
        /\ Release(c, pc[c])
        /\ cuts < MaxCuts /\ cuts' = cuts + 1
        /\ UNCHANGED <<row, events, requests, open, sync, venue, active, setting, crashes>>
        BY DEF WriteFails, WritePoints, db
  <1>2. PICK m \in Managers : mgr[c] = m
        BY <1>1, ClientFacts
  <1>3. PICK o \in Orders : cur[c].order = o
        BY <1>1, ClientFacts
  <1>4. /\ Lock /\ Data /\ Dict /\ ClientOK(c) /\ c \in Coroutines /\ OrderOK(o)
        /\ \A e \in open[m] : e.order = o => EntryOK(m, e) /\ (Leaving(m, e) => e = cur[c])
        BY <1>1, <1>2, <1>3, ClientFacts
  <1>5. pc'[c] = "idle"
        BY <1>1, <1>4, ReleaseMoves DEF Lock
  <1>6. /\ cut' = IF pc[c] = "track" THEN cut \cup {o} ELSE cut
        BY <1>3 DEF WriteFails
  <1>7. \A e \in open[m] : e.order = o => EntryOK(m, e)'
    <2>1. CASE pc[c] # "dropped"
          BY <1>1, <1>2, <1>3, <2>1, EntryStays DEF requests
    <2>2. CASE pc[c] = "dropped"
          BY <1>1, <1>2, <1>3, <1>4, <2>2 DEF ClientOK, EntryOK, Truth, Kind, requests
    <2>3. QED
          BY <2>1, <2>2
  <1>8. OrderOK(o)'
    <2>1. crashes' = 0 /\ row'[o] \in OpenRows => Tracked(o)' \/ o \in cut'
          BY <1>1, <1>3, <1>6, TrackStays DEF Tracked, requests
    <2>2. QED
          BY <1>1, <1>4, <2>1 DEF OrderOK, Truth, Kind, requests
  <1>9. Data'
    <2>1. cuts' \in 0 .. MaxCuts
          BY <1>1, <1>4, ManagerAssumption DEF Data
    <2>2. QED
          BY <1>1, <1>4, <1>6, <2>1 DEF Data, requests, sync
  <1>10. QED
    <2>1. Goes(c) /\ cut \subseteq cut'
          BY <1>1, <1>6 DEF Goes
    <2>2. QED
          BY <1>1, <1>2, <1>3, <1>4, <1>5, <1>7, <1>8, <1>9, <2>1, ClientFrame
             DEF Dict, requests, sync

\* Every step of a client keeps the invariant.
LEMMA ClientStepKeeps ==
    ASSUME IInv, NEW c \in Clients, ClientStep(c) PROVE IInv'
  BY SubmitAllowedKeeps, SubmitBlockedKeeps, SubmitInsertKeeps, SubmitCreatedKeeps, PlaceKeeps,
     SubmitRecordKeeps, SubmitTrackKeeps, SubmitCoolKeeps, RejectRowKeeps, RejectEventKeeps,
     CancelAskKeeps, CancelRowKeeps, CancelDropKeeps, WriteFailsKeeps
     DEF ClientStep

-----------------------------------------------------------------------------
(* A client enters the lock *)

LEMMA AcquireMoves ==
    ASSUME Lock, NEW c \in Coroutines, NEW m \in Managers, NEW e \in Entry \cup {NoEntry},
           NEW to \in Points \ {"idle"}, Acquire(c, m, e, to)
    PROVE  /\ Lock' /\ pc[c] = "idle"
           /\ pc'[c] = to /\ cur'[c] = e /\ mgr'[c] = m
           /\ \A d \in Coroutines : mgr[d] # m
           /\ \A d \in Coroutines \ {c} :
                  pc'[d] = pc[d] /\ cur'[d] = cur[d] /\ mgr'[d] = mgr[d]
  <1>1. /\ pc[c] = "idle" /\ holder[m] = None
        /\ pc' = [pc EXCEPT ![c] = to]
        /\ mgr' = [mgr EXCEPT ![c] = m]
        /\ cur' = [cur EXCEPT ![c] = e]
        BY DEF Acquire
  <1>2. Lock'
        BY AcquireLock
  <1>3. \A d \in Coroutines : mgr[d] # m
        BY <1>1, Nobody DEF Lock
  <1>4. QED
        BY <1>1, <1>2, <1>3 DEF Lock

\* The lock is free: m's sync is not running.
LEMMA StartFacts ==
    ASSUME IInv, NEW c \in Clients, NEW m \in Managers, NEW e \in Entry,
           NEW to \in ClientPoints, Acquire(c, m, e, to)
    PROVE  /\ Lock /\ Data /\ Roles /\ Belongs /\ Dict /\ Lock'
           /\ pc[c] = "idle" /\ cur[c] = NoEntry
           /\ c \in Coroutines /\ c \notin Wired
           /\ pc'[c] = to /\ cur'[c] = e /\ mgr'[c] = m
           /\ \A d \in Coroutines : mgr[d] # m
           /\ \A d \in Coroutines \ {c} :
                  pc'[d] = pc[d] /\ cur'[d] = cur[d] /\ mgr'[d] = mgr[d]
           /\ m \in Wired => pc[m] = "idle" /\ pc'[m] = "idle" /\ batch[m] = {}
  <1>1. /\ Lock /\ Data /\ Roles /\ Belongs /\ Dict /\ c \in Coroutines /\ c \notin Wired
        /\ to \in Points \ {"idle"}
        BY TypeParts, Nobody DEF IInv, Coroutines, ClientPoints, Points
  <1>2. /\ Lock' /\ pc[c] = "idle"
        /\ pc'[c] = to /\ cur'[c] = e /\ mgr'[c] = m
        /\ \A d \in Coroutines : mgr[d] # m
        /\ \A d \in Coroutines \ {c} :
               pc'[d] = pc[d] /\ cur'[d] = cur[d] /\ mgr'[d] = mgr[d]
        BY <1>1, AcquireMoves
  <1>3. cur[c] = NoEntry
        BY <1>1, <1>2 DEF Roles
  <1>4. ASSUME m \in Wired PROVE pc[m] = "idle" /\ pc'[m] = "idle" /\ batch[m] = {}
    <2>1. m \in Coroutines \ {c} /\ mgr[m] = None
          BY <1>1, <1>2, <1>4 DEF Roles, Coroutines
    <2>2. pc[m] = "idle"
          BY <1>1, <2>1 DEF Lock
    <2>3. QED
          BY <1>2, <1>4, <2>1, <2>2 DEF IInv, SyncOK
  <1>5. QED
        BY <1>1, <1>2, <1>3, <1>4

\* An order nobody asked to submit is unknown to everybody.
LEMMA SubmitStartKeeps ==
    ASSUME IInv, NEW c \in Clients, NEW m \in Managers, NEW o \in Orders, SubmitStart(c, m, o)
    PROVE  IInv'
  <1> DEFINE to == IF m \in Wired THEN "check" ELSE "insert"
  <1>1. /\ by[o] = None
        /\ Acquire(c, m, Fresh(o), to)
        /\ by' = [by EXCEPT ![o] = m]
        /\ exch' = [exch EXCEPT ![o] = active[m]]
        /\ UNCHANGED <<row, events, open, sync, venue, World>>
        BY DEF SubmitStart, db
  <1>2. Fresh(o) \in Entry /\ to \in ClientPoints /\ to \in {"check", "insert"}
        BY DEF Fresh, Entry, Ids, ClientPoints
  <1> HIDE DEF to
  <1>3. /\ Lock /\ Data /\ Roles /\ Belongs /\ Dict /\ Lock'
        /\ pc[c] = "idle" /\ cur[c] = NoEntry
        /\ c \in Coroutines /\ c \notin Wired
        /\ pc'[c] = to /\ cur'[c] = Fresh(o) /\ mgr'[c] = m
        /\ \A d \in Coroutines : mgr[d] # m
        /\ \A d \in Coroutines \ {c} :
               pc'[d] = pc[d] /\ cur'[d] = cur[d] /\ mgr'[d] = mgr[d]
        /\ m \in Wired => pc[m] = "idle" /\ pc'[m] = "idle" /\ batch[m] = {}
        BY <1>1, <1>2, StartFacts
  <1>4. /\ by' \in [Orders -> Managers \cup {None}] /\ by'[o] = m
        /\ exch' \in [Orders -> Exchanges \cup {None}]
        /\ \A p \in Orders \ {o} : by'[p] = by[p] /\ exch'[p] = exch[p]
        BY <1>1, <1>3 DEF Data
  <1>5. Data'
        BY <1>1, <1>3, <1>4 DEF Data, sync, World
  <1>6. /\ row[o] = "none" /\ venue[o] = "none"
        /\ \A n \in Managers : \A e \in open[n] : e.order # o
    <2>1. OrderOK(o)
          BY DEF IInv
    <2>2. QED
          BY <1>1, <1>3, <2>1, Nobody DEF OrderOK, Belongs
  <1>7. Moves(c, m)
        BY <1>2, <1>3, <1>4 DEF Moves, Fresh
  <1>8. Touches({o}, m)
        BY <1>1, <1>4, <1>5 DEF Touches, sync, World
  <1>9. /\ TypeOK' /\ Roles' /\ Belongs'
        /\ \A d \in Clients \ {c} : ClientOK(d)'
        /\ \A n \in Wired \ {m} : SyncOK(n)'
        /\ \A n \in Managers : \A e \in open'[n] : n # m \/ e.order # o => EntryOK(n, e)'
        /\ \A p \in Orders \ {o} : OrderOK(p)'
        BY <1>3, <1>7, <1>8, Frame
  <1>10. ClientOK(c)'
        BY <1>1, <1>2, <1>3, <1>6 DEF ClientOK, Early, Fresh
  <1>11. \A e \in open'[m] : e.order # o
        BY <1>1, <1>6
  <1>12. Dict'
        BY <1>1, <1>3 DEF Dict
  <1>13. ASSUME m \in Wired PROVE SyncOK(m)'
        BY <1>1, <1>3, <1>13 DEF SyncOK, sync
  <1>14. OrderOK(o)'
        BY <1>1, <1>4, <1>6, Nobody DEF OrderOK, OpenRows
  <1>15. QED
        BY <1>9, <1>10, <1>11, <1>12, <1>13, <1>14 DEF IInv

\* The order of an entry belongs to the manager that has it; nothing else is known of it.
LEMMA CancelStartKeeps ==
    ASSUME IInv, NEW c \in Clients, NEW m \in Managers, NEW e \in open[m], CancelStart(c, m, e)
    PROVE  IInv'
  <1>1. /\ Acquire(c, m, e, "cancel")
        /\ UNCHANGED <<row, events, requests, open, sync, venue, World>>
        BY DEF CancelStart, db
  <1>2. e \in Entry /\ "cancel" \in ClientPoints
        BY TypeParts DEF IInv, Data, ClientPoints
  <1>3. /\ Lock /\ Data /\ Roles /\ Belongs /\ Dict /\ Lock'
        /\ pc[c] = "idle" /\ cur[c] = NoEntry
        /\ c \in Coroutines /\ c \notin Wired
        /\ pc'[c] = "cancel" /\ cur'[c] = e /\ mgr'[c] = m
        /\ \A d \in Coroutines : mgr[d] # m
        /\ \A d \in Coroutines \ {c} :
               pc'[d] = pc[d] /\ cur'[d] = cur[d] /\ mgr'[d] = mgr[d]
        /\ m \in Wired => pc[m] = "idle" /\ pc'[m] = "idle" /\ batch[m] = {}
        BY <1>1, <1>2, StartFacts
  <1>4. by[e.order] = m
        BY <1>3 DEF Belongs
  <1>5. Data'
        BY <1>1, <1>3 DEF Data, requests, sync, World
  <1>6. Moves(c, m)
        BY <1>1, <1>2, <1>3, <1>4 DEF Moves, requests
  <1>7. Touches({}, m)
        BY <1>1, <1>5 DEF Touches, requests, sync, World
  <1>8. /\ TypeOK' /\ Roles' /\ Belongs'
        /\ \A d \in Clients \ {c} : ClientOK(d)'
        /\ \A n \in Wired \ {m} : SyncOK(n)'
        /\ \A n \in Managers : \A f \in open'[n] : EntryOK(n, f)'
        /\ \A p \in Orders : OrderOK(p)'
        BY <1>3, <1>6, <1>7, Frame
  <1>9. ClientOK(c)'
        BY <1>1, <1>3 DEF ClientOK, Early
  <1>10. Dict'
        BY <1>1, <1>3 DEF Dict
  <1>11. ASSUME m \in Wired PROVE SyncOK(m)'
        BY <1>1, <1>3, <1>11 DEF SyncOK, sync
  <1>12. QED
        BY <1>8, <1>9, <1>10, <1>11 DEF IInv

-----------------------------------------------------------------------------
(* The sync loop *)

\* While the sync of m runs, no client works on an order of m, and no entry of m is leaving
\* but the one the sync has found to be over.
LEMMA SyncFacts ==
    ASSUME IInv, NEW m \in Wired, pc[m] # "idle"
    PROVE  /\ Lock /\ Data /\ Roles /\ Belongs /\ Dict /\ SyncOK(m)
           /\ m \in Managers /\ m \in Coroutines /\ m \notin Clients
           /\ mgr[m] = m
           /\ \A d \in Coroutines \ {m} : mgr[d] # m
           /\ \A e \in open[m] \cup batch[m] : e \in Entry /\ e.order \in Orders /\ by[e.order] = m
           /\ cur[m] # NoEntry => cur[m] \in Entry /\ cur[m].order \in Orders
                                  /\ by[cur[m].order] = m
           /\ \A d \in Clients : cur[d] # NoEntry => by[cur[d].order] # m
           /\ \A e \in open[m] : /\ EntryOK(m, e)
                                 /\ Leaving(m, e) => /\ pc[m] = "forget" /\ cur[m].id = "local"
                                                     /\ cur[m].order = e.order
  <1>1. /\ Lock /\ Data /\ Roles /\ Belongs /\ Dict /\ SyncOK(m)
        /\ m \in Managers /\ m \in Coroutines /\ m \notin Clients
        BY TypeParts, Nobody DEF IInv, Coroutines
  <1>2. mgr[m] = m
        BY <1>1 DEF Lock, Roles
  <1>3. \A d \in Coroutines \ {m} : mgr[d] # m
        BY <1>1, <1>2 DEF Lock
  <1>4. \A e \in open[m] \cup batch[m] : e \in Entry /\ e.order \in Orders /\ by[e.order] = m
        BY <1>1, Nobody DEF Data, Belongs
  <1>5. cur[m] # NoEntry => cur[m] \in Entry /\ cur[m].order \in Orders /\ by[cur[m].order] = m
        BY <1>1, <1>2, Nobody DEF Lock, Belongs
  <1>6. \A d \in Clients : cur[d] # NoEntry => by[cur[d].order] # m
        BY <1>1, <1>3 DEF Belongs, Coroutines
  <1>7. ASSUME NEW e \in open[m], Leaving(m, e)
        PROVE  pc[m] = "forget" /\ cur[m].id = "local" /\ cur[m].order = e.order
    <2>1. ASSUME NEW d \in Clients, pc[d] = "dropped", cur[d] = e PROVE FALSE
          BY <1>4, <1>6, <1>7, <2>1, Nobody
    <2>2. QED
          BY <1>7, <2>1 DEF Leaving
  <1>8. \A e \in open[m] : EntryOK(m, e)
        BY <1>1 DEF IInv
  <1>9. QED
        BY <1>1, <1>2, <1>3, <1>4, <1>5, <1>6, <1>7, <1>8

\* What is left to show of a step of m's sync that changes the orders P.
LEMMA SyncFrame ==
    ASSUME IInv, NEW m \in Wired, NEW P \in SUBSET Orders,
           Lock', \A d \in Coroutines \ {m} : /\ mgr[d] # m
                                              /\ pc'[d] = pc[d] /\ cur'[d] = cur[d]
                                              /\ mgr'[d] = mgr[d],
           pc'[m] = "idle" => cur'[m] = NoEntry,
           cur'[m] # NoEntry => mgr'[m] = m /\ by'[cur'[m].order] = m,
           pc'[m] \in SyncPoints \cup {"idle"}, mgr'[m] \in {m, None},
           pc'[m] \in {"forget", "refresh"} => cur'[m] \in Entry,
           pc[m] = "forget" => cur[m].order \in P,
           Touches(P, m), SyncOK(m)',
           \A e, f \in open'[m] : e.order \in P /\ e.order = f.order /\ e.key = f.key => e = f,
           \A e \in open'[m] : e.order \in P => EntryOK(m, e)',
           \A p \in P : OrderOK(p)'
    PROVE  IInv'
  <1>1. /\ m \in Managers /\ m \in Coroutines /\ m \notin Clients /\ Dict /\ Data
        BY TypeParts, Nobody DEF IInv, Coroutines
  <1>2. Moves(m, m)
        BY <1>1 DEF Moves
  <1>3. /\ TypeOK' /\ Roles' /\ Belongs'
        /\ \A d \in Clients \ {m} : ClientOK(d)'
        /\ \A n \in Wired \ {m} : SyncOK(n)'
        /\ \A n \in Managers : \A e \in open'[n] : n # m \/ e.order \notin P => EntryOK(n, e)'
        /\ \A p \in Orders \ P : OrderOK(p)'
        BY <1>1, <1>2, Frame
  <1>4. Dict'
    <2> SUFFICES ASSUME NEW n \in Managers, NEW e \in open'[n], NEW f \in open'[n],
                        e.order = f.order, e.key = f.key
                 PROVE  e = f
        BY DEF Dict
    <2>1. CASE n # m
          BY <1>1, <2>1 DEF Dict, Touches
    <2>2. CASE n = m /\ e.order \notin P
      <3>1. e \in Entry /\ f \in Entry
            BY <1>1 DEF Touches, Data
      <3>2. e \in open[m] /\ f \in open[m]
            BY <1>1, <2>2, <3>1 DEF Touches
      <3>3. QED
            BY <1>1, <3>2 DEF Dict
    <2>3. CASE n = m /\ e.order \in P
          BY <2>3
    <2>4. QED
          BY <2>1, <2>2, <2>3
  <1>5. QED
        BY <1>1, <1>3, <1>4 DEF IInv

\* An entry of a wired manager under the UUID has a row that is open: there is something
\* to compare.
LEMMA SyncStartKeeps ==
    ASSUME IInv, NEW m \in Wired, SyncStart(m) PROVE IInv'
  <1>1. /\ Acquire(m, m, NoEntry, "fetch")
        /\ batch' = [batch EXCEPT ![m] = {e \in open[m] : e.live /\ exch[e.order] = active[m]}]
        /\ asked' = [asked EXCEPT ![m] = active[m]]
        /\ UNCHANGED <<row, events, requests, open, listing, venue, World>>
        BY DEF SyncStart, db
  <1>2. /\ Lock /\ Data /\ Belongs /\ Dict /\ m \in Coroutines /\ m \in Managers
        BY TypeParts, Nobody DEF IInv, Coroutines
  <1>3. /\ Lock' /\ pc[m] = "idle"
        /\ pc'[m] = "fetch" /\ cur'[m] = NoEntry /\ mgr'[m] = m
        /\ \A d \in Coroutines : mgr[d] # m
        /\ \A d \in Coroutines \ {m} :
               pc'[d] = pc[d] /\ cur'[d] = cur[d] /\ mgr'[d] = mgr[d]
        BY <1>1, <1>2, AcquireMoves DEF Points
  <1>4. /\ batch'[m] = {e \in open[m] : e.live /\ exch[e.order] = active[m]}
        /\ asked'[m] = active[m] /\ active[m] \in Exchanges
        /\ \A n \in Managers \ {m} : batch'[n] = batch[n] /\ asked'[n] = asked[n]
        BY <1>1, <1>2 DEF Data
  <1>5. Data'
    <2>1. batch' \in [Managers -> SUBSET Entry] /\ asked' \in [Managers -> Exchanges \cup {None}]
          BY <1>1, <1>2 DEF Data
    <2>2. QED
          BY <1>1, <1>2, <2>1 DEF Data, requests, World
  <1>6. Touches({}, m)
        BY <1>1, <1>4, <1>5 DEF Touches, requests, World
  <1>7. ASSUME NEW e \in open[m]
        PROVE  EntryOK(m, e) /\ (e.key = "local" => row[e.order] \in OpenRows)
    <2>1. EntryOK(m, e) /\ by[e.order] = m /\ e \in Entry
          BY <1>2 DEF IInv, Belongs, Data
    <2>2. ~Leaving(m, e)
      <3>1. ASSUME NEW d \in Clients, pc[d] = "dropped", cur[d] = e PROVE FALSE
            BY <1>2, <1>3, <2>1, <3>1, Nobody DEF Belongs, Coroutines
      <3>2. QED
            BY <1>3, <3>1 DEF Leaving
    <2>3. QED
          BY <2>1, <2>2 DEF EntryOK
  <1>8. SyncOK(m)'
    <2>1. \A e \in batch'[m] : /\ exch'[e.order] = asked'[m]
                               /\ e.id = "local" => row'[e.order] \in OpenRows
                               /\ Truth(e.order)' => venue'[e.order] # "none"
          BY <1>1, <1>4, <1>7 DEF EntryOK, Truth, Kind, requests
    <2>2. \A e, f \in batch'[m] :
             e.id = "local" /\ f.id = "local" /\ e.order = f.order => e = f
          BY <1>2, <1>4, <1>7 DEF EntryOK, Dict
    <2>3. QED
          BY <1>3, <1>4, <2>1, <2>2 DEF SyncOK
  <1>9. QED
        BY <1>3, <1>6, <1>8, SyncFrame DEF SyncPoints

\* An order of the exchange that was asked, live there and not listed, is not in the batch.
LEMMA SyncFetchKeeps ==
    ASSUME IInv, NEW m \in Wired, SyncFetch(m) PROVE IInv'
  <1>1. /\ pc[m] = "fetch" /\ Step(m, "fetch", "next")
        /\ UNCHANGED <<row, events, requests, open, batch, asked, venue, World>>
        BY DEF SyncFetch, Step, db
  <1>2. /\ Lock /\ Data /\ Roles /\ Belongs /\ SyncOK(m) /\ m \in Managers /\ m \in Coroutines
        /\ mgr[m] = m /\ \A d \in Coroutines \ {m} : mgr[d] # m
        /\ \A e \in batch[m] : e \in Entry /\ e.order \in Orders
        /\ cur[m] # NoEntry => by[cur[m].order] = m
        BY <1>1, SyncFacts
  <1>3. /\ Lock' /\ pc'[m] = "next" /\ cur'[m] = cur[m] /\ mgr'[m] = mgr[m]
        /\ \A d \in Coroutines \ {m} : pc'[d] = pc[d] /\ cur'[d] = cur[d] /\ mgr'[d] = mgr[d]
        BY <1>1, <1>2, StepMoves DEF Points
  <1>4. PICK l \in [Orders -> OpenRows \cup {"odd", "none"}] :
            /\ \/ \A o \in Orders : l[o] \in ListedStatuses(Api[asked[m]],
                                            IF exch[o] = asked[m] THEN venue[o] ELSE "none")
               \/ ListsErrorAsEmpty(Api[asked[m]]) /\ l = NoListing
            /\ listing' = [listing EXCEPT ![m] = l]
        BY DEF SyncFetch
  <1>5. /\ listing' \in [Managers -> [Orders -> OpenRows \cup {"odd", "none"}]]
        /\ listing'[m] = l
        /\ \A n \in Managers \ {m} : listing'[n] = listing[n]
        BY <1>2, <1>4 DEF Data
  <1>6. Data'
        BY <1>1, <1>2, <1>5 DEF Data, requests, World
  <1>7. Touches({}, m)
        BY <1>1, <1>5, <1>6 DEF Touches, requests, World
  <1>8. ASSUME NEW e \in batch[m], l[e.order] = "none", Truth(e.order)
        PROVE  venue[e.order] \notin Live
    <2>1. /\ exch[e.order] = asked[m] /\ asked[m] \in Exchanges /\ e.order \in Orders
          BY <1>1, <1>2 DEF SyncOK
    <2>2. Api[asked[m]] \in Kinds /\ ~ListsErrorAsEmpty(Api[asked[m]])
          BY <1>8, <2>1, ManagerAssumption DEF Truth, Kind, TellsTruth
    <2>3. "none" \in ListedStatuses(Api[asked[m]], venue[e.order])
          BY <1>4, <1>8, <2>1, <2>2
    <2>4. QED
          BY <2>2, <2>3, LiveIsListed
  <1>9. SyncOK(m)'
    <2>1. \A e \in batch'[m] : listing'[m][e.order] = "none" /\ Truth(e.order)'
                                  => venue'[e.order] \notin Live
          BY <1>1, <1>5, <1>8 DEF Truth, Kind, requests
    <2>2. QED
          BY <1>1, <1>2, <1>3, <2>1 DEF SyncOK, Truth, Kind, requests
  <1>10. QED
        BY <1>1, <1>2, <1>3, <1>7, <1>9, SyncFrame DEF SyncPoints, requests

\* A round that ends, or is ended, forgets its batch.
LEMMA SyncEndKeeps ==
    ASSUME IInv, NEW m \in Wired, NEW from \in {"fetch", "next"}, SyncAborts(m, from),
           UNCHANGED <<row, events, requests, open, venue, World>>
    PROVE  IInv'
  <1>1. /\ pc[m] = from /\ Release(m, from)
        /\ batch' = [batch EXCEPT ![m] = {}]
        /\ asked' = [asked EXCEPT ![m] = None]
        /\ listing' = [listing EXCEPT ![m] = NoListing]
        BY DEF SyncAborts, Release
  <1>2. /\ Lock /\ Data /\ m \in Managers /\ m \in Coroutines
        /\ \A d \in Coroutines \ {m} : mgr[d] # m
        BY <1>1, SyncFacts
  <1>3. /\ Lock' /\ pc'[m] = "idle" /\ cur'[m] = NoEntry /\ mgr'[m] = None
        /\ \A d \in Coroutines \ {m} : pc'[d] = pc[d] /\ cur'[d] = cur[d] /\ mgr'[d] = mgr[d]
        BY <1>1, <1>2, ReleaseMoves DEF Points
  <1>4. /\ batch' \in [Managers -> SUBSET Entry]
        /\ asked' \in [Managers -> Exchanges \cup {None}]
        /\ listing' \in [Managers -> [Orders -> OpenRows \cup {"odd", "none"}]]
        /\ batch'[m] = {}
        /\ \A n \in Managers \ {m} : /\ batch'[n] = batch[n] /\ asked'[n] = asked[n]
                                     /\ listing'[n] = listing[n]
        BY <1>1, <1>2 DEF Data, NoListing
  <1>5. Data'
        BY <1>2, <1>4 DEF Data, requests, World
  <1>6. Touches({}, m)
        BY <1>4, <1>5 DEF Touches, requests, World
  <1>7. SyncOK(m)'
        BY <1>3, <1>4 DEF SyncOK
  <1>8. QED
        BY <1>1, <1>2, <1>3, <1>6, <1>7, SyncFrame

LEMMA SyncFetchFailsKeeps ==
    ASSUME IInv, NEW m \in Wired, SyncFetchFails(m) PROVE IInv'
  BY SyncEndKeeps DEF SyncFetchFails, db

LEMMA SyncDoneKeeps ==
    ASSUME IInv, NEW m \in Wired, SyncDone(m) PROVE IInv'
  BY SyncEndKeeps DEF SyncDone, db

\* The loop takes an entry out of the batch and goes to work on it.
LEMMA TurnMoves ==
    ASSUME IInv, NEW m \in Wired, NEW e \in batch[m], NEW to \in {"forget", "refresh"},
           SyncTurn(m, e, to)
    PROVE  /\ pc[m] = "next" /\ Lock'
           /\ pc'[m] = to /\ cur'[m] = e /\ mgr'[m] = m
           /\ \A d \in Coroutines \ {m} :
                  pc'[d] = pc[d] /\ cur'[d] = cur[d] /\ mgr'[d] = mgr[d]
           /\ batch' \in [Managers -> SUBSET Entry]
           /\ batch'[m] = batch[m] \ {e}
           /\ \A n \in Managers \ {m} : batch'[n] = batch[n]
           /\ UNCHANGED <<asked, listing>>
  <1>1. /\ pc[m] = "next"
        /\ pc' = [pc EXCEPT ![m] = to]
        /\ cur' = [cur EXCEPT ![m] = e]
        /\ batch' = [batch EXCEPT ![m] = @ \ {e}]
        /\ UNCHANGED <<holder, mgr, asked, listing>>
        BY DEF SyncTurn
  <1>2. /\ Lock /\ Data /\ m \in Managers /\ m \in Coroutines /\ mgr[m] = m /\ e \in Entry
        BY <1>1, SyncFacts
  <1>3. cur' \in [Coroutines -> Entry \cup {NoEntry}]
        BY <1>1, <1>2 DEF Lock
  <1>4. to \in Points \ {"idle"}
        BY DEF Points
  <1>5. Lock'
        BY <1>1, <1>2, <1>3, <1>4, StepLock
  <1>6. QED
        BY <1>1, <1>2, <1>5 DEF Lock, Data

\* Not listed, so over: the row of an order that was open becomes "filled".
LEMMA SyncMissingKeeps ==
    ASSUME IInv, NEW m \in Wired, NEW e \in batch[m], SyncMissing(m, e) PROVE IInv'
  <1>1. /\ listing[m][e.order] = "none"
        /\ SyncTurn(m, e, "forget")
        /\ UNCHANGED <<events, requests, open, venue, World>>
        BY DEF SyncMissing
  <1>2. /\ pc[m] = "next" /\ Lock'
        /\ pc'[m] = "forget" /\ cur'[m] = e /\ mgr'[m] = m
        /\ \A d \in Coroutines \ {m} : pc'[d] = pc[d] /\ cur'[d] = cur[d] /\ mgr'[d] = mgr[d]
        /\ batch' \in [Managers -> SUBSET Entry]
        /\ batch'[m] = batch[m] \ {e}
        /\ \A n \in Managers \ {m} : batch'[n] = batch[n]
        /\ UNCHANGED <<asked, listing>>
        BY <1>1, TurnMoves
  <1>3. PICK o \in Orders : e.order = o
        BY <1>2, SyncFacts
  <1>4. /\ Data /\ Dict /\ SyncOK(m) /\ m \in Managers /\ m \notin Clients
        /\ \A d \in Coroutines \ {m} : mgr[d] # m
        /\ e \in Entry /\ by[o] = m /\ by[o] # None /\ OrderOK(o)
        /\ \A d \in Clients : cur[d].order # o
        /\ \A f \in open[m] : EntryOK(m, f) /\ ~Leaving(m, f)
    <2>1. \A d \in Clients : cur[d].order # o
          BY <1>2, <1>3, SyncFacts, Nobody
    <2>2. QED
          BY <1>2, <1>3, <2>1, SyncFacts, Nobody DEF IInv
  <1>5. /\ row' \in [Orders -> RowStatuses]
        /\ \A p \in Orders \ {o} : row'[p] = row[p]
        /\ e.id = "local" => row'[o] = "filled" /\ row[o] \in OpenRows
        /\ e.id # "local" => row' = row
    <2>1. row' = IF e.id = "local" THEN [row EXCEPT ![o] = "filled"] ELSE row
          BY <1>3 DEF SyncMissing, UpdateRow, SetRow
    <2>2. e.id = "local" => row[o] \in OpenRows
          BY <1>3, <1>4 DEF SyncOK
    <2>3. QED
          BY <1>4, <2>1, <2>2 DEF Data, RowStatuses
  <1>6. Truth(o) => venue[o] \in {"filled", "cancelled"}
        BY <1>1, <1>2, <1>3, <1>4 DEF SyncOK, Data, VenueStatuses, Live
  <1>7. Data'
        BY <1>1, <1>2, <1>4, <1>5 DEF Data, requests, World
  <1>8. Touches({o}, m)
        BY <1>1, <1>2, <1>4, <1>5, <1>7 DEF Touches, requests, World
  <1>9. SyncOK(m)'
    <2>1. ASSUME NEW f \in batch'[m], f.id = "local" PROVE row'[f.order] \in OpenRows
      <3>1. f \in batch[m] /\ f # e /\ f \in Entry /\ f.order \in Orders
            BY <1>2, <2>1, SyncFacts
      <3>2. row[f.order] \in OpenRows /\ (e.id = "local" => f.order # o)
            BY <1>3, <1>4, <2>1, <3>1 DEF SyncOK
      <3>3. QED
            BY <1>5, <3>1, <3>2
    <2>2. QED
          BY <1>1, <1>2, <1>3, <1>4, <1>5, <2>1 DEF SyncOK, Truth, Kind, requests
  <1>10. ASSUME NEW f \in open[m], f.order = o PROVE EntryOK(m, f)'
    <2>1. CASE e.id = "local"
      <3>1. Leaving(m, f)'
            BY <1>2, <1>3, <1>10, <2>1 DEF Leaving
      <3>2. QED
            BY <1>1, <1>4, <3>1 DEF EntryOK, Truth, Kind, requests
    <2>2. CASE e.id # "local"
          BY <1>1, <1>4, <1>5, <2>2 DEF EntryOK, Truth, Kind, requests
    <2>3. QED
          BY <2>1, <2>2
  <1>11. OrderOK(o)'
    <2>1. crashes' = 0 /\ row'[o] \in OpenRows => Tracked(o)' \/ o \in cut'
          BY <1>1, <1>4, <1>5 DEF OrderOK, Tracked, requests, World, OpenRows
    <2>2. QED
          BY <1>1, <1>4, <1>5, <1>6, <2>1 DEF OrderOK, Truth, Kind, requests, World, OpenRows
  <1>12. QED
        BY <1>1, <1>2, <1>3, <1>4, <1>8, <1>9, <1>10, <1>11, SyncFrame
           DEF Dict, SyncPoints, requests

\* Listed: whatever the sync knows of the entry goes with it to its next await.
LEMMA SyncSeenKeeps ==
    ASSUME IInv, NEW m \in Wired, NEW e \in batch[m], SyncSeen(m, e) PROVE IInv'
  <1>1. /\ listing[m][e.order] # "none"
        /\ SyncTurn(m, e, "refresh")
        /\ events' = events \/ events' = events \cup {Event(e.order, e.id, "partial_fill")}
        /\ UNCHANGED <<row, requests, open, venue, World>>
        BY DEF SyncSeen, Record
  <1>2. /\ pc[m] = "next" /\ Lock'
        /\ pc'[m] = "refresh" /\ cur'[m] = e /\ mgr'[m] = m
        /\ \A d \in Coroutines \ {m} : pc'[d] = pc[d] /\ cur'[d] = cur[d] /\ mgr'[d] = mgr[d]
        /\ batch' \in [Managers -> SUBSET Entry]
        /\ batch'[m] = batch[m] \ {e}
        /\ \A n \in Managers \ {m} : batch'[n] = batch[n]
        /\ UNCHANGED <<asked, listing>>
        BY <1>1, TurnMoves
  <1>3. /\ Data /\ SyncOK(m)
        /\ \A d \in Coroutines \ {m} : mgr[d] # m
        /\ e \in Entry /\ e.order \in Orders /\ by[e.order] = m
        BY <1>2, SyncFacts
  <1>4. Data'
    <2>1. events' \subseteq Orders \X Ids \X EventTypes /\ events \subseteq events'
          BY <1>1, <1>3 DEF Data, Event, Ids, EventTypes, Entry
    <2>2. QED
          BY <1>1, <1>2, <1>3, <2>1 DEF Data, requests, World
  <1>5. Touches({}, m)
        BY <1>1, <1>2, <1>4 DEF Touches, requests, World
  <1>6. SyncOK(m)'
        BY <1>1, <1>2, <1>3 DEF SyncOK, Truth, Kind, requests
  <1>7. QED
        BY <1>1, <1>2, <1>3, <1>5, <1>6, SyncFrame DEF SyncPoints, requests

\* The loop goes on, or an exception ends the round.
LEMMA OnOrOut ==
    ASSUME IInv, NEW m \in Wired, NEW from \in {"forget", "refresh"},
           \/ Step(m, from, "next") /\ UNCHANGED sync
           \/ SyncAborts(m, from)
    PROVE  /\ pc[m] = from /\ Lock'
           /\ \/ pc'[m] = "next" /\ cur'[m] = cur[m] /\ mgr'[m] = m
              \/ pc'[m] = "idle" /\ cur'[m] = NoEntry /\ mgr'[m] = None /\ batch'[m] = {}
           /\ \A d \in Coroutines \ {m} :
                  pc'[d] = pc[d] /\ cur'[d] = cur[d] /\ mgr'[d] = mgr[d]
           /\ batch' \in [Managers -> SUBSET Entry]
           /\ asked' \in [Managers -> Exchanges \cup {None}]
           /\ listing' \in [Managers -> [Orders -> OpenRows \cup {"odd", "none"}]]
           /\ pc'[m] = "next" => UNCHANGED <<batch, asked, listing>>
           /\ batch'[m] \subseteq batch[m]
           /\ \A n \in Managers \ {m} : /\ batch'[n] = batch[n] /\ asked'[n] = asked[n]
                                        /\ listing'[n] = listing[n]
  <1>1. pc[m] = from
        BY DEF Step, SyncAborts, Release
  <1>2. /\ Lock /\ Data /\ m \in Managers /\ m \in Coroutines /\ mgr[m] = m
        BY <1>1, SyncFacts
  <1>3. CASE Step(m, from, "next") /\ UNCHANGED sync
        BY <1>1, <1>2, <1>3, StepMoves DEF sync, Data, Points
  <1>4. CASE SyncAborts(m, from)
    <2>1. /\ Release(m, from)
          /\ batch' = [batch EXCEPT ![m] = {}]
          /\ asked' = [asked EXCEPT ![m] = None]
          /\ listing' = [listing EXCEPT ![m] = NoListing]
          BY <1>4 DEF SyncAborts
    <2>2. /\ Lock' /\ pc'[m] = "idle" /\ cur'[m] = NoEntry /\ mgr'[m] = None
          /\ \A d \in Coroutines \ {m} : pc'[d] = pc[d] /\ cur'[d] = cur[d] /\ mgr'[d] = mgr[d]
          BY <1>2, <2>1, ReleaseMoves DEF Points
    <2>3. /\ batch' \in [Managers -> SUBSET Entry]
          /\ asked' \in [Managers -> Exchanges \cup {None}]
          /\ listing' \in [Managers -> [Orders -> OpenRows \cup {"odd", "none"}]]
          /\ batch'[m] = {}
          /\ \A n \in Managers \ {m} : /\ batch'[n] = batch[n] /\ asked'[n] = asked[n]
                                       /\ listing'[n] = listing[n]
          BY <1>2, <2>1 DEF Data, NoListing
    <2>4. QED
          BY <1>1, <2>2, <2>3
  <1>5. QED
        BY <1>3, <1>4

\* The entry that leaves is the one under the id the batch knew: one that stays has an open row.
LEMMA SyncForgetKeeps ==
    ASSUME IInv, NEW m \in Wired, SyncForget(m) PROVE IInv'
  <1>1. /\ \/ Step(m, "forget", "next") /\ UNCHANGED sync
           \/ SyncAborts(m, "forget")
        /\ UNCHANGED <<row, requests, venue, World>>
        BY DEF SyncForget
  <1>2. /\ pc[m] = "forget" /\ Lock'
        /\ \/ pc'[m] = "next" /\ cur'[m] = cur[m] /\ mgr'[m] = m
           \/ pc'[m] = "idle" /\ cur'[m] = NoEntry /\ mgr'[m] = None /\ batch'[m] = {}
        /\ \A d \in Coroutines \ {m} : pc'[d] = pc[d] /\ cur'[d] = cur[d] /\ mgr'[d] = mgr[d]
        /\ batch' \in [Managers -> SUBSET Entry]
        /\ asked' \in [Managers -> Exchanges \cup {None}]
        /\ listing' \in [Managers -> [Orders -> OpenRows \cup {"odd", "none"}]]
        /\ pc'[m] = "next" => UNCHANGED <<batch, asked, listing>>
        /\ batch'[m] \subseteq batch[m]
        /\ \A n \in Managers \ {m} : /\ batch'[n] = batch[n] /\ asked'[n] = asked[n]
                                     /\ listing'[n] = listing[n]
        BY <1>1, OnOrOut
  <1>3. PICK g \in Entry : cur[m] = g
        BY <1>2, TypeParts, Nobody DEF IInv, Roles
  <1>4. PICK o \in Orders : g.order = o
        BY <1>3, Nobody
  <1>5. /\ Data /\ Dict /\ SyncOK(m) /\ m \in Managers
        /\ \A d \in Coroutines \ {m} : mgr[d] # m
        /\ g # NoEntry /\ by[o] = m /\ by[o] # None /\ OrderOK(o)
        /\ \A d \in Clients : cur[d].order # o
        /\ \A f \in open[m] : /\ EntryOK(m, f)
                              /\ Leaving(m, f) => g.id = "local" /\ o = f.order
    <2>1. g # NoEntry /\ by[o] = m
          BY <1>2, <1>3, <1>4, SyncFacts, Nobody
    <2>2. \A d \in Clients : cur[d].order # o
          BY <1>2, <2>1, SyncFacts, Nobody
    <2>3. QED
          BY <1>2, <1>3, <1>4, <2>1, <2>2, SyncFacts, Nobody DEF IInv
  <1>6. /\ events' = events \cup {Event(o, g.id, "filled")}
        /\ open' = [open EXCEPT ![m] = @ \ {e \in open[m] : e.order = o /\ e.key = g.id}]
        BY <1>3, <1>4 DEF SyncForget, Record
  <1>7. /\ open'[m] = {e \in open[m] : ~(e.order = o /\ e.key = g.id)}
        /\ \A n \in Managers \ {m} : open'[n] = open[n]
        BY <1>5, <1>6 DEF Data
  <1>8. Data'
    <2>1. events' \subseteq Orders \X Ids \X EventTypes
          BY <1>5, <1>6 DEF Data, Event, Ids, EventTypes, Entry
    <2>2. open' \in [Managers -> SUBSET Entry]
          BY <1>5, <1>6 DEF Data
    <2>3. QED
          BY <1>1, <1>2, <1>5, <2>1, <2>2 DEF Data, requests, World
  <1>9. Touches({o}, m)
    <2>1. \A e \in Entry : e.order # o => (e \in open'[m] <=> e \in open[m])
          BY <1>7
    <2>2. events \subseteq events'
          BY <1>6
    <2>3. QED
          BY <1>1, <1>2, <1>5, <1>7, <1>8, <2>1, <2>2 DEF Touches, requests, World
  <1>10. SyncOK(m)'
        BY <1>1, <1>2, <1>5 DEF SyncOK, Truth, Kind, requests
  <1>11. ASSUME NEW f \in open'[m], f.order = o PROVE EntryOK(m, f)'
    <2>1. f \in open[m] /\ f.key # g.id /\ EntryOK(m, f)
          BY <1>5, <1>7, <1>11
    <2>2. f.key = "local" => ~Leaving(m, f)
          BY <1>5, <2>1
    <2>3. QED
          BY <1>1, <2>1, <2>2 DEF EntryOK, Truth, Kind, requests
  <1>12. OrderOK(o)'
    <2>1. ASSUME crashes = 0, row[o] \in OpenRows PROVE Tracked(o)' \/ o \in cut
      <3>1. g.id # "local"
            BY <1>2, <1>3, <1>4, <1>5, <2>1 DEF SyncOK, OpenRows
      <3>2. Tracked(o) => Tracked(o)'
            BY <1>1, <1>5, <1>7, <3>1 DEF Tracked, requests
      <3>3. QED
            BY <1>5, <2>1, <3>2 DEF OrderOK
    <2>2. QED
          BY <1>1, <1>5, <1>6, <2>1 DEF OrderOK, Truth, Kind, requests, World
  <1>13. \A e, f \in open'[m] : e.order \in {o} /\ e.order = f.order /\ e.key = f.key => e = f
        BY <1>5, <1>7 DEF Dict
  <1>14. QED
        BY <1>1, <1>2, <1>3, <1>4, <1>5, <1>9, <1>10, <1>11, <1>12, <1>13, SyncFrame
           DEF SyncPoints, requests

\* The record that replaces an entry is stored under the entry's key, and the row of that key
\* takes its status, or stays open when the status cannot be stored.
LEMMA SyncRefreshKeeps ==
    ASSUME IInv, NEW m \in Wired, SyncRefresh(m) PROVE IInv'
  <1>1. /\ \/ Step(m, "refresh", "next") /\ UNCHANGED sync
           \/ SyncAborts(m, "refresh")
        /\ UNCHANGED <<events, requests, venue, World>>
        BY DEF SyncRefresh
  <1>2. /\ pc[m] = "refresh" /\ Lock'
        /\ \/ pc'[m] = "next" /\ cur'[m] = cur[m] /\ mgr'[m] = m
           \/ pc'[m] = "idle" /\ cur'[m] = NoEntry /\ mgr'[m] = None /\ batch'[m] = {}
        /\ \A d \in Coroutines \ {m} : pc'[d] = pc[d] /\ cur'[d] = cur[d] /\ mgr'[d] = mgr[d]
        /\ batch' \in [Managers -> SUBSET Entry]
        /\ asked' \in [Managers -> Exchanges \cup {None}]
        /\ listing' \in [Managers -> [Orders -> OpenRows \cup {"odd", "none"}]]
        /\ pc'[m] = "next" => UNCHANGED <<batch, asked, listing>>
        /\ batch'[m] \subseteq batch[m]
        /\ \A n \in Managers \ {m} : /\ batch'[n] = batch[n] /\ asked'[n] = asked[n]
                                     /\ listing'[n] = listing[n]
        BY <1>1, OnOrOut
  <1>3. PICK g \in Entry : cur[m] = g
        BY <1>2, TypeParts, Nobody DEF IInv, Roles
  <1>4. PICK o \in Orders : g.order = o
        BY <1>3, Nobody
  <1>5. /\ Data /\ Dict /\ SyncOK(m) /\ m \in Managers
        /\ \A d \in Coroutines \ {m} : mgr[d] # m
        /\ g # NoEntry /\ by[o] = m /\ by[o] # None /\ OrderOK(o)
        /\ \A d \in Clients : cur[d].order # o
        /\ \A f \in open[m] : EntryOK(m, f) /\ ~Leaving(m, f)
    <2>1. g # NoEntry /\ by[o] = m
          BY <1>2, <1>3, <1>4, SyncFacts, Nobody
    <2>2. \A d \in Clients : cur[d].order # o
          BY <1>2, <2>1, SyncFacts, Nobody
    <2>3. QED
          BY <1>2, <1>3, <1>4, <2>1, <2>2, SyncFacts, Nobody DEF IInv
  <1>6. PICK status \in OpenRows \cup {"odd"} : listing[m][o] = status
        BY <1>2, <1>3, <1>4, <1>5 DEF SyncOK, Data
  <1>7. PICK stored \in Entry : stored = [order |-> o, key |-> g.id, id |-> "venue",
                                         live |-> status # "odd"]
        BY DEF Entry, Ids
  <1>8. /\ open' = [open EXCEPT ![m] =
                       (@ \ {f \in open[m] : f.order = o /\ f.key = g.id}) \cup {stored}]
        /\ row' = IF status # "odd" /\ g.id = "local"
                  THEN [row EXCEPT ![o] = status] ELSE row
        BY <1>3, <1>4, <1>6, <1>7 DEF SyncRefresh, UpdateRow, SetRow
  <1>9. /\ open'[m] = {f \in open[m] : ~(f.order = o /\ f.key = g.id)} \cup {stored}
        /\ \A n \in Managers \ {m} : open'[n] = open[n]
        /\ stored.order = o /\ stored.key = g.id /\ stored.id = "venue"
        BY <1>5, <1>7, <1>8 DEF Data
  <1>10. /\ row' \in [Orders -> RowStatuses]
         /\ \A p \in Orders \ {o} : row'[p] = row[p]
         /\ g.id = "local" => row[o] \in OpenRows /\ row'[o] \in OpenRows
         /\ g.id # "local" => row' = row
    <2>1. g.id = "local" => row[o] \in OpenRows
          BY <1>2, <1>3, <1>4, <1>5 DEF SyncOK
    <2>2. QED
          BY <1>5, <1>6, <1>8, <2>1 DEF Data, RowStatuses, OpenRows
  <1>11. Data'
    <2>1. open' \in [Managers -> SUBSET Entry]
          BY <1>5, <1>8 DEF Data
    <2>2. QED
          BY <1>1, <1>2, <1>5, <1>10, <2>1 DEF Data, requests, World
  <1>12. Touches({o}, m)
    <2>1. \A e \in Entry : e.order # o => (e \in open'[m] <=> e \in open[m])
          BY <1>9
    <2>2. QED
          BY <1>1, <1>2, <1>5, <1>9, <1>10, <1>11, <2>1 DEF Touches, requests, World
  <1>13. SyncOK(m)'
    <2>1. ASSUME NEW f \in batch'[m], f.id = "local" PROVE row'[f.order] \in OpenRows
      <3>1. f \in batch[m] /\ f \in Entry /\ f.order \in Orders
            BY <1>2, <2>1, SyncFacts
      <3>2. row[f.order] \in OpenRows
            BY <1>5, <2>1, <3>1 DEF SyncOK
      <3>3. QED
            BY <1>10, <3>1, <3>2
    <2>2. QED
          BY <1>1, <1>2, <1>5, <2>1 DEF SyncOK, Truth, Kind, requests
  <1>14. ASSUME NEW f \in open'[m], f.order = o PROVE EntryOK(m, f)'
    <2>1. CASE f = stored
      <3>1. Truth(o)' => venue'[o] # "none"
            BY <1>1, <1>2, <1>3, <1>4, <1>5 DEF SyncOK, Truth, Kind, requests
      <3>2. f.key = "local" => row'[o] \in OpenRows
            BY <1>9, <1>10, <2>1
      <3>3. QED
            BY <1>9, <2>1, <3>1, <3>2 DEF EntryOK
    <2>2. CASE f # stored
      <3>1. f \in open[m] /\ f.key # g.id
            BY <1>9, <1>14, <2>2
      <3>2. f.key = "local" => row' = row
            BY <1>10, <3>1
      <3>3. EntryOK(m, f) /\ ~Leaving(m, f)
            BY <1>5, <3>1
      <3>4. QED
            BY <1>1, <3>2, <3>3 DEF EntryOK, Truth, Kind, requests
    <2>3. QED
          BY <2>1, <2>2
  <1>15. OrderOK(o)'
    <2>1. ASSUME crashes = 0, row'[o] \in OpenRows PROVE Tracked(o)' \/ o \in cut
      <3>1. CASE g.id = "local"
            BY <1>1, <1>5, <1>9, <3>1 DEF Tracked, requests
      <3>2. CASE g.id # "local"
        <4>1. Tracked(o) => Tracked(o)'
              BY <1>1, <1>5, <1>9, <3>2 DEF Tracked, requests
        <4>2. QED
              BY <1>5, <1>10, <2>1, <3>2, <4>1 DEF OrderOK
      <3>3. QED
            BY <3>1, <3>2
    <2>2. QED
          BY <1>1, <1>5, <1>10, <2>1 DEF OrderOK, Truth, Kind, requests, World, OpenRows
  <1>16. \A e, f \in open'[m] : e.order \in {o} /\ e.order = f.order /\ e.key = f.key => e = f
        BY <1>5, <1>9 DEF Dict
  <1>17. QED
        BY <1>1, <1>2, <1>3, <1>4, <1>5, <1>12, <1>13, <1>14, <1>15, <1>16, SyncFrame
           DEF SyncPoints, requests

\* Every step of a sync keeps the invariant.
LEMMA SyncStepKeeps ==
    ASSUME IInv, NEW m \in Wired, SyncStep(m) PROVE IInv'
  BY SyncStartKeeps, SyncFetchKeeps, SyncFetchFailsKeeps, SyncMissingKeeps, SyncSeenKeeps,
     SyncForgetKeeps, SyncRefreshKeeps, SyncDoneKeeps
     DEF SyncStep

-----------------------------------------------------------------------------
(* The environment *)

\* Only a live order moves, and it stays at the exchange: whatever is known of an order
\* that is not there, or over, remains true.
LEMMA VenueMovesKeeps ==
    ASSUME IInv, NEW o \in Orders, VenueMoves(o) PROVE IInv'
  <1>1. /\ venue[o] \in {"open", "partial"}
        /\ UNCHANGED <<row, events, by, exch, holder, pc, mgr, cur, open, batch, asked, listing,
                       active, setting, crashes, cuts, cut>>
        BY DEF VenueMoves, Live, db, requests, run, sync, World
  <1>2. Data
        BY TypeParts DEF IInv
  <1>3. PICK s \in {"partial", "filled", "cancelled"} : venue' = [venue EXCEPT ![o] = s]
        BY DEF VenueMoves
  <1>4. /\ venue' \in [Orders -> VenueStatuses]
        /\ venue'[o] \in {"partial", "filled", "cancelled"}
        /\ \A p \in Orders \ {o} : venue'[p] = venue[p]
        BY <1>2, <1>3 DEF Data, VenueStatuses
  <1>5. TypeOK' /\ Roles' /\ Belongs' /\ Dict'
        BY <1>1, <1>4 DEF IInv, TypeOK, Roles, Belongs, Dict
  <1>6. \A p : Truth(p)' <=> Truth(p)
        BY <1>1 DEF Truth, Kind
  <1>7. ASSUME NEW c \in Clients PROVE ClientOK(c)'
    <2>1. ClientOK(c) /\ (pc[c] # "idle" => cur[c].order \in Orders)
          BY ClientFacts DEF IInv
    <2>2. QED
          BY <1>1, <1>4, <1>6, <2>1 DEF ClientOK, Early, Fresh, Event
  <1>8. ASSUME NEW n \in Managers, NEW e \in open'[n] PROVE EntryOK(n, e)'
    <2>1. EntryOK(n, e) /\ e.order \in Orders
          BY <1>1, <1>2, <1>8, Nobody DEF IInv, Data
    <2>2. QED
          BY <1>1, <1>4, <1>6, <2>1 DEF EntryOK, Leaving
  <1>9. ASSUME NEW n \in Wired PROVE SyncOK(n)'
    <2>1. /\ SyncOK(n)
          /\ pc[n] # "idle" => /\ \A e \in batch[n] : e.order \in Orders
                               /\ cur[n] # NoEntry => cur[n].order \in Orders
          BY SyncFacts DEF IInv
    <2>2. pc[n] = "refresh" => cur[n].order \in Orders
          BY Nobody DEF IInv, Roles
    <2>3. QED
          BY <1>1, <1>4, <1>6, <2>1, <2>2 DEF SyncOK, Live
  <1>10. ASSUME NEW p \in Orders PROVE OrderOK(p)'
    <2>1. OrderOK(p)
          BY DEF IInv
    <2>2. QED
          BY <1>1, <1>4, <1>6, <2>1 DEF OrderOK, Tracked, Event
  <1>11. QED
        BY <1>5, <1>7, <1>8, <1>9, <1>10 DEF IInv

\* The choice of exchange is nothing the invariant speaks of.
LEMMA ChoiceKeeps ==
    ASSUME IInv, active' \in [Managers -> Exchanges], setting' \in Exchanges,
           UNCHANGED <<row, events, by, exch, holder, pc, mgr, cur, open, batch, asked, listing,
                       venue, crashes, cuts, cut>>
    PROVE  IInv'
  <1>1. TypeOK' /\ Roles' /\ Belongs' /\ Dict'
        BY DEF IInv, TypeOK, Roles, Belongs, Dict
  <1>2. \A p : Truth(p)' <=> Truth(p)
        BY DEF Truth, Kind
  <1>3. \A c \in Clients : ClientOK(c)'
        BY <1>2 DEF IInv, ClientOK, Early, Fresh, Event
  <1>4. \A n \in Managers : \A e \in open'[n] : EntryOK(n, e)'
        BY <1>2 DEF IInv, EntryOK, Leaving
  <1>5. \A n \in Wired : SyncOK(n)'
        BY <1>2 DEF IInv, SyncOK
  <1>6. \A p \in Orders : OrderOK(p)'
        BY <1>2 DEF IInv, OrderOK, Tracked, Event
  <1>7. QED
        BY <1>1, <1>3, <1>4, <1>5, <1>6 DEF IInv

LEMMA SwitchExchangeKeeps ==
    ASSUME IInv, NEW x \in Exchanges, SwitchExchange(x) PROVE IInv'
  <1>1. /\ setting' = x
        /\ active' = [m \in Managers |-> IF m \in Wired THEN x ELSE active[m]]
        /\ UNCHANGED <<row, events, by, exch, holder, pc, mgr, cur, open, batch, asked, listing,
                       venue, crashes, cuts, cut>>
        BY DEF SwitchExchange, db, requests, run, sync
  <1>2. active' \in [Managers -> Exchanges]
        BY <1>1 DEF IInv, TypeOK
  <1>3. QED
        BY <1>1, <1>2, ChoiceKeeps

\* Nobody is at work and nothing is tracked: what holds of the tables and the exchange is left.
LEMMA RestartKeeps ==
    ASSUME IInv, Restart PROVE IInv'
  <1>1. /\ crashes < MaxCrashes
        /\ crashes' = crashes + 1
        /\ holder' = [m \in Managers |-> None]
        /\ pc' = [c \in Coroutines |-> "idle"]
        /\ mgr' = [c \in Coroutines |-> None]
        /\ cur' = [c \in Coroutines |-> NoEntry]
        /\ open' = [m \in Managers |-> {}]
        /\ batch' = [m \in Managers |-> {}]
        /\ asked' = [m \in Managers |-> None]
        /\ listing' = [m \in Managers |-> NoListing]
        /\ active' = [m \in Managers |-> Home]
        /\ setting' = Home
        /\ UNCHANGED <<row, events, by, exch, venue, cuts, cut>>
        BY DEF Restart, db, requests
  <1>2. Data
        BY TypeParts DEF IInv
  <1>3. crashes' \in 0 .. MaxCrashes /\ crashes' # 0
        BY <1>1, <1>2, ManagerAssumption DEF Data
  <1>4. Data'
    <2>1. /\ open' \in [Managers -> SUBSET Entry]
          /\ batch' \in [Managers -> SUBSET Entry]
          /\ asked' \in [Managers -> Exchanges \cup {None}]
          /\ listing' \in [Managers -> [Orders -> OpenRows \cup {"odd", "none"}]]
          BY <1>1 DEF NoListing
    <2>2. active' \in [Managers -> Exchanges] /\ setting' \in Exchanges
          BY <1>1, ManagerAssumption
    <2>3. QED
          BY <1>1, <1>2, <1>3, <2>1, <2>2 DEF Data
  <1>5. Lock'
        BY <1>1, Nobody DEF Lock, Points
  <1>6. Roles' /\ Belongs' /\ Dict'
        BY <1>1, Nobody DEF Roles, Belongs, Dict, Coroutines
  <1>7. \A c \in Clients : ClientOK(c)'
        BY <1>1 DEF ClientOK, Early, Coroutines
  <1>8. \A n \in Managers : \A e \in open'[n] : EntryOK(n, e)'
        BY <1>1
  <1>9. \A n \in Wired : SyncOK(n)'
        BY <1>1, Nobody DEF SyncOK, Coroutines
  <1>10. \A p \in Orders : OrderOK(p)'
        BY <1>1, <1>3 DEF IInv, OrderOK, Truth, Kind, Event
  <1>11. TypeOK'
        BY <1>4, <1>5 DEF TypeOK, Lock, Data
  <1>12. QED
        BY <1>6, <1>7, <1>8, <1>9, <1>10, <1>11 DEF IInv

-----------------------------------------------------------------------------
(* The invariant and what follows from it *)

LEMMA InvariantHolds == Spec => []IInv
  <1>1. Init => IInv
    <2> SUFFICES ASSUME Init PROVE IInv
        OBVIOUS
    <2>1. Lock
          BY Nobody DEF Init, Lock, Points
    <2>2. Data
      <3>1. 0 \in 0 .. MaxCrashes /\ 0 \in 0 .. MaxCuts
            BY ManagerAssumption
      <3>2. listing \in [Managers -> [Orders -> OpenRows \cup {"odd", "none"}]]
            BY DEF Init
      <3>3. QED
            BY <3>1, <3>2, ManagerAssumption DEF Init, Data, RowStatuses, VenueStatuses
    <2>3. Roles /\ Belongs /\ Dict
          BY Nobody DEF Init, Roles, Belongs, Dict, Coroutines
    <2>4. \A c \in Clients : ClientOK(c)
          BY DEF Init, ClientOK, Early, Coroutines
    <2>5. \A n \in Wired : SyncOK(n)
          BY Nobody DEF Init, SyncOK, Coroutines
    <2>6. \A p \in Orders : OrderOK(p)
          BY DEF Init, OrderOK, OpenRows
    <2>7. \A n \in Managers : \A e \in open[n] : EntryOK(n, e)
          BY DEF Init
    <2>8. QED
          BY <2>1, <2>2, <2>3, <2>4, <2>5, <2>6, <2>7, TypeParts DEF IInv
  <1>2. IInv /\ [Next]_vars => IInv'
    <2> SUFFICES ASSUME IInv, [Next]_vars PROVE IInv'
        OBVIOUS
    <2>1. ASSUME NEW c \in Clients, ClientStart(c) PROVE IInv'
          BY <2>1, SubmitStartKeeps, CancelStartKeeps, ManagerAssumption DEF ClientStart
    <2>2. ASSUME NEW c \in Clients, ClientStep(c) PROVE IInv'
          BY <2>2, ClientStepKeeps
    <2>3. ASSUME NEW m \in Wired, SyncStep(m) PROVE IInv'
          BY <2>3, SyncStepKeeps
    <2>4. CASE Environment
          BY <2>4, VenueMovesKeeps, SwitchExchangeKeeps, RestartKeeps DEF Environment
    <2>5. CASE UNCHANGED vars
      <3>1. active \in [Managers -> Exchanges] /\ setting \in Exchanges
            BY DEF IInv, TypeOK
      <3>2. QED
            BY <2>5, <3>1, ChoiceKeeps DEF vars
    <2>6. QED
          BY <2>1, <2>2, <2>3, <2>4, <2>5 DEF Next
  <1>3. QED
        BY <1>1, <1>2, PTL DEF Spec

\* Every variable keeps to its values, and the lock of a manager is held exactly by a
\* coroutine suspended inside one of its operations.
THEOREM TypeCorrect == Spec => []TypeOK
  <1>1. IInv => TypeOK
        BY DEF IInv
  <1>2. QED
        BY <1>1, InvariantHolds, PTL

\* The write-ahead promise of submit_order: what is at an exchange is in the database, row
\* and "created" event, whatever fails or dies.
THEOREM WriteAhead == Spec => []Journaled
  <1>1. IInv => Journaled
        BY DEF IInv, OrderOK, Journaled
  <1>2. QED
        BY <1>1, InvariantHolds, PTL

\* A row the sync closes as "filled" is of an order that is over at its exchange, for any
\* exchanges, as long as the order's adapter tells the truth.
THEOREM FilledOrdersOver == Spec => []FilledIsOver
  <1>1. IInv => FilledIsOver
        BY DEF IInv, OrderOK, FilledIsOver, Truth
  <1>2. QED
        BY <1>1, InvariantHolds, PTL

\* A row that says "cancelled" was cancelled at the exchange, under the same condition.
THEOREM CancelledOrdersCancelled == Spec => []CancelledAtVenue
  <1>1. IInv => CancelledAtVenue
        BY DEF IInv, OrderOK, CancelledAtVenue, Truth
  <1>2. QED
        BY <1>1, InvariantHolds, PTL

\* Until the process dies, every order whose row is open can be cancelled by its UUID.
THEOREM OpenOrdersTracked == Spec => []OpenRowsTracked
  <1>1. IInv => OpenRowsTracked
        BY DEF IInv, OrderOK, OpenRowsTracked
  <1>2. QED
        BY <1>1, InvariantHolds, PTL

-----------------------------------------------------------------------------
(* The order lifecycle *)

\* Partly filled, or over, at the exchange.
Begun == {"partial", "filled", "cancelled"}

\* An entry that still carries the UUID has not been refreshed: the first refresh gives it the
\* exchange's id, and only a refresh makes a row "partially_filled".
Unrefreshed(e) == e.id = "local" => row[e.order] # "partially_filled"

\* What the lifecycle needs beyond IInv: a row is refreshed at most once, from a listing that
\* was true when it was fetched, and an exchange is named exactly with the request.
Once ==
    /\ \A o \in Orders : by[o] = None <=> exch[o] = None
    /\ \A m \in Managers : \A e \in open[m] \cup batch[m] : Unrefreshed(e)
    /\ \A m \in Wired : pc[m] = "refresh" =>
           /\ Unrefreshed(cur[m])
           /\ cur[m].id = "local" =>
                  \A e \in batch[m] : e.order = cur[m].order => e.id # "local"
    /\ \A m \in Managers : \A o \in Orders :
           listing[m][o] = "partially_filled" => venue[o] \in Begun

\* An adapter lists as partly filled only what is.
LEMMA PartlyIsListed ==
    ASSUME NEW kind \in Kinds, NEW state, "partially_filled" \in ListedStatuses(kind, state)
    PROVE  state = "partial"
  <1>1. "partially_filled" \in {Known(state), "odd"}
    <2>1. CASE kind = "binance"
          BY <2>1 DEF ListedStatuses, BinanceOpenOrders, BinanceStatus
    <2>2. CASE kind = "htx"
          BY <2>2 DEF ListedStatuses, HtxOpenOrders, HtxStatus
    <2>3. CASE kind = "bitget"
          BY <2>3 DEF ListedStatuses, BitgetOpenOrders, BitgetStatus
    <2>4. CASE kind = "hyperliquid"
          BY <2>4 DEF ListedStatuses, HyperliquidOpenOrders
    <2>5. QED
          BY <2>1, <2>2, <2>3, <2>4 DEF Kinds
  <1>2. QED
        BY <1>1 DEF Known

\* A step that makes no row partly filled, gives no sync a listing and none an entry to refresh.
LEMMA OnceFrame ==
    ASSUME TypeOK', Once,
           \A o \in Orders : by'[o] = None <=> exch'[o] = None,
           \A o \in Orders : row'[o] = "partially_filled" => row[o] = "partially_filled",
           \A o \in Orders : venue[o] \in Begun => venue'[o] \in Begun,
           \A m \in Managers : \A e \in open'[m] \cup batch'[m] :
               e \in open[m] \cup batch[m] \/ row'[e.order] # "partially_filled",
           \A m \in Managers : listing'[m] \in {listing[m], NoListing},
           \A m \in Wired : pc'[m] = "refresh" =>
               /\ pc[m] = "refresh" /\ cur'[m] = cur[m] /\ cur[m].order \in Orders
               /\ batch'[m] \subseteq batch[m]
    PROVE  Once'
  <1>1. ASSUME NEW m \in Managers, NEW e \in open'[m] \cup batch'[m] PROVE Unrefreshed(e)'
    <2>1. e.order \in Orders
          BY Nobody DEF TypeOK
    <2>2. QED
          BY <2>1 DEF Once, Unrefreshed
  <1>2. ASSUME NEW m \in Managers, NEW o \in Orders, listing'[m][o] = "partially_filled"
        PROVE  venue'[o] \in Begun
    <2>1. NoListing[o] # "partially_filled"
          BY DEF NoListing
    <2>2. QED
          BY <1>2, <2>1 DEF Once
  <1>3. ASSUME NEW m \in Wired, pc'[m] = "refresh"
        PROVE  /\ Unrefreshed(cur[m])'
               /\ cur'[m].id = "local" =>
                      \A e \in batch'[m] : e.order = cur'[m].order => e.id # "local"
        BY <1>3 DEF Once, Unrefreshed
  <1>4. QED
        BY <1>1, <1>2, <1>3 DEF Once

\* Clients leave the sync alone, and make no row partly filled.
LEMMA ClientOnce ==
    ASSUME IInv, IInv', Once, NEW c \in Clients, ClientStart(c) \/ ClientStep(c) PROVE Once'
  <1>1. /\ Lock /\ Data /\ TypeOK' /\ c \in Coroutines /\ c \notin Wired
        BY TypeParts, Nobody DEF IInv, Coroutines
  <1>2. UNCHANGED sync
        BY DEF ClientStart, ClientStep, SubmitStart, CancelStart, SubmitAllowed, SubmitBlocked,
               SubmitInsert, SubmitCreated, Place, SubmitRecord, SubmitTrack, SubmitCool, RejectRow,
               RejectEvent, CancelAsk, CancelRow, CancelDrop, WriteFails
  <1>3. ASSUME NEW m \in Wired PROVE pc'[m] = pc[m] /\ cur'[m] = cur[m]
    <2>1. m \in Coroutines \ {c}
          BY <1>1 DEF Coroutines
    <2>2. \/ \E n, e, to : Acquire(c, n, e, to)
          \/ \E from : Release(c, from)
          \/ \E from, to : Step(c, from, to)
      <3>1. CASE ClientStart(c)
            BY <3>1 DEF ClientStart, SubmitStart, CancelStart
      <3>2. CASE ClientStep(c)
            BY <3>2 DEF ClientStep, SubmitAllowed, SubmitBlocked, SubmitInsert, SubmitCreated,
                        Place, SubmitRecord, SubmitTrack, SubmitCool, RejectRow, RejectEvent,
                        CancelAsk, CancelRow, CancelDrop, WriteFails
      <3>3. QED
            BY <3>1, <3>2
    <2>3. (\E x : pc' = [pc EXCEPT ![c] = x]) /\ (cur' = cur \/ \E x : cur' = [cur EXCEPT ![c] = x])
          BY <2>2 DEF Acquire, Release, Step
    <2>4. QED
          BY <1>1, <2>1, <2>3 DEF Lock
  <1>4. ASSUME NEW m \in Wired, pc[m] = "refresh" PROVE cur[m].order \in Orders
        BY <1>4, Nobody DEF IInv, Roles
  <1>5. ASSUME NEW o \in Orders PROVE by'[o] = None <=> exch'[o] = None
    <2>1. ASSUME NEW m \in Managers, NEW p \in Orders, SubmitStart(c, m, p)
          PROVE  by'[o] = None <=> exch'[o] = None
          BY <1>1, <2>1, ManagerAssumption DEF SubmitStart, Data, Once
    <2>2. CASE UNCHANGED requests
          BY <2>2 DEF requests, Once
    <2>3. QED
          BY <2>1, <2>2 DEF ClientStart, ClientStep, CancelStart, SubmitAllowed, SubmitBlocked,
             SubmitInsert, SubmitCreated, Place, SubmitRecord, SubmitTrack, SubmitCool, RejectRow,
             RejectEvent, CancelAsk, CancelRow, CancelDrop, WriteFails
  <1>6. ASSUME NEW o \in Orders, row'[o] = "partially_filled" PROVE row[o] = "partially_filled"
    <2>1. \/ row' = row
          \/ \E p, s : s # "partially_filled" /\ row' = [row EXCEPT ![p] = s]
      <3>1. CASE ClientStart(c)
            BY <3>1 DEF ClientStart, SubmitStart, CancelStart, db
      <3>2. CASE SubmitInsert(c) \/ SubmitRecord(c) \/ RejectRow(c) \/ CancelRow(c)
            BY <3>2 DEF SubmitInsert, SubmitRecord, RejectRow, CancelRow, UpdateRow, SetRow
      <3>3. CASE ClientStep(c) /\ ~(SubmitInsert(c) \/ SubmitRecord(c) \/ RejectRow(c) \/ CancelRow(c))
            BY <3>3 DEF ClientStep, SubmitAllowed, SubmitBlocked, SubmitCreated, Place, SubmitTrack,
                        SubmitCool, RejectEvent, CancelAsk, CancelDrop, WriteFails, db
      <3>4. QED
            BY <3>1, <3>2, <3>3
    <2>2. QED
          BY <1>1, <1>6, <2>1 DEF Data
  <1>7. ASSUME NEW o \in Orders, venue[o] \in Begun PROVE venue'[o] \in Begun
    <2>1. CASE venue' = venue
          BY <1>7, <2>1
    <2>2. ASSUME NEW taken \in BOOLEAN, Place(c, taken) PROVE venue'[o] \in Begun
      <3>1. pc[c] = "place" /\ (venue' = venue \/ venue' = [venue EXCEPT ![cur[c].order] = "open"])
            BY <2>2 DEF Place
      <3>2. venue[cur[c].order] = "none"
            BY <3>1 DEF IInv, ClientOK
      <3>3. QED
            BY <1>1, <1>7, <3>1, <3>2 DEF Data, Begun
    <2>3. ASSUME NEW done \in BOOLEAN, CancelAsk(c, done) PROVE venue'[o] \in Begun
          BY <1>1, <1>7, <2>3 DEF CancelAsk, Data, Begun
    <2>4. QED
          BY <2>1, <2>2, <2>3 DEF ClientStart, ClientStep, SubmitStart, CancelStart, SubmitAllowed,
             SubmitBlocked, SubmitInsert, SubmitCreated, SubmitRecord, SubmitTrack, SubmitCool,
             RejectRow, RejectEvent, CancelRow, CancelDrop, WriteFails
  <1>8. ASSUME NEW m \in Managers, NEW e \in open'[m] \cup batch'[m]
        PROVE  e \in open[m] \cup batch[m] \/ row'[e.order] # "partially_filled"
    <2>1. CASE SubmitTrack(c)
      <3>1. /\ pc[c] = "track" /\ row' = row
            /\ open' = [open EXCEPT ![mgr[c]] = @ \cup {cur[c]}]
            BY <2>1 DEF SubmitTrack, Step, Release
      <3>2. row[cur[c].order] = "submitted"
            BY <3>1 DEF IInv, ClientOK
      <3>3. QED
            BY <1>1, <1>2, <3>1, <3>2 DEF Data, sync
    <2>2. CASE CancelDrop(c)
          BY <1>1, <1>2, <2>2 DEF CancelDrop, Data, sync
    <2>3. CASE UNCHANGED open
          BY <1>2, <2>3 DEF sync
    <2>4. QED
          BY <2>1, <2>2, <2>3 DEF ClientStart, ClientStep, SubmitStart, CancelStart, SubmitAllowed,
             SubmitBlocked, SubmitInsert, SubmitCreated, Place, SubmitRecord, SubmitCool,
             RejectRow, RejectEvent, CancelAsk, CancelRow, WriteFails
  <1>9. QED
        BY <1>1, <1>2, <1>3, <1>4, <1>5, <1>6, <1>7, <1>8, OnceFrame DEF sync

\* What a sync that is not idle, and a step of it, can do to the entries it is to refresh.
LEMMA SyncStartOnce ==
    ASSUME IInv, IInv', Once, NEW m \in Wired, SyncStart(m) PROVE Once'
  <1>1. /\ Lock /\ Data /\ TypeOK' /\ m \in Coroutines /\ m \in Managers
        BY TypeParts, Nobody DEF IInv, Coroutines
  <1>2. /\ pc' = [pc EXCEPT ![m] = "fetch"] /\ cur' = [cur EXCEPT ![m] = NoEntry]
        /\ UNCHANGED <<row, by, exch, open, listing, venue>>
        BY DEF SyncStart, Acquire, db, requests
  <1>3. batch' = [batch EXCEPT ![m] = {e \in open[m] : e.live /\ exch[e.order] = active[m]}]
        BY DEF SyncStart
  <1>4. \A n \in Managers : batch'[n] \subseteq open[n] \cup batch[n]
        BY <1>1, <1>3 DEF Data
  <1>5. ASSUME NEW n \in Wired, pc'[n] = "refresh"
        PROVE  /\ pc[n] = "refresh" /\ cur'[n] = cur[n] /\ cur[n].order \in Orders
               /\ batch'[n] \subseteq batch[n]
    <2>1. n \in Coroutines \ {m} /\ n \in Managers
          BY <1>1, <1>2, <1>5, Nobody DEF Lock, Coroutines
    <2>2. pc[n] = "refresh" /\ cur'[n] = cur[n] /\ batch'[n] = batch[n]
          BY <1>1, <1>2, <1>3, <1>5, <2>1 DEF Lock, Data
    <2>3. QED
          BY <2>2, Nobody DEF IInv, Roles
  <1>6. QED
        BY <1>1, <1>2, <1>4, <1>5, OnceFrame DEF Once

\* A listing shows as partly filled only what is, at the exchange that was asked.
LEMMA SyncFetchOnce ==
    ASSUME IInv, IInv', Once, NEW m \in Wired, SyncFetch(m) PROVE Once'
  <1>1. /\ pc[m] = "fetch" /\ pc' = [pc EXCEPT ![m] = "next"]
        /\ UNCHANGED <<row, by, exch, cur, open, batch, asked, venue>>
        BY DEF SyncFetch, Step, db, requests
  <1>2. /\ Lock /\ Data /\ m \in Coroutines /\ m \in Managers /\ asked[m] \in Exchanges
        BY <1>1, SyncFacts DEF SyncOK
  <1>3. PICK l \in [Orders -> OpenRows \cup {"odd", "none"}] :
            /\ \/ \A o \in Orders : l[o] \in ListedStatuses(Api[asked[m]],
                                            IF exch[o] = asked[m] THEN venue[o] ELSE "none")
               \/ ListsErrorAsEmpty(Api[asked[m]]) /\ l = NoListing
            /\ listing' = [listing EXCEPT ![m] = l]
        BY DEF SyncFetch
  <1>4. ASSUME NEW o \in Orders, l[o] = "partially_filled" PROVE venue[o] \in Begun
    <2>1. l # NoListing
          BY <1>4 DEF NoListing
    <2>2. Api[asked[m]] \in Kinds
          BY <1>2, ManagerAssumption
    <2>3. (IF exch[o] = asked[m] THEN venue[o] ELSE "none") = "partial"
          BY <1>3, <1>4, <2>1, <2>2, PartlyIsListed
    <2>4. QED
          BY <2>3 DEF Begun
  <1>5. \A n \in Wired : pc'[n] = "refresh" => pc[n] = "refresh"
        BY <1>1, <1>2 DEF Lock, Coroutines
  <1>6. ASSUME NEW n \in Managers, NEW o \in Orders, listing'[n][o] = "partially_filled"
        PROVE  venue[o] \in Begun
        BY <1>2, <1>3, <1>4, <1>6 DEF Data, Once
  <1>7. QED
        BY <1>1, <1>5, <1>6 DEF Once, Unrefreshed

\* A round that ends forgets its listing and its batch.
LEMMA SyncEndOnce ==
    ASSUME IInv, IInv', Once, NEW m \in Wired, NEW from \in SyncPoints, SyncAborts(m, from),
           UNCHANGED <<row, by, exch, venue>>, \A n \in Managers : open'[n] \subseteq open[n]
    PROVE  Once'
  <1>1. /\ pc' = [pc EXCEPT ![m] = "idle"] /\ cur' = [cur EXCEPT ![m] = NoEntry]
        /\ batch' = [batch EXCEPT ![m] = {}]
        /\ listing' = [listing EXCEPT ![m] = NoListing]
        BY DEF SyncAborts, Release
  <1>2. /\ Lock /\ Data /\ TypeOK' /\ m \in Coroutines /\ m \in Managers
        BY TypeParts, Nobody DEF IInv, Coroutines
  <1>3. ASSUME NEW n \in Wired, pc'[n] = "refresh"
        PROVE  /\ pc[n] = "refresh" /\ cur'[n] = cur[n] /\ cur[n].order \in Orders
               /\ batch'[n] \subseteq batch[n]
    <2>1. n \in Coroutines \ {m} /\ n \in Managers
          BY <1>1, <1>2, <1>3, Nobody DEF Lock, Coroutines
    <2>2. pc[n] = "refresh" /\ cur'[n] = cur[n] /\ batch'[n] = batch[n]
          BY <1>1, <1>2, <1>3, <2>1 DEF Lock, Data
    <2>3. QED
          BY <2>2, Nobody DEF IInv, Roles
  <1>4. \A n \in Managers : /\ listing'[n] \in {listing[n], NoListing}
                            /\ batch'[n] \subseteq batch[n]
        BY <1>1, <1>2 DEF Data
  <1>5. QED
        BY <1>2, <1>3, <1>4, OnceFrame DEF Once

LEMMA SyncMissingOnce ==
    ASSUME IInv, IInv', Once, NEW m \in Wired, NEW e \in batch[m], SyncMissing(m, e) PROVE Once'
  <1>1. /\ SyncTurn(m, e, "forget") /\ UNCHANGED <<by, exch, open, venue>>
        BY DEF SyncMissing, requests
  <1>2. /\ pc[m] = "next" /\ pc'[m] = "forget"
        /\ \A d \in Coroutines \ {m} : pc'[d] = pc[d] /\ cur'[d] = cur[d]
        /\ \A n \in Managers : batch'[n] \subseteq batch[n]
        /\ UNCHANGED listing
    <2>1. /\ batch'[m] = batch[m] \ {e}
          /\ \A n \in Managers \ {m} : batch'[n] = batch[n]
          BY <1>1, TurnMoves
    <2>2. QED
          BY <1>1, <2>1, TurnMoves
  <1>3. Lock /\ Data /\ TypeOK'
        BY TypeParts DEF IInv
  <1>4. row' = row \/ row' = [row EXCEPT ![e.order] = "filled"]
        BY DEF SyncMissing, UpdateRow, SetRow
  <1>5. \A o \in Orders : row'[o] = "partially_filled" => row[o] = "partially_filled"
        BY <1>3, <1>4 DEF Data
  <1>6. ASSUME NEW n \in Wired, pc'[n] = "refresh"
        PROVE  pc[n] = "refresh" /\ cur'[n] = cur[n] /\ cur[n].order \in Orders
    <2>1. pc[n] = "refresh" /\ cur'[n] = cur[n]
          BY <1>2, <1>6 DEF Coroutines
    <2>2. QED
          BY <2>1, Nobody DEF IInv, Roles
  <1>7. QED
        BY <1>1, <1>2, <1>3, <1>5, <1>6, Nobody, OnceFrame DEF Once

\* The entry the sync turns to was not refreshed if it carries the UUID, and it is the only
\* such entry of its order in the batch.
LEMMA SyncSeenOnce ==
    ASSUME IInv, IInv', Once, NEW m \in Wired, NEW e \in batch[m], SyncSeen(m, e) PROVE Once'
  <1>1. /\ SyncTurn(m, e, "refresh") /\ UNCHANGED <<row, by, exch, open, venue>>
        BY DEF SyncSeen, requests
  <1>2. /\ pc[m] = "next" /\ pc'[m] = "refresh" /\ cur'[m] = e
        /\ \A d \in Coroutines \ {m} : pc'[d] = pc[d] /\ cur'[d] = cur[d]
        /\ batch'[m] = batch[m] \ {e}
        /\ \A n \in Managers \ {m} : batch'[n] = batch[n]
        /\ UNCHANGED listing
        BY <1>1, TurnMoves
  <1>3. SyncOK(m) /\ m \in Managers
        BY Nobody DEF IInv
  <1>4. ASSUME NEW n \in Wired, pc'[n] = "refresh"
        PROVE  /\ Unrefreshed(cur'[n])
               /\ cur'[n].id = "local" =>
                      \A f \in batch'[n] : f.order = cur'[n].order => f.id # "local"
    <2>1. CASE n = m
      <3>1. Unrefreshed(e)
            BY <1>3 DEF Once
      <3>2. ASSUME e.id = "local", NEW f \in batch[m] \ {e}, f.order = e.order
            PROVE  f.id # "local"
            BY <1>3, <3>2 DEF SyncOK
      <3>3. QED
            BY <1>2, <2>1, <3>1, <3>2
    <2>2. CASE n # m
      <3>1. n \in Coroutines \ {m} /\ n \in Managers
            BY <2>2, Nobody DEF Coroutines
      <3>2. pc[n] = "refresh" /\ cur'[n] = cur[n] /\ batch'[n] = batch[n]
            BY <1>2, <1>4, <2>2, <3>1
      <3>3. QED
            BY <3>2 DEF Once
    <2>3. QED
          BY <2>1, <2>2
  <1>5. \A n \in Managers : \A f \in open'[n] \cup batch'[n] : Unrefreshed(f)
        BY <1>1, <1>2 DEF Once
  <1>6. QED
        BY <1>1, <1>2, <1>4, <1>5 DEF Once, Unrefreshed

LEMMA SyncForgetOnce ==
    ASSUME IInv, IInv', Once, NEW m \in Wired, SyncForget(m) PROVE Once'
  <1>1. /\ \/ Step(m, "forget", "next") /\ UNCHANGED sync
           \/ SyncAborts(m, "forget")
        /\ UNCHANGED <<row, by, exch, venue>>
        BY DEF SyncForget, requests
  <1>2. Lock /\ Data /\ TypeOK' /\ m \in Coroutines /\ m \in Managers
        BY TypeParts, Nobody DEF IInv, Coroutines
  <1>3. \A n \in Managers : open'[n] \subseteq open[n]
        BY <1>2 DEF SyncForget, Data
  <1>4. CASE SyncAborts(m, "forget")
        BY <1>1, <1>3, <1>4, SyncEndOnce DEF SyncPoints
  <1>5. CASE Step(m, "forget", "next") /\ UNCHANGED sync
    <2>1. ASSUME NEW n \in Wired, pc'[n] = "refresh"
          PROVE  pc[n] = "refresh" /\ cur'[n] = cur[n] /\ cur[n].order \in Orders
      <3>1. pc[n] = "refresh" /\ cur'[n] = cur[n]
            BY <1>2, <1>5, <2>1 DEF Step, Lock, Coroutines
      <3>2. QED
            BY <3>1, Nobody DEF IInv, Roles
    <2>2. QED
          BY <1>1, <1>2, <1>3, <1>5, <2>1, OnceFrame DEF sync, Once
  <1>6. QED
        BY <1>1, <1>4, <1>5

\* The row of an entry that carries the UUID may become "partially_filled"; no entry carries
\* the UUID after that.
LEMMA SyncRefreshOnce ==
    ASSUME IInv, IInv', Once, NEW m \in Wired, SyncRefresh(m) PROVE Once'
  <1>1. /\ \/ Step(m, "refresh", "next") /\ UNCHANGED sync
           \/ SyncAborts(m, "refresh")
        /\ UNCHANGED <<by, exch, venue>>
        BY DEF SyncRefresh, requests
  <1>2. /\ pc[m] = "refresh"
        /\ pc'[m] # "refresh"
        /\ \A d \in Coroutines \ {m} : pc'[d] = pc[d] /\ cur'[d] = cur[d]
        /\ batch'[m] \subseteq batch[m]
        /\ \A n \in Managers \ {m} : batch'[n] = batch[n] /\ listing'[n] = listing[n]
    <2>1. UNCHANGED sync \/ SyncAborts(m, "refresh")
          BY <1>1
    <2>2. QED
          BY <1>1, OnOrOut
  <1>3. PICK g \in Entry : cur[m] = g
        BY <1>2, Nobody DEF IInv, Roles
  <1>4. PICK o \in Orders : g.order = o
        BY <1>3, Nobody
  <1>5. /\ Lock /\ Data /\ TypeOK' /\ Belongs /\ m \in Coroutines /\ m \in Managers
        /\ by[o] = m
        BY <1>2, <1>3, <1>4, SyncFacts, Nobody DEF IInv
  <1>6. /\ open' = [open EXCEPT ![m] =
                       (@ \ {f \in open[m] : f.order = o /\ f.key = g.id})
                         \cup {[order |-> o, key |-> g.id, id |-> "venue",
                                live |-> listing[m][o] # "odd"]}]
        /\ row' = row \/ (g.id = "local" /\ row' = [row EXCEPT ![o] = listing[m][o]])
        BY <1>3, <1>4 DEF SyncRefresh, UpdateRow, SetRow
  <1>7. ASSUME NEW n \in Managers, NEW f \in open'[n] \cup batch'[n], f.id = "local"
        PROVE  row'[f.order] # "partially_filled"
    <2>1. /\ f \in open[n] \cup batch[n]
          /\ n = m /\ f \notin batch[m] => f \in open[m] /\ ~(f.order = o /\ f.key = g.id)
      <3>1. CASE n = m
            BY <1>2, <1>5, <1>6, <1>7, <3>1 DEF Data
      <3>2. CASE n # m
            BY <1>2, <1>5, <1>6, <1>7, <3>2 DEF Data
      <3>3. QED
            BY <3>1, <3>2
    <2>2. f \in Entry /\ f.order \in Orders /\ row[f.order] # "partially_filled"
          BY <1>5, <1>7, <2>1, Nobody DEF Data, Once, Unrefreshed
    <2>3. CASE row' = row \/ f.order # o
          BY <1>5, <1>6, <2>2, <2>3 DEF Data
    <2>4. CASE g.id = "local" /\ f.order = o
      <3>1. n = m
            BY <1>5, <2>1, <2>4 DEF Belongs
      <3>2. f \notin batch[m]
            BY <1>2, <1>3, <1>4, <1>7, <2>4 DEF Once
      <3>3. f \in open[m] /\ f.key # g.id
            BY <1>2, <2>1, <2>4, <3>1, <3>2
      <3>4. f.key = "local"
            BY <1>5, <1>7, <3>3 DEF IInv, EntryOK
      <3>5. QED
            BY <2>4, <3>3, <3>4
    <2>5. QED
          BY <1>6, <2>3, <2>4
  <1>8. ASSUME NEW n \in Wired, pc'[n] = "refresh"
        PROVE  /\ Unrefreshed(cur[n])'
               /\ cur'[n].id = "local" =>
                      \A e \in batch'[n] : e.order = cur'[n].order => e.id # "local"
    <2>1. n \in Coroutines \ {m} /\ n \in Managers
          BY <1>2, <1>8, Nobody DEF Coroutines
    <2>2. pc[n] = "refresh" /\ cur'[n] = cur[n] /\ batch'[n] = batch[n]
          BY <1>2, <1>8, <2>1
    <2>3. cur[n] \in Entry /\ cur[n].order \in Orders /\ cur[n].order # o
      <3>1. cur[n] \in Entry /\ cur[n].order \in Orders
            BY <2>2, Nobody DEF IInv, Roles
      <3>2. cur[n].order # o
            BY <1>2, <1>3, <1>4, <1>5, <2>1, Exclusive, Nobody
      <3>3. QED
            BY <3>1, <3>2
    <2>4. row'[cur[n].order] = row[cur[n].order]
          BY <1>5, <1>6, <2>3 DEF Data
    <2>5. QED
          BY <2>2, <2>4 DEF Once, Unrefreshed
  <1>9. ASSUME NEW n \in Managers, NEW p \in Orders, listing'[n][p] = "partially_filled"
        PROVE  venue'[p] \in Begun
    <2>1. listing'[n] \in {listing[n], NoListing}
          BY <1>1, <1>2, <1>5 DEF SyncAborts, sync, Data
    <2>2. NoListing[p] # "partially_filled"
          BY DEF NoListing
    <2>3. QED
          BY <1>1, <1>9, <2>1, <2>2 DEF Once
  <1>10. \A n \in Managers : \A e \in open'[n] \cup batch'[n] : Unrefreshed(e)'
        BY <1>7 DEF Unrefreshed
  <1>11. QED
        BY <1>1, <1>8, <1>9, <1>10 DEF Once

\* Every step keeps it.
LEMMA OnceKeeps ==
    ASSUME IInv, IInv', Once, [Next]_vars PROVE Once'
  <1>1. ASSUME NEW c \in Clients, ClientStart(c) \/ ClientStep(c) PROVE Once'
        BY <1>1, ClientOnce
  <1>2. ASSUME NEW m \in Wired, SyncStep(m) PROVE Once'
    <2>1. CASE SyncFetchFails(m)
          BY <2>1, SyncEndOnce DEF SyncFetchFails, SyncPoints, db, requests
    <2>2. CASE SyncDone(m)
          BY <2>2, SyncEndOnce DEF SyncDone, SyncPoints, db, requests
    <2>3. QED
          BY <1>2, <2>1, <2>2, SyncStartOnce, SyncFetchOnce, SyncMissingOnce, SyncSeenOnce,
             SyncForgetOnce, SyncRefreshOnce DEF SyncStep
  <1>3. ASSUME NEW o \in Orders, VenueMoves(o) PROVE Once'
    <2>1. venue \in [Orders -> VenueStatuses]
          BY DEF IInv, TypeOK
    <2>2. \A p \in Orders : venue[p] \in Begun => venue'[p] \in Begun
          BY <1>3, <2>1 DEF VenueMoves, Begun
    <2>3. UNCHANGED <<row, by, exch, pc, cur, open, batch, listing>>
          BY <1>3 DEF VenueMoves, db, requests, run, sync
    <2>4. QED
          BY <2>2, <2>3 DEF Once, Unrefreshed
  <1>4. ASSUME NEW x \in Exchanges, SwitchExchange(x) PROVE Once'
        BY <1>4 DEF SwitchExchange, db, requests, run, sync, Once, Unrefreshed
  <1>5. CASE Restart
    <2>1. /\ pc' = [c \in Coroutines |-> "idle"]
          /\ open' = [m \in Managers |-> {}]
          /\ batch' = [m \in Managers |-> {}]
          /\ listing' = [m \in Managers |-> NoListing]
          /\ UNCHANGED <<row, by, exch, venue>>
          BY <1>5 DEF Restart, db, requests
    <2>2. QED
          BY <2>1, Nobody DEF Once, NoListing, Coroutines
  <1>6. CASE UNCHANGED vars
        BY <1>6 DEF vars, Once, Unrefreshed
  <1>7. QED
        BY <1>1, <1>2, <1>3, <1>4, <1>5, <1>6 DEF Next, Environment

LEMMA OnceHolds == Spec => []Once
  <1>1. Init => Once
        BY Nobody DEF Init, Once, Coroutines
  <1>2. IInv /\ IInv' /\ Once /\ [Next]_vars => Once'
        BY OnceKeeps
  <1>3. QED
        BY <1>1, <1>2, InvariantHolds, PTL DEF Spec

\* A step of the lifecycle, or none.
LifeStep == [Lifecycle!Next]_<<row, venue, exch>>

LEMMA LifeOfOrder ==
    ASSUME NEW o \in Orders,
           \/ \E x \in Exchanges : Lifecycle!Name(o, x)
           \/ Lifecycle!Journal(o) \/ Lifecycle!Submit(o) \/ Lifecycle!Reject(o)
           \/ Lifecycle!PartlyFill(o) \/ Lifecycle!Fill(o) \/ Lifecycle!Cancel(o)
           \/ Lifecycle!Take(o) \/ Lifecycle!Trade(o) \/ Lifecycle!Withdraw(o)
    PROVE  LifeStep
  BY DEF LifeStep, Lifecycle!Next

\* What a client's step does to its order, seen from outside.
LEMMA ClientImplements ==
    ASSUME IInv, Once, NEW c \in Clients, ClientStart(c) \/ ClientStep(c) PROVE LifeStep
  <1>1. CASE UNCHANGED <<row, venue, exch>>
        BY <1>1 DEF LifeStep
  <1>2. ASSUME NEW m \in Managers, NEW o \in Orders, SubmitStart(c, m, o) PROVE LifeStep
    <2>1. /\ by[o] = None /\ exch' = [exch EXCEPT ![o] = active[m]]
          /\ UNCHANGED <<row, venue>>
          BY <1>2 DEF SubmitStart, db
    <2>2. exch[o] = None /\ active[m] \in Exchanges
          BY <2>1 DEF Once, IInv, TypeOK
    <2>3. Lifecycle!Name(o, active[m])
          BY <2>1, <2>2 DEF Lifecycle!Name
    <2>4. QED
          BY <2>2, <2>3, LifeOfOrder
  <1>3. ASSUME NEW o \in Orders, cur[c].order = o, pc[c] # "idle",
               \/ SubmitInsert(c) \/ SubmitRecord(c) \/ RejectRow(c) \/ CancelRow(c)
               \/ \E taken \in BOOLEAN : Place(c, taken)
               \/ \E done \in BOOLEAN : CancelAsk(c, done)
        PROVE  LifeStep
    <2>1. /\ Data /\ ClientOK(c) /\ by[o] # None /\ exch[o] # None
          /\ pc[c] \in {"cancel", "cancelled", "dropped"} =>
                 EntryOK(mgr[c], cur[c]) /\ (pc[c] # "dropped" => ~Leaving(mgr[c], cur[c]))
          BY <1>3, ClientFacts, Nobody DEF Once, ClientOK
    <2>2. Lifecycle!True(o) => Truth(o)
          BY DEF Lifecycle!True, Truth, Kind
    <2>3. CASE SubmitInsert(c)
      <3>1. Lifecycle!Journal(o)
            BY <1>3, <2>1, <2>3 DEF SubmitInsert, Step, SetRow, ClientOK, requests,
               Lifecycle!Journal, Lifecycle!Write
      <3>2. QED
            BY <3>1, LifeOfOrder
    <2>4. CASE SubmitRecord(c)
      <3>1. Lifecycle!Submit(o)
            BY <1>3, <2>1, <2>2, <2>4 DEF SubmitRecord, Step, SetRow, ClientOK, requests,
               Lifecycle!Submit, Lifecycle!Write
      <3>2. QED
            BY <3>1, LifeOfOrder
    <2>5. CASE RejectRow(c)
      <3>1. Lifecycle!Reject(o)
            BY <1>3, <2>1, <2>5 DEF RejectRow, Step, SetRow, ClientOK, requests,
               Lifecycle!Reject, Lifecycle!Write
      <3>2. QED
            BY <3>1, LifeOfOrder
    <2>6. CASE CancelRow(c)
      <3>1. /\ pc[c] = "cancelled" /\ UNCHANGED <<venue, exch>>
            /\ row' = IF cur[c].key = "local" THEN [row EXCEPT ![o] = "cancelled"] ELSE row
            BY <1>3, <2>6 DEF CancelRow, Step, UpdateRow, SetRow, requests
      <3>2. CASE row' # row
        <4>1. /\ cur[c].key = "local"
              /\ row' = [row EXCEPT ![o] = "cancelled"]
              /\ row[o] \in OpenRows \cup {"cancelled"}
              BY <1>3, <2>1, <3>1, <3>2 DEF EntryOK
        <4>2. row[o] # "cancelled"
              BY <2>1, <3>2, <4>1 DEF Data
        <4>3. Truth(o) => venue[o] = "cancelled"
              BY <1>3, <2>1, <3>1 DEF ClientOK
        <4>4. Lifecycle!Cancel(o)
              BY <2>2, <3>1, <4>1, <4>2, <4>3 DEF OpenRows, Lifecycle!Cancel, Lifecycle!Write
        <4>5. QED
              BY <4>4, LifeOfOrder
      <3>3. QED
            BY <3>1, <3>2 DEF LifeStep
    <2>7. ASSUME NEW taken \in BOOLEAN, Place(c, taken) PROVE LifeStep
      <3>1. /\ pc[c] = "place" /\ UNCHANGED <<row, exch>>
            /\ venue' = venue \/ venue' = [venue EXCEPT ![o] = "open"]
            BY <1>3, <2>7 DEF Place, db, requests
      <3>2. row[o] = "pending" /\ venue[o] = "none"
            BY <1>3, <2>1, <3>1 DEF ClientOK
      <3>3. CASE venue' = [venue EXCEPT ![o] = "open"]
        <4>1. Lifecycle!Take(o)
              BY <3>1, <3>2, <3>3 DEF Lifecycle!Take, Lifecycle!Exchange
        <4>2. QED
              BY <4>1, LifeOfOrder
      <3>4. QED
            BY <3>1, <3>3 DEF LifeStep
    <2>8. ASSUME NEW done \in BOOLEAN, CancelAsk(c, done) PROVE LifeStep
      <3>1. /\ UNCHANGED <<row, exch>>
            /\ \/ venue' = venue
               \/ venue[o] \in Live /\ venue' = [venue EXCEPT ![o] = "cancelled"]
            BY <1>3, <2>8 DEF CancelAsk, db, requests
      <3>2. CASE venue[o] \in Live /\ venue' = [venue EXCEPT ![o] = "cancelled"]
        <4>1. Lifecycle!Withdraw(o)
              BY <3>1, <3>2 DEF Live, Lifecycle!Withdraw, Lifecycle!Exchange
        <4>2. QED
              BY <4>1, LifeOfOrder
      <3>3. QED
            BY <3>1, <3>2 DEF LifeStep
    <2>9. QED
          BY <1>3, <2>3, <2>4, <2>5, <2>6, <2>7, <2>8
  <1>4. ASSUME \/ SubmitInsert(c) \/ SubmitRecord(c) \/ RejectRow(c) \/ CancelRow(c)
               \/ \E taken \in BOOLEAN : Place(c, taken)
               \/ \E done \in BOOLEAN : CancelAsk(c, done)
        PROVE  LifeStep
    <2>1. pc[c] # "idle"
          BY <1>4 DEF SubmitInsert, SubmitRecord, RejectRow, CancelRow, Place, CancelAsk, Step
    <2>2. cur[c].order \in Orders
          BY <2>1, ClientFacts
    <2>3. QED
          BY <1>3, <1>4, <2>1, <2>2
  <1>5. QED
        BY <1>1, <1>2, <1>4 DEF ClientStart, ClientStep, CancelStart, SubmitAllowed, SubmitBlocked,
           SubmitCreated, SubmitTrack, SubmitCool, RejectEvent, CancelDrop, WriteFails, db, requests

\* The sync writes a row only for an entry under the UUID, whose row is still "submitted".
LEMMA SyncImplements ==
    ASSUME IInv, Once, NEW m \in Wired, SyncStep(m) PROVE LifeStep
  <1>1. CASE UNCHANGED <<row, venue, exch>>
        BY <1>1 DEF LifeStep
  <1>2. ASSUME NEW e \in batch[m], SyncMissing(m, e), row' # row PROVE LifeStep
    <2>1. /\ pc[m] = "next" /\ listing[m][e.order] = "none"
          /\ e.id = "local" /\ row' = [row EXCEPT ![e.order] = "filled"]
          /\ UNCHANGED <<venue, exch>>
          BY <1>2 DEF SyncMissing, SyncTurn, UpdateRow, SetRow, requests
    <2>2. Data /\ SyncOK(m) /\ e.order \in Orders /\ m \in Managers
          BY <2>1, SyncFacts
    <2>3. row[e.order] = "submitted"
          BY <2>1, <2>2 DEF SyncOK, OpenRows, Once, Unrefreshed
    <2>4. Truth(e.order) => venue[e.order] \in {"filled", "cancelled"}
          BY <2>1, <2>2 DEF SyncOK, Data, VenueStatuses, Live
    <2>5. Lifecycle!True(e.order) => Truth(e.order)
          BY DEF Lifecycle!True, Truth, Kind
    <2>6. Lifecycle!Fill(e.order)
          BY <2>1, <2>3, <2>4, <2>5 DEF Lifecycle!Fill, Lifecycle!Write
    <2>7. QED
          BY <2>2, <2>6, LifeOfOrder
  <1>3. CASE SyncRefresh(m) /\ row' # row
    <2>1. pc[m] = "refresh" /\ UNCHANGED <<venue, exch>>
          BY <1>3 DEF SyncRefresh, requests
    <2>2. PICK o \in Orders : cur[m].order = o
          BY <2>1, Nobody DEF IInv, Roles
    <2>3. /\ cur[m].id = "local" /\ listing[m][o] # "odd"
          /\ row' = [row EXCEPT ![o] = listing[m][o]]
          BY <1>3, <2>2 DEF SyncRefresh, UpdateRow, SetRow
    <2>4. Data /\ SyncOK(m) /\ m \in Managers
          BY <2>1, SyncFacts
    <2>5. listing[m][o] \in OpenRows
          BY <2>1, <2>2, <2>3, <2>4 DEF Data, SyncOK
    <2>6. row[o] = "submitted"
          BY <2>1, <2>2, <2>3, <2>4 DEF SyncOK, OpenRows, Once, Unrefreshed
    <2>7. listing[m][o] = "partially_filled"
          BY <1>3, <2>3, <2>4, <2>5, <2>6 DEF Data, OpenRows
    <2>8. venue[o] \in {"partial", "filled", "cancelled"}
          BY <2>4, <2>7 DEF Once, Begun
    <2>9. Lifecycle!PartlyFill(o)
          BY <2>1, <2>3, <2>6, <2>7, <2>8 DEF Lifecycle!PartlyFill, Lifecycle!Write
    <2>10. QED
          BY <2>9, LifeOfOrder
  <1>4. UNCHANGED <<venue, exch>>
        BY DEF SyncStep, SyncStart, SyncFetch, SyncFetchFails, SyncMissing, SyncSeen, SyncForget,
               SyncRefresh, SyncDone, requests
  <1>5. (\E e \in batch[m] : SyncMissing(m, e)) \/ SyncRefresh(m) \/ row' = row
        BY DEF SyncStep, SyncStart, SyncFetch, SyncFetchFails, SyncSeen, SyncForget, SyncDone, db
  <1>6. QED
        BY <1>1, <1>2, <1>3, <1>4, <1>5

\* Every step of the managers is a step of one order's lifecycle, or changes nothing of it.
LEMMA LifeHolds ==
    ASSUME IInv, Once, [Next]_vars PROVE LifeStep
  <1>1. ASSUME NEW o \in Orders, VenueMoves(o) PROVE LifeStep
    <2>1. Lifecycle!Trade(o) \/ Lifecycle!Withdraw(o)
          BY <1>1 DEF VenueMoves, Live, db, requests, Lifecycle!Trade, Lifecycle!Withdraw,
                      Lifecycle!Exchange
    <2>2. QED
          BY <2>1, LifeOfOrder
  <1>2. ASSUME NEW x \in Exchanges, SwitchExchange(x) PROVE LifeStep
        BY <1>2 DEF SwitchExchange, db, requests, LifeStep
  <1>3. CASE Restart
        BY <1>3 DEF Restart, db, requests, LifeStep
  <1>4. CASE UNCHANGED vars
        BY <1>4 DEF vars, LifeStep
  <1>5. QED
        BY <1>1, <1>2, <1>3, <1>4, ClientImplements, SyncImplements DEF Next, Environment

\* The order managers implement the order lifecycle: for any orders, managers, clients,
\* exchanges and adapters, restarts and failing writes, each order's row is journaled before
\* the exchange has it, becomes "submitted", "partially_filled", "filled" or "cancelled" only
\* when its exchange did so, and is never written again once it is final.
THEOREM ImplementsLife == Spec => ImplementsOrderLifecycle
  <1>1. Init => Lifecycle!Init
        BY DEF Init, Lifecycle!Init
  <1>2. IInv /\ Once /\ [Next]_vars => [Lifecycle!Next]_<<row, venue, exch>>
        BY LifeHolds DEF LifeStep
  <1>3. QED
        BY <1>1, <1>2, InvariantHolds, OnceHolds, PTL
           DEF Spec, ImplementsOrderLifecycle, Lifecycle!Spec

\* A status that is final stays: no step of the lifecycle leads out of it.
THEOREM FinalRowsStay == Spec => TerminalRowsStay
  <1> DEFINE Stays == \A o \in Orders : row[o] \in Terminal => row'[o] = row[o]
  <1>1. IInv /\ Once /\ [Next]_vars => [Stays]_vars
    <2> SUFFICES ASSUME IInv, Once, [Next]_vars PROVE Stays
        OBVIOUS
    <2>1. Data
          BY TypeParts DEF IInv
    <2>2. \/ row' = row
          \/ \E p \in Orders : \E s : row[p] \notin Terminal /\ row' = [row EXCEPT ![p] = s]
          BY LifeHolds DEF LifeStep, Terminal, Lifecycle!Next, Lifecycle!Name, Lifecycle!Journal,
             Lifecycle!Submit, Lifecycle!Reject, Lifecycle!PartlyFill, Lifecycle!Fill,
             Lifecycle!Cancel, Lifecycle!Take, Lifecycle!Trade, Lifecycle!Withdraw,
             Lifecycle!Write, Lifecycle!Exchange
    <2>3. QED
          BY <2>1, <2>2 DEF Data
  <1>2. QED
        BY <1>1, InvariantHolds, OnceHolds, PTL DEF Spec, TerminalRowsStay
=============================================================================
