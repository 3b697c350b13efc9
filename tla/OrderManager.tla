----------------------------- MODULE OrderManager -----------------------------
(***************************************************************************)
(* Orders on their way to an exchange and back:                            *)
(* horizon/internal/ordermanager/manager.py, with the two instances of it  *)
(* that main.py builds.  lifespan() builds a fully wired one (guardrails,  *)
(* cooldowns, sync loop, told of a new active exchange); the proposal      *)
(* queue submits through it.  _create_app() builds a bare one; the REST    *)
(* order endpoints submit and cancel through that one.                     *)
(*                                                                         *)
(* Every operation of a manager runs under the manager's asyncio lock and  *)
(* is cut at its awaits, one action per piece.  The UPDATE or INSERT of an *)
(* await and the commit that follows it are one action: nobody reads the   *)
(* row in between, and a crash there undoes the write, as does a crash     *)
(* just before it.                                                         *)
(***************************************************************************)
EXTENDS Naturals, ExchangeAdapters

CONSTANTS
    Orders,      \* submissions, each with the UUID it would get
    Exchanges,   \* enabled exchanges
    Api,         \* Api[x]: the adapter of exchange x
    Home,        \* the active exchange of the configuration file
    Managers,    \* OrderManager instances
    Wired,       \* the one lifespan() builds: guardrails, cooldowns and a sync loop
    Cancelling,  \* those whose cancel_order somebody calls
    Clients,     \* coroutines calling submit_order or cancel_order
    None,        \* nobody
    MaxCrashes,  \* bound: how often the process dies and restarts
    MaxCuts      \* bound: operations that end because a write fails

ASSUME ManagerAssumption ==
    /\ Api \in [Exchanges -> Kinds]
    /\ Home \in Exchanges
    /\ Wired \subseteq Managers
    /\ \A m, n \in Wired : m = n
    /\ Cancelling \subseteq Managers
    /\ Clients \cap Managers = {}
    /\ None \notin Managers \cup Clients \cup Orders \cup Exchanges
    /\ MaxCrashes \in Nat
    /\ MaxCuts \in Nat

VARIABLES
    row,      \* row[o]: orders.status of o, "none" before the INSERT
    events,   \* order_events rows: <<the order_id they carry, event_type>>
    by,       \* by[o]: the manager that was asked to submit o
    exch,     \* exch[o]: the exchange the request named
    holder,   \* holder[m]: the coroutine inside `async with self._lock`
    pc,       \* pc[c]: the await at which coroutine c is suspended
    mgr,      \* mgr[c]: the manager c works in
    cur,      \* cur[c]: the entry (a client: of the order) c works on
    open,     \* open[m]: self._open_orders
    active,   \* active[m]: self._active_exchange
    batch,    \* batch[m]: entries the running sync has still to look at
    asked,    \* asked[m]: the exchange whose adapter the running sync chose
    listing,  \* listing[m]: what fetch_open_orders said, by order
    venue,    \* venue[o]: what really is at the exchange
    setting,  \* settings.exchanges.active_exchange
    crashes,  \* restarts so far
    cuts,     \* operations ended by a failing write so far
    cut       \* history: orders whose "submitted" event was not written

db == <<row, events>>
requests == <<by, exch>>
run == <<holder, pc, mgr, cur>>
sync == <<batch, asked, listing>>
vars == <<row, events, by, exch, holder, pc, mgr, cur, open, active, batch, asked,
          listing, venue, setting, crashes, cuts, cut>>

-----------------------------------------------------------------------------
(* Types and helpers *)

RowStatuses == {"none", "pending", "submitted", "partially_filled", "filled",
                "cancelled", "rejected"}

\* The rows of orders that are at the exchange and not over.
OpenRows == {"submitted", "partially_filled"}

VenueStatuses == {"none", "open", "partial", "filled", "cancelled"}
Live == {"open", "partial"}

\* An order is known by its UUID and by the id the exchange gave it.
Ids == {"local", "venue"}

\* An item of _open_orders: the key it is stored under, the order_id inside it, and
\* whether its status is one of OPEN_STATUSES.
Entry == [order : Orders, key : Ids, id : Ids, live : BOOLEAN]
Fresh(o) == [order |-> o, key |-> "local", id |-> "local", live |-> TRUE]
NoEntry == [order |-> None, key |-> "local", id |-> "local", live |-> FALSE]

Kind(o) == Api[exch[o]]

\* The sync task of a wired manager goes by the manager's name.
Coroutines == Clients \cup Wired

Points == {"idle", "check", "insert", "created", "place", "record", "track", "cool",
           "reject", "rejected", "cancel", "cancelled", "dropped",
           "fetch", "next", "forget", "refresh"}

EventTypes == {"created", "submitted", "filled", "partial_fill", "cancelled", "rejected"}
Event(o, id, type) == <<o, id, type>>

Init ==
    /\ row = [o \in Orders |-> "none"]
    /\ events = {}
    /\ by = [o \in Orders |-> None]
    /\ exch = [o \in Orders |-> None]
    /\ holder = [m \in Managers |-> None]
    /\ pc = [c \in Coroutines |-> "idle"]
    /\ mgr = [c \in Coroutines |-> None]
    /\ cur = [c \in Coroutines |-> NoEntry]
    /\ open = [m \in Managers |-> {}]
    /\ active = [m \in Managers |-> Home]
    /\ batch = [m \in Managers |-> {}]
    /\ asked = [m \in Managers |-> None]
    /\ listing = [m \in Managers |-> [o \in Orders |-> "none"]]
    /\ venue = [o \in Orders |-> "none"]
    /\ setting = Home
    /\ crashes = 0
    /\ cuts = 0
    /\ cut = {}

\* Coroutine c enters manager m's lock to work on entry e.
Acquire(c, m, e, to) == /\ pc[c] = "idle"
                        /\ holder[m] = None
                        /\ holder' = [holder EXCEPT ![m] = c]
                        /\ pc' = [pc EXCEPT ![c] = to]
                        /\ mgr' = [mgr EXCEPT ![c] = m]
                        /\ cur' = [cur EXCEPT ![c] = e]

\* c leaves the `async with`: it returned or raised.
Release(c, from) == /\ pc[c] = from
                    /\ holder' = [holder EXCEPT ![mgr[c]] = None]
                    /\ pc' = [pc EXCEPT ![c] = "idle"]
                    /\ mgr' = [mgr EXCEPT ![c] = None]
                    /\ cur' = [cur EXCEPT ![c] = NoEntry]

Step(c, from, to) == /\ pc[c] = from
                     /\ pc' = [pc EXCEPT ![c] = to]
                     /\ UNCHANGED <<holder, mgr, cur>>

SetRow(o, s) == row' = [row EXCEPT ![o] = s]

\* UPDATE orders ... WHERE id = <order_id>: the exchange's own id matches no row.
UpdateRow(o, id, s) == IF id = "local" THEN SetRow(o, s) ELSE UNCHANGED row

\* record_event: it does not ask whether the order_id it is given is a row's.
Record(o, id, type) == events' = events \cup {Event(o, id, type)}

World == <<active, setting, crashes, cuts, cut>>

-----------------------------------------------------------------------------
(* submit_order *)

\* The request names the active exchange of the manager; one that names another, or one
\* the registry has not or not enabled, raises without a trace.
SubmitStart(c, m, o) ==
    /\ by[o] = None
    /\ Acquire(c, m, Fresh(o), IF m \in Wired THEN "check" ELSE "insert")
    /\ by' = [by EXCEPT ![o] = m]
    /\ exch' = [exch EXCEPT ![o] = active[m]]
    /\ UNCHANGED <<db, open, sync, venue, World>>

\* evaluate() passes or not: the rules, and the cooldowns they read, are Guardrails'.
SubmitAllowed(c) ==
    /\ Step(c, "check", "insert")
    /\ UNCHANGED <<db, requests, open, sync, venue, World>>

\* A rule is violated.  evaluate() raises while it stores the breach (action_taken is
\* outside the CHECK of migration 003), so no guardrail_blocked event is recorded.
SubmitBlocked(c) ==
    /\ Release(c, "check")
    /\ UNCHANGED <<db, requests, open, sync, venue, World>>

\* Mutant of SubmitInsert: the "created" event is left for later.
SubmitInsertOnly(c) ==
    /\ Step(c, "insert", "place")
    /\ SetRow(cur[c].order, "pending")
    /\ UNCHANGED <<events, requests, open, sync, venue, World>>

SubmitInsert(c) ==
    /\ Step(c, "insert", "created")
    /\ SetRow(cur[c].order, "pending")
    /\ UNCHANGED <<events, requests, open, sync, venue, World>>

SubmitCreated(c) ==
    /\ Step(c, "created", "place")
    /\ Record(cur[c].order, "local", "created")
    /\ UNCHANGED <<row, requests, open, sync, venue, World>>

\* The exchange takes the order or not; an exception of the adapter rejects it, any
\* result, also one without an id, goes on.
Place(c, taken) ==
    /\ pc[c] = "place"
    /\ \E result \in PlaceResults(Kind(cur[c].order), taken) :
          Step(c, "place", IF result = "raises" THEN "reject" ELSE "record")
    /\ venue' = IF taken THEN [venue EXCEPT ![cur[c].order] = "open"] ELSE venue
    /\ UNCHANGED <<db, requests, open, sync, World>>

\* Whatever status the result carries, the row says "submitted".
SubmitRecord(c) ==
    /\ Step(c, "record", "track")
    /\ SetRow(cur[c].order, "submitted")
    /\ UNCHANGED <<events, requests, open, sync, venue, World>>

\* The event is stored, then the order enters _open_orders under its UUID.
SubmitTrack(c) ==
    /\ IF mgr[c] \in Wired THEN Step(c, "track", "cool") ELSE Release(c, "track")
    /\ Record(cur[c].order, "local", "submitted")
    /\ open' = [open EXCEPT ![mgr[c]] = @ \cup {cur[c]}]
    /\ UNCHANGED <<row, requests, sync, venue, World>>

\* record_trade writes the cooldown, which is Guardrails' too.
SubmitCool(c) ==
    /\ Release(c, "cool")
    /\ UNCHANGED <<db, requests, open, sync, venue, World>>

RejectRow(c) ==
    /\ Step(c, "reject", "rejected")
    /\ SetRow(cur[c].order, "rejected")
    /\ UNCHANGED <<events, requests, open, sync, venue, World>>

\* Mutant of RejectEvent: raised past the release of the lock.
RejectEventLocked(c) ==
    /\ Step(c, "rejected", "idle")
    /\ Record(cur[c].order, "local", "rejected")
    /\ UNCHANGED <<row, requests, open, sync, venue, World>>

RejectEvent(c) ==
    /\ Release(c, "rejected")
    /\ Record(cur[c].order, "local", "rejected")
    /\ UNCHANGED <<row, requests, open, sync, venue, World>>

-----------------------------------------------------------------------------
(* cancel_order *)

\* The caller names a key of _open_orders; any other id returns False at once.
CancelStart(c, m, e) ==
    /\ e \in open[m]
    /\ Acquire(c, m, e, "cancel")
    /\ UNCHANGED <<db, requests, open, sync, venue, World>>

\* Mutant of CancelAsk: an exception from the adapter counts as cancelled.
CancelAskQuietly(c, done) ==
    /\ Step(c, "cancel", "cancelled")
    /\ done => venue[cur[c].order] \in Live
    /\ venue' = IF done THEN [venue EXCEPT ![cur[c].order] = "cancelled"] ELSE venue
    /\ UNCHANGED <<db, requests, open, sync, World>>

\* The exchange cancels the order or refuses.  With a False or an exception the entry stays.
CancelAsk(c, done) ==
    /\ pc[c] = "cancel"
    /\ done => venue[cur[c].order] \in Live
    /\ \E success \in CancelResults(Kind(cur[c].order), done) :
          IF success THEN Step(c, "cancel", "cancelled") ELSE Release(c, "cancel")
    /\ venue' = IF done THEN [venue EXCEPT ![cur[c].order] = "cancelled"] ELSE venue
    /\ UNCHANGED <<db, requests, open, sync, World>>

CancelRow(c) ==
    /\ Step(c, "cancelled", "dropped")
    /\ UpdateRow(cur[c].order, cur[c].key, "cancelled")
    /\ UNCHANGED <<events, requests, open, sync, venue, World>>

\* Mutant of CancelDrop: the entry stays in _open_orders.
CancelKeep(c) ==
    /\ Release(c, "dropped")
    /\ Record(cur[c].order, cur[c].key, "cancelled")
    /\ UNCHANGED <<row, requests, open, sync, venue, World>>

CancelDrop(c) ==
    /\ Release(c, "dropped")
    /\ Record(cur[c].order, cur[c].key, "cancelled")
    /\ open' = [open EXCEPT ![mgr[c]] = @ \ {cur[c]}]
    /\ UNCHANGED <<row, requests, sync, venue, World>>

-----------------------------------------------------------------------------
(* A write that fails *)

WritePoints == {"insert", "created", "record", "track", "reject", "rejected",
                "cancelled", "dropped"}

\* A bare manager writes on a connection of its own.  While a transaction of the other
\* connection stays open longer than sqlite's timeout, a statement raises; nobody catches
\* it, and the operation ends where it is.
WriteFails(c) ==
    /\ pc[c] \in WritePoints
    /\ mgr[c] \notin Wired
    /\ cuts < MaxCuts
    /\ cuts' = cuts + 1
    /\ cut' = IF pc[c] = "track" THEN cut \cup {cur[c].order} ELSE cut
    /\ Release(c, pc[c])
    /\ UNCHANGED <<db, requests, open, sync, venue, active, setting, crashes>>

-----------------------------------------------------------------------------
(* _sync_open_orders of wired manager m, every 30 s *)

\* Mutant of SyncStart: open orders of every exchange are compared with the listing.
SyncStartAll(m) ==
    /\ batch' = [batch EXCEPT ![m] = {e \in open[m] : e.live}]
    /\ batch'[m] # {}
    /\ Acquire(m, m, NoEntry, "fetch")
    /\ asked' = [asked EXCEPT ![m] = active[m]]
    /\ UNCHANGED <<db, requests, open, listing, venue, World>>

\* The open entries of the active exchange are collected; with none there is no request.
SyncStart(m) ==
    /\ batch' = [batch EXCEPT ![m] = {e \in open[m] : e.live /\ exch[e.order] = active[m]}]
    /\ batch'[m] # {}
    /\ Acquire(m, m, NoEntry, "fetch")
    /\ asked' = [asked EXCEPT ![m] = active[m]]
    /\ UNCHANGED <<db, requests, open, listing, venue, World>>

NoListing == [o \in Orders |-> "none"]

\* The adapter chosen before the await lists what is open at its exchange, each order with
\* a status of the adapter's making.
SyncFetch(m) ==
    /\ Step(m, "fetch", "next")
    /\ \E l \in [Orders -> OpenRows \cup {"odd", "none"}] :
         /\ \/ \A o \in Orders : l[o] \in ListedStatuses(Api[asked[m]],
                                         IF exch[o] = asked[m] THEN venue[o] ELSE "none")
            \/ ListsErrorAsEmpty(Api[asked[m]]) /\ l = NoListing
         /\ listing' = [listing EXCEPT ![m] = l]
    /\ UNCHANGED <<db, requests, open, batch, asked, venue, World>>

\* An exception ends the round; what was not looked at waits for the next one.
SyncAborts(m, from) ==
    /\ Release(m, from)
    /\ batch' = [batch EXCEPT ![m] = {}]
    /\ asked' = [asked EXCEPT ![m] = None]
    /\ listing' = [listing EXCEPT ![m] = NoListing]

SyncFetchFails(m) ==
    /\ SyncAborts(m, "fetch")
    /\ UNCHANGED <<db, requests, open, venue, World>>

\* The loop turns to an entry (the dict's order is not modelled: any entry).
SyncTurn(m, e, to) ==
    /\ pc[m] = "next"
    /\ e \in batch[m]
    /\ pc' = [pc EXCEPT ![m] = to]
    /\ cur' = [cur EXCEPT ![m] = e]
    /\ batch' = [batch EXCEPT ![m] = @ \ {e}]
    /\ UNCHANGED <<holder, mgr, asked, listing>>

\* Not listed: taken for filled.
SyncMissing(m, e) ==
    /\ listing[m][e.order] = "none"
    /\ SyncTurn(m, e, "forget")
    /\ UpdateRow(e.order, e.id, "filled")
    /\ UNCHANGED <<events, requests, open, venue, World>>

\* The event, then `del self._open_orders[local_order.order_id]`, which raises
\* KeyError when no entry has that key; the handler around the loop swallows it.
SyncForget(m) ==
    /\ LET gone == {e \in open[m] : e.order = cur[m].order /\ e.key = cur[m].id}
       IN /\ IF gone # {}
             THEN Step(m, "forget", "next") /\ UNCHANGED sync
             ELSE SyncAborts(m, "forget")
          /\ open' = [open EXCEPT ![m] = @ \ gone]
    /\ Record(cur[m].order, cur[m].id, "filled")
    /\ UNCHANGED <<row, requests, venue, World>>

\* Listed: an event if more is filled than the entry says.  (Of a partly filled order the
\* first one counts: it cannot be told from the next.)
SyncSeen(m, e) ==
    /\ listing[m][e.order] # "none"
    /\ SyncTurn(m, e, "refresh")
    /\ \/ listing[m][e.order] # "partially_filled" /\ UNCHANGED events
       \/ listing[m][e.order] # "submitted" /\ Record(e.order, e.id, "partial_fill")
    /\ UNCHANGED <<row, requests, open, venue, World>>

\* Mutant of SyncRefresh: the entry moves to the exchange's id.
SyncRefreshMoves(m) ==
    /\ Step(m, "refresh", "next")
    /\ LET e == cur[m]
           old == {f \in open[m] : f.order = e.order /\ f.key = e.id}
       IN open' = [open EXCEPT ![m] =
                     (@ \ old) \cup {[e EXCEPT !.key = "venue", !.id = "venue"]}]
    /\ UNCHANGED <<db, requests, sync, venue, World>>

\* The exchange's own record, with the exchange's id inside, replaces the entry stored
\* under the old order_id; the row of that order_id is updated.  A status outside the
\* CHECK of orders raises if there is such a row, which ends the round, entry replaced.
SyncRefresh(m) ==
    /\ pc[m] = "refresh"
    /\ LET e == cur[m]
           status == listing[m][e.order]
           stored == [order |-> e.order, key |-> e.id, id |-> "venue",
                      live |-> status # "odd"]
           old == {f \in open[m] : f.order = e.order /\ f.key = e.id}
       IN /\ open' = [open EXCEPT ![m] = (@ \ old) \cup {stored}]
          /\ IF status = "odd"
             THEN /\ IF e.id = "local" THEN SyncAborts(m, "refresh")
                     ELSE Step(m, "refresh", "next") /\ UNCHANGED sync
                  /\ UNCHANGED row
             ELSE /\ Step(m, "refresh", "next") /\ UNCHANGED sync
                  /\ UpdateRow(e.order, e.id, status)
    /\ UNCHANGED <<events, requests, venue, World>>

SyncDone(m) ==
    /\ SyncAborts(m, "next")
    /\ batch[m] = {}
    /\ UNCHANGED <<db, requests, open, venue, World>>

-----------------------------------------------------------------------------
(* The environment *)

\* The exchange fills an order, in part or in full, or cancels it on its own.
VenueMoves(o) ==
    /\ venue[o] \in Live
    /\ \E s \in {"partial", "filled", "cancelled"} :
          venue' = [venue EXCEPT ![o] = s]
    /\ UNCHANGED <<db, requests, run, open, sync, World>>

\* POST /api/exchanges/active: app.state.order_manager is the wired one.
SwitchExchange(x) ==
    /\ x # setting
    /\ setting' = x
    /\ active' = [m \in Managers |-> IF m \in Wired THEN x ELSE active[m]]
    /\ UNCHANGED <<db, requests, run, open, sync, venue, crashes, cuts, cut>>

\* The process dies and starts again: _open_orders starts empty and nothing fills it
\* from the orders table or from the exchange.
Restart ==
    /\ crashes < MaxCrashes
    /\ crashes' = crashes + 1
    /\ holder' = [m \in Managers |-> None]
    /\ pc' = [c \in Coroutines |-> "idle"]
    /\ mgr' = [c \in Coroutines |-> None]
    /\ cur' = [c \in Coroutines |-> NoEntry]
    /\ open' = [m \in Managers |-> {}]
    /\ batch' = [m \in Managers |-> {}]
    /\ asked' = [m \in Managers |-> None]
    /\ listing' = [m \in Managers |-> NoListing]
    /\ active' = [m \in Managers |-> Home]
    /\ setting' = Home
    /\ UNCHANGED <<db, requests, venue, cuts, cut>>

-----------------------------------------------------------------------------
(* Specification *)

ClientStep(c) ==
    \/ SubmitAllowed(c) \/ SubmitBlocked(c) \/ SubmitInsert(c) \/ SubmitCreated(c)
    \/ \E taken \in BOOLEAN : Place(c, taken)
    \/ SubmitRecord(c) \/ SubmitTrack(c) \/ SubmitCool(c)
    \/ RejectRow(c) \/ RejectEvent(c)
    \/ (\E done \in BOOLEAN : CancelAsk(c, done)) \/ CancelRow(c) \/ CancelDrop(c)
    \/ WriteFails(c)

ClientStart(c) ==
    \/ \E m \in Managers, o \in Orders : SubmitStart(c, m, o)
    \/ \E m \in Cancelling : \E e \in open[m] : CancelStart(c, m, e)

SyncStep(m) ==
    \/ SyncStart(m) \/ SyncFetch(m) \/ SyncFetchFails(m)
    \/ \E e \in batch[m] : SyncMissing(m, e) \/ SyncSeen(m, e)
    \/ SyncForget(m) \/ SyncRefresh(m) \/ SyncDone(m)

Environment ==
    \/ \E o \in Orders : VenueMoves(o)
    \/ \E x \in Exchanges : SwitchExchange(x)
    \/ Restart

Next == \/ \E c \in Clients : ClientStart(c) \/ ClientStep(c)
        \/ \E m \in Wired : SyncStep(m)
        \/ Environment

Spec == Init /\ [][Next]_vars

\* A coroutine that can go on does: the event loop is fair, and the HTTP session of an
\* adapter times out, so an answer or an exception arrives.  The sync loop gets the
\* lock again and again (asyncio.Lock is first in, first out) and an exchange that is
\* asked again and again answers at times.
Fairness == /\ \A c \in Clients : WF_vars(ClientStep(c))
            /\ \A m \in Wired : /\ WF_vars(SyncStep(m))
                               /\ SF_vars(SyncStart(m))
                               /\ SF_vars(SyncFetch(m))

FairSpec == Spec /\ Fairness

-----------------------------------------------------------------------------
(* Properties *)

\* Every variable keeps to its values, and the lock of a manager is held exactly by a
\* coroutine that is suspended inside one of its operations.
TypeOK ==
    /\ row \in [Orders -> RowStatuses]
    /\ events \subseteq Orders \X Ids \X EventTypes
    /\ exch \in [Orders -> Exchanges \cup {None}]
    /\ by \in [Orders -> Managers \cup {None}]
    /\ holder \in [Managers -> Coroutines \cup {None}]
    /\ pc \in [Coroutines -> Points]
    /\ mgr \in [Coroutines -> Managers \cup {None}]
    /\ cur \in [Coroutines -> Entry \cup {NoEntry}]
    /\ open \in [Managers -> SUBSET Entry]
    /\ active \in [Managers -> Exchanges]
    /\ batch \in [Managers -> SUBSET Entry]
    /\ asked \in [Managers -> Exchanges \cup {None}]
    /\ listing \in [Managers -> [Orders -> OpenRows \cup {"odd", "none"}]]
    /\ venue \in [Orders -> VenueStatuses]
    /\ setting \in Exchanges
    /\ crashes \in 0 .. MaxCrashes
    /\ cuts \in 0 .. MaxCuts
    /\ cut \subseteq Orders
    /\ \A c \in Coroutines : /\ pc[c] = "idle" <=> mgr[c] = None
                             /\ \A m \in Managers : holder[m] = c <=> mgr[c] = m

\* Whatever is at an exchange has its orders row and its "created" event in the database
\* (the write-ahead promise of submit_order), wherever the process dies.
Journaled ==
    \A o \in Orders : venue[o] # "none" =>
        row[o] # "none" /\ Event(o, "local", "created") \in events

Tracked(o) == by[o] # None /\ \E e \in open[by[o]] : e.order = o /\ e.key = "local"

\* As long as the process lives, an order whose row says it is open can be cancelled by
\* its id: the manager that submitted it has it in _open_orders under that id, or a
\* coroutine is just about to put it there.  A listing that cannot be stored does not
\* change that, nor does a write that fails, but for the one between the row and the entry.
OpenRowsTracked ==
    crashes = 0 => \A o \in Orders :
        row[o] \in OpenRows =>
            Tracked(o) \/ o \in cut \/ \E c \in Clients : cur[c].order = o

\* A row that says "cancelled" was cancelled at the exchange, unless the adapter takes a
\* refusal for a success.
CancelledAtVenue ==
    \A o \in Orders : row[o] = "cancelled" /\ TellsTruth(Kind(o)) => venue[o] = "cancelled"

\* The sync's "not listed means filled" closes only the row of an order that the exchange
\* took and that is over: it compares with a listing of the order's own exchange, fetched
\* after the order was placed, even when the active exchange is switched during the fetch,
\* and no order without an id waits to be found missing (which is what happens to every
\* order of an adapter that answers without placing it).
FilledIsOver ==
    \A o \in Orders : row[o] = "filled" /\ TellsTruth(Kind(o)) =>
        venue[o] \in {"filled", "cancelled"}

Terminal == {"filled", "cancelled", "rejected"}

\* Submit, cancel and sync never reopen or relabel an order that is over: no stale batch,
\* listing or entry overwrites a terminal status.
TerminalRowsStay ==
    [][\A o \in Orders : row[o] \in Terminal => row'[o] = row[o]]_vars

\* One order, apart from managers, entries and restarts: its row, what is at its exchange,
\* and which exchange that is.
Lifecycle == INSTANCE OrderLifecycle
                 WITH at <- exch,
                      Truthful <- {x \in Exchanges : TellsTruth(Api[x])}

\* However submits, cancels, syncs, failing writes and restarts of the two managers
\* interleave, each order keeps to OrderLifecycle: journaled before it is taken, submitted,
\* filled and cancelled only when the exchange did so, never relabelled once it is final.
ImplementsOrderLifecycle == Lifecycle!Spec

-----------------------------------------------------------------------------
(* What the documentation says and the code does not do *)

\* The sync loop brings the status of an order that is over into its row.
SyncSettlesRows ==
    \A o \in Orders :
        (row[o] \in OpenRows /\ venue[o] \in {"filled", "cancelled"}) ~> row[o] \in Terminal
=============================================================================
