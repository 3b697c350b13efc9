----------------------------- MODULE PaperAccount -----------------------------
(***************************************************************************)
(* The paper-trading account of horizon/internal/paper/simulator.py: the   *)
(* one paper_cash row, the paper_positions rows of one exchange and symbol *)
(* and today's daily_pnl row, next to the paper_trades they stand for.     *)
(*                                                                         *)
(* Orders come from REST handlers and from the auto-execution scanner, and *)
(* each is a chain of SELECTs and writes with an await between any two: no *)
(* lock, no transaction and, in the simulator itself, no commit.  What is  *)
(* read is written back later as an absolute value.  Others commit what is *)
(* pending on the shared connection, and roll it back.                     *)
(***************************************************************************)
EXTENDS Integers

CONSTANTS
    Clients,      \* coroutines that trade at the same time
    Prices,       \* prices a ticker or a limit can have, in USDT
    Volumes,      \* volumes an order can have
    Gains,        \* profit of a close: what (price - entry) * volume can come to
    InitialCash,  \* paper_initial_cash_usdt
    MaxTrades,    \* bound: trades started
    MaxCuts       \* bound: restarts of the process and rollbacks by other components

ASSUME AccountAssumption ==
    /\ Prices \subseteq Nat \ {0}
    /\ Volumes \subseteq Nat \ {0}
    /\ Gains \subseteq Int
    /\ InitialCash \in Nat
    /\ MaxTrades \in Nat
    /\ MaxCuts \in Nat

VARIABLES
    acct,       \* the account's tables as the shared connection sees them
    saved,      \* the same as last committed
    pc,         \* pc[c]: the await at which coroutine c is suspended
    job,        \* job[c]: the order c executes
    got,        \* got[c]: the value c read last
    started,    \* trades started so far
    cuts,       \* restarts and rollbacks so far
    serial,       \* history: the trades in acct came one at a time, none cut by a rollback
    savedSerial,  \* history: saved was committed between two trades, of which that is true
    reach         \* history: InitialCash plus the changes of any of the trades begun

hist == <<serial, savedSerial, reach>>
vars == <<acct, saved, pc, job, got, started, cuts, hist>>

-----------------------------------------------------------------------------
(* Types and helpers *)

Sides == {"buy", "sell"}
Opposite(side) == IF side = "buy" THEN "sell" ELSE "buy"

\* A paper_positions row: id 0 stands for no row.
Position == [id : Nat, volume : Nat]
NoPosition == [id |-> 0, volume |-> 0]

\* trades, flow, net, realized sum up paper_trades: how many rows, the USDT they brought
\* in, the volume they bought, the profit of those that closed something.  cash, pos, day
\* and daily are the rows kept beside them; lastId is sqlite's AUTOINCREMENT counter.
Account == [trades : Nat, flow : Int, net : Int, realized : Int,
            cash : Int, pos : [Sides -> Position], lastId : Nat,
            day : BOOLEAN, daily : Int]

\* close: the order closes a position of the opposite side.
Job == [side : Sides, price : Prices \cup {0}, volume : Nat, close : BOOLEAN, gain : Int]
NoJob == [side |-> "buy", price |-> 0, volume |-> 0, close |-> FALSE, gain |-> 0]

Points == {"idle", "insert", "readPosition", "writePosition", "closePosition",
           "readCash", "writeCash", "readDaily", "writeDaily"}

\* A SELECT gives a position row, a cash balance or the day's row.
Got == [pos : Position, cash : Int, day : BOOLEAN, daily : Int]
Nothing == [pos |-> NoPosition, cash |-> 0, day |-> FALSE, daily |-> 0]

Notional(j) == j.price * j.volume

\* What the trade adds to cash and to the volume bought.
Sign(j) == IF j.side = "buy" THEN 1 ELSE -1
CashDelta(j) == -Sign(j) * Notional(j)
NetDelta(j) == Sign(j) * j.volume

Init ==
    \* init_cash has run; there is no trade yet
    /\ acct = [trades |-> 0, flow |-> 0, net |-> 0, realized |-> 0,
               cash |-> InitialCash, pos |-> [s \in Sides |-> NoPosition], lastId |-> 0,
               day |-> FALSE, daily |-> 0]
    /\ saved = acct
    /\ pc = [c \in Clients |-> "idle"]
    /\ job = [c \in Clients |-> NoJob]
    /\ got = [c \in Clients |-> Nothing]
    /\ started = 0
    /\ cuts = 0
    /\ serial = TRUE
    /\ savedSerial = TRUE
    /\ reach = {InitialCash}

\* No trade is under way.
Quiet == \A c \in Clients : pc[c] = "idle"

Goto(c, from, to) == /\ pc[c] = from
                     /\ pc' = [pc EXCEPT ![c] = to]

\* A SELECT: c remembers r and nothing else happens.
Read(c, from, to, r) == /\ Goto(c, from, to)
                        /\ got' = [got EXCEPT ![c] = r]
                        /\ UNCHANGED <<acct, saved, job, started, cuts, hist>>

\* A write on the shared connection, visible to all, committed by nobody yet.
Write(c, from, to, a) == /\ Goto(c, from, to)
                         /\ acct' = a
                         /\ UNCHANGED <<saved, job, got, started, cuts, hist>>

Begin(c, to, j, r) == /\ started < MaxTrades
                      /\ Goto(c, "idle", to)
                      /\ job' = [job EXCEPT ![c] = j]
                      /\ got' = [got EXCEPT ![c] = r]
                      /\ started' = started + 1
                      /\ serial' = (serial /\ Quiet)
                      /\ reach' = reach \cup {sum + CashDelta(j) : sum \in reach}
                      /\ UNCHANGED <<acct, saved, cuts, savedSerial>>

Cash(a, value) == [a EXCEPT !.cash = value]

\* UPDATE or DELETE of a paper_positions row by its id: whichever row has it now, if any.
SetRow(a, id, p) ==
    [a EXCEPT !.pos = [s \in Sides |-> IF a.pos[s].id = id THEN p ELSE a.pos[s]]]

-----------------------------------------------------------------------------
(* simulate_market_order, simulate_limit_order *)

\* Mutant of Order: the cash check is dropped.
OrderUnchecked(c, side, price, volume) ==
    Begin(c, "insert",
          [side |-> side, price |-> price, volume |-> volume, close |-> FALSE, gain |-> 0],
          Nothing)

\* The price is known (ticker or limit) and _check_cash_available passes; an order that
\* fails a check here raises before its first write.
Order(c, side, price, volume) ==
    LET j == [side |-> side, price |-> price, volume |-> volume, close |-> FALSE, gain |-> 0]
    IN /\ side = "buy" => Notional(j) <= acct.cash
       /\ Begin(c, "insert", j, Nothing)

\* INSERT INTO paper_trades, for an order or for a close.
InsertTrade(c) ==
    LET j == job[c]
    IN Write(c, "insert", IF j.close THEN "closePosition" ELSE "readPosition",
             [acct EXCEPT !.trades = @ + 1,
                          !.flow = @ + CashDelta(j),
                          !.net = @ + NetDelta(j),
                          !.realized = @ + j.gain])

\* _update_position: each side of the market has a row of its own.
ReadPosition(c) ==
    Read(c, "readPosition", "writePosition", [Nothing EXCEPT !.pos = acct.pos[job[c].side]])

\* No row was there: INSERT.
CreatePosition(c) ==
    /\ got[c].pos.id = 0
    /\ acct.pos[job[c].side].id = 0
    /\ LET id == acct.lastId + 1
       IN Write(c, "writePosition", "readCash",
                [acct EXCEPT !.lastId = id,
                             !.pos = [@ EXCEPT ![job[c].side] =
                                        [id |-> id, volume |-> job[c].volume]]])

\* No row was there but now there is: UNIQUE(exchange, symbol, side) makes the INSERT
\* raise, and the order ends with its trade recorded and its cash unpaid.
CreateFails(c) ==
    /\ got[c].pos.id = 0
    /\ acct.pos[job[c].side].id # 0
    /\ Write(c, "writePosition", "idle", acct)

\* Mutant of GrowPosition: the volume is taken off.
GrowPositionDown(c) ==
    LET old == got[c].pos
    IN /\ old.id # 0
       /\ Write(c, "writePosition", "readCash",
                SetRow(acct, old.id, [old EXCEPT !.volume = @ - job[c].volume]))

\* A row was there: its volume read before, plus the order's, goes to the row of that id.
\* (After a rollback that can be a row of the other side: its number is given again.)
GrowPosition(c) ==
    LET old == got[c].pos
    IN /\ old.id # 0
       /\ Write(c, "writePosition", "readCash",
                SetRow(acct, old.id, [old EXCEPT !.volume = @ + job[c].volume]))

-----------------------------------------------------------------------------
(* close_paper_position *)

\* The row to close is read, and how much of it: all, or at most the volume asked for.
Close(c, side, price, gain, volume) ==
    LET p == acct.pos[Opposite(side)]
        j == [side |-> side, price |-> price, volume |-> volume, close |-> TRUE, gain |-> gain]
    IN /\ p.id # 0
       /\ volume <= p.volume
       /\ Begin(c, "insert", j, [Nothing EXCEPT !.pos = p])

\* Mutant of ClosePosition: a partial close deletes the row.
ClosePositionWhole(c) ==
    Write(c, "closePosition", "readCash", SetRow(acct, got[c].pos.id, NoPosition))

\* Mutant of ClosePosition: a row closed to zero stays.
ClosePositionKeeps(c) ==
    LET old == got[c].pos
    IN Write(c, "closePosition", "readCash",
             SetRow(acct, old.id, [old EXCEPT !.volume = @ - job[c].volume]))

\* DELETE or UPDATE by the row's id, with the volume that was read.
ClosePosition(c) ==
    LET old == got[c].pos
        left == old.volume - job[c].volume
    IN Write(c, "closePosition", "readCash",
             SetRow(acct, old.id, IF left <= 0 THEN NoPosition ELSE [old EXCEPT !.volume = left]))

-----------------------------------------------------------------------------
(* _adjust_cash, _update_daily_pnl *)

ReadCash(c) == Read(c, "readCash", "writeCash", [Nothing EXCEPT !.cash = acct.cash])

\* Mutant of WriteCash: a close is booked with the sign of the position's side.
WriteCashCrossed(c) ==
    Write(c, "writeCash", "readDaily",
          Cash(acct, IF job[c].close THEN got[c].cash - CashDelta(job[c])
                                     ELSE got[c].cash + CashDelta(job[c])))

WriteCash(c) ==
    Write(c, "writeCash", "readDaily", Cash(acct, got[c].cash + CashDelta(job[c])))

ReadDaily(c) ==
    Read(c, "readDaily", "writeDaily",
         [Nothing EXCEPT !.day = acct.day, !.daily = acct.daily])

\* The last write; the result goes back to the caller.
WriteDaily(c) ==
    /\ got[c].day \/ ~acct.day
    /\ Goto(c, "writeDaily", "idle")
    /\ acct' = [acct EXCEPT !.day = TRUE, !.daily = got[c].daily + job[c].gain]
    /\ UNCHANGED <<saved, job, got, started, cuts, hist>>

\* No row for today was there but now there is: daily_pnl.date is UNIQUE, INSERT raises.
DailyFails(c) ==
    /\ ~got[c].day /\ acct.day
    /\ Write(c, "writeDaily", "idle", acct)

-----------------------------------------------------------------------------
(* The environment *)

\* Any component commits the shared connection; update_market_prices does every 30 s.
SomeoneCommits ==
    /\ saved # acct
    /\ saved' = acct
    /\ savedSerial' = (serial /\ Quiet)
    /\ UNCHANGED <<acct, pc, job, got, started, cuts, serial, reach>>

\* A portfolio snapshot fails and its ROLLBACK undoes what everybody has pending on the
\* connection; the trades under way go on with what they have read.
SomeoneRollsBack ==
    /\ saved # acct
    /\ cuts < MaxCuts
    /\ cuts' = cuts + 1
    /\ acct' = saved
    /\ serial' = (savedSerial /\ Quiet)
    /\ UNCHANGED <<saved, pc, job, got, started, savedSerial, reach>>

\* The process dies or shuts down, which closes the connection without a commit, and
\* starts again; init_cash leaves a paper_cash row that exists alone.
Restart ==
    /\ cuts < MaxCuts
    /\ cuts' = cuts + 1
    /\ acct' = saved
    /\ serial' = savedSerial
    /\ pc' = [c \in Clients |-> "idle"]
    /\ job' = [c \in Clients |-> NoJob]
    /\ got' = [c \in Clients |-> Nothing]
    /\ UNCHANGED <<saved, started, savedSerial, reach>>

-----------------------------------------------------------------------------
(* Specification *)

Start(c) ==
    \E side \in Sides, price \in Prices :
        \/ \E volume \in Volumes : Order(c, side, price, volume)
        \/ \E gain \in Gains, volume \in Volumes \cup {acct.pos[Opposite(side)].volume} :
               Close(c, side, price, gain, volume)

Continue(c) ==
    \/ InsertTrade(c)
    \/ ReadPosition(c) \/ CreatePosition(c) \/ CreateFails(c) \/ GrowPosition(c)
    \/ ClosePosition(c)
    \/ ReadCash(c) \/ WriteCash(c)
    \/ ReadDaily(c) \/ WriteDaily(c) \/ DailyFails(c)

Environment == SomeoneCommits \/ SomeoneRollsBack \/ Restart

Next == (\E c \in Clients : Start(c) \/ Continue(c)) \/ Environment

Spec == Init /\ [][Next]_vars

-----------------------------------------------------------------------------
(* Properties *)

\* Every variable has its type.
TypeOK ==
    /\ acct \in Account
    /\ saved \in Account
    /\ pc \in [Clients -> Points]
    /\ job \in [Clients -> Job]
    /\ got \in [Clients -> Got]
    /\ started \in 0 .. MaxTrades
    /\ cuts \in 0 .. MaxCuts
    /\ serial \in BOOLEAN
    /\ savedSerial \in BOOLEAN
    /\ reach \subseteq Int

\* As long as trades came one at a time, what is kept beside them says what they say when
\* none is under way: cash the USDT they brought in, the long row less the short row the
\* volume they bought, daily_pnl the profit of the closes.  A restart or the rollback of
\* another component loses the trades nobody has committed, but then it loses them whole,
\* unless it came in the middle of one, or the last commit did.
BooksMatchTrades ==
    serial /\ Quiet =>
        /\ acct.cash = InitialCash + acct.flow
        /\ acct.pos["buy"].volume - acct.pos["sell"].volume = acct.net
        /\ acct.daily = acct.realized

\* However trades overlap, fail, are cut or rolled back, a trade moves the balance by its
\* own amount once or not at all: a change can be overwritten by a stale one, never booked
\* twice or wrongly.
CashFromTrades == acct.cash \in reach

\* A row is never left without volume, and a missing one has none: also when trades
\* overlap and their stale reads are written back to rows since deleted or created anew.
PositionsPositive ==
    \A s \in Sides : LET p == acct.pos[s] IN IF p.id = 0 THEN p.volume = 0 ELSE p.volume > 0

\* An order that passed the cash check is paid from cash that is there: it never takes
\* the balance below zero, as long as trades come one at a time and no rollback cuts them.
\* (A close is not checked.)
BuysFunded ==
    [][\A c \in Clients :
          serial /\ WriteCash(c) /\ ~job[c].close /\ job[c].side = "buy"
              => acct'.cash >= 0]_vars
=============================================================================
