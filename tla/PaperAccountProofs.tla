-------------------------- MODULE PaperAccountProofs --------------------------
(***************************************************************************)
(* Proofs about PaperAccount, for any clients, prices, volumes, gains and  *)
(* numbers of trades and cuts.                                             *)
(*                                                                         *)
(* What holds however trades overlap, are committed, cut and rolled back:  *)
(* rows have volume and numbers of their own (RowsOK), and every balance   *)
(* that is stored or committed, or was read and will be written back, can  *)
(* still be combined with the change of every trade that is not yet paid   *)
(* (CashOK).  What holds when they come one at a time and no rollback cuts *)
(* one: the only trade under way finds the books as it left them at its    *)
(* last await (BooksOK).                                                   *)
(***************************************************************************)
EXTENDS PaperAccount, TLAPS

\* The awaits of a trade before it has changed the balance.
Unpaid == {"insert", "readPosition", "writePosition", "closePosition", "readCash", "writeCash"}

\* The awaits between the row in paper_trades and what it changes.
Cashless == Unpaid \ {"insert"}
Rowless == {"readPosition", "writePosition", "closePosition"}

\* c closes a position and has not come to it.
Closing(c) == pc[c] = "closePosition" \/ (pc[c] = "insert" /\ job[c].close)

RowOK(p) == IF p.id = 0 THEN p.volume = 0 ELSE p.volume > 0

\* The numbers of the rows of a were given out, and no two rows have the same.
IdsOK(a) == /\ \A s \in Sides : a.pos[s].id <= a.lastId
            /\ a.pos["buy"].id = a.pos["sell"].id => a.pos["buy"].id = 0

RowsOK ==
    /\ \A s \in Sides : RowOK(acct.pos[s]) /\ RowOK(saved.pos[s])
    /\ IdsOK(acct) /\ IdsOK(saved)
    /\ \A c \in Clients : /\ RowOK(got[c].pos)
                          /\ pc[c] # "idle" => job[c].volume > 0
                          /\ Closing(c) => got[c].pos.id # 0
                          /\ pc[c] \in {"readPosition", "writePosition"} => ~job[c].close

Long(a) == a.pos["buy"].volume - a.pos["sell"].volume

\* The books of a say what its trades say.
Books(a) == /\ a.cash = InitialCash + a.flow
            /\ Long(a) = a.net
            /\ a.daily = a.realized

\* What the trade of c, the only one, finds at its next step.
TradeOK(c) ==
    /\ pc[c] \notin Cashless => acct.cash = InitialCash + acct.flow
    /\ pc[c] \in Cashless => acct.cash + CashDelta(job[c]) = InitialCash + acct.flow
    /\ pc[c] \notin Rowless => Long(acct) = acct.net
    /\ pc[c] \in Rowless => Long(acct) + NetDelta(job[c]) = acct.net
    /\ pc[c] = "insert" => acct.daily = acct.realized
    /\ pc[c] # "insert" => acct.daily + job[c].gain = acct.realized
    /\ pc[c] = "writePosition" => got[c].pos = acct.pos[job[c].side]
    /\ Closing(c) => /\ got[c].pos = acct.pos[Opposite(job[c].side)]
                     /\ job[c].volume <= got[c].pos.volume
    /\ pc[c] = "writeCash" => got[c].cash = acct.cash
    /\ pc[c] = "writeDaily" => got[c].day = acct.day /\ got[c].daily = acct.daily
    /\ pc[c] \in Unpaid /\ ~job[c].close /\ job[c].side = "buy"
          => Notional(job[c]) <= acct.cash

BooksOK ==
    /\ serial => \A c, d \in Clients : pc[c] # "idle" /\ pc[d] # "idle" => c = d
    /\ serial => \A c \in Clients : pc[c] # "idle" => TradeOK(c)
    /\ serial /\ Quiet => Books(acct)
    /\ savedSerial => Books(saved)

Pending == {c \in Clients : pc[c] \in Unpaid}
Dues == [c \in Clients |-> CashDelta(job[c])]

\* v, with the dues of any of the trades of P added to it, is one of R: f gives the sums.
Combines(v, P, due, R) ==
    \E f \in [SUBSET P -> R] :
        /\ f[{}] = v
        /\ \A S \in SUBSET P : \A c \in P \ S : f[S \cup {c}] = f[S] + due[c]

CashOK ==
    /\ Combines(acct.cash, Pending, Dues, reach)
    /\ Combines(saved.cash, Pending, Dues, reach)
    /\ \A c \in Clients : pc[c] = "writeCash" => Combines(got[c].cash, Pending, Dues, reach)

-----------------------------------------------------------------------------
(* Sums of dues *)

\* A value that combines with the trades of P is one of R, and combines with fewer trades.
LEMMA CombinesFewer ==
    ASSUME NEW v, NEW P, NEW due, NEW R, Combines(v, P, due, R), NEW Q \in SUBSET P
    PROVE  v \in R /\ Combines(v, Q, due, R)
  <1>1. PICK f \in [SUBSET P -> R] :
            /\ f[{}] = v
            /\ \A S \in SUBSET P : \A c \in P \ S : f[S \cup {c}] = f[S] + due[c]
        BY DEF Combines
  <1>2. v \in R
        BY <1>1
  <1> DEFINE g == [S \in SUBSET Q |-> f[S]]
  <1>3. g \in [SUBSET Q -> R] /\ g[{}] = v
        BY <1>1
  <1>4. ASSUME NEW S \in SUBSET Q, NEW c \in Q \ S
        PROVE  g[S \cup {c}] = g[S] + due[c]
        BY <1>1
  <1>5. QED
        BY <1>2, <1>3, <1>4 DEF Combines

\* With nothing pending, a value combines if it is one of R.
LEMMA CombinesNone ==
    ASSUME NEW R, NEW v \in R, NEW due
    PROVE  Combines(v, {}, due, R)
  <1> DEFINE f == [S \in SUBSET {} |-> v]
  <1>1. f \in [SUBSET {} -> R] /\ f[{}] = v
        OBVIOUS
  <1>2. \A S \in SUBSET {} : \A c \in {} \ S : f[S \cup {c}] = f[S] + due[c]
        OBVIOUS
  <1>3. QED
        BY <1>1, <1>2 DEF Combines

\* A pending trade that is paid leaves the others pending.
LEMMA CombinesPaid ==
    ASSUME NEW v, NEW P, NEW due, NEW R, Combines(v, P, due, R), NEW c \in P
    PROVE  Combines(v + due[c], P \ {c}, due, R)
  <1>1. PICK f \in [SUBSET P -> R] :
            /\ f[{}] = v
            /\ \A S \in SUBSET P : \A d \in P \ S : f[S \cup {d}] = f[S] + due[d]
        BY DEF Combines
  <1> DEFINE Q == P \ {c}
             g == [S \in SUBSET Q |-> f[S \cup {c}]]
  <1>2. g \in [SUBSET Q -> R]
        BY <1>1
  <1>3. g[{}] = v + due[c]
    <2>1. g[{}] = f[{} \cup {c}]
          OBVIOUS
    <2>2. QED
          BY <1>1, <2>1
  <1>4. ASSUME NEW S \in SUBSET Q, NEW d \in Q \ S
        PROVE  g[S \cup {d}] = g[S] + due[d]
    <2>1. (S \cup {d}) \cup {c} = (S \cup {c}) \cup {d}
          OBVIOUS
    <2>2. S \cup {c} \in SUBSET P /\ d \in P \ (S \cup {c})
          OBVIOUS
    <2>3. f[(S \cup {c}) \cup {d}] = f[S \cup {c}] + due[d]
          BY <1>1, <2>2
    <2>4. g[S \cup {d}] = f[(S \cup {d}) \cup {c}] /\ g[S] = f[S \cup {c}]
          OBVIOUS
    <2>5. QED
          BY <2>1, <2>3, <2>4
  <1>5. QED
        BY <1>2, <1>3, <1>4 DEF Combines

\* A trade that begins makes new sums possible, and everything combines with it.
LEMMA CombinesMore ==
    ASSUME NEW v, NEW P, NEW due, NEW R \in SUBSET Int, Combines(v, P, due, R),
           NEW c, c \notin P, NEW due2, due2[c] \in Int,
           \A d \in P : due2[d] = due[d] /\ due[d] \in Int,
           NEW R2, R \subseteq R2, \A sum \in R : sum + due2[c] \in R2
    PROVE  Combines(v, P \cup {c}, due2, R2)
  <1>1. PICK f \in [SUBSET P -> R] :
            /\ f[{}] = v
            /\ \A S \in SUBSET P : \A d \in P \ S : f[S \cup {d}] = f[S] + due[d]
        BY DEF Combines
  <1> DEFINE Q == P \cup {c}
             g == [S \in SUBSET Q |-> IF c \in S THEN f[S \ {c}] + due2[c] ELSE f[S]]
  <1>2. g \in [SUBSET Q -> R2]
    <2> SUFFICES ASSUME NEW S \in SUBSET Q
                 PROVE  (IF c \in S THEN f[S \ {c}] + due2[c] ELSE f[S]) \in R2
        OBVIOUS
    <2>1. CASE c \in S
      <3>1. S \ {c} \in SUBSET P
            OBVIOUS
      <3>2. f[S \ {c}] \in R
            BY <1>1, <3>1
      <3>3. QED
            BY <2>1, <3>2
    <2>2. CASE c \notin S
          BY <1>1, <2>2
    <2>3. QED
          BY <2>1, <2>2
  <1>3. g[{}] = v
        BY <1>1
  <1>4. ASSUME NEW S \in SUBSET Q, NEW d \in Q \ S
        PROVE  g[S \cup {d}] = g[S] + due2[d]
    <2>0. S \cup {d} \in SUBSET Q
          OBVIOUS
    <2>1. CASE d = c
      <3>1. S \in SUBSET P /\ (S \cup {d}) \ {c} = S
            BY <2>1
      <3>2. g[S] = f[S]
            BY <2>1
      <3>3. g[S \cup {d}] = f[(S \cup {d}) \ {c}] + due2[c]
            BY <2>0, <2>1
      <3>4. QED
            BY <2>1, <3>1, <3>2, <3>3
    <2>2. CASE d # c /\ c \notin S
      <3>1. S \in SUBSET P /\ d \in P \ S /\ c \notin S \cup {d}
            BY <2>2
      <3>2. g[S] = f[S] /\ g[S \cup {d}] = f[S \cup {d}]
            BY <2>0, <3>1, <2>2
      <3>3. QED
            BY <1>1, <3>1, <3>2
    <2>3. CASE d # c /\ c \in S
      <3> DEFINE T == S \ {c}
      <3>1. T \in SUBSET P /\ d \in P \ T /\ (S \cup {d}) \ {c} = T \cup {d}
            BY <2>3
      <3>2. g[S] = f[T] + due2[c]
            BY <2>3
      <3>3. g[S \cup {d}] = f[(S \cup {d}) \ {c}] + due2[c]
            BY <2>0, <2>3
      <3>4. f[T \cup {d}] = f[T] + due[d]
            BY <1>1, <3>1
      <3>5. f[T] \in Int /\ due[d] \in Int /\ due2[d] = due[d]
            BY <1>1, <3>1
      <3> HIDE DEF T, g
      <3>6. \A k, m, n \in Int : (k + m) + n = (k + n) + m
            OBVIOUS
      <3>7. (f[T] + due[d]) + due2[c] = (f[T] + due2[c]) + due[d]
            BY <3>5, <3>6
      <3>8. QED
            BY <3>1, <3>2, <3>3, <3>4, <3>5, <3>7
    <2>4. QED
          BY <2>1, <2>2, <2>3
  <1> HIDE DEF g
  <1>5. QED
        BY <1>2, <1>3, <1>4 DEF Combines

-----------------------------------------------------------------------------
(* Types *)

\* What an order moves: its notional out of or into cash, its volume into or out of the book.
LEMMA Amounts ==
    ASSUME NEW j \in Job
    PROVE  /\ Notional(j) \in Nat
           /\ CashDelta(j) \in Int
           /\ j.side = "buy" => CashDelta(j) = -Notional(j) /\ NetDelta(j) = j.volume
           /\ j.side = "sell" => CashDelta(j) = Notional(j) /\ NetDelta(j) = -j.volume
           /\ NetDelta(j) \in Int
  <1>1. j.price \in Nat /\ j.volume \in Nat /\ j.side \in Sides
    <2>1. \A p \in Prices \cup {0} : p \in Nat
          BY AccountAssumption
    <2>2. QED
          BY <2>1 DEF Job
  <1>2. Notional(j) \in Nat
        BY <1>1 DEF Notional
  <1>3. CASE j.side = "buy"
    <2>1. Sign(j) = 1
          BY <1>3 DEF Sign
    <2>2. CashDelta(j) = -Notional(j) /\ NetDelta(j) = j.volume
          BY <1>1, <1>2, <2>1 DEF CashDelta, NetDelta
    <2>3. QED
          BY <1>1, <1>2, <1>3, <2>2
  <1>4. CASE j.side = "sell"
    <2>1. Sign(j) = -1
          BY <1>4 DEF Sign
    <2>2. CashDelta(j) = Notional(j) /\ NetDelta(j) = -j.volume
          BY <1>1, <1>2, <2>1 DEF CashDelta, NetDelta
    <2>3. QED
          BY <1>1, <1>2, <1>4, <2>2
  <1>5. QED
        BY <1>1, <1>3, <1>4 DEF Sides

\* A job or a read that an action makes up has its type.
LEMMA Made ==
    /\ NoJob \in Job
    /\ Nothing \in Got
    /\ NoPosition \in Position
    /\ \A p \in Position : [Nothing EXCEPT !.pos = p] \in Got
    /\ \A n \in Int : [Nothing EXCEPT !.cash = n] \in Got
    /\ \A b \in BOOLEAN, n \in Int : [Nothing EXCEPT !.day = b, !.daily = n] \in Got
  <1>1. NoJob \in Job
        BY DEF NoJob, Job, Sides
  <1>2. NoPosition \in Position
        BY DEF NoPosition, Position
  <1>3. Nothing \in Got
        BY <1>2 DEF Nothing, Got
  <1>4. ASSUME NEW p \in Position
        PROVE  [Nothing EXCEPT !.pos = p] \in Got
        BY <1>3 DEF Got
  <1>5. ASSUME NEW n \in Int
        PROVE  [Nothing EXCEPT !.cash = n] \in Got
        BY <1>3 DEF Got
  <1>6. ASSUME NEW b \in BOOLEAN, NEW n \in Int
        PROVE  [Nothing EXCEPT !.day = b, !.daily = n] \in Got
        BY <1>3 DEF Got
  <1>7. QED
        BY <1>1, <1>2, <1>3, <1>4, <1>5, <1>6

\* Rows of the account, changed as the actions do, are an account.
LEMMA Changed ==
    ASSUME NEW a \in Account, NEW s \in Sides, NEW p \in Position, NEW n \in Int
    PROVE  /\ Cash(a, n) \in Account
           /\ [a EXCEPT !.day = TRUE, !.daily = n] \in Account
           /\ \A id \in Nat : [a EXCEPT !.lastId = id, !.pos = [@ EXCEPT ![s] = p]] \in Account
           /\ \A i \in Nat, k, l, m \in Int :
                  [a EXCEPT !.trades = i, !.flow = k, !.net = l, !.realized = m] \in Account
  <1>1. a.pos \in [Sides -> Position]
        BY DEF Account
  <1>2. [a.pos EXCEPT ![s] = p] \in [Sides -> Position]
        BY <1>1
  <1>4. Cash(a, n) \in Account /\ [a EXCEPT !.day = TRUE, !.daily = n] \in Account
        BY DEF Account, Cash
  <1>5. ASSUME NEW id \in Nat
        PROVE  [a EXCEPT !.lastId = id, !.pos = [@ EXCEPT ![s] = p]] \in Account
        BY <1>2 DEF Account
  <1>6. ASSUME NEW i \in Nat, NEW k \in Int, NEW l \in Int, NEW m \in Int
        PROVE  [a EXCEPT !.trades = i, !.flow = k, !.net = l, !.realized = m] \in Account
        BY DEF Account
  <1>7. QED
        BY <1>4, <1>5, <1>6

\* An UPDATE or DELETE by id changes the rows of that id and nothing else.
LEMMA RowSet ==
    ASSUME NEW a \in Account, NEW id \in Nat, NEW p \in Position
    PROVE  /\ SetRow(a, id, p) \in Account
           /\ SetRow(a, id, p).pos = [s \in Sides |-> IF a.pos[s].id = id THEN p ELSE a.pos[s]]
           /\ SetRow(a, id, p).cash = a.cash /\ SetRow(a, id, p).flow = a.flow
           /\ SetRow(a, id, p).net = a.net /\ SetRow(a, id, p).daily = a.daily
           /\ SetRow(a, id, p).realized = a.realized /\ SetRow(a, id, p).lastId = a.lastId
  <1> DEFINE q == [s \in Sides |-> IF a.pos[s].id = id THEN p ELSE a.pos[s]]
  <1>1. q \in [Sides -> Position] /\ SetRow(a, id, p) = [a EXCEPT !.pos = q]
        BY DEF Account, SetRow
  <1> HIDE DEF q
  <1>2. /\ [a EXCEPT !.pos = q] \in Account /\ [a EXCEPT !.pos = q].pos = q
        /\ [a EXCEPT !.pos = q].cash = a.cash /\ [a EXCEPT !.pos = q].flow = a.flow
        /\ [a EXCEPT !.pos = q].net = a.net /\ [a EXCEPT !.pos = q].daily = a.daily
        /\ [a EXCEPT !.pos = q].realized = a.realized /\ [a EXCEPT !.pos = q].lastId = a.lastId
        BY <1>1 DEF Account
  <1>3. QED
        BY <1>1, <1>2 DEF q

\* The variables have their types at the start.
LEMMA InitTypes == Init => TypeOK
  <1> SUFFICES ASSUME Init PROVE TypeOK
      OBVIOUS
  <1>1. acct \in Account
    <2>1. InitialCash \in Int
          BY AccountAssumption
    <2>2. [s \in Sides |-> NoPosition] \in [Sides -> Position]
          BY Made
    <2>3. QED
          BY <2>1, <2>2 DEF Init, Account
  <1>2. QED
    <2>1. reach \subseteq Int /\ started \in 0 .. MaxTrades /\ cuts \in 0 .. MaxCuts
          BY AccountAssumption DEF Init
    <2>2. pc \in [Clients -> Points] /\ job \in [Clients -> Job] /\ got \in [Clients -> Got]
          BY Made DEF Init, Points
    <2>3. QED
          BY <1>1, <2>1, <2>2 DEF Init, TypeOK

\* Every step keeps the types.
LEMMA StepTypes == TypeOK /\ [Next]_vars => TypeOK'
  <1> SUFFICES ASSUME TypeOK, [Next]_vars PROVE TypeOK'
      OBVIOUS
  <1> USE DEF TypeOK, Points
  <1>1. ASSUME NEW c \in Clients, NEW to \in Points, NEW j \in Job, NEW r \in Got,
               Begin(c, to, j, r)
        PROVE  TypeOK'
    <2>1. CashDelta(j) \in Int
          BY Amounts
    <2>2. reach' \subseteq Int
      <3> DEFINE d == CashDelta(j)
      <3>1. d \in Int /\ reach' = reach \cup {sum + d : sum \in reach}
            BY <1>1, <2>1 DEF Begin
      <3> HIDE DEF d
      <3>2. reach \in SUBSET Int
            OBVIOUS
      <3>3. \A sum \in reach : sum + d \in Int
            BY <3>1, <3>2
      <3>4. QED
            BY <3>1, <3>2, <3>3
    <2>3. started' \in 0 .. MaxTrades
          BY <1>1, AccountAssumption DEF Begin
    <2>4. QED
          BY <1>1, <2>2, <2>3 DEF Begin, Goto
  <1>2. ASSUME NEW c \in Clients, NEW from, NEW to \in Points, NEW r \in Got,
               Read(c, from, to, r)
        PROVE  TypeOK'
        BY <1>2 DEF Read, Goto, hist
  <1>3. ASSUME NEW c \in Clients, NEW from, NEW to \in Points, NEW a \in Account,
               Write(c, from, to, a)
        PROVE  TypeOK'
        BY <1>3 DEF Write, Goto, hist
  <1>4. ASSUME NEW c \in Clients, Start(c)
        PROVE  TypeOK'
    <2>1. PICK side \in Sides, price \in Prices :
              \/ \E volume \in Volumes : Order(c, side, price, volume)
              \/ \E gain \in Gains,
                    volume \in Volumes \cup {acct.pos[Opposite(side)].volume} :
                     Close(c, side, price, gain, volume)
          BY <1>4 DEF Start
    <2>2. /\ Opposite(side) \in Sides
          /\ acct.pos[Opposite(side)] \in Position
          BY DEF Opposite, Sides, Account
    <2>3. ASSUME NEW volume \in Volumes, Order(c, side, price, volume)
          PROVE  TypeOK'
      <3>1. [side |-> side, price |-> price, volume |-> volume, close |-> FALSE, gain |-> 0]
                \in Job
            BY AccountAssumption DEF Job
      <3>2. QED
            BY <3>1, <2>3, <1>1, Made DEF Order
    <2>4. ASSUME NEW gain \in Gains,
                 NEW volume \in Volumes \cup {acct.pos[Opposite(side)].volume},
                 Close(c, side, price, gain, volume)
          PROVE  TypeOK'
      <3>1. [side |-> side, price |-> price, volume |-> volume, close |-> TRUE, gain |-> gain]
                \in Job
            BY <2>2, AccountAssumption DEF Job, Position
      <3>2. [Nothing EXCEPT !.pos = acct.pos[Opposite(side)]] \in Got
            BY <2>2, Made
      <3>3. QED
            BY <3>1, <3>2, <2>4, <1>1 DEF Close
    <2>5. QED
          BY <2>1, <2>3, <2>4
  <1>5. ASSUME NEW c \in Clients, Continue(c)
        PROVE  TypeOK'
    <2>1. /\ job[c] \in Job /\ got[c] \in Got /\ acct \in Account
          /\ job[c].side \in Sides /\ Opposite(job[c].side) \in Sides
          /\ CashDelta(job[c]) \in Int /\ NetDelta(job[c]) \in Int
          /\ job[c].volume \in Nat /\ job[c].gain \in Int
          BY Amounts DEF Job, Sides, Opposite
    <2>2. /\ got[c].pos \in Position /\ got[c].cash \in Int /\ got[c].daily \in Int
          /\ acct.pos \in [Sides -> Position] /\ acct.lastId \in Nat
          /\ acct.cash \in Int /\ acct.day \in BOOLEAN /\ acct.daily \in Int
          BY <2>1 DEF Got, Account
    <2>3. CASE InsertTrade(c)
      <3>1. [acct EXCEPT !.trades = @ + 1, !.flow = @ + CashDelta(job[c]),
                         !.net = @ + NetDelta(job[c]), !.realized = @ + job[c].gain]
                \in Account
        <4>1. /\ acct.trades + 1 \in Nat
              /\ acct.flow + CashDelta(job[c]) \in Int
              /\ acct.net + NetDelta(job[c]) \in Int
              /\ acct.realized + job[c].gain \in Int
              BY <2>1 DEF Account
        <4>2. QED
              BY <4>1, <2>1, <2>2, Changed
      <3>2. QED
            BY <3>1, <2>3, <1>3 DEF InsertTrade
    <2>4. CASE ReadPosition(c)
      <3>1. [Nothing EXCEPT !.pos = acct.pos[job[c].side]] \in Got
            BY <2>1, <2>2, Made
      <3>2. QED
            BY <3>1, <2>4, <1>2 DEF ReadPosition
    <2>5. CASE CreatePosition(c)
      <3>1. [id |-> acct.lastId + 1, volume |-> job[c].volume] \in Position
            BY <2>1, <2>2 DEF Position
      <3>2. [acct EXCEPT !.lastId = acct.lastId + 1,
                         !.pos = [@ EXCEPT ![job[c].side] =
                                    [id |-> acct.lastId + 1, volume |-> job[c].volume]]]
                \in Account
        <4> DEFINE id == acct.lastId + 1
        <4>1. id \in Nat
              BY <2>2
        <4> HIDE DEF id
        <4>2. [acct EXCEPT !.lastId = id,
                           !.pos = [@ EXCEPT ![job[c].side] =
                                      [id |-> id, volume |-> job[c].volume]]] \in Account
              BY <4>1, <2>1, <3>1, Changed DEF id
        <4>3. QED
              BY <4>2 DEF id
      <3>3. QED
            BY <3>2, <2>5, <1>3 DEF CreatePosition
    <2>6. CASE CreateFails(c)
          BY <2>6, <2>1, <1>3 DEF CreateFails
    <2>7. CASE GrowPosition(c)
      <3>1. [got[c].pos EXCEPT !.volume = @ + job[c].volume] \in Position
            BY <2>1, <2>2 DEF Position
      <3>2. SetRow(acct, got[c].pos.id, [got[c].pos EXCEPT !.volume = @ + job[c].volume])
                \in Account
            BY <2>1, <2>2, <3>1, RowSet DEF Position
      <3>3. QED
            BY <3>2, <2>1, <2>7, <1>3 DEF GrowPosition
    <2>8. CASE ClosePosition(c)
      <3> DEFINE left == got[c].pos.volume - job[c].volume
                 new == IF left <= 0 THEN NoPosition ELSE [got[c].pos EXCEPT !.volume = left]
      <3>1. new \in Position
        <4>1. got[c].pos.volume \in Nat /\ left \in Int
              BY <2>1, <2>2 DEF Position
        <4>2. left > 0 => [got[c].pos EXCEPT !.volume = left] \in Position
          <5> HIDE DEF left
          <5>1. left > 0 => left \in Nat
                BY <4>1
          <5>2. QED
                BY <5>1, <2>2 DEF Position
        <4> HIDE DEF left
        <4>3. CASE left <= 0
              BY <4>3, Made
        <4>4. CASE ~(left <= 0)
          <5>1. left > 0
                BY <4>1, <4>4
          <5>2. QED
                BY <5>1, <4>2, <4>4
        <4>5. QED
              BY <4>3, <4>4
      <3> HIDE DEF new
      <3>2. SetRow(acct, got[c].pos.id, new) \in Account
            BY <2>1, <2>2, <3>1, RowSet DEF Position
      <3>3. QED
            BY <3>2, <2>1, <2>8, <1>3 DEF ClosePosition, new
    <2>9. CASE ReadCash(c)
      <3>1. [Nothing EXCEPT !.cash = acct.cash] \in Got
            BY <2>2, Made
      <3>2. QED
            BY <3>1, <2>9, <1>2 DEF ReadCash
    <2>10. CASE WriteCash(c)
      <3>1. Cash(acct, got[c].cash + CashDelta(job[c])) \in Account
            BY <2>1, <2>2 DEF Cash, Account
      <3>2. QED
            BY <3>1, <2>10, <1>3 DEF WriteCash
    <2>11. CASE ReadDaily(c)
      <3>1. [Nothing EXCEPT !.day = acct.day, !.daily = acct.daily] \in Got
            BY <2>2, Made
      <3>2. QED
            BY <3>1, <2>11, <1>2 DEF ReadDaily
    <2>12. CASE WriteDaily(c)
      <3>1. [acct EXCEPT !.day = TRUE, !.daily = got[c].daily + job[c].gain] \in Account
        <4>1. got[c].daily + job[c].gain \in Int
              BY <2>1, <2>2
        <4>2. QED
              BY <4>1, <2>1, <2>2, Changed
      <3>2. QED
            BY <3>1, <2>12 DEF WriteDaily, Goto, hist
    <2>13. CASE DailyFails(c)
          BY <2>13, <2>1, <1>3 DEF DailyFails
    <2>14. QED
          BY <1>5, <2>3, <2>4, <2>5, <2>6, <2>7, <2>8, <2>9, <2>10, <2>11, <2>12, <2>13
             DEF Continue
  <1>6. CASE SomeoneCommits
    <2>1. savedSerial' \in BOOLEAN
          BY <1>6 DEF SomeoneCommits, Quiet
    <2>2. QED
          BY <1>6, <2>1 DEF SomeoneCommits
  <1>10. CASE SomeoneRollsBack
    <2>1. serial' \in BOOLEAN /\ acct' \in Account
          BY <1>10 DEF SomeoneRollsBack, Quiet
    <2>2. cuts' \in 0 .. MaxCuts
          BY <1>10, AccountAssumption DEF SomeoneRollsBack
    <2>3. QED
          BY <1>10, <2>1, <2>2 DEF SomeoneRollsBack
  <1>7. CASE Restart
    <2>1. acct' \in Account /\ saved' \in Account /\ serial' \in BOOLEAN
             /\ savedSerial' \in BOOLEAN /\ reach' \subseteq Int
          BY <1>7 DEF Restart
    <2>2. started' \in 0 .. MaxTrades /\ cuts' \in 0 .. MaxCuts
          BY <1>7, AccountAssumption DEF Restart
    <2>3. pc' \in [Clients -> Points] /\ job' \in [Clients -> Job] /\ got' \in [Clients -> Got]
          BY <1>7, Made DEF Restart
    <2>4. QED
          BY <2>1, <2>2, <2>3
  <1>8. CASE UNCHANGED vars
        BY <1>8 DEF vars, hist
  <1>9. QED
        BY <1>4, <1>5, <1>6, <1>7, <1>8, <1>10 DEF Next, Environment

\* What the parts of the state are that an action of c looks at.
LEMMA Parts ==
    ASSUME TypeOK, NEW c \in Clients
    PROVE  /\ pc[c] \in Points
           /\ job[c] \in Job /\ got[c] \in Got /\ acct \in Account /\ saved \in Account
           /\ job[c].side \in Sides /\ Opposite(job[c].side) \in Sides
           /\ job[c].volume \in Nat /\ job[c].close \in BOOLEAN /\ job[c].gain \in Int
           /\ got[c].pos \in Position /\ got[c].pos.id \in Nat /\ got[c].pos.volume \in Nat
           /\ got[c].cash \in Int /\ got[c].day \in BOOLEAN /\ got[c].daily \in Int
           /\ acct.pos \in [Sides -> Position] /\ acct.lastId \in Nat
           /\ \A s \in Sides : /\ acct.pos[s] \in Position
                               /\ acct.pos[s].id \in Nat /\ acct.pos[s].volume \in Nat
           /\ acct.cash \in Int /\ acct.flow \in Int /\ acct.net \in Int
           /\ acct.daily \in Int /\ acct.realized \in Int /\ acct.day \in BOOLEAN
  <1>1. /\ pc[c] \in Points
        /\ job[c] \in Job /\ got[c] \in Got /\ acct \in Account /\ saved \in Account
        BY DEF TypeOK
  <1>2. /\ job[c].side \in Sides /\ Opposite(job[c].side) \in Sides
        /\ job[c].volume \in Nat /\ job[c].close \in BOOLEAN /\ job[c].gain \in Int
        BY <1>1 DEF Job, Sides, Opposite
  <1>3. /\ got[c].pos \in Position
        /\ got[c].cash \in Int /\ got[c].day \in BOOLEAN /\ got[c].daily \in Int
        BY <1>1 DEF Got
  <1>4. /\ acct.pos \in [Sides -> Position] /\ acct.lastId \in Nat
        /\ acct.cash \in Int /\ acct.flow \in Int /\ acct.net \in Int
        /\ acct.daily \in Int /\ acct.realized \in Int /\ acct.day \in BOOLEAN
        BY <1>1 DEF Account
  <1>5. \A p \in Position : p.id \in Nat /\ p.volume \in Nat
        BY DEF Position
  <1>6. QED
        BY <1>1, <1>2, <1>3, <1>4, <1>5

-----------------------------------------------------------------------------
(* Rows *)

\* There are no rows at the start.
LEMMA InitRows == Init => RowsOK
  BY DEF Init, RowsOK, RowOK, IdsOK, NoPosition, Nothing, Closing, Sides

\* A write of c that leaves only rows with volume, and goes on as its job says, keeps RowsOK.
LEMMA WriteRows ==
    ASSUME TypeOK, RowsOK, NEW c \in Clients, NEW from, NEW to, NEW a,
           Write(c, from, to, a), from # "idle", to # "insert",
           to = "closePosition" => Closing(c),
           to \in {"readPosition", "writePosition"} => ~job[c].close,
           \A s \in Sides : RowOK(a.pos[s]), IdsOK(a)
    PROVE  RowsOK'
  <1>1. /\ pc[c] = from /\ pc' = [pc EXCEPT ![c] = to]
        /\ acct' = a /\ saved' = saved /\ job' = job /\ got' = got
        BY DEF Write, Goto
  <1>2. /\ \A s \in Sides : RowOK(acct.pos[s])' /\ RowOK(saved.pos[s])'
        /\ IdsOK(acct)' /\ IdsOK(saved)'
        BY <1>1 DEF RowsOK, RowOK, IdsOK
  <1>3. ASSUME NEW d \in Clients
        PROVE  /\ RowOK(got[d].pos)'
               /\ pc'[d] # "idle" => job'[d].volume > 0
               /\ Closing(d)' => got'[d].pos.id # 0
               /\ pc'[d] \in {"readPosition", "writePosition"} => ~job'[d].close
    <2>1. CASE d = c
          BY <1>1, <2>1 DEF RowsOK, RowOK, Closing, TypeOK
    <2>2. CASE d # c
          BY <1>1, <2>2 DEF RowsOK, RowOK, Closing, TypeOK
    <2>3. QED
          BY <2>1, <2>2
  <1>4. QED
        BY <1>2, <1>3 DEF RowsOK

\* A read of c that finds a row with volume, or none, keeps RowsOK.
LEMMA ReadRows ==
    ASSUME TypeOK, RowsOK, NEW c \in Clients, NEW from, NEW to, NEW r \in Got,
           Read(c, from, to, r), from # "idle", to \notin {"insert", "closePosition"},
           to \in {"readPosition", "writePosition"} => ~job[c].close,
           RowOK(r.pos)
    PROVE  RowsOK'
  <1>1. /\ pc[c] = from /\ pc' = [pc EXCEPT ![c] = to]
        /\ acct' = acct /\ saved' = saved /\ job' = job /\ got' = [got EXCEPT ![c] = r]
        BY DEF Read, Goto
  <1>2. /\ \A s \in Sides : RowOK(acct.pos[s])' /\ RowOK(saved.pos[s])'
        /\ IdsOK(acct)' /\ IdsOK(saved)'
        BY <1>1 DEF RowsOK, RowOK, IdsOK
  <1>3. ASSUME NEW d \in Clients
        PROVE  /\ RowOK(got[d].pos)'
               /\ pc'[d] # "idle" => job'[d].volume > 0
               /\ Closing(d)' => got'[d].pos.id # 0
               /\ pc'[d] \in {"readPosition", "writePosition"} => ~job'[d].close
    <2>1. CASE d = c
          BY <1>1, <2>1 DEF RowsOK, RowOK, Closing, TypeOK
    <2>2. CASE d # c
          BY <1>1, <2>2 DEF RowsOK, RowOK, Closing, TypeOK
    <2>3. QED
          BY <2>1, <2>2
  <1>4. QED
        BY <1>2, <1>3 DEF RowsOK

\* A row written by its id keeps the id or is deleted, and so do the rows it is written to.
LEMMA SetRowRows ==
    ASSUME NEW a \in Account, NEW id \in Nat \ {0}, NEW p \in Position,
           p.id \in {0, id}, RowOK(p), IdsOK(a), \A s \in Sides : RowOK(a.pos[s])
    PROVE  IdsOK(SetRow(a, id, p)) /\ \A s \in Sides : RowOK(SetRow(a, id, p).pos[s])
  <1> DEFINE b == SetRow(a, id, p)
  <1>1. /\ b.lastId = a.lastId
        /\ \A s \in Sides : b.pos[s] = IF a.pos[s].id = id THEN p ELSE a.pos[s]
    <2>1. id \in Nat
          OBVIOUS
    <2>2. /\ b.lastId = a.lastId
          /\ b.pos = [s \in Sides |-> IF a.pos[s].id = id THEN p ELSE a.pos[s]]
          BY <2>1, RowSet
    <2> HIDE DEF b
    <2>3. QED
          BY <2>2
  <1>2. a.lastId \in Nat /\ \A s \in Sides : a.pos[s].id \in Nat
        BY DEF Account, Position
  <1> HIDE DEF b
  <1>3. \A s \in Sides : RowOK(b.pos[s])
        BY <1>1
  <1>4. \A s \in Sides : b.pos[s].id <= b.lastId
        BY <1>1, <1>2 DEF IdsOK
  <1>5. b.pos["buy"].id = b.pos["sell"].id => b.pos["buy"].id = 0
        BY <1>1, <1>2 DEF IdsOK, Sides
  <1>6. QED
        BY <1>3, <1>4, <1>5 DEF b, IdsOK

\* Every step keeps RowsOK.
LEMMA StepRows == TypeOK /\ RowsOK /\ [Next]_vars => RowsOK'
  <1> SUFFICES ASSUME TypeOK, RowsOK, [Next]_vars PROVE RowsOK'
      OBVIOUS
  <1>1. ASSUME NEW c \in Clients, NEW j \in Job, NEW r \in Got, Begin(c, "insert", j, r),
               j.volume > 0, RowOK(r.pos), j.close => r.pos.id # 0
        PROVE  RowsOK'
    <2>1. /\ pc' = [pc EXCEPT ![c] = "insert"] /\ job' = [job EXCEPT ![c] = j]
          /\ got' = [got EXCEPT ![c] = r] /\ acct' = acct /\ saved' = saved
          BY <1>1 DEF Begin, Goto
    <2>2. /\ \A s \in Sides : RowOK(acct.pos[s])' /\ RowOK(saved.pos[s])'
          /\ IdsOK(acct)' /\ IdsOK(saved)'
          BY <2>1 DEF RowsOK, RowOK, IdsOK
    <2>3. ASSUME NEW d \in Clients
          PROVE  /\ RowOK(got[d].pos)'
                 /\ pc'[d] # "idle" => job'[d].volume > 0
                 /\ Closing(d)' => got'[d].pos.id # 0
                 /\ pc'[d] \in {"readPosition", "writePosition"} => ~job'[d].close
      <3>1. CASE d = c
            BY <1>1, <2>1, <3>1 DEF RowsOK, RowOK, Closing, TypeOK
      <3>2. CASE d # c
            BY <2>1, <3>2 DEF RowsOK, RowOK, Closing, TypeOK
      <3>3. QED
            BY <3>1, <3>2
    <2>4. QED
          BY <2>2, <2>3 DEF RowsOK
  <1>2. ASSUME NEW c \in Clients, Start(c)
        PROVE  RowsOK'
    <2>1. PICK side \in Sides, price \in Prices :
              \/ \E volume \in Volumes : Order(c, side, price, volume)
              \/ \E gain \in Gains,
                    volume \in Volumes \cup {acct.pos[Opposite(side)].volume} :
                     Close(c, side, price, gain, volume)
          BY <1>2 DEF Start
    <2>2. Opposite(side) \in Sides
          BY DEF Opposite, Sides
    <2>3. acct.pos[Opposite(side)] \in Position /\ RowOK(acct.pos[Opposite(side)])
          BY <2>2, Parts DEF RowsOK
    <2>4. ASSUME NEW volume \in Volumes, Order(c, side, price, volume)
          PROVE  RowsOK'
      <3>1. [side |-> side, price |-> price, volume |-> volume, close |-> FALSE, gain |-> 0]
                \in Job
            BY AccountAssumption DEF Job
      <3>2. volume > 0
            BY AccountAssumption
      <3>3. RowOK(Nothing.pos)
            BY DEF Nothing, NoPosition, RowOK
      <3>4. QED
            BY <3>1, <3>2, <3>3, <2>4, <1>1, Made DEF Order
    <2>5. ASSUME NEW gain \in Gains,
                 NEW volume \in Volumes \cup {acct.pos[Opposite(side)].volume},
                 Close(c, side, price, gain, volume)
          PROVE  RowsOK'
      <3> DEFINE p == acct.pos[Opposite(side)]
      <3>1. p \in Position /\ p.volume \in Nat /\ p.id # 0 /\ p.volume > 0
            BY <2>3, <2>5 DEF Close, RowOK, Position
      <3>2. volume \in Nat /\ volume > 0
            BY <3>1, AccountAssumption
      <3>3. [side |-> side, price |-> price, volume |-> volume, close |-> TRUE, gain |-> gain]
                \in Job
            BY <3>2, AccountAssumption DEF Job
      <3>4. [Nothing EXCEPT !.pos = p] \in Got /\ [Nothing EXCEPT !.pos = p].pos = p
            BY <3>1, Made DEF Nothing
      <3>5. QED
            BY <2>3, <3>1, <3>2, <3>3, <3>4, <2>5, <1>1 DEF Close
    <2>6. QED
          BY <2>1, <2>4, <2>5
  <1>3. ASSUME NEW c \in Clients, Continue(c)
        PROVE  RowsOK'
    <2> USE Parts
    <2>0. /\ \A s \in Sides : RowOK(acct.pos[s])
          /\ IdsOK(acct)
          /\ RowOK(got[c].pos)
          /\ pc[c] # "idle" => job[c].volume > 0
          /\ Closing(c) => got[c].pos.id # 0
          /\ pc[c] \in {"readPosition", "writePosition"} => ~job[c].close
          BY DEF RowsOK
    <2>1. CASE InsertTrade(c)
      <3> DEFINE a == [acct EXCEPT !.trades = @ + 1, !.flow = @ + CashDelta(job[c]),
                                   !.net = @ + NetDelta(job[c]), !.realized = @ + job[c].gain]
      <3>1. a.pos = acct.pos /\ a.lastId = acct.lastId
            BY DEF Account
      <3>2. Write(c, "insert", IF job[c].close THEN "closePosition" ELSE "readPosition", a)
            BY <2>1 DEF InsertTrade
      <3>3. pc[c] = "insert"
            BY <3>2 DEF Write, Goto
      <3> HIDE DEF a
      <3>4. QED
            BY <2>0, <3>1, <3>2, <3>3, WriteRows DEF Closing, IdsOK
    <2>2. CASE ReadPosition(c)
      <3> DEFINE r == [Nothing EXCEPT !.pos = acct.pos[job[c].side]]
      <3>1. r \in Got /\ r.pos = acct.pos[job[c].side]
            BY Made DEF Nothing
      <3>2. Read(c, "readPosition", "writePosition", r)
            BY <2>2 DEF ReadPosition
      <3> HIDE DEF r
      <3>3. pc[c] = "readPosition"
            BY <3>2 DEF Read, Goto
      <3>4. QED
            BY <2>0, <3>1, <3>2, <3>3, ReadRows
    <2>3. CASE CreatePosition(c)
      <3> DEFINE id == acct.lastId + 1
                 p == [id |-> id, volume |-> job[c].volume]
                 a == [acct EXCEPT !.lastId = id, !.pos = [@ EXCEPT ![job[c].side] = p]]
      <3>1. Write(c, "writePosition", "readCash", a)
            BY <2>3 DEF CreatePosition
      <3>2. pc[c] = "writePosition"
            BY <3>1 DEF Write, Goto
      <3>3. RowOK(p)
            BY <2>0, <3>2 DEF RowOK
      <3>4. a.pos = [acct.pos EXCEPT ![job[c].side] = p] /\ a.lastId = id /\ p.id = id
            BY DEF Account
      <3> HIDE DEF a, p
      <3>5. \A s \in Sides : RowOK(a.pos[s])
            BY <2>0, <3>3, <3>4
      <3>6. IdsOK(a)
            BY <2>0, <3>4 DEF IdsOK, Sides
      <3>7. QED
            BY <3>1, <3>5, <3>6, WriteRows
    <2>4. CASE CreateFails(c) \/ DailyFails(c)
          BY <2>0, <2>4, WriteRows DEF CreateFails, DailyFails
    <2>5. CASE GrowPosition(c)
      <3> DEFINE p == [got[c].pos EXCEPT !.volume = @ + job[c].volume]
                 a == SetRow(acct, got[c].pos.id, p)
      <3>1. Write(c, "writePosition", "readCash", a)
            BY <2>5 DEF GrowPosition
      <3>2. pc[c] = "writePosition" /\ got[c].pos.id # 0
            BY <3>1, <2>5 DEF Write, Goto, GrowPosition
      <3>3. p \in Position /\ RowOK(p) /\ p.id = got[c].pos.id
            BY <2>0, <3>2 DEF RowOK, Position
      <3> HIDE DEF p
      <3>4. IdsOK(a) /\ \A s \in Sides : RowOK(a.pos[s])
            BY <2>0, <3>2, <3>3, SetRowRows
      <3> HIDE DEF a
      <3>5. QED
            BY <2>0, <3>1, <3>4, WriteRows
    <2>6. CASE ClosePosition(c)
      <3> DEFINE left == got[c].pos.volume - job[c].volume
                 p == IF left <= 0 THEN NoPosition ELSE [got[c].pos EXCEPT !.volume = left]
                 a == SetRow(acct, got[c].pos.id, p)
      <3>1. Write(c, "closePosition", "readCash", a)
            BY <2>6 DEF ClosePosition
      <3>2. pc[c] = "closePosition" /\ got[c].pos.id # 0
            BY <2>0, <3>1 DEF Write, Goto, Closing
      <3>3. p \in Position /\ RowOK(p) /\ p.id \in {0, got[c].pos.id}
        <4>1. left \in Int
              OBVIOUS
        <4> HIDE DEF left
        <4>2. CASE left <= 0
              BY <4>2, Made DEF NoPosition, RowOK
        <4>3. CASE ~(left <= 0)
          <5>1. left \in Nat /\ left > 0
                BY <4>1, <4>3
          <5>2. QED
                BY <4>3, <5>1, <3>2 DEF RowOK, Position
        <4>4. QED
              BY <4>2, <4>3
      <3> HIDE DEF p
      <3>4. IdsOK(a) /\ \A s \in Sides : RowOK(a.pos[s])
            BY <2>0, <3>2, <3>3, SetRowRows
      <3> HIDE DEF a
      <3>5. QED
            BY <2>0, <3>1, <3>4, WriteRows
    <2>7. CASE ReadCash(c)
      <3> DEFINE r == [Nothing EXCEPT !.cash = acct.cash]
      <3>1. r \in Got /\ RowOK(r.pos)
            BY Made DEF Nothing, NoPosition, RowOK
      <3>2. Read(c, "readCash", "writeCash", r)
            BY <2>7 DEF ReadCash
      <3> HIDE DEF r
      <3>3. QED
            BY <3>1, <3>2, ReadRows
    <2>8. CASE WriteCash(c)
      <3> DEFINE a == Cash(acct, got[c].cash + CashDelta(job[c]))
      <3>1. Write(c, "writeCash", "readDaily", a)
            BY <2>8 DEF WriteCash
      <3>2. a.pos = acct.pos /\ a.lastId = acct.lastId
            BY DEF Cash, Account
      <3> HIDE DEF a
      <3>3. QED
            BY <2>0, <3>1, <3>2, WriteRows DEF IdsOK
    <2>9. CASE ReadDaily(c)
      <3> DEFINE r == [Nothing EXCEPT !.day = acct.day, !.daily = acct.daily]
      <3>1. r \in Got /\ RowOK(r.pos)
            BY Made DEF Nothing, NoPosition, RowOK
      <3>2. Read(c, "readDaily", "writeDaily", r)
            BY <2>9 DEF ReadDaily
      <3> HIDE DEF r
      <3>3. QED
            BY <3>1, <3>2, ReadRows
    <2>10. CASE WriteDaily(c)
      <3> DEFINE a == [acct EXCEPT !.day = TRUE, !.daily = got[c].daily + job[c].gain]
      <3>1. Write(c, "writeDaily", "idle", a)
            BY <2>10 DEF WriteDaily, Write
      <3>2. a.pos = acct.pos /\ a.lastId = acct.lastId
            BY DEF Account
      <3> HIDE DEF a
      <3>3. QED
            BY <2>0, <3>1, <3>2, WriteRows DEF IdsOK
    <2>11. QED
          BY <1>3, <2>1, <2>2, <2>3, <2>4, <2>5, <2>6, <2>7, <2>8, <2>9, <2>10 DEF Continue
  <1>4. CASE SomeoneCommits
        BY <1>4 DEF SomeoneCommits, RowsOK, RowOK, IdsOK, Closing
  <1>8. CASE SomeoneRollsBack
        BY <1>8 DEF SomeoneRollsBack, RowsOK, RowOK, IdsOK, Closing
  <1>5. CASE Restart
    <2>1. /\ acct' = saved /\ saved' = saved /\ pc' = [c \in Clients |-> "idle"]
          /\ got' = [c \in Clients |-> Nothing]
          BY <1>5 DEF Restart
    <2>2. \A c \in Clients : pc'[c] = "idle" /\ RowOK(got[c].pos)'
          BY <2>1 DEF Nothing, NoPosition, RowOK
    <2>3. QED
          BY <2>1, <2>2 DEF RowsOK, RowOK, IdsOK, Closing
  <1>6. CASE UNCHANGED vars
        BY <1>6 DEF vars, RowsOK, RowOK, IdsOK, Closing
  <1>7. QED
        BY <1>2, <1>3, <1>4, <1>5, <1>6, <1>8 DEF Next, Environment

-----------------------------------------------------------------------------
(* Books *)

\* The books are in order at the start.
LEMMA InitBooks == Init => BooksOK
  <1> SUFFICES ASSUME Init PROVE BooksOK
      OBVIOUS
  <1>1. /\ \A c \in Clients : pc[c] = "idle"
        /\ acct.cash = InitialCash /\ acct.flow = 0 /\ acct.net = 0
        /\ acct.daily = 0 /\ acct.realized = 0 /\ saved = acct
        /\ acct.pos = [s \in Sides |-> NoPosition]
        BY DEF Init
  <1>2. Long(acct) = 0
        BY <1>1 DEF Long, Sides, NoPosition
  <1>3. Books(acct) /\ Books(saved)
        BY <1>1, <1>2, AccountAssumption DEF Books, Long
  <1>4. QED
        BY <1>1, <1>3 DEF BooksOK

\* A step of c that, when c is alone, leaves what its next step has to find keeps BooksOK.
LEMMA AloneStep ==
    ASSUME TypeOK, BooksOK, NEW c \in Clients, pc[c] # "idle", NEW to,
           pc' = [pc EXCEPT ![c] = to], UNCHANGED <<saved, serial, savedSerial>>,
           serial /\ to # "idle" => TradeOK(c)',
           serial /\ to = "idle" => Books(acct)'
    PROVE  BooksOK'
  <1>1. serial => \A d \in Clients : d # c => pc[d] = "idle" /\ pc'[d] = "idle"
        BY DEF BooksOK, TypeOK
  <1>2. pc'[c] = to
        BY DEF TypeOK
  <1>3. serial' => \A d, e \in Clients : pc'[d] # "idle" /\ pc'[e] # "idle" => d = e
        BY <1>1
  <1>4. serial' => \A d \in Clients : pc'[d] # "idle" => TradeOK(d)'
        BY <1>1, <1>2
  <1>5. serial' /\ Quiet' => Books(acct)'
        BY <1>2 DEF Quiet
  <1>6. savedSerial' => Books(saved)'
        BY DEF BooksOK, Books, Long
  <1>7. QED
        BY <1>3, <1>4, <1>5, <1>6 DEF BooksOK

\* A trade that begins with nothing under way finds the books in order.
LEMMA BeginBooks ==
    ASSUME TypeOK, BooksOK, NEW c \in Clients, NEW j \in Job, NEW r \in Got,
           Begin(c, "insert", j, r),
           j.close => r.pos = acct.pos[Opposite(j.side)] /\ j.volume <= r.pos.volume,
           ~j.close /\ j.side = "buy" => Notional(j) <= acct.cash
    PROVE  BooksOK'
  <1>1. /\ pc[c] = "idle" /\ pc' = [pc EXCEPT ![c] = "insert"]
        /\ job' = [job EXCEPT ![c] = j] /\ got' = [got EXCEPT ![c] = r]
        /\ acct' = acct /\ saved' = saved /\ savedSerial' = savedSerial
        /\ serial' = (serial /\ Quiet)
        BY DEF Begin, Goto
  <1>2. pc'[c] = "insert" /\ job'[c] = j /\ got'[c] = r
        BY <1>1 DEF TypeOK
  <1>3. serial' => serial /\ \A d \in Clients : d # c => pc'[d] = "idle"
        BY <1>1 DEF Quiet, TypeOK
  <1>4. serial' => Books(acct)
        BY <1>1 DEF BooksOK
  <1>5. serial' => TradeOK(c)'
    <2> SUFFICES ASSUME serial' PROVE TradeOK(c)'
        OBVIOUS
    <2>1. /\ acct.cash = InitialCash + acct.flow /\ Long(acct) = acct.net
          /\ acct.daily = acct.realized
          BY <1>4 DEF Books
    <2>2. Long(acct)' = Long(acct)
          BY <1>1 DEF Long
    <2>3. QED
          BY <1>1, <1>2, <2>1, <2>2 DEF TradeOK, Cashless, Unpaid, Rowless, Closing
  <1>6. ~Quiet'
        BY <1>2 DEF Quiet
  <1>7. savedSerial' => Books(saved)'
        BY <1>1 DEF BooksOK, Books, Long
  <1>8. QED
        BY <1>3, <1>5, <1>6, <1>7 DEF BooksOK

\* A step of a trade leaves what its next step has to find, if it found what it had to find.
LEMMA ContinueBooks ==
    ASSUME TypeOK, RowsOK, BooksOK, NEW c \in Clients, Continue(c)
    PROVE  BooksOK'
  <1> DEFINE j == job[c]
  <1>0. pc[c] # "idle"
    <2>1. \A from, to, r : Read(c, from, to, r) => pc[c] = from
          BY DEF Read, Goto
    <2>2. \A from, to, a : Write(c, from, to, a) => pc[c] = from
          BY DEF Write, Goto
    <2>3. QED
          BY <2>1, <2>2 DEF Continue, InsertTrade, ReadPosition, CreatePosition, CreateFails,
                GrowPosition, ClosePosition, ReadCash, WriteCash, ReadDaily, WriteDaily,
                DailyFails, Goto
  <1>1. serial => TradeOK(c)
        BY <1>0 DEF BooksOK
  <1>2. /\ InitialCash \in Int /\ CashDelta(j) \in Int /\ NetDelta(j) \in Int
        /\ Notional(j) \in Int
        /\ j.side = "buy" => CashDelta(j) = -Notional(j) /\ NetDelta(j) = j.volume
        /\ j.side = "sell" => NetDelta(j) = -j.volume
        /\ j.side \in {"buy", "sell"}
        BY AccountAssumption, Amounts, Parts DEF Sides
  <1>3. /\ acct.pos["buy"].volume \in Int /\ acct.pos["sell"].volume \in Int
        /\ acct.pos["buy"].id \in Nat /\ acct.pos["sell"].id \in Nat
        /\ Long(acct) \in Int
        BY Parts DEF Sides, Long
  <1> USE Parts
  <1>4. CASE InsertTrade(c)
    <2> DEFINE a == [acct EXCEPT !.trades = @ + 1, !.flow = @ + CashDelta(j),
                                 !.net = @ + NetDelta(j), !.realized = @ + j.gain]
               to == IF j.close THEN "closePosition" ELSE "readPosition"
    <2>1. Write(c, "insert", to, a)
          BY <1>4 DEF InsertTrade
    <2>2. /\ a.cash = acct.cash /\ a.pos = acct.pos /\ a.daily = acct.daily
          /\ a.flow = acct.flow + CashDelta(j) /\ a.net = acct.net + NetDelta(j)
          /\ a.realized = acct.realized + j.gain
          BY DEF Account
    <2> HIDE DEF a
    <2>3. /\ pc[c] = "insert" /\ pc' = [pc EXCEPT ![c] = to] /\ pc'[c] = to /\ acct' = a
          /\ UNCHANGED <<job, got, saved, serial, savedSerial>>
          BY <2>1 DEF Write, Goto, hist, TypeOK
    <2>4. Long(acct)' = Long(acct)
          BY <2>2, <2>3 DEF Long
    <2>5. serial => TradeOK(c)'
          BY <1>1, <1>2, <1>3, <2>2, <2>3, <2>4
             DEF TradeOK, Cashless, Unpaid, Rowless, Closing
    <2>6. QED
          BY <1>0, <2>3, <2>5, AloneStep
  <1>5. CASE ReadPosition(c)
    <2> DEFINE r == [Nothing EXCEPT !.pos = acct.pos[j.side]]
    <2>1. Read(c, "readPosition", "writePosition", r)
          BY <1>5 DEF ReadPosition
    <2>2. r.pos = acct.pos[j.side]
          BY DEF Nothing
    <2> HIDE DEF r
    <2>3. /\ pc[c] = "readPosition" /\ pc' = [pc EXCEPT ![c] = "writePosition"]
          /\ pc'[c] = "writePosition" /\ got'[c] = r
          /\ UNCHANGED <<acct, job, saved, serial, savedSerial>>
          BY <2>1 DEF Read, Goto, hist, TypeOK
    <2>4. serial => TradeOK(c)'
          BY <1>1, <2>2, <2>3 DEF TradeOK, Cashless, Unpaid, Rowless, Closing, Long
    <2>5. QED
          BY <1>0, <2>3, <2>4, AloneStep
  <1>6. CASE CreatePosition(c)
    <2> DEFINE p == [id |-> acct.lastId + 1, volume |-> j.volume]
               a == [acct EXCEPT !.lastId = acct.lastId + 1, !.pos = [@ EXCEPT ![j.side] = p]]
    <2>1. Write(c, "writePosition", "readCash", a) /\ acct.pos[j.side].id = 0
          BY <1>6 DEF CreatePosition
    <2>2. /\ a.cash = acct.cash /\ a.flow = acct.flow /\ a.net = acct.net
          /\ a.daily = acct.daily /\ a.realized = acct.realized
          /\ a.pos = [acct.pos EXCEPT ![j.side] = p]
          BY DEF Account
    <2> HIDE DEF a
    <2>3. /\ pc[c] = "writePosition" /\ pc' = [pc EXCEPT ![c] = "readCash"]
          /\ pc'[c] = "readCash" /\ acct' = a
          /\ UNCHANGED <<job, got, saved, serial, savedSerial>>
          BY <2>1 DEF Write, Goto, hist, TypeOK
    <2>4. acct.pos[j.side].volume = 0
          BY <2>1 DEF RowsOK, RowOK
    <2>5. Long(acct)' = Long(acct) + NetDelta(j)
      <3>1. CASE j.side = "buy"
            BY <1>2, <1>3, <2>2, <2>3, <2>4, <3>1 DEF Long, Sides
      <3>2. CASE j.side = "sell"
            BY <1>2, <1>3, <2>2, <2>3, <2>4, <3>2 DEF Long, Sides
      <3>3. QED
            BY <1>2, <3>1, <3>2
    <2>6. serial => TradeOK(c)'
          BY <1>1, <1>2, <2>2, <2>3, <2>5 DEF TradeOK, Cashless, Unpaid, Rowless, Closing
    <2>7. QED
          BY <1>0, <2>3, <2>6, AloneStep
  <1>7. CASE CreateFails(c)
    <2>1. /\ pc[c] = "writePosition" /\ pc' = [pc EXCEPT ![c] = "idle"]
          /\ got[c].pos.id = 0 /\ acct.pos[j.side].id # 0
          /\ UNCHANGED <<saved, serial, savedSerial>>
          BY <1>7 DEF CreateFails, Write, Goto, hist
    <2>2. ~serial
          BY <1>1, <2>1 DEF TradeOK
    <2>3. QED
          BY <1>0, <2>1, <2>2, AloneStep
  <1>8. CASE GrowPosition(c)
    <2> DEFINE p == [got[c].pos EXCEPT !.volume = @ + j.volume]
               a == SetRow(acct, got[c].pos.id, p)
    <2>1. Write(c, "writePosition", "readCash", a) /\ got[c].pos.id # 0
          BY <1>8 DEF GrowPosition
    <2>3. p \in Position /\ p.volume = got[c].pos.volume + j.volume
          BY DEF Position
    <2> HIDE DEF p
    <2>2. /\ a.cash = acct.cash /\ a.flow = acct.flow /\ a.net = acct.net
          /\ a.daily = acct.daily /\ a.realized = acct.realized
          /\ a.pos = [s \in Sides |-> IF acct.pos[s].id = got[c].pos.id THEN p ELSE acct.pos[s]]
      <3>1. acct \in Account /\ got[c].pos.id \in Nat
            OBVIOUS
      <3>2. QED
            BY <3>1, <2>3, RowSet
    <2> HIDE DEF a
    <2>4. /\ pc[c] = "writePosition" /\ pc' = [pc EXCEPT ![c] = "readCash"]
          /\ pc'[c] = "readCash" /\ acct' = a
          /\ UNCHANGED <<job, got, saved, serial, savedSerial>>
          BY <2>1 DEF Write, Goto, hist, TypeOK
    <2>5. serial => got[c].pos = acct.pos[j.side]
          BY <1>1, <2>4 DEF TradeOK
    <2>6. serial => Long(acct)' = Long(acct) + NetDelta(j)
      <3>0. acct.pos["buy"].id = acct.pos["sell"].id => acct.pos["buy"].id = 0
            BY DEF RowsOK, IdsOK
      <3>1. CASE j.side = "buy"
            BY <1>2, <1>3, <2>1, <2>2, <2>3, <2>4, <2>5, <3>0, <3>1 DEF Long, Sides
      <3>2. CASE j.side = "sell"
            BY <1>2, <1>3, <2>1, <2>2, <2>3, <2>4, <2>5, <3>0, <3>2 DEF Long, Sides
      <3>3. QED
            BY <1>2, <3>1, <3>2
    <2>7. serial => TradeOK(c)'
          BY <1>1, <1>2, <2>2, <2>4, <2>6 DEF TradeOK, Cashless, Unpaid, Rowless, Closing
    <2>8. QED
          BY <1>0, <2>4, <2>7, AloneStep
  <1>9. CASE ClosePosition(c)
    <2> DEFINE left == got[c].pos.volume - j.volume
               side == Opposite(j.side)
               p == IF left <= 0 THEN NoPosition ELSE [got[c].pos EXCEPT !.volume = left]
               a == SetRow(acct, got[c].pos.id, p)
    <2>1. Write(c, "closePosition", "readCash", a)
          BY <1>9 DEF ClosePosition
    <2>9. p \in Position
      <3>1. left \in Int
            OBVIOUS
      <3>2. CASE left <= 0
            BY <3>2, Made
      <3> HIDE DEF left
      <3>3. CASE ~(left <= 0)
        <4>1. left \in Nat
              BY <3>1, <3>3
        <4>2. QED
              BY <3>3, <4>1 DEF Position
      <3>4. QED
            BY <3>2, <3>3
    <2>3. j.volume <= got[c].pos.volume => p.volume = left
      <3> SUFFICES ASSUME j.volume <= got[c].pos.volume PROVE p.volume = left
          OBVIOUS
      <3>1. left \in Nat
            OBVIOUS
      <3>2. CASE left = 0
            BY <3>2 DEF NoPosition
      <3>3. CASE left > 0
        <4>1. ~(left <= 0)
              BY <3>1, <3>3
        <4>2. QED
              BY <4>1 DEF Position
      <3>4. QED
            BY <3>1, <3>2, <3>3
    <2> HIDE DEF p
    <2>2. /\ a.cash = acct.cash /\ a.flow = acct.flow /\ a.net = acct.net
          /\ a.daily = acct.daily /\ a.realized = acct.realized
          /\ a.pos = [s \in Sides |-> IF acct.pos[s].id = got[c].pos.id THEN p ELSE acct.pos[s]]
          BY <2>9, RowSet
    <2> HIDE DEF a
    <2>4. /\ pc[c] = "closePosition" /\ pc' = [pc EXCEPT ![c] = "readCash"]
          /\ pc'[c] = "readCash" /\ acct' = a
          /\ UNCHANGED <<job, got, saved, serial, savedSerial>>
          BY <2>1 DEF Write, Goto, hist, TypeOK
    <2>5. serial => got[c].pos = acct.pos[side] /\ j.volume <= got[c].pos.volume
          BY <1>1, <2>4 DEF TradeOK, Closing
    <2>10. acct.pos["buy"].id = acct.pos["sell"].id => acct.pos["buy"].id = 0
          BY DEF RowsOK, IdsOK
    <2>11. got[c].pos.id # 0
          BY <2>4 DEF RowsOK, Closing
    <2>6. serial => Long(acct)' = Long(acct) + NetDelta(j)
      <3>1. CASE j.side = "buy"
        <4>1. side = "sell"
              BY <3>1 DEF Opposite
        <4>2. serial => /\ a.pos["sell"] = p /\ a.pos["buy"] = acct.pos["buy"]
                        /\ p.volume = acct.pos["sell"].volume - j.volume
              BY <2>2, <2>3, <2>5, <2>10, <2>11, <4>1 DEF Sides
        <4>3. QED
              BY <1>2, <1>3, <2>4, <3>1, <4>2 DEF Long
      <3>2. CASE j.side = "sell"
        <4>1. side = "buy"
              BY <3>2 DEF Opposite
        <4>2. serial => /\ a.pos["buy"] = p /\ a.pos["sell"] = acct.pos["sell"]
                        /\ p.volume = acct.pos["buy"].volume - j.volume
              BY <2>2, <2>3, <2>5, <2>10, <2>11, <4>1 DEF Sides
        <4>3. QED
              BY <1>2, <1>3, <2>4, <3>2, <4>2 DEF Long
      <3>3. QED
            BY <1>2, <3>1, <3>2
    <2>7. serial => TradeOK(c)'
          BY <1>1, <1>2, <2>2, <2>4, <2>6 DEF TradeOK, Cashless, Unpaid, Rowless, Closing
    <2>8. QED
          BY <1>0, <2>4, <2>7, AloneStep
  <1>10. CASE ReadCash(c)
    <2> DEFINE r == [Nothing EXCEPT !.cash = acct.cash]
    <2>1. Read(c, "readCash", "writeCash", r)
          BY <1>10 DEF ReadCash
    <2>2. r.cash = acct.cash
          BY DEF Nothing
    <2> HIDE DEF r
    <2>3. /\ pc[c] = "readCash" /\ pc' = [pc EXCEPT ![c] = "writeCash"]
          /\ pc'[c] = "writeCash" /\ got'[c] = r
          /\ UNCHANGED <<acct, job, saved, serial, savedSerial>>
          BY <2>1 DEF Read, Goto, hist, TypeOK
    <2>4. serial => TradeOK(c)'
          BY <1>1, <2>2, <2>3 DEF TradeOK, Cashless, Unpaid, Rowless, Closing, Long
    <2>5. QED
          BY <1>0, <2>3, <2>4, AloneStep
  <1>11. CASE WriteCash(c)
    <2> DEFINE a == Cash(acct, got[c].cash + CashDelta(j))
    <2>1. Write(c, "writeCash", "readDaily", a)
          BY <1>11 DEF WriteCash
    <2>2. /\ a.cash = got[c].cash + CashDelta(j) /\ a.pos = acct.pos /\ a.flow = acct.flow
          /\ a.net = acct.net /\ a.daily = acct.daily /\ a.realized = acct.realized
          BY DEF Account, Cash
    <2> HIDE DEF a
    <2>3. /\ pc[c] = "writeCash" /\ pc' = [pc EXCEPT ![c] = "readDaily"]
          /\ pc'[c] = "readDaily" /\ acct' = a
          /\ UNCHANGED <<job, got, saved, serial, savedSerial>>
          BY <2>1 DEF Write, Goto, hist, TypeOK
    <2>4. serial => TradeOK(c)'
          BY <1>1, <1>2, <2>2, <2>3 DEF TradeOK, Cashless, Unpaid, Rowless, Closing, Long
    <2>5. QED
          BY <1>0, <2>3, <2>4, AloneStep
  <1>12. CASE ReadDaily(c)
    <2> DEFINE r == [Nothing EXCEPT !.day = acct.day, !.daily = acct.daily]
    <2>1. Read(c, "readDaily", "writeDaily", r)
          BY <1>12 DEF ReadDaily
    <2>2. r.day = acct.day /\ r.daily = acct.daily
          BY DEF Nothing
    <2> HIDE DEF r
    <2>3. /\ pc[c] = "readDaily" /\ pc' = [pc EXCEPT ![c] = "writeDaily"]
          /\ pc'[c] = "writeDaily" /\ got'[c] = r
          /\ UNCHANGED <<acct, job, saved, serial, savedSerial>>
          BY <2>1 DEF Read, Goto, hist, TypeOK
    <2>4. serial => TradeOK(c)'
          BY <1>1, <2>2, <2>3 DEF TradeOK, Cashless, Unpaid, Rowless, Closing, Long
    <2>5. QED
          BY <1>0, <2>3, <2>4, AloneStep
  <1>13. CASE WriteDaily(c)
    <2> DEFINE a == [acct EXCEPT !.day = TRUE, !.daily = got[c].daily + j.gain]
    <2>1. /\ a.daily = got[c].daily + j.gain /\ a.pos = acct.pos /\ a.cash = acct.cash
          /\ a.flow = acct.flow /\ a.net = acct.net /\ a.realized = acct.realized
          BY DEF Account
    <2>2. /\ pc[c] = "writeDaily" /\ pc' = [pc EXCEPT ![c] = "idle"] /\ acct' = a
          /\ UNCHANGED <<saved, serial, savedSerial>>
          BY <1>13 DEF WriteDaily, Goto, hist
    <2> HIDE DEF a
    <2>3. serial => Books(acct)'
          BY <1>1, <2>1, <2>2 DEF TradeOK, Books, Cashless, Unpaid, Rowless, Long
    <2>4. QED
          BY <1>0, <2>2, <2>3, AloneStep
  <1>14. CASE DailyFails(c)
    <2>1. /\ pc[c] = "writeDaily" /\ pc' = [pc EXCEPT ![c] = "idle"]
          /\ ~got[c].day /\ acct.day
          /\ UNCHANGED <<saved, serial, savedSerial>>
          BY <1>14 DEF DailyFails, Write, Goto, hist
    <2>2. ~serial
          BY <1>1, <2>1 DEF TradeOK
    <2>3. QED
          BY <1>0, <2>1, <2>2, AloneStep
  <1>15. QED
        BY <1>4, <1>5, <1>6, <1>7, <1>8, <1>9, <1>10, <1>11, <1>12, <1>13, <1>14 DEF Continue

\* Every step keeps BooksOK.
LEMMA StepBooks == TypeOK /\ RowsOK /\ BooksOK /\ [Next]_vars => BooksOK'
  <1> SUFFICES ASSUME TypeOK, RowsOK, BooksOK, [Next]_vars PROVE BooksOK'
      OBVIOUS
  <1>1. ASSUME NEW c \in Clients, Start(c)
        PROVE  BooksOK'
    <2>1. PICK side \in Sides, price \in Prices :
              \/ \E volume \in Volumes : Order(c, side, price, volume)
              \/ \E gain \in Gains,
                    volume \in Volumes \cup {acct.pos[Opposite(side)].volume} :
                     Close(c, side, price, gain, volume)
          BY <1>1 DEF Start
    <2>2. ASSUME NEW volume \in Volumes, Order(c, side, price, volume)
          PROVE  BooksOK'
      <3> DEFINE j == [side |-> side, price |-> price, volume |-> volume, close |-> FALSE,
                       gain |-> 0]
      <3>1. j \in Job
            BY AccountAssumption DEF Job
      <3>2. ~j.close /\ j.side = side
            OBVIOUS
      <3>3. Begin(c, "insert", j, Nothing) /\ (side = "buy" => Notional(j) <= acct.cash)
            BY <2>2 DEF Order
      <3> HIDE DEF j
      <3>4. QED
            BY <3>1, <3>2, <3>3, BeginBooks, Made
    <2>3. ASSUME NEW gain \in Gains,
                 NEW volume \in Volumes \cup {acct.pos[Opposite(side)].volume},
                 Close(c, side, price, gain, volume)
          PROVE  BooksOK'
      <3> DEFINE p == acct.pos[Opposite(side)]
                 j == [side |-> side, price |-> price, volume |-> volume, close |-> TRUE,
                       gain |-> gain]
                 r == [Nothing EXCEPT !.pos = p]
      <3>1. Opposite(side) \in Sides /\ p \in Position /\ p.volume \in Nat
            BY Parts DEF Opposite, Sides
      <3>2. volume \in Nat
            BY <3>1, AccountAssumption
      <3>3. j \in Job /\ j.close /\ j.side = side /\ j.volume = volume
            BY <3>2, AccountAssumption DEF Job
      <3>4. r \in Got /\ r.pos = p
            BY <3>1, Made DEF Nothing
      <3>5. Begin(c, "insert", j, r) /\ volume <= p.volume
            BY <2>3 DEF Close
      <3> HIDE DEF j, r
      <3>6. QED
            BY <3>3, <3>4, <3>5, BeginBooks
    <2>4. QED
          BY <2>1, <2>2, <2>3
  <1>2. ASSUME NEW c \in Clients, Continue(c)
        PROVE  BooksOK'
        BY <1>2, ContinueBooks
  <1>3. CASE SomeoneCommits
        BY <1>3 DEF SomeoneCommits, BooksOK, Books, Long, Quiet, TradeOK, Closing
  <1>4. CASE Restart
    <2>1. /\ acct' = saved /\ saved' = saved /\ serial' = savedSerial
          /\ savedSerial' = savedSerial /\ \A c \in Clients : pc'[c] = "idle"
          BY <1>4 DEF Restart
    <2>2. savedSerial => Books(saved) /\ Books(acct)' /\ Books(saved)'
          BY <2>1 DEF BooksOK, Books, Long
    <2>3. QED
          BY <2>1, <2>2 DEF BooksOK
  <1>5. CASE UNCHANGED vars
        BY <1>5 DEF vars, hist, BooksOK, Books, Long, Quiet, TradeOK, Closing
  <1>6. CASE SomeoneRollsBack
    <2>1. /\ acct' = saved /\ saved' = saved /\ serial' = (savedSerial /\ Quiet)
          /\ savedSerial' = savedSerial /\ pc' = pc
          BY <1>6 DEF SomeoneRollsBack
    <2>2. serial' => \A c \in Clients : pc'[c] = "idle"
          BY <2>1 DEF Quiet
    <2>3. savedSerial => Books(saved) /\ Books(acct)' /\ Books(saved)'
          BY <2>1 DEF BooksOK, Books, Long
    <2>4. QED
          BY <2>1, <2>2, <2>3 DEF BooksOK
  <1>7. QED
        BY <1>1, <1>2, <1>3, <1>4, <1>5, <1>6 DEF Next, Environment

-----------------------------------------------------------------------------
(* Cash *)

\* At the start nothing is pending and the balance is InitialCash.
LEMMA InitCash == Init => CashOK
  <1> SUFFICES ASSUME Init PROVE CashOK
      OBVIOUS
  <1>1. /\ \A c \in Clients : pc[c] = "idle"
        /\ acct.cash = InitialCash /\ saved = acct /\ reach = {InitialCash}
        BY DEF Init
  <1>2. Pending = {}
        BY <1>1 DEF Pending, Unpaid
  <1>3. acct.cash \in reach
        BY <1>1
  <1> HIDE DEF Init
  <1>4. Combines(acct.cash, Pending, Dues, reach)
        BY <1>2, <1>3, CombinesNone
  <1>5. Combines(saved.cash, Pending, Dues, reach)
        BY <1>1, <1>4
  <1>6. QED
        BY <1>1, <1>4, <1>5 DEF CashOK

\* A step that neither begins nor pays a trade keeps CashOK: a trade may go on, fail, or
\* read the balance, and what is pending may be committed or rolled back.
LEMMA OtherCash ==
    ASSUME TypeOK, CashOK, Pending' \subseteq Pending, acct'.cash \in {saved.cash, acct.cash},
           saved'.cash \in {saved.cash, acct.cash}, UNCHANGED <<job, reach>>,
           \A c \in Clients : pc'[c] = "writeCash" =>
               \/ pc[c] = "writeCash" /\ got'[c].cash = got[c].cash
               \/ got'[c].cash = acct.cash
    PROVE  CashOK'
  <1>1. Dues' = Dues
        BY DEF Dues
  <1>2. Combines(acct.cash, Pending, Dues, reach)
        BY DEF CashOK
  <1>3. \A v \in {saved.cash, acct.cash} : Combines(v, Pending', Dues, reach)
    <2>1. \A v \in {saved.cash, acct.cash} : Combines(v, Pending, Dues, reach)
          BY DEF CashOK
    <2>2. QED
          BY <2>1, CombinesFewer
  <1>4. ASSUME NEW c \in Clients, pc'[c] = "writeCash"
        PROVE  Combines(got'[c].cash, Pending', Dues, reach)
    <2>1. Combines(got'[c].cash, Pending, Dues, reach)
          BY <1>2, <1>4 DEF CashOK
    <2>2. QED
          BY <2>1, CombinesFewer
  <1>5. QED
        BY <1>1, <1>3, <1>4 DEF CashOK

\* A trade that begins adds the sums with its due to reach.
LEMMA BeginCash ==
    ASSUME TypeOK, CashOK, NEW c \in Clients, NEW j \in Job, NEW r,
           Begin(c, "insert", j, r)
    PROVE  CashOK'
  <1> DEFINE d == CashDelta(j)
             R == reach \cup {sum + d : sum \in reach}
  <1>1. /\ pc[c] = "idle" /\ pc' = [pc EXCEPT ![c] = "insert"]
        /\ job' = [job EXCEPT ![c] = j] /\ got' = [got EXCEPT ![c] = r]
        /\ acct' = acct /\ saved' = saved /\ reach' = R
        BY DEF Begin, Goto
  <1>2. d \in Int
        BY Amounts
  <1>3. Dues'[c] = d /\ \A e \in Clients : e # c => Dues'[e] = Dues[e]
        BY <1>1 DEF Dues, TypeOK
  <1>4. \A e \in Clients : Dues[e] \in Int
        BY Amounts DEF Dues, TypeOK
  <1>5. Pending \subseteq Clients /\ c \notin Pending /\ Pending' = Pending \cup {c}
        BY <1>1 DEF Pending, Unpaid, TypeOK
  <1>6. reach \in SUBSET Int
        BY DEF TypeOK
  <1> HIDE DEF d
  <1>7. ASSUME NEW v, Combines(v, Pending, Dues, reach)
        PROVE  Combines(v, Pending', Dues', reach')
    <2>1. \A e \in Pending : Dues'[e] = Dues[e] /\ Dues[e] \in Int
          BY <1>3, <1>4, <1>5
    <2> DEFINE due2 == Dues'
    <2>2. due2[c] = d /\ \A e \in Pending : due2[e] = Dues[e] /\ Dues[e] \in Int
          BY <1>3, <2>1
    <2> HIDE DEF due2
    <2>3. reach \subseteq R /\ \A sum \in reach : sum + due2[c] \in R
          BY <2>2
    <2> HIDE DEF R
    <2>4. Combines(v, Pending \cup {c}, due2, R)
          BY <1>2, <1>5, <1>6, <1>7, <2>2, <2>3, CombinesMore
    <2>5. QED
          BY <1>1, <1>5, <2>4 DEF due2
  <1>8. Combines(acct'.cash, Pending', Dues', reach')
        BY <1>1, <1>7 DEF CashOK
  <1>9. Combines(saved'.cash, Pending', Dues', reach')
        BY <1>1, <1>7 DEF CashOK
  <1>10. ASSUME NEW e \in Clients, pc'[e] = "writeCash"
         PROVE  Combines(got'[e].cash, Pending', Dues', reach')
    <2>1. pc[e] = "writeCash" /\ got'[e] = got[e]
          BY <1>1, <1>10 DEF TypeOK
    <2>2. QED
          BY <1>7, <2>1 DEF CashOK
  <1>11. QED
         BY <1>8, <1>9, <1>10 DEF CashOK

\* A trade that is paid takes the balance it read, with its own due, for the new one.
LEMMA PaidCash ==
    ASSUME TypeOK, CashOK, NEW c \in Clients, WriteCash(c)
    PROVE  CashOK'
  <1>1. /\ pc[c] = "writeCash" /\ pc' = [pc EXCEPT ![c] = "readDaily"]
        /\ acct' = Cash(acct, got[c].cash + CashDelta(job[c]))
        /\ saved' = saved /\ job' = job /\ got' = got /\ reach' = reach
        BY DEF WriteCash, Write, Goto, hist
  <1>2. acct'.cash = got[c].cash + Dues[c]
        BY <1>1 DEF Cash, TypeOK, Account, Dues
  <1>3. Dues' = Dues
        BY <1>1 DEF Dues
  <1>4. c \in Pending /\ Pending' = Pending \ {c}
        BY <1>1 DEF Pending, Unpaid, TypeOK
  <1>5. Combines(got[c].cash, Pending, Dues, reach)
        BY <1>1 DEF CashOK
  <1>6. Combines(acct'.cash, Pending', Dues, reach)
        BY <1>2, <1>4, <1>5, CombinesPaid
  <1>7. ASSUME NEW e \in Clients, pc'[e] = "writeCash"
        PROVE  Combines(got'[e].cash, Pending', Dues, reach)
    <2>1. pc[e] = "writeCash" /\ got'[e] = got[e]
          BY <1>1, <1>7 DEF TypeOK
    <2>2. Combines(got[e].cash, Pending, Dues, reach)
          BY <2>1 DEF CashOK
    <2>3. QED
          BY <1>4, <2>1, <2>2, CombinesFewer
  <1>8. Combines(saved.cash, Pending', Dues, reach)
    <2>1. Combines(saved.cash, Pending, Dues, reach)
          BY DEF CashOK
    <2>2. QED
          BY <1>4, <2>1, CombinesFewer
  <1>9. QED
        BY <1>1, <1>3, <1>6, <1>7, <1>8 DEF CashOK

\* Every step keeps CashOK.
LEMMA StepCash == TypeOK /\ CashOK /\ [Next]_vars => CashOK'
  <1> SUFFICES ASSUME TypeOK, CashOK, [Next]_vars PROVE CashOK'
      OBVIOUS
  <1>1. ASSUME NEW c \in Clients, Start(c)
        PROVE  CashOK'
    <2>1. PICK side \in Sides, price \in Prices :
              \/ \E volume \in Volumes : Order(c, side, price, volume)
              \/ \E gain \in Gains,
                    volume \in Volumes \cup {acct.pos[Opposite(side)].volume} :
                     Close(c, side, price, gain, volume)
          BY <1>1 DEF Start
    <2>2. ASSUME NEW volume \in Volumes, Order(c, side, price, volume)
          PROVE  CashOK'
      <3>1. [side |-> side, price |-> price, volume |-> volume, close |-> FALSE, gain |-> 0]
                \in Job
            BY AccountAssumption DEF Job
      <3>2. QED
            BY <3>1, <2>2, BeginCash DEF Order
    <2>3. ASSUME NEW gain \in Gains,
                 NEW volume \in Volumes \cup {acct.pos[Opposite(side)].volume},
                 Close(c, side, price, gain, volume)
          PROVE  CashOK'
      <3>1. Opposite(side) \in Sides
            BY DEF Opposite, Sides
      <3>2. volume \in Nat
            BY <3>1, Parts, AccountAssumption
      <3>3. [side |-> side, price |-> price, volume |-> volume, close |-> TRUE, gain |-> gain]
                \in Job
            BY <3>2, AccountAssumption DEF Job
      <3>4. QED
            BY <3>3, <2>3, BeginCash DEF Close
    <2>4. QED
          BY <2>1, <2>2, <2>3
  <1>2. ASSUME NEW c \in Clients, NEW from, NEW to, NEW r, Read(c, from, to, r),
               from \in Unpaid \/ to \notin Unpaid, to = "writeCash" => r.cash = acct.cash
        PROVE  CashOK'
    <2>1. /\ pc[c] = from /\ pc' = [pc EXCEPT ![c] = to] /\ got' = [got EXCEPT ![c] = r]
          /\ UNCHANGED <<acct, saved, job, reach>>
          BY <1>2 DEF Read, Goto, hist
    <2>2. Pending' \subseteq Pending
          BY <1>2, <2>1 DEF Pending, TypeOK
    <2>3. \A e \in Clients : pc'[e] = "writeCash" =>
              \/ pc[e] = "writeCash" /\ got'[e].cash = got[e].cash
              \/ got'[e].cash = acct.cash
          BY <1>2, <2>1 DEF TypeOK
    <2>4. QED
          BY <2>1, <2>2, <2>3, OtherCash
  <1>3. ASSUME NEW c \in Clients, NEW from, NEW to, NEW a, Write(c, from, to, a),
               from \in Unpaid \/ to \notin Unpaid, to # "writeCash", a.cash = acct.cash
        PROVE  CashOK'
    <2>1. /\ pc[c] = from /\ pc' = [pc EXCEPT ![c] = to] /\ acct' = a
          /\ UNCHANGED <<saved, job, got, reach>>
          BY <1>3 DEF Write, Goto, hist
    <2>2. Pending' \subseteq Pending
          BY <1>3, <2>1 DEF Pending, TypeOK
    <2>3. \A e \in Clients : pc'[e] = "writeCash" => pc[e] = "writeCash"
          BY <1>3, <2>1 DEF TypeOK
    <2>4. QED
          BY <1>3, <2>1, <2>2, <2>3, OtherCash
  <1>4. ASSUME NEW c \in Clients, Continue(c)
        PROVE  CashOK'
    <2>0. acct \in Account
          BY DEF TypeOK
    <2> USE DEF Unpaid
    <2>1. CASE InsertTrade(c)
      <3> DEFINE a == [acct EXCEPT !.trades = @ + 1, !.flow = @ + CashDelta(job[c]),
                                   !.net = @ + NetDelta(job[c]), !.realized = @ + job[c].gain]
      <3>1. Write(c, "insert", IF job[c].close THEN "closePosition" ELSE "readPosition", a)
            BY <2>1 DEF InsertTrade
      <3>2. a.cash = acct.cash
            BY <2>0 DEF Account
      <3> HIDE DEF a
      <3>3. QED
            BY <1>3, <3>1, <3>2
    <2>2. CASE ReadPosition(c)
          BY <1>2, <2>2 DEF ReadPosition
    <2>3. CASE CreatePosition(c)
      <3> DEFINE id == acct.lastId + 1
                 a == [acct EXCEPT !.lastId = id,
                                   !.pos = [@ EXCEPT ![job[c].side] =
                                              [id |-> id, volume |-> job[c].volume]]]
      <3>1. Write(c, "writePosition", "readCash", a)
            BY <2>3 DEF CreatePosition
      <3>2. a.cash = acct.cash
            BY <2>0 DEF Account
      <3> HIDE DEF a
      <3>3. QED
            BY <1>3, <3>1, <3>2
    <2>4. CASE CreateFails(c) \/ DailyFails(c)
          BY <1>3, <2>4 DEF CreateFails, DailyFails
    <2>5. CASE GrowPosition(c)
      <3> DEFINE a == SetRow(acct, got[c].pos.id,
                             [got[c].pos EXCEPT !.volume = @ + job[c].volume])
      <3>1. Write(c, "writePosition", "readCash", a)
            BY <2>5 DEF GrowPosition
      <3>2. a.cash = acct.cash
            BY <2>0 DEF Account, SetRow
      <3> HIDE DEF a
      <3>3. QED
            BY <1>3, <3>1, <3>2
    <2>6. CASE ClosePosition(c)
      <3> DEFINE left == got[c].pos.volume - job[c].volume
                 a == SetRow(acct, got[c].pos.id,
                             IF left <= 0 THEN NoPosition
                             ELSE [got[c].pos EXCEPT !.volume = left])
      <3>1. Write(c, "closePosition", "readCash", a)
            BY <2>6 DEF ClosePosition
      <3>2. a.cash = acct.cash
            BY <2>0 DEF Account, SetRow
      <3> HIDE DEF a
      <3>3. QED
            BY <1>3, <3>1, <3>2
    <2>7. CASE ReadCash(c)
      <3> DEFINE r == [Nothing EXCEPT !.cash = acct.cash]
      <3>1. Read(c, "readCash", "writeCash", r)
            BY <2>7 DEF ReadCash
      <3>2. r.cash = acct.cash
            BY DEF Nothing
      <3> HIDE DEF r
      <3>3. QED
            BY <1>2, <3>1, <3>2
    <2>8. CASE WriteCash(c)
          BY <2>8, PaidCash
    <2>9. CASE ReadDaily(c)
          BY <1>2, <2>9 DEF ReadDaily
    <2>10. CASE WriteDaily(c)
      <3> DEFINE a == [acct EXCEPT !.day = TRUE, !.daily = got[c].daily + job[c].gain]
      <3>1. Write(c, "writeDaily", "idle", a)
            BY <2>10 DEF WriteDaily, Write
      <3>2. a.cash = acct.cash
            BY <2>0 DEF Account
      <3> HIDE DEF a
      <3>3. QED
            BY <1>3, <3>1, <3>2
    <2>11. QED
          BY <1>4, <2>1, <2>2, <2>3, <2>4, <2>5, <2>6, <2>7, <2>8, <2>9, <2>10 DEF Continue
  <1>5. CASE SomeoneCommits
    <2>1. /\ saved' = acct /\ UNCHANGED <<acct, pc, job, got, reach>>
          BY <1>5 DEF SomeoneCommits
    <2>2. Pending' = Pending
          BY <2>1 DEF Pending
    <2>3. QED
          BY <2>1, <2>2, OtherCash
  <1>6. CASE Restart
    <2>1. /\ acct' = saved /\ saved' = saved /\ reach' = reach
          /\ \A c \in Clients : pc'[c] = "idle"
          BY <1>6 DEF Restart
    <2>2. Pending' = {}
          BY <2>1 DEF Pending, Unpaid
    <2>3. Combines(saved.cash, Pending, Dues, reach)
          BY DEF CashOK
    <2>4. saved.cash \in reach
          BY <2>3, CombinesFewer
    <2>5. Combines(saved.cash, Pending', Dues', reach)
          BY <2>2, <2>4, CombinesNone
    <2>6. QED
          BY <2>1, <2>5 DEF CashOK
  <1>9. CASE SomeoneRollsBack
    <2>1. /\ acct' = saved /\ UNCHANGED <<saved, pc, job, got, reach>>
          BY <1>9 DEF SomeoneRollsBack
    <2>2. Pending' = Pending
          BY <2>1 DEF Pending
    <2>3. QED
          BY <2>1, <2>2, OtherCash
  <1>7. CASE UNCHANGED vars
    <2>1. UNCHANGED <<acct, saved, pc, job, got, reach>>
          BY <1>7 DEF vars, hist
    <2>2. Pending' = Pending
          BY <2>1 DEF Pending
    <2>3. QED
          BY <2>1, <2>2, OtherCash
  <1>8. QED
        BY <1>1, <1>4, <1>5, <1>6, <1>7, <1>9 DEF Next, Environment

-----------------------------------------------------------------------------
(* Theorems *)

\* What holds in every state: the types, the rows, the sums and the books.
IInv == TypeOK /\ RowsOK /\ BooksOK /\ CashOK

\* The inductive invariant is an invariant.
THEOREM Invariant == Spec => []IInv
  <1>1. Init => IInv
        BY InitTypes, InitRows, InitBooks, InitCash DEF IInv
  <1>2. IInv /\ [Next]_vars => IInv'
        BY StepTypes, StepRows, StepBooks, StepCash DEF IInv
  <1>3. QED
        BY <1>1, <1>2, PTL DEF Spec

\* Every variable of the account keeps its type, whatever reads and writes of trades meet.
THEOREM TypeCorrect == Spec => []TypeOK
  <1>1. IInv => TypeOK
        BY DEF IInv
  <1>2. QED
        BY <1>1, Invariant, PTL

\* No UPDATE or INSERT of _update_position and close_paper_position leaves a row without
\* volume, whatever stale row it was computed from.
THEOREM RowsHaveVolume == Spec => []PositionsPositive
  <1>1. IInv => PositionsPositive
        BY DEF IInv, RowsOK, RowOK, PositionsPositive
  <1>2. QED
        BY <1>1, Invariant, PTL

\* Trades that came one at a time leave cash, positions and daily_pnl at what the rows of
\* paper_trades say, also after restarts and rollbacks that lost whole trades.
THEOREM BooksBalance == Spec => []BooksMatchTrades
  <1>1. IInv => BooksMatchTrades
        BY DEF IInv, BooksOK, Books, Long, BooksMatchTrades
  <1>2. QED
        BY <1>1, Invariant, PTL

\* The balance _adjust_cash writes is the initial one and the changes of some of the trades,
\* each once.
THEOREM BalanceFromTrades == Spec => []CashFromTrades
  <1>1. IInv => CashFromTrades
    <2>1. IInv => Combines(acct.cash, Pending, Dues, reach)
          BY DEF IInv, CashOK
    <2>2. QED
          BY <2>1, CombinesFewer DEF CashFromTrades
  <1>2. QED
        BY <1>1, Invariant, PTL

\* A buy that passed _check_cash_available never takes the balance below zero, when trades
\* come one at a time and no rollback has cut one or come into this one.
THEOREM FundedBuys == Spec => BuysFunded
  <1>1. ASSUME IInv, NEW c \in Clients, serial, WriteCash(c), ~job[c].close,
               job[c].side = "buy"
        PROVE  acct'.cash >= 0
    <2>1. /\ pc[c] = "writeCash" /\ acct' = Cash(acct, got[c].cash + CashDelta(job[c]))
          BY <1>1 DEF WriteCash, Write, Goto
    <2>2. acct'.cash = got[c].cash + CashDelta(job[c])
          BY <1>1, <2>1 DEF Cash, IInv, TypeOK, Account
    <2>3. TradeOK(c)
          BY <1>1, <2>1 DEF IInv, BooksOK
    <2>4. got[c].cash = acct.cash /\ Notional(job[c]) <= acct.cash
          BY <1>1, <2>1, <2>3 DEF TradeOK, Unpaid
    <2>5. /\ Notional(job[c]) \in Nat /\ CashDelta(job[c]) = -Notional(job[c])
          /\ acct.cash \in Int
          BY <1>1, Amounts, Parts DEF IInv
    <2>6. QED
          BY <2>2, <2>4, <2>5
  <1>2. IInv /\ [Next]_vars =>
            [\A c \in Clients :
               serial /\ WriteCash(c) /\ ~job[c].close /\ job[c].side = "buy"
                   => acct'.cash >= 0]_vars
        BY <1>1
  <1>3. QED
        BY <1>2, Invariant, PTL DEF Spec, BuysFunded
=============================================================================
