---------------------------- MODULE OrderLifecycle ----------------------------
(***************************************************************************)
(* What the order managers promise of one order, apart from who asks,      *)
(* which manager works on it, what is tracked, and what fails or restarts: *)
(* its row is written before the exchange hears of it, takes one step at a *)
(* time, says no more than is so at an exchange whose adapter tells the    *)
(* truth, and stays as it is once it is final.                             *)
(***************************************************************************)
CONSTANTS Orders, Exchanges, None,
          Truthful  \* exchanges whose adapter does not make a result of a refusal

VARIABLES
    row,    \* row[o]: the durable status of order o, "none" before its INSERT
    venue,  \* venue[o]: what is at the exchange
    at      \* at[o]: the exchange the request named

Init == /\ row = [o \in Orders |-> "none"]
        /\ venue = [o \in Orders |-> "none"]
        /\ at = [o \in Orders |-> None]

True(o) == at[o] \in Truthful

\* The request: which exchange is fixed here.
Name(o, x) == /\ at[o] = None
              /\ at' = [at EXCEPT ![o] = x]
              /\ UNCHANGED <<row, venue>>

Write(o, from, to) == /\ row[o] = from
                      /\ row' = [row EXCEPT ![o] = to]
                      /\ UNCHANGED <<venue, at>>

Journal(o) == at[o] # None /\ Write(o, "none", "pending")

\* The answer to a placement can get lost: an order recorded as rejected may be there.
Submit(o) == (True(o) => venue[o] # "none") /\ Write(o, "pending", "submitted")
Reject(o) == Write(o, "pending", "rejected")

PartlyFill(o) == /\ venue[o] \in {"partial", "filled", "cancelled"}
                 /\ Write(o, "submitted", "partially_filled")

\* Only an order that was never seen partly filled is found to be filled.
Fill(o) == /\ True(o) => venue[o] \in {"filled", "cancelled"}
           /\ Write(o, "submitted", "filled")

Cancel(o) == /\ True(o) => venue[o] = "cancelled"
             /\ \E from \in {"submitted", "partially_filled"} : Write(o, from, "cancelled")

\* The exchange takes an order that is journaled, fills it and cancels it.
Exchange(o, from, to) == /\ venue[o] \in from
                         /\ venue' = [venue EXCEPT ![o] = to]
                         /\ UNCHANGED <<row, at>>

Take(o) == row[o] = "pending" /\ Exchange(o, {"none"}, "open")
Trade(o) == \E to \in {"partial", "filled"} : Exchange(o, {"open", "partial"}, to)
Withdraw(o) == Exchange(o, {"open", "partial"}, "cancelled")

Next == \E o \in Orders :
            \/ \E x \in Exchanges : Name(o, x)
            \/ Journal(o) \/ Submit(o) \/ Reject(o) \/ PartlyFill(o) \/ Fill(o) \/ Cancel(o)
            \/ Take(o) \/ Trade(o) \/ Withdraw(o)

Spec == Init /\ [][Next]_<<row, venue, at>>
=============================================================================
