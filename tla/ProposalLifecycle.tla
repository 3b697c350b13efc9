-------------------------- MODULE ProposalLifecycle --------------------------
(***************************************************************************)
(* What the proposal queue promises of one proposal, apart from how        *)
(* requests, commits and restarts get there: it is decided once, an order  *)
(* is placed only while it is approved, at most one, and it counts as      *)
(* executed only when that order exists, if the exchange's adapter tells.  *)
(* What a rollback behind the queue's back leaves of that: a proposal that *)
(* was durably decided keeps it all, any other is still decided once.      *)
(***************************************************************************)
EXTENDS Naturals

CONSTANTS Proposals,
          Truthful  \* proposals for an exchange whose adapter raises when it is refused

VARIABLES
    status,  \* the proposal's durable status
    orders,  \* exchange orders placed on approval
    undone   \* proposals whose approval may have been undone before it was durable

Init == /\ status = [p \in Proposals |-> "none"]
        /\ orders = [p \in Proposals |-> 0]
        /\ undone = {}

Move(p, from, to) == /\ status[p] = from
                     /\ status' = [status EXCEPT ![p] = to]
                     /\ UNCHANGED <<orders, undone>>

Propose(p) == Move(p, "none", "proposed")
Approve(p) == Move(p, "proposed", "approved")
Reject(p)  == Move(p, "proposed", "rejected")
Expire(p)  == Move(p, "proposed", "expired")

Place(p) == /\ \/ status[p] = "approved" /\ orders[p] = 0
               \/ p \in undone
            /\ orders' = [orders EXCEPT ![p] = @ + 1]
            /\ UNCHANGED <<status, undone>>

Execute(p) == /\ orders[p] = 1 \/ p \notin Truthful \/ p \in undone
              /\ \/ Move(p, "approved", "executed")
                 \/ p \in undone /\ Move(p, "proposed", "executed")

\* A rollback takes pending writes of undecided proposals.
Undo == /\ undone' \in SUBSET Proposals
        /\ undone \subseteq undone'
        /\ \A p \in undone' \ undone : status[p] \in {"none", "proposed"}
        /\ UNCHANGED <<status, orders>>

Next == \/ \E p \in Proposals : \/ Propose(p) \/ Approve(p) \/ Reject(p) \/ Expire(p)
                                \/ Place(p) \/ Execute(p)
        \/ Undo

Spec == Init /\ [][Next]_<<status, orders, undone>>
=============================================================================
