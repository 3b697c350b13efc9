------------------------------ MODULE AuditTrail ------------------------------
(***************************************************************************)
(* What the analysis engine promises of its records, apart from callers,   *)
(* locks, commits and restarts: a run is recorded before its proposals,    *)
(* makes no more of them than its record says, and is closed by the first  *)
(* record that says it failed.  A run is lost when the process died in it  *)
(* or its record could not be stored; only such a run has proposals        *)
(* without a record.                                                       *)
(***************************************************************************)
EXTENDS Naturals

CONSTANTS Runs, MaxProposals

VARIABLES
    rows,  \* rows[r]: status and count of the durable rows of run r
    made,  \* made[r]: how many of its proposals are durable
    lost   \* the lost runs

Init == /\ rows = [r \in Runs |-> {}]
        /\ made = [r \in Runs |-> 0]
        /\ lost = {}

Write(r, status, n) == /\ rows' = [rows EXCEPT ![r] = @ \cup {<<status, n>>}]
                       /\ UNCHANGED <<made, lost>>

Add(r) == /\ made' = [made EXCEPT ![r] = @ + 1]
          /\ UNCHANGED <<rows, lost>>

Blank(r) == rows[r] = {} /\ made[r] = 0

\* The record of the run announces more proposals than there are, and nothing else is recorded.
Owes(r) == \E n \in 1 .. MaxProposals : rows[r] = {<<"success", n>>} /\ made[r] < n

Succeed(r) == /\ Blank(r)
              /\ r \notin lost
              /\ \E n \in 0 .. MaxProposals : Write(r, "success", n)

Fail(r) == /\ Blank(r)
           /\ \E status \in {"error", "timeout"} : Write(r, status, 0)

Propose(r) == Owes(r) /\ Add(r)

\* A proposal could not be stored: the rest of them is dropped.
Abort(r) == Owes(r) /\ Write(r, "error", 0)

Lose(some) == /\ lost' = lost \cup some
              /\ UNCHANGED <<rows, made>>

\* The run goes on without its record, until an error is recorded.
Stray(r) == /\ r \in lost
            /\ <<"error", 0>> \notin rows[r]
            /\ Add(r) \/ Write(r, "error", 0)

Next == \/ \E r \in Runs : Succeed(r) \/ Fail(r) \/ Propose(r) \/ Abort(r) \/ Stray(r)
        \/ \E some \in SUBSET Runs : Lose(some)

Spec == Init /\ [][Next]_<<rows, made, lost>>
=============================================================================
