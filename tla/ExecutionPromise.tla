--------------------------- MODULE ExecutionPromise ---------------------------
(***************************************************************************)
(* What a reader of an ExecutionSession row may rely on, with the queue,   *)
(* the processor and the kill switch reduced to a delivery budget.         *)
(*                                                                         *)
(* A session's job can be handed to a worker a bounded number of times     *)
(* (once, plus once for every stall the queue forgives).  The status is    *)
(* written by a worker only while a delivery is live, and cancelled only   *)
(* from QUEUED or RUNNING.  Hence, once no delivery is live and none is    *)
(* left, a terminal status is final.                                       *)
(***************************************************************************)
EXTENDS Naturals

CONSTANTS Sessions,    \* the sessions
          Deliveries   \* how often one job may be handed to a worker, a number

VARIABLES status,  \* ExecutionSession.status, "NONE" before the row exists
          live,    \* is a worker running the session's job
          left     \* deliveries the queue may still make

promiseVars == <<status, live, left>>

Statuses == {"NONE", "QUEUED", "RUNNING", "SUCCEEDED", "FAILED", "CANCELLED"}

Init ==
    /\ status = [s \in Sessions |-> "NONE"]
    /\ live = [s \in Sessions |-> FALSE]
    /\ left = [s \in Sessions |-> Deliveries]

Create(s) ==
    /\ status[s] = "NONE"
    /\ status' = [status EXCEPT ![s] = "QUEUED"]
    /\ UNCHANGED <<live, left>>

Deliver(s) ==
    /\ ~live[s] /\ left[s] > 0 /\ status[s] # "NONE"
    /\ live' = [live EXCEPT ![s] = TRUE]
    /\ left' = [left EXCEPT ![s] = @ - 1]
    /\ UNCHANGED status

\* A running delivery may overwrite any status, a cancellation included.
Write(s) ==
    /\ live[s]
    /\ \E st \in {"RUNNING", "SUCCEEDED", "FAILED"} :
          status' = [status EXCEPT ![s] = st]
    /\ UNCHANGED <<live, left>>

Cancel(s) ==
    /\ status[s] \in {"QUEUED", "RUNNING"}
    /\ status' = [status EXCEPT ![s] = "CANCELLED"]
    /\ UNCHANGED <<live, left>>

\* The worker dies; the queue may deliver again if the budget allows.
Lose(s) ==
    /\ live[s]
    /\ live' = [live EXCEPT ![s] = FALSE]
    /\ UNCHANGED <<status, left>>

\* The job ends, is removed, is given up, or was never enqueued.
Settle(s) ==
    /\ live' = [live EXCEPT ![s] = FALSE]
    /\ left' = [left EXCEPT ![s] = 0]
    /\ UNCHANGED status

Next ==
    \E s \in Sessions :
        \/ Create(s)
        \/ Deliver(s)
        \/ Write(s)
        \/ Cancel(s)
        \/ Lose(s)
        \/ Settle(s)

Spec == Init /\ [][Next]_promiseVars
===============================================================================
