------------------------------ MODULE JobBoard ------------------------------
(***************************************************************************)
(* What the clients of the service may rely on, whatever happens to its    *)
(* processes: a job is executed at most once, its result arrives in one    *)
(* step together with its final status and its entry in the usage of the   *)
(* day, no usage is billed that has no result, and once its submission is  *)
(* answered a completed job does not fail any more.  Module JobLifecycle   *)
(* implements this.                                                        *)
(*                                                                         *)
(* It also says what they may not rely on: a job that was cancelled, or    *)
(* refused because the queue did not answer, may still be executed; the    *)
(* refusal and a cancellation may come after the result and cover it; and  *)
(* requests that run at the same time may lose an update of the usage.     *)
(***************************************************************************)
EXTENDS Integers, FiniteSets

CONSTANT Jobs

VARIABLES
    free,       \* the jobs whose results are not billed: speech
    open,       \* the jobs that are not yet known to be on the queue or refused
    status,     \* what GET /jobs/{id} answers; "absent" before the job is submitted
    tried,      \* the jobs whose execution was begun
    results,    \* the jobs that have a result
    bill        \* the usage of the day

vars == <<free, open, status, tried, results, bill>>

Init ==
    /\ free \subseteq Jobs
    /\ open = {}
    /\ status = [j \in Jobs |-> "absent"]
    /\ tried = {}
    /\ results = {}
    /\ bill = 0

Accept(j) ==
    /\ status[j] = "absent"
    /\ status' = [status EXCEPT ![j] = "pending"]
    /\ open' \in {open, open \cup {j}}
    /\ UNCHANGED <<free, tried, results, bill>>

\* The handlers answer, or are gone.
Answer ==
    /\ open' \subseteq open
    /\ UNCHANGED <<free, status, tried, results, bill>>

Refuse(j) ==
    /\ j \in open
    /\ open' = open \ {j}
    /\ status' = [status EXCEPT ![j] = "failed"]
    /\ UNCHANGED <<free, tried, results, bill>>

Start(j) ==
    /\ j \notin tried
    /\ status[j] \in {"pending", "cancelled", "failed"}
    /\ status' = [status EXCEPT ![j] = "running"]
    /\ tried' = tried \cup {j}
    /\ UNCHANGED <<free, open, results, bill>>

Billed(S) == Cardinality(S \ free)

\* A result that turns out malformed is kept and billed, and the job has failed.
Deliver(j) ==
    /\ j \in tried \ results
    /\ \E s \in {"complete", "failed"} : status' = [status EXCEPT ![j] = s]
    /\ results' = results \cup {j}
    /\ IF j \in free THEN bill' = bill ELSE bill' \in 1 .. Billed(results')
    /\ UNCHANGED <<free, open, tried>>

GiveUp(j) ==
    /\ status[j] \notin {"absent", "complete"}
    /\ status' = [status EXCEPT ![j] = "failed"]
    /\ UNCHANGED <<free, open, tried, results, bill>>

Cancel(j) ==
    /\ status[j] # "absent"
    /\ status' = [status EXCEPT ![j] = "cancelled"]
    /\ UNCHANGED <<free, open, tried, results, bill>>

Next ==
    \/ Answer
    \/ \E j \in Jobs : Accept(j) \/ Refuse(j) \/ Start(j) \/ Deliver(j) \/ GiveUp(j) \/ Cancel(j)

Spec == Init /\ [][Next]_vars

=============================================================================
