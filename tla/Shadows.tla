------------------------------ MODULE Shadows ------------------------------
(***************************************************************************)
(* The rows of `job_shadows`: eval shadows, which are planned when their   *)
(* parent job has ended, under a daily cap on what a cloud model may cost, *)
(* and which the RQ worker runs; and fan-out secondaries, which the        *)
(* request of the parent runs itself.  The model is of one day: the cap    *)
(* sums what the rows created today cost.                                  *)
(*                                                                         *)
(* One action is what happens between two awaits.  Nothing stands behind   *)
(* execute_shadow: an exception that is no ProviderError, a timeout or a   *)
(* crash leaves the row as the last commit did.                            *)
(***************************************************************************)
EXTENDS Integers, FiniteSets, FiniteSetsExt

CONSTANTS
    Parents,     \* the jobs
    Models,      \* the models that shadow them
    Cloud,       \* those of them that cost
    Cap,         \* daily_cost_cap_usd of each cloud model, in calls
    Targets,     \* the shadows of the rules of the jobs: pairs of a parent and a model
    Fanouts,     \* the fan-out targets, likewise
    Worker,      \* the one RQ SimpleWorker process
    NoRow,       \* what the idle worker is on
    MaxFaults,   \* bound: how many faults strike
    MaxReplays   \* bound: how often an operator puts a failed record back on the queue

EvalRows == {[parent |-> t[1], model |-> t[2], source |-> "eval"] : t \in Targets}
FanRows  == {[parent |-> t[1], model |-> t[2], source |-> "fanout"] : t \in Fanouts}
Rows     == EvalRows \cup FanRows
Procs    == {Worker} \cup FanRows

ASSUME ShadowsAssumption ==
    /\ Cloud \subseteq Models
    /\ Cap \in [Cloud -> Nat]
    /\ Targets \subseteq Parents \X Models
    /\ Fanouts \subseteq Parents \X Models
    /\ IsFiniteSet(Targets) /\ IsFiniteSet(Fanouts) /\ IsFiniteSet(Parents)
    /\ Worker \notin Rows
    /\ NoRow \notin Rows
    /\ MaxFaults \in Nat
    /\ MaxReplays \in Nat

VARIABLES
    status,   \* the status column of each row
    cost,     \* cost_usd: 1 if the call was paid for and recorded
    rq,       \* the RQ record of each eval row
    ppc,      \* the planner of each parent: where it stands,
    room,     \*   and the models it may plan, by what it read
    pc, cur,  \* the processes that execute rows, and the row of the worker
    faults,   \* how many faults may still strike
    replays,  \* how many records may still be put back
    starts,   \* history: how often a row went RUNNING
    open      \* history: what was under way of each model when a planner read

vars == <<status, cost, rq, ppc, room, pc, cur, faults, replays, starts, open>>

Settled == {"complete", "failed"}

TypeOK ==
    /\ status \in [Rows -> {"absent", "pending", "running"} \cup Settled]
    /\ cost \in [Rows -> {0, 1}]
    /\ rq \in [EvalRows -> {"none", "queued", "started", "finished", "failed"}]
    /\ ppc \in [Parents -> {"new", "ended", "insert", "enqueue", "done"}]
    /\ room \in [Parents -> SUBSET Models]
    /\ pc \in [Procs -> {"idle", "read", "begin", "call", "returned", "raised", "over"}]
    /\ cur \in EvalRows \cup {NoRow}
    /\ cur = NoRow <=> pc[Worker] = "idle"
    /\ faults \in 0 .. MaxFaults
    /\ replays \in 0 .. MaxReplays
    /\ starts \in [Rows -> Nat]
    /\ open \in [Parents -> [Cloud -> Nat]]
    /\ \A s \in Rows : cost[s] = 1 => status[s] \in Settled

Init ==
    /\ status = [s \in Rows |-> "absent"]
    /\ cost = [s \in Rows |-> 0]
    /\ rq = [s \in EvalRows |-> "none"]
    /\ ppc = [p \in Parents |-> "new"]
    /\ room = [p \in Parents |-> {}]
    /\ pc = [x \in Procs |-> "idle"]
    /\ cur = NoRow
    /\ faults = MaxFaults
    /\ replays = MaxReplays
    /\ starts = [s \in Rows |-> 0]
    /\ open = [p \in Parents |-> [m \in Cloud |-> 0]]

\* An await raises what no handler catches (a prompt or a credential is missing, Postgres or
\* Redis is down), RQ's alarm goes off, a process dies.
Suffer ==
    /\ faults > 0
    /\ faults' = faults - 1
    /\ UNCHANGED replays

rowVars  == <<status, cost, starts>>
envVars  == <<faults, replays>>
planVars == <<ppc, room, open>>
execVars == <<pc, cur>>

GoTo(x, q) == pc' = [pc EXCEPT ![x] = q]
SetStatus(S, v) == status' = [s \in Rows |-> IF s \in S THEN v ELSE status[s]]

-----------------------------------------------------------------------------
(* enqueue_shadows_for_parent. *)

EvalRow(p, m) == [parent |-> p, model |-> m, source |-> "eval"]

\* should_fan_out_shadows: the primary is COMPLETE, or FAILED with force_shadows.
ParentEnds(p) ==
    /\ ppc[p] = "new"
    /\ ppc' = [ppc EXCEPT ![p] = "ended"]
    /\ UNCHANGED <<rowVars, rq, room, open, execVars, envVars>>

TodayCost(m) ==
    MapThenSumSet(LAMBDA s : cost[s], {s \in Rows : s.model = m /\ status[s] # "absent"})

\* Mutant: the cap may be reached once more.
BlockedAboveCap(m) == m \in Cloud /\ TodayCost(m) > Cap[m]

CloudTargetBlocked(m) == m \in Cloud /\ TodayCost(m) >= Cap[m]

\* What of the model m is not settled, or about to be inserted.
UnderWay(m) ==
    Cardinality({s \in EvalRows : s.model = m /\ status[s] \in {"pending", "running"}})
    + Cardinality({p \in Parents : ppc[p] = "insert" /\ m \in room[p]})

\* The costs are read and the targets drawn: any of those that are not blocked.
Plan(p) ==
    /\ ppc[p] = "ended"
    /\ \E S \in SUBSET {m \in Models : <<p, m>> \in Targets /\ ~CloudTargetBlocked(m)} :
           room' = [room EXCEPT ![p] = S]
    /\ ppc' = [ppc EXCEPT ![p] = "insert"]
    /\ open' = [open EXCEPT ![p] = [m \in Cloud |-> UnderWay(m)]]
    /\ UNCHANGED <<rowVars, rq, execVars, envVars>>

\* One commit for all rows.
Insert(p) ==
    /\ ppc[p] = "insert"
    /\ LET S == {EvalRow(p, m) : m \in room[p]} IN
       /\ SetStatus(S, "pending")
    /\ ppc' = [ppc EXCEPT ![p] = "enqueue"]
    /\ room' = [room EXCEPT ![p] = {}]
    /\ UNCHANGED <<cost, starts, rq, open, execVars, envVars>>

Unqueued(p) == {s \in EvalRows : s.parent = p /\ status[s] = "pending" /\ rq[s] = "none"}

\* Mutant: the last row is never enqueued.
EnqueueAllButOne(p) ==
    /\ ppc[p] = "enqueue"
    /\ IF Cardinality(Unqueued(p)) <= 1
       THEN ppc' = [ppc EXCEPT ![p] = "done"] /\ UNCHANGED rq
       ELSE /\ \E s \in Unqueued(p) : rq' = [rq EXCEPT ![s] = "queued"]
            /\ UNCHANGED ppc
    /\ UNCHANGED <<rowVars, room, open, execVars, envVars>>

\* Queue.enqueue for each in turn.
Enqueue(p) ==
    /\ ppc[p] = "enqueue"
    /\ IF Unqueued(p) = {}
       THEN ppc' = [ppc EXCEPT ![p] = "done"] /\ UNCHANGED rq
       ELSE /\ \E s \in Unqueued(p) : rq' = [rq EXCEPT ![s] = "queued"]
            /\ UNCHANGED ppc
    /\ UNCHANGED <<rowVars, room, open, execVars, envVars>>

\* The planner ends early: Redis fails in the loop, or an await before it raises.
PlanFails(p) ==
    /\ ppc[p] \in {"ended", "insert"} \/ (ppc[p] = "enqueue" /\ Unqueued(p) # {})
    /\ Suffer
    /\ ppc' = [ppc EXCEPT ![p] = "done"]
    /\ room' = [room EXCEPT ![p] = {}]
    /\ UNCHANGED <<rowVars, rq, open, execVars>>

-----------------------------------------------------------------------------
(* run_fanout_secondaries: the rows are committed, then each runs in a session of its *)
(* own beside the others and the primary.                                             *)

StartFanout(p) ==
    /\ ppc[p] = "new"
    /\ LET S == {s \in FanRows : s.parent = p} IN
       /\ S # {}
       /\ \A s \in S : status[s] = "absent"
       /\ SetStatus(S, "pending")
       /\ pc' = [x \in Procs |-> IF x \in S THEN "begin" ELSE pc[x]]
    /\ UNCHANGED <<cost, starts, rq, planVars, cur, envVars>>

-----------------------------------------------------------------------------
(* run_shadow on the worker. *)

Dequeue(s) ==
    /\ pc[Worker] = "idle"
    /\ rq[s] = "queued"
    /\ rq' = [rq EXCEPT ![s] = "started"]
    /\ cur' = s
    /\ GoTo(Worker, "read")
    /\ UNCHANGED <<rowVars, planVars, envVars>>

\* Mutant: only a settled row is skipped.
ReadRowUnsettled ==
    /\ pc[Worker] = "read"
    /\ GoTo(Worker, IF status[cur] \notin Settled THEN "begin" ELSE "returned")
    /\ UNCHANGED <<rowVars, planVars, rq, cur, envVars>>

\* Anything but PENDING is skipped.
ReadRow ==
    /\ pc[Worker] = "read"
    /\ GoTo(Worker, IF status[cur] = "pending" THEN "begin" ELSE "returned")
    /\ UNCHANGED <<rowVars, planVars, rq, cur, envVars>>

\* A local model is loaded before it is called; if that fails, so does the row.
SwapFails ==
    /\ pc[Worker] = "begin"
    /\ cur.model \notin Cloud
    /\ SetStatus({cur}, "failed")
    /\ GoTo(Worker, "returned")
    /\ UNCHANGED <<cost, starts, planVars, rq, cur, envVars>>

RQEnds ==
    /\ pc[Worker] \in {"returned", "raised"}
    /\ rq' = [rq EXCEPT ![cur] = IF pc[Worker] = "returned" THEN "finished" ELSE "failed"]
    /\ cur' = NoRow
    /\ GoTo(Worker, "idle")
    /\ UNCHANGED <<rowVars, planVars, envVars>>

-----------------------------------------------------------------------------
(* execute_shadow, by the worker or for a fan-out row. *)

RowOf(x) == IF x = Worker THEN cur ELSE x

Begin(x) ==
    /\ pc[x] = "begin"
    /\ SetStatus({RowOf(x)}, "running")
    /\ starts' = [starts EXCEPT ![RowOf(x)] = @ + 1]
    /\ GoTo(x, "call")
    /\ UNCHANGED <<cost, planVars, rq, cur, envVars>>

\* A malformed artifact fails the row that the answer had completed.
StatusOf(r) == IF r = "answer" THEN "complete" ELSE "failed"

\* Mutant: a malformed artifact is paid for and leaves the row RUNNING.
FinishUnsettled(x) ==
    /\ pc[x] = "call"
    /\ \E r \in {"answer", "malformed", "error"} :
          /\ SetStatus({RowOf(x)}, IF r = "malformed" THEN "running" ELSE StatusOf(r))
          /\ cost' = [cost EXCEPT ![RowOf(x)] = IF r # "error" /\ RowOf(x).model \in Cloud THEN 1 ELSE 0]
    /\ GoTo(x, IF x = Worker THEN "returned" ELSE "over")
    /\ UNCHANGED <<starts, planVars, rq, cur, envVars>>

\* An answer, one that makes no artifact, or a ProviderError.  An answer is paid for, also
\* when its artifact is malformed.
Finish(x) ==
    /\ pc[x] = "call"
    /\ \E r \in {"answer", "malformed", "error"} :
          /\ SetStatus({RowOf(x)}, StatusOf(r))
          /\ cost' = [cost EXCEPT ![RowOf(x)] = IF r # "error" /\ RowOf(x).model \in Cloud THEN 1 ELSE 0]
    /\ GoTo(x, IF x = Worker THEN "returned" ELSE "over")
    /\ UNCHANGED <<starts, planVars, rq, cur, envVars>>

-----------------------------------------------------------------------------
(* Faults and RQ's maintenance. *)

\* Nothing catches it: RQ records a failure, the request of a fan-out answers 500.
Raise(x) ==
    /\ pc[x] \in {"read", "begin", "call"}
    /\ Suffer
    /\ GoTo(x, IF x = Worker THEN "raised" ELSE "over")
    /\ UNCHANGED <<rowVars, planVars, rq, cur>>

WorkerCrash ==
    /\ pc[Worker] # "idle"
    /\ Suffer
    /\ GoTo(Worker, "idle")
    /\ cur' = NoRow
    /\ UNCHANGED <<rowVars, planVars, rq>>

ApiCrash ==
    /\ Suffer
    /\ pc' = [x \in Procs |-> IF x # Worker /\ pc[x] # "idle" THEN "over" ELSE pc[x]]
    /\ ppc' = [p \in Parents |-> IF ppc[p] \in {"ended", "insert", "enqueue"} THEN "done" ELSE ppc[p]]
    /\ room' = [p \in Parents |-> {}]
    /\ UNCHANGED <<rowVars, open, rq, cur>>

\* The record of a dead worker becomes a failed one.
Abandon(s) ==
    /\ rq[s] = "started"
    /\ cur # s
    /\ rq' = [rq EXCEPT ![s] = "failed"]
    /\ UNCHANGED <<rowVars, planVars, execVars, envVars>>

Replay(s) ==
    /\ rq[s] = "failed"
    /\ replays > 0
    /\ replays' = replays - 1
    /\ rq' = [rq EXCEPT ![s] = "queued"]
    /\ UNCHANGED <<rowVars, planVars, execVars, faults>>

-----------------------------------------------------------------------------

Execute(x) == Begin(x) \/ Finish(x)

PlanStep(p) == Plan(p) \/ Insert(p) \/ Enqueue(p)

WorkerStep ==
    \/ \E s \in EvalRows : Dequeue(s)
    \/ ReadRow \/ SwapFails \/ RQEnds
    \/ Execute(Worker)

Next ==
    \/ \E p \in Parents : ParentEnds(p) \/ StartFanout(p) \/ PlanStep(p) \/ PlanFails(p)
    \/ WorkerStep
    \/ \E x \in FanRows : Execute(x)
    \/ \E x \in Procs : Raise(x)
    \/ WorkerCrash \/ ApiCrash
    \/ \E s \in EvalRows : Abandon(s) \/ Replay(s)

Spec == Init /\ [][Next]_vars

\* What was begun goes on, and the worker polls its queues.
FairSpec ==
    /\ Spec
    /\ WF_vars(WorkerStep)
    /\ \A p \in Parents : WF_vars(PlanStep(p))
    /\ \A x \in FanRows : WF_vars(Execute(x))

-----------------------------------------------------------------------------
(* What holds of the rows. *)

\* No row is run twice, however often its record is replayed, whatever died meanwhile.
RunsOnce == \A s \in Rows : starts[s] <= 1

\* What the eval shadows of a model cost in a day passes the cap by no more than was under
\* way when one of them was planned: in-flight shadows are all that the cap overlooks.
OvershootWasOpen ==
    \A m \in Cloud :
        LET paid == {s \in EvalRows : s.model = m /\ cost[s] = 1}
        IN paid # {} => \E s \in paid : Cardinality(paid) <= Cap[m] + open[s.parent][m]

\* As long as no fault strikes, every row that was inserted settles, with errors of providers,
\* failing swaps and malformed artifacts on the way.
ShadowsSettle ==
    \A s \in Rows : status[s] = "pending" ~> (status[s] \in Settled \/ faults < MaxFaults)

=============================================================================
