---------------------------- MODULE JobLifecycle ----------------------------
(***************************************************************************)
(* The life of a row of the `jobs` table: the HTTP and MCP handlers that   *)
(* insert it and either enqueue it or run it inline, the single RQ worker  *)
(* that dequeues and runs it, and the DELETE handlers that cancel it.      *)
(*                                                                         *)
(* One action is what a handler does between two awaits: a SELECT, a       *)
(* commit, a Redis call or a provider call.  Every session is READ         *)
(* COMMITTED with expire_on_commit=False and the ORM emits                 *)
(* `UPDATE ... WHERE id = ...` without a version check, so a commit is a   *)
(* blind write of the columns the handler assigned.                        *)
(***************************************************************************)
EXTENDS Integers, FiniteSets

CONSTANTS
    Jobs,       \* the jobs that clients submit
    Deletes,    \* the DELETE /jobs/{id} requests
    Worker,     \* the one RQ SimpleWorker process
    NoJob,      \* what the idle worker and an unused DELETE are on
    Requests,   \* the kinds of request a job may be submitted by
    Budget      \* how often each fault of the environment may strike

(***************************************************************************)
(* workerCrash, apiCrash: the process dies between two steps.              *)
(* timeout: RQ's SIGALRM fires while the event loop waits for I/O, and     *)
(*   asyncio.run cancels the coroutine on its way out.                     *)
(* exception: an await of an executor raises (the database is down, or the *)
(*   SIGALRM fires inside the coroutine).                                  *)
(* dbError: a commit outside the executors raises.                         *)
(* redisError, replyLost: a Redis call raises, before or after it took     *)
(*   effect.                                                               *)
(* replay: a failed RQ record is put back on the queue.                    *)
(***************************************************************************)
Faults == {"workerCrash", "apiCrash", "timeout", "exception", "dbError",
           "redisError", "replyLost", "replay"}

(***************************************************************************)
(* via: "http" enqueues and handles an enqueue failure, "mcp" enqueues and *)
(* does not, "inline" runs the job in the request (HTTP or MCP).           *)
(* kind: the executor that the worker dispatches to.                       *)
(* force: metadata.force_shadows.                                          *)
(***************************************************************************)
Request == [via   : {"http", "mcp", "inline"},
            kind  : {"text", "media", "tts"},
            force : BOOLEAN]

ASSUME ActorsAssumption ==
    /\ Worker \notin Jobs
    /\ NoJob \notin Jobs

ASSUME JobsAssumption == IsFiniteSet(Jobs)

ASSUME RequestsAssumption ==
    /\ Requests \subseteq Request
    /\ \A r \in Requests : r.via = "inline" => r.kind = "text"

ASSUME BudgetAssumption == Budget \in [Faults -> Nat]

VARIABLES
    req,       \* [Jobs -> Requests], fixed when the job is submitted
    status,    \* the jobs table: the status column
    stored,    \* the jobs whose row holds a result
    usage,     \* job_count of today's client_app_usage row; 0: no row yet
    rq,        \* the RQ record of each job
    pc,        \* where each submit handler and the worker stand
    cur,       \* the job the worker holds
    outcome,   \* how the call of an executor ended, not yet committed
    seen,      \* the job_count an executor read
    dpc,       \* where each DELETE handler stands,
    djob,      \*   the job it is about
    dread,     \*   and the status it read and acts on
    budget,    \* faults still to come
    starts,    \* history: how often a RUNNING commit was made for the job
    pulled,    \* history: jobs whose queued record a DELETE removed
    fanned,    \* jobs whose eval shadows were planned
    struck     \* history: jobs whose handler, worker or DELETE a fault struck down

delVars  == <<dpc, djob, dread>>
histVars == <<starts, pulled, fanned, struck>>

vars == <<req, status, stored, usage, rq, pc, cur, outcome, seen, budget, delVars, histVars>>

Statuses == {"absent", "pending", "running", "complete", "failed", "cancelled"}
Settled  == {"complete", "failed", "cancelled"}
Records  == {"none", "queued", "started", "finished", "failed"}
Procs    == Jobs \cup {Worker}

ExecPCs   == {"begin", "call", "usage", "commit", "after", "shadows"}
SubmitPCs == {"enqueue", "unqueued", "unresolved"}
EndPCs    == {"accepted", "answered", "refused", "errored", "dead"}
WorkerPCs == {"read", "route", "net", "netWrite", "returned", "raised"}
PCs       == {"new", "idle"} \cup ExecPCs \cup SubmitPCs \cup EndPCs \cup WorkerPCs
DelPCs    == {"idle", "check", "pull", "write", "done", "conflict", "errored", "dead"}

TypeOK ==
    /\ req \in [Jobs -> Requests]
    /\ status \in [Jobs -> Statuses]
    /\ stored \subseteq Jobs
    /\ usage \in Nat
    /\ rq \in [Jobs -> Records]
    /\ pc \in [Procs -> PCs]
    /\ cur \in Jobs \cup {NoJob}
    /\ outcome \in [Procs -> {"none", "complete", "malformed", "failed"}]
    /\ seen \in [Procs -> Nat]
    /\ dpc \in [Deletes -> DelPCs]
    /\ djob \in [Deletes -> Jobs \cup {NoJob}]
    /\ dread \in [Deletes -> {"none", "pending", "running"}]
    /\ budget \in [Faults -> Nat]
    /\ starts \in [Jobs -> Nat]
    /\ pulled \subseteq Jobs
    /\ fanned \subseteq Jobs
    /\ struck \subseteq Jobs

Init ==
    /\ req \in [Jobs -> Requests]
    /\ status = [j \in Jobs |-> "absent"]
    /\ stored = {}
    /\ usage = 0
    /\ rq = [j \in Jobs |-> "none"]
    /\ pc = [x \in Procs |-> IF x = Worker THEN "idle" ELSE "new"]
    /\ cur = NoJob
    /\ outcome = [x \in Procs |-> "none"]
    /\ seen = [x \in Procs |-> 0]
    /\ dpc = [d \in Deletes |-> "idle"]
    /\ djob = [d \in Deletes |-> NoJob]
    /\ dread = [d \in Deletes |-> "none"]
    /\ budget = Budget
    /\ starts = [j \in Jobs |-> 0]
    /\ pulled = {}
    /\ fanned = {}
    /\ struck = {}

-----------------------------------------------------------------------------
(* Steps of a process and writes of a column. *)

JobOf(x) == IF x = Worker THEN cur ELSE x

At(x, p)     == pc[x] = p
GoTo(x, p)   == pc' = [pc EXCEPT ![x] = p]
SetStatus(j, s) == status' = [status EXCEPT ![j] = s]

Suffer(f) ==
    /\ budget[f] > 0
    /\ budget' = [budget EXCEPT ![f] = @ - 1]

\* A fault hits what is at work on these jobs, past any handler in the code.
Strike(S) ==
    /\ struck' = struck \cup S
    /\ UNCHANGED <<starts, pulled, fanned>>

execVars == <<outcome, seen>>

\* Mutant: no safety net behind the executors.
EscapeUncaught(x) == GoTo(x, IF x = Worker THEN "raised" ELSE "errored")

\* An exception that no executor handles: the safety net of the worker catches it,
\* a request handler answers with an error and leaves the row as it is.
Escape(x) == GoTo(x, IF x = Worker THEN "net" ELSE "errored")

-----------------------------------------------------------------------------
(* POST /jobs, POST /image, POST /tts and the MCP tool create_job. *)

\* The row is committed before anything else happens to the job.
Submit(j) ==
    /\ At(j, "new")
    /\ SetStatus(j, "pending")
    /\ GoTo(j, IF req[j].via = "inline" THEN "begin" ELSE "enqueue")
    /\ UNCHANGED <<req, stored, usage, rq, cur, delVars, budget, execVars, histVars>>

\* Queue.enqueue wrote the record and the handler answers 202.
Enqueue(j) ==
    /\ At(j, "enqueue")
    /\ rq' = [rq EXCEPT ![j] = "queued"]
    /\ GoTo(j, "accepted")
    /\ UNCHANGED <<req, status, stored, usage, cur, delVars, budget, execVars, histVars>>

\* Mutant: no handler catches the error.
AfterEnqueueErrorUncaught(j) == "errored"

\* Only the HTTP handlers wrap the call in try/except.
AfterEnqueueError(j) == IF req[j].via = "http" THEN "unqueued" ELSE "errored"

\* Queue.enqueue raised: Redis never got the record, or got it and the reply was lost.
EnqueueFails(j) ==
    /\ At(j, "enqueue")
    /\ \/ /\ Suffer("redisError")
          /\ UNCHANGED rq
       \/ /\ Suffer("replyLost")
          /\ rq' = [rq EXCEPT ![j] = "queued"]
    /\ GoTo(j, AfterEnqueueError(j))
    /\ UNCHANGED <<req, status, stored, usage, cur, delVars, execVars, histVars>>

\* The except branch flips the row and answers 503.
MarkEnqueueFailed(j) ==
    /\ At(j, "unqueued")
    /\ SetStatus(j, "failed")
    /\ GoTo(j, "refused")
    /\ UNCHANGED <<req, stored, usage, rq, cur, delVars, budget, execVars, histVars>>

\* The inline path's own handler for PromptNotFoundError: the HTTP handler then answers
\* 500, the MCP tool goes on to the shadows of a forced job.
MarkUnresolved(j) ==
    /\ At(j, "unresolved")
    /\ SetStatus(j, "failed")
    /\ GoTo(j, "errored") \/ (req[j].force /\ GoTo(j, "shadows"))
    /\ UNCHANGED <<req, stored, usage, rq, cur, delVars, budget, execVars, histVars>>

-----------------------------------------------------------------------------
(* The worker: run_job, _run_async and _dispatch_job. *)

Dequeue(j) ==
    /\ At(Worker, "idle")
    /\ rq[j] = "queued"
    /\ rq' = [rq EXCEPT ![j] = "started"]
    /\ cur' = j
    /\ GoTo(Worker, "read")
    /\ UNCHANGED <<req, status, stored, usage, delVars, budget, execVars, histVars>>

\* Only a text job is routed and may need a model swap before it runs.
DispatchTo(j) == IF req[j].kind = "text" THEN "route" ELSE "begin"

\* Mutant: the status check is gone.
ReadRowUnchecked ==
    /\ At(Worker, "read")
    /\ GoTo(Worker, DispatchTo(cur))
    /\ UNCHANGED <<req, status, stored, usage, rq, cur, delVars, budget, execVars, histVars>>

\* A replayed or cancelled job is skipped: anything but PENDING returns at once.
ReadRow ==
    /\ At(Worker, "read")
    /\ GoTo(Worker, IF status[cur] = "pending" THEN DispatchTo(cur) ELSE "returned")
    /\ UNCHANGED <<req, status, stored, usage, rq, cur, delVars, budget, execVars, histVars>>

\* _decide_or_fail and _swap_ollama_if_needed go on, or commit FAILED and return.
Route ==
    /\ At(Worker, "route")
    /\ \/ /\ GoTo(Worker, "begin")
          /\ UNCHANGED status
       \/ /\ SetStatus(cur, "failed")
          /\ GoTo(Worker, "returned")
    /\ UNCHANGED <<req, stored, usage, rq, cur, delVars, budget, execVars, histVars>>

\* Mutant: the safety net takes any row for unfinished.
NetReadUnchecked ==
    /\ At(Worker, "net")
    /\ GoTo(Worker, "netWrite")
    /\ UNCHANGED <<req, status, stored, usage, rq, cur, delVars, budget, execVars, histVars>>

\* _mark_job_failed_safe reads the row in a session of its own ...
NetRead ==
    /\ At(Worker, "net")
    /\ GoTo(Worker, IF status[cur] \in {"pending", "running"} THEN "netWrite"
                                                                  ELSE "raised")
    /\ UNCHANGED <<req, status, stored, usage, rq, cur, delVars, budget, execVars, histVars>>

\* Mutant: the safety net's commit is forgotten.
NetWriteUncommitted ==
    /\ At(Worker, "netWrite")
    /\ GoTo(Worker, "raised")
    /\ UNCHANGED <<req, status, stored, usage, rq, cur, delVars, budget, execVars, histVars>>

\* ... and flips it; then the exception is raised again.
NetWrite ==
    /\ At(Worker, "netWrite")
    /\ SetStatus(cur, "failed")
    /\ GoTo(Worker, "raised")
    /\ UNCHANGED <<req, stored, usage, rq, cur, delVars, budget, execVars, histVars>>

\* RQ records how run_job ended. A record that a DELETE removed meanwhile may come
\* back with the result or stay away.
RQEnds ==
    /\ pc[Worker] \in {"returned", "raised"}
    /\ LET r == IF At(Worker, "returned") THEN "finished" ELSE "failed" IN
       \/ rq' = [rq EXCEPT ![cur] = r]
       \/ rq[cur] = "none" /\ UNCHANGED rq
    /\ cur' = NoJob
    /\ GoTo(Worker, "idle")
    /\ UNCHANGED <<req, status, stored, usage, delVars, budget, execVars, histVars>>

-----------------------------------------------------------------------------
(* execute_job, execute_media_job and execute_tts: x is the worker, or the job *)
(* itself when its request runs it.                                            *)

CanRun(x) == x \in Jobs \/ cur # NoJob

Begin(x) ==
    /\ CanRun(x)
    /\ At(x, "begin")
    /\ SetStatus(JobOf(x), "running")
    /\ starts' = [starts EXCEPT ![JobOf(x)] = @ + 1]
    /\ GoTo(x, "call")
    /\ UNCHANGED <<req, stored, usage, rq, cur, delVars, budget, execVars>>
    /\ UNCHANGED <<pulled, fanned, struck>>

\* resolve_prompt or get_media raises before the RUNNING commit.
BeginRaises(x) ==
    /\ CanRun(x)
    /\ At(x, "begin")
    /\ req[JobOf(x)].kind \in {"text", "media"}
    /\ IF x = Worker THEN Escape(x) ELSE GoTo(x, "unresolved")
    /\ UNCHANGED <<req, status, stored, usage, rq, cur, delVars, budget, execVars, histVars>>

\* The provider answered, itself or its fallback.  A speech job is not metered.
CallReturns(x) ==
    /\ CanRun(x)
    /\ At(x, "call")
    /\ outcome' = [outcome EXCEPT ![x] = "complete"]
    /\ GoTo(x, IF req[JobOf(x)].kind = "tts" THEN "commit" ELSE "usage")
    /\ UNCHANGED <<req, status, stored, usage, rq, cur, delVars, budget, seen, histVars>>

\* ProviderError (and the fallback's), TTSEngineError, or any exception of a media
\* provider: the executor records the failure itself.
CallFails(x) ==
    /\ CanRun(x)
    /\ At(x, "call")
    /\ outcome' = [outcome EXCEPT ![x] = "failed"]
    /\ GoTo(x, "commit")
    /\ UNCHANGED <<req, status, stored, usage, rq, cur, delVars, budget, seen, histVars>>

\* Any other exception (a missing credential, an answer that does not parse).
CallRaises(x) ==
    /\ CanRun(x)
    /\ At(x, "call")
    /\ req[JobOf(x)].kind # "media"
    /\ Escape(x)
    /\ UNCHANGED <<req, status, stored, usage, rq, cur, delVars, budget, execVars, histVars>>

\* _bump_usage selects the day's row; then _store_code_artifact may find the
\* response malformed.
ReadUsage(x) ==
    /\ CanRun(x)
    /\ At(x, "usage")
    /\ seen' = [seen EXCEPT ![x] = usage]
    /\ \/ UNCHANGED outcome
       \/ /\ req[JobOf(x)].kind = "text"
          /\ outcome' = [outcome EXCEPT ![x] = "malformed"]
    /\ GoTo(x, "commit")
    /\ UNCHANGED <<req, status, stored, usage, rq, cur, delVars, budget, histVars>>

HasResult(x) == outcome[x] \in {"complete", "malformed"}
\* Mutant: usage is bumped after the artifact check, which a malformed response fails.
MeteredIfComplete(x) == outcome[x] = "complete" /\ req[JobOf(x)].kind # "tts"

Metered(x)   == HasResult(x) /\ req[JobOf(x)].kind # "tts"

\* The INSERT of the day's first usage row meets one that is there already.
UsageConflict(x) == Metered(x) /\ seen[x] = 0 /\ usage # 0

\* One transaction: the job's columns and the usage row, written as read plus one.
Commit(x) ==
    /\ CanRun(x)
    /\ At(x, "commit")
    /\ ~UsageConflict(x)
    /\ SetStatus(JobOf(x), IF outcome[x] = "complete" THEN "complete" ELSE "failed")
    /\ stored' = IF HasResult(x) THEN stored \cup {JobOf(x)} ELSE stored
    /\ usage' = IF Metered(x) THEN seen[x] + 1 ELSE usage
    /\ outcome' = [outcome EXCEPT ![x] = "none"]
    /\ seen' = [seen EXCEPT ![x] = 0]
    /\ GoTo(x, "after")
    /\ UNCHANGED <<req, rq, cur, delVars, budget, histVars>>

\* Mutant: usage is counted in a transaction of its own.
CommitConflictsCounted(x) ==
    /\ CanRun(x)
    /\ At(x, "commit")
    /\ UsageConflict(x)
    /\ usage' = usage + 1
    /\ Escape(x)
    /\ UNCHANGED <<req, status, stored, rq, cur, delVars, budget, execVars, histVars>>

\* uq_usage_client_date: IntegrityError rolls the whole transaction back.
CommitConflicts(x) ==
    /\ CanRun(x)
    /\ At(x, "commit")
    /\ UsageConflict(x)
    /\ Escape(x)
    /\ UNCHANGED <<req, status, stored, usage, rq, cur, delVars, budget, execVars, histVars>>

\* The worker returns to RQ, a request answers with the job.
Returned(x) == GoTo(x, IF x = Worker THEN "returned" ELSE "answered")

\* session.refresh, then should_fan_out_shadows on what it read.
After(x) ==
    /\ CanRun(x)
    /\ At(x, "after")
    /\ LET j == JobOf(x) IN
       IF req[j].kind = "text" /\ (status[j] = "complete" \/ req[j].force)
       THEN GoTo(x, "shadows")
       ELSE Returned(x)
    /\ UNCHANGED <<req, status, stored, usage, rq, cur, delVars, budget, execVars, histVars>>

\* enqueue_shadows_for_parent commits the shadow rows, then enqueues each; Redis may
\* fail after the commit.
FanOut(x) ==
    /\ CanRun(x)
    /\ At(x, "shadows")
    /\ fanned' = fanned \cup {JobOf(x)}
    /\ \/ /\ Returned(x)
          /\ UNCHANGED budget
       \/ /\ Suffer("redisError")
          /\ Escape(x)
    /\ UNCHANGED <<req, status, stored, usage, rq, cur, delVars, execVars>>
    /\ UNCHANGED <<starts, pulled, struck>>

Execute(x) ==
    \/ Begin(x) \/ BeginRaises(x)
    \/ CallReturns(x) \/ CallFails(x) \/ CallRaises(x)
    \/ ReadUsage(x) \/ Commit(x) \/ CommitConflicts(x)
    \/ After(x) \/ FanOut(x)

-----------------------------------------------------------------------------
(* DELETE /jobs/{id}. *)

DelGoTo(d, p) == dpc' = [dpc EXCEPT ![d] = p]

\* session.get(Job): a settled job is returned as it is.
DeleteRead(d, j) ==
    /\ dpc[d] = "idle"
    /\ status[j] # "absent"
    /\ djob' = [djob EXCEPT ![d] = j]
    /\ \/ /\ status[j] = "running"
          /\ DelGoTo(d, "check")
          /\ dread' = [dread EXCEPT ![d] = "running"]
       \/ /\ status[j] = "pending"
          /\ DelGoTo(d, "pull")
          /\ dread' = [dread EXCEPT ![d] = "pending"]
       \/ /\ status[j] \in Settled
          /\ DelGoTo(d, "done")
          /\ UNCHANGED dread
    /\ UNCHANGED <<req, status, stored, usage, rq, pc, cur, budget, execVars, histVars>>

\* Mutant: only a finished record refuses the cancellation.
DeleteCheckFinished(d) ==
    /\ dpc[d] = "check"
    /\ DelGoTo(d, IF rq[djob[d]] # "finished" THEN "write" ELSE "conflict")
    /\ UNCHANGED <<req, status, stored, usage, rq, pc, cur, djob, dread, budget, execVars, histVars>>

\* A row read RUNNING: refused unless the RQ record is gone or failed.
DeleteCheck(d) ==
    /\ dpc[d] = "check"
    /\ DelGoTo(d, IF rq[djob[d]] \in {"none", "failed"} THEN "write" ELSE "conflict")
    /\ UNCHANGED <<req, status, stored, usage, rq, pc, cur, djob, dread, budget, execVars, histVars>>

\* Mutant: the record is flagged and stays on the queue.
DeletePullFlagged(d) ==
    /\ dpc[d] = "pull"
    /\ LET j == djob[d] IN
       pulled' = IF rq[j] = "queued" THEN pulled \cup {j} ELSE pulled
    /\ DelGoTo(d, "write")
    /\ UNCHANGED <<req, status, stored, usage, rq, pc, cur, djob, dread, budget, execVars>>
    /\ UNCHANGED <<starts, fanned, struck>>

\* A row read PENDING: fetch, cancel and delete the record, whatever it is by now.
DeletePull(d) ==
    /\ dpc[d] = "pull"
    /\ LET j == djob[d] IN
       /\ rq' = [rq EXCEPT ![j] = "none"]
       /\ pulled' = IF rq[j] = "queued" THEN pulled \cup {j} ELSE pulled
    /\ DelGoTo(d, "write")
    /\ UNCHANGED <<req, status, stored, usage, pc, cur, djob, dread, budget, execVars>>
    /\ UNCHANGED <<starts, fanned, struck>>

\* A Redis error ends the refusal check with a 500, and is ignored on the other branch.
DeleteRedisError(d) ==
    /\ dpc[d] \in {"check", "pull"}
    /\ Suffer("redisError")
    /\ DelGoTo(d, IF dpc[d] = "check" THEN "errored" ELSE "write")
    /\ UNCHANGED <<req, status, stored, usage, rq, pc, cur, djob, dread, execVars, histVars>>

\* Mutant: the status is spelt as RQ spells it.
DeleteWriteCanceled(d) ==
    /\ dpc[d] = "write"
    /\ SetStatus(djob[d], "canceled")
    /\ DelGoTo(d, "done")
    /\ UNCHANGED <<req, stored, usage, rq, pc, cur, djob, dread, budget, execVars, histVars>>

DeleteWrite(d) ==
    /\ dpc[d] = "write"
    /\ SetStatus(djob[d], "cancelled")
    /\ DelGoTo(d, "done")
    /\ UNCHANGED <<req, stored, usage, rq, pc, cur, djob, dread, budget, execVars, histVars>>

-----------------------------------------------------------------------------
(* What the environment does to them. *)

\* The process dies: every row and record stays as it is.
WorkerCrash ==
    /\ ~At(Worker, "idle")
    /\ Suffer("workerCrash")
    /\ GoTo(Worker, "idle")
    /\ cur' = NoJob
    /\ Strike({cur})
    /\ UNCHANGED <<req, status, stored, usage, rq, delVars, execVars>>

\* RQ's maintenance moves the record of a dead worker to the FailedJobRegistry.
Abandon(j) ==
    /\ rq[j] = "started"
    /\ cur # j
    /\ rq' = [rq EXCEPT ![j] = "failed"]
    /\ UNCHANGED <<req, status, stored, usage, pc, cur, delVars, budget, execVars, histVars>>

\* result_ttl and failure_ttl.
Expire(j) ==
    /\ rq[j] \in {"finished", "failed"}
    /\ rq' = [rq EXCEPT ![j] = "none"]
    /\ UNCHANGED <<req, status, stored, usage, pc, cur, delVars, budget, execVars, histVars>>

Replay(j) ==
    /\ rq[j] = "failed"
    /\ Suffer("replay")
    /\ rq' = [rq EXCEPT ![j] = "queued"]
    /\ UNCHANGED <<req, status, stored, usage, pc, cur, delVars, execVars, histVars>>

\* CancelledError is not an Exception: neither an executor nor the safety net sees it.
Timeout ==
    /\ pc[Worker] \in {"read", "route", "net", "netWrite"} \cup ExecPCs
    /\ Suffer("timeout")
    /\ GoTo(Worker, "raised")
    /\ Strike({cur})
    /\ UNCHANGED <<req, status, stored, usage, rq, cur, delVars, execVars>>

Exception(x) ==
    /\ CanRun(x)
    /\ pc[x] \in {"read", "route", "begin", "usage", "commit", "after", "shadows"}
    /\ Suffer("exception")
    /\ Escape(x)
    /\ UNCHANGED <<req, status, stored, usage, rq, cur, delVars, execVars, histVars>>

\* The failing commit of an error handler is swallowed by the safety net and answers
\* a request with a 500.
HandlerDbError(x) ==
    /\ pc[x] \in {"net", "netWrite", "unqueued", "unresolved"}
    /\ Suffer("dbError")
    /\ GoTo(x, IF x = Worker THEN "raised" ELSE "errored")
    /\ Strike({JobOf(x)})
    /\ UNCHANGED <<req, status, stored, usage, rq, cur, delVars, execVars>>

DeleteDbError(d) ==
    /\ dpc[d] = "write"
    /\ Suffer("dbError")
    /\ DelGoTo(d, "errored")
    /\ Strike({djob[d]})
    /\ UNCHANGED <<req, status, stored, usage, rq, pc, cur, djob, dread, execVars>>

Active(j)    == pc[j] \in SubmitPCs \cup ExecPCs
Deleting(d)  == dpc[d] \in {"check", "pull", "write"}

ApiCrash ==
    /\ Suffer("apiCrash")
    /\ pc' = [x \in Procs |-> IF x \in Jobs /\ Active(x) THEN "dead" ELSE pc[x]]
    /\ dpc' = [d \in Deletes |-> IF Deleting(d) THEN "dead" ELSE dpc[d]]
    /\ Strike({j \in Jobs : Active(j)} \cup {djob[d] : d \in {e \in Deletes : Deleting(e)}})
    /\ UNCHANGED <<req, status, stored, usage, rq, cur, djob, dread, execVars>>

-----------------------------------------------------------------------------

SubmitStep(j) ==
    Enqueue(j) \/ EnqueueFails(j) \/ MarkEnqueueFailed(j) \/ MarkUnresolved(j) \/ Execute(j)

WorkerStep ==
    \/ \E j \in Jobs : Dequeue(j)
    \/ ReadRow \/ Route \/ NetRead \/ NetWrite \/ RQEnds
    \/ Execute(Worker)

DeleteStep(d) ==
    DeleteCheck(d) \/ DeletePull(d) \/ DeleteRedisError(d) \/ DeleteWrite(d)

Environment ==
    \/ WorkerCrash \/ ApiCrash \/ Timeout
    \/ \E j \in Jobs : Abandon(j) \/ Expire(j) \/ Replay(j)
    \/ \E x \in Procs : Exception(x) \/ HandlerDbError(x)
    \/ \E d \in Deletes : DeleteDbError(d)

Next ==
    \/ \E j \in Jobs : Submit(j) \/ SubmitStep(j)
    \/ WorkerStep
    \/ \E d \in Deletes : DeleteStep(d) \/ \E j \in Jobs : DeleteRead(d, j)
    \/ Environment

Spec == Init /\ [][Next]_vars

(***************************************************************************)
(* A handler that was started goes on, the worker keeps polling, RQ runs   *)
(* its maintenance.  Clients need not submit or cancel anything and no     *)
(* fault need strike.                                                      *)
(***************************************************************************)
Fairness ==
    /\ \A j \in Jobs : WF_vars(SubmitStep(j))
    /\ WF_vars(WorkerStep)
    /\ \A d \in Deletes : WF_vars(DeleteStep(d))
    /\ \A j \in Jobs : WF_vars(Abandon(j))

FairSpec == Spec /\ Fairness

-----------------------------------------------------------------------------
(* What the handlers promise. *)

\* An executor has the job after its RUNNING commit.
WorkerRuns(j) == cur = j /\ pc[Worker] \in ExecPCs \ {"begin"}
Executing(j)  == WorkerRuns(j) \/ pc[j] \in ExecPCs \ {"begin"}

\* An executor, or the safety net behind it, still stands between the job and its end.
Live(j) == Executing(j) \/ (cur = j /\ pc[Worker] \in {"net", "netWrite"})

\* No job is started twice, however often its record is replayed: the status check of
\* _dispatch_job and the one-way statuses are the only protection there is.
AtMostOneStart == \A j \in Jobs : starts[j] <= 1

\* A RUNNING row has somebody at work on it.
RunningIsLive == \A j \in Jobs : status[j] = "running" => Live(j)

\* A request, the queue, the worker or a DELETE has the job, and will write its row.
Carried(j) ==
    \/ Active(j)
    \/ rq[j] = "queued"
    \/ cur = j /\ pc[Worker] \notin {"returned", "raised"}
    \/ \E d \in Deletes : djob[d] = j /\ Deleting(d)

\* A PENDING row is in the hands of a handler that will write it, or of the queue.
PendingHasCarrier == \A j \in Jobs : status[j] = "pending" => Carried(j)

\* "orphaned rows" do not come about: whoever fails, a row that is not final has somebody
\* who will write it, in every interleaving of the handlers, the worker and the safety net.
NobodyIsStranded == RunningIsLive /\ PendingHasCarrier

\* Under any faults, a row is left RUNNING or PENDING for good only if a crash, RQ's timeout
\* or the database struck whoever had the job, or in the two places where the code lets an
\* error pass: a request that runs its job itself, and the MCP tool's enqueue.
LeftForCause ==
    \A j \in Jobs :
        /\ status[j] = "running" =>
              \/ Live(j)
              \/ j \in struck
              \/ At(j, "errored") /\ req[j].via = "inline"
        /\ status[j] = "pending" =>
              \/ Carried(j)
              \/ j \in struck
              \/ At(j, "errored") /\ req[j].via \in {"inline", "mcp"}

\* client_app_usage.job_count counts the metered jobs whose result is stored: the two
\* are written by one transaction, and none is lost, dropped or counted twice.
UsageMatchesResults ==
    usage = Cardinality({j \in stored : req[j].kind # "tts"})

\* Once a DELETE has taken the record from the queue, nothing starts the job.
PulledNeverStarts == [][\A j \in pulled : starts'[j] = starts[j]]_vars

\* What a client may rely on (module JobBoard): one execution at most, a result that comes
\* together with its status and its usage, no usage without a result, and no completed job
\* that fails once its submission was answered; under every interleaving of the handlers,
\* the worker and their failures.
Board == INSTANCE JobBoard
    WITH free    <- {j \in Jobs : req[j].kind = "tts"},
         open    <- {j \in Jobs : pc[j] \in {"enqueue", "unqueued"}},
         tried   <- {j \in Jobs : starts[j] > 0},
         results <- stored,
         bill    <- usage

ImplementsBoard == Board!Spec

\* The RQ record protects the job of a live worker: it is flipped to CANCELLED only if
\* some DELETE read the row while it was still PENDING.
LiveCancelReadPending ==
    [][\A j \in Jobs : (status[j] = "running" /\ WorkerRuns(j) /\ status'[j] = "cancelled")
          => \E d \in Deletes : djob[d] = j /\ dread[d] = "pending"]_vars

\* Every job that was accepted settles.
PendingSettles == \A j \in Jobs : status[j] = "pending" ~> status[j] \in Settled

=============================================================================
