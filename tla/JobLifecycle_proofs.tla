------------------------ MODULE JobLifecycle_proofs ------------------------
(***************************************************************************)
(* Proofs about JobLifecycle for any set of jobs and DELETE requests, any  *)
(* mix of requests and any number of faults, and that JobLifecycle         *)
(* implements JobBoard.                                                    *)
(***************************************************************************)
EXTENDS JobLifecycle, FiniteSetTheorems, TLAPS

-----------------------------------------------------------------------------
(* The inductive invariant. *)

\* A DELETE that goes on is about a job that was submitted.
DeletesHaveJobs ==
    \A d \in Deletes : dpc[d] # "idle" => djob[d] \in Jobs /\ status[djob[d]] # "absent"

\* The worker is idle exactly when it holds no job.
WorkerHoldsJob == pc[Worker] = "idle" <=> cur = NoJob

\* A handler that runs its job inline never enqueues it, and the others never run it.
InlineOrQueued ==
    \A j \in Jobs :
        /\ req[j].via = "inline" => pc[j] \notin {"enqueue", "unqueued"}
        /\ pc[j] \in ExecPCs \cup {"unresolved"} => req[j].via = "inline"

\* Only the enqueue call brings a record to life, and the worker holds only a job whose
\* record it took.
RecordsAreTaken ==
    \A j \in Jobs :
        /\ pc[j] \in {"new", "enqueue"} \/ req[j].via = "inline"
              => rq[j] = "none" /\ cur # j
        /\ rq[j] \in {"queued", "finished", "failed"} => cur # j
        /\ cur = j /\ rq[j] = "none"
              => \E d \in Deletes : djob[d] = j /\ dread[d] = "pending"

\* Whoever is about to start a job is the first to.
StartedOnce ==
    \A j \in Jobs :
        /\ starts[j] <= 1
        /\ status[j] \in {"absent", "pending"} => starts[j] = 0
        /\ pc[j] \in {"new", "begin"} => starts[j] = 0
        /\ pc[j] = "new" => status[j] = "absent"
        /\ cur = j /\ pc[Worker] \in {"route", "begin"} => starts[j] = 0
        /\ status[j] = "running" => starts[j] = 1

\* A record that a DELETE took from the queue is gone for good.
PulledIsGone ==
    \A j \in pulled :
        /\ rq[j] = "none"
        /\ cur # j
        /\ req[j].via # "inline"
        /\ pc[j] \notin {"new", "enqueue"}

\* A DELETE that goes on after it read RUNNING saw a job that nobody was at, or one
\* whose record another DELETE had removed.
CancelIsJustified ==
    \A d \in Deletes :
        /\ dpc[d] = "check" => dread[d] = "running"
        /\ dpc[d] = "pull" => dread[d] = "pending"
        /\ dpc[d] = "write" => dread[d] # "none"
        /\ dpc[d] = "idle" => dread[d] = "none"
        /\ dread[d] = "running" => starts[djob[d]] = 1
        /\ dpc[d] = "write" /\ dread[d] = "running" /\ WorkerRuns(djob[d])
              => \E e \in Deletes : djob[e] = djob[d] /\ dread[e] = "pending"

IInv ==
    /\ TypeOK
    /\ DeletesHaveJobs
    /\ WorkerHoldsJob
    /\ InlineOrQueued
    /\ RecordsAreTaken
    /\ StartedOnce
    /\ PulledIsGone
    /\ CancelIsJustified

-----------------------------------------------------------------------------
(* Every step preserves it: one lemma per part, one step per action that disturbs it. *)

\* Every write of a column, a program counter or a record stays in its range.
LEMMA TypeStep ==
  ASSUME TypeOK, DeletesHaveJobs, WorkerHoldsJob, [Next]_vars
  PROVE  (TypeOK /\ DeletesHaveJobs)'
<1> USE ActorsAssumption DEF TypeOK, DeletesHaveJobs, PCs, ExecPCs, SubmitPCs, EndPCs,
   WorkerPCs, DelPCs, Statuses, Settled, Records, Faults, Procs
<1>1. ASSUME NEW j \in Jobs, Submit(j) PROVE (TypeOK /\ DeletesHaveJobs)'
  BY <1>1 DEF Submit, At, SetStatus, GoTo, delVars, execVars, histVars
<1>2. ASSUME NEW j \in Jobs, Enqueue(j) PROVE (TypeOK /\ DeletesHaveJobs)'
  BY <1>2 DEF Enqueue, At, GoTo, delVars, execVars, histVars
<1>3. ASSUME NEW j \in Jobs, EnqueueFails(j) PROVE (TypeOK /\ DeletesHaveJobs)'
  BY <1>3 DEF EnqueueFails, At, Suffer, GoTo, AfterEnqueueError, delVars, execVars,
     histVars
<1>4. ASSUME NEW j \in Jobs, MarkEnqueueFailed(j) PROVE (TypeOK /\ DeletesHaveJobs)'
  BY <1>4 DEF MarkEnqueueFailed, At, SetStatus, GoTo, delVars, execVars, histVars
<1>5. ASSUME NEW j \in Jobs, MarkUnresolved(j) PROVE (TypeOK /\ DeletesHaveJobs)'
  BY <1>5 DEF MarkUnresolved, At, SetStatus, GoTo, delVars, execVars, histVars
<1>6. ASSUME NEW j \in Jobs, Dequeue(j) PROVE (TypeOK /\ DeletesHaveJobs)'
  BY <1>6 DEF Dequeue, At, GoTo, delVars, execVars, histVars
<1>7. ASSUME ReadRow PROVE (TypeOK /\ DeletesHaveJobs)'
  BY <1>7 DEF ReadRow, At, GoTo, DispatchTo, delVars, execVars, histVars
<1>8. ASSUME Route PROVE (TypeOK /\ DeletesHaveJobs)'
  BY <1>8 DEF Route, At, GoTo, SetStatus, delVars, execVars, histVars
<1>9. ASSUME NetRead PROVE (TypeOK /\ DeletesHaveJobs)'
  BY <1>9 DEF NetRead, At, GoTo, delVars, execVars, histVars
<1>10. ASSUME NetWrite PROVE (TypeOK /\ DeletesHaveJobs)'
  BY <1>10 DEF NetWrite, At, SetStatus, GoTo, delVars, execVars, histVars
<1>11. ASSUME RQEnds PROVE (TypeOK /\ DeletesHaveJobs)'
  BY <1>11 DEF RQEnds, At, GoTo, delVars, execVars, histVars
<1>12. ASSUME NEW x \in Procs, Begin(x) PROVE (TypeOK /\ DeletesHaveJobs)'
  BY <1>12 DEF Begin, CanRun, At, SetStatus, JobOf, GoTo, delVars, execVars
<1>13. ASSUME NEW x \in Procs, BeginRaises(x) PROVE (TypeOK /\ DeletesHaveJobs)'
  BY <1>13 DEF BeginRaises, CanRun, At, JobOf, Escape, GoTo, delVars, execVars, histVars
<1>14. ASSUME NEW x \in Procs, CallReturns(x) PROVE (TypeOK /\ DeletesHaveJobs)'
  BY <1>14 DEF CallReturns, CanRun, At, GoTo, JobOf, delVars, histVars
<1>15. ASSUME NEW x \in Procs, CallFails(x) PROVE (TypeOK /\ DeletesHaveJobs)'
  BY <1>15 DEF CallFails, CanRun, At, GoTo, delVars, histVars
<1>16. ASSUME NEW x \in Procs, CallRaises(x) PROVE (TypeOK /\ DeletesHaveJobs)'
  BY <1>16 DEF CallRaises, CanRun, At, JobOf, Escape, GoTo, delVars, execVars, histVars
<1>17. ASSUME NEW x \in Procs, ReadUsage(x) PROVE (TypeOK /\ DeletesHaveJobs)'
  BY <1>17 DEF ReadUsage, CanRun, At, JobOf, GoTo, delVars, histVars
<1>18. ASSUME NEW x \in Procs, Commit(x) PROVE (TypeOK /\ DeletesHaveJobs)'
  BY <1>18 DEF Commit, CanRun, At, UsageConflict, Metered, HasResult, JobOf, SetStatus,
     GoTo, delVars, histVars
<1>19. ASSUME NEW x \in Procs, CommitConflicts(x) PROVE (TypeOK /\ DeletesHaveJobs)'
  BY <1>19 DEF CommitConflicts, CanRun, At, UsageConflict, Metered, HasResult, JobOf,
     Escape, GoTo, delVars, execVars, histVars
<1>20. ASSUME NEW x \in Procs, After(x) PROVE (TypeOK /\ DeletesHaveJobs)'
  BY <1>20 DEF After, CanRun, At, JobOf, GoTo, Returned, delVars, execVars, histVars
<1>21. ASSUME NEW x \in Procs, FanOut(x) PROVE (TypeOK /\ DeletesHaveJobs)'
  BY <1>21 DEF FanOut, CanRun, At, JobOf, Returned, GoTo, Suffer, Escape, delVars,
     execVars
<1>22. ASSUME NEW d \in Deletes, NEW j \in Jobs, DeleteRead(d, j)
       PROVE  (TypeOK /\ DeletesHaveJobs)'
  BY <1>22 DEF DeleteRead, DelGoTo, execVars, histVars
<1>23. ASSUME NEW d \in Deletes, DeleteCheck(d) PROVE (TypeOK /\ DeletesHaveJobs)'
  BY <1>23 DEF DeleteCheck, DelGoTo, execVars, histVars
<1>24. ASSUME NEW d \in Deletes, DeletePull(d) PROVE (TypeOK /\ DeletesHaveJobs)'
  BY <1>24 DEF DeletePull, DelGoTo, execVars
<1>25. ASSUME NEW d \in Deletes, DeleteRedisError(d) PROVE (TypeOK /\ DeletesHaveJobs)'
  BY <1>25 DEF DeleteRedisError, Suffer, DelGoTo, execVars, histVars
<1>26. ASSUME NEW d \in Deletes, DeleteWrite(d) PROVE (TypeOK /\ DeletesHaveJobs)'
  BY <1>26 DEF DeleteWrite, SetStatus, DelGoTo, execVars, histVars
<1>27. ASSUME WorkerCrash PROVE (TypeOK /\ DeletesHaveJobs)'
  BY <1>27 DEF WorkerCrash, Strike, WorkerHoldsJob, At, Suffer, GoTo, delVars, execVars, histVars
<1>28. ASSUME ApiCrash PROVE (TypeOK /\ DeletesHaveJobs)'
  BY <1>28 DEF ApiCrash, Strike, Suffer, Active, Deleting, execVars, histVars
<1>29. ASSUME Timeout PROVE (TypeOK /\ DeletesHaveJobs)'
  BY <1>29 DEF Timeout, Strike, WorkerHoldsJob, Suffer, GoTo, delVars, execVars, histVars
<1>30. ASSUME NEW j \in Jobs, Abandon(j) PROVE (TypeOK /\ DeletesHaveJobs)'
  BY <1>30 DEF Abandon, delVars, execVars, histVars
<1>31. ASSUME NEW j \in Jobs, Expire(j) PROVE (TypeOK /\ DeletesHaveJobs)'
  BY <1>31 DEF Expire, delVars, execVars, histVars
<1>32. ASSUME NEW j \in Jobs, Replay(j) PROVE (TypeOK /\ DeletesHaveJobs)'
  BY <1>32 DEF Replay, Suffer, delVars, execVars, histVars
<1>33. ASSUME NEW x \in Procs, Exception(x) PROVE (TypeOK /\ DeletesHaveJobs)'
  BY <1>33 DEF Exception, CanRun, Suffer, Escape, GoTo, delVars, execVars, histVars
<1>34. ASSUME NEW x \in Procs, HandlerDbError(x) PROVE (TypeOK /\ DeletesHaveJobs)'
  BY <1>34 DEF HandlerDbError, Strike, WorkerHoldsJob, JobOf, Suffer, GoTo, delVars, execVars, histVars
<1>35. ASSUME NEW d \in Deletes, DeleteDbError(d) PROVE (TypeOK /\ DeletesHaveJobs)'
  BY <1>35 DEF DeleteDbError, Strike, Suffer, DelGoTo, execVars, histVars
<1>36. CASE UNCHANGED vars
  BY <1>36 DEF vars, delVars, histVars
<1>37. QED BY <1>1, <1>2, <1>3, <1>4, <1>5, <1>6, <1>7, <1>8, <1>9, <1>10, <1>11, <1>12,
   <1>13, <1>14, <1>15, <1>16, <1>17, <1>18, <1>19, <1>20, <1>21, <1>22, <1>23, <1>24,
   <1>25, <1>26, <1>27, <1>28, <1>29, <1>30, <1>31, <1>32, <1>33, <1>34, <1>35, <1>36
   DEF Next, SubmitStep, WorkerStep, DeleteStep, Environment, Execute, Procs

\* The worker takes up and lets go of a job together with its program counter.
LEMMA WorkerHoldsJobStep ==
  ASSUME TypeOK, WorkerHoldsJob, [Next]_vars
  PROVE  WorkerHoldsJob'
<1> USE ActorsAssumption DEF TypeOK, WorkerHoldsJob, Procs
<1>1. ASSUME NEW j \in Jobs, Submit(j) PROVE WorkerHoldsJob'
  BY <1>1 DEF Submit, At, SetStatus, GoTo, delVars, execVars, histVars
<1>2. ASSUME NEW j \in Jobs, Enqueue(j) PROVE WorkerHoldsJob'
  BY <1>2 DEF Enqueue, At, GoTo, delVars, execVars, histVars
<1>3. ASSUME NEW j \in Jobs, EnqueueFails(j) PROVE WorkerHoldsJob'
  BY <1>3 DEF EnqueueFails, At, Suffer, GoTo, AfterEnqueueError, delVars, execVars,
     histVars
<1>4. ASSUME NEW j \in Jobs, MarkEnqueueFailed(j) PROVE WorkerHoldsJob'
  BY <1>4 DEF MarkEnqueueFailed, At, SetStatus, GoTo, delVars, execVars, histVars
<1>5. ASSUME NEW j \in Jobs, MarkUnresolved(j) PROVE WorkerHoldsJob'
  BY <1>5 DEF MarkUnresolved, At, SetStatus, GoTo, delVars, execVars, histVars
<1>6. ASSUME NEW j \in Jobs, Dequeue(j) PROVE WorkerHoldsJob'
  BY <1>6 DEF Dequeue, At, GoTo, delVars, execVars, histVars
<1>7. ASSUME ReadRow PROVE WorkerHoldsJob'
  BY <1>7 DEF ReadRow, At, GoTo, DispatchTo, delVars, execVars, histVars
<1>8. ASSUME Route PROVE WorkerHoldsJob'
  BY <1>8 DEF Route, At, GoTo, SetStatus, delVars, execVars, histVars
<1>9. ASSUME NetRead PROVE WorkerHoldsJob'
  BY <1>9 DEF NetRead, At, GoTo, delVars, execVars, histVars
<1>10. ASSUME NetWrite PROVE WorkerHoldsJob'
  BY <1>10 DEF NetWrite, At, SetStatus, GoTo, delVars, execVars, histVars
<1>11. ASSUME RQEnds PROVE WorkerHoldsJob'
  BY <1>11 DEF RQEnds, At, GoTo, delVars, execVars, histVars
<1>12. ASSUME NEW x \in Procs, Begin(x) PROVE WorkerHoldsJob'
  BY <1>12 DEF Begin, CanRun, At, SetStatus, JobOf, GoTo, delVars, execVars
<1>13. ASSUME NEW x \in Procs, BeginRaises(x) PROVE WorkerHoldsJob'
  BY <1>13 DEF BeginRaises, CanRun, At, JobOf, Escape, GoTo, delVars, execVars, histVars
<1>14. ASSUME NEW x \in Procs, CallReturns(x) PROVE WorkerHoldsJob'
  BY <1>14 DEF CallReturns, CanRun, At, GoTo, JobOf, delVars, histVars
<1>15. ASSUME NEW x \in Procs, CallFails(x) PROVE WorkerHoldsJob'
  BY <1>15 DEF CallFails, CanRun, At, GoTo, delVars, histVars
<1>16. ASSUME NEW x \in Procs, CallRaises(x) PROVE WorkerHoldsJob'
  BY <1>16 DEF CallRaises, CanRun, At, JobOf, Escape, GoTo, delVars, execVars, histVars
<1>17. ASSUME NEW x \in Procs, ReadUsage(x) PROVE WorkerHoldsJob'
  BY <1>17 DEF ReadUsage, CanRun, At, JobOf, GoTo, delVars, histVars
<1>18. ASSUME NEW x \in Procs, Commit(x) PROVE WorkerHoldsJob'
  BY <1>18 DEF Commit, CanRun, At, UsageConflict, Metered, HasResult, JobOf, SetStatus,
     GoTo, delVars, histVars
<1>19. ASSUME NEW x \in Procs, CommitConflicts(x) PROVE WorkerHoldsJob'
  BY <1>19 DEF CommitConflicts, CanRun, At, UsageConflict, Metered, HasResult, JobOf,
     Escape, GoTo, delVars, execVars, histVars
<1>20. ASSUME NEW x \in Procs, After(x) PROVE WorkerHoldsJob'
  BY <1>20 DEF After, CanRun, At, JobOf, GoTo, Returned, delVars, execVars, histVars
<1>21. ASSUME NEW x \in Procs, FanOut(x) PROVE WorkerHoldsJob'
  BY <1>21 DEF FanOut, CanRun, At, JobOf, Returned, GoTo, Suffer, Escape, delVars,
     execVars
<1>22. ASSUME WorkerCrash PROVE WorkerHoldsJob'
  BY <1>22 DEF WorkerCrash, Strike, At, Suffer, GoTo, delVars, execVars, histVars
<1>23. ASSUME ApiCrash PROVE WorkerHoldsJob'
  BY <1>23 DEF ApiCrash, Strike, Suffer, Active, Deleting, execVars, histVars
<1>24. ASSUME Timeout PROVE WorkerHoldsJob'
  BY <1>24 DEF Timeout, Strike, ExecPCs, Suffer, GoTo, delVars, execVars, histVars
<1>25. ASSUME NEW x \in Procs, Exception(x) PROVE WorkerHoldsJob'
  BY <1>25 DEF Exception, CanRun, Suffer, Escape, GoTo, delVars, execVars, histVars
<1>26. ASSUME NEW x \in Procs, HandlerDbError(x) PROVE WorkerHoldsJob'
  BY <1>26 DEF HandlerDbError, Strike, Suffer, GoTo, delVars, execVars, histVars
<1>27. ASSUME NEW d \in Deletes, NEW j \in Jobs, DeleteRead(d, j) PROVE WorkerHoldsJob'
  BY <1>27 DEF DeleteRead
<1>28. ASSUME NEW d \in Deletes, DeleteCheck(d) \/ DeletePull(d) \/ DeleteRedisError(d)
   \/ DeleteWrite(d) \/ DeleteDbError(d) PROVE WorkerHoldsJob'
  BY <1>28 DEF DeleteCheck, DeletePull, DeleteRedisError, DeleteWrite, DeleteDbError, Strike
<1>29. ASSUME NEW j \in Jobs, Abandon(j) \/ Expire(j) \/ Replay(j) PROVE WorkerHoldsJob'
  BY <1>29 DEF Abandon, Expire, Replay
<1>30. CASE UNCHANGED vars
  BY <1>30 DEF vars, delVars, histVars
<1>31. QED BY <1>1, <1>2, <1>3, <1>4, <1>5, <1>6, <1>7, <1>8, <1>9, <1>10, <1>11, <1>12,
   <1>13, <1>14, <1>15, <1>16, <1>17, <1>18, <1>19, <1>20, <1>21, <1>22, <1>23, <1>24,
   <1>25, <1>26, <1>27, <1>28, <1>29, <1>30 DEF Next, SubmitStep, WorkerStep,
   DeleteStep, Environment, Execute, Procs

\* The submit handlers keep the inline and the queued path apart.
LEMMA InlineOrQueuedStep ==
  ASSUME TypeOK, InlineOrQueued, [Next]_vars
  PROVE  InlineOrQueued'
<1> USE ActorsAssumption DEF TypeOK, InlineOrQueued, ExecPCs, Procs
<1>1. ASSUME NEW j \in Jobs, Submit(j) PROVE InlineOrQueued'
  BY <1>1 DEF Submit, At, SetStatus, GoTo, delVars, execVars, histVars
<1>2. ASSUME NEW j \in Jobs, Enqueue(j) PROVE InlineOrQueued'
  BY <1>2 DEF Enqueue, At, GoTo, delVars, execVars, histVars
<1>3. ASSUME NEW j \in Jobs, EnqueueFails(j) PROVE InlineOrQueued'
  BY <1>3 DEF EnqueueFails, At, Suffer, GoTo, AfterEnqueueError, delVars, execVars,
     histVars
<1>4. ASSUME NEW j \in Jobs, MarkEnqueueFailed(j) PROVE InlineOrQueued'
  BY <1>4 DEF MarkEnqueueFailed, At, SetStatus, GoTo, delVars, execVars, histVars
<1>5. ASSUME NEW j \in Jobs, MarkUnresolved(j) PROVE InlineOrQueued'
  BY <1>5 DEF MarkUnresolved, At, SetStatus, GoTo, delVars, execVars, histVars
<1>6. ASSUME NEW j \in Jobs, Dequeue(j) PROVE InlineOrQueued'
  BY <1>6 DEF Dequeue, At, GoTo, delVars, execVars, histVars
<1>7. ASSUME ReadRow PROVE InlineOrQueued'
  BY <1>7 DEF ReadRow, At, GoTo, DispatchTo, delVars, execVars, histVars
<1>8. ASSUME Route PROVE InlineOrQueued'
  BY <1>8 DEF Route, At, GoTo, SetStatus, delVars, execVars, histVars
<1>9. ASSUME NetRead PROVE InlineOrQueued'
  BY <1>9 DEF NetRead, At, GoTo, delVars, execVars, histVars
<1>10. ASSUME NetWrite PROVE InlineOrQueued'
  BY <1>10 DEF NetWrite, At, SetStatus, GoTo, delVars, execVars, histVars
<1>11. ASSUME RQEnds PROVE InlineOrQueued'
  BY <1>11 DEF RQEnds, At, GoTo, delVars, execVars, histVars
<1>12. ASSUME NEW x \in Procs, Begin(x) PROVE InlineOrQueued'
  BY <1>12 DEF Begin, CanRun, At, SetStatus, JobOf, GoTo, delVars, execVars
<1>13. ASSUME NEW x \in Procs, BeginRaises(x) PROVE InlineOrQueued'
  BY <1>13 DEF BeginRaises, CanRun, At, JobOf, Escape, GoTo, delVars, execVars, histVars
<1>14. ASSUME NEW x \in Procs, CallReturns(x) PROVE InlineOrQueued'
  BY <1>14 DEF CallReturns, CanRun, At, GoTo, JobOf, delVars, histVars
<1>15. ASSUME NEW x \in Procs, CallFails(x) PROVE InlineOrQueued'
  BY <1>15 DEF CallFails, CanRun, At, GoTo, delVars, histVars
<1>16. ASSUME NEW x \in Procs, CallRaises(x) PROVE InlineOrQueued'
  BY <1>16 DEF CallRaises, CanRun, At, JobOf, Escape, GoTo, delVars, execVars, histVars
<1>17. ASSUME NEW x \in Procs, ReadUsage(x) PROVE InlineOrQueued'
  BY <1>17 DEF ReadUsage, CanRun, At, JobOf, GoTo, delVars, histVars
<1>18. ASSUME NEW x \in Procs, Commit(x) PROVE InlineOrQueued'
  BY <1>18 DEF Commit, CanRun, At, UsageConflict, Metered, HasResult, JobOf, SetStatus,
     GoTo, delVars, histVars
<1>19. ASSUME NEW x \in Procs, CommitConflicts(x) PROVE InlineOrQueued'
  BY <1>19 DEF CommitConflicts, CanRun, At, UsageConflict, Metered, HasResult, JobOf,
     Escape, GoTo, delVars, execVars, histVars
<1>20. ASSUME NEW x \in Procs, After(x) PROVE InlineOrQueued'
  BY <1>20 DEF After, CanRun, At, JobOf, GoTo, Returned, delVars, execVars, histVars
<1>21. ASSUME NEW x \in Procs, FanOut(x) PROVE InlineOrQueued'
  BY <1>21 DEF FanOut, CanRun, At, JobOf, Returned, GoTo, Suffer, Escape, delVars,
     execVars
<1>22. ASSUME WorkerCrash PROVE InlineOrQueued'
  BY <1>22 DEF WorkerCrash, Strike, At, Suffer, GoTo, delVars, execVars, histVars
<1>23. ASSUME ApiCrash PROVE InlineOrQueued'
  BY <1>23 DEF ApiCrash, Strike, Suffer, Active, Deleting, execVars, histVars
<1>24. ASSUME Timeout PROVE InlineOrQueued'
  BY <1>24 DEF Timeout, Strike, Suffer, GoTo, delVars, execVars, histVars
<1>25. ASSUME NEW x \in Procs, Exception(x) PROVE InlineOrQueued'
  BY <1>25 DEF Exception, CanRun, Suffer, Escape, GoTo, delVars, execVars, histVars
<1>26. ASSUME NEW x \in Procs, HandlerDbError(x) PROVE InlineOrQueued'
  BY <1>26 DEF HandlerDbError, Strike, Suffer, GoTo, delVars, execVars, histVars
<1>27. ASSUME NEW d \in Deletes, NEW j \in Jobs, DeleteRead(d, j) PROVE InlineOrQueued'
  BY <1>27 DEF DeleteRead
<1>28. ASSUME NEW d \in Deletes, DeleteCheck(d) \/ DeletePull(d) \/ DeleteRedisError(d)
   \/ DeleteWrite(d) \/ DeleteDbError(d) PROVE InlineOrQueued'
  BY <1>28 DEF DeleteCheck, DeletePull, DeleteRedisError, DeleteWrite, DeleteDbError, Strike
<1>29. ASSUME NEW j \in Jobs, Abandon(j) \/ Expire(j) \/ Replay(j) PROVE InlineOrQueued'
  BY <1>29 DEF Abandon, Expire, Replay
<1>30. CASE UNCHANGED vars
  BY <1>30 DEF vars, delVars, histVars
<1>31. QED BY <1>1, <1>2, <1>3, <1>4, <1>5, <1>6, <1>7, <1>8, <1>9, <1>10, <1>11, <1>12,
   <1>13, <1>14, <1>15, <1>16, <1>17, <1>18, <1>19, <1>20, <1>21, <1>22, <1>23, <1>24,
   <1>25, <1>26, <1>27, <1>28, <1>29, <1>30 DEF Next, SubmitStep, WorkerStep,
   DeleteStep, Environment, Execute, Procs

\* A record comes from the enqueue call, and is started while the worker has the job.
LEMMA RecordsAreTakenStep ==
  ASSUME TypeOK, DeletesHaveJobs, WorkerHoldsJob, InlineOrQueued, RecordsAreTaken,
         CancelIsJustified, [Next]_vars
  PROVE  RecordsAreTaken'
<1> USE ActorsAssumption DEF TypeOK, WorkerHoldsJob, InlineOrQueued, RecordsAreTaken,
   CancelIsJustified, DeletesHaveJobs, ExecPCs, Procs
<1>1. ASSUME NEW j \in Jobs, Submit(j) PROVE RecordsAreTaken'
  BY <1>1 DEF Submit, At, SetStatus, GoTo, delVars, execVars, histVars
<1>2. ASSUME NEW j \in Jobs, Enqueue(j) PROVE RecordsAreTaken'
  BY <1>2 DEF Enqueue, At, GoTo, delVars, execVars, histVars
<1>3. ASSUME NEW j \in Jobs, EnqueueFails(j) PROVE RecordsAreTaken'
  BY <1>3 DEF EnqueueFails, At, Suffer, GoTo, AfterEnqueueError, delVars, execVars,
     histVars
<1>4. ASSUME NEW j \in Jobs, MarkEnqueueFailed(j) PROVE RecordsAreTaken'
  BY <1>4 DEF MarkEnqueueFailed, At, SetStatus, GoTo, delVars, execVars, histVars
<1>5. ASSUME NEW j \in Jobs, MarkUnresolved(j) PROVE RecordsAreTaken'
  BY <1>5 DEF MarkUnresolved, At, SetStatus, GoTo, delVars, execVars, histVars
<1>6. ASSUME NEW j \in Jobs, Dequeue(j) PROVE RecordsAreTaken'
  BY <1>6 DEF Dequeue, At, GoTo, delVars, execVars, histVars
<1>7. ASSUME ReadRow PROVE RecordsAreTaken'
  BY <1>7 DEF ReadRow, At, GoTo, DispatchTo, delVars, execVars, histVars
<1>8. ASSUME Route PROVE RecordsAreTaken'
  BY <1>8 DEF Route, At, GoTo, SetStatus, delVars, execVars, histVars
<1>9. ASSUME NetRead PROVE RecordsAreTaken'
  BY <1>9 DEF NetRead, At, GoTo, delVars, execVars, histVars
<1>10. ASSUME NetWrite PROVE RecordsAreTaken'
  BY <1>10 DEF NetWrite, At, SetStatus, GoTo, delVars, execVars, histVars
<1>11. ASSUME RQEnds PROVE RecordsAreTaken'
  BY <1>11 DEF RQEnds, At, GoTo, delVars, execVars, histVars
<1>12. ASSUME NEW x \in Procs, Begin(x) PROVE RecordsAreTaken'
  BY <1>12 DEF Begin, CanRun, At, SetStatus, JobOf, GoTo, delVars, execVars
<1>13. ASSUME NEW x \in Procs, BeginRaises(x) PROVE RecordsAreTaken'
  BY <1>13 DEF BeginRaises, CanRun, At, JobOf, Escape, GoTo, delVars, execVars, histVars
<1>14. ASSUME NEW x \in Procs, CallReturns(x) PROVE RecordsAreTaken'
  BY <1>14 DEF CallReturns, CanRun, At, GoTo, JobOf, delVars, histVars
<1>15. ASSUME NEW x \in Procs, CallFails(x) PROVE RecordsAreTaken'
  BY <1>15 DEF CallFails, CanRun, At, GoTo, delVars, histVars
<1>16. ASSUME NEW x \in Procs, CallRaises(x) PROVE RecordsAreTaken'
  BY <1>16 DEF CallRaises, CanRun, At, JobOf, Escape, GoTo, delVars, execVars, histVars
<1>17. ASSUME NEW x \in Procs, ReadUsage(x) PROVE RecordsAreTaken'
  BY <1>17 DEF ReadUsage, CanRun, At, JobOf, GoTo, delVars, histVars
<1>18. ASSUME NEW x \in Procs, Commit(x) PROVE RecordsAreTaken'
  BY <1>18 DEF Commit, CanRun, At, UsageConflict, Metered, HasResult, JobOf, SetStatus,
     GoTo, delVars, histVars
<1>19. ASSUME NEW x \in Procs, CommitConflicts(x) PROVE RecordsAreTaken'
  BY <1>19 DEF CommitConflicts, CanRun, At, UsageConflict, Metered, HasResult, JobOf,
     Escape, GoTo, delVars, execVars, histVars
<1>20. ASSUME NEW x \in Procs, After(x) PROVE RecordsAreTaken'
  BY <1>20 DEF After, CanRun, At, JobOf, GoTo, Returned, delVars, execVars, histVars
<1>21. ASSUME NEW x \in Procs, FanOut(x) PROVE RecordsAreTaken'
  BY <1>21 DEF FanOut, CanRun, At, JobOf, Returned, GoTo, Suffer, Escape, delVars,
     execVars
<1>22. ASSUME NEW d \in Deletes, NEW j \in Jobs, DeleteRead(d, j) PROVE RecordsAreTaken'
  BY <1>22 DEF DeleteRead, DelGoTo, Settled, execVars, histVars
<1>23. ASSUME NEW d \in Deletes, DeletePull(d) PROVE RecordsAreTaken'
  BY <1>23 DEF DeletePull, DelGoTo, execVars
<1>24. ASSUME WorkerCrash PROVE RecordsAreTaken'
  BY <1>24 DEF WorkerCrash, Strike, At, Suffer, GoTo, delVars, execVars, histVars
<1>25. ASSUME ApiCrash PROVE RecordsAreTaken'
  BY <1>25 DEF ApiCrash, Strike, Suffer, Active, Deleting, execVars, histVars
<1>26. ASSUME Timeout PROVE RecordsAreTaken'
  BY <1>26 DEF Timeout, Strike, Suffer, GoTo, delVars, execVars, histVars
<1>27. ASSUME NEW j \in Jobs, Abandon(j) PROVE RecordsAreTaken'
  BY <1>27 DEF Abandon, delVars, execVars, histVars
<1>28. ASSUME NEW j \in Jobs, Expire(j) PROVE RecordsAreTaken'
  BY <1>28 DEF Expire, delVars, execVars, histVars
<1>29. ASSUME NEW j \in Jobs, Replay(j) PROVE RecordsAreTaken'
  BY <1>29 DEF Replay, Suffer, delVars, execVars, histVars
<1>30. ASSUME NEW x \in Procs, Exception(x) PROVE RecordsAreTaken'
  BY <1>30 DEF Exception, CanRun, Suffer, Escape, GoTo, delVars, execVars, histVars
<1>31. ASSUME NEW x \in Procs, HandlerDbError(x) PROVE RecordsAreTaken'
  BY <1>31 DEF HandlerDbError, Strike, Suffer, GoTo, delVars, execVars, histVars
<1>32. ASSUME NEW d \in Deletes, DeleteCheck(d) \/ DeleteRedisError(d) \/ DeleteWrite(d)
   \/ DeleteDbError(d) PROVE RecordsAreTaken'
  BY <1>32 DEF DeleteCheck, DeleteRedisError, DeleteWrite, DeleteDbError, Strike
<1>33. CASE UNCHANGED vars
  BY <1>33 DEF vars, delVars, histVars
<1>34. QED BY <1>1, <1>2, <1>3, <1>4, <1>5, <1>6, <1>7, <1>8, <1>9, <1>10, <1>11, <1>12,
   <1>13, <1>14, <1>15, <1>16, <1>17, <1>18, <1>19, <1>20, <1>21, <1>22, <1>23, <1>24,
   <1>25, <1>26, <1>27, <1>28, <1>29, <1>30, <1>31, <1>32, <1>33 DEF Next, SubmitStep,
   WorkerStep, DeleteStep, Environment, Execute, Procs

\* Only Begin counts a start, and it finds a job that has none.
LEMMA StartedOnceStep ==
  ASSUME TypeOK, WorkerHoldsJob, DeletesHaveJobs, InlineOrQueued, RecordsAreTaken,
         StartedOnce, [Next]_vars
  PROVE  StartedOnce'
<1> USE ActorsAssumption DEF TypeOK, WorkerHoldsJob, InlineOrQueued, RecordsAreTaken,
   StartedOnce, DeletesHaveJobs, ExecPCs, Procs
<1>1. ASSUME NEW j \in Jobs, Submit(j) PROVE StartedOnce'
  BY <1>1 DEF Submit, At, SetStatus, GoTo, delVars, execVars, histVars
<1>2. ASSUME NEW j \in Jobs, Enqueue(j) PROVE StartedOnce'
  BY <1>2 DEF Enqueue, At, GoTo, delVars, execVars, histVars
<1>3. ASSUME NEW j \in Jobs, EnqueueFails(j) PROVE StartedOnce'
  BY <1>3 DEF EnqueueFails, At, Suffer, GoTo, AfterEnqueueError, delVars, execVars,
     histVars
<1>4. ASSUME NEW j \in Jobs, MarkEnqueueFailed(j) PROVE StartedOnce'
  BY <1>4 DEF MarkEnqueueFailed, At, SetStatus, GoTo, delVars, execVars, histVars
<1>5. ASSUME NEW j \in Jobs, MarkUnresolved(j) PROVE StartedOnce'
  BY <1>5 DEF MarkUnresolved, At, SetStatus, GoTo, delVars, execVars, histVars
<1>6. ASSUME NEW j \in Jobs, Dequeue(j) PROVE StartedOnce'
  BY <1>6 DEF Dequeue, At, GoTo, delVars, execVars, histVars
<1>7. ASSUME ReadRow PROVE StartedOnce'
  BY <1>7 DEF ReadRow, At, GoTo, DispatchTo, delVars, execVars, histVars
<1>8. ASSUME Route PROVE StartedOnce'
  BY <1>8 DEF Route, At, GoTo, SetStatus, delVars, execVars, histVars
<1>9. ASSUME NetRead PROVE StartedOnce'
  BY <1>9 DEF NetRead, At, GoTo, delVars, execVars, histVars
<1>10. ASSUME NetWrite PROVE StartedOnce'
  BY <1>10 DEF NetWrite, At, SetStatus, GoTo, delVars, execVars, histVars
<1>11. ASSUME RQEnds PROVE StartedOnce'
  BY <1>11 DEF RQEnds, At, GoTo, delVars, execVars, histVars
<1>12. ASSUME NEW x \in Procs, Begin(x) PROVE StartedOnce'
  BY <1>12 DEF Begin, CanRun, At, SetStatus, JobOf, GoTo, delVars, execVars
<1>13. ASSUME NEW x \in Procs, BeginRaises(x) PROVE StartedOnce'
  BY <1>13 DEF BeginRaises, CanRun, At, JobOf, Escape, GoTo, delVars, execVars, histVars
<1>14. ASSUME NEW x \in Procs, CallReturns(x) PROVE StartedOnce'
  BY <1>14 DEF CallReturns, CanRun, At, GoTo, JobOf, delVars, histVars
<1>15. ASSUME NEW x \in Procs, CallFails(x) PROVE StartedOnce'
  BY <1>15 DEF CallFails, CanRun, At, GoTo, delVars, histVars
<1>16. ASSUME NEW x \in Procs, CallRaises(x) PROVE StartedOnce'
  BY <1>16 DEF CallRaises, CanRun, At, JobOf, Escape, GoTo, delVars, execVars, histVars
<1>17. ASSUME NEW x \in Procs, ReadUsage(x) PROVE StartedOnce'
  BY <1>17 DEF ReadUsage, CanRun, At, JobOf, GoTo, delVars, histVars
<1>18. ASSUME NEW x \in Procs, Commit(x) PROVE StartedOnce'
  BY <1>18 DEF Commit, CanRun, At, UsageConflict, Metered, HasResult, JobOf, SetStatus,
     GoTo, delVars, histVars
<1>19. ASSUME NEW x \in Procs, CommitConflicts(x) PROVE StartedOnce'
  BY <1>19 DEF CommitConflicts, CanRun, At, UsageConflict, Metered, HasResult, JobOf,
     Escape, GoTo, delVars, execVars, histVars
<1>20. ASSUME NEW x \in Procs, After(x) PROVE StartedOnce'
  BY <1>20 DEF After, CanRun, At, JobOf, GoTo, Returned, delVars, execVars, histVars
<1>21. ASSUME NEW x \in Procs, FanOut(x) PROVE StartedOnce'
  BY <1>21 DEF FanOut, CanRun, At, JobOf, Returned, GoTo, Suffer, Escape, delVars,
     execVars
<1>22. ASSUME NEW d \in Deletes, DeleteWrite(d) PROVE StartedOnce'
  BY <1>22 DEF DeleteWrite, SetStatus, DelGoTo, execVars, histVars
<1>23. ASSUME WorkerCrash PROVE StartedOnce'
  BY <1>23 DEF WorkerCrash, Strike, At, Suffer, GoTo, delVars, execVars, histVars
<1>24. ASSUME ApiCrash PROVE StartedOnce'
  BY <1>24 DEF ApiCrash, Strike, Suffer, Active, Deleting, execVars, histVars
<1>25. ASSUME Timeout PROVE StartedOnce'
  BY <1>25 DEF Timeout, Strike, Suffer, GoTo, delVars, execVars, histVars
<1>26. ASSUME NEW x \in Procs, Exception(x) PROVE StartedOnce'
  BY <1>26 DEF Exception, CanRun, Suffer, Escape, GoTo, delVars, execVars, histVars
<1>27. ASSUME NEW x \in Procs, HandlerDbError(x) PROVE StartedOnce'
  BY <1>27 DEF HandlerDbError, Strike, Suffer, GoTo, delVars, execVars, histVars
<1>28. ASSUME NEW d \in Deletes, NEW j \in Jobs, DeleteRead(d, j) PROVE StartedOnce'
  BY <1>28 DEF DeleteRead, histVars
<1>29. ASSUME NEW d \in Deletes, DeleteCheck(d) \/ DeletePull(d) \/ DeleteRedisError(d)
   \/ DeleteDbError(d) PROVE StartedOnce'
  BY <1>29 DEF DeleteCheck, DeletePull, DeleteRedisError, DeleteDbError, Strike, histVars
<1>30. ASSUME NEW j \in Jobs, Abandon(j) \/ Expire(j) \/ Replay(j) PROVE StartedOnce'
  BY <1>30 DEF Abandon, Expire, Replay, histVars
<1>31. CASE UNCHANGED vars
  BY <1>31 DEF vars, delVars, histVars
<1>32. QED BY <1>1, <1>2, <1>3, <1>4, <1>5, <1>6, <1>7, <1>8, <1>9, <1>10, <1>11, <1>12,
   <1>13, <1>14, <1>15, <1>16, <1>17, <1>18, <1>19, <1>20, <1>21, <1>22, <1>23, <1>24,
   <1>25, <1>26, <1>27, <1>28, <1>29, <1>30, <1>31 DEF Next, SubmitStep, WorkerStep,
   DeleteStep, Environment, Execute, Procs

\* Nothing brings the record of a pulled job back.
LEMMA PulledIsGoneStep ==
  ASSUME TypeOK, WorkerHoldsJob, DeletesHaveJobs, InlineOrQueued, RecordsAreTaken,
         PulledIsGone, CancelIsJustified, [Next]_vars
  PROVE  PulledIsGone'
<1> USE ActorsAssumption DEF TypeOK, WorkerHoldsJob, InlineOrQueued, RecordsAreTaken,
   PulledIsGone, CancelIsJustified, DeletesHaveJobs, ExecPCs, Procs
<1>1. ASSUME NEW j \in Jobs, Submit(j) PROVE PulledIsGone'
  BY <1>1 DEF Submit, At, SetStatus, GoTo, delVars, execVars, histVars
<1>2. ASSUME NEW j \in Jobs, Enqueue(j) PROVE PulledIsGone'
  BY <1>2 DEF Enqueue, At, GoTo, delVars, execVars, histVars
<1>3. ASSUME NEW j \in Jobs, EnqueueFails(j) PROVE PulledIsGone'
  BY <1>3 DEF EnqueueFails, At, Suffer, GoTo, AfterEnqueueError, delVars, execVars,
     histVars
<1>4. ASSUME NEW j \in Jobs, MarkEnqueueFailed(j) PROVE PulledIsGone'
  BY <1>4 DEF MarkEnqueueFailed, At, SetStatus, GoTo, delVars, execVars, histVars
<1>5. ASSUME NEW j \in Jobs, MarkUnresolved(j) PROVE PulledIsGone'
  BY <1>5 DEF MarkUnresolved, At, SetStatus, GoTo, delVars, execVars, histVars
<1>6. ASSUME NEW j \in Jobs, Dequeue(j) PROVE PulledIsGone'
  BY <1>6 DEF Dequeue, At, GoTo, delVars, execVars, histVars
<1>7. ASSUME ReadRow PROVE PulledIsGone'
  BY <1>7 DEF ReadRow, At, GoTo, DispatchTo, delVars, execVars, histVars
<1>8. ASSUME Route PROVE PulledIsGone'
  BY <1>8 DEF Route, At, GoTo, SetStatus, delVars, execVars, histVars
<1>9. ASSUME NetRead PROVE PulledIsGone'
  BY <1>9 DEF NetRead, At, GoTo, delVars, execVars, histVars
<1>10. ASSUME NetWrite PROVE PulledIsGone'
  BY <1>10 DEF NetWrite, At, SetStatus, GoTo, delVars, execVars, histVars
<1>11. ASSUME RQEnds PROVE PulledIsGone'
  BY <1>11 DEF RQEnds, At, GoTo, delVars, execVars, histVars
<1>12. ASSUME NEW x \in Procs, Begin(x) PROVE PulledIsGone'
  BY <1>12 DEF Begin, CanRun, At, SetStatus, JobOf, GoTo, delVars, execVars
<1>13. ASSUME NEW x \in Procs, BeginRaises(x) PROVE PulledIsGone'
  BY <1>13 DEF BeginRaises, CanRun, At, JobOf, Escape, GoTo, delVars, execVars, histVars
<1>14. ASSUME NEW x \in Procs, CallReturns(x) PROVE PulledIsGone'
  BY <1>14 DEF CallReturns, CanRun, At, GoTo, JobOf, delVars, histVars
<1>15. ASSUME NEW x \in Procs, CallFails(x) PROVE PulledIsGone'
  BY <1>15 DEF CallFails, CanRun, At, GoTo, delVars, histVars
<1>16. ASSUME NEW x \in Procs, CallRaises(x) PROVE PulledIsGone'
  BY <1>16 DEF CallRaises, CanRun, At, JobOf, Escape, GoTo, delVars, execVars, histVars
<1>17. ASSUME NEW x \in Procs, ReadUsage(x) PROVE PulledIsGone'
  BY <1>17 DEF ReadUsage, CanRun, At, JobOf, GoTo, delVars, histVars
<1>18. ASSUME NEW x \in Procs, Commit(x) PROVE PulledIsGone'
  BY <1>18 DEF Commit, CanRun, At, UsageConflict, Metered, HasResult, JobOf, SetStatus,
     GoTo, delVars, histVars
<1>19. ASSUME NEW x \in Procs, CommitConflicts(x) PROVE PulledIsGone'
  BY <1>19 DEF CommitConflicts, CanRun, At, UsageConflict, Metered, HasResult, JobOf,
     Escape, GoTo, delVars, execVars, histVars
<1>20. ASSUME NEW x \in Procs, After(x) PROVE PulledIsGone'
  BY <1>20 DEF After, CanRun, At, JobOf, GoTo, Returned, delVars, execVars, histVars
<1>21. ASSUME NEW x \in Procs, FanOut(x) PROVE PulledIsGone'
  BY <1>21 DEF FanOut, CanRun, At, JobOf, Returned, GoTo, Suffer, Escape, delVars,
     execVars
<1>22. ASSUME NEW d \in Deletes, DeletePull(d) PROVE PulledIsGone'
  BY <1>22 DEF DeletePull, DelGoTo, execVars
<1>23. ASSUME WorkerCrash PROVE PulledIsGone'
  BY <1>23 DEF WorkerCrash, Strike, At, Suffer, GoTo, delVars, execVars, histVars
<1>24. ASSUME ApiCrash PROVE PulledIsGone'
  BY <1>24 DEF ApiCrash, Strike, Suffer, Active, Deleting, execVars, histVars
<1>25. ASSUME Timeout PROVE PulledIsGone'
  BY <1>25 DEF Timeout, Strike, Suffer, GoTo, delVars, execVars, histVars
<1>26. ASSUME NEW j \in Jobs, Abandon(j) PROVE PulledIsGone'
  BY <1>26 DEF Abandon, delVars, execVars, histVars
<1>27. ASSUME NEW j \in Jobs, Expire(j) PROVE PulledIsGone'
  BY <1>27 DEF Expire, delVars, execVars, histVars
<1>28. ASSUME NEW j \in Jobs, Replay(j) PROVE PulledIsGone'
  BY <1>28 DEF Replay, Suffer, delVars, execVars, histVars
<1>29. ASSUME NEW x \in Procs, Exception(x) PROVE PulledIsGone'
  BY <1>29 DEF Exception, CanRun, Suffer, Escape, GoTo, delVars, execVars, histVars
<1>30. ASSUME NEW x \in Procs, HandlerDbError(x) PROVE PulledIsGone'
  BY <1>30 DEF HandlerDbError, Strike, Suffer, GoTo, delVars, execVars, histVars
<1>31. ASSUME NEW d \in Deletes, NEW j \in Jobs, DeleteRead(d, j) PROVE PulledIsGone'
  BY <1>31 DEF DeleteRead, histVars
<1>32. ASSUME NEW d \in Deletes, DeleteCheck(d) \/ DeleteRedisError(d) \/ DeleteWrite(d)
   \/ DeleteDbError(d) PROVE PulledIsGone'
  BY <1>32 DEF DeleteCheck, DeleteRedisError, DeleteWrite, DeleteDbError, Strike, histVars
<1>33. CASE UNCHANGED vars
  BY <1>33 DEF vars, delVars, histVars
<1>34. QED BY <1>1, <1>2, <1>3, <1>4, <1>5, <1>6, <1>7, <1>8, <1>9, <1>10, <1>11, <1>12,
   <1>13, <1>14, <1>15, <1>16, <1>17, <1>18, <1>19, <1>20, <1>21, <1>22, <1>23, <1>24,
   <1>25, <1>26, <1>27, <1>28, <1>29, <1>30, <1>31, <1>32, <1>33 DEF Next, SubmitStep,
   WorkerStep, DeleteStep, Environment, Execute, Procs

\* A DELETE goes on only with the status it read.
LEMMA CancelIsJustifiedStep ==
  ASSUME TypeOK, WorkerHoldsJob, DeletesHaveJobs, InlineOrQueued, RecordsAreTaken,
         StartedOnce, CancelIsJustified, [Next]_vars
  PROVE  CancelIsJustified'
<1> USE ActorsAssumption DEF TypeOK, WorkerHoldsJob, InlineOrQueued, RecordsAreTaken,
   StartedOnce, CancelIsJustified, DeletesHaveJobs, WorkerRuns, ExecPCs, Procs
<1>1. ASSUME NEW j \in Jobs, Submit(j) PROVE CancelIsJustified'
  BY <1>1 DEF Submit, At, SetStatus, GoTo, delVars, execVars, histVars
<1>2. ASSUME NEW j \in Jobs, Enqueue(j) PROVE CancelIsJustified'
  BY <1>2 DEF Enqueue, At, GoTo, delVars, execVars, histVars
<1>3. ASSUME NEW j \in Jobs, EnqueueFails(j) PROVE CancelIsJustified'
  BY <1>3 DEF EnqueueFails, At, Suffer, GoTo, AfterEnqueueError, delVars, execVars,
     histVars
<1>4. ASSUME NEW j \in Jobs, MarkEnqueueFailed(j) PROVE CancelIsJustified'
  BY <1>4 DEF MarkEnqueueFailed, At, SetStatus, GoTo, delVars, execVars, histVars
<1>5. ASSUME NEW j \in Jobs, MarkUnresolved(j) PROVE CancelIsJustified'
  BY <1>5 DEF MarkUnresolved, At, SetStatus, GoTo, delVars, execVars, histVars
<1>6. ASSUME NEW j \in Jobs, Dequeue(j) PROVE CancelIsJustified'
  BY <1>6 DEF Dequeue, At, GoTo, delVars, execVars, histVars
<1>7. ASSUME ReadRow PROVE CancelIsJustified'
  BY <1>7 DEF ReadRow, At, GoTo, DispatchTo, delVars, execVars, histVars
<1>8. ASSUME Route PROVE CancelIsJustified'
  BY <1>8 DEF Route, At, GoTo, SetStatus, delVars, execVars, histVars
<1>9. ASSUME NetRead PROVE CancelIsJustified'
  BY <1>9 DEF NetRead, At, GoTo, delVars, execVars, histVars
<1>10. ASSUME NetWrite PROVE CancelIsJustified'
  BY <1>10 DEF NetWrite, At, SetStatus, GoTo, delVars, execVars, histVars
<1>11. ASSUME RQEnds PROVE CancelIsJustified'
  BY <1>11 DEF RQEnds, At, GoTo, delVars, execVars, histVars
<1>12. ASSUME NEW x \in Procs, Begin(x) PROVE CancelIsJustified'
  BY <1>12 DEF Begin, CanRun, At, SetStatus, JobOf, GoTo, delVars, execVars
<1>13. ASSUME NEW x \in Procs, BeginRaises(x) PROVE CancelIsJustified'
  BY <1>13 DEF BeginRaises, CanRun, At, JobOf, Escape, GoTo, delVars, execVars, histVars
<1>14. ASSUME NEW x \in Procs, CallReturns(x) PROVE CancelIsJustified'
  BY <1>14 DEF CallReturns, CanRun, At, GoTo, JobOf, delVars, histVars
<1>15. ASSUME NEW x \in Procs, CallFails(x) PROVE CancelIsJustified'
  BY <1>15 DEF CallFails, CanRun, At, GoTo, delVars, histVars
<1>16. ASSUME NEW x \in Procs, CallRaises(x) PROVE CancelIsJustified'
  BY <1>16 DEF CallRaises, CanRun, At, JobOf, Escape, GoTo, delVars, execVars, histVars
<1>17. ASSUME NEW x \in Procs, ReadUsage(x) PROVE CancelIsJustified'
  BY <1>17 DEF ReadUsage, CanRun, At, JobOf, GoTo, delVars, histVars
<1>18. ASSUME NEW x \in Procs, Commit(x) PROVE CancelIsJustified'
  BY <1>18 DEF Commit, CanRun, At, UsageConflict, Metered, HasResult, JobOf, SetStatus,
     GoTo, delVars, histVars
<1>19. ASSUME NEW x \in Procs, CommitConflicts(x) PROVE CancelIsJustified'
  BY <1>19 DEF CommitConflicts, CanRun, At, UsageConflict, Metered, HasResult, JobOf,
     Escape, GoTo, delVars, execVars, histVars
<1>20. ASSUME NEW x \in Procs, After(x) PROVE CancelIsJustified'
  BY <1>20 DEF After, CanRun, At, JobOf, GoTo, Returned, delVars, execVars, histVars
<1>21. ASSUME NEW x \in Procs, FanOut(x) PROVE CancelIsJustified'
  BY <1>21 DEF FanOut, CanRun, At, JobOf, Returned, GoTo, Suffer, Escape, delVars,
     execVars
<1>22. ASSUME NEW d \in Deletes, NEW j \in Jobs, DeleteRead(d, j) PROVE CancelIsJustified'
  BY <1>22 DEF DeleteRead, DelGoTo, Settled, execVars, histVars
<1>23. ASSUME NEW d \in Deletes, DeleteCheck(d) PROVE CancelIsJustified'
  BY <1>23 DEF DeleteCheck, DelGoTo, execVars, histVars
<1>24. ASSUME NEW d \in Deletes, DeletePull(d) PROVE CancelIsJustified'
  BY <1>24 DEF DeletePull, DelGoTo, execVars
<1>25. ASSUME NEW d \in Deletes, DeleteRedisError(d) PROVE CancelIsJustified'
  BY <1>25 DEF DeleteRedisError, Suffer, DelGoTo, execVars, histVars
<1>26. ASSUME NEW d \in Deletes, DeleteWrite(d) PROVE CancelIsJustified'
  BY <1>26 DEF DeleteWrite, SetStatus, DelGoTo, execVars, histVars
<1>27. ASSUME WorkerCrash PROVE CancelIsJustified'
  BY <1>27 DEF WorkerCrash, Strike, At, Suffer, GoTo, delVars, execVars, histVars
<1>28. ASSUME ApiCrash PROVE CancelIsJustified'
  BY <1>28 DEF ApiCrash, Strike, Suffer, Active, Deleting, execVars, histVars
<1>29. ASSUME Timeout PROVE CancelIsJustified'
  BY <1>29 DEF Timeout, Strike, Suffer, GoTo, delVars, execVars, histVars
<1>30. ASSUME NEW x \in Procs, Exception(x) PROVE CancelIsJustified'
  BY <1>30 DEF Exception, CanRun, Suffer, Escape, GoTo, delVars, execVars, histVars
<1>31. ASSUME NEW x \in Procs, HandlerDbError(x) PROVE CancelIsJustified'
  BY <1>31 DEF HandlerDbError, Strike, Suffer, GoTo, delVars, execVars, histVars
<1>32. ASSUME NEW d \in Deletes, DeleteDbError(d) PROVE CancelIsJustified'
  BY <1>32 DEF DeleteDbError, Strike, Suffer, DelGoTo, execVars, histVars
<1>33. CASE UNCHANGED <<pc, cur, delVars, histVars>>
  BY <1>33 DEF delVars, histVars
<1> HIDE DEF TypeOK, WorkerHoldsJob, InlineOrQueued, RecordsAreTaken, StartedOnce,
   CancelIsJustified, DeletesHaveJobs, WorkerRuns, ExecPCs
<1>34. ASSUME NEW x \in Procs, Execute(x) PROVE CancelIsJustified'
  BY <1>12, <1>13, <1>14, <1>15, <1>16, <1>17, <1>18, <1>19, <1>20, <1>21, <1>34 DEF Execute
<1>35. ASSUME NEW j \in Jobs, SubmitStep(j) PROVE CancelIsJustified'
  BY <1>2, <1>3, <1>4, <1>5, <1>34, <1>35 DEF SubmitStep
<1>36. CASE WorkerStep
  BY <1>6, <1>7, <1>8, <1>9, <1>10, <1>11, <1>34, <1>36 DEF WorkerStep
<1>37. ASSUME NEW d \in Deletes, DeleteStep(d) PROVE CancelIsJustified'
  BY <1>23, <1>24, <1>25, <1>26, <1>37 DEF DeleteStep
<1>38. CASE UNCHANGED vars \/ \E j \in Jobs : Abandon(j) \/ Expire(j) \/ Replay(j)
  BY <1>33, <1>38 DEF vars, Abandon, Expire, Replay
<1>39. CASE Environment
  BY <1>27, <1>28, <1>29, <1>30, <1>31, <1>32, <1>38, <1>39 DEF Environment
<1> QED
  BY <1>1, <1>22, <1>35, <1>36, <1>37, <1>38, <1>39 DEF Next

\* All of it together.
LEMMA IInvStep == IInv /\ [Next]_vars => IInv'
  BY TypeStep, WorkerHoldsJobStep, InlineOrQueuedStep, RecordsAreTakenStep,
     StartedOnceStep, PulledIsGoneStep, CancelIsJustifiedStep DEF IInv

\* Nothing is submitted, queued, started or cancelled at first.
LEMMA IInvInit == Init => IInv
<1> SUFFICES ASSUME Init PROVE IInv
  OBVIOUS
<1> USE ActorsAssumption DEF Init
<1>1. TypeOK
  BY BudgetAssumption DEF TypeOK, Statuses, Records, PCs, DelPCs, Procs
<1>2. DeletesHaveJobs /\ WorkerHoldsJob
  BY DEF DeletesHaveJobs, WorkerHoldsJob, Procs
<1>3. InlineOrQueued /\ RecordsAreTaken
  BY DEF InlineOrQueued, RecordsAreTaken, ExecPCs, Procs
<1>4. StartedOnce /\ PulledIsGone
  BY DEF StartedOnce, PulledIsGone, Procs
<1>5. CancelIsJustified
  BY DEF CancelIsJustified
<1> QED BY <1>1, <1>2, <1>3, <1>4, <1>5 DEF IInv

LEMMA Invariance == Spec => []IInv
  BY IInvInit, IInvStep, PTL DEF Spec

-----------------------------------------------------------------------------
(* What follows from it. *)

\* Every column, program counter and RQ record keeps to its range.
THEOREM TypeCorrect == Spec => []TypeOK
<1>1. IInv => TypeOK
  BY DEF IInv
<1> QED BY Invariance, <1>1, PTL

\* However the worker, the requests, the DELETEs and the faults interleave, and however
\* often RQ replays a record, a job is started at most once.
THEOREM NoSecondStart == Spec => []AtMostOneStart
<1>1. IInv => AtMostOneStart
  BY DEF IInv, StartedOnce, AtMostOneStart
<1> QED BY Invariance, <1>1, PTL

\* A job whose record a DELETE took from the queue is not started any more: only the
\* worker could start it, and it holds no job whose record was taken.
THEOREM PulledStaysDown == Spec => PulledNeverStarts
<1> DEFINE Kept == \A j \in pulled : starts'[j] = starts[j]
<1>1. ASSUME IInv, [Next]_vars PROVE Kept
  <2> USE <1>1 DEF IInv, TypeOK, PulledIsGone
  <2>1. ASSUME NEW x \in Procs, Begin(x) PROVE Kept
    BY <2>1 DEF Begin, CanRun, JobOf, InlineOrQueued, At, ExecPCs, Procs
  <2>2. ASSUME starts' = starts PROVE Kept
    BY <2>2
  <2>3. CASE UNCHANGED vars
    BY <2>2, <2>3 DEF vars, histVars
  <2>4. ASSUME NEW j \in Jobs, Submit(j) \/ Enqueue(j) \/ EnqueueFails(j)
                   \/ MarkEnqueueFailed(j) \/ MarkUnresolved(j) \/ Dequeue(j)
                   \/ Abandon(j) \/ Expire(j) \/ Replay(j)
        PROVE  starts' = starts
    BY <2>4 DEF Submit, Enqueue, EnqueueFails, MarkEnqueueFailed, MarkUnresolved,
       Dequeue, Abandon, Expire, Replay, histVars
  <2>5. ASSUME ReadRow \/ Route \/ NetRead \/ NetWrite \/ RQEnds
                   \/ WorkerCrash \/ ApiCrash \/ Timeout
        PROVE  starts' = starts
    BY <2>5 DEF ReadRow, Route, NetRead, NetWrite, RQEnds, WorkerCrash, ApiCrash,
       Timeout, Strike, histVars
  <2>6. ASSUME NEW x \in Procs, BeginRaises(x) \/ CallReturns(x) \/ CallFails(x)
                   \/ CallRaises(x) \/ ReadUsage(x) \/ Commit(x) \/ CommitConflicts(x)
                   \/ After(x) \/ FanOut(x) \/ Exception(x) \/ HandlerDbError(x)
        PROVE  starts' = starts
    BY <2>6 DEF BeginRaises, CallReturns, CallFails, CallRaises, ReadUsage, Commit,
       CommitConflicts, After, FanOut, Exception, HandlerDbError, Strike, histVars
  <2>7. ASSUME NEW d \in Deletes, DeleteCheck(d) \/ DeletePull(d) \/ DeleteRedisError(d)
                   \/ DeleteWrite(d) \/ DeleteDbError(d) \/ \E j \in Jobs : DeleteRead(d, j)
        PROVE  starts' = starts
    BY <2>7 DEF DeleteCheck, DeletePull, DeleteRedisError, DeleteWrite, DeleteDbError, Strike,
       DeleteRead, histVars
  <2> QED BY <1>1, <2>1, <2>2, <2>3, <2>4, <2>5, <2>6, <2>7 DEF Next, SubmitStep,
         WorkerStep, DeleteStep, Environment, Execute, Procs
<1> QED BY Invariance, <1>1, PTL DEF Spec, PulledNeverStarts

\* Only a DELETE that read the row while it was PENDING can flip the job the worker is
\* at: one that read it RUNNING is refused while the record is started, or rides on the
\* record's removal by the former.
THEOREM LiveCancelIsARace == Spec => LiveCancelReadPending
<1> DEFINE Justified == \A j \in Jobs :
              (status[j] = "running" /\ WorkerRuns(j) /\ status'[j] = "cancelled")
                  => \E d \in Deletes : djob[d] = j /\ dread[d] = "pending"
<1>1. ASSUME IInv, [Next]_vars PROVE Justified
  <2> USE <1>1, ActorsAssumption DEF IInv, TypeOK
  <2>1. ASSUME NEW d \in Deletes, DeleteWrite(d) PROVE Justified
    BY <2>1 DEF DeleteWrite, SetStatus, CancelIsJustified, DeletesHaveJobs, WorkerRuns
  <2>2. ASSUME \A j \in Jobs : status'[j] = "cancelled" => status[j] = "cancelled"
        PROVE  Justified
    BY <2>2
  <2>3. ASSUME status' = status PROVE Justified
    BY <2>2, <2>3
  <2>4. ASSUME NEW j \in Jobs, Submit(j) \/ MarkEnqueueFailed(j) \/ MarkUnresolved(j)
        PROVE  Justified
    BY <2>2, <2>4 DEF Submit, MarkEnqueueFailed, MarkUnresolved, SetStatus
  <2>5. ASSUME NEW x \in Procs, Begin(x) \/ Commit(x) PROVE Justified
    BY <2>2, <2>5 DEF Begin, Commit, SetStatus
  <2>6. ASSUME Route \/ NetWrite PROVE Justified
    BY <2>2, <2>6 DEF Route, NetWrite, SetStatus
  <2>7. CASE UNCHANGED vars
    BY <2>3, <2>7 DEF vars
  <2>8. ASSUME NEW j \in Jobs, Enqueue(j) \/ EnqueueFails(j) \/ Dequeue(j)
                   \/ Abandon(j) \/ Expire(j) \/ Replay(j)
        PROVE  status' = status
    BY <2>8 DEF Enqueue, EnqueueFails, Dequeue, Abandon, Expire, Replay
  <2>9. ASSUME ReadRow \/ NetRead \/ RQEnds \/ WorkerCrash \/ ApiCrash \/ Timeout
        PROVE  status' = status
    BY <2>9 DEF ReadRow, NetRead, RQEnds, WorkerCrash, ApiCrash, Timeout, Strike
  <2>10. ASSUME NEW x \in Procs, BeginRaises(x) \/ CallReturns(x) \/ CallFails(x)
                    \/ CallRaises(x) \/ ReadUsage(x) \/ CommitConflicts(x)
                    \/ After(x) \/ FanOut(x) \/ Exception(x) \/ HandlerDbError(x)
         PROVE  status' = status
    BY <2>10 DEF BeginRaises, CallReturns, CallFails, CallRaises, ReadUsage,
       CommitConflicts, After, FanOut, Exception, HandlerDbError, Strike
  <2>11. ASSUME NEW d \in Deletes, DeleteCheck(d) \/ DeletePull(d) \/ DeleteRedisError(d)
                    \/ DeleteDbError(d) \/ \E j \in Jobs : DeleteRead(d, j)
         PROVE  status' = status
    BY <2>11 DEF DeleteCheck, DeletePull, DeleteRedisError, DeleteDbError, Strike, DeleteRead
  <2> HIDE DEF Justified
  <2> QED BY <1>1, <2>1, <2>3, <2>4, <2>5, <2>6, <2>7, <2>8, <2>9, <2>10, <2>11
         DEF Next, SubmitStep, WorkerStep, DeleteStep, Environment, Execute, Procs
<1> QED BY Invariance, <1>1, PTL DEF Spec, LiveCancelReadPending

-----------------------------------------------------------------------------
(* What the invariant lacks for the promises to the clients: whoever is about to write a  *)
(* result or a failure finds a row without a result.                                      *)

\* x is between its RUNNING commit and its result.
Computing(x) == pc[x] \in {"call", "usage", "commit"}

FirstResult ==
    /\ \A j \in Jobs :
          /\ status[j] = "absent" => pc[j] = "new"
          /\ j \in stored => starts[j] = 1
          /\ status[j] = "complete" => j \in stored
          /\ Computing(j) => j \notin stored /\ starts[j] = 1
          /\ pc[j] = "unresolved" => starts[j] = 0
    /\ Computing(Worker) /\ cur \in Jobs => cur \notin stored /\ starts[cur] = 1
    /\ pc[Worker] = "netWrite" /\ cur \in Jobs => status[cur] # "complete"

LEMMA FirstResultStep ==
  ASSUME IInv, FirstResult, [Next]_vars
  PROVE  FirstResult'
<1> USE ActorsAssumption DEF IInv, TypeOK, WorkerHoldsJob, InlineOrQueued, RecordsAreTaken,
   StartedOnce, FirstResult, Computing, ExecPCs, Procs
<1>1. ASSUME NEW j \in Jobs, Submit(j) PROVE FirstResult'
  BY <1>1 DEF Submit, At, SetStatus, GoTo, delVars, execVars, histVars
<1>2. ASSUME NEW j \in Jobs, Enqueue(j) PROVE FirstResult'
  BY <1>2 DEF Enqueue, At, GoTo, delVars, execVars, histVars
<1>3. ASSUME NEW j \in Jobs, EnqueueFails(j) PROVE FirstResult'
  BY <1>3 DEF EnqueueFails, At, Suffer, GoTo, AfterEnqueueError, delVars, execVars,
     histVars
<1>4. ASSUME NEW j \in Jobs, MarkEnqueueFailed(j) PROVE FirstResult'
  BY <1>4 DEF MarkEnqueueFailed, At, SetStatus, GoTo, delVars, execVars, histVars
<1>5. ASSUME NEW j \in Jobs, MarkUnresolved(j) PROVE FirstResult'
  BY <1>5 DEF MarkUnresolved, At, SetStatus, GoTo, delVars, execVars, histVars
<1>6. ASSUME NEW j \in Jobs, Dequeue(j) PROVE FirstResult'
  BY <1>6 DEF Dequeue, At, GoTo, delVars, execVars, histVars
<1>7. ASSUME ReadRow PROVE FirstResult'
  BY <1>7 DEF ReadRow, At, GoTo, DispatchTo, delVars, execVars, histVars
<1>8. ASSUME Route PROVE FirstResult'
  BY <1>8 DEF Route, At, GoTo, SetStatus, delVars, execVars, histVars
<1>9. ASSUME NetRead PROVE FirstResult'
  BY <1>9 DEF NetRead, At, GoTo, delVars, execVars, histVars
<1>10. ASSUME NetWrite PROVE FirstResult'
  BY <1>10 DEF NetWrite, At, SetStatus, GoTo, delVars, execVars, histVars
<1>11. ASSUME RQEnds PROVE FirstResult'
  BY <1>11 DEF RQEnds, At, GoTo, delVars, execVars, histVars
<1>12. ASSUME NEW x \in Procs, Begin(x) PROVE FirstResult'
  BY <1>12 DEF Begin, CanRun, At, SetStatus, JobOf, GoTo, delVars, execVars
<1>13. ASSUME NEW x \in Procs, BeginRaises(x) PROVE FirstResult'
  BY <1>13 DEF BeginRaises, CanRun, At, JobOf, Escape, GoTo, delVars, execVars, histVars
<1>14. ASSUME NEW x \in Procs, CallReturns(x) PROVE FirstResult'
  BY <1>14 DEF CallReturns, CanRun, At, GoTo, JobOf, delVars, histVars
<1>15. ASSUME NEW x \in Procs, CallFails(x) PROVE FirstResult'
  BY <1>15 DEF CallFails, CanRun, At, GoTo, delVars, histVars
<1>16. ASSUME NEW x \in Procs, CallRaises(x) PROVE FirstResult'
  BY <1>16 DEF CallRaises, CanRun, At, JobOf, Escape, GoTo, delVars, execVars, histVars
<1>17. ASSUME NEW x \in Procs, ReadUsage(x) PROVE FirstResult'
  BY <1>17 DEF ReadUsage, CanRun, At, JobOf, GoTo, delVars, histVars
<1>18. ASSUME NEW x \in Procs, Commit(x) PROVE FirstResult'
  BY <1>18 DEF Commit, CanRun, At, HasResult, JobOf, SetStatus, GoTo, delVars, histVars
<1>19. ASSUME NEW x \in Procs, CommitConflicts(x) PROVE FirstResult'
  BY <1>19 DEF CommitConflicts, CanRun, At, Escape, GoTo, delVars, execVars, histVars
<1>20. ASSUME NEW x \in Procs, After(x) PROVE FirstResult'
  BY <1>20 DEF After, CanRun, At, JobOf, GoTo, Returned, delVars, execVars, histVars
<1>21. ASSUME NEW x \in Procs, FanOut(x) PROVE FirstResult'
  BY <1>21 DEF FanOut, CanRun, At, JobOf, Returned, GoTo, Suffer, Escape, delVars,
     execVars
<1>22. ASSUME NEW d \in Deletes, DeleteWrite(d) PROVE FirstResult'
  BY <1>22 DEF DeleteWrite, SetStatus, DelGoTo, execVars, histVars
<1>23. ASSUME WorkerCrash PROVE FirstResult'
  BY <1>23 DEF WorkerCrash, Strike, At, Suffer, GoTo, delVars, execVars, histVars
<1>24. ASSUME ApiCrash PROVE FirstResult'
  BY <1>24 DEF ApiCrash, Strike, Suffer, Active, SubmitPCs, Deleting, execVars, histVars
<1>25. ASSUME Timeout PROVE FirstResult'
  BY <1>25 DEF Timeout, Strike, Suffer, GoTo, delVars, execVars, histVars
<1>26. ASSUME NEW x \in Procs, Exception(x) PROVE FirstResult'
  BY <1>26 DEF Exception, CanRun, Suffer, Escape, GoTo, delVars, execVars, histVars
<1>27. ASSUME NEW x \in Procs, HandlerDbError(x) PROVE FirstResult'
  BY <1>27 DEF HandlerDbError, Strike, Suffer, GoTo, delVars, execVars, histVars
<1>28. ASSUME NEW d \in Deletes, NEW j \in Jobs, DeleteRead(d, j) PROVE FirstResult'
  BY <1>28 DEF DeleteRead, histVars
<1>29. ASSUME NEW d \in Deletes, DeleteCheck(d) \/ DeletePull(d) \/ DeleteRedisError(d)
   \/ DeleteDbError(d) PROVE FirstResult'
  BY <1>29 DEF DeleteCheck, DeletePull, DeleteRedisError, DeleteDbError, Strike, histVars
<1>30. ASSUME NEW j \in Jobs, Abandon(j) \/ Expire(j) \/ Replay(j) PROVE FirstResult'
  BY <1>30 DEF Abandon, Expire, Replay, histVars
<1>31. CASE UNCHANGED vars
  BY <1>31 DEF vars, delVars, histVars
<1>32. QED BY <1>1, <1>2, <1>3, <1>4, <1>5, <1>6, <1>7, <1>8, <1>9, <1>10, <1>11, <1>12,
   <1>13, <1>14, <1>15, <1>16, <1>17, <1>18, <1>19, <1>20, <1>21, <1>22, <1>23, <1>24,
   <1>25, <1>26, <1>27, <1>28, <1>29, <1>30, <1>31 DEF Next, SubmitStep, WorkerStep,
   DeleteStep, Environment, Execute, Procs

\* The jobs whose result is billed.
Metering(S) == S \ {j \in Jobs : req[j].kind = "tts"}

\* Nobody has counted, or is about to count, more than there are results.
Counted ==
    /\ usage <= Cardinality(Metering(stored))
    /\ \A x \in Procs : seen[x] <= Cardinality(Metering(stored))

\* A first result of a metered job is one more to be billed, that of a speech job is not.
LEMMA OneMore ==
  ASSUME TypeOK, NEW j \in Jobs, j \notin stored
  PROVE  /\ Cardinality(Metering(stored)) \in Nat
         /\ req[j].kind # "tts" =>
               Cardinality(Metering(stored \cup {j})) = Cardinality(Metering(stored)) + 1
         /\ req[j].kind = "tts" => Metering(stored \cup {j}) = Metering(stored)
<1>1. IsFiniteSet(Metering(stored))
  BY JobsAssumption, FS_Subset DEF TypeOK, Metering
<1>2. Cardinality(Metering(stored)) \in Nat
  BY <1>1, FS_CardinalityType
<1>3. ASSUME req[j].kind # "tts"
      PROVE  Cardinality(Metering(stored \cup {j})) = Cardinality(Metering(stored)) + 1
  <2>1. Metering(stored \cup {j}) = Metering(stored) \cup {j} /\ j \notin Metering(stored)
    BY <1>3 DEF Metering
  <2> QED BY <1>1, <2>1, FS_AddElement
<1>4. ASSUME req[j].kind = "tts" PROVE Metering(stored \cup {j}) = Metering(stored)
  BY <1>4 DEF Metering
<1> QED BY <1>2, <1>3, <1>4

\* What a commit does to the row, the results and the usage.
LEMMA CommitDelivers ==
  ASSUME IInv, FirstResult, Counted, NEW x \in Procs, Commit(x)
  PROVE  LET j == JobOf(x) IN
         /\ j \in Jobs
         /\ j \notin stored
         /\ starts[j] = 1
         /\ req' = req
         /\ \/ /\ status' = [status EXCEPT ![j] = "failed"]
               /\ stored' = stored
               /\ usage' = usage
            \/ /\ \E s \in {"complete", "failed"} : status' = [status EXCEPT ![j] = s]
               /\ stored' = stored \cup {j}
               /\ IF req[j].kind = "tts" THEN usage' = usage
                  ELSE usage' \in 1 .. Cardinality(Metering(stored'))
<1> DEFINE j == JobOf(x)
<1>1. j \in Jobs /\ j \notin stored /\ starts[j] = 1
  BY ActorsAssumption DEF Commit, CanRun, At, JobOf, IInv, TypeOK, FirstResult, Computing,
     Procs
<1>2. req' = req
  BY DEF Commit
<1>3. seen[x] \in Nat /\ seen[x] <= Cardinality(Metering(stored))
  BY DEF IInv, TypeOK, Counted
<1>4. Metering(stored)' = Metering(stored')
  BY <1>2 DEF Metering
<1>5. CASE HasResult(x)
  <2>1. stored' = stored \cup {j}
    BY <1>5 DEF Commit
  <2>2. \E s \in {"complete", "failed"} : status' = [status EXCEPT ![j] = s]
    BY DEF Commit, SetStatus
  <2>3. CASE req[j].kind = "tts"
    BY <1>1, <1>2, <2>1, <2>2, <2>3 DEF Commit, Metered
  <2>4. CASE req[j].kind # "tts"
    <3>1. usage' = seen[x] + 1
      BY <1>5, <2>4 DEF Commit, Metered
    <3>2. /\ Cardinality(Metering(stored \cup {j})) = Cardinality(Metering(stored)) + 1
          /\ Cardinality(Metering(stored)) \in Nat
      BY <1>1, <2>4, OneMore DEF IInv
    <3>3. Metering(stored') = Metering(stored \cup {j})
      BY <2>1
    <3>4. usage' \in 1 .. Cardinality(Metering(stored \cup {j}))
      BY <1>3, <3>1, <3>2
    <3> QED BY <1>1, <1>2, <2>1, <2>2, <2>4, <3>4
  <2> QED BY <2>3, <2>4
<1>6. CASE ~HasResult(x)
  BY <1>1, <1>2, <1>6 DEF Commit, HasResult, Metered, SetStatus
<1> QED BY <1>5, <1>6

LEMMA CountedStep ==
  ASSUME IInv, FirstResult, Counted, [Next]_vars
  PROVE  Counted'
<1>1. ASSUME UNCHANGED <<req, stored, usage, seen>> PROVE Counted'
  BY <1>1 DEF Counted, Metering
<1>2. ASSUME NEW x \in Procs, ReadUsage(x) PROVE Counted'
  BY <1>2 DEF ReadUsage, Counted, Metering, IInv, TypeOK
<1>3. ASSUME NEW x \in Procs, Commit(x) PROVE Counted'
  <2> DEFINE j == JobOf(x)
  <2>1. /\ j \in Jobs /\ j \notin stored /\ req' = req
        /\ \/ stored' = stored /\ usage' = usage
           \/ /\ stored' = stored \cup {j}
              /\ IF req[j].kind = "tts" THEN usage' = usage
                 ELSE usage' \in 1 .. Cardinality(Metering(stored'))
    BY <1>3, CommitDelivers
  <2>2. seen' = [seen EXCEPT ![x] = 0]
    BY <1>3 DEF Commit
  <2>3. /\ Cardinality(Metering(stored)) \in Nat
        /\ req[j].kind # "tts" =>
              Cardinality(Metering(stored \cup {j})) = Cardinality(Metering(stored)) + 1
        /\ req[j].kind = "tts" => Metering(stored \cup {j}) = Metering(stored)
    BY <2>1, OneMore DEF IInv
  <2>4. Metering(stored)' = Metering(stored')
    BY <2>1 DEF Metering
  <2>5. seen \in [Procs -> Nat] /\ usage \in Nat
    BY DEF IInv, TypeOK
  <2> HIDE DEF j
  <2>6. CASE stored' = stored /\ usage' = usage
    BY <2>2, <2>3, <2>4, <2>5, <2>6 DEF Counted
  <2>7. CASE stored' = stored \cup {j} /\ req[j].kind = "tts" /\ usage' = usage
    <3>1. Cardinality(Metering(stored)') = Cardinality(Metering(stored))
      BY <2>3, <2>4, <2>7
    <3> QED BY <2>2, <2>3, <2>5, <2>7, <3>1 DEF Counted
  <2>8. CASE /\ stored' = stored \cup {j} /\ req[j].kind # "tts"
             /\ usage' \in 1 .. Cardinality(Metering(stored'))
    <3>1. Cardinality(Metering(stored)') = Cardinality(Metering(stored)) + 1
      BY <2>3, <2>4, <2>8
    <3>2. usage' \in 1 .. Cardinality(Metering(stored)')
      BY <2>4, <2>8
    <3> QED BY <2>2, <2>3, <2>5, <3>1, <3>2 DEF Counted
  <2> QED BY <2>1, <2>6, <2>7, <2>8
<1>4. CASE UNCHANGED vars
  BY <1>1, <1>4 DEF vars
<1>5. ASSUME NEW j \in Jobs, Submit(j) \/ Enqueue(j) \/ EnqueueFails(j)
                 \/ MarkEnqueueFailed(j) \/ MarkUnresolved(j) \/ Dequeue(j)
                 \/ Abandon(j) \/ Expire(j) \/ Replay(j)
      PROVE  UNCHANGED <<req, stored, usage, seen>>
  BY <1>5 DEF Submit, Enqueue, EnqueueFails, MarkEnqueueFailed, MarkUnresolved, Dequeue,
     Abandon, Expire, Replay, execVars
<1>6. ASSUME ReadRow \/ Route \/ NetRead \/ NetWrite \/ RQEnds
                 \/ WorkerCrash \/ ApiCrash \/ Timeout
      PROVE  UNCHANGED <<req, stored, usage, seen>>
  BY <1>6 DEF ReadRow, Route, NetRead, NetWrite, RQEnds, WorkerCrash, ApiCrash, Timeout,
     Strike, execVars
<1>7. ASSUME NEW x \in Procs, Begin(x) \/ BeginRaises(x) \/ CallReturns(x)
                 \/ CallFails(x) \/ CallRaises(x) \/ CommitConflicts(x) \/ After(x)
                 \/ FanOut(x) \/ Exception(x) \/ HandlerDbError(x)
      PROVE  UNCHANGED <<req, stored, usage, seen>>
  BY <1>7 DEF Begin, BeginRaises, CallReturns, CallFails, CallRaises, CommitConflicts,
     After, FanOut, Exception, HandlerDbError, Strike, execVars
<1>8. ASSUME NEW d \in Deletes, DeleteCheck(d) \/ DeletePull(d) \/ DeleteRedisError(d)
                 \/ DeleteWrite(d) \/ DeleteDbError(d) \/ \E j \in Jobs : DeleteRead(d, j)
      PROVE  UNCHANGED <<req, stored, usage, seen>>
  BY <1>8 DEF DeleteCheck, DeletePull, DeleteRedisError, DeleteWrite, DeleteDbError, Strike,
     DeleteRead, execVars
<1> QED BY <1>1, <1>2, <1>3, <1>4, <1>5, <1>6, <1>7, <1>8 DEF Next, SubmitStep,
       WorkerStep, DeleteStep, Environment, Execute, Procs

LEMMA BoardInvariance == Spec => [](IInv /\ FirstResult /\ Counted)
<1>1. Init => FirstResult
  BY ActorsAssumption DEF Init, FirstResult, Computing, Procs
<1>2. Init => Counted
  <2> SUFFICES ASSUME Init PROVE Counted
    OBVIOUS
  <2>1. Metering(stored) = {}
    BY DEF Init, Metering
  <2>2. Cardinality(Metering(stored)) = 0
    BY <2>1, FS_EmptySet
  <2> QED BY <2>2 DEF Init, Counted, Procs
<1> QED BY IInvInit, IInvStep, <1>1, <1>2, FirstResultStep, CountedStep, PTL DEF Spec

-----------------------------------------------------------------------------
(* The refinement, one step for each action. *)

\* What JobBoard calls open.
Open == {j \in Jobs : pc[j] \in {"enqueue", "unqueued"}}

\* Nothing that a client sees changes, but for handlers that end.
Quiet == UNCHANGED <<req, status, stored, usage, starts>> /\ Open' \subseteq Open

\* JobBoard counts as JobLifecycle does.
LEMMA BilledIsCounted == ASSUME NEW S PROVE Board!Billed(S) = Cardinality(Metering(S))
<1>1. ASSUME NEW T PROVE Board!Cardinality(T) = Cardinality(T)
  BY DEF Board!Cardinality, Cardinality
<1> QED BY <1>1 DEF Board!Billed, Metering

LEMMA QuietIsAnswer == Quiet => Board!Answer
  BY DEF Quiet, Open, Board!Answer

LEMMA BoardStep ==
  ASSUME IInv, FirstResult, Counted, [Next]_vars
  PROVE  [Board!Next]_(Board!vars)
<1> DEFINE BNext == [Board!Next]_(Board!vars)
           Tried == {j \in Jobs : starts[j] > 0}
           Free  == {j \in Jobs : req[j].kind = "tts"}
<1> USE ActorsAssumption DEF IInv, TypeOK, Procs
<1>1. ASSUME Quiet PROVE BNext
  BY <1>1, QuietIsAnswer DEF Board!Next
<1>2. ASSUME NEW j \in Jobs, Submit(j) PROVE BNext
  <2>1. status[j] = "absent" /\ status' = [status EXCEPT ![j] = "pending"]
    BY <1>2 DEF Submit, SetStatus, At, StartedOnce
  <2>2. Open' = Open \/ Open' = Open \cup {j}
    BY <1>2 DEF Submit, GoTo, At, Open
  <2>3. UNCHANGED <<Free, Tried, stored, usage>>
    BY <1>2 DEF Submit, histVars
  <2>4. Board!Accept(j)
    BY <2>1, <2>2, <2>3 DEF Board!Accept, Open
  <2> QED BY <2>4 DEF Board!Next
<1>3. ASSUME NEW j \in Jobs, MarkEnqueueFailed(j) PROVE BNext
  <2>1. j \in Open /\ Open' = Open \ {j}
    BY <1>3 DEF MarkEnqueueFailed, At, GoTo, Open
  <2>2. UNCHANGED <<Free, Tried, stored, usage>>
    BY <1>3 DEF MarkEnqueueFailed, histVars
  <2>3. Board!Refuse(j)
    BY <1>3, <2>1, <2>2 DEF Board!Refuse, Open, MarkEnqueueFailed, SetStatus
  <2> QED BY <2>3 DEF Board!Next
<1>4. ASSUME NEW x \in Procs, Begin(x) PROVE BNext
  <2>1. PICK j \in Jobs : j = JobOf(x)
    BY <1>4 DEF Begin, CanRun, At, JobOf
  <2>2. starts[j] = 0 /\ starts' = [starts EXCEPT ![j] = @ + 1]
    BY <1>4, <2>1 DEF Begin, CanRun, At, JobOf, StartedOnce
  <2>3. j \notin Tried /\ Tried' = Tried \cup {j}
    BY <2>2
  <2>4. status[j] \in {"pending", "cancelled", "failed"}
    <3>1. status[j] \in Statuses /\ status[j] # "complete" /\ status[j] # "running"
      BY <2>2 DEF FirstResult, StartedOnce
    <3>2. status[j] # "absent"
      BY <1>4, <2>1 DEF Begin, CanRun, At, JobOf, FirstResult, RecordsAreTaken
    <3> QED BY <3>1, <3>2 DEF Statuses
  <2>5. UNCHANGED <<Free, stored, usage>>
    BY <1>4 DEF Begin
  <2>6. Open' = Open
    BY <1>4 DEF Begin, GoTo, At, Open
  <2>7. status' = [status EXCEPT ![j] = "running"]
    BY <1>4, <2>1 DEF Begin, SetStatus
  <2>8. Board!Start(j)
    BY <2>3, <2>4, <2>5, <2>6, <2>7 DEF Board!Start, Open
  <2> QED BY <2>8 DEF Board!Next
<1>5. ASSUME NEW x \in Procs, Commit(x) PROVE BNext
  <2> DEFINE j == JobOf(x)
  <2>1. /\ j \in Jobs /\ j \notin stored /\ starts[j] = 1 /\ req' = req
        /\ \/ /\ status' = [status EXCEPT ![j] = "failed"]
              /\ stored' = stored
              /\ usage' = usage
           \/ /\ \E s \in {"complete", "failed"} : status' = [status EXCEPT ![j] = s]
              /\ stored' = stored \cup {j}
              /\ IF req[j].kind = "tts" THEN usage' = usage
                 ELSE usage' \in 1 .. Cardinality(Metering(stored'))
    BY <1>5, CommitDelivers
  <2>2. UNCHANGED <<Free, Tried>>
    BY <1>5 DEF Commit, histVars
  <2>3. Open' = Open
    BY <1>5 DEF Commit, GoTo, At, Open
  <2>4. j \in Tried
    BY <2>1
  <2>5. status[j] \notin {"absent", "complete"}
    BY <2>1 DEF FirstResult, StartedOnce
  <2> HIDE DEF j
  <2>6. CASE status' = [status EXCEPT ![j] = "failed"] /\ stored' = stored /\ usage' = usage
    <3>1. Board!GiveUp(j)
      BY <2>2, <2>3, <2>5, <2>6 DEF Board!GiveUp, Open
    <3> QED BY <2>1, <3>1 DEF Board!Next
  <2>7. CASE /\ \E s \in {"complete", "failed"} : status' = [status EXCEPT ![j] = s]
             /\ stored' = stored \cup {j}
             /\ IF req[j].kind = "tts" THEN usage' = usage
                ELSE usage' \in 1 .. Cardinality(Metering(stored'))
    <3>1. IF j \in Free THEN usage' = usage ELSE usage' \in 1 .. Board!Billed(stored')
      BY <2>1, <2>7, BilledIsCounted
    <3>2. Board!Deliver(j)
      BY <2>1, <2>2, <2>3, <2>4, <2>7, <3>1 DEF Board!Deliver, Open
    <3> QED BY <2>1, <3>2 DEF Board!Next
  <2> QED BY <2>1, <2>6, <2>7
<1>6. ASSUME NEW j \in Jobs, status[j] \notin {"absent", "complete"},
             status' = [status EXCEPT ![j] = "failed"],
             UNCHANGED <<req, stored, usage, starts>>, Open' = Open
      PROVE  BNext
  <2>1. Board!GiveUp(j)
    BY <1>6 DEF Board!GiveUp, Open
  <2> QED BY <2>1 DEF Board!Next
<1>7. ASSUME Route PROVE BNext
  <2>1. UNCHANGED <<req, stored, usage, starts>> /\ Open' = Open
    BY <1>7 DEF Route, GoTo, histVars, Open
  <2>2. CASE status' = status
    BY <1>1, <2>1, <2>2 DEF Quiet
  <2>3. CASE status' = [status EXCEPT ![cur] = "failed"]
    <3>1. cur \in Jobs /\ status[cur] \notin {"absent", "complete"}
      BY <1>7 DEF Route, At, WorkerHoldsJob, StartedOnce, FirstResult, RecordsAreTaken
    <3> QED BY <1>6, <2>1, <2>3, <3>1
  <2> QED BY <1>7, <2>2, <2>3 DEF Route, SetStatus
<1>8. ASSUME NetWrite PROVE BNext
  <2>1. /\ UNCHANGED <<req, stored, usage, starts>> /\ Open' = Open
        /\ status' = [status EXCEPT ![cur] = "failed"]
    BY <1>8 DEF NetWrite, GoTo, SetStatus, histVars, Open
  <2>2. cur \in Jobs /\ status[cur] \notin {"absent", "complete"}
    BY <1>8 DEF NetWrite, At, WorkerHoldsJob, FirstResult, RecordsAreTaken
  <2> QED BY <1>6, <2>1, <2>2
<1>9. ASSUME NEW j \in Jobs, MarkUnresolved(j) PROVE BNext
  <2>1. /\ UNCHANGED <<req, stored, usage, starts>> /\ Open' = Open
        /\ status' = [status EXCEPT ![j] = "failed"]
    BY <1>9 DEF MarkUnresolved, GoTo, SetStatus, At, histVars, Open
  <2>2. status[j] \notin {"absent", "complete"}
    BY <1>9 DEF MarkUnresolved, At, FirstResult
  <2> QED BY <1>6, <2>1, <2>2
<1>10. ASSUME NEW d \in Deletes, DeleteWrite(d) PROVE BNext
  <2>1. djob[d] \in Jobs /\ status[djob[d]] # "absent"
    BY <1>10 DEF DeleteWrite, DeletesHaveJobs
  <2>2. Board!Cancel(djob[d])
    BY <1>10, <2>1 DEF DeleteWrite, SetStatus, Board!Cancel, execVars, histVars
  <2> QED BY <2>1, <2>2 DEF Board!Next
<1>11. CASE UNCHANGED vars
  BY <1>1, <1>11 DEF vars, histVars, Quiet, Open
<1>12. ASSUME NEW j \in Jobs, Enqueue(j) \/ EnqueueFails(j) PROVE Quiet
  BY <1>12 DEF Enqueue, EnqueueFails, AfterEnqueueError, GoTo, At, histVars, Quiet, Open
<1>13. ASSUME NEW j \in Jobs, Dequeue(j) \/ Abandon(j) \/ Expire(j) \/ Replay(j)
       PROVE  Quiet
  BY <1>13 DEF Dequeue, Abandon, Expire, Replay, GoTo, histVars, Quiet, Open
<1>14. ASSUME ReadRow \/ NetRead \/ RQEnds \/ WorkerCrash \/ ApiCrash \/ Timeout
       PROVE  Quiet
  BY <1>14 DEF ReadRow, NetRead, RQEnds, WorkerCrash, ApiCrash, Timeout, Strike,
     DispatchTo, GoTo, histVars, Quiet, Open
<1>15. ASSUME NEW x \in Procs, BeginRaises(x) \/ CallReturns(x) \/ CallFails(x)
                  \/ CallRaises(x) \/ ReadUsage(x) \/ CommitConflicts(x)
       PROVE  Quiet
  BY <1>15 DEF BeginRaises, CallReturns, CallFails, CallRaises, ReadUsage,
     CommitConflicts, Escape, GoTo, histVars, Quiet, Open
<1>16. ASSUME NEW x \in Procs, After(x) \/ FanOut(x) \/ Exception(x) \/ HandlerDbError(x)
       PROVE  Quiet
  BY <1>16 DEF After, FanOut, Exception, HandlerDbError, Strike, Returned, Escape, GoTo,
     histVars, Quiet, Open
<1>17. ASSUME NEW d \in Deletes, DeleteCheck(d) \/ DeletePull(d) \/ DeleteRedisError(d)
                  \/ DeleteDbError(d) \/ \E j \in Jobs : DeleteRead(d, j)
       PROVE  Quiet
  BY <1>17 DEF DeleteCheck, DeletePull, DeleteRedisError, DeleteDbError, Strike, DeleteRead,
     histVars, Quiet, Open
<1> QED BY <1>1, <1>2, <1>3, <1>4, <1>5, <1>7, <1>8, <1>9, <1>10, <1>11, <1>12, <1>13,
       <1>14, <1>15, <1>16, <1>17 DEF Next, SubmitStep, WorkerStep, DeleteStep,
       Environment, Execute, Procs

\* Whatever the handlers, the worker, the DELETE requests and the faults do, in any order,
\* the clients see a behaviour of the board: one execution at most, a result that comes
\* with its status and its usage, no completed job that fails once it was answered.
THEOREM BoardIsImplemented == Spec => ImplementsBoard
<1>1. Init => Board!Init
  BY ActorsAssumption DEF Init, Board!Init, Procs
<1> QED BY BoardInvariance, BoardStep, <1>1, PTL DEF Spec, ImplementsBoard, Board!Spec

-----------------------------------------------------------------------------
(* The usage is exact as long as no two executors are between their count and its commit. *)

\* x is about to commit a result that is metered.
Billing(x) == At(x, "commit") /\ Metered(x)

OneBillsAtATime == \A x, y \in Procs : Billing(x) /\ Billing(y) => x = y

\* Whoever is about to commit such a result has read the present count.
CountIsFresh == \A x \in Procs : Billing(x) => seen[x] = usage

UsageInv == usage = Cardinality(Metering(stored)) /\ CountIsFresh

LEMMA UsageInvInit == Init => UsageInv
<1> SUFFICES ASSUME Init PROVE UsageInv
  OBVIOUS
<1>1. Metering(stored) = {}
  BY DEF Init, Metering
<1>2. Cardinality(Metering(stored)) = 0
  BY <1>1, FS_EmptySet
<1> QED BY <1>2 DEF Init, UsageInv, CountIsFresh, Billing, At, Procs

LEMMA UsageInvStep ==
  ASSUME IInv, FirstResult, OneBillsAtATime, UsageInv, [Next]_vars
  PROVE  UsageInv'
<1> DEFINE Frame == /\ UNCHANGED <<req, stored, usage, seen>>
                    /\ \A x \in Procs : Billing(x)' => Billing(x)
<1>1. ASSUME Frame PROVE UsageInv'
  BY <1>1 DEF UsageInv, Metering, CountIsFresh
<1> USE ActorsAssumption DEF IInv, TypeOK, Procs
<1>2. ASSUME NEW x \in Procs, ReadUsage(x) PROVE UsageInv'
  <2>1. \A y \in Procs : Billing(y)' => (Billing(y) /\ y # x) \/ y = x
    BY <1>2 DEF ReadUsage, GoTo, Billing, At, Metered, HasResult, JobOf
  <2>2. \A y \in Procs : Billing(y)' => seen'[y] = usage'
    BY <1>2, <2>1 DEF ReadUsage, UsageInv, CountIsFresh
  <2>3. Cardinality(Metering(stored)') = Cardinality(Metering(stored))
    BY <1>2 DEF ReadUsage, Metering
  <2> QED BY <1>2, <2>2, <2>3 DEF ReadUsage, UsageInv, CountIsFresh
<1>3. ASSUME NEW x \in Procs, Commit(x) PROVE UsageInv'
  <2> DEFINE j == JobOf(x)
  <2>1. j \in Jobs /\ j \notin stored /\ req' = req
    BY <1>3 DEF FirstResult, Commit, CanRun, At, JobOf, Computing
  <2>2. \A y \in Procs : Billing(y)' => Billing(y) /\ y # x
    BY <1>3 DEF Commit, GoTo, Billing, At, Metered, HasResult, JobOf
  <2>3. /\ Cardinality(Metering(stored)) \in Nat
        /\ req[j].kind # "tts" =>
              Cardinality(Metering(stored \cup {j})) = Cardinality(Metering(stored)) + 1
        /\ req[j].kind = "tts" => Metering(stored \cup {j}) = Metering(stored)
    BY <2>1, OneMore
  <2>4. Metering(stored)' = Metering(stored')
    BY <2>1 DEF Metering
  <2>5. CASE Metered(x)
    <3>1. Billing(x) /\ seen[x] = usage
      BY <1>3, <2>5 DEF Commit, Billing, UsageInv, CountIsFresh
    <3>2. \A y \in Procs : ~Billing(y)'
      BY <2>2, <3>1 DEF OneBillsAtATime
    <3>3. usage' = usage + 1 /\ stored' = stored \cup {j}
      BY <1>3, <2>5, <3>1 DEF Commit, Metered
    <3>4. req[j].kind # "tts"
      BY <2>5 DEF Metered
    <3>5. usage' = Cardinality(Metering(stored'))
      BY <2>3, <3>3, <3>4 DEF UsageInv
    <3> QED BY <2>4, <3>2, <3>5 DEF UsageInv, CountIsFresh
  <2>6. CASE ~Metered(x)
    <3>1. usage' = usage /\ Metering(stored') = Metering(stored)
      BY <1>3, <2>3, <2>6 DEF Commit, Metered
    <3>2. \A y \in Procs : Billing(y)' => seen'[y] = usage'
      BY <1>3, <2>2, <3>1 DEF Commit, UsageInv, CountIsFresh
    <3> QED BY <2>4, <3>1, <3>2 DEF UsageInv, CountIsFresh
  <2> QED BY <2>5, <2>6
<1>4. CASE UNCHANGED vars
  BY <1>1, <1>4 DEF vars, execVars, Billing, At, Metered, HasResult, JobOf
<1>5. ASSUME NEW j \in Jobs, Submit(j) \/ Enqueue(j) \/ EnqueueFails(j)
                 \/ MarkEnqueueFailed(j) \/ MarkUnresolved(j)
                 \/ Abandon(j) \/ Expire(j) \/ Replay(j)
      PROVE  Frame
  BY <1>5 DEF Submit, Enqueue, EnqueueFails, MarkEnqueueFailed, MarkUnresolved,
     AfterEnqueueError, Abandon, Expire, Replay, execVars, GoTo, Billing, At, Metered,
     HasResult, JobOf
<1>6. ASSUME NEW j \in Jobs, Dequeue(j) PROVE Frame
  BY <1>6 DEF Dequeue, execVars, GoTo, Billing, At, Metered, HasResult, JobOf
<1>7. ASSUME ReadRow \/ Route \/ NetRead \/ NetWrite \/ RQEnds PROVE Frame
  BY <1>7 DEF ReadRow, DispatchTo, Route, NetRead, NetWrite, RQEnds, execVars, GoTo,
     Billing, At, Metered, HasResult, JobOf
<1>8. ASSUME WorkerCrash \/ ApiCrash \/ Timeout PROVE Frame
  BY <1>8 DEF WorkerCrash, ApiCrash, Timeout, Strike, execVars, GoTo, Billing, At, Metered,
     HasResult, JobOf
<1>9. ASSUME NEW x \in Procs, CallReturns(x) \/ CallFails(x) PROVE Frame
  BY <1>9 DEF CallReturns, CallFails, GoTo, Billing, At, Metered, HasResult, JobOf
<1>10. ASSUME NEW x \in Procs, Begin(x) \/ BeginRaises(x) \/ CallRaises(x)
                  \/ CommitConflicts(x) \/ After(x) \/ FanOut(x)
       PROVE  Frame
  BY <1>10 DEF Begin, BeginRaises, CallRaises, CommitConflicts, After, FanOut, Returned,
     Escape, execVars, GoTo, Billing, At, Metered, HasResult, JobOf
<1>11. ASSUME NEW x \in Procs, Exception(x) \/ HandlerDbError(x) PROVE Frame
  BY <1>11 DEF Exception, HandlerDbError, Strike, Escape, execVars, GoTo, Billing, At, Metered,
     HasResult, JobOf
<1>12. ASSUME NEW d \in Deletes, DeleteCheck(d) \/ DeletePull(d) \/ DeleteRedisError(d)
                  \/ DeleteWrite(d) \/ DeleteDbError(d) \/ \E j \in Jobs : DeleteRead(d, j)
       PROVE  Frame
  BY <1>12 DEF DeleteCheck, DeletePull, DeleteRedisError, DeleteWrite, DeleteDbError, Strike,
     DeleteRead, execVars, Billing, At, Metered, HasResult, JobOf
<1> HIDE DEF Frame
<1> QED BY <1>1, <1>2, <1>3, <1>4, <1>5, <1>6, <1>7, <1>8, <1>9, <1>10, <1>11, <1>12
       DEF Next, SubmitStep, WorkerStep, DeleteStep, Environment, Execute, Procs

LEMMA UsageInvExact == TypeOK /\ UsageInv => UsageMatchesResults
<1> SUFFICES ASSUME TypeOK, UsageInv PROVE UsageMatchesResults
  OBVIOUS
<1>1. {j \in stored : req[j].kind # "tts"} = Metering(stored)
  BY DEF TypeOK, Metering
<1> QED BY <1>1 DEF UsageInv, UsageMatchesResults

\* The usage of the day equals the number of metered results in every behaviour in which
\* no two executors are about to bill at the same time: the read of the counter and its
\* write in Python are the only way in which an increment is lost or made twice, whatever
\* crashes, timeouts, replays and cancellations do.
THEOREM UsageIsExact == Spec /\ []OneBillsAtATime => []UsageMatchesResults
<1>1. IInv => TypeOK
  BY DEF IInv
<1> QED BY BoardInvariance, UsageInvInit, UsageInvStep, UsageInvExact, <1>1, PTL DEF Spec

\* Where no request runs its job itself, the single worker is the only executor.
LEMMA WorkerBillsAlone ==
  ASSUME \A r \in Requests : r.via # "inline", IInv
  PROVE  OneBillsAtATime
<1>1. \A j \in Jobs : pc[j] # "commit"
  BY DEF IInv, TypeOK, InlineOrQueued, ExecPCs
<1> QED BY <1>1 DEF OneBillsAtATime, Billing, At, Procs

\* So it does where every job is run by the worker.
THEOREM QueuedUsageIsExact ==
  ASSUME \A r \in Requests : r.via # "inline"
  PROVE  Spec => []UsageMatchesResults
BY WorkerBillsAlone, Invariance, UsageIsExact, PTL

-----------------------------------------------------------------------------
(* Whoever has a job settles its row or hands it on, except where a fault strikes him down *)
(* or the code lets an error pass.                                                         *)

\* The faults that no handler in the code gets to see.
Fatal == {"workerCrash", "apiCrash", "timeout", "dbError"}

\* A fault is taken from the budget, and only a fatal one strikes.
Spending ==
    /\ \A f \in Faults : budget[f] <= Budget[f]
    /\ struck # {} => \E f \in Fatal : budget[f] < Budget[f]

\* The worker takes up no RUNNING row, and nobody lets go of a row that is not final.
LetsGo ==
    /\ cur \in Jobs \ struck =>
          /\ pc[Worker] \in {"read", "route", "begin"} => status[cur] # "running"
          /\ pc[Worker] \in {"after", "shadows", "returned", "raised"}
                => status[cur] \notin {"pending", "running"}
    /\ \A j \in Jobs : pc[j] \in {"after", "shadows"} => status[j] \notin {"pending", "running"}

RunningHeld ==
    \A j \in Jobs : status[j] = "running" =>
        \/ Live(j)
        \/ j \in struck
        \/ pc[j] = "errored" /\ req[j].via = "inline"

\* The MCP tool leaves its row behind only if Redis never got the record.
Unreached == budget["redisError"] < Budget["redisError"]

PendingHeld ==
    \A j \in Jobs : status[j] = "pending" =>
        \/ Carried(j)
        \/ j \in struck
        \/ pc[j] = "errored" /\ req[j].via = "inline"
        \/ pc[j] = "errored" /\ req[j].via = "mcp" /\ Unreached

HeldInv == Spending /\ LetsGo /\ RunningHeld /\ PendingHeld

\* A Redis error leaves its mark on the budget, and no step takes it away.
LEMMA UnreachedStays ==
  ASSUME TypeOK, Spending, NEW f \in Faults, Suffer(f)
  PROVE  (Unreached => Unreached') /\ (f = "redisError" => Unreached')
BY BudgetAssumption DEF TypeOK, Spending, Suffer, Unreached, Faults

LEMMA SpendingStep == ASSUME TypeOK, Spending, [Next]_vars PROVE Spending'
<1> USE BudgetAssumption DEF Spending, TypeOK
<1>1. ASSUME NEW f \in Faults, Suffer(f), struck' = struck PROVE Spending'
  BY <1>1 DEF Suffer, Fatal, Faults
<1>2. ASSUME NEW f \in Fatal, Suffer(f) PROVE Spending'
  BY <1>2 DEF Suffer, Fatal, Faults
<1>3. ASSUME budget' = budget, struck' = struck PROVE Spending'
  BY <1>3
<1>4. CASE UNCHANGED vars
  BY <1>3, <1>4 DEF vars, histVars
<1> HIDE DEF Spending, TypeOK
<1> USE <1>1, <1>2, <1>3 DEF Faults, Fatal, histVars
<1>5. ASSUME NEW j \in Jobs, Submit(j) \/ Enqueue(j) \/ EnqueueFails(j)
                 \/ MarkEnqueueFailed(j) \/ MarkUnresolved(j) \/ Dequeue(j)
                 \/ Abandon(j) \/ Expire(j) \/ Replay(j)
      PROVE  Spending'
  BY <1>5 DEF Submit, Enqueue, EnqueueFails, MarkEnqueueFailed, MarkUnresolved, Dequeue,
     Abandon, Expire, Replay
<1>6. ASSUME ReadRow \/ Route \/ NetRead \/ NetWrite \/ RQEnds
                 \/ WorkerCrash \/ ApiCrash \/ Timeout
      PROVE  Spending'
  BY <1>6 DEF ReadRow, Route, NetRead, NetWrite, RQEnds, WorkerCrash, ApiCrash, Timeout
<1>7. ASSUME NEW x \in Procs, Begin(x) \/ BeginRaises(x) \/ CallReturns(x)
                 \/ CallFails(x) \/ CallRaises(x) \/ ReadUsage(x)
      PROVE  Spending'
  BY <1>7 DEF Begin, BeginRaises, CallReturns, CallFails, CallRaises, ReadUsage
<1>8. ASSUME NEW x \in Procs, Commit(x) \/ CommitConflicts(x) \/ After(x)
                 \/ FanOut(x) \/ Exception(x) \/ HandlerDbError(x)
      PROVE  Spending'
  BY <1>8 DEF Commit, CommitConflicts, After, FanOut, Exception, HandlerDbError
<1>9. ASSUME NEW d \in Deletes, DeleteCheck(d) \/ DeletePull(d) \/ DeleteRedisError(d)
                 \/ DeleteWrite(d) \/ DeleteDbError(d) \/ \E j \in Jobs : DeleteRead(d, j)
      PROVE  Spending'
  BY <1>9 DEF DeleteCheck, DeletePull, DeleteRedisError, DeleteWrite, DeleteDbError,
     DeleteRead
<1> QED BY <1>4, <1>5, <1>6, <1>7, <1>8, <1>9 DEF Next, SubmitStep, WorkerStep,
       DeleteStep, Environment, Execute, Procs

\* The worker takes jobs from the queue only; executors move on after their last commit.
LEMMA LetsGoStep ==
  ASSUME IInv, FirstResult, HeldInv, [Next]_vars
  PROVE  LetsGo'
<1> USE ActorsAssumption DEF IInv, TypeOK, FirstResult, Computing, HeldInv, LetsGo,
   RunningHeld, Live, Executing, WorkerRuns, WorkerHoldsJob, RecordsAreTaken, StartedOnce,
   InlineOrQueued, ExecPCs, Procs
<1>1. ASSUME NEW j \in Jobs, Submit(j) PROVE LetsGo'
  BY <1>1 DEF Submit, At, SetStatus, GoTo, delVars, execVars, histVars
<1>2. ASSUME NEW j \in Jobs, Enqueue(j) PROVE LetsGo'
  BY <1>2 DEF Enqueue, At, GoTo, delVars, execVars, histVars
<1>3. ASSUME NEW j \in Jobs, EnqueueFails(j) PROVE LetsGo'
  BY <1>3 DEF EnqueueFails, At, Suffer, GoTo, AfterEnqueueError, delVars, execVars, histVars
<1>4. ASSUME NEW j \in Jobs, MarkEnqueueFailed(j) PROVE LetsGo'
  BY <1>4 DEF MarkEnqueueFailed, At, SetStatus, GoTo, delVars, execVars, histVars
<1>5. ASSUME NEW j \in Jobs, MarkUnresolved(j) PROVE LetsGo'
  BY <1>5 DEF MarkUnresolved, At, SetStatus, GoTo, delVars, execVars, histVars
<1>6. ASSUME NEW j \in Jobs, Dequeue(j) PROVE LetsGo'
  BY <1>6 DEF Dequeue, At, GoTo, delVars, execVars, histVars
<1>7. ASSUME ReadRow PROVE LetsGo'
  BY <1>7 DEF ReadRow, At, GoTo, DispatchTo, delVars, execVars, histVars
<1>8. ASSUME Route PROVE LetsGo'
  BY <1>8 DEF Route, At, GoTo, SetStatus, delVars, execVars, histVars
<1>9. ASSUME NetRead PROVE LetsGo'
  BY <1>9 DEF NetRead, At, GoTo, delVars, execVars, histVars
<1>10. ASSUME NetWrite PROVE LetsGo'
  BY <1>10 DEF NetWrite, At, SetStatus, GoTo, delVars, execVars, histVars
<1>11. ASSUME RQEnds PROVE LetsGo'
  BY <1>11 DEF RQEnds, At, GoTo, delVars, execVars, histVars
<1>12. ASSUME NEW x \in Procs, Begin(x) PROVE LetsGo'
  BY <1>12 DEF Begin, CanRun, At, SetStatus, JobOf, GoTo, delVars, execVars
<1>13. ASSUME NEW x \in Procs, BeginRaises(x) PROVE LetsGo'
  BY <1>13 DEF BeginRaises, CanRun, At, JobOf, Escape, GoTo, delVars, execVars, histVars
<1>14. ASSUME NEW x \in Procs, CallReturns(x) PROVE LetsGo'
  BY <1>14 DEF CallReturns, CanRun, At, GoTo, JobOf, delVars, histVars
<1>15. ASSUME NEW x \in Procs, CallFails(x) PROVE LetsGo'
  BY <1>15 DEF CallFails, CanRun, At, GoTo, delVars, histVars
<1>16. ASSUME NEW x \in Procs, CallRaises(x) PROVE LetsGo'
  BY <1>16 DEF CallRaises, CanRun, At, JobOf, Escape, GoTo, delVars, execVars, histVars
<1>17. ASSUME NEW x \in Procs, ReadUsage(x) PROVE LetsGo'
  BY <1>17 DEF ReadUsage, CanRun, At, GoTo, delVars, histVars
<1>18. ASSUME NEW x \in Procs, Commit(x) PROVE LetsGo'
  BY <1>18 DEF Commit, CanRun, At, JobOf, SetStatus, GoTo, delVars, histVars
<1>19. ASSUME NEW x \in Procs, CommitConflicts(x) PROVE LetsGo'
  BY <1>19 DEF CommitConflicts, CanRun, At, Escape, GoTo, delVars, execVars, histVars
<1>20. ASSUME NEW x \in Procs, After(x) PROVE LetsGo'
  BY <1>20 DEF After, CanRun, At, JobOf, GoTo, Returned, delVars, execVars, histVars
<1>21. ASSUME NEW x \in Procs, FanOut(x) PROVE LetsGo'
  BY <1>21 DEF FanOut, CanRun, At, JobOf, Returned, GoTo, Suffer, Escape, delVars, execVars
<1>22. ASSUME NEW d \in Deletes, NEW j \in Jobs, DeleteRead(d, j) PROVE LetsGo'
  BY <1>22 DEF DeleteRead, DelGoTo, Settled, execVars, histVars
<1>23. ASSUME NEW d \in Deletes, DeleteCheck(d) PROVE LetsGo'
  BY <1>23 DEF DeleteCheck, DelGoTo, execVars, histVars
<1>24. ASSUME NEW d \in Deletes, DeletePull(d) PROVE LetsGo'
  BY <1>24 DEF DeletePull, DelGoTo, execVars
<1>25. ASSUME NEW d \in Deletes, DeleteRedisError(d) PROVE LetsGo'
  BY <1>25 DEF DeleteRedisError, Suffer, DelGoTo, execVars, histVars
<1>26. ASSUME NEW d \in Deletes, DeleteWrite(d) PROVE LetsGo'
  BY <1>26 DEF DeleteWrite, SetStatus, DelGoTo, execVars, histVars
<1>27. ASSUME WorkerCrash PROVE LetsGo'
  BY <1>27 DEF WorkerCrash, At, Suffer, GoTo, Strike, delVars, execVars
<1>28. ASSUME ApiCrash PROVE LetsGo'
  BY <1>28 DEF ApiCrash, Suffer, Strike, Active, SubmitPCs, Deleting, execVars
<1>29. ASSUME Timeout PROVE LetsGo'
  BY <1>29 DEF Timeout, Suffer, GoTo, Strike, delVars, execVars
<1>30. ASSUME NEW j \in Jobs, Abandon(j) PROVE LetsGo'
  BY <1>30 DEF Abandon, delVars, execVars, histVars
<1>31. ASSUME NEW j \in Jobs, Expire(j) PROVE LetsGo'
  BY <1>31 DEF Expire, delVars, execVars, histVars
<1>32. ASSUME NEW j \in Jobs, Replay(j) PROVE LetsGo'
  BY <1>32 DEF Replay, Suffer, delVars, execVars, histVars
<1>33. ASSUME NEW x \in Procs, Exception(x) PROVE LetsGo'
  BY <1>33 DEF Exception, CanRun, Suffer, Escape, GoTo, delVars, execVars, histVars
<1>34. ASSUME NEW x \in Procs, HandlerDbError(x) PROVE LetsGo'
  BY <1>34 DEF HandlerDbError, JobOf, Suffer, GoTo, Strike, delVars, execVars
<1>35. ASSUME NEW d \in Deletes, DeleteDbError(d) PROVE LetsGo'
  BY <1>35 DEF DeleteDbError, Suffer, DelGoTo, Strike, execVars
<1>36. CASE UNCHANGED vars
  BY <1>36 DEF vars, delVars, execVars, histVars
<1> HIDE DEF IInv, TypeOK, FirstResult, Computing, HeldInv, LetsGo, RunningHeld, Live,
   Executing, WorkerRuns, WorkerHoldsJob, RecordsAreTaken, StartedOnce, InlineOrQueued
<1> QED BY <1>1, <1>2, <1>3, <1>4, <1>5, <1>6, <1>7, <1>8, <1>9, <1>10, <1>11, <1>12, <1>13,
       <1>14, <1>15, <1>16, <1>17, <1>18, <1>19, <1>20, <1>21, <1>22, <1>23, <1>24, <1>25,
       <1>26, <1>27, <1>28, <1>29, <1>30, <1>31, <1>32, <1>33, <1>34, <1>35, <1>36 DEF Next,
       SubmitStep, WorkerStep, DeleteStep, Environment, Execute, Procs

\* Between the RUNNING commit and the last one somebody stays at the job.
LEMMA RunningHeldStep ==
  ASSUME IInv, FirstResult, HeldInv, [Next]_vars
  PROVE  RunningHeld'
<1> USE ActorsAssumption DEF IInv, TypeOK, FirstResult, Computing, HeldInv, LetsGo,
   RunningHeld, Live, Executing, WorkerRuns, WorkerHoldsJob, RecordsAreTaken, StartedOnce,
   InlineOrQueued, ExecPCs, Procs
<1>1. ASSUME NEW j \in Jobs, Submit(j) PROVE RunningHeld'
  BY <1>1 DEF Submit, At, SetStatus, GoTo, delVars, execVars, histVars
<1>2. ASSUME NEW j \in Jobs, Enqueue(j) PROVE RunningHeld'
  BY <1>2 DEF Enqueue, At, GoTo, delVars, execVars, histVars
<1>3. ASSUME NEW j \in Jobs, EnqueueFails(j) PROVE RunningHeld'
  BY <1>3 DEF EnqueueFails, At, Suffer, GoTo, AfterEnqueueError, delVars, execVars, histVars
<1>4. ASSUME NEW j \in Jobs, MarkEnqueueFailed(j) PROVE RunningHeld'
  BY <1>4 DEF MarkEnqueueFailed, At, SetStatus, GoTo, delVars, execVars, histVars
<1>5. ASSUME NEW j \in Jobs, MarkUnresolved(j) PROVE RunningHeld'
  BY <1>5 DEF MarkUnresolved, At, SetStatus, GoTo, delVars, execVars, histVars
<1>6. ASSUME NEW j \in Jobs, Dequeue(j) PROVE RunningHeld'
  BY <1>6 DEF Dequeue, At, GoTo, delVars, execVars, histVars
<1>7. ASSUME ReadRow PROVE RunningHeld'
  BY <1>7 DEF ReadRow, At, GoTo, DispatchTo, delVars, execVars, histVars
<1>8. ASSUME Route PROVE RunningHeld'
  BY <1>8 DEF Route, At, GoTo, SetStatus, delVars, execVars, histVars
<1>9. ASSUME NetRead PROVE RunningHeld'
  BY <1>9 DEF NetRead, At, GoTo, delVars, execVars, histVars
<1>10. ASSUME NetWrite PROVE RunningHeld'
  BY <1>10 DEF NetWrite, At, SetStatus, GoTo, delVars, execVars, histVars
<1>11. ASSUME RQEnds PROVE RunningHeld'
  BY <1>11 DEF RQEnds, At, GoTo, delVars, execVars, histVars
<1>12. ASSUME NEW x \in Procs, Begin(x) PROVE RunningHeld'
  BY <1>12 DEF Begin, CanRun, At, SetStatus, JobOf, GoTo, delVars, execVars
<1>13. ASSUME NEW x \in Procs, BeginRaises(x) PROVE RunningHeld'
  BY <1>13 DEF BeginRaises, CanRun, At, JobOf, Escape, GoTo, delVars, execVars, histVars
<1>14. ASSUME NEW x \in Procs, CallReturns(x) PROVE RunningHeld'
  BY <1>14 DEF CallReturns, CanRun, At, GoTo, JobOf, delVars, histVars
<1>15. ASSUME NEW x \in Procs, CallFails(x) PROVE RunningHeld'
  BY <1>15 DEF CallFails, CanRun, At, GoTo, delVars, histVars
<1>16. ASSUME NEW x \in Procs, CallRaises(x) PROVE RunningHeld'
  BY <1>16 DEF CallRaises, CanRun, At, JobOf, Escape, GoTo, delVars, execVars, histVars
<1>17. ASSUME NEW x \in Procs, ReadUsage(x) PROVE RunningHeld'
  BY <1>17 DEF ReadUsage, CanRun, At, GoTo, delVars, histVars
<1>18. ASSUME NEW x \in Procs, Commit(x) PROVE RunningHeld'
  BY <1>18 DEF Commit, CanRun, At, JobOf, SetStatus, GoTo, delVars, histVars
<1>19. ASSUME NEW x \in Procs, CommitConflicts(x) PROVE RunningHeld'
  BY <1>19 DEF CommitConflicts, CanRun, At, Escape, GoTo, delVars, execVars, histVars
<1>20. ASSUME NEW x \in Procs, After(x) PROVE RunningHeld'
  BY <1>20 DEF After, CanRun, At, JobOf, GoTo, Returned, delVars, execVars, histVars
<1>21. ASSUME NEW x \in Procs, FanOut(x) PROVE RunningHeld'
  BY <1>21 DEF FanOut, CanRun, At, JobOf, Returned, GoTo, Suffer, Escape, delVars, execVars
<1>22. ASSUME NEW d \in Deletes, NEW j \in Jobs, DeleteRead(d, j) PROVE RunningHeld'
  BY <1>22 DEF DeleteRead, DelGoTo, Settled, execVars, histVars
<1>23. ASSUME NEW d \in Deletes, DeleteCheck(d) PROVE RunningHeld'
  BY <1>23 DEF DeleteCheck, DelGoTo, execVars, histVars
<1>24. ASSUME NEW d \in Deletes, DeletePull(d) PROVE RunningHeld'
  BY <1>24 DEF DeletePull, DelGoTo, execVars
<1>25. ASSUME NEW d \in Deletes, DeleteRedisError(d) PROVE RunningHeld'
  BY <1>25 DEF DeleteRedisError, Suffer, DelGoTo, execVars, histVars
<1>26. ASSUME NEW d \in Deletes, DeleteWrite(d) PROVE RunningHeld'
  BY <1>26 DEF DeleteWrite, SetStatus, DelGoTo, execVars, histVars
<1>27. ASSUME WorkerCrash PROVE RunningHeld'
  BY <1>27 DEF WorkerCrash, At, Suffer, GoTo, Strike, delVars, execVars
<1>28. ASSUME ApiCrash PROVE RunningHeld'
  BY <1>28 DEF ApiCrash, Suffer, Strike, Active, SubmitPCs, Deleting, execVars
<1>29. ASSUME Timeout PROVE RunningHeld'
  BY <1>29 DEF Timeout, Suffer, GoTo, Strike, delVars, execVars
<1>30. ASSUME NEW j \in Jobs, Abandon(j) PROVE RunningHeld'
  BY <1>30 DEF Abandon, delVars, execVars, histVars
<1>31. ASSUME NEW j \in Jobs, Expire(j) PROVE RunningHeld'
  BY <1>31 DEF Expire, delVars, execVars, histVars
<1>32. ASSUME NEW j \in Jobs, Replay(j) PROVE RunningHeld'
  BY <1>32 DEF Replay, Suffer, delVars, execVars, histVars
<1>33. ASSUME NEW x \in Procs, Exception(x) PROVE RunningHeld'
  BY <1>33 DEF Exception, CanRun, Suffer, Escape, GoTo, delVars, execVars, histVars
<1>34. ASSUME NEW x \in Procs, HandlerDbError(x) PROVE RunningHeld'
  BY <1>34 DEF HandlerDbError, JobOf, Suffer, GoTo, Strike, delVars, execVars
<1>35. ASSUME NEW d \in Deletes, DeleteDbError(d) PROVE RunningHeld'
  BY <1>35 DEF DeleteDbError, Suffer, DelGoTo, Strike, execVars
<1>36. CASE UNCHANGED vars
  BY <1>36 DEF vars, delVars, execVars, histVars
<1> HIDE DEF IInv, TypeOK, FirstResult, Computing, HeldInv, LetsGo, RunningHeld, Live,
   Executing, WorkerRuns, WorkerHoldsJob, RecordsAreTaken, StartedOnce, InlineOrQueued
<1> QED BY <1>1, <1>2, <1>3, <1>4, <1>5, <1>6, <1>7, <1>8, <1>9, <1>10, <1>11, <1>12, <1>13,
       <1>14, <1>15, <1>16, <1>17, <1>18, <1>19, <1>20, <1>21, <1>22, <1>23, <1>24, <1>25,
       <1>26, <1>27, <1>28, <1>29, <1>30, <1>31, <1>32, <1>33, <1>34, <1>35, <1>36 DEF Next,
       SubmitStep, WorkerStep, DeleteStep, Environment, Execute, Procs

\* Whoever hands a PENDING row on hands it to the next one.
LEMMA PendingHeldStep ==
  ASSUME IInv, FirstResult, HeldInv, [Next]_vars
  PROVE  PendingHeld'
<1> USE ActorsAssumption DEF IInv, TypeOK, FirstResult, Computing, HeldInv, Spending,
   LetsGo, PendingHeld, Unreached, Carried, Active, SubmitPCs, Deleting, WorkerHoldsJob,
   RecordsAreTaken, StartedOnce, InlineOrQueued, CancelIsJustified, ExecPCs, Procs
<1>1. ASSUME NEW j \in Jobs, Submit(j) PROVE PendingHeld'
  BY <1>1 DEF Submit, At, SetStatus, GoTo, delVars, execVars, histVars
<1>2. ASSUME NEW j \in Jobs, Enqueue(j) PROVE PendingHeld'
  BY <1>2 DEF Enqueue, At, GoTo, delVars, execVars, histVars
<1>3. ASSUME NEW j \in Jobs, EnqueueFails(j) PROVE PendingHeld'
  <2>1. /\ Unreached => Unreached'
        /\ Suffer("redisError") => Unreached'
    BY <1>3, UnreachedStays DEF EnqueueFails, Faults
  <2>2. req[j].via \in {"http", "mcp", "inline"}
    BY RequestsAssumption DEF Request
  <2> HIDE DEF Unreached, Spending
  <2> QED BY <1>3, <2>1, <2>2 DEF EnqueueFails, At, GoTo, AfterEnqueueError, delVars, execVars,
         histVars
<1>4. ASSUME NEW j \in Jobs, MarkEnqueueFailed(j) PROVE PendingHeld'
  BY <1>4 DEF MarkEnqueueFailed, At, SetStatus, GoTo, delVars, execVars, histVars
<1>5. ASSUME NEW j \in Jobs, MarkUnresolved(j) PROVE PendingHeld'
  BY <1>5 DEF MarkUnresolved, At, SetStatus, GoTo, delVars, execVars, histVars
<1>6. ASSUME NEW j \in Jobs, Dequeue(j) PROVE PendingHeld'
  BY <1>6 DEF Dequeue, At, GoTo, delVars, execVars, histVars
<1>7. ASSUME ReadRow PROVE PendingHeld'
  BY <1>7 DEF ReadRow, At, GoTo, DispatchTo, delVars, execVars, histVars
<1>8. ASSUME Route PROVE PendingHeld'
  BY <1>8 DEF Route, At, GoTo, SetStatus, delVars, execVars, histVars
<1>9. ASSUME NetRead PROVE PendingHeld'
  BY <1>9 DEF NetRead, At, GoTo, delVars, execVars, histVars
<1>10. ASSUME NetWrite PROVE PendingHeld'
  BY <1>10 DEF NetWrite, At, SetStatus, GoTo, delVars, execVars, histVars
<1>11. ASSUME RQEnds PROVE PendingHeld'
  BY <1>11 DEF RQEnds, At, GoTo, delVars, execVars, histVars
<1>12. ASSUME NEW x \in Procs, Begin(x) PROVE PendingHeld'
  BY <1>12 DEF Begin, CanRun, At, SetStatus, JobOf, GoTo, delVars, execVars
<1>13. ASSUME NEW x \in Procs, BeginRaises(x) PROVE PendingHeld'
  BY <1>13 DEF BeginRaises, CanRun, At, JobOf, Escape, GoTo, delVars, execVars, histVars
<1>14. ASSUME NEW x \in Procs, CallReturns(x) PROVE PendingHeld'
  BY <1>14 DEF CallReturns, CanRun, At, GoTo, JobOf, delVars, histVars
<1>15. ASSUME NEW x \in Procs, CallFails(x) PROVE PendingHeld'
  BY <1>15 DEF CallFails, CanRun, At, GoTo, delVars, histVars
<1>16. ASSUME NEW x \in Procs, CallRaises(x) PROVE PendingHeld'
  BY <1>16 DEF CallRaises, CanRun, At, JobOf, Escape, GoTo, delVars, execVars, histVars
<1>17. ASSUME NEW x \in Procs, ReadUsage(x) PROVE PendingHeld'
  BY <1>17 DEF ReadUsage, CanRun, At, GoTo, delVars, histVars
<1>18. ASSUME NEW x \in Procs, Commit(x) PROVE PendingHeld'
  BY <1>18 DEF Commit, CanRun, At, JobOf, SetStatus, GoTo, delVars, histVars
<1>19. ASSUME NEW x \in Procs, CommitConflicts(x) PROVE PendingHeld'
  BY <1>19 DEF CommitConflicts, CanRun, At, Escape, GoTo, delVars, execVars, histVars
<1>20. ASSUME NEW x \in Procs, After(x) PROVE PendingHeld'
  BY <1>20 DEF After, CanRun, At, JobOf, GoTo, Returned, delVars, execVars, histVars
<1>21. ASSUME NEW x \in Procs, FanOut(x) PROVE PendingHeld'
  <2>1. Unreached => Unreached'
    BY <1>21, UnreachedStays DEF FanOut, Faults, Unreached
  <2> HIDE DEF Unreached, Spending
  <2>2. CASE x = Worker
    BY <1>21, <2>1, <2>2 DEF FanOut, CanRun, At, JobOf, Returned, GoTo, Escape, delVars, execVars
  <2>3. CASE x \in Jobs
    BY <1>21, <2>1, <2>3 DEF FanOut, At, JobOf, Returned, GoTo, Escape, delVars, execVars
  <2> QED BY <2>2, <2>3
<1>22. ASSUME NEW d \in Deletes, NEW j \in Jobs, DeleteRead(d, j) PROVE PendingHeld'
  BY <1>22 DEF DeleteRead, DelGoTo, Settled, execVars, histVars
<1>23. ASSUME NEW d \in Deletes, DeleteCheck(d) PROVE PendingHeld'
  BY <1>23 DEF DeleteCheck, DelGoTo, execVars, histVars
<1>24. ASSUME NEW d \in Deletes, DeletePull(d) PROVE PendingHeld'
  BY <1>24 DEF DeletePull, DelGoTo, execVars
<1>25. ASSUME NEW d \in Deletes, DeleteRedisError(d) PROVE PendingHeld'
  <2>1. Unreached => Unreached'
    BY <1>25, UnreachedStays DEF DeleteRedisError, Faults
  <2> HIDE DEF Unreached, Spending
  <2> QED BY <1>25, <2>1 DEF DeleteRedisError, DelGoTo, execVars, histVars
<1>26. ASSUME NEW d \in Deletes, DeleteWrite(d) PROVE PendingHeld'
  BY <1>26 DEF DeleteWrite, SetStatus, DelGoTo, execVars, histVars
<1>27. ASSUME WorkerCrash PROVE PendingHeld'
  BY <1>27 DEF WorkerCrash, At, Suffer, GoTo, Strike, delVars, execVars
<1>28. ASSUME ApiCrash PROVE PendingHeld'
  BY <1>28 DEF ApiCrash, Suffer, Strike, Active, SubmitPCs, Deleting, execVars
<1>29. ASSUME Timeout PROVE PendingHeld'
  BY <1>29 DEF Timeout, Suffer, GoTo, Strike, delVars, execVars
<1>30. ASSUME NEW j \in Jobs, Abandon(j) PROVE PendingHeld'
  BY <1>30 DEF Abandon, delVars, execVars, histVars
<1>31. ASSUME NEW j \in Jobs, Expire(j) PROVE PendingHeld'
  BY <1>31 DEF Expire, delVars, execVars, histVars
<1>32. ASSUME NEW j \in Jobs, Replay(j) PROVE PendingHeld'
  BY <1>32 DEF Replay, Suffer, delVars, execVars, histVars
<1>33. ASSUME NEW x \in Procs, Exception(x) PROVE PendingHeld'
  BY <1>33 DEF Exception, CanRun, Suffer, Escape, GoTo, delVars, execVars, histVars
<1>34. ASSUME NEW x \in Procs, HandlerDbError(x) PROVE PendingHeld'
  BY <1>34 DEF HandlerDbError, JobOf, Suffer, GoTo, Strike, delVars, execVars
<1>35. ASSUME NEW d \in Deletes, DeleteDbError(d) PROVE PendingHeld'
  BY <1>35 DEF DeleteDbError, Suffer, DelGoTo, Strike, execVars
<1>36. CASE UNCHANGED vars
  BY <1>36 DEF vars, delVars, execVars, histVars
<1> HIDE DEF IInv, TypeOK, FirstResult, Computing, HeldInv, Spending, LetsGo, PendingHeld,
   Unreached, Carried, Active, SubmitPCs, Deleting, WorkerHoldsJob, RecordsAreTaken,
   StartedOnce, InlineOrQueued, CancelIsJustified
<1> QED BY <1>1, <1>2, <1>3, <1>4, <1>5, <1>6, <1>7, <1>8, <1>9, <1>10, <1>11, <1>12, <1>13,
       <1>14, <1>15, <1>16, <1>17, <1>18, <1>19, <1>20, <1>21, <1>22, <1>23, <1>24, <1>25,
       <1>26, <1>27, <1>28, <1>29, <1>30, <1>31, <1>32, <1>33, <1>34, <1>35, <1>36 DEF Next,
       SubmitStep, WorkerStep, DeleteStep, Environment, Execute, Procs

LEMMA HeldInvariance == Spec => [](IInv /\ HeldInv)
<1>1. Init => HeldInv
  BY ActorsAssumption, BudgetAssumption
     DEF Init, HeldInv, Spending, LetsGo, RunningHeld, PendingHeld, Procs
<1>2. IInv /\ FirstResult /\ HeldInv /\ [Next]_vars => HeldInv'
  BY SpendingStep, LetsGoStep, RunningHeldStep, PendingHeldStep DEF HeldInv, IInv
<1> QED BY BoardInvariance, <1>1, <1>2, PTL DEF Spec

\* Whatever strikes, in any order and any number: a RUNNING or PENDING row that nobody will
\* write is one whose handler, worker or DELETE a crash, RQ's timeout or the database struck,
\* or one that an inline request or the MCP tool left when it answered with an error.
THEOREM OnlyLeftForCause == Spec => []LeftForCause
<1>1. HeldInv => LeftForCause
  BY DEF HeldInv, RunningHeld, PendingHeld, LeftForCause, At
<1> QED BY HeldInvariance, <1>1, PTL

\* Jobs go through the queue, no process dies, no RQ timeout strikes, no commit of an error
\* handler fails, and Redis takes what the MCP tool enqueues.
CalmAssumption ==
    /\ \A r \in Requests : r.via = "http" \/ (r.via = "mcp" /\ Budget["redisError"] = 0)
    /\ \A f \in Fatal : Budget[f] = 0

\* However the requests, the worker, the DELETEs and the faults that the code handles
\* (exceptions, Redis errors, lost replies, replays) interleave, a row that is not final
\* has somebody who will write it.
THEOREM NobodyStranded ==
  ASSUME CalmAssumption
  PROVE  Spec => []NobodyIsStranded
<1>1. ASSUME IInv, HeldInv PROVE NobodyIsStranded
  <2> USE BudgetAssumption DEF IInv, TypeOK, Faults
  <2>1. struck = {}
    BY <1>1 DEF CalmAssumption, HeldInv, Spending, Fatal
  <2>2. \A j \in Jobs : req[j].via # "inline"
                        /\ (req[j].via = "mcp" => ~Unreached)
    BY <1>1 DEF CalmAssumption, Unreached
  <2> QED BY <1>1, <2>1, <2>2 DEF HeldInv, RunningHeld, PendingHeld, NobodyIsStranded,
         RunningIsLive, PendingHasCarrier
<1> QED BY HeldInvariance, <1>1, PTL

=============================================================================
