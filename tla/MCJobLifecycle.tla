--------------------------- MODULE MCJobLifecycle ---------------------------
(* Small instances of JobLifecycle for TLC. *)
EXTENDS JobLifecycle, TLC

\* Requests that the worker runs, the metered kinds and the unmetered one.
QueuedRequests ==
    {[via |-> "http", kind |-> k, force |-> FALSE] : k \in {"text", "tts"}}

\* Text jobs that are enqueued, over HTTP or MCP, or run in the request.
MixedRequests ==
    {[via |-> "mcp", kind |-> "text", force |-> FALSE],
     [via |-> "http", kind |-> "text", force |-> FALSE],
     [via |-> "inline", kind |-> "text", force |-> TRUE]}

NoFault == [f \in Faults |-> 0]

\* What the code handles: a lost reply, a replay.
HandledFaults == [NoFault EXCEPT !["replyLost"] = 1, !["replay"] = 1]

\* Everything that may strike the worker.
WorkerFaults == [NoFault EXCEPT !["workerCrash"] = 1, !["timeout"] = 1, !["replay"] = 1,
                                !["exception"] = 1, !["dbError"] = 1]

\* Everything that may strike a request, and the worker's timeout.
RequestFaults == [NoFault EXCEPT !["apiCrash"] = 1, !["redisError"] = 1, !["replyLost"] = 1,
                                 !["dbError"] = 1, !["timeout"] = 1]

MeteredRequests ==
    {[via |-> "http", kind |-> k, force |-> FALSE] : k \in {"text", "media"}}

JobSymmetry == Permutations(Jobs)

=============================================================================
