----------------------------- MODULE Residency -----------------------------
(***************************************************************************)
(* Which models Ollama holds in memory: the worker that pins the resident  *)
(* set at boot, swaps models in for text jobs and clears the set for a     *)
(* training; the reconcile thread beside it that pins again what is gone;  *)
(* the API process whose inline calls load a model too; and an Ollama      *)
(* server that evicts and restarts as it likes.                            *)
(*                                                                         *)
(* One action is one call of Ollama or of the training sidecar, or one     *)
(* look at the suspend flag, a threading.Event of the worker process.      *)
(***************************************************************************)
EXTENDS Integers, FiniteSets

CONSTANTS
    Resident,   \* the models of RESIDENT_MODELS
    Others,     \* models that jobs use besides
    Budget      \* how often each fault may strike

(***************************************************************************)
(* evict: Ollama drops a model.  call: a call of Ollama raises.            *)
(* timeout: RQ's SIGALRM cancels the coroutine of the job at an await.     *)
(* sidecar: the training call fails while the sidecar may go on.           *)
(* crash: the worker process dies and is started again.                    *)
(***************************************************************************)
Faults == {"evict", "call", "timeout", "sidecar", "crash"}

ASSUME ResidencyAssumption ==
    /\ Resident \cap Others = {}
    /\ Budget \in [Faults -> Nat]

Models == Resident \cup Others

VARIABLES
    loaded,     \* what Ollama holds
    suspended,  \* the flag
    training,   \* the sidecar is at work
    wpc, wtodo, \* the worker: where it stands, the models it has yet to go through
    rpc, rtodo, \* the same of the reconcile thread
    alarmed,    \* RQ's alarm has gone off for the job at hand
    budget,     \* faults to come
    overlap,    \* history: the tick under way looked at the flag before it was set
    struck,     \* history: a timeout cut the unloading or the pinning short
    excused     \* history: residents somebody but the reconcile thread left or put in
                \*   memory since the flag was set, or a tick that overlaps

residencyVars == <<loaded, suspended, training, wpc, wtodo, rpc, rtodo, alarmed, budget,
          overlap, struck, excused>>

Dance == {"unload", "train", "pin"}

ResidencyTypeOK ==
    /\ loaded \subseteq Models
    /\ suspended \in BOOLEAN
    /\ training \in BOOLEAN
    /\ wpc \in {"boot", "idle", "swap"} \cup Dance
    /\ wtodo \subseteq Models
    /\ wpc # "swap" => wtodo \subseteq Resident
    /\ rpc \in {"off", "sleep", "list", "load"}
    /\ rtodo \subseteq Resident
    /\ alarmed \in BOOLEAN
    /\ budget \in [Faults -> Nat]
    /\ overlap \in BOOLEAN
    /\ struck \in BOOLEAN
    /\ excused \subseteq Resident
    /\ rpc = "off" <=> wpc = "boot"
    /\ rpc \in {"off", "sleep", "list"} => rtodo = {}

ResidencyInit ==
    /\ loaded \in SUBSET Models
    /\ suspended = FALSE
    /\ training = FALSE
    /\ wpc = "boot"
    /\ wtodo = Resident
    /\ rpc = "off"
    /\ rtodo = {}
    /\ alarmed = FALSE
    /\ budget = Budget
    /\ overlap = FALSE
    /\ struck = FALSE
    /\ excused = {}

Incur(f) ==
    /\ budget[f] > 0
    /\ budget' = [budget EXCEPT ![f] = @ - 1]

recVars  == <<rpc, rtodo, overlap>>
workVars == <<wpc, wtodo, alarmed, struck, suspended, training>>

-----------------------------------------------------------------------------
(* pin_resident_models and unload_resident_models: one model after the other, a call *)
(* that raises is logged and passed over.                                            *)

\* A load that raises may have had its effect: the client gave up waiting.
Load(m) ==
    \/ loaded' = loaded \cup {m} /\ UNCHANGED budget
    \/ loaded' \in {loaded, loaded \cup {m}} /\ Incur("call")

PinOne(m) ==
    /\ wpc \in {"boot", "pin"}
    /\ m \in wtodo
    /\ Load(m)
    /\ wtodo' = wtodo \ {m}
    /\ UNCHANGED <<wpc, alarmed, struck, suspended, training, recVars, excused>>

UnloadOne(m) ==
    /\ wpc = "unload"
    /\ m \in wtodo
    /\ \/ /\ loaded' = loaded \ {m}
          /\ UNCHANGED <<budget, excused>>
       \/ /\ Incur("call")
          /\ excused' = excused \cup {m}
          /\ UNCHANGED loaded
    /\ wtodo' = wtodo \ {m}
    /\ UNCHANGED <<wpc, alarmed, struck, suspended, training, recVars>>

-----------------------------------------------------------------------------
(* The worker. *)

\* main starts the reconcile thread only after the pins of the boot.
Booted ==
    /\ wpc = "boot"
    /\ wtodo = {}
    /\ wpc' = "idle"
    /\ rpc' = "sleep"
    /\ UNCHANGED <<loaded, suspended, training, wtodo, rtodo, alarmed, budget, overlap, struck, excused>>

\* _swap_ollama_if_needed: list what is loaded and load the model of the job if it is
\* not there, or if the listing failed.
StartSwap(m) ==
    /\ wpc = "idle"
    /\ \/ m \notin loaded /\ UNCHANGED budget
       \/ Incur("call")
    /\ wpc' = "swap"
    /\ wtodo' = {m}
    /\ UNCHANGED <<loaded, suspended, training, alarmed, struck, recVars, excused>>

\* The job goes on, or fails when the load did. RQ's alarm ends it as well.
EndSwap(m) ==
    /\ wpc = "swap"
    /\ m \in wtodo
    /\ Load(m)
    /\ wpc' = "idle"
    /\ wtodo' = {}
    /\ UNCHANGED <<alarmed, struck, suspended, training, recVars, excused>>

\* Mutant: the flag is not set.
SuspendForgotten ==
    /\ wpc = "idle"
    /\ wpc' = "unload"
    /\ wtodo' = Resident
    /\ alarmed' = FALSE
    /\ overlap' = FALSE
    /\ excused' = {}
    /\ UNCHANGED <<loaded, suspended, training, rpc, rtodo, budget, struck>>

\* execute_dpo_fine_tune_job with something to train on: first the flag, then the unloading.
Suspend ==
    /\ wpc = "idle"
    /\ wpc' = "unload"
    /\ wtodo' = Resident
    /\ suspended' = TRUE
    /\ alarmed' = FALSE
    /\ overlap' = (rpc \in {"list", "load"})
    /\ excused' = {}
    /\ UNCHANGED <<loaded, training, rpc, rtodo, budget, struck>>

PostTraining ==
    /\ wpc = "unload"
    /\ wtodo = {}
    /\ wpc' = "train"
    /\ training' = TRUE
    /\ UNCHANGED <<loaded, suspended, wtodo, alarmed, budget, recVars, struck, excused>>

\* The finally block pins whatever the outcome.
ToPin ==
    /\ wpc' = "pin"
    /\ wtodo' = Resident

\* The sidecar has answered and the result is committed, or the answer was an error.
EndTraining ==
    /\ wpc = "train"
    /\ ~training
    /\ ToPin
    /\ UNCHANGED <<loaded, suspended, training, alarmed, budget, recVars, struck, excused>>

\* TrainServiceError: the connection broke or the client's own timeout passed.
LoseTraining ==
    /\ wpc = "train"
    /\ Incur("sidecar")
    /\ ToPin
    /\ UNCHANGED <<loaded, suspended, training, alarmed, recVars, struck, excused>>

\* Mutant: the set is restored and the flag stays.
ResumeForgotten ==
    /\ wpc = "pin"
    /\ wtodo = {}
    /\ wpc' = "idle"
    /\ struck' = FALSE
    /\ UNCHANGED <<loaded, suspended, training, wtodo, alarmed, budget, recVars, excused>>

Resume ==
    /\ wpc = "pin"
    /\ wtodo = {}
    /\ suspended' = FALSE
    /\ struck' = FALSE
    /\ wpc' = "idle"
    /\ UNCHANGED <<loaded, training, wtodo, alarmed, budget, recVars, excused>>

\* CancelledError at an await: before the try block nothing resumes, in the training the
\* finally block runs, and inside the finally block the rest of it is lost.
Timeout ==
    /\ wpc \in {"unload", "train", "pin"}
    /\ wpc \in {"unload", "pin"} => wtodo # {}
    /\ ~alarmed
    /\ Incur("timeout")
    /\ alarmed' = TRUE
    /\ IF wpc = "train" THEN ToPin /\ UNCHANGED struck
                        ELSE wpc' = "idle" /\ wtodo' = {} /\ struck' = TRUE
    /\ UNCHANGED <<loaded, suspended, training, recVars, excused>>

\* The flag and the thread go with the process; the next one pins first.
Crash ==
    /\ wpc # "boot"
    /\ Incur("crash")
    /\ wpc' = "boot"
    /\ wtodo' = Resident
    /\ suspended' = FALSE
    /\ rpc' = "off"
    /\ rtodo' = {}
    /\ alarmed' = FALSE
    /\ overlap' = FALSE
    /\ struck' = FALSE
    /\ UNCHANGED <<loaded, training, excused>>

-----------------------------------------------------------------------------
(* The reconcile thread: sleep, look at the flag, list, load what is missing. *)

Tick ==
    /\ rpc = "sleep"
    /\ ~suspended
    /\ rpc' = "list"
    /\ overlap' = FALSE
    /\ UNCHANGED <<loaded, workVars, rtodo, budget, excused>>

ListLoaded ==
    /\ rpc = "list"
    /\ \/ /\ rtodo' = Resident \ loaded
          /\ rpc' = IF Resident \subseteq loaded THEN "sleep" ELSE "load"
          /\ UNCHANGED budget
       \/ /\ Incur("call")
          /\ rpc' = "sleep"
          /\ UNCHANGED rtodo
    /\ UNCHANGED <<loaded, workVars, overlap, excused>>

\* Mutant: the last model of the list is left for the next tick, which leaves it again.
RepinAllButOne(m) ==
    /\ rpc = "load"
    /\ m \in rtodo
    /\ IF rtodo = {m} THEN UNCHANGED <<loaded, budget>> ELSE Load(m)
    /\ rtodo' = rtodo \ {m}
    /\ rpc' = IF rtodo = {m} THEN "sleep" ELSE "load"
    /\ excused' = IF suspended /\ overlap THEN excused \cup {m} ELSE excused
    /\ UNCHANGED <<workVars, overlap>>

\* Mutant: the loop returns after its first model.
RepinFirst(m) ==
    /\ rpc = "load"
    /\ m \in rtodo
    /\ Load(m)
    /\ rtodo' = rtodo \ {m}
    /\ rpc' = "sleep"
    /\ excused' = IF suspended /\ overlap THEN excused \cup {m} ELSE excused
    /\ UNCHANGED <<workVars, overlap>>

RepinOne(m) ==
    /\ rpc = "load"
    /\ m \in rtodo
    /\ Load(m)
    /\ rtodo' = rtodo \ {m}
    /\ rpc' = IF rtodo = {m} THEN "sleep" ELSE "load"
    /\ excused' = IF suspended /\ overlap THEN excused \cup {m} ELSE excused
    /\ UNCHANGED <<workVars, overlap>>

-----------------------------------------------------------------------------
(* Everybody else. *)

\* An inline call of the API process knows nothing of the flag.
InlineCall(m) ==
    /\ m \in Resident
    /\ loaded' = loaded \cup {m}
    /\ excused' = IF suspended THEN excused \cup {m} ELSE excused
    /\ UNCHANGED <<workVars, recVars, budget>>

\* A resident model is evicted when Ollama restarts or is short of memory ...
Evict(m) ==
    /\ m \in loaded \cap Resident
    /\ Incur("evict")
    /\ loaded' = loaded \ {m}
    /\ UNCHANGED <<workVars, recVars, excused>>

\* ... any other one after its five minutes, too.
KeepAliveEnds(m) ==
    /\ m \in loaded \cap Others
    /\ loaded' = loaded \ {m}
    /\ UNCHANGED <<workVars, recVars, budget, excused>>

SidecarEnds ==
    /\ training
    /\ training' = FALSE
    /\ UNCHANGED <<loaded, suspended, wpc, wtodo, alarmed, budget, recVars, struck, excused>>

-----------------------------------------------------------------------------

GoOn ==
    \/ \E m \in Models : PinOne(m) \/ UnloadOne(m) \/ EndSwap(m)
    \/ Booted \/ PostTraining \/ EndTraining \/ Resume

Reconcile == Tick \/ ListLoaded \/ \E m \in Resident : RepinOne(m)

ResidencyNext ==
    \/ GoOn
    \/ Suspend \/ \E m \in Models : StartSwap(m)
    \/ LoseTraining \/ Timeout \/ Crash
    \/ Reconcile
    \/ \E m \in Models : InlineCall(m) \/ Evict(m) \/ KeepAliveEnds(m)
    \/ SidecarEnds

ResidencySpec == ResidencyInit /\ [][ResidencyNext]_residencyVars

(***************************************************************************)
(* The worker goes on with what it has begun, the thread ticks for ever,   *)
(* the sidecar caps its run.  No job has to come and no fault to strike.   *)
(***************************************************************************)
ResidencyFairSpec ==
    /\ ResidencySpec
    /\ WF_residencyVars(GoOn) /\ WF_residencyVars(Reconcile) /\ WF_residencyVars(SidecarEnds)

-----------------------------------------------------------------------------
(* What the dance around a training promises. *)

\* While the worker waits for a training that it started, no resident model is in memory,
\* but for one whose unloading failed, that the API process called, or that was loaded by
\* the one tick which had looked at the flag before it was set.
TrainingHasRoom == wpc = "train" => loaded \cap Resident \subseteq excused

\* The flag is set only during the dance, or when a timeout cut it short: no error of
\* Ollama, of the sidecar or of a commit leaves it behind.
SuspensionIsOwned == suspended => wpc \in Dance \/ struck

\* Whatever was evicted, swapped, trained or restarted, the resident set comes back again
\* and again, unless a timeout leaves the flag set.
ResidentsComeBack == []<>(Resident \subseteq loaded \/ struck)

\* "The reconcile loop must NOT re-pin during that window."
NotRepinned == [][wpc = "train" /\ rtodo' # rtodo => loaded' \subseteq loaded]_residencyVars

=============================================================================
