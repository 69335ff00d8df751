------------------------------- MODULE Media -------------------------------
(***************************************************************************)
(* The media pipeline: named styles and voices, which are resolved when a  *)
(* job is submitted; the routing rules of the media tasks, which the       *)
(* worker reads when it takes the job; its dispatch to image, video,       *)
(* audio, mux, speech or the text path; the chaining of one job's output   *)
(* into the next; and the daemons that make the media, whose memory is the *)
(* host's.                                                                 *)
(*                                                                         *)
(* How a job gets to the worker, is cancelled, replayed and metered is the *)
(* business of module JobLifecycle: here every job is taken once.          *)
(***************************************************************************)
EXTENDS Integers, FiniteSets

CONSTANTS
    Jobs,
    Tasks,       \* the task types that have a rule of a media_kind
    SceneImage,  \* the one of POST /image
    Speech,      \* "tts", the task type of POST /tts, which has no rule
    Task,        \* of each job
    Owner,       \* the client of each job
    Source,      \* what each job names as its source image, video and audio
    Url,         \* a source that is no job, and has to be downloaded
    Styled,      \* the jobs that ask for the style or voice by its name
    Literal,     \* the installed voice file that has this very name, if there is one
    Clients,
    Shared,      \* the scope of an alias that every client sees: client_id IS NULL
    Looks,       \* workflow templates with their parameters, and voice files
    Films,       \* the templates that make a video, with the large model
    Animated,    \* the templates that take a source image
    Default,     \* the voice of the settings
    FirstRules,  \* the rules as they were seeded
    AliasPuts,   \* bound: the scopes and looks of the PUTs of an alias
    RulePuts,    \* bound: the task types, kinds and looks of the PUTs of a rule
    None,
    MaxFaults,   \* bound: how often a daemon or the worker fails
    MaxEdits,    \* bound: how often an administrator edits an alias or a rule
    Loads        \* bound: which jobs are made, with how many failures and edits

RuleKinds == {"image", "video", "audio", "mux", "text"}
Kinds  == RuleKinds \cup {"tts"}
Roles  == {"image", "video", "audio"}
Scopes == Clients \cup {Shared}
Alias  == [look : Looks, archived : BOOLEAN]
Rule   == [kind : RuleKinds, look : Looks, archived : BOOLEAN]

ASSUME MediaAssumption ==
    /\ SceneImage \in Tasks
    /\ Speech \notin Tasks
    /\ Task \in [Jobs -> Tasks \cup {Speech}]
    /\ Owner \in [Jobs -> Clients]
    /\ Source \in [Jobs -> [Roles -> Jobs \cup {Url, None}]]
    /\ Url \notin Jobs
    /\ Styled \subseteq {j \in Jobs : Task[j] \in {SceneImage, Speech}}
    /\ Literal \in Looks \cup {None}
    /\ Shared \notin Clients
    /\ Films \subseteq Looks
    /\ Animated \subseteq Looks
    /\ Default \in Looks
    /\ FirstRules \in [Tasks -> Rule]
    /\ AliasPuts \subseteq Scopes \X Looks
    /\ RulePuts \subseteq Tasks \X RuleKinds \X Looks
    /\ None \notin Looks \cup Jobs \cup Alias \cup Kinds
    /\ MaxFaults \in Nat
    /\ MaxEdits \in Nat

ASSUME LoadsAssumption ==
    Loads \subseteq [jobs : SUBSET Jobs, faults : 0 .. MaxFaults, edits : 0 .. MaxEdits]

VARIABLES
    aliases,  \* the row of each scope for the one name, or None
    rules,    \* media_kind and preferred_model of each task type
    status,   \* of each job, "absent" before it and "refused" if it is never made
    stamped,  \* style_resolved, or the voice in model_requested
    ran,      \* the look it was dispatched with, if it was to a maker of looks
    url,      \* the jobs whose media_url is set
    file,     \* the output of each job on the shared volume
    copy,     \* the jobs whose downloaded sources are on the volume
    pc, cur,  \* the worker: where it stands, the job it has,
    kind,     \* and the kind it was dispatched as
    comfy,    \* the prompt of each job at ComfyUI, "freed" once its models were unloaded
    wan,      \* ComfyUI holds the video model
    ace,      \* ACE-Step has its models
    known,    \* _initialized: the provider believes so
    faults, edits,
    kept      \* history: a video run went wrong before or while the model was unloaded

adminVars  == <<aliases, rules, edits>>
jobVars    == <<status, stamped, ran, url>>
diskVars   == <<file, copy>>
workerVars == <<pc, cur, kind>>
daemonVars == <<comfy, wan, ace, known>>
vars == <<adminVars, jobVars, diskVars, workerVars, daemonVars, faults, kept>>

\* The jobs whose output a job takes by its id, source_image_job_id and the like.
Upstream(j) == {Source[j][r] : r \in Roles} \cap Jobs

\* The jobs with a source to download for ffmpeg.
Linked == {j \in Jobs : Url \in {Source[j]["video"], Source[j]["audio"]}}

TypeOK ==
    /\ aliases \in [Scopes -> Alias \cup {None}]
    /\ rules \in [Tasks -> Rule]
    /\ status \in [Jobs -> {"absent", "refused", "pending", "running", "complete", "failed"}]
    /\ stamped \in [Jobs -> Looks \cup {None}]
    /\ ran \in [Jobs -> Looks \cup {None}]
    /\ url \subseteq {j \in Jobs : status[j] = "complete" /\ Task[j] # Speech}
    /\ file \in [Jobs -> {"none", "part", "whole"}]
    /\ copy \subseteq Linked
    /\ pc \in {"idle", "begin", "text", "inputs", "stage", "poll", "fetch", "free", "init", "chat",
               "mux", "clean", "synth", "write", "commit", "fail"}
    /\ cur \in Jobs \cup {None}
    /\ kind \in Kinds \cup {None}
    /\ pc = "idle" <=> cur = None
    /\ pc = "idle" <=> kind = None
    /\ comfy \in [Jobs -> {"none", "running", "done", "error", "freed"}]
    /\ wan \in BOOLEAN /\ ace \in BOOLEAN /\ known \in BOOLEAN /\ kept \in BOOLEAN
    /\ faults \in 0 .. MaxFaults
    /\ edits \in 0 .. MaxEdits

Init ==
    /\ aliases = [s \in Scopes |-> None]
    /\ rules = FirstRules
    /\ \E load \in Loads :
          /\ status = [j \in Jobs |-> IF j \in load.jobs THEN "absent" ELSE "refused"]
          /\ faults = load.faults
          /\ edits = load.edits
    /\ stamped = [j \in Jobs |-> None]
    /\ ran = [j \in Jobs |-> None]
    /\ url = {}
    /\ file = [j \in Jobs |-> "none"]
    /\ copy = {}
    /\ pc = "idle"
    /\ cur = None
    /\ kind = None
    /\ comfy = [j \in Jobs |-> "none"]
    /\ wan = FALSE
    /\ known \in BOOLEAN
    /\ ace = known      \* the worker may have made audio before
    /\ kept = FALSE

Suffer ==
    /\ faults > 0
    /\ faults' = faults - 1

GoTo(q) == pc' = q /\ UNCHANGED <<cur, kind>>

LetGo == pc' = "idle" /\ cur' = None /\ kind' = None

\* The worker's job has had ComfyUI load the large model, or will have, and did not unload it.
Abandoned == ran[cur] \in Films /\ comfy[cur] \notin {"none", "freed"}

-----------------------------------------------------------------------------
(* The registries of styles and voices, and the rules.                                    *)

Edit == edits > 0 /\ edits' = edits - 1

\* A PUT makes the row or changes and revives it.
PutAlias(s, l) ==
    /\ Edit
    /\ <<s, l>> \in AliasPuts
    /\ aliases' = [aliases EXCEPT ![s] = [look |-> l, archived |-> FALSE]]
    /\ UNCHANGED <<rules, jobVars, diskVars, workerVars, daemonVars, faults, kept>>

ArchiveAlias(s) ==
    /\ Edit
    /\ aliases[s] # None
    /\ aliases' = [aliases EXCEPT ![s] = [look |-> @.look, archived |-> TRUE]]
    /\ UNCHANGED <<rules, jobVars, diskVars, workerVars, daemonVars, faults, kept>>

\* A PUT makes the row or changes and revives it.
PutRule(t, k, l) ==
    /\ Edit
    /\ <<t, k, l>> \in RulePuts
    /\ rules' = [rules EXCEPT ![t] = [kind |-> k, look |-> l, archived |-> FALSE]]
    /\ UNCHANGED <<aliases, jobVars, diskVars, workerVars, daemonVars, faults, kept>>

ArchiveRule(t) ==
    /\ Edit
    /\ rules' = [rules EXCEPT ![t] = [kind |-> @.kind, look |-> @.look, archived |-> TRUE]]
    /\ UNCHANGED <<aliases, jobVars, diskVars, workerVars, daemonVars, faults, kept>>

-----------------------------------------------------------------------------
(* Submission. *)

Live(s) == aliases[s] # None /\ ~aliases[s].archived

\* visible_styles, visible_voices: the override of a client hides the shared alias.
Visible(c) == IF Live(c) THEN aliases[c].look
              ELSE IF Live(Shared) THEN aliases[Shared].look ELSE None

\* resolve_style, resolve_voice: a voice may also be asked for by the name of its file.
Resolved(j) ==
    IF Visible(Owner[j]) # None THEN Visible(Owner[j])
    ELSE IF Task[j] = Speech THEN Literal ELSE None

\* What the worker would take the job for: a rule that is archived is no rule, and a task
\* without a rule goes down the text path.
DispatchedKind(j) ==
    IF Task[j] = Speech THEN "tts"
    ELSE IF rules[Task[j]].archived THEN "text" ELSE rules[Task[j]].kind

\* POST /image and /tts: a name that is not known is refused; no style is the rule's
\* business, and no voice is the default one.
SubmitNamed(j) ==
    LET look == IF j \in Styled THEN Resolved(j) ELSE Default IN
    /\ j \in Styled \/ Task[j] = Speech
    /\ status[j] = "absent"
    /\ status' = [status EXCEPT ![j] = IF look = None THEN "refused" ELSE "pending"]
    /\ stamped' = [stamped EXCEPT ![j] = look]
    /\ UNCHANGED <<adminVars, ran, url, diskVars, workerVars, daemonVars, faults, kept>>

\* POST /image without a style, POST /jobs, conduct_create_job: a job of a media rule waits
\* for the worker, one of any other may also be refused, or be run at once as text.
Submit(j) ==
    /\ j \notin Styled /\ Task[j] # Speech
    /\ status[j] = "absent"
    /\ \E s \in {"pending"} \cup
                (IF DispatchedKind(j) = "text" THEN {"refused", "complete", "failed"} ELSE {}) :
          status' = [status EXCEPT ![j] = s]
    /\ UNCHANGED <<adminVars, stamped, ran, url, diskVars, workerVars, daemonVars, faults, kept>>

-----------------------------------------------------------------------------
(* Dispatch. *)

\* The makers of what has a look: Piper and ComfyUI, but not ACE-Step, ffmpeg and the text path.
Lookers == {"tts", "image", "video"}

\* Mutant: the worker looks the style up again.
DispatchedLookNow(j) ==
    IF DispatchedKind(j) \notin Lookers THEN None
    ELSE IF j \in Styled /\ Visible(Owner[j]) # None THEN Visible(Owner[j])
    ELSE IF DispatchedKind(j) = "tts" THEN Default ELSE rules[Task[j]].look

\* The voice, or the template with its parameters: what was stamped beats the rule.
DispatchedLook(j) ==
    IF DispatchedKind(j) \notin Lookers THEN None
    ELSE IF stamped[j] # None THEN stamped[j]
    ELSE IF DispatchedKind(j) = "tts" THEN Default ELSE rules[Task[j]].look

Take(j) ==
    /\ pc = "idle"
    /\ status[j] = "pending"
    /\ cur' = j
    /\ pc' = "begin"
    /\ kind' = DispatchedKind(j)
    /\ ran' = [ran EXCEPT ![j] = DispatchedLook(j)]
    /\ UNCHANGED <<adminVars, status, stamped, url, diskVars, daemonVars, faults, kept>>

Begin ==
    /\ pc = "begin"
    /\ status' = [status EXCEPT ![cur] = "running"]
    /\ GoTo(IF kind = "tts" THEN "synth" ELSE IF kind = "text" THEN "text" ELSE "inputs")
    /\ UNCHANGED <<adminVars, stamped, ran, url, diskVars, daemonVars, faults, kept>>

\* A text job like any other (module JobLifecycle): it ends either way, without a media_url.
TextPath ==
    /\ pc = "text"
    /\ \E s \in {"complete", "failed"} : status' = [status EXCEPT ![cur] = s]
    /\ LetGo
    /\ UNCHANGED <<adminVars, stamped, ran, url, diskVars, daemonVars, faults, kept>>

\* _resolve_media_input_refs, for every kind: a source without a media_url ends the job.
Inputs ==
    /\ pc = "inputs"
    /\ GoTo(IF ~(Upstream(cur) \subseteq url) THEN "fail"
            ELSE CASE kind \in {"image", "video"} -> "stage"
                   [] kind = "audio" -> "init"
                   [] kind = "mux" -> "mux")
    /\ UNCHANGED <<adminVars, jobVars, diskVars, daemonVars, faults, kept>>

\* Mutant: speech has a media_url too.
CommitUrl ==
    /\ pc = "commit"
    /\ status' = [status EXCEPT ![cur] = "complete"]
    /\ url' = url \cup {cur}
    /\ LetGo
    /\ UNCHANGED <<adminVars, stamped, ran, diskVars, daemonVars, faults, kept>>

\* The media_url of execute_media_job; execute_tts puts the URL into the response.
Commit ==
    /\ pc = "commit"
    /\ status' = [status EXCEPT ![cur] = "complete"]
    /\ url' = IF kind = "tts" THEN url ELSE url \cup {cur}
    /\ LetGo
    /\ UNCHANGED <<adminVars, stamped, ran, diskVars, daemonVars, faults, kept>>

\* Whatever produce() raises becomes the error of the row.
Fail ==
    /\ pc = "fail"
    /\ status' = [status EXCEPT ![cur] = "failed"]
    /\ kept' = (kept \/ Abandoned)
    /\ LetGo
    /\ UNCHANGED <<adminVars, stamped, ran, url, diskVars, daemonVars, faults>>

-----------------------------------------------------------------------------
(* ComfyUI makes images and videos; the provider stages the source, posts the workflow,   *)
(* polls and fetches.                                                                     *)

\* A source of the job is given, and the file is there if it is another job's output.
AtHand(r) == Source[cur][r] # None /\ (Source[cur][r] \in Jobs => file[Source[cur][r]] # "none")

\* _stage_inputs, _enqueue: ComfyUI may have taken a prompt whose reply is lost.
Stage ==
    /\ pc = "stage"
    /\ IF ran[cur] \in Animated /\ ~AtHand("image")
       THEN GoTo("fail") /\ UNCHANGED <<comfy, faults>>
       ELSE \/ GoTo("poll") /\ comfy' = [comfy EXCEPT ![cur] = "running"] /\ UNCHANGED faults
            \/ /\ GoTo("fail") /\ Suffer
               /\ \E c \in {"none", "running"} : comfy' = [comfy EXCEPT ![cur] = c]
    /\ UNCHANGED <<adminVars, jobVars, diskVars, wan, ace, known, kept>>

\* The daemon runs the prompts it was given, also those that nobody waits for any more.
ComfyRuns(j) ==
    /\ comfy[j] = "running"
    /\ wan' = (wan \/ ran[j] \in Films)
    /\ \/ comfy' = [comfy EXCEPT ![j] = "done"] /\ UNCHANGED faults
       \/ comfy' = [comfy EXCEPT ![j] = "error"] /\ Suffer
    /\ UNCHANGED <<adminVars, jobVars, diskVars, workerVars, ace, known, kept>>

\* _terminal_state: outputs or an error end the polling.  An error of GET /history or the
\* deadline also does, whatever has become of the prompt.
Poll ==
    /\ pc = "poll"
    /\ \/ comfy[cur] = "done" /\ GoTo("fetch") /\ UNCHANGED faults
       \/ comfy[cur] = "error" /\ GoTo("fail") /\ UNCHANGED faults
       \/ GoTo("fail") /\ Suffer
    /\ UNCHANGED <<adminVars, jobVars, diskVars, daemonVars, kept>>

\* No outputs or an error of GET /view fail the job.  Only what is a video is unloaded.
Fetch ==
    /\ pc = "fetch"
    /\ \/ GoTo(IF ran[cur] \in Films THEN "free" ELSE "write") /\ UNCHANGED faults
       \/ GoTo("fail") /\ Suffer
    /\ UNCHANGED <<adminVars, jobVars, diskVars, daemonVars, kept>>

\* Mutant: nobody posts /free.
FreeModelsNot ==
    /\ pc = "free"
    /\ GoTo("write")
    /\ UNCHANGED <<adminVars, jobVars, diskVars, daemonVars, faults, kept>>

\* Best effort: the job goes on if the daemon does not unload.
FreeModels ==
    /\ pc = "free"
    /\ GoTo("write")
    /\ \/ wan' = FALSE /\ comfy' = [comfy EXCEPT ![cur] = "freed"] /\ UNCHANGED <<faults, kept>>
       \/ Suffer /\ kept' = TRUE /\ UNCHANGED <<wan, comfy>>
    /\ UNCHANGED <<adminVars, jobVars, diskVars, ace, known>>

\* write_bytes, of ComfyUI's and of ACE-Step's media.
Write ==
    /\ pc = "write"
    /\ \/ file' = [file EXCEPT ![cur] = "whole"] /\ GoTo("commit") /\ UNCHANGED faults
       \/ \E f \in {"none", "part"} : file' = [file EXCEPT ![cur] = f] /\ GoTo("fail") /\ Suffer
    /\ UNCHANGED <<adminVars, jobVars, copy, daemonVars, kept>>

-----------------------------------------------------------------------------
(* ACE-Step makes audio once its models are loaded. *)

\* _ensure_initialized: the flag of the provider, /health, /v1/init, which may have done its
\* work when it fails.
EnsureInitialized ==
    /\ pc = "init"
    /\ \/ known /\ GoTo("chat") /\ UNCHANGED <<ace, known, faults>>
       \/ ~known /\ ace' = TRUE /\ known' = TRUE /\ GoTo("chat") /\ UNCHANGED faults
       \/ ~known /\ ace' \in {ace, TRUE} /\ Suffer /\ GoTo("fail") /\ UNCHANGED known
    /\ UNCHANGED <<adminVars, jobVars, diskVars, comfy, wan, kept>>

\* A daemon without its models answers with an error.
Chat ==
    /\ pc = "chat"
    /\ \/ ace /\ GoTo("write") /\ UNCHANGED faults
       \/ ~ace /\ GoTo("fail") /\ UNCHANGED faults
       \/ ace /\ Suffer /\ GoTo("fail")
    /\ UNCHANGED <<adminVars, jobVars, diskVars, daemonVars, kept>>

AceRestart ==
    /\ ace
    /\ Suffer
    /\ ace' = FALSE
    /\ UNCHANGED <<adminVars, jobVars, diskVars, workerVars, comfy, wan, known, kept>>

-----------------------------------------------------------------------------
(* ffmpeg joins a video and an audio track, Piper and ffmpeg make speech. *)

Downloads == Linked \cap {cur}

\* Both sources have to be given.  Those that are URLs are downloaded next to the output; if
\* a download or ffmpeg fails, what is there stays.
Mux ==
    /\ pc = "mux"
    /\ IF None \in {Source[cur]["video"], Source[cur]["audio"]}
       THEN GoTo("fail") /\ UNCHANGED <<file, copy, faults>>
       ELSE \/ /\ AtHand("video") /\ AtHand("audio")
               /\ file' = [file EXCEPT ![cur] = "whole"]
               /\ copy' = copy \cup Downloads
               /\ GoTo("clean") /\ UNCHANGED faults
            \/ /\ IF AtHand("video") /\ AtHand("audio") THEN Suffer ELSE UNCHANGED faults
               /\ \E f \in {"none", "part"} : file' = [file EXCEPT ![cur] = f]
               /\ copy' \in {copy, copy \cup Downloads}
               /\ GoTo("fail")
    /\ UNCHANGED <<adminVars, jobVars, daemonVars, kept>>

\* Mutant: every source of the mux is removed, and not only what was downloaded for it.
CleanUpAll ==
    /\ pc = "clean"
    /\ copy' = copy \ {cur}
    /\ file' = [j \in Jobs |-> IF j \in Upstream(cur) THEN "none" ELSE file[j]]
    /\ GoTo("commit")
    /\ UNCHANGED <<adminVars, jobVars, daemonVars, faults, kept>>

CleanUp ==
    /\ pc = "clean"
    /\ copy' = copy \ {cur}
    /\ GoTo("commit")
    /\ UNCHANGED <<adminVars, jobVars, file, daemonVars, faults, kept>>

Synthesize ==
    /\ pc = "synth"
    /\ \/ file' = [file EXCEPT ![cur] = "whole"] /\ GoTo("commit") /\ UNCHANGED faults
       \/ \E f \in {"none", "part"} : file' = [file EXCEPT ![cur] = f] /\ GoTo("fail") /\ Suffer
    /\ UNCHANGED <<adminVars, jobVars, copy, daemonVars, kept>>

-----------------------------------------------------------------------------
(* The worker dies or RQ's alarm goes off: the row stays as it is, and what was being     *)
(* written is cut short.  A new process knows nothing of the daemons.                     *)

WorkerStops ==
    /\ pc # "idle"
    /\ Suffer
    /\ \E f \in {file[cur]} \cup (IF pc \in {"write", "mux", "synth"} THEN {"part"} ELSE {}) :
          file' = [file EXCEPT ![cur] = f]
    /\ copy' \in {copy} \cup (IF pc = "mux" THEN {copy \cup Downloads} ELSE {})
    /\ ace' \in {ace} \cup (IF pc = "init" THEN {TRUE} ELSE {})
    /\ known' \in {known, FALSE}
    /\ kept' = (kept \/ Abandoned)
    /\ LetGo
    /\ UNCHANGED <<adminVars, jobVars, comfy, wan>>

-----------------------------------------------------------------------------

Work ==
    \/ Begin \/ TextPath \/ Inputs \/ Commit \/ Fail
    \/ Stage \/ Poll \/ Fetch \/ FreeModels \/ Write
    \/ EnsureInitialized \/ Chat
    \/ Mux \/ CleanUp \/ Synthesize

Next ==
    \/ \E s \in Scopes : ArchiveAlias(s) \/ \E l \in Looks : PutAlias(s, l)
    \/ \E t \in Tasks : ArchiveRule(t) \/ \E k \in RuleKinds, l \in Looks : PutRule(t, k, l)
    \/ \E j \in Jobs : SubmitNamed(j) \/ Submit(j) \/ Take(j) \/ ComfyRuns(j)
    \/ Work
    \/ AceRestart \/ WorkerStops

Spec == Init /\ [][Next]_vars

-----------------------------------------------------------------------------
(* What holds of the jobs and the host. *)

\* A media_url names a file that is whole and stays: no crash, failing mux or clean-up of
\* a later job leaves a completed job without its output, and so a chained job reads only
\* finished media.
UrlNamesFile == \A j \in url : file[j] = "whole"

\* "so the job traces to the exact workflow + params it ran, even if the alias is edited
\* later": the style or voice of the submission is what runs, whatever is edited meanwhile.
RanAsSubmitted == \A j \in Styled : ran[j] # None => ran[j] = stamped[j]

\* The video model is out of memory when audio is generated, unless some video run failed,
\* was interrupted or could not unload it.
RoomForAudio == pc = "chat" /\ wan => kept

=============================================================================
