--------------------------- MODULE Machine_proofs ---------------------------
(***************************************************************************)
(* Proofs about what the worker's machine holds: the files of Media, for   *)
(* any jobs, sources, rules and aliases, and any number of edits and       *)
(* failures; and the models in memory of Residency, for any resident set,  *)
(* any other models and any number of faults of each kind.                 *)
(***************************************************************************)
EXTENDS Media, Residency, TLAPS

-----------------------------------------------------------------------------
(* Media. *)

LEMMA InitTyped == Init => TypeOK
<1> SUFFICES ASSUME Init PROVE TypeOK
  OBVIOUS
<1>1. wan \in BOOLEAN /\ ace \in BOOLEAN /\ known \in BOOLEAN /\ kept \in BOOLEAN
  BY Zenon DEF Init
<1> QED
  BY <1>1, MediaAssumption, LoadsAssumption DEF Init, TypeOK, Alias

\* What a scope shows is a look or nothing.
LEMMA VisibleTyped ==
  ASSUME TypeOK, NEW c \in Clients
  PROVE  Visible(c) \in Looks \cup {None}
<1>1. ASSUME NEW s \in Scopes, Live(s) PROVE aliases[s].look \in Looks
  BY <1>1, MediaAssumption DEF TypeOK, Alias, Live
<1>2. c \in Scopes /\ Shared \in Scopes
  BY DEF Scopes
<1> QED
  BY <1>1, <1>2 DEF Visible

LEMMA ResolvedTyped ==
  ASSUME TypeOK, NEW j \in Jobs
  PROVE  Resolved(j) \in Looks \cup {None}
BY VisibleTyped, MediaAssumption DEF Resolved

\* What the worker makes of a job is one of the kinds; it is speech for no rule.
LEMMA DispatchTyped ==
  ASSUME TypeOK, NEW j \in Jobs
  PROVE  /\ DispatchedKind(j) \in Kinds
         /\ DispatchedKind(j) = "tts" <=> Task[j] = Speech
         /\ DispatchedLook(j) \in Looks \cup {None}
<1>1. Task[j] # Speech => rules[Task[j]] \in Rule
  BY MediaAssumption DEF TypeOK
<1>2. DispatchedKind(j) \in Kinds /\ (DispatchedKind(j) = "tts" <=> Task[j] = Speech)
  BY <1>1 DEF DispatchedKind, Kinds, RuleKinds, Rule
<1> QED
  BY <1>1, <1>2, MediaAssumption DEF DispatchedLook, Rule, TypeOK, Lookers

\* The row of the worker's job says what the worker does; only a job of POST /tts is spoken,
\* and neither it nor a text has inputs to resolve; and what is about to be committed is on
\* the disk.
Working ==
    /\ pc # "idle" => /\ status[cur] = IF pc = "begin" THEN "pending" ELSE "running"
                      /\ kind = "tts" <=> Task[cur] = Speech
    /\ pc = "inputs" => kind \notin {"tts", "text"}
    /\ pc \in {"clean", "commit"} => file[cur] = "whole"

LEMMA StepTyped == TypeOK /\ Working /\ [Next]_vars => TypeOK'
<1> SUFFICES ASSUME TypeOK, Working, [Next]_vars PROVE TypeOK'
  OBVIOUS
<1> USE MediaAssumption DEF TypeOK, Working, Alias, Rule, Kinds, RuleKinds, Scopes,
        adminVars, jobVars, diskVars, workerVars, daemonVars
<1>1. ASSUME NEW s \in Scopes, ArchiveAlias(s) PROVE TypeOK'
  BY <1>1 DEF ArchiveAlias, Edit
<1>2. ASSUME NEW s \in Scopes, NEW l \in Looks, PutAlias(s, l) PROVE TypeOK'
  BY <1>2 DEF PutAlias, Edit
<1>3. ASSUME NEW t \in Tasks, NEW k \in RuleKinds, NEW l \in Looks, PutRule(t, k, l) PROVE TypeOK'
  BY <1>3 DEF PutRule, Edit
<1>4. ASSUME NEW t \in Tasks, ArchiveRule(t) PROVE TypeOK'
  BY <1>4 DEF ArchiveRule, Edit
<1>5. ASSUME NEW j \in Jobs, SubmitNamed(j) PROVE TypeOK'
  BY <1>5, ResolvedTyped DEF SubmitNamed
<1>6. CASE TextPath
  BY <1>6 DEF TextPath, LetGo
<1>7. ASSUME NEW j \in Jobs, Submit(j) PROVE TypeOK'
  BY <1>7 DEF Submit
<1>8. ASSUME NEW j \in Jobs, Take(j) PROVE TypeOK'
  BY <1>8, DispatchTyped DEF Take
<1>9. ASSUME NEW j \in Jobs, ComfyRuns(j) PROVE TypeOK'
  BY <1>9 DEF ComfyRuns, Suffer
<1>10. CASE Begin
  BY <1>10 DEF Begin, GoTo
<1>11. CASE Inputs
  BY <1>11 DEF Inputs, GoTo
<1>12. CASE Commit
  BY <1>12 DEF Commit, LetGo
<1>13. CASE Fail
  <2>1. wan' \in BOOLEAN /\ ace' \in BOOLEAN /\ known' \in BOOLEAN /\ kept' \in BOOLEAN
    BY <1>13, Zenon DEF Fail
  <2> QED
    BY <1>13, <2>1 DEF Fail, LetGo
<1>14. CASE Stage
  <2>1. comfy' = comfy \/ \E c \in {"none", "running"} : comfy' = [comfy EXCEPT ![cur] = c]
    BY <1>14 DEF Stage
  <2>2. comfy' \in [Jobs -> {"none", "running", "done", "error", "freed"}]
    BY <2>1
  <2>3. /\ pc' \in {"poll", "fail"} /\ cur' = cur /\ kind' = kind /\ pc # "idle"
        /\ faults' = faults \/ Suffer
        /\ UNCHANGED <<adminVars, jobVars, diskVars, wan, ace, known, kept>>
    BY <1>14 DEF Stage, GoTo
  <2> QED
    BY <2>2, <2>3 DEF Suffer
<1>15. CASE Poll
  BY <1>15 DEF Poll, GoTo, Suffer
<1>16. CASE Fetch
  BY <1>16 DEF Fetch, GoTo, Suffer
<1>17. CASE FreeModels
  <2>1. wan' \in BOOLEAN /\ ace' \in BOOLEAN /\ known' \in BOOLEAN /\ kept' \in BOOLEAN
    BY <1>17, Zenon DEF FreeModels
  <2>2. /\ pc' = "write" /\ cur' = cur /\ kind' = kind /\ pc = "free"
        /\ comfy' = comfy \/ comfy' = [comfy EXCEPT ![cur] = "freed"]
        /\ faults' = faults \/ Suffer
        /\ UNCHANGED <<adminVars, jobVars, diskVars>>
    BY <1>17, Zenon DEF FreeModels, GoTo
  <2>3. comfy' \in [Jobs -> {"none", "running", "done", "error", "freed"}]
    BY <2>2
  <2>4. faults' \in 0 .. MaxFaults
    BY <2>2 DEF Suffer
  <2> QED
    BY <2>1, <2>2, <2>3, <2>4
<1>18. CASE Write
  <2>1. /\ \E f \in {"none", "part", "whole"} : file' = [file EXCEPT ![cur] = f]
        /\ pc' \in {"commit", "fail"} /\ cur' = cur /\ kind' = kind /\ pc = "write"
        /\ faults' = faults \/ Suffer
        /\ UNCHANGED <<adminVars, jobVars, copy, daemonVars, kept>>
    BY <1>18 DEF Write, GoTo
  <2>2. file' \in [Jobs -> {"none", "part", "whole"}]
    BY <2>1
  <2> QED
    BY <2>1, <2>2 DEF Suffer
<1>19. CASE EnsureInitialized
  <2>1. wan' \in BOOLEAN /\ ace' \in BOOLEAN /\ known' \in BOOLEAN /\ kept' \in BOOLEAN
    BY <1>19, Zenon DEF EnsureInitialized
  <2>2. /\ pc' \in {"chat", "fail"} /\ cur' = cur /\ kind' = kind /\ pc = "init"
        /\ faults' = faults \/ Suffer
        /\ UNCHANGED <<adminVars, jobVars, diskVars, comfy>>
    BY <1>19, Zenon DEF EnsureInitialized, GoTo
  <2> QED
    BY <2>1, <2>2 DEF Suffer
<1>20. CASE Chat
  BY <1>20 DEF Chat, GoTo, Suffer
<1>21. CASE Mux
  <2>1. /\ file' = file \/ \E f \in {"none", "part", "whole"} : file' = [file EXCEPT ![cur] = f]
        /\ copy' \in {copy, copy \cup Downloads}
        /\ pc' \in {"clean", "fail"} /\ cur' = cur /\ kind' = kind /\ pc = "mux"
        /\ faults' = faults \/ Suffer
        /\ UNCHANGED <<adminVars, jobVars, daemonVars, kept>>
    BY <1>21 DEF Mux, GoTo
  <2>2. file' \in [Jobs -> {"none", "part", "whole"}]
    BY <2>1
  <2>3. copy' \subseteq Linked
    BY <2>1 DEF Downloads
  <2> QED
    BY <2>1, <2>2, <2>3 DEF Suffer
<1>22. CASE CleanUp
  BY <1>22 DEF CleanUp, GoTo
<1>23. CASE Synthesize
  <2>1. /\ \E f \in {"none", "part", "whole"} : file' = [file EXCEPT ![cur] = f]
        /\ pc' \in {"commit", "fail"} /\ cur' = cur /\ kind' = kind /\ pc = "synth"
        /\ faults' = faults \/ Suffer
        /\ UNCHANGED <<adminVars, jobVars, copy, daemonVars, kept>>
    BY <1>23 DEF Synthesize, GoTo
  <2>2. file' \in [Jobs -> {"none", "part", "whole"}]
    BY <2>1
  <2> QED
    BY <2>1, <2>2 DEF Suffer
<1>24. CASE AceRestart
  <2>1. wan' \in BOOLEAN /\ ace' \in BOOLEAN /\ known' \in BOOLEAN /\ kept' \in BOOLEAN
    BY <1>24, Zenon DEF AceRestart
  <2> QED
    BY <1>24, <2>1 DEF AceRestart, Suffer
<1>25. CASE WorkerStops
  <2>1. wan' \in BOOLEAN /\ ace' \in BOOLEAN /\ known' \in BOOLEAN /\ kept' \in BOOLEAN
    BY <1>25, Zenon DEF WorkerStops
  <2>2. file' \in [Jobs -> {"none", "part", "whole"}]
    BY <1>25 DEF WorkerStops
  <2>3. copy' \subseteq Linked
    BY <1>25 DEF WorkerStops, Downloads
  <2> QED
    BY <1>25, <2>1, <2>2, <2>3 DEF WorkerStops, Suffer, LetGo
<1>26. CASE UNCHANGED vars
  BY <1>26 DEF vars
<1> HIDE MediaAssumption DEF TypeOK, Working, Alias, Rule, Kinds, RuleKinds, Scopes
<1> QED
  BY <1>1, <1>2, <1>3, <1>4, <1>5, <1>6, <1>7, <1>8, <1>9, <1>10,
     <1>11, <1>12, <1>13, <1>14, <1>15, <1>16, <1>17, <1>18, <1>19, <1>20,
     <1>21, <1>22, <1>23, <1>24, <1>25, <1>26 DEF Next, Work

LEMMA StepWorking == TypeOK /\ Working /\ [Next]_vars => Working'
<1> SUFFICES ASSUME TypeOK, Working, [Next]_vars PROVE Working'
  OBVIOUS
<1> USE MediaAssumption DEF TypeOK, Working, Kinds, RuleKinds,
        adminVars, jobVars, diskVars, workerVars, daemonVars
<1>1. ASSUME NEW s \in Scopes, ArchiveAlias(s) PROVE Working'
  BY <1>1 DEF ArchiveAlias, Edit
<1>2. ASSUME NEW s \in Scopes, NEW l \in Looks, PutAlias(s, l) PROVE Working'
  BY <1>2 DEF PutAlias, Edit
<1>3. ASSUME NEW t \in Tasks, NEW k \in RuleKinds, NEW l \in Looks, PutRule(t, k, l) PROVE Working'
  BY <1>3 DEF PutRule, Edit
<1>4. ASSUME NEW t \in Tasks, ArchiveRule(t) PROVE Working'
  BY <1>4 DEF ArchiveRule, Edit
<1>5. ASSUME NEW j \in Jobs, SubmitNamed(j) PROVE Working'
  BY <1>5 DEF SubmitNamed
<1>6. CASE TextPath
  BY <1>6 DEF TextPath, LetGo
<1>7. ASSUME NEW j \in Jobs, Submit(j) PROVE Working'
  BY <1>7 DEF Submit
<1>8. ASSUME NEW j \in Jobs, Take(j) PROVE Working'
  BY <1>8, DispatchTyped DEF Take
<1>9. ASSUME NEW j \in Jobs, ComfyRuns(j) PROVE Working'
  BY <1>9 DEF ComfyRuns, Suffer
<1>10. CASE Begin
  BY <1>10 DEF Begin, GoTo
<1>11. CASE Inputs
  BY <1>11 DEF Inputs, GoTo
<1>12. CASE Commit
  BY <1>12 DEF Commit, LetGo
<1>13. CASE Fail
  BY <1>13 DEF Fail, LetGo, Abandoned
<1>14. CASE Stage
  BY <1>14 DEF Stage, GoTo, Suffer
<1>15. CASE Poll
  BY <1>15 DEF Poll, GoTo, Suffer
<1>16. CASE Fetch
  BY <1>16 DEF Fetch, GoTo, Suffer
<1>17. CASE FreeModels
  BY <1>17 DEF FreeModels, GoTo, Suffer
<1>18. CASE Write
  BY <1>18 DEF Write, GoTo, Suffer
<1>19. CASE EnsureInitialized
  BY <1>19 DEF EnsureInitialized, GoTo, Suffer
<1>20. CASE Chat
  BY <1>20 DEF Chat, GoTo, Suffer
<1>21. CASE Mux
  BY <1>21 DEF Mux, GoTo, Suffer, Downloads, Linked
<1>22. CASE CleanUp
  BY <1>22 DEF CleanUp, GoTo
<1>23. CASE Synthesize
  BY <1>23 DEF Synthesize, GoTo, Suffer
<1>24. CASE AceRestart
  BY <1>24 DEF AceRestart, Suffer
<1>25. CASE WorkerStops
  BY <1>25 DEF WorkerStops, Suffer, LetGo, Abandoned, Downloads, Linked
<1>26. CASE UNCHANGED vars
  BY <1>26 DEF vars
<1> QED
  BY <1>1, <1>2, <1>3, <1>4, <1>5, <1>6, <1>7, <1>8, <1>9, <1>10,
     <1>11, <1>12, <1>13, <1>14, <1>15, <1>16, <1>17, <1>18, <1>19, <1>20,
     <1>21, <1>22, <1>23, <1>24, <1>25, <1>26 DEF Next, Work

LEMMA Works == Spec => [](TypeOK /\ Working)
<1>1. Init => Working
  BY DEF Init, Working
<1> QED
  BY <1>1, InitTyped, StepTyped, StepWorking, PTL DEF Spec

\* Every variable keeps its type; only finished media jobs have a media_url.
THEOREM TypeCorrect == Spec => []TypeOK
BY Works, PTL

\* execute_media_job: no crash of the worker, failing mux or clean-up of another job leaves a
\* media_url without its whole file.
THEOREM UrlsStayGood == Spec => []UrlNamesFile
<1>1. Init => UrlNamesFile
  BY DEF Init, UrlNamesFile
<1>2. UrlNamesFile /\ TypeOK /\ Working /\ [Next]_vars => UrlNamesFile'
  <2> SUFFICES ASSUME UrlNamesFile, TypeOK, Working, [Next]_vars PROVE UrlNamesFile'
    OBVIOUS
  <2>1. ASSUME pc # "idle" PROVE cur \notin url
    BY <2>1 DEF TypeOK, Working
  <2>2. CASE UNCHANGED <<url, file>>
    BY <2>2 DEF UrlNamesFile
  <2>3. CASE Commit
    BY <2>3 DEF Commit, LetGo, UrlNamesFile, Working, TypeOK, diskVars
  <2>4. ASSUME url' = url, pc # "idle", NEW f, file' = [file EXCEPT ![cur] = f] PROVE UrlNamesFile'
    BY <2>1, <2>4 DEF UrlNamesFile, TypeOK
  <2>5. CASE Write
    BY <2>4, <2>5 DEF Write, jobVars
  <2>6. CASE Mux
    <3>1. url' = url /\ pc # "idle"
      BY <2>6 DEF Mux, jobVars
    <3>2. file' = file \/ \E f \in {"none", "part", "whole"} : file' = [file EXCEPT ![cur] = f]
      BY <2>6 DEF Mux
    <3> QED
      BY <2>2, <2>4, <3>1, <3>2
  <2>7. CASE Synthesize
    BY <2>4, <2>7 DEF Synthesize, jobVars
  <2>8. CASE WorkerStops
    BY <2>4, <2>8 DEF WorkerStops, jobVars
  <2> QED
    BY <2>2, <2>3, <2>5, <2>6, <2>7, <2>8
    DEF Next, Work, ArchiveAlias, PutAlias, PutRule, ArchiveRule, SubmitNamed, Submit, Take,
        ComfyRuns, Begin, TextPath, Inputs, Fail,
        Stage, Poll, Fetch, FreeModels, EnsureInitialized, Chat, CleanUp, AceRestart,
        jobVars, diskVars, vars
<1> QED
  BY <1>1, <1>2, Works, PTL DEF Spec

\* A job that nobody submitted has run nothing, and one that was accepted with a style or a
\* voice has it stamped.
Stamped ==
    \A j \in Jobs :
        /\ status[j] = "absent" => ran[j] = None
        /\ j \in Styled /\ status[j] \notin {"absent", "refused"} => stamped[j] # None

\* _apply_style_override: the look of the submission runs, whatever is edited meanwhile.
THEOREM RunsWhatWasAsked == Spec => []RanAsSubmitted
<1>1. Init => Stamped /\ RanAsSubmitted
  BY MediaAssumption DEF Init, Stamped, RanAsSubmitted
<1>2. Stamped /\ RanAsSubmitted /\ TypeOK /\ Working /\ [Next]_vars => (Stamped /\ RanAsSubmitted)'
  <2> SUFFICES ASSUME Stamped, RanAsSubmitted, TypeOK, Working, [Next]_vars
               PROVE  (Stamped /\ RanAsSubmitted)'
    OBVIOUS
  <2>1. ASSUME NEW j \in Jobs, SubmitNamed(j) PROVE (Stamped /\ RanAsSubmitted)'
    BY <2>1, MediaAssumption DEF SubmitNamed, Stamped, RanAsSubmitted, TypeOK
  <2>6. ASSUME NEW j \in Jobs, Submit(j) PROVE (Stamped /\ RanAsSubmitted)'
    BY <2>6, MediaAssumption DEF Submit, Stamped, RanAsSubmitted, TypeOK
  <2>2. ASSUME NEW j \in Jobs, Take(j) PROVE (Stamped /\ RanAsSubmitted)'
    <3>1. j \in Styled => stamped[j] # None
      BY <2>2 DEF Take, Stamped
    <3>2. j \in Styled /\ DispatchedLook(j) # None => DispatchedLook(j) = stamped[j]
      BY <3>1 DEF DispatchedLook
    <3> QED
      BY <2>2, <3>2, MediaAssumption DEF Take, Stamped, RanAsSubmitted, TypeOK
  <2>3. ASSUME pc # "idle", UNCHANGED <<stamped, ran>>,
               NEW s \in {"running", "complete", "failed"}, status' = [status EXCEPT ![cur] = s]
        PROVE  (Stamped /\ RanAsSubmitted)'
    BY <2>3, MediaAssumption DEF Stamped, RanAsSubmitted, TypeOK, Working
  <2>4. CASE Begin \/ TextPath \/ Commit \/ Fail
    BY <2>3, <2>4 DEF Begin, TextPath, Commit, Fail
  <2>5. CASE UNCHANGED <<status, stamped, ran>>
    BY <2>5 DEF Stamped, RanAsSubmitted
  <2> QED
    BY <2>1, <2>2, <2>4, <2>5, <2>6
    DEF Next, Work, ArchiveAlias, PutAlias, PutRule, ArchiveRule, ComfyRuns, Inputs, Stage,
        Poll, Fetch,
        FreeModels, Write, EnsureInitialized, Chat, Mux, CleanUp, Synthesize, AceRestart,
        WorkerStops, jobVars, vars
<1> QED
  BY <1>1, <1>2, Works, PTL DEF Spec

\* A job that the worker has not begun has no prompt; and as long as no video run went wrong,
\* the worker waits for the one that uses the memory.
Attended ==
    /\ \A j \in Jobs : status[j] \in {"absent", "refused", "pending"} => comfy[j] = "none"
    /\ \A j \in Jobs : ran[j] \in Films /\ comfy[j] = "running"
                         => kept \/ (cur = j /\ pc \in {"poll", "fail"})
    /\ wan => kept \/ (Abandoned /\ pc \in {"poll", "fetch", "free", "fail"})

LEMMA StepAttended == Attended /\ TypeOK /\ Working /\ [Next]_vars => Attended'
<1> SUFFICES ASSUME Attended, TypeOK, Working, [Next]_vars PROVE Attended'
  OBVIOUS
<1> USE MediaAssumption DEF TypeOK, Working, Attended, Abandoned, Kinds, RuleKinds,
        adminVars, jobVars, diskVars, workerVars, daemonVars
<1>1. ASSUME NEW s \in Scopes, ArchiveAlias(s) PROVE Attended'
  BY <1>1 DEF ArchiveAlias, Edit
<1>2. ASSUME NEW s \in Scopes, NEW l \in Looks, PutAlias(s, l) PROVE Attended'
  BY <1>2 DEF PutAlias, Edit
<1>3. ASSUME NEW t \in Tasks, NEW k \in RuleKinds, NEW l \in Looks, PutRule(t, k, l) PROVE Attended'
  BY <1>3 DEF PutRule, Edit
<1>4. ASSUME NEW t \in Tasks, ArchiveRule(t) PROVE Attended'
  BY <1>4 DEF ArchiveRule, Edit
<1>5. ASSUME NEW j \in Jobs, SubmitNamed(j) PROVE Attended'
  BY <1>5 DEF SubmitNamed
<1>6. CASE TextPath
  BY <1>6 DEF TextPath, LetGo
<1>7. ASSUME NEW j \in Jobs, Submit(j) PROVE Attended'
  BY <1>7 DEF Submit
<1>8. ASSUME NEW j \in Jobs, Take(j) PROVE Attended'
  BY <1>8, DispatchTyped DEF Take
<1>9. ASSUME NEW j \in Jobs, ComfyRuns(j) PROVE Attended'
  BY <1>9 DEF ComfyRuns, Suffer
<1>10. CASE Begin
  BY <1>10 DEF Begin, GoTo
<1>11. CASE Inputs
  BY <1>11 DEF Inputs, GoTo
<1>12. CASE Commit
  BY <1>12 DEF Commit, LetGo
<1>13. CASE Fail
  BY <1>13 DEF Fail, LetGo, Abandoned
<1>14. CASE Stage
  BY <1>14 DEF Stage, GoTo, Suffer
<1>15. CASE Poll
  BY <1>15 DEF Poll, GoTo, Suffer
<1>16. CASE Fetch
  BY <1>16 DEF Fetch, GoTo, Suffer
<1>17. CASE FreeModels
  BY <1>17 DEF FreeModels, GoTo, Suffer
<1>18. CASE Write
  BY <1>18 DEF Write, GoTo, Suffer
<1>19. CASE EnsureInitialized
  BY <1>19 DEF EnsureInitialized, GoTo, Suffer
<1>20. CASE Chat
  BY <1>20 DEF Chat, GoTo, Suffer
<1>21. CASE Mux
  BY <1>21 DEF Mux, GoTo, Suffer, Downloads, Linked
<1>22. CASE CleanUp
  BY <1>22 DEF CleanUp, GoTo
<1>23. CASE Synthesize
  BY <1>23 DEF Synthesize, GoTo, Suffer
<1>24. CASE AceRestart
  BY <1>24 DEF AceRestart, Suffer
<1>25. CASE WorkerStops
  BY <1>25 DEF WorkerStops, Suffer, LetGo, Abandoned, Downloads, Linked
<1>26. CASE UNCHANGED vars
  BY <1>26 DEF vars
<1> QED
  BY <1>1, <1>2, <1>3, <1>4, <1>5, <1>6, <1>7, <1>8, <1>9, <1>10,
     <1>11, <1>12, <1>13, <1>14, <1>15, <1>16, <1>17, <1>18, <1>19, <1>20,
     <1>21, <1>22, <1>23, <1>24, <1>25, <1>26 DEF Next, Work

\* _free_models: audio finds the video model gone, unless a video run failed, was interrupted
\* or could not unload it.
THEOREM AudioHasRoom == Spec => []RoomForAudio
<1>1. Init => Attended
  BY DEF Init, Attended
<1>2. Attended => RoomForAudio
  BY DEF Attended, RoomForAudio
<1> QED
  BY <1>1, <1>2, StepAttended, Works, PTL DEF Spec

-----------------------------------------------------------------------------
(* Residency. *)

LEMMA ResidencyInitTyped == ResidencyInit => ResidencyTypeOK
BY ResidencyAssumption DEF ResidencyInit, ResidencyTypeOK, Models, Dance

LEMMA ResidencyStepTyped == ResidencyTypeOK /\ [ResidencyNext]_residencyVars => ResidencyTypeOK'
<1> SUFFICES ASSUME ResidencyTypeOK, [ResidencyNext]_residencyVars PROVE ResidencyTypeOK'
  OBVIOUS
<1> USE ResidencyAssumption DEF ResidencyTypeOK, Models, Dance, Faults, workVars, recVars
<1>1. ASSUME NEW m \in Models, PinOne(m) PROVE ResidencyTypeOK'
  BY <1>1 DEF PinOne, Load, Incur
<1>2. ASSUME NEW m \in Models, UnloadOne(m) PROVE ResidencyTypeOK'
  BY <1>2 DEF UnloadOne, Incur
<1>3. ASSUME NEW m \in Models, EndSwap(m) PROVE ResidencyTypeOK'
  BY <1>3 DEF EndSwap, Load, Incur
<1>4. ASSUME NEW m \in Models, StartSwap(m) PROVE ResidencyTypeOK'
  BY <1>4 DEF StartSwap, Incur
<1>5. ASSUME NEW m \in Resident, RepinOne(m) PROVE ResidencyTypeOK'
  BY <1>5 DEF RepinOne, Load, Incur
<1>6. ASSUME NEW m \in Models, InlineCall(m) PROVE ResidencyTypeOK'
  BY <1>6 DEF InlineCall
<1>7. ASSUME NEW m \in Models, Evict(m) PROVE ResidencyTypeOK'
  BY <1>7 DEF Evict, Incur
<1>8. ASSUME NEW m \in Models, KeepAliveEnds(m) PROVE ResidencyTypeOK'
  BY <1>8 DEF KeepAliveEnds
<1>9. CASE Booted
  BY <1>9 DEF Booted
<1>10. CASE Suspend
  <2>1. overlap' = (rpc = "list" \/ rpc = "load")
    BY <1>10 DEF Suspend
  <2>2. overlap' \in BOOLEAN
    BY <2>1, Zenon
  <2> QED
    BY <1>10, <2>2 DEF Suspend
<1>11. CASE PostTraining
  BY <1>11 DEF PostTraining
<1>12. CASE EndTraining
  BY <1>12 DEF EndTraining, ToPin
<1>13. CASE LoseTraining
  BY <1>13 DEF LoseTraining, ToPin, Incur
<1>14. CASE Resume
  BY <1>14 DEF Resume
<1>15. CASE Timeout
  <2>1. alarmed' \in BOOLEAN /\ struck' \in BOOLEAN
    BY <1>15, Zenon DEF Timeout, ToPin
  <2> QED
    BY <1>15, <2>1 DEF Timeout, ToPin, Incur
<1>16. CASE Crash
  <2>1. suspended' \in BOOLEAN /\ alarmed' \in BOOLEAN /\ overlap' \in BOOLEAN /\ struck' \in BOOLEAN
    BY <1>16, Zenon DEF Crash
  <2>2. budget' \in [Faults -> Nat]
    BY <1>16 DEF Crash, Incur
  <2>3. /\ wpc' = "boot" /\ wtodo' = Resident /\ rpc' = "off" /\ rtodo' = {}
        /\ UNCHANGED <<loaded, training, excused>>
    BY <1>16 DEF Crash
  <2> QED
    BY <2>1, <2>2, <2>3
<1>17. CASE Tick
  BY <1>17 DEF Tick
<1>18. CASE ListLoaded
  BY <1>18 DEF ListLoaded, Incur
<1>19. CASE SidecarEnds
  BY <1>19 DEF SidecarEnds
<1>20. CASE UNCHANGED residencyVars
  BY <1>20 DEF residencyVars
<1> QED
  BY <1>1, <1>2, <1>3, <1>4, <1>5, <1>6, <1>7, <1>8, <1>9, <1>10,
     <1>11, <1>12, <1>13, <1>14, <1>15, <1>16, <1>17, <1>18, <1>19, <1>20
  DEF ResidencyNext, GoOn, Reconcile

\* Every variable keeps its type, and only a swap goes beyond the resident set.
THEOREM ResidencyTypeCorrect == ResidencySpec => []ResidencyTypeOK
BY ResidencyInitTyped, ResidencyStepTyped, PTL DEF ResidencySpec

\* A process that boots has no flag yet.
Flag == SuspensionIsOwned /\ (wpc = "boot" => ~suspended)

LEMMA StepFlag == ResidencyTypeOK /\ Flag /\ [ResidencyNext]_residencyVars => Flag'
<1> SUFFICES ASSUME ResidencyTypeOK, Flag, [ResidencyNext]_residencyVars PROVE Flag'
  OBVIOUS
<1> USE DEF ResidencyTypeOK, Flag, SuspensionIsOwned, Dance, workVars, recVars
<1>1. ASSUME NEW m \in Models, PinOne(m) PROVE Flag'
  BY <1>1 DEF PinOne, Load, Incur
<1>2. ASSUME NEW m \in Models, UnloadOne(m) PROVE Flag'
  BY <1>2 DEF UnloadOne, Incur
<1>3. ASSUME NEW m \in Models, EndSwap(m) PROVE Flag'
  BY <1>3 DEF EndSwap, Load, Incur
<1>4. ASSUME NEW m \in Models, StartSwap(m) PROVE Flag'
  BY <1>4 DEF StartSwap, Incur
<1>5. ASSUME NEW m \in Resident, RepinOne(m) PROVE Flag'
  BY <1>5 DEF RepinOne, Load, Incur
<1>6. ASSUME NEW m \in Models, InlineCall(m) PROVE Flag'
  BY <1>6 DEF InlineCall
<1>7. ASSUME NEW m \in Models, Evict(m) PROVE Flag'
  BY <1>7 DEF Evict, Incur
<1>8. ASSUME NEW m \in Models, KeepAliveEnds(m) PROVE Flag'
  BY <1>8 DEF KeepAliveEnds
<1>9. CASE Booted
  BY <1>9 DEF Booted
<1>10. CASE Suspend
  BY <1>10 DEF Suspend
<1>11. CASE PostTraining
  BY <1>11 DEF PostTraining
<1>12. CASE EndTraining
  BY <1>12 DEF EndTraining, ToPin
<1>13. CASE LoseTraining
  BY <1>13 DEF LoseTraining, ToPin, Incur
<1>14. CASE Resume
  BY <1>14 DEF Resume
<1>15. CASE Timeout
  BY <1>15 DEF Timeout, ToPin, Incur
<1>16. CASE Crash
  BY <1>16 DEF Crash, Incur
<1>17. CASE Tick
  BY <1>17 DEF Tick
<1>18. CASE ListLoaded
  BY <1>18 DEF ListLoaded, Incur
<1>19. CASE SidecarEnds
  BY <1>19 DEF SidecarEnds
<1>20. CASE UNCHANGED residencyVars
  BY <1>20 DEF residencyVars
<1> QED
  BY <1>1, <1>2, <1>3, <1>4, <1>5, <1>6, <1>7, <1>8, <1>9, <1>10,
     <1>11, <1>12, <1>13, <1>14, <1>15, <1>16, <1>17, <1>18, <1>19, <1>20
  DEF ResidencyNext, GoOn, Reconcile

\* residents_suspended: no failure of Ollama, of the sidecar or of the worker leaves the
\* reconcile thread suspended after the training, except a timeout inside the dance.
THEOREM FlagIsOwned == ResidencySpec => []SuspensionIsOwned
<1>1. ResidencyInit => Flag
  BY DEF ResidencyInit, Flag, SuspensionIsOwned
<1>2. Flag => SuspensionIsOwned
  BY DEF Flag
<1> QED
  BY <1>1, <1>2, StepFlag, ResidencyTypeCorrect, PTL DEF ResidencySpec

\* While residents are unloaded and until the training is over the flag is set, and a tick
\* that is under way while it is had looked at it before; what is in memory is yet to be
\* unloaded or excused.
Room ==
    /\ wpc \in {"unload", "train"} => suspended
    /\ suspended /\ rpc \in {"list", "load"} => overlap
    /\ wpc = "unload" => loaded \cap Resident \subseteq excused \cup wtodo
    /\ wpc = "train" => loaded \cap Resident \subseteq excused

LEMMA StepRoom == ResidencyTypeOK /\ Flag /\ Room /\ [ResidencyNext]_residencyVars => Room'
<1> SUFFICES ASSUME ResidencyTypeOK, Flag, Room, [ResidencyNext]_residencyVars PROVE Room'
  OBVIOUS
<1> USE ResidencyAssumption DEF ResidencyTypeOK, Flag, SuspensionIsOwned, Room, Dance, Models, workVars, recVars
<1>1. ASSUME NEW m \in Models, PinOne(m) PROVE Room'
  BY <1>1 DEF PinOne, Load, Incur
<1>2. ASSUME NEW m \in Models, UnloadOne(m) PROVE Room'
  BY <1>2 DEF UnloadOne, Incur
<1>3. ASSUME NEW m \in Models, EndSwap(m) PROVE Room'
  BY <1>3 DEF EndSwap, Load, Incur
<1>4. ASSUME NEW m \in Models, StartSwap(m) PROVE Room'
  BY <1>4 DEF StartSwap, Incur
<1>5. ASSUME NEW m \in Resident, RepinOne(m) PROVE Room'
  BY <1>5 DEF RepinOne, Load, Incur
<1>6. ASSUME NEW m \in Models, InlineCall(m) PROVE Room'
  BY <1>6 DEF InlineCall
<1>7. ASSUME NEW m \in Models, Evict(m) PROVE Room'
  BY <1>7 DEF Evict, Incur
<1>8. ASSUME NEW m \in Models, KeepAliveEnds(m) PROVE Room'
  BY <1>8 DEF KeepAliveEnds
<1>9. CASE Booted
  BY <1>9 DEF Booted
<1>10. CASE Suspend
  BY <1>10 DEF Suspend
<1>11. CASE PostTraining
  BY <1>11 DEF PostTraining
<1>12. CASE EndTraining
  BY <1>12 DEF EndTraining, ToPin
<1>13. CASE LoseTraining
  BY <1>13 DEF LoseTraining, ToPin, Incur
<1>14. CASE Resume
  BY <1>14 DEF Resume
<1>15. CASE Timeout
  BY <1>15 DEF Timeout, ToPin, Incur
<1>16. CASE Crash
  BY <1>16 DEF Crash, Incur
<1>17. CASE Tick
  BY <1>17 DEF Tick
<1>18. CASE ListLoaded
  BY <1>18 DEF ListLoaded, Incur
<1>19. CASE SidecarEnds
  BY <1>19 DEF SidecarEnds
<1>20. CASE UNCHANGED residencyVars
  BY <1>20 DEF residencyVars
<1> QED
  BY <1>1, <1>2, <1>3, <1>4, <1>5, <1>6, <1>7, <1>8, <1>9, <1>10,
     <1>11, <1>12, <1>13, <1>14, <1>15, <1>16, <1>17, <1>18, <1>19, <1>20
  DEF ResidencyNext, GoOn, Reconcile

\* execute_dpo_fine_tune_job: however the reconcile thread, the API process, Ollama and the
\* sidecar interleave, a training starts and runs without residents in memory, but for those
\* that are excused.
THEOREM TrainingFindsRoom == ResidencySpec => []TrainingHasRoom
<1>1. ResidencyInit => Flag /\ Room
  BY DEF ResidencyInit, Flag, SuspensionIsOwned, Room
<1>2. Room => TrainingHasRoom
  BY DEF Room, TrainingHasRoom
<1> QED
  BY <1>1, <1>2, StepFlag, StepRoom, ResidencyTypeCorrect, PTL DEF ResidencySpec

=============================================================================
