------------------------------- MODULE Egress -------------------------------
(***************************************************************************)
(* Which models get to see the content of a job: through the request that  *)
(* runs it, the worker, the fallback, a fan-out, its eval shadows and the  *)
(* judges of its output, while the administrator edits the routing rule    *)
(* and the client's opt-in and credentials.                                *)
(*                                                                         *)
(* One text task type and one client.  A handler reads the rule and the    *)
(* client once and goes on with what it read.                              *)
(***************************************************************************)
EXTENDS Routing, FiniteSets, Naturals

CONSTANTS
    Jobs,
    Requests,         \* the requests a client may make
    Rules,            \* the rules an administrator may install
    Resident,         \* settings.resident_models
    GlobalAnthropic,  \* settings.anthropic_api_key is set
    MaxEdits          \* bound on the administrator's edits

\* POST /jobs and the MCP tool create_job, which takes neither a model nor a path nor
\* fan-out targets.  asked = "unset" takes the level of the rule.
Request == {r \in [via    : {"http", "mcp"},
                   asked  : Sensitivities \cup {"unset"},
                   model  : Models \cup {NoModel},
                   async  : BOOLEAN,
                   fanout : SUBSET Models,
                   judge  : {"no", "pointwise", "pairwise", "panel"}] :
              r.via = "mcp" => r.model = NoModel /\ ~r.async /\ r.fanout = {}}

ASSUME EgressAssumption ==
    /\ Requests \subseteq Request
    /\ Rules \subseteq Rule
    /\ Resident \subseteq LocalModels
    /\ GlobalAnthropic \in BOOLEAN
    /\ MaxEdits \in Nat

VARIABLES
    rule,      \* the live routing rule of the task type
    allow,     \* client_apps.allow_cloud_for_internal
    creds,     \* the providers the client has credentials for
    edits,     \* edits made so far
    pc,        \* where the handler of each job stands
    by,        \* the process that runs the job
    sens,      \* jobs.sensitivity, fixed when the row is inserted
    wanted,    \* jobs.model_requested
    mode,      \* jobs.inputs["mode"] of a judge, "no" for every other job
    targets,   \* the jobs a judge is to read
    dec,       \* the decision the handler acts on
    seen,      \* the rule's shadows, the opt-in and the credentials it read
    jury,      \* the jurors that a judge has yet to call
    fan,       \* the fan-out targets that a request has yet to call
    used,      \* jobs.model_used
    shadows,   \* the job_shadows rows that are waiting to run: [job, model]
    sent,      \* history: [job, model, by], whose content went to which model
    optedIn    \* history: the client has allowed cloud models at some time

policyVars == <<rule, allow, creds, edits, optedIn>>
jobVars    == <<by, sens, wanted, mode, targets>>
vars == <<policyVars, jobVars, pc, dec, seen, jury, fan, used, shadows, sent>>

Seen == [shadows : SUBSET Models, allow : BOOLEAN, creds : SUBSET CloudProviders]
Call == [job : Jobs, model : Models, by : {"api", "worker"}]

TypeOK ==
    /\ rule \in Rules \cup {NoRule}
    /\ allow \in BOOLEAN /\ optedIn \in BOOLEAN
    /\ creds \subseteq CloudProviders
    /\ edits \in Nat
    /\ pc \in [Jobs -> {"new", "refused", "queued", "call", "fallback", "judge",
                        "after", "done"}]
    /\ by \in [Jobs -> {"api", "worker"}]
    /\ sens \in [Jobs -> Sensitivities]
    /\ wanted \in [Jobs -> Models \cup {NoModel}]
    /\ mode \in [Jobs -> {"no", "pointwise", "pairwise", "panel"}]
    /\ targets \in [Jobs -> SUBSET Jobs]
    /\ dec \in [Jobs -> Decision]
    /\ seen \in [Jobs -> Seen]
    /\ jury \in [Jobs -> SUBSET Models]
    /\ fan \in [Jobs -> SUBSET Models]
    /\ used \in [Jobs -> Models \cup {NoModel}]
    /\ shadows \subseteq [job : Jobs, model : Models]
    /\ sent \subseteq Call

NoDecision == [model |-> NoModel, fallback |-> NoModel, effective |-> "public"]
NothingSeen == [shadows |-> {}, allow |-> FALSE, creds |-> {}]

Init ==
    /\ rule \in Rules \cup {NoRule}
    /\ allow \in BOOLEAN
    /\ optedIn = allow
    /\ creds \in SUBSET CloudProviders
    /\ edits = 0
    /\ pc = [j \in Jobs |-> "new"]
    /\ by = [j \in Jobs |-> "worker"]
    /\ sens = [j \in Jobs |-> "public"]
    /\ wanted = [j \in Jobs |-> NoModel]
    /\ mode = [j \in Jobs |-> "no"]
    /\ targets = [j \in Jobs |-> {}]
    /\ dec = [j \in Jobs |-> NoDecision]
    /\ seen = [j \in Jobs |-> NothingSeen]
    /\ jury = [j \in Jobs |-> {}]
    /\ fan = [j \in Jobs |-> {}]
    /\ used = [j \in Jobs |-> NoModel]
    /\ shadows = {}
    /\ sent = {}

GoTo(j, p) == pc' = [pc EXCEPT ![j] = p]

-----------------------------------------------------------------------------
(* The administrator. *)

\* PUT /routing/{task_type} replaces the rule and revives an archived one.
PutRule ==
    /\ edits < MaxEdits
    /\ edits' = edits + 1
    /\ rule' \in Rules
    /\ UNCHANGED <<allow, creds, optedIn, jobVars, pc, dec, seen, jury, fan, used, shadows,
                   sent>>

\* DELETE /routing/{task_type}.
ArchiveRule ==
    /\ edits < MaxEdits
    /\ edits' = edits + 1
    /\ rule # NoRule
    /\ rule' = NoRule
    /\ UNCHANGED <<allow, creds, optedIn, jobVars, pc, dec, seen, jury, fan, used, shadows,
                   sent>>

\* PATCH /clients/{id}.
PatchClient ==
    /\ edits < MaxEdits
    /\ edits' = edits + 1
    /\ allow' \in BOOLEAN
    /\ optedIn' = (optedIn \/ allow')
    /\ UNCHANGED <<rule, creds, jobVars, pc, dec, seen, jury, fan, used, shadows, sent>>

\* PUT and DELETE of the client's Anthropic key and Bedrock credentials.
EditCredentials ==
    /\ edits < MaxEdits
    /\ edits' = edits + 1
    /\ \E p \in CloudProviders : creds' \in {creds \cup {p}, creds \ {p}}
    /\ UNCHANGED <<rule, allow, optedIn, jobVars, pc, dec, seen, jury, fan, used, shadows,
                   sent>>

-----------------------------------------------------------------------------
(* Providers. *)

\* ProviderRegistry.has_for_client, and get_for_client raises KeyError otherwise.
HasForClient(p, c) ==
    \/ p = "ollama"
    \/ p \in c
    \/ p = "anthropic" /\ GlobalAnthropic

\* registry.names: Bedrock is never registered, Anthropic only with a global key.
Registered == {"ollama"} \cup (IF GlobalAnthropic THEN {"anthropic"} ELSE {})

Available(c) == {p \in CloudProviders : HasForClient(p, c)}

Read(c, a, r) ==
    [shadows |-> IF r = NoRule THEN {} ELSE r.shadows, allow |-> a, creds |-> c]

-----------------------------------------------------------------------------
(* POST /jobs and the MCP tool create_job. *)

\* Whether the request runs the job itself: judges and async jobs go to the worker, cloud
\* and resident models run inline, and a fan-out always does.  The MCP tool leaves to the
\* worker what its registry cannot serve.
Inline(r, d) ==
    \/ r.fanout # {}
    \/ /\ r.judge = "no" /\ ~r.async
       /\ IsCloud(d.model) \/ d.model \in Resident
       /\ r.via = "mcp" => ProviderFor(d.model) \in Registered

\* Every fan-out target must be callable from the API and pass the sensitivity gate.
FanoutOK(r, d) ==
    r.fanout # {} =>
        /\ IsCloud(d.model) \/ d.model \in Resident
        /\ \A m \in r.fanout :
              (IsCloud(m) \/ m \in Resident) /\ Permitted(m, d.effective, allow)

\* A judge names jobs that exist, one or two to compare (an unknown id ends in GiveUp).
Targets(r) ==
    IF r.judge = "no" THEN {{}}
    ELSE {T \in SUBSET {t \in Jobs : pc[t] \notin {"new", "refused"}} :
            Cardinality(T) = IF r.judge = "pairwise" THEN 2 ELSE 1}

Submit(j, r) ==
    LET asked == IF r.asked = "unset" THEN Floor(rule) ELSE r.asked
        d == Decide(asked, r.model, allow, rule, Available(creds))
    IN  /\ pc[j] = "new"
        /\ IF \/ d.model = NoModel
              \/ ~FanoutOK(r, d)
              \/ Inline(r, d) /\ ProviderFor(d.model) \notin Registered
           THEN /\ GoTo(j, "refused")
                /\ UNCHANGED <<jobVars, dec, seen, fan>>
           ELSE /\ GoTo(j, IF Inline(r, d) THEN "call" ELSE "queued")
                /\ by' = [by EXCEPT ![j] = IF Inline(r, d) THEN "api" ELSE "worker"]
                /\ sens' = [sens EXCEPT ![j] = d.effective]
                /\ wanted' = [wanted EXCEPT ![j] = r.model]
                /\ mode' = [mode EXCEPT ![j] = r.judge]
                /\ \E T \in Targets(r) : targets' = [targets EXCEPT ![j] = T]
                /\ dec' = [dec EXCEPT ![j] = d]
                /\ seen' = [seen EXCEPT ![j] = Read(creds, allow, rule)]
                /\ fan' = [fan EXCEPT ![j] = r.fanout]
        /\ UNCHANGED <<policyVars, jury, used, shadows, sent>>

\* A cancellation, or an error before the first call: a model swap, a missing prompt, a
\* judge whose target is not found or whose jury is empty.
GiveUp(j) ==
    /\ pc[j] \in {"queued", "call", "judge"}
    /\ GoTo(j, "done")
    /\ UNCHANGED <<policyVars, jobVars, dec, seen, jury, fan, used, shadows, sent>>

-----------------------------------------------------------------------------
(* The worker. *)

WorkerAvailable == CloudProviders

\* Mutant: a routing violation does not fail the job.
DispatchUnfailed(j) ==
    LET d == Decide(sens[j], wanted[j], allow, rule, WorkerAvailable) IN
    /\ pc[j] = "queued"
    /\ GoTo(j, IF mode[j] = "no" THEN "call" ELSE "judge")
    /\ dec' = [dec EXCEPT ![j] = d]
    /\ seen' = [seen EXCEPT ![j] = Read(creds, allow, rule)]
    /\ UNCHANGED <<policyVars, jobVars, jury, fan, used, shadows, sent>>

\* The worker routes the job again, from the row, the current rule and the current
\* client, and takes every cloud provider for available.
Dispatch(j) ==
    LET d == Decide(sens[j], wanted[j], allow, rule, WorkerAvailable) IN
    /\ pc[j] = "queued"
    /\ GoTo(j, IF d.model = NoModel THEN "done"
               ELSE IF mode[j] = "no" THEN "call" ELSE "judge")
    /\ dec' = [dec EXCEPT ![j] = d]
    /\ seen' = [seen EXCEPT ![j] = Read(creds, allow, rule)]
    /\ UNCHANGED <<policyVars, jobVars, jury, fan, used, shadows, sent>>

\* The juries a judge may call: its own model, or any panel that passes the gate (the
\* request and the rule name the candidates, the producer's family is dropped).
Juries(j) ==
    IF mode[j] # "panel" THEN {{dec[j].model}}
    ELSE SUBSET {m \in Models : Permitted(m, dec[j].effective, seen[j].allow)} \ {{}}

\* Mutant: the judge's level is not compared with the target's.
ReadTargetsUnguarded(j) ==
    /\ pc[j] = "judge" /\ jury[j] = {}
    /\ \E P \in Juries(j) : jury' = [jury EXCEPT ![j] = P]
    /\ used' = [used EXCEPT ![j] = dec[j].model]
    /\ UNCHANGED <<policyVars, jobVars, pc, dec, seen, fan, shadows, sent>>

\* The judge reads its targets, which must be no more sensitive than what it resolved to,
\* and goes RUNNING.
ReadTargets(j) ==
    /\ pc[j] = "judge" /\ jury[j] = {}
    /\ \A t \in targets[j] : JudgeMayRead(dec[j].effective, sens[t])
    /\ \E P \in Juries(j) : jury' = [jury EXCEPT ![j] = P]
    /\ used' = [used EXCEPT ![j] = dec[j].model]
    /\ UNCHANGED <<policyVars, jobVars, pc, dec, seen, fan, shadows, sent>>

-----------------------------------------------------------------------------
(* The calls.  Each reaches the model only if a provider can be had for it:  *)
(* a missing credential raises KeyError, which nobody handles.               *)

Calls(J, m, who) == {[job |-> j, model |-> m, by |-> who] : j \in J}

\* A ProviderError of the primary model leads to the fallback.
CallPrimary(j) ==
    /\ pc[j] = "call"
    /\ used' = [used EXCEPT ![j] = dec[j].model]
    /\ IF HasForClient(ProviderFor(dec[j].model), seen[j].creds)
       THEN /\ sent' = sent \cup Calls({j}, dec[j].model, by[j])
            /\ GoTo(j, "after") \/ GoTo(j, "fallback")
       ELSE /\ GoTo(j, "done")
            /\ UNCHANGED sent
    /\ UNCHANGED <<policyVars, jobVars, dec, seen, jury, fan, shadows>>

\* A registered provider can always be had.
CallFallback(j) ==
    LET m == FallbackTarget(dec[j], Registered) IN
    /\ pc[j] = "fallback"
    /\ IF m # NoModel
       THEN /\ sent' = sent \cup Calls({j}, m, by[j])
            /\ used' = [used EXCEPT ![j] = m]
       ELSE UNCHANGED <<sent, used>>
    /\ GoTo(j, "after")
    /\ UNCHANGED <<policyVars, jobVars, dec, seen, jury, fan, shadows>>

\* A judge puts its own rubric and all its targets before a juror.  A target may also be
\* a shadow: its level is that of its parent.
CallJuror(j, m) ==
    /\ pc[j] = "judge" /\ m \in jury[j]
    /\ IF HasForClient(ProviderFor(m), seen[j].creds)
       THEN /\ sent' = sent \cup Calls({j} \cup targets[j], m, by[j])
            /\ jury' = [jury EXCEPT ![j] = @ \ {m}]
            /\ GoTo(j, IF jury[j] = {m} THEN "done" ELSE "judge")
       ELSE /\ GoTo(j, "done")
            /\ UNCHANGED <<sent, jury>>
    /\ UNCHANGED <<policyVars, jobVars, dec, seen, fan, used, shadows>>

\* The fan-out targets run next to the primary, in the request.
CallFanout(j, m) ==
    /\ m \in fan[j]
    /\ fan' = [fan EXCEPT ![j] = @ \ {m}]
    /\ sent' = IF HasForClient(ProviderFor(m), seen[j].creds)
               THEN sent \cup Calls({j}, m, by[j]) ELSE sent
    /\ UNCHANGED <<policyVars, jobVars, pc, dec, seen, jury, used, shadows>>

\* plan_shadows judges by the row's sensitivity and skips the model that answered.
ShadowTargets(j) ==
    {m \in seen[j].shadows \ {used[j]} : Permitted(m, sens[j], seen[j].allow)}

\* Sampling and the cost caps take any part of them; a job that failed has none unless
\* its request forces them.
PlanShadows(j) ==
    /\ pc[j] = "after"
    /\ \E P \in SUBSET ShadowTargets(j) :
          shadows' = shadows \cup {[job |-> j, model |-> m] : m \in P}
    /\ GoTo(j, "done")
    /\ UNCHANGED <<policyVars, jobVars, dec, seen, jury, fan, used, sent>>

\* run_shadow looks the provider up with the client as it is by then.
RunShadow(s) ==
    /\ s \in shadows
    /\ shadows' = shadows \ {s}
    /\ sent' = IF HasForClient(ProviderFor(s.model), creds)
               THEN sent \cup Calls({s.job}, s.model, "worker") ELSE sent
    /\ UNCHANGED <<policyVars, jobVars, pc, dec, seen, jury, fan, used>>

JobStep(j) ==
    \/ \E r \in Requests : Submit(j, r)
    \/ GiveUp(j) \/ Dispatch(j) \/ ReadTargets(j)
    \/ CallPrimary(j) \/ CallFallback(j) \/ PlanShadows(j)
    \/ \E m \in Models : CallJuror(j, m) \/ CallFanout(j, m)

Next ==
    \/ PutRule \/ ArchiveRule \/ PatchClient \/ EditCredentials
    \/ \E j \in Jobs : JobStep(j)
    \/ \E s \in shadows : RunShadow(s)

Spec == Init /\ [][Next]_vars

-----------------------------------------------------------------------------

\* "confidential work physically cannot leave to a third party": no path takes the
\* content of a row stored as confidential to a cloud model, whatever is edited
\* meanwhile, and whoever judges it.
ConfidentialStaysLocal ==
    \A c \in sent : sens[c.job] = "confidential" => ~IsCloud(c.model)

\* The content of an internal job reaches a cloud model only for a client that has
\* opted in at some time.
InternalNeedsOptIn ==
    \A c \in sent : sens[c.job] = "internal" /\ IsCloud(c.model) => optedIn

=============================================================================
