--------------------------- MODULE Egress_proofs ---------------------------
(***************************************************************************)
(* Proofs about Egress for any models, requests, rules, set of jobs and    *)
(* number of edits.                                                        *)
(***************************************************************************)
EXTENDS Egress, TLAPS

-----------------------------------------------------------------------------
(* The inductive invariant.  The two properties say of each message that it  *)
(* passes the gate at the level of the stored row; the parts below carry     *)
(* that fact from the decision of a handler to the message.                  *)

\* A row that is not inserted has no decision, no juror, no shadow and no reader.
NewIsUnknown ==
    \A j \in Jobs : pc[j] = "new" =>
        /\ jury[j] = {} /\ fan[j] = {}
        /\ \A c \in sent : c.job # j
        /\ \A s \in shadows : s.job # j
        /\ \A k \in Jobs : j \notin targets[k]

\* What the engine returns: a level no looser than what was asked, and models that pass
\* the gate at that level.
SoundDecision(d, asked, a) ==
    /\ d \in Decision
    /\ AtLeast(d.effective, asked)
    /\ d.model # NoModel => Permitted(d.model, d.effective, a)
    /\ d.fallback # NoModel => Permitted(d.fallback, d.effective, a)

\* A handler that is about to call holds such a decision for the level of its row.
DecisionHolds ==
    \A j \in Jobs : pc[j] \in {"call", "fallback", "judge"} =>
        SoundDecision(dec[j], sens[j], seen[j].allow) /\ dec[j].model \in Models

\* A juror passes the gate at the level of every job it is to read.
JuryHolds ==
    \A j \in Jobs : \A m \in jury[j] :
        /\ pc[j] \in {"judge", "done"}
        /\ \A t \in {j} \cup targets[j] : Permitted(m, sens[t], seen[j].allow)

\* So does a fan-out target, and the request that has one is never queued.
FanHolds ==
    \A j \in Jobs : \A m \in fan[j] :
        /\ pc[j] # "queued"
        /\ Permitted(m, sens[j], seen[j].allow)

\* An opt-in that anybody acts on was given.
OptInKnown ==
    /\ allow => optedIn
    /\ \A j \in Jobs : seen[j].allow => optedIn

ShadowsHold == \A s \in shadows : Permitted(s.model, sens[s.job], optedIn)

SentHolds == \A c \in sent : Permitted(c.model, sens[c.job], optedIn)

IInv ==
    /\ TypeOK
    /\ NewIsUnknown
    /\ DecisionHolds
    /\ JuryHolds
    /\ FanHolds
    /\ OptInKnown
    /\ ShadowsHold
    /\ SentHolds

-----------------------------------------------------------------------------
(* The gate and the engine. *)

\* What passes the gate at a level passes it at every looser one, and for a client that
\* has opted in to no less.
LEMMA GateMonotone ==
    ASSUME NEW m, NEW s \in Sensitivities, NEW t \in Sensitivities,
           NEW a \in BOOLEAN, NEW b \in BOOLEAN,
           AtLeast(s, t), a => b, Permitted(m, s, a)
    PROVE  Permitted(m, t, b)
  BY DEF Sensitivities, AtLeast, Permitted

\* The levels are ordered, and a judge reads what is no more sensitive than itself.
LEMMA LevelsAreOrdered ==
    ASSUME NEW a \in Sensitivities, NEW b \in Sensitivities
    PROVE  /\ AtLeast(a, a)
           /\ Stricter(a, b) \in Sensitivities
           /\ AtLeast(Stricter(a, b), a)
           /\ AtLeast(Stricter(a, b), b)
           /\ JudgeMayRead(b, a) => AtLeast(b, a)
  BY DEF Sensitivities, AtLeast, Stricter, JudgeMayRead

LEMMA FloorIsALevel ==
    ASSUME NEW r \in Rules \cup {NoRule}
    PROVE  Floor(r) \in Sensitivities
  BY EgressAssumption DEF Floor, Rule, Sensitivities

\* The engine resolves to a level no looser than the request and the rule, and the model
\* and the fallback it returns pass the gate at that level.
LEMMA DecideSound ==
    ASSUME NEW asked \in Sensitivities, NEW w \in Models \cup {NoModel},
           NEW a \in BOOLEAN, NEW r \in Rules \cup {NoRule}, NEW av,
           NEW d, d = Decide(asked, w, a, r, av)
    PROVE  /\ d \in Decision
           /\ AtLeast(d.effective, asked)
           /\ AtLeast(d.effective, Floor(r))
           /\ d.model # NoModel => Permitted(d.model, d.effective, a)
           /\ d.fallback # NoModel => Permitted(d.fallback, d.effective, a)
<1> DEFINE e == Stricter(asked, Floor(r))
           p == PreferredModel(r, e)
           f == FallbackModel(r)
           ok(m) == m # NoModel /\ IsAllowed(m, e, a, av)
<1>1. e \in Sensitivities /\ AtLeast(e, asked) /\ AtLeast(e, Floor(r))
  BY FloorIsALevel, LevelsAreOrdered
<1>2. p \in Models
  BY EgressAssumption, ModelsAssumption DEF PreferredModel, Rule
<1>3. f \in Models \cup {NoModel}
  BY EgressAssumption DEF FallbackModel, Rule
<1>4. \A m : ok(m) => m # NoModel /\ Permitted(m, e, a)
  BY DEF IsAllowed
<1>5. /\ d.effective = e
      /\ d.model \in {NoModel, w, p, f}
      /\ d.model # NoModel => ok(d.model)
      /\ d.fallback \in {NoModel, f}
      /\ d.fallback # NoModel => ok(d.fallback)
      /\ d = [model |-> d.model, fallback |-> d.fallback, effective |-> d.effective]
  <2> HIDE DEF ok, e, p, f
  <2>1. d = IF w # NoModel
            THEN [model |-> IF ok(w) THEN w ELSE NoModel, fallback |-> NoModel,
                  effective |-> e]
            ELSE IF ok(p)
            THEN [model |-> p, fallback |-> IF ok(f) /\ f # p THEN f ELSE NoModel,
                  effective |-> e]
            ELSE [model |-> IF ok(f) THEN f ELSE NoModel, fallback |-> NoModel,
                  effective |-> e]
    BY DEF Decide, ok, e, p, f
  <2> QED
    BY <2>1
<1> HIDE DEF ok, e, p, f
<1>6. d \in Decision
  BY <1>1, <1>2, <1>3, <1>5 DEF Decision
<1> QED
  BY <1>1, <1>4, <1>5, <1>6

\* What a handler keeps of the rule and the client.
LEMMA ReadIsSeen ==
    ASSUME NEW c \in SUBSET CloudProviders, NEW a \in BOOLEAN, NEW r \in Rules \cup {NoRule}
    PROVE  Read(c, a, r) \in Seen /\ Read(c, a, r).allow = a
<1>1. (IF r = NoRule THEN {} ELSE r.shadows) \in SUBSET Models
  BY EgressAssumption DEF Rule
<1> QED
  BY <1>1 DEF Read, Seen

\* A request is refused, or inserts a row at the level its decision resolved to.
Refused(j) ==
    /\ pc' = [pc EXCEPT ![j] = "refused"]
    /\ UNCHANGED <<jobVars, dec, seen, fan>>

Accepted(j, r, d, T, p, who) ==
    /\ pc' = [pc EXCEPT ![j] = p]
    /\ by' = [by EXCEPT ![j] = who]
    /\ sens' = [sens EXCEPT ![j] = d.effective]
    /\ wanted' = [wanted EXCEPT ![j] = r.model]
    /\ mode' = [mode EXCEPT ![j] = r.judge]
    /\ targets' = [targets EXCEPT ![j] = T]
    /\ dec' = [dec EXCEPT ![j] = d]
    /\ seen' = [seen EXCEPT ![j] = Read(creds, allow, rule)]
    /\ fan' = [fan EXCEPT ![j] = r.fanout]
    /\ d.model \in Models
    /\ \A t \in T : pc[t] # "new"
    /\ \A m \in r.fanout : p = "call" /\ Permitted(m, d.effective, allow)

LEMMA SubmitFacts ==
    ASSUME TypeOK, NEW j \in Jobs, NEW r \in Requests, Submit(j, r)
    PROVE  /\ pc[j] = "new"
           /\ UNCHANGED <<policyVars, jury, used, shadows, sent>>
           /\ r \in Request
           /\ \/ Refused(j)
              \/ \E d \in Decision, T \in SUBSET Jobs, p \in {"call", "queued"},
                    who \in {"api", "worker"}, asked \in Sensitivities :
                    SoundDecision(d, asked, allow) /\ Accepted(j, r, d, T, p, who)
<1> DEFINE asked == IF r.asked = "unset" THEN Floor(rule) ELSE r.asked
           d == Decide(asked, r.model, allow, rule, Available(creds))
           p == IF Inline(r, d) THEN "call" ELSE "queued"
           who == IF Inline(r, d) THEN "api" ELSE "worker"
<1>1. r \in Request
  BY EgressAssumption
<1>2. asked \in Sensitivities
  BY <1>1, FloorIsALevel DEF Request, TypeOK
<1>3. SoundDecision(d, asked, allow) /\ d \in Decision
  <2>1. r.model \in Models \cup {NoModel}
    BY <1>1 DEF Request
  <2> QED
    BY <1>2, <2>1, DecideSound DEF TypeOK, SoundDecision
<1> HIDE DEF asked, d
<1>4. pc[j] = "new" /\ UNCHANGED <<policyVars, jury, used, shadows, sent>>
  BY DEF Submit
<1>5. \/ Refused(j)
      \/ /\ d.model # NoModel /\ FanoutOK(r, d)
         /\ pc' = [pc EXCEPT ![j] = p]
         /\ by' = [by EXCEPT ![j] = who]
         /\ sens' = [sens EXCEPT ![j] = d.effective]
         /\ wanted' = [wanted EXCEPT ![j] = r.model]
         /\ mode' = [mode EXCEPT ![j] = r.judge]
         /\ \E T \in Targets(r) : targets' = [targets EXCEPT ![j] = T]
         /\ dec' = [dec EXCEPT ![j] = d]
         /\ seen' = [seen EXCEPT ![j] = Read(creds, allow, rule)]
         /\ fan' = [fan EXCEPT ![j] = r.fanout]
  BY DEF Submit, asked, d, Refused, GoTo, jobVars
<1>6. ASSUME d.model # NoModel, FanoutOK(r, d)
      PROVE  /\ d.model \in Models
             /\ \A m \in r.fanout : p = "call" /\ Permitted(m, d.effective, allow)
  BY <1>3, <1>6 DEF FanoutOK, Inline, Decision
<1>7. \A T \in Targets(r) : T \in SUBSET Jobs /\ \A t \in T : pc[t] # "new"
  BY DEF Targets
<1>8. p \in {"call", "queued"} /\ who \in {"api", "worker"}
  OBVIOUS
<1> HIDE DEF p, who
<1>9. CASE Refused(j)
  BY <1>1, <1>4, <1>9
<1>10. CASE ~Refused(j)
  <2>1. PICK T \in Targets(r) : targets' = [targets EXCEPT ![j] = T]
    BY <1>5, <1>10
  <2>2. Accepted(j, r, d, T, p, who)
    BY <1>5, <1>6, <1>7, <1>10, <2>1 DEF Accepted
  <2> QED
    BY <1>1, <1>2, <1>3, <1>4, <1>7, <1>8, <2>1, <2>2
<1> QED
  BY <1>9, <1>10

\* The worker fails the job, or goes on with what it routed it to.
LEMMA DispatchFacts ==
    ASSUME TypeOK, NEW j \in Jobs, Dispatch(j)
    PROVE  /\ pc[j] = "queued"
           /\ UNCHANGED <<policyVars, jobVars, jury, fan, used, shadows, sent>>
           /\ seen' = [seen EXCEPT ![j] = Read(creds, allow, rule)]
           /\ \E d \in Decision, p \in {"done", "call", "judge"} :
                 /\ SoundDecision(d, sens[j], allow)
                 /\ p # "done" => d.model \in Models
                 /\ dec' = [dec EXCEPT ![j] = d]
                 /\ pc' = [pc EXCEPT ![j] = p]
<1> DEFINE d == Decide(sens[j], wanted[j], allow, rule, WorkerAvailable)
           p == IF d.model = NoModel THEN "done"
                ELSE IF mode[j] = "no" THEN "call" ELSE "judge"
<1>1. SoundDecision(d, sens[j], allow) /\ d \in Decision
  BY DecideSound DEF TypeOK, SoundDecision
<1> HIDE DEF d
<1>2. /\ pc[j] = "queued"
      /\ UNCHANGED <<policyVars, jobVars, jury, fan, used, shadows, sent>>
      /\ seen' = [seen EXCEPT ![j] = Read(creds, allow, rule)]
      /\ dec' = [dec EXCEPT ![j] = d]
      /\ pc' = [pc EXCEPT ![j] = p]
  BY DEF Dispatch, d, GoTo
<1>3. p \in {"done", "call", "judge"} /\ (p # "done" => d.model \in Models)
  BY <1>1 DEF Decision
<1> QED
  BY <1>1, <1>2, <1>3

-----------------------------------------------------------------------------
(* Every step preserves it: one lemma per part, one step per action that disturbs it. *)

\* Every write stays in its range; a call goes to a model because a decision names one.
LEMMA TypeStep ==
  ASSUME TypeOK, DecisionHolds, JuryHolds, [Next]_vars
  PROVE  TypeOK'
<1> USE DEF TypeOK
<1>1. ASSUME PutRule PROVE TypeOK'
  BY <1>1, EgressAssumption DEF PutRule, jobVars
<1>2. ASSUME ArchiveRule PROVE TypeOK'
  BY <1>2 DEF ArchiveRule, jobVars
<1>3. ASSUME PatchClient PROVE TypeOK'
  BY <1>3 DEF PatchClient, jobVars
<1>4. ASSUME EditCredentials PROVE TypeOK'
  BY <1>4 DEF EditCredentials, jobVars
<1>5. ASSUME NEW j \in Jobs, GiveUp(j) PROVE TypeOK'
  BY <1>5 DEF GiveUp, GoTo, policyVars, jobVars
<1>6. ASSUME NEW j \in Jobs, Dispatch(j) PROVE TypeOK'
  <2>1. Read(creds, allow, rule) \in Seen
    BY ReadIsSeen
  <2> QED
    BY <1>6, <2>1, DispatchFacts DEF policyVars, jobVars
<1>7. ASSUME NEW j \in Jobs, ReadTargets(j) PROVE TypeOK'
  BY <1>7 DEF ReadTargets, DecisionHolds, Juries, policyVars, jobVars
<1>8. ASSUME NEW j \in Jobs, CallPrimary(j) PROVE TypeOK'
  BY <1>8 DEF CallPrimary, GoTo, DecisionHolds, Calls, Call, policyVars, jobVars
<1>9. ASSUME NEW j \in Jobs, CallFallback(j) PROVE TypeOK'
  <2>1. FallbackTarget(dec[j], Registered) \in Models \cup {NoModel}
    BY DEF FallbackTarget, Decision
  <2> QED
    BY <1>9, <2>1 DEF CallFallback, GoTo, Calls, Call, policyVars, jobVars
<1>10. ASSUME NEW j \in Jobs, PlanShadows(j) PROVE TypeOK'
  BY <1>10 DEF PlanShadows, GoTo, ShadowTargets, Seen, policyVars, jobVars
<1>11. ASSUME NEW j \in Jobs, NEW r \in Requests, Submit(j, r) PROVE TypeOK'
  <2>1. r.model \in Models \cup {NoModel} /\ r.fanout \in SUBSET Models
        /\ r.judge \in {"no", "pointwise", "pairwise", "panel"}
    BY <1>11, SubmitFacts DEF Request
  <2>2. Read(creds, allow, rule) \in Seen
    BY ReadIsSeen
  <2>3. CASE Refused(j)
    BY <1>11, <2>3, SubmitFacts DEF Refused, policyVars, jobVars
  <2>4. ASSUME NEW d \in Decision, NEW T \in SUBSET Jobs, NEW p \in {"call", "queued"},
               NEW who \in {"api", "worker"}, Accepted(j, r, d, T, p, who)
        PROVE  TypeOK'
    <3>1. d.effective \in Sensitivities /\ AtLeast(d.effective, d.effective)
      BY LevelsAreOrdered DEF Decision
    <3> QED
      BY <1>11, <2>1, <2>2, <2>4, <3>1, SubmitFacts DEF Accepted, policyVars
  <2> QED
    BY <1>11, <2>3, <2>4, SubmitFacts
<1>12. ASSUME NEW j \in Jobs, NEW m \in Models, CallJuror(j, m) PROVE TypeOK'
  BY <1>12 DEF CallJuror, GoTo, Calls, Call, policyVars, jobVars
<1>13. ASSUME NEW j \in Jobs, NEW m \in Models, CallFanout(j, m) PROVE TypeOK'
  BY <1>13 DEF CallFanout, Calls, Call, policyVars, jobVars
<1>14. ASSUME NEW s \in shadows, RunShadow(s) PROVE TypeOK'
  BY <1>14 DEF RunShadow, Calls, Call, policyVars, jobVars
<1>15. CASE UNCHANGED vars
  BY <1>15 DEF vars, policyVars, jobVars
<1> QED BY <1>1, <1>2, <1>3, <1>4, <1>5, <1>6, <1>7, <1>8, <1>9, <1>10, <1>11, <1>12,
   <1>13, <1>14, <1>15 DEF Next, JobStep

\* Only jobs that were submitted are called, shadowed or judged.
LEMMA NewIsUnknownStep ==
  ASSUME TypeOK, NewIsUnknown, JuryHolds, FanHolds, [Next]_vars
  PROVE  NewIsUnknown'
<1> USE DEF TypeOK, NewIsUnknown
<1>1. ASSUME NEW j \in Jobs, GiveUp(j) PROVE NewIsUnknown'
  BY <1>1 DEF GiveUp, GoTo, jobVars
<1>2. ASSUME NEW j \in Jobs, Dispatch(j) PROVE NewIsUnknown'
  <2>1. /\ pc[j] = "queued"
        /\ UNCHANGED <<policyVars, jobVars, jury, fan, used, shadows, sent>>
        /\ seen' = [seen EXCEPT ![j] = Read(creds, allow, rule)]
    BY <1>2, DispatchFacts
  <2>2. Read(creds, allow, rule) \in Seen /\ Read(creds, allow, rule).allow = allow
    BY ReadIsSeen
  <2>3. PICK d \in Decision, p \in {"done", "call", "judge"} :
          /\ SoundDecision(d, sens[j], allow)
          /\ p # "done" => d.model \in Models
          /\ dec' = [dec EXCEPT ![j] = d]
          /\ pc' = [pc EXCEPT ![j] = p]
    BY <1>2, DispatchFacts
  <2> QED
    BY <2>1, <2>2, <2>3 DEF jobVars
<1>3. ASSUME NEW j \in Jobs, ReadTargets(j) PROVE NewIsUnknown'
  BY <1>3 DEF ReadTargets, jobVars
<1>4. ASSUME NEW j \in Jobs, CallPrimary(j) PROVE NewIsUnknown'
  BY <1>4 DEF CallPrimary, GoTo, Calls, jobVars
<1>5. ASSUME NEW j \in Jobs, CallFallback(j) PROVE NewIsUnknown'
  BY <1>5 DEF CallFallback, GoTo, Calls, jobVars
<1>6. ASSUME NEW j \in Jobs, PlanShadows(j) PROVE NewIsUnknown'
  BY <1>6 DEF PlanShadows, GoTo, jobVars
<1>7. ASSUME NEW j \in Jobs, NEW r \in Requests, Submit(j, r) PROVE NewIsUnknown'
  <2>1. /\ pc[j] = "new" /\ r \in Request
        /\ UNCHANGED <<policyVars, jury, used, shadows, sent>>
    BY <1>7, SubmitFacts
  <2>2. Read(creds, allow, rule) \in Seen /\ Read(creds, allow, rule).allow = allow
    BY ReadIsSeen
  <2>4. CASE Refused(j)
    BY <2>1, <2>4 DEF Refused, policyVars, jobVars
  <2>5. ASSUME NEW d \in Decision, NEW T \in SUBSET Jobs, NEW p \in {"call", "queued"},
               NEW who \in {"api", "worker"}, NEW asked \in Sensitivities,
               SoundDecision(d, asked, allow), Accepted(j, r, d, T, p, who)
        PROVE  NewIsUnknown'
    BY <2>1, <2>5 DEF Accepted
  <2> QED
    BY <1>7, <2>4, <2>5, SubmitFacts
<1>8. ASSUME NEW j \in Jobs, NEW m \in Models, CallJuror(j, m) PROVE NewIsUnknown'
  BY <1>8 DEF CallJuror, GoTo, Calls, jobVars
<1>9. ASSUME NEW j \in Jobs, NEW m \in Models, CallFanout(j, m) PROVE NewIsUnknown'
  BY <1>9 DEF CallFanout, Calls, jobVars
<1>10. ASSUME NEW s \in shadows, RunShadow(s) PROVE NewIsUnknown'
  BY <1>10 DEF RunShadow, Calls, jobVars
<1>11. ASSUME PutRule \/ ArchiveRule \/ PatchClient \/ EditCredentials PROVE
   NewIsUnknown'
  BY <1>11 DEF PutRule, ArchiveRule, PatchClient, EditCredentials, policyVars, jobVars
<1>12. CASE UNCHANGED vars
  BY <1>12 DEF vars, policyVars, jobVars
<1> QED BY <1>1, <1>2, <1>3, <1>4, <1>5, <1>6, <1>7, <1>8, <1>9, <1>10, <1>11, <1>12 DEF
   Next, JobStep

\* A handler acts only on what the engine returned for the row it holds.
LEMMA DecisionHoldsStep ==
  ASSUME TypeOK, DecisionHolds, [Next]_vars
  PROVE  DecisionHolds'
<1> USE DEF TypeOK, DecisionHolds
<1>1. ASSUME NEW j \in Jobs, GiveUp(j) PROVE DecisionHolds'
  BY <1>1 DEF GiveUp, GoTo, jobVars
<1>2. ASSUME NEW j \in Jobs, Dispatch(j) PROVE DecisionHolds'
  <2>1. /\ pc[j] = "queued"
        /\ UNCHANGED <<policyVars, jobVars, jury, fan, used, shadows, sent>>
        /\ seen' = [seen EXCEPT ![j] = Read(creds, allow, rule)]
    BY <1>2, DispatchFacts
  <2>2. Read(creds, allow, rule) \in Seen /\ Read(creds, allow, rule).allow = allow
    BY ReadIsSeen
  <2>3. PICK d \in Decision, p \in {"done", "call", "judge"} :
          /\ SoundDecision(d, sens[j], allow)
          /\ p # "done" => d.model \in Models
          /\ dec' = [dec EXCEPT ![j] = d]
          /\ pc' = [pc EXCEPT ![j] = p]
    BY <1>2, DispatchFacts
  <2> QED
    BY <2>1, <2>2, <2>3 DEF jobVars
<1>3. ASSUME NEW j \in Jobs, CallPrimary(j) PROVE DecisionHolds'
  BY <1>3 DEF CallPrimary, GoTo, jobVars
<1>4. ASSUME NEW j \in Jobs, CallFallback(j) PROVE DecisionHolds'
  BY <1>4 DEF CallFallback, GoTo, jobVars
<1>5. ASSUME NEW j \in Jobs, PlanShadows(j) PROVE DecisionHolds'
  BY <1>5 DEF PlanShadows, GoTo, jobVars
<1>6. ASSUME NEW j \in Jobs, NEW r \in Requests, Submit(j, r) PROVE DecisionHolds'
  <2>1. /\ pc[j] = "new" /\ r \in Request
        /\ UNCHANGED <<policyVars, jury, used, shadows, sent>>
    BY <1>6, SubmitFacts
  <2>2. Read(creds, allow, rule) \in Seen /\ Read(creds, allow, rule).allow = allow
    BY ReadIsSeen
  <2>4. CASE Refused(j)
    BY <2>1, <2>4 DEF Refused, policyVars, jobVars
  <2>5. ASSUME NEW d \in Decision, NEW T \in SUBSET Jobs, NEW p \in {"call", "queued"},
               NEW who \in {"api", "worker"}, NEW asked \in Sensitivities,
               SoundDecision(d, asked, allow), Accepted(j, r, d, T, p, who)
        PROVE  DecisionHolds'
    <3>1. SoundDecision(d, d.effective, allow)
      BY <2>5, LevelsAreOrdered DEF SoundDecision, Decision
    <3> QED
      BY <2>1, <2>2, <2>5, <3>1 DEF Accepted
  <2> QED
    BY <1>6, <2>4, <2>5, SubmitFacts
<1>7. ASSUME NEW j \in Jobs, NEW m \in Models, CallJuror(j, m) PROVE DecisionHolds'
  BY <1>7 DEF CallJuror, GoTo, jobVars
<1>8. ASSUME PutRule \/ ArchiveRule \/ PatchClient \/ EditCredentials PROVE
   DecisionHolds'
  BY <1>8 DEF PutRule, ArchiveRule, PatchClient, EditCredentials, policyVars, jobVars
<1>9. ASSUME NEW j \in Jobs, ReadTargets(j) PROVE DecisionHolds'
  BY <1>9 DEF ReadTargets, policyVars, jobVars
<1>10. ASSUME NEW j \in Jobs, NEW m \in Models, CallFanout(j, m) PROVE DecisionHolds'
  BY <1>10 DEF CallFanout, policyVars, jobVars
<1>11. ASSUME NEW s \in shadows, RunShadow(s) PROVE DecisionHolds'
  BY <1>11 DEF RunShadow, policyVars, jobVars
<1>12. CASE UNCHANGED vars
  BY <1>12 DEF vars, policyVars, jobVars
<1> QED BY <1>1, <1>2, <1>3, <1>4, <1>5, <1>6, <1>7, <1>8, <1>9, <1>10, <1>11, <1>12 DEF
   Next, JobStep

\* The panel is picked at the level the judge resolved to, which its targets do not exceed.
LEMMA JuryHoldsStep ==
  ASSUME TypeOK, NewIsUnknown, DecisionHolds, JuryHolds, [Next]_vars
  PROVE  JuryHolds'
<1> USE DEF TypeOK, JuryHolds
<1>1. ASSUME NEW j \in Jobs, GiveUp(j) PROVE JuryHolds'
  BY <1>1 DEF GiveUp, GoTo, jobVars
<1>2. ASSUME NEW j \in Jobs, Dispatch(j) PROVE JuryHolds'
  <2>1. /\ pc[j] = "queued"
        /\ UNCHANGED <<policyVars, jobVars, jury, fan, used, shadows, sent>>
        /\ seen' = [seen EXCEPT ![j] = Read(creds, allow, rule)]
    BY <1>2, DispatchFacts
  <2>2. Read(creds, allow, rule) \in Seen /\ Read(creds, allow, rule).allow = allow
    BY ReadIsSeen
  <2>3. PICK d \in Decision, p \in {"done", "call", "judge"} :
          /\ SoundDecision(d, sens[j], allow)
          /\ p # "done" => d.model \in Models
          /\ dec' = [dec EXCEPT ![j] = d]
          /\ pc' = [pc EXCEPT ![j] = p]
    BY <1>2, DispatchFacts
  <2> QED
    BY <2>1, <2>2, <2>3 DEF jobVars
<1>3. ASSUME NEW j \in Jobs, ReadTargets(j) PROVE JuryHolds'
  <2>1. /\ pc[j] = "judge"
        /\ \A t \in targets[j] : JudgeMayRead(dec[j].effective, sens[t])
        /\ \E P \in Juries(j) : jury' = [jury EXCEPT ![j] = P]
        /\ UNCHANGED <<jobVars, pc, seen>>
    BY <1>3 DEF ReadTargets
  <2>2. \A m \in jury'[j] : Permitted(m, dec[j].effective, seen[j].allow)
    BY <2>1, ModelsAssumption DEF Juries, DecisionHolds, SoundDecision
  <2>3. \A t \in {j} \cup targets[j] : AtLeast(dec[j].effective, sens[t]) /\ t \in Jobs
    BY <2>1, LevelsAreOrdered DEF DecisionHolds, SoundDecision, Decision
  <2>4. \A m \in jury'[j] : \A t \in {j} \cup targets[j] : Permitted(m, sens[t], seen[j].allow)
    <3>1. dec[j].effective \in Sensitivities /\ seen[j].allow \in BOOLEAN
      BY DEF Decision, Seen
    <3> QED
      BY <2>2, <2>3, <3>1, GateMonotone
  <2> QED
    BY <2>1, <2>4 DEF jobVars
<1>4. ASSUME NEW j \in Jobs, CallPrimary(j) PROVE JuryHolds'
  BY <1>4 DEF CallPrimary, GoTo, jobVars
<1>5. ASSUME NEW j \in Jobs, CallFallback(j) PROVE JuryHolds'
  BY <1>5 DEF CallFallback, GoTo, jobVars
<1>6. ASSUME NEW j \in Jobs, PlanShadows(j) PROVE JuryHolds'
  BY <1>6 DEF PlanShadows, GoTo, jobVars
<1>7. ASSUME NEW j \in Jobs, NEW r \in Requests, Submit(j, r) PROVE JuryHolds'
  <2>1. /\ pc[j] = "new" /\ r \in Request
        /\ UNCHANGED <<policyVars, jury, used, shadows, sent>>
    BY <1>7, SubmitFacts
  <2>2. Read(creds, allow, rule) \in Seen /\ Read(creds, allow, rule).allow = allow
    BY ReadIsSeen
  <2>3. /\ jury[j] = {} /\ fan[j] = {}
        /\ \A c \in sent : c.job # j
        /\ \A s \in shadows : s.job # j
        /\ \A k \in Jobs : j \notin targets[k]
    BY <2>1 DEF NewIsUnknown
  <2>4. CASE Refused(j)
    BY <2>1, <2>4 DEF Refused, policyVars, jobVars
  <2>5. ASSUME NEW d \in Decision, NEW T \in SUBSET Jobs, NEW p \in {"call", "queued"},
               NEW who \in {"api", "worker"}, NEW asked \in Sensitivities,
               SoundDecision(d, asked, allow), Accepted(j, r, d, T, p, who)
        PROVE  JuryHolds'
    BY <2>1, <2>2, <2>3, <2>5 DEF Accepted
  <2> QED
    BY <1>7, <2>4, <2>5, SubmitFacts
<1>8. ASSUME NEW j \in Jobs, NEW m \in Models, CallJuror(j, m) PROVE JuryHolds'
  BY <1>8 DEF CallJuror, GoTo, jobVars
<1>9. ASSUME PutRule \/ ArchiveRule \/ PatchClient \/ EditCredentials PROVE JuryHolds'
  BY <1>9 DEF PutRule, ArchiveRule, PatchClient, EditCredentials, policyVars, jobVars
<1>10. ASSUME NEW j \in Jobs, NEW m \in Models, CallFanout(j, m) PROVE JuryHolds'
  BY <1>10 DEF CallFanout, policyVars, jobVars
<1>11. ASSUME NEW s \in shadows, RunShadow(s) PROVE JuryHolds'
  BY <1>11 DEF RunShadow, policyVars, jobVars
<1>12. CASE UNCHANGED vars
  BY <1>12 DEF vars, policyVars, jobVars
<1> QED BY <1>1, <1>2, <1>3, <1>4, <1>5, <1>6, <1>7, <1>8, <1>9, <1>10, <1>11, <1>12 DEF
   Next, JobStep

\* A fan-out target is checked against the level the row is stored with.
LEMMA FanHoldsStep ==
  ASSUME TypeOK, NewIsUnknown, FanHolds, [Next]_vars
  PROVE  FanHolds'
<1> USE DEF TypeOK, FanHolds
<1>1. ASSUME NEW j \in Jobs, GiveUp(j) PROVE FanHolds'
  BY <1>1 DEF GiveUp, GoTo, jobVars
<1>2. ASSUME NEW j \in Jobs, Dispatch(j) PROVE FanHolds'
  <2>1. /\ pc[j] = "queued"
        /\ UNCHANGED <<policyVars, jobVars, jury, fan, used, shadows, sent>>
        /\ seen' = [seen EXCEPT ![j] = Read(creds, allow, rule)]
    BY <1>2, DispatchFacts
  <2>2. Read(creds, allow, rule) \in Seen /\ Read(creds, allow, rule).allow = allow
    BY ReadIsSeen
  <2>3. PICK d \in Decision, p \in {"done", "call", "judge"} :
          /\ SoundDecision(d, sens[j], allow)
          /\ p # "done" => d.model \in Models
          /\ dec' = [dec EXCEPT ![j] = d]
          /\ pc' = [pc EXCEPT ![j] = p]
    BY <1>2, DispatchFacts
  <2> QED
    BY <2>1, <2>2, <2>3 DEF jobVars
<1>3. ASSUME NEW j \in Jobs, CallPrimary(j) PROVE FanHolds'
  BY <1>3 DEF CallPrimary, GoTo, jobVars
<1>4. ASSUME NEW j \in Jobs, CallFallback(j) PROVE FanHolds'
  BY <1>4 DEF CallFallback, GoTo, jobVars
<1>5. ASSUME NEW j \in Jobs, PlanShadows(j) PROVE FanHolds'
  BY <1>5 DEF PlanShadows, GoTo, jobVars
<1>6. ASSUME NEW j \in Jobs, NEW r \in Requests, Submit(j, r) PROVE FanHolds'
  <2>1. /\ pc[j] = "new" /\ r \in Request
        /\ UNCHANGED <<policyVars, jury, used, shadows, sent>>
    BY <1>6, SubmitFacts
  <2>2. Read(creds, allow, rule) \in Seen /\ Read(creds, allow, rule).allow = allow
    BY ReadIsSeen
  <2>3. /\ jury[j] = {} /\ fan[j] = {}
        /\ \A c \in sent : c.job # j
        /\ \A s \in shadows : s.job # j
        /\ \A k \in Jobs : j \notin targets[k]
    BY <2>1 DEF NewIsUnknown
  <2>4. CASE Refused(j)
    BY <2>1, <2>4 DEF Refused, policyVars, jobVars
  <2>5. ASSUME NEW d \in Decision, NEW T \in SUBSET Jobs, NEW p \in {"call", "queued"},
               NEW who \in {"api", "worker"}, NEW asked \in Sensitivities,
               SoundDecision(d, asked, allow), Accepted(j, r, d, T, p, who)
        PROVE  FanHolds'
    BY <2>1, <2>2, <2>3, <2>5 DEF Accepted
  <2> QED
    BY <1>6, <2>4, <2>5, SubmitFacts
<1>7. ASSUME NEW j \in Jobs, NEW m \in Models, CallJuror(j, m) PROVE FanHolds'
  BY <1>7 DEF CallJuror, GoTo, jobVars
<1>8. ASSUME NEW j \in Jobs, NEW m \in Models, CallFanout(j, m) PROVE FanHolds'
  BY <1>8 DEF CallFanout, jobVars
<1>9. ASSUME PutRule \/ ArchiveRule \/ PatchClient \/ EditCredentials PROVE FanHolds'
  BY <1>9 DEF PutRule, ArchiveRule, PatchClient, EditCredentials, policyVars, jobVars
<1>10. ASSUME NEW j \in Jobs, ReadTargets(j) PROVE FanHolds'
  BY <1>10 DEF ReadTargets, policyVars, jobVars
<1>11. ASSUME NEW s \in shadows, RunShadow(s) PROVE FanHolds'
  BY <1>11 DEF RunShadow, policyVars, jobVars
<1>12. CASE UNCHANGED vars
  BY <1>12 DEF vars, policyVars, jobVars
<1> QED BY <1>1, <1>2, <1>3, <1>4, <1>5, <1>6, <1>7, <1>8, <1>9, <1>10, <1>11, <1>12 DEF
   Next, JobStep

\* Handlers read the opt-in, and history records every one that is given.
LEMMA OptInKnownStep ==
  ASSUME TypeOK, OptInKnown, [Next]_vars
  PROVE  OptInKnown'
<1> USE DEF TypeOK, OptInKnown
<1>1. ASSUME PatchClient PROVE OptInKnown'
  BY <1>1 DEF PatchClient
<1>2. ASSUME NEW j \in Jobs, Dispatch(j) PROVE OptInKnown'
  <2>1. /\ pc[j] = "queued"
        /\ UNCHANGED <<policyVars, jobVars, jury, fan, used, shadows, sent>>
        /\ seen' = [seen EXCEPT ![j] = Read(creds, allow, rule)]
    BY <1>2, DispatchFacts
  <2>2. Read(creds, allow, rule) \in Seen /\ Read(creds, allow, rule).allow = allow
    BY ReadIsSeen
  <2>3. PICK d \in Decision, p \in {"done", "call", "judge"} :
          /\ SoundDecision(d, sens[j], allow)
          /\ p # "done" => d.model \in Models
          /\ dec' = [dec EXCEPT ![j] = d]
          /\ pc' = [pc EXCEPT ![j] = p]
    BY <1>2, DispatchFacts
  <2> QED
    BY <2>1, <2>2, <2>3 DEF policyVars
<1>3. ASSUME NEW j \in Jobs, NEW r \in Requests, Submit(j, r) PROVE OptInKnown'
  <2>1. /\ pc[j] = "new" /\ r \in Request
        /\ UNCHANGED <<policyVars, jury, used, shadows, sent>>
    BY <1>3, SubmitFacts
  <2>2. Read(creds, allow, rule) \in Seen /\ Read(creds, allow, rule).allow = allow
    BY ReadIsSeen
  <2>4. CASE Refused(j)
    BY <2>1, <2>4 DEF Refused, policyVars, jobVars
  <2>5. ASSUME NEW d \in Decision, NEW T \in SUBSET Jobs, NEW p \in {"call", "queued"},
               NEW who \in {"api", "worker"}, NEW asked \in Sensitivities,
               SoundDecision(d, asked, allow), Accepted(j, r, d, T, p, who)
        PROVE  OptInKnown'
    BY <2>1, <2>2, <2>5 DEF Accepted, policyVars
  <2> QED
    BY <1>3, <2>4, <2>5, SubmitFacts
<1>4. ASSUME PutRule \/ ArchiveRule \/ EditCredentials PROVE OptInKnown'
  BY <1>4 DEF PutRule, ArchiveRule, EditCredentials, policyVars, jobVars
<1>5. ASSUME NEW j \in Jobs, GiveUp(j) \/ ReadTargets(j) \/ CallPrimary(j) \/
   CallFallback(j) \/ PlanShadows(j) PROVE OptInKnown'
  BY <1>5 DEF GiveUp, ReadTargets, CallPrimary, CallFallback, PlanShadows, policyVars,
     jobVars
<1>6. ASSUME NEW j \in Jobs, NEW m \in Models, CallJuror(j, m) \/ CallFanout(j, m) PROVE
   OptInKnown'
  BY <1>6 DEF CallJuror, CallFanout, policyVars, jobVars
<1>7. ASSUME NEW s \in shadows, RunShadow(s) PROVE OptInKnown'
  BY <1>7 DEF RunShadow, policyVars, jobVars
<1>8. CASE UNCHANGED vars
  BY <1>8 DEF vars, policyVars, jobVars
<1> QED BY <1>1, <1>2, <1>3, <1>4, <1>5, <1>6, <1>7, <1>8 DEF Next, JobStep

\* Shadows are planned at the level of the row.
LEMMA ShadowsHoldStep ==
  ASSUME TypeOK, NewIsUnknown, OptInKnown, ShadowsHold, [Next]_vars
  PROVE  ShadowsHold'
<1> USE DEF TypeOK, ShadowsHold
<1>1. ASSUME PatchClient PROVE ShadowsHold'
  <2>1. optedIn => optedIn'
    BY <1>1 DEF PatchClient
  <2> QED
    BY <1>1, <2>1 DEF PatchClient, Permitted, jobVars
<1>2. ASSUME NEW j \in Jobs, PlanShadows(j) PROVE ShadowsHold'
  <2>1. \A m \in ShadowTargets(j) : Permitted(m, sens[j], optedIn)
    BY DEF ShadowTargets, OptInKnown, Permitted
  <2> QED
    BY <1>2, <2>1 DEF PlanShadows, policyVars, jobVars
<1>3. ASSUME NEW j \in Jobs, NEW r \in Requests, Submit(j, r) PROVE ShadowsHold'
  <2>1. /\ pc[j] = "new" /\ r \in Request
        /\ UNCHANGED <<policyVars, jury, used, shadows, sent>>
    BY <1>3, SubmitFacts
  <2>2. Read(creds, allow, rule) \in Seen /\ Read(creds, allow, rule).allow = allow
    BY ReadIsSeen
  <2>3. /\ jury[j] = {} /\ fan[j] = {}
        /\ \A c \in sent : c.job # j
        /\ \A s \in shadows : s.job # j
        /\ \A k \in Jobs : j \notin targets[k]
    BY <2>1 DEF NewIsUnknown
  <2>4. CASE Refused(j)
    BY <2>1, <2>4 DEF Refused, policyVars, jobVars
  <2>5. ASSUME NEW d \in Decision, NEW T \in SUBSET Jobs, NEW p \in {"call", "queued"},
               NEW who \in {"api", "worker"}, NEW asked \in Sensitivities,
               SoundDecision(d, asked, allow), Accepted(j, r, d, T, p, who)
        PROVE  ShadowsHold'
    BY <2>1, <2>3, <2>5 DEF Accepted, policyVars
  <2> QED
    BY <1>3, <2>4, <2>5, SubmitFacts
<1>4. ASSUME NEW s \in shadows, RunShadow(s) PROVE ShadowsHold'
  BY <1>4 DEF RunShadow, policyVars, jobVars
<1>5. ASSUME PutRule \/ ArchiveRule \/ EditCredentials PROVE ShadowsHold'
  BY <1>5 DEF PutRule, ArchiveRule, EditCredentials, policyVars, jobVars
<1>6. ASSUME NEW j \in Jobs, GiveUp(j) \/ Dispatch(j) \/ ReadTargets(j) \/
   CallPrimary(j) \/ CallFallback(j) PROVE ShadowsHold'
  BY <1>6 DEF GiveUp, Dispatch, ReadTargets, CallPrimary, CallFallback, policyVars,
     jobVars
<1>7. ASSUME NEW j \in Jobs, NEW m \in Models, CallJuror(j, m) \/ CallFanout(j, m) PROVE
   ShadowsHold'
  BY <1>7 DEF CallJuror, CallFanout, policyVars, jobVars
<1>8. CASE UNCHANGED vars
  BY <1>8 DEF vars, policyVars, jobVars
<1> QED BY <1>1, <1>2, <1>3, <1>4, <1>5, <1>6, <1>7, <1>8 DEF Next, JobStep

\* So every call passes the gate at the level of the row, with an opt-in that was given.
LEMMA SentHoldsStep ==
  ASSUME TypeOK, NewIsUnknown, DecisionHolds, JuryHolds, FanHolds, OptInKnown,
         ShadowsHold, SentHolds, [Next]_vars
  PROVE  SentHolds'
<1> USE DEF TypeOK, SentHolds
<1>1. ASSUME PatchClient PROVE SentHolds'
  <2>1. optedIn => optedIn'
    BY <1>1 DEF PatchClient
  <2> QED
    BY <1>1, <2>1 DEF PatchClient, Permitted, jobVars
<1>2. ASSUME NEW j \in Jobs, CallPrimary(j) PROVE SentHolds'
  <2>1. \A t \in {j} : Permitted(dec[j].model, sens[t], optedIn)
    <3>1. /\ dec[j].effective \in Sensitivities /\ sens[j] \in Sensitivities
          /\ seen[j].allow \in BOOLEAN /\ (seen[j].allow => optedIn)
      BY DEF Decision, Seen, OptInKnown
    <3>2. /\ AtLeast(dec[j].effective, sens[j])
          /\ Permitted(dec[j].model, dec[j].effective, seen[j].allow)
      BY <1>2, ModelsAssumption DEF CallPrimary, DecisionHolds, SoundDecision
    <3> QED
      BY <3>1, <3>2, GateMonotone
  <2>2. /\ UNCHANGED <<policyVars, jobVars>>
        /\ \A c \in sent' : c \in sent \/ (c.job \in {j} /\ c.model = dec[j].model)
    BY <1>2 DEF CallPrimary, Calls
  <2> QED
    BY <2>1, <2>2 DEF policyVars, jobVars
<1>3. ASSUME NEW j \in Jobs, CallFallback(j) PROVE SentHolds'
  <2> DEFINE m == FallbackTarget(dec[j], Registered)
  <2>1. CASE m = NoModel
    BY <1>3, <2>1 DEF CallFallback, policyVars, jobVars
  <2>2. CASE m # NoModel
    <3>1. Permitted(m, sens[j], optedIn)
      <4>1. /\ dec[j].effective \in Sensitivities /\ sens[j] \in Sensitivities
            /\ seen[j].allow \in BOOLEAN /\ (seen[j].allow => optedIn)
        BY DEF Decision, Seen, OptInKnown
      <4>2. /\ AtLeast(dec[j].effective, sens[j])
            /\ Permitted(m, dec[j].effective, seen[j].allow)
        BY <1>3, <2>2 DEF CallFallback, DecisionHolds, SoundDecision, FallbackTarget
      <4> QED
        BY <4>1, <4>2, GateMonotone
    <3>2. /\ UNCHANGED <<policyVars, jobVars>>
          /\ \A c \in sent' : c \in sent \/ (c.job = j /\ c.model = m)
      BY <1>3, <2>2 DEF CallFallback, Calls
    <3> QED
      BY <3>1, <3>2 DEF policyVars, jobVars
  <2> QED
    BY <2>1, <2>2
<1>4. ASSUME NEW j \in Jobs, NEW r \in Requests, Submit(j, r) PROVE SentHolds'
  <2>1. /\ pc[j] = "new" /\ r \in Request
        /\ UNCHANGED <<policyVars, jury, used, shadows, sent>>
    BY <1>4, SubmitFacts
  <2>2. Read(creds, allow, rule) \in Seen /\ Read(creds, allow, rule).allow = allow
    BY ReadIsSeen
  <2>3. /\ jury[j] = {} /\ fan[j] = {}
        /\ \A c \in sent : c.job # j
        /\ \A s \in shadows : s.job # j
        /\ \A k \in Jobs : j \notin targets[k]
    BY <2>1 DEF NewIsUnknown
  <2>4. CASE Refused(j)
    BY <2>1, <2>4 DEF Refused, policyVars, jobVars
  <2>5. ASSUME NEW d \in Decision, NEW T \in SUBSET Jobs, NEW p \in {"call", "queued"},
               NEW who \in {"api", "worker"}, NEW asked \in Sensitivities,
               SoundDecision(d, asked, allow), Accepted(j, r, d, T, p, who)
        PROVE  SentHolds'
    BY <2>1, <2>3, <2>5 DEF Accepted, policyVars
  <2> QED
    BY <1>4, <2>4, <2>5, SubmitFacts
<1>5. ASSUME NEW j \in Jobs, NEW m \in Models, CallJuror(j, m) PROVE SentHolds'
  <2>1. \A t \in ({j} \cup targets[j]) : Permitted(m, sens[t], optedIn)
    BY <1>5 DEF CallJuror, JuryHolds, OptInKnown, Permitted
  <2>2. /\ UNCHANGED <<policyVars, jobVars>>
        /\ \A c \in sent' : c \in sent \/ (c.job \in ({j} \cup targets[j]) /\ c.model = m)
    BY <1>5 DEF CallJuror, Calls
  <2> QED
    BY <2>1, <2>2 DEF policyVars, jobVars
<1>6. ASSUME NEW j \in Jobs, NEW m \in Models, CallFanout(j, m) PROVE SentHolds'
  <2>1. \A t \in {j} : Permitted(m, sens[t], optedIn)
    BY <1>6 DEF CallFanout, FanHolds, OptInKnown, Permitted
  <2>2. /\ UNCHANGED <<policyVars, jobVars>>
        /\ \A c \in sent' : c \in sent \/ (c.job \in {j} /\ c.model = m)
    BY <1>6 DEF CallFanout, Calls
  <2> QED
    BY <2>1, <2>2 DEF policyVars, jobVars
<1>7. ASSUME NEW s \in shadows, RunShadow(s) PROVE SentHolds'
  <2>1. \A t \in {s.job} : Permitted(s.model, sens[t], optedIn)
    BY <1>7 DEF RunShadow, ShadowsHold
  <2>2. /\ UNCHANGED <<policyVars, jobVars>>
        /\ \A c \in sent' : c \in sent \/ (c.job \in {s.job} /\ c.model = s.model)
    BY <1>7 DEF RunShadow, Calls
  <2> QED
    BY <2>1, <2>2 DEF policyVars, jobVars
<1>8. ASSUME PutRule \/ ArchiveRule \/ EditCredentials PROVE SentHolds'
  BY <1>8 DEF PutRule, ArchiveRule, EditCredentials, policyVars, jobVars
<1>9. ASSUME NEW j \in Jobs, GiveUp(j) \/ Dispatch(j) \/ ReadTargets(j) \/
   PlanShadows(j) PROVE SentHolds'
  BY <1>9 DEF GiveUp, Dispatch, ReadTargets, PlanShadows, policyVars, jobVars
<1>10. CASE UNCHANGED vars
  BY <1>10 DEF vars, policyVars, jobVars
<1> QED BY <1>1, <1>2, <1>3, <1>4, <1>5, <1>6, <1>7, <1>8, <1>9, <1>10 DEF Next, JobStep

\* All of it together.
LEMMA IInvStep == IInv /\ [Next]_vars => IInv'
  BY TypeStep, NewIsUnknownStep, DecisionHoldsStep, JuryHoldsStep, FanHoldsStep,
     OptInKnownStep, ShadowsHoldStep, SentHoldsStep DEF IInv

\* Nothing is routed or sent at first.
LEMMA IInvInit == Init => IInv
<1> SUFFICES ASSUME Init PROVE IInv
  OBVIOUS
<1> USE DEF Init
<1>1. NoDecision \in Decision /\ NothingSeen \in Seen /\ NothingSeen.allow = FALSE
  BY DEF NoDecision, Decision, Sensitivities, NothingSeen, Seen
<1>2. TypeOK
  BY <1>1 DEF TypeOK, Sensitivities
<1>3. NewIsUnknown /\ DecisionHolds /\ JuryHolds /\ FanHolds
  BY DEF NewIsUnknown, DecisionHolds, JuryHolds, FanHolds
<1>4. OptInKnown /\ ShadowsHold /\ SentHolds
  BY <1>1 DEF OptInKnown, ShadowsHold, SentHolds
<1> QED
  BY <1>2, <1>3, <1>4 DEF IInv

LEMMA Invariance == Spec => []IInv
  BY IInvInit, IInvStep, PTL DEF Spec

-----------------------------------------------------------------------------
(* The theorems. *)

\* Every variable keeps its type: in particular no call is made without a model.
THEOREM TypeCorrect == Spec => []TypeOK
<1>1. IInv => TypeOK
  BY DEF IInv
<1> QED
  BY <1>1, Invariance, PTL

\* A row stored as confidential stays local on every path: the request, the worker that
\* routes it anew, the fallback, fan-out, shadows, and whoever judges it later.
THEOREM ConfidentialIsLocal == Spec => []ConfidentialStaysLocal
<1>1. IInv => ConfidentialStaysLocal
  BY DEF IInv, SentHolds, ConfidentialStaysLocal, Permitted
<1> QED
  BY <1>1, Invariance, PTL

\* The content of an internal row meets a cloud model only after an opt-in.
THEOREM InternalIsOptedIn == Spec => []InternalNeedsOptIn
<1>1. IInv => InternalNeedsOptIn
  BY DEF IInv, SentHolds, InternalNeedsOptIn, Permitted
<1> QED
  BY <1>1, Invariance, PTL

=============================================================================
