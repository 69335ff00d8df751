--------------------------- MODULE Access_proofs ---------------------------
(***************************************************************************)
(* Proofs about Access, for any apps, connectors, limits and edits and any *)
(* finite number of requests.                                              *)
(***************************************************************************)
EXTENDS Access, FiniteSetTheorems, TLAPS

\* What each request asks for is fixed when it arrives.
AskTyped(q) ==
    /\ q.op = "authorize" => q.conn \in Connectors
    /\ q.op = "exchange" => q.conn \in Connectors /\ q.key \in Nat /\ q.grant \in Requests
    /\ q.op = "call" => q.grant \in Requests
    /\ q.op = "post" => q.app \in Apps /\ q.key \in Nat

LEMMA AsksTyped ==
  ASSUME NEW q \in Asks
  PROVE  AskTyped(q) /\ q.op \in {"authorize", "exchange", "call", "post"}
BY AccessAssumption DEF Asks, AskTyped

\* A request has drawn nothing before it is done, it goes back to itself as long as that is
\* so, and every grant goes back to a code.  Where a request stands tells what it asks for,
\* and what it presents was drawn or is a secret of old or of now.
Grants ==
    /\ pc \in [Requests -> PCs]
    /\ grant \in [Requests -> {"none", "code", "pair"}]
    /\ origin \in [Requests -> Requests]
    /\ raced \in [Requests -> Nat]
    /\ spent \subseteq {g \in Requests : grant[g] # "none"}
    /\ DOMAIN ask = Requests
    /\ \A r \in Requests :
          /\ grant[r] # "none" => pc[r] = "done" /\ grant[origin[r]] = "code"
          /\ grant[r] # "pair" => origin[r] = r
          /\ pc[r] # "new" => AskTyped(ask[r])
          /\ pc[r] = "client" => ask[r].op \in {"authorize", "exchange"}
          /\ pc[r] = "issue" => ask[r].op = "authorize"
          /\ pc[r] \in {"grant", "mint"} => ask[r].op = "exchange"
          /\ pc[r] \in {"token", "connector", "app"} => ask[r].op = "call"
          /\ pc[r] \in {"key", "bucket", "incr", "ttl", "limited"} => ask[r].op = "post"
          /\ pc[r] # "new" /\ ask[r].op \in {"exchange", "call"} => grant[ask[r].grant] # "none"

LEMMA InitGrants == Init => Grants
BY AccessAssumption DEF Init, Grants, PCs, None, AskTyped

LEMMA StepGrants == Grants /\ [Next]_vars => Grants'
<1> SUFFICES ASSUME Grants, [Next]_vars PROVE Grants'
  OBVIOUS
<1>1. ASSUME NEW r \in Requests, NEW q \in Asks, At(r, "new"), Arrive(r, q) PROVE Grants'
  BY <1>1, AsksTyped DEF Arrive, At, GoTo, Grants, AskTyped, PCs, gateVars, grantVars
<1>2. ASSUME NEW r \in Requests, pc[r] # "new", pc[r] # "done",
             NEW p \in PCs \ {"new"}, pc' = [pc EXCEPT ![r] = p],
             p \in {"bucket", "incr", "ttl", "limited"} => ask[r].op = "post",
             p \in {"token", "connector", "app"} => ask[r].op = "call",
             p = "issue" => ask[r].op = "authorize",
             p \in {"grant", "mint"} => ask[r].op = "exchange",
             p \notin {"client", "key"},
             UNCHANGED <<ask, grant, origin, raced, spent>>
      PROVE  Grants'
  BY <1>2 DEF Grants, AskTyped
<1>3. ASSUME NEW r \in Requests, ReadClient(r) PROVE Grants'
  <2>1. PICK p \in {"issue", "grant", "refused"} :
           /\ pc' = [pc EXCEPT ![r] = p]
           /\ p = "issue" => ask[r].op = "authorize"
           /\ p = "grant" => ask[r].op = "exchange"
    BY <1>3 DEF ReadClient, At, Check, GoTo, Grants
  <2> QED
    BY <1>2, <1>3, <2>1 DEF ReadClient, At, idle, grantVars, PCs
<1>4. ASSUME NEW r \in Requests, IssueCode(r) PROVE Grants'
  BY <1>4 DEF IssueCode, At, GoTo, idle, Grants, AskTyped, PCs
<1>5. ASSUME NEW r \in Requests, Mint(r) PROVE Grants'
  <2>1. ask[r].grant \in Requests /\ grant[ask[r].grant] # "none" /\ pc[r] = "mint"
    BY <1>5 DEF Mint, At, Grants, AskTyped
  <2> QED
    BY <1>5, <2>1 DEF Mint, At, GoTo, idle, Grants, AskTyped, PCs
<1>6. ASSUME NEW r \in Requests,
             ReadGrant(r) \/ ReadToken(r) \/ ReadConnector(r) \/ ReadApp(r)
      PROVE  Grants'
  <2>1. pc[r] \in {"grant", "token", "connector", "app"}
    BY <1>6 DEF ReadGrant, ReadToken, ReadConnector, ReadApp, At
  <2>2. PICK p \in {"mint", "connector", "app", "job", "refused"} :
           /\ pc' = [pc EXCEPT ![r] = p]
           /\ p = "mint" => pc[r] = "grant"
           /\ p \in {"connector", "app"} => pc[r] \in {"token", "connector"}
    BY <1>6 DEF ReadGrant, ReadToken, ReadConnector, ReadApp, At, Check, GoTo
  <2>3. UNCHANGED <<ask, grant, origin, raced, spent>>
    BY <1>6 DEF ReadGrant, ReadToken, ReadConnector, ReadApp, idle, grantVars
  <2> QED
    BY <1>2, <2>1, <2>2, <2>3 DEF Grants, PCs
<1>7. ASSUME NEW r \in Requests,
             ReadKey(r) \/ ReadClock(r) \/ Incr(r) \/ SetTtl(r)
      PROVE  Grants'
  <2>1. pc[r] \in {"key", "bucket", "incr", "ttl"}
    BY <1>7 DEF ReadKey, ReadClock, Incr, SetTtl, At
  <2>2. PICK p \in {"bucket", "incr", "ttl", "limited", "job", "refused"} :
           pc' = [pc EXCEPT ![r] = p]
    BY <1>7 DEF ReadKey, ReadClock, Incr, SetTtl, Check, GoTo, Verdict
  <2>3. UNCHANGED <<ask, grant, origin, raced, spent>>
    BY <1>7 DEF ReadKey, ReadClock, Incr, SetTtl, idle, grantVars
  <2> QED
    BY <1>2, <2>1, <2>2, <2>3 DEF Grants, PCs
<1>8. ASSUME NEW r \in Requests, CreateJob(r) \/ Fail(r) PROVE Grants'
  <2>1. pc[r] \notin {"new", "done"}
    BY <1>8 DEF CreateJob, Fail, At
  <2>2. PICK p \in {"done", "refused"} : pc' = [pc EXCEPT ![r] = p]
    BY <1>8 DEF CreateJob, Fail, GoTo
  <2>3. UNCHANGED <<ask, grant, origin, raced, spent>>
    BY <1>8 DEF CreateJob, Fail, idle, grantVars
  <2> QED
    BY <1>2, <2>1, <2>2, <2>3 DEF PCs
<1>9. ASSUME NEW r \in Requests, Age(r) PROVE Grants'
  BY <1>9 DEF Age, idle, Grants, AskTyped
<1>10. CASE UNCHANGED <<pc, ask, grant, origin, raced, spent>>
  BY <1>10 DEF Grants, AskTyped
<1>11. ASSUME NEW x, Withdraw(x) \/ Reinstate(x) \/ Rotate(x) PROVE Grants'
  BY <1>10, <1>11 DEF Withdraw, Reinstate, Rotate, Edit, grantVars
<1>12. ASSUME NEW a, NEW n, SetLimit(a, n) PROVE Grants'
  BY <1>10, <1>12 DEF SetLimit, Edit, grantVars
<1>13. ASSUME NEW k, Expire(k) PROVE Grants'
  BY <1>10, <1>13 DEF Expire, idle, grantVars
<1>14. CASE Tick \/ UNCHANGED vars
  BY <1>10, <1>14 DEF Tick, vars, grantVars
<1> QED
  BY <1>1, <1>3, <1>4, <1>5, <1>6, <1>7, <1>8, <1>9, <1>11, <1>12, <1>13, <1>14 DEF Next, Step

LEMMA GrantsHold == Spec => []Grants
BY InitGrants, StepGrants, PTL DEF Spec

-----------------------------------------------------------------------------
(* ApprovalIsOne. *)

\* What is no code has not been raced for, so that an approval starts at one.
RacedAreCodes == \A k \in Requests : grant[k] # "code" => raced[k] = 0

Approvals == RacedAreCodes /\ ApprovalIsOne

LEMMA UnspentIsFinite == \A k : IsFiniteSet(Unspent(k)) /\ IsFiniteSet(Unspent(k)')
<1>1. \A k : Unspent(k) \subseteq Requests /\ Unspent(k)' \subseteq Requests
  BY DEF Unspent
<1> QED
  BY <1>1, FS_Subset, AccessAssumption

LEMMA OneMore ==
  ASSUME NEW S, IsFiniteSet(S), NEW x, x \notin S
  PROVE  IsFiniteSet(S \cup {x}) /\ Cardinality(S \cup {x}) = Cardinality(S) + 1
BY FS_AddElement

LEMMA InitApprovals == Init => Approvals
BY DEF Init, Approvals, RacedAreCodes, ApprovalIsOne

LEMMA IssueApprovals ==
  ASSUME Grants, Approvals, NEW r \in Requests, IssueCode(r)
  PROVE  Approvals'
<1> USE DEF Grants, Approvals, RacedAreCodes, ApprovalIsOne
<1>1. /\ pc[r] = "issue" /\ grant[r] = "none" /\ r \notin spent /\ origin[r] = r
      /\ grant' = [grant EXCEPT ![r] = "code"]
      /\ UNCHANGED <<spent, origin, raced>>
  BY DEF IssueCode, At
<1>2. RacedAreCodes'
  BY <1>1
<1>3. ASSUME NEW k \in Requests, grant'[k] = "code" PROVE Cardinality(Unspent(k)') = 1 + raced'[k]
  <2>1. CASE k = r
    <3>1. Unspent(r)' = {r}
      BY <1>1 DEF Unspent
    <3>2. raced[r] = 0
      BY <1>1
    <3>3. Cardinality({r}) = 1
      BY FS_Singleton
    <3> QED
      BY <1>1, <2>1, <3>1, <3>2, <3>3
  <2>2. CASE k # r
    <3>1. Unspent(k)' = Unspent(k)
      BY <1>1, <2>2 DEF Unspent
    <3> QED
      BY <1>1, <1>3, <2>2, <3>1
  <2> QED
    BY <2>1, <2>2
<1> QED
  BY <1>2, <1>3

LEMMA MintApprovals ==
  ASSUME Grants, Approvals, NEW r \in Requests, Mint(r)
  PROVE  Approvals'
<1> USE DEF Grants, Approvals, RacedAreCodes, ApprovalIsOne
<1>0. PICK g \in Requests, o \in Requests :
         /\ g = ask[r].grant
         /\ o = origin[g]
         /\ grant[g] # "none" /\ grant[o] = "code" /\ pc[r] = "mint"
  BY DEF Mint, At, AskTyped
<1>1. grant[r] = "none" /\ r \notin spent /\ origin[r] = r /\ g # r /\ o # r
  BY <1>0
<1>2. /\ grant' = [grant EXCEPT ![r] = "pair"]
      /\ spent' = spent \cup {g}
      /\ origin' = [origin EXCEPT ![r] = o]
      /\ raced' = [raced EXCEPT ![o] = IF g \in spent THEN raced[o] + 1 ELSE raced[o]]
  BY <1>0 DEF Mint
<1>3. RacedAreCodes'
  BY <1>0, <1>1, <1>2
<1>4. ASSUME NEW k \in Requests, grant'[k] = "code" PROVE Cardinality(Unspent(k)') = 1 + raced'[k]
  <2>0. grant[k] = "code"
    BY <1>0, <1>1, <1>2, <1>4
  <2>1. CASE k # o
    <3>1. Unspent(k)' = Unspent(k)
      BY <1>0, <1>1, <1>2, <2>1 DEF Unspent
    <3> QED
      BY <1>2, <2>0, <2>1, <3>1
  <2>2. CASE k = o
    <3>1. Unspent(o)' = (Unspent(o) \ {g}) \cup {r}
      BY <1>0, <1>1, <1>2 DEF Unspent
    <3>2. r \notin Unspent(o) \ {g}
      BY <1>1 DEF Unspent
    <3>3. g \in Unspent(o) <=> g \notin spent
      BY <1>0 DEF Unspent
    <3>4. IsFiniteSet(Unspent(o)) /\ Cardinality(Unspent(o)) = 1 + raced[o] /\ raced[o] \in Nat
      BY <1>0, UnspentIsFinite
    <3>5. /\ IsFiniteSet(Unspent(o) \ {g})
          /\ Cardinality(Unspent(o) \ {g}) = IF g \in Unspent(o) THEN Cardinality(Unspent(o)) - 1
                                                                ELSE Cardinality(Unspent(o))
      BY <3>4, FS_RemoveElement
    <3>6. Cardinality(Unspent(o)') = Cardinality(Unspent(o) \ {g}) + 1
      <4>1. PICK T : T = Unspent(o) \ {g}
        OBVIOUS
      <4>2. IsFiniteSet(T) /\ r \notin T
        BY <4>1, <3>2, <3>5
      <4> HIDE DEF Grants, Approvals, RacedAreCodes, ApprovalIsOne
      <4>3. Cardinality(T \cup {r}) = Cardinality(T) + 1
        BY <4>2, OneMore
      <4> QED
        BY <4>1, <4>3, <3>1
    <3> QED
      BY <1>0, <1>2, <2>2, <3>3, <3>4, <3>5, <3>6
  <2> QED
    BY <2>1, <2>2
<1> QED
  BY <1>3, <1>4

LEMMA StepApprovals == Grants /\ Approvals /\ [Next]_vars => Approvals'
<1> SUFFICES ASSUME Grants, Approvals, [Next]_vars PROVE Approvals'
  OBVIOUS
<1>1. ASSUME NEW r \in Requests, IssueCode(r) \/ Mint(r) PROVE Approvals'
  BY <1>1, IssueApprovals, MintApprovals
<1>2. CASE UNCHANGED <<grant, spent, origin, raced>>
  BY <1>2 DEF Approvals, RacedAreCodes, ApprovalIsOne, Unspent
<1>3. ASSUME NEW r \in Requests, Step(r), ~ IssueCode(r), ~ Mint(r) PROVE Approvals'
  BY <1>2, <1>3 DEF Step, ReadClient, ReadGrant, ReadToken, ReadConnector, ReadApp, ReadKey,
                    ReadClock, Incr, SetTtl, CreateJob, Fail, grantVars
<1>4. ASSUME NEW r, NEW q, Arrive(r, q) \/ Age(r) PROVE Approvals'
  BY <1>2, <1>4 DEF Arrive, Age, grantVars
<1>5. ASSUME NEW x, NEW n, Withdraw(x) \/ Reinstate(x) \/ Rotate(x) \/ SetLimit(x, n) \/ Expire(x)
      PROVE  Approvals'
  BY <1>2, <1>5 DEF Withdraw, Reinstate, Rotate, SetLimit, Edit, Expire, grantVars
<1>6. CASE Tick \/ UNCHANGED vars
  BY <1>2, <1>6 DEF Tick, vars, grantVars
<1> QED
  BY <1>1, <1>3, <1>4, <1>5, <1>6 DEF Next

\* For any chain of refreshes and any overlap of exchanges, an approval of the consent page
\* is worth one code or pair, plus one for each exchange that committed on a spent row.
THEOREM OneApproval == Spec => []ApprovalIsOne
<1>1. Init => Grants /\ Approvals
  BY InitGrants, InitApprovals
<1>2. Grants /\ Approvals /\ [Next]_vars => (Grants /\ Approvals)'
  BY StepGrants, StepApprovals
<1>3. Grants /\ Approvals => ApprovalIsOne
  BY DEF Approvals
<1> QED
  BY <1>1, <1>2, <1>3, PTL DEF Spec

-----------------------------------------------------------------------------
(* WithdrawnStaysOut. *)

Rows == Connectors \cup Apps

\* Secrets are counted, a request presents one of old or of now, jobs are made last.
Presented ==
    /\ secret \in [Rows -> Nat]
    /\ age \in [Requests -> {"valid", "stale", "over"}]
    /\ made \subseteq {r \in Requests : pc[r] = "done"}
    /\ \A r \in Requests : pc[r] # "new" =>
          /\ ask[r].op = "exchange" => ask[r].key <= secret[ask[r].conn]
          /\ ask[r].op = "post" => ask[r].key <= secret[ask[r].app]

\* Why a barred request r cannot pass the checks that are still ahead of it.
StillOut(r) ==
    /\ pc[r] \in {"client", "grant", "token", "connector", "app", "key", "refused"}
    /\ pc[r] \in {"client", "token", "key"} => Barred(ask[r])
    /\ pc[r] = "grant" => ask[r].grant \in spent \/ age[ask[r].grant] = "over"
    /\ pc[r] = "connector" => Conn(ask[r]) \notin live \/ AppFor(ask[r]) \notin live
    /\ pc[r] = "app" => AppFor(ask[r]) \notin live

BarredAreOut ==
    /\ barred \subseteq Requests
    /\ \A r \in barred : StillOut(r)

\* Nothing that keeps a request out is taken back.
Tightened ==
    /\ live' \subseteq live
    /\ spent \subseteq spent'
    /\ \A x \in Rows : secret[x] <= secret'[x]
    /\ \A g \in Requests : /\ age[g] = "over" => age'[g] = "over"
                           /\ age[g] # "valid" => age'[g] # "valid"

\* What a request asks for, and the rows that it names, stay the same.
AskStays(r) ==
    /\ pc'[r] # "new" /\ ask'[r] = ask[r]
    /\ ask[r].op = "call" => ask'[ask[r].grant] = ask[ask[r].grant]

LEMMA InitPresented == Init => Presented /\ BarredAreOut
BY DEF Init, Presented, BarredAreOut, Rows

LEMMA OnlyReinstate == Grants /\ Presented /\ [Next]_vars => Tightened \/ barred' = {}
<1> SUFFICES ASSUME Grants, Presented, [Next]_vars PROVE Tightened \/ barred' = {}
  OBVIOUS
<1> USE DEF Presented, Rows
<1>1. ASSUME UNCHANGED <<live, secret, age>>, spent \subseteq spent' PROVE Tightened
  BY <1>1 DEF Tightened
<1>2. ASSUME NEW r \in Requests, Step(r) PROVE Tightened
  BY <1>1, <1>2 DEF Step, ReadClient, IssueCode, ReadGrant, Mint, ReadToken, ReadConnector, ReadApp,
        ReadKey, ReadClock, Incr, SetTtl, CreateJob, Fail, grantVars, idle, gateVars
<1>3. ASSUME NEW r \in Requests, Age(r) PROVE Tightened
  BY <1>3 DEF Age, idle, gateVars, Tightened
<1>4. ASSUME NEW r, NEW q, Arrive(r, q) PROVE Tightened
  BY <1>1, <1>4 DEF Arrive, gateVars, grantVars
<1>5. ASSUME NEW x \in Rows, Withdraw(x) \/ Reinstate(x) \/ Rotate(x) PROVE Tightened \/ barred' = {}
  BY <1>5 DEF Withdraw, Reinstate, Rotate, Edit, grantVars, Tightened
<1>6. ASSUME NEW a, NEW n, SetLimit(a, n) PROVE Tightened
  BY <1>1, <1>6 DEF SetLimit, Edit, grantVars
<1>7. ASSUME NEW k, Expire(k) PROVE Tightened
  BY <1>1, <1>7 DEF Expire, idle, gateVars, grantVars
<1>8. CASE Tick \/ UNCHANGED vars
  BY <1>1, <1>8 DEF Tick, vars, gateVars, grantVars
<1> QED
  BY <1>2, <1>3, <1>4, <1>5, <1>6, <1>7, <1>8 DEF Next

LEMMA AsksStay ==
  ASSUME Grants, [Next]_vars, NEW r \in Requests, pc[r] # "new"
  PROVE  AskStays(r)
<1>1. /\ ask[r].op = "call" => ask[r].grant \in Requests /\ pc[ask[r].grant] # "new"
      /\ pc \in [Requests -> PCs]
  BY DEF Grants, AskTyped
<1>2. CASE ask' = ask /\ pc'[r] # "new"
  BY <1>2 DEF AskStays
<1>3. ASSUME NEW s \in Requests, Step(s) \/ Age(s) PROVE AskStays(r)
  BY <1>1, <1>2, <1>3 DEF Step, ReadClient, IssueCode, ReadGrant, Mint, ReadToken, ReadConnector,
        ReadApp, ReadKey, ReadClock, Incr, SetTtl, CreateJob, Fail, Age, idle, Check, GoTo, Verdict
<1>4. ASSUME NEW s \in Requests, At(s, "new"), NEW q, Arrive(s, q) PROVE AskStays(r)
  BY <1>1, <1>4 DEF Arrive, At, GoTo, AskStays, Grants
<1>5. ASSUME NEW x, NEW n, Withdraw(x) \/ Reinstate(x) \/ Rotate(x) \/ SetLimit(x, n) \/ Expire(x)
      PROVE  AskStays(r)
  BY <1>2, <1>5 DEF Withdraw, Reinstate, Rotate, SetLimit, Expire, Edit, idle
<1>6. CASE Tick \/ UNCHANGED vars
  BY <1>2, <1>6 DEF Tick, vars
<1> QED
  BY <1>3, <1>4, <1>5, <1>6 DEF Next

LEMMA StepPresented == Grants /\ Presented /\ [Next]_vars => Presented'
<1> SUFFICES ASSUME Grants, Presented, [Next]_vars PROVE Presented'
  OBVIOUS
<1>0. \A r \in Requests : pc[r] # "new" => AskStays(r) /\ AskTyped(ask[r])
  BY AsksStay DEF Grants
<1>1. ASSUME secret' \in [Rows -> Nat], \A x \in Rows : secret[x] <= secret'[x],
             NEW r \in Requests, pc[r] # "new"
      PROVE  /\ ask'[r].op = "exchange" => ask'[r].key <= secret'[ask'[r].conn]
             /\ ask'[r].op = "post" => ask'[r].key <= secret'[ask'[r].app]
  <2>1. AskStays(r) /\ AskTyped(ask[r])
    BY <1>0, <1>1
  <2>2. ASSUME NEW x \in Rows, NEW k \in Nat, k <= secret[x] PROVE k <= secret'[x]
    BY <1>1, <2>2 DEF Presented
  <2> QED
    BY <1>1, <2>1, <2>2 DEF AskStays, AskTyped, Rows, Presented
<1>2. ASSUME secret' \in [Rows -> Nat], \A x \in Rows : secret[x] <= secret'[x],
             age' \in [Requests -> {"valid", "stale", "over"}],
             made' \subseteq {r \in Requests : pc'[r] = "done"},
             \A r \in Requests : pc[r] = "new" => pc'[r] = "new"
      PROVE  Presented'
  BY <1>1, <1>2 DEF Presented
<1>3. \A x \in Rows : secret[x] <= secret[x]
  BY DEF Presented
<1>4. ASSUME NEW r \in Requests, Step(r) PROVE Presented'
  <2>1. /\ UNCHANGED <<secret, age>>
        /\ \E p \in PCs : pc' = [pc EXCEPT ![r] = p]
        /\ pc[r] \notin {"new", "done"}
        /\ made' = made \/ (made' = made \cup {r} /\ pc' = [pc EXCEPT ![r] = "done"])
    BY <1>4 DEF Step, ReadClient, IssueCode, ReadGrant, Mint, ReadToken, ReadConnector, ReadApp,
        ReadKey, ReadClock, Incr, SetTtl, CreateJob, Fail, At, Check, GoTo, Verdict, PCs,
        grantVars, idle, gateVars
  <2> QED
    BY <1>2, <1>3, <2>1 DEF Presented, Grants
<1>5. ASSUME NEW r \in Requests, Age(r) PROVE Presented'
  BY <1>2, <1>3, <1>5 DEF Age, idle, gateVars, Presented, Grants
<1>6. ASSUME NEW r \in Requests, NEW q \in Asks, At(r, "new"), Arrive(r, q) PROVE Presented'
  <2>1. /\ UNCHANGED <<secret, age, made>>
        /\ \E p \in PCs : pc' = [pc EXCEPT ![r] = p]
        /\ ask' = [ask EXCEPT ![r] = q]
        /\ q.op = "exchange" => q.key <= secret[q.conn]
        /\ q.op = "post" => q.key <= secret[q.app]
        /\ pc[r] = "new"
    BY <1>6, AsksTyped DEF Arrive, At, GoTo, PCs, gateVars, grantVars
  <2> QED
    BY <1>1, <1>3, <2>1 DEF Presented, Grants
<1>7. ASSUME NEW x \in Rows, Withdraw(x) \/ Reinstate(x) \/ Rotate(x) PROVE Presented'
  BY <1>2, <1>7 DEF Withdraw, Reinstate, Rotate, Edit, grantVars, Presented
<1>8. ASSUME UNCHANGED <<secret, age, made, pc>> PROVE Presented'
  BY <1>2, <1>3, <1>8 DEF Presented
<1>9. ASSUME NEW a, NEW n, SetLimit(a, n) \/ Expire(a) PROVE Presented'
  BY <1>8, <1>9 DEF SetLimit, Expire, Edit, grantVars, idle, gateVars
<1>10. CASE Tick \/ UNCHANGED vars
  BY <1>8, <1>10 DEF Tick, vars, gateVars, grantVars
<1> QED
  BY <1>4, <1>5, <1>6, <1>7, <1>9, <1>10 DEF Next, Rows

\* What kept a request out keeps it out as long as it stays where it is.
LEMMA StaysOut ==
  ASSUME Grants, Presented, Presented', Tightened, NEW r \in Requests,
         StillOut(r), AskStays(r), pc'[r] = pc[r]
  PROVE  StillOut(r)'
<1>1. /\ AskTyped(ask[r]) /\ ask'[r] = ask[r]
      /\ ask[r].op = "call" => ask'[ask[r].grant] = ask[ask[r].grant]
      /\ pc[r] = "client" => ask[r].op \in {"authorize", "exchange"}
      /\ pc[r] = "grant" => ask[r].op = "exchange"
      /\ pc[r] \in {"token", "connector", "app"} => ask[r].op = "call"
      /\ pc[r] = "key" => ask[r].op = "post"
  BY DEF Grants, StillOut, AskStays
<1>2. Conn(ask[r])' = Conn(ask[r]) /\ AppFor(ask[r])' = AppFor(ask[r])
  BY <1>1 DEF Conn, AppFor, AskTyped
<1>3. ASSUME NEW x \in Rows, NEW k \in Nat, k <= secret[x], k # secret[x] PROVE k # secret'[x]
  BY <1>3 DEF Tightened, Presented
<1>4. /\ ask[r].op = "exchange" /\ ask[r].key # secret[ask[r].conn]
            => ask[r].key # secret'[ask[r].conn]
      /\ ask[r].op = "post" /\ ask[r].key # secret[ask[r].app] => ask[r].key # secret'[ask[r].app]
  BY <1>1, <1>3 DEF AskTyped, Rows, Presented, StillOut
<1>5. ask[r].op \in {"exchange", "call"} => ask[r].grant \in Requests
  BY <1>1 DEF AskTyped
<1>6. Barred(ask[r]) => Barred(ask[r])'
  BY <1>1, <1>2, <1>4, <1>5 DEF Barred, Tightened
<1> QED
  BY <1>1, <1>2, <1>5, <1>6 DEF StillOut, Tightened

LEMMA StepBarred ==
  ASSUME Grants, Grants', Presented, Presented', BarredAreOut, [Next]_vars
  PROVE  BarredAreOut'
<1>1. CASE barred' = {}
  BY <1>1 DEF BarredAreOut
<1>2. \A r \in Requests : pc[r] # "new" => AskStays(r)
  BY AsksStay
<1>3. ASSUME NEW r \in barred, Tightened, pc'[r] = pc[r] PROVE StillOut(r)'
  BY <1>2, <1>3, StaysOut DEF BarredAreOut, StillOut
<1>4. ASSUME NEW r \in Requests, Step(r), r \in barred, Tightened PROVE StillOut(r)'
  <2>1. StillOut(r) /\ AskStays(r) /\ r \in DOMAIN pc
    BY <1>2, <1>4 DEF BarredAreOut, StillOut, Grants
  <2>2. CASE pc'[r] = "refused"
    BY <2>2 DEF StillOut
  <2>3. ASSUME ReadClient(r) PROVE StillOut(r)'
    <3>1. pc[r] = "client" /\ Barred(ask[r]) /\ UNCHANGED <<spent, age>>
      BY <2>1, <2>3 DEF ReadClient, At, StillOut, grantVars
    <3>2. \/ pc'[r] = "refused"
          \/ pc'[r] = "grant" /\ (ask[r].grant \in spent \/ age[ask[r].grant] = "over")
      BY <2>1, <2>3, <3>1 DEF ReadClient, At, Check, GoTo, GetActiveClient, AuthenticateClient,
            Barred, Conn, Grants
    <3> QED
      BY <2>1, <3>1, <3>2 DEF StillOut, AskStays
  <2>4. ASSUME ReadGrant(r) PROVE StillOut(r)'
    BY <2>1, <2>4 DEF ReadGrant, At, Check, GoTo, Redeemable, StillOut
  <2>5. ASSUME ReadToken(r) \/ ReadConnector(r) PROVE StillOut(r)'
    <3>1. ask[r].op = "call" /\ AskTyped(ask[r]) /\ UNCHANGED <<live, spent, age>>
      BY <2>1, <2>5 DEF ReadToken, ReadConnector, At, Grants, StillOut, idle, gateVars, grantVars
    <3>2. Conn(ask[r])' = Conn(ask[r]) /\ AppFor(ask[r])' = AppFor(ask[r])
      BY <2>1, <3>1 DEF Conn, AppFor, AskStays
    <3>3. \/ pc'[r] = "refused"
          \/ pc'[r] = "connector" /\ (Conn(ask[r]) \notin live \/ AppFor(ask[r]) \notin live)
          \/ pc'[r] = "app" /\ AppFor(ask[r]) \notin live
      BY <2>1, <2>5, <3>1 DEF ReadToken, ReadConnector, At, Check, GoTo, StillOut, Barred,
            GetActiveClient
    <3> QED
      BY <2>1, <3>1, <3>2, <3>3 DEF StillOut, AskStays
  <2>6. ASSUME ReadApp(r) PROVE StillOut(r)'
    BY <2>1, <2>6 DEF ReadApp, At, Check, GoTo, StillOut
  <2>7. ASSUME ReadKey(r) PROVE StillOut(r)'
    <3>1. ask[r].op = "post"
      BY <2>7 DEF ReadKey, At, Grants
    <3> QED
      BY <2>1, <2>7, <3>1 DEF ReadKey, At, Check, GoTo, StillOut, Barred, CurrentClient, AppFor
  <2>8. ASSUME Fail(r) PROVE StillOut(r)'
    BY <2>1, <2>8 DEF Fail, GoTo, StillOut
  <2> QED
    BY <1>4, <2>1, <2>3, <2>4, <2>5, <2>6, <2>7, <2>8
       DEF Step, StillOut, IssueCode, Mint, ReadClock, Incr, SetTtl, CreateJob, At
<1>5. ASSUME NEW r \in Requests, Step(r), Tightened PROVE BarredAreOut'
  <2>1. barred' = barred /\ \A s \in Requests \ {r} : pc'[s] = pc[s]
    BY <1>5 DEF Step, ReadClient, IssueCode, ReadGrant, Mint, ReadToken, ReadConnector, ReadApp,
        ReadKey, ReadClock, Incr, SetTtl, CreateJob, Fail, At, Check, GoTo, Verdict, idle, Grants
  <2> QED
    BY <1>3, <1>4, <1>5, <2>1 DEF BarredAreOut
<1>6. ASSUME NEW r \in Requests, NEW q \in Asks, At(r, "new"), Arrive(r, q), Tightened
      PROVE  BarredAreOut'
  <2>1. r \notin barred
    BY <1>6 DEF At, BarredAreOut, StillOut
  <2>2. \A s \in barred : pc'[s] = pc[s]
    BY <1>6, <2>1 DEF Arrive, GoTo, BarredAreOut, Grants
  <2>3. ASSUME Barred(q) PROVE StillOut(r)'
    <3>1. /\ UNCHANGED <<live, secret, spent, age>>
          /\ ask'[r] = q /\ pc'[r] \in {"client", "token", "key"}
          /\ q.op = "call" => ask'[q.grant] = ask[q.grant]
      BY <1>6, AsksTyped DEF Arrive, At, GoTo, gateVars, grantVars, Grants, AskTyped
    <3>2. Conn(ask[r])' = Conn(q) /\ AppFor(ask[r])' = AppFor(q)
      BY <3>1 DEF Conn, AppFor
    <3>3. Barred(ask[r])'
      BY <2>3, <3>1, <3>2 DEF Barred
    <3> QED
      BY <3>1, <3>3 DEF StillOut
  <2>4. barred' = barred \/ (barred' = barred \cup {r} /\ Barred(q))
    BY <1>6 DEF Arrive
  <2> QED
    BY <1>3, <1>6, <2>2, <2>3, <2>4 DEF BarredAreOut
<1>7. ASSUME Tightened, UNCHANGED <<pc, barred>> PROVE BarredAreOut'
  BY <1>3, <1>7 DEF BarredAreOut
<1>8. ASSUME NEW r, Age(r), Tightened PROVE BarredAreOut'
  BY <1>7, <1>8 DEF Age, idle
<1>9. ASSUME NEW x, NEW n, Tightened,
             Withdraw(x) \/ Reinstate(x) \/ Rotate(x) \/ SetLimit(x, n) \/ Expire(x)
      PROVE  BarredAreOut'
  BY <1>1, <1>7, <1>9 DEF Withdraw, Reinstate, Rotate, SetLimit, Expire, Edit, idle
<1>10. ASSUME Tick \/ UNCHANGED vars, Tightened PROVE BarredAreOut'
  BY <1>7, <1>10 DEF Tick, vars
<1>11. ASSUME Tightened PROVE BarredAreOut'
  BY <1>5, <1>6, <1>8, <1>9, <1>10, <1>11 DEF Next
<1> QED
  BY <1>1, <1>11, OnlyReinstate

\* Whoever arrives with nothing that should let it in draws no grant and makes no job,
\* however its steps interleave with other requests, with edits and with the time.
THEOREM NoneSlipsIn == Spec => []WithdrawnStaysOut
<1> DEFINE Inv == Grants /\ Presented /\ BarredAreOut
<1>1. Init => Inv
  BY InitGrants, InitPresented
<1>2. Inv /\ [Next]_vars => Inv'
  BY StepGrants, StepPresented, StepBarred
<1>3. Inv => WithdrawnStaysOut
  BY DEF Grants, Presented, BarredAreOut, StillOut, WithdrawnStaysOut
<1> QED
  BY <1>1, <1>2, <1>3, PTL DEF Spec

-----------------------------------------------------------------------------
(* RefusedForCause and WindowHolds. *)

Counted(a, w) == {s \in counted : ask[s].app = a /\ bucket[s] = w}
OnTime(a, w)  == Counted(a, w) \ late

\* Those that passed within their minute, and the first one, which is about to.
Passing(a, w) ==
    {s \in OnTime(a, w) : pc[s] \in {"job", "done"} \/ (pc[s] = "ttl" /\ 1 <= cap[s])}
Under(a, w, m) == {s \in Passing(a, w) : cap[s] <= m}

MeterTyped ==
    /\ limit \in [Apps -> Nat \cup {Unlimited}]
    /\ cap \in [Requests -> Nat \cup {Unlimited}]
    /\ bucket \in [Requests -> Windows]
    /\ counter \in [Apps \X Windows -> Nat]
    /\ load.window \in Windows
    /\ clock \in Windows
    /\ counted \subseteq Requests
    /\ late \subseteq counted
    /\ \A r \in Requests :
          /\ pc[r] \in {"bucket", "incr", "ttl", "limited"} => cap[r] \in Nat
          /\ pc[r] \in {"ttl", "limited"} => r \in counted
          /\ r \in counted => /\ pc[r] \in {"ttl", "job", "limited", "done", "refused"}
                              /\ cap[r] \in Nat

\* A counter never shows more than was counted, and as long as its minute lasts no less.
CountersCover ==
    \A a \in Apps, w \in Windows :
        /\ counter[<<a, w>>] <= Cardinality(Counted(a, w))
        /\ clock <= w => Cardinality(OnTime(a, w)) <= counter[<<a, w>>]

\* Of those that pass, no more than m have read a limit of m or less.
LimitsFit == \A a \in Apps, w \in Windows, m \in Nat : Cardinality(Under(a, w, m)) <= m

Metered == MeterTyped /\ CountersCover /\ RefusedForCause /\ LimitsFit

LEMMA InitMetered == Init => Metered
<1> SUFFICES ASSUME Init PROVE Metered
  OBVIOUS
<1>1. MeterTyped
  <2>1. load.limits \subseteq Nat \cup {Unlimited}
    <3>1. load \in Load
      BY AccessAssumption DEF Init
    <3>2. load.limits \subseteq Limits
      BY <3>1 DEF Load
    <3> QED
      BY <3>2, AccessAssumption
  <2>2. 0 \in Windows /\ load.window \in Windows
    <3>1. load \in Load
      BY AccessAssumption DEF Init
    <3> QED
      BY <3>1, AccessAssumption DEF Load, Windows
  <2> QED
    BY <2>1, <2>2 DEF Init, MeterTyped
<1>2. \A a, w, m : Counted(a, w) = {} /\ OnTime(a, w) = {} /\ Under(a, w, m) = {}
  BY DEF Init, Counted, OnTime, Passing, Under
<1>3. CountersCover
  <2>1. \A a \in Apps, w \in Windows : counter[<<a, w>>] = 0
    BY DEF Init
  <2>2. \A a, w : Cardinality(Counted(a, w)) = 0 /\ Cardinality(OnTime(a, w)) = 0
    BY <1>2, FS_EmptySet
  <2> SUFFICES ASSUME NEW a \in Apps, NEW w \in Windows
               PROVE  /\ counter[<<a, w>>] <= Cardinality(Counted(a, w))
                      /\ Cardinality(OnTime(a, w)) <= counter[<<a, w>>]
    BY DEF CountersCover
  <2>3. counter[<<a, w>>] = 0
    BY <2>1
  <2> QED
    BY <2>2, <2>3
<1>4. LimitsFit
  BY <1>2, FS_EmptySet DEF LimitsFit
<1>5. RefusedForCause
  BY DEF Init, RefusedForCause
<1> QED
  BY <1>1, <1>3, <1>4, <1>5 DEF Metered

LEMMA MeteredSets ==
  ASSUME MeterTyped
  PROVE  \A a, w, m :
            /\ IsFiniteSet(Counted(a, w))
            /\ Cardinality(Counted(a, w)) \in Nat
            /\ IsFiniteSet(OnTime(a, w))
            /\ Cardinality(OnTime(a, w)) \in Nat
            /\ IsFiniteSet(Under(a, w, m))
            /\ Cardinality(Under(a, w, m)) \in Nat
            /\ Under(a, w, m) \subseteq OnTime(a, w)
<1>1. \A a, w, m : /\ Counted(a, w) \subseteq Requests
                   /\ OnTime(a, w) \subseteq Requests
                   /\ Under(a, w, m) \subseteq Requests
                   /\ Under(a, w, m) \subseteq OnTime(a, w)
  BY DEF MeterTyped, Counted, OnTime, Passing, Under
<1> QED
  BY <1>1, FS_Subset, FS_CardinalityType, AccessAssumption

\* A step that leaves the counters and the clock alone, and no counted request for other
\* than a pass, the end of one or a failure, disturbs nothing.
LEMMA MeterLeftAlone ==
  ASSUME Metered, MeterTyped', UNCHANGED <<counter, clock, counted, late>>,
         \A s \in counted : /\ ask'[s] = ask[s] /\ bucket'[s] = bucket[s] /\ cap'[s] = cap[s]
                            /\ \/ pc'[s] = pc[s] \/ pc'[s] = "refused"
                               \/ pc[s] = "job" /\ pc'[s] = "done",
         \A s \in Requests : pc'[s] = "limited" => pc[s] = "limited" /\ s \in counted
  PROVE  Metered'
<1>1. \A a, w : Counted(a, w)' = Counted(a, w) /\ OnTime(a, w)' = OnTime(a, w)
  BY DEF Counted, OnTime
<1>2. \A a, w, m : Under(a, w, m)' \subseteq Under(a, w, m)
  BY <1>1 DEF Under, Passing, OnTime, Counted
<1>3. CountersCover'
  BY <1>1 DEF Metered, CountersCover
<1>4. RefusedForCause'
  BY <1>1 DEF Metered, RefusedForCause, Counted
<1>5. ASSUME NEW a \in Apps, NEW w \in Windows, NEW m \in Nat PROVE Cardinality(Under(a, w, m)') <= m
  <2>1. IsFiniteSet(Under(a, w, m)) /\ Cardinality(Under(a, w, m)) <= m
    BY MeteredSets DEF Metered, LimitsFit
  <2>2. Cardinality(Under(a, w, m)') <= Cardinality(Under(a, w, m))
    BY <1>2, <2>1, FS_Subset
  <2>3. Cardinality(Under(a, w, m)') \in Nat /\ Cardinality(Under(a, w, m)) \in Nat
    BY <1>2, <2>1, FS_Subset, FS_CardinalityType
  <2> QED
    BY <2>1, <2>2, <2>3
<1> QED
  BY <1>3, <1>4, <1>5 DEF Metered, LimitsFit

LEMMA StepMeterTyped ==
  ASSUME Grants, MeterTyped, [Next]_vars
  PROVE  MeterTyped'
<1>1. ASSUME UNCHANGED <<load, limit, cap, bucket, counter, clock, counted, late, pc>> PROVE MeterTyped'
  BY <1>1 DEF MeterTyped
<1>2. ASSUME NEW r \in Requests, Step(r) PROVE MeterTyped'
  <2>1. CASE ReadClient(r) \/ IssueCode(r) \/ ReadGrant(r) \/ Mint(r) \/ ReadToken(r)
             \/ ReadConnector(r) \/ ReadApp(r) \/ CreateJob(r) \/ Fail(r)
    <3>1. UNCHANGED <<load, limit, cap, bucket, counter, clock, counted, late>>
      BY <2>1 DEF ReadClient, IssueCode, ReadGrant, Mint, ReadToken, ReadConnector, ReadApp,
            CreateJob, Fail, rateVars, idle, gateVars
    <3>2. PICK p \in {"issue", "grant", "mint", "connector", "app", "job", "done", "refused"} :
             /\ pc' = [pc EXCEPT ![r] = p]
             /\ p \in {"issue", "grant"} => pc[r] = "client"
             /\ p = "mint" => pc[r] = "grant"
             /\ p \in {"connector", "app"} => pc[r] \in {"token", "connector"}
      BY <2>1 DEF ReadClient, IssueCode, ReadGrant, Mint, ReadToken, ReadConnector, ReadApp,
            CreateJob, Fail, At, Check, GoTo
    <3> QED
      BY <3>1, <3>2 DEF MeterTyped, Grants
  <2>2. CASE ReadKey(r)
    <3>1. pc[r] = "key" /\ ask[r].app \in Apps
      BY <2>2 DEF ReadKey, At, Grants, AskTyped
    <3>2. /\ UNCHANGED <<load, limit, bucket, counter, clock, counted, late>>
          /\ cap' = [cap EXCEPT ![r] = limit[ask[r].app]]
      BY <2>2 DEF ReadKey, idle, gateVars
    <3>3. PICK p \in {"job", "bucket", "refused"} :
             pc' = [pc EXCEPT ![r] = p] /\ (p = "bucket" => limit[ask[r].app] # Unlimited)
      BY <2>2 DEF ReadKey, Check, GoTo
    <3> QED
      BY <3>1, <3>2, <3>3 DEF MeterTyped, Grants
  <2>3. CASE ReadClock(r)
    BY <2>3 DEF ReadClock, At, GoTo, idle, gateVars, MeterTyped, Grants
  <2>4. CASE Incr(r)
    <3>1. pc[r] = "incr" /\ ask[r].app \in Apps
      BY <2>4 DEF Incr, At, Grants, AskTyped
    <3>2. /\ UNCHANGED <<load, limit, cap, bucket, clock>>
          /\ counter' = [counter EXCEPT ![Key(r)] = counter[Key(r)] + 1]
          /\ counted' = counted \cup {r}
          /\ late' \subseteq late \cup {r}
      BY <2>4 DEF Incr, idle, gateVars
    <3>3. PICK p \in {"job", "limited", "ttl"} : pc' = [pc EXCEPT ![r] = p]
      BY <2>4 DEF Incr, GoTo, Verdict
    <3>4. Key(r) \in Apps \X Windows
      BY <3>1 DEF Key, MeterTyped
    <3>5. counter' \in [Apps \X Windows -> Nat]
      BY <3>2, <3>4 DEF MeterTyped
    <3> QED
      BY <3>1, <3>2, <3>3, <3>5 DEF MeterTyped, Grants
  <2>5. CASE SetTtl(r)
    <3>1. PICK p \in {"job", "limited"} : pc' = [pc EXCEPT ![r] = p]
      BY <2>5 DEF SetTtl, GoTo, Verdict
    <3> QED
      BY <2>5, <3>1 DEF SetTtl, At, idle, gateVars, MeterTyped, Grants
  <2> QED
    BY <1>2, <2>1, <2>2, <2>3, <2>4, <2>5 DEF Step
<1>3. ASSUME NEW r \in Requests, NEW q \in Asks, At(r, "new"), Arrive(r, q) PROVE MeterTyped'
  <2>1. UNCHANGED <<load, limit, cap, bucket, counter, clock, counted, late>>
    BY <1>3 DEF Arrive, gateVars, rateVars
  <2>2. PICK p \in {"client", "token", "key"} : pc' = [pc EXCEPT ![r] = p]
    BY <1>3, AsksTyped DEF Arrive, GoTo
  <2> QED
    BY <1>3, <2>1, <2>2 DEF At, MeterTyped, Grants
<1>4. ASSUME NEW x, NEW r, Withdraw(x) \/ Reinstate(x) \/ Rotate(x) \/ Age(r) PROVE MeterTyped'
  BY <1>1, <1>4 DEF Withdraw, Reinstate, Rotate, Edit, Age, rateVars, idle, gateVars
<1>5. ASSUME NEW a \in Apps, NEW n \in Limits, SetLimit(a, n) PROVE MeterTyped'
  BY <1>5, AccessAssumption DEF SetLimit, Edit, rateVars, MeterTyped
<1>6. ASSUME NEW k \in Apps \X Windows, Expire(k) PROVE MeterTyped'
  BY <1>6 DEF Expire, idle, gateVars, MeterTyped
<1>7. CASE Tick
  <2>1. clock' \in Windows
    BY <1>7, AccessAssumption DEF Tick, Windows, MeterTyped
  <2> QED
    BY <1>7, <2>1 DEF Tick, gateVars, rateVars, MeterTyped
<1>8. CASE UNCHANGED vars
  BY <1>1, <1>8 DEF vars, gateVars, rateVars
<1> QED
  BY <1>2, <1>3, <1>4, <1>5, <1>6, <1>7, <1>8 DEF Next

\* One that is counted is one more of its app and minute, and of no other; it passes only
\* if the counter says that there is room for it under the limit it has read.
LEMMA IncrMetered ==
  ASSUME Grants, Metered, MeterTyped', NEW r \in Requests, Incr(r)
  PROVE  Metered'
<1>1. PICK b \in Apps, u \in Windows, n \in Nat :
         /\ b = ask[r].app /\ u = bucket[r] /\ Key(r) = <<b, u>> /\ n = counter[<<b, u>>] + 1
  <2>1. ask[r].app \in Apps /\ bucket[r] \in Windows
    BY DEF Incr, At, Grants, AskTyped, Metered, MeterTyped
  <2>2. counter[<<ask[r].app, bucket[r]>>] + 1 \in Nat
    BY <2>1 DEF Metered, MeterTyped
  <2> QED
    BY <2>1, <2>2 DEF Key
<1>2. /\ r \notin counted /\ counted' = counted \cup {r}
      /\ late' = IF clock > u THEN late \cup {r} ELSE late
      /\ counter' = [counter EXCEPT ![<<b, u>>] = n]
      /\ UNCHANGED <<ask, bucket, cap, clock>>
      /\ cap[r] \in Nat /\ pc \in [Requests -> PCs]
  BY <1>1 DEF Incr, At, idle, Metered, MeterTyped, Grants
<1>3. /\ pc' = [pc EXCEPT ![r] = IF n = 1 THEN "ttl" ELSE IF n <= cap[r] THEN "job" ELSE "limited"]
      /\ pc[r] = "incr"
  BY <1>1 DEF Incr, At, GoTo, Verdict, Within
<1>4. \A a, w : Counted(a, w)' = IF a = b /\ w = u THEN Counted(a, w) \cup {r} ELSE Counted(a, w)
  BY <1>1, <1>2 DEF Counted
<1>5. \A a, w : OnTime(a, w)' = IF a = b /\ w = u /\ ~ clock > u THEN OnTime(a, w) \cup {r}
                                                              ELSE OnTime(a, w)
  BY <1>1, <1>2 DEF Counted, OnTime, Metered, MeterTyped
<1>6. \A a, w : r \notin Counted(a, w) /\ r \notin OnTime(a, w)
  BY <1>2 DEF Counted, OnTime
<1>7. ASSUME NEW a \in Apps, NEW w \in Windows
      PROVE  /\ counter'[<<a, w>>] <= Cardinality(Counted(a, w)')
             /\ clock <= w => Cardinality(OnTime(a, w)') <= counter'[<<a, w>>]
  <2>1. /\ counter[<<a, w>>] <= Cardinality(Counted(a, w))
        /\ clock <= w => Cardinality(OnTime(a, w)) <= counter[<<a, w>>]
    BY DEF Metered, CountersCover
  <2>2. CASE a = b /\ w = u
    <3>1. counter'[<<a, w>>] = counter[<<a, w>>] + 1 /\ counter[<<a, w>>] \in Nat
      BY <1>1, <1>2, <2>2 DEF Metered, MeterTyped
    <3>2. Cardinality(Counted(a, w)') = Cardinality(Counted(a, w)) + 1
      BY <1>4, <1>6, <2>2, OneMore, MeteredSets DEF Metered
    <3>3. \/ Cardinality(OnTime(a, w)') = Cardinality(OnTime(a, w)) + 1
          \/ Cardinality(OnTime(a, w)') = Cardinality(OnTime(a, w))
      BY <1>5, <1>6, OneMore, MeteredSets DEF Metered
    <3>4. Cardinality(Counted(a, w)) \in Nat /\ Cardinality(OnTime(a, w)) \in Nat
      BY MeteredSets DEF Metered
    <3> HIDE DEF Counted, OnTime
    <3> QED
      BY <2>1, <3>1, <3>2, <3>3, <3>4
  <2>3. CASE ~ (a = b /\ w = u)
    <3>1. counter'[<<a, w>>] = counter[<<a, w>>]
      BY <1>1, <1>2, <2>3 DEF Metered, MeterTyped
    <3>2. Counted(a, w)' = Counted(a, w) /\ OnTime(a, w)' = OnTime(a, w)
      BY <1>4, <1>5, <2>3
    <3> QED
      BY <2>1, <3>1, <3>2
  <2> QED
    BY <2>2, <2>3
<1>8. CountersCover'
  BY <1>2, <1>7 DEF CountersCover
<1>9. ASSUME NEW s \in Requests, pc'[s] = "limited"
      PROVE  Cardinality(Counted(ask[s].app, bucket[s])') > cap[s]
  <2>1. CASE s = r
    <3>1. n > cap[r]
      BY <1>2, <1>3, <1>9, <2>1
    <3>2. n <= Cardinality(Counted(b, u)')
      BY <1>1, <1>2, <1>7 DEF Metered, MeterTyped
    <3>3. Cardinality(Counted(b, u)') \in Nat
      <4>1. IsFiniteSet(Counted(b, u)) /\ Cardinality(Counted(b, u)) \in Nat
        BY MeteredSets DEF Metered
      <4>2. Counted(b, u)' = Counted(b, u) \cup {r} /\ r \notin Counted(b, u)
        BY <1>4, <1>6
      <4> QED
        BY <4>1, <4>2, OneMore
    <3> QED
      BY <1>1, <1>2, <2>1, <3>1, <3>2, <3>3
  <2>2. CASE s # r
    <3>1. PICK a, w : a = ask[s].app /\ w = bucket[s]
      OBVIOUS
    <3>2. pc[s] = "limited" /\ cap[s] \in Nat
      BY <1>3, <1>9, <2>2 DEF Grants, Metered, MeterTyped
    <3>3. Cardinality(Counted(a, w)) > cap[s]
      BY <3>1, <3>2 DEF Metered, RefusedForCause, Counted
    <3>4. \/ Cardinality(Counted(a, w)') = Cardinality(Counted(a, w)) + 1
          \/ Cardinality(Counted(a, w)') = Cardinality(Counted(a, w))
      BY <1>4, <1>6, OneMore, MeteredSets DEF Metered
    <3>5. Cardinality(Counted(a, w)) \in Nat
      BY MeteredSets DEF Metered
    <3>6. Cardinality(Counted(a, w)') > cap[s]
      BY <3>2, <3>3, <3>4, <3>5
    <3>7. \A x, y : x = ask[s].app /\ y = bucket[s] => x = a /\ y = w
      BY <3>1
    <3> QED
      BY <3>1, <3>6, <1>2
  <2> QED
    BY <2>1, <2>2
<1>10. RefusedForCause'
  BY <1>2, <1>9 DEF RefusedForCause, Counted
<1>11. ASSUME NEW a \in Apps, NEW w \in Windows, NEW m \in Nat
       PROVE  Cardinality(Under(a, w, m)') <= m
  <2>1. \/ Under(a, w, m)' = Under(a, w, m)
        \/ /\ Under(a, w, m)' = Under(a, w, m) \cup {r}
           /\ a = b /\ w = u /\ ~ clock > u /\ n <= cap[r] /\ cap[r] <= m
    <3>1. \A s \in counted : s \in Requests /\ s # r /\ pc'[s] = pc[s]
      BY <1>2, <1>3 DEF Metered, MeterTyped
    <3>2. OnTime(a, w) \subseteq counted
      BY DEF OnTime, Counted
    <3>3. \A s \in OnTime(a, w) : s \in Passing(a, w)' <=> s \in Passing(a, w)
      BY <1>2, <1>5, <3>1, <3>2 DEF Passing
    <3>4. r \in Passing(a, w)' => a = b /\ w = u /\ ~ clock > u /\ n <= cap[r]
      BY <1>1, <1>2, <1>3, <1>5, <1>6 DEF Passing
    <3>5. Passing(a, w)' \subseteq OnTime(a, w) \cup {r} /\ Passing(a, w) \subseteq OnTime(a, w)
      BY <1>5 DEF Passing
    <3> QED
      BY <1>2, <1>6, <3>3, <3>4, <3>5 DEF Under
  <2>2. Cardinality(Under(a, w, m)) <= m
    BY DEF Metered, LimitsFit
  <2>3. CASE Under(a, w, m)' = Under(a, w, m)
    BY <2>2, <2>3
  <2>4. CASE /\ Under(a, w, m)' = Under(a, w, m) \cup {r}
             /\ a = b /\ w = u /\ ~ clock > u /\ n <= cap[r] /\ cap[r] <= m
    <3>1. r \notin Under(a, w, m) /\ IsFiniteSet(Under(a, w, m)) /\ IsFiniteSet(OnTime(a, w))
      BY <1>6, MeteredSets DEF Metered
    <3>2. Cardinality(Under(a, w, m)') = Cardinality(Under(a, w, m)) + 1
      BY <2>4, <3>1, OneMore
    <3>3. Cardinality(Under(a, w, m)) <= Cardinality(OnTime(a, w))
      BY <3>1, MeteredSets, FS_Subset DEF Metered
    <3>4. Cardinality(OnTime(b, u)) <= counter[<<b, u>>]
      <4>1. clock \in Int /\ u \in Int
        BY <1>1 DEF Metered, MeterTyped, Windows
      <4>2. clock <= u
        BY <2>4, <4>1
      <4>3. CountersCover
        BY DEF Metered
      <4> QED
        BY <1>1, <4>2, <4>3 DEF CountersCover
    <3>5. /\ Cardinality(Under(a, w, m)) \in Nat /\ Cardinality(OnTime(a, w)) \in Nat
          /\ counter[<<b, u>>] \in Nat
      BY <1>1, MeteredSets DEF Metered, MeterTyped
    <3> QED
      BY <1>1, <1>2, <2>4, <3>2, <3>3, <3>4, <3>5
  <2> QED
    BY <2>1, <2>3, <2>4
<1> QED
  BY <1>8, <1>10, <1>11 DEF Metered, LimitsFit

LEMMA SetTtlMetered ==
  ASSUME Grants, Metered, MeterTyped', NEW r \in Requests, SetTtl(r)
  PROVE  Metered'
<1>1. /\ UNCHANGED <<counter, clock, counted, late, ask, bucket, cap>>
      /\ pc[r] = "ttl" /\ r \in counted /\ cap[r] \in Nat /\ pc \in [Requests -> PCs]
      /\ pc' = [pc EXCEPT ![r] = IF 1 <= cap[r] THEN "job" ELSE "limited"]
  BY DEF SetTtl, At, GoTo, Verdict, Within, idle, Metered, MeterTyped, Grants
<1>2. \A a, w : Counted(a, w)' = Counted(a, w) /\ OnTime(a, w)' = OnTime(a, w)
  BY <1>1 DEF Counted, OnTime
<1>3. \A a, w, m : Under(a, w, m)' = Under(a, w, m)
  <2>1. \A s \in counted : s \in Requests
    BY DEF Metered, MeterTyped
  <2>2. \A s \in counted : (pc'[s] \in {"job", "done"} \/ (pc'[s] = "ttl" /\ 1 <= cap[s]))
                           <=> (pc[s] \in {"job", "done"} \/ (pc[s] = "ttl" /\ 1 <= cap[s]))
    BY <1>1, <2>1
  <2> QED
    BY <1>1, <1>2, <2>2 DEF Under, Passing, OnTime, Counted
<1>4. CountersCover' /\ LimitsFit'
  BY <1>1, <1>2, <1>3 DEF Metered, CountersCover, LimitsFit
<1>5. ASSUME NEW s \in Requests, pc'[s] = "limited"
      PROVE  Cardinality(Counted(ask[s].app, bucket[s])) > cap[s]
  <2>1. CASE s = r
    <3>1. PICK T : T = Counted(ask[r].app, bucket[r])
      OBVIOUS
    <3>2. r \in T /\ IsFiniteSet(T) /\ cap[r] = 0
      <4>1. cap[r] = 0
        BY <1>1, <1>5, <2>1
      <4>2. r \in T
        BY <1>1, <3>1 DEF Counted
      <4>3. \A a, w : IsFiniteSet(Counted(a, w))
        BY MeteredSets DEF Metered
      <4> QED
        BY <4>1, <4>2, <4>3, <3>1
    <3>3. Cardinality(T) # 0 /\ Cardinality(T) \in Nat
      BY <3>2, FS_EmptySet, FS_CardinalityType
    <3> QED
      BY <2>1, <3>1, <3>2, <3>3
  <2>2. CASE s # r
    BY <1>1, <1>5, <2>2 DEF Metered, RefusedForCause, Counted
  <2> QED
    BY <2>1, <2>2
<1>6. RefusedForCause'
  BY <1>1, <1>5 DEF RefusedForCause, Counted
<1> QED
  BY <1>4, <1>6 DEF Metered

\* Only a counter whose minute is over is dropped.
LEMMA ExpireMetered ==
  ASSUME Metered, MeterTyped', NEW k \in Apps \X Windows, Expire(k)
  PROVE  Metered'
<1>1. /\ UNCHANGED <<clock, counted, late, ask, bucket, cap, pc>>
      /\ counter' = [counter EXCEPT ![k] = 0] /\ clock > k[2]
  BY DEF Expire, idle
<1>2. \A a, w, m : /\ Counted(a, w)' = Counted(a, w)
                   /\ OnTime(a, w)' = OnTime(a, w)
                   /\ Under(a, w, m)' = Under(a, w, m)
  BY <1>1 DEF Counted, OnTime, Passing, Under
<1>3. ASSUME NEW a \in Apps, NEW w \in Windows
      PROVE  /\ counter'[<<a, w>>] <= Cardinality(Counted(a, w))
             /\ clock <= w => Cardinality(OnTime(a, w)) <= counter'[<<a, w>>]
  <2>1. CASE k = <<a, w>>
    <3>1. counter'[<<a, w>>] = 0 /\ ~ clock <= w
      BY <1>1, <2>1 DEF Metered, MeterTyped, Windows
    <3>2. Cardinality(Counted(a, w)) \in Nat
      BY MeteredSets DEF Metered
    <3> QED
      BY <3>1, <3>2
  <2>2. CASE k # <<a, w>>
    BY <1>1, <2>2 DEF Metered, MeterTyped, CountersCover
  <2> QED
    BY <2>1, <2>2
<1>4. \A a, w : Counted(a, w)' = Counted(a, w) /\ OnTime(a, w)' = OnTime(a, w)
  BY <1>2
<1>5. CountersCover'
  BY <1>1, <1>3, <1>4 DEF CountersCover
<1>6. LimitsFit'
  BY <1>2 DEF Metered, LimitsFit
<1>7. RefusedForCause'
  BY <1>1 DEF Metered, RefusedForCause
<1> QED
  BY <1>5, <1>6, <1>7 DEF Metered

LEMMA TickMetered ==
  ASSUME Metered, MeterTyped', Tick
  PROVE  Metered'
<1>1. UNCHANGED <<counter, counted, late, ask, bucket, cap, pc>> /\ clock' = clock + 1
  BY DEF Tick, rateVars
<1>2. \A a, w, m : Under(a, w, m)' = Under(a, w, m)
  BY <1>1 DEF Counted, OnTime, Passing, Under
<1>3. \A a, w : Counted(a, w)' = Counted(a, w) /\ OnTime(a, w)' = OnTime(a, w)
  BY <1>1 DEF Counted, OnTime
<1>4. \A w \in Windows : clock' <= w => clock <= w
  BY <1>1 DEF Metered, MeterTyped, Windows
<1>5. CountersCover'
  BY <1>1, <1>3, <1>4 DEF Metered, CountersCover
<1>6. LimitsFit' /\ RefusedForCause'
  BY <1>1, <1>2 DEF Metered, LimitsFit, RefusedForCause
<1> QED
  BY <1>5, <1>6 DEF Metered

LEMMA StepMetered == Grants /\ Metered /\ [Next]_vars => Metered'
<1> SUFFICES ASSUME Grants, Metered, [Next]_vars PROVE Metered'
  OBVIOUS
<1>1. MeterTyped' /\ MeterTyped
  BY StepMeterTyped DEF Metered
<1>2. \A s \in counted : s \in Requests /\ pc[s] \in {"ttl", "job", "limited", "done", "refused"}
  BY <1>1 DEF MeterTyped
<1>3. ASSUME UNCHANGED <<counter, clock, counted, late>>,
             \A s \in counted : bucket'[s] = bucket[s] /\ cap'[s] = cap[s],
             \A s \in counted : \/ pc'[s] = pc[s] \/ pc'[s] = "refused"
                                \/ pc[s] = "job" /\ pc'[s] = "done",
             \A s \in Requests : pc'[s] = "limited" => pc[s] = "limited"
      PROVE  Metered'
  <2>1. \A s \in counted : ask'[s] = ask[s]
    BY <1>2, AsksStay DEF AskStays
  <2>2. \A s \in Requests : pc[s] = "limited" => s \in counted
    BY <1>1 DEF MeterTyped
  <2> QED
    BY <1>1, <1>3, <2>1, <2>2, MeterLeftAlone
<1>4. ASSUME NEW r \in Requests, Step(r), ~ Incr(r), ~ SetTtl(r) PROVE Metered'
  <2>1. UNCHANGED <<counter, clock, counted, late>> /\ pc \in [Requests -> PCs]
    BY <1>4 DEF Step, ReadClient, IssueCode, ReadGrant, Mint, ReadToken, ReadConnector, ReadApp,
        ReadKey, ReadClock, CreateJob, Fail, rateVars, idle, Grants
  <2>2. \/ UNCHANGED <<bucket, cap>>
        \/ pc[r] = "key" /\ bucket' = bucket /\ \E n : cap' = [cap EXCEPT ![r] = n]
        \/ pc[r] = "bucket" /\ cap' = cap /\ \E n : bucket' = [bucket EXCEPT ![r] = n]
    BY <1>4 DEF Step, ReadClient, IssueCode, ReadGrant, Mint, ReadToken, ReadConnector, ReadApp,
        ReadKey, ReadClock, CreateJob, Fail, rateVars, At
  <2>3. \E p \in PCs \ {"limited"} :
           /\ pc' = [pc EXCEPT ![r] = p]
           /\ \/ p = "refused"
              \/ pc[r] = "job" /\ p = "done"
              \/ pc[r] \notin {"ttl", "job", "limited", "done", "refused"}
    BY <1>4 DEF Step, ReadClient, IssueCode, ReadGrant, Mint, ReadToken, ReadConnector, ReadApp,
        ReadKey, ReadClock, CreateJob, Fail, At, Check, GoTo, PCs
  <2>4. \A s \in counted : bucket'[s] = bucket[s] /\ cap'[s] = cap[s]
    BY <1>1, <1>2, <2>2 DEF MeterTyped
  <2>5. \A s \in counted : \/ pc'[s] = pc[s] \/ pc'[s] = "refused"
                           \/ pc[s] = "job" /\ pc'[s] = "done"
    BY <1>2, <2>1, <2>3
  <2>6. \A s \in Requests : pc'[s] = "limited" => pc[s] = "limited"
    BY <2>1, <2>3
  <2> QED
    BY <1>3, <2>1, <2>4, <2>5, <2>6
<1>5. ASSUME NEW r \in Requests, Incr(r) \/ SetTtl(r) PROVE Metered'
  BY <1>1, <1>5, IncrMetered, SetTtlMetered
<1>6. ASSUME NEW r \in Requests, NEW q \in Asks, At(r, "new"), Arrive(r, q) PROVE Metered'
  <2>1. UNCHANGED <<counter, clock, counted, late, bucket, cap>>
    BY <1>6 DEF Arrive, rateVars
  <2>2. /\ pc[r] = "new" /\ pc \in [Requests -> PCs]
        /\ \E p \in {"client", "token", "key"} : pc' = [pc EXCEPT ![r] = p]
    BY <1>6, AsksTyped DEF Arrive, At, GoTo, Grants
  <2>3. \A s \in counted : pc'[s] = pc[s]
    BY <1>2, <2>2
  <2>4. \A s \in Requests : pc'[s] = "limited" => pc[s] = "limited"
    BY <2>2
  <2> QED
    BY <1>3, <2>1, <2>3, <2>4
<1>7. ASSUME UNCHANGED <<counter, clock, counted, late, bucket, cap, pc>> PROVE Metered'
  BY <1>3, <1>7
<1>8. ASSUME NEW x, NEW n, Age(x) \/ Withdraw(x) \/ Reinstate(x) \/ Rotate(x) \/ SetLimit(x, n)
      PROVE  Metered'
  BY <1>7, <1>8 DEF Age, Withdraw, Reinstate, Rotate, SetLimit, Edit, rateVars, idle
<1>9. ASSUME NEW k \in Apps \X Windows, Expire(k) PROVE Metered'
  BY <1>1, <1>9, ExpireMetered
<1>10. CASE Tick
  BY <1>1, <1>10, TickMetered
<1>11. CASE UNCHANGED vars
  BY <1>7, <1>11 DEF vars, rateVars
<1> QED
  BY <1>4, <1>5, <1>6, <1>8, <1>9, <1>10, <1>11 DEF Next

LEMMA MeteredHolds == Spec => []Metered
<1>1. Init => Grants /\ Metered
  BY InitGrants, InitMetered
<1>2. Grants /\ Metered /\ [Next]_vars => (Grants /\ Metered)'
  BY StepGrants, StepMetered
<1> QED
  BY <1>1, <1>2, PTL DEF Spec

\* If none of those that passed had read a limit of their number, all would have read less,
\* and LimitsFit has room for fewer.
LEMMA FitMeansWindow == Metered => WindowHolds
<1> SUFFICES ASSUME Metered, NEW a \in Apps, NEW w \in Windows,
                    NEW passed, passed = {r \in counted \ late : /\ ask[r].app = a
                                                               /\ bucket[r] = w
                                                               /\ pc[r] \in {"job", "done"}},
                    passed # {},
                    \A r \in passed : ~ Cardinality(passed) <= cap[r]
             PROVE  FALSE
  BY DEF WindowHolds
<1>1. passed \subseteq OnTime(a, w) /\ IsFiniteSet(passed)
  <2>1. passed \subseteq OnTime(a, w) /\ IsFiniteSet(OnTime(a, w))
    BY MeteredSets DEF Metered, OnTime, Counted
  <2> QED
    BY <2>1, FS_Subset
<1>2. PICK m \in Nat : Cardinality(passed) = m + 1
  <2>1. Cardinality(passed) \in Nat /\ Cardinality(passed) # 0
    BY <1>1, FS_EmptySet, FS_CardinalityType
  <2>2. Cardinality(passed) - 1 \in Nat /\ Cardinality(passed) = (Cardinality(passed) - 1) + 1
    BY <2>1
  <2> QED
    BY <2>2
<1>3. \A r \in passed : cap[r] \in Nat
  BY DEF Metered, MeterTyped
<1>4. passed \subseteq Under(a, w, m)
  <2>1. \A r \in passed : cap[r] <= m
    BY <1>2, <1>3
  <2>2. passed \subseteq Passing(a, w)
    BY <1>1 DEF Passing
  <2> QED
    BY <2>1, <2>2 DEF Under
<1>5. Cardinality(Under(a, w, m)) <= m /\ IsFiniteSet(Under(a, w, m))
  BY MeteredSets DEF Metered, LimitsFit
<1>6. Cardinality(passed) <= Cardinality(Under(a, w, m))
  BY <1>4, <1>5, FS_Subset
<1>7. Cardinality(Under(a, w, m)) \in Nat
  BY <1>5, FS_CardinalityType
<1> QED
  BY <1>2, <1>5, <1>6, <1>7

\* In every minute of every app the limiter lets through no more of the requests counted in
\* time than the limit that one of them has read, whatever is edited and whoever fails.
THEOREM LimitPerMinute == Spec => []WindowHolds
BY MeteredHolds, FitMeansWindow, PTL

\* Whoever is answered 429 shares its minute with more requests than its limit, although
\* counters may be left without a time to live.
THEOREM NoneRefusedEarly == Spec => []RefusedForCause
<1>1. Metered => RefusedForCause
  BY DEF Metered
<1> QED
  BY <1>1, MeteredHolds, PTL

=============================================================================
