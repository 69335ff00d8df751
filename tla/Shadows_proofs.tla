--------------------------- MODULE Shadows_proofs ---------------------------
(***************************************************************************)
(* Proofs about Shadows, for any finite number of jobs and targets, any    *)
(* models, caps, faults and replays.                                       *)
(***************************************************************************)
EXTENDS Shadows, FiniteSetTheorems, TLAPS

\* An eval row is never a fan-out row, and the worker is no row.
LEMMA RowsApart ==
  /\ \A s \in EvalRows : s.source = "eval" /\ s.parent \in Parents
  /\ \A s \in FanRows : s.source = "fanout"
  /\ Worker \notin FanRows /\ Worker \notin EvalRows
BY ShadowsAssumption DEF EvalRows, FanRows, Rows

LEMMA EvalRowsFinite == IsFiniteSet(EvalRows)
<1> DEFINE f == [t \in Targets |-> [parent |-> t[1], model |-> t[2], source |-> "eval"]]
<1>1. f \in Surjection(Targets, EvalRows)
  BY DEF Surjection, EvalRows
<1> QED
  BY <1>1, FS_Surjection, ShadowsAssumption

LEMMA UnderWayCounts ==
  ASSUME NEW m \in Cloud
  PROVE  UnderWay(m) \in Nat
<1>1. IsFiniteSet({s \in EvalRows : s.model = m /\ status[s] \in {"pending", "running"}})
  BY EvalRowsFinite, FS_Subset
<1>2. IsFiniteSet({p \in Parents : ppc[p] = "insert" /\ m \in room[p]})
  BY ShadowsAssumption, FS_Subset
<1> QED
  BY <1>1, <1>2, FS_CardinalityType DEF UnderWay

\* A row that is not begun has not started, a process finds its row PENDING when
\* it begins and RUNNING at its call, and a parent has no rows before they are inserted.
Once ==
    /\ \A s \in Rows : starts[s] <= 1 /\ (status[s] \in {"absent", "pending"} => starts[s] = 0)
    /\ \A x \in Procs : /\ pc[x] = "begin" => status[RowOf(x)] = "pending"
                        /\ pc[x] = "call" => status[RowOf(x)] = "running"
    /\ \A s \in EvalRows : ppc[s.parent] \in {"new", "ended", "insert"} => status[s] = "absent"

\* Two processes are never on the same row.
LEMMA RowsDiffer ==
  ASSUME TypeOK, NEW x \in Procs, pc[x] # "idle"
  PROVE  /\ RowOf(x) \in Rows
         /\ \A y \in Procs : pc[y] # "idle" /\ RowOf(x) = RowOf(y) => x = y
<1>1. \A y \in Procs : pc[y] # "idle" => IF y = Worker THEN RowOf(y) \in EvalRows
                                                       ELSE RowOf(y) = y /\ y \in FanRows
  BY DEF TypeOK, Procs, RowOf
<1> QED
  BY <1>1, RowsApart DEF Rows

\* The planner inserts rows that were not there.
LEMMA InsertsNew ==
  ASSUME TypeOK, Once, NEW p \in Parents, Insert(p),
         NEW s \in Rows, s \in {EvalRow(p, m) : m \in room[p]}
  PROVE  status[s] = "absent"
<1>1. s.parent = p /\ s.source = "eval"
  BY DEF EvalRow
<1> QED
  BY <1>1, RowsApart DEF Insert, Once, Rows

LEMMA InitTyped == Init => TypeOK
BY ShadowsAssumption DEF Init, TypeOK, Rows, Procs, EvalRows, FanRows

LEMMA StepTyped == TypeOK /\ Once /\ [Next]_vars => TypeOK'
<1> SUFFICES ASSUME TypeOK, Once, [Next]_vars PROVE TypeOK'
  OBVIOUS
<1> USE ShadowsAssumption, RowsApart
    DEF TypeOK, Rows, Procs, Settled, rowVars, envVars, planVars, execVars
<1>1. ASSUME NEW p \in Parents, ParentEnds(p) PROVE TypeOK'
  BY <1>1 DEF ParentEnds
<1>2. ASSUME NEW p \in Parents, StartFanout(p) PROVE TypeOK'
  BY <1>2 DEF StartFanout, SetStatus
<1>3. ASSUME NEW p \in Parents, Plan(p) PROVE TypeOK'
  <2>1. [m \in Cloud |-> UnderWay(m)] \in [Cloud -> Nat]
    BY UnderWayCounts
  <2>2. open' \in [Parents -> [Cloud -> Nat]]
    BY <1>3, <2>1 DEF Plan
  <2>3. room' \in [Parents -> SUBSET Models]
    BY <1>3 DEF Plan
  <2> QED
    BY <1>3, <2>2, <2>3 DEF Plan
<1>4. ASSUME NEW p \in Parents, Insert(p) PROVE TypeOK'
  <2>1. \A s \in Rows : s \in {EvalRow(p, m) : m \in room[p]} => cost[s] # 1
    BY <1>4, InsertsNew
  <2>2. /\ ppc' = [ppc EXCEPT ![p] = "enqueue"] /\ room' = [room EXCEPT ![p] = {}]
        /\ UNCHANGED <<cost, starts, rq, open, pc, cur, faults, replays>>
    BY <1>4 DEF Insert
  <2>3. status' = [s \in Rows |-> IF s \in {EvalRow(p, m) : m \in room[p]} THEN "pending"
                                                                         ELSE status[s]]
    BY <1>4 DEF Insert, SetStatus
  <2>4. /\ status' \in [Rows -> {"absent", "pending", "running"} \cup Settled]
        /\ \A s \in Rows : cost[s] = 1 => status'[s] \in Settled
    BY <2>1, <2>3
  <2> QED
    BY <2>2, <2>4
<1>5. ASSUME NEW p \in Parents, Enqueue(p) PROVE TypeOK'
  <2>1. /\ ppc' \in {ppc, [ppc EXCEPT ![p] = "done"]}
        /\ \/ rq' = rq
           \/ \E s \in EvalRows : rq' = [rq EXCEPT ![s] = "queued"]
        /\ UNCHANGED <<status, cost, starts, room, open, pc, cur, faults, replays>>
    BY <1>5 DEF Enqueue, Unqueued
  <2> QED
    BY <2>1
<1>6. ASSUME NEW p \in Parents, PlanFails(p) PROVE TypeOK'
  BY <1>6 DEF PlanFails, Suffer
<1>7. ASSUME NEW s \in EvalRows, Dequeue(s) PROVE TypeOK'
  BY <1>7 DEF Dequeue, GoTo
<1>8. CASE ReadRow
  BY <1>8 DEF ReadRow, GoTo
<1>9. CASE SwapFails
  BY <1>9 DEF SwapFails, GoTo, SetStatus
<1>10. CASE RQEnds
  BY <1>10 DEF RQEnds, GoTo
<1>11. ASSUME NEW x \in Procs, Begin(x) PROVE TypeOK'
  <2>1. RowOf(x) \in Rows /\ status[RowOf(x)] = "pending"
    BY <1>11, RowsDiffer DEF Begin, Once
  <2> QED
    BY <1>11, <2>1 DEF Begin, GoTo, SetStatus
<1>12. ASSUME NEW x \in Procs, Finish(x) PROVE TypeOK'
  BY <1>12 DEF Finish, GoTo, SetStatus, RowOf, StatusOf
<1>13. ASSUME NEW x \in Procs, Raise(x) PROVE TypeOK'
  BY <1>13 DEF Raise, GoTo, Suffer
<1>14. CASE WorkerCrash
  BY <1>14 DEF WorkerCrash, GoTo, Suffer
<1>15. CASE ApiCrash
  BY <1>15 DEF ApiCrash, Suffer
<1>16. ASSUME NEW s \in EvalRows, Abandon(s) PROVE TypeOK'
  BY <1>16 DEF Abandon
<1>17. ASSUME NEW s \in EvalRows, Replay(s) PROVE TypeOK'
  BY <1>17 DEF Replay
<1>18. CASE UNCHANGED vars
  BY <1>18 DEF vars
<1> QED
  BY <1>1, <1>2, <1>3, <1>4, <1>5, <1>6, <1>7, <1>8, <1>9, <1>10,
     <1>11, <1>12, <1>13, <1>14, <1>15, <1>16, <1>17, <1>18
  DEF Next, PlanStep, WorkerStep, Execute, Procs

LEMMA StepOnce == TypeOK /\ Once /\ [Next]_vars => Once'
<1> SUFFICES ASSUME TypeOK, Once, [Next]_vars PROVE Once'
  OBVIOUS
<1> USE ShadowsAssumption, RowsApart
    DEF TypeOK, Once, Rows, Procs, RowOf, Settled, rowVars, envVars, planVars, execVars
<1>1. ASSUME NEW p \in Parents, ParentEnds(p) PROVE Once'
  BY <1>1 DEF ParentEnds
<1>2. ASSUME NEW p \in Parents, StartFanout(p) PROVE Once'
  BY <1>2 DEF StartFanout, SetStatus
<1>3. ASSUME NEW p \in Parents, Plan(p) PROVE Once'
  BY <1>3 DEF Plan
<1>4. ASSUME NEW p \in Parents, Insert(p) PROVE Once'
  <2>1. \A s \in Rows : s \in {EvalRow(p, m) : m \in room[p]} => status[s] = "absent"
    BY <1>4, InsertsNew
  <2>2. \A x \in Procs : pc[x] \in {"begin", "call"} => RowOf(x) \in Rows
    BY RowsDiffer
  <2>3. \A s \in EvalRows : s.parent # p => s \notin {EvalRow(p, m) : m \in room[p]}
    BY DEF EvalRow
  <2> QED
    BY <1>4, <2>1, <2>2, <2>3 DEF Insert, SetStatus
<1>5. ASSUME NEW p \in Parents, Enqueue(p) PROVE Once'
  <2>1. UNCHANGED <<status, starts, pc, cur>> /\ ppc' \in {ppc, [ppc EXCEPT ![p] = "done"]}
    BY <1>5 DEF Enqueue
  <2> QED
    BY <2>1
<1>6. ASSUME NEW p \in Parents, PlanFails(p) PROVE Once'
  BY <1>6 DEF PlanFails, Suffer
<1>7. ASSUME NEW s \in EvalRows, Dequeue(s) PROVE Once'
  BY <1>7 DEF Dequeue, GoTo
<1>8. CASE ReadRow
  BY <1>8 DEF ReadRow, GoTo
<1>9. CASE SwapFails
  BY <1>9 DEF SwapFails, GoTo, SetStatus
<1>10. CASE RQEnds
  BY <1>10 DEF RQEnds, GoTo
<1>11. ASSUME NEW x \in Procs, Begin(x) PROVE Once'
  <2>1. RowOf(x) \in Rows /\ \A y \in Procs : pc[y] # "idle" /\ RowOf(x) = RowOf(y) => x = y
    BY <1>11, RowsDiffer DEF Begin
  <2>2. /\ status' = [status EXCEPT ![RowOf(x)] = "running"]
        /\ starts' = [starts EXCEPT ![RowOf(x)] = @ + 1]
        /\ pc' = [pc EXCEPT ![x] = "call"]
        /\ UNCHANGED <<cur, ppc>>
    BY <1>11, <2>1 DEF Begin, GoTo, SetStatus
  <2> QED
    BY <1>11, <2>1, <2>2 DEF Begin
<1>12. ASSUME NEW x \in Procs, Finish(x) PROVE Once'
  <2>1. PICK t \in Rows : t = RowOf(x)
    BY <1>12, RowsDiffer DEF Finish
  <2>2. \A y \in Procs : pc[y] # "idle" /\ RowOf(y) = t => x = y
    BY <1>12, <2>1, RowsDiffer DEF Finish
  <2>3. PICK r \in {"answer", "malformed", "error"} : SetStatus({t}, StatusOf(r))
    <3> HIDE DEF RowOf
    <3> QED
      BY <1>12, <2>1 DEF Finish
  <2>4. \A s \in Rows : status'[s] = IF s = t THEN StatusOf(r) ELSE status[s]
    BY <2>3 DEF SetStatus
  <2>5. StatusOf(r) \in {"complete", "failed"}
    BY DEF StatusOf
  <2>6. UNCHANGED <<starts, cur, ppc>>
    BY <1>12 DEF Finish
  <2>7. \A y \in Procs : pc'[y] \in {"begin", "call"} => pc[y] = pc'[y] /\ y # x
    BY <1>12 DEF Finish, GoTo
  <2>8. \A y \in Procs : /\ pc'[y] = "begin" => status'[RowOf(y)'] = "pending"
                         /\ pc'[y] = "call" => status'[RowOf(y)'] = "running"
    BY <2>1, <2>2, <2>4, <2>6, <2>7, RowsDiffer
  <2>9. status[t] = "running"
    BY <1>12, <2>1 DEF Finish
  <2>10. \A s \in EvalRows : ppc'[s.parent] \in {"new", "ended", "insert"} => status'[s] = "absent"
    BY <2>4, <2>6, <2>9
  <2>11. \A s \in Rows : starts'[s] <= 1 /\ (status'[s] \in {"absent", "pending"} => starts'[s] = 0)
    BY <2>4, <2>5, <2>6
  <2> QED
    BY <2>8, <2>10, <2>11
<1>13. ASSUME NEW x \in Procs, Raise(x) PROVE Once'
  BY <1>13 DEF Raise, GoTo, Suffer
<1>14. CASE WorkerCrash
  BY <1>14 DEF WorkerCrash, GoTo, Suffer
<1>15. CASE ApiCrash
  <2>1. \A x \in Procs : pc'[x] \in {"begin", "call"} => pc[x] = pc'[x]
    BY <1>15 DEF ApiCrash
  <2>2. \A q \in Parents : ppc'[q] \in {"new", "ended", "insert"} => ppc[q] = ppc'[q]
    BY <1>15 DEF ApiCrash
  <2> QED
    BY <1>15, <2>1, <2>2 DEF ApiCrash
<1>16. ASSUME NEW s \in EvalRows, Abandon(s) PROVE Once'
  BY <1>16 DEF Abandon
<1>17. ASSUME NEW s \in EvalRows, Replay(s) PROVE Once'
  BY <1>17 DEF Replay
<1>18. CASE UNCHANGED vars
  BY <1>18 DEF vars
<1> QED
  BY <1>1, <1>2, <1>3, <1>4, <1>5, <1>6, <1>7, <1>8, <1>9, <1>10,
     <1>11, <1>12, <1>13, <1>14, <1>15, <1>16, <1>17, <1>18
  DEF Next, PlanStep, WorkerStep, Execute, Procs

LEMMA Typed == Spec => [](TypeOK /\ Once)
<1>1. Init => Once
  BY RowsApart DEF Init, Once, Procs, Rows
<1> QED
  BY <1>1, InitTyped, StepTyped, StepOnce, PTL DEF Spec

\* Every variable keeps its type, and a row costs only once it has settled.
THEOREM TypeCorrect == Spec => []TypeOK
BY Typed, PTL

\* execute_shadow: no row is executed twice, whatever dies and however often records are put
\* back on the queue.
THEOREM RowsRunOnce == Spec => []RunsOnce
<1>1. Once => RunsOnce
  BY DEF Once, RunsOnce
<1> QED
  BY <1>1, Typed, PTL

-----------------------------------------------------------------------------
(* What today's rows cost.  The library's sum over a set chooses a recursive  *)
(* function; of costs that are 0 or 1 the function that counts is the one.    *)

First(s) == CHOOSE x \in s : TRUE

\* g sums f over every subset of S.
Summing(g, f, S) ==
    g = [s \in SUBSET S |-> IF s = {} THEN 0 ELSE f[First(s)] + g[s \ {First(s)}]]

Ones(f, s) == {x \in s : f[x] = 1}

LEMMA CountingSums ==
  ASSUME NEW S, IsFiniteSet(S), NEW f, \A x \in S : f[x] \in {0, 1}
  PROVE  Summing([s \in SUBSET S |-> Cardinality(Ones(f, s))], f, S)
<1> DEFINE G == [s \in SUBSET S |-> Cardinality(Ones(f, s))]
<1> SUFFICES ASSUME NEW s \in SUBSET S
             PROVE  Cardinality(Ones(f, s))
                      = IF s = {} THEN 0 ELSE f[First(s)] + G[s \ {First(s)}]
  BY DEF Summing
<1>1. CASE s = {}
  BY <1>1, FS_EmptySet DEF Ones
<1>2. CASE s # {}
  <2> DEFINE x == First(s)
  <2>1. x \in s /\ f[x] \in {0, 1}
    BY <1>2 DEF First
  <2>2. G[s \ {x}] = Cardinality(Ones(f, s \ {x}))
    OBVIOUS
  <2>3. IsFiniteSet(Ones(f, s)) /\ Cardinality(Ones(f, s)) \in Nat
    <3>1. Ones(f, s) \in SUBSET S
      BY DEF Ones
    <3> QED
      BY <3>1, FS_Subset, FS_CardinalityType
  <2> HIDE DEF x, G
  <2>4. Ones(f, s \ {x}) = Ones(f, s) \ {x}
    BY DEF Ones
  <2>5. x \in Ones(f, s) <=> f[x] = 1
    BY <2>1 DEF Ones
  <2>6. Cardinality(Ones(f, s)) = f[x] + Cardinality(Ones(f, s \ {x}))
    <3>1. Cardinality(Ones(f, s) \ {x})
            = IF x \in Ones(f, s) THEN Cardinality(Ones(f, s)) - 1 ELSE Cardinality(Ones(f, s))
      BY <2>3, FS_RemoveElement
    <3> DEFINE c == Cardinality(Ones(f, s))
               d == Cardinality(Ones(f, s \ {x}))
    <3>2. c \in Nat /\ d = IF f[x] = 1 THEN c - 1 ELSE c
      BY <2>3, <2>4, <2>5, <3>1
    <3> HIDE DEF c, d
    <3>3. c = f[x] + d
      BY <2>1, <3>2
    <3> QED
      BY <3>3 DEF c, d
  <2> QED
    BY <1>2, <2>2, <2>6 DEF x
<1> QED
  BY <1>1, <1>2

\* Two functions that sum f over the subsets of a finite set are equal: take a smallest subset
\* on which they differ.
LEMMA SumsAreEqual ==
  ASSUME NEW S, IsFiniteSet(S), NEW f, NEW g, NEW h, Summing(g, f, S), Summing(h, f, S)
  PROVE  g[S] = h[S]
<1> DEFINE Bad == {s \in SUBSET S : g[s] # h[s]}
<1> SUFFICES ASSUME Bad # {} PROVE FALSE
  OBVIOUS
<1>1. IsWellFoundedOn(StrictSubsetOrdering(S), SUBSET S)
  BY FS_StrictSubsetOrderingWellFounded, FS_FiniteSubsetsOfFinite
<1>2. Bad \subseteq SUBSET S
  OBVIOUS
<1>3. PICK s \in Bad : \A t \in Bad : ~(<<t, s>> \in StrictSubsetOrdering(S))
  <2> HIDE DEF Bad
  <2> QED
    BY <1>1, <1>2, WFMin
<1>4. s \in SUBSET S /\ g[s] # h[s]
  OBVIOUS
<1>5. /\ g[s] = IF s = {} THEN 0 ELSE f[First(s)] + g[s \ {First(s)}]
      /\ h[s] = IF s = {} THEN 0 ELSE f[First(s)] + h[s \ {First(s)}]
  BY <1>4 DEF Summing
<1>6. s # {}
  BY <1>4, <1>5
<1> DEFINE t == s \ {First(s)}
<1>7. First(s) \in s
  BY <1>6 DEF First
<1>8. t \in SUBSET S /\ t \subseteq s /\ t # s
  BY <1>4, <1>7
<1>9. <<t, s>> \in StrictSubsetOrdering(S)
  BY <1>4, <1>8 DEF StrictSubsetOrdering
<1>10. g[t] = h[t]
  BY <1>3, <1>8, <1>9
<1> QED
  BY <1>4, <1>5, <1>6, <1>10

LEMMA RowsFinite == IsFiniteSet(Rows)
<1> DEFINE f == [t \in Fanouts |-> [parent |-> t[1], model |-> t[2], source |-> "fanout"]]
<1>1. f \in Surjection(Fanouts, FanRows)
  BY DEF Surjection, FanRows
<1>2. IsFiniteSet(FanRows)
  BY <1>1, FS_Surjection, ShadowsAssumption
<1> QED
  BY <1>2, EvalRowsFinite, FS_Union DEF Rows

\* today_cost: what the rows of a model cost is how many of them were paid for.
LEMMA CostIsCount ==
  ASSUME TypeOK, NEW m
  PROVE  TodayCost(m)
           = Cardinality({s \in Rows : s.model = m /\ status[s] # "absent" /\ cost[s] = 1})
<1> DEFINE S == {s \in Rows : s.model = m /\ status[s] # "absent"}
           C == CHOOSE g : Summing(g, cost, S)
           G == [s \in SUBSET S |-> Cardinality(Ones(cost, s))]
<1>1. TodayCost(m) = C[S]
  BY DEF TodayCost, MapThenSumSet, MapThenFoldSet, Summing, First
<1>2. IsFiniteSet(S) /\ \A x \in S : cost[x] \in {0, 1}
  BY RowsFinite, FS_Subset DEF TypeOK
<1> HIDE DEF S
<1>3. Summing(G, cost, S)
  BY <1>2, CountingSums
<1>4. Summing(C, cost, S)
  BY <1>3
<1> HIDE DEF C
<1>5. C[S] = G[S]
  <2> HIDE DEF G
  <2> QED
    BY <1>2, <1>3, <1>4, SumsAreEqual
<1>6. Ones(cost, S) = {s \in Rows : s.model = m /\ status[s] # "absent" /\ cost[s] = 1}
  BY DEF Ones, S
<1> QED
  BY <1>1, <1>5, <1>6

-----------------------------------------------------------------------------
(* The cap.  A row counts against the model from the draw of its planner on, until it *)
(* settles without a cost; the planners' draws are one after the other, and each that *)
(* counts was drawn while the costs were below the cap.                              *)

\* The planners that have drawn the model and not inserted its row.
Drawn(m) == {p \in Parents : ppc[p] = "insert" /\ m \in room[p]}

Live(m) == {s \in EvalRows : s.model = m /\ status[s] \in {"pending", "running"}}
Paid(m) == {s \in EvalRows : s.model = m /\ cost[s] = 1}

Counted(m) == Paid(m) \cup Live(m) \cup {EvalRow(p, m) : p \in Drawn(m)}

\* Of any rows that count, the one that was drawn last found them all but the paid ones open.
Covered ==
    \A m \in Cloud : \A X \in SUBSET Counted(m) :
        X # {} => \E s \in X : Cardinality(X) <= Cap[m] + open[s.parent][m]

\* Nothing that shrinks what counts disturbs it.
LEMMA Narrows ==
  ASSUME Covered, open' = open,
         \A m \in Cloud : Drawn(m)' \subseteq Drawn(m),
         \A s \in EvalRows : cost'[s] = 1 \/ status'[s] \in {"pending", "running"} =>
             \/ cost[s] = 1 \/ status[s] \in {"pending", "running"}
             \/ \E p \in Drawn(s.model) : s = EvalRow(p, s.model)
  PROVE  Covered'
<1> SUFFICES ASSUME NEW m \in Cloud, NEW X \in SUBSET Counted(m)', X # {}
             PROVE  \E s \in X : Cardinality(X) <= Cap[m] + open'[s.parent][m]
  BY DEF Covered
<1>1. Counted(m)' \subseteq Counted(m)
  <2> SUFFICES ASSUME NEW s \in Counted(m)' PROVE s \in Counted(m)
    OBVIOUS
  <2>1. CASE \E p \in Drawn(m)' : s = EvalRow(p, m)
    BY <2>1 DEF Counted
  <2>2. CASE s \in Paid(m)' \cup Live(m)'
    BY <2>2 DEF Counted, Paid, Live
  <2> QED
    BY <2>1, <2>2 DEF Counted, EvalRow
<1>2. X \in SUBSET Counted(m)
  BY <1>1
<1>3. PICK s \in X : Cardinality(X) <= Cap[m] + open[s.parent][m]
  BY <1>2 DEF Covered
<1> QED
  BY <1>3

LEMMA UnionBound ==
  ASSUME NEW A, NEW B, IsFiniteSet(A), IsFiniteSet(B)
  PROVE  /\ IsFiniteSet(A \cup B) /\ Cardinality(A \cup B) \in Nat
         /\ Cardinality(A \cup B) <= Cardinality(A) + Cardinality(B)
<1>1. /\ IsFiniteSet(A \cap B) /\ IsFiniteSet(A \cup B)
      /\ Cardinality(A \cup B) = Cardinality(A) + Cardinality(B) - Cardinality(A \cap B)
  BY FS_Intersection, FS_Union
<1>2. /\ Cardinality(A \cap B) \in Nat /\ Cardinality(A \cup B) \in Nat
      /\ Cardinality(A) \in Nat /\ Cardinality(B) \in Nat
  BY <1>1, FS_CardinalityType
<1> QED
  BY <1>1, <1>2

\* When a planner reads, what counts is what was paid for and what is under way.
LEMMA CountedBound ==
  ASSUME TypeOK, NEW m \in Cloud
  PROVE  /\ IsFiniteSet(Counted(m))
         /\ Cardinality(Counted(m)) <= TodayCost(m) + UnderWay(m)
         /\ TodayCost(m) \in Nat
<1> DEFINE D == {EvalRow(p, m) : p \in Drawn(m)}
           all == {s \in Rows : s.model = m /\ status[s] # "absent" /\ cost[s] = 1}
<1>1. /\ IsFiniteSet(Paid(m)) /\ IsFiniteSet(Live(m))
      /\ Cardinality(Paid(m)) \in Nat /\ Cardinality(Live(m)) \in Nat
  <2>1. Paid(m) \in SUBSET EvalRows /\ Live(m) \in SUBSET EvalRows
    BY DEF Paid, Live
  <2> QED
    BY <2>1, EvalRowsFinite, FS_Subset, FS_CardinalityType
<1>2. /\ IsFiniteSet(Drawn(m)) /\ IsFiniteSet(D)
      /\ Cardinality(D) <= Cardinality(Drawn(m))
      /\ Cardinality(D) \in Nat /\ Cardinality(Drawn(m)) \in Nat
  <2>1. IsFiniteSet(Drawn(m))
    BY ShadowsAssumption, FS_Subset DEF Drawn
  <2> DEFINE f == [p \in Drawn(m) |-> EvalRow(p, m)]
  <2>2. f \in Surjection(Drawn(m), D)
    BY DEF Surjection
  <2> HIDE DEF D, f
  <2> QED
    BY <2>1, <2>2, FS_Surjection, FS_CardinalityType
<1>3. IsFiniteSet(all) /\ Cardinality(all) \in Nat /\ Cardinality(Paid(m)) <= Cardinality(all)
  <2>1. all \in SUBSET Rows /\ Paid(m) \in SUBSET all
    BY DEF TypeOK, Paid, Rows, Settled
  <2> HIDE DEF all
  <2> QED
    BY <2>1, RowsFinite, FS_Subset, FS_CardinalityType
<1>4. TodayCost(m) = Cardinality(all)
  BY CostIsCount
<1>5. UnderWay(m) = Cardinality(Live(m)) + Cardinality(Drawn(m))
  BY DEF UnderWay, Live, Drawn
<1> HIDE DEF D, all
<1>6. /\ IsFiniteSet(Paid(m) \cup Live(m))
      /\ Cardinality(Paid(m) \cup Live(m)) \in Nat
      /\ Cardinality(Paid(m) \cup Live(m)) <= Cardinality(Paid(m)) + Cardinality(Live(m))
  BY <1>1, UnionBound
<1>7. /\ IsFiniteSet((Paid(m) \cup Live(m)) \cup D)
      /\ Cardinality((Paid(m) \cup Live(m)) \cup D)
            <= Cardinality(Paid(m) \cup Live(m)) + Cardinality(D)
      /\ Cardinality((Paid(m) \cup Live(m)) \cup D) \in Nat
  BY <1>2, <1>6, UnionBound
<1>8. Counted(m) = (Paid(m) \cup Live(m)) \cup D
  BY DEF Counted, D
<1> QED
  BY <1>1, <1>2, <1>3, <1>4, <1>5, <1>6, <1>7, <1>8

\* A planner that draws adds one row of each model that is below its cap.
LEMMA PlanCovered ==
  ASSUME TypeOK, Once, Covered, NEW p \in Parents, Plan(p)
  PROVE  Covered'
<1> SUFFICES ASSUME NEW m \in Cloud, NEW X \in SUBSET Counted(m)', X # {}
             PROVE  \E s \in X : Cardinality(X) <= Cap[m] + open'[s.parent][m]
  BY DEF Covered
<1> DEFINE t == EvalRow(p, m)
<1>1. PICK S \in SUBSET {x \in Models : <<p, x>> \in Targets /\ ~CloudTargetBlocked(x)} :
           room' = [room EXCEPT ![p] = S]
  BY DEF Plan
<1>2. /\ ppc[p] = "ended" /\ ppc' = [ppc EXCEPT ![p] = "insert"]
      /\ open' = [open EXCEPT ![p] = [x \in Cloud |-> UnderWay(x)]]
      /\ UNCHANGED <<status, cost>>
  BY DEF Plan, rowVars
<1>3. /\ \A q \in Parents \ {p} : open'[q] = open[q]
      /\ open'[p][m] = UnderWay(m)
  BY <1>2 DEF TypeOK
<1>4. Drawn(m)' = IF m \in S THEN Drawn(m) \cup {p} ELSE Drawn(m)
  BY <1>1, <1>2 DEF Drawn, TypeOK
<1>5. Paid(m)' = Paid(m) /\ Live(m)' = Live(m)
  BY <1>2 DEF Paid, Live
<1>6. Counted(m)' = IF m \in S THEN Counted(m) \cup {t} ELSE Counted(m)
  BY <1>4, <1>5 DEF Counted, EvalRow
<1>7. \A s \in Counted(m) : s.parent \in Parents /\ s.parent # p
  <2> SUFFICES ASSUME NEW s \in Counted(m) PROVE s.parent \in Parents /\ s.parent # p
    OBVIOUS
  <2>1. CASE s \in Paid(m) \cup Live(m)
    <3>1. s \in EvalRows /\ status[s] # "absent"
      BY <2>1, RowsApart DEF Paid, Live, TypeOK, Settled, Rows
    <3> QED
      BY <1>2, <3>1, RowsApart DEF Once
  <2>2. CASE \E q \in Drawn(m) : s = EvalRow(q, m)
    BY <1>2, <2>2 DEF Drawn, EvalRow
  <2> QED
    BY <2>1, <2>2 DEF Counted
<1>8. CASE t \in X /\ m \in S
  <2>1. ~CloudTargetBlocked(m)
    BY <1>1, <1>8
  <2>2. /\ IsFiniteSet(Counted(m)) /\ TodayCost(m) \in Nat /\ UnderWay(m) \in Nat
        /\ Cardinality(Counted(m)) <= TodayCost(m) + UnderWay(m)
    BY CountedBound, UnderWayCounts
  <2>3. TodayCost(m) < Cap[m] /\ Cap[m] \in Nat
    BY <2>1, <2>2, ShadowsAssumption DEF CloudTargetBlocked
  <2>4. /\ IsFiniteSet(Counted(m) \cup {t}) /\ Cardinality(Counted(m)) \in Nat
        /\ Cardinality(Counted(m) \cup {t}) <= Cardinality(Counted(m)) + 1
        /\ Cardinality(Counted(m) \cup {t}) \in Nat
    <3> HIDE DEF t
    <3>1. /\ IsFiniteSet(Counted(m) \cup {t}) /\ Cardinality(Counted(m)) \in Nat
          /\ Cardinality(Counted(m) \cup {t}) = IF t \in Counted(m)
                THEN Cardinality(Counted(m)) ELSE Cardinality(Counted(m)) + 1
      BY <2>2, FS_AddElement, FS_CardinalityType
    <3> QED
      BY <3>1
  <2>5. Cardinality(X) <= Cardinality(Counted(m) \cup {t}) /\ Cardinality(X) \in Nat
    <3>1. X \in SUBSET (Counted(m) \cup {t})
      BY <1>6, <1>8
    <3> HIDE DEF t
    <3> QED
      BY <2>4, <3>1, FS_Subset, FS_CardinalityType
  <2>6. t.parent = p
    BY DEF EvalRow
  <2> HIDE DEF t
  <2> QED
    BY <1>3, <1>8, <2>2, <2>3, <2>4, <2>5, <2>6
<1>9. CASE ~(t \in X /\ m \in S)
  <2>1. X \in SUBSET Counted(m)
    BY <1>6, <1>9
  <2>2. PICK s \in X : Cardinality(X) <= Cap[m] + open[s.parent][m]
    BY <2>1 DEF Covered
  <2> QED
    BY <1>3, <1>7, <2>1, <2>2
<1> QED
  BY <1>8, <1>9

LEMMA CoveredStep ==
  ASSUME TypeOK, Once, Covered, [Next]_vars
  PROVE  Covered'
<1> USE ShadowsAssumption, RowsApart DEF Drawn, rowVars, planVars
<1>1. ASSUME NEW p \in Parents, ParentEnds(p) PROVE Covered'
  BY <1>1, Narrows DEF ParentEnds, TypeOK
<1>2. ASSUME NEW p \in Parents, StartFanout(p) PROVE Covered'
  <2>1. \A s \in EvalRows : status'[s] = status[s]
    BY <1>2 DEF StartFanout, SetStatus, Rows, TypeOK
  <2> QED
    BY <1>2, <2>1, Narrows DEF StartFanout
<1>3. ASSUME NEW p \in Parents, Insert(p) PROVE Covered'
  <2>1. \A s \in EvalRows : status'[s] = status[s] \/ \E m \in room[p] : s = EvalRow(p, m)
    BY <1>3 DEF Insert, SetStatus, Rows, TypeOK
  <2>2. \A s \in EvalRows :
            status'[s] = status[s] \/ \E q \in Drawn(s.model) : s = EvalRow(q, s.model)
    BY <1>3, <2>1 DEF Insert, EvalRow
  <2>3. \A m \in Cloud : Drawn(m)' \subseteq Drawn(m)
    BY <1>3 DEF Insert, TypeOK
  <2>4. cost' = cost /\ open' = open
    BY <1>3 DEF Insert
  <2> QED
    BY <2>2, <2>3, <2>4, Narrows
<1>4. ASSUME NEW p \in Parents, Enqueue(p) PROVE Covered'
  <2>1. UNCHANGED <<status, cost, room, open>> /\ ppc' \in {ppc, [ppc EXCEPT ![p] = "done"]}
    BY <1>4 DEF Enqueue
  <2>2. \A m \in Cloud : Drawn(m)' \subseteq Drawn(m)
    BY <2>1 DEF TypeOK
  <2> QED
    BY <2>1, <2>2, Narrows
<1>5. ASSUME NEW p \in Parents, PlanFails(p) PROVE Covered'
  <2>1. \A m \in Cloud : Drawn(m)' \subseteq Drawn(m)
    BY <1>5 DEF PlanFails, TypeOK
  <2> QED
    BY <1>5, <2>1, Narrows DEF PlanFails
<1>6. ASSUME UNCHANGED <<status, cost, ppc, room, open>> PROVE Covered'
  BY <1>6, Narrows
<1>7. ASSUME NEW s \in EvalRows, Dequeue(s) PROVE Covered'
  BY <1>6, <1>7 DEF Dequeue
<1>8. CASE ReadRow \/ RQEnds \/ WorkerCrash
  BY <1>6, <1>8 DEF ReadRow, RQEnds, WorkerCrash
<1>9. CASE SwapFails
  <2>1. \A s \in EvalRows : status'[s] \in {status[s], "failed"}
    BY <1>9 DEF SwapFails, SetStatus, Rows, TypeOK
  <2> QED
    BY <1>9, <2>1, Narrows DEF SwapFails
<1>10. ASSUME NEW x \in Procs, Begin(x) PROVE Covered'
  <2>1. RowOf(x) \in Rows /\ status[RowOf(x)] = "pending"
    BY <1>10, RowsDiffer DEF Begin, Once
  <2>2. \A s \in EvalRows : status'[s] = status[s] \/ status[s] = "pending"
    BY <1>10, <2>1 DEF Begin, SetStatus, Rows, TypeOK
  <2> QED
    BY <1>10, <2>2, Narrows DEF Begin
<1>11. ASSUME NEW x \in Procs, Finish(x) PROVE Covered'
  <2>1. PICK t \in Rows : t = RowOf(x) /\ status[t] = "running"
    BY <1>11, RowsDiffer DEF Finish, Once
  <2>2. \E v, c : SetStatus({t}, v) /\ cost' = [cost EXCEPT ![t] = c]
    <3> HIDE DEF RowOf
    <3> QED
      BY <1>11, <2>1 DEF Finish
  <2>3. \A s \in EvalRows : \/ status'[s] = status[s] /\ cost'[s] = cost[s]
                            \/ status[s] = "running"
    BY <2>1, <2>2 DEF SetStatus, Rows, TypeOK
  <2>4. UNCHANGED <<ppc, room, open>>
    BY <1>11 DEF Finish
  <2> QED
    BY <2>3, <2>4, Narrows
<1>12. ASSUME NEW x \in Procs, Raise(x) PROVE Covered'
  BY <1>6, <1>12 DEF Raise
<1>13. CASE ApiCrash
  <2>1. \A m \in Cloud : Drawn(m)' \subseteq Drawn(m)
    BY <1>13 DEF ApiCrash, TypeOK
  <2> QED
    BY <1>13, <2>1, Narrows DEF ApiCrash
<1>14. ASSUME NEW s \in EvalRows, Abandon(s) \/ Replay(s) PROVE Covered'
  BY <1>6, <1>14 DEF Abandon, Replay
<1>15. CASE UNCHANGED vars
  BY <1>6, <1>15 DEF vars
<1> QED
  BY <1>1, <1>2, <1>3, <1>4, <1>5, <1>7, <1>8, <1>9, <1>10, <1>11, <1>12, <1>13, <1>14, <1>15,
     PlanCovered
  DEF Next, PlanStep, WorkerStep, Execute, Procs

\* _cloud_target_blocked: the cap is read before the rows it bounds are paid for; what a model
\* costs in a day passes it by no more than what some planner found under way.
THEOREM OvershootIsOpen == Spec => []OvershootWasOpen
<1>1. Init => Covered
  <2> SUFFICES ASSUME Init PROVE Covered
    OBVIOUS
  <2>1. \A m \in Cloud : Counted(m) = {}
    BY RowsApart DEF Init, Counted, Paid, Live, Drawn, Rows
  <2> QED
    BY <2>1 DEF Covered
<1>2. Covered => OvershootWasOpen
  <2> SUFFICES ASSUME Covered, NEW m \in Cloud, Paid(m) # {}
               PROVE  \E s \in Paid(m) : Cardinality(Paid(m)) <= Cap[m] + open[s.parent][m]
    BY DEF OvershootWasOpen, Paid
  <2> QED
    BY DEF Covered, Counted
<1>3. TypeOK /\ Once /\ Covered /\ [Next]_vars => Covered'
  BY CoveredStep
<1> QED
  BY <1>1, <1>2, <1>3, Typed, PTL DEF Spec

=============================================================================
