------------------------------ MODULE CodeEval ------------------------------
(***************************************************************************)
(* How generated code is measured: the code_eval job, which ships the      *)
(* artifact of a job or of one of its shadows to the build sandbox, turns  *)
(* what comes back into scores of 1 to 5, one for each dimension, and adds *)
(* them to the row; and the export that pairs the best with the worst row  *)
(* by the weighted composite of those scores.                              *)
(*                                                                         *)
(* A crate is what the sandbox and the index would find out about it.  A   *)
(* step of an evaluation is one call of either.                            *)
(***************************************************************************)
EXTENDS Integers, SequencesExt

CONSTANTS
    Parent, Shadows,   \* a job and its shadows, which answered the same prompt
    Evals, Raters,     \* code_eval jobs, and judges or people who score as well
    Crates,            \* the projects that the models may write
    NoCrate,           \* a row without an artifact
    EvalRequests,      \* the inputs of a code_eval job
    RaterScores,       \* the dimensions that raters give
    Suites,            \* the dimensions of the harness's own suites
    Tests,             \* the tests of each suite
    Unset,             \* a requirement without a minor version
    Weights,           \* config/composite.yaml
    MinGap,            \* min_gap of an export, in units of 1/10000
    MaxFaults          \* bound on interruptions and calls that time out

Rows == {Parent} \cup Shadows

Compiles == 5
Fails    == 1

Builtin    == {"compile", "deps", "mutation", "structural"}
Dimensions == Builtin \cup Suites

\* A dependency: what Cargo.toml requires, and the versions the index has that are not
\* yanked; a name that the index does not know has none.  A Cargo.toml that cannot be read
\* counts as such a name.
Dep == [op        : {"caret", "tilde", "exact", "range"},
        major     : Nat,
        minor     : Nat \cup {Unset},
        known     : BOOLEAN,
        published : SUBSET (Nat \X Nat)]

\* own: the tests that the model wrote; drifted: it lacks a signature that is required.
Crate == [deps   : SUBSET Dep,
          builds : BOOLEAN,
          passed : [Suites -> 0 .. Tests],
          own    : {"none", "failing", "passing"},
          killed : Nat, missed : Nat,
          unsafe : BOOLEAN, panics : BOOLEAN, drifted : BOOLEAN,
          lints  : BOOLEAN]

\* gate: the commands include check or build.
EvalRequest == [target : Rows, gate : BOOLEAN, suites : SUBSET Suites,
                deps : BOOLEAN, mutants : BOOLEAN, structural : BOOLEAN, apply : BOOLEAN]

ASSUME CodeEvalAssumption ==
    /\ Parent \notin Shadows /\ Evals \cap Raters = {}
    /\ Crates \subseteq Crate /\ NoCrate \notin Crates
    /\ EvalRequests \subseteq EvalRequest
    /\ IsFiniteSet(Suites) /\ Suites \cap (Builtin \cup {"baseline", "mutants"}) = {}
    /\ Tests \in Nat \ {0}
    /\ Unset \notin Nat
    /\ MinGap \in Nat /\ MaxFaults \in Nat

VARIABLES
    crate,     \* the artifact of each row
    scores,    \* its quality_scores
    pc, ask,   \* where each evaluation stands, and what it was asked
    todo,      \* the calls it has yet to make
    dims,      \* what it has measured so far
    faults,
    blurred    \* history: the evaluations with a call that timed out or a crate not resolved

vars == <<crate, scores, pc, ask, todo, dims, faults, blurred>>

NoDims    == [d \in {} |-> 0]
NoRequest == [target |-> Parent, gate |-> FALSE, suites |-> {}, deps |-> FALSE,
              mutants |-> FALSE, structural |-> FALSE, apply |-> FALSE]

Init ==
    /\ crate = [r \in Rows |-> NoCrate]
    /\ scores = [r \in Rows |-> {}]
    /\ pc = [e \in Evals |-> "new"]
    /\ ask = [e \in Evals |-> NoRequest]
    /\ todo = [e \in Evals |-> <<>>]
    /\ dims = [e \in Evals |-> NoDims]
    /\ faults = 0
    /\ blurred = {}

-----------------------------------------------------------------------------
(* What a crate is worth. *)

\* Python rounds a half to the even neighbour.
Nearest(n, d) ==
    LET q == n \div d
        r == 2 * (n % d)
    IN  IF r < d \/ (r = d /\ q % 2 = 0) THEN q ELSE q + 1

\* _rate_to_score: the rate n/d on a scale of 1 to 5.
RateToScore(n, d) == Nearest(d + 4 * n, d)

\* Mutant: the minor version has to be there even after 1.0.
SatisfiableByMinor(d) ==
    \/ d.op = "range" \/ d.published = {}
    \/ \E v \in d.published :
          v[1] = d.major /\ v[2] = (IF d.minor = Unset THEN 0 ELSE d.minor)

\* _req_satisfiable: a range passes, and so does a crate of which no version can be read; a
\* missing minor version counts as 0.
ReqSatisfiable(d) ==
    \/ d.op = "range" \/ d.published = {}
    \/ \E v \in d.published :
          /\ v[1] = d.major
          /\ d.major = 0 => v[2] = (IF d.minor = Unset THEN 0 ELSE d.minor)

Offender(d) == ~d.known \/ ~ReqSatisfiable(d)

\* What Cargo takes for the requirement.
CargoTakes(d, v) ==
    /\ v[1] = d.major
    /\ d.minor # Unset =>
          IF d.op = "caret" /\ d.major > 0 THEN v[2] >= d.minor ELSE v[2] = d.minor

-----------------------------------------------------------------------------
(* Rows. *)

\* The executor of a job or shadow stores what it could parse as a project.
Generate(r, c) ==
    /\ crate[r] = NoCrate
    /\ crate' = [crate EXCEPT ![r] = c]
    /\ UNCHANGED <<scores, pc, ask, todo, dims, faults, blurred>>

AddScore(r, p, f) == scores' = [scores EXCEPT ![r] = @ \cup {[by |-> p, dims |-> f]}]

\* A judge or a person scores a row, in dimensions of their own.
Rate(p, r, f) ==
    /\ crate[r] # NoCrate
    /\ \A s \in Rows : \A x \in scores[s] : x.by # p
    /\ AddScore(r, p, f)
    /\ UNCHANGED <<crate, pc, ask, todo, dims, faults, blurred>>

-----------------------------------------------------------------------------
(* Evaluations.  The one worker runs them one after the other. *)

Evaluating(e) == pc[e] \in {"calls", "finish"}

GoTo(e, p) == pc' = [pc EXCEPT ![e] = p]

\* What was measured is gone with the call.
Over(e, p) ==
    /\ GoTo(e, p)
    /\ todo' = [todo EXCEPT ![e] = <<>>]
    /\ dims' = [dims EXCEPT ![e] = NoDims]

\* The calls an evaluation makes, in this order; the baseline decides on "mutants".
When(b, c) == IF b THEN <<c>> ELSE <<>>
Behind(q)  ==
    SetToSeq(q.suites) \o When(q.mutants, "baseline") \o When(q.structural, "structural")
Calls(q)   == When(q.deps, "deps") \o <<"compile">> \o Behind(q)

Start(e, q) ==
    /\ pc[e] = "new"
    /\ \A f \in Evals : ~Evaluating(f)
    /\ crate[q.target] # NoCrate
    /\ ask' = [ask EXCEPT ![e] = q]
    /\ todo' = [todo EXCEPT ![e] = Calls(q)]
    /\ GoTo(e, "calls")
    /\ UNCHANGED <<crate, scores, dims, faults, blurred>>

\* _fail_judge: the target or its artifact is missing.
Refuse(e, r) ==
    /\ pc[e] = "new"
    /\ \A f \in Evals : ~Evaluating(f)
    /\ crate[r] = NoCrate
    /\ GoTo(e, "failed")
    /\ UNCHANGED <<crate, scores, ask, todo, dims, faults, blurred>>

Subject(e)  == crate[ask[e].target]
Next1(e, c) == pc[e] = "calls" /\ todo[e] # <<>> /\ Head(todo[e]) = c

\* The call is over: it has found v for the dimension d, and cs are the calls to come.
Found(e, d, v, cs) ==
    /\ dims' = [dims EXCEPT ![e] =
                   [x \in DOMAIN @ \cup {d} |-> IF x = d THEN v ELSE @[x]]]
    /\ todo' = [todo EXCEPT ![e] = cs]
    /\ UNCHANGED <<crate, scores, pc, ask>>

\* ... or the dimension does not apply, and no number is recorded.
NotApplicable(e, cs) ==
    /\ todo' = [todo EXCEPT ![e] = cs]
    /\ UNCHANGED <<crate, scores, pc, ask, dims>>

Clear == UNCHANGED <<faults, blurred>>
Blur(e) ==
    /\ faults < MaxFaults
    /\ faults' = faults + 1
    /\ blurred' = blurred \cup {e}

Rest(e) == Tail(todo[e])

\* run_deps_check: a crate that cannot be resolved is no offender.
CheckDeps(e) ==
    /\ Next1(e, "deps")
    /\ \/ /\ Found(e, "deps",
                   IF \E d \in Subject(e).deps : Offender(d) THEN Fails ELSE Compiles, Rest(e))
          /\ Clear
       \/ /\ Found(e, "deps", Compiles, Rest(e))
          /\ Blur(e)

\* Mutant: the suites run whether the gate was passed or not.
WithoutGate(e) == Rest(e)

\* A crate that does not compile is spared the suites and the mutants.
BehindGate(e) == When(ask[e].structural, "structural")

Compile(e) ==
    /\ Next1(e, "compile")
    /\ \/ /\ Clear
          /\ IF ask[e].gate /\ Subject(e).builds THEN Found(e, "compile", Compiles, Rest(e))
                                                 ELSE Found(e, "compile", Fails, BehindGate(e))
       \/ /\ Blur(e)
          /\ Found(e, "compile", Fails, BehindGate(e))

\* A suite that does not compile against the crate passes no test.
SuiteScore(k, s) == RateToScore(k.passed[s], Tests)

RunSuite(e, s) ==
    /\ Next1(e, s)
    /\ \/ Found(e, s, SuiteScore(Subject(e), s), Rest(e)) /\ Clear
       \/ Found(e, s, Fails, Rest(e)) /\ Blur(e)

\* Mutation testing needs tests of the model's own, all of them passing.
Baseline(e) ==
    /\ Next1(e, "baseline")
    /\ \/ /\ Clear
          /\ NotApplicable(e, IF Subject(e).own = "passing" THEN <<"mutants">> \o Rest(e)
                                                            ELSE Rest(e))
       \/ NotApplicable(e, Rest(e)) /\ Blur(e)

Mutate(e) ==
    /\ Next1(e, "mutants")
    /\ LET k == Subject(e) IN
       \/ /\ Clear
          /\ IF k.killed + k.missed = 0 THEN NotApplicable(e, Rest(e))
             ELSE Found(e, "mutation", RateToScore(k.killed, k.killed + k.missed), Rest(e))
       \/ NotApplicable(e, Rest(e)) /\ Blur(e)

\* analyze_tar, over all the files of the crate.
Clean(k) == ~k.unsafe /\ ~k.panics /\ ~k.drifted

\* The AST is scanned in any case, clippy runs on what compiled.
Structural(e) ==
    /\ Next1(e, "structural")
    /\ LET k == Subject(e)
           compiled == dims[e]["compile"] = Compiles
       IN  \/ /\ Clear
              /\ Found(e, "structural", IF Clean(k) /\ (compiled => k.lints)
                                        THEN Compiles ELSE Fails, Rest(e))
           \/ compiled /\ Found(e, "structural", Fails, Rest(e)) /\ Blur(e)

\* BuildServiceError of a build call: nothing is recorded.
ServiceFails(e) ==
    /\ pc[e] = "calls" /\ todo[e] # <<>> /\ Head(todo[e]) # "deps"
    /\ Over(e, "failed")
    /\ UNCHANGED <<crate, scores, ask, faults, blurred>>

\* apply_score, in a transaction of its own ...
Apply(e) ==
    /\ pc[e] = "calls" /\ todo[e] = <<>>
    /\ GoTo(e, "finish")
    /\ IF ask[e].apply THEN AddScore(ask[e].target, e, dims[e]) ELSE UNCHANGED scores
    /\ UNCHANGED <<crate, ask, todo, dims, faults, blurred>>

\* ... before the verdict is committed to the evaluation's own row.
Finish(e) ==
    /\ pc[e] = "finish"
    /\ Over(e, "complete")
    /\ UNCHANGED <<crate, scores, ask, faults, blurred>>

\* An exception, RQ's timeout or a crash, at any await; that the last leaves the row RUNNING
\* makes no difference here.
Interrupt(e) ==
    /\ Evaluating(e)
    /\ faults < MaxFaults
    /\ faults' = faults + 1
    /\ Over(e, "failed")
    /\ UNCHANGED <<crate, scores, ask, blurred>>

Step(e) ==
    \/ \E q \in EvalRequests : Start(e, q)
    \/ \E r \in Rows : Refuse(e, r)
    \/ \E s \in Suites : RunSuite(e, s)
    \/ CheckDeps(e) \/ Compile(e) \/ Baseline(e) \/ Mutate(e) \/ Structural(e)
    \/ ServiceFails(e) \/ Apply(e) \/ Finish(e) \/ Interrupt(e)

Next ==
    \/ \E r \in Rows, c \in Crates : Generate(r, c)
    \/ \E p \in Raters, r \in Rows, f \in RaterScores : Rate(p, r, f)
    \/ \E e \in Evals : Step(e)

Spec == Init /\ [][Next]_vars

-----------------------------------------------------------------------------
(* The composite and the export. *)

Given(r, d) == {x \in scores[r] : d \in DOMAIN x.dims}

\* _scored: the average of a dimension, in hundredths.
Average(r, d) ==
    Nearest(100 * SumFunction([x \in Given(r, d) |-> x.dims[d]]), Cardinality(Given(r, d)))

Measured(r) == {d \in DOMAIN Weights : Given(r, d) # {}}

Contributions(r) == SumFunction([d \in Measured(r) |-> Weights[d] * Average(r, d)])
WeightTotal(r)   == SumFunction([d \in Measured(r) |-> Weights[d]])

\* Mutant: the contributions are added up.
WeightedSum(r) == 100 * Contributions(r)

\* compute_composite, of the dimensions that have a weight.
Composite(r) == Nearest(100 * Contributions(r), WeightTotal(r))

\* No score comes of dimensions without weight.
Candidates == {r \in Rows : crate[r] # NoCrate /\ WeightTotal(r) # 0}

\* _preferences_from_scores with method=composite: the best and the worst answer.
Pairs ==
    {p \in Candidates \X Candidates :
        /\ scores[Parent] # {}
        /\ \A r \in Candidates : Composite(p[2]) <= Composite(r) /\ Composite(r) <= Composite(p[1])
        /\ p[1] # p[2]
        /\ Composite(p[1]) - Composite(p[2]) >= MinGap}

-----------------------------------------------------------------------------

\* What f says of the crate k is what q asked for and what k deserves; blur: a call timed out
\* or could not resolve a name.
Deserved(q, k, f, blur) ==
    LET clear  == ~blur /\ (q.gate \/ ~k.builds)
        has(d) == d \in DOMAIN f
    IN  /\ has("compile") /\ (f["compile"] = 5 => k.builds /\ q.gate)
        /\ \A s \in q.suites : has(s) <=> f["compile"] = 5
        /\ \A s \in q.suites : has(s) =>
              /\ k.builds
              /\ f[s] = 5 => 8 * k.passed[s] >= 7 * Tests
              /\ clear /\ f[s] = 1 => 8 * k.passed[s] <= Tests
        /\ has("mutation") => k.builds /\ k.own = "passing"
        /\ has("mutation") /\ f["mutation"] > 1 => k.killed > 0
        /\ has("structural") /\ f["structural"] = 5 => Clean(k) /\ (f["compile"] = 5 => k.lints)
        /\ clear => /\ f["compile"] = 1 => ~k.builds
                    /\ q.mutants /\ k.builds /\ k.own = "passing" /\ k.killed > 0
                          => has("mutation")
                    /\ has("structural") /\ f["structural"] = 1 => ~Clean(k) \/ ~k.lints

\* "never record a bogus result": the scores that an evaluation leaves are those of a whole
\* run, whatever failed on the way: all it was asked for and that applies, none better than
\* the crate deserves, and none worse unless a call timed out or no compiler was asked.
ScoresAreEarned ==
    \A r \in Rows : \A x \in {y \in scores[r] : y.by \in Evals} :
        /\ pc[x.by] \in {"finish", "complete", "failed"} /\ ask[x.by].target = r
        /\ Deserved(ask[x.by], crate[r], x.dims, x.by \in blurred)

\* "so we never false-flag": a crate loses the point for its dependencies only for a name
\* that is not there or a requirement that no version meets; but for a bare "0", which the
\* code takes for 0.0.
FlaggedForCause ==
    \A r \in Rows : \A x \in scores[r] :
        x.by \in Evals /\ "deps" \in DOMAIN x.dims /\ x.dims["deps"] = 1 =>
            \E d \in crate[r].deps :
                \/ ~d.known
                \/ \A v \in d.published : ~CargoTakes(d, v)
                \/ d.major = 0 /\ d.minor = Unset

\* The configuration under which the composite cannot mistake a crate for a better one: the
\* scores of a dimension are 4 apart at most, which is worth less than MinGap if the one that
\* does not apply to every crate is the mutation score, and if they are those that a crate
\* which does not compile is judged by.
Weight(d) == IF d \in DOMAIN Weights THEN Weights[d] ELSE 0

WeightsFit ==
    /\ Weights \in [DOMAIN Weights -> Nat] /\ Weight("compile") > 0
    /\ 40000 * Weight("mutation") < (MinGap - 1) * (Weight("compile") + Weight("mutation"))
    /\ 40000 * (Weight("deps") + Weight("structural"))
          < (MinGap - 1) * (Weight("compile") + Weight("deps") + Weight("structural"))

\* k is at least as good a crate as m, whatever is looked at.
AsGood(k, m) ==
    /\ m.builds => k.builds
    /\ \A s \in Suites : k.passed[s] >= m.passed[s]
    /\ (\E d \in k.deps : Offender(d)) => \E d \in m.deps : Offender(d)
    /\ m.own = "passing" => k.own = "passing"
    /\ k.killed * (m.killed + m.missed) >= m.killed * (k.killed + k.missed)
    /\ (Clean(m) => Clean(k)) /\ (m.lints => k.lints)

\* "the chosen/rejected pair reflects measured code quality": of two rows that were measured
\* in the same way, once and by nobody else, the better is not rejected for the worse, not
\* even by the checks that did not apply to one of them.
BetterIsNotRejected ==
    \A p \in Pairs :
        LET Way(r) == {[ask[x.by] EXCEPT !.target = Parent] : x \in scores[r]} IN
        (/\ \A r \in {p[1], p[2]} : /\ Cardinality(scores[r]) = 1
                                   /\ \A x \in scores[r] : x.by \in Evals \ blurred
         /\ Way(p[1]) = Way(p[2]))
        => ~AsGood(crate[p[2]], crate[p[1]])

=============================================================================
