------------------------------- MODULE Scoring -------------------------------
(***************************************************************************)
(* Scores, preferences and scoring links.                                  *)
(*                                                                         *)
(* The scores and the pairwise verdicts of a job or shadow are lists in    *)
(* its JSONB `metadata` column.  Everybody who adds one reads the row,     *)
(* appends to the document and writes the document back whole: the review  *)
(* page, the JSON API, the MCP tool, a scoring link, the judges, and the   *)
(* executor of the row itself, which holds the document it loaded when it  *)
(* started.  Two awaits of a handler are two steps.                        *)
(***************************************************************************)
EXTENDS Integers, FiniteSets, Sequences

CONSTANTS
    Jobs, Shadows,    \* the rows that may be scored
    Raters,           \* the requests that score a row, redeem a link or mint one
    Judges,           \* the judge jobs
    JudgeRequests,    \* what judge jobs may ask for
    Jurors,           \* the models that may sit on a jury
    MaxScore,         \* 5 in the code
    FirstLink,        \* a link that was minted earlier
    NoLink, NoRow,    \* None
    MaxFaults         \* bound on the interruptions of judges

Rows  == Jobs \cup Shadows
Procs == Raters \cup Judges

\* A link is named for the request that minted it.
Links == Raters \cup {FirstLink}

\* panel: the eligible jurors, one for a pointwise judge.  quorum: min_panel_n, 1 if unset.
JudgeRequest == {q \in [mode    : {"pointwise", "panel", "pairwise"},
                        target  : Rows,
                        against : Rows \cup {NoRow},
                        panel   : SUBSET Jurors,
                        quorum  : Nat \ {0},
                        apply   : BOOLEAN] :
                   /\ q.mode = "pointwise" => Cardinality(q.panel) = 1 /\ q.quorum = 1
                   /\ q.mode = "panel" => q.panel # {}
                   /\ q.mode = "pairwise" => q.against \in Rows \ {q.target}}

ASSUME ActorsAssumption ==
    /\ Raters \cap Judges = {} /\ Jobs \cap Shadows = {}
    /\ FirstLink \notin Raters /\ NoLink \notin Links
    /\ NoRow \notin Rows

ASSUME ScoringAssumption ==
    /\ JudgeRequests \subseteq JudgeRequest
    /\ IsFiniteSet(Jurors)
    /\ MaxScore \in Nat \ {0}
    /\ MaxFaults \in Nat

VARIABLES
    row,        \* the status of each row; "fanning": complete, its fan-out still runs
    meta,       \* the metadata document of each row
    hash,       \* eval_token_hash of each job
    used,       \* eval_token_used of each job
    pc,         \* where each request and judge stands
    op,         \* what a rater does
    on,         \* the row a process is at
    copy,       \* the document it read
    sawUsed,    \* the used column a rater read
    link,       \* and the link it presented
    ask,        \* what each judge was asked
    ballots,    \* the answers of its jurors; 0: a juror that failed
    swaps,      \* the answers of a pairwise judge, one for each order
    todo,       \* the rows its verdict has yet to be applied to
    chosen,     \* the winner of a pairwise verdict
    applied,    \* the judges whose own row says applied_to_target
    faults,     \* interruptions so far
    redeemed,   \* history: the links whose redemption was answered with success
    written     \* history: [judge, row, what] committed to a row

rowVars   == <<row, meta, hash, used>>
raterVars == <<op, sawUsed, link, redeemed>>
judgeVars == <<ask, ballots, swaps, todo, chosen, applied, faults, written>>
vars == <<rowVars, pc, on, copy, raterVars, judgeVars>>

Score == [by : Procs, link : Links \cup {NoLink}]
Pref  == [judge : Judges, what : {"win", "loss"}, against : Rows]
Doc   == [scores : SUBSET Score, prefs : SUBSET Pref]
NoDoc == [scores |-> {}, prefs |-> {}]

Ballots == UNION {[S -> 0 .. MaxScore] : S \in SUBSET Jurors}
NoRequest == [mode |-> "none"]

TypeOK ==
    /\ row \in [Rows -> {"running", "fanning", "complete", "failed"}]
    /\ meta \in [Rows -> Doc]
    /\ hash \in [Jobs -> Links \cup {NoLink}]
    /\ used \in [Jobs -> BOOLEAN]
    /\ pc \in [Procs -> {"new", "write", "done", "refused",
                         "call", "read", "finish", "complete", "failed", "dead"}]
    /\ op \in [Raters -> {"score", "redeem", "mint"}]
    /\ on \in [Procs -> Rows \cup {NoRow}]
    /\ copy \in [Procs -> Doc]
    /\ sawUsed \in [Raters -> BOOLEAN]
    /\ link \in [Raters -> Links \cup {NoLink}]
    /\ ask \in [Judges -> JudgeRequests \cup {NoRequest}]
    /\ ballots \in [Judges -> Ballots]
    /\ swaps \in [Judges -> Seq({"A", "B", "TIE"})]
    /\ todo \in [Judges -> Seq(Rows)]
    /\ chosen \in [Judges -> Rows \cup {NoRow}]
    /\ applied \subseteq Judges
    /\ faults \in Nat
    /\ redeemed \subseteq Links
    /\ written \subseteq [judge : Judges, row : Rows, what : {"score", "win", "loss"}]

\* Rows that have ended or whose executor has loaded them, and at most one link that is out.
Init ==
    /\ row \in [Rows -> {"running", "complete"}]
    /\ meta = [r \in Rows |-> NoDoc]
    /\ hash \in [Jobs -> {FirstLink, NoLink}]
    /\ \A r, s \in Jobs : hash[r] = FirstLink /\ hash[s] = FirstLink => r = s
    /\ used = [j \in Jobs |-> FALSE]
    /\ pc = [p \in Procs |-> "new"]
    /\ op = [p \in Raters |-> "score"]
    /\ on = [p \in Procs |-> NoRow]
    /\ copy = [p \in Procs |-> NoDoc]
    /\ sawUsed = [p \in Raters |-> FALSE]
    /\ link = [p \in Raters |-> NoLink]
    /\ ask = [j \in Judges |-> NoRequest]
    /\ ballots = [j \in Judges |-> [m \in {} |-> 0]]
    /\ swaps = [j \in Judges |-> <<>>]
    /\ todo = [j \in Judges |-> <<>>]
    /\ chosen = [j \in Judges |-> NoRow]
    /\ applied = {}
    /\ faults = 0
    /\ redeemed = {}
    /\ written = {}

GoTo(p, s) == pc' = [pc EXCEPT ![p] = s]

\* The session of a process ends, and what it had read is gone.
Leave(p, s) ==
    /\ GoTo(p, s)
    /\ on' = [on EXCEPT ![p] = NoRow]
    /\ copy' = [copy EXCEPT ![p] = NoDoc]

-----------------------------------------------------------------------------
(* The executor of a row, which ends with a write of the document it loaded; an  *)
(* exception or a timeout leaves that to the safety net, which writes no document. *)

Overwrite(r) == meta' = [meta EXCEPT ![r] = NoDoc]

FailRow(r) ==
    /\ row[r] = "running"
    /\ row' = [row EXCEPT ![r] = "failed"]
    /\ UNCHANGED <<meta, hash, used, pc, on, copy, raterVars, judgeVars>>

\* The refresh that follows the commit is part of it.
FinishRow(r) ==
    /\ row[r] = "running"
    /\ \E s \in {"complete", "failed"} \cup (IF r \in Jobs THEN {"fanning"} ELSE {}) :
          row' = [row EXCEPT ![r] = s]
    /\ Overwrite(r)
    /\ UNCHANGED <<hash, used, pc, on, copy, raterVars, judgeVars>>

\* run_fanout_secondaries notes its shadows on the parent when the last has ended.
FinishFanout(r) ==
    /\ row[r] = "fanning"
    /\ row' = [row EXCEPT ![r] = "complete"]
    /\ Overwrite(r)
    /\ UNCHANGED <<hash, used, pc, on, copy, raterVars, judgeVars>>

-----------------------------------------------------------------------------
(* Requests.  The UI, the JSON API and the MCP tool score a row of any status *)
(* through apply_score; a link scores the job it was minted for.              *)

ReadRow(p, o, r, k) ==
    /\ pc[p] = "new"
    /\ op' = [op EXCEPT ![p] = o]
    /\ on' = [on EXCEPT ![p] = r]
    /\ copy' = [copy EXCEPT ![p] = meta[r]]
    /\ sawUsed' = [sawUsed EXCEPT ![p] = r \in Jobs /\ used[r]]
    /\ link' = [link EXCEPT ![p] = k]
    /\ GoTo(p, "write")
    /\ UNCHANGED <<rowVars, redeemed, judgeVars>>

ReadToScore(p) == \E r \in Rows : ReadRow(p, "score", r, NoLink)

\* create_eval_link.
ReadToMint(p) == \E r \in Jobs : ReadRow(p, "mint", r, NoLink)

\* Mutant: a used link is not refused.
RedeemableAgain(r, k) == hash[r] = k

\* redeem_eval_token refuses a link that is unknown, used, expired or replaced.
Redeemable(r, k) == hash[r] = k /\ ~used[r]

ReadToRedeem(p) ==
    \E r \in Jobs, k \in Links : Redeemable(r, k) /\ ReadRow(p, "redeem", r, k)

RefuseLink(p) ==
    /\ pc[p] = "new"
    /\ GoTo(p, "refused")
    /\ UNCHANGED <<rowVars, on, copy, raterVars, judgeVars>>

AddScore(p, k) == [scores |-> copy[p].scores \cup {[by |-> p, link |-> k]},
                   prefs  |-> copy[p].prefs]

\* Mutant: the whole row is written, the columns that did not change included.
WriteScoreAndRow(p) ==
    /\ pc[p] = "write" /\ op[p] = "score"
    /\ meta' = [meta EXCEPT ![on[p]] = AddScore(p, NoLink)]
    /\ used' = [r \in Jobs |-> IF r = on[p] THEN sawUsed[p] ELSE used[r]]
    /\ Leave(p, "done")
    /\ UNCHANGED <<row, hash, raterVars, judgeVars>>

WriteScore(p) ==
    /\ pc[p] = "write" /\ op[p] = "score"
    /\ meta' = [meta EXCEPT ![on[p]] = AddScore(p, NoLink)]
    /\ Leave(p, "done")
    /\ UNCHANGED <<row, hash, used, raterVars, judgeVars>>

\* The score and the mark on the link are one transaction.
WriteRedemption(p) ==
    /\ pc[p] = "write" /\ op[p] = "redeem"
    /\ meta' = [meta EXCEPT ![on[p]] = AddScore(p, link[p])]
    /\ used' = [used EXCEPT ![on[p]] = TRUE]
    /\ redeemed' = redeemed \cup {link[p]}
    /\ Leave(p, "done")
    /\ UNCHANGED <<row, hash, op, sawUsed, link, judgeVars>>

\* The hash is always a new value.  The used column is written only if the row was read
\* with the link used: the ORM leaves a column out that is set to the value it had.
WriteLink(p) ==
    /\ pc[p] = "write" /\ op[p] = "mint"
    /\ hash' = [hash EXCEPT ![on[p]] = p]
    /\ used' = [used EXCEPT ![on[p]] = @ /\ ~sawUsed[p]]
    /\ Leave(p, "done")
    /\ UNCHANGED <<row, meta, raterVars, judgeVars>>

-----------------------------------------------------------------------------
(* Judges: execute_judge_job, and execute_code_eval_job, a pointwise judge whose *)
(* juror is the build service.  The one worker runs them one after the other.    *)

Judging(j) == pc[j] \in {"call", "read", "write", "finish"}

idle == <<rowVars, raterVars, on, copy>>

\* The judge resolves its targets and goes RUNNING.
StartJudge(j, q) ==
    /\ pc[j] = "new"
    /\ \A k \in Judges : ~Judging(k)
    /\ ask' = [ask EXCEPT ![j] = q]
    /\ GoTo(j, "call")
    /\ UNCHANGED <<idle, ballots, swaps, todo, chosen, applied, faults, written>>

\* _fail_judge: a target that is missing or too sensitive, an empty jury.
RefuseJudge(j) ==
    /\ pc[j] = "new"
    /\ \A k \in Judges : ~Judging(k)
    /\ GoTo(j, "failed")
    /\ UNCHANGED <<idle, judgeVars>>

\* A juror answers with a score; one that fails, or whose answer does not parse, fails a
\* pointwise judge and is skipped by a panel.
CallJuror(j, m) ==
    /\ pc[j] = "call" /\ ask[j].mode # "pairwise"
    /\ m \in ask[j].panel \ DOMAIN ballots[j]
    /\ \E v \in 0 .. MaxScore :
          /\ ballots' = [ballots EXCEPT
                ![j] = [n \in DOMAIN @ \cup {m} |-> IF n = m THEN v ELSE @[n]]]
          /\ GoTo(j, IF v = 0 /\ ask[j].mode = "pointwise" THEN "failed" ELSE "call")
    /\ UNCHANGED <<idle, ask, swaps, todo, chosen, applied, faults, written>>

\* The two calls of a pairwise judge.
CallSwapped(j) ==
    /\ pc[j] = "call" /\ ask[j].mode = "pairwise"
    /\ Len(swaps[j]) < 2
    /\ \/ /\ \E w \in {"A", "B", "TIE"} : swaps' = [swaps EXCEPT ![j] = Append(@, w)]
          /\ UNCHANGED pc
       \/ /\ GoTo(j, "failed")
          /\ UNCHANGED swaps
    /\ UNCHANGED <<idle, ask, ballots, todo, chosen, applied, faults, written>>

-----------------------------------------------------------------------------
(* Verdicts. *)

\* Mutant: a juror that failed counts for the quorum.
ScoredOrFailed(b) == DOMAIN b

Scored(b) == {m \in DOMAIN b : b[m] > 0}

\* The k-th smallest score.
Ranked(b, k) ==
    CHOOSE v \in 1 .. MaxScore :
        /\ Cardinality({m \in Scored(b) : b[m] < v}) < k
        /\ Cardinality({m \in Scored(b) : b[m] <= v}) >= k

\* Python rounds a half to the even neighbour.
HalfRounded(n) ==
    IF n % 2 = 0 THEN n \div 2
    ELSE IF (n \div 2) % 2 = 0 THEN n \div 2 ELSE n \div 2 + 1

\* Mutant: an even number of jurors takes the mean of the extremes.
Midrange(b) ==
    LET n == Cardinality(Scored(b)) IN HalfRounded(Ranked(b, 1) + Ranked(b, n))

\* _aggregate_panel: int(round(statistics.median(scores))).
Median(b) ==
    LET n == Cardinality(Scored(b))
    IN  HalfRounded(Ranked(b, (n + 1) \div 2) + Ranked(b, n \div 2 + 1))

\* _reconcile_pairwise: both orders have to name the same row.
Winner(j) ==
    LET t == ask[j].target
        a == ask[j].against
        first  == [A |-> t, B |-> a, TIE |-> NoRow][swaps[j][1]]
        second == [A |-> a, B |-> t, TIE |-> NoRow][swaps[j][2]]
    IN  IF first = second THEN first ELSE NoRow

Loser(j) == IF chosen[j] = ask[j].target THEN ask[j].against ELSE ask[j].target

\* The whole jury has answered: too few scores fail the judge, and without apply_to_target
\* the verdict stays in its own row.
TallyScores(j) ==
    /\ pc[j] = "call" /\ ask[j].mode # "pairwise"
    /\ DOMAIN ballots[j] = ask[j].panel
    /\ IF Cardinality(Scored(ballots[j])) < ask[j].quorum
       THEN /\ GoTo(j, "failed")
            /\ UNCHANGED todo
       ELSE IF ask[j].apply
       THEN /\ GoTo(j, "read")
            /\ todo' = [todo EXCEPT ![j] = <<ask[j].target>>]
       ELSE /\ GoTo(j, "finish")
            /\ UNCHANGED todo
    /\ UNCHANGED <<idle, ask, ballots, swaps, chosen, applied, faults, written>>

\* Mutant: the loss is recorded first.
SidesReversed(j, w) ==
    <<IF w = ask[j].target THEN ask[j].against ELSE ask[j].target, w>>

\* The winner's row is written first, then the loser's.
Sides(j, w) ==
    <<w, IF w = ask[j].target THEN ask[j].against ELSE ask[j].target>>

TallySwaps(j) ==
    /\ pc[j] = "call" /\ ask[j].mode = "pairwise"
    /\ Len(swaps[j]) = 2
    /\ LET w == Winner(j) IN
       /\ chosen' = [chosen EXCEPT ![j] = w]
       /\ IF w # NoRow /\ ask[j].apply
          THEN /\ GoTo(j, "read")
               /\ todo' = [todo EXCEPT ![j] = Sides(j, w)]
          ELSE /\ GoTo(j, "finish")
               /\ UNCHANGED todo
    /\ UNCHANGED <<idle, ask, ballots, swaps, applied, faults, written>>

\* apply_score and apply_pairwise_preference read the row anew ...
ReadTarget(j) ==
    /\ pc[j] = "read"
    /\ on' = [on EXCEPT ![j] = Head(todo[j])]
    /\ copy' = [copy EXCEPT ![j] = meta[Head(todo[j])]]
    /\ GoTo(j, "write")
    /\ UNCHANGED <<rowVars, raterVars, judgeVars>>

What(j) == IF ask[j].mode # "pairwise" THEN "score"
           ELSE IF on[j] = chosen[j] THEN "win" ELSE "loss"

AddPref(j) ==
    LET other == IF on[j] = ask[j].target THEN ask[j].against ELSE ask[j].target IN
    [scores |-> copy[j].scores,
     prefs  |-> copy[j].prefs \cup {[judge |-> j, what |-> What(j), against |-> other]}]

\* Mutant: one write ends the judge.
RestForgotten(j) == <<>>

Rest(j) == Tail(todo[j])

\* ... and write it.
WriteTarget(j) ==
    /\ pc[j] = "write" /\ j \in Judges
    /\ meta' = [meta EXCEPT ![on[j]] =
                   IF What(j) = "score" THEN AddScore(j, NoLink) ELSE AddPref(j)]
    /\ written' = written \cup {[judge |-> j, row |-> on[j], what |-> What(j)]}
    /\ todo' = [todo EXCEPT ![j] = Rest(j)]
    /\ Leave(j, IF Rest(j) = <<>> THEN "finish" ELSE "read")
    /\ UNCHANGED <<row, hash, used, raterVars>>
    /\ UNCHANGED <<ask, ballots, swaps, chosen, applied, faults>>

\* _finish_judge: the verdict goes to the judge's own row, which goes COMPLETE.
FinishJudge(j) ==
    /\ pc[j] = "finish"
    /\ applied' = IF ask[j].apply /\ (ask[j].mode = "pairwise" => chosen[j] # NoRow)
                  THEN applied \cup {j} ELSE applied
    /\ GoTo(j, "complete")
    /\ UNCHANGED <<idle, ask, ballots, swaps, todo, chosen, faults, written>>

\* An exception of any await ends in the worker's safety net, which writes FAILED; a crash
\* or a timeout leaves the judge RUNNING.
InterruptJudge(j) ==
    /\ Judging(j)
    /\ faults < MaxFaults
    /\ faults' = faults + 1
    /\ GoTo(j, "failed") \/ GoTo(j, "dead")
    /\ UNCHANGED <<idle, ask, ballots, swaps, todo, chosen, applied, written>>

JudgeStep(j) ==
    \/ \E q \in JudgeRequests : StartJudge(j, q)
    \/ \E m \in Jurors : CallJuror(j, m)
    \/ RefuseJudge(j) \/ CallSwapped(j) \/ TallyScores(j) \/ TallySwaps(j)
    \/ ReadTarget(j) \/ WriteTarget(j) \/ FinishJudge(j) \/ InterruptJudge(j)

RaterStep(p) ==
    \/ ReadToScore(p) \/ ReadToMint(p) \/ ReadToRedeem(p) \/ RefuseLink(p)
    \/ WriteScore(p) \/ WriteRedemption(p) \/ WriteLink(p)

Next ==
    \/ \E r \in Rows : FailRow(r) \/ FinishRow(r) \/ FinishFanout(r)
    \/ \E p \in Raters : RaterStep(p)
    \/ \E j \in Judges : JudgeStep(j)

Spec == Init /\ [][Next]_vars

-----------------------------------------------------------------------------

\* "The token is single-use": however redemptions, other scores and new links interleave,
\* no link has put two scores on a job.
OneScorePerLink ==
    \A r \in Jobs, k \in Links : Cardinality({s \in meta[r].scores : s.link = k}) <= 1

\* A link that was redeemed stays spent: no write of the row, whatever it had read, makes
\* the job accept it again.
RedeemedIsSpent == \A r \in Jobs, k \in redeemed : ~Redeemable(r, k)

\* "a jury that lost too many jurors fails loudly rather than writing a degraded low-n
\* median to the target": a score that was written had its quorum of jurors that scored.
QuorumBehindScore ==
    \A w \in written : w.what = "score" =>
        Cardinality({m \in DOMAIN ballots[w.judge] : ballots[w.judge][m] # 0})
            >= ask[w.judge].quorum

\* "MEDIAN (robust to an outlier juror)": of three jurors or more, no single one takes the
\* panel's score out of the range of the others.
OutlierIsBounded ==
    \A j \in Judges :
        LET b == ballots[j] IN
        Cardinality(Scored(b)) >= 3 =>
            \A m \in Scored(b) :
                /\ \E n \in Scored(b) \ {m} : b[n] <= Median(b)
                /\ \E n \in Scored(b) \ {m} : Median(b) <= b[n]

\* A judge that says it applied its verdict has committed it to every row the verdict is
\* about, and a judge that completed without saying so to none.
AppliedIsWritten ==
    \A j \in Judges :
        LET about == {w.row : w \in {x \in written : x.judge = j}} IN
        /\ j \in applied => about = IF ask[j].mode = "pairwise"
                                    THEN {ask[j].target, ask[j].against} ELSE {ask[j].target}
        /\ pc[j] = "complete" /\ j \notin applied => about = {}

\* No interruption leaves a loss without its win.
LossHasWin ==
    \A w \in written : w.what = "loss" =>
        \E x \in written : x.judge = w.judge /\ x.what = "win"

\* The two rows of a verdict and the judge's own are three commits, and still agree.
VerdictsAreWhole == AppliedIsWritten /\ LossHasWin

\* _preferences_from_pairwise: the wins of the jobs, with an answer on either side.
Answered(r) == row[r] \in {"complete", "fanning"}

\* Mutant: the mirror records are exported too.
IsPair(v) == TRUE

IsWin(v) == v.what = "win"

\* _pairs_from_pairwise_job.
PairsOf(r) ==
    {<<r, v.against, v.judge>> : v \in {x \in meta[r].prefs : IsWin(x) /\ Answered(x.against)}}

ExportedPairs == UNION {PairsOf(r) : r \in {x \in Jobs : Answered(x)}}

\* "yields each pair exactly once": what is exported is the verdict of a judge, the winner
\* first, and no verdict is exported twice.
PairsAreVerdicts ==
    \A p \in ExportedPairs :
        /\ p[1] = chosen[p[3]] /\ p[2] = Loser(p[3])
        /\ \A q \in ExportedPairs : q[3] = p[3] => q = p

=============================================================================
