--------------------------- MODULE Scoring_proofs ---------------------------
(***************************************************************************)
(* Proofs about the links, the verdicts, the exported pairs and the median *)
(* of Scoring, for any rows, requests and judges, any finite jury and any  *)
(* number of interruptions.                                                *)
(***************************************************************************)
EXTENDS Scoring, FiniteSetTheorems, TLAPS

-----------------------------------------------------------------------------
(* The inductive invariant.  A link is spent by a check and a later write of a *)
(* whole row; the parts say what everybody between the two still relies on.    *)

\* Where a process may stand, and what it has there.
Standing ==
    /\ \A p \in Raters :
        /\ pc[p] \in {"new", "write", "done", "refused"}
        /\ pc[p] = "write" => on[p] \in Rows
        /\ pc[p] = "write" /\ op[p] # "score" => on[p] \in Jobs
        /\ pc[p] = "write" /\ op[p] = "redeem" => link[p] \in Links
    /\ \A j \in Judges :
        /\ pc[j] \in {"new", "call", "read", "write", "finish",
                      "complete", "failed", "dead"}
        /\ Judging(j) => ask[j] \in JudgeRequests
        /\ pc[j] \in {"read", "write"} => todo[j] # <<>>
        /\ pc[j] = "write" => on[j] \in Rows

\* A link is out once the request that mints it has ended.
Minted(k) == k \in Raters => pc[k] = "done" /\ op[k] = "mint"

LinksAreMinted ==
    /\ \A r \in Jobs : Minted(hash[r])
    /\ \A p \in Raters : pc[p] = "write" /\ op[p] = "redeem" => Minted(link[p])
    /\ \A k \in redeemed : Minted(k)

\* No link is out for two jobs, and whoever is about to redeem one is at its job.
OneJobPerLink ==
    /\ \A r, s \in Jobs : hash[r] = hash[s] /\ hash[r] # NoLink => r = s
    /\ \A p \in Raters, r \in Jobs :
          pc[p] = "write" /\ op[p] = "redeem" /\ hash[r] = link[p] => r = on[p]

\* The scores of a document that came by a link came by a redeemed one.
LinksOf(d) == {s.link : s \in d.scores} \ {NoLink}

ScoresAreRedeemed ==
    /\ \A r \in Rows : LinksOf(meta[r]) \subseteq redeemed
    /\ \A p \in Procs : LinksOf(copy[p]) \subseteq redeemed

\* Whoever is about to redeem a link read a document without a score of it.
CopyIsFresh ==
    \A p \in Raters : pc[p] = "write" /\ op[p] = "redeem" => link[p] \notin LinksOf(copy[p])

\* No document, stored or read, has two scores of one link.
Single(d) == \A s, t \in d.scores : s.link = t.link /\ s.link # NoLink => s = t

DocsAreSingle ==
    /\ \A r \in Rows : Single(meta[r])
    /\ \A p \in Procs : Single(copy[p])

LinkInv ==
    /\ TypeOK
    /\ Standing
    /\ LinksAreMinted
    /\ OneJobPerLink
    /\ RedeemedIsSpent
    /\ ScoresAreRedeemed
    /\ CopyIsFresh
    /\ DocsAreSingle

-----------------------------------------------------------------------------
(* Documents. *)

LEMMA EmptyDoc == NoDoc \in Doc /\ LinksOf(NoDoc) = {} /\ Single(NoDoc)
  BY DEF NoDoc, Doc, LinksOf, Single

\* A score adds at most its own link, and keeps the document single if that is new to it.
LEMMA AddScoreDoc ==
    ASSUME TypeOK, NEW p \in Procs, NEW k \in Links \cup {NoLink}
    PROVE  /\ AddScore(p, k) \in Doc
           /\ LinksOf(AddScore(p, k)) \subseteq LinksOf(copy[p]) \cup {k}
           /\ k = NoLink => LinksOf(AddScore(p, k)) \subseteq LinksOf(copy[p])
           /\ Single(copy[p]) /\ k \notin LinksOf(copy[p]) => Single(AddScore(p, k))
<1> DEFINE e == [by |-> p, link |-> k]
<1>1. e \in Score /\ e.link = k
  BY DEF Score
<1>2. copy[p] \in Doc /\ copy[p].scores \in SUBSET Score /\ copy[p].prefs \in SUBSET Pref
  BY DEF TypeOK, Doc
<1> HIDE DEF e
<1>3. /\ AddScore(p, k).scores = copy[p].scores \cup {e}
      /\ AddScore(p, k) = [scores |-> copy[p].scores \cup {e}, prefs |-> copy[p].prefs]
  BY DEF AddScore, e
<1>4. AddScore(p, k) \in Doc
  BY <1>1, <1>2, <1>3 DEF Doc
<1>5. LinksOf(AddScore(p, k)) \subseteq LinksOf(copy[p]) \cup {k}
  BY <1>1, <1>3 DEF LinksOf
<1>6. NoLink \notin LinksOf(AddScore(p, k))
  BY DEF LinksOf
<1>7. ASSUME Single(copy[p]), k \notin LinksOf(copy[p]) PROVE Single(AddScore(p, k))
  BY <1>1, <1>3, <1>7 DEF Single, LinksOf
<1> QED
  BY <1>4, <1>5, <1>6, <1>7

\* A preference leaves the scores alone.
LEMMA AddPrefDoc ==
    ASSUME TypeOK, Standing, NEW j \in Judges, pc[j] = "write", What(j) # "score"
    PROVE  /\ AddPref(j) \in Doc
           /\ LinksOf(AddPref(j)) = LinksOf(copy[j])
           /\ Single(copy[j]) => Single(AddPref(j))
<1> DEFINE other == IF on[j] = ask[j].target THEN ask[j].against ELSE ask[j].target
           e == [judge |-> j, what |-> What(j), against |-> other]
<1>1. ask[j] \in JudgeRequest /\ ask[j].mode = "pairwise"
  BY ScoringAssumption DEF Standing, Judging, What
<1>2. other \in Rows
  BY <1>1 DEF JudgeRequest
<1>3. What(j) \in {"win", "loss"}
  BY DEF What
<1> HIDE DEF other
<1>4. e \in Pref
  BY <1>2, <1>3 DEF Pref
<1> HIDE DEF e
<1>5. j \in Procs
  BY DEF Procs
<1>6. copy[j] \in Doc /\ copy[j].scores \in SUBSET Score /\ copy[j].prefs \in SUBSET Pref
  BY <1>5 DEF TypeOK, Doc
<1>7. /\ AddPref(j).scores = copy[j].scores
      /\ AddPref(j) = [scores |-> copy[j].scores, prefs |-> copy[j].prefs \cup {e}]
  BY DEF AddPref, e, other
<1> QED
  BY <1>4, <1>6, <1>7 DEF Doc, LinksOf, Single

-----------------------------------------------------------------------------
(* Every step preserves it: one lemma per part, one step per action that disturbs it. *)

LEMMA Actors ==
    /\ \A p \in Raters : p \in Procs /\ p \notin Judges /\ p \in Links
    /\ \A j \in Judges : j \in Procs /\ j \notin Raters
    /\ \A r \in Jobs : r \in Rows
    /\ NoLink \notin Links /\ NoRow \notin Rows
  BY ActorsAssumption DEF Procs, Links, Rows

LEMMA FirstOfTwo ==
    ASSUME NEW S, NEW s \in Seq(S), Len(s) = 2
    PROVE  s[1] \in S
  OBVIOUS

\* Every write stays in its range.
LEMMA TypeStep ==
  ASSUME TypeOK, Standing, [Next]_vars
  PROVE  TypeOK'
<1> USE DEF TypeOK
<1>1. ASSUME NEW r \in Rows, FailRow(r) PROVE TypeOK'
  BY <1>1 DEF FailRow, rowVars, raterVars, judgeVars
<1>2. ASSUME NEW r \in Rows, FinishRow(r) PROVE TypeOK'
  BY <1>2, EmptyDoc DEF FinishRow, Overwrite, rowVars, raterVars, judgeVars
<1>3. ASSUME NEW r \in Rows, FinishFanout(r) PROVE TypeOK'
  BY <1>3, EmptyDoc DEF FinishFanout, Overwrite, rowVars, raterVars, judgeVars
<1>4. ASSUME NEW p \in Raters, NEW o \in {"score", "redeem", "mint"}, NEW r \in Rows,
             NEW k \in Links \cup {NoLink}, ReadRow(p, o, r, k)
      PROVE  TypeOK'
  BY <1>4, Actors DEF ReadRow, GoTo, rowVars, judgeVars
<1>5. ASSUME NEW p \in Raters, RefuseLink(p) PROVE TypeOK'
  BY <1>5, Actors DEF RefuseLink, GoTo, rowVars, raterVars, judgeVars
<1>6. ASSUME NEW p \in Raters, WriteScore(p) PROVE TypeOK'
  <2>1. AddScore(p, NoLink) \in Doc
    BY Actors, AddScoreDoc
  <2> QED
    BY <1>6, <2>1, Actors, EmptyDoc DEF WriteScore, Leave, GoTo, raterVars, judgeVars
<1>7. ASSUME NEW p \in Raters, WriteRedemption(p) PROVE TypeOK'
  <2>1. AddScore(p, link[p]) \in Doc /\ link[p] \in Links
    BY <1>7, Actors, AddScoreDoc DEF Standing, WriteRedemption
  <2> QED
    BY <1>7, <2>1, Actors, EmptyDoc DEF WriteRedemption, Leave, GoTo, raterVars, judgeVars
<1>8. ASSUME NEW p \in Raters, WriteLink(p) PROVE TypeOK'
  BY <1>8, Actors, EmptyDoc DEF WriteLink, Leave, GoTo, raterVars, judgeVars
<1>9. ASSUME NEW j \in Judges, NEW q \in JudgeRequests, StartJudge(j, q) PROVE TypeOK'
  BY <1>9, Actors DEF StartJudge, GoTo, idle, rowVars, raterVars, judgeVars
<1>10. ASSUME NEW j \in Judges, RefuseJudge(j) PROVE TypeOK'
  BY <1>10, Actors DEF RefuseJudge, GoTo, idle, rowVars, raterVars, judgeVars
<1>11. ASSUME NEW j \in Judges, NEW m \in Jurors, CallJuror(j, m) PROVE TypeOK'
  <2>1. PICK v \in 0 .. MaxScore :
          /\ ballots' = [ballots EXCEPT
                ![j] = [n \in DOMAIN @ \cup {m} |-> IF n = m THEN v ELSE @[n]]]
          /\ GoTo(j, IF v = 0 /\ ask[j].mode = "pointwise" THEN "failed" ELSE "call")
    BY <1>11 DEF CallJuror
  <2>2. [n \in DOMAIN ballots[j] \cup {m} |-> IF n = m THEN v ELSE ballots[j][n]] \in Ballots
    <3>1. PICK S \in SUBSET Jurors : ballots[j] \in [S -> 0 .. MaxScore]
      BY DEF Ballots
    <3>2. [n \in S \cup {m} |-> IF n = m THEN v ELSE ballots[j][n]] \in
             [S \cup {m} -> 0 .. MaxScore]
      BY <2>1, <3>1
    <3>3. S \cup {m} \in SUBSET Jurors /\ DOMAIN ballots[j] = S
      BY <3>1
    <3>4. [S \cup {m} -> 0 .. MaxScore] \subseteq Ballots
      BY <3>3 DEF Ballots
    <3> QED
      BY <3>2, <3>3, <3>4
  <2> QED
    BY <1>11, <2>1, <2>2, Actors DEF CallJuror, GoTo, idle, rowVars, raterVars, judgeVars
<1>12. ASSUME NEW j \in Judges, CallSwapped(j) PROVE TypeOK'
  <2>1. CASE pc' = pc
    <3>1. swaps' \in [Judges -> Seq({"A", "B", "TIE"})]
      <4>1. CASE swaps' = swaps
        BY <4>1
      <4>2. ASSUME NEW w \in {"A", "B", "TIE"},
                   swaps' = [swaps EXCEPT ![j] = Append(swaps[j], w)]
            PROVE  swaps' \in [Judges -> Seq({"A", "B", "TIE"})]
        <5>1. Append(swaps[j], w) \in Seq({"A", "B", "TIE"})
          OBVIOUS
        <5> QED
          BY <4>2, <5>1
      <4> QED
        BY <1>12, <4>1, <4>2 DEF CallSwapped
    <3> QED
      BY <1>12, <2>1, <3>1 DEF CallSwapped, idle, rowVars, raterVars
  <2>2. CASE pc' = [pc EXCEPT ![j] = "failed"] /\ swaps' = swaps
    BY <1>12, <2>2, Actors DEF CallSwapped, idle, rowVars, raterVars
  <2> QED
    BY <1>12, <2>1, <2>2 DEF CallSwapped, GoTo
<1>13. ASSUME NEW j \in Judges, TallyScores(j) PROVE TypeOK'
  <2>1. ask[j].target \in Rows
    BY <1>13, ScoringAssumption DEF TallyScores, Standing, Judging, JudgeRequest
  <2>2. <<ask[j].target>> \in Seq(Rows)
    BY <2>1
  <2>3. /\ todo' = todo \/ todo' = [todo EXCEPT ![j] = <<ask[j].target>>]
        /\ \E s \in {"failed", "read", "finish"} : pc' = [pc EXCEPT ![j] = s]
        /\ UNCHANGED <<row, meta, hash, used, op, sawUsed, link, redeemed, on, copy>>
        /\ UNCHANGED <<ask, ballots, swaps, chosen, applied, faults, written>>
    BY <1>13 DEF TallyScores, GoTo, idle, rowVars, raterVars
  <2>4. todo' \in [Judges -> Seq(Rows)]
    BY <2>2, <2>3
  <2>5. pc' \in [Procs -> {"new", "write", "done", "refused",
                         "call", "read", "finish", "complete", "failed", "dead"}]
    BY <2>3, Actors
  <2> QED
    BY <2>3, <2>4, <2>5
<1>14. ASSUME NEW j \in Judges, TallySwaps(j) PROVE TypeOK'
  <2>1. ask[j].target \in Rows /\ ask[j].against \in Rows
    BY <1>14, ScoringAssumption DEF TallySwaps, Standing, Judging, JudgeRequest
  <2>2. Winner(j) \in Rows \cup {NoRow}
    <3>1. Len(swaps[j]) = 2 /\ swaps[j] \in Seq({"A", "B", "TIE"})
      BY <1>14 DEF TallySwaps
    <3>2. swaps[j][1] \in {"A", "B", "TIE"}
      BY <3>1, FirstOfTwo
    <3> QED
      BY <2>1, <3>2 DEF Winner
  <2>3. Winner(j) # NoRow => Sides(j, Winner(j)) \in Seq(Rows)
    BY <2>1, <2>2 DEF Sides
  <2>4. /\ chosen' = [chosen EXCEPT ![j] = Winner(j)]
        /\ \/ todo' = todo
           \/ Winner(j) # NoRow /\ todo' = [todo EXCEPT ![j] = Sides(j, Winner(j))]
        /\ \E s \in {"read", "finish"} : pc' = [pc EXCEPT ![j] = s]
        /\ UNCHANGED <<row, meta, hash, used, op, sawUsed, link, redeemed, on, copy>>
        /\ UNCHANGED <<ask, ballots, swaps, applied, faults, written>>
    BY <1>14 DEF TallySwaps, GoTo, idle, rowVars, raterVars
  <2>5. todo' \in [Judges -> Seq(Rows)]
    BY <2>3, <2>4
  <2>6. pc' \in [Procs -> {"new", "write", "done", "refused",
                         "call", "read", "finish", "complete", "failed", "dead"}]
    BY <2>4, Actors
  <2>7. chosen' \in [Judges -> Rows \cup {NoRow}]
    BY <2>2, <2>4
  <2> QED
    BY <2>4, <2>5, <2>6, <2>7
<1>15. ASSUME NEW j \in Judges, ReadTarget(j) PROVE TypeOK'
  <2>1. Head(todo[j]) \in Rows
    BY <1>15 DEF ReadTarget, Standing
  <2> QED
    BY <1>15, <2>1, Actors DEF ReadTarget, GoTo, rowVars, raterVars, judgeVars
<1>16. ASSUME NEW j \in Judges, WriteTarget(j) PROVE TypeOK'
  <2>1. AddScore(j, NoLink) \in Doc
    BY Actors, AddScoreDoc
  <2>2. What(j) # "score" => AddPref(j) \in Doc
    BY <1>16, AddPrefDoc DEF WriteTarget
  <2>3. on[j] \in Rows /\ What(j) \in {"score", "win", "loss"}
    BY <1>16 DEF WriteTarget, Standing, What
  <2>4. Rest(j) \in Seq(Rows)
    BY <1>16 DEF WriteTarget, Standing, Rest
  <2> QED
    BY <1>16, <2>1, <2>2, <2>3, <2>4, Actors, EmptyDoc DEF WriteTarget, Leave, GoTo,
       raterVars
<1>17. ASSUME NEW j \in Judges, FinishJudge(j) PROVE TypeOK'
  BY <1>17, Actors DEF FinishJudge, GoTo, idle, rowVars, raterVars, judgeVars
<1>18. ASSUME NEW j \in Judges, InterruptJudge(j) PROVE TypeOK'
  <2>1. \E s \in {"failed", "dead"} : pc' = [pc EXCEPT ![j] = s]
    BY <1>18 DEF InterruptJudge, GoTo
  <2> QED
    BY <1>18, <2>1, Actors DEF InterruptJudge, idle, rowVars, raterVars
<1>19. CASE UNCHANGED vars
  BY <1>19 DEF vars, rowVars, raterVars, judgeVars
<1> QED
  BY <1>1, <1>2, <1>3, <1>4, <1>5, <1>6, <1>7, <1>8, <1>9, <1>10, <1>11, <1>12, <1>13,
     <1>14, <1>15, <1>16, <1>17, <1>18, <1>19, Actors
     DEF Next, RaterStep, JudgeStep, ReadToScore, ReadToMint, ReadToRedeem

\* Each action leaves its process where the next one expects it.
LEMMA StandingStep ==
  ASSUME TypeOK, Standing, [Next]_vars
  PROVE  Standing'
<1> USE DEF TypeOK, Standing, Judging
<1>1. ASSUME NEW r \in Rows, FailRow(r) \/ FinishRow(r) \/ FinishFanout(r) PROVE Standing'
  BY <1>1 DEF FailRow, FinishRow, FinishFanout, raterVars, judgeVars
<1>2. ASSUME NEW p \in Raters, NEW o \in {"score", "redeem", "mint"}, NEW r \in Rows,
             NEW k \in Links \cup {NoLink}, ReadRow(p, o, r, k),
             o # "score" => r \in Jobs, o = "redeem" => k \in Links
      PROVE  Standing'
  BY <1>2, Actors DEF ReadRow, GoTo, judgeVars
<1>3. ASSUME NEW p \in Raters, RefuseLink(p) PROVE Standing'
  BY <1>3, Actors DEF RefuseLink, GoTo, raterVars, judgeVars
<1>4. ASSUME NEW p \in Raters, WriteScore(p) \/ WriteLink(p) PROVE Standing'
  <2>1. CASE WriteScore(p)
    BY <2>1, Actors DEF WriteScore, Leave, GoTo, raterVars, judgeVars
  <2>2. CASE WriteLink(p)
    BY <2>2, Actors DEF WriteLink, Leave, GoTo, raterVars, judgeVars
  <2> QED
    BY <1>4, <2>1, <2>2
<1>5. ASSUME NEW p \in Raters, WriteRedemption(p) PROVE Standing'
  BY <1>5, Actors DEF WriteRedemption, Leave, GoTo, raterVars, judgeVars
<1>6. ASSUME NEW j \in Judges, NEW q \in JudgeRequests, StartJudge(j, q) PROVE Standing'
  BY <1>6, Actors DEF StartJudge, GoTo, idle, raterVars
<1>7. ASSUME NEW j \in Judges, RefuseJudge(j) PROVE Standing'
  BY <1>7, Actors DEF RefuseJudge, GoTo, idle, raterVars, judgeVars
<1>8. ASSUME NEW j \in Judges, NEW m \in Jurors, CallJuror(j, m) PROVE Standing'
  <2>1. \E s \in {"failed", "call"} : pc' = [pc EXCEPT ![j] = s]
    BY <1>8 DEF CallJuror, GoTo
  <2> QED
    BY <1>8, <2>1, Actors DEF CallJuror, idle, raterVars
<1>9. ASSUME NEW j \in Judges, CallSwapped(j) PROVE Standing'
  <2>1. pc' = pc \/ pc' = [pc EXCEPT ![j] = "failed"]
    BY <1>9 DEF CallSwapped, GoTo
  <2> QED
    BY <1>9, <2>1, Actors DEF CallSwapped, idle, raterVars
<1>10. ASSUME NEW j \in Judges, TallyScores(j) PROVE Standing'
  <2>1. \/ /\ todo' = [todo EXCEPT ![j] = <<ask[j].target>>]
           /\ pc' = [pc EXCEPT ![j] = "read"]
        \/ /\ todo' = todo
           /\ \E s \in {"failed", "finish"} : pc' = [pc EXCEPT ![j] = s]
    BY <1>10 DEF TallyScores, GoTo
  <2>2. pc[j] = "call" /\ UNCHANGED <<op, on, link, ask>>
    BY <1>10 DEF TallyScores, idle, raterVars
  <2>3. CASE todo' = [todo EXCEPT ![j] = <<ask[j].target>>] /\ pc' = [pc EXCEPT ![j] = "read"]
    BY <2>2, <2>3, Actors
  <2>4. ASSUME NEW s \in {"failed", "finish"}, todo' = todo, pc' = [pc EXCEPT ![j] = s]
        PROVE  Standing'
    BY <2>2, <2>4, Actors
  <2> QED
    BY <2>1, <2>3, <2>4
<1>11. ASSUME NEW j \in Judges, TallySwaps(j) PROVE Standing'
  <2>1. \/ /\ todo' = [todo EXCEPT ![j] = Sides(j, Winner(j))]
           /\ pc' = [pc EXCEPT ![j] = "read"]
        \/ todo' = todo /\ pc' = [pc EXCEPT ![j] = "finish"]
    BY <1>11 DEF TallySwaps, GoTo
  <2>2. Sides(j, Winner(j)) # <<>>
    BY DEF Sides
  <2>3. pc[j] = "call" /\ UNCHANGED <<op, on, link, ask>>
    BY <1>11 DEF TallySwaps, idle, raterVars
  <2>4. CASE /\ todo' = [todo EXCEPT ![j] = Sides(j, Winner(j))]
             /\ pc' = [pc EXCEPT ![j] = "read"]
    BY <2>2, <2>3, <2>4, Actors
  <2>5. CASE todo' = todo /\ pc' = [pc EXCEPT ![j] = "finish"]
    BY <2>3, <2>5, Actors
  <2> QED
    BY <2>1, <2>4, <2>5
<1>12. ASSUME NEW j \in Judges, ReadTarget(j) PROVE Standing'
  <2>1. Head(todo[j]) \in Rows
    BY <1>12 DEF ReadTarget
  <2> QED
    BY <1>12, <2>1, Actors DEF ReadTarget, GoTo, raterVars, judgeVars
<1>13. ASSUME NEW j \in Judges, WriteTarget(j) PROVE Standing'
  <2>1. /\ pc[j] = "write"
        /\ todo' = [todo EXCEPT ![j] = Rest(j)]
        /\ on' = [on EXCEPT ![j] = NoRow]
        /\ UNCHANGED <<op, link, ask>>
        /\ \/ Rest(j) = <<>> /\ pc' = [pc EXCEPT ![j] = "finish"]
           \/ Rest(j) # <<>> /\ pc' = [pc EXCEPT ![j] = "read"]
    BY <1>13 DEF WriteTarget, Leave, GoTo, raterVars
  <2> QED
    BY <2>1, Actors
<1>14. ASSUME NEW j \in Judges, FinishJudge(j) PROVE Standing'
  BY <1>14, Actors DEF FinishJudge, GoTo, idle, raterVars
<1>15. ASSUME NEW j \in Judges, InterruptJudge(j) PROVE Standing'
  <2>1. \E s \in {"failed", "dead"} : pc' = [pc EXCEPT ![j] = s]
    BY <1>15 DEF InterruptJudge, GoTo
  <2> QED
    BY <1>15, <2>1, Actors DEF InterruptJudge, idle, raterVars
<1>16. CASE UNCHANGED vars
  BY <1>16 DEF vars, raterVars, judgeVars
<1> QED
  BY <1>1, <1>2, <1>3, <1>4, <1>5, <1>6, <1>7, <1>8, <1>9, <1>10, <1>11, <1>12, <1>13,
     <1>14, <1>15, <1>16, Actors
     DEF Next, RaterStep, JudgeStep, ReadToScore, ReadToMint, ReadToRedeem

-----------------------------------------------------------------------------
(* What the links see of a step: the executors of rows and the judges write     *)
(* documents and nothing else of theirs.                                        *)

LEMMA RowFrame ==
  ASSUME TypeOK, NEW r \in Rows, FailRow(r) \/ FinishRow(r) \/ FinishFanout(r)
  PROVE  /\ UNCHANGED <<hash, used, pc, on, copy, op, link, redeemed>>
         /\ meta' = meta \/ meta' = [meta EXCEPT ![r] = NoDoc]
  BY DEF FailRow, FinishRow, FinishFanout, Overwrite, raterVars

LEMMA JudgeFrame ==
  ASSUME TypeOK, NEW j \in Judges, JudgeStep(j)
  PROVE  /\ UNCHANGED <<hash, used, op, link, redeemed>>
         /\ \A p \in Raters : pc'[p] = pc[p] /\ on'[p] = on[p] /\ copy'[p] = copy[p]
<1> USE DEF TypeOK
<1>1. UNCHANGED <<hash, used, op, link, redeemed>>
  BY DEF JudgeStep, StartJudge, CallJuror, RefuseJudge, CallSwapped, TallyScores, TallySwaps,
         ReadTarget, WriteTarget, FinishJudge, InterruptJudge, idle, rowVars, raterVars
<1>2. pc' = pc \/ \E s : pc' = [pc EXCEPT ![j] = s]
  BY DEF JudgeStep, StartJudge, CallJuror, RefuseJudge, CallSwapped, TallyScores, TallySwaps,
         ReadTarget, WriteTarget, FinishJudge, InterruptJudge, Leave, GoTo
<1>3. \/ on' = on /\ copy' = copy
      \/ \E r, d : on' = [on EXCEPT ![j] = r] /\ copy' = [copy EXCEPT ![j] = d]
  BY DEF JudgeStep, StartJudge, CallJuror, RefuseJudge, CallSwapped, TallyScores, TallySwaps,
         ReadTarget, WriteTarget, FinishJudge, InterruptJudge, Leave, idle
<1> QED
  BY <1>1, <1>2, <1>3, Actors

\* A judge reads a whole document, or writes one back with a score or a preference of its own.
LEMMA JudgeDocs ==
  ASSUME TypeOK, Standing, NEW j \in Judges, JudgeStep(j)
  PROVE  \/ UNCHANGED <<meta, copy>>
         \/ \E r \in Rows : meta' = meta /\ copy' = [copy EXCEPT ![j] = meta[r]]
         \/ \E d \in Doc, r \in Rows :
               /\ meta' = [meta EXCEPT ![r] = d]
               /\ copy' = [copy EXCEPT ![j] = NoDoc]
               /\ LinksOf(d) \subseteq LinksOf(copy[j])
               /\ Single(copy[j]) => Single(d)
<1>1. CASE ReadTarget(j)
  <2>1. Head(todo[j]) \in Rows
    BY <1>1 DEF ReadTarget, Standing, TypeOK
  <2> QED
    BY <1>1, <2>1 DEF ReadTarget, rowVars
<1>2. CASE WriteTarget(j)
  <2> DEFINE d == IF What(j) = "score" THEN AddScore(j, NoLink) ELSE AddPref(j)
  <2>1. pc[j] = "write" /\ on[j] \in Rows
    BY <1>2 DEF WriteTarget, Standing
  <2>2. /\ d \in Doc /\ LinksOf(d) \subseteq LinksOf(copy[j])
        /\ Single(copy[j]) => Single(d)
    <3>1. NoLink \notin LinksOf(copy[j])
      BY DEF LinksOf
    <3> QED
      BY <2>1, <3>1, Actors, AddScoreDoc, AddPrefDoc
  <2>3. meta' = [meta EXCEPT ![on[j]] = d] /\ copy' = [copy EXCEPT ![j] = NoDoc]
    BY <1>2 DEF WriteTarget, Leave
  <2> HIDE DEF d
  <2> QED
    BY <2>1, <2>2, <2>3
<1>3. CASE ~ReadTarget(j) /\ ~WriteTarget(j)
  BY <1>3 DEF JudgeStep, StartJudge, CallJuror, RefuseJudge, CallSwapped, TallyScores,
              TallySwaps, FinishJudge, InterruptJudge, idle, rowVars
<1> QED
  BY <1>1, <1>2, <1>3

\* A request reads a row, and the job and the link of one that redeems match; or it ends.
Reads(p, o, r, k) ==
    /\ ReadRow(p, o, r, k)
    /\ o # "score" => r \in Jobs
    /\ o = "redeem" => k \in Links /\ Redeemable(r, k)

LEMMA Steps ==
  ASSUME [Next]_vars
  PROVE  \/ \E r \in Rows : FailRow(r) \/ FinishRow(r) \/ FinishFanout(r)
         \/ \E j \in Judges : JudgeStep(j)
         \/ \E p \in Raters, o \in {"score", "redeem", "mint"}, r \in Rows,
               k \in Links \cup {NoLink} : Reads(p, o, r, k)
         \/ \E p \in Raters :
               RefuseLink(p) \/ WriteScore(p) \/ WriteRedemption(p) \/ WriteLink(p)
         \/ UNCHANGED vars
  BY Actors DEF Next, RaterStep, ReadToScore, ReadToMint, ReadToRedeem, Reads

\* A link comes into a row by the end of the request that mints it, and nowhere else.
LEMMA LinksAreMintedStep ==
  ASSUME TypeOK, Standing, LinksAreMinted, [Next]_vars
  PROVE  LinksAreMinted'
<1> USE DEF TypeOK, LinksAreMinted, Minted
<1>1. ASSUME NEW r \in Rows, FailRow(r) \/ FinishRow(r) \/ FinishFanout(r)
      PROVE  LinksAreMinted'
  BY <1>1, RowFrame
<1>2. ASSUME NEW j \in Judges, JudgeStep(j) PROVE LinksAreMinted'
  <2>1. /\ UNCHANGED <<hash, used, op, link, redeemed>>
        /\ \A p \in Raters : pc'[p] = pc[p] /\ on'[p] = on[p]
    BY <1>2, JudgeFrame
  <2> HIDE DEF TypeOK
  <2> QED
    BY <2>1
<1>3. ASSUME NEW p \in Raters, NEW o \in {"score", "redeem", "mint"}, NEW r \in Rows,
             NEW k \in Links \cup {NoLink}, Reads(p, o, r, k)
      PROVE  LinksAreMinted'
  BY <1>3, Actors DEF Reads, ReadRow, Redeemable, GoTo, rowVars
<1>4. ASSUME NEW p \in Raters, RefuseLink(p) PROVE LinksAreMinted'
  BY <1>4, Actors DEF RefuseLink, GoTo, rowVars, raterVars
<1>5. ASSUME NEW p \in Raters, WriteScore(p) PROVE LinksAreMinted'
  BY <1>5, Actors DEF WriteScore, Leave, GoTo, raterVars
<1>6. ASSUME NEW p \in Raters, WriteRedemption(p) PROVE LinksAreMinted'
  BY <1>6, Actors DEF WriteRedemption, Leave, GoTo
<1>7. ASSUME NEW p \in Raters, WriteLink(p) PROVE LinksAreMinted'
  BY <1>7, Actors DEF WriteLink, Leave, GoTo, Standing, raterVars
<1>8. CASE UNCHANGED vars
  BY <1>8 DEF vars, rowVars, raterVars
<1> QED
  BY <1>1, <1>2, <1>3, <1>4, <1>5, <1>6, <1>7, <1>8, Steps

\* A new link is out for no other job, and nobody is about to redeem it.
LEMMA OneJobPerLinkStep ==
  ASSUME TypeOK, Standing, LinksAreMinted, OneJobPerLink, [Next]_vars
  PROVE  OneJobPerLink'
<1> USE DEF TypeOK, OneJobPerLink
<1>1. ASSUME NEW r \in Rows, FailRow(r) \/ FinishRow(r) \/ FinishFanout(r)
      PROVE  OneJobPerLink'
  BY <1>1, RowFrame
<1>2. ASSUME NEW j \in Judges, JudgeStep(j) PROVE OneJobPerLink'
  <2>1. /\ UNCHANGED <<hash, used, op, link, redeemed>>
        /\ \A p \in Raters : pc'[p] = pc[p] /\ on'[p] = on[p]
    BY <1>2, JudgeFrame
  <2> HIDE DEF TypeOK
  <2> QED
    BY <2>1
<1>3. ASSUME NEW p \in Raters, NEW o \in {"score", "redeem", "mint"}, NEW r \in Rows,
             NEW k \in Links \cup {NoLink}, Reads(p, o, r, k)
      PROVE  OneJobPerLink'
  BY <1>3, Actors DEF Reads, ReadRow, Redeemable, GoTo, rowVars
<1>4. ASSUME NEW p \in Raters, RefuseLink(p) PROVE OneJobPerLink'
  BY <1>4, Actors DEF RefuseLink, GoTo, rowVars, raterVars
<1>5. ASSUME NEW p \in Raters, WriteScore(p) PROVE OneJobPerLink'
  BY <1>5, Actors DEF WriteScore, Leave, GoTo, raterVars
<1>6. ASSUME NEW p \in Raters, WriteRedemption(p) PROVE OneJobPerLink'
  BY <1>6, Actors DEF WriteRedemption, Leave, GoTo
<1>7. ASSUME NEW p \in Raters, WriteLink(p) PROVE OneJobPerLink'
  <2>1. ~Minted(p) /\ pc[p] = "write" /\ on[p] \in Jobs
    BY <1>7, Actors DEF WriteLink, Minted, Standing
  <2>2. /\ \A r \in Jobs : hash[r] # p
        /\ \A q \in Raters : pc[q] = "write" /\ op[q] = "redeem" => link[q] # p
    BY <2>1 DEF LinksAreMinted
  <2>3. /\ hash' = [hash EXCEPT ![on[p]] = p] /\ UNCHANGED <<op, link>>
        /\ pc' = [pc EXCEPT ![p] = "done"] /\ on' = [on EXCEPT ![p] = NoRow]
    BY <1>7 DEF WriteLink, Leave, GoTo, raterVars
  <2> QED
    BY <2>1, <2>2, <2>3, Actors
<1>8. CASE UNCHANGED vars
  BY <1>8 DEF vars, rowVars, raterVars
<1> QED
  BY <1>1, <1>2, <1>3, <1>4, <1>5, <1>6, <1>7, <1>8, Steps

\* Only a redemption spends a link and only a new link revives a job: the former is at the
\* link's only job, the latter was never redeemed.
LEMMA RedeemedIsSpentStep ==
  ASSUME TypeOK, Standing, LinksAreMinted, OneJobPerLink, RedeemedIsSpent, [Next]_vars
  PROVE  RedeemedIsSpent'
<1> USE DEF TypeOK, RedeemedIsSpent, Redeemable
<1>1. ASSUME NEW r \in Rows, FailRow(r) \/ FinishRow(r) \/ FinishFanout(r)
      PROVE  RedeemedIsSpent'
  BY <1>1, RowFrame
<1>2. ASSUME NEW j \in Judges, JudgeStep(j) PROVE RedeemedIsSpent'
  BY <1>2, JudgeFrame
<1>3. ASSUME NEW p \in Raters, NEW o \in {"score", "redeem", "mint"}, NEW r \in Rows,
             NEW k \in Links \cup {NoLink}, Reads(p, o, r, k)
      PROVE  RedeemedIsSpent'
  BY <1>3 DEF Reads, ReadRow, rowVars
<1>4. ASSUME NEW p \in Raters, RefuseLink(p) PROVE RedeemedIsSpent'
  BY <1>4 DEF RefuseLink, rowVars, raterVars
<1>5. ASSUME NEW p \in Raters, WriteScore(p) PROVE RedeemedIsSpent'
  BY <1>5 DEF WriteScore, raterVars
<1>6. ASSUME NEW p \in Raters, WriteRedemption(p) PROVE RedeemedIsSpent'
  <2>1. \A r \in Jobs : hash[r] = link[p] => r = on[p]
    BY <1>6 DEF WriteRedemption, OneJobPerLink
  <2> QED
    BY <1>6, <2>1, Actors DEF WriteRedemption, Standing
<1>7. ASSUME NEW p \in Raters, WriteLink(p) PROVE RedeemedIsSpent'
  <2>1. p \notin redeemed
    BY <1>7 DEF WriteLink, LinksAreMinted, Minted
  <2> QED
    BY <1>7, <2>1, Actors DEF WriteLink, Standing, raterVars
<1>8. CASE UNCHANGED vars
  BY <1>8 DEF vars, rowVars, raterVars
<1> QED
  BY <1>1, <1>2, <1>3, <1>4, <1>5, <1>6, <1>7, <1>8, Steps

\* A score comes by a link only with its redemption, and is copied with its document.
LEMMA ScoresAreRedeemedStep ==
  ASSUME TypeOK, Standing, ScoresAreRedeemed, [Next]_vars
  PROVE  ScoresAreRedeemed'
<1> USE DEF ScoresAreRedeemed
<1>0. meta \in [Rows -> Doc] /\ copy \in [Procs -> Doc]
  BY DEF TypeOK
<1>1. ASSUME NEW r \in Rows, FailRow(r) \/ FinishRow(r) \/ FinishFanout(r)
      PROVE  ScoresAreRedeemed'
  <2>1. /\ UNCHANGED <<copy, redeemed>>
        /\ meta' = meta \/ meta' = [meta EXCEPT ![r] = NoDoc]
    BY <1>1, RowFrame
  <2> QED
    BY <1>0, <2>1, EmptyDoc DEF LinksOf
<1>2. ASSUME NEW j \in Judges, JudgeStep(j) PROVE ScoresAreRedeemed'
  <2>1. redeemed' = redeemed
    BY <1>2, JudgeFrame
  <2>2. j \in Procs
    BY Actors
  <2>3. CASE UNCHANGED <<meta, copy>>
    BY <2>1, <2>3 DEF LinksOf
  <2>4. ASSUME NEW r \in Rows, meta' = meta, copy' = [copy EXCEPT ![j] = meta[r]]
        PROVE  ScoresAreRedeemed'
    BY <1>0, <2>1, <2>2, <2>4 DEF LinksOf
  <2>5. ASSUME NEW d \in Doc, NEW r \in Rows, meta' = [meta EXCEPT ![r] = d],
               copy' = [copy EXCEPT ![j] = NoDoc], LinksOf(d) \subseteq LinksOf(copy[j])
        PROVE  ScoresAreRedeemed'
    <3>1. LinksOf(d) \subseteq redeemed
      BY <2>2, <2>5
    <3>2. \A x \in Rows : LinksOf(meta'[x]) \subseteq redeemed
      BY <1>0, <2>5, <3>1
    <3>3. \A x \in Procs : LinksOf(copy'[x]) \subseteq redeemed
      BY <1>0, <2>5, EmptyDoc
    <3> QED
      BY <2>1, <3>2, <3>3 DEF LinksOf
  <2> QED
    BY <1>2, <2>3, <2>4, <2>5, JudgeDocs
<1>3. ASSUME NEW p \in Raters, NEW o \in {"score", "redeem", "mint"}, NEW r \in Rows,
             NEW k \in Links \cup {NoLink}, Reads(p, o, r, k)
      PROVE  ScoresAreRedeemed'
  <2>1. UNCHANGED <<meta, redeemed>> /\ copy' = [copy EXCEPT ![p] = meta[r]]
    BY <1>3 DEF Reads, ReadRow, rowVars
  <2> QED
    BY <1>0, <2>1, Actors DEF LinksOf
<1>4. ASSUME NEW p \in Raters, RefuseLink(p) PROVE ScoresAreRedeemed'
  BY <1>4 DEF RefuseLink, rowVars, raterVars, LinksOf
<1>5. ASSUME NEW p \in Raters, WriteScore(p) \/ WriteRedemption(p)
      PROVE  ScoresAreRedeemed'
  <2>1. PICK k \in Links \cup {NoLink} :
          /\ meta' = [meta EXCEPT ![on[p]] = AddScore(p, k)]
          /\ redeemed' = redeemed \cup ({k} \ {NoLink})
          /\ copy' = [copy EXCEPT ![p] = NoDoc]
          /\ on[p] \in Rows
    <3>1. CASE WriteScore(p)
      <4>1. redeemed' = redeemed \cup ({NoLink} \ {NoLink})
        BY <3>1 DEF WriteScore, raterVars
      <4> QED
        BY <3>1, <4>1 DEF WriteScore, Leave, Standing
    <3>2. CASE WriteRedemption(p)
      <4>1. link[p] \in Links /\ link[p] # NoLink /\ on[p] \in Rows
        BY <3>2, Actors DEF WriteRedemption, Standing
      <4>2. redeemed' = redeemed \cup ({link[p]} \ {NoLink})
        BY <3>2, <4>1 DEF WriteRedemption
      <4> QED
        BY <3>2, <4>1, <4>2 DEF WriteRedemption, Leave
    <3> QED
      BY <1>5, <3>1, <3>2
  <2>2. LinksOf(AddScore(p, k)) \subseteq redeemed'
    <3>1. NoLink \notin LinksOf(AddScore(p, k))
      BY DEF LinksOf
    <3>2. LinksOf(AddScore(p, k)) \subseteq LinksOf(copy[p]) \cup {k}
      BY Actors, AddScoreDoc
    <3> QED
      BY <2>1, <3>1, <3>2, Actors
  <2>3. redeemed \subseteq redeemed'
    BY <2>1
  <2>4. \A x \in Rows : LinksOf(meta'[x]) \subseteq redeemed'
    BY <1>0, <2>1, <2>2, <2>3
  <2>5. \A x \in Procs : LinksOf(copy'[x]) \subseteq redeemed'
    BY <1>0, <2>1, <2>3, EmptyDoc
  <2> QED
    BY <2>4, <2>5 DEF LinksOf
<1>6. ASSUME NEW p \in Raters, WriteLink(p) PROVE ScoresAreRedeemed'
  <2>1. UNCHANGED <<meta, redeemed>> /\ copy' = [copy EXCEPT ![p] = NoDoc]
    BY <1>6 DEF WriteLink, Leave, raterVars
  <2> QED
    BY <1>0, <2>1, EmptyDoc DEF LinksOf
<1>7. CASE UNCHANGED vars
  BY <1>7 DEF vars, rowVars, raterVars, LinksOf
<1> QED
  BY <1>1, <1>2, <1>3, <1>4, <1>5, <1>6, <1>7, Steps

\* Whoever reads a row to redeem its link reads it unspent, so without a score of it.
LEMMA CopyIsFreshStep ==
  ASSUME TypeOK, Standing, RedeemedIsSpent, ScoresAreRedeemed, CopyIsFresh, [Next]_vars
  PROVE  CopyIsFresh'
<1> USE DEF CopyIsFresh, LinksOf
<1>0. pc \in [Procs -> {"new", "write", "done", "refused",
                       "call", "read", "finish", "complete", "failed", "dead"}]
      /\ copy \in [Procs -> Doc]
      /\ op \in [Raters -> {"score", "redeem", "mint"}]
      /\ link \in [Raters -> Links \cup {NoLink}]
  BY DEF TypeOK
<1>1. ASSUME NEW r \in Rows, FailRow(r) \/ FinishRow(r) \/ FinishFanout(r)
      PROVE  CopyIsFresh'
  <2>1. UNCHANGED <<pc, op, link, copy>>
    BY <1>1, RowFrame
  <2> QED
    BY <2>1
<1>2. ASSUME NEW j \in Judges, JudgeStep(j) PROVE CopyIsFresh'
  <2>1. /\ UNCHANGED <<op, link>>
        /\ \A p \in Raters : pc'[p] = pc[p] /\ copy'[p] = copy[p]
    BY <1>2, JudgeFrame
  <2> QED
    BY <2>1
<1>3. ASSUME NEW p \in Raters, NEW o \in {"score", "redeem", "mint"}, NEW r \in Rows,
             NEW k \in Links \cup {NoLink}, Reads(p, o, r, k)
      PROVE  CopyIsFresh'
  <2>1. /\ op' = [op EXCEPT ![p] = o] /\ link' = [link EXCEPT ![p] = k]
        /\ pc' = [pc EXCEPT ![p] = "write"] /\ copy' = [copy EXCEPT ![p] = meta[r]]
    BY <1>3 DEF Reads, ReadRow, GoTo
  <2>2. o = "redeem" => k \notin LinksOf(meta[r])
    <3>1. o = "redeem" => r \in Jobs /\ Redeemable(r, k)
      BY <1>3 DEF Reads
    <3>2. r \in Jobs /\ Redeemable(r, k) => k \notin redeemed
      BY DEF RedeemedIsSpent
    <3> QED
      BY <3>1, <3>2 DEF ScoresAreRedeemed
  <2> QED
    BY <1>0, <2>1, <2>2, Actors
<1>4. ASSUME NEW p \in Raters, RefuseLink(p) PROVE CopyIsFresh'
  BY <1>0, <1>4, Actors DEF RefuseLink, GoTo, raterVars
<1>5. ASSUME NEW p \in Raters, WriteScore(p) \/ WriteRedemption(p) \/ WriteLink(p)
      PROVE  CopyIsFresh'
  <2>1. /\ UNCHANGED <<op, link>>
        /\ pc' = [pc EXCEPT ![p] = "done"] /\ copy' = [copy EXCEPT ![p] = NoDoc]
    BY <1>5 DEF WriteScore, WriteRedemption, WriteLink, Leave, GoTo, raterVars
  <2> QED
    BY <1>0, <2>1, Actors
<1>6. CASE UNCHANGED vars
  BY <1>6 DEF vars, raterVars
<1> QED
  BY <1>1, <1>2, <1>3, <1>4, <1>5, <1>6, Steps

\* No write of a document repeats a link.
LEMMA DocsAreSingleStep ==
  ASSUME TypeOK, Standing, ScoresAreRedeemed, CopyIsFresh, DocsAreSingle, [Next]_vars
  PROVE  DocsAreSingle'
<1> USE DEF DocsAreSingle
<1>0. meta \in [Rows -> Doc] /\ copy \in [Procs -> Doc]
  BY DEF TypeOK
<1>1. ASSUME NEW r \in Rows, FailRow(r) \/ FinishRow(r) \/ FinishFanout(r)
      PROVE  DocsAreSingle'
  <2>1. /\ UNCHANGED copy
        /\ meta' = meta \/ meta' = [meta EXCEPT ![r] = NoDoc]
    BY <1>1, RowFrame
  <2>2. (\A x \in Rows : Single(meta'[x])) /\ \A x \in Procs : Single(copy'[x])
    BY <1>0, <2>1, EmptyDoc
  <2> QED
    BY <2>2 DEF Single
<1>2. ASSUME NEW j \in Judges, JudgeStep(j) PROVE DocsAreSingle'
  <2>1. j \in Procs
    BY Actors
  <2>2. (\A x \in Rows : Single(meta'[x])) /\ \A x \in Procs : Single(copy'[x])
    <3>1. CASE UNCHANGED <<meta, copy>>
      BY <3>1
    <3>2. ASSUME NEW r \in Rows, meta' = meta, copy' = [copy EXCEPT ![j] = meta[r]]
          PROVE  (\A x \in Rows : Single(meta'[x])) /\ \A x \in Procs : Single(copy'[x])
      BY <1>0, <2>1, <3>2
    <3>3. ASSUME NEW d \in Doc, NEW r \in Rows, meta' = [meta EXCEPT ![r] = d],
                 copy' = [copy EXCEPT ![j] = NoDoc], Single(copy[j]) => Single(d)
          PROVE  (\A x \in Rows : Single(meta'[x])) /\ \A x \in Procs : Single(copy'[x])
      BY <1>0, <2>1, <3>3, EmptyDoc
    <3> QED
      BY <1>2, <3>1, <3>2, <3>3, JudgeDocs
  <2> QED
    BY <2>2 DEF Single
<1>3. ASSUME NEW p \in Raters, NEW o \in {"score", "redeem", "mint"}, NEW r \in Rows,
             NEW k \in Links \cup {NoLink}, Reads(p, o, r, k)
      PROVE  DocsAreSingle'
  <2>1. meta' = meta /\ copy' = [copy EXCEPT ![p] = meta[r]]
    BY <1>3 DEF Reads, ReadRow, rowVars
  <2> QED
    BY <1>0, <2>1, Actors DEF Single
<1>4. ASSUME NEW p \in Raters, RefuseLink(p) PROVE DocsAreSingle'
  BY <1>4 DEF RefuseLink, rowVars, Single
<1>5. ASSUME NEW p \in Raters, WriteScore(p) \/ WriteRedemption(p) PROVE DocsAreSingle'
  <2>1. PICK k \in Links \cup {NoLink} :
          /\ meta' = [meta EXCEPT ![on[p]] = AddScore(p, k)]
          /\ copy' = [copy EXCEPT ![p] = NoDoc]
          /\ on[p] \in Rows /\ k \notin LinksOf(copy[p])
    <3>1. CASE WriteScore(p)
      <4>1. NoLink \notin LinksOf(copy[p])
        BY DEF LinksOf
      <4> QED
        BY <3>1, <4>1 DEF WriteScore, Leave, Standing
    <3>2. CASE WriteRedemption(p)
      <4>1. link[p] \in Links /\ on[p] \in Rows /\ link[p] \notin LinksOf(copy[p])
        BY <3>2, Actors DEF WriteRedemption, Standing, CopyIsFresh
      <4> QED
        BY <3>2, <4>1 DEF WriteRedemption, Leave
    <3> QED
      BY <1>5, <3>1, <3>2
  <2>2. Single(AddScore(p, k))
    BY <2>1, Actors, AddScoreDoc
  <2>3. (\A x \in Rows : Single(meta'[x])) /\ \A x \in Procs : Single(copy'[x])
    BY <1>0, <2>1, <2>2, EmptyDoc
  <2> QED
    BY <2>3 DEF Single
<1>6. ASSUME NEW p \in Raters, WriteLink(p) PROVE DocsAreSingle'
  <2>1. meta' = meta /\ copy' = [copy EXCEPT ![p] = NoDoc]
    BY <1>6 DEF WriteLink, Leave
  <2> QED
    BY <1>0, <2>1, EmptyDoc DEF Single
<1>7. CASE UNCHANGED vars
  BY <1>7 DEF vars, rowVars, Single
<1> QED
  BY <1>1, <1>2, <1>3, <1>4, <1>5, <1>6, <1>7, Steps

-----------------------------------------------------------------------------
(* Verdicts.  What a judge has committed so far follows from where it stands:  *)
(* nothing, the winner's record, or everything its verdict says.               *)

Past(j) == {w \in written : w.judge = j}

Pairs(j) == ask[j].mode = "pairwise"

ScoreOf(j) == [judge |-> j, row |-> ask[j].target, what |-> "score"]
WinOf(j)   == [judge |-> j, row |-> chosen[j], what |-> "win"]
LossOf(j)  == [judge |-> j, row |-> Loser(j), what |-> "loss"]

Sided(j) == chosen[j] \in {ask[j].target, ask[j].against}

Quorate(j) == Cardinality(Scored(ballots[j])) >= ask[j].quorum

\* A verdict as a whole.
Full(j) == IF Pairs(j) THEN Sided(j) /\ Past(j) = {WinOf(j), LossOf(j)}
                       ELSE Quorate(j) /\ Past(j) = {ScoreOf(j)}

Half(j) == Pairs(j) /\ Sided(j) /\ Past(j) = {WinOf(j)}

\* Nothing is committed, and the rows to write are those of the verdict.
Before(j) ==
    /\ Past(j) = {}
    /\ IF Pairs(j) THEN Sided(j) /\ todo[j] = <<chosen[j], Loser(j)>>
                   ELSE Quorate(j) /\ todo[j] = <<ask[j].target>>

InOrder(j) ==
    /\ Past(j) = {} \/ Half(j) \/ Full(j)
    /\ pc[j] \in {"new", "call"} => Past(j) = {}
    /\ pc[j] \in {"read", "write"} =>
          ask[j].apply /\ (Before(j) \/ (Half(j) /\ todo[j] = <<Loser(j)>>))
    /\ pc[j] = "write" => on[j] = Head(todo[j])
    /\ pc[j] = "finish" =>
          IF ask[j].apply /\ (Pairs(j) => chosen[j] # NoRow) THEN Full(j) ELSE Past(j) = {}
    /\ pc[j] = "complete" => IF j \in applied THEN Full(j) ELSE Past(j) = {}
    /\ j \in applied => pc[j] = "complete"

VerdictsInOrder == \A j \in Judges : InOrder(j)

\* The parts of the state that a judge's verdict depends on.
Same(j) ==
    /\ pc'[j] = pc[j] /\ on'[j] = on[j] /\ ask'[j] = ask[j] /\ ballots'[j] = ballots[j]
    /\ todo'[j] = todo[j] /\ chosen'[j] = chosen[j] /\ (j \in applied' <=> j \in applied)
    /\ Past(j)' = Past(j)

LEMMA SameInOrder ==
  ASSUME NEW j \in Judges, InOrder(j), Same(j)
  PROVE  InOrder(j)'
  BY DEF InOrder, Same, Full, Half, Before, Pairs, Sided, Quorate, Scored, Loser, ScoreOf,
         WinOf, LossOf

\* No judge's verdict depends on a request, on the executor of a row or on another judge.
LEMMA OthersAreSame ==
  ASSUME TypeOK, NEW k \in Judges, JudgeStep(k), NEW j \in Judges, j # k
  PROVE  Same(j)
<1> USE DEF TypeOK
<1>1. /\ pc' = pc \/ \E s : pc' = [pc EXCEPT ![k] = s]
      /\ on' = on \/ \E s : on' = [on EXCEPT ![k] = s]
      /\ ask' = ask \/ \E s : ask' = [ask EXCEPT ![k] = s]
      /\ chosen' = chosen \/ \E s : chosen' = [chosen EXCEPT ![k] = s]
  BY DEF JudgeStep, StartJudge, CallJuror, RefuseJudge, CallSwapped, TallyScores, TallySwaps,
         ReadTarget, WriteTarget, FinishJudge, InterruptJudge, Leave, GoTo, idle, judgeVars
<1>2. ballots' = ballots \/ \E s : ballots' = [ballots EXCEPT ![k] = s]
  <2>1. ASSUME NEW m \in Jurors, CallJuror(k, m)
        PROVE  \E s : ballots' = [ballots EXCEPT ![k] = s]
    <3>1. PICK v : ballots' = [ballots EXCEPT
                ![k] = [n \in DOMAIN @ \cup {m} |-> IF n = m THEN v ELSE @[n]]]
      BY <2>1 DEF CallJuror
    <3> QED
      BY <3>1
  <2> QED
    BY <2>1 DEF JudgeStep, StartJudge, RefuseJudge, CallSwapped, TallyScores, TallySwaps,
                ReadTarget, WriteTarget, FinishJudge, InterruptJudge, judgeVars
<1>3. todo' = todo \/ \E s : todo' = [todo EXCEPT ![k] = s]
  BY DEF JudgeStep, StartJudge, CallJuror, RefuseJudge, CallSwapped, TallyScores, TallySwaps,
         ReadTarget, WriteTarget, FinishJudge, InterruptJudge, judgeVars
<1>4. applied' = applied \/ applied' = applied \cup {k}
  BY DEF JudgeStep, StartJudge, CallJuror, RefuseJudge, CallSwapped, TallyScores, TallySwaps,
         ReadTarget, WriteTarget, FinishJudge, InterruptJudge, judgeVars
<1>5. \/ written' = written
      \/ written' = written \cup {[judge |-> k, row |-> on[k], what |-> What(k)]}
  BY DEF JudgeStep, StartJudge, CallJuror, RefuseJudge, CallSwapped, TallyScores, TallySwaps,
         ReadTarget, WriteTarget, FinishJudge, InterruptJudge, judgeVars
<1>6. Past(j)' = Past(j)
  BY <1>5 DEF Past
<1>7. /\ pc'[j] = pc[j] /\ on'[j] = on[j] /\ ask'[j] = ask[j] /\ chosen'[j] = chosen[j]
      /\ ballots'[j] = ballots[j] /\ todo'[j] = todo[j]
  BY <1>1, <1>2, <1>3, Actors
<1> QED
  BY <1>4, <1>6, <1>7 DEF Same

LEMMA RequestsAreSame ==
  ASSUME TypeOK, [Next]_vars, \A k \in Judges : ~JudgeStep(k), NEW j \in Judges
  PROVE  Same(j)
<1> USE DEF TypeOK, Same, Past
<1>1. ASSUME NEW r \in Rows, FailRow(r) \/ FinishRow(r) \/ FinishFanout(r) PROVE Same(j)
  BY <1>1 DEF FailRow, FinishRow, FinishFanout, judgeVars
<1>2. ASSUME NEW p \in Raters, NEW o \in {"score", "redeem", "mint"}, NEW r \in Rows,
             NEW k \in Links \cup {NoLink}, Reads(p, o, r, k)
      PROVE  Same(j)
  BY <1>2, Actors DEF Reads, ReadRow, GoTo, judgeVars
<1>3. ASSUME NEW p \in Raters, RefuseLink(p) PROVE Same(j)
  BY <1>3, Actors DEF RefuseLink, GoTo, judgeVars
<1>4. ASSUME NEW p \in Raters, WriteScore(p) \/ WriteRedemption(p) \/ WriteLink(p)
      PROVE  Same(j)
  <2>1. /\ pc' = [pc EXCEPT ![p] = "done"] /\ on' = [on EXCEPT ![p] = NoRow]
        /\ UNCHANGED <<ask, ballots, todo, chosen, applied, written>>
    BY <1>4 DEF WriteScore, WriteRedemption, WriteLink, Leave, GoTo, judgeVars
  <2> QED
    BY <2>1, Actors
<1>5. CASE UNCHANGED vars
  BY <1>5 DEF vars, judgeVars
<1> QED
  BY <1>1, <1>2, <1>3, <1>4, <1>5, Steps

LEMMA RequestFacts ==
  ASSUME NEW j \in Judges, ask[j] \in JudgeRequests
  PROVE  /\ ask[j].target \in Rows /\ ask[j].target # NoRow
         /\ Pairs(j) => /\ ask[j].against \in Rows /\ ask[j].against # NoRow
                        /\ ask[j].against # ask[j].target
  BY ScoringAssumption, Actors DEF JudgeRequest, Pairs

LEMMA TwoSides ==
  ASSUME NEW S, NEW x \in S, NEW y \in S
  PROVE  Head(<<x, y>>) = x /\ Tail(<<x, y>>) = <<y>>
  OBVIOUS

\* The write of a side commits the next record of the verdict.
LEMMA WriteInOrder ==
  ASSUME TypeOK, Standing, NEW j \in Judges, InOrder(j), WriteTarget(j)
  PROVE  InOrder(j)'
<1> DEFINE t == ask[j].target
           a == ask[j].against
           e == [judge |-> j, row |-> on[j], what |-> What(j)]
<1>1. /\ pc[j] = "write" /\ ask[j] \in JudgeRequests /\ ask[j].apply
      /\ on[j] = Head(todo[j]) /\ j \notin applied
      /\ Before(j) \/ (Half(j) /\ todo[j] = <<Loser(j)>>)
  BY DEF WriteTarget, Standing, Judging, InOrder
<1>2. /\ UNCHANGED <<ask, ballots, chosen, applied>>
      /\ todo' = [todo EXCEPT ![j] = Tail(todo[j])]
      /\ pc' = [pc EXCEPT ![j] = IF Tail(todo[j]) = <<>> THEN "finish" ELSE "read"]
      /\ Past(j)' = Past(j) \cup {e}
  BY DEF WriteTarget, Rest, Leave, GoTo, Past
<1>3. todo'[j] = Tail(todo[j])
  BY <1>2 DEF TypeOK
<1>4. pc'[j] = IF Tail(todo[j]) = <<>> THEN "finish" ELSE "read"
  BY <1>2, Actors DEF TypeOK
<1>5. /\ Loser(j)' = Loser(j) /\ Pairs(j)' = Pairs(j) /\ Sided(j)' = Sided(j)
      /\ Quorate(j)' = Quorate(j) /\ ScoreOf(j)' = ScoreOf(j) /\ WinOf(j)' = WinOf(j)
      /\ LossOf(j)' = LossOf(j) /\ ask'[j] = ask[j] /\ chosen'[j] = chosen[j]
      /\ applied' = applied
  BY <1>2 DEF Loser, Pairs, Sided, Quorate, Scored, ScoreOf, WinOf, LossOf
<1>6. CASE Before(j) /\ ~Pairs(j)
  <2>1. todo[j] = <<t>> /\ Quorate(j) /\ Past(j) = {}
    BY <1>6 DEF Before
  <2>2. Tail(todo[j]) = <<>> /\ on[j] = t
    BY <1>1, <2>1
  <2>3. e = ScoreOf(j)
    BY <1>6, <2>2 DEF What, Pairs, ScoreOf
  <2>4. Full(j)' /\ pc'[j] = "finish" /\ ~Pairs(j)'
    BY <1>2, <1>4, <1>5, <1>6, <2>1, <2>2, <2>3 DEF Full
  <2> QED
    BY <1>1, <1>5, <2>4 DEF InOrder
<1>7. CASE Before(j) /\ Pairs(j)
  <2>1. todo[j] = <<chosen[j], Loser(j)>> /\ Sided(j) /\ Past(j) = {}
    BY <1>7 DEF Before
  <2>2. Tail(todo[j]) = <<Loser(j)>> /\ on[j] = chosen[j]
    <3>1. chosen[j] \in Rows /\ Loser(j) \in Rows
      BY <1>1, <1>7, <2>1, RequestFacts DEF Sided, Loser
    <3>2. Head(todo[j]) = chosen[j] /\ Tail(todo[j]) = <<Loser(j)>>
      BY <2>1, <3>1, TwoSides
    <3> QED
      BY <1>1, <3>2
  <2>3. e = WinOf(j)
    BY <1>7, <2>2 DEF What, Pairs, WinOf
  <2>4. Half(j)' /\ pc'[j] = "read" /\ todo'[j] = <<Loser(j)'>>
    BY <1>2, <1>3, <1>4, <1>5, <1>7, <2>1, <2>2, <2>3 DEF Half
  <2> QED
    BY <1>1, <1>5, <2>4 DEF InOrder
<1>8. CASE Half(j) /\ todo[j] = <<Loser(j)>>
  <2>1. Sided(j) /\ Past(j) = {WinOf(j)} /\ Pairs(j)
    BY <1>8 DEF Half
  <2>2. Tail(todo[j]) = <<>> /\ on[j] = Loser(j)
    BY <1>1, <1>8
  <2>3. Loser(j) # chosen[j] /\ chosen[j] # NoRow
    BY <1>1, <2>1, RequestFacts DEF Loser, Sided
  <2>4. e = LossOf(j)
    BY <2>1, <2>2, <2>3 DEF What, Pairs, LossOf
  <2>5. Full(j)' /\ pc'[j] = "finish"
    BY <1>2, <1>4, <1>5, <2>1, <2>2, <2>4 DEF Full
  <2> QED
    BY <1>1, <1>5, <2>3, <2>5 DEF InOrder
<1> QED
  BY <1>1, <1>6, <1>7, <1>8

LEMMA ScoredIsFinite ==
  ASSUME TypeOK, NEW j \in Judges
  PROVE  Cardinality(Scored(ballots[j])) \in Nat
<1>1. Scored(ballots[j]) \subseteq Jurors
  BY DEF TypeOK, Ballots, Scored
<1> QED
  BY <1>1, ScoringAssumption, FS_Subset, FS_CardinalityType

LEMMA OwnStepInOrder ==
  ASSUME TypeOK, Standing, NEW j \in Judges, InOrder(j), JudgeStep(j)
  PROVE  InOrder(j)'
<1>1. ASSUME pc[j] \in {"new", "call"}, UNCHANGED <<written, applied>>,
             pc'[j] \in {"new", "call", "failed", "dead"}
      PROVE  InOrder(j)'
  BY <1>1 DEF InOrder, Past
<1>2. ASSUME NEW q \in JudgeRequests, StartJudge(j, q) PROVE InOrder(j)'
  BY <1>1, <1>2, Actors DEF StartJudge, GoTo, TypeOK
<1>3. CASE RefuseJudge(j)
  BY <1>1, <1>3, Actors DEF RefuseJudge, GoTo, judgeVars, TypeOK
<1>4. ASSUME NEW m \in Jurors, CallJuror(j, m) PROVE InOrder(j)'
  <2>1. \E s \in {"failed", "call"} : pc' = [pc EXCEPT ![j] = s]
    BY <1>4 DEF CallJuror, GoTo
  <2>2. pc'[j] \in {"failed", "call"}
    BY <2>1, Actors DEF TypeOK
  <2> QED
    BY <1>1, <1>4, <2>2 DEF CallJuror
<1>5. CASE CallSwapped(j)
  <2>1. pc' = pc \/ pc' = [pc EXCEPT ![j] = "failed"]
    BY <1>5 DEF CallSwapped, GoTo
  <2>2. pc[j] = "call" /\ pc'[j] \in {"failed", "call"}
    BY <1>5, <2>1, Actors DEF CallSwapped, TypeOK
  <2> QED
    BY <1>1, <1>5, <2>2 DEF CallSwapped
<1>6. CASE TallyScores(j)
  <2>1. /\ pc[j] = "call" /\ ~Pairs(j) /\ UNCHANGED <<ask, ballots, chosen, applied, written>>
        /\ Past(j) = {} /\ j \notin applied
    BY <1>6 DEF TallyScores, Pairs, InOrder
  <2>2. \/ pc' = [pc EXCEPT ![j] = "failed"]
        \/ /\ ~(Cardinality(Scored(ballots[j])) < ask[j].quorum) /\ ask[j].apply
           /\ pc' = [pc EXCEPT ![j] = "read"]
           /\ todo' = [todo EXCEPT ![j] = <<ask[j].target>>]
        \/ ~ask[j].apply /\ pc' = [pc EXCEPT ![j] = "finish"]
    BY <1>6 DEF TallyScores, GoTo
  <2>3. CASE pc' = [pc EXCEPT ![j] = "failed"]
    <3>1. pc'[j] = "failed"
      BY <2>3, Actors DEF TypeOK
    <3> QED
      BY <1>1, <2>1, <3>1
  <2>4. CASE /\ ~(Cardinality(Scored(ballots[j])) < ask[j].quorum) /\ ask[j].apply
             /\ pc' = [pc EXCEPT ![j] = "read"]
             /\ todo' = [todo EXCEPT ![j] = <<ask[j].target>>]
    <3>1. pc'[j] = "read" /\ todo'[j] = <<ask[j].target>>
      BY <2>4, Actors DEF TypeOK
    <3>2. Quorate(j)
      <4>1. Cardinality(Scored(ballots[j])) \in Nat
        BY ScoredIsFinite
      <4>2. ask[j].quorum \in Nat
        BY <1>6, ScoringAssumption DEF TallyScores, Standing, Judging, JudgeRequest
      <4> QED
        BY <2>4, <4>1, <4>2 DEF Quorate
    <3>3. Before(j)'
      BY <2>1, <3>1, <3>2 DEF Before, Past, Pairs, Quorate, Scored
    <3> QED
      <4>1. pc'[j] = "read" /\ ask'[j].apply /\ Before(j)' /\ j \notin applied'
        BY <2>1, <2>4, <3>1, <3>3
      <4>2. Past(j)' = {}
        BY <2>1 DEF Past
      <4> QED
        BY <4>1, <4>2 DEF InOrder
  <2>5. CASE ~ask[j].apply /\ pc' = [pc EXCEPT ![j] = "finish"]
    <3>1. pc'[j] = "finish"
      BY <2>5, Actors DEF TypeOK
    <3> QED
      BY <2>1, <2>5, <3>1 DEF InOrder, Past
  <2> QED
    BY <2>2, <2>3, <2>4, <2>5
<1>7. CASE TallySwaps(j)
  <2>1. /\ pc[j] = "call" /\ Pairs(j) /\ UNCHANGED <<ask, ballots, applied, written>>
        /\ Past(j) = {} /\ j \notin applied /\ chosen'[j] = Winner(j)
    BY <1>7 DEF TallySwaps, Pairs, InOrder, TypeOK
  <2>2. \/ /\ Winner(j) # NoRow /\ ask[j].apply
           /\ pc' = [pc EXCEPT ![j] = "read"]
           /\ todo' = [todo EXCEPT ![j] = Sides(j, Winner(j))]
        \/ ~(Winner(j) # NoRow /\ ask[j].apply) /\ pc' = [pc EXCEPT ![j] = "finish"]
    BY <1>7 DEF TallySwaps, GoTo
  <2>3. Winner(j) \in {ask[j].target, ask[j].against, NoRow}
    <3>1. Len(swaps[j]) = 2 /\ swaps[j] \in Seq({"A", "B", "TIE"})
      BY <1>7 DEF TallySwaps, TypeOK
    <3>2. swaps[j][1] \in {"A", "B", "TIE"}
      BY <3>1, FirstOfTwo
    <3> QED
      BY <3>2 DEF Winner
  <2>4. CASE /\ Winner(j) # NoRow /\ ask[j].apply
             /\ pc' = [pc EXCEPT ![j] = "read"]
             /\ todo' = [todo EXCEPT ![j] = Sides(j, Winner(j))]
    <3>1. pc'[j] = "read" /\ todo'[j] = Sides(j, Winner(j))
      BY <2>4, Actors DEF TypeOK
    <3>2. Sided(j)' /\ Pairs(j)' /\ Past(j)' = {}
      BY <2>1, <2>3, <2>4 DEF Sided, Pairs, Past
    <3>3. Sides(j, Winner(j)) = <<chosen'[j], Loser(j)'>>
      BY <2>1 DEF Sides, Loser
    <3>4. Before(j)'
      BY <3>1, <3>2, <3>3 DEF Before
    <3> QED
      <4>1. pc'[j] = "read" /\ ask'[j].apply /\ Before(j)' /\ j \notin applied'
        BY <2>1, <2>4, <3>1, <3>4
      <4> QED
        BY <3>2, <4>1 DEF InOrder
  <2>5. CASE ~(Winner(j) # NoRow /\ ask[j].apply) /\ pc' = [pc EXCEPT ![j] = "finish"]
    <3>1. pc'[j] = "finish"
      BY <2>5, Actors DEF TypeOK
    <3> QED
      BY <2>1, <2>5, <3>1 DEF InOrder, Past, Pairs
  <2> QED
    BY <2>2, <2>4, <2>5
<1>8. CASE ReadTarget(j)
  <2>1. /\ pc[j] = "read" /\ pc'[j] = "write" /\ on'[j] = Head(todo[j])
        /\ UNCHANGED <<ask, ballots, todo, chosen, applied, written>>
    BY <1>8, Actors DEF ReadTarget, GoTo, judgeVars, TypeOK
  <2> QED
    BY <2>1 DEF InOrder, Full, Half, Before, Past, Pairs, Sided, Quorate, Scored, Loser,
                ScoreOf, WinOf, LossOf
<1>9. CASE WriteTarget(j)
  BY <1>9, WriteInOrder
<1>10. CASE FinishJudge(j)
  <2>1. /\ pc[j] = "finish" /\ pc'[j] = "complete"
        /\ UNCHANGED <<ask, ballots, chosen, written>>
        /\ applied' = IF ask[j].apply /\ (Pairs(j) => chosen[j] # NoRow)
                      THEN applied \cup {j} ELSE applied
    BY <1>10, Actors DEF FinishJudge, GoTo, Pairs, TypeOK
  <2>2. j \notin applied
    BY <2>1 DEF InOrder
  <2> QED
    BY <2>1, <2>2 DEF InOrder, Full, Half, Past, Pairs, Sided, Quorate, Scored, Loser,
                      ScoreOf, WinOf, LossOf
<1>11. CASE InterruptJudge(j)
  <2>1. \E s \in {"failed", "dead"} : pc' = [pc EXCEPT ![j] = s]
    BY <1>11 DEF InterruptJudge, GoTo
  <2>2. /\ pc'[j] \in {"failed", "dead"} /\ pc[j] # "complete"
        /\ UNCHANGED <<ask, ballots, chosen, applied, written>>
    BY <1>11, <2>1, Actors DEF InterruptJudge, Judging, TypeOK
  <2> QED
    BY <2>2 DEF InOrder, Full, Half, Past, Pairs, Sided, Quorate, Scored, Loser,
                ScoreOf, WinOf, LossOf
<1> QED
  BY <1>2, <1>3, <1>4, <1>5, <1>6, <1>7, <1>8, <1>9, <1>10, <1>11 DEF JudgeStep

\* A judge commits its verdict in order, whatever interrupts it.
LEMMA VerdictsInOrderStep ==
  ASSUME TypeOK, Standing, VerdictsInOrder, [Next]_vars
  PROVE  VerdictsInOrder'
<1> SUFFICES ASSUME NEW j \in Judges PROVE InOrder(j)'
  BY DEF VerdictsInOrder
<1>1. InOrder(j)
  BY DEF VerdictsInOrder
<1>2. CASE \A k \in Judges : ~JudgeStep(k)
  BY <1>1, <1>2, RequestsAreSame, SameInOrder
<1>3. ASSUME NEW k \in Judges, JudgeStep(k) PROVE InOrder(j)'
  <2>1. CASE j = k
    BY <1>1, <1>3, <2>1, OwnStepInOrder
  <2>2. CASE j # k
    BY <1>1, <1>3, <2>2, OthersAreSame, SameInOrder
  <2> QED
    BY <2>1, <2>2
<1> QED
  BY <1>2, <1>3

-----------------------------------------------------------------------------
(* The theorems. *)

LEMMA InitEstablishes == Init => LinkInv
<1> SUFFICES ASSUME Init PROVE LinkInv
  OBVIOUS
<1>1. TypeOK
  <2>1. [m \in {} |-> 0] \in Ballots
    <3>1. [m \in {} |-> 0] \in [{} -> 0 .. MaxScore] /\ {} \in SUBSET Jurors
      OBVIOUS
    <3> QED
      BY <3>1 DEF Ballots
  <2> QED
    BY <2>1, EmptyDoc, ScoringAssumption DEF Init, TypeOK, Links
<1>2. Standing
  BY Actors DEF Init, Standing, Judging
<1>3. LinksAreMinted
  BY Actors, ActorsAssumption DEF Init, LinksAreMinted, Minted, Links
<1>4. OneJobPerLink
  BY Actors DEF Init, OneJobPerLink
<1>5. RedeemedIsSpent
  BY DEF Init, RedeemedIsSpent
<1>6. ScoresAreRedeemed /\ DocsAreSingle
  BY EmptyDoc DEF Init, ScoresAreRedeemed, DocsAreSingle
<1>7. CopyIsFresh
  BY Actors DEF Init, CopyIsFresh
<1> QED
  BY <1>1, <1>2, <1>3, <1>4, <1>5, <1>6, <1>7 DEF LinkInv

\* Every variable of the requests, the rows and the judges keeps its type.
THEOREM TypeCorrect == Spec => []TypeOK
<1>1. Init => TypeOK /\ Standing
  BY InitEstablishes DEF LinkInv
<1>2. TypeOK /\ Standing /\ [Next]_vars => (TypeOK /\ Standing)'
  BY TypeStep, StandingStep
<1> QED
  BY <1>1, <1>2, PTL DEF Spec

THEOREM LinkInvHolds == Spec => []LinkInv
<1>1. LinkInv /\ [Next]_vars => LinkInv'
  BY TypeStep, StandingStep, LinksAreMintedStep, OneJobPerLinkStep, RedeemedIsSpentStep,
     ScoresAreRedeemedStep, CopyIsFreshStep, DocsAreSingleStep DEF LinkInv
<1> QED
  BY <1>1, InitEstablishes, PTL DEF Spec

\* redeem_eval_token: a link that was redeemed is never accepted again, whatever is written
\* to its row between the check and the mark, or later.
THEOREM SpentForGood == Spec => []RedeemedIsSpent
<1>1. LinkInv => RedeemedIsSpent
  BY DEF LinkInv
<1> QED
  BY <1>1, LinkInvHolds, PTL

LEMMA AtMostOneElement ==
    ASSUME NEW S, \A x, y \in S : x = y
    PROVE  Cardinality(S) <= 1
<1>1. CASE S = {}
  BY <1>1, FS_EmptySet
<1>2. ASSUME NEW x \in S PROVE Cardinality(S) <= 1
  <2>1. S = {x}
    BY <1>2
  <2> QED
    BY <2>1, FS_Singleton
<1> QED
  BY <1>1, <1>2

\* However redemptions, scores and new links interleave, a job holds at most one score of
\* each link.
THEOREM OneScoreOnly == Spec => []OneScorePerLink
<1>1. ASSUME LinkInv PROVE OneScorePerLink
  <2> SUFFICES ASSUME NEW r \in Jobs, NEW k \in Links
               PROVE  Cardinality({s \in meta[r].scores : s.link = k}) <= 1
    BY DEF OneScorePerLink
  <2>1. Single(meta[r])
    BY <1>1, Actors DEF LinkInv, DocsAreSingle
  <2>2. \A x, y \in {s \in meta[r].scores : s.link = k} : x = y
    BY <2>1, Actors DEF Single
  <2> QED
    BY <2>2, AtMostOneElement
<1> QED
  BY <1>1, LinkInvHolds, PTL

LEMMA VerdictsHold == Spec => [](TypeOK /\ Standing /\ VerdictsInOrder)
<1>1. Init => TypeOK /\ Standing
  BY InitEstablishes DEF LinkInv
<1>2. Init => VerdictsInOrder
  BY Actors DEF Init, VerdictsInOrder, InOrder, Past
<1>3. TypeOK /\ Standing /\ VerdictsInOrder /\ [Next]_vars
        => (TypeOK /\ Standing /\ VerdictsInOrder)'
  BY TypeStep, StandingStep, VerdictsInOrderStep
<1> QED
  BY <1>1, <1>2, <1>3, PTL DEF Spec

\* What a record says is what its judge's verdict says.
LEMMA RecordOf ==
  ASSUME TypeOK, VerdictsInOrder, NEW w \in written
  PROVE  /\ w.judge \in Judges /\ w \in Past(w.judge)
         /\ \/ w = ScoreOf(w.judge) /\ Quorate(w.judge)
            \/ Pairs(w.judge) /\ w \in {WinOf(w.judge), LossOf(w.judge)}
         /\ Pairs(w.judge) => WinOf(w.judge) \in written
<1>1. w.judge \in Judges
  BY DEF TypeOK
<1>2. w \in Past(w.judge)
  BY DEF Past
<1>3. Half(w.judge) \/ Full(w.judge)
  BY <1>1, <1>2 DEF VerdictsInOrder, InOrder
<1>4. CASE Pairs(w.judge)
  <2>1. Past(w.judge) \in {{WinOf(w.judge)}, {WinOf(w.judge), LossOf(w.judge)}}
    BY <1>3, <1>4 DEF Half, Full
  <2>2. WinOf(w.judge) \in Past(w.judge)
    BY <2>1
  <2> QED
    BY <1>1, <1>2, <1>4, <2>1, <2>2 DEF Past
<1>5. CASE ~Pairs(w.judge)
  BY <1>1, <1>2, <1>3, <1>5 DEF Half, Full
<1> QED
  BY <1>4, <1>5

\* _apply_preference_to_target: whatever interrupts a pairwise judge, it leaves no loss in a
\* job's metadata without the win it mirrors in the other's.
THEOREM NoLossAlone == Spec => []LossHasWin
<1>1. ASSUME TypeOK, VerdictsInOrder PROVE LossHasWin
  <2> SUFFICES ASSUME NEW w \in written, w.what = "loss"
               PROVE  \E x \in written : x.judge = w.judge /\ x.what = "win"
    BY DEF LossHasWin
  <2>1. w # ScoreOf(w.judge)
    BY DEF ScoreOf
  <2>2. WinOf(w.judge) \in written
    BY <1>1, <2>1, RecordOf
  <2> QED
    BY <2>2 DEF WinOf
<1> QED
  BY <1>1, VerdictsHold, PTL

\* A judge that reports its verdict applied has committed it to each row it is about, and one
\* that completed without that report to none.
THEOREM AppliedMeansWritten == Spec => []AppliedIsWritten
<1>1. ASSUME TypeOK, Standing, VerdictsInOrder PROVE AppliedIsWritten
  <2> SUFFICES ASSUME NEW j \in Judges
               PROVE  /\ j \in applied =>
                           {w.row : w \in Past(j)} = IF Pairs(j)
                               THEN {ask[j].target, ask[j].against} ELSE {ask[j].target}
                      /\ pc[j] = "complete" /\ j \notin applied => {w.row : w \in Past(j)} = {}
    BY DEF AppliedIsWritten, Past, Pairs
  <2>1. InOrder(j)
    BY <1>1 DEF VerdictsInOrder
  <2>2. ASSUME j \in applied, Pairs(j)
        PROVE  {w.row : w \in Past(j)} = {ask[j].target, ask[j].against}
    <3>1. Sided(j) /\ Past(j) = {WinOf(j), LossOf(j)}
      BY <2>1, <2>2 DEF InOrder, Full
    <3>2. WinOf(j).row = chosen[j] /\ LossOf(j).row = Loser(j)
      BY DEF WinOf, LossOf
    <3>3. {w.row : w \in Past(j)} = {chosen[j], Loser(j)}
      BY <3>1, <3>2
    <3> QED
      BY <3>1, <3>3 DEF Sided, Loser
  <2>3. ASSUME j \in applied, ~Pairs(j)
        PROVE  {w.row : w \in Past(j)} = {ask[j].target}
    <3>1. Past(j) = {ScoreOf(j)}
      BY <2>1, <2>3 DEF InOrder, Full
    <3> QED
      BY <3>1 DEF ScoreOf
  <2>4. ASSUME pc[j] = "complete", j \notin applied PROVE Past(j) = {}
    BY <2>1, <2>4 DEF InOrder
  <2> QED
    BY <2>2, <2>3, <2>4
<1> QED
  BY <1>1, VerdictsHold, PTL

\* What a pairwise or scoring judge commits to the rows of its verdict and what it reports of
\* itself agree, wherever it is interrupted.
THEOREM VerdictsWhole == Spec => []VerdictsAreWhole
<1>1. AppliedIsWritten /\ LossHasWin => VerdictsAreWhole
  BY DEF VerdictsAreWhole
<1> QED
  BY <1>1, NoLossAlone, AppliedMeansWritten, PTL

\* No score is written to a target below the quorum its judge was asked for.
THEOREM NoDegradedScore == Spec => []QuorumBehindScore
<1>1. ASSUME TypeOK, VerdictsInOrder PROVE QuorumBehindScore
  <2> SUFFICES ASSUME NEW w \in written, w.what = "score"
               PROVE  Cardinality({m \in DOMAIN ballots[w.judge] : ballots[w.judge][m] # 0})
                        >= ask[w.judge].quorum
    BY DEF QuorumBehindScore
  <2>1. w \notin {WinOf(w.judge), LossOf(w.judge)}
    BY DEF WinOf, LossOf
  <2>2. w.judge \in Judges /\ Quorate(w.judge)
    BY <1>1, <2>1, RecordOf
  <2>3. PICK S \in SUBSET Jurors : ballots[w.judge] \in [S -> 0 .. MaxScore]
    <3>1. ballots \in [Judges -> Ballots]
      BY <1>1 DEF TypeOK
    <3>2. ballots[w.judge] \in Ballots
      BY <2>2, <3>1
    <3> QED
      BY <3>2 DEF Ballots
  <2>4. \A m \in DOMAIN ballots[w.judge] : ballots[w.judge][m] # 0 <=> ballots[w.judge][m] > 0
    BY <2>3
  <2>5. Scored(ballots[w.judge])
          = {m \in DOMAIN ballots[w.judge] : ballots[w.judge][m] # 0}
    BY <2>4 DEF Scored
  <2> QED
    BY <2>2, <2>5 DEF Quorate
<1> QED
  BY <1>1, VerdictsHold, PTL

-----------------------------------------------------------------------------
(* Exported pairs.  A preference is read, carried and written back by everybody *)
(* who scores the row, so what backs it is the record of its judge's commit.     *)

\* Each win in a document is one its judge has committed to that row, and names the loser of
\* the verdict.
Backed(r, d) ==
    \A v \in d.prefs : IsWin(v) =>
        /\ [judge |-> v.judge, row |-> r, what |-> "win"] \in written
        /\ v.against = Loser(v.judge)

PrefsAreBacked ==
    /\ \A r \in Rows : Backed(r, meta[r])
    /\ \A p \in Procs : pc[p] = "write" => Backed(on[p], copy[p])

\* A verdict does not change once a record of it is committed, nor does the record go.
LEMMA RecordsStay ==
  ASSUME TypeOK, VerdictsInOrder, [Next]_vars, NEW w \in written
  PROVE  w \in written' /\ Loser(w.judge)' = Loser(w.judge)
<1>1. w.judge \in Judges /\ w \in Past(w.judge)
  BY DEF TypeOK, Past
<1>2. CASE \A k \in Judges : ~JudgeStep(k)
  <2>1. Same(w.judge)
    BY <1>1, <1>2, RequestsAreSame
  <2> QED
    BY <1>1, <2>1 DEF Same, Past, Loser
<1>3. ASSUME NEW k \in Judges, JudgeStep(k), k # w.judge
      PROVE  w \in written' /\ Loser(w.judge)' = Loser(w.judge)
  <2>1. Same(w.judge)
    BY <1>1, <1>3, OthersAreSame
  <2> QED
    BY <1>1, <2>1 DEF Same, Past, Loser
<1>4. CASE JudgeStep(w.judge)
  <2>1. pc[w.judge] \notin {"new", "call"}
    BY <1>1 DEF VerdictsInOrder, InOrder
  <2>2. /\ UNCHANGED <<ask, chosen>>
        /\ written \subseteq written'
    BY <1>4, <2>1 DEF JudgeStep, StartJudge, CallJuror, RefuseJudge, CallSwapped, TallyScores,
       TallySwaps, ReadTarget, WriteTarget, FinishJudge, InterruptJudge, idle, judgeVars
  <2> QED
    BY <2>2 DEF Loser
<1> QED
  BY <1>2, <1>3, <1>4

\* So what backs a document keeps backing it, and a document that adds no win needs no more.
BackedNext(r, d) ==
    \A v \in d.prefs : IsWin(v) =>
        /\ [judge |-> v.judge, row |-> r, what |-> "win"] \in written'
        /\ v.against = Loser(v.judge)'

LEMMA BackingStays ==
  ASSUME TypeOK, VerdictsInOrder, [Next]_vars, NEW r, NEW d, Backed(r, d)
  PROVE  BackedNext(r, d)
<1> SUFFICES ASSUME NEW v \in d.prefs, IsWin(v)
             PROVE  /\ [judge |-> v.judge, row |-> r, what |-> "win"] \in written'
                    /\ v.against = Loser(v.judge)'
  BY DEF BackedNext
<1> DEFINE w == [judge |-> v.judge, row |-> r, what |-> "win"]
<1>1. w \in written /\ v.against = Loser(v.judge) /\ w.judge = v.judge
  BY DEF Backed
<1> HIDE DEF w
<1>2. w \in written' /\ Loser(w.judge)' = Loser(w.judge)
  BY <1>1, RecordsStay
<1>3. w \in written' /\ Loser(v.judge)' = Loser(v.judge)
  BY <1>1, <1>2 DEF Loser
<1> QED
  BY <1>1, <1>3 DEF w

LEMMA NothingToBack == \A r : BackedNext(r, NoDoc)
  BY DEF BackedNext, NoDoc

\* The write of a process has what it read behind it, and of a judge its own record.
LEMMA WriteIsBacked ==
  ASSUME TypeOK, Standing, VerdictsInOrder, PrefsAreBacked, [Next]_vars,
         NEW j \in Judges, WriteTarget(j)
  PROVE  \E d \in Doc : meta' = [meta EXCEPT ![on[j]] = d] /\ BackedNext(on[j], d)
<1>1. pc[j] = "write" /\ on[j] \in Rows /\ ask[j] \in JudgeRequests /\ j \in Procs
  BY Actors DEF WriteTarget, Standing, Judging
<1>2. BackedNext(on[j], copy[j])
  BY <1>1, BackingStays DEF PrefsAreBacked
<1>3. CASE What(j) = "score"
  <2>1. AddScore(j, NoLink) \in Doc
    BY <1>1, AddScoreDoc
  <2>2. AddScore(j, NoLink).prefs = copy[j].prefs
    BY DEF AddScore
  <2>3. meta' = [meta EXCEPT ![on[j]] = AddScore(j, NoLink)]
    BY <1>3 DEF WriteTarget
  <2> HIDE DEF AddScore
  <2> QED
    BY <1>2, <2>1, <2>2, <2>3 DEF BackedNext
<1>4. CASE What(j) # "score"
  <2> DEFINE other == IF on[j] = ask[j].target THEN ask[j].against ELSE ask[j].target
             e == [judge |-> j, what |-> What(j), against |-> other]
  <2>1. AddPref(j) \in Doc
    BY <1>1, <1>4, AddPrefDoc
  <2>2. AddPref(j).prefs = copy[j].prefs \cup {e}
    BY DEF AddPref
  <2>3. meta' = [meta EXCEPT ![on[j]] = AddPref(j)]
    BY <1>4 DEF WriteTarget
  <2>4. [judge |-> j, row |-> on[j], what |-> What(j)] \in written' /\ UNCHANGED <<ask, chosen>>
    BY DEF WriteTarget
  <2>5. ASSUME IsWin(e)
        PROVE  /\ [judge |-> j, row |-> on[j], what |-> "win"] \in written'
               /\ e.against = Loser(j)'
    <3>1. What(j) = "win"
      BY <2>5 DEF IsWin
    <3>2. on[j] = chosen[j]
      BY <3>1 DEF What
    <3> QED
      BY <2>4, <3>1, <3>2 DEF Loser
  <2>6. e.judge = j
    OBVIOUS
  <2> HIDE DEF e
  <2>7. BackedNext(on[j], AddPref(j))
    <3> SUFFICES ASSUME NEW v \in copy[j].prefs \cup {e}, IsWin(v)
                 PROVE  /\ [judge |-> v.judge, row |-> on[j], what |-> "win"] \in written'
                        /\ v.against = Loser(v.judge)'
      BY <2>2 DEF BackedNext
    <3>1. CASE v \in copy[j].prefs
      BY <1>2, <3>1 DEF BackedNext
    <3>2. CASE v = e
      BY <2>5, <2>6, <3>2 DEF Loser
    <3> QED
      BY <3>1, <3>2
  <2> QED
    BY <2>1, <2>3, <2>7
<1> QED
  BY <1>3, <1>4

LEMMA PrefsAreBackedStep ==
  ASSUME TypeOK, Standing, VerdictsInOrder, PrefsAreBacked, [Next]_vars
  PROVE  PrefsAreBacked'
<1>0. /\ pc \in [Procs -> {"new", "write", "done", "refused",
                            "call", "read", "finish", "complete", "failed", "dead"}]
      /\ meta \in [Rows -> Doc] /\ copy \in [Procs -> Doc]
      /\ on \in [Procs -> Rows \cup {NoRow}]
  BY DEF TypeOK
<1>1. /\ \A r \in Rows : BackedNext(r, meta[r])
      /\ \A p \in Procs : pc[p] = "write" => BackedNext(on[p], copy[p])
  BY BackingStays DEF PrefsAreBacked
<1> DEFINE Goal == /\ \A r \in Rows : BackedNext(r, meta'[r])
                   /\ \A p \in Procs : pc'[p] = "write" => BackedNext(on'[p], copy'[p])
<1>2. SUFFICES Goal
  BY DEF PrefsAreBacked, Backed, BackedNext
\* A process that leaves, having written a document or not.
<1>3. ASSUME NEW p \in Procs, NEW r \in Rows, NEW d \in Doc, pc'[p] # "write",
             meta' = meta \/ (meta' = [meta EXCEPT ![r] = d] /\ BackedNext(r, d)),
             \A q \in Procs \ {p} :
                pc'[q] = pc[q] /\ on'[q] = on[q] /\ copy'[q] = copy[q]
      PROVE  Goal
  BY <1>0, <1>1, <1>3
\* A process that reads a row.
<1>4. ASSUME NEW p \in Procs, NEW r \in Rows, meta' = meta, pc' = [pc EXCEPT ![p] = "write"],
             on' = [on EXCEPT ![p] = r], copy' = [copy EXCEPT ![p] = meta[r]]
      PROVE  Goal
  BY <1>0, <1>1, <1>4
<1> HIDE DEF Goal
<1>5. ASSUME NEW r \in Rows, FailRow(r) \/ FinishRow(r) \/ FinishFanout(r) PROVE Goal
  <2>1. /\ UNCHANGED <<pc, on, copy>>
        /\ meta' = meta \/ meta' = [meta EXCEPT ![r] = NoDoc]
    BY <1>5, RowFrame
  <2> QED
    BY <1>0, <1>1, <2>1, NothingToBack DEF Goal
<1>6. ASSUME NEW j \in Judges, JudgeStep(j) PROVE Goal
  <2>1. CASE ReadTarget(j)
    <3>1. Head(todo[j]) \in Rows
      BY <2>1 DEF ReadTarget, Standing, TypeOK
    <3> QED
      BY <1>4, <2>1, <3>1, Actors DEF ReadTarget, rowVars, GoTo
  <2>2. CASE WriteTarget(j)
    <3>1. PICK d \in Doc : meta' = [meta EXCEPT ![on[j]] = d] /\ BackedNext(on[j], d)
      BY <2>2, WriteIsBacked
    <3>2. on[j] \in Rows
      BY <2>2 DEF WriteTarget, Standing
    <3>3. \E s \in {"finish", "read"} : /\ pc' = [pc EXCEPT ![j] = s]
                                        /\ on' = [on EXCEPT ![j] = NoRow]
                                        /\ copy' = [copy EXCEPT ![j] = NoDoc]
      BY <2>2 DEF WriteTarget, Leave, GoTo
    <3>4. /\ pc'[j] # "write"
          /\ \A q \in Procs \ {j} :
                pc'[q] = pc[q] /\ on'[q] = on[q] /\ copy'[q] = copy[q]
      BY <1>0, <3>3, Actors
    <3> QED
      BY <1>3, <3>1, <3>2, <3>4, Actors
  <2>3. CASE ~ReadTarget(j) /\ ~WriteTarget(j)
    <3>1. /\ UNCHANGED <<meta, on, copy>>
          /\ pc' = pc \/ \E s : s # "write" /\ pc' = [pc EXCEPT ![j] = s]
      BY <1>6, <2>3 DEF JudgeStep, StartJudge, CallJuror, RefuseJudge, CallSwapped, TallyScores,
                        TallySwaps, FinishJudge, InterruptJudge, idle, rowVars, GoTo
    <3> QED
      BY <1>0, <1>1, <3>1, Actors DEF Goal
  <2> QED
    BY <2>1, <2>2, <2>3
<1>7. ASSUME NEW p \in Raters, NEW o \in {"score", "redeem", "mint"}, NEW r \in Rows,
             NEW k \in Links \cup {NoLink}, Reads(p, o, r, k)
      PROVE  Goal
  BY <1>4, <1>7, Actors DEF Reads, ReadRow, rowVars, GoTo
<1>8. ASSUME NEW p \in Raters,
             RefuseLink(p) \/ WriteScore(p) \/ WriteRedemption(p) \/ WriteLink(p)
      PROVE  Goal
  <2>1. CASE RefuseLink(p)
    <3>1. UNCHANGED <<meta, on, copy>> /\ pc' = [pc EXCEPT ![p] = "refused"]
      BY <2>1 DEF RefuseLink, GoTo, rowVars
    <3> QED
      BY <1>0, <1>1, <3>1 DEF Goal
  <2>2. CASE WriteScore(p) \/ WriteRedemption(p) \/ WriteLink(p)
    <3>1. /\ pc[p] = "write" /\ on[p] \in Rows
          /\ pc' = [pc EXCEPT ![p] = "done"]
          /\ on' = [on EXCEPT ![p] = NoRow] /\ copy' = [copy EXCEPT ![p] = NoDoc]
          /\ \/ meta' = meta
             \/ \E k \in Links \cup {NoLink} : meta' = [meta EXCEPT ![on[p]] = AddScore(p, k)]
      BY <2>2, Actors DEF WriteScore, WriteRedemption, WriteLink, Leave, GoTo, Standing
    <3>2. ASSUME NEW k \in Links \cup {NoLink}
          PROVE  AddScore(p, k) \in Doc /\ BackedNext(on[p], AddScore(p, k))
      <4>1. AddScore(p, k) \in Doc
        BY Actors, AddScoreDoc
      <4>2. AddScore(p, k).prefs = copy[p].prefs
        BY DEF AddScore
      <4>3. BackedNext(on[p], copy[p])
        BY <1>1, <3>1, Actors
      <4>4. BackedNext(on[p], AddScore(p, k))
        <5> SUFFICES ASSUME NEW v \in copy[p].prefs, IsWin(v)
                     PROVE  /\ [judge |-> v.judge, row |-> on[p], what |-> "win"] \in written'
                            /\ v.against = Loser(v.judge)'
          BY <4>2 DEF BackedNext
        <5> QED
          BY <4>3 DEF BackedNext
      <4> QED
        BY <4>1, <4>4
    <3>3. /\ pc'[p] # "write"
          /\ \A q \in Procs \ {p} :
                pc'[q] = pc[q] /\ on'[q] = on[q] /\ copy'[q] = copy[q]
      BY <1>0, <3>1, Actors
    <3>4. NoDoc \in Doc /\ p \in Procs
      BY EmptyDoc, Actors
    <3>5. CASE meta' = meta
      BY <1>3, <3>1, <3>3, <3>4, <3>5
    <3>6. ASSUME NEW k \in Links \cup {NoLink},
                 meta' = [meta EXCEPT ![on[p]] = AddScore(p, k)]
          PROVE  Goal
      BY <1>3, <3>1, <3>2, <3>3, <3>4, <3>6
    <3> QED
      BY <3>1, <3>5, <3>6
  <2> QED
    BY <1>8, <2>1, <2>2
<1>9. CASE UNCHANGED vars
  <2>1. UNCHANGED <<meta, pc, on, copy>>
    BY <1>9 DEF vars, rowVars
  <2> QED
    BY <1>1, <2>1 DEF Goal
<1> QED
  BY <1>5, <1>6, <1>7, <1>8, <1>9, Steps

\* "yields each pair exactly once": whatever is written to the rows meanwhile, an exported pair
\* is the verdict of a judge, winner first, and no judge's verdict is exported twice.
THEOREM PairsExported == Spec => []PairsAreVerdicts
<1>1. Init => PrefsAreBacked
  BY Actors DEF Init, PrefsAreBacked, Backed, NoDoc
<1>2. TypeOK /\ Standing /\ VerdictsInOrder /\ PrefsAreBacked => PairsAreVerdicts
  <2> SUFFICES ASSUME TypeOK, VerdictsInOrder, PrefsAreBacked PROVE PairsAreVerdicts
    OBVIOUS
  <2>1. ASSUME NEW p \in ExportedPairs
        PROVE  p = <<chosen[p[3]], Loser(p[3]), p[3]>>
    <3>1. PICK r \in Jobs : p \in PairsOf(r)
      BY DEF ExportedPairs
    <3>2. PICK v \in meta[r].prefs : IsWin(v) /\ p = <<r, v.against, v.judge>>
      BY <3>1 DEF PairsOf
    <3> DEFINE w == [judge |-> v.judge, row |-> r, what |-> "win"]
    <3>3. w \in written /\ v.against = Loser(v.judge)
      BY <3>2, Actors DEF PrefsAreBacked, Backed
    <3>4. w.judge = v.judge /\ w.what = "win" /\ w.row = r
      OBVIOUS
    <3> HIDE DEF w
    <3>5. w \in {ScoreOf(v.judge), WinOf(v.judge), LossOf(v.judge)}
      BY <3>3, <3>4, RecordOf
    <3>6. r = chosen[v.judge]
      BY <3>4, <3>5 DEF ScoreOf, WinOf, LossOf
    <3> QED
      BY <3>2, <3>3, <3>6
  <2> QED
    BY <2>1 DEF PairsAreVerdicts
<1>3. TypeOK /\ Standing /\ VerdictsInOrder /\ PrefsAreBacked /\ [Next]_vars => PrefsAreBacked'
  BY PrefsAreBackedStep
<1> QED
  BY <1>1, <1>2, <1>3, VerdictsHold, PTL DEF Spec

-----------------------------------------------------------------------------
(* The median of a panel. *)

LEMMA LeastNumber ==
  ASSUME NEW V, V \subseteq Nat, V # {}
  PROVE  \E v \in V : \A u \in V : v <= u
<1>1. PICK v \in V : \A u \in V : ~(<<u, v>> \in OpToRel(<, Nat))
  <2> DEFINE R == OpToRel(<, Nat)
  <2>1. IsWellFoundedOn(R, Nat)
    BY NatLessThanWellFounded, Zenon
  <2> HIDE DEF R
  <2>2. \E v \in V : \A u \in V : ~(<<u, v>> \in R)
    BY <2>1, WFMin
  <2> QED
    BY <2>2, Zenon DEF R
<1>2. \A u \in V : ~(u < v)
  BY <1>1 DEF OpToRel
<1> QED
  BY <1>2

\* What the jurors of a panel have said: a finite number of scores from 1 to MaxScore.
Below(b, v) == {m \in Scored(b) : b[m] < v}
UpTo(b, v)  == {m \in Scored(b) : b[m] <= v}

LEMMA PanelFacts ==
  ASSUME TypeOK, NEW j \in Judges
  PROVE  /\ IsFiniteSet(Scored(ballots[j]))
         /\ \A m \in Scored(ballots[j]) : ballots[j][m] \in 1 .. MaxScore
         /\ MaxScore \in Nat \ {0}
<1>1. PICK S \in SUBSET Jurors : ballots[j] \in [S -> 0 .. MaxScore]
  <2>1. ballots \in [Judges -> Ballots]
    BY DEF TypeOK
  <2>2. ballots[j] \in Ballots
    BY <2>1
  <2> QED
    BY <2>2 DEF Ballots
<1>2. Scored(ballots[j]) \subseteq Jurors
  BY <1>1 DEF Scored
<1>3. IsFiniteSet(Scored(ballots[j]))
  BY <1>2, ScoringAssumption, FS_Subset
<1> QED
  BY <1>1, <1>3, ScoringAssumption DEF Scored

\* The part of a panel that scored a thing is finite, and counts for no more the smaller it is.
LEMMA PartsCount ==
  ASSUME NEW b, IsFiniteSet(Scored(b)), NEW A, NEW B, A \subseteq B, B \subseteq Scored(b)
  PROVE  /\ IsFiniteSet(A) /\ IsFiniteSet(B)
         /\ Cardinality(A) \in Nat /\ Cardinality(B) \in Nat
         /\ Cardinality(A) <= Cardinality(B)
<1>1. IsFiniteSet(A) /\ IsFiniteSet(B)
  BY FS_Subset
<1> QED
  BY <1>1, FS_Subset, FS_CardinalityType

\* The k-th smallest score exists: fewer than k are below it and k are not above it.
LEMMA RankedIs ==
  ASSUME NEW b, IsFiniteSet(Scored(b)), \A m \in Scored(b) : b[m] \in 1 .. MaxScore,
         MaxScore \in Nat \ {0},
         NEW k \in Nat \ {0}, k <= Cardinality(Scored(b))
  PROVE  /\ Ranked(b, k) \in 1 .. MaxScore
         /\ Cardinality(Below(b, Ranked(b, k))) < k
         /\ Cardinality(UpTo(b, Ranked(b, k))) >= k
<1> DEFINE V == {v \in 1 .. MaxScore : Cardinality(UpTo(b, v)) >= k}
<1>1. MaxScore \in V
  <2>1. UpTo(b, MaxScore) = Scored(b)
    BY DEF UpTo
  <2> QED
    BY <2>1
<1>2. V \subseteq Nat /\ V # {}
  BY <1>1
<1>3. PICK v \in V : \A u \in V : v <= u
  <2> HIDE DEF V
  <2> QED
    BY <1>2, LeastNumber
<1>4. v \in 1 .. MaxScore /\ Cardinality(UpTo(b, v)) >= k
  OBVIOUS
<1>5. Cardinality(Below(b, v)) < k
  <2>1. CASE v = 1
    <3>1. Below(b, v) = {}
      BY <2>1 DEF Below
    <3> QED
      BY <3>1, FS_EmptySet
  <2>2. CASE v # 1
    <3>1. v - 1 \in 1 .. MaxScore /\ v - 1 \notin V
      BY <1>3, <1>4, <2>2
    <3>2. Below(b, v) = UpTo(b, v - 1)
      BY <1>4 DEF Below, UpTo
    <3>3. Cardinality(Below(b, v)) \in Nat
      BY PartsCount DEF Below
    <3> QED
      BY <3>1, <3>2, <3>3
  <2> QED
    BY <2>1, <2>2
<1> HIDE DEF V
<1>6. /\ Ranked(b, k) \in 1 .. MaxScore
      /\ Cardinality({m \in Scored(b) : b[m] < Ranked(b, k)}) < k
      /\ Cardinality({m \in Scored(b) : b[m] <= Ranked(b, k)}) >= k
  BY <1>4, <1>5 DEF Ranked, Below, UpTo
<1> QED
  BY <1>6 DEF Below, UpTo

\* Two elements or more leave one when any is taken away.
LEMMA Another ==
  ASSUME NEW S, IsFiniteSet(S), Cardinality(S) >= 2, NEW m
  PROVE  \E n \in S : n # m
<1>1. CASE S \subseteq {m}
  <2>1. IsFiniteSet({m}) /\ Cardinality({m}) = 1 /\ S \in SUBSET {m}
    BY <1>1, FS_Singleton
  <2>2. Cardinality(S) <= 1
    BY <2>1, FS_Subset
  <2> QED
    BY <2>2, FS_CardinalityType
<1> QED
  BY <1>1

LEMMA RoundedBetween ==
  ASSUME NEW lo \in Nat, NEW hi \in Nat, lo <= hi
  PROVE  HalfRounded(lo + hi) \in Nat /\ lo <= HalfRounded(lo + hi) /\ HalfRounded(lo + hi) <= hi
<1> DEFINE n == lo + hi
           d == n \div 2
<1>1. n \in Nat /\ d \in Nat /\ (n = 2 * d \/ n = 2 * d + 1) /\ (n % 2 = 0 <=> n = 2 * d)
  OBVIOUS
<1>2. HalfRounded(n) = d \/ (HalfRounded(n) = d + 1 /\ n # 2 * d)
  BY <1>1 DEF HalfRounded
<1> HIDE DEF d
<1> QED
  BY <1>1, <1>2

\* The middle ranks of three scores or more.
LEMMA MiddleRanks ==
  ASSUME NEW n \in Nat, n >= 3
  PROVE  /\ (n + 1) \div 2 \in 2 .. n /\ n \div 2 + 1 \in 2 .. n
         /\ (n + 1) \div 2 <= n \div 2 + 1
         /\ n - (n \div 2 + 1) >= 1
  OBVIOUS

\* statistics.median: with three scores or more, whatever one juror says, the panel's score lies
\* within those of the others.
THEOREM MedianIsRobust == Spec => []OutlierIsBounded
<1>1. ASSUME TypeOK PROVE OutlierIsBounded
  <2> SUFFICES ASSUME NEW j \in Judges, Cardinality(Scored(ballots[j])) >= 3,
                      NEW m \in Scored(ballots[j])
               PROVE  /\ \E n \in Scored(ballots[j]) \ {m} : ballots[j][n] <= Median(ballots[j])
                      /\ \E n \in Scored(ballots[j]) \ {m} : Median(ballots[j]) <= ballots[j][n]
    BY DEF OutlierIsBounded
  <2> DEFINE b  == ballots[j]
             n  == Cardinality(Scored(b))
             k1 == (n + 1) \div 2
             k2 == n \div 2 + 1
             lo == Ranked(b, k1)
             hi == Ranked(b, k2)
  <2>1. /\ IsFiniteSet(Scored(b)) /\ MaxScore \in Nat \ {0}
        /\ \A x \in Scored(b) : b[x] \in 1 .. MaxScore
    BY <1>1, PanelFacts
  <2>2. n \in Nat /\ n >= 3
    BY <2>1, FS_CardinalityType
  <2> HIDE DEF b
  <2>3. /\ k1 \in 2 .. n /\ k2 \in 2 .. n /\ k1 <= k2 /\ n - k2 >= 1
    <3> HIDE DEF n
    <3> QED
      BY <2>2, MiddleRanks
  <2> HIDE DEF k1, k2
  <2>4. /\ lo \in 1 .. MaxScore /\ Cardinality(Below(b, lo)) < k1
        /\ Cardinality(UpTo(b, lo)) >= k1
    BY <2>1, <2>2, <2>3, RankedIs
  <2>5. /\ hi \in 1 .. MaxScore /\ Cardinality(Below(b, hi)) < k2
        /\ Cardinality(UpTo(b, hi)) >= k2
    BY <2>1, <2>2, <2>3, RankedIs
  <2>6. Median(b) = HalfRounded(lo + hi)
    BY DEF Median, k1, k2
  <2> HIDE DEF lo, hi
  <2>7. lo <= hi
    <3> SUFFICES ASSUME ~(lo <= hi) PROVE FALSE
      OBVIOUS
    <3>1. UpTo(b, hi) \subseteq Below(b, lo) /\ Below(b, lo) \subseteq Scored(b)
      BY <2>1, <2>4, <2>5 DEF UpTo, Below
    <3>2. /\ Cardinality(UpTo(b, hi)) <= Cardinality(Below(b, lo))
          /\ Cardinality(UpTo(b, hi)) \in Nat /\ Cardinality(Below(b, lo)) \in Nat
      BY <2>1, <3>1, PartsCount
    <3> QED
      BY <2>2, <2>3, <2>4, <2>5, <3>2
  <2>8. Median(b) \in Nat /\ lo <= Median(b) /\ Median(b) <= hi
    BY <2>4, <2>5, <2>6, <2>7, RoundedBetween
  <2>9. \E x \in Scored(b) \ {m} : b[x] <= Median(b)
    <3>1. IsFiniteSet(UpTo(b, lo)) /\ Cardinality(UpTo(b, lo)) \in Nat
      BY <2>1, PartsCount DEF UpTo
    <3>2. Cardinality(UpTo(b, lo)) >= 2
      BY <2>2, <2>3, <2>4, <3>1
    <3>3. PICK x \in UpTo(b, lo) : x # m
      BY <3>1, <3>2, Another
    <3>4. x \in Scored(b) \ {m} /\ b[x] <= lo
      BY <3>3 DEF UpTo
    <3> QED
      BY <2>1, <2>4, <2>8, <3>4
  <2>10. \E x \in Scored(b) \ {m} : Median(b) <= b[x]
    <3> DEFINE T == Scored(b) \ Below(b, hi)
    <3>1. IsFiniteSet(T) /\ Cardinality(T) \in Nat /\ Cardinality(Below(b, hi)) \in Nat
      BY <2>1, PartsCount DEF Below
    <3>2. Cardinality(T) = n - Cardinality(Below(b, hi))
      <4>1. Scored(b) \cap Below(b, hi) = Below(b, hi)
        BY DEF Below
      <4> QED
        BY <2>1, <4>1, FS_Difference
    <3> HIDE DEF n
    <3>3. Cardinality(T) >= 2
      BY <2>2, <2>3, <2>5, <3>1, <3>2
    <3>4. PICK x \in T : x # m
      BY <3>1, <3>3, Another
    <3>5. x \in Scored(b) \ {m} /\ ~(b[x] < hi)
      BY <3>4 DEF Below
    <3> QED
      BY <2>1, <2>5, <2>8, <3>5
  <2> QED
    BY <2>9, <2>10 DEF b
<1> QED
  BY <1>1, TypeCorrect, PTL

=============================================================================
