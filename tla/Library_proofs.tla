--------------------------- MODULE Library_proofs ---------------------------
(***************************************************************************)
(* Proofs about Library for any clients, contents, editors, jobs and any   *)
(* finite set of files to seed from.                                       *)
(***************************************************************************)
EXTENDS Library, FiniteSetTheorems, SequenceTheorems, TLAPS

-----------------------------------------------------------------------------
(* The log: where the last save of a scope is, and what appending to the log does to it. *)

Entry == [scope : Scopes, content : Contents]

\* The i-th save is the last one of scope s.
IsLast(log, s, i) ==
    /\ i \in 1 .. Len(log)
    /\ log[i].scope = s
    /\ \A k \in 1 .. Len(log) : log[k].scope = s => k <= i

\* resolve_prompt finds the save that is the last one.
LEMMA LatestIsLast ==
  ASSUME NEW s, NEW i, versions \in Seq(Entry), IsLast(versions, s, i)
  PROVE  LatestVersion(s) = i
<1> DEFINE I == {k \in 1 .. Len(versions) : versions[k].scope = s}
<1>1. i \in I /\ \A k \in I : i >= k
  BY LenProperties DEF IsLast
<1>2. \A m \in I : (\A k \in I : m >= k) => m = i
  BY <1>1, LenProperties
<1>3. (CHOOSE m \in I : \A k \in I : m >= k) = i
  BY <1>1, <1>2
<1>4. LatestVersion(s) = IF I # {} THEN CHOOSE m \in I : \A k \in I : m >= k ELSE 0
  BY DEF LatestVersion, SelectLastInSeq, Max
<1> QED BY <1>1, <1>3, <1>4

\* One more save is the last one of its scope and leaves the last ones of the others.
LEMMA LastAfterAppend ==
  ASSUME NEW log \in Seq(Entry), NEW e \in Entry
  PROVE  /\ Append(log, e) \in Seq(Entry)
         /\ Len(Append(log, e)) = Len(log) + 1
         /\ \A i \in 1 .. Len(log) : Append(log, e)[i] = log[i]
         /\ Append(log, e)[Len(log) + 1] = e
         /\ IsLast(Append(log, e), e.scope, Len(log) + 1)
         /\ \A s, i : s # e.scope /\ IsLast(log, s, i) => IsLast(Append(log, e), s, i)
<1>1. /\ Append(log, e) \in Seq(Entry)
      /\ Len(log) \in Nat
      /\ Len(Append(log, e)) = Len(log) + 1
      /\ \A i \in 1 .. Len(log) : Append(log, e)[i] = log[i]
      /\ Append(log, e)[Len(log) + 1] = e
  BY LenProperties
<1> HIDE DEF Entry
<1>2. IsLast(Append(log, e), e.scope, Len(log) + 1)
  BY <1>1 DEF IsLast
<1>3. \A s, i : s # e.scope /\ IsLast(log, s, i) => IsLast(Append(log, e), s, i)
  BY <1>1 DEF IsLast
<1> QED BY <1>1, <1>2, <1>3

\* What the seeder logs: one save for each scope it imports.
Imported(S) == SetToSeq([scope : S, content : {SeedContent}])

LEMMA ImportedOnce ==
  ASSUME NEW S \in SUBSET SeedFiles
  PROVE  /\ Imported(S) \in Seq(Entry)
         /\ \A i \in 1 .. Len(Imported(S)) : /\ Imported(S)[i].scope \in S
                                             /\ Imported(S)[i].content = SeedContent
         /\ \A s \in S : \E i : IsLast(Imported(S), s, i)
<1> DEFINE R == [scope : S, content : {SeedContent}]
           q == Imported(S)
           f == [s \in S |-> [scope |-> s, content |-> SeedContent]]
<1>1. IsFiniteSet(R)
  <2>1. IsFiniteSet(S)
    BY LibraryAssumption, FS_Subset
  <2>2. f \in Bijection(S, R)
    <3>1. f \in [S -> R]
      OBVIOUS
    <3>2. \A a, b \in S : f[a] = f[b] => a = b
      <4> SUFFICES ASSUME NEW a \in S, NEW b \in S, f[a] = f[b] PROVE a = b
        OBVIOUS
      <4>1. f[a].scope = a /\ f[b].scope = b
        OBVIOUS
      <4> QED BY <4>1
    <3>3. \A r \in R : r.scope \in S /\ f[r.scope] = r
      OBVIOUS
    <3> QED BY <3>1, <3>2, <3>3 DEF Bijection, Injection, Surjection, IsInjective
  <2> QED BY <2>1, <2>2, FS_Bijection DEF ExistsBijection
<1> DEFINE n == Cardinality(R)
<1>2. n \in Nat /\ ExistsBijection(1 .. n, R)
  BY <1>1, FS_CardinalityType
<1>3. q \in [1 .. n -> R] /\ IsInjective(q)
  <2>1. \E g \in [1 .. n -> R] : IsInjective(g)
    BY <1>2 DEF ExistsBijection, Bijection, Injection, IsInjective
  <2>2. q = CHOOSE g \in [1 .. n -> R] : IsInjective(g)
    BY DEF Imported, SetToSeq
  <2> HIDE DEF n, q, R
  <2> QED BY <2>1, <2>2
<1>4. \A r \in R : \E i \in 1 .. n : q[i] = r
  <2>1. q \in Injection(1 .. n, R)
    BY <1>3 DEF Injection, IsInjective
  <2>2. Cardinality(1 .. n) = n
    BY <1>2, FS_Interval
  <2>3. q \in Surjection(1 .. n, R)
    BY <1>1, <2>1, <2>2, FS_Injection
  <2> QED BY <2>3 DEF Surjection
<1>5. R \subseteq Entry
  BY LibraryAssumption DEF Entry
<1>6. q \in Seq(R) /\ Len(q) = n
  <2> HIDE DEF q, n, R
  <2>1. n \in Nat /\ q \in [1 .. n -> R]
    BY <1>2, <1>3
  <2> QED BY <2>1
<1>7. q \in Seq(Entry)
  BY <1>5, <1>6, SeqMonotonic
<1>8. \A i \in 1 .. n : q[i].scope \in S /\ q[i].content = SeedContent
  BY <1>3
<1>9. ASSUME NEW s \in S PROVE \E i : IsLast(q, s, i)
  <2>1. PICK i \in 1 .. n : q[i] = [scope |-> s, content |-> SeedContent]
    BY <1>4
  <2>2. \A k \in 1 .. n : q[k].scope = s => q[k] = q[i]
    BY <1>3, <2>1
  <2>3. \A k \in 1 .. n : q[k].scope = s => k = i
    BY <1>3, <2>1, <2>2 DEF IsInjective
  <2>4. q[i].scope = s
    BY <2>1
  <2> HIDE DEF q, n
  <2> QED BY <1>2, <1>6, <2>3, <2>4 DEF IsLast
<1>10. \A i \in 1 .. Len(q) : q[i].scope \in S /\ q[i].content = SeedContent
  BY <1>6, <1>8
<1> QED BY <1>7, <1>9, <1>10

\* The log new has more than log: the last saves of the scopes S, whose files say SeedContent.
Imports(new, log, S) ==
    /\ new \in Seq(Entry)
    /\ Len(new) >= Len(log)
    /\ \A i \in 1 .. Len(log) : new[i] = log[i]
    /\ \A s \in S : \E i : IsLast(new, s, i) /\ new[i].content = SeedContent
    /\ \A s, i : s \notin S /\ IsLast(log, s, i) => IsLast(new, s, i)

\* The import has the last saves of its scopes and leaves those of the others.
LEMMA LastAfterImport ==
  ASSUME NEW log \in Seq(Entry), NEW S \in SUBSET SeedFiles
  PROVE  Imports(log \o Imported(S), log, S)
<1> DEFINE q   == Imported(S)
           new == log \o q
<1>1. /\ q \in Seq(Entry)
      /\ \A i \in 1 .. Len(q) : q[i].scope \in S /\ q[i].content = SeedContent
      /\ \A s \in S : \E i : IsLast(q, s, i)
  BY ImportedOnce
<1>2. /\ Len(log) \in Nat
      /\ Len(q) \in Nat
  BY <1>1, LenProperties
<1> HIDE DEF q
<1>3. /\ new \in Seq(Entry)
      /\ Len(new) = Len(log) + Len(q)
      /\ \A i \in 1 .. Len(log) + Len(q) :
            new[i] = IF i <= Len(log) THEN log[i] ELSE q[i - Len(log)]
  BY <1>1, ConcatProperties
<1> HIDE DEF new
<1>4. \A i \in 1 .. Len(log) : new[i] = log[i]
  BY <1>2, <1>3
<1>5. \A i \in Len(log) + 1 .. Len(new) : /\ i - Len(log) \in 1 .. Len(q)
                                          /\ new[i] = q[i - Len(log)]
  BY <1>2, <1>3
<1>6. ASSUME NEW s \in S PROVE \E i : IsLast(new, s, i) /\ new[i].content = SeedContent
  <2>1. PICK i : IsLast(q, s, i)
    BY <1>1
  <2>2. i \in 1 .. Len(q) /\ q[i].scope = s /\ q[i].content = SeedContent
    BY <1>1, <2>1 DEF IsLast
  <2>3. Len(log) + i \in Len(log) + 1 .. Len(new) /\ new[Len(log) + i] = q[i]
    <3>1. Len(log) + i \in Len(log) + 1 .. Len(new) /\ (Len(log) + i) - Len(log) = i
      BY <1>2, <1>3, <2>2
    <3> QED BY <1>5, <3>1
  <2>4. \A k \in 1 .. Len(new) : new[k].scope = s => k <= Len(log) + i
    <3> SUFFICES ASSUME NEW k \in 1 .. Len(new), new[k].scope = s, k > Len(log)
                 PROVE  k <= Len(log) + i
      BY <1>2, <1>3, <2>2
    <3>1. k - Len(log) \in 1 .. Len(q) /\ q[k - Len(log)].scope = s
      BY <1>2, <1>3, <1>5
    <3>2. k - Len(log) <= i
      BY <2>1, <3>1 DEF IsLast
    <3> QED BY <1>2, <1>3, <2>2, <3>2
  <2>5. IsLast(new, s, Len(log) + i)
    BY <1>2, <1>3, <2>2, <2>3, <2>4 DEF IsLast
  <2> QED BY <2>2, <2>3, <2>5
<1>7. ASSUME NEW s, NEW i, s \notin S, IsLast(log, s, i) PROVE IsLast(new, s, i)
  <2>1. \A k \in Len(log) + 1 .. Len(new) : new[k].scope # s
    BY <1>1, <1>5, <1>7
  <2>2. i \in 1 .. Len(new) /\ new[i].scope = s
    BY <1>2, <1>3, <1>4, <1>7 DEF IsLast
  <2>3. \A k \in 1 .. Len(new) : new[k].scope = s => k \in 1 .. Len(log) /\ log[k].scope = s
    BY <1>2, <1>3, <1>4, <2>1
  <2> QED BY <1>7, <2>2, <2>3 DEF IsLast
<1>8. new \in Seq(Entry) /\ Len(new) >= Len(log)
  BY <1>2, <1>3
<1>9. Imports(new, log, S)
  BY <1>4, <1>6, <1>7, <1>8 DEF Imports
<1> QED BY <1>9 DEF new, q

-----------------------------------------------------------------------------
(* The inductive invariant. *)

\* TypeOK but for what it says of the rows and the log, which follows from LogIsCurrent.
Typed ==
    /\ rows \in [Scopes -> Prompt \cup {NoRow}]
    /\ versions \in Seq(Entry)
    /\ epc \in [Editors -> {"new", "read", "done"}]
    /\ edit \in [Editors -> Edits]
    /\ found \in [Editors -> Prompt \cup {NoRow}]
    /\ spc \in {"read", "done", "rolledBack"}
    /\ unread \subseteq SeedFiles
    /\ sees \subseteq SeedFiles \ unread
    /\ jpc \in [Jobs -> {"new", "lookup", "version", "ran", "notFound"}]
    /\ owner \in [Jobs -> Clients]
    /\ picked \in [Jobs -> Scopes]
    /\ content \in [Jobs -> Contents]
    /\ moved \subseteq Jobs
    /\ overlap \subseteq Scopes
    /\ \A j \in Jobs : picked[j] \in {owner[j], Shared}

Versioned ==
    /\ version \in [Jobs -> Nat]
    /\ \A j \in Jobs : version[j] <= Len(versions)

\* A row that an editor read is still there, and what is archived was read.
EditsHaveRows ==
    \A e \in Editors :
        /\ found[e] # NoRow => rows[edit[e].scope] # NoRow
        /\ epc[e] = "read" /\ edit[e].op = "archive" => found[e] # NoRow

\* Between its two reads a job holds what the row says, until the prompt is saved: an
\* archived prompt keeps its content.
JobsHoldRows ==
    \A j \in Jobs : jpc[j] = "version" =>
        /\ rows[picked[j]] # NoRow
        /\ j \notin moved => content[j] = rows[picked[j]].content

\* Every row was saved, and where no edits overlapped the last save is what it says.
LogIsCurrent ==
    \A s \in Scopes : rows[s] # NoRow =>
        \E i : /\ IsLast(versions, s, i)
               /\ s \notin overlap => versions[i].content = rows[s].content

LInv == Typed /\ Versioned /\ EditsHaveRows /\ JobsHoldRows /\ LogIsCurrent /\ TraceIsExact

LEMMA NoRowIsNoPrompt == NoRow \notin Prompt
  BY LibraryAssumption DEF Prompt

LEMMA LInvInit == Init => LInv
<1> SUFFICES ASSUME Init PROVE LInv
  OBVIOUS
<1> USE LibraryAssumption DEF Init
<1>1. Typed /\ Versioned
  BY EmptySeq DEF Typed, Versioned, Scopes, None, Prompt
<1>2. EditsHaveRows /\ JobsHoldRows /\ LogIsCurrent /\ TraceIsExact
  BY DEF EditsHaveRows, JobsHoldRows, LogIsCurrent, TraceIsExact
<1> QED BY <1>1, <1>2 DEF LInv

\* A trace that is there stays as the log grows.
LEMMA TraceStays ==
  ASSUME LInv, versions' \in Seq(Entry), Len(versions') >= Len(versions),
         \A i \in 1 .. Len(versions) : versions'[i] = versions[i],
         UNCHANGED jobVars, moved \subseteq moved', overlap \subseteq overlap'
  PROVE  TraceIsExact' /\ \A j \in Jobs : version'[j] \in Nat /\ version'[j] <= Len(versions')
<1>1. /\ Len(versions) \in Nat /\ Len(versions') \in Nat
      /\ \A j \in Jobs : version[j] \in Nat /\ version[j] <= Len(versions)
  BY LenProperties DEF LInv, Typed, Versioned
<1>2. \A j \in Jobs : Traced(j) => Traced(j)'
  BY <1>1 DEF Traced, None, jobVars
<1> QED BY <1>1, <1>2 DEF LInv, TraceIsExact, jobVars

LEMMA TypeFromParts == LInv => TypeOK
<1> SUFFICES ASSUME LInv PROVE TypeOK
  OBVIOUS
<1>1. DOMAIN versions = 1 .. Len(versions)
  BY LenProperties DEF LInv, Typed
<1>2. \A s \in Scopes : rows[s] # NoRow => \E i \in DOMAIN versions : versions[i].scope = s
  BY <1>1 DEF LInv, LogIsCurrent, IsLast
<1> QED BY <1>2 DEF LInv, Typed, Versioned, TypeOK, Entry

-----------------------------------------------------------------------------
(* Every step preserves it. *)

LEMMA SaveStep ==
  ASSUME LInv, NEW e \in Editors, Save(e)
  PROVE  LInv'
<1> DEFINE s == edit[e].scope
           c == edit[e].content
           want == [content |-> c, archived |-> FALSE]
<1>1. Typed /\ Versioned
  BY DEF LInv
<1>2. s \in Scopes /\ c \in Contents /\ want \in Prompt
  BY <1>1, LibraryAssumption DEF Typed, Edits, Prompt
<1>3. CASE found[e] = NoRow /\ rows[s] # NoRow
  <2>1. UNCHANGED <<rowVars, histVars, edit, found, seedVars, jobVars>>
        /\ epc' = [epc EXCEPT ![e] = "done"]
    BY <1>3 DEF Save
  <2>2. (Typed /\ Versioned)'
    BY <1>1, <2>1 DEF Typed, Versioned, rowVars, histVars, seedVars, jobVars
  <2>3. EditsHaveRows'
    BY <1>1, <2>1 DEF LInv, Typed, EditsHaveRows, rowVars
  <2>4. (JobsHoldRows /\ LogIsCurrent /\ TraceIsExact)'
    BY <2>1 DEF LInv, JobsHoldRows, LogIsCurrent, TraceIsExact, Traced, rowVars, histVars,
       jobVars
  <2> QED BY <2>2, <2>3, <2>4 DEF LInv
<1>4. CASE ~(found[e] = NoRow /\ rows[s] # NoRow)
  <2> DEFINE row == IF rows[s] = NoRow THEN want ELSE Updated(rows[s], found[e], want)
  <2>1. /\ rows' = [rows EXCEPT ![s] = row]
        /\ versions' = Append(versions, [scope |-> s, content |-> c])
        /\ moved' = moved \cup Between({s})
        /\ overlap' = IF rows[s] # found[e] THEN overlap \cup {s} ELSE overlap
        /\ epc' = [epc EXCEPT ![e] = "done"]
        /\ UNCHANGED <<edit, found, seedVars, jobVars>>
    BY <1>4 DEF Save, Logged
  <2>2. row \in Prompt /\ row # NoRow
    <3>1. Updated(rows[s], found[e], want) \in Prompt \/ rows[s] = NoRow
      BY <1>1, <1>2, <1>4 DEF Typed, Updated, Prompt
    <3> QED BY <1>2, <3>1, NoRowIsNoPrompt
  <2>3. rows[s] = found[e] => row.content = c
    BY <1>4 DEF Updated
  <2>4. [scope |-> s, content |-> c] \in Entry
    BY <1>2 DEF Entry
  <2>5. /\ versions' \in Seq(Entry)
        /\ Len(versions') = Len(versions) + 1
        /\ \A i \in 1 .. Len(versions) : versions'[i] = versions[i]
        /\ versions'[Len(versions) + 1] = [scope |-> s, content |-> c]
        /\ IsLast(versions', s, Len(versions) + 1)
        /\ \A t, i : t # s /\ IsLast(versions, t, i) => IsLast(versions', t, i)
    BY <1>1, <2>1, <2>4, LastAfterAppend DEF Typed
  <2> HIDE DEF row, s, c, want
  <2>6. \A t \in Scopes : rows'[t] = IF t = s THEN row ELSE rows[t]
    BY <1>1, <1>2, <2>1 DEF Typed
  <2>7. Typed'
    <3>1. rows' \in [Scopes -> Prompt \cup {NoRow}]
      BY <1>1, <1>2, <2>1, <2>2 DEF Typed
    <3>2. moved' \subseteq Jobs /\ overlap' \subseteq Scopes
      BY <1>1, <1>2, <2>1 DEF Typed, Between
    <3> QED BY <1>1, <2>1, <2>5, <3>1, <3>2 DEF Typed, seedVars, jobVars
  <2>8. LogIsCurrent'
    <3> SUFFICES ASSUME NEW t \in Scopes, rows'[t] # NoRow
                 PROVE  \E i : /\ IsLast(versions', t, i)
                               /\ t \notin overlap' => versions'[i].content = rows'[t].content
      BY DEF LogIsCurrent
    <3>1. CASE t = s
      BY <2>1, <2>3, <2>5, <2>6, <3>1
    <3>2. CASE t # s
      <4>1. PICK i : /\ IsLast(versions, t, i)
                     /\ t \notin overlap => versions[i].content = rows[t].content
        BY <2>6, <3>2 DEF LInv, LogIsCurrent
      <4>2. versions'[i] = versions[i]
        BY <2>5, <4>1 DEF IsLast
      <4> QED BY <2>1, <2>5, <2>6, <3>2, <4>1, <4>2
    <3> QED BY <3>1, <3>2
  <2>9. Versioned' /\ TraceIsExact'
    <3>1. Len(versions) \in Nat
      BY <1>1, LenProperties DEF Typed
    <3>2. Len(versions') >= Len(versions) /\ moved \subseteq moved' /\ overlap \subseteq overlap'
      BY <2>1, <2>5, <3>1
    <3> QED BY <1>1, <2>1, <2>5, <3>2, TraceStays DEF Versioned, jobVars
  <2>10. EditsHaveRows'
    BY <1>1, <2>1, <2>2, <2>6 DEF LInv, Typed, EditsHaveRows, Edits
  <2>11. JobsHoldRows'
    <3> SUFFICES ASSUME NEW j \in Jobs, jpc[j] = "version"
                 PROVE  /\ rows'[picked[j]] # NoRow
                        /\ j \notin moved' => content[j] = rows'[picked[j]].content
      BY <2>1 DEF JobsHoldRows, jobVars
    <3>1. picked[j] \in Scopes
      BY <1>1 DEF Typed
    <3>2. j \notin moved' => picked[j] # s /\ j \notin moved
      BY <2>1 DEF Between
    <3> QED BY <2>2, <2>6, <3>1, <3>2 DEF LInv, JobsHoldRows
  <2> QED BY <2>7, <2>8, <2>9, <2>10, <2>11 DEF LInv
<1> QED BY <1>3, <1>4

LEMMA ArchiveStep ==
  ASSUME LInv, NEW e \in Editors, Archive(e)
  PROVE  LInv'
<1> DEFINE s == edit[e].scope
           want == [content |-> found[e].content, archived |-> TRUE]
           row == Updated(rows[s], found[e], want)
<1>1. Typed /\ Versioned
  BY DEF LInv
<1>2. /\ rows' = [rows EXCEPT ![s] = row]
      /\ overlap' = IF rows[s] # found[e] THEN overlap \cup {s} ELSE overlap
      /\ epc' = [epc EXCEPT ![e] = "done"]
      /\ UNCHANGED <<versions, edit, found, seedVars, jobVars, moved>>
  BY DEF Archive
<1>3. s \in Scopes
  BY <1>1 DEF Typed, Edits
<1>4. found[e] # NoRow /\ rows[s] # NoRow /\ rows[s] \in Prompt
  BY <1>1, <1>3 DEF Archive, LInv, Typed, EditsHaveRows
<1>5. row \in Prompt /\ row # NoRow /\ row.content = rows[s].content
  <2>1. row.content = rows[s].content
    BY DEF Updated
  <2>2. row \in Prompt
    BY <1>4 DEF Updated, Prompt
  <2> QED BY <2>1, <2>2, NoRowIsNoPrompt
<1> HIDE DEF row, s, want
<1>6. \A t \in Scopes : rows'[t] = IF t = s THEN row ELSE rows[t]
  BY <1>1, <1>2, <1>3 DEF Typed
<1>7. Typed' /\ Versioned'
  <2>1. rows' \in [Scopes -> Prompt \cup {NoRow}] /\ overlap' \subseteq Scopes
    BY <1>1, <1>2, <1>3, <1>5 DEF Typed
  <2> QED BY <1>1, <1>2, <2>1 DEF Typed, Versioned, seedVars, jobVars
<1>8. LogIsCurrent'
  <2> SUFFICES ASSUME NEW t \in Scopes, rows'[t] # NoRow
               PROVE  \E i : /\ IsLast(versions, t, i)
                             /\ t \notin overlap' => versions[i].content = rows'[t].content
    BY <1>2 DEF LogIsCurrent
  <2>1. rows[t] # NoRow /\ rows'[t].content = rows[t].content
    BY <1>4, <1>5, <1>6
  <2> QED BY <1>2, <2>1 DEF LInv, LogIsCurrent
<1>9. EditsHaveRows'
  BY <1>1, <1>2, <1>5, <1>6 DEF LInv, Typed, EditsHaveRows, Edits
<1>10. JobsHoldRows'
  <2> SUFFICES ASSUME NEW j \in Jobs, jpc[j] = "version"
               PROVE  /\ rows'[picked[j]] # NoRow
                      /\ j \notin moved => content[j] = rows'[picked[j]].content
    BY <1>2 DEF JobsHoldRows, jobVars
  <2>1. picked[j] \in Scopes
    BY <1>1 DEF Typed
  <2> QED BY <1>5, <1>6, <2>1 DEF LInv, JobsHoldRows
<1>11. TraceIsExact'
  BY <1>2 DEF LInv, TraceIsExact, Traced, jobVars
<1> QED BY <1>7, <1>8, <1>9, <1>10, <1>11 DEF LInv

LEMMA SeedWriteStep ==
  ASSUME LInv, SeedWrite
  PROVE  LInv'
<1>1. Typed /\ Versioned
  BY DEF LInv
<1>2. CASE \E s \in sees : rows[s] # NoRow
  <2>1. /\ UNCHANGED <<rowVars, unread, sees, editVars, jobVars, histVars>>
        /\ spc' = "rolledBack"
    BY <1>2 DEF SeedWrite
  <2>2. (Typed /\ Versioned)'
    BY <1>1, <2>1 DEF Typed, Versioned, rowVars, histVars, editVars, jobVars
  <2>3. (EditsHaveRows /\ JobsHoldRows /\ LogIsCurrent /\ TraceIsExact)'
    BY <2>1 DEF LInv, EditsHaveRows, JobsHoldRows, LogIsCurrent, TraceIsExact, Traced,
       rowVars, histVars, editVars, jobVars
  <2> QED BY <2>2, <2>3 DEF LInv
<1>3. CASE ~\E s \in sees : rows[s] # NoRow
  <2> DEFINE new == [content |-> SeedContent, archived |-> FALSE]
  <2>1. /\ rows' = [s \in Scopes |-> IF s \in sees THEN new ELSE rows[s]]
        /\ versions' = versions \o Imported(sees)
        /\ spc' = "done"
        /\ UNCHANGED <<unread, sees, editVars, jobVars, histVars>>
    BY <1>3 DEF SeedWrite, Imported
  <2>2. sees \in SUBSET SeedFiles /\ sees \subseteq Scopes
    BY <1>1, LibraryAssumption DEF Typed
  <2>3. /\ versions' \in Seq(Entry)
        /\ Len(versions') >= Len(versions)
        /\ \A i \in 1 .. Len(versions) : versions'[i] = versions[i]
        /\ \A s \in sees : \E i : IsLast(versions', s, i) /\ versions'[i].content = SeedContent
        /\ \A s, i : s \notin sees /\ IsLast(versions, s, i) => IsLast(versions', s, i)
    <3>1. versions \in Seq(Entry)
      BY <1>1 DEF Typed
    <3>2. Imports(versions', versions, sees)
      BY <2>1, <2>2, <3>1, LastAfterImport
    <3> QED BY <3>2 DEF Imports
  <2>4. new \in Prompt /\ new # NoRow /\ new.content = SeedContent
    <3>1. new \in Prompt
      BY LibraryAssumption DEF Prompt
    <3> QED BY <3>1, NoRowIsNoPrompt
  <2> HIDE DEF new
  <2>5. Typed'
    <3>1. rows' \in [Scopes -> Prompt \cup {NoRow}]
      BY <1>1, <2>1, <2>4 DEF Typed
    <3> QED BY <1>1, <2>1, <2>3, <3>1 DEF Typed, editVars, jobVars, histVars
  <2>6. LogIsCurrent'
    <3> SUFFICES ASSUME NEW t \in Scopes, rows'[t] # NoRow
                 PROVE  \E i : /\ IsLast(versions', t, i)
                               /\ t \notin overlap' => versions'[i].content = rows'[t].content
      BY DEF LogIsCurrent
    <3>1. CASE t \in sees
      BY <2>1, <2>3, <2>4, <3>1
    <3>2. CASE t \notin sees
      <4>1. rows'[t] = rows[t]
        BY <2>1, <3>2
      <4>2. PICK i : /\ IsLast(versions, t, i)
                     /\ t \notin overlap => versions[i].content = rows[t].content
        BY <4>1 DEF LInv, LogIsCurrent
      <4>3. versions'[i] = versions[i]
        BY <2>3, <4>2 DEF IsLast
      <4> QED BY <2>1, <2>3, <3>2, <4>1, <4>2, <4>3 DEF histVars
    <3> QED BY <3>1, <3>2
  <2>7. Versioned' /\ TraceIsExact'
    BY <1>1, <2>1, <2>3, TraceStays DEF Versioned, jobVars, histVars
  <2>8. EditsHaveRows'
    BY <1>1, <2>1, <2>4 DEF LInv, Typed, EditsHaveRows, Edits, editVars
  <2>9. JobsHoldRows'
    <3> SUFFICES ASSUME NEW j \in Jobs, jpc[j] = "version"
                 PROVE  /\ rows'[picked[j]] # NoRow
                        /\ j \notin moved => content[j] = rows'[picked[j]].content
      BY <2>1 DEF JobsHoldRows, jobVars, histVars
    <3>1. picked[j] \in Scopes /\ picked[j] \notin sees
      BY <1>1, <1>3 DEF Typed, LInv, JobsHoldRows
    <3> QED BY <2>1, <3>1 DEF LInv, JobsHoldRows
  <2> QED BY <2>5, <2>6, <2>7, <2>8, <2>9 DEF LInv
<1> QED BY <1>2, <1>3

\* The steps that write neither a row nor the log.
LEMMA ReadStep ==
  ASSUME LInv,
         \/ \E e \in Editors : ReadPrompt(e)
         \/ \E s \in SeedFiles : SeedRead(s)
         \/ \E j \in Jobs : Arrive(j) \/ LookUp(j) \/ ReadVersion(j)
         \/ UNCHANGED vars
  PROVE  LInv'
<1>1. Typed /\ Versioned
  BY DEF LInv
<1>2. /\ UNCHANGED <<rows, versions, moved, overlap>>
      /\ LogIsCurrent'
  BY DEF LInv, LogIsCurrent, ReadPrompt, SeedRead, Arrive, LookUp, ReadVersion, rowVars,
     histVars, vars
<1>3. ASSUME NEW e \in Editors, ReadPrompt(e) PROVE LInv'
  <2>1. edit[e].scope \in Scopes
    BY <1>1 DEF Typed, Edits
  <2>2. (Typed /\ Versioned)'
    BY <1>1, <1>3, <2>1 DEF ReadPrompt, Typed, Versioned, rowVars, seedVars, jobVars, histVars
  <2>3. EditsHaveRows'
    BY <1>1, <1>2, <1>3 DEF ReadPrompt, Typed, LInv, EditsHaveRows
  <2>4. (JobsHoldRows /\ TraceIsExact)'
    BY <1>2, <1>3 DEF ReadPrompt, LInv, JobsHoldRows, TraceIsExact, Traced, jobVars
  <2> QED BY <1>2, <2>2, <2>3, <2>4 DEF LInv
<1>4. ASSUME NEW s \in SeedFiles, SeedRead(s) PROVE LInv'
  <2>1. (Typed /\ Versioned)'
    BY <1>1, <1>4 DEF SeedRead, Typed, Versioned, rowVars, editVars, jobVars, histVars
  <2>2. (EditsHaveRows /\ JobsHoldRows /\ TraceIsExact)'
    BY <1>2, <1>4 DEF SeedRead, LInv, EditsHaveRows, JobsHoldRows, TraceIsExact, Traced,
       editVars, jobVars
  <2> QED BY <1>2, <2>1, <2>2 DEF LInv
<1>5. ASSUME NEW j \in Jobs, Arrive(j) PROVE LInv'
  <2>1. (Typed /\ Versioned)'
    BY <1>1, <1>5 DEF Arrive, Typed, Versioned, rowVars, editVars, seedVars, histVars
  <2>2. EditsHaveRows'
    BY <1>2, <1>5 DEF Arrive, LInv, EditsHaveRows, editVars
  <2>3. (JobsHoldRows /\ TraceIsExact)'
    BY <1>1, <1>2, <1>5 DEF Arrive, Typed, LInv, JobsHoldRows, TraceIsExact, Traced
  <2> QED BY <1>2, <2>1, <2>2, <2>3 DEF LInv
<1>6. ASSUME NEW j \in Jobs, LookUp(j) PROVE LInv'
  <2>1. Live(picked[j]) => rows[picked[j]] \in Prompt
    BY <1>1 DEF Typed, Live
  <2>2. (Typed /\ Versioned)'
    BY <1>1, <1>6, <2>1 DEF LookUp, Typed, Versioned, Prompt, Scopes, rowVars, editVars,
       seedVars, histVars
  <2>3. EditsHaveRows'
    BY <1>2, <1>6 DEF LookUp, LInv, EditsHaveRows, editVars
  <2>4. JobsHoldRows'
    BY <1>1, <1>2, <1>6 DEF LookUp, Live, Typed, LInv, JobsHoldRows
  <2>5. TraceIsExact'
    BY <1>1, <1>2, <1>6 DEF LookUp, Typed, LInv, TraceIsExact, Traced
  <2> QED BY <1>2, <2>2, <2>3, <2>4, <2>5 DEF LInv
<1>7. ASSUME NEW j \in Jobs, ReadVersion(j) PROVE LInv'
  <2> DEFINE s == picked[j]
  <2>1. s \in Scopes /\ rows[s] # NoRow /\ (j \notin moved => content[j] = rows[s].content)
    BY <1>1, <1>7 DEF ReadVersion, Typed, LInv, JobsHoldRows
  <2>2. PICK i : /\ IsLast(versions, s, i)
                 /\ s \notin overlap => versions[i].content = rows[s].content
    BY <2>1 DEF LInv, LogIsCurrent
  <2>3. version' = [version EXCEPT ![j] = i]
    BY <1>1, <1>7, <2>2, LatestIsLast DEF ReadVersion, Typed
  <2>4. i \in Nat /\ i # None /\ i <= Len(versions)
    BY <1>1, <2>2, LenProperties DEF IsLast, Typed, None
  <2>5. (Typed /\ Versioned)'
    BY <1>1, <1>7, <2>3, <2>4 DEF ReadVersion, Typed, Versioned, rowVars, editVars, seedVars,
       histVars
  <2>6. EditsHaveRows'
    BY <1>2, <1>7 DEF ReadVersion, LInv, EditsHaveRows, editVars
  <2>7. JobsHoldRows'
    BY <1>1, <1>2, <1>7 DEF ReadVersion, Typed, LInv, JobsHoldRows
  <2>8. TraceIsExact'
    BY <1>1, <1>2, <1>7, <2>1, <2>2, <2>3, <2>4 DEF ReadVersion, Typed, Versioned, LInv,
       TraceIsExact, Traced
  <2> QED BY <1>2, <2>5, <2>6, <2>7, <2>8 DEF LInv
<1>8. CASE UNCHANGED vars
  <2>1. (Typed /\ Versioned)'
    BY <1>1, <1>8 DEF vars, Typed, Versioned, rowVars, editVars, seedVars, jobVars, histVars
  <2>2. (EditsHaveRows /\ JobsHoldRows /\ TraceIsExact)'
    BY <1>2, <1>8 DEF vars, LInv, EditsHaveRows, JobsHoldRows, TraceIsExact, Traced,
       editVars, jobVars
  <2> QED BY <1>2, <2>1, <2>2 DEF LInv
<1> QED BY <1>3, <1>4, <1>5, <1>6, <1>7, <1>8

LEMMA LInvStep == LInv /\ [Next]_vars => LInv'
  BY SaveStep, ArchiveStep, SeedWriteStep, ReadStep DEF Next

LEMMA Invariance == Spec => []LInv
  BY LInvInit, LInvStep, PTL DEF Spec

-----------------------------------------------------------------------------
(* What follows from it. *)

\* Rows, log, editors, seeder and jobs keep to their ranges; every row was saved at least
\* once, and a version that a job recorded is one of the log.
THEOREM TypeCorrect == Spec => []TypeOK
  BY Invariance, TypeFromParts, PTL

\* However saves, archivings, the import and the two reads of the jobs interleave, the
\* version that a job recorded says what the job ran with, unless its prompt was saved
\* between its reads or two edits of that scope overlapped.
THEOREM TraceHolds == Spec => []TraceIsExact
<1>1. LInv => TraceIsExact
  BY DEF LInv
<1> QED BY Invariance, <1>1, PTL

=============================================================================
