------------------------------ MODULE Library ------------------------------
(***************************************************************************)
(* The prompt library: one task type, its shared prompt, the overrides of  *)
(* the clients and the log of all saves.  Administrators save and archive  *)
(* prompts, the seeder imports files, and jobs resolve the prompt they run *)
(* with and record the version they found.                                 *)
(*                                                                         *)
(* One action is one query or one commit.  Postgres is READ COMMITTED, and *)
(* the ORM writes what it knows to have changed: a column that is set to   *)
(* the value it was read with is not part of the UPDATE.                   *)
(***************************************************************************)
EXTENDS Integers, Sequences, SequencesExt

CONSTANTS
    Clients,     \* the client apps
    Shared,      \* the scope of the default prompt: client_id IS NULL
    Contents,    \* what a prompt may say
    Editors,     \* requests of administrators, each of which saves or archives once
    Jobs,        \* jobs without a system_prompt of their own
    SeedFiles,   \* the scopes that prompts/ has a file for
    SeedContent, \* what those files say
    NoRow        \* a scope without a row

Scopes == Clients \cup {Shared}

ASSUME LibraryAssumption ==
    /\ Shared \notin Clients
    /\ SeedFiles \subseteq Scopes
    /\ IsFiniteSet(SeedFiles)
    /\ SeedContent \in Contents
    /\ NoRow \notin [content : Contents, archived : BOOLEAN]

Prompt == [content : Contents, archived : BOOLEAN]

Edits == [op : {"put"}, scope : Scopes, content : Contents]
         \cup [op : {"archive"}, scope : Scopes, content : {SeedContent}]

VARIABLES
    rows,      \* prompts: the row of each scope
    versions,  \* prompt_versions: the saves, the newest last; an id is a position
    epc,       \* editors: where each stands,
    edit,      \*   what it is to do,
    found,     \*   and the row it read
    spc,       \* the seeder: where it stands,
    unread,    \*   the files it has not come to,
    sees,      \*   and the scopes it found no row for
    jpc,       \* jobs: where each stands,
    owner,     \*   its client,
    picked,    \*   the scope it resolves to, or the one it looks up next,
    content,   \*   what it runs with,
    version,   \*   the version it records
    moved,     \* history: the jobs whose prompt was saved between their two reads
    overlap    \* history: the scopes on which an edit met another row than it had read

rowVars  == <<rows, versions>>
editVars == <<epc, edit, found>>
seedVars == <<spc, unread, sees>>
jobVars  == <<jpc, owner, picked, content, version>>
histVars == <<moved, overlap>>
vars     == <<rowVars, editVars, seedVars, jobVars, histVars>>

None == 0

TypeOK ==
    /\ rows \in [Scopes -> Prompt \cup {NoRow}]
    /\ versions \in Seq([scope : Scopes, content : Contents])
    /\ epc \in [Editors -> {"new", "read", "done"}]
    /\ edit \in [Editors -> Edits]
    /\ found \in [Editors -> Prompt \cup {NoRow}]
    /\ spc \in {"read", "done", "rolledBack"}
    /\ unread \subseteq SeedFiles
    /\ sees \subseteq SeedFiles \ unread
    /\ jpc \in [Jobs -> {"new", "lookup", "version", "ran", "notFound"}]
    /\ owner \in [Jobs -> Clients]
    /\ picked \in [Jobs -> Scopes]
    /\ content \in [Jobs -> Contents]
    /\ version \in [Jobs -> Nat]
    /\ moved \subseteq Jobs
    /\ overlap \subseteq Scopes
    /\ \A s \in Scopes : rows[s] # NoRow => \E i \in DOMAIN versions : versions[i].scope = s
    /\ \A j \in Jobs : picked[j] \in {owner[j], Shared}
    /\ \A j \in Jobs : version[j] <= Len(versions)

Init ==
    /\ rows = [s \in Scopes |-> NoRow]
    /\ versions = <<>>
    /\ epc = [e \in Editors |-> "new"]
    /\ edit \in [Editors -> Edits]
    /\ found = [e \in Editors |-> NoRow]
    /\ spc = "read"
    /\ unread = SeedFiles
    /\ sees = {}
    /\ jpc = [j \in Jobs |-> "new"]
    /\ owner \in [Jobs -> Clients]
    /\ picked = owner
    /\ content = [j \in Jobs |-> SeedContent]
    /\ version = [j \in Jobs |-> None]
    /\ moved = {}
    /\ overlap = {}

-----------------------------------------------------------------------------
(* upsert_prompt and archive_prompt. *)

Live(s) == rows[s] # NoRow /\ ~rows[s].archived

\* The jobs that have read a prompt of one of the scopes S and not yet its version.
Between(S) == {j \in Jobs : jpc[j] = "version" /\ picked[j] \in S}

\* Archiving what has no row is a 404.
ReadPrompt(e) ==
    /\ epc[e] = "new"
    /\ found' = [found EXCEPT ![e] = rows[edit[e].scope]]
    /\ epc' = [epc EXCEPT ![e] =
                 IF edit[e].op = "archive" /\ rows[edit[e].scope] = NoRow THEN "done" ELSE "read"]
    /\ UNCHANGED <<rowVars, edit, seedVars, jobVars, histVars>>

\* The UPDATE sets the columns whose value is another than the one that was read.
Updated(row, read, want) ==
    [content  |-> IF want.content = read.content THEN row.content ELSE want.content,
     archived |-> IF want.archived = read.archived THEN row.archived ELSE want.archived]

Logged(s, c) == Append(versions, [scope |-> s, content |-> c])

\* A save creates the row or revives and changes it, and is logged in the same commit.  If
\* somebody else created it meanwhile the unique index refuses this save.
Save(e) ==
    LET s == edit[e].scope
        want == [content |-> edit[e].content, archived |-> FALSE]
    IN
    /\ epc[e] = "read"
    /\ edit[e].op = "put"
    /\ epc' = [epc EXCEPT ![e] = "done"]
    /\ IF found[e] = NoRow /\ rows[s] # NoRow
       THEN UNCHANGED <<rowVars, histVars>>
       ELSE /\ rows' = [rows EXCEPT ![s] =
                          IF rows[s] = NoRow THEN want ELSE Updated(rows[s], found[e], want)]
            /\ versions' = Logged(s, edit[e].content)
            /\ moved' = moved \cup Between({s})
            /\ overlap' = IF rows[s] # found[e] THEN overlap \cup {s} ELSE overlap
    /\ UNCHANGED <<edit, found, seedVars, jobVars>>

\* Archiving keeps the content, and the log does not know of it.
Archive(e) ==
    LET s == edit[e].scope
        want == [content |-> found[e].content, archived |-> TRUE]
    IN
    /\ epc[e] = "read"
    /\ edit[e].op = "archive"
    /\ epc' = [epc EXCEPT ![e] = "done"]
    /\ rows' = [rows EXCEPT ![s] = Updated(rows[s], found[e], want)]
    /\ overlap' = IF rows[s] # found[e] THEN overlap \cup {s} ELSE overlap
    /\ UNCHANGED <<versions, edit, found, seedVars, jobVars, moved>>

-----------------------------------------------------------------------------
(* The seeder imports, in one transaction, the files whose scope has no row; an archived  *)
(* row is a row.                                                                          *)

SeedRead(s) ==
    /\ spc = "read"
    /\ s \in unread
    /\ unread' = unread \ {s}
    /\ sees' = IF rows[s] = NoRow THEN sees \cup {s} ELSE sees
    /\ UNCHANGED <<rowVars, editVars, spc, jobVars, histVars>>

\* Mutant: the files are imported and the log is not begun.
SeedWriteUnlogged ==
    /\ spc = "read"
    /\ unread = {}
    /\ IF \E s \in sees : rows[s] # NoRow
       THEN spc' = "rolledBack" /\ UNCHANGED rowVars
       ELSE /\ spc' = "done"
            /\ rows' = [s \in Scopes |-> IF s \in sees THEN [content |-> SeedContent, archived |-> FALSE]
                                                       ELSE rows[s]]
            /\ UNCHANGED versions
    /\ UNCHANGED <<unread, sees, editVars, jobVars, histVars>>

\* The unique index refuses the whole import if one of the rows exists by now.
SeedWrite ==
    /\ spc = "read"
    /\ unread = {}
    /\ IF \E s \in sees : rows[s] # NoRow
       THEN spc' = "rolledBack" /\ UNCHANGED rowVars
       ELSE /\ spc' = "done"
            /\ rows' = [s \in Scopes |-> IF s \in sees THEN [content |-> SeedContent, archived |-> FALSE]
                                                       ELSE rows[s]]
            /\ versions' = versions \o SetToSeq([scope : sees, content : {SeedContent}])
    /\ UNCHANGED <<unread, sees, editVars, jobVars, histVars>>

-----------------------------------------------------------------------------
(* resolve_prompt: the override of the client, then the default; then the latest version. *)

Arrive(j) ==
    /\ jpc[j] = "new"
    /\ jpc' = [jpc EXCEPT ![j] = "lookup"]
    /\ UNCHANGED <<rowVars, editVars, seedVars, owner, picked, content, version, histVars>>

\* An archived prompt is as good as none.
LookUp(j) ==
    LET s == picked[j] IN
    /\ jpc[j] = "lookup"
    /\ IF Live(s)
       THEN /\ content' = [content EXCEPT ![j] = rows[s].content]
            /\ jpc' = [jpc EXCEPT ![j] = "version"]
            /\ UNCHANGED picked
       ELSE /\ jpc' = [jpc EXCEPT ![j] = IF s = Shared THEN "notFound" ELSE "lookup"]
            /\ picked' = [picked EXCEPT ![j] = Shared]
            /\ UNCHANGED content
    /\ UNCHANGED <<rowVars, editVars, seedVars, owner, version, histVars>>

\* Mutant: the latest version of the task type, of whichever client it is.
LatestVersionOfAny(s) == Len(versions)

\* The position of the last save of the scope.
LatestVersion(s) == SelectLastInSeq(versions, LAMBDA v : v.scope = s)

ReadVersion(j) ==
    /\ jpc[j] = "version"
    /\ version' = [version EXCEPT ![j] = LatestVersion(picked[j])]
    /\ jpc' = [jpc EXCEPT ![j] = "ran"]
    /\ UNCHANGED <<rowVars, editVars, seedVars, owner, picked, content, histVars>>

-----------------------------------------------------------------------------

Next ==
    \/ \E e \in Editors : ReadPrompt(e) \/ Save(e) \/ Archive(e)
    \/ (\E s \in SeedFiles : SeedRead(s)) \/ SeedWrite
    \/ \E j \in Jobs : Arrive(j) \/ LookUp(j) \/ ReadVersion(j)

Spec == Init /\ [][Next]_vars

-----------------------------------------------------------------------------
(* What holds of the trace from a job to the prompt it ran with. *)

Traced(j) == version[j] # None /\ versions[version[j]].content = content[j]

\* The version that a job records says what the job ran with, unless the prompt was saved
\* between its two reads or an edit had overlapped with another one: edits one after the
\* other, archiving, reviving and seeding never break the trace.
TraceIsExact ==
    \A j \in Jobs : jpc[j] = "ran" => Traced(j) \/ j \in moved \/ picked[j] \in overlap

=============================================================================
