------------------------------ MODULE CodeIndex ------------------------------
(***************************************************************************)
(* The code index (rag.py): a SQLite file beside the project that every    *)
(* program open on it builds when it starts (bootstrap.py) and again after *)
(* a tool batch that reports changed files (IndexRefreshingToolGateway).   *)
(* A build lists the files, reads the hashes the index has, reads the      *)
(* files, and writes what differs in one transaction; only the two         *)
(* accesses to the database are under the index's lock.                    *)
(*                                                                         *)
(* A file is its content, or "absent"; the index has the content a file's  *)
(* rows were made of (a hash is taken for what it hashes).  Which of the   *)
(* chunks a query matches, and in which order, is left out.                *)
(***************************************************************************)
EXTENDS Naturals, Sequences, FiniteSets

CONSTANTS
    Programs,       \* the programs open on the project
    Files,          \* the files of a supported kind and size
    Contents,       \* what a file may hold
    MaxChanges,     \* bound: changes to files
    MaxBuildErrors, \* bound: builds ended by an error of the database or the embeddings
    MaxSearches     \* bound: searches

ASSUME IndexAssumption ==
    /\ Contents # {} /\ "absent" \notin Contents
    /\ MaxChanges \in Nat /\ MaxBuildErrors \in Nat /\ MaxSearches \in Nat

VARIABLES
    disk,        \* the project's files
    indexed,     \* the index's rows: files, chunks and chunks_fts change together
    build,       \* each program's CodeIndex.build: where it is and what it has read
    effects,     \* what the results of each program's batch under way say
    found,       \* each program's search: the chunk rows it read, then a result
    changes, buildErrors, searches,  \* for the bounds
    meanwhile,   \* history: files changed, on disk or in the index, since a build began
    lagging      \* history: files whose index a known gap of the code left behind

index == <<disk, indexed, build, effects, found, changes, buildErrors, searches,
           meanwhile, lagging>>
work == <<build, effects, found>>
indexBounds == <<changes, buildErrors, searches>>

Held == Contents \cup {"absent"}
Present(files) == {f \in Files : files[f] # "absent"}
Behind(files, rows) == {f \in Files : files[f] # rows[f]}

NoBuild == [at |-> "idle", first |-> FALSE, listed |-> {}, had |-> <<>>, read |-> <<>>]
NoProgram == [NoBuild EXCEPT !.at = "off"]
NoSearch == [at |-> "none", rows |-> <<>>, answer |-> {}, current |-> {}]

IndexInit ==
    /\ disk = [f \in Files |-> CHOOSE c \in Contents : TRUE]
    /\ indexed = [f \in Files |-> "absent"]
    /\ build = [p \in Programs |-> NoProgram]
    /\ effects = [p \in Programs |-> <<>>]
    /\ found = [p \in Programs |-> NoSearch]
    /\ changes = 0 /\ buildErrors = 0 /\ searches = 0
    /\ meanwhile = [p \in Programs |-> {}]
    /\ lagging = Present(disk)

-----------------------------------------------------------------------------
(* CodeIndex.build *)

\* A path that appears or goes now counts as changed for the builds under way.
Note(changed) ==
    meanwhile' = [p \in Programs |->
                    IF build[p].at \in {"idle", "off"} THEN {} ELSE meanwhile[p] \cup changed]

\* _iter_files, for the program's first build or after a batch
ListFiles(p, from) ==
    /\ build[p].at = from
    /\ build' = [build EXCEPT ![p] =
                   [NoBuild EXCEPT !.at = "known", !.first = (from = "off"),
                                   !.listed = Present(disk)]]
    /\ meanwhile' = [meanwhile EXCEPT ![p] = {}]

StartProgram(p) ==
    /\ ListFiles(p, "off")
    /\ UNCHANGED <<disk, indexed, effects, found, indexBounds, lagging>>

ReadKnown(p) ==
    /\ build[p].at = "known"
    /\ build' = [build EXCEPT ![p].at = "reading", ![p].had = indexed]
    /\ UNCHANGED <<disk, indexed, effects, found, indexBounds, meanwhile, lagging>>

Unread(p) == build[p].listed \ DOMAIN build[p].read

\* One read_text; the files are read one after the other, in the listed order.
NextFile(p) == CHOOSE f \in Unread(p) : TRUE

ReadFile(p) ==
    /\ build[p].at = "reading" /\ Unread(p) # {} /\ disk[NextFile(p)] # "absent"
    /\ build' = [build EXCEPT ![p].read =
                   [f \in DOMAIN @ \cup {NextFile(p)} |-> IF f = NextFile(p) THEN disk[f] ELSE @[f]]]
    /\ UNCHANGED <<disk, indexed, effects, found, indexBounds, meanwhile, lagging>>

\* Mutant: the paths that are gone stay in the index.
OnlyChanged(b) ==
    [f \in Files |->
        IF f \in b.listed /\ b.read[f] # b.had[f] THEN b.read[f] ELSE indexed[f]]

\* removed and changed, by the hashes read before the files were
Rebuilt(b) ==
    [f \in Files |->
        IF f \in b.listed
        THEN IF b.read[f] # b.had[f] THEN b.read[f] ELSE indexed[f]
        ELSE IF b.had[f] # "absent" THEN "absent" ELSE indexed[f]]

\* The transaction.  What it leaves behind of what changed meanwhile is a gap.
CommitBuild(p) ==
    /\ build[p].at = "reading" /\ Unread(p) = {}
    /\ LET rows == Rebuilt(build[p])
           rewritten == Behind(indexed, rows)
       IN  /\ indexed' = rows
           /\ build' = [build EXCEPT ![p] = NoBuild]
           /\ meanwhile' = [q \in Programs |->
                 IF q = p \/ build[q].at \in {"idle", "off"} THEN {}
                 ELSE meanwhile[q] \cup rewritten]
           /\ lagging' = (lagging \cup meanwhile[p]) \cap Behind(disk, rows)
    /\ UNCHANGED <<disk, effects, found, indexBounds>>

\* A file is gone before it is read; the database is locked, the embeddings fail.
\* A program whose first build fails does not start; a refresh becomes a warning.
FailBuild(p) ==
    /\ build[p].at \in {"known", "reading"}
    /\ \/ /\ build[p].at = "reading" /\ Unread(p) # {} /\ disk[NextFile(p)] = "absent"
          /\ UNCHANGED buildErrors
       \/ /\ buildErrors < MaxBuildErrors
          /\ buildErrors' = buildErrors + 1
    /\ build' = [build EXCEPT ![p] = IF build[p].first THEN NoProgram ELSE NoBuild]
    /\ lagging' = lagging \cup Behind(disk, indexed)
    /\ meanwhile' = [meanwhile EXCEPT ![p] = {}]
    /\ UNCHANGED <<disk, indexed, effects, found, changes, searches>>

-----------------------------------------------------------------------------
(* Changes to the files *)

ChangeFile(f, content) ==
    /\ changes < MaxChanges /\ changes' = changes + 1
    /\ content # disk[f]
    /\ disk' = [disk EXCEPT ![f] = content]
    /\ Note({f})

\* A tool of the program's batch: an edit that reports the file, or else one that
\* fails after it changed it or a command that does not tell what it changed.
RunTool(p, f, content, says) ==
    /\ build[p].at = "idle" /\ Len(effects[p]) < 2
    /\ ChangeFile(f, content)
    /\ effects' = [effects EXCEPT ![p] = Append(@, says)]
    /\ lagging' = IF says = "changed" THEN lagging \ {f} ELSE lagging \cup {f}
    /\ UNCHANGED <<indexed, build, found, buildErrors, searches>>

\* The user's editor, a restored snapshot
ChangeOutside(f, content) ==
    /\ ChangeFile(f, content)
    /\ lagging' = lagging \cup {f}
    /\ UNCHANGED <<indexed, work, buildErrors, searches>>

\* The program ends at any time; its next start builds.
StopProgram(p) ==
    /\ build[p].at # "off"
    /\ build' = [build EXCEPT ![p] = NoProgram]
    /\ effects' = [effects EXCEPT ![p] = <<>>]
    /\ found' = [found EXCEPT ![p] = NoSearch]
    /\ meanwhile' = [meanwhile EXCEPT ![p] = {}]
    /\ lagging' = lagging \cup
         (IF build[p].at # "idle" \/ effects[p] # <<>> THEN Behind(disk, indexed) ELSE {})
    /\ UNCHANGED <<disk, indexed, indexBounds>>

-----------------------------------------------------------------------------
(* IndexRefreshingToolGateway._refresh_after *)

\* Some result is ok and has changed files.
Mutated(results) == \E i \in DOMAIN results : results[i] = "changed"

\* The batch is over, its searches too.
Refresh(p) ==
    /\ build[p].at = "idle"
    /\ found[p].at = "done" \/ (found[p].at = "none" /\ effects[p] # <<>>)
    /\ effects' = [effects EXCEPT ![p] = <<>>]
    /\ found' = [found EXCEPT ![p] = NoSearch]
    /\ IF Mutated(effects[p]) THEN ListFiles(p, "idle") ELSE UNCHANGED <<build, meanwhile>>
    /\ UNCHANGED <<disk, indexed, indexBounds, lagging>>

-----------------------------------------------------------------------------
(* CodeIndex.search, a tool of a batch *)

\* A build is under way or will follow the batch.
AtWork(p) == build[p].at \in {"known", "reading"} \/ \E i \in DOMAIN effects[p] :
                                                        effects[p][i] = "changed"

Pairs(rows) == {<<f, rows[f]>> : f \in Present(rows)}

SearchChunks(p) ==
    /\ build[p].at = "idle" /\ found[p].at = "none" /\ searches < MaxSearches
    /\ searches' = searches + 1
    /\ LET excused == IF \E q \in Programs : AtWork(q) THEN Files ELSE lagging
       IN  found' = [found EXCEPT ![p] =
              [at |-> "text", rows |-> indexed, answer |-> {},
               current |-> Pairs(disk) \cup (excused \X Contents)]]
    /\ UNCHANGED <<disk, indexed, build, effects, changes, buildErrors, meanwhile, lagging>>

\* Ids the chunk rows did not have are skipped.
Fused(chunks, text) == text \cap chunks

\* The full-text channel is read apart from the chunk rows, the other channels
\* rank those.  At most one of the results stands for the answer.
SearchText(p) ==
    /\ found[p].at = "text"
    /\ LET chunks == Pairs(found[p].rows)
       IN  \E answer \in {{}} \cup {{r} : r \in chunks \cup Fused(chunks, Pairs(indexed))} :
              found' = [found EXCEPT ![p] =
                          [at |-> "done", rows |-> <<>>, answer |-> answer,
                           current |-> found[p].current \cap answer]]
    /\ UNCHANGED <<disk, indexed, build, effects, indexBounds, meanwhile, lagging>>

-----------------------------------------------------------------------------
IndexNext ==
    \/ \E p \in Programs :
        \/ StartProgram(p) \/ ReadKnown(p) \/ ReadFile(p) \/ CommitBuild(p)
        \/ FailBuild(p) \/ StopProgram(p) \/ Refresh(p) \/ SearchChunks(p) \/ SearchText(p)
        \/ \E f \in Files, content \in Held, says \in {"changed", "silent"} :
            RunTool(p, f, content, says)
    \/ \E f \in Files, content \in Held : ChangeOutside(f, content)

IndexSpec == IndexInit /\ [][IndexNext]_index

-----------------------------------------------------------------------------
(* Properties *)

IndexTypeOK ==
    /\ \A f \in Files : disk[f] \in Held /\ indexed[f] \in Held
    /\ \A p \in Programs :
        /\ build[p].at \in {"off", "idle", "known", "reading"}
        /\ DOMAIN build[p].read \subseteq build[p].listed
        /\ Len(effects[p]) <= 2 /\ meanwhile[p] \subseteq Files
        /\ found[p].answer \subseteq Files \X Contents
    /\ lagging \subseteq Files
    /\ changes \in 0..MaxChanges /\ buildErrors \in 0..MaxBuildErrors
    /\ searches \in 0..MaxSearches

\* While no build is due, the index is what the files are, but for the files
\* left behind by a change no result reported (a failed edit, a command, an
\* editor), by a build that failed, or by one during which they changed; so what
\* a search answers was in the files when it began, with the same exceptions,
\* even when the index is rebuilt between its two reads.
IndexLagExcused ==
    /\ (\A p \in Programs : ~AtWork(p)) => Behind(disk, indexed) \subseteq lagging
    /\ \A p \in Programs : found[p].answer \subseteq found[p].current
=============================================================================
