---------------------------- MODULE ManagedMemory ----------------------------
(***************************************************************************)
(* The long-term memory (managed_memory.py): a SQLite table shared by the  *)
(* programs of one user, in autocommit mode.  Every statement is a         *)
(* transaction of its own, and each program has a lock of its own: a save  *)
(* is up to four transactions, a conflict resolution one per record.       *)
(*                                                                         *)
(* A fact is a normalised content; its row keeps its id, so the fact is    *)
(* the id.  A row is attributed to a source and to a version of it         *)
(* (source_hash); a save may give both, either or neither, and what it     *)
(* does not give stays.  The model saves through the save_memory tool;     *)
(* everything else is the user's.                                          *)
(***************************************************************************)
EXTENDS Naturals, FiniteSets

CONSTANTS
    Stores,       \* the programs that have the table open
    Facts,
    Sources,      \* what a fact may be attributed to
    Versions,     \* hashes a source may have
    EarlierRows,  \* what earlier sessions may have left of a fact
    Losers,       \* the sets of facts an operation may name as superseded
    MaxOps        \* bound: operations begun

Trusted == {"active", "verified"}
Statuses == Trusted \cup {"absent", "unverified", "stale", "superseded", "deleted"}
Rows == [status : Statuses, source : Sources \cup {"none"},
         version : Versions \cup {"none"}]

ASSUME MemoryAssumption ==
    /\ Losers \subseteq SUBSET Facts /\ "none" \notin Sources \cup Versions
    /\ EarlierRows \subseteq Rows
    /\ MaxOps \in Nat

VARIABLES
    rows,      \* the table: status, source and version of each fact
    ops,       \* what each store is doing
    begun,     \* operations begun, for the bound
    backing    \* history: what a fact's being trusted rests on

memory == <<rows, ops, begun, backing>>

NoRow == [status |-> "absent", source |-> "none", version |-> "none"]

\* Trust rests on nothing; on the user's word for the row's attribution; or what
\* the user vouched for was "raced" or "moved" to another attribution.
Backed(how, row) == [how |-> how, source |-> row.source, version |-> row.version]
NotBacked == Backed("no", NoRow)

IdleStore ==
    [at |-> "idle", by |-> "user", fact |-> "none", source |-> "none",
     version |-> "none", losers |-> {}, seen |-> NoRow, overlap |-> FALSE]

MemoryInit ==
    /\ rows \in [Facts -> EarlierRows]
    /\ ops = [s \in Stores |-> IdleStore]
    /\ begun = 0
    /\ backing = [f \in Facts |-> IF rows[f].status \in Trusted
                                  THEN Backed("user", rows[f]) ELSE NotBacked]

\* search(): what later sessions are told
Retrieved == {f \in Facts : rows[f].status \in Trusted}

-----------------------------------------------------------------------------
(* The store takes a step that leaves the table as `table`; a save of      *)
(* another store, between its first and its last look at a row this        *)
(* changes, is marked as overlapped.                                       *)
Transact(s, op, table) ==
    /\ rows' = table
    /\ ops' = [t \in Stores |->
                 IF t = s THEN op
                 ELSE IF ops[t].at \in {"read", "write"}
                 THEN [ops[t] EXCEPT !.overlap = @ \/ table[ops[t].fact] # rows[ops[t].fact]]
                 ELSE ops[t]]

\* A fact that is no longer trusted rests on nothing.
Backing(table) ==
    [f \in Facts |-> IF table[f].status \in Trusted THEN backing[f] ELSE NotBacked]

Begin(s) == ops[s].at = "idle" /\ begun < MaxOps /\ begun' = begun + 1

\* Mutant: only the user's saves mark older versions.
MarksForUser(by, source, version) ==
    source # "none" /\ version # "none" /\ by = "user"

\* Both are given.
Marks(by, source, version) == source # "none" /\ version # "none"

\* save_record, also import_jsonl for each line (the user); save_agent_memory
BeginSave(s, by, f, source, version, losers) ==
    /\ Begin(s)
    /\ ops' = [ops EXCEPT ![s] =
                 [at |-> IF Marks(by, source, version) THEN "mark" ELSE "read", by |-> by,
                  fact |-> f, source |-> source, version |-> version, losers |-> losers,
                  seen |-> NoRow, overlap |-> FALSE]]
    /\ UNCHANGED <<rows, backing>>

\* Facts of this source with another version, or with none
MarkStale(s) ==
    LET Outdated(r) == /\ r.source = ops[s].source /\ r.version # ops[s].version
                       /\ r.status \notin {"absent", "deleted", "superseded"}
        table == [f \in Facts |-> IF Outdated(rows[f])
                                  THEN [rows[f] EXCEPT !.status = "stale"] ELSE rows[f]]
    IN  /\ ops[s].at = "mark"
        /\ Transact(s, [ops[s] EXCEPT !.at = "read"], table)
        /\ backing' = Backing(table)
        /\ UNCHANGED begun

\* _upsert: SELECT ...
ReadRow(s) ==
    /\ ops[s].at = "read"
    /\ ops' = [ops EXCEPT ![s].at = "write", ![s].seen = rows[ops[s].fact]]
    /\ UNCHANGED <<rows, begun, backing>>

Given(by) == IF by = "user" THEN "active" ELSE "unverified"

Effective(previous, given) == IF previous = "verified" THEN "verified" ELSE given

\* The supersessions a save goes on with; naming itself is ignored.
AfterWrite(op) ==
    IF op.losers \subseteq {op.fact} THEN IdleStore
    ELSE [op EXCEPT !.at = "supersede", !.losers = @ \ {op.fact}]

Kept(old, given) == IF given = "none" THEN old ELSE given

\* The save gives the fact another attribution without having looked whether the
\* fact is outdated by it: it did not name the fact's source and a version.
Moves(op, row) ==
    /\ Backed("user", row) # Backed("user", op.seen)
    /\ op.source = "none" \/ op.version = "none" \/ op.source # op.seen.source

\* ... then INSERT or UPDATE by what was read
WriteRow(s) ==
    LET op == ops[s]
        row == [status |-> IF op.seen.status = "absent" THEN Given(op.by)
                           ELSE Effective(op.seen.status, Given(op.by)),
                source |-> Kept(op.seen.source, op.source),
                version |-> Kept(op.seen.version, op.version)]
        table == [rows EXCEPT ![op.fact] = row]
        carried == row.status \in Trusted
    IN  /\ op.at = "write"
        /\ op.seen.status = "absent" => rows[op.fact].status = "absent"
        /\ Transact(s, AfterWrite(op), table)
        /\ backing' = [Backing(table) EXCEPT ![op.fact] =
                         IF op.by = "user" THEN Backed("user", row)
                         ELSE IF carried /\ op.overlap THEN Backed("raced", row)
                         ELSE IF carried /\ Moves(op, row) THEN Backed("moved", row)
                         ELSE @]
        /\ UNCHANGED begun

\* The content is there by now: the UNIQUE constraint makes the save fail.
InsertFails(s) ==
    /\ ops[s].at = "write" /\ ops[s].seen.status = "absent"
    /\ rows[ops[s].fact].status # "absent"
    /\ ops' = [ops EXCEPT ![s] = IdleStore]
    /\ UNCHANGED <<rows, begun, backing>>

\* One _set_status(SUPERSEDED); an unknown id makes the call fail half way.
SupersedeOne(s, f) ==
    LET op == ops[s]
        table == [rows EXCEPT ![f].status = "superseded"]
        rest == op.losers \ {f}
    IN  /\ op.at = "supersede" /\ f \in op.losers
        /\ \/ /\ rows[f].status # "absent"
              /\ Transact(s, IF rest = {} THEN IdleStore
                             ELSE [op EXCEPT !.losers = rest], table)
              /\ backing' = Backing(table)
           \/ /\ rows[f].status = "absent"
              /\ ops' = [ops EXCEPT ![s] = IdleStore]
              /\ UNCHANGED <<rows, backing>>
        /\ UNCHANGED begun

-----------------------------------------------------------------------------
(* The user's single-statement operations *)

SetStatus(s, f, status, op) ==
    LET table == [rows EXCEPT ![f].status = status]
    IN  /\ Begin(s) /\ rows[f].status # "absent"
        /\ Transact(s, op, table)
        /\ backing' = [Backing(table) EXCEPT ![f] =
                         IF status \in Trusted THEN Backed("user", rows[f]) ELSE @]

Verify(s, f) == SetStatus(s, f, "verified", IdleStore)

Delete(s, f) == SetStatus(s, f, "deleted", IdleStore)

ResolveConflict(s, winner, losers) ==
    SetStatus(s, winner, "active",
              IF losers \subseteq {winner} THEN IdleStore
              ELSE [IdleStore EXCEPT !.at = "supersede", !.fact = winner,
                                     !.losers = losers \ {winner}])

\* The program ends, or an error of the database ends the operation.
Interrupt(s) ==
    /\ ops[s].at # "idle"
    /\ ops' = [ops EXCEPT ![s] = IdleStore]
    /\ UNCHANGED <<rows, begun, backing>>

-----------------------------------------------------------------------------
MemoryNext ==
    \E s \in Stores :
        \/ \E by \in {"user", "model"}, f \in Facts, source \in Sources \cup {"none"},
              version \in Versions \cup {"none"}, losers \in Losers :
                BeginSave(s, by, f, source, version, losers)
        \/ MarkStale(s) \/ ReadRow(s) \/ WriteRow(s) \/ InsertFails(s)
        \/ \E f \in Facts : SupersedeOne(s, f) \/ Verify(s, f) \/ Delete(s, f)
        \/ \E f \in Facts, losers \in Losers : ResolveConflict(s, f, losers)
        \/ Interrupt(s)

MemorySpec == MemoryInit /\ [][MemoryNext]_memory

-----------------------------------------------------------------------------
(* Properties *)

MemoryTypeOK ==
    /\ \A f \in Facts : /\ rows[f] \in Rows
                        /\ backing[f].how \in {"no", "user", "raced", "moved"}
    /\ \A s \in Stores :
        /\ ops[s].at \in {"idle", "mark", "read", "write", "supersede"}
        /\ ops[s].losers \subseteq Facts
        /\ ops[s].at # "idle" => ops[s].fact \in Facts
    /\ begun \in 0..MaxOps

\* Later sessions are only told what the user vouched for, under the source and
\* the version it is now attributed to.  A model's save promotes nothing, and when
\* it names the fact's source and another version, the fact is stale before the
\* row is written.  Two ways remain in which a verified fact gets an attribution
\* nobody vouched for: another program changed the row between the transactions
\* of the save ("raced"), or the save named no version, no source or another
\* source, which marks nothing and still replaces what it names while VERIFIED is
\* kept ("moved": managed_memory.py:173-189, 354 and 383).  For those the docstring
\* at line 381, "Persist model-authored memory as unverified until promoted", and
\* docs/paicli-interview-qa.md:1048 and 1060 say more than the code does.
TrustIsVouched ==
    \A f \in Retrieved :
        backing[f].how \in {"raced", "moved"} \/ backing[f] = Backed("user", rows[f])
=============================================================================
