----------------------------- MODULE CallOrder -----------------------------
(***************************************************************************)
(* What the tool gateway promises: calls are numbered in the order in      *)
(* which they were asked for, each may read and write some files, and what *)
(* they do to the files is what running them one after another in that     *)
(* order would do.  Calls that do not clash may overlap.  A call is        *)
(* settled when nothing of it is still to come; a call whose result was    *)
(* given up on may be abandoned if it only reads, and then its view counts *)
(* no more.                                                                *)
(***************************************************************************)
EXTENDS Integers

CONSTANTS Files,      \* the files of the project
          MaxCalls    \* bound on the calls of a behaviour

Ids == 1 .. MaxCalls
Unread == -1          \* no view of the file yet
Original == 0         \* the content the file had before any call

VARIABLES issued,     \* number of calls asked for so far
          reads,      \* files each call may read
          writes,     \* files each call may write
          settled,    \* calls with nothing more to do
          seen,       \* whose version of a file each call has read
          wrote,      \* files each call has written
          content     \* the call that wrote each file last

vars == <<issued, reads, writes, settled, seen, wrote, content>>

Init == /\ issued = 0
        /\ reads = [c \in Ids |-> {}]
        /\ writes = [c \in Ids |-> {}]
        /\ settled = {}
        /\ seen = [c \in Ids |-> [f \in Files |-> Unread]]
        /\ wrote = [c \in Ids |-> {}]
        /\ content = [f \in Files |-> Original]

(* Two calls clash when one writes a file the other uses. *)
Clash(c, d) == \E f \in Files : \/ f \in writes[c] /\ f \in reads[d] \cup writes[d]
                                \/ f \in reads[c] /\ f \in writes[d]

(* The earlier calls this one depends on are over. *)
MayTouch(c) == /\ c <= issued
               /\ c \notin settled
               /\ \A d \in Ids : d < c /\ Clash(d, c) => d \in settled

(* The calls up to n are asked for together; some may be refused at once. *)
Issue(n) ==
    /\ n \in issued + 1 .. MaxCalls
    /\ reads' \in [Ids -> SUBSET Files]
    /\ writes' \in [Ids -> SUBSET Files]
    /\ \A c \in Ids \ (issued + 1 .. n) : reads'[c] = reads[c] /\ writes'[c] = writes[c]
    /\ issued' = n
    /\ settled \subseteq settled'
    /\ settled' \subseteq settled \cup (issued + 1 .. n)
    /\ UNCHANGED <<seen, wrote, content>>

Read(c, f) ==
    /\ MayTouch(c)
    /\ f \in reads[c] \ wrote[c]
    /\ seen' = [seen EXCEPT ![c][f] = content[f]]
    /\ UNCHANGED <<issued, reads, writes, settled, wrote, content>>

Write(c, f) ==
    /\ MayTouch(c)
    /\ f \in writes[c]
    /\ wrote' = [wrote EXCEPT ![c] = @ \cup {f}]
    /\ content' = [content EXCEPT ![f] = c]
    /\ UNCHANGED <<issued, reads, writes, settled, seen>>

Settle(c) ==
    /\ c <= issued
    /\ settled' = settled \cup {c}
    /\ UNCHANGED <<issued, reads, writes, seen, wrote, content>>

(* The result of a call that only reads is no longer waited for. *)
Abandon(c) ==
    /\ c <= issued
    /\ writes[c] = {}
    /\ settled' = settled \cup {c}
    /\ seen' = [seen EXCEPT ![c] = [f \in Files |-> Unread]]
    /\ UNCHANGED <<issued, reads, writes, wrote, content>>

Next == \/ \E n \in Ids : Issue(n)
        \/ \E c \in Ids : \/ Settle(c) \/ Abandon(c)
                          \/ \E f \in Files : Read(c, f) \/ Write(c, f)

Spec == Init /\ [][Next]_vars

-----------------------------------------------------------------------------
TypeOK == /\ issued \in 0 .. MaxCalls
          /\ reads \in [Ids -> SUBSET Files]
          /\ writes \in [Ids -> SUBSET Files]
          /\ settled \in SUBSET Ids
          /\ seen \in [Ids -> [Files -> Int]]
          /\ wrote \in [Ids -> SUBSET Files]
          /\ content \in [Files -> Int]

(* v is the version of f that calls before c have left behind. *)
VersionBefore(c, f, v) ==
    /\ v = Original \/ (v \in Ids /\ v < c /\ f \in wrote[v])
    /\ \A d \in Ids : d < c /\ f \in wrote[d] => d <= v

(* A call reads what the calls before it, and only they, have left in the  *)
(* file: no read overtakes an earlier write or is overtaken by a later one *)
(* (the promise of execute_many_results, tools.py:174-181).                *)
ReadsSeeCallOrder ==
    \A c \in Ids, f \in Files : seen[c][f] # Unread => VersionBefore(c, f, seen[c][f])

(* Of all calls that wrote a file the last one in call order determines    *)
(* its content (tools.py:174-181).                                         *)
WritesInCallOrder ==
    \A f \in Files : VersionBefore(MaxCalls + 1, f, content[f])

=============================================================================
