-------------------------- MODULE CallOrderProofs --------------------------
(***************************************************************************)
(* CallOrder keeps its promise, for any set of files and any number of     *)
(* calls: its guards, which only look at which earlier calls are settled,  *)
(* are enough for every read and for the final content of every file.      *)
(***************************************************************************)
EXTENDS CallOrder, TLAPS

USE DEF Unread, Original

(* A call that was not asked for yet has left no trace. *)
FreshInv == \A c \in Ids : c > issued =>
                /\ wrote[c] = {}
                /\ \A f \in Files : seen[c][f] = Unread

(* A call touches only the files it named. *)
FootprintInv == \A c \in Ids : /\ wrote[c] \subseteq writes[c]
                               /\ \A f \in Files : seen[c][f] # Unread => f \in reads[c]

(* Once a call has touched a file, the earlier calls it clashes with there *)
(* are over.                                                               *)
TouchedInv ==
    \A c, d \in Ids, f \in Files :
        c < d => /\ f \in wrote[d] /\ f \in reads[c] \cup writes[c] => c \in settled
                 /\ seen[d][f] # Unread /\ f \in writes[c] => c \in settled

Inv == /\ MaxCalls \in Nat
       /\ TypeOK
       /\ FreshInv
       /\ FootprintInv
       /\ TouchedInv
       /\ ReadsSeeCallOrder
       /\ WritesInCallOrder

LEMMA InitInv ==
    ASSUME MaxCalls \in Nat
    PROVE  Init => Inv
  <1> SUFFICES ASSUME Init PROVE Inv
    OBVIOUS
  <1> USE DEF Init
  <1>1. TypeOK
    BY DEF TypeOK
  <1>2. FreshInv /\ FootprintInv /\ TouchedInv
    BY DEF FreshInv, FootprintInv, TouchedInv
  <1>3. ReadsSeeCallOrder /\ WritesInCallOrder
    BY DEF ReadsSeeCallOrder, WritesInCallOrder, VersionBefore
  <1> QED
    BY <1>1, <1>2, <1>3 DEF Inv

LEMMA TypeStep ==
    ASSUME MaxCalls \in Nat
    PROVE  TypeOK /\ [Next]_vars => TypeOK'
  <1> SUFFICES ASSUME TypeOK, [Next]_vars PROVE TypeOK'
    OBVIOUS
  <1> USE DEF TypeOK, Ids
  <1>1. ASSUME NEW n \in Ids, Issue(n) PROVE TypeOK'
    BY <1>1 DEF Issue
  <1>2. ASSUME NEW c \in Ids, Settle(c) \/ Abandon(c) PROVE TypeOK'
    <2>1. CASE Settle(c)
      BY <2>1 DEF Settle
    <2>2. CASE Abandon(c)
      <3>1. seen' \in [Ids -> [Files -> Int]]
        BY <2>2 DEF Abandon
      <3> QED
        BY <2>2, <3>1 DEF Abandon
    <2> QED
      BY <1>2, <2>1, <2>2
  <1>3. ASSUME NEW c \in Ids, NEW f \in Files, Read(c, f) PROVE TypeOK'
    BY <1>3 DEF Read
  <1>4. ASSUME NEW c \in Ids, NEW f \in Files, Write(c, f) PROVE TypeOK'
    BY <1>4 DEF Write
  <1>5. CASE UNCHANGED vars
    BY <1>5 DEF vars
  <1> QED
    BY <1>1, <1>2, <1>3, <1>4, <1>5 DEF Next

(* Asking for more calls changes nothing for those already there. *)
LEMMA IssueStep ==
    ASSUME Inv, TypeOK', NEW n \in Ids, Issue(n)
    PROVE  Inv'
  <1> USE DEF Ids
  <1> MaxCalls \in Nat
    BY DEF Inv
  <1>1. FreshInv'
    <2>1. \A c \in Ids : c > issued' => c > issued
      BY DEF Issue, Inv, TypeOK
    <2> QED
      BY <2>1 DEF Issue, Inv, FreshInv
  <1>2. FootprintInv'
    <2> SUFFICES ASSUME NEW c \in Ids
                 PROVE  /\ wrote[c] \subseteq writes'[c]
                        /\ \A f \in Files : seen[c][f] # Unread => f \in reads'[c]
      BY DEF Issue, FootprintInv
    <2>1. CASE c > issued
      BY <2>1 DEF Inv, FreshInv
    <2>2. CASE ~(c > issued)
      BY <2>2 DEF Issue, Inv, FootprintInv, TypeOK
    <2> QED
      BY <2>1, <2>2
  <1>3. TouchedInv'
    <2> SUFFICES ASSUME NEW c \in Ids, NEW d \in Ids, NEW f \in Files, c < d
                 PROVE  /\ f \in wrote[d] /\ f \in reads'[c] \cup writes'[c] => c \in settled
                        /\ seen[d][f] # Unread /\ f \in writes'[c] => c \in settled
      <3>1. settled \subseteq settled' /\ UNCHANGED <<seen, wrote>>
        BY DEF Issue
      <3> QED
        BY <3>1 DEF TouchedInv
    <2>1. CASE d > issued
      BY <2>1 DEF Inv, FreshInv
    <2>2. CASE ~(d > issued)
      BY <2>2 DEF Issue, Inv, TouchedInv, TypeOK
    <2> QED
      BY <2>1, <2>2
  <1>4. ReadsSeeCallOrder' /\ WritesInCallOrder'
    BY DEF Issue, Inv, ReadsSeeCallOrder, WritesInCallOrder, VersionBefore
  <1> QED
    BY <1>1, <1>2, <1>3, <1>4 DEF Inv

LEMMA SettleStep ==
    ASSUME Inv, TypeOK', NEW c \in Ids, Settle(c) \/ Abandon(c)
    PROVE  Inv'
  <1> USE DEF Ids
  <1> MaxCalls \in Nat
    BY DEF Inv
  <1>1. settled \subseteq settled' /\ UNCHANGED <<issued, reads, writes, wrote, content>>
    BY DEF Settle, Abandon
  <1>2. ASSUME NEW d \in Ids, NEW f \in Files
        PROVE  seen'[d][f] \in {seen[d][f], Unread}
    <2>1. CASE Settle(c)
      BY <2>1 DEF Settle
    <2>2. CASE Abandon(c)
      <3>1. seen'[d] = IF d = c THEN [g \in Files |-> Unread] ELSE seen[d]
        BY <2>2 DEF Abandon, Inv, TypeOK
      <3> QED
        BY <3>1
    <2> QED
      BY <2>1, <2>2
  <1>3. FreshInv' /\ FootprintInv'
    BY <1>1, <1>2 DEF Inv, FreshInv, FootprintInv
  <1>4. TouchedInv'
    BY <1>1, <1>2 DEF Inv, TouchedInv
  <1>5. ReadsSeeCallOrder' /\ WritesInCallOrder'
    BY <1>1, <1>2 DEF Inv, ReadsSeeCallOrder, WritesInCallOrder, VersionBefore
  <1> QED
    BY <1>3, <1>4, <1>5 DEF Inv

(* The content a call reads was written by an earlier call: a later writer *)
(* would have had to wait for it.                                          *)
LEMMA ReadStep ==
    ASSUME Inv, TypeOK', NEW c \in Ids, NEW f \in Files, Read(c, f)
    PROVE  Inv'
  <1> USE DEF Ids
  <1> MaxCalls \in Nat
    BY DEF Inv
  <1>1. /\ c <= issued /\ c \notin settled /\ f \in reads[c] /\ f \notin wrote[c]
        /\ \A d \in Ids : d < c /\ f \in writes[d] => d \in settled
        /\ UNCHANGED <<issued, reads, writes, settled, wrote, content>>
    BY DEF Read, MayTouch, Clash
  <1>2. ASSUME NEW d \in Ids, NEW g \in Files
        PROVE  seen'[d][g] = IF d = c /\ g = f THEN content[f] ELSE seen[d][g]
    BY DEF Read, Inv, TypeOK
  <1>3. VersionBefore(c, f, content[f])
    <2>1. VersionBefore(MaxCalls + 1, f, content[f])
      BY DEF Inv, WritesInCallOrder
    <2>2. ASSUME content[f] \in Ids, f \in wrote[content[f]] PROVE content[f] < c
      <3>1. ~(c < content[f])
        BY <1>1, <2>2 DEF Inv, TouchedInv
      <3>2. content[f] # c
        BY <1>1, <2>2
      <3> QED
        BY <2>2, <3>1, <3>2
    <2> QED
      BY <2>1, <2>2 DEF VersionBefore
  <1>4. FreshInv' /\ FootprintInv' /\ TouchedInv'
    <2>1. FreshInv'
      <3>1. ~(c > issued)
        BY <1>1 DEF Inv, TypeOK
      <3> QED
        BY <1>1, <1>2, <3>1 DEF Inv, FreshInv
    <2>2. FootprintInv'
      BY <1>1, <1>2 DEF Inv, FootprintInv
    <2>3. TouchedInv'
      BY <1>1, <1>2 DEF Inv, TouchedInv
    <2> QED
      BY <2>1, <2>2, <2>3
  <1>5. ReadsSeeCallOrder'
    BY <1>1, <1>2, <1>3 DEF Inv, ReadsSeeCallOrder, VersionBefore
  <1>6. WritesInCallOrder'
    BY <1>1 DEF Inv, WritesInCallOrder, VersionBefore
  <1> QED
    BY <1>4, <1>5, <1>6 DEF Inv

(* Whoever has read or written the file later in call order has waited for *)
(* this call to be settled, so it comes before all of them.                *)
LEMMA WriteStep ==
    ASSUME Inv, TypeOK', NEW c \in Ids, NEW f \in Files, Write(c, f)
    PROVE  Inv'
  <1> USE DEF Ids
  <1> MaxCalls \in Nat
    BY DEF Inv
  <1>1. /\ c <= issued /\ c \notin settled /\ f \in writes[c]
        /\ \A d \in Ids : d < c /\ f \in reads[d] \cup writes[d] => d \in settled
        /\ UNCHANGED <<issued, reads, writes, settled, seen>>
    BY DEF Write, MayTouch, Clash
  <1>2. /\ \A d \in Ids : wrote'[d] = IF d = c THEN wrote[d] \cup {f} ELSE wrote[d]
        /\ \A g \in Files : content'[g] = IF g = f THEN c ELSE content[g]
    BY DEF Write, Inv, TypeOK
  <1>3. FreshInv' /\ FootprintInv' /\ TouchedInv'
    <2>1. FreshInv'
      BY <1>1, <1>2 DEF Inv, FreshInv, TypeOK
    <2>2. FootprintInv'
      BY <1>1, <1>2 DEF Inv, FootprintInv
    <2>3. TouchedInv'
      <3> SUFFICES ASSUME NEW d \in Ids, NEW e \in Ids, NEW g \in Files, d < e
                   PROVE  /\ g \in wrote'[e] /\ g \in reads[d] \cup writes[d] => d \in settled
                          /\ seen[e][g] # Unread /\ g \in writes[d] => d \in settled
        BY <1>1 DEF TouchedInv
      <3>1. /\ g \in wrote[e] /\ g \in reads[d] \cup writes[d] => d \in settled
            /\ seen[e][g] # Unread /\ g \in writes[d] => d \in settled
        BY DEF Inv, TouchedInv
      <3>2. g \in wrote'[e] => g \in wrote[e] \/ (e = c /\ g = f)
        BY <1>2
      <3> QED
        BY <1>1, <3>1, <3>2
    <2> QED
      BY <2>1, <2>2, <2>3
  <1>4. \A d \in Ids : f \in wrote[d] \/ seen[d][f] # Unread => d <= c
    BY <1>1 DEF Inv, TouchedInv
  <1>5. ReadsSeeCallOrder'
    <2> SUFFICES ASSUME NEW d \in Ids, NEW g \in Files, seen[d][g] # Unread
                 PROVE  VersionBefore(d, g, seen[d][g])'
      BY <1>1 DEF ReadsSeeCallOrder, VersionBefore
    <2>1. VersionBefore(d, g, seen[d][g])
      BY DEF Inv, ReadsSeeCallOrder
    <2>2. g = f => ~(c < d)
      BY <1>4
    <2>3. \A e \in Ids : e < d => (g \in wrote'[e] <=> g \in wrote[e])
      BY <1>2, <2>2
    <2>4. \A e \in Ids : g \in wrote[e] => g \in wrote'[e]
      BY <1>2
    <2> QED
      BY <1>1, <2>1, <2>3, <2>4 DEF VersionBefore
  <1>6. WritesInCallOrder'
    <2> SUFFICES ASSUME NEW g \in Files
                 PROVE  VersionBefore(MaxCalls + 1, g, content[g])'
      BY DEF WritesInCallOrder
    <2>1. VersionBefore(MaxCalls + 1, g, content[g])
      BY DEF Inv, WritesInCallOrder
    <2>2. CASE g = f
      <3>1. content'[g] = c /\ g \in wrote'[c]
        BY <1>2, <2>2
      <3>2. \A d \in Ids : g \in wrote'[d] => d <= c
        <4> TAKE d \in Ids
        <4>1. g \in wrote'[d] => d = c \/ f \in wrote[d]
          BY <1>2, <2>2
        <4> QED
          BY <4>1, <1>4
      <3> QED
        BY <3>1, <3>2 DEF VersionBefore
    <2>3. CASE g # f
      BY <1>2, <2>1, <2>3 DEF VersionBefore
    <2> QED
      BY <2>2, <2>3
  <1> QED
    BY <1>3, <1>5, <1>6 DEF Inv

(* The invariant behind both promises. *)
THEOREM Invariant ==
    ASSUME MaxCalls \in Nat
    PROVE  Spec => []Inv
  <1>1. Inv /\ [Next]_vars => Inv'
    <2> SUFFICES ASSUME Inv, [Next]_vars PROVE Inv'
      OBVIOUS
    <2>1. TypeOK'
      BY TypeStep DEF Inv
    <2>2. CASE Next
      BY <2>1, <2>2, IssueStep, SettleStep, ReadStep, WriteStep DEF Next
    <2>3. CASE UNCHANGED vars
      <3>1. FreshInv' /\ FootprintInv' /\ TouchedInv'
        BY <2>3 DEF vars, Inv, FreshInv, FootprintInv, TouchedInv
      <3>2. ReadsSeeCallOrder' /\ WritesInCallOrder'
        BY <2>3 DEF vars, Inv, ReadsSeeCallOrder, WritesInCallOrder, VersionBefore
      <3> QED
        BY <2>1, <3>1, <3>2 DEF Inv
    <2> QED
      BY <2>2, <2>3
  <1> QED
    BY InitInv, <1>1, PTL DEF Spec

(* Every read returns the version the calls before it left. *)
THEOREM ReadsInOrder ==
    ASSUME MaxCalls \in Nat
    PROVE  Spec => []ReadsSeeCallOrder
  <1>1. Inv => ReadsSeeCallOrder
    BY DEF Inv
  <1> QED
    BY Invariant, <1>1, PTL

(* Every file holds what the last of its writers wrote. *)
THEOREM WritesInOrder ==
    ASSUME MaxCalls \in Nat
    PROVE  Spec => []WritesInCallOrder
  <1>1. Inv => WritesInCallOrder
    BY DEF Inv
  <1> QED
    BY Invariant, <1>1, PTL

=============================================================================
