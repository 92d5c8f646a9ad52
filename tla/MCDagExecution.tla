--------------------------- MODULE MCDagExecution --------------------------
(* Every graph on three tasks, and plans with more or fewer of them.       *)
EXTENDS DagExecution

Three == 1 .. 3
Plan(M, deps, type, text) == [place |-> [t \in M |-> t], deps |-> deps, type |-> type, text |-> text]
Same(M, x) == [t \in M |-> x]

(* Two readers and a writer: every way to put them into a graph. *)
Types == [t \in Three |-> IF t = 3 THEN "FILE_WRITE" ELSE "FILE_READ"]
Graphs == {Plan(Three, deps, Types, Same(Three, 1)) : deps \in [Three -> SUBSET Three]}

(* Other plans the model proposes, as replacements above all. *)
Chain == Plan(Three, <<{}, {1}, {2}>>, Types, <<2, 1, 1>>)
Wide == Plan(Three, Same(Three, {}), Same(Three, "ANALYSIS"), Same(Three, 1))
Single == Plan({1}, <<{}>>, <<"COMMAND">>, <<2>>)
Unknown == Plan({1}, <<{2}>>, <<"COMMAND">>, <<1>>)

MCResumable == {Chain, Plan(Three, <<{}, {}, {1, 2}>>, Types, Same(Three, 1))}
MCProposals == Graphs \cup {Chain, Wide, Single, Unknown}

(* One writer, for the run about what reviews have read. *)
MCWriter == {Plan({1}, <<{}>>, <<"FILE_WRITE">>, <<1>>)}
=============================================================================
