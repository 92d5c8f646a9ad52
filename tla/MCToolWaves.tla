---------------------------- MODULE MCToolWaves ----------------------------
(* A small instance of ToolWaves: a directory with two files.              *)
EXTENDS ToolWaves

DirA == <<"d", "a">>
DirB == <<"d", "b">>
MCFiles == {DirA, DirB}

Claim(p, m, r) == [all |-> FALSE, path |-> p, mode |-> m, recursive |-> r]
Uses(as, ro) == [valid |-> TRUE, resolver |-> TRUE, accesses |-> as, readOnly |-> ro, serial |-> FALSE]

ReadA == Uses({Claim(DirA, "read", FALSE)}, TRUE)
ListD == Uses({Claim(<<"d">>, "read", TRUE)}, TRUE)
WriteA == Uses({Claim(DirA, "write", FALSE)}, FALSE)
WriteB == Uses({Claim(DirB, "write", FALSE)}, FALSE)
PatchAB == Uses({Claim(DirA, "write", FALSE), Claim(DirB, "write", FALSE)}, FALSE)
(* load_skill: SERIAL and without a resolver, so that it claims everything *)
Skill == [valid |-> TRUE, resolver |-> FALSE, accesses |-> {}, readOnly |-> FALSE, serial |-> TRUE]
Broken == [valid |-> FALSE, resolver |-> TRUE, accesses |-> {}, readOnly |-> FALSE, serial |-> FALSE]

MCTools == {ReadA, ListD, WriteA, WriteB, PatchAB, Skill, Broken}
MCBatches == {<<ListD>>, <<WriteA>>, <<PatchAB, ListD>>,
              <<ReadA, WriteB, WriteA>>,  \* the third waits for the first
              <<WriteB, Broken, ReadA>>,  \* one wave, two groups
              <<WriteA, Skill>>}          \* two waves
=============================================================================
