------------------------------ MODULE MCSession ------------------------------
(* The instance of Session that TLC checks. *)
EXTENDS Session

MCBatches == {<<"edit", "read">>}

\* A call that names a path, one with a further argument, one the schema
\* refuses, a read, and a command of the blocked list.
Call(tool, args) == [tool |-> tool, args |-> args]
one == Call("edit", {"path"})
all == Call("edit", {"path", "all"})
bad == Call("edit", {"blah"})
look == Call("read", {"path"})
cmd == Call("shell", {"rm"})

MCCallBatches == {<<bad, look, cmd, one>>, <<all>>}
MCInvalid == {bad}
MCBlocked == {cmd}
MCHandRules == {[tool |-> "edit", needs |-> {}, action |-> "ask"]}

\* No row, or one the user has verified
MCEarlierRows == {NoRow, [status |-> "verified", source |-> "S", version |-> "old"]}
MCLosers == {{"g"}}
==============================================================================
