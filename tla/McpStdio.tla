------------------------------ MODULE McpStdio ------------------------------
(***************************************************************************)
(* JSON-RPC over a child process (mcp.py): JsonRpcClient numbers requests, *)
(* StdioTransport lets one at a time own the stream, writes it, and takes  *)
(* lines from the queue its reader thread fills until one ends the         *)
(* request.  A request's deadline runs from before it gets the stream, but *)
(* is looked at only once the request is written: the wait for the stream  *)
(* and the write have none.                                                *)
(*                                                                         *)
(* A request is known by its place in `requests`, its id is what it has on *)
(* the wire.  The server is external: it answers what it was sent, in any  *)
(* order, late, twice or never, and may notify, print other text, make     *)
(* requests of its own, whose ids are its own too, stop reading its input, *)
(* close its output or exit.  A line in the pipe counts as queued: the     *)
(* reader thread only copies it.                                           *)
(***************************************************************************)
EXTENDS Naturals, Sequences, FiniteSets

CONSTANTS
    MaxRequests,  \* bound: calls of JsonRpcClient.call
    MaxThreads,   \* bound: calls under way together
    MaxStray,     \* bound: lines of the server that no request asked for
    KeptNotes     \* notifications the transport keeps (100)

ASSUME McpAssumption ==
    /\ MaxRequests \in Nat /\ MaxThreads \in Nat /\ MaxStray \in Nat
    /\ KeptNotes \in Nat \ {0}

VARIABLES
    requests,   \* each call: its id, where it is, its deadline, how it ended
    asked,      \* requests the server has been sent and not answered
    answered,   \* requests the server has answered
    responses,  \* StdioTransport._responses behind the server's stdout
    server,     \* "up", "deaf" (it reads no more), "mute" (its output is closed)
                \* or "exited"
    notes,      \* how many notifications are kept
    strays      \* unasked lines so far, for the bound

mcp == <<requests, asked, answered, responses, server, notes, strays>>

Ends == {"answered", "no result", "timeout", "mismatch", "not json", "closed"}

\* What the server wrote: an answer to request n or the same once more, a request
\* of its own with the id n, a line without an id, the end of its output.
Line(kind, n) == [kind |-> kind, request |-> n]
EndOfOutput == Line("eof", 0)

At(where) == {n \in DOMAIN requests : requests[n].at = where}
Holding == At("sending") \cup At("receiving")
Open == At("queued") \cup Holding

McpInit ==
    /\ requests = <<>> /\ asked = {} /\ answered = {} /\ responses = <<>>
    /\ server = "up" /\ notes = 0 /\ strays = 0

-----------------------------------------------------------------------------
(* JsonRpcClient.call and StdioTransport.request *)

\* _next_id, read and advanced under the lock
NextRequestId == Len(requests) + 1

IssueRequest ==
    /\ Len(requests) < MaxRequests /\ Cardinality(Open) < MaxThreads
    /\ requests' = Append(requests,
                          [id |-> NextRequestId, at |-> "queued", late |-> FALSE,
                           end |-> "none", got |-> 0])
    /\ UNCHANGED <<asked, answered, responses, server, notes, strays>>

PassDeadline(n) ==
    /\ n \in Open /\ ~requests[n].late
    /\ requests' = [requests EXCEPT ![n].late = TRUE]
    /\ UNCHANGED <<asked, answered, responses, server, notes, strays>>

End(n, how, got) ==
    requests' = [requests EXCEPT ![n].at = "ended", ![n].end = how, ![n].got = got]

\* Mutant: requests do not wait for the one that owns the stream.
TakeAtOnce(n) ==
    /\ n \in At("queued") /\ server # "exited"
    /\ requests' = [requests EXCEPT ![n].at = "sending"]
    /\ UNCHANGED <<asked, answered, responses, server, notes, strays>>

\* The stream is free and poll() knows of no exit: the write begins, whether or
\* not the deadline has passed.
TakeStream(n) ==
    /\ n \in At("queued") /\ Holding = {} /\ server # "exited"
    /\ requests' = [requests EXCEPT ![n].at = "sending"]
    /\ UNCHANGED <<asked, answered, responses, server, notes, strays>>

\* write and flush return: the line is in the pipe, where a server that reads no
\* more leaves it.
SendRequest(n) ==
    /\ n \in At("sending") /\ server # "exited"
    /\ requests' = [requests EXCEPT ![n].at = "receiving"]
    /\ asked' = IF server = "deaf" THEN asked ELSE asked \cup {n}
    /\ UNCHANGED <<answered, responses, server, notes, strays>>

\* poll() tells of the exit, or the pipe is broken.
SendFails(n) ==
    /\ \/ n \in At("queued") /\ Holding = {} /\ server = "exited"
       \/ n \in At("sending") /\ server \in {"mute", "exited"}
    /\ End(n, "closed", 0)
    /\ UNCHANGED <<asked, answered, responses, server, notes, strays>>

\* Mutant: the wait for a line has no timeout.
WaitForEver(n) ==
    /\ n \in At("receiving") /\ requests[n].late /\ responses # <<>>
    /\ End(n, "timeout", 0)
    /\ UNCHANGED <<asked, answered, responses, server, notes, strays>>

\* The answer, if one comes, stays in the queue.
TimeOutRequest(n) ==
    /\ n \in At("receiving") /\ requests[n].late
    /\ End(n, "timeout", 0)
    /\ UNCHANGED <<asked, answered, responses, server, notes, strays>>

\* A notification is kept and the wait goes on; any other line ends the request.
\* An id decides, whoever gave it: a request of the server with this very id
\* passes for the response, in which JsonRpcClient.call then finds no result.
ReceiveLine(n) ==
    /\ n \in At("receiving") /\ ~requests[n].late
    /\ responses # <<>> /\ responses' = Tail(responses)
    /\ LET line == Head(responses)
           own == requests[line.request].id = requests[n].id
       IN  \/ /\ line.kind = "note"
              /\ notes' = IF notes < KeptNotes THEN notes + 1 ELSE notes
              /\ UNCHANGED requests
           \/ /\ line.kind = "eof" /\ End(n, "closed", 0)
              /\ UNCHANGED notes
           \/ /\ line.kind = "text" /\ End(n, "not json", 0)
              /\ UNCHANGED notes
           \/ /\ line.kind = "answer"
              /\ End(n, IF own THEN "answered" ELSE "mismatch", line.request)
              /\ UNCHANGED notes
           \/ /\ line.kind = "again"
              /\ End(n, IF own THEN "answered" ELSE "mismatch", 0)
              /\ UNCHANGED notes
           \/ /\ line.kind = "request"
              /\ End(n, IF line.request = requests[n].id THEN "no result" ELSE "mismatch", 0)
              /\ UNCHANGED notes
    /\ UNCHANGED <<asked, answered, server, strays>>

-----------------------------------------------------------------------------
(* The server and its end *)

Writing == server \in {"up", "deaf"}

ServerAnswers(n) ==
    /\ Writing /\ n \in asked
    /\ asked' = asked \ {n} /\ answered' = answered \cup {n}
    /\ responses' = Append(responses, Line("answer", n))
    /\ UNCHANGED <<requests, server, notes, strays>>

\* A notification or a line that is no JSON object; a request of the server, ping
\* or roots/list, under any id of its own; an answer it has given before.
ServerStrays(kind, n) ==
    /\ Writing /\ strays < MaxStray
    /\ \/ kind \in {"note", "text"} /\ n = 0
       \/ kind = "request" /\ n \in 0..MaxRequests
       \/ kind = "again" /\ n \in answered
    /\ strays' = strays + 1
    /\ responses' = Append(responses, Line(kind, n))
    /\ UNCHANGED <<requests, asked, answered, server, notes>>

\* The server lives and writes on, but never reads its input again.
ServerDeaf ==
    /\ server = "up" /\ server' = "deaf"
    /\ UNCHANGED <<requests, asked, answered, responses, notes, strays>>

\* The reader thread puts one None; close() terminates the process.
ServerStops(how) ==
    /\ \/ Writing /\ responses' = Append(responses, EndOfOutput)
       \/ server = "mute" /\ how = "exited" /\ UNCHANGED responses
    /\ server' = how
    /\ UNCHANGED <<requests, asked, answered, notes, strays>>

-----------------------------------------------------------------------------
McpNext ==
    \/ IssueRequest
    \/ \E n \in DOMAIN requests :
        \/ PassDeadline(n) \/ TakeStream(n) \/ SendRequest(n) \/ SendFails(n)
        \/ TimeOutRequest(n) \/ ReceiveLine(n) \/ ServerAnswers(n)
    \/ \E kind \in {"note", "text", "request", "again"}, n \in 0..MaxRequests :
        ServerStrays(kind, n)
    \/ ServerDeaf
    \/ \E how \in {"mute", "exited"} : ServerStops(how)

McpSpec == McpInit /\ [][McpNext]_mcp

\* Time passes, a free lock is taken, a thread that can go on does.  A write ends
\* while the server reads, and fails once it has exited; while the server lives
\* and does not read, nothing makes it end.
Advance(n) ==
    /\ n \in DOMAIN requests
    /\ \/ TakeStream(n) \/ TimeOutRequest(n) \/ ReceiveLine(n) \/ PassDeadline(n)
       \/ server = "up" /\ SendRequest(n)
       \/ server = "exited" /\ SendFails(n)
McpFairness == \A n \in 1..MaxRequests : WF_mcp(Advance(n))

\* A write is blocked for as long as the server lives, with every call that waits
\* for the stream, whatever their deadlines: mcp.py:92 has the reader thread there
\* so that "a silent MCP process" does not block the gateway "forever", but
\* the write (mcp.py:138-143) is not in its care.
WriteBlocked == At("sending") # {} /\ server \in {"deaf", "mute"}

-----------------------------------------------------------------------------
(* Properties *)

McpTypeOK ==
    /\ \A n \in DOMAIN requests :
        /\ requests[n].at \in {"queued", "sending", "receiving", "ended"}
        /\ requests[n].end \in Ends \cup {"none"}
        /\ requests[n].end = "none" <=> n \in Open
        /\ requests[n].got \in 0..Len(requests)
    /\ asked \cup answered \subseteq DOMAIN requests
    /\ server \in {"up", "deaf", "mute", "exited"}
    /\ notes \in 0..KeptNotes /\ strays \in 0..MaxStray

\* A call returns the answer the server gave to that very call.  One that takes
\* the first answer of another call, and fails by its id, takes that of a call
\* which had left the stream without it, never that of a call still waiting or
\* already served: the stream has one owner at a time, and an answer one reader.
\* (got = 0: the foreign id was the server's own, of a request it made or of an
\* answer it repeated; StdioTransport has no place for either, and the call in
\* whose time it comes fails.)
McpOwnAnswer ==
    \A n \in DOMAIN requests :
        LET source == requests[n].got
        IN  /\ requests[n].end = "answered" => source = n
            /\ requests[n].end = "mismatch" /\ source # 0 =>
                requests[source].end \in {"timeout", "mismatch", "not json", "no result"}
=============================================================================
