---------------------------- MODULE LanguageServer ----------------------------
(***************************************************************************)
(* The diagnosis of an edited file (lsp.py): LspManager reads the file and *)
(* asks a language server, started for this one question and ended with    *)
(* it; whatever goes wrong on the way, the built-in parser answers for the *)
(* same text.  The messages of the server reach the client through a queue *)
(* that a reader thread fills.                                             *)
(*                                                                         *)
(* The server is external: it may answer late or never, send messages that *)
(* were not asked for, publish what it reads on disk itself, stop reading  *)
(* its input, or exit.  What diagnostics say is left out; which text they  *)
(* are about is kept.                                                      *)
(***************************************************************************)
EXTENDS Naturals, Sequences

CONSTANTS
    Texts,          \* what the file may hold
    LongTexts,      \* those that do not fit the pipe to the server
    MaxDiagnoses,   \* bound: diagnoses
    MaxTextChanges, \* bound: changes to the file
    MaxMessages     \* bound: messages of one server

ASSUME DiagnosisAssumption ==
    /\ "absent" \notin Texts /\ LongTexts \subseteq Texts
    /\ MaxDiagnoses \in Nat /\ MaxTextChanges \in Nat /\ MaxMessages \in Nat

VARIABLES
    text,         \* the file: one of Texts, or "absent"
    diagnosis,    \* where it is, the text it read, its deadline, what it found
    inbox,        \* the queue of messages
    langServer,   \* "none", "up" or "gone"; whether it reads, was sent the text
    diagnoses, textChanges, messages,  \* for the bounds
    rewritten     \* history: the file has changed since the diagnosis read it

lsp == <<text, diagnosis, inbox, langServer, diagnoses, textChanges, messages, rewritten>>
lspBounds == <<diagnoses, textChanges, messages>>

NoDiagnosis == [at |-> "none", read |-> "absent", late |-> FALSE,
                from |-> "nobody", about |-> "absent"]
NoServer == [at |-> "none", reads |-> TRUE, opened |-> FALSE]

\* A message is its kind and, of diagnostics of the file, the text they are about.
Message(kind, about) == [kind |-> kind, about |-> about]

LspInit ==
    /\ text \in Texts /\ diagnosis = NoDiagnosis
    /\ inbox = <<>> /\ langServer = NoServer
    /\ diagnoses = 0 /\ textChanges = 0 /\ messages = 0
    /\ rewritten = FALSE

UnderWay == diagnosis.at \notin {"none", "done"}

\* A long text is being written to a server that lives and does not read it.
Stuck == /\ diagnosis.at = "opening" /\ diagnosis.read \in LongTexts
         /\ langServer.at = "up" /\ ~langServer.reads

-----------------------------------------------------------------------------
(* LspManager.diagnostics_for, FallbackDiagnosticProvider *)

\* Nothing to diagnose: the report is empty.
Diagnose ==
    /\ ~UnderWay /\ diagnoses < MaxDiagnoses
    /\ diagnoses' = diagnoses + 1 /\ rewritten' = FALSE
    /\ diagnosis' = [NoDiagnosis EXCEPT !.at = IF text = "absent" THEN "done" ELSE "starting",
                                        !.read = text]
    /\ UNCHANGED <<text, inbox, langServer, textChanges, messages>>

Go(place) == diagnosis' = [diagnosis EXCEPT !.at = place]

\* No command is configured, or it cannot be started.
StartFails ==
    /\ diagnosis.at = "starting" /\ Go("parsing")
    /\ UNCHANGED <<text, inbox, langServer, lspBounds, rewritten>>

\* ast.parse of the text that was read
Parse ==
    /\ diagnosis.at = "parsing"
    /\ diagnosis' = [diagnosis EXCEPT !.at = "done", !.from = "parser",
                                    !.about = diagnosis.read]
    /\ UNCHANGED <<text, inbox, langServer, lspBounds, rewritten>>

-----------------------------------------------------------------------------
(* StdioLanguageServerDiagnosticProvider.diagnostics *)

\* Mutant: the queue is kept from one diagnosis to the next.
SameQueue == UNCHANGED inbox

NewQueue == inbox' = <<>>

\* Popen, a queue of its own, the reader threads
StartServer ==
    /\ diagnosis.at = "starting" /\ Go("greeting")
    /\ langServer' = [NoServer EXCEPT !.at = "up"] /\ NewQueue
    /\ messages' = 0
    /\ UNCHANGED <<text, diagnoses, textChanges, rewritten>>

\* The request initialize fits any pipe; writing to a server that is gone fails.
Greet ==
    /\ diagnosis.at = "greeting"
    /\ Go(IF langServer.at = "up" THEN "initializing" ELSE "closing")
    /\ UNCHANGED <<text, inbox, langServer, lspBounds, rewritten>>

\* What is not a message ends the reader thread, and with it the queue.
NextMessage(place) ==
    /\ diagnosis.at = place /\ ~diagnosis.late /\ inbox # <<>>
    /\ inbox' = Tail(inbox)
    /\ UNCHANGED <<text, langServer, lspBounds, rewritten>>

\* _wait_for_response: any message with the request's id and no error will do.
AwaitAnswer ==
    /\ NextMessage("initializing")
    /\ LET kind == Head(inbox).kind
       IN  Go(IF kind = "answer" THEN "opening"
              ELSE IF kind \in {"error", "garbage", "end"} THEN "closing" ELSE "initializing")

\* initialized and didOpen.  The deadline is not looked at: when the server does
\* not read, a long text is written for as long as it lives.
OpenText ==
    /\ diagnosis.at = "opening"
    /\ \/ /\ langServer.at = "gone" /\ Go("closing") /\ UNCHANGED langServer
       \/ /\ langServer.at = "up"
          /\ langServer.reads \/ diagnosis.read \notin LongTexts
          /\ Go("waiting") /\ langServer' = [langServer EXCEPT !.opened = @ \/ langServer.reads]
    /\ UNCHANGED <<text, inbox, lspBounds, rewritten>>

\* _wait_for_diagnostics: the first that is published of the file's uri
AwaitDiagnostics ==
    /\ NextMessage("waiting")
    /\ LET message == Head(inbox)
       IN  diagnosis' =
             IF message.kind = "publish"
             THEN [diagnosis EXCEPT !.at = "closing", !.from = "server", !.about = message.about]
             ELSE IF message.kind \in {"garbage", "end"} THEN [diagnosis EXCEPT !.at = "closing"]
             ELSE diagnosis

\* _next_lsp_message
TimeOut ==
    /\ diagnosis.at \in {"initializing", "waiting"} /\ diagnosis.late
    /\ Go("closing")
    /\ UNCHANGED <<text, inbox, langServer, lspBounds, rewritten>>

PassLspDeadline ==
    /\ diagnosis.at \in {"greeting", "initializing", "opening", "waiting"} /\ ~diagnosis.late
    /\ diagnosis' = [diagnosis EXCEPT !.late = TRUE]
    /\ UNCHANGED <<text, inbox, langServer, lspBounds, rewritten>>

\* finally: shutdown and exit, terminate, then kill
StopServer ==
    /\ diagnosis.at = "closing"
    /\ Go(IF diagnosis.from = "server" THEN "done" ELSE "parsing")
    /\ langServer' = [langServer EXCEPT !.at = "gone"]
    /\ UNCHANGED <<text, inbox, lspBounds, rewritten>>

-----------------------------------------------------------------------------
(* The server, and who else changes the file *)

LangServerSays(message) ==
    /\ langServer.at = "up" /\ messages < MaxMessages
    /\ messages' = messages + 1
    /\ inbox' = Append(inbox, message)
    /\ UNCHANGED <<text, diagnosis, langServer, diagnoses, textChanges, rewritten>>

\* Of the text it was sent, or of what it reads in the workspace
LangServerPublishes ==
    \E about \in {text} \cup (IF langServer.opened THEN {diagnosis.read} ELSE {}) :
        LangServerSays(Message("publish", about))

LangServerEnds ==
    /\ langServer.at = "up" /\ langServer' = [langServer EXCEPT !.at = "gone"]
    /\ inbox' = Append(inbox, Message("end", "absent"))
    /\ UNCHANGED <<text, diagnosis, lspBounds, rewritten>>

LangServerStopsReading ==
    /\ langServer.at = "up" /\ langServer.reads
    /\ langServer' = [langServer EXCEPT !.reads = FALSE]
    /\ UNCHANGED <<text, diagnosis, inbox, lspBounds, rewritten>>

ChangeText(content) ==
    /\ textChanges < MaxTextChanges /\ textChanges' = textChanges + 1
    /\ content # text /\ text' = content
    /\ rewritten' = (rewritten \/ UnderWay)
    /\ UNCHANGED <<diagnosis, inbox, langServer, diagnoses, messages>>

-----------------------------------------------------------------------------
LspAdvance ==
    \/ StartFails \/ StartServer \/ Greet \/ AwaitAnswer \/ OpenText
    \/ AwaitDiagnostics \/ TimeOut \/ PassLspDeadline \/ StopServer \/ Parse

LspNext ==
    \/ Diagnose \/ LspAdvance
    \/ \E kind \in {"answer", "error", "other", "garbage"} : LangServerSays(Message(kind, "absent"))
    \/ LangServerPublishes \/ LangServerEnds \/ LangServerStopsReading
    \/ \E content \in Texts \cup {"absent"} : ChangeText(content)

\* The client's thread goes on, and time passes.
LspFairness == WF_lsp(LspAdvance)
LspSpec == LspInit /\ [][LspNext]_lsp /\ LspFairness

-----------------------------------------------------------------------------
(* Properties *)

LspTypeOK ==
    /\ text \in Texts \cup {"absent"}
    /\ diagnosis.at \in {"none", "starting", "greeting", "initializing", "opening",
                         "waiting", "closing", "parsing", "done"}
    /\ diagnosis.from \in {"nobody", "server", "parser"}
    /\ langServer.at \in {"none", "up", "gone"}
    /\ messages \in 0..MaxMessages

\* What the loop is told of an edited file is about the text that was read for
\* it, never left over from another diagnosis or from another file, unless the
\* server published what it found on disk after a further change; and no server
\* outlives its question.
DiagnosisOfRead ==
    /\ diagnosis.at = "done" => diagnosis.about = diagnosis.read \/ rewritten
    /\ ~UnderWay \/ diagnosis.at = "parsing" => langServer.at # "up"
=============================================================================
