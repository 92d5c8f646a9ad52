------------------------------- MODULE Session -------------------------------
(***************************************************************************)
(* The parts of an interactive session that work behind one another's      *)
(* interfaces (bootstrap.py wires them): the agent loop, the budget and    *)
(* the trace of a run, the MCP client, the language server client, the     *)
(* managed memory, the admission of tool calls and the code index.         *)
(*                                                                         *)
(* No variable belongs to two of them: what one gives another, an answer,  *)
(* a tool's result, a rule's verdict, is nondeterministic in the module of *)
(* the one that receives it.  A behaviour of all of them is therefore any  *)
(* shuffle of behaviours of each, and a property that speaks of one part   *)
(* holds of the shuffles exactly when it holds of that part alone: `focus` *)
(* is the part a behaviour moves, and the others rest where they began.    *)
(***************************************************************************)
EXTENDS AgentLoop, RunAccounting, McpStdio, LanguageServer,
        ManagedMemory, ToolAdmission, CodeIndex

VARIABLE focus

sessionVars == <<focus, vars, accounting, mcp, lsp, memory, admission, index>>

Parts == {"loop", "accounting", "mcp", "lsp", "memory", "admission", "index"}

SessionInit ==
    /\ focus \in Parts
    /\ Init /\ AccountingInit /\ McpInit /\ LspInit
    /\ MemoryInit /\ AdmissionInit /\ IndexInit
    /\ focus # "lsp" => text = CHOOSE content \in Texts : TRUE
    /\ focus # "memory" => rows = [f \in Facts |-> CHOOSE row \in EarlierRows : TRUE]

SessionNext ==
    /\ UNCHANGED focus
    /\ \/ focus = "loop" /\ Next
          /\ UNCHANGED <<accounting, mcp, lsp, memory, admission, index>>
       \/ focus = "accounting" /\ AccountingNext
          /\ UNCHANGED <<vars, mcp, lsp, memory, admission, index>>
       \/ focus = "mcp" /\ McpNext
          /\ UNCHANGED <<vars, accounting, lsp, memory, admission, index>>
       \/ focus = "lsp" /\ LspNext
          /\ UNCHANGED <<vars, accounting, mcp, memory, admission, index>>
       \/ focus = "memory" /\ MemoryNext
          /\ UNCHANGED <<vars, accounting, mcp, lsp, admission, index>>
       \/ focus = "admission" /\ AdmissionNext
          /\ UNCHANGED <<vars, accounting, mcp, lsp, memory, index>>
       \/ focus = "index" /\ IndexNext
          /\ UNCHANGED <<vars, accounting, mcp, lsp, memory, admission>>

\* The fairness of the loop (AgentLoop!FairSpec), of the MCP calls and of the
\* diagnosis.  Nothing is fair about a user who is asked, or a server that lives
\* and does not read.
SessionSpec ==
    /\ SessionInit /\ [][SessionNext]_sessionVars
    /\ WF_pc(Goes)
    /\ McpFairness /\ LspFairness

SessionTypeOK ==
    /\ focus \in Parts
    /\ TypeOK /\ AccountingTypeOK /\ McpTypeOK /\ LspTypeOK
    /\ MemoryTypeOK /\ AdmissionTypeOK /\ IndexTypeOK

\* A run of the loop (loop.py), an MCP call (mcp.py) or a diagnosis (lsp.py)
\* that has not ended
Waiting == pc # "idle" \/ Open # {} \/ UnderWay

\* What a prompt waits for ends, or is one of the three waits without a deadline:
\* every run comes to an end unless the loop waits for the user's answer or for a
\* diagnosis (policy.py:83 and 351); every MCP call is answered, fails or times out
\* whatever the server writes, unless the write of a request never ends
\* (mcp.py:138-143); every diagnosis ends by the server's answer, its end or the
\* deadline, unless a server that lives on no longer reads the long text it is
\* being sent (lsp.py).
SessionSettles == Waiting ~> ~Waiting \/ pc = "asks" \/ WriteBlocked \/ Stuck

=============================================================================
