---------------------------- MODULE MCWorkspaces ----------------------------
(* The workspace of an agent at four depths, which share no variable: the  *)
(* execution of its tools, the locks and the tool catalog, the servers of  *)
(* the MCP service, and the symbol index.  A behaviour runs one of them,   *)
(* and the others stay in their initial state.                             *)
EXTENDS MCToolExecution, MCWorkspaceAuthority, MCPService, SymbolIndex, TLC

CONSTANTS y1, v1

VARIABLE focus

WorkspacesInit ==
    /\ Init /\ AuthorityInit /\ MCPInit /\ rootDir = roots.agent /\ IndexInit
    /\ focus \in {"tools", "authority", "servers", "index"}

\* All but the locks come to rest when their callers have nothing left to do.
WorkspacesNext ==
    \/ focus = "tools" /\ (MCNext \/ UNCHANGED vars)
       /\ UNCHANGED <<authorityVars, mcpVars, indexVars>>
    \/ focus = "authority" /\ ApartNext
       /\ UNCHANGED <<vars, mcpVars, indexVars>>
    \/ focus = "servers" /\ (MCPNext \/ UNCHANGED mcpVars)
       /\ UNCHANGED <<vars, authorityVars, indexVars>>
    \/ focus = "index" /\ (IndexNext \/ UNCHANGED indexVars)
       /\ UNCHANGED <<vars, authorityVars, mcpVars>>

WorkspacesSpec ==
    WorkspacesInit
    /\ [][WorkspacesNext /\ UNCHANGED focus]_<<focus, vars, authorityVars, mcpVars, indexVars>>

\* Types of the variables of all four.
WorkspacesTypeOK ==
    /\ TypeOK /\ AuthorityTypeOK /\ MCPTypeOK /\ IndexTypeOK

\* The workspace of the indexed file.
HomeOfFile == (y1 :> v1)

\* The calls of ConnectServer are alike, and so are the workspaces, which have
\* one name in both.
Interchangeable == Permutations(Connects) \cup Permutations(Roots)
=============================================================================
