----------------------------- MODULE MCProgress -----------------------------
(* Calls that must end, of two parts which share no variable: executions   *)
(* of tools, and callers of the workspace locks.  A behaviour runs one of  *)
(* them, and the other stays in its initial state.                         *)
EXTENDS MCToolExecution, MCWorkspaceAuthority

VARIABLE focus

ProgressInit == Init /\ AuthorityInit /\ focus \in {"tools", "locks"}

ProgressNext ==
    \/ focus = "tools" /\ MCNext /\ UNCHANGED authorityVars
    \/ focus = "locks" /\ ApartNext /\ UNCHANGED vars

ProgressSpec ==
    /\ ProgressInit
    /\ [][ProgressNext /\ UNCHANGED focus]_<<focus, vars, authorityVars>>
    /\ \A u \in Units : WF_vars(Execution(u))
    /\ \A t \in Threads : SF_authorityVars(Step(t))
=============================================================================
