----------------------- MODULE MCWorkspaceAuthority -----------------------
(* WorkspaceAuthority without the one combination of calls that deadlocks: *)
(* no project switch is requested while a plan tool runs, and no plan tool *)
(* is called while a switch is requested or under way.                     *)
EXTENDS WorkspaceAuthority

Busy(threads) == \E t \in threads : pc'[t] # "idle"

ApartNext == AuthorityNext /\ ~(Busy(Switchers) /\ Busy(PlanTools))

ApartSpec == AuthorityInit /\ [][ApartNext]_authorityVars /\ \A t \in Threads : SF_authorityVars(Step(t))
=============================================================================
