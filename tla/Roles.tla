-------------------------------- MODULE Roles --------------------------------
(* The roles of the school and what one may do about another.              *)
EXTENDS Naturals

Rank == [SUPER_ADMIN |-> 4, ADMIN |-> 3, MANAGER |-> 2, TEACHER |-> 1, PARENT |-> 0]
RoleNames == DOMAIN Rank

\* hasRoleAtLeast: a higher role may do what a lower one may.
AtLeast(role, least) == Rank[role] >= Rank[least]
UpFrom(least) == {r \in RoleNames : AtLeast(r, least)}

\* canCreateRole and canManageRole: every lower role of the staff.
ManagesRole(actor, target) == actor # target /\ Rank[target] \in 1..Rank[actor]
=============================================================================
