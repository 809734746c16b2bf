------------------------------- MODULE Graph --------------------------------
(***************************************************************************)
(* internal/graph/client.go and the Entra directory behind it.  Each       *)
(* subject names one user; member[s] is the set of group IDs it is a       *)
(* member of.  The directory is external: it is modelled from the requests *)
(* the client sends and the answers it accepts.                            *)
(***************************************************************************)
EXTENDS Config

VARIABLE member

(* The aliases a membership set stands for: an alias holds when any of its *)
(* group IDs does.                                                         *)
AliasesOf(c, ids) == { alias \in DOMAIN c.groups : Range(c.groups[alias]) \cap ids # {} }

Resolve(c, s, ids) == [id |-> s, groups |-> AliasesOf(c, ids)]

(* POST .../members/$ref is refused for a user who is a member already. *)
AddGroupMember(s, id) ==
    /\ id \notin member[s]
    /\ member' = [member EXCEPT ![s] = @ \cup {id}]

(* DELETE .../members/{user}/$ref is refused for a user who is not a member. *)
RemoveGroupMember(s, id) ==
    /\ id \in member[s]
    /\ member' = [member EXCEPT ![s] = @ \ {id}]
=============================================================================
