----------------------------- MODULE PlanCheck ------------------------------
(***************************************************************************)
(* One plan built and applied under every small configuration that         *)
(* validation accepts: aliases may share group IDs, stand for several, and *)
(* be listed in any order.                                                 *)
(***************************************************************************)
EXTENDS Planner, Graph

CONSTANTS
    Aliases,     \* aliases of identity.groups
    IDs,         \* group IDs of the directory
    MaxListed    \* bound: group IDs of an alias, aliases of an assertion list

VARIABLES
    cfg,      \* the configuration
    adds,     \* additions still to make
    removes,  \* removals still to make
    pc

Lists(S) == UNION { [1..n -> S] : n \in 0..MaxListed }

Configs ==
    { c \in [groups : [Aliases -> Lists(IDs)],
             rules : { << [name |-> 1, when |-> [id : {1}, groups : SUBSET Aliases],
                           states |-> [st \in States |->
                              IF st = "active" THEN [present |-> p, absent |-> a]
                              ELSE [present |-> <<>>, absent |-> <<>>]]] >> :
                       p \in Lists(Aliases), a \in Lists(Aliases) }] :
        validateIdentity(c) /\ validateRules(c) }

Open == [source |-> 1, id |-> 1, subject |-> 1, starts_at |-> 1, ends_at |-> 2, cancelled |-> FALSE]

PlanAssertions == Assertions(cfg, Resolve(cfg, 1, member[1]), {Open}, 1)

Init ==
    /\ cfg \in Configs
    /\ member \in [{1} -> SUBSET IDs]
    /\ adds = {} /\ removes = {}
    /\ pc = "build"

Build ==
    /\ pc = "build"
    /\ LET user == Resolve(cfg, 1, member[1])
       IN  /\ adds' = AddGroups(PlanAssertions, user)
           /\ removes' = RemoveGroups(PlanAssertions, user)
    /\ pc' = "apply"
    /\ UNCHANGED <<cfg, member>>

Add ==
    /\ pc = "apply" /\ adds # {}
    /\ AddGroupMember(1, cfg.groups[Min(adds)][1])
    /\ adds' = adds \ {Min(adds)}
    /\ UNCHANGED <<cfg, removes, pc>>

Remove ==
    /\ pc = "apply" /\ adds = {} /\ removes # {}
    /\ RemoveGroupMember(1, cfg.groups[Min(removes)][1])
    /\ removes' = removes \ {Min(removes)}
    /\ UNCHANGED <<cfg, adds, pc>>

Done ==
    /\ pc = "apply" /\ adds = {} /\ removes = {}
    /\ pc' = "done"
    /\ UNCHANGED <<cfg, member, adds, removes>>

Next == Build \/ Add \/ Remove \/ Done

Spec == Init /\ [][Next]_<<cfg, member, adds, removes, pc>>

(* A plan carried out to its end leaves every asserted alias as asserted,  *)
(* with the additions first and however aliases overlap, and planning      *)
(* again finds nothing to do.  On the way Graph refuses no write for what  *)
(* an earlier write of the same plan did: every group still to be added is *)
(* not yet there, every group still to be removed is.                      *)
AppliedPlanSatisfies ==
    /\ \A alias \in adds : cfg.groups[alias][1] \notin member[1]
    /\ \A alias \in removes : cfg.groups[alias][1] \in member[1]
    /\ pc = "done" => Satisfies(Resolve(cfg, 1, member[1]), PlanAssertions)
=============================================================================
