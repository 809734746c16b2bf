------------------------------- MODULE Config -------------------------------
(***************************************************************************)
(* internal/config: the part of the configuration that decides             *)
(* memberships, and its validation.  A configuration is a record           *)
(*   groups : alias -> sequence of group IDs                               *)
(*   rules  : sequence of [name, when, states], where `when' is the set of *)
(*            users its CEL condition selects and `states' maps pending,   *)
(*            active and settled to the sequences of aliases asserted      *)
(*            present and absent                                           *)
(* A user is [id, groups]: who it is and the aliases it is a member of.    *)
(***************************************************************************)
EXTENDS Integers, Sequences, Functions

States == {"pending", "active", "settled"}

validateIdentity(c) ==
    /\ DOMAIN c.groups # {}
    /\ \A alias \in DOMAIN c.groups :
          LET groupIDs == c.groups[alias]
          IN  /\ groupIDs # <<>>
              /\ \A i \in DOMAIN groupIDs : groupIDs[i] # 0
              /\ \A i, j \in DOMAIN groupIDs : groupIDs[i] = groupIDs[j] => i = j

(* Every asserted alias resolves to exactly one group ID. *)
SingleTargets(c, aliases) ==
    \A i \in DOMAIN aliases :
        /\ aliases[i] \in DOMAIN c.groups
        /\ Len(c.groups[aliases[i]]) = 1

validateGroupAssertions_ByAlias(c, a) ==
    /\ SingleTargets(c, a.present) /\ SingleTargets(c, a.absent)
    /\ \A i, j \in DOMAIN a.present : a.present[i] = a.present[j] => i = j
    /\ \A i, j \in DOMAIN a.absent : a.absent[i] = a.absent[j] => i = j
    /\ \A i \in DOMAIN a.present, j \in DOMAIN a.absent : a.present[i] # a.absent[j]

(* No two assertions of one state have the same group as their target,     *)
(* whichever aliases they use: that covers a repeated alias, two aliases   *)
(* of one group, and a group both required and forbidden.                  *)
validateGroupAssertions(c, a) ==
    LET target(alias) == c.groups[alias][1]
    IN  /\ SingleTargets(c, a.present) /\ SingleTargets(c, a.absent)
        /\ \A i, j \in DOMAIN a.present :
              target(a.present[i]) = target(a.present[j]) => i = j
        /\ \A i, j \in DOMAIN a.absent :
              target(a.absent[i]) = target(a.absent[j]) => i = j
        /\ \A i \in DOMAIN a.present, j \in DOMAIN a.absent :
              target(a.present[i]) # target(a.absent[j])

validateRules(c) ==
    /\ c.rules # <<>>
    /\ \A i, j \in DOMAIN c.rules : c.rules[i].name = c.rules[j].name => i = j
    /\ \A i \in DOMAIN c.rules :
          LET states == c.rules[i].states
          IN  /\ \A st \in States : validateGroupAssertions(c, states[st])
              /\ \E st \in States : states[st].present # <<>> \/ states[st].absent # <<>>

(* The groups some rule may write. *)
ManagedIDs(c) ==
    { c.groups[alias][1] : alias \in
        { x \in DOMAIN c.groups : \E i \in DOMAIN c.rules, st \in States :
            x \in Range(c.rules[i].states[st].present) \cup Range(c.rules[i].states[st].absent) } }
=============================================================================
