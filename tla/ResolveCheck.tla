---------------------------- MODULE ResolveCheck ----------------------------
(***************************************************************************)
(* internal/graph/client.go: Resolve, request by request.  The group IDs   *)
(* of the configuration are asked for in batches while the memberships may *)
(* be changed from elsewhere.  `answer' is a history variable: what Graph  *)
(* said of each ID, in every request that asked for it.                    *)
(***************************************************************************)
EXTENDS Graph, SequencesExt, FiniteSetsExt

CONSTANTS
    Aliases,    \* aliases of identity.groups
    IDs,        \* group IDs
    MaxIDs,     \* bound: group IDs of one alias
    Limit,      \* checkMemberGroupsLimit
    MaxChanges  \* bound: memberships changed by others meanwhile

VARIABLES
    groupAliases,  \* alias -> sequence of group IDs
    start,         \* the index of the loop in checkMemberGroups
    memberships,   \* the IDs returned so far
    user,          \* the aliases of the resolved user
    pc,            \* get, check, done or failed
    changes,       \* memberships changed by others
    answer         \* ID -> sequence of answers

rvars == <<member, groupAliases, start, memberships, user, pc, changes, answer>>

Ascending(S) ==
    CHOOSE s \in [1..Cardinality(S) -> S] : \A i, j \in DOMAIN s : i < j => s[i] < s[j]

(* The distinct configured IDs, in order. *)
groupIDs == Ascending(UNION { Range(groupAliases[a]) : a \in Aliases })

Init ==
    /\ groupAliases \in [Aliases -> { l \in SeqOf(IDs, MaxIDs) : l # <<>> /\ IsInjective(l) }]
    /\ member \in [{1} -> SUBSET IDs]
    /\ start = 0 /\ memberships = {} /\ user = {} /\ pc = "get" /\ changes = 0
    /\ answer = [id \in IDs |-> <<>>]

GetUser ==
    /\ pc = "get"
    /\ pc' = "check"
    /\ UNCHANGED <<member, groupAliases, start, memberships, user, changes, answer>>

Batch_ShortByOne == SubSeq(groupIDs, start + 1, Min({start + Limit, Len(groupIDs) - 1}))

Batch == SubSeq(groupIDs, start + 1, Min({start + Limit, Len(groupIDs)}))

(* One request of checkMemberGroups: it answers with the IDs the user is a *)
(* member of.                                                              *)
checkMemberGroups ==
    /\ pc = "check" /\ start < Len(groupIDs)
    /\ memberships' = memberships \cup (Range(Batch) \cap member[1])
    /\ answer' = [id \in IDs |-> IF id \in Range(Batch) THEN Append(answer[id], id \in member[1])
                                 ELSE answer[id]]
    /\ start' = start + Limit
    /\ UNCHANGED <<member, groupAliases, user, pc, changes>>

(* Any request that fails fails the whole. *)
RequestFails ==
    /\ pc = "get" \/ (pc = "check" /\ start < Len(groupIDs))
    /\ pc' = "failed"
    /\ UNCHANGED <<member, groupAliases, start, memberships, user, changes, answer>>

(* The aliases of every ID that was returned. *)
Resolved ==
    /\ pc = "check" /\ start >= Len(groupIDs)
    /\ user' = UNION { { a \in Aliases : id \in Range(groupAliases[a]) } : id \in memberships }
    /\ pc' = "done"
    /\ UNCHANGED <<member, groupAliases, start, memberships, changes, answer>>

Elsewhere ==
    /\ changes < MaxChanges /\ pc = "check"
    /\ \E id \in IDs : member' = [member EXCEPT ![1] = IF id \in @ THEN @ \ {id} ELSE @ \cup {id}]
    /\ changes' = changes + 1
    /\ UNCHANGED <<groupAliases, start, memberships, user, pc, answer>>

Next == GetUser \/ checkMemberGroups \/ RequestFails \/ Resolved \/ Elsewhere

Spec == Init /\ [][Next]_rvars

-----------------------------------------------------------------------------
(* Properties *)

(* A resolved user has an alias exactly when Graph confirmed one of its    *)
(* IDs, and every configured ID was asked for once: no batch boundary      *)
(* drops an ID or asks for it twice, however many there are.               *)
ResolvedIsConfirmed ==
    pc = "done" =>
        /\ \A a \in Aliases : a \in user <=> \E id \in Range(groupAliases[a]) : answer[id] = <<TRUE>>
        /\ \A id \in Range(groupIDs) : Len(answer[id]) = 1
        /\ changes = 0 => user = AliasesOf([groups |-> groupAliases], member[1])
=============================================================================
