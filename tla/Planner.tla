------------------------------- MODULE Planner ------------------------------
(***************************************************************************)
(* internal/planner/planner.go: Build, as the operators its parts compute. *)
(* The stored intents of a subject are a set: Build's result depends on    *)
(* their order only in how they are listed.  Alias lists are sets, which   *)
(* is what uniqueSorted makes of them.                                     *)
(***************************************************************************)
EXTENDS Intent, Config

(* The earliest phase boundary after now.  Service computes it before it   *)
(* resolves the user, Build again with the plan: one definition for both.  *)
nextTransitionAt(intents, now) ==
    LET transitions == { NextTransitionAt(i, now) : i \in intents } \ {Null}
    IN  IF transitions = {} THEN Null ELSE Min(transitions)

AggregateState_PendingFirst(intents, now) ==
    IF \E i \in intents : PhaseAt(i, now) = "pending" THEN "pending"
    ELSE IF \E i \in intents : PhaseAt(i, now) = "active" THEN "active"
    ELSE IF intents # {} THEN "settled"
    ELSE "none"

(* Active wins over pending, pending over settled; "none" is the empty     *)
(* State of a subject without intents.                                     *)
AggregateState(intents, now) ==
    IF \E i \in intents : PhaseAt(i, now) = "active" THEN "active"
    ELSE IF \E i \in intents : PhaseAt(i, now) = "pending" THEN "pending"
    ELSE IF intents # {} THEN "settled"
    ELSE "none"

Matches(c, user) == { i \in DOMAIN c.rules : user \in c.rules[i].when }

(* The first rule whose condition selects the user; 0 is no rule. *)
RuleIndex(c, user) == IF Matches(c, user) = {} THEN 0 ELSE Min(Matches(c, user))

(* The membership assertions of a subject: what Build puts in              *)
(* PresentGroups and AbsentGroups.                                         *)
Assertions(c, user, intents, now) ==
    LET rule == RuleIndex(c, user)
        st == AggregateState(intents, now)
    IN  IF rule = 0 \/ st = "none" THEN [present |-> {}, absent |-> {}]
        ELSE [present |-> Range(c.rules[rule].states[st].present),
              absent |-> Range(c.rules[rule].states[st].absent)]

AddGroups(a, user) == a.present \ user.groups

RemoveGroups_All(a, user) == a.absent

RemoveGroups(a, user) == a.absent \cap user.groups

(* The memberships of a user are what a set of assertions asks for. *)
Satisfies(user, a) == a.present \subseteq user.groups /\ a.absent \cap user.groups = {}
=============================================================================
