------------------------------ MODULE Preview -------------------------------
(***************************************************************************)
(* `plan --event' (cmd/metabasis/command.go, Service.PlanEvent): an event  *)
(* is laid over the stored intents of its subject, planned for, and the    *)
(* plan written (output.go); the event may then be delivered for real.     *)
(* Without an event this is the plan that an `apply' of the subject        *)
(* reports.  Nothing is locked, and nothing else happens in between.       *)
(***************************************************************************)
EXTENDS Store, Planner, Graph

CONSTANTS
    Cfg,      \* the loaded configuration
    Events,   \* valid intents, stored and previewed; by key and subject
    Source    \* the only configured webhook source

VARIABLES
    event,   \* the event file's content, or NoIntent
    listed,  \* the intents of the subject, as planned for
    plan,    \* the plan
    page,    \* what writePlan says of it
    pc

pvars == <<intents, state, subjectLock, identityLock, member, event, listed, plan, page, pc>>

Subject == 1
Now == 2

Storable(k) == { i \in Events : Key(i) = k } \cup {NoIntent}

Init ==
    /\ intents \in { f \in [Keys -> Events \cup {NoIntent}] : \A k \in Keys : f[k] \in Storable(k) }
    /\ state = [s \in Subjects |-> ZeroState]
    /\ subjectLock = [s \in Subjects |-> Nobody] /\ identityLock = [k \in Keys |-> Nobody]
    /\ member \in [{Subject} -> SUBSET UNION { Range(Cfg.groups[a]) : a \in DOMAIN Cfg.groups }]
    /\ event \in { i \in Events : i.subject = Subject /\ i.source = Source } \cup {NoIntent}
    /\ listed = {} /\ plan = [built |-> FALSE] /\ page = [written |-> FALSE]
    /\ pc = "list"

-----------------------------------------------------------------------------
(* Service.PlanEvent *)

Overlay_ById(stored) == { i \in stored : i.id # event.id } \cup {event}

(* The intent the event would replace is replaced, or the event appended. *)
Overlay(stored) == { i \in stored : Key(i) # Key(event) } \cup {event}

ListIntents ==
    /\ pc = "list"
    /\ listed' = IF event = NoIntent THEN IntentsOf(Subject) ELSE Overlay(IntentsOf(Subject))
    /\ pc' = "build"
    /\ UNCHANGED <<intents, state, subjectLock, identityLock, member, event, plan, page>>

PlanFor(wanted, user) ==
    [built |-> TRUE, intents |-> wanted, rule |-> RuleIndex(Cfg, user), current |-> user.groups,
     present |-> Assertions(Cfg, user, wanted, Now).present,
     absent |-> Assertions(Cfg, user, wanted, Now).absent,
     add |-> AddGroups(Assertions(Cfg, user, wanted, Now), user),
     remove |-> RemoveGroups(Assertions(Cfg, user, wanted, Now), user)]

User == Resolve(Cfg, Subject, member[Subject])

Build ==
    /\ pc = "build"
    /\ plan' = PlanFor(listed, User)
    /\ pc' = "write"
    /\ UNCHANGED <<intents, state, subjectLock, identityLock, member, event, listed, page>>

-----------------------------------------------------------------------------
(* writePlan *)

noChangeReason(p) ==
    IF p.intents = {} THEN "no intents"
    ELSE IF p.rule = 0 THEN "no rule"
    ELSE IF p.present \cup p.absent = {} THEN "no assertions"
    ELSE "satisfied"

Preserved(p) == p.current \ (p.present \cup p.absent)

(* Each line states the change it finds by looking at the memberships; the *)
(* last line gives the number of changes in the plan.                      *)
WritePlan ==
    /\ pc = "write"
    /\ page' = [written |-> TRUE,
                satisfied |-> (plan.present \cap plan.current) \cup (plan.absent \ plan.current),
                add |-> plan.present \ plan.current,
                remove |-> plan.absent \cap plan.current,
                preserved |-> Preserved(plan),
                proposed |-> <<Cardinality(plan.add), Cardinality(plan.remove)>>,
                reason |-> noChangeReason(plan)]
    /\ pc' = "written"
    /\ UNCHANGED <<intents, state, subjectLock, identityLock, member, event, listed, plan>>

(* The event arrives at the webhook. *)
Deliver ==
    /\ pc = "written" /\ event # NoIntent
    /\ UpsertIntent(event, {intents[Key(event)].subject, Subject} \ {Blank}, Now)
    /\ pc' = "delivered"
    /\ UNCHANGED <<subjectLock, identityLock, member, event, listed, plan, page>>

Next == ListIntents \/ Build \/ WritePlan \/ Deliver

Spec == Init /\ [][Next]_pvars

-----------------------------------------------------------------------------
(* Properties *)

PlanIsExplained ==
    page.written =>
        /\ page.proposed = <<Cardinality(page.add), Cardinality(page.remove)>>
        /\ (page.satisfied \cap plan.current) \cup page.preserved \cup page.remove = plan.current
        /\ page.preserved \cap (page.satisfied \cup page.remove) = {}
        /\ plan.add \cup plan.remove = {} =>
              /\ page.reason = "satisfied" <=> plan.present \cup plan.absent # {}
              /\ page.reason = "no intents" <=> listed = {}
              /\ page.reason = "no rule" =>
                    \A i \in Events : Satisfies(User, Assertions(Cfg, User, {i}, Now))

(* What was previewed is what delivering the event makes the service do:   *)
(* also when it replaces a stored intent, takes one over from another      *)
(* subject, or has the ID of an intent of another source.  And the page    *)
(* explains it truly: its lines and the number of changes agree; every     *)
(* configured membership the user has is kept, preserved or removed, one   *)
(* of the three; and the reason given for no change holds: where it is     *)
(* that no rule applies, no intent would change that.                      *)
PreviewIsWhatHappens ==
    /\ pc = "delivered" => plan = PlanFor(IntentsOf(Subject), User)
    /\ PlanIsExplained
=============================================================================
