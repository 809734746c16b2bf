------------------------------ MODULE Promise -------------------------------
(***************************************************************************)
(* What metabasis promises, without locks, sessions, attempts, rows or     *)
(* retries: deliveries replace intents, time passes, memberships are       *)
(* written one at a time, and `due' is the set of subjects that may be     *)
(* wrong at the moment and will be looked at again.  Module Reconcile      *)
(* implements it with `due' read off the reconciliation_state table.       *)
(***************************************************************************)
EXTENDS Planner, Graph

CONSTANTS
    Cfg,       \* the loaded configuration
    Subjects,  \* the subjects deliveries and operators may name
    Keys,      \* the (source, id) pairs deliveries may carry
    Accepted,  \* the deliveries that get past Validate
    NoIntent   \* what a key without a row holds

VARIABLES
    intents,  \* Keys -> the accepted intent
    now,      \* the wall clock
    due       \* the subjects that may not conform

vars == <<intents, member, now, due>>

WantedBy(s, t) ==
    Assertions(Cfg, Resolve(Cfg, s, member[s]),
               { intents[k] : k \in { j \in Keys : intents[j].subject = s } }, t)

Conforms(s) == Satisfies(Resolve(Cfg, s, member[s]), WantedBy(s, now))

Init ==
    /\ intents = [k \in Keys |-> NoIntent]
    /\ member \in [Subjects -> SUBSET UNION { Range(Cfg.groups[a]) : a \in DOMAIN Cfg.groups }]
    /\ now = 1
    /\ due = {}

(* A delivery takes effect at once; the subject it names and the one its   *)
(* identity named before become due.                                       *)
Deliver(i) ==
    /\ intents' = [intents EXCEPT ![Key(i)] = i]
    /\ due' = due \cup ({intents[Key(i)].subject, i.subject} \ {Blank})
    /\ UNCHANGED <<member, now>>

(* A boundary makes every subject due whose memberships it makes wrong. *)
Pass ==
    /\ now' = now + 1
    /\ UNCHANGED <<intents, member>>
    /\ due \subseteq due' /\ due' \subseteq Subjects
    /\ \A s \in Subjects \ due' : Conforms(s)'

(* One membership of a due subject is brought to what its accepted intents *)
(* ask for, or asked for at an instant since; no other membership changes. *)
Write(s) ==
    /\ s \in due
    /\ \E t \in 1..now : \E alias \in WantedBy(s, t).present \cup WantedBy(s, t).absent :
          LET id == Cfg.groups[alias][1]
          IN  member' = [member EXCEPT ![s] = IF alias \in WantedBy(s, t).present
                                              THEN @ \cup {id} ELSE @ \ {id}]
    /\ UNCHANGED <<intents, now, due>>

(* A failure makes a subject due that need not be. *)
Suspect(s) ==
    /\ due' = due \cup {s}
    /\ UNCHANGED <<intents, member, now>>

(* A subject is let go of only when it conforms. *)
Settle(s) ==
    /\ Conforms(s)
    /\ due' = due \ {s}
    /\ UNCHANGED <<intents, member, now>>

Next ==
    \/ \E i \in Accepted : Deliver(i)
    \/ Pass
    \/ \E s \in Subjects : Write(s) \/ Suspect(s) \/ Settle(s)

Spec == Init /\ [][Next]_vars
=============================================================================
