-------------------------- MODULE ReconcileProofs ---------------------------
(***************************************************************************)
(* Proofs of the properties of Reconcile and ReconcileLate for every       *)
(* configuration, every set of subjects, deliveries and actors, and every  *)
(* bound, with any number of writes on their way.                          *)
(***************************************************************************)
EXTENDS ReconcileLate, NumberLemmas

-----------------------------------------------------------------------------
(* Facts about the operators *)

(* An accepted delivery is typed, names its subject and has a window. *)
LEMMA AcceptedIsValid ==
    ASSUME NEW i \in Accepted
    PROVE  /\ Key(i) \in Keys /\ i.subject \in Subjects /\ i.subject # Blank
           /\ i.starts_at \in Nat /\ i.ends_at \in Nat /\ i.cancelled \in BOOLEAN
           /\ i.starts_at < i.ends_at
BY DeliveriesAssumption DEF Accepted, Validate

(* A boundary of one intent is a later instant. *)
LEMMA TransitionIsLater ==
    ASSUME NEW i \in Accepted, NEW t \in Nat
    PROVE  /\ NextTransitionAt(i, t) \in Nat \cup {Null}
           /\ NextTransitionAt(i, t) # Null => t < NextTransitionAt(i, t)
BY AcceptedIsValid DEF NextTransitionAt, Null

(* The boundary a plan stores is an instant or nil, later than the plan,   *)
(* and no later than the boundary of any of its intents.                   *)
LEMMA BoundaryIsEarliest ==
    ASSUME NEW I \in SUBSET Accepted, NEW t \in Nat
    PROVE  /\ nextTransitionAt(I, t) \in Nat \cup {Null}
           /\ \A i \in I : NextTransitionAt(i, t) # Null =>
                 /\ nextTransitionAt(I, t) # Null
                 /\ nextTransitionAt(I, t) <= NextTransitionAt(i, t)
<1> DEFINE T == { NextTransitionAt(i, t) : i \in I } \ {Null}
<1>1. T \in SUBSET Nat
    BY TransitionIsLater
<1>2. CASE T = {}
    BY <1>2 DEF nextTransitionAt
<1>3. CASE T # {}
    <2>1. nextTransitionAt(I, t) = Min(T)
        BY <1>3 DEF nextTransitionAt
    <2>2. Min(T) \in T /\ \A x \in T : Min(T) <= x
        BY <1>1, <1>3, MinIsLeast
    <2>3. Min(T) \in Nat /\ Min(T) # Null
        BY <2>2, <1>1 DEF Null
    <2> QED
        BY <2>1, <2>2, <2>3
<1> QED
    BY <1>2, <1>3

(* Until the boundary no phase changes, so the aggregate state does not. *)
LEMMA StateHoldsUntilBoundary ==
    ASSUME NEW I \in SUBSET Accepted, NEW t \in Nat, NEW u \in Nat, t <= u,
           nextTransitionAt(I, t) = Null \/ u < nextTransitionAt(I, t)
    PROVE  AggregateState(I, u) = AggregateState(I, t)
<1>1. ASSUME NEW i \in I
      PROVE  PhaseAt(i, u) = PhaseAt(i, t)
    <2>1. NextTransitionAt(i, t) = Null \/ u < NextTransitionAt(i, t)
        BY BoundaryIsEarliest, TransitionIsLater DEF Null
    <2> QED
        BY <2>1, AcceptedIsValid DEF NextTransitionAt, PhaseAt, Null
<1> QED
    BY <1>1 DEF AggregateState

(* The intents of a subject are accepted deliveries. *)
LEMMA IntentsAreAccepted ==
    ASSUME intents \in [Keys -> Accepted \cup {NoIntent}], NEW s \in Subjects
    PROVE  IntentsOf(s) \in SUBSET Accepted
BY SubjectsAssumption DEF IntentsOf, NoIntent, Blank

-----------------------------------------------------------------------------
(* Type correctness *)

(* Releasing locks leaves every lock with a holder of its kind. *)
LEMMA ReleasedTyped ==
    ASSUME NEW K, NEW A, NEW locks \in [K -> A], Nobody \in A, NEW p
    PROVE  /\ Released(locks, p) \in [K -> A]
           /\ \A x \in K : Released(locks, p)[x] = IF locks[x] = p THEN Nobody ELSE locks[x]
BY DEF Released

(* A plan writes only configured aliases; each stands for one group that   *)
(* the rules manage, and no two of them for the same one.                  *)
LEMMA AssertionsAreValidated ==
    ASSUME NEW u, NEW I, NEW t
    PROVE  LET a == Assertions(Cfg, u, I, t)
           IN  /\ a.present \subseteq Aliases /\ a.absent \subseteq Aliases
               /\ \A x \in a.present \cup a.absent :
                     /\ Range(Cfg.groups[x]) = {Target(x)}
                     /\ Target(x) \in ManagedIDs(Cfg) /\ Target(x) \in GroupIDs
               /\ \A x, y \in a.present : Target(x) = Target(y) => x = y
               /\ \A x, y \in a.absent : Target(x) = Target(y) => x = y
               /\ \A x \in a.present, y \in a.absent : Target(x) # Target(y)
<1> DEFINE rule == RuleIndex(Cfg, u)
           st == AggregateState(I, t)
           v == Cfg.rules[rule].states[st]
           a == Assertions(Cfg, u, I, t)
<1>1. CASE rule = 0 \/ st = "none"
    BY <1>1 DEF Assertions
<1>2. CASE ~(rule = 0 \/ st = "none")
    <2>1. st \in States
        BY <1>2 DEF AggregateState, States
    <2>2. rule \in DOMAIN Cfg.rules
        <3>1. DOMAIN Cfg.rules \subseteq Nat
            BY ConfigAssumption
        <3>2. Matches(Cfg, u) \subseteq DOMAIN Cfg.rules /\ Matches(Cfg, u) # {}
            BY <1>2 DEF Matches, RuleIndex
        <3> QED
            BY <3>1, <3>2, MinIsLeast DEF RuleIndex
    <2>3. validateGroupAssertions(Cfg, v)
        BY <2>1, <2>2, ConfigAssumption DEF validateRules
    <2>4. a.present = Range(v.present) /\ a.absent = Range(v.absent)
        BY <1>2 DEF Assertions
    <2>5. ASSUME NEW x \in a.present \cup a.absent
          PROVE  /\ x \in Aliases /\ Len(Cfg.groups[x]) = 1
                 /\ Target(x) \in ManagedIDs(Cfg)
        <3>1. x \in Aliases /\ Len(Cfg.groups[x]) = 1
            <4>1. SingleTargets(Cfg, v.present) /\ SingleTargets(Cfg, v.absent)
                BY <2>3 DEF validateGroupAssertions
            <4>2. \/ \E i \in DOMAIN v.present : x = v.present[i]
                  \/ \E i \in DOMAIN v.absent : x = v.absent[i]
                BY <2>4 DEF Range
            <4> QED
                BY <4>1, <4>2 DEF SingleTargets, Aliases
        <3>2. \E i \in DOMAIN Cfg.rules, z \in States :
                x \in Range(Cfg.rules[i].states[z].present)
                        \cup Range(Cfg.rules[i].states[z].absent)
            BY <2>1, <2>2, <2>4
        <3>3. Target(x) \in ManagedIDs(Cfg)
            BY <3>1, <3>2 DEF ManagedIDs, Target, Aliases
        <3> QED
            BY <3>1, <3>3
    <2>6. ASSUME NEW x \in a.present \cup a.absent
          PROVE  Range(Cfg.groups[x]) = {Target(x)} /\ Target(x) \in GroupIDs
        <3>1. Cfg.groups[x] \in Seq(Nat) /\ Len(Cfg.groups[x]) = 1
            BY <2>5, ConfigAssumption
        <3>2. DOMAIN Cfg.groups[x] = {1}
            BY <3>1
        <3>3. Range(Cfg.groups[x]) = {Target(x)}
            BY <3>2 DEF Range, Target
        <3> QED
            BY <3>3, <2>5 DEF GroupIDs, Aliases
    <2>7. /\ \A x, y \in a.present : Target(x) = Target(y) => x = y
          /\ \A x, y \in a.absent : Target(x) = Target(y) => x = y
          /\ \A x \in a.present, y \in a.absent : Target(x) # Target(y)
        <3>1. ASSUME NEW x \in a.present, NEW y \in a.present, Target(x) = Target(y)
              PROVE  x = y
            <4>1. PICK i \in DOMAIN v.present, j \in DOMAIN v.present :
                    x = v.present[i] /\ y = v.present[j]
                BY <2>4 DEF Range
            <4> QED
                BY <4>1, <2>3, <3>1 DEF validateGroupAssertions, Target
        <3>2. ASSUME NEW x \in a.absent, NEW y \in a.absent, Target(x) = Target(y)
              PROVE  x = y
            <4>1. PICK i \in DOMAIN v.absent, j \in DOMAIN v.absent :
                    x = v.absent[i] /\ y = v.absent[j]
                BY <2>4 DEF Range
            <4> QED
                BY <4>1, <2>3, <3>2 DEF validateGroupAssertions, Target
        <3>3. ASSUME NEW x \in a.present, NEW y \in a.absent
              PROVE  Target(x) # Target(y)
            <4>1. PICK i \in DOMAIN v.present, j \in DOMAIN v.absent :
                    x = v.present[i] /\ y = v.absent[j]
                BY <2>4 DEF Range
            <4> QED
                BY <4>1, <2>3 DEF validateGroupAssertions, Target
        <3> QED
            BY <3>1, <3>2, <3>3
    <2> QED
        BY <2>5, <2>6, <2>7
<1> QED
    BY <1>1, <1>2

(* A configured alias has a first group. *)
LEMMA TargetTyped ==
    ASSUME NEW alias \in Aliases
    PROVE  Target(alias) \in Range(Cfg.groups[alias]) /\ Target(alias) \in GroupIDs
<1>1. Cfg.groups[alias] \in Seq(Nat) /\ Cfg.groups[alias] # <<>>
    BY ConfigAssumption DEF validateIdentity, Aliases
<1>2. 1 \in DOMAIN Cfg.groups[alias]
    BY <1>1
<1>3. Target(alias) \in Range(Cfg.groups[alias])
    BY <1>2 DEF Target, Range
<1> QED
    BY <1>3 DEF GroupIDs, Aliases

(* The alias written next is one of those still to write. *)
LEMMA NextAliasTyped ==
    ASSUME NEW S \in SUBSET Aliases, S # {}
    PROVE  Min(S) \in S /\ Target(Min(S)) \in GroupIDs
BY MinIsLeast, TargetTyped, ConfigAssumption

(* One step of the system keeps the types. *)
LEMMA TypeStep == TypeOK /\ [Next]_vars => TypeOK'
<1> SUFFICES ASSUME TypeOK, [Next]_vars
             PROVE  TypeOK'
    OBVIOUS
<1> USE DEF TypeOK
<1>r. ASSUME NEW r \in Reconcilers, ReconcileStep(r)
      PROVE  TypeOK'
    <2>0. rec[r] \in RecStates /\ IdleRec \in RecStates
        BY RetryAssumption DEF RecStates, IdleRec, Blank, ZeroTime, Null
    <2>1. CASE \E s \in Subjects : Begin(r, s)
        <3>1. PICK s \in Subjects : Begin(r, s)
            BY <2>1
        <3>2. [IdleRec EXCEPT !.pc = "waiting", !.subject = s] \in RecStates
            BY <2>0 DEF RecStates, IdleRec
        <3> QED
            BY <3>1, <3>2 DEF Begin, IdleRec
    <2>2. CASE LockSubjectFails(r)
        BY <2>2, <2>0 DEF LockSubjectFails, IdleRec
    <2>3. CASE LockSubject(r)
        BY <2>3, <2>0 DEF LockSubject, GoTo, RecStates, Holding
    <2>4. CASE GetState(r)
        <3>1. rec[r].subject \in Subjects /\ state[rec[r].subject] \in Rows
            BY <2>4 DEF GetState
        <3> QED
            BY <2>4, <2>0, <3>1 DEF GetState, RecStates, Rows, Holding
    <2>5. CASE GetStateFails(r)
        BY <2>5, <2>0 DEF GetStateFails, GoTo, RecStates, Holding
    <2>6. CASE ListIntents(r)
        <3>1. rec[r].subject \in Subjects /\ rec[r].started \in Nat
            BY <2>6, <2>0 DEF ListIntents, RecStates
        <3>2. IntentsOf(rec[r].subject) \in SUBSET Accepted
            BY <3>1, IntentsAreAccepted
        <3>3. nextTransitionAt(IntentsOf(rec[r].subject), rec[r].started) \in Nat \cup {Null}
            BY <3>1, <3>2, BoundaryIsEarliest
        <3> QED
            BY <2>6, <2>0, <3>1, <3>2, <3>3 DEF ListIntents, RecStates, Holding
    <2>7. CASE ListIntentsFails(r)
        BY <2>7, <2>0 DEF ListIntentsFails, GoTo, RecStates, Holding
    <2>8. CASE Build(r)
        <3> DEFINE user == User(rec[r].subject)
                   a == Assertions(Cfg, user, rec[r].listed, rec[r].started)
        <3>1. AddGroups(a, user) \subseteq Aliases /\ RemoveGroups(a, user) \subseteq Aliases
            BY AssertionsAreValidated DEF AddGroups, RemoveGroups
        <3> HIDE DEF user, a
        <3> QED
            BY <2>8, <2>0, <3>1 DEF Build, RecStates, Holding, user, a
    <2>9. CASE BuildFails(r)
        BY <2>9, <2>0 DEF BuildFails, GoTo, RecStates, Holding
    <2>10. CASE Add(r)
        <3>1. rec[r].subject \in Subjects /\ Target(Min(rec[r].adds)) \in GroupIDs
            BY <2>10, <2>0, NextAliasTyped DEF Add, RecStates
        <3>2. member' \in [Subjects -> SUBSET GroupIDs]
            BY <2>10, <3>1 DEF Add, AddGroupMember
        <3> QED
            BY <2>10, <2>0, <3>2 DEF Add, RecStates
    <2>11. CASE Remove(r)
        <3>1. member' \in [Subjects -> SUBSET GroupIDs]
            BY <2>11 DEF Remove, RemoveGroupMember
        <3> QED
            BY <2>11, <2>0, <3>1 DEF Remove, RecStates
    <2>12. CASE WriteRefused(r)
        BY <2>12, <2>0 DEF WriteRefused, GoTo, RecStates, Holding
    <2>13. CASE WriteAnswerLost(r)
        <3>1. rec[r].adds # {} => rec[r].subject \in Subjects /\ Target(Min(rec[r].adds)) \in GroupIDs
            BY <2>13, <2>0, NextAliasTyped DEF WriteAnswerLost, RecStates
        <3>2. member' \in [Subjects -> SUBSET GroupIDs]
            BY <2>13, <3>1 DEF WriteAnswerLost, AddGroupMember, RemoveGroupMember
        <3> QED
            BY <2>13, <2>0, <3>2 DEF WriteAnswerLost, GoTo, RecStates, Holding
    <2>14. CASE RecordSuccess(r)
        <3>1. rec[r].subject \in Subjects /\ rec[r].started \in Nat /\ rec[r].next \in Nat \cup {Null}
            BY <2>14, <2>0 DEF RecordSuccess, RecStates
        <3>2. state' \in [Subjects -> Rows]
            BY <2>14, <3>1, RetryAssumption DEF RecordSuccess, recordSuccess, Rows
        <3> QED
            BY <2>14, <2>0, <3>2 DEF RecordSuccess, GoTo, RecStates, Holding
    <2>15. CASE RecordSuccessFails(r)
        BY <2>15, <2>0 DEF RecordSuccessFails, GoTo, RecStates, Holding
    <2>16. CASE RecordFailure(r)
        <3>1. /\ rec[r].subject \in Subjects /\ rec[r].started \in Nat /\ rec[r].next \in Nat \cup {Null}
              /\ rec[r].started + RetryDelay[rec[r].retries] \in Nat
            <4>1. rec[r].retries \in 0..MaxRetries /\ rec[r].started \in Nat /\ rec[r].next \in Nat \cup {Null}
                BY <2>0 DEF RecStates
            <4>2. RetryDelay[rec[r].retries] \in Nat
                BY <4>1, RetryAssumption
            <4> QED
                BY <2>16, <4>1, <4>2 DEF RecordFailure
        <3> DEFINE row == state[rec[r].subject]
        <3>3. row \in Rows /\ row.retry_count + 1 \in 0..MaxRetries
            <4>1. row \in Rows
                BY <3>1
            <4>2. row.retry_count \in 0..MaxRetries
                BY <4>1 DEF Rows
            <4>3. row.retry_count < MaxRetries
                BY <2>16 DEF RecordFailure
            <4> HIDE DEF row
            <4> QED
                BY <4>1, <4>2, <4>3, RetryAssumption
        <3> DEFINE new == [row EXCEPT !.exists = TRUE, !.last_attempt_at = rec[r].started,
                                      !.last_error = TRUE, !.next_transition_at = rec[r].next,
                                      !.next_retry_at = rec[r].started + RetryDelay[rec[r].retries],
                                      !.retry_count = @ + 1]
        <3>4. new \in Rows
            BY <3>1, <3>3 DEF Rows
        <3>5. state' = [state EXCEPT ![rec[r].subject] = new]
            BY <2>16 DEF RecordFailure, recordFailure
        <3> HIDE DEF new
        <3>2. state' \in [Subjects -> Rows]
            BY <3>1, <3>4, <3>5
        <3> QED
            BY <2>16, <2>0, <3>2 DEF RecordFailure, GoTo, RecStates, Holding
    <2>17. CASE RecordFailureSkipped(r)
        BY <2>17, <2>0 DEF RecordFailureSkipped, GoTo, RecStates, Holding
    <2>18. CASE Close(r) \/ CrashReconciler(r)
        <3>1. Released(subjectLock, r) \in [Subjects -> Reconcilers \cup Handlers \cup {Nobody}]
            BY ReleasedTyped
        <3>2. /\ subjectLock' = Released(subjectLock, r)
              /\ rec' = [rec EXCEPT ![r] = IdleRec]
              /\ UNCHANGED <<intents, state, identityLock, member, now, hnd>>
            BY <2>18 DEF Close, CrashReconciler
        <3> QED
            BY <2>0, <3>1, <3>2 DEF IdleRec
    <2> QED
        BY <1>r, <2>1, <2>2, <2>3, <2>4, <2>5, <2>6, <2>7, <2>8, <2>9, <2>10, <2>11, <2>12,
           <2>13, <2>14, <2>15, <2>16, <2>17, <2>18 DEF ReconcileStep
<1>h. ASSUME NEW h \in Handlers, HandlerStep(h)
      PROVE  TypeOK'
    <2>0. hnd[h] \in HndStates /\ IdleHnd \in HndStates
        BY DEF HndStates, IdleHnd, ZeroTime
    <2>1. CASE \E i \in Accepted : Receive(h, i)
        <3>1. PICK i \in Accepted : Receive(h, i)
            BY <2>1
        <3>2. [IdleHnd EXCEPT !.pc = "identity", !.intent = i, !.at = now] \in HndStates
            BY <2>0 DEF HndStates, IdleHnd
        <3> QED
            BY <3>1, <3>2 DEF Receive, IdleHnd
    <2>00. /\ Released(subjectLock, h) \in [Subjects -> Reconcilers \cup Handlers \cup {Nobody}]
           /\ Released(identityLock, h) \in [Keys -> Handlers \cup {Nobody}]
        BY ReleasedTyped
    <2>2. CASE LockIdentity(h)
        <3> DEFINE k == Key(hnd[h].intent)
                   affected == uniqueSubjects(intents[k].subject, hnd[h].intent.subject)
        <3>1. k \in Keys /\ hnd[h].intent.subject \in Subjects
            BY <2>2, AcceptedIsValid DEF LockIdentity
        <3>2. intents[k].subject \in Subjects \cup {Blank}
            BY <3>1, AcceptedIsValid DEF NoIntent
        <3>3. affected \in SUBSET Subjects
            BY <3>1, <3>2 DEF uniqueSubjects
        <3> HIDE DEF affected
        <3>4. hnd' \in [Handlers -> HndStates]
            BY <2>2, <2>0, <3>3 DEF LockIdentity, HndStates, affected
        <3> QED
            BY <2>2, <2>0, <3>1, <3>4 DEF LockIdentity
    <2>3. CASE LockAffected(h)
        <3>1. hnd[h].todo \in SUBSET Nat /\ hnd[h].todo # {}
            BY <2>3, <2>0, SubjectsAssumption DEF LockAffected, HndStates
        <3>2. NextSubject(h) \in hnd[h].todo
            BY <3>1, MinIsLeast DEF NextSubject
        <3> QED
            BY <2>3, <2>0, <3>2 DEF LockAffected, HndStates
    <2>4. CASE Commit(h)
        <3>1. hnd[h].intent \in Accepted /\ Key(hnd[h].intent) \in Keys /\ hnd[h].at \in Nat
            BY <2>4, <2>0, AcceptedIsValid DEF Commit, HndStates
        <3>2. intents' \in [Keys -> Accepted \cup {NoIntent}]
            BY <2>4, <3>1 DEF Commit, UpsertIntent
        <3>3. state' \in [Subjects -> Rows]
            <4>1. ASSUME NEW s \in Subjects
                  PROVE  [state[s] EXCEPT !.exists = TRUE, !.next_retry_at = hnd[h].at] \in Rows
                <5>1. state[s] \in Rows
                    OBVIOUS
                <5> QED
                    BY <5>1, <3>1 DEF Rows
            <4> QED
                BY <2>4, <4>1 DEF Commit, UpsertIntent
        <3> QED
            BY <2>4, <2>0, <2>00, <3>2, <3>3 DEF Commit, IdleHnd
    <2>5. CASE Rollback(h)
        BY <2>5, <2>0, <2>00 DEF Rollback, IdleHnd
    <2> QED
        BY <1>h, <2>1, <2>2, <2>3, <2>4, <2>5 DEF HandlerStep
<1>t. CASE Tick
    BY <1>t DEF Tick
<1>u. CASE UNCHANGED vars
    BY <1>u DEF vars
<1> QED
    BY <1>r, <1>h, <1>t, <1>u DEF Next

(* The first states are typed. *)
LEMMA TypeBegins == Init => TypeOK
<1> SUFFICES ASSUME Init
             PROVE  TypeOK
    OBVIOUS
<1>1. ZeroState \in Rows
    BY RetryAssumption DEF ZeroState, Rows, Null
<1>2. IdleRec \in RecStates /\ IdleHnd \in HndStates
    BY RetryAssumption DEF IdleRec, RecStates, IdleHnd, HndStates, Blank, ZeroTime, Null
<1> QED
    BY <1>1, <1>2 DEF Init, StoreInit, TypeOK, IdleRec, IdleHnd

(* Every variable of the system always has its type. *)
THEOREM TypeCorrect == Spec => []TypeOK
BY TypeBegins, TypeStep, PTL DEF Spec

-----------------------------------------------------------------------------
(* Locks *)

(* What is true of the locks even where sessions may be lost. *)
LocksKept == HandlersHold /\ NoLeakedLock

LockInv == ReconcilersHold /\ LocksKept

(* The steps a reconciler makes between taking its lock and giving it up. *)
Inner(r) ==
    \/ GetState(r) \/ GetStateFails(r) \/ ListIntents(r) \/ ListIntentsFails(r)
    \/ Build(r) \/ BuildFails(r) \/ Add(r) \/ Remove(r) \/ WriteRefused(r) \/ WriteAnswerLost(r)
    \/ RecordSuccess(r) \/ RecordSuccessFails(r) \/ RecordFailure(r) \/ RecordFailureSkipped(r)

(* They stay with the subject and touch neither locks nor stored intents. *)
LEMMA InnerStep ==
    ASSUME TypeOK, NEW r \in Reconcilers, Inner(r)
    PROVE  /\ rec[r].pc \in Holding /\ rec'[r].pc \in Holding
           /\ rec'[r].subject = rec[r].subject /\ rec[r].subject \in Subjects
           /\ \A q \in Reconcilers \ {r} : rec'[q] = rec[q]
           /\ UNCHANGED <<intents, subjectLock, identityLock, hnd, now>>
<1>0. /\ rec \in [Reconcilers -> RecStates] /\ rec[r] \in RecStates
      /\ rec[r].pc # "idle" => rec[r].subject \in Subjects
    BY DEF TypeOK
<1>1. CASE GetState(r)
    BY <1>0, <1>1 DEF GetState, RecStates, Holding
<1>2. CASE GetStateFails(r)
    BY <1>0, <1>2 DEF GetStateFails, GoTo, RecStates, Holding
<1>3. CASE ListIntents(r)
    BY <1>0, <1>3 DEF ListIntents, RecStates, Holding
<1>4. CASE ListIntentsFails(r)
    BY <1>0, <1>4 DEF ListIntentsFails, GoTo, RecStates, Holding
<1>5. CASE Build(r)
    BY <1>0, <1>5 DEF Build, RecStates, Holding
<1>6. CASE BuildFails(r)
    BY <1>0, <1>6 DEF BuildFails, GoTo, RecStates, Holding
<1>7. CASE Add(r)
    BY <1>0, <1>7 DEF Add, RecStates, Holding
<1>8. CASE Remove(r)
    BY <1>0, <1>8 DEF Remove, RecStates, Holding
<1>9. CASE WriteRefused(r)
    BY <1>0, <1>9 DEF WriteRefused, GoTo, RecStates, Holding
<1>10. CASE WriteAnswerLost(r)
    BY <1>0, <1>10 DEF WriteAnswerLost, GoTo, RecStates, Holding
<1>11. CASE RecordSuccess(r)
    BY <1>0, <1>11 DEF RecordSuccess, GoTo, RecStates, Holding
<1>12. CASE RecordSuccessFails(r)
    BY <1>0, <1>12 DEF RecordSuccessFails, GoTo, RecStates, Holding
<1>13. CASE RecordFailure(r)
    BY <1>0, <1>13 DEF RecordFailure, GoTo, RecStates, Holding
<1>14. CASE RecordFailureSkipped(r)
    BY <1>0, <1>14 DEF RecordFailureSkipped, GoTo, RecStates, Holding
<1> QED
    BY <1>1, <1>2, <1>3, <1>4, <1>5, <1>6, <1>7,
       <1>8, <1>9, <1>10, <1>11, <1>12, <1>13, <1>14 DEF Inner

(* One step of the system keeps the locks with their owners. *)
LEMMA LockStep ==
    TypeOK /\ TypeOK' /\ LocksKept /\ [Next]_vars
        => LocksKept' /\ (ReconcilersHold => ReconcilersHold')
<1> SUFFICES ASSUME TypeOK, TypeOK', LocksKept, [Next]_vars
             PROVE  LocksKept' /\ (ReconcilersHold => ReconcilersHold')
    OBVIOUS
<1> USE DEF LocksKept, ReconcilersHold, HandlersHold, NoLeakedLock, HasSession
<1>0. /\ rec \in [Reconcilers -> RecStates] /\ hnd \in [Handlers -> HndStates]
      /\ subjectLock \in [Subjects -> Reconcilers \cup Handlers \cup {Nobody}]
      /\ identityLock \in [Keys -> Handlers \cup {Nobody}]
      /\ \A q \in Reconcilers : rec[q].pc # "idle" => rec[q].subject \in Subjects
      /\ \A g \in Handlers : hnd[g].affected \subseteq Subjects
      /\ \A g \in Handlers : hnd[g].pc # "idle" => hnd[g].intent \in Accepted
      /\ \A i \in Accepted : Key(i) \in Keys
    BY AcceptedIsValid DEF TypeOK, HndStates
<1>r. ASSUME NEW r \in Reconcilers, ReconcileStep(r)
      PROVE  LocksKept' /\ (ReconcilersHold => ReconcilersHold')
    <2>1. CASE (\E s \in Subjects : Begin(r, s)) \/ LockSubjectFails(r)
        <3>1. /\ rec'[r].pc \notin Holding /\ rec[r].pc \notin Holding
              /\ \A q \in Reconcilers \ {r} : rec'[q] = rec[q]
            <4>1. CASE \E s \in Subjects : Begin(r, s)
                <5>1. PICK s \in Subjects : Begin(r, s)
                    BY <4>1
                <5> QED
                    BY <1>0, <5>1 DEF Begin, IdleRec, Holding
            <4>2. CASE LockSubjectFails(r)
                BY <1>0, <4>2 DEF LockSubjectFails, IdleRec, Holding
            <4> QED
                BY <2>1, <4>1, <4>2
        <3>3. UNCHANGED <<intents, subjectLock, identityLock, hnd>>
            BY <2>1 DEF Begin, LockSubjectFails
        <3> QED
            BY <1>0, <3>1, <3>3
    <2>2. CASE LockSubject(r)
        <3>1. /\ rec[r].pc = "waiting" /\ rec'[r].pc = "locked" /\ rec'[r].subject = rec[r].subject
              /\ \A q \in Reconcilers \ {r} : rec'[q] = rec[q]
            BY <1>0, <2>2 DEF LockSubject, GoTo, RecStates
        <3>2. /\ rec[r].subject \in Subjects /\ subjectLock[rec[r].subject] = Nobody
              /\ subjectLock' = [subjectLock EXCEPT ![rec[r].subject] = r]
              /\ UNCHANGED <<intents, identityLock, hnd>>
            BY <1>0, <2>2 DEF LockSubject
        <3>3. ReconcilersHold => ReconcilersHold'
            BY <1>0, <3>1, <3>2, ActorsAssumption DEF Holding
        <3>4. HandlersHold'
            BY <1>0, <3>2, ActorsAssumption
        <3>5. NoLeakedLock'
            BY <1>0, <3>1, <3>2, ActorsAssumption DEF Holding
        <3> QED
            BY <3>3, <3>4, <3>5
    <2>3. CASE Inner(r)
        BY <1>0, <2>3, InnerStep
    <2>4. CASE Close(r) \/ CrashReconciler(r)
        <3>1. /\ subjectLock' = Released(subjectLock, r)
              /\ rec' = [rec EXCEPT ![r] = IdleRec]
              /\ UNCHANGED <<intents, identityLock, hnd>>
            BY <2>4 DEF Close, CrashReconciler
        <3>2. \A s \in Subjects : subjectLock'[s] = IF subjectLock[s] = r THEN Nobody ELSE subjectLock[s]
            BY <1>0, <3>1 DEF Released
        <3>3. /\ rec'[r].pc = "idle"
              /\ \A q \in Reconcilers \ {r} : rec'[q] = rec[q]
            BY <1>0, <3>1 DEF IdleRec
        <3>4. ReconcilersHold => ReconcilersHold'
            BY <1>0, <3>2, <3>3, ActorsAssumption DEF Holding
        <3>5. HandlersHold'
            BY <1>0, <3>1, <3>2, ActorsAssumption
        <3>6. NoLeakedLock'
            BY <1>0, <3>1, <3>2, <3>3, ActorsAssumption
        <3> QED
            BY <3>4, <3>5, <3>6
    <2> QED
        BY <1>r, <2>1, <2>2, <2>3, <2>4 DEF ReconcileStep, Inner
<1>h. ASSUME NEW h \in Handlers, HandlerStep(h)
      PROVE  LocksKept' /\ (ReconcilersHold => ReconcilersHold')
    <2>1. CASE \E i \in Accepted : Receive(h, i)
        <3>1. /\ hnd[h].pc = "idle" /\ hnd'[h].pc = "identity"
              /\ \A g \in Handlers \ {h} : hnd'[g] = hnd[g]
              /\ UNCHANGED <<intents, subjectLock, identityLock, rec>>
            BY <1>0, <2>1 DEF Receive, IdleHnd
        <3> QED
            BY <1>0, <3>1
    <2>2. CASE LockIdentity(h)
        <3> DEFINE k == Key(hnd[h].intent)
        <3>1. /\ hnd[h].pc = "identity" /\ hnd'[h].pc = "locking" /\ hnd'[h].intent = hnd[h].intent
              /\ hnd'[h].affected = uniqueSubjects(intents[k].subject, hnd[h].intent.subject)
              /\ hnd'[h].todo = hnd'[h].affected
              /\ \A g \in Handlers \ {h} : hnd'[g] = hnd[g]
            BY <1>0, <2>2 DEF LockIdentity, HndStates
        <3>2. /\ k \in Keys /\ identityLock[k] = Nobody
              /\ identityLock' = [identityLock EXCEPT ![k] = h]
              /\ UNCHANGED <<intents, subjectLock, rec>>
            BY <1>0, <2>2 DEF LockIdentity
        <3>3. ReconcilersHold => ReconcilersHold'
            BY <3>2
        <3>4. HandlersHold'
            BY <1>0, <3>1, <3>2, ActorsAssumption
        <3>5. NoLeakedLock'
            BY <1>0, <3>1, <3>2, ActorsAssumption
        <3> QED
            BY <3>3, <3>4, <3>5
    <2>3. CASE LockAffected(h)
        <3> DEFINE s == NextSubject(h)
        <3>1. s \in hnd[h].todo
            BY <2>3, <1>0, MinIsLeast, SubjectsAssumption DEF NextSubject, LockAffected, HndStates
        <3>2. /\ hnd[h].pc = "locking" /\ subjectLock[s] = Nobody
              /\ subjectLock' = [subjectLock EXCEPT ![s] = h]
              /\ UNCHANGED <<intents, identityLock, rec>>
            BY <2>3 DEF LockAffected
        <3>3. /\ hnd'[h].pc = "locking" /\ hnd'[h].intent = hnd[h].intent
              /\ hnd'[h].affected = hnd[h].affected /\ hnd'[h].todo = hnd[h].todo \ {s}
              /\ \A g \in Handlers \ {h} : hnd'[g] = hnd[g]
            BY <1>0, <2>3 DEF LockAffected, HndStates
        <3>4. s \in hnd[h].affected /\ s \in Subjects
            BY <1>0, <3>1, <3>2
        <3> HIDE DEF s
        <3>5. ReconcilersHold => ReconcilersHold'
            BY <1>0, <3>2, <3>4, ActorsAssumption DEF Holding
        <3>6. HandlersHold'
            BY <1>0, <3>2, <3>3, <3>4, ActorsAssumption
        <3>7. NoLeakedLock'
            BY <1>0, <3>1, <3>2, <3>3, <3>4, ActorsAssumption
        <3> QED
            BY <3>5, <3>6, <3>7
    <2>4. CASE Commit(h) \/ Rollback(h)
        <3>1. /\ subjectLock' = Released(subjectLock, h)
              /\ identityLock' = Released(identityLock, h)
              /\ hnd' = [hnd EXCEPT ![h] = IdleHnd]
              /\ UNCHANGED rec
            BY <2>4 DEF Commit, Rollback
        <3>2. /\ \A s \in Subjects : subjectLock'[s] = IF subjectLock[s] = h THEN Nobody ELSE subjectLock[s]
              /\ \A k \in Keys : identityLock'[k] = IF identityLock[k] = h THEN Nobody ELSE identityLock[k]
            BY <1>0, <3>1 DEF Released
        <3>3. /\ hnd'[h].pc = "idle"
              /\ \A g \in Handlers \ {h} : hnd'[g] = hnd[g]
            BY <1>0, <3>1 DEF IdleHnd
        <3>4. \A k \in Keys : identityLock[k] # h => intents'[k] = intents[k]
            <4>1. CASE Rollback(h)
                BY <4>1 DEF Rollback
            <4>2. CASE Commit(h)
                <5>1. hnd[h].pc = "locking" /\ intents' = [intents EXCEPT ![Key(hnd[h].intent)] = hnd[h].intent]
                    BY <4>2 DEF Commit, UpsertIntent
                <5>2. identityLock[Key(hnd[h].intent)] = h
                    BY <5>1
                <5>3. intents \in [Keys -> Accepted \cup {NoIntent}]
                    BY DEF TypeOK
                <5> QED
                    BY <5>1, <5>2, <5>3
            <4> QED
                BY <2>4, <4>1, <4>2
        <3>5. ReconcilersHold => ReconcilersHold'
            BY <1>0, <3>1, <3>2, ActorsAssumption DEF Holding
        <3>6. HandlersHold'
            BY <1>0, <3>2, <3>3, <3>4, ActorsAssumption
        <3>7. NoLeakedLock'
            BY <1>0, <3>1, <3>2, <3>3, ActorsAssumption
        <3> QED
            BY <3>5, <3>6, <3>7
    <2> QED
        BY <1>h, <2>1, <2>2, <2>3, <2>4 DEF HandlerStep
<1>t. CASE Tick
    BY <1>t DEF Tick
<1>u. CASE UNCHANGED vars
    BY <1>u DEF vars
<1> QED
    BY <1>r, <1>h, <1>t, <1>u DEF Next

(* In the beginning nobody holds a lock. *)
LEMMA LocksBegin == Init => LockInv
<1> SUFFICES ASSUME Init
             PROVE  LockInv
    OBVIOUS
<1>1. /\ \A s \in Subjects : subjectLock[s] = Nobody
      /\ \A k \in Keys : identityLock[k] = Nobody
      /\ \A r \in Reconcilers : rec[r].pc = "idle"
      /\ \A h \in Handlers : hnd[h].pc = "idle"
    BY DEF Init, StoreInit, IdleRec, IdleHnd
<1> QED
    BY <1>1, ActorsAssumption
    DEF LockInv, LocksKept, ReconcilersHold, HandlersHold, NoLeakedLock, Holding

(* A lock is held only by an actor still at work on what it protects, and  *)
(* an actor at work holds it.                                              *)
THEOREM LocksAreOwned == Spec => [](LockInv /\ NoLeakedLock)
<1>1. LockInv => NoLeakedLock
    BY DEF LockInv, LocksKept
<1>2. TypeOK /\ TypeOK' /\ LockInv /\ [Next]_vars => LockInv'
    BY LockStep DEF LockInv
<1> QED
    BY <1>1, <1>2, LocksBegin, TypeCorrect, PTL DEF Spec

(* A handler waits only for a subject beyond all whose locks it holds; and *)
(* the locks that are held do not go on for ever, however many actors      *)
(* there are.                                                              *)
LocksInOrder ==
    /\ \A h \in Handlers : hnd[h].pc = "locking" =>
          \A s \in hnd[h].affected \ hnd[h].todo, w \in hnd[h].todo : s < w
    /\ \E n \in Nat : \A s \in Subjects : subjectLock[s] # Nobody => s <= n

(* One step of the system keeps the order. *)
LEMMA OrderStep == TypeOK /\ LocksInOrder /\ [Next]_vars => LocksInOrder'
<1> SUFFICES ASSUME TypeOK, LocksInOrder, [Next]_vars
             PROVE  LocksInOrder'
    OBVIOUS
<1> USE DEF LocksInOrder
<1>0. /\ rec \in [Reconcilers -> RecStates] /\ hnd \in [Handlers -> HndStates]
      /\ subjectLock \in [Subjects -> Reconcilers \cup Handlers \cup {Nobody}]
      /\ \A q \in Reconcilers : rec[q].pc # "idle" => rec[q].subject \in Subjects
      /\ \A g \in Handlers : hnd[g].affected \subseteq Subjects /\ hnd[g].todo \subseteq Subjects
      /\ Subjects \subseteq Nat
    BY SubjectsAssumption DEF TypeOK, HndStates
<1>1. ASSUME UNCHANGED subjectLock \/ \E p : subjectLock' = Released(subjectLock, p)
      PROVE  \E n \in Nat : \A s \in Subjects : subjectLock'[s] # Nobody => s <= n
    BY <1>0, <1>1 DEF Released
<1>2. ASSUME NEW x \in Subjects, NEW p, subjectLock' = [subjectLock EXCEPT ![x] = p]
      PROVE  \E n \in Nat : \A s \in Subjects : subjectLock'[s] # Nobody => s <= n
    <2>1. PICK n \in Nat : \A s \in Subjects : subjectLock[s] # Nobody => s <= n
        OBVIOUS
    <2>2. CASE x <= n
        BY <1>0, <1>2, <2>1, <2>2
    <2>3. CASE n < x
        <3>1. ASSUME NEW s \in Subjects, subjectLock'[s] # Nobody
              PROVE  s <= x
            <4>1. s \in Nat /\ x \in Nat /\ (s = x \/ subjectLock[s] # Nobody)
                BY <1>0, <1>2, <3>1
            <4>2. s = x \/ s <= n
                BY <2>1, <4>1
            <4> QED
                BY <2>3, <4>1, <4>2
        <3> QED
            BY <1>0, <3>1
    <2> QED
        BY <1>0, <2>2, <2>3
<1>r. ASSUME NEW r \in Reconcilers, ReconcileStep(r)
      PROVE  LocksInOrder'
    <2>1. UNCHANGED hnd
        BY <1>r DEF ReconcileStep, Begin, LockSubjectFails, LockSubject, GetState, GetStateFails,
           ListIntents, ListIntentsFails, Build, BuildFails, Add, Remove, WriteRefused,
           WriteAnswerLost, RecordSuccess, RecordSuccessFails, RecordFailure,
           RecordFailureSkipped, Close, CrashReconciler
    <2>2. CASE LockSubject(r)
        <3>1. rec[r].subject \in Subjects /\ subjectLock' = [subjectLock EXCEPT ![rec[r].subject] = r]
            BY <1>0, <2>2 DEF LockSubject
        <3> QED
            BY <1>2, <2>1, <3>1
    <2>3. CASE ~LockSubject(r)
        <3>1. UNCHANGED subjectLock \/ subjectLock' = Released(subjectLock, r)
            BY <1>r, <2>3 DEF ReconcileStep, Begin, LockSubjectFails, GetState, GetStateFails,
               ListIntents, ListIntentsFails, Build, BuildFails, Add, Remove, WriteRefused,
               WriteAnswerLost, RecordSuccess, RecordSuccessFails, RecordFailure,
               RecordFailureSkipped, Close, CrashReconciler
        <3> QED
            BY <1>1, <2>1, <3>1
    <2> QED
        BY <2>2, <2>3
<1>h. ASSUME NEW h \in Handlers, HandlerStep(h)
      PROVE  LocksInOrder'
    <2>1. CASE (\E i \in Accepted : Receive(h, i)) \/ Commit(h) \/ Rollback(h)
        <3>1. ASSUME NEW i \in Accepted, Receive(h, i)
              PROVE  hnd'[h].pc # "locking" /\ \A g \in Handlers \ {h} : hnd'[g] = hnd[g]
            <4> DEFINE l == [IdleHnd EXCEPT !.pc = "identity", !.intent = i, !.at = now]
            <4>1. hnd' = [hnd EXCEPT ![h] = l]
                BY <3>1 DEF Receive
            <4>2. l.pc = "identity"
                BY DEF IdleHnd
            <4> HIDE DEF l
            <4> QED
                BY <1>0, <4>1, <4>2
        <3>2. hnd'[h].pc # "locking" /\ \A g \in Handlers \ {h} : hnd'[g] = hnd[g]
            <4>1. CASE Commit(h) \/ Rollback(h)
                <5>1. hnd' = [hnd EXCEPT ![h] = IdleHnd] /\ IdleHnd.pc = "idle"
                    BY <4>1 DEF Commit, Rollback, IdleHnd
                <5> QED
                    BY <1>0, <5>1
            <4> QED
                BY <2>1, <3>1, <4>1
        <3>3. UNCHANGED subjectLock \/ subjectLock' = Released(subjectLock, h)
            BY <2>1 DEF Receive, Commit, Rollback
        <3> QED
            BY <1>1, <3>2, <3>3
    <2>2. CASE LockIdentity(h)
        <3>1. /\ hnd'[h].todo = hnd'[h].affected /\ \A g \in Handlers \ {h} : hnd'[g] = hnd[g]
              /\ UNCHANGED subjectLock
            BY <1>0, <2>2 DEF LockIdentity, HndStates
        <3> QED
            BY <3>1
    <2>3. CASE LockAffected(h)
        <3> DEFINE s == NextSubject(h)
        <3>1. s \in hnd[h].todo /\ \A w \in hnd[h].todo : s <= w
            BY <2>3, <1>0, MinIsLeast DEF NextSubject, LockAffected
        <3>2. /\ hnd[h].pc = "locking" /\ subjectLock' = [subjectLock EXCEPT ![s] = h]
              /\ hnd'[h].affected = hnd[h].affected /\ hnd'[h].todo = hnd[h].todo \ {s}
              /\ \A g \in Handlers \ {h} : hnd'[g] = hnd[g]
            BY <1>0, <2>3 DEF LockAffected, HndStates
        <3> HIDE DEF s
        <3>3. ASSUME NEW x \in hnd'[h].affected \ hnd'[h].todo, NEW w \in hnd'[h].todo
              PROVE  x < w
            <4>1. w \in hnd[h].todo /\ w # s /\ (x = s \/ x \in hnd[h].affected \ hnd[h].todo)
                BY <3>2
            <4>2. s \in Nat /\ w \in Nat
                BY <1>0, <3>1, <4>1
            <4>3. CASE x = s
                BY <3>1, <4>1, <4>2, <4>3
            <4>4. CASE x \in hnd[h].affected \ hnd[h].todo
                BY <3>2, <4>1, <4>4
            <4> QED
                BY <4>1, <4>3, <4>4
        <3>4. \A g \in Handlers : hnd'[g].pc = "locking" =>
                 \A x \in hnd'[g].affected \ hnd'[g].todo, w \in hnd'[g].todo : x < w
            BY <3>2, <3>3
        <3>5. s \in Subjects
            BY <1>0, <3>1
        <3> QED
            BY <1>2, <3>2, <3>4, <3>5
    <2> QED
        BY <1>h, <2>1, <2>2, <2>3 DEF HandlerStep
<1>t. CASE Tick
    BY <1>t DEF Tick
<1>u. CASE UNCHANGED vars
    BY <1>u DEF vars
<1> QED
    BY <1>r, <1>h, <1>t, <1>u DEF Next

(* An actor that is waited for and waits itself is a handler that has      *)
(* locks and waits for a subject.                                          *)
LEMMA WaitsInTheMiddle ==
    ASSUME TypeOK, LockInv, NEW o, NEW p \in Reconcilers \cup Handlers, NEW q,
           WaitsFor(o, p), WaitsFor(p, q)
    PROVE  /\ p \in Handlers /\ hnd[p].pc = "locking" /\ hnd[p].todo # {}
           /\ subjectLock[NextSubject(p)] = q
<1>1. \/ \E s \in Subjects : subjectLock[s] = p
      \/ \E k \in Keys : identityLock[k] = p
    <2>1. CASE o \in Reconcilers
        BY <2>1, ActorsAssumption DEF WaitsFor, TypeOK
    <2>2. CASE o \in Handlers /\ hnd[o].pc = "identity"
        BY <2>2, AcceptedIsValid, ActorsAssumption DEF WaitsFor, TypeOK
    <2>3. CASE o \in Handlers /\ hnd[o].pc = "locking"
        <3>1. /\ hnd[o].todo \in SUBSET Subjects /\ hnd[o].todo # {}
              /\ subjectLock[NextSubject(o)] = p
            BY <2>3, ActorsAssumption DEF WaitsFor, TypeOK, HndStates
        <3>2. NextSubject(o) \in Subjects
            BY <3>1, MinIsLeast, SubjectsAssumption DEF NextSubject
        <3> QED
            BY <3>1, <3>2
    <2> QED
        BY <2>1, <2>2, <2>3 DEF WaitsFor
<1>2. p \in Handlers => hnd[p].pc = "locking"
    BY <1>1 DEF LockInv, LocksKept, NoLeakedLock
<1>3. p \notin Reconcilers
    <2>1. SUFFICES ASSUME p \in Reconcilers PROVE FALSE
        OBVIOUS
    <2>2. rec[p].pc = "waiting"
        BY <2>1, ActorsAssumption DEF WaitsFor
    <2>3. \E s \in Subjects : subjectLock[s] = p
        BY <1>1, <2>1, ActorsAssumption DEF TypeOK
    <2> QED
        BY <2>1, <2>2, <2>3 DEF LockInv, LocksKept, NoLeakedLock, Holding
<1> QED
    BY <1>2, <1>3 DEF WaitsFor

(* Deliveries that move intents between subjects in opposite directions,   *)
(* and reconcilers of those subjects, never all wait for one another,      *)
(* however many there are: of the subjects that such actors have locked,   *)
(* whoever has the last waits for one beyond it.                           *)
THEOREM NoActorsWaitInACircle == Spec => []NoWaitCycle
<1>1. Init => LocksInOrder
    <2> SUFFICES ASSUME Init
                 PROVE  LocksInOrder
        OBVIOUS
    <2>1. /\ \A h \in Handlers : hnd[h].pc = "idle"
          /\ \A s \in Subjects : subjectLock[s] = Nobody
        BY DEF Init, StoreInit, IdleHnd
    <2>2. 0 \in Nat
        OBVIOUS
    <2> QED
        BY <2>1, <2>2 DEF LocksInOrder
<1>2. TypeOK /\ LockInv /\ LocksInOrder => NoWaitCycle
    <2> SUFFICES ASSUME TypeOK, LockInv, LocksInOrder,
                        NEW S \in (SUBSET (Reconcilers \cup Handlers)) \ {{}}
                 PROVE  \E p \in S : \A q \in S : ~WaitsFor(p, q)
        BY DEF NoWaitCycle
    <2> SUFFICES ASSUME \A p \in S : \E q \in S : WaitsFor(p, q)
                 PROVE  FALSE
        OBVIOUS
    <2> DEFINE Locked == { s \in Subjects : subjectLock[s] \in S }
    <2>1. ASSUME NEW o \in S, NEW p \in S, WaitsFor(o, p)
          PROVE  /\ p \in Handlers /\ hnd[p].pc = "locking" /\ hnd[p].todo # {}
                 /\ NextSubject(p) \in hnd[p].todo /\ NextSubject(p) \in Locked
        <3>1. PICK q \in S : WaitsFor(p, q)
            OBVIOUS
        <3>2. /\ p \in Handlers /\ hnd[p].pc = "locking" /\ hnd[p].todo # {}
              /\ subjectLock[NextSubject(p)] = q
            BY <2>1, <3>1, WaitsInTheMiddle
        <3>3. hnd[p].todo \in SUBSET Subjects
            BY <3>2 DEF TypeOK, HndStates
        <3> QED
            BY <3>2, <3>3, MinIsLeast, SubjectsAssumption DEF NextSubject
    <2>2. Locked # {}
        BY <2>1
    <2>3. PICK m \in Locked : \A s \in Locked : s <= m
        <3>1. PICK n \in Nat : \A s \in Subjects : subjectLock[s] # Nobody => s <= n
            BY DEF LocksInOrder
        <3>2. Locked \in SUBSET Nat /\ \A s \in Locked : s <= n
            BY <3>1, SubjectsAssumption, ActorsAssumption
        <3> HIDE DEF Locked
        <3> QED
            BY <2>2, <3>2, BoundedHasGreatest
    <2> DEFINE h == subjectLock[m]
    <2>4. h \in Handlers /\ hnd[h].pc = "locking" /\ m \in hnd[h].affected \ hnd[h].todo
        BY <2>3, ActorsAssumption DEF LockInv, LocksKept, NoLeakedLock, WaitsFor, Holding
    <2>5. NextSubject(h) \in hnd[h].todo /\ NextSubject(h) \in Locked
        <3>1. PICK q \in S : WaitsFor(h, q)
            BY <2>3
        <3>2. hnd[h].todo # {} /\ subjectLock[NextSubject(h)] = q
            BY <2>4, <3>1, ActorsAssumption DEF WaitsFor
        <3>3. hnd[h].todo \in SUBSET Subjects
            BY <2>4 DEF TypeOK, HndStates
        <3> QED
            BY <3>2, <3>3, MinIsLeast, SubjectsAssumption DEF NextSubject
    <2>6. m < NextSubject(h)
        BY <2>4, <2>5 DEF LocksInOrder
    <2>7. NextSubject(h) <= m
        BY <2>3, <2>5
    <2>8. m \in Nat /\ NextSubject(h) \in Nat
        BY <2>3, <2>5, SubjectsAssumption
    <2> HIDE DEF h, Locked
    <2> QED
        BY <2>6, <2>7, <2>8
<1> QED
    BY <1>1, <1>2, TypeCorrect, LocksAreOwned, OrderStep, PTL DEF Spec

-----------------------------------------------------------------------------
(* Attempts *)

WorkInv == InstantsOrdered /\ NextIsTheBoundary /\ RetryFollowsBackoff

(* An attempt is later than the last success, and knows the failure count. *)
Timely(r) ==
    /\ rec[r].started <= now
    /\ state[rec[r].subject].last_success_at <= rec[r].started
    /\ rec[r].retries = state[rec[r].subject].retry_count

(* What is true of the attempts that still have their sessions. *)
HeldInstants ==
    /\ \A s \in Subjects : state[s].last_success_at <= now
    /\ \A h \in Handlers : hnd[h].pc # "idle" => hnd[h].at <= now
    /\ \A r \in Reconcilers : rec[r].pc \in AtWork /\ HasSession(r) => Timely(r)

HeldBoundary ==
    \A r \in Reconcilers : rec[r].pc \in {"listed", "applying"} /\ HasSession(r) =>
        /\ rec[r].listed = IntentsOf(rec[r].subject)
        /\ rec[r].next = nextTransitionAt(rec[r].listed, rec[r].started)

HeldWork == HeldInstants /\ HeldBoundary /\ RetryFollowsBackoff

(* While no session is lost, that is every attempt at work. *)
LEMMA AllWorkIsHeld == LockInv /\ HeldWork => WorkInv
BY DEF LockInv, ReconcilersHold, HeldWork, HeldInstants, HeldBoundary, Timely,
   WorkInv, InstantsOrdered, NextIsTheBoundary, AtWork, Holding

(* A commit leaves alone the subjects whose lock it does not hold: it has  *)
(* the locks of the subject its intent leaves and of the one it goes to.   *)
LEMMA CommitFrame ==
    ASSUME TypeOK, LocksKept, NEW h \in Handlers, Commit(h), NEW s \in Subjects, subjectLock[s] # h
    PROVE  IntentsOf(s)' = IntentsOf(s) /\ state'[s] = state[s]
<1> DEFINE k == Key(hnd[h].intent)
<1>1. /\ hnd[h].affected = uniqueSubjects(intents[k].subject, hnd[h].intent.subject)
      /\ \A x \in hnd[h].affected : subjectLock[x] = h
    BY DEF Commit, LocksKept, HandlersHold
<1>2. s \notin hnd[h].affected
    BY <1>1
<1>3. intents[k].subject # s /\ hnd[h].intent.subject # s
    BY <1>1, <1>2, SubjectsAssumption DEF uniqueSubjects
<1>4. k \in Keys /\ intents \in [Keys -> Accepted \cup {NoIntent}]
    BY AcceptedIsValid DEF TypeOK, Commit
<1>5. intents' = [intents EXCEPT ![k] = hnd[h].intent]
    BY DEF Commit, UpsertIntent
<1>6. \A j \in Keys : (intents'[j].subject = s <=> intents[j].subject = s)
                      /\ (intents[j].subject = s => intents'[j] = intents[j])
    BY <1>3, <1>4, <1>5
<1>7. IntentsOf(s)' = IntentsOf(s)
    BY <1>6 DEF IntentsOf
<1>8. state'[s] = state[s]
    BY <1>2 DEF Commit, UpsertIntent
<1> QED
    BY <1>7, <1>8

(* Steps that begin, end or abandon an attempt without recording it. *)
Outer(r) ==
    \/ \E s \in Subjects : Begin(r, s)
    \/ LockSubjectFails(r) \/ LockSubject(r) \/ GetStateFails(r) \/ RecordSuccessFails(r)
    \/ RecordFailureSkipped(r) \/ Close(r) \/ CrashReconciler(r)

(* Such a step leaves the database, the directory and the clock alone. *)
LEMMA OuterStep ==
    ASSUME TypeOK, NEW r \in Reconcilers, Outer(r)
    PROVE  /\ rec'[r].pc \notin AtWork /\ \A q \in Reconcilers \ {r} : rec'[q] = rec[q]
           /\ UNCHANGED <<intents, state, member, now, hnd>>
<1>0. rec \in [Reconcilers -> RecStates] /\ rec[r] \in RecStates
    BY DEF TypeOK
<1>1. ASSUME NEW s \in Subjects, Begin(r, s)
      PROVE  /\ rec'[r].pc \notin AtWork /\ \A q \in Reconcilers \ {r} : rec'[q] = rec[q]
             /\ UNCHANGED <<intents, state, member, now, hnd>>
    BY <1>0, <1>1 DEF Begin, IdleRec, AtWork
<1>2. CASE LockSubjectFails(r)
    BY <1>0, <1>2 DEF LockSubjectFails, IdleRec, AtWork
<1>3. CASE LockSubject(r)
    BY <1>0, <1>3 DEF LockSubject, GoTo, RecStates, AtWork
<1>4. CASE GetStateFails(r)
    BY <1>0, <1>4 DEF GetStateFails, GoTo, RecStates, AtWork
<1>5. CASE RecordSuccessFails(r)
    BY <1>0, <1>5 DEF RecordSuccessFails, GoTo, RecStates, AtWork
<1>6. CASE RecordFailureSkipped(r)
    BY <1>0, <1>6 DEF RecordFailureSkipped, GoTo, RecStates, AtWork
<1>7. CASE Close(r)
    BY <1>0, <1>7 DEF Close, IdleRec, AtWork
<1>8. CASE CrashReconciler(r)
    BY <1>0, <1>8 DEF CrashReconciler, IdleRec, AtWork
<1> QED
    BY <1>1, <1>2, <1>3, <1>4, <1>5, <1>6, <1>7, <1>8 DEF Outer

(* Steps in the middle of an attempt. *)
Middle(r) ==
    \/ ListIntents(r) \/ ListIntentsFails(r) \/ Build(r) \/ BuildFails(r)
    \/ Add(r) \/ Remove(r) \/ WriteRefused(r) \/ WriteAnswerLost(r)

(* Such a step leaves the reconciliation state and the clock alone. *)
LEMMA MiddleStep ==
    ASSUME TypeOK, NEW r \in Reconcilers, Middle(r)
    PROVE  /\ rec[r].pc \in AtWork /\ rec'[r].started = rec[r].started
           /\ rec'[r].retries = rec[r].retries /\ rec'[r].subject = rec[r].subject
           /\ rec[r].subject \in Subjects
           /\ \A q \in Reconcilers \ {r} : rec'[q] = rec[q]
           /\ UNCHANGED <<intents, state, now, hnd>>
           /\ rec'[r].pc \in {"listed", "applying"} =>
                \/ /\ rec'[r].listed = IntentsOf(rec[r].subject)
                   /\ rec'[r].next = nextTransitionAt(rec'[r].listed, rec[r].started)
                \/ /\ rec[r].pc \in {"listed", "applying"}
                   /\ rec'[r].listed = rec[r].listed /\ rec'[r].next = rec[r].next
<1>0. /\ rec \in [Reconcilers -> RecStates] /\ rec[r] \in RecStates
      /\ rec[r].pc # "idle" => rec[r].subject \in Subjects
    BY DEF TypeOK
<1>1. CASE ListIntents(r)
    BY <1>0, <1>1 DEF ListIntents, RecStates, AtWork
<1>2. CASE ListIntentsFails(r)
    BY <1>0, <1>2 DEF ListIntentsFails, GoTo, RecStates, AtWork
<1>3. CASE Build(r)
    BY <1>0, <1>3 DEF Build, RecStates, AtWork
<1>4. CASE BuildFails(r)
    BY <1>0, <1>4 DEF BuildFails, GoTo, RecStates, AtWork
<1>5. CASE Add(r)
    BY <1>0, <1>5 DEF Add, RecStates, AtWork
<1>6. CASE Remove(r)
    BY <1>0, <1>6 DEF Remove, RecStates, AtWork
<1>7. CASE WriteRefused(r)
    BY <1>0, <1>7 DEF WriteRefused, GoTo, RecStates, AtWork
<1>8. CASE WriteAnswerLost(r)
    BY <1>0, <1>8 DEF WriteAnswerLost, GoTo, RecStates, AtWork
<1> QED
    BY <1>1, <1>2, <1>3, <1>4, <1>5, <1>6, <1>7, <1>8 DEF Middle

(* A reconciler at work has had its session before. *)
LEMMA SessionsStay ==
    ASSUME TypeOK, LocksKept, [Next]_vars, NEW q \in Reconcilers, rec'[q].pc \in AtWork, HasSession(q)'
    PROVE  rec[q].pc \in Holding /\ HasSession(q) /\ rec'[q].subject = rec[q].subject
<1>0. /\ rec \in [Reconcilers -> RecStates] /\ q \notin Handlers /\ q # Nobody
      /\ \A r \in Reconcilers : rec[r].pc # "idle" => rec[r].subject \in Subjects
      /\ subjectLock \in [Subjects -> Reconcilers \cup Handlers \cup {Nobody}]
      /\ AtWork \subseteq Holding
    BY ActorsAssumption DEF TypeOK, AtWork, Holding
<1>1. ASSUME rec'[q] = rec[q], \A s \in Subjects : subjectLock'[s] = q => subjectLock[s] = q
      PROVE  rec[q].pc \in Holding /\ HasSession(q) /\ rec'[q].subject = rec[q].subject
    BY <1>0, <1>1 DEF HasSession, Holding
<1>r. ASSUME NEW r \in Reconcilers, ReconcileStep(r)
      PROVE  rec[q].pc \in Holding /\ HasSession(q) /\ rec'[q].subject = rec[q].subject
    <2>1. CASE Inner(r)
        BY <1>0, <1>1, <2>1, InnerStep DEF HasSession
    <2>2. CASE Outer(r) /\ ~Inner(r)
        <3>1. q # r /\ rec'[q] = rec[q]
            BY <2>2, OuterStep
        <3>2. ASSUME NEW s \in Subjects, subjectLock'[s] = q
              PROVE  subjectLock[s] = q
            <4>1. \/ UNCHANGED subjectLock \/ subjectLock' = [subjectLock EXCEPT ![rec[r].subject] = r]
                  \/ subjectLock' = Released(subjectLock, r)
                BY <2>2 DEF Outer, Inner, Begin, LockSubjectFails, LockSubject, Close, CrashReconciler
            <4> QED
                BY <1>0, <3>1, <3>2, <4>1 DEF Released
        <3> QED
            BY <1>1, <3>1, <3>2
    <2> QED
        BY <1>r, <2>1, <2>2 DEF ReconcileStep, Outer, Inner
<1>h. ASSUME NEW h \in Handlers, HandlerStep(h)
      PROVE  rec[q].pc \in Holding /\ HasSession(q) /\ rec'[q].subject = rec[q].subject
    <2>1. rec' = rec
        BY <1>h DEF HandlerStep, Receive, LockIdentity, LockAffected, Commit, Rollback
    <2>2. \/ UNCHANGED subjectLock \/ subjectLock' = [subjectLock EXCEPT ![NextSubject(h)] = h]
          \/ subjectLock' = Released(subjectLock, h)
        BY <1>h DEF HandlerStep, Receive, LockIdentity, LockAffected, Commit, Rollback
    <2> QED
        BY <1>0, <1>1, <2>1, <2>2 DEF Released
<1>t. CASE Tick \/ UNCHANGED vars
    BY <1>1, <1>t DEF Tick, vars
<1> QED
    BY <1>r, <1>h, <1>t DEF Next

(* One step of the system keeps attempts consistent with what they read. *)
LEMMA WorkStep == TypeOK /\ TypeOK' /\ LocksKept /\ HeldWork /\ [Next]_vars => HeldWork'
<1> SUFFICES ASSUME TypeOK, TypeOK', LocksKept, HeldWork, [Next]_vars
             PROVE  HeldWork'
    OBVIOUS
<1> USE DEF HeldWork, HeldInstants, HeldBoundary, Timely, RetryFollowsBackoff
<1>0. /\ rec \in [Reconcilers -> RecStates] /\ hnd \in [Handlers -> HndStates]
      /\ state \in [Subjects -> Rows] /\ now \in Nat
      /\ \A q \in Reconcilers : rec[q].pc # "idle" => rec[q].subject \in Subjects
      /\ \A q \in Reconcilers : rec[q].started \in Nat /\ rec[q].retries \in 0..MaxRetries
      /\ \A h \in Handlers : hnd[h].at \in Nat
      /\ \A s \in Subjects : /\ state[s].last_success_at \in Nat \cup {Null}
                             /\ state[s].next_retry_at \in Nat \cup {Null}
                             /\ state[s].retry_count \in 0..MaxRetries
    BY DEF TypeOK, RecStates, HndStates, Rows
<1>1. AtWork \subseteq Holding /\ {"listed", "applying"} \subseteq AtWork /\ "idle" \notin Holding
    BY DEF AtWork, Holding
<1>2. UNCHANGED intents => \A s : IntentsOf(s)' = IntentsOf(s)
    BY DEF IntentsOf
<1>3. ASSUME NEW r \in Reconcilers, NEW q \in Reconcilers, q # r,
             HasSession(r), HasSession(q)
      PROVE  rec[q].subject # rec[r].subject
    BY <1>3 DEF HasSession
<1>4. ASSUME NEW q \in Reconcilers, rec'[q].pc \in AtWork, HasSession(q)'
      PROVE  HasSession(q) /\ rec'[q].subject = rec[q].subject /\ rec[q].subject \in Subjects
    BY <1>0, <1>1, <1>4, SessionsStay
<1>r. ASSUME NEW r \in Reconcilers, ReconcileStep(r)
      PROVE  HeldWork'
    <2>1. CASE Outer(r)
        BY <1>0, <1>1, <1>2, <1>4, <2>1, OuterStep
    <2>2. CASE GetState(r)
        <3>1. /\ rec[r].subject \in Subjects /\ rec'[r].subject = rec[r].subject
              /\ rec'[r].pc = "loaded" /\ rec'[r].started = now
              /\ rec'[r].retries = state[rec[r].subject].retry_count
              /\ \A q \in Reconcilers \ {r} : rec'[q] = rec[q]
              /\ UNCHANGED <<intents, state, now, hnd>>
            BY <1>0, <2>2 DEF GetState, RecStates
        <3> QED
            BY <1>0, <1>1, <1>2, <1>4, <3>1
    <2>3. CASE Middle(r)
        <3>1. HeldInstants'
            BY <1>0, <1>1, <1>4, <2>3, MiddleStep
        <3>2. HeldBoundary'
            BY <1>0, <1>1, <1>2, <1>4, <2>3, MiddleStep
        <3>3. RetryFollowsBackoff'
            BY <2>3, MiddleStep
        <3> QED
            BY <3>1, <3>2, <3>3
    <2>4. CASE RecordSuccess(r)
        <3>1. /\ rec[r].pc \in AtWork /\ HasSession(r) /\ rec[r].subject \in Subjects
              /\ rec'[r].pc = "closing" /\ \A q \in Reconcilers \ {r} : rec'[q] = rec[q]
              /\ UNCHANGED <<intents, now, hnd>>
            BY <1>0, <2>4 DEF RecordSuccess, GoTo, RecStates, AtWork, Holding
        <3>2. /\ \A s \in Subjects \ {rec[r].subject} : state'[s] = state[s]
              /\ state'[rec[r].subject].last_success_at = rec[r].started
              /\ state'[rec[r].subject].next_retry_at = Null
            BY <1>0, <2>4, <3>1 DEF RecordSuccess, recordSuccess
        <3>3. \A q \in Reconcilers : rec'[q].pc \in AtWork /\ HasSession(q)' =>
                 /\ q # r /\ rec'[q] = rec[q] /\ HasSession(q)
                 /\ rec[q].subject # rec[r].subject /\ rec[q].subject \in Subjects
            BY <1>3, <1>4, <3>1 DEF AtWork
        <3>4. HeldInstants'
            BY <1>0, <3>1, <3>2, <3>3
        <3>5. HeldBoundary'
            BY <1>0, <1>1, <1>2, <3>1, <3>3
        <3>6. RetryFollowsBackoff'
            BY <1>0, <3>1, <3>2 DEF Null
        <3> QED
            BY <3>4, <3>5, <3>6
    <2>5. CASE RecordFailure(r)
        <3>1. /\ rec[r].pc \in AtWork /\ HasSession(r) /\ rec[r].subject \in Subjects
              /\ rec'[r].pc = "closing" /\ \A q \in Reconcilers \ {r} : rec'[q] = rec[q]
              /\ UNCHANGED <<intents, now, hnd>>
            BY <1>0, <2>5 DEF RecordFailure, GoTo, RecStates, AtWork, Holding
        <3>2. LET old == state[rec[r].subject]
                  new == state'[rec[r].subject]
              IN  /\ \A s \in Subjects \ {rec[r].subject} : state'[s] = state[s]
                  /\ new.last_success_at = old.last_success_at /\ new.last_attempt_at = rec[r].started
                  /\ new.last_error /\ new.retry_count = old.retry_count + 1
                  /\ new.next_retry_at = rec[r].started + RetryDelay[rec[r].retries]
            BY <1>0, <2>5, <3>1 DEF RecordFailure, recordFailure, Rows
        <3>3. \A q \in Reconcilers : rec'[q].pc \in AtWork /\ HasSession(q)' =>
                 /\ q # r /\ rec'[q] = rec[q] /\ HasSession(q)
                 /\ rec[q].subject # rec[r].subject /\ rec[q].subject \in Subjects
            BY <1>3, <1>4, <3>1 DEF AtWork
        <3>4. HeldInstants'
            BY <1>0, <3>1, <3>2, <3>3
        <3>5. HeldBoundary'
            BY <1>0, <1>1, <1>2, <3>1, <3>3
        <3>6. RetryFollowsBackoff'
            <4>1. rec[r].retries = state[rec[r].subject].retry_count
                BY <3>1
            <4>2. LET new == state'[rec[r].subject]
                  IN  /\ new.last_error /\ new.retry_count > 0
                      /\ new.next_retry_at = new.last_attempt_at + RetryDelay[new.retry_count - 1]
                BY <1>0, <3>1, <3>2, <4>1
            <4> QED
                BY <3>1, <3>2, <4>2
        <3> QED
            BY <3>4, <3>5, <3>6
    <2> QED
        BY <1>r, <2>1, <2>2, <2>3, <2>4, <2>5 DEF ReconcileStep, Outer, Middle
<1>h. ASSUME NEW h \in Handlers, HandlerStep(h)
      PROVE  HeldWork'
    <2>1. CASE (\E i \in Accepted : Receive(h, i)) \/ LockIdentity(h) \/ LockAffected(h) \/ Rollback(h)
        <3>1. /\ hnd'[h].pc # "idle" => hnd'[h].at = now \/ (hnd[h].pc # "idle" /\ hnd'[h].at = hnd[h].at)
              /\ \A g \in Handlers \ {h} : hnd'[g] = hnd[g]
              /\ UNCHANGED <<intents, state, now, rec>>
            <4>1. ASSUME NEW i \in Accepted, Receive(h, i)
                  PROVE  /\ hnd'[h].at = now /\ \A g \in Handlers \ {h} : hnd'[g] = hnd[g]
                         /\ UNCHANGED <<intents, state, now, rec>>
                BY <1>0, <4>1 DEF Receive, IdleHnd
            <4>2. CASE LockIdentity(h)
                BY <1>0, <4>2 DEF LockIdentity, HndStates
            <4>3. CASE LockAffected(h)
                BY <1>0, <4>3 DEF LockAffected, HndStates
            <4>4. CASE Rollback(h)
                BY <1>0, <4>4 DEF Rollback, IdleHnd
            <4> QED
                BY <2>1, <4>1, <4>2, <4>3, <4>4
        <3> QED
            BY <1>0, <1>1, <1>2, <1>4, <3>1
    <2>2. CASE Commit(h)
        <3>1. /\ hnd[h].pc = "locking" /\ hnd'[h].pc = "idle" /\ \A g \in Handlers \ {h} : hnd'[g] = hnd[g]
              /\ UNCHANGED <<now, rec>>
            BY <1>0, <2>2 DEF Commit, IdleHnd
        <3>2. \A s \in Subjects :
                /\ state'[s].last_success_at = state[s].last_success_at
                /\ state'[s] = state[s] \/ state'[s].next_retry_at = hnd[h].at
            BY <1>0, <2>2 DEF Commit, UpsertIntent, Rows
        <3>3. \A s \in Subjects : subjectLock[s] # h =>
                 state'[s] = state[s] /\ IntentsOf(s)' = IntentsOf(s)
            BY <2>2, CommitFrame
        <3>7. \A q \in Reconcilers : rec'[q].pc \in AtWork /\ HasSession(q)' =>
                 HasSession(q) /\ rec[q].subject \in Subjects /\ subjectLock[rec[q].subject] # h
            BY <1>4, ActorsAssumption DEF HasSession
        <3>4. HeldInstants'
            BY <1>0, <3>1, <3>2, <3>3, <3>7
        <3>5. HeldBoundary'
            BY <1>1, <3>1, <3>3, <3>7
        <3>6. RetryFollowsBackoff'
            BY <1>0, <3>1, <3>2
        <3> QED
            BY <3>4, <3>5, <3>6
    <2> QED
        BY <1>h, <2>1, <2>2 DEF HandlerStep
<1>t. CASE Tick
    BY <1>0, <1>1, <1>2, <1>4, <1>t DEF Tick, Null
<1>u. CASE UNCHANGED vars
    BY <1>0, <1>1, <1>2, <1>4, <1>u DEF vars
<1> QED
    BY <1>r, <1>h, <1>t, <1>u DEF Next

(* In the beginning nothing is at work. *)
LEMMA WorkBegins == Init => HeldWork
<1> SUFFICES ASSUME Init
             PROVE  HeldWork
    OBVIOUS
<1>1. /\ \A r \in Reconcilers : rec[r].pc = "idle"
      /\ \A h \in Handlers : hnd[h].pc = "idle"
      /\ \A s \in Subjects : state[s].last_success_at = Null /\ state[s].next_retry_at = Null
      /\ now = 1
    BY DEF Init, StoreInit, ZeroState, IdleRec, IdleHnd
<1> QED
    BY <1>1 DEF HeldWork, HeldInstants, HeldBoundary, RetryFollowsBackoff, AtWork, Null

(* Attempts stay consistent in every behaviour. *)
LEMMA HeldWorkHolds == Spec => []HeldWork
<1>1. TypeOK /\ TypeOK' /\ LockInv /\ HeldWork /\ [Next]_vars => HeldWork'
    BY WorkStep DEF LockInv
<1> QED
    BY <1>1, WorkBegins, TypeCorrect, LocksAreOwned, PTL DEF Spec

LEMMA WorkHolds == Spec => []WorkInv
BY AllWorkIsHeld, HeldWorkHolds, LocksAreOwned, PTL

(* Webhook updates and reconciliation are serialized per subject as long   *)
(* as every session keeps its lock.                                        *)
THEOREM ReconciliationIsSerialized == Spec => []Serialized
<1>1. TypeOK /\ LockInv /\ WorkInv => Serialized
    <2> SUFFICES ASSUME TypeOK, LockInv, WorkInv, NEW r \in Reconcilers,
                        rec[r].pc \in {"listed", "applying"}
                 PROVE  /\ rec[r].listed = IntentsOf(rec[r].subject)
                        /\ \A q \in Reconcilers \ {r} :
                              ~(rec[q].pc \in {"listed", "applying"} /\ rec[q].subject = rec[r].subject)
        BY DEF Serialized
    <2> QED
        BY DEF WorkInv, NextIsTheBoundary, LockInv, ReconcilersHold, HasSession, Holding
<1> QED
    BY <1>1, TypeCorrect, LocksAreOwned, WorkHolds, PTL

(* A retry in the future is always the configured delay after a recorded   *)
(* failure, whatever webhooks and crashes come between.                    *)
THEOREM RetriesFollowBackoff == Spec => []RetryFollowsBackoff
<1>1. WorkInv => RetryFollowsBackoff
    BY DEF WorkInv
<1> QED
    BY <1>1, WorkHolds, PTL

-----------------------------------------------------------------------------
(* Memberships *)

(* Assertions read a user only through the rule that selects it, and the   *)
(* intents only through their aggregate state.                             *)
LEMMA AssertionsDependOn ==
    ASSUME NEW u, NEW v, NEW I, NEW J, NEW t1, NEW t2,
           RuleIndex(Cfg, u) = RuleIndex(Cfg, v), AggregateState(I, t1) = AggregateState(J, t2)
    PROVE  Assertions(Cfg, u, I, t1) = Assertions(Cfg, v, J, t2)
BY DEF Assertions

(* Writing a managed group does not change which rule selects the user. *)
LEMMA RuleIsStable ==
    ASSUME NEW s \in Subjects, NEW ids \in SUBSET GroupIDs, NEW g \in ManagedIDs(Cfg)
    PROVE  /\ RuleIndex(Cfg, Resolve(Cfg, s, ids \cup {g})) = RuleIndex(Cfg, Resolve(Cfg, s, ids))
           /\ RuleIndex(Cfg, Resolve(Cfg, s, ids \ {g})) = RuleIndex(Cfg, Resolve(Cfg, s, ids))
<1>1. RuleIndex(Cfg, Resolve(Cfg, s, ids \cup {g})) = RuleIndex(Cfg, Resolve(Cfg, s, ids \ {g}))
    BY PolicyStable
<1>2. CASE g \in ids
    <2>1. ids \cup {g} = ids
        BY <1>2
    <2> QED
        BY <1>1, <2>1
<1>3. CASE g \notin ids
    <2>1. ids \ {g} = ids
        BY <1>3
    <2> QED
        BY <1>1, <2>1
<1> QED
    BY <1>2, <1>3

(* An asserted alias holds exactly when the user is a member of its group. *)
LEMMA AliasHoldsIff ==
    ASSUME NEW s, NEW ids, NEW x \in Aliases, Range(Cfg.groups[x]) = {Target(x)}
    PROVE  x \in Resolve(Cfg, s, ids).groups <=> Target(x) \in ids
BY DEF Resolve, AliasesOf, Aliases

(* An addition of a plan does its own part of the plan and no other. *)
LEMMA AddEffect ==
    ASSUME NEW s \in Subjects, NEW ids \in SUBSET GroupIDs, NEW I, NEW t,
           NEW x \in AddGroups(Assertions(Cfg, Resolve(Cfg, s, ids), I, t), Resolve(Cfg, s, ids)),
           NEW more, more = ids \cup {Target(x)}
    PROVE  LET u == Resolve(Cfg, s, ids)
               v == Resolve(Cfg, s, more)
               a == Assertions(Cfg, u, I, t)
           IN  /\ Assertions(Cfg, v, I, t) = a
               /\ AddGroups(a, v) = AddGroups(a, u) \ {x}
               /\ RemoveGroups(a, v) = RemoveGroups(a, u)
<1> DEFINE u == Resolve(Cfg, s, ids)
           v == Resolve(Cfg, s, more)
           a == Assertions(Cfg, u, I, t)
<1>1. x \in a.present
    BY DEF AddGroups
<1>2. /\ a.present \subseteq Aliases /\ a.absent \subseteq Aliases
      /\ \A y \in a.present \cup a.absent :
            Range(Cfg.groups[y]) = {Target(y)} /\ Target(y) \in ManagedIDs(Cfg)
      /\ \A y \in a.present : Target(x) = Target(y) => x = y
      /\ \A y \in a.absent : Target(x) # Target(y)
    BY <1>1, AssertionsAreValidated
<1>3. Assertions(Cfg, v, I, t) = a
    <2>1. RuleIndex(Cfg, v) = RuleIndex(Cfg, u)
        BY <1>1, <1>2, RuleIsStable
    <2> QED
        BY <2>1, AssertionsDependOn
<1>4. \A y \in a.present \cup a.absent :
        (y \in u.groups <=> Target(y) \in ids) /\ (y \in v.groups <=> Target(y) \in more)
    BY <1>2, AliasHoldsIff
<1> HIDE DEF u, v, a
<1>5. AddGroups(a, v) = AddGroups(a, u) \ {x} /\ RemoveGroups(a, v) = RemoveGroups(a, u)
    BY <1>1, <1>2, <1>4 DEF AddGroups, RemoveGroups
<1> QED
    BY <1>3, <1>5 DEF u, v, a

(* A removal of a plan does its own part of the plan and no other. *)
LEMMA RemoveEffect ==
    ASSUME NEW s \in Subjects, NEW ids \in SUBSET GroupIDs, NEW I, NEW t,
           NEW x \in RemoveGroups(Assertions(Cfg, Resolve(Cfg, s, ids), I, t), Resolve(Cfg, s, ids)),
           NEW left, left = ids \ {Target(x)}
    PROVE  LET u == Resolve(Cfg, s, ids)
               v == Resolve(Cfg, s, left)
               a == Assertions(Cfg, u, I, t)
           IN  /\ Assertions(Cfg, v, I, t) = a
               /\ AddGroups(a, v) = AddGroups(a, u)
               /\ RemoveGroups(a, v) = RemoveGroups(a, u) \ {x}
<1> DEFINE u == Resolve(Cfg, s, ids)
           v == Resolve(Cfg, s, left)
           a == Assertions(Cfg, u, I, t)
<1>1. x \in a.absent
    BY DEF RemoveGroups
<1>2. /\ a.present \subseteq Aliases /\ a.absent \subseteq Aliases
      /\ \A y \in a.present \cup a.absent :
            Range(Cfg.groups[y]) = {Target(y)} /\ Target(y) \in ManagedIDs(Cfg)
      /\ \A y \in a.absent : Target(x) = Target(y) => x = y
      /\ \A y \in a.present : Target(x) # Target(y)
    BY <1>1, AssertionsAreValidated
<1>3. Assertions(Cfg, v, I, t) = a
    <2>1. RuleIndex(Cfg, v) = RuleIndex(Cfg, u)
        BY <1>1, <1>2, RuleIsStable
    <2> QED
        BY <2>1, AssertionsDependOn
<1>4. \A y \in a.present \cup a.absent :
        (y \in u.groups <=> Target(y) \in ids) /\ (y \in v.groups <=> Target(y) \in left)
    BY <1>2, AliasHoldsIff
<1> HIDE DEF u, v, a
<1>5. AddGroups(a, v) = AddGroups(a, u) /\ RemoveGroups(a, v) = RemoveGroups(a, u) \ {x}
    BY <1>1, <1>2, <1>4 DEF AddGroups, RemoveGroups
<1> QED
    BY <1>3, <1>5 DEF u, v, a

(* What is left of an attempt is what planning again would find. *)
PlanCurrent(r) ==
    LET user == User(rec[r].subject)
        a == Wanted(rec[r].subject, rec[r].started)
    IN  rec[r].adds = AddGroups(a, user) /\ rec[r].removes = RemoveGroups(a, user)

(* A subject is as its last success left it, if it is clean. *)
CleanRight(s) ==
    Clean(s) =>
        /\ state[s].last_success_at # Null
        /\ state[s].next_transition_at = nextTransitionAt(IntentsOf(s), state[s].last_success_at)
        /\ Satisfies(User(s), Wanted(s, state[s].last_success_at))

(* A clean subject has the memberships its intents ask for at any instant  *)
(* from its last success up to now.                                        *)
LEMMA CleanSatisfies ==
    ASSUME TypeOK, NEW s \in Subjects, CleanRight(s), Clean(s),
           NEW t \in Nat, state[s].last_success_at <= t, t <= now
    PROVE  Satisfies(User(s), Wanted(s, t))
<1> DEFINE last == state[s].last_success_at
<1>1. /\ last \in Nat /\ now \in Nat
      /\ state[s].next_transition_at = nextTransitionAt(IntentsOf(s), last)
      /\ Satisfies(User(s), Wanted(s, last))
    BY DEF TypeOK, Rows, CleanRight
<1>2. IntentsOf(s) \in SUBSET Accepted
    BY IntentsAreAccepted DEF TypeOK
<1>3. nextTransitionAt(IntentsOf(s), last) \in Nat \cup {Null}
    BY <1>1, <1>2, BoundaryIsEarliest
<1>4. nextTransitionAt(IntentsOf(s), last) = Null \/ t < nextTransitionAt(IntentsOf(s), last)
    BY <1>1, <1>3 DEF Clean, Null
<1>5. AggregateState(IntentsOf(s), t) = AggregateState(IntentsOf(s), last)
    BY <1>1, <1>2, <1>4, StateHoldsUntilBoundary
<1>6. Wanted(s, t) = Wanted(s, last)
    BY <1>5, AssertionsDependOn DEF Wanted
<1> QED
    BY <1>1, <1>6

(* No intents ask for nothing. *)
LEMMA NothingWanted ==
    ASSUME NEW s, IntentsOf(s) = {}, NEW t
    PROVE  Satisfies(User(s), Wanted(s, t))
<1>1. AggregateState(IntentsOf(s), t) = "none"
    BY DEF AggregateState
<1>2. Wanted(s, t) = [present |-> {}, absent |-> {}]
    BY <1>1 DEF Wanted, Assertions
<1> QED
    BY <1>2 DEF Satisfies

(* A plan for a clean subject is empty: an attempt that comes early, late  *)
(* or twice writes nothing.                                                *)
LEMMA CleanMeansNoWork ==
    ASSUME TypeOK, NEW r \in Reconcilers, rec[r].pc = "applying", Timely(r), PlanCurrent(r),
           CleanRight(rec[r].subject), Clean(rec[r].subject)
    PROVE  rec[r].adds = {} /\ rec[r].removes = {}
<1> DEFINE s == rec[r].subject
<1>1. /\ s \in Subjects /\ rec[r].started \in Nat
      /\ state[s].last_success_at <= rec[r].started /\ rec[r].started <= now
    BY DEF TypeOK, RecStates, Timely
<1>2. Satisfies(User(s), Wanted(s, rec[r].started))
    BY <1>1, CleanSatisfies
<1> QED
    BY <1>2 DEF PlanCurrent, Satisfies, AddGroups, RemoveGroups

(* The groups of what is left of a plan are as yet unwritten. *)
LEMMA RemainingWritesApply ==
    ASSUME NEW s, NEW ids, NEW I, NEW t
    PROVE  LET u == Resolve(Cfg, s, ids)
               a == Assertions(Cfg, u, I, t)
           IN  /\ \A x \in AddGroups(a, u) : Target(x) \notin ids
               /\ \A x \in RemoveGroups(a, u) : Target(x) \in ids
<1> DEFINE u == Resolve(Cfg, s, ids)
           a == Assertions(Cfg, u, I, t)
<1>1. \A y \in a.present \cup a.absent : y \in Aliases /\ Range(Cfg.groups[y]) = {Target(y)}
    BY AssertionsAreValidated
<1>2. \A y \in a.present \cup a.absent : y \in u.groups <=> Target(y) \in ids
    BY <1>1, AliasHoldsIff
<1> HIDE DEF u, a
<1>3. /\ \A x \in AddGroups(a, u) : Target(x) \notin ids
      /\ \A x \in RemoveGroups(a, u) : Target(x) \in ids
    BY <1>2 DEF AddGroups, RemoveGroups
<1> QED
    BY <1>3 DEF u, a

Write(r) == Add(r) \/ Remove(r) \/ WriteAnswerLost(r)

(* Only the holder of a subject's lock writes its memberships. *)
OwnWrites(s) ==
    member'[s] # member[s] =>
        \E r \in Reconcilers : rec[r].subject = s /\ HasSession(r) /\ Write(r)

(* A write of an attempt to its subject leaves the rest of its plan. *)
LEMMA WriteStep ==
    ASSUME TypeOK, NEW r \in Reconcilers, Write(r)
    PROVE  /\ rec[r].pc = "applying" /\ (rec[r].adds # {} \/ rec[r].removes # {})
           /\ rec[r].subject \in Subjects /\ rec'[r].subject = rec[r].subject
           /\ \A q \in Reconcilers \ {r} : rec'[q] = rec[q]
           /\ \A x \in Subjects \ {rec[r].subject} : member'[x] = member[x]
           /\ UNCHANGED <<intents, state, now, hnd, subjectLock>>
           /\ rec'[r].pc = "applying" /\ PlanCurrent(r) => PlanCurrent(r)'
<1> DEFINE s == rec[r].subject
           M == member[s]
           I == IntentsOf(s)
           t == rec[r].started
           u == Resolve(Cfg, s, M)
           a == Assertions(Cfg, u, I, t)
<1>0. /\ rec \in [Reconcilers -> RecStates] /\ member \in [Subjects -> SUBSET GroupIDs]
      /\ rec[r].adds \subseteq Aliases /\ rec[r].removes \subseteq Aliases
      /\ rec[r].pc # "idle" => rec[r].subject \in Subjects
    BY DEF TypeOK, RecStates
<1>1. UNCHANGED intents => \A x : IntentsOf(x)' = IntentsOf(x)
    BY DEF IntentsOf
<1>2. PlanCurrent(r) => rec[r].adds = AddGroups(a, u) /\ rec[r].removes = RemoveGroups(a, u)
    BY DEF PlanCurrent, User, Wanted
<1>m. s \in Subjects => M \in SUBSET GroupIDs
    BY <1>0
<1>3. CASE Add(r)
    <2> DEFINE x == Min(rec[r].adds)
    <2>1. /\ rec[r].pc = "applying" /\ rec[r].adds # {} /\ x \in rec[r].adds /\ s \in Subjects
        BY <1>0, <1>3, NextAliasTyped DEF Add
    <2>2. /\ member' = [member EXCEPT ![s] = M \cup {Target(x)}] /\ member'[s] = M \cup {Target(x)}
          /\ rec'[r].subject = s /\ rec'[r].started = t
          /\ rec'[r].adds = rec[r].adds \ {x} /\ rec'[r].removes = rec[r].removes
          /\ \A q \in Reconcilers \ {r} : rec'[q] = rec[q]
          /\ UNCHANGED <<intents, state, now, hnd, subjectLock>>
        BY <1>0, <1>3, <2>1 DEF Add, AddGroupMember, RecStates
    <2>3. ASSUME PlanCurrent(r)
          PROVE  PlanCurrent(r)'
        <3>1. LET v == Resolve(Cfg, s, member'[s])
              IN  /\ Assertions(Cfg, v, I, t) = a
                  /\ AddGroups(a, v) = AddGroups(a, u) \ {x}
                  /\ RemoveGroups(a, v) = RemoveGroups(a, u)
            <4>1. /\ s \in Subjects /\ M \in SUBSET GroupIDs /\ member'[s] = M \cup {Target(x)}
                  /\ x \in AddGroups(Assertions(Cfg, Resolve(Cfg, s, M), I, t), Resolve(Cfg, s, M))
                BY <1>2, <1>m, <2>1, <2>2, <2>3
            <4> HIDE DEF s, M, I, t, x
            <4> QED
                BY <4>1, AddEffect
        <3> HIDE DEF x, a, u, I, t
        <3>2. LET v == Resolve(Cfg, s, member'[s])
                  b == Assertions(Cfg, v, I, t)
              IN  rec'[r].adds = AddGroups(b, v) /\ rec'[r].removes = RemoveGroups(b, v)
            BY <1>2, <2>2, <2>3, <3>1
        <3> QED
            BY <1>1, <2>2, <3>2 DEF PlanCurrent, User, Wanted, I, t
    <2>4. \A y \in Subjects \ {s} : member'[y] = member[y]
        BY <1>0, <2>2
    <2> QED
        BY <2>1, <2>2, <2>3, <2>4
<1>4. CASE Remove(r)
    <2> DEFINE x == Min(rec[r].removes)
    <2>1. /\ rec[r].pc = "applying" /\ rec[r].removes # {} /\ x \in rec[r].removes /\ s \in Subjects
        BY <1>0, <1>4, NextAliasTyped DEF Remove
    <2>2. /\ member' = [member EXCEPT ![s] = M \ {Target(x)}] /\ member'[s] = M \ {Target(x)}
          /\ rec'[r].subject = s /\ rec'[r].started = t
          /\ rec'[r].adds = rec[r].adds /\ rec'[r].removes = rec[r].removes \ {x}
          /\ \A q \in Reconcilers \ {r} : rec'[q] = rec[q]
          /\ UNCHANGED <<intents, state, now, hnd, subjectLock>>
        BY <1>0, <1>4, <2>1 DEF Remove, RemoveGroupMember, RecStates
    <2>3. ASSUME PlanCurrent(r)
          PROVE  PlanCurrent(r)'
        <3>1. LET v == Resolve(Cfg, s, member'[s])
              IN  /\ Assertions(Cfg, v, I, t) = a
                  /\ AddGroups(a, v) = AddGroups(a, u)
                  /\ RemoveGroups(a, v) = RemoveGroups(a, u) \ {x}
            <4>1. /\ s \in Subjects /\ M \in SUBSET GroupIDs /\ member'[s] = M \ {Target(x)}
                  /\ x \in RemoveGroups(Assertions(Cfg, Resolve(Cfg, s, M), I, t), Resolve(Cfg, s, M))
                BY <1>2, <1>m, <2>1, <2>2, <2>3
            <4> HIDE DEF s, M, I, t, x
            <4> QED
                BY <4>1, RemoveEffect
        <3> HIDE DEF x, a, u, I, t
        <3>2. LET v == Resolve(Cfg, s, member'[s])
                  b == Assertions(Cfg, v, I, t)
              IN  rec'[r].adds = AddGroups(b, v) /\ rec'[r].removes = RemoveGroups(b, v)
            BY <1>2, <2>2, <2>3, <3>1
        <3> QED
            BY <1>1, <2>2, <3>2 DEF PlanCurrent, User, Wanted, I, t
    <2>4. \A y \in Subjects \ {s} : member'[y] = member[y]
        BY <1>0, <2>2
    <2> QED
        BY <2>1, <2>2, <2>3, <2>4
<1>5. CASE WriteAnswerLost(r)
    <2>1. /\ rec[r].pc = "applying" /\ (rec[r].adds # {} \/ rec[r].removes # {}) /\ s \in Subjects
          /\ rec'[r].pc = "failing" /\ rec'[r].subject = s
          /\ \A q \in Reconcilers \ {r} : rec'[q] = rec[q]
          /\ UNCHANGED <<intents, state, now, hnd, subjectLock>>
        BY <1>0, <1>5 DEF WriteAnswerLost, GoTo, RecStates
    <2>2. \A y \in Subjects \ {s} : member'[y] = member[y]
        BY <1>0, <1>5, <2>1 DEF WriteAnswerLost, AddGroupMember, RemoveGroupMember
    <2> QED
        BY <2>1, <2>2
<1> QED
    BY <1>3, <1>4, <1>5 DEF Write

(* A success leaves its subject clean only if it has done its plan. *)
LEMMA SuccessCleans ==
    ASSUME TypeOK, HeldWork, NEW r \in Reconcilers, RecordSuccess(r), PlanCurrent(r)
    PROVE  CleanRight(rec[r].subject)'
<1>0. PICK s \in Subjects, t \in Nat : s = rec[r].subject /\ t = rec[r].started
    BY DEF RecordSuccess, TypeOK, RecStates
<1>1. /\ rec[r].pc = "applying" /\ rec[r].adds = {} /\ rec[r].removes = {} /\ HasSession(r)
      /\ UNCHANGED <<intents, member>>
    BY DEF RecordSuccess
<1>2. state'[s].last_success_at = t /\ state'[s].next_transition_at = rec[r].next
    BY <1>0 DEF RecordSuccess, recordSuccess, TypeOK
<1>3. rec[r].next = nextTransitionAt(IntentsOf(s), t)
    BY <1>0, <1>1 DEF HeldWork, HeldBoundary
<1>4. Satisfies(User(s), Wanted(s, t))
    BY <1>0, <1>1 DEF PlanCurrent, Satisfies, AddGroups, RemoveGroups
<1>5. rec'[r].subject = s
    BY <1>0 DEF RecordSuccess, GoTo, TypeOK, RecStates
<1>6. \A x : IntentsOf(x)' = IntentsOf(x)
    BY <1>1 DEF IntentsOf
<1>7. t # Null
    BY DEF Null
<1>8. /\ state'[s].last_success_at # Null
      /\ state'[s].next_transition_at = nextTransitionAt(IntentsOf(s), state'[s].last_success_at)
      /\ Satisfies(Resolve(Cfg, s, member'[s]),
                   Assertions(Cfg, Resolve(Cfg, s, member'[s]), IntentsOf(s), state'[s].last_success_at))
    <2>1. member' = member
        BY <1>1
    <2>2. Satisfies(Resolve(Cfg, s, member[s]), Assertions(Cfg, Resolve(Cfg, s, member[s]), IntentsOf(s), t))
        BY <1>4 DEF User, Wanted
    <2> QED
        BY <1>2, <1>3, <1>7, <2>1, <2>2
<1>9. CleanRight(s)'
    BY <1>6, <1>8 DEF CleanRight, User, Wanted
<1> QED
    <2>1. rec[r].subject = s /\ rec'[r].subject = s
        BY <1>0, <1>5
    <2> QED
        BY <1>9, <2>1

(* Steps of an attempt that write neither memberships nor its outcome. *)
Silent(r) ==
    \/ Outer(r) \/ GetState(r) \/ ListIntents(r) \/ ListIntentsFails(r) \/ Build(r)
    \/ BuildFails(r) \/ WriteRefused(r)

(* They leave the database, the directory and the clock alone. *)
LEMMA SilentStep ==
    ASSUME TypeOK, NEW r \in Reconcilers, Silent(r)
    PROVE  /\ \A q \in Reconcilers \ {r} : rec'[q] = rec[q]
           /\ UNCHANGED <<intents, state, member, now>>
           /\ rec'[r].pc = "applying" => Build(r)
<1>0. rec \in [Reconcilers -> RecStates] /\ rec[r] \in RecStates
    BY DEF TypeOK
<1>1. CASE Outer(r)
    BY <1>1, OuterStep DEF AtWork
<1>2. CASE GetState(r)
    BY <1>0, <1>2 DEF GetState, RecStates
<1>3. CASE ListIntents(r)
    BY <1>0, <1>3 DEF ListIntents, RecStates
<1>4. CASE ListIntentsFails(r)
    BY <1>0, <1>4 DEF ListIntentsFails, GoTo, RecStates
<1>5. CASE Build(r)
    BY <1>0, <1>5 DEF Build, RecStates
<1>6. CASE BuildFails(r)
    BY <1>0, <1>6 DEF BuildFails, GoTo, RecStates
<1>7. CASE WriteRefused(r)
    BY <1>0, <1>7 DEF WriteRefused, GoTo, RecStates
<1> QED
    BY <1>1, <1>2, <1>3, <1>4, <1>5, <1>6, <1>7 DEF Silent

(* A failure is recorded for its own subject, with a retry. *)
LEMMA FailureRetries ==
    ASSUME TypeOK, NEW r \in Reconcilers, RecordFailure(r)
    PROVE  /\ rec[r].subject \in Subjects /\ rec'[r].pc = "closing"
           /\ \A q \in Reconcilers \ {r} : rec'[q] = rec[q]
           /\ \A x \in Subjects \ {rec[r].subject} : state'[x] = state[x]
           /\ state'[rec[r].subject].next_retry_at # Null
           /\ UNCHANGED <<intents, member, now>>
<1>0. /\ rec[r].subject \in Subjects /\ state \in [Subjects -> Rows]
      /\ rec \in [Reconcilers -> RecStates]
      /\ rec[r].started \in Nat /\ rec[r].retries \in 0..MaxRetries
    BY DEF RecordFailure, TypeOK, RecStates
<1>1. /\ rec'[r].pc = "closing" /\ \A q \in Reconcilers \ {r} : rec'[q] = rec[q]
      /\ UNCHANGED <<intents, member, now>>
    BY <1>0 DEF RecordFailure, GoTo, RecStates
<1>2. /\ \A x \in Subjects \ {rec[r].subject} : state'[x] = state[x]
      /\ state'[rec[r].subject].next_retry_at = rec[r].started + RetryDelay[rec[r].retries]
    BY <1>0 DEF RecordFailure, recordFailure, Rows
<1>3. rec[r].started + RetryDelay[rec[r].retries] # Null
    BY <1>0, RetryAssumption DEF Null
<1> QED
    BY <1>0, <1>1, <1>2, <1>3

(* Memberships change by the writes of their subject. *)
LEMMA OnlyWritesChange ==
    ASSUME TypeOK, [Next]_vars, NEW s \in Subjects, member'[s] # member[s]
    PROVE  \E r \in Reconcilers : rec[r].subject = s /\ rec[r].pc = "applying" /\ Write(r)
<1>r. ASSUME NEW r \in Reconcilers, ReconcileStep(r)
      PROVE  rec[r].subject = s /\ rec[r].pc = "applying" /\ Write(r)
    <2>1. CASE Silent(r)
        BY <2>1, SilentStep
    <2>2. CASE Write(r)
        BY <2>2, WriteStep
    <2>3. CASE RecordSuccess(r) \/ RecordFailure(r)
        BY <2>3 DEF RecordSuccess, RecordFailure
    <2> QED
        BY <1>r, <2>1, <2>2, <2>3 DEF ReconcileStep, Outer, Silent, Write
<1>h. ASSUME NEW h \in Handlers, HandlerStep(h)
      PROVE  FALSE
    BY <1>h DEF HandlerStep, Receive, LockIdentity, LockAffected, Commit, Rollback
<1>t. ~Tick /\ ~UNCHANGED vars
    BY DEF Tick, vars
<1> QED
    BY <1>r, <1>h, <1>t DEF Next

(* A step keeps the plan of an attempt that keeps its session, if only the *)
(* holder of its subject's lock writes the memberships.                    *)
LEMMA PlanStep ==
    ASSUME TypeOK, LocksKept, HeldWork, [Next]_vars, NEW q \in Reconcilers,
           rec'[q].pc = "applying", HasSession(q)', OwnWrites(rec[q].subject),
           rec[q].pc = "applying" => PlanCurrent(q)
    PROVE  PlanCurrent(q)'
<1>0. PICK s \in Subjects : s = rec[q].subject /\ rec'[q].subject = s /\ HasSession(q)
    BY SessionsStay DEF AtWork, Holding, TypeOK
<1>1. ASSUME rec'[q] = rec[q], IntentsOf(s)' = IntentsOf(s), member'[s] = member[s]
      PROVE  PlanCurrent(q)'
    BY <1>0, <1>1 DEF PlanCurrent, User, Wanted
<1>2. UNCHANGED intents => IntentsOf(s)' = IntentsOf(s)
    BY DEF IntentsOf
<1>r. ASSUME NEW r \in Reconcilers, ReconcileStep(r)
      PROVE  PlanCurrent(q)'
    <2>1. CASE Silent(r)
        <3>1. CASE r # q
            BY <1>1, <1>2, <2>1, <3>1, SilentStep
        <3>2. CASE r = q
            <4>1. Build(q) /\ UNCHANGED <<intents, member>>
                BY <2>1, <3>2, SilentStep
            <4>2. rec[q].listed = IntentsOf(s) /\ rec[q] \in RecStates
                BY <1>0, <4>1 DEF Build, HeldWork, HeldBoundary, TypeOK
            <4>3. LET user == User(s)
                      a == Assertions(Cfg, user, IntentsOf(s), rec[q].started)
                  IN  /\ rec'[q].adds = AddGroups(a, user) /\ rec'[q].removes = RemoveGroups(a, user)
                      /\ rec'[q].started = rec[q].started
                BY <1>0, <4>1, <4>2 DEF Build, TypeOK, RecStates
            <4> QED
                BY <1>0, <1>2, <4>1, <4>3 DEF PlanCurrent, User, Wanted
        <3> QED
            BY <3>1, <3>2
    <2>2. CASE Write(r)
        <3>1. CASE Write(q)
            BY <3>1, WriteStep
        <3>2. CASE ~Write(q)
            <4>1. member'[s] = member[s]
                BY <1>0, <3>2 DEF OwnWrites, HasSession
            <4> QED
                BY <1>1, <1>2, <2>2, <3>2, <4>1, WriteStep
        <3> QED
            BY <3>1, <3>2
    <2>3. CASE RecordSuccess(r)
        <3>1. /\ rec'[r].pc = "closing" /\ UNCHANGED <<intents, member>>
              /\ \A p \in Reconcilers \ {r} : rec'[p] = rec[p]
            BY <2>3 DEF RecordSuccess, GoTo, TypeOK, RecStates
        <3> QED
            BY <1>1, <1>2, <3>1
    <2>4. CASE RecordFailure(r)
        BY <1>1, <1>2, <2>4, FailureRetries
    <2> QED
        BY <1>r, <2>1, <2>2, <2>3, <2>4 DEF ReconcileStep, Outer, Silent, Write
<1>h. ASSUME NEW h \in Handlers, HandlerStep(h)
      PROVE  PlanCurrent(q)'
    <2>1. UNCHANGED <<member, rec>>
        BY <1>h DEF HandlerStep, Receive, LockIdentity, LockAffected, Commit, Rollback
    <2>2. CASE Commit(h)
        <3>1. subjectLock[s] # h
            BY <1>0, ActorsAssumption DEF HasSession
        <3> QED
            BY <1>0, <1>1, <2>1, <2>2, <3>1, CommitFrame
    <2>3. CASE ~Commit(h)
        <3>1. UNCHANGED intents
            BY <1>h, <2>3 DEF HandlerStep, Receive, LockIdentity, LockAffected, Rollback
        <3> QED
            BY <1>1, <1>2, <2>1, <3>1
    <2> QED
        BY <2>2, <2>3
<1>t. CASE Tick \/ UNCHANGED vars
    BY <1>1, <1>2, <1>t DEF Tick, vars
<1> QED
    BY <1>r, <1>h, <1>t DEF Next

(* A step keeps a subject right, if only the holder of its lock writes its *)
(* memberships, and by a current plan.                                     *)
LEMMA CleanStep ==
    ASSUME TypeOK, LocksKept, HeldWork, [Next]_vars, NEW s \in Subjects, CleanRight(s), OwnWrites(s),
           \A r \in Reconcilers :
              rec[r].pc = "applying" /\ rec[r].subject = s /\ HasSession(r) => PlanCurrent(r)
    PROVE  CleanRight(s)'
<1>0. /\ now \in Nat /\ state \in [Subjects -> Rows] /\ state[s] \in Rows
    BY DEF TypeOK
<1>1. ASSUME state'[s] = state[s], now' = now, IntentsOf(s)' = IntentsOf(s), member'[s] = member[s]
      PROVE  CleanRight(s)'
    BY <1>1 DEF CleanRight, Clean, User, Wanted
<1>2. UNCHANGED intents => IntentsOf(s)' = IntentsOf(s)
    BY DEF IntentsOf
<1>r. ASSUME NEW r \in Reconcilers, ReconcileStep(r)
      PROVE  CleanRight(s)'
    <2>1. CASE Silent(r)
        BY <1>1, <1>2, <2>1, SilentStep
    <2>2. CASE Write(r)
        <3>1. CASE member'[s] = member[s]
            BY <1>1, <1>2, <2>2, <3>1, WriteStep
        <3>2. CASE member'[s] # member[s]
            <4>0. PICK q \in Reconcilers : rec[q].subject = s /\ HasSession(q) /\ Write(q)
                BY <3>2 DEF OwnWrites
            <4>1. /\ rec[q].pc = "applying" /\ (rec[q].adds # {} \/ rec[q].removes # {})
                  /\ state' = state /\ now' = now
                BY <4>0, WriteStep
            <4>3. Timely(q) /\ PlanCurrent(q)
                BY <4>0, <4>1 DEF HeldWork, HeldInstants, AtWork
            <4>4. ~Clean(s)
                BY <4>0, <4>1, <4>3, CleanMeansNoWork
            <4> QED
                BY <4>1, <4>4 DEF CleanRight, Clean
        <3> QED
            BY <3>1, <3>2
    <2>3. CASE RecordSuccess(r)
        <3>1. /\ rec[r].pc = "applying" /\ HasSession(r) /\ UNCHANGED <<intents, member, now>>
              /\ rec[r].subject # s => state'[s] = state[s]
              /\ rec'[r].subject = rec[r].subject
            BY <1>0, <2>3 DEF RecordSuccess, recordSuccess, GoTo, TypeOK, RecStates
        <3>2. CASE rec[r].subject = s
            BY <2>3, <3>1, <3>2, SuccessCleans
        <3>3. CASE rec[r].subject # s
            BY <1>1, <1>2, <3>1, <3>3
        <3> QED
            BY <3>2, <3>3
    <2>4. CASE RecordFailure(r)
        <3>1. CASE rec[r].subject = s
            BY <2>4, <3>1, FailureRetries DEF CleanRight, Clean
        <3>2. CASE rec[r].subject # s
            BY <1>1, <1>2, <2>4, <3>2, FailureRetries
        <3> QED
            BY <3>1, <3>2
    <2> QED
        BY <1>r, <2>1, <2>2, <2>3, <2>4 DEF ReconcileStep, Outer, Silent, Write
<1>h. ASSUME NEW h \in Handlers, HandlerStep(h)
      PROVE  CleanRight(s)'
    <2>1. UNCHANGED <<member, now>>
        BY <1>h DEF HandlerStep, Receive, LockIdentity, LockAffected, Commit, Rollback
    <2>2. CASE Commit(h)
        <3>1. CASE subjectLock[s] # h
            BY <1>1, <2>1, <2>2, <3>1, CommitFrame
        <3>2. CASE subjectLock[s] = h
            <4>1. s \in hnd[h].affected
                BY <3>2 DEF LocksKept, NoLeakedLock
            <4>2. state'[s] = [state[s] EXCEPT !.exists = TRUE, !.next_retry_at = hnd[h].at]
                BY <2>2, <4>1 DEF Commit, UpsertIntent
            <4>3. state'[s].next_retry_at = hnd[h].at
                BY <1>0, <4>2 DEF Rows
            <4>4. hnd[h].at # Null
                BY DEF TypeOK, HndStates, Null
            <4> QED
                BY <4>3, <4>4 DEF CleanRight, Clean
        <3> QED
            BY <3>1, <3>2
    <2>3. CASE ~Commit(h)
        <3>1. UNCHANGED <<intents, state>>
            BY <1>h, <2>3 DEF HandlerStep, Receive, LockIdentity, LockAffected, Rollback
        <3> QED
            BY <1>1, <1>2, <2>1, <3>1
    <2> QED
        BY <2>2, <2>3
<1>t. CASE Tick
    <2>1. now' = now + 1 /\ UNCHANGED <<intents, state, member>>
        BY <1>t DEF Tick
    <2>2. Clean(s)' => Clean(s)
        <3>1. state[s].next_transition_at \in Nat \cup {Null}
            BY <1>0 DEF Rows
        <3> QED
            BY <1>0, <2>1, <3>1 DEF Clean, Null
    <2> QED
        BY <1>2, <2>1, <2>2 DEF CleanRight, User, Wanted
<1>u. CASE UNCHANGED vars
    BY <1>1, <1>2, <1>u DEF vars
<1> QED
    BY <1>r, <1>h, <1>t, <1>u DEF Next

MemberInv == RemainingWorkIsThePlan /\ CleanSinceSuccess

(* One step of the system keeps plans and clean subjects right. *)
LEMMA MemberStep ==
    TypeOK /\ LockInv /\ LockInv' /\ HeldWork /\ MemberInv /\ [Next]_vars => MemberInv'
<1> SUFFICES ASSUME TypeOK, LockInv, LockInv', HeldWork, MemberInv, [Next]_vars
             PROVE  MemberInv'
    OBVIOUS
<1>0. LocksKept /\ ReconcilersHold /\ ReconcilersHold'
    BY DEF LockInv
<1>1. \A s \in Subjects : OwnWrites(s)
    BY <1>0, OnlyWritesChange DEF OwnWrites, ReconcilersHold, Holding
<1>2. \A q \in Reconcilers : rec[q].pc = "applying" => PlanCurrent(q)
    BY DEF MemberInv, RemainingWorkIsThePlan, PlanCurrent
<1>3. ASSUME NEW q \in Reconcilers, rec'[q].pc = "applying"
      PROVE  PlanCurrent(q)'
    <2>1. HasSession(q)'
        BY <1>0, <1>3 DEF ReconcilersHold, Holding
    <2>2. rec[q].subject \in Subjects
        BY <1>0, <1>3, <2>1, SessionsStay DEF AtWork, Holding, TypeOK
    <2> QED
        BY <1>0, <1>1, <1>2, <1>3, <2>1, <2>2, PlanStep
<1>4. ASSUME NEW q \in Reconcilers, PlanCurrent(q)'
      PROVE  ( /\ \A alias \in rec[q].adds : Target(alias) \notin member[rec[q].subject]
               /\ \A alias \in rec[q].removes : Target(alias) \in member[rec[q].subject] )'
    BY <1>4, RemainingWritesApply DEF PlanCurrent, User, Wanted
<1>5. RemainingWorkIsThePlan'
    BY <1>3, <1>4 DEF RemainingWorkIsThePlan, PlanCurrent
<1>6. ASSUME NEW s \in Subjects
      PROVE  CleanRight(s)'
    <2>1. CleanRight(s)
        BY DEF MemberInv, CleanSinceSuccess, CleanRight
    <2> QED
        BY <1>0, <1>1, <1>2, <2>1, CleanStep
<1>7. CleanSinceSuccess'
    BY <1>6 DEF CleanSinceSuccess, CleanRight
<1> QED
    BY <1>5, <1>7 DEF MemberInv

(* Plans in progress and clean subjects are right in every behaviour. *)
LEMMA MembershipHolds == Spec => []MemberInv
<1>1. Init => MemberInv
    <2> SUFFICES ASSUME Init
                 PROVE  MemberInv
        OBVIOUS
    <2>1. /\ \A r \in Reconcilers : rec[r].pc = "idle"
          /\ \A s \in Subjects : ~state[s].exists
        BY DEF Init, StoreInit, ZeroState, IdleRec
    <2> QED
        BY <2>1 DEF MemberInv, RemainingWorkIsThePlan, CleanSinceSuccess, Clean
<1> QED
    BY <1>1, TypeCorrect, LocksAreOwned, HeldWorkHolds, MemberStep, PTL DEF Spec

(* What is left of a plan is always what planning again would find, so no  *)
(* write of ReconcileSubject is refused for being made already.            *)
THEOREM PlansStayCurrent == Spec => []RemainingWorkIsThePlan
<1>1. MemberInv => RemainingWorkIsThePlan
    BY DEF MemberInv
<1> QED
    BY <1>1, MembershipHolds, PTL

(* The promise of the system: a subject that nothing in the database will  *)
(* bring reconciliation back to has the memberships its intents ask for,   *)
(* for any configuration, any deliveries and any number of actors.         *)
THEOREM UpToDateSubjectsConform == Spec => []UpToDateConforms
<1>1. TypeOK /\ WorkInv /\ MemberInv => UpToDateConforms
    <2> SUFFICES ASSUME TypeOK, WorkInv, MemberInv, NEW s \in Subjects,
                        s \notin ListSubjectsDue(now), state[s].next_retry_at = Null
                 PROVE  Satisfies(User(s), Wanted(s, now))
        BY DEF UpToDateConforms
    <2>1. /\ now \in Nat /\ state[s] \in Rows
          /\ state[s].next_transition_at \in Nat \cup {Null}
        BY DEF TypeOK, Rows
    <2>2. CASE state[s].exists
        <3>1. Clean(s)
            BY <2>1, <2>2 DEF ListSubjectsDue, Reached, Clean, Null
        <3>2. state[s].last_success_at <= now
            BY DEF WorkInv, InstantsOrdered
        <3>3. now <= now
            BY <2>1
        <3> QED
            BY <2>1, <3>1, <3>2, <3>3, CleanSatisfies DEF MemberInv, CleanSinceSuccess, CleanRight
    <2>3. CASE ~state[s].exists
        <3>1. IntentsOf(s) = {}
            BY <2>3 DEF ListSubjectsDue
        <3> QED
            BY <3>1, NothingWanted
    <2> QED
        BY <2>2, <2>3
<1> QED
    BY <1>1, TypeCorrect, WorkHolds, MembershipHolds, PTL

(* The strengthening that the runs check holds in every behaviour: locks,  *)
(* instants, boundaries, plans and clean subjects are right together.      *)
THEOREM InductiveInvariantHolds == Spec => []Inductive
<1>1. LockInv /\ WorkInv /\ MemberInv => Inductive
    BY DEF LockInv, LocksKept, WorkInv, MemberInv, Inductive
<1> QED
    BY <1>1, LocksAreOwned, WorkHolds, MembershipHolds, PTL

-----------------------------------------------------------------------------
(* Metrics *)

(* A row has an error exactly when it counts failures, and then names the  *)
(* next attempt: a webhook moves that attempt and keeps the other two, a   *)
(* success clears all three.                                               *)
FailuresRetried ==
    \A s \in Subjects :
        /\ state[s].last_error <=> state[s].retry_count > 0
        /\ state[s].last_error => state[s].next_retry_at # Null

(* One step of the system keeps error, count and retry together. *)
LEMMA FailureStep == TypeOK /\ TypeOK' /\ FailuresRetried /\ [Next]_vars => FailuresRetried'
<1> SUFFICES ASSUME TypeOK, TypeOK', FailuresRetried, [Next]_vars
             PROVE  FailuresRetried'
    OBVIOUS
<1> USE DEF FailuresRetried
<1>0. /\ state \in [Subjects -> Rows] /\ state' \in [Subjects -> Rows]
      /\ \A s \in Subjects : state[s].retry_count \in 0..MaxRetries
      /\ MaxRetries \in Nat /\ Null \notin Nat
    BY RetryAssumption DEF TypeOK, Rows, Null
<1>1. UNCHANGED state => FailuresRetried'
    OBVIOUS
<1>r. ASSUME NEW r \in Reconcilers, ReconcileStep(r)
      PROVE  FailuresRetried'
    <2>0. rec[r] \in RecStates /\ (rec[r].pc # "idle" => rec[r].subject \in Subjects)
        BY DEF TypeOK
    <2>1. CASE RecordSuccess(r)
        <3>1. rec[r].subject \in Subjects /\ \A s \in Subjects \ {rec[r].subject} : state'[s] = state[s]
            BY <1>0, <2>0, <2>1 DEF RecordSuccess, recordSuccess
        <3>2. /\ state'[rec[r].subject].last_error = FALSE
              /\ state'[rec[r].subject].retry_count = 0
            BY <1>0, <2>1, <3>1 DEF RecordSuccess, recordSuccess
        <3> QED
            BY <3>1, <3>2
    <2>2. CASE RecordFailure(r)
        <3> DEFINE s == rec[r].subject
        <3>1. s \in Subjects /\ \A x \in Subjects \ {s} : state'[x] = state[x]
            BY <1>0, <2>0, <2>2 DEF RecordFailure, recordFailure
        <3>2. rec[r].started + RetryDelay[rec[r].retries] \in Nat
            BY <2>0, RetryAssumption DEF RecStates
        <3>3. /\ state'[s].last_error = TRUE
              /\ state'[s].retry_count = state[s].retry_count + 1
              /\ state'[s].next_retry_at = rec[r].started + RetryDelay[rec[r].retries]
            <4> DEFINE row == state[s]
                       new == [row EXCEPT !.exists = TRUE, !.last_attempt_at = rec[r].started,
                                          !.last_error = TRUE, !.next_transition_at = rec[r].next,
                                          !.next_retry_at = rec[r].started
                                                            + RetryDelay[rec[r].retries],
                                          !.retry_count = @ + 1]
            <4>1. state' = [state EXCEPT ![s] = new]
                BY <2>2 DEF RecordFailure, recordFailure
            <4>2. row \in Rows
                BY <1>0, <3>1
            <4> HIDE DEF row
            <4>3. /\ new.last_error = TRUE /\ new.retry_count = row.retry_count + 1
                  /\ new.next_retry_at = rec[r].started + RetryDelay[rec[r].retries]
                BY <4>2 DEF Rows
            <4> HIDE DEF new
            <4>4. state'[s] = new
                BY <1>0, <3>1, <4>1
            <4> QED
                BY <4>3, <4>4 DEF row
        <3> HIDE DEF s
        <3>4. state'[s].retry_count > 0 /\ state'[s].next_retry_at # Null
            BY <1>0, <3>1, <3>2, <3>3
        <3> QED
            BY <3>1, <3>3, <3>4
    <2>3. CASE ~RecordSuccess(r) /\ ~RecordFailure(r)
        <3>1. UNCHANGED state
            BY <1>r, <2>3 DEF ReconcileStep, Begin, LockSubjectFails, LockSubject, GetState,
               GetStateFails, ListIntents, ListIntentsFails, Build, BuildFails, Add, Remove,
               WriteRefused, WriteAnswerLost, RecordSuccessFails, RecordFailureSkipped, Close,
               CrashReconciler
        <3> QED
            BY <1>1, <3>1
    <2> QED
        BY <2>1, <2>2, <2>3
<1>h. ASSUME NEW h \in Handlers, HandlerStep(h)
      PROVE  FailuresRetried'
    <2>1. CASE Commit(h)
        <3>1. hnd[h].at \in Nat
            BY DEF TypeOK, HndStates
        <3>2. ASSUME NEW s \in Subjects
              PROVE  /\ state'[s].last_error = state[s].last_error
                     /\ state'[s].retry_count = state[s].retry_count
                     /\ state'[s].next_retry_at = state[s].next_retry_at \/ state'[s].next_retry_at # Null
            <4>1. state'[s] = IF s \in hnd[h].affected
                              THEN [state[s] EXCEPT !.exists = TRUE, !.next_retry_at = hnd[h].at]
                              ELSE state[s]
                BY <2>1 DEF Commit, UpsertIntent
            <4>2. state[s] \in Rows /\ hnd[h].at # Null
                BY <1>0, <3>1 DEF Null
            <4>3. CASE s \in hnd[h].affected
                BY <4>1, <4>2, <4>3 DEF Rows
            <4>4. CASE s \notin hnd[h].affected
                BY <4>1, <4>4
            <4> QED
                BY <4>3, <4>4
        <3> QED
            BY <3>2
    <2>2. CASE ~Commit(h)
        <3>1. UNCHANGED state
            BY <1>h, <2>2 DEF HandlerStep, Receive, LockIdentity, LockAffected, Rollback
        <3> QED
            BY <1>1, <3>1
    <2> QED
        BY <2>1, <2>2
<1>t. CASE Tick
    BY <1>t DEF Tick
<1>u. CASE UNCHANGED vars
    BY <1>u DEF vars
<1> QED
    BY <1>r, <1>h, <1>t, <1>u DEF Next

(* A scrape at any moment counts every stored intent in the phase the      *)
(* planner puts it in, the subjects the loop would list as due, and as     *)
(* failed only subjects that will be tried again.                          *)
THEOREM GaugesAgreeWithTheLoop == Spec => []GaugesAgree
<1>1. Init => FailuresRetried
    BY DEF Init, StoreInit, ZeroState, FailuresRetried
<1>2. TypeOK /\ FailuresRetried => GaugesAgree
    <2> SUFFICES ASSUME TypeOK, FailuresRetried
                 PROVE  GaugesAgree
        OBVIOUS
    <2> DEFINE stored == { k \in Keys : intents[k] # NoIntent }
               uncancelled == { k \in stored : ~intents[k].cancelled }
               In(phase) == { k \in Keys : intents[k] # NoIntent /\ PhaseAt(intents[k], now) = phase }
    <2>1. ASSUME NEW k \in stored
          PROVE  /\ intents[k].starts_at \in Nat /\ intents[k].ends_at \in Nat
                 /\ intents[k].starts_at < intents[k].ends_at /\ intents[k].cancelled \in BOOLEAN
        BY AcceptedIsValid DEF TypeOK
    <2>2. now \in Nat
        BY DEF TypeOK
    <2>3. { k \in uncancelled : now < intents[k].starts_at } = In("pending")
        BY <2>1, <2>2 DEF PhaseAt
    <2>4. { k \in uncancelled : intents[k].starts_at <= now /\ now < intents[k].ends_at } = In("active")
        BY <2>1, <2>2 DEF PhaseAt
    <2>5. { k \in uncancelled : intents[k].ends_at <= now } = In("ended")
        BY <2>1, <2>2 DEF PhaseAt
    <2>6. stored \ uncancelled = In("cancelled")
        BY <2>1, <2>2 DEF PhaseAt
    <2>7. { s \in Subjects : state[s].last_error }
              = { s \in Subjects : state[s].retry_count > 0 /\ state[s].next_retry_at # Null }
        BY DEF FailuresRetried
    <2>8. { s \in Subjects : IntentsOf(s) # {} /\ ~state[s].exists }
          \cup { s \in Subjects : \/ Reached(state[s].next_transition_at, now)
                                  \/ Reached(state[s].next_retry_at, now) }
              = ListSubjectsDue(now)
        BY DEF ListSubjectsDue
    <2>9. CollectMetrics(now) =
              [pending |-> Cardinality(In("pending")), active |-> Cardinality(In("active")),
               ended |-> Cardinality(In("ended")), cancelled |-> Cardinality(In("cancelled")),
               failed |-> Cardinality({ s \in Subjects :
                              state[s].retry_count > 0 /\ state[s].next_retry_at # Null }),
               due |-> Cardinality(ListSubjectsDue(now))]
        BY <2>3, <2>4, <2>5, <2>6, <2>7, <2>8, Zenon DEF CollectMetrics
    <2> HIDE DEF In
    <2>10. \A phase \in {"pending", "active", "ended", "cancelled"} :
              CollectMetrics(now)[phase] = Cardinality(In(phase))
        BY <2>9
    <2> QED
        BY <2>9, <2>10 DEF GaugesAgree, In
<1> QED
    BY <1>1, <1>2, TypeCorrect, FailureStep, PTL DEF Spec

-----------------------------------------------------------------------------
(* Reconcile implements Promise: `due' is the set of the subjects whose   *)
(* rows bring reconciliation back to them.  The operators of both modules  *)
(* are the same.                                                           *)

(* The same rule selects a user. *)
LEMMA SameRule ==
    ASSUME NEW u
    PROVE  Abstract!RuleIndex(Cfg, u) = RuleIndex(Cfg, u)
BY Zenon DEF Abstract!RuleIndex, Abstract!Matches, Abstract!Min, RuleIndex, Matches, Min

(* A set of intents is in the same aggregate state. *)
LEMMA SameState ==
    ASSUME NEW I, NEW t
    PROVE  Abstract!AggregateState(I, t) = AggregateState(I, t)
BY Zenon DEF Abstract!AggregateState, Abstract!PhaseAt, AggregateState, PhaseAt

(* The same memberships are asserted. *)
LEMMA SameAssertions ==
    ASSUME NEW u, NEW I, NEW t
    PROVE  Abstract!Assertions(Cfg, u, I, t) = Assertions(Cfg, u, I, t)
<1> DEFINE rule == RuleIndex(Cfg, u)
           st == AggregateState(I, t)
<1>1. Abstract!Assertions(Cfg, u, I, t) =
        IF rule = 0 \/ st = "none" THEN [present |-> {}, absent |-> {}]
        ELSE [present |-> Abstract!Range(Cfg.rules[rule].states[st].present),
              absent |-> Abstract!Range(Cfg.rules[rule].states[st].absent)]
    BY SameRule, SameState DEF Abstract!Assertions
<1>2. \A f : Abstract!Range(f) = Range(f)
    BY DEF Abstract!Range, Range
<1> QED
    BY <1>1, <1>2 DEF Assertions

(* The directory resolves to the same user. *)
LEMMA SameUser ==
    ASSUME NEW s, NEW ids
    PROVE  Abstract!Resolve(Cfg, s, ids) = Resolve(Cfg, s, ids)
BY Zenon DEF Abstract!Resolve, Abstract!AliasesOf, Abstract!Range, Resolve, AliasesOf, Range

(* The promise asks for what the planner asks for. *)
LEMMA SameWanted ==
    ASSUME NEW s, NEW t
    PROVE  Abstract!WantedBy(s, t) = Wanted(s, t)
BY SameAssertions, SameUser DEF Abstract!WantedBy, Wanted, User, IntentsOf

(* To conform is to satisfy the current plan, before and after a step. *)
LEMMA SameConforms ==
    ASSUME NEW s
    PROVE  /\ Abstract!Conforms(s) <=> Satisfies(User(s), Wanted(s, now))
           /\ Abstract!Conforms(s)' <=> Satisfies(User(s), Wanted(s, now))'
BY SameWanted, SameAssertions, SameUser
   DEF Abstract!Conforms, Abstract!Satisfies, Abstract!WantedBy, Satisfies, User, Wanted, IntentsOf

-----------------------------------------------------------------------------
(* Subjects with marks *)

(* Attempts begin after the first instant, so that the promise may ask at  *)
(* which instant a membership was wanted.                                  *)
InstantsBegun ==
    /\ now # 0
    /\ \A r \in Reconcilers : rec[r].pc \in AtWork => rec[r].started # 0

(* One step of the system keeps attempts after the first instant. *)
LEMMA InstantsStep == TypeOK /\ InstantsBegun /\ [Next]_vars => InstantsBegun'
<1> SUFFICES ASSUME TypeOK, InstantsBegun, [Next]_vars
             PROVE  InstantsBegun'
    OBVIOUS
<1> USE DEF InstantsBegun
<1>0. rec \in [Reconcilers -> RecStates] /\ now \in Nat
    BY DEF TypeOK
<1>r. ASSUME NEW r \in Reconcilers, ReconcileStep(r)
      PROVE  InstantsBegun'
    <2>1. CASE Outer(r)
        BY <2>1, OuterStep
    <2>2. CASE GetState(r)
        <3>1. /\ rec'[r].started = now /\ now' = now
              /\ \A q \in Reconcilers \ {r} : rec'[q] = rec[q]
            BY <1>0, <2>2 DEF GetState, RecStates
        <3> QED
            BY <3>1
    <2>3. CASE Middle(r)
        BY <2>3, MiddleStep
    <2>4. CASE RecordSuccess(r) \/ RecordFailure(r)
        <3>1. /\ rec'[r].pc = "closing" /\ now' = now
              /\ \A q \in Reconcilers \ {r} : rec'[q] = rec[q]
            BY <1>0, <2>4 DEF RecordSuccess, RecordFailure, GoTo, RecStates
        <3> QED
            BY <3>1 DEF AtWork
    <2> QED
        BY <1>r, <2>1, <2>2, <2>3, <2>4 DEF ReconcileStep, Outer, Middle
<1>h. ASSUME NEW h \in Handlers, HandlerStep(h)
      PROVE  InstantsBegun'
    <2>1. UNCHANGED <<now, rec>>
        BY <1>h DEF HandlerStep, Receive, LockIdentity, LockAffected, Commit, Rollback
    <2> QED
        BY <2>1
<1>t. CASE Tick
    BY <1>0, <1>t DEF Tick
<1>u. CASE UNCHANGED vars
    BY <1>u DEF vars
<1> QED
    BY <1>r, <1>h, <1>t, <1>u DEF Next

(* It holds in every behaviour. *)
LEMMA InstantsHold == Spec => []InstantsBegun
<1>1. Init => InstantsBegun
    BY DEF Init, InstantsBegun, IdleRec, AtWork
<1> QED
    BY <1>1, TypeCorrect, InstantsStep, PTL DEF Spec

(* Rows, intents and the clock decide who is due. *)
LEMMA DueDependsOn ==
    ASSUME UNCHANGED <<intents, state, now>>
    PROVE  UNCHANGED Due
BY DEF Due, ListSubjectsDue, IntentsOf

(* An attempt that still has something to write works on a due subject. *)
LEMMA WorkIsDue ==
    ASSUME TypeOK, WorkInv, MemberInv, NEW r \in Reconcilers, rec[r].pc = "applying",
           rec[r].adds # {} \/ rec[r].removes # {}
    PROVE  rec[r].subject \in Due
<1> DEFINE s == rec[r].subject
<1>0. s \in Subjects /\ state[s] \in Rows /\ now \in Nat
    BY DEF TypeOK
<1>1. ~Clean(s)
    <2>1. Timely(r)
        BY DEF WorkInv, InstantsOrdered, AtWork, Timely
    <2>2. PlanCurrent(r) /\ CleanRight(s)
        BY <1>0 DEF MemberInv, RemainingWorkIsThePlan, PlanCurrent, CleanSinceSuccess, CleanRight
    <2> QED
        BY <2>1, <2>2, CleanMeansNoWork
<1>2. CASE state[s].exists
    BY <1>0, <1>1, <1>2 DEF Due, ListSubjectsDue, Reached, Clean, Rows, Null
<1>3. CASE ~state[s].exists
    <2>1. IntentsOf(s) # {}
        <3>1. SUFFICES ASSUME IntentsOf(s) = {} PROVE FALSE
            OBVIOUS
        <3>2. Wanted(s, rec[r].started) = [present |-> {}, absent |-> {}]
            BY <3>1 DEF Wanted, Assertions, AggregateState
        <3> QED
            BY <3>2 DEF MemberInv, RemainingWorkIsThePlan, AddGroups, RemoveGroups
    <2> QED
        BY <1>0, <1>3, <2>1 DEF Due, ListSubjectsDue
<1> QED
    BY <1>2, <1>3

-----------------------------------------------------------------------------
(* Steps *)

(* The outcome of a write that Graph carries out, with its answer or not,  *)
(* is the promise's write for the instant of the attempt.                  *)
LEMMA WritesAreWrites ==
    ASSUME TypeOK, WorkInv, MemberInv, InstantsBegun, NEW r \in Reconcilers,
           Add(r) \/ Remove(r) \/ WriteAnswerLost(r)
    PROVE  rec[r].subject \in Subjects /\ Abstract!Write(rec[r].subject)
<1> DEFINE s == rec[r].subject
           t == rec[r].started
           a == Wanted(s, t)
<1>0. /\ rec[r] \in RecStates /\ rec[r].pc = "applying" /\ s \in Subjects
      /\ rec[r].adds # {} \/ rec[r].removes # {}
      /\ UNCHANGED <<intents, state, now>>
    BY DEF TypeOK, Add, Remove, WriteAnswerLost
<1>1. s \in Due /\ UNCHANGED Due
    BY <1>0, WorkIsDue, DueDependsOn
<1>2. t \in 1..now
    BY <1>0 DEF TypeOK, RecStates, WorkInv, InstantsOrdered, InstantsBegun, AtWork
<1>3. /\ rec[r].adds \subseteq a.present /\ rec[r].removes \subseteq a.absent
      /\ rec[r].adds \subseteq Aliases /\ rec[r].removes \subseteq Aliases
    BY <1>0 DEF RecStates, MemberInv, RemainingWorkIsThePlan, AddGroups, RemoveGroups
<1>4. \A x \in a.absent : x \notin a.present
    BY AssertionsAreValidated DEF Wanted
<1>5. \E x \in a.present \cup a.absent :
        member' = [member EXCEPT ![s] = IF x \in a.present THEN @ \cup {Target(x)} ELSE @ \ {Target(x)}]
    <2>1. CASE rec[r].adds # {} /\ AddGroupMember(s, Target(Min(rec[r].adds)))
        <3>1. Min(rec[r].adds) \in a.present
            BY <1>3, <2>1, NextAliasTyped
        <3> QED
            BY <2>1, <3>1 DEF AddGroupMember
    <2>2. CASE rec[r].removes # {} /\ RemoveGroupMember(s, Target(Min(rec[r].removes)))
        <3>1. Min(rec[r].removes) \in a.absent
            BY <1>3, <2>2, NextAliasTyped
        <3> QED
            BY <1>4, <2>2, <3>1 DEF RemoveGroupMember
    <2> QED
        BY <2>1, <2>2 DEF Add, Remove, WriteAnswerLost
<1>6. Abstract!WantedBy(s, t) = a
    BY SameWanted
<1> HIDE DEF s, t, a
<1> QED
    BY <1>0, <1>1, <1>2, <1>5, <1>6 DEF Abstract!Write, Target, s

(* A recorded success lets go of its subject when that conforms, and marks *)
(* it when a boundary has passed since the attempt began.                  *)
LEMMA SuccessSettles ==
    ASSUME TypeOK, TypeOK', UpToDateConforms', NEW r \in Reconcilers, RecordSuccess(r)
    PROVE  /\ rec[r].subject \in Subjects
           /\ Abstract!Suspect(rec[r].subject) \/ Abstract!Settle(rec[r].subject)
<1> DEFINE s == rec[r].subject
<1>1. /\ s \in Subjects /\ \A x \in Subjects \ {s} : state'[x] = state[x]
      /\ state'[s].next_retry_at = Null
      /\ UNCHANGED <<intents, member, now>>
    BY DEF TypeOK, RecordSuccess, recordSuccess
<1>2. \A x : IntentsOf(x)' = IntentsOf(x)
    BY <1>1 DEF IntentsOf
<1>3. Due' \ {s} = Due \ {s} /\ Due \subseteq Subjects /\ Due' \subseteq Subjects
    BY <1>1, <1>2 DEF Due, ListSubjectsDue
<1>4. CASE s \in Due'
    <2>1. Due' = Due \cup {s}
        BY <1>3, <1>4
    <2> QED
        BY <1>1, <2>1 DEF Abstract!Suspect
<1>5. CASE s \notin Due'
    <2>1. Due' = Due \ {s}
        BY <1>3, <1>5
    <2>2. \A x \in Subjects \ Due' : Satisfies(User(x), Wanted(x, now))'
        BY DEF UpToDateConforms, Due
    <2>3. \A x \in Subjects \ Due' : Satisfies(User(x), Wanted(x, now))
        BY <1>1, <1>2, <2>2 DEF User, Wanted
    <2> QED
        BY <1>1, <1>5, <2>1, <2>3, SameConforms DEF Abstract!Settle
<1> QED
    BY <1>4, <1>5

(* A recorded failure marks its subject. *)
LEMMA FailureSuspects ==
    ASSUME TypeOK, NEW r \in Reconcilers, RecordFailure(r)
    PROVE  rec[r].subject \in Subjects /\ Abstract!Suspect(rec[r].subject)
<1> DEFINE s == rec[r].subject
<1>0. /\ s \in Subjects /\ rec[r].started \in Nat /\ rec[r].retries \in 0..MaxRetries
      /\ state \in [Subjects -> Rows]
    BY DEF TypeOK, RecStates, RecordFailure
<1>1. /\ \A x \in Subjects \ {s} : state'[x] = state[x]
      /\ state'[s].next_retry_at = rec[r].started + RetryDelay[rec[r].retries]
      /\ UNCHANGED <<intents, member, now>>
    BY <1>0 DEF RecordFailure, recordFailure, Rows
<1>2. state'[s].next_retry_at # Null
    <2>1. RetryDelay[rec[r].retries] \in Nat
        BY <1>0, RetryAssumption
    <2> QED
        BY <1>0, <1>1, <2>1 DEF Null
<1>3. \A x : IntentsOf(x)' = IntentsOf(x)
    BY <1>1 DEF IntentsOf
<1>4. Due' = Due \cup {s}
    BY <1>0, <1>1, <1>2, <1>3 DEF Due, ListSubjectsDue
<1> QED
    BY <1>0, <1>1, <1>4 DEF Abstract!Suspect

(* A commit marks the subjects its delivery affects, and no other. *)
LEMMA CommitDelivers ==
    ASSUME TypeOK, LockInv, NEW h \in Handlers, Commit(h)
    PROVE  hnd[h].intent \in Accepted /\ Abstract!Deliver(hnd[h].intent)
<1> DEFINE i == hnd[h].intent
           A == hnd[h].affected
<1>0. /\ i \in Accepted /\ Key(i) \in Keys /\ hnd[h].at \in Nat /\ A \subseteq Subjects
      /\ state \in [Subjects -> Rows]
    BY AcceptedIsValid DEF TypeOK, HndStates, Commit
<1>1. /\ A = {intents[Key(i)].subject, i.subject} \ {Blank}
      /\ \A s \in Subjects \ A : subjectLock[s] # h
    BY DEF Commit, LockInv, LocksKept, HandlersHold, NoLeakedLock, uniqueSubjects
<1>2. /\ intents' = [intents EXCEPT ![Key(i)] = i]
      /\ \A s \in A : state'[s] = [state[s] EXCEPT !.exists = TRUE, !.next_retry_at = hnd[h].at]
      /\ UNCHANGED <<member, now>>
    BY <1>0 DEF Commit, UpsertIntent
<1>3. \A s \in A : s \in Due'
    <2>1. ASSUME NEW s \in A PROVE state'[s].next_retry_at # Null
        <3>1. state[s] \in Rows
            BY <1>0
        <3>2. state'[s].next_retry_at = hnd[h].at
            BY <1>2, <3>1 DEF Rows
        <3> QED
            BY <1>0, <3>2 DEF Null
    <2> QED
        BY <1>0, <2>1 DEF Due
<1>4. \A s \in Subjects \ A : s \in Due' <=> s \in Due
    <2>1. \A s \in Subjects \ A : IntentsOf(s)' = IntentsOf(s) /\ state'[s] = state[s]
        BY <1>1, CommitFrame DEF LockInv
    <2>2. now' = now
        BY <1>2
    <2> QED
        BY <2>1, <2>2 DEF Due, ListSubjectsDue
<1>5. Due' = Due \cup A
    <2>1. Due' \subseteq Subjects /\ Due \subseteq Subjects
        BY DEF Due, ListSubjectsDue
    <2> HIDE DEF A
    <2> QED
        BY <1>0, <1>3, <1>4, <2>1
<1>6. Abstract!Key(i) = Key(i)
    BY DEF Abstract!Key, Key
<1> QED
    BY <1>0, <1>1, <1>2, <1>5, <1>6 DEF Abstract!Deliver, Abstract!Blank, Blank

(* When time passes, the subjects that are left without a mark conform. *)
LEMMA TickPasses ==
    ASSUME TypeOK, UpToDateConforms', Tick
    PROVE  Abstract!Pass
<1>1. now \in Nat /\ now' = now + 1 /\ UNCHANGED <<intents, state, member>>
    BY DEF TypeOK, Tick
<1>2. \A x : IntentsOf(x)' = IntentsOf(x)
    BY <1>1 DEF IntentsOf
<1>3. Due \subseteq Due'
    <2>1. \A s \in Subjects : state[s].next_transition_at \in Nat \cup {Null}
        BY DEF TypeOK, Rows
    <2>2. \A s \in Subjects : state[s].next_retry_at \in Nat \cup {Null}
        BY DEF TypeOK, Rows
    <2> QED
        BY <1>1, <1>2, <2>1, <2>2 DEF Due, ListSubjectsDue, Reached, Null
<1>4. Due' \subseteq Subjects
    BY DEF Due, ListSubjectsDue
<1>5. \A s \in Subjects \ Due' : Satisfies(User(s), Wanted(s, now))'
    BY DEF UpToDateConforms, Due
<1> QED
    BY <1>1, <1>3, <1>4, <1>5, SameConforms DEF Abstract!Pass

(* A step that leaves the rows, the intents, the memberships and the clock *)
(* alone is none of the promise's.                                         *)
LEMMA QuietIsStutter ==
    ASSUME UNCHANGED <<intents, state, member, now>>
    PROVE  UNCHANGED Abstract!vars
BY DueDependsOn DEF Abstract!vars

(* Every step of the system is a step of the promise, or none. *)
LEMMA PromiseStep ==
    /\ TypeOK /\ LockInv /\ WorkInv /\ MemberInv /\ InstantsBegun
    /\ TypeOK' /\ UpToDateConforms' /\ [Next]_vars
    => [Abstract!Next]_Abstract!vars
<1> SUFFICES ASSUME TypeOK, LockInv, WorkInv, MemberInv, InstantsBegun,
                    TypeOK', UpToDateConforms', [Next]_vars
             PROVE  Abstract!Next \/ UNCHANGED Abstract!vars
    OBVIOUS
<1>r. ASSUME NEW r \in Reconcilers, ReconcileStep(r)
      PROVE  Abstract!Next \/ UNCHANGED Abstract!vars
    <2>1. CASE Outer(r)
        BY <2>1, OuterStep, QuietIsStutter
    <2>2. CASE GetState(r) \/ ListIntents(r) \/ ListIntentsFails(r) \/ Build(r) \/ BuildFails(r)
               \/ WriteRefused(r)
        <3>1. UNCHANGED <<intents, state, member, now>>
            BY <2>2 DEF GetState, ListIntents, ListIntentsFails, Build, BuildFails, WriteRefused
        <3> QED
            BY <3>1, QuietIsStutter
    <2>3. CASE Add(r) \/ Remove(r) \/ WriteAnswerLost(r)
        BY <2>3, WritesAreWrites DEF Abstract!Next
    <2>4. CASE RecordSuccess(r)
        BY <2>4, SuccessSettles DEF Abstract!Next
    <2>5. CASE RecordFailure(r)
        BY <2>5, FailureSuspects DEF Abstract!Next
    <2> QED
        BY <1>r, <2>1, <2>2, <2>3, <2>4, <2>5 DEF ReconcileStep, Outer
<1>h. ASSUME NEW h \in Handlers, HandlerStep(h)
      PROVE  Abstract!Next \/ UNCHANGED Abstract!vars
    <2>1. CASE (\E i \in Accepted : Receive(h, i)) \/ LockIdentity(h) \/ LockAffected(h) \/ Rollback(h)
        <3>1. UNCHANGED <<intents, state, member, now>>
            BY <2>1 DEF Receive, LockIdentity, LockAffected, Rollback
        <3> QED
            BY <3>1, QuietIsStutter
    <2>2. CASE Commit(h)
        BY <2>2, CommitDelivers DEF Abstract!Next
    <2> QED
        BY <1>h, <2>1, <2>2 DEF HandlerStep
<1>t. CASE Tick
    BY <1>t, TickPasses DEF Abstract!Next
<1>u. CASE UNCHANGED vars
    BY <1>u, QuietIsStutter DEF vars
<1> QED
    BY <1>r, <1>h, <1>t, <1>u DEF Next

(* The database, the locks, the attempts, their failures and crashes       *)
(* implement the promise for any configuration, any deliveries and any     *)
(* number of actors: memberships change one at a time, only for marked     *)
(* subjects and only towards what was asked for, and the last mark of a    *)
(* subject goes only when its memberships are right at that moment.        *)
THEOREM ReconcileKeepsPromise == Spec => KeepsPromise
<1>1. Init => Abstract!Init
    <2> SUFFICES ASSUME Init
                 PROVE  Abstract!Init
        OBVIOUS
    <2>1. /\ intents = [k \in Keys |-> NoIntent] /\ now = 1
          /\ \A s \in Subjects : state[s] = ZeroState
          /\ member \in [Subjects -> SUBSET GroupIDs]
        BY DEF Init, StoreInit
    <2>2. \A s \in Subjects : IntentsOf(s) = {}
        BY <2>1, SubjectsAssumption DEF IntentsOf, NoIntent
    <2>3. Due = {}
        BY <2>1, <2>2 DEF Due, ListSubjectsDue, Reached, ZeroState
    <2>4. \A f : Abstract!Range(f) = Range(f)
        BY DEF Abstract!Range, Range
    <2> QED
        BY <2>1, <2>3, <2>4 DEF Abstract!Init, GroupIDs
<1> QED
    BY <1>1, TypeCorrect, LocksAreOwned, WorkHolds, MembershipHolds, InstantsHold,
       UpToDateSubjectsConform, PromiseStep, PTL DEF Spec, KeepsPromise, Abstract!Spec
-----------------------------------------------------------------------------
(* Late writes (ReconcileLate): sessions may be lost here, so the proof    *)
(* uses of the invariants above those that speak of held sessions only.    *)

LTypeOK ==
    /\ flight \in SUBSET (Subjects \X {"add", "remove"} \X GroupIDs)
    /\ late \in [Subjects -> BOOLEAN]
    /\ seen \in [Reconcilers -> BOOLEAN]

(* What late writes do not disturb. *)
BaseInv == TypeOK /\ LTypeOK /\ LocksKept /\ HeldWork

(* An attempt that still has its session and may succeed either has seen   *)
(* everything its subject's groups went through, and then its plan is      *)
(* current, or its subject has a late write that nobody has repaired.      *)
PlansSeen ==
    \A r \in Reconcilers : rec[r].pc = "applying" /\ HasSession(r) =>
        /\ seen[r] \/ late[rec[r].subject]
        /\ seen[r] => PlanCurrent(r)

(* A subject without such a write is as its last success left it. *)
RightUnlessLate == \A s \in Subjects : ~late[s] => CleanRight(s)

LateInv == BaseInv /\ PlansSeen /\ RightUnlessLate

-----------------------------------------------------------------------------
(* Steps *)

(* Every step is one of Reconcile, or loses a session, or lands a write. *)
LEMMA StepKinds ==
    ASSUME [LNext]_lvars
    PROVE  \/ [Next]_vars
           \/ \E r \in Reconcilers : LoseSession(r)
           \/ \E w \in flight : Land(w)
<1>1. ASSUME NEW r \in Reconcilers, GiveUp(r)
      PROVE  WriteRefused(r) \/ CrashReconciler(r)
    BY <1>1 DEF GiveUp, WriteRefused, CrashReconciler
<1>2. ASSUME NEW r \in Reconcilers, Writes(r) \/ Sees(r) \/ Repairs(r)
      PROVE  ReconcileStep(r)
    BY <1>2 DEF Writes, Sees, Repairs, ReconcileStep
<1>3. ASSUME NEW r \in Reconcilers, Proceeds(r)
      PROVE  ReconcileStep(r) \/ LoseSession(r)
    BY <1>3 DEF Proceeds, ReconcileStep
<1>4. ASSUME NEW w \in flight, Vanish(w)
      PROVE  UNCHANGED vars
    BY <1>4 DEF Vanish
<1>5. UNCHANGED lvars => UNCHANGED vars
    BY DEF lvars
<1>6. ASSUME NEW r \in Reconcilers, WriteRefused(r) \/ CrashReconciler(r)
      PROVE  ReconcileStep(r)
    BY <1>6 DEF ReconcileStep
<1> QED
    BY <1>1, <1>2, <1>3, <1>4, <1>5, <1>6 DEF LNext, Next

(* Losing a session frees locks, and does nothing else. *)
LEMMA LossFrees ==
    ASSUME TypeOK, NEW r \in Reconcilers, LoseSession(r)
    PROVE  /\ UNCHANGED <<intents, state, identityLock, member, now, rec, hnd>>
           /\ subjectLock' \in [Subjects -> Reconcilers \cup Handlers \cup {Nobody}]
           /\ \A s \in Subjects : subjectLock'[s] = IF subjectLock[s] = r THEN Nobody ELSE subjectLock[s]
           /\ rec[r].subject \in Subjects
           /\ \A q \in Reconcilers : rec[q].pc # "idle" /\ HasSession(q)' => q # r /\ HasSession(q)
<1>1. /\ UNCHANGED <<intents, state, identityLock, member, now, rec, hnd>>
      /\ subjectLock' = Released(subjectLock, r)
      /\ rec[r].pc \in Holding
    BY DEF LoseSession
<1>2. /\ subjectLock \in [Subjects -> Reconcilers \cup Handlers \cup {Nobody}]
      /\ \A q \in Reconcilers : rec[q].pc # "idle" => rec[q].subject \in Subjects
    BY DEF TypeOK
<1>3. /\ subjectLock' \in [Subjects -> Reconcilers \cup Handlers \cup {Nobody}]
      /\ \A s \in Subjects : subjectLock'[s] = IF subjectLock[s] = r THEN Nobody ELSE subjectLock[s]
    BY <1>1, <1>2 DEF Released
<1>4. rec[r].subject \in Subjects
    BY <1>1, <1>2 DEF Holding
<1>5. \A q \in Reconcilers : rec[q].pc # "idle" /\ HasSession(q)' => q # r /\ HasSession(q)
    BY <1>1, <1>2, <1>3, ActorsAssumption DEF HasSession
<1> QED
    BY <1>1, <1>3, <1>4, <1>5

(* A late write changes one subject's groups, and marks the subject. *)
LEMMA LandWrites ==
    ASSUME TypeOK, LTypeOK, NEW w \in flight, Land(w)
    PROVE  /\ w[1] \in Subjects
           /\ member' \in [Subjects -> SUBSET GroupIDs]
           /\ \A s \in Subjects \ {w[1]} : member'[s] = member[s]
           /\ UNCHANGED <<intents, state, subjectLock, identityLock, now, rec, hnd>>
<1>1. w \in Subjects \X {"add", "remove"} \X GroupIDs /\ w[1] \in Subjects /\ w[3] \in GroupIDs
    BY DEF LTypeOK
<1>2. member \in [Subjects -> SUBSET GroupIDs]
    BY DEF TypeOK
<1>3. \/ member' = [member EXCEPT ![w[1]] = @ \cup {w[3]}]
      \/ member' = [member EXCEPT ![w[1]] = @ \ {w[3]}]
    BY DEF Land, AddGroupMember, RemoveGroupMember
<1>4. UNCHANGED <<intents, state, subjectLock, identityLock, now, rec, hnd>>
    BY DEF Land
<1>5. member' \in [Subjects -> SUBSET GroupIDs]
    BY <1>1, <1>2, <1>3
<1>6. \A s \in Subjects \ {w[1]} : member'[s] = member[s]
    BY <1>2, <1>3
<1> QED
    BY <1>1, <1>4, <1>5, <1>6

(* A write that is given up is one of its plan's. *)
LEMMA CurrentTyped ==
    ASSUME TypeOK, NEW r \in Reconcilers, rec[r].pc = "applying",
           rec[r].adds \cup rec[r].removes # {}
    PROVE  Current(r) \in Subjects \X {"add", "remove"} \X GroupIDs
<1>1. rec[r].subject \in Subjects /\ rec[r].adds \subseteq Aliases /\ rec[r].removes \subseteq Aliases
    BY DEF TypeOK, RecStates
<1> QED
    BY <1>1, NextAliasTyped, TargetTyped DEF Current

(* One step keeps the types of what this module adds. *)
LEMMA LateTyped == TypeOK /\ LTypeOK /\ [LNext]_lvars => LTypeOK'
<1> SUFFICES ASSUME TypeOK, LTypeOK, [LNext]_lvars
             PROVE  LTypeOK'
    OBVIOUS
<1> DEFINE Pending == Subjects \X {"add", "remove"} \X GroupIDs
<1>0. /\ flight \in SUBSET Pending
      /\ late \in [Subjects -> BOOLEAN] /\ seen \in [Reconcilers -> BOOLEAN]
    BY DEF LTypeOK
<1>1. ASSUME NEW s, LandsLate(s)
      PROVE  late' \in [Subjects -> BOOLEAN] /\ seen' \in [Reconcilers -> BOOLEAN]
    BY <1>0, <1>1 DEF LandsLate
<1>2. ASSUME NEW r \in Reconcilers, GiveUp(r)
      PROVE  LTypeOK'
    <2>1. Current(r) \in Pending
        BY <1>2, CurrentTyped DEF GiveUp
    <2>2. flight' = flight \cup {Current(r)} /\ seen' = [seen EXCEPT ![r] = FALSE] /\ late' = late
        BY <1>2 DEF GiveUp
    <2> HIDE DEF Pending
    <2>3. flight' \in SUBSET Pending
        BY <1>0, <2>1, <2>2
    <2>4. seen' \in [Reconcilers -> BOOLEAN]
        BY <1>0, <2>2
    <2> QED
        BY <1>0, <2>2, <2>3, <2>4 DEF LTypeOK, Pending
<1>3. ASSUME NEW r \in Reconcilers, Writes(r)
      PROVE  LTypeOK'
    BY <1>0, <1>1, <1>3 DEF Writes, LTypeOK
<1>4. ASSUME NEW r \in Reconcilers, Sees(r)
      PROVE  LTypeOK'
    BY <1>0, <1>4 DEF Sees, LTypeOK
<1>5. ASSUME NEW r \in Reconcilers, Repairs(r)
      PROVE  LTypeOK'
    BY <1>0, <1>5 DEF Repairs, LTypeOK
<1>6. ASSUME NEW r \in Reconcilers, Proceeds(r)
      PROVE  LTypeOK'
    BY <1>0, <1>6 DEF Proceeds, LTypeOK
<1>7. ASSUME NEW w \in flight, Land(w) \/ Vanish(w)
      PROVE  LTypeOK'
    BY <1>0, <1>1, <1>7 DEF Land, Vanish, LTypeOK
<1>8. CASE UNCHANGED <<flight, late, seen>>
    BY <1>0, <1>8 DEF LTypeOK
<1> QED
    BY <1>2, <1>3, <1>4, <1>5, <1>6, <1>7, <1>8 DEF LNext, lvars

(* One step keeps what late writes and lost sessions do not disturb. *)
LEMMA BaseStep == BaseInv /\ [LNext]_lvars => BaseInv'
<1> SUFFICES ASSUME BaseInv, [LNext]_lvars
             PROVE  BaseInv'
    OBVIOUS
<1>0. TypeOK /\ LTypeOK /\ LocksKept /\ HeldWork /\ LTypeOK'
    BY LateTyped DEF BaseInv
<1>1. CASE [Next]_vars
    BY <1>0, <1>1, TypeStep, LockStep, WorkStep DEF BaseInv
<1>2. ASSUME NEW r \in Reconcilers, LoseSession(r)
      PROVE  BaseInv'
    <2>1. TypeOK'
        BY <1>0, <1>2, LossFrees DEF TypeOK
    <2>2. LocksKept'
        <3>1. HandlersHold'
            BY <1>0, <1>2, LossFrees, ActorsAssumption DEF LocksKept, HandlersHold, TypeOK, HndStates
        <3>2. NoLeakedLock'
            BY <1>0, <1>2, LossFrees, ActorsAssumption DEF LocksKept, NoLeakedLock
        <3> QED
            BY <3>1, <3>2 DEF LocksKept
    <2>3. HeldWork'
        <3>1. /\ UNCHANGED <<intents, state, now, rec, hnd>>
              /\ \A q \in Reconcilers : rec[q].pc \in AtWork /\ HasSession(q)' => HasSession(q)
            BY <1>0, <1>2, LossFrees DEF AtWork
        <3>2. \A s : IntentsOf(s)' = IntentsOf(s)
            BY <3>1 DEF IntentsOf
        <3> QED
            BY <1>0, <3>1, <3>2
            DEF HeldWork, HeldInstants, HeldBoundary, Timely, RetryFollowsBackoff, AtWork
    <2> QED
        BY <1>0, <2>1, <2>2, <2>3 DEF BaseInv
<1>3. ASSUME NEW w \in flight, Land(w)
      PROVE  BaseInv'
    <2>1. TypeOK'
        BY <1>0, <1>3, LandWrites DEF TypeOK
    <2>2. UNCHANGED <<intents, state, subjectLock, identityLock, now, rec, hnd>>
        BY <1>3 DEF Land
    <2>3. LocksKept'
        BY <1>0, <2>2 DEF LocksKept, HandlersHold, NoLeakedLock
    <2>4. HeldWork'
        <3>1. \A s : IntentsOf(s)' = IntentsOf(s)
            BY <2>2 DEF IntentsOf
        <3> QED
            BY <1>0, <2>2, <3>1
            DEF HeldWork, HeldInstants, HeldBoundary, HasSession, Timely, RetryFollowsBackoff
    <2> QED
        BY <1>0, <2>1, <2>3, <2>4 DEF BaseInv
<1> QED
    BY <1>1, <1>2, <1>3, StepKinds

-----------------------------------------------------------------------------
(* Memberships *)

(* A step of Reconcile keeps a plan that has seen everything, and a        *)
(* subject that no late write has reached.                                 *)
LEMMA SystemStep ==
    ASSUME LateInv, [Next]_vars
    PROVE  /\ \A q \in Reconcilers :
                 /\ rec'[q].pc = "applying" /\ HasSession(q)'
                 /\ rec[q].pc = "applying" => seen[q]
                 /\ OwnWrites(rec[q].subject)
                 => PlanCurrent(q)'
           /\ \A s \in Subjects : ~late[s] /\ OwnWrites(s) => CleanRight(s)'
<1>0. TypeOK /\ LocksKept /\ HeldWork
    BY DEF LateInv, BaseInv
<1>1. ASSUME NEW q \in Reconcilers, rec'[q].pc = "applying", HasSession(q)',
             rec[q].pc = "applying" => seen[q], OwnWrites(rec[q].subject)
      PROVE  PlanCurrent(q)'
    <2>1. HasSession(q)
        BY <1>0, <1>1, SessionsStay DEF AtWork
    <2>2. rec[q].pc = "applying" => PlanCurrent(q)
        BY <1>1, <2>1 DEF LateInv, PlansSeen
    <2> QED
        BY <1>0, <1>1, <2>2, PlanStep
<1>2. ASSUME NEW s \in Subjects, ~late[s], OwnWrites(s)
      PROVE  CleanRight(s)'
    <2>1. CleanRight(s)
        BY <1>2 DEF LateInv, RightUnlessLate
    <2>2. \A r \in Reconcilers :
             rec[r].pc = "applying" /\ rec[r].subject = s /\ HasSession(r) => PlanCurrent(r)
        BY <1>2 DEF LateInv, PlansSeen
    <2> QED
        BY <1>0, <1>2, <2>1, <2>2, CleanStep
<1> QED
    BY <1>1, <1>2

(* The same for the histories, when no write lands late. *)
LEMMA OrderedStep ==
    ASSUME LateInv, [Next]_vars, late' = late, \A s \in Subjects : OwnWrites(s),
           \A q \in Reconcilers : rec'[q].pc = "applying" /\ HasSession(q)' =>
              IF rec[q].pc = "applying" THEN seen'[q] = seen[q] ELSE seen'[q]
    PROVE  PlansSeen' /\ RightUnlessLate'
<1>0. TypeOK /\ LocksKept
    BY DEF LateInv, BaseInv
<1>1. ASSUME NEW q \in Reconcilers, rec'[q].pc = "applying", HasSession(q)'
      PROVE  /\ seen'[q] \/ late'[rec'[q].subject]
             /\ seen'[q] => PlanCurrent(q)'
    <2>1. /\ HasSession(q) /\ rec'[q].subject = rec[q].subject
          /\ rec[q].subject \in Subjects
        BY <1>0, <1>1, SessionsStay DEF AtWork, Holding, TypeOK
    <2>2. seen'[q] \/ late'[rec'[q].subject]
        BY <1>1, <2>1 DEF LateInv, PlansSeen
    <2>3. ASSUME seen'[q]
          PROVE  PlanCurrent(q)'
        BY <1>1, <2>1, <2>3, SystemStep
    <2> QED
        BY <2>2, <2>3
<1>2. PlansSeen'
    BY <1>1 DEF PlansSeen
<1>3. RightUnlessLate'
    BY SystemStep DEF RightUnlessLate
<1> QED
    BY <1>2, <1>3

(* Attempts that proceed, end or begin leave no plan and write nothing. *)
LEMMA ProceedsStep ==
    ASSUME TypeOK, NEW r \in Reconcilers, Proceeds(r), ~LoseSession(r)
    PROVE  /\ ReconcileStep(r) /\ member' = member /\ late' = late
           /\ rec'[r].pc # "applying" /\ seen' = [seen EXCEPT ![r] = FALSE]
           /\ \A q \in Reconcilers \ {r} : rec'[q] = rec[q]
<1>0. rec \in [Reconcilers -> RecStates] /\ rec[r] \in RecStates
    BY DEF TypeOK
<1>1. ReconcileStep(r) /\ late' = late /\ seen' = [seen EXCEPT ![r] = FALSE]
    BY DEF Proceeds, ReconcileStep
<1>2. CASE Outer(r)
    BY <1>1, <1>2, OuterStep DEF AtWork
<1>3. CASE GetState(r)
    BY <1>0, <1>1, <1>3 DEF GetState, RecStates
<1>4. CASE ListIntents(r)
    BY <1>0, <1>1, <1>4 DEF ListIntents, RecStates
<1>5. CASE ListIntentsFails(r)
    BY <1>0, <1>1, <1>5 DEF ListIntentsFails, GoTo, RecStates
<1>6. CASE BuildFails(r)
    BY <1>0, <1>1, <1>6 DEF BuildFails, GoTo, RecStates
<1>7. CASE WriteRefused(r)
    BY <1>0, <1>1, <1>7 DEF WriteRefused, GoTo, RecStates
<1>8. CASE RecordFailure(r)
    BY <1>0, <1>1, <1>8, FailureRetries
<1> QED
    BY <1>2, <1>3, <1>4, <1>5, <1>6, <1>7, <1>8 DEF Proceeds, Outer

(* A success of an attempt that has seen everything leaves its subject     *)
(* right; one that has not leaves it marked.                               *)
LEMMA RepairsStep ==
    ASSUME LateInv, NEW r \in Reconcilers, Repairs(r)
    PROVE  PlansSeen' /\ RightUnlessLate'
<1>0. PICK s \in Subjects : s = rec[r].subject
    BY DEF LateInv, BaseInv, TypeOK, Repairs, RecordSuccess
<1>1. /\ TypeOK /\ HeldWork /\ LocksKept /\ [Next]_vars
      /\ late \in [Subjects -> BOOLEAN] /\ seen \in [Reconcilers -> BOOLEAN]
    BY DEF LateInv, BaseInv, LTypeOK, Repairs, ReconcileStep, Next
<1>2. /\ rec[r].pc = "applying" /\ HasSession(r) /\ RecordSuccess(r)
      /\ UNCHANGED <<intents, member, subjectLock>>
      /\ rec'[r].pc = "closing" /\ rec'[r].subject = s
      /\ \A q \in Reconcilers \ {r} : rec'[q] = rec[q]
    BY <1>0, <1>1 DEF Repairs, RecordSuccess, GoTo, TypeOK, RecStates
<1>3. /\ late' = [late EXCEPT ![s] = @ /\ ~seen[r]] /\ seen' = [seen EXCEPT ![r] = FALSE]
    BY <1>0 DEF Repairs
<1>4. /\ late'[s] <=> late[s] /\ ~seen[r]
      /\ \A x \in Subjects \ {s} : late'[x] = late[x]
      /\ \A q \in Reconcilers \ {r} : seen'[q] = seen[q]
    BY <1>1, <1>3
<1>5. \A x \in Subjects : OwnWrites(x)
    BY <1>2 DEF OwnWrites
<1>6. PlansSeen'
    <2> SUFFICES ASSUME NEW q \in Reconcilers, rec'[q].pc = "applying", HasSession(q)'
                 PROVE  /\ seen'[q] \/ late'[rec'[q].subject]
                        /\ seen'[q] => PlanCurrent(q)'
        BY DEF PlansSeen
    <2>1. q # r /\ rec'[q] = rec[q] /\ HasSession(q)
        BY <1>2 DEF HasSession
    <2>2. rec[q].subject \in Subjects \ {s}
        BY <1>0, <1>1, <1>2, <2>1 DEF TypeOK, HasSession
    <2>3. seen[q] => PlanCurrent(q)'
        BY <1>1, <1>5, <2>2, SystemStep
    <2> QED
        BY <1>4, <2>1, <2>2, <2>3 DEF LateInv, PlansSeen
<1>7. RightUnlessLate'
    <2> SUFFICES ASSUME NEW x \in Subjects, ~late'[x]
                 PROVE  CleanRight(x)'
        BY DEF RightUnlessLate
    <2>1. CASE x # s
        BY <1>1, <1>4, <1>5, <2>1, SystemStep
    <2>2. CASE x = s
        <3>1. PlanCurrent(r)
            BY <1>0, <1>2, <1>4, <2>2 DEF LateInv, PlansSeen
        <3>2. CleanRight(rec[r].subject)'
            BY <1>1, <1>2, <3>1, SuccessCleans
        <3>3. rec'[r].subject = x
            BY <1>2, <2>2
        <3> QED
            BY <3>2, <3>3
    <2> QED
        BY <2>1, <2>2
<1> QED
    BY <1>6, <1>7

(* A write beside the holder's marks its subject, and the attempts on it   *)
(* have not seen it.                                                       *)
LEMMA LandsLateMarks ==
    ASSUME LTypeOK, NEW s \in Subjects, LandsLate(s)
    PROVE  /\ late'[s] /\ \A x \in Subjects \ {s} : late'[x] = late[x]
           /\ \A q \in Reconcilers : seen'[q] <=> seen[q] /\ rec[q].subject # s
BY DEF LTypeOK, LandsLate

(* A write of an attempt keeps the histories right, with its session or    *)
(* without.                                                                *)
LEMMA WritesStep ==
    ASSUME LateInv, NEW r \in Reconcilers, Writes(r)
    PROVE  PlansSeen' /\ RightUnlessLate'
<1>1. /\ TypeOK /\ LTypeOK /\ Write(r) /\ [Next]_vars
    BY DEF LateInv, BaseInv, Writes, Write, ReconcileStep, Next
<1>2. /\ rec[r].pc = "applying" /\ rec[r].subject \in Subjects
      /\ rec'[r].subject = rec[r].subject /\ \A q \in Reconcilers \ {r} : rec'[q] = rec[q]
      /\ \A x \in Subjects \ {rec[r].subject} : member'[x] = member[x]
      /\ subjectLock' = subjectLock
    BY <1>1, WriteStep
<1>3. CASE HasSession(r)
    <2>1. UNCHANGED <<late, seen>>
        BY <1>3 DEF Writes
    <2>2. \A s \in Subjects : OwnWrites(s)
        BY <1>1, <1>2, <1>3 DEF OwnWrites
    <2>3. \A q \in Reconcilers : rec'[q].pc = "applying" => rec[q].pc = "applying"
        BY <1>2
    <2> QED
        BY <1>1, <2>1, <2>2, <2>3, OrderedStep
<1>4. CASE ~HasSession(r)
    <2>0. PICK s \in Subjects : s = rec[r].subject
        BY <1>2
    <2>1. /\ late'[s] /\ \A x \in Subjects \ {s} : late'[x] = late[x]
          /\ \A q \in Reconcilers : seen'[q] <=> seen[q] /\ rec[q].subject # s
        <3>1. LandsLate(s)
            BY <1>4, <2>0 DEF Writes
        <3> QED
            BY <1>1, <3>1, LandsLateMarks
    <2>2. \A x \in Subjects \ {s} : OwnWrites(x)
        BY <1>2, <2>0 DEF OwnWrites
    <2>3. PlansSeen'
        <3> SUFFICES ASSUME NEW q \in Reconcilers, rec'[q].pc = "applying", HasSession(q)'
                     PROVE  /\ seen'[q] \/ late'[rec'[q].subject]
                            /\ seen'[q] => PlanCurrent(q)'
            BY DEF PlansSeen
        <3>1. q # r /\ rec'[q] = rec[q] /\ HasSession(q)
            BY <1>2, <1>4 DEF HasSession
        <3>2. rec[q].subject \in Subjects
            BY <1>1, <3>1 DEF TypeOK
        <3>3. rec[q].subject # s /\ seen[q] => PlanCurrent(q)'
            BY <1>1, <2>2, <3>2, SystemStep
        <3> QED
            BY <2>1, <3>1, <3>2, <3>3 DEF LateInv, PlansSeen
    <2>4. RightUnlessLate'
        BY <1>1, <2>1, <2>2, SystemStep DEF RightUnlessLate
    <2> QED
        BY <2>3, <2>4
<1> QED
    BY <1>3, <1>4

(* So does a write that lands after it was given up. *)
LEMMA LandStep ==
    ASSUME LateInv, NEW w \in flight, Land(w)
    PROVE  PlansSeen' /\ RightUnlessLate'
<1>0. TypeOK /\ LTypeOK
    BY DEF LateInv, BaseInv
<1>1. PICK s \in Subjects : s = w[1]
    BY <1>0, LandWrites
<1>2. /\ \A x \in Subjects \ {s} : member'[x] = member[x]
      /\ UNCHANGED <<intents, state, subjectLock, now, rec>>
    BY <1>0, <1>1, LandWrites
<1>3. /\ late'[s] /\ \A x \in Subjects \ {s} : late'[x] = late[x]
      /\ \A q \in Reconcilers : seen'[q] <=> seen[q] /\ rec[q].subject # s
    BY <1>0, <1>1, LandsLateMarks DEF Land
<1>4. \A x : IntentsOf(x)' = IntentsOf(x)
    BY <1>2 DEF IntentsOf
<1>5. PlansSeen'
    <2> SUFFICES ASSUME NEW q \in Reconcilers, rec'[q].pc = "applying", HasSession(q)'
                 PROVE  /\ seen'[q] \/ late'[rec'[q].subject]
                        /\ seen'[q] => PlanCurrent(q)'
        BY DEF PlansSeen
    <2>1. rec' = rec /\ HasSession(q) /\ rec[q].subject \in Subjects
        BY <1>0, <1>2 DEF HasSession, TypeOK
    <2>2. CASE rec[q].subject = s
        BY <1>3, <2>1, <2>2
    <2>3. CASE rec[q].subject # s
        <3>1. PICK x \in Subjects : x = rec[q].subject /\ rec'[q].subject = x /\ member'[x] = member[x]
            BY <1>2, <2>1, <2>3
        <3>2. PlanCurrent(q) => PlanCurrent(q)'
            BY <1>4, <2>1, <3>1 DEF PlanCurrent, User, Wanted
        <3> QED
            BY <1>3, <2>1, <2>3, <3>2 DEF LateInv, PlansSeen
    <2> QED
        BY <2>2, <2>3
<1>6. RightUnlessLate'
    <2> SUFFICES ASSUME NEW x \in Subjects, ~late'[x]
                 PROVE  CleanRight(x)'
        BY DEF RightUnlessLate
    <2>1. x # s /\ ~late[x] /\ member'[x] = member[x]
        BY <1>2, <1>3
    <2>2. CleanRight(x)
        BY <2>1 DEF LateInv, RightUnlessLate
    <2> QED
        BY <1>2, <1>4, <2>1, <2>2 DEF CleanRight, Clean, User, Wanted
<1> QED
    BY <1>5, <1>6

(* One step keeps everything. *)
LEMMA LateStep == LateInv /\ [LNext]_lvars => LateInv'
<1> SUFFICES ASSUME LateInv, [LNext]_lvars
             PROVE  LateInv'
    OBVIOUS
<1>0. /\ BaseInv' /\ TypeOK /\ rec \in [Reconcilers -> RecStates]
      /\ seen \in [Reconcilers -> BOOLEAN]
    BY BaseStep DEF LateInv, BaseInv, TypeOK, LTypeOK
<1>s. ASSUME [Next]_vars, member' = member, late' = late,
             \A q \in Reconcilers : rec'[q].pc = "applying" =>
                IF rec[q].pc = "applying" THEN seen'[q] = seen[q] ELSE seen'[q]
      PROVE  PlansSeen' /\ RightUnlessLate'
    BY <1>s, OrderedStep DEF OwnWrites
<1>1. ASSUME NEW r \in Reconcilers, GiveUp(r)
      PROVE  PlansSeen' /\ RightUnlessLate'
    <2>1. WriteRefused(r) \/ CrashReconciler(r)
        BY <1>1 DEF GiveUp, WriteRefused, CrashReconciler
    <2>2. /\ rec'[r].pc # "applying" /\ \A q \in Reconcilers \ {r} : rec'[q] = rec[q]
        BY <1>0, <2>1 DEF WriteRefused, CrashReconciler, GoTo, IdleRec, RecStates
    <2>3. member' = member /\ late' = late /\ \A q \in Reconcilers \ {r} : seen'[q] = seen[q]
        BY <1>0, <1>1 DEF GiveUp
    <2>4. [Next]_vars
        BY <2>1 DEF ReconcileStep, Next
    <2> QED
        BY <1>s, <2>2, <2>3, <2>4
<1>2. ASSUME NEW r \in Reconcilers, Sees(r)
      PROVE  PlansSeen' /\ RightUnlessLate'
    <2>1. /\ rec[r].pc = "listed" /\ \A q \in Reconcilers \ {r} : rec'[q] = rec[q]
          /\ member' = member /\ late' = late
        BY <1>0, <1>2 DEF Sees, Build
    <2>2. seen'[r] /\ \A q \in Reconcilers \ {r} : seen'[q] = seen[q]
        BY <1>0, <1>2 DEF Sees
    <2>3. [Next]_vars
        BY <1>2 DEF Sees, ReconcileStep, Next
    <2> QED
        BY <1>s, <2>1, <2>2, <2>3
<1>3. ASSUME NEW r \in Reconcilers, Proceeds(r), ~LoseSession(r)
      PROVE  PlansSeen' /\ RightUnlessLate'
    <2>1. /\ ReconcileStep(r) /\ member' = member /\ late' = late
          /\ rec'[r].pc # "applying" /\ \A q \in Reconcilers \ {r} : rec'[q] = rec[q]
          /\ seen' = [seen EXCEPT ![r] = FALSE]
        BY <1>0, <1>3, ProceedsStep
    <2>2. \A q \in Reconcilers \ {r} : seen'[q] = seen[q]
        BY <1>0, <2>1
    <2>3. [Next]_vars
        BY <2>1 DEF Next
    <2> QED
        BY <1>s, <2>1, <2>2, <2>3
<1>4. ASSUME NEW r \in Reconcilers, Proceeds(r), LoseSession(r)
      PROVE  PlansSeen' /\ RightUnlessLate'
    <2>1. /\ UNCHANGED <<intents, state, member, now, rec>>
          /\ \A q \in Reconcilers : rec[q].pc # "idle" /\ HasSession(q)' => q # r /\ HasSession(q)
        BY <1>0, <1>4, LossFrees
    <2>2. late' = late /\ \A q \in Reconcilers \ {r} : seen'[q] = seen[q]
        BY <1>0, <1>4 DEF Proceeds
    <2>3. \A x : IntentsOf(x)' = IntentsOf(x)
        BY <2>1 DEF IntentsOf
    <2>4. PlansSeen'
        BY <2>1, <2>2, <2>3 DEF LateInv, PlansSeen, PlanCurrent, User, Wanted
    <2>5. RightUnlessLate'
        BY <2>1, <2>2, <2>3 DEF LateInv, RightUnlessLate, CleanRight, Clean, User, Wanted
    <2> QED
        BY <2>4, <2>5
<1>5. ASSUME UNCHANGED <<late, seen>>,
             UNCHANGED vars \/ Tick \/ \E h \in Handlers : HandlerStep(h)
      PROVE  PlansSeen' /\ RightUnlessLate'
    <2>1. UNCHANGED <<member, rec>>
        BY <1>5 DEF vars, Tick, HandlerStep, Receive, LockIdentity, LockAffected, Commit, Rollback
    <2> QED
        BY <1>5, <1>s, <2>1 DEF Next
<1>6. ASSUME NEW w \in flight, Vanish(w)
      PROVE  PlansSeen' /\ RightUnlessLate'
    BY <1>5, <1>6 DEF Vanish
<1>7. PlansSeen' /\ RightUnlessLate'
    BY <1>1, <1>2, <1>3, <1>4, <1>5, <1>6, WritesStep, RepairsStep, LandStep DEF LNext, lvars
<1> QED
    BY <1>0, <1>7 DEF LateInv

(* Only a write outside of its subject's lock that lands after the last    *)
(* attempt resolved its user leaves a subject wrong without a mark,        *)
(* however many writes are on their way and sessions are lost.             *)
THEOREM OnlyLateWritesMatter == LSpec => []OnlyLateWritesHarm
<1>1. LInit => LateInv
    <2> SUFFICES ASSUME LInit
                 PROVE  LateInv
        OBVIOUS
    <2>1. Init
        BY DEF LInit
    <2>2. /\ \A r \in Reconcilers : rec[r].pc = "idle"
          /\ \A s \in Subjects : ~state[s].exists
        BY <2>1 DEF Init, StoreInit, ZeroState, IdleRec
    <2>3. TypeOK
        BY <2>1, TypeBegins
    <2>4. LTypeOK
        BY DEF LInit, LTypeOK
    <2>5. LocksKept
        BY <2>1, LocksBegin DEF LockInv
    <2>6. PlansSeen /\ RightUnlessLate
        BY <2>2 DEF PlansSeen, RightUnlessLate, CleanRight, Clean
    <2> QED
        BY <2>1, <2>3, <2>4, <2>5, <2>6, WorkBegins DEF LateInv, BaseInv
<1>2. LateInv => OnlyLateWritesHarm
    <2> SUFFICES ASSUME LateInv, NEW s \in Subjects, s \notin ListSubjectsDue(now),
                        state[s].next_retry_at = Null, ~late[s]
                 PROVE  Satisfies(User(s), Wanted(s, now))
        BY DEF OnlyLateWritesHarm
    <2>1. /\ TypeOK /\ now \in Nat /\ now <= now /\ state[s].last_success_at <= now
          /\ state[s].next_transition_at \in Nat \cup {Null}
        BY DEF LateInv, BaseInv, HeldWork, HeldInstants, TypeOK, Rows
    <2>2. CASE state[s].exists
        <3>1. Clean(s)
            BY <2>1, <2>2 DEF ListSubjectsDue, Reached, Clean, Null
        <3>2. CleanRight(s)
            BY DEF LateInv, RightUnlessLate
        <3> QED
            BY <2>1, <3>1, <3>2, CleanSatisfies
    <2>3. CASE ~state[s].exists
        <3>1. IntentsOf(s) = {}
            BY <2>3 DEF ListSubjectsDue
        <3> QED
            BY <3>1, NothingWanted
    <2> QED
        BY <2>2, <2>3
<1> QED
    BY <1>1, <1>2, LateStep, PTL DEF LSpec
=============================================================================
