----------------------------- MODULE Reconcile ------------------------------
(***************************************************************************)
(* Webhook updates and reconciliation over one database and one directory. *)
(*                                                                         *)
(* A reconciler is a goroutine inside Service.ReconcileSubject: the        *)
(* service loop of `run', or an `apply' of an operator.  A handler is a    *)
(* webhook request inside Store.UpsertIntent.  Every statement sent to     *)
(* PostgreSQL and every request sent to Graph is a step, and each may      *)
(* fail; a process may crash between any two of them.  PostgreSQL drops    *)
(* the locks of a session that ends.                                       *)
(***************************************************************************)
EXTENDS Store, Planner, Graph

CONSTANTS
    Cfg,          \* the loaded configuration
    Deliveries,   \* the webhook bodies that may arrive
    Reconcilers,  \* goroutines that may run ReconcileSubject at one time
    Handlers,     \* webhook requests that may be in progress at one time
    RetryDelay,   \* retryDelay of the configuration, by previous failures
    MaxRetries,   \* bound: failures recorded in a row
    Horizon       \* bound: the last instant

GroupIDs == UNION { Range(Cfg.groups[alias]) : alias \in DOMAIN Cfg.groups }

Aliases == DOMAIN Cfg.groups

(* The deliveries that get past Validate, in their trimmed form. *)
Accepted == { Trimmed(d) : d \in { e \in Deliveries : Validate(e) } }

(* config.Load returns only validated configurations. *)
ASSUME ConfigAssumption ==
    /\ Aliases \subseteq Nat
    /\ Cfg.rules \in Seq(Range(Cfg.rules))
    /\ \A alias \in Aliases : Cfg.groups[alias] \in Seq(Nat)
    /\ validateIdentity(Cfg) /\ validateRules(Cfg)

(* No rule's condition reads a group that some rule writes: a plan cannot  *)
(* change which rule selects its user.  The code does not check this.      *)
ASSUME PolicyStable ==
    \A s \in Subjects : \A ids \in SUBSET GroupIDs : \A g \in ManagedIDs(Cfg) :
        RuleIndex(Cfg, Resolve(Cfg, s, ids \cup {g}))
            = RuleIndex(Cfg, Resolve(Cfg, s, ids \ {g}))

ASSUME DeliveriesAssumption ==
    \A i \in Accepted :
        /\ Key(i) \in Keys /\ i.subject \in Subjects
        /\ i.starts_at \in Nat /\ i.ends_at \in Nat /\ i.cancelled \in BOOLEAN

ASSUME ActorsAssumption ==
    Reconcilers \cap Handlers = {} /\ Nobody \notin Reconcilers \cup Handlers

ASSUME RetryAssumption ==
    MaxRetries \in Nat /\ RetryDelay \in [0..MaxRetries -> Nat \ {0}]

ASSUME HorizonAssumption == Horizon \in Nat

VARIABLES
    now,  \* the wall clock
    rec,  \* Reconcilers -> the locals of ReconcileSubject
    hnd   \* Handlers -> the locals of UpsertIntent

vars == <<intents, state, subjectLock, identityLock, member, now, rec, hnd>>

IdleRec == [pc |-> "idle", subject |-> Blank, started |-> ZeroTime, retries |-> 0,
            next |-> Null, listed |-> {}, adds |-> {}, removes |-> {}]

IdleHnd == [pc |-> "idle", intent |-> NoIntent, at |-> ZeroTime, affected |-> {}, todo |-> {}]

Init ==
    /\ StoreInit
    /\ member \in [Subjects -> SUBSET GroupIDs]
    /\ now = 1
    /\ rec = [r \in Reconcilers |-> IdleRec]
    /\ hnd = [h \in Handlers |-> IdleHnd]

-----------------------------------------------------------------------------
(* Helpers *)

GoTo(r, label) == rec' = [rec EXCEPT ![r].pc = label]

(* A SubjectSession's connection is alive as long as its lock is held. *)
HasSession(r) == subjectLock[rec[r].subject] = r

(* The end of a session or transaction frees every lock it holds. *)
Released(locks, p) == [x \in DOMAIN locks |-> IF locks[x] = p THEN Nobody ELSE locks[x]]

(* The group a writable alias stands for: identity.groups[alias][0]. *)
Target(alias) == Cfg.groups[alias][1]

User(s) == Resolve(Cfg, s, member[s])

(* What the stored intents of a subject ask for at an instant. *)
Wanted(s, t) == Assertions(Cfg, User(s), IntentsOf(s), t)

-----------------------------------------------------------------------------
(* Service.ReconcileSubject *)

(* Called for any subject: `apply --subject' does not look whether it is known. *)
Begin(r, s) ==
    /\ rec[r].pc = "idle"
    /\ rec' = [rec EXCEPT ![r] = [IdleRec EXCEPT !.pc = "waiting", !.subject = s]]
    /\ UNCHANGED <<intents, state, subjectLock, identityLock, member, now, hnd>>

(* No connection, or the wait was cancelled: the connection is discarded. *)
LockSubjectFails(r) ==
    /\ rec[r].pc = "waiting"
    /\ rec' = [rec EXCEPT ![r] = IdleRec]
    /\ UNCHANGED <<intents, state, subjectLock, identityLock, member, now, hnd>>

LockSubject_Shared(r) ==
    /\ rec[r].pc = "waiting"
    /\ subjectLock[rec[r].subject] \notin Reconcilers
    /\ subjectLock' = [subjectLock EXCEPT ![rec[r].subject] = r]
    /\ GoTo(r, "locked")
    /\ UNCHANGED <<intents, state, identityLock, member, now, hnd>>

LockSubject(r) ==
    /\ rec[r].pc = "waiting"
    /\ subjectLock[rec[r].subject] = Nobody
    /\ subjectLock' = [subjectLock EXCEPT ![rec[r].subject] = r]
    /\ GoTo(r, "locked")
    /\ UNCHANGED <<intents, state, identityLock, member, now, hnd>>

(* The attempt's instant is taken here, and every later decision uses it. *)
GetState(r) ==
    /\ rec[r].pc = "locked"
    /\ HasSession(r)
    /\ LET row == state[rec[r].subject]
       IN  rec' = [rec EXCEPT ![r] = [@ EXCEPT !.pc = "loaded", !.started = now,
                                               !.retries = row.retry_count,
                                               !.next = row.next_transition_at]]
    /\ UNCHANGED <<intents, state, subjectLock, identityLock, member, now, hnd>>

(* Nothing is recorded when the state cannot be read. *)
GetStateFails(r) ==
    /\ rec[r].pc = "locked"
    /\ GoTo(r, "closing")
    /\ UNCHANGED <<intents, state, subjectLock, identityLock, member, now, hnd>>

ListIntents(r) ==
    /\ rec[r].pc = "loaded"
    /\ HasSession(r)
    /\ LET listed == IntentsOf(rec[r].subject)
       IN  rec' = [rec EXCEPT ![r] = [@ EXCEPT !.pc = "listed", !.listed = listed,
                                               !.next = nextTransitionAt(listed, rec[r].started)]]
    /\ UNCHANGED <<intents, state, subjectLock, identityLock, member, now, hnd>>

(* The failure is recorded with the transition the row already had. *)
ListIntentsFails(r) ==
    /\ rec[r].pc = "loaded"
    /\ GoTo(r, "failing")
    /\ UNCHANGED <<intents, state, subjectLock, identityLock, member, now, hnd>>

(* directory.Resolve and planner.Build. *)
Build(r) ==
    /\ rec[r].pc = "listed"
    /\ LET user == User(rec[r].subject)
           a == Assertions(Cfg, user, rec[r].listed, rec[r].started)
       IN  rec' = [rec EXCEPT ![r] = [@ EXCEPT !.pc = "applying",
                                               !.adds = AddGroups(a, user),
                                               !.removes = RemoveGroups(a, user)]]
    /\ UNCHANGED <<intents, state, subjectLock, identityLock, member, now, hnd>>

(* The user cannot be resolved, or a rule's condition cannot be evaluated. *)
BuildFails(r) ==
    /\ rec[r].pc = "listed"
    /\ GoTo(r, "failing")
    /\ UNCHANGED <<intents, state, subjectLock, identityLock, member, now, hnd>>

Add(r) ==
    /\ rec[r].pc = "applying"
    /\ rec[r].adds # {}
    /\ LET alias == Min(rec[r].adds)
       IN  /\ AddGroupMember(rec[r].subject, Target(alias))
           /\ rec' = [rec EXCEPT ![r].adds = @ \ {alias}]
    /\ UNCHANGED <<intents, state, subjectLock, identityLock, now, hnd>>

Remove(r) ==
    /\ rec[r].pc = "applying"
    /\ rec[r].adds = {} /\ rec[r].removes # {}
    /\ LET alias == Min(rec[r].removes)
       IN  /\ RemoveGroupMember(rec[r].subject, Target(alias))
           /\ rec' = [rec EXCEPT ![r].removes = @ \ {alias}]
    /\ UNCHANGED <<intents, state, subjectLock, identityLock, now, hnd>>

(* A membership write is refused, or its answer is lost after it took effect. *)
WriteRefused(r) ==
    /\ rec[r].pc = "applying"
    /\ rec[r].adds # {} \/ rec[r].removes # {}
    /\ GoTo(r, "failing")
    /\ UNCHANGED <<intents, state, subjectLock, identityLock, member, now, hnd>>

WriteAnswerLost(r) ==
    /\ rec[r].pc = "applying"
    /\ \/ /\ rec[r].adds # {}
          /\ AddGroupMember(rec[r].subject, Target(Min(rec[r].adds)))
       \/ /\ rec[r].adds = {} /\ rec[r].removes # {}
          /\ RemoveGroupMember(rec[r].subject, Target(Min(rec[r].removes)))
    /\ GoTo(r, "failing")
    /\ UNCHANGED <<intents, state, subjectLock, identityLock, now, hnd>>

RecordSuccess_AtOnce(r) ==
    /\ rec[r].pc = "applying"
    /\ rec[r].adds = {}
    /\ HasSession(r)
    /\ recordSuccess(rec[r].subject, rec[r].started, rec[r].next)
    /\ GoTo(r, "closing")
    /\ UNCHANGED <<intents, subjectLock, identityLock, member, now, hnd>>

(* The outcome is stored; whether its answer arrives makes no difference. *)
RecordSuccess(r) ==
    /\ rec[r].pc = "applying"
    /\ rec[r].adds = {} /\ rec[r].removes = {}
    /\ HasSession(r)
    /\ recordSuccess(rec[r].subject, rec[r].started, rec[r].next)
    /\ GoTo(r, "closing")
    /\ UNCHANGED <<intents, subjectLock, identityLock, member, now, hnd>>

(* No failure is recorded for a success that could not be stored. *)
RecordSuccessFails(r) ==
    /\ rec[r].pc = "applying"
    /\ rec[r].adds = {} /\ rec[r].removes = {}
    /\ GoTo(r, "closing")
    /\ UNCHANGED <<intents, state, subjectLock, identityLock, member, now, hnd>>

RecordFailure(r) ==
    /\ rec[r].pc = "failing"
    /\ HasSession(r)
    /\ state[rec[r].subject].retry_count < MaxRetries
    /\ recordFailure(rec[r].subject, rec[r].started, rec[r].next,
                     rec[r].started + RetryDelay[rec[r].retries])
    /\ GoTo(r, "closing")
    /\ UNCHANGED <<intents, subjectLock, identityLock, member, now, hnd>>

(* The context was cancelled, or the failure could not be stored. *)
RecordFailureSkipped(r) ==
    /\ rec[r].pc = "failing"
    /\ GoTo(r, "closing")
    /\ UNCHANGED <<intents, state, subjectLock, identityLock, member, now, hnd>>

Close_KeepsLock(r) ==
    /\ rec[r].pc = "closing"
    /\ rec' = [rec EXCEPT ![r] = IdleRec]
    /\ UNCHANGED <<intents, state, subjectLock, identityLock, member, now, hnd>>

(* Close unlocks, or discards a connection it could not unlock: the session *)
(* ends and its lock with it.                                              *)
Close(r) ==
    /\ rec[r].pc = "closing"
    /\ subjectLock' = Released(subjectLock, r)
    /\ rec' = [rec EXCEPT ![r] = IdleRec]
    /\ UNCHANGED <<intents, state, identityLock, member, now, hnd>>

(* The process dies anywhere in ReconcileSubject. *)
CrashReconciler(r) ==
    /\ rec[r].pc # "idle"
    /\ subjectLock' = Released(subjectLock, r)
    /\ rec' = [rec EXCEPT ![r] = IdleRec]
    /\ UNCHANGED <<intents, state, identityLock, member, now, hnd>>

-----------------------------------------------------------------------------
(* handleWebhook and Store.UpsertIntent *)

(* The instant is taken before the transaction begins to wait for locks; a *)
(* delivery that Validate rejects changes nothing.                         *)
Receive(h, i) ==
    /\ hnd[h].pc = "idle"
    /\ hnd' = [hnd EXCEPT ![h] = [IdleHnd EXCEPT !.pc = "identity", !.intent = i, !.at = now]]
    /\ UNCHANGED <<intents, state, subjectLock, identityLock, member, now, rec>>

uniqueSubjects_KeepsBlank(previous, subject) == {previous, subject}

(* A new identity has no previous subject. *)
uniqueSubjects(previous, subject) == {previous, subject} \ {Blank}

LockIdentity_NoLock(h) ==
    /\ hnd[h].pc = "identity"
    /\ LET affected == uniqueSubjects(intents[Key(hnd[h].intent)].subject, hnd[h].intent.subject)
       IN  hnd' = [hnd EXCEPT ![h] = [@ EXCEPT !.pc = "locking", !.affected = affected, !.todo = affected]]
    /\ UNCHANGED <<intents, state, subjectLock, identityLock, member, now, rec>>

(* The identity's lock, then the subject its row now names. *)
LockIdentity(h) ==
    /\ hnd[h].pc = "identity"
    /\ LET k == Key(hnd[h].intent)
           affected == uniqueSubjects(intents[k].subject, hnd[h].intent.subject)
       IN  /\ identityLock[k] = Nobody
           /\ identityLock' = [identityLock EXCEPT ![k] = h]
           /\ hnd' = [hnd EXCEPT ![h] = [@ EXCEPT !.pc = "locking", !.affected = affected,
                                                  !.todo = affected]]
    /\ UNCHANGED <<intents, state, subjectLock, member, now, rec>>

NextSubject_PreviousFirst(h) ==
    LET previous == intents[Key(hnd[h].intent)].subject
    IN  IF previous \in hnd[h].todo THEN previous ELSE Min(hnd[h].todo)

(* The subjects' locks are taken in the order uniqueSubjects sorts them in. *)
NextSubject(h) == Min(hnd[h].todo)

LockAffected(h) ==
    /\ hnd[h].pc = "locking"
    /\ hnd[h].todo # {}
    /\ subjectLock[NextSubject(h)] = Nobody
    /\ subjectLock' = [subjectLock EXCEPT ![NextSubject(h)] = h]
    /\ hnd' = [hnd EXCEPT ![h].todo = @ \ {NextSubject(h)}]
    /\ UNCHANGED <<intents, state, identityLock, member, now, rec>>

(* The writes become visible and the transaction's locks go, together. *)
Commit(h) ==
    /\ hnd[h].pc = "locking"
    /\ hnd[h].todo = {}
    /\ UpsertIntent(hnd[h].intent, hnd[h].affected, hnd[h].at)
    /\ subjectLock' = Released(subjectLock, h)
    /\ identityLock' = Released(identityLock, h)
    /\ hnd' = [hnd EXCEPT ![h] = IdleHnd]
    /\ UNCHANGED <<member, now, rec>>

(* An error, a cancelled request, a crash: the transaction rolls back. *)
Rollback(h) ==
    /\ hnd[h].pc # "idle"
    /\ subjectLock' = Released(subjectLock, h)
    /\ identityLock' = Released(identityLock, h)
    /\ hnd' = [hnd EXCEPT ![h] = IdleHnd]
    /\ UNCHANGED <<intents, state, member, now, rec>>

-----------------------------------------------------------------------------

Tick ==
    /\ now < Horizon
    /\ now' = now + 1
    /\ UNCHANGED <<intents, state, subjectLock, identityLock, member, rec, hnd>>

ReconcileStep(r) ==
    \/ \E s \in Subjects : Begin(r, s)
    \/ LockSubjectFails(r) \/ LockSubject(r)
    \/ GetState(r) \/ GetStateFails(r)
    \/ ListIntents(r) \/ ListIntentsFails(r)
    \/ Build(r) \/ BuildFails(r)
    \/ Add(r) \/ Remove(r) \/ WriteRefused(r) \/ WriteAnswerLost(r)
    \/ RecordSuccess(r) \/ RecordSuccessFails(r)
    \/ RecordFailure(r) \/ RecordFailureSkipped(r)
    \/ Close(r) \/ CrashReconciler(r)

HandlerStep(h) ==
    \/ \E i \in Accepted : Receive(h, i)
    \/ LockIdentity(h) \/ LockAffected(h) \/ Commit(h) \/ Rollback(h)

Next ==
    \/ \E r \in Reconcilers : ReconcileStep(r)
    \/ \E h \in Handlers : HandlerStep(h)
    \/ Tick

Spec == Init /\ [][Next]_vars

-----------------------------------------------------------------------------
(* Properties *)

Holding == {"locked", "loaded", "listed", "applying", "failing", "closing"}

Rows == [exists : BOOLEAN, last_attempt_at : Nat \cup {Null}, last_success_at : Nat \cup {Null},
         last_error : BOOLEAN, next_transition_at : Nat \cup {Null},
         next_retry_at : Nat \cup {Null}, retry_count : 0..MaxRetries]

RecStates == [pc : Holding \cup {"idle", "waiting"}, subject : Subjects \cup {Blank}, started : Nat,
              retries : 0..MaxRetries, next : Nat \cup {Null}, listed : SUBSET Accepted,
              adds : SUBSET Aliases, removes : SUBSET Aliases]

HndStates == [pc : {"idle", "identity", "locking"}, intent : Accepted \cup {NoIntent}, at : Nat,
              affected : SUBSET Subjects, todo : SUBSET Subjects]

(* Every variable has its type, and the locals of an actor that is at work *)
(* name a real subject or a real delivery.                                 *)
TypeOK ==
    /\ intents \in [Keys -> Accepted \cup {NoIntent}]
    /\ state \in [Subjects -> Rows]
    /\ subjectLock \in [Subjects -> Reconcilers \cup Handlers \cup {Nobody}]
    /\ identityLock \in [Keys -> Handlers \cup {Nobody}]
    /\ member \in [Subjects -> SUBSET GroupIDs]
    /\ now \in Nat
    /\ rec \in [Reconcilers -> RecStates]
    /\ hnd \in [Handlers -> HndStates]
    /\ \A r \in Reconcilers : rec[r].pc # "idle" => rec[r].subject \in Subjects
    /\ \A h \in Handlers : hnd[h].pc # "idle" => hnd[h].intent \in Accepted

(* A subject that is neither due nor waiting for a retry has exactly the   *)
(* memberships its stored intents ask for at this instant: no webhook,     *)
(* phase boundary, failure, lost answer or crash leaves a subject wrong    *)
(* with nothing in the database that brings reconciliation back to it.     *)
UpToDateConforms ==
    \A s \in Subjects :
        s \notin ListSubjectsDue(now) /\ state[s].next_retry_at = Null
            => Satisfies(User(s), Wanted(s, now))

(* Webhook updates and reconciliation are serialized per subject: from the *)
(* listing of the intents to the recorded outcome, the plan in progress is *)
(* for the intents that are stored, and no other reconciler is at work on  *)
(* the subject.                                                            *)
Serialized ==
    \A r \in Reconcilers : rec[r].pc \in {"listed", "applying"} =>
        /\ rec[r].listed = IntentsOf(rec[r].subject)
        /\ \A q \in Reconcilers \ {r} :
              ~(rec[q].pc \in {"listed", "applying"} /\ rec[q].subject = rec[r].subject)

(* What is left of a plan in progress is what planning again would find,   *)
(* so Graph refuses none of its writes for being made already: the list    *)
(* read at the start is still right when its last write goes out.          *)
RemainingWorkIsThePlan ==
    \A r \in Reconcilers : rec[r].pc = "applying" =>
        LET user == User(rec[r].subject)
            a == Wanted(rec[r].subject, rec[r].started)
        IN  /\ rec[r].adds = AddGroups(a, user)
            /\ rec[r].removes = RemoveGroups(a, user)
            /\ \A alias \in rec[r].adds : Target(alias) \notin member[rec[r].subject]
            /\ \A alias \in rec[r].removes : Target(alias) \in member[rec[r].subject]

(* A lock is held only by an actor still at work on what it protects: no   *)
(* pooled connection carries one into its next use.                        *)
NoLeakedLock ==
    /\ \A s \in Subjects : \A r \in Reconcilers :
          subjectLock[s] = r => rec[r].pc \in Holding /\ rec[r].subject = s
    /\ \A s \in Subjects : \A h \in Handlers :
          subjectLock[s] = h => hnd[h].pc = "locking" /\ s \in hnd[h].affected \ hnd[h].todo
    /\ \A k \in Keys : \A h \in Handlers :
          identityLock[k] = h => hnd[h].pc = "locking" /\ Key(hnd[h].intent) = k

(* A retry lies in the future only because of a recorded failure, exactly  *)
(* the configured delay after that attempt: a webhook is never held back   *)
(* by an older backoff, and failures never push a retry out twice.         *)
RetryFollowsBackoff ==
    \A s \in Subjects : state[s].next_retry_at > now =>
        /\ state[s].last_error /\ state[s].retry_count > 0
        /\ state[s].next_retry_at
              = state[s].last_attempt_at + RetryDelay[state[s].retry_count - 1]

(* A scrape counts every stored intent once, in the phase the planner puts *)
(* it in at that instant, and as due exactly the subjects the loop would   *)
(* list then; and a subject it counts as failed will be tried again, so    *)
(* that the gauge clears by itself, whatever webhooks arrive meanwhile.    *)
GaugesAgree ==
    LET page == CollectMetrics(now)
        In(phase) == { k \in Keys : intents[k] # NoIntent /\ PhaseAt(intents[k], now) = phase }
    IN  /\ \A phase \in {"pending", "active", "ended", "cancelled"} :
              page[phase] = Cardinality(In(phase))
        /\ page.due = Cardinality(ListSubjectsDue(now))
        /\ page.failed = Cardinality({ s \in Subjects :
                state[s].retry_count > 0 /\ state[s].next_retry_at # Null })

(* The lock p is waiting for is held by q. *)
WaitsFor(p, q) ==
    \/ /\ p \in Reconcilers /\ rec[p].pc = "waiting"
       /\ subjectLock[rec[p].subject] = q
    \/ /\ p \in Handlers /\ hnd[p].pc = "identity"
       /\ identityLock[Key(hnd[p].intent)] = q
    \/ /\ p \in Handlers /\ hnd[p].pc = "locking" /\ hnd[p].todo # {}
       /\ subjectLock[NextSubject(p)] = q

(* Deliveries that move intents between subjects in opposite directions,   *)
(* and reconcilers of those subjects, never all wait for one another.      *)
NoWaitCycle ==
    \A S \in (SUBSET (Reconcilers \cup Handlers)) \ {{}} :
        \E p \in S : \A q \in S : ~WaitsFor(p, q)

-----------------------------------------------------------------------------
(* The inductive strengthening of the properties above *)

AtWork == {"loaded", "listed", "applying", "failing"}

(* A reconciler at work holds its subject's lock. *)
ReconcilersHold == \A r \in Reconcilers : rec[r].pc \in Holding => HasSession(r)

(* A handler that has its identity's lock knows every subject its delivery *)
(* affects, and holds the locks of those it is past.                       *)
HandlersHold ==
    \A h \in Handlers : hnd[h].pc = "locking" =>
        LET k == Key(hnd[h].intent)
        IN  /\ identityLock[k] = h
            /\ hnd[h].affected = uniqueSubjects(intents[k].subject, hnd[h].intent.subject)
            /\ hnd[h].todo \subseteq hnd[h].affected
            /\ \A s \in hnd[h].affected \ hnd[h].todo : subjectLock[s] = h

(* Recorded and captured instants lie in the past, in the order of the     *)
(* attempts on a subject; an attempt knows its subject's failure count.    *)
InstantsOrdered ==
    /\ \A s \in Subjects : state[s].last_success_at <= now
    /\ \A h \in Handlers : hnd[h].pc # "idle" => hnd[h].at <= now
    /\ \A r \in Reconcilers : rec[r].pc \in AtWork =>
          /\ rec[r].started <= now
          /\ state[rec[r].subject].last_success_at <= rec[r].started
          /\ rec[r].retries = state[rec[r].subject].retry_count

(* The transition an attempt stores is that of the intents it has listed. *)
NextIsTheBoundary ==
    \A r \in Reconcilers : rec[r].pc \in {"listed", "applying"} =>
        /\ rec[r].listed = IntentsOf(rec[r].subject)
        /\ rec[r].next = nextTransitionAt(rec[r].listed, rec[r].started)

(* No marker brings reconciliation back to the subject before its boundary. *)
Clean(s) ==
    /\ state[s].exists /\ state[s].next_retry_at = Null
    /\ state[s].next_transition_at = Null \/ now < state[s].next_transition_at

(* A clean subject is as its last success left it. *)
CleanSinceSuccess ==
    \A s \in Subjects : Clean(s) =>
        /\ state[s].last_success_at # Null
        /\ state[s].next_transition_at = nextTransitionAt(IntentsOf(s), state[s].last_success_at)
        /\ Satisfies(User(s), Wanted(s, state[s].last_success_at))

Inductive ==
    /\ ReconcilersHold /\ HandlersHold /\ InstantsOrdered /\ NextIsTheBoundary
    /\ RemainingWorkIsThePlan /\ CleanSinceSuccess

-----------------------------------------------------------------------------
(* The promise *)

(* The rows that bring reconciliation back to a subject, now or later. *)
Due == ListSubjectsDue(now) \cup { s \in Subjects : state[s].next_retry_at # Null }

Abstract == INSTANCE Promise WITH due <- Due

(* The database, the locks, the attempts and their failures implement the  *)
(* promise: memberships change one at a time, only for subjects the tables *)
(* mark, only towards what the stored intents ask for, and a subject's     *)
(* last mark goes only when its memberships are right at that moment.      *)
KeepsPromise == Abstract!Spec
=============================================================================
