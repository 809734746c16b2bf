--------------------------- MODULE ReconcileLate ----------------------------
(***************************************************************************)
(* Reconcile with membership writes that nothing orders any more.  A write *)
(* may reach Graph late: the attempt that sent it has given it up, because *)
(* it was cancelled, its connection broke or its process died, and Graph   *)
(* still carries it out, during a later attempt or after it; the client    *)
(* gives requests no identity that would tell such a write from a current  *)
(* one.  And an attempt that has lost its session goes on writing beside   *)
(* the next one.                                                           *)
(***************************************************************************)
EXTENDS ReconcileLossy

CONSTANT MaxInFlight  \* bound: writes given up that may still land

VARIABLES
    flight,  \* writes given up and not yet carried out: <<subject, action, ID>>
    late,    \* history: subject -> such a write has landed and is not repaired
    seen     \* history: reconciler -> its attempt may still succeed, has resolved the user,
             \* and none has landed since

lvars == <<vars, flight, late, seen>>

LInit ==
    /\ Init /\ flight = {}
    /\ late = [s \in Subjects |-> FALSE] /\ seen = [r \in Reconcilers |-> FALSE]

(* The write that is on its way. *)
Current(r) ==
    IF rec[r].adds # {} THEN <<rec[r].subject, "add", Target(Min(rec[r].adds))>>
    ELSE <<rec[r].subject, "remove", Target(Min(rec[r].removes))>>

(* The request fails for the attempt, or its process dies; it stays on its way. *)
GiveUp(r) ==
    /\ rec[r].pc = "applying" /\ rec[r].adds \cup rec[r].removes # {}
    /\ Cardinality(flight) < MaxInFlight
    /\ flight' = flight \cup {Current(r)}
    /\ \/ GoTo(r, "failing") /\ UNCHANGED subjectLock
       \/ rec' = [rec EXCEPT ![r] = IdleRec] /\ subjectLock' = Released(subjectLock, r)
    /\ seen' = [seen EXCEPT ![r] = FALSE]
    /\ UNCHANGED <<intents, state, identityLock, member, now, hnd, late>>

(* A write of subject s outside of its lock. *)
LandsLate(s) ==
    /\ late' = [late EXCEPT ![s] = TRUE]
    /\ seen' = [r \in Reconcilers |-> seen[r] /\ rec[r].subject # s]

Land(w) ==
    /\ IF w[2] = "add" THEN AddGroupMember(w[1], w[3]) ELSE RemoveGroupMember(w[1], w[3])
    /\ flight' = flight \ {w}
    /\ LandsLate(w[1])
    /\ UNCHANGED <<intents, state, subjectLock, identityLock, now, rec, hnd>>

(* Graph refuses it, or it never arrives. *)
Vanish(w) == flight' = flight \ {w} /\ UNCHANGED <<vars, late, seen>>

Writes(r) ==
    /\ Add(r) \/ Remove(r) \/ WriteAnswerLost(r)
    /\ IF HasSession(r) THEN UNCHANGED <<late, seen>> ELSE LandsLate(rec[r].subject)
    /\ UNCHANGED flight

(* Resolving the user sees every write that has landed; what it saw is     *)
(* repaired once the attempt succeeds.                                     *)
Sees(r) == Build(r) /\ seen' = [seen EXCEPT ![r] = TRUE] /\ UNCHANGED <<flight, late>>

Repairs(r) ==
    /\ RecordSuccess(r)
    /\ late' = [late EXCEPT ![rec[r].subject] = @ /\ ~seen[r]]
    /\ seen' = [seen EXCEPT ![r] = FALSE]
    /\ UNCHANGED flight

Proceeds(r) ==
    /\ \/ \E s \in Subjects : Begin(r, s)
       \/ LockSubjectFails(r) \/ LockSubject(r) \/ GetState(r) \/ GetStateFails(r)
       \/ ListIntents(r) \/ ListIntentsFails(r) \/ BuildFails(r) \/ WriteRefused(r)
       \/ RecordSuccessFails(r) \/ RecordFailure(r) \/ RecordFailureSkipped(r)
       \/ Close(r) \/ CrashReconciler(r) \/ LoseSession(r)
    /\ seen' = [seen EXCEPT ![r] = FALSE]
    /\ UNCHANGED <<flight, late>>

LNext ==
    \/ \E r \in Reconcilers : GiveUp(r) \/ Writes(r) \/ Sees(r) \/ Repairs(r) \/ Proceeds(r)
    \/ \E w \in flight : Land(w) \/ Vanish(w)
    \/ ((\E h \in Handlers : HandlerStep(h)) \/ Tick) /\ UNCHANGED <<flight, late, seen>>

LSpec == LInit /\ [][LNext]_lvars

-----------------------------------------------------------------------------
(* Properties *)

(* Only a write outside of its subject's lock that lands after the last    *)
(* attempt resolved its user leaves a subject wrong without a mark: one    *)
(* that lands before is seen and repaired, one that collides with the      *)
(* attempt's own makes Graph refuse that, and the attempt is repeated.     *)
OnlyLateWritesHarm ==
    \A s \in Subjects :
        s \notin ListSubjectsDue(now) /\ state[s].next_retry_at = Null /\ ~late[s]
            => Satisfies(User(s), Wanted(s, now))
=============================================================================
