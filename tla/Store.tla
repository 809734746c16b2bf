------------------------------- MODULE Store --------------------------------
(***************************************************************************)
(* internal/store/store.go and migrations/0001_intents.sql: the two tables *)
(* and the advisory locks, and the statements the code runs on them.       *)
(*                                                                         *)
(* A key without a row holds the zero intent, whose subject is blank; a    *)
(* subject without a row holds the zero State, the one a missing row       *)
(* yields.  last_error is whether the stored message is not empty.  The    *)
(* created_at and updated_at columns are only ever displayed.              *)
(***************************************************************************)
EXTENDS Intent

CONSTANTS
    Subjects,  \* the subjects deliveries and operators may name
    Keys       \* the (source, id) pairs deliveries may carry

ASSUME SubjectsAssumption == Subjects \subseteq Nat \ {Blank}

VARIABLES
    intents,       \* Keys -> stored intent
    state,         \* Subjects -> reconciliation_state row
    subjectLock,   \* Subjects -> holder of the advisory lock, or Nobody
    identityLock   \* Keys -> holder of the advisory lock, or Nobody

Nobody == "nobody"

NoIntent == [source |-> Blank, id |-> Blank, subject |-> Blank,
             starts_at |-> ZeroTime, ends_at |-> ZeroTime, cancelled |-> FALSE]

ZeroState == [exists |-> FALSE, last_attempt_at |-> Null, last_success_at |-> Null,
              last_error |-> FALSE, next_transition_at |-> Null,
              next_retry_at |-> Null, retry_count |-> 0]

(* listIntents: every accepted intent of a subject, ended and cancelled too. *)
IntentsOf(s) == { intents[k] : k \in { j \in Keys : intents[j].subject = s } }

(* UpsertIntent's writes: the intent replaced, every affected subject due. *)
UpsertIntent(i, affected, at) ==
    /\ intents' = [intents EXCEPT ![Key(i)] = i]
    /\ state' = [s \in Subjects |->
                   IF s \in affected
                   THEN [state[s] EXCEPT !.exists = TRUE, !.next_retry_at = at]
                   ELSE state[s]]

recordSuccess(s, attemptedAt, nextTransition) ==
    state' = [state EXCEPT ![s] =
                [exists |-> TRUE, last_attempt_at |-> attemptedAt,
                 last_success_at |-> attemptedAt, last_error |-> FALSE,
                 next_transition_at |-> nextTransition,
                 next_retry_at |-> Null, retry_count |-> 0]]

recordFailure_NoCount(s, attemptedAt, nextTransition, nextRetry) ==
    state' = [state EXCEPT ![s] =
                [@ EXCEPT !.exists = TRUE, !.last_attempt_at = attemptedAt,
                          !.last_error = TRUE, !.next_transition_at = nextTransition,
                          !.next_retry_at = nextRetry]]

recordFailure_GivesUp(s, attemptedAt, nextTransition, nextRetry) ==
    state' = [state EXCEPT ![s] =
                [state[s] EXCEPT !.exists = TRUE, !.last_attempt_at = attemptedAt,
                                 !.last_error = TRUE, !.next_transition_at = nextTransition,
                                 !.next_retry_at = IF state[s].retry_count = 0 THEN nextRetry ELSE Null,
                                 !.retry_count = @ + 1]]

recordFailure(s, attemptedAt, nextTransition, nextRetry) ==
    state' = [state EXCEPT ![s] =
                [state[s] EXCEPT !.exists = TRUE, !.last_attempt_at = attemptedAt,
                                 !.last_error = TRUE, !.next_transition_at = nextTransition,
                                 !.next_retry_at = nextRetry, !.retry_count = @ + 1]]

(* A NULL column compares as false. *)
Reached(t, now) == t # Null /\ t <= now

ListSubjectsDue(now) ==
    { s \in Subjects : \/ IntentsOf(s) # {} /\ ~state[s].exists
                       \/ Reached(state[s].next_transition_at, now)
                       \/ Reached(state[s].next_retry_at, now) }

CollectMetrics_InclusiveEnd(now) ==
    LET stored == { k \in Keys : intents[k] # NoIntent }
        uncancelled == { k \in stored : ~intents[k].cancelled }
    IN  [pending |-> Cardinality({ k \in uncancelled : now < intents[k].starts_at }),
         active |-> Cardinality({ k \in uncancelled :
                        intents[k].starts_at <= now /\ now <= intents[k].ends_at }),
         ended |-> Cardinality({ k \in uncancelled : intents[k].ends_at < now }),
         cancelled |-> Cardinality(stored \ uncancelled),
         failed |-> Cardinality({ s \in Subjects : state[s].last_error }),
         due |-> Cardinality({ s \in Subjects : IntentsOf(s) # {} /\ ~state[s].exists }
                             \cup { s \in Subjects : \/ Reached(state[s].next_transition_at, now)
                                                     \/ Reached(state[s].next_retry_at, now) })]

(* The gauges, in one query that states the window's boundaries and the    *)
(* conditions of ListSubjectsDue once more.                                *)
CollectMetrics(now) ==
    LET stored == { k \in Keys : intents[k] # NoIntent }
        uncancelled == { k \in stored : ~intents[k].cancelled }
    IN  [pending |-> Cardinality({ k \in uncancelled : now < intents[k].starts_at }),
         active |-> Cardinality({ k \in uncancelled :
                        intents[k].starts_at <= now /\ now < intents[k].ends_at }),
         ended |-> Cardinality({ k \in uncancelled : intents[k].ends_at <= now }),
         cancelled |-> Cardinality(stored \ uncancelled),
         failed |-> Cardinality({ s \in Subjects : state[s].last_error }),
         due |-> Cardinality({ s \in Subjects : IntentsOf(s) # {} /\ ~state[s].exists }
                             \cup { s \in Subjects : \/ Reached(state[s].next_transition_at, now)
                                                     \/ Reached(state[s].next_retry_at, now) })]

StoreInit ==
    /\ intents = [k \in Keys |-> NoIntent]
    /\ state = [s \in Subjects |-> ZeroState]
    /\ subjectLock = [s \in Subjects |-> Nobody]
    /\ identityLock = [k \in Keys |-> Nobody]
=============================================================================
