-------------------------------- MODULE Pool --------------------------------
(***************************************************************************)
(* The connections of internal/store: each process has a pool of a bounded *)
(* number of them, PostgreSQL keeps advisory locks per connection, and the *)
(* lock of a name is found by a hash, so that two names may share one.     *)
(*                                                                         *)
(* The users of a connection are sessions (LockSubject to Close), webhook  *)
(* requests (the transaction of UpsertIntent) and queries (the readiness   *)
(* probe, the metrics scrape and the listings of the loop).  What they     *)
(* read and write is the subject of module Reconcile.                      *)
(***************************************************************************)
EXTENDS Integers, Sequences, FiniteSetsExt

CONSTANTS
    Processes,   \* a `run' and an `apply', each with a pool of its own
    MaxConns,    \* process -> database.max_connections
    Conns,       \* process -> its connections; bound: those being closed are among them
    Sessions,    \* users that lock a subject: the loop, an `apply'
    Webhooks,    \* users that are webhook requests
    Queries,     \* users that run one query with a deadline
    ProcessOf,   \* user -> process
    Subjects,    \* subjects, in string order
    Moves,       \* bodies of webhooks: the identity, and the subjects it affects
    Hash         \* hashtext: subject or identity -> key of an advisory lock

Users == Sessions \cup Webhooks \cup Queries
AllConns == UNION { Conns[p] : p \in Processes }
LockKeys == { Hash[x] : x \in DOMAIN Hash }
None == "none"

(* A delivery affects the subject it names and at most one that it leaves. *)
ASSUME PoolAssumption ==
    /\ Subjects \subseteq Nat /\ Subjects \subseteq DOMAIN Hash
    /\ None \notin AllConns
    /\ Sessions \cap Webhooks = {} /\ Queries \cap (Sessions \cup Webhooks) = {}
    /\ ProcessOf \in [Users -> Processes]
    /\ \A p \in Processes :
          /\ IsFiniteSet(Conns[p]) /\ MaxConns[p] \in 1..Cardinality(Conns[p])
          /\ \A q \in Processes \ {p} : Conns[p] \cap Conns[q] = {}
    /\ \A m \in Moves : /\ m.identity \in DOMAIN Hash
                        /\ \E s, t \in Subjects : m.affected = {s, t}

VARIABLES
    status,  \* connection -> "closed", "idle", "used", or "dropped": given up by its
             \* pool, its end not yet seen by PostgreSQL
    held,    \* connection -> key -> how often its session holds the lock
    user,    \* user -> its progress
    answers  \* whether Graph answers every request: its client has no time limit

moving == <<status, held, user>>
vars == <<moving, answers>>

Idle == [pc |-> "idle", conn |-> None, subjects |-> {}, todo |-> <<>>]

Free == [k \in LockKeys |-> 0]

Init ==
    /\ status = [c \in AllConns |-> "closed"]
    /\ held = [c \in AllConns |-> Free]
    /\ user = [u \in Users |-> Idle]
    /\ answers \in BOOLEAN

-----------------------------------------------------------------------------
(* pgxpool and PostgreSQL, external *)

(* The connections the pool of a process may hand out: an idle one, or a   *)
(* new one while it has fewer than its maximum.                            *)
Available(p) ==
    LET idle == { c \in Conns[p] : status[c] = "idle" }
        open == { c \in Conns[p] : status[c] \in {"idle", "used"} }
    IN  IF idle # {} THEN idle
        ELSE IF Cardinality(open) < MaxConns[p] THEN { c \in Conns[p] : status[c] = "closed" }
        ELSE {}

(* Every advisory lock can be taken again by the session that has it. *)
Grantable(c, k) == \A d \in AllConns \ {c} : held[d][k] = 0

(* PostgreSQL sees the end of a connection and drops its locks. *)
SessionEnds(c) ==
    /\ status[c] = "dropped"
    /\ status' = [status EXCEPT ![c] = "closed"]
    /\ held' = [held EXCEPT ![c] = Free]
    /\ UNCHANGED user

Waiting(u) == user[u].pc = "lock" /\ user[u].todo # <<>>

BlockedBy(u, v) ==
    Waiting(u) /\ user[v].conn # None /\ u # v /\ held[user[v].conn][Head(user[u].todo)] > 0

(* Users that wait for one another in circles; one that only waits for     *)
(* such a user is not among them.                                          *)
Deadlocked(S) == S # {} /\ \A u \in S : \E v, w \in S : BlockedBy(u, v) /\ BlockedBy(w, u)

-----------------------------------------------------------------------------
(* Getting a connection *)

Entered(subjects, keys) ==
    [pc |-> "acquire", conn |-> None, subjects |-> subjects, todo |-> keys]

Enter(u, subjects, keys) ==
    /\ user[u].pc = "idle"
    /\ user' = [user EXCEPT ![u] = Entered(subjects, keys)]
    /\ UNCHANGED <<status, held>>

BeginSession(u, s) == Enter(u, {s}, <<Hash[s]>>)

uniqueSubjects_Unlocked(m) == <<>>

(* The keys of the affected subjects, in the order of their names. *)
uniqueSubjects(m) ==
    LET first == Min(m.affected)
        last == Max(m.affected)
    IN  IF first = last THEN <<Hash[first]>> ELSE <<Hash[first], Hash[last]>>

BeginWebhook(u, m) == Enter(u, m.affected, <<Hash[m.identity]>> \o uniqueSubjects(m))

BeginQuery(u) == Enter(u, {}, <<>>)

Acquire(u) ==
    /\ user[u].pc = "acquire"
    /\ \E c \in Available(ProcessOf[u]) :
          /\ status' = [status EXCEPT ![c] = "used"]
          /\ user' = [user EXCEPT ![u].pc = IF u \in Queries THEN "query" ELSE "lock",
                                  ![u].conn = c]
    /\ UNCHANGED held

(* A request whose client has gone, a query whose deadline is over. *)
GiveUp(u) ==
    /\ user[u].pc = "acquire"
    /\ user' = [user EXCEPT ![u] = Idle]
    /\ UNCHANGED <<status, held>>

(* The connection goes back to its pool, or is closed. *)
Leave(u, fate, locks) ==
    /\ status' = [status EXCEPT ![user[u].conn] = fate]
    /\ held' = [held EXCEPT ![user[u].conn] = locks]
    /\ user' = [user EXCEPT ![u] = Idle]

EndQuery(u) ==
    /\ user[u].pc = "query"
    /\ Leave(u, "idle", held[user[u].conn])

(* The deadline of a query in progress closes its connection. *)
EndQueryLate(u) ==
    /\ user[u].pc = "query"
    /\ Leave(u, "dropped", held[user[u].conn])

-----------------------------------------------------------------------------
(* Locks *)

TakeLock(u) ==
    /\ Waiting(u)
    /\ Grantable(user[u].conn, Head(user[u].todo))
    /\ held' = [held EXCEPT ![user[u].conn][Head(user[u].todo)] = @ + 1]
    /\ user' = [user EXCEPT ![u].todo = Tail(@)]
    /\ UNCHANGED status

(* LockSubject is cancelled, or refused by the deadlock detector: the      *)
(* connection is discarded whatever the server made of the request.        *)
LockSubjectFails(u) ==
    /\ Waiting(u) /\ u \in Sessions
    /\ Leave(u, "dropped", held[user[u].conn])

GetState_ThroughPool(u) ==
    /\ user[u].pc = "lock" /\ user[u].todo = <<>> /\ u \in Sessions
    /\ Available(ProcessOf[u]) # {}
    /\ user' = [user EXCEPT ![u].pc = "work"]
    /\ UNCHANGED <<status, held>>

(* The statements of a session use the connection that holds its lock. *)
GetState(u) ==
    /\ user[u].pc = "lock" /\ user[u].todo = <<>> /\ u \in Sessions
    /\ user' = [user EXCEPT ![u].pc = "work"]
    /\ UNCHANGED <<status, held>>

(* The directory answers and the outcome is stored, or something fails. *)
EndWork(u) ==
    /\ user[u].pc = "work"
    /\ user' = [user EXCEPT ![u].pc = "close"]
    /\ UNCHANGED <<status, held>>

Unlocked(u) ==
    LET c == user[u].conn
    IN  [k \in LockKeys |-> IF k \in { Hash[s] : s \in user[u].subjects }
                            THEN held[c][k] - 1 ELSE held[c][k]]

Close_ReleasesAnyway(u) ==
    /\ user[u].pc = "close"
    /\ \E unlocked \in BOOLEAN :
          Leave(u, "idle", IF unlocked THEN Unlocked(u) ELSE held[user[u].conn])

(* Unlocked and released; or, with no answer to the unlocking, discarded. *)
Close(u) ==
    /\ user[u].pc = "close"
    /\ \/ Leave(u, "idle", Unlocked(u))
       \/ Leave(u, "dropped", held[user[u].conn])

(* The transaction's locks end with it. *)
Commit(u) ==
    /\ user[u].pc = "lock" /\ user[u].todo = <<>> /\ u \in Webhooks
    /\ Leave(u, "idle", Free)

(* After an error or a cancelled request: rolled back, or closed when that *)
(* fails.                                                                  *)
Rollback(u) ==
    /\ user[u].pc = "lock" /\ u \in Webhooks
    /\ Leave(u, "idle", Free) \/ Leave(u, "dropped", held[user[u].conn])

(* The deadlock detector refuses the lock one of the users waits for. *)
Detect ==
    \E S \in SUBSET Users : Deadlocked(S) /\ \E u \in S : LockSubjectFails(u) \/ Rollback(u)

-----------------------------------------------------------------------------

Step(u) == GetState(u) \/ Close(u) \/ Commit(u) \/ EndQuery(u)

PoolStep ==
    \/ \E u \in Sessions, s \in Subjects : BeginSession(u, s)
    \/ \E u \in Webhooks, m \in Moves : BeginWebhook(u, m)
    \/ \E u \in Queries : BeginQuery(u)
    \/ \E u \in Users : Acquire(u) \/ GiveUp(u) \/ TakeLock(u) \/ Step(u) \/ EndWork(u)
    \/ \E u \in Sessions : LockSubjectFails(u)
    \/ \E u \in Webhooks : Rollback(u)
    \/ \E u \in Queries : EndQueryLate(u)
    \/ Detect
    \/ \E c \in AllConns : SessionEnds(c)

Next == PoolStep /\ UNCHANGED answers

(* Goroutines go on; pgxpool and PostgreSQL serve their queues in order;   *)
(* the deadline of a query passes; the detector looks at every wait; a     *)
(* request to Graph ends where Graph answers.                              *)
Fairness ==
    /\ \A u \in Users : WF_moving(Step(u)) /\ SF_moving(Acquire(u)) /\ SF_moving(TakeLock(u))
    /\ \A u \in Queries : WF_moving(GiveUp(u)) /\ WF_moving(EndQueryLate(u))
    /\ \A c \in AllConns : WF_moving(SessionEnds(c))
    /\ WF_moving(Detect)
    /\ \A u \in Sessions : WF_moving(answers /\ EndWork(u))

Spec == Init /\ [][Next]_vars /\ Fairness

-----------------------------------------------------------------------------
(* Properties *)

TypeOK ==
    /\ status \in [AllConns -> {"closed", "idle", "used", "dropped"}]
    /\ held \in [AllConns -> [LockKeys -> Nat]]
    /\ user \in [Users -> [pc : {"idle", "acquire", "query", "lock", "work", "close"},
                           conn : AllConns \cup {None},
                           subjects : SUBSET Subjects,
                           todo : Seq(LockKeys)]]
    /\ answers \in BOOLEAN

(* Nothing is lost through a pool: it is never above its maximum, a        *)
(* connection in use has exactly one user, who is in its process, and a    *)
(* connection back in its pool carries no lock into its next use, however  *)
(* the last use of it ended.                                               *)
PoolIsSound ==
    /\ TypeOK
    /\ \A p \in Processes :
        /\ Cardinality({ c \in Conns[p] : status[c] \in {"idle", "used"} }) <= MaxConns[p]
        /\ \A c \in Conns[p] :
            /\ status[c] = "used" <=> \E u \in Users : user[u].conn = c
            /\ \A u, v \in Users :
                  user[u].conn = c /\ user[v].conn = c => u = v /\ ProcessOf[u] = p
            /\ status[c] \in {"idle", "closed"} => held[c] = Free

HasLocks(u) ==
    \/ user[u].pc \in {"work", "close"}
    \/ u \in Sessions \cup Webhooks /\ user[u].pc = "lock" /\ user[u].todo = <<>>

(* No two users are past the locks of one subject, over both processes,    *)
(* with shared keys, and with connections PostgreSQL still counts alive    *)
(* after their pool gave them up.                                          *)
Exclusive ==
    \A u, v \in Users : u # v /\ HasLocks(u) /\ HasLocks(v) =>
        user[u].subjects \cap user[v].subjects = {}

(* As long as Graph answers, every session, request and query comes to its *)
(* end, with fewer connections than users and with keys whose sharing      *)
(* defeats the lock order: nobody who holds a connection needs a second.   *)
(* A probe and a scrape end also while a Graph request hangs and every     *)
(* connection is taken by those who wait for its subject.                  *)
EveryoneEnds ==
    \A u \in Users : (answers \/ u \in Queries) /\ user[u].pc # "idle" ~> user[u].pc = "idle"
=============================================================================
