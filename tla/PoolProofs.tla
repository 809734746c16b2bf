----------------------------- MODULE PoolProofs -----------------------------
(***************************************************************************)
(* Proofs of the safety properties of Pool for any processes, pool sizes,  *)
(* users and deliveries, and for any hash of the locks' names.             *)
(***************************************************************************)
EXTENDS Pool, NumberLemmas, FiniteSetTheorems

-----------------------------------------------------------------------------
(* The invariant *)

UserStates == [pc : {"idle", "acquire", "query", "lock", "work", "close"},
               conn : AllConns \cup {None}, subjects : SUBSET Subjects, todo : Seq(LockKeys)]

(* One key held once. *)
Only(k) == [j \in LockKeys |-> IF j = k THEN 1 ELSE 0]

(* A session has the key of its one subject still to take, or holds it.    *)
SessionHolds(u, s) ==
    /\ user[u].subjects = {s}
    /\ \/ /\ user[u].todo = <<Hash[s]>> /\ user[u].pc \in {"acquire", "lock"}
          /\ user[u].pc = "lock" => held[user[u].conn] = Free
       \/ /\ user[u].todo = <<>> /\ user[u].pc \in {"lock", "work", "close"}
          /\ held[user[u].conn] = Only(Hash[s])

(* What a user has, at the place where it is. *)
Progress(u) ==
    /\ user[u].pc \in {"idle", "acquire"} <=> user[u].conn = None
    /\ user[u].conn # None => user[u].conn \in Conns[ProcessOf[u]]
    /\ u \in Queries =>
        /\ user[u].pc \in {"idle", "acquire", "query"} /\ user[u].subjects = {}
        /\ user[u].pc = "query" => held[user[u].conn] = Free
    /\ u \in Sessions => (user[u].pc # "idle" => \E s \in Subjects : SessionHolds(u, s))
    /\ u \in Webhooks =>
        /\ user[u].pc \in {"idle", "acquire", "lock"}
        /\ \A s \in user[u].subjects :
              \/ \E i \in 1..Len(user[u].todo) : user[u].todo[i] = Hash[s]
              \/ user[u].pc = "lock" /\ held[user[u].conn][Hash[s]] > 0

(* A connection in use has one user. *)
ConnsOwned ==
    /\ \A u \in Users : user[u].conn # None => status[user[u].conn] = "used"
    /\ \A u, v \in Users : u # v /\ user[u].conn # None => user[u].conn # user[v].conn
    /\ \A c \in AllConns : status[c] = "used" => \E u \in Users : user[u].conn = c

(* A connection in its pool, or not yet made, holds nothing. *)
RestingFree == \A c \in AllConns : status[c] \in {"idle", "closed"} => held[c] = Free

(* PostgreSQL grants a key to one session at a time. *)
GrantedOnce ==
    \A c, d \in AllConns : \A k \in LockKeys : c # d /\ held[c][k] > 0 => held[d][k] = 0

Open(p) == { c \in Conns[p] : status[c] \in {"idle", "used"} }

WithinMaximum == \A p \in Processes : Cardinality(Open(p)) <= MaxConns[p]

PoolInv ==
    /\ TypeOK /\ ConnsOwned /\ RestingFree /\ GrantedOnce /\ WithinMaximum
    /\ \A u \in Users : Progress(u)

-----------------------------------------------------------------------------
(* Facts about the operators *)

(* Subjects have keys. *)
LEMMA HashTyped == \A s \in Subjects : Hash[s] \in LockKeys
BY PoolAssumption DEF LockKeys

(* A delivery takes the key of every subject it affects. *)
LEMMA AllSubjectsLocked ==
    ASSUME NEW m \in Moves
    PROVE  /\ m.affected \in SUBSET Subjects
           /\ uniqueSubjects(m) \in Seq(LockKeys)
           /\ \A s \in m.affected : \E i \in 1..Len(uniqueSubjects(m)) : uniqueSubjects(m)[i] = Hash[s]
<1>1. PICK s \in Subjects, t \in Subjects : m.affected = {s, t}
    BY PoolAssumption
<1>2. s \in Nat /\ t \in Nat
    BY PoolAssumption
<1>3. /\ Min(m.affected) = IF s <= t THEN s ELSE t
      /\ Max(m.affected) = IF s <= t THEN t ELSE s
    BY <1>1, <1>2, MinOfTwo, MaxOfTwo
<1>4. uniqueSubjects(m) = IF s = t THEN <<Hash[s]>>
                          ELSE IF s <= t THEN <<Hash[s], Hash[t]>> ELSE <<Hash[t], Hash[s]>>
    BY <1>2, <1>3 DEF uniqueSubjects
<1>5. Hash[s] \in LockKeys /\ Hash[t] \in LockKeys
    BY HashTyped
<1>6. CASE s = t
    BY <1>1, <1>4, <1>5, <1>6
<1>7. CASE s # t
    BY <1>1, <1>4, <1>5, <1>7
<1> QED
    BY <1>6, <1>7

(* Free and Only are records of held locks. *)
LEMMA HeldTyped ==
    /\ Free \in [LockKeys -> Nat] /\ \A k \in LockKeys : Only(k) \in [LockKeys -> Nat]
BY DEF Free, Only

(* The record of a user that begins. *)
LEMMA Beginning ==
    ASSUME NEW subjects \in SUBSET Subjects, NEW keys \in Seq(LockKeys)
    PROVE  LET next == Entered(subjects, keys)
           IN  /\ next \in UserStates /\ next.pc = "acquire" /\ next.conn = None
               /\ next.subjects = subjects /\ next.todo = keys
BY DEF Entered, UserStates

(* A user whose own record and whose connection's locks stay is where it was. *)
LEMMA ProgressFrame ==
    ASSUME NEW v \in Users, Progress(v), user'[v] = user[v],
           user[v].conn # None => held'[user[v].conn] = held[user[v].conn]
    PROVE  Progress(v)'
<1>1. \A s : SessionHolds(v, s) /\ user[v].conn # None => SessionHolds(v, s)'
    BY DEF SessionHolds
<1>2. \A s : SessionHolds(v, s) /\ user[v].conn = None /\ user[v].pc = "acquire" => SessionHolds(v, s)'
    BY DEF SessionHolds
<1> QED
    BY <1>1, <1>2 DEF Progress

(* A pool that opens nothing stays within its maximum. *)
LEMMA OpensNothing ==
    ASSUME WithinMaximum,
           \A c \in AllConns : status'[c] \in {"idle", "used"} => status[c] \in {"idle", "used"}
    PROVE  WithinMaximum'
<1> SUFFICES ASSUME NEW p \in Processes
             PROVE  Cardinality(Open(p)') <= MaxConns[p]
    BY DEF WithinMaximum
<1>1. Open(p)' \subseteq Open(p) /\ Open(p) \subseteq Conns[p]
    BY DEF Open, AllConns
<1>2. IsFiniteSet(Conns[p]) /\ MaxConns[p] \in Int
    BY PoolAssumption
<1>3. IsFiniteSet(Open(p)) /\ IsFiniteSet(Open(p)')
    BY <1>1, <1>2, FS_Subset
<1>4. Cardinality(Open(p)') <= Cardinality(Open(p))
    BY <1>1, <1>3, FS_Subset
<1>5. Cardinality(Open(p)') \in Nat /\ Cardinality(Open(p)) \in Nat
    BY <1>3, FS_CardinalityType
<1> QED
    BY <1>2, <1>4, <1>5 DEF WithinMaximum

-----------------------------------------------------------------------------
(* Steps *)

(* A step of one user that leaves the connections and their locks alone. *)
LEMMA QuietStep ==
    ASSUME PoolInv, NEW u \in Users, NEW next \in UserStates, user' = [user EXCEPT ![u] = next],
           UNCHANGED <<status, held, answers>>, next.conn = user[u].conn, Progress(u)'
    PROVE  PoolInv'
<1>1. /\ user \in [Users -> UserStates] /\ user' \in [Users -> UserStates] /\ user'[u] = next
      /\ \A v \in Users \ {u} : user'[v] = user[v]
    BY DEF PoolInv, TypeOK, UserStates
<1>2. \A v \in Users : user'[v].conn = user[v].conn
    BY <1>1
<1>3. TypeOK'
    BY <1>1 DEF PoolInv, TypeOK, UserStates
<1>4. ConnsOwned'
    BY <1>2 DEF PoolInv, ConnsOwned
<1>5. RestingFree' /\ GrantedOnce' /\ WithinMaximum'
    BY DEF PoolInv, RestingFree, GrantedOnce, WithinMaximum, Open
<1>6. \A v \in Users \ {u} : Progress(v)'
    BY <1>1, ProgressFrame DEF PoolInv
<1> QED
    BY <1>3, <1>4, <1>5, <1>6 DEF PoolInv

(* A user leaves its connection to the pool with nothing held, or to the   *)
(* server with whatever it holds.                                          *)
LEMMA LeaveStep ==
    ASSUME PoolInv, NEW u \in Users, user[u].conn # None, UNCHANGED answers,
           \/ Leave(u, "idle", Free)
           \/ Leave(u, "dropped", held[user[u].conn])
    PROVE  PoolInv'
<1> DEFINE c == user[u].conn
<1>0. /\ user \in [Users -> UserStates] /\ held \in [AllConns -> [LockKeys -> Nat]]
      /\ status \in [AllConns -> {"closed", "idle", "used", "dropped"}]
      /\ c \in AllConns
    BY DEF PoolInv, TypeOK, UserStates
<1>1. Idle \in UserStates /\ Idle.conn = None /\ Idle.pc = "idle" /\ Idle.subjects = {}
    BY DEF Idle, UserStates
<1>2. /\ user' \in [Users -> UserStates] /\ user'[u] = Idle
      /\ \A v \in Users \ {u} : user'[v] = user[v]
    BY <1>0, <1>1 DEF Leave
<1>3. /\ status'[c] \in {"idle", "dropped"} /\ \A d \in AllConns \ {c} : status'[d] = status[d]
      /\ status' \in [AllConns -> {"closed", "idle", "used", "dropped"}]
    BY <1>0 DEF Leave
<1>4. /\ held'[c] = Free \/ (status'[c] = "dropped" /\ held'[c] = held[c])
      /\ \A d \in AllConns \ {c} : held'[d] = held[d]
      /\ held' \in [AllConns -> [LockKeys -> Nat]]
    BY <1>0, HeldTyped DEF Leave
<1> HIDE DEF c
<1>5. \A v \in Users \ {u} : user[v].conn # c
    BY DEF PoolInv, ConnsOwned, c
<1>6. TypeOK'
    BY <1>2, <1>3, <1>4 DEF PoolInv, TypeOK, UserStates
<1>7. ConnsOwned'
    <2>1. \A v \in Users : user'[v].conn # None =>
             v # u /\ user[v].conn \in AllConns \ {c} /\ user'[v].conn = user[v].conn
        BY <1>0, <1>1, <1>2, <1>5 DEF UserStates
    <2>2. \A d \in AllConns : status'[d] = "used" => d # c /\ status[d] = "used"
        BY <1>3
    <2>3. \A v \in Users : user'[v].conn # None => status'[user'[v].conn] = "used"
        BY <1>3, <2>1 DEF PoolInv, ConnsOwned
    <2>4. \A v, w \in Users : v # w /\ user'[v].conn # None => user'[v].conn # user'[w].conn
        BY <1>1, <1>2, <2>1 DEF PoolInv, ConnsOwned
    <2>5. \A d \in AllConns : status'[d] = "used" => \E v \in Users : user'[v].conn = d
        BY <1>2, <2>2 DEF PoolInv, ConnsOwned, c
    <2> QED
        BY <2>3, <2>4, <2>5 DEF ConnsOwned
<1>8. RestingFree'
    BY <1>3, <1>4 DEF PoolInv, RestingFree
<1>9. GrantedOnce'
    <2>1. \A d \in AllConns, k \in LockKeys : held'[d][k] = 0 \/ held'[d][k] = held[d][k]
        BY <1>4 DEF Free
    <2>2. \A d \in AllConns, k \in LockKeys : held[d][k] \in Nat
        BY <1>0
    <2> QED
        BY <2>1, <2>2 DEF PoolInv, GrantedOnce
<1>10. WithinMaximum'
    <2>1. status[c] = "used"
        BY DEF PoolInv, ConnsOwned, c
    <2> QED
        BY <1>3, <2>1, OpensNothing DEF PoolInv
<1>11. ASSUME NEW v \in Users \ {u}
       PROVE  Progress(v)'
    <2>1. user[v].conn # None => user[v].conn \in AllConns \ {c}
        BY <1>0, <1>5 DEF UserStates
    <2> QED
        BY <1>2, <1>4, <2>1, ProgressFrame DEF PoolInv
<1>12. Progress(u)'
    BY <1>1, <1>2 DEF Progress
<1> QED
    BY <1>6, <1>7, <1>8, <1>9, <1>10, <1>11, <1>12 DEF PoolInv

(* A user gets a connection that nobody uses and that holds nothing. *)
LEMMA AcquireStep ==
    ASSUME PoolInv, NEW u \in Users, Acquire(u), UNCHANGED answers
    PROVE  PoolInv'
<1> DEFINE p == ProcessOf[u]
<1>0. /\ user \in [Users -> UserStates] /\ held \in [AllConns -> [LockKeys -> Nat]]
      /\ status \in [AllConns -> {"closed", "idle", "used", "dropped"}]
      /\ p \in Processes
    BY PoolAssumption DEF PoolInv, TypeOK, UserStates
<1>1. PICK c \in Available(p) :
         /\ status' = [status EXCEPT ![c] = "used"]
         /\ user' = [user EXCEPT ![u].pc = IF u \in Queries THEN "query" ELSE "lock",
                                 ![u].conn = c]
    BY DEF Acquire
<1>2. /\ c \in Conns[p] /\ c \in AllConns
      /\ status[c] = "idle" \/ (status[c] = "closed" /\ Cardinality(Open(p)) < MaxConns[p])
    BY <1>0, <1>1 DEF Available, Open, AllConns
<1> HIDE DEF p
<1>3. /\ user[u].pc = "acquire" /\ user[u].conn = None /\ Progress(u) /\ UNCHANGED held
    BY DEF Acquire, PoolInv, Progress
<1>4. c # None /\ held[c] = Free /\ \A v \in Users : user[v].conn # c
    BY <1>2, PoolAssumption DEF PoolInv, RestingFree, ConnsOwned
<1>5. /\ user'[u].pc = IF u \in Queries THEN "query" ELSE "lock"
      /\ user'[u].conn = c
      /\ user'[u].subjects = user[u].subjects /\ user'[u].todo = user[u].todo
      /\ \A v \in Users \ {u} : user'[v] = user[v]
      /\ user' \in [Users -> UserStates]
    <2> DEFINE label == IF u \in Queries THEN "query" ELSE "lock"
    <2>1. label \in {"query", "lock"} /\ user' = [user EXCEPT ![u].pc = label, ![u].conn = c]
        BY <1>1
    <2>2. user'[u].pc = label
        BY <1>0, <2>1 DEF UserStates
    <2> HIDE DEF label
    <2> DEFINE new == [user[u] EXCEPT !.pc = label, !.conn = c]
    <2>3. user[u] \in UserStates
        BY <1>0
    <2>4. /\ new \in UserStates /\ new.conn = c
          /\ new.subjects = user[u].subjects /\ new.todo = user[u].todo
        BY <1>2, <2>1, <2>3 DEF UserStates
    <2>5. user' = [user EXCEPT ![u] = new]
        BY <2>1
    <2> HIDE DEF new
    <2>6. user'[u] = new /\ \A v \in Users \ {u} : user'[v] = user[v]
        BY <1>0, <2>5
    <2>7. user' \in [Users -> UserStates]
        BY <1>0, <2>4, <2>5
    <2> QED
        BY <2>2, <2>4, <2>6, <2>7 DEF label
<1>6. /\ status'[c] = "used" /\ \A d \in AllConns \ {c} : status'[d] = status[d]
      /\ status' \in [AllConns -> {"closed", "idle", "used", "dropped"}]
    BY <1>0, <1>1, <1>2
<1>7. TypeOK'
    BY <1>3, <1>5, <1>6 DEF PoolInv, TypeOK, UserStates
<1>8. ConnsOwned'
    <2>1. \A v \in Users \ {u} : user'[v].conn # None =>
             user[v].conn \in AllConns \ {c} /\ user'[v].conn = user[v].conn
        BY <1>0, <1>4, <1>5 DEF UserStates
    <2>2. \A v \in Users : user'[v].conn # None => status'[user'[v].conn] = "used"
        BY <1>5, <1>6, <2>1 DEF PoolInv, ConnsOwned
    <2>3. \A v, w \in Users : v # w /\ user'[v].conn # None => user'[v].conn # user'[w].conn
        BY <1>4, <1>5 DEF PoolInv, ConnsOwned
    <2>4. \A d \in AllConns : status'[d] = "used" => \E v \in Users : user'[v].conn = d
        <3>1. ASSUME NEW d \in AllConns \ {c}, status'[d] = "used"
              PROVE  \E v \in Users : user'[v].conn = d
            <4>1. PICK v \in Users : user[v].conn = d
                BY <1>6, <3>1 DEF PoolInv, ConnsOwned
            <4>2. v # u
                BY <1>3, <4>1, PoolAssumption
            <4> QED
                BY <1>5, <4>1, <4>2
        <3> QED
            BY <1>5, <3>1
    <2> QED
        BY <2>2, <2>3, <2>4 DEF ConnsOwned
<1>9. RestingFree' /\ GrantedOnce'
    BY <1>3, <1>6 DEF PoolInv, RestingFree, GrantedOnce
<1>10. WithinMaximum'
    <2>1. CASE status[c] = "idle"
        BY <1>6, <2>1, OpensNothing DEF PoolInv
    <2>2. CASE status[c] = "closed" /\ Cardinality(Open(p)) < MaxConns[p]
        <3>1. ASSUME NEW q \in Processes \ {p}
              PROVE  Open(q)' = Open(q)
            <4>1. c \notin Conns[q] /\ Conns[q] \subseteq AllConns
                BY <1>0, <1>2, PoolAssumption DEF AllConns
            <4> QED
                BY <1>6, <4>1 DEF Open
        <3>2. Open(p)' = Open(p) \cup {c} /\ c \notin Open(p) /\ Conns[p] \subseteq AllConns
            BY <1>0, <1>2, <1>6, <2>2 DEF Open, AllConns
        <3>3. IsFiniteSet(Conns[p]) /\ MaxConns[p] \in Int
            BY <1>0, PoolAssumption
        <3>4. IsFiniteSet(Open(p))
            BY <3>3, FS_Subset DEF Open
        <3>5. Cardinality(Open(p)') = Cardinality(Open(p)) + 1 /\ Cardinality(Open(p)) \in Nat
            BY <3>2, <3>4, FS_AddElement, FS_CardinalityType
        <3>6. Cardinality(Open(p)') <= MaxConns[p]
            BY <2>2, <3>3, <3>5
        <3> QED
            BY <3>1, <3>6 DEF PoolInv, WithinMaximum
    <2> QED
        BY <1>2, <2>1, <2>2
<1>11. \A v \in Users \ {u} : Progress(v)'
    BY <1>3, <1>5, ProgressFrame DEF PoolInv
<1>12. Progress(u)'
    <2>1. u \in Sessions => \E s \in Subjects : SessionHolds(u, s)'
        <3>1. ASSUME NEW s \in Subjects, SessionHolds(u, s), u \in Sessions
              PROVE  SessionHolds(u, s)'
            <4>1. user[u].todo = <<Hash[s]>> /\ u \notin Queries
                BY <1>3, <3>1, PoolAssumption DEF SessionHolds
            <4> QED
                BY <1>3, <1>4, <1>5, <3>1, <4>1 DEF SessionHolds
        <3> QED
            BY <1>3, <3>1 DEF Progress
    <2>2. u \in Users /\ (u \in Queries => u \notin Sessions \cup Webhooks)
        BY PoolAssumption
    <2>3. user'[u].conn \in Conns[ProcessOf[u]] /\ user'[u].pc \in {"query", "lock"}
        BY <1>2, <1>5 DEF p
    <2>4. u \in Queries => user'[u].pc = "query" /\ user'[u].subjects = {} /\ held'[user'[u].conn] = Free
        BY <1>3, <1>4, <1>5 DEF Progress
    <2>5. u \in Webhooks => /\ user'[u].pc = "lock"
                            /\ \A s \in user'[u].subjects :
                                 \E i \in 1..Len(user'[u].todo) : user'[u].todo[i] = Hash[s]
        BY <1>3, <1>5, <2>2 DEF Progress
    <2> QED
        BY <1>4, <1>5, <2>1, <2>3, <2>4, <2>5 DEF Progress
<1> QED
    BY <1>7, <1>8, <1>9, <1>10, <1>11, <1>12 DEF PoolInv

(* A session or a webhook is granted the next of its keys. *)
LEMMA TakeStep ==
    ASSUME PoolInv, NEW u \in Users, TakeLock(u), UNCHANGED answers
    PROVE  PoolInv'
<1> DEFINE c == user[u].conn
           k == Head(user[u].todo)
<1>0. /\ user \in [Users -> UserStates] /\ user[u] \in UserStates
      /\ held \in [AllConns -> [LockKeys -> Nat]]
      /\ user[u].todo \in Seq(LockKeys)
    BY DEF PoolInv, TypeOK, UserStates
<1>1. /\ user[u].pc = "lock" /\ user[u].todo # <<>> /\ Progress(u)
      /\ UNCHANGED status
      /\ Grantable(c, k)
      /\ held' = [held EXCEPT ![c][k] = @ + 1]
      /\ user' = [user EXCEPT ![u].todo = Tail(@)]
    BY DEF PoolInv, TakeLock, Waiting
<1>2. k \in LockKeys /\ Tail(user[u].todo) \in Seq(LockKeys)
    BY <1>0, <1>1
<1>3. c \in AllConns /\ c # None
    BY <1>0, <1>1 DEF UserStates, Progress
<1>4. /\ user'[u].todo = Tail(user[u].todo) /\ user'[u].pc = "lock"
      /\ user'[u].conn = c /\ user'[u].subjects = user[u].subjects
      /\ \A v \in Users \ {u} : user'[v] = user[v]
      /\ \A v \in Users : user'[v].conn = user[v].conn
      /\ user' \in [Users -> UserStates]
    BY <1>0, <1>1, <1>2 DEF UserStates
<1> HIDE DEF c, k
<1>5. /\ held'[c][k] = held[c][k] + 1
      /\ \A j \in LockKeys \ {k} : held'[c][j] = held[c][j]
      /\ \A d \in AllConns \ {c} : held'[d] = held[d]
      /\ held' \in [AllConns -> [LockKeys -> Nat]]
    BY <1>0, <1>1, <1>2, <1>3
<1>6. TypeOK'
    BY <1>1, <1>4, <1>5 DEF PoolInv, TypeOK, UserStates
<1>7. ConnsOwned' /\ WithinMaximum'
    BY <1>1, <1>4 DEF PoolInv, ConnsOwned, WithinMaximum, Open
<1>8. status[c] = "used"
    BY <1>3 DEF PoolInv, ConnsOwned, c
<1>9. RestingFree'
    BY <1>1, <1>5, <1>8 DEF PoolInv, RestingFree
<1>10. GrantedOnce'
    <2>1. \A d \in AllConns \ {c} : held[d][k] = 0
        BY <1>1 DEF Grantable
    <2>2. ASSUME NEW d \in AllConns, NEW e \in AllConns, NEW j \in LockKeys, d # e, held'[d][j] > 0
          PROVE  held'[e][j] = 0
        <3>1. CASE j = k
            BY <1>5, <2>1, <2>2, <3>1
        <3>2. CASE j # k
            <4>1. held'[d][j] = held[d][j] /\ held'[e][j] = held[e][j]
                BY <1>5, <3>2
            <4> QED
                BY <2>2, <4>1 DEF PoolInv, GrantedOnce
        <3> QED
            BY <3>1, <3>2
    <2> QED
        BY <2>2 DEF GrantedOnce
<1>11. ASSUME NEW v \in Users \ {u}
       PROVE  Progress(v)'
    <2>1. user[v].conn # None => user[v].conn \in AllConns \ {c}
        BY <1>0, <1>3 DEF PoolInv, ConnsOwned, UserStates, c
    <2> QED
        BY <1>4, <1>5, <2>1, ProgressFrame DEF PoolInv
<1>12. Progress(u)'
    <2>1. u \in Sessions => \E s \in Subjects : SessionHolds(u, s)'
        <3>1. ASSUME NEW s \in Subjects, SessionHolds(u, s)
              PROVE  SessionHolds(u, s)'
            <4>1. user[u].todo = <<Hash[s]>> /\ held[c] = Free /\ Hash[s] \in LockKeys
                BY <1>1, <3>1, HashTyped DEF SessionHolds, c
            <4>2. k = Hash[s] /\ Tail(user[u].todo) = <<>>
                BY <4>1 DEF k
            <4>3. held'[c] = Only(Hash[s])
                BY <1>5, <1>3, <4>1, <4>2 DEF Free, Only
            <4> QED
                BY <1>4, <3>1, <4>2, <4>3 DEF SessionHolds
        <3> QED
            BY <1>1, <3>1 DEF Progress
    <2>2. ASSUME u \in Webhooks, NEW s \in user[u].subjects
          PROVE  \/ \E i \in 1..Len(user'[u].todo) : user'[u].todo[i] = Hash[s]
                 \/ held'[c][Hash[s]] > 0
        <3>1. Hash[s] \in LockKeys
            BY <1>0, HashTyped DEF UserStates
        <3>2. CASE held[c][Hash[s]] > 0
            <4>1. held[c][Hash[s]] \in Nat
                BY <1>0, <1>3, <3>1
            <4>2. held'[c][Hash[s]] \in {held[c][Hash[s]], held[c][Hash[s]] + 1}
                BY <1>5, <3>1
            <4> QED
                BY <3>2, <4>1, <4>2
        <3>3. ASSUME NEW i \in 1..Len(user[u].todo), user[u].todo[i] = Hash[s], i = 1
              PROVE  held'[c][Hash[s]] > 0
            BY <1>0, <1>2, <1>3, <1>5, <3>3 DEF k
        <3>4. ASSUME NEW i \in 1..Len(user[u].todo), user[u].todo[i] = Hash[s], i # 1
              PROVE  \E j \in 1..Len(user'[u].todo) : user'[u].todo[j] = Hash[s]
            <4>1. /\ i - 1 \in 1..Len(Tail(user[u].todo))
                  /\ Tail(user[u].todo)[i - 1] = user[u].todo[i]
                BY <1>0, <1>1, <3>4
            <4> QED
                BY <1>4, <3>4, <4>1
        <3>5. (\E i \in 1..Len(user[u].todo) : user[u].todo[i] = Hash[s]) \/ held[c][Hash[s]] > 0
            BY <1>1, <2>2 DEF Progress, c
        <3>6. ASSUME NEW i \in 1..Len(user[u].todo), user[u].todo[i] = Hash[s]
              PROVE  \/ \E j \in 1..Len(user'[u].todo) : user'[u].todo[j] = Hash[s]
                     \/ held'[c][Hash[s]] > 0
            <4>1. CASE i = 1
                BY <3>3, <3>6, <4>1
            <4>2. CASE i # 1
                BY <3>4, <3>6, <4>2
            <4> QED
                BY <4>1, <4>2
        <3> QED
            BY <3>2, <3>5, <3>6
    <2>3. u \notin Queries
        BY <1>1 DEF Progress
    <2> QED
        BY <1>1, <1>3, <1>4, <2>1, <2>2, <2>3 DEF Progress, c
<1> QED
    BY <1>6, <1>7, <1>9, <1>10, <1>11, <1>12 DEF PoolInv

(* PostgreSQL sees the end of a connection. *)
LEMMA EndStep ==
    ASSUME PoolInv, NEW c \in AllConns, SessionEnds(c), UNCHANGED answers
    PROVE  PoolInv'
<1>0. /\ held \in [AllConns -> [LockKeys -> Nat]]
      /\ status \in [AllConns -> {"closed", "idle", "used", "dropped"}]
    BY DEF PoolInv, TypeOK
<1>1. /\ status[c] = "dropped" /\ status'[c] = "closed"
      /\ \A d \in AllConns \ {c} : status'[d] = status[d] /\ held'[d] = held[d]
      /\ held'[c] = Free /\ UNCHANGED user
      /\ status' \in [AllConns -> {"closed", "idle", "used", "dropped"}]
      /\ held' \in [AllConns -> [LockKeys -> Nat]]
    BY <1>0, HeldTyped DEF SessionEnds
<1>2. \A v \in Users : user[v].conn # None => user[v].conn \in AllConns \ {c}
    BY <1>1 DEF PoolInv, TypeOK, ConnsOwned
<1>3. TypeOK'
    BY <1>1 DEF PoolInv, TypeOK
<1>4. ConnsOwned'
    BY <1>1, <1>2 DEF PoolInv, ConnsOwned
<1>5. RestingFree'
    BY <1>1 DEF PoolInv, RestingFree
<1>6. GrantedOnce'
    <2>1. \A k \in LockKeys : held'[c][k] = 0
        BY <1>1 DEF Free
    <2>2. \A d \in AllConns, k \in LockKeys : held[d][k] \in Nat
        BY <1>0
    <2> QED
        BY <1>1, <2>1, <2>2 DEF PoolInv, GrantedOnce
<1>7. WithinMaximum'
    BY <1>1, OpensNothing DEF PoolInv
<1>8. \A v \in Users : Progress(v)'
    BY <1>1, <1>2, ProgressFrame DEF PoolInv
<1> QED
    BY <1>3, <1>4, <1>5, <1>6, <1>7, <1>8 DEF PoolInv

(* One step of the processes and of PostgreSQL keeps the invariant. *)
LEMMA PoolInvStep == PoolInv /\ [Next]_vars => PoolInv'
<1> SUFFICES ASSUME PoolInv, [Next]_vars
             PROVE  PoolInv'
    OBVIOUS
<1>0. user \in [Users -> UserStates] /\ \A u \in Users : Progress(u)
    BY DEF PoolInv, TypeOK, UserStates
<1>k. Users = Sessions \cup Webhooks \cup Queries
    BY DEF Users
<1>e. ASSUME NEW u \in Users, NEW subjects \in SUBSET Subjects, NEW keys \in Seq(LockKeys),
             Enter(u, subjects, keys), UNCHANGED answers,
             u \in Queries => subjects = {},
             u \in Sessions => \E s \in Subjects : subjects = {s} /\ keys = <<Hash[s]>>,
             u \in Webhooks => \A s \in subjects : \E i \in 1..Len(keys) : keys[i] = Hash[s]
      PROVE  PoolInv'
    <2> DEFINE next == Entered(subjects, keys)
    <2>1. /\ next \in UserStates /\ next.pc = "acquire" /\ next.conn = None
          /\ next.subjects = subjects /\ next.todo = keys
        BY Beginning
    <2>2. /\ user' = [user EXCEPT ![u] = next] /\ user[u].pc = "idle"
          /\ UNCHANGED <<status, held, answers>>
        BY <1>e DEF Enter
    <2> HIDE DEF next
    <2>3. user'[u] = next /\ user[u].conn = None
        BY <1>0, <2>2 DEF Progress
    <2>4. u \in Sessions => \E s \in Subjects : SessionHolds(u, s)'
        BY <1>e, <2>1, <2>3 DEF SessionHolds
    <2>5. Progress(u)'
        BY <1>e, <2>1, <2>3, <2>4 DEF Progress
    <2> QED
        BY <2>1, <2>2, <2>3, <2>5, QuietStep
<1>1. ASSUME NEW u \in Sessions, NEW s \in Subjects, BeginSession(u, s), UNCHANGED answers
      PROVE  PoolInv'
    <2>1. {s} \in SUBSET Subjects /\ <<Hash[s]>> \in Seq(LockKeys)
        BY HashTyped
    <2>2. Enter(u, {s}, <<Hash[s]>>)
        BY <1>1 DEF BeginSession
    <2>3. u \in Users /\ u \notin Queries \cup Webhooks
        BY <1>k, PoolAssumption
    <2> QED
        BY <1>1, <1>e, <2>1, <2>2, <2>3
<1>2. ASSUME NEW u \in Webhooks, NEW m \in Moves, BeginWebhook(u, m), UNCHANGED answers
      PROVE  PoolInv'
    <2> DEFINE keys == <<Hash[m.identity]>> \o uniqueSubjects(m)
    <2>1. /\ Hash[m.identity] \in LockKeys /\ uniqueSubjects(m) \in Seq(LockKeys)
          /\ m.affected \in SUBSET Subjects
        BY PoolAssumption, AllSubjectsLocked DEF LockKeys
    <2>2. keys \in Seq(LockKeys)
        BY <2>1
    <2>3. \A s \in m.affected : \E i \in 1..Len(keys) : keys[i] = Hash[s]
        <3>1. ASSUME NEW s \in m.affected
              PROVE  \E i \in 1..Len(keys) : keys[i] = Hash[s]
            <4>1. PICK j \in 1..Len(uniqueSubjects(m)) : uniqueSubjects(m)[j] = Hash[s]
                BY AllSubjectsLocked
            <4>2. j + 1 \in 1..Len(keys) /\ keys[j + 1] = uniqueSubjects(m)[j]
                BY <2>1
            <4> QED
                BY <4>1, <4>2
        <3> QED
            BY <3>1
    <2>4. Enter(u, m.affected, keys)
        BY <1>2 DEF BeginWebhook
    <2> HIDE DEF keys
    <2>5. u \in Users /\ u \notin Queries \cup Sessions
        BY <1>k, PoolAssumption
    <2> QED
        BY <1>2, <1>e, <2>1, <2>2, <2>3, <2>4, <2>5
<1>3. ASSUME NEW u \in Queries, BeginQuery(u), UNCHANGED answers
      PROVE  PoolInv'
    <2>1. {} \in SUBSET Subjects /\ <<>> \in Seq(LockKeys)
        OBVIOUS
    <2>2. Enter(u, {}, <<>>)
        BY <1>3 DEF BeginQuery
    <2>3. u \in Users /\ u \notin Sessions \cup Webhooks
        BY <1>k, PoolAssumption
    <2> QED
        BY <1>3, <1>e, <2>1, <2>2, <2>3
<1>4. ASSUME NEW u \in Users, GiveUp(u), UNCHANGED answers
      PROVE  PoolInv'
    <2>1. Idle \in UserStates /\ Idle.pc = "idle" /\ Idle.conn = None /\ Idle.subjects = {}
        BY DEF Idle, UserStates
    <2>2. /\ user' = [user EXCEPT ![u] = Idle] /\ user[u].pc = "acquire"
          /\ UNCHANGED <<status, held, answers>>
        BY <1>4 DEF GiveUp
    <2>3. user'[u] = Idle /\ user[u].conn = None
        BY <1>0, <2>2 DEF Progress
    <2>4. Progress(u)'
        BY <2>1, <2>3 DEF Progress
    <2> QED
        BY <2>1, <2>2, <2>3, <2>4, QuietStep
<1>5. ASSUME NEW u \in Users, GetState(u) \/ EndWork(u), UNCHANGED answers
      PROVE  PoolInv'
    <2>1. PICK label \in {"work", "close"} : user' = [user EXCEPT ![u].pc = label]
        BY <1>5 DEF GetState, EndWork
    <2> DEFINE next == [user[u] EXCEPT !.pc = label]
    <2>2. /\ next \in UserStates /\ next.pc = label /\ next.conn = user[u].conn
          /\ next.subjects = user[u].subjects /\ next.todo = user[u].todo
        BY <1>0 DEF UserStates
    <2>3. user' = [user EXCEPT ![u] = next] /\ user'[u] = next
        BY <1>0, <2>1
    <2>4. /\ user[u].pc = "work" \/ (u \in Sessions /\ user[u].pc = "lock" /\ user[u].todo = <<>>)
          /\ UNCHANGED <<status, held, answers>>
        BY <1>5 DEF GetState, EndWork
    <2> HIDE DEF next
    <2>5. u \in Sessions /\ u \notin Queries \cup Webhooks /\ user[u].conn # None
        BY <1>0, <1>k, <2>4, PoolAssumption DEF Progress
    <2>6. PICK s \in Subjects : SessionHolds(u, s)
        BY <1>0, <2>4, <2>5 DEF Progress
    <2>7. /\ user[u].subjects = {s} /\ user[u].todo = <<>> /\ held[user[u].conn] = Only(Hash[s])
        BY <2>4, <2>6 DEF SessionHolds
    <2>8. SessionHolds(u, s)'
        BY <2>2, <2>3, <2>4, <2>7 DEF SessionHolds
    <2>9. Progress(u)'
        BY <1>0, <2>2, <2>3, <2>5, <2>8 DEF Progress
    <2> QED
        BY <2>2, <2>3, <2>4, <2>9, QuietStep
<1>6. ASSUME NEW u \in Users, UNCHANGED answers,
             Close(u) \/ Commit(u) \/ EndQuery(u) \/ LockSubjectFails(u) \/ Rollback(u)
                 \/ EndQueryLate(u)
      PROVE  PoolInv'
    <2>1. user[u].conn # None
        BY <1>0, <1>6 DEF Close, Commit, EndQuery, LockSubjectFails, Rollback, EndQueryLate,
           Waiting, Progress
    <2>a. Leave(u, "dropped", held[user[u].conn]) => PoolInv'
        BY <1>6, <2>1, LeaveStep
    <2>b. Leave(u, "idle", Free) => PoolInv'
        BY <1>6, <2>1, LeaveStep
    <2>2. CASE Leave(u, "dropped", held[user[u].conn]) \/ Leave(u, "idle", Free)
        BY <2>2, <2>a, <2>b
    <2>3. CASE EndQuery(u)
        <3>1. user[u].pc = "query" /\ Leave(u, "idle", held[user[u].conn])
            BY <2>3 DEF EndQuery
        <3>2. Progress(u) /\ u \notin Webhooks
            BY <1>0, <3>1 DEF Progress
        <3>3. u \notin Sessions
            BY <3>1, <3>2 DEF Progress, SessionHolds
        <3>4. held[user[u].conn] = Free
            BY <1>k, <3>1, <3>2, <3>3 DEF Progress
        <3> QED
            BY <2>2, <3>1, <3>4
    <2>4. CASE Close(u) /\ Leave(u, "idle", Unlocked(u))
        <3>1. user[u].pc = "close"
            BY <2>4 DEF Close
        <3>2. u \in Sessions
            BY <1>0, <1>k, <3>1 DEF Progress
        <3>3. PICK s \in Subjects : user[u].subjects = {s} /\ held[user[u].conn] = Only(Hash[s])
            BY <1>0, <3>1, <3>2 DEF Progress, SessionHolds
        <3>4. Unlocked(u) = Free
            BY <3>3 DEF Unlocked, Only, Free
        <3> QED
            BY <2>2, <2>4, <3>4
    <2>5. CASE Close(u)
        BY <2>2, <2>4, <2>5 DEF Close
    <2>6. CASE Commit(u)
        BY <2>2, <2>6 DEF Commit
    <2>7. CASE LockSubjectFails(u)
        BY <2>2, <2>7 DEF LockSubjectFails
    <2>8. CASE Rollback(u)
        BY <2>2, <2>8 DEF Rollback
    <2>9. CASE EndQueryLate(u)
        BY <2>2, <2>9 DEF EndQueryLate
    <2> QED
        BY <1>6, <2>3, <2>5, <2>6, <2>7, <2>8, <2>9
<1>7. CASE UNCHANGED vars
    <2>1. UNCHANGED <<status, held, user, answers>>
        BY <1>7 DEF vars, moving
    <2>2. \A v \in Users : Progress(v)'
        BY <1>0, <2>1, ProgressFrame
    <2>3. TypeOK' /\ ConnsOwned' /\ RestingFree'
        BY <2>1 DEF PoolInv, TypeOK, ConnsOwned, RestingFree
    <2>4. GrantedOnce'
        BY <2>1 DEF PoolInv, GrantedOnce
    <2>5. WithinMaximum'
        BY <2>1, OpensNothing DEF PoolInv
    <2> QED
        BY <2>2, <2>3, <2>4, <2>5 DEF PoolInv
<1>8. ASSUME Detect, UNCHANGED answers
      PROVE  PoolInv'
    <2>1. PICK u \in Users : LockSubjectFails(u) \/ Rollback(u)
        BY <1>8 DEF Detect
    <2> QED
        BY <1>6, <1>8, <2>1
<1> QED
    BY <1>k, <1>1, <1>2, <1>3, <1>4, <1>5, <1>6, <1>7, <1>8, AcquireStep, TakeStep, EndStep
    DEF Next, PoolStep, Step

(* The invariant holds in every behaviour. *)
LEMMA PoolHolds == Spec => []PoolInv
<1>1. Init => PoolInv
    <2> SUFFICES ASSUME Init
                 PROVE  PoolInv
        OBVIOUS
    <2>1. Idle \in UserStates /\ Idle.pc = "idle" /\ Idle.conn = None /\ Idle.subjects = {}
        BY DEF Idle, UserStates
    <2>2. /\ \A u \in Users : user[u] = Idle
          /\ \A c \in AllConns : status[c] = "closed" /\ held[c] = Free
        BY DEF Init
    <2>3. TypeOK
        BY <2>1, HeldTyped DEF Init, TypeOK, UserStates
    <2>4. ConnsOwned /\ RestingFree
        BY <2>1, <2>2 DEF ConnsOwned, RestingFree
    <2>5. GrantedOnce
        BY <2>2 DEF GrantedOnce, Free
    <2>6. WithinMaximum
        <3>1. ASSUME NEW p \in Processes
              PROVE  Cardinality(Open(p)) <= MaxConns[p]
            <4>1. Open(p) = {}
                BY <2>2 DEF Open, AllConns
            <4>2. IsFiniteSet(Conns[p]) /\ MaxConns[p] \in 1..Cardinality(Conns[p])
                BY PoolAssumption
            <4>3. Cardinality(Conns[p]) \in Nat /\ Cardinality(Open(p)) = 0
                BY <4>1, <4>2, FS_CardinalityType, FS_EmptySet
            <4> QED
                BY <4>2, <4>3
        <3> QED
            BY <3>1 DEF WithinMaximum
    <2>7. \A u \in Users : Progress(u)
        BY <2>1, <2>2 DEF Progress
    <2> QED
        BY <2>3, <2>4, <2>5, <2>6, <2>7 DEF PoolInv
<1> QED
    BY <1>1, PoolInvStep, PTL DEF Spec

(* Nothing is lost through a pool: it stays within its maximum, a          *)
(* connection has one user of its own process, and it goes back to its     *)
(* pool without a lock, however its use ended.                             *)
THEOREM PoolsAreSound == Spec => []PoolIsSound
<1>1. PoolInv => PoolIsSound
    <2> SUFFICES ASSUME PoolInv, NEW p \in Processes
                 PROVE  /\ Cardinality(Open(p)) <= MaxConns[p]
                        /\ \A c \in Conns[p] :
                            /\ status[c] = "used" <=> \E u \in Users : user[u].conn = c
                            /\ \A u, v \in Users : user[u].conn = c /\ user[v].conn = c
                                                      => u = v /\ ProcessOf[u] = p
                            /\ status[c] \in {"idle", "closed"} => held[c] = Free
        BY DEF PoolInv, PoolIsSound, Open
    <2>1. Cardinality(Open(p)) <= MaxConns[p]
        BY DEF PoolInv, WithinMaximum
    <2>2. ASSUME NEW c \in Conns[p]
          PROVE  /\ status[c] = "used" <=> \E u \in Users : user[u].conn = c
                 /\ \A u, v \in Users : user[u].conn = c /\ user[v].conn = c
                                           => u = v /\ ProcessOf[u] = p
                 /\ status[c] \in {"idle", "closed"} => held[c] = Free
        <3>1. c \in AllConns /\ c # None
            BY PoolAssumption DEF AllConns
        <3>2. ASSUME NEW u \in Users, user[u].conn = c
              PROVE  ProcessOf[u] = p
            <4>1. c \in Conns[ProcessOf[u]] /\ ProcessOf[u] \in Processes
                BY <3>1, <3>2, PoolAssumption DEF PoolInv, Progress
            <4> QED
                BY <4>1, PoolAssumption
        <3> QED
            BY <3>1, <3>2 DEF PoolInv, ConnsOwned, RestingFree
    <2> QED
        BY <2>1, <2>2
<1> QED
    BY <1>1, PoolHolds, PTL

(* No two users are past the locks of one subject, over all processes,     *)
(* whatever names share a key, and while PostgreSQL still counts alive     *)
(* what a pool has given up.                                               *)
THEOREM LocksExclude == Spec => []Exclusive
<1>1. ASSUME PoolInv, NEW u \in Users, HasLocks(u), NEW s \in user[u].subjects
      PROVE  /\ user[u].conn \in AllConns /\ user[u].conn # None
             /\ Hash[s] \in LockKeys /\ held[user[u].conn][Hash[s]] > 0
    <2>t. TypeOK /\ Progress(u)
        BY <1>1 DEF PoolInv
    <2>1. user[u] \in UserStates /\ Progress(u)
        BY <2>t DEF TypeOK, UserStates
    <2>2. Hash[s] \in LockKeys
        BY <2>1, HashTyped DEF UserStates
    <2>3. user[u].pc \in {"lock", "work", "close"} /\ (user[u].pc = "lock" => user[u].todo = <<>>)
        BY <1>1 DEF HasLocks
    <2>4. user[u].conn \in AllConns /\ user[u].conn # None
        BY <2>1, <2>3 DEF Progress, UserStates
    <2>5. CASE u \in Sessions
        <3>1. PICK x \in Subjects : SessionHolds(u, x)
            BY <2>1, <2>3, <2>5 DEF Progress
        <3>2. user[u].subjects = {x} /\ held[user[u].conn] = Only(Hash[x])
            BY <2>3, <3>1 DEF SessionHolds
        <3> QED
            BY <2>2, <2>4, <3>2 DEF Only
    <2>6. CASE u \in Webhooks
        <3>1. user[u].todo = <<>>
            BY <2>1, <2>3, <2>6 DEF Progress
        <3> QED
            BY <2>1, <2>2, <2>4, <2>6, <3>1 DEF Progress
    <2>7. u \notin Queries
        BY <2>1, <2>3 DEF Progress
    <2> QED
        BY <2>2, <2>4, <2>5, <2>6, <2>7 DEF Users
<1>2. PoolInv => Exclusive
    <2> SUFFICES ASSUME PoolInv, NEW u \in Users, NEW v \in Users, u # v, HasLocks(u), HasLocks(v),
                        NEW s \in user[u].subjects, s \in user[v].subjects
                 PROVE  FALSE
        BY DEF Exclusive
    <2>1. user[u].conn # user[v].conn
        BY <1>1 DEF PoolInv, ConnsOwned
    <2>2. held[user[v].conn][Hash[s]] = 0
        BY <1>1, <2>1 DEF PoolInv, GrantedOnce
    <2> QED
        BY <1>1, <2>2
<1> QED
    BY <1>2, PoolHolds, PTL
=============================================================================
