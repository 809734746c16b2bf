---------------------------- MODULE StartupProofs ---------------------------
(***************************************************************************)
(* Proofs of the properties of Startup for any set of processes and any    *)
(* number of starts.                                                       *)
(***************************************************************************)
EXTENDS Startup, TLAPS

Labels == {"off", "opening", "locking", "versioning", "migrating", "building",
           "working", "failed", "ended"}

ProcStates == [pc : Labels, migrates : BOOLEAN, pool : BOOLEAN, pending : BOOLEAN]

(* Every variable has its type. *)
TypeOK ==
    /\ migrated \in BOOLEAN /\ applied \in Nat
    /\ lock \in Processes \cup {NoProcess}
    /\ proc \in [Processes -> ProcStates]
    /\ starts \in 0..MaxStarts

(* The migration lock is held by exactly the process between taking it and *)
(* the end of its migration; what that process has read of the schema is   *)
(* still true, since only the holder changes the schema.                   *)
MigratorAlone ==
    \A p \in Processes :
        /\ lock = p <=> proc[p].pc \in {"versioning", "migrating"}
        /\ proc[p].pc = "migrating" => (proc[p].pending <=> ~migrated)

(* A process that has no connection any more, or none yet. *)
PoolClosed == \A p \in Processes : proc[p].pc \in {"off", "opening", "failed", "ended"} => ~proc[p].pool

StartInv == TypeOK /\ MigratorAlone /\ PoolClosed /\ MigratedBeforeWork

(* What a step of one process does to that process, and to nobody else. *)
LEMMA Moves ==
    ASSUME TypeOK, NEW p \in Processes, NEW l \in ProcStates, proc' = [proc EXCEPT ![p] = l]
    PROVE  /\ proc' \in [Processes -> ProcStates] /\ proc'[p] = l
           /\ \A q \in Processes \ {p} : proc'[q] = proc[q]
BY DEF TypeOK

(* A label changes nothing else of a process. *)
LEMMA Labelled ==
    ASSUME TypeOK, NEW p \in Processes, NEW label \in Labels, GoTo(p, label)
    PROVE  /\ proc' \in [Processes -> ProcStates] /\ proc'[p].pc = label
           /\ proc'[p].migrates = proc[p].migrates /\ proc'[p].pool = proc[p].pool
           /\ proc'[p].pending = proc[p].pending
           /\ \A q \in Processes \ {p} : proc'[q] = proc[q]
BY DEF TypeOK, GoTo, ProcStates

(* A part of the start that fails. *)
LEMMA FailStep ==
    ASSUME StartInv, NEW p \in Processes, Fail(p)
    PROVE  StartInv'
<1> USE DEF StartInv
<1>1. /\ proc' \in [Processes -> ProcStates] /\ proc'[p].pc = "failed" /\ ~proc'[p].pool
      /\ \A q \in Processes \ {p} : proc'[q] = proc[q]
    BY DEF TypeOK, Fail, ProcStates, Labels
<1>2. lock' \in Processes \cup {NoProcess} /\ lock' # p
      /\ \A q \in Processes \ {p} : lock' = q <=> lock = q
    BY StartupAssumption DEF TypeOK, Fail, Released
<1>3. UNCHANGED <<migrated, applied, starts>>
    BY DEF Fail
<1>4. TypeOK'
    BY <1>1, <1>2, <1>3 DEF TypeOK
<1>5. MigratorAlone'
    BY <1>1, <1>2, <1>3 DEF MigratorAlone
<1>6. PoolClosed' /\ MigratedBeforeWork'
    BY <1>1, <1>3 DEF PoolClosed, MigratedBeforeWork
<1> QED
    BY <1>4, <1>5, <1>6

(* One step of a process keeps all of it. *)
LEMMA StartStep == StartInv /\ [Next]_vars => StartInv'
<1> SUFFICES ASSUME StartInv, [Next]_vars
             PROVE  StartInv'
    OBVIOUS
<1> USE StartupAssumption DEF StartInv
<1>1. CASE UNCHANGED vars
    BY <1>1 DEF vars, TypeOK, MigratorAlone, PoolClosed, MigratedBeforeWork
<1>p. ASSUME NEW p \in Processes,
             \/ \E migrates \in BOOLEAN : Start(p, migrates)
             \/ Proceed(p) \/ OpenFails(p) \/ MigrateFails(p) \/ BuildFails(p)
             \/ Close(p) \/ Exit(p) \/ Crash(p)
      PROVE  StartInv'
    <2>0. /\ proc[p] \in ProcStates /\ proc[p].pc \in Labels
          /\ proc[p].migrates \in BOOLEAN /\ proc[p].pool \in BOOLEAN /\ proc[p].pending \in BOOLEAN
        BY DEF TypeOK, ProcStates
    <2>1. ASSUME NEW migrates \in BOOLEAN, Start(p, migrates)
          PROVE  StartInv'
        <3> DEFINE l == [Off EXCEPT !.pc = "opening", !.migrates = migrates]
        <3>1. l \in ProcStates /\ l.pc = "opening" /\ ~l.pool
            BY DEF Off, ProcStates, Labels
        <3>2. proc' = [proc EXCEPT ![p] = l] /\ proc[p].pc = "off"
            BY <2>1 DEF Start
        <3> HIDE DEF l
        <3>3. /\ proc' \in [Processes -> ProcStates] /\ proc'[p] = l
              /\ \A q \in Processes \ {p} : proc'[q] = proc[q]
            BY <3>1, <3>2, Moves
        <3>4. UNCHANGED <<migrated, applied, lock>> /\ starts' \in 0..MaxStarts
            BY <2>1 DEF Start, TypeOK
        <3> QED
            BY <3>1, <3>2, <3>3, <3>4 DEF TypeOK, MigratorAlone, PoolClosed, MigratedBeforeWork
    <2>2. CASE Open(p)
        <3>1. /\ proc' \in [Processes -> ProcStates]
              /\ proc'[p].pc = IF proc[p].migrates THEN "locking" ELSE "building"
              /\ proc'[p].migrates = proc[p].migrates
              /\ \A q \in Processes \ {p} : proc'[q] = proc[q]
            BY <2>0, <2>2 DEF Open, TypeOK, ProcStates, Labels
        <3>2. proc[p].pc = "opening" /\ UNCHANGED <<migrated, applied, lock, starts>>
            BY <2>2 DEF Open
        <3>3. TypeOK' /\ PoolClosed'
            BY <3>1, <3>2 DEF TypeOK, PoolClosed
        <3>4. MigratorAlone' /\ MigratedBeforeWork'
            BY <2>0, <3>1, <3>2 DEF MigratorAlone, MigratedBeforeWork
        <3> QED
            BY <3>3, <3>4
    <2>3. CASE LockMigrations(p)
        <3>1. /\ proc' \in [Processes -> ProcStates] /\ proc'[p].pc = "versioning"
              /\ \A q \in Processes \ {p} : proc'[q] = proc[q]
            BY <2>3, Labelled DEF LockMigrations, Labels
        <3>2. lock = NoProcess /\ lock' = p /\ UNCHANGED <<migrated, applied, starts>>
            BY <2>3 DEF LockMigrations
        <3> QED
            BY <3>1, <3>2 DEF TypeOK, MigratorAlone, PoolClosed, MigratedBeforeWork
    <2>4. CASE ReadVersion(p)
        <3>1. /\ proc' \in [Processes -> ProcStates] /\ proc'[p].pc = "migrating"
              /\ proc'[p].pending = ~migrated
              /\ \A q \in Processes \ {p} : proc'[q] = proc[q]
            BY <2>0, <2>4 DEF ReadVersion, TypeOK, ProcStates, Labels
        <3>2. proc[p].pc = "versioning" /\ UNCHANGED <<migrated, applied, lock, starts>>
            BY <2>4 DEF ReadVersion
        <3>3. TypeOK' /\ PoolClosed' /\ MigratedBeforeWork'
            BY <3>1, <3>2 DEF TypeOK, PoolClosed, MigratedBeforeWork
        <3>4. MigratorAlone'
            BY <3>1, <3>2 DEF MigratorAlone
        <3> QED
            BY <3>3, <3>4
    <2>5. CASE Up(p)
        <3>1. /\ proc' \in [Processes -> ProcStates] /\ proc'[p].pc = "building"
              /\ \A q \in Processes \ {p} : proc'[q] = proc[q]
            BY <2>5, Labelled DEF Up, Labels
        <3>2. proc[p].pc = "migrating" /\ lock = p /\ (proc[p].pending <=> ~migrated)
            BY <2>5 DEF Up, MigratorAlone
        <3>3. migrated' = TRUE /\ applied' = 1 /\ lock' = NoProcess /\ UNCHANGED starts
            BY <2>5, <3>2 DEF Up, Released, MigratedBeforeWork
        <3>4. \A q \in Processes \ {p} : proc[q].pc \notin {"versioning", "migrating"}
            BY <3>2 DEF MigratorAlone
        <3> QED
            BY <3>1, <3>3, <3>4 DEF TypeOK, MigratorAlone, PoolClosed, MigratedBeforeWork
    <2>6. CASE Build(p)
        <3>1. /\ proc' \in [Processes -> ProcStates] /\ proc'[p].pc = "working"
              /\ proc'[p].migrates = proc[p].migrates
              /\ \A q \in Processes \ {p} : proc'[q] = proc[q]
            BY <2>6, Labelled DEF Build, Labels
        <3>2. proc[p].pc = "building" /\ UNCHANGED <<migrated, applied, lock, starts>>
            BY <2>6 DEF Build
        <3> QED
            BY <3>1, <3>2 DEF TypeOK, MigratorAlone, PoolClosed, MigratedBeforeWork
    <2>7. CASE OpenFails(p) \/ MigrateFails(p) \/ BuildFails(p)
        BY <2>7, FailStep DEF OpenFails, MigrateFails, BuildFails
    <2>8. CASE Close(p)
        <3>1. /\ proc' \in [Processes -> ProcStates] /\ proc'[p].pc = "ended" /\ ~proc'[p].pool
              /\ \A q \in Processes \ {p} : proc'[q] = proc[q]
            BY <2>0, <2>8 DEF Close, TypeOK, ProcStates, Labels
        <3>2. proc[p].pc = "working" /\ UNCHANGED <<migrated, applied, lock, starts>>
            BY <2>8 DEF Close
        <3> QED
            BY <3>1, <3>2 DEF TypeOK, MigratorAlone, PoolClosed, MigratedBeforeWork
    <2>9. CASE Exit(p)
        <3>1. /\ proc' \in [Processes -> ProcStates] /\ proc'[p].pc = "off"
              /\ proc'[p].pool = proc[p].pool
              /\ \A q \in Processes \ {p} : proc'[q] = proc[q]
            BY <2>9, Labelled DEF Exit, Labels
        <3>2. proc[p].pc \in {"failed", "ended"} /\ UNCHANGED <<migrated, applied, lock, starts>>
            BY <2>9 DEF Exit
        <3> QED
            BY <3>1, <3>2 DEF TypeOK, MigratorAlone, PoolClosed, MigratedBeforeWork
    <2>10. CASE Crash(p)
        <3>1. Off \in ProcStates /\ Off.pc = "off" /\ ~Off.pool
            BY DEF Off, ProcStates, Labels
        <3>2. /\ proc' \in [Processes -> ProcStates] /\ proc'[p] = Off
              /\ \A q \in Processes \ {p} : proc'[q] = proc[q]
            BY <2>10, <3>1, Moves DEF Crash
        <3>3. /\ lock' \in Processes \cup {NoProcess} /\ lock' # p
              /\ \A q \in Processes \ {p} : lock' = q <=> lock = q
              /\ UNCHANGED <<migrated, applied, starts>>
            BY <2>10 DEF Crash, Released, TypeOK
        <3> QED
            BY <3>1, <3>2, <3>3 DEF TypeOK, MigratorAlone, PoolClosed, MigratedBeforeWork
    <2> QED
        BY <1>p, <2>1, <2>2, <2>3, <2>4, <2>5, <2>6, <2>7, <2>8, <2>9, <2>10 DEF Proceed
<1> QED
    BY <1>1, <1>p DEF Next

(* The invariant holds in every behaviour. *)
LEMMA StartHolds == Spec => []StartInv
<1>1. Init => StartInv
    <2> SUFFICES ASSUME Init
                 PROVE  StartInv
        OBVIOUS
    <2>1. Off \in ProcStates /\ Off.pc = "off" /\ ~Off.pool
        BY DEF Off, ProcStates, Labels
    <2>2. proc \in [Processes -> ProcStates] /\ \A p \in Processes : proc[p] = Off
        BY <2>1 DEF Init
    <2>3. migrated = FALSE /\ applied = 0 /\ lock = NoProcess /\ starts \in 0..MaxStarts
        BY StartupAssumption DEF Init
    <2> QED
        BY <2>1, <2>2, <2>3, StartupAssumption
        DEF StartInv, TypeOK, MigratorAlone, PoolClosed, MigratedBeforeWork
<1> QED
    BY <1>1, StartStep, PTL DEF Spec

(* Processes that start together, and crash or fail anywhere, apply the    *)
(* migration exactly once, and those that migrate never work without it.   *)
THEOREM MigrationComesFirst == Spec => []MigratedBeforeWork
<1>1. StartInv => MigratedBeforeWork
    BY DEF StartInv
<1> QED
    BY <1>1, StartHolds, PTL

(* Whichever part of a start fails, the process is left without a          *)
(* connection and without the migration lock.                              *)
THEOREM FailuresHoldNothing == Spec => []FailedHoldsNothing
<1>1. StartInv => FailedHoldsNothing
    BY DEF StartInv, MigratorAlone, PoolClosed, FailedHoldsNothing
<1> QED
    BY <1>1, StartHolds, PTL
=============================================================================
