-------------------------- MODULE SequentialProofs --------------------------
(***************************************************************************)
(* Proofs about the parts of Sequential for all inputs: that nothing       *)
(* changes before the boundary a plan stores (phases), that delays double  *)
(* up to their cap (backoff), that a resolved user has the aliases that    *)
(* Graph confirmed (resolve), that a frame fits its screen (layout), that  *)
(* a previewed plan is what the delivery of its event brings about         *)
(* (preview), that a plan carried out leaves the memberships it asserts    *)
(* (plans), that a command's report is true (report), and that what was    *)
(* loaded is in effect and usable (load).                                  *)
(***************************************************************************)
EXTENDS Sequential, NumberLemmas, FiniteSetTheorems, SequenceTheorems

-----------------------------------------------------------------------------
(* Parts *)

(* A behaviour is one of the part that it began as. *)
LEMMA PartsBegin ==
    ASSUME Init
    PROVE  /\ part = "phases" => Phases!Init
           /\ part = "plans" => Planning!Init
           /\ part = "backoff" => Retries!Init
           /\ part = "resolve" => Lookup!Init
           /\ part = "layout" => Screen!Init
           /\ part = "preview" => Previews!Init
           /\ part = "report" => Reports!Init
           /\ part = "load" => Loading!Init
BY DEF Init

(* Every step is one of the part that is run, which stays the same. *)
LEMMA PartsStep ==
    ASSUME [Next]_vars
    PROVE  /\ part' = part
           /\ part = "phases" => [Phases!Tick]_<<known, planned, now>>
           /\ part = "plans" => [Planning!Next]_<<cfg, member, adds, removes, pc>>
           /\ part = "backoff" => [Retries!Fail]_backoffVars
           /\ part = "resolve" => [Lookup!Next]_Lookup!rvars
           /\ part = "layout" => [Screen!Next]_layoutVars
           /\ part = "preview" => [Previews!Next]_Previews!pvars
           /\ part = "report" => [Reports!Next]_Reports!vars
           /\ part = "load" => [Loading!Next]_Loading!vars
<1>1. CASE UNCHANGED vars
    <2>1. /\ UNCHANGED <<part, known, planned, now, cfg, member, adds, removes, pc>>
          /\ UNCHANGED backoffVars /\ UNCHANGED layoutVars
          /\ UNCHANGED <<groupAliases, start, memberships, user, changes, answer>>
          /\ UNCHANGED <<files, env, merged, doc, stage>>
          /\ UNCHANGED <<intents, state, subjectLock, identityLock, event, listed, plan, page>>
          /\ UNCHANGED <<mode, todo, result, results, failed, cancelled, broken, shown, report,
                         exit, sent>>
        BY <1>1 DEF vars, phasesVars, plansVars, resolveVars, previewVars, reportVars,
                      loadVars
    <2>2. /\ UNCHANGED Previews!pvars /\ UNCHANGED Reports!vars
          /\ UNCHANGED Lookup!rvars /\ UNCHANGED Loading!vars
        BY <2>1 DEF Previews!pvars, Reports!vars, Lookup!rvars, Loading!vars
    <2> QED
        BY <2>1, <2>2
<1>2. CASE Next
    BY <1>2, Zenon DEF Next
<1> QED
    BY <1>1, <1>2

-----------------------------------------------------------------------------
(* Phases *)

(* A set of windows, planned for at one instant and looked at later. *)
Looked ==
    /\ known \in SUBSET Phases!Windows
    /\ planned \in Nat /\ now \in Nat /\ planned <= now

(* A window opens after the first instant and ends later. *)
LEMMA WindowTyped ==
    ASSUME NEW w \in Phases!Windows
    PROVE  /\ w.starts_at \in Nat /\ w.ends_at \in Nat /\ w.starts_at < w.ends_at
           /\ w.cancelled \in BOOLEAN
<1>1. /\ w \in [source : {1}, id : {1}, subject : {1}, starts_at : 0..Horizon, ends_at : 0..Horizon,
                cancelled : BOOLEAN]
      /\ Phases!Validate(w)
    BY Zenon DEF Phases!Windows
<1>2. w.starts_at \in Nat /\ w.ends_at \in Nat /\ w.cancelled \in BOOLEAN
    BY <1>1
<1>3. w.starts_at < w.ends_at
    BY <1>1 DEF Phases!Validate, Phases!Trimmed
<1> QED
    BY <1>2, <1>3

(* A phase changes exactly when the window's next transition is reached. *)
LEMMA PhaseChanges ==
    ASSUME NEW w \in Phases!Windows, NEW t \in Nat, NEW u \in Nat, t <= u
    PROVE  /\ Phases!NextTransitionAt(w, t) \in Nat \cup {Phases!Null}
           /\ Phases!PhaseAt(w, u) # Phases!PhaseAt(w, t)
                <=> /\ Phases!NextTransitionAt(w, t) # Phases!Null
                    /\ Phases!NextTransitionAt(w, t) <= u
BY WindowTyped DEF Phases!NextTransitionAt, Phases!PhaseAt, Phases!Null

(* The boundary of a set is the least of its windows' transitions. *)
LEMMA BoundaryIsLeast ==
    ASSUME NEW W \in SUBSET Phases!Windows, NEW t \in Nat
    PROVE  LET next == Phases!nextTransitionAt(W, t)
               Ahead(w) == Phases!NextTransitionAt(w, t) # Phases!Null
           IN  /\ next # Phases!Null => \E w \in W : Ahead(w) /\ next = Phases!NextTransitionAt(w, t)
               /\ \A w \in W : Ahead(w) =>
                     next # Phases!Null /\ next <= Phases!NextTransitionAt(w, t)
<1> DEFINE T == { Phases!NextTransitionAt(w, t) : w \in W } \ {Phases!Null}
<1>1. T \in SUBSET Nat
    <2>1. \A w \in W : Phases!NextTransitionAt(w, t) \in Nat \cup {Phases!Null}
        <3>1. t <= t
            OBVIOUS
        <3> QED
            BY <3>1, PhaseChanges
    <2> QED
        BY <2>1
<1>2. Phases!nextTransitionAt(W, t) = IF T = {} THEN Phases!Null ELSE Phases!Min(T)
    BY Zenon DEF Phases!nextTransitionAt
<1>3. Phases!Min(T) = Min(T)
    BY Zenon DEF Phases!Min, Min
<1>4. T # {} => Min(T) \in T /\ \A x \in T : Min(T) <= x
    BY <1>1, MinIsLeast
<1> QED
    BY <1>2, <1>3, <1>4

(* What is looked at was planned for before. *)
LEMMA PhasesLooked == Spec => [](part = "phases" => Looked)
<1>1. Phases!Init => Looked
    <2> SUFFICES ASSUME Phases!Init
                 PROVE  Looked
        OBVIOUS
    <2>1. PICK n \in 0..MaxIntents : known \in Phases!kSubset(n, Phases!Windows)
        BY Zenon DEF Phases!Init
    <2>2. known \in SUBSET Phases!Windows
        BY <2>1 DEF Phases!kSubset
    <2>3. planned \in Nat /\ now = planned
        BY DEF Phases!Init
    <2> QED
        BY <2>2, <2>3 DEF Looked
<1>2. Looked /\ [Phases!Tick]_<<known, planned, now>> => Looked'
    BY DEF Looked, Phases!Tick
<1>3. Init => (part = "phases" => Looked)
    BY <1>1, PartsBegin
<1>4. (part = "phases" => Looked) /\ [Next]_vars => (part = "phases" => Looked)'
    BY <1>2, PartsStep
<1> QED
    BY <1>3, <1>4, PTL DEF Spec

(* No intent changes its phase before the boundary that the plan stored,   *)
(* and one does at it: for any number of windows and any instants, so that *)
(* the loop neither sleeps through a change nor comes back for nothing.    *)
THEOREM BoundariesAreExact == Spec => []BoundaryIsExact
<1>1. Looked => Phases!BoundaryIsExact
    <2> SUFFICES ASSUME Looked
                 PROVE  Phases!BoundaryIsExact
        OBVIOUS
    <2> DEFINE next == Phases!nextTransitionAt(known, planned)
    <2>1. ASSUME NEW i \in known, Phases!PhaseAt(i, now) # Phases!PhaseAt(i, planned)
          PROVE  next # Phases!Null /\ next <= now
        <3>1. /\ Phases!NextTransitionAt(i, planned) # Phases!Null
              /\ Phases!NextTransitionAt(i, planned) \in Nat
              /\ Phases!NextTransitionAt(i, planned) <= now
            BY <2>1, PhaseChanges DEF Looked
        <3>2. next # Phases!Null /\ next <= Phases!NextTransitionAt(i, planned)
            BY <3>1, BoundaryIsLeast DEF Looked
        <3>3. next \in Nat
            <4>1. PICK w \in known : next = Phases!NextTransitionAt(w, planned)
                BY <3>2, BoundaryIsLeast DEF Looked
            <4> QED
                BY <3>2, <4>1, PhaseChanges DEF Looked
        <3> HIDE DEF next
        <3> QED
            BY <3>1, <3>2, <3>3 DEF Looked
    <2>2. ASSUME next # Phases!Null, next <= now
          PROVE  \E i \in known : Phases!PhaseAt(i, now) # Phases!PhaseAt(i, planned)
        <3>1. PICK w \in known : /\ Phases!NextTransitionAt(w, planned) # Phases!Null
                                 /\ next = Phases!NextTransitionAt(w, planned)
            BY <2>2, BoundaryIsLeast DEF Looked
        <3> QED
            BY <2>2, <3>1, PhaseChanges DEF Looked
    <2> QED
        BY <2>1, <2>2 DEF Phases!BoundaryIsExact
<1>2. (part = "phases" => Looked) => BoundaryIsExact
    BY <1>1 DEF BoundaryIsExact
<1> QED
    BY <1>2, PhasesLooked, PTL

(* A subject is active, pending, settled or without a state as its windows *)
(* are open, still to come, over or absent: at every instant, for any      *)
(* number of windows.                                                      *)
THEOREM StatesFollowWindows == Spec => []StateFollowsWindows
<1>1. Looked => Phases!StateFollowsWindows
    <2> SUFFICES ASSUME Looked
                 PROVE  Phases!StateFollowsWindows
        OBVIOUS
    <2> DEFINE live == { i \in known : ~i.cancelled }
               open == { i \in live : now \in i.starts_at .. i.ends_at - 1 }
               ahead == { i \in live : now < i.starts_at }
    <2>1. ASSUME NEW i \in known
          PROVE  /\ Phases!PhaseAt(i, now) = "active" <=> i \in open
                 /\ Phases!PhaseAt(i, now) = "pending" <=> i \in ahead
        <3>1. /\ i.starts_at \in Nat /\ i.ends_at \in Nat /\ i.starts_at < i.ends_at
              /\ i.cancelled \in BOOLEAN /\ now \in Nat
            BY WindowTyped DEF Looked
        <3> QED
            BY <3>1 DEF Phases!PhaseAt
    <2>2. /\ (\E i \in known : Phases!PhaseAt(i, now) = "active") <=> open # {}
          /\ (\E i \in known : Phases!PhaseAt(i, now) = "pending") <=> ahead # {}
        BY <2>1
    <2>3. known = {} => open = {} /\ ahead = {}
        OBVIOUS
    <2> HIDE DEF live, open, ahead
    <2>4. /\ Phases!AggregateState(known, now) = "active" <=> open # {}
          /\ Phases!AggregateState(known, now) = "pending" <=> open = {} /\ ahead # {}
          /\ Phases!AggregateState(known, now) = "none" <=> known = {}
        BY <2>2, <2>3 DEF Phases!AggregateState
    <2> QED
        BY <2>4 DEF Phases!StateFollowsWindows, live, open, ahead
<1>2. (part = "phases" => Looked) => StateFollowsWindows
    BY <1>1 DEF StateFollowsWindows
<1> QED
    BY <1>2, PhasesLooked, PTL

-----------------------------------------------------------------------------
(* Backoff *)

(* A configuration that validateReconcile accepts, and some failures. *)
Backing ==
    /\ initial \in Nat \ {0} /\ maximum \in Nat
    /\ initial <= maximum /\ maximum <= MaxDuration
    /\ failures \in Nat

(* The doubling without a cap is defined for every number of failures. *)
LEMMA DoubledRecurs ==
    ASSUME NEW initial_ \in Nat
    PROVE  LET d == CHOOSE d : d = [n \in Nat |-> IF n = 0 THEN initial_ ELSE 2 * d[n - 1]]
           IN  d \in [Nat -> Nat] /\ d[0] = initial_ /\ \A n \in Nat : d[n + 1] = 2 * d[n]
<1> DEFINE Rule(d) == [n \in Nat |-> IF n = 0 THEN initial_ ELSE 2 * d[n - 1]]
           h == [n \in Nat |-> [x \in Nat |-> 2 * x]]
<1>1. h \in [Nat -> [Nat -> Nat]]
    OBVIOUS
<1>2. PICK f \in [Nat -> Nat] : f[0] = initial_ /\ \A n \in Nat : f[n + 1] = h[n][f[n]]
    <2> HIDE DEF h
    <2>1. PICK f : Recurs(f, Nat, initial_, h)
        BY <1>1, Recursion
    <2> QED
        BY <2>1 DEF Recurs
<1>3. \A n \in Nat : f[n + 1] = 2 * f[n]
    BY <1>2
<1>4. f = Rule(f)
    <2>1. ASSUME NEW n \in Nat, n # 0
          PROVE  f[n] = 2 * f[n - 1]
        <3>1. n - 1 \in Nat /\ (n - 1) + 1 = n
            BY <2>1
        <3> QED
            BY <3>1, <1>3
    <2> QED
        BY <1>2, <2>1
<1> DEFINE d == CHOOSE d : d = Rule(d)
<1>5. d = Rule(d)
    <2> HIDE DEF Rule
    <2> QED
        BY <1>4
<1> HIDE DEF d
<1>6. d[0] = initial_ /\ \A n \in Nat : d[n + 1] = 2 * d[n]
    <2>1. \A n \in Nat : d[n] = IF n = 0 THEN initial_ ELSE 2 * d[n - 1]
        BY <1>5
    <2>2. ASSUME NEW n \in Nat
          PROVE  d[n + 1] = 2 * d[n]
        <3>1. n + 1 \in Nat /\ n + 1 # 0 /\ (n + 1) - 1 = n
            OBVIOUS
        <3> QED
            BY <2>1, <3>1
    <2> QED
        BY <2>1, <2>2
<1>7. \A n \in Nat : d[n] \in Nat
    <2> DEFINE S == { n \in Nat : d[n] \in Nat }
    <2>1. 0 \in S /\ \A n \in Nat : n \in S => n + 1 \in S
        BY <1>6
    <2> HIDE DEF S
    <2>2. Nat \subseteq S
        BY <2>1, Induction
    <2> QED
        BY <2>2 DEF S
<1>8. d \in [Nat -> Nat]
    BY <1>5, <1>7
<1> QED
    BY <1>6, <1>8 DEF d

(* A product that is no longer than a duration may be does not wrap. *)
LEMMA NothingToWrap ==
    ASSUME NEW x \in Nat, x <= MaxDuration
    PROVE  Retries!Wrap(x) = x
<1>1. MaxDuration \in Nat
    BY SequentialAssumption
<1>2. x % (2 * (MaxDuration + 1)) = x
    BY <1>1
<1> QED
    BY <1>2 DEF Retries!Wrap

(* What retryDelay computes never wraps: it is the doubling, capped. *)
LEMMA DelayRecurs ==
    ASSUME NEW start_ \in Nat \ {0}, NEW cap \in Nat, start_ <= cap, cap <= MaxDuration,
           NEW doubled \in [Nat -> Nat], doubled[0] = start_,
           \A n \in Nat : doubled[n + 1] = 2 * doubled[n],
           NEW k \in Nat
    PROVE  Retries!retryDelay(start_, cap, k) = IF doubled[k] <= cap THEN doubled[k] ELSE cap
<1> DEFINE Rule(delay) ==
               [n \in Nat |->
                  IF n = 0 THEN start_
                  ELSE IF delay[n - 1] >= cap \/ delay[n - 1] > cap \div 2 THEN cap
                  ELSE Retries!Wrap(delay[n - 1] * 2)]
           f == [n \in Nat |-> IF doubled[n] <= cap THEN doubled[n] ELSE cap]
<1>0. MaxDuration \in Nat
    BY SequentialAssumption
<1>1. f \in [Nat -> Nat] /\ f[0] = start_ /\ \A n \in Nat : f[n] <= cap
    OBVIOUS
<1>2. ASSUME NEW n \in Nat
      PROVE  f[n + 1] = IF f[n] >= cap \/ f[n] > cap \div 2 THEN cap ELSE Retries!Wrap(f[n] * 2)
    <2>1. f[n] = (IF doubled[n] <= cap THEN doubled[n] ELSE cap) /\ doubled[n] \in Nat
        OBVIOUS
    <2>2. f[n + 1] = IF 2 * doubled[n] <= cap THEN 2 * doubled[n] ELSE cap
        OBVIOUS
    <2> HIDE DEF f
    <2>3. CASE doubled[n] > cap \div 2
        <3>1. 2 * doubled[n] >= cap
            BY <2>3, <2>1
        <3> QED
            BY <2>1, <2>2, <2>3, <3>1
    <2>4. CASE ~(doubled[n] > cap \div 2)
        <3>1. 2 * doubled[n] <= cap /\ doubled[n] <= cap
            BY <2>4, <2>1
        <3>2. f[n] * 2 \in Nat /\ f[n] * 2 <= MaxDuration /\ f[n] * 2 = 2 * doubled[n]
            BY <1>0, <2>1, <3>1
        <3>3. Retries!Wrap(f[n] * 2) = f[n] * 2
            BY <3>2, NothingToWrap
        <3>4. CASE f[n] >= cap
            BY <2>1, <2>2, <3>1, <3>4
        <3>5. CASE ~(f[n] >= cap)
            BY <2>1, <2>2, <2>4, <3>1, <3>2, <3>3, <3>5
        <3> QED
            BY <3>4, <3>5
    <2> QED
        BY <2>3, <2>4, <2>1
<1> HIDE DEF f
<1>3. f = Rule(f)
    <2>1. ASSUME NEW n \in Nat, n # 0
          PROVE  f[n] = IF f[n - 1] >= cap \/ f[n - 1] > cap \div 2 THEN cap ELSE Retries!Wrap(f[n - 1] * 2)
        <3>1. n - 1 \in Nat /\ (n - 1) + 1 = n
            BY <2>1
        <3> QED
            BY <3>1, <1>2
    <2> QED
        BY <1>1, <2>1
<1> DEFINE delay == CHOOSE delay : delay = Rule(delay)
<1>4. delay = Rule(delay)
    <2> HIDE DEF Rule
    <2> QED
        BY <1>3
<1>5. Retries!retryDelay(start_, cap, k) = Retries!Min({delay[k], cap})
    BY Zenon DEF Retries!retryDelay
<1> HIDE DEF delay
<1>6. \A n \in Nat : delay[n] = f[n]
    <2> DEFINE S == { n \in Nat : delay[n] = f[n] }
    <2>1. 0 \in S
        BY <1>4, <1>1
    <2>2. ASSUME NEW n \in Nat, n \in S
          PROVE  n + 1 \in S
        <3>1. n + 1 \in Nat /\ n + 1 # 0 /\ (n + 1) - 1 = n /\ delay[n] = f[n]
            BY <2>2
        <3>2. delay[n + 1] = IF delay[n] >= cap \/ delay[n] > cap \div 2 THEN cap ELSE Retries!Wrap(delay[n] * 2)
            BY <1>4, <3>1
        <3> QED
            BY <1>2, <3>1, <3>2
    <2> HIDE DEF S
    <2>3. Nat \subseteq S
        BY <2>1, <2>2, Induction
    <2> QED
        BY <2>3 DEF S
<1>7. f[k] \in Nat /\ f[k] <= cap
    BY <1>1
<1>8. Retries!Min({delay[k], cap}) = f[k]
    <2>1. Retries!Min({f[k], cap}) = Min({f[k], cap})
        BY Zenon DEF Retries!Min, Min
    <2> QED
        BY <1>6, <1>7, <2>1, MinOfTwo
<1> QED
    BY <1>5, <1>8 DEF f

(* Every configuration that is accepted, and every number of failures: the *)
(* delay doubles until it meets the cap, however long durations may be,    *)
(* and the doubling never overflows.                                       *)
THEOREM DelaysDouble == Spec => []DelayIsCappedDoubling
<1>1. Backing => Retries!DelayIsCappedDoubling
    <2> SUFFICES ASSUME Backing
                 PROVE  Retries!DelayIsCappedDoubling
        OBVIOUS
    <2>1. /\ initial \in Nat \ {0} /\ maximum \in Nat
          /\ initial <= maximum /\ maximum <= MaxDuration /\ failures \in Nat
        BY DEF Backing
    <2> DEFINE d == Retries!doubled
    <2>2. d \in [Nat -> Nat] /\ d[0] = initial /\ \A n \in Nat : d[n + 1] = 2 * d[n]
        BY <2>1, DoubledRecurs, Zenon DEF Retries!doubled
    <2> HIDE DEF d
    <2>3. Retries!retryDelay(initial, maximum, failures)
             = IF d[failures] <= maximum THEN d[failures] ELSE maximum
        BY <2>1, <2>2, DelayRecurs
    <2>4. Retries!Min({d[failures], maximum}) = Min({d[failures], maximum})
        BY Zenon DEF Retries!Min, Min
    <2>5. d[failures] \in Nat
        BY <2>1, <2>2
    <2>6. Retries!retryDelay(initial, maximum, failures) = Retries!Min({d[failures], maximum})
        BY <2>1, <2>3, <2>4, <2>5, MinOfTwo
    <2> QED
        BY <2>6, Zenon DEF Retries!DelayIsCappedDoubling, d
<1>2. MaxDuration \in Nat
    BY SequentialAssumption
<1>3. Retries!Init => Backing
    BY <1>2 DEF Retries!Init, Retries!Durations, Retries!validateReconcile, Backing
<1>4. Backing /\ [Retries!Fail]_backoffVars => Backing'
    BY DEF Backing, Retries!Fail, backoffVars
<1>5. Init => (part = "backoff" => Backing)
    BY <1>3, PartsBegin
<1>6. (part = "backoff" => Backing) /\ [Next]_vars => (part = "backoff" => Backing)'
    BY <1>4, PartsStep
<1>7. (part = "backoff" => Backing) => DelayIsCappedDoubling
    BY <1>1, Zenon DEF DelayIsCappedDoubling
<1> QED
    BY <1>5, <1>6, <1>7, PTL DEF Spec
-----------------------------------------------------------------------------
(* Lookups *)

Configured == UNION { Lookup!Range(groupAliases[a]) : a \in LookupAliases }
Order == Lookup!groupIDs

(* What was asked for was answered once, and is among the memberships as   *)
(* it was answered; what was not yet asked for was not answered.           *)
AskedFor(i) == answer[Order[i]] = <<Order[i] \in memberships>>
Unasked(i) == answer[Order[i]] = <<>> /\ Order[i] \notin memberships

LookupInv ==
    /\ groupAliases \in [LookupAliases -> Seq(LookupIDs)]
    /\ member \in [{1} -> SUBSET LookupIDs]
    /\ start \in Nat /\ changes \in Nat
    /\ memberships \subseteq Configured
    /\ \A i \in 1..Len(Order) : IF i <= start THEN AskedFor(i) ELSE Unasked(i)
    /\ changes = 0 => \A i \in 1..Len(Order) :
          i <= start => (Order[i] \in memberships <=> Order[i] \in member[1])
    /\ pc = "done" =>
          /\ start >= Len(Order)
          /\ user = UNION { { a \in LookupAliases : id \in Lookup!Range(groupAliases[a]) } :
                            id \in memberships }

(* A configuration names finitely many IDs. *)
LEMMA FinitelyConfigured ==
    ASSUME groupAliases \in [LookupAliases -> Seq(LookupIDs)]
    PROVE  /\ IsFiniteSet(Configured)
           /\ Configured \subseteq LookupIDs
           /\ Configured \subseteq Nat
<1> DEFINE R(a) == Lookup!Range(groupAliases[a])
           All == { R(a) : a \in LookupAliases }
<1>1. ASSUME NEW a \in LookupAliases
      PROVE  IsFiniteSet(R(a)) /\ R(a) \subseteq LookupIDs
    <2> DEFINE l == groupAliases[a]
    <2>1. l \in Seq(LookupIDs)
        OBVIOUS
    <2>2. R(a) = { l[i] : i \in DOMAIN l }
        BY DEF Lookup!Range
    <2> HIDE DEF l
    <2>3. DOMAIN l = 1..Len(l) /\ Len(l) \in Nat /\ \A i \in DOMAIN l : l[i] \in LookupIDs
        BY <2>1
    <2> DEFINE D == 1..Len(l)
               f == [i \in D |-> l[i]]
               T == { l[i] : i \in D }
    <2>4. IsFiniteSet(D)
        BY <2>3, FS_Interval
    <2>5. f \in Surjection(D, T)
        <3> HIDE DEF D
        <3> QED
            BY DEF Surjection
    <2>6. IsFiniteSet(T)
        <3> HIDE DEF D, f, T
        <3> QED
            BY <2>4, <2>5, FS_Surjection
    <2> HIDE DEF R
    <2> QED
        BY <2>2, <2>3, <2>6
<1>2. IsFiniteSet(All)
    <2> DEFINE f == [a \in LookupAliases |-> R(a)]
    <2>1. f \in Surjection(LookupAliases, All)
        <3> HIDE DEF R
        <3> QED
            BY DEF Surjection
    <2> HIDE DEF f, All
    <2> QED
        BY <2>1, FS_Surjection, SequentialAssumption
<1>3. \A V \in All : IsFiniteSet(V) /\ V \subseteq LookupIDs
    BY <1>1
<1> HIDE DEF All
<1>4. IsFiniteSet(UNION All)
    BY <1>2, <1>3, FS_UNION
<1>5. Configured = UNION All
    BY DEF Configured, All
<1> QED
    BY <1>3, <1>4, <1>5, SequentialAssumption

(* groupIDs names each configured ID once. *)
LEMMA OrderIsComplete ==
    ASSUME groupAliases \in [LookupAliases -> Seq(LookupIDs)]
    PROVE  /\ Len(Order) \in Nat /\ DOMAIN Order = 1..Len(Order)
           /\ \A i \in 1..Len(Order) : Order[i] \in Configured
           /\ \A i, j \in 1..Len(Order) : Order[i] = Order[j] => i = j
           /\ \A x \in Configured : \E i \in 1..Len(Order) : Order[i] = x
<1> DEFINE n == Cardinality(Configured)
<1>1. IsFiniteSet(Configured) /\ Configured \in SUBSET Nat /\ n \in Nat
    BY FinitelyConfigured, FS_CardinalityType
<1>2. Order = CHOOSE s \in [1..n -> Configured] : \A i, j \in DOMAIN s : i < j => s[i] < s[j]
    <2>1. Order = Lookup!Ascending(Configured)
        BY Zenon DEF Order, Lookup!groupIDs, Configured
    <2>2. Lookup!Cardinality(Configured) = n
        BY Zenon DEF Lookup!Cardinality, Cardinality
    <2> QED
        BY <2>1, <2>2, Zenon DEF Lookup!Ascending
<1>3. Ascends(Order, Configured, n)
    <2>1. PICK s : Ascends(s, Configured, n)
        BY <1>1, AscendingExists
    <2> HIDE DEF n
    <2>2. s \in [1..n -> Configured] /\ \A i, j \in DOMAIN s : i < j => s[i] < s[j]
        BY <2>1 DEF Ascends
    <2>3. /\ Order \in [1..n -> Configured]
          /\ \A i, j \in DOMAIN Order : i < j => Order[i] < Order[j]
        BY <1>2, <2>2
    <2> QED
        BY <2>3 DEF Ascends
<1>4. Len(Order) = n /\ DOMAIN Order = 1..n
    <2> HIDE DEF n
    <2> QED
        BY <1>1, <1>3, LenProperties, SeqDef DEF Ascends
<1>5. /\ \A i, j \in 1..n : Order[i] = Order[j] => i = j
      /\ \A x \in Configured : \E i \in 1..n : Order[i] = x
    BY <1>1, <1>3, AscendingIsOnto
<1> QED
    BY <1>1, <1>3, <1>4, <1>5 DEF Ascends

LEMMA LookupBegins ==
    ASSUME Lookup!Init
    PROVE  LookupInv
<1>1. groupAliases \in [LookupAliases -> Seq(LookupIDs)]
    <2> DEFINE L == { l \in Lookup!SeqOf(LookupIDs, MaxIDs) : l # <<>> /\ Lookup!IsInjective(l) }
    <2>1. groupAliases \in [LookupAliases -> L]
        BY DEF Lookup!Init
    <2>2. ASSUME NEW l \in L
          PROVE  l \in Seq(LookupIDs)
        <3>1. PICK m \in 0..MaxIDs : l \in [1..m -> LookupIDs]
            BY DEF Lookup!SeqOf
        <3>2. m \in Nat
            BY SequentialAssumption
        <3> QED
            BY <3>1, <3>2, SeqDef
    <2> QED
        BY <2>1, <2>2
<1>2. /\ member \in [{1} -> SUBSET LookupIDs]
      /\ start = 0 /\ memberships = {} /\ changes = 0 /\ pc = "get"
      /\ answer = [id \in LookupIDs |-> <<>>]
    BY DEF Lookup!Init
<1>3. ASSUME NEW i \in 1..Len(Order)
      PROVE  ~(i <= start) /\ Unasked(i)
    <2>1. Order[i] \in LookupIDs /\ i \in Nat /\ i > 0
        BY <1>1, OrderIsComplete, FinitelyConfigured
    <2> QED
        BY <1>2, <2>1 DEF Unasked
<1> QED
    BY <1>1, <1>2, <1>3 DEF LookupInv

(* A batch names the IDs from the start of the loop to its end. *)
LEMMA BatchNames ==
    ASSUME LookupInv, start < Len(Order), NEW i \in 1..Len(Order)
    PROVE  /\ Order[i] \in Lookup!Range(Lookup!Batch) <=> start < i /\ i <= start + Limit
           /\ Lookup!Range(Lookup!Batch) \subseteq Configured
<1> DEFINE n == Len(Order)
           e == IF start + Limit <= n THEN start + Limit ELSE n
<1>1. /\ n \in Nat /\ start \in Nat /\ Limit \in Nat /\ start + Limit \in Nat
      /\ DOMAIN Order = 1..n
      /\ \A k, j \in 1..n : Order[k] = Order[j] => k = j
      /\ \A k \in 1..n : Order[k] \in Configured
    BY OrderIsComplete, SequentialAssumption DEF LookupInv
<1> HIDE DEF n
<1>2. Lookup!Batch = SubSeq(Order, start + 1, e)
    <2>1. Lookup!Min({start + Limit, n}) = Min({start + Limit, n})
        BY Zenon DEF Lookup!Min, Min
    <2>2. Min({start + Limit, n}) = e
        BY <1>1, MinOfTwo
    <2> QED
        BY <2>1, <2>2 DEF Lookup!Batch, Order, n
<1>3. e \in Nat /\ start < e /\ e <= n
    BY <1>1, SequentialAssumption DEF n
<1>4. i \in 1..n /\ (i <= e <=> i <= start + Limit)
    BY <1>1 DEF n
<1> HIDE DEF e
<1> DEFINE B == SubSeq(Order, start + 1, e)
<1>5. /\ B \in Seq(Configured)
      /\ Len(B) = IF start + 1 <= e THEN e - (start + 1) + 1 ELSE 0
      /\ \A k \in 1..(e - (start + 1) + 1) : B[k] = Order[(start + 1) + k - 1]
    <2>1. start + 1 \in Int /\ e \in Int /\ \A k \in (start + 1)..e : k \in 1..n
        BY <1>1, <1>3
    <2>2. \A k \in (start + 1)..e : Order[k] \in Configured
        BY <1>1, <2>1
    <2> QED
        BY <2>1, <2>2, SubSeqProperties
<1>6. DOMAIN B = 1..(e - start) /\ \A k \in 1..(e - start) : B[k] = Order[start + k]
    <2>1. e - (start + 1) + 1 = e - start /\ start + 1 <= e
        BY <1>1, <1>3
    <2>2. \A k \in 1..(e - start) : (start + 1) + k - 1 = start + k
        BY <1>1, <1>3
    <2> HIDE DEF B
    <2>3. DOMAIN B = 1..Len(B)
        BY <1>5
    <2> QED
        BY <1>5, <2>1, <2>2, <2>3
<1>7. Lookup!Range(B) = { B[k] : k \in DOMAIN B }
    BY Zenon DEF Lookup!Range
<1> HIDE DEF B
<1>8. \A k \in 1..(e - start) : start + k \in 1..n /\ start + k <= e /\ start < start + k
    BY <1>1, <1>3
<1>9. \A x : x \in Lookup!Range(B) <=> \E k \in 1..(e - start) : x = Order[start + k]
    BY <1>6, <1>7
<1>10. Order[i] \in Lookup!Range(B) => start < i /\ i <= e
    <2> SUFFICES ASSUME NEW k \in 1..(e - start), Order[i] = Order[start + k]
                 PROVE  start < i /\ i <= e
        BY <1>9
    <2>1. i = start + k
        BY <1>1, <1>4, <1>8
    <2> QED
        BY <1>8, <2>1
<1>11. start < i /\ i <= e => Order[i] \in Lookup!Range(B)
    <2> SUFFICES ASSUME start < i, i <= e
                 PROVE  Order[i] \in Lookup!Range(B)
        OBVIOUS
    <2>1. i - start \in 1..(e - start) /\ start + (i - start) = i
        BY <1>1, <1>3, <1>4
    <2> QED
        BY <1>9, <2>1
<1>12. Lookup!Range(B) \subseteq Configured
    BY <1>1, <1>8, <1>9
<1> QED
    BY <1>2, <1>4, <1>10, <1>11, <1>12 DEF B

(* One request: the IDs of its batch are answered, and the loop moves on   *)
(* by as many.                                                             *)
LEMMA RequestAnswers ==
    ASSUME LookupInv, Lookup!checkMemberGroups
    PROVE  LookupInv'
<1> DEFINE n == Len(Order)
           B == Lookup!Range(Lookup!Batch)
<1>1. /\ start < n /\ start' = start + Limit /\ pc = "check"
      /\ memberships' = memberships \cup (B \cap member[1])
      /\ answer' = [id \in LookupIDs |-> IF id \in B THEN Append(answer[id], id \in member[1])
                                         ELSE answer[id]]
      /\ UNCHANGED <<member, groupAliases, user, pc, changes>>
    BY DEF Lookup!checkMemberGroups, Order
<1>2. Order' = Order /\ Configured' = Configured
    BY <1>1, Zenon DEF Order, Configured, Lookup!groupIDs
<1>3. /\ start \in Nat /\ Limit \in Nat /\ Limit > 0 /\ start' \in Nat
      /\ groupAliases \in [LookupAliases -> Seq(LookupIDs)] /\ memberships \subseteq Configured
      /\ \A i \in 1..n : IF i <= start THEN AskedFor(i) ELSE Unasked(i)
    BY <1>1, SequentialAssumption DEF LookupInv
<1>4. /\ B \subseteq Configured
      /\ \A i \in 1..n : Order[i] \in B <=> start < i /\ i <= start'
    <2>1. 1 \in 1..n
        BY <1>1, <1>3, OrderIsComplete
    <2> QED
        BY <1>1, <2>1, BatchNames
<1>5. \A i \in 1..n : Order[i] \in LookupIDs /\ i \in Nat
    BY <1>3, OrderIsComplete, FinitelyConfigured
<1> HIDE DEF B
<1>6. ASSUME NEW i \in 1..n
      PROVE  /\ IF i <= start' THEN answer'[Order[i]] = <<Order[i] \in memberships'>>
                ELSE answer'[Order[i]] = <<>> /\ Order[i] \notin memberships'
             /\ start < i => (Order[i] \in memberships' <=> Order[i] \in B /\ Order[i] \in member[1])
             /\ i <= start => (Order[i] \in memberships' <=> Order[i] \in memberships)
    <2> DEFINE id == Order[i]
    <2>0. id \in LookupIDs /\ i \in Nat
        BY <1>5
    <2>1. /\ answer'[id] = IF id \in B THEN Append(answer[id], id \in member[1]) ELSE answer[id]
          /\ id \in memberships' <=> id \in memberships \/ (id \in B /\ id \in member[1])
        BY <1>1, <2>0
    <2>2. id \in B <=> start < i /\ i <= start'
        BY <1>4
    <2>3. /\ i <= start => answer[id] = <<id \in memberships>>
          /\ ~(i <= start) => answer[id] = <<>> /\ id \notin memberships
        BY <1>3 DEF AskedFor, Unasked
    <2> HIDE DEF id
    <2>4. CASE i <= start
        <3>1. id \notin B /\ i <= start' /\ ~(start < i)
            BY <1>1, <1>3, <2>0, <2>2, <2>4
        <3>2. (id \in memberships') = (id \in memberships)
            BY <2>1, <3>1
        <3>3. answer'[id] = <<id \in memberships'>>
            BY <2>1, <2>3, <2>4, <3>1, <3>2
        <3> QED
            BY <3>1, <3>2, <3>3 DEF id
    <2>5. CASE ~(i <= start) /\ i <= start'
        <3>1. id \in B /\ start < i
            BY <1>3, <2>0, <2>2, <2>5
        <3>2. (id \in memberships') = (id \in member[1])
            BY <2>1, <2>3, <2>5, <3>1
        <3>3. answer'[id] = <<id \in member[1]>>
            <4>1. answer'[id] = Append(<<>>, id \in member[1])
                BY <2>1, <2>3, <2>5, <3>1
            <4>2. \A b : Append(<<>>, b) = <<b>>
                OBVIOUS
            <4> QED
                BY <4>1, <4>2
        <3> QED
            BY <2>5, <3>1, <3>2, <3>3 DEF id
    <2>6. CASE ~(i <= start) /\ ~(i <= start')
        <3>1. id \notin B
            BY <2>2, <2>6
        <3> QED
            BY <2>1, <2>3, <2>6, <3>1 DEF id
    <2> QED
        BY <2>4, <2>5, <2>6, <1>1, <1>3, <2>0
<1>7. \A i \in 1..n : (IF i <= start THEN AskedFor(i) ELSE Unasked(i))'
    BY <1>2, <1>6 DEF AskedFor, Unasked
<1>8. changes' = 0 => \A i \in 1..n :
          i <= start' => (Order[i] \in memberships' <=> Order[i] \in member'[1])
    <2> SUFFICES ASSUME changes' = 0, NEW i \in 1..n, i <= start'
                 PROVE  Order[i] \in memberships' <=> Order[i] \in member[1]
        BY <1>1
    <2>1. CASE i <= start
        BY <1>1, <1>6, <2>1 DEF LookupInv
    <2>2. CASE start < i
        BY <1>4, <1>6, <2>2
    <2> QED
        BY <1>3, <1>5, <2>1, <2>2
<1>9. memberships' \subseteq Configured
    BY <1>1, <1>3, <1>4
<1>10. /\ groupAliases' \in [LookupAliases -> Seq(LookupIDs)]
       /\ member' \in [{1} -> SUBSET LookupIDs]
       /\ changes' \in Nat /\ pc' # "done"
    BY <1>1 DEF LookupInv
<1> QED
    BY <1>2, <1>3, <1>7, <1>8, <1>9, <1>10 DEF LookupInv

(* Memberships that others change say nothing of what was answered.        *)
LEMMA ElsewhereKeeps ==
    ASSUME LookupInv, Lookup!Elsewhere
    PROVE  LookupInv'
<1>1. /\ changes' = changes + 1 /\ pc = "check"
      /\ UNCHANGED <<groupAliases, start, memberships, user, pc, answer>>
    BY DEF Lookup!Elsewhere
<1>2. Order' = Order /\ Configured' = Configured
    BY <1>1, Zenon DEF Order, Configured, Lookup!groupIDs
<1>3. changes \in Nat /\ changes' \in Nat /\ changes' # 0
    BY <1>1 DEF LookupInv
<1>4. member' \in [{1} -> SUBSET LookupIDs]
    <2>1. PICK id \in LookupIDs :
              member' = [member EXCEPT ![1] = IF id \in @ THEN @ \ {id} ELSE @ \cup {id}]
        BY DEF Lookup!Elsewhere
    <2>2. member \in [{1} -> SUBSET LookupIDs]
        BY DEF LookupInv
    <2> QED
        BY <2>1, <2>2
<1> QED
    BY <1>1, <1>2, <1>3, <1>4 DEF LookupInv, AskedFor, Unasked

LEMMA LookupStep ==
    ASSUME LookupInv, [Lookup!Next]_Lookup!rvars
    PROVE  LookupInv'
<1>1. CASE Lookup!checkMemberGroups
    BY <1>1, RequestAnswers
<1>2. CASE Lookup!Elsewhere
    BY <1>2, ElsewhereKeeps
<1>3. ASSUME UNCHANGED <<member, groupAliases, start, memberships, changes, answer>>
      PROVE  Order' = Order /\ Configured' = Configured
    BY <1>3, Zenon DEF Order, Configured, Lookup!groupIDs
<1>4. CASE Lookup!GetUser \/ Lookup!RequestFails
    <2>1. /\ UNCHANGED <<member, groupAliases, start, memberships, user, changes, answer>>
          /\ pc' # "done"
        BY <1>4 DEF Lookup!GetUser, Lookup!RequestFails
    <2>2. Order' = Order /\ Configured' = Configured
        BY <1>3, <2>1
    <2> QED
        BY <2>1, <2>2 DEF LookupInv, AskedFor, Unasked
<1>5. CASE Lookup!Resolved
    <2>1. /\ UNCHANGED <<member, groupAliases, start, memberships, changes, answer>>
          /\ start >= Len(Order)
          /\ user' = UNION { { a \in LookupAliases : id \in Lookup!Range(groupAliases[a]) } :
                             id \in memberships }
        BY <1>5 DEF Lookup!Resolved, Order
    <2>2. Order' = Order /\ Configured' = Configured
        BY <1>3, <2>1
    <2>3. (pc = "done" =>
              /\ start >= Len(Order)
              /\ user = UNION { { a \in LookupAliases : id \in Lookup!Range(groupAliases[a]) } :
                                id \in memberships })'
        BY <2>1, <2>2
    <2> QED
        BY <2>1, <2>2, <2>3 DEF LookupInv, AskedFor, Unasked
<1>6. CASE UNCHANGED Lookup!rvars
    <2>1. UNCHANGED <<member, groupAliases, start, memberships, user, pc, changes, answer>>
        BY <1>6 DEF Lookup!rvars
    <2>2. Order' = Order /\ Configured' = Configured
        BY <1>3, <2>1
    <2> QED
        BY <2>1, <2>2 DEF LookupInv, AskedFor, Unasked
<1> QED
    BY <1>1, <1>2, <1>4, <1>5, <1>6 DEF Lookup!Next

(* A user who was resolved has exactly the aliases that Graph confirmed an *)
(* ID of, and every configured ID was asked for once: for any number of    *)
(* aliases and IDs, batches of any size, and whatever others change.       *)
THEOREM ResolvedUsersAreConfirmed == Spec => []ResolvedIsConfirmed
<1>1. Lookup!Init => LookupInv
    BY LookupBegins
<1>2. LookupInv => Lookup!ResolvedIsConfirmed
    <2> SUFFICES ASSUME LookupInv, pc = "done"
                 PROVE  /\ \A a \in LookupAliases :
                              a \in user <=> \E id \in Lookup!Range(groupAliases[a]) :
                                                answer[id] = <<TRUE>>
                        /\ \A id \in Lookup!Range(Order) : Len(answer[id]) = 1
                        /\ changes = 0 =>
                              user = Lookup!AliasesOf([groups |-> groupAliases], member[1])
        BY Zenon DEF Lookup!ResolvedIsConfirmed, Order
    <2>1. /\ start >= Len(Order) /\ start \in Nat /\ memberships \subseteq Configured
          /\ user = UNION { { a \in LookupAliases : id \in Lookup!Range(groupAliases[a]) } :
                            id \in memberships }
          /\ groupAliases \in [LookupAliases -> Seq(LookupIDs)]
        BY DEF LookupInv
    <2>2. /\ Len(Order) \in Nat /\ DOMAIN Order = 1..Len(Order)
          /\ \A x \in Configured : \E i \in 1..Len(Order) : Order[i] = x
          /\ \A i \in 1..Len(Order) : Order[i] \in Configured
        BY <2>1, OrderIsComplete
    <2>3. \A i \in 1..Len(Order) : i <= start
        BY <2>1, <2>2
    <2>4. ASSUME NEW x \in Configured
          PROVE  /\ answer[x] = <<x \in memberships>>
                 /\ changes = 0 => (x \in memberships <=> x \in member[1])
        BY <2>2, <2>3 DEF LookupInv, AskedFor
    <2>5. \A a \in LookupAliases : Lookup!Range(groupAliases[a]) \subseteq Configured
        BY DEF Configured
    <2>6. \A a : a \in user <=>
              a \in LookupAliases /\ \E id \in Lookup!Range(groupAliases[a]) : id \in memberships
        BY <2>1
    <2>7. ASSUME NEW a \in LookupAliases
          PROVE  a \in user <=> \E id \in Lookup!Range(groupAliases[a]) : answer[id] = <<TRUE>>
        <3>1. \A x \in Configured : answer[x] = <<TRUE>> <=> x \in memberships
            <4> SUFFICES ASSUME NEW x \in Configured
                         PROVE  answer[x] = <<TRUE>> <=> x \in memberships
                OBVIOUS
            <4>1. answer[x] = <<x \in memberships>>
                BY <2>4
            <4>2. answer[x][1] = (x \in memberships)
                BY <4>1
            <4>3. <<TRUE>>[1] = TRUE
                OBVIOUS
            <4>4. CASE x \in memberships
                BY <4>1, <4>4
            <4>5. CASE x \notin memberships
                BY <4>2, <4>3, <4>5
            <4> QED
                BY <4>4, <4>5
        <3> QED
            BY <2>5, <2>6, <3>1
    <2>8. ASSUME NEW id \in Lookup!Range(Order)
          PROVE  Len(answer[id]) = 1
        <3>1. id \in Configured
            BY <2>2 DEF Lookup!Range
        <3>2. answer[id] = <<id \in memberships>>
            BY <2>4, <3>1
        <3> QED
            BY <3>2
    <2>9. ASSUME changes = 0
          PROVE  user = Lookup!AliasesOf([groups |-> groupAliases], member[1])
        <3>1. Lookup!AliasesOf([groups |-> groupAliases], member[1])
              = { a \in LookupAliases : Lookup!Range(groupAliases[a]) \cap member[1] # {} }
            BY <2>1 DEF Lookup!AliasesOf
        <3>2. \A x \in Configured : x \in memberships <=> x \in member[1]
            BY <2>4, <2>9
        <3>3. \A a : a \in user <=>
                  a \in LookupAliases /\ Lookup!Range(groupAliases[a]) \cap member[1] # {}
            BY <2>5, <2>6, <3>2
        <3> QED
            BY <3>1, <3>3
    <2> QED
        BY <2>7, <2>8, <2>9
<1>3. Init => (part = "resolve" => LookupInv)
    BY <1>1, PartsBegin
<1>4. (part = "resolve" => LookupInv) /\ [Next]_vars => (part = "resolve" => LookupInv)'
    BY LookupStep, PartsStep
<1>5. (part = "resolve" => LookupInv) => ResolvedIsConfirmed
    BY <1>2 DEF ResolvedIsConfirmed
<1> QED
    BY <1>3, <1>4, <1>5, PTL DEF Spec

-----------------------------------------------------------------------------
(* Layout *)

Operations == [scoped : BOOLEAN, old : BOOLEAN]

LayoutInputs ==
    [width : Nat, height : Nat, total : BOOLEAN, label : Nat, detail : Nat, counts : Nat,
     elapsed : Nat, groups : Seq(Operations)]

LEMMA LayoutsBegin ==
    ASSUME Screen!Init
    PROVE  in \in LayoutInputs /\ row = Screen!Unset /\ frame.lines = -1
<1>1. /\ Widths \subseteq Nat /\ Heights \subseteq Nat /\ Labels \subseteq Nat /\ Details \subseteq Nat
      /\ Counts \subseteq Nat /\ Times \subseteq Nat /\ MaxGroups \in Nat
    BY SequentialAssumption
<1>2. row = Screen!Unset /\ frame.lines = -1
    BY DEF Screen!Init
<1>3. CASE in \in [width : Widths, height : {24}, total : BOOLEAN, label : Labels, detail : Details,
                   counts : Counts, elapsed : Times, groups : {<<[scoped |-> TRUE, old |-> TRUE]>>}]
    <2>1. <<[scoped |-> TRUE, old |-> TRUE]>> \in Seq(Operations)
        BY DEF Operations
    <2>2. 24 \in Nat
        OBVIOUS
    <2> QED
        BY <1>1, <1>2, <1>3, <2>1, <2>2 DEF LayoutInputs
<1>4. ASSUME NEW n \in 0..MaxGroups,
             in \in [width : {80}, height : Heights, total : {FALSE}, label : {20}, detail : {0},
                     counts : {0}, elapsed : {0},
                     groups : [1..n -> [scoped : BOOLEAN, old : BOOLEAN]]]
      PROVE  in \in LayoutInputs
    <2>1. n \in Nat
        BY <1>1
    <2> DEFINE Sequences == [1..n -> Operations]
    <2>2. Sequences \subseteq Seq(Operations)
        BY <2>1, SeqDef
    <2>3. in \in [width : {80}, height : Heights, total : {FALSE}, label : {20}, detail : {0},
                  counts : {0}, elapsed : {0}, groups : Sequences]
        BY <1>4, Zenon DEF Operations
    <2> HIDE DEF Sequences
    <2>4. /\ in.width = 80 /\ in.height \in Heights /\ in.label = 20 /\ in.detail = 0
          /\ in.counts = 0 /\ in.elapsed = 0 /\ in.groups \in Sequences
        BY <2>3
    <2>5. in.total = FALSE
        BY <2>3
    <2>6. in.groups \in Seq(Operations)
        BY <2>2, <2>4
    <2>7. in.height \in Nat
        BY <1>1, <2>4
    <2>8. /\ in.width \in Nat /\ in.label \in Nat /\ in.detail \in Nat
          /\ in.counts \in Nat /\ in.elapsed \in Nat
        BY <2>4
    <2>9. in = [width |-> in.width, height |-> in.height, total |-> in.total, label |-> in.label,
                detail |-> in.detail, counts |-> in.counts, elapsed |-> in.elapsed, groups |-> in.groups]
        BY <2>3
    <2> QED
        BY <2>5, <2>6, <2>7, <2>8, <2>9, Zenon DEF LayoutInputs
<1> QED
    BY <1>2, <1>3, <1>4 DEF Screen!Init

(* Max, of two numbers. *)
LEMMA ScreenMax ==
    ASSUME NEW a \in Int, NEW b \in Int
    PROVE  Screen!Max({a, b}) = IF a <= b THEN b ELSE a
<1>1. Screen!Max({a, b}) = Max({a, b})
    BY Zenon DEF Screen!Max, Max
<1> QED
    BY <1>1, MaxOfTwo

(* The detail is kept where all parts fit without the bar; otherwise it is *)
(* left out or leaves room for them.                                       *)
LEMMA DetailFits ==
    ASSUME in \in LayoutInputs, NEW room \in Int, NEW d \in Screen!ShortDetail(room)
    PROVE  /\ d \in Nat
           /\ LET all == Screen!measure(in.detail, 0, in.counts, in.elapsed)
              IN  IF all <= room \/ in.detail = 0 THEN d = in.detail
                  ELSE d = 0 \/ (d \in 1..in.detail /\ d <= in.detail - (all - room))
<1> DEFINE over == Screen!measure(in.detail, 0, in.counts, in.elapsed) - room
           n == Screen!Max({0, in.detail - over})
<1>1. in.detail \in Nat /\ in.counts \in Nat /\ in.elapsed \in Nat
    BY DEF LayoutInputs
<1>2. Screen!measure(in.detail, 0, in.counts, in.elapsed) \in Nat
    BY <1>1 DEF Screen!measure, Screen!Part
<1>3. over \in Int
    BY <1>2
<1>4. d \in IF over <= 0 \/ in.detail = 0 THEN {in.detail}
            ELSE { IF v < Screen!MinDetail THEN 0 ELSE v : v \in Screen!Truncate(in.detail, n, 1) }
    BY Zenon DEF Screen!ShortDetail
<1>5. over <= 0 <=> Screen!measure(in.detail, 0, in.counts, in.elapsed) <= room
    BY <1>2
<1> HIDE DEF over
<1>6. n = IF 0 <= in.detail - over THEN in.detail - over ELSE 0
    BY <1>1, <1>3, ScreenMax
<1> HIDE DEF n
<1>7. CASE over <= 0 \/ in.detail = 0
    BY <1>1, <1>4, <1>5, <1>7
<1>8. CASE ~(over <= 0 \/ in.detail = 0)
    <2>1. PICK v \in Screen!Truncate(in.detail, n, 1) : d = IF v < Screen!MinDetail THEN 0 ELSE v
        BY <1>4, <1>8
    <2>2. v = 1 \/ v = n \/ v = n - 1
        BY <1>1, <1>3, <1>6, <1>8, <2>1 DEF Screen!Truncate
    <2>3. d = 0 \/ (d \in Nat /\ d >= 8 /\ d <= n)
        BY <1>1, <1>3, <1>6, <1>8, <2>1, <2>2 DEF Screen!MinDetail
    <2>4. d = 0 \/ (d \in 1..in.detail /\ d <= in.detail - over)
        BY <1>1, <1>3, <1>6, <1>8, <2>3
    <2> QED
        BY <1>2, <1>5, <1>8, <2>4 DEF over
<1> QED
    BY <1>7, <1>8

(* The parts after the label, for a room of any size. *)
PartsFit(f, room) ==
    /\ f.detail \in Nat /\ f.bar \in Nat /\ f.counts \in Nat /\ f.elapsed \in Nat
    /\ Screen!Rest(f) \in Nat
    /\ Screen!Rest(f) <= room \/ Screen!Rest(f) = 0
    /\ f.elapsed < in.elapsed => f.counts = 0 /\ f.detail = 0
    /\ f.counts < in.counts => f.detail = 0
    /\ f.detail < in.detail => f.bar = 0
    /\ Screen!measure(in.detail, IF in.total /\ in.counts > 0 THEN Screen!BarWidth ELSE 0,
                      in.counts, in.elapsed) <= room
         => /\ f.detail = in.detail /\ f.counts = in.counts /\ f.elapsed = in.elapsed
            /\ in.total /\ in.counts > 0 => f.bar = Screen!BarWidth

LEMMA PartsFitted ==
    ASSUME in \in LayoutInputs, NEW room \in Int, NEW d \in Screen!ShortDetail(room)
    PROVE  PartsFit(Screen!Fitted(d, room), room)
<1> DEFINE f == Screen!Fitted(d, room)
           bar == f.bar
           counts == f.counts
           elapsed == f.elapsed
<1>1. in.detail \in Nat /\ in.counts \in Nat /\ in.elapsed \in Nat /\ in.total \in BOOLEAN
    BY DEF LayoutInputs
<1>2. /\ d \in Nat
      /\ LET all == Screen!measure(in.detail, 0, in.counts, in.elapsed)
         IN  IF all <= room \/ in.detail = 0 THEN d = in.detail
             ELSE d = 0 \/ (d \in 1..in.detail /\ d <= in.detail - (all - room))
    BY DetailFits
<1>3. /\ f.detail = d
      /\ bar = IF in.total /\ in.counts > 0
                  /\ Screen!measure(in.detail, 20, in.counts, in.elapsed) <= room THEN 20 ELSE 0
      /\ counts = IF Screen!measure(d, 0, in.counts, in.elapsed) > room THEN 0 ELSE in.counts
      /\ elapsed = IF Screen!measure(d, 0, 0, in.elapsed) > room THEN 0 ELSE in.elapsed
    BY DEF Screen!Fitted, Screen!BarWidth
<1> HIDE DEF f
<1>4. bar \in {0, 20} /\ counts \in Nat /\ elapsed \in Nat
    BY <1>1, <1>3
<1>5. Screen!Rest(f) = Screen!measure(d, bar, counts, elapsed)
    BY <1>3 DEF Screen!Rest
<1> HIDE DEF bar, counts, elapsed
<1>6. Screen!Rest(f) \in Nat
    BY <1>2, <1>4, <1>5 DEF Screen!measure, Screen!Part
<1>7. Screen!Rest(f) <= room \/ Screen!Rest(f) = 0
    BY <1>1, <1>2, <1>3, <1>4, <1>5 DEF Screen!measure, Screen!Part
<1>8. /\ elapsed < in.elapsed => counts = 0 /\ d = 0
      /\ counts < in.counts => d = 0
      /\ d < in.detail => bar = 0
    BY <1>1, <1>2, <1>3, <1>4 DEF Screen!measure, Screen!Part
<1>9. Screen!measure(in.detail, IF in.total /\ in.counts > 0 THEN 20 ELSE 0, in.counts, in.elapsed) <= room
         => /\ d = in.detail /\ counts = in.counts /\ elapsed = in.elapsed
            /\ in.total /\ in.counts > 0 => bar = 20
    <2> DEFINE all(bars) == Screen!measure(in.detail, bars, in.counts, in.elapsed)
    <2>1. all(0) \in Nat /\ all(20) = all(0) + 21
        BY <1>1 DEF Screen!measure, Screen!Part
    <2>2. all(0) <= room => d = in.detail
        BY <1>2
    <2>3. all(0) <= room => counts = in.counts
        BY <1>3, <2>1, <2>2
    <2>4. all(0) <= room => elapsed = in.elapsed
        <3>1. Screen!measure(in.detail, 0, 0, in.elapsed) \in Nat
              /\ Screen!measure(in.detail, 0, 0, in.elapsed) <= all(0)
            BY <1>1 DEF Screen!measure, Screen!Part
        <3> QED
            BY <1>3, <2>1, <2>2, <3>1
    <2> HIDE DEF all
    <2>5. CASE in.total /\ in.counts > 0
        BY <1>3, <2>1, <2>2, <2>3, <2>4, <2>5 DEF all
    <2>6. CASE ~(in.total /\ in.counts > 0)
        BY <2>2, <2>3, <2>4, <2>6 DEF all
    <2> QED
        BY <2>5, <2>6
<1>10. /\ f.detail < in.detail => f.bar = 0
       /\ f.elapsed < in.elapsed => f.counts = 0 /\ f.detail = 0
       /\ f.counts < in.counts => f.detail = 0
       /\ f.bar \in Nat /\ f.counts \in Nat /\ f.elapsed \in Nat /\ f.detail \in Nat
    BY <1>2, <1>3, <1>4, <1>8 DEF bar, counts, elapsed
<1>11. Screen!measure(in.detail, IF in.total /\ in.counts > 0 THEN 20 ELSE 0, in.counts, in.elapsed) <= room
         => /\ f.detail = in.detail /\ f.counts = in.counts /\ f.elapsed = in.elapsed
            /\ in.total /\ in.counts > 0 => f.bar = 20
    BY <1>3, <1>9 DEF bar, counts, elapsed
<1>12. PartsFit(f, room)
    BY <1>6, <1>7, <1>10, <1>11, Zenon DEF PartsFit, Screen!BarWidth
<1> QED
    BY <1>12 DEF f

(* progressText lays a row out that fits, and gives up in order. *)
LEMMA RowsFit ==
    ASSUME in \in LayoutInputs, Screen!progressText
    PROVE  in' = in /\ frame' = frame /\ (Screen!RowFits /\ Screen!GivesUpInOrder)'
<1> DEFINE room == Screen!Available - in.label
<1>1. /\ in.width \in Nat /\ in.label \in Nat /\ in.counts \in Nat /\ in.detail \in Nat
      /\ in.elapsed \in Nat /\ in.total \in BOOLEAN
    BY DEF LayoutInputs
<1>2. in' = in /\ frame' = frame
    BY DEF Screen!progressText
<1>3. Screen!Mark \in {0, 1} /\ Screen!Mark' = Screen!Mark
    BY <1>1, <1>2 DEF Screen!Mark
<1>4. /\ Screen!Available = IF 0 <= in.width - 4 - Screen!Mark THEN in.width - 4 - Screen!Mark ELSE 0
      /\ Screen!Available \in Nat /\ Screen!Available' = Screen!Available
    <2>1. in.width - (2 + Screen!Mark) - 2 \in Int
        BY <1>1, <1>3
    <2>2. Screen!Available = Screen!Max({0, in.width - (2 + Screen!Mark) - 2})
        BY DEF Screen!Available, Screen!Indent
    <2>3. Screen!Available = IF 0 <= in.width - (2 + Screen!Mark) - 2
                             THEN in.width - (2 + Screen!Mark) - 2 ELSE 0
        BY <2>1, <2>2, ScreenMax
    <2>4. Screen!Available' = Screen!Available
        BY <1>2, <1>3 DEF Screen!Available
    <2> QED
        BY <1>1, <1>3, <2>3, <2>4
<1>5. room \in Int
    BY <1>1, <1>4
<1>6. PICK d \in Screen!ShortDetail(room) :
         \E label \in Screen!FittedLabel(Screen!Fitted(d, room)) :
            row' = [label |-> label, detail |-> Screen!Fitted(d, room).detail,
                    bar |-> Screen!Fitted(d, room).bar,
                    counts |-> Screen!Fitted(d, room).counts,
                    elapsed |-> Screen!Fitted(d, room).elapsed]
    BY Zenon DEF Screen!progressText
<1> DEFINE f == Screen!Fitted(d, room)
<1>7. PICK label \in Screen!FittedLabel(f) :
          row' = [label |-> label, detail |-> f.detail, bar |-> f.bar,
                  counts |-> f.counts, elapsed |-> f.elapsed]
    BY <1>6
<1>8. PartsFit(f, room)
    BY <1>5, <1>6, PartsFitted
<1> HIDE DEF f
<1> DEFINE rest == Screen!Rest(f)
<1>9. rest \in Nat /\ rest <= Screen!Available /\ (rest = 0 \/ rest <= Screen!Available - in.label)
    BY <1>1, <1>4, <1>8 DEF PartsFit
<1>10. /\ label \in Nat /\ label <= Screen!Available - rest
       /\ label = in.label \/ in.label > Screen!Available - rest
    <2> DEFINE n == Screen!Max({0, Screen!Available - rest})
    <2>1. n = Screen!Available - rest
        <3> HIDE DEF rest
        <3> QED
            BY <1>4, <1>9, ScreenMax
    <2>2. label \in Screen!Truncate(in.label, n, IF Screen!Available - rest < 1 THEN 0 ELSE 1)
        BY <1>7 DEF Screen!FittedLabel
    <2> HIDE DEF n, rest
    <2> QED
        BY <1>1, <1>4, <1>9, <2>1, <2>2 DEF Screen!Truncate
<1>11. Screen!Rest(row)' = rest
    BY <1>7 DEF Screen!Rest, Screen!measure, Screen!Part
<1> HIDE DEF rest
<1>12. Screen!RowFits'
    <2>1. Screen!RowWidth' = 2 + 2 * Screen!Mark + label + rest
        BY <1>2, <1>3, <1>7, <1>11 DEF Screen!RowWidth, Screen!Indent
    <2>2. in.width >= 5 => Screen!RowWidth' <= in.width - 1
        BY <1>1, <1>3, <1>4, <1>9, <1>10, <2>1
    <2> QED
        BY <1>2, <2>2 DEF Screen!RowFits
<1>13. Screen!GivesUpInOrder'
    <2>1. label < in.label => rest = 0
        BY <1>1, <1>4, <1>9, <1>10
    <2>2. /\ f.elapsed < in.elapsed => f.counts = 0 /\ f.detail = 0
          /\ f.counts < in.counts => f.detail = 0
          /\ f.detail < in.detail => f.bar = 0
        BY <1>8 DEF PartsFit
    <2> DEFINE m == Screen!measure(in.detail, IF in.total /\ in.counts > 0 THEN Screen!BarWidth ELSE 0,
                                   in.counts, in.elapsed)
    <2>3. m \in Nat
        BY <1>1 DEF Screen!measure, Screen!Part, Screen!BarWidth
    <2>4. m <= room => /\ f.detail = in.detail /\ f.counts = in.counts /\ f.elapsed = in.elapsed
                       /\ in.total /\ in.counts > 0 => f.bar = Screen!BarWidth
        BY <1>8 DEF PartsFit
    <2>5. in.label + m <= Screen!Available => m <= room
        <3> HIDE DEF m
        <3> QED
            BY <1>1, <1>4, <2>3
    <2>6. in.label + m <= Screen!Available => label = in.label
        <3> HIDE DEF m
        <3> QED
            BY <1>1, <1>4, <1>9, <1>10, <2>3, <2>4
    <2> QED
        BY <1>2, <1>4, <1>7, <1>11, <2>1, <2>2, <2>4, <2>5, <2>6, Zenon DEF Screen!GivesUpInOrder
<1> QED
    BY <1>2, <1>12, <1>13

(* The lines that the operations take are defined for each of them. *)
LEMMA LinesRecur ==
    ASSUME in \in LayoutInputs
    PROVE  LET lines == Screen!LinesTo
           IN  /\ lines[0] = 0
               /\ \A i \in DOMAIN in.groups : lines[i] = lines[i - 1] + Screen!Needed(i)
<1> DEFINE n == Len(in.groups)
           v == [i \in 1..n |-> Screen!Needed(i)]
           Rule(f) == [i \in 0..n |-> IF i = 0 THEN 0 ELSE f[i - 1] + Screen!Needed(i)]
<1>1. n \in Nat /\ in.groups \in [1..n -> Operations] /\ DOMAIN in.groups = 1..n
    BY DEF LayoutInputs
<1> HIDE DEF n
<1>2. v \in [1..n -> Nat]
    BY <1>1 DEF Screen!Needed
<1>3. PICK f : Sums(f, v, n)
    <2> HIDE DEF v
    <2> QED
        BY <1>1, <1>2, PartialSums
<1>4. \A i \in 0..n : i = 0 \/ i \in 1..n
    BY <1>1
<1>5. f = Rule(f)
    BY <1>3, <1>4 DEF Sums
<1>6. Screen!LinesTo = CHOOSE g : g = Rule(g)
    BY Zenon DEF Screen!LinesTo, n
<1>7. Screen!LinesTo = Rule(Screen!LinesTo)
    <2> HIDE DEF Rule
    <2> QED
        BY <1>5, <1>6
<1>8. 0 \in 0..n /\ \A i \in 1..n : i # 0 /\ i \in 0..n
    BY <1>1
<1> QED
    BY <1>1, <1>7, <1>8

(* The operations before one that no other is too much for take no more    *)
(* lines than there are, and one less where there may be an announcement.  *)
LEMMA LinesWithinBudget ==
    ASSUME in \in LayoutInputs, Screen!Budget \in Nat, NEW last \in 0..Len(in.groups),
           \A i \in 1..last : in.groups[i].old => ~Screen!TooMuch(i)
    PROVE  /\ Screen!LinesTo[last] \in Nat /\ Screen!LinesTo[last] <= Screen!Budget
           /\ Screen!Budget >= 3 /\ last < Len(in.groups) => Screen!LinesTo[last] < Screen!Budget
<1> DEFINE n == Len(in.groups)
           lines == Screen!LinesTo
           Within(i) == /\ lines[i] \in Nat /\ lines[i] <= Screen!Budget
                        /\ Screen!Budget >= 3 /\ i < n => lines[i] < Screen!Budget
           S == { i \in Nat : i <= last => Within(i) }
<1>1. n \in Nat /\ in.groups \in [1..n -> Operations] /\ DOMAIN in.groups = 1..n
    BY DEF LayoutInputs
<1>2. lines[0] = 0 /\ \A i \in 1..n : lines[i] = lines[i - 1] + Screen!Needed(i)
    BY <1>1, LinesRecur
<1> HIDE DEF n, lines
<1>3. 0 \in S
    BY <1>2
<1>4. ASSUME NEW i \in Nat, i \in S
      PROVE  i + 1 \in S
    <2> SUFFICES ASSUME i + 1 <= last PROVE Within(i + 1)
        OBVIOUS
    <2>1. Within(i) /\ i + 1 \in 1..last /\ i + 1 \in 1..n
        BY <1>1, <1>4 DEF n
    <2>2. lines[i + 1] = lines[i] + Screen!Needed(i + 1)
        BY <1>2, <2>1
    <2>3. in.groups[i + 1].old \in BOOLEAN /\ in.groups[i + 1].scoped \in BOOLEAN
        BY <1>1, <2>1 DEF Operations
    <2>4. CASE ~in.groups[i + 1].old
        <3>1. lines[i + 1] = lines[i]
            BY <2>1, <2>2, <2>4 DEF Screen!Needed
        <3> QED
            BY <1>1, <2>1, <3>1
    <2>5. CASE in.groups[i + 1].old
        <3>1. ~Screen!TooMuch(i + 1)
            BY <2>1, <2>5
        <3>2. Screen!Needed(i + 1) \in Nat
            BY <2>3 DEF Screen!Needed
        <3>3. Screen!LinesBefore(i + 1) = lines[i]
            BY DEF Screen!LinesBefore, lines
        <3> QED
            BY <2>1, <2>2, <3>1, <3>2, <3>3 DEF Screen!TooMuch, n
    <2> QED
        BY <2>3, <2>4, <2>5
<1> HIDE DEF S
<1>5. Nat \subseteq S
    BY <1>3, <1>4, Induction
<1> QED
    BY <1>1, <1>5 DEF S, lines, n

(* view shows as many operations as there are lines for. *)
LEMMA FramesFit ==
    ASSUME in \in LayoutInputs, Screen!view
    PROVE  in' = in /\ row' = row /\ Screen!LinesFit'
<1> DEFINE n == Len(in.groups)
           old == { i \in DOMAIN in.groups : in.groups[i].old }
           cut == { i \in old : Screen!TooMuch(i) }
           from == Screen!Min(cut)
           lines == Screen!LinesTo
<1>1. n \in Nat /\ DOMAIN in.groups = 1..n /\ in.height \in Nat
    BY DEF LayoutInputs
<1>2. in' = in /\ row' = row
    BY DEF Screen!view
<1>3. Screen!Budget \in Nat /\ Screen!Budget <= Screen!Max({0, in.height - 1})
    <2> DEFINE m == Screen!Max({0, in.height - 1})
    <2>1. m \in Nat
        BY <1>1, ScreenMax
    <2> HIDE DEF m
    <2>2. Min({6, m}) \in Nat /\ Min({6, m}) <= m
        BY <2>1, MinOfTwo
    <2>3. Screen!Budget = Min({6, m})
        BY Zenon DEF Screen!Budget, Screen!Min, Min, m
    <2> QED
        BY <2>2, <2>3 DEF m
<1>4. Screen!Budget' = Screen!Budget
    BY <1>2 DEF Screen!Budget
<1>5. frame' = IF cut = {} THEN [lines |-> lines[n], shown |-> old, more |-> 0]
               ELSE IF lines[from - 1] < Screen!Budget
               THEN [lines |-> lines[from - 1] + 1, shown |-> { i \in old : i < from },
                     more |-> n - from + 1]
               ELSE [lines |-> lines[from - 1], shown |-> { i \in old : i < from }, more |-> 0]
    <2>1. Screen!LinesBefore(from) = lines[from - 1]
        BY Zenon DEF Screen!LinesBefore
    <2>2. Screen!LinesBefore(n + 1) = lines[n]
        <3>1. (n + 1) - 1 = n
            BY <1>1
        <3>2. Screen!LinesBefore(n + 1) = lines[(n + 1) - 1]
            BY Zenon DEF Screen!LinesBefore
        <3> QED
            BY <3>1, <3>2
    <2> HIDE DEF lines
    <2> QED
        BY <2>1, <2>2, Zenon DEF Screen!view
<1>6. \A i \in old : i \in 1..n
    BY <1>1
<1>7. CASE cut = {}
    <2>1. \A i \in 1..n : in.groups[i].old => ~Screen!TooMuch(i)
        BY <1>1, <1>7
    <2>2. n \in 0..n
        BY <1>1
    <2>3. lines[n] <= Screen!Budget /\ lines[n] \in Nat
        BY <1>3, <2>1, <2>2, LinesWithinBudget
    <2>4. frame'.lines = lines[n] /\ frame'.shown = old
        BY <1>5, <1>7
    <2>5. { i \in DOMAIN in.groups : in.groups[i].old /\ i \notin frame'.shown } = {}
        BY <2>4
    <2> HIDE DEF lines
    <2>6. frame'.lines <= Screen!Max({0, in.height - 1})
        <3>1. Screen!Max({0, in.height - 1}) \in Nat
            BY <1>1, ScreenMax
        <3> QED
            BY <1>3, <2>3, <2>4, <3>1
    <2>7. Screen!LinesFit'
        BY <1>2, <2>5, <2>6 DEF Screen!LinesFit
    <2> QED
        BY <1>2, <2>7
<1>8. CASE cut # {}
    <2>1. cut \in SUBSET Nat
        BY <1>6
    <2>2. from = Min(cut)
        BY Zenon DEF Screen!Min, Min
    <2>3. from \in cut /\ \A i \in cut : from <= i
        BY <1>8, <2>1, <2>2, MinIsLeast
    <2>4. from \in 1..n /\ from - 1 \in 0..n /\ from - 1 < n
        BY <1>1, <1>6, <2>3
    <2> HIDE DEF from
    <2>5. \A i \in 1..(from - 1) : in.groups[i].old => ~Screen!TooMuch(i)
        BY <1>1, <2>3, <2>4
    <2>6. /\ lines[from - 1] \in Nat /\ lines[from - 1] <= Screen!Budget
          /\ Screen!Budget >= 3 => lines[from - 1] < Screen!Budget
        BY <1>3, <2>4, <2>5, LinesWithinBudget
    <2> HIDE DEF lines
    <2>7. frame'.lines <= Screen!Budget /\ frame'.lines \in Nat
        BY <1>3, <1>5, <1>8, <2>6
    <2>8. frame'.shown = { i \in old : i < from }
        BY <1>5, <1>8
    <2>9. Screen!Budget >= 3 => (n - frame'.more + 1)..n = from..n
        <3> SUFFICES ASSUME Screen!Budget >= 3 PROVE n - frame'.more + 1 = from
            OBVIOUS
        <3>1. frame'.more = n - from + 1
            BY <1>5, <1>8, <2>6
        <3> QED
            BY <1>1, <2>4, <3>1
    <2>10. { i \in DOMAIN in.groups : in.groups[i].old /\ i \notin frame'.shown } \subseteq from..n
        BY <1>1, <2>4, <2>8
    <2>11. frame'.lines <= Screen!Max({0, in.height - 1})
        <3>1. Screen!Max({0, in.height - 1}) \in Nat
            BY <1>1, ScreenMax
        <3> QED
            BY <1>3, <2>7, <3>1
    <2>12. Screen!LinesFit'
        BY <1>2, <1>4, <2>9, <2>10, <2>11 DEF Screen!LinesFit
    <2> QED
        BY <1>2, <2>12
<1> QED
    BY <1>7, <1>8

LayoutInv == in \in LayoutInputs /\ Screen!FrameFits

(* For terminals of every size, and operations of every width and number:  *)
(* no row wraps, a row gives up its parts in the order stated, and a frame *)
(* is lower than the screen and announces what it leaves out.              *)
THEOREM FramesFitTheScreen == Spec => []FrameFits
<1>1. Screen!Init => LayoutInv
    BY LayoutsBegin, Zenon DEF LayoutInv, Screen!FrameFits, Screen!RowFits, Screen!GivesUpInOrder,
                               Screen!LinesFit
<1>2. LayoutInv /\ [Screen!Next]_layoutVars => LayoutInv'
    <2> SUFFICES ASSUME LayoutInv, [Screen!Next]_layoutVars
                 PROVE  LayoutInv'
        OBVIOUS
    <2>1. in \in LayoutInputs /\ Screen!RowFits /\ Screen!GivesUpInOrder /\ Screen!LinesFit
        BY DEF LayoutInv, Screen!FrameFits
    <2>2. in' = in /\ row' = row => Screen!RowFits' /\ Screen!GivesUpInOrder'
        BY <2>1 DEF Screen!RowFits, Screen!GivesUpInOrder, Screen!RowWidth, Screen!Rest, Screen!measure,
                    Screen!Part, Screen!Mark, Screen!Available
    <2>3. in' = in /\ frame' = frame => Screen!LinesFit'
        BY <2>1 DEF Screen!LinesFit, Screen!Budget
    <2>4. CASE Screen!progressText
        BY <2>1, <2>3, <2>4, RowsFit DEF LayoutInv, Screen!FrameFits
    <2>5. CASE Screen!view
        BY <2>1, <2>2, <2>5, FramesFit DEF LayoutInv, Screen!FrameFits
    <2>6. CASE UNCHANGED layoutVars
        BY <2>1, <2>2, <2>3, <2>6 DEF LayoutInv, Screen!FrameFits, layoutVars
    <2> QED
        BY <2>4, <2>5, <2>6 DEF Screen!Next
<1>3. Init => (part = "layout" => LayoutInv)
    BY <1>1, PartsBegin
<1>4. (part = "layout" => LayoutInv) /\ [Next]_vars => (part = "layout" => LayoutInv)'
    BY <1>2, PartsStep
<1>5. (part = "layout" => LayoutInv) => FrameFits
    BY DEF LayoutInv, FrameFits
<1> QED
    BY <1>3, <1>4, <1>5, PTL DEF Spec
-----------------------------------------------------------------------------
(* Previews *)

(* An intent is stored under its own key, and an event has one of them. *)
Stored ==
    /\ \A k \in Keys : intents[k] = Previews!NoIntent \/ Previews!Key(intents[k]) = k
    /\ intents = [k \in Keys |-> intents[k]]
    /\ event # Previews!NoIntent => event.subject = Previews!Subject /\ Previews!Key(event) \in Keys

(* What is planned for is what is stored, with the event laid over it. *)
ListedInv ==
    /\ pc \in {"list", "build", "write", "written", "delivered"}
    /\ pc \in {"build", "write", "written"} =>
          listed = IF event = Previews!NoIntent
                   THEN Previews!IntentsOf(Previews!Subject)
                   ELSE Previews!Overlay(Previews!IntentsOf(Previews!Subject))
    /\ pc = "delivered" => listed = Previews!IntentsOf(Previews!Subject)

(* A plan is the one for what is listed, and a page speaks of a plan. *)
PlannedInv ==
    /\ pc \in {"write", "written", "delivered"} => plan = Previews!PlanFor(listed, Previews!User)
    /\ pc \in {"list", "build", "write"} => page = [written |-> FALSE]
    /\ pc \in {"written", "delivered"} =>
          page = [written |-> TRUE,
                  satisfied |-> (plan.present \cap plan.current) \cup (plan.absent \ plan.current),
                  add |-> plan.present \ plan.current,
                  remove |-> plan.absent \cap plan.current,
                  preserved |-> Previews!Preserved(plan),
                  proposed |-> <<Previews!Cardinality(plan.add), Previews!Cardinality(plan.remove)>>,
                  reason |-> Previews!noChangeReason(plan)]

(* Delivering the event stores what was laid over the intents. *)
LEMMA DeliveryIsOverlay ==
    ASSUME Stored, event # Previews!NoIntent,
           intents' = [intents EXCEPT ![Previews!Key(event)] = event]
    PROVE  Previews!IntentsOf(Previews!Subject)'
              = Previews!Overlay(Previews!IntentsOf(Previews!Subject))
<1> DEFINE e == Previews!Key(event)
<1>1. e \in Keys /\ event.subject = Previews!Subject
    BY DEF Stored
<1>2. \A k \in Keys : intents'[k] = IF k = e THEN event ELSE intents[k]
    BY <1>1 DEF Stored
<1>3. \A k \in Keys : intents[k].subject = Previews!Subject => Previews!Key(intents[k]) = k
    BY DEF Stored, Previews!NoIntent, Previews!Subject, Previews!Blank
<1> HIDE DEF e
<1>4. Previews!IntentsOf(Previews!Subject)'
         = { intents'[k] : k \in { j \in Keys : intents'[j].subject = Previews!Subject } }
    BY DEF Previews!IntentsOf, Previews!Subject
<1>5. \A i : i \in Previews!IntentsOf(Previews!Subject)'
            <=> \E k \in Keys : i = intents'[k] /\ intents'[k].subject = Previews!Subject
    BY <1>4
<1>6. \A i : i \in Previews!Overlay(Previews!IntentsOf(Previews!Subject))
            <=> \/ i = event
                \/ \E k \in Keys : i = intents[k] /\ intents[k].subject = Previews!Subject /\ k # e
    BY <1>3 DEF Previews!Overlay, Previews!IntentsOf, e
<1>7. \A i : i \in Previews!IntentsOf(Previews!Subject)'
            <=> i \in Previews!Overlay(Previews!IntentsOf(Previews!Subject))
    BY <1>1, <1>2, <1>5, <1>6
<1> QED
    BY <1>7

(* A plan leads to a page that explains it. *)
LEMMA PagesExplain ==
    ASSUME ListedInv, PlannedInv
    PROVE  Previews!PlanIsExplained
<1> SUFFICES ASSUME page.written
             PROVE  Previews!PlanIsExplained
    BY DEF Previews!PlanIsExplained
<1>1. pc \in {"written", "delivered"}
    BY DEF ListedInv, PlannedInv
<1>2. /\ plan.intents = listed /\ plan.rule = Previews!RuleIndex(Cfg, Previews!User)
      /\ plan.current = Previews!User.groups
      /\ plan.present = Previews!Assertions(Cfg, Previews!User, listed, Previews!Now).present
      /\ plan.absent = Previews!Assertions(Cfg, Previews!User, listed, Previews!Now).absent
      /\ plan.add = plan.present \ plan.current
      /\ plan.remove = plan.absent \cap plan.current
    BY <1>1 DEF PlannedInv, Previews!PlanFor, Previews!AddGroups, Previews!RemoveGroups
<1>3. /\ page.satisfied = (plan.present \cap plan.current) \cup (plan.absent \ plan.current)
      /\ page.add = plan.present \ plan.current
      /\ page.remove = plan.absent \cap plan.current
      /\ page.preserved = plan.current \ (plan.present \cup plan.absent)
      /\ page.proposed = <<Previews!Cardinality(plan.add), Previews!Cardinality(plan.remove)>>
      /\ page.reason = Previews!noChangeReason(plan)
    BY <1>1 DEF PlannedInv, Previews!Preserved
<1>4. listed = {} \/ plan.rule = 0 => plan.present = {} /\ plan.absent = {}
    BY <1>2 DEF Previews!Assertions, Previews!AggregateState
<1>5. plan.rule = 0 =>
         \A i \in Events :
            Previews!Satisfies(Previews!User, Previews!Assertions(Cfg, Previews!User, {i}, Previews!Now))
    BY <1>2 DEF Previews!Assertions, Previews!Satisfies
<1>6. /\ page.reason = "satisfied" <=> plan.present \cup plan.absent # {}
      /\ page.reason = "no intents" <=> listed = {}
      /\ page.reason = "no rule" => plan.rule = 0
    BY <1>2, <1>3, <1>4 DEF Previews!noChangeReason
<1>7. page.proposed = <<Previews!Cardinality(page.add), Previews!Cardinality(page.remove)>>
    BY <1>2, <1>3
<1>8. /\ (page.satisfied \cap plan.current) \cup page.preserved \cup page.remove = plan.current
      /\ page.preserved \cap (page.satisfied \cup page.remove) = {}
    BY <1>3
<1> QED
    BY <1>5, <1>6, <1>7, <1>8 DEF Previews!PlanIsExplained

(* Every step of a preview keeps the three. *)
LEMMA PreviewStep ==
    Stored /\ ListedInv /\ PlannedInv /\ [Previews!Next]_Previews!pvars
        => (Stored /\ ListedInv /\ PlannedInv)'
<1> SUFFICES ASSUME Stored, ListedInv, PlannedInv, [Previews!Next]_Previews!pvars
             PROVE  (Stored /\ ListedInv /\ PlannedInv)'
    OBVIOUS
<1>1. CASE Previews!ListIntents
    BY <1>1 DEF Previews!ListIntents, Stored, ListedInv, PlannedInv,
                Previews!IntentsOf, Previews!Overlay
<1>2. CASE Previews!Build
    BY <1>2 DEF Previews!Build, Stored, ListedInv, PlannedInv,
                Previews!IntentsOf, Previews!Overlay, Previews!User
<1>3. CASE Previews!WritePlan
    BY <1>3 DEF Previews!WritePlan, Stored, ListedInv, PlannedInv,
                Previews!IntentsOf, Previews!Overlay, Previews!User
<1>4. CASE Previews!Deliver
    <2>1. /\ pc = "written" /\ pc' = "delivered" /\ event # Previews!NoIntent
          /\ intents' = [intents EXCEPT ![Previews!Key(event)] = event]
          /\ UNCHANGED <<member, event, listed, plan, page>>
        BY <1>4 DEF Previews!Deliver, Previews!UpsertIntent
    <2>2. Stored'
        BY <2>1 DEF Stored
    <2>3. ListedInv'
        BY <2>1, DeliveryIsOverlay DEF ListedInv
    <2>4. PlannedInv'
        BY <2>1 DEF PlannedInv, Previews!User
    <2> QED
        BY <2>2, <2>3, <2>4
<1>5. CASE UNCHANGED Previews!pvars
    BY <1>5 DEF Previews!pvars, Stored, ListedInv, PlannedInv,
                Previews!IntentsOf, Previews!Overlay, Previews!User
<1> QED
    BY <1>1, <1>2, <1>3, <1>4, <1>5 DEF Previews!Next

(* What was previewed is what delivering the event makes the service do,   *)
(* and the page explains the plan truly: for any configuration, stored     *)
(* intents, memberships and event, also one that replaces an intent or     *)
(* takes it over from another subject.                                     *)
THEOREM PreviewsComeTrue == Spec => []PreviewIsWhatHappens
<1> DEFINE Inv == Stored /\ ListedInv /\ PlannedInv
<1>1. Previews!Init => Inv
    <2> SUFFICES ASSUME Previews!Init
                 PROVE  Stored /\ ListedInv /\ PlannedInv
        OBVIOUS
    <2>1. Stored
        BY SequentialAssumption DEF Previews!Init, Stored, Previews!Storable
    <2>2. ListedInv /\ PlannedInv
        BY DEF Previews!Init, ListedInv, PlannedInv
    <2> QED
        BY <2>1, <2>2
<1>2. Inv => Previews!PreviewIsWhatHappens
    BY PagesExplain DEF PlannedInv, ListedInv, Previews!PreviewIsWhatHappens
<1>3. Init => (part = "preview" => Inv)
    BY <1>1, PartsBegin
<1>4. (part = "preview" => Inv) /\ [Next]_vars => (part = "preview" => Inv)'
    BY PreviewStep, PartsStep
<1>5. (part = "preview" => Inv) => PreviewIsWhatHappens
    BY <1>2 DEF PreviewIsWhatHappens
<1> HIDE DEF Inv
<1> QED
    BY <1>3, <1>4, <1>5, PTL DEF Spec

-----------------------------------------------------------------------------
(* Plans *)

(* What the only rule asserts while an intent is open. *)
Active == cfg.rules[1].states["active"]
Asked == Planning!Range(Active.present)
Denied == Planning!Range(Active.absent)
GroupOf(alias) == cfg.groups[alias][1]

(* What is left of a plan is what the memberships still differ in. *)
PlanInv ==
    /\ cfg \in Planning!Configs
    /\ member \in [{1} -> SUBSET PlanIDs]
    /\ pc \in {"build", "apply", "done"}
    /\ adds \subseteq Asked /\ removes \subseteq Denied
    /\ pc = "build" => adds = {} /\ removes = {}
    /\ pc = "done" => adds = {} /\ removes = {}
    /\ pc # "build" =>
          /\ \A x \in Asked : x \in adds <=> GroupOf(x) \notin member[1]
          /\ \A x \in Denied : x \in removes <=> GroupOf(x) \in member[1]

(* A configuration has one rule, which selects every user; its asserted    *)
(* aliases stand for one group each, and no two of them for the same one.  *)
LEMMA ConfigsAreValid ==
    ASSUME cfg \in Planning!Configs
    PROVE  /\ Asked \subseteq PlanAliases /\ Denied \subseteq PlanAliases
           /\ DOMAIN cfg.groups = PlanAliases
           /\ \A x \in Asked \cup Denied :
                 /\ Planning!Range(cfg.groups[x]) = {GroupOf(x)}
                 /\ GroupOf(x) \in PlanIDs
           /\ \A x, y \in Asked : GroupOf(x) = GroupOf(y) => x = y
           /\ \A x, y \in Denied : GroupOf(x) = GroupOf(y) => x = y
           /\ \A x \in Asked, y \in Denied : GroupOf(x) # GroupOf(y)
           /\ DOMAIN cfg.rules = {1}
           /\ cfg.rules[1].when = [id : {1}, groups : SUBSET PlanAliases]
<1>1. /\ Planning!validateRules(cfg)
      /\ cfg.groups \in [PlanAliases -> Planning!Lists(PlanIDs)]
      /\ \E p \in Planning!Lists(PlanAliases), a \in Planning!Lists(PlanAliases) :
            cfg.rules = << [name |-> 1, when |-> [id : {1}, groups : SUBSET PlanAliases],
                            states |-> [st \in Planning!States |->
                               IF st = "active" THEN [present |-> p, absent |-> a]
                               ELSE [present |-> <<>>, absent |-> <<>>]]] >>
    BY DEF Planning!Configs
<1>2. PICK p \in Planning!Lists(PlanAliases), a \in Planning!Lists(PlanAliases) :
            cfg.rules = << [name |-> 1, when |-> [id : {1}, groups : SUBSET PlanAliases],
                            states |-> [st \in Planning!States |->
                               IF st = "active" THEN [present |-> p, absent |-> a]
                               ELSE [present |-> <<>>, absent |-> <<>>]]] >>
    BY <1>1
<1>3. /\ DOMAIN cfg.rules = {1}
      /\ cfg.rules[1].when = [id : {1}, groups : SUBSET PlanAliases]
      /\ "active" \in Planning!States
      /\ Active = [present |-> p, absent |-> a]
    <2> DEFINE states == [st \in Planning!States |->
                             IF st = "active" THEN [present |-> p, absent |-> a]
                             ELSE [present |-> <<>>, absent |-> <<>>]]
               rule == [name |-> 1, when |-> [id : {1}, groups : SUBSET PlanAliases], states |-> states]
    <2>1. cfg.rules = <<rule>>
        BY <1>2
    <2>2. rule.when = [id : {1}, groups : SUBSET PlanAliases] /\ rule.states = states
        OBVIOUS
    <2>3. "active" \in Planning!States
        BY DEF Planning!States
    <2>4. states["active"] = [present |-> p, absent |-> a]
        BY <2>3
    <2> HIDE DEF rule, states
    <2>5. DOMAIN cfg.rules = {1} /\ cfg.rules[1] = rule
        BY <2>1
    <2> QED
        BY <2>2, <2>3, <2>4, <2>5 DEF Active
<1>4. Active.present = p /\ Active.absent = a
    BY <1>3
<1>5. Planning!validateGroupAssertions(cfg, Active)
    BY <1>1, <1>3 DEF Planning!validateRules, Active
<1>6. /\ Planning!SingleTargets(cfg, p) /\ Planning!SingleTargets(cfg, a)
      /\ \A i, j \in DOMAIN p : cfg.groups[p[i]][1] = cfg.groups[p[j]][1] => i = j
      /\ \A i, j \in DOMAIN a : cfg.groups[a[i]][1] = cfg.groups[a[j]][1] => i = j
      /\ \A i \in DOMAIN p, j \in DOMAIN a : cfg.groups[p[i]][1] # cfg.groups[a[j]][1]
    BY <1>4, <1>5 DEF Planning!validateGroupAssertions
<1>7. Asked = { p[i] : i \in DOMAIN p } /\ Denied = { a[i] : i \in DOMAIN a }
    BY <1>4 DEF Asked, Denied, Planning!Range
<1>8. DOMAIN cfg.groups = PlanAliases
    BY <1>1
<1>9. ASSUME NEW x \in Asked \cup Denied
      PROVE  x \in PlanAliases /\ Len(cfg.groups[x]) = 1
    BY <1>6, <1>7, <1>8 DEF Planning!SingleTargets
<1>10. ASSUME NEW x \in Asked \cup Denied
       PROVE  Planning!Range(cfg.groups[x]) = {GroupOf(x)} /\ GroupOf(x) \in PlanIDs
    <2>0. cfg.groups[x] \in Planning!Lists(PlanIDs)
        BY <1>1, <1>9
    <2>1. PICK n \in 0..MaxListed : cfg.groups[x] \in [1..n -> PlanIDs]
        BY <2>0 DEF Planning!Lists
    <2>2. n \in Nat /\ Len(cfg.groups[x]) = n
        BY <2>1
    <2>3. DOMAIN cfg.groups[x] = {1} /\ cfg.groups[x][1] \in PlanIDs
        BY <1>9, <2>1, <2>2
    <2> QED
        BY <2>3 DEF Planning!Range, GroupOf
<1>11. /\ \A x, y \in Asked : GroupOf(x) = GroupOf(y) => x = y
       /\ \A x, y \in Denied : GroupOf(x) = GroupOf(y) => x = y
       /\ \A x \in Asked, y \in Denied : GroupOf(x) # GroupOf(y)
    BY <1>6, <1>7 DEF GroupOf
<1> QED
    BY <1>3, <1>8, <1>9, <1>10, <1>11

(* The plan asserts what the rule does, whatever the memberships, and an   *)
(* asserted alias holds when its group is among them.                      *)
LEMMA PlanAsserts ==
    ASSUME cfg \in Planning!Configs
    PROVE  /\ Planning!PlanAssertions = [present |-> Asked, absent |-> Denied]
           /\ \A x \in Asked \cup Denied :
                 x \in Planning!Resolve(cfg, 1, member[1]).groups <=> GroupOf(x) \in member[1]
<1> DEFINE resolved == Planning!Resolve(cfg, 1, member[1])
<1>1. /\ resolved = [id |-> 1, groups |-> resolved.groups] /\ resolved.groups \in SUBSET PlanAliases
      /\ \A x : x \in resolved.groups <=>
            x \in PlanAliases /\ Planning!Range(cfg.groups[x]) \cap member[1] # {}
    BY ConfigsAreValid DEF Planning!Resolve, Planning!AliasesOf
<1>2. \A x \in Asked \cup Denied : x \in resolved.groups <=> GroupOf(x) \in member[1]
    BY <1>1, ConfigsAreValid
<1>3. Planning!RuleIndex(cfg, resolved) = 1
    <2>1. resolved \in cfg.rules[1].when
        BY <1>1, ConfigsAreValid
    <2> HIDE DEF resolved
    <2>2. Planning!Matches(cfg, resolved) = {1}
        BY <2>1, ConfigsAreValid DEF Planning!Matches
    <2>3. Planning!Min({1}) = Min({1})
        BY Zenon DEF Planning!Min, Min
    <2>4. Min({1}) = 1
        <3>1. {1} \in SUBSET Nat /\ {1} # {}
            OBVIOUS
        <3> QED
            BY <3>1, MinIsLeast
    <2> QED
        BY <2>2, <2>3, <2>4 DEF Planning!RuleIndex
<1>4. Planning!AggregateState({Planning!Open}, 1) = "active"
    BY DEF Planning!AggregateState, Planning!PhaseAt, Planning!Open
<1>5. Planning!PlanAssertions = [present |-> Planning!Range(Active.present),
                                 absent |-> Planning!Range(Active.absent)]
    BY <1>3, <1>4 DEF Planning!PlanAssertions, Planning!Assertions, Active
<1> QED
    BY <1>2, <1>5 DEF Asked, Denied

(* Every step of building and applying keeps the plan what is left to do. *)
LEMMA PlanStep ==
    ASSUME PlanInv, [Planning!Next]_<<cfg, member, adds, removes, pc>>
    PROVE  PlanInv'
<1>0. /\ Asked \subseteq PlanAliases /\ Denied \subseteq PlanAliases
      /\ \A x \in Asked \cup Denied : GroupOf(x) \in PlanIDs
      /\ \A x, y \in Asked : GroupOf(x) = GroupOf(y) => x = y
      /\ \A x, y \in Denied : GroupOf(x) = GroupOf(y) => x = y
      /\ \A x \in Asked, y \in Denied : GroupOf(x) # GroupOf(y)
      /\ Asked \subseteq Nat /\ Denied \subseteq Nat
    BY ConfigsAreValid, SequentialAssumption DEF PlanInv
<1>1. ASSUME cfg' = cfg
      PROVE  Asked' = Asked /\ Denied' = Denied /\ \A x : GroupOf(x)' = GroupOf(x)
    BY <1>1 DEF Asked, Denied, Active, GroupOf
<1>2. CASE Planning!Build
    <2>1. /\ pc' = "apply" /\ UNCHANGED <<cfg, member>>
          /\ adds' = Asked \ Planning!Resolve(cfg, 1, member[1]).groups
          /\ removes' = Denied \cap Planning!Resolve(cfg, 1, member[1]).groups
        BY <1>2, PlanAsserts
           DEF PlanInv, Planning!Build, Planning!AddGroups, Planning!RemoveGroups
    <2>2. \A x \in Asked \cup Denied :
             x \in Planning!Resolve(cfg, 1, member[1]).groups <=> GroupOf(x) \in member[1]
        BY PlanAsserts DEF PlanInv
    <2> QED
        BY <1>1, <2>1, <2>2 DEF PlanInv
<1>3. CASE Planning!Add
    <2> DEFINE m == Min(adds)
    <2>1. Planning!Min(adds) = m
        BY Zenon DEF Planning!Min, Min
    <2>2. m \in adds /\ m \in Asked
        BY <1>0, <1>3, MinIsLeast DEF PlanInv, Planning!Add
    <2>3. /\ pc = "apply" /\ UNCHANGED <<cfg, removes, pc>>
          /\ adds' = adds \ {m}
          /\ member' = [member EXCEPT ![1] = @ \cup {GroupOf(m)}]
        BY <1>3, <2>1 DEF Planning!Add, Planning!AddGroupMember, GroupOf
    <2> HIDE DEF m
    <2>4. member'[1] = member[1] \cup {GroupOf(m)} /\ member' \in [{1} -> SUBSET PlanIDs]
        BY <1>0, <2>2, <2>3 DEF PlanInv
    <2>5. ASSUME NEW x \in Asked
          PROVE  x \in adds' <=> GroupOf(x) \notin member'[1]
        BY <1>0, <2>2, <2>3, <2>4 DEF PlanInv
    <2>6. ASSUME NEW x \in Denied
          PROVE  x \in removes' <=> GroupOf(x) \in member'[1]
        BY <1>0, <2>2, <2>3, <2>4 DEF PlanInv
    <2>7. /\ cfg' \in Planning!Configs /\ pc' = "apply"
          /\ adds' \subseteq Asked /\ removes' \subseteq Denied
        BY <2>3 DEF PlanInv
    <2> QED
        BY <1>1, <2>3, <2>4, <2>5, <2>6, <2>7 DEF PlanInv
<1>4. CASE Planning!Remove
    <2> DEFINE m == Min(removes)
    <2>1. Planning!Min(removes) = m
        BY Zenon DEF Planning!Min, Min
    <2>2. m \in removes /\ m \in Denied
        BY <1>0, <1>4, MinIsLeast DEF PlanInv, Planning!Remove
    <2>3. /\ pc = "apply" /\ UNCHANGED <<cfg, adds, pc>>
          /\ removes' = removes \ {m}
          /\ member' = [member EXCEPT ![1] = @ \ {GroupOf(m)}]
        BY <1>4, <2>1 DEF Planning!Remove, Planning!RemoveGroupMember, GroupOf
    <2> HIDE DEF m
    <2>4. member'[1] = member[1] \ {GroupOf(m)} /\ member' \in [{1} -> SUBSET PlanIDs]
        BY <2>3 DEF PlanInv
    <2>5. ASSUME NEW x \in Asked
          PROVE  x \in adds' <=> GroupOf(x) \notin member'[1]
        BY <1>0, <2>2, <2>3, <2>4 DEF PlanInv
    <2>6. ASSUME NEW x \in Denied
          PROVE  x \in removes' <=> GroupOf(x) \in member'[1]
        BY <1>0, <2>2, <2>3, <2>4 DEF PlanInv
    <2>7. /\ cfg' \in Planning!Configs /\ pc' = "apply"
          /\ adds' \subseteq Asked /\ removes' \subseteq Denied
        BY <2>3 DEF PlanInv
    <2> QED
        BY <1>1, <2>3, <2>4, <2>5, <2>6, <2>7 DEF PlanInv
<1>5. CASE Planning!Done
    BY <1>1, <1>5 DEF PlanInv, Planning!Done
<1>6. CASE UNCHANGED <<cfg, member, adds, removes, pc>>
    BY <1>1, <1>6 DEF PlanInv
<1> QED
    BY <1>2, <1>3, <1>4, <1>5, <1>6 DEF Planning!Next

(* A plan carried out to its end leaves every asserted alias as asserted,  *)
(* and on the way no write of it is refused for what an earlier one did:   *)
(* for every configuration that validation accepts, with any number of     *)
(* aliases and groups, shared between aliases or not.                      *)
THEOREM AppliedPlansSatisfy == Spec => []AppliedPlanSatisfies
<1>1. Planning!Init => PlanInv
    BY DEF Planning!Init, PlanInv
<1>2. PlanInv => Planning!AppliedPlanSatisfies
    <2> SUFFICES ASSUME PlanInv
                 PROVE  Planning!AppliedPlanSatisfies
        OBVIOUS
    <2>1. /\ \A alias \in adds : cfg.groups[alias][1] \notin member[1]
          /\ \A alias \in removes : cfg.groups[alias][1] \in member[1]
        BY DEF PlanInv, GroupOf
    <2>2. ASSUME pc = "done"
          PROVE  Planning!Satisfies(Planning!Resolve(cfg, 1, member[1]), Planning!PlanAssertions)
        <3>1. cfg \in Planning!Configs
            BY DEF PlanInv
        <3>2. /\ \A x \in Asked : GroupOf(x) \in member[1]
              /\ \A x \in Denied : GroupOf(x) \notin member[1]
            BY <2>2 DEF PlanInv
        <3> QED
            BY <3>1, <3>2, PlanAsserts DEF Planning!Satisfies
    <2> QED
        BY <2>1, <2>2 DEF Planning!AppliedPlanSatisfies
<1>3. Init => (part = "plans" => PlanInv)
    BY <1>1, PartsBegin
<1>4. (part = "plans" => PlanInv) /\ [Next]_vars => (part = "plans" => PlanInv)'
    BY PlanStep, PartsStep
<1>5. (part = "plans" => PlanInv) => AppliedPlanSatisfies
    BY <1>2 DEF AppliedPlanSatisfies
<1> QED
    BY <1>3, <1>4, <1>5, PTL DEF Spec

-----------------------------------------------------------------------------
(* Reports *)

(* The subjects the command is to reconcile, in order. *)
InScope == IF mode.all THEN Scope ELSE <<Head(Scope)>>

IsSequence(f) == \E S : f \in Seq(S)

(* What appending does to a sequence of whatever elements. *)
LEMMA Appended ==
    ASSUME NEW f, IsSequence(f), NEW x
    PROVE  /\ IsSequence(Append(f, x)) /\ Len(f) \in Nat /\ Len(Append(f, x)) = Len(f) + 1
           /\ DOMAIN f = 1..Len(f) /\ DOMAIN Append(f, x) = 1..Len(f) + 1
           /\ \A i \in 1..Len(f) : Append(f, x)[i] = f[i]
           /\ Append(f, x)[Len(f) + 1] = x
<1>1. PICK S : f \in Seq(S)
    BY DEF IsSequence
<1>2. f \in Seq(S \cup {x}) /\ x \in S \cup {x}
    BY <1>1
<1>3. Append(f, x) \in Seq(S \cup {x})
    BY <1>2
<1> QED
    BY <1>2, <1>3 DEF IsSequence

(* The results so far, the one in progress and what is still to do are the *)
(* scope; and a command that stops before its end has failed.              *)
ScopeInv ==
    /\ pc \in {"listing", "next", "planning", "applying", "closing", "done",
               "reporting", "exiting", "exited"}
    /\ IsSequence(results) /\ IsSequence(todo)
    /\ pc = "listing" => results = <<>>
    /\ pc # "listing" =>
          /\ Len(results) <= Len(InScope)
          /\ \A i \in 1..Len(results) : results[i].subject = InScope[i]
    /\ pc \in {"next", "done"} =>
          /\ Len(results) + Len(todo) = Len(InScope)
          /\ \A i \in 1..Len(todo) : todo[i] = InScope[Len(results) + i]
    /\ pc \in {"planning", "applying", "closing"} =>
          /\ Len(results) + 1 + Len(todo) = Len(InScope)
          /\ \A i \in 1..Len(todo) : todo[i] = InScope[Len(results) + 1 + i]
          /\ result.subject = InScope[Len(results) + 1]
    /\ pc \in {"reporting", "exiting", "exited"} => failed \/ Len(results) = Len(InScope)

(* A result is a record that has at least these fields. *)
IsResult(r) == {"subject", "error"} \subseteq DOMAIN r /\ r.error \in BOOLEAN

(* As long as the command has not failed, no subject has, and no write has *)
(* been refused but that of an attempt about to be closed with an error.   *)
FailureInv ==
    /\ IsResult(result) /\ failed \in BOOLEAN
    /\ pc \in {"planning", "applying"} => ~result.error
    /\ ~failed => \A i \in 1..Len(results) : ~results[i].error
    /\ \A s \in Reports!Range(Scope) : "refused" \in DOMAIN sent[s]
    /\ DOMAIN sent = Reports!Range(Scope)
    /\ ~failed /\ ~(pc = "closing" /\ result.error) =>
          \A s \in Reports!Range(Scope) : sent[s].refused = {}

(* A report is of the results and of the error there is when it is         *)
(* written; the command exits with 0 only without one.                     *)
ReportedInv ==
    /\ report.written \in BOOLEAN
    /\ report.written => pc \in {"exiting", "exited"}
    /\ pc \in {"exiting", "exited"} => report.written \/ failed
    /\ report.written =>
          /\ report.failed = Reports!With("failed")
          /\ report.error <=> failed /\ (mode.json \/ report.failed = 0)
    /\ exit = 0 => pc = "exited" /\ ~failed

(* A result in progress stays one of its subject; only failures and the    *)
(* outcome of closing give it an error.                                    *)
LEMMA ResultKept ==
    ASSUME IsResult(result)
    PROVE  /\ \A p : Reports!Plan(p) =>
                 IsResult(result') /\ result'.subject = result.subject /\ result'.error = result.error
           /\ Reports!PlanFails \/ Reports!WriteFails =>
                 IsResult(result') /\ result'.subject = result.subject /\ result'.error
           /\ Reports!WriteSucceeds =>
                 IsResult(result') /\ result'.subject = result.subject /\ result'.error = result.error
           /\ \A fails \in BOOLEAN : Reports!Save(fails) =>
                 IsResult(result') /\ result'.subject = result.subject /\ result'.error = fails
           /\ \A fails \in BOOLEAN : Reports!Close(fails) =>
                 /\ IsResult(result') /\ result'.subject = result.subject
                 /\ result'.error = (result.error \/ fails)
<1> USE DEF IsResult
<1>1. ASSUME NEW p, Reports!Plan(p)
      PROVE  IsResult(result') /\ result'.subject = result.subject /\ result'.error = result.error
    BY <1>1 DEF Reports!Plan
<1>2. ASSUME Reports!PlanFails
      PROVE  IsResult(result') /\ result'.subject = result.subject /\ result'.error
    BY <1>2 DEF Reports!PlanFails
<1>3. ASSUME Reports!WriteFails
      PROVE  IsResult(result') /\ result'.subject = result.subject /\ result'.error
    BY <1>3 DEF Reports!WriteFails
<1>4. ASSUME Reports!WriteSucceeds
      PROVE  IsResult(result') /\ result'.subject = result.subject /\ result'.error = result.error
    <2>1. \/ result' = [result EXCEPT !.added = Append(@, Reports!NextWrite[2])]
          \/ result' = [result EXCEPT !.removed = Append(@, Reports!NextWrite[2])]
        BY <1>4 DEF Reports!WriteSucceeds
    <2> QED
        BY <2>1
<1>5. ASSUME NEW fails \in BOOLEAN, Reports!Save(fails)
      PROVE  IsResult(result') /\ result'.subject = result.subject /\ result'.error = fails
    BY <1>5 DEF Reports!Save
<1>6. ASSUME NEW fails \in BOOLEAN, Reports!Close(fails)
      PROVE  /\ IsResult(result') /\ result'.subject = result.subject
             /\ result'.error = (result.error \/ fails)
    BY <1>6 DEF Reports!Close
<1> QED
    BY <1>1, <1>2, <1>3, <1>4, <1>5, <1>6

(* What a command comes to lies in its scope. *)
LEMMA ScopeStep ==
    ASSUME ScopeInv, FailureInv, [Reports!Next]_Reports!vars
    PROVE  ScopeInv'
<1> USE DEF ScopeInv
<1>0. /\ IsSequence(InScope) /\ Len(InScope) \in Nat
      /\ Len(results) \in Nat /\ Len(todo) \in Nat
    <2>1. InScope \in Seq(Nat \cup {Head(Scope)})
        <3>1. /\ Scope \in Seq(Nat \cup {Head(Scope)})
              /\ <<Head(Scope)>> \in Seq(Nat \cup {Head(Scope)})
            BY SequentialAssumption
        <3> QED
            BY <3>1, Zenon DEF InScope
    <2> QED
        BY <2>1 DEF IsSequence
<1>f. UNCHANGED mode
    BY DEF Reports!Next, Reports!vars, Reports!ListSubjects, Reports!ListSubjectsFails,
           Reports!BeginSubject, Reports!StopEarly, Reports!EndOfList, Reports!Plan,
           Reports!PlanFails, Reports!WriteSucceeds, Reports!WriteFails, Reports!Save,
           Reports!Close, Reports!SubjectDone, Reports!SubjectDoneFails, Reports!WriteReport,
           Reports!WriteReportFails, Reports!Exit, Reports!Interrupt, Reports!Break
<1>s. InScope' = InScope
    BY <1>f DEF InScope
<1>1. CASE Reports!ListSubjects
    <2>1. /\ pc' = "next" /\ results' = results /\ results = <<>> /\ todo' = InScope
        BY <1>1 DEF Reports!ListSubjects, InScope
    <2> QED
        BY <1>0, <1>s, <2>1
<1>2. CASE Reports!ListSubjectsFails
    <2>1. /\ pc' = "reporting" /\ failed' /\ UNCHANGED <<results, todo>> /\ results = <<>>
        BY <1>2 DEF Reports!ListSubjectsFails
    <2> QED
        BY <1>0, <1>s, <2>1
<1>3. CASE Reports!BeginSubject
    <2>1. /\ pc = "next" /\ pc' = "planning" /\ todo # <<>> /\ todo' = Tail(todo)
          /\ results' = results /\ result'.subject = Head(todo)
        BY <1>3 DEF Reports!BeginSubject, Reports!NoResult
    <2>2. PICK S : todo \in Seq(S)
        BY DEF IsSequence
    <2>3. /\ Tail(todo) \in Seq(S) /\ Len(Tail(todo)) = Len(todo) - 1 /\ Len(todo) >= 1
          /\ \A i \in 1..Len(todo) - 1 : Tail(todo)[i] = todo[i + 1]
          /\ Head(todo) = todo[1]
        BY <2>1, <2>2
    <2>4. IsSequence(todo')
        BY <2>1, <2>3 DEF IsSequence
    <2>5. ASSUME NEW i \in 1..Len(todo')
          PROVE  todo'[i] = InScope[Len(results) + 1 + i]
        <3>1. i \in 1..Len(todo) - 1 /\ i + 1 \in 1..Len(todo)
            BY <1>0, <2>1, <2>3
        <3>2. todo'[i] = todo[i + 1] /\ todo[i + 1] = InScope[Len(results) + (i + 1)]
            BY <2>1, <2>3, <3>1
        <3>3. Len(results) + (i + 1) = Len(results) + 1 + i
            BY <1>0, <3>1
        <3> QED
            BY <3>2, <3>3
    <2>6. /\ result'.subject = InScope[Len(results) + 1]
          /\ Len(results) + 1 + Len(todo') = Len(InScope)
        BY <1>0, <2>1, <2>3
    <2> QED
        BY <1>s, <2>1, <2>4, <2>5, <2>6
<1>4. CASE Reports!StopEarly \/ Reports!SubjectDoneFails
    BY <1>4, <1>s DEF Reports!StopEarly, Reports!SubjectDoneFails
<1>5. CASE Reports!EndOfList
    BY <1>0, <1>5, <1>s DEF Reports!EndOfList
<1>6. ASSUME NEW p \in Plans, Reports!Plan(p)
      PROVE  ScopeInv'
    <2>1. result'.subject = result.subject
        BY <1>6, ResultKept DEF FailureInv
    <2> QED
        BY <1>6, <1>s, <2>1 DEF Reports!Plan
<1>7. CASE Reports!PlanFails
    <2>1. result'.subject = result.subject
        BY <1>7, ResultKept DEF FailureInv
    <2> QED
        BY <1>7, <1>s, <2>1 DEF Reports!PlanFails
<1>8. CASE Reports!WriteSucceeds
    <2>1. result'.subject = result.subject
        BY <1>8, ResultKept DEF FailureInv
    <2> QED
        BY <1>8, <1>s, <2>1 DEF Reports!WriteSucceeds
<1>9. CASE Reports!WriteFails
    <2>1. result'.subject = result.subject
        BY <1>9, ResultKept DEF FailureInv
    <2> QED
        BY <1>9, <1>s, <2>1 DEF Reports!WriteFails
<1>10. ASSUME NEW fails \in BOOLEAN, Reports!Save(fails)
       PROVE  ScopeInv'
    <2>1. result'.subject = result.subject
        BY <1>10, ResultKept DEF FailureInv
    <2> QED
        BY <1>10, <1>s, <2>1 DEF Reports!Save
<1>11. ASSUME NEW fails \in BOOLEAN, Reports!Close(fails)
       PROVE  ScopeInv'
    <2>1. /\ pc = "closing" /\ pc' = "done" /\ todo' = todo /\ results' = Append(results, result')
          /\ result'.subject = result.subject
        BY <1>11, ResultKept DEF FailureInv, Reports!Close
    <2>2. /\ IsSequence(results') /\ Len(results') = Len(results) + 1
          /\ \A i \in 1..Len(results) : results'[i] = results[i]
          /\ results'[Len(results) + 1] = result'
        BY <2>1, Appended
    <2>3. ASSUME NEW i \in 1..Len(results')
          PROVE  results'[i].subject = InScope[i]
        <3>1. i \in 1..Len(results) \/ i = Len(results) + 1
            BY <1>0, <2>2
        <3> QED
            BY <2>1, <2>2, <3>1
    <2> QED
        BY <1>0, <1>s, <2>1, <2>2, <2>3
<1>12. CASE Reports!SubjectDone
    BY <1>12, <1>s DEF Reports!SubjectDone
<1>13. CASE Reports!WriteReport
    BY <1>13, <1>s DEF Reports!WriteReport
<1>14. CASE Reports!WriteReportFails
    BY <1>14, <1>s DEF Reports!WriteReportFails
<1>15. CASE Reports!Exit
    BY <1>15, <1>s DEF Reports!Exit
<1>16. CASE Reports!Interrupt \/ Reports!Break
    BY <1>16, <1>s DEF Reports!Interrupt, Reports!Break
<1>17. CASE UNCHANGED Reports!vars
    BY <1>17, <1>s DEF Reports!vars
<1> QED
    BY <1>1, <1>2, <1>3, <1>4, <1>5, <1>6, <1>7, <1>8, <1>9, <1>10, <1>11, <1>12, <1>13, <1>14,
       <1>15, <1>16, <1>17 DEF Reports!Next

(* A failure is never forgotten. *)
LEMMA FailureStep ==
    ASSUME ScopeInv, FailureInv, [Reports!Next]_Reports!vars
    PROVE  FailureInv'
<1> USE DEF FailureInv
<1>0. Len(results) \in Nat
    BY Appended DEF ScopeInv
<1>1. CASE \/ Reports!ListSubjects \/ Reports!ListSubjectsFails \/ Reports!StopEarly
           \/ Reports!EndOfList \/ Reports!SubjectDone \/ Reports!SubjectDoneFails
    BY <1>1 DEF Reports!ListSubjects, Reports!ListSubjectsFails, Reports!StopEarly,
                Reports!EndOfList, Reports!SubjectDone, Reports!SubjectDoneFails
<1>2. CASE Reports!BeginSubject
    <2>1. /\ pc' = "planning" /\ UNCHANGED <<results, failed, sent>> /\ pc = "next"
          /\ IsResult(result') /\ ~result'.error
        BY <1>2 DEF Reports!BeginSubject, Reports!NoResult, IsResult
    <2> QED
        BY <2>1
<1>3. ASSUME NEW p \in Plans, Reports!Plan(p)
      PROVE  FailureInv'
    <2>1. IsResult(result') /\ result'.error = result.error
        BY <1>3, ResultKept
    <2> QED
        BY <1>3, <2>1 DEF Reports!Plan
<1>4. CASE Reports!PlanFails
    <2>1. IsResult(result') /\ result'.error
        BY <1>4, ResultKept
    <2> QED
        BY <1>4, <2>1 DEF Reports!PlanFails
<1>5. CASE Reports!WriteSucceeds
    <2>1. IsResult(result') /\ result'.error = result.error
        BY <1>5, ResultKept
    <2>2. /\ pc = "applying" /\ pc' = pc /\ UNCHANGED <<results, failed>>
          /\ sent' = [sent EXCEPT ![result.subject].ok = @ \cup {Reports!NextWrite}]
        BY <1>5 DEF Reports!WriteSucceeds
    <2>3. \A s \in Reports!Range(Scope) : "refused" \in DOMAIN sent'[s]
                                         /\ sent'[s].refused = sent[s].refused
        BY <2>2
    <2> QED
        BY <2>1, <2>2, <2>3
<1>6. CASE Reports!WriteFails
    <2>1. IsResult(result') /\ result'.error
        BY <1>6, ResultKept
    <2>2. /\ pc = "applying" /\ pc' = "closing" /\ UNCHANGED <<results, failed>>
          /\ sent' = [sent EXCEPT ![result.subject].refused = @ \cup {Reports!NextWrite}]
        BY <1>6 DEF Reports!WriteFails
    <2>3. \A s \in Reports!Range(Scope) : "refused" \in DOMAIN sent'[s]
        BY <2>2
    <2> QED
        BY <2>1, <2>2, <2>3
<1>7. ASSUME NEW fails \in BOOLEAN, Reports!Save(fails)
      PROVE  FailureInv'
    <2>1. IsResult(result') /\ result'.error = fails
        BY <1>7, ResultKept
    <2>2. pc = "applying" /\ pc' = "closing" /\ UNCHANGED <<results, failed, sent>>
        BY <1>7 DEF Reports!Save
    <2> QED
        BY <2>1, <2>2
<1>8. ASSUME NEW fails \in BOOLEAN, Reports!Close(fails)
      PROVE  FailureInv'
    <2>1. IsResult(result') /\ result'.error = (result.error \/ fails)
        BY <1>8, ResultKept
    <2>2. /\ pc = "closing" /\ pc' = "done" /\ sent' = sent
          /\ failed' = (failed \/ result'.error) /\ results' = Append(results, result')
        BY <1>8 DEF Reports!Close
    <2>3. /\ Len(results') = Len(results) + 1
          /\ \A i \in 1..Len(results) : results'[i] = results[i]
          /\ results'[Len(results) + 1] = result'
        BY <2>2, Appended DEF ScopeInv
    <2>4. ASSUME ~failed', NEW i \in 1..Len(results')
          PROVE  ~results'[i].error
        <3>1. i \in 1..Len(results) \/ i = Len(results) + 1
            BY <1>0, <2>3
        <3>2. ~failed /\ ~result'.error
            BY <2>1, <2>2, <2>4
        <3> QED
            BY <2>3, <3>1, <3>2
    <2>5. failed' \in BOOLEAN
        BY <2>1, <2>2 DEF IsResult
    <2>6. ~failed' => ~failed /\ ~result.error
        BY <2>1, <2>2 DEF IsResult
    <2> QED
        BY <2>1, <2>2, <2>4, <2>5, <2>6
<1>9. CASE \/ Reports!WriteReport \/ Reports!WriteReportFails \/ Reports!Exit
           \/ Reports!Interrupt \/ Reports!Break
    BY <1>9 DEF Reports!WriteReport, Reports!WriteReportFails, Reports!Exit, Reports!Interrupt,
                Reports!Break
<1>10. CASE UNCHANGED Reports!vars
    BY <1>10 DEF Reports!vars
<1> QED
    BY <1>1, <1>2, <1>3, <1>4, <1>5, <1>6, <1>7, <1>8, <1>9, <1>10 DEF Reports!Next

(* The report stays what it was written as. *)
LEMMA ReportedStep ==
    ASSUME ScopeInv, FailureInv, ReportedInv, [Reports!Next]_Reports!vars
    PROVE  ReportedInv'
<1> USE DEF ReportedInv
<1>1. ASSUME ~report.written, UNCHANGED <<report, exit>>, pc \notin {"exiting", "exited"},
             pc' \notin {"exiting", "exited"}
      PROVE  ReportedInv'
    BY <1>1
<1>2. ASSUME UNCHANGED <<results, failed, mode, pc, report, exit>>
      PROVE  ReportedInv'
    <2>1. Reports!With("failed")' = Reports!With("failed")
        BY <1>2 DEF Reports!With
    <2> QED
        BY <1>2, <2>1
<1>3. CASE \/ Reports!ListSubjects \/ Reports!ListSubjectsFails \/ Reports!StopEarly
           \/ Reports!EndOfList \/ Reports!SubjectDone \/ Reports!SubjectDoneFails
           \/ Reports!BeginSubject
    BY <1>1, <1>3 DEF Reports!ListSubjects, Reports!ListSubjectsFails, Reports!StopEarly,
                Reports!EndOfList, Reports!SubjectDone, Reports!SubjectDoneFails,
                Reports!BeginSubject
<1>4. CASE (\E p \in Plans : Reports!Plan(p)) \/ Reports!PlanFails \/ Reports!WriteSucceeds
           \/ Reports!WriteFails
           \/ \E fails \in BOOLEAN : Reports!Save(fails) \/ Reports!Close(fails)
    <2>1. /\ UNCHANGED <<report, exit>>
          /\ pc \in {"planning", "applying", "closing"} /\ pc' \in {"applying", "closing", "done"}
        BY <1>4 DEF Reports!Plan, Reports!PlanFails, Reports!WriteSucceeds, Reports!WriteFails,
                    Reports!Save, Reports!Close
    <2> QED
        BY <1>1, <2>1
<1>5. CASE Reports!WriteReport
    <2>1. /\ pc = "reporting" /\ pc' = "exiting" /\ report' = Reports!writeApplyReport
          /\ UNCHANGED <<mode, results, failed, exit>>
        BY <1>5 DEF Reports!WriteReport
    <2>2. /\ report'.written = TRUE /\ report'.failed = Reports!With("failed")
          /\ report'.error = (failed /\ (mode.json \/ Reports!With("failed") = 0))
        BY <2>1 DEF Reports!writeApplyReport
    <2>3. Reports!With("failed")' = Reports!With("failed")
        BY <2>1 DEF Reports!With
    <2> QED
        BY <2>1, <2>2, <2>3
<1>6. CASE Reports!WriteReportFails
    BY <1>6 DEF Reports!WriteReportFails
<1>7. CASE Reports!Exit
    <2>1. /\ pc = "exiting" /\ pc' = "exited" /\ UNCHANGED <<mode, results, failed, report>>
          /\ exit' = 0 => ~failed
        BY <1>7 DEF Reports!Exit
    <2>2. Reports!With("failed")' = Reports!With("failed")
        BY <2>1 DEF Reports!With
    <2> QED
        BY <2>1, <2>2
<1>8. CASE Reports!Interrupt \/ Reports!Break
    BY <1>2, <1>8 DEF Reports!Interrupt, Reports!Break
<1>9. CASE UNCHANGED Reports!vars
    BY <1>2, <1>9 DEF Reports!vars
<1> QED
    BY <1>3, <1>4, <1>5, <1>6, <1>7, <1>8, <1>9 DEF Reports!Next

(* Nothing is done and nothing has failed when the command begins. *)
LEMMA ReportBegins ==
    ASSUME Reports!Init
    PROVE  ScopeInv /\ FailureInv /\ ReportedInv
<1>1. /\ pc = "listing" /\ todo = <<>> /\ results = <<>> /\ failed = FALSE
      /\ report.written = FALSE /\ exit = -1
    BY DEF Reports!Init, Reports!NoReport
<1>2. IsResult(result)
    BY DEF Reports!Init, Reports!NoResult, IsResult
<1>3. /\ DOMAIN sent = Reports!Range(Scope)
      /\ \A s \in Reports!Range(Scope) : "refused" \in DOMAIN sent[s] /\ sent[s].refused = {}
    <2>1. sent = [s \in Reports!Range(Scope) |-> [ok |-> {}, refused |-> {}]]
        BY DEF Reports!Init
    <2> QED
        BY <2>1
<1>4. IsSequence(<<>>)
    BY DEF IsSequence
<1>5. \A i : i \notin 1..Len(results)
    BY <1>1
<1>6. ScopeInv
    BY <1>1, <1>4, Zenon DEF ScopeInv
<1>7. FailureInv
    BY <1>1, <1>2, <1>3, <1>5 DEF FailureInv
<1>8. ReportedInv
    <2>1. exit # 0 /\ pc \notin {"exiting", "exited"}
        BY <1>1
    <2>2. ~report.written /\ report.written \in BOOLEAN
        BY <1>1
    <2> QED
        BY <2>1, <2>2, Zenon DEF ReportedInv
<1> QED
    BY <1>6, <1>7, <1>8

(* A command that exits with 0 has reconciled every subject in its scope   *)
(* without an error, and said so, and a report that leaves out some of the *)
(* scope shows why: for scopes of any length and any plans, wherever it is *)
(* interrupted and wherever its output breaks.                             *)
THEOREM SuccessMeansComplete == Spec => []SuccessIsComplete
<1> DEFINE Inv == ScopeInv /\ FailureInv /\ ReportedInv
<1>1. Reports!Init => Inv
    BY ReportBegins
<1>2. Inv => Reports!SuccessIsComplete
    <2> SUFFICES ASSUME ScopeInv, FailureInv, ReportedInv
                 PROVE  Reports!SuccessIsComplete
        OBVIOUS
    <2> DEFINE n == Len(results)
               F == { i \in DOMAIN results : Reports!subjectStatus(results[i]) = "failed" }
    <2>1. DOMAIN results = 1..n /\ n \in Nat
        BY Appended DEF ScopeInv
    <2>2. IsFiniteSet(F) /\ Cardinality(F) \in Nat
        <3>1. F \in SUBSET (1..n) /\ 1 \in Int /\ n \in Int
            BY <2>1
        <3> HIDE DEF F, n
        <3>2. IsFiniteSet(1..n)
            BY <3>1, FS_Interval
        <3>3. IsFiniteSet(F)
            BY <3>1, <3>2, FS_Subset
        <3> QED
            BY <3>3, FS_CardinalityType
    <2>3. Reports!With("failed") = Cardinality(F)
        BY Zenon DEF Reports!With, Reports!Cardinality, Cardinality
    <2>4. /\ DOMAIN InScope = 1..Len(InScope) /\ Len(InScope) \in Nat
          /\ Len(InScope) = IF mode.all THEN Len(Scope) ELSE 1
          /\ { InScope[i] : i \in 1..Len(InScope) }
                = IF mode.all THEN Reports!Range(Scope) ELSE {Head(Scope)}
        <3>1. CASE mode.all
            BY <3>1, SequentialAssumption DEF InScope, Reports!Range
        <3>2. CASE ~mode.all
            <4>1. InScope = <<Head(Scope)>>
                BY <3>2 DEF InScope
            <4>2. Len(InScope) = 1 /\ DOMAIN InScope = 1..1 /\ InScope[1] = Head(Scope)
                BY <4>1
            <4>3. \A i \in 1..1 : i = 1
                OBVIOUS
            <4> QED
                BY <3>2, <4>2, <4>3
        <3> QED
            BY <3>1, <3>2
    <2> HIDE DEF n
    <2>6. ASSUME exit = 0
          PROVE  /\ report.written /\ report.failed = 0
                 /\ { results[i].subject : i \in DOMAIN results }
                       = IF mode.all THEN Reports!Range(Scope) ELSE {Head(Scope)}
                 /\ \A s \in Reports!Range(Scope) : sent[s].refused = {}
        <3>1. pc = "exited" /\ ~failed /\ report.written
            BY <2>6 DEF ReportedInv
        <3>2. F = {}
            BY <2>1, <3>1 DEF FailureInv, Reports!subjectStatus, n
        <3>3. report.failed = 0
            BY <2>3, <3>1, <3>2, FS_EmptySet DEF ReportedInv
        <3>4. n = Len(InScope) /\ \A i \in 1..n : results[i].subject = InScope[i]
            BY <3>1 DEF ScopeInv, n
        <3>5. { results[i].subject : i \in DOMAIN results } = { InScope[i] : i \in 1..Len(InScope) }
            BY <2>1, <3>4
        <3>6. \A s \in Reports!Range(Scope) : sent[s].refused = {}
            BY <3>1 DEF FailureInv
        <3> QED
            BY <2>4, <3>1, <3>3, <3>5, <3>6
    <2>7. ASSUME report.written, n < (IF mode.all THEN Len(Scope) ELSE 1)
          PROVE  report.error \/ report.failed > 0
        <3>1. pc \in {"exiting", "exited"} /\ report.failed \in Nat
            BY <2>2, <2>3, <2>7 DEF ReportedInv
        <3>2. failed
            BY <2>1, <2>4, <2>7, <3>1 DEF ScopeInv, n
        <3> QED
            BY <2>7, <3>1, <3>2 DEF ReportedInv
    <2> QED
        BY <2>6, <2>7 DEF Reports!SuccessIsComplete, n
<1>3. Init => (part = "report" => Inv)
    BY <1>1, PartsBegin
<1>4. (part = "report" => Inv) /\ [Next]_vars => (part = "report" => Inv)'
    BY ScopeStep, FailureStep, ReportedStep, PartsStep
<1>5. (part = "report" => Inv) => SuccessIsComplete
    BY <1>2 DEF SuccessIsComplete
<1> HIDE DEF Inv
<1> QED
    BY <1>3, <1>4, <1>5, PTL DEF Spec

(* A write is an addition or a removal of an alias. *)
AllWrites == {"add", "remove"} \X Nat

Answers == [ok : SUBSET AllWrites, refused : SUBSET AllWrites]

ResultType ==
    [subject : Nat, planned : BOOLEAN, plan : [add : Seq(Nat), remove : Seq(Nat)],
     added : Seq(Nat), removed : Seq(Nat), operation : AllWrites \cup {<<>>}, error : BOOLEAN]

PlannedWrites(r) == Reports!Writes("add", r.plan.add) \cup Reports!Writes("remove", r.plan.remove)

Distinct(f) == \A i, j \in 1..Len(f) : f[i] = f[j] => i = j

BeginningOf(f, g) == Len(f) <= Len(g) /\ \A i \in 1..Len(f) : f[i] = g[i]

(* A result says truly what was answered to the writes of its subject. *)
Accounts(r, answers) ==
    /\ r \in ResultType
    /\ answers.ok = Reports!Writes("add", r.added) \cup Reports!Writes("remove", r.removed)
    /\ answers.refused = IF r.operation = <<>> THEN {} ELSE {r.operation}
    /\ BeginningOf(r.added, r.plan.add) /\ BeginningOf(r.removed, r.plan.remove)
    /\ Distinct(r.plan.add) /\ Distinct(r.plan.remove)
    /\ r.operation # <<>> => r.operation \in PlannedWrites(r)
    /\ ~r.planned => r.plan = [add |-> <<>>, remove |-> <<>>]

InProgress == pc \in {"planning", "applying", "closing"}

(* Nothing has been sent for a subject that has not been begun. *)
Untouched ==
    \A i \in 1..Len(InScope) :
        (InProgress => Len(results) + 1 < i) /\ (~InProgress => Len(results) < i) =>
            sent[InScope[i]].ok = {} /\ sent[InScope[i]].refused = {}

(* The results so far and the one in progress account for their writes, *)
(* and every block shows one of those results.                          *)
BlockInv ==
    /\ sent \in [Reports!Range(Scope) -> Answers]
    /\ \A j \in 1..Len(results) : Accounts(results[j], sent[results[j].subject])
    /\ InProgress => Accounts(result, sent[result.subject])
    /\ pc = "planning" => ~result.planned /\ result.operation = <<>>
    /\ pc = "applying" => result.planned /\ result.operation = <<>>
    /\ pc = "done" => Len(results) > 0 /\ result = results[Len(results)]
    /\ Untouched
    /\ IsSequence(shown)
    /\ \A i \in 1..Len(shown) :
          \E j \in 1..Len(results) : shown[i] = Reports!renderSubject(results[j])

(* The scope names each subject once. *)
LEMMA ScopeNamesOnce ==
    ASSUME Scope # <<>>
    PROVE  /\ InScope \in Seq(Nat) /\ Len(InScope) \in Nat
           /\ \A i \in 1..Len(InScope) : InScope[i] \in Reports!Range(Scope)
           /\ \A i, j \in 1..Len(InScope) : InScope[i] = InScope[j] => i = j
<1>1. /\ Scope \in Seq(Nat) /\ DOMAIN Scope = 1..Len(Scope)
      /\ 1 \in 1..Len(Scope) /\ Head(Scope) = Scope[1]
      /\ \A i, j \in DOMAIN Scope : Scope[i] = Scope[j] => i = j
    BY SequentialAssumption
<1>2. CASE mode.all
    <2>1. InScope = Scope
        BY <1>2 DEF InScope
    <2> QED
        BY <1>1, <2>1 DEF Reports!Range
<1>3. CASE ~mode.all
    <2>1. InScope = <<Scope[1]>> /\ Scope[1] \in Nat
        BY <1>1, <1>3 DEF InScope
    <2>2. InScope \in Seq(Nat) /\ Len(InScope) = 1 /\ InScope[1] = Scope[1]
        BY <2>1
    <2>3. \A i \in 1..1 : i = 1
        OBVIOUS
    <2> QED
        BY <1>1, <2>2, <2>3 DEF Reports!Range
<1> QED
    BY <1>2, <1>3

(* The subject in progress is in the scope, and no other result and no     *)
(* subject that is still to come has its name.                             *)
LEMMA SubjectIsAlone ==
    ASSUME Scope # <<>>, ScopeInv, InProgress
    PROVE  /\ result.subject \in Reports!Range(Scope)
           /\ \A j \in 1..Len(results) : results[j].subject # result.subject
           /\ \A i \in 1..Len(InScope) : Len(results) + 1 < i => InScope[i] # result.subject
<1>1. Len(results) \in Nat /\ Len(todo) \in Nat
    BY Appended DEF ScopeInv
<1>2. /\ Len(results) + 1 + Len(todo) = Len(InScope)
      /\ result.subject = InScope[Len(results) + 1]
      /\ \A j \in 1..Len(results) : results[j].subject = InScope[j]
    BY DEF ScopeInv, InProgress
<1>3. Len(results) + 1 \in 1..Len(InScope)
    BY <1>1, <1>2
<1>4. \A j \in 1..Len(results) : j \in 1..Len(InScope) /\ j # Len(results) + 1
    BY <1>1, <1>2
<1>5. \A i \in 1..Len(InScope) : Len(results) + 1 < i => i # Len(results) + 1
    BY <1>1
<1> QED
    BY <1>2, <1>3, <1>4, <1>5, ScopeNamesOnce

(* A beginning that is not shorter is the whole, and its writes are among  *)
(* those of the whole.                                                     *)
LEMMA Beginnings ==
    ASSUME NEW f \in Seq(Nat), NEW g \in Seq(Nat), BeginningOf(f, g)
    PROVE  /\ ~(Len(f) < Len(g)) => f = g
           /\ \A action : Reports!Writes(action, f) \subseteq Reports!Writes(action, g)
<1>1. /\ Len(f) \in Nat /\ Len(g) \in Nat /\ Len(f) <= Len(g)
      /\ \A i \in 1..Len(f) : f[i] = g[i]
      /\ DOMAIN f = 1..Len(f) /\ DOMAIN g = 1..Len(g)
    BY DEF BeginningOf
<1>2. ASSUME ~(Len(f) < Len(g))
      PROVE  f = g
    <2>1. Len(f) = Len(g)
        <3>1. Len(f) \in Nat /\ Len(g) \in Nat /\ Len(f) <= Len(g)
            BY <1>1
        <3> DEFINE m == Len(f)
                   n == Len(g)
        <3> HIDE DEF m, n
        <3>2. m \in Nat /\ n \in Nat /\ m <= n /\ ~(m < n)
            BY <1>2, <3>1 DEF m, n
        <3>3. m = n
            BY <3>2
        <3> QED
            BY <3>3 DEF m, n
    <2> QED
        BY <1>1, <2>1, SeqEqual
<1>3. \A i \in DOMAIN f : i \in DOMAIN g /\ f[i] = g[i]
    BY <1>1
<1>4. ASSUME NEW action
      PROVE  Reports!Writes(action, f) \subseteq Reports!Writes(action, g)
    BY <1>3 DEF Reports!Writes
<1> QED
    BY <1>2, <1>4

(* The next write is planned, and its success makes the part done longer. *)
LEMMA NextWriteIsPlanned ==
    ASSUME Accounts(result, sent[result.subject]), ~Reports!AllWritten
    PROVE  /\ Reports!NextWrite \in PlannedWrites(result) /\ Reports!NextWrite \in AllWrites
           /\ \/ /\ Reports!NextWrite = <<"add", result.plan.add[Len(result.added) + 1]>>
                 /\ Len(result.added) + 1 \in 1..Len(result.plan.add)
              \/ /\ Reports!NextWrite = <<"remove", result.plan.remove[Len(result.removed) + 1]>>
                 /\ Len(result.removed) + 1 \in 1..Len(result.plan.remove)
<1>1. /\ result.added \in Seq(Nat) /\ result.removed \in Seq(Nat)
      /\ result.plan.add \in Seq(Nat) /\ result.plan.remove \in Seq(Nat)
      /\ BeginningOf(result.added, result.plan.add)
      /\ BeginningOf(result.removed, result.plan.remove)
    BY DEF Accounts, ResultType
<1>2. CASE Len(result.added) < Len(result.plan.add)
    <2>1. /\ Reports!NextWrite = <<"add", result.plan.add[Len(result.added) + 1]>>
          /\ Len(result.added) + 1 \in 1..Len(result.plan.add)
        BY <1>1, <1>2 DEF Reports!NextWrite
    <2> QED
        BY <1>1, <2>1 DEF PlannedWrites, Reports!Writes, AllWrites
<1>3. CASE ~(Len(result.added) < Len(result.plan.add))
    <2>1. result.added = result.plan.add
        BY <1>1, <1>3, Beginnings
    <2>2. Len(result.removed) < Len(result.plan.remove)
        BY <1>1, <2>1, Beginnings DEF Reports!AllWritten
    <2>3. /\ Reports!NextWrite = <<"remove", result.plan.remove[Len(result.removed) + 1]>>
          /\ Len(result.removed) + 1 \in 1..Len(result.plan.remove)
        BY <1>1, <1>3, <2>2 DEF Reports!NextWrite
    <2> QED
        BY <1>1, <2>3 DEF PlannedWrites, Reports!Writes, AllWrites
<1> QED
    BY <1>2, <1>3

(* What a sequence of aliases holds. *)
LEMMA ElementOf ==
    ASSUME NEW f \in Seq(Nat), NEW i \in 1..Len(f)
    PROVE  f[i] \in Nat
OBVIOUS

(* One alias more makes one write more. *)
LEMMA OneWriteMore ==
    ASSUME NEW action, NEW f \in Seq(Nat), NEW x \in Nat
    PROVE  Reports!Writes(action, Append(f, x)) = Reports!Writes(action, f) \cup {<<action, x>>}
<1>1. /\ DOMAIN Append(f, x) = 1..Len(f) + 1 /\ DOMAIN f = 1..Len(f) /\ Len(f) \in Nat
      /\ \A i \in 1..Len(f) : Append(f, x)[i] = f[i]
      /\ Append(f, x)[Len(f) + 1] = x
    OBVIOUS
<1>2. \A i : i \in 1..Len(f) + 1 <=> i \in 1..Len(f) \/ i = Len(f) + 1
    BY <1>1
<1> QED
    BY <1>1, <1>2 DEF Reports!Writes

(* A beginning that is continued by the next element is a beginning. *)
LEMMA NextElement ==
    ASSUME NEW f \in Seq(Nat), NEW g \in Seq(Nat), BeginningOf(f, g), Len(f) + 1 \in 1..Len(g)
    PROVE  BeginningOf(Append(f, g[Len(f) + 1]), g) /\ Append(f, g[Len(f) + 1]) \in Seq(Nat)
BY DEF BeginningOf

(* A block shows what its result accounts for. *)
LEMMA BlocksShow ==
    ASSUME NEW r, NEW answers, Accounts(r, answers)
    PROVE  LET b == Reports!renderSubject(r)
           IN  /\ b.subject = r.subject
               /\ b.done = answers.ok /\ b.failed = answers.refused
               /\ b.outstanding \cap (b.done \cup b.failed) = {}
               /\ b.done \cup b.failed \cup b.outstanding = PlannedWrites(r)
<1> DEFINE b == Reports!renderSubject(r)
           didAdd == Reports!Writes("add", r.added)
           didRemove == Reports!Writes("remove", r.removed)
           toAdd == Reports!Writes("add", r.plan.add)
           toRemove == Reports!Writes("remove", r.plan.remove)
<1>1. /\ b.subject = r.subject /\ b.done = didAdd \cup didRemove
      /\ b.failed = IF r.operation = <<>> THEN {} ELSE {r.operation}
      /\ b.outstanding = IF r.planned THEN Reports!writeOutstanding(r) ELSE {}
    BY DEF Reports!renderSubject
<1>2. didAdd \subseteq toAdd /\ didRemove \subseteq toRemove
    <2>1. /\ r.added \in Seq(Nat) /\ r.removed \in Seq(Nat)
          /\ r.plan.add \in Seq(Nat) /\ r.plan.remove \in Seq(Nat)
          /\ BeginningOf(r.added, r.plan.add) /\ BeginningOf(r.removed, r.plan.remove)
        BY DEF Accounts, ResultType
    <2> QED
        BY <2>1, Beginnings
<1>3. \A w : /\ ~(w \in toAdd /\ w \in didRemove)
             /\ ~(w \in toRemove /\ w \in didAdd)
    BY DEF Reports!Writes
<1>4. Reports!writeOutstanding(r)
         = { w \in toAdd : w \notin didAdd /\ w # r.operation }
           \cup { w \in toRemove : w \notin didRemove /\ w # r.operation }
    BY DEF Reports!writeOutstanding
<1>5. ~r.planned => toAdd = {} /\ toRemove = {}
    BY DEF Accounts, Reports!Writes
<1>6. r.operation # <<>> => r.operation \in toAdd \cup toRemove
    BY DEF Accounts, PlannedWrites
<1>7. <<>> \notin toAdd \cup toRemove
    BY DEF Reports!Writes
<1>8. /\ answers.ok = didAdd \cup didRemove
      /\ answers.refused = IF r.operation = <<>> THEN {} ELSE {r.operation}
    BY DEF Accounts
<1> HIDE DEF b, didAdd, didRemove, toAdd, toRemove
<1>9. PlannedWrites(r) = toAdd \cup toRemove
    BY DEF PlannedWrites, toAdd, toRemove
<1> QED
    BY <1>1, <1>2, <1>3, <1>4, <1>5, <1>6, <1>7, <1>8, <1>9 DEF b

(* The error of a result is no part of its accounts. *)
LEMMA ErrorSet ==
    ASSUME NEW e \in BOOLEAN, Accounts(result, sent[result.subject]),
           result' = [result EXCEPT !.error = e]
    PROVE  /\ result'.subject = result.subject /\ result'.planned = result.planned
           /\ result'.operation = result.operation
           /\ Accounts(result', sent[result'.subject])
<1>1. /\ result'.subject = result.subject /\ result'.planned = result.planned
      /\ result'.plan = result.plan /\ result'.added = result.added
      /\ result'.removed = result.removed /\ result'.operation = result.operation
      /\ result' \in ResultType
    BY DEF Accounts, ResultType
<1>2. PlannedWrites(result') = PlannedWrites(result)
    BY <1>1 DEF PlannedWrites
<1> QED
    BY <1>1, <1>2 DEF Accounts

(* A step of the subject in progress keeps the others' accounts. *)
LEMMA OthersKept ==
    ASSUME Scope # <<>>, ScopeInv, BlockInv, InProgress, InProgress',
           UNCHANGED <<mode, results, shown>>,
           \A s \in Reports!Range(Scope) : s # result.subject => sent'[s] = sent[s],
           sent' \in [Reports!Range(Scope) -> Answers],
           Accounts(result', sent'[result'.subject]),
           pc' = "planning" => ~result'.planned /\ result'.operation = <<>>,
           pc' = "applying" => result'.planned /\ result'.operation = <<>>
    PROVE  BlockInv'
<1>1. InScope' = InScope
    BY DEF InScope
<1>2. \A j \in 1..Len(results) : results[j].subject \in Reports!Range(Scope)
    <2>1. Len(results) <= Len(InScope) /\ Len(results) \in Nat
        BY Appended DEF ScopeInv, InProgress
    <2>2. \A j \in 1..Len(results) : j \in 1..Len(InScope) /\ results[j].subject = InScope[j]
        BY <2>1, ScopeNamesOnce DEF ScopeInv, InProgress
    <2> QED
        BY <2>2, ScopeNamesOnce
<1>3. \A j \in 1..Len(results) : sent'[results[j].subject] = sent[results[j].subject]
    BY <1>2, SubjectIsAlone
<1>4. Untouched'
    BY <1>1, ScopeNamesOnce, SubjectIsAlone DEF Untouched, BlockInv
<1>5. pc' # "done"
    BY DEF InProgress
<1> QED
    BY <1>3, <1>4, <1>5 DEF BlockInv

(* Every step keeps the accounts. *)
LEMMA BlockStep ==
    ASSUME Scope # <<>>, ScopeInv, BlockInv, [Reports!Next]_Reports!vars
    PROVE  BlockInv'
<1>0. Len(results) \in Nat
    BY Appended DEF ScopeInv
<1>1. ASSUME UNCHANGED <<mode, results, sent, shown, result>>,
             pc' = pc \/ (~InProgress /\ ~InProgress' /\ pc' # "done")
      PROVE  BlockInv'
    <2>1. InScope' = InScope /\ InProgress' = InProgress
        BY <1>1 DEF InScope, InProgress
    <2>2. Untouched'
        BY <1>1, <2>1 DEF BlockInv, Untouched
    <2>3. pc' \in {"planning", "applying", "done"} => pc' = pc
        BY <1>1 DEF InProgress
    <2> QED
        BY <1>1, <2>1, <2>2, <2>3 DEF BlockInv
<1>2. CASE \/ Reports!ListSubjects \/ Reports!ListSubjectsFails \/ Reports!StopEarly
           \/ Reports!EndOfList \/ Reports!SubjectDoneFails
    BY <1>1, <1>2 DEF Reports!ListSubjects, Reports!ListSubjectsFails, Reports!StopEarly,
                      Reports!EndOfList, Reports!SubjectDoneFails, InProgress
<1>3. CASE \/ Reports!WriteReport \/ Reports!WriteReportFails \/ Reports!Exit
           \/ Reports!Interrupt \/ Reports!Break
    BY <1>1, <1>3 DEF Reports!WriteReport, Reports!WriteReportFails, Reports!Exit,
                      Reports!Interrupt, Reports!Break, InProgress
<1>4. CASE UNCHANGED Reports!vars
    BY <1>1, <1>4 DEF Reports!vars
<1>5. CASE Reports!BeginSubject
    <2>1. /\ pc = "next" /\ pc' = "planning" /\ todo # <<>>
          /\ UNCHANGED <<mode, results, sent, shown>>
          /\ result' = [Reports!NoResult EXCEPT !.subject = Head(todo)]
        BY <1>5 DEF Reports!BeginSubject
    <2>2. InScope' = InScope /\ InProgress' /\ ~InProgress
        BY <2>1 DEF InScope, InProgress
    <2>3. Head(todo) = InScope[Len(results) + 1] /\ Len(results) + 1 \in 1..Len(InScope)
        <3>1. PICK S : todo \in Seq(S)
            BY DEF ScopeInv, IsSequence
        <3>2. Len(todo) \in Nat /\ Len(todo) >= 1 /\ Head(todo) = todo[1]
            BY <2>1, <3>1
        <3> QED
            BY <1>0, <2>1, <3>2 DEF ScopeInv
    <2>4. Head(todo) \in Nat /\ Head(todo) \in Reports!Range(Scope)
        BY <2>3, ScopeNamesOnce
    <2>5. sent[Head(todo)].ok = {} /\ sent[Head(todo)].refused = {}
        <3>1. Untouched /\ Len(results) < Len(results) + 1
            BY <1>0 DEF BlockInv
        <3> QED
            BY <2>2, <2>3, <3>1 DEF Untouched
    <2>6. /\ result'.subject = Head(todo) /\ result'.planned = FALSE /\ result'.operation = <<>>
          /\ result'.plan = [add |-> <<>>, remove |-> <<>>]
          /\ result'.added = <<>> /\ result'.removed = <<>> /\ result' \in ResultType
        <3> DEFINE h == Head(todo)
        <3>1. h \in Nat
            BY <2>4
        <3> HIDE DEF h
        <3>2. result' = [subject |-> h, planned |-> FALSE, plan |-> [add |-> <<>>, remove |-> <<>>],
                         added |-> <<>>, removed |-> <<>>, operation |-> <<>>, error |-> FALSE]
            BY <2>1 DEF Reports!NoResult, h
        <3>3. <<>> \in Seq(Nat)
            OBVIOUS
        <3>4. result' \in ResultType
            BY <3>1, <3>2, <3>3 DEF ResultType
        <3> QED
            BY <3>2, <3>4 DEF h
    <2>7. Accounts(result', sent'[result'.subject])
        <3>1. Reports!Writes("add", <<>>) = {} /\ Reports!Writes("remove", <<>>) = {}
            BY DEF Reports!Writes
        <3>2. BeginningOf(<<>>, <<>>) /\ Distinct(<<>>)
            BY DEF BeginningOf, Distinct
        <3>3. sent'[result'.subject] = sent[Head(todo)]
            BY <2>1, <2>6
        <3> HIDE <2>1
        <3> QED
            BY <2>5, <2>6, <3>1, <3>2, <3>3 DEF Accounts
    <2>8. Untouched'
        <3>1. Untouched
            BY DEF BlockInv
        <3>2. \A i \in 1..Len(InScope) : Len(results) + 1 < i => Len(results) < i
            BY <1>0
        <3> QED
            BY <2>1, <2>2, <3>1, <3>2 DEF Untouched
    <2> QED
        BY <2>1, <2>6, <2>7, <2>8 DEF BlockInv
<1>6. ASSUME NEW p \in Plans, Reports!Plan(p)
      PROVE  BlockInv'
    <2>1. /\ pc = "planning" /\ pc' = "applying" /\ UNCHANGED <<mode, results, sent, shown>>
          /\ result' = [result EXCEPT !.planned = TRUE, !.plan = p]
        BY <1>6 DEF Reports!Plan
    <2>2. /\ result \in ResultType /\ result.plan = [add |-> <<>>, remove |-> <<>>]
          /\ result.operation = <<>>
        BY <2>1 DEF BlockInv, InProgress, Accounts
    <2>3. p \in [add : Seq(Nat), remove : Seq(Nat)]
        BY SequentialAssumption
    <2>4. /\ result'.planned = TRUE /\ result'.plan = p /\ result'.subject = result.subject
          /\ result'.added = result.added /\ result'.removed = result.removed
          /\ result'.operation = result.operation /\ result' \in ResultType
        BY <2>1, <2>2, <2>3 DEF ResultType
    <2>5. result.added = <<>> /\ result.removed = <<>>
        <3>1. /\ result.added \in Seq(Nat) /\ result.removed \in Seq(Nat)
              /\ result.plan.add = <<>> /\ result.plan.remove = <<>>
            BY <2>2 DEF ResultType
        <3>2. BeginningOf(result.added, <<>>) /\ BeginningOf(result.removed, <<>>)
            BY <2>1, <3>1 DEF BlockInv, InProgress, Accounts
        <3> QED
            BY <3>1, <3>2 DEF BeginningOf
    <2>6. Accounts(result', sent'[result'.subject])
        <3>1. /\ BeginningOf(<<>>, p.add) /\ BeginningOf(<<>>, p.remove)
              /\ Distinct(p.add) /\ Distinct(p.remove)
            <4>1. BeginningOf(<<>>, p.add) /\ BeginningOf(<<>>, p.remove)
                BY <2>3 DEF BeginningOf
            <4>2. DOMAIN p.add = 1..Len(p.add) /\ DOMAIN p.remove = 1..Len(p.remove)
                BY <2>3
            <4> QED
                BY <4>1, <4>2, SequentialAssumption DEF Distinct
        <3>2. /\ sent'[result'.subject] = sent[result.subject]
              /\ Accounts(result, sent[result.subject])
            BY <2>1, <2>4 DEF BlockInv, InProgress
        <3> QED
            BY <2>2, <2>4, <2>5, <3>1, <3>2 DEF Accounts
    <2>7. InProgress /\ InProgress'
        BY <2>1 DEF InProgress
    <2> QED
        BY <2>1, <2>2, <2>4, <2>6, <2>7, OthersKept DEF BlockInv
<1>7. CASE Reports!PlanFails
    <2>1. /\ pc = "planning" /\ pc' = "closing" /\ UNCHANGED <<mode, results, sent, shown>>
          /\ result' = [result EXCEPT !.error = TRUE]
        BY <1>7 DEF Reports!PlanFails
    <2>2. Accounts(result, sent[result.subject])
        BY <2>1 DEF BlockInv, InProgress
    <2>3. Accounts(result', sent'[result'.subject])
        BY <2>1, <2>2, ErrorSet
    <2>4. InProgress /\ InProgress'
        BY <2>1 DEF InProgress
    <2> QED
        BY <2>1, <2>3, <2>4, OthersKept DEF BlockInv
<1>8. CASE Reports!WriteSucceeds
    <2>1. /\ pc = "applying" /\ pc' = pc /\ UNCHANGED <<mode, results, shown>>
          /\ ~Reports!AllWritten
          /\ sent' = [sent EXCEPT ![result.subject].ok = @ \cup {Reports!NextWrite}]
          /\ result' = IF Reports!NextWrite[1] = "add"
                       THEN [result EXCEPT !.added = Append(@, Reports!NextWrite[2])]
                       ELSE [result EXCEPT !.removed = Append(@, Reports!NextWrite[2])]
        BY <1>8 DEF Reports!WriteSucceeds
    <2>2. /\ InProgress /\ InProgress' /\ Accounts(result, sent[result.subject])
          /\ result.planned /\ result.operation = <<>>
        BY <2>1 DEF BlockInv, InProgress
    <2>3. /\ result.subject \in Reports!Range(Scope)
          /\ Reports!NextWrite \in AllWrites
        BY <2>1, <2>2, SubjectIsAlone, NextWriteIsPlanned
    <2>4. /\ sent' \in [Reports!Range(Scope) -> Answers]
          /\ \A s \in Reports!Range(Scope) : s # result.subject => sent'[s] = sent[s]
          /\ sent'[result.subject].ok = sent[result.subject].ok \cup {Reports!NextWrite}
          /\ sent'[result.subject].refused = sent[result.subject].refused
        BY <2>1, <2>3 DEF BlockInv, Answers
    <2>5. /\ result'.subject = result.subject /\ result'.planned /\ result'.operation = <<>>
          /\ Accounts(result', sent'[result.subject])
        <3> DEFINE a == result.plan.add[Len(result.added) + 1]
                   d == result.plan.remove[Len(result.removed) + 1]
        <3>0. /\ result \in ResultType
              /\ result.added \in Seq(Nat) /\ result.removed \in Seq(Nat)
              /\ result.plan.add \in Seq(Nat) /\ result.plan.remove \in Seq(Nat)
              /\ BeginningOf(result.added, result.plan.add)
              /\ BeginningOf(result.removed, result.plan.remove)
            BY <2>2 DEF Accounts, ResultType
        <3>1. CASE /\ Reports!NextWrite = <<"add", a>>
                   /\ Len(result.added) + 1 \in 1..Len(result.plan.add)
            <4>1. result' = [result EXCEPT !.added = Append(@, a)] /\ a \in Nat
                <5>1. a \in Nat
                    <6>1. /\ result.plan.add \in Seq(Nat)
                          /\ Len(result.added) + 1 \in 1..Len(result.plan.add)
                        BY <3>0, <3>1
                    <6> QED
                        BY <6>1, ElementOf
                <5> HIDE DEF a
                <5>2. Reports!NextWrite[1] = "add" /\ Reports!NextWrite[2] = a
                    BY <3>1
                <5> QED
                    BY <2>1, <5>1, <5>2
            <4>2. /\ BeginningOf(Append(result.added, a), result.plan.add)
                  /\ Append(result.added, a) \in Seq(Nat)
                BY <3>0, <3>1, NextElement
            <4>3. Reports!Writes("add", Append(result.added, a))
                    = Reports!Writes("add", result.added) \cup {<<"add", a>>}
                BY <3>0, <4>1, OneWriteMore
            <4> HIDE DEF a
            <4>4. /\ result'.subject = result.subject /\ result'.planned = result.planned
                  /\ result'.plan = result.plan /\ result'.added = Append(result.added, a)
                  /\ result'.removed = result.removed /\ result'.operation = result.operation
                  /\ result' \in ResultType
                BY <3>0, <4>1, <4>2 DEF ResultType
            <4> QED
                BY <2>2, <2>4, <3>1, <4>2, <4>3, <4>4 DEF Accounts
        <3>2. CASE /\ Reports!NextWrite = <<"remove", d>>
                   /\ Len(result.removed) + 1 \in 1..Len(result.plan.remove)
            <4>1. result' = [result EXCEPT !.removed = Append(@, d)] /\ d \in Nat
                <5>1. d \in Nat
                    <6>1. /\ result.plan.remove \in Seq(Nat)
                          /\ Len(result.removed) + 1 \in 1..Len(result.plan.remove)
                        BY <3>0, <3>2
                    <6> QED
                        BY <6>1, ElementOf
                <5> HIDE DEF d
                <5>2. Reports!NextWrite[1] # "add" /\ Reports!NextWrite[2] = d
                    BY <3>2
                <5> QED
                    BY <2>1, <5>1, <5>2
            <4>2. /\ BeginningOf(Append(result.removed, d), result.plan.remove)
                  /\ Append(result.removed, d) \in Seq(Nat)
                BY <3>0, <3>2, NextElement
            <4>3. Reports!Writes("remove", Append(result.removed, d))
                    = Reports!Writes("remove", result.removed) \cup {<<"remove", d>>}
                BY <3>0, <4>1, OneWriteMore
            <4> HIDE DEF d
            <4>4. /\ result'.subject = result.subject /\ result'.planned = result.planned
                  /\ result'.plan = result.plan /\ result'.removed = Append(result.removed, d)
                  /\ result'.added = result.added /\ result'.operation = result.operation
                  /\ result' \in ResultType
                BY <3>0, <4>1, <4>2 DEF ResultType
            <4> QED
                BY <2>2, <2>4, <3>2, <4>2, <4>3, <4>4 DEF Accounts
        <3> QED
            BY <2>1, <2>2, <3>1, <3>2, NextWriteIsPlanned
    <2> QED
        BY <2>1, <2>2, <2>4, <2>5, OthersKept
<1>9. CASE Reports!WriteFails
    <2>1. /\ pc = "applying" /\ pc' = "closing" /\ UNCHANGED <<mode, results, shown>>
          /\ ~Reports!AllWritten
          /\ sent' = [sent EXCEPT ![result.subject].refused = @ \cup {Reports!NextWrite}]
          /\ result' = [result EXCEPT !.operation = Reports!NextWrite, !.error = TRUE]
        BY <1>9 DEF Reports!WriteFails
    <2>2. /\ InProgress /\ InProgress' /\ Accounts(result, sent[result.subject])
          /\ result.planned /\ result.operation = <<>>
        BY <2>1 DEF BlockInv, InProgress
    <2>3. /\ result.subject \in Reports!Range(Scope)
          /\ Reports!NextWrite \in AllWrites /\ Reports!NextWrite \in PlannedWrites(result)
        BY <2>1, <2>2, SubjectIsAlone, NextWriteIsPlanned
    <2>4. /\ sent' \in [Reports!Range(Scope) -> Answers]
          /\ \A s \in Reports!Range(Scope) : s # result.subject => sent'[s] = sent[s]
          /\ sent'[result.subject].refused = sent[result.subject].refused \cup {Reports!NextWrite}
          /\ sent'[result.subject].ok = sent[result.subject].ok
        BY <2>1, <2>3 DEF BlockInv, Answers
    <2>5. /\ result'.subject = result.subject /\ result'.planned = result.planned
          /\ result'.plan = result.plan /\ result'.added = result.added
          /\ result'.removed = result.removed /\ result'.operation = Reports!NextWrite
          /\ result' \in ResultType
        BY <2>1, <2>2, <2>3 DEF Accounts, ResultType
    <2>6. Accounts(result', sent'[result'.subject])
        <3>1. PlannedWrites(result') = PlannedWrites(result)
            BY <2>5 DEF PlannedWrites
        <3>2. Reports!NextWrite # <<>>
            BY <2>3 DEF AllWrites
        <3> QED
            BY <2>2, <2>3, <2>4, <2>5, <3>1, <3>2 DEF Accounts
    <2> QED
        BY <2>1, <2>2, <2>4, <2>6, OthersKept
<1>10. ASSUME NEW fails \in BOOLEAN, Reports!Save(fails)
       PROVE  BlockInv'
    <2>1. /\ pc = "applying" /\ pc' = "closing" /\ UNCHANGED <<mode, results, sent, shown>>
          /\ result' = [result EXCEPT !.error = fails]
        BY <1>10 DEF Reports!Save
    <2>2. Accounts(result, sent[result.subject])
        BY <2>1 DEF BlockInv, InProgress
    <2>3. Accounts(result', sent'[result'.subject])
        BY <2>1, <2>2, ErrorSet
    <2>4. InProgress /\ InProgress'
        BY <2>1 DEF InProgress
    <2> QED
        BY <2>1, <2>3, <2>4, OthersKept DEF BlockInv
<1>11. ASSUME NEW fails \in BOOLEAN, Reports!Close(fails)
       PROVE  BlockInv'
    <2>1. /\ pc = "closing" /\ pc' = "done" /\ UNCHANGED <<mode, sent, shown>>
          /\ results' = Append(results, result')
          /\ result' = [result EXCEPT !.error = @ \/ fails]
        BY <1>11 DEF Reports!Close
    <2>2. InProgress /\ ~InProgress' /\ InScope' = InScope
        BY <2>1 DEF InProgress, InScope
    <2>3. Accounts(result', sent[result'.subject])
        <3>1. Accounts(result, sent[result.subject])
            BY <2>2 DEF BlockInv
        <3>2. (result.error \/ fails) \in BOOLEAN
            OBVIOUS
        <3>3. result' = [result EXCEPT !.error = (result.error \/ fails)]
            BY <2>1
        <3> QED
            BY <3>1, <3>2, <3>3, ErrorSet
    <2>4. /\ Len(results') = Len(results) + 1
          /\ \A i \in 1..Len(results) : results'[i] = results[i]
          /\ results'[Len(results) + 1] = result'
        BY <2>1, Appended DEF ScopeInv
    <2>5. ASSUME NEW j \in 1..Len(results')
          PROVE  Accounts(results'[j], sent'[results'[j].subject])
        <3>1. j \in 1..Len(results) \/ j = Len(results) + 1
            BY <1>0, <2>4
        <3> QED
            BY <2>1, <2>3, <2>4, <3>1 DEF BlockInv
    <2>6. Untouched'
        <3>1. Untouched
            BY DEF BlockInv
        <3> QED
            BY <2>1, <2>2, <2>4, <3>1 DEF Untouched
    <2>7. ASSUME NEW i \in 1..Len(shown)
          PROVE  \E j \in 1..Len(results') : shown[i] = Reports!renderSubject(results'[j])
        <3>1. PICK j \in 1..Len(results) : shown[i] = Reports!renderSubject(results[j])
            BY DEF BlockInv
        <3>2. j \in 1..Len(results') /\ results'[j] = results[j]
            BY <1>0, <2>4
        <3> QED
            BY <3>1, <3>2
    <2>8. Len(results') > 0 /\ result' = results'[Len(results')]
        BY <1>0, <2>4
    <2> QED
        BY <2>1, <2>2, <2>5, <2>6, <2>7, <2>8 DEF BlockInv
<1>12. CASE Reports!SubjectDone
    <2>1. /\ pc = "done" /\ pc' = "next" /\ UNCHANGED <<mode, results, sent, result>>
          /\ shown' = shown \/ shown' = Append(shown, Reports!renderSubject(result))
        BY <1>12 DEF Reports!SubjectDone
    <2>2. InScope' = InScope /\ ~InProgress /\ ~InProgress'
        BY <2>1 DEF InScope, InProgress
    <2>3. Untouched'
        BY <2>1, <2>2 DEF BlockInv, Untouched
    <2>4. IsSequence(shown') /\ \A i \in 1..Len(shown') :
             \E j \in 1..Len(results) : shown'[i] = Reports!renderSubject(results[j])
        <3>1. CASE shown' = shown
            BY <3>1 DEF BlockInv
        <3>2. CASE shown' = Append(shown, Reports!renderSubject(result))
            <4>1. /\ IsSequence(shown') /\ Len(shown) \in Nat /\ Len(shown') = Len(shown) + 1
                  /\ \A i \in 1..Len(shown) : shown'[i] = shown[i]
                  /\ shown'[Len(shown) + 1] = Reports!renderSubject(result)
                BY <3>2, Appended DEF BlockInv
            <4>2. Len(results) \in 1..Len(results) /\ result = results[Len(results)]
                BY <1>0, <2>1 DEF BlockInv
            <4>3. ASSUME NEW i \in 1..Len(shown')
                  PROVE  \E j \in 1..Len(results) : shown'[i] = Reports!renderSubject(results[j])
                <5>1. i \in 1..Len(shown) \/ i = Len(shown) + 1
                    BY <4>1
                <5> QED
                    BY <4>1, <4>2, <5>1 DEF BlockInv
            <4> QED
                BY <4>1, <4>3
        <3> QED
            BY <2>1, <3>1, <3>2
    <2> QED
        BY <2>1, <2>2, <2>3, <2>4 DEF BlockInv
<1> QED
    BY <1>2, <1>3, <1>4, <1>5, <1>6, <1>7, <1>8, <1>9, <1>10, <1>11, <1>12 DEF Reports!Next

(* Of distinct aliases there are as many writes. *)
LEMMA WritesCount ==
    ASSUME NEW action, NEW f \in Seq(Nat), Distinct(f)
    PROVE  /\ IsFiniteSet(Reports!Writes(action, f))
           /\ Cardinality(Reports!Writes(action, f)) = Len(f)
<1> DEFINE n == Len(f)
           h == [i \in 1..n |-> <<action, f[i]>>]
           W == Reports!Writes(action, f)
<1>1. n \in Nat /\ DOMAIN f = 1..n
    OBVIOUS
<1>2. W = { <<action, f[i]>> : i \in 1..n }
    BY <1>1 DEF Reports!Writes
<1>3. \A i, j \in 1..n : h[i] = h[j] => i = j
    BY DEF Distinct
<1>4. h \in [1..n -> W] /\ \A w \in W : \E i \in 1..n : h[i] = w
    BY <1>2
<1> HIDE DEF n, h, W
<1>5. h \in Bijection(1..n, W)
    BY <1>3, <1>4, Zenon DEF Bijection, Injection, Surjection, IsInjective
<1>6. ExistsBijection(1..n, W)
    BY <1>5 DEF ExistsBijection
<1>7. IsFiniteSet(W) /\ Cardinality(W) = n
    BY <1>1, <1>6, FS_NatBijection, FS_CountingElements
<1> QED
    BY <1>7 DEF n, W

(* Two sets with no element in common. *)
LEMMA DisjointUnion ==
    ASSUME NEW S, NEW T, IsFiniteSet(S), IsFiniteSet(T), S \cap T = {}
    PROVE  /\ IsFiniteSet(S \cup T) /\ Cardinality(S) \in Nat /\ Cardinality(T) \in Nat
           /\ Cardinality(S \cup T) = Cardinality(S) + Cardinality(T)
<1>1. Cardinality(S) \in Nat /\ Cardinality(T) \in Nat
    BY FS_CardinalityType
<1>2. /\ IsFiniteSet(S \cup T)
      /\ Cardinality(S \cup T) = Cardinality(S) + Cardinality(T) - Cardinality(S \cap T)
    BY FS_Union
<1>3. Cardinality(S \cap T) = 0
    BY FS_EmptySet
<1> QED
    BY <1>1, <1>2, <1>3

(* The writes answered well of one subject are those of its result. *)
LEMMA AnsweredOfOne ==
    ASSUME NEW r, NEW answers, Accounts(r, answers), NEW s
    PROVE  /\ IsFiniteSet({s} \X answers.ok)
           /\ Len(r.added) + Len(r.removed) \in Nat
           /\ Cardinality({s} \X answers.ok) = Len(r.added) + Len(r.removed)
<1> DEFINE A == Reports!Writes("add", r.added)
           R == Reports!Writes("remove", r.removed)
<1>1. /\ r.added \in Seq(Nat) /\ r.removed \in Seq(Nat)
      /\ r.plan.add \in Seq(Nat) /\ r.plan.remove \in Seq(Nat)
      /\ BeginningOf(r.added, r.plan.add) /\ BeginningOf(r.removed, r.plan.remove)
      /\ Distinct(r.plan.add) /\ Distinct(r.plan.remove)
    BY DEF Accounts, ResultType
<1>2. \A f, g : f \in Seq(Nat) /\ g \in Seq(Nat) /\ BeginningOf(f, g) /\ Distinct(g) => Distinct(f)
    <2> SUFFICES ASSUME NEW f \in Seq(Nat), NEW g \in Seq(Nat), BeginningOf(f, g), Distinct(g)
                 PROVE  Distinct(f)
        OBVIOUS
    <2>1. \A i \in 1..Len(f) : i \in 1..Len(g) /\ f[i] = g[i]
        BY DEF BeginningOf
    <2> QED
        BY <2>1 DEF Distinct
<1>3. Distinct(r.added) /\ Distinct(r.removed)
    BY <1>1, <1>2
<1>4. /\ IsFiniteSet(A) /\ Cardinality(A) = Len(r.added) /\ Len(r.added) \in Nat
      /\ IsFiniteSet(R) /\ Cardinality(R) = Len(r.removed) /\ Len(r.removed) \in Nat
    BY <1>1, <1>3, WritesCount
<1>5. A \cap R = {}
    BY DEF Reports!Writes
<1>6. answers.ok = A \cup R
    BY DEF Accounts
<1> HIDE DEF A, R
<1>7. IsFiniteSet(A \cup R) /\ Cardinality(A \cup R) = Len(r.added) + Len(r.removed)
    <2>1. IsFiniteSet(A \cup R) /\ Cardinality(A \cup R) = Cardinality(A) + Cardinality(R)
        BY <1>4, <1>5, DisjointUnion
    <2> QED
        BY <1>4, <2>1
<1>8. /\ IsFiniteSet({s} \X (A \cup R))
      /\ Cardinality({s} \X (A \cup R)) = Cardinality({s}) * Cardinality(A \cup R)
    BY <1>7, FS_Product, FS_Singleton
<1> DEFINE a == Len(r.added)
           b == Len(r.removed)
           c == Cardinality(A \cup R)
<1>9. a \in Nat /\ b \in Nat /\ c = a + b
    BY <1>4, <1>7
<1>10. Cardinality({s} \X (A \cup R)) = 1 * c
    BY <1>8, FS_Singleton
<1> HIDE DEF a, b, c
<1>11. a + b \in Nat /\ 1 * c = a + b
    BY <1>9
<1> QED
    BY <1>6, <1>8, <1>10, <1>11 DEF a, b

(* The results' subjects are in the scope, and differ. *)
LEMMA ResultsDiffer ==
    ASSUME Scope # <<>>, ScopeInv
    PROVE  /\ Len(results) \in Nat /\ DOMAIN results = 1..Len(results)
           /\ \A i \in 1..Len(results) :
                 /\ i \in 1..Len(InScope) /\ results[i].subject = InScope[i]
                 /\ results[i].subject \in Reports!Range(Scope)
           /\ \A i, j \in 1..Len(results) : results[i].subject = results[j].subject => i = j
<1>1. Len(results) \in Nat /\ DOMAIN results = 1..Len(results)
    BY Appended DEF ScopeInv
<1>2. ASSUME NEW i \in 1..Len(results)
      PROVE  i \in 1..Len(InScope) /\ results[i].subject = InScope[i]
    <2>1. pc # "listing"
        <3> SUFFICES ASSUME pc = "listing" PROVE FALSE
            OBVIOUS
        <3>1. results = <<>>
            BY DEF ScopeInv
        <3> QED
            BY <1>2, <3>1
    <2>2. Len(results) <= Len(InScope) /\ \A j \in 1..Len(results) : results[j].subject = InScope[j]
        BY <2>1 DEF ScopeInv
    <2> QED
        BY <1>1, <2>2, ScopeNamesOnce
<1> QED
    BY <1>1, <1>2, ScopeNamesOnce

(* The writes that were answered well, of the first results. *)
AnsweredBy(n) == UNION { {results[j].subject} \X sent[results[j].subject].ok : j \in 1..n }

(* The total counts each of them once. *)
LEMMA WritesTotal ==
    ASSUME Scope # <<>>, ScopeInv, BlockInv
    PROVE  Reports!WritesTo[Len(results)] = Cardinality(AnsweredBy(Len(results)))
<1> DEFINE n == Len(results)
           v == [i \in 1..n |-> Len(results[i].added) + Len(results[i].removed)]
           Rule(f) == [i \in 0..n |-> IF i = 0 THEN 0
                                      ELSE f[i - 1] + (Len(results[i].added) + Len(results[i].removed))]
           One(j) == {results[j].subject} \X sent[results[j].subject].ok
<1>1. n \in Nat /\ \A i, j \in 1..n : results[i].subject = results[j].subject => i = j
    BY ResultsDiffer
<1>2. ASSUME NEW j \in 1..n
      PROVE  IsFiniteSet(One(j)) /\ Cardinality(One(j)) = v[j] /\ v[j] \in Nat
    <2>1. Accounts(results[j], sent[results[j].subject])
        BY DEF BlockInv
    <2> QED
        BY <2>1, AnsweredOfOne
<1>3. PICK f : Sums(f, v, n)
    <2>1. v \in [1..n -> Nat]
        BY <1>2
    <2> HIDE DEF v, n
    <2> QED
        BY <1>1, <2>1, PartialSums
<1>4. Reports!WritesTo = Rule(Reports!WritesTo)
    <2>1. \A i \in 0..n : i = 0 \/ i \in 1..n
        BY <1>1
    <2>2. f = Rule(f)
        <3> HIDE DEF n
        <3> QED
            BY <1>3, <2>1 DEF Sums
    <2>3. Reports!WritesTo = CHOOSE g : g = Rule(g)
        BY Zenon DEF Reports!WritesTo
    <2> HIDE DEF Rule
    <2> QED
        BY <2>2, <2>3
<1> DEFINE total == Reports!WritesTo
           S == { i \in Nat : i <= n => IsFiniteSet(AnsweredBy(i)) /\ total[i] = Cardinality(AnsweredBy(i)) }
<1>5. total[0] = 0 /\ \A i \in 1..n : i # 0 /\ total[i] = total[i - 1] + v[i]
    <2>1. 0 \in 0..n /\ \A i \in 1..n : i # 0 /\ i \in 0..n
        BY <1>1
    <2> HIDE DEF n
    <2> QED
        BY <1>4, <2>1
<1> HIDE DEF n, v, total
<1>6. 0 \in S
    <2>1. AnsweredBy(0) = {}
        BY DEF AnsweredBy
    <2> QED
        BY <1>5, <2>1, FS_EmptySet
<1>7. ASSUME NEW i \in Nat, i \in S
      PROVE  i + 1 \in S
    <2> SUFFICES ASSUME i + 1 <= n
                 PROVE  IsFiniteSet(AnsweredBy(i + 1)) /\ total[i + 1] = Cardinality(AnsweredBy(i + 1))
        OBVIOUS
    <2>1. i + 1 \in 1..n /\ (i + 1) - 1 = i /\ \A j \in 1..i : j \in 1..n /\ j # i + 1
        BY <1>1
    <2>2. AnsweredBy(i + 1) = AnsweredBy(i) \cup One(i + 1)
        <3>1. \A j : j \in 1..(i + 1) <=> j \in 1..i \/ j = i + 1
            OBVIOUS
        <3> HIDE DEF One
        <3>2. \A m : AnsweredBy(m) = UNION { One(j) : j \in 1..m }
            BY DEF AnsweredBy, One
        <3> QED
            BY <3>1, <3>2
    <2>3. AnsweredBy(i) \cap One(i + 1) = {}
        BY <1>1, <2>1 DEF AnsweredBy
    <2>4. IsFiniteSet(AnsweredBy(i)) /\ total[i] = Cardinality(AnsweredBy(i))
        BY <1>1, <1>7
    <2>5. IsFiniteSet(One(i + 1)) /\ Cardinality(One(i + 1)) = v[i + 1]
        BY <1>2, <2>1
    <2>6. total[i + 1] = total[i] + v[i + 1]
        BY <1>5, <2>1
    <2> HIDE DEF One
    <2> QED
        BY <2>2, <2>3, <2>4, <2>5, <2>6, DisjointUnion
<1> HIDE DEF S
<1>8. Nat \subseteq S
    BY <1>6, <1>7, Induction
<1> QED
    BY <1>1, <1>8 DEF S, n, total

(* Every result has one of the three statuses. *)
LEMMA StatusesAddUp ==
    ASSUME ScopeInv
    PROVE  Len(results)
              = Reports!With("applied") + Reports!With("unchanged") + Reports!With("failed")
<1> DEFINE n == Len(results)
           W(status) == { i \in DOMAIN results : Reports!subjectStatus(results[i]) = status }
           A == W("applied")
           U == W("unchanged")
           F == W("failed")
<1>1. n \in Nat /\ DOMAIN results = 1..n
    BY Appended DEF ScopeInv
<1>2. \A status : Reports!With(status) = Cardinality(W(status))
    BY Zenon DEF Reports!With, Reports!Cardinality, Cardinality
<1>3. \A i \in 1..n : Reports!subjectStatus(results[i]) \in {"applied", "unchanged", "failed"}
    BY DEF Reports!subjectStatus
<1>4. /\ (A \cup U) \cup F = 1..n /\ A \cap U = {} /\ (A \cup U) \cap F = {}
      /\ A \subseteq 1..n /\ U \subseteq 1..n /\ F \subseteq 1..n
    BY <1>1, <1>3
<1>5. IsFiniteSet(1..n) /\ Cardinality(1..n) = n
    <2> HIDE DEF n
    <2>1. 1 \in Int /\ n \in Int /\ (1 > n => n = 0) /\ n - 1 + 1 = n
        BY <1>1
    <2> QED
        BY <2>1, FS_Interval
<1>6. Reports!With("applied") = Cardinality(A) /\ Reports!With("unchanged") = Cardinality(U)
      /\ Reports!With("failed") = Cardinality(F)
    BY <1>2
<1> HIDE DEF n, A, U, F
<1>7. IsFiniteSet(A) /\ IsFiniteSet(U) /\ IsFiniteSet(F)
    BY <1>4, <1>5, FS_Subset
<1>8. /\ IsFiniteSet(A \cup U) /\ Cardinality(A \cup U) = Cardinality(A) + Cardinality(U)
    BY <1>4, <1>7, DisjointUnion
<1>9. Cardinality((A \cup U) \cup F) = Cardinality(A \cup U) + Cardinality(F)
    BY <1>4, <1>7, <1>8, DisjointUnion
<1> QED
    BY <1>4, <1>5, <1>6, <1>8, <1>9 DEF n

(* How many of the first results have a block. *)
ShownOf(n) == { i \in 1..n : Reports!Shows(results[i]) }

(* What is reported is of the results as they are; as many blocks have     *)
(* been written as there are results that have one, but that of a result   *)
(* that is done, or could not be written.                                  *)
TotalsInv ==
    /\ report.written => report = Reports!writeApplyReport
    /\ ~mode.json =>
          /\ pc \notin {"done", "reporting", "exiting", "exited"} =>
                Len(shown) = Cardinality(ShownOf(Len(results)))
          /\ pc = "done" => Len(shown) = Cardinality(ShownOf(Len(results) - 1))
          /\ pc = "reporting" => broken \/ Len(shown) = Cardinality(ShownOf(Len(results)))
          /\ report.written => Len(shown) = Cardinality(ShownOf(Len(results)))

(* One result more. *)
LEMMA ShownMore ==
    ASSUME NEW n \in Nat, n # 0
    PROVE  /\ IsFiniteSet(ShownOf(n - 1)) /\ Cardinality(ShownOf(n - 1)) \in Nat
           /\ Cardinality(ShownOf(n)) = IF Reports!Shows(results[n]) THEN Cardinality(ShownOf(n - 1)) + 1
                                        ELSE Cardinality(ShownOf(n - 1))
<1>1. n - 1 \in Nat /\ n \in 1..n /\ \A i : i \in 1..n <=> i \in 1..(n - 1) \/ i = n
    OBVIOUS
<1>2. n \notin ShownOf(n - 1) /\ ShownOf(n - 1) \subseteq 1..(n - 1)
    BY DEF ShownOf
<1>3. IsFiniteSet(ShownOf(n - 1)) /\ Cardinality(ShownOf(n - 1)) \in Nat
    <2>1. IsFiniteSet(1..(n - 1))
        BY FS_Interval
    <2> QED
        BY <1>2, <2>1, FS_Subset, FS_CardinalityType
<1>4. CASE Reports!Shows(results[n])
    <2>1. ShownOf(n) = ShownOf(n - 1) \cup {n}
        BY <1>1, <1>4 DEF ShownOf
    <2> QED
        BY <1>2, <1>3, <1>4, <2>1, FS_AddElement
<1>5. CASE ~Reports!Shows(results[n])
    <2>1. ShownOf(n) = ShownOf(n - 1)
        BY <1>1, <1>5 DEF ShownOf
    <2> QED
        BY <1>3, <1>5, <2>1
<1> QED
    BY <1>4, <1>5

(* Nothing is answered well but to a subject in the scope. *)
Unsent ==
    /\ pc = "listing" => \A s \in Reports!Range(Scope) : sent[s].ok = {}
    /\ \A s \in Reports!Range(Scope) :
          (\A i \in 1..Len(InScope) : InScope[i] # s) => sent[s].ok = {}

LEMMA UnsentStep ==
    ASSUME Scope # <<>>, ScopeInv, BlockInv, Unsent, [Reports!Next]_Reports!vars
    PROVE  Unsent'
<1>1. ASSUME UNCHANGED <<mode, sent>>, pc' = "listing" => pc = "listing"
      PROVE  Unsent'
    <2>1. InScope' = InScope
        BY <1>1 DEF InScope
    <2> QED
        BY <1>1, <2>1 DEF Unsent
<1>2. CASE Reports!WriteSucceeds \/ Reports!WriteFails
    <2>1. /\ pc = "applying" /\ pc' # "listing" /\ UNCHANGED mode
          /\ \/ sent' = [sent EXCEPT ![result.subject].ok = @ \cup {Reports!NextWrite}]
             \/ sent' = [sent EXCEPT ![result.subject].refused = @ \cup {Reports!NextWrite}]
        BY <1>2 DEF Reports!WriteSucceeds, Reports!WriteFails
    <2>2. result.subject = InScope[Len(results) + 1] /\ Len(results) + 1 \in 1..Len(InScope)
        <3>1. /\ Len(results) \in Nat /\ Len(todo) \in Nat
              /\ Len(results) + 1 + Len(todo) = Len(InScope)
              /\ result.subject = InScope[Len(results) + 1]
            BY <2>1, Appended DEF ScopeInv
        <3> QED
            BY <3>1
    <2>3. ASSUME NEW s \in Reports!Range(Scope), \A i \in 1..Len(InScope) : InScope[i] # s
          PROVE  sent'[s] = sent[s]
        <3>1. s # result.subject
            BY <2>2, <2>3
        <3>2. sent \in [Reports!Range(Scope) -> Answers]
            BY DEF BlockInv
        <3> QED
            BY <2>1, <3>1, <3>2
    <2>4. InScope' = InScope
        BY <2>1 DEF InScope
    <2> QED
        BY <2>1, <2>3, <2>4 DEF Unsent
<1>3. CASE \/ Reports!ListSubjects \/ Reports!ListSubjectsFails \/ Reports!StopEarly
           \/ Reports!EndOfList \/ Reports!SubjectDone \/ Reports!SubjectDoneFails
           \/ Reports!BeginSubject \/ Reports!PlanFails
           \/ (\E p \in Plans : Reports!Plan(p))
           \/ \E fails \in BOOLEAN : Reports!Save(fails) \/ Reports!Close(fails)
    BY <1>1, <1>3 DEF Reports!ListSubjects, Reports!ListSubjectsFails, Reports!StopEarly,
                Reports!EndOfList, Reports!SubjectDone, Reports!SubjectDoneFails, Reports!BeginSubject,
                Reports!PlanFails, Reports!Plan, Reports!Save, Reports!Close
<1>4. CASE \/ Reports!WriteReport \/ Reports!WriteReportFails \/ Reports!Exit
           \/ Reports!Interrupt \/ Reports!Break
    BY <1>1, <1>4 DEF Reports!WriteReport, Reports!WriteReportFails, Reports!Exit,
                Reports!Interrupt, Reports!Break
<1>5. CASE UNCHANGED Reports!vars
    BY <1>1, <1>5 DEF Reports!vars
<1> QED
    BY <1>2, <1>3, <1>4, <1>5 DEF Reports!Next

(* Every step keeps the totals. *)
LEMMA TotalsStep ==
    ASSUME Scope # <<>>, ScopeInv, ReportedInv, BlockInv, TotalsInv, [Reports!Next]_Reports!vars
    PROVE  TotalsInv'
<1> DEFINE Early == pc \notin {"done", "reporting", "exiting", "exited"}
           All == Cardinality(ShownOf(Len(results)))
<1>0. Len(results) \in Nat /\ DOMAIN results = 1..Len(results)
    BY ResultsDiffer
<1>1. pc \notin {"exiting", "exited"} => ~report.written
    BY DEF ReportedInv
<1>2. ASSUME UNCHANGED <<mode, results>>
      PROVE  \A n : ShownOf(n)' = ShownOf(n)
    BY <1>2 DEF ShownOf, Reports!Shows, Reports!IncludeUnchanged
<1>3. ASSUME UNCHANGED <<mode, results, shown, report>>, Early, Early' \/ pc' = "reporting"
      PROVE  TotalsInv'
    <2>1. \A n : ShownOf(n)' = ShownOf(n)
        BY <1>2, <1>3
    <2>2. ~report'.written
        BY <1>1, <1>3
    <2> QED
        BY <1>3, <2>1, <2>2 DEF TotalsInv
<1>4. ASSUME UNCHANGED <<mode, results, failed, shown, report, pc>>, broken => broken'
      PROVE  TotalsInv'
    <2>1. \A n : ShownOf(n)' = ShownOf(n)
        BY <1>2, <1>4
    <2>2. Reports!writeApplyReport' = Reports!writeApplyReport
        BY <1>4 DEF Reports!writeApplyReport, Reports!WritesTo, Reports!With, Reports!Shows,
                    Reports!IncludeUnchanged
    <2> QED
        BY <1>4, <2>1, <2>2 DEF TotalsInv
<1>5. CASE \/ Reports!ListSubjects \/ Reports!ListSubjectsFails \/ Reports!StopEarly
           \/ Reports!EndOfList \/ Reports!BeginSubject \/ Reports!PlanFails
           \/ Reports!WriteSucceeds \/ Reports!WriteFails
           \/ (\E p \in Plans : Reports!Plan(p)) \/ \E fails \in BOOLEAN : Reports!Save(fails)
    BY <1>3, <1>5 DEF Reports!ListSubjects, Reports!ListSubjectsFails, Reports!StopEarly,
                Reports!EndOfList, Reports!BeginSubject, Reports!WriteSucceeds, Reports!WriteFails,
                Reports!PlanFails, Reports!Plan, Reports!Save
<1>6. ASSUME NEW fails \in BOOLEAN, Reports!Close(fails)
      PROVE  TotalsInv'
    <2>1. /\ pc = "closing" /\ pc' = "done" /\ UNCHANGED <<mode, shown, report>>
          /\ results' = Append(results, result')
        BY <1>6 DEF Reports!Close
    <2>2. /\ Len(results') = Len(results) + 1 /\ \A i \in 1..Len(results) : results'[i] = results[i]
        BY <2>1, Appended DEF ScopeInv
    <2>3. ShownOf(Len(results) - 1)' = ShownOf(Len(results))
        <3>1. Len(results') - 1 = Len(results)
            BY <1>0, <2>2
        <3>2. ASSUME NEW i \in 1..Len(results)
              PROVE  Reports!Shows(results[i])' = Reports!Shows(results[i])
            <4>1. results'[i] = results[i] /\ mode' = mode
                BY <2>1, <2>2
            <4> QED
                BY <4>1 DEF Reports!Shows, Reports!IncludeUnchanged
        <3> QED
            BY <3>1, <3>2 DEF ShownOf
    <2>4. ~report'.written
        BY <1>1, <2>1
    <2> QED
        BY <2>1, <2>3, <2>4 DEF TotalsInv
<1>7. CASE Reports!SubjectDone
    <2>1. /\ pc = "done" /\ pc' = "next" /\ UNCHANGED <<mode, results, report>>
          /\ shown' = IF mode.json \/ ~Reports!Shows(result) THEN shown
                      ELSE Append(shown, Reports!renderSubject(result))
        BY <1>7 DEF Reports!SubjectDone
    <2>2. Len(results) # 0 /\ result = results[Len(results)]
        BY <1>0, <2>1 DEF BlockInv
    <2>3. ~mode.json => Len(shown') = Len(shown) + (IF Reports!Shows(result) THEN 1 ELSE 0)
        <3>1. /\ Len(Append(shown, Reports!renderSubject(result))) = Len(shown) + 1
              /\ Len(shown) \in Nat
            BY Appended DEF BlockInv
        <3> QED
            BY <2>1, <3>1
    <2>4. ~mode.json => Len(shown) = Cardinality(ShownOf(Len(results) - 1))
        BY <2>1 DEF TotalsInv
    <2>5. ~mode.json => Len(shown') = All
        BY <1>0, <2>2, <2>3, <2>4, ShownMore
    <2>6. \A n : ShownOf(n)' = ShownOf(n)
        BY <1>2, <2>1
    <2>7. ~report'.written
        BY <1>1, <2>1
    <2> QED
        BY <2>1, <2>5, <2>6, <2>7 DEF TotalsInv
<1>8. CASE Reports!SubjectDoneFails
    <2>1. /\ pc = "done" /\ pc' = "reporting" /\ broken' /\ UNCHANGED report
        BY <1>8 DEF Reports!SubjectDoneFails
    <2>2. ~report'.written
        BY <1>1, <2>1
    <2> QED
        BY <2>1, <2>2 DEF TotalsInv
<1>9. CASE Reports!WriteReport
    <2>1. /\ pc = "reporting" /\ pc' = "exiting" /\ report' = Reports!writeApplyReport
          /\ UNCHANGED <<mode, results, failed, shown>> /\ ~broken
        BY <1>9 DEF Reports!WriteReport
    <2>2. \A n : ShownOf(n)' = ShownOf(n)
        BY <1>2, <2>1
    <2>3. Reports!writeApplyReport' = Reports!writeApplyReport
        BY <2>1 DEF Reports!writeApplyReport, Reports!WritesTo, Reports!With, Reports!Shows,
                    Reports!IncludeUnchanged
    <2> QED
        BY <2>1, <2>2, <2>3 DEF TotalsInv
<1>10. CASE Reports!WriteReportFails
    <2>1. pc = "reporting" /\ pc' = "exiting" /\ UNCHANGED report
        BY <1>10 DEF Reports!WriteReportFails
    <2>2. ~report'.written
        BY <1>1, <2>1
    <2> QED
        BY <2>1, <2>2 DEF TotalsInv
<1>11. CASE Reports!Exit
    <2>1. /\ pc = "exiting" /\ pc' = "exited" /\ UNCHANGED <<mode, results, failed, shown, report>>
        BY <1>11 DEF Reports!Exit
    <2>2. \A n : ShownOf(n)' = ShownOf(n)
        BY <1>2, <2>1
    <2>3. Reports!writeApplyReport' = Reports!writeApplyReport
        BY <2>1 DEF Reports!writeApplyReport, Reports!WritesTo, Reports!With, Reports!Shows,
                    Reports!IncludeUnchanged
    <2> QED
        BY <2>1, <2>2, <2>3 DEF TotalsInv
<1>12. CASE Reports!Interrupt \/ Reports!Break
    BY <1>4, <1>12 DEF Reports!Interrupt, Reports!Break
<1>13. CASE UNCHANGED Reports!vars
    BY <1>4, <1>13 DEF Reports!vars
<1> QED
    BY <1>5, <1>6, <1>7, <1>8, <1>9, <1>10, <1>11, <1>12, <1>13 DEF Reports!Next

(* The totals of a report that is written are those of the run. *)
LEMMA TotalsTrue ==
    ASSUME Scope # <<>>, ScopeInv, ReportedInv, BlockInv, TotalsInv, Unsent
    PROVE  Reports!TotalsAddUp
<1> SUFFICES ASSUME report.written
             PROVE  /\ report.subjects = report.applied + report.unchanged + report.failed
                    /\ report.writes = Reports!Cardinality(UNION { {s} \X sent[s].ok : s \in Reports!Range(Scope) })
                    /\ report.listed = IF mode.json THEN report.subjects ELSE Len(shown)
    BY Zenon DEF Reports!TotalsAddUp
<1> DEFINE n == Len(results)
           Listed == { i \in DOMAIN results : mode.json \/ Reports!Shows(results[i]) }
           Answered == UNION { {s} \X sent[s].ok : s \in Reports!Range(Scope) }
<1>1. /\ n \in Nat /\ DOMAIN results = 1..n
      /\ \A i \in 1..n : results[i].subject = InScope[i] /\ results[i].subject \in Reports!Range(Scope)
    BY ResultsDiffer
<1>2. /\ report.subjects = n /\ report.applied = Reports!With("applied")
      /\ report.unchanged = Reports!With("unchanged") /\ report.failed = Reports!With("failed")
      /\ report.writes = Reports!WritesTo[n] /\ report.listed = Reports!Cardinality(Listed)
    BY DEF TotalsInv, Reports!writeApplyReport
<1>3. n = Reports!With("applied") + Reports!With("unchanged") + Reports!With("failed")
    BY StatusesAddUp
<1>4. Reports!Cardinality(Listed) = Cardinality(Listed) /\ Reports!Cardinality(Answered) = Cardinality(Answered)
    BY Zenon DEF Reports!Cardinality, Cardinality
<1>5. AnsweredBy(n) = Answered
    <2>1. ~InProgress
        BY DEF ReportedInv, InProgress
    <2>2. ASSUME NEW s \in Reports!Range(Scope), \A j \in 1..n : results[j].subject # s
          PROVE  sent[s].ok = {}
        <3>1. CASE \E i \in 1..Len(InScope) : InScope[i] = s
            <4>1. PICK i \in 1..Len(InScope) : InScope[i] = s
                BY <3>1
            <4>2. n < i
                BY <1>1, <2>2, <4>1, ScopeNamesOnce
            <4> QED
                BY <2>1, <4>1, <4>2 DEF BlockInv, Untouched
        <3>2. CASE \A i \in 1..Len(InScope) : InScope[i] # s
            BY <3>2 DEF Unsent
        <3> QED
            BY <3>1, <3>2
    <2>3. Answered \subseteq AnsweredBy(n)
        <3> SUFFICES ASSUME NEW x \in Answered PROVE x \in AnsweredBy(n)
            OBVIOUS
        <3>1. PICK s \in Reports!Range(Scope) : x \in {s} \X sent[s].ok
            OBVIOUS
        <3>2. PICK j \in 1..n : results[j].subject = s
            BY <2>2, <3>1
        <3> QED
            BY <3>1, <3>2 DEF AnsweredBy
    <2>4. AnsweredBy(n) \subseteq Answered
        BY <1>1 DEF AnsweredBy
    <2> QED
        BY <2>3, <2>4
<1>6. Reports!WritesTo[n] = Cardinality(AnsweredBy(n))
    BY WritesTotal
<1>7. CASE mode.json
    <2>1. Listed = 1..n
        BY <1>1, <1>7
    <2>2. Cardinality(1..n) = n
        <3> HIDE DEF n
        <3>1. 1 \in Int /\ n \in Int /\ (1 > n => n = 0) /\ n - 1 + 1 = n
            BY <1>1
        <3> QED
            BY <3>1, FS_Interval
    <2> HIDE DEF n, Listed, Answered
    <2> QED
        BY <1>2, <1>3, <1>4, <1>5, <1>6, <1>7, <2>1, <2>2 DEF Answered
<1>8. CASE ~mode.json
    <2>1. Listed = ShownOf(n)
        BY <1>1, <1>8 DEF ShownOf
    <2>2. Len(shown) = Cardinality(ShownOf(n))
        BY <1>8 DEF TotalsInv
    <2> HIDE DEF n, Listed, Answered
    <2> QED
        BY <1>2, <1>3, <1>4, <1>5, <1>6, <1>8, <2>1, <2>2 DEF Answered
<1> QED
    BY <1>7, <1>8

(* Nothing is sent and nothing is shown when the command begins. *)
LEMMA BlocksBegin ==
    ASSUME Scope # <<>>, Reports!Init
    PROVE  BlockInv /\ Unsent /\ TotalsInv
<1>1. /\ pc = "listing" /\ results = <<>> /\ shown = <<>>
      /\ sent = [s \in Reports!Range(Scope) |-> [ok |-> {}, refused |-> {}]]
    BY DEF Reports!Init
<1>2. sent \in [Reports!Range(Scope) -> Answers]
    BY <1>1 DEF Answers
<1>3. Untouched
    BY <1>1, ScopeNamesOnce DEF Untouched
<1>4. \A i : i \notin 1..Len(results) /\ i \notin 1..Len(shown)
    BY <1>1
<1>5. ~InProgress
    BY <1>1 DEF InProgress
<1>6. IsSequence(shown)
    BY <1>1 DEF IsSequence
<1>7. BlockInv
    BY <1>1, <1>2, <1>3, <1>4, <1>5, <1>6 DEF BlockInv
<1>8. Unsent
    BY <1>1 DEF Unsent
<1>9. TotalsInv
    <2>1. report.written = FALSE
        BY DEF Reports!Init, Reports!NoReport
    <2>2. ShownOf(0) = {}
        BY DEF ShownOf
    <2>3. Len(shown) = 0 /\ Len(results) = 0
        BY <1>1
    <2>4. Len(shown) = Cardinality(ShownOf(Len(results)))
        BY <2>2, <2>3, FS_EmptySet
    <2> QED
        BY <1>1, <2>1, <2>4 DEF TotalsInv
<1> QED
    BY <1>7, <1>8, <1>9

(* Every block accounts for the writes of its subject. *)
LEMMA BlocksTrue ==
    ASSUME Scope # <<>>, ScopeInv, BlockInv
    PROVE  Reports!BlocksAccount
<1>0. DOMAIN results = 1..Len(results) /\ DOMAIN shown = 1..Len(shown) /\ Len(results) \in Nat
    BY Appended DEF ScopeInv, BlockInv
<1>1. ASSUME NEW i \in DOMAIN shown
      PROVE  LET b == shown[i]
                 r == results[CHOOSE j \in DOMAIN results : results[j].subject = b.subject]
             IN  /\ b.done = sent[b.subject].ok
                 /\ b.failed = sent[b.subject].refused
                 /\ b.outstanding \cap (b.done \cup b.failed) = {}
                 /\ b.done \cup b.failed \cup b.outstanding = PlannedWrites(r)
    <2>1. PICK j \in 1..Len(results) : shown[i] = Reports!renderSubject(results[j])
        BY <1>0 DEF BlockInv
    <2>2. Accounts(results[j], sent[results[j].subject])
        BY DEF BlockInv
    <2>3. shown[i].subject = results[j].subject
        BY <2>1, <2>2, BlocksShow
    <2>4. ASSUME NEW k \in DOMAIN results, results[k].subject = shown[i].subject
          PROVE  k = j
        <3>1. Len(results) <= Len(InScope)
            BY <1>0 DEF ScopeInv
        <3>2. k \in 1..Len(InScope) /\ j \in 1..Len(InScope)
            BY <1>0, <3>1, ScopeNamesOnce
        <3>3. results[k].subject = InScope[k] /\ results[j].subject = InScope[j]
            BY <1>0 DEF ScopeInv
        <3> QED
            BY <2>3, <2>4, <3>2, <3>3, ScopeNamesOnce
    <2>5. (CHOOSE k \in DOMAIN results : results[k].subject = shown[i].subject) = j
        BY <1>0, <2>3, <2>4
    <2> DEFINE b == Reports!renderSubject(results[j])
    <2>6. /\ b.subject = results[j].subject
          /\ b.done = sent[results[j].subject].ok /\ b.failed = sent[results[j].subject].refused
          /\ b.outstanding \cap (b.done \cup b.failed) = {}
          /\ b.done \cup b.failed \cup b.outstanding = PlannedWrites(results[j])
        BY <2>2, BlocksShow
    <2> HIDE DEF b
    <2> QED
        BY <2>1, <2>5, <2>6 DEF b
<1> QED
    BY <1>1 DEF Reports!BlocksAccount, PlannedWrites

(* Every block a person is shown accounts for each planned write of its    *)
(* subject exactly once, truly, as done, as failed or as not attempted;    *)
(* and the totals add up, count every write that was answered well, and    *)
(* say how many blocks there are: for scopes of any length and any plans,  *)
(* wherever requests are refused, the command is interrupted or its output *)
(* breaks.                                                                 *)
THEOREM WritesAreAccountedFor ==
    ASSUME Scope # <<>>
    PROVE  Spec => []WritesAccounted
<1> DEFINE Inv == ScopeInv /\ FailureInv /\ ReportedInv /\ BlockInv /\ Unsent /\ TotalsInv
<1>1. Reports!Init => Inv
    BY ReportBegins, BlocksBegin
<1>2. Inv => Reports!WritesAccounted
    BY BlocksTrue, TotalsTrue DEF Reports!WritesAccounted
<1>3. Init => (part = "report" => Inv)
    BY <1>1, PartsBegin
<1>4. (part = "report" => Inv) /\ [Next]_vars => (part = "report" => Inv)'
    BY ScopeStep, FailureStep, ReportedStep, BlockStep, UnsentStep, TotalsStep, PartsStep
<1>5. (part = "report" => Inv) => WritesAccounted
    BY <1>2 DEF WritesAccounted
<1> HIDE DEF Inv
<1> QED
    BY <1>3, <1>4, <1>5, PTL DEF Spec

-----------------------------------------------------------------------------
(* Loading *)

(* The last of the first m files that says something of a path. *)
Speakers(m, path) == { i \in 1..m : Loading!Speaks(i, path) }
WordOf(m, path) ==
    IF Speakers(m, path) = {} THEN Loading!Absent
    ELSE Loading!At(files[Max(Speakers(m, path))], path)

(* A node with its placeholder replaced. *)
Filled(node) ==
    IF Loading!IsPlaceholder(node)
    THEN [kind |-> "scalar", str |-> TRUE, text |-> env[Placeholder[node.text]]] ELSE node

(* The document is what the files merged so far have said last, later with *)
(* its placeholders replaced; the configuration is what it decodes to, and *)
(* in the end what that resolves to.                                       *)
LoadInv ==
    /\ files \in Seq(Loading!Range(files)) /\ merged \in 0..Len(files)
    /\ stage \in {"reading", "unreadable", "merged", "unresolved", "substituted", "undecodable",
                  "decoded", "invalid", "loaded"}
    /\ stage = "reading" => \A path : Loading!At(doc, path) = WordOf(merged, path)
    /\ stage \in {"merged", "unresolved"} =>
          \A path : Loading!At(doc, path) = Loading!LastWord(path)
    /\ stage = "unresolved" => Loading!Missing
    /\ stage \in {"substituted", "undecodable", "decoded", "invalid", "loaded"} =>
          /\ \A path : Loading!At(doc, path) = Filled(Loading!LastWord(path))
          /\ ~Loading!Missing
    /\ stage \in {"decoded", "invalid", "loaded"} => Loading!Decodable
    /\ stage \in {"decoded", "invalid"} => cfg = Loading!Decoded
    /\ stage = "loaded" =>
          /\ cfg = Loading!Resolved(Loading!Decoded)
          /\ Loading!validateAndCompile(cfg)

(* Merging a file into a document: where it says something, that, and the  *)
(* document everywhere else.                                               *)
LEMMA MergedAt ==
    ASSUME NEW base, NEW overlay, NEW path
    PROVE  Loading!At(Loading!mergeNode(base, overlay), path)
           = IF path \in DOMAIN overlay \/ Loading!Cut(overlay, path)
             THEN Loading!At(overlay, path) ELSE Loading!At(base, path)
<1> DEFINE kept == { p \in DOMAIN base \ DOMAIN overlay : ~Loading!Cut(overlay, p) }
           whole == [p \in kept \cup DOMAIN overlay |->
                        IF p \in DOMAIN overlay THEN overlay[p] ELSE base[p]]
<1>1. Loading!mergeNode(base, overlay) = whole
    BY Zenon DEF Loading!mergeNode
<1>2. DOMAIN whole = kept \cup DOMAIN overlay
    OBVIOUS
<1>3. path \in kept <=> path \in DOMAIN base /\ path \notin DOMAIN overlay /\ ~Loading!Cut(overlay, path)
    OBVIOUS
<1>4. path \in kept \cup DOMAIN overlay =>
          whole[path] = IF path \in DOMAIN overlay THEN overlay[path] ELSE base[path]
    OBVIOUS
<1> HIDE DEF whole, kept
<1> QED
    BY <1>1, <1>2, <1>3, <1>4 DEF Loading!At

(* With another file read, the last word is its, where it has one. *)
LEMMA NextWord ==
    ASSUME NEW m \in Nat, NEW path
    PROVE  WordOf(m + 1, path)
           = IF Loading!Speaks(m + 1, path) THEN Loading!At(files[m + 1], path) ELSE WordOf(m, path)
<1> DEFINE n == m + 1
           S == Speakers(n, path)
<1>1. n \in 1..n /\ \A i \in 1..n : i \in Int /\ i <= n
    OBVIOUS
<1>2. \A i : i \in 1..n <=> i \in 1..m \/ i = n
    OBVIOUS
<1> HIDE DEF n
<1>3. CASE Loading!Speaks(n, path)
    <2>1. n \in S /\ S \in SUBSET Int /\ \A i \in S : i <= n
        BY <1>1, <1>3 DEF Speakers
    <2> HIDE DEF S
    <2>2. Max(S) = n
        BY <2>1, MaxIsGreatest
    <2> QED
        BY <1>3, <2>1, <2>2 DEF WordOf, S, n
<1>4. CASE ~Loading!Speaks(n, path)
    <2>1. Speakers(n, path) = Speakers(m, path)
        BY <1>2, <1>4 DEF Speakers
    <2> QED
        BY <1>4, <2>1 DEF WordOf, n
<1> QED
    BY <1>3, <1>4

(* With all files read, it is the last word. *)
LEMMA WordIsLast ==
    ASSUME files \in Seq(Loading!Range(files)), NEW path
    PROVE  WordOf(Len(files), path) = Loading!LastWord(path)
<1>1. DOMAIN files = 1..Len(files)
    OBVIOUS
<1>2. Loading!Max(Speakers(Len(files), path)) = Max(Speakers(Len(files), path))
    BY Zenon DEF Loading!Max, Max
<1>3. Speakers(Len(files), path) = { i \in DOMAIN files : Loading!Speaks(i, path) }
    BY <1>1 DEF Speakers
<1> QED
    BY <1>2, <1>3, Zenon DEF WordOf, Loading!LastWord

(* What is last said of a path is in the file that says it. *)
LEMMA WordsAreSaid ==
    ASSUME files \in Seq(Loading!Range(files)), NEW path, Loading!LastWord(path) # Loading!Absent
    PROVE  \E i \in DOMAIN files : path \in DOMAIN files[i]
<1> DEFINE S == { i \in DOMAIN files : Loading!Speaks(i, path) }
           m == Loading!Max(S)
<1>1. S # {} /\ Loading!LastWord(path) = Loading!At(files[m], path)
    BY Zenon DEF Loading!LastWord
<1>2. S \subseteq Nat /\ \A i \in S : i <= Len(files)
    OBVIOUS
<1>3. m \in S
    <2> HIDE DEF S
    <2>1. PICK k \in S : \A x \in S : x <= k
        BY <1>1, <1>2, BoundedHasGreatest, LenProperties
    <2>2. S \in SUBSET Int
        BY <1>2
    <2>3. Max(S) = k
        BY <2>1, <2>2, MaxIsGreatest
    <2>4. Loading!Max(S) = Max(S)
        BY Zenon DEF Loading!Max, Max
    <2> QED
        BY <2>1, <2>3, <2>4
<1>4. path \in DOMAIN files[m]
    BY <1>1 DEF Loading!At
<1> QED
    BY <1>3, <1>4

(* Something is missing exactly when a placeholder of the merged document  *)
(* cannot be filled in.                                                    *)
LEMMA MissingInDocument ==
    ASSUME files \in Seq(Loading!Range(files)),
           \A path : Loading!At(doc, path) = Loading!LastWord(path)
    PROVE  Loading!Missing <=> \E p \in DOMAIN doc : Loading!Unresolvable(doc[p])
<1>1. ~Loading!Unresolvable(Loading!Absent)
    BY DEF Loading!Unresolvable, Loading!IsPlaceholder, Loading!Absent
<1>2. ASSUME NEW p \in DOMAIN doc, Loading!Unresolvable(doc[p])
      PROVE  Loading!Missing
    <2>1. Loading!LastWord(p) = doc[p]
        BY DEF Loading!At
    <2>2. \E i \in DOMAIN files : p \in DOMAIN files[i]
        BY <1>1, <1>2, <2>1, WordsAreSaid
    <2> QED
        BY <1>2, <2>1, <2>2, Zenon DEF Loading!Missing
<1>3. ASSUME Loading!Missing
      PROVE  \E p \in DOMAIN doc : Loading!Unresolvable(doc[p])
    <2>1. PICK p : Loading!Unresolvable(Loading!LastWord(p))
        BY <1>3, Zenon DEF Loading!Missing
    <2>2. Loading!Unresolvable(Loading!At(doc, p))
        BY <2>1
    <2> QED
        BY <1>1, <2>2 DEF Loading!At
<1> QED
    BY <1>2, <1>3

(* What is last said depends on the files alone. *)
LEMMA WordsStay ==
    ASSUME files' = files, env' = env
    PROVE  /\ \A path : Loading!LastWord(path)' = Loading!LastWord(path)
           /\ \A m, path : WordOf(m, path)' = WordOf(m, path)
           /\ \A node : Filled(node)' = Filled(node)
           /\ Loading!Missing' = Loading!Missing
<1>1. \A i, path : Loading!Speaks(i, path)' = Loading!Speaks(i, path)
    BY Zenon DEF Loading!Speaks
<1>2. \A path : Loading!LastWord(path)' = Loading!LastWord(path)
    BY <1>1, Zenon DEF Loading!LastWord
<1>3. \A m, path : WordOf(m, path)' = WordOf(m, path)
    BY <1>1, Zenon DEF WordOf, Speakers
<1>4. \A node : Filled(node)' = Filled(node)
    BY Zenon DEF Filled
<1>5. Loading!Missing' = Loading!Missing
    BY <1>2, Zenon DEF Loading!Missing, Loading!Unresolvable
<1> QED
    BY <1>2, <1>3, <1>4, <1>5


LEMMA LoadBegins ==
    ASSUME Loading!Init
    PROVE  LoadInv
<1>1. PICK i \in DOMAIN Inputs : \E given \in Inputs[i] : files = given.files
    BY DEF Loading!Init
<1>2. files \in Seq(Loading!Range(files))
    BY <1>1, SequentialAssumption
<1>3. merged = 0 /\ doc = <<>> /\ stage = "reading" /\ 0 \in 0..Len(files)
    BY <1>2 DEF Loading!Init
<1>4. ASSUME NEW path
      PROVE  Loading!At(doc, path) = WordOf(merged, path)
    <2>1. Loading!At(doc, path) = Loading!Absent
        BY <1>3 DEF Loading!At
    <2>2. Speakers(merged, path) = {}
        BY <1>3 DEF Speakers
    <2> QED
        BY <2>1, <2>2 DEF WordOf
<1> QED
    BY <1>2, <1>3, <1>4 DEF LoadInv

LEMMA MergeFileKeeps ==
    ASSUME LoadInv, Loading!MergeFile
    PROVE  LoadInv'
<1>1. /\ stage = "reading" /\ merged < Len(files) /\ merged' = merged + 1
      /\ doc' = IF merged = 0 THEN files[1] ELSE Loading!mergeNode(doc, files[merged + 1])
      /\ stage' = IF merged' = Len(files) THEN "merged" ELSE "reading"
      /\ files' = files /\ env' = env
    BY DEF Loading!MergeFile
<1>2. /\ files \in Seq(Loading!Range(files)) /\ merged \in Nat /\ Len(files) \in Nat
      /\ merged' \in 0..Len(files)
      /\ \A path : Loading!At(doc, path) = WordOf(merged, path)
    BY <1>1 DEF LoadInv
<1>3. ASSUME NEW path
      PROVE  Loading!At(doc', path) = WordOf(merged + 1, path)
    <2>1. WordOf(merged + 1, path) = IF Loading!Speaks(merged + 1, path)
                                     THEN Loading!At(files[merged + 1], path)
                                     ELSE WordOf(merged, path)
        BY <1>2, NextWord
    <2>2. CASE merged = 0
        <3>1. doc' = files[1] /\ merged + 1 = 1
            BY <1>1, <2>2
        <3>2. WordOf(merged, path) = Loading!Absent
            BY <2>2 DEF WordOf, Speakers
        <3>3. ~Loading!Speaks(1, path) => Loading!At(files[1], path) = Loading!Absent
            BY DEF Loading!Speaks, Loading!At
        <3> QED
            BY <2>1, <3>1, <3>2, <3>3
    <2>3. CASE merged # 0
        <3>1. doc' = Loading!mergeNode(doc, files[merged + 1])
            BY <1>1, <2>3
        <3> QED
            BY <1>2, <2>1, <3>1, MergedAt DEF Loading!Speaks
    <2> QED
        BY <2>2, <2>3
<1>4. ASSUME stage' = "merged", NEW path
      PROVE  WordOf(merged + 1, path) = Loading!LastWord(path)
    <2>1. merged + 1 = Len(files)
        BY <1>1, <1>4
    <2> QED
        BY <1>2, <2>1, WordIsLast
<1>5. \A path : (Loading!At(doc, path) = WordOf(merged, path))'
    BY <1>1, <1>3, WordsStay DEF Loading!At
<1>6. stage' = "merged" => \A path : (Loading!At(doc, path) = Loading!LastWord(path))'
    BY <1>1, <1>3, <1>4, WordsStay DEF Loading!At
<1>7. files' \in Seq(Loading!Range(files))' /\ stage' \in {"merged", "reading"}
    BY <1>1, <1>2 DEF Loading!Range
<1> QED
    BY <1>1, <1>2, <1>5, <1>6, <1>7 DEF LoadInv

LEMMA SubstituteKeeps ==
    ASSUME LoadInv, Loading!Substitute
    PROVE  LoadInv'
<1>1. /\ stage = "merged" /\ ~\E p \in DOMAIN doc : Loading!Unresolvable(doc[p])
      /\ doc' = Loading!substituteEnvironment(doc) /\ stage' = "substituted"
      /\ files' = files /\ env' = env /\ merged' = merged
    BY DEF Loading!Substitute
<1>2. /\ files \in Seq(Loading!Range(files)) /\ merged \in 0..Len(files)
      /\ \A path : Loading!At(doc, path) = Loading!LastWord(path)
    BY <1>1 DEF LoadInv
<1>3. ~Loading!Missing
    BY <1>1, <1>2, MissingInDocument
<1>4. ASSUME NEW path
      PROVE  Loading!At(doc', path) = Filled(Loading!LastWord(path))
    <2>1. doc' = [p \in DOMAIN doc |-> Filled(doc[p])]
        BY <1>1, Zenon DEF Loading!substituteEnvironment, Filled
    <2>2. Filled(Loading!Absent) = Loading!Absent
        BY DEF Filled, Loading!Absent, Loading!IsPlaceholder
    <2>3. Loading!At(doc', path) = Filled(Loading!At(doc, path))
        BY <2>1, <2>2 DEF Loading!At
    <2> QED
        BY <1>2, <2>3
<1>5. \A path : (Loading!At(doc, path) = Filled(Loading!LastWord(path)))'
    BY <1>1, <1>4, WordsStay DEF Loading!At
<1>6. ~Loading!Missing'
    BY <1>1, <1>3, WordsStay
<1>7. files' \in Seq(Loading!Range(files))' /\ merged' \in 0..Len(files')
    BY <1>1, <1>2 DEF Loading!Range
<1> QED
    BY <1>1, <1>5, <1>6, <1>7 DEF LoadInv

(* Whatever leaves the files, the environment and the document alone. *)
LEMMA DocumentStays ==
    ASSUME LoadInv, files' = files, env' = env, merged' = merged, doc' = doc
    PROVE  /\ files' \in Seq(Loading!Range(files))' /\ merged' \in 0..Len(files')
           /\ (\A path : Loading!At(doc, path) = WordOf(merged, path))
              => (\A path : Loading!At(doc, path) = WordOf(merged, path))'
           /\ (\A path : Loading!At(doc, path) = Loading!LastWord(path))
              => (\A path : Loading!At(doc, path) = Loading!LastWord(path))'
           /\ (\A path : Loading!At(doc, path) = Filled(Loading!LastWord(path)))
              => (\A path : Loading!At(doc, path) = Filled(Loading!LastWord(path)))'
           /\ Loading!Missing' = Loading!Missing
           /\ Loading!Decodable => Loading!Decodable'
           /\ Loading!Decoded' = Loading!Decoded
<1>1. \A path : Loading!At(doc, path)' = Loading!At(doc, path)
    BY DEF Loading!At
<1>2. files' \in Seq(Loading!Range(files))' /\ merged' \in 0..Len(files')
    BY DEF LoadInv, Loading!Range
<1>3. \A path : Loading!KeysAt(path)' = Loading!KeysAt(path)
    BY Zenon DEF Loading!KeysAt
<1>4. Loading!Decodable' = Loading!Decodable
    BY <1>3, Zenon DEF Loading!Decodable, Loading!Decodes, Loading!IsMapping, Loading!WebhookNames
<1>5. Loading!Decoded' = Loading!Decoded
    BY <1>3, Zenon DEF Loading!Decoded, Loading!TextAt, Loading!WebhookNames
<1> QED
    BY <1>1, <1>2, <1>4, <1>5, WordsStay, Zenon

(* What a configuration resolves to depends on the environment alone. *)
LEMMA ResolvingStays ==
    ASSUME env' = env, NEW c
    PROVE  Loading!Resolved(c)' = Loading!Resolved(c)
<1>1. Loading!Overlaid' = Loading!Overlaid
    BY Zenon DEF Loading!Overlaid
<1>2. ASSUME NEW d
      PROVE  /\ Loading!applyDefaults(d)' = Loading!applyDefaults(d)
             /\ Loading!normalize(d)' = Loading!normalize(d)
    OBVIOUS
<1>3. ASSUME NEW d
      PROVE  Loading!overlayEnvironment(d)' = Loading!overlayEnvironment(d)
    BY <1>1, Zenon DEF Loading!overlayEnvironment
<1> QED
    BY <1>2, <1>3, Zenon DEF Loading!Resolved

LEMMA LoadStep ==
    ASSUME LoadInv, [Loading!Next]_Loading!vars
    PROVE  LoadInv'
<1>1. CASE Loading!MergeFile
    BY <1>1, MergeFileKeeps
<1>2. CASE Loading!Substitute
    BY <1>2, SubstituteKeeps
<1>3. CASE Loading!MergeFails
    <2>1. /\ stage' = "unreadable" /\ files' = files /\ env' = env /\ merged' = merged /\ doc' = doc
        BY <1>3 DEF Loading!MergeFails, Loading!Fail
    <2> QED
        BY <2>1, DocumentStays DEF LoadInv
<1>4. CASE Loading!SubstituteFails
    <2>1. /\ stage = "merged" /\ stage' = "unresolved"
          /\ \E p \in DOMAIN doc : Loading!Unresolvable(doc[p])
          /\ files' = files /\ env' = env /\ merged' = merged /\ doc' = doc
        BY <1>4 DEF Loading!SubstituteFails, Loading!Fail
    <2>2. \A path : Loading!At(doc, path) = Loading!LastWord(path)
        BY <2>1 DEF LoadInv
    <2>3. Loading!Missing
        BY <2>1, <2>2, MissingInDocument DEF LoadInv
    <2> QED
        BY <2>1, <2>2, <2>3, DocumentStays DEF LoadInv
<1>5. CASE Loading!Decode
    <2>1. /\ stage = "substituted" /\ stage' = "decoded" /\ Loading!Decodable /\ cfg' = Loading!Decoded
          /\ files' = files /\ env' = env /\ merged' = merged /\ doc' = doc
        BY <1>5 DEF Loading!Decode
    <2>2. /\ \A path : Loading!At(doc, path) = Filled(Loading!LastWord(path))
          /\ ~Loading!Missing
        BY <2>1 DEF LoadInv
    <2>3. Loading!Decodable' /\ cfg' = Loading!Decoded'
        BY <2>1, DocumentStays
    <2> QED
        BY <2>1, <2>2, <2>3, DocumentStays DEF LoadInv
<1>6. CASE Loading!DecodeFails
    <2>1. /\ stage = "substituted" /\ stage' = "undecodable"
          /\ files' = files /\ env' = env /\ merged' = merged /\ doc' = doc
        BY <1>6 DEF Loading!DecodeFails, Loading!Fail
    <2>2. /\ \A path : Loading!At(doc, path) = Filled(Loading!LastWord(path))
          /\ ~Loading!Missing
        BY <2>1 DEF LoadInv
    <2> QED
        BY <2>1, <2>2, DocumentStays DEF LoadInv
<1>7. CASE Loading!Finish
    <2>1. /\ stage = "decoded" /\ stage' = "loaded" /\ Loading!Validated(cfg)
          /\ cfg' = Loading!Resolved(cfg)
          /\ files' = files /\ env' = env /\ merged' = merged /\ doc' = doc
        BY <1>7 DEF Loading!Finish
    <2>2. /\ \A path : Loading!At(doc, path) = Filled(Loading!LastWord(path))
          /\ ~Loading!Missing /\ Loading!Decodable /\ cfg = Loading!Decoded
        BY <2>1 DEF LoadInv
    <2>3. cfg' = Loading!Resolved(Loading!Decoded)'
        <3>1. \A c : Loading!Resolved(c)' = Loading!Resolved(c)
            BY <2>1, ResolvingStays
        <3> QED
            BY <2>1, <2>2, <3>1, DocumentStays
    <2>4. Loading!validateAndCompile(cfg)'
        BY <2>1, Zenon DEF Loading!Validated
    <2>5. Loading!Decodable'
        BY <2>1, <2>2, DocumentStays
    <2> QED
        BY <2>1, <2>2, <2>3, <2>4, <2>5, DocumentStays DEF LoadInv
<1>8. CASE Loading!FinishFails
    <2>1. /\ stage = "decoded" /\ stage' = "invalid" /\ cfg' = cfg
          /\ files' = files /\ env' = env /\ merged' = merged /\ doc' = doc
        BY <1>8 DEF Loading!FinishFails, Loading!Fail
    <2>2. /\ \A path : Loading!At(doc, path) = Filled(Loading!LastWord(path))
          /\ ~Loading!Missing /\ Loading!Decodable /\ cfg = Loading!Decoded
        BY <2>1 DEF LoadInv
    <2>3. Loading!Decodable' /\ cfg' = Loading!Decoded'
        BY <2>1, <2>2, DocumentStays
    <2> QED
        BY <2>1, <2>2, <2>3, DocumentStays DEF LoadInv
<1>9. CASE UNCHANGED Loading!vars
    <2>1. UNCHANGED <<files, env, merged, doc, cfg, stage>>
        BY <1>9 DEF Loading!vars
    <2>2. Loading!Resolved(Loading!Decoded)' = Loading!Resolved(Loading!Decoded)
        <3>1. \A c : Loading!Resolved(c)' = Loading!Resolved(c)
            BY <2>1, ResolvingStays
        <3> QED
            BY <2>1, <3>1, DocumentStays
    <2>3. Loading!validateAndCompile(cfg)' = Loading!validateAndCompile(cfg)
        BY <2>1, Zenon
    <2> QED
        BY <2>1, <2>2, <2>3, DocumentStays DEF LoadInv
<1> QED
    BY <1>1, <1>2, <1>3, <1>4, <1>5, <1>6, <1>7, <1>8, <1>9 DEF Loading!Next


ConfigOf(v, s, t, w, r) ==
    [version |-> v, settings |-> s, set |-> t, webhooks |-> w, rules |-> r]

(* What decides a setting: the environment, the default or the files. *)
Chosen(f, s, t) ==
    IF f \in Loading!Overlaid THEN env[f]
    ELSE IF \/ f \in Loading!Durations /\ f \notin t
            \/ f \in Loading!Texts /\ s[f] = ""
            \/ f \in Loading!Integers32 /\ Number[s[f]] = 0
    THEN Loading!Default[f] ELSE s[f]

(* Resolving a configuration changes its settings, each on its own. *)
LEMMA ResolvedFields ==
    ASSUME NEW v, NEW s, NEW t, NEW w, NEW r
    PROVE  LET c == Loading!Resolved(ConfigOf(v, s, t, w, r))
           IN  /\ c.webhooks = w /\ c.rules = r
               /\ \A f \in Loading!Settings :
                     c.settings[f] = Loading!NormalText(f, Chosen(f, s, t))
<1> DEFINE S == Loading!Settings
           Left(f) == \/ f \in Loading!Durations /\ f \notin t
                      \/ f \in Loading!Texts /\ s[f] = ""
                      \/ f \in Loading!Integers32 /\ Number[s[f]] = 0
           s1 == [f \in S |-> IF Left(f) THEN Loading!Default[f] ELSE s[f]]
           s2 == [f \in S |-> IF f \in Loading!Overlaid THEN env[f] ELSE s1[f]]
           s3 == [f \in S |-> Loading!NormalText(f, s2[f])]
           With(x) == [version |-> v, settings |-> x, set |-> t, webhooks |-> w, rules |-> r]
           c == ConfigOf(v, s, t, w, r)
<1>0. c = [version |-> v, settings |-> s, set |-> t, webhooks |-> w, rules |-> r]
    BY DEF ConfigOf
<1> HIDE DEF c
<1>1. Loading!applyDefaults(c) = With(s1)
    <2>1. /\ c.set = t /\ c.settings = s
          /\ \A x : [c EXCEPT !.settings = x] = With(x)
        BY <1>0
    <2>2. Loading!applyDefaults(c)
          = [c EXCEPT !.settings = [f \in S |->
                IF \/ f \in Loading!Durations /\ f \notin c.set
                   \/ f \in Loading!Texts /\ c.settings[f] = ""
                   \/ f \in Loading!Integers32 /\ Number[c.settings[f]] = 0
                THEN Loading!Default[f] ELSE c.settings[f]]]
        BY Zenon DEF Loading!applyDefaults
    <2> HIDE DEF With
    <2> QED
        BY <2>1, <2>2, Zenon
<1>2. Loading!overlayEnvironment(With(s1)) = With(s2)
    <2> HIDE DEF s1
    <2> QED
        BY DEF Loading!overlayEnvironment
<1>3. Loading!normalize(With(s2)) = With(s3)
    <2> HIDE DEF s2
    <2> QED
        BY DEF Loading!normalize
<1>4. Loading!Resolved(c) = With(s3)
    <2> HIDE DEF With
    <2> QED
        BY <1>1, <1>2, <1>3, Zenon DEF Loading!Resolved
<1>5. \A f \in S : s3[f] = Loading!NormalText(f, Chosen(f, s, t))
    <2>1. \A f \in S : s2[f] = Chosen(f, s, t)
        BY DEF Chosen
    <2> HIDE DEF s2, S
    <2> QED
        BY <2>1
<1>6. With(s3).webhooks = w /\ With(s3).rules = r /\ With(s3).settings = s3
    <2> HIDE DEF s3
    <2> QED
        OBVIOUS
<1> HIDE DEF With, s3
<1> QED
    BY <1>4, <1>5, <1>6 DEF c

(* A text of the document is what the files said, and has its kind. *)
LEMMA TextsAreSaid ==
    ASSUME NEW path, Loading!At(doc, path) = Filled(Loading!LastWord(path))
    PROVE  /\ Loading!At(doc, path).kind = Loading!LastWord(path).kind
           /\ Loading!LastWord(path).kind = "scalar" =>
                 \A zero : Loading!At(doc, path).text = Loading!Said(path, zero)
           /\ Loading!LastWord(path).kind # "scalar" =>
                 /\ Loading!At(doc, path) = Loading!LastWord(path)
                 /\ \A zero : Loading!Said(path, zero) = zero
<1> DEFINE node == Loading!LastWord(path)
<1>1. \A zero : Loading!Said(path, zero)
                = IF node.kind # "scalar" THEN zero
                  ELSE IF Loading!IsPlaceholder(node) THEN env[Placeholder[node.text]] ELSE node.text
    BY Zenon DEF Loading!Said
<1>2. Loading!IsPlaceholder(node) => node.kind = "scalar"
    BY DEF Loading!IsPlaceholder
<1> HIDE DEF node
<1>3. Loading!At(doc, path) = Filled(node)
    BY DEF node
<1>4. Loading!At(doc, path).kind = node.kind
    BY <1>2, <1>3 DEF Filled
<1>5. node.kind = "scalar" => \A zero : Loading!At(doc, path).text = Loading!Said(path, zero)
    BY <1>1, <1>3 DEF Filled
<1>6. node.kind # "scalar" =>
          Loading!At(doc, path) = node /\ \A zero : Loading!Said(path, zero) = zero
    BY <1>1, <1>2, <1>3 DEF Filled
<1> QED
    BY <1>4, <1>5, <1>6 DEF node

(* A loaded setting is left open exactly where the decoded one was, and    *)
(* what it decoded to is otherwise what was said.                          *)
LEMMA SettingsAreSaid ==
    ASSUME \A path : Loading!At(doc, path) = Filled(Loading!LastWord(path)),
           Loading!Decodable, NEW f \in Loading!Settings
    PROVE  LET text == Loading!Decoded.settings[f]
           IN  /\ \/ f \in Loading!Durations /\ f \notin Loading!Decoded.set
                  \/ f \in Loading!Texts /\ text = ""
                  \/ f \in Loading!Integers32 /\ Number[text] = 0
                  <=> Loading!LeftOpen(f)
               /\ ~Loading!LeftOpen(f) => text = Loading!Said(Loading!Path(f), "")
<1> DEFINE path == Loading!Path(f)
           node == Loading!At(doc, path)
           text == Loading!Decoded.settings[f]
           zero == IF f \in Loading!Integers32 THEN "0" ELSE IF f \in Loading!Texts THEN "" ELSE "0s"
<1>1. node.kind \in {"absent", "scalar"}
    <2>1. Loading!Decodes(f)
        BY Zenon DEF Loading!Decodable
    <2> QED
        BY <2>1 DEF Loading!Decodes
<1>2. text = IF node.kind = "absent" THEN zero ELSE node.text
    BY DEF Loading!Decoded, Loading!TextAt
<1>3. f \in Loading!Decoded.set <=> node.kind = "scalar"
    BY DEF Loading!Decoded
<1>4. /\ f \in Loading!Texts \/ f \in Loading!Integers32 \/ f \in Loading!Durations
      /\ f \in Loading!Durations => f \notin Loading!Texts /\ f \notin Loading!Integers32
      /\ f \in Loading!Texts => f \notin Loading!Integers32
    BY DEF Loading!Durations, Loading!Texts, Loading!Integers32, Loading!TopLevel
<1>5. /\ node.kind = Loading!LastWord(path).kind
      /\ Loading!LastWord(path).kind = "scalar" => \A z : node.text = Loading!Said(path, z)
    BY TextsAreSaid
<1>6. Loading!LeftOpen(f) <=>
          \/ Loading!LastWord(path).kind # "scalar"
          \/ f \in Loading!Texts /\ Loading!Said(path, "") = ""
          \/ f \in Loading!Integers32 /\ Number[Loading!Said(path, "0")] = 0
    BY Zenon DEF Loading!LeftOpen
<1>7. Number["0"] = 0
    BY SequentialAssumption
<1>8. CASE node.kind = "absent"
    <2>1. text = zero /\ Loading!LeftOpen(f) /\ f \notin Loading!Decoded.set
        BY <1>2, <1>3, <1>5, <1>6, <1>8
    <2> HIDE DEF text, node, path
    <2> QED
        BY <1>4, <1>7, <2>1 DEF text
<1>9. CASE node.kind = "scalar"
    <2>1. /\ f \in Loading!Decoded.set /\ text = Loading!Said(path, "")
          /\ text = Loading!Said(path, "0")
          /\ Loading!LastWord(path).kind = "scalar"
        BY <1>2, <1>3, <1>5, <1>9
    <2> HIDE DEF text, node, path
    <2> QED
        BY <1>6, <2>1 DEF text, path
<1> QED
    BY <1>1, <1>8, <1>9

(* What was loaded is in effect: for files that are trees of any depth,    *)
(* any number of them, and any environment.                                *)
THEOREM ValuesTakeEffect == Spec => []EffectiveValues
<1>1. Loading!Init => LoadInv
    BY LoadBegins
<1>2. LoadInv => Loading!EffectiveValues
    <2> SUFFICES ASSUME LoadInv, stage = "loaded"
                 PROVE  /\ \A f \in Loading!Settings :
                              cfg.settings[f] = Loading!NormalText(f,
                                  IF f \in Loading!Overlaid THEN env[f]
                                  ELSE IF Loading!LeftOpen(f) THEN Loading!Default[f]
                                  ELSE Loading!Said(Loading!Path(f), ""))
                        /\ cfg.rules = Loading!LastWord(<<"rules">>).items
                        /\ \A w \in DOMAIN cfg.webhooks, k \in {"path", "bearer_token"} :
                              cfg.webhooks[w][k] = Loading!Said(<<"webhooks", w, k>>, "")
        BY DEF LoadInv, Loading!EffectiveValues
    <2> DEFINE c == Loading!Decoded
    <2>1. /\ \A path : Loading!At(doc, path) = Filled(Loading!LastWord(path))
          /\ Loading!Decodable /\ cfg = Loading!Resolved(c) /\ Loading!validateAndCompile(cfg)
        BY DEF LoadInv
    <2>2. c = [version |-> c.version, settings |-> c.settings, set |-> c.set,
               webhooks |-> c.webhooks, rules |-> c.rules]
        BY DEF Loading!Decoded
    <2>3. /\ cfg.webhooks = c.webhooks /\ cfg.rules = c.rules
          /\ \A f \in Loading!Settings :
                cfg.settings[f] = Loading!NormalText(f, Chosen(f, c.settings, c.set))
        <3>1. c = ConfigOf(c.version, c.settings, c.set, c.webhooks, c.rules)
            BY <2>2 DEF ConfigOf
        <3> HIDE DEF c
        <3> QED
            BY <2>1, <3>1, ResolvedFields
    <2>4. ASSUME NEW f \in Loading!Settings
          PROVE  cfg.settings[f] = Loading!NormalText(f,
                     IF f \in Loading!Overlaid THEN env[f]
                     ELSE IF Loading!LeftOpen(f) THEN Loading!Default[f]
                     ELSE Loading!Said(Loading!Path(f), ""))
        <3>1. Chosen(f, c.settings, c.set)
              = IF f \in Loading!Overlaid THEN env[f]
                ELSE IF Loading!LeftOpen(f) THEN Loading!Default[f]
                ELSE Loading!Said(Loading!Path(f), "")
            BY <2>1, SettingsAreSaid, Zenon DEF Chosen
        <3> HIDE DEF c
        <3> QED
            BY <2>3, <3>1, Zenon
    <2>5. cfg.rules = Loading!LastWord(<<"rules">>).items
        <3> DEFINE node == Loading!At(doc, <<"rules">>)
        <3>1. node.kind \in {"absent", "list"}
            BY <2>1, Zenon DEF Loading!Decodable
        <3>2. c.rules = IF node.kind = "absent" THEN <<>> ELSE node.items
            BY DEF Loading!Decoded
        <3>3. cfg.rules # <<>>
            BY <2>1, Zenon DEF Loading!validateAndCompile
        <3>4. /\ node.kind = Loading!LastWord(<<"rules">>).kind
              /\ Loading!LastWord(<<"rules">>).kind # "scalar" => node = Loading!LastWord(<<"rules">>)
            BY <2>1, TextsAreSaid
        <3> HIDE DEF node, c
        <3> QED
            BY <2>3, <3>1, <3>2, <3>3, <3>4
    <2>6. ASSUME NEW w \in DOMAIN cfg.webhooks, NEW k \in {"path", "bearer_token"}
          PROVE  cfg.webhooks[w][k] = Loading!Said(<<"webhooks", w, k>>, "")
        <3> DEFINE path == <<"webhooks", w, k>>
                   node == Loading!At(doc, path)
        <3>1. w \in Loading!WebhookNames
            BY <2>3 DEF Loading!Decoded
        <3>2. node.kind \in {"absent", "scalar"}
            BY <2>1, <3>1, Zenon DEF Loading!Decodable
        <3>3. c.webhooks[w] = [path |-> Loading!TextAt(<<"webhooks", w, "path">>, ""),
                               bearer_token |-> Loading!TextAt(<<"webhooks", w, "bearer_token">>, "")]
            BY <3>1 DEF Loading!Decoded
        <3>4. c.webhooks[w][k] = Loading!TextAt(path, "")
            <4> DEFINE x == Loading!TextAt(<<"webhooks", w, "path">>, "")
                       y == Loading!TextAt(<<"webhooks", w, "bearer_token">>, "")
                       hook == c.webhooks[w]
            <4>1. hook = [path |-> x, bearer_token |-> y]
                BY <3>3
            <4>2. k = "path" \/ k = "bearer_token"
                OBVIOUS
            <4> HIDE DEF x, y, hook
            <4>3. hook["path"] = x /\ hook["bearer_token"] = y
                BY <4>1
            <4> HIDE DEF c
            <4> QED
                BY <4>2, <4>3, Zenon DEF x, y, hook
        <3>5. Loading!TextAt(path, "") = IF node.kind = "absent" THEN "" ELSE node.text
            BY Zenon DEF Loading!TextAt
        <3>6. /\ node.kind = Loading!LastWord(path).kind
              /\ Loading!LastWord(path).kind = "scalar" => node.text = Loading!Said(path, "")
              /\ Loading!LastWord(path).kind # "scalar" => Loading!Said(path, "") = ""
            BY <2>1, TextsAreSaid
        <3> HIDE DEF node, path, c
        <3>7. c.webhooks[w][k] = Loading!Said(path, "")
            BY <3>2, <3>4, <3>5, <3>6
        <3> QED
            BY <2>3, <3>7 DEF path
    <2> QED
        BY <2>4, <2>5, <2>6
<1>3. Init => (part = "load" => LoadInv)
    BY <1>1, PartsBegin
<1>4. (part = "load" => LoadInv) /\ [Next]_vars => (part = "load" => LoadInv)'
    BY LoadStep, PartsStep
<1>5. (part = "load" => LoadInv) => EffectiveValues
    BY <1>2 DEF EffectiveValues
<1> QED
    BY <1>3, <1>4, <1>5, PTL DEF Spec

(* A configuration that was loaded can be run with: the values in effect,  *)
(* from wherever each of them came, passed the validation together.        *)
THEOREM LoadedConfigsAreUsable == Spec => []UsableConfig
<1>1. Loading!Init => LoadInv
    BY LoadBegins
<1>2. LoadInv => Loading!UsableConfig
    <2> SUFFICES ASSUME LoadInv, stage = "loaded"
                 PROVE  Loading!UsableConfig
        BY Zenon DEF Loading!UsableConfig
    <2>1. /\ Loading!validateDatabase(cfg) /\ Loading!validateWebhooks(cfg)
          /\ Loading!validateReconcile(cfg) /\ cfg.settings["listen"] # ""
        BY Zenon DEF LoadInv, Loading!validateAndCompile
    <2>2. ASSUME NEW f \in Loading!Durations
          PROVE  Loading!Of(cfg, f) > 0
        <3>1. f \in Loading!Database \cap Loading!Durations \/ f \in Loading!Reconcile
            BY DEF Loading!Durations, Loading!Settings, Loading!Texts
        <3> QED
            BY <2>1, <3>1 DEF Loading!validateDatabase, Loading!validateReconcile
    <2>3. 0 < Loading!Of(cfg, "retry_initial")
        <3>1. "retry_initial" \in Loading!Reconcile
            BY DEF Loading!Reconcile
        <3> QED
            BY <2>1, <3>1 DEF Loading!validateReconcile
    <2>4. /\ 0 <= Loading!Of(cfg, "min_connections") /\ Loading!Of(cfg, "max_connections") > 0
          /\ Loading!Of(cfg, "min_connections") <= Loading!Of(cfg, "max_connections")
          /\ Loading!Of(cfg, "retry_initial") <= Loading!Of(cfg, "retry_max")
        BY <2>1 DEF Loading!validateDatabase, Loading!validateReconcile
    <2>5. \A v, w \in DOMAIN cfg.webhooks : cfg.webhooks[v].path = cfg.webhooks[w].path => v = w
        BY <2>1 DEF Loading!validateWebhooks
    <2> QED
        BY <2>1, <2>2, <2>3, <2>4, <2>5, Zenon DEF Loading!UsableConfig
<1>3. Init => (part = "load" => LoadInv)
    BY <1>1, PartsBegin
<1>4. (part = "load" => LoadInv) /\ [Next]_vars => (part = "load" => LoadInv)'
    BY LoadStep, PartsStep
<1>5. (part = "load" => LoadInv) => UsableConfig
    BY <1>2 DEF UsableConfig
<1> QED
    BY <1>3, <1>4, <1>5, PTL DEF Spec
=============================================================================
