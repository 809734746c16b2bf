--------------------------- MODULE TerminalProofs ---------------------------
(***************************************************************************)
(* Proofs about the live region of Terminal, for every number of subjects  *)
(* and every number of membership writes.                                  *)
(***************************************************************************)
EXTENDS Terminal, NumberLemmas, SequenceTheorems

-----------------------------------------------------------------------------
(* The inductive invariant *)

(* A stage in progress is the one row of the one group; between stages the *)
(* region has no activity.                                                 *)
OneActivity ==
    IF HasRegion /\ main.pc = "busy"
    THEN /\ Len(groups) = 1 /\ groups[1].scope = main.subject
         /\ Len(groups[1].rows) = 1 /\ groups[1].rows[1].label = main.stage
    ELSE groups = <<>>

(* Who holds the lock, who has a clock, and what has ended. *)
Turns ==
    /\ mu = "clock" <=> clock \in {"locked", "drawn"}
    /\ mu = "main" <=> main.pc = "writing"
    /\ stopped <=> main.pc \in {"join", "report", "end"}
    /\ main.pc \in {"report", "end"} => clock \in {"none", "exited"}
    /\ clock = "exited" => stopped
    /\ clock = "drawn" => mode = "live" /\ ~stopped
    /\ main.stage = Listing => main.subject = NoScope

(* The live region is all that is below the printed lines, as high as the  *)
(* last frame, or as the new one between its painting and its recording.   *)
Below(kept, lines) ==
    /\ IsPrefix(kept, lines)
    /\ \A i \in DOMAIN lines : lines[i].live <=> i > Len(kept)

Region ==
    /\ Below(printed, screen)
    /\ shown = Len(last)
    /\ Len(screen) - Len(printed) = IF clock = "drawn" THEN Len(view) ELSE shown
    /\ mode # "live" \/ stopped \/ main.pc = "writing" => shown = 0

(* The blocks are those of earlier subjects, and earlier than any frame. *)
IsBlock(line) == line.what # "announcement"

BlocksBehind ==
    /\ main.pc \notin {"stop", "join", "report", "end"} =>
          \A j \in DOMAIN printed : IsBlock(printed[j]) => printed[j].scope < main.subject
    /\ \A i \in DOMAIN screen, j \in DOMAIN printed :
          screen[i].live /\ IsBlock(printed[j]) => printed[j].scope < screen[i].scope

TerminalInv == TypeOK /\ OneActivity /\ Turns /\ Region /\ BlocksBehind
-----------------------------------------------------------------------------
(* Sequences *)

(* Flattening at most one sequence. *)
LEMMA FlattenNone == FlattenSeq(<<>>) = <<>>
BY DEF FlattenSeq

LEMMA FlattenOne ==
    ASSUME NEW x
    PROVE  FlattenSeq(<<x>>) = x
<1> DEFINE f == [i \in 1..1 |-> x]
<1>1. f = [i \in 1..1 |-> IF i = 1 THEN <<x>>[i] ELSE f[i - 1] \o <<x>>[i]]
    OBVIOUS
<1>2. ASSUME NEW g, g = [i \in 1..1 |-> IF i = 1 THEN <<x>>[i] ELSE g[i - 1] \o <<x>>[i]]
      PROVE  g[1] = x
    BY <1>2
<1>3. Len(<<x>>) = 1
    OBVIOUS
<1> HIDE DEF f
<1> QED
    BY <1>1, <1>2, <1>3 DEF FlattenSeq

(* A function over the one index of a sequence. *)
LEMMA OneElement ==
    ASSUME NEW f, DOMAIN f = 1..1, f = [i \in DOMAIN f |-> f[i]]
    PROVE  f = <<f[1]>>
OBVIOUS

LEMMA OnlyElement ==
    ASSUME NEW S, NEW s \in Seq(S), Len(s) = 1
    PROVE  s # <<>> /\ DOMAIN s = 1..1 /\ s[1] \in S
OBVIOUS

(* What the first n lines are does not depend on what follows them. *)
LEMMA PrefixElements ==
    ASSUME NEW S, NEW p \in Seq(S), NEW q \in Seq(S)
    PROVE  IsPrefix(p, q) <=> Len(p) <= Len(q) /\ \A i \in 1..Len(p) : q[i] = p[i]
<1>1. Len(p) \in Nat /\ Len(q) \in Nat /\ SubSeq(p, 1, Len(p)) = p
    BY SubSeqFull
<1>2. ASSUME Len(p) <= Len(q)
      PROVE  SubSeq(p, 1, Len(p)) = SubSeq(q, 1, Len(p))
             <=> \A i \in 1..Len(p) : q[i] = p[i]
    <2> DEFINE t == SubSeq(q, 1, Len(p))
    <2>1. t \in Seq(S) /\ Len(t) = Len(p) /\ \A i \in 1..Len(p) : t[i] = q[i]
        BY <1>1, <1>2, SubSeqProperties
    <2> HIDE DEF t
    <2>2. (\A i \in 1..Len(p) : q[i] = p[i]) => t = p
        BY <2>1, SeqEqual
    <2>3. t = p => \A i \in 1..Len(p) : q[i] = p[i]
        BY <2>1
    <2> QED
        BY <1>1, <2>2, <2>3 DEF t
<1> QED
    BY <1>1, <1>2 DEF IsPrefix

-----------------------------------------------------------------------------
(* What the region shows *)

LEMMA GroupShape ==
    ASSUME TypeOK, OneActivity
    PROVE  \/ groups = <<>> /\ DOMAIN groups = {} /\ ~(HasRegion /\ main.pc = "busy")
           \/ /\ HasRegion /\ main.pc = "busy" /\ groups # <<>>
              /\ DOMAIN groups = 1..1 /\ groups[1].scope = main.subject
              /\ groups[1].rows \in Seq(Rows) /\ DOMAIN groups[1].rows = 1..1
              /\ Len(groups) = 1 /\ Len(groups[1].rows) = 1
              /\ groups[1].rows[1] \in Rows /\ groups[1].rows[1].label = main.stage
<1>1. CASE ~(HasRegion /\ main.pc = "busy")
    BY <1>1 DEF OneActivity
<1>2. CASE HasRegion /\ main.pc = "busy"
    <2>1. Len(groups) = 1 /\ groups \in Seq([scope : 0..Subjects, rows : Seq(Rows)])
        BY <1>2 DEF OneActivity, TypeOK
    <2>2. DOMAIN groups = 1..1 /\ groups # <<>>
        BY <2>1, OnlyElement
    <2>3. groups[1] \in [scope : 0..Subjects, rows : Seq(Rows)]
        BY <2>1, OnlyElement
    <2>4. DOMAIN groups = 1..1 /\ groups # <<>> /\ groups[1].rows \in Seq(Rows)
        BY <2>2, <2>3
    <2>5. /\ groups[1].scope = main.subject /\ Len(groups[1].rows) = 1
          /\ groups[1].rows[1].label = main.stage
        BY <1>2 DEF OneActivity
    <2>6. DOMAIN groups[1].rows = 1..1 /\ groups[1].rows[1] \in Rows
        BY <2>4, <2>5, OnlyElement
    <2> QED
        BY <1>2, <2>1, <2>4, <2>5, <2>6
<1> QED
    BY <1>1, <1>2

LEMMA LineTypes ==
    ASSUME NEW scope \in 0..Subjects, NEW label \in 0..5, NEW current \in 0..MaxChanges
    PROVE  /\ Live(scope, label, current) \in Lines /\ Heading(scope) \in Lines
           /\ Live(scope, label, current).live /\ Live(scope, label, current).scope = scope
           /\ Heading(scope).live /\ Heading(scope).scope = scope
BY TerminalAssumption DEF Live, Heading, Lines

(* A frame shows the stage in progress and nothing else. *)
LEMMA ViewShape ==
    ASSUME TypeOK, OneActivity
    PROVE  /\ view \in Seq(Lines)
           /\ \A i \in DOMAIN view : view[i].live /\ view[i].scope = main.subject
           /\ view # <<>> => HasRegion /\ main.pc = "busy"
<1>1. CASE groups = <<>> /\ DOMAIN groups = {}
    <2>1. view = <<>>
        BY <1>1, FlattenNone DEF view
    <2> QED
        BY <2>1
<1>2. CASE /\ HasRegion /\ main.pc = "busy"
           /\ DOMAIN groups = 1..1 /\ groups[1].scope = main.subject
           /\ Len(groups[1].rows) = 1 /\ groups[1].rows[1] \in Rows
    <2> DEFINE row == LatestRow(1)
               line == Live(groups[1].scope, row.label, row.current)
               v == IF ~row.old THEN <<>>
                    ELSE IF groups[1].scope = NoScope THEN <<line>>
                    ELSE <<Heading(groups[1].scope), line>>
    <2>1. view = FlattenSeq(<<v>>)
        BY <1>2 DEF view
    <2>2. view = v
        BY <2>1, FlattenOne
    <2>3. row \in Rows
        BY <1>2 DEF LatestRow, Last
    <2>4. main.subject \in 0..Subjects
        BY DEF TypeOK
    <2>5. /\ line \in Lines /\ Heading(groups[1].scope) \in Lines
          /\ line.live /\ line.scope = main.subject
          /\ Heading(groups[1].scope).live /\ Heading(groups[1].scope).scope = main.subject
        BY <1>2, <2>3, <2>4, LineTypes DEF Rows
    <2> HIDE DEF row, line
    <2> QED
        BY <1>2, <2>2, <2>5
<1> QED
    BY <1>1, <1>2, GroupShape

(* Announcements are lines that stay, and there is nothing to announce     *)
(* between stages.                                                         *)
LEMMA AnnouncementShape ==
    ASSUME TypeOK, OneActivity
    PROVE  /\ announcements \in Seq(Lines)
           /\ \A i \in DOMAIN announcements :
                 announcements[i].what = "announcement" /\ ~announcements[i].live
<1>1. CASE groups = <<>> /\ DOMAIN groups = {}
    <2>1. announcements = <<>>
        BY <1>1, FlattenNone DEF announcements
    <2> QED
        BY <2>1
<1>2. CASE DOMAIN groups = 1..1 /\ groups[1].scope = main.subject
    <2> DEFINE line == Text(groups[1].scope, "announcement")
               v == IF Loud(1) THEN <<line>> ELSE <<>>
    <2>1. announcements = FlattenSeq(<<v>>)
        BY <1>2 DEF announcements
    <2>2. announcements = v
        BY <2>1, FlattenOne
    <2>3. line \in Lines /\ line.what = "announcement" /\ ~line.live
        BY <1>2, TerminalAssumption DEF TypeOK, Text, Lines
    <2> HIDE DEF line
    <2> QED
        BY <2>2, <2>3
<1> QED
    BY <1>1, <1>2, GroupShape

(* Closing the stage in progress leaves no group. *)
LEMMA NoGroupIsFound ==
    ASSUME groups = <<>>, NEW scope
    PROVE  Index(scope) = 0
<1>1. { i \in 1..Len(groups) : groups[i].scope = scope } = {}
    OBVIOUS
<1> QED
    BY <1>1 DEF Index, SelectInSeq

LEMMA TheGroupIsFound ==
    ASSUME Len(groups) = 1, groups[1].scope = main.subject
    PROVE  Index(main.subject) = 1
<1>1. { i \in 1..Len(groups) : groups[i].scope = main.subject } = {1}
    OBVIOUS
<1>2. Min({1}) = 1
    BY MinOfTwo
<1> QED
    BY <1>1, <1>2 DEF Index, SelectInSeq

LEMMA OneRemoved ==
    ASSUME NEW S, NEW s \in Seq(S), Len(s) = 1
    PROVE  RemoveAt(s, 1) = <<>>
BY DEF RemoveAt

LEMMA ClosedIsEmpty ==
    ASSUME TypeOK, OneActivity, main.pc = "busy"
    PROVE  Closed(main.subject, main.stage) = <<>>
<1>1. CASE groups = <<>>
    BY <1>1, NoGroupIsFound DEF Closed
<1>2. CASE groups # <<>>
    <2> DEFINE rows == groups[1].rows
               R == { r \in 1..Len(rows) : rows[r].label = main.stage }
    <2>1. /\ Index(main.subject) = 1 /\ Len(groups) = 1
          /\ rows \in Seq(Rows) /\ Len(rows) = 1 /\ rows[1].label = main.stage
        BY <1>2, GroupShape, TheGroupIsFound
    <2>2. R = {1}
        BY <2>1
    <2>3. Max({1}) = 1
        BY MaxOfTwo
    <2>4. SelectLastInSeq(rows, LAMBDA row : row.label = main.stage) = 1
        BY <2>2, <2>3 DEF SelectLastInSeq
    <2>5. RemoveAt(rows, 1) = <<>> /\ RemoveAt(groups, 1) = <<>>
        BY <2>1, OneRemoved DEF TypeOK
    <2> QED
        BY <2>1, <2>4, <2>5 DEF Closed
<1> QED
    BY <1>1, <1>2
-----------------------------------------------------------------------------
(* Erasing, painting and printing *)

(* Erasing the live region leaves what was printed. *)
LEMMA Erased ==
    ASSUME NEW p \in Seq(Lines), NEW q \in Seq(Lines), Below(p, q)
    PROVE  /\ SubSeq(q, 1, Len(q) - (Len(q) - Len(p))) = p
           /\ Len(q) - Len(p) \in Nat /\ Below(p, p)
           /\ \A i \in DOMAIN p : ~p[i].live
<1>1. Len(p) \in Nat /\ Len(q) \in Nat /\ DOMAIN p = 1..Len(p) /\ DOMAIN q = 1..Len(q)
    OBVIOUS
<1>2. Len(p) <= Len(q) /\ \A i \in 1..Len(p) : q[i] = p[i]
    BY PrefixElements DEF Below
<1>3. \A i \in 1..Len(p) : ~p[i].live
    BY <1>1, <1>2 DEF Below
<1>4. SubSeq(q, 1, Len(p)) = p
    BY <1>2, SubSeqFull DEF Below, IsPrefix
<1>5. Below(p, p)
    <2>1. IsPrefix(p, p)
        BY <1>1, PrefixElements
    <2> QED
        BY <1>1, <1>3, <2>1 DEF Below, Lines
<1>6. Len(q) - (Len(q) - Len(p)) = Len(p)
    BY <1>1
<1> QED
    BY <1>1, <1>2, <1>3, <1>4, <1>5, <1>6

(* A frame goes below the printed lines. *)
LEMMA Painted ==
    ASSUME NEW p \in Seq(Lines), NEW v \in Seq(Lines),
           \A i \in DOMAIN p : ~p[i].live, \A i \in DOMAIN v : v[i].live
    PROVE  /\ p \o v \in Seq(Lines) /\ Below(p, p \o v)
           /\ Len(p \o v) - Len(p) = Len(v)
<1>1. /\ p \o v \in Seq(Lines) /\ Len(p \o v) = Len(p) + Len(v)
      /\ \A i \in 1..Len(p) + Len(v) :
            (p \o v)[i] = IF i <= Len(p) THEN p[i] ELSE v[i - Len(p)]
    BY ConcatProperties
<1>2. Len(p) \in Nat /\ Len(v) \in Nat
    OBVIOUS
<1> DEFINE q == p \o v
<1>3. ASSUME NEW i \in 1..Len(p) + Len(v)
      PROVE  q[i].live <=> i > Len(p)
    <2>1. CASE i <= Len(p)
        <3>1. i \in DOMAIN p /\ q[i] = p[i]
            BY <1>1, <1>2, <2>1
        <3> QED
            BY <1>2, <2>1, <3>1
    <2>2. CASE ~(i <= Len(p))
        <3>1. i - Len(p) \in DOMAIN v /\ q[i] = v[i - Len(p)] /\ i > Len(p)
            BY <1>1, <1>2, <2>2
        <3> QED
            BY <3>1
    <2> QED
        BY <2>1, <2>2
<1>4. q \in Seq(Lines) /\ Len(q) = Len(p) + Len(v) /\ DOMAIN q = 1..Len(p) + Len(v)
    BY <1>1
<1>5. \A i \in 1..Len(p) : q[i] = p[i]
    BY <1>1, <1>2
<1> HIDE DEF q
<1>6. IsPrefix(p, q)
    BY <1>2, <1>4, <1>5, PrefixElements
<1>7. Below(p, q)
    BY <1>3, <1>6, <1>4 DEF Below
<1> QED
    BY <1>1, <1>2, <1>7 DEF q

(* Lines printed with the region down stay. *)
LEMMA Printed ==
    ASSUME NEW p \in Seq(Lines), NEW a \in Seq(Lines),
           \A i \in DOMAIN p : ~p[i].live, \A i \in DOMAIN a : ~a[i].live
    PROVE  p \o a \in Seq(Lines) /\ Below(p \o a, p \o a)
<1>1. /\ p \o a \in Seq(Lines) /\ Len(p \o a) = Len(p) + Len(a)
      /\ \A i \in 1..Len(p) + Len(a) :
            (p \o a)[i] = IF i <= Len(p) THEN p[i] ELSE a[i - Len(p)]
    BY ConcatProperties
<1>2. Len(p) \in Nat /\ Len(a) \in Nat
    OBVIOUS
<1> DEFINE q == p \o a
<1>3. ASSUME NEW i \in 1..Len(p) + Len(a)
      PROVE  ~q[i].live
    <2>1. CASE i <= Len(p)
        <3>1. i \in DOMAIN p /\ q[i] = p[i]
            BY <1>1, <1>2, <2>1
        <3> QED
            BY <3>1
    <2>2. CASE ~(i <= Len(p))
        <3>1. i - Len(p) \in DOMAIN a /\ q[i] = a[i - Len(p)]
            BY <1>1, <1>2, <2>2
        <3> QED
            BY <3>1
    <2> QED
        BY <2>1, <2>2
<1>4. q \in Seq(Lines) /\ Len(q) = Len(p) + Len(a) /\ DOMAIN q = 1..Len(p) + Len(a)
    BY <1>1
<1> HIDE DEF q
<1>5. IsPrefix(q, q)
    BY <1>4, PrefixElements
<1>6. ASSUME NEW i \in DOMAIN q
      PROVE  q[i].live <=> i > Len(q)
    BY <1>2, <1>3, <1>4, <1>6
<1> QED
    BY <1>4, <1>5, <1>6 DEF Below, q
-----------------------------------------------------------------------------
(* The invariant holds *)

LEMMA TerminalStarts == Init => TerminalInv
<1> SUFFICES ASSUME Init PROVE TerminalInv
    OBVIOUS
<1> USE DEF NoScope, Listing
<1>1. TypeOK
    <2>1. groups \in Seq([scope : 0..Subjects, rows : Seq(Rows)])
        BY DEF Init
    <2>2. screen \in Seq(Lines) /\ last \in Seq(Lines) /\ printed \in Seq(Lines)
        BY DEF Init
    <2>3. main \in [pc : {"open", "busy", "complete", "write", "writing", "stop",
                          "join", "report", "end"},
                    subject : 0..Subjects, stage : 0..5,
                    status : {"unchanged", "applied", "failed"}]
        BY TerminalAssumption DEF Init
    <2> QED
        BY <2>1, <2>2, <2>3 DEF Init, TypeOK
<1>2. OneActivity /\ Turns
    BY DEF Init, OneActivity, Turns
<1>3. screen = <<>> /\ printed = <<>> /\ last = <<>> /\ shown = 0
      /\ clock # "drawn"
    BY DEF Init
<1>4. IsPrefix(printed, screen)
    BY <1>3 DEF IsPrefix
<1>5. Region
    BY <1>3, <1>4 DEF Region, Below
<1>6. BlocksBehind
    BY <1>3 DEF BlocksBehind
<1> QED
    BY <1>1, <1>2, <1>5, <1>6 DEF TerminalInv

(* Types *)
LEMMA RowTyped == \A label \in 0..5 : Row(label) \in Rows
BY TerminalAssumption DEF Row, Rows

LEMMA TextTyped ==
    ASSUME NEW scope \in 0..Subjects,
           NEW what \in {"announcement", "report", "unchanged", "applied", "failed"}
    PROVE  Text(scope, what) \in Lines /\ ~Text(scope, what).live
           /\ Text(scope, what).scope = scope /\ Text(scope, what).what = what
BY TerminalAssumption DEF Text, Lines

(* A group of one row. *)
LEMMA GroupTyped ==
    ASSUME NEW scope \in 0..Subjects, NEW row \in Rows
    PROVE  <<[scope |-> scope, rows |-> <<row>>]>>
           \in Seq([scope : 0..Subjects, rows : Seq(Rows)])
OBVIOUS

(* A stage opens in a region without activity. *)
LEMMA OpensOne ==
    ASSUME TypeOK, OneActivity, OpenStage
    PROVE  groups' = IF HasRegion
                     THEN <<[scope |-> main.subject, rows |-> <<Row(main.stage)>>]>> ELSE <<>>
<1>1. groups = <<>>
    BY DEF OneActivity, OpenStage
<1>2. Index(main.subject) = 0
    BY <1>1, NoGroupIsFound
<1> QED
    BY <1>1, <1>2 DEF OpenStage

(* Progress, age and announcements change the one row only. *)
RowBecomes(row) ==
    /\ groups' = <<[scope |-> main.subject, rows |-> <<row>>]>>
    /\ row \in Rows /\ row.label = main.stage

LEMMA TheGroup ==
    ASSUME TypeOK, OneActivity, groups # <<>>
    PROVE  groups = <<[scope |-> main.subject, rows |-> <<groups[1].rows[1]>>]>>
<1>1. /\ Len(groups) = 1 /\ groups[1].scope = main.subject /\ Len(groups[1].rows) = 1
      /\ groups[1].rows \in Seq(Rows)
    BY GroupShape
<1>2. groups[1] \in [scope : 0..Subjects, rows : Seq(Rows)]
    BY <1>1, OnlyElement DEF TypeOK
<1>3. groups[1].rows = <<groups[1].rows[1]>>
    BY <1>1
<1>4. groups[1] = [scope |-> main.subject, rows |-> <<groups[1].rows[1]>>]
    BY <1>1, <1>2, <1>3
<1>5. groups = <<groups[1]>>
    BY <1>1 DEF TypeOK
<1> QED
    BY <1>4, <1>5

LEMMA RowChanged ==
    ASSUME TypeOK, OneActivity, groups # <<>>, NEW row
    PROVE  WithRow(1, 1, row) = [scope |-> main.subject, rows |-> <<row>>]
<1> DEFINE old == groups[1].rows[1]
<1>1. groups[1] = [scope |-> main.subject, rows |-> <<old>>]
    BY TheGroup
<1> HIDE DEF old
<1>2. [[scope |-> main.subject, rows |-> <<old>>] EXCEPT !.rows = [@ EXCEPT ![1] = row]]
      = [scope |-> main.subject, rows |-> <<row>>]
    OBVIOUS
<1> QED
    BY <1>1, <1>2 DEF WithRow

LEMMA RowProgresses ==
    ASSUME TypeOK, OneActivity, Progress, groups # <<>>
    PROVE  \E row : RowBecomes(row)
<1> DEFINE row == groups[1].rows[1]
           new == [row EXCEPT !.current = @ + 1]
<1>1. /\ DOMAIN groups = 1..1 /\ DOMAIN groups[1].rows = 1..1
      /\ row \in Rows /\ row.label = main.stage /\ HasRegion
    BY GroupShape
<1>2. row.current < MaxChanges /\ groups' = [groups EXCEPT ![1] = WithRow(1, 1, new)]
    <2>1. PICK g \in DOMAIN groups : \E r \in DOMAIN groups[g].rows :
              /\ groups[g].rows[r].current < MaxChanges
              /\ groups' = [groups EXCEPT
                    ![g] = WithRow(g, r, [groups[g].rows[r] EXCEPT !.current = @ + 1])]
        BY <1>1 DEF Progress
    <2>2. g = 1 /\ \A r \in DOMAIN groups[1].rows : r = 1
        BY <1>1
    <2> QED
        BY <2>1, <2>2
<1>3. new \in Rows /\ new.label = main.stage
    <2>1. row.current + 1 \in 0..MaxChanges
        BY <1>1, <1>2, TerminalAssumption DEF Rows
    <2> QED
        BY <1>1, <2>1 DEF Rows
<1> HIDE DEF new
<1>4. groups' = <<[scope |-> main.subject, rows |-> <<new>>]>>
    <2>1. groups = <<groups[1]>>
        BY TheGroup
    <2> QED
        BY <1>2, <2>1, RowChanged
<1> QED
    BY <1>3, <1>4 DEF RowBecomes

LEMMA RowAges ==
    ASSUME TypeOK, OneActivity, Age
    PROVE  groups # <<>> /\ \E row : RowBecomes(row)
<1> DEFINE row == groups[1].rows[1]
           new == [row EXCEPT !.old = TRUE]
<1>1. groups # <<>>
    BY DEF Age
<1>2. /\ DOMAIN groups = 1..1 /\ DOMAIN groups[1].rows = 1..1
      /\ row \in Rows /\ row.label = main.stage /\ HasRegion
    BY <1>1, GroupShape
<1>3. groups' = [groups EXCEPT ![1] = WithRow(1, 1, new)]
    <2>1. PICK g \in DOMAIN groups : \E r \in DOMAIN groups[g].rows :
              groups' = [groups EXCEPT
                ![g] = WithRow(g, r, [groups[g].rows[r] EXCEPT !.old = TRUE])]
        BY DEF Age
    <2>2. g = 1 /\ \A r \in DOMAIN groups[1].rows : r = 1
        BY <1>2
    <2> QED
        BY <2>1, <2>2
<1>4. new \in Rows /\ new.label = main.stage
    BY <1>2 DEF Rows
<1> HIDE DEF new
<1>5. groups' = <<[scope |-> main.subject, rows |-> <<new>>]>>
    <2>1. groups = <<groups[1]>>
        BY <1>1, TheGroup
    <2> QED
        BY <1>1, <1>3, <2>1, RowChanged
<1> QED
    BY <1>1, <1>4, <1>5 DEF RowBecomes

LEMMA RowIsAnnounced ==
    ASSUME TypeOK, OneActivity, Announce, groups # <<>>
    PROVE  \E row : RowBecomes(row)
<1> DEFINE row == groups[1].rows[1]
           new == [row EXCEPT !.announced = TRUE]
<1>1. /\ DOMAIN groups = 1..1 /\ Len(groups[1].rows) = 1
      /\ row \in Rows /\ row.label = main.stage
    BY GroupShape
<1>2. new \in Rows /\ new.label = main.stage
    BY <1>1 DEF Rows
<1>3. LatestRow(1) = row
    BY <1>1 DEF LatestRow, Last
<1> DEFINE after(g) == IF Loud(g)
        THEN WithRow(g, Len(groups[g].rows), [LatestRow(g) EXCEPT !.announced = TRUE])
        ELSE groups[g]
<1>4. groups' = [g \in DOMAIN groups |-> after(g)]
    BY Zenon DEF Announce
<1>5. after(1) = IF Loud(1) THEN WithRow(1, 1, new) ELSE groups[1]
    BY <1>1, <1>3
<1> HIDE DEF after
<1>6. groups' = <<after(1)>>
    <2>1. DOMAIN groups' = 1..1 /\ groups'[1] = after(1)
        BY <1>1, <1>4
    <2>2. groups' = [g \in DOMAIN groups' |-> groups'[g]]
        BY <1>4
    <2> QED
        BY <2>1, <2>2, OneElement
<1>7. CASE Loud(1)
    <2> HIDE DEF new
    <2>1. after(1) = [scope |-> main.subject, rows |-> <<new>>]
        BY <1>5, <1>7, RowChanged
    <2> QED
        BY <1>2, <1>6, <2>1 DEF RowBecomes
<1>8. CASE ~Loud(1)
    <2>1. after(1) = [scope |-> main.subject, rows |-> <<row>>]
        BY <1>5, <1>8, TheGroup
    <2> QED
        BY <1>1, <1>6, <2>1 DEF RowBecomes
<1> QED
    BY <1>7, <1>8
(* The command's goroutine moves within its types. *)
MainType ==
    [pc : {"open", "busy", "complete", "write", "writing", "stop", "join", "report", "end"},
     subject : 0..Subjects, stage : 0..5, status : {"unchanged", "applied", "failed"}]

LEMMA MainMoves ==
    ASSUME TypeOK, Turns
    PROVE  /\ NextSubject \in MainType /\ NextSubject.pc \in {"open", "stop"}
           /\ NextSubject.stage = Listing => NextSubject.subject = NoScope
           /\ NextSubject.pc = "open" => NextSubject.subject = main.subject + 1
           /\ \A ok \in BOOLEAN : main.pc = "busy" =>
                 /\ AfterStage(ok) \in MainType
                 /\ AfterStage(ok).stage = Listing => AfterStage(ok).subject = NoScope
                 /\ AfterStage(ok).pc \in {"open", "stop", "complete"}
                 /\ main.subject <= AfterStage(ok).subject
<1> USE DEF Listing, NoScope
<1>1. main \in MainType /\ (main.stage = 0 => main.subject = 0)
    BY DEF TypeOK, MainType, Turns
<1>2. NextSubject \in MainType
    BY <1>1, TerminalAssumption DEF NextSubject, MainType
<1>3. NextSubject.pc \in {"open", "stop"}
      /\ (NextSubject.stage = 0 => NextSubject.subject = 0)
      /\ (NextSubject.pc = "open" => NextSubject.subject = main.subject + 1)
    BY <1>1 DEF NextSubject, MainType
<1>4. ASSUME NEW ok \in BOOLEAN, main.pc = "busy"
      PROVE  /\ AfterStage(ok) \in MainType
             /\ AfterStage(ok).stage = 0 => AfterStage(ok).subject = 0
             /\ AfterStage(ok).pc \in {"open", "stop", "complete"}
             /\ main.subject <= AfterStage(ok).subject
    <2>1. CASE main.stage = Listing /\ ok
        <3>1. AfterStage(ok) = [main EXCEPT !.pc = "open", !.subject = 1, !.stage = 1]
            BY <2>1 DEF AfterStage
        <3> DEFINE after == AfterStage(ok)
        <3> HIDE DEF after
        <3>2. after = [pc |-> "open", subject |-> 1, stage |-> 1, status |-> main.status]
            BY <1>1, <3>1 DEF MainType, after
        <3>3. main.subject = 0 /\ main.status \in {"unchanged", "applied", "failed"}
            BY <1>1, <2>1 DEF MainType
        <3>4. after \in MainType
            BY <3>2, <3>3, TerminalAssumption DEF MainType
        <3> QED
            BY <3>2, <3>3, <3>4 DEF after
    <2>2. CASE main.stage = Listing /\ ~ok
        <3>1. AfterStage(ok) = [main EXCEPT !.pc = "stop"]
            BY <2>2 DEF AfterStage
        <3> QED
            BY <1>1, <3>1 DEF MainType
    <2>3. CASE main.stage # Listing /\ ok /\ main.stage < 5
        <3> DEFINE next == main.stage + 1
        <3>1. next \in 1..5 /\ main.subject \in 0..Subjects
            BY <1>1, <2>3 DEF MainType
        <3>2. AfterStage(ok) = [main EXCEPT !.pc = "open", !.stage = next]
            BY <2>3 DEF AfterStage
        <3> DEFINE after == AfterStage(ok)
        <3> HIDE DEF next, after
        <3>3. after = [pc |-> "open", subject |-> main.subject, stage |-> next,
                       status |-> main.status]
            BY <1>1, <3>2 DEF MainType, after
        <3>4. main.status \in {"unchanged", "applied", "failed"}
            BY <1>1 DEF MainType
        <3>5. after \in MainType
            BY <3>1, <3>3, <3>4 DEF MainType
        <3> QED
            BY <3>1, <3>3, <3>5 DEF after
    <2>4. CASE main.stage # Listing /\ ~(ok /\ main.stage < 5)
        <3> DEFINE status == IF ok THEN main.status ELSE "failed"
        <3>1. /\ status \in {"unchanged", "applied", "failed"}
              /\ main.subject \in 0..Subjects
            BY <1>1 DEF MainType
        <3>2. AfterStage(ok) = [main EXCEPT !.pc = "complete", !.status = status]
            BY <2>4 DEF AfterStage
        <3> DEFINE after == AfterStage(ok)
        <3> HIDE DEF status, after
        <3>3. after = [pc |-> "complete", subject |-> main.subject, stage |-> main.stage,
                       status |-> status]
            BY <1>1, <3>2 DEF MainType, after
        <3>4. main.stage \in 0..5
            BY <1>1 DEF MainType
        <3>5. after \in MainType
            BY <3>1, <3>3, <3>4 DEF MainType
        <3> QED
            BY <1>1, <3>1, <3>3, <3>5 DEF after
    <2> QED
        BY <2>1, <2>2, <2>3, <2>4
<1> QED
    BY <1>2, <1>3, <1>4

(* The groups of a step are the old ones, none, or one with one row. *)
LEMMA ActivityStep ==
    ASSUME TypeOK, OneActivity, Turns, Next
    PROVE  OneActivity' /\ groups' \in Seq([scope : 0..Subjects, rows : Seq(Rows)])
<1>1. groups \in Seq([scope : 0..Subjects, rows : Seq(Rows)]) /\ main \in MainType
    BY DEF TypeOK, MainType
<1>2. ASSUME HasRegion' <=> HasRegion, main'.pc = "busy" <=> main.pc = "busy",
             main'.subject = main.subject, main'.stage = main.stage, groups' = groups
      PROVE  OneActivity' /\ groups' \in Seq([scope : 0..Subjects, rows : Seq(Rows)])
    BY <1>1, <1>2 DEF OneActivity
<1>3. ASSUME main'.pc # "busy", groups' = <<>>
      PROVE  OneActivity' /\ groups' \in Seq([scope : 0..Subjects, rows : Seq(Rows)])
    BY <1>3 DEF OneActivity
<1>4. ASSUME HasRegion', main'.pc = "busy", main'.subject = main.subject,
             main'.stage = main.stage, NEW row, RowBecomes(row)
      PROVE  OneActivity' /\ groups' \in Seq([scope : 0..Subjects, rows : Seq(Rows)])
    <2>1. groups' \in Seq([scope : 0..Subjects, rows : Seq(Rows)])
        BY <1>1, <1>4, GroupTyped DEF RowBecomes, MainType
    <2>2. /\ Len(groups') = 1 /\ groups'[1].scope = main.subject
          /\ groups'[1].rows = <<row>> /\ row.label = main.stage
        BY <1>4 DEF RowBecomes
    <2> QED
        BY <1>4, <2>1, <2>2 DEF OneActivity
<1>5. CASE OpenStage
    <2>1. /\ main'.pc = "busy" /\ main'.subject = main.subject /\ main'.stage = main.stage
          /\ mode' = mode
        BY <1>1, <1>5 DEF OpenStage, MainType
    <2>2. groups' = IF HasRegion
                    THEN <<[scope |-> main.subject, rows |-> <<Row(main.stage)>>]>> ELSE <<>>
        BY <1>5, OpensOne
    <2>3. Row(main.stage) \in Rows /\ Row(main.stage).label = main.stage
        BY <1>1, RowTyped DEF Row, MainType
    <2>4. CASE HasRegion
        BY <1>4, <2>1, <2>2, <2>3, <2>4 DEF RowBecomes, HasRegion
    <2>5. CASE ~HasRegion
        BY <2>1, <2>2, <2>5 DEF OneActivity, HasRegion
    <2> QED
        BY <2>4, <2>5
<1>6. CASE Progress
    <2>1. /\ main.pc = "busy" /\ main'.pc = "busy" /\ main'.subject = main.subject
          /\ main'.stage = main.stage /\ mode' = mode
        BY <1>1, <1>6 DEF Progress, MainType
    <2>2. CASE groups = <<>>
        <3>1. groups' = groups
            BY <1>6, <2>2 DEF Progress
        <3> QED
            BY <1>2, <2>1, <3>1 DEF HasRegion
    <2>3. CASE groups # <<>>
        BY <1>4, <1>6, <2>1, <2>3, GroupShape, RowProgresses DEF HasRegion
    <2> QED
        BY <2>2, <2>3
<1>7. CASE CloseStage
    <2>1. main'.pc # "busy"
        BY <1>7, MainMoves DEF CloseStage
    <2>2. groups' = <<>>
        BY <1>7, ClosedIsEmpty DEF CloseStage
    <2> QED
        BY <1>3, <2>1, <2>2
<1>8. CASE Complete
    <2>1. groups = <<>> /\ Index(main.subject) = 0
        BY <1>8, NoGroupIsFound DEF Complete, OneActivity
    <2>2. groups' = <<>>
        BY <1>8, <2>1 DEF Complete
    <2>3. main'.pc # "busy"
        BY <1>1, <1>8, MainMoves DEF Complete, MainType
    <2> QED
        BY <1>3, <2>2, <2>3
<1>9. CASE Interrupted \/ Clear \/ WriteBlock \/ Stop \/ Join \/ Report
    <2>1. main.pc # "busy"
        BY <1>9 DEF Interrupted, Clear, WriteBlock, Stop, Join, Report
    <2>2. groups = <<>>
        BY <2>1 DEF OneActivity
    <2>3. groups' = <<>>
        BY <1>9, <2>2 DEF Interrupted, Clear, WriteBlock, Stop, Join, Report, display
    <2>4. main'.pc # "busy"
        BY <1>1, <1>9, MainMoves
        DEF Interrupted, Clear, WriteBlock, Stop, Join, Report, MainType
    <2> QED
        BY <1>3, <2>3, <2>4
<1>10. CASE Age
    <2>1. main' = main /\ mode' = mode
        BY <1>10 DEF Age
    <2>2. HasRegion /\ main.pc = "busy"
        BY <1>10, RowAges, GroupShape
    <2> QED
        BY <1>4, <1>10, <2>1, <2>2, RowAges DEF HasRegion
<1>11. CASE Announce
    <2>1. main' = main /\ mode' = mode
        BY <1>11 DEF Announce
    <2>2. CASE groups = <<>>
        <3>1. groups' = groups
            BY <1>11, <2>2 DEF Announce
        <3> QED
            BY <1>2, <2>1, <3>1 DEF HasRegion
    <2>3. CASE groups # <<>>
        BY <1>4, <1>11, <2>1, <2>3, GroupShape, RowIsAnnounced DEF HasRegion
    <2> QED
        BY <2>2, <2>3
<1>12. CASE TickerFires \/ ClockLock \/ Draw \/ Drawn \/ SkipFrame \/ ClockExits
    <2>1. main' = main /\ mode' = mode /\ groups' = groups
        BY <1>12 DEF TickerFires, ClockLock, Draw, Drawn, SkipFrame, ClockExits, ClockOnly, display
    <2> QED
        BY <1>2, <2>1 DEF HasRegion
<1> QED
    BY <1>5, <1>6, <1>7, <1>8, <1>9, <1>10, <1>11, <1>12 DEF Next, MainStep, ClockStep

(* Turns are taken. *)
LEMMA TurnsStep ==
    ASSUME TypeOK, Turns, Next
    PROVE  Turns' /\ mu' \in {"nobody", "main", "clock"} /\ stopped' \in BOOLEAN
           /\ clock' \in {"none", "wait", "tick", "locked", "drawn", "exited"}
           /\ main' \in MainType /\ mode' = mode /\ include' = include
<1>0. main \in MainType
    BY DEF TypeOK, MainType
<1> USE DEF TypeOK, Turns
<1>1. CASE OpenStage
    BY <1>0, <1>1 DEF OpenStage, HasRegion, MainType
<1>2. CASE Progress
    BY <1>0, <1>2 DEF Progress, MainType
<1>3. CASE CloseStage
    BY <1>3, MainMoves DEF CloseStage
<1>4. CASE Interrupted
    BY <1>0, <1>4 DEF Interrupted, MainType, display
<1>5. CASE Complete
    <2>1. /\ main' \in MainType /\ main'.pc \in {"write", "open", "stop"}
          /\ main'.stage = Listing => main'.subject = NoScope
        BY <1>0, <1>5, MainMoves DEF Complete, MainType
    <2> QED
        BY <1>5, <2>1 DEF Complete
<1>6. CASE Clear
    BY <1>0, <1>6 DEF Clear, MainType
<1>7. CASE WriteBlock
    <2>1. /\ main' \in MainType /\ main'.pc \in {"open", "stop"}
          /\ main'.stage = Listing => main'.subject = NoScope
        BY <1>0, <1>7, MainMoves DEF WriteBlock, MainType
    <2> QED
        BY <1>7, <2>1 DEF WriteBlock
<1>8. CASE Stop
    <2>1. /\ main' \in MainType /\ main'.pc = IF clock = "none" THEN "report" ELSE "join"
          /\ main'.stage = Listing => main'.subject = NoScope
        BY <1>0, <1>8 DEF Stop, MainType
    <2> QED
        BY <1>8, <2>1 DEF Stop
<1>9. CASE Join
    BY <1>0, <1>9 DEF Join, MainType, display
<1>10. CASE Report
    BY <1>0, <1>10 DEF Report, MainType
<1>11. CASE Age
    BY <1>0, <1>11 DEF Age
<1>12. CASE TickerFires
    BY <1>0, <1>12 DEF TickerFires, ClockOnly, display
<1>13. CASE ClockLock
    BY <1>0, <1>13 DEF ClockLock
<1>14. CASE Draw
    BY <1>0, <1>14 DEF Draw
<1>15. CASE Drawn
    BY <1>0, <1>15 DEF Drawn
<1>16. CASE Announce
    BY <1>0, <1>16 DEF Announce
<1>17. CASE SkipFrame
    BY <1>0, <1>17 DEF SkipFrame
<1>18. CASE ClockExits
    BY <1>0, <1>18 DEF ClockExits, ClockOnly, display
<1> QED
    BY <1>1, <1>2, <1>3, <1>4, <1>5, <1>6, <1>7, <1>8, <1>9, <1>10, <1>11, <1>12, <1>13,
       <1>14, <1>15, <1>16, <1>17, <1>18 DEF Next, MainStep, ClockStep
(* What is left when the live region is taken down, and what there is when *)
(* it has no height.                                                       *)
LEMMA TakenDown ==
    ASSUME TypeOK, Region, clock # "drawn"
    PROVE  /\ erase(shown) = printed /\ Below(printed, printed)
           /\ \A i \in DOMAIN printed : ~printed[i].live
           /\ shown = 0 => screen = printed
<1>1. Below(printed, screen) /\ screen \in Seq(Lines) /\ printed \in Seq(Lines)
      /\ shown = Len(screen) - Len(printed)
    BY DEF TypeOK, Region
<1>2. erase(shown) = printed /\ Below(printed, printed)
      /\ \A i \in DOMAIN printed : ~printed[i].live
    BY <1>1, Erased DEF erase
<1>3. ASSUME shown = 0 PROVE screen = printed
    <2>1. Len(screen) - shown = Len(screen)
        BY <1>1, <1>3
    <2> QED
        BY <1>1, <1>2, <2>1, SubSeqFull DEF erase
<1> QED
    BY <1>2, <1>3

(* A step that touches neither the screen nor what is known of it. *)
Steady ==
    /\ UNCHANGED <<mode, screen, shown, last, stopped, printed>>
    /\ clock' = "drawn" <=> clock = "drawn"
    /\ clock = "drawn" => groups' = groups
    /\ main'.pc = "writing" => main.pc = "writing"
    /\ main'.pc \notin {"stop", "join", "report", "end"} =>
          main.pc \notin {"stop", "join", "report", "end"} /\ main.subject <= main'.subject

LinesTyped ==
    screen \in Seq(Lines) /\ last \in Seq(Lines) /\ printed \in Seq(Lines) /\ shown \in Nat

LEMMA SteadyKeeps ==
    ASSUME TypeOK, Region, BlocksBehind, Steady, main' \in MainType
    PROVE  Region' /\ BlocksBehind' /\ LinesTyped'
<1>1. LinesTyped'
    BY DEF TypeOK, Steady, LinesTyped
<1>2. Below(printed, screen)'
    BY DEF Region, Steady, Below
<1>3. clock = "drawn" => view' = view
    BY DEF Steady, view, LatestRow
<1>4. Region'
    BY <1>2, <1>3 DEF Region, Steady
<1>5. BlocksBehind'
    <2>1. ASSUME main'.pc \notin {"stop", "join", "report", "end"},
                 NEW j \in DOMAIN printed, IsBlock(printed[j])
          PROVE  printed[j].scope < main'.subject
        <3>1. printed[j].scope < main.subject /\ main.subject <= main'.subject
            BY <2>1 DEF BlocksBehind, Steady
        <3>2. printed[j].scope \in Int /\ main.subject \in Int /\ main'.subject \in Int
            <4>1. printed[j] \in Lines /\ main \in MainType
                BY <2>1 DEF TypeOK, MainType
            <4>2. printed[j].scope \in Int
                BY <4>1, TerminalAssumption DEF Lines
            <4>3. main.subject \in Int /\ main'.subject \in Int
                BY <4>1, TerminalAssumption DEF MainType
            <4> QED
                BY <4>2, <4>3
        <3> QED
            BY <3>1, <3>2
    <2> QED
        BY <2>1 DEF BlocksBehind, Steady
<1> QED
    BY <1>1, <1>4, <1>5

LEMMA SteadySteps ==
    ASSUME TypeOK, Turns,
           \/ OpenStage \/ Progress \/ CloseStage \/ Interrupted \/ Complete \/ Join
           \/ Age \/ TickerFires \/ ClockLock \/ SkipFrame \/ ClockExits
    PROVE  Steady
<1>0. main \in MainType /\ main.subject \in Int /\ main.subject <= main.subject
    BY TerminalAssumption DEF TypeOK, MainType
<1>1. CASE OpenStage
    BY <1>0, <1>1 DEF OpenStage, Steady, MainType, Turns
<1>2. CASE Progress
    BY <1>0, <1>2 DEF Progress, Steady, MainType, Turns
<1>3. CASE CloseStage
    BY <1>3, MainMoves DEF CloseStage, Steady, Turns
<1>4. CASE Interrupted
    BY <1>0, <1>4 DEF Interrupted, Steady, MainType, display
<1>5. CASE Complete
    <2>1. /\ main'.pc \in {"write", "open", "stop"}
          /\ main'.pc # "stop" => main.subject <= main'.subject
        BY <1>0, <1>5, MainMoves DEF Complete, MainType
    <2> QED
        BY <1>5, <2>1 DEF Complete, Steady, Turns
<1>6. CASE Join
    BY <1>0, <1>6 DEF Join, Steady, MainType, display
<1>7. CASE Age
    BY <1>0, <1>7 DEF Age, Steady, Turns
<1>8. CASE TickerFires
    BY <1>0, <1>8 DEF TickerFires, ClockOnly, Steady, display
<1>9. CASE ClockLock
    BY <1>0, <1>9 DEF ClockLock, Steady
<1>10. CASE SkipFrame
    BY <1>0, <1>10 DEF SkipFrame, Steady
<1>11. CASE ClockExits
    BY <1>0, <1>11 DEF ClockExits, ClockOnly, Steady, display
<1> QED
    BY <1>1, <1>2, <1>3, <1>4, <1>5, <1>6, <1>7, <1>8, <1>9, <1>10, <1>11

(* The region is taken down, for a block or for good. *)
LEMMA ClearKeeps ==
    ASSUME TypeOK, Turns, Region, BlocksBehind, Clear \/ Stop
    PROVE  Region' /\ BlocksBehind' /\ LinesTyped'
<1>1. clock # "drawn" /\ clock' # "drawn"
    BY DEF Turns, Clear, Stop
<1>2. screen' = printed /\ printed' = printed /\ last' = <<>> /\ shown' = 0
    BY <1>1, TakenDown DEF Clear, Stop
<1>3. Below(printed, printed) /\ \A i \in DOMAIN printed : ~printed[i].live
    BY <1>1, TakenDown
<1>4. Len(printed) \in Nat /\ printed \in Seq(Lines)
    BY DEF TypeOK
<1>5. Region'
    <2>1. Below(printed, screen)'
        BY <1>2, <1>3 DEF Below
    <2> QED
        BY <1>1, <1>2, <1>4, <2>1 DEF Region
<1>6. BlocksBehind'
    <2>1. main'.pc \notin {"stop", "join", "report", "end"} =>
              main.pc \notin {"stop", "join", "report", "end"} /\ main'.subject = main.subject
        BY DEF Clear, Stop, TypeOK
    <2> QED
        BY <1>2, <1>3, <2>1 DEF BlocksBehind
<1> QED
    BY <1>2, <1>4, <1>5, <1>6 DEF LinesTyped

(* A line is printed with the region down. *)
LEMMA KeepKeeps ==
    ASSUME TypeOK, Region, clock # "drawn", clock' # "drawn", shown = 0,
           UNCHANGED <<shown, last>>, NEW line \in Lines, ~line.live, Keep(line)
    PROVE  /\ Region' /\ LinesTyped' /\ screen' = printed'
           /\ \A i \in DOMAIN printed' : ~printed'[i].live
           /\ \A j \in DOMAIN printed' :
                 (j \in DOMAIN printed /\ printed'[j] = printed[j]) \/ printed'[j] = line
<1>1. screen = printed /\ \A i \in DOMAIN printed : ~printed[i].live
    BY TakenDown
<1>2. printed \in Seq(Lines) /\ <<line>> \in Seq(Lines) /\ \A i \in DOMAIN <<line>> : ~<<line>>[i].live
    BY DEF TypeOK
<1>3. printed' = printed \o <<line>> /\ screen' = printed'
    <2>1. printed' = Append(printed, line) /\ screen' = printed'
        BY <1>1 DEF Keep
    <2> QED
        BY <1>2, <2>1, AppendIsConcat
<1>4. printed' \in Seq(Lines) /\ Below(printed', printed')
    BY <1>1, <1>2, <1>3, Printed
<1>5. \A i \in DOMAIN printed' : ~printed'[i].live
    BY <1>4, Erased
<1>6. ASSUME NEW j \in DOMAIN printed'
      PROVE  (j \in DOMAIN printed /\ printed'[j] = printed[j]) \/ printed'[j] = line
    BY <1>2, <1>3, ConcatProperties
<1>7. Region'
    <2>1. Below(printed, screen)'
        BY <1>3, <1>4 DEF Below
    <2>2. Len(printed') \in Nat
        BY <1>4
    <2>3. Len(screen') - Len(printed') = 0
        BY <1>3, <2>2
    <2>4. shown' = Len(last') /\ shown' = 0
        BY DEF Region
    <2> QED
        BY <2>1, <2>3, <2>4 DEF Region
<1> QED
    BY <1>3, <1>4, <1>5, <1>6, <1>7 DEF LinesTyped, TypeOK
LEMMA WriteBlockKeeps ==
    ASSUME TypeOK, Turns, Region, BlocksBehind, WriteBlock
    PROVE  Region' /\ BlocksBehind' /\ LinesTyped'
<1>1. main.pc = "writing" /\ clock # "drawn" /\ clock' # "drawn" /\ shown = 0
      /\ UNCHANGED <<mode, shown, last, stopped>>
    BY DEF WriteBlock, Turns, Region
<1>2. main \in MainType
    BY DEF TypeOK, MainType
<1>3. main.status \in {"unchanged", "applied", "failed"} /\ main.subject \in 0..Subjects
    BY <1>2 DEF MainType
<1> DEFINE line == Text(main.subject, main.status)
<1>4. line \in Lines /\ ~line.live /\ line.scope = main.subject
    BY <1>3, TextTyped
<1>5. CASE Keep(line) /\ main' = NextSubject
    <2> HIDE DEF line
    <2>1. /\ Region' /\ LinesTyped' /\ screen' = printed'
          /\ \A i \in DOMAIN printed' : ~printed'[i].live
          /\ \A j \in DOMAIN printed' :
                (j \in DOMAIN printed /\ printed'[j] = printed[j]) \/ printed'[j] = line
        BY <1>1, <1>4, <1>5, KeepKeeps
    <2>2. ASSUME main'.pc \notin {"stop", "join", "report", "end"},
                 NEW j \in DOMAIN printed', IsBlock(printed'[j])
          PROVE  printed'[j].scope < main'.subject
        <3>1. main'.subject = main.subject + 1
            BY <1>5, <2>2, MainMoves
        <3>2. CASE printed'[j] = line
            BY <1>3, <1>4, <3>1, <3>2
        <3>3. CASE j \in DOMAIN printed /\ printed'[j] = printed[j]
            <4>1. printed[j].scope < main.subject
                BY <1>1, <2>2, <3>3 DEF BlocksBehind
            <4>2. printed[j] \in Lines
                BY <3>3 DEF TypeOK
            <4>3. printed[j].scope \in Int
                BY <4>2, TerminalAssumption DEF Lines
            <4> QED
                BY <1>3, <3>1, <3>3, <4>1, <4>3
        <3> QED
            BY <2>1, <3>2, <3>3
    <2>3. BlocksBehind'
        BY <2>1, <2>2 DEF BlocksBehind, IsBlock
    <2> QED
        BY <2>1, <2>3
<1>6. CASE main' = [main EXCEPT !.pc = "stop"] /\ UNCHANGED <<screen, printed>>
    <2>1. main'.pc = "stop"
        BY <1>2, <1>6 DEF MainType
    <2>2. Below(printed, screen)'
        BY <1>6 DEF Region, Below
    <2>3. Region'
        BY <1>1, <1>6, <2>1, <2>2 DEF Region
    <2>4. BlocksBehind'
        BY <1>6, <2>1 DEF BlocksBehind
    <2> QED
        BY <1>1, <1>6, <2>3, <2>4 DEF LinesTyped, TypeOK
<1> QED
    BY <1>5, <1>6 DEF WriteBlock

LEMMA ReportKeeps ==
    ASSUME TypeOK, Turns, Region, BlocksBehind, Report
    PROVE  Region' /\ BlocksBehind' /\ LinesTyped'
<1>1. clock # "drawn" /\ clock' # "drawn" /\ shown = 0 /\ UNCHANGED <<shown, last>>
    BY DEF Report, Turns, Region
<1>2. Text(NoScope, "report") \in Lines /\ ~Text(NoScope, "report").live
    BY TextTyped, TerminalAssumption DEF NoScope
<1>3. /\ Region' /\ LinesTyped' /\ screen' = printed'
      /\ \A i \in DOMAIN printed' : ~printed'[i].live
    BY <1>1, <1>2, KeepKeeps DEF Report
<1>4. main'.pc = "end"
    BY DEF Report, TypeOK
<1> QED
    BY <1>3, <1>4 DEF BlocksBehind

LEMMA AnnounceKeeps ==
    ASSUME TypeOK, OneActivity, Turns, Region, BlocksBehind, Announce
    PROVE  Region' /\ BlocksBehind' /\ LinesTyped'
<1>1. clock # "drawn" /\ clock' # "drawn" /\ shown = 0
      /\ UNCHANGED <<mode, shown, last, stopped, main>>
    BY DEF Announce, Region
<1>2. screen = printed /\ printed \in Seq(Lines) /\ \A i \in DOMAIN printed : ~printed[i].live
    BY <1>1, TakenDown DEF TypeOK
<1>3. announcements \in Seq(Lines)
      /\ \A i \in DOMAIN announcements :
            announcements[i].what = "announcement" /\ ~announcements[i].live
    BY AnnouncementShape
<1>4. printed' = printed \o announcements /\ screen' = printed'
    BY <1>2 DEF Announce
<1>5. printed' \in Seq(Lines) /\ Below(printed', printed')
    BY <1>2, <1>3, <1>4, Printed
<1>6. Region'
    <2>1. Below(printed, screen)'
        BY <1>4, <1>5 DEF Below
    <2>2. Len(printed') \in Nat
        BY <1>5
    <2>3. Len(screen') - Len(printed') = 0
        BY <1>4, <2>2
    <2>4. shown' = Len(last') /\ shown' = 0
        BY <1>1 DEF Region
    <2> QED
        BY <1>1, <2>1, <2>3, <2>4 DEF Region
<1>7. \A i \in DOMAIN printed' : ~printed'[i].live
    BY <1>5, Erased
<1>8. ASSUME NEW j \in DOMAIN printed', IsBlock(printed'[j])
      PROVE  j \in DOMAIN printed /\ printed'[j] = printed[j]
    <2>1. \/ j \in DOMAIN printed /\ printed'[j] = printed[j]
          \/ j - Len(printed) \in DOMAIN announcements
             /\ printed'[j] = announcements[j - Len(printed)]
        <3> HIDE DEF announcements
        <3> QED
            BY <1>2, <1>3, <1>4, ConcatProperties
    <2> QED
        BY <1>3, <1>8, <2>1 DEF IsBlock
<1>9. BlocksBehind'
    <2>1. ASSUME main'.pc \notin {"stop", "join", "report", "end"},
                 NEW j \in DOMAIN printed', IsBlock(printed'[j])
          PROVE  printed'[j].scope < main'.subject
        BY <1>1, <1>8, <2>1 DEF BlocksBehind
    <2> QED
        BY <1>4, <1>7, <2>1 DEF BlocksBehind, IsBlock
<1> QED
    BY <1>1, <1>4, <1>5, <1>6, <1>9 DEF LinesTyped, TypeOK

(* The clock paints a frame of the stage in progress, whose subject has no *)
(* block yet.                                                              *)
LEMMA DrawKeeps ==
    ASSUME TypeOK, OneActivity, Turns, Region, BlocksBehind, Draw
    PROVE  Region' /\ BlocksBehind' /\ LinesTyped'
<1>1. clock = "locked" /\ clock' = "drawn" /\ mode = "live" /\ ~stopped
      /\ UNCHANGED <<mode, groups, shown, last, stopped, main, printed>>
    BY DEF Draw
<1>2. /\ view \in Seq(Lines) /\ view' = view
      /\ \A i \in DOMAIN view : view[i].live /\ view[i].scope = main.subject
      /\ view # <<>> => main.pc = "busy"
    BY <1>1, ViewShape DEF view, LatestRow
<1>3. erase(shown) = printed /\ printed \in Seq(Lines)
      /\ \A i \in DOMAIN printed : ~printed[i].live
    BY <1>1, TakenDown DEF TypeOK
<1>4. main.pc # "writing"
    BY <1>1 DEF Turns
<1> HIDE DEF view
<1>5. CASE view = last
    <2>1. screen' = screen
        BY <1>5 DEF Draw
    <2>2. Below(printed, screen)'
        BY <1>1, <2>1 DEF Region, Below
    <2>3. Region'
        BY <1>1, <1>2, <1>4, <1>5, <2>1, <2>2 DEF Region
    <2>4. BlocksBehind'
        BY <1>1, <2>1 DEF BlocksBehind
    <2> QED
        BY <1>1, <2>1, <2>3, <2>4 DEF LinesTyped, TypeOK
<1>6. CASE view # last
    <2>1. screen' = printed \o view
        BY <1>3, <1>6 DEF Draw
    <2>2. /\ screen' \in Seq(Lines) /\ Below(printed, screen')
          /\ Len(screen') - Len(printed) = Len(view)
        <3>1. /\ printed \o view \in Seq(Lines) /\ Below(printed, printed \o view)
              /\ Len(printed \o view) - Len(printed) = Len(view)
            BY <1>2, <1>3, Painted
        <3> QED
            BY <2>1, <3>1
    <2>3. Region'
        <3>1. Below(printed, screen)'
            BY <1>1, <2>2 DEF Below
        <3> QED
            BY <1>1, <1>2, <1>4, <2>2, <3>1 DEF Region
    <2>4. ASSUME NEW i \in DOMAIN screen', screen'[i].live
          PROVE  main.pc = "busy" /\ screen'[i].scope = main.subject
        <3>1. \/ i \in DOMAIN printed /\ screen'[i] = printed[i]
              \/ i - Len(printed) \in DOMAIN view /\ screen'[i] = view[i - Len(printed)]
            <4>1. /\ Len(screen') = Len(printed) + Len(view)
                  /\ \A k \in 1..Len(printed) + Len(view) :
                        screen'[k] = IF k <= Len(printed) THEN printed[k]
                                     ELSE view[k - Len(printed)]
                BY <1>2, <1>3, <2>1, ConcatProperties
            <4>2. /\ Len(printed) \in Nat /\ Len(view) \in Nat
                  /\ DOMAIN printed = 1..Len(printed) /\ DOMAIN view = 1..Len(view)
                  /\ DOMAIN screen' = 1..Len(screen')
                BY <1>2, <1>3, <2>2
            <4> QED
                BY <4>1, <4>2
        <3>2. i - Len(printed) \in DOMAIN view /\ screen'[i] = view[i - Len(printed)]
            BY <1>3, <2>4, <3>1
        <3>3. view # <<>>
            BY <3>2
        <3> QED
            BY <1>2, <3>2, <3>3
    <2>5. ASSUME NEW i \in DOMAIN screen', NEW j \in DOMAIN printed,
                 screen'[i].live, IsBlock(printed[j])
          PROVE  printed[j].scope < screen'[i].scope
        BY <2>4, <2>5 DEF BlocksBehind
    <2>6. BlocksBehind'
        BY <1>1, <2>5 DEF BlocksBehind
    <2> QED
        BY <1>1, <2>2, <2>3, <2>6 DEF LinesTyped, TypeOK
<1> QED
    BY <1>5, <1>6

LEMMA DrawnKeeps ==
    ASSUME TypeOK, OneActivity, Turns, Region, BlocksBehind, Drawn
    PROVE  Region' /\ BlocksBehind' /\ LinesTyped'
<1>1. clock = "drawn" /\ clock' = "wait" /\ shown' = Len(view) /\ last' = view
      /\ UNCHANGED <<mode, groups, screen, stopped, main, printed>>
    BY DEF Drawn
<1>2. mode = "live" /\ ~stopped /\ main.pc # "writing"
    BY <1>1 DEF Turns
<1>3. view \in Seq(Lines)
    BY ViewShape
<1> HIDE DEF view
<1>4. Below(printed, screen)'
    BY <1>1 DEF Region, Below
<1>5. Region'
    BY <1>1, <1>2, <1>4 DEF Region
<1>6. BlocksBehind'
    BY <1>1 DEF BlocksBehind
<1> QED
    BY <1>1, <1>3, <1>5, <1>6 DEF LinesTyped, TypeOK
LEMMA TerminalSteps ==
    ASSUME TerminalInv, [Next]_vars
    PROVE  TerminalInv'
<1>1. CASE Next
    <2> USE DEF TerminalInv
    <2>1. OneActivity' /\ groups' \in Seq([scope : 0..Subjects, rows : Seq(Rows)])
        BY <1>1, ActivityStep
    <2>2. /\ Turns' /\ mu' \in {"nobody", "main", "clock"} /\ stopped' \in BOOLEAN
          /\ clock' \in {"none", "wait", "tick", "locked", "drawn", "exited"}
          /\ main' \in MainType /\ mode' = mode /\ include' = include
        BY <1>1, TurnsStep
    <2>3. Region' /\ BlocksBehind' /\ LinesTyped'
        <3>1. CASE \/ OpenStage \/ Progress \/ CloseStage \/ Interrupted \/ Complete \/ Join
                   \/ Age \/ TickerFires \/ ClockLock \/ SkipFrame \/ ClockExits
            BY <2>2, <3>1, SteadySteps, SteadyKeeps
        <3>2. CASE Clear \/ Stop
            BY <3>2, ClearKeeps
        <3>3. CASE WriteBlock
            BY <3>3, WriteBlockKeeps
        <3>4. CASE Report
            BY <3>4, ReportKeeps
        <3>5. CASE Announce
            BY <3>5, AnnounceKeeps
        <3>6. CASE Draw
            BY <3>6, DrawKeeps
        <3>7. CASE Drawn
            BY <3>7, DrawnKeeps
        <3> QED
            BY <1>1, <3>1, <3>2, <3>3, <3>4, <3>5, <3>6, <3>7 DEF Next, MainStep, ClockStep
    <2>4. TypeOK'
        BY <2>1, <2>2, <2>3 DEF TypeOK, LinesTyped, MainType
    <2> QED
        BY <2>1, <2>2, <2>3, <2>4
<1>2. CASE UNCHANGED vars
    <2>1. TypeOK'
        BY <1>2 DEF TerminalInv, TypeOK, vars
    <2>2. OneActivity' /\ Turns'
        BY <1>2 DEF TerminalInv, OneActivity, Turns, HasRegion, vars
    <2>3. view' = view
        BY <1>2 DEF view, LatestRow, vars
    <2>4. Below(printed, screen)'
        BY <1>2 DEF TerminalInv, Region, Below, vars
    <2>5. Region'
        BY <1>2, <2>3, <2>4 DEF TerminalInv, Region, vars
    <2>6. BlocksBehind'
        BY <1>2 DEF TerminalInv, BlocksBehind, IsBlock, vars
    <2> QED
        BY <2>1, <2>2, <2>5, <2>6 DEF TerminalInv
<1> QED
    BY <1>1, <1>2

(* The invariant holds in every behaviour. *)
THEOREM TerminalInvariant == Spec => []TerminalInv
<1>1. TerminalInv /\ [Next]_vars => TerminalInv'
    BY TerminalSteps
<1> QED
    BY <1>1, TerminalStarts, PTL DEF Spec

(* Every variable of the live region and of its two goroutines has its     *)
(* type: p.shown is never negative, and the groups are well formed.        *)
THEOREM TerminalTypeCorrect == Spec => []TypeOK
<1>1. TerminalInv => TypeOK
    BY DEF TerminalInv
<1> QED
    BY <1>1, TerminalInvariant, PTL

(* Text printed to stay, a block, an announcement or the report, is never  *)
(* erased or covered by the frames that the clock paints, and p.shown is   *)
(* the height of the live region whenever the lock is free: the cursor     *)
(* that goes up p.shown lines stops below the printed text.                *)
THEOREM PrintedTextIsNeverErased == Spec => []PrintedTextStays
<1>1. TerminalInv => PrintedTextStays
    <2> SUFFICES ASSUME TerminalInv PROVE PrintedTextStays
        OBVIOUS
    <2>1. mu = "nobody" => clock # "drawn"
        BY DEF TerminalInv, Turns
    <2>2. Below(printed, screen) /\ (clock # "drawn" => shown = Len(screen) - Len(printed))
        BY DEF TerminalInv, Region
    <2> QED
        BY <2>1, <2>2 DEF PrintedTextStays, Below
<1> QED
    BY <1>1, TerminalInvariant, PTL

(* No frame is on the screen once the report has begun, whatever tick was  *)
(* taken before the stop; a finished subject has left no stage open, and   *)
(* no live line of it is painted after its block or stays beside it.       *)
THEOREM FramesAreNeverStale == Spec => []NoStaleFrame
<1>1. TerminalInv => NoStaleFrame
    <2> SUFFICES ASSUME TerminalInv PROVE NoStaleFrame
        OBVIOUS
    <2>1. main.pc \in {"complete", "stop"} => groups = <<>>
        BY DEF TerminalInv, OneActivity
    <2>2. ASSUME main.pc \in {"join", "report", "end"}
          PROVE  \A i \in DOMAIN screen : ~screen[i].live
        <3>1. stopped /\ clock # "drawn" /\ shown = 0
            BY <2>2 DEF TerminalInv, Turns, Region
        <3> QED
            BY <3>1, TakenDown DEF TerminalInv
    <2>3. ASSUME NEW i \in DOMAIN screen, screen[i].live, NEW j \in DOMAIN printed,
                 printed[j].scope = screen[i].scope
          PROVE  printed[j].what = "announcement"
        <3>1. SUFFICES ASSUME IsBlock(printed[j]) PROVE FALSE
            BY DEF IsBlock
        <3>2. printed[j].scope < screen[i].scope
            BY <2>3, <3>1 DEF TerminalInv, BlocksBehind
        <3>3. printed[j] \in Lines
            BY DEF TerminalInv, TypeOK
        <3>4. printed[j].scope \in Int
            BY <3>3, TerminalAssumption DEF Lines
        <3> QED
            BY <2>3, <3>2, <3>4
    <2> QED
        BY <2>1, <2>2, <2>3 DEF NoStaleFrame
<1> QED
    BY <1>1, TerminalInvariant, PTL
=============================================================================
