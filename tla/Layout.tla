------------------------------- MODULE Layout -------------------------------
(***************************************************************************)
(* cmd/metabasis/progress.go: progressText, which fits one operation into  *)
(* a row of the live region, and view, which fits the operations into its  *)
(* height.  Texts are their widths on the screen; 0 is an empty text.      *)
(* Erasing a frame goes up by its number of lines, so that a row that      *)
(* wraps, or a frame higher than the screen, would leave lines behind.     *)
(***************************************************************************)
EXTENDS Integers, Sequences, FiniteSetsExt

CONSTANTS
    Widths,    \* widths of the terminal
    Heights,   \* heights of the terminal
    Labels, Details, Counts, Times,  \* widths of the parts of a row
    MaxGroups  \* bound: operations in progress at one time

BarWidth == 20
MinDetail == 8
Indent == 2

VARIABLES
    in,    \* [width, height, total, label, detail, counts, elapsed, groups]
    row,   \* the widths of the parts as laid out
    frame  \* [lines, shown, more]: rows and headings, operations shown, "more" announced

vars == <<in, row, frame>>

Unset == [label |-> 0, detail |-> 0, bar |-> 0, counts |-> 0, elapsed |-> 0]

(* The operations are given by whether they have a scope, and whether they *)
(* are old enough to be shown.  A total makes a bar, when there is a unit. *)
Init ==
    /\ \/ in \in [width : Widths, height : {24}, total : BOOLEAN, label : Labels, detail : Details,
                  counts : Counts, elapsed : Times, groups : {<<[scoped |-> TRUE, old |-> TRUE]>>}]
       \/ \E n \in 0..MaxGroups :
             in \in [width : {80}, height : Heights, total : {FALSE}, label : {20}, detail : {0},
                     counts : {0}, elapsed : {0},
                     groups : [1..n -> [scoped : BOOLEAN, old : BOOLEAN]]]
    /\ row = Unset
    /\ frame = [lines |-> -1, shown |-> {}, more |-> 0]

-----------------------------------------------------------------------------
(* progressText *)

(* runewidth.Truncate: nothing is done to a text that fits; otherwise the  *)
(* tail ends it, and a wide character may leave a column free.             *)
Truncate(w, n, tail) ==
    IF w <= n THEN {w} ELSE IF n <= tail THEN {tail} ELSE {n, n - 1}

Mark == IF in.total THEN 0 ELSE 1

Available == Max({0, in.width - (Indent + Mark) - 2})

Part(w, separator) == IF w = 0 THEN 0 ELSE separator + w

(* The width of the parts after the label, with what separates them. *)
measure(detail, bar, counts, elapsed) ==
    Part(detail, 2) + Part(bar, 1) + Part(counts, 1) + Part(elapsed, 1)

ShortDetail(room) ==
    LET over == measure(in.detail, 0, in.counts, in.elapsed) - room
        short == Truncate(in.detail, Max({0, in.detail - over}), 1)
    IN  IF over <= 0 \/ in.detail = 0 THEN {in.detail}
        ELSE { IF d < MinDetail THEN 0 ELSE d : d \in short }

(* The bar goes first, then the counts, then the time. *)
Fitted(detail, room) ==
    LET bar == IF in.total /\ in.counts > 0
                  /\ measure(in.detail, BarWidth, in.counts, in.elapsed) <= room THEN BarWidth ELSE 0
        counts == IF measure(detail, 0, in.counts, in.elapsed) > room THEN 0 ELSE in.counts
        elapsed == IF measure(detail, 0, 0, in.elapsed) > room THEN 0 ELSE in.elapsed
    IN  [detail |-> detail, bar |-> bar, counts |-> counts, elapsed |-> elapsed]

Rest(f) == measure(f.detail, f.bar, f.counts, f.elapsed)

FittedLabel_AlwaysTail(f) == Truncate(in.label, Max({0, Available - Rest(f)}), 1)

(* The tail of a shortened label is left out where it has no room. *)
FittedLabel(f) ==
    Truncate(in.label, Max({0, Available - Rest(f)}), IF Available - Rest(f) < 1 THEN 0 ELSE 1)

progressText ==
    /\ row = Unset
    /\ \E detail \in ShortDetail(Available - in.label) :
          LET f == Fitted(detail, Available - in.label)
          IN  \E label \in FittedLabel(f) :
                row' = [label |-> label, detail |-> f.detail, bar |-> f.bar,
                        counts |-> f.counts, elapsed |-> f.elapsed]
    /\ UNCHANGED <<in, frame>>

RowWidth == Indent + 2 * Mark + row.label + Rest(row)

-----------------------------------------------------------------------------
(* view *)

Budget == Min({6, Max({0, in.height - 1})})

Needed(i) == IF ~in.groups[i].old THEN 0 ELSE IF in.groups[i].scoped THEN 2 ELSE 1

(* The lines that the first operations take, one after the other. *)
LinesTo[n \in 0..Len(in.groups)] == IF n = 0 THEN 0 ELSE LinesTo[n - 1] + Needed(n)

LinesBefore(i) == LinesTo[i - 1]

(* Any but the last operation leaves a line for the announcement. *)
TooMuch(i) ==
    \/ LinesBefore(i) + Needed(i) > Budget
    \/ /\ i < Len(in.groups) /\ Budget >= 3
       /\ LinesBefore(i) + Needed(i) = Budget

view ==
    /\ frame.lines = -1
    /\ LET old == { i \in DOMAIN in.groups : in.groups[i].old }
           cut == { i \in old : TooMuch(i) }
           from == Min(cut)
       IN  frame' =
             IF cut = {} THEN [lines |-> LinesBefore(Len(in.groups) + 1), shown |-> old, more |-> 0]
             ELSE IF LinesBefore(from) < Budget
             THEN [lines |-> LinesBefore(from) + 1, shown |-> { i \in old : i < from },
                   more |-> Len(in.groups) - from + 1]
             ELSE [lines |-> LinesBefore(from), shown |-> { i \in old : i < from }, more |-> 0]
    /\ UNCHANGED <<in, row>>

Next == progressText \/ view

Spec == Init /\ [][Next]_vars

-----------------------------------------------------------------------------
(* Properties *)

RowFits == in.width >= 5 /\ row # Unset => RowWidth <= in.width - 1

GivesUpInOrder ==
    row # Unset =>
        /\ row.label < in.label => Rest(row) = 0
        /\ row.elapsed < in.elapsed => row.counts = 0 /\ row.detail = 0
        /\ row.counts < in.counts => row.detail = 0
        /\ row.detail < in.detail => row.bar = 0
        /\ in.label + measure(in.detail, IF in.total /\ in.counts > 0 THEN BarWidth ELSE 0,
                              in.counts, in.elapsed) <= Available
             => row.label = in.label /\ row.detail = in.detail /\ row.counts = in.counts
                /\ row.elapsed = in.elapsed /\ (in.total /\ in.counts > 0 => row.bar = BarWidth)

LinesFit ==
    frame.lines # -1 =>
        /\ frame.lines <= Max({0, in.height - 1})
        /\ Budget >= 3 => { i \in DOMAIN in.groups : in.groups[i].old /\ i \notin frame.shown }
                             \subseteq (Len(in.groups) - frame.more + 1)..Len(in.groups)

(* A frame takes the lines it counts and stays below the height of the     *)
(* screen.  For that no row reaches the last column of a terminal at least *)
(* as wide as its indentation and mark; what a row gives up for it, it     *)
(* gives up in the order the code states: the bar, then the detail's end,  *)
(* then the counts and the time, the label last, and a row that fits loses *)
(* nothing.  An operation that is not in the frame is among those          *)
(* announced, wherever there is room for three lines.                      *)
FrameFits == RowFits /\ GivesUpInOrder /\ LinesFit
=============================================================================
