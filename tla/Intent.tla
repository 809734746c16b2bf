------------------------------- MODULE Intent -------------------------------
(***************************************************************************)
(* internal/intent/intent.go: the canonical intent, its validation and the *)
(* phase it is in at an instant.                                           *)
(*                                                                         *)
(* Texts (sources, ids, subjects, aliases, group IDs) are natural numbers; *)
(* the number is the text's place in the string order the code sorts by,   *)
(* and the empty text is 0.  Instants are natural numbers, 0 is Go's zero  *)
(* time, and a nil time is Null.                                           *)
(***************************************************************************)
EXTENDS Integers, FiniteSetsExt

CONSTANT TrimSpace  \* strings.TrimSpace, a function on the texts a delivery may carry

Null == -1
Blank == 0
ZeroTime == 0

ASSUME TrimAssumption == TrimSpace \in [DOMAIN TrimSpace -> Nat]

(* The primary key of the intents table. *)
Key(i) == <<i.source, i.id>>

(* The fields Validate rewrites before it looks at them. *)
Trimmed(i) ==
    [i EXCEPT !.source = TrimSpace[@], !.id = TrimSpace[@], !.subject = TrimSpace[@]]

Validate(i) ==
    LET t == Trimmed(i)
    IN  /\ t.source # Blank /\ t.id # Blank /\ t.subject # Blank
        /\ t.starts_at # ZeroTime /\ t.ends_at # ZeroTime
        /\ t.starts_at < t.ends_at

(* The window is half open: active from starts_at, ended from ends_at. *)
PhaseAt(i, now) ==
    IF i.cancelled THEN "cancelled"
    ELSE IF now < i.starts_at THEN "pending"
    ELSE IF now < i.ends_at THEN "active"
    ELSE "ended"

NextTransitionAt_EndOnly(i, now) ==
    IF i.cancelled \/ i.ends_at <= now THEN Null ELSE i.ends_at

NextTransitionAt(i, now) ==
    IF i.cancelled \/ i.ends_at <= now THEN Null
    ELSE IF now < i.starts_at THEN i.starts_at
    ELSE i.ends_at
=============================================================================
