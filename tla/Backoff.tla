------------------------------ MODULE Backoff -------------------------------
(***************************************************************************)
(* retryDelay of internal/reconcile/service.go in the arithmetic of the    *)
(* build: a time.Duration is a signed integer of 64 bits that wraps.       *)
(* A subject fails again and again under every configuration that          *)
(* validateReconcile accepts.                                              *)
(***************************************************************************)
EXTENDS Integers, FiniteSetsExt

CONSTANTS
    MaxDuration, \* the longest duration; 2^63 - 1 in the build
    MaxFailures  \* bound: failures in a row

VARIABLES
    initial,  \* reconcile.retry_initial
    maximum,  \* reconcile.retry_max
    failures  \* the row's retry_count

Durations == -(MaxDuration + 1) .. MaxDuration

(* Two's complement wrapping of an integer product. *)
Wrap(x) ==
    LET size == 2 * (MaxDuration + 1)
        low == x % size
    IN  IF low <= MaxDuration THEN low ELSE low - size

validateReconcile(retryInitial, retryMax) ==
    0 < retryInitial /\ 0 < retryMax /\ retryInitial <= retryMax

retryDelay_CapLast(start, cap, previousFailures) ==
    LET delay[n \in Nat] ==
            IF n = 0 THEN start
            ELSE IF delay[n - 1] >= cap THEN cap
            ELSE Wrap(delay[n - 1] * 2)
    IN  Min({delay[previousFailures], cap})

(* An early return of the cap is the cap in every later round too. *)
retryDelay(start, cap, previousFailures) ==
    LET delay[n \in Nat] ==
            IF n = 0 THEN start
            ELSE IF delay[n - 1] >= cap \/ delay[n - 1] > cap \div 2 THEN cap
            ELSE Wrap(delay[n - 1] * 2)
    IN  Min({delay[previousFailures], cap})

Init ==
    /\ initial \in Durations /\ maximum \in Durations
    /\ validateReconcile(initial, maximum)
    /\ failures = 0

Fail ==
    /\ failures < MaxFailures
    /\ failures' = failures + 1
    /\ UNCHANGED <<initial, maximum>>

Spec == Init /\ [][Fail]_<<initial, maximum, failures>>

(* What the delay would be without a cap and with numbers of any size. *)
doubled[n \in Nat] == IF n = 0 THEN initial ELSE 2 * doubled[n - 1]

(* The delay doubles with every failure until it meets the cap and stays   *)
(* there: no configuration and no number of failures makes the doubling    *)
(* overflow into a short, negative or excessive delay.                     *)
DelayIsCappedDoubling ==
    retryDelay(initial, maximum, failures) = Min({doubled[failures], maximum})
=============================================================================
