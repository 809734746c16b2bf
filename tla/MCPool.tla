------------------------------- MODULE MCPool -------------------------------
(***************************************************************************)
(* A `run' with the loop, two webhook requests and a probe, and an         *)
(* `apply'.  Subjects 1 and 3 share a lock key, and so do the second       *)
(* identity and subject 2.                                                 *)
(***************************************************************************)
EXTENDS Pool, TLC

CONSTANTS c1, c2, c3, c4

MCProcesses == {"run", "apply"}
MCProcessOf == [u \in Users |-> IF u = "operator" THEN "apply" ELSE "run"]
MCMaxConns == [run |-> 2, apply |-> 1]
MCConns == [run |-> {c1, c2}, apply |-> {c4}]
MCHash == [x \in {1, 2, 3, 11, 12} |->
             CASE x \in {1, 3} -> "x" [] x \in {2, 12} -> "y" [] OTHER -> "z"]
MCMoves == { [identity |-> 11, affected |-> {1, 2}], [identity |-> 12, affected |-> {2, 3}] }

\* A third connection while the end of another is not yet seen by the server.
MCConnsSpare == [run |-> {c1, c2, c3}, apply |-> {c4}]

\* Two deliveries that take the keys of the same subjects after one another's.
MCMovesLive == { [identity |-> i, affected |-> {1, 2}] : i \in {11, 12} }

MCSymmetry == Permutations({c1, c2, c3})
=============================================================================
