------------------------------ MODULE MCLossy -------------------------------
(***************************************************************************)
(* The instance of MCReconcile with connections that drop.                 *)
(***************************************************************************)
EXTENDS ReconcileLossy

MCTrimSpace == [t \in {0, 1} |-> t]

MCUsers == [id : {1}, groups : SUBSET {1, 2}]
MCCfg ==
    [groups |-> [alias \in 1..2 |-> <<alias>>],
     rules |-> << [name |-> 1, when |-> MCUsers,
                   states |-> [pending |-> [present |-> <<>>, absent |-> <<1>>],
                               active |-> [present |-> <<1>>, absent |-> <<2>>],
                               settled |-> [present |-> <<2>>, absent |-> <<1>>]]] >>]

MCKeys == {<<1, 1>>}

MCDeliveries ==
    { [source |-> 1, id |-> 1, subject |-> 1, starts_at |-> 2, ends_at |-> 3, cancelled |-> c] :
        c \in BOOLEAN }

MCRetryDelay == [n \in 0..MaxRetries |-> n + 1]
=============================================================================
