------------------------------ MODULE MCLate --------------------------------
(***************************************************************************)
(* One subject whose window is open and then closes, two reconcilers       *)
(* that may lose their sessions, writes that land late.                    *)
(***************************************************************************)
EXTENDS ReconcileLate, TLC

MCTrimSpace == [t \in {0, 1} |-> t]

MCUsers == [id : {1}, groups : SUBSET {1}]
MCCfg ==
    [groups |-> [alias \in {1} |-> <<alias>>],
     rules |-> << [name |-> 1, when |-> MCUsers,
                   states |-> [pending |-> [present |-> <<>>, absent |-> <<>>],
                               active |-> [present |-> <<1>>, absent |-> <<>>],
                               settled |-> [present |-> <<>>, absent |-> <<1>>]]] >>]

MCKeys == {<<1, 1>>}

MCDeliveries ==
    { [source |-> 1, id |-> 1, subject |-> 1, starts_at |-> 1, ends_at |-> 2, cancelled |-> FALSE] }

MCRetryDelay == [n \in 0..MaxRetries |-> 1]

MCSymmetry == Permutations(Reconcilers)
=============================================================================
