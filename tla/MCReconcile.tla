---------------------------- MODULE MCReconcile -----------------------------
(***************************************************************************)
(* One subject, two reconcilers (the service loop and an operator's        *)
(* `apply'), webhook deliveries that open, move and cancel its window.     *)
(***************************************************************************)
EXTENDS Reconcile, TLC

\* The texts of deliveries; 7 is a padded spelling of 1.
MCTrimSpace == [t \in {0, 1, 7} |-> IF t = 7 THEN 1 ELSE t]

\* Alias 1 and 2 are written by the rules, alias 3 only selects.
MCUsers == [id : {1}, groups : SUBSET {1, 2, 3}]
MCCfg ==
    [groups |-> [alias \in 1..3 |-> <<alias>>],
     rules |-> << [name |-> 1, when |-> {u \in MCUsers : 3 \in u.groups},
                   states |-> [pending |-> [present |-> <<>>, absent |-> <<1>>],
                               active |-> [present |-> <<1>>, absent |-> <<2>>],
                               settled |-> [present |-> <<2>>, absent |-> <<1>>]]],
                  [name |-> 2, when |-> MCUsers,
                   states |-> [pending |-> [present |-> <<>>, absent |-> <<>>],
                               active |-> [present |-> <<1, 2>>, absent |-> <<>>],
                               settled |-> [present |-> <<>>, absent |-> <<>>]]] >>]

MCKeys == {<<1, 1>>}

\* A window, the same window cancelled with a padded id, and bodies Validate rejects.
MCDelivery(i, s, from, to, c) ==
    [source |-> 1, id |-> i, subject |-> s, starts_at |-> from, ends_at |-> to, cancelled |-> c]
MCDeliveries ==
    { MCDelivery(1, 1, 2, 3, FALSE), MCDelivery(7, 7, 2, 3, TRUE),
      MCDelivery(0, 1, 2, 3, FALSE), MCDelivery(1, 0, 2, 3, FALSE),
      MCDelivery(1, 1, 3, 3, FALSE), MCDelivery(1, 1, 0, 3, FALSE) }

MCRetryDelay == [n \in 0..MaxRetries |-> IF n = 0 THEN 1 ELSE 2]

MCSymmetry == Permutations(Reconcilers)
=============================================================================
