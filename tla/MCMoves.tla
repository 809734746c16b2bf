------------------------------ MODULE MCMoves -------------------------------
(***************************************************************************)
(* Two subjects and two intents whose deliveries move them from one        *)
(* subject to the other, two webhook requests at a time, one reconciler.   *)
(***************************************************************************)
EXTENDS Reconcile, TLC

MCTrimSpace == [t \in 0..2 |-> t]

MCUsers == [id : {1, 2}, groups : SUBSET {1}]
MCCfg ==
    [groups |-> [alias \in {1} |-> <<alias>>],
     rules |-> << [name |-> 1, when |-> MCUsers,
                   states |-> [pending |-> [present |-> <<>>, absent |-> <<>>],
                               active |-> [present |-> <<1>>, absent |-> <<>>],
                               settled |-> [present |-> <<>>, absent |-> <<1>>]]] >>]

MCKeys == {<<1, 1>>, <<1, 2>>}

\* The first intent is active, the second cancelled: which of them a subject has
\* decides what it is to be given or to lose.
MCDeliveries ==
    { [source |-> 1, id |-> i, subject |-> s, starts_at |-> 1, ends_at |-> 2,
       cancelled |-> i = 2] : i \in {1, 2}, s \in {1, 2} }

MCRetryDelay == [n \in 0..MaxRetries |-> 1]

MCSymmetry == Permutations(Handlers)
=============================================================================
