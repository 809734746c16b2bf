---------------------------- MODULE MCSequential ----------------------------
(***************************************************************************)
(* Small inputs for the parts of Sequential.                               *)
(***************************************************************************)
EXTENDS Sequential

-----------------------------------------------------------------------------
(* The inputs *)

MCTrimSpace == [t \in 0..2 |-> t]

MCAliases == 1..3
MCIDs == 1..3

MCLookupAliases == 1..2
MCLookupIDs == 1..4

\* Around the widths at which each part of a row begins to fit.
MCWidths == 1..70
MCHeights == 1..9

\* Alias 3 stands for two groups and only selects; the second rule asserts
\* nothing while the subject is pending.
MCPreviewUsers == [id : {1}, groups : SUBSET {1, 2, 3}]
MCCfg ==
    [groups |-> (1 :> <<1>> @@ 2 :> <<2>> @@ 3 :> <<1, 3>>),
     rules |-> << [name |-> 1, when |-> {u \in MCPreviewUsers : 3 \in u.groups},
                   states |-> [pending |-> [present |-> <<>>, absent |-> <<2>>],
                               active |-> [present |-> <<2>>, absent |-> <<1>>],
                               settled |-> [present |-> <<>>, absent |-> <<1, 2>>]]],
                  [name |-> 2, when |-> {u \in MCPreviewUsers : 2 \in u.groups},
                   states |-> [pending |-> [present |-> <<>>, absent |-> <<>>],
                               active |-> [present |-> <<1>>, absent |-> <<>>],
                               settled |-> [present |-> <<>>, absent |-> <<2>>]]] >>]

\* Two sources use the same IDs.
MCKeys == {<<1, 1>>, <<1, 2>>, <<2, 1>>}

\* Pending, active, ended and cancelled at instant 2.
MCEvents ==
    { [source |-> k[1], id |-> k[2], subject |-> s,
       starts_at |-> w[1], ends_at |-> w[2], cancelled |-> w[3]] :
        k \in MCKeys, s \in {1, 2},
        w \in {<<3, 4, FALSE>>, <<2, 3, FALSE>>, <<1, 2, FALSE>>, <<2, 3, TRUE>>} }

MCScope == <<1, 2>>
MCPlans == [add : {<<>>, <<1>>, <<1, 2>>}, remove : {<<>>, <<3>>}]

Given == INSTANCE LoadInputs

MCInputs == Given!MCInputs
MCNumber == Given!MCNumber
MCPadded == Given!MCPadded
MCLowered == Given!MCLowered
MCPlaceholder == Given!MCPlaceholder
MCPartial == Given!MCPartial

-----------------------------------------------------------------------------
(* Merging trees *)

(* mergeNode, call by call, on the trees that LoadInputs writes. *)
RECURSIVE mergeTree(_, _)
mergeTree(base, overlay) ==
    IF base.kind # "map" \/ overlay.kind # "map" THEN overlay
    ELSE Given!Mapping([k \in DOMAIN base.at \cup DOMAIN overlay.at |->
            IF k \notin DOMAIN overlay.at THEN base.at[k]
            ELSE IF k \notin DOMAIN base.at THEN overlay.at[k]
            ELSE mergeTree(base.at[k], overlay.at[k])])

(* What Load says of the paths that are left is what that recursion leaves. *)
ASSUME MergesAgree ==
    \A a, b \in { Given!Mapping(s) : s \in Given!Sections \cup {Given!Base} } :
        Loading!mergeNode(Given!Document(a), Given!Document(b)) = Given!Document(mergeTree(a, b))
=============================================================================
