----------------------------- MODULE LoadInputs -----------------------------
(* Files and environments for module Load: a complete file, then two that  *)
(* each say something of one section, with clashing shapes, placeholders   *)
(* that are replaced or are not set, and empty and unparsable values.      *)
(* Files are written as trees: a mapping holds its nodes.                  *)
EXTENDS Integers, Sequences, TLC

Mapping(f) == [kind |-> "map", at |-> f]
EmptyFile == Mapping(<<>>)
Malformed == [kind |-> "malformed"]

MCNumber ==
    "0" :> 0 @@ "-1" :> -1 @@ "1" :> 1 @@ "2" :> 2 @@ "10" :> 10
    @@ "0s" :> 0 @@ "30s" :> 30 @@ "1m" :> 60 @@ "5m" :> 300 @@ "15m" :> 900 @@ "30m" :> 1800
    @@ "-1s" :> -1

MCPadded == " " :> "" @@ " a" :> "a" @@ " Info" :> "Info" @@ " 1m" :> "1m"
MCLowered == "Info" :> "info"

MCPlaceholder == "${V}" :> "V" @@ "${W}" :> "W"
MCPartial == {"x${V}"}

Str(t) == [kind |-> "scalar", str |-> TRUE, text |-> t]
Num(t) == [kind |-> "scalar", str |-> FALSE, text |-> t]
List(items) == [kind |-> "list", items |-> items]
Key(k, nodes) == { k :> n : n \in nodes } \cup {<<>>}

\* What one file says of one section, or nothing.
Tops ==
    { l @@ m : l \in Key("listen", {Str(""), Str(" "), Str(" a"), Str("${V}"), Str("x${V}"), Num("1")}),
               m \in Key("metrics_listen", {Str(" ")}) }
    \cup Key("log_level", {Str(" Info"), Str("loud")}) \cup Key("unknown", {Str("a")})
Databases ==
    Key("database", { Mapping(mn @@ mx) : mn \in Key("min_connections", {Num("-1"), Num("2")}),
                                          mx \in Key("max_connections", {Num("0"), Num("1"), Str("${V}")}) }
                    \cup {Str("a")})
Reconciles ==
    Key("reconcile", { Mapping(i @@ m) : i \in Key("retry_initial", {Str("0s"), Str(" 1m"), Str("a")}),
                                         m \in Key("retry_max", {Str("${V}"), Str("30s")}) })
Hook(p, t) == Mapping("path" :> Str(p) @@ "bearer_token" :> Str(t))
Hooks ==
    Key("webhooks", {EmptyFile, Str("a"),
                     Mapping("w" :> Hook("p", "${V}")), Mapping("w" :> Mapping("path" :> Str("q"))),
                     Mapping("v" :> Hook("p", "${W}")), Mapping("v" :> Hook("q", "t"))})
Rules == Key("rules", {List(<<>>), List(<<"r2">>), Str("a")})

Base ==
    "version" :> Num("2") @@ "database" :> Mapping("url" :> Str("postgres"))
    @@ "webhooks" :> Mapping("w" :> Hook("p", "t")) @@ "rules" :> List(<<"r1", "r2">>)

Env(names, texts) == UNION { [s -> texts] : s \in SUBSET names }

\* The nodes of a tree by their paths.
RECURSIVE Document(_)
Document(node) ==
    IF node.kind # "map" THEN <<>> :> node
    ELSE LET below == [k \in DOMAIN node.at |-> Document(node.at[k])]
         IN  <<>> :> [kind |-> "map"]
             @@ [p \in UNION { { <<k>> \o q : q \in DOMAIN below[k] } : k \in DOMAIN below } |->
                    below[Head(p)][Tail(p)]]

Sections == Tops \cup Databases \cup Reconciles \cup Hooks \cup Rules

\* A complete file, then two that say something of one section each.
Family(sections, environments) ==
    { [files |-> <<Document(Mapping(Base)), Document(Mapping(a)), Document(Mapping(b))>>, env |-> e] :
        a \in sections, b \in sections, e \in environments }

MCInputs == <<
    Family(Tops, Env({"V", "listen"}, {"", "b", "${W}"})),
    Family(Databases, Env({"V"}, {"1"}) \cup Env({"min_connections", "max_connections"}, {"", "0", "2", "b"})),
    Family(Reconciles, Env({"V", "retry_max"}, {"", "5m", "-1s"})),
    Family(Hooks \cup Rules, Env({"V", "W"}, {" ", "t", "${W}"})),
    { [files |-> f, env |-> <<>>] :
        f \in {<<>>, <<Document(Malformed)>>, <<Document(List(<<>>))>>, <<Document(EmptyFile)>>,
               <<Document(Mapping(Base)), Document(Malformed)>>} } >>
=============================================================================
