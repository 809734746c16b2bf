-------------------------------- MODULE Load --------------------------------
(***************************************************************************)
(* internal/config/load.go: files are merged in order, placeholders are    *)
(* filled in from the environment, and the settings resolve from the       *)
(* environment, then the files, then the defaults (schema.go,              *)
(* duration.go); the result is validated (validate.go).                    *)
(*                                                                         *)
(* A document is a function from the paths of its nodes, sequences of      *)
(* keys, to what is there: a mapping [kind], a list [kind, items] or a     *)
(* scalar [kind, str, text], where str says whether its tag is !!str; its  *)
(* root is at <<>>.  The keys and the items of lists hold no               *)
(* placeholder.  A root of another kind stands for a file that             *)
(* readDocument rejects: unreadable, not YAML, several documents, a        *)
(* duplicated key.  Rules are their names and webhooks their path and      *)
(* token; what else the policy holds is validated in Config.               *)
(***************************************************************************)
EXTENDS Integers, SequencesExt, FiniteSetsExt

CONSTANTS
    Inputs,        \* families of [files, env]: file contents in order, and the environment
    Number,        \* text of an integer or a duration -> its value
    Padded,       \* text with surrounding space -> the text without it
    Lowered,       \* text with capital letters -> the text in lower case
    Placeholder,   \* text that is a placeholder -> the variable it names
    Partial        \* texts that hold a placeholder among other characters

VARIABLES
    files, env,   \* arguments of load
    merged,       \* number of files merged into doc
    doc,          \* document.Content[0]
    cfg,          \* the Config
    stage         \* reading, merged, substituted, decoded, loaded, or what failed

vars == <<files, env, merged, doc, cfg, stage>>

Absent == [kind |-> "absent"]

(* The node at a path of a document. *)
At(d, path) == IF path \in DOMAIN d THEN d[path] ELSE Absent

-----------------------------------------------------------------------------
(* schema.go *)

TopLevel == {"log_level", "listen", "metrics_listen"}
Database == {"url", "min_connections", "max_connections", "max_connection_lifetime",
             "max_connection_idle_time", "health_check_period"}
Reconcile == {"poll_interval", "retry_initial", "retry_max"}
Settings == TopLevel \cup Database \cup Reconcile

Texts == TopLevel \cup {"url"}
Integers32 == {"min_connections", "max_connections"}
Durations == Settings \ (Texts \cup Integers32)

Path(f) ==
    IF f \in TopLevel THEN <<f>>
    ELSE IF f \in Database THEN <<"database", f>> ELSE <<"reconcile", f>>

Default ==
    "log_level" :> "info" @@ "listen" :> ":8080" @@ "metrics_listen" :> ":8081"
    @@ "url" :> "" @@ "min_connections" :> "0" @@ "max_connections" :> "10"
    @@ "max_connection_lifetime" :> "30m" @@ "max_connection_idle_time" :> "5m"
    @@ "health_check_period" :> "1m"
    @@ "poll_interval" :> "1m" @@ "retry_initial" :> "30s" @@ "retry_max" :> "15m"

Trim(t) == IF t \in DOMAIN Padded THEN Padded[t] ELSE t

ToLower(t) == IF t \in DOMAIN Lowered THEN Lowered[t] ELSE t

(* Whether a text parses as the type of a setting. *)
Parses(f, t) == f \in Texts \/ (IF f \in Durations THEN Trim(t) ELSE t) \in DOMAIN Number

(* An empty text or a zero takes the default; a duration, only when the    *)
(* files did not set it.                                                   *)
applyDefaults(c) ==
    [c EXCEPT !.settings = [f \in Settings |->
        IF \/ f \in Durations /\ f \notin c.set
           \/ f \in Texts /\ c.settings[f] = ""
           \/ f \in Integers32 /\ Number[c.settings[f]] = 0
        THEN Default[f] ELSE c.settings[f]]]

NormalText(f, t) ==
    IF f = "log_level" THEN ToLower(Trim(t)) ELSE IF f \in Texts THEN Trim(t) ELSE t

normalize(c) == [c EXCEPT !.settings = [f \in Settings |-> NormalText(f, c.settings[f])]]

-----------------------------------------------------------------------------
(* validate.go *)

Of(c, f) == Number[Trim(c.settings[f])]

validateLogLevel(c) == c.settings["log_level"] \in {"debug", "info", "warn", "error"}

(* Of URLs only whether they are one of PostgreSQL. *)
validateDatabase(c) ==
    /\ c.settings["url"] = "postgres"
    /\ 0 <= Of(c, "min_connections") /\ Of(c, "max_connections") > 0
    /\ Of(c, "min_connections") <= Of(c, "max_connections")
    /\ \A f \in Database \cap Durations : Of(c, f) > 0

(* A path that lacks the prefix is the empty text. *)
validateWebhooks(c) ==
    /\ DOMAIN c.webhooks # {}
    /\ \A w \in DOMAIN c.webhooks :
          /\ c.webhooks[w].path # ""
          /\ Trim(c.webhooks[w].bearer_token) # ""
          /\ \A v \in DOMAIN c.webhooks : c.webhooks[v].path = c.webhooks[w].path => v = w

validateReconcile(c) ==
    /\ \A f \in Reconcile : Of(c, f) > 0
    /\ Of(c, "retry_initial") <= Of(c, "retry_max")

(* metrics_listen is not looked at. *)
validateAndCompile(c) ==
    /\ c.version = "2"
    /\ validateLogLevel(c)
    /\ c.settings["listen"] # ""
    /\ validateDatabase(c)
    /\ validateWebhooks(c)
    /\ c.rules # <<>>
    /\ validateReconcile(c)

-----------------------------------------------------------------------------
(* load.go *)

(* Whether a document has anything but a mapping above a path. *)
Cut(d, path) == \E p \in DOMAIN d : IsStrictPrefix(p, path) /\ d[p].kind # "map"

(* Mappings in both are merged key by key; of anything else the overlay's  *)
(* is taken, with nothing of the base below it.                            *)
mergeNode(base, overlay) ==
    LET kept == { p \in DOMAIN base \ DOMAIN overlay : ~Cut(overlay, p) }
    IN  [p \in kept \cup DOMAIN overlay |-> IF p \in DOMAIN overlay THEN overlay[p] ELSE base[p]]

IsPlaceholder(node) == node.kind = "scalar" /\ node.str /\ node.text \in DOMAIN Placeholder

substituteEnvironment(d) ==
    [p \in DOMAIN d |->
        IF IsPlaceholder(d[p])
        THEN [kind |-> "scalar", str |-> TRUE, text |-> env[Placeholder[d[p].text]]] ELSE d[p]]

Unresolvable(node) ==
    \/ IsPlaceholder(node) /\ Placeholder[node.text] \notin DOMAIN env
    \/ node.kind = "scalar" /\ node.str /\ node.text \in Partial

(* The decoder accepts a scalar of the field's type.  A placeholder keeps  *)
(* the tag !!str, which an integer field refuses.                          *)
Decodes(f) ==
    LET node == At(doc, Path(f))
    IN  \/ node.kind = "absent"
        \/ /\ node.kind = "scalar" /\ Parses(f, node.text)
           /\ f \in Integers32 => ~node.str

KeysAt(path) ==
    { p[Len(path) + 1] : p \in { q \in DOMAIN doc : Len(q) = Len(path) + 1 /\ Front(q) = path } }

IsMapping(path, keys) == At(doc, path).kind \in {"absent", "map"} /\ KeysAt(path) \subseteq keys

WebhookNames == KeysAt(<<"webhooks">>)

(* decoder.KnownFields(true): any other key, and any other shape, fails. *)
Decodable ==
    /\ IsMapping(<<>>, TopLevel \cup {"version", "database", "webhooks", "rules", "reconcile"})
    /\ IsMapping(<<"database">>, Database) /\ IsMapping(<<"reconcile">>, Reconcile)
    /\ \A f \in Settings : Decodes(f)
    /\ At(doc, <<"version">>).kind \in {"absent", "scalar"}
    /\ At(doc, <<"rules">>).kind \in {"absent", "list"}
    /\ IsMapping(<<"webhooks">>, WebhookNames)
    /\ \A w \in WebhookNames :
          /\ IsMapping(<<"webhooks", w>>, {"path", "bearer_token"})
          /\ \A k \in {"path", "bearer_token"} :
                At(doc, <<"webhooks", w, k>>).kind \in {"absent", "scalar"}

TextAt(path, zero) == LET node == At(doc, path) IN IF node.kind = "absent" THEN zero ELSE node.text

Decoded ==
    [version |-> TextAt(<<"version">>, "0"),
     settings |-> [f \in Settings |->
        TextAt(Path(f), IF f \in Integers32 THEN "0" ELSE IF f \in Texts THEN "" ELSE "0s")],
     set |-> { f \in Settings : At(doc, Path(f)).kind = "scalar" },
     webhooks |-> [w \in WebhookNames |->
        [path |-> TextAt(<<"webhooks", w, "path">>, ""),
         bearer_token |-> TextAt(<<"webhooks", w, "bearer_token">>, "")]],
     rules |-> IF At(doc, <<"rules">>).kind = "absent" THEN <<>> ELSE At(doc, <<"rules">>).items]

(* env.ParseWithOptions: an empty variable counts as one that is not set. *)
Overlaid == { f \in Settings \cap DOMAIN env : env[f] # "" }

overlayEnvironment(c) ==
    [c EXCEPT !.settings = [f \in Settings |-> IF f \in Overlaid THEN env[f] ELSE c.settings[f]]]

NoConfig == [version |-> ""]

Init ==
    /\ \E i \in DOMAIN Inputs : \E given \in Inputs[i] : files = given.files /\ env = given.env
    /\ merged = 0 /\ doc = <<>> /\ cfg = NoConfig /\ stage = "reading"

Fail(what) == stage' = what /\ UNCHANGED <<files, env, merged, doc, cfg>>

MergeFile_FirstWins ==
    /\ stage = "reading" /\ merged < Len(files)
    /\ At(files[merged + 1], <<>>).kind = "map"
    /\ doc' = IF merged = 0 THEN files[1] ELSE mergeNode(files[merged + 1], doc)
    /\ merged' = merged + 1
    /\ stage' = IF merged' = Len(files) THEN "merged" ELSE "reading"
    /\ UNCHANGED <<files, env, cfg>>

(* readDocument, and the merge of what it read. *)
MergeFile ==
    /\ stage = "reading" /\ merged < Len(files)
    /\ At(files[merged + 1], <<>>).kind = "map"
    /\ doc' = IF merged = 0 THEN files[1] ELSE mergeNode(doc, files[merged + 1])
    /\ merged' = merged + 1
    /\ stage' = IF merged' = Len(files) THEN "merged" ELSE "reading"
    /\ UNCHANGED <<files, env, cfg>>

MergeFails ==
    /\ stage = "reading"
    /\ ~(merged < Len(files) /\ At(files[merged + 1], <<>>).kind = "map")
    /\ Fail("unreadable")

Substitute ==
    /\ stage = "merged" /\ ~\E p \in DOMAIN doc : Unresolvable(doc[p])
    /\ doc' = substituteEnvironment(doc)
    /\ stage' = "substituted"
    /\ UNCHANGED <<files, env, merged, cfg>>

SubstituteFails ==
    stage = "merged" /\ (\E p \in DOMAIN doc : Unresolvable(doc[p])) /\ Fail("unresolved")

Decode ==
    /\ stage = "substituted" /\ Decodable
    /\ cfg' = Decoded /\ stage' = "decoded"
    /\ UNCHANGED <<files, env, merged, doc>>

DecodeFails == stage = "substituted" /\ ~Decodable /\ Fail("undecodable")

EnvironmentParses == \A f \in Overlaid : Parses(f, env[f])

Resolved(c) == normalize(overlayEnvironment(applyDefaults(c)))

Validated_BeforeEnvironment(c) == validateAndCompile(normalize(applyDefaults(c)))

Validated(c) == validateAndCompile(Resolved(c))

Finish ==
    /\ stage = "decoded" /\ EnvironmentParses /\ Validated(cfg)
    /\ cfg' = Resolved(cfg) /\ stage' = "loaded"
    /\ UNCHANGED <<files, env, merged, doc>>

FinishFails == stage = "decoded" /\ ~(EnvironmentParses /\ Validated(cfg)) /\ Fail("invalid")

Next ==
    \/ MergeFile \/ MergeFails \/ Substitute \/ SubstituteFails
    \/ Decode \/ DecodeFails \/ Finish \/ FinishFails

Spec == Init /\ [][Next]_vars

-----------------------------------------------------------------------------
(* Properties *)

(* A file says something of a path where it has a node there, or something *)
(* other than a mapping above it.                                          *)
Speaks(i, path) == path \in DOMAIN files[i] \/ Cut(files[i], path)

LastWord(path) ==
    LET speakers == { i \in DOMAIN files : Speaks(i, path) }
    IN  IF speakers = {} THEN Absent ELSE At(files[Max(speakers)], path)

(* What the last word is, with a placeholder replaced once. *)
Said(path, unset) ==
    LET node == LastWord(path)
    IN  IF node.kind # "scalar" THEN unset
        ELSE IF IsPlaceholder(node) THEN env[Placeholder[node.text]] ELSE node.text

(* The files leave a setting to its default. *)
LeftOpen(f) ==
    \/ LastWord(Path(f)).kind # "scalar"
    \/ f \in Texts /\ Said(Path(f), "") = ""
    \/ f \in Integers32 /\ Number[Said(Path(f), "0")] = 0

(* Some placeholder that no later file replaced cannot be filled in. *)
Missing == \E i \in DOMAIN files : \E path \in DOMAIN files[i] : Unresolvable(LastWord(path))

(* A setting is the environment's, else that of the last file that says    *)
(* anything of it, else the default: with mappings merged key by key, and  *)
(* lists replaced as a whole (README.md, Load).  Exactly what has the last *)
(* word needs its variable: a placeholder that a later file replaces may   *)
(* name a variable that is not set.                                        *)
EffectiveValues ==
    /\ stage = "unresolved" => Missing
    /\ stage \in {"substituted", "undecodable", "decoded", "invalid", "loaded"} => ~Missing
    /\ stage = "loaded" =>
        /\ \A f \in Settings :
              cfg.settings[f] = NormalText(f, IF f \in Overlaid THEN env[f]
                                             ELSE IF LeftOpen(f) THEN Default[f]
                                             ELSE Said(Path(f), ""))
        /\ cfg.rules = LastWord(<<"rules">>).items
        /\ \A w \in DOMAIN cfg.webhooks, k \in {"path", "bearer_token"} :
              cfg.webhooks[w][k] = Said(<<"webhooks", w, k>>, "")

(* Whatever each value comes from, the process runs with bounds that fit   *)
(* each other: the pool opens, the loop polls and backs off, and no two    *)
(* webhooks are served at one path.                                        *)
UsableConfig ==
    stage = "loaded" =>
        /\ 0 <= Of(cfg, "min_connections") /\ Of(cfg, "max_connections") > 0
        /\ Of(cfg, "min_connections") <= Of(cfg, "max_connections")
        /\ 0 < Of(cfg, "retry_initial") /\ Of(cfg, "retry_initial") <= Of(cfg, "retry_max")
        /\ \A f \in Durations : Of(cfg, f) > 0
        /\ cfg.settings["listen"] # ""
        /\ \A v, w \in DOMAIN cfg.webhooks : cfg.webhooks[v].path = cfg.webhooks[w].path => v = w
=============================================================================
