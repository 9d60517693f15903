------------------------------ MODULE Redactors ------------------------------
(***************************************************************************)
(* What is redacted, and how: log chunks and the strings of JSON values by *)
(* the scan of module Redaction (src/isolation.rs), and JSON values by the *)
(* names of their keys, for the operator diagnostics (src/diagnostics.rs). *)
(* The two redactors of JSON values are recursions that change the value   *)
(* in place; a step is one call of them, or one turn of the scan.          *)
(*                                                                         *)
(* A JSON value is the function from its positions to what is there.  A    *)
(* position is a sequence of keys and indices, a key a text like any other *)
(* of which a whole word of letters counts as one character here.          *)
(***************************************************************************)
EXTENDS Redaction

CONSTANTS
    Lower,       \* the ASCII lower case of a character
    Values,      \* the JSON values callers have
    Configs,     \* the configurations diagnostics may be asked about
    Options,     \* the DiagnosticsOptions they may be asked with
    MaxPasses    \* bound: redactions asked for

Object == [kind |-> "object"]
Array == [kind |-> "array"]
Other == [kind |-> "null, number or boolean"]
String(t) == [kind |-> "string", text |-> t]

Key(name) == [key |-> name]
Index(n) == [index |-> n]

ASSUME LowerAssumption == Lower \in [Char -> Char] /\ Lower["_"] = "_"

(* No run of body characters crosses a bracket, and no prefix begins in    *)
(* "[REDACTED:", which is one character, like the marker.                  *)
ASSUME BracketsAssumption == {"[REDACTED:", "]"} \subseteq OtherChars

-----------------------------------------------------------------------------
(* Values *)

SomeText == Seq(Char \cup {Marker})

Keys == [key : Seq(Char)]
Indices == [index : Nat]
Node == {Object, Array, Other} \cup [kind : {"string"}, text : SomeText]

LastOf(p) == p[Len(p)]
Parent(p) == SubSeq(p, 1, Len(p) - 1)

(* A tree of objects and arrays with strings and other scalars as leaves.  *)
IsTree(v) ==
    /\ v \in [DOMAIN v -> Node]
    /\ DOMAIN v \subseteq Seq(Keys \cup Indices)
    /\ <<>> \in DOMAIN v
    /\ \A p \in DOMAIN v \ {<<>>} :
          /\ Parent(p) \in DOMAIN v
          /\ \/ v[Parent(p)] = Object /\ LastOf(p) \in Keys
             \/ v[Parent(p)] = Array /\ LastOf(p) \in Indices

ASSUME ValuesAssumption == \A v \in Values : IsTree(v)

(* The value with the members (or items) f under a node of its own. *)
Join(node, f) ==
    [p \in {<<>>} \cup UNION {{<<e>> \o q : q \in DOMAIN f[e]} : e \in DOMAIN f} |->
        IF p = <<>> THEN node ELSE f[Head(p)][Tail(p)]]

Leaf(node) == [p \in {<<>>} |-> node]

ChildrenOf(v, p) == {q \in DOMAIN v : Len(q) = Len(p) + 1 /\ SubSeq(q, 1, Len(p)) = p}

Below(v, p) == {q \in DOMAIN v : Len(p) < Len(q) /\ SubSeq(q, 1, Len(p)) = p}

-----------------------------------------------------------------------------
(* The redactors *)

SensitiveKeys ==
    {<<"token">>, <<"secret">>, <<"password">>, <<"passwd">>, <<"api", "_", "key">>, <<"apikey">>,
     <<"private", "_", "key">>, <<"credential">>, <<"credentials">>, <<"credential", "_", "ref">>,
     <<"scoped", "_", "credential", "_", "ref">>}

SensitiveEndings ==
    {<<"_", "token">>, <<"_", "secret">>, <<"_", "password">>, <<"_", "api", "_", "key">>}

EndsWith(key, ending) ==
    Len(key) >= Len(ending) /\ SubSeq(key, Len(key) - Len(ending) + 1, Len(key)) = ending

(* Deviation: a sensitive word anywhere in the key will do. *)
ContainsSensitiveWord(key) == \E n \in DOMAIN key : <<Lower[key[n]]>> \in SensitiveKeys

is_sensitive_key(key) ==
    LET normalized == [n \in DOMAIN key |-> Lower[key[n]]]
    IN  \/ normalized \in SensitiveKeys
        \/ \E ending \in SensitiveEndings : EndsWith(normalized, ending)

(* Deviation: only a member that is a string is replaced. *)
SensitiveStrings(v, p) ==
    {q \in ChildrenOf(v, p) :
        v[p] = Object /\ is_sensitive_key(LastOf(q).key) /\ v[q].kind = "string"}

(* The members of the object at p, if one is there, that are replaced. *)
SensitiveChildren(v, p) ==
    {q \in ChildrenOf(v, p) : v[p] = Object /\ is_sensitive_key(LastOf(q).key)}

(* format!("[REDACTED:{key}]"): the key as it is, which may look like a    *)
(* secret itself.                                                          *)
RedactedKey(key) == <<"[REDACTED:">> \o key \o <<"]">>

Placeholder(p) == String(RedactedKey(LastOf(p).key))

(* Deviation: what was in a replaced member stays. *)
ReplacedOnTop(v, S) == [q \in DOMAIN v |-> IF q \in S THEN Placeholder(q) ELSE v[q]]

(* Each of the members S replaced by a string that names its key. *)
Replaced(v, S) ==
    [q \in DOMAIN v \ UNION {Below(v, s) : s \in S} |->
        IF q \in S THEN Placeholder(q) ELSE v[q]]

-----------------------------------------------------------------------------
(* Operator diagnostics *)

(* An Option<String>: the set of what it holds. *)
IsOption(S) == S \subseteq SomeText /\ \A a, b \in S : a = b

(* The RemoteConfig, as far as it is shown, and the DiagnosticsOptions. *)
ASSUME ConfigsAssumption ==
    \A c \in Configs :
        /\ IsOption(c.runner_id) /\ IsOption(c.credential_placeholder)
        /\ {c.control_plane_url, c.registration_token_env} \subseteq SomeText
        /\ c.base_urls \in Seq(SomeText)
ASSUME OptionsAssumption ==
    \A o \in Options : o.health \in SomeText /\ IsOption(o.quarantine_reason)

SnapshotWords ==
    {"runner", "id", "control", "plane", "url", "registration", "token", "env", "name",
     "credential", "ref", "heartbeat", "state", "health", "quarantine", "reason",
     "capability", "inventory", "local", "llm", "endpoints", "base"}

ASSUME WordsAssumption == \A w \in SnapshotWords : w \in AlnumChars /\ Lower[w] = w

OptionOf(S, other) == IF S = {} THEN other ELSE CHOOSE x \in S : TRUE

Member(name, v) == [k \in {Key(name)} |-> v]

(* The members of two objects. *)
a ++ b == [k \in DOMAIN a \cup DOMAIN b |-> IF k \in DOMAIN a THEN a[k] ELSE b[k]]

(* The inventory, of which the endpoints stand for its lists of objects. *)
Inventory(c) ==
    Join(Object, Member(<<"local", "_", "llm", "_", "endpoints">>,
        Join(Array, [e \in {Index(n) : n \in DOMAIN c.base_urls} |->
            Join(Object, Member(<<"base", "_", "url">>, Leaf(String(c.base_urls[e.index]))))])))

HeartbeatState(o) ==
    Join(Object,
        Member(<<"health">>, Leaf(String(o.health)))
     ++ Member(<<"quarantine", "_", "reason">>,
               Leaf(IF o.quarantine_reason = {} THEN Other
                    ELSE String(OptionOf(o.quarantine_reason, <<>>)))))

(* The serialized snapshot, without its constants, numbers and tables. *)
Snapshot(c, o) ==
    Join(Object,
        Member(<<"runner", "_", "id">>, Leaf(String(OptionOf(c.runner_id, <<>>))))
     ++ Member(<<"control", "_", "plane", "_", "url">>, Leaf(String(c.control_plane_url)))
     ++ Member(<<"registration", "_", "token", "_", "env", "_", "name">>,
               Leaf(String(c.registration_token_env)))
     ++ Member(<<"credential", "_", "ref">>,
               Leaf(IF c.credential_placeholder = {} THEN Other
                    ELSE String(RedactedKey(<<"credential", "_", "ref">>))))
     ++ Member(<<"heartbeat", "_", "state">>, HeartbeatState(o))
     ++ Member(<<"capability", "_", "inventory">>, Inventory(c)))

-----------------------------------------------------------------------------
(* State *)

VARIABLES
    original,  \* the value as it was before any redaction, or NoValue
    asked,     \* what operator_diagnostics was asked to make it from, or NotAsked
    value,     \* the value
    passes,    \* the redactions of it asked for so far, in order
    due,       \* the positions whose call of the last of them is due
    at         \* the Option of the position whose string is being scanned

treeVars == <<original, asked, value, passes, due, at>>
vars == <<scanVars, treeVars>>

NoValue == Leaf([kind |-> "no value"])
NotAsked == [config |-> {}]

NoScan ==
    /\ emitted = [line |-> <<>>, redacted |-> FALSE]
    /\ chunk = emitted
    /\ calls = 0
    /\ returned = TRUE
    /\ cursor = 1
    /\ output = <<>>
    /\ redacted = FALSE

(* A caller has a chunk to redact, or a JSON value. *)
Init ==
    /\ \/ EmitChunk /\ original = NoValue
       \/ NoScan /\ original \in Values
    /\ asked = NotAsked
    /\ value = original
    /\ passes = <<>>
    /\ due = {}
    /\ at = {}

Turn == (replace \/ copy_rest) /\ UNCHANGED treeVars

ChunkReturns == original = NoValue /\ redact_log_chunk /\ UNCHANGED treeVars

ChunkAgain == original = NoValue /\ call_again /\ UNCHANGED treeVars

AtRest == due = {} /\ returned

Last == passes[Len(passes)]

(* A redactor is called on the value.  redact_sensitive_values is private  *)
(* to diagnostics; it is run on every value for its own sake.              *)
redact(redactor) ==
    /\ original # NoValue
    /\ AtRest
    /\ Len(passes) < MaxPasses
    /\ passes' = Append(passes, redactor)
    /\ due' = {<<>>}
    /\ UNCHANGED <<original, asked, value, at, scanVars>>

operator_diagnostics(c, o) ==
    /\ original # NoValue
    /\ passes = <<>>
    /\ asked' = [config |-> c, options |-> o]
    /\ original' = Snapshot(c, o)
    /\ value' = Snapshot(c, o)
    /\ passes' = <<"redact_sensitive_values">>
    /\ due' = {<<>>}
    /\ UNCHANGED <<at, scanVars>>

(* The call of redact_json_value for position p: a string is scanned, the  *)
(* calls for members and items are independent of each other, so that      *)
(* their order is left open.                                               *)
redact_json_value(p) ==
    /\ Last = "redact_json_value" /\ returned
    /\ due' = (due \ {p}) \cup ChildrenOf(value, p)
    /\ IF value[p].kind = "string"
       THEN /\ at' = {p}
            /\ emitted' = [line |-> value[p].text, redacted |-> FALSE]
            /\ chunk' = emitted'
            /\ calls' = 1
            /\ returned' = FALSE
            /\ StartOfScan
       ELSE UNCHANGED <<at, scanVars>>
    /\ UNCHANGED <<original, asked, value, passes>>

(* The scan of the string at p is over and its output put in its place;    *)
(* its flag is dropped.                                                    *)
string_returns(p) ==
    /\ Done /\ ~returned
    /\ value' = [value EXCEPT ![p] = String(output)]
    /\ emitted' = [line |-> <<>>, redacted |-> FALSE]
    /\ chunk' = emitted'
    /\ calls' = 0
    /\ returned' = TRUE
    /\ StartOfScan
    /\ at' = {}
    /\ UNCHANGED <<original, asked, passes, due>>

(* Deviation: an object is gone over again until no sensitive key is left. *)
RedactUntilNoneIsLeft(p) ==
    /\ Last = "redact_sensitive_values"
    /\ value' = Replaced(value, SensitiveChildren(value, p))
    /\ due' = (IF SensitiveChildren(value, p) = {} THEN due \ {p} ELSE due)
                 \cup (ChildrenOf(value, p) \ SensitiveChildren(value, p))
    /\ UNCHANGED <<original, asked, passes, at, scanVars>>

(* The call of redact_sensitive_values for position p: replaced members    *)
(* are not gone into.                                                      *)
redact_sensitive_values(p) ==
    /\ Last = "redact_sensitive_values"
    /\ value' = Replaced(value, SensitiveChildren(value, p))
    /\ due' = (due \ {p}) \cup (ChildrenOf(value, p) \ SensitiveChildren(value, p))
    /\ UNCHANGED <<original, asked, passes, at, scanVars>>

Work ==
    \/ Turn
    \/ ChunkReturns
    \/ \E p \in due : redact_json_value(p) \/ redact_sensitive_values(p)
    \/ \E p \in at : string_returns(p)

Next ==
    \/ Work
    \/ ChunkAgain
    \/ \E redactor \in {"redact_json_value", "redact_sensitive_values"} : redact(redactor)
    \/ \E c \in Configs, o \in Options : operator_diagnostics(c, o)

(* A redaction is a synchronous call: while it has work to do it does it.  *)
(* Nobody has to ask for one.                                              *)
Spec == Init /\ [][Next]_vars /\ WF_vars(Work)

-----------------------------------------------------------------------------
(* Properties *)

(* Type invariant: the scan is inside its text, the value is still a tree, *)
(* and the calls due are for parts of it.                                  *)
TypeOK ==
    /\ chunk \in [line : SomeText, redacted : BOOLEAN]
    /\ cursor \in 1..(Len(text) + 1)
    /\ output \in SomeText
    /\ value = NoValue \/ IsTree(value)
    /\ due \cup at \subseteq DOMAIN value

(* The keys and their order of nesting alone say what is to go. *)
UnderSensitiveKey(p) ==
    \E n \in DOMAIN p : "key" \in DOMAIN p[n] /\ is_sensitive_key(p[n].key)

Asked(redactor) == \E n \in DOMAIN passes : passes[n] = redactor

(* The last redaction asked for. *)
LastAsked(redactor) == passes # <<>> /\ Last = redactor

(* What the redactions asked for make of the original.  Of their order and *)
(* number only the last one matters, and it does for placeholders only: a  *)
(* key that looks like a secret is scanned behind the last                 *)
(* redact_sensitive_values or shown as it is.                              *)
Reference ==
    LET marked(p) == Asked("redact_sensitive_values") /\ UnderSensitiveKey(p)
        kept == {p \in DOMAIN original : p # <<>> => ~marked(Parent(p))}
        node(p) == IF marked(p) THEN Placeholder(p) ELSE original[p]
        scanned(p) ==
            IF marked(p) THEN LastAsked("redact_json_value") ELSE Asked("redact_json_value")
    IN  [p \in kept |->
            IF scanned(p) /\ node(p).kind = "string"
            THEN String(Redacted(node(p).text)) ELSE node(p)]

(* When the redactions asked for have returned, what stood under a         *)
(* sensitive key, at whatever depth of objects and arrays and whatever     *)
(* case of the key, is gone with all below it if any went by keys; what    *)
(* looked like a secret is gone if any went by shape, but for the keys     *)
(* that a later redaction by keys shows again in its placeholders; and all *)
(* else is as it was (src/isolation.rs 145-163, src/diagnostics.rs         *)
(* 98-116).                                                                *)
RedactedExactly == AtRest => value = Reference

HealthAt == <<Key(<<"heartbeat", "_", "state">>), Key(<<"health">>)>>
ReasonAt == <<Key(<<"heartbeat", "_", "state">>), Key(<<"quarantine", "_", "reason">>)>>
TokenEnvAt == <<Key(<<"registration", "_", "token", "_", "env", "_", "name">>)>>
CredentialAt == <<Key(<<"credential", "_", "ref">>)>>

CredentialMark == RedactedKey(<<"credential", "_", "ref">>)

(* What may be shown; the credential is none of it. *)
Settings(c, o) ==
    {<<>>, c.control_plane_url, c.registration_token_env, o.health}
        \cup c.runner_id \cup o.quarantine_reason \cup {c.base_urls[n] : n \in DOMAIN c.base_urls}

(* The diagnostics tell the operator the state asked about and the name of *)
(* the variable that holds the registration token, which contains the word *)
(* token in its key, but of the credential reference no more than a mark:  *)
(* no other string comes out but the settings meant to (src/README.md      *)
(* 112-117 and test diagnostics_redacts_credential_material_but_keeps_env_name). *)
DiagnosticsTellTheState ==
    (AtRest /\ asked # NotAsked /\ ~Asked("redact_json_value")) =>
        /\ value[HealthAt] = String(asked.options.health)
        /\ \A reason \in asked.options.quarantine_reason : value[ReasonAt] = String(reason)
        /\ value[TokenEnvAt] = String(asked.config.registration_token_env)
        /\ value[CredentialAt] = String(CredentialMark)
        /\ \A p \in DOMAIN value : value[p].kind = "string" =>
              value[p].text \in Settings(asked.config, asked.options) \cup {CredentialMark}

(* Every redaction that is begun comes to rest: each turn of the loop      *)
(* passes what it found (src/isolation.rs 174) or takes the rest (lines    *)
(* 170 and 177), and each call goes one level down.                        *)
Terminates == ~AtRest ~> AtRest
=============================================================================
