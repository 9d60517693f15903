----------------------------- MODULE MCRedactors -----------------------------
(* Texts, values, configurations and options for the run of Redactors.      *)
EXTENDS Redactors, TLC

(* All texts up to a length over one letter, the two other body characters  *)
(* and a space, with the prefixes and the least count of letters cut down   *)
(* so that a text has room for two secrets and for runs too short to be one.*)
MaxLength == 7

MCPrefixes == {<<"s", "-">>, <<"s", "_", "_">>, <<"secret", "_">>}

MCTexts == UNION {[1..n -> {"s", "-", "_", " "}] : n \in 0..MaxLength}

Plain == <<" ", "s">>
Shaped == <<" ", "s", "-", "s", " ">>

MCAlnumChars ==
    {"s", "token", "TOKEN", "secret", "credential", "credentials", "ref", "scoped", "password",
     "passwd", "api", "key", "apikey", "private", "env", "name", "id", "runner", "control", "plane",
     "url", "registration", "heartbeat", "state", "health", "quarantine", "reason", "capability",
     "inventory", "local", "llm", "endpoints", "base"}

MCLower == [c \in Char |-> IF c = "TOKEN" THEN "token" ELSE c]

(* Keys that are sensitive as they are, by their ending, or only in        *)
(* another case; one that looks like a secret itself; that hold a          *)
(* sensitive word elsewhere; that hold none.                               *)
KeyWords ==
    {<<"token">>, <<"TOKEN">>, <<"id", "_", "TOKEN">>, <<"token", "_", "id">>, <<"id">>,
     <<"api", "_", "key">>, <<"id", "_", "api", "_", "key">>, <<"key">>, <<"id", "_", "credential">>,
     <<"secret", "_", "id", "_", "token">>}

Leaves == {Leaf(String(t)) : t \in {Plain, Shaped}} \cup {Leaf(Other)}

Objects(items) == {Join(Object, Key(k) :> v) : k \in KeyWords, v \in items}
Arrays(items) == {Join(Array, Index(1) :> v) : v \in items}

(* Scalars; objects and arrays of them; objects with two members, one of   *)
(* which is nested, and arrays of those.                                   *)
Nested == Objects(Leaves) \cup Arrays(Leaves)
Pairs ==
    {Join(Object, Key(<<"id">>) :> v @@ Key(k) :> w) :
        v \in Leaves, k \in KeyWords \ {<<"id">>}, w \in Nested}
MCValues ==
    Leaves \cup Nested \cup Pairs \cup {Join(Array, Index(1) :> v @@ Index(2) :> w) :
        v \in Arrays(Objects(Leaves)), w \in Objects({Leaf(String(Shaped))})}

MCConfigs ==
    [runner_id : {{}, {Plain}}, control_plane_url : {Shaped}, registration_token_env : {<<" ">>},
     credential_placeholder : {{}, {<<"s", "s">>}}, base_urls : {<<>>, <<Plain, Plain>>}]

MCOptions == [health : {<<"s">>, <<"-">>}, quarantine_reason : {{}, {<<"_">>}}]
=============================================================================
