--------------------------- MODULE MCDispatchAuth ---------------------------
(* The constants of DispatchAuth's runs.  Where MaxNet = MaxIssued the      *)
(* transport only loses, repeats, delays and reorders; where it is larger  *)
(* the transport garbles too.                                              *)
EXTENDS DispatchAuth

MCChars == {"r", "q", "j", "i", "x", ":", " "}

(* A dispatch of runner r, job j and key i, and of the body given. *)
Mk(version, r, j, i, lease, input, notBefore) ==
    [protocol_version |-> version,
     payload |-> [f \in RequiredFields |->
        CASE f = "runner_id" -> r
          [] f = "job_id" -> j
          [] f = "idempotency_key" -> i
          [] f = "lease_id" -> lease
          [] OTHER -> <<"x">>],
     input |-> input,
     signed_instruction |-> notBefore]

Supported == "remote.v1alpha1"
First == Mk(Supported, <<"r">>, <<"j">>, <<"i">>, <<"x">>, "echo", {})

(* The same identity again with another lease and body; another            *)
(* idempotency key; another runner; an unsupported version; a dispatch     *)
(* with a blank field; one not valid before 2.                             *)
Retried == Mk(Supported, <<"r">>, <<"j">>, <<"i">>, <<"q">>, "noop", {})
OtherKey == Mk(Supported, <<"r">>, <<"j">>, <<"j">>, <<"x">>, "echo", {})
OtherRunner == Mk(Supported, <<"q">>, <<"j">>, <<"i">>, <<"x">>, "echo", {})
Future == Mk("remote.v2", <<"r">>, <<"j">>, <<"x">>, <<"x">>, "echo", {})
Blank == Mk(Supported, <<"r">>, <<"x">>, <<" ">>, <<"x">>, "echo", {})
Early == Mk(Supported, <<"r">>, <<"j">>, <<"i">>, <<"x">>, "echo", {[not_before |-> 2]})

Active == [kind |-> "Active"]
Retired(at, until, skew) ==
    [kind |-> "Retired", retired_at |-> at, verify_until |-> until, allowed_clock_skew |-> skew]
Key(id, pair, status) == [key_id |-> id, verifying_key |-> pair, status |-> status]
Context(pair, id, at, until) ==
    [signing_key |-> pair, key_id |-> id, signed_at |-> at, expires_at |-> until]

(* A rotation from pair "old" to pair "new" (at 2, with a skew that runs   *)
(* past the end of the clock, or at 1 with none), a list that names a key  *)
(* twice, and a list without the old key.                                  *)
BeforeRotation == <<Key("k1", "old", Active)>>
Rotated == <<Key("k1", "old", Retired(2, 3, 3)), Key("k2", "new", Active)>>
RotatedEarly == <<Key("k1", "old", Active), Key("k2", "new", Active), Key("k1", "old", Retired(1, 4, 0))>>
AfterRotation == <<Key("k2", "new", Active)>>
RotationRegistries == {BeforeRotation, Rotated, RotatedEarly, AfterRotation}

OneRunner == {<<"r">>}

(* Delivery: two instructions, often of one identity, over two lives. *)
DeliveryDispatches == {First, Retried, OtherKey}
DeliveryContexts == {Context("old", "k1", 1, 3), Context("new", "k2", 2, 3)}
DeliveryRegistries == {Rotated}

(* Windows: one instruction signed before, at and after the retirements    *)
(* above, with expiries on both sides of the ends of verification, one     *)
(* signed by the new pair under the name of the old one, and one under its *)
(* own name; for dispatches to this runner and another, of an unsupported  *)
(* version, with a blank field and with another body, the last being what  *)
(* a garbled copy of the first may turn into.                              *)
WindowDispatches == {First, Retried, OtherRunner, Future, Blank}
WindowContexts ==
    {Context("old", "k1", at, until) : at \in Clock, until \in {2, 3, 4}}
      \cup {Context("new", "k1", 1, 4), Context("new", "k2", 2, 4)}

(* Identifiers with a colon: r, j:i, i and r, j, i:i have one replay key. *)
ColonJob == Mk(Supported, <<"r">>, <<"j", ":", "i">>, <<"i">>, <<"x">>, "echo", {})
ColonKey == Mk(Supported, <<"r">>, <<"j">>, <<"i", ":", "i">>, <<"x">>, "echo", {})
ColonDispatches == {ColonJob, ColonKey}

EarlyDispatches == {Early}
OneContext == {Context("old", "k1", 1, 3)}
=============================================================================
