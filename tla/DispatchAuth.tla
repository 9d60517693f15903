---------------------------- MODULE DispatchAuth ----------------------------
(***************************************************************************)
(* The signed-dispatch boundary of the runner (src/dispatch_auth.rs): a    *)
(* control plane signs dispatches, a transport that may lose, repeat,      *)
(* reorder, delay or garble them carries them, and a runner verifies them  *)
(* against a key registry and an in-memory replay cache.                   *)
(*                                                                         *)
(* verify_dispatch_instruction takes the registry, the time and the runner *)
(* id as arguments, so every call chooses them afresh: nothing makes the   *)
(* clock monotonic or orders the registries of successive calls.           *)
(*                                                                         *)
(* Signatures are ideal: signature bytes are the pair of the key that made *)
(* them and the canonical payload they were made over, or Malformed for    *)
(* bytes that do not decode to 64 octets.                                  *)
(***************************************************************************)
EXTENDS Integers, Sequences, FiniteSets

CONSTANTS
    KeyPairs,         \* Ed25519 key pairs: a signing key and its verifying key
    KeyIds,           \* names of keys
    MaxU64,           \* u64::MAX, the last second a clock can show
    Chars,            \* characters of identifiers; ":" and " " are special
    Inputs,           \* everything else a dispatch carries
    Versions,         \* protocol version strings, SUPPORTED_PROTOCOL_VERSIONS among them
    Algorithms,       \* algorithm strings, "ed25519" among them
    Dispatches,       \* the dispatches a control plane may send
    SigningContexts,  \* the arguments signers use: a key pair and a DispatchSigningContext
    Registries,       \* the key lists registries are built from
    RunnerIds,        \* the values of expected_runner_id
    Malformed,        \* signature_base64 that is not 64 octets of base64
    MaxIssued,        \* bound: instructions signed
    MaxNet,           \* bound: distinct instructions on the transport
    MaxLives          \* bound: lives of the replay cache (starts of the process)

DISPATCH_SIGNATURE_ALGORITHM == "ed25519"
SUPPORTED_PROTOCOL_VERSIONS == {"remote.v1alpha1"}

Clock == 0..MaxU64

RequiredFields == {"lease_id", "job_id", "runner_id", "correlation_id", "idempotency_key",
                   "policy_version", "working_group_id", "workspace_id"}

(* ProtocolEnvelope<JobDispatch>.  A string is a sequence of characters    *)
(* where its characters matter; an Option is a set of at most one element. *)
Dispatch ==
    [protocol_version : Versions,
     payload : [RequiredFields -> Seq(Chars)],
     input : Inputs,
     signed_instruction : SUBSET [not_before : Clock]]

SigningContext ==
    [signing_key : KeyPairs, key_id : KeyIds, signed_at : Clock, expires_at : Clock]

(* DispatchVerificationKey; verifying_key is named by its pair. *)
KeyStatus ==
    [kind : {"Active"}]
      \cup [kind : {"Retired"}, retired_at : Clock, verify_until : Clock,
            allowed_clock_skew : Clock]

VerificationKey == [key_id : KeyIds, verifying_key : KeyPairs, status : KeyStatus]

(* What a signature is made over: the dispatch and every field of the      *)
(* signature but the signature bytes.  Sorting the JSON makes equal values *)
(* equal texts; distinct values stay distinct.                             *)
CanonicalPayload ==
    [dispatch : Dispatches, algorithm : Algorithms, key_id : KeyIds,
     signed_at : Clock, expires_at : Clock]

SignatureBytes == [by : KeyPairs, over : CanonicalPayload] \cup {Malformed}

SignedDispatchInstruction ==
    [dispatch : Dispatches,
     signature : [key_id : KeyIds, algorithm : Algorithms, signed_at : Clock,
                  expires_at : Clock, signature_base64 : SignatureBytes]]

ASSUME ClockAssumption == MaxU64 \in Nat
ASSUME StringsAssumption ==
    /\ DISPATCH_SIGNATURE_ALGORITHM \in Algorithms
    /\ SUPPORTED_PROTOCOL_VERSIONS \subseteq Versions
ASSUME InputsAssumption ==
    /\ Dispatches \subseteq Dispatch
    /\ SigningContexts \subseteq SigningContext
    /\ Registries \subseteq Seq(VerificationKey)
    /\ RunnerIds \subseteq Seq(Chars)
ASSUME MalformedAssumption == Malformed \notin [by : KeyPairs, over : CanonicalPayload]

-----------------------------------------------------------------------------
(* Pure helpers of the code *)

(* Deviation: the sum wraps. *)
WrappingAdd(a, b) == (a + b) % (MaxU64 + 1)

(* u64::saturating_add *)
SaturatingAdd(a, b) == IF a + b > MaxU64 THEN MaxU64 ELSE a + b

(* value.trim().is_empty() *)
IsBlank(s) == \A i \in DOMAIN s : s[i] = " "

(* Deviation: the expiry is not signed. *)
CanonicalWithoutWindow(d, s) ==
    [dispatch |-> d, algorithm |-> s.algorithm, key_id |-> s.key_id,
     signed_at |-> s.signed_at, expires_at |-> 0]

canonical_signing_payload(d, s) ==
    [dispatch |-> d, algorithm |-> s.algorithm, key_id |-> s.key_id,
     signed_at |-> s.signed_at, expires_at |-> s.expires_at]

MissingRequiredField(d) == \E f \in RequiredFields : IsBlank(d.payload[f])

(* Deviation: the lease is part of the key. *)
ReplayKeyOfLease(d) ==
    d.payload["runner_id"] \o <<":">> \o d.payload["job_id"] \o <<":">>
      \o d.payload["idempotency_key"] \o <<":">> \o d.payload["lease_id"]

(* Deviation: the idempotency key is left out. *)
ReplayKeyOfJob(d) == d.payload["runner_id"] \o <<":">> \o d.payload["job_id"]

(* The replay key joins the three identifiers with colons and nothing      *)
(* escapes a colon inside one.                                             *)
ReplayKey(d) ==
    d.payload["runner_id"] \o <<":">> \o d.payload["job_id"] \o <<":">>
      \o d.payload["idempotency_key"]

(* DispatchKeyRegistry::new collects the list into a map, so that the last *)
(* entry of a key id is the one get returns.                               *)
RegistryGet(registry, key_id) ==
    {registry[n] : n \in {n \in DOMAIN registry :
        /\ registry[n].key_id = key_id
        /\ \A m \in DOMAIN registry : registry[m].key_id = key_id => m <= n}}

(* Deviation: the time of signing is not looked at. *)
RetirementIgnoresSigningTime(status, signed_at, now) ==
    status.kind = "Retired" /\ now > status.verify_until

(* A retired key verifies until verify_until what was signed no later than *)
(* its retirement plus the allowed skew.                                   *)
RetirementRefuses(status, signed_at, now) ==
    /\ status.kind = "Retired"
    /\ \/ now > status.verify_until
       \/ signed_at > SaturatingAdd(status.retired_at, status.allowed_clock_skew)

Verifies(key, instruction) ==
    instruction.signature.signature_base64 =
        [by |-> key.verifying_key,
         over |-> canonical_signing_payload(instruction.dispatch, instruction.signature)]

-----------------------------------------------------------------------------
(* State *)

VARIABLES
    issued,    \* history: the instructions signers made
    net,       \* the transport: instructions that may arrive, any number of times, or never
    seen,      \* InMemoryDispatchReplayCache: the replay keys recorded
    life,      \* which life of the replay cache this is
    accepted,  \* history: the dispatches accepted, each with the life it was accepted in
    call       \* the verify call this step made and its outcome, or NoCall

vars == <<issued, net, seen, life, accepted, call>>

NoCall == [outcome |-> "none"]

CallArguments ==
    [instruction : SignedDispatchInstruction, registry : Seq(VerificationKey),
     now : Clock, expected_runner_id : Seq(Chars)]

(* Deviation: the replay cache is asked before the signature is verified. *)
CheckOrderReplayFirst ==
    <<"UnsupportedProtocol", "MissingRequiredField", "ScopeMismatch", "UnsupportedAlgorithm",
      "Expired", "UnknownKey", "KeyRetired", "ReplayDetected", "MalformedSignature",
      "InvalidSignature">>

(* The errors verify_dispatch_instruction can return, in the order in which *)
(* its checks are made.                                                     *)
CheckOrder ==
    <<"UnsupportedProtocol", "MissingRequiredField", "ScopeMismatch", "UnsupportedAlgorithm",
      "Expired", "UnknownKey", "KeyRetired", "MalformedSignature", "InvalidSignature",
      "ReplayDetected">>

Errors == {CheckOrder[n] : n \in DOMAIN CheckOrder}

(* The condition under which the check that returns error fails; key is    *)
(* the Option the registry lookup returned.                                *)
Fails(error, c) ==
    LET dispatch == c.instruction.dispatch
        signature == c.instruction.signature
        key == RegistryGet(c.registry, signature.key_id)
    IN  \/ /\ error = "UnsupportedProtocol"
           /\ dispatch.protocol_version \notin SUPPORTED_PROTOCOL_VERSIONS
        \/ /\ error = "MissingRequiredField"
           /\ MissingRequiredField(dispatch)
        \/ /\ error = "ScopeMismatch"
           /\ dispatch.payload["runner_id"] # c.expected_runner_id
        \/ /\ error = "UnsupportedAlgorithm"
           /\ signature.algorithm # DISPATCH_SIGNATURE_ALGORITHM
        \/ /\ error = "Expired"
           /\ signature.expires_at <= c.now
        \/ /\ error = "UnknownKey"
           /\ key = {}
        \/ /\ error = "KeyRetired"
           /\ \E k \in key : RetirementRefuses(k.status, signature.signed_at, c.now)
        \/ /\ error = "MalformedSignature"
           /\ signature.signature_base64 = Malformed
        \/ /\ error = "InvalidSignature"
           /\ \E k \in key : ~Verifies(k, c.instruction)
        \/ /\ error = "ReplayDetected"
           /\ ReplayKey(dispatch) \in seen

Passes(c) == \A n \in DOMAIN CheckOrder : ~Fails(CheckOrder[n], c)

(* A call is answered with the first check that fails. *)
IsFirstFailure(n, c) ==
    /\ Fails(CheckOrder[n], c)
    /\ \A m \in 1..(n - 1) : ~Fails(CheckOrder[m], c)

-----------------------------------------------------------------------------
(* Actions *)

Init ==
    /\ issued = {}
    /\ net = {}
    /\ seen = {}
    /\ life = 1
    /\ accepted = <<>>
    /\ call = NoCall

(* Deviation: the expiry is taken for a lifetime. *)
SignedForLifetime(d, context) ==
    LET unsigned == [key_id |-> context.key_id, algorithm |-> DISPATCH_SIGNATURE_ALGORITHM,
                     signed_at |-> context.signed_at,
                     expires_at |-> context.signed_at + context.expires_at,
                     signature_base64 |-> Malformed]
    IN  [dispatch |-> d,
         signature |-> [unsigned EXCEPT !.signature_base64 =
             [by |-> context.signing_key, over |-> canonical_signing_payload(d, unsigned)]]]

(* The signature is filled in after the payload it covers is laid out. *)
SignedInstruction(d, context) ==
    LET unsigned == [key_id |-> context.key_id, algorithm |-> DISPATCH_SIGNATURE_ALGORITHM,
                     signed_at |-> context.signed_at, expires_at |-> context.expires_at,
                     signature_base64 |-> Malformed]
    IN  [dispatch |-> d,
         signature |-> [unsigned EXCEPT !.signature_base64 =
             [by |-> context.signing_key, over |-> canonical_signing_payload(d, unsigned)]]]

(* sign_dispatch_instruction: only the required fields are checked, neither *)
(* the protocol version nor the window nor that key_id names signing_key.   *)
sign_dispatch_instruction(d, context) ==
    /\ Cardinality(issued) < MaxIssued
    /\ ~MissingRequiredField(d)
    /\ issued' = issued \cup {SignedInstruction(d, context)}
    /\ net' = net \cup {SignedInstruction(d, context)}
    /\ call' = NoCall
    /\ UNCHANGED <<seen, life, accepted>>

(* The instruction sign_dispatch_instruction refuses is made nowhere. *)
sign_refused(d) ==
    /\ MissingRequiredField(d)
    /\ call' = NoCall
    /\ UNCHANGED <<issued, net, seen, life, accepted>>

(* What a fault of the transport can turn m into: one field other than what *)
(* was sent, or signature bytes cut short or taken from another message.    *)
Garbled(m) ==
    {[m EXCEPT !.dispatch = d] : d \in Dispatches}
      \cup {[m EXCEPT !.signature.key_id = k] : k \in KeyIds}
      \cup {[m EXCEPT !.signature.algorithm = a] : a \in Algorithms}
      \cup {[m EXCEPT !.signature.signed_at = t] : t \in Clock}
      \cup {[m EXCEPT !.signature.expires_at = t] : t \in Clock}
      \cup {[m EXCEPT !.signature.signature_base64 = b] :
               b \in {Malformed} \cup {o.signature.signature_base64 : o \in net}}

Garble(m) ==
    /\ Cardinality(net) < MaxNet
    /\ \E g \in Garbled(m) : net' = net \cup {g}
    /\ call' = NoCall
    /\ UNCHANGED <<issued, seen, life, accepted>>

(* Deviation: nothing is recorded. *)
AcceptUnrecorded(c) ==
    /\ Passes(c)
    /\ accepted' = Append(accepted, [dispatch |-> c.instruction.dispatch, life |-> life])
    /\ call' = [outcome |-> "Ok", arguments |-> c]
    /\ UNCHANGED <<issued, net, seen, life>>

(* verify_dispatch_instruction returns Ok: the replay key is recorded. *)
verify_accepts(c) ==
    /\ Passes(c)
    /\ seen' = seen \cup {ReplayKey(c.instruction.dispatch)}
    /\ accepted' = Append(accepted, [dispatch |-> c.instruction.dispatch, life |-> life])
    /\ call' = [outcome |-> "Ok", arguments |-> c]
    /\ UNCHANGED <<issued, net, life>>

(* Deviation: the replay key is recorded before the checks. *)
RefuseRecording(c) ==
    /\ \E n \in DOMAIN CheckOrder :
          /\ IsFirstFailure(n, c)
          /\ call' = [outcome |-> CheckOrder[n], arguments |-> c]
    /\ seen' = seen \cup {ReplayKey(c.instruction.dispatch)}
    /\ UNCHANGED <<issued, net, life, accepted>>

(* verify_dispatch_instruction returns an error and leaves the cache alone. *)
verify_refuses(c) ==
    /\ \E n \in DOMAIN CheckOrder :
          /\ IsFirstFailure(n, c)
          /\ call' = [outcome |-> CheckOrder[n], arguments |-> c]
    /\ UNCHANGED <<issued, net, seen, life, accepted>>

verify_dispatch_instruction(c) == verify_accepts(c) \/ verify_refuses(c)

(* The process ends and starts again with an empty in-memory cache. *)
Restart ==
    /\ life < MaxLives
    /\ seen' = {}
    /\ life' = life + 1
    /\ call' = NoCall
    /\ UNCHANGED <<issued, net, accepted>>

Arguments(m, registry, now, expected) ==
    [instruction |-> m, registry |-> registry, now |-> now, expected_runner_id |-> expected]

Next ==
    \/ \E d \in Dispatches, context \in SigningContexts : sign_dispatch_instruction(d, context)
    \/ \E d \in Dispatches : sign_refused(d)
    \/ \E m \in net : Garble(m)
    \/ \E m \in net, registry \in Registries, now \in Clock, expected \in RunnerIds :
          verify_dispatch_instruction(Arguments(m, registry, now, expected))
    \/ Restart

Spec == Init /\ [][Next]_vars

-----------------------------------------------------------------------------
(* Properties *)

(* Type invariant. *)
TypeOK ==
    /\ issued \subseteq SignedDispatchInstruction
    /\ net \subseteq SignedDispatchInstruction
    /\ seen \subseteq Seq(Chars \cup {":"})
    /\ life \in Nat
    /\ accepted \in Seq([dispatch : Dispatches, life : Nat])
    /\ call \in {NoCall} \cup [outcome : {"Ok"} \cup Errors, arguments : CallArguments]

Identity(d) == <<d.payload["runner_id"], d.payload["job_id"], d.payload["idempotency_key"]>>

AcceptedThisLife(id) ==
    \E n \in DOMAIN accepted : accepted[n].life = life /\ Identity(accepted[n].dispatch) = id

(* The registry's entry for the key that signed the call's instruction is  *)
(* active, or retired and the time and the signing time are in its window, *)
(* reckoned in integers without a limit.                                   *)
SignerInForce(c) ==
    LET s == c.instruction.signature
    IN  \E n \in DOMAIN c.registry :
          LET key == c.registry[n]
          IN  /\ key.key_id = s.key_id
              /\ \A m \in (n + 1)..Len(c.registry) : c.registry[m].key_id # s.key_id
              /\ s.signature_base64.by = key.verifying_key
              /\ key.status.kind = "Retired" =>
                    /\ c.now <= key.status.verify_until
                    /\ s.signed_at <= key.status.retired_at + key.status.allowed_clock_skew

(* The call is about an instruction exactly as a signer made it, by a key  *)
(* in force, for this runner, in a supported version and not expired.      *)
Genuine(c) ==
    /\ c.instruction \in issued
    /\ SignerInForce(c)
    /\ c.instruction.dispatch.payload["runner_id"] = c.expected_runner_id
    /\ c.instruction.dispatch.protocol_version \in SUPPORTED_PROTOCOL_VERSIONS
    /\ c.now < c.instruction.signature.expires_at

(* Whatever the transport did, a dispatch is accepted only as it was       *)
(* signed (lines 176-188), by a key in force, inside its window            *)
(* (lines 147-174): nothing that signers did not make gets through.        *)
AcceptedIsGenuine == call.outcome = "Ok" => Genuine(call.arguments)

(* Within one life of the replay cache no dispatch identity is accepted    *)
(* twice, whichever keys signed it, with whatever window, and however its  *)
(* copies are repeated and reordered (lines 190-194).                      *)
AtMostOncePerLife ==
    \A m, n \in DOMAIN accepted :
        /\ accepted[m].life = accepted[n].life
        /\ Identity(accepted[m].dispatch) = Identity(accepted[n].dispatch)
        => m = n

(* The cache holds the replay keys of what this life accepted and no       *)
(* other: a refused call, at whichever check, burns no key (line 194 is    *)
(* reached last) and a restart forgets them all.                           *)
CacheIsExact ==
    seen = {ReplayKey(accepted[n].dispatch) : n \in {n \in DOMAIN accepted : accepted[n].life = life}}

(* ReplayDetected is answered only for a genuine instruction whose         *)
(* identity this life accepted (lines 190-193): never for a garbled,       *)
(* expired or misdirected copy of one.  It needs identifiers without a     *)
(* colon, see MCDispatchAuthColon.                                         *)
ReplayAnswerIsTrue ==
    call.outcome = "ReplayDetected" =>
        /\ Genuine(call.arguments)
        /\ AcceptedThisLife(Identity(call.arguments.instruction.dispatch))

(* A genuine instruction whose identity this life has not accepted is      *)
(* accepted whenever it arrives in its window: neither earlier garbled     *)
(* copies, nor earlier refusals, nor a sum at the end of the clock         *)
(* (lines 164-174) lose it.                                                *)
GenuineIsAccepted ==
    [][/\ call'.outcome # "none"
       /\ Genuine(call'.arguments)
       /\ ~AcceptedThisLife(Identity(call'.arguments.instruction.dispatch))
       => call'.outcome = "Ok"]_vars

(* A dispatch whose signed_instruction says it is not yet valid is not     *)
(* accepted.  The code never reads not_before.                             *)
NotBeforeHonoured ==
    call.outcome = "Ok" =>
        \A s \in call.arguments.instruction.dispatch.signed_instruction :
            s.not_before <= call.arguments.now

-----------------------------------------------------------------------------
(* Implementation of DispatchGate: what is offered is what was signed. *)

Gate == INSTANCE DispatchGate WITH
    Offers <- Dispatches,
    Id <- [d \in Dispatches |-> Identity(d)],
    Addressee <- [d \in Dispatches |-> d.payload["runner_id"]],
    Runners <- RunnerIds,
    offered <- {i.dispatch : i \in issued},
    admitted <- accepted,
    era <- life

(* The boundary implements DispatchGate. *)
ImplementsGate == Gate!GateSpec
=============================================================================
