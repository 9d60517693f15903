-------------------------- MODULE DispatchAuthProofs --------------------------
(* Theorems about DispatchAuth, for every value of its constants. *)
EXTENDS DispatchAuth, TLAPS

USE DEF Clock

-----------------------------------------------------------------------------
(* Types *)

(* The elements of a sequence. *)
LEMMA ElementType ==
    ASSUME NEW S, NEW s \in Seq(S)
    PROVE  \A n \in DOMAIN s : s[n] \in S
OBVIOUS

(* A replay key is a string. *)
LEMMA ReplayKeyType ==
    ASSUME NEW d \in Dispatches
    PROVE  ReplayKey(d) \in Seq(Chars \cup {":"})
<1>1. d.payload \in [RequiredFields -> Seq(Chars)]
  BY InputsAssumption DEF Dispatch
<1>2. \A f \in RequiredFields : d.payload[f] \in Seq(Chars \cup {":"})
  BY <1>1
<1>3. /\ "runner_id" \in RequiredFields
      /\ "job_id" \in RequiredFields
      /\ "idempotency_key" \in RequiredFields
  BY DEF RequiredFields
<1>4. <<":">> \in Seq(Chars \cup {":"})
  OBVIOUS
<1> QED
  BY <1>2, <1>3, <1>4 DEF ReplayKey

(* What a signer makes is a signed instruction over the dispatch, whose    *)
(* bytes cover the rest of it.                                             *)
LEMMA SignedInstructionType ==
    ASSUME NEW d \in Dispatches, NEW context \in SigningContexts
    PROVE  LET i == SignedInstruction(d, context)
           IN  /\ i \in SignedDispatchInstruction
               /\ i.dispatch = d
               /\ i.signature.algorithm = DISPATCH_SIGNATURE_ALGORITHM
               /\ i.signature.signature_base64 # Malformed
               /\ i.signature.signature_base64 =
                     [by |-> context.signing_key,
                      over |-> canonical_signing_payload(i.dispatch, i.signature)]
<1> DEFINE i == SignedInstruction(d, context)
           over == [dispatch |-> d, algorithm |-> DISPATCH_SIGNATURE_ALGORITHM,
                    key_id |-> context.key_id, signed_at |-> context.signed_at,
                    expires_at |-> context.expires_at]
           bytes == [by |-> context.signing_key, over |-> over]
<1>1. i = [dispatch |-> d,
           signature |-> [key_id |-> context.key_id, algorithm |-> DISPATCH_SIGNATURE_ALGORITHM,
                          signed_at |-> context.signed_at, expires_at |-> context.expires_at,
                          signature_base64 |-> bytes]]
  BY DEF SignedInstruction, canonical_signing_payload
<1>2. context \in SigningContext
  BY InputsAssumption
<1>3. over \in CanonicalPayload
  BY <1>2, StringsAssumption DEF CanonicalPayload, SigningContext
<1>4. bytes \in SignatureBytes
  BY <1>2, <1>3 DEF SignatureBytes, SigningContext
<1>5. bytes # Malformed
  BY <1>2, <1>3, MalformedAssumption DEF SigningContext
<1>6. i \in SignedDispatchInstruction
  BY <1>1, <1>2, <1>4, StringsAssumption DEF SignedDispatchInstruction, SigningContext
<1>7. canonical_signing_payload(i.dispatch, i.signature) = over
  BY <1>1 DEF canonical_signing_payload
<1> QED
  BY <1>1, <1>5, <1>6, <1>7

(* A garbled instruction is still an instruction, and its bytes are those  *)
(* it had, those of another message, or malformed.                         *)
LEMMA GarbledType ==
    ASSUME NEW m \in SignedDispatchInstruction, net \subseteq SignedDispatchInstruction,
           NEW g \in Garbled(m)
    PROVE  /\ g \in SignedDispatchInstruction
           /\ g.signature.signature_base64 \in
                 {m.signature.signature_base64, Malformed}
                   \cup {o.signature.signature_base64 : o \in net}
<1> DEFINE Signature == [key_id : KeyIds, algorithm : Algorithms, signed_at : Clock,
                         expires_at : Clock, signature_base64 : SignatureBytes]
<1>1. /\ m.dispatch \in Dispatches
      /\ m.signature \in Signature
      /\ m = [dispatch |-> m.dispatch, signature |-> m.signature]
  BY DEF SignedDispatchInstruction
<1>2. CASE \E d \in Dispatches : g = [m EXCEPT !.dispatch = d]
  BY <1>1, <1>2 DEF SignedDispatchInstruction
<1>3. CASE \E k \in KeyIds : g = [m EXCEPT !.signature.key_id = k]
  BY <1>1, <1>3 DEF SignedDispatchInstruction
<1>4. CASE \E a \in Algorithms : g = [m EXCEPT !.signature.algorithm = a]
  BY <1>1, <1>4 DEF SignedDispatchInstruction
<1>5. CASE \E t \in Clock : g = [m EXCEPT !.signature.signed_at = t]
  BY <1>1, <1>5 DEF SignedDispatchInstruction
<1>6. CASE \E t \in Clock : g = [m EXCEPT !.signature.expires_at = t]
  BY <1>1, <1>6 DEF SignedDispatchInstruction
<1>7. CASE \E b \in {Malformed} \cup {o.signature.signature_base64 : o \in net} :
              g = [m EXCEPT !.signature.signature_base64 = b]
  <2>1. PICK b \in {Malformed} \cup {o.signature.signature_base64 : o \in net} :
              g = [m EXCEPT !.signature.signature_base64 = b]
    BY <1>7
  <2>2. b \in SignatureBytes
    BY DEF SignatureBytes, SignedDispatchInstruction
  <2> QED
    BY <1>1, <2>1, <2>2 DEF SignedDispatchInstruction
<1> QED
  BY <1>2, <1>3, <1>4, <1>5, <1>6, <1>7 DEF Garbled

(* A call on an instruction of the transport has arguments of their types. *)
LEMMA ArgumentsType ==
    ASSUME TypeOK, NEW m \in net, NEW registry \in Registries, NEW now \in Clock,
           NEW expected \in RunnerIds
    PROVE  Arguments(m, registry, now, expected) \in CallArguments
BY InputsAssumption DEF Arguments, CallArguments, TypeOK

(* A finished verification is a value the variable call may take. *)
LEMMA CallType ==
    ASSUME NEW outcome \in {"Ok"} \cup Errors, NEW c \in CallArguments
    PROVE  [outcome |-> outcome, arguments |-> c] \in
               {NoCall} \cup [outcome : {"Ok"} \cup Errors, arguments : CallArguments]
OBVIOUS

(* A runner that has just started has well-typed state. *)
LEMMA TypeInit == Init => TypeOK
<1> SUFFICES ASSUME Init PROVE TypeOK
  OBVIOUS
<1>1. accepted \in Seq([dispatch : Dispatches, life : Nat])
  BY DEF Init
<1> QED
  BY <1>1 DEF Init, TypeOK

(* Signing, verifying, a transport fault and a restart keep every variable in its
   type: the whole of verify_dispatch_instruction is one step. *)
LEMMA TypeStep == TypeOK /\ [Next]_vars => TypeOK'
<1> SUFFICES ASSUME TypeOK, [Next]_vars PROVE TypeOK'
  OBVIOUS
<1>1. ASSUME NEW d \in Dispatches, NEW context \in SigningContexts,
             sign_dispatch_instruction(d, context)
      PROVE  TypeOK'
  BY <1>1, SignedInstructionType DEF sign_dispatch_instruction, TypeOK
<1>2. ASSUME NEW d \in Dispatches, sign_refused(d) PROVE TypeOK'
  BY <1>2 DEF sign_refused, TypeOK
<1>3. ASSUME NEW m \in net, Garble(m) PROVE TypeOK'
  <2>1. PICK g \in Garbled(m) : net' = net \cup {g}
    BY <1>3 DEF Garble
  <2>2. g \in SignedDispatchInstruction
    BY <1>3, GarbledType DEF TypeOK
  <2> QED
    BY <1>3, <2>1, <2>2 DEF Garble, TypeOK
<1>4. ASSUME NEW m \in net, NEW registry \in Registries, NEW now \in Clock, NEW expected \in RunnerIds,
             verify_accepts(Arguments(m, registry, now, expected))
      PROVE  TypeOK'
  <2> DEFINE c == Arguments(m, registry, now, expected)
  <2>1. c \in CallArguments
    BY ArgumentsType
  <2>2. c.instruction.dispatch \in Dispatches
    BY <2>1 DEF CallArguments, SignedDispatchInstruction
  <2>3. seen' \subseteq Seq(Chars \cup {":"})
    BY <1>4, <2>2, ReplayKeyType DEF verify_accepts, TypeOK
  <2>4. accepted' \in Seq([dispatch : Dispatches, life : Nat])
    BY <1>4, <2>2 DEF verify_accepts, TypeOK
  <2>5. call' \in {NoCall} \cup [outcome : {"Ok"} \cup Errors, arguments : CallArguments]
    BY <1>4, <2>1, CallType DEF verify_accepts
  <2> QED
    BY <1>4, <2>3, <2>4, <2>5 DEF verify_accepts, TypeOK
<1>5. ASSUME NEW m \in net, NEW registry \in Registries, NEW now \in Clock, NEW expected \in RunnerIds,
             verify_refuses(Arguments(m, registry, now, expected))
      PROVE  TypeOK'
  <2> DEFINE c == Arguments(m, registry, now, expected)
  <2>1. c \in CallArguments
    BY ArgumentsType
  <2>2. PICK n \in DOMAIN CheckOrder : call' = [outcome |-> CheckOrder[n], arguments |-> c]
    BY <1>5 DEF verify_refuses
  <2>3. CheckOrder[n] \in {"Ok"} \cup Errors
    BY DEF Errors
  <2>4. call' \in {NoCall} \cup [outcome : {"Ok"} \cup Errors, arguments : CallArguments]
    BY <2>1, <2>2, <2>3, CallType
  <2> QED
    BY <1>5, <2>4 DEF verify_refuses, TypeOK
<1>6. CASE Restart
  BY <1>6 DEF Restart, TypeOK
<1>7. CASE UNCHANGED vars
  BY <1>7 DEF vars, TypeOK
<1> QED
  BY <1>1, <1>2, <1>3, <1>4, <1>5, <1>6, <1>7 DEF Next, verify_dispatch_instruction

(* Every variable keeps its type. *)
THEOREM TypeCorrect == Spec => []TypeOK
BY TypeInit, TypeStep, PTL DEF Spec

-----------------------------------------------------------------------------
(* The replay cache *)

(* The call gets past the nine checks that come before the replay cache.   *)
Authenticated(c) == \A n \in 1..9 : ~Fails(CheckOrder[n], c)

(* What a call that gets to the replay cache has shown. *)
LEMMA AuthenticatedMeans ==
    ASSUME NEW c, Authenticated(c)
    PROVE  LET dispatch == c.instruction.dispatch
               signature == c.instruction.signature
               key == RegistryGet(c.registry, signature.key_id)
           IN  /\ dispatch.protocol_version \in SUPPORTED_PROTOCOL_VERSIONS
               /\ ~MissingRequiredField(dispatch)
               /\ dispatch.payload["runner_id"] = c.expected_runner_id
               /\ signature.algorithm = DISPATCH_SIGNATURE_ALGORITHM
               /\ ~(signature.expires_at <= c.now)
               /\ key # {}
               /\ \A k \in key : ~RetirementRefuses(k.status, signature.signed_at, c.now)
               /\ signature.signature_base64 # Malformed
               /\ \A k \in key : Verifies(k, c.instruction)
<1>1. \A error \in {"UnsupportedProtocol", "MissingRequiredField", "ScopeMismatch",
                     "UnsupportedAlgorithm", "Expired", "UnknownKey", "KeyRetired",
                     "MalformedSignature", "InvalidSignature"} :
         ~Fails(error, c)
  <2> HIDE DEF Fails
  <2> QED BY DEF Authenticated, CheckOrder
<1> QED
  BY <1>1 DEF Fails

(* A call that passes gets past the replay cache too. *)
LEMMA PassesMeans ==
    ASSUME NEW c, Passes(c)
    PROVE  Authenticated(c) /\ ReplayKey(c.instruction.dispatch) \notin seen
<1>1. DOMAIN CheckOrder = 1..10 /\ CheckOrder[10] = "ReplayDetected"
  BY DEF CheckOrder
<1>2. Authenticated(c)
  BY <1>1 DEF Passes, Authenticated
<1>3. ~Fails("ReplayDetected", c)
  BY <1>1 DEF Passes
<1> QED
  BY <1>2, <1>3 DEF Fails

(* Dispatches of one identity have one replay key. *)
LEMMA IdentityGivesReplayKey ==
    ASSUME NEW d, NEW e, Identity(d) = Identity(e)
    PROVE  ReplayKey(d) = ReplayKey(e)
BY DEF Identity, ReplayKey

(* Nothing was accepted in a life still to come. *)
LivesArePast == \A n \in DOMAIN accepted : accepted[n].life <= life

CacheInv == TypeOK /\ LivesArePast /\ CacheIsExact /\ AtMostOncePerLife

(* At the start nothing is accepted and InMemoryDispatchReplayCache is empty. *)
LEMMA CacheInit == Init => CacheInv
<1> SUFFICES ASSUME Init PROVE CacheInv
  OBVIOUS
<1>1. accepted = <<>> /\ seen = {}
  BY DEF Init
<1> QED
  BY <1>1, TypeInit DEF CacheInv, LivesArePast, CacheIsExact, AtMostOncePerLife

(* Accepting appends to the history and records the key. *)
LEMMA CacheAccept ==
    ASSUME CacheInv, NEW c \in CallArguments, verify_accepts(c)
    PROVE  LivesArePast' /\ CacheIsExact' /\ AtMostOncePerLife'
<1> DEFINE d == c.instruction.dispatch
           entry == [dispatch |-> d, life |-> life]
           N == Len(accepted)
<1>1. /\ accepted \in Seq([dispatch : Dispatches, life : Nat])
      /\ life \in Nat
  BY DEF CacheInv, TypeOK
<1>2. d \in Dispatches
  BY DEF CallArguments, SignedDispatchInstruction
<1>3. /\ accepted' = Append(accepted, entry)
      /\ life' = life
      /\ seen' = seen \cup {ReplayKey(d)}
  BY DEF verify_accepts
<1>4. /\ N \in Nat
      /\ DOMAIN accepted = 1..N
      /\ DOMAIN accepted' = 1..(N + 1)
      /\ \A n \in 1..N : accepted'[n] = accepted[n]
      /\ accepted'[N + 1] = entry
  BY <1>1, <1>2, <1>3
<1>5. LivesArePast'
  BY <1>1, <1>3, <1>4 DEF CacheInv, LivesArePast
<1>6. CacheIsExact'
  BY <1>3, <1>4 DEF CacheInv, CacheIsExact
<1>7. AtMostOncePerLife'
  <2>1. \A n \in 1..N : accepted[n].life = life => Identity(accepted[n].dispatch) # Identity(d)
    <3>1. ReplayKey(d) \notin seen
      BY PassesMeans DEF verify_accepts
    <3> QED
      BY <1>4, <3>1, IdentityGivesReplayKey DEF CacheInv, CacheIsExact
  <2> QED
    BY <1>3, <1>4, <2>1 DEF CacheInv, AtMostOncePerLife
<1> QED
  BY <1>5, <1>6, <1>7

(* Only an accepting verification changes the cache or the acceptances, and it adds
   the same replay key to both, after looking it up; a restart clears the cache and
   begins a life without acceptances. *)
LEMMA CacheStep == CacheInv /\ [Next]_vars => CacheInv'
<1> SUFFICES ASSUME CacheInv, [Next]_vars PROVE CacheInv'
  OBVIOUS
<1>1. TypeOK'
  BY TypeStep DEF CacheInv
<1>2. ASSUME UNCHANGED <<seen, life, accepted>>
      PROVE  LivesArePast' /\ CacheIsExact' /\ AtMostOncePerLife'
  BY <1>2 DEF CacheInv, LivesArePast, CacheIsExact, AtMostOncePerLife
<1>3. ASSUME NEW m \in net, NEW registry \in Registries, NEW now \in Clock, NEW expected \in RunnerIds,
             verify_accepts(Arguments(m, registry, now, expected))
      PROVE  LivesArePast' /\ CacheIsExact' /\ AtMostOncePerLife'
  BY <1>3, ArgumentsType, CacheAccept DEF CacheInv
<1>4. ASSUME Restart
      PROVE  LivesArePast' /\ CacheIsExact' /\ AtMostOncePerLife'
  <2>1. /\ accepted' = accepted
        /\ life' = life + 1
        /\ seen' = {}
    BY <1>4 DEF Restart
  <2>2. life \in Nat /\ accepted \in Seq([dispatch : Dispatches, life : Nat])
    BY DEF CacheInv, TypeOK
  <2>3. \A n \in DOMAIN accepted : accepted[n].life <= life + 1 /\ accepted[n].life # life + 1
    <3>1. \A n \in DOMAIN accepted : accepted[n] \in [dispatch : Dispatches, life : Nat]
      BY <2>2, ElementType
    <3>2. \A n \in DOMAIN accepted : accepted[n].life \in Nat
      BY <3>1
    <3> QED
      BY <2>2, <3>2 DEF CacheInv, LivesArePast
  <2>4. LivesArePast'
    BY <2>1, <2>3 DEF LivesArePast
  <2>5. CacheIsExact'
    BY <2>1, <2>3 DEF CacheIsExact
  <2>6. AtMostOncePerLife'
    BY <2>1 DEF CacheInv, AtMostOncePerLife
  <2> QED
    BY <2>4, <2>5, <2>6
<1> QED
  BY <1>1, <1>2, <1>3, <1>4
  DEF CacheInv, Next, vars, sign_dispatch_instruction, sign_refused, Garble,
      verify_dispatch_instruction, verify_refuses

(* The cache holds exactly the replay keys accepted in this life: no       *)
(* refused call burns a key.                                               *)
THEOREM ExactCache == Spec => []CacheIsExact
<1>1. Spec => []CacheInv
  BY CacheInit, CacheStep, PTL DEF Spec
<1>2. CacheInv => CacheIsExact
  BY DEF CacheInv
<1> QED
  BY <1>1, <1>2, PTL

(* No identity is accepted twice in one life of the cache. *)
THEOREM OncePerLife == Spec => []AtMostOncePerLife
<1>1. Spec => []CacheInv
  BY CacheInit, CacheStep, PTL DEF Spec
<1>2. CacheInv => AtMostOncePerLife
  BY DEF CacheInv
<1> QED
  BY <1>1, <1>2, PTL

-----------------------------------------------------------------------------
(* Authenticity *)

(* Where the signature bytes on the transport come from: an instruction's  *)
(* bytes are malformed or those of an instruction a signer made, and what  *)
(* a signer made carries bytes over itself.                                *)
BytesAreSigned ==
    /\ \A i \in issued :
          /\ i.signature.signature_base64 # Malformed
          /\ i.signature.signature_base64.over = canonical_signing_payload(i.dispatch, i.signature)
          /\ i.signature.algorithm = DISPATCH_SIGNATURE_ALGORITHM
          /\ ~MissingRequiredField(i.dispatch)
    /\ \A m \in net :
          \/ m.signature.signature_base64 = Malformed
          \/ \E i \in issued : i.signature.signature_base64 = m.signature.signature_base64

AuthInv == TypeOK /\ BytesAreSigned /\ AcceptedIsGenuine

(* On times of the clock the saturating sum refuses what the exact sum     *)
(* refuses: saturation is never seen.                                      *)
LEMMA SaturationIsExact ==
    ASSUME NEW a \in Clock, NEW b \in Clock, NEW t \in Clock
    PROVE  t > SaturatingAdd(a, b) <=> t > a + b
BY ClockAssumption DEF SaturatingAdd

(* Bytes over a payload fix the instruction they came with. *)
LEMMA BytesFixInstruction ==
    ASSUME NEW i \in SignedDispatchInstruction, NEW m \in SignedDispatchInstruction,
           i.signature.signature_base64 = m.signature.signature_base64,
           canonical_signing_payload(i.dispatch, i.signature)
               = canonical_signing_payload(m.dispatch, m.signature)
    PROVE  i = m
<1>1. /\ i.dispatch = m.dispatch
      /\ i.signature.key_id = m.signature.key_id
      /\ i.signature.algorithm = m.signature.algorithm
      /\ i.signature.signed_at = m.signature.signed_at
      /\ i.signature.expires_at = m.signature.expires_at
  BY DEF canonical_signing_payload
<1>2. /\ i.signature \in [key_id : KeyIds, algorithm : Algorithms, signed_at : Clock,
                          expires_at : Clock, signature_base64 : SignatureBytes]
      /\ m.signature \in [key_id : KeyIds, algorithm : Algorithms, signed_at : Clock,
                          expires_at : Clock, signature_base64 : SignatureBytes]
      /\ i = [dispatch |-> i.dispatch, signature |-> i.signature]
      /\ m = [dispatch |-> m.dispatch, signature |-> m.signature]
  BY DEF SignedDispatchInstruction
<1>3. i.signature = m.signature
  BY <1>1, <1>2
<1> QED
  BY <1>1, <1>2, <1>3

(* A call that gets to the replay cache is about a genuine instruction.    *)
LEMMA AuthenticatedIsGenuine ==
    ASSUME TypeOK, BytesAreSigned, NEW m \in net, NEW registry \in Registries,
           NEW now \in Clock, NEW expected \in RunnerIds,
           Authenticated(Arguments(m, registry, now, expected))
    PROVE  Genuine(Arguments(m, registry, now, expected))
<1> DEFINE c == Arguments(m, registry, now, expected)
           s == m.signature
<1>1. /\ c.instruction = m
      /\ c.registry = registry
      /\ c.now = now
      /\ c.expected_runner_id = expected
  BY DEF Arguments
<1>2. /\ m \in SignedDispatchInstruction
      /\ s.signed_at \in Clock
      /\ s.expires_at \in Clock
      /\ registry \in Seq(VerificationKey)
  BY InputsAssumption DEF TypeOK, SignedDispatchInstruction
<1>3. /\ m.dispatch.protocol_version \in SUPPORTED_PROTOCOL_VERSIONS
      /\ m.dispatch.payload["runner_id"] = expected
      /\ ~(s.expires_at <= now)
      /\ RegistryGet(registry, s.key_id) # {}
      /\ \A k \in RegistryGet(registry, s.key_id) :
            ~RetirementRefuses(k.status, s.signed_at, now) /\ Verifies(k, m)
      /\ s.signature_base64 # Malformed
  BY <1>1, AuthenticatedMeans
<1>4. PICK n \in DOMAIN registry :
          /\ registry[n].key_id = s.key_id
          /\ \A l \in DOMAIN registry : registry[l].key_id = s.key_id => l <= n
  BY <1>3 DEF RegistryGet
<1> DEFINE key == registry[n]
<1>5. key \in RegistryGet(registry, s.key_id)
  BY <1>4 DEF RegistryGet
<1>6. key \in VerificationKey
  BY <1>2, ElementType
<1>7. /\ ~RetirementRefuses(key.status, s.signed_at, now)
      /\ s.signature_base64 = [by |-> key.verifying_key,
                              over |-> canonical_signing_payload(m.dispatch, s)]
  BY <1>3, <1>5 DEF Verifies
<1>8. m \in issued
  <2>1. PICK i \in issued : i.signature.signature_base64 = s.signature_base64
    BY <1>3 DEF BytesAreSigned
  <2>2. canonical_signing_payload(i.dispatch, i.signature) = canonical_signing_payload(m.dispatch, s)
    <3>1. i.signature.signature_base64.over = canonical_signing_payload(i.dispatch, i.signature)
      BY DEF BytesAreSigned
    <3>2. s.signature_base64.over = canonical_signing_payload(m.dispatch, s)
      BY <1>7
    <3> QED
      BY <2>1, <3>1, <3>2
  <2>3. i \in SignedDispatchInstruction
    BY DEF TypeOK
  <2> QED
    BY <1>2, <2>1, <2>2, <2>3, BytesFixInstruction
<1>9. SignerInForce(c)
  <2>1. \A l \in (n + 1)..Len(registry) : registry[l].key_id # s.key_id
    <3>1. DOMAIN registry = 1..Len(registry) /\ Len(registry) \in Nat
      BY <1>2
    <3> QED
      BY <1>4, <3>1
  <2>2. s.signature_base64.by = key.verifying_key
    BY <1>7
  <2>3. ASSUME key.status.kind = "Retired"
        PROVE  /\ now <= key.status.verify_until
               /\ s.signed_at <= key.status.retired_at + key.status.allowed_clock_skew
    <3>1. /\ key.status.retired_at \in Clock
          /\ key.status.verify_until \in Clock
          /\ key.status.allowed_clock_skew \in Clock
      BY <1>6, <2>3 DEF VerificationKey, KeyStatus
    <3>2. /\ ~(now > key.status.verify_until)
          /\ ~(s.signed_at > SaturatingAdd(key.status.retired_at, key.status.allowed_clock_skew))
      BY <1>7, <2>3 DEF RetirementRefuses
    <3>3. ~(s.signed_at > key.status.retired_at + key.status.allowed_clock_skew)
      BY <1>2, <3>1, <3>2, SaturationIsExact
    <3> QED
      BY <1>2, <3>1, <3>2, <3>3, ClockAssumption
  <2> QED
    BY <1>1, <1>4, <2>1, <2>2, <2>3 DEF SignerInForce
<1> QED
  BY <1>1, <1>2, <1>3, <1>8, <1>9, ClockAssumption DEF Genuine

(* At the start nothing is signed, delivered or accepted. *)
LEMMA AuthInit == Init => AuthInv
BY TypeInit DEF AuthInv, Init, BytesAreSigned, AcceptedIsGenuine, NoCall

(* Signing adds an instruction whose bytes cover it. *)
LEMMA BytesSign ==
    ASSUME BytesAreSigned, NEW d \in Dispatches, NEW context \in SigningContexts,
           sign_dispatch_instruction(d, context)
    PROVE  BytesAreSigned'
<1> DEFINE i == SignedInstruction(d, context)
<1>1. /\ issued' = issued \cup {i}
      /\ net' = net \cup {i}
      /\ ~MissingRequiredField(d)
  BY DEF sign_dispatch_instruction
<1>2. /\ i.dispatch = d
      /\ i.signature.algorithm = DISPATCH_SIGNATURE_ALGORITHM
      /\ i.signature.signature_base64 # Malformed
      /\ i.signature.signature_base64 =
            [by |-> context.signing_key,
             over |-> canonical_signing_payload(i.dispatch, i.signature)]
  BY SignedInstructionType
<1>3. i.signature.signature_base64.over = canonical_signing_payload(i.dispatch, i.signature)
  BY <1>2
<1> HIDE DEF i
<1> QED
  BY <1>1, <1>2, <1>3 DEF BytesAreSigned

(* Garbling adds an instruction with bytes that were there, or malformed. *)
LEMMA BytesGarble ==
    ASSUME TypeOK, BytesAreSigned, NEW m \in net, Garble(m)
    PROVE  BytesAreSigned'
<1>1. PICK g \in Garbled(m) : net' = net \cup {g}
  BY DEF Garble
<1>2. issued' = issued
  BY DEF Garble
<1>3. \/ g.signature.signature_base64 = Malformed
      \/ \E o \in net : g.signature.signature_base64 = o.signature.signature_base64
  BY GarbledType DEF TypeOK
<1> QED
  BY <1>1, <1>2, <1>3 DEF BytesAreSigned

(* Signed bytes stay the bytes of an issued instruction through faults, and a
   verification that accepts has seen such bytes verify. *)
LEMMA AuthStep == AuthInv /\ [Next]_vars => AuthInv'
<1> SUFFICES ASSUME AuthInv, [Next]_vars PROVE AuthInv'
  OBVIOUS
<1> USE DEF AuthInv
<1>1. TypeOK'
  BY TypeStep
<1>2. ASSUME NEW d \in Dispatches, NEW context \in SigningContexts,
             sign_dispatch_instruction(d, context)
      PROVE  BytesAreSigned' /\ AcceptedIsGenuine'
  BY <1>2, BytesSign DEF sign_dispatch_instruction, AcceptedIsGenuine, NoCall
<1>3. ASSUME NEW m \in net, Garble(m)
      PROVE  BytesAreSigned' /\ AcceptedIsGenuine'
  BY <1>3, BytesGarble DEF Garble, AcceptedIsGenuine, NoCall
<1>4. ASSUME NEW m \in net, NEW registry \in Registries, NEW now \in Clock, NEW expected \in RunnerIds,
             verify_accepts(Arguments(m, registry, now, expected))
      PROVE  BytesAreSigned' /\ AcceptedIsGenuine'
  <2>1. issued' = issued /\ net' = net
    BY <1>4 DEF verify_accepts
  <2>2. Genuine(Arguments(m, registry, now, expected))
    BY <1>4, PassesMeans, AuthenticatedIsGenuine DEF verify_accepts
  <2>3. call' = [outcome |-> "Ok", arguments |-> Arguments(m, registry, now, expected)]
    BY <1>4 DEF verify_accepts
  <2>4. AcceptedIsGenuine'
    BY <2>1, <2>2, <2>3 DEF Genuine, AcceptedIsGenuine
  <2> QED
    BY <2>1, <2>4 DEF BytesAreSigned
<1>5. ASSUME NEW c, verify_refuses(c)
      PROVE  BytesAreSigned' /\ AcceptedIsGenuine'
  BY <1>5 DEF verify_refuses, BytesAreSigned, AcceptedIsGenuine, CheckOrder
<1>6. ASSUME NEW d \in Dispatches, sign_refused(d)
      PROVE  BytesAreSigned' /\ AcceptedIsGenuine'
  BY <1>6 DEF sign_refused, BytesAreSigned, AcceptedIsGenuine, NoCall
<1>7. ASSUME Restart
      PROVE  BytesAreSigned' /\ AcceptedIsGenuine'
  BY <1>7 DEF Restart, BytesAreSigned, AcceptedIsGenuine, NoCall
<1>8. ASSUME UNCHANGED vars
      PROVE  BytesAreSigned' /\ AcceptedIsGenuine'
  BY <1>8 DEF vars, BytesAreSigned, AcceptedIsGenuine, Genuine, SignerInForce
<1> QED
  BY <1>1, <1>2, <1>3, <1>4, <1>5, <1>6, <1>7, <1>8 DEF Next, verify_dispatch_instruction

(* Only what signers made is accepted, as they made it, by a key in force, *)
(* for this runner and before its expiry.                                  *)
THEOREM Authenticity == Spec => []AcceptedIsGenuine
<1>1. Spec => []AuthInv
  BY AuthInit, AuthStep, PTL DEF Spec
<1>2. AuthInv => AcceptedIsGenuine
  BY DEF AuthInv
<1> QED
  BY <1>1, <1>2, PTL

-----------------------------------------------------------------------------
(* The boundary implements DispatchGate *)

GateInv == CacheInv /\ AuthInv

(* The initial state of the boundary is one of DispatchGate. *)
LEMMA GateInitial == Init => Gate!GateInit
BY DEF Init, Gate!GateInit

(* An accepted call is an admission of an offered dispatch. *)
LEMMA AcceptAdmits ==
    ASSUME GateInv, NEW m \in net, NEW registry \in Registries, NEW now \in Clock,
           NEW expected \in RunnerIds,
           verify_accepts(Arguments(m, registry, now, expected))
    PROVE  \E d \in Dispatches : Gate!Admit(d)
<1> DEFINE c == Arguments(m, registry, now, expected)
           d == m.dispatch
<1>1. c.instruction = m /\ c.expected_runner_id = expected
  BY DEF Arguments
<1>2. /\ d \in Dispatches
      /\ accepted \in Seq([dispatch : Dispatches, life : Nat])
  BY DEF GateInv, CacheInv, TypeOK, SignedDispatchInstruction
<1>3. m \in issued /\ d.payload["runner_id"] \in RunnerIds
  BY <1>1, PassesMeans, AuthenticatedIsGenuine DEF verify_accepts, GateInv, AuthInv, Genuine
<1>4. \A n \in DOMAIN accepted : accepted[n].dispatch \in Dispatches
  <2>1. \A n \in DOMAIN accepted : accepted[n] \in [dispatch : Dispatches, life : Nat]
    BY <1>2, ElementType
  <2> QED
    BY <2>1
<1>5. \A n \in DOMAIN accepted :
         accepted[n].life = life => Identity(accepted[n].dispatch) # Identity(d)
  <2>1. ReplayKey(d) \notin seen
    BY <1>1, PassesMeans DEF verify_accepts
  <2> QED
    BY <2>1, IdentityGivesReplayKey DEF GateInv, CacheInv, CacheIsExact
<1>6. ~Gate!AdmittedInEra(Identity(d))
  BY <1>4, <1>5 DEF Gate!AdmittedInEra
<1>7. /\ accepted' = Append(accepted, [dispatch |-> d, life |-> life])
      /\ issued' = issued
      /\ life' = life
  BY <1>1 DEF verify_accepts
<1> QED
  BY <1>2, <1>3, <1>6, <1>7 DEF Gate!Admit

(* Every step of the boundary is an offer, an admission or a restart of
   DispatchGate, or leaves what it sees unchanged. *)
LEMMA GateStep == GateInv /\ [Next]_vars => [Gate!GateNext]_(Gate!gateVars)
<1> SUFFICES ASSUME GateInv, [Next]_vars PROVE [Gate!GateNext]_(Gate!gateVars)
  OBVIOUS
<1>1. ASSUME NEW d \in Dispatches, NEW context \in SigningContexts,
             sign_dispatch_instruction(d, context)
      PROVE  Gate!Offer(d)
  <2>1. SignedInstruction(d, context).dispatch = d
    BY SignedInstructionType
  <2>2. issued' = issued \cup {SignedInstruction(d, context)} /\ UNCHANGED <<accepted, life>>
    BY <1>1 DEF sign_dispatch_instruction
  <2> QED
    BY <2>1, <2>2 DEF Gate!Offer
<1>2. ASSUME UNCHANGED <<issued, accepted, life>>
      PROVE  UNCHANGED Gate!gateVars
  BY <1>2 DEF Gate!gateVars
<1>3. ASSUME NEW m \in net, NEW registry \in Registries, NEW now \in Clock, NEW expected \in RunnerIds,
             verify_accepts(Arguments(m, registry, now, expected))
      PROVE  \E d \in Dispatches : Gate!Admit(d)
  BY <1>3, AcceptAdmits
<1>4. ASSUME Restart PROVE Gate!NewEra
  BY <1>4 DEF Restart, Gate!NewEra
<1> QED
  BY <1>1, <1>2, <1>3, <1>4
  DEF Next, Gate!GateNext, vars, sign_refused, Garble, verify_dispatch_instruction, verify_refuses

(* The detailed boundary, with its keys, clocks and garbling transport,    *)
(* implements the gate: every step is an offer, an admission, a new era or *)
(* no step of the gate.                                                    *)
THEOREM GateImplemented == Spec => ImplementsGate
<1>1. Spec => []GateInv
  BY CacheInit, CacheStep, AuthInit, AuthStep, PTL DEF Spec, GateInv
<1> QED
  BY <1>1, GateInitial, GateStep, PTL DEF Spec, ImplementsGate, Gate!GateSpec

-----------------------------------------------------------------------------
(* Completeness: what is genuine and fresh is accepted *)

NoColon(s) == \A n \in DOMAIN s : s[n] # ":"

(* The identifiers that make up the replay key hold no colon. *)
ColonFree ==
    \A d \in Dispatches :
        /\ NoColon(d.payload["runner_id"])
        /\ NoColon(d.payload["job_id"])
        /\ NoColon(d.payload["idempotency_key"])

Text == Seq(Chars \cup {":"})

Joined(a, b) == a \o <<":">> \o b
Joined3(a, b, c) == a \o <<":">> \o b \o <<":">> \o c

(* Two texts with the same colon-free part before a colon... *)
LEMMA ColonSplitsLength ==
    ASSUME NEW a \in Text, NEW b \in Text, NEW x \in Text, NEW y \in Text,
           NoColon(b), Joined(a, x) = Joined(b, y)
    PROVE  Len(b) <= Len(a)
<1> USE DEF Text, Joined
<1> DEFINE s == a \o <<":">> \o x
           t == b \o <<":">> \o y
<1>1. Len(a) \in Nat /\ Len(b) \in Nat
  OBVIOUS
<1>2. s[Len(a) + 1] = ":"
  OBVIOUS
<1>3. SUFFICES ASSUME Len(a) < Len(b) PROVE FALSE
  BY <1>1
<1>4. t[Len(a) + 1] = b[Len(a) + 1]
  BY <1>1, <1>3
<1>5. Len(a) + 1 \in DOMAIN b
  BY <1>1, <1>3
<1> QED
  BY <1>2, <1>4, <1>5 DEF NoColon

(* ... are the same text on both sides of it. *)
LEMMA ColonSplits ==
    ASSUME NEW a \in Text, NEW b \in Text, NEW x \in Text, NEW y \in Text,
           NoColon(a), NoColon(b), Joined(a, x) = Joined(b, y)
    PROVE  a = b /\ x = y
<1> USE DEF Text, Joined
<1> DEFINE s == a \o <<":">> \o x
           t == b \o <<":">> \o y
<1>1. Len(a) = Len(b)
  <2>1. Len(b) <= Len(a) /\ Len(a) <= Len(b)
    BY ColonSplitsLength
  <2> QED
    BY <2>1
<1>2. a = b
  <2>1. \A n \in 1..Len(a) : s[n] = a[n] /\ t[n] = b[n]
    BY <1>1
  <2> QED
    BY <1>1, <2>1
<1>3. x = y
  <2>1. Len(x) = Len(y)
    <3>1. Len(s) = Len(a) + 1 + Len(x) /\ Len(t) = Len(b) + 1 + Len(y)
      OBVIOUS
    <3> QED
      BY <1>1, <3>1
  <2>2. \A n \in 1..Len(x) : s[Len(a) + 1 + n] = x[n] /\ t[Len(a) + 1 + n] = y[n]
    BY <1>1, <2>1
  <2>3. \A n \in 1..Len(x) : x[n] = y[n]
    <3>1. s = t
      OBVIOUS
    <3> HIDE DEF s, t
    <3> QED
      BY <2>2, <3>1
  <2> QED
    BY <2>1, <2>3
<1> QED
  BY <1>2, <1>3

(* Identifiers are closed under the joining done by replay_key. *)
LEMMA TextConcat ==
    /\ \A a, b \in Text : a \o b \in Text
    /\ \A a, b, c \in Text : (a \o b) \o c = a \o (b \o c)
    /\ <<":">> \in Text
BY DEF Text

(* A join of three texts, grouped from the right. *)
LEMMA Regroup ==
    ASSUME NEW r \in Text, NEW j \in Text, NEW i \in Text
    PROVE  /\ Joined(j, i) \in Text
           /\ Joined3(r, j, i) = Joined(r, Joined(j, i))
<1> DEFINE c == <<":">>
<1>1. r \in Text /\ j \in Text /\ i \in Text /\ c \in Text
  BY TextConcat
<1> HIDE DEF c
<1>2. /\ r \o c \in Text
      /\ j \o c \in Text
      /\ c \o i \in Text
  BY <1>1, TextConcat, Zenon
<1>3. (r \o c) \o j \in Text /\ (j \o c) \o i \in Text
  BY <1>1, <1>2, TextConcat, Zenon
<1>4. (((r \o c) \o j) \o c) \o i = ((r \o c) \o j) \o (c \o i)
  BY <1>1, <1>3, TextConcat, ZenonT(40)
<1>5. ((r \o c) \o j) \o (c \o i) = (r \o c) \o (j \o (c \o i))
  BY <1>1, <1>2, TextConcat, ZenonT(40)
<1>6. j \o (c \o i) = (j \o c) \o i
  BY <1>1, TextConcat, Zenon
<1> QED
  BY <1>3, <1>4, <1>5, <1>6, Zenon DEF c, Joined, Joined3

(* Three texts, the first two without a colon, can be read off their join. *)
LEMMA JoinSplits ==
    ASSUME NEW r \in Text, NEW j \in Text, NEW i \in Text,
           NEW r2 \in Text, NEW j2 \in Text, NEW i2 \in Text,
           NoColon(r), NoColon(j), NoColon(r2), NoColon(j2),
           Joined3(r, j, i) = Joined3(r2, j2, i2)
    PROVE  r = r2 /\ j = j2 /\ i = i2
<1>1. /\ Joined(j, i) \in Text
      /\ Joined(j2, i2) \in Text
      /\ Joined(r, Joined(j, i)) = Joined(r2, Joined(j2, i2))
  BY Regroup
<1>2. r = r2 /\ Joined(j, i) = Joined(j2, i2)
  BY <1>1, ColonSplits
<1> QED
  BY <1>2, ColonSplits

(* Without colons the replay key names one identity. *)
LEMMA ReplayKeyGivesIdentity ==
    ASSUME ColonFree, NEW d \in Dispatches, NEW e \in Dispatches, ReplayKey(d) = ReplayKey(e)
    PROVE  Identity(d) = Identity(e)
<1>1. ASSUME NEW z \in Dispatches
      PROVE  /\ z.payload["runner_id"] \in Text
             /\ z.payload["job_id"] \in Text
             /\ z.payload["idempotency_key"] \in Text
  <2>1. z.payload \in [RequiredFields -> Seq(Chars)]
    BY InputsAssumption DEF Dispatch
  <2>2. /\ "runner_id" \in RequiredFields
        /\ "job_id" \in RequiredFields
        /\ "idempotency_key" \in RequiredFields
    BY DEF RequiredFields
  <2>3. \A f \in RequiredFields : z.payload[f] \in Text
    BY <2>1 DEF Text
  <2> QED
    BY <2>2, <2>3
<1>2. /\ NoColon(d.payload["runner_id"]) /\ NoColon(e.payload["runner_id"])
      /\ NoColon(d.payload["job_id"]) /\ NoColon(e.payload["job_id"])
  BY DEF ColonFree
<1>3. Joined3(d.payload["runner_id"], d.payload["job_id"], d.payload["idempotency_key"])
        = Joined3(e.payload["runner_id"], e.payload["job_id"], e.payload["idempotency_key"])
  BY DEF ReplayKey, Joined3
<1>4. /\ d.payload["runner_id"] = e.payload["runner_id"]
      /\ d.payload["job_id"] = e.payload["job_id"]
      /\ d.payload["idempotency_key"] = e.payload["idempotency_key"]
  BY <1>1, <1>2, <1>3, JoinSplits, SMTT(30)
<1> QED
  BY <1>4 DEF Identity

(* A call about a genuine instruction of a fresh identity passes. *)
LEMMA GenuinePasses ==
    ASSUME ColonFree, GateInv, NEW m \in net, NEW registry \in Registries,
           NEW now \in Clock, NEW expected \in RunnerIds,
           Genuine(Arguments(m, registry, now, expected)),
           ~AcceptedThisLife(Identity(m.dispatch))
    PROVE  Passes(Arguments(m, registry, now, expected))
<1> DEFINE c == Arguments(m, registry, now, expected)
           s == m.signature
<1>1. /\ c.instruction = m
      /\ c.registry = registry
      /\ c.now = now
      /\ c.expected_runner_id = expected
  BY DEF Arguments
<1>2. /\ TypeOK
      /\ m \in SignedDispatchInstruction
      /\ m.dispatch \in Dispatches
      /\ s.signed_at \in Clock
      /\ s.expires_at \in Clock
      /\ s.signature_base64 \in SignatureBytes
      /\ registry \in Seq(VerificationKey)
  BY InputsAssumption DEF GateInv, CacheInv, TypeOK, SignedDispatchInstruction
<1>3. /\ m \in issued
      /\ m.dispatch.payload["runner_id"] = expected
      /\ m.dispatch.protocol_version \in SUPPORTED_PROTOCOL_VERSIONS
      /\ now < s.expires_at
      /\ SignerInForce(c)
  BY <1>1 DEF Genuine
<1>4. /\ s.signature_base64 # Malformed
      /\ s.signature_base64.over = canonical_signing_payload(m.dispatch, s)
      /\ s.algorithm = DISPATCH_SIGNATURE_ALGORITHM
      /\ ~MissingRequiredField(m.dispatch)
  BY <1>3 DEF GateInv, AuthInv, BytesAreSigned
<1>5. PICK n \in DOMAIN registry :
          /\ registry[n].key_id = s.key_id
          /\ \A l \in (n + 1)..Len(registry) : registry[l].key_id # s.key_id
          /\ s.signature_base64.by = registry[n].verifying_key
          /\ registry[n].status.kind = "Retired" =>
                /\ now <= registry[n].status.verify_until
                /\ s.signed_at <= registry[n].status.retired_at + registry[n].status.allowed_clock_skew
  BY <1>1, <1>3 DEF SignerInForce
<1> DEFINE key == registry[n]
<1>6. RegistryGet(registry, s.key_id) = {key}
  <2>1. DOMAIN registry = 1..Len(registry) /\ Len(registry) \in Nat
    BY <1>2
  <2>2. \A l \in DOMAIN registry : registry[l].key_id = s.key_id => l <= n
    BY <1>5, <2>1
  <2>3. \A l \in DOMAIN registry :
           (/\ registry[l].key_id = s.key_id
            /\ \A k \in DOMAIN registry : registry[k].key_id = s.key_id => k <= l) <=> l = n
    <3>1. \A l \in DOMAIN registry : l <= n /\ n <= l => l = n
      BY <2>1
    <3> QED
      BY <1>5, <2>2, <3>1
  <2> QED
    BY <2>3 DEF RegistryGet
<1>7. ~RetirementRefuses(key.status, s.signed_at, now)
  <2>1. key \in VerificationKey
    BY <1>2, ElementType
  <2>2. ASSUME key.status.kind = "Retired"
        PROVE  /\ ~(now > key.status.verify_until)
               /\ ~(s.signed_at > SaturatingAdd(key.status.retired_at, key.status.allowed_clock_skew))
    <3>1. /\ key.status.retired_at \in Clock
          /\ key.status.verify_until \in Clock
          /\ key.status.allowed_clock_skew \in Clock
      BY <2>1, <2>2 DEF VerificationKey, KeyStatus
    <3>2. ~(s.signed_at > key.status.retired_at + key.status.allowed_clock_skew)
      BY <1>2, <1>5, <2>2, <3>1, ClockAssumption
    <3> QED
      BY <1>2, <1>5, <2>2, <3>1, <3>2, SaturationIsExact, ClockAssumption, SMTT(30)
  <2> QED
    BY <2>2 DEF RetirementRefuses
<1>8. Verifies(key, m)
  <2>1. s.signature_base64 \in [by : KeyPairs, over : CanonicalPayload]
    BY <1>2, <1>4 DEF SignatureBytes
  <2> QED
    BY <1>4, <1>5, <2>1 DEF Verifies
<1>9. ReplayKey(m.dispatch) \notin seen
  <2>1. SUFFICES ASSUME NEW k \in DOMAIN accepted, accepted[k].life = life,
                        ReplayKey(m.dispatch) = ReplayKey(accepted[k].dispatch)
                 PROVE  FALSE
    BY DEF GateInv, CacheInv, CacheIsExact
  <2>2. accepted[k] \in [dispatch : Dispatches, life : Nat]
    BY <1>2, ElementType DEF TypeOK
  <2>3. Identity(accepted[k].dispatch) = Identity(m.dispatch)
    BY <1>2, <2>1, <2>2, ReplayKeyGivesIdentity
  <2> QED
    BY <2>1, <2>3 DEF AcceptedThisLife
<1>10. ~(s.expires_at <= now)
  BY <1>2, <1>3, ClockAssumption
<1>11. \A error : ~Fails(error, c)
  BY <1>1, <1>3, <1>4, <1>6, <1>7, <1>8, <1>9, <1>10 DEF Fails
<1> QED
  BY <1>11 DEF Passes

(* Where identifiers hold no colon, whatever arrived before it, a genuine  *)
(* instruction of an identity not yet accepted in this life is accepted.   *)
THEOREM Completeness == ASSUME ColonFree PROVE Spec => GenuineIsAccepted
<1> DEFINE Delivered ==
        /\ call'.outcome # "none"
        /\ Genuine(call'.arguments)
        /\ ~AcceptedThisLife(Identity(call'.arguments.instruction.dispatch))
        => call'.outcome = "Ok"
<1>1. GateInv /\ [Next]_vars => [Delivered]_vars
  <2> SUFFICES ASSUME GateInv, [Next]_vars, ~UNCHANGED vars PROVE Delivered
    OBVIOUS
  <2>1. ASSUME call' = NoCall PROVE Delivered
    BY <2>1 DEF NoCall
  <2>2. ASSUME NEW m \in net, NEW registry \in Registries, NEW now \in Clock, NEW expected \in RunnerIds,
               verify_accepts(Arguments(m, registry, now, expected))
        PROVE  Delivered
    BY <2>2 DEF verify_accepts
  <2>3. ASSUME NEW m \in net, NEW registry \in Registries, NEW now \in Clock, NEW expected \in RunnerIds,
               verify_refuses(Arguments(m, registry, now, expected))
        PROVE  Delivered
    <3> DEFINE c == Arguments(m, registry, now, expected)
    <3>1. PICK n \in DOMAIN CheckOrder :
              /\ Fails(CheckOrder[n], c)
              /\ call' = [outcome |-> CheckOrder[n], arguments |-> c]
      BY <2>3 DEF verify_refuses, IsFirstFailure
    <3>2. ~Passes(c)
      BY <3>1 DEF Passes
    <3>3. call'.arguments = c /\ c.instruction = m
      BY <3>1 DEF Arguments
    <3> QED
      BY <3>2, <3>3, GenuinePasses
  <2> QED
    BY <2>1, <2>2, <2>3
    DEF Next, sign_dispatch_instruction, sign_refused, Garble, Restart, verify_dispatch_instruction
<1>2. Spec => []GateInv
  BY CacheInit, CacheStep, AuthInit, AuthStep, PTL DEF Spec, GateInv
<1> QED
  BY <1>1, <1>2, PTL DEF Spec, GenuineIsAccepted
-----------------------------------------------------------------------------
(* What the answer ReplayDetected means *)

(* A call is answered ReplayDetected by the last check alone: it got past  *)
(* all others, and its replay key is recorded.                             *)
LEMMA ReplayAnswerIsLast ==
    ASSUME NEW c, NEW n \in DOMAIN CheckOrder, IsFirstFailure(n, c),
           CheckOrder[n] = "ReplayDetected"
    PROVE  Authenticated(c) /\ ReplayKey(c.instruction.dispatch) \in seen
<1>1. n = 10
  BY DEF CheckOrder
<1>2. Authenticated(c)
  BY <1>1 DEF IsFirstFailure, Authenticated
<1>3. Fails("ReplayDetected", c)
  BY DEF IsFirstFailure
<1> QED
  BY <1>2, <1>3 DEF Fails

(* A recorded replay key is that of an identity this life accepted. *)
LEMMA SeenIsAccepted ==
    ASSUME ColonFree, CacheInv, NEW d \in Dispatches, ReplayKey(d) \in seen
    PROVE  AcceptedThisLife(Identity(d))
<1>1. PICK n \in DOMAIN accepted :
         accepted[n].life = life /\ ReplayKey(d) = ReplayKey(accepted[n].dispatch)
  BY DEF CacheInv, CacheIsExact
<1>2. accepted[n] \in [dispatch : Dispatches, life : Nat]
  BY ElementType DEF CacheInv, TypeOK
<1>3. Identity(accepted[n].dispatch) = Identity(d)
  BY <1>1, <1>2, ReplayKeyGivesIdentity
<1> QED
  BY <1>1, <1>3 DEF AcceptedThisLife

(* Where identifiers hold no colon, verify_dispatch_instruction answers    *)
(* ReplayDetected only for a genuine instruction of an identity that this  *)
(* life of the replay cache accepted: a sender that reads it as "already   *)
(* done" is right.                                                         *)
THEOREM ReplayAnswers == ASSUME ColonFree PROVE Spec => []ReplayAnswerIsTrue
<1>1. Spec => []GateInv
  BY CacheInit, CacheStep, AuthInit, AuthStep, PTL DEF Spec, GateInv
<1>2. Init => ReplayAnswerIsTrue
  BY DEF Init, NoCall, ReplayAnswerIsTrue
<1>3. GateInv /\ ReplayAnswerIsTrue /\ [Next]_vars => ReplayAnswerIsTrue'
  <2> SUFFICES ASSUME GateInv, ReplayAnswerIsTrue, [Next]_vars PROVE ReplayAnswerIsTrue'
    OBVIOUS
  <2>1. ASSUME call' = NoCall PROVE ReplayAnswerIsTrue'
    BY <2>1 DEF NoCall, ReplayAnswerIsTrue
  <2>2. ASSUME NEW c, verify_accepts(c) PROVE ReplayAnswerIsTrue'
    BY <2>2 DEF verify_accepts, ReplayAnswerIsTrue
  <2>3. ASSUME NEW m \in net, NEW registry \in Registries, NEW now \in Clock, NEW expected \in RunnerIds,
               verify_refuses(Arguments(m, registry, now, expected))
        PROVE  ReplayAnswerIsTrue'
    <3> DEFINE c == Arguments(m, registry, now, expected)
    <3>1. PICK n \in DOMAIN CheckOrder :
              /\ IsFirstFailure(n, c)
              /\ call' = [outcome |-> CheckOrder[n], arguments |-> c]
      BY <2>3 DEF verify_refuses
    <3>2. CASE CheckOrder[n] # "ReplayDetected"
      BY <3>1, <3>2 DEF ReplayAnswerIsTrue
    <3>3. CASE CheckOrder[n] = "ReplayDetected"
      <4>1. Authenticated(c) /\ ReplayKey(c.instruction.dispatch) \in seen
        BY <3>1, <3>3, ReplayAnswerIsLast
      <4>2. Genuine(c)
        BY <4>1, AuthenticatedIsGenuine DEF GateInv, AuthInv
      <4>3. c.instruction = m /\ m.dispatch \in Dispatches
        BY DEF Arguments, GateInv, CacheInv, TypeOK, SignedDispatchInstruction
      <4>4. AcceptedThisLife(Identity(m.dispatch))
        BY <4>1, <4>3, SeenIsAccepted DEF GateInv
      <4>5. UNCHANGED <<issued, accepted, life>>
        BY <2>3 DEF verify_refuses
      <4>6. call'.arguments = c
        BY <3>1
      <4> HIDE DEF c
      <4> QED
        BY <4>2, <4>3, <4>4, <4>5, <4>6 DEF ReplayAnswerIsTrue, Genuine, AcceptedThisLife
    <3> QED
      BY <3>2, <3>3
  <2>4. CASE UNCHANGED vars
    BY <2>4 DEF vars, ReplayAnswerIsTrue, Genuine, SignerInForce, AcceptedThisLife
  <2> QED
    BY <2>1, <2>2, <2>3, <2>4
    DEF Next, sign_dispatch_instruction, sign_refused, Garble, Restart, verify_dispatch_instruction
<1> QED
  BY <1>1, <1>2, <1>3, PTL DEF Spec
=============================================================================
