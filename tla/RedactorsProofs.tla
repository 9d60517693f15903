--------------------------- MODULE RedactorsProofs ---------------------------
(* Theorems about the redactors, for all alphabets, prefixes, chunks and   *)
(* JSON values: first chunks, then the trees JSON values are.              *)
EXTENDS Redactors, RedactionProofs

Sym == Char \cup {Marker}
Marked(t) == \E n \in DOMAIN t : t[n] = Marker
NoChunk == [line |-> <<>>, redacted |-> FALSE]

(* The flag tells the chunk from the one that was emitted. *)
FlagTells == chunk.redacted <=> (emitted.redacted \/ chunk.line # emitted.line)

(* What a scan has made so far is clean, and continues at a marker; if it  *)
(* has replaced something, this is the first redaction of the chunk.       *)
Scanning ==
    /\ cursor \in 1..(Len(text) + 1)
    /\ output \in Seq(Sym) /\ Clean(output)
    /\ output = <<>> \/ output[Len(output)] = Marker \/ Done
    /\ redacted => Marked(output) /\ chunk = emitted
    /\ ~redacted => (cursor = 1 /\ output = <<>>) \/ (Done /\ output = text)

(* A chunk is as it was emitted or clean. *)
ChunkInv ==
    /\ emitted \in [line : Seq(Char), redacted : BOOLEAN]
    /\ chunk \in [line : Seq(Sym), redacted : BOOLEAN]
    /\ redacted \in BOOLEAN
    /\ chunk = emitted \/ Clean(text)
    /\ FlagTells
    /\ returned => Clean(text)
    /\ ~returned => Scanning

(* The invariant: while there is no value the scan is that of a chunk;     *)
(* else there is none but that of a string.                                *)
RedactInv ==
    /\ returned => cursor \in Nat /\ Done
    /\ original = NoValue => ChunkInv /\ due = {} /\ at = {}
    /\ original # NoValue /\ returned => chunk = NoChunk /\ emitted = NoChunk

-----------------------------------------------------------------------------
(* The steps of the scan *)

(* The empty text is clean. *)
LEMMA EmptyIsClean == Clean(<<>>) /\ <<>> \in Seq(Char) /\ <<>> \in Seq(Sym)
BY DEF Clean

(* A text of characters has no marker. *)
LEMMA CharsAreUnmarked ==
    ASSUME NEW t \in Seq(Char)
    PROVE  ~Marked(t) /\ t \in Seq(Sym)
<1>1. \A n \in DOMAIN t : t[n] \in Char
  BY LenProperties, ElementOfSeq
<1>2. t \in Seq(Sym)
  <2> HIDE DEF Char
  <2> QED BY DEF Sym
<1> QED BY <1>1, <1>2, CharsAssumption DEF Marked

(* A turn that finds a secret keeps what is known of a chunk's scan. *)
LEMMA ReplaceKeeps ==
    ASSUME ChunkInv, ~returned, replace
    PROVE  ChunkInv'
<1>1. PICK start \in Find(text, cursor) :
         /\ output' = output \o SubSeq(text, cursor, start - 1) \o <<Marker>>
         /\ cursor' = RunEnd(text, start)
         /\ redacted' = TRUE
         /\ UNCHANGED <<emitted, chunk, calls, returned>>
  BY DEF replace
<1>2. PICK t, out, from : t = text /\ out = output /\ from = cursor
  OBVIOUS
<1>3. /\ t \in Seq(Sym) /\ out \in Seq(Sym) /\ Clean(out) /\ from \in 1..(Len(t) + 1)
      /\ out = <<>> \/ out[Len(out)] = Marker \/ from > Len(t)
  BY <1>2 DEF ChunkInv, Scanning, text, Done
<1>4. Len(t) \in Nat
  BY <1>3, LenProperties
<1>5. start \in from..Len(t) /\ IsSecret(t, start)
  BY <1>1, <1>2 DEF Find
<1>6. out = <<>> \/ out[Len(out)] = Marker
  BY <1>3, <1>4, <1>5
<1>7. chunk = emitted
  <2>1. start \in DOMAIN t
    BY <1>3, <1>4, <1>5, LenProperties
  <2>2. ~Clean(t)
    BY <1>5, <2>1 DEF Clean
  <2> QED BY <1>2, <2>2 DEF ChunkInv
<1>8. PICK new, end : new = output' /\ end = cursor'
  OBVIOUS
<1>9. start \in Find(t, from) /\ new = out \o SubSeq(t, from, start - 1) \o <<Marker>>
      /\ end = RunEnd(t, start) /\ Marker \in Sym
  BY <1>1, <1>2, <1>8 DEF Sym
<1>10. /\ new \in Seq(Sym) /\ Clean(new)
       /\ Len(new) \in DOMAIN new /\ new[Len(new)] = Marker
       /\ end \in 1..(Len(t) + 1)
  <2>1. BeforeTurn(Sym, t, out, from)
    BY <1>3, <1>6 DEF BeforeTurn
  <2> QED BY <1>9, <2>1, ReplaceIsClean, Zenon
<1>11. text' = text /\ chunk' = chunk /\ emitted' = emitted /\ returned' = returned
       /\ redacted' = TRUE
  BY <1>1 DEF text
<1>12. Scanning'
  <2>1. cursor' \in 1..(Len(text') + 1)
    BY <1>2, <1>8, <1>10, <1>11
  <2>2. output' \in Seq(Sym) /\ Clean(output') /\ output'[Len(output')] = Marker
    BY <1>8, <1>10
  <2>3. Marked(output')
    BY <1>8, <1>10 DEF Marked
  <2> QED BY <1>7, <1>11, <2>1, <2>2, <2>3 DEF Scanning
<1> QED BY <1>11, <1>12 DEF ChunkInv, FlagTells

(* So does the last turn. *)
LEMMA CopyKeeps ==
    ASSUME ChunkInv, ~returned, copy_rest
    PROVE  ChunkInv' /\ Done'
<1>1. /\ cursor <= Len(text)
      /\ Find(text, cursor) = {}
      /\ output' = output \o SubSeq(text, cursor, Len(text))
      /\ cursor' = Len(text) + 1
      /\ UNCHANGED <<emitted, chunk, calls, returned, redacted>>
  BY DEF copy_rest
<1>2. PICK t, out, from : t = text /\ out = output /\ from = cursor
  OBVIOUS
<1>3. /\ t \in Seq(Sym) /\ out \in Seq(Sym) /\ Clean(out) /\ from \in 1..(Len(t) + 1)
      /\ out = <<>> \/ out[Len(out)] = Marker \/ from > Len(t)
      /\ ~redacted => (from = 1 /\ out = <<>>) \/ from > Len(t)
  BY <1>2 DEF ChunkInv, Scanning, text, Done
<1>4. Len(t) \in Nat
  BY <1>3, LenProperties
<1>5. BeforeTurn(Sym, t, out, from)
  BY <1>1, <1>2, <1>3, <1>4 DEF BeforeTurn
<1>6. PICK new : new = output'
  OBVIOUS
<1>7. from <= Len(t) /\ Find(t, from) = {} /\ new = out \o SubSeq(t, from, Len(t))
  BY <1>1, <1>2, <1>6
<1>8. new \in Seq(Sym) /\ Clean(new)
  BY <1>5, <1>7, CopyIsClean, Zenon
<1>9. text' = text /\ chunk' = chunk /\ emitted' = emitted /\ returned' = returned
      /\ redacted' = redacted /\ cursor' = Len(t) + 1
  BY <1>1, <1>2 DEF text
<1>10. Done'
  BY <1>2, <1>4, <1>9 DEF Done
<1>11. ASSUME ~redacted PROVE new = t
  <2>1. from = 1 /\ out = <<>>
    BY <1>3, <1>4, <1>7, <1>11
  <2>2. SubSeq(t, 1, Len(t)) = t
    BY <1>3, SubSeqFull
  <2>3. <<>> \o t = t
    BY <1>3, ConcatEmptySeq
  <2> QED BY <1>7, <2>1, <2>2, <2>3
<1>12. ASSUME redacted PROVE Marked(new)
  <2>1. PICK n \in DOMAIN out : out[n] = Marker
    BY <1>2, <1>12 DEF ChunkInv, Scanning, Marked
  <2>2. PICK rest : rest = SubSeq(t, from, Len(t)) /\ rest \in Seq(Sym)
    <3>1. from \in Int /\ Len(t) \in Int /\ \A i \in from..Len(t) : t[i] \in Sym
      BY <1>3, <1>4, ElementOfSeq
    <3> QED BY <3>1, SubSeqProperties, Zenon
  <2>3. new = out \o rest
    BY <1>7, <2>2
  <2>4. /\ DOMAIN out = 1..Len(out) /\ Len(out) \in Nat /\ Len(rest) \in Nat
        /\ DOMAIN new = 1..Len(new)
    BY <1>3, <1>8, <2>2, LenProperties
  <2>5. /\ Len(new) = Len(out) + Len(rest)
        /\ \A i \in 1..(Len(out) + Len(rest)) :
              new[i] = IF i <= Len(out) THEN out[i] ELSE rest[i - Len(out)]
    BY <1>3, <2>2, <2>3, ConcatProperties, Zenon
  <2>6. n \in 1..(Len(out) + Len(rest)) /\ n <= Len(out)
    BY <2>4
  <2>7. new[n] = Marker /\ n \in DOMAIN new
    BY <2>1, <2>4, <2>5, <2>6
  <2> QED BY <2>7 DEF Marked
<1>13. Scanning'
  <2>1. cursor' \in 1..(Len(text') + 1)
    BY <1>2, <1>4, <1>9
  <2>2. output' \in Seq(Sym) /\ Clean(output')
    BY <1>6, <1>8
  <2>3. redacted' => Marked(output') /\ chunk' = emitted'
    BY <1>6, <1>9, <1>12 DEF ChunkInv, Scanning
  <2>4. ~redacted' => output' = text'
    BY <1>2, <1>6, <1>9, <1>11
  <2> QED BY <1>10, <2>1, <2>2, <2>3, <2>4 DEF Scanning
<1> QED BY <1>9, <1>10, <1>13 DEF ChunkInv, FlagTells

(* The redacted chunk is clean, and its flag tells it from the emitted one.*)
LEMMA ReturnKeeps ==
    ASSUME ChunkInv, redact_log_chunk
    PROVE  ChunkInv' /\ cursor' \in Nat /\ Done'
<1>1. /\ Done /\ ~returned
      /\ chunk' = [line |-> output, redacted |-> chunk.redacted \/ redacted]
      /\ returned' = TRUE /\ cursor' = Len(output) + 1
      /\ UNCHANGED <<emitted, calls, output, redacted>>
  BY DEF redact_log_chunk
<1>2. /\ output \in Seq(Sym) /\ Clean(output)
      /\ redacted => Marked(output) /\ chunk = emitted
      /\ ~redacted => (cursor = 1 /\ output = <<>>) \/ output = text
  BY <1>1 DEF ChunkInv, Scanning
<1>3. text \in Seq(Sym) /\ Len(text) \in Nat /\ Len(output) \in Nat
  BY <1>2, LenProperties DEF ChunkInv, text
<1>4. text' = output /\ chunk'.line = output /\ chunk'.redacted = (chunk.redacted \/ redacted)
  BY <1>1 DEF text
<1>5. ~redacted => output = text
  <2>1. ASSUME cursor = 1, output = <<>> PROVE output = text
    <3>1. Len(text) = 0
      BY <1>1, <1>3, <2>1 DEF Done
    <3> QED BY <1>3, <2>1, <3>1
  <2> QED BY <1>2, <2>1
<1>6. FlagTells'
  <2>1. CASE redacted
    <3>1. output # emitted.line
      BY <1>2, <2>1, CharsAreUnmarked DEF ChunkInv
    <3> QED BY <1>1, <1>4, <2>1, <3>1 DEF FlagTells
  <2>2. CASE ~redacted
    <3>1. chunk'.line = chunk.line /\ chunk'.redacted = chunk.redacted
      BY <1>4, <1>5, <2>2 DEF text, ChunkInv
    <3> QED BY <1>1, <3>1 DEF FlagTells, ChunkInv
  <2> QED BY <2>1, <2>2
<1>7. chunk' \in [line : Seq(Sym), redacted : BOOLEAN]
  BY <1>1, <1>2 DEF ChunkInv
<1>8. Clean(text')
  BY <1>2, <1>4
<1>9. cursor' \in Nat /\ Done'
  BY <1>1, <1>3, <1>4 DEF Done
<1> QED BY <1>1, <1>6, <1>7, <1>8, <1>9 DEF ChunkInv

(* A redaction that begins has made nothing yet. *)
LEMMA CallKeeps ==
    ASSUME ChunkInv, returned, StartOfScan, returned' = FALSE, UNCHANGED <<emitted, chunk>>
    PROVE  ChunkInv'
<1>1. cursor' = 1 /\ output' = <<>> /\ redacted' = FALSE
  BY DEF StartOfScan
<1>2. text' = text /\ text \in Seq(Sym) /\ Len(text) \in Nat
  BY LenProperties DEF text, ChunkInv
<1>3. Scanning'
  BY <1>1, <1>2, EmptyIsClean DEF Scanning
<1> QED BY <1>1, <1>2, <1>3 DEF ChunkInv, FlagTells

-----------------------------------------------------------------------------
(* The invariant *)

(* A snapshot is an object, so that there is a value. *)
LEMMA SnapshotIsAValue ==
    ASSUME NEW c, NEW o
    PROVE  Snapshot(c, o) # NoValue
<1>1. ASSUME NEW f PROVE Join(Object, f)[<<>>] = Object
  BY DEF Join
<1>2. PICK f : Snapshot(c, o) = Join(Object, f)
  BY DEF Snapshot
<1>3. NoValue[<<>>] = [kind |-> "no value"]
  BY DEF NoValue, Leaf
<1>4. Object # [kind |-> "no value"]
  BY DEF Object
<1> QED BY <1>1, <1>2, <1>3, <1>4

(* It holds of a chunk that was emitted and of a value no one redacted.    *)
LEMMA RedactInit == Init => RedactInv
<1> SUFFICES ASSUME Init PROVE RedactInv OBVIOUS
<1>1. due = {} /\ at = {}
  BY DEF Init
<1>2. CASE EmitChunk /\ original = NoValue
  <2>1. /\ emitted \in [line : Texts, redacted : BOOLEAN] /\ chunk = emitted
        /\ returned = FALSE /\ cursor = 1 /\ output = <<>> /\ redacted = FALSE
    BY <1>2 DEF EmitChunk
  <2>2. emitted.line \in Seq(Char)
    BY <2>1, TextsAssumption
  <2>3. emitted \in [line : Seq(Char), redacted : BOOLEAN]
    <3>1. Texts \subseteq Seq(Char)
      BY TextsAssumption
    <3> HIDE DEF Char
    <3> QED BY <2>1, <3>1
  <2>4. text \in Seq(Sym)
    BY <2>1, <2>2, CharsAreUnmarked DEF text
  <2>5. chunk \in [line : Seq(Sym), redacted : BOOLEAN]
    <3> HIDE DEF Sym, Char
    <3> QED BY <2>1, <2>4 DEF text
  <2>6. Len(text) \in Nat
    BY <2>4, LenProperties
  <2>7. Scanning
    BY <2>1, <2>6, EmptyIsClean DEF Scanning
  <2>8. ChunkInv
    BY <2>1, <2>3, <2>5, <2>7 DEF ChunkInv, FlagTells
  <2> QED BY <1>1, <1>2, <2>1, <2>8 DEF RedactInv
<1>3. CASE NoScan
  <2>1. /\ emitted = NoChunk /\ chunk = NoChunk /\ returned = TRUE /\ cursor = 1
        /\ redacted = FALSE
    BY <1>3 DEF NoScan, NoChunk
  <2>2. text = <<>>
    BY <2>1 DEF text, NoChunk
  <2>3. Done
    BY <2>1, <2>2 DEF Done
  <2>4. /\ NoChunk \in [line : Seq(Char), redacted : BOOLEAN]
        /\ NoChunk \in [line : Seq(Sym), redacted : BOOLEAN]
    BY EmptyIsClean DEF NoChunk
  <2>5. ChunkInv
    BY <2>1, <2>2, <2>4, EmptyIsClean DEF ChunkInv, FlagTells
  <2> QED BY <1>1, <2>1, <2>3, <2>5 DEF RedactInv
<1> QED BY <1>2, <1>3 DEF Init

(* What leaves the chunk and its scan alone keeps what is known of them.   *)
LEMMA ChunkInvStays ==
    ASSUME ChunkInv, UNCHANGED scanVars
    PROVE  ChunkInv'
BY DEF ChunkInv, FlagTells, Scanning, Marked, Done, text, scanVars, scan

(* When a scan is over no turn of it is taken. *)
LEMMA NoTurnAtRest ==
    ASSUME RedactInv, returned
    PROVE  ~replace /\ ~copy_rest
<1>1. cursor \in Nat /\ cursor > Len(text) /\ Len(text) \in Nat
  <2>1. CASE original = NoValue
    BY <2>1, LenProperties DEF RedactInv, Done, ChunkInv, text
  <2>2. CASE original # NoValue
    <3>1. text = <<>> /\ cursor \in Nat /\ cursor > Len(text)
      BY <2>2 DEF RedactInv, NoChunk, text, Done
    <3> QED BY <3>1
  <2> QED BY <2>1, <2>2
<1>2. ASSUME replace PROVE FALSE
  <2>1. PICK start \in cursor..Len(text) : TRUE
    BY <1>2 DEF replace, Find
  <2> QED BY <1>1, <2>1
<1>3. ASSUME copy_rest PROVE FALSE
  <2>1. cursor <= Len(text)
    BY <1>3, Zenon DEF copy_rest
  <2> QED BY <1>1, <2>1
<1> QED BY <1>2, <1>3, Zenon

(* A turn of the scan keeps the invariant. *)
LEMMA TurnKeeps ==
    ASSUME RedactInv, Turn
    PROVE  RedactInv'
<1>1. UNCHANGED treeVars /\ UNCHANGED returned /\ (replace \/ copy_rest)
  BY DEF Turn, replace, copy_rest
<1>2. UNCHANGED <<original, due, at>>
  BY <1>1 DEF treeVars
<1>3. ~returned
  BY <1>1, NoTurnAtRest
<1>4. CASE original # NoValue
  BY <1>1, <1>2, <1>3, <1>4 DEF RedactInv
<1>5. CASE original = NoValue
  <2>1. ChunkInv'
    BY <1>1, <1>3, <1>5, ReplaceKeeps, CopyKeeps DEF RedactInv
  <2> QED BY <1>1, <1>2, <1>3, <1>5, <2>1 DEF RedactInv
<1> QED BY <1>4, <1>5

(* Every step keeps it. *)
LEMMA RedactStep == RedactInv /\ [Next]_vars => RedactInv'
<1> SUFFICES ASSUME RedactInv, [Next]_vars PROVE RedactInv' OBVIOUS
<1>1. ASSUME UNCHANGED scanVars, UNCHANGED <<original, due, at>> PROVE RedactInv'
  <2>1. UNCHANGED <<emitted, chunk, returned, cursor>>
    BY <1>1 DEF scanVars, scan
  <2>2. original = NoValue => ChunkInv'
    BY <1>1, ChunkInvStays DEF RedactInv
  <2> QED BY <1>1, <2>1, <2>2 DEF RedactInv, Done, text
<1>2. ASSUME UNCHANGED scanVars, original # NoValue, original' # NoValue PROVE RedactInv'
  <2>1. UNCHANGED <<emitted, chunk, returned, cursor>>
    BY <1>2 DEF scanVars, scan
  <2> QED BY <1>2, <2>1 DEF RedactInv, Done, text
<1>3. CASE Turn
  BY <1>3, TurnKeeps
<1>4. CASE ChunkReturns
  <2>1. original = NoValue /\ redact_log_chunk /\ UNCHANGED <<original, due, at>>
    BY <1>4 DEF ChunkReturns, treeVars
  <2>2. ChunkInv' /\ cursor' \in Nat /\ Done'
    BY <2>1, ReturnKeeps DEF RedactInv
  <2> QED BY <2>1, <2>2 DEF RedactInv
<1>5. CASE ChunkAgain
  <2>1. original = NoValue /\ call_again /\ UNCHANGED <<original, due, at>>
    BY <1>5 DEF ChunkAgain, treeVars
  <2>2. ChunkInv' /\ returned' = FALSE
    BY <2>1, CallKeeps DEF RedactInv, call_again
  <2> QED BY <2>1, <2>2 DEF RedactInv
<1>6. ASSUME NEW redactor \in {"redact_json_value", "redact_sensitive_values"}, redact(redactor)
      PROVE  RedactInv'
  BY <1>2, <1>6 DEF redact
<1>7. ASSUME NEW c \in Configs, NEW o \in Options, operator_diagnostics(c, o) PROVE RedactInv'
  BY <1>2, <1>7, SnapshotIsAValue DEF operator_diagnostics
<1>8. ASSUME NEW p \in due, redact_json_value(p) PROVE RedactInv'
  <2>1. original # NoValue /\ original' = original
    BY <1>8 DEF RedactInv, redact_json_value
  <2>2. CASE value[p].kind = "string"
    <3>1. returned' = FALSE
      BY <1>8, <2>2 DEF redact_json_value
    <3> QED BY <2>1, <3>1 DEF RedactInv
  <2>3. CASE value[p].kind # "string"
    BY <1>2, <1>8, <2>1, <2>3 DEF redact_json_value
  <2> QED BY <2>2, <2>3
<1>9. ASSUME NEW p \in due, redact_sensitive_values(p) PROVE RedactInv'
  <2>1. original # NoValue /\ original' = original
    BY <1>9 DEF RedactInv, redact_sensitive_values
  <2> QED BY <1>2, <1>9, <2>1 DEF redact_sensitive_values
<1>10. ASSUME NEW p \in at, string_returns(p) PROVE RedactInv'
  <2>1. original # NoValue /\ original' = original
    BY <1>10 DEF RedactInv, string_returns
  <2>2. emitted' = NoChunk /\ chunk' = NoChunk /\ cursor' = 1
    BY <1>10 DEF string_returns, StartOfScan, NoChunk
  <2>3. cursor' \in Nat /\ Done'
    BY <2>2 DEF Done, text, NoChunk
  <2> QED BY <2>1, <2>2, <2>3 DEF RedactInv
<1>11. CASE UNCHANGED vars
  BY <1>1, <1>11 DEF vars, treeVars
<1> QED
  BY <1>3, <1>4, <1>5, <1>6, <1>7, <1>8, <1>9, <1>10, <1>11 DEF Next, Work

(* The invariant holds of every behaviour. *)
LEMMA RedactAlways == Spec => []RedactInv
BY RedactInit, RedactStep, PTL DEF Spec

-----------------------------------------------------------------------------
(* Exactly the secrets *)

(* A chunk's line is the emitted one or already redacted, and what a scan  *)
(* of it has made so far is what Redacted makes of the text before cursor. *)
ChunkExact ==
    /\ text = emitted.line \/ text = Redacted(emitted.line)
    /\ returned => text = Redacted(emitted.line)
    /\ ~returned => InTurn(Sym, text, output, cursor)

ExactInv == original = NoValue => ChunkExact

(* At the beginning of a scan nothing is made. *)
LEMMA StartIsExact ==
    ASSUME NEW S, Marker \in S, NEW t \in Seq(S), NEW out, NEW from, out = <<>>, from = 1
    PROVE  InTurn(S, t, out, from)
<1>1. Len(t) \in Nat
  BY LenProperties
<1>2. UpTo(t)[0] = <<>>
  BY <1>1, UpToIs, Zenon
<1>3. from \in 1..(Len(t) + 1) /\ from - 1 = 0
  BY <1>1
<1> QED BY <1>2, <1>3, Zenon DEF InTurn, Boundary

(* A chunk that was emitted is as it was emitted; no chunk is empty. *)
LEMMA ExactInit == Init => ExactInv
<1> SUFFICES ASSUME Init, original = NoValue PROVE ChunkExact
  BY DEF ExactInv
<1>1. RedactInv
  BY RedactInit
<1>2. text \in Seq(Sym)
  BY <1>1 DEF RedactInv, ChunkInv, text
<1>3. CASE EmitChunk
  <2>1. /\ text = emitted.line /\ returned = FALSE /\ cursor = 1 /\ output = <<>>
    BY <1>3 DEF EmitChunk, text
  <2> QED BY <1>2, <2>1, StartIsExact DEF ChunkExact, Sym
<1>4. CASE NoScan
  <2>1. text = <<>> /\ emitted.line = <<>> /\ returned = TRUE
    BY <1>4 DEF NoScan, text
  <2>2. Redacted(<<>>) = <<>>
    BY EmptyIsClean, CleanIsKept DEF Sym
  <2> QED BY <2>1, <2>2 DEF ChunkExact
<1> QED BY <1>3, <1>4 DEF Init

(* A turn does as Redacted does. *)
LEMMA TurnFollows ==
    ASSUME NEW S, Marker \in S, InTurn(S, text, output, cursor), replace \/ copy_rest
    PROVE  InTurn(S, text, output', cursor')
<1>1. PICK t, out, from : t = text /\ out = output /\ from = cursor
  OBVIOUS
<1>2. PICK new, end : new = output' /\ end = cursor'
  OBVIOUS
<1>3. InTurn(S, t, out, from)
  BY <1>1
<1>4. CASE replace
  <2>1. PICK start \in Find(t, from) :
           new = out \o SubSeq(t, from, start - 1) \o <<Marker>> /\ end = RunEnd(t, start)
    BY <1>1, <1>2, <1>4 DEF replace
  <2>2. InTurn(S, t, new, end)
    BY <1>3, <2>1, ReplaceFollows, Zenon
  <2> QED BY <1>1, <1>2, <2>2
<1>5. CASE copy_rest
  <2>1. /\ from <= Len(t) /\ Find(t, from) = {}
        /\ new = out \o SubSeq(t, from, Len(t)) /\ end = Len(t) + 1
    BY <1>1, <1>2, <1>5 DEF copy_rest
  <2>2. InTurn(S, t, new, end)
    BY <1>3, <2>1, CopyFollows, Zenon
  <2> QED BY <1>1, <1>2, <2>2
<1> QED BY <1>4, <1>5

(* So does it for a chunk. *)
LEMMA TurnIsExact ==
    ASSUME ChunkInv, ChunkExact, ~returned, replace \/ copy_rest
    PROVE  ChunkExact'
<1>1. UNCHANGED <<emitted, chunk, returned>> /\ text' = text
  BY DEF replace, copy_rest, text
<1>2. InTurn(Sym, text, output', cursor')
  BY TurnFollows DEF ChunkExact, Sym
<1> QED BY <1>1, <1>2 DEF ChunkExact

(* What redact_log_chunk returns is the line redacted, and if it was that  *)
(* already it is clean and stays as it is.                                 *)
LEMMA ReturnIsExact ==
    ASSUME ChunkInv, ChunkExact, redact_log_chunk
    PROVE  ChunkExact'
<1>1. /\ Done /\ ~returned /\ text' = output /\ returned' = TRUE /\ emitted' = emitted
  BY DEF redact_log_chunk, text
<1>2. PICK t, out, from : t = text /\ out = output /\ from = cursor
  OBVIOUS
<1>3. InTurn(Sym, t, out, from) /\ from > Len(t)
  <2>1. from \in 1..(Len(t) + 1) /\ Len(t) \in Nat
    BY <1>1, <1>2, LenProperties DEF ChunkInv, Scanning, text
  <2> QED BY <1>1, <1>2, <2>1 DEF ChunkExact, Done
<1>4. out = Redacted(t)
  BY <1>3, EndFollows, Zenon
<1>5. CASE t = emitted.line
  BY <1>1, <1>2, <1>4, <1>5 DEF ChunkExact
<1>6. CASE t # emitted.line
  <2>1. chunk # emitted
    BY <1>2, <1>6 DEF text
  <2>2. t \in Seq(Sym) /\ Clean(t) /\ Marker \in Sym
    BY <1>2, <2>1 DEF ChunkInv, text, Sym
  <2>3. Redacted(t) = t
    BY <2>2, CleanIsKept, Zenon
  <2>4. t = Redacted(emitted.line)
    BY <1>2, <1>6 DEF ChunkExact
  <2>5. out = Redacted(emitted.line)
    BY <1>4, <2>3, <2>4, Zenon
  <2> QED BY <1>1, <1>2, <2>5 DEF ChunkExact
<1> QED BY <1>5, <1>6

(* Every step keeps it. *)
LEMMA ExactStep == RedactInv /\ ExactInv /\ [Next]_vars => ExactInv'
<1> SUFFICES ASSUME RedactInv, ExactInv, [Next]_vars PROVE ExactInv' OBVIOUS
<1>1. ASSUME UNCHANGED scanVars, UNCHANGED original PROVE ExactInv'
  BY <1>1 DEF ExactInv, ChunkExact, text, scanVars, scan
<1>2. ASSUME original' # NoValue PROVE ExactInv'
  BY <1>2 DEF ExactInv
<1>3. CASE Turn
  <2>1. UNCHANGED <<original, returned>> /\ (replace \/ copy_rest)
    BY <1>3 DEF Turn, treeVars, replace, copy_rest
  <2>2. CASE original = NoValue
    <3>1. ChunkInv /\ ChunkExact
      BY <2>2 DEF RedactInv, ExactInv
    <3>2. ChunkExact'
      BY <2>1, <3>1, NoTurnAtRest, TurnIsExact
    <3> QED BY <3>2 DEF ExactInv
  <2>3. CASE original # NoValue
    BY <1>2, <2>1, <2>3
  <2> QED BY <2>2, <2>3
<1>4. CASE ChunkReturns
  <2>1. original = NoValue /\ redact_log_chunk
    BY <1>4 DEF ChunkReturns
  <2>2. ChunkExact'
    BY <2>1, ReturnIsExact DEF RedactInv, ExactInv
  <2> QED BY <2>2 DEF ExactInv
<1>5. CASE ChunkAgain
  <2>1. /\ original = NoValue /\ returned /\ returned' = FALSE /\ cursor' = 1 /\ output' = <<>>
        /\ UNCHANGED <<emitted, chunk>>
    BY <1>5 DEF ChunkAgain, call_again, StartOfScan
  <2>2. ChunkInv /\ ChunkExact
    BY <2>1 DEF RedactInv, ExactInv
  <2>3. text \in Seq(Sym) /\ text' = text
    BY <2>1, <2>2 DEF ChunkInv, text
  <2>4. InTurn(Sym, text', output', cursor')
    BY <2>1, <2>3, StartIsExact DEF Sym
  <2> QED BY <2>1, <2>2, <2>3, <2>4 DEF ExactInv, ChunkExact
<1>6. ASSUME NEW redactor \in {"redact_json_value", "redact_sensitive_values"}, redact(redactor)
      PROVE  ExactInv'
  BY <1>2, <1>6 DEF redact
<1>7. ASSUME NEW c \in Configs, NEW o \in Options, operator_diagnostics(c, o) PROVE ExactInv'
  BY <1>2, <1>7, SnapshotIsAValue DEF operator_diagnostics
<1>8. ASSUME original # NoValue, UNCHANGED original PROVE ExactInv'
  BY <1>2, <1>8
<1>9. ASSUME NEW p \in due, redact_json_value(p) \/ redact_sensitive_values(p) PROVE ExactInv'
  BY <1>8, <1>9 DEF RedactInv, redact_json_value, redact_sensitive_values
<1>10. ASSUME NEW p \in at, string_returns(p) PROVE ExactInv'
  BY <1>8, <1>10 DEF RedactInv, string_returns
<1>11. CASE UNCHANGED vars
  BY <1>1, <1>11 DEF vars, treeVars
<1> QED
  BY <1>3, <1>4, <1>5, <1>6, <1>7, <1>9, <1>10, <1>11 DEF Next, Work

(* A line at rest is the emitted one redacted. *)
LEMMA InvIsExact == RedactInv /\ ExactInv => ExactlySecretsReplaced
<1> SUFFICES ASSUME RedactInv, ExactInv, returned PROVE text = Redacted(emitted.line)
  BY DEF ExactlySecretsReplaced, text
<1>1. CASE original = NoValue
  BY <1>1 DEF ExactInv, ChunkExact
<1>2. CASE original # NoValue
  <2>1. text = <<>> /\ emitted.line = <<>>
    BY <1>2 DEF RedactInv, NoChunk, text
  <2>2. Redacted(<<>>) = <<>>
    BY EmptyIsClean, CleanIsKept DEF Sym
  <2> QED BY <2>1, <2>2
<1> QED BY <1>1, <1>2

-----------------------------------------------------------------------------
(* The theorems *)

(* A line that is at rest is clean. *)
LEMMA RedactInvIsClean == RedactInv => NoSecretSurvives
<1> SUFFICES ASSUME RedactInv, returned PROVE Clean(text)
  BY DEF NoSecretSurvives, Clean, text
<1>1. CASE original = NoValue
  BY <1>1 DEF RedactInv, ChunkInv
<1>2. CASE original # NoValue
  BY <1>2, EmptyIsClean DEF RedactInv, NoChunk, text
<1> QED BY <1>1, <1>2

(* For every alphabet, every set of prefixes and every line, nothing       *)
(* secret-shaped is left in a chunk that redact_log_chunk returned, nor    *)
(* does leaving text out put a new secret together, however often the      *)
(* chunk is redacted on its way.                                           *)
THEOREM SpecNoSecretSurvives == Spec => []NoSecretSurvives
BY RedactAlways, RedactInvIsClean, PTL

(* Its flag tells it from what was emitted. *)
LEMMA RedactInvTells == RedactInv => FlagIsTrue
<1> SUFFICES ASSUME RedactInv, returned PROVE FlagTells
  BY DEF FlagIsTrue, FlagTells
<1>1. CASE original = NoValue
  BY <1>1 DEF RedactInv, ChunkInv
<1>2. CASE original # NoValue
  BY <1>2 DEF RedactInv, NoChunk, FlagTells
<1> QED BY <1>1, <1>2

(* The flag of a redacted chunk says whether its line was changed by any   *)
(* of the redactions on its way, or the adapter said so: a marker is no    *)
(* character of a line, and what is clean is not changed any more.         *)
THEOREM SpecFlagIsTrue == Spec => []FlagIsTrue
BY RedactAlways, RedactInvTells, PTL

(* For every alphabet, every set of prefixes and every line of any length, *)
(* the scan, which goes left to right and forgets what it has passed,      *)
(* replaces each stretch of secret characters by one marker and keeps      *)
(* every other character, and redacting again changes nothing.             *)
THEOREM SpecExactlySecrets == Spec => []ExactlySecretsReplaced
<1>1. Init => ExactInv
  BY ExactInit
<1>2. RedactInv /\ ExactInv /\ [Next]_vars => ExactInv'
  BY ExactStep
<1>3. RedactInv /\ ExactInv => ExactlySecretsReplaced
  BY InvIsExact
<1> QED BY <1>1, <1>2, <1>3, RedactAlways, PTL DEF Spec

-----------------------------------------------------------------------------
(* Positions *)

(* d is p or above it. *)
Within(d, p) == Len(d) <= Len(p) /\ SubSeq(p, 1, Len(d)) = d

(* The last step to p is by a sensitive key. *)
BySensitiveKey(p) == "key" \in DOMAIN LastOf(p) /\ is_sensitive_key(LastOf(p).key)

(* Step by step. *)
LEMMA WithinIs ==
    ASSUME NEW E, NEW d \in Seq(E), NEW p \in Seq(E)
    PROVE  Within(d, p) <=> Len(d) <= Len(p) /\ \A n \in 1..Len(d) : d[n] = p[n]
<1>1. Len(d) \in Nat /\ Len(p) \in Nat
  BY LenProperties
<1> SUFFICES ASSUME Len(d) <= Len(p)
             PROVE  SubSeq(p, 1, Len(d)) = d <=> \A n \in 1..Len(d) : d[n] = p[n]
  BY DEF Within
<1>2. PICK u : u = SubSeq(p, 1, Len(d))
  OBVIOUS
<1>3. u \in Seq(E) /\ Len(u) = Len(d) /\ \A n \in 1..Len(d) : u[n] = p[n]
  <2>1. \A i \in 1..Len(d) : p[i] \in E
    BY <1>1, ElementOfSeq
  <2> QED BY <1>1, <1>2, <2>1, SubSeqProperties
<1>4. (\A n \in 1..Len(d) : d[n] = p[n]) => u = d
  BY <1>3, SeqEqual
<1> QED BY <1>2, <1>3, <1>4

(* What is above a position, cut off anywhere. *)
LEMMA CutIs ==
    ASSUME NEW E, NEW p \in Seq(E), NEW k \in 0..Len(p)
    PROVE  /\ SubSeq(p, 1, k) \in Seq(E) /\ Len(SubSeq(p, 1, k)) = k
           /\ \A n \in 1..k : SubSeq(p, 1, k)[n] = p[n]
<1>1. Len(p) \in Nat /\ \A i \in 1..Len(p) : p[i] \in E
  BY LenProperties, ElementOfSeq
<1>2. k \in Nat /\ \A i \in 1..k : p[i] \in E
  BY <1>1
<1> QED BY <1>1, <1>2, SubSeqProperties

(* The parent is all but the last step. *)
LEMMA ParentIs ==
    ASSUME NEW E, NEW p \in Seq(E), p # <<>>
    PROVE  /\ Len(p) \in Nat /\ Len(p) >= 1 /\ LastOf(p) \in E /\ LastOf(p) = p[Len(p)]
           /\ Parent(p) \in Seq(E) /\ Len(Parent(p)) = Len(p) - 1
           /\ \A n \in 1..(Len(p) - 1) : Parent(p)[n] = p[n]
<1>1. Len(p) \in Nat /\ Len(p) >= 1
  BY LenProperties, EmptySeq
<1>2. Len(p) \in 1..Len(p) /\ Len(p) - 1 \in 0..Len(p)
  BY <1>1
<1>3. p[Len(p)] \in E
  BY <1>2, ElementOfSeq
<1> QED BY <1>1, <1>2, <1>3, CutIs DEF Parent, LastOf

(* Between a position and one above it is a child of that one. *)
LEMMA AboveParent ==
    ASSUME NEW E, NEW d \in Seq(E), NEW p \in Seq(E), Len(d) < Len(p)
    PROVE  p # <<>> /\ (Within(d, p) <=> Within(d, Parent(p)))
<1>1. Len(d) \in Nat /\ Len(p) \in Nat
  BY LenProperties
<1>2. p # <<>>
  BY <1>1, EmptySeq
<1>3. PICK q : q = Parent(p)
  OBVIOUS
<1>4. q \in Seq(E) /\ Len(q) = Len(p) - 1 /\ \A n \in 1..(Len(p) - 1) : q[n] = p[n]
  BY <1>2, <1>3, ParentIs, Zenon
<1>5. Within(d, p) <=> Len(d) <= Len(p) /\ \A n \in 1..Len(d) : d[n] = p[n]
  BY WithinIs
<1>6. Within(d, q) <=> Len(d) <= Len(q) /\ \A n \in 1..Len(d) : d[n] = q[n]
  BY <1>4, WithinIs
<1>7. \A n \in 1..Len(d) : q[n] = p[n]
  BY <1>1, <1>4
<1>8. Within(d, p) <=> Within(d, q)
  BY <1>1, <1>4, <1>5, <1>6, <1>7
<1> QED BY <1>2, <1>3, <1>8, Zenon

(* Equally long positions are above each other if they are equal. *)
LEMMA WithinSameLength ==
    ASSUME NEW E, NEW d \in Seq(E), NEW p \in Seq(E), Within(d, p), Len(d) >= Len(p)
    PROVE  d = p
<1>1. Len(d) \in Nat /\ Len(p) \in Nat
  BY LenProperties
<1>2. Len(d) = Len(p)
  BY <1>1 DEF Within
<1>3. SubSeq(p, 1, Len(p)) = p
  BY SubSeqFull
<1> QED BY <1>2, <1>3, Zenon DEF Within

(* Every position is within itself. *)
LEMMA WithinSelf ==
    ASSUME NEW E, NEW p \in Seq(E)
    PROVE  Within(p, p)
BY WithinIs, LenProperties

(* One step more: a key is the last one or further up. *)
LEMMA UnderParent ==
    ASSUME NEW E, NEW p \in Seq(E), p # <<>>
    PROVE  UnderSensitiveKey(p) <=> UnderSensitiveKey(Parent(p)) \/ BySensitiveKey(p)
<1>1. PICK q : q = Parent(p)
  OBVIOUS
<1>2. /\ Len(p) \in Nat /\ Len(p) >= 1 /\ LastOf(p) = p[Len(p)]
      /\ q \in Seq(E) /\ Len(q) = Len(p) - 1
      /\ \A n \in 1..(Len(p) - 1) : q[n] = p[n]
  BY <1>1, ParentIs, Zenon
<1>3. DOMAIN p = 1..Len(p) /\ DOMAIN q = 1..Len(q)
  BY <1>2, LenProperties
<1> DEFINE K(e) == "key" \in DOMAIN e /\ is_sensitive_key(e.key)
<1>4. /\ UnderSensitiveKey(p) <=> \E n \in 1..Len(p) : K(p[n])
      /\ UnderSensitiveKey(q) <=> \E n \in 1..(Len(p) - 1) : K(q[n])
      /\ BySensitiveKey(p) <=> K(p[Len(p)])
  BY <1>2, <1>3 DEF UnderSensitiveKey, BySensitiveKey
<1> HIDE DEF K
<1>5. (\E n \in 1..(Len(p) - 1) : K(q[n])) <=> (\E n \in 1..(Len(p) - 1) : K(p[n]))
  BY <1>2
<1>6. (\E n \in 1..Len(p) : K(p[n])) <=> (\E n \in 1..(Len(p) - 1) : K(p[n])) \/ K(p[Len(p)])
  BY <1>2
<1> QED BY <1>1, <1>4, <1>5, <1>6, Zenon

(* What is under a position is under its keys. *)
LEMMA UnderWithin ==
    ASSUME NEW E, NEW d \in Seq(E), NEW p \in Seq(E), Within(d, p), UnderSensitiveKey(d)
    PROVE  UnderSensitiveKey(p)
<1>1. Len(d) \in Nat /\ Len(p) \in Nat /\ DOMAIN d = 1..Len(d) /\ DOMAIN p = 1..Len(p)
  BY LenProperties
<1>2. Len(d) <= Len(p) /\ \A n \in 1..Len(d) : d[n] = p[n]
  BY WithinIs
<1>3. PICK n \in 1..Len(d) : "key" \in DOMAIN d[n] /\ is_sensitive_key(d[n].key)
  BY <1>1 DEF UnderSensitiveKey
<1>4. n \in DOMAIN p /\ p[n] = d[n]
  BY <1>1, <1>2
<1> QED BY <1>3, <1>4 DEF UnderSensitiveKey

(* The root is under none. *)
LEMMA RootIsUnderNone == ~UnderSensitiveKey(<<>>)
BY DEF UnderSensitiveKey

-----------------------------------------------------------------------------
(* Trees *)

Step == Keys \cup Indices

(* With a position a tree has all that are above it. *)
LEMMA CutIn ==
    ASSUME NEW v, IsTree(v), NEW p \in DOMAIN v, NEW k \in 0..Len(p)
    PROVE  SubSeq(p, 1, k) \in DOMAIN v
<1>1. p \in Seq(Step) /\ \A q \in DOMAIN v \ {<<>>} : Parent(q) \in DOMAIN v
  BY DEF IsTree, Step
<1>2. Len(p) \in Nat
  BY <1>1, LenProperties
<1> DEFINE U == {n \in 0..Len(p) : SubSeq(p, 1, Len(p) - n) \in DOMAIN v}
<1>3. 0 \in U
  <2>1. SubSeq(p, 1, Len(p)) = p /\ Len(p) - 0 = Len(p) /\ 0 \in 0..Len(p)
    BY <1>1, <1>2, SubSeqFull
  <2> QED BY <2>1
<1>4. ASSUME NEW n \in 0..(Len(p) - 1), n \in U PROVE n + 1 \in U
  <2>1. PICK m : m = Len(p) - n
    OBVIOUS
  <2>2. PICK q : q = SubSeq(p, 1, m)
    OBVIOUS
  <2>3. m \in 1..Len(p) /\ m \in 0..Len(p) /\ m - 1 \in 0..Len(p) /\ Len(p) - (n + 1) = m - 1
        /\ n + 1 \in 0..Len(p)
    BY <1>2, <2>1
  <2>4. q \in DOMAIN v /\ q \in Seq(Step) /\ Len(q) = m /\ \A i \in 1..m : q[i] = p[i]
    BY <1>1, <1>4, <2>1, <2>2, <2>3, CutIs
  <2>5. q # <<>>
    BY <2>3, <2>4
  <2>6. Parent(q) \in DOMAIN v
    BY <1>1, <2>4, <2>5
  <2>7. /\ Parent(q) \in Seq(Step) /\ Len(Parent(q)) = m - 1
        /\ \A i \in 1..(m - 1) : Parent(q)[i] = q[i]
    BY <2>4, <2>5, ParentIs
  <2>8. PICK c : c = SubSeq(p, 1, m - 1)
    OBVIOUS
  <2>9. c \in Seq(Step) /\ Len(c) = m - 1 /\ \A i \in 1..(m - 1) : c[i] = p[i]
    BY <1>1, <2>3, <2>8, CutIs
  <2>10. \A i \in 1..(m - 1) : c[i] = Parent(q)[i]
    BY <2>3, <2>4, <2>7, <2>9
  <2>11. c = Parent(q)
    BY <2>7, <2>9, <2>10, SeqEqual
  <2> QED BY <2>3, <2>6, <2>8, <2>11
<1> HIDE DEF U
<1>5. 0..Len(p) \subseteq U
  BY <1>2, <1>3, <1>4, Reaches
<1>6. Len(p) - k \in 0..Len(p) /\ Len(p) - (Len(p) - k) = k
  BY <1>2
<1>7. Len(p) - k \in U
  BY <1>5, <1>6
<1> QED BY <1>6, <1>7 DEF U

(* A child is one step more. *)
LEMMA ChildIs ==
    ASSUME NEW v, IsTree(v), NEW p \in Seq(Step), NEW c \in ChildrenOf(v, p)
    PROVE  /\ c \in DOMAIN v /\ c \in Seq(Step) /\ c # <<>> /\ Parent(c) = p /\ p \in DOMAIN v
           /\ Len(c) = Len(p) + 1 /\ Within(p, c)
<1>1. c \in DOMAIN v /\ c \in Seq(Step) /\ Len(c) = Len(p) + 1 /\ SubSeq(c, 1, Len(p)) = p
  BY DEF ChildrenOf, IsTree, Step
<1>2. Len(p) \in Nat
  BY LenProperties
<1>3. c # <<>> /\ Len(c) - 1 = Len(p) /\ Len(p) <= Len(c)
  BY <1>1, <1>2
<1>4. Parent(c) = p
  BY <1>1, <1>3, Zenon DEF Parent
<1>5. p \in DOMAIN v
  BY <1>1, <1>3, <1>4 DEF IsTree
<1> QED BY <1>1, <1>3, <1>4, <1>5, Zenon DEF Within

(* To go further down is to go through a child. *)
LEMMA ChildBetween ==
    ASSUME NEW v, IsTree(v), NEW d \in Seq(Step), NEW p \in DOMAIN v, Within(d, p), d # p
    PROVE  \E c \in ChildrenOf(v, d) : Within(c, p)
<1>1. p \in Seq(Step)
  BY DEF IsTree, Step
<1>2. Len(d) \in Nat /\ Len(p) \in Nat
  BY <1>1, LenProperties
<1>3. Len(d) < Len(p)
  <2> SUFFICES ASSUME Len(d) >= Len(p) PROVE FALSE
    BY <1>2
  <2> QED BY <1>1, WithinSameLength
<1>4. PICK k : k = Len(d) + 1
  OBVIOUS
<1>5. k \in 0..Len(p) /\ k <= Len(p)
  BY <1>2, <1>3, <1>4
<1>6. PICK c : c = SubSeq(p, 1, k)
  OBVIOUS
<1>7. c \in DOMAIN v /\ c \in Seq(Step) /\ Len(c) = k /\ \A n \in 1..k : c[n] = p[n]
  BY <1>1, <1>5, <1>6, CutIn, CutIs
<1>8. \A n \in 1..Len(d) : d[n] = p[n]
  BY <1>1, WithinIs
<1>9. Within(c, p)
  BY <1>1, <1>5, <1>7, WithinIs
<1>10. \A n \in 1..Len(d) : d[n] = c[n]
  BY <1>2, <1>4, <1>7, <1>8
<1>11. Within(d, c)
  BY <1>2, <1>4, <1>7, <1>10, WithinIs
<1>12. c \in ChildrenOf(v, d)
  BY <1>4, <1>7, <1>11, Zenon DEF ChildrenOf, Within
<1> QED BY <1>9, <1>12

(* A string has no children. *)
LEMMA StringIsLeaf ==
    ASSUME NEW v, IsTree(v), NEW p \in DOMAIN v, v[p].kind = "string"
    PROVE  ChildrenOf(v, p) = {}
<1> SUFFICES ASSUME NEW c \in ChildrenOf(v, p) PROVE FALSE
  OBVIOUS
<1>1. p \in Seq(Step)
  BY DEF IsTree, Step
<1>2. c \in DOMAIN v /\ c # <<>> /\ Parent(c) = p
  BY <1>1, ChildIs
<1>3. v[p] = Object \/ v[p] = Array
  BY <1>2 DEF IsTree
<1> QED BY <1>3 DEF Object, Array

(* p is q with the step e before it. *)
Prepended(e, q, p) ==
    /\ p # <<>> /\ Head(p) = e /\ Tail(p) = q
    /\ \A n \in DOMAIN p : p[n] = e \/ \E m \in DOMAIN q : p[n] = q[m]
    /\ q = <<>> => Parent(p) = <<>> /\ LastOf(p) = e
    /\ q # <<>> => Parent(p) = <<e>> \o Parent(q) /\ LastOf(p) = LastOf(q)

(* What is made of a position by a step before it. *)
LEMMA PrependedIs ==
    ASSUME NEW E, NEW e \in E, NEW q \in Seq(E), NEW p, p = <<e>> \o q
    PROVE  p \in Seq(E) /\ Prepended(e, q, p)
<1>1. PICK h : h = <<e>>
  OBVIOUS
<1>2. h \in Seq(E) /\ Len(h) = 1 /\ h[1] = e
  BY <1>1
<1>3. Len(q) \in Nat
  BY LenProperties
<1>4. /\ p \in Seq(E) /\ Len(p) = 1 + Len(q)
      /\ \A i \in 1..(1 + Len(q)) : p[i] = IF i <= 1 THEN h[i] ELSE q[i - 1]
  <2>1. p = h \o q
    BY <1>1
  <2>2. /\ h \o q \in Seq(E) /\ Len(h \o q) = Len(h) + Len(q)
        /\ \A i \in 1..(Len(h) + Len(q)) : (h \o q)[i] = IF i <= Len(h) THEN h[i] ELSE q[i - Len(h)]
    BY <1>2, ConcatProperties, Zenon
  <2> QED BY <1>2, <2>1, <2>2, Zenon
<1>5. p[1] = e /\ \A i \in 1..Len(q) : p[i + 1] = q[i]
  <2>1. 1 \in 1..(1 + Len(q)) /\ \A i \in 1..Len(q) : i + 1 \in 1..(1 + Len(q)) /\ ~(i + 1 <= 1) /\ i + 1 - 1 = i
    BY <1>3
  <2>2. 1 <= 1
    OBVIOUS
  <2>3. p[1] = e
    BY <1>2, <1>4, <2>1, <2>2, Zenon
  <2>4. ASSUME NEW i \in 1..Len(q) PROVE p[i + 1] = q[i]
    <3>1. PICK k : k = i + 1
      OBVIOUS
    <3>2. k \in 1..(1 + Len(q)) /\ ~(k <= 1) /\ k - 1 = i
      BY <2>1, <3>1
    <3>3. p[k] = IF k <= 1 THEN h[k] ELSE q[k - 1]
      BY <1>4, <3>2, Zenon
    <3> QED BY <3>1, <3>2, <3>3, Zenon
  <2> QED BY <2>3, <2>4
<1>6. p # <<>> /\ Len(p) - 1 = Len(q)
  BY <1>3, <1>4
<1>7. Head(p) = e /\ Tail(p) = q
  <2>1. Head(p) = p[1] /\ Tail(p) \in Seq(E) /\ Len(Tail(p)) = Len(p) - 1
        /\ \A i \in 1..Len(Tail(p)) : Tail(p)[i] = p[i + 1]
    BY <1>4, <1>6, HeadTailProperties
  <2>2. PICK r : r = Tail(p)
    OBVIOUS
  <2>3. r \in Seq(E) /\ Len(r) = Len(q) /\ \A i \in 1..Len(q) : r[i] = q[i]
    BY <1>5, <1>6, <2>1, <2>2
  <2>4. r = q
    BY <2>3, SeqEqual
  <2> QED BY <1>5, <2>1, <2>2, <2>4
<1>8. /\ Parent(p) \in Seq(E) /\ Len(Parent(p)) = Len(q) /\ LastOf(p) = p[Len(p)]
      /\ \A n \in 1..Len(q) : Parent(p)[n] = p[n]
  BY <1>4, <1>6, ParentIs
<1>9. ASSUME q = <<>> PROVE Parent(p) = <<>> /\ LastOf(p) = e
  <2>1. Len(q) = 0 /\ Len(p) = 1
    BY <1>4, <1>9
  <2> QED BY <1>5, <1>8, <2>1, EmptySeq
<1>10. ASSUME q # <<>> PROVE Parent(p) = <<e>> \o Parent(q) /\ LastOf(p) = LastOf(q)
  <2>1. PICK r : r = Parent(q)
    OBVIOUS
  <2>2. /\ Len(q) >= 1 /\ LastOf(q) = q[Len(q)]
        /\ r \in Seq(E) /\ Len(r) = Len(q) - 1 /\ \A n \in 1..(Len(q) - 1) : r[n] = q[n]
    BY <1>10, <2>1, ParentIs
  <2>3. Len(q) \in 1..Len(q) /\ Len(q) + 1 = Len(p)
    BY <1>3, <1>4, <2>2
  <2>4. LastOf(p) = LastOf(q)
    BY <1>5, <1>8, <2>2, <2>3, Zenon
  <2>5. PICK s : s = h \o r
    OBVIOUS
  <2>6. /\ s \in Seq(E) /\ Len(s) = 1 + Len(r)
        /\ \A i \in 1..(1 + Len(r)) : s[i] = IF i <= 1 THEN h[i] ELSE r[i - 1]
    <3>1. /\ h \o r \in Seq(E) /\ Len(h \o r) = Len(h) + Len(r)
          /\ \A i \in 1..(Len(h) + Len(r)) :
                (h \o r)[i] = IF i <= Len(h) THEN h[i] ELSE r[i - Len(h)]
      BY <1>2, <2>2, ConcatProperties, Zenon
    <3> QED BY <1>2, <2>5, <3>1, Zenon
  <2>7. Len(s) = Len(q)
    BY <1>3, <2>2, <2>6
  <2>8. ASSUME NEW i \in 1..Len(q) PROVE s[i] = Parent(p)[i]
    <3>1. Parent(p)[i] = p[i]
      BY <1>8
    <3>2. CASE i = 1
      <4>1. 1 \in 1..(1 + Len(r)) /\ 1 <= 1
        BY <2>2, <1>3
      <4> QED BY <1>2, <1>5, <2>6, <3>1, <3>2, <4>1, Zenon
    <3>3. CASE i # 1
      <4>1. i - 1 \in 1..Len(q) /\ i - 1 \in 1..(Len(q) - 1) /\ (i - 1) + 1 = i /\ ~(i <= 1)
            /\ i \in 1..(1 + Len(r))
        BY <1>3, <2>2, <3>3
      <4>2. s[i] = r[i - 1] /\ r[i - 1] = q[i - 1] /\ p[i] = q[i - 1]
        <5>1. p[(i - 1) + 1] = q[i - 1]
          BY <1>5, <4>1, Zenon
        <5> QED BY <2>2, <2>6, <4>1, <5>1, Zenon
      <4> QED BY <3>1, <4>2
    <3> QED BY <3>2, <3>3
  <2>9. s = Parent(p)
    BY <1>8, <2>6, <2>7, <2>8, SeqEqual
  <2> QED BY <1>1, <2>1, <2>4, <2>5, <2>9, Zenon
<1>11. ASSUME NEW n \in DOMAIN p PROVE p[n] = e \/ \E m \in DOMAIN q : p[n] = q[m]
  <2>1. n \in 1..Len(p) /\ DOMAIN q = 1..Len(q)
    BY <1>4, LenProperties
  <2>2. CASE n = 1
    BY <1>5, <2>2
  <2>3. CASE n # 1
    <3>1. PICK m : m = n - 1
      OBVIOUS
    <3>2. m \in DOMAIN q /\ m + 1 = n
      BY <1>3, <1>4, <2>1, <2>3, <3>1
    <3> QED BY <1>5, <2>1, <3>2
  <2> QED BY <2>2, <2>3
<1> QED BY <1>4, <1>6, <1>7, <1>9, <1>10, <1>11, Zenon DEF Prepended

(* The node of its own, and every node of the trees under it. *)
IsJoin(v, node, f) ==
    /\ v = [p \in DOMAIN v |-> v[p]]
    /\ <<>> \in DOMAIN v /\ v[<<>>] = node
    /\ \A p \in DOMAIN v \ {<<>>} : \E e \in DOMAIN f : \E q \in DOMAIN f[e] :
          p \in Seq(Step) /\ Prepended(e, q, p) /\ v[p] = f[e][q]
    /\ \A e \in DOMAIN f : \A q \in DOMAIN f[e] :
          <<e>> \o q \in DOMAIN v \ {<<>>} /\ v[<<e>> \o q] = f[e][q]

(* What is joined of trees. *)
LEMMA JoinIs ==
    ASSUME NEW node, NEW f, DOMAIN f \subseteq Step, \A e \in DOMAIN f : IsTree(f[e])
    PROVE  IsJoin(Join(node, f), node, f)
<1>1. PICK v : v = Join(node, f)
  OBVIOUS
<1>2. PICK rest : rest = UNION {{<<e>> \o q : q \in DOMAIN f[e]} : e \in DOMAIN f}
  OBVIOUS
<1>3. v = [p \in {<<>>} \cup rest |-> IF p = <<>> THEN node ELSE f[Head(p)][Tail(p)]]
  BY <1>1, <1>2 DEF Join
<1>4. \A e \in DOMAIN f : e \in Step
  OBVIOUS
<1>5. DOMAIN v = {<<>>} \cup rest /\ v[<<>>] = node
  BY <1>3
<1>6. \A e \in DOMAIN f : DOMAIN f[e] \subseteq Seq(Step)
  BY DEF IsTree, Step
<1>7. ASSUME NEW p \in rest
      PROVE  \E e \in DOMAIN f : \E q \in DOMAIN f[e] :
                p \in Seq(Step) /\ Prepended(e, q, p) /\ v[p] = f[e][q]
  <2>0. PICK e \in DOMAIN f : \E q \in DOMAIN f[e] : p = <<e>> \o q
    BY <1>2, <1>7, Zenon
  <2>1. PICK q \in DOMAIN f[e] : p = <<e>> \o q
    BY <2>0
  <2>2. e \in Step /\ q \in Seq(Step)
    BY <1>4, <1>6
  <2>3. p \in Seq(Step) /\ Prepended(e, q, p)
    BY <2>1, <2>2, PrependedIs, Zenon
  <2>4. v[p] = f[e][q]
    <3>1. v[p] = f[Head(p)][Tail(p)]
      BY <1>3, <1>7, <2>3, Zenon DEF Prepended
    <3> QED BY <2>3, <3>1, Zenon DEF Prepended
  <2> QED BY <2>3, <2>4, Zenon
<1>8. ASSUME NEW e \in DOMAIN f, NEW q \in DOMAIN f[e]
      PROVE  <<e>> \o q \in rest /\ v[<<e>> \o q] = f[e][q]
  <2>1. PICK p : p = <<e>> \o q
    OBVIOUS
  <2>2. e \in Step /\ q \in Seq(Step)
    BY <1>4, <1>6
  <2>3. p \in rest
    <3>1. PICK part : part = {<<e>> \o x : x \in DOMAIN f[e]}
      OBVIOUS
    <3>2. p \in part
      BY <2>1, <3>1, Zenon
    <3>3. part \in {{<<x>> \o y : y \in DOMAIN f[x]} : x \in DOMAIN f}
      BY <3>1, Zenon
    <3> QED BY <1>2, <3>2, <3>3, Zenon
  <2>4. p # <<>> /\ Head(p) = e /\ Tail(p) = q
    <3>1. Prepended(e, q, p)
      BY <2>1, <2>2, PrependedIs, Zenon
    <3> QED BY <3>1, Zenon DEF Prepended
  <2>5. v[p] = f[e][q]
    <3>1. v[p] = f[Head(p)][Tail(p)]
      BY <1>3, <2>3, <2>4, Zenon
    <3> QED BY <2>4, <3>1, Zenon
  <2> QED BY <2>1, <2>3, <2>5, Zenon
<1>9. v = [p \in DOMAIN v |-> v[p]]
  BY <1>3
<1>10. \A p \in rest : p # <<>>
  BY <1>7, Zenon DEF Prepended
<1> QED BY <1>1, <1>5, <1>7, <1>8, <1>9, <1>10, Zenon DEF IsJoin

(* Trees put together are a tree. *)
LEMMA JoinIsTree ==
    ASSUME NEW node, NEW f,
           \/ node = Object /\ DOMAIN f \subseteq Keys
           \/ node = Array /\ DOMAIN f \subseteq Indices,
           \A e \in DOMAIN f : IsTree(f[e])
    PROVE  IsTree(Join(node, f))
<1>1. PICK v : v = Join(node, f)
  OBVIOUS
<1>2. IsJoin(v, node, f)
  <2>1. DOMAIN f \subseteq Step
    BY DEF Step
  <2> QED BY <1>1, <2>1, JoinIs
<1>3. <<>> \in DOMAIN v /\ v[<<>>] = node
  BY <1>2 DEF IsJoin
<1>4. \A p \in DOMAIN v \ {<<>>} : \E e \in DOMAIN f : \E q \in DOMAIN f[e] :
         p \in Seq(Step) /\ Prepended(e, q, p) /\ v[p] = f[e][q]
  BY <1>2, Zenon DEF IsJoin
<1>5. \A e \in DOMAIN f : \A q \in DOMAIN f[e] :
         <<e>> \o q \in DOMAIN v \ {<<>>} /\ v[<<e>> \o q] = f[e][q]
  BY <1>2, Zenon DEF IsJoin
<1>6. \A e \in DOMAIN f : \A q \in DOMAIN f[e] : f[e][q] \in Node
  BY DEF IsTree
<1>7. node \in Node
  BY DEF Node
<1>8. ASSUME NEW p \in DOMAIN v PROVE v[p] \in Node /\ p \in Seq(Step)
  <2>1. CASE p = <<>>
    BY <1>3, <1>7, <2>1
  <2>2. CASE p # <<>>
    <3>1. \E e \in DOMAIN f : \E q \in DOMAIN f[e] : p \in Seq(Step) /\ v[p] = f[e][q]
      BY <1>4, <2>2
    <3> QED BY <1>6, <3>1
  <2> QED BY <1>3, <2>1, <2>2
<1>9. v \in [DOMAIN v -> Node]
  <2>1. v = [p \in DOMAIN v |-> v[p]]
    BY <1>2, Zenon DEF IsJoin
  <2> QED BY <1>8, <2>1
<1>10. ASSUME NEW p \in DOMAIN v \ {<<>>}
       PROVE  /\ Parent(p) \in DOMAIN v
              /\ \/ v[Parent(p)] = Object /\ LastOf(p) \in Keys
                 \/ v[Parent(p)] = Array /\ LastOf(p) \in Indices
  <2>0. PICK e \in DOMAIN f : \E q \in DOMAIN f[e] : Prepended(e, q, p)
    BY <1>3, <1>4
  <2>1. PICK q \in DOMAIN f[e] : Prepended(e, q, p)
    BY <2>0
  <2>2. CASE q = <<>>
    <3>1. Parent(p) = <<>> /\ LastOf(p) = e
      BY <2>1, <2>2, Zenon DEF Prepended
    <3> QED BY <1>3, <3>1
  <2>3. CASE q # <<>>
    <3>1. PICK r : r = Parent(q)
      OBVIOUS
    <3>2. /\ r \in DOMAIN f[e]
          /\ \/ f[e][r] = Object /\ LastOf(q) \in Keys
             \/ f[e][r] = Array /\ LastOf(q) \in Indices
      BY <2>3, <3>1 DEF IsTree
    <3>3. <<e>> \o r \in DOMAIN v /\ v[<<e>> \o r] = f[e][r]
      BY <1>5, <3>2
    <3>4. Parent(p) = <<e>> \o r /\ LastOf(p) = LastOf(q)
      BY <2>1, <2>3, <3>1, Zenon DEF Prepended
    <3>5. Parent(p) \in DOMAIN v /\ v[Parent(p)] = f[e][r]
      BY <3>3, <3>4, Zenon
    <3> QED BY <1>3, <3>2, <3>4, <3>5
  <2> QED BY <2>2, <2>3
<1>11. DOMAIN v \subseteq Seq(Keys \cup Indices)
  BY <1>8 DEF Step
<1>12. IsTree(v)
  BY <1>3, <1>9, <1>10, <1>11 DEF IsTree
<1> QED BY <1>1, <1>12

(* So is a leaf. *)
LEMMA LeafIsTree ==
    ASSUME NEW node \in Node
    PROVE  IsTree(Leaf(node))
<1>1. Leaf(node) = [p \in {<<>>} |-> node]
  BY DEF Leaf
<1> QED BY <1>1 DEF IsTree

-----------------------------------------------------------------------------
(* What diagnostics are made of *)

SnapshotKeys ==
    {<<"runner", "_", "id">>, <<"control", "_", "plane", "_", "url">>,
     <<"registration", "_", "token", "_", "env", "_", "name">>, <<"credential", "_", "ref">>,
     <<"heartbeat", "_", "state">>, <<"health">>, <<"quarantine", "_", "reason">>,
     <<"capability", "_", "inventory">>, <<"local", "_", "llm", "_", "endpoints">>, <<"base", "_", "url">>}

(* A tree with these keys only, and with these texts T only. *)
Tells(v, T) ==
    /\ IsTree(v)
    /\ \A p \in DOMAIN v :
          /\ \A n \in DOMAIN p : "key" \in DOMAIN p[n] => p[n].key \in SnapshotKeys
          /\ v[p].kind = "string" => v[p].text \in T

(* Members of an object that tells no more. *)
Members(f, T) ==
    /\ \A e \in DOMAIN f : \E k \in SnapshotKeys : e = Key(k)
    /\ \A e \in DOMAIN f : Tells(f[e], T)

(* Short texts, character by character. *)
LEMMA OneLong ==
    ASSUME NEW S, NEW a \in S,
           NEW t, t = <<a>>
    PROVE  t \in Seq(S) /\ t # <<>>
OBVIOUS

LEMMA ThreeLong ==
    ASSUME NEW S, NEW a \in S, NEW b \in S, NEW c \in S,
           NEW t, t = <<a, b, c>>
    PROVE  t \in Seq(S) /\ t # <<>>
OBVIOUS

LEMMA FiveLong ==
    ASSUME NEW S, NEW a \in S, NEW b \in S, NEW c \in S, NEW d \in S, NEW e \in S,
           NEW t, t = <<a, b, c, d, e>>
    PROVE  t \in Seq(S) /\ t # <<>>
OBVIOUS

LEMMA SevenLong ==
    ASSUME NEW S, NEW a \in S, NEW b \in S, NEW c \in S, NEW d \in S, NEW e \in S,
           NEW f \in S, NEW g \in S,
           NEW t, t = <<a, b, c, d, e, f, g>>
    PROVE  t \in Seq(S) /\ t # <<>>
OBVIOUS

(* The keys are keys. *)
LEMMA SnapshotKeysAre == \A k \in SnapshotKeys : k \in Seq(Char) /\ Key(k) \in Keys /\ Key(k).key = k
<1>1. \A w \in SnapshotWords \cup {"_"} : w \in Char
  BY WordsAssumption DEF Char, BodyChars
<1>2. SnapshotKeys \subseteq Seq(Char)
  <2>1. "_" \in Char /\ \A w \in SnapshotWords : w \in Char
    BY <1>1
  <2>2. <<"runner", "_", "id">> \in Seq(Char)
    BY <2>1, ThreeLong, Zenon DEF SnapshotWords
  <2>3. <<"control", "_", "plane", "_", "url">> \in Seq(Char)
    BY <2>1, FiveLong, Zenon DEF SnapshotWords
  <2>4. <<"registration", "_", "token", "_", "env", "_", "name">> \in Seq(Char)
    BY <2>1, SevenLong, Zenon DEF SnapshotWords
  <2>5. <<"credential", "_", "ref">> \in Seq(Char)
    BY <2>1, ThreeLong, Zenon DEF SnapshotWords
  <2>6. <<"heartbeat", "_", "state">> \in Seq(Char)
    BY <2>1, ThreeLong, Zenon DEF SnapshotWords
  <2>7. <<"health">> \in Seq(Char)
    BY <2>1, OneLong, Zenon DEF SnapshotWords
  <2>8. <<"quarantine", "_", "reason">> \in Seq(Char)
    BY <2>1, ThreeLong, Zenon DEF SnapshotWords
  <2>9. <<"capability", "_", "inventory">> \in Seq(Char)
    BY <2>1, ThreeLong, Zenon DEF SnapshotWords
  <2>10. <<"local", "_", "llm", "_", "endpoints">> \in Seq(Char)
    BY <2>1, FiveLong, Zenon DEF SnapshotWords
  <2>11. <<"base", "_", "url">> \in Seq(Char)
    BY <2>1, ThreeLong, Zenon DEF SnapshotWords
  <2> QED BY <2>2, <2>3, <2>4, <2>5, <2>6, <2>7, <2>8, <2>9, <2>10, <2>11, Zenon DEF SnapshotKeys
<1> HIDE DEF SnapshotKeys, Char
<1> QED BY <1>2 DEF Key, Keys

(* What is joined of trees that tell no more tells no more. *)
LEMMA JoinTells ==
    ASSUME NEW T, NEW node, NEW f,
           \/ node = Object /\ \A e \in DOMAIN f : \E k \in SnapshotKeys : e = Key(k)
           \/ node = Array /\ DOMAIN f \subseteq Indices,
           \A e \in DOMAIN f : Tells(f[e], T)
    PROVE  Tells(Join(node, f), T) /\ IsJoin(Join(node, f), node, f)
<1>1. PICK v : v = Join(node, f)
  OBVIOUS
<1>2. \A e \in DOMAIN f : IsTree(f[e])
  BY DEF Tells
<1>3. \/ node = Object /\ DOMAIN f \subseteq Keys
      \/ node = Array /\ DOMAIN f \subseteq Indices
  BY SnapshotKeysAre
<1>4. IsTree(v)
  BY <1>1, <1>2, <1>3, JoinIsTree, Zenon
<1>5. IsJoin(v, node, f)
  <2>1. DOMAIN f \subseteq Step
    BY <1>3 DEF Step
  <2> QED BY <1>1, <1>2, <2>1, JoinIs
<1>6. \A e \in DOMAIN f : "key" \in DOMAIN e => e.key \in SnapshotKeys
  <2>1. CASE \A e \in DOMAIN f : \E k \in SnapshotKeys : e = Key(k)
    BY <2>1, SnapshotKeysAre
  <2>2. CASE DOMAIN f \subseteq Indices
    BY <2>2 DEF Indices
  <2> QED BY <2>1, <2>2
<1>7. ASSUME NEW p \in DOMAIN v
      PROVE  /\ \A n \in DOMAIN p : "key" \in DOMAIN p[n] => p[n].key \in SnapshotKeys
             /\ v[p].kind = "string" => v[p].text \in T
  <2>1. CASE p = <<>>
    <3>1. v[p] = node /\ DOMAIN p = {}
      BY <1>5, <2>1 DEF IsJoin
    <3>2. node.kind # "string"
      BY DEF Object, Array
    <3> QED BY <3>1, <3>2
  <2>2. CASE p # <<>>
    <3>1. \A x \in DOMAIN v \ {<<>>} : \E e \in DOMAIN f : \E q \in DOMAIN f[e] :
             x \in Seq(Step) /\ Prepended(e, q, x) /\ v[x] = f[e][q]
      BY <1>5, Zenon DEF IsJoin
    <3>2. PICK e \in DOMAIN f : \E q \in DOMAIN f[e] : Prepended(e, q, p) /\ v[p] = f[e][q]
      BY <2>2, <3>1
    <3>3. PICK q \in DOMAIN f[e] : Prepended(e, q, p) /\ v[p] = f[e][q]
      BY <3>2
    <3>4. /\ \A m \in DOMAIN q : "key" \in DOMAIN q[m] => q[m].key \in SnapshotKeys
          /\ f[e][q].kind = "string" => f[e][q].text \in T
      BY Zenon DEF Tells
    <3>5. ASSUME NEW n \in DOMAIN p, "key" \in DOMAIN p[n] PROVE p[n].key \in SnapshotKeys
      <4>1. p[n] = e \/ \E m \in DOMAIN q : p[n] = q[m]
        BY <3>3, Zenon DEF Prepended
      <4> QED BY <1>6, <3>4, <3>5, <4>1, Zenon
    <3> QED BY <3>3, <3>4, <3>5, Zenon
  <2> QED BY <2>1, <2>2
<1>8. Tells(v, T)
  BY <1>4, <1>7, Zenon DEF Tells
<1> QED BY <1>1, <1>5, <1>8, Zenon

(* An object of members that tell no more tells no more. *)
LEMMA ObjectTells ==
    ASSUME NEW T, NEW f, Members(f, T)
    PROVE  Tells(Join(Object, f), T)
BY JoinTells DEF Members

(* So does a leaf that is no string, and one of these strings. *)
LEMMA LeafTells ==
    ASSUME NEW T
    PROVE  /\ Tells(Leaf(Other), T)
           /\ \A t \in SomeText : t \in T => Tells(Leaf(String(t)), T)
<1>1. ASSUME NEW node \in Node, node.kind = "string" => node.text \in T PROVE Tells(Leaf(node), T)
  <2>1. DOMAIN Leaf(node) = {<<>>} /\ Leaf(node)[<<>>] = node
    BY DEF Leaf
  <2>2. IsTree(Leaf(node))
    BY LeafIsTree
  <2> QED BY <1>1, <2>1, <2>2 DEF Tells
<1>2. Other \in Node /\ Other.kind # "string"
  BY DEF Other, Node
<1>3. ASSUME NEW t \in SomeText, t \in T
      PROVE  String(t) \in Node /\ String(t).text \in T
  <2> HIDE DEF SomeText
  <2> QED BY <1>3 DEF String, Node
<1> QED BY <1>1, <1>2, <1>3

(* A tree that tells no more is a member. *)
LEMMA MemberIs ==
    ASSUME NEW T, NEW words \in SnapshotKeys, NEW v, Tells(v, T)
    PROVE  Members(Member(words, v), T)
BY Zenon DEF Members, Member

(* Members of two objects are members of one. *)
LEMMA MembersAdd ==
    ASSUME NEW T, NEW a, NEW b, Members(a, T), Members(b, T)
    PROVE  Members(a ++ b, T)
BY DEF Members, ++

(* An Option of a text is one, or null. *)
LEMMA OptionIs ==
    ASSUME NEW O, IsOption(O)
    PROVE  /\ OptionOf(O, <<>>) \in SomeText
           /\ OptionOf(O, <<>>) \in O \cup {<<>>}
           /\ \A t \in O : OptionOf(O, <<>>) = t
BY DEF OptionOf, IsOption, SomeText

(* What diagnostics may show. *)
Shown(c, o) == Settings(c, o) \cup {CredentialMark}

(* The members of the snapshot. *)
RunnerId(c) == Leaf(String(OptionOf(c.runner_id, <<>>)))
CredentialRef(c) == Leaf(IF c.credential_placeholder = {} THEN Other ELSE String(CredentialMark))
Reason(o) == Leaf(IF o.quarantine_reason = {} THEN Other ELSE String(OptionOf(o.quarantine_reason, <<>>)))

(* What stands for a replaced member is a text. *)
LEMMA RedactedKeyIsText ==
    ASSUME NEW key \in Seq(Char)
    PROVE  RedactedKey(key) \in SomeText
<1>1. PICK open, close : open = <<"[REDACTED:">> /\ close = <<"]">>
  OBVIOUS
<1>2. "[REDACTED:" \in Sym /\ "]" \in Sym
  BY BracketsAssumption DEF Sym, Char
<1>3. open \in Seq(Sym) /\ close \in Seq(Sym) /\ key \in Seq(Sym)
  <2>1. key \in Seq(Sym)
    BY CharsAreUnmarked
  <2> QED BY <1>1, <1>2, <2>1
<1>4. open \o key \in Seq(Sym)
  BY <1>3, ConcatProperties, Zenon
<1>5. (open \o key) \o close \in Seq(Sym)
  BY <1>3, <1>4, ConcatProperties, Zenon
<1> QED BY <1>1, <1>5, Zenon DEF RedactedKey, SomeText, Sym

(* Each tells no more than may be shown. *)
LEMMA PartsTell ==
    ASSUME NEW c \in Configs, NEW o \in Options
    PROVE  /\ Tells(RunnerId(c), Shown(c, o)) /\ Tells(CredentialRef(c), Shown(c, o))
           /\ Tells(Leaf(String(c.control_plane_url)), Shown(c, o))
           /\ Tells(Leaf(String(c.registration_token_env)), Shown(c, o))
           /\ Tells(Leaf(String(o.health)), Shown(c, o)) /\ Tells(Reason(o), Shown(c, o))
           /\ \A n \in DOMAIN c.base_urls : Tells(Leaf(String(c.base_urls[n])), Shown(c, o))
<1>1. /\ IsOption(c.runner_id) /\ c.control_plane_url \in SomeText
      /\ c.registration_token_env \in SomeText /\ c.base_urls \in Seq(SomeText)
  BY ConfigsAssumption
<1>2. o.health \in SomeText /\ IsOption(o.quarantine_reason)
  BY OptionsAssumption
<1>3. CredentialMark \in SomeText
  <2>1. <<"credential", "_", "ref">> \in Seq(Char)
    BY SnapshotKeysAre DEF SnapshotKeys
  <2> QED BY <2>1, RedactedKeyIsText, Zenon DEF CredentialMark
<1>4. ASSUME NEW n \in DOMAIN c.base_urls PROVE c.base_urls[n] \in SomeText
  BY <1>1, LenProperties, ElementOfSeq
<1>5. /\ OptionOf(c.runner_id, <<>>) \in SomeText /\ OptionOf(o.quarantine_reason, <<>>) \in SomeText
      /\ OptionOf(c.runner_id, <<>>) \in c.runner_id \cup {<<>>}
      /\ OptionOf(o.quarantine_reason, <<>>) \in o.quarantine_reason \cup {<<>>}
  BY <1>1, <1>2, OptionIs
<1>6. /\ OptionOf(c.runner_id, <<>>) \in Shown(c, o) /\ CredentialMark \in Shown(c, o)
      /\ c.control_plane_url \in Shown(c, o) /\ c.registration_token_env \in Shown(c, o)
      /\ o.health \in Shown(c, o) /\ OptionOf(o.quarantine_reason, <<>>) \in Shown(c, o)
      /\ \A n \in DOMAIN c.base_urls : c.base_urls[n] \in Shown(c, o)
  BY <1>5 DEF Shown, Settings
<1>7. Tells(CredentialRef(c), Shown(c, o))
  BY <1>3, <1>6, LeafTells, Zenon DEF CredentialRef
<1>8. Tells(Reason(o), Shown(c, o))
  BY <1>5, <1>6, LeafTells, Zenon DEF Reason
<1> QED BY <1>1, <1>2, <1>4, <1>5, <1>6, <1>7, <1>8, LeafTells, Zenon DEF RunnerId

(* So does the inventory, ... *)
LEMMA InventoryTells ==
    ASSUME NEW c \in Configs, NEW o \in Options
    PROVE  Tells(Inventory(c), Shown(c, o))
<1> DEFINE item(e) == Join(Object, Member(<<"base", "_", "url">>, Leaf(String(c.base_urls[e.index]))))
           items == [e \in {Index(n) : n \in DOMAIN c.base_urls} |-> item(e)]
<1>1. <<"base", "_", "url">> \in SnapshotKeys /\ <<"local", "_", "llm", "_", "endpoints">> \in SnapshotKeys
  BY DEF SnapshotKeys
<1>2. ASSUME NEW n \in DOMAIN c.base_urls
      PROVE  Index(n) \in Indices /\ Tells(item(Index(n)), Shown(c, o))
  <2>1. n \in Nat
    <3>1. c.base_urls \in Seq(SomeText)
      BY ConfigsAssumption
    <3> QED BY <3>1, LenProperties
  <2>2. Index(n).index = n /\ Index(n) \in Indices
    BY <2>1 DEF Index, Indices
  <2>3. Tells(Leaf(String(c.base_urls[Index(n).index])), Shown(c, o))
    BY <2>2, PartsTell
  <2>4. Tells(item(Index(n)), Shown(c, o))
    BY <1>1, <2>3, MemberIs, ObjectTells, Zenon
  <2> QED BY <2>2, <2>4
<1> HIDE DEF item
<1>3. DOMAIN items \subseteq Indices /\ \A e \in DOMAIN items : Tells(items[e], Shown(c, o))
  BY <1>2
<1>4. Tells(Join(Array, items), Shown(c, o))
  <2> HIDE DEF items
  <2> QED BY <1>3, JoinTells
<1>5. Inventory(c) = Join(Object, Member(<<"local", "_", "llm", "_", "endpoints">>, Join(Array, items)))
  BY Zenon DEF Inventory, item
<1> HIDE DEF items
<1> QED BY <1>1, <1>4, <1>5, MemberIs, ObjectTells, Zenon

(* The members of an object, and their members, are where they should be. *)
AtMembers(v, f) ==
    \A e \in DOMAIN f :
        /\ <<e>> \in DOMAIN v /\ v[<<e>>] = f[e][<<>>]
        /\ \A d : <<d>> \in DOMAIN f[e] => <<e, d>> \in DOMAIN v /\ v[<<e, d>>] = f[e][<<d>>]

(* So they are in an object joined of trees. *)
LEMMA MemberAt ==
    ASSUME NEW f, NEW v, IsJoin(v, Object, f), \A e \in DOMAIN f : IsTree(f[e])
    PROVE  AtMembers(v, f)
<1> SUFFICES ASSUME NEW e \in DOMAIN f
             PROVE  /\ <<e>> \in DOMAIN v /\ v[<<e>>] = f[e][<<>>]
                    /\ \A d : <<d>> \in DOMAIN f[e] =>
                          <<e, d>> \in DOMAIN v /\ v[<<e, d>>] = f[e][<<d>>]
  BY DEF AtMembers
<1>1. \A q \in DOMAIN f[e] : <<e>> \o q \in DOMAIN v /\ v[<<e>> \o q] = f[e][q]
  BY DEF IsJoin
<1>2. <<>> \in DOMAIN f[e] /\ <<e>> \o <<>> = <<e>>
  BY DEF IsTree
<1>3. ASSUME NEW d PROVE <<e>> \o <<d>> = <<e, d>>
  <2>1. PICK h, r, s, E : h = <<e>> /\ r = <<d>> /\ s = <<e, d>> /\ E = {e, d}
    OBVIOUS
  <2>2. h \in Seq(E) /\ Len(h) = 1 /\ h[1] = e /\ r \in Seq(E) /\ Len(r) = 1 /\ r[1] = d
    BY <2>1
  <2>3. s \in Seq(E) /\ Len(s) = 2 /\ s[1] = e /\ s[2] = d
    BY <2>1
  <2>4. PICK t : t = h \o r
    OBVIOUS
  <2>5. t \in Seq(E) /\ Len(t) = 2 /\ t[1] = e /\ t[2] = d
    <3>1. /\ h \o r \in Seq(E) /\ Len(h \o r) = Len(h) + Len(r)
          /\ \A i \in 1..(Len(h) + Len(r)) :
                (h \o r)[i] = IF i <= Len(h) THEN h[i] ELSE r[i - Len(h)]
      BY <2>2, ConcatProperties, Zenon
    <3>2. t \in Seq(E) /\ Len(t) = 2 /\ \A i \in 1..2 : t[i] = IF i <= 1 THEN h[i] ELSE r[i - 1]
      <4>1. Len(h) + Len(r) = 2
        BY <2>2
      <4> QED BY <2>2, <2>4, <3>1, <4>1
    <3> QED BY <2>2, <3>2
  <2>6. Len(t) = Len(s) /\ \A i \in 1..Len(t) : t[i] = s[i]
    BY <2>3, <2>5
  <2>7. t = s
    BY <2>3, <2>5, <2>6, SeqEqual
  <2> QED BY <2>1, <2>4, <2>7
<1> QED BY <1>1, <1>2, <1>3, Zenon

(* ... the heartbeat state, ... *)
LEMMA HeartbeatTells ==
    ASSUME NEW c \in Configs, NEW o \in Options
    PROVE  /\ Tells(HeartbeatState(o), Shown(c, o))
           /\ <<Key(<<"health">>)>> \in DOMAIN HeartbeatState(o)
           /\ HeartbeatState(o)[<<Key(<<"health">>)>>] = String(o.health)
           /\ <<Key(<<"quarantine", "_", "reason">>)>> \in DOMAIN HeartbeatState(o)
           /\ HeartbeatState(o)[<<Key(<<"quarantine", "_", "reason">>)>>] = Reason(o)[<<>>]
<1>1. PICK health, reason : health = Key(<<"health">>) /\ reason = Key(<<"quarantine", "_", "reason">>)
  OBVIOUS
<1>2. health # reason
  BY <1>1 DEF Key
<1>3. PICK f : f = Member(<<"health">>, Leaf(String(o.health))) ++ Member(<<"quarantine", "_", "reason">>, Reason(o))
  OBVIOUS
<1>4. Members(f, Shown(c, o))
  <2>1. <<"health">> \in SnapshotKeys /\ <<"quarantine", "_", "reason">> \in SnapshotKeys
    BY DEF SnapshotKeys
  <2> QED BY <1>3, <2>1, PartsTell, MemberIs, MembersAdd, Zenon
<1>5. /\ health \in DOMAIN f /\ f[health] = Leaf(String(o.health))
      /\ reason \in DOMAIN f /\ f[reason] = Reason(o)
  BY <1>1, <1>2, <1>3 DEF Member, ++
<1>6. HeartbeatState(o) = Join(Object, f)
  BY <1>3, Zenon DEF HeartbeatState, Reason
<1>7. Tells(HeartbeatState(o), Shown(c, o)) /\ IsJoin(HeartbeatState(o), Object, f)
  BY <1>4, <1>6, JoinTells, Zenon DEF Members
<1>8. AtMembers(HeartbeatState(o), f)
  <2>1. \A e \in DOMAIN f : IsTree(f[e])
    BY <1>4, Zenon DEF Members, Tells
  <2> QED BY <1>7, <2>1, MemberAt, Zenon
<1>9. Leaf(String(o.health))[<<>>] = String(o.health)
  BY DEF Leaf
<1> QED BY <1>1, <1>5, <1>7, <1>8, <1>9, Zenon DEF AtMembers

(* ... and the whole snapshot. *)
LEMMA SnapshotTells ==
    ASSUME NEW c \in Configs, NEW o \in Options
    PROVE  /\ Tells(Snapshot(c, o), Shown(c, o))
           /\ {HealthAt, ReasonAt, TokenEnvAt, CredentialAt} \subseteq DOMAIN Snapshot(c, o)
           /\ Snapshot(c, o)[HealthAt] = String(o.health)
           /\ Snapshot(c, o)[ReasonAt] = Reason(o)[<<>>]
           /\ Snapshot(c, o)[TokenEnvAt] = String(c.registration_token_env)
<1> DEFINE T == Shown(c, o)
<1>1. PICK a : a = Member(<<"runner", "_", "id">>, RunnerId(c))
                  ++ Member(<<"control", "_", "plane", "_", "url">>, Leaf(String(c.control_plane_url)))
  OBVIOUS
<1>2. PICK b : b = a ++ Member(<<"registration", "_", "token", "_", "env", "_", "name">>, Leaf(String(c.registration_token_env)))
  OBVIOUS
<1>3. PICK d : d = b ++ Member(<<"credential", "_", "ref">>, CredentialRef(c))
  OBVIOUS
<1>4. PICK g : g = d ++ Member(<<"heartbeat", "_", "state">>, HeartbeatState(o))
  OBVIOUS
<1>5. PICK f : f = g ++ Member(<<"capability", "_", "inventory">>, Inventory(c))
  OBVIOUS
<1>6. Snapshot(c, o) = Join(Object, f)
  BY <1>1, <1>2, <1>3, <1>4, <1>5, Zenon DEF Snapshot, RunnerId, CredentialRef, CredentialMark
<1>7. Members(f, T)
  <2>1. /\ <<"runner", "_", "id">> \in SnapshotKeys /\ <<"control", "_", "plane", "_", "url">> \in SnapshotKeys
        /\ <<"registration", "_", "token", "_", "env", "_", "name">> \in SnapshotKeys
        /\ <<"credential", "_", "ref">> \in SnapshotKeys /\ <<"heartbeat", "_", "state">> \in SnapshotKeys
        /\ <<"capability", "_", "inventory">> \in SnapshotKeys
    BY DEF SnapshotKeys
  <2>2. /\ Members(Member(<<"runner", "_", "id">>, RunnerId(c)), T)
        /\ Members(Member(<<"control", "_", "plane", "_", "url">>, Leaf(String(c.control_plane_url))), T)
        /\ Members(Member(<<"registration", "_", "token", "_", "env", "_", "name">>, Leaf(String(c.registration_token_env))), T)
        /\ Members(Member(<<"credential", "_", "ref">>, CredentialRef(c)), T)
        /\ Members(Member(<<"heartbeat", "_", "state">>, HeartbeatState(o)), T)
        /\ Members(Member(<<"capability", "_", "inventory">>, Inventory(c)), T)
    BY <2>1, PartsTell, InventoryTells, HeartbeatTells, MemberIs, Zenon
  <2> QED BY <1>1, <1>2, <1>3, <1>4, <1>5, <2>2, MembersAdd, Zenon
<1>8. Tells(Snapshot(c, o), T) /\ IsJoin(Snapshot(c, o), Object, f)
  BY <1>6, <1>7, JoinTells, Zenon DEF Members
<1>9. PICK state, token, credential :
         /\ state = Key(<<"heartbeat", "_", "state">>) /\ credential = Key(<<"credential", "_", "ref">>)
         /\ token = Key(<<"registration", "_", "token", "_", "env", "_", "name">>)
  OBVIOUS
<1>10. /\ token \notin DOMAIN a /\ token \in DOMAIN b
       /\ credential \in DOMAIN d
       /\ state \notin DOMAIN d
  <2>1. DOMAIN a = {Key(<<"runner", "_", "id">>), Key(<<"control", "_", "plane", "_", "url">>)}
    BY <1>1 DEF Member, ++
  <2>2. DOMAIN b = DOMAIN a \cup {token} /\ DOMAIN d = DOMAIN b \cup {credential}
    BY <1>2, <1>3, <1>9 DEF Member, ++
  <2>3. /\ token # Key(<<"runner", "_", "id">>) /\ token # Key(<<"control", "_", "plane", "_", "url">>)
        /\ state # Key(<<"runner", "_", "id">>) /\ state # Key(<<"control", "_", "plane", "_", "url">>)
        /\ state # token /\ state # credential
    BY <1>9 DEF Key
  <2> QED BY <2>1, <2>2, <2>3
<1>11. /\ token \in DOMAIN f /\ f[token] = Leaf(String(c.registration_token_env))
       /\ state \in DOMAIN f /\ f[state] = HeartbeatState(o)
       /\ credential \in DOMAIN f
  <2>1. b[token] = Leaf(String(c.registration_token_env))
    BY <1>2, <1>9, <1>10 DEF Member, ++
  <2>2. \A k \in DOMAIN b : k \in DOMAIN d /\ d[k] = b[k]
    BY <1>3 DEF ++
  <2>3. \A k \in DOMAIN d : k \in DOMAIN g /\ g[k] = d[k]
    BY <1>4 DEF ++
  <2>4. state \in DOMAIN g /\ g[state] = HeartbeatState(o)
    BY <1>4, <1>9, <1>10 DEF Member, ++
  <2>5. \A k \in DOMAIN g : k \in DOMAIN f /\ f[k] = g[k]
    BY <1>5 DEF ++
  <2> QED BY <1>10, <2>1, <2>2, <2>3, <2>4, <2>5
<1>12. AtMembers(Snapshot(c, o), f)
  <2>1. \A e \in DOMAIN f : IsTree(f[e])
    BY <1>7, Zenon DEF Members, Tells
  <2> QED BY <1>8, <2>1, MemberAt, Zenon
<1>13. Leaf(String(c.registration_token_env))[<<>>] = String(c.registration_token_env)
  BY DEF Leaf
<1>14. PICK v : v = Snapshot(c, o)
  OBVIOUS
<1>15. /\ <<token>> \in DOMAIN v /\ v[<<token>>] = f[token][<<>>]
       /\ <<credential>> \in DOMAIN v
       /\ \A k : <<k>> \in DOMAIN f[state] =>
             <<state, k>> \in DOMAIN v /\ v[<<state, k>>] = f[state][<<k>>]
  BY <1>11, <1>12, <1>14, Zenon DEF AtMembers
<1>16. PICK health, reason : health = Key(<<"health">>) /\ reason = Key(<<"quarantine", "_", "reason">>)
  OBVIOUS
<1>17. /\ <<health>> \in DOMAIN f[state] /\ f[state][<<health>>] = String(o.health)
       /\ <<reason>> \in DOMAIN f[state] /\ f[state][<<reason>>] = Reason(o)[<<>>]
  BY <1>11, <1>16, HeartbeatTells, Zenon
<1>18. /\ HealthAt = <<state, health>> /\ ReasonAt = <<state, reason>>
       /\ TokenEnvAt = <<token>> /\ CredentialAt = <<credential>>
  BY <1>9, <1>16, Zenon DEF HealthAt, ReasonAt, TokenEnvAt, CredentialAt
<1>19. {HealthAt, ReasonAt, TokenEnvAt, CredentialAt} \subseteq DOMAIN v
  BY <1>15, <1>17, <1>18
<1>20. v[HealthAt] = String(o.health) /\ v[ReasonAt] = Reason(o)[<<>>]
  BY <1>15, <1>17, <1>18, Zenon
<1>21. v[TokenEnvAt] = String(c.registration_token_env)
  BY <1>11, <1>13, <1>15, <1>18, Zenon
<1> QED BY <1>8, <1>14, <1>19, <1>20, <1>21, Zenon

(* No value at all is no tree. *)
LEMMA NoValueIsNoTree == ~IsTree(NoValue)
<1>1. NoValue[<<>>] = [kind |-> "no value"] /\ DOMAIN NoValue = {<<>>}
  BY DEF NoValue, Leaf
<1>2. [kind |-> "no value"] \notin Node
  BY DEF Node, Object, Array, Other
<1> QED BY <1>1, <1>2 DEF IsTree

-----------------------------------------------------------------------------
(* What a pass does to a tree *)

(* What redact_json_value makes of a node. *)
Scanned(node) == IF node.kind = "string" THEN String(Redacted(node.text)) ELSE node

(* What is left of a tree by redact_sensitive_values. *)
Kept(v) == {p \in DOMAIN v : p # <<>> => ~UnderSensitiveKey(Parent(p))}

(* A text of a node is a text. *)
LEMMA NodeIs ==
    ASSUME NEW node \in Node
    PROVE  /\ node.kind = "string" => node = String(node.text) /\ node.text \in SomeText
           /\ node.kind # "string" => node \in {Object, Array, Other}
<1>1. CASE node \in {Object, Array, Other}
  <2>1. Object.kind = "object" /\ Array.kind = "array" /\ Other.kind = "null, number or boolean"
    BY DEF Object, Array, Other
  <2>2. node.kind # "string"
    BY <1>1, <2>1, Zenon
  <2> QED BY <1>1, <2>2
<1>2. CASE node \in [kind : {"string"}, text : SomeText]
  <2>1. node = [kind |-> "string", text |-> node.text] /\ node.kind = "string" /\ node.text \in SomeText
    BY <1>2
  <2> QED BY <2>1, Zenon DEF String
<1> QED BY <1>1, <1>2 DEF Node

(* A text makes a node. *)
LEMMA StringIsNode ==
    ASSUME NEW t \in SomeText
    PROVE  String(t) \in Node /\ String(t).kind = "string" /\ String(t).text = t
BY DEF Node, String

(* A scanned node is a node, and scanning it again changes nothing. *)
LEMMA ScannedStays ==
    ASSUME NEW node \in Node
    PROVE  Scanned(node) \in Node /\ Scanned(Scanned(node)) = Scanned(node)
<1>1. Marker \in Sym /\ SomeText = Seq(Sym)
  BY DEF Sym, SomeText
<1>2. CASE node.kind = "string"
  <2>1. PICK t : t = node.text
    OBVIOUS
  <2>2. t \in Seq(Sym)
    BY <1>1, <1>2, <2>1, NodeIs
  <2>3. PICK u : u = Redacted(t)
    OBVIOUS
  <2>4. u \in SomeText /\ Redacted(u) = u
    BY <1>1, <2>2, <2>3, RedactedIsClean, RedactedStays, Zenon
  <2>5. Scanned(node) = String(u)
    BY <1>2, <2>1, <2>3, Zenon DEF Scanned
  <2>6. String(u) \in Node /\ String(u).kind = "string" /\ String(u).text = u
    BY <2>4, StringIsNode
  <2>7. Scanned(String(u)) = String(u)
    BY <2>4, <2>6, Zenon DEF Scanned
  <2> QED BY <2>5, <2>6, <2>7, Zenon
<1>3. CASE node.kind # "string"
  BY <1>3, Zenon DEF Scanned
<1> QED BY <1>2, <1>3

(* The placeholder of a key is a string. *)
LEMMA PlaceholderIsNode ==
    ASSUME NEW p, LastOf(p) \in Keys
    PROVE  Placeholder(p) \in Node
<1>1. LastOf(p).key \in Seq(Char)
  BY DEF Keys
<1> QED BY <1>1, RedactedKeyIsText, StringIsNode, Zenon DEF Placeholder

(* Where a key alone makes a position sensitive it has a placeholder. *)
LEMMA OwnKeyIs ==
    ASSUME NEW v, IsTree(v), NEW p \in Kept(v), UnderSensitiveKey(p)
    PROVE  p # <<>> /\ BySensitiveKey(p) /\ LastOf(p) \in Keys
<1>1. p \in DOMAIN v /\ p \in Seq(Step)
  BY DEF Kept, IsTree, Step
<1>2. p # <<>>
  BY RootIsUnderNone
<1>3. ~UnderSensitiveKey(Parent(p))
  BY <1>2 DEF Kept
<1>4. BySensitiveKey(p)
  BY <1>1, <1>2, <1>3, UnderParent
<1>5. LastOf(p) \in Keys \/ LastOf(p) \in Indices
  BY <1>1, <1>2 DEF IsTree
<1>6. "key" \in DOMAIN LastOf(p)
  BY <1>4 DEF BySensitiveKey
<1> QED BY <1>2, <1>4, <1>5, <1>6 DEF Indices

(* A tree with its sensitive members replaced, if keyed, its strings       *)
(* scanned, if scanned, and what they were replaced by too, if marked.     *)
NodeMade(v, keyed, p) == IF keyed /\ UnderSensitiveKey(p) THEN Placeholder(p) ELSE v[p]

ScanMade(keyed, scanned, marked, p) ==
    IF keyed /\ UnderSensitiveKey(p) THEN marked ELSE scanned

Made(v, keyed, scanned, marked) ==
    [p \in {p \in DOMAIN v : p # <<>> => ~(keyed /\ UnderSensitiveKey(Parent(p)))} |->
        IF ScanMade(keyed, scanned, marked, p) /\ NodeMade(v, keyed, p).kind = "string"
        THEN String(Redacted(NodeMade(v, keyed, p).text)) ELSE NodeMade(v, keyed, p)]

IsMade(v, keyed, scanned, marked, m) ==
    /\ m = [p \in DOMAIN m |-> m[p]]
    /\ DOMAIN m = IF keyed THEN Kept(v) ELSE DOMAIN v
    /\ \A p \in DOMAIN m :
          m[p] = IF ScanMade(keyed, scanned, marked, p)
                 THEN Scanned(NodeMade(v, keyed, p)) ELSE NodeMade(v, keyed, p)

(* What is made of a tree is what the two redactors do with its nodes. *)
LEMMA MadeIs ==
    ASSUME NEW v, NEW keyed \in BOOLEAN, NEW scanned \in BOOLEAN, NEW marked \in BOOLEAN
    PROVE  IsMade(v, keyed, scanned, marked, Made(v, keyed, scanned, marked))
<1>1. PICK m : m = Made(v, keyed, scanned, marked)
  OBVIOUS
<1>2. m = [p \in DOMAIN m |-> m[p]]
  BY <1>1, Zenon DEF Made
<1>3. DOMAIN m = IF keyed THEN Kept(v) ELSE DOMAIN v
  BY <1>1 DEF Made, Kept
<1>4. ASSUME NEW p \in DOMAIN m
      PROVE  m[p] = IF ScanMade(keyed, scanned, marked, p)
                    THEN Scanned(NodeMade(v, keyed, p)) ELSE NodeMade(v, keyed, p)
  BY <1>1, Zenon DEF Made, Scanned
<1> QED BY <1>1, <1>2, <1>3, <1>4, Zenon DEF IsMade

(* A node with its placeholder, if it gets one, is a node. *)
LEMMA NodeMadeIs ==
    ASSUME NEW v, IsTree(v), NEW keyed \in BOOLEAN, NEW scanned \in BOOLEAN,
           NEW marked \in BOOLEAN, NEW p \in DOMAIN Made(v, keyed, scanned, marked)
    PROVE  p \in DOMAIN v /\ NodeMade(v, keyed, p) \in Node
<1>1. p \in IF keyed THEN Kept(v) ELSE DOMAIN v
  <2>1. IsMade(v, keyed, scanned, marked, Made(v, keyed, scanned, marked))
    BY MadeIs, Zenon
  <2> QED BY <2>1, Zenon DEF IsMade
<1>2. p \in DOMAIN v /\ v[p] \in Node
  BY <1>1 DEF Kept, IsTree
<1>3. keyed /\ UnderSensitiveKey(p) => LastOf(p) \in Keys
  BY <1>1, OwnKeyIs
<1> QED BY <1>2, <1>3, PlaceholderIsNode DEF NodeMade

(* How a scanning pass relates the trees before and behind it, ... *)
ScansTo(B, R) ==
    /\ DOMAIN R = DOMAIN B
    /\ \A p \in DOMAIN B : /\ B[p] \in Node /\ R[p] \in Node
                           /\ R[p] = Scanned(B[p]) /\ R[p] = Scanned(R[p])

(* Scanning what was made of a tree, placeholders and all, makes what      *)
(* scanning the tree would, and its placeholders.                          *)
LEMMA MadeScansTo ==
    ASSUME NEW v, IsTree(v), NEW keyed \in BOOLEAN, NEW scanned \in BOOLEAN, NEW marked \in BOOLEAN
    PROVE  ScansTo(Made(v, keyed, scanned, marked), Made(v, keyed, TRUE, TRUE))
<1>1. PICK B, R : B = Made(v, keyed, scanned, marked) /\ R = Made(v, keyed, TRUE, TRUE)
  OBVIOUS
<1>0. IsMade(v, keyed, scanned, marked, B) /\ IsMade(v, keyed, TRUE, TRUE, R)
  BY <1>1, MadeIs, Zenon
<1>2. DOMAIN R = DOMAIN B
  BY <1>0, Zenon DEF IsMade
<1>3. ASSUME NEW p \in DOMAIN B
      PROVE  /\ B[p] \in Node /\ R[p] \in Node
             /\ R[p] = Scanned(B[p]) /\ R[p] = Scanned(R[p])
  <2>1. PICK n \in Node : n = NodeMade(v, keyed, p)
    BY <1>1, NodeMadeIs
  <2>2. ScanMade(keyed, TRUE, TRUE, p)
    BY DEF ScanMade
  <2>3. R[p] = Scanned(n) /\ (B[p] = n \/ B[p] = Scanned(n))
    BY <1>0, <1>2, <2>1, <2>2, Zenon DEF IsMade
  <2> QED BY <2>1, <2>3, ScannedStays
<1> QED BY <1>1, <1>2, <1>3 DEF ScansTo

(* ... and how one by keys does. *)
KeysTo(B, R) ==
    /\ DOMAIN R = Kept(B)
    /\ \A p \in DOMAIN R : R[p] = IF UnderSensitiveKey(p) THEN Placeholder(p) ELSE B[p]

(* Replacing members puts the placeholders there as they are, over scanned *)
(* ones too, and leaves the other strings scanned or not.                  *)
LEMMA MadeKeysTo ==
    ASSUME NEW v, IsTree(v), NEW keyed \in BOOLEAN, NEW scanned \in BOOLEAN, NEW marked \in BOOLEAN
    PROVE  KeysTo(Made(v, keyed, scanned, marked), Made(v, TRUE, scanned, FALSE))
<1>1. PICK B, R : B = Made(v, keyed, scanned, marked) /\ R = Made(v, TRUE, scanned, FALSE)
  OBVIOUS
<1>0. IsMade(v, keyed, scanned, marked, B) /\ IsMade(v, TRUE, scanned, FALSE, R)
  BY <1>1, MadeIs, Zenon
<1>2. DOMAIN R = Kept(v) /\ DOMAIN B = IF keyed THEN Kept(v) ELSE DOMAIN v
  BY <1>0, Zenon DEF IsMade
<1>3. DOMAIN R = Kept(B)
  BY <1>2 DEF Kept
<1>4. ASSUME NEW p \in DOMAIN R
      PROVE  R[p] = IF UnderSensitiveKey(p) THEN Placeholder(p) ELSE B[p]
  <2>1. p \in DOMAIN B /\ p \in Kept(v)
    BY <1>2, <1>3, <1>4 DEF Kept
  <2>2. /\ R[p] = IF ScanMade(TRUE, scanned, FALSE, p)
                  THEN Scanned(NodeMade(v, TRUE, p)) ELSE NodeMade(v, TRUE, p)
        /\ B[p] = IF ScanMade(keyed, scanned, marked, p)
                  THEN Scanned(NodeMade(v, keyed, p)) ELSE NodeMade(v, keyed, p)
    BY <1>0, <1>4, <2>1, Zenon DEF IsMade
  <2>3. CASE UnderSensitiveKey(p)
    <3>1. NodeMade(v, TRUE, p) = Placeholder(p) /\ ~ScanMade(TRUE, scanned, FALSE, p)
      BY <2>3 DEF NodeMade, ScanMade
    <3> QED BY <2>2, <2>3, <3>1, Zenon
  <2>4. CASE ~UnderSensitiveKey(p)
    <3>1. NodeMade(v, TRUE, p) = v[p] /\ NodeMade(v, keyed, p) = v[p]
      BY <2>4, Zenon DEF NodeMade
    <3>2. ScanMade(TRUE, scanned, FALSE, p) = scanned /\ ScanMade(keyed, scanned, marked, p) = scanned
      BY <2>4, Zenon DEF ScanMade
    <3> QED BY <2>2, <2>4, <3>1, <3>2, Zenon
  <2> QED BY <2>3, <2>4
<1> QED BY <1>1, <1>3, <1>4 DEF KeysTo

(* Without a pass a tree stays as it is. *)
LEMMA MadeOfNothing ==
    ASSUME NEW v, v = [p \in DOMAIN v |-> v[p]]
    PROVE  Made(v, FALSE, FALSE, FALSE) = v
<1>1. PICK m : m = Made(v, FALSE, FALSE, FALSE)
  OBVIOUS
<1>2. DOMAIN m = DOMAIN v /\ m = [p \in DOMAIN m |-> m[p]]
      /\ \A p \in DOMAIN m : m[p] = NodeMade(v, FALSE, p)
  <2>1. IsMade(v, FALSE, FALSE, FALSE, m)
    BY <1>1, MadeIs, Zenon
  <2>2. \A p : ~ScanMade(FALSE, FALSE, FALSE, p)
    BY DEF ScanMade
  <2> QED BY <2>1, <2>2, Zenon DEF IsMade
<1>3. \A p \in DOMAIN v : m[p] = v[p]
  BY <1>2 DEF NodeMade
<1>4. m = v
  BY <1>2, <1>3
<1> QED BY <1>1, <1>4

-----------------------------------------------------------------------------
(* A pass under way *)

(* Calls of a pass from B to R are due for the positions D of the tree v:  *)
(* every node is as it was or as it will be, and what is not within one of *)
(* D is as it will be.                                                     *)
Passing(B, R, v, D) ==
    /\ DOMAIN R \subseteq DOMAIN v /\ DOMAIN v \subseteq DOMAIN B
    /\ \A q \in DOMAIN v :
          /\ v[q] = B[q] \/ (q \in DOMAIN R /\ v[q] = R[q])
          /\ (\A d \in D : ~Within(d, q)) => q \in DOMAIN R /\ v[q] = R[q]

(* With the call for the root due nothing has been done. *)
LEMMA PassBegins ==
    ASSUME NEW B, IsTree(B), NEW R, DOMAIN R \subseteq DOMAIN B
    PROVE  Passing(B, R, B, {<<>>})
<1>1. ASSUME NEW q \in DOMAIN B PROVE Within(<<>>, q)
  <2>1. q \in Seq(Step) /\ <<>> \in Seq(Step)
    BY DEF IsTree, Step
  <2>2. Len(<<>>) = 0 /\ Len(q) \in Nat
    BY <2>1, LenProperties
  <2>3. Len(<<>>) <= Len(q) /\ \A n \in 1..Len(<<>>) : <<>>[n] = q[n]
    BY <2>2
  <2> QED BY <2>1, <2>3, WithinIs
<1> QED BY <1>1 DEF Passing

(* With no call due all has been done. *)
LEMMA PassEnds ==
    ASSUME NEW B, NEW R, NEW v, Passing(B, R, v, {}), R = [p \in DOMAIN R |-> R[p]],
           v = [p \in DOMAIN v |-> v[p]]
    PROVE  v = R
<1>1. DOMAIN v = DOMAIN R /\ \A p \in DOMAIN v : v[p] = R[p]
  BY DEF Passing
<1> QED BY <1>1

(* More calls may be due. *)
LEMMA PassingMore ==
    ASSUME NEW B, NEW R, NEW v, NEW D, Passing(B, R, v, D), NEW E, D \subseteq E
    PROVE  Passing(B, R, v, E)
BY DEF Passing

(* A call for no string hands on to its children. *)
LEMMA CallHandsOn ==
    ASSUME NEW B, NEW R, NEW v, IsTree(v), NEW D, D \subseteq DOMAIN v, Passing(B, R, v, D),
           ScansTo(B, R), NEW p \in D, v[p].kind # "string"
    PROVE  Passing(B, R, v, (D \ {p}) \cup ChildrenOf(v, p))
<1>1. PICK E : E = (D \ {p}) \cup ChildrenOf(v, p)
  OBVIOUS
<1>2. ASSUME NEW q \in DOMAIN v, \A d \in E : ~Within(d, q)
      PROVE  q \in DOMAIN R /\ v[q] = R[q]
  <2>1. p \in Seq(Step)
    BY DEF IsTree, Step
  <2>2. CASE ~Within(p, q)
    <3>1. \A d \in D : ~Within(d, q)
      BY <1>1, <1>2, <2>2
    <3> QED BY <3>1 DEF Passing
  <2>3. CASE Within(p, q) /\ p # q
    <3>1. PICK c \in ChildrenOf(v, p) : Within(c, q)
      BY <2>1, <2>3, ChildBetween
    <3> QED BY <1>1, <1>2, <3>1
  <2>4. CASE p = q
    <3>1. q \in DOMAIN B /\ q \in DOMAIN R /\ R[q] = Scanned(B[q])
      BY DEF Passing, ScansTo
    <3>2. v[q] = B[q] \/ v[q] = R[q]
      BY DEF Passing
    <3>3. CASE v[q] = B[q]
      <4>1. Scanned(B[q]) = B[q]
        BY <2>4, <3>3 DEF Scanned
      <4> QED BY <3>1, <3>3, <4>1
    <3> QED BY <3>1, <3>2, <3>3
  <2> QED BY <2>2, <2>3, <2>4
<1>3. Passing(B, R, v, E)
  BY <1>2 DEF Passing
<1> QED BY <1>1, <1>3

(* w is v with another node at p. *)
PutAt(v, p, node, w) ==
    /\ w = [q \in DOMAIN w |-> w[q]] /\ DOMAIN w = DOMAIN v
    /\ w[p] = node /\ \A q \in DOMAIN v : q # p => w[q] = v[q]

(* A string is put in the place of another. *)
LEMMA StringReturns ==
    ASSUME NEW B, NEW R, NEW v, IsTree(v), NEW D, Passing(B, R, v, D), ScansTo(B, R),
           NEW p \in DOMAIN v, v[p].kind = "string", NEW w, PutAt(v, p, Scanned(v[p]), w),
           NEW E, D \subseteq E \cup {p}
    PROVE  IsTree(w) /\ DOMAIN w = DOMAIN v /\ Passing(B, R, w, E)
<1>1. DOMAIN w = DOMAIN v /\ w = [q \in DOMAIN w |-> w[q]] /\ w[p] = Scanned(v[p])
      /\ \A q \in DOMAIN v : q # p => w[q] = v[q]
  BY DEF PutAt
<1>2. p \in DOMAIN R /\ w[p] = R[p] /\ R[p] \in Node /\ v[p] \in Node
  BY <1>1 DEF Passing, ScansTo, IsTree
<1>3. v[p] # Object /\ v[p] # Array
  BY DEF Object, Array
<1>4. IsTree(w)
  <2>1. w \in [DOMAIN w -> Node]
    BY <1>1, <1>2 DEF IsTree
  <2>2. ASSUME NEW q \in DOMAIN w \ {<<>>}
        PROVE  /\ Parent(q) \in DOMAIN w
               /\ \/ w[Parent(q)] = Object /\ LastOf(q) \in Keys
                  \/ w[Parent(q)] = Array /\ LastOf(q) \in Indices
    <3>1. /\ Parent(q) \in DOMAIN v
          /\ \/ v[Parent(q)] = Object /\ LastOf(q) \in Keys
             \/ v[Parent(q)] = Array /\ LastOf(q) \in Indices
      BY <1>1 DEF IsTree
    <3>2. Parent(q) # p
      BY <1>3, <3>1
    <3> QED BY <1>1, <3>1, <3>2
  <2> QED BY <1>1, <2>1, <2>2 DEF IsTree
<1>5. ASSUME NEW q \in DOMAIN w, \A d \in E : ~Within(d, q)
      PROVE  q \in DOMAIN R /\ w[q] = R[q]
  <2>1. CASE q = p
    BY <1>2, <2>1
  <2>2. CASE q # p
    <3>1. p \in Seq(Step) /\ q \in DOMAIN v
      BY <1>1 DEF IsTree, Step
    <3>2. ~Within(p, q)
      BY <2>2, <3>1, ChildBetween, StringIsLeaf
    <3>3. \A d \in D : ~Within(d, q)
      BY <1>5, <3>2
    <3> QED BY <1>1, <2>2, <3>1, <3>3 DEF Passing
  <2> QED BY <2>1, <2>2
<1>6. ASSUME NEW q \in DOMAIN w PROVE w[q] = B[q] \/ (q \in DOMAIN R /\ w[q] = R[q])
  BY <1>1, <1>2, <1>6 DEF Passing
<1>7. Passing(B, R, w, E)
  BY <1>1, <1>5, <1>6 DEF Passing
<1> QED BY <1>1, <1>4, <1>7

(* The sensitive children of a position that is not under a sensitive key. *)
LEMMA SensitiveIs ==
    ASSUME NEW v, IsTree(v), NEW p \in DOMAIN v, ~UnderSensitiveKey(p)
    PROVE  \A c \in ChildrenOf(v, p) : c \in SensitiveChildren(v, p) <=> UnderSensitiveKey(c)
<1> SUFFICES ASSUME NEW c \in ChildrenOf(v, p)
             PROVE  c \in SensitiveChildren(v, p) <=> UnderSensitiveKey(c)
  OBVIOUS
<1>1. p \in Seq(Step)
  BY DEF IsTree, Step
<1>2. c \in DOMAIN v /\ c \in Seq(Step) /\ c # <<>> /\ Parent(c) = p
  BY <1>1, ChildIs
<1>3. UnderSensitiveKey(c) <=> BySensitiveKey(c)
  BY <1>2, UnderParent
<1>4. \/ v[p] = Object /\ LastOf(c) \in Keys
      \/ v[p] = Array /\ LastOf(c) \in Indices
  BY <1>2 DEF IsTree
<1>5. LastOf(c) \in Keys => "key" \in DOMAIN LastOf(c)
  BY DEF Keys
<1>6. LastOf(c) \in Indices => "key" \notin DOMAIN LastOf(c)
  BY DEF Indices
<1>7. Array # Object
  BY DEF Object, Array
<1> QED BY <1>3, <1>4, <1>5, <1>6, <1>7 DEF BySensitiveKey, SensitiveChildren

(* A call by keys: the sensitive members are replaced, with all that is    *)
(* below them, and it hands on to the others.                              *)
LEMMA MembersReplaced ==
    ASSUME NEW B, NEW R, NEW v, IsTree(v), NEW D, D \subseteq DOMAIN v, Passing(B, R, v, D),
           KeysTo(B, R), \A d \in D : ~UnderSensitiveKey(d), NEW p \in D,
           NEW S, S = SensitiveChildren(v, p), NEW w, w = Replaced(v, S),
           NEW E, E = (D \ {p}) \cup (ChildrenOf(v, p) \ S)
    PROVE  /\ IsTree(w) /\ E \subseteq DOMAIN w /\ \A d \in E : ~UnderSensitiveKey(d)
           /\ Passing(B, R, w, E)
<1>1. DOMAIN v \subseteq Seq(Step) /\ p \in Seq(Step) /\ p \in DOMAIN v /\ ~UnderSensitiveKey(p)
  BY DEF IsTree, Step
<1>2. S \subseteq ChildrenOf(v, p) /\ \A c \in ChildrenOf(v, p) : c \in S <=> UnderSensitiveKey(c)
  BY <1>1, SensitiveIs DEF SensitiveChildren
<1>3. ASSUME NEW c \in ChildrenOf(v, p)
      PROVE  /\ c \in DOMAIN v /\ c \in Seq(Step) /\ c # <<>> /\ Parent(c) = p
             /\ Len(c) = Len(p) + 1 /\ Within(p, c)
  BY <1>1, ChildIs
<1>4. PICK gone : gone = UNION {Below(v, s) : s \in S}
  OBVIOUS
<1>5. /\ w = [q \in DOMAIN w |-> w[q]] /\ DOMAIN w = DOMAIN v \ gone
      /\ \A q \in DOMAIN w : w[q] = IF q \in S THEN Placeholder(q) ELSE v[q]
  BY <1>4, Zenon DEF Replaced
<1>6. ASSUME NEW q
      PROVE  q \in gone <=> q \in DOMAIN v /\ \E s \in S : Len(s) < Len(q) /\ Within(s, q)
  <2>1. q \in gone <=> \E s \in S : q \in Below(v, s)
    BY <1>4, Zenon
  <2>2. ASSUME NEW s \in S, q \in DOMAIN v PROVE q \in Below(v, s) <=> Len(s) < Len(q) /\ Within(s, q)
    <3>1. Len(s) \in Nat /\ Len(q) \in Nat
      BY <1>1, <1>2, <1>3, <2>2, LenProperties
    <3>2. Len(s) < Len(q) => Len(s) <= Len(q)
      BY <3>1
    <3> QED BY <2>2, <3>2, Zenon DEF Below, Within
  <2>3. \A s \in S : q \in Below(v, s) => q \in DOMAIN v
    BY DEF Below
  <2> QED BY <2>1, <2>2, <2>3, Zenon
<1>7. ASSUME NEW q \in gone PROVE q # <<>> /\ UnderSensitiveKey(Parent(q)) /\ UnderSensitiveKey(q)
  <2>1. PICK s \in S : q \in DOMAIN v /\ Len(s) < Len(q) /\ Within(s, q)
    BY <1>6, <1>7
  <2>2. s \in Seq(Step) /\ q \in Seq(Step) /\ UnderSensitiveKey(s)
    BY <1>1, <1>2, <1>3, <2>1
  <2>3. q # <<>> /\ Within(s, Parent(q))
    BY <2>1, <2>2, AboveParent
  <2>4. Parent(q) \in Seq(Step)
    BY <2>2, <2>3, ParentIs
  <2> QED BY <2>1, <2>2, <2>3, <2>4, UnderWithin
<1>8. \A s \in S : s \in DOMAIN w /\ s \in Kept(B) /\ R[s] = Placeholder(s) /\ w[s] = Placeholder(s)
  <2> SUFFICES ASSUME NEW s \in S
               PROVE  s \in DOMAIN w /\ s \in Kept(B) /\ R[s] = Placeholder(s) /\ w[s] = Placeholder(s)
    OBVIOUS
  <2>1. s \in DOMAIN v /\ s # <<>> /\ Parent(s) = p /\ UnderSensitiveKey(s)
    BY <1>2, <1>3
  <2>2. s \in DOMAIN w
    BY <1>1, <1>5, <1>7, <2>1
  <2>3. s \in Kept(B)
    BY <1>1, <2>1 DEF Kept, Passing
  <2> QED BY <1>5, <2>1, <2>2, <2>3 DEF KeysTo
<1>9. IsTree(w)
  <2>1. ASSUME NEW q \in DOMAIN w PROVE w[q] \in Node
    <3>1. CASE q \in S
      <4>1. q \in DOMAIN v /\ q # <<>> /\ Parent(q) = p /\ UnderSensitiveKey(q)
        BY <1>2, <1>3, <3>1
      <4>2. q \in Kept(v)
        BY <1>1, <4>1 DEF Kept
      <4>3. LastOf(q) \in Keys
        BY <4>1, <4>2, OwnKeyIs
      <4> QED BY <1>5, <3>1, <4>3, PlaceholderIsNode
    <3>2. CASE q \notin S
      BY <1>5, <3>2 DEF IsTree
    <3> QED BY <3>1, <3>2
  <2>2. w \in [DOMAIN w -> Node]
    BY <1>5, <2>1
  <2>3. <<>> \in DOMAIN w /\ DOMAIN w \subseteq Seq(Keys \cup Indices)
    BY <1>5, <1>7 DEF IsTree
  <2>4. ASSUME NEW q \in DOMAIN w \ {<<>>}
        PROVE  /\ Parent(q) \in DOMAIN w
               /\ \/ w[Parent(q)] = Object /\ LastOf(q) \in Keys
                  \/ w[Parent(q)] = Array /\ LastOf(q) \in Indices
    <3>1. q \in DOMAIN v /\ q \in Seq(Step) /\ q # <<>> /\ q \notin gone
      BY <1>1, <1>5
    <3>2. /\ Parent(q) \in DOMAIN v
          /\ \/ v[Parent(q)] = Object /\ LastOf(q) \in Keys
             \/ v[Parent(q)] = Array /\ LastOf(q) \in Indices
      BY <3>1 DEF IsTree
    <3>3. /\ Len(q) \in Nat /\ Parent(q) \in Seq(Step) /\ Len(Parent(q)) = Len(q) - 1
          /\ Len(Parent(q)) < Len(q)
      <4>1. Len(q) \in Nat /\ Parent(q) \in Seq(Step) /\ Len(Parent(q)) = Len(q) - 1
        BY <3>1, ParentIs
      <4> QED BY <4>1
    <3>4. Parent(q) \notin S
      <4> SUFFICES ASSUME Parent(q) \in S PROVE FALSE
        OBVIOUS
      <4>1. Within(Parent(q), Parent(q))
        BY <3>3, WithinSelf
      <4>2. Within(Parent(q), q)
        BY <3>1, <3>3, <4>1, AboveParent
      <4> QED BY <1>6, <3>1, <3>3, <4>2
    <3>5. Parent(q) \notin gone
      <4> SUFFICES ASSUME Parent(q) \in gone PROVE FALSE
        OBVIOUS
      <4>1. PICK s \in S : Len(s) < Len(Parent(q)) /\ Within(s, Parent(q))
        BY <1>6
      <4>2. s \in Seq(Step) /\ Len(s) \in Nat
        BY <1>2, <1>3, LenProperties
      <4>3. Len(s) < Len(q)
        BY <3>3, <4>1, <4>2
      <4>4. Within(s, q)
        BY <3>1, <4>1, <4>2, <4>3, AboveParent
      <4> QED BY <1>6, <3>1, <4>3, <4>4
    <3> QED BY <1>5, <3>2, <3>4, <3>5
  <2> QED BY <2>2, <2>3, <2>4 DEF IsTree
<1>10. \A d \in E : ~UnderSensitiveKey(d)
  BY <1>2
<1>11. E \subseteq DOMAIN w
  BY <1>3, <1>5, <1>7, <1>10
<1>12. DOMAIN R \subseteq DOMAIN w /\ DOMAIN w \subseteq DOMAIN B
  <2>1. \A q \in DOMAIN R : q \in DOMAIN v /\ q \notin gone
    BY <1>7 DEF KeysTo, Kept, Passing
  <2> QED BY <1>5, <2>1 DEF Passing
<1>13. ASSUME NEW q \in DOMAIN w PROVE w[q] = B[q] \/ (q \in DOMAIN R /\ w[q] = R[q])
  <2>1. CASE q \in S
    BY <1>8, <2>1 DEF KeysTo
  <2>2. CASE q \notin S
    BY <1>5, <2>2 DEF Passing
  <2> QED BY <2>1, <2>2
<1>14. ASSUME NEW q \in DOMAIN w, \A d \in E : ~Within(d, q)
       PROVE  q \in DOMAIN R /\ w[q] = R[q]
  <2>1. CASE q \in S
    BY <1>8, <2>1 DEF KeysTo
  <2>2. CASE q \notin S /\ ~Within(p, q)
    <3>1. \A d \in D : ~Within(d, q)
      BY <1>14, <2>2
    <3> QED BY <1>5, <2>2, <3>1 DEF Passing
  <2>3. CASE q = p
    <3>1. q # <<>> => ~UnderSensitiveKey(Parent(q))
      BY <1>1, <2>3, UnderParent
    <3>2. q \in DOMAIN R /\ R[q] = B[q]
      BY <1>1, <1>12, <2>3, <3>1 DEF KeysTo, Kept
    <3>3. q \notin S
      BY <1>1, <1>2, <2>3
    <3> QED BY <1>5, <3>2, <3>3 DEF Passing
  <2>4. CASE q \notin S /\ Within(p, q) /\ q # p
    <3>1. q \in DOMAIN v /\ q \notin gone /\ q \in Seq(Step)
      BY <1>1, <1>5
    <3>2. PICK c \in ChildrenOf(v, p) : Within(c, q)
      BY <1>1, <2>4, <3>1, ChildBetween
    <3>3. c \in S
      BY <1>14, <3>2
    <3>4. c # q /\ c \in Seq(Step)
      BY <1>3, <2>4, <3>2, <3>3
    <3>5. Len(c) \in Nat /\ Len(q) \in Nat
      BY <3>1, <3>4, LenProperties
    <3>6. ~(Len(c) >= Len(q))
      BY <3>1, <3>2, <3>4, WithinSameLength
    <3>7. Len(c) < Len(q)
      BY <3>5, <3>6
    <3> QED BY <1>6, <3>1, <3>2, <3>3, <3>7
  <2> QED BY <2>1, <2>2, <2>3, <2>4
<1>15. Passing(B, R, w, E)
  BY <1>12, <1>13, <1>14 DEF Passing
<1> QED BY <1>9, <1>10, <1>11, <1>15

-----------------------------------------------------------------------------
(* Every redaction of a value *)

Passes == {"redact_json_value", "redact_sensitive_values"}

(* r is one of the passes ps, one before the last of them, the last, the   *)
(* last but one.                                                           *)
Among(ps, r) == \E n \in DOMAIN ps : ps[n] = r
AmongBefore(ps, r) == \E n \in 1..(Len(ps) - 1) : ps[n] = r

EndsIn(ps, r) == ps # <<>> /\ ps[Len(ps)] = r
EndedIn(ps, r) == Len(ps) > 1 /\ ps[Len(ps) - 1] = r

(* What the passes ps make of v, and what all but the last of them make.   *)
Target(v, ps) ==
    Made(v, Among(ps, "redact_sensitive_values"), Among(ps, "redact_json_value"),
         EndsIn(ps, "redact_json_value"))
Before(v, ps) ==
    Made(v, AmongBefore(ps, "redact_sensitive_values"), AmongBefore(ps, "redact_json_value"),
         EndedIn(ps, "redact_json_value"))

(* The reference is what the passes asked for make of the original. *)
LEMMA ReferenceIs == Reference = Target(original, passes)
BY Zenon DEF Reference, Target, Made, NodeMade, ScanMade, Asked, Among, LastAsked, Last, EndsIn

(* A pass is the last one or before it. *)
LEMMA AmongIs ==
    ASSUME NEW ps \in Seq(Passes), ps # <<>>, NEW r
    PROVE  Among(ps, r) <=> AmongBefore(ps, r) \/ ps[Len(ps)] = r
<1>1. Len(ps) \in Nat /\ Len(ps) >= 1 /\ DOMAIN ps = 1..Len(ps)
  BY LenProperties, EmptySeq
<1>2. PICK m \in Nat : m = Len(ps) /\ m >= 1
  BY <1>1
<1>3. /\ m \in 1..m
      /\ \A n \in 1..m : n = m \/ n \in 1..(m - 1)
      /\ \A n \in 1..(m - 1) : n \in 1..m
  BY <1>2
<1> QED BY <1>1, <1>2, <1>3, Zenon DEF Among, AmongBefore

(* Behind one more pass, those before the last are all there were. *)
LEMMA AmongAppended ==
    ASSUME NEW ps \in Seq(Passes), NEW r \in Passes, NEW qs, qs = Append(ps, r)
    PROVE  /\ qs \in Seq(Passes) /\ qs # <<>> /\ qs[Len(qs)] = r
           /\ \A x : AmongBefore(qs, x) <=> Among(ps, x)
           /\ \A x : EndedIn(qs, x) <=> EndsIn(ps, x)
<1>1. /\ qs \in Seq(Passes) /\ Len(qs) = Len(ps) + 1 /\ Len(ps) \in Nat /\ qs[Len(ps) + 1] = r
      /\ \A n \in 1..Len(ps) : qs[n] = ps[n]
  BY AppendProperties, LenProperties
<1>2. qs # <<>> /\ Len(qs) - 1 = Len(ps) /\ DOMAIN ps = 1..Len(ps)
  BY <1>1, LenProperties
<1>3. ASSUME NEW x PROVE AmongBefore(qs, x) <=> Among(ps, x)
  <2>1. (\E n \in 1..Len(ps) : qs[n] = x) <=> (\E n \in 1..Len(ps) : ps[n] = x)
    BY <1>1, Zenon
  <2> QED BY <1>2, <2>1, Zenon DEF Among, AmongBefore
<1>4. ASSUME NEW x PROVE EndedIn(qs, x) <=> EndsIn(ps, x)
  <2>1. Len(qs) > 1 <=> ps # <<>>
    BY <1>1, EmptySeq
  <2>2. ps # <<>> => Len(ps) \in 1..Len(ps)
    BY <1>1, EmptySeq
  <2>3. ps # <<>> => qs[Len(qs) - 1] = ps[Len(ps)]
    BY <1>1, <1>2, <2>2, Zenon
  <2> QED BY <2>1, <2>3, Zenon DEF EndedIn, EndsIn
<1> QED BY <1>1, <1>2, <1>3, <1>4, Zenon

(* The last pass makes the whole of what was before it. *)
LEMMA LastPass ==
    ASSUME NEW v, IsTree(v), NEW ps \in Seq(Passes), ps # <<>>
    PROVE  /\ ps[Len(ps)] = "redact_json_value" => ScansTo(Before(v, ps), Target(v, ps))
           /\ ps[Len(ps)] = "redact_sensitive_values" => KeysTo(Before(v, ps), Target(v, ps))
           /\ DOMAIN Target(v, ps) \subseteq DOMAIN Before(v, ps)
<1>1. PICK k \in BOOLEAN, j \in BOOLEAN, m \in BOOLEAN :
         /\ k = AmongBefore(ps, "redact_sensitive_values") /\ j = AmongBefore(ps, "redact_json_value")
         /\ m = EndedIn(ps, "redact_json_value")
  BY Zenon DEF AmongBefore, EndedIn
<1>2. PICK kk \in BOOLEAN, jj \in BOOLEAN, mm \in BOOLEAN :
         /\ kk = Among(ps, "redact_sensitive_values") /\ jj = Among(ps, "redact_json_value")
         /\ mm = EndsIn(ps, "redact_json_value")
  BY Zenon DEF Among, EndsIn
<1>3. Before(v, ps) = Made(v, k, j, m) /\ Target(v, ps) = Made(v, kk, jj, mm)
  BY <1>1, <1>2, Zenon DEF Before, Target
<1>4. CASE ps[Len(ps)] = "redact_json_value"
  <2>0. ps[Len(ps)] # "redact_sensitive_values"
    BY <1>4
  <2>1. kk = k /\ jj = TRUE /\ mm = TRUE
    BY <1>1, <1>2, <1>4, <2>0, AmongIs, Zenon DEF EndsIn
  <2>2. ScansTo(Made(v, k, j, m), Made(v, k, TRUE, TRUE))
    BY MadeScansTo, Zenon
  <2>3. ScansTo(Before(v, ps), Target(v, ps))
    BY <1>3, <2>1, <2>2, Zenon
  <2> QED BY <2>0, <2>3 DEF ScansTo
<1>5. CASE ps[Len(ps)] = "redact_sensitive_values"
  <2>0. ps[Len(ps)] # "redact_json_value"
    BY <1>5
  <2>1. kk = TRUE /\ jj = j /\ mm = FALSE
    BY <1>1, <1>2, <1>5, <2>0, AmongIs, Zenon DEF EndsIn
  <2>2. KeysTo(Made(v, k, j, m), Made(v, TRUE, j, FALSE))
    BY MadeKeysTo, Zenon
  <2>3. KeysTo(Before(v, ps), Target(v, ps))
    BY <1>3, <2>1, <2>2, Zenon
  <2> QED BY <2>0, <2>3 DEF KeysTo, Kept
<1>6. ps[Len(ps)] \in Passes
  <2>1. Len(ps) \in 1..Len(ps)
    BY LenProperties, EmptySeq
  <2> QED BY <2>1, ElementOfSeq
<1> QED BY <1>4, <1>5, <1>6 DEF Passes

(* The trees made are functions. *)
LEMMA TargetIs ==
    ASSUME NEW v, NEW ps
    PROVE  Target(v, ps) = [p \in DOMAIN Target(v, ps) |-> Target(v, ps)[p]]
BY Zenon DEF Target, Made

(* Before the first pass a value is as it was. *)
LEMMA NoPassYet ==
    ASSUME NEW v, v = [p \in DOMAIN v |-> v[p]]
    PROVE  Target(v, <<>>) = v
<1>1. \A r : ~Among(<<>>, r) /\ ~EndsIn(<<>>, r)
  BY DEF Among, EndsIn
<1>2. PICK k \in BOOLEAN, j \in BOOLEAN, m \in BOOLEAN :
         /\ k = Among(<<>>, "redact_sensitive_values") /\ j = Among(<<>>, "redact_json_value")
         /\ m = EndsIn(<<>>, "redact_json_value")
  BY Zenon DEF Among, EndsIn
<1>3. k = FALSE /\ j = FALSE /\ m = FALSE
  BY <1>1, <1>2, Zenon
<1>4. Target(v, <<>>) = Made(v, k, j, m)
  BY <1>2, Zenon DEF Target
<1> QED BY <1>3, <1>4, MadeOfNothing, Zenon

(* What one pass more begins with is what the passes before it made. *)
LEMMA OnePassMore ==
    ASSUME NEW v, NEW ps \in Seq(Passes), NEW r \in Passes, NEW qs, qs = Append(ps, r)
    PROVE  /\ qs \in Seq(Passes) /\ qs # <<>> /\ qs[Len(qs)] = r
           /\ Before(v, qs) = Target(v, ps)
<1>1. /\ qs \in Seq(Passes) /\ qs # <<>> /\ qs[Len(qs)] = r
      /\ \A x : AmongBefore(qs, x) <=> Among(ps, x)
      /\ \A x : EndedIn(qs, x) <=> EndsIn(ps, x)
  BY AmongAppended, Zenon
<1>2. \A x : AmongBefore(qs, x) = Among(ps, x) /\ EndedIn(qs, x) = EndsIn(ps, x)
  BY <1>1, Zenon DEF AmongBefore, Among, EndedIn, EndsIn
<1>3. Before(v, qs) = Target(v, ps)
  BY <1>2, Zenon DEF Before, Target
<1> QED BY <1>1, <1>3

(* The string at p is being scanned. *)
InString(p) ==
    /\ at = {p}
    /\ value[p].kind = "string"
    /\ chunk = [line |-> value[p].text, redacted |-> FALSE]
    /\ InTurn(Sym, text, output, cursor)

(* The invariant: the value is a tree on its way from what the passes      *)
(* before the last made of the original to what the last makes of it.      *)
ValueInv ==
    /\ IsTree(original) /\ IsTree(value)
    /\ passes \in Seq(Passes)
    /\ due \cup at \subseteq DOMAIN value
    /\ passes = <<>> => value = original /\ due = {}
    /\ passes # <<>> => Passing(Before(original, passes), Target(original, passes), value, due \cup at)
    /\ passes # <<>> /\ Last = "redact_sensitive_values" => \A d \in due : ~UnderSensitiveKey(d)
    /\ returned => at = {}
    /\ ~returned => passes # <<>> /\ Last = "redact_json_value" /\ \E p \in DOMAIN value : InString(p)

TreeInv ==
    /\ original = NoValue => passes = <<>> /\ value = original
    /\ original # NoValue => ValueInv

(* It holds of a chunk and of a value no one redacted. *)
LEMMA TreeInit == Init => TreeInv
<1> SUFFICES ASSUME Init PROVE TreeInv
  OBVIOUS
<1>1. value = original /\ passes = <<>> /\ due = {} /\ at = {}
  BY DEF Init
<1>2. CASE EmitChunk /\ original = NoValue
  BY <1>1, <1>2 DEF TreeInv
<1>3. CASE NoScan /\ original \in Values
  <2>1. IsTree(original) /\ returned = TRUE
    BY <1>3, ValuesAssumption DEF NoScan
  <2> QED BY <1>1, <2>1, NoValueIsNoTree DEF TreeInv, ValueInv
<1> QED BY <1>2, <1>3 DEF Init

(* A turn of the scan of a string leaves the tree. *)
LEMMA TurnKeepsTree ==
    ASSUME RedactInv, ValueInv, Turn
    PROVE  ValueInv'
<1>1. /\ UNCHANGED <<original, asked, value, passes, due, at>> /\ UNCHANGED <<chunk, returned>>
      /\ replace \/ copy_rest
  BY DEF Turn, treeVars, replace, copy_rest
<1>2. ~returned
  BY <1>1, NoTurnAtRest
<1>3. PICK p \in DOMAIN value : InString(p)
  BY <1>2 DEF ValueInv
<1>4. InTurn(Sym, text, output', cursor') /\ text' = text
  <2>1. Marker \in Sym
    BY DEF Sym
  <2> QED BY <1>1, <1>3, <2>1, TurnFollows DEF InString, text
<1>5. InString(p)' /\ p \in DOMAIN value'
  BY <1>1, <1>3, <1>4 DEF InString
<1> QED BY <1>1, <1>2, <1>5 DEF ValueInv, Last

(* A value at rest is what the passes make of the original. *)
LEMMA RestIsTarget ==
    ASSUME ValueInv, AtRest
    PROVE  value = Target(original, passes)
<1>1. /\ original = [p \in DOMAIN original |-> original[p]]
      /\ value = [p \in DOMAIN value |-> value[p]]
  BY DEF ValueInv, IsTree
<1>2. CASE passes = <<>>
  <2>1. Target(original, <<>>) = original
    BY <1>1, NoPassYet, Zenon
  <2> QED BY <1>2, <2>1 DEF ValueInv
<1>3. CASE passes # <<>>
  <2>1. PICK B, R, v : B = Before(original, passes) /\ R = Target(original, passes) /\ v = value
    OBVIOUS
  <2>2. due \cup at = {}
    BY DEF ValueInv, AtRest
  <2>3. Passing(B, R, v, {})
    BY <1>3, <2>1, <2>2 DEF ValueInv
  <2>4. R = [p \in DOMAIN R |-> R[p]]
    BY <2>1, TargetIs, Zenon
  <2>5. v = R
    BY <1>1, <2>1, <2>3, <2>4, PassEnds, Zenon
  <2> QED BY <2>1, <2>5
<1> QED BY <1>2, <1>3

(* A redaction begins at the root of what the ones before it made. *)
LEMMA PassKeeps ==
    ASSUME NEW redactor \in Passes, IsTree(original'), IsTree(value'),
           NEW ps \in Seq(Passes), value' = Target(original', ps), passes' = Append(ps, redactor),
           due' = {<<>>}, at' = {}, returned'
    PROVE  ValueInv'
<1>1. PICK o, v, qs : o = original' /\ v = value' /\ qs = passes'
  OBVIOUS
<1>2. IsTree(o) /\ IsTree(v) /\ v = Target(o, ps) /\ qs = Append(ps, redactor)
  BY <1>1
<1>3. /\ qs \in Seq(Passes) /\ qs # <<>> /\ qs[Len(qs)] = redactor
      /\ Before(o, qs) = Target(o, ps)
  BY <1>2, OnePassMore, Zenon
<1>4. DOMAIN Target(o, qs) \subseteq DOMAIN Before(o, qs)
  BY <1>2, <1>3, LastPass
<1>5. Passing(Before(o, qs), Target(o, qs), v, {<<>>})
  <2>1. PICK R : R = Target(o, qs)
    OBVIOUS
  <2>2. DOMAIN R \subseteq DOMAIN v /\ Before(o, qs) = v
    BY <1>2, <1>3, <1>4, <2>1
  <2>3. Passing(v, R, v, {<<>>})
    BY <1>2, <2>2, PassBegins, Zenon
  <2> QED BY <2>1, <2>2, <2>3
<1>6. <<>> \in DOMAIN v /\ ~UnderSensitiveKey(<<>>)
  BY <1>2, RootIsUnderNone DEF IsTree
<1>7. due' \cup at' = {<<>>}
  OBVIOUS
<1> QED BY <1>1, <1>3, <1>5, <1>6, <1>7 DEF ValueInv

(* A redactor is called. *)
LEMMA RedactKeepsTree ==
    ASSUME ValueInv, NEW redactor \in Passes, redact(redactor)
    PROVE  ValueInv'
<1>1. /\ AtRest /\ passes' = Append(passes, redactor) /\ due' = {<<>>}
      /\ original' = original /\ value' = value /\ at' = at /\ returned' = returned
  BY DEF redact, scanVars
<1>2. value' = Target(original', passes)
  BY <1>1, RestIsTarget
<1>3. at' = {} /\ returned'
  BY <1>1 DEF AtRest, ValueInv
<1>4. IsTree(original') /\ IsTree(value') /\ passes \in Seq(Passes)
  BY <1>1 DEF ValueInv
<1> QED BY <1>1, <1>2, <1>3, <1>4, PassKeeps

(* Diagnostics are asked for. *)
LEMMA DiagnosticsKeepTree ==
    ASSUME RedactInv, ValueInv, NEW c \in Configs, NEW o \in Options, operator_diagnostics(c, o)
    PROVE  ValueInv'
<1>1. /\ passes = <<>> /\ original' = Snapshot(c, o) /\ value' = Snapshot(c, o)
      /\ passes' = <<"redact_sensitive_values">> /\ due' = {<<>>}
      /\ at' = at /\ returned' = returned
  BY DEF operator_diagnostics, scanVars
<1>2. PICK v : v = Snapshot(c, o)
  OBVIOUS
<1>3. IsTree(v)
  BY <1>2, SnapshotTells DEF Tells
<1>4. Target(v, <<>>) = v
  <2>1. v = [p \in DOMAIN v |-> v[p]]
    BY <1>3 DEF IsTree
  <2> QED BY <2>1, NoPassYet, Zenon
<1>5. returned /\ at = {}
  BY <1>1 DEF ValueInv
<1>6. /\ "redact_sensitive_values" \in Passes /\ <<>> \in Seq(Passes)
      /\ passes' = Append(<<>>, "redact_sensitive_values")
  BY <1>1 DEF Passes
<1>7. IsTree(original') /\ IsTree(value') /\ value' = Target(original', <<>>) /\ at' = {} /\ returned'
  BY <1>1, <1>2, <1>3, <1>4, <1>5
<1> QED BY <1>1, <1>6, <1>7, PassKeeps

(* A call of redact_json_value. *)
LEMMA JsonCallKeepsTree ==
    ASSUME ValueInv, NEW p \in due, redact_json_value(p)
    PROVE  ValueInv'
<1>1. /\ Last = "redact_json_value" /\ returned
      /\ due' = (due \ {p}) \cup ChildrenOf(value, p)
      /\ UNCHANGED <<original, value, passes>>
  BY DEF redact_json_value
<1>2. passes # <<>> /\ at = {} /\ due \subseteq DOMAIN value /\ IsTree(value) /\ IsTree(original)
      /\ passes \in Seq(Passes)
  BY <1>1 DEF ValueInv
<1>3. PICK B, R, v : B = Before(original, passes) /\ R = Target(original, passes) /\ v = value
  OBVIOUS
<1>4. Passing(B, R, v, due) /\ ScansTo(B, R)
  <2>1. ScansTo(B, R)
    BY <1>1, <1>2, <1>3, LastPass, Zenon DEF Last
  <2>2. due \cup at = due
    BY <1>2
  <2> QED BY <1>2, <1>3, <2>1, <2>2 DEF ValueInv
<1>5. Last # "redact_sensitive_values"
  BY <1>1
<1>6. ChildrenOf(v, p) \subseteq DOMAIN v /\ due' \subseteq DOMAIN v
  BY <1>1, <1>2, <1>3 DEF ChildrenOf
<1>7. CASE v[p].kind = "string"
  <2>1. /\ at' = {p} /\ chunk' = [line |-> v[p].text, redacted |-> FALSE]
        /\ returned' = FALSE /\ cursor' = 1 /\ output' = <<>>
    BY <1>3, <1>7 DEF redact_json_value, StartOfScan
  <2>2. Passing(B, R, v, due' \cup at')
    <3>1. due \subseteq due' \cup at'
      BY <1>1, <2>1
    <3> QED BY <1>4, <3>1, PassingMore, Zenon
  <2>3. text' = v[p].text
    BY <2>1 DEF text
  <2>4. p \in DOMAIN v /\ v[p] \in Node
    BY <1>2, <1>3 DEF IsTree
  <2>5. text' \in Seq(Sym)
    BY <1>7, <2>3, <2>4, NodeIs DEF Sym, SomeText
  <2>6. InTurn(Sym, text', output', cursor')
    BY <2>1, <2>5, StartIsExact DEF Sym
  <2>7. InString(p)'
    BY <1>1, <1>3, <1>7, <2>1, <2>6 DEF InString
  <2> QED
    BY <1>1, <1>2, <1>3, <1>5, <1>6, <2>1, <2>2, <2>4, <2>7 DEF ValueInv, Last
<1>8. CASE v[p].kind # "string"
  <2>1. at' = at /\ returned' = returned
    BY <1>3, <1>8 DEF redact_json_value, scanVars
  <2>2. Passing(B, R, v, due')
    BY <1>1, <1>2, <1>3, <1>4, <1>8, CallHandsOn
  <2>3. due' \cup at' = due' /\ at' = {} /\ returned'
    BY <1>1, <1>2, <2>1
  <2> QED
    BY <1>1, <1>2, <1>3, <1>5, <1>6, <2>2, <2>3 DEF ValueInv, Last
<1> QED BY <1>7, <1>8

(* The scan of a string returns. *)
LEMMA StringKeepsTree ==
    ASSUME ValueInv, NEW p \in at, string_returns(p)
    PROVE  ValueInv'
<1>1. /\ Done /\ ~returned /\ value' = [value EXCEPT ![p] = String(output)]
      /\ at' = {} /\ returned' = TRUE /\ UNCHANGED <<original, passes, due>>
  BY DEF string_returns
<1>2. /\ passes # <<>> /\ Last = "redact_json_value" /\ p \in DOMAIN value /\ InString(p)
      /\ due \subseteq DOMAIN value /\ IsTree(value) /\ IsTree(original) /\ passes \in Seq(Passes)
  <2>1. PICK q \in DOMAIN value : InString(q)
    BY <1>1 DEF ValueInv
  <2>2. q = p
    BY <2>1 DEF InString
  <2> QED BY <1>1, <2>1, <2>2 DEF ValueInv
<1>3. PICK B, R, v, w : /\ B = Before(original, passes) /\ R = Target(original, passes)
                        /\ v = value /\ w = value'
  OBVIOUS
<1>4. Passing(B, R, v, due \cup at) /\ ScansTo(B, R)
  <2>1. ScansTo(B, R)
    BY <1>2, <1>3, LastPass, Zenon DEF Last
  <2> QED BY <1>2, <1>3, <2>1 DEF ValueInv
<1>5. w = [v EXCEPT ![p] = Scanned(v[p])]
  <2>1. PICK t, out, from : t = text /\ out = output /\ from = cursor
    OBVIOUS
  <2>2. v[p].kind = "string" /\ t = v[p].text /\ InTurn(Sym, t, out, from)
    BY <1>2, <1>3, <2>1 DEF InString, text
  <2>3. from > Len(t)
    BY <1>1, <2>1, Zenon DEF Done
  <2>4. out = Redacted(t)
    BY <2>2, <2>3, EndFollows, Zenon
  <2>5. String(out) = Scanned(v[p])
    BY <2>2, <2>4, Zenon DEF Scanned
  <2> QED BY <1>1, <1>3, <2>1, <2>5, Zenon
<1>6. PutAt(v, p, Scanned(v[p]), w)
  <2>1. v = [q \in DOMAIN v |-> v[q]] /\ p \in DOMAIN v
    BY <1>2, <1>3 DEF IsTree
  <2>2. PICK node : node = Scanned(v[p])
    OBVIOUS
  <2>3. w = [v EXCEPT ![p] = node]
    BY <1>5, <2>2
  <2>4. PutAt(v, p, node, w)
    BY <2>1, <2>3 DEF PutAt
  <2> QED BY <2>2, <2>4
<1>7. IsTree(w) /\ DOMAIN w = DOMAIN v /\ Passing(B, R, w, due)
  <2>1. PICK D : D = due \cup at
    OBVIOUS
  <2>2. D \subseteq due \cup {p} /\ v[p].kind = "string" /\ IsTree(v) /\ p \in DOMAIN v
    BY <1>2, <1>3, <2>1 DEF InString
  <2>3. Passing(B, R, v, D) /\ ScansTo(B, R)
    BY <1>4, <2>1
  <2> QED BY <1>6, <2>2, <2>3, StringReturns, Zenon
<1>8. due' \cup at' = due /\ due' \cup at' \subseteq DOMAIN w /\ Last # "redact_sensitive_values"
  BY <1>1, <1>2, <1>3, <1>7
<1> QED BY <1>1, <1>2, <1>3, <1>7, <1>8 DEF ValueInv, Last

(* A call of redact_sensitive_values. *)
LEMMA KeyCallKeepsTree ==
    ASSUME ValueInv, NEW p \in due, redact_sensitive_values(p)
    PROVE  ValueInv'
<1>1. /\ Last = "redact_sensitive_values"
      /\ value' = Replaced(value, SensitiveChildren(value, p))
      /\ due' = (due \ {p}) \cup (ChildrenOf(value, p) \ SensitiveChildren(value, p))
      /\ UNCHANGED <<original, passes, at, returned>>
  BY DEF redact_sensitive_values, scanVars
<1>2. passes # <<>> /\ returned /\ at = {}
  <2>1. Last # "redact_json_value"
    BY <1>1
  <2> QED BY <2>1 DEF ValueInv
<1>3. /\ due \subseteq DOMAIN value /\ IsTree(value) /\ IsTree(original) /\ passes \in Seq(Passes)
      /\ \A d \in due : ~UnderSensitiveKey(d)
  BY <1>1, <1>2 DEF ValueInv
<1>4. PICK B, R, v, S, w, E :
         /\ B = Before(original, passes) /\ R = Target(original, passes)
         /\ v = value /\ S = SensitiveChildren(value, p) /\ w = value' /\ E = due'
  OBVIOUS
<1>5. Passing(B, R, v, due) /\ KeysTo(B, R)
  <2>1. KeysTo(B, R)
    BY <1>1, <1>2, <1>3, <1>4, LastPass, Zenon DEF Last
  <2>2. due \cup at = due
    BY <1>2
  <2> QED BY <1>2, <1>4, <2>1, <2>2 DEF ValueInv
<1>6. /\ S = SensitiveChildren(v, p) /\ w = Replaced(v, S)
      /\ E = (due \ {p}) \cup (ChildrenOf(v, p) \ S)
  BY <1>1, <1>4, Zenon
<1>7. /\ IsTree(w) /\ E \subseteq DOMAIN w /\ \A d \in E : ~UnderSensitiveKey(d)
      /\ Passing(B, R, w, E)
  BY <1>3, <1>4, <1>5, <1>6, MembersReplaced
<1>8. due' \cup at' = E /\ returned'
  BY <1>1, <1>2, <1>4
<1> QED BY <1>1, <1>2, <1>3, <1>4, <1>7, <1>8 DEF ValueInv, Last

(* Every step keeps it. *)
LEMMA TreeStep == RedactInv /\ TreeInv /\ [Next]_vars => TreeInv'
<1> SUFFICES ASSUME RedactInv, TreeInv, [Next]_vars PROVE TreeInv' OBVIOUS
<1>1. ValueInv' => original' # NoValue
  BY NoValueIsNoTree DEF ValueInv
<1>2. ASSUME original # NoValue => ValueInv', UNCHANGED <<original, value, passes>>
      PROVE  TreeInv'
  BY <1>1, <1>2 DEF TreeInv
<1>3. original # NoValue => ValueInv
  BY DEF TreeInv
<1>4. CASE Turn
  <2>1. UNCHANGED <<original, value, passes>>
    BY <1>4 DEF Turn, treeVars
  <2> QED BY <1>2, <1>3, <1>4, <2>1, TurnKeepsTree
<1>5. CASE ChunkReturns
  BY <1>2, <1>5 DEF ChunkReturns, treeVars
<1>6. CASE ChunkAgain
  BY <1>2, <1>6 DEF ChunkAgain, treeVars
<1>7. ASSUME NEW redactor \in {"redact_json_value", "redact_sensitive_values"}, redact(redactor)
      PROVE  TreeInv'
  <2>1. original # NoValue /\ redactor \in Passes
    BY <1>7 DEF redact, Passes
  <2> QED BY <1>1, <1>3, <1>7, <2>1, RedactKeepsTree DEF TreeInv
<1>8. ASSUME NEW c \in Configs, NEW o \in Options, operator_diagnostics(c, o) PROVE TreeInv'
  <2>1. original # NoValue
    BY <1>8 DEF operator_diagnostics
  <2> QED BY <1>1, <1>3, <1>8, <2>1, DiagnosticsKeepTree DEF TreeInv
<1>9. ASSUME NEW p \in due PROVE original # NoValue
  BY <1>9 DEF RedactInv
<1>10. ASSUME NEW p \in due, redact_json_value(p) PROVE TreeInv'
  BY <1>1, <1>3, <1>9, <1>10, JsonCallKeepsTree DEF TreeInv
<1>11. ASSUME NEW p \in due, redact_sensitive_values(p) PROVE TreeInv'
  BY <1>1, <1>3, <1>9, <1>11, KeyCallKeepsTree DEF TreeInv
<1>12. ASSUME NEW p \in at, string_returns(p) PROVE TreeInv'
  <2>1. original # NoValue
    BY DEF RedactInv
  <2> QED BY <1>1, <1>3, <1>12, <2>1, StringKeepsTree DEF TreeInv
<1>13. CASE UNCHANGED vars
  <2>1. UNCHANGED <<original, value, passes, due, at, chunk, returned, output, cursor>>
    BY <1>13 DEF vars, treeVars, scanVars, scan
  <2>2. ValueInv => ValueInv'
    BY <2>1 DEF ValueInv, InString, Last, text
  <2> QED BY <1>2, <1>3, <2>1, <2>2
<1> QED
  BY <1>4, <1>5, <1>6, <1>7, <1>8, <1>10, <1>11, <1>12, <1>13 DEF Next, Work

(* The invariant holds of every behaviour. *)
LEMMA TreeAlways == Spec => [](RedactInv /\ TreeInv)
BY TreeInit, TreeStep, RedactAlways, PTL DEF Spec

(* With no redaction asked for, and no value, there is no difference. *)
LEMMA TreeInvIsExact == TreeInv => RedactedExactly
<1> SUFFICES ASSUME TreeInv, AtRest PROVE value = Reference
  BY DEF RedactedExactly
<1>1. CASE original = NoValue
  <2>1. Target(NoValue, <<>>) = NoValue
    <3>1. NoValue = [p \in DOMAIN NoValue |-> NoValue[p]]
      BY DEF NoValue, Leaf
    <3> QED BY <3>1, NoPassYet, Zenon
  <2>2. passes = <<>> /\ value = original
    BY <1>1 DEF TreeInv
  <2>3. Reference = NoValue
    BY <1>1, <2>1, <2>2, ReferenceIs, Zenon
  <2> QED BY <1>1, <2>2, <2>3
<1>2. CASE original # NoValue
  BY <1>2, ReferenceIs, RestIsTarget DEF TreeInv
<1> QED BY <1>1, <1>2

(* For every JSON value, of any depth and width, every set of keys, every  *)
(* alphabet and prefixes, and however often and in which order the two     *)
(* redactors are called: what they leave is what their names say, in which *)
(* order a redactor goes through members and items makes no difference,    *)
(* and a key that itself looks like a secret is shown in its placeholder   *)
(* if redact_sensitive_values was called last, and scanned if              *)
(* redact_json_value was.                                                  *)
THEOREM SpecRedactedExactly == Spec => []RedactedExactly
BY TreeAlways, TreeInvIsExact, PTL

-----------------------------------------------------------------------------
(* Types *)

(* Where no scan is under way its variables are still those of a text. *)
RestInv == returned => cursor \in 1..(Len(text) + 1) /\ output \in SomeText

(* Texts of chunks are texts. *)
LEMMA SymIsSome == Seq(Sym) \subseteq SomeText /\ Seq(Char) \subseteq SomeText
<1> HIDE DEF Char
<1> QED BY DEF Sym, SomeText

(* So is the empty one. *)
LEMMA EmptyIsText == <<>> \in SomeText /\ 1 \in 1..(Len(<<>>) + 1)
<1>1. <<>> \in SomeText
  BY EmptySeq, Zenon DEF SomeText
<1>2. Len(<<>>) = 0
  OBVIOUS
<1> QED BY <1>1, <1>2

(* At first no text was scanned. *)
LEMMA RestInit == Init => RestInv
<1> SUFFICES ASSUME Init, returned PROVE cursor \in 1..(Len(text) + 1) /\ output \in SomeText
  BY DEF RestInv
<1>1. cursor = 1 /\ output = <<>> /\ text = <<>>
  BY DEF Init, EmitChunk, NoScan, text
<1>2. <<>> \in SomeText /\ 1 \in 1..(Len(<<>>) + 1)
  BY EmptyIsText
<1> QED BY <1>1, <1>2

(* A scan that returns leaves the cursor at the end of its text. *)
LEMMA RestStep == RedactInv /\ RestInv /\ [Next]_vars => RestInv'
<1> SUFFICES ASSUME RedactInv, RestInv, [Next]_vars PROVE RestInv' OBVIOUS
<1>1. ASSUME UNCHANGED scanVars PROVE RestInv'
  BY <1>1 DEF RestInv, text, scanVars, scan
<1>2. ASSUME ~returned' PROVE RestInv'
  BY <1>2 DEF RestInv
<1>3. CASE Turn
  <2>1. returned' = returned /\ (replace \/ copy_rest)
    BY <1>3 DEF Turn, replace, copy_rest
  <2> QED BY <1>2, <2>1, NoTurnAtRest
<1>4. CASE ChunkReturns
  <2>1. original = NoValue /\ ~returned /\ text' = output /\ cursor' = Len(output) + 1 /\ output' = output
    BY <1>4 DEF ChunkReturns, redact_log_chunk, text
  <2>2. output \in Seq(Sym)
    BY <2>1 DEF RedactInv, ChunkInv, Scanning
  <2>3. output \in SomeText /\ Len(output) \in Nat
    BY <2>2, SymIsSome, LenProperties
  <2>4. Len(output) + 1 \in 1..(Len(output) + 1)
    BY <2>3
  <2> QED BY <2>1, <2>3, <2>4 DEF RestInv
<1>5. CASE ChunkAgain
  BY <1>2, <1>5 DEF ChunkAgain, call_again
<1>6. ASSUME NEW redactor \in {"redact_json_value", "redact_sensitive_values"}, redact(redactor)
      PROVE  RestInv'
  BY <1>1, <1>6 DEF redact
<1>7. ASSUME NEW c \in Configs, NEW o \in Options, operator_diagnostics(c, o) PROVE RestInv'
  BY <1>1, <1>7 DEF operator_diagnostics
<1>8. ASSUME NEW p \in due, redact_json_value(p) PROVE RestInv'
  BY <1>1, <1>2, <1>8 DEF redact_json_value
<1>9. ASSUME NEW p \in due, redact_sensitive_values(p) PROVE RestInv'
  BY <1>1, <1>9 DEF redact_sensitive_values
<1>10. ASSUME NEW p \in at, string_returns(p) PROVE RestInv'
  <2>1. text' = <<>> /\ cursor' = 1 /\ output' = <<>>
    BY <1>10 DEF string_returns, StartOfScan, text
  <2>2. <<>> \in SomeText /\ 1 \in 1..(Len(<<>>) + 1)
    BY EmptyIsText
  <2> QED BY <2>1, <2>2 DEF RestInv
<1>11. CASE UNCHANGED vars
  BY <1>1, <1>11 DEF vars
<1> QED
  BY <1>3, <1>4, <1>5, <1>6, <1>7, <1>8, <1>9, <1>10, <1>11 DEF Next, Work

(* The invariants say what the types of the variables are. *)
LEMMA InvIsTyped == RedactInv /\ TreeInv /\ RestInv => TypeOK
<1> SUFFICES ASSUME RedactInv, TreeInv, RestInv PROVE TypeOK OBVIOUS
<1>1. CASE original = NoValue
  <2>1. chunk \in [line : SomeText, redacted : BOOLEAN]
    BY <1>1, SymIsSome DEF RedactInv, ChunkInv
  <2>2. cursor \in 1..(Len(text) + 1) /\ output \in SomeText
    BY <1>1, SymIsSome DEF RedactInv, ChunkInv, Scanning, RestInv
  <2> QED BY <1>1, <2>1, <2>2 DEF TypeOK, TreeInv, RedactInv
<1>2. CASE original # NoValue
  <2>1. ValueInv
    BY <1>2 DEF TreeInv
  <2>2. CASE returned
    <3>1. chunk \in [line : SomeText, redacted : BOOLEAN]
      <4>1. chunk = NoChunk
        BY <1>2, <2>2 DEF RedactInv
      <4>2. NoChunk \in [line : SomeText, redacted : BOOLEAN]
        <5>1. PICK empty : empty = <<>>
          OBVIOUS
        <5>2. empty \in SomeText
          BY <5>1, EmptyIsText
        <5>3. NoChunk = [line |-> empty, redacted |-> FALSE]
          BY <5>1 DEF NoChunk
        <5> HIDE DEF SomeText
        <5> QED BY <5>2, <5>3
      <4> QED BY <4>1, <4>2
    <3> QED BY <2>1, <2>2, <3>1 DEF TypeOK, ValueInv, RestInv
  <2>3. CASE ~returned
    <3>1. PICK p \in DOMAIN value : InString(p)
      BY <2>1, <2>3 DEF ValueInv
    <3>2. value[p] \in Node /\ value[p].kind = "string"
      BY <2>1, <3>1 DEF ValueInv, IsTree, InString
    <3>3. value[p].text \in SomeText
      BY <3>2, NodeIs
    <3>4. chunk \in [line : SomeText, redacted : BOOLEAN]
      BY <3>1, <3>3 DEF InString
    <3>5. PICK t, out, from : t = text /\ out = output /\ from = cursor
      OBVIOUS
    <3>6. /\ t \in Seq(Sym) /\ from \in 1..(Len(t) + 1) /\ out = UpTo(t)[from - 1]
          /\ Marker \in Sym
      BY <3>1, <3>5 DEF InString, InTurn, Sym
    <3>7. from - 1 \in 0..Len(t)
      BY <3>6, LenProperties
    <3>8. out \in Seq(Sym)
      BY <3>6, <3>7, UpToIs, Zenon
    <3>9. output \in SomeText
      BY <3>5, <3>8 DEF SomeText, Sym
    <3> QED BY <2>1, <3>4, <3>5, <3>6, <3>9 DEF TypeOK, ValueInv
  <2> QED BY <2>2, <2>3
<1> QED BY <1>1, <1>2

(* The scan stays in its text; whatever is replaced, the value stays a     *)
(* tree of objects and arrays, and the calls that are due, for members and *)
(* items found before others were replaced, are for parts of it that are   *)
(* still there.                                                            *)
THEOREM SpecTypeOK == Spec => []TypeOK
BY TreeAlways, RestInit, RestStep, InvIsTyped, PTL DEF Spec

-----------------------------------------------------------------------------
(* Diagnostics *)

(* The words sensitive keys end with, in lower case. *)
SensitiveWords ==
    {"token", "secret", "password", "passwd", "key", "apikey", "credential", "credentials", "ref"}

(* What ends sensitive keys. *)
LEMMA EndingsAre ==
    /\ \A k \in SensitiveKeys : LastOf(k) \in SensitiveWords
    /\ \A k \in SensitiveEndings : LastOf(k) \in SensitiveWords /\ Len(k) \in Nat /\ Len(k) >= 1
<1>1. /\ \A w \in {"token", "secret", "password", "passwd", "apikey", "credential", "credentials"} :
            LastOf(<<w>>) = w
      /\ LastOf(<<"api", "_", "key">>) = "key" /\ LastOf(<<"private", "_", "key">>) = "key"
      /\ LastOf(<<"credential", "_", "ref">>) = "ref"
      /\ LastOf(<<"scoped", "_", "credential", "_", "ref">>) = "ref"
  BY DEF LastOf
<1>2. ASSUME NEW k \in SensitiveKeys PROVE LastOf(k) \in SensitiveWords
  BY <1>1 DEF SensitiveKeys, SensitiveWords
<1>3. /\ \A w : LastOf(<<"_", w>>) = w /\ Len(<<"_", w>>) = 2
      /\ LastOf(<<"_", "api", "_", "key">>) = "key" /\ Len(<<"_", "api", "_", "key">>) = 4
  BY DEF LastOf
<1>4. {"token", "secret", "password", "key"} \subseteq SensitiveWords
  BY DEF SensitiveWords
<1>5. ASSUME NEW k \in SensitiveEndings
      PROVE  LastOf(k) \in SensitiveWords /\ (Len(k) = 2 \/ Len(k) = 4)
  <2>1. CASE \E w \in {"token", "secret", "password"} : k = <<"_", w>>
    <3>1. PICK w \in {"token", "secret", "password"} : k = <<"_", w>>
      BY <2>1, Zenon
    <3>2. w \in SensitiveWords
      BY <1>4
    <3> QED BY <1>3, <3>1, <3>2, Zenon
  <2>2. CASE k = <<"_", "api", "_", "key">>
    <3>1. LastOf(k) = "key" /\ Len(k) = 4
      BY <1>3, <2>2, Zenon
    <3> QED BY <1>4, <3>1
  <2> QED BY <2>1, <2>2, Zenon DEF SensitiveEndings
<1> QED BY <1>2, <1>5

(* What ends the keys of the snapshot. *)
LEMMA SnapshotLasts ==
    /\ LastOf(<<"runner", "_", "id">>) = "id"
    /\ LastOf(<<"control", "_", "plane", "_", "url">>) = "url"
    /\ LastOf(<<"registration", "_", "token", "_", "env", "_", "name">>) = "name"
    /\ LastOf(<<"credential", "_", "ref">>) = "ref" /\ LastOf(<<"heartbeat", "_", "state">>) = "state"
    /\ LastOf(<<"health">>) = "health" /\ LastOf(<<"quarantine", "_", "reason">>) = "reason"
    /\ LastOf(<<"capability", "_", "inventory">>) = "inventory"
    /\ LastOf(<<"local", "_", "llm", "_", "endpoints">>) = "endpoints"
    /\ LastOf(<<"base", "_", "url">>) = "url"
BY DEF LastOf

(* The keys of the snapshot end in other words, all but one. *)
LEMMA SnapshotEndings ==
    ASSUME NEW k \in SnapshotKeys
    PROVE  /\ k # <<>> /\ LastOf(k) \in SnapshotWords
           /\ LastOf(k) \in SensitiveWords => k = <<"credential", "_", "ref">>
<1>1. k # <<>>
  <2>1. \A a : <<a>> # <<>>
    OBVIOUS
  <2>2. \A a, b, c : <<a, b, c>> # <<>>
    OBVIOUS
  <2>3. \A a, b, c, d, e : <<a, b, c, d, e>> # <<>>
    OBVIOUS
  <2>4. \A a, b, c, d, e, f, g : <<a, b, c, d, e, f, g>> # <<>>
    OBVIOUS
  <2> QED BY <2>1, <2>2, <2>3, <2>4, Zenon DEF SnapshotKeys
<1>2. \/ k = <<"credential", "_", "ref">> /\ LastOf(k) = "ref"
      \/ LastOf(k) \in {"id", "url", "name", "state", "health", "reason", "inventory", "endpoints"}
  BY SnapshotLasts, Zenon DEF SnapshotKeys
<1> QED BY <1>1, <1>2 DEF SnapshotWords, SensitiveWords

(* A key is sensitive only by its last word, among other things. *)
LEMMA SensitiveByItsLast ==
    ASSUME NEW k \in Seq(Char), k # <<>>, is_sensitive_key(k)
    PROVE  Lower[LastOf(k)] \in SensitiveWords
<1>1. PICK l : l = [n \in DOMAIN k |-> Lower[k[n]]]
  OBVIOUS
<1>2. Len(k) \in Nat /\ Len(k) >= 1 /\ DOMAIN k = 1..Len(k)
  BY LenProperties, EmptySeq
<1>3. l \in Seq(Char) /\ Len(l) = Len(k) /\ l[Len(l)] = Lower[LastOf(k)] /\ LastOf(l) = l[Len(l)]
  <2>1. \A n \in 1..Len(k) : k[n] \in Char /\ Lower[k[n]] \in Char
    BY ElementOfSeq, LowerAssumption
  <2>2. l = [n \in 1..Len(k) |-> Lower[k[n]]]
    BY <1>1, <1>2
  <2>3. l \in Seq(Char) /\ Len(l) = Len(k)
    BY <1>2, <2>1, <2>2
  <2> QED BY <1>2, <2>2, <2>3 DEF LastOf
<1>4. l \in SensitiveKeys \/ \E ending \in SensitiveEndings : EndsWith(l, ending)
  BY <1>1, Zenon DEF is_sensitive_key
<1>5. CASE l \in SensitiveKeys
  BY <1>3, <1>5, EndingsAre, Zenon
<1>6. CASE \E ending \in SensitiveEndings : EndsWith(l, ending)
  <2>1. PICK ending \in SensitiveEndings : EndsWith(l, ending)
    BY <1>6
  <2>2. Len(ending) \in Nat /\ Len(ending) >= 1 /\ ending[Len(ending)] \in SensitiveWords
    BY EndingsAre DEF LastOf
  <2>3. PICK m, u : m = Len(l) - Len(ending) + 1 /\ u = SubSeq(l, m, Len(l))
    OBVIOUS
  <2>4. Len(l) >= Len(ending) /\ u = ending
    BY <2>1, <2>3 DEF EndsWith
  <2>5. m \in 1..Len(l) /\ Len(l) - m + 1 = Len(ending) /\ m + Len(ending) - 1 = Len(l)
    BY <1>2, <1>3, <2>2, <2>3, <2>4
  <2>6. u[Len(ending)] = l[Len(l)]
    <3>1. \A i \in m..Len(l) : l[i] \in Char
      BY <1>2, <1>3, <2>5, ElementOfSeq
    <3>2. Len(u) = Len(ending) /\ \A i \in 1..Len(ending) : u[i] = l[m + i - 1]
      BY <1>2, <1>3, <2>3, <2>5, <3>1, SubSeqProperties
    <3>3. Len(ending) \in 1..Len(ending)
      BY <2>2
    <3> QED BY <2>5, <3>2, <3>3
  <2> QED BY <1>3, <2>2, <2>4, <2>6
<1> QED BY <1>4, <1>5, <1>6

(* The places of a short text. *)
LEMMA OneToThree == \A n \in 1..3 : n = 1 \/ n = 2 \/ n = 3
OBVIOUS

(* Of the keys of the snapshot only that of the credential is sensitive. *)
LEMMA OnlyTheCredential ==
    ASSUME NEW k \in SnapshotKeys
    PROVE  is_sensitive_key(k) <=> k = <<"credential", "_", "ref">>
<1>1. ASSUME is_sensitive_key(k) PROVE k = <<"credential", "_", "ref">>
  <2>1. k \in Seq(Char)
    BY SnapshotKeysAre
  <2>2. k # <<>> /\ Lower[LastOf(k)] = LastOf(k)
    BY SnapshotEndings, WordsAssumption
  <2>3. LastOf(k) \in SensitiveWords
    BY <1>1, <2>1, <2>2, SensitiveByItsLast
  <2> QED BY <2>3, SnapshotEndings
<1>2. ASSUME k = <<"credential", "_", "ref">> PROVE is_sensitive_key(k)
  <2>1. PICK l : l = [n \in DOMAIN k |-> Lower[k[n]]]
    OBVIOUS
  <2>2. l = <<"credential", "_", "ref">>
    <3>1. Lower["credential"] = "credential" /\ Lower["_"] = "_" /\ Lower["ref"] = "ref"
      BY WordsAssumption, LowerAssumption DEF SnapshotWords
    <3>2. k[1] = "credential" /\ k[2] = "_" /\ k[3] = "ref" /\ Len(k) = 3
      BY <1>2
    <3>3. k \in Seq(Char)
      BY SnapshotKeysAre
    <3>4. DOMAIN k = 1..3 /\ k = [n \in DOMAIN k |-> k[n]]
      BY <3>2, <3>3, LenProperties
    <3>5. Lower[k[1]] = k[1] /\ Lower[k[2]] = k[2] /\ Lower[k[3]] = k[3]
      BY <3>1, <3>2
    <3>6. \A n \in DOMAIN k : Lower[k[n]] = k[n]
      BY <3>4, <3>5, OneToThree, Zenon
    <3>7. l = k
      BY <2>1, <3>4, <3>6, Zenon
    <3> QED BY <1>2, <3>7
  <2>3. l \in SensitiveKeys
    BY <2>2 DEF SensitiveKeys
  <2> QED BY <2>1, <2>3, Zenon DEF is_sensitive_key
<1> QED BY <1>1, <1>2

(* Under which keys a short position is. *)
LEMMA UnderIs ==
    ASSUME NEW d \in Keys, NEW e \in Keys
    PROVE  /\ UnderSensitiveKey(<<e>>) <=> is_sensitive_key(e.key)
           /\ UnderSensitiveKey(<<d, e>>) <=> is_sensitive_key(d.key) \/ is_sensitive_key(e.key)
<1> DEFINE K(x) == "key" \in DOMAIN x /\ is_sensitive_key(x.key)
<1>1. (K(d) <=> is_sensitive_key(d.key)) /\ (K(e) <=> is_sensitive_key(e.key))
  BY DEF Keys
<1>2. \A p : UnderSensitiveKey(p) <=> \E n \in DOMAIN p : K(p[n])
  BY Zenon DEF UnderSensitiveKey
<1> HIDE DEF K
<1>3. (\E n \in DOMAIN <<e>> : K(<<e>>[n])) <=> K(e)
  <2>1. DOMAIN <<e>> = {1} /\ <<e>>[1] = e
    OBVIOUS
  <2> QED BY <2>1, Zenon
<1>4. (\E n \in DOMAIN <<d, e>> : K(<<d, e>>[n])) <=> K(d) \/ K(e)
  <2>1. DOMAIN <<d, e>> = {1, 2} /\ <<d, e>>[1] = d /\ <<d, e>>[2] = e
    OBVIOUS
  <2> QED BY <2>1, Zenon
<1> QED BY <1>1, <1>2, <1>3, <1>4, Zenon

(* What is made of the snapshot by the keys. *)
LEMMA MadeOfSnapshot ==
    ASSUME NEW c \in Configs, NEW o \in Options, NEW v, v = Made(Snapshot(c, o), TRUE, FALSE, FALSE)
    PROVE  /\ v[HealthAt] = String(o.health)
           /\ v[ReasonAt] = Reason(o)[<<>>]
           /\ v[TokenEnvAt] = String(c.registration_token_env)
           /\ v[CredentialAt] = String(CredentialMark)
           /\ \A p \in DOMAIN v : v[p].kind = "string" => v[p].text \in Shown(c, o)
<1>1. PICK s : s = Snapshot(c, o)
  OBVIOUS
<1>2. /\ Tells(s, Shown(c, o)) /\ {HealthAt, ReasonAt, TokenEnvAt, CredentialAt} \subseteq DOMAIN s
      /\ s[HealthAt] = String(o.health) /\ s[ReasonAt] = Reason(o)[<<>>]
      /\ s[TokenEnvAt] = String(c.registration_token_env)
  BY <1>1, SnapshotTells, Zenon
<1>3. /\ DOMAIN v = Kept(s)
      /\ \A p \in DOMAIN v : v[p] = IF UnderSensitiveKey(p) THEN Placeholder(p) ELSE s[p]
  <2>1. IsMade(s, TRUE, FALSE, FALSE, v)
    BY <1>1, MadeIs, Zenon
  <2>2. \A p : ~ScanMade(TRUE, FALSE, FALSE, p)
    BY DEF ScanMade
  <2> QED BY <2>1, <2>2, Zenon DEF IsMade, NodeMade
<1>4. IsTree(s) /\ DOMAIN s \subseteq Seq(Step)
  BY <1>2 DEF Tells, IsTree, Step
<1>5. ASSUME NEW p \in Kept(s), UnderSensitiveKey(p)
      PROVE  LastOf(p).key = <<"credential", "_", "ref">> /\ Placeholder(p) = String(CredentialMark)
  <2>1. p # <<>> /\ BySensitiveKey(p) /\ LastOf(p) \in Keys
    BY <1>4, <1>5, OwnKeyIs
  <2>2. p \in DOMAIN s /\ p \in Seq(Step)
    BY <1>4 DEF Kept
  <2>3. Len(p) \in DOMAIN p
    BY <2>1, <2>2, LenProperties, EmptySeq
  <2>4. LastOf(p).key \in SnapshotKeys
    BY <1>2, <2>1, <2>2, <2>3 DEF Tells, BySensitiveKey, LastOf
  <2>5. LastOf(p).key = <<"credential", "_", "ref">>
    BY <2>1, <2>4, OnlyTheCredential DEF BySensitiveKey
  <2> QED BY <2>5, Zenon DEF Placeholder, CredentialMark
<1>6. PICK state, health, reason, token, credential :
         /\ state = Key(<<"heartbeat", "_", "state">>) /\ health = Key(<<"health">>)
         /\ reason = Key(<<"quarantine", "_", "reason">>) /\ credential = Key(<<"credential", "_", "ref">>)
         /\ token = Key(<<"registration", "_", "token", "_", "env", "_", "name">>)
  OBVIOUS
<1>7. /\ HealthAt = <<state, health>> /\ ReasonAt = <<state, reason>>
      /\ TokenEnvAt = <<token>> /\ CredentialAt = <<credential>>
  BY <1>6, Zenon DEF HealthAt, ReasonAt, TokenEnvAt, CredentialAt
<1>8. /\ \A e \in {state, health, reason, token} : e \in Keys /\ ~is_sensitive_key(e.key)
      /\ credential \in Keys /\ is_sensitive_key(credential.key)
  <2>1. \A e \in {state, health, reason, token} :
           e.key \in SnapshotKeys /\ e.key # <<"credential", "_", "ref">> /\ e = Key(e.key)
    <3>1. /\ state.key = <<"heartbeat", "_", "state">> /\ health.key = <<"health">>
          /\ reason.key = <<"quarantine", "_", "reason">>
          /\ token.key = <<"registration", "_", "token", "_", "env", "_", "name">>
      BY <1>6 DEF Key
    <3>2. \A e \in {state, health, reason, token} : e.key \in SnapshotKeys /\ e = Key(e.key)
      BY <1>6, <3>1, Zenon DEF SnapshotKeys
    <3>3. /\ LastOf(state.key) = "state" /\ LastOf(health.key) = "health"
          /\ LastOf(reason.key) = "reason" /\ LastOf(token.key) = "name"
          /\ LastOf(<<"credential", "_", "ref">>) = "ref"
      BY <3>1, SnapshotLasts, Zenon
    <3>4. \A e \in {state, health, reason, token} : LastOf(e.key) # "ref"
      BY <3>3
    <3> QED BY <3>2, <3>3, <3>4, Zenon
  <2>2. /\ credential.key = <<"credential", "_", "ref">> /\ credential.key \in SnapshotKeys
        /\ credential = Key(credential.key)
    BY <1>6 DEF Key, SnapshotKeys
  <2>3. \A e \in {state, health, reason, token, credential} : e \in Keys
    BY <2>1, <2>2, SnapshotKeysAre
  <2> QED BY <2>1, <2>2, <2>3, OnlyTheCredential
<1>9. /\ ~UnderSensitiveKey(HealthAt) /\ ~UnderSensitiveKey(ReasonAt) /\ ~UnderSensitiveKey(TokenEnvAt)
      /\ UnderSensitiveKey(CredentialAt)
  BY <1>7, <1>8, UnderIs
<1>10. ASSUME NEW p \in DOMAIN s, ~UnderSensitiveKey(p) PROVE p \in Kept(s)
  <2>1. p # <<>> => (UnderSensitiveKey(p) <=> UnderSensitiveKey(Parent(p)) \/ BySensitiveKey(p))
    BY <1>4, UnderParent
  <2> QED BY <1>10, <2>1 DEF Kept
<1>11. CredentialAt \in Kept(s)
  <2>1. Parent(CredentialAt) = <<>>
    BY <1>7 DEF Parent
  <2> QED BY <1>2, <2>1, RootIsUnderNone DEF Kept
<1>12. /\ v[HealthAt] = s[HealthAt] /\ v[ReasonAt] = s[ReasonAt] /\ v[TokenEnvAt] = s[TokenEnvAt]
  BY <1>2, <1>3, <1>9, <1>10
<1>13. v[CredentialAt] = String(CredentialMark)
  BY <1>3, <1>5, <1>9, <1>11, Zenon
<1>14. ASSUME NEW p \in DOMAIN v, v[p].kind = "string" PROVE v[p].text \in Shown(c, o)
  <2>1. CASE UnderSensitiveKey(p)
    <3>1. v[p] = String(CredentialMark)
      BY <1>3, <1>5, <2>1, Zenon
    <3>2. \A t : String(t).text = t
      BY DEF String
    <3>3. v[p].text = CredentialMark
      BY <3>1, <3>2, Zenon
    <3> QED BY <3>3 DEF Shown
  <2>2. CASE ~UnderSensitiveKey(p)
    <3>1. v[p] = s[p] /\ p \in DOMAIN s
      BY <1>3, <2>2 DEF Kept
    <3> QED BY <1>2, <1>14, <3>1 DEF Tells
  <2> QED BY <2>1, <2>2
<1> QED BY <1>2, <1>12, <1>13, <1>14, Zenon

(* Once diagnostics were asked for, the original is the snapshot that was  *)
(* made for them, and it was given to the redactor by keys.                *)
AskedInv ==
    asked # NotAsked =>
        /\ Asked("redact_sensitive_values")
        /\ \E c \in Configs, o \in Options :
              asked = [config |-> c, options |-> o] /\ original = Snapshot(c, o)

(* Every step keeps that: there is one snapshot at most, and the passes    *)
(* only get more.                                                          *)
LEMMA AskedStep == RedactInv /\ TreeInv /\ AskedInv /\ [Next]_vars => AskedInv'
<1> SUFFICES ASSUME RedactInv, TreeInv, AskedInv, [Next]_vars PROVE AskedInv'
  OBVIOUS
<1>1. ASSUME UNCHANGED <<original, asked, passes>> PROVE AskedInv'
  BY <1>1 DEF AskedInv, Asked
<1>2. ASSUME NEW redactor \in {"redact_json_value", "redact_sensitive_values"}, redact(redactor)
      PROVE  AskedInv'
  <2>1. original # NoValue /\ passes' = Append(passes, redactor) /\ UNCHANGED <<original, asked>>
    BY <1>2 DEF redact
  <2>2. passes \in Seq(Passes)
    BY <2>1 DEF TreeInv, ValueInv
  <2>3. PICK qs : qs = passes'
    OBVIOUS
  <2>4. redactor \in Passes /\ qs = Append(passes, redactor)
    BY <2>1, <2>3 DEF Passes
  <2>5. qs \in Seq(Passes) /\ qs # <<>> /\ \A x : AmongBefore(qs, x) <=> Among(passes, x)
    BY <2>2, <2>4, AmongAppended, Zenon
  <2>6. Among(passes, "redact_sensitive_values") => Among(qs, "redact_sensitive_values")
    BY <2>5, AmongIs, Zenon
  <2>7. Asked("redact_sensitive_values") => Asked("redact_sensitive_values")'
    BY <2>3, <2>6 DEF Asked, Among
  <2> QED BY <2>1, <2>7 DEF AskedInv
<1>3. ASSUME NEW c \in Configs, NEW o \in Options, operator_diagnostics(c, o) PROVE AskedInv'
  <2>1. /\ asked' = [config |-> c, options |-> o] /\ original' = Snapshot(c, o)
        /\ passes' = <<"redact_sensitive_values">>
    BY <1>3 DEF operator_diagnostics
  <2>2. Asked("redact_sensitive_values")'
    BY <2>1 DEF Asked
  <2> QED BY <2>1, <2>2, Zenon DEF AskedInv
<1>4. ASSUME NEW p, redact_json_value(p) \/ redact_sensitive_values(p) \/ string_returns(p)
      PROVE  AskedInv'
  BY <1>1, <1>4 DEF redact_json_value, redact_sensitive_values, string_returns
<1>5. CASE Turn \/ ChunkReturns \/ ChunkAgain
  BY <1>1, <1>5 DEF Turn, ChunkReturns, ChunkAgain, treeVars
<1>6. CASE UNCHANGED vars
  BY <1>1, <1>6 DEF vars, treeVars
<1> QED BY <1>2, <1>3, <1>4, <1>5, <1>6 DEF Next, Work

(* At rest the diagnostics are what the keys make of the snapshot. *)
LEMMA InvTells == TreeInv /\ AskedInv /\ RedactedExactly => DiagnosticsTellTheState
<1> SUFFICES ASSUME TreeInv, AskedInv, RedactedExactly,
                    AtRest, asked # NotAsked, ~Asked("redact_json_value")
             PROVE  /\ value[HealthAt] = String(asked.options.health)
                    /\ \A reason \in asked.options.quarantine_reason : value[ReasonAt] = String(reason)
                    /\ value[TokenEnvAt] = String(asked.config.registration_token_env)
                    /\ value[CredentialAt] = String(CredentialMark)
                    /\ \A p \in DOMAIN value : value[p].kind = "string" =>
                          value[p].text \in Settings(asked.config, asked.options) \cup {CredentialMark}
  BY Zenon DEF DiagnosticsTellTheState
<1>1. PICK c \in Configs, o \in Options : asked = [config |-> c, options |-> o] /\ original = Snapshot(c, o)
  BY DEF AskedInv
<1>2. asked.config = c /\ asked.options = o
  BY <1>1
<1>3. value = Made(Snapshot(c, o), TRUE, FALSE, FALSE)
  <2>1. PICK k \in BOOLEAN, j \in BOOLEAN, m \in BOOLEAN :
           /\ k = Among(passes, "redact_sensitive_values") /\ j = Among(passes, "redact_json_value")
           /\ m = EndsIn(passes, "redact_json_value")
    BY Zenon DEF Among, EndsIn
  <2>2. k = TRUE /\ j = FALSE /\ m = FALSE
    <3>1. passes \in Seq(Passes)
      BY <1>1, SnapshotIsAValue DEF TreeInv, ValueInv
    <3>2. EndsIn(passes, "redact_json_value") => Among(passes, "redact_json_value")
      BY <3>1, AmongIs, Zenon DEF EndsIn
    <3>3. k = TRUE /\ j = FALSE
      BY <2>1 DEF AskedInv, Asked, Among
    <3> QED BY <2>1, <3>2, <3>3, Zenon
  <2>3. value = Target(original, passes)
    BY ReferenceIs DEF RedactedExactly
  <2>4. Target(original, passes) = Made(original, k, j, m)
    BY <2>1, Zenon DEF Target
  <2> QED BY <1>1, <2>2, <2>3, <2>4, Zenon
<1>4. /\ value[HealthAt] = String(o.health) /\ value[ReasonAt] = Reason(o)[<<>>]
      /\ value[TokenEnvAt] = String(c.registration_token_env)
      /\ value[CredentialAt] = String(CredentialMark)
      /\ \A p \in DOMAIN value : value[p].kind = "string" => value[p].text \in Shown(c, o)
  BY <1>3, MadeOfSnapshot, Zenon
<1>5. ASSUME NEW reason \in o.quarantine_reason PROVE Reason(o)[<<>>] = String(reason)
  <2>1. IsOption(o.quarantine_reason) /\ o.quarantine_reason # {}
    BY <1>5, OptionsAssumption
  <2>2. OptionOf(o.quarantine_reason, <<>>) = reason
    BY <1>5, <2>1, OptionIs
  <2>3. Reason(o)[<<>>] = String(OptionOf(o.quarantine_reason, <<>>))
    BY <2>1, Zenon DEF Reason, Leaf
  <2> QED BY <2>2, <2>3, Zenon
<1> QED BY <1>2, <1>4, <1>5, Zenon DEF Shown

(* For every configuration and every options: the operator is told the     *)
(* state and the name of the variable, and nothing that comes out is the   *)
(* credential, unless another setting is that very text.                   *)
THEOREM SpecDiagnostics == Spec => []DiagnosticsTellTheState
<1>1. Init => AskedInv
  BY DEF Init, AskedInv
<1> QED BY <1>1, AskedStep, TreeAlways, SpecRedactedExactly, InvTells, PTL DEF Spec
=============================================================================
