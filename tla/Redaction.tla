------------------------------ MODULE Redaction ------------------------------
(***************************************************************************)
(* The redaction of secret-shaped values in logs, labels and errors        *)
(* (src/isolation.rs, redact_secret_shaped_values): one step per turn of   *)
(* its loop, under redact_log_chunk, which whoever passes a chunk on may   *)
(* call again.  The redactors of artifact labels and error messages do the *)
(* same with their text and have no flag.  Module Redactors has the        *)
(* behaviour: the scan on chunks and on the strings of JSON values.        *)
(*                                                                         *)
(* The marker "[REDACTED]" is one character here: its brackets keep any    *)
(* run of body characters out of it, and no prefix begins inside it.       *)
(***************************************************************************)
EXTENDS Integers, Sequences, FiniteSets

CONSTANTS
    AlnumChars,              \* letters and digits
    OtherChars,              \* neither letters nor digits, "_" or "-"
    SECRET_PREFIXES,
    MIN_SECRET_ALNUM_CHARS,
    Marker,
    Texts,                   \* the lines that are logged
    MaxCalls                 \* bound: redactions of one chunk

BodyChars == AlnumChars \cup {"_", "-"}
Char == BodyChars \cup OtherChars

ASSUME CharsAssumption == BodyChars \cap OtherChars = {} /\ Marker \notin Char
ASSUME PrefixesAssumption == SECRET_PREFIXES \subseteq Seq(BodyChars) \ {<<>>}
ASSUME MinAssumption == MIN_SECRET_ALNUM_CHARS \in Nat \ {0}
ASSUME TextsAssumption == Texts \subseteq Seq(Char)

-----------------------------------------------------------------------------
(* find_secret_shaped_substring.  What it finds at a place depends on the  *)
(* text from there on, so that the slice it is given is a position here.   *)

HasPrefix(t, start) ==
    \E p \in SECRET_PREFIXES :
        /\ start + Len(p) - 1 <= Len(t)
        /\ SubSeq(t, start, start + Len(p) - 1) = p

(* The end, exclusive, of the body characters that begin at start. *)
RunEnd(t, start) ==
    CHOOSE e \in start..(Len(t) + 1) :
        /\ \A i \in start..(e - 1) : t[i] \in BodyChars
        /\ e \in DOMAIN t => t[e] \notin BodyChars

AlnumCount(t, start, end) == Cardinality({i \in start..(end - 1) : t[i] \in AlnumChars})

(* Deviation: every body character counts. *)
IsSecretOfAnyChars(t, start) ==
    HasPrefix(t, start) /\ RunEnd(t, start) - start >= MIN_SECRET_ALNUM_CHARS

IsSecret(t, start) ==
    HasPrefix(t, start) /\ AlnumCount(t, start, RunEnd(t, start)) >= MIN_SECRET_ALNUM_CHARS

(* Deviation: a prefix with too few letters behind it ends the search. *)
FindGivesUp(t, cursor) ==
    {start \in cursor..Len(t) :
        IsSecret(t, start) /\ \A s \in cursor..(start - 1) : ~HasPrefix(t, s)}

(* The first secret of t from cursor on, if any. *)
Find(t, cursor) ==
    {start \in cursor..Len(t) :
        IsSecret(t, start) /\ \A s \in cursor..(start - 1) : ~IsSecret(t, s)}

-----------------------------------------------------------------------------
VARIABLES
    emitted,   \* the chunk as the adapter emitted it
    chunk,     \* the chunk as it is
    calls,     \* redactions of it that were begun
    returned,  \* the last of them has returned
    cursor,
    output,
    redacted

scan == <<cursor, output, redacted>>
scanVars == <<emitted, chunk, calls, returned, scan>>

(* The input of the scan. *)
text == chunk.line

StartOfScan ==
    /\ cursor' = 1
    /\ output' = <<>>
    /\ redacted' = FALSE

(* An adapter may have set the flag itself. *)
EmitChunk ==
    /\ emitted \in [line : Texts, redacted : BOOLEAN]
    /\ chunk = emitted
    /\ calls = 1
    /\ returned = FALSE
    /\ cursor = 1
    /\ output = <<>>
    /\ redacted = FALSE

(* Deviation: the search goes on one character late. *)
ReplaceAndSkip ==
    \E start \in Find(text, cursor) :
        /\ output' = output \o SubSeq(text, cursor, start - 1) \o <<Marker>>
        /\ cursor' = RunEnd(text, start) + 1
        /\ redacted' = TRUE
        /\ UNCHANGED <<emitted, chunk, calls, returned>>

replace ==
    \E start \in Find(text, cursor) :
        /\ output' = output \o SubSeq(text, cursor, start - 1) \o <<Marker>>
        /\ cursor' = RunEnd(text, start)
        /\ redacted' = TRUE
        /\ UNCHANGED <<emitted, chunk, calls, returned>>

(* The rest of the text is copied and the loop left (break). *)
copy_rest ==
    /\ cursor <= Len(text)
    /\ Find(text, cursor) = {}
    /\ output' = output \o SubSeq(text, cursor, Len(text))
    /\ cursor' = Len(text) + 1
    /\ UNCHANGED <<emitted, chunk, calls, returned, redacted>>

Done == cursor > Len(text)

(* Deviation: the flag of an earlier redaction is forgotten. *)
ReturnForgetting ==
    /\ Done /\ ~returned
    /\ chunk' = [line |-> output, redacted |-> redacted]
    /\ returned' = TRUE
    /\ cursor' = Len(output) + 1
    /\ UNCHANGED <<emitted, calls, output, redacted>>

(* redact_log_chunk has the result of the scan and returns.  The cursor    *)
(* stays at the end of what is now the line.                               *)
redact_log_chunk ==
    /\ Done /\ ~returned
    /\ chunk' = [line |-> output, redacted |-> chunk.redacted \/ redacted]
    /\ returned' = TRUE
    /\ cursor' = Len(output) + 1
    /\ UNCHANGED <<emitted, calls, output, redacted>>

(* The chunk is redacted again on its way. *)
call_again ==
    /\ returned
    /\ calls < MaxCalls
    /\ calls' = calls + 1
    /\ returned' = FALSE
    /\ StartOfScan
    /\ UNCHANGED <<emitted, chunk>>

-----------------------------------------------------------------------------
(* Properties *)

(* What of a text is secret, without an order of search: the characters of *)
(* a run of body characters from a prefix to the run's end that has enough *)
(* letters and digits.                                                     *)
Secret(t) ==
    {i \in DOMAIN t :
        \E start \in 1..i :
            /\ HasPrefix(t, start)
            /\ \A k \in start..i : t[k] \in BodyChars
            /\ \E end \in i..Len(t) :
                  /\ \A k \in start..end : t[k] \in BodyChars
                  /\ AlnumCount(t, start, end + 1) >= MIN_SECRET_ALNUM_CHARS}

(* The text with each unbroken stretch of secret characters replaced by    *)
(* one marker.                                                             *)
Redacted(t) ==
    LET secret == Secret(t)
        upTo[n \in 0..Len(t)] ==
            IF n = 0 THEN <<>>
            ELSE IF n \notin secret THEN Append(upTo[n - 1], t[n])
            ELSE IF n - 1 \in secret THEN upTo[n - 1]
            ELSE Append(upTo[n - 1], Marker)
    IN  upTo[Len(t)]

(* The scan, which goes left to right and forgets what it has passed       *)
(* (lines 165-183), replaces exactly the secret stretches and keeps all    *)
(* else, at every place, with prefixes inside other runs and runs that end *)
(* with the text; redacting what is redacted already changes nothing.      *)
ExactlySecretsReplaced == returned => chunk.line = Redacted(emitted.line)

(* Nothing secret-shaped is left, nor does leaving text out put a new      *)
(* secret together (lines 165-183).                                        *)
NoSecretSurvives == returned => \A start \in DOMAIN chunk.line : ~IsSecret(chunk.line, start)

(* The flag says whether the line was changed, at whichever of the         *)
(* redactions on its way, or the adapter said so (line 129).               *)
FlagIsTrue == returned => (chunk.redacted <=> emitted.redacted \/ chunk.line # emitted.line)
=============================================================================
