--------------------------- MODULE RedactionProofs ---------------------------
(* Lemmas about secrets in texts, for all alphabets, prefixes and texts.   *)
EXTENDS Redaction, SequenceTheorems, FiniteSetTheorems, TLAPS

(* A set of naturals that has an element has a least one. *)
LEMMA LeastElement ==
    ASSUME NEW U, U \subseteq Nat, U # {}
    PROVE  \E m \in U : \A n \in U : m <= n
<1> DEFINE Upto(n) == 1..n
           T == {Upto(n) : n \in U}
<1>1. IsWellFoundedOn(StrictSubsetOrdering(Nat), FiniteSubsetsOf(Nat))
  BY FS_StrictSubsetOrderingWellFounded
<1>2. T \subseteq FiniteSubsetsOf(Nat) /\ T # {}
  <2>1. ASSUME NEW n \in Nat PROVE Upto(n) \in FiniteSubsetsOf(Nat)
    <3>1. IsFiniteSet(Upto(n)) /\ Upto(n) \subseteq Nat
      BY FS_Interval
    <3> QED BY <3>1 DEF FiniteSubsetsOf
  <2> HIDE DEF Upto
  <2> QED BY <2>1
<1>3. PICK x \in T : \A y \in T : <<y, x>> \notin StrictSubsetOrdering(Nat)
  <2> HIDE DEF T
  <2> QED BY <1>1, <1>2, WFMin
<1>4. PICK m \in U : x = Upto(m)
  OBVIOUS
<1>5. ASSUME NEW n \in U, n < m PROVE FALSE
  <2>1. Upto(n) \in T
    OBVIOUS
  <2>2. Upto(n) \subseteq Upto(m) /\ Upto(n) # Upto(m) /\ Upto(n) \in SUBSET Nat
        /\ Upto(m) \in SUBSET Nat
    <3>1. m \in Upto(m) /\ m \notin Upto(n)
      BY <1>5
    <3>2. Upto(n) \subseteq Upto(m) /\ Upto(m) \subseteq Nat
      BY <1>5
    <3> QED BY <3>1, <3>2
  <2>3. <<Upto(n), Upto(m)>> \in StrictSubsetOrdering(Nat)
    <3> HIDE DEF Upto
    <3> QED BY <2>2 DEF StrictSubsetOrdering
  <2> QED BY <1>3, <1>4, <2>1, <2>3
<1> QED BY <1>5

-----------------------------------------------------------------------------
(* Runs and counts *)

(* The end of a run exists: the first place that ends one, or the end.     *)
LEMMA RunEndIs ==
    ASSUME NEW S, NEW t \in Seq(S), NEW start \in 1..(Len(t) + 1)
    PROVE  /\ RunEnd(t, start) \in start..(Len(t) + 1)
           /\ \A i \in start..(RunEnd(t, start) - 1) : t[i] \in BodyChars
           /\ RunEnd(t, start) \in DOMAIN t => t[RunEnd(t, start)] \notin BodyChars
<1> DEFINE U == {e \in start..(Len(t) + 1) : e \in DOMAIN t => t[e] \notin BodyChars}
           Ends(e) == /\ \A i \in start..(e - 1) : t[i] \in BodyChars
                      /\ e \in DOMAIN t => t[e] \notin BodyChars
<1>1. Len(t) \in Nat /\ DOMAIN t = 1..Len(t)
  BY LenProperties
<1>2. Len(t) + 1 \in U
  BY <1>1
<1>3. U \subseteq Nat /\ U # {}
  BY <1>1, <1>2
<1>4. PICK e \in U : \A i \in U : e <= i
  <2> HIDE DEF U
  <2> QED BY <1>3, LeastElement
<1>5. \A i \in start..(e - 1) : t[i] \in BodyChars
  <2>1. ASSUME NEW i \in start..(e - 1) PROVE t[i] \in BodyChars
    <3>1. i \notin U /\ i \in start..(Len(t) + 1)
      BY <1>1, <1>4
    <3> QED BY <3>1
  <2> QED BY <2>1
<1>6. \E x \in start..(Len(t) + 1) : Ends(x)
  BY <1>4, <1>5
<1>7. RunEnd(t, start) = CHOOSE x \in start..(Len(t) + 1) : Ends(x)
  BY DEF RunEnd
<1>8. RunEnd(t, start) \in start..(Len(t) + 1) /\ Ends(RunEnd(t, start))
  <2> HIDE DEF Ends
  <2> QED BY <1>6, <1>7
<1> QED BY <1>8

(* A place that is not part of a run ends it. *)
LEMMA RunStops ==
    ASSUME NEW S, NEW t \in Seq(S), NEW start \in 1..Len(t), NEW m \in start..Len(t),
           t[m] \notin BodyChars
    PROVE  RunEnd(t, start) <= m
<1>1. Len(t) \in Nat
  BY LenProperties
<1>2. /\ RunEnd(t, start) \in start..(Len(t) + 1)
      /\ \A i \in start..(RunEnd(t, start) - 1) : t[i] \in BodyChars
  BY <1>1, RunEndIs
<1>3. m \notin start..(RunEnd(t, start) - 1)
  BY <1>2
<1> QED BY <1>1, <1>2, <1>3

(* Counts are finite and grow with the stretch. *)
LEMMA AlnumCountGrows ==
    ASSUME NEW t, NEW start \in Int, NEW e \in Int, NEW f \in Int, e <= f
    PROVE  /\ AlnumCount(t, start, e) \in Nat
           /\ AlnumCount(t, start, f) \in Nat
           /\ AlnumCount(t, start, e) <= AlnumCount(t, start, f)
<1> DEFINE A == {i \in start..(e - 1) : t[i] \in AlnumChars}
           B == {i \in start..(f - 1) : t[i] \in AlnumChars}
<1>1. IsFiniteSet(start..(f - 1))
  BY FS_Interval
<1>2. B \in SUBSET (start..(f - 1)) /\ A \in SUBSET B
  OBVIOUS
<1> HIDE DEF A, B
<1>3. IsFiniteSet(B)
  BY <1>1, <1>2, FS_Subset
<1>4. IsFiniteSet(A) /\ Cardinality(A) <= Cardinality(B)
  BY <1>2, <1>3, FS_Subset
<1>5. Cardinality(A) \in Nat /\ Cardinality(B) \in Nat
  BY <1>3, <1>4, FS_CardinalityType
<1> QED BY <1>4, <1>5 DEF A, B, AlnumCount

(* Equal stretches hold as many letters and digits. *)
LEMMA AlnumCountMoves ==
    ASSUME NEW t, NEW u, NEW i \in Int, NEW j \in Int, NEW n \in Nat,
           \A k \in 0..(n - 1) : u[j + k] = t[i + k]
    PROVE  AlnumCount(t, i, i + n) <= AlnumCount(u, j, j + n)
<1> DEFINE A == {x \in i..(i + n - 1) : t[x] \in AlnumChars}
           B == {x \in j..(j + n - 1) : u[x] \in AlnumChars}
           f == [x \in A |-> x - i + j]
<1>1. \A x \in A : x - i + j \in B
  <2> SUFFICES ASSUME NEW x \in A PROVE x - i + j \in B
    OBVIOUS
  <2>1. x - i \in 0..(n - 1) /\ j + (x - i) = x - i + j /\ i + (x - i) = x
    OBVIOUS
  <2>2. u[x - i + j] = t[x]
    BY <2>1
  <2> QED BY <2>1, <2>2
<1>2. \A x, y \in A : x - i + j = y - i + j => x = y
  OBVIOUS
<1>3. IsFiniteSet(B)
  <2>1. IsFiniteSet(j..(j + n - 1))
    BY FS_Interval
  <2>2. B \in SUBSET (j..(j + n - 1))
    OBVIOUS
  <2> QED BY <2>1, <2>2, FS_Subset
<1>4. f \in Injection(A, B)
  <2> HIDE DEF A, B
  <2> QED BY <1>1, <1>2 DEF Injection, IsInjective
<1>5. Cardinality(A) <= Cardinality(B)
  <2> HIDE DEF A, B, f
  <2> QED BY <1>3, <1>4, FS_Injection
<1> QED BY <1>5 DEF AlnumCount

-----------------------------------------------------------------------------
(* Secrets *)

(* A prefix that matches, character by character. *)
MatchesAt(t, start, p) ==
    /\ start + Len(p) - 1 <= Len(t)
    /\ \A k \in 0..(Len(p) - 1) : t[start + k] = p[k + 1]

(* A prefix is one character at least, all of them body characters. *)
LEMMA PrefixIs ==
    ASSUME NEW p \in SECRET_PREFIXES
    PROVE  /\ p \in Seq(BodyChars) /\ Len(p) \in Nat /\ Len(p) >= 1
           /\ \A k \in 0..(Len(p) - 1) : p[k + 1] \in BodyChars
<1>1. p \in Seq(BodyChars) /\ p # <<>>
  BY PrefixesAssumption
<1> HIDE DEF BodyChars
<1>2. Len(p) \in Nat /\ Len(p) >= 1
  BY <1>1
<1>3. \A k \in 1..Len(p) : p[k] \in BodyChars
  BY <1>1, ElementOfSeq
<1>4. \A k \in 0..(Len(p) - 1) : k + 1 \in 1..Len(p)
  BY <1>2
<1> QED BY <1>1, <1>2, <1>3, <1>4

(* Where a prefix is. *)
LEMMA HasPrefixIs ==
    ASSUME NEW S, NEW t \in Seq(S), NEW start \in 1..Len(t)
    PROVE  HasPrefix(t, start) <=> \E p \in SECRET_PREFIXES : MatchesAt(t, start, p)
<1>1. ASSUME NEW p \in SECRET_PREFIXES, start + Len(p) - 1 <= Len(t)
      PROVE  SubSeq(t, start, start + Len(p) - 1) = p <=> MatchesAt(t, start, p)
  <2>1. p \in Seq(BodyChars) /\ Len(p) \in Nat /\ Len(p) >= 1
    BY PrefixIs
  <2> DEFINE u == SubSeq(t, start, start + Len(p) - 1)
  <2> HIDE DEF BodyChars
  <2>2. /\ Len(u) = Len(p)
        /\ \A k \in 1..Len(p) : u[k] = t[start + k - 1]
        /\ u \in Seq(S)
    <3>1. Len(t) \in Nat
      BY LenProperties
    <3>2. start \in 1..(Len(t) + 1) /\ start + Len(p) - 1 \in start - 1 .. Len(t)
      BY <1>1, <2>1, <3>1
    <3>3. u \in Seq(S) /\ Len(u) = (start + Len(p) - 1) - start + 1
          /\ \A k \in 1..((start + Len(p) - 1) - start + 1) : u[k] = t[start + k - 1]
      BY <3>2, SubSeqProperties
    <3>4. (start + Len(p) - 1) - start + 1 = Len(p)
      BY <2>1
    <3> QED BY <3>3, <3>4
  <2> HIDE DEF u
  <2>3. u = p => MatchesAt(t, start, p)
    <3>1. ASSUME u = p, NEW k \in 0..(Len(p) - 1) PROVE t[start + k] = p[k + 1]
      <4>1. k + 1 \in 1..Len(p) /\ start + (k + 1) - 1 = start + k
        BY <2>1
      <4> QED BY <2>2, <3>1, <4>1
    <3> QED BY <1>1, <3>1 DEF MatchesAt
  <2>4. MatchesAt(t, start, p) => u = p
    <3> SUFFICES ASSUME MatchesAt(t, start, p) PROVE u = p
      OBVIOUS
    <3>1. ASSUME NEW k \in 1..Len(p) PROVE u[k] = p[k]
      <4>1. k - 1 \in 0..(Len(p) - 1) /\ (k - 1) + 1 = k /\ start + (k - 1) = start + k - 1
        BY <2>1
      <4>2. t[start + (k - 1)] = p[(k - 1) + 1]
        BY <4>1 DEF MatchesAt
      <4> QED BY <2>2, <4>1, <4>2
    <3>2. u \in Seq(S \cup BodyChars) /\ p \in Seq(S \cup BodyChars)
      BY <2>1, <2>2
    <3> QED BY <2>2, <3>1, <3>2, SeqEqual
  <2> QED BY <2>3, <2>4 DEF u
<1>2. \A p \in SECRET_PREFIXES : MatchesAt(t, start, p) => start + Len(p) - 1 <= Len(t)
  BY DEF MatchesAt
<1> QED BY <1>1, <1>2, Zenon DEF HasPrefix

(* A secret begins with a body character, and its prefix is inside its run.*)
LEMMA PrefixInRun ==
    ASSUME NEW S, NEW t \in Seq(S), NEW start \in 1..Len(t), NEW p \in SECRET_PREFIXES,
           MatchesAt(t, start, p)
    PROVE  start + Len(p) <= RunEnd(t, start) /\ t[start] \in BodyChars
<1>1. Len(p) \in Nat /\ Len(p) >= 1 /\ \A k \in 0..(Len(p) - 1) : p[k + 1] \in BodyChars
  BY PrefixIs
<1>2. Len(t) \in Nat /\ DOMAIN t = 1..Len(t)
  BY LenProperties
<1>3. PICK e \in start..(Len(t) + 1) :
         e = RunEnd(t, start) /\ (e \in DOMAIN t => t[e] \notin BodyChars)
  <2>1. start \in 1..(Len(t) + 1)
    BY <1>2
  <2> HIDE DEF BodyChars
  <2> QED BY <2>1, RunEndIs
<1>4. ASSUME NEW k \in 0..(Len(p) - 1) PROVE t[start + k] \in BodyChars
  BY <1>1 DEF MatchesAt
<1> HIDE DEF BodyChars
<1>5. start + Len(p) - 1 <= Len(t)
  BY DEF MatchesAt
<1>6. ASSUME e < start + Len(p) PROVE FALSE
  <2>1. e - start \in 0..(Len(p) - 1) /\ start + (e - start) = e /\ e \in DOMAIN t
    BY <1>1, <1>2, <1>5, <1>6
  <2> QED BY <1>3, <1>4, <2>1
<1>7. 0 \in 0..(Len(p) - 1) /\ start + 0 = start
  BY <1>1
<1>8. t[start] \in BodyChars
  <2>1. t[start + 0] \in BodyChars
    BY <1>4, <1>7
  <2> QED BY <1>7, <2>1
<1>9. start + Len(p) <= e
  BY <1>1, <1>2, <1>6
<1> QED BY <1>3, <1>8, <1>9

(* A stretch of body characters that begins with a prefix and has enough   *)
(* letters and digits is a secret, however long its run is.                *)
LEMMA SecretWitness ==
    ASSUME NEW S, NEW t \in Seq(S), NEW start \in 1..Len(t), HasPrefix(t, start),
           NEW e \in start..(Len(t) + 1), \A i \in start..(e - 1) : t[i] \in BodyChars,
           AlnumCount(t, start, e) >= MIN_SECRET_ALNUM_CHARS
    PROVE  IsSecret(t, start)
<1>1. Len(t) \in Nat /\ DOMAIN t = 1..Len(t) /\ MIN_SECRET_ALNUM_CHARS \in Nat
  BY LenProperties, MinAssumption
<1>2. PICK r \in start..(Len(t) + 1) :
         r = RunEnd(t, start) /\ (r \in DOMAIN t => t[r] \notin BodyChars)
  BY <1>1, RunEndIs
<1>3. e <= r
  <2> SUFFICES ASSUME r < e PROVE FALSE
    BY <1>1
  <2>1. r \in start..(e - 1) /\ r \in DOMAIN t
    BY <1>1
  <2> HIDE DEF BodyChars
  <2> QED BY <1>2, <2>1
<1>4. /\ AlnumCount(t, start, e) \in Nat /\ AlnumCount(t, start, r) \in Nat
      /\ AlnumCount(t, start, e) <= AlnumCount(t, start, r)
  BY <1>1, <1>3, AlnumCountGrows
<1>5. AlnumCount(t, start, r) >= MIN_SECRET_ALNUM_CHARS
  BY <1>1, <1>4
<1> QED BY <1>2, <1>5 DEF IsSecret

(* A secret is one wherever its run stands. *)
LEMMA SecretMoves ==
    ASSUME NEW S, NEW t \in Seq(S), NEW u \in Seq(S),
           NEW i \in 1..Len(t), IsSecret(t, i),
           NEW j \in 1..Len(u), j + (RunEnd(t, i) - i) <= Len(u) + 1,
           \A k \in 0..(RunEnd(t, i) - i - 1) : u[j + k] = t[i + k]
    PROVE  IsSecret(u, j)
<1>1. Len(t) \in Nat /\ Len(u) \in Nat /\ MIN_SECRET_ALNUM_CHARS \in Nat
  BY LenProperties, MinAssumption
<1>2. PICK e \in i..(Len(t) + 1) :
         e = RunEnd(t, i) /\ \A x \in i..(e - 1) : t[x] \in BodyChars
  BY <1>1, RunEndIs
<1> DEFINE n == e - i
<1>3. n \in Nat /\ i + n = e /\ j + n \in j..(Len(u) + 1)
  BY <1>1, <1>2
<1>4. \A k \in 0..(n - 1) : u[j + k] = t[i + k]
  BY <1>2
<1>5. PICK p \in SECRET_PREFIXES : MatchesAt(t, i, p)
  BY HasPrefixIs DEF IsSecret
<1>6. Len(p) \in Nat /\ Len(p) >= 1 /\ Len(p) <= n
  <2>1. i + Len(p) <= e
    BY <1>2, <1>5, PrefixInRun
  <2>2. Len(p) \in Nat /\ Len(p) >= 1
    BY PrefixIs
  <2> QED BY <1>2, <2>1, <2>2
<1> HIDE DEF n
<1>7. MatchesAt(u, j, p)
  <2>1. j + Len(p) - 1 <= Len(u)
    BY <1>1, <1>3, <1>6
  <2>2. ASSUME NEW k \in 0..(Len(p) - 1) PROVE u[j + k] = p[k + 1]
    <3>1. k \in 0..(n - 1)
      BY <1>3, <1>6
    <3>2. t[i + k] = p[k + 1]
      BY <1>5 DEF MatchesAt
    <3> QED BY <1>4, <3>1, <3>2
  <2> QED BY <2>1, <2>2 DEF MatchesAt
<1>8. HasPrefix(u, j)
  BY <1>7, HasPrefixIs
<1>9. \A x \in j..(j + n - 1) : u[x] \in BodyChars
  <2> SUFFICES ASSUME NEW x \in j..(j + n - 1) PROVE u[x] \in BodyChars
    OBVIOUS
  <2>1. x - j \in 0..(n - 1) /\ j + (x - j) = x /\ i + (x - j) \in i..(e - 1)
    BY <1>3
  <2> HIDE DEF BodyChars
  <2> QED BY <1>2, <1>4, <2>1
<1>10. AlnumCount(u, j, j + n) >= MIN_SECRET_ALNUM_CHARS
  <2>1. AlnumCount(t, i, i + n) <= AlnumCount(u, j, j + n)
    <3>1. i \in Int /\ j \in Int
      BY <1>1
    <3> QED BY <1>3, <1>4, <3>1, AlnumCountMoves
  <2>2. AlnumCount(t, i, i + n) >= MIN_SECRET_ALNUM_CHARS
    BY <1>2, <1>3 DEF IsSecret
  <2>3. AlnumCount(t, i, i + n) \in Nat /\ AlnumCount(u, j, j + n) \in Nat
    BY <1>3, AlnumCountGrows
  <2> QED BY <1>1, <2>1, <2>2, <2>3
<1> QED BY <1>3, <1>8, <1>9, <1>10, SecretWitness

(* The same, with a name for the end of the run. *)
LEMMA SecretMovesTo ==
    ASSUME NEW S, NEW t \in Seq(S), NEW u \in Seq(S),
           NEW i \in 1..Len(t), IsSecret(t, i), NEW e, e = RunEnd(t, i),
           NEW j \in 1..Len(u), j + (e - i) <= Len(u) + 1,
           \A k \in 0..(e - i - 1) : u[j + k] = t[i + k]
    PROVE  IsSecret(u, j)
BY SecretMoves, Zenon

-----------------------------------------------------------------------------
(* What the scan puts together *)

Clean(t) == \A start \in DOMAIN t : ~IsSecret(t, start)

(* A marker is in no run. *)
LEMMA MarkerIsNoBody == Marker \notin BodyChars
BY CharsAssumption DEF Char

(* A secret of a text that ends before the end of a part the text begins   *)
(* with is a secret of that part.                                          *)
LEMMA SecretInPrefix ==
    ASSUME NEW S, NEW t \in Seq(S), NEW u \in Seq(S),
           NEW m \in Nat, m = Len(u), m <= Len(t), \A k \in 1..m : t[k] = u[k],
           NEW i \in 1..m, IsSecret(t, i), RunEnd(t, i) <= m
    PROVE  IsSecret(u, i)
<1>1. Len(t) \in Nat
  BY LenProperties
<1>2. i \in 1..Len(t) /\ i \in 1..(Len(t) + 1)
  BY <1>1
<1>3. PICK e \in i..m : e = RunEnd(t, i)
  BY <1>1, <1>2, RunEndIs
<1>4. i + (e - i) <= Len(u) + 1
  OBVIOUS
<1>5. ASSUME NEW k \in 0..(e - i - 1) PROVE u[i + k] = t[i + k]
  <2>1. i + k \in 1..m
    OBVIOUS
  <2> QED BY <2>1
<1>6. i \in 1..Len(u)
  OBVIOUS
<1> QED BY <1>2, <1>3, <1>4, <1>5, <1>6, SecretMovesTo

(* A clean output that is empty or ends with a marker stays clean when a   *)
(* piece of a text is put behind it in which no secret of the text begins, *)
(* and when a marker is put behind that.                                   *)
LEMMA CleanJoin ==
    ASSUME NEW S, NEW out \in Seq(S), NEW t \in Seq(S), NEW new \in Seq(S),
           Clean(out), NEW from \in 1..(Len(t) + 1),
           NEW m \in Nat, m = Len(out), m = 0 \/ out[m] = Marker,
           NEW n \in Nat, from + n <= Len(t) + 1,
           \A k \in 1..m : new[k] = out[k],
           \A k \in 0..(n - 1) : new[m + 1 + k] = t[from + k],
           \A k \in 0..(n - 1) : ~IsSecret(t, from + k),
           \/ Len(new) = m + n
           \/ Len(new) = m + n + 1 /\ new[m + n + 1] = Marker
    PROVE  Clean(new)
<1> SUFFICES ASSUME NEW i \in 1..Len(new), IsSecret(new, i) PROVE FALSE
  <2>1. DOMAIN new = 1..Len(new)
    BY LenProperties
  <2> QED BY <2>1 DEF Clean
<1>1. Len(t) \in Nat /\ Len(new) \in Nat /\ DOMAIN out = 1..m
  BY LenProperties
<1>2. PICK e \in i..(Len(new) + 1) : e = RunEnd(new, i)
  <2>1. i \in 1..(Len(new) + 1)
    BY <1>1
  <2> QED BY <2>1, RunEndIs
<1>3. \A x \in i..Len(new) : new[x] = Marker => e <= x
  BY <1>2, RunStops, MarkerIsNoBody
<1>4. new[i] \in BodyChars
  <2>1. HasPrefix(new, i)
    BY DEF IsSecret
  <2>2. PICK p \in SECRET_PREFIXES : MatchesAt(new, i, p)
    BY <2>1, HasPrefixIs
  <2> QED BY <2>2, PrefixInRun
<1>5. CASE i <= m
  <2>1. m \in i..Len(new) /\ new[m] = Marker
    BY <1>1, <1>5
  <2>2. e <= m
    BY <1>3, <2>1
  <2>3. i \in 1..m /\ m <= Len(new)
    BY <1>1, <1>5
  <2>4. RunEnd(new, i) <= m
    BY <1>2, <2>2
  <2>5. IsSecret(out, i)
    BY <2>3, <2>4, SecretInPrefix
  <2>6. i \in DOMAIN out
    <3>1. i \in 1..m
      BY <1>1, <1>5
    <3> QED BY <1>1, <3>1, Zenon
  <2> QED BY <2>5, <2>6, Zenon DEF Clean
<1>6. CASE i > m /\ i <= m + n
  <2>1. e <= m + n + 1
    <3>1. CASE Len(new) = m + n
      BY <1>2, <3>1
    <3>2. CASE Len(new) = m + n + 1 /\ new[m + n + 1] = Marker
      <4>1. m + n + 1 \in i..Len(new)
        BY <1>1, <1>6, <3>2
      <4> QED BY <1>3, <3>2, <4>1
    <3> QED BY <3>1, <3>2
  <2> DEFINE d == i - (m + 1)
             j == from + d
  <2>2. d \in 0..(n - 1) /\ j \in 1..Len(t) /\ j + (e - i) <= Len(t) + 1
    BY <1>1, <1>2, <1>6, <2>1
  <2>3. ASSUME NEW k \in 0..(e - i - 1) PROVE t[j + k] = new[i + k]
    <3>1. m \in Nat /\ n \in Nat /\ from \in Nat /\ i \in Nat /\ e \in Nat /\ k \in Nat
      BY <1>1
    <3>2. d + k \in Nat /\ d + k <= n - 1
      BY <1>6, <2>1, <3>1
    <3>3. m + 1 + (d + k) = i + k /\ from + (d + k) = j + k
      BY <3>1
    <3>4. d + k \in 0..(n - 1)
      BY <3>1, <3>2
    <3> QED BY <3>3, <3>4
  <2> HIDE DEF d, j
  <2>4. IsSecret(t, j)
    BY <1>2, <2>2, <2>3, SecretMovesTo
  <2> QED BY <2>2, <2>4 DEF j
<1>7. CASE i > m + n
  <2>1. i = m + n + 1 /\ new[i] = Marker
    BY <1>1, <1>7
  <2> QED BY <1>4, <2>1, MarkerIsNoBody
<1> QED BY <1>1, <1>5, <1>6, <1>7

(* Before a turn of the scan of t that begins at from, with output out.    *)
BeforeTurn(S, t, out, from) ==
    /\ t \in Seq(S)
    /\ out \in Seq(S)
    /\ Clean(out)
    /\ from \in 1..(Len(t) + 1)
    /\ out = <<>> \/ out[Len(out)] = Marker

(* A turn of the scan that finds a secret: what is before it is copied,    *)
(* it is replaced by a marker, and the scan goes on behind its run.        *)
LEMMA ReplaceIsClean ==
    ASSUME NEW S, Marker \in S, NEW t, NEW out, NEW from, BeforeTurn(S, t, out, from),
           NEW start \in Find(t, from),
           NEW new, new = out \o SubSeq(t, from, start - 1) \o <<Marker>>
    PROVE  /\ new \in Seq(S) /\ Clean(new)
           /\ Len(new) \in DOMAIN new /\ new[Len(new)] = Marker
           /\ RunEnd(t, start) \in 1..(Len(t) + 1)
<1>0. /\ t \in Seq(S) /\ out \in Seq(S) /\ Clean(out) /\ from \in 1..(Len(t) + 1)
      /\ out = <<>> \/ out[Len(out)] = Marker
  BY DEF BeforeTurn
<1> USE <1>0
<1>1. Len(t) \in Nat /\ Len(out) \in Nat
  BY LenProperties
<1>2. /\ start \in from..Len(t)
      /\ \A s \in from..(start - 1) : ~IsSecret(t, s)
  BY DEF Find
<1> DEFINE mid == SubSeq(t, from, start - 1)
           n == start - from
           m == Len(out)
<1>3. n \in Nat /\ from + n <= Len(t) + 1 /\ start - 1 \in from - 1 .. Len(t)
  BY <1>1, <1>2
<1>4. /\ mid \in Seq(S) /\ Len(mid) = n
      /\ \A k \in 1..n : mid[k] = t[from + k - 1]
  <2>1. /\ mid \in Seq(S) /\ Len(mid) = (start - 1) - from + 1
        /\ \A k \in 1..((start - 1) - from + 1) : mid[k] = t[from + k - 1]
    BY <1>3, SubSeqProperties, SMTT(30)
  <2>2. (start - 1) - from + 1 = n
    BY <1>1, <1>2
  <2> QED BY <2>1, <2>2
<1> HIDE DEF mid, n, m
<1>5. PICK both : both = out \o mid
  OBVIOUS
<1>6. /\ both \in Seq(S) /\ Len(both) = m + n
      /\ \A k \in 1..(m + n) : both[k] = IF k <= m THEN out[k] ELSE mid[k - m]
  BY <1>4, <1>5, ConcatProperties DEF m
<1>7. new = Append(both, Marker)
  <2>1. new = both \o <<Marker>>
    BY <1>5 DEF mid
  <2> QED BY <1>6, <2>1, AppendIsConcat, Zenon
<1>8. /\ new \in Seq(S) /\ Len(new) = m + n + 1 /\ new[m + n + 1] = Marker
      /\ \A k \in 1..(m + n) : new[k] = both[k]
  <2>1. /\ Append(both, Marker) \in Seq(S)
        /\ Len(Append(both, Marker)) = Len(both) + 1
        /\ \A k \in 1..Len(both) : Append(both, Marker)[k] = both[k]
        /\ Append(both, Marker)[Len(both) + 1] = Marker
    BY <1>6, AppendProperties, ZenonT(40)
  <2> QED BY <1>6, <1>7, <2>1, Zenon
<1>9. m \in Nat /\ n \in Nat
  BY <1>1, <1>3 DEF m
<1>10. ASSUME NEW k \in 1..m PROVE new[k] = out[k]
  <2>1. k \in 1..(m + n) /\ k <= m
    BY <1>9
  <2>2. new[k] = both[k] /\ both[k] = IF k <= m THEN out[k] ELSE mid[k - m]
    BY <1>6, <1>8, <2>1, Zenon
  <2> QED BY <2>1, <2>2
<1>11. ASSUME NEW k \in 0..(n - 1) PROVE new[m + 1 + k] = t[from + k]
  <2>1. /\ m + 1 + k \in 1..(m + n) /\ ~(m + 1 + k <= m) /\ (m + 1 + k) - m = k + 1
        /\ k + 1 \in 1..n /\ from + (k + 1) - 1 = from + k
    BY <1>1, <1>9
  <2>2. new[m + 1 + k] = mid[k + 1]
    BY <1>6, <1>8, <2>1
  <2> QED BY <1>4, <2>1, <2>2
<1>12. ASSUME NEW k \in 0..(n - 1) PROVE ~IsSecret(t, from + k)
  <2>1. from + k \in from..(start - 1)
    BY <1>1, <1>2 DEF n
  <2> QED BY <1>2, <2>1
<1>13. m = 0 \/ out[m] = Marker
  BY DEF m
<1>14. Clean(new)
  BY <1>3, <1>8, <1>9, <1>10, <1>11, <1>12, <1>13, CleanJoin DEF m
<1>15. Len(new) \in DOMAIN new
  BY <1>8, <1>9, LenProperties
<1>16. RunEnd(t, start) \in 1..(Len(t) + 1)
  <2>1. start \in 1..(Len(t) + 1)
    BY <1>1, <1>2
  <2>2. RunEnd(t, start) \in start..(Len(t) + 1)
    BY <2>1, RunEndIs
  <2> QED BY <1>1, <2>1, <2>2
<1> QED BY <1>8, <1>14, <1>15, <1>16

(* Where no secret is found, none begins. *)
LEMMA NoneFound ==
    ASSUME NEW S, NEW t \in Seq(S), NEW from \in 1..(Len(t) + 1), Find(t, from) = {}
    PROVE  \A s \in from..Len(t) : ~IsSecret(t, s)
<1> SUFFICES ASSUME NEW s \in from..Len(t), IsSecret(t, s) PROVE FALSE
  OBVIOUS
<1>1. Len(t) \in Nat
  BY LenProperties
<1> DEFINE U == {x \in from..Len(t) : IsSecret(t, x)}
<1>2. U \subseteq Nat /\ U # {}
  <2>1. from..Len(t) \subseteq Nat
    BY <1>1
  <2>2. s \in U
    OBVIOUS
  <2> QED BY <2>1, <2>2
<1>3. PICK x \in U : \A y \in U : x <= y
  <2> HIDE DEF U
  <2> QED BY <1>2, LeastElement
<1>4. \A y \in from..(x - 1) : ~IsSecret(t, y)
  <2> SUFFICES ASSUME NEW y \in from..(x - 1), IsSecret(t, y) PROVE FALSE
    OBVIOUS
  <2>1. y \in U /\ y < x
    BY <1>1
  <2> QED BY <1>1, <1>3, <2>1
<1>5. x \in Find(t, from)
  BY <1>4 DEF Find
<1> QED BY <1>5

(* The last turn: no secret begins in the rest, and the rest is copied. *)
LEMMA CopyIsClean ==
    ASSUME NEW S, NEW t, NEW out, NEW from, BeforeTurn(S, t, out, from),
           from <= Len(t), Find(t, from) = {},
           NEW new, new = out \o SubSeq(t, from, Len(t))
    PROVE  new \in Seq(S) /\ Clean(new)
<1>0. /\ t \in Seq(S) /\ out \in Seq(S) /\ Clean(out)
      /\ from \in 1..(Len(t) + 1) /\ from <= Len(t)
      /\ out = <<>> \/ out[Len(out)] = Marker
  BY DEF BeforeTurn
<1> USE <1>0
<1>1. Len(t) \in Nat /\ Len(out) \in Nat
  BY LenProperties
<1>2. \A s \in from..Len(t) : ~IsSecret(t, s)
  BY NoneFound
<1> DEFINE rest == SubSeq(t, from, Len(t))
           n == Len(t) + 1 - from
           m == Len(out)
<1>3. n \in Nat /\ from + n <= Len(t) + 1
  BY <1>1
<1>4. /\ rest \in Seq(S) /\ Len(rest) = n
      /\ \A k \in 1..n : rest[k] = t[from + k - 1]
  <2>1. from \in 1..(Len(t) + 1) /\ Len(t) \in from - 1 .. Len(t)
    BY <1>1
  <2>2. /\ rest \in Seq(S) /\ Len(rest) = Len(t) - from + 1
        /\ \A k \in 1..(Len(t) - from + 1) : rest[k] = t[from + k - 1]
    BY <2>1, SubSeqProperties
  <2>3. Len(t) - from + 1 = n
    BY <1>1
  <2> QED BY <2>2, <2>3
<1> HIDE DEF rest, m
<1>5. /\ new \in Seq(S) /\ Len(new) = m + n
      /\ \A k \in 1..(m + n) : new[k] = IF k <= m THEN out[k] ELSE rest[k - m]
  <2> HIDE DEF n
  <2>1. new = out \o rest
    BY DEF rest
  <2>2. /\ out \o rest \in Seq(S) /\ Len(out \o rest) = Len(out) + Len(rest)
        /\ \A k \in 1..(Len(out) + Len(rest)) :
              (out \o rest)[k] = IF k <= Len(out) THEN out[k] ELSE rest[k - Len(out)]
    BY <1>4, ConcatProperties, Zenon
  <2> QED BY <1>4, <2>1, <2>2, Zenon DEF m
<1>6. m \in Nat
  BY <1>1 DEF m
<1>7. ASSUME NEW k \in 1..m PROVE new[k] = out[k]
  <2>1. k \in 1..(m + n) /\ k <= m
    BY <1>3, <1>6
  <2> HIDE DEF n
  <2>2. new[k] = IF k <= m THEN out[k] ELSE rest[k - m]
    BY <1>5, <2>1, Zenon
  <2> QED BY <2>1, <2>2
<1>8. ASSUME NEW k \in 0..(n - 1) PROVE new[m + 1 + k] = t[from + k]
  <2>1. /\ m + 1 + k \in 1..(m + n) /\ ~(m + 1 + k <= m) /\ (m + 1 + k) - m = k + 1
        /\ k + 1 \in 1..n /\ from + (k + 1) - 1 = from + k
    BY <1>1, <1>3, <1>6
  <2>2. new[m + 1 + k] = rest[k + 1]
    BY <1>5, <2>1
  <2> QED BY <1>4, <2>1, <2>2
<1>9. ASSUME NEW k \in 0..(n - 1) PROVE ~IsSecret(t, from + k)
  <2>1. from + k \in from..Len(t)
    BY <1>1
  <2> QED BY <1>2, <2>1
<1>10. m = 0 \/ out[m] = Marker
  BY DEF m
<1>11. from \in 1..(Len(t) + 1)
  BY <1>1
<1> HIDE DEF n
<1> QED BY <1>3, <1>5, <1>6, <1>7, <1>8, <1>9, <1>10, <1>11, CleanJoin DEF m

-----------------------------------------------------------------------------
(* What Redacted computes *)

(* Induction along an interval, over the set of the numbers reached. *)
LEMMA Reaches ==
    ASSUME NEW m \in Nat, NEW U, 0 \in U, \A n \in 0..(m - 1) : n \in U => n + 1 \in U
    PROVE  0..m \subseteq U
<1> DEFINE W == {n \in 0..m : n \notin U}
<1> SUFFICES ASSUME W # {} PROVE FALSE
  OBVIOUS
<1>1. W \subseteq Nat
  OBVIOUS
<1>2. PICK k \in W : \A n \in W : k <= n
  <2> HIDE DEF W
  <2> QED BY <1>1, LeastElement
<1>3. k # 0 /\ k \in 0..m /\ k \notin U
  OBVIOUS
<1>4. k - 1 \in 0..(m - 1) /\ k - 1 \in 0..m /\ ~(k <= k - 1)
  BY <1>3
<1>5. k - 1 \in U
  BY <1>2, <1>4
<1>6. (k - 1) + 1 \in U
  BY <1>4, <1>5
<1> QED BY <1>3, <1>6

(* The function that Redacted defines by recursion. *)
UpTo(t) ==
    CHOOSE f : f = [n \in 0..Len(t) |->
        IF n = 0 THEN <<>>
        ELSE IF n \notin Secret(t) THEN Append(f[n - 1], t[n])
        ELSE IF n - 1 \in Secret(t) THEN f[n - 1]
        ELSE Append(f[n - 1], Marker)]

(* Redacted is the last of its values. *)
LEMMA RedactedIs ==
    ASSUME NEW t
    PROVE  Redacted(t) = UpTo(t)[Len(t)]
BY Zenon DEF Redacted, UpTo

(* One step of the recursion. *)
Extended(t, before, n) ==
    IF n \notin Secret(t) THEN Append(before, t[n])
    ELSE IF n - 1 \in Secret(t) THEN before
    ELSE Append(before, Marker)

(* f follows the recursion as far as m. *)
Follows(t, f, m) ==
    /\ f = [n \in 0..m |-> f[n]]
    /\ f[0] = <<>>
    /\ \A n \in 1..m : f[n] = Extended(t, f[n - 1], n)

(* The recursion has a solution. *)
LEMMA FollowerExists ==
    ASSUME NEW t, NEW m \in Nat
    PROVE  \E f : Follows(t, f, m)
<1> DEFINE U == {n \in Nat : \E f : Follows(t, f, n)}
<1>1. 0 \in U
  <2> DEFINE f == [n \in 0..0 |-> <<>>]
  <2>1. Follows(t, f, 0)
    BY DEF Follows
  <2> QED BY <2>1
<1>2. ASSUME NEW n \in 0..(m - 1), n \in U PROVE n + 1 \in U
  <2>1. PICK g : Follows(t, g, n)
    BY <1>2
  <2> DEFINE f == [k \in 0..(n + 1) |-> IF k = n + 1 THEN Extended(t, g[n], n + 1) ELSE g[k]]
  <2>2. \A k \in 0..n : f[k] = g[k]
    OBVIOUS
  <2>3. f[n + 1] = Extended(t, g[n], n + 1)
    OBVIOUS
  <2>4. f = [k \in 0..(n + 1) |-> f[k]]
    OBVIOUS
  <2> HIDE DEF f
  <2>5. f[0] = <<>>
    BY <2>1, <2>2 DEF Follows
  <2>6. ASSUME NEW k \in 1..(n + 1) PROVE f[k] = Extended(t, f[k - 1], k)
    <3>1. k - 1 \in 0..n /\ f[k - 1] = g[k - 1]
      BY <2>2
    <3>2. CASE k = n + 1
      <4>1. k - 1 = n
        BY <3>2
      <4> QED BY <2>3, <3>1, <3>2, <4>1
    <3>3. CASE k # n + 1
      <4>1. k \in 0..n /\ k \in 1..n
        BY <3>3
      <4>2. g[k] = Extended(t, g[k - 1], k)
        BY <2>1, <4>1 DEF Follows
      <4> QED BY <2>2, <3>1, <4>1, <4>2
    <3> QED BY <3>2, <3>3
  <2>7. Follows(t, f, n + 1)
    BY <2>4, <2>5, <2>6 DEF Follows
  <2> QED BY <2>7
<1> HIDE DEF U
<1>3. 0..m \subseteq U
  BY <1>1, <1>2, Reaches
<1>4. m \in 0..m
  OBVIOUS
<1> QED BY <1>3, <1>4 DEF U

(* So the function of Redacted is one. *)
LEMMA UpToFollows ==
    ASSUME NEW t, Len(t) \in Nat
    PROVE  Follows(t, UpTo(t), Len(t))
<1> DEFINE N == Len(t)
           Solves(f) == f = [n \in 0..N |->
                                IF n = 0 THEN <<>>
                                ELSE IF n \notin Secret(t) THEN Append(f[n - 1], t[n])
                                ELSE IF n - 1 \in Secret(t) THEN f[n - 1]
                                ELSE Append(f[n - 1], Marker)]
<1>1. ASSUME NEW f, Follows(t, f, N) PROVE Solves(f)
  <2> DEFINE g == [n \in 0..N |->
                      IF n = 0 THEN <<>>
                      ELSE IF n \notin Secret(t) THEN Append(f[n - 1], t[n])
                      ELSE IF n - 1 \in Secret(t) THEN f[n - 1]
                      ELSE Append(f[n - 1], Marker)]
  <2>1. ASSUME NEW n \in 0..N PROVE f[n] = g[n]
    <3>1. n # 0 => n \in 1..N
      OBVIOUS
    <3> QED BY <1>1, <3>1 DEF Follows, Extended
  <2>2. g = [n \in 0..N |-> g[n]] /\ f = [n \in 0..N |-> f[n]]
    BY <1>1 DEF Follows
  <2> HIDE DEF g
  <2>3. f = g
    BY <2>1, <2>2
  <2> QED BY <2>3, Zenon DEF g
<1>2. PICK f : Solves(f)
  <2> HIDE DEF Solves
  <2> QED BY <1>1, FollowerExists
<1>3. Solves(UpTo(t))
  BY <1>2, Zenon DEF UpTo
<1>4. PICK g : g = UpTo(t)
  OBVIOUS
<1>5. Solves(g)
  BY <1>3, <1>4, Zenon
<1>6. ASSUME NEW n \in 0..N
      PROVE  g[n] = IF n = 0 THEN <<>>
                    ELSE IF n \notin Secret(t) THEN Append(g[n - 1], t[n])
                    ELSE IF n - 1 \in Secret(t) THEN g[n - 1]
                    ELSE Append(g[n - 1], Marker)
  BY <1>5, <1>6, Zenon
<1>7. ASSUME NEW n \in 1..N PROVE g[n] = Extended(t, g[n - 1], n)
  <2>1. n \in 0..N /\ n # 0
    OBVIOUS
  <2> QED BY <1>6, <2>1, Zenon DEF Extended
<1>8. g[0] = <<>>
  <2>1. 0 \in 0..N
    OBVIOUS
  <2> QED BY <1>6, <2>1, Zenon
<1>9. g = [n \in 0..N |-> g[n]]
  <2> DEFINE h == [n \in 0..N |->
                      IF n = 0 THEN <<>>
                      ELSE IF n \notin Secret(t) THEN Append(g[n - 1], t[n])
                      ELSE IF n - 1 \in Secret(t) THEN g[n - 1]
                      ELSE Append(g[n - 1], Marker)]
  <2>1. h = [n \in 0..N |-> h[n]]
    OBVIOUS
  <2>2. g = h
    BY <1>5, Zenon
  <2> HIDE DEF h
  <2> QED BY <2>1, <2>2, Zenon
<1>10. Follows(t, g, N)
  BY <1>7, <1>8, <1>9, Zenon DEF Follows
<1> QED BY <1>4, <1>10, Zenon

(* Each part of the recursion's function, for a text over S. *)
LEMMA UpToIs ==
    ASSUME NEW S, Marker \in S, NEW t \in Seq(S)
    PROVE  /\ UpTo(t)[0] = <<>>
           /\ \A n \in 1..Len(t) : UpTo(t)[n] = Extended(t, UpTo(t)[n - 1], n)
           /\ \A n \in 0..Len(t) : UpTo(t)[n] \in Seq(S)
<1>1. Len(t) \in Nat /\ DOMAIN t = 1..Len(t)
  BY LenProperties
<1>2. PICK f : f = UpTo(t)
  OBVIOUS
<1>3. f[0] = <<>> /\ \A n \in 1..Len(t) : f[n] = Extended(t, f[n - 1], n)
  BY <1>1, <1>2, UpToFollows DEF Follows
<1> DEFINE U == {n \in 0..Len(t) : f[n] \in Seq(S)}
<1>4. 0 \in U
  <2>1. 0 \in 0..Len(t) /\ <<>> \in Seq(S)
    BY <1>1
  <2> QED BY <1>3, <2>1, Zenon
<1>5. ASSUME NEW n \in 0..(Len(t) - 1), n \in U PROVE n + 1 \in U
  <2>1. n + 1 \in 1..Len(t) /\ n + 1 \in 0..Len(t) /\ (n + 1) - 1 = n
    BY <1>1
  <2>2. f[n + 1] = Extended(t, f[n], n + 1)
    BY <1>3, <2>1
  <2>3. f[n] \in Seq(S) /\ t[n + 1] \in S
    BY <1>5, <2>1, ElementOfSeq
  <2>4. Append(f[n], t[n + 1]) \in Seq(S) /\ Append(f[n], Marker) \in Seq(S)
    BY <2>3, AppendProperties
  <2>5. Extended(t, f[n], n + 1) \in Seq(S)
    BY <2>3, <2>4, Zenon DEF Extended
  <2> QED BY <2>1, <2>2, <2>5
<1> HIDE DEF U
<1>6. 0..Len(t) \subseteq U
  BY <1>1, <1>4, <1>5, Reaches
<1>7. \A n \in 0..Len(t) : f[n] \in Seq(S)
  BY <1>6 DEF U
<1> QED BY <1>2, <1>3, <1>7, Zenon

(* A place in the run of a secret is secret. *)
LEMMA RunIsSecret ==
    ASSUME NEW S, NEW t \in Seq(S), NEW start \in 1..Len(t), IsSecret(t, start),
           NEW i \in start..(RunEnd(t, start) - 1)
    PROVE  i \in Secret(t)
<1>1. Len(t) \in Nat /\ DOMAIN t = 1..Len(t)
  BY LenProperties
<1>2. PICK e \in start..(Len(t) + 1) :
         e = RunEnd(t, start) /\ \A k \in start..(e - 1) : t[k] \in BodyChars
  <2>1. start \in 1..(Len(t) + 1)
    BY <1>1
  <2> QED BY <2>1, RunEndIs
<1>3. HasPrefix(t, start) /\ AlnumCount(t, start, e) >= MIN_SECRET_ALNUM_CHARS
  BY <1>2 DEF IsSecret
<1> DEFINE end == e - 1
<1>4. /\ i \in 1..Len(t) /\ start \in 1..i /\ end \in i..Len(t) /\ end + 1 = e
      /\ \A k \in start..i : k \in start..(e - 1)
  BY <1>1, <1>2
<1>5. /\ \A k \in start..i : t[k] \in BodyChars
      /\ \A k \in start..end : t[k] \in BodyChars
  BY <1>2, <1>4
<1>6. AlnumCount(t, start, end + 1) >= MIN_SECRET_ALNUM_CHARS
  BY <1>3, <1>4
<1> HIDE DEF end
<1> QED BY <1>1, <1>3, <1>4, <1>5, <1>6 DEF Secret

(* Every secret place is in the run of a secret that begins before it. *)
LEMMA SecretHasStart ==
    ASSUME NEW S, NEW t \in Seq(S), NEW i \in Secret(t)
    PROVE  /\ i \in 1..Len(t)
           /\ \E start \in 1..i : IsSecret(t, start) /\ \A k \in start..i : t[k] \in BodyChars
<1>1. Len(t) \in Nat /\ DOMAIN t = 1..Len(t)
  BY LenProperties
<1>2. i \in 1..Len(t)
  BY <1>1 DEF Secret
<1>3. PICK start \in 1..i :
         /\ HasPrefix(t, start)
         /\ \A k \in start..i : t[k] \in BodyChars
         /\ \E end \in i..Len(t) :
               /\ \A k \in start..end : t[k] \in BodyChars
               /\ AlnumCount(t, start, end + 1) >= MIN_SECRET_ALNUM_CHARS
  BY DEF Secret
<1>4. PICK end \in i..Len(t) :
         /\ \A k \in start..end : t[k] \in BodyChars
         /\ AlnumCount(t, start, end + 1) >= MIN_SECRET_ALNUM_CHARS
  BY <1>3
<1>5. start \in 1..Len(t) /\ end + 1 \in start..(Len(t) + 1) /\ (end + 1) - 1 = end
  BY <1>1, <1>2
<1>6. IsSecret(t, start)
  BY <1>3, <1>4, <1>5, SecretWitness
<1> QED BY <1>2, <1>3, <1>6

(* No run passes a boundary. *)
Boundary(t, from) == from = 1 \/ (from \in DOMAIN t => t[from] \notin BodyChars)

(* From a boundary to the next secret nothing is secret, the place before  *)
(* that secret included.                                                   *)
LEMMA PlainBefore ==
    ASSUME NEW S, NEW t \in Seq(S), NEW from \in 1..(Len(t) + 1), Boundary(t, from),
           NEW start \in from..(Len(t) + 1), \A s \in from..(start - 1) : ~IsSecret(t, s)
    PROVE  \A i \in from..(start - 1) : i \notin Secret(t)
<1> SUFFICES ASSUME NEW i \in from..(start - 1), i \in Secret(t) PROVE FALSE
  OBVIOUS
<1>1. Len(t) \in Nat /\ DOMAIN t = 1..Len(t)
  BY LenProperties
<1>2. PICK s \in 1..i : IsSecret(t, s) /\ \A k \in s..i : t[k] \in BodyChars
  BY SecretHasStart
<1>3. s < from
  <2> SUFFICES ASSUME s >= from PROVE FALSE
    BY <1>1
  <2>1. s \in from..(start - 1)
    BY <1>1
  <2> QED BY <1>2, <2>1
<1>4. from \in s..i /\ from # 1 /\ from \in 1..Len(t)
  BY <1>1, <1>3
<1> QED BY <1>1, <1>2, <1>4 DEF Boundary

(* A secret begins with a body character. *)
LEMMA SecretBegins ==
    ASSUME NEW S, NEW t \in Seq(S), NEW start \in 1..Len(t), IsSecret(t, start)
    PROVE  t[start] \in BodyChars /\ start + 1 <= RunEnd(t, start)
<1>1. PICK p \in SECRET_PREFIXES : MatchesAt(t, start, p)
  BY HasPrefixIs DEF IsSecret
<1>2. Len(p) \in Nat /\ Len(p) >= 1
  BY PrefixIs
<1>3. start + Len(p) <= RunEnd(t, start) /\ t[start] \in BodyChars
  BY <1>1, PrefixInRun
<1>4. RunEnd(t, start) \in Int
  <2>1. Len(t) \in Nat /\ start \in 1..(Len(t) + 1)
    BY LenProperties
  <2>2. RunEnd(t, start) \in start..(Len(t) + 1)
    BY <2>1, RunEndIs
  <2> QED BY <2>1, <2>2
<1> QED BY <1>2, <1>3, <1>4

AppendsToSecond(a, b, x) == Append(a \o b, x) = a \o Append(b, x)

(* Appending to a join appends to its second part. *)
LEMMA AppendToJoin ==
    ASSUME NEW S, NEW a \in Seq(S), NEW b \in Seq(S), NEW x \in S
    PROVE  AppendsToSecond(a, b, x)
BY DEF AppendsToSecond

(* Where nothing is secret the text is copied. *)
LEMMA CopiesPlain ==
    ASSUME NEW S, Marker \in S, NEW t \in Seq(S), NEW from \in 1..(Len(t) + 1),
           NEW end \in (from - 1)..Len(t), \A i \in from..end : i \notin Secret(t)
    PROVE  UpTo(t)[end] = UpTo(t)[from - 1] \o SubSeq(t, from, end)
<1>1. Len(t) \in Nat
  BY LenProperties
<1>2. PICK f : f = UpTo(t)
  OBVIOUS
<1>3. /\ \A n \in 1..Len(t) : f[n] = Extended(t, f[n - 1], n)
      /\ \A n \in 0..Len(t) : f[n] \in Seq(S)
  BY <1>2, UpToIs, Zenon
<1> DEFINE U == {d \in 0..(end - from + 1) :
                    f[from - 1 + d] = f[from - 1] \o SubSeq(t, from, from - 1 + d)}
<1>4. 0 \in U
  <2>1. from - 1 \in 0..Len(t) /\ from - 1 + 0 = from - 1 /\ 0 \in 0..(end - from + 1)
    BY <1>1
  <2>2. from \in Int /\ from - 1 \in Int /\ from - 1 < from
    BY <1>1
  <2>3. SubSeq(t, from, from - 1) = <<>>
    BY <2>2, SubSeqEmpty
  <2>4. f[from - 1] \o <<>> = f[from - 1]
    BY <1>3, <2>1, ConcatEmptySeq
  <2>5. f[from - 1 + 0] = f[from - 1] \o SubSeq(t, from, from - 1 + 0)
    BY <2>1, <2>3, <2>4, Zenon
  <2> QED BY <2>1, <2>5
<1>5. ASSUME NEW d \in 0..(end - from), d \in U PROVE d + 1 \in U
  <2>1. PICK k : k = from - 1 + d
    OBVIOUS
  <2>2. PICK n : n = k + 1
    OBVIOUS
  <2>3. /\ k \in 0..Len(t) /\ n \in 1..Len(t) /\ n \in from..end /\ n - 1 = k
        /\ from - 1 + (d + 1) = n /\ d + 1 \in 0..(end - from + 1)
        /\ from - 1 \in 0..Len(t) /\ from \in 1..Len(t) /\ n \in from..Len(t)
    BY <1>1, <2>1, <2>2
  <2>4. PICK a, piece, x : a = f[from - 1] /\ piece = SubSeq(t, from, k) /\ x = t[n]
    OBVIOUS
  <2>5. f[k] = a \o piece
    BY <1>5, <2>1, <2>4, Zenon
  <2>6. f[n] = Append(f[k], x)
    <3>1. f[n] = Extended(t, f[n - 1], n)
      BY <1>3, <2>3, Zenon
    <3>2. n \notin Secret(t)
      BY <2>3
    <3> QED BY <2>3, <2>4, <3>1, <3>2, Zenon DEF Extended
  <2>7. a \in Seq(S) /\ f[k] \in Seq(S) /\ x \in S
    BY <1>3, <2>3, <2>4, ElementOfSeq
  <2>8. piece \in Seq(S)
    <3>1. \A i \in from..k : t[i] \in S
      BY <1>1, <2>3, ElementOfSeq
    <3> QED BY <1>1, <2>3, <2>4, <3>1, SubSeqProperties
  <2>9. Append(a \o piece, x) = a \o Append(piece, x)
    <3>1. AppendsToSecond(a, piece, x)
      BY <2>7, <2>8, AppendToJoin, Zenon
    <3> QED BY <3>1, Zenon DEF AppendsToSecond
  <2>10. SubSeq(t, from, n) = Append(piece, x)
    <3>1. SubSeq(t, from, n) = SubSeq(t, from, n - 1) \o <<t[n]>>
      BY <2>3, SubSeqRecursiveSecond, Zenon
    <3>2. SubSeq(t, from, n) = piece \o <<x>>
      BY <2>3, <2>4, <3>1, Zenon
    <3> QED BY <2>7, <2>8, <3>2, AppendIsConcat, Zenon
  <2>11. f[n] = a \o SubSeq(t, from, n)
    BY <2>5, <2>6, <2>9, <2>10, Zenon
  <2>12. f[from - 1 + (d + 1)] = f[from - 1] \o SubSeq(t, from, from - 1 + (d + 1))
    BY <2>3, <2>4, <2>11, Zenon
  <2> QED BY <2>3, <2>12
<1> HIDE DEF U
<1>6. PICK m : m = end - from + 1
  OBVIOUS
<1>7. m \in Nat /\ m - 1 = end - from /\ m \in 0..m
  BY <1>1, <1>6
<1>8. 0..m \subseteq U
  BY <1>4, <1>5, <1>7, Reaches
<1>9. m \in U /\ from - 1 + m = end
  BY <1>1, <1>6, <1>7, <1>8
<1>10. f[from - 1 + m] = f[from - 1] \o SubSeq(t, from, from - 1 + m)
  BY <1>9, Zenon DEF U
<1> QED BY <1>2, <1>9, <1>10, Zenon

(* A stretch that is secret from its first place to its last is one marker.*)
LEMMA MarksSecret ==
    ASSUME NEW S, Marker \in S, NEW t \in Seq(S), NEW start \in 1..Len(t),
           NEW end \in start..Len(t), start - 1 \notin Secret(t),
           \A i \in start..end : i \in Secret(t)
    PROVE  UpTo(t)[end] = Append(UpTo(t)[start - 1], Marker)
<1>1. Len(t) \in Nat
  BY LenProperties
<1>2. PICK f : f = UpTo(t)
  OBVIOUS
<1>3. \A n \in 1..Len(t) : f[n] = Extended(t, f[n - 1], n)
  BY <1>2, UpToIs, Zenon
<1> DEFINE U == {d \in 0..(end - start) : f[start + d] = Append(f[start - 1], Marker)}
<1>4. 0 \in U
  <2>1. 0 \in 0..(end - start) /\ start + 0 = start /\ start \in start..end
    BY <1>1
  <2>2. f[start] = Append(f[start - 1], Marker)
    BY <1>3, <2>1, Zenon DEF Extended
  <2> QED BY <2>1, <2>2
<1>5. ASSUME NEW d \in 0..(end - start - 1), d \in U PROVE d + 1 \in U
  <2>1. PICK k : k = start + d
    OBVIOUS
  <2>2. PICK n : n = k + 1
    OBVIOUS
  <2>3. /\ n \in 1..Len(t) /\ n \in start..end /\ n - 1 = k /\ k \in start..end
        /\ start + (d + 1) = n /\ d + 1 \in 0..(end - start)
    BY <1>1, <2>1, <2>2
  <2>4. f[n] = f[k]
    <3>1. f[n] = Extended(t, f[n - 1], n)
      BY <1>3, <2>3, Zenon
    <3>2. n \in Secret(t) /\ n - 1 \in Secret(t)
      BY <2>3
    <3> QED BY <2>3, <3>1, <3>2, Zenon DEF Extended
  <2>5. f[k] = Append(f[start - 1], Marker)
    BY <1>5, <2>1, Zenon
  <2>6. f[start + (d + 1)] = Append(f[start - 1], Marker)
    BY <2>3, <2>4, <2>5, Zenon
  <2> QED BY <2>3, <2>6
<1> HIDE DEF U
<1>6. PICK m : m = end - start
  OBVIOUS
<1>7. m \in Nat /\ m - 1 = end - start - 1 /\ m \in 0..m
  BY <1>1, <1>6
<1>8. 0..m \subseteq U
  BY <1>4, <1>5, <1>7, Reaches
<1>9. m \in U /\ start + m = end
  BY <1>1, <1>6, <1>7, <1>8
<1>10. f[start + m] = Append(f[start - 1], Marker)
  BY <1>9, Zenon DEF U
<1> QED BY <1>2, <1>9, <1>10, Zenon

(* Before a turn that begins at from, the output is what Redacted makes of *)
(* the text before it.                                                     *)
InTurn(S, t, out, from) ==
    /\ t \in Seq(S)
    /\ from \in 1..(Len(t) + 1)
    /\ Boundary(t, from)
    /\ out = UpTo(t)[from - 1]

(* A turn that finds a secret does as Redacted does, and ends at a         *)
(* boundary.                                                               *)
LEMMA ReplaceFollows ==
    ASSUME NEW S, Marker \in S, NEW t, NEW out, NEW from, InTurn(S, t, out, from),
           NEW start \in Find(t, from),
           NEW new, new = out \o SubSeq(t, from, start - 1) \o <<Marker>>
    PROVE  InTurn(S, t, new, RunEnd(t, start))
<1>1. /\ t \in Seq(S) /\ from \in 1..(Len(t) + 1) /\ Boundary(t, from)
      /\ out = UpTo(t)[from - 1]
  BY DEF InTurn
<1>2. Len(t) \in Nat /\ DOMAIN t = 1..Len(t)
  BY <1>1, LenProperties
<1>3. start \in from..Len(t) /\ IsSecret(t, start) /\ \A s \in from..(start - 1) : ~IsSecret(t, s)
  BY DEF Find
<1>4. start \in 1..Len(t) /\ start \in 1..(Len(t) + 1) /\ start \in from..(Len(t) + 1)
  BY <1>1, <1>2, <1>3
<1>5. t[start] \in BodyChars /\ start + 1 <= RunEnd(t, start)
  BY <1>1, <1>3, <1>4, SecretBegins
<1>6. PICK e \in start..(Len(t) + 1) :
         e = RunEnd(t, start) /\ (e \in DOMAIN t => t[e] \notin BodyChars)
  BY <1>1, <1>4, RunEndIs
<1>7. \A i \in from..(start - 1) : i \notin Secret(t)
  BY <1>1, <1>3, <1>4, PlainBefore
<1>8. start - 1 \notin Secret(t)
  <2>1. CASE start # from
    <3>1. start - 1 \in from..(start - 1)
      BY <1>1, <1>2, <1>3, <2>1
    <3> QED BY <1>7, <3>1
  <2>2. CASE start = from
    <3>1. from = 1
      BY <1>1, <1>2, <1>4, <1>5, <2>2 DEF Boundary
    <3>2. start - 1 \notin 1..Len(t)
      BY <1>2, <2>2, <3>1
    <3> QED BY <1>1, <3>2, SecretHasStart
  <2> QED BY <2>1, <2>2
<1>9. PICK f : f = UpTo(t)
  OBVIOUS
<1>10. f[start - 1] = f[from - 1] \o SubSeq(t, from, start - 1)
  <2>1. start - 1 \in (from - 1)..Len(t)
    BY <1>1, <1>2, <1>3
  <2> QED BY <1>1, <1>7, <1>9, <2>1, CopiesPlain, Zenon
<1>11. f[e - 1] = Append(f[start - 1], Marker)
  <2>1. e - 1 \in start..Len(t)
    BY <1>2, <1>4, <1>5, <1>6
  <2>2. \A i \in start..(e - 1) : i \in Secret(t)
    BY <1>1, <1>3, <1>4, <1>6, RunIsSecret
  <2> QED BY <1>1, <1>4, <1>8, <1>9, <2>1, <2>2, MarksSecret, Zenon
<1>12. Append(f[start - 1], Marker) = f[start - 1] \o <<Marker>>
  <2>1. start - 1 \in 0..Len(t)
    BY <1>2, <1>4
  <2>2. f[start - 1] \in Seq(S)
    BY <1>1, <1>9, <2>1, UpToIs, Zenon
  <2> QED BY <2>2, AppendIsConcat, Zenon
<1>13. new = f[e - 1]
  BY <1>1, <1>9, <1>10, <1>11, <1>12, Zenon
<1>14. e \in 1..(Len(t) + 1) /\ Boundary(t, e)
  BY <1>2, <1>4, <1>6 DEF Boundary
<1>15. InTurn(S, t, new, e)
  BY <1>1, <1>9, <1>13, <1>14, Zenon DEF InTurn
<1> QED BY <1>6, <1>15, Zenon

(* The last turn makes the rest of it. *)
LEMMA CopyFollows ==
    ASSUME NEW S, Marker \in S, NEW t, NEW out, NEW from, InTurn(S, t, out, from),
           from <= Len(t), Find(t, from) = {},
           NEW new, new = out \o SubSeq(t, from, Len(t))
    PROVE  InTurn(S, t, new, Len(t) + 1)
<1>1. /\ t \in Seq(S) /\ from \in 1..(Len(t) + 1) /\ Boundary(t, from)
      /\ out = UpTo(t)[from - 1]
  BY DEF InTurn
<1>2. Len(t) \in Nat /\ DOMAIN t = 1..Len(t)
  BY <1>1, LenProperties
<1>3. PICK n : n = Len(t) + 1
  OBVIOUS
<1>4. /\ n \in from..(Len(t) + 1) /\ n - 1 = Len(t) /\ Len(t) \in (from - 1)..Len(t)
      /\ n \in 1..(Len(t) + 1) /\ n \notin DOMAIN t
  BY <1>1, <1>2, <1>3
<1>5. \A s \in from..(n - 1) : ~IsSecret(t, s)
  BY <1>1, <1>4, NoneFound
<1>6. \A i \in from..(n - 1) : i \notin Secret(t)
  BY <1>1, <1>4, <1>5, PlainBefore
<1>7. UpTo(t)[Len(t)] = UpTo(t)[from - 1] \o SubSeq(t, from, Len(t))
  BY <1>1, <1>4, <1>6, CopiesPlain
<1>8. new = UpTo(t)[n - 1]
  BY <1>1, <1>4, <1>7, Zenon
<1>9. InTurn(S, t, new, n)
  BY <1>1, <1>4, <1>8 DEF InTurn, Boundary
<1> QED BY <1>3, <1>9, Zenon

(* Behind the last turn the output is the text redacted. *)
LEMMA EndFollows ==
    ASSUME NEW S, NEW t, NEW out, NEW from, InTurn(S, t, out, from), from > Len(t)
    PROVE  out = Redacted(t)
<1>1. t \in Seq(S) /\ from \in 1..(Len(t) + 1) /\ out = UpTo(t)[from - 1]
  BY DEF InTurn
<1>2. Len(t) \in Nat
  BY <1>1, LenProperties
<1>3. from - 1 = Len(t)
  BY <1>1, <1>2
<1> QED BY <1>1, <1>3, RedactedIs, Zenon

(* Nothing of a clean text is replaced. *)
LEMMA CleanIsKept ==
    ASSUME NEW S, Marker \in S, NEW t \in Seq(S), Clean(t)
    PROVE  Redacted(t) = t
<1>1. Len(t) \in Nat /\ DOMAIN t = 1..Len(t)
  BY LenProperties
<1>2. ASSUME NEW i \in 1..Len(t) PROVE i \notin Secret(t)
  <2> SUFFICES ASSUME i \in Secret(t) PROVE FALSE
    OBVIOUS
  <2>1. PICK start \in 1..i : IsSecret(t, start)
    BY SecretHasStart
  <2>2. start \in 1..Len(t)
    BY <1>1
  <2> QED BY <1>1, <2>1, <2>2 DEF Clean
<1>3. 1 \in 1..(Len(t) + 1) /\ Len(t) \in (1 - 1)..Len(t) /\ 1 - 1 = 0
  BY <1>1
<1>4. UpTo(t)[Len(t)] = UpTo(t)[0] \o SubSeq(t, 1, Len(t))
  BY <1>2, <1>3, CopiesPlain
<1>5. UpTo(t)[0] = <<>> /\ SubSeq(t, 1, Len(t)) = t /\ <<>> \o t = t
  BY UpToIs, SubSeqFull, ConcatEmptySeq, Zenon
<1> QED BY <1>4, <1>5, RedactedIs, Zenon

(* What Redacted makes of a text is clean: the turns of a scan make it.    *)
LEMMA RedactedIsClean ==
    ASSUME NEW S, Marker \in S, NEW t \in Seq(S)
    PROVE  Redacted(t) \in Seq(S) /\ Clean(Redacted(t))
<1> DEFINE Scanned(out, from) == BeforeTurn(S, t, out, from) /\ InTurn(S, t, out, from)
           U == {n \in 0..Len(t) : \E out : Scanned(out, Len(t) + 1 - n)}
<1>1. Len(t) \in Nat /\ DOMAIN t = 1..Len(t)
  BY LenProperties
<1>2. Len(t) \in U
  <2>1. UpTo(t)[0] = <<>>
    BY UpToIs, Zenon
  <2>2. Clean(<<>>) /\ <<>> \in Seq(S)
    BY DEF Clean
  <2>3. PICK from : from = Len(t) + 1 - Len(t)
    OBVIOUS
  <2>4. from = 1 /\ from \in 1..(Len(t) + 1) /\ from - 1 = 0
    BY <1>1, <2>3
  <2>5. BeforeTurn(S, t, <<>>, from)
    BY <2>2, <2>4, Zenon DEF BeforeTurn
  <2>6. InTurn(S, t, <<>>, from)
    BY <2>1, <2>4, Zenon DEF InTurn, Boundary
  <2>7. Len(t) \in 0..Len(t)
    BY <1>1
  <2> QED BY <2>3, <2>5, <2>6, <2>7, Zenon
<1>3. PICK n \in U : \A k \in U : n <= k
  <2>1. U \subseteq Nat /\ U # {}
    BY <1>1, <1>2
  <2> HIDE DEF U
  <2> QED BY <2>1, LeastElement
<1>4. PICK from : from = Len(t) + 1 - n
  OBVIOUS
<1>5. PICK out : BeforeTurn(S, t, out, from) /\ InTurn(S, t, out, from)
  BY <1>4, Zenon
<1>6. from \in 1..(Len(t) + 1) /\ n \in 0..Len(t)
  BY <1>5 DEF InTurn
<1>7. CASE from > Len(t)
  <2>1. out = Redacted(t)
    BY <1>5, <1>7, EndFollows, Zenon
  <2>2. out \in Seq(S) /\ Clean(out)
    BY <1>5 DEF BeforeTurn
  <2> QED BY <2>1, <2>2, Zenon
<1>8. CASE from <= Len(t) /\ Find(t, from) = {}
  <2>1. PICK new : new = out \o SubSeq(t, from, Len(t))
    OBVIOUS
  <2>2. new \in Seq(S) /\ Clean(new)
    BY <1>5, <1>8, <2>1, CopyIsClean, Zenon
  <2>3. InTurn(S, t, new, Len(t) + 1)
    BY <1>5, <1>8, <2>1, CopyFollows, Zenon
  <2>4. Len(t) + 1 > Len(t)
    BY <1>1
  <2>5. new = Redacted(t)
    BY <2>3, <2>4, EndFollows, Zenon
  <2> QED BY <2>2, <2>5, Zenon
<1>9. CASE from <= Len(t) /\ Find(t, from) # {}
  <2>1. PICK start : start \in Find(t, from)
    BY <1>9
  <2>2. PICK new : new = out \o SubSeq(t, from, start - 1) \o <<Marker>>
    OBVIOUS
  <2>3. PICK end : end = RunEnd(t, start)
    OBVIOUS
  <2>4. /\ new \in Seq(S) /\ Clean(new)
        /\ Len(new) \in DOMAIN new /\ new[Len(new)] = Marker
        /\ end \in 1..(Len(t) + 1)
    BY <1>5, <2>1, <2>2, <2>3, ReplaceIsClean, Zenon
  <2>5. InTurn(S, t, new, end)
    BY <1>5, <2>1, <2>2, <2>3, ReplaceFollows, Zenon
  <2>6. BeforeTurn(S, t, new, end)
    BY <2>4, Zenon DEF BeforeTurn
  <2>7. from < end
    <3>1. start \in from..Len(t) /\ IsSecret(t, start)
      BY <2>1 DEF Find
    <3>2. start \in 1..Len(t)
      BY <1>1, <1>6, <3>1
    <3>3. start + 1 <= end
      BY <2>3, <3>1, <3>2, SecretBegins
    <3> QED BY <1>6, <2>4, <3>1, <3>3
  <2>8. PICK m : m = Len(t) + 1 - end
    OBVIOUS
  <2>9. m \in 0..Len(t) /\ end = Len(t) + 1 - m /\ ~(n <= m)
    BY <1>1, <1>4, <1>6, <2>4, <2>7, <2>8
  <2>10. m \in U
    BY <2>5, <2>6, <2>9, Zenon
  <2> QED BY <1>3, <2>9, <2>10
<1>10. from > Len(t) \/ from <= Len(t)
  BY <1>1, <1>6
<1> QED BY <1>7, <1>8, <1>9, <1>10, Zenon

(* Redacting again changes nothing. *)
LEMMA RedactedStays ==
    ASSUME NEW S, Marker \in S, NEW t \in Seq(S)
    PROVE  Redacted(Redacted(t)) = Redacted(t)
BY RedactedIsClean, CleanIsKept, Zenon

(* A text with no body character is clean. *)
LEMMA NoBodyIsClean ==
    ASSUME NEW S, NEW t \in Seq(S), \A n \in DOMAIN t : t[n] \notin BodyChars
    PROVE  Clean(t)
<1>1. DOMAIN t = 1..Len(t)
  BY LenProperties
<1> SUFFICES ASSUME NEW start \in DOMAIN t, IsSecret(t, start) PROVE FALSE
  BY DEF Clean
<1>2. t[start] \in BodyChars
  BY <1>1, SecretBegins
<1> QED BY <1>2
=============================================================================
