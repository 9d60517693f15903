------------------------- MODULE JobIsolationProofs -------------------------
(* Theorems about job isolation, for all dispatches and environments.       *)
EXTENDS JobIsolation, SequenceTheorems, WellFoundedInduction, TLAPS

-----------------------------------------------------------------------------
(* Labels, character by character *)

Token == Chars \cup {"/", "jobs", "workspaces", "artifacts"}

(* What a label x of a directory of job j looks like up to the job's end:  *)
(* two characters, the id, a slash.                                        *)
LabelOf(x, j) ==
    /\ Len(j) + 4 <= Len(x)
    /\ \A i \in 1..Len(j) : x[i + 2] = j[i]
    /\ x[Len(j) + 3] = "/"

(* Every character of the label y is at its place in the label x.          *)
Begins(y, x) == Len(y) <= Len(x) /\ \A i \in 1..Len(y) : x[i] = y[i]

(* Concatenation, and that s is in x from behind place n on; kept from the  *)
(* provers but for the facts of ConcatAt.                                  *)
Cat(a, b) == a \o b

HoldsAt(x, s, n) == \A i \in 1..Len(s) : x[n + i] = s[i]

(* Where the characters of a concatenation come from.                      *)
LEMMA ConcatAt ==
    ASSUME NEW S, NEW a \in Seq(S), NEW b \in Seq(S)
    PROVE  /\ Cat(a, b) \in Seq(S)
           /\ Len(Cat(a, b)) = Len(a) + Len(b)
           /\ HoldsAt(Cat(a, b), a, 0)
           /\ HoldsAt(Cat(a, b), b, Len(a))
<1>1. /\ Cat(a, b) \in Seq(S)
      /\ Len(Cat(a, b)) = Len(a) + Len(b)
      /\ \A i \in 1..(Len(a) + Len(b)) :
            Cat(a, b)[i] = IF i <= Len(a) THEN a[i] ELSE b[i - Len(a)]
  BY ConcatProperties, Zenon DEF Cat
<1>2. Len(a) \in Nat /\ Len(b) \in Nat
  BY LenProperties
<1>3. \A i \in 1..Len(a) : Cat(a, b)[0 + i] = a[i]
  BY <1>1, <1>2
<1>4. ASSUME NEW i \in 1..Len(b) PROVE Cat(a, b)[Len(a) + i] = b[i]
  <2>1. /\ Len(a) + i \in 1..(Len(a) + Len(b))
        /\ ~(Len(a) + i <= Len(a))
        /\ (Len(a) + i) - Len(a) = i
    BY <1>2
  <2> QED BY <2>1, <1>1
<1> QED BY <1>1, <1>3, <1>4, Zenon DEF HoldsAt

(* The same for a beginning of two characters, an id and what follows it.  *)
LEMMA PrefixedAt ==
    ASSUME NEW S, NEW a \in Seq(S), NEW j \in Seq(S), NEW b \in Seq(S), Len(a) = 2
    PROVE  /\ Cat(Cat(a, j), b) \in Seq(S)
           /\ Len(Cat(Cat(a, j), b)) = 2 + Len(j) + Len(b)
           /\ HoldsAt(Cat(Cat(a, j), b), j, 2)
           /\ HoldsAt(Cat(Cat(a, j), b), b, 2 + Len(j))
<1>1. PICK y : y = Cat(a, j)
  OBVIOUS
<1>2. y \in Seq(S) /\ Len(y) = 2 + Len(j) /\ HoldsAt(y, j, 2)
  BY <1>1, ConcatAt, Zenon
<1>3. PICK x : x = Cat(y, b)
  OBVIOUS
<1>4. /\ x \in Seq(S)
      /\ Len(x) = 2 + Len(j) + Len(b)
      /\ HoldsAt(x, y, 0)
      /\ HoldsAt(x, b, 2 + Len(j))
  BY <1>2, <1>3, ConcatAt, Zenon
<1>5. Len(j) \in Nat
  BY LenProperties
<1>6. ASSUME NEW i \in 1..Len(j) PROVE x[2 + i] = j[i]
  <2>1. 0 + (2 + i) = 2 + i /\ 2 + i \in 1..Len(y)
    BY <1>2, <1>5
  <2> QED BY <2>1, <1>2, <1>4 DEF HoldsAt
<1>7. HoldsAt(x, j, 2)
  BY <1>6, Zenon DEF HoldsAt
<1> QED BY <1>1, <1>3, <1>4, <1>7, Zenon

(* What a workspace label is, character by character. *)
LEMMA WorkspaceLabel ==
    ASSUME NEW d \in Dispatch
    PROVE  /\ workspace_root_label(d) \in Seq(Chars \cup {"/", "jobs", "workspaces"})
           /\ LabelOf(workspace_root_label(d), d.job_id)
           /\ workspace_root_label(d)[Len(d.job_id) + 4] = "workspaces"
           /\ Len(workspace_root_label(d)) = Len(d.job_id) + 5 + Len(d.workspace_id)
           /\ HoldsAt(workspace_root_label(d), d.workspace_id, Len(d.job_id) + 5)
<1>1. PICK S : S = Chars \cup {"/", "jobs", "workspaces"}
  OBVIOUS
<1>2. PICK j, w : j = d.job_id /\ w = d.workspace_id
  OBVIOUS
<1>3. j \in Seq(S) /\ w \in Seq(S)
  BY <1>1, <1>2 DEF Dispatch, Id
<1>4. PICK a, b : a = <<"jobs", "/">> /\ b = <<"/", "workspaces", "/">>
  OBVIOUS
<1>5. /\ a \in Seq(S) /\ Len(a) = 2
      /\ b \in Seq(S) /\ Len(b) = 3 /\ b[1] = "/" /\ b[2] = "workspaces"
  <2>1. "jobs" \in S /\ "/" \in S /\ "workspaces" \in S
    BY <1>1
  <2> QED BY <1>4, <2>1
<1>6. PICK y : y = Cat(Cat(a, j), b)
  OBVIOUS
<1>7. /\ y \in Seq(S)
      /\ Len(y) = 2 + Len(j) + Len(b)
      /\ HoldsAt(y, j, 2)
      /\ HoldsAt(y, b, 2 + Len(j))
  <2>1. a \in Seq(S) /\ j \in Seq(S) /\ b \in Seq(S) /\ Len(a) = 2
    BY <1>3, <1>5
  <2>2. /\ Cat(Cat(a, j), b) \in Seq(S)
        /\ Len(Cat(Cat(a, j), b)) = 2 + Len(j) + Len(b)
        /\ HoldsAt(Cat(Cat(a, j), b), j, 2)
        /\ HoldsAt(Cat(Cat(a, j), b), b, 2 + Len(j))
    BY ONLY <2>1, PrefixedAt, Zenon
  <2> QED BY <1>6, <2>2, Zenon
<1>8. PICK x : x = Cat(y, w)
  OBVIOUS
<1>9. /\ x \in Seq(S)
      /\ Len(x) = Len(y) + Len(w)
      /\ HoldsAt(x, y, 0)
      /\ HoldsAt(x, w, Len(y))
  BY <1>3, <1>7, <1>8, ConcatAt, Zenon
<1>10. workspace_root_label(d) = x
  BY <1>2, <1>4, <1>6, <1>8, Zenon DEF workspace_root_label, Cat
<1>11. Len(j) \in Nat /\ Len(w) \in Nat
  BY <1>3, LenProperties
<1>12. Len(y) = Len(j) + 5 /\ Len(x) = Len(j) + 5 + Len(w)
  BY <1>5, <1>7, <1>9, <1>11
<1>13. ASSUME NEW i \in 1..Len(y) PROVE x[i] = y[i]
  BY <1>9, <1>11, <1>12 DEF HoldsAt
<1>14. y[Len(j) + 3] = "/" /\ y[Len(j) + 4] = "workspaces"
  <2>1. 2 + Len(j) + 1 = Len(j) + 3 /\ 2 + Len(j) + 2 = Len(j) + 4 /\ 1 \in 1..Len(b) /\ 2 \in 1..Len(b)
    BY <1>5, <1>11
  <2> QED BY <2>1, <1>5, <1>7 DEF HoldsAt
<1>15. x[Len(j) + 3] = "/" /\ x[Len(j) + 4] = "workspaces"
  BY <1>11, <1>12, <1>13, <1>14
<1>16. ASSUME NEW i \in 1..Len(j) PROVE x[i + 2] = j[i]
  <2>1. 2 + i = i + 2 /\ i + 2 \in 1..Len(y)
    BY <1>11, <1>12
  <2> QED BY <2>1, <1>7, <1>13 DEF HoldsAt
<1>17. LabelOf(x, j)
  BY <1>11, <1>12, <1>15, <1>16 DEF LabelOf
<1> QED BY <1>1, <1>2, <1>9, <1>10, <1>12, <1>15, <1>17, Zenon

(* What an artifact label is, character by character. *)
LEMMA ArtifactLabel ==
    ASSUME NEW d \in Dispatch
    PROVE  /\ artifact_root_label(d) \in Seq(Chars \cup {"/", "jobs", "artifacts"})
           /\ LabelOf(artifact_root_label(d), d.job_id)
           /\ artifact_root_label(d)[Len(d.job_id) + 4] = "artifacts"
           /\ Len(artifact_root_label(d)) = Len(d.job_id) + 4
<1>1. PICK S : S = Chars \cup {"/", "jobs", "artifacts"}
  OBVIOUS
<1>2. PICK j : j = d.job_id
  OBVIOUS
<1>3. j \in Seq(S)
  BY <1>1, <1>2 DEF Dispatch, Id
<1>4. PICK a, b : a = <<"jobs", "/">> /\ b = <<"/", "artifacts">>
  OBVIOUS
<1>5. /\ a \in Seq(S) /\ Len(a) = 2
      /\ b \in Seq(S) /\ Len(b) = 2 /\ b[1] = "/" /\ b[2] = "artifacts"
  <2>1. "jobs" \in S /\ "/" \in S /\ "artifacts" \in S
    BY <1>1
  <2> QED BY <1>4, <2>1
<1>6. PICK x : x = Cat(Cat(a, j), b)
  OBVIOUS
<1>7. /\ x \in Seq(S)
      /\ Len(x) = 2 + Len(j) + Len(b)
      /\ HoldsAt(x, j, 2)
      /\ HoldsAt(x, b, 2 + Len(j))
  <2>1. a \in Seq(S) /\ j \in Seq(S) /\ b \in Seq(S) /\ Len(a) = 2
    BY <1>3, <1>5
  <2>2. /\ Cat(Cat(a, j), b) \in Seq(S)
        /\ Len(Cat(Cat(a, j), b)) = 2 + Len(j) + Len(b)
        /\ HoldsAt(Cat(Cat(a, j), b), j, 2)
        /\ HoldsAt(Cat(Cat(a, j), b), b, 2 + Len(j))
    BY ONLY <2>1, PrefixedAt, Zenon
  <2> QED BY <1>6, <2>2, Zenon
<1>8. artifact_root_label(d) = x
  BY <1>2, <1>4, <1>6, Zenon DEF artifact_root_label, Cat
<1>9. Len(j) \in Nat
  BY <1>3, LenProperties
<1>10. Len(x) = Len(j) + 4
  BY <1>5, <1>7, <1>9
<1>11. x[Len(j) + 3] = "/" /\ x[Len(j) + 4] = "artifacts"
  <2>1. 2 + Len(j) + 1 = Len(j) + 3 /\ 2 + Len(j) + 2 = Len(j) + 4 /\ 1 \in 1..Len(b) /\ 2 \in 1..Len(b)
    BY <1>5, <1>9
  <2> QED BY <2>1, <1>5, <1>7 DEF HoldsAt
<1>12. ASSUME NEW i \in 1..Len(j) PROVE x[i + 2] = j[i]
  <2>1. 2 + i = i + 2
    BY <1>9
  <2> QED BY <2>1, <1>7 DEF HoldsAt
<1>13. LabelOf(x, j)
  BY <1>9, <1>10, <1>11, <1>12 DEF LabelOf
<1> QED BY <1>1, <1>2, <1>7, <1>8, <1>10, <1>11, <1>13, Zenon

-----------------------------------------------------------------------------
(* Directories are apart where no id holds a slash *)

NoSlash == "/" \notin Chars

(* A directory inside another has a label that the other's begins. *)
LEMMA InsideBegins ==
    ASSUME NEW S, NEW x \in Seq(S), NEW y \in Seq(S), Inside(x, y)
    PROVE  Begins(y, x)
<1>1. Len(x) \in Nat /\ Len(y) \in Nat
  BY LenProperties
<1>2. CASE x = y
  BY <1>1, <1>2 DEF Begins
<1>3. CASE Len(y) < Len(x) /\ SubSeq(x, 1, Len(y)) = y
  BY <1>1, <1>3 DEF Begins
<1> QED BY <1>2, <1>3 DEF Inside

(* Two labels of which one begins the other name one job: the slash behind *)
(* the shorter id would be a character of the longer one.                  *)
LEMMA SameJob ==
    ASSUME NoSlash, NEW x, NEW y, NEW j \in Seq(Chars), NEW k \in Seq(Chars),
           Begins(y, x), LabelOf(x, j), LabelOf(y, k), Len(x) \in Nat, Len(y) \in Nat
    PROVE  j = k
<1>1. Len(j) \in Nat /\ Len(k) \in Nat
  BY LenProperties
<1>2. /\ \A i \in 1..Len(j) : j[i] \in Chars
      /\ \A i \in 1..Len(k) : k[i] \in Chars
  BY ElementOfSeq
<1>3. ~(Len(j) < Len(k))
  <2> SUFFICES ASSUME Len(j) < Len(k) PROVE FALSE
    OBVIOUS
  <2>1. /\ Len(j) + 1 \in 1..Len(k)
        /\ Len(j) + 1 + 2 = Len(j) + 3
        /\ Len(j) + 3 \in 1..Len(y)
    BY <1>1 DEF LabelOf
  <2>2. x[Len(j) + 3] = "/" /\ y[Len(j) + 1 + 2] = k[Len(j) + 1]
    BY <2>1 DEF LabelOf
  <2>3. x[Len(j) + 3] = y[Len(j) + 3]
    BY <2>1 DEF Begins
  <2> QED BY <2>1, <2>2, <2>3, <1>2 DEF NoSlash
<1>4. ~(Len(k) < Len(j))
  <2> SUFFICES ASSUME Len(k) < Len(j) PROVE FALSE
    OBVIOUS
  <2>1. /\ Len(k) + 1 \in 1..Len(j)
        /\ Len(k) + 1 + 2 = Len(k) + 3
        /\ Len(k) + 3 \in 1..Len(y)
    BY <1>1 DEF LabelOf
  <2>2. y[Len(k) + 3] = "/" /\ x[Len(k) + 1 + 2] = j[Len(k) + 1]
    BY <2>1 DEF LabelOf
  <2>3. x[Len(k) + 3] = y[Len(k) + 3]
    BY <2>1 DEF Begins
  <2> QED BY <2>1, <2>2, <2>3, <1>2 DEF NoSlash
<1>5. Len(j) = Len(k)
  BY <1>1, <1>3, <1>4
<1>6. ASSUME NEW i \in 1..Len(j) PROVE j[i] = k[i]
  <2>1. i + 2 \in 1..Len(y)
    BY <1>1, <1>5 DEF LabelOf
  <2>2. x[i + 2] = j[i] /\ y[i + 2] = k[i]
    BY <1>5 DEF LabelOf
  <2> QED BY <2>1, <2>2 DEF Begins
<1> QED BY <1>5, <1>6, SeqEqual

(* What the sequence x holds from behind place n on is determined by the   *)
(* length of it.                                                           *)
LEMMA SameHeld ==
    ASSUME NEW x, NEW n, NEW v \in Seq(Chars), NEW w \in Seq(Chars), Len(v) = Len(w),
           HoldsAt(x, v, n), HoldsAt(x, w, n)
    PROVE  v = w
BY SeqEqual DEF HoldsAt

(* The plans of any two dispatches keep their jobs apart.                  *)
LEMMA LabelsApart ==
    ASSUME NoSlash, NEW d \in Dispatch, NEW e \in Dispatch
    PROVE  /\ Inside(workspace_root_label(d), workspace_root_label(e)) =>
                 d.job_id = e.job_id /\ d.workspace_id = e.workspace_id
           /\ Inside(artifact_root_label(d), artifact_root_label(e)) => d.job_id = e.job_id
           /\ ~Inside(workspace_root_label(d), artifact_root_label(e))
           /\ ~Inside(artifact_root_label(d), workspace_root_label(e))
<1>1. PICK j, k, v, w :
        j = d.job_id /\ k = e.job_id /\ v = d.workspace_id /\ w = e.workspace_id
  OBVIOUS
<1>2. j \in Seq(Chars) /\ k \in Seq(Chars) /\ v \in Seq(Chars) /\ w \in Seq(Chars)
  BY <1>1 DEF Dispatch, Id
<1>3. Len(j) \in Nat /\ Len(k) \in Nat /\ Len(v) \in Nat /\ Len(w) \in Nat
  BY <1>2, LenProperties
<1>4. PICK x, y, a, b :
        /\ x = workspace_root_label(d) /\ y = workspace_root_label(e)
        /\ a = artifact_root_label(d) /\ b = artifact_root_label(e)
  OBVIOUS
<1>5. PICK S : S = Token
  OBVIOUS
<1>6. /\ Seq(Chars \cup {"/", "jobs", "workspaces"}) \subseteq Seq(S)
      /\ Seq(Chars \cup {"/", "jobs", "artifacts"}) \subseteq Seq(S)
  BY <1>5 DEF Token
<1>7. /\ x \in Seq(S) /\ LabelOf(x, j) /\ x[Len(j) + 4] = "workspaces"
      /\ Len(x) = Len(j) + 5 + Len(v) /\ HoldsAt(x, v, Len(j) + 5)
  BY <1>1, <1>4, <1>6, WorkspaceLabel, Zenon
<1>8. /\ y \in Seq(S) /\ LabelOf(y, k) /\ y[Len(k) + 4] = "workspaces"
      /\ Len(y) = Len(k) + 5 + Len(w) /\ HoldsAt(y, w, Len(k) + 5)
  BY <1>1, <1>4, <1>6, WorkspaceLabel, Zenon
<1>9. a \in Seq(S) /\ LabelOf(a, j) /\ a[Len(j) + 4] = "artifacts" /\ Len(a) = Len(j) + 4
  BY <1>1, <1>4, <1>6, ArtifactLabel, Zenon
<1>10. b \in Seq(S) /\ LabelOf(b, k) /\ b[Len(k) + 4] = "artifacts" /\ Len(b) = Len(k) + 4
  BY <1>1, <1>4, <1>6, ArtifactLabel, Zenon
<1>11. Len(x) \in Nat /\ Len(y) \in Nat /\ Len(a) \in Nat /\ Len(b) \in Nat
  BY <1>3, <1>7, <1>8, <1>9, <1>10
<1>12. ASSUME Inside(x, y) PROVE j = k /\ v = w
  <2>1. Begins(y, x)
    BY <1>7, <1>8, <1>12, InsideBegins, Zenon
  <2>2. j = k
    BY <2>1, <1>2, <1>7, <1>8, <1>11, SameJob, Zenon
  <2>3. ~(Len(y) < Len(x) /\ x[Len(y) + 1] = "/")
    <3> SUFFICES ASSUME Len(y) < Len(x), x[Len(y) + 1] = "/" PROVE FALSE
      OBVIOUS
    <3>1. Len(w) + 1 \in 1..Len(v) /\ Len(j) + 5 + (Len(w) + 1) = Len(y) + 1
      BY <2>2, <1>3, <1>7, <1>8
    <3>2. x[Len(y) + 1] = v[Len(w) + 1]
      BY <3>1, <1>7 DEF HoldsAt
    <3>3. v[Len(w) + 1] \in Chars
      BY <3>1, <1>2, ElementOfSeq
    <3> QED BY <3>2, <3>3 DEF NoSlash
  <2>4. x = y
    BY <1>12, <2>3 DEF Inside
  <2>5. Len(v) = Len(w)
    BY <2>2, <2>4, <1>3, <1>7, <1>8
  <2>6. v = w
    BY <2>2, <2>4, <2>5, <1>2, <1>7, <1>8, SameHeld, Zenon
  <2> QED BY <2>2, <2>6
<1>13. ASSUME Inside(a, b) PROVE j = k
  <2>1. Begins(b, a)
    BY <1>9, <1>10, <1>13, InsideBegins, Zenon
  <2> QED BY <2>1, <1>2, <1>9, <1>10, <1>11, SameJob, Zenon
<1>14. ASSUME Inside(x, b) PROVE FALSE
  <2>1. Begins(b, x)
    BY <1>7, <1>10, <1>14, InsideBegins, Zenon
  <2>2. j = k
    BY <2>1, <1>2, <1>7, <1>10, <1>11, SameJob, Zenon
  <2>3. Len(k) + 4 \in 1..Len(b)
    BY <1>3, <1>10
  <2>4. x[Len(k) + 4] = b[Len(k) + 4]
    BY <2>1, <2>3 DEF Begins
  <2> QED BY <2>2, <2>4, <1>7, <1>10
<1>15. ASSUME Inside(a, y) PROVE FALSE
  <2>1. Begins(y, a)
    BY <1>8, <1>9, <1>15, InsideBegins, Zenon
  <2>2. Len(y) <= Len(a) /\ j = k
    BY <2>1, <1>2, <1>8, <1>9, <1>11, SameJob DEF Begins
  <2> QED BY <2>2, <1>3, <1>8, <1>9
<1> QED BY <1>1, <1>4, <1>12, <1>13, <1>14, <1>15

-----------------------------------------------------------------------------
(* Plans *)

(* A set of places has a last one.                                         *)
LEMMA LastPlace ==
    ASSUME NEW n \in Nat, NEW T \in SUBSET (1..n), T # {}
    PROVE  \E k \in T : \A m \in T : m <= k
<1> DEFINE D == {n - k : k \in T}
<1>1. D \in SUBSET Nat /\ D # {}
  <2>1. PICK k : k \in T
    OBVIOUS
  <2>2. n - k \in D
    BY <2>1
  <2>3. \A m \in T : n - m \in Nat
    OBVIOUS
  <2> QED BY <2>2, <2>3
<1> HIDE DEF D
<1>2. PICK e \in D : \A d \in D : <<d, e>> \notin OpToRel(<, Nat)
  BY <1>1, NatLessThanWellFounded, WFMin, Zenon
<1>3. ASSUME NEW d \in D PROVE e <= d
  <2>1. <<d, e>> \in Nat \X Nat /\ ~(d < e)
    BY <1>1, <1>2 DEF OpToRel
  <2> QED BY <2>1
<1>4. PICK k \in T : e = n - k
  BY DEF D
<1>5. ASSUME NEW m \in T PROVE m <= k
  <2>1. n - m \in D
    BY DEF D
  <2> QED BY <2>1, <1>3, <1>4
<1> QED BY <1>5

Places(name, environment) == {n \in DOMAIN environment : environment[n][1] = name}

(* The value kept of a name that occurs is that of its last place.         *)
LEMMA LastValueIs ==
    ASSUME NEW environment \in Seq(Pairs), NEW name \in Names(environment)
    PROVE  /\ LastValue(name, environment) \in EnvValues
           /\ \E n \in Places(name, environment) :
                 /\ \A m \in Places(name, environment) : m <= n
                 /\ LastValue(name, environment) = environment[n][2]
<1> DEFINE T == {n \in DOMAIN environment : environment[n][1] = name}
           IsLast(n) == /\ environment[n][1] = name
                        /\ \A m \in DOMAIN environment : environment[m][1] = name => m <= n
           last == CHOOSE n \in DOMAIN environment : IsLast(n)
<1>1. Len(environment) \in Nat /\ DOMAIN environment = 1..Len(environment)
  BY LenProperties
<1>2. T \in SUBSET (1..Len(environment)) /\ T # {}
  BY <1>1 DEF Names
<1>3. \E n \in T : \A m \in T : m <= n
  <2> HIDE DEF T
  <2> QED BY <1>1, <1>2, LastPlace
<1>4. \E n \in DOMAIN environment : IsLast(n)
  BY <1>3
<1>5. last \in DOMAIN environment /\ IsLast(last)
  <2> HIDE DEF IsLast
  <2> QED BY <1>4
<1>6. LastValue(name, environment) = environment[last][2]
  BY Zenon DEF LastValue
<1> HIDE DEF last
<1>7. environment[last] \in Pairs
  BY <1>1, <1>5, ElementOfSeq
<1>8. environment[last][2] \in EnvValues
  BY <1>7 DEF Pairs
<1> QED BY <1>5, <1>6, <1>8 DEF Places

(* The names an environment has are names of variables. *)
LEMMA NamesAreNames ==
    ASSUME NEW environment \in Seq(Pairs)
    PROVE  Names(environment) \subseteq EnvNames
<1>1. \A n \in DOMAIN environment : environment[n] \in Pairs
  BY ElementOfSeq, LenProperties
<1> QED BY <1>1 DEF Names, Pairs

(* The variables a plan holds. *)
LEMMA AllowedEnvOf ==
    ASSUME NEW d, NEW environment
    PROVE  plan_job_isolation(d, environment).allowed_env =
             [name \in Names(environment) \cap d.allowed_env |-> LastValue(name, environment)]
BY DEF plan_job_isolation

(* Each plan is the plan of its dispatch and environment.  Plans are never *)
(* changed, so that all that is said of them follows from this.            *)
PlanInv ==
    /\ ambient \in Environments
    /\ \A p \in planned :
          /\ p.dispatch \in Dispatches
          /\ p.environment \in Environments
          /\ p.plan = plan_job_isolation(p.dispatch, p.environment)

(* There is no plan at first. *)
LEMMA InitPlanInv == Init => PlanInv
BY DEF Init, PlanInv

(* A plan is kept as it was made. *)
LEMMA NextPlanInv == PlanInv /\ [Next]_vars => PlanInv'
<1> SUFFICES ASSUME PlanInv, [Next]_vars PROVE PlanInv'
  OBVIOUS
<1>1. ASSUME NEW environment \in Environments, environment_changes(environment) PROVE PlanInv'
  BY <1>1 DEF PlanInv, environment_changes
<1>2. ASSUME NEW d \in Dispatches, plan_job(d) PROVE PlanInv'
  <2> HIDE DEF plan_job_isolation
  <2> QED BY <1>2 DEF PlanInv, plan_job
<1>3. CASE UNCHANGED <<ambient, planned>>
  BY <1>3 DEF PlanInv
<1>4. ASSUME NEW p \in planned, NEW resource, check_access(p, resource) PROVE PlanInv'
  BY <1>4, <1>3 DEF check_access
<1>5. ASSUME NEW j, NEW l, NEW s, leave_file(j, l, s) PROVE PlanInv'
  BY <1>5, <1>3 DEF leave_file
<1>6. ASSUME NEW file \in disk, NEW disposition, clean_up(file, disposition) PROVE PlanInv'
  BY <1>6, <1>3 DEF clean_up
<1>7. CASE assert_cleanup_safe
  BY <1>7, <1>3 DEF assert_cleanup_safe
<1>8. CASE UNCHANGED vars
  BY <1>8, <1>3 DEF vars
<1> QED BY <1>1, <1>2, <1>4, <1>5, <1>6, <1>7, <1>8 DEF Next

(* The invariant holds throughout. *)
LEMMA PlansHold == Spec => []PlanInv
<1>1. Init => PlanInv
  BY InitPlanInv
<1>2. PlanInv /\ [Next]_vars => PlanInv'
  BY NextPlanInv
<1> QED BY <1>1, <1>2, PTL DEF Spec

(* Where no id can hold a slash, the roots of two jobs never overlap,      *)
(* however dispatches arrive, whatever the ids: empty ones, ones that      *)
(* begin each other and ones named like a part of a label included         *)
(* (src/isolation.rs 78-82).                                               *)
THEOREM DirectoriesAreApart ==
    ASSUME NoSlash
    PROVE  Spec => []RootsAreApart
<1>1. PlanInv => RootsAreApart
  <2> SUFFICES ASSUME PlanInv, NEW p \in planned, NEW q \in planned
               PROVE  /\ Inside(p.plan.workspace_root_label, q.plan.workspace_root_label) =>
                            /\ p.dispatch.job_id = q.dispatch.job_id
                            /\ p.dispatch.workspace_id = q.dispatch.workspace_id
                      /\ Inside(p.plan.artifact_root_label, q.plan.artifact_root_label) =>
                            p.dispatch.job_id = q.dispatch.job_id
                      /\ ~Inside(p.plan.workspace_root_label, q.plan.artifact_root_label)
                      /\ ~Inside(p.plan.artifact_root_label, q.plan.workspace_root_label)
    BY DEF RootsAreApart
  <2>1. p.dispatch \in Dispatch /\ q.dispatch \in Dispatch
    BY DispatchesAssumption DEF PlanInv
  <2>2. /\ p.plan = plan_job_isolation(p.dispatch, p.environment)
        /\ q.plan = plan_job_isolation(q.dispatch, q.environment)
    BY DEF PlanInv
  <2>3. /\ p.plan.workspace_root_label = workspace_root_label(p.dispatch)
        /\ p.plan.artifact_root_label = artifact_root_label(p.dispatch)
        /\ q.plan.workspace_root_label = workspace_root_label(q.dispatch)
        /\ q.plan.artifact_root_label = artifact_root_label(q.dispatch)
    BY <2>2 DEF plan_job_isolation
  <2> QED BY <2>1, <2>3, LabelsApart, NoSlash, Zenon
<1> QED BY <1>1, PlansHold, PTL

(* A plan holds exactly the variables its policy lists and the environment *)
(* had, each with the last value it had when the plan was made             *)
(* (src/isolation.rs 62-73).                                               *)
THEOREM VariablesAreScoped == Spec => []EnvironmentIsScoped
<1>1. ASSUME PlanInv, NEW p \in planned, NEW name \in EnvNames
      PROVE  /\ name \in DOMAIN p.plan.allowed_env <=>
                   name \in p.dispatch.allowed_env /\ Places(name, p.environment) # {}
             /\ name \in DOMAIN p.plan.allowed_env =>
                   \E n \in Places(name, p.environment) :
                       /\ \A m \in Places(name, p.environment) : m <= n
                       /\ p.plan.allowed_env[name] = p.environment[n][2]
  <2>1. p.environment \in Seq(Pairs)
    BY <1>1, EnvironmentsAssumption DEF PlanInv
  <2>2. p.plan = plan_job_isolation(p.dispatch, p.environment)
    BY <1>1 DEF PlanInv
  <2>3. p.plan.allowed_env =
          [x \in Names(p.environment) \cap p.dispatch.allowed_env |-> LastValue(x, p.environment)]
    BY <2>2, AllowedEnvOf
  <2>4. name \in Names(p.environment) <=> Places(name, p.environment) # {}
    BY DEF Names, Places
  <2>5. ASSUME name \in DOMAIN p.plan.allowed_env
        PROVE  \E n \in Places(name, p.environment) :
                  /\ \A m \in Places(name, p.environment) : m <= n
                  /\ p.plan.allowed_env[name] = p.environment[n][2]
    <3>1. name \in Names(p.environment) /\ p.plan.allowed_env[name] = LastValue(name, p.environment)
      BY <2>3, <2>5
    <3>2. PICK n \in Places(name, p.environment) :
            /\ \A m \in Places(name, p.environment) : m <= n
            /\ LastValue(name, p.environment) = p.environment[n][2]
      BY <2>1, <3>1, LastValueIs
    <3> QED BY <3>1, <3>2
  <2> QED BY <2>3, <2>4, <2>5
<1>2. PlanInv => EnvironmentIsScoped
  BY <1>1 DEF EnvironmentIsScoped, Places
<1> QED BY <1>2, PlansHold, PTL

(* What a plan takes from its dispatch. *)
LEMMA PlanFields ==
    ASSUME NEW d, NEW environment
    PROVE  /\ plan_job_isolation(d, environment).job_id = d.job_id
           /\ plan_job_isolation(d, environment).workspace_root_label = workspace_root_label(d)
           /\ plan_job_isolation(d, environment).artifact_root_label = artifact_root_label(d)
           /\ plan_job_isolation(d, environment).scoped_credential_ref = d.scoped_credential_ref
BY DEF plan_job_isolation

(* A plan made from a dispatch and an environment is typed. *)
LEMMA PlanTypes ==
    ASSUME NEW d \in Dispatch, NEW environment \in Seq(Pairs), NEW plan,
           plan = plan_job_isolation(d, environment)
    PROVE  /\ plan.job_id \in Id
           /\ plan.workspace_root_label \in Seq(Chars \cup {"/", "jobs", "workspaces"})
           /\ plan.artifact_root_label \in Seq(Chars \cup {"/", "jobs", "artifacts"})
           /\ plan.allowed_env \in [DOMAIN plan.allowed_env -> EnvValues]
           /\ DOMAIN plan.allowed_env \subseteq EnvNames
           /\ plan.scoped_credential_ref \subseteq CredentialRefs
<1>1. plan.job_id \in Id /\ plan.scoped_credential_ref \subseteq CredentialRefs
  <2>1. d.job_id \in Id /\ d.scoped_credential_ref \in SUBSET CredentialRefs
    BY DEF Dispatch
  <2> QED BY <2>1, PlanFields
<1>2. /\ plan.workspace_root_label \in Seq(Chars \cup {"/", "jobs", "workspaces"})
      /\ plan.artifact_root_label \in Seq(Chars \cup {"/", "jobs", "artifacts"})
  BY PlanFields, WorkspaceLabel, ArtifactLabel, Zenon
<1>3. plan.allowed_env =
        [name \in Names(environment) \cap d.allowed_env |-> LastValue(name, environment)]
  BY AllowedEnvOf
<1>4. \A name \in Names(environment) : LastValue(name, environment) \in EnvValues
  BY LastValueIs
<1> QED BY <1>1, <1>2, <1>3, <1>4, NamesAreNames

(* Every variable keeps its type: plans are plans, files and evidence are  *)
(* of jobs that were planned.                                              *)
THEOREM TypeCorrect == Spec => []TypeOK
<1> DEFINE FilesOK == /\ disk \subseteq [job_id : Id, path_label : PathLabels, sensitive : BOOLEAN]
                      /\ evidence \in Seq(CleanupEvidence)
<1>1. PlanInv /\ FilesOK => TypeOK
  <2> SUFFICES ASSUME PlanInv, FilesOK, NEW p \in planned
               PROVE  /\ p.dispatch \in Dispatches
                      /\ p.environment \in Environments
                      /\ p.plan.job_id \in Id
                      /\ p.plan.workspace_root_label \in Seq(Chars \cup {"/", "jobs", "workspaces"})
                      /\ p.plan.artifact_root_label \in Seq(Chars \cup {"/", "jobs", "artifacts"})
                      /\ p.plan.allowed_env \in [DOMAIN p.plan.allowed_env -> EnvValues]
                      /\ DOMAIN p.plan.allowed_env \subseteq EnvNames
                      /\ p.plan.scoped_credential_ref \subseteq CredentialRefs
    BY DEF TypeOK, PlanInv
  <2>1. /\ p.dispatch \in Dispatches /\ p.environment \in Environments
        /\ p.plan = plan_job_isolation(p.dispatch, p.environment)
    BY DEF PlanInv
  <2>2. p.dispatch \in Dispatch /\ p.environment \in Seq(Pairs)
    BY <2>1, DispatchesAssumption, EnvironmentsAssumption
  <2> QED BY <2>1, <2>2, PlanTypes, Zenon
<1>2. Init => FilesOK
  BY DEF Init
<1>3. PlanInv /\ FilesOK /\ [Next]_vars => FilesOK'
  <2> SUFFICES ASSUME PlanInv, FilesOK, [Next]_vars PROVE FilesOK'
    OBVIOUS
  <2>1. Jobs \subseteq Id
    BY DispatchesAssumption DEF PlanInv, Jobs, Dispatch
  <2>2. CASE UNCHANGED <<disk, evidence>>
    BY <2>2
  <2>3. ASSUME NEW environment \in Environments, environment_changes(environment) PROVE FilesOK'
    BY <2>3, <2>2 DEF environment_changes
  <2>4. ASSUME NEW d \in Dispatches, plan_job(d) PROVE FilesOK'
    BY <2>4, <2>2 DEF plan_job
  <2>5. ASSUME NEW p, NEW resource, check_access(p, resource) PROVE FilesOK'
    BY <2>5, <2>2 DEF check_access
  <2>6. ASSUME NEW j \in Jobs, NEW l \in PathLabels, NEW s \in BOOLEAN, leave_file(j, l, s)
        PROVE  FilesOK'
    BY <2>1, <2>6 DEF leave_file
  <2>7. ASSUME NEW file \in disk, NEW disposition \in CleanupDisposition,
               clean_up(file, disposition)
        PROVE  FilesOK'
    <3>1. [job_id |-> file.job_id, path_label |-> file.path_label, sensitive |-> file.sensitive,
           disposition |-> disposition] \in CleanupEvidence
      BY DEF CleanupEvidence
    <3>2. evidence' \in Seq(CleanupEvidence)
      BY <2>7, <3>1 DEF clean_up
    <3> QED BY <2>7, <3>2 DEF clean_up
  <2>8. CASE assert_cleanup_safe
    BY <2>8, <2>2 DEF assert_cleanup_safe
  <2>9. CASE UNCHANGED vars
    BY <2>9, <2>2 DEF vars
  <2> QED BY <2>3, <2>4, <2>5, <2>6, <2>7, <2>8, <2>9 DEF Next
<1> QED BY <1>1, <1>2, <1>3, PlansHold, PTL DEF Spec

-----------------------------------------------------------------------------
(* Access *)

(* The ownership check of a step was made with a plan of a resource that   *)
(* some plan gives its job.                                                *)
AccessInv ==
    access # NoCheck =>
        \E p, q \in planned : \E resource \in Resources(q.plan) :
            access = [plan |-> p, resource |-> resource, result |-> owns(p.plan, resource)]

(* Every check is made of a resource that some plan gives. *)
LEMMA AccessInvHolds == Spec => []AccessInv
<1>1. Init => AccessInv
  BY DEF Init, AccessInv
<1>2. AccessInv /\ [Next]_vars => AccessInv'
  <2> SUFFICES ASSUME AccessInv, [Next]_vars PROVE AccessInv'
    OBVIOUS
  <2>1. CASE access' = NoCheck
    BY <2>1 DEF AccessInv, NoCheck
  <2>2. ASSUME NEW p \in planned, NEW q \in planned, NEW resource \in Resources(q.plan),
               check_access(p, resource)
        PROVE  AccessInv'
    <3>1. /\ planned' = planned
          /\ access' = [plan |-> p, resource |-> resource, result |-> owns(p.plan, resource)]
      BY <2>2 DEF check_access
    <3>2. \E p1, q1 \in planned' : \E resource1 \in Resources(q1.plan) :
            access' = [plan |-> p1, resource |-> resource1, result |-> owns(p1.plan, resource1)]
      BY <2>2, <3>1, Zenon
    <3> QED BY <3>2, Zenon DEF AccessInv
  <2>3. CASE UNCHANGED vars
    BY <2>3, Zenon DEF vars, AccessInv, NoCheck
  <2> QED BY <2>1, <2>2, <2>3 DEF Next, environment_changes, plan_job, leave_file, clean_up,
                                  assert_cleanup_safe
<1> QED BY <1>1, <1>2, PTL DEF Spec

(* What the ownership check says of a resource of a plan, by its kind.     *)
LEMMA OwnsByPlan ==
    ASSUME NEW plan, NEW other, NEW resource \in Resources(other)
    PROVE  owns(plan, resource) = "Ok" <=>
              /\ resource.job_id = plan.job_id
              /\ \/ resource.kind \in {"Workspace", "Artifact"}
                 \/ resource \in Resources(plan)
<1>1. CASE resource.kind \in {"Workspace", "Artifact"}
  BY <1>1 DEF owns
<1>2. ASSUME NEW c \in other.scoped_credential_ref,
             resource = [job_id |-> other.job_id, kind |-> "Credential", name |-> c]
      PROVE  owns(plan, resource) = "Ok" <=>
                resource.job_id = plan.job_id /\ resource \in Resources(plan)
  <2>1. owns(plan, resource) = "Ok" <=>
           other.job_id = plan.job_id /\ c \in plan.scoped_credential_ref
    BY <1>2 DEF owns
  <2>2. resource \in Resources(plan) <=>
           other.job_id = plan.job_id /\ c \in plan.scoped_credential_ref
    BY <1>2 DEF Resources
  <2> QED BY <1>2, <2>1, <2>2
<1>3. ASSUME NEW v \in DOMAIN other.allowed_env,
             resource = [job_id |-> other.job_id, kind |-> "EnvironmentVariable", name |-> v]
      PROVE  owns(plan, resource) = "Ok" <=>
                resource.job_id = plan.job_id /\ resource \in Resources(plan)
  <2>1. owns(plan, resource) = "Ok" <=>
           other.job_id = plan.job_id /\ v \in DOMAIN plan.allowed_env
    BY <1>3 DEF owns
  <2>2. resource \in Resources(plan) <=>
           other.job_id = plan.job_id /\ v \in DOMAIN plan.allowed_env
    BY <1>3 DEF Resources
  <2> QED BY <1>3, <2>1, <2>2
<1> QED BY <1>1, <1>2, <1>3 DEF Resources

(* A job is let at exactly what its own plan gives it, of resources of any *)
(* job, whatever dispatches its plan and theirs were made from             *)
(* (src/isolation.rs 89-111).                                              *)
THEOREM AccessIsByPlan == Spec => []AccessFollowsPlans
<1>1. PlanInv /\ AccessInv => AccessFollowsPlans
  <2> SUFFICES ASSUME PlanInv, AccessInv, access # NoCheck
               PROVE  access.result = "Ok" <=>
                         /\ access.resource.job_id = access.plan.dispatch.job_id
                         /\ \/ access.resource.kind \in {"Workspace", "Artifact"}
                            \/ access.resource \in Resources(access.plan.plan)
    BY DEF AccessFollowsPlans
  <2>0. PICK p \in planned, q \in planned : \E resource \in Resources(q.plan) :
          access = [plan |-> p, resource |-> resource, result |-> owns(p.plan, resource)]
    BY Zenon DEF AccessInv
  <2>1. PICK resource \in Resources(q.plan) :
          access = [plan |-> p, resource |-> resource, result |-> owns(p.plan, resource)]
    BY <2>0
  <2>2. access.plan = p /\ access.resource = resource /\ access.result = owns(p.plan, resource)
    BY <2>1
  <2>3. p.plan.job_id = p.dispatch.job_id
    BY PlanFields DEF PlanInv
  <2>4. owns(p.plan, resource) = "Ok" <=>
           /\ resource.job_id = p.plan.job_id
           /\ \/ resource.kind \in {"Workspace", "Artifact"}
              \/ resource \in Resources(p.plan)
    BY OwnsByPlan, Zenon
  <2> QED BY <2>2, <2>3, <2>4, Zenon
<1> QED BY <1>1, PlansHold, AccessInvHolds, PTL

-----------------------------------------------------------------------------
(* Cleaning up *)

(* The guard passes only where no sensitive file is left, of whichever job *)
(* and after however many attempts (src/isolation.rs 114-124).             *)
THEOREM PassedIsClean == Spec => []SafeMeansClean
<1>1. Init => SafeMeansClean
  BY DEF Init, SafeMeansClean, NoCheck
<1>2. SafeMeansClean /\ [Next]_vars => SafeMeansClean'
  <2> SUFFICES ASSUME SafeMeansClean, [Next]_vars PROVE SafeMeansClean'
    OBVIOUS
  <2>1. CASE verdict' = NoCheck
    BY <2>1 DEF SafeMeansClean, NoCheck
  <2>2. CASE assert_cleanup_safe
    <3> SUFFICES ASSUME verdict'.result = "Ok", NEW file \in disk', file.sensitive PROVE FALSE
      BY DEF SafeMeansClean
    <3>1. Reported /\ verdict' = Verdict(evidence) /\ disk' = disk
      BY <2>2 DEF assert_cleanup_safe
    <3>2. Residuals(evidence) = {}
      BY <3>1 DEF Verdict
    <3>3. PICK n \in DOMAIN evidence :
            evidence[n].sensitive = file.sensitive /\ evidence[n].disposition = "Residual"
      <4>1. file \in disk
        BY <3>1, Zenon
      <4> QED BY ONLY <3>1, <4>1, Zenon DEF Reported
    <3>4. n \in Residuals(evidence)
      BY <3>3 DEF Residuals
    <3> QED BY <3>2, <3>4
  <2>3. CASE UNCHANGED vars
    BY <2>3 DEF vars, SafeMeansClean
  <2> QED BY <2>1, <2>2, <2>3 DEF Next, environment_changes, plan_job, check_access, leave_file, clean_up
<1> QED BY <1>1, <1>2, PTL DEF Spec
=============================================================================
