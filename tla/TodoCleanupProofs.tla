-------------------------- MODULE TodoCleanupProofs --------------------------
(***************************************************************************)
(* Proofs about the interactive cleanup of src/scripts/cleanup_todos.py    *)
(* (module TodoCleanup), for every batch of distinct files, every file     *)
(* length and every clock bound: the variables keep their types, no line   *)
(* that holds code is ever deleted, and every change to a file is one of   *)
(* the rewrites of a TODO line that TodoEdits allows.                      *)
(***************************************************************************)
EXTENDS TodoCleanup, FiniteSetTheorems, SequenceTheorems, TLAPS

-----------------------------------------------------------------------------
(* Lemmas about the data operators.                                        *)

\* A file as the script finds it: n lines, the k-th with id k.
LEMMA SourceFileShape ==
  ASSUME NEW f \in SourceFiles
  PROVE  /\ f \in Seq(Line)
         /\ Len(f) \in 1..MaxLines
         /\ \A k \in 1..Len(f) : f[k].id = k /\ f[k].kind \in SourceKinds
<1>0. PICK n \in 1..MaxLines : \E g \in [1..n -> SourceKinds] :
        f = [k \in 1..n |-> [id |-> k, kind |-> g[k]]]
  BY DEF SourceFiles
<1>1. PICK g \in [1..n -> SourceKinds] :
        f = [k \in 1..n |-> [id |-> k, kind |-> g[k]]]
  BY <1>0
<1>3. n \in Nat
  BY CleanupAssumption DEF CleanupAssumption
<1>2. f \in [1..n -> Line]
  <2>1. \A k \in 1..n : k \in 0..MaxLines /\ g[k] \in SourceKinds
    BY <1>3, CleanupAssumption DEF CleanupAssumption
  <2>. QED
    BY <1>1, <2>1 DEF Line
<1>. QED
  BY <1>1, <1>2, <1>3

\* The least-number argument behind find_todos' order: for every j up to
\* the number of matching lines there is a matching line with exactly j
\* matching lines up to it.  The least k with Rank >= j is one.
LEMMA RankExists ==
  ASSUME NEW N \in Nat, NEW H \in SUBSET (1..N), NEW j \in 1..Cardinality(H)
  PROVE  \E k \in H : Rank(H, k) = j
<1>. DEFINE Upto(k) == { i \in H : i <= k }
<1>0. \A i \in H : i \in Int /\ 1 <= i /\ i <= N
  OBVIOUS
<1>1. IsFiniteSet(1..N)
  BY FS_Interval
<1>1a. j \in Nat
  BY <1>1, FS_Subset, FS_CardinalityType
<1>2. ASSUME NEW k \in Int
      PROVE  IsFiniteSet(Upto(k)) /\ Rank(H, k) = Cardinality(Upto(k))
             /\ Rank(H, k) \in Nat
  <2>1. Upto(k) \in SUBSET (1..N)
    BY Zenon DEF Upto
  <2>2. IsFiniteSet(Upto(k))
    BY <1>1, <2>1, FS_Subset
  <2>. QED
    BY <2>2, FS_CardinalityType DEF Rank, Upto
<1>. DEFINE T == { k \in 0..N : Rank(H, k) >= j }
<1>. USE DEF T
<1>3. N \in T
  <2>1. Upto(N) = H
    BY <1>0, Zenon DEF Upto
  <2>2. Rank(H, N) = Cardinality(H)
    BY <1>2, <2>1
  <2>. QED
    BY <2>2
<1>4. PICK m \in T : \A y \in T : ~(<< y, m >> \in OpToRel(<, Nat))
  <2>1. T \subseteq Nat /\ T # {}
    BY <1>3
  <2>. QED
    BY <2>1, NatLessThanWellFounded, WFMin, Zenon
<1>5. m \in 1..N
  <2>0. \A i \in H : ~(i <= 0)
    BY <1>0
  <2>1. Upto(0) = {}
    BY <2>0, Zenon DEF Upto
  <2>2. Rank(H, 0) = 0
    BY <1>2, <2>1, FS_EmptySet
  <2>. QED
    BY <2>2
<1>6. /\ Rank(H, m) = Cardinality(Upto(m)) /\ Rank(H, m) \in Nat
      /\ Rank(H, m - 1) = Cardinality(Upto(m - 1)) /\ Rank(H, m - 1) \in Nat
      /\ IsFiniteSet(Upto(m - 1))
  <2>1. m \in Int /\ m - 1 \in Int
    BY <1>5
  <2>. QED
    BY <2>1, <1>2, Zenon
<1>7. Rank(H, m - 1) < j
  <2>1. << m - 1, m >> \in OpToRel(<, Nat)
    BY <1>5 DEF OpToRel
  <2>2. m - 1 \notin T
    BY <1>4, <2>1, Zenon
  <2>. QED
    BY <1>1a, <1>5, <1>6, <2>2
<1>8. CASE m \notin H
  <2>0. \A i \in H : i <= m <=> i <= m - 1
    BY <1>0, <1>5, <1>8
  <2>1. Upto(m) = Upto(m - 1)
    BY <2>0, Zenon DEF Upto
  <2>. QED
    BY <1>6, <1>7, <2>1
<1>9. CASE m \in H
  <2>0. \A i \in H : i <= m <=> (i <= m - 1 \/ i = m)
    BY <1>0, <1>5
  <2>1. Upto(m) = Upto(m - 1) \cup {m}
    BY <1>9, <2>0, Zenon DEF Upto
  <2>2. m \notin Upto(m - 1)
    BY <1>5 DEF Upto
  <2>3. Cardinality(Upto(m)) = Cardinality(Upto(m - 1)) + 1
    BY <1>6, <2>1, <2>2, FS_AddElement, Zenon
  <2>. QED
    BY <1>6, <1>7, <1>9, <2>3
<1>. QED
  BY <1>8, <1>9
\* What InsertAt, RemoveAt and Splice return.
LEMMA InsertAtProps ==
  ASSUME NEW S, NEW s \in Seq(S), NEW i \in 1..(Len(s) + 1), NEW e \in S
  PROVE  /\ InsertAt(s, i, e) \in Seq(S)
         /\ Len(InsertAt(s, i, e)) = Len(s) + 1
         /\ \A k \in 1..(Len(s) + 1) :
              InsertAt(s, i, e)[k] = IF k < i THEN s[k] ELSE IF k = i THEN e ELSE s[k - 1]
<1>. DEFINE A == SubSeq(s, 1, i - 1)  C == SubSeq(s, i, Len(s))  AB == A \o << e >>
<1>1. A \in Seq(S) /\ Len(A) = i - 1 /\ \A k \in 1..(i - 1) : A[k] = s[k]
  BY SubSeqProperties
<1>2. C \in Seq(S) /\ Len(C) = Len(s) - i + 1 /\ \A k \in 1..(Len(s) - i + 1) : C[k] = s[i + k - 1]
  BY SubSeqProperties
<1>3. InsertAt(s, i, e) = AB \o C
  BY DEF InsertAt
<1>. HIDE DEF A, C
<1>4. AB \in Seq(S) /\ Len(AB) = i /\ \A k \in 1..i : AB[k] = IF k < i THEN s[k] ELSE e
  <2>1. << e >> \in Seq(S) /\ Len(<< e >>) = 1 /\ << e >>[1] = e
    OBVIOUS
  <2>2. /\ A \o << e >> \in Seq(S) /\ Len(A \o << e >>) = Len(A) + 1
        /\ \A k \in 1..(Len(A) + 1) : (A \o << e >>)[k] = IF k <= Len(A) THEN A[k] ELSE << e >>[k - Len(A)]
    BY <1>1, <2>1, ConcatProperties
  <2>. QED
    BY <1>1, <2>1, <2>2
<1>. HIDE DEF AB
<1>5. /\ AB \o C \in Seq(S) /\ Len(AB \o C) = Len(AB) + Len(C)
      /\ \A k \in 1..(Len(AB) + Len(C)) : (AB \o C)[k] = IF k <= Len(AB) THEN AB[k] ELSE C[k - Len(AB)]
  BY <1>2, <1>4, ConcatProperties
<1>6. Len(AB \o C) = Len(s) + 1
  BY <1>2, <1>4, <1>5
<1>7. ASSUME NEW k \in 1..(Len(s) + 1)
      PROVE  (AB \o C)[k] = IF k < i THEN s[k] ELSE IF k = i THEN e ELSE s[k - 1]
  <2>1. k \in 1..(Len(AB) + Len(C))
    BY <1>2, <1>4
  <2>2. CASE k <= i
    BY <1>4, <1>5, <2>1, <2>2
  <2>3. CASE k > i
    <3>1. (AB \o C)[k] = C[k - i]
      BY <1>4, <1>5, <2>1, <2>3
    <3>2. k - i \in 1..(Len(s) - i + 1)
      BY <2>3
    <3>. QED
      BY <1>2, <2>3, <3>1, <3>2
  <2>4. k <= i \/ k > i
    OBVIOUS
  <2>. QED
    BY <2>2, <2>3, <2>4, Zenon
<1>. QED
  BY <1>3, <1>5, <1>6, <1>7

LEMMA RemoveAtProps ==
  ASSUME NEW S, NEW s \in Seq(S), NEW i \in 1..Len(s)
  PROVE  /\ RemoveAt(s, i) \in Seq(S)
         /\ Len(RemoveAt(s, i)) = Len(s) - 1
         /\ \A k \in 1..(Len(s) - 1) :
              RemoveAt(s, i)[k] = IF k < i THEN s[k] ELSE s[k + 1]
<1>. DEFINE A == SubSeq(s, 1, i - 1)  C == SubSeq(s, i + 1, Len(s))
<1>1. A \in Seq(S) /\ Len(A) = i - 1 /\ \A k \in 1..(i - 1) : A[k] = s[k]
  BY SubSeqProperties
<1>2. C \in Seq(S) /\ Len(C) = Len(s) - i /\ \A k \in 1..(Len(s) - i) : C[k] = s[i + k]
  BY SubSeqProperties
<1>3. RemoveAt(s, i) = A \o C
  BY DEF RemoveAt
<1>. HIDE DEF A, C
<1>4. /\ A \o C \in Seq(S) /\ Len(A \o C) = Len(A) + Len(C)
      /\ \A k \in 1..(Len(A) + Len(C)) : (A \o C)[k] = IF k <= Len(A) THEN A[k] ELSE C[k - Len(A)]
  BY <1>1, <1>2, ConcatProperties, Zenon
<1>5. Len(A \o C) = Len(s) - 1
  BY <1>1, <1>2, <1>4
<1>6. ASSUME NEW k \in 1..(Len(s) - 1)
      PROVE  (A \o C)[k] = IF k < i THEN s[k] ELSE s[k + 1]
  <2>1. k \in 1..(Len(A) + Len(C))
    BY <1>1, <1>2
  <2>2. CASE k < i
    BY <1>1, <1>4, <2>1, <2>2
  <2>3. CASE k >= i
    <3>1. (A \o C)[k] = C[k - Len(A)]
      BY <1>1, <1>4, <2>1, <2>3
    <3>2. k - Len(A) \in 1..(Len(s) - i)
      BY <1>1, <2>3
    <3>. QED
      BY <1>1, <1>2, <3>1, <3>2
  <2>4. k < i \/ k >= i
    OBVIOUS
  <2>. QED
    BY <2>2, <2>3, <2>4, Zenon
<1>. QED
  BY <1>3, <1>4, <1>5, <1>6

\* The change EditTodo of TodoEdits makes to a file: line k replaced by
\* the lines mid.
Splice(s, k, mid) == SubSeq(s, 1, k - 1) \o mid \o SubSeq(s, k + 1, Len(s))

LEMMA SpliceProps ==
  ASSUME NEW S, NEW s \in Seq(S), NEW i \in 1..Len(s), NEW mid \in Seq(S)
  PROVE  /\ Splice(s, i, mid) \in Seq(S)
         /\ Len(Splice(s, i, mid)) = Len(s) - 1 + Len(mid)
         /\ \A k \in 1..(Len(s) - 1 + Len(mid)) :
              Splice(s, i, mid)[k] = IF k < i THEN s[k]
                                     ELSE IF k < i + Len(mid) THEN mid[k - i + 1]
                                     ELSE s[k - Len(mid) + 1]
<1>. DEFINE A == SubSeq(s, 1, i - 1)  C == SubSeq(s, i + 1, Len(s))  AM == A \o mid
<1>1. A \in Seq(S) /\ Len(A) = i - 1 /\ \A k \in 1..(i - 1) : A[k] = s[k]
  BY SubSeqProperties
<1>2. C \in Seq(S) /\ Len(C) = Len(s) - i /\ \A k \in 1..(Len(s) - i) : C[k] = s[i + k]
  BY SubSeqProperties
<1>3. Splice(s, i, mid) = AM \o C
  BY DEF Splice
<1>. HIDE DEF A, C
<1>4. /\ AM \in Seq(S) /\ Len(AM) = i - 1 + Len(mid)
      /\ \A k \in 1..(i - 1 + Len(mid)) : AM[k] = IF k < i THEN s[k] ELSE mid[k - i + 1]
  <2>1. /\ A \o mid \in Seq(S) /\ Len(A \o mid) = Len(A) + Len(mid)
        /\ \A k \in 1..(Len(A) + Len(mid)) : (A \o mid)[k] = IF k <= Len(A) THEN A[k] ELSE mid[k - Len(A)]
    BY <1>1, ConcatProperties, Zenon
  <2>. QED
    BY <1>1, <2>1
<1>. HIDE DEF AM
<1>5. /\ AM \o C \in Seq(S) /\ Len(AM \o C) = Len(AM) + Len(C)
      /\ \A k \in 1..(Len(AM) + Len(C)) : (AM \o C)[k] = IF k <= Len(AM) THEN AM[k] ELSE C[k - Len(AM)]
  <2>1. AM \in Seq(S) /\ C \in Seq(S)
    BY <1>2, <1>4
  <2>. QED
    BY <2>1, ConcatProperties
<1>6. Len(mid) \in Nat
  OBVIOUS
<1>7. Len(AM \o C) = Len(s) - 1 + Len(mid)
  BY <1>2, <1>4, <1>5, <1>6
<1>8. ASSUME NEW k \in 1..(Len(s) - 1 + Len(mid))
      PROVE  (AM \o C)[k] = IF k < i THEN s[k]
                            ELSE IF k < i + Len(mid) THEN mid[k - i + 1]
                            ELSE s[k - Len(mid) + 1]
  <2>1. k \in 1..(Len(AM) + Len(C))
    BY <1>2, <1>4, <1>6
  <2>2. CASE k < i + Len(mid)
    BY <1>4, <1>5, <1>6, <2>1, <2>2
  <2>3. CASE k >= i + Len(mid)
    <3>1. (AM \o C)[k] = C[k - Len(AM)]
      <4>1. ~(k <= Len(AM))
        BY <1>4, <1>6, <2>3
      <4>. QED
        BY <1>5, <2>1, <4>1, Zenon
    <3>2. k - Len(AM) \in 1..(Len(s) - i) /\ i + (k - Len(AM)) = k - Len(mid) + 1
      BY <1>4, <1>6, <2>3
    <3>3. C[k - Len(AM)] = s[k - Len(mid) + 1]
      BY <1>2, <3>2, Zenon
    <3>. QED
      BY <1>6, <2>3, <3>1, <3>3
  <2>4. k < i + Len(mid) \/ k >= i + Len(mid)
    BY <1>6
  <2>. QED
    BY <2>2, <2>3, <2>4, Zenon
<1>. QED
  BY <1>3, <1>5, <1>7, <1>8

\* The same facts, one at a time, in the form the provers instantiate.
LEMMA InsertAtLen ==
  ASSUME NEW S, NEW s \in Seq(S), NEW i \in 1..(Len(s) + 1), NEW e \in S
  PROVE  InsertAt(s, i, e) \in Seq(S) /\ Len(InsertAt(s, i, e)) = Len(s) + 1
BY InsertAtProps

LEMMA InsertAtElem ==
  ASSUME NEW S, NEW s \in Seq(S), NEW i \in 1..(Len(s) + 1), NEW e \in S,
         NEW k \in 1..(Len(s) + 1)
  PROVE  InsertAt(s, i, e)[k] = IF k < i THEN s[k] ELSE IF k = i THEN e ELSE s[k - 1]
BY InsertAtProps

LEMMA RemoveAtLen ==
  ASSUME NEW S, NEW s \in Seq(S), NEW i \in 1..Len(s)
  PROVE  RemoveAt(s, i) \in Seq(S) /\ Len(RemoveAt(s, i)) = Len(s) - 1
BY RemoveAtProps

LEMMA RemoveAtElem ==
  ASSUME NEW S, NEW s \in Seq(S), NEW i \in 1..Len(s), NEW k \in 1..(Len(s) - 1)
  PROVE  RemoveAt(s, i)[k] = IF k < i THEN s[k] ELSE s[k + 1]
BY RemoveAtProps

LEMMA SpliceLen ==
  ASSUME NEW S, NEW s \in Seq(S), NEW i \in 1..Len(s), NEW mid \in Seq(S)
  PROVE  Splice(s, i, mid) \in Seq(S) /\ Len(Splice(s, i, mid)) = Len(s) - 1 + Len(mid)
BY SpliceProps

LEMMA SpliceElem ==
  ASSUME NEW S, NEW s \in Seq(S), NEW i \in 1..Len(s), NEW mid \in Seq(S),
         NEW k \in 1..(Len(s) - 1 + Len(mid))
  PROVE  Splice(s, i, mid)[k] = IF k < i THEN s[k]
                                ELSE IF k < i + Len(mid) THEN mid[k - i + 1]
                                ELSE s[k - Len(mid) + 1]
BY SpliceProps

LEMMA ExceptElem ==
  ASSUME NEW S, NEW s \in Seq(S), NEW i \in 1..Len(s), NEW r \in S
  PROVE  /\ [s EXCEPT ![i] = r] \in Seq(S) /\ Len([s EXCEPT ![i] = r]) = Len(s)
         /\ \A k \in 1..Len(s) : [s EXCEPT ![i] = r][k] = IF k = i THEN r ELSE s[k]
BY ExceptSeq

\* Inserting b after a line i that was set to r is the splice of << r, b >>.
LEMMA InsertAfterSplice ==
  ASSUME NEW S, NEW s \in Seq(S), NEW i \in 1..Len(s), NEW r \in S, NEW b \in S,
         NEW t \in Seq(S), Len(t) = Len(s),
         \A k \in 1..Len(s) : t[k] = IF k = i THEN r ELSE s[k],
         NEW j \in 1..(Len(t) + 1), j = i + 1
  PROVE  InsertAt(t, j, b) = Splice(s, i, << r, b >>)
<1>. DEFINE mid == << r, b >>
<1>3. mid \in Seq(S) /\ Len(mid) = 2 /\ mid[1] = r /\ mid[2] = b
  OBVIOUS
<1>. HIDE DEF mid
<1>5. InsertAt(t, j, b) \in Seq(S) /\ Len(InsertAt(t, j, b)) = Len(t) + 1
  BY InsertAtLen, Zenon
<1>6. Splice(s, i, mid) \in Seq(S) /\ Len(Splice(s, i, mid)) = Len(s) - 1 + Len(mid)
  BY <1>3, SpliceLen, Zenon
<1>7. ASSUME NEW k \in 1..(Len(s) + 1)
      PROVE  InsertAt(t, j, b)[k] = Splice(s, i, mid)[k]
  <2>1. k \in 1..(Len(t) + 1)
    OBVIOUS
  <2>2. InsertAt(t, j, b)[k] = IF k < j THEN t[k] ELSE IF k = j THEN b ELSE t[k - 1]
    BY <2>1, InsertAtElem, SMTT(40)
  <2>3. k \in 1..(Len(s) - 1 + Len(mid))
    BY <1>3
  <2>4. Splice(s, i, mid)[k] = IF k < i THEN s[k]
                              ELSE IF k < i + Len(mid) THEN mid[k - i + 1]
                              ELSE s[k - Len(mid) + 1]
    BY <1>3, <2>3, SpliceElem, ZenonT(30)
  <2>5. CASE k <= i
    BY <1>3, <2>2, <2>4, <2>5
  <2>6. CASE k = i + 1
    BY <1>3, <2>2, <2>4, <2>6
  <2>7. CASE k > i + 1
    <3>1. k - 1 \in 1..Len(s) /\ k - 1 # i /\ ~(k < j) /\ k # j
      BY <2>7
    <3>2. t[k - 1] = s[k - 1]
      BY <3>1
    <3>3. ~(k < i) /\ ~(k < i + Len(mid)) /\ k - Len(mid) + 1 = k - 1
      BY <1>3, <2>7
    <3>. QED
      BY <2>2, <2>4, <3>1, <3>2, <3>3
  <2>8. k <= i \/ k = i + 1 \/ k > i + 1
    OBVIOUS
  <2>. QED
    BY <2>5, <2>6, <2>7, <2>8, Zenon
<1>8. Len(InsertAt(t, j, b)) = Len(s) + 1 /\ Len(Splice(s, i, mid)) = Len(s) + 1
  BY <1>3, <1>5, <1>6
<1>9. \A k \in 1..Len(InsertAt(t, j, b)) : InsertAt(t, j, b)[k] = Splice(s, i, mid)[k]
  BY <1>7, <1>8
<1>10. InsertAt(t, j, b) = Splice(s, i, mid)
  BY <1>5, <1>6, <1>8, <1>9, SeqEqual, Zenon
<1>. QED
  BY <1>10 DEF mid

\* Each rewrite of line i that TodoCleanup makes, as a splice of line i.
LEMMA SpliceReplace ==
  ASSUME NEW S, NEW s \in Seq(S), NEW i \in 1..Len(s), NEW r \in S, NEW b \in S
  PROVE  InsertAt([s EXCEPT ![i] = r], i + 1, b) = Splice(s, i, << r, b >>)
<1>. DEFINE t == [s EXCEPT ![i] = r]
<1>1. t \in Seq(S) /\ Len(t) = Len(s)
  BY ExceptElem
<1>2. \A k \in 1..Len(s) : t[k] = IF k = i THEN r ELSE s[k]
  BY ExceptElem
<1>. HIDE DEF t
<1>4. PICK j \in 1..(Len(t) + 1) : j = i + 1
  BY <1>1
<1>5. InsertAt(t, j, b) = Splice(s, i, << r, b >>)
  BY <1>1, <1>2, <1>4, InsertAfterSplice
<1>. QED
  BY <1>4, <1>5 DEF t

LEMMA SpliceRemove ==
  ASSUME NEW S, NEW s \in Seq(S), NEW i \in 1..Len(s)
  PROVE  RemoveAt(s, i) = Splice(s, i, << >>)
<1>1. SubSeq(s, 1, i - 1) \in Seq(S)
  BY SubSeqProperties
<1>. QED
  BY <1>1, ConcatEmptySeq DEF RemoveAt, Splice

LEMMA SpliceSet ==
  ASSUME NEW S, NEW s \in Seq(S), NEW i \in 1..Len(s), NEW r \in S
  PROVE  [s EXCEPT ![i] = r] = Splice(s, i, << r >>)
<1>. DEFINE t == [s EXCEPT ![i] = r]  mid == << r >>
<1>1. t \in Seq(S) /\ Len(t) = Len(s)
  BY ExceptElem
<1>2. \A k \in 1..Len(s) : t[k] = IF k = i THEN r ELSE s[k]
  BY ExceptElem
<1>3. mid \in Seq(S) /\ Len(mid) = 1 /\ mid[1] = r
  OBVIOUS
<1>. HIDE DEF t, mid
<1>4. Splice(s, i, mid) \in Seq(S) /\ Len(Splice(s, i, mid)) = Len(s) - 1 + Len(mid)
  BY <1>3, SpliceLen, Zenon
<1>5. ASSUME NEW k \in 1..Len(s)
      PROVE  t[k] = Splice(s, i, mid)[k]
  <2>1. k \in 1..(Len(s) - 1 + Len(mid))
    BY <1>3
  <2>2. Splice(s, i, mid)[k] = IF k < i THEN s[k]
                              ELSE IF k < i + Len(mid) THEN mid[k - i + 1]
                              ELSE s[k - Len(mid) + 1]
    BY <1>3, <2>1, SpliceElem, Zenon
  <2>. QED
    BY <1>2, <1>3, <2>2
<1>6. Len(Splice(s, i, mid)) = Len(t)
  BY <1>1, <1>3, <1>4
<1>7. t = Splice(s, i, mid)
  BY <1>1, <1>4, <1>5, <1>6, SeqEqual
<1>. QED
  BY <1>7 DEF t, mid
-----------------------------------------------------------------------------
(* The two rewrites of a file, as splices.                                 *)

\* The line a TODO line becomes: its comment turned into a reference
\* (comment only) or cut off (code in front), and the empty line
\* replace_todo_with_issue leaves after the reference.
Cut(l) == [id |-> l.id, kind |-> IF l.kind = "todo" THEN "issue" ELSE "code"]
Blank == [id |-> 0, kind |-> "blank"]

LEMMA CutBlankLine ==
  ASSUME NEW l \in Line
  PROVE  Cut(l) \in Line /\ Blank \in Line
<1>1. MaxLines \in Nat
  BY CleanupAssumption DEF CleanupAssumption
<1>. QED
  BY <1>1 DEF Cut, Blank, Line, SourceKinds

\* replace_todo_with_issue rewrites a todo or trail line ln into its
\* reference and an empty line, and leaves any other file as it is.
LEMMA ReplaceLineSplice ==
  ASSUME NEW f \in Seq(Line), NEW ln \in Nat \ {0}
  PROVE  IF ln <= Len(f) /\ f[ln].kind \in {"todo", "trail"}
           THEN ReplaceLine(f, ln) = Splice(f, ln, << Cut(f[ln]), Blank >>)
           ELSE ReplaceLine(f, ln) = f
<1>1. CASE ln <= Len(f) /\ f[ln].kind \in {"todo", "trail"}
  <2>1. ln \in 1..Len(f)
    BY <1>1
  <2>2. ReplaceLine(f, ln) = InsertAt([f EXCEPT ![ln] = Cut(f[ln])], ln + 1, Blank)
    BY <1>1 DEF ReplaceLine, Cut, Blank
  <2>3. Cut(f[ln]) \in Line /\ Blank \in Line
    BY <2>1, CutBlankLine
  <2>4. InsertAt([f EXCEPT ![ln] = Cut(f[ln])], ln + 1, Blank) = Splice(f, ln, << Cut(f[ln]), Blank >>)
    BY <2>1, <2>3, SpliceReplace
  <2>. QED
    BY <1>1, <2>2, <2>4
<1>2. CASE ~(ln <= Len(f) /\ f[ln].kind \in {"todo", "trail"})
  BY <1>2 DEF ReplaceLine
<1>. QED
  BY <1>1, <1>2

\* remove_todo deletes a todo or note line ln, cuts the comment off a
\* trail line, and leaves any other file as it is.
LEMMA RemoveLineSplice ==
  ASSUME NEW f \in Seq(Line), NEW ln \in Nat \ {0}
  PROVE  IF ln <= Len(f) /\ f[ln].kind \in {"todo", "note"}
           THEN RemoveLine(f, ln) = Splice(f, ln, << >>)
         ELSE IF ln <= Len(f) /\ f[ln].kind = "trail"
           THEN RemoveLine(f, ln) = Splice(f, ln, << Cut(f[ln]) >>)
         ELSE RemoveLine(f, ln) = f
<1>1. CASE ln <= Len(f) /\ f[ln].kind \in {"todo", "note"}
  <2>1. RemoveLine(f, ln) = RemoveAt(f, ln)
    BY <1>1 DEF RemoveLine
  <2>2. ln \in 1..Len(f)
    BY <1>1
  <2>3. RemoveAt(f, ln) = Splice(f, ln, << >>)
    BY <2>2, SpliceRemove
  <2>. QED
    BY <1>1, <2>1, <2>3
<1>2. CASE ln <= Len(f) /\ f[ln].kind = "trail"
  <2>1. RemoveLine(f, ln) = [f EXCEPT ![ln] = Cut(f[ln])]
    <3>1. Cut(f[ln]) = [id |-> f[ln].id, kind |-> "code"]
      BY <1>2 DEF Cut
    <3>0. ~(ln > Len(f)) /\ f[ln].kind \notin {"todo", "note"} /\ f[ln].kind = "trail"
      BY <1>2
    <3>2. RemoveLine(f, ln) = [f EXCEPT ![ln] = [id |-> f[ln].id, kind |-> "code"]]
      BY <3>0, Zenon DEF RemoveLine
    <3>. QED
      BY <3>1, <3>2
  <2>2. Cut(f[ln]) \in Line
    BY <1>2, CutBlankLine
  <2>3. ln \in 1..Len(f)
    BY <1>2
  <2>4. [f EXCEPT ![ln] = Cut(f[ln])] = Splice(f, ln, << Cut(f[ln]) >>)
    BY <2>2, <2>3, SpliceSet
  <2>. QED
    BY <1>2, <2>1, <2>4
<1>3. CASE ~(ln <= Len(f))
  BY <1>3 DEF RemoveLine
<1>4. CASE ln <= Len(f) /\ f[ln].kind \notin {"todo", "note", "trail"}
  BY <1>4 DEF RemoveLine
<1>. QED
  BY <1>1, <1>2, <1>3, <1>4

\* Every line of f that holds code is in g, under its id, and holds code.
Keeps(f, g) ==
  \A k \in 1..Len(f) : f[k].kind \in {"code", "trail"} =>
    \E k2 \in 1..Len(g) : g[k2].id = f[k].id /\ g[k2].kind \in {"code", "trail"}

\* A splice of line i keeps every code line when it puts a code line with
\* the same id first in place of line i, if line i held code.
LEMMA SpliceKeeps ==
  ASSUME NEW f \in Seq(Line), NEW i \in 1..Len(f), NEW mid \in Seq(Line),
         f[i].kind \in {"code", "trail"} =>
           Len(mid) >= 1 /\ mid[1].id = f[i].id /\ mid[1].kind \in {"code", "trail"}
  PROVE  Keeps(f, Splice(f, i, mid))
<1>. DEFINE g == Splice(f, i, mid)
<1>1. g \in Seq(Line) /\ Len(g) = Len(f) - 1 + Len(mid)
  BY SpliceLen, Zenon
<1>. HIDE DEF g
<1>2. \A k \in 1..Len(g) : g[k] = IF k < i THEN f[k]
                                 ELSE IF k < i + Len(mid) THEN mid[k - i + 1]
                                 ELSE f[k - Len(mid) + 1]
  <2>1. SUFFICES ASSUME NEW k \in 1..(Len(f) - 1 + Len(mid))
                 PROVE  g[k] = IF k < i THEN f[k]
                               ELSE IF k < i + Len(mid) THEN mid[k - i + 1]
                               ELSE f[k - Len(mid) + 1]
    BY <1>1
  <2>. QED
    BY SpliceElem, Zenon DEF g
<1>3. SUFFICES ASSUME NEW k \in 1..Len(f), f[k].kind \in {"code", "trail"}
               PROVE  \E k2 \in 1..Len(g) : g[k2].id = f[k].id /\ g[k2].kind \in {"code", "trail"}
  BY DEF Keeps, g
<1>4. CASE k < i
  <2>1. k \in 1..Len(g) /\ g[k] = f[k]
    BY <1>1, <1>2, <1>4
  <2>. QED
    BY <1>3, <2>1
<1>5. CASE k = i
  <2>1. Len(mid) >= 1 /\ mid[1].id = f[i].id /\ mid[1].kind \in {"code", "trail"}
    BY <1>3, <1>5
  <2>2. i \in 1..Len(g) /\ g[i] = mid[1]
    BY <1>1, <1>2, <2>1
  <2>. QED
    BY <1>5, <2>1, <2>2
<1>6. CASE k > i
  <2>1. PICK k2 \in 1..Len(g) : k2 = k + Len(mid) - 1
    BY <1>1, <1>6
  <2>2. g[k2] = f[k]
    <3>1. g[k2] = IF k2 < i THEN f[k2]
                  ELSE IF k2 < i + Len(mid) THEN mid[k2 - i + 1]
                  ELSE f[k2 - Len(mid) + 1]
      BY <1>2, <2>1
    <3>2. ~(k2 < i) /\ ~(k2 < i + Len(mid)) /\ k2 - Len(mid) + 1 = k
      BY <1>6, <2>1
    <3>. QED
      BY <3>1, <3>2
  <2>. QED
    BY <1>3, <2>1, <2>2
<1>. QED
  BY <1>4, <1>5, <1>6

LEMMA KeepsSelf ==
  ASSUME NEW f \in Seq(Line)
  PROVE  Keeps(f, f)
BY DEF Keeps

\* replace_todo_with_issue writes lines and keeps every line of code.
LEMMA ReplaceLineKeeps ==
  ASSUME NEW f \in Seq(Line), NEW ln \in Nat \ {0}
  PROVE  ReplaceLine(f, ln) \in Seq(Line) /\ Keeps(f, ReplaceLine(f, ln))
<1>1. CASE ln <= Len(f) /\ f[ln].kind \in {"todo", "trail"}
  <2>. DEFINE mid == << Cut(f[ln]), Blank >>
  <2>1. ReplaceLine(f, ln) = Splice(f, ln, mid)
    BY <1>1, ReplaceLineSplice, Zenon
  <2>2. ln \in 1..Len(f) /\ mid \in Seq(Line)
    BY <1>1, CutBlankLine
  <2>3. f[ln].kind \in {"code", "trail"} =>
          Len(mid) >= 1 /\ mid[1].id = f[ln].id /\ mid[1].kind \in {"code", "trail"}
    BY <1>1 DEF Cut
  <2>. HIDE DEF mid
  <2>4. Splice(f, ln, mid) \in Seq(Line)
    BY <2>2, SpliceLen
  <2>5. Keeps(f, Splice(f, ln, mid))
    BY <2>2, <2>3, SpliceKeeps
  <2>. QED
    BY <2>1, <2>4, <2>5
<1>2. CASE ~(ln <= Len(f) /\ f[ln].kind \in {"todo", "trail"})
  <2>1. ReplaceLine(f, ln) = f
    BY <1>2, ReplaceLineSplice, Zenon
  <2>. QED
    BY <2>1, KeepsSelf
<1>. QED
  BY <1>1, <1>2

\* remove_todo writes lines and keeps every line of code: the lines it
\* deletes are comment lines.
LEMMA RemoveLineKeeps ==
  ASSUME NEW f \in Seq(Line), NEW ln \in Nat \ {0}
  PROVE  RemoveLine(f, ln) \in Seq(Line) /\ Keeps(f, RemoveLine(f, ln))
<1>1. CASE ln <= Len(f) /\ f[ln].kind \in {"todo", "note"}
  <2>. DEFINE mid == << >>
  <2>1. RemoveLine(f, ln) = Splice(f, ln, mid)
    BY <1>1, RemoveLineSplice, Zenon
  <2>2. ln \in 1..Len(f) /\ mid \in Seq(Line)
    BY <1>1
  <2>3. f[ln].kind \in {"code", "trail"} =>
          Len(mid) >= 1 /\ mid[1].id = f[ln].id /\ mid[1].kind \in {"code", "trail"}
    BY <1>1
  <2>. HIDE DEF mid
  <2>4. Splice(f, ln, mid) \in Seq(Line)
    BY <2>2, SpliceLen
  <2>5. Keeps(f, Splice(f, ln, mid))
    BY <2>2, <2>3, SpliceKeeps
  <2>. QED
    BY <2>1, <2>4, <2>5
<1>2. CASE ln <= Len(f) /\ f[ln].kind = "trail"
  <2>. DEFINE mid == << Cut(f[ln]) >>
  <2>1. RemoveLine(f, ln) = Splice(f, ln, mid)
    BY <1>2, RemoveLineSplice, Zenon
  <2>2. ln \in 1..Len(f) /\ mid \in Seq(Line)
    <3>1. ln \in 1..Len(f)
      BY <1>2
    <3>2. Cut(f[ln]) \in Line
      BY <3>1, CutBlankLine
    <3>. QED
      BY <3>1, <3>2
  <2>3. f[ln].kind \in {"code", "trail"} =>
          Len(mid) >= 1 /\ mid[1].id = f[ln].id /\ mid[1].kind \in {"code", "trail"}
    <3>1. Cut(f[ln]).id = f[ln].id /\ Cut(f[ln]).kind = "code"
      BY <1>2 DEF Cut
    <3>. QED
      BY <3>1
  <2>. HIDE DEF mid
  <2>4. Splice(f, ln, mid) \in Seq(Line)
    BY <2>2, SpliceLen
  <2>5. Keeps(f, Splice(f, ln, mid))
    BY <2>2, <2>3, SpliceKeeps
  <2>. QED
    BY <2>1, <2>4, <2>5
<1>3. CASE ~(ln <= Len(f)) \/ f[ln].kind \notin {"todo", "note", "trail"}
  <2>1. RemoveLine(f, ln) = f
    BY <1>3, RemoveLineSplice, Zenon
  <2>. QED
    BY <2>1, KeepsSelf
<1>. QED
  BY <1>1, <1>2, <1>3
-----------------------------------------------------------------------------
(* The inductive invariant.                                                *)

\* An entry of the list find_todos returns: a line number and the line
\* shown there.
TodoEntry == [ln : 1..MaxLines, id : 1..MaxLines]

\* cleanup_batch visits each file of files_to_process once (line 227), so
\* a file after the current one, or the current one before its TODOs are
\* found, still has its text from before the run.  This is what makes the
\* list of line 161 a list of lines of the original file.
Untouched ==
  \A j \in 1..Len(Batch) :
    (fi < j \/ (fi = j /\ pc = "next_file")) => content[Batch[j]] = original[Batch[j]]

\* Every line that held code is still in its file and still holds code
\* (possibly with its trailing TODO comment cut off).
CodeKept ==
  \A p \in Paths : \A i \in CodeIds(p) :
    \E k \in 1..Len(content[p]) : content[p][k].id = i /\ content[p][k].kind \in {"code", "trail"}

IInv ==
  /\ TypeOK
  /\ original \in [Paths -> SourceFiles]
  /\ Len(todos) <= MaxLines
  /\ pc = "ask" => fi \in 1..Len(Batch) /\ ti \in 1..Len(todos)
  /\ Untouched
  /\ CodeKept
\* find_todos on a file as the script finds it lists at most one entry per
\* line, each a line number of the file and the id of the line there.
LEMMA FindTodosType ==
  ASSUME NEW f \in SourceFiles
  PROVE  FindTodos(f) \in Seq(TodoEntry) /\ Len(FindTodos(f)) <= MaxLines
<1>. DEFINE H == TodoLines(f)  N == Len(f)
            e(j) == LET k == CHOOSE k \in H : Rank(H, k) = j IN [ln |-> k, id |-> f[k].id]
<1>1. N \in 1..MaxLines /\ \A k \in 1..N : f[k].id = k
  BY SourceFileShape
<1>2. MaxLines \in Nat /\ N \in Nat
  BY <1>1, CleanupAssumption DEF CleanupAssumption
<1>3. H \in SUBSET (1..N)
  BY DEF TodoLines
<1>4. FindTodos(f) = [j \in 1..Cardinality(H) |-> e(j)]
  BY DEF FindTodos
<1>. HIDE DEF H, N
<1>5. Cardinality(H) \in Nat /\ Cardinality(H) <= N
  <2>1. IsFiniteSet(1..N) /\ Cardinality(1..N) = N
    BY <1>2, FS_Interval
  <2>. QED
    BY <1>3, <2>1, FS_Subset, FS_CardinalityType, Zenon
<1>6. ASSUME NEW j \in 1..Cardinality(H)
      PROVE  e(j) \in TodoEntry
  <2>1. \E k \in H : Rank(H, k) = j
    BY <1>2, <1>3, RankExists
  <2>2. (CHOOSE k \in H : Rank(H, k) = j) \in 1..N
    BY <1>3, <2>1, Zenon
  <2>. QED
    BY <1>1, <1>2, <2>2 DEF TodoEntry
<1>. HIDE DEF e
<1>7. FindTodos(f) \in [1..Cardinality(H) -> TodoEntry]
  BY <1>4, <1>6
<1>8. Len(FindTodos(f)) = Cardinality(H)
  BY <1>4, <1>5
<1>. QED
  BY <1>1, <1>2, <1>5, <1>7, <1>8

\* The facts of CleanupAssumption the steps use.
LEMMA BatchFacts ==
  /\ Batch \in Seq(Paths) /\ Len(Batch) \in Nat \ {0}
  /\ \A i, j \in 1..Len(Batch) : i # j => Batch[i] # Batch[j]
  /\ MaxLines \in Nat \ {0} /\ MaxClock \in Nat
  /\ \A i \in 1..Len(Batch) : Batch[i] \in Paths
<1>1. Batch \in Seq(Paths) /\ Len(Batch) > 0 /\ MaxLines \in Nat \ {0} /\ MaxClock \in Nat
      /\ \A i, j \in 1..Len(Batch) : i # j => Batch[i] # Batch[j]
  BY CleanupAssumption DEF CleanupAssumption
<1>2. \A i \in 1..Len(Batch) : Batch[i] \in Paths
  BY <1>1 DEF Paths, Range
<1>. QED
  BY <1>1, <1>2

\* A step at the prompt that writes g over the current file and moves on
\* to the next TODO: choices 1, 2 and 3.
LEMMA EditStep ==
  ASSUME IInv, pc = "ask", NEW g \in Seq(Line), Keeps(content[Cur], g),
         content' = [content EXCEPT ![Cur] = g], NextTodo,
         UNCHANGED << original, todos, clock >>
  PROVE  IInv'
<1>1. fi \in 1..Len(Batch) /\ ti \in 1..Len(todos) /\ Cur \in Paths
  BY BatchFacts DEF IInv, Cur
<1>2. /\ content \in [Paths -> Seq(Line)] /\ todos \in Seq(TodoEntry)
      /\ Len(todos) <= MaxLines /\ clock \in 0..MaxClock
      /\ original \in [Paths -> SourceFiles]
  BY DEF IInv, TypeOK, TodoEntry
<1>3. \/ ti < Len(todos) /\ ti' = ti + 1 /\ fi' = fi /\ pc' = "ask"
      \/ ti' = 1 /\ fi' = fi + 1 /\ pc' = "next_file"
  BY DEF NextTodo
<1>4. content' \in [Paths -> Seq(Line)]
  BY <1>1, <1>2
<1>5. \A p \in Paths : p # Cur => content'[p] = content[p]
  BY <1>2
<1>6. TypeOK'
  <2>1. fi' \in 1..(Len(Batch) + 1) /\ ti' \in 1..MaxLines /\ pc' \in {"next_file", "ask", "done"}
    BY <1>1, <1>2, <1>3, BatchFacts
  <2>. QED
    BY <1>2, <1>4, <2>1 DEF TypeOK, TodoEntry
<1>7. (pc = "ask" => fi \in 1..Len(Batch) /\ ti \in 1..Len(todos))'
  BY <1>1, <1>3
<1>8. Untouched'
  <2>1. SUFFICES ASSUME NEW j \in 1..Len(Batch), fi' < j \/ (fi' = j /\ pc' = "next_file")
                 PROVE  content'[Batch[j]] = original'[Batch[j]]
    BY DEF Untouched
  <2>2. fi < j
    BY <1>1, <1>3, <2>1
  <2>3. Batch[j] # Cur /\ Batch[j] \in Paths
    BY <1>1, <2>2, BatchFacts DEF Cur
  <2>4. content[Batch[j]] = original[Batch[j]]
    BY <2>2 DEF IInv, Untouched
  <2>. QED
    BY <1>5, <2>3, <2>4
<1>9. CodeKept'
  <2>1. SUFFICES ASSUME NEW p \in Paths, NEW i \in CodeIds(p)'
                 PROVE  \E k \in 1..Len(content'[p]) :
                          content'[p][k].id = i /\ content'[p][k].kind \in {"code", "trail"}
    BY DEF CodeKept
  <2>2. i \in CodeIds(p)
    BY <2>1 DEF CodeIds
  <2>3. PICK k \in 1..Len(content[p]) :
          content[p][k].id = i /\ content[p][k].kind \in {"code", "trail"}
    BY <2>2 DEF IInv, CodeKept
  <2>4. CASE p = Cur
    <3>1. content'[p] = g
      BY <1>1, <1>2, <2>4
    <3>. QED
      BY <2>3, <2>4, <3>1 DEF Keeps
  <2>5. CASE p # Cur
    BY <1>5, <2>3, <2>5
  <2>. QED
    BY <2>4, <2>5
<1>. QED
  BY <1>2, <1>6, <1>7, <1>8, <1>9 DEF IInv
\* A step that writes no file keeps every code line where it was.
LEMMA CodeKeptFrame ==
  ASSUME CodeKept, UNCHANGED << content, original >>
  PROVE  CodeKept'
<1>1. SUFFICES ASSUME NEW p \in Paths, NEW i \in CodeIds(p)'
               PROVE  \E k \in 1..Len(content'[p]) :
                        content'[p][k].id = i /\ content'[p][k].kind \in {"code", "trail"}
  BY DEF CodeKept
<1>2. i \in CodeIds(p)
  BY <1>1 DEF CodeIds
<1>. QED
  BY <1>2 DEF CodeKept

\* A step that writes no file and never moves back to a file, or back to
\* before its TODOs were found, keeps the later files untouched.
LEMMA UntouchedFrame ==
  ASSUME Untouched, UNCHANGED << content, original >>,
         \A j \in 1..Len(Batch) :
           (fi' < j \/ (fi' = j /\ pc' = "next_file")) => (fi < j \/ (fi = j /\ pc = "next_file"))
  PROVE  Untouched'
BY DEF Untouched

\* Lines 227-245 and 161-165: the list of TODOs comes from a file nothing
\* has written yet, so it is a list of at most MaxLines entries.
LEMMA OpenFileStep ==
  ASSUME IInv, OpenFile
  PROVE  IInv'
<1>. DEFINE found == FindTodos(content[Cur])
<1>1. fi \in 1..Len(Batch) /\ pc = "next_file" /\ Cur \in Paths
  BY BatchFacts DEF IInv, TypeOK, OpenFile, Cur
<1>2. content[Cur] = original[Cur] /\ original[Cur] \in SourceFiles
  BY <1>1 DEF IInv, Untouched, Cur
<1>3. found \in Seq(TodoEntry) /\ Len(found) <= MaxLines
  BY <1>2, FindTodosType
<1>4. MaxLines \in Nat \ {0} /\ Len(Batch) \in Nat
  BY BatchFacts
<1>. HIDE DEF found
<1>5. \/ found = << >> /\ fi' = fi + 1 /\ UNCHANGED << todos, ti, pc >>
      \/ found # << >> /\ todos' = found /\ ti' = 1 /\ pc' = "ask" /\ fi' = fi
  BY DEF OpenFile, found
<1>6. UNCHANGED << content, original, clock >>
  BY DEF OpenFile
<1>7. found # << >> => Len(found) \in 1..MaxLines
  BY <1>3, <1>4, EmptySeq
<1>8. TypeOK' /\ (original \in [Paths -> SourceFiles])' /\ (Len(todos) <= MaxLines)'
      /\ (pc = "ask" => fi \in 1..Len(Batch) /\ ti \in 1..Len(todos))'
  <2>1. /\ todos' \in Seq(TodoEntry) /\ Len(todos') <= MaxLines
        /\ ti' \in 1..MaxLines /\ pc' \in {"next_file", "ask"}
        /\ fi' \in 1..(Len(Batch) + 1)
        /\ (pc' = "ask" => fi' \in 1..Len(Batch) /\ ti' \in 1..Len(todos'))
    <3>1. CASE found = << >> /\ fi' = fi + 1 /\ UNCHANGED << todos, ti, pc >>
      <4>1. todos \in Seq(TodoEntry) /\ Len(todos) <= MaxLines /\ ti \in 1..MaxLines
        BY DEF IInv, TypeOK, TodoEntry
      <4>. QED
        BY <1>1, <1>4, <3>1, <4>1
    <3>2. CASE found # << >> /\ todos' = found /\ ti' = 1 /\ pc' = "ask" /\ fi' = fi
      BY <1>1, <1>3, <1>4, <1>7, <3>2
    <3>. QED
      BY <1>5, <3>1, <3>2
  <2>2. original' \in [Paths -> SourceFiles] /\ content' \in [Paths -> Seq(Line)]
        /\ clock' \in 0..MaxClock
    BY <1>6 DEF IInv, TypeOK
  <2>. QED
    BY <2>1, <2>2, Zenon DEF TypeOK, TodoEntry
<1>9. Untouched'
  BY <1>1, <1>5, <1>6, UntouchedFrame DEF IInv
<1>10. CodeKept'
  BY <1>6, CodeKeptFrame DEF IInv
<1>. QED
  BY <1>8, <1>9, <1>10 DEF IInv

\* Line 247: the batch is over.
LEMMA BatchDoneStep ==
  ASSUME IInv, BatchDone
  PROVE  IInv'
<1>1. UNCHANGED << content, original, fi, todos, ti, clock >> /\ pc' = "done"
  BY DEF BatchDone
<1>2. TypeOK' /\ (original \in [Paths -> SourceFiles])' /\ (Len(todos) <= MaxLines)'
      /\ (pc = "ask" => fi \in 1..Len(Batch) /\ ti \in 1..Len(todos))'
  BY <1>1 DEF IInv, TypeOK
<1>. QED
  BY <1>1, <1>2, UntouchedFrame, CodeKeptFrame DEF IInv

\* Choice 4 (lines 189-191): the next file.
LEMMA SkipFileStep ==
  ASSUME IInv, ChooseSkipFile
  PROVE  IInv'
<1>1. fi \in 1..Len(Batch) /\ MaxLines \in Nat \ {0}
  BY BatchFacts DEF IInv, ChooseSkipFile
<1>2. UNCHANGED << content, original, todos, clock >>
      /\ fi' = fi + 1 /\ ti' = 1 /\ pc' = "next_file"
  BY DEF ChooseSkipFile
<1>3. TypeOK' /\ (original \in [Paths -> SourceFiles])' /\ (Len(todos) <= MaxLines)'
      /\ (pc = "ask" => fi \in 1..Len(Batch) /\ ti \in 1..Len(todos))'
  BY <1>1, <1>2 DEF IInv, TypeOK
<1>. QED
  BY <1>1, <1>2, <1>3, UntouchedFrame, CodeKeptFrame DEF IInv

\* Choice q (lines 192-194): the run ends.
LEMMA QuitStep ==
  ASSUME IInv, ChooseQuit
  PROVE  IInv'
<1>1. UNCHANGED << content, original, fi, todos, ti, clock >> /\ pc' = "done"
  BY DEF ChooseQuit
<1>2. TypeOK' /\ (original \in [Paths -> SourceFiles])' /\ (Len(todos) <= MaxLines)'
      /\ (pc = "ask" => fi \in 1..Len(Batch) /\ ti \in 1..Len(todos))'
  BY <1>1 DEF IInv, TypeOK
<1>. QED
  BY <1>1, <1>2, UntouchedFrame, CodeKeptFrame DEF IInv

\* A second passes.
LEMMA TickStep ==
  ASSUME IInv, Tick
  PROVE  IInv'
<1>1. UNCHANGED << content, original, fi, todos, ti, pc >> /\ clock' = clock + 1 /\ clock < MaxClock
  BY DEF Tick
<1>5. clock \in 0..MaxClock
  BY DEF IInv, TypeOK
<1>3. clock' \in 0..MaxClock
  BY <1>1, <1>5, BatchFacts
<1>4. content' = content /\ original' = original /\ fi' = fi /\ todos' = todos
      /\ ti' = ti /\ pc' = pc
  BY <1>1
<1>2. TypeOK' /\ (original \in [Paths -> SourceFiles])' /\ (Len(todos) <= MaxLines)'
      /\ (pc = "ask" => fi \in 1..Len(Batch) /\ ti \in 1..Len(todos))'
  BY <1>3, <1>4 DEF IInv, TypeOK
<1>. QED
  BY <1>1, <1>2, UntouchedFrame, CodeKeptFrame DEF IInv
\* The line number of the TODO at the prompt.
LEMMA AskFacts ==
  ASSUME IInv, pc = "ask"
  PROVE  /\ fi \in 1..Len(Batch) /\ Cur \in Paths
         /\ content[Cur] \in Seq(Line)
         /\ todos[ti].ln \in Nat \ {0}
<1>1. fi \in 1..Len(Batch) /\ ti \in 1..Len(todos) /\ todos \in Seq(TodoEntry)
  BY DEF IInv, TypeOK, TodoEntry
<1>2. Cur \in Paths
  BY <1>1, BatchFacts DEF Cur
<1>3. todos[ti] \in TodoEntry
  BY <1>1
<1>. QED
  BY <1>1, <1>2, <1>3 DEF IInv, TypeOK, TodoEntry

\* Choice 1 (lines 181-184).
LEMMA ReplaceStep ==
  ASSUME IInv, ChooseReplace
  PROVE  IInv'
<1>. DEFINE g == ReplaceLine(content[Cur], todos[ti].ln)
<1>1. /\ fi \in 1..Len(Batch) /\ Cur \in Paths /\ content[Cur] \in Seq(Line)
      /\ todos[ti].ln \in Nat \ {0} /\ pc = "ask"
  BY AskFacts DEF ChooseReplace
<1>2. g \in Seq(Line) /\ Keeps(content[Cur], g)
  BY <1>1, ReplaceLineKeeps, Zenon
<1>3. content' = [content EXCEPT ![Cur] = g]
  BY DEF ChooseReplace
<1>4. NextTodo /\ UNCHANGED << original, todos, clock >>
  BY DEF ChooseReplace
<1>. HIDE DEF g
<1>. QED
  BY <1>1, <1>2, <1>3, <1>4, EditStep, Zenon

\* Choice 2 (lines 185-186).
LEMMA RemoveStep ==
  ASSUME IInv, ChooseRemove
  PROVE  IInv'
<1>. DEFINE g == RemoveLine(content[Cur], todos[ti].ln)
<1>1. /\ fi \in 1..Len(Batch) /\ Cur \in Paths /\ content[Cur] \in Seq(Line)
      /\ todos[ti].ln \in Nat \ {0} /\ pc = "ask"
  BY AskFacts DEF ChooseRemove
<1>2. g \in Seq(Line) /\ Keeps(content[Cur], g)
  BY <1>1, RemoveLineKeeps, Zenon
<1>3. content' = [content EXCEPT ![Cur] = g]
  BY DEF ChooseRemove
<1>4. NextTodo /\ UNCHANGED << original, todos, clock >>
  BY DEF ChooseRemove
<1>. HIDE DEF g
<1>. QED
  BY <1>1, <1>2, <1>3, <1>4, EditStep, Zenon

\* Choice 3 (lines 187-188, 195-196): the file is written over with itself.
LEMMA KeepStep ==
  ASSUME IInv, ChooseKeep
  PROVE  IInv'
<1>1. /\ fi \in 1..Len(Batch) /\ Cur \in Paths /\ content[Cur] \in Seq(Line) /\ pc = "ask"
      /\ content \in [Paths -> Seq(Line)]
  BY AskFacts DEF ChooseKeep, IInv, TypeOK
<1>2. Keeps(content[Cur], content[Cur])
  BY <1>1, KeepsSelf
<1>3. content' = [content EXCEPT ![Cur] = content[Cur]]
  BY <1>1 DEF ChooseKeep
<1>4. NextTodo /\ UNCHANGED << original, todos, clock >>
  BY DEF ChooseKeep
<1>. QED
  BY <1>1, <1>2, <1>3, <1>4, EditStep, Zenon

\* A step that changes no variable.
LEMMA StutterStep ==
  ASSUME IInv, UNCHANGED vars
  PROVE  IInv'
<1>1. content' = content /\ original' = original /\ fi' = fi /\ todos' = todos
      /\ ti' = ti /\ clock' = clock /\ pc' = pc
  BY DEF vars
<1>. QED
  BY <1>1, UntouchedFrame, CodeKeptFrame DEF IInv, TypeOK

\* Before the first step: no file is written and no TODO is listed.
LEMMA InitIInv ==
  Init => IInv
<1>. SUFFICES ASSUME Init PROVE IInv
  OBVIOUS
<1>1. content \in [Paths -> Seq(Line)]
  BY SourceFileShape DEF Init
<1>2. TypeOK
  BY <1>1, BatchFacts DEF Init, TypeOK
<1>3. Untouched /\ CodeKept
  <2>1. Untouched
    BY DEF Init, Untouched
  <2>2. SUFFICES ASSUME NEW p \in Paths, NEW i \in CodeIds(p)
                 PROVE  \E k \in 1..Len(content[p]) :
                          content[p][k].id = i /\ content[p][k].kind \in {"code", "trail"}
    BY <2>1 DEF CodeKept
  <2>3. PICK k \in 1..Len(original[p]) :
          original[p][k].id = i /\ original[p][k].kind \in {"code", "trail"}
    BY DEF CodeIds
  <2>. QED
    BY <2>3 DEF Init
<1>4. original \in [Paths -> SourceFiles] /\ Len(todos) <= MaxLines /\ pc # "ask"
  BY BatchFacts DEF Init
<1>. QED
  BY <1>2, <1>3, <1>4 DEF IInv

\* Every step of the script keeps IInv.
LEMMA NextIInv ==
  IInv /\ [Next]_vars => IInv'
<1>. SUFFICES ASSUME IInv, [Next]_vars PROVE IInv'
  OBVIOUS
<1>. QED
  BY OpenFileStep, BatchDoneStep, ReplaceStep, RemoveStep, KeepStep, SkipFileStep,
     QuitStep, TickStep, StutterStep DEF Next, Terminated
-----------------------------------------------------------------------------
(* The theorems.                                                           *)

\* IInv holds in every state of every run of the interactive cleanup.
THEOREM IInvHolds == Spec => []IInv
BY InitIInv, NextIInv, PTL DEF Spec

\* Every variable of cleanup_batch keeps its type in every run: in
\* particular the TODO index of the for loop of line 170 stays within the
\* list found at line 161, and the file index within files_to_process.
THEOREM TypeCorrect == Spec => []TypeOK
<1>1. IInv => TypeOK
  BY DEF IInv
<1>. QED
  BY IInvHolds, <1>1, PTL

\* remove_todo deletes a line only when it starts with // (line 105), and
\* replace_todo_with_issue keeps the code in front of a comment (line 82):
\* whatever stale line numbers the list of line 161 hands them, no line
\* that held code before the run ever disappears from its file.
THEOREM CodeNeverLost == Spec => []NoCodeLost
<1>1. IInv => NoCodeLost
  BY DEF IInv, CodeKept, NoCodeLost
<1>. QED
  BY IInvHolds, <1>1, PTL
-----------------------------------------------------------------------------
(* The refinement of TodoEdits.                                            *)

\* The lines TodoCleanup writes are the lines of TodoEdits.
LEMMA LineSame ==
  Line = Edits!Line
BY Zenon DEF Line, Edits!Line, SourceKinds

\* A splice of a TODO line by one of its rewrites is a step of TodoEdits.
LEMMA SpliceIsEdit ==
  ASSUME content \in [Paths -> Seq(Line)], NEW p \in Paths,
         NEW k \in 1..Len(content[p]), content[p][k].kind \in Edits!TodoKinds,
         NEW mid \in Edits!Rewrites(content[p][k]),
         content' = [content EXCEPT ![p] = Splice(content[p], k, mid)]
  PROVE  Edits!EditTodo
<1>1. content' = [content EXCEPT ![p] = SubSeq(@, 1, k - 1) \o mid \o SubSeq(@, k + 1, Len(@))]
  BY DEF Splice
<1>. QED
  BY <1>1, Zenon DEF Edits!EditTodo

\* The reference and empty line replace_todo_with_issue writes, and the
\* cut line remove_todo writes, are rewrites TodoEdits allows.
LEMMA CutIsRewrite ==
  ASSUME NEW l \in Line
  PROVE  /\ l.kind \in {"todo", "trail"} => << Cut(l), Blank >> \in Edits!Rewrites(l)
         /\ l.kind \in {"todo", "note"} => << >> \in Edits!Rewrites(l)
         /\ l.kind = "trail" => << Cut(l) >> \in Edits!Rewrites(l)
<1>1. Blank = Edits!NewBlank
  BY DEF Blank, Edits!NewBlank
<1>2. l.kind = "trail" => Cut(l) = [id |-> l.id, kind |-> "code"]
  BY DEF Cut
<1>3. l.kind = "todo" => Cut(l) = [id |-> l.id, kind |-> "issue"]
  BY DEF Cut
<1>. QED
  BY <1>1, <1>2, <1>3 DEF Edits!Rewrites

\* Choice 1 writes one TODO line as its reference and an empty line, or
\* nothing when the listed line holds no TODO pattern.
LEMMA ReplaceEdit ==
  ASSUME IInv, ChooseReplace
  PROVE  [Edits!EditTodo]_content
<1>. DEFINE f == content[Cur]  ln == todos[ti].ln
<1>1. Cur \in Paths /\ f \in Seq(Line) /\ ln \in Nat \ {0} /\ content \in [Paths -> Seq(Line)]
  BY AskFacts DEF ChooseReplace, IInv, TypeOK
<1>2. content' = [content EXCEPT ![Cur] = ReplaceLine(f, ln)]
  BY DEF ChooseReplace
<1>. HIDE DEF f, ln
<1>3. CASE ln <= Len(f) /\ f[ln].kind \in {"todo", "trail"}
  <2>. DEFINE mid == << Cut(f[ln]), Blank >>
  <2>1. ReplaceLine(f, ln) = Splice(f, ln, mid)
    BY <1>1, <1>3, ReplaceLineSplice, Zenon
  <2>2. ln \in 1..Len(f) /\ f[ln] \in Line
    BY <1>1, <1>3
  <2>3. mid \in Edits!Rewrites(f[ln]) /\ f[ln].kind \in Edits!TodoKinds
    BY <1>3, <2>2, CutIsRewrite, Zenon DEF Edits!TodoKinds
  <2>. HIDE DEF mid
  <2>. QED
    BY <1>1, <1>2, <2>1, <2>2, <2>3, SpliceIsEdit, Zenon DEF f
<1>4. CASE ~(ln <= Len(f) /\ f[ln].kind \in {"todo", "trail"})
  <2>1. ReplaceLine(f, ln) = f
    BY <1>1, <1>4, ReplaceLineSplice, Zenon
  <2>. QED
    BY <1>1, <1>2, <2>1 DEF f
<1>. QED
  BY <1>3, <1>4

\* Choice 2 deletes one TODO line or cuts its comment, or does nothing
\* when the listed line holds no TODO pattern.
LEMMA RemoveEdit ==
  ASSUME IInv, ChooseRemove
  PROVE  [Edits!EditTodo]_content
<1>. DEFINE f == content[Cur]  ln == todos[ti].ln
<1>1. Cur \in Paths /\ f \in Seq(Line) /\ ln \in Nat \ {0} /\ content \in [Paths -> Seq(Line)]
  BY AskFacts DEF ChooseRemove, IInv, TypeOK
<1>2. content' = [content EXCEPT ![Cur] = RemoveLine(f, ln)]
  BY DEF ChooseRemove
<1>. HIDE DEF f, ln
<1>3. CASE ln <= Len(f) /\ f[ln].kind \in {"todo", "note"}
  <2>. DEFINE mid == << >>
  <2>1. RemoveLine(f, ln) = Splice(f, ln, mid)
    BY <1>1, <1>3, RemoveLineSplice, Zenon
  <2>2. ln \in 1..Len(f) /\ f[ln] \in Line
    BY <1>1, <1>3
  <2>3. mid \in Edits!Rewrites(f[ln]) /\ f[ln].kind \in Edits!TodoKinds
    BY <1>3, <2>2, CutIsRewrite, Zenon DEF Edits!TodoKinds
  <2>. HIDE DEF mid
  <2>. QED
    BY <1>1, <1>2, <2>1, <2>2, <2>3, SpliceIsEdit, Zenon DEF f
<1>4. CASE ln <= Len(f) /\ f[ln].kind = "trail"
  <2>. DEFINE mid == << Cut(f[ln]) >>
  <2>1. RemoveLine(f, ln) = Splice(f, ln, mid)
    BY <1>1, <1>4, RemoveLineSplice, Zenon
  <2>2. ln \in 1..Len(f) /\ f[ln] \in Line
    BY <1>1, <1>4
  <2>3. mid \in Edits!Rewrites(f[ln]) /\ f[ln].kind \in Edits!TodoKinds
    BY <1>4, <2>2, CutIsRewrite, Zenon DEF Edits!TodoKinds
  <2>. HIDE DEF mid
  <2>. QED
    BY <1>1, <1>2, <2>1, <2>2, <2>3, SpliceIsEdit, Zenon DEF f
<1>5. CASE ~(ln <= Len(f)) \/ f[ln].kind \notin {"todo", "note", "trail"}
  <2>1. RemoveLine(f, ln) = f
    BY <1>1, <1>5, RemoveLineSplice, Zenon
  <2>. QED
    BY <1>1, <1>2, <2>1 DEF f
<1>. QED
  BY <1>3, <1>4, <1>5

\* Every step of the script is a step of TodoEdits or leaves the files as
\* they are.
LEMMA NextEdits ==
  IInv /\ [Next]_vars => [Edits!EditTodo]_content
<1>. SUFFICES ASSUME IInv, [Next]_vars PROVE [Edits!EditTodo]_content
  OBVIOUS
<1>1. CASE ChooseReplace
  BY <1>1, ReplaceEdit
<1>2. CASE ChooseRemove
  BY <1>2, RemoveEdit
<1>3. CASE ~ChooseReplace /\ ~ChooseRemove
  BY <1>3 DEF Next, OpenFile, BatchDone, ChooseKeep, ChooseSkipFile, ChooseQuit,
              Tick, Terminated, vars
<1>. QED
  BY <1>1, <1>2, <1>3

\* The docstring of cleanup_todos.py (lines 2-9): the script only removes
\* TODO comments or replaces them with issue references.  Every change
\* the interactive cleanup writes, at the line numbers of the list of
\* line 161 however stale they have become, is one TODO line rewritten as
\* TodoEdits allows.
THEOREM Refinement == Spec => EditsRefined
<1>1. Init => Edits!Init
  BY SourceFileShape, LineSame DEF Init, Edits!Init
<1>. QED
  BY <1>1, IInvHolds, NextEdits, PTL DEF Spec, EditsRefined, Edits!Spec
=============================================================================
