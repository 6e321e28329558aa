--------------------------- MODULE RetainedProofs ---------------------------
(***************************************************************************)
(* What is kept of content under limits, proved for every value of the     *)
(* constants: of the output of a command (RedactionCollector), then of the *)
(* files of a change (ChangeAssembly).                                     *)
(*                                                                         *)
(* An excerpt, for every marker, set of values, limit and chunking: no     *)
(* protected value shows, chunks do not matter, and nothing is withheld    *)
(* needlessly.  The argument is one of release points: at any time there   *)
(* is a place k of the output such that what has arrived up to k is shown  *)
(* as if it were redacted at once, what has arrived since is pending, and  *)
(* no value, now or ever, reaches over k.                                  *)
(*                                                                         *)
(* A change set, for every set of paths and contents, every history of the *)
(* layers and all limits: only a reused path stops the assembly, every     *)
(* change is told exactly once, and the contents fit.  The argument is one *)
(* of chains: a path is linked to at most one path of the next layer and   *)
(* of the one before, so a group has one path in each layer from its first *)
(* to its last, and it is short of a layer only where a path is reused.    *)
(***************************************************************************)
EXTENDS RedactionCollector, ChangeAssembly, FiniteSetTheorems, SequenceTheorems,
        WellFoundedInduction, TLAPS

(***************************************************************************)
(* Induction and recursion, stated about sets and functions.               *)
(***************************************************************************)

\* Induction over the natural numbers, for a property given as a set.
LEMMA Induction ==
    ASSUME NEW S, 0 \in S, \A n \in Nat : n \in S => n + 1 \in S
    PROVE  Nat \subseteq S
<1> DEFINE T == {n \in Nat : n \notin S}
<1> SUFFICES ASSUME T # {} PROVE FALSE
  OBVIOUS
<1>1. \E m \in T : \A k \in T : <<k, m>> \notin OpToRel(<, Nat)
  BY NatLessThanWellFounded, WFMin
<1>2. PICK m \in T : \A k \in T : ~(k < m)
  BY <1>1 DEF OpToRel
<1>3. m # 0 /\ m \in Nat /\ m \notin S
  BY <1>2
<1>4. m - 1 \in Nat /\ m - 1 < m /\ (m - 1) + 1 = m
  BY <1>3
<1> QED BY <1>2, <1>3, <1>4

\* f is defined by recursion over 0 .. n.
IsRecursion(f, n, A, base, F) ==
    /\ f \in [0 .. n -> A] /\ f[0] = base
    /\ \A i \in 1 .. n : f[i] = F[<<f[i - 1], i>>]

\* A function of 0 .. n whose values are each given by the one before exists.
LEMMA Recursion ==
    \A n \in Nat : \A A : \A base \in A : \A F \in [A \X (1 .. n) -> A] :
      \E f : IsRecursion(f, n, A, base, F)
<1> SUFFICES ASSUME NEW n \in Nat, NEW A, NEW base \in A, NEW F \in [A \X (1 .. n) -> A]
             PROVE  \E f : IsRecursion(f, n, A, base, F)
  OBVIOUS
<1> DEFINE Good(m, f) ==
             /\ f \in [0 .. m -> A] /\ f[0] = base
             /\ \A i \in 1 .. m : f[i] = F[<<f[i - 1], i>>]
           S == {m \in Nat : m <= n => \E f : Good(m, f)}
<1>1. 0 \in S
  <2>1. Good(0, [i \in 0 .. 0 |-> base])
    OBVIOUS
  <2> QED BY <2>1
<1>2. \A m \in Nat : m \in S => m + 1 \in S
  <2> SUFFICES ASSUME NEW m \in Nat, m + 1 <= n, NEW f, Good(m, f)
               PROVE  \E g : Good(m + 1, g)
    OBVIOUS
  <2> DEFINE g == [i \in 0 .. m + 1 |-> IF i = m + 1 THEN F[<<f[m], m + 1>>] ELSE f[i]]
  <2>1. f[m] \in A /\ m + 1 \in 1 .. n
    OBVIOUS
  <2>2. F[<<f[m], m + 1>>] \in A
    BY <2>1
  <2>3. g \in [0 .. m + 1 -> A]
    BY <2>2
  <2>4. ASSUME NEW i \in 1 .. m + 1
        PROVE  g[i] = F[<<g[i - 1], i>>]
    <3>1. CASE i = m + 1
      <4>1. i - 1 = m /\ i - 1 # m + 1 /\ i - 1 \in 0 .. m + 1 /\ i \in 0 .. m + 1
        BY <3>1
      <4>2. g[i] = F[<<f[m], i>>] /\ g[i - 1] = f[m]
        BY <3>1, <4>1
      <4> HIDE DEF g
      <4> QED BY <4>1, <4>2
    <3>2. CASE i # m + 1
      <4>1. i \in 1 .. m /\ i - 1 \in 0 .. m /\ i - 1 # m + 1 /\ i \in 0 .. m + 1 /\ i - 1 \in 0 .. m + 1
        BY <3>2
      <4>2. g[i] = f[i] /\ g[i - 1] = f[i - 1]
        BY <3>2, <4>1
      <4>3. f[i] = F[<<f[i - 1], i>>]
        BY <4>1
      <4> HIDE DEF g
      <4> QED BY <4>2, <4>3
    <3> QED BY <3>1, <3>2
  <2>5. Good(m + 1, g)
    <3>1. g[0] = base
      OBVIOUS
    <3> HIDE DEF g
    <3> QED BY <2>3, <2>4, <3>1
  <2> QED BY <2>5
<1> HIDE DEF S
<1>3. n \in S
  BY <1>1, <1>2, Induction
<1> QED BY <1>3 DEF S, IsRecursion

\* A finite set of natural numbers has a bound.
LEMMA FiniteIsBounded ==
    ASSUME NEW S, S \subseteq Nat, IsFiniteSet(S)
    PROVE  \E n \in Nat : \A x \in S : x <= n
<1> DEFINE Bounded(T) == \E n \in Nat : \A x \in T : x <= n
           Size(T, n) == T \subseteq Nat /\ IsFiniteSet(T) /\ Cardinality(T) = n
           G == {n \in Nat : \A T : Size(T, n) => Bounded(T)}
<1>1. 0 \in G
  <2>1. \A T : Size(T, 0) => Bounded(T)
    BY FS_EmptySet
  <2> QED BY <2>1
<1>2. ASSUME NEW n \in Nat, n \in G
      PROVE  n + 1 \in G
  <2>1. \A T : Size(T, n) => Bounded(T)
    BY <1>2
  <2> HIDE DEF G
  <2>2. ASSUME NEW T, Size(T, n + 1)
        PROVE  Bounded(T)
    <3>1. Cardinality(T) # 0
      BY <2>2
    <3>2. PICK x \in T : x \in Nat
      BY <3>1, <2>2, FS_EmptySet
    <3>3. Size(T \ {x}, n)
      <4>1. IsFiniteSet(T) /\ T \ {x} \subseteq Nat
        BY <2>2
      <4>2. IsFiniteSet(T \ {x}) /\ Cardinality(T \ {x}) = Cardinality(T) - 1
        BY <3>2, <4>1, FS_RemoveElement
      <4>3. Cardinality(T) - 1 = n
        BY <2>2
      <4> QED BY <4>1, <4>2, <4>3
    <3>4. PICK b \in Nat : \A y \in T \ {x} : y <= b
      BY <3>3, <2>1
    <3>5. \A y \in T : y \in Nat
      BY <2>2
    <3>6. x + b \in Nat /\ \A y \in T : y <= x + b
      BY <3>2, <3>4, <3>5
    <3> QED BY <3>6
  <2> HIDE DEF Size, Bounded
  <2> QED BY <2>2 DEF G
<1>3. Cardinality(S) \in G
  <2> HIDE DEF G
  <2> QED BY <1>1, <1>2, Induction, FS_CardinalityType
<1> QED BY <1>3

\* The greatest of a bounded set of natural numbers.
LEMMA MaxFacts ==
    ASSUME NEW S, S \subseteq Nat, S # {}, NEW n \in Nat, \A x \in S : x <= n
    PROVE  Max(S) \in S /\ Max(S) \in Nat /\ \A x \in S : x <= Max(S)
<1> DEFINE T == {n - x : x \in S}
<1>0. \A x \in S : x \in Nat /\ n - x \in Nat
  OBVIOUS
<1>1. T \subseteq Nat /\ T # {}
  BY <1>0
<1>2. PICK m \in T : \A k \in T : <<k, m>> \notin OpToRel(<, Nat)
  <2> HIDE DEF T
  <2> QED BY <1>1, NatLessThanWellFounded, WFMin
<1>3. PICK x \in S : m = n - x
  BY <1>2
<1>4. ASSUME NEW y \in S
      PROVE  x >= y
  <2>1. n - y \in T /\ n - y \in Nat /\ m \in Nat
    BY <1>1, <1>2
  <2>2. ~(n - y < m)
    BY <1>2, <2>1 DEF OpToRel
  <2> QED BY <2>2, <1>3, <1>0
<1>5. Max(S) \in S /\ \A y \in S : Max(S) >= y
  BY <1>3, <1>4 DEF Max
<1>6. Max(S) \in Nat
  BY <1>5, <1>0
<1>7. ASSUME NEW y \in S
      PROVE  y <= Max(S)
  BY <1>5, <1>6, <1>0
<1> QED BY <1>5, <1>6, <1>7

\* The least of a set of natural numbers.
LEMMA MinFacts ==
    ASSUME NEW S, S \subseteq Nat, S # {}
    PROVE  Min(S) \in S /\ Min(S) \in Nat /\ \A x \in S : Min(S) <= x
<1>0. \A x \in S : x \in Nat
  OBVIOUS
<1>1. PICK m \in S : \A k \in S : <<k, m>> \notin OpToRel(<, Nat)
  BY NatLessThanWellFounded, WFMin
<1>2. ASSUME NEW y \in S
      PROVE  m =< y
  <2>1. m \in Nat /\ y \in Nat
    BY <1>0, <1>1
  <2>2. ~(y < m)
    BY <1>1, <2>1 DEF OpToRel
  <2> QED BY <2>1, <2>2
<1>3. Min(S) \in S /\ \A y \in S : Min(S) =< y
  BY <1>1, <1>2 DEF Min
<1> QED BY <1>0, <1>3

(***************************************************************************)
(* Where protected values occur.                                           *)
(***************************************************************************)

\* Everything that is in an output, a value or the marker.
Alphabet == Symbols \cup Range(Marker) \cup UNION {Range(p) : p \in UNION PatternSets}

\* An occurrence of a value covers the positions s + 1 .. e of d.
Occurrence(ps, d, s, e) == \E p \in ps : OccursAt(p, d, s) /\ e = s + Len(p)

\* Covered, Opens and "a match reaches over this boundary", of any sequence.
CoveredIn(ps, d, i) == \E s, e \in Nat : s < i /\ i <= e /\ Occurrence(ps, d, s, e)
ReachedIn(ps, d, i) == \E s, e \in Nat : s + 1 < i /\ i <= e /\ Occurrence(ps, d, s, e)
OpensIn(ps, d, i) == (\E e \in Nat : Occurrence(ps, d, i - 1, e)) /\ ~ReachedIn(ps, d, i)
CrossedIn(ps, d, b) == \E s, e \in Nat : s < b /\ b < e /\ Occurrence(ps, d, s, e)

\* Everything is a sequence over one alphabet.
LEMMA Alphabets ==
    /\ Marker \in Seq(Alphabet) /\ Marker # <<>>
    /\ \A ps \in PatternSets :
         IsFiniteSet(ps) /\ \A p \in ps : p \in Seq(Alphabet) /\ p # <<>>
    /\ \A d \in Seq(Symbols) : d \in Seq(Alphabet)
<1>1. Marker \in Seq(Range(Marker)) /\ Marker # <<>>
  BY CollectorConstants
<1>2. Range(Marker) \subseteq Alphabet /\ Symbols \subseteq Alphabet
  BY DEF Alphabet
<1>3. Marker \in Seq(Alphabet)
  BY <1>1, <1>2, SeqMonotonic
<1>4. ASSUME NEW ps \in PatternSets, NEW p \in ps
      PROVE  p \in Seq(Alphabet) /\ p # <<>>
  <2>1. p \in Seq(Range(p)) /\ p # <<>>
    BY CollectorConstants
  <2>2. Range(p) \subseteq Alphabet
    BY DEF Alphabet
  <2> QED BY <2>1, <2>2, SeqMonotonic
<1>5. ASSUME NEW d \in Seq(Symbols)
      PROVE  d \in Seq(Alphabet)
  BY <1>2, SeqMonotonic
<1>6. \A ps \in PatternSets : IsFiniteSet(ps)
  BY CollectorConstants
<1> QED BY <1>1, <1>3, <1>4, <1>5, <1>6

\* Concatenation is associative.
Associate(a, b, c) == (a \o b) \o c = a \o (b \o c)

\* Putting sequences together is associative.
LEMMA Association == \A a, b, c \in Seq(Alphabet) : Associate(a, b, c)
BY ConcatAssociative DEF Associate

\* A part of a sequence, symbol by symbol.
LEMMA Parts ==
    ASSUME NEW d \in Seq(Alphabet), NEW m \in Nat, NEW n \in Nat, n <= Len(d), m <= n
    PROVE  /\ SubSeq(d, m + 1, n) \in Seq(Alphabet)
           /\ Len(SubSeq(d, m + 1, n)) = n - m
           /\ \A i \in 1 .. n - m : SubSeq(d, m + 1, n)[i] = d[m + i]
<1>0. Len(d) \in Nat /\ d \in [1 .. Len(d) -> Alphabet]
  BY LenProperties
<1>1. \A i \in m + 1 .. n : d[i] \in Alphabet
  BY <1>0
<1>2. /\ SubSeq(d, m + 1, n) \in Seq(Alphabet)
      /\ Len(SubSeq(d, m + 1, n)) = IF m + 1 <= n THEN n - (m + 1) + 1 ELSE 0
      /\ \A i \in 1 .. n - (m + 1) + 1 : SubSeq(d, m + 1, n)[i] = d[(m + 1) + i - 1]
  BY <1>1, SubSeqProperties
<1>3. \A i \in 1 .. n - m : i \in 1 .. n - (m + 1) + 1 /\ (m + 1) + i - 1 = m + i
  OBVIOUS
<1> QED BY <1>2, <1>3

\* A value occurs where its symbols are.
LEMMA OccursPointwise ==
    ASSUME NEW p \in Seq(Alphabet), NEW d \in Seq(Alphabet), NEW o \in Nat
    PROVE  OccursAt(p, d, o) <=>
             o + Len(p) <= Len(d) /\ \A i \in 1 .. Len(p) : d[o + i] = p[i]
<1>0. Len(p) \in Nat /\ Len(d) \in Nat
  BY LenProperties
<1> SUFFICES ASSUME o + Len(p) <= Len(d)
             PROVE  SubSeq(d, o + 1, o + Len(p)) = p <=>
                      \A i \in 1 .. Len(p) : d[o + i] = p[i]
  BY <1>0 DEF OccursAt
<1> DEFINE q == SubSeq(d, o + 1, o + Len(p))
<1>1. q \in Seq(Alphabet) /\ Len(q) = Len(p) /\ \A i \in 1 .. Len(p) : q[i] = d[o + i]
  BY <1>0, Parts
<1> HIDE DEF q
<1>2. (\A i \in 1 .. Len(p) : q[i] = p[i]) => q = p
  BY <1>1, SeqEqual
<1>3. q = p <=> \A i \in 1 .. Len(p) : d[o + i] = p[i]
  BY <1>1, <1>2
<1> QED BY <1>3 DEF q

\* An occurrence is not empty and is inside its sequence.
LEMMA OccurrenceBounds ==
    ASSUME NEW ps \in PatternSets, NEW d \in Seq(Alphabet), NEW s \in Nat, NEW e,
           Occurrence(ps, d, s, e)
    PROVE  e \in Nat /\ s < e /\ e <= Len(d)
<1>1. PICK p \in ps : OccursAt(p, d, s) /\ e = s + Len(p)
  BY DEF Occurrence
<1>2. p \in Seq(Alphabet) /\ p # <<>>
  BY Alphabets
<1>3. Len(p) \in Nat \ {0}
  BY <1>2, EmptySeq
<1> QED BY <1>1, <1>3 DEF OccursAt

\* What is appended changes no occurrence before it.
LEMMA AppendedOccurrence ==
    ASSUME NEW ps \in PatternSets, NEW d \in Seq(Alphabet), NEW c \in Seq(Alphabet),
           NEW s \in Nat, NEW e \in Nat, e <= Len(d)
    PROVE  Occurrence(ps, d \o c, s, e) <=> Occurrence(ps, d, s, e)
<1>0. /\ d \o c \in Seq(Alphabet) /\ Len(d \o c) = Len(d) + Len(c)
      /\ Len(d) \in Nat /\ Len(c) \in Nat
      /\ \A i \in 1 .. Len(d) : (d \o c)[i] = d[i]
  BY ConcatProperties, LenProperties
<1>1. ASSUME NEW p \in ps, e = s + Len(p)
      PROVE  OccursAt(p, d \o c, s) <=> OccursAt(p, d, s)
  <2>1. p \in Seq(Alphabet) /\ Len(p) \in Nat
    BY Alphabets, LenProperties
  <2>2. \A i \in 1 .. Len(p) : (d \o c)[s + i] = d[s + i]
    <3> TAKE i \in 1 .. Len(p)
    <3>1. s + i \in 1 .. Len(d)
      BY <1>1, <2>1, <1>0
    <3> QED BY <3>1, <1>0
  <2>3. s + Len(p) <= Len(d) /\ s + Len(p) <= Len(d \o c)
    BY <1>1, <2>1, <1>0
  <2>4. OccursAt(p, d \o c, s) <=> \A i \in 1 .. Len(p) : (d \o c)[s + i] = p[i]
    BY <2>1, <2>3, <1>0, OccursPointwise
  <2>5. OccursAt(p, d, s) <=> \A i \in 1 .. Len(p) : d[s + i] = p[i]
    BY <2>1, <2>3, OccursPointwise
  <2> QED BY <2>2, <2>4, <2>5
<1> QED BY <1>1 DEF Occurrence

\* An occurrence in the rest of a sequence is one of the whole.
LEMMA ShiftedOccurrence ==
    ASSUME NEW ps \in PatternSets, NEW d \in Seq(Alphabet), NEW k \in 0 .. Len(d),
           NEW s \in Nat, NEW e
    PROVE  Occurrence(ps, SubSeq(d, k + 1, Len(d)), s, e) <=>
             e \in Nat /\ Occurrence(ps, d, k + s, k + e)
<1> DEFINE r == SubSeq(d, k + 1, Len(d))
<1>0. Len(d) \in Nat /\ k \in Nat /\ k <= Len(d)
  BY LenProperties
<1>1. r \in Seq(Alphabet) /\ Len(r) = Len(d) - k /\ \A i \in 1 .. Len(r) : r[i] = d[k + i]
  BY <1>0, Parts
<1> HIDE DEF r
<1>2. ASSUME NEW p \in ps
      PROVE  OccursAt(p, r, s) <=> OccursAt(p, d, k + s)
  <2>1. p \in Seq(Alphabet) /\ Len(p) \in Nat
    BY Alphabets, LenProperties
  <2>2. ASSUME s + Len(p) <= Len(r), NEW i \in 1 .. Len(p)
        PROVE  r[s + i] = d[(k + s) + i]
    <3>1. s + i \in 1 .. Len(r) /\ k + (s + i) = (k + s) + i
      BY <2>1, <2>2, <1>0, <1>1
    <3> QED BY <3>1, <1>1
  <2>3. s + Len(p) <= Len(r) <=> (k + s) + Len(p) <= Len(d)
    BY <2>1, <1>0, <1>1
  <2>4. OccursAt(p, r, s) <=>
          s + Len(p) <= Len(r) /\ \A i \in 1 .. Len(p) : r[s + i] = p[i]
    BY <2>1, <1>1, OccursPointwise
  <2>5. OccursAt(p, d, k + s) <=>
          (k + s) + Len(p) <= Len(d) /\ \A i \in 1 .. Len(p) : d[(k + s) + i] = p[i]
    BY <2>1, <1>0, OccursPointwise
  <2> QED BY <2>2, <2>3, <2>4, <2>5
<1>3. ASSUME NEW p \in ps
      PROVE  e = s + Len(p) <=> e \in Nat /\ k + e = (k + s) + Len(p)
  <2>1. Len(p) \in Nat
    BY Alphabets, LenProperties
  <2> QED BY <2>1, <1>0
<1>4. Occurrence(ps, r, s, e) <=> e \in Nat /\ Occurrence(ps, d, k + s, k + e)
  BY <1>2, <1>3 DEF Occurrence
<1> QED BY <1>4 DEF r

(***************************************************************************)
(* Matches and the boundaries between them.                                *)
(***************************************************************************)

\* A match is an occurrence, and every occurrence begins where a match begins
\* that reaches as far.
LEMMA MatchFacts ==
    ASSUME patterns \in PatternSets, NEW d \in Seq(Alphabet)
    PROVE  /\ \A m \in Matches(d) :
                /\ m.start \in Nat /\ m.end \in Nat /\ m.end <= Len(d)
                /\ Occurrence(patterns, d, m.start, m.end)
           /\ \A s, e \in Nat : Occurrence(patterns, d, s, e) =>
                \E m \in Matches(d) : m.start = s /\ e <= m.end
<1> DEFINE Here(o) == {q \in patterns : OccursAt(q, d, o)}
           Lengths(o) == {Len(p) : p \in Here(o)}
           Reach(o) == Max(Lengths(o))
           Starts == {n \in 0 .. Len(d) : \E p \in patterns : OccursAt(p, d, n)}
<1>0. Len(d) \in Nat
  BY LenProperties
<1>1. ASSUME NEW o \in Starts
      PROVE  /\ \E p \in patterns : OccursAt(p, d, o) /\ Len(p) = Reach(o)
             /\ \A p \in Here(o) : Len(p) <= Reach(o)
             /\ o \in Nat
  <2>1. \A p \in Here(o) : Len(p) \in Nat /\ Len(p) <= Len(d)
    <3> TAKE p \in Here(o)
    <3>1. Len(p) \in Nat
      BY Alphabets, LenProperties
    <3>2. o + Len(p) <= Len(d) /\ o \in Nat
      BY DEF OccursAt
    <3> QED BY <3>1, <3>2, <1>0
  <2>2. PICK p \in Here(o) : TRUE
    OBVIOUS
  <2>3. Lengths(o) \subseteq Nat /\ Lengths(o) # {} /\ \A x \in Lengths(o) : x <= Len(d)
    BY <2>1, <2>2
  <2> HIDE DEF Lengths
  <2>4. Reach(o) \in Lengths(o) /\ \A x \in Lengths(o) : x <= Reach(o)
    BY <2>3, <1>0, MaxFacts
  <2> HIDE DEF Reach
  <2> QED BY <2>4 DEF Lengths
<1>2. Matches(d) = {[start |-> o, end |-> o + Reach(o)] : o \in Starts}
  BY DEF Matches
<1> HIDE DEF Reach, Starts
<1>3. ASSUME NEW m \in Matches(d)
      PROVE  /\ m.start \in Nat /\ m.end \in Nat /\ m.end <= Len(d)
             /\ Occurrence(patterns, d, m.start, m.end)
  <2>1. PICK o \in Starts : m.start = o /\ m.end = o + Reach(o)
    BY <1>2
  <2>2. Occurrence(patterns, d, o, o + Reach(o)) /\ o \in Nat
    BY <1>1 DEF Occurrence
  <2> QED BY <2>1, <2>2, OccurrenceBounds
<1>4. ASSUME NEW s \in Nat, NEW e \in Nat, Occurrence(patterns, d, s, e)
      PROVE  \E m \in Matches(d) : m.start = s /\ e <= m.end
  <2>1. PICK p \in patterns : OccursAt(p, d, s) /\ e = s + Len(p)
    BY <1>4 DEF Occurrence
  <2>2. s < e /\ e <= Len(d)
    BY <1>4, OccurrenceBounds
  <2>3. s \in Starts
    BY <2>1, <2>2, <1>0 DEF Starts
  <2>4. Len(p) <= Reach(s)
    BY <1>1, <2>1, <2>3
  <2>5. PICK q \in patterns : Len(q) = Reach(s)
    BY <1>1, <2>3
  <2>6. Reach(s) \in Nat /\ Len(p) \in Nat
    BY <2>5, Alphabets, LenProperties
  <2>7. [start |-> s, end |-> s + Reach(s)] \in Matches(d)
    BY <1>2, <2>3
  <2> QED BY <2>7, <2>1, <2>4, <2>6
<1> QED BY <1>3, <1>4

\* A match reaches over a boundary exactly when an occurrence does.
LEMMA Crossings ==
    ASSUME patterns \in PatternSets, NEW d \in Seq(Alphabet), NEW b \in Nat
    PROVE  (\E m \in Matches(d) : m.start < b /\ m.end > b) <=> CrossedIn(patterns, d, b)
<1>1. ASSUME NEW m \in Matches(d), m.start < b, m.end > b
      PROVE  CrossedIn(patterns, d, b)
  BY <1>1, MatchFacts DEF CrossedIn
<1>2. ASSUME CrossedIn(patterns, d, b)
      PROVE  \E m \in Matches(d) : m.start < b /\ m.end > b
  <2>1. PICK s \in Nat, e \in Nat : s < b /\ b < e /\ Occurrence(patterns, d, s, e)
    BY <1>2 DEF CrossedIn
  <2>2. PICK m \in Matches(d) : m.start = s /\ e <= m.end
    BY <2>1, MatchFacts
  <2>3. m.end \in Nat
    BY MatchFacts
  <2> QED BY <2>1, <2>2, <2>3
<1> QED BY <1>1, <1>2

\* Settle finds the last boundary that no occurrence reaches over.
LEMMA SettleFacts ==
    ASSUME patterns \in PatternSets, NEW d \in Seq(Alphabet), NEW b \in Nat
    PROVE  /\ Settle(d, b) \in 0 .. b
           /\ ~CrossedIn(patterns, d, Settle(d, b))
           /\ \A x \in 0 .. b : Settle(d, b) < x => CrossedIn(patterns, d, x)
<1> DEFINE S == { x \in 0 .. b : ~CrossedIn(patterns, d, x) }
<1>1. Settle(d, b) = Max({ x \in 0 .. b : \A m \in Matches(d) : ~(m.start < x /\ m.end > x) })
  BY DEF Settle
<1>2. \A x \in 0 .. b : (\A m \in Matches(d) : ~(m.start < x /\ m.end > x))
                          <=> ~CrossedIn(patterns, d, x)
  BY Crossings
<1>3. Settle(d, b) = Max(S)
  BY <1>1, <1>2
<1>4. 0 \in S
  BY DEF CrossedIn
<1>5. S \subseteq Nat /\ S # {} /\ \A x \in S : x <= b
  BY <1>4
<1>6. Max(S) \in S /\ \A x \in S : x <= Max(S)
  <2> HIDE DEF S
  <2> QED BY <1>5, MaxFacts
<1> HIDE DEF S
<1>7. Settle(d, b) \in S /\ \A x \in S : x <= Settle(d, b)
  BY <1>3, <1>6
<1> QED BY <1>7 DEF S

\* The length of the longest value.
LEMMA LongestFacts ==
    ASSUME patterns \in PatternSets
    PROVE  /\ Longest \in Nat
           /\ \A p \in patterns : Len(p) \in Nat /\ Len(p) <= Longest
           /\ Longest = 0 \/ \E p \in patterns : Len(p) = Longest
<1> DEFINE S == {Len(p) : p \in patterns}
           f == [p \in patterns |-> Len(p)]
<1>1. \A p \in patterns : Len(p) \in Nat
  BY Alphabets, LenProperties
<1>2. IsFiniteSet(S)
  <2>1. f \in Surjection(patterns, S)
    BY DEF Surjection
  <2>2. IsFiniteSet(patterns)
    BY Alphabets
  <2> HIDE DEF f, S
  <2> QED BY <2>1, <2>2, FS_Surjection
<1>3. IsFiniteSet({0} \cup S)
  <2> HIDE DEF S
  <2>1. {0} \cup S = S \cup {0}
    OBVIOUS
  <2> QED BY <1>2, <2>1, FS_AddElement
<1>4. {0} \cup S \subseteq Nat /\ {0} \cup S # {}
  BY <1>1
<1>5. PICK n \in Nat : \A x \in {0} \cup S : x <= n
  BY <1>3, <1>4, FiniteIsBounded
<1>6. /\ Max({0} \cup S) \in {0} \cup S
      /\ \A x \in {0} \cup S : x <= Max({0} \cup S)
  <2> HIDE DEF S
  <2> QED BY <1>4, <1>5, MaxFacts
<1>7. Longest = Max({0} \cup S)
  BY DEF Longest
<1>8. Longest \in {0} \cup S /\ \A x \in {0} \cup S : x <= Longest
  BY <1>6, <1>7
<1>9. \A p \in patterns : Len(p) \in Nat /\ Len(p) <= Longest
  BY <1>1, <1>8
<1>10. Longest = 0 \/ \E p \in patterns : Len(p) = Longest
  BY <1>8
<1>11. Longest \in Nat
  BY <1>4, <1>8
<1> HIDE DEF S
<1> QED BY <1>9, <1>10, <1>11

(***************************************************************************)
(* The redaction of a sequence, position by position.                      *)
(***************************************************************************)

\* What is shown for the position i of d.
PieceIn(ps, d, i) ==
    IF OpensIn(ps, d, i) THEN Marker ELSE IF CoveredIn(ps, d, i) THEN <<>> ELSE <<d[i]>>

\* TextOf(ps, d)[n] is what is shown for the first n positions of d.
TextOf(ps, d) ==
    LET text[i \in 0 .. Len(d)] == IF i = 0 THEN <<>> ELSE text[i - 1] \o PieceIn(ps, d, i)
    IN  text

\* A position is shown as a sequence.
LEMMA PieceType ==
    ASSUME NEW ps, NEW d \in Seq(Alphabet), NEW i \in 1 .. Len(d)
    PROVE  PieceIn(ps, d, i) \in Seq(Alphabet)
<1>1. d[i] \in Alphabet
  BY ElementOfSeq
<1>2. <<d[i]>> \in Seq(Alphabet) /\ <<>> \in Seq(Alphabet)
  BY <1>1
<1> QED BY <1>2, Alphabets DEF PieceIn

\* TextOf is well defined.
LEMMA TextFacts ==
    ASSUME NEW ps, NEW d \in Seq(Alphabet)
    PROVE  /\ TextOf(ps, d) \in [0 .. Len(d) -> Seq(Alphabet)]
           /\ TextOf(ps, d)[0] = <<>>
           /\ \A i \in 1 .. Len(d) : TextOf(ps, d)[i] = TextOf(ps, d)[i - 1] \o PieceIn(ps, d, i)
<1> DEFINE n == Len(d)
           A == Seq(Alphabet)
           F == [x \in A \X (1 .. n) |-> x[1] \o PieceIn(ps, d, x[2])]
           Is(f) == f = [i \in 0 .. n |-> IF i = 0 THEN <<>> ELSE f[i - 1] \o PieceIn(ps, d, i)]
<1>0. n \in Nat /\ <<>> \in A
  BY LenProperties, EmptySeq
<1>1. \A a \in A : \A i \in 1 .. n : a \o PieceIn(ps, d, i) \in A
  BY PieceType, ConcatProperties
<1>2. F \in [A \X (1 .. n) -> A] /\ \A a \in A : \A i \in 1 .. n : F[<<a, i>>] = a \o PieceIn(ps, d, i)
  BY <1>1
<1> HIDE DEF F, A, n
<1>3. PICK f : IsRecursion(f, n, A, <<>>, F)
  BY <1>0, <1>2, Recursion
<1>4. Is(f)
  <2>1. ASSUME NEW i \in 0 .. n
        PROVE  f[i] = IF i = 0 THEN <<>> ELSE f[i - 1] \o PieceIn(ps, d, i)
    <3>1. CASE i = 0
      BY <3>1, <1>3 DEF IsRecursion
    <3>2. CASE i # 0
      <4>1. i - 1 \in 0 .. n /\ i \in 1 .. n
        BY <3>2, <1>0
      <4>2. f[i - 1] \in A
        BY <4>1, <1>3 DEF IsRecursion
      <4>3. f[i] = f[i - 1] \o PieceIn(ps, d, i)
        BY <4>1, <4>2, <1>2, <1>3 DEF IsRecursion
      <4> QED BY <3>2, <4>3
    <3> QED BY <3>1, <3>2
  <2> QED BY <1>3, <2>1 DEF IsRecursion
<1> DEFINE g == TextOf(ps, d)
<1>5. g = CHOOSE h : Is(h)
  BY DEF TextOf, n
<1>6. Is(g)
  <2> HIDE DEF Is, g
  <2> QED BY <1>4, <1>5
<1> HIDE DEF g
<1>7. g[0] = <<>>
  BY <1>6, <1>0
<1>8. \A i \in 1 .. n : g[i] = g[i - 1] \o PieceIn(ps, d, i)
  <2> TAKE i \in 1 .. n
  <2>1. i \in 0 .. n /\ i # 0
    BY <1>0
  <2> QED BY <1>6, <2>1
<1>9. g \in [0 .. n -> A]
  <2> DEFINE S == {m \in Nat : m <= n => g[m] \in A}
  <2>1. 0 \in S
    BY <1>7, <1>0
  <2>2. ASSUME NEW m \in Nat, m \in S PROVE m + 1 \in S
    <3> SUFFICES ASSUME m + 1 <= n PROVE g[m + 1] \in A
      OBVIOUS
    <3>1. m + 1 \in 1 .. n /\ (m + 1) - 1 = m /\ m <= n
      BY <1>0
    <3>2. g[m + 1] = g[m] \o PieceIn(ps, d, m + 1) /\ g[m] \in A
      BY <3>1, <1>8, <2>2
    <3> QED BY <3>1, <3>2, <1>1
  <2>3. Nat \subseteq S
    <3> HIDE DEF S
    <3> QED BY <2>1, <2>2, Induction
  <2>4. \A m \in 0 .. n : g[m] \in A
    BY <2>3, <1>0
  <2> QED BY <2>4, <1>6
<1> QED BY <1>7, <1>8, <1>9 DEF g, n, A

\* What the loop of RedactPrefix carries.
Runs == [text : Seq(Alphabet), cursor : Nat, replaced : BOOLEAN]

\* The loop of RedactPrefix is at the position i of d: its cursor is behind the
\* matches that began.
RunIsAt(ps, d, whole, acc, i) ==
    /\ acc.text = TextOf(ps, d)[i]
    /\ \A j \in Nat : j < acc.cursor <=> \E m \in whole : m.start < i /\ j < m.end
    /\ acc.replaced <=> \E m \in whole : m.start < i

\* The cursor moves behind the match that begins here.
LEMMA CursorFacts ==
    ASSUME NEW M, NEW n \in Nat, \A m \in M : m.end \in Nat /\ m.end <= n, NEW c \in Nat
    PROVE  /\ Max({m.end : m \in M} \cup {c}) \in Nat
           /\ \A j \in Nat : j < Max({m.end : m \in M} \cup {c}) <=>
                               j < c \/ \E m \in M : j < m.end
<1> DEFINE S == {m.end : m \in M} \cup {c}
<1>1. S \subseteq Nat /\ S # {} /\ \E k \in Nat : \A x \in S : x <= k
  <2>1. n + c \in Nat /\ \A x \in S : x <= n + c
    OBVIOUS
  <2> QED BY <2>1
<1>2. Max(S) \in S /\ Max(S) \in Nat /\ \A x \in S : x <= Max(S)
  <2> HIDE DEF S
  <2> QED BY <1>1, MaxFacts
<1>3. c <= Max(S) /\ \A m \in M : m.end <= Max(S)
  BY <1>2
<1>4. Max(S) = c \/ \E m \in M : m.end = Max(S)
  BY <1>2
<1> HIDE DEF S
<1>5. \A j \in Nat : j < Max(S) <=> j < c \/ \E m \in M : j < m.end
  BY <1>2, <1>3, <1>4
<1> QED BY <1>2, <1>5 DEF S

\* The matches that end by an uncrossed boundary say what is shown before it.
LEMMA PieceFromMatches ==
    ASSUME patterns \in PatternSets, NEW d \in Seq(Alphabet), NEW b \in 0 .. Len(d),
           ~CrossedIn(patterns, d, b), NEW i \in 1 .. b
    PROVE  LET whole == {m \in Matches(d) : m.end <= b}
           IN  PieceIn(patterns, d, i) =
                 IF \E m \in whole : m.start < i - 1 /\ i - 1 < m.end THEN <<>>
                 ELSE IF \E m \in whole : m.start = i - 1 THEN Marker ELSE <<d[i]>>
<1> DEFINE whole == {m \in Matches(d) : m.end <= b}
<1>0. Len(d) \in Nat /\ b \in Nat /\ i \in Nat /\ i - 1 \in Nat /\ i <= b
  BY LenProperties
<1>1. \A m \in whole : /\ m.start \in Nat /\ m.end \in Nat
                       /\ Occurrence(patterns, d, m.start, m.end)
  BY MatchFacts
<1>2. ASSUME NEW s \in Nat, NEW e \in Nat, Occurrence(patterns, d, s, e), s < b
      PROVE  \E m \in whole : m.start = s /\ e <= m.end
  <2>1. PICK m \in Matches(d) : m.start = s /\ e <= m.end
    BY <1>2, MatchFacts
  <2>2. m.end \in Nat /\ Occurrence(patterns, d, s, m.end)
    BY <2>1, MatchFacts
  <2>3. ~(b < m.end)
    BY <2>2, <1>2, <1>0 DEF CrossedIn
  <2> QED BY <2>1, <2>2, <2>3, <1>0
<1> HIDE DEF whole
<1>3. ReachedIn(patterns, d, i) <=> \E m \in whole : m.start < i - 1 /\ i - 1 < m.end
  <2>1. ASSUME NEW m \in whole, m.start < i - 1, i - 1 < m.end
        PROVE  ReachedIn(patterns, d, i)
    <3>1. m.start + 1 < i /\ i <= m.end
      BY <2>1, <1>1, <1>0
    <3> QED BY <3>1, <1>1 DEF ReachedIn
  <2>2. ASSUME ReachedIn(patterns, d, i)
        PROVE  \E m \in whole : m.start < i - 1 /\ i - 1 < m.end
    <3>1. PICK s \in Nat, e \in Nat : s + 1 < i /\ i <= e /\ Occurrence(patterns, d, s, e)
      BY <2>2 DEF ReachedIn
    <3>2. PICK m \in whole : m.start = s /\ e <= m.end
      BY <3>1, <1>2, <1>0
    <3> QED BY <3>1, <3>2, <1>1, <1>0
  <2> QED BY <2>1, <2>2
<1>4. (\E e \in Nat : Occurrence(patterns, d, i - 1, e)) <=> \E m \in whole : m.start = i - 1
  <2>1. ASSUME NEW e \in Nat, Occurrence(patterns, d, i - 1, e)
        PROVE  \E m \in whole : m.start = i - 1
    BY <2>1, <1>2, <1>0
  <2> QED BY <2>1, <1>1
<1>5. ReachedIn(patterns, d, i) => CoveredIn(patterns, d, i)
  BY <1>0 DEF ReachedIn, CoveredIn
<1>6. CoveredIn(patterns, d, i) =>
        ReachedIn(patterns, d, i) \/ \E e \in Nat : Occurrence(patterns, d, i - 1, e)
  <2> SUFFICES ASSUME NEW s \in Nat, NEW e \in Nat, s < i, i <= e, Occurrence(patterns, d, s, e)
               PROVE  ReachedIn(patterns, d, i) \/ \E x \in Nat : Occurrence(patterns, d, i - 1, x)
    BY DEF CoveredIn
  <2>1. CASE s = i - 1
    BY <2>1
  <2>2. CASE s + 1 < i
    BY <2>2 DEF ReachedIn
  <2> QED BY <2>1, <2>2, <1>0
<1>7. PieceIn(patterns, d, i) =
        IF \E m \in whole : m.start < i - 1 /\ i - 1 < m.end THEN <<>>
        ELSE IF \E m \in whole : m.start = i - 1 THEN Marker ELSE <<d[i]>>
  BY <1>3, <1>4, <1>5, <1>6 DEF PieceIn, OpensIn
<1> QED BY <1>7 DEF whole

\* _redact_prefix, up to a boundary that no occurrence reaches over, shows what
\* TextOf says and reports whether it replaced something.
LEMMA RedactPrefixFacts ==
    ASSUME patterns \in PatternSets, NEW d \in Seq(Alphabet), NEW b \in 0 .. Len(d),
           ~CrossedIn(patterns, d, b)
    PROVE  /\ RedactPrefix(d, b).text = TextOf(patterns, d)[b]
           /\ RedactPrefix(d, b).replaced \in BOOLEAN
           /\ RedactPrefix(d, b).replaced <=> \E i \in 1 .. b : CoveredIn(patterns, d, i)
<1> DEFINE whole == {m \in Matches(d) : m.end <= b}
           Here(i) == {m \in whole : m.start = i - 1}
           Begin == [text |-> <<>>, cursor |-> 0, replaced |-> FALSE]
           End(acc, i) == Max({m.end : m \in Here(i)} \cup {acc.cursor})
           Step(acc, i) ==
             [ text |-> acc.text \o (IF i - 1 < acc.cursor THEN <<>>
                                     ELSE IF Here(i) # {} THEN Marker ELSE <<d[i]>>),
               cursor |-> End(acc, i),
               replaced |-> acc.replaced \/ Here(i) # {} ]
           Is(f) == f = [i \in 0 .. b |-> IF i = 0 THEN Begin ELSE Step(f[i - 1], i)]
           F == [x \in Runs \X (1 .. b) |-> Step(x[1], x[2])]
           g == CHOOSE f : Is(f)
<1>0. Len(d) \in Nat /\ b \in Nat /\ b <= Len(d)
  BY LenProperties
<1>1. RedactPrefix(d, b) = g[b]
  BY DEF RedactPrefix
<1>2. \A m \in whole : /\ m.start \in Nat /\ m.end \in Nat /\ m.end <= b /\ m.start < m.end
                       /\ Occurrence(patterns, d, m.start, m.end)
  BY MatchFacts, OccurrenceBounds
<1>3. Begin \in Runs
  BY EmptySeq DEF Runs
<1>4. ASSUME NEW acc \in Runs, NEW i \in 1 .. b
      PROVE  /\ End(acc, i) \in Nat
             /\ \A j \in Nat : j < End(acc, i) <=> j < acc.cursor \/ \E m \in Here(i) : j < m.end
  <2>1. acc.cursor \in Nat /\ \A m \in Here(i) : m.end \in Nat /\ m.end <= b
    BY <1>2 DEF Runs
  <2> HIDE DEF Here
  <2> QED BY <2>1, <1>0, CursorFacts
<1>5. ASSUME NEW acc \in Runs, NEW i \in 1 .. b
      PROVE  Step(acc, i) \in Runs
  <2>1. i \in 1 .. Len(d)
    BY <1>0
  <2>2. d[i] \in Alphabet
    BY <2>1, ElementOfSeq
  <2>3. <<d[i]>> \in Seq(Alphabet) /\ <<>> \in Seq(Alphabet) /\ Marker \in Seq(Alphabet)
    BY <2>2, Alphabets
  <2> DEFINE piece == IF i - 1 < acc.cursor THEN <<>> ELSE IF Here(i) # {} THEN Marker ELSE <<d[i]>>
  <2>4. piece \in Seq(Alphabet) /\ acc.text \in Seq(Alphabet)
    BY <2>3 DEF Runs
  <2>5. acc.text \o piece \in Seq(Alphabet)
    <3> HIDE DEF piece
    <3> QED BY <2>4, ConcatProperties
  <2>6. End(acc, i) \in Nat /\ (acc.replaced \/ Here(i) # {}) \in BOOLEAN
    BY <1>4
  <2>7. Step(acc, i) = [text |-> acc.text \o piece, cursor |-> End(acc, i),
                        replaced |-> acc.replaced \/ Here(i) # {}]
    OBVIOUS
  <2> HIDE DEF piece, End, Step, Here
  <2> QED BY <2>5, <2>6, <2>7 DEF Runs
<1> HIDE DEF Step, Begin
<1>6. F \in [Runs \X (1 .. b) -> Runs] /\ \A acc \in Runs : \A i \in 1 .. b : F[<<acc, i>>] = Step(acc, i)
  BY <1>5
<1> HIDE DEF F
<1>7. PICK f : IsRecursion(f, b, Runs, Begin, F)
  BY <1>0, <1>3, <1>6, Recursion
<1>8. Is(f)
  <2>1. ASSUME NEW i \in 0 .. b
        PROVE  f[i] = IF i = 0 THEN Begin ELSE Step(f[i - 1], i)
    <3>1. CASE i = 0
      BY <3>1, <1>7 DEF IsRecursion
    <3>2. CASE i # 0
      <4>1. i - 1 \in 0 .. b /\ i \in 1 .. b
        BY <3>2, <1>0
      <4>2. f[i - 1] \in Runs
        BY <4>1, <1>7 DEF IsRecursion
      <4>3. f[i] = Step(f[i - 1], i)
        BY <4>1, <4>2, <1>6, <1>7 DEF IsRecursion
      <4> QED BY <3>2, <4>3
    <3> QED BY <3>1, <3>2
  <2> QED BY <2>1, <1>7 DEF IsRecursion
<1>9. Is(g)
  <2> HIDE DEF Is
  <2> QED BY <1>8
<1> HIDE DEF g
<1>10. g[0] = Begin
  BY <1>9, <1>0
<1>11. ASSUME NEW i \in 1 .. b
       PROVE  g[i] = Step(g[i - 1], i)
  <2>1. i \in 0 .. b /\ i # 0
    BY <1>0
  <2> QED BY <1>9, <2>1
<1> DEFINE At(i) == g[i] \in Runs /\ RunIsAt(patterns, d, whole, g[i], i)
           S == {i \in Nat : i <= b => At(i)}
<1>12. 0 \in S
  <2>1. RunIsAt(patterns, d, whole, Begin, 0)
    <3>1. TextOf(patterns, d)[0] = <<>>
      BY TextFacts
    <3>2. \A m \in whole : ~(m.start < 0)
      BY <1>2
    <3> HIDE DEF whole
    <3> QED BY <3>1, <3>2 DEF RunIsAt, Begin
  <2> QED BY <2>1, <1>3, <1>10
<1>13. ASSUME NEW n \in Nat, n \in S
       PROVE  n + 1 \in S
  <2> SUFFICES ASSUME n + 1 <= b
               PROVE  At(n + 1)
    OBVIOUS
  <2> DEFINE i == n + 1
  <2>1. i \in 1 .. b /\ i - 1 = n /\ n <= b /\ i \in 1 .. Len(d)
    BY <1>0
  <2>2. At(n)
    BY <2>1, <1>13
  <2>3. g[i] = Step(g[n], i) /\ g[i] \in Runs
    BY <2>1, <2>2, <1>11, <1>5
  <2> DEFINE acc == g[n]
  <2>4. acc \in Runs /\ acc.cursor \in Nat
    BY <2>2 DEF Runs
  <2>5. /\ acc.text = TextOf(patterns, d)[n]
        /\ \A j \in Nat : j < acc.cursor <=> \E m \in whole : m.start < n /\ j < m.end
        /\ acc.replaced <=> \E m \in whole : m.start < n
    BY <2>2 DEF RunIsAt
  <2>6. \A m \in whole : m.start < i <=> m.start < n \/ m.start = i - 1
    BY <1>2, <2>1
  <2>7. n < acc.cursor <=> \E m \in whole : m.start < i - 1 /\ i - 1 < m.end
    BY <2>5, <2>1
  <2>8. Here(i) # {} <=> \E m \in whole : m.start = i - 1
    OBVIOUS
  <2>9. PieceIn(patterns, d, i) = IF i - 1 < acc.cursor THEN <<>>
                                  ELSE IF Here(i) # {} THEN Marker ELSE <<d[i]>>
    <3>1. PieceIn(patterns, d, i) =
            IF \E m \in whole : m.start < i - 1 /\ i - 1 < m.end THEN <<>>
            ELSE IF \E m \in whole : m.start = i - 1 THEN Marker ELSE <<d[i]>>
      BY <2>1, PieceFromMatches
    <3> HIDE DEF whole, Here, acc, i
    <3> QED BY <3>1, <2>7, <2>8, <2>1
  <2>10. g[i].text = TextOf(patterns, d)[i]
    <3>1. g[i].text = acc.text \o PieceIn(patterns, d, i)
      <4>1. Step(acc, i).text = acc.text \o (IF i - 1 < acc.cursor THEN <<>>
                                             ELSE IF Here(i) # {} THEN Marker ELSE <<d[i]>>)
        BY DEF Step
      <4> HIDE DEF whole, Here
      <4> QED BY <2>3, <2>9, <4>1
    <3>2. TextOf(patterns, d)[i] = TextOf(patterns, d)[i - 1] \o PieceIn(patterns, d, i)
      BY <2>1, TextFacts
    <3> QED BY <3>1, <3>2, <2>5, <2>1
  <2>11. ASSUME NEW j \in Nat
         PROVE  j < g[i].cursor <=> \E m \in whole : m.start < i /\ j < m.end
    <3>1. g[i].cursor = End(acc, i)
      BY <2>3 DEF Step
    <3>2. j < End(acc, i) <=> j < acc.cursor \/ \E m \in Here(i) : j < m.end
      BY <1>4, <2>1, <2>4
    <3>3. (\E m \in Here(i) : j < m.end) <=> \E m \in whole : m.start = i - 1 /\ j < m.end
      OBVIOUS
    <3> HIDE DEF whole, Here, acc, i, End
    <3> QED BY <3>1, <3>2, <3>3, <2>5, <2>6
  <2>12. g[i].replaced <=> \E m \in whole : m.start < i
    <3>1. g[i].replaced = (acc.replaced \/ Here(i) # {})
      BY <2>3 DEF Step
    <3> HIDE DEF whole, Here, acc, i
    <3> QED BY <3>1, <2>5, <2>6, <2>8
  <2> HIDE DEF i, whole
  <2>13. RunIsAt(patterns, d, whole, g[i], i)
    BY <2>10, <2>11, <2>12 DEF RunIsAt
  <2> QED BY <2>3, <2>13 DEF i
<1>14. At(b)
  <2> HIDE DEF S
  <2>1. b \in S
    BY <1>12, <1>13, <1>0, Induction
  <2> QED BY <2>1, <1>0 DEF S
<1>15. /\ g[b].text = TextOf(patterns, d)[b] /\ g[b].replaced \in BOOLEAN
       /\ g[b].replaced <=> \E m \in whole : m.start < b
  <2> HIDE DEF whole
  <2> QED BY <1>14 DEF RunIsAt, Runs
<1>16. (\E m \in whole : m.start < b) <=> \E i \in 1 .. b : CoveredIn(patterns, d, i)
  <2>1. ASSUME NEW m \in whole
        PROVE  \E i \in 1 .. b : CoveredIn(patterns, d, i)
    <3>1. /\ m.end \in 1 .. b /\ m.start \in Nat /\ m.end \in Nat /\ m.start < m.end
          /\ Occurrence(patterns, d, m.start, m.end)
      BY <1>2, <1>0
    <3>2. CoveredIn(patterns, d, m.end)
      BY <3>1 DEF CoveredIn
    <3> QED BY <3>1, <3>2
  <2>2. ASSUME NEW i \in 1 .. b, CoveredIn(patterns, d, i)
        PROVE  \E m \in whole : m.start < b
    <3>1. PICK s \in Nat, e \in Nat : s < i /\ i <= e /\ Occurrence(patterns, d, s, e)
      BY <2>2 DEF CoveredIn
    <3>2. PICK m \in Matches(d) : m.start = s /\ e <= m.end
      BY <3>1, MatchFacts
    <3>3. s < b
      BY <3>1, <1>0
    <3>4. m.end \in Nat /\ Occurrence(patterns, d, s, m.end)
      BY <3>2, MatchFacts
    <3>5. ~(b < m.end)
      BY <3>3, <3>4 DEF CrossedIn
    <3>6. m \in whole
      BY <3>4, <3>5, <1>0
    <3>7. m.start < b
      BY <3>2, <3>3
    <3> HIDE DEF whole
    <3> QED BY <3>6, <3>7
  <2> QED BY <2>1, <2>2
<1> HIDE DEF whole, Is
<1> QED BY <1>1, <1>15, <1>16

\* Behind an uncrossed place, the rest of a sequence is redacted as if nothing
\* were before it.
LEMMA PieceShift ==
    ASSUME NEW ps \in PatternSets, NEW d \in Seq(Alphabet), NEW k \in 0 .. Len(d),
           ~CrossedIn(ps, d, k), NEW i \in 1 .. Len(d) - k
    PROVE  LET r == SubSeq(d, k + 1, Len(d))
           IN  /\ PieceIn(ps, r, i) = PieceIn(ps, d, k + i)
               /\ CoveredIn(ps, r, i) <=> CoveredIn(ps, d, k + i)
<1> DEFINE r == SubSeq(d, k + 1, Len(d))
<1>0. /\ Len(d) \in Nat /\ k \in Nat /\ k <= Len(d)
      /\ i \in Nat /\ 1 <= i /\ i - 1 \in Nat /\ k + i \in Nat /\ (k + i) - 1 = k + (i - 1)
  BY LenProperties
<1>1. r[i] = d[k + i]
  BY <1>0, Parts
<1>2. \A s \in Nat : \A e : Occurrence(ps, r, s, e) <=> e \in Nat /\ Occurrence(ps, d, k + s, k + e)
  BY ShiftedOccurrence
<1> HIDE DEF r
<1>3. ASSUME NEW s \in Nat, NEW e \in Nat, k + i <= e, Occurrence(ps, d, s, e)
      PROVE  s - k \in Nat /\ e - k \in Nat /\ Occurrence(ps, r, s - k, e - k)
  <2>1. ~(s < k)
    BY <1>3, <1>0 DEF CrossedIn
  <2>2. s - k \in Nat /\ e - k \in Nat /\ k + (s - k) = s /\ k + (e - k) = e
    BY <2>1, <1>3, <1>0
  <2> QED BY <2>2, <1>2, <1>3
<1>4. ASSUME NEW s \in Nat, NEW e \in Nat, Occurrence(ps, r, s, e)
      PROVE  k + s \in Nat /\ k + e \in Nat /\ Occurrence(ps, d, k + s, k + e)
  BY <1>4, <1>2, <1>0
<1>5. CoveredIn(ps, r, i) => CoveredIn(ps, d, k + i)
  <2> SUFFICES ASSUME NEW s \in Nat, NEW e \in Nat, s < i, i <= e, Occurrence(ps, r, s, e)
               PROVE  CoveredIn(ps, d, k + i)
    BY DEF CoveredIn
  <2>1. k + s < k + i /\ k + i <= k + e
    BY <1>0
  <2> QED BY <2>1, <1>4 DEF CoveredIn
<1>6. CoveredIn(ps, d, k + i) => CoveredIn(ps, r, i)
  <2> SUFFICES ASSUME NEW s \in Nat, NEW e \in Nat, s < k + i, k + i <= e, Occurrence(ps, d, s, e)
               PROVE  CoveredIn(ps, r, i)
    BY DEF CoveredIn
  <2>1. s - k < i /\ i <= e - k
    BY <1>0
  <2> QED BY <2>1, <1>3 DEF CoveredIn
<1>7. ReachedIn(ps, r, i) => ReachedIn(ps, d, k + i)
  <2> SUFFICES ASSUME NEW s \in Nat, NEW e \in Nat, s + 1 < i, i <= e, Occurrence(ps, r, s, e)
               PROVE  ReachedIn(ps, d, k + i)
    BY DEF ReachedIn
  <2>1. (k + s) + 1 < k + i /\ k + i <= k + e
    BY <1>0
  <2> QED BY <2>1, <1>4 DEF ReachedIn
<1>8. ReachedIn(ps, d, k + i) => ReachedIn(ps, r, i)
  <2> SUFFICES ASSUME NEW s \in Nat, NEW e \in Nat, s + 1 < k + i, k + i <= e, Occurrence(ps, d, s, e)
               PROVE  ReachedIn(ps, r, i)
    BY DEF ReachedIn
  <2>1. (s - k) + 1 < i /\ i <= e - k
    BY <1>0
  <2> QED BY <2>1, <1>3 DEF ReachedIn
<1>9. (\E e \in Nat : Occurrence(ps, r, i - 1, e))
        <=> (\E e \in Nat : Occurrence(ps, d, (k + i) - 1, e))
  <2>1. ASSUME NEW e \in Nat, Occurrence(ps, r, i - 1, e)
        PROVE  \E x \in Nat : Occurrence(ps, d, (k + i) - 1, x)
    BY <2>1, <1>4, <1>0
  <2>2. ASSUME NEW e \in Nat, Occurrence(ps, d, (k + i) - 1, e)
        PROVE  \E x \in Nat : Occurrence(ps, r, i - 1, x)
    <3>1. (k + i) - 1 \in Nat /\ k + i <= e
      BY <2>2, <1>0, OccurrenceBounds
    <3>2. ((k + i) - 1) - k = i - 1
      BY <1>0
    <3> QED BY <2>2, <3>1, <3>2, <1>3
  <2> QED BY <2>1, <2>2
<1>10. PieceIn(ps, r, i) = PieceIn(ps, d, k + i)
  BY <1>1, <1>5, <1>6, <1>7, <1>8, <1>9 DEF PieceIn, OpensIn
<1> QED BY <1>5, <1>6, <1>10 DEF r

\* What is shown is what is shown up to an uncrossed place and then the redaction
\* of the rest.
LEMMA TextSplit ==
    ASSUME NEW ps \in PatternSets, NEW d \in Seq(Alphabet), NEW k \in 0 .. Len(d),
           ~CrossedIn(ps, d, k), NEW i \in 0 .. Len(d) - k
    PROVE  TextOf(ps, d)[k + i] = TextOf(ps, d)[k] \o TextOf(ps, SubSeq(d, k + 1, Len(d)))[i]
<1> DEFINE r == SubSeq(d, k + 1, Len(d))
           T == TextOf(ps, d)
           R == TextOf(ps, r)
           n == Len(d) - k
           Split(m) == T[k + m] = T[k] \o R[m]
           S == {m \in Nat : m <= n => Split(m)}
<1>0. Len(d) \in Nat /\ k \in Nat /\ k <= Len(d) /\ n \in Nat /\ k + n = Len(d)
  BY LenProperties
<1>1. r \in Seq(Alphabet) /\ Len(r) = n
  <2>1. Len(d) \in Nat /\ Len(d) <= Len(d) /\ k \in Nat /\ k <= Len(d)
    BY <1>0
  <2>2. r \in Seq(Alphabet) /\ Len(r) = Len(d) - k
    BY <2>1, Parts
  <2> QED BY <2>2
<1>2. /\ R \in [0 .. n -> Seq(Alphabet)] /\ R[0] = <<>>
      /\ \A m \in 1 .. n : R[m] = R[m - 1] \o PieceIn(ps, r, m)
  <2> HIDE DEF r
  <2> QED BY <1>1, TextFacts
<1>3. /\ T \in [0 .. Len(d) -> Seq(Alphabet)]
      /\ \A m \in 1 .. Len(d) : T[m] = T[m - 1] \o PieceIn(ps, d, m)
  BY TextFacts
<1>4. \A m \in 1 .. n : PieceIn(ps, r, m) = PieceIn(ps, d, k + m)
  BY PieceShift
<1>5. \A m \in 1 .. n : PieceIn(ps, r, m) \in Seq(Alphabet)
  <2> HIDE DEF r
  <2> QED BY <1>1, PieceType
<1> HIDE DEF r, T, R, n
<1>6. 0 \in S
  <2>1. T[k] \in Seq(Alphabet) /\ k + 0 = k
    BY <1>0, <1>3
  <2>2. T[k] \o <<>> = T[k]
    BY <2>1, ConcatEmptySeq
  <2> QED BY <2>1, <2>2, <1>2
<1>7. ASSUME NEW m \in Nat, m \in S
      PROVE  m + 1 \in S
  <2>1. ASSUME m + 1 <= n
        PROVE  Split(m + 1)
    <3>0. m <= n
      BY <2>1, <1>0
    <3>1. T[k + m] = T[k] \o R[m]
      BY <1>7, <3>0
    <3> HIDE DEF S
    <3>2. /\ m + 1 \in 1 .. n /\ m \in 0 .. n /\ (m + 1) - 1 = m
          /\ k + (m + 1) \in 1 .. Len(d) /\ (k + (m + 1)) - 1 = k + m /\ k \in 0 .. Len(d)
      BY <1>0, <2>1
    <3>3. T[k + (m + 1)] = (T[k] \o R[m]) \o PieceIn(ps, r, m + 1)
      BY <3>1, <3>2, <1>3, <1>4
    <3>4. R[m + 1] = R[m] \o PieceIn(ps, r, m + 1)
      BY <3>2, <1>2
    <3>5. T[k] \in Seq(Alphabet) /\ R[m] \in Seq(Alphabet) /\ PieceIn(ps, r, m + 1) \in Seq(Alphabet)
      BY <3>2, <1>2, <1>3, <1>5
    <3>6. Associate(T[k], R[m], PieceIn(ps, r, m + 1))
      BY <3>5, Association
    <3>7. (T[k] \o R[m]) \o PieceIn(ps, r, m + 1) = T[k] \o (R[m] \o PieceIn(ps, r, m + 1))
      BY <3>6 DEF Associate
    <3> QED BY <3>3, <3>4, <3>7
  <2> HIDE DEF Split
  <2> QED BY <2>1
<1>8. i \in S
  <2> HIDE DEF S
  <2>1. i \in Nat
    BY <1>0
  <2> QED BY <2>1, <1>6, <1>7, Induction
<1>9. i <= n
  BY <1>0 DEF n
<1> QED BY <1>8, <1>9 DEF T, R, r

\* What is appended behind an uncrossed place does not change what is shown before.
LEMMA TextAppend ==
    ASSUME NEW ps \in PatternSets, NEW d \in Seq(Alphabet), NEW c \in Seq(Alphabet),
           NEW k \in 0 .. Len(d), ~CrossedIn(ps, d \o c, k)
    PROVE  /\ TextOf(ps, d \o c)[k] = TextOf(ps, d)[k]
           /\ \A i \in 1 .. k : CoveredIn(ps, d \o c, i) <=> CoveredIn(ps, d, i)
<1> DEFINE w == d \o c
           T == TextOf(ps, d)
           W == TextOf(ps, w)
           S == {m \in Nat : m <= k => W[m] = T[m]}
<1>0. /\ w \in Seq(Alphabet) /\ Len(w) = Len(d) + Len(c) /\ Len(d) \in Nat /\ Len(c) \in Nat
      /\ \A i \in 1 .. Len(d) : w[i] = d[i]
      /\ k \in Nat /\ k <= Len(d)
  BY ConcatProperties, LenProperties
<1>1. ASSUME NEW s \in Nat, NEW e \in Nat, s < k
      PROVE  Occurrence(ps, w, s, e) <=> Occurrence(ps, d, s, e)
  <2>1. Occurrence(ps, w, s, e) => e <= k
    BY <1>1, <1>0 DEF CrossedIn
  <2>2. Occurrence(ps, d, s, e) => e <= Len(d)
    BY OccurrenceBounds
  <2>3. e <= Len(d) => (Occurrence(ps, w, s, e) <=> Occurrence(ps, d, s, e))
    BY AppendedOccurrence
  <2> QED BY <2>1, <2>2, <2>3, <1>0
<1> HIDE DEF w
<1>2. \A i \in 1 .. k : CoveredIn(ps, w, i) <=> CoveredIn(ps, d, i)
  <2> TAKE i \in 1 .. k
  <2>1. \A s \in Nat : s < i => s < k
    BY <1>0
  <2> QED BY <2>1, <1>1 DEF CoveredIn
<1>3. \A i \in 1 .. k : PieceIn(ps, w, i) = PieceIn(ps, d, i)
  <2> TAKE i \in 1 .. k
  <2>1. \A s \in Nat : s + 1 < i => s < k
    BY <1>0
  <2>2. ReachedIn(ps, w, i) <=> ReachedIn(ps, d, i)
    BY <2>1, <1>1 DEF ReachedIn
  <2>3. i - 1 \in Nat /\ i - 1 < k
    BY <1>0
  <2>4. OpensIn(ps, w, i) <=> OpensIn(ps, d, i)
    BY <2>2, <2>3, <1>1 DEF OpensIn
  <2>5. w[i] = d[i]
    BY <1>0
  <2> QED BY <2>4, <2>5, <1>2 DEF PieceIn
<1>4. W[0] = T[0] /\ \A m \in 1 .. k : W[m] = W[m - 1] \o PieceIn(ps, w, m)
                                       /\ T[m] = T[m - 1] \o PieceIn(ps, d, m)
  <2>1. \A m \in 1 .. k : m \in 1 .. Len(d) /\ m \in 1 .. Len(w)
    BY <1>0
  <2> QED BY <2>1, <1>0, TextFacts
<1> HIDE DEF T, W
<1>5. 0 \in S
  BY <1>4
<1>6. ASSUME NEW m \in Nat, m \in S
      PROVE  m + 1 \in S
  <2> SUFFICES ASSUME m + 1 <= k
               PROVE  W[m + 1] = T[m + 1]
    OBVIOUS
  <2>1. m + 1 \in 1 .. k /\ (m + 1) - 1 = m /\ m <= k
    BY <1>0
  <2> QED BY <2>1, <1>6, <1>4, <1>3
<1>7. W[k] = T[k]
  <2> HIDE DEF S
  <2>1. k \in S
    BY <1>5, <1>6, <1>0, Induction
  <2> QED BY <2>1, <1>0 DEF S
<1> QED BY <1>2, <1>7 DEF w, T, W

(***************************************************************************)
(* Draining a sequence from an uncrossed place on.                         *)
(***************************************************************************)

\* A place is crossed in the rest of a sequence exactly when it is in the whole.
LEMMA CrossedShift ==
    ASSUME NEW ps \in PatternSets, NEW d \in Seq(Alphabet), NEW k \in 0 .. Len(d),
           ~CrossedIn(ps, d, k), NEW b \in Nat
    PROVE  CrossedIn(ps, SubSeq(d, k + 1, Len(d)), b) <=> CrossedIn(ps, d, k + b)
<1> DEFINE r == SubSeq(d, k + 1, Len(d))
<1>0. Len(d) \in Nat /\ k \in Nat /\ k <= Len(d)
  BY LenProperties
<1>1. \A s \in Nat : \A e : Occurrence(ps, r, s, e) <=> e \in Nat /\ Occurrence(ps, d, k + s, k + e)
  BY ShiftedOccurrence
<1> HIDE DEF r
<1>2. ASSUME NEW s \in Nat, NEW e \in Nat, s < b, b < e, Occurrence(ps, r, s, e)
      PROVE  CrossedIn(ps, d, k + b)
  <2>1. Occurrence(ps, d, k + s, k + e) /\ k + s < k + b /\ k + b < k + e
        /\ k + s \in Nat /\ k + e \in Nat
    BY <1>2, <1>1, <1>0
  <2> QED BY <2>1 DEF CrossedIn
<1>3. ASSUME NEW s \in Nat, NEW e \in Nat, s < k + b, k + b < e, Occurrence(ps, d, s, e)
      PROVE  CrossedIn(ps, r, b)
  <2>1. ~(s < k)
    <3>1. k < e
      BY <1>3, <1>0
    <3> QED BY <3>1, <1>3 DEF CrossedIn
  <2>2. /\ s - k \in Nat /\ e - k \in Nat /\ k + (s - k) = s /\ k + (e - k) = e
        /\ s - k < b /\ b < e - k
    BY <2>1, <1>3, <1>0
  <2>3. Occurrence(ps, r, s - k, e - k)
    BY <2>2, <1>1, <1>3
  <2> QED BY <2>2, <2>3 DEF CrossedIn
<1>4. CrossedIn(ps, r, b) <=> CrossedIn(ps, d, k + b)
  BY <1>2, <1>3 DEF CrossedIn
<1> QED BY <1>4 DEF r

\* The rest of the rest is the rest.
LEMMA RestOfRest ==
    ASSUME NEW d \in Seq(Alphabet), NEW k \in 0 .. Len(d), NEW b \in 0 .. Len(d) - k
    PROVE  LET r == SubSeq(d, k + 1, Len(d))
           IN  SubSeq(r, b + 1, Len(r)) = SubSeq(d, (k + b) + 1, Len(d))
<1> DEFINE r == SubSeq(d, k + 1, Len(d))
           x == SubSeq(r, b + 1, Len(r))
           y == SubSeq(d, (k + b) + 1, Len(d))
<1>0. /\ Len(d) \in Nat /\ k \in Nat /\ b \in Nat /\ k + b \in Nat
      /\ k <= Len(d) /\ k + b <= Len(d) /\ Len(d) <= Len(d)
  BY LenProperties
<1>1. r \in Seq(Alphabet) /\ Len(r) = Len(d) - k /\ \A i \in 1 .. Len(d) - k : r[i] = d[k + i]
  BY <1>0, Parts
<1>2. /\ y \in Seq(Alphabet) /\ Len(y) = Len(d) - (k + b)
      /\ \A i \in 1 .. Len(d) - (k + b) : y[i] = d[(k + b) + i]
  BY <1>0, Parts
<1> HIDE DEF r
<1>3. Len(r) \in Nat /\ b <= Len(r) /\ Len(r) <= Len(r)
  BY <1>0, <1>1
<1>4. x \in Seq(Alphabet) /\ Len(x) = Len(r) - b /\ \A i \in 1 .. Len(r) - b : x[i] = r[b + i]
  BY <1>0, <1>1, <1>3, Parts
<1> HIDE DEF x, y
<1>5. Len(x) = Len(y)
  BY <1>0, <1>1, <1>2, <1>4
<1>6. \A i \in 1 .. Len(x) : x[i] = y[i]
  <2> TAKE i \in 1 .. Len(x)
  <2>1. i \in 1 .. Len(r) - b /\ b + i \in 1 .. Len(d) - k /\ i \in 1 .. Len(d) - (k + b)
        /\ k + (b + i) = (k + b) + i
    BY <1>0, <1>1, <1>4
  <2> QED BY <2>1, <1>1, <1>2, <1>4
<1>7. x = y
  BY <1>2, <1>4, <1>5, <1>6, SeqEqual
<1> QED BY <1>7 DEF x, y, r

\* What is appended to a sequence is appended to its rest.
LEMMA RestAppend ==
    ASSUME NEW d \in Seq(Alphabet), NEW c \in Seq(Alphabet), NEW k \in 0 .. Len(d)
    PROVE  SubSeq(d, k + 1, Len(d)) \o c = SubSeq(d \o c, k + 1, Len(d \o c))
<1> DEFINE r == SubSeq(d, k + 1, Len(d))
           w == d \o c
           x == r \o c
           y == SubSeq(w, k + 1, Len(w))
<1>0. /\ Len(d) \in Nat /\ k \in Nat /\ k <= Len(d) /\ Len(c) \in Nat /\ Len(d) <= Len(d)
  BY LenProperties
<1>1. r \in Seq(Alphabet) /\ Len(r) = Len(d) - k /\ \A i \in 1 .. Len(d) - k : r[i] = d[k + i]
  BY <1>0, Parts
<1>2. /\ w \in Seq(Alphabet) /\ Len(w) = Len(d) + Len(c)
      /\ \A i \in 1 .. Len(d) + Len(c) : w[i] = IF i <= Len(d) THEN d[i] ELSE c[i - Len(d)]
  BY ConcatProperties
<1> HIDE DEF r, w
<1>3. Len(w) \in Nat /\ k <= Len(w) /\ Len(w) <= Len(w)
  BY <1>0, <1>2
<1>4. y \in Seq(Alphabet) /\ Len(y) = Len(w) - k /\ \A i \in 1 .. Len(w) - k : y[i] = w[k + i]
  <2>1. w \in Seq(Alphabet) /\ k \in 0 .. Len(w)
    BY <1>0, <1>2, <1>3
  <2> HIDE DEF x
  <2> QED BY <2>1, <1>3, Parts
<1>5. /\ x \in Seq(Alphabet) /\ Len(x) = Len(r) + Len(c)
      /\ \A i \in 1 .. Len(r) + Len(c) : x[i] = IF i <= Len(r) THEN r[i] ELSE c[i - Len(r)]
  BY <1>1, ConcatProperties
<1> HIDE DEF x, y
<1>6. Len(x) = Len(y)
  BY <1>0, <1>1, <1>2, <1>4, <1>5
<1>7. \A i \in 1 .. Len(x) : x[i] = y[i]
  <2> TAKE i \in 1 .. Len(x)
  <2>1. i \in 1 .. Len(r) + Len(c) /\ i \in 1 .. Len(w) - k /\ k + i \in 1 .. Len(d) + Len(c)
    BY <1>0, <1>1, <1>2, <1>5
  <2>2. y[i] = IF k + i <= Len(d) THEN d[k + i] ELSE c[(k + i) - Len(d)]
    BY <2>1, <1>2, <1>4
  <2>3. x[i] = IF i <= Len(r) THEN r[i] ELSE c[i - Len(r)]
    BY <2>1, <1>5
  <2>4. CASE i <= Len(r)
    <3>1. i \in 1 .. Len(d) - k /\ k + i <= Len(d)
      BY <2>1, <2>4, <1>0, <1>1
    <3> QED BY <3>1, <2>2, <2>3, <2>4, <1>1
  <2>5. CASE ~(i <= Len(r))
    <3>1. ~(k + i <= Len(d)) /\ (k + i) - Len(d) = i - Len(r)
      BY <2>1, <2>5, <1>0, <1>1
    <3> QED BY <3>1, <2>2, <2>3, <2>5
  <2> QED BY <2>4, <2>5
<1>8. x = y
  BY <1>4, <1>5, <1>6, <1>7, SeqEqual
<1> QED BY <1>8 DEF x, y, r, w

\* One drain of what is pending: the boundary it settles on is uncrossed in the
\* whole sequence too, what it shows continues what was shown before, and every
\* place it passes over is crossed.
LEMMA Drain ==
    ASSUME patterns \in PatternSets, NEW d \in Seq(Alphabet), NEW k \in 0 .. Len(d),
           ~CrossedIn(patterns, d, k), NEW n \in 0 .. Len(d) - k
    PROVE  LET r == SubSeq(d, k + 1, Len(d))
               b == Settle(r, n)
           IN  /\ b \in 0 .. n
               /\ ~CrossedIn(patterns, d, k + b)
               /\ SubSeq(r, b + 1, Len(r)) = SubSeq(d, (k + b) + 1, Len(d))
               /\ TextOf(patterns, d)[k + b] = TextOf(patterns, d)[k] \o RedactPrefix(r, b).text
               /\ RedactPrefix(r, b).text \in Seq(Alphabet)
               /\ RedactPrefix(r, b).replaced \in BOOLEAN
               /\ (\E i \in 1 .. k + b : CoveredIn(patterns, d, i)) <=>
                    (\E i \in 1 .. k : CoveredIn(patterns, d, i)) \/ RedactPrefix(r, b).replaced
               /\ \A x \in k + b + 1 .. k + n : CrossedIn(patterns, d, x)
<1> DEFINE r == SubSeq(d, k + 1, Len(d))
           b == Settle(r, n)
           shown == RedactPrefix(r, b)
<1>0. /\ Len(d) \in Nat /\ k \in Nat /\ k <= Len(d) /\ Len(d) <= Len(d)
      /\ n \in Nat /\ n <= Len(d) - k
  BY LenProperties
<1>1. r \in Seq(Alphabet) /\ Len(r) = Len(d) - k
  BY <1>0, Parts
<1>2. \A x \in Nat : CrossedIn(patterns, r, x) <=> CrossedIn(patterns, d, k + x)
  BY CrossedShift
<1>3. \A m \in 0 .. Len(d) - k :
        TextOf(patterns, d)[k + m] = TextOf(patterns, d)[k] \o TextOf(patterns, r)[m]
  BY TextSplit
<1>4. \A m \in 0 .. Len(d) - k : SubSeq(r, m + 1, Len(r)) = SubSeq(d, (k + m) + 1, Len(d))
  BY RestOfRest
<1>5. \A i \in 1 .. Len(d) - k : CoveredIn(patterns, r, i) <=> CoveredIn(patterns, d, k + i)
  BY PieceShift
<1> HIDE DEF r
<1>6. /\ b \in 0 .. n
      /\ ~CrossedIn(patterns, r, b)
      /\ \A x \in 0 .. n : b < x => CrossedIn(patterns, r, x)
  BY <1>0, <1>1, SettleFacts
<1> HIDE DEF b
<1>7. b \in Nat /\ b <= n /\ b \in 0 .. Len(d) - k /\ b \in 0 .. Len(r)
  BY <1>0, <1>1, <1>6
<1>8. /\ shown.text = TextOf(patterns, r)[b]
      /\ shown.replaced \in BOOLEAN
      /\ shown.replaced <=> \E i \in 1 .. b : CoveredIn(patterns, r, i)
  BY <1>1, <1>6, <1>7, RedactPrefixFacts
<1>9. shown.text \in Seq(Alphabet)
  <2>1. TextOf(patterns, r) \in [0 .. Len(r) -> Seq(Alphabet)]
    BY <1>1, TextFacts
  <2> QED BY <2>1, <1>7, <1>8
<1> HIDE DEF shown
<1>10. ~CrossedIn(patterns, d, k + b)
  BY <1>2, <1>6, <1>7
<1>11. TextOf(patterns, d)[k + b] = TextOf(patterns, d)[k] \o shown.text
  BY <1>3, <1>7, <1>8
<1>12. (\E i \in 1 .. k + b : CoveredIn(patterns, d, i)) <=>
         (\E i \in 1 .. k : CoveredIn(patterns, d, i)) \/ shown.replaced
  <2>1. ASSUME NEW i \in 1 .. k + b, CoveredIn(patterns, d, i), ~(i \in 1 .. k)
        PROVE  shown.replaced
    <3>1. i - k \in 1 .. b /\ i - k \in 1 .. Len(d) - k /\ k + (i - k) = i
      BY <2>1, <1>0, <1>7
    <3>2. CoveredIn(patterns, r, i - k)
      BY <3>1, <2>1, <1>5
    <3> QED BY <3>1, <3>2, <1>8
  <2>2. ASSUME shown.replaced
        PROVE  \E i \in 1 .. k + b : CoveredIn(patterns, d, i)
    <3>1. PICK i \in 1 .. b : CoveredIn(patterns, r, i)
      BY <2>2, <1>8
    <3>2. i \in 1 .. Len(d) - k /\ k + i \in 1 .. k + b
      BY <1>0, <1>7
    <3> QED BY <3>1, <3>2, <1>5
  <2>3. \A i \in 1 .. k : i \in 1 .. k + b
    BY <1>0, <1>7
  <2> QED BY <2>1, <2>2, <2>3
<1>13. \A x \in k + b + 1 .. k + n : CrossedIn(patterns, d, x)
  <2> TAKE x \in k + b + 1 .. k + n
  <2>1. x - k \in 0 .. n /\ x - k \in Nat /\ b < x - k /\ k + (x - k) = x
    BY <1>0, <1>7
  <2> QED BY <2>1, <1>2, <1>6
<1>14. SubSeq(r, b + 1, Len(r)) = SubSeq(d, (k + b) + 1, Len(d))
  BY <1>4, <1>7
<1> QED BY <1>6, <1>8, <1>9, <1>10, <1>11, <1>12, <1>13, <1>14 DEF shown, b, r

(***************************************************************************)
(* The limit.                                                              *)
(***************************************************************************)

\* What fits of a text.
Cut(text, n) == SubSeq(text, 1, Min({n, Len(text)}))

\* The less of two numbers.
LEMMA MinOfTwo ==
    ASSUME NEW a \in Nat, NEW b \in Nat
    PROVE  Min({a, b}) = IF a <= b THEN a ELSE b
<1>1. Min({a, b}) \in {a, b} /\ \A x \in {a, b} : Min({a, b}) <= x
  BY MinFacts
<1> QED BY <1>1

\* A cut text, symbol by symbol.
LEMMA CutFacts ==
    ASSUME NEW t \in Seq(Alphabet), NEW n \in Nat
    PROVE  /\ Cut(t, n) \in Seq(Alphabet)
           /\ Len(Cut(t, n)) = IF n <= Len(t) THEN n ELSE Len(t)
           /\ \A i \in 1 .. Len(Cut(t, n)) : Cut(t, n)[i] = t[i]
<1>0. Len(t) \in Nat
  BY LenProperties
<1> DEFINE m == Min({n, Len(t)})
<1>1. m = IF n <= Len(t) THEN n ELSE Len(t)
  BY <1>0, MinOfTwo
<1> HIDE DEF m
<1>2. m \in Nat /\ m <= Len(t) /\ 0 <= m /\ 0 \in Nat
  BY <1>0, <1>1
<1>3. /\ SubSeq(t, 0 + 1, m) \in Seq(Alphabet) /\ Len(SubSeq(t, 0 + 1, m)) = m - 0
      /\ \A i \in 1 .. m - 0 : SubSeq(t, 0 + 1, m)[i] = t[0 + i]
  BY <1>2, Parts
<1>4. Cut(t, n) = SubSeq(t, 0 + 1, m)
  BY DEF Cut, m
<1>5. m - 0 = m /\ \A i \in 1 .. m : 0 + i = i
  BY <1>2
<1> QED BY <1>1, <1>3, <1>4, <1>5

\* Cutting as one appends is cutting at the end.
LEMMA CutAppend ==
    ASSUME NEW t \in Seq(Alphabet), NEW v \in Seq(Alphabet), NEW n \in Nat
    PROVE  /\ SubSeq(Cut(t, n) \o v, 1, Min({n, Len(Cut(t, n)) + Len(v)})) = Cut(t \o v, n)
           /\ Len(t \o v) > n <=> Len(t) > n \/ Len(Cut(t, n)) + Len(v) > n
<1> DEFINE c == Cut(t, n)
           x == c \o v
           y == t \o v
<1>0. Len(t) \in Nat /\ Len(v) \in Nat
  BY LenProperties
<1>1. /\ c \in Seq(Alphabet) /\ Len(c) = IF n <= Len(t) THEN n ELSE Len(t)
      /\ \A i \in 1 .. Len(c) : c[i] = t[i]
  BY CutFacts
<1> HIDE DEF c
<1>2. /\ x \in Seq(Alphabet) /\ Len(x) = Len(c) + Len(v)
      /\ \A i \in 1 .. Len(c) + Len(v) : x[i] = IF i <= Len(c) THEN c[i] ELSE v[i - Len(c)]
  BY <1>1, ConcatProperties
<1>3. /\ y \in Seq(Alphabet) /\ Len(y) = Len(t) + Len(v)
      /\ \A i \in 1 .. Len(t) + Len(v) : y[i] = IF i <= Len(t) THEN t[i] ELSE v[i - Len(t)]
  BY ConcatProperties
<1>4. SubSeq(x, 1, Min({n, Len(c) + Len(v)})) = Cut(x, n)
  BY <1>2 DEF Cut
<1> HIDE DEF x, y
<1>5. /\ Cut(x, n) \in Seq(Alphabet)
      /\ Len(Cut(x, n)) = IF n <= Len(x) THEN n ELSE Len(x)
      /\ \A i \in 1 .. Len(Cut(x, n)) : Cut(x, n)[i] = x[i]
  BY <1>2, CutFacts
<1>6. /\ Cut(y, n) \in Seq(Alphabet)
      /\ Len(Cut(y, n)) = IF n <= Len(y) THEN n ELSE Len(y)
      /\ \A i \in 1 .. Len(Cut(y, n)) : Cut(y, n)[i] = y[i]
  BY <1>3, CutFacts
<1>7. Len(Cut(x, n)) = Len(Cut(y, n))
  BY <1>0, <1>1, <1>2, <1>3, <1>5, <1>6
<1>8. \A i \in 1 .. Len(Cut(x, n)) : Cut(x, n)[i] = Cut(y, n)[i]
  <2> TAKE i \in 1 .. Len(Cut(x, n))
  <2>1. Cut(x, n)[i] = x[i] /\ Cut(y, n)[i] = y[i]
    BY <1>5, <1>6, <1>7
  <2>2. i \in 1 .. Len(c) + Len(v) /\ i <= n /\ i \in 1 .. Len(t) + Len(v)
    BY <1>0, <1>1, <1>2, <1>3, <1>5
  <2>3. CASE n <= Len(t)
    <3>1. i <= Len(c) /\ i <= Len(t) /\ i \in 1 .. Len(c)
      BY <2>2, <2>3, <1>0, <1>1
    <3> QED BY <2>1, <2>2, <3>1, <1>1, <1>2, <1>3
  <2>4. CASE ~(n <= Len(t))
    <3>1. Len(c) = Len(t)
      BY <2>4, <1>1
    <3>2. i <= Len(c) => i \in 1 .. Len(c)
      BY <2>2, <3>1, <1>0
    <3>3. x[i] = IF i <= Len(c) THEN c[i] ELSE v[i - Len(c)]
      BY <2>2, <1>2
    <3>4. y[i] = IF i <= Len(t) THEN t[i] ELSE v[i - Len(t)]
      BY <2>2, <1>3
    <3> QED BY <2>1, <3>1, <3>2, <3>3, <3>4, <1>1
  <2> QED BY <2>3, <2>4
<1>9. Cut(x, n) = Cut(y, n)
  BY <1>5, <1>6, <1>7, <1>8, SeqEqual
<1>10. Len(y) > n <=> Len(t) > n \/ Len(c) + Len(v) > n
  BY <1>0, <1>1, <1>3
<1> QED BY <1>4, <1>9, <1>10 DEF x, y, c

(***************************************************************************)
(* The invariant of the collector.                                         *)
(***************************************************************************)

CollectorTypes ==
    /\ patterns \in PatternSets /\ limit \in Limits
    /\ output \in Seq(Symbols) /\ pending \in Seq(Alphabet) /\ excerpt \in Seq(Alphabet)
    /\ truncated \in BOOLEAN /\ redacted \in BOOLEAN /\ finished \in BOOLEAN

\* k is far enough from the end of d that an occurrence before it is complete.
FarFromEnd(ps, d, k) == k = 0 \/ \A p \in ps : k + Len(p) < Len(d)

\* Every place behind k that is far enough from the end is crossed.
AllCrossed(ps, d, k) ==
    \A x \in Nat : k < x /\ x < Len(d) /\ FarFromEnd(ps, d, x) => CrossedIn(ps, d, x)

\* An excerpt and its flag are what a limit leaves of a text.
ShownOf(shown, more, text, n) == shown = Cut(text, n) /\ (more <=> Len(text) > n)

\* What has arrived up to k has been shown, the rest is pending; k is the last
\* place where that is safe.
ReleasedTo(k) ==
    /\ pending = SubSeq(output, k + 1, Len(output))
    /\ ~CrossedIn(patterns, output, k)
    /\ FarFromEnd(patterns, output, k)
    /\ AllCrossed(patterns, output, k)
    /\ ShownOf(excerpt, truncated, TextOf(patterns, output)[k], limit)
    /\ redacted <=> \E i \in 1 .. k : CoveredIn(patterns, output, i)

CollectorInv ==
    /\ CollectorTypes
    /\ Suppressed => excerpt = <<>>
    /\ Suppressed \/ patterns = {} => pending = <<>>
    /\ ~Suppressed /\ ~finished => \E k \in 0 .. Len(output) : ReleasedTo(k)
    /\ finished => pending = <<>>
    /\ ChunksDoNotMatter

\* An uncrossed place far from the end stays uncrossed.
LEMMA StaysUncrossed ==
    ASSUME NEW ps \in PatternSets, NEW d \in Seq(Alphabet), NEW c \in Seq(Alphabet),
           NEW k \in 0 .. Len(d), ~CrossedIn(ps, d, k), FarFromEnd(ps, d, k)
    PROVE  ~CrossedIn(ps, d \o c, k)
<1> SUFFICES ASSUME NEW s \in Nat, NEW e \in Nat, s < k, k < e, Occurrence(ps, d \o c, s, e)
             PROVE  FALSE
  BY DEF CrossedIn
<1>0. Len(d) \in Nat /\ k \in Nat
  BY LenProperties
<1>1. PICK p \in ps : e = s + Len(p)
  BY DEF Occurrence
<1>2. Len(p) \in Nat
  BY Alphabets, LenProperties
<1>3. k + Len(p) < Len(d)
  BY <1>0 DEF FarFromEnd
<1>4. e <= Len(d)
  BY <1>0, <1>1, <1>2, <1>3
<1>5. Occurrence(ps, d, s, e)
  BY <1>4, AppendedOccurrence
<1> QED BY <1>5 DEF CrossedIn

\* A chunk is a sequence of symbols.
LEMMA ChunkType ==
    ASSUME NEW c \in Chunks
    PROVE  c \in Seq(Symbols) /\ c \in Seq(Alphabet)
<1>1. MaxChunk \in Nat
  BY CollectorConstants
<1>2. PICK m \in 0 .. MaxChunk : c \in [1 .. m -> Symbols]
  BY DEF Chunks, BoundedSeq, SeqOf
<1>3. c \in Seq(Symbols)
  BY <1>1, <1>2
<1> QED BY <1>3, Alphabets

\* The greater of 0 and an integer.
LEMMA MaxWithZero ==
    ASSUME NEW z \in Int
    PROVE  Max({0, z}) = IF z > 0 THEN z ELSE 0
<1>1. CASE z > 0
  <2>1. z \in {0, z} /\ \A y \in {0, z} : z >= y
    BY <1>1
  <2>2. Max({0, z}) \in {0, z} /\ \A y \in {0, z} : Max({0, z}) >= y
    BY <2>1 DEF Max
  <2> QED BY <1>1, <2>2
<1>2. CASE ~(z > 0)
  <2>1. 0 \in {0, z} /\ \A y \in {0, z} : 0 >= y
    BY <1>2
  <2>2. Max({0, z}) \in {0, z} /\ \A y \in {0, z} : Max({0, z}) >= y
    BY <2>1 DEF Max
  <2> QED BY <1>2, <2>2
<1> QED BY <1>1, <1>2

\* Show appends to what has been shown.
LEMMA ShowAppends ==
    ASSUME CollectorTypes, limit' = limit,
           NEW text \in Seq(Alphabet), NEW value \in Seq(Alphabet),
           ShownOf(excerpt, truncated, text, limit), Show(value)
    PROVE  ShownOf(excerpt', truncated', text \o value, limit) /\ excerpt' \in Seq(Alphabet) /\ truncated' \in BOOLEAN
<1>0. limit \in Nat
  BY CollectorConstants DEF CollectorTypes
<1>1. /\ excerpt = Cut(text, limit) /\ (truncated <=> Len(text) > limit)
      /\ excerpt' = SubSeq(excerpt \o value, 1, Min({limit, Len(excerpt) + Len(value)}))
      /\ truncated' = (truncated \/ Len(excerpt) + Len(value) > limit)
  BY DEF ShownOf, Show
<1>2. excerpt' = Cut(text \o value, limit)
  BY <1>0, <1>1, CutAppend
<1>3. truncated' <=> Len(text \o value) > limit
  BY <1>0, <1>1, CutAppend
<1>4. text \o value \in Seq(Alphabet)
  BY ConcatProperties
<1>5. excerpt' \in Seq(Alphabet)
  BY <1>0, <1>2, <1>4, CutFacts
<1>6. truncated' \in BOOLEAN
  BY <1>1
<1>7. ShownOf(excerpt', truncated', text \o value, limit)
  BY <1>2, <1>3 DEF ShownOf
<1> QED BY <1>5, <1>6, <1>7

\* Feeding a chunk drains up to where it is safe.
LEMMA FeedReleases ==
    ASSUME CollectorTypes, NEW chunk \in Chunks, FeedRedacting(chunk),
           NEW k \in 0 .. Len(output), ReleasedTo(k)
    PROVE  /\ CollectorTypes'
           /\ (\E j \in 0 .. Len(output) : ReleasedTo(j))'
<1> DEFINE w == output \o chunk
           r == SubSeq(w, k + 1, Len(w))
           n == StreamingBoundary(r)
           b == Settle(r, n)
           shown == RedactPrefix(r, b)
           T == TextOf(patterns, w)
<1>0. /\ patterns \in PatternSets /\ output \in Seq(Symbols) /\ output \in Seq(Alphabet)
      /\ chunk \in Seq(Symbols) /\ chunk \in Seq(Alphabet)
  BY ChunkType, Alphabets DEF CollectorTypes
<1>1. /\ w \in Seq(Symbols) /\ w \in Seq(Alphabet) /\ Len(w) = Len(output) + Len(chunk)
      /\ Len(output) \in Nat /\ Len(chunk) \in Nat /\ k \in Nat /\ k <= Len(output)
      /\ Len(w) \in Nat /\ k \in 0 .. Len(w) /\ Len(w) <= Len(w) /\ k <= Len(w)
  BY <1>0, ConcatProperties, LenProperties
<1>2. pending \o chunk = r
  BY <1>0, RestAppend DEF ReleasedTo
<1>3. /\ output' = w /\ patterns' = patterns /\ limit' = limit /\ finished' = finished /\ ~finished
      /\ Show(shown.text)
      /\ redacted' = (redacted \/ shown.replaced)
      /\ pending' = SubSeq(r, b + 1, Len(r))
  <2> HIDE DEF r
  <2> QED BY <1>2 DEF FeedRedacting, Arrive
<1>4. ~CrossedIn(patterns, w, k)
  BY <1>0, StaysUncrossed DEF ReleasedTo
<1>5. T[k] = TextOf(patterns, output)[k]
      /\ \A i \in 1 .. k : CoveredIn(patterns, w, i) <=> CoveredIn(patterns, output, i)
  BY <1>0, <1>4, TextAppend
<1>6. r \in Seq(Alphabet) /\ Len(r) = Len(w) - k
  <2> HIDE DEF w
  <2> QED BY <1>1, Parts
<1>7. /\ Longest \in Nat
      /\ \A p \in patterns : Len(p) \in Nat /\ Len(p) <= Longest
      /\ Longest = 0 \/ \E p \in patterns : Len(p) = Longest
  BY <1>0, LongestFacts
<1> HIDE DEF w
<1>8. n = IF Len(w) - k - Longest - 1 > 0 THEN Len(w) - k - Longest - 1 ELSE 0
  <2>1. Len(r) - Longest - 1 \in Int
    BY <1>1, <1>6, <1>7
  <2>2. n = Max({0, Len(r) - Longest - 1})
    BY DEF StreamingBoundary
  <2> HIDE DEF n, r
  <2> QED BY <2>1, <2>2, <1>6, MaxWithZero
<1>9. n \in 0 .. Len(w) - k
  <2> HIDE DEF n, r
  <2> QED BY <1>1, <1>7, <1>8
<1>10. /\ b \in 0 .. n
       /\ ~CrossedIn(patterns, w, k + b)
       /\ SubSeq(r, b + 1, Len(r)) = SubSeq(w, (k + b) + 1, Len(w))
       /\ T[k + b] = T[k] \o shown.text
       /\ shown.text \in Seq(Alphabet)
       /\ shown.replaced \in BOOLEAN
       /\ (\E i \in 1 .. k + b : CoveredIn(patterns, w, i)) <=>
            (\E i \in 1 .. k : CoveredIn(patterns, w, i)) \/ shown.replaced
       /\ \A x \in k + b + 1 .. k + n : CrossedIn(patterns, w, x)
  <2> HIDE DEF n
  <2> QED BY <1>0, <1>1, <1>4, <1>9, Drain
<1> HIDE DEF r, n, b, shown, T
<1>11. b \in Nat /\ b <= n /\ n \in Nat /\ n <= Len(w) - k /\ k + b \in 0 .. Len(w)
  BY <1>1, <1>9, <1>10
<1>12. FarFromEnd(patterns, w, k + b)
  <2>1. CASE b = 0
    <3>1. k = 0 \/ \A p \in patterns : k + Len(p) < Len(output)
      BY DEF ReleasedTo, FarFromEnd
    <3>2. k = 0 \/ \A p \in patterns : k + Len(p) < Len(w)
      BY <3>1, <1>1, <1>7
    <3> QED BY <3>2, <2>1, <1>1 DEF FarFromEnd
  <2>2. CASE b # 0
    <3>1. k + b <= Len(w) - Longest - 1
      BY <2>2, <1>1, <1>7, <1>8, <1>11
    <3>2. ASSUME NEW p \in patterns PROVE (k + b) + Len(p) < Len(w)
      <4>1. Len(p) \in Nat /\ Len(p) <= Longest
        BY <1>7
      <4> QED BY <3>1, <4>1, <1>1, <1>7, <1>11
    <3> QED BY <3>2 DEF FarFromEnd
  <2> QED BY <2>1, <2>2
<1>13. AllCrossed(patterns, w, k + b)
  <2> SUFFICES ASSUME NEW x \in Nat, k + b < x, x < Len(w), FarFromEnd(patterns, w, x)
               PROVE  CrossedIn(patterns, w, x)
    BY DEF AllCrossed
  <2>1. \A p \in patterns : x + Len(p) < Len(w)
    BY <1>1, <1>11 DEF FarFromEnd
  <2>2. x + Longest < Len(w)
    BY <2>1, <1>1, <1>7
  <2>3. x \in k + b + 1 .. k + n
    BY <2>2, <1>1, <1>7, <1>8, <1>11
  <2> QED BY <2>3, <1>10
<1>14. T[k] \in Seq(Alphabet)
  <2>1. T \in [0 .. Len(w) -> Seq(Alphabet)]
    BY <1>1, TextFacts DEF T
  <2> QED BY <2>1, <1>1
<1>15. ShownOf(excerpt, truncated, T[k], limit)
  BY <1>5 DEF ReleasedTo
<1>16. /\ ShownOf(excerpt', truncated', T[k] \o shown.text, limit)
       /\ excerpt' \in Seq(Alphabet) /\ truncated' \in BOOLEAN
  BY <1>3, <1>10, <1>14, <1>15, ShowAppends
<1>18. redacted' \in BOOLEAN /\ (redacted' <=> \E i \in 1 .. k + b : CoveredIn(patterns, w, i))
  <2>1. redacted <=> \E i \in 1 .. k : CoveredIn(patterns, w, i)
    BY <1>5 DEF ReleasedTo
  <2>2. redacted \in BOOLEAN
    BY DEF CollectorTypes
  <2> QED BY <2>1, <2>2, <1>3, <1>10
<1>19. PICK j \in 0 .. Len(w) : j = k + b
  BY <1>11
<1>20. ReleasedTo(j)'
  <2>1. /\ pending' = SubSeq(w, j + 1, Len(w))
        /\ ~CrossedIn(patterns, w, j) /\ FarFromEnd(patterns, w, j) /\ AllCrossed(patterns, w, j)
        /\ redacted' <=> \E i \in 1 .. j : CoveredIn(patterns, w, i)
    BY <1>3, <1>10, <1>12, <1>13, <1>18, <1>19
  <2>2. ShownOf(excerpt', truncated', TextOf(patterns, w)[j], limit)
    BY <1>10, <1>16, <1>19 DEF T
  <2> QED BY <2>1, <2>2, <1>3 DEF ReleasedTo
<1>21. pending' \in Seq(Alphabet)
  <2>1. SubSeq(w, (k + b) + 1, Len(w)) \in Seq(Alphabet)
    BY <1>1, <1>11, Parts
  <2> QED BY <2>1, <1>3, <1>10
<1>22. CollectorTypes'
  BY <1>0, <1>1, <1>3, <1>16, <1>18, <1>21 DEF CollectorTypes
<1>23. j \in (0 .. Len(output))'
  BY <1>19, <1>3
<1> QED BY <1>20, <1>22, <1>23

(***************************************************************************)
(* The end of the output.                                                  *)
(***************************************************************************)

\* Without values, a text is shown as it is.
LEMMA PlainText ==
    ASSUME NEW d \in Seq(Alphabet)
    PROVE  TextOf({}, d)[Len(d)] = d
<1> DEFINE T == TextOf({}, d)
           Same(m) == Len(T[m]) = m /\ \A i \in 1 .. m : T[m][i] = d[i]
           S == {m \in Nat : m <= Len(d) => Same(m)}
<1>0. Len(d) \in Nat
  BY LenProperties
<1>1. /\ T \in [0 .. Len(d) -> Seq(Alphabet)] /\ T[0] = <<>>
      /\ \A m \in 1 .. Len(d) : T[m] = T[m - 1] \o PieceIn({}, d, m)
  BY TextFacts
<1>2. \A m \in 1 .. Len(d) : PieceIn({}, d, m) = <<d[m]>> /\ d[m] \in Alphabet
  <2> TAKE m \in 1 .. Len(d)
  <2>1. ~OpensIn({}, d, m) /\ ~CoveredIn({}, d, m)
    BY DEF OpensIn, CoveredIn, Occurrence
  <2> QED BY <2>1, ElementOfSeq DEF PieceIn
<1> HIDE DEF T
<1>3. 0 \in S
  BY <1>1
<1>4. ASSUME NEW m \in Nat, m \in S
      PROVE  m + 1 \in S
  <2>1. ASSUME m + 1 <= Len(d)
        PROVE  Same(m + 1)
    <3>1. m + 1 \in 1 .. Len(d) /\ m \in 0 .. Len(d) /\ m <= Len(d) /\ (m + 1) - 1 = m
      BY <2>1, <1>0
    <3>2. Same(m) /\ T[m] \in Seq(Alphabet)
      BY <1>1, <1>4, <3>1
    <3> DEFINE x == T[m]
               y == <<d[m + 1]>>
    <3>3. T[m + 1] = x \o y
      BY <3>1, <1>1, <1>2
    <3>4. y \in Seq(Alphabet) /\ Len(y) = 1 /\ y[1] = d[m + 1]
      BY <3>1, <1>2
    <3>5. x \in Seq(Alphabet) /\ Len(x) = m /\ \A i \in 1 .. m : x[i] = d[i]
      BY <3>2
    <3> HIDE DEF x, y
    <3>6. /\ Len(x \o y) = Len(x) + Len(y)
          /\ \A i \in 1 .. Len(x) + Len(y) : (x \o y)[i] = IF i <= Len(x) THEN x[i] ELSE y[i - Len(x)]
      BY <3>4, <3>5, ConcatProperties
    <3>7. \A i \in 1 .. m + 1 : (x \o y)[i] = d[i]
      <4> TAKE i \in 1 .. m + 1
      <4>1. CASE i = m + 1
        <5>1. i - m = 1 /\ ~(i <= m)
          BY <4>1
        <5> QED BY <5>1, <4>1, <3>4, <3>5, <3>6
      <4>2. CASE i # m + 1
        <5>1. i \in 1 .. m /\ i <= m
          BY <4>2
        <5> QED BY <5>1, <3>4, <3>5, <3>6
      <4> QED BY <4>1, <4>2
    <3> QED BY <3>3, <3>4, <3>5, <3>6, <3>7
  <2> HIDE DEF Same
  <2> QED BY <2>1
<1>5. Same(Len(d))
  <2> HIDE DEF S
  <2>1. Len(d) \in S
    BY <1>3, <1>4, <1>0, Induction
  <2> QED BY <2>1, <1>0 DEF S
<1>6. T[Len(d)] = d
  <2>1. T[Len(d)] \in Seq(Alphabet)
    BY <1>0, <1>1
  <2> QED BY <2>1, <1>5, SeqEqual
<1> QED BY <1>6 DEF T

\* The reference definition looks for the same occurrences.
LEMMA ReferenceAgrees ==
    ASSUME patterns \in PatternSets, output \in Seq(Alphabet), NEW i \in 1 .. Len(output)
    PROVE  /\ Covered(i) <=> CoveredIn(patterns, output, i)
           /\ Opens(i) <=> OpensIn(patterns, output, i)
<1>0. Len(output) \in Nat /\ i \in Nat /\ 1 <= i /\ i - 1 \in Nat
  BY LenProperties
<1>1. \A p \in patterns : Len(p) \in Nat
  BY Alphabets, LenProperties
<1>2. ASSUME NEW p \in patterns, NEW o \in Nat, OccursAt(p, output, o)
      PROVE  /\ o + Len(p) \in Nat /\ o \in 0 .. Len(output)
             /\ Occurrence(patterns, output, o, o + Len(p))
  BY <1>0, <1>1, <1>2 DEF OccursAt, Occurrence
<1>3. Covered(i) <=> CoveredIn(patterns, output, i)
  <2>1. ASSUME NEW p \in patterns, NEW o \in 0 .. Len(output),
               OccursAt(p, output, o), i \in o + 1 .. o + Len(p)
        PROVE  CoveredIn(patterns, output, i)
    <3>1. o \in Nat /\ o < i /\ i <= o + Len(p)
      BY <2>1, <1>0, <1>1
    <3> QED BY <3>1, <2>1, <1>2 DEF CoveredIn
  <2>2. ASSUME NEW s \in Nat, NEW e \in Nat, s < i, i <= e, Occurrence(patterns, output, s, e)
        PROVE  Covered(i)
    <3>1. PICK p \in patterns : OccursAt(p, output, s) /\ e = s + Len(p)
      BY <2>2 DEF Occurrence
    <3>2. s \in 0 .. Len(output) /\ i \in s + 1 .. s + Len(p)
      BY <3>1, <2>2, <1>0, <1>1, <1>2
    <3> QED BY <3>1, <3>2 DEF Covered
  <2> QED BY <2>1, <2>2 DEF Covered, CoveredIn
<1>4. (\E p \in patterns, o \in 0 .. i - 2 : OccursAt(p, output, o) /\ o + Len(p) >= i)
        <=> ReachedIn(patterns, output, i)
  <2>1. ASSUME NEW p \in patterns, NEW o \in 0 .. i - 2, OccursAt(p, output, o), o + Len(p) >= i
        PROVE  ReachedIn(patterns, output, i)
    <3>1. o \in Nat /\ o + 1 < i /\ i <= o + Len(p)
      BY <2>1, <1>0, <1>1
    <3> QED BY <3>1, <2>1, <1>2 DEF ReachedIn
  <2>2. ASSUME NEW s \in Nat, NEW e \in Nat, s + 1 < i, i <= e, Occurrence(patterns, output, s, e)
        PROVE  \E p \in patterns, o \in 0 .. i - 2 : OccursAt(p, output, o) /\ o + Len(p) >= i
    <3>1. PICK p \in patterns : OccursAt(p, output, s) /\ e = s + Len(p)
      BY <2>2 DEF Occurrence
    <3>2. s \in 0 .. i - 2 /\ s + Len(p) >= i
      BY <3>1, <2>2, <1>0, <1>1
    <3> QED BY <3>1, <3>2
  <2> QED BY <2>1, <2>2 DEF ReachedIn
<1>5. (\E p \in patterns : OccursAt(p, output, i - 1))
        <=> \E e \in Nat : Occurrence(patterns, output, i - 1, e)
  BY <1>0, <1>2 DEF Occurrence
<1>6. Opens(i) <=> OpensIn(patterns, output, i)
  BY <1>4, <1>5 DEF Opens, OpensIn
<1> QED BY <1>3, <1>6

\* Where the tail begins: right behind the last uncrossed place before the first
\* position at which the output may have ended inside a value.
LEMMA TailFacts ==
    ASSUME patterns \in PatternSets, output \in Seq(Alphabet)
    PROVE  LET last == IF Unfinished = {} THEN Len(output) ELSE Min(Unfinished) - 1
           IN  /\ last \in 0 .. Len(output)
               /\ TailStart \in 1 .. last + 1
               /\ ~CrossedIn(patterns, output, TailStart - 1)
               /\ \A x \in TailStart .. last : CrossedIn(patterns, output, x)
               /\ TailStart = Len(output) + 1 <=> Unfinished = {}
<1>0. Len(output) \in Nat
  BY LenProperties
<1>1. CASE Unfinished = {}
  <2>1. TailStart = Len(output) + 1
    BY <1>1 DEF TailStart
  <2>2. ~CrossedIn(patterns, output, Len(output))
    BY <1>0, OccurrenceBounds DEF CrossedIn
  <2>3. TailStart - 1 = Len(output) /\ TailStart .. Len(output) = {}
    BY <2>1, <1>0
  <2> QED BY <2>1, <2>2, <2>3, <1>0, <1>1
<1>2. CASE Unfinished # {}
  <2> DEFINE first == Min(Unfinished)
             g == Settle(output, first - 1)
             S == {i \in 1 .. first : Opens(i)}
  <2>1. Unfinished \subseteq 1 .. Len(output) /\ Unfinished \subseteq Nat
    BY <1>0 DEF Unfinished
  <2>2. first \in 1 .. Len(output)
    BY <2>1, <1>2, MinFacts
  <2> HIDE DEF first
  <2>3. first \in Nat /\ first - 1 \in Nat /\ first <= Len(output)
    BY <2>2, <1>0
  <2>4. /\ g \in 0 .. first - 1 /\ ~CrossedIn(patterns, output, g)
        /\ \A x \in 0 .. first - 1 : g < x => CrossedIn(patterns, output, x)
    BY <2>3, SettleFacts
  <2> HIDE DEF g
  <2>5. g \in Nat /\ g <= first - 1 /\ g + 1 \in 1 .. first
    BY <2>3, <2>4
  <2>6. \A i \in 1 .. first : /\ Covered(i) <=> CoveredIn(patterns, output, i)
                              /\ Opens(i) <=> OpensIn(patterns, output, i)
    <3>1. \A i \in 1 .. first : i \in 1 .. Len(output)
      BY <2>3, <1>0
    <3> QED BY <3>1, ReferenceAgrees
  <2>7. first \in 1 .. first
    BY <2>2, <2>3
  <2>8. TailStart = IF Covered(first) /\ ~Opens(first) THEN Max(S) ELSE first
    BY <1>2 DEF TailStart, first
  <2>9. ReachedIn(patterns, output, first) <=> CrossedIn(patterns, output, first - 1)
    <3>1. \A s, e \in Nat : s + 1 < first /\ first <= e <=> s < first - 1 /\ first - 1 < e
      BY <2>3
    <3> QED BY <3>1 DEF ReachedIn, CrossedIn
  <2>10. Covered(first) /\ ~Opens(first) <=> CrossedIn(patterns, output, first - 1)
    <3>1. CrossedIn(patterns, output, first - 1) => CoveredIn(patterns, output, first)
      <4>1. \A s, e \in Nat : s < first - 1 /\ first - 1 < e => s < first /\ first <= e
        BY <2>3
      <4> QED BY <4>1 DEF CoveredIn, CrossedIn
    <3>2. CoveredIn(patterns, output, first) /\ ~ReachedIn(patterns, output, first) =>
            OpensIn(patterns, output, first)
      <4>1. \A s, e \in Nat : s < first /\ first <= e /\ ~(s + 1 < first) => s = first - 1
        BY <2>3
      <4> QED BY <4>1 DEF CoveredIn, ReachedIn, OpensIn
    <3> QED BY <3>1, <3>2, <2>6, <2>7, <2>9 DEF OpensIn
  <2>11. TailStart = g + 1
    <3>1. CASE CrossedIn(patterns, output, first - 1)
      <4>1. g < first - 1
        BY <3>1, <2>3, <2>4
      <4>2. CrossedIn(patterns, output, g + 1)
        BY <4>1, <2>3, <2>4, <2>5
      <4>3. PICK s \in Nat, e \in Nat : s < g + 1 /\ g + 1 < e /\ Occurrence(patterns, output, s, e)
        BY <4>2 DEF CrossedIn
      <4>4. ~(s < g)
        BY <4>3, <2>4, <2>5 DEF CrossedIn
      <4>5. s = (g + 1) - 1
        BY <4>3, <4>4, <2>5
      <4>6. ~ReachedIn(patterns, output, g + 1)
        <5>1. \A x, y \in Nat : x + 1 < g + 1 /\ g + 1 <= y => x < g /\ g < y
          BY <2>5
        <5> QED BY <5>1, <2>4 DEF ReachedIn, CrossedIn
      <4>7. Opens(g + 1)
        BY <4>3, <4>5, <4>6, <2>5, <2>6 DEF OpensIn
      <4>8. ASSUME NEW i \in 1 .. first, Opens(i)
            PROVE  i <= g + 1
        <5>1. ~ReachedIn(patterns, output, i)
          BY <4>8, <2>6 DEF OpensIn
        <5>2. ~CrossedIn(patterns, output, i - 1)
          <6>1. \A x, y \in Nat : x < i - 1 /\ i - 1 < y => x + 1 < i /\ i <= y
            BY <2>3
          <6> QED BY <6>1, <5>1 DEF ReachedIn, CrossedIn
        <5>3. i - 1 \in 0 .. first - 1
          BY <2>3
        <5> QED BY <5>2, <5>3, <2>3, <2>4, <2>5
      <4>9. g + 1 \in S /\ S \subseteq Nat /\ \A x \in S : x <= g + 1
        BY <4>7, <4>8, <2>3, <2>5
      <4>10. Max(S) \in S /\ Max(S) \in Nat /\ \A x \in S : x <= Max(S)
        <5> HIDE DEF S
        <5>1. g + 1 \in Nat
          BY <2>5
        <5> QED BY <5>1, <4>9, MaxFacts
      <4> HIDE DEF S
      <4>11. Max(S) = g + 1
        BY <4>9, <4>10, <2>5
      <4> QED BY <4>11, <3>1, <2>8, <2>10
    <3>2. CASE ~CrossedIn(patterns, output, first - 1)
      <4>1. g = first - 1
        BY <3>2, <2>3, <2>4
      <4> QED BY <4>1, <3>2, <2>3, <2>8, <2>10
    <3> QED BY <3>1, <3>2
  <2>12. TailStart \in 1 .. (first - 1) + 1 /\ TailStart - 1 = g /\ TailStart # Len(output) + 1
    BY <2>3, <2>5, <2>11, <1>0
  <2>13. \A x \in TailStart .. first - 1 : CrossedIn(patterns, output, x)
    BY <2>3, <2>4, <2>5, <2>11
  <2>14. first - 1 \in 0 .. Len(output)
    BY <2>3, <1>0
  <2> QED BY <2>12, <2>13, <2>14, <2>4, <1>2 DEF first
<1> QED BY <1>1, <1>2

\* What is left over is shown as one marker.
TailMark == IF TailStart <= Len(output) THEN Marker ELSE <<>>

\* The reference definition of the whole redaction is what TextOf says up to the
\* tail, and then the tail.
LEMMA RedactionText ==
    ASSUME patterns \in PatternSets, output \in Seq(Alphabet)
    PROVE  /\ Redaction = TextOf(patterns, output)[TailStart - 1] \o TailMark
           /\ Redaction \in Seq(Alphabet)
<1> DEFINE n == Len(output)
           t == TailStart
           T == TextOf(patterns, output)
           At(i) == IF i = t THEN Marker
                    ELSE IF i > t THEN <<>>
                    ELSE IF Opens(i) THEN Marker
                    ELSE IF Covered(i) THEN <<>> ELSE <<output[i]>>
           seqs == [i \in 1 .. n |-> At(i)]
           Is(f) == f = [i \in 1 .. Len(seqs) |-> IF i = 1 THEN seqs[i] ELSE f[i - 1] \o seqs[i]]
           w == [i \in 1 .. n |-> IF i < t THEN T[i] ELSE T[t - 1] \o Marker]
<1>0. n \in Nat
  BY LenProperties
<1>1. t \in Nat /\ 1 <= t /\ t <= n + 1
  <2>1. PICK last \in 0 .. n : t \in 1 .. last + 1
    BY TailFacts
  <2> QED BY <2>1, <1>0
<1>2. /\ T \in [0 .. n -> Seq(Alphabet)] /\ T[0] = <<>>
      /\ \A i \in 1 .. n : T[i] = T[i - 1] \o PieceIn(patterns, output, i)
  BY TextFacts
<1>3. \A i \in 1 .. n : i < t => At(i) = PieceIn(patterns, output, i)
  <2> TAKE i \in 1 .. n
  <2> HAVE i < t
  <2>1. i # t /\ ~(i > t)
    BY <1>0, <1>1
  <2>2. At(i) = IF Opens(i) THEN Marker ELSE IF Covered(i) THEN <<>> ELSE <<output[i]>>
    BY <2>1
  <2> HIDE DEF At
  <2> QED BY <2>2, ReferenceAgrees DEF PieceIn
<1>4. \A i \in 1 .. n : i > t => At(i) = <<>>
  BY <1>0, <1>1
<1>5. At(t) = Marker
  OBVIOUS
<1>6. Redaction = FlattenSeq(seqs)
  BY DEF Redaction
<1>7. Len(seqs) = n /\ \A i \in 1 .. n : seqs[i] = At(i)
  <2> HIDE DEF At, n
  <2> QED BY <1>0
<1> HIDE DEF At, t, T, n
<1>8. T[t - 1] \in Seq(Alphabet) /\ T[t - 1] \o Marker \in Seq(Alphabet)
  <2>1. t - 1 \in 0 .. n
    BY <1>0, <1>1
  <2>2. T[t - 1] \in Seq(Alphabet)
    BY <2>1, <1>2
  <2> QED BY <2>2, Alphabets, ConcatProperties
<1>9. CASE n = 0
  <2>1. t = 1 /\ t - 1 = 0
    BY <1>9, <1>1, TailFacts DEF n, t, Unfinished
  <2>2. seqs = <<>>
    BY <1>9
  <2>3. Redaction = <<>>
    BY <1>6, <1>7, <1>9, <2>2 DEF FlattenSeq
  <2>4. TailMark = <<>>
    BY <2>1, <1>9 DEF TailMark, n, t
  <2>5. <<>> \o <<>> = <<>> /\ <<>> \in Seq(Alphabet)
    BY EmptySeq, ConcatEmptySeq
  <2> QED BY <2>1, <2>3, <2>4, <2>5, <1>2 DEF T, t
<1>10. CASE n # 0
  <2> HIDE DEF seqs
  <2> DEFINE g == CHOOSE h : Is(h)
  <2>1. Redaction = g[n]
    <3>1. FlattenSeq(seqs) = IF Len(seqs) = 0 THEN seqs ELSE g[Len(seqs)]
      BY DEF FlattenSeq
    <3> HIDE DEF g
    <3> QED BY <3>1, <1>6, <1>7, <1>10
  <2>2. \A i \in 1 .. n : w[i] = IF i = 1 THEN At(i) ELSE w[i - 1] \o At(i)
    <3> TAKE i \in 1 .. n
    <3>1. CASE i = 1
      <4>1. CASE i < t
        <5>1. w[i] = T[i] /\ At(i) = PieceIn(patterns, output, i) /\ i - 1 = 0
          BY <4>1, <1>3, <3>1
        <5>2. T[i] = <<>> \o PieceIn(patterns, output, i)
          BY <5>1, <1>2
        <5>3. PieceIn(patterns, output, i) \in Seq(Alphabet)
          BY PieceType DEF n
        <5>4. <<>> \o PieceIn(patterns, output, i) = PieceIn(patterns, output, i)
          BY <5>3, ConcatEmptySeq
        <5> HIDE DEF w
        <5> QED BY <5>1, <5>2, <5>4, <3>1
      <4>2. CASE ~(i < t)
        <5>1. w[i] = T[t - 1] \o Marker /\ t = i /\ t - 1 = 0
          BY <4>2, <3>1, <1>1
        <5>2. <<>> \o Marker = Marker
          BY Alphabets, ConcatEmptySeq
        <5> HIDE DEF w
        <5> QED BY <5>1, <5>2, <1>2, <1>5, <3>1
      <4> QED BY <4>1, <4>2
    <3>2. CASE i # 1
      <4>0. i - 1 \in 1 .. n
        BY <3>2, <1>0
      <4>1. CASE i < t
        <5>1. i - 1 < t
          BY <4>1, <1>1
        <5>2. w[i] = T[i] /\ w[i - 1] = T[i - 1]
          BY <4>0, <4>1, <5>1
        <5> HIDE DEF w
        <5> QED BY <5>2, <4>1, <3>2, <1>2, <1>3
      <4>2. CASE i = t
        <5>1. i - 1 < t /\ ~(i < t)
          BY <4>2, <1>1
        <5>2. w[i] = T[t - 1] \o Marker /\ w[i - 1] = T[t - 1]
          BY <4>0, <4>2, <5>1
        <5> HIDE DEF w
        <5> QED BY <5>2, <4>2, <3>2, <1>5
      <4>3. CASE i > t
        <5>1. ~(i - 1 < t) /\ ~(i < t)
          BY <4>3, <1>1
        <5>2. w[i] = T[t - 1] \o Marker /\ w[i - 1] = T[t - 1] \o Marker
          BY <4>0, <5>1
        <5>3. (T[t - 1] \o Marker) \o <<>> = T[t - 1] \o Marker
          BY <1>8, ConcatEmptySeq
        <5> HIDE DEF w
        <5> QED BY <5>2, <5>3, <4>3, <3>2, <1>4
      <4> QED BY <4>1, <4>2, <4>3, <1>1
    <3> QED BY <3>1, <3>2
  <2>3. Is(w)
    <3>1. \A i \in 1 .. n : w[i] = IF i = 1 THEN seqs[i] ELSE w[i - 1] \o seqs[i]
      BY <2>2, <1>7
    <3>2. w = [i \in 1 .. n |-> w[i]]
      OBVIOUS
    <3> HIDE DEF w
    <3> QED BY <3>1, <3>2, <1>7
  <2>4. Is(g)
    <3> HIDE DEF Is, w
    <3> QED BY <2>3
  <2> HIDE DEF g
  <2>5. \A i \in 1 .. n : g[i] = IF i = 1 THEN At(i) ELSE g[i - 1] \o At(i)
    BY <2>4, <1>7
  <2> HIDE DEF w, Is
  <2> DEFINE S == {m \in Nat : m + 1 <= n => g[m + 1] = w[m + 1]}
  <2>6. 0 \in S
    <3>1. 0 + 1 = 1 /\ 1 \in 1 .. n
      BY <1>10, <1>0
    <3> QED BY <3>1, <2>2, <2>5
  <2>7. ASSUME NEW m \in Nat, m \in S
        PROVE  m + 1 \in S
    <3>1. ASSUME (m + 1) + 1 <= n
          PROVE  g[(m + 1) + 1] = w[(m + 1) + 1]
      <4>1. (m + 1) + 1 \in 1 .. n /\ (m + 1) + 1 # 1 /\ ((m + 1) + 1) - 1 = m + 1 /\ m + 1 <= n
        BY <3>1, <1>0
      <4>2. g[m + 1] = w[m + 1]
        BY <4>1, <2>7
      <4> HIDE DEF S
      <4> QED BY <4>1, <4>2, <2>2, <2>5
    <3> QED BY <3>1
  <2>8. g[n] = w[n]
    <3> HIDE DEF S
    <3>1. n - 1 \in Nat /\ (n - 1) + 1 = n /\ n <= n
      BY <1>0, <1>10
    <3>2. n - 1 \in S
      BY <3>1, <2>6, <2>7, Induction
    <3> QED BY <3>1, <3>2 DEF S
  <2>9. CASE t <= n
    <3>1. w[n] = T[t - 1] \o Marker
      BY <2>9, <1>0, <1>1, <1>10 DEF w
    <3>2. TailMark = Marker
      BY <2>9 DEF TailMark, t, n
    <3> QED BY <3>1, <3>2, <2>1, <2>8, <1>8 DEF T, t
  <2>10. CASE ~(t <= n)
    <3>1. t - 1 = n /\ n < t
      BY <2>10, <1>0, <1>1
    <3>2. w[n] = T[n]
      BY <3>1, <1>0, <1>10 DEF w
    <3>3. TailMark = <<>>
      BY <2>10 DEF TailMark, t, n
    <3>4. T[n] \o <<>> = T[n]
      BY <3>1, <1>8, ConcatEmptySeq
    <3> QED BY <3>1, <3>2, <3>3, <3>4, <2>1, <2>8, <1>8 DEF T, t
  <2> QED BY <2>9, <2>10
<1> QED BY <1>9, <1>10

\* At the end of the output, finish() holds back from the first position at which
\* the output may have ended inside a value.
LEMMA FinalBoundaryFacts ==
    ASSUME patterns \in PatternSets, output \in Seq(Alphabet),
           NEW k \in 0 .. Len(output), FarFromEnd(patterns, output, k)
    PROVE  k + FinalBoundary(SubSeq(output, k + 1, Len(output))) =
             IF Unfinished = {} THEN Len(output) ELSE Min(Unfinished) - 1
<1> DEFINE d == output
           r == SubSeq(d, k + 1, Len(d))
           Ends == {f \in Suffixes(r) \ {<<>>} : \E p \in patterns : IsStrictPrefix(f, p)}
           S == {Len(r) - Len(e) : e \in Ends}
<1>0. Len(d) \in Nat /\ k \in Nat /\ k <= Len(d) /\ Len(d) <= Len(d)
  BY LenProperties
<1>1. r \in Seq(Alphabet) /\ Len(r) = Len(d) - k
  BY <1>0, Parts
<1>2. \A b \in 0 .. Len(d) - k : SubSeq(r, b + 1, Len(r)) = SubSeq(d, (k + b) + 1, Len(d))
  BY RestOfRest
<1>3. FinalBoundary(r) = Min({Len(r)} \cup S)
  BY DEF FinalBoundary
<1> HIDE DEF r
<1>4. Unfinished \subseteq 1 .. Len(d) /\ Unfinished \subseteq Nat
  BY <1>0 DEF Unfinished
<1>5. ASSUME NEW i \in Unfinished
      PROVE  i \in Nat /\ k < i /\ i <= Len(d)
  <2>1. PICK p \in patterns : IsStrictPrefix(SubSeq(d, i, Len(d)), p)
    BY DEF Unfinished
  <2>2. i \in Nat /\ 1 <= i /\ i <= Len(d) /\ i - 1 \in Nat /\ (i - 1) + 1 = i /\ i - 1 <= Len(d)
    BY <1>0, <1>4
  <2>3. Len(SubSeq(d, (i - 1) + 1, Len(d))) = Len(d) - (i - 1)
    BY <2>2, <1>0, Parts
  <2>4. Len(SubSeq(d, i, Len(d))) <= Len(p)
    BY <2>1 DEF IsStrictPrefix, IsPrefix
  <2>5. Len(p) \in Nat
    BY Alphabets, LenProperties
  <2>6. k = 0 \/ k + Len(p) < Len(d)
    BY DEF FarFromEnd
  <2> QED BY <2>2, <2>3, <2>4, <2>5, <2>6, <1>0
<1>6. ASSUME NEW x \in S
      PROVE  x \in Nat /\ x < Len(r) /\ k + x + 1 \in Unfinished
  <2>1. PICK e \in Ends : x = Len(r) - Len(e)
    OBVIOUS
  <2>2. PICK l \in 1 .. Len(r) : e = SubSeq(r, l, Len(r))
    BY <2>1 DEF Suffixes
  <2>3. PICK p \in patterns : IsStrictPrefix(e, p)
    BY <2>1
  <2> HIDE DEF S, Ends
  <2>4. /\ l - 1 \in Nat /\ (l - 1) + 1 = l /\ l - 1 \in 0 .. Len(d) - k /\ Len(r) \in Nat
        /\ l - 1 <= Len(r) /\ Len(r) <= Len(r) /\ l - 1 < Len(r)
    BY <2>2, <1>0, <1>1
  <2>5. e = SubSeq(d, (k + (l - 1)) + 1, Len(d))
    BY <2>2, <2>4, <1>2
  <2>6. Len(e) = Len(r) - (l - 1)
    BY <2>2, <2>4, <1>1, Parts
  <2>7. x = l - 1
    BY <2>1, <2>4, <2>6
  <2>8. k + x + 1 \in 1 .. Len(d)
    BY <2>4, <2>7, <1>0, <1>1
  <2>9. e = SubSeq(output, k + x + 1, Len(output))
    BY <2>5, <2>7
  <2> QED BY <2>3, <2>4, <2>7, <2>8, <2>9 DEF Unfinished
<1>7. ASSUME NEW i \in Unfinished
      PROVE  i - 1 - k \in S
  <2>1. i \in Nat /\ k < i /\ i <= Len(d)
    BY <1>5
  <2> DEFINE b == i - 1 - k
             e == SubSeq(r, b + 1, Len(r))
  <2>2. /\ b \in 0 .. Len(d) - k /\ (k + b) + 1 = i /\ b + 1 \in 1 .. Len(r)
        /\ b \in Nat /\ b < Len(r) /\ Len(r) \in Nat /\ b <= Len(r) /\ Len(r) <= Len(r)
    BY <2>1, <1>0, <1>1
  <2> HIDE DEF b
  <2>3. e = SubSeq(d, i, Len(d))
    <3>1. e = SubSeq(d, (k + b) + 1, Len(d))
      BY <2>2, <1>2
    <3> QED BY <3>1, <2>2
  <2>4. PICK p \in patterns : IsStrictPrefix(e, p)
    BY <2>3 DEF Unfinished
  <2>5. Len(e) = Len(r) - b
    BY <2>2, <1>1, Parts
  <2>6. e \in Suffixes(r)
    BY <2>2 DEF Suffixes
  <2> HIDE DEF e
  <2>7. e # <<>>
    <3>1. Len(e) # 0
      BY <2>2, <2>5
    <3> QED BY <3>1, EmptySeq
  <2>8. e \in Ends /\ b = Len(r) - Len(e)
    BY <2>2, <2>4, <2>5, <2>6, <2>7
  <2> HIDE DEF Ends
  <2> QED BY <2>8 DEF b
<1> HIDE DEF S
<1>8. CASE Unfinished = {}
  <2>1. S = {}
    BY <1>6, <1>8
  <2>2. Min({Len(r)} \cup S) = Len(r)
    <3>1. {Len(r)} \cup S = {Len(r)}
      BY <2>1
    <3>2. Len(r) \in Nat
      BY <1>0, <1>1
    <3> QED BY <3>1, <3>2, MinFacts
  <2> QED BY <2>2, <1>0, <1>1, <1>3, <1>8 DEF r
<1>9. CASE Unfinished # {}
  <2> DEFINE first == Min(Unfinished)
             A == {Len(r)} \cup S
  <2>1. first \in Unfinished /\ first \in Nat /\ \A x \in Unfinished : first <= x
    BY <1>4, <1>9, MinFacts
  <2> HIDE DEF first
  <2>2. first - 1 - k \in S
    BY <2>1, <1>7
  <2>3. A \subseteq Nat /\ A # {}
    BY <1>0, <1>1, <1>6
  <2>4. Min(A) \in A /\ Min(A) \in Nat /\ \A x \in A : Min(A) <= x
    <3> HIDE DEF A
    <3> QED BY <2>3, MinFacts
  <2>5. first - 1 - k \in Nat /\ first - 1 - k < Len(r)
    BY <2>2, <1>6
  <2>6. Min(A) <= first - 1 - k
    BY <2>2, <2>4
  <2>7. Min(A) \in S
    BY <2>4, <2>5, <2>6, <1>0, <1>1
  <2>8. first <= k + Min(A) + 1
    BY <2>1, <2>7, <1>6
  <2>9. Min(A) = first - 1 - k
    BY <2>1, <2>4, <2>5, <2>6, <2>8, <1>0
  <2> QED BY <2>1, <2>9, <1>0, <1>3, <1>9 DEF first, r
<1> QED BY <1>8, <1>9

\* What the reference definition says depends on the values and the output only.
LEMMA ReferenceStays ==
    ASSUME patterns' = patterns, output' = output
    PROVE  /\ Suppressed' = Suppressed
           /\ Redaction' = Redaction
           /\ TailStart' = TailStart
           /\ \A i : Covered(i)' = Covered(i)
<1>1. Suppressed' = Suppressed
  BY DEF Suppressed
<1>2. \A i : Covered(i)' = Covered(i) /\ Opens(i)' = Opens(i)
  BY DEF Covered, Opens
<1>3. Unfinished' = Unfinished
  BY DEF Unfinished
<1>4. TailStart' = TailStart
  <2>1. \A i : Covered(i)' = Covered(i) /\ Opens(i)' = Opens(i)
    BY <1>2
  <2> QED BY <2>1, <1>3 DEF TailStart
<1>5. Redaction' = Redaction
  BY <1>2, <1>4 DEF Redaction
<1> QED BY <1>1, <1>2, <1>4, <1>5

\* finish() completes the redaction of the whole output.
LEMMA FinishCompletes ==
    ASSUME CollectorTypes, ~Suppressed, patterns # {}, Finish,
           NEW k \in 0 .. Len(output), ReleasedTo(k)
    PROVE  /\ CollectorTypes'
           /\ excerpt' = Cut(Redaction, limit)
           /\ truncated' <=> Len(Redaction) > limit
           /\ redacted' <=> \E i \in 1 .. Len(output) : Covered(i) \/ i >= TailStart
<1> DEFINE d == output
           r == SubSeq(d, k + 1, Len(d))
           n == FinalBoundary(r)
           b == Settle(r, n)
           shown == RedactPrefix(r, b)
           last == IF Unfinished = {} THEN Len(d) ELSE Min(Unfinished) - 1
           T == TextOf(patterns, d)
           rest == IF b < Len(r) THEN Marker ELSE <<>>
<1>0. /\ patterns \in PatternSets /\ output \in Seq(Alphabet)
      /\ Len(d) \in Nat /\ k \in Nat /\ k <= Len(d) /\ Len(d) <= Len(d)
  BY Alphabets, LenProperties DEF CollectorTypes
<1>1. pending = r /\ ~CrossedIn(patterns, d, k) /\ FarFromEnd(patterns, d, k)
  BY DEF ReleasedTo
<1>2. r \in Seq(Alphabet) /\ Len(r) = Len(d) - k
  BY <1>0, Parts
<1>3. k + n = last
  BY <1>0, <1>1, FinalBoundaryFacts
<1>4. /\ last \in 0 .. Len(d)
      /\ TailStart \in 1 .. last + 1
      /\ ~CrossedIn(patterns, d, TailStart - 1)
      /\ \A x \in TailStart .. last : CrossedIn(patterns, d, x)
      /\ TailStart = Len(d) + 1 <=> Unfinished = {}
  BY <1>0, TailFacts
<1>5. n \in Nat
  <2> DEFINE A == {Len(r)} \cup
                  { Len(r) - Len(e) :
                      e \in {f \in Suffixes(r) \ {<<>>} : \E p \in patterns : IsStrictPrefix(f, p)} }
  <2>1. n = Min(A)
    BY DEF FinalBoundary
  <2>2. ASSUME NEW e \in Suffixes(r) \ {<<>>}
        PROVE  Len(r) - Len(e) \in Nat
    <3> HIDE DEF r
    <3>1. PICK l \in 1 .. Len(r) : e = SubSeq(r, l, Len(r))
      BY DEF Suffixes
    <3>2. l - 1 \in Nat /\ (l - 1) + 1 = l /\ Len(r) \in Nat /\ l - 1 <= Len(r) /\ Len(r) <= Len(r)
      BY <1>0, <1>2
    <3>3. Len(SubSeq(r, (l - 1) + 1, Len(r))) = Len(r) - (l - 1)
      BY <3>2, <1>2, Parts
    <3> QED BY <3>1, <3>2, <3>3
  <2>3. A \subseteq Nat /\ A # {}
    BY <2>2, <1>0, <1>2
  <2> HIDE DEF A, n
  <2> QED BY <2>1, <2>3, MinFacts
<1> HIDE DEF n
<1>6. n \in 0 .. Len(d) - k
  <2> HIDE DEF last
  <2> QED BY <1>0, <1>3, <1>4, <1>5
<1>7. /\ b \in 0 .. n
      /\ ~CrossedIn(patterns, d, k + b)
      /\ T[k + b] = T[k] \o shown.text
      /\ shown.text \in Seq(Alphabet)
      /\ shown.replaced \in BOOLEAN
      /\ (\E i \in 1 .. k + b : CoveredIn(patterns, d, i)) <=>
           (\E i \in 1 .. k : CoveredIn(patterns, d, i)) \/ shown.replaced
      /\ \A x \in k + b + 1 .. k + n : CrossedIn(patterns, d, x)
  BY <1>0, <1>1, <1>6, Drain
<1>8. /\ finished' = TRUE /\ pending' = <<>>
      /\ Show(shown.text \o rest)
      /\ redacted' = (redacted \/ shown.replaced \/ b < Len(r))
      /\ patterns' = patterns /\ limit' = limit /\ output' = output
  <2> HIDE DEF r
  <2>1. ~(Suppressed \/ patterns = {})
    OBVIOUS
  <2> QED BY <2>1, <1>1 DEF Finish, n
<1> HIDE DEF b, shown, r, T, last
<1>9. b \in Nat /\ b <= n /\ k + b <= last /\ last <= Len(d) /\ last \in Nat /\ k + b \in 0 .. Len(d)
  BY <1>0, <1>3, <1>4, <1>6, <1>7
<1>10. TailStart \in Nat /\ 1 <= TailStart /\ TailStart <= last + 1
  BY <1>4, <1>9
<1>11. k + b = TailStart - 1
  <2>1. ~(TailStart <= k + b)
    <3>1. TailStart <= k + b => k + b \in TailStart .. last
      BY <1>9, <1>10, <1>0
    <3> QED BY <3>1, <1>4, <1>7
  <2>2. ~(k + b + 1 <= TailStart - 1)
    <3>1. k + b + 1 <= TailStart - 1 => TailStart - 1 \in k + b + 1 .. k + n
      BY <1>3, <1>5, <1>9, <1>10, <1>0
    <3> QED BY <3>1, <1>4, <1>7
  <2> QED BY <2>1, <2>2, <1>9, <1>10, <1>0
<1>12. b < Len(r) <=> TailStart <= Len(d)
  BY <1>11, <1>2, <1>9, <1>10, <1>0
<1>13. rest = TailMark /\ rest \in Seq(Alphabet)
  BY <1>12, Alphabets, EmptySeq DEF TailMark
<1> HIDE DEF rest
<1>14. Redaction = T[TailStart - 1] \o TailMark /\ Redaction \in Seq(Alphabet)
  BY <1>0, RedactionText DEF T
<1>15. T[k] \in Seq(Alphabet)
  <2>1. T \in [0 .. Len(d) -> Seq(Alphabet)]
    BY <1>0, TextFacts DEF T
  <2> QED BY <2>1, <1>0
<1>16. T[k] \o (shown.text \o rest) = Redaction
  <2>1. Associate(T[k], shown.text, rest)
    BY <1>7, <1>13, <1>15, Association
  <2> QED BY <2>1, <1>7, <1>11, <1>13, <1>14 DEF Associate
<1>17. ShownOf(excerpt, truncated, T[k], limit)
  BY DEF ReleasedTo, T
<1>18. shown.text \o rest \in Seq(Alphabet)
  BY <1>7, <1>13, ConcatProperties
<1>19. /\ ShownOf(excerpt', truncated', T[k] \o (shown.text \o rest), limit)
       /\ excerpt' \in Seq(Alphabet) /\ truncated' \in BOOLEAN
  BY <1>8, <1>15, <1>17, <1>18, ShowAppends
<1>20. excerpt' = Cut(Redaction, limit) /\ (truncated' <=> Len(Redaction) > limit)
  BY <1>16, <1>19 DEF ShownOf
<1>21. redacted' <=> (\E i \in 1 .. k + b : CoveredIn(patterns, d, i)) \/ TailStart <= Len(d)
  <2>1. redacted <=> \E i \in 1 .. k : CoveredIn(patterns, d, i)
    BY DEF ReleasedTo
  <2> QED BY <2>1, <1>7, <1>8, <1>12
<1>22. redacted' <=> \E i \in 1 .. Len(output) : Covered(i) \/ i >= TailStart
  <2>1. \A i \in 1 .. Len(output) : Covered(i) <=> CoveredIn(patterns, d, i)
    BY <1>0, ReferenceAgrees
  <2>2. CASE TailStart <= Len(d)
    <3>1. TailStart \in 1 .. Len(output) /\ TailStart >= TailStart
      BY <2>2, <1>0, <1>10
    <3> QED BY <3>1, <2>2, <1>21
  <2>3. CASE ~(TailStart <= Len(d))
    <3>1. k + b = Len(output) /\ \A i \in 1 .. Len(output) : ~(i >= TailStart)
      BY <2>3, <1>0, <1>9, <1>10, <1>11
    <3> QED BY <3>1, <2>1, <2>3, <1>21
  <2> QED BY <2>2, <2>3
<1>23. CollectorTypes'
  <2>1. redacted' \in BOOLEAN /\ pending' \in Seq(Alphabet)
    BY <1>8, EmptySeq DEF CollectorTypes
  <2> QED BY <2>1, <1>8, <1>19 DEF CollectorTypes
<1> QED BY <1>20, <1>22, <1>23

\* finish() without values leaves what was shown, which is the whole output.
LEMMA FinishPlain ==
    ASSUME CollectorTypes, patterns = {}, pending = <<>>,
           NEW k \in 0 .. Len(output), ReleasedTo(k)
    PROVE  /\ k = Len(output)
           /\ excerpt = Cut(Redaction, limit)
           /\ truncated <=> Len(Redaction) > limit
           /\ redacted <=> \E i \in 1 .. Len(output) : Covered(i) \/ i >= TailStart
<1>0. output \in Seq(Alphabet) /\ Len(output) \in Nat /\ patterns \in PatternSets
      /\ k \in Nat /\ k <= Len(output) /\ Len(output) <= Len(output)
  BY Alphabets, LenProperties DEF CollectorTypes
<1>1. k = Len(output)
  <2>1. Len(SubSeq(output, k + 1, Len(output))) = Len(output) - k
    BY <1>0, Parts
  <2>2. Len(SubSeq(output, k + 1, Len(output))) = 0
    BY EmptySeq DEF ReleasedTo
  <2> QED BY <1>0, <2>1, <2>2
<1>2. Unfinished = {}
  BY DEF Unfinished
<1>3. TailStart = Len(output) + 1
  BY <1>2 DEF TailStart
<1>4. TextOf(patterns, output)[k] = output
  BY <1>0, <1>1, PlainText
<1>5. Redaction = output
  <2>1. TailMark = <<>> /\ TailStart - 1 = k
    BY <1>0, <1>1, <1>3 DEF TailMark
  <2>2. output \o <<>> = output
    BY <1>0, ConcatEmptySeq
  <2> QED BY <1>0, <1>4, <2>1, <2>2, RedactionText
<1>6. excerpt = Cut(Redaction, limit) /\ (truncated <=> Len(Redaction) > limit)
  BY <1>4, <1>5 DEF ReleasedTo, ShownOf
<1>7. ~redacted
  BY DEF ReleasedTo, CoveredIn, Occurrence
<1>8. \A i \in 1 .. Len(output) : ~Covered(i) /\ ~(i >= TailStart)
  BY <1>0, <1>3 DEF Covered
<1> QED BY <1>1, <1>6, <1>7, <1>8

\* Without values, a chunk is shown as it arrives.
LEMMA FeedPlainReleases ==
    ASSUME CollectorTypes, NEW chunk \in Chunks, FeedPlain(chunk), pending = <<>>,
           NEW k \in 0 .. Len(output), ReleasedTo(k)
    PROVE  /\ CollectorTypes'
           /\ (\E j \in 0 .. Len(output) : ReleasedTo(j))'
<1> DEFINE w == output \o chunk
<1>0. /\ patterns \in PatternSets /\ output \in Seq(Symbols) /\ output \in Seq(Alphabet)
      /\ chunk \in Seq(Symbols) /\ chunk \in Seq(Alphabet)
  BY ChunkType, Alphabets DEF CollectorTypes
<1>1. w \in Seq(Symbols) /\ w \in Seq(Alphabet) /\ Len(w) \in Nat /\ Len(w) + 1 \in Int
  BY <1>0, ConcatProperties, LenProperties
<1>2. /\ patterns = {} /\ output' = w /\ patterns' = patterns /\ limit' = limit
      /\ finished' = finished /\ Show(chunk) /\ pending' = pending /\ redacted' = redacted
  BY DEF FeedPlain, Arrive
<1>3. ShownOf(excerpt, truncated, output, limit)
  <2>1. TextOf(patterns, output)[k] = output
    BY <1>0, <1>2, PlainText, FinishPlain
  <2> QED BY <2>1 DEF ReleasedTo
<1>4. /\ ShownOf(excerpt', truncated', w, limit)
      /\ excerpt' \in Seq(Alphabet) /\ truncated' \in BOOLEAN
  BY <1>0, <1>2, <1>3, ShowAppends
<1> HIDE DEF w
<1>5. PICK j \in 0 .. Len(w) : j = Len(w)
  BY <1>1
<1>6. ReleasedTo(j)'
  <2>1. pending' = SubSeq(w, j + 1, Len(w))
    <3>1. j + 1 \in Int /\ Len(w) \in Int /\ Len(w) < j + 1
      BY <1>1, <1>5
    <3>2. SubSeq(w, j + 1, Len(w)) = <<>>
      BY <3>1, SubSeqEmpty
    <3> QED BY <3>2, <1>2
  <2>2. ~CrossedIn(patterns, w, j) /\ FarFromEnd(patterns, w, j)
    BY <1>2 DEF CrossedIn, Occurrence, FarFromEnd
  <2>3. AllCrossed(patterns, w, j)
    BY <1>1, <1>5 DEF AllCrossed
  <2>4. ShownOf(excerpt', truncated', TextOf(patterns, w)[j], limit)
    BY <1>1, <1>2, <1>4, <1>5, PlainText
  <2>5. redacted' <=> \E i \in 1 .. j : CoveredIn(patterns, w, i)
    BY <1>2 DEF ReleasedTo, CoveredIn, Occurrence
  <2> QED BY <2>1, <2>2, <2>3, <2>4, <2>5, <1>2 DEF ReleasedTo
<1>7. CollectorTypes'
  BY <1>0, <1>1, <1>2, <1>4 DEF CollectorTypes
<1>8. j \in (0 .. Len(output))'
  BY <1>2, <1>5
<1> QED BY <1>6, <1>7, <1>8

\* The invariant holds initially.
LEMMA CollectorStarts == Init => CollectorInv
<1> SUFFICES ASSUME Init PROVE CollectorInv
  OBVIOUS
<1>0. /\ patterns \in PatternSets /\ limit \in Limits /\ limit \in Nat /\ limit # 0
      /\ pending = <<>> /\ excerpt = <<>> /\ output = <<>>
      /\ truncated = FALSE /\ redacted = FALSE /\ finished = FALSE
  BY CollectorConstants DEF Init
<1>1. CollectorTypes
  BY <1>0, EmptySeq DEF CollectorTypes
<1>2. ReleasedTo(0)
  <2>1. <<>> \in Seq(Alphabet) /\ Len(<<>>) = 0
    BY EmptySeq
  <2>2. SubSeq(<<>>, 0 + 1, 0) = <<>> /\ SubSeq(<<>>, 1, 0) = <<>>
    BY SubSeqEmpty
  <2>3. ~CrossedIn(patterns, output, 0) /\ FarFromEnd(patterns, output, 0)
    BY DEF CrossedIn, FarFromEnd
  <2>4. AllCrossed(patterns, output, 0)
    BY <1>0, <2>1 DEF AllCrossed
  <2>5. TextOf(patterns, output)[0] = <<>>
    BY <1>0, <2>1, TextFacts
  <2>6. Cut(<<>>, limit) = <<>>
    <3>1. Min({limit, 0}) = 0
      BY <1>0, MinOfTwo
    <3>2. SubSeq(<<>>, 1, 0) = <<>>
      BY SubSeqEmpty
    <3> QED BY <2>1, <3>1, <3>2 DEF Cut
  <2>7. ShownOf(excerpt, truncated, <<>>, limit)
    BY <1>0, <2>1, <2>6 DEF ShownOf
  <2> QED BY <1>0, <2>1, <2>2, <2>3, <2>4, <2>5, <2>7 DEF ReleasedTo
<1>3. 0 \in 0 .. Len(output)
  BY <1>0, EmptySeq
<1> QED BY <1>0, <1>1, <1>2, <1>3 DEF CollectorInv, ChunksDoNotMatter

\* Every operation preserves the invariant.
LEMMA CollectorContinues == CollectorInv /\ [Next]_vars => CollectorInv'
<1> SUFFICES ASSUME CollectorInv, [Next]_vars PROVE CollectorInv'
  OBVIOUS
<1>0. CollectorTypes /\ patterns \in PatternSets /\ finished \in BOOLEAN
  BY DEF CollectorInv, CollectorTypes
<1>1. ASSUME NEW chunk \in Chunks, FeedSuppressed(chunk)
      PROVE  CollectorInv'
  <2>1. /\ Suppressed /\ patterns' = patterns /\ limit' = limit /\ finished' = finished /\ ~finished
        /\ output' = output \o chunk /\ pending' = pending /\ excerpt' = excerpt
        /\ truncated' = TRUE /\ redacted' = TRUE
    BY <1>1 DEF FeedSuppressed, Arrive
  <2>2. Suppressed'
    BY <2>1 DEF Suppressed
  <2>3. output' \in Seq(Symbols)
    BY <2>1, <1>0, ChunkType, ConcatProperties DEF CollectorTypes
  <2>4. CollectorTypes'
    BY <2>1, <2>3, <1>0 DEF CollectorTypes
  <2> QED BY <2>1, <2>2, <2>4 DEF CollectorInv, ChunksDoNotMatter
<1>2. ASSUME NEW chunk \in Chunks, FeedPlain(chunk)
      PROVE  CollectorInv'
  <2>1. /\ patterns = {} /\ patterns' = patterns /\ finished' = finished /\ ~finished
        /\ pending' = pending
    BY <1>2 DEF FeedPlain, Arrive
  <2>2. ~Suppressed
    BY <2>1, CollectorConstants, FS_EmptySet DEF Suppressed
  <2>3. Suppressed' = Suppressed
    BY <2>1 DEF Suppressed
  <2>4. pending = <<>>
    BY <2>1 DEF CollectorInv
  <2>5. PICK k \in 0 .. Len(output) : ReleasedTo(k)
    BY <2>1, <2>2 DEF CollectorInv
  <2>6. CollectorTypes' /\ (\E j \in 0 .. Len(output) : ReleasedTo(j))'
    BY <1>0, <1>2, <2>4, <2>5, FeedPlainReleases
  <2> QED BY <2>1, <2>2, <2>3, <2>4, <2>6 DEF CollectorInv, ChunksDoNotMatter
<1>3. ASSUME NEW chunk \in Chunks, FeedRedacting(chunk)
      PROVE  CollectorInv'
  <2>1. /\ ~Suppressed /\ patterns # {} /\ patterns' = patterns /\ finished' = finished /\ ~finished
    BY <1>3 DEF FeedRedacting, Arrive
  <2>2. Suppressed' = Suppressed
    BY <2>1 DEF Suppressed
  <2>3. PICK k \in 0 .. Len(output) : ReleasedTo(k)
    BY <2>1 DEF CollectorInv
  <2>4. CollectorTypes' /\ (\E j \in 0 .. Len(output) : ReleasedTo(j))'
    BY <1>0, <1>3, <2>3, FeedReleases
  <2> QED BY <2>1, <2>2, <2>4 DEF CollectorInv, ChunksDoNotMatter
<1>4. ASSUME Finish
      PROVE  CollectorInv'
  <2>1. /\ patterns' = patterns /\ limit' = limit /\ output' = output
        /\ ~finished /\ finished' = TRUE /\ pending' = <<>>
    BY <1>4 DEF Finish
  <2>2. /\ Suppressed' = Suppressed /\ Redaction' = Redaction /\ TailStart' = TailStart
        /\ \A i : Covered(i)' = Covered(i)
    BY <2>1, ReferenceStays
  <2>3. CASE Suppressed
    <3>1. UNCHANGED <<excerpt, truncated, redacted>>
      BY <1>4, <2>3 DEF Finish
    <3>2. CollectorTypes'
      BY <3>1, <2>1, <1>0, EmptySeq DEF CollectorTypes
    <3> QED BY <3>1, <3>2, <2>1, <2>2, <2>3 DEF CollectorInv, ChunksDoNotMatter
  <2>4. CASE ~Suppressed
    <3>1. PICK k \in 0 .. Len(output) : ReleasedTo(k)
      BY <2>1, <2>4 DEF CollectorInv
    <3>2. /\ CollectorTypes'
          /\ excerpt' = Cut(Redaction, limit)
          /\ truncated' <=> Len(Redaction) > limit
          /\ redacted' <=> \E i \in 1 .. Len(output) : Covered(i) \/ i >= TailStart
      <4>1. CASE patterns = {}
        <5>1. UNCHANGED <<excerpt, truncated, redacted>>
          BY <1>4, <4>1 DEF Finish
        <5>2. pending = <<>>
          BY <4>1 DEF CollectorInv
        <5>3. CollectorTypes'
          BY <5>1, <2>1, <1>0, EmptySeq DEF CollectorTypes
        <5> QED BY <5>1, <5>2, <5>3, <4>1, <3>1, <1>0, FinishPlain
      <4>2. CASE patterns # {}
        BY <4>2, <3>1, <2>4, <1>0, <1>4, FinishCompletes
      <4> QED BY <4>1, <4>2
    <3>3. ChunksDoNotMatter'
      BY <3>2, <2>1, <2>2 DEF ChunksDoNotMatter, Cut
    <3> QED BY <3>2, <3>3, <2>1, <2>2, <2>4 DEF CollectorInv
  <2> QED BY <2>3, <2>4
<1>5. CASE UNCHANGED vars
  <2>1. /\ patterns' = patterns /\ limit' = limit /\ output' = output /\ finished' = finished
        /\ pending' = pending /\ excerpt' = excerpt /\ truncated' = truncated /\ redacted' = redacted
    BY <1>5 DEF vars
  <2>2. /\ Suppressed' = Suppressed /\ Redaction' = Redaction /\ TailStart' = TailStart
        /\ \A i : Covered(i)' = Covered(i)
    BY <2>1, ReferenceStays
  <2>3. ChunksDoNotMatter' = ChunksDoNotMatter
    BY <2>1, <2>2 DEF ChunksDoNotMatter
  <2>4. CollectorTypes'
    BY <2>1, <1>0 DEF CollectorTypes
  <2>5. \A k : ReleasedTo(k)' = ReleasedTo(k)
    BY <2>1 DEF ReleasedTo
  <2> QED BY <2>1, <2>2, <2>3, <2>4, <2>5 DEF CollectorInv
<1> QED BY <1>1, <1>2, <1>3, <1>4, <1>5 DEF Next

\* The invariant of the collector.
LEMMA CollectorInvariant == Spec => []CollectorInv
BY CollectorStarts, CollectorContinues, PTL DEF Spec

\* Chunking does not matter: what has been shown at the end is the redaction of
\* the whole output at once, cut at the limit, with flags that say so, for every
\* marker, values, chunks and limits.
THEOREM CollectorIgnoresChunks == Spec => []ChunksDoNotMatter
<1>1. CollectorInv => ChunksDoNotMatter
  BY DEF CollectorInv
<1> QED BY <1>1, CollectorInvariant, PTL

\* The part that nothing is withheld needlessly rests on: a place in what is
\* pending that is far enough from its end is crossed.
LEMMA PendingIsCrossed ==
    ASSUME CollectorTypes, NEW k \in 0 .. Len(output), ReleasedTo(k),
           NEW b \in 1 .. Len(pending) - Longest - 1
    PROVE  \E m \in Matches(pending) : m.start < b /\ m.end > b
<1>0. /\ patterns \in PatternSets /\ output \in Seq(Alphabet)
      /\ Len(output) \in Nat /\ k \in Nat /\ k <= Len(output)
  BY Alphabets, LenProperties DEF CollectorTypes
<1>1. /\ pending = SubSeq(output, k + 1, Len(output)) /\ pending \in Seq(Alphabet)
      /\ Len(pending) = Len(output) - k
  BY <1>0, Parts DEF ReleasedTo
<1>2. Longest \in Nat /\ \A p \in patterns : Len(p) \in Nat /\ Len(p) <= Longest
  BY <1>0, LongestFacts
<1>3. b \in Nat /\ k + b \in Nat /\ k < k + b /\ k + b < Len(output)
  BY <1>0, <1>1, <1>2
<1>4. FarFromEnd(patterns, output, k + b)
  BY <1>0, <1>1, <1>2, <1>3 DEF FarFromEnd
<1>5. CrossedIn(patterns, output, k + b)
  <2>1. AllCrossed(patterns, output, k)
    BY DEF ReleasedTo
  <2> QED BY <1>3, <1>4, <2>1 DEF AllCrossed
<1>6. CrossedIn(patterns, pending, b)
  <2>1. ~CrossedIn(patterns, output, k)
    BY DEF ReleasedTo
  <2> QED BY <1>0, <1>1, <1>3, <1>5, <2>1, CrossedShift
<1> QED BY <1>0, <1>1, <1>3, <1>6, Crossings

\* Nothing is withheld needlessly: what is held back is a tail of one value's
\* length and, before it, a run of overlapping values, whatever arrives.
THEOREM CollectorWithholdsOnlyTails == Spec => []NothingWithheldNeedlessly
<1>1. CollectorInv => NothingWithheldNeedlessly
  <2> SUFFICES ASSUME CollectorInv, NEW b \in 1 .. Len(pending) - Longest - 1
               PROVE  \E m \in Matches(pending) : m.start < b /\ m.end > b
    BY DEF NothingWithheldNeedlessly
  <2>1. CollectorTypes /\ patterns \in PatternSets
    BY DEF CollectorInv, CollectorTypes
  <2>2. pending # <<>>
    <3>1. Longest \in Nat
      BY <2>1, LongestFacts
    <3> QED BY <3>1, EmptySeq
  <2>3. PICK k \in 0 .. Len(output) : ReleasedTo(k)
    BY <2>2 DEF CollectorInv
  <2> QED BY <2>1, <2>3, PendingIsCrossed
<1> QED BY <1>1, CollectorInvariant, PTL

(***************************************************************************)
(* No value is put together by what is shown.                              *)
(***************************************************************************)

\* No value of ps occurs in x, and none overlaps the marker.
Clean(ps, x) == \A p \in ps : \A s \in Nat : ~OccursAt(p, x, s)
Apart(ps) == \A p \in ps : ~Overlaps(Marker, p)

\* x ends with the positions j + 1 .. n of d, which nothing covers, and before
\* them with a marker, or it is nothing else.
EndsPlain(ps, x, d, n, j) ==
    /\ n - j <= Len(x)
    /\ \A i \in 1 .. n - j : x[(Len(x) - (n - j)) + i] = d[j + i]
    /\ \A i \in j + 1 .. n : ~CoveredIn(ps, d, i)
    /\ \/ j = 0 /\ Len(x) = n
       \/ /\ Len(Marker) + (n - j) <= Len(x)
          /\ \A i \in 1 .. Len(Marker) :
               x[(Len(x) - (n - j) - Len(Marker)) + i] = Marker[i]

\* To be within is to occur somewhere.
LEMMA WithinOccurs ==
    ASSUME NEW x \in Seq(Alphabet), NEW p \in Seq(Alphabet), p # <<>>
    PROVE  IsWithin(x, p) <=> \E s \in Nat : OccursAt(p, x, s)
<1>0. Len(x) \in Nat /\ Len(p) \in Nat \ {0}
  BY LenProperties, EmptySeq
<1>1. ASSUME IsWithin(x, p)
      PROVE  \E s \in Nat : OccursAt(p, x, s)
  <2>1. PICK i \in 0 .. Len(x), j \in 0 .. Len(x) : p = SubSeq(x, i + 1, j)
    BY <1>1 DEF IsWithin, SubSeqs
  <2>2. i < j
    <3>1. i + 1 \in Int /\ j \in Int
      BY <1>0, <2>1
    <3>2. ~(j < i + 1)
      BY <2>1, <3>1, SubSeqEmpty
    <3> QED BY <1>0, <3>2
  <2>3. i \in Nat /\ j \in Nat /\ j <= Len(x) /\ i <= j
    BY <1>0, <2>2
  <2>4. Len(p) = j - i
    BY <2>1, <2>3, Parts
  <2>5. i + Len(p) = j
    BY <2>3, <2>4
  <2> QED BY <2>1, <2>3, <2>5 DEF OccursAt
<1>2. ASSUME NEW s \in Nat, OccursAt(p, x, s)
      PROVE  IsWithin(x, p)
  <2>1. s \in 0 .. Len(x) /\ s + Len(p) \in 0 .. Len(x) /\ p = SubSeq(x, s + 1, s + Len(p))
    BY <1>0, <1>2 DEF OccursAt
  <2> QED BY <2>1 DEF IsWithin, SubSeqs
<1> QED BY <1>1, <1>2

\* Where the end of one sequence is the beginning of another.
LEMMA EndMeetsBeginning ==
    ASSUME NEW a \in Seq(Alphabet), NEW b \in Seq(Alphabet), NEW r \in Nat, 1 <= r,
           r <= Len(a), r <= Len(b), \A i \in 1 .. r : a[(Len(a) - r) + i] = b[i]
    PROVE  \E e \in Suffixes(a) \cap Prefixes(b) : e # <<>>
<1>0. Len(a) \in Nat /\ Len(b) \in Nat /\ Len(a) - r \in Nat
  BY LenProperties
<1> DEFINE m == Len(a) - r
           x == SubSeq(a, m + 1, Len(a))
           y == SubSeq(b, 0 + 1, r)
<1>1. m \in Nat /\ m <= Len(a) /\ Len(a) - m = r /\ 0 \in Nat /\ r - 0 = r
  BY <1>0
<1>2. x \in Seq(Alphabet) /\ Len(x) = r /\ \A i \in 1 .. r : x[i] = a[m + i]
  <2> HIDE DEF m
  <2> QED BY <1>0, <1>1, Parts
<1>3. y \in Seq(Alphabet) /\ Len(y) = r /\ \A i \in 1 .. r : y[i] = b[0 + i]
  BY <1>1, Parts
<1>4. x \in Suffixes(a)
  <2>1. m + 1 \in 1 .. Len(a)
    BY <1>0, <1>1
  <2> QED BY <2>1 DEF Suffixes
<1>5. y \in Prefixes(b)
  <2>1. r \in 0 .. Len(b)
    BY <1>0
  <2> QED BY <2>1 DEF Prefixes
<1>6. \A i \in 1 .. r : 0 + i = i
  OBVIOUS
<1> HIDE DEF x, y
<1>7. \A i \in 1 .. r : x[i] = y[i]
  BY <1>2, <1>3, <1>6 DEF m
<1>8. x = y
  BY <1>2, <1>3, <1>7, SeqEqual
<1>9. x # <<>>
  BY <1>2, EmptySeq
<1> QED BY <1>4, <1>5, <1>8, <1>9

\* A value apart from the marker is not in it, does not hold it, and neither
\* ends with the beginning of the other.
LEMMA MarkerApart ==
    ASSUME NEW p \in Seq(Alphabet), p # <<>>, ~Overlaps(Marker, p)
    PROVE  /\ \A s \in Nat : ~OccursAt(p, Marker, s) /\ ~OccursAt(Marker, p, s)
           /\ \A r \in Nat : 1 <= r /\ r <= Len(Marker) /\ r <= Len(p) =>
                /\ ~ \A i \in 1 .. r : Marker[(Len(Marker) - r) + i] = p[i]
                /\ ~ \A i \in 1 .. r : p[(Len(p) - r) + i] = Marker[i]
<1>0. Marker \in Seq(Alphabet) /\ Marker # <<>>
  BY Alphabets
<1>1. ~IsWithin(Marker, p) /\ ~IsWithin(p, Marker)
  BY DEF Overlaps
<1>2. /\ ~ \E e \in Suffixes(Marker) \cap Prefixes(p) : e # <<>>
      /\ ~ \E e \in Suffixes(p) \cap Prefixes(Marker) : e # <<>>
  BY DEF Overlaps
<1>3. \A s \in Nat : ~OccursAt(p, Marker, s) /\ ~OccursAt(Marker, p, s)
  BY <1>0, <1>1, WithinOccurs
<1> QED BY <1>0, <1>2, <1>3, EndMeetsBeginning

\* A marker completes no value.
LEMMA MarkerStaysClean ==
    ASSUME NEW ps \in PatternSets, Apart(ps), NEW x \in Seq(Alphabet), Clean(ps, x)
    PROVE  x \o Marker \in Seq(Alphabet) /\ Clean(ps, x \o Marker)
<1>0. /\ Marker \in Seq(Alphabet) /\ Len(Marker) \in Nat /\ Len(x) \in Nat
      /\ x \o Marker \in Seq(Alphabet) /\ Len(x \o Marker) = Len(x) + Len(Marker)
      /\ \A i \in 1 .. Len(x) : (x \o Marker)[i] = x[i]
      /\ \A i \in 1 .. Len(Marker) : (x \o Marker)[Len(x) + i] = Marker[i]
  BY Alphabets, ConcatProperties, LenProperties
<1>1. SUFFICES ASSUME NEW p \in ps, NEW s \in Nat, OccursAt(p, x \o Marker, s)
               PROVE  FALSE
  BY <1>0 DEF Clean
<1>2. p \in Seq(Alphabet) /\ p # <<>> /\ Len(p) \in Nat \ {0} /\ ~Overlaps(Marker, p)
  BY Alphabets, LenProperties, EmptySeq DEF Apart
<1>3. /\ s + Len(p) <= Len(x) + Len(Marker)
      /\ \A i \in 1 .. Len(p) : (x \o Marker)[s + i] = p[i]
  BY <1>0, <1>1, <1>2, OccursPointwise
<1> DEFINE w == x \o Marker
<1> HIDE DEF w
<1>4. CASE s + Len(p) <= Len(x)
  <2>1. \A i \in 1 .. Len(p) : x[s + i] = p[i]
    <3> TAKE i \in 1 .. Len(p)
    <3>1. s + i \in 1 .. Len(x)
      BY <1>2, <1>4, <1>0
    <3> QED BY <3>1, <1>0, <1>3
  <2>2. OccursAt(p, x, s)
    BY <2>1, <1>2, <1>4, OccursPointwise
  <2> QED BY <2>2 DEF Clean
<1>5. CASE Len(x) <= s
  <2>1. PICK t \in Nat : t = s - Len(x)
    <3>1. s - Len(x) \in Nat
        BY <1>0, <1>5
    <3> QED BY <3>1
  <2>2. \A i \in 1 .. Len(p) : Marker[t + i] = p[i]
    <3> TAKE i \in 1 .. Len(p)
    <3>1. t + i \in 1 .. Len(Marker) /\ Len(x) + (t + i) = s + i
      BY <1>0, <1>2, <1>3, <2>1
    <3>2. (x \o Marker)[Len(x) + (t + i)] = Marker[t + i]
      BY <1>0, <3>1
    <3> QED BY <3>1, <3>2, <1>3
  <2>3. t + Len(p) <= Len(Marker)
    BY <1>0, <1>2, <1>3, <2>1
  <2>4. OccursAt(p, Marker, t)
    BY <1>0, <1>2, <2>1, <2>2, <2>3, OccursPointwise
  <2> QED BY <1>2, <2>4, MarkerApart
<1>6. CASE s < Len(x) /\ Len(x) < s + Len(p)
  <2>1. PICK r \in Nat : r = (s + Len(p)) - Len(x)
    <3>1. (s + Len(p)) - Len(x) \in Nat
        BY <1>0, <1>2, <1>6
    <3> QED BY <3>1
  <2>2. 1 <= r /\ r <= Len(Marker) /\ r <= Len(p)
    BY <1>0, <1>2, <1>3, <1>6, <2>1
  <2>3. \A i \in 1 .. r : p[(Len(p) - r) + i] = Marker[i]
    <3> TAKE i \in 1 .. r
    <3>1. /\ i \in 1 .. Len(Marker) /\ (Len(p) - r) + i \in 1 .. Len(p)
          /\ s + ((Len(p) - r) + i) = Len(x) + i
      BY <1>0, <1>2, <2>1, <2>2
    <3>2. (x \o Marker)[s + ((Len(p) - r) + i)] = p[(Len(p) - r) + i]
      BY <1>3, <3>1
    <3>3. (x \o Marker)[Len(x) + i] = Marker[i]
      BY <1>0, <3>1
    <3> QED BY <3>1, <3>2, <3>3
  <2> QED BY <1>2, <2>1, <2>2, <2>3, MarkerApart
<1> QED BY <1>0, <1>2, <1>4, <1>5, <1>6

\* A symbol that nothing covers completes no value either: one that ends with it
\* would be in the data, or would reach into the marker before.
LEMMA SymbolStaysClean ==
    ASSUME NEW ps \in PatternSets, Apart(ps), NEW d \in Seq(Alphabet),
           NEW n \in 1 .. Len(d), NEW j \in 0 .. n, ~CoveredIn(ps, d, n),
           NEW x \in Seq(Alphabet), EndsPlain(ps, x, d, n, j), Len(x) >= 1,
           NEW p \in ps, NEW s \in Nat, OccursAt(p, x, s), s + Len(p) = Len(x)
    PROVE  FALSE
<1>0. /\ Marker \in Seq(Alphabet) /\ Len(Marker) \in Nat /\ Len(x) \in Nat /\ Len(d) \in Nat
      /\ p \in Seq(Alphabet) /\ p # <<>> /\ Len(p) \in Nat \ {0} /\ ~Overlaps(Marker, p)
      /\ n \in Nat /\ j \in Nat /\ j <= n /\ n <= Len(d)
  BY Alphabets, LenProperties, EmptySeq DEF Apart
<1>1. \A i \in 1 .. Len(p) : x[s + i] = p[i]
  BY <1>0, OccursPointwise
<1>2. PICK u \in Nat : u = n - j
  <2>1. n - j \in Nat
      BY <1>0
  <2> QED BY <2>1
<1>3. /\ u <= Len(x)
      /\ \A i \in 1 .. u : x[(Len(x) - u) + i] = d[j + i]
      /\ \/ j = 0 /\ Len(x) = n
         \/ /\ Len(Marker) + u <= Len(x)
            /\ \A i \in 1 .. Len(Marker) : x[(Len(x) - u - Len(Marker)) + i] = Marker[i]
  BY <1>2 DEF EndsPlain
<1> DEFINE lx == Len(x)
           lp == Len(p)
           lm == Len(Marker)
<1>6. /\ lx \in Nat /\ lp \in Nat /\ lm \in Nat /\ s \in Nat /\ s + lp = lx
      /\ lx = Len(x) /\ lp = Len(p) /\ lm = Len(Marker)
  BY <1>0
<1> HIDE DEF lx, lp, lm
<1>4. CASE Len(p) <= u
  <2>1. PICK o \in Nat : o = n - Len(p)
    <3>1. n - Len(p) \in Nat
        BY <1>0, <1>2, <1>4
    <3> QED BY <3>1
  <2>2. \A i \in 1 .. Len(p) : d[o + i] = p[i]
    <3> TAKE i \in 1 .. Len(p)
    <3>1. PICK k \in 1 .. u : k = (u - Len(p)) + i
      <4>1. (u - Len(p)) + i \in 1 .. u
          BY <1>0, <1>2, <1>4
      <4> QED BY <4>1
    <3>2. j + k = o + i
      BY <1>0, <1>2, <2>1, <3>1
    <3>3. (lx - u) + k = s + i
      <4>1. k = (u - lp) + i /\ i \in Int
        BY <1>0, <1>6, <3>1
      <4>2. s + lp = lx /\ s \in Int /\ lp \in Int /\ lx \in Int /\ u \in Int
        BY <1>2, <1>6
      <4> QED BY <4>1, <4>2
    <3>4. x[(lx - u) + k] = d[j + k]
      BY <1>3, <1>6, <3>1
    <3> QED BY <1>1, <3>2, <3>3, <3>4
  <2>3. o + Len(p) = n
    BY <1>0, <2>1
  <2>4. OccursAt(p, d, o)
    BY <1>0, <2>1, <2>2, <2>3, OccursPointwise
  <2>5. Occurrence(ps, d, o, n)
    BY <2>3, <2>4 DEF Occurrence
  <2>6. o < n
    BY <1>0, <2>3, <2>1
  <2> QED BY <1>0, <2>1, <2>5, <2>6 DEF CoveredIn
<1>5. CASE u < Len(p)
  <2>1. PICK r \in Nat : r = Len(p) - u
    <3>1. Len(p) - u \in Nat
        BY <1>0, <1>2, <1>5
    <3> QED BY <3>1
  <2>2. 1 <= r /\ r <= Len(p) /\ s + r = lx - u
    <3>1. r = lp - u /\ u < lp /\ u \in Nat
      BY <1>6, <1>5, <2>1
    <3>2. 1 <= r /\ r <= lp /\ s + r = lx - u
      BY <1>6, <3>1
    <3> QED BY <1>6, <3>2
  <2>3. /\ Len(Marker) + u <= Len(x)
        /\ \A i \in 1 .. Len(Marker) : x[(Len(x) - u - Len(Marker)) + i] = Marker[i]
    <3>1. ~(j = 0 /\ Len(x) = n)
      BY <1>0, <1>2, <1>5
    <3> QED BY <1>3, <3>1
  <2>4. CASE r <= Len(Marker)
    <3>1. \A i \in 1 .. r : Marker[(Len(Marker) - r) + i] = p[i]
      <4> TAKE i \in 1 .. r
      <4>1. PICK k \in 1 .. Len(Marker) : k = (Len(Marker) - r) + i
        <5>1. (Len(Marker) - r) + i \in 1 .. Len(Marker)
            BY <1>0, <2>1, <2>4
        <5> QED BY <5>1
      <4>2. (lx - u - lm) + k = s + i
        <5>1. k = (lm - r) + i /\ i \in Int
          BY <1>6, <4>1
        <5>2. s + r = lx - u /\ r \in Int /\ s \in Int /\ lx \in Int
              /\ u \in Int /\ lm \in Int
          BY <1>2, <1>6, <2>1, <2>2
        <5> QED BY <5>1, <5>2
      <4>3. i \in 1 .. Len(p)
        BY <1>0, <2>2
      <4> QED BY <1>1, <1>6, <2>3, <4>1, <4>2, <4>3
    <3> QED BY <1>0, <2>1, <2>2, <2>4, <3>1, MarkerApart
  <2>5. CASE Len(Marker) < r
    <3>1. PICK o \in Nat : o = r - Len(Marker)
      <4>1. r - Len(Marker) \in Nat
          BY <1>0, <2>1, <2>5
      <4> QED BY <4>1
    <3>2. \A i \in 1 .. Len(Marker) : p[o + i] = Marker[i]
      <4> TAKE i \in 1 .. Len(Marker)
      <4>1. o + i \in 1 .. Len(p)
        BY <1>0, <2>2, <3>1
      <4>2. (lx - u - lm) + i = s + (o + i)
        <5>1. o = r - lm /\ o \in Int /\ i \in Int
          BY <1>6, <3>1
        <5>2. s + r = lx - u /\ r \in Int /\ s \in Int /\ lx \in Int
              /\ u \in Int /\ lm \in Int
          BY <1>2, <1>6, <2>1, <2>2
        <5> QED BY <5>1, <5>2
      <4> QED BY <1>1, <1>6, <2>3, <4>1, <4>2
    <3>3. o + Len(Marker) <= Len(p)
      BY <1>0, <2>2, <3>1
    <3>4. OccursAt(Marker, p, o)
      BY <1>0, <3>1, <3>2, <3>3, OccursPointwise
    <3> QED BY <1>0, <3>1, <3>4, MarkerApart
  <2> QED BY <1>0, <2>1, <2>4, <2>5
<1> QED BY <1>0, <1>2, <1>4, <1>5

\* What is shown for the first n positions of the data, by induction on n.
LEMMA TextClean ==
    ASSUME NEW ps \in PatternSets, Apart(ps), NEW d \in Seq(Alphabet)
    PROVE  \A n \in 0 .. Len(d) : Clean(ps, TextOf(ps, d)[n])
<1> DEFINE T == TextOf(ps, d)
           Good(n) == Clean(ps, T[n]) /\ \E j \in 0 .. n : EndsPlain(ps, T[n], d, n, j)
           S == {n \in Nat : n <= Len(d) => Good(n)}
<1>0. /\ Len(d) \in Nat /\ Marker \in Seq(Alphabet) /\ Len(Marker) \in Nat
      /\ T[0] = <<>> /\ \A n \in 0 .. Len(d) : T[n] \in Seq(Alphabet)
      /\ \A n \in 1 .. Len(d) : T[n] = T[n - 1] \o PieceIn(ps, d, n)
  <2>1. Len(d) \in Nat /\ Marker \in Seq(Alphabet) /\ Len(Marker) \in Nat
    BY Alphabets, LenProperties
  <2>2. /\ T \in [0 .. Len(d) -> Seq(Alphabet)] /\ T[0] = <<>>
        /\ \A n \in 1 .. Len(d) : T[n] = T[n - 1] \o PieceIn(ps, d, n)
    BY TextFacts
  <2> HIDE DEF T
  <2> QED BY <2>1, <2>2
<1> HIDE DEF T
<1>1. 0 \in S
  <2>1. Clean(ps, T[0])
    <3> SUFFICES ASSUME NEW p \in ps, NEW s \in Nat, OccursAt(p, <<>>, s) PROVE FALSE
      BY <1>0 DEF Clean
    <3>1. Len(p) \in Nat \ {0} /\ Len(<<>>) = 0
      BY Alphabets, LenProperties, EmptySeq
    <3> QED BY <3>1 DEF OccursAt
  <2>2. EndsPlain(ps, T[0], d, 0, 0)
    <3>1. Len(T[0]) = 0
      BY <1>0, EmptySeq
    <3> QED BY <3>1 DEF EndsPlain
  <2> QED BY <2>1, <2>2
<1>2. ASSUME NEW m \in Nat, m \in S
      PROVE  m + 1 \in S
  <2> SUFFICES ASSUME m + 1 <= Len(d) PROVE Good(m + 1)
    OBVIOUS
  <2> DEFINE n == m + 1
  <2>1. n \in 1 .. Len(d) /\ n \in Nat /\ n - 1 = m /\ m < n /\ m <= Len(d) /\ m \in 0 .. Len(d)
    BY <1>0
  <2> HIDE DEF n
  <2>2. PICK j \in 0 .. m : Clean(ps, T[m]) /\ EndsPlain(ps, T[m], d, m, j)
    BY <1>2, <2>1
  <2>3. /\ T[m] \in Seq(Alphabet) /\ T[n] \in Seq(Alphabet) /\ T[n] = T[m] \o PieceIn(ps, d, n)
        /\ Len(T[m]) \in Nat /\ j \in Nat /\ j <= m
    BY <1>0, <2>1, LenProperties
  <2>4. CASE OpensIn(ps, d, n)
    <3>1. T[n] = T[m] \o Marker
      BY <2>3, <2>4 DEF PieceIn
    <3>2. Clean(ps, T[n])
      BY <2>2, <2>3, <3>1, MarkerStaysClean
    <3>3. /\ Len(T[n]) = Len(T[m]) + Len(Marker)
          /\ \A i \in 1 .. Len(Marker) : T[n][Len(T[m]) + i] = Marker[i]
      BY <1>0, <2>3, <3>1, ConcatProperties
    <3>4. EndsPlain(ps, T[n], d, n, n)
      <4>1. n - n = 0 /\ (Len(T[n]) - 0) - Len(Marker) = Len(T[m])
        <5>1. n \in Int /\ Len(T[m]) \in Int /\ Len(Marker) \in Int
          BY <1>0, <2>1, <2>3
        <5>2. Len(T[n]) = Len(T[m]) + Len(Marker)
          BY <3>3
        <5> QED BY <5>1, <5>2
      <4>2. 0 <= Len(T[n]) /\ Len(Marker) + 0 <= Len(T[n])
        <5>1. Len(T[m]) \in Nat /\ Len(Marker) \in Nat
          BY <1>0, <2>3
        <5>2. Len(T[n]) = Len(T[m]) + Len(Marker)
          BY <3>3
        <5> QED BY <5>1, <5>2
      <4>3. \A i \in n + 1 .. n : FALSE
        BY <2>1
      <4>4. n - n <= Len(T[n]) /\ \A i \in 1 .. n - n : FALSE
        BY <4>1, <4>2
      <4>5. /\ Len(Marker) + (n - n) <= Len(T[n])
            /\ \A i \in 1 .. Len(Marker) :
                 T[n][((Len(T[n]) - (n - n)) - Len(Marker)) + i] = Marker[i]
        BY <3>3, <4>1, <4>2
      <4> QED BY <4>3, <4>4, <4>5 DEF EndsPlain
    <3> QED BY <2>1, <3>2, <3>4 DEF n
  <2>5. CASE ~OpensIn(ps, d, n) /\ CoveredIn(ps, d, n)
    <3>1. T[n] = T[m]
      <4>1. T[n] = T[m] \o <<>>
        BY <2>3, <2>5 DEF PieceIn
      <4> QED BY <2>3, <4>1, ConcatEmptySeq
    <3>2. PICK s \in Nat, e \in Nat : s + 1 < n /\ n <= e /\ Occurrence(ps, d, s, e)
      <4>1. PICK s \in Nat, e \in Nat : s < n /\ n <= e /\ Occurrence(ps, d, s, e)
        BY <2>5 DEF CoveredIn
      <4>2. CASE s + 1 < n
        BY <4>1, <4>2
      <4>3. CASE ~(s + 1 < n)
        <5>1. s = n - 1
          BY <2>1, <4>1, <4>3
        <5>2. ReachedIn(ps, d, n)
          BY <2>5, <4>1, <5>1 DEF OpensIn
        <5> QED BY <5>2 DEF ReachedIn
      <4> QED BY <4>2, <4>3
    <3>3. CoveredIn(ps, d, m) /\ 1 <= m
      <4>1. s < m /\ m <= e
        BY <2>1, <3>2
      <4> QED BY <3>2, <4>1 DEF CoveredIn
    <3>4. j = m
      <4>1. ~(m \in j + 1 .. m)
        BY <2>2, <3>3 DEF EndsPlain
      <4> QED BY <2>1, <2>3, <4>1
    <3>5. /\ Len(Marker) <= Len(T[m])
          /\ \A i \in 1 .. Len(Marker) : T[m][(Len(T[m]) - 0 - Len(Marker)) + i] = Marker[i]
      <4>1. m - m = 0 /\ Len(Marker) + 0 = Len(Marker) /\ j # 0
        BY <1>0, <3>3, <3>4
      <4> QED BY <2>2, <3>4, <4>1 DEF EndsPlain
    <3>6. EndsPlain(ps, T[n], d, n, n)
      <4>1. n - n = 0 /\ 0 <= Len(T[m]) /\ Len(Marker) + 0 = Len(Marker)
        BY <1>0, <2>1, <2>3
      <4>2. \A i \in n + 1 .. n : FALSE
        BY <2>1
      <4> QED BY <3>1, <3>5, <4>1, <4>2 DEF EndsPlain
    <3> QED BY <2>1, <2>2, <3>1, <3>6 DEF n
  <2>6. CASE ~OpensIn(ps, d, n) /\ ~CoveredIn(ps, d, n)
    <3> DEFINE x == T[n]
               y == T[m]
    <3>1. x = y \o <<d[n]>>
      BY <2>3, <2>6 DEF PieceIn
    <3>2. d[n] \in Alphabet /\ <<d[n]>> \in Seq(Alphabet) /\ Len(<<d[n]>>) = 1
      BY <2>1, ElementOfSeq
    <3>3. /\ Len(x) = Len(y) + 1 /\ \A i \in 1 .. Len(y) : x[i] = y[i]
          /\ \A i \in 1 .. 1 : x[Len(y) + i] = <<d[n]>>[i]
          /\ x \in Seq(Alphabet) /\ y \in Seq(Alphabet) /\ Len(y) \in Nat
      BY <2>3, <3>1, <3>2, ConcatProperties
    <3>4. x[Len(y) + 1] = d[n]
      BY <3>3
    <3> HIDE DEF x, y
    <3>5. /\ m - j <= Len(y)
          /\ \A i \in 1 .. m - j : y[(Len(y) - (m - j)) + i] = d[j + i]
          /\ \A i \in j + 1 .. m : ~CoveredIn(ps, d, i)
          /\ \/ j = 0 /\ Len(y) = m
             \/ /\ Len(Marker) + (m - j) <= Len(y)
                /\ \A i \in 1 .. Len(Marker) :
                     y[(Len(y) - (m - j) - Len(Marker)) + i] = Marker[i]
      BY <2>2 DEF EndsPlain, y
    <3> DEFINE lx == Len(x)
               ly == Len(y)
               lm == Len(Marker)
               u  == m - j
    <3>6. /\ lx \in Nat /\ ly \in Nat /\ lm \in Nat /\ u \in Nat
          /\ lx = ly + 1 /\ n = m + 1 /\ n - j = u + 1 /\ j + u = m
      <4>1. ly \in Nat /\ lx = ly + 1
        BY <3>3
      <4>2. lm \in Nat
        BY <1>0
      <4>3. m \in Nat /\ n \in Nat /\ n = m + 1 /\ j \in Nat /\ j <= m /\ u = m - j
        BY <2>1, <2>3
      <4> HIDE DEF lx, ly, lm, u
      <4> QED BY <4>1, <4>2, <4>3
    <3>7. /\ \A i \in 1 .. ly : x[i] = y[i]
          /\ x[ly + 1] = d[n]
      BY <3>3, <3>4
    <3>8. /\ u <= ly
          /\ \A i \in 1 .. u : y[(ly - u) + i] = d[j + i]
          /\ \/ j = 0 /\ ly = m
             \/ /\ lm + u <= ly
                /\ \A i \in 1 .. lm : y[(ly - u - lm) + i] = Marker[i]
      BY <3>5
    <3>9. EndsPlain(ps, x, d, n, j) <=>
            /\ n - j <= lx
            /\ \A i \in 1 .. n - j : x[(lx - (n - j)) + i] = d[j + i]
            /\ \A i \in j + 1 .. n : ~CoveredIn(ps, d, i)
            /\ \/ j = 0 /\ lx = n
               \/ /\ lm + (n - j) <= lx
                  /\ \A i \in 1 .. lm : x[(lx - (n - j) - lm) + i] = Marker[i]
      BY DEF EndsPlain
    <3>10. EndsPlain(ps, x, d, n, j)
      <4> HIDE DEF lx, ly, lm, u
      <4>1. lx - (n - j) = ly - u /\ n - j <= lx
        BY <3>6, <3>8
      <4>2. \A i \in 1 .. n - j : x[(ly - u) + i] = d[j + i]
        <5> TAKE i \in 1 .. n - j
        <5>1. CASE i \in 1 .. u
          <6>1. (ly - u) + i \in 1 .. ly
            BY <3>6, <3>8, <5>1
          <6>2. x[(ly - u) + i] = y[(ly - u) + i]
            BY <3>7, <6>1
          <6> QED BY <3>8, <5>1, <6>2
        <5>2. CASE i = u + 1
          <6>1. (ly - u) + i = ly + 1 /\ j + i = n
            BY <2>3, <3>6, <5>2
          <6> QED BY <3>7, <6>1
        <5>3. i \in 1 .. u \/ i = u + 1
          BY <3>6
        <5> QED BY <5>1, <5>2, <5>3
      <4>3. \A i \in j + 1 .. n : ~CoveredIn(ps, d, i)
        <5> TAKE i \in j + 1 .. n
        <5>1. i = n \/ i \in j + 1 .. m
          BY <2>1, <2>3
        <5> QED BY <2>6, <3>5, <5>1
      <4>4. \/ j = 0 /\ lx = n
            \/ /\ lm + (n - j) <= lx
               /\ \A i \in 1 .. lm : x[((ly - u) - lm) + i] = Marker[i]
        <5>1. CASE j = 0 /\ ly = m
          BY <3>6, <5>1
        <5>2. CASE lm + u <= ly /\ \A i \in 1 .. lm : y[(ly - u - lm) + i] = Marker[i]
          <6>1. lm + (n - j) <= lx
            BY <3>6, <5>2
          <6>2. \A i \in 1 .. lm : x[(ly - u - lm) + i] = Marker[i]
            <7> TAKE i \in 1 .. lm
            <7>0. lm + u <= ly /\ lm \in Nat /\ u \in Nat /\ ly \in Nat
              BY <3>6, <5>2
            <7>1. (ly - u - lm) + i \in 1 .. ly
              BY <7>0
            <7>2. x[(ly - u - lm) + i] = y[(ly - u - lm) + i]
              BY <3>7, <7>1
            <7> QED BY <5>2, <7>2
          <6> QED BY <6>1, <6>2
        <5> QED BY <3>8, <5>1, <5>2
      <4> QED BY <3>9, <4>1, <4>2, <4>3, <4>4
    <3>11. Clean(ps, x)
      <4> SUFFICES ASSUME NEW p \in ps, NEW s \in Nat, OccursAt(p, x, s) PROVE FALSE
        BY DEF Clean
      <4>1. p \in Seq(Alphabet) /\ Len(p) \in Nat
        BY Alphabets, LenProperties
      <4>2. s + Len(p) <= Len(x) /\ \A i \in 1 .. Len(p) : x[s + i] = p[i]
        BY <3>3, <4>1, OccursPointwise
      <4>3. CASE s + Len(p) <= Len(y)
        <5>1. \A i \in 1 .. Len(p) : s + i \in 1 .. Len(y)
          BY <3>3, <4>1, <4>3
        <5>2. \A i \in 1 .. Len(p) : y[s + i] = p[i]
          BY <3>3, <4>2, <5>1
        <5>3. OccursAt(p, y, s)
          BY <3>3, <4>1, <4>3, <5>2, OccursPointwise
        <5> QED BY <2>2, <5>3 DEF Clean, y
      <4>4. CASE s + Len(p) = Len(x)
        <5>1. Len(x) >= 1 /\ j \in 0 .. n
          BY <2>1, <2>3, <3>3
        <5> QED BY <2>1, <2>6, <3>3, <3>10, <4>4, <5>1, SymbolStaysClean
      <4> QED BY <3>3, <4>1, <4>2, <4>3, <4>4
    <3>12. j \in 0 .. n
      BY <2>1, <2>3
    <3> QED BY <3>10, <3>11, <3>12 DEF x, n
  <2> QED BY <2>4, <2>5, <2>6
<1>3. Nat \subseteq S
  <2> HIDE DEF S
  <2> QED BY <1>1, <1>2, Induction
<1> QED BY <1>0, <1>3 DEF T

\* What is left of a clean text is clean.
LEMMA CutClean ==
    ASSUME NEW ps \in PatternSets, NEW x \in Seq(Alphabet), NEW n \in Nat, Clean(ps, x)
    PROVE  Clean(ps, Cut(x, n))
<1> SUFFICES ASSUME NEW p \in ps, NEW s \in Nat, OccursAt(p, Cut(x, n), s) PROVE FALSE
  BY DEF Clean
<1>1. p \in Seq(Alphabet) /\ Len(p) \in Nat /\ Len(x) \in Nat
  BY Alphabets, LenProperties
<1>2. /\ Cut(x, n) \in Seq(Alphabet) /\ Len(Cut(x, n)) \in Nat /\ Len(Cut(x, n)) <= Len(x)
      /\ \A i \in 1 .. Len(Cut(x, n)) : Cut(x, n)[i] = x[i]
  BY <1>1, CutFacts
<1>3. /\ s + Len(p) <= Len(Cut(x, n)) /\ s + Len(p) <= Len(x)
      /\ \A i \in 1 .. Len(p) : Cut(x, n)[s + i] = p[i]
  BY <1>1, <1>2, OccursPointwise
<1>4. \A i \in 1 .. Len(p) : s + i \in 1 .. Len(Cut(x, n))
  BY <1>1, <1>2, <1>3
<1>5. \A i \in 1 .. Len(p) : x[s + i] = p[i]
  BY <1>2, <1>3, <1>4
<1>6. OccursAt(p, x, s)
  BY <1>1, <1>3, <1>5, OccursPointwise
<1> QED BY <1>6 DEF Clean

\* The excerpt of a state of the invariant holds no value.
LEMMA ExcerptClean ==
    ASSUME CollectorInv
    PROVE  ProtectedValuesNeverShow
<1>0. /\ patterns \in PatternSets /\ output \in Seq(Alphabet) /\ excerpt \in Seq(Alphabet)
      /\ limit \in Nat /\ Len(output) \in Nat /\ CollectorTypes
  BY CollectorConstants, Alphabets, LenProperties DEF CollectorInv, CollectorTypes
<1>1. Clean(patterns, excerpt)
  <2>1. CASE Suppressed
    <3>1. excerpt = <<>> /\ Len(<<>>) = 0
      BY <2>1, EmptySeq DEF CollectorInv
    <3>2. \A p \in patterns : Len(p) \in Nat \ {0}
      BY <1>0, Alphabets, LenProperties, EmptySeq
    <3> QED BY <3>1, <3>2 DEF Clean, OccursAt
  <2>2. CASE ~Suppressed
    <3>1. Apart(patterns)
      BY <2>2 DEF Suppressed, Apart
    <3>2. \A n \in 0 .. Len(output) :
            /\ Clean(patterns, TextOf(patterns, output)[n])
            /\ TextOf(patterns, output)[n] \in Seq(Alphabet)
      BY <1>0, <3>1, TextClean, TextFacts
    <3>3. CASE ~finished
      <4>1. PICK k \in 0 .. Len(output) : ReleasedTo(k)
        BY <2>2, <3>3 DEF CollectorInv
      <4>2. excerpt = Cut(TextOf(patterns, output)[k], limit)
        BY <4>1 DEF ReleasedTo, ShownOf
      <4> QED BY <1>0, <3>2, <4>2, CutClean
    <3>4. CASE finished
      <4>1. excerpt = Cut(Redaction, limit)
        BY <2>2, <3>4 DEF CollectorInv, ChunksDoNotMatter, Cut
      <4>2. TailStart - 1 \in 0 .. Len(output)
        BY <1>0, TailFacts
      <4>3. PICK t \in Seq(Alphabet) :
              t = TextOf(patterns, output)[TailStart - 1] /\ Clean(patterns, t)
        BY <3>2, <4>2
      <4>4. Redaction = t \o TailMark /\ Redaction \in Seq(Alphabet)
        BY <1>0, <4>3, RedactionText
      <4>5. t \o <<>> = t
        BY ConcatEmptySeq
      <4>6. Clean(patterns, Redaction)
        BY <1>0, <3>1, <4>3, <4>4, <4>5, MarkerStaysClean DEF TailMark
      <4> QED BY <1>0, <4>1, <4>4, <4>6, CutClean
    <3> QED BY <3>3, <3>4
  <2> QED BY <2>1, <2>2
<1>2. ASSUME NEW p \in patterns
      PROVE  ~IsWithin(excerpt, p)
  <2>1. p \in Seq(Alphabet) /\ p # <<>>
    BY <1>0, Alphabets
  <2> QED BY <1>0, <1>1, <2>1, WithinOccurs DEF Clean
<1> QED BY <1>2 DEF ProtectedValuesNeverShow

\* No protected value is in an excerpt, at any time, wherever chunks and the
\* limit cut it and whatever the markers put together.
THEOREM CollectorKeepsSecrets == Spec => []ProtectedValuesNeverShow
<1>1. CollectorInv => ProtectedValuesNeverShow
  BY ExcerptClean
<1> QED BY <1>1, CollectorInvariant, PTL

-----------------------------------------------------------------------------
(***************************************************************************)
(* ChangeAssembly: recursion over the subsets of a finite set.             *)
(***************************************************************************)

\* The element of a set that a fold takes first.
Chosen(s) == CHOOSE x \in s : TRUE

\* f is defined by recursion over the subsets of S, one element at a time.
IsFold(f, S, A, base, F) ==
    /\ f \in [SUBSET S -> A] /\ f[{}] = base
    /\ \A s \in SUBSET S : s # {} => f[s] = F[<<Chosen(s), f[s \ {Chosen(s)}]>>]

\* A function of the subsets of a finite set exists that is given for each of
\* them by its value without one element.
LEMMA FoldExists ==
    \A S : IsFiniteSet(S) => \A A : \A base \in A : \A F \in [S \X A -> A] :
      \E f : IsFold(f, S, A, base, F)
<1> SUFFICES ASSUME NEW S, IsFiniteSet(S), NEW A, NEW base \in A, NEW F \in [S \X A -> A]
             PROVE  \E f : IsFold(f, S, A, base, F)
  OBVIOUS
<1> DEFINE Good(m, f) ==
             /\ f \in [SUBSET S -> A] /\ f[{}] = base
             /\ \A s \in SUBSET S : s # {} /\ Cardinality(s) <= m =>
                  f[s] = F[<<Chosen(s), f[s \ {Chosen(s)}]>>]
           T == {m \in Nat : \E f : Good(m, f)}
<1>0. \A s \in SUBSET S :
        /\ IsFiniteSet(s) /\ Cardinality(s) \in Nat
        /\ s # {} =>
             /\ Chosen(s) \in s /\ s \ {Chosen(s)} \in SUBSET S
             /\ Cardinality(s) # 0
             /\ Cardinality(s \ {Chosen(s)}) = Cardinality(s) - 1
  <2> TAKE s \in SUBSET S
  <2>1. IsFiniteSet(s) /\ Cardinality(s) \in Nat
    BY FS_Subset, FS_CardinalityType
  <2>2. ASSUME s # {}
        PROVE  Chosen(s) \in s
    BY <2>2 DEF Chosen
  <2>3. ASSUME s # {}
        PROVE  /\ s \ {Chosen(s)} \in SUBSET S
               /\ Cardinality(s) # 0
               /\ Cardinality(s \ {Chosen(s)}) = Cardinality(s) - 1
    <3> HIDE DEF Chosen
    <3> QED BY <2>1, <2>2, <2>3, FS_RemoveElement, FS_EmptySet
  <2> QED BY <2>1, <2>2, <2>3
<1>1. 0 \in T
  <2>1. Good(0, [s \in SUBSET S |-> base])
    <3>1. ASSUME NEW s \in SUBSET S, s # {}
          PROVE  ~(Cardinality(s) <= 0)
      <4>1. Cardinality(s) \in Nat /\ Cardinality(s) # 0
        BY <1>0, <3>1
      <4> QED BY <4>1
    <3> QED BY <3>1
  <2> QED BY <2>1
<1>2. ASSUME NEW m \in Nat, m \in T
      PROVE  m + 1 \in T
  <2>1. PICK f : Good(m, f)
    BY <1>2
  <2> DEFINE g == [s \in SUBSET S |-> IF s # {} /\ Cardinality(s) = m + 1
                                      THEN F[<<Chosen(s), f[s \ {Chosen(s)}]>>] ELSE f[s]]
  <2>2. ASSUME NEW s \in SUBSET S
        PROVE  g[s] \in A
    <3>1. CASE s # {} /\ Cardinality(s) = m + 1
      <4> DEFINE c == Chosen(s)
                 r == s \ {c}
      <4>1. c \in S /\ r \in SUBSET S
        BY <3>1, <1>0
      <4>2. g[s] = F[<<c, f[r]>>]
        BY <3>1
      <4> HIDE DEF c, r, g
      <4>3. f[r] \in A
        BY <4>1, <2>1
      <4> QED BY <4>1, <4>2, <4>3
    <3>2. CASE ~(s # {} /\ Cardinality(s) = m + 1)
      BY <3>2, <2>1
    <3> QED BY <3>1, <3>2
  <2>3. g \in [SUBSET S -> A] /\ g[{}] = base
    BY <2>2, <2>1
  <2>4. ASSUME NEW s \in SUBSET S, s # {}, Cardinality(s) <= m + 1
        PROVE  g[s] = F[<<Chosen(s), g[s \ {Chosen(s)}]>>]
    <3> DEFINE r == s \ {Chosen(s)}
    <3>1. r \in SUBSET S /\ Cardinality(r) = Cardinality(s) - 1 /\ Cardinality(s) \in Nat
      BY <2>4, <1>0
    <3>2. Cardinality(r) # m + 1
      BY <3>1, <2>4
    <3>3. g[r] = f[r]
      BY <3>1, <3>2
    <3>4. CASE Cardinality(s) = m + 1
      BY <3>3, <3>4, <2>4
    <3>5. CASE Cardinality(s) # m + 1
      <4>1. Cardinality(s) <= m
        BY <3>5, <3>1, <2>4
      <4>2. f[s] = F[<<Chosen(s), f[r]>>]
        BY <4>1, <2>1, <2>4
      <4>3. g[s] = f[s]
        BY <3>5
      <4> HIDE DEF g, r
      <4> QED BY <4>2, <4>3, <3>3 DEF r
    <3> QED BY <3>4, <3>5
  <2>5. Good(m + 1, g)
    <3> HIDE DEF g
    <3> QED BY <2>3, <2>4
  <2>6. m + 1 \in Nat
    OBVIOUS
  <2> HIDE DEF g, Good
  <2> QED BY <2>5, <2>6
<1> HIDE DEF T
<1>3. Cardinality(S) \in T
  BY <1>1, <1>2, Induction, FS_CardinalityType
<1>4. PICK f : Good(Cardinality(S), f)
  BY <1>3 DEF T
<1>5. \A s \in SUBSET S : Cardinality(s) <= Cardinality(S)
  BY FS_Subset
<1>6. ASSUME NEW s \in SUBSET S, s # {}
      PROVE  f[s] = F[<<Chosen(s), f[s \ {Chosen(s)}]>>]
  <2>1. Cardinality(s) <= Cardinality(S)
    BY <1>5
  <2> HIDE DEF Chosen
  <2> QED BY <2>1, <1>4, <1>6
<1> QED BY <1>4, <1>6 DEF IsFold

(***************************************************************************)
(* Groups: the parts of a set of nodes that links tie together.            *)
(***************************************************************************)

\* A set that no link leaves or enters.
Closed(X, links) == \A l \in links : l[1] \in X <=> l[2] \in X

\* Every node is in one group.
Covers(groups, nodes) ==
    /\ \A g \in groups : g \subseteq nodes /\ g # {}
    /\ \A n \in nodes : \E g \in groups : n \in g
Separate(groups) == \A g, h \in groups : \A n \in g : n \in h => g = h

\* Groups are closed, and the least that are.
Together(groups, links) == \A g \in groups : Closed(g, links)
Tied(groups, links) ==
    \A X : Closed(X, links) => \A g \in groups : g \subseteq X \/ \A n \in g : n \notin X

IsPartition(groups, nodes, links) ==
    Covers(groups, nodes) /\ Separate(groups) /\ Together(groups, links) /\ Tied(groups, links)

\* A link merges the groups of its ends.
Touched(link, groups) == {g \in groups : link[1] \in g \/ link[2] \in g}
Joined(link, groups) == (groups \ Touched(link, groups)) \cup {UNION Touched(link, groups)}

\* Before any link, every node is a group of its own.
LEMMA Unlinked == \A nodes : IsPartition({{n} : n \in nodes}, nodes, {})
<1> TAKE nodes
<1>1. Covers({{n} : n \in nodes}, nodes)
  BY DEF Covers
<1>2. Separate({{n} : n \in nodes})
  BY DEF Separate
<1>3. Together({{n} : n \in nodes}, {})
  BY DEF Together, Closed
<1>4. Tied({{n} : n \in nodes}, {})
  BY DEF Tied
<1> QED BY <1>1, <1>2, <1>3, <1>4 DEF IsPartition

\* Merging the groups of a link gives the groups with that link.
LEMMA JoinFacts ==
    ASSUME NEW nodes, NEW links, NEW groups, NEW l, l[1] \in nodes, l[2] \in nodes,
           IsPartition(groups, nodes, links)
    PROVE  IsPartition(Joined(l, groups), nodes, links \cup {l})
<1> DEFINE T == Touched(l, groups)
           U == UNION T
<1>1. Covers(groups, nodes) /\ Separate(groups) /\ Together(groups, links) /\ Tied(groups, links)
  BY DEF IsPartition
<1>2. \A g \in groups : g \in T <=> l[1] \in g \/ l[2] \in g
  BY DEF Touched
<1>3. T \subseteq groups
  BY DEF Touched
<1>4. \A g \in Joined(l, groups) : (g \in groups /\ g \notin T) \/ g = U
  BY DEF Joined
<1>5. (\A g \in groups : g \notin T => g \in Joined(l, groups)) /\ U \in Joined(l, groups)
  BY DEF Joined
<1>6. l[1] \in U /\ l[2] \in U
  <2>1. PICK g \in groups : l[1] \in g
    BY <1>1 DEF Covers
  <2>2. PICK h \in groups : l[2] \in h
    BY <1>1 DEF Covers
  <2> QED BY <2>1, <2>2, <1>2
<1> HIDE DEF T
<1>7. Covers(Joined(l, groups), nodes)
  <2>1. U \subseteq nodes /\ U # {}
    BY <1>3, <1>1, <1>6 DEF Covers
  <2>2. ASSUME NEW g \in Joined(l, groups)
        PROVE  g \subseteq nodes /\ g # {}
    BY <2>1, <1>4, <1>1 DEF Covers
  <2>3. ASSUME NEW n \in nodes
        PROVE  \E g \in Joined(l, groups) : n \in g
    <3>1. PICK g \in groups : n \in g
      BY <1>1 DEF Covers
    <3>2. g \in T => n \in U
      BY <3>1
    <3> QED BY <3>1, <3>2, <1>5
  <2> QED BY <2>2, <2>3 DEF Covers
<1>8. Separate(Joined(l, groups))
  <2>1. \A g, h \in groups : \A n \in g : n \in h => g = h
    BY <1>1 DEF Separate
  <2>2. \A g \in groups : g \notin T => \A n \in g : n \notin U
    BY <2>1, <1>3
  <2> HIDE DEF U
  <2>3. ASSUME NEW g \in Joined(l, groups), NEW h \in Joined(l, groups), NEW n \in g, n \in h
        PROVE  g = h
    <3>1. (g \in groups /\ g \notin T) \/ g = U
      BY <1>4
    <3>2. (h \in groups /\ h \notin T) \/ h = U
      BY <1>4
    <3> QED BY <2>1, <2>2, <2>3, <3>1, <3>2
  <2> QED BY <2>3 DEF Separate
<1>9. Together(Joined(l, groups), links \cup {l})
  <2>1. ASSUME NEW g \in groups, NEW k \in links
        PROVE  k[1] \in g <=> k[2] \in g
    BY <1>1 DEF Together, Closed
  <2>2. ASSUME NEW g \in Joined(l, groups), NEW k \in links
        PROVE  k[1] \in g <=> k[2] \in g
    BY <2>1, <1>3, <1>4
  <2>3. ASSUME NEW g \in Joined(l, groups)
        PROVE  l[1] \in g <=> l[2] \in g
    BY <1>2, <1>4, <1>6
  <2> QED BY <2>2, <2>3 DEF Together, Closed
<1>10. Tied(Joined(l, groups), links \cup {l})
  <2> SUFFICES ASSUME NEW X, Closed(X, links \cup {l}), NEW g \in Joined(l, groups)
               PROVE  g \subseteq X \/ \A n \in g : n \notin X
    BY DEF Tied
  <2>1. Closed(X, links) /\ (l[1] \in X <=> l[2] \in X)
    BY DEF Closed
  <2>2. \A h \in groups : h \subseteq X \/ \A n \in h : n \notin X
    BY <2>1, <1>1 DEF Tied
  <2>3. U \subseteq X \/ \A n \in U : n \notin X
    <3>1. CASE l[1] \in X
      <4>1. \A h \in T : h \subseteq X
        BY <3>1, <2>1, <2>2, <1>2, <1>3
      <4> QED BY <4>1
    <3>2. CASE l[1] \notin X
      <4>1. \A h \in T : \A n \in h : n \notin X
        BY <3>2, <2>1, <2>2, <1>2, <1>3
      <4> QED BY <4>1
    <3> QED BY <3>1, <3>2
  <2> QED BY <2>2, <2>3, <1>4
<1> QED BY <1>7, <1>8, <1>9, <1>10 DEF IsPartition

\* Merging link by link.
IsMerge(f, nodes, links) ==
    f = [s \in SUBSET links |->
           IF s = {} THEN {{n} : n \in nodes} ELSE Joined(Chosen(s), f[s \ {Chosen(s)}])]

\* Merging over all links, in whatever order, gives the groups of the links.
LEMMA FoldedPartition ==
    ASSUME NEW nodes, NEW links, links \subseteq nodes \X nodes, IsFiniteSet(links),
           NEW f, IsMerge(f, nodes, links)
    PROVE  IsPartition(f[links], nodes, links)
<1> DEFINE T == {m \in Nat : \A s \in SUBSET links :
                   Cardinality(s) = m => IsPartition(f[s], nodes, s)}
<1>0. \A s \in SUBSET links : IsFiniteSet(s) /\ Cardinality(s) \in Nat
  BY FS_Subset, FS_CardinalityType
<1>1. 0 \in T
  <2>1. ASSUME NEW s \in SUBSET links, Cardinality(s) = 0
        PROVE  IsPartition(f[s], nodes, s)
    <3>1. s = {}
      BY <2>1, <1>0, FS_EmptySet
    <3>2. f[s] = {{n} : n \in nodes}
      BY <3>1 DEF IsMerge
    <3> QED BY <3>1, <3>2, Unlinked
  <2> QED BY <2>1
<1>2. ASSUME NEW m \in Nat, m \in T
      PROVE  m + 1 \in T
  <2>1. ASSUME NEW s \in SUBSET links, Cardinality(s) = m + 1
        PROVE  IsPartition(f[s], nodes, s)
    <3> DEFINE l == Chosen(s)
               r == s \ {l}
    <3>1. s # {}
      <4>1. m + 1 # 0
        OBVIOUS
      <4> QED BY <4>1, <2>1, FS_EmptySet
    <3>2. l \in s
      BY <3>1 DEF Chosen
    <3>3. f[s] = Joined(l, f[r])
      BY <3>1 DEF IsMerge
    <3>4. Cardinality(r) = m /\ r \in SUBSET links
      <4> HIDE DEF l
      <4>1. Cardinality(r) = Cardinality(s) - 1
        BY <3>2, <1>0, FS_RemoveElement
      <4> QED BY <4>1, <2>1
    <3> HIDE DEF l
    <3>5. IsPartition(f[r], nodes, r)
      BY <3>4, <1>2
    <3>6. l \in nodes \X nodes
      BY <3>2
    <3>7. l[1] \in nodes /\ l[2] \in nodes /\ s = r \cup {l}
      BY <3>6, <3>2
    <3> HIDE DEF r
    <3>8. IsPartition(Joined(l, f[r]), nodes, r \cup {l})
      BY <3>5, <3>7, JoinFacts
    <3> QED BY <3>3, <3>7, <3>8
  <2> QED BY <2>1
<1> HIDE DEF T
<1>3. Cardinality(links) \in T
  BY <1>0, <1>1, <1>2, Induction
<1> QED BY <1>3 DEF T

(***************************************************************************)
(* What a capture has read.                                                *)
(***************************************************************************)

\* What is paired between two layers: files that are gone with files that are
\* new, each at most once.
Renaming(before, after, pairs) ==
    pairs \subseteq [old : Gone(before, after), new : Added(before, after)] /\ OneToOne(pairs)

\* The layers in order, and what is paired between each two of them.
CaptureInv ==
    /\ scope \in {"pending", "committed_only"}
    /\ layers \in Seq(Trees) /\ Len(layers) \in 1 .. ActiveLayers
    /\ renames \in Seq(SUBSET [old : TreePaths, new : TreePaths])
    /\ Len(renames) = Len(layers) - 1
    /\ \A i \in Transitions : Renaming(layers[i], layers[i + 1], renames[i])

\* The paths are finitely many, as they can be put in a sequence.
LEMMA FinitePaths == IsFiniteSet(TreePaths)
<1> DEFINE n == Len(PathSequence)
<1>1. n \in Nat /\ PathSequence \in [1 .. n -> TreePaths] /\ DOMAIN PathSequence = 1 .. n
  BY AssemblyConstants, LenProperties
<1>2. \A p \in TreePaths : \E i \in 1 .. n : PathSequence[i] = p
  BY <1>1, AssemblyConstants DEF Range
<1>3. PathSequence \in Surjection(1 .. n, TreePaths)
  BY <1>1, <1>2 DEF Surjection
<1>4. IsFiniteSet(1 .. n)
  BY <1>1, FS_Interval
<1> QED BY <1>3, <1>4, FS_Surjection

\* Whatever git pairs, and whatever is paired in the working tree, is a renaming.
LEMMA RenamingFacts ==
    ASSUME NEW before \in Trees, NEW after \in Trees
    PROVE  /\ \A pairs \in GitRenames(before, after) : Renaming(before, after, pairs)
           /\ Renaming(before, after, WorkingRenames(before, after))
<1>1. \A pairs \in GitRenames(before, after) : Renaming(before, after, pairs)
  BY DEF GitRenames, Renaming
<1> DEFINE From(c) == {p \in Gone(before, after) : before[p] = c}
           To(c)   == {p \in Added(before, after) : after[p] = c}
           W == WorkingRenames(before, after)
<1>2. \A r \in W : \E c \in Blobs : /\ r \in [old : From(c), new : To(c)]
                                    /\ Cardinality(From(c)) = 1 /\ Cardinality(To(c)) = 1
  BY DEF WorkingRenames
<1>3. \A c : IsFiniteSet(From(c)) /\ IsFiniteSet(To(c))
  <2> TAKE c
  <2>1. From(c) \in SUBSET TreePaths /\ To(c) \in SUBSET TreePaths
    BY DEF Gone, Added
  <2> HIDE DEF From, To
  <2> QED BY <2>1, FinitePaths, FS_Subset
<1>4. W \subseteq [old : Gone(before, after), new : Added(before, after)]
  BY <1>2
<1>5. ASSUME NEW a \in W, NEW b \in W, a.old = b.old \/ a.new = b.new
      PROVE  a = b
  <2>1. PICK c \in Blobs : /\ a \in [old : From(c), new : To(c)]
                           /\ Cardinality(From(c)) = 1 /\ Cardinality(To(c)) = 1
    BY <1>2
  <2>2. PICK d \in Blobs : /\ b \in [old : From(d), new : To(d)]
                           /\ Cardinality(From(d)) = 1 /\ Cardinality(To(d)) = 1
    BY <1>2
  <2>3. /\ a.old \in From(c) /\ a.new \in To(c) /\ b.old \in From(d) /\ b.new \in To(d)
        /\ a = [old |-> a.old, new |-> a.new] /\ b = [old |-> b.old, new |-> b.new]
    BY <2>1, <2>2
  <2>4. c = d
    BY <1>5, <2>3
  <2>5. (\E x : From(c) = {x}) /\ (\E x : To(c) = {x})
    <3> HIDE DEF From, To
    <3> QED BY <2>1, <1>3, FS_Singleton
  <2> HIDE DEF From, To, W
  <2>6. a.old = b.old /\ a.new = b.new
    BY <2>3, <2>4, <2>5
  <2> QED BY <2>3, <2>6
<1>6. OneToOne(W)
  <2> HIDE DEF W
  <2> QED BY <1>5 DEF OneToOne
<1> QED BY <1>1, <1>4, <1>6 DEF Renaming

\* A capture starts with the merge base.
LEMMA CaptureInitially == AssemblyInit => CaptureInv
<1> SUFFICES ASSUME AssemblyInit PROVE CaptureInv
  OBVIOUS
<1>1. PICK tree \in Bases : layers = <<tree>>
  BY DEF AssemblyInit
<1>2. tree \in Trees
  BY AssemblyConstants
<1>3. layers \in Seq(Trees) /\ Len(layers) = 1
  BY <1>1, <1>2
<1>4. renames \in Seq(SUBSET [old : TreePaths, new : TreePaths]) /\ Len(renames) = 0
  BY DEF AssemblyInit
<1>5. scope \in {"pending", "committed_only"} /\ Len(layers) \in 1 .. ActiveLayers
  BY <1>3 DEF AssemblyInit, ActiveLayers
<1>6. Transitions = {}
  BY <1>3 DEF Transitions
<1> QED BY <1>3, <1>4, <1>5, <1>6 DEF CaptureInv

\* Every step reads another layer, paired with the last one, or keeps them all.
LEMMA CaptureKept == CaptureInv /\ [AssemblyNext]_assemblyVars => CaptureInv'
<1> SUFFICES ASSUME CaptureInv, [AssemblyNext]_assemblyVars
             PROVE  CaptureInv'
  OBVIOUS
<1>1. CASE NextLayer
  <2> DEFINE last == Last(layers)
             n == Len(layers)
             Pairs == SUBSET [old : TreePaths, new : TreePaths]
  <2>1. /\ scope \in {"pending", "committed_only"} /\ layers \in Seq(Trees) /\ n \in Nat /\ n >= 1
        /\ renames \in Seq(Pairs) /\ Len(renames) = n - 1 /\ ActiveLayers \in {2, 4}
        /\ \A i \in 1 .. n - 1 : Renaming(layers[i], layers[i + 1], renames[i])
    BY DEF CaptureInv, ActiveLayers, Transitions
  <2>2. PICK tree \in Trees :
          /\ layers' = Append(layers, tree)
          /\ \E pairs \in IF n < 3 THEN GitRenames(last, tree) ELSE {WorkingRenames(last, tree)} :
               renames' = Append(renames, pairs)
    BY <1>1 DEF NextLayer
  <2>3. last = layers[n] /\ last \in Trees
    BY <2>1, ElementOfSeq DEF Last
  <2>4. PICK pairs : renames' = Append(renames, pairs) /\ Renaming(last, tree, pairs)
    <3>1. PICK pairs \in IF n < 3 THEN GitRenames(last, tree) ELSE {WorkingRenames(last, tree)} :
            renames' = Append(renames, pairs)
      BY <2>2
    <3> HIDE DEF last, n
    <3>2. pairs \in GitRenames(last, tree) \/ pairs = WorkingRenames(last, tree)
      BY <3>1
    <3> QED BY <3>1, <3>2, <2>3, RenamingFacts
  <2>5. pairs \in Pairs
    <3>1. pairs \subseteq [old : Gone(last, tree), new : Added(last, tree)]
      BY <2>4 DEF Renaming
    <3>2. Gone(last, tree) \subseteq TreePaths /\ Added(last, tree) \subseteq TreePaths
      BY DEF Gone, Added
    <3> HIDE DEF last
    <3> QED BY <3>1, <3>2
  <2> HIDE DEF last, n, Pairs
  <2>6. /\ layers' \in Seq(Trees) /\ Len(layers') = n + 1
        /\ layers'[n + 1] = tree /\ \A i \in 1 .. n : layers'[i] = layers[i]
    BY <2>1, <2>2, AppendProperties DEF n
  <2>7. /\ renames' \in Seq(Pairs) /\ Len(renames') = n
        /\ renames'[n] = pairs /\ \A i \in 1 .. n - 1 : renames'[i] = renames[i]
    <3>1. Len(renames) + 1 = n
      BY <2>1
    <3> QED BY <2>1, <2>4, <2>5, <3>1, AppendProperties
  <2>8. n < ActiveLayers /\ scope' = scope
    BY <1>1 DEF NextLayer, n
  <2>9. ActiveLayers' = ActiveLayers
    BY <2>8 DEF ActiveLayers
  <2>10. Len(layers') \in 1 .. ActiveLayers'
    BY <2>1, <2>6, <2>8, <2>9
  <2>11. ASSUME NEW i \in 1 .. n
         PROVE  Renaming(layers'[i], layers'[i + 1], renames'[i])
    <3>1. CASE i = n
      BY <3>1, <2>3, <2>4, <2>6, <2>7
    <3>2. CASE i # n
      <4>1. i \in 1 .. n - 1 /\ i + 1 \in 1 .. n
        BY <3>2, <2>1
      <4> QED BY <4>1, <2>1, <2>6, <2>7
    <3> QED BY <3>1, <3>2
  <2>12. Transitions' = 1 .. n
    BY <2>1, <2>6 DEF Transitions
  <2>13. Len(renames') = Len(layers') - 1
    BY <2>1, <2>6, <2>7
  <2>14. scope' \in {"pending", "committed_only"}
    BY <2>1, <2>8
  <2> QED BY <2>6, <2>7, <2>10, <2>11, <2>12, <2>13, <2>14 DEF CaptureInv, Pairs
<1>2. CASE UNCHANGED <<scope, layers, renames>>
  BY <1>2 DEF CaptureInv, ActiveLayers, Transitions
<1> QED BY <1>1, <1>2 DEF AssemblyNext, Assemble, assemblyVars

(***************************************************************************)
(* Events and links.                                                       *)
(***************************************************************************)

Nodes == [layer : DOMAIN layers, path : EventPaths]

RenamedFrom(i, p) == \E r \in renames[i] : r.old = p
RenamedTo(i, p) == \E r \in renames[i] : r.new = p

\* A path that changes on its own between the layers i and i + 1.
Single(i, p) ==
    p \in TreePaths /\ layers[i][p] # layers[i + 1][p] /\ ~RenamedFrom(i, p) /\ ~RenamedTo(i, p)

\* The path p of the layer i and the path q of the next one are linked.
Edge(i, p, q) == <<Node(i, p), Node(i + 1, q)>> \in Links

\* The layers are trees, and a transition has a layer before and one after.
LEMMA LayerFacts ==
    ASSUME CaptureInv
    PROVE  /\ Len(layers) \in 1 .. 4 /\ DOMAIN layers = 1 .. Len(layers)
           /\ \A i \in DOMAIN layers : layers[i] \in Trees
           /\ \A i \in Transitions : /\ i \in 1 .. 3 /\ i < Len(layers)
                                     /\ i \in DOMAIN layers /\ i + 1 \in DOMAIN layers
<1>1. layers \in Seq(Trees) /\ Len(layers) \in 1 .. ActiveLayers /\ ActiveLayers \in {2, 4}
  BY DEF CaptureInv, ActiveLayers
<1>2. Len(layers) \in 1 .. 4
  <2>1. Len(layers) \in 1 .. ActiveLayers
    BY <1>1
  <2>2. CASE ActiveLayers = 2
    BY <2>1, <2>2
  <2>3. CASE ActiveLayers = 4
    BY <2>1, <2>3
  <2> QED BY <1>1, <2>2, <2>3
<1>3. DOMAIN layers = 1 .. Len(layers) /\ \A i \in 1 .. Len(layers) : layers[i] \in Trees
  BY <1>1, LenProperties, ElementOfSeq
<1>4. ASSUME NEW i \in Transitions
      PROVE  /\ i \in 1 .. 3 /\ i < Len(layers)
             /\ i \in DOMAIN layers /\ i + 1 \in DOMAIN layers
  BY <1>2, <1>3 DEF Transitions
<1> QED BY <1>2, <1>3, <1>4

\* A rename is of a file that is gone to one that is new, and the only one of them.
LEMMA RenameFacts ==
    ASSUME CaptureInv, NEW i \in Transitions
    PROVE  /\ \A r \in renames[i] :
                /\ r = [old |-> r.old, new |-> r.new]
                /\ r.old \in TreePaths /\ layers[i][r.old] # Missing /\ layers[i + 1][r.old] = Missing
                /\ r.new \in TreePaths /\ layers[i][r.new] = Missing /\ layers[i + 1][r.new] # Missing
           /\ \A r, s \in renames[i] : r.old = s.old \/ r.new = s.new => r = s
<1>1. Renaming(layers[i], layers[i + 1], renames[i])
  BY DEF CaptureInv
<1>2. /\ renames[i] \subseteq [old : Gone(layers[i], layers[i + 1]), new : Added(layers[i], layers[i + 1])]
      /\ OneToOne(renames[i])
  BY <1>1 DEF Renaming
<1>3. ASSUME NEW r \in renames[i]
      PROVE  /\ r = [old |-> r.old, new |-> r.new]
             /\ r.old \in Gone(layers[i], layers[i + 1]) /\ r.new \in Gone(layers[i + 1], layers[i])
  BY <1>2 DEF Added
<1>4. ASSUME NEW r \in renames[i]
      PROVE  /\ r.old \in TreePaths /\ layers[i][r.old] # Missing /\ layers[i + 1][r.old] = Missing
             /\ r.new \in TreePaths /\ layers[i][r.new] = Missing /\ layers[i + 1][r.new] # Missing
  BY <1>3 DEF Gone
<1>5. \A r, s \in renames[i] : r.old = s.old \/ r.new = s.new => r = s
  BY <1>2 DEF OneToOne
<1> QED BY <1>3, <1>4, <1>5

\* An event is a rename or the change of one path.
LEMMA EventFacts ==
    ASSUME CaptureInv, NEW i \in Transitions
    PROVE  \A e : e \in Events(i) <=>
             e \in renames[i] \/ \E p : Single(i, p) /\ e = [old |-> p, new |-> p]
BY DEF Events, Single, RenamedFrom, RenamedTo

\* The paths of the groups are the ones that change.
LEMMA EventPathFacts ==
    ASSUME CaptureInv
    PROVE  /\ EventPaths \subseteq TreePaths
           /\ \A i \in Transitions : \A e \in Events(i) : e.old \in EventPaths /\ e.new \in EventPaths
           /\ \A i \in Transitions : \A p \in TreePaths :
                layers[i][p] # layers[i + 1][p] => p \in EventPaths
<1>1. \A p \in EventPaths : \E i \in Transitions : \E e \in Events(i) : p = e.old \/ p = e.new
  BY DEF EventPaths
<1>2. ASSUME NEW i \in Transitions, NEW e \in Events(i)
      PROVE  e.old \in EventPaths /\ e.new \in EventPaths
  BY DEF EventPaths
<1>3. ASSUME NEW i \in Transitions, NEW e \in Events(i)
      PROVE  e.old \in TreePaths /\ e.new \in TreePaths
  <2>1. CASE e \in renames[i]
    BY <2>1, RenameFacts
  <2>2. CASE \E p : Single(i, p) /\ e = [old |-> p, new |-> p]
    BY <2>2 DEF Single
  <2> QED BY <2>1, <2>2, EventFacts
<1>4. EventPaths \subseteq TreePaths
  BY <1>1, <1>3
<1>5. ASSUME NEW i \in Transitions, NEW p \in TreePaths, layers[i][p] # layers[i + 1][p]
      PROVE  p \in EventPaths
  <2>1. CASE \E r \in renames[i] : r.old = p \/ r.new = p
    <3>1. PICK r \in renames[i] : r.old = p \/ r.new = p
      BY <2>1
    <3>2. r \in Events(i)
      BY EventFacts
    <3> QED BY <3>1, <3>2, <1>2
  <2>2. CASE ~\E r \in renames[i] : r.old = p \/ r.new = p
    <3>1. Single(i, p)
      BY <2>2, <1>5 DEF Single, RenamedFrom, RenamedTo
    <3>2. [old |-> p, new |-> p] \in Events(i)
      BY <3>1, EventFacts
    <3> QED BY <3>2, <1>2
  <2> QED BY <2>1, <2>2
<1> QED BY <1>2, <1>4, <1>5

\* A path is linked to the one it is renamed to, and else to itself.
LEMMA EdgeFacts ==
    ASSUME CaptureInv, NEW i \in Transitions
    PROVE  \A p, q : Edge(i, p, q) <=>
             \/ \E r \in renames[i] : r.old = p /\ r.new = q
             \/ p = q /\ p \in EventPaths /\ ~RenamedFrom(i, p) /\ ~RenamedTo(i, p)
<1> DEFINE Here(j) == {<<Node(j, e.old), Node(j + 1, e.new)>> : e \in Events(j)}
                        \cup {<<Node(j, p), Node(j + 1, p)>> : p \in Carried(j)}
<1>1. Links = UNION {Here(j) : j \in Transitions}
  BY DEF Links
<1>2. ASSUME NEW j \in Transitions, NEW p, NEW q, <<Node(i, p), Node(i + 1, q)>> \in Here(j)
      PROVE  (\E e \in Events(i) : e.old = p /\ e.new = q) \/ (p = q /\ p \in Carried(i))
  <2>1. \E a, b : /\ <<Node(i, p), Node(i + 1, q)>> = <<Node(j, a), Node(j + 1, b)>>
                  /\ (\E e \in Events(j) : e.old = a /\ e.new = b) \/ (a = b /\ a \in Carried(j))
    BY <1>2
  <2>2. PICK a, b : /\ <<Node(i, p), Node(i + 1, q)>> = <<Node(j, a), Node(j + 1, b)>>
                    /\ (\E e \in Events(j) : e.old = a /\ e.new = b) \/ (a = b /\ a \in Carried(j))
    BY <2>1
  <2>3. Node(i, p) = Node(j, a) /\ Node(i + 1, q) = Node(j + 1, b)
    BY <2>2
  <2>4. i = j /\ p = a /\ q = b
    BY <2>3 DEF Node
  <2> QED BY <2>2, <2>4
<1>3. ASSUME NEW p, NEW q, Edge(i, p, q)
      PROVE  (\E e \in Events(i) : e.old = p /\ e.new = q) \/ (p = q /\ p \in Carried(i))
  <2>1. PICK j \in Transitions : <<Node(i, p), Node(i + 1, q)>> \in Here(j)
    <3> HIDE DEF Here
    <3> QED BY <1>1, <1>3 DEF Edge
  <2> HIDE DEF Here
  <2> QED BY <1>2, <2>1
<1>4. ASSUME NEW p, NEW q,
             (\E e \in Events(i) : e.old = p /\ e.new = q) \/ (p = q /\ p \in Carried(i))
      PROVE  Edge(i, p, q)
  <2>1. <<Node(i, p), Node(i + 1, q)>> \in Here(i)
    BY <1>4
  <2> HIDE DEF Here
  <2> QED BY <2>1, <1>1 DEF Edge
<1>5. \A p : p \in Carried(i) <=> p \in EventPaths /\ ~RenamedFrom(i, p) /\ ~RenamedTo(i, p)
  BY DEF Carried, RenamedFrom, RenamedTo
<1>6. \A p : Single(i, p) => p \in EventPaths /\ ~RenamedFrom(i, p) /\ ~RenamedTo(i, p)
  BY EventPathFacts DEF Single
<1>7. \A p, q : (\E e \in Events(i) : e.old = p /\ e.new = q) <=>
                  (\E r \in renames[i] : r.old = p /\ r.new = q) \/ (p = q /\ Single(i, p))
  <2> TAKE p, q
  <2>1. ASSUME NEW e \in Events(i), e.old = p, e.new = q
        PROVE  (\E r \in renames[i] : r.old = p /\ r.new = q) \/ (p = q /\ Single(i, p))
    <3>1. e \in renames[i] \/ \E a : Single(i, a) /\ e = [old |-> a, new |-> a]
      BY EventFacts
    <3> QED BY <3>1, <2>1
  <2>2. ASSUME NEW r \in renames[i], r.old = p, r.new = q
        PROVE  \E e \in Events(i) : e.old = p /\ e.new = q
    <3>1. r \in Events(i)
      BY EventFacts
    <3> QED BY <3>1, <2>2
  <2>3. ASSUME p = q, Single(i, p)
        PROVE  \E e \in Events(i) : e.old = p /\ e.new = q
    <3>1. [old |-> p, new |-> p] \in Events(i)
      BY <2>3, EventFacts
    <3> QED BY <3>1, <2>3
  <2> QED BY <2>1, <2>2, <2>3
<1> HIDE DEF Here
<1> QED BY <1>3, <1>4, <1>5, <1>6, <1>7

\* A path is linked to one path of the next layer, and to one of the layer before.
LEMMA EdgeUnique ==
    ASSUME CaptureInv, NEW i \in Transitions
    PROVE  /\ \A p, q, s : Edge(i, p, q) /\ Edge(i, p, s) => q = s
           /\ \A p, q, s : Edge(i, p, q) /\ Edge(i, s, q) => p = s
<1>1. \A r, s \in renames[i] : r.old = s.old \/ r.new = s.new => r = s
  BY RenameFacts
<1> QED BY <1>1, EdgeFacts DEF RenamedFrom, RenamedTo

\* Links are edges, and between paths that change.
LEMMA LinkShape ==
    ASSUME CaptureInv
    PROVE  /\ \A l \in Links : \E i \in Transitions : \E p, q \in EventPaths :
                l = <<Node(i, p), Node(i + 1, q)>> /\ Edge(i, p, q)
           /\ Links \subseteq Nodes \X Nodes /\ IsFiniteSet(Links)
<1>1. ASSUME NEW l \in Links
      PROVE  \E i \in Transitions : \E p, q \in EventPaths : l = <<Node(i, p), Node(i + 1, q)>>
  <2>1. PICK i \in Transitions :
          l \in {<<Node(i, e.old), Node(i + 1, e.new)>> : e \in Events(i)}
                  \cup {<<Node(i, p), Node(i + 1, p)>> : p \in Carried(i)}
    BY DEF Links
  <2>2. \A e \in Events(i) : e.old \in EventPaths /\ e.new \in EventPaths
    BY EventPathFacts
  <2>3. Carried(i) \subseteq EventPaths
    BY DEF Carried
  <2> QED BY <2>1, <2>2, <2>3
<1>2. ASSUME NEW l \in Links
      PROVE  \E i \in Transitions : \E p, q \in EventPaths :
               l = <<Node(i, p), Node(i + 1, q)>> /\ Edge(i, p, q)
  BY <1>1 DEF Edge
<1>3. \A i \in DOMAIN layers : \A p \in EventPaths : Node(i, p) \in Nodes
  BY DEF Nodes, Node
<1>4. ASSUME NEW l \in Links
      PROVE  l \in Nodes \X Nodes
  <2>1. PICK i \in Transitions, p \in EventPaths, q \in EventPaths : l = <<Node(i, p), Node(i + 1, q)>>
    BY <1>1
  <2>2. i \in DOMAIN layers /\ i + 1 \in DOMAIN layers
    BY LayerFacts
  <2>3. Node(i, p) \in Nodes /\ Node(i + 1, q) \in Nodes
    BY <2>2, <1>3
  <2> QED BY <2>1, <2>3
<1>5. IsFiniteSet(Nodes)
  <2> DEFINE S == (DOMAIN layers) \X EventPaths
             f == [x \in S |-> Node(x[1], x[2])]
  <2>1. IsFiniteSet(EventPaths) /\ IsFiniteSet(DOMAIN layers)
    <3>1. EventPaths \in SUBSET TreePaths
      BY EventPathFacts
    <3>2. DOMAIN layers = 1 .. Len(layers) /\ Len(layers) \in Int
      BY LayerFacts
    <3> QED BY <3>1, <3>2, FinitePaths, FS_Subset, FS_Interval
  <2>2. IsFiniteSet(S)
    BY <2>1, FS_Product
  <2>3. \A x \in S : f[x] = Node(x[1], x[2]) /\ f[x] \in Nodes
    BY <1>3
  <2>4. ASSUME NEW n \in Nodes
        PROVE  \E x \in S : f[x] = n
    <3>1. n = Node(n.layer, n.path) /\ n.layer \in DOMAIN layers /\ n.path \in EventPaths
      BY DEF Nodes, Node
    <3>2. <<n.layer, n.path>> \in S
      BY <3>1
    <3>3. f[<<n.layer, n.path>>] = n
      BY <3>1, <3>2, <2>3
    <3> QED BY <3>2, <3>3
  <2>5. f \in Surjection(S, Nodes)
    BY <2>3, <2>4 DEF Surjection
  <2> HIDE DEF f, S
  <2> QED BY <2>2, <2>5, FS_Surjection
<1>6. IsFiniteSet(Nodes \X Nodes)
  BY <1>5, FS_Product
<1>7. Links \in SUBSET (Nodes \X Nodes)
  BY <1>4
<1>8. IsFiniteSet(Links)
  BY <1>6, <1>7, FS_Subset
<1> QED BY <1>2, <1>7, <1>8

\* The disjoint sets that _build_groups ends with are the parts that the links
\* tie together.
LEMMA PartitionFacts == CaptureInv => IsPartition(Partition, Nodes, Links)
<1> SUFFICES ASSUME CaptureInv PROVE IsPartition(Partition, Nodes, Links)
  OBVIOUS
<1> DEFINE base == {{n} : n \in Nodes}
           A == SUBSET SUBSET Nodes
           F == [x \in Links \X A |-> Joined(x[1], x[2])]
           g == CHOOSE f : IsMerge(f, Nodes, Links)
<1>1. Partition = g[Links]
  BY DEF Partition, FoldSet, MapThenFoldSet, IsMerge, Joined, Touched, Chosen, Nodes
<1>2. IsFiniteSet(Links) /\ Links \subseteq Nodes \X Nodes
  BY LinkShape
<1>3. base \in A
  OBVIOUS
<1>4. ASSUME NEW l \in Links, NEW groups \in A
      PROVE  Joined(l, groups) \in A
  BY DEF Joined, Touched
<1>5. F \in [Links \X A -> A] /\ \A l \in Links : \A groups \in A : F[<<l, groups>>] = Joined(l, groups)
  BY <1>4
<1> HIDE DEF A, F, base
<1>6. PICK f : IsFold(f, Links, A, base, F)
  BY <1>2, <1>3, <1>5, FoldExists
<1>7. IsMerge(f, Nodes, Links)
  <2>1. f \in [SUBSET Links -> A] /\ f[{}] = base
    BY <1>6 DEF IsFold
  <2>2. ASSUME NEW s \in SUBSET Links, s # {}
        PROVE  f[s] = Joined(Chosen(s), f[s \ {Chosen(s)}])
    <3>1. Chosen(s) \in Links
      BY <2>2 DEF Chosen
    <3>2. f[s \ {Chosen(s)}] \in A
      BY <2>1
    <3> QED BY <3>1, <3>2, <2>2, <1>5, <1>6 DEF IsFold
  <2> QED BY <2>1, <2>2 DEF IsMerge, base
<1>8. IsMerge(g, Nodes, Links)
  BY <1>7
<1> HIDE DEF g
<1> QED BY <1>1, <1>2, <1>8, FoldedPartition

(***************************************************************************)
(* The groups are chains: one path in each of some consecutive layers.     *)
(***************************************************************************)

\* A set of natural numbers has a least one.
LEMMA LeastExists ==
    ASSUME NEW S, S \subseteq Nat, S # {}
    PROVE  \E m \in S : \A k \in S : m <= k
<1>1. PICK m \in S : \A k \in S : <<k, m>> \notin OpToRel(<, Nat)
  BY NatLessThanWellFounded, WFMin
<1>2. ASSUME NEW k \in S
      PROVE  m <= k
  <2>1. m \in Nat /\ k \in Nat
    BY <1>1
  <2>2. ~(k < m)
    BY <1>1, <2>1 DEF OpToRel
  <2> QED BY <2>1, <2>2
<1> QED BY <1>1, <1>2

\* A bounded set of natural numbers has a greatest one.
LEMMA GreatestExists ==
    ASSUME NEW n \in Nat, NEW S, S \subseteq 0 .. n, S # {}
    PROVE  \E m \in S : \A k \in S : k <= m
<1> DEFINE T == {n - k : k \in S}
<1>0. \A k \in S : k \in Nat /\ n - k \in Nat
  OBVIOUS
<1>1. T \subseteq Nat /\ T # {}
  BY <1>0
<1>2. PICK t \in T : \A u \in T : t <= u
  <2> HIDE DEF T
  <2> QED BY <1>1, LeastExists
<1>3. PICK m \in S : t = n - m
  BY <1>2
<1>4. ASSUME NEW k \in S
      PROVE  k <= m
  <2>1. n - k \in T
    OBVIOUS
  <2>2. n - m <= n - k
    BY <2>1, <1>2, <1>3
  <2> QED BY <2>2, <1>0
<1> QED BY <1>4

\* A group has the path p in the layer i.
Has(g, i, p) == Node(i, p) \in g

\* What is in a group.
LEMMA GroupNodes ==
    ASSUME CaptureInv, NEW g \in Partition
    PROVE  /\ g # {}
           /\ \A n \in g : /\ n = Node(n.layer, n.path)
                           /\ n.layer \in DOMAIN layers /\ n.path \in EventPaths
           /\ \A i, p : Has(g, i, p) => i \in DOMAIN layers /\ p \in EventPaths
<1>1. g # {} /\ g \subseteq Nodes
  BY PartitionFacts DEF IsPartition, Covers
<1>2. ASSUME NEW n \in Nodes
      PROVE  n = Node(n.layer, n.path) /\ n.layer \in DOMAIN layers /\ n.path \in EventPaths
  BY DEF Nodes, Node
<1>3. ASSUME NEW i, NEW p, Node(i, p) \in Nodes
      PROVE  i \in DOMAIN layers /\ p \in EventPaths
  BY <1>3 DEF Nodes, Node
<1> QED BY <1>1, <1>2, <1>3 DEF Has

\* Linked paths are in the same group.
LEMMA GroupLinks ==
    ASSUME CaptureInv, NEW g \in Partition, NEW i \in Transitions, NEW p, NEW q, Edge(i, p, q)
    PROVE  Has(g, i, p) <=> Has(g, i + 1, q)
<1> DEFINE l == <<Node(i, p), Node(i + 1, q)>>
<1>1. l \in Links
  BY DEF Edge
<1>2. Closed(g, Links)
  BY PartitionFacts DEF IsPartition, Together
<1>3. l[1] \in g <=> l[2] \in g
  <2> HIDE DEF l
  <2> QED BY <1>1, <1>2 DEF Closed
<1> QED BY <1>3 DEF Has

\* No link leaves or enters the set X.
Linked(X) ==
    \A i \in Transitions : \A p, q :
      Edge(i, p, q) => (Node(i, p) \in X <=> Node(i + 1, q) \in X)

\* A group is inside of every such set that it meets.
LEMMA GroupWithin ==
    ASSUME CaptureInv, NEW g \in Partition, NEW X, Linked(X), NEW n \in g, n \in X
    PROVE  g \subseteq X
<1>1. ASSUME NEW l \in Links
      PROVE  l[1] \in X <=> l[2] \in X
  <2>1. PICK i \in Transitions, p \in EventPaths, q \in EventPaths :
          l = <<Node(i, p), Node(i + 1, q)>> /\ Edge(i, p, q)
    BY LinkShape
  <2>2. l[1] = Node(i, p) /\ l[2] = Node(i + 1, q)
    BY <2>1
  <2> QED BY <2>1, <2>2 DEF Linked
<1>2. Closed(X, Links)
  BY <1>1 DEF Closed
<1>3. Tied(Partition, Links)
  BY PartitionFacts DEF IsPartition
<1> QED BY <1>2, <1>3 DEF Tied

\* Two groups that meet are one.
LEMMA GroupsApart ==
    ASSUME CaptureInv, NEW g \in Partition, NEW h \in Partition, NEW n \in g, n \in h
    PROVE  g = h
BY PartitionFacts DEF IsPartition, Separate

\* A path that changes is in a group, in every layer.
LEMMA GroupOf ==
    ASSUME CaptureInv, NEW i \in DOMAIN layers, NEW p \in EventPaths
    PROVE  \E g \in Partition : Has(g, i, p)
<1>1. Node(i, p) \in Nodes
  BY DEF Node, Nodes
<1> QED BY <1>1, PartitionFacts DEF IsPartition, Covers, Has

\* Every node of a group but its first is linked to one of the layer before.
LEMMA Predecessors ==
    ASSUME CaptureInv, NEW g \in Partition,
           NEW a \in g, \A n \in g : a.layer <= n.layer
    PROVE  \A i, q : Has(g, i, q) /\ Node(i, q) # a =>
             \E j \in Transitions : \E p : i = j + 1 /\ Edge(j, p, q) /\ Has(g, j, p)
<1> DEFINE Onward(Y) == \A i \in Transitions : \A p, q :
                          Edge(i, p, q) /\ Node(i, p) \in Y => Node(i + 1, q) \in Y
           X == {n \in g : \A Y : a \in Y /\ Onward(Y) => n \in Y}
           Linking(n) == \E j \in Transitions : \E p :
                           n.layer = j + 1 /\ Edge(j, p, n.path) /\ Has(g, j, p)
           Z == {a} \cup {n \in g : Linking(n)}
<1>0. \A i \in Transitions : i \in Nat
  BY LayerFacts
<1>1. ASSUME NEW i \in Transitions, NEW p, NEW q, Edge(i, p, q), Node(i, p) \in X
      PROVE  Node(i + 1, q) \in X
  <2>1. Node(i + 1, q) \in g
    BY <1>1, GroupLinks DEF Has
  <2> QED BY <2>1, <1>1
<1>2. ASSUME NEW i \in Transitions, NEW p, NEW q, Edge(i, p, q), Node(i + 1, q) \in X
      PROVE  Node(i, p) \in X
  <2>1. Node(i, p) \in g
    BY <1>2, GroupLinks DEF Has
  <2> SUFFICES ASSUME NEW Y, a \in Y, Onward(Y), Node(i, p) \notin Y
               PROVE  FALSE
    BY <2>1
  <2> DEFINE n == Node(i + 1, q)
             V == Y \ {n}
  <2>2. a # n
    <3>1. a.layer <= Node(i, p).layer
      BY <2>1
    <3>2. Node(i, p).layer = i /\ n.layer = i + 1 /\ i \in Nat
      BY <1>0 DEF Node
    <3>3. ~(i + 1 <= i)
      BY <3>2
    <3> HIDE DEF n
    <3> QED BY <3>1, <3>2, <3>3
  <2>3. ASSUME NEW j \in Transitions, NEW r, NEW s, Edge(j, r, s), Node(j, r) \in V
        PROVE  Node(j + 1, s) \in V
    <3>1. Node(j + 1, s) \in Y /\ Node(j, r) \in Y
      BY <2>3
    <3>2. ASSUME Node(j + 1, s) = n
          PROVE  FALSE
      <4>1. j + 1 = i + 1 /\ s = q
        BY <3>2 DEF Node
      <4>2. j = i
        BY <4>1, <1>0
      <4>3. r = p
        BY <4>1, <4>2, <1>2, <2>3, EdgeUnique
      <4> QED BY <4>2, <4>3, <3>1
    <3> QED BY <3>1, <3>2
  <2>4. a \in V /\ Onward(V)
    <3> HIDE DEF V
    <3>1. a \in V
      BY <2>2 DEF V
    <3> QED BY <2>3, <3>1
  <2>5. n \in V
    <3> HIDE DEF V
    <3> QED BY <2>4, <1>2
  <2> QED BY <2>5
<1>3. a \in X
  OBVIOUS
<1>4. g \subseteq X
  <2> HIDE DEF X
  <2>1. Linked(X)
    BY <1>1, <1>2 DEF Linked
  <2> QED BY <1>3, <2>1, GroupWithin
<1>5. ASSUME NEW i \in Transitions, NEW p, NEW q, Edge(i, p, q), Node(i, p) \in Z
      PROVE  Node(i + 1, q) \in Z
  <2>1. Node(i, p) \in g
    BY <1>5
  <2>2. Node(i + 1, q) \in g
    BY <2>1, <1>5, GroupLinks DEF Has
  <2>3. Node(i + 1, q).layer = i + 1 /\ Node(i + 1, q).path = q
    BY DEF Node
  <2>4. Linking(Node(i + 1, q))
    BY <2>1, <2>3, <1>5 DEF Has
  <2> HIDE DEF Linking
  <2> QED BY <2>2, <2>4
<1>6. a \in Z /\ Onward(Z)
  <2>1. a \in Z
    OBVIOUS
  <2> HIDE DEF Z
  <2> QED BY <1>5, <2>1
<1>7. g \subseteq Z
  <2> HIDE DEF Z, Onward
  <2> QED BY <1>4, <1>6
<1>8. ASSUME NEW i, NEW q, Has(g, i, q), Node(i, q) # a
      PROVE  \E j \in Transitions : \E p : i = j + 1 /\ Edge(j, p, q) /\ Has(g, j, p)
  <2>1. Linking(Node(i, q))
    <3> HIDE DEF Linking
    <3> QED BY <1>7, <1>8 DEF Has
  <2>2. Node(i, q).layer = i /\ Node(i, q).path = q
    BY DEF Node
  <2> QED BY <2>1, <2>2
<1> QED BY <1>8

\* A group has a first node.
LEMMA FirstNode ==
    ASSUME CaptureInv, NEW g \in Partition
    PROVE  \E a \in g : \A n \in g : a.layer <= n.layer
<1> DEFINE S == {n.layer : n \in g}
<1>1. g # {} /\ \A n \in g : n.layer \in 1 .. Len(layers)
  BY GroupNodes, LayerFacts
<1>2. S \subseteq Nat /\ S # {}
  BY <1>1
<1>3. PICK m \in S : \A k \in S : m <= k
  <2> HIDE DEF S
  <2> QED BY <1>2, LeastExists
<1>4. PICK a \in g : m = a.layer
  BY <1>3
<1> QED BY <1>3, <1>4

\* No group has two paths in a layer.
LEMMA OnePath ==
    ASSUME CaptureInv, NEW g \in Partition
    PROVE  \A i, p, q : Has(g, i, p) /\ Has(g, i, q) => p = q
<1> DEFINE One(i) == \A p, q : Has(g, i, p) /\ Has(g, i, q) => p = q
           S == {i \in Nat : One(i)}
<1>0. PICK a \in g : \A n \in g : a.layer <= n.layer
  BY FirstNode
<1>1. \A i, p : Has(g, i, p) => i \in Nat /\ i # 0
  BY GroupNodes, LayerFacts
<1>2. 0 \in S
  BY <1>1
<1>3. ASSUME NEW i \in Nat, i \in S
      PROVE  i + 1 \in S
  <2> SUFFICES ASSUME NEW p, NEW q, Has(g, i + 1, p), Has(g, i + 1, q)
               PROVE  p = q
    OBVIOUS
  <2>1. ASSUME NEW r, Has(g, i + 1, r), Node(i + 1, r) # a
        PROVE  i \in Transitions /\ \E s : Edge(i, s, r) /\ Has(g, i, s)
    <3>1. PICK j \in Transitions : \E s : i + 1 = j + 1 /\ Edge(j, s, r) /\ Has(g, j, s)
      BY <2>1, <1>0, Predecessors
    <3>2. j \in Nat
      BY LayerFacts
    <3>3. j = i
      BY <3>1, <3>2
    <3> QED BY <3>1, <3>3
  <2>2. ASSUME NEW s, Has(g, i, s)
        PROVE  a.layer <= i
    <3>1. a.layer <= Node(i, s).layer
      BY <2>2, <1>0 DEF Has
    <3> QED BY <3>1 DEF Node
  <2>3. ASSUME NEW r, Node(i + 1, r) = a
        PROVE  a.layer = i + 1 /\ ~(a.layer <= i)
    <3>1. a.layer = i + 1
      BY <2>3 DEF Node
    <3> QED BY <3>1
  <2>4. CASE Node(i + 1, p) = a \/ Node(i + 1, q) = a
    <3>1. Node(i + 1, p) = Node(i + 1, q)
      BY <2>1, <2>2, <2>3, <2>4
    <3> QED BY <3>1 DEF Node
  <2>5. CASE Node(i + 1, p) # a /\ Node(i + 1, q) # a
    <3>1. i \in Transitions
      BY <2>1, <2>5
    <3>2. PICK s : Edge(i, s, p) /\ Has(g, i, s)
      BY <2>1, <2>5
    <3>3. PICK t : Edge(i, t, q) /\ Has(g, i, t)
      BY <2>1, <2>5
    <3>4. s = t
      BY <3>2, <3>3, <1>3
    <3> QED BY <3>1, <3>2, <3>3, <3>4, EdgeUnique
  <2> QED BY <2>4, <2>5
<1> HIDE DEF S
<1>4. Nat \subseteq S
  BY <1>2, <1>3, Induction
<1>5. \A i \in Nat : One(i)
  BY <1>4 DEF S
<1> QED BY <1>1, <1>5

\* The paths of a group in consecutive layers are linked.
LEMMA Consecutive ==
    ASSUME CaptureInv, NEW g \in Partition, NEW i \in Transitions, NEW p, NEW q,
           Has(g, i, p), Has(g, i + 1, q)
    PROVE  Edge(i, p, q)
<1>1. PICK a \in g : \A n \in g : a.layer <= n.layer
  BY FirstNode
<1>2. i \in Nat
  BY LayerFacts
<1>3. Node(i + 1, q) # a
  <2>1. a.layer <= i
    <3>1. a.layer <= Node(i, p).layer
      BY <1>1 DEF Has
    <3> QED BY <3>1 DEF Node
  <2>2. Node(i + 1, q).layer = i + 1
    BY DEF Node
  <2>3. ~(i + 1 <= i)
    BY <1>2
  <2> QED BY <2>1, <2>2, <2>3
<1>4. PICK j \in Transitions : \E s : i + 1 = j + 1 /\ Edge(j, s, q) /\ Has(g, j, s)
  BY <1>1, <1>3, Predecessors
<1>5. j = i
  <2>1. j \in Nat
    BY LayerFacts
  <2> QED BY <2>1, <1>2, <1>4
<1> QED BY <1>4, <1>5, OnePath

\* Where nothing follows, a group ends; where nothing precedes, it begins.
LEMMA GroupEnds ==
    ASSUME CaptureInv, NEW g \in Partition, NEW i \in Transitions, NEW p
    PROVE  /\ Has(g, i, p) /\ (~\E q : Edge(i, p, q)) => \A n \in g : n.layer <= i
           /\ Has(g, i + 1, p) /\ (~\E q : Edge(i, q, p)) => \A n \in g : n.layer >= i + 1
<1>0. i \in Nat /\ \A j \in Transitions : j \in Nat
  BY LayerFacts
<1>1. ASSUME Has(g, i, p), ~\E q : Edge(i, p, q)
      PROVE  \A n \in g : n.layer <= i
  <2> DEFINE X == {n \in g : n.layer <= i}
  <2>1. Node(i, p) \in g /\ Node(i, p) \in X
    <3>1. Node(i, p).layer = i /\ i <= i
      BY <1>0 DEF Node
    <3> QED BY <3>1, <1>1 DEF Has
  <2>2. ASSUME NEW j \in Transitions, NEW r, NEW s, Edge(j, r, s)
        PROVE  Node(j, r) \in X <=> Node(j + 1, s) \in X
    <3>1. Node(j, r) \in g <=> Node(j + 1, s) \in g
      BY <2>2, GroupLinks DEF Has
    <3>2. Node(j, r).layer = j /\ Node(j + 1, s).layer = j + 1
      BY DEF Node
    <3>3. ASSUME Node(j, r) \in g
          PROVE  j <= i <=> j + 1 <= i
      <4>1. j # i
        BY <3>3, <2>2, <1>1, OnePath DEF Has
      <4>2. j \in Nat /\ i \in Nat
        BY <1>0
      <4> QED BY <4>1, <4>2
    <3> QED BY <3>1, <3>2, <3>3
  <2>3. Linked(X)
    <3> HIDE DEF X
    <3> QED BY <2>2 DEF Linked
  <2>4. g \subseteq X
    <3> HIDE DEF X
    <3> QED BY <2>1, <2>3, GroupWithin
  <2> QED BY <2>4
<1>2. ASSUME Has(g, i + 1, p), ~\E q : Edge(i, q, p)
      PROVE  \A n \in g : n.layer >= i + 1
  <2> DEFINE X == {n \in g : n.layer >= i + 1}
  <2>1. Node(i + 1, p) \in g /\ Node(i + 1, p) \in X
    <3>1. Node(i + 1, p).layer = i + 1 /\ i + 1 >= i + 1
      BY <1>0 DEF Node
    <3> QED BY <3>1, <1>2 DEF Has
  <2>2. ASSUME NEW j \in Transitions, NEW r, NEW s, Edge(j, r, s)
        PROVE  Node(j, r) \in X <=> Node(j + 1, s) \in X
    <3>1. Node(j, r) \in g <=> Node(j + 1, s) \in g
      BY <2>2, GroupLinks DEF Has
    <3>2. Node(j, r).layer = j /\ Node(j + 1, s).layer = j + 1
      BY DEF Node
    <3>3. ASSUME Node(j + 1, s) \in g
          PROVE  j >= i + 1 <=> j + 1 >= i + 1
      <4>1. j # i
        BY <3>3, <2>2, <1>2, OnePath DEF Has
      <4>2. j \in Nat /\ i \in Nat
        BY <1>0
      <4> QED BY <4>1, <4>2
    <3> QED BY <3>1, <3>2, <3>3
  <2>3. Linked(X)
    <3> HIDE DEF X
    <3> QED BY <2>2 DEF Linked
  <2>4. g \subseteq X
    <3> HIDE DEF X
    <3> QED BY <2>1, <2>3, GroupWithin
  <2> QED BY <2>4
<1> QED BY <1>1, <1>2

\* A group that reaches a later layer has a path in the next one.
LEMMA Onwards ==
    ASSUME CaptureInv, NEW g \in Partition, NEW a, NEW p, NEW b, NEW q,
           Has(g, a, p), Has(g, b, q), a < b
    PROVE  a \in Transitions /\ \E s : Edge(a, p, s) /\ Has(g, a + 1, s)
<1>1. a \in 1 .. Len(layers) /\ b \in 1 .. Len(layers) /\ Len(layers) \in Nat
  BY GroupNodes, LayerFacts
<1>2. a \in Transitions
  BY <1>1 DEF Transitions
<1>3. \E s : Edge(a, p, s)
  <2> SUFFICES ASSUME ~\E s : Edge(a, p, s) PROVE FALSE
    OBVIOUS
  <2>1. \A n \in g : n.layer <= a
    BY <1>2, GroupEnds
  <2>2. Node(b, q).layer <= a
    BY <2>1 DEF Has
  <2>3. b <= a
    BY <2>2 DEF Node
  <2> QED BY <2>3, <1>1
<1>4. PICK s : Edge(a, p, s)
  BY <1>3
<1>5. Has(g, a + 1, s)
  BY <1>2, <1>4, GroupLinks
<1> QED BY <1>2, <1>4, <1>5

\* A group has a path in every layer between two it has one in.
LEMMA Between ==
    ASSUME CaptureInv, NEW g \in Partition, NEW a, NEW p, NEW b, NEW q,
           Has(g, a, p), Has(g, b, q)
    PROVE  \A k \in a .. b : \E s : Has(g, k, s)
<1> DEFINE S == {k \in Nat : a <= k /\ k <= b => \E s : Has(g, k, s)}
<1>0. a \in Nat /\ b \in Nat /\ a # 0
  BY GroupNodes, LayerFacts
<1>1. 0 \in S
  BY <1>0
<1>2. ASSUME NEW k \in Nat, k \in S
      PROVE  k + 1 \in S
  <2> SUFFICES ASSUME a <= k + 1, k + 1 <= b
               PROVE  \E s : Has(g, k + 1, s)
    OBVIOUS
  <2>1. CASE a = k + 1
    BY <2>1
  <2>2. CASE a # k + 1
    <3>1. a <= k /\ k <= b /\ k < b
      BY <2>2, <1>0
    <3>2. PICK s : Has(g, k, s)
      BY <3>1, <1>2
    <3> HIDE DEF S
    <3> QED BY <3>1, <3>2, Onwards
  <2> QED BY <2>1, <2>2
<1> HIDE DEF S
<1>3. Nat \subseteq S
  BY <1>1, <1>2, Induction
<1> QED BY <1>0, <1>3 DEF S

\* The origins of a group are the places where its path or its state changes.
LEMMA OriginFacts ==
    ASSUME CaptureInv, NEW g \in Partition, NEW i \in Transitions
    PROVE  /\ i \in Origins(g) => \E p, q : Has(g, i, p) /\ Has(g, i + 1, q)
           /\ \A p, q : Has(g, i, p) /\ Has(g, i + 1, q) =>
                (i \in Origins(g) <=> p # q \/ layers[i][p] # layers[i + 1][q])
<1>1. \A r \in renames[i] :
        /\ Edge(i, r.old, r.new) /\ r.old # r.new /\ r \in Events(i)
        /\ layers[i][r.old] # Missing /\ layers[i][r.new] = Missing
  BY RenameFacts, EdgeFacts, EventFacts
<1>2. \A p : Single(i, p) => Edge(i, p, p) /\ [old |-> p, new |-> p] \in Events(i)
  BY EventPathFacts, EdgeFacts, EventFacts DEF Single
<1>3. i \in Origins(g) <=> \E e \in Events(i) : Has(g, i, e.old)
  BY DEF Origins, Has
<1>4. ASSUME NEW e \in Events(i)
      PROVE  /\ Edge(i, e.old, e.new)
             /\ e.old # e.new \/ Single(i, e.old)
  <2>1. e \in renames[i] \/ \E p : Single(i, p) /\ e = [old |-> p, new |-> p]
    BY EventFacts
  <2> QED BY <2>1, <1>1, <1>2
<1>5. ASSUME NEW e \in Events(i), Has(g, i, e.old)
      PROVE  Has(g, i + 1, e.new)
  BY <1>4, <1>5, GroupLinks
<1>6. ASSUME NEW p, NEW q, Has(g, i, p), Has(g, i + 1, q)
      PROVE  i \in Origins(g) <=> p # q \/ layers[i][p] # layers[i + 1][q]
  <2>1. ASSUME NEW e \in Events(i), Has(g, i, e.old)
        PROVE  p # q \/ layers[i][p] # layers[i + 1][q]
    <3>1. e.old = p /\ e.new = q
      BY <1>5, <1>6, <2>1, OnePath
    <3> QED BY <3>1, <1>4 DEF Single
  <2>2. Edge(i, p, q)
    BY <1>6, Consecutive
  <2>3. CASE \E r \in renames[i] : r.old = p /\ r.new = q
    BY <2>3, <1>1, <1>3, <1>6
  <2>4. CASE p = q /\ p \in EventPaths /\ ~RenamedFrom(i, p) /\ ~RenamedTo(i, p)
    <3>1. ASSUME layers[i][p] # layers[i + 1][q]
          PROVE  i \in Origins(g)
      <4>1. Single(i, p)
        BY <2>4, <3>1, EventPathFacts DEF Single
      <4>2. [old |-> p, new |-> p] \in Events(i) /\ [old |-> p, new |-> p].old = p
        BY <4>1, <1>2
      <4> QED BY <4>2, <1>3, <1>6
    <3> QED BY <3>1, <2>1, <2>4, <1>3
  <2> QED BY <2>2, <2>3, <2>4, EdgeFacts
<1> QED BY <1>3, <1>5, <1>6

\* Between its origins, a group keeps its path and its state.
LEMMA QuietWalk ==
    ASSUME CaptureInv, NEW g \in Partition, NEW a, NEW p, NEW b, NEW q,
           Has(g, a, p), Has(g, b, q), \A m \in a .. b - 1 : m \notin Origins(g)
    PROVE  a <= b => p = q /\ layers[a][p] = layers[b][q]
<1> DEFINE Same(k) == Has(g, k, p) /\ layers[k][p] = layers[a][p]
           S == {k \in Nat : a <= k /\ k <= b => Same(k)}
<1>0. a \in Nat /\ b \in Nat /\ a # 0
  BY GroupNodes, LayerFacts
<1>1. 0 \in S
  BY <1>0
<1>2. ASSUME NEW k \in Nat, k \in S
      PROVE  k + 1 \in S
  <2> SUFFICES ASSUME a <= k + 1, k + 1 <= b
               PROVE  Same(k + 1)
    OBVIOUS
  <2>1. CASE a = k + 1
    BY <2>1
  <2>2. CASE a # k + 1
    <3>1. a <= k /\ k <= b /\ k < b /\ k \in a .. b - 1
      BY <2>2, <1>0
    <3>2. Same(k)
      BY <3>1, <1>2
    <3>3. k \notin Origins(g)
      BY <3>1
    <3>4. k \in Transitions /\ \E s : Edge(k, p, s) /\ Has(g, k + 1, s)
      BY <3>1, <3>2, Onwards
    <3>5. PICK s : Has(g, k + 1, s)
      BY <3>4
    <3>6. p = s /\ layers[k][p] = layers[k + 1][s]
      BY <3>2, <3>3, <3>4, <3>5, OriginFacts
    <3> QED BY <3>2, <3>5, <3>6
  <2> QED BY <2>1, <2>2
<1> HIDE DEF S
<1>3. Nat \subseteq S
  BY <1>1, <1>2, Induction
<1>4. a <= b => Same(b)
  BY <1>0, <1>3 DEF S
<1> QED BY <1>4, OnePath

\* A path that is the same file, or missing, in some layers in a row is in one
\* group there.
LEMMA SameRun ==
    ASSUME CaptureInv, NEW g \in Partition, NEW p \in EventPaths,
           NEW a \in DOMAIN layers, NEW b \in DOMAIN layers,
           \A m \in a .. b : layers[m][p] = layers[a][p]
    PROVE  a <= b => (Has(g, a, p) <=> Has(g, b, p))
<1> DEFINE S == {k \in Nat : a <= k /\ k <= b => (Has(g, a, p) <=> Has(g, k, p))}
<1>0. a \in Nat /\ b \in Nat /\ a # 0 /\ b <= Len(layers) /\ Len(layers) \in Nat
  BY LayerFacts
<1>1. 0 \in S
  BY <1>0
<1>2. ASSUME NEW k \in Nat, k \in S
      PROVE  k + 1 \in S
  <2> SUFFICES ASSUME a <= k + 1, k + 1 <= b
               PROVE  Has(g, a, p) <=> Has(g, k + 1, p)
    OBVIOUS
  <2>1. CASE a = k + 1
    BY <2>1
  <2>2. CASE a # k + 1
    <3>1. a <= k /\ k <= b /\ k \in a .. b /\ k + 1 \in a .. b /\ k \in 1 .. Len(layers) - 1
      BY <2>2, <1>0
    <3>2. Has(g, a, p) <=> Has(g, k, p)
      BY <3>1, <1>2
    <3>3. k \in Transitions
      BY <3>1 DEF Transitions
    <3>4. layers[k][p] = layers[k + 1][p]
      BY <3>1
    <3>5. ~RenamedFrom(k, p) /\ ~RenamedTo(k, p)
      BY <3>3, <3>4, RenameFacts DEF RenamedFrom, RenamedTo
    <3>6. Edge(k, p, p)
      BY <3>3, <3>5, EdgeFacts
    <3>7. Has(g, k, p) <=> Has(g, k + 1, p)
      BY <3>3, <3>6, GroupLinks
    <3> QED BY <3>2, <3>7
  <2> QED BY <2>1, <2>2
<1> HIDE DEF S
<1>3. Nat \subseteq S
  BY <1>1, <1>2, Induction
<1> QED BY <1>0, <1>3 DEF S

(***************************************************************************)
(* What stops an assembly.                                                 *)
(***************************************************************************)

\* A group of a change is tied together, and has an origin.
LEMMA GroupsFacts ==
    \A g : g \in Groups <=> g \in Partition /\ Origins(g) # {}
<1>1. \A g : Origins(g) # {} <=> \E i \in Transitions : \E e \in Events(i) : Node(i, e.old) \in g
  BY DEF Origins
<1> QED BY <1>1 DEF Groups

\* "logical change has multiple paths in one layer" is never raised.
LEMMA NeverAmbiguous == CaptureInv => \A g \in Groups : ~Ambiguous(g)
<1> SUFFICES ASSUME CaptureInv, NEW g \in Groups, NEW m \in g, NEW n \in g,
                    m.layer = n.layer, m.path # n.path
             PROVE  FALSE
  BY DEF Ambiguous
<1>1. g \in Partition
  BY GroupsFacts
<1>2. m = Node(m.layer, m.path) /\ n = Node(n.layer, n.path)
  BY <1>1, GroupNodes
<1>3. Has(g, m.layer, m.path) /\ Has(g, m.layer, n.path)
  BY <1>2 DEF Has
<1> QED BY <1>1, <1>3, OnePath

\* A path is not linked onwards where a rename made it, and not backwards where
\* a rename took it away.
LEMMA Breaks ==
    ASSUME CaptureInv, NEW i \in Transitions, NEW p \in EventPaths
    PROVE  /\ (\E q : Edge(i, p, q)) <=> ~RenamedTo(i, p)
           /\ (\E q : Edge(i, q, p)) <=> ~RenamedFrom(i, p)
<1>1. \A r \in renames[i] : /\ layers[i][r.old] # Missing /\ layers[i + 1][r.old] = Missing
                            /\ layers[i][r.new] = Missing /\ layers[i + 1][r.new] # Missing
  BY RenameFacts
<1> QED BY <1>1, EdgeFacts DEF RenamedFrom, RenamedTo

\* Reused, with the names used here.
LEMMA ReusedMeaning ==
    Reused <=> \E i, j \in Transitions : i < j /\ \E p \in TreePaths :
      \/ /\ RenamedFrom(i, p) /\ ~RenamedTo(j, p)
         /\ layers[j][p] = Missing /\ layers[j + 1][p] # Missing
      \/ /\ RenamedTo(j, p) /\ ~RenamedFrom(i, p)
         /\ layers[i][p] # Missing /\ layers[i + 1][p] = Missing
BY DEF Reused, RenamedFrom, RenamedTo, Added, Gone

\* A group that starts late starts with a path that was renamed away and is made
\* again later.
LEMMA StartsLate ==
    ASSUME CaptureInv, NEW g \in Groups, NEW m \in DOMAIN layers,
           \A n \in g : n.layer > m
    PROVE  Reused
<1>0. g \in Partition /\ Origins(g) # {} /\ Origins(g) \subseteq Transitions
  BY GroupsFacts DEF Origins
<1>1. \A i \in Transitions : i \in 1 .. 3
  BY LayerFacts
<1>2. PICK a \in g : \A n \in g : a.layer <= n.layer
  BY <1>0, FirstNode
<1> DEFINE l == a.layer
           p == a.path
<1>3. Has(g, l, p) /\ l \in 1 .. Len(layers) /\ m \in 1 .. Len(layers) /\ Len(layers) \in Nat
      /\ p \in EventPaths
  BY <1>0, GroupNodes, LayerFacts DEF Has
<1>4. l > m
  OBVIOUS
<1> HIDE DEF l, p
<1>5. l - 1 \in Transitions /\ (l - 1) + 1 = l /\ l - 1 \in Nat
  BY <1>3, <1>4 DEF Transitions
<1>6. RenamedFrom(l - 1, p)
  <2> SUFFICES ASSUME ~RenamedFrom(l - 1, p) PROVE FALSE
    OBVIOUS
  <2>1. PICK q : Edge(l - 1, q, p)
    BY <1>3, <1>5, Breaks
  <2>2. Has(g, l - 1, q)
    BY <1>0, <1>3, <1>5, <2>1, GroupLinks
  <2>3. l <= Node(l - 1, q).layer
    BY <1>2, <2>2 DEF Has, l
  <2>4. l <= l - 1
    BY <2>3 DEF Node
  <2> QED BY <2>4, <1>3
<1>7. layers[l][p] = Missing
  BY <1>5, <1>6, RenameFacts DEF RenamedFrom
<1>8. PICK j \in Origins(g) : \A k \in Origins(g) : j <= k
  <2>1. Origins(g) \subseteq Nat
    BY <1>0, <1>1
  <2> QED BY <2>1, <1>0, LeastExists
<1>9. j \in Transitions /\ j \in Nat
  BY <1>0, <1>1
<1>10. PICK q, s : Has(g, j, q) /\ Has(g, j + 1, s)
  BY <1>0, <1>9, OriginFacts
<1>11. l <= j
  <2>1. l <= Node(j, q).layer
    BY <1>2, <1>10 DEF Has, l
  <2> QED BY <2>1 DEF Node
<1>12. p = q /\ layers[j][p] = Missing
  <2>1. \A k \in l .. j - 1 : k \notin Origins(g)
    <3> SUFFICES ASSUME NEW k \in l .. j - 1, k \in Origins(g) PROVE FALSE
      OBVIOUS
    <3>1. j <= k
      BY <1>8
    <3> QED BY <3>1, <1>3, <1>9
  <2> QED BY <2>1, <1>0, <1>3, <1>7, <1>10, <1>11, QuietWalk
<1>13. p # s \/ layers[j][p] # layers[j + 1][s]
  BY <1>0, <1>9, <1>10, <1>12, OriginFacts
<1>14. Edge(j, p, s)
  BY <1>0, <1>9, <1>10, <1>12, Consecutive
<1>15. ~RenamedFrom(j, p)
  BY <1>9, <1>12, RenameFacts DEF RenamedFrom
<1>16. p = s /\ ~RenamedTo(j, p)
  BY <1>9, <1>14, <1>15, EdgeFacts DEF RenamedFrom
<1>17. layers[j][p] = Missing /\ layers[j + 1][p] # Missing
  BY <1>12, <1>13, <1>16
<1>18. p \in TreePaths
  BY <1>3, EventPathFacts
<1>19. l - 1 < j
  BY <1>3, <1>9, <1>11
<1> QED BY <1>5, <1>6, <1>9, <1>16, <1>17, <1>18, <1>19, ReusedMeaning

\* A group that ends early ends with a path that was deleted before and is the
\* target of a rename then.
LEMMA EndsEarly ==
    ASSUME CaptureInv, NEW g \in Groups, NEW m \in DOMAIN layers,
           \A n \in g : n.layer < m
    PROVE  Reused
<1>0. g \in Partition /\ Origins(g) # {} /\ Origins(g) \subseteq Transitions
  BY GroupsFacts DEF Origins
<1>1. \A i \in Transitions : i \in 1 .. 3
  BY LayerFacts
<1>2. PICK b \in g : \A n \in g : n.layer <= b.layer
  <2> DEFINE S == {n.layer : n \in g}
  <2>1. g # {} /\ \A n \in g : n.layer \in 1 .. Len(layers)
    BY <1>0, GroupNodes, LayerFacts
  <2>2. Len(layers) \in Nat
    BY LayerFacts
  <2>3. S \subseteq 0 .. Len(layers) /\ S # {}
    BY <2>1, <2>2
  <2>4. PICK t \in S : \A k \in S : k <= t
    <3> HIDE DEF S
    <3> QED BY <2>2, <2>3, GreatestExists
  <2> QED BY <2>4
<1> DEFINE h == b.layer
           p == b.path
<1>3. Has(g, h, p) /\ h \in 1 .. Len(layers) /\ m \in 1 .. Len(layers) /\ Len(layers) \in Nat
      /\ p \in EventPaths
  BY <1>0, GroupNodes, LayerFacts DEF Has
<1>4. h < m
  OBVIOUS
<1> HIDE DEF h, p
<1>5. h \in Transitions /\ h \in Nat
  BY <1>3, <1>4 DEF Transitions
<1>6. RenamedTo(h, p)
  <2> SUFFICES ASSUME ~RenamedTo(h, p) PROVE FALSE
    OBVIOUS
  <2>1. PICK q : Edge(h, p, q)
    BY <1>3, <1>5, Breaks
  <2>2. Has(g, h + 1, q)
    BY <1>0, <1>3, <1>5, <2>1, GroupLinks
  <2>3. Node(h + 1, q).layer <= h
    BY <1>2, <2>2 DEF Has, h
  <2>4. h + 1 <= h
    BY <2>3 DEF Node
  <2> QED BY <2>4, <1>3
<1>7. layers[h][p] = Missing
  BY <1>5, <1>6, RenameFacts DEF RenamedTo
<1>8. PICK i \in Origins(g) : \A k \in Origins(g) : k <= i
  <2>1. Origins(g) \subseteq 0 .. 3
    BY <1>0, <1>1
  <2>2. 3 \in Nat
    OBVIOUS
  <2> QED BY <2>1, <2>2, <1>0, GreatestExists
<1>9. i \in Transitions /\ i \in Nat
  BY <1>0, <1>1
<1>10. PICK q, s : Has(g, i, q) /\ Has(g, i + 1, s)
  BY <1>0, <1>9, OriginFacts
<1>11. i + 1 <= h
  <2>1. Node(i + 1, s).layer <= h
    BY <1>2, <1>10 DEF Has, h
  <2> QED BY <2>1 DEF Node
<1>12. p = s /\ layers[i + 1][p] = Missing
  <2>1. \A k \in i + 1 .. h - 1 : k \notin Origins(g)
    <3> SUFFICES ASSUME NEW k \in i + 1 .. h - 1, k \in Origins(g) PROVE FALSE
      OBVIOUS
    <3>1. k <= i
      BY <1>8
    <3> QED BY <3>1, <1>5, <1>9
  <2>2. s = p /\ layers[i + 1][s] = layers[h][p]
    BY <2>1, <1>0, <1>3, <1>10, <1>11, QuietWalk
  <2> QED BY <2>2, <1>7
<1>13. q # p \/ layers[i][q] # layers[i + 1][p]
  BY <1>0, <1>9, <1>10, <1>12, OriginFacts
<1>14. Edge(i, q, p)
  BY <1>0, <1>9, <1>10, <1>12, Consecutive
<1>15. ~RenamedTo(i, p)
  BY <1>9, <1>12, RenameFacts DEF RenamedTo
<1>16. p = q /\ ~RenamedFrom(i, p)
  BY <1>9, <1>14, <1>15, EdgeFacts DEF RenamedTo
<1>17. layers[i][p] # Missing /\ layers[i + 1][p] = Missing
  BY <1>12, <1>13, <1>16
<1>18. p \in TreePaths
  BY <1>3, EventPathFacts
<1>19. i < h
  BY <1>5, <1>9, <1>11
<1> QED BY <1>5, <1>6, <1>9, <1>16, <1>17, <1>18, <1>19, ReusedMeaning

\* A change lacks a layer only where a path is reused.
LEMMA IncompleteIsReused ==
    ASSUME CaptureInv, NEW g \in Groups, Incomplete(g)
    PROVE  Reused
<1>1. PICK m \in DOMAIN layers : \A n \in g : n.layer # m
  BY DEF Incomplete
<1>2. g \in Partition
  BY GroupsFacts
<1>3. m \in Nat /\ \A n \in g : Has(g, n.layer, n.path) /\ n.layer \in Nat
  BY <1>2, GroupNodes, LayerFacts DEF Has
<1>4. ASSUME NEW n \in g, NEW o \in g, n.layer < m, o.layer > m
      PROVE  FALSE
  <2>1. m \in n.layer .. o.layer
    BY <1>3, <1>4
  <2>2. PICK s : Has(g, m, s)
    BY <1>2, <1>3, <2>1, Between
  <2>3. Node(m, s) \in g /\ Node(m, s).layer = m
    BY <2>2 DEF Has, Node
  <2> QED BY <2>3, <1>1
<1>5. (\A n \in g : n.layer < m) \/ (\A n \in g : n.layer > m)
  <2>1. \A n \in g : n.layer < m \/ n.layer > m
    BY <1>1, <1>3
  <2> QED BY <2>1, <1>4
<1> QED BY <1>5, StartsLate, EndsEarly

\* Where a path is reused, a change lacks a layer.
LEMMA ReusedIsIncomplete ==
    ASSUME CaptureInv, Reused
    PROVE  \E g \in Groups : Incomplete(g)
<1>1. PICK i \in Transitions, j \in Transitions, p \in TreePaths :
        /\ i < j
        /\ \/ /\ RenamedFrom(i, p) /\ ~RenamedTo(j, p)
              /\ layers[j][p] = Missing /\ layers[j + 1][p] # Missing
           \/ /\ RenamedTo(j, p) /\ ~RenamedFrom(i, p)
              /\ layers[i][p] # Missing /\ layers[i + 1][p] = Missing
  BY ReusedMeaning
<1>2. i \in 1 .. 3 /\ j \in 1 .. 3
  BY LayerFacts
<1>3. /\ i \in DOMAIN layers /\ j \in DOMAIN layers
      /\ i + 1 \in DOMAIN layers /\ j + 1 \in DOMAIN layers
  BY LayerFacts
<1>4. layers[i + 1][p] = Missing /\ layers[j][p] = Missing
  BY <1>1, RenameFacts DEF RenamedFrom, RenamedTo
<1>5. p \in EventPaths
  <2>1. layers[i][p] # layers[i + 1][p] \/ layers[j][p] # layers[j + 1][p]
    BY <1>1, <1>4
  <2> QED BY <2>1, EventPathFacts
<1>6. ASSUME NEW g \in Partition
      PROVE  Has(g, i + 1, p) <=> Has(g, j, p)
  <2>1. i + 1 <= j /\ \A m \in i + 1 .. j : m = i + 1 \/ m = j
    BY <1>1, <1>2
  <2>2. \A m \in i + 1 .. j : layers[m][p] = layers[i + 1][p]
    BY <2>1, <1>4
  <2> QED BY <2>1, <2>2, <1>3, <1>5, SameRun
<1>7. CASE /\ RenamedFrom(i, p) /\ ~RenamedTo(j, p)
           /\ layers[j][p] = Missing /\ layers[j + 1][p] # Missing
  <2>1. PICK g \in Partition : Has(g, j, p)
    BY <1>3, <1>5, GroupOf
  <2>2. ~RenamedFrom(j, p)
    BY <1>4, RenameFacts DEF RenamedFrom
  <2>3. Single(j, p)
    BY <1>7, <2>2 DEF Single
  <2>4. [old |-> p, new |-> p] \in Events(j)
    BY <2>3, EventFacts
  <2>5. j \in Origins(g)
    BY <2>1, <2>4 DEF Origins, Has
  <2>6. \A n \in g : n.layer >= i + 1
    BY <2>1, <1>5, <1>6, <1>7, Breaks, GroupEnds
  <2>7. \A n \in g : n.layer # i
    <3>1. ~(i >= i + 1)
      BY <1>2
    <3> QED BY <3>1, <2>6
  <2>8. Incomplete(g)
    BY <2>7, <1>3 DEF Incomplete
  <2> QED BY <2>5, <2>8, GroupsFacts
<1>8. CASE /\ RenamedTo(j, p) /\ ~RenamedFrom(i, p)
           /\ layers[i][p] # Missing /\ layers[i + 1][p] = Missing
  <2>1. PICK g \in Partition : Has(g, i, p)
    BY <1>3, <1>5, GroupOf
  <2>2. ~RenamedTo(i, p)
    BY <1>4, RenameFacts DEF RenamedTo
  <2>3. Single(i, p) /\ Edge(i, p, p)
    BY <1>5, <1>8, <2>2, EdgeFacts DEF Single
  <2>4. [old |-> p, new |-> p] \in Events(i)
    BY <2>3, EventFacts
  <2>5. i \in Origins(g)
    BY <2>1, <2>4 DEF Origins, Has
  <2>6. Has(g, j, p)
    BY <2>1, <2>3, <1>6, GroupLinks
  <2>7. \A n \in g : n.layer <= j
    BY <2>6, <1>5, <1>8, Breaks, GroupEnds
  <2>8. \A n \in g : n.layer # j + 1
    <3>1. ~(j + 1 <= j)
      BY <1>2
    <3> QED BY <3>1, <2>7
  <2>9. Incomplete(g)
    BY <2>8, <1>3 DEF Incomplete
  <2> QED BY <2>5, <2>9, GroupsFacts
<1> QED BY <1>1, <1>7, <1>8

(***************************************************************************)
(* What a change tells.                                                    *)
(***************************************************************************)

\* A change that lacks no layer has its path in each of them.
LEMMA HeldPath ==
    ASSUME CaptureInv, NEW g \in Partition
    PROVE  /\ \A i, p : Has(g, i, p) => PathAt(g, i) = p
           /\ ~Incomplete(g) => \A i \in DOMAIN layers : Has(g, i, PathAt(g, i))
<1>1. ASSUME NEW i, NEW n \in g, n.layer = i
      PROVE  Has(g, i, PathAt(g, i))
  <2> DEFINE m == CHOOSE o \in g : o.layer = i
  <2>1. m \in g /\ m.layer = i
    BY <1>1
  <2>2. PathAt(g, i) = m.path
    BY DEF PathAt
  <2> HIDE DEF m
  <2>3. m = Node(i, m.path)
    BY <2>1, GroupNodes
  <2> QED BY <2>1, <2>2, <2>3 DEF Has
<1>2. ASSUME NEW i, NEW p, Has(g, i, p)
      PROVE  PathAt(g, i) = p
  <2>1. Node(i, p) \in g /\ Node(i, p).layer = i
    BY <1>2 DEF Has, Node
  <2>2. Has(g, i, PathAt(g, i))
    BY <1>1, <2>1
  <2> QED BY <1>2, <2>2, OnePath
<1>3. ~Incomplete(g) => \A i \in DOMAIN layers : \E n \in g : n.layer = i
  BY DEF Incomplete
<1> QED BY <1>1, <1>2, <1>3

\* A file is in a change where it appears, goes or becomes another one.
LEMMA EventHere ==
    ASSUME CaptureInv, NEW g \in Partition, NEW i \in Transitions, NEW p \in TreePaths,
           layers[i][p] # layers[i + 1][p]
    PROVE  /\ Has(g, i, p) /\ layers[i][p] # Missing => g \in Groups
           /\ Has(g, i + 1, p) /\ layers[i + 1][p] # Missing => g \in Groups
<1>1. \A r \in renames[i] :
        /\ Edge(i, r.old, r.new) /\ r \in Events(i)
        /\ layers[i][r.old] # Missing /\ layers[i][r.new] = Missing
        /\ layers[i + 1][r.old] = Missing /\ layers[i + 1][r.new] # Missing
  BY RenameFacts, EdgeFacts, EventFacts
<1>2. Single(i, p) => Edge(i, p, p) /\ [old |-> p, new |-> p] \in Events(i)
  BY EventPathFacts, EdgeFacts, EventFacts DEF Single
<1>3. \A e \in Events(i) : Has(g, i, e.old) => g \in Groups
  <2>1. \A e \in Events(i) : Has(g, i, e.old) => i \in Origins(g)
    BY DEF Origins, Has
  <2> QED BY <2>1, GroupsFacts
<1>4. CASE \E r \in renames[i] : r.old = p
  BY <1>1, <1>3, <1>4
<1>5. CASE \E r \in renames[i] : r.new = p
  <2>1. PICK r \in renames[i] : r.new = p
    BY <1>5
  <2>2. Has(g, i, r.old) <=> Has(g, i + 1, p)
    BY <1>1, <2>1, GroupLinks
  <2> QED BY <1>1, <1>3, <2>1, <2>2
<1>6. CASE ~(\E r \in renames[i] : r.old = p) /\ ~(\E r \in renames[i] : r.new = p)
  <2>1. Single(i, p)
    BY <1>6 DEF Single, RenamedFrom, RenamedTo
  <2>2. Has(g, i, p) <=> Has(g, i + 1, p)
    BY <1>2, <2>1, GroupLinks
  <2>3. [old |-> p, new |-> p].old = p
    OBVIOUS
  <2> QED BY <1>2, <1>3, <2>1, <2>2, <2>3
<1> QED BY <1>4, <1>5, <1>6

\* A file that is not the same in all layers is in a change.
LEMMA InAGroup ==
    ASSUME CaptureInv, NEW i \in DOMAIN layers, NEW j \in DOMAIN layers, NEW p \in TreePaths,
           layers[i][p] # Missing, layers[j][p] # layers[i][p]
    PROVE  \E g \in Groups : Has(g, i, p)
<1>0. i \in Nat /\ j \in Nat /\ Len(layers) \in Nat /\ DOMAIN layers = 1 .. Len(layers) /\ i # j
  BY LayerFacts
<1>1. CASE i < j
  <2> DEFINE S == {k \in i .. j : layers[k][p] # layers[i][p]}
  <2>1. S \subseteq Nat /\ j \in S
    BY <1>0, <1>1
  <2>2. PICK k \in S : \A t \in S : k <= t
    <3> HIDE DEF S
    <3> QED BY <2>1, LeastExists
  <2>3. k \in i .. j /\ layers[k][p] # layers[i][p] /\ k # i /\ k \in Nat
    BY <1>0
  <2> DEFINE m == k - 1
  <2>4. m \in i .. j /\ m + 1 = k /\ m \in DOMAIN layers /\ m \in 1 .. Len(layers) - 1 /\ i <= m
    BY <1>0, <2>3
  <2>5. ASSUME NEW t \in i .. m
        PROVE  layers[t][p] = layers[i][p]
    <3>1. t \in i .. j /\ ~(k <= t)
      BY <2>3, <1>0
    <3>2. t \notin S
      BY <3>1, <2>2
    <3> QED BY <3>1, <3>2
  <2>6. m \in i .. m
    BY <2>4
  <2> HIDE DEF S, m
  <2>7. m \in Transitions
    BY <2>4 DEF Transitions
  <2>8. layers[m][p] # Missing /\ layers[m][p] # layers[m + 1][p]
    BY <2>3, <2>4, <2>5, <2>6
  <2>9. p \in EventPaths
    BY <2>7, <2>8, EventPathFacts
  <2>10. PICK g \in Partition : Has(g, i, p)
    BY <2>9, GroupOf
  <2>11. Has(g, m, p)
    BY <2>4, <2>5, <2>9, <2>10, SameRun
  <2>12. g \in Groups
    BY <2>7, <2>8, <2>11, EventHere
  <2> QED BY <2>10, <2>12
<1>2. CASE j < i
  <2> DEFINE S == {k \in j .. i : layers[k][p] # layers[i][p]}
  <2>1. S \subseteq 0 .. i /\ j \in S
    BY <1>0, <1>2
  <2>2. PICK k \in S : \A t \in S : t <= k
    <3> HIDE DEF S
    <3> QED BY <1>0, <2>1, GreatestExists
  <2>3. k \in j .. i /\ layers[k][p] # layers[i][p] /\ k # i /\ k \in Nat
    BY <1>0
  <2> DEFINE m == k + 1
  <2>4. m \in j .. i /\ m \in DOMAIN layers /\ k \in 1 .. Len(layers) - 1 /\ m <= i
    BY <1>0, <2>3
  <2>5. ASSUME NEW t \in m .. i
        PROVE  layers[t][p] = layers[i][p]
    <3>1. t \in j .. i /\ ~(t <= k)
      BY <2>3, <1>0
    <3>2. t \notin S
      BY <3>1, <2>2
    <3> QED BY <3>1, <3>2
  <2>6. m \in m .. i
    BY <2>4
  <2>7. m = k + 1
    OBVIOUS
  <2> HIDE DEF S, m
  <2>8. k \in Transitions
    BY <2>4 DEF Transitions
  <2>9. layers[k + 1][p] # Missing /\ layers[k][p] # layers[k + 1][p]
    BY <2>3, <2>5, <2>6, <2>7
  <2>10. p \in EventPaths
    BY <2>8, <2>9, EventPathFacts
  <2>11. PICK g \in Partition : Has(g, i, p)
    BY <2>10, GroupOf
  <2>12. \A t \in m .. i : layers[t][p] = layers[m][p]
    BY <2>5, <2>6
  <2>13. Has(g, m, p)
    BY <2>4, <2>10, <2>11, <2>12, SameRun
  <2>14. g \in Groups
    BY <2>7, <2>8, <2>9, <2>13, EventHere
  <2> QED BY <2>11, <2>14
<1> QED BY <1>0, <1>1, <1>2

\* What a change of an assembly is.
Told(g) ==
    [ origins |-> Origins(g),
      paths   |-> [i \in DOMAIN layers |-> PathAt(g, i)],
      states  |-> [i \in DOMAIN layers |-> layers[i][PathAt(g, i)]] ]

\* Every file that changes is told once, and the origins are where it does.
LEMMA ChangesTell ==
    ASSUME CaptureInv, \A g \in Groups : ~Incomplete(g),
           NEW all, all = {Told(g) : g \in Groups}
    PROVE  /\ \A i \in DOMAIN layers, p \in TreePaths :
                layers[i][p] # Missing /\ (\E j \in DOMAIN layers : layers[j][p] # layers[i][p]) =>
                  Cardinality({c \in all : c.paths[i] = p}) = 1
           /\ \A c \in all, i \in Transitions :
                i \in c.origins <=>
                  (c.states[i] # c.states[i + 1] \/ c.paths[i] # c.paths[i + 1])
<1>1. ASSUME NEW g \in Groups, NEW i \in DOMAIN layers
      PROVE  /\ g \in Partition /\ Has(g, i, PathAt(g, i))
             /\ Told(g).paths[i] = PathAt(g, i)
             /\ Told(g).states[i] = layers[i][PathAt(g, i)]
             /\ Told(g).origins = Origins(g)
  <2>1. g \in Partition
    BY GroupsFacts
  <2>2. Has(g, i, PathAt(g, i))
    BY <2>1, HeldPath
  <2> QED BY <2>1, <2>2 DEF Told
<1>2. ASSUME NEW i \in DOMAIN layers, NEW p \in TreePaths, layers[i][p] # Missing,
             NEW j \in DOMAIN layers, layers[j][p] # layers[i][p]
      PROVE  Cardinality({c \in all : c.paths[i] = p}) = 1
  <2>1. PICK g \in Groups : Has(g, i, p)
    BY <1>2, InAGroup
  <2>2. Told(g) \in all /\ Told(g).paths[i] = p
    BY <1>1, <2>1, OnePath
  <2>3. ASSUME NEW h \in Groups, Told(h).paths[i] = p
        PROVE  h = g
    <3>1. Has(h, i, p) /\ h \in Partition /\ g \in Partition
      BY <1>1, <2>3
    <3> QED BY <3>1, <2>1, GroupsApart DEF Has
  <2>4. {c \in all : c.paths[i] = p} = {Told(g)}
    BY <2>2, <2>3
  <2> QED BY <2>4, FS_Singleton
<1>3. ASSUME NEW c \in all, NEW i \in Transitions
      PROVE  i \in c.origins <=> (c.states[i] # c.states[i + 1] \/ c.paths[i] # c.paths[i + 1])
  <2>1. PICK g \in Groups : c = Told(g)
    OBVIOUS
  <2>2. i \in DOMAIN layers /\ i + 1 \in DOMAIN layers
    BY LayerFacts
  <2>3. /\ g \in Partition /\ Has(g, i, c.paths[i]) /\ Has(g, i + 1, c.paths[i + 1])
        /\ c.states[i] = layers[i][c.paths[i]] /\ c.states[i + 1] = layers[i + 1][c.paths[i + 1]]
        /\ c.origins = Origins(g)
    BY <1>1, <2>1, <2>2
  <2> QED BY <2>3, OriginFacts
<1> QED BY <1>2, <1>3

(***************************************************************************)
(* The sum of some sizes.                                                  *)
(***************************************************************************)

\* The elements of S have a size.
Sized(S, size) == \A x \in S : size[x] \in Nat

\* What SumFunctionOnSet computes for the subsets of S.
IsSum(h, S, size) ==
    h = [s \in SUBSET S |-> IF s = {} THEN 0 ELSE size[Chosen(s)] + h[s \ {Chosen(s)}]]

\* One element can be taken out of a finite set.
LEMMA TakeOut ==
    ASSUME NEW s, IsFiniteSet(s), NEW b \in s
    PROVE  /\ IsFiniteSet(s \ {b})
           /\ \A m \in Nat : Cardinality(s) = m + 1 => Cardinality(s \ {b}) = m
<1>1. IsFiniteSet(s \ {b}) /\ Cardinality(s \ {b}) = Cardinality(s) - 1
  BY FS_RemoveElement
<1>2. ASSUME NEW m \in Nat, Cardinality(s) = m + 1
      PROVE  Cardinality(s \ {b}) = m
  <2>1. Cardinality(s \ {b}) = (m + 1) - 1
    BY <1>1, <1>2
  <2> QED BY <2>1
<1> QED BY <1>1, <1>2

\* Every element counts once, whichever is taken out.
Additive(h, S, size) ==
    \A s \in SUBSET S : h[s] \in Nat /\ \A b \in s : h[s] = size[b] + h[s \ {b}]

\* A sum does not depend on the order, and counts every element once.
LEMMA SumFacts ==
    ASSUME NEW S, IsFiniteSet(S), NEW size, Sized(S, size),
           NEW h, IsSum(h, S, size)
    PROVE  Additive(h, S, size)
<1> DEFINE Good(s) == h[s] \in Nat /\ \A b \in s : h[s] = size[b] + h[s \ {b}]
           T == {m \in Nat : \A s \in SUBSET S : Cardinality(s) <= m => Good(s)}
<1>0. \A s \in SUBSET S : IsFiniteSet(s) /\ Cardinality(s) \in Nat
  BY FS_Subset, FS_CardinalityType
<1>h. /\ h[{}] = 0
      /\ \A s \in SUBSET S : s # {} => h[s] = size[Chosen(s)] + h[s \ {Chosen(s)}]
  BY DEF IsSum
<1>1. 0 \in T
  <2>1. ASSUME NEW s \in SUBSET S, Cardinality(s) <= 0
        PROVE  Good(s)
    <3>1. Cardinality(s) = 0
      BY <2>1, <1>0
    <3>2. s = {}
      BY <3>1, <1>0, FS_EmptySet
    <3> QED BY <3>2, <1>h
  <2> QED BY <2>1
<1>2. ASSUME NEW m \in Nat, m \in T
      PROVE  m + 1 \in T
  <2>0. \A s \in SUBSET S : Cardinality(s) <= m => Good(s)
    BY <1>2
  <2> SUFFICES ASSUME NEW s \in SUBSET S, Cardinality(s) = m + 1
               PROVE  Good(s)
    <3>1. ASSUME NEW s \in SUBSET S, Cardinality(s) <= m + 1, Cardinality(s) # m + 1
          PROVE  Good(s)
      <4>1. Cardinality(s) <= m
        BY <3>1, <1>0
      <4> HIDE DEF Good
      <4> QED BY <4>1, <2>0
    <3> HIDE DEF Good
    <3> QED BY <3>1
  <2> HIDE DEF T
  <2>1. s # {}
    <3>1. m + 1 # 0
      OBVIOUS
    <3> QED BY <3>1, FS_EmptySet
  <2> DEFINE c == Chosen(s)
  <2>2. c \in s
    BY <2>1 DEF Chosen
  <2>3. h[s] = size[c] + h[s \ {c}]
    BY <2>1, <1>h
  <2> HIDE DEF c
  <2>4. ASSUME NEW b \in s
        PROVE  /\ s \ {b} \in SUBSET S /\ Good(s \ {b})
               /\ h[s \ {b}] \in Nat /\ size[b] \in Nat
    <3>1. s \ {b} \in SUBSET S /\ Cardinality(s \ {b}) = m
      BY <1>0, TakeOut
    <3>2. Good(s \ {b})
      <4>1. m <= m
        OBVIOUS
      <4> HIDE DEF Good
      <4> QED BY <3>1, <4>1, <2>0
    <3>3. size[b] \in Nat
      BY DEF Sized
    <3> QED BY <3>1, <3>2, <3>3
  <2>5. ASSUME NEW b \in s
        PROVE  h[s] = size[b] + h[s \ {b}]
    <3>1. CASE b = c
      BY <3>1, <2>3
    <3>2. CASE b # c
      <4> DEFINE r == (s \ {b}) \ {c}
      <4>1. c \in s \ {b} /\ b \in s \ {c} /\ r = (s \ {c}) \ {b}
        BY <2>2, <3>2
      <4>2. h[s \ {b}] = size[c] + h[r]
        BY <2>4, <4>1
      <4>3. h[s \ {c}] = size[b] + h[r]
        BY <2>2, <2>4, <4>1
      <4>4. size[b] \in Nat /\ size[c] \in Nat
        BY <2>2, <2>4
      <4>5. h[r] \in Nat
        <5>1. r \in SUBSET S /\ r \in SUBSET (s \ {b})
          OBVIOUS
        <5>2. IsFiniteSet(s \ {b}) /\ Cardinality(s \ {b}) = m
          BY <1>0, TakeOut
        <5>3. Cardinality(r) <= m
          BY <5>1, <5>2, FS_Subset
        <5> HIDE DEF r
        <5> QED BY <5>1, <5>3, <2>0
      <4> HIDE DEF r
      <4> QED BY <2>3, <4>2, <4>3, <4>4, <4>5
    <3> QED BY <3>1, <3>2
  <2>6. h[s] \in Nat
    <3>1. size[c] \in Nat /\ h[s \ {c}] \in Nat
      BY <2>2, <2>4
    <3> QED BY <3>1, <2>3
  <2> QED BY <2>5, <2>6
<1> HIDE DEF T
<1>3. Nat \subseteq T
  BY <1>1, <1>2, Induction
<1>4. ASSUME NEW s \in SUBSET S
      PROVE  Good(s)
  <2>1. Cardinality(s) \in T /\ Cardinality(s) <= Cardinality(s)
    BY <1>0, <1>3
  <2> HIDE DEF Good
  <2> QED BY <2>1 DEF T
<1> QED BY <1>4 DEF Additive

\* What is summed over a set is what is summed over it as a part of another.
LEMMA SumsAgree ==
    ASSUME NEW S, IsFiniteSet(S), NEW V, V \subseteq S, NEW size,
           NEW h, IsSum(h, S, size), NEW k, IsSum(k, V, size)
    PROVE  \A s \in SUBSET V : h[s] = k[s]
<1> DEFINE T == {m \in Nat : \A s \in SUBSET V : Cardinality(s) = m => h[s] = k[s]}
<1>0. \A s \in SUBSET V : IsFiniteSet(s) /\ Cardinality(s) \in Nat /\ s \in SUBSET S
  <2>1. \A s \in SUBSET V : s \in SUBSET S
    OBVIOUS
  <2> QED BY <2>1, FS_Subset, FS_CardinalityType
<1>h. /\ h[{}] = 0
      /\ \A s \in SUBSET S : s # {} => h[s] = size[Chosen(s)] + h[s \ {Chosen(s)}]
  BY DEF IsSum
<1>k. /\ k[{}] = 0
      /\ \A s \in SUBSET V : s # {} => k[s] = size[Chosen(s)] + k[s \ {Chosen(s)}]
  BY DEF IsSum
<1>1. 0 \in T
  <2>1. ASSUME NEW s \in SUBSET V, Cardinality(s) = 0
        PROVE  h[s] = k[s]
    <3>1. s = {}
      BY <2>1, <1>0, FS_EmptySet
    <3> QED BY <3>1, <1>h, <1>k
  <2> QED BY <2>1
<1>2. ASSUME NEW m \in Nat, m \in T
      PROVE  m + 1 \in T
  <2>0. \A s \in SUBSET V : Cardinality(s) = m => h[s] = k[s]
    BY <1>2
  <2>1. ASSUME NEW s \in SUBSET V, Cardinality(s) = m + 1
        PROVE  h[s] = k[s]
    <3>1. s # {}
      <4>1. m + 1 # 0
        OBVIOUS
      <4> QED BY <4>1, <2>1, FS_EmptySet
    <3> DEFINE c == Chosen(s)
    <3>2. c \in s
      BY <3>1 DEF Chosen
    <3>3. h[s] = size[c] + h[s \ {c}] /\ k[s] = size[c] + k[s \ {c}]
      BY <3>1, <1>0, <1>h, <1>k
    <3> HIDE DEF c
    <3>4. Cardinality(s \ {c}) = m
      BY <3>2, <2>1, <1>0, TakeOut
    <3>5. h[s \ {c}] = k[s \ {c}]
      BY <3>4, <2>0
    <3> QED BY <3>3, <3>5
  <2> QED BY <2>1
<1> HIDE DEF T
<1>3. Nat \subseteq T
  BY <1>1, <1>2, Induction
<1> QED BY <1>0, <1>3 DEF T

\* The sum of the sizes of the elements of a finite set.
LEMMA SumIs ==
    ASSUME NEW S, IsFiniteSet(S), NEW size, Sized(S, size)
    PROVE  \E h : IsSum(h, S, size) /\ SumFunctionOnSet(size, S) = h[S]
<1> DEFINE F == [x \in S \X Nat |-> size[x[1]] + x[2]]
           g == CHOOSE h : IsSum(h, S, size)
<1>1. SumFunctionOnSet(size, S) = g[S]
  BY DEF SumFunctionOnSet, FoldFunctionOnSet, MapThenFoldSet, IsSum, Chosen
<1>2. F \in [S \X Nat -> Nat] /\ \A x \in S : \A n \in Nat : F[<<x, n>>] = size[x] + n
  BY DEF Sized
<1>3. 0 \in Nat
  OBVIOUS
<1> HIDE DEF F
<1>4. PICK h : IsFold(h, S, Nat, 0, F)
  BY <1>2, <1>3, FoldExists
<1>5. IsSum(h, S, size)
  <2>1. h \in [SUBSET S -> Nat] /\ h[{}] = 0
    BY <1>4 DEF IsFold
  <2>2. ASSUME NEW s \in SUBSET S, s # {}
        PROVE  h[s] = size[Chosen(s)] + h[s \ {Chosen(s)}]
    <3>1. Chosen(s) \in S
      BY <2>2 DEF Chosen
    <3>2. h[s \ {Chosen(s)}] \in Nat
      BY <2>1
    <3> QED BY <3>1, <3>2, <2>2, <1>2, <1>4 DEF IsFold
  <2> QED BY <2>1, <2>2 DEF IsSum
<1>6. IsSum(g, S, size)
  BY <1>5
<1> HIDE DEF g
<1> QED BY <1>1, <1>6

\* One more element adds its size to a sum.
LEMMA SumGrows ==
    ASSUME NEW S, IsFiniteSet(S), NEW size, Sized(S, size),
           NEW b, b \notin S, size[b] \in Nat
    PROVE  /\ SumFunctionOnSet(size, {}) = 0
           /\ SumFunctionOnSet(size, S) \in Nat
           /\ SumFunctionOnSet(size, S \cup {b}) = SumFunctionOnSet(size, S) + size[b]
<1> DEFINE V == S \cup {b}
<1>1. IsFiniteSet(V) /\ Sized(V, size)
  BY FS_AddElement DEF Sized
<1>2. b \in V /\ V \ {b} = S /\ S \subseteq V
  OBVIOUS
<1> HIDE DEF V
<1>3. PICK k : IsSum(k, S, size) /\ SumFunctionOnSet(size, S) = k[S]
  BY SumIs
<1>4. PICK h : IsSum(h, V, size) /\ SumFunctionOnSet(size, V) = h[V]
  BY <1>1, SumIs
<1>5. h[V] = size[b] + h[S]
  <2>1. Additive(h, V, size)
    BY <1>1, <1>4, SumFacts
  <2> QED BY <2>1, <1>2 DEF Additive
<1>6. h[S] = k[S]
  BY <1>1, <1>2, <1>3, <1>4, SumsAgree
<1>7. k[S] \in Nat
  BY <1>3, SumFacts DEF Additive
<1>8. SumFunctionOnSet(size, {}) = 0
  <2>1. IsFiniteSet({}) /\ Sized({}, size)
    BY FS_EmptySet DEF Sized
  <2>2. PICK e : IsSum(e, {}, size) /\ SumFunctionOnSet(size, {}) = e[{}]
    BY <2>1, SumIs
  <2> QED BY <2>2 DEF IsSum
<1> QED BY <1>3, <1>4, <1>5, <1>6, <1>7, <1>8 DEF V

(***************************************************************************)
(* The allocation of contents.                                             *)
(***************************************************************************)

\* What the loop of _allocate_content carries.
Decisions == {"per_file_limit", "captured", "total_limit"}
Allocating == [decided : UNION {[D -> Decisions] : D \in SUBSET Blobs}, used : Nat]

Captured(decided) == {b \in DOMAIN decided : decided[b] = "captured"}

\* The contents seen so far are decided, and what is captured of them fits.
IsDecided(acc, seen, limits) ==
    /\ DOMAIN acc.decided = seen
    /\ IsFiniteSet(Captured(acc.decided))
    /\ acc.used = SumFunctionOnSet(BlobSize, Captured(acc.decided))
    /\ acc.used <= limits.total
    /\ \A b \in seen :
         /\ acc.decided[b] = "per_file_limit" <=> BlobSize[b] > limits.per_file
         /\ acc.decided[b] = "total_limit" => acc.used + BlobSize[b] > limits.total

\* A content that was not seen before is decided, and the others stay decided:
\* what did not fit does not fit later.
LEMMA DecideFacts ==
    ASSUME NEW limits \in ContentLimits, NEW acc \in Allocating, NEW seen,
           IsDecided(acc, seen, limits), NEW blob \in Blobs, blob \notin seen
    PROVE  /\ Decide(acc, blob, limits) \in Allocating
           /\ IsDecided(Decide(acc, blob, limits), seen \cup {blob}, limits)
<1> DEFINE outcome == Decision(acc.used, blob, limits)
           d == [b \in seen \cup {blob} |-> IF b = blob THEN outcome ELSE acc.decided[b]]
           u == acc.used + IF outcome = "captured" THEN BlobSize[blob] ELSE 0
           C == Captured(acc.decided)
<1>0. /\ limits.per_file \in Nat /\ limits.total \in Nat /\ \A b \in Blobs : BlobSize[b] \in Nat
      /\ acc.used \in Nat
  BY AssemblyConstants DEF Allocating
<1>1. PICK D \in SUBSET Blobs : acc.decided \in [D -> Decisions]
  BY DEF Allocating
<1>2. D = seen /\ seen \subseteq Blobs /\ acc.decided \in [seen -> Decisions]
  BY <1>1 DEF IsDecided
<1>3. Decide(acc, blob, limits) = [decided |-> d, used |-> u]
  BY DEF Decide, IsDecided
<1>4. /\ outcome \in Decisions
      /\ outcome = "per_file_limit" <=> BlobSize[blob] > limits.per_file
      /\ outcome = "captured" => acc.used + BlobSize[blob] <= limits.total
      /\ outcome = "total_limit" => acc.used + BlobSize[blob] > limits.total
  <2>1. acc.used + BlobSize[blob] \in Nat
    BY <1>0
  <2> QED BY <1>0, <2>1 DEF Decision, Fits, Decisions
<1> HIDE DEF outcome
<1>5. d \in [seen \cup {blob} -> Decisions] /\ seen \cup {blob} \in SUBSET Blobs
  BY <1>2, <1>4
<1>u. /\ outcome = "captured" => u = acc.used + BlobSize[blob]
      /\ outcome # "captured" => u = acc.used
  <2>1. ASSUME outcome = "captured"
        PROVE  u = acc.used + BlobSize[blob]
    BY <2>1
  <2>2. ASSUME outcome # "captured"
        PROVE  u = acc.used
    <3>1. u = acc.used + 0
      BY <2>2
    <3>2. acc.used \in Nat
      BY <1>0
    <3> HIDE DEF u
    <3> QED BY <3>1, <3>2
  <2> HIDE DEF u
  <2> QED BY <2>1, <2>2
<1>6. u \in Nat /\ u >= acc.used
  <2>1. BlobSize[blob] \in Nat /\ acc.used \in Nat
    BY <1>0
  <2> HIDE DEF u
  <2>2. CASE outcome = "captured"
    <3>1. u = acc.used + BlobSize[blob]
      BY <2>2, <1>u
    <3> QED BY <3>1, <2>1
  <2>3. CASE outcome # "captured"
    <3>1. u = acc.used
      BY <2>3, <1>u
    <3> QED BY <3>1, <2>1
  <2> QED BY <2>2, <2>3
<1>7. Decide(acc, blob, limits) \in Allocating
  <2> HIDE DEF d, u
  <2> QED BY <1>3, <1>5, <1>6 DEF Allocating
<1>8. /\ DOMAIN d = seen \cup {blob} /\ d[blob] = outcome
      /\ \A b \in seen : d[b] = acc.decided[b] /\ b # blob
  <2>1. \A b \in seen : b # blob
    OBVIOUS
  <2> QED BY <2>1
<1>9. C \subseteq seen /\ C \subseteq Blobs /\ blob \notin C /\ IsFiniteSet(C) /\ Sized(C, BlobSize)
  BY <1>0, <1>2 DEF Captured, IsDecided, Sized
<1>10. Captured(d) = IF outcome = "captured" THEN C \cup {blob} ELSE C
  <2> HIDE DEF d
  <2>1. C = {b \in seen : acc.decided[b] = "captured"}
    BY DEF Captured, IsDecided
  <2>2. Captured(d) = {b \in seen \cup {blob} : d[b] = "captured"}
    BY <1>8 DEF Captured
  <2> HIDE DEF C
  <2> QED BY <2>1, <2>2, <1>8
<1>11. acc.used = SumFunctionOnSet(BlobSize, C) /\ acc.used <= limits.total
  BY DEF IsDecided
<1> HIDE DEF C
<1>12. IsFiniteSet(Captured(d)) /\ u = SumFunctionOnSet(BlobSize, Captured(d))
  <2> HIDE DEF d
  <2>1. CASE outcome = "captured"
    <3>1. Captured(d) = C \cup {blob}
      BY <1>10, <2>1
    <3>2. BlobSize[blob] \in Nat
      BY <1>0
    <3>3. SumFunctionOnSet(BlobSize, C \cup {blob}) = SumFunctionOnSet(BlobSize, C) + BlobSize[blob]
      BY <1>9, <3>2, SumGrows
    <3>4. IsFiniteSet(C \cup {blob})
      BY <1>9, FS_AddElement
    <3>5. u = acc.used + BlobSize[blob]
      BY <2>1, <1>u
    <3> HIDE DEF u
    <3> QED BY <3>1, <3>3, <3>4, <3>5, <1>11
  <2>2. CASE outcome # "captured"
    <3>1. Captured(d) = C /\ u = acc.used
      BY <1>u, <1>10, <2>2
    <3> HIDE DEF u
    <3> QED BY <3>1, <1>9, <1>11
  <2> QED BY <2>1, <2>2
<1>13. u <= limits.total
  <2> HIDE DEF u
  <2> QED BY <1>4, <1>11, <1>u
<1>14. ASSUME NEW b \in seen \cup {blob}
       PROVE  /\ d[b] = "per_file_limit" <=> BlobSize[b] > limits.per_file
              /\ d[b] = "total_limit" => u + BlobSize[b] > limits.total
  <2>1. CASE b = blob
    <3>1. outcome = "total_limit" => u = acc.used
      BY <1>u
    <3> HIDE DEF u, d
    <3> QED BY <2>1, <3>1, <1>4, <1>8
  <2>2. CASE b # blob
    <3>1. b \in seen /\ d[b] = acc.decided[b]
      BY <2>2, <1>8
    <3>2. /\ acc.decided[b] = "per_file_limit" <=> BlobSize[b] > limits.per_file
          /\ acc.decided[b] = "total_limit" => acc.used + BlobSize[b] > limits.total
      BY <3>1 DEF IsDecided
    <3>3. BlobSize[b] \in Nat /\ acc.used \in Nat /\ limits.total \in Nat
      BY <3>1, <1>0, <1>2
    <3> HIDE DEF u, d
    <3>4. acc.used + BlobSize[b] > limits.total => u + BlobSize[b] > limits.total
      BY <3>3, <1>6
    <3> QED BY <3>1, <3>2, <3>4
  <2> QED BY <2>1, <2>2
<1> HIDE DEF d, u
<1>15. [decided |-> d, used |-> u].decided = d /\ [decided |-> d, used |-> u].used = u
  OBVIOUS
<1> QED BY <1>3, <1>7, <1>8, <1>12, <1>13, <1>14, <1>15 DEF IsDecided

\* How many candidates there are: every path in every layer.
CandidateCount == Len(layers) * Len(PathSequence)

\* The candidates are the paths in the layers, all of them.
LEMMA CandidateFacts ==
    ASSUME CaptureInv
    PROVE  /\ CandidateCount \in Nat
           /\ \A k \in 1 .. CandidateCount : Candidate(k).layer \in DOMAIN layers /\ Candidate(k).path \in TreePaths
           /\ \A i \in DOMAIN layers : \A p \in TreePaths :
                \E k \in 1 .. CandidateCount : Candidate(k) = Node(i, p)
<1> DEFINE n == Len(layers)
           m == Len(PathSequence)
<1>1. n \in 1 .. 4 /\ DOMAIN layers = 1 .. n
  BY LayerFacts
<1>2. m \in Nat /\ PathSequence \in [1 .. m -> TreePaths] /\ DOMAIN PathSequence = 1 .. m
  BY AssemblyConstants, LenProperties
<1>3. \A p \in TreePaths : \E j \in 1 .. m : PathSequence[j] = p
  BY <1>2, AssemblyConstants DEF Range
<1>4. \A k : Candidate(k) = Node(((k - 1) % n) + 1, PathSequence[((k - 1) \div n) + 1])
  BY DEF Candidate
<1>5. \A i, p : Node(i, p).layer = i /\ Node(i, p).path = p
  BY DEF Node
<1>6. CandidateCount = n * m
  BY DEF CandidateCount
<1> HIDE DEF n, m
<1>7. /\ n * m \in Nat
      /\ \A k \in 1 .. n * m : ((k - 1) % n) + 1 \in 1 .. n /\ ((k - 1) \div n) + 1 \in 1 .. m
      /\ \A i \in 1 .. n : \A j \in 1 .. m : \E k \in 1 .. n * m :
           ((k - 1) % n) + 1 = i /\ ((k - 1) \div n) + 1 = j
  <2> DEFINE Good(c) == /\ c * m \in Nat
                        /\ \A k \in 1 .. c * m : ((k - 1) % c) + 1 \in 1 .. c /\ ((k - 1) \div c) + 1 \in 1 .. m
                        /\ \A i \in 1 .. c : \A j \in 1 .. m :
                             (j - 1) * c + i \in 1 .. c * m /\
                             ((((j - 1) * c + i) - 1) % c) + 1 = i /\ ((((j - 1) * c + i) - 1) \div c) + 1 = j
  <2>1. Good(1)
    BY <1>2
  <2>2. Good(2)
    BY <1>2
  <2>3. Good(3)
    BY <1>2
  <2>4. Good(4)
    BY <1>2
  <2>5. n = 1 \/ n = 2 \/ n = 3 \/ n = 4
    BY <1>1
  <2>6. Good(n)
    <3> HIDE DEF Good
    <3> QED BY <2>1, <2>2, <2>3, <2>4, <2>5
  <2> QED BY <2>6
<1>8. ASSUME NEW i \in 1 .. n, NEW p \in TreePaths
      PROVE  \E k \in 1 .. n * m : Candidate(k) = Node(i, p)
  <2>1. PICK j \in 1 .. m : PathSequence[j] = p
    BY <1>3
  <2>2. PICK k \in 1 .. n * m : ((k - 1) % n) + 1 = i /\ ((k - 1) \div n) + 1 = j
    BY <1>7
  <2> QED BY <2>1, <2>2, <1>4
<1>9. ASSUME NEW k \in 1 .. n * m
      PROVE  Candidate(k).layer \in 1 .. n /\ Candidate(k).path \in TreePaths
  <2> DEFINE a == ((k - 1) % n) + 1
             b == ((k - 1) \div n) + 1
  <2>1. a \in 1 .. n /\ b \in 1 .. m
    BY <1>7
  <2>2. Candidate(k) = Node(a, PathSequence[b])
    BY <1>4
  <2> HIDE DEF a, b
  <2> QED BY <2>1, <2>2, <1>2, <1>5
<1> QED BY <1>1, <1>6, <1>7, <1>8, <1>9

\* The contents of the nodes of some groups, among the first k candidates.
Seen(groups, k) ==
    {b \in Blobs : \E t \in 1 .. k :
       Candidate(t) \in UNION groups /\ layers[Candidate(t).layer][Candidate(t).path] = b}

\* Every content of the groups is decided once, and what is captured fits.
IsAllocation(decided, groups, limits) ==
    LET used == SumFunctionOnSet(BlobSize, Captured(decided))
    IN  /\ DOMAIN decided = {layers[n.layer][n.path] : n \in UNION groups} \ {Missing}
        /\ used <= limits.total
        /\ \A b \in DOMAIN decided :
             /\ decided[b] = "per_file_limit" <=> BlobSize[b] > limits.per_file
             /\ decided[b] = "total_limit" => used + BlobSize[b] > limits.total

\* The loop of _allocate_content decides every content of the groups.
LEMMA AllocationFacts ==
    ASSUME CaptureInv, NEW groups, UNION groups \subseteq Nodes, NEW limits \in ContentLimits
    PROVE  IsAllocation(Allocation(groups, limits), groups, limits)
<1> DEFINE last == CandidateCount
           U == UNION groups
           Blob(k) == layers[Candidate(k).layer][Candidate(k).path]
           Begin == [decided |-> [b \in {} |-> "captured"], used |-> 0]
           Turn(acc, k) == IF Candidate(k) \in U /\ Blob(k) # Missing /\ Blob(k) \notin DOMAIN acc.decided
                           THEN Decide(acc, Blob(k), limits) ELSE acc
           Is(f) == f = [k \in 0 .. last |-> IF k = 0 THEN Begin ELSE Turn(f[k - 1], k)]
           g == CHOOSE f : Is(f)
           T == {k \in Nat : k <= last =>
                   g[k] \in Allocating /\ IsDecided(g[k], Seen(groups, k), limits)}
<1>0. last \in Nat
  BY CandidateFacts
<1>1. Allocation(groups, limits) = g[last].decided
  BY DEF Allocation, CandidateCount
<1>2. ASSUME NEW k \in 1 .. last
      PROVE  Blob(k) \in Blobs \/ Blob(k) = Missing
  <2>1. Candidate(k).layer \in DOMAIN layers /\ Candidate(k).path \in TreePaths
    BY CandidateFacts
  <2>2. layers[Candidate(k).layer] \in Trees
    BY <2>1, LayerFacts
  <2> QED BY <2>1, <2>2 DEF Trees
<1>3. Begin \in Allocating /\ IsDecided(Begin, Seen(groups, 0), limits)
  <2> DEFINE none == [b \in {} |-> "captured"]
  <2>1. none \in [{} -> Decisions] /\ {} \in SUBSET Blobs /\ DOMAIN none = {}
    OBVIOUS
  <2>2. Captured(none) = {}
    BY <2>1 DEF Captured
  <2>3. Seen(groups, 0) = {}
    BY DEF Seen
  <2>4. Begin.decided = none /\ Begin.used = 0
    OBVIOUS
  <2> HIDE DEF none
  <2>5. Begin = [decided |-> none, used |-> 0]
    BY DEF none
  <2>6. none \in UNION {[D -> Decisions] : D \in SUBSET Blobs}
    BY <2>1
  <2>7. Begin \in Allocating
    BY <2>5, <2>6 DEF Allocating
  <2>8. IsFiniteSet({}) /\ SumFunctionOnSet(BlobSize, {}) = 0
    <3>1. Sized({}, BlobSize) /\ IsFiniteSet({})
      BY FS_EmptySet DEF Sized
    <3>2. PICK h : IsSum(h, {}, BlobSize) /\ SumFunctionOnSet(BlobSize, {}) = h[{}]
      BY <3>1, SumIs
    <3> QED BY <3>1, <3>2 DEF IsSum
  <2>9. limits.total \in Nat /\ 0 <= limits.total
    BY AssemblyConstants
  <2> HIDE DEF Begin
  <2> QED BY <2>1, <2>2, <2>3, <2>4, <2>7, <2>8, <2>9 DEF IsDecided
<1>4. ASSUME NEW k \in 1 .. last, NEW acc \in Allocating,
             IsDecided(acc, Seen(groups, k - 1), limits)
      PROVE  Turn(acc, k) \in Allocating /\ IsDecided(Turn(acc, k), Seen(groups, k), limits)
  <2>1. DOMAIN acc.decided = Seen(groups, k - 1)
    BY <1>4 DEF IsDecided
  <2>2. \A t \in 1 .. k : t \in 1 .. k - 1 \/ t = k
    BY <1>0
  <2>3. \A t \in 1 .. k - 1 : t \in 1 .. k
    BY <1>0
  <2>4. k \in 1 .. k
    BY <1>0
  <2>5. CASE Candidate(k) \in U /\ Blob(k) # Missing /\ Blob(k) \notin DOMAIN acc.decided
    <3>1. Turn(acc, k) = Decide(acc, Blob(k), limits)
      BY <2>5
    <3>2. Blob(k) \in Blobs
      BY <1>2, <2>5
    <3>3. Seen(groups, k) = Seen(groups, k - 1) \cup {Blob(k)}
      BY <2>2, <2>3, <2>4, <2>5, <3>2 DEF Seen
    <3>4. Blob(k) \notin Seen(groups, k - 1)
      BY <2>1, <2>5
    <3> HIDE DEF Blob, Turn
    <3> QED BY <1>4, <3>1, <3>2, <3>3, <3>4, DecideFacts
  <2>6. CASE ~(Candidate(k) \in U /\ Blob(k) # Missing /\ Blob(k) \notin DOMAIN acc.decided)
    <3>1. Turn(acc, k) = acc
      BY <2>6
    <3>2. Missing \notin Blobs
      BY AssemblyConstants
    <3>3. Candidate(k) \in U /\ Blob(k) \in Blobs => Blob(k) \in Seen(groups, k - 1)
      BY <2>1, <2>6, <3>2
    <3>4. Seen(groups, k) = Seen(groups, k - 1)
      BY <2>2, <2>3, <3>3 DEF Seen
    <3> HIDE DEF Turn
    <3> QED BY <1>4, <3>1, <3>4
  <2> QED BY <2>5, <2>6
<1> HIDE DEF Turn, Begin
<1>5. \E f : Is(f)
  <2> DEFINE A == Allocating
             F == [x \in A \X (1 .. last) |->
                     IF Turn(x[1], x[2]) \in A THEN Turn(x[1], x[2]) ELSE x[1]]
             Fine(f, k) == f[k] \in Allocating /\ IsDecided(f[k], Seen(groups, k), limits)
  <2>1. F \in [A \X (1 .. last) -> A]
    OBVIOUS
  <2>2. \A acc \in A : \A k \in 1 .. last : Turn(acc, k) \in A => F[<<acc, k>>] = Turn(acc, k)
    OBVIOUS
  <2>3. Begin \in A
    BY <1>3
  <2> HIDE DEF F, A
  <2>4. PICK f : IsRecursion(f, last, A, Begin, F)
    BY <1>0, <2>1, <2>3, Recursion
  <2>5. f \in [0 .. last -> A] /\ f[0] = Begin /\ \A k \in 1 .. last : f[k] = F[<<f[k - 1], k>>]
    BY <2>4 DEF IsRecursion
  <2>6. ASSUME NEW k \in 1 .. last, Fine(f, k - 1)
        PROVE  f[k] = Turn(f[k - 1], k) /\ Fine(f, k)
    <3>1. Turn(f[k - 1], k) \in Allocating /\ IsDecided(Turn(f[k - 1], k), Seen(groups, k), limits)
      BY <1>4, <2>6
    <3>2. f[k - 1] \in A /\ Turn(f[k - 1], k) \in A
      BY <2>6, <3>1 DEF A
    <3>3. f[k] = Turn(f[k - 1], k)
      BY <2>2, <2>5, <3>2
    <3> QED BY <3>1, <3>3
  <2> DEFINE S == {k \in Nat : k <= last => Fine(f, k)}
  <2>7. 0 \in S
    BY <1>3, <2>5
  <2>8. ASSUME NEW k \in Nat, k \in S
        PROVE  k + 1 \in S
    <3> SUFFICES ASSUME k + 1 <= last PROVE Fine(f, k + 1)
      OBVIOUS
    <3>1. k <= last /\ k + 1 \in 1 .. last /\ (k + 1) - 1 = k
      BY <1>0
    <3>2. Fine(f, k)
      BY <3>1, <2>8
    <3> HIDE DEF Fine, S
    <3> QED BY <3>1, <3>2, <2>6
  <2> HIDE DEF S
  <2>9. Nat \subseteq S
    BY <2>7, <2>8, Induction
  <2>10. ASSUME NEW k \in 1 .. last
         PROVE  f[k] = Turn(f[k - 1], k)
    <3>1. k - 1 \in S /\ k - 1 <= last
      BY <1>0, <2>9
    <3>2. Fine(f, k - 1)
      <4> HIDE DEF Fine
      <4> QED BY <3>1 DEF S
    <3> HIDE DEF Fine
    <3> QED BY <3>2, <2>6
  <2>11. ASSUME NEW k \in 0 .. last
         PROVE  f[k] = IF k = 0 THEN Begin ELSE Turn(f[k - 1], k)
    <3>1. CASE k = 0
      BY <3>1, <2>5
    <3>2. CASE k # 0
      <4>1. k \in 1 .. last
        BY <3>2, <1>0
      <4> QED BY <3>2, <4>1, <2>10
    <3> QED BY <3>1, <3>2
  <2>12. Is(f)
    <3>1. DOMAIN f = 0 .. last
      BY <2>5
    <3> HIDE DEF last
    <3> QED BY <2>5, <2>11, <3>1
  <2> QED BY <2>12
<1>6. Is(g)
  <2> HIDE DEF Is
  <2> QED BY <1>5
<1> HIDE DEF g
<1>7. g[0] = Begin /\ \A k \in 1 .. last : g[k] = Turn(g[k - 1], k)
  <2>1. g[0] = Begin
    BY <1>0, <1>6
  <2>2. ASSUME NEW k \in 1 .. last
        PROVE  g[k] = Turn(g[k - 1], k)
    <3>1. k \in 0 .. last /\ k # 0
      BY <1>0
    <3> QED BY <3>1, <1>6
  <2> QED BY <2>1, <2>2
<1>8. 0 \in T
  BY <1>3, <1>7
<1>9. ASSUME NEW k \in Nat, k \in T
      PROVE  k + 1 \in T
  <2> SUFFICES ASSUME k + 1 <= last
               PROVE  g[k + 1] \in Allocating /\ IsDecided(g[k + 1], Seen(groups, k + 1), limits)
    OBVIOUS
  <2>1. k <= last /\ k + 1 \in 1 .. last /\ (k + 1) - 1 = k
    BY <1>0
  <2>2. g[k] \in Allocating /\ IsDecided(g[k], Seen(groups, k), limits)
    BY <2>1, <1>9
  <2>3. g[k + 1] = Turn(g[k], k + 1)
    BY <2>1, <1>7
  <2> HIDE DEF T, Is
  <2> QED BY <2>1, <2>2, <2>3, <1>4
<1> HIDE DEF T
<1>10. Nat \subseteq T
  BY <1>8, <1>9, Induction
<1>11. g[last] \in Allocating /\ IsDecided(g[last], Seen(groups, last), limits)
  <2>1. last \in T /\ last <= last
    BY <1>0, <1>10
  <2> QED BY <2>1 DEF T
<1>12. Seen(groups, last) = {layers[n.layer][n.path] : n \in U} \ {Missing}
  <2>1. ASSUME NEW n \in U
        PROVE  /\ \E k \in 1 .. last : Candidate(k) = n
               /\ layers[n.layer][n.path] \in Blobs \/ layers[n.layer][n.path] = Missing
    <3>1. n = Node(n.layer, n.path) /\ n.layer \in DOMAIN layers /\ n.path \in TreePaths
      BY EventPathFacts DEF Nodes, Node
    <3>2. PICK k \in 1 .. last : Candidate(k) = n
      BY <3>1, CandidateFacts
    <3> QED BY <3>2, <1>2
  <2>2. Missing \notin Blobs
    BY AssemblyConstants
  <2>3. \A b \in Seen(groups, last) : b \in Blobs /\ \E n \in U : layers[n.layer][n.path] = b
    BY DEF Seen
  <2>4. ASSUME NEW n \in U, layers[n.layer][n.path] # Missing
        PROVE  layers[n.layer][n.path] \in Seen(groups, last)
    <3>1. PICK k \in 1 .. last : Candidate(k) = n
      BY <2>1
    <3>2. layers[n.layer][n.path] \in Blobs
      BY <2>1, <2>4
    <3> QED BY <3>1, <3>2 DEF Seen
  <2> HIDE DEF U, last
  <2> QED BY <2>2, <2>3, <2>4
<1> HIDE DEF last
<1>13. DOMAIN g[last].decided = Seen(groups, last)
  BY <1>11 DEF IsDecided
<1> QED BY <1>1, <1>11, <1>12, <1>13 DEF IsDecided, IsAllocation

\* The contents that are decided are those that the changes name.
LEMMA ContentsTold ==
    ASSUME CaptureInv, \A g \in Groups : ~Incomplete(g), NEW limits \in ContentLimits,
           NEW all, all = {Told(g) : g \in Groups},
           NEW decided, decided = Allocation(Groups, limits)
    PROVE  LET used == SumFunctionOnSet(BlobSize, Captured(decided))
           IN  /\ DOMAIN decided = (UNION {Range(c.states) : c \in all}) \ {Missing}
               /\ used <= limits.total
               /\ \A b \in DOMAIN decided :
                    /\ decided[b] = "per_file_limit" <=> BlobSize[b] > limits.per_file
                    /\ decided[b] = "total_limit" => used + BlobSize[b] > limits.total
<1>1. \A g \in Groups : g \in Partition
  BY GroupsFacts
<1>2. UNION Groups \subseteq Nodes
  BY <1>1, PartitionFacts DEF IsPartition, Covers
<1>3. IsAllocation(decided, Groups, limits)
  BY <1>2, AllocationFacts
<1>4. ASSUME NEW g \in Groups
      PROVE  Range(Told(g).states) = {layers[n.layer][n.path] : n \in g}
  <2>1. Told(g).states = [i \in DOMAIN layers |-> layers[i][PathAt(g, i)]]
    BY DEF Told
  <2>2. ASSUME NEW n \in g
        PROVE  n.layer \in DOMAIN layers /\ PathAt(g, n.layer) = n.path
    <3>1. n.layer \in DOMAIN layers /\ Has(g, n.layer, n.path)
      BY <1>1, GroupNodes DEF Has
    <3> QED BY <3>1, <1>1, HeldPath
  <2>3. ASSUME NEW i \in DOMAIN layers
        PROVE  \E n \in g : n.layer = i /\ n.path = PathAt(g, i)
    <3>1. Has(g, i, PathAt(g, i))
      BY <1>1, HeldPath
    <3> QED BY <3>1 DEF Has, Node
  <2>4. ASSUME NEW x \in Range(Told(g).states)
        PROVE  x \in {layers[n.layer][n.path] : n \in g}
    <3>1. PICK i \in DOMAIN layers : x = layers[i][PathAt(g, i)]
      BY <2>1 DEF Range
    <3> QED BY <3>1, <2>3
  <2>5. ASSUME NEW n \in g
        PROVE  layers[n.layer][n.path] \in Range(Told(g).states)
    <3>1. Told(g).states[n.layer] = layers[n.layer][n.path] /\ n.layer \in DOMAIN Told(g).states
      BY <2>1, <2>2
    <3> QED BY <3>1 DEF Range
  <2> QED BY <2>4, <2>5
<1>5. UNION {Range(c.states) : c \in all} = {layers[n.layer][n.path] : n \in UNION Groups}
  <2>1. ASSUME NEW c \in all, NEW x \in Range(c.states)
        PROVE  x \in {layers[n.layer][n.path] : n \in UNION Groups}
    <3>1. PICK g \in Groups : c = Told(g)
      OBVIOUS
    <3>2. x \in {layers[n.layer][n.path] : n \in g}
      BY <2>1, <3>1, <1>4
    <3> QED BY <3>2
  <2>2. ASSUME NEW g \in Groups, NEW n \in g
        PROVE  \E c \in all : layers[n.layer][n.path] \in Range(c.states)
    <3>1. layers[n.layer][n.path] \in Range(Told(g).states)
      BY <1>4
    <3> QED BY <3>1
  <2>3. ASSUME NEW n \in UNION Groups
        PROVE  layers[n.layer][n.path] \in UNION {Range(c.states) : c \in all}
    <3>1. PICK g \in Groups : n \in g
      OBVIOUS
    <3>2. PICK c \in all : layers[n.layer][n.path] \in Range(c.states)
      BY <2>2, <3>1
    <3> QED BY <3>2
  <2>4. UNION {Range(c.states) : c \in all} \subseteq {layers[n.layer][n.path] : n \in UNION Groups}
    BY <2>1
  <2>5. {layers[n.layer][n.path] : n \in UNION Groups} \subseteq UNION {Range(c.states) : c \in all}
    BY <2>3
  <2> QED BY <2>4, <2>5
<1>6. DOMAIN decided = (UNION {Range(c.states) : c \in all}) \ {Missing}
  BY <1>3, <1>5 DEF IsAllocation
<1> DEFINE used == SumFunctionOnSet(BlobSize, Captured(decided))
<1>7. /\ used <= limits.total
      /\ \A b \in DOMAIN decided :
           /\ decided[b] = "per_file_limit" <=> BlobSize[b] > limits.per_file
           /\ decided[b] = "total_limit" => used + BlobSize[b] > limits.total
  BY <1>3 DEF IsAllocation
<1> HIDE DEF used
<1> QED BY <1>6, <1>7 DEF used

(***************************************************************************)
(* What an assembled change set promises.                                  *)
(***************************************************************************)

\* The layers are what was read, and an assembly of them keeps its promises.
AssemblyInv ==
    CaptureInv /\ OnlyReuseStopsAssembly /\ ChangesTellEverything /\ ContentsFit

\* Nothing is promised before the assembly.
LEMMA NothingYet ==
    ending = "none" => OnlyReuseStopsAssembly /\ ChangesTellEverything /\ ContentsFit
BY DEF OnlyReuseStopsAssembly, ChangesTellEverything, ContentsFit

\* An assembly ends as it promises.
LEMMA AssembleFacts ==
    ASSUME CaptureInv, Assemble
    PROVE  /\ ending' # "InternalCaptureError" /\ ending' # "none"
           /\ ending' = "KeyError" <=> Reused
           /\ ending' = "assembled" =>
                /\ \A g \in Groups : ~Incomplete(g)
                /\ \E limits \in ContentLimits : changes' = Assembled(Groups, limits)
<1>1. \A g \in Groups : ~Ambiguous(g)
  BY NeverAmbiguous
<1>2. (\E g \in Groups : Incomplete(g)) <=> Reused
  BY IncompleteIsReused, ReusedIsIncomplete
<1>3. /\ ending' = IF \E g \in Groups : Ambiguous(g) THEN "InternalCaptureError"
                   ELSE IF \E g \in Groups : Incomplete(g) THEN "KeyError"
                   ELSE "assembled"
      /\ ending' = "assembled" =>
           \E limits \in ContentLimits : changes' = Assembled(Groups, limits)
  BY DEF Assemble
<1> QED BY <1>1, <1>2, <1>3

\* The invariant is inductive.
LEMMA AssemblyStep == AssemblyInv /\ [AssemblyNext]_assemblyVars => AssemblyInv'
<1> SUFFICES ASSUME AssemblyInv, [AssemblyNext]_assemblyVars
             PROVE  AssemblyInv'
  OBVIOUS
<1>0. CaptureInv
  BY DEF AssemblyInv
<1>1. CaptureInv'
  BY <1>0, CaptureKept
<1>2. CASE NextLayer
  <2>1. ending' = "none"
    BY <1>2 DEF NextLayer
  <2>2. (OnlyReuseStopsAssembly /\ ChangesTellEverything /\ ContentsFit)'
    BY <2>1 DEF OnlyReuseStopsAssembly, ChangesTellEverything, ContentsFit
  <2> QED BY <1>1, <2>2 DEF AssemblyInv
<1>3. CASE Assemble
  <2>0. layers' = layers /\ renames' = renames
    BY <1>3 DEF Assemble
  <2>1. OnlyReuseStopsAssembly'
    <3>1. Reused' <=> Reused
      BY <2>0 DEF Reused, Transitions, Added, Gone
    <3>2. ending' # "InternalCaptureError" /\ (ending' = "KeyError" <=> Reused) /\ ending' # "none"
      BY <1>0, <1>3, AssembleFacts
    <3> QED BY <3>1, <3>2 DEF OnlyReuseStopsAssembly
  <2>2. CASE ending' # "assembled"
    <3>1. ChangesTellEverything' /\ ContentsFit'
      BY <2>2 DEF ChangesTellEverything, ContentsFit
    <3> QED BY <1>1, <2>1, <3>1 DEF AssemblyInv
  <2>3. CASE ending' = "assembled"
    <3> DEFINE all == {Told(g) : g \in Groups}
    <3>1. \A g \in Groups : ~Incomplete(g)
      BY <1>0, <1>3, <2>3, AssembleFacts
    <3>2. PICK limits \in ContentLimits : changes' = Assembled(Groups, limits)
      BY <1>0, <1>3, <2>3, AssembleFacts
    <3> DEFINE decided == Allocation(Groups, limits)
    <3>3. /\ changes'.groups = all /\ changes'.limits = limits
          /\ changes'.contents = decided
      BY <3>2 DEF Assembled, Told
    <3> HIDE DEF decided
    <3>4. ChangesTellEverything'
      <4>1. /\ \A i \in DOMAIN layers, p \in TreePaths :
                 layers[i][p] # Missing /\ (\E j \in DOMAIN layers : layers[j][p] # layers[i][p]) =>
                   Cardinality({c \in all : c.paths[i] = p}) = 1
            /\ \A c \in all, i \in Transitions :
                 i \in c.origins <=>
                   (c.states[i] # c.states[i + 1] \/ c.paths[i] # c.paths[i + 1])
        BY <1>0, <3>1, ChangesTell
      <4>2. Transitions' = Transitions
        BY <2>0 DEF Transitions
      <4> HIDE DEF all
      <4> QED BY <2>0, <3>3, <4>1, <4>2 DEF ChangesTellEverything
    <3>5. ContentsFit'
      <4> DEFINE used == SumFunctionOnSet(BlobSize, Captured(decided))
      <4>1. /\ DOMAIN decided = (UNION {Range(c.states) : c \in all}) \ {Missing}
            /\ used <= limits.total
            /\ \A b \in DOMAIN decided :
                 /\ decided[b] = "per_file_limit" <=> BlobSize[b] > limits.per_file
                 /\ decided[b] = "total_limit" => used + BlobSize[b] > limits.total
        BY <1>0, <3>1, ContentsTold DEF decided
      <4> HIDE DEF all
      <4> QED BY <3>3, <4>1 DEF ContentsFit, Captured
    <3> QED BY <1>1, <2>1, <3>4, <3>5 DEF AssemblyInv
  <2> QED BY <2>2, <2>3
<1>4. CASE UNCHANGED assemblyVars
  <2>1. UNCHANGED <<layers, renames, ending, changes>>
    BY <1>4 DEF assemblyVars
  <2>2. OnlyReuseStopsAssembly'
    BY <2>1 DEF AssemblyInv, OnlyReuseStopsAssembly, Reused, Transitions, Added, Gone
  <2>3. ChangesTellEverything'
    BY <2>1 DEF AssemblyInv, ChangesTellEverything, Transitions
  <2>4. ContentsFit'
    BY <2>1 DEF AssemblyInv, ContentsFit
  <2> QED BY <1>1, <2>2, <2>3, <2>4 DEF AssemblyInv
<1> QED BY <1>2, <1>3, <1>4 DEF AssemblyNext

\* The invariant holds of every behaviour.
LEMMA AssemblyInvariant == AssemblySpec => []AssemblyInv
<1>1. AssemblyInit => AssemblyInv
  BY CaptureInitially, NothingYet DEF AssemblyInit, AssemblyInv
<1> QED BY <1>1, AssemblyStep, PTL DEF AssemblySpec

\* A capture that was read completely is assembled, unless a path is reused,
\* and then it always fails: whatever was committed, staged and edited, a change
\* never has two paths in a layer, and lacks a layer only after a reuse
\* (_build_groups and _capture_once).
THEOREM AssemblyStopsOnlyForReuse == AssemblySpec => []OnlyReuseStopsAssembly
BY AssemblyInvariant, PTL DEF AssemblyInv

\* Nothing that changes is lost or told twice, and the origins of a change are
\* the transitions where its path or its state changes (_build_groups).
THEOREM ChangesAreTold == AssemblySpec => []ChangesTellEverything
BY AssemblyInvariant, PTL DEF AssemblyInv

\* Every content of a change is decided once, what is captured fits the limits,
\* and what is left out would not fit even now (_allocate_content).
THEOREM AllocationFits == AssemblySpec => []ContentsFit
BY AssemblyInvariant, PTL DEF AssemblyInv

=============================================================================
