---------------------------- MODULE FoldInduction ----------------------------
(***************************************************************************)
(* Induction over data, from the fact that a set of natural numbers has a  *)
(* least element.  What is proved of every element is given as a set       *)
(* instead of an operator, and the step of a fold as a function, so that   *)
(* the facts can be cited.                                                 *)
(***************************************************************************)
EXTENDS Integers, SequencesExt, SequenceTheorems, WellFoundedInduction, TLAPS

-----------------------------------------------------------------------------
(* Induction                                                               *)

\* A set of natural numbers has a least element.
LEMMA Least ==
    ASSUME NEW T, T \subseteq Nat, T # {}
    PROVE  \E n \in T : \A m \in T : n <= m
<1>1. IsWellFoundedOn(OpToRel(<, Nat), Nat)
  BY NatLessThanWellFounded
<1>2. PICK n \in T : \A m \in T : ~ (<<m, n>> \in OpToRel(<, Nat))
  <2> HIDE DEF OpToRel
  <2> QED BY <1>1, WFMin
<1>3. \A m \in T : ~(m < n)
  BY <1>2 DEF OpToRel
<1> QED BY <1>3

\* A set of numbers up to n has a greatest element.
LEMMA MaxOf ==
    ASSUME NEW n \in Nat, NEW S \in SUBSET (1..n), S # {}
    PROVE  Max(S) \in S /\ \A x \in S : x <= Max(S)
<1> DEFINE T == {m \in Nat : \E x \in S : m = n - x}
<1>1. PICK d \in T : \A e \in T : d <= e
  <2>1. PICK x \in S : TRUE
    OBVIOUS
  <2>2. n - x \in T
    BY <2>1
  <2>3. T \subseteq Nat /\ T # {}
    BY <2>2
  <2> HIDE DEF T
  <2> QED BY <2>3, Least
<1>2. PICK x \in S : d = n - x
  BY <1>1
<1>3. ASSUME NEW y \in S PROVE y <= x
  <2>1. n - y \in T
    OBVIOUS
  <2>2. n - x <= n - y
    BY <1>1, <1>2, <2>1
  <2> QED BY <2>2
<1> HIDE DEF T
<1>4. \E m \in S : \A y \in S : m >= y
  BY <1>3
<1>5. Max(S) \in S /\ \A y \in S : Max(S) >= y
  BY <1>4 DEF Max
<1> QED BY <1>5

\* Induction over the sets of numbers up to n, taking the greatest out.
LEMMA MaxInduction ==
    ASSUME NEW n \in Nat, NEW G, {} \in G,
           \A S \in SUBSET (1..n) : S # {} /\ S \ {Max(S)} \in G => S \in G
    PROVE  SUBSET (1..n) \subseteq G
<1> SUFFICES ASSUME ~(SUBSET (1..n) \subseteq G) PROVE FALSE
  OBVIOUS
<1> DEFINE bad == {k \in 0..n : ~(SUBSET (1..k) \subseteq G)}
<1>1. PICK k \in bad : \A m \in bad : k <= m
  <2>1. n \in bad /\ bad \subseteq Nat
    OBVIOUS
  <2> HIDE DEF bad
  <2> QED BY <2>1, Least
<1>2. k # 0
  <2> SUFFICES ASSUME k = 0 PROVE SUBSET (1..0) \subseteq G
    BY <1>1
  <2>1. \A S \in SUBSET (1..0) : S = {}
    OBVIOUS
  <2> QED BY <2>1
<1>3. SUBSET (1..(k - 1)) \subseteq G
  <2>1. k - 1 \in 0..n /\ ~(k <= k - 1)
    BY <1>2
  <2> QED BY <1>1, <2>1
<1>4. ASSUME NEW S \in SUBSET (1..k) PROVE S \in G
  <2>1. CASE k \in S
    <3>1. S \in SUBSET (1..n)
      OBVIOUS
    <3>2. Max(S) = k
      <4>1. Max(S) \in S /\ \A x \in S : x <= Max(S)
        BY <2>1, <3>1, MaxOf
      <4>2. k <= Max(S)
        BY <2>1, <4>1
      <4>3. Max(S) \in 1..k
        BY <4>1
      <4>4. k \in Nat
        OBVIOUS
      <4> HIDE DEF bad
      <4> QED BY <4>2, <4>3, <4>4
    <3>3. S \ {k} \in SUBSET (1..(k - 1))
      OBVIOUS
    <3> QED BY <1>3, <2>1, <3>1, <3>2, <3>3
  <2>2. CASE k \notin S
    <3>1. S \in SUBSET (1..(k - 1))
      BY <2>2
    <3> QED BY <1>3, <3>1
  <2> QED BY <2>1, <2>2
<1> QED BY <1>4

\* Induction over sequences, appending an element.
LEMMA SeqInduction ==
    ASSUME NEW V, NEW G, <<>> \in G,
           \A s \in Seq(V), e \in V : s \in G => Append(s, e) \in G
    PROVE  Seq(V) \subseteq G
<1> SUFFICES ASSUME ~(Seq(V) \subseteq G) PROVE FALSE
  OBVIOUS
<1> DEFINE bad == {n \in Nat : \E s \in Seq(V) : Len(s) = n /\ s \notin G}
<1>1. PICK n \in bad : \A m \in bad : n <= m
  <2>1. bad # {}
    OBVIOUS
  <2>2. bad \subseteq Nat
    OBVIOUS
  <2> HIDE DEF bad
  <2> QED BY <2>1, <2>2, Least
<1>2. PICK s \in Seq(V) : Len(s) = n /\ s \notin G
  BY <1>1
<1>3. PICK t \in Seq(V), e \in V : s = Append(t, e)
  BY <1>2, SequenceEmptyOrAppend
<1>4. Len(s) = Len(t) + 1
  BY <1>3, AppendProperties
<1>5. t \in G
  <2>1. Len(t) \in Nat /\ ~(n <= Len(t))
    BY <1>2, <1>4, LenProperties
  <2> QED BY <1>1, <2>1
<1> QED BY <1>2, <1>3, <1>5

-----------------------------------------------------------------------------
(* Folds                                                                   *)

\* h is the function that FoldLeft evaluates: what it makes of the elements of
\* s at each set of positions up to n, with the step g.
Folds(h, g, base, s, n) ==
    /\ h[{}] = base
    /\ \A S \in SUBSET (1..n) : S # {} => h[S] = g[<<h[S \ {Max(S)}], s[Max(S)]>>]

\* Such a function exists.
LEMMA FoldExists ==
    ASSUME NEW V, NEW W, NEW g \in [V \X W -> V], NEW base \in V,
           NEW n \in Nat, NEW s \in [1..n -> W]
    PROVE  \E h \in [SUBSET (1..n) -> V] : Folds(h, g, base, s, n)
<1> SUFFICES ASSUME ~\E h \in [SUBSET (1..n) -> V] : Folds(h, g, base, s, n) PROVE FALSE
  OBVIOUS
<1> DEFINE bad == {k \in 0..n : ~\E h \in [SUBSET (1..k) -> V] : Folds(h, g, base, s, k)}
<1>1. PICK k \in bad : \A m \in bad : k <= m
  <2>1. n \in bad
    <3>1. n \in 0..n
      OBVIOUS
    <3> QED BY <3>1, Zenon
  <2>3. bad \subseteq Nat
    <3>1. 0..n \subseteq Nat
      OBVIOUS
    <3> QED BY <3>1, Zenon
  <2> HIDE DEF bad
  <2> QED BY <2>1, <2>3, Least
<1>2. k # 0
  <2> SUFFICES ASSUME k = 0 PROVE FALSE
    OBVIOUS
  <2> DEFINE h == [S \in SUBSET (1..0) |-> base]
  <2>1. \A S \in SUBSET (1..0) : S = {}
    OBVIOUS
  <2>2. h \in [SUBSET (1..0) -> V] /\ h[{}] = base
    OBVIOUS
  <2> HIDE DEF h
  <2>3. Folds(h, g, base, s, 0)
    BY <2>1, <2>2 DEF Folds
  <2> QED BY <2>2, <2>3
<1>3. PICK h \in [SUBSET (1..(k - 1)) -> V] : Folds(h, g, base, s, k - 1)
  <2>1. k - 1 \in 0..n /\ ~(k <= k - 1)
    BY <1>2
  <2> QED BY <1>1, <2>1
<1> DEFINE j == [S \in SUBSET (1..k) |->
                    IF k \in S THEN g[<<h[S \ {k}], s[k]>>] ELSE h[S]]
<1>4. /\ \A S \in SUBSET (1..k) : k \notin S => S \in SUBSET (1..(k - 1))
      /\ \A S \in SUBSET (1..k) : S \ {k} \in SUBSET (1..(k - 1))
      /\ s[k] \in W /\ k \in 0..n
  BY <1>2
<1>5. j \in [SUBSET (1..k) -> V]
  BY <1>4
<1>6. Folds(j, g, base, s, k)
  <2>1. j[{}] = base
    BY <1>3 DEF Folds
  <2>2. ASSUME NEW S \in SUBSET (1..k), S # {} PROVE j[S] = g[<<j[S \ {Max(S)}], s[Max(S)]>>]
    <3>1. /\ Max(S) \in S /\ \A x \in S : x <= Max(S)
          /\ Max(S) \in 1..k
      <4>1. k \in Nat
        OBVIOUS
      <4> HIDE DEF bad, j
      <4> QED BY <2>2, <4>1, MaxOf
    <3>2. CASE k \in S
      <4>1. Max(S) = k
        <5>1. k <= Max(S) /\ Max(S) <= k /\ k \in Nat /\ Max(S) \in Nat
          BY <3>1, <3>2
        <5> HIDE DEF bad, j
        <5> QED BY <5>1
      <4>2. j[S] = g[<<h[S \ {k}], s[k]>>] /\ j[S \ {k}] = h[S \ {k}]
        BY <3>2
      <4> QED BY <4>1, <4>2
    <3>3. CASE k \notin S
      <4>1. j[S] = h[S] /\ S \in SUBSET (1..(k - 1)) /\ S \ {Max(S)} \in SUBSET (1..k)
        BY <1>4, <3>3
      <4>2. j[S \ {Max(S)}] = h[S \ {Max(S)}]
        BY <3>3, <4>1
      <4>3. h[S] = g[<<h[S \ {Max(S)}], s[Max(S)]>>]
        BY <1>3, <2>2, <4>1 DEF Folds
      <4> QED BY <4>1, <4>2, <4>3
    <3> QED BY <3>2, <3>3
  <2> HIDE DEF j
  <2> QED BY <2>1, <2>2 DEF Folds
<1> HIDE DEF j
<1> QED BY <1>1, <1>5, <1>6

\* One more element is one more step.
LEMMA FoldsAppend ==
    ASSUME NEW n \in Nat, NEW g, NEW base, NEW s, NEW t, NEW h, NEW j,
           Folds(h, g, base, s, n), Folds(j, g, base, t, n + 1),
           \A x \in 1..n : s[x] = t[x]
    PROVE  j[1..(n + 1)] = g[<<h[1..n], t[n + 1]>>]
<1> DEFINE top == 1..(n + 1)
           G == {S \in SUBSET (1..n) : h[S] = j[S]}
<1>1. {} \in G
  BY DEF Folds
<1>2. ASSUME NEW S \in SUBSET (1..n), S # {}, S \ {Max(S)} \in G PROVE S \in G
  <2>1. Max(S) \in 1..n
    BY <1>2, MaxOf
  <2>2. S \in SUBSET top
    OBVIOUS
  <2>3. h[S] = g[<<h[S \ {Max(S)}], s[Max(S)]>>]
    BY <1>2 DEF Folds
  <2>4. j[S] = g[<<j[S \ {Max(S)}], t[Max(S)]>>]
    BY <1>2, <2>2 DEF Folds
  <2>5. h[S \ {Max(S)}] = j[S \ {Max(S)}] /\ s[Max(S)] = t[Max(S)]
    BY <1>2, <2>1
  <2> QED BY <2>3, <2>4, <2>5
<1> HIDE DEF G
<1>3. SUBSET (1..n) \subseteq G
  BY <1>1, <1>2, MaxInduction
<1>4. n + 1 \in top
  OBVIOUS
<1>5. top \in SUBSET top /\ top # {}
  BY <1>4, Zenon
<1>6. Max(top) = n + 1
  <2>1. Max(top) \in top /\ n + 1 <= Max(top)
    <3>1. n + 1 \in Nat
      OBVIOUS
    <3> QED BY <1>4, <1>5, <3>1, MaxOf
  <2> QED BY <2>1
<1>7. top \ {n + 1} = 1..n
  OBVIOUS
<1>8. j[top] = g[<<j[top \ {Max(top)}], t[Max(top)]>>]
  BY <1>5, Zenon DEF Folds
<1>9. h[1..n] = j[1..n]
  BY <1>3 DEF G
<1> HIDE DEF top
<1> QED BY <1>6, <1>7, <1>8, <1>9 DEF top

-----------------------------------------------------------------------------
(* Elements of sequences                                                   *)

\* What a sequence with an element has.
LEMMA SomeElement ==
    ASSUME NEW V, NEW s \in Seq(V)
    PROVE  /\ Len(s) \in Nat /\ DOMAIN s = 1..Len(s)
           /\ s # <<>> <=> Len(s) > 0
           /\ s # <<>> => 1 \in 1..Len(s) /\ s[1] \in V
<1>1. Len(s) \in Nat /\ DOMAIN s = 1..Len(s)
  BY LenProperties
<1>2. s = <<>> => Len(s) = 0
  <2>1. Len(<<>>) = 0
    OBVIOUS
  <2> QED BY <2>1
<1>3. Len(s) = 0 => s = <<>>
  BY EmptySeq
<1>4. Len(s) > 0 => 1 \in 1..Len(s)
  BY <1>1
<1>5. \A i \in 1..Len(s) : s[i] \in V
  BY ElementOfSeq
<1> QED BY <1>1, <1>2, <1>3, <1>4, <1>5

\* What appending gives.
LEMMA Appended ==
    ASSUME NEW V, NEW s \in Seq(V), NEW x \in V
    PROVE  /\ Append(s, x) \in Seq(V) /\ Append(s, x) # <<>> /\ Len(Append(s, x)) = Len(s) + 1
           /\ Append(s, x)[1] = IF s = <<>> THEN x ELSE s[1]
<1> DEFINE t == Append(s, x)
<1>1. /\ t \in Seq(V) /\ Len(t) = Len(s) + 1 /\ t[Len(s) + 1] = x
      /\ \A i \in 1..Len(s) : t[i] = s[i]
  BY AppendProperties
<1> HIDE DEF t
<1>2. Len(s) \in Nat /\ (s = <<>> => Len(s) = 0) /\ (s # <<>> => 1 \in 1..Len(s))
  BY SomeElement
<1>3. Len(t) > 0
  BY <1>1, <1>2
<1>4. t # <<>>
  BY <1>1, <1>3, SomeElement
<1>5. t[1] = IF s = <<>> THEN x ELSE s[1]
  <2>1. CASE s = <<>>
    <3>1. Len(s) + 1 = 1
      BY <1>2, <2>1
    <3> QED BY <1>1, <2>1, <3>1
  <2>2. CASE s # <<>>
    BY <1>1, <1>2, <2>2
  <2> QED BY <2>1, <2>2
<1> QED BY <1>1, <1>4, <1>5 DEF t

LEMMA Second ==
    ASSUME NEW V, NEW s \in Seq(V), NEW y \in V
    PROVE  /\ Append(s, y) \in Seq(V)
           /\ Len(s) = 1 =>
                 Len(Append(s, y)) = 2 /\ Append(s, y)[1] = s[1] /\ Append(s, y)[2] = y
<1>1. /\ Append(s, y) \in Seq(V) /\ Len(Append(s, y)) = Len(s) + 1
      /\ Append(s, y)[Len(s) + 1] = y /\ \A i \in 1..Len(s) : Append(s, y)[i] = s[i]
  BY AppendProperties
<1>2. Len(s) = 1 => Len(s) + 1 = 2 /\ 1 \in 1..Len(s)
  OBVIOUS
<1> QED BY <1>1, <1>2

\* Taking the last element of a sequence back.
LEMMA FrontProperties ==
    ASSUME NEW V, NEW s \in Seq(V), s # <<>>
    PROVE  /\ Front(s) \in Seq(V) /\ Len(Front(s)) = Len(s) - 1
           /\ \A i \in 1..(Len(s) - 1) : Front(s)[i] = s[i]
           /\ Last(s) \in V /\ Last(s) = s[Len(s)]
<1>1. Len(s) \in Nat /\ Len(s) > 0
  BY EmptySeq
<1> DEFINE n == Len(s) - 1
<1>2. n \in Nat /\ n <= Len(s) /\ Len(s) \in 1..Len(s)
  BY <1>1
<1>3. /\ SubSeq(s, 1, n) \in Seq(V) /\ Len(SubSeq(s, 1, n)) = n
      /\ \A i \in 1..n : SubSeq(s, 1, n)[i] = s[i]
  <2>1. n \in Int /\ (1 <= n \/ n = 0) /\ \A i \in 1..n : s[i] \in V
    <3>1. \A i \in 1..n : i \in 1..Len(s)
      BY <1>1
    <3>2. \A i \in 1..Len(s) : s[i] \in V
      BY ElementOfSeq
    <3> HIDE DEF n
    <3> QED BY <1>2, <3>1, <3>2
  <2> HIDE DEF n
  <2>2. /\ SubSeq(s, 1, n) \in Seq(V)
        /\ Len(SubSeq(s, 1, n)) = IF 1 <= n THEN n - 1 + 1 ELSE 0
        /\ \A i \in 1..(n - 1 + 1) : SubSeq(s, 1, n)[i] = s[1 + i - 1]
    BY <2>1, SubSeqProperties
  <2> QED BY <2>1, <2>2
<1>4. s[Len(s)] \in V
  BY <1>2, ElementOfSeq
<1> QED BY <1>3, <1>4 DEF Front, Last

LEMMA Pair ==
    ASSUME NEW V, NEW x \in V, NEW y \in V
    PROVE  /\ <<x>> \in Seq(V) /\ Append(<<>>, x) = <<x>>
           /\ <<x, y>> \in Seq(V) /\ Len(<<x, y>>) = 2 /\ <<x, y>>[1] = x /\ <<x, y>>[2] = y
           /\ Append(<<x>>, y) = <<x, y>> /\ <<x>> \o <<y>> = <<x, y>>
           /\ <<x, y>> # <<>>
<1>1. <<x>> \in Seq(V) /\ Append(<<>>, x) = <<x>>
  OBVIOUS
<1>2. Len(<<x, y>>) = 2 /\ <<x, y>>[1] = x /\ <<x, y>>[2] = y
  OBVIOUS
<1>3. Append(<<x>>, y) = <<x, y>>
  <2> DEFINE s == <<x>>
             t == Append(s, y)
             u == <<x, y>>
  <2>1. s \in Seq(V) /\ Len(s) = 1 /\ s[1] = x
    OBVIOUS
  <2>2. t \in Seq(V) /\ Len(t) = 2 /\ t[1] = x /\ t[2] = y
    <3> HIDE DEF s
    <3> QED BY <2>1, Second
  <2>3. u \in Seq(V) /\ Len(u) = 2 /\ u[1] = x /\ u[2] = y
    OBVIOUS
  <2> HIDE DEF s, t, u
  <2>4. \A i \in 1..Len(t) : t[i] = u[i]
    <3>1. \A i \in 1..2 : i = 1 \/ i = 2
      OBVIOUS
    <3> QED BY <2>2, <2>3, <3>1
  <2>5. t = u
    BY <2>2, <2>3, <2>4, SeqEqual
  <2> QED BY <2>5 DEF s, t, u
<1>4. <<x>> \o <<y>> = <<x, y>>
  <2>1. <<y>> \in Seq(V)
    OBVIOUS
  <2>2. <<x>> \o <<y>> = Append(<<x>>, y)
    BY <1>1, AppendIsConcat
  <2> QED BY <1>3, <2>2
<1>5. <<x, y>> \in Seq(V)
  BY <1>1, <1>3, AppendProperties
<1>6. <<x, y>> # <<>>
  BY <1>2, <1>5, SomeElement
<1> QED BY <1>1, <1>2, <1>3, <1>4, <1>5, <1>6

LEMMA ConcatAppend ==
    ASSUME NEW V, NEW s \in Seq(V), NEW t \in Seq(V), NEW x \in V
    PROVE  s \o Append(t, x) = Append(s \o t, x)
OBVIOUS

=============================================================================
