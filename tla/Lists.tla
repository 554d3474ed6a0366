------------------------------- MODULE Lists -------------------------------
(***************************************************************************)
(* The lists of the kernel are linked through their elements, so an        *)
(* element is in a list at most once.  What adding to such a list, taking  *)
(* from it and filtering it do to the set of its elements, for lists of    *)
(* any length.                                                             *)
(*                                                                         *)
(* The induction theorems of the library are about an operator P(_), which *)
(* the provers cannot instantiate.  Induction is therefore on the set of   *)
(* the numbers with a property, from the existence of a least number.      *)
(***************************************************************************)
EXTENDS Naturals, Sequences, SequencesExt, SequenceTheorems, WellFoundedInduction, TLAPS

\* f[i] is the list of those of the first i elements of s that are in S.
IsFiltering(f, s, S) ==
    f = [i \in 0..Len(s) |-> IF i = 0 THEN <<>>
                             ELSE IF s[i] \in S THEN Append(f[i - 1], s[i]) ELSE f[i - 1]]

\* The elements of s that are in S, in their order: SelectSeq, which the provers
\* know nothing of, for a set.
Only(s, S) ==
    LET f[i \in 0..Len(s)] == IF i = 0 THEN <<>>
                              ELSE IF s[i] \in S THEN Append(f[i - 1], s[i]) ELSE f[i - 1]
    IN  f[Len(s)]

-----------------------------------------------------------------------------
\* Every set of numbers that is not empty has a least one.
LEMMA LeastNumber ==
    ASSUME NEW T \in SUBSET Nat, T # {}
    PROVE  \E x \in T : \A y \in T : x <= y
<1>1. PICK x \in T : \A y \in T : ~ (<<y, x>> \in OpToRel(<, Nat))
  BY NatLessThanWellFounded, WFMin
<1>2. \A y \in T : ~ (y < x)
  BY <1>1 DEF OpToRel
<1> QED  BY <1>2

\* Induction, on the set of the numbers that have the property.
LEMMA SetInduction ==
    ASSUME NEW P \in SUBSET Nat, 0 \in P, \A n \in P : n + 1 \in P
    PROVE  P = Nat
<1> SUFFICES ASSUME Nat \ P # {} PROVE FALSE
  OBVIOUS
<1>1. PICK x \in Nat \ P : \A y \in Nat \ P : x <= y
  BY LeastNumber
<1>2. x - 1 \in Nat /\ x - 1 < x  BY <1>1
<1>3. x - 1 \in P  BY <1>1, <1>2
<1> QED  BY <1>2, <1>3

\* The recursion of Only has a solution.
LEMMA FilteringExists ==
    ASSUME NEW X, NEW s \in Seq(X), NEW S
    PROVE  \E f : IsFiltering(f, s, S)
<1> DEFINE Good(n, f) == /\ f \in [0..n -> Seq(X)] /\ f[0] = <<>>
                         /\ \A i \in 1..n : f[i] = IF s[i] \in S THEN Append(f[i - 1], s[i]) ELSE f[i - 1]
           P == {n \in Nat : n <= Len(s) => \E f : Good(n, f)}
<1>0. Len(s) \in Nat /\ \A i \in 1..Len(s) : s[i] \in X  BY LenProperties
<1>1. 0 \in P
  <2>1. <<>> \in Seq(X)  BY EmptySeq
  <2>2. Good(0, [i \in 0..0 |-> <<>>])  BY <2>1
  <2> HIDE DEF Good
  <2> QED  BY <2>2
<1>2. ASSUME NEW n \in P PROVE n + 1 \in P
  <2> SUFFICES ASSUME n + 1 <= Len(s) PROVE \E f : Good(n + 1, f)
    <3> HIDE DEF Good
    <3> QED  OBVIOUS
  <2>1. n \in Nat /\ n <= Len(s)  BY <1>0
  <2>2. PICK f : Good(n, f)  BY <2>1
  <2> DEFINE e == IF s[n + 1] \in S THEN Append(f[n], s[n + 1]) ELSE f[n]
             g == [i \in 0..(n + 1) |-> IF i <= n THEN f[i] ELSE e]
  <2>3. e \in Seq(X)
    <3>1. f[n] \in Seq(X) /\ s[n + 1] \in X  BY <1>0, <2>1, <2>2
    <3> QED  BY <3>1, AppendProperties
  <2>4. g \in [0..(n + 1) -> Seq(X)]
    <3> HIDE DEF e
    <3> QED  BY <2>1, <2>2, <2>3
  <2>5. g[0] = <<>>  BY <2>1, <2>2
  <2>6. ASSUME NEW i \in 1..(n + 1)
        PROVE  g[i] = IF s[i] \in S THEN Append(g[i - 1], s[i]) ELSE g[i - 1]
    <3>1. CASE i <= n
      <4>1. i \in 1..n /\ i - 1 \in 0..n /\ i \in 0..n  BY <2>1, <3>1
      <4>2. g[i] = f[i] /\ g[i - 1] = f[i - 1]
        <5> HIDE DEF e
        <5> QED  BY <2>1, <4>1
      <4> QED  BY <2>2, <4>1, <4>2
    <3>2. CASE ~(i <= n)
      <4>1. i = n + 1 /\ i - 1 = n  BY <2>1, <3>2
      <4>2. g[i] = e /\ g[i - 1] = f[n]
        <5> HIDE DEF e
        <5> QED  BY <2>1, <4>1
      <4> QED  BY <4>1, <4>2
    <3> QED  BY <3>1, <3>2
  <2> QED  BY <2>4, <2>5, <2>6
<1>3. P = Nat
  <2> HIDE DEF Good
  <2> QED  BY <1>1, <1>2, SetInduction
<1>4. PICK f : Good(Len(s), f)
  <2> HIDE DEF Good
  <2>1. Len(s) \in P  BY <1>0, <1>3
  <2> QED  BY <1>0, <2>1
<1> DEFINE h == [i \in 0..Len(s) |-> IF i = 0 THEN <<>>
                                     ELSE IF s[i] \in S THEN Append(f[i - 1], s[i]) ELSE f[i - 1]]
<1>5. f \in [0..Len(s) -> Seq(X)] /\ f[0] = <<>>  BY <1>4
<1>6. ASSUME NEW i \in 0..Len(s) PROVE f[i] = h[i]
  <2>1. CASE i = 0  BY <1>5, <2>1
  <2>2. CASE i # 0
    <3>1. i \in 1..Len(s)  BY <1>0, <2>2
    <3> QED  BY <1>4, <2>2, <3>1
  <2> QED  BY <2>1, <2>2
<1>7. DOMAIN h = 0..Len(s) /\ h = [i \in DOMAIN h |-> h[i]]  OBVIOUS
<1>8. f = h
  <2> HIDE DEF h
  <2> QED  BY <1>5, <1>6, <1>7
<1> QED  BY <1>8 DEF IsFiltering

\* Only(s, S) is the last value of a function that satisfies the recursion.
LEMMA OnlyFilters ==
    ASSUME NEW X, NEW s \in Seq(X), NEW S
    PROVE  \E f : IsFiltering(f, s, S) /\ Only(s, S) = f[Len(s)]
<1> DEFINE f == CHOOSE g : IsFiltering(g, s, S)
<1>1. Only(s, S) = f[Len(s)]  BY DEF Only, IsFiltering
<1>2. IsFiltering(f, s, S)
  <2> HIDE DEF IsFiltering
  <2> QED  BY FilteringExists
<1> QED  BY <1>1, <1>2

-----------------------------------------------------------------------------
\* A list has an element unless it is empty.
LEMMA EmptyList == ASSUME NEW X, NEW s \in Seq(X) PROVE s = <<>> <=> Range(s) = {}
<1>1. CASE s = <<>>  BY <1>1 DEF Range
<1>2. CASE s # <<>>
  <2>1. Len(s) \in Nat \ {0} /\ DOMAIN s = 1..Len(s)  BY <1>2, EmptySeq, LenProperties
  <2>2. s[1] \in Range(s)  BY <2>1 DEF Range
  <2> QED  BY <1>2, <2>2
<1> QED  BY <1>1, <1>2

\* An element added at the end is added to the elements, and a list stays
\* without repetition if the element was not in it.
LEMMA AppendToList ==
    ASSUME NEW X, NEW s \in Seq(X), NEW e \in X
    PROVE  /\ Append(s, e) \in Seq(X)
           /\ Range(Append(s, e)) = Range(s) \cup {e}
           /\ IsInjective(s) /\ e \notin Range(s) => IsInjective(Append(s, e))
<1> DEFINE t == Append(s, e)
<1>1. /\ t \in Seq(X) /\ Len(t) = Len(s) + 1
      /\ \A i \in 1..Len(s) : t[i] = s[i]
      /\ t[Len(s) + 1] = e
      /\ Len(s) \in Nat /\ DOMAIN s = 1..Len(s) /\ DOMAIN t = 1..(Len(s) + 1)
  BY AppendProperties, LenProperties
<1> HIDE DEF t
<1>2. Range(t) = Range(s) \cup {e}
  <2>1. ASSUME NEW x \in Range(t) PROVE x \in Range(s) \cup {e}
    <3>1. PICK i \in 1..(Len(s) + 1) : x = t[i]  BY <1>1, <2>1 DEF Range
    <3>2. CASE i = Len(s) + 1  BY <1>1, <3>1, <3>2
    <3>3. CASE i \in 1..Len(s)  BY <1>1, <3>1, <3>3 DEF Range
    <3> QED  BY <1>1, <3>1, <3>2, <3>3
  <2>2. ASSUME NEW x \in Range(s) PROVE x \in Range(t)
    <3>1. PICK i \in 1..Len(s) : x = s[i]  BY <1>1, <2>2 DEF Range
    <3>2. i \in 1..(Len(s) + 1) /\ x = t[i]  BY <1>1, <3>1
    <3> QED  BY <1>1, <3>2 DEF Range
  <2>3. e \in Range(t)
    <3>1. Len(s) + 1 \in 1..(Len(s) + 1)  BY <1>1
    <3> QED  BY <1>1, <3>1 DEF Range
  <2> QED  BY <2>1, <2>2, <2>3
<1>3. ASSUME IsInjective(s), e \notin Range(s) PROVE IsInjective(t)
  <2>1. \A i \in 1..Len(s) : s[i] # e  BY <1>1, <1>3 DEF Range
  <2> QED  BY <1>1, <1>3, <2>1 DEF IsInjective
<1> QED  BY <1>1, <1>2, <1>3 DEF t

\* Taking the head off an injective sequence takes exactly it out of the range.
LEMMA TailOfInjective ==
    ASSUME NEW S, NEW s \in Seq(S), s # <<>>, IsInjective(s)
    PROVE  /\ Tail(s) \in Seq(S) /\ Head(s) \in S
           /\ Head(s) \in Range(s)
           /\ Range(Tail(s)) = Range(s) \ {Head(s)}
           /\ IsInjective(Tail(s))
<1> DEFINE t == Tail(s)
<1>1. /\ t \in Seq(S) /\ Len(t) = Len(s) - 1
      /\ \A i \in 1..Len(t) : t[i] = s[i + 1]
      /\ Head(s) = s[1] /\ Head(s) \in S
      /\ Len(s) \in Nat /\ Len(s) > 0 /\ DOMAIN s = 1..Len(s) /\ DOMAIN t = 1..(Len(s) - 1)
  BY HeadTailProperties, LenProperties, EmptySeq
<1> HIDE DEF t
<1>2. Head(s) \in Range(s)  BY <1>1 DEF Range
<1>3. Range(t) = Range(s) \ {Head(s)}
  <2>1. ASSUME NEW x \in Range(t) PROVE x \in Range(s) \ {Head(s)}
    <3>1. PICK i \in 1..(Len(s) - 1) : x = t[i]  BY <1>1, <2>1 DEF Range
    <3>2. i + 1 \in 1..Len(s) /\ i + 1 # 1 /\ x = s[i + 1]  BY <1>1, <3>1
    <3>3. x \in Range(s)  BY <1>1, <3>2 DEF Range
    <3>4. x # s[1]  BY <1>1, <3>2 DEF IsInjective
    <3> QED  BY <1>1, <3>3, <3>4
  <2>2. ASSUME NEW x \in Range(s), x # Head(s) PROVE x \in Range(t)
    <3>1. PICK i \in 1..Len(s) : x = s[i]  BY <1>1, <2>2 DEF Range
    <3>2. i # 1  BY <1>1, <2>2, <3>1
    <3>3. i - 1 \in 1..(Len(s) - 1) /\ x = t[i - 1]  BY <1>1, <3>1, <3>2
    <3> QED  BY <1>1, <3>3 DEF Range
  <2> QED  BY <2>1, <2>2
<1>4. IsInjective(t)
  <2> SUFFICES ASSUME NEW a \in 1..(Len(s) - 1), NEW b \in 1..(Len(s) - 1), t[a] = t[b]
               PROVE  a = b
    BY <1>1 DEF IsInjective
  <2>1. a + 1 \in 1..Len(s) /\ b + 1 \in 1..Len(s) /\ s[a + 1] = s[b + 1]  BY <1>1
  <2>2. a + 1 = b + 1  BY <1>1, <2>1 DEF IsInjective
  <2> QED  BY <2>2
<1> QED  BY <1>1, <1>2, <1>3, <1>4 DEF t

\* Two lists without a common element make one without repetition.
LEMMA ConcatLists ==
    ASSUME NEW X, NEW s \in Seq(X), NEW t \in Seq(X)
    PROVE  /\ s \o t \in Seq(X)
           /\ Range(s \o t) = Range(s) \cup Range(t)
           /\ IsInjective(s) /\ IsInjective(t) /\ Range(s) \cap Range(t) = {} => IsInjective(s \o t)
<1> DEFINE u == s \o t
<1>1. /\ u \in Seq(X) /\ Len(u) = Len(s) + Len(t) /\ Len(s) \in Nat /\ Len(t) \in Nat
      /\ \A i \in 1..Len(u) : u[i] = IF i <= Len(s) THEN s[i] ELSE t[i - Len(s)]
      /\ DOMAIN s = 1..Len(s) /\ DOMAIN t = 1..Len(t) /\ DOMAIN u = 1..Len(u)
  BY ConcatProperties, LenProperties
<1>2. Range(u) = Range(s) \cup Range(t)  BY RangeConcatenation
<1> HIDE DEF u
<1>3. ASSUME IsInjective(s), IsInjective(t), Range(s) \cap Range(t) = {}, NEW i \in DOMAIN u, NEW j \in DOMAIN u,
             u[i] = u[j]
      PROVE  i = j
  <2>1. \A k \in 1..Len(s), l \in 1..Len(t) : s[k] # t[l]  BY <1>1, <1>3 DEF Range
  <2>2. CASE i <= Len(s) /\ j <= Len(s)  BY <1>1, <1>3, <2>2 DEF IsInjective
  <2>3. CASE i > Len(s) /\ j > Len(s)
    <3>1. i - Len(s) \in DOMAIN t /\ j - Len(s) \in DOMAIN t  BY <1>1, <1>3, <2>3
    <3>2. t[i - Len(s)] = t[j - Len(s)]  BY <1>1, <1>3, <2>3
    <3>3. i - Len(s) = j - Len(s)  BY <1>3, <3>1, <3>2 DEF IsInjective
    <3> QED  BY <1>1, <3>3
  <2>4. CASE i <= Len(s) /\ j > Len(s)
    <3>1. j - Len(s) \in 1..Len(t) /\ i \in 1..Len(s)  BY <1>1, <1>3, <2>4
    <3> QED  BY <1>1, <1>3, <2>1, <2>4, <3>1
  <2>5. CASE i > Len(s) /\ j <= Len(s)
    <3>1. i - Len(s) \in 1..Len(t) /\ j \in 1..Len(s)  BY <1>1, <1>3, <2>5
    <3> QED  BY <1>1, <1>3, <2>1, <2>5, <3>1
  <2> QED  BY <1>1, <2>2, <2>3, <2>4, <2>5
<1>4. IsInjective(s) /\ IsInjective(t) /\ Range(s) \cap Range(t) = {} => IsInjective(u)
  BY <1>3 DEF IsInjective
<1> QED  BY <1>1, <1>2, <1>4 DEF u

\* A list filtered has exactly the elements that are in the set, and none twice.
LEMMA FilteredList ==
    ASSUME NEW X, NEW s \in Seq(X), NEW S
    PROVE  /\ Only(s, S) \in Seq(X)
           /\ Range(Only(s, S)) = Range(s) \cap S
           /\ IsInjective(s) => IsInjective(Only(s, S))
<1>1. PICK f : IsFiltering(f, s, S) /\ Only(s, S) = f[Len(s)]  BY OnlyFilters
<1>2. /\ Len(s) \in Nat /\ DOMAIN s = 1..Len(s) /\ \A i \in 1..Len(s) : s[i] \in X  BY LenProperties
<1>3. f[0] = <<>>  BY <1>1, <1>2 DEF IsFiltering
<1>4. ASSUME NEW i \in 1..Len(s) PROVE f[i] = IF s[i] \in S THEN Append(f[i - 1], s[i]) ELSE f[i - 1]
  <2>1. i \in 0..Len(s) /\ i # 0  BY <1>2
  <2> DEFINE h == [k \in 0..Len(s) |-> IF k = 0 THEN <<>>
                                       ELSE IF s[k] \in S THEN Append(f[k - 1], s[k]) ELSE f[k - 1]]
  <2>2. f = h  BY <1>1 DEF IsFiltering
  <2>3. h[i] = IF s[i] \in S THEN Append(f[i - 1], s[i]) ELSE f[i - 1]  BY <2>1
  <2> HIDE DEF h
  <2> QED  BY <2>2, <2>3
<1> DEFINE First(n) == {s[j] : j \in 1..n}
           Good(n) == /\ f[n] \in Seq(X) /\ Range(f[n]) = First(n) \cap S
                      /\ IsInjective(s) => IsInjective(f[n])
           P == {n \in Nat : n <= Len(s) => Good(n)}
<1>5. 0 \in P
  <2>1. <<>> \in Seq(X) /\ Range(<<>>) = {} /\ IsInjective(<<>>)  BY EmptySeq DEF Range, IsInjective
  <2>2. First(0) = {}  OBVIOUS
  <2> HIDE DEF First
  <2> QED  BY <1>3, <2>1, <2>2
<1>6. ASSUME NEW n \in P PROVE n + 1 \in P
  <2> SUFFICES ASSUME n + 1 <= Len(s) PROVE Good(n + 1)
    <3> HIDE DEF Good
    <3> QED  OBVIOUS
  <2>1. n \in Nat /\ n <= Len(s) /\ n + 1 \in 1..Len(s) /\ (n + 1) - 1 = n  BY <1>2
  <2>2. Good(n)
    <3> HIDE DEF Good
    <3> QED  BY <2>1
  <2>3. First(n + 1) = First(n) \cup {s[n + 1]}
    <3>1. 1..(n + 1) = (1..n) \cup {n + 1}  BY <2>1
    <3> QED  BY <3>1
  <2>4. IsInjective(s) => s[n + 1] \notin First(n)
    BY <1>2, <2>1 DEF IsInjective
  <2>5. s[n + 1] \in X /\ f[n + 1] = IF s[n + 1] \in S THEN Append(f[n], s[n + 1]) ELSE f[n]
    BY <1>2, <1>4, <2>1
  <2> HIDE DEF First
  <2>6. CASE s[n + 1] \in S
    <3>1. /\ f[n + 1] \in Seq(X)
          /\ Range(f[n + 1]) = Range(f[n]) \cup {s[n + 1]}
          /\ IsInjective(f[n]) /\ s[n + 1] \notin Range(f[n]) => IsInjective(f[n + 1])
      BY <2>2, <2>5, <2>6, AppendToList
    <3> QED  BY <2>2, <2>3, <2>4, <2>6, <3>1
  <2>7. CASE s[n + 1] \notin S
    BY <2>2, <2>3, <2>5, <2>7
  <2> QED  BY <2>6, <2>7
<1>7. Good(Len(s))
  <2> HIDE DEF Good
  <2>1. P = Nat  BY <1>5, <1>6, SetInduction
  <2> QED  BY <1>2, <2>1
<1>8. First(Len(s)) = Range(s)  BY <1>2 DEF Range
<1> HIDE DEF First
<1> QED  BY <1>1, <1>7, <1>8

\* A list turned round has the same elements.
LEMMA ReversedList ==
    ASSUME NEW X, NEW s \in Seq(X)
    PROVE  /\ Reverse(s) \in Seq(X)
           /\ Range(Reverse(s)) = Range(s)
           /\ IsInjective(s) => IsInjective(Reverse(s))
<1> DEFINE t == Reverse(s)
<1>1. Len(s) \in Nat /\ DOMAIN s = 1..Len(s) /\ \A i \in 1..Len(s) : s[i] \in X  BY LenProperties
<1>2. /\ DOMAIN t = 1..Len(s) /\ t \in [1..Len(s) -> X]
      /\ \A i \in 1..Len(s) : (Len(s) - i) + 1 \in 1..Len(s) /\ t[i] = s[(Len(s) - i) + 1]
  BY <1>1 DEF Reverse
<1>3. t \in Seq(X)  BY <1>1, <1>2, SeqDef
<1> HIDE DEF t
<1>4. Range(t) = Range(s)
  <2>1. ASSUME NEW x \in Range(t) PROVE x \in Range(s)  BY <1>1, <1>2, <2>1 DEF Range
  <2>2. ASSUME NEW x \in Range(s) PROVE x \in Range(t)
    <3>1. PICK i \in 1..Len(s) : x = s[i]  BY <1>1, <2>2 DEF Range
    <3>2. (Len(s) - i) + 1 \in 1..Len(s) /\ (Len(s) - ((Len(s) - i) + 1)) + 1 = i  BY <1>1
    <3>3. x = t[(Len(s) - i) + 1]  BY <1>2, <3>1, <3>2
    <3> QED  BY <1>2, <3>2, <3>3 DEF Range
  <2> QED  BY <2>1, <2>2
<1>5. ASSUME IsInjective(s), NEW i \in DOMAIN t, NEW j \in DOMAIN t, t[i] = t[j] PROVE i = j
  <2>1. (Len(s) - i) + 1 = (Len(s) - j) + 1  BY <1>1, <1>2, <1>5 DEF IsInjective
  <2> QED  BY <1>1, <1>2, <2>1
<1>6. IsInjective(s) => IsInjective(t)  BY <1>5 DEF IsInjective
<1> QED  BY <1>3, <1>4, <1>6 DEF t

\* An element put in somewhere is added to the elements.
LEMMA InsertedInList ==
    ASSUME NEW X, NEW s \in Seq(X), NEW e \in X, NEW p \in 1..(Len(s) + 1)
    PROVE  /\ InsertAt(s, p, e) \in Seq(X)
           /\ Range(InsertAt(s, p, e)) = Range(s) \cup {e}
           /\ IsInjective(s) /\ e \notin Range(s) => IsInjective(InsertAt(s, p, e))
<1> DEFINE a == SubSeq(s, 1, p - 1)
           b == SubSeq(s, p, Len(s))
           single == <<e>>
           ae == a \o single
<1>1. /\ Len(s) \in Nat /\ DOMAIN s = 1..Len(s) /\ p \in Nat /\ p >= 1 /\ p <= Len(s) + 1
      /\ \A i \in 1..Len(s) : s[i] \in X
  BY LenProperties
<1>2. /\ a \in Seq(X) /\ Len(a) = p - 1 /\ DOMAIN a = 1..(p - 1) /\ \A i \in 1..(p - 1) : a[i] = s[i]
  <2>1. /\ a \in Seq(X) /\ Len(a) = IF 1 <= p - 1 THEN (p - 1) - 1 + 1 ELSE 0
        /\ \A i \in 1..((p - 1) - 1 + 1) : a[i] = s[1 + i - 1]
    BY <1>1, SubSeqProperties
  <2>2. Len(a) = p - 1  BY <1>1, <2>1
  <2>3. DOMAIN a = 1..Len(a)  BY <2>1, LenProperties
  <2> HIDE DEF a
  <2> QED  BY <1>1, <2>1, <2>2, <2>3
<1>3. /\ b \in Seq(X) /\ Len(b) = (Len(s) - p) + 1 /\ DOMAIN b = 1..((Len(s) - p) + 1)
      /\ \A i \in 1..((Len(s) - p) + 1) : b[i] = s[p + i - 1]
  <2>1. /\ b \in Seq(X) /\ Len(b) = IF p <= Len(s) THEN Len(s) - p + 1 ELSE 0
        /\ \A i \in 1..(Len(s) - p + 1) : b[i] = s[p + i - 1]
    BY <1>1, SubSeqProperties
  <2>2. Len(b) = (Len(s) - p) + 1  BY <1>1, <2>1
  <2>3. DOMAIN b = 1..Len(b)  BY <2>1, LenProperties
  <2> HIDE DEF b
  <2> QED  BY <1>1, <2>1, <2>2, <2>3
<1>4. single \in Seq(X) /\ Range(single) = {e} /\ IsInjective(single)
  BY DEF Range, IsInjective
<1> HIDE DEF a, b, single
<1>5. Range(a) \cup Range(b) = Range(s)
  <2>1. ASSUME NEW x \in Range(a) PROVE x \in Range(s)  BY <1>1, <1>2, <2>1 DEF Range
  <2>2. ASSUME NEW x \in Range(b) PROVE x \in Range(s)
    <3>1. PICK i \in 1..((Len(s) - p) + 1) : x = s[p + i - 1]  BY <1>3, <2>2 DEF Range
    <3>2. p + i - 1 \in 1..Len(s)  BY <1>1, <3>1
    <3> QED  BY <1>1, <3>1, <3>2 DEF Range
  <2>3. ASSUME NEW x \in Range(s) PROVE x \in Range(a) \cup Range(b)
    <3>1. PICK i \in 1..Len(s) : x = s[i]  BY <1>1, <2>3 DEF Range
    <3>2. CASE i < p
      <4>1. i \in 1..(p - 1)  BY <1>1, <3>2
      <4> QED  BY <1>2, <3>1, <4>1 DEF Range
    <3>3. CASE i >= p
      <4>1. (i - p) + 1 \in 1..((Len(s) - p) + 1) /\ p + ((i - p) + 1) - 1 = i  BY <1>1, <3>3
      <4>2. x = b[(i - p) + 1]  BY <1>3, <3>1, <4>1
      <4> QED  BY <1>3, <4>1, <4>2 DEF Range
    <3> QED  BY <1>1, <3>2, <3>3
  <2> QED  BY <2>1, <2>2, <2>3
<1>6. ASSUME IsInjective(s) PROVE IsInjective(a) /\ IsInjective(b) /\ Range(a) \cap Range(b) = {}
  <2>1. IsInjective(a)  BY <1>1, <1>2, <1>6 DEF IsInjective
  <2>2. ASSUME NEW i \in DOMAIN b, NEW j \in DOMAIN b, b[i] = b[j] PROVE i = j
    <3>1. p + i - 1 \in 1..Len(s) /\ p + j - 1 \in 1..Len(s)  BY <1>1, <1>3
    <3>2. s[p + i - 1] = s[p + j - 1]  BY <1>3, <2>2
    <3>3. p + i - 1 = p + j - 1  BY <1>1, <1>6, <3>1, <3>2 DEF IsInjective
    <3> QED  BY <1>1, <1>3, <3>3
  <2>3. ASSUME NEW i \in DOMAIN a, NEW j \in DOMAIN b PROVE a[i] # b[j]
    <3>1. p + j - 1 \in 1..Len(s) /\ i \in 1..Len(s) /\ p + j - 1 # i  BY <1>1, <1>2, <1>3
    <3> QED  BY <1>1, <1>2, <1>3, <1>6, <3>1 DEF IsInjective
  <2>4. IsInjective(b)  BY <2>2 DEF IsInjective
  <2>5. Range(a) \cap Range(b) = {}  BY <2>3 DEF Range
  <2> QED  BY <2>1, <2>4, <2>5
<1>7. /\ ae \in Seq(X) /\ Range(ae) = Range(a) \cup {e}
      /\ IsInjective(a) /\ e \notin Range(a) => IsInjective(ae)
  <2>1. /\ ae \in Seq(X) /\ Range(ae) = Range(a) \cup Range(single)
        /\ IsInjective(a) /\ IsInjective(single) /\ Range(a) \cap Range(single) = {} => IsInjective(ae)
    BY <1>2, <1>4, ConcatLists
  <2> HIDE DEF ae
  <2> QED  BY <1>4, <2>1
<1>8. InsertAt(s, p, e) = ae \o b  BY DEF InsertAt, a, b, single
<1> HIDE DEF ae
<1>9. /\ ae \o b \in Seq(X) /\ Range(ae \o b) = Range(ae) \cup Range(b)
      /\ IsInjective(ae) /\ IsInjective(b) /\ Range(ae) \cap Range(b) = {} => IsInjective(ae \o b)
  BY <1>3, <1>7, ConcatLists
<1>10. Range(ae \o b) = Range(s) \cup {e}  BY <1>5, <1>7, <1>9
<1>11. ASSUME IsInjective(s), e \notin Range(s) PROVE IsInjective(ae \o b)
  <2>1. e \notin Range(a) /\ e \notin Range(b)  BY <1>5, <1>11
  <2>2. Range(ae) \cap Range(b) = {}  BY <1>6, <1>7, <1>11, <2>1
  <2> QED  BY <1>6, <1>7, <1>9, <1>11, <2>1, <2>2
<1> QED  BY <1>8, <1>9, <1>10, <1>11
=============================================================================
