--------------------------- MODULE HostNetworkProofs ---------------------------
(***************************************************************************)
(* Proofs about HostInventory and HostNetwork, for every set of handlers   *)
(* and reports: type correctness of the two managers together; and, as     *)
(* long as reports are handled one at a time, that no component is stored  *)
(* twice and that a report that was answered is stored.                    *)
(***************************************************************************)
EXTENDS HostNetwork, NaturalsInduction, WellFoundedInduction, FiniteSetTheorems,
        SequenceTheorems, TLAPS

-----------------------------------------------------------------------------
(* Lists *)

\* A set of naturals that is not empty has a least element.
LEMMA LeastNat ==
    ASSUME NEW T, T \subseteq Nat, T # {}
    PROVE  \E x \in T : \A y \in T : x =< y
<1> DEFINE R == {p \in Nat \X Nat : p[1] < p[2]}
<1>1. IsWellFoundedOn(R, Nat)
    BY NatLessThanWellFounded, Zenon DEF OpToRel
<1> HIDE DEF R
<1>2. PICK x \in T : \A y \in T : ~(<<y, x>> \in R)
  <2>1. \E x \in T : \A y \in T : ~(<<y, x>> \in R)
    BY <1>1, WFMin, Zenon
  <2> QED BY <2>1, Zenon
<1>3. ASSUME NEW y \in T PROVE x =< y
  <2>1. x \in Nat /\ y \in Nat
    OBVIOUS
  <2>2. y < x => <<y, x>> \in R
    BY <2>1 DEF R
  <2> QED BY <1>2, <2>1, <2>2
<1> QED BY <1>2, <1>3

\* What a list has, it has at a position.
LEMMA ListAt ==
    ASSUME NEW s, IsList(s)
    PROVE  /\ DOMAIN s = 1 .. Len(s) /\ Len(s) \in Nat
           /\ \A x : x \in Range(s) <=> \E k \in 1 .. Len(s) : x = s[k]
    BY DEF IsList, Range

\* A sequence over any set is a list.
LEMMA SeqIsList ==
    ASSUME NEW S, NEW s \in Seq(S)
    PROVE  IsList(s)
    BY DEF IsList, Range

LEMMA ListConcat ==
    ASSUME NEW s, NEW t, IsList(s), IsList(t)
    PROVE  /\ IsList(s \o t)
           /\ \A x : x \in Range(s \o t) <=> x \in Range(s) \/ x \in Range(t)
           /\ Len(s \o t) = Len(s) + Len(t)
           /\ \A k \in 1 .. Len(s) : (s \o t)[k] = s[k]
           /\ \A k \in Len(s) + 1 .. Len(s) + Len(t) : (s \o t)[k] = t[k - Len(s)]
<1> DEFINE S == Range(s) \cup Range(t)
<1>1. s \in Seq(S) /\ t \in Seq(S)
    BY DEF IsList, Range
<1> HIDE DEF S
<1>2. s \o t \in Seq(S)
    BY <1>1
<1>3. /\ Len(s \o t) = Len(s) + Len(t)
      /\ \A k \in 1 .. Len(s) : (s \o t)[k] = s[k]
      /\ \A k \in Len(s) + 1 .. Len(s) + Len(t) : (s \o t)[k] = t[k - Len(s)]
    BY <1>1
<1>4. IsList(s \o t)
    BY <1>2, SeqIsList
<1>5. ASSUME NEW x PROVE x \in Range(s \o t) <=> x \in Range(s) \/ x \in Range(t)
  <2>1. Len(s) \in Nat /\ Len(t) \in Nat
    BY <1>1
  <2>2. x \in Range(s \o t) <=> \E k \in 1 .. Len(s) + Len(t) : x = (s \o t)[k]
    <3>1. x \in Range(s \o t) <=> \E k \in 1 .. Len(s \o t) : x = (s \o t)[k]
        BY <1>4, ListAt
    <3> QED BY <3>1, <1>3
  <2>3. x \in Range(s) <=> \E k \in 1 .. Len(s) : x = s[k]
    BY ListAt
  <2>4. x \in Range(t) <=> \E k \in 1 .. Len(t) : x = t[k]
    BY ListAt
  <2>5. ASSUME x \in Range(s \o t) PROVE x \in Range(s) \/ x \in Range(t)
    <3>1. PICK k \in 1 .. Len(s) + Len(t) : x = (s \o t)[k]
        BY <2>5, <2>2
    <3>2. k \in 1 .. Len(s) \/ (k \in Len(s) + 1 .. Len(s) + Len(t) /\ k - Len(s) \in 1 .. Len(t))
        BY <2>1
    <3> QED BY <3>1, <3>2, <1>3, <2>3, <2>4
  <2>6. ASSUME x \in Range(s) PROVE x \in Range(s \o t)
    <3>1. PICK k \in 1 .. Len(s) : x = s[k]
        BY <2>6, <2>3
    <3> QED BY <3>1, <1>3, <2>1, <2>2
  <2>7. ASSUME x \in Range(t) PROVE x \in Range(s \o t)
    <3>1. PICK k \in 1 .. Len(t) : x = t[k]
        BY <2>7, <2>4
    <3>2. k + Len(s) \in Len(s) + 1 .. Len(s) + Len(t) /\ (k + Len(s)) - Len(s) = k
        BY <2>1
    <3>3. x = (s \o t)[k + Len(s)] /\ k + Len(s) \in 1 .. Len(s) + Len(t)
        BY <3>1, <3>2, <1>3, <2>1
    <3> QED BY <3>3, <2>2
  <2> QED BY <2>5, <2>6, <2>7
<1> QED BY <1>3, <1>4, <1>5

LEMMA ListTail ==
    ASSUME NEW s, IsList(s), s # <<>>
    PROVE  /\ IsList(Tail(s)) /\ Head(s) \in Range(s)
           /\ \A x : x \in Range(s) <=> x = Head(s) \/ x \in Range(Tail(s))
           /\ Len(Tail(s)) = Len(s) - 1 /\ Head(s) = s[1] /\ 1 \in DOMAIN s
           /\ \A k \in 1 .. Len(s) - 1 : Tail(s)[k] = s[k + 1] /\ k + 1 \in DOMAIN s
<1> DEFINE S == Range(s)
<1>1. s \in Seq(S)
    BY DEF IsList
<1> HIDE DEF S
<1>2. Tail(s) \in Seq(S)
    BY <1>1
<1>3. Len(s) \in Nat /\ Len(s) >= 1 /\ DOMAIN s = 1 .. Len(s)
    BY <1>1
<1>4. /\ Len(Tail(s)) = Len(s) - 1 /\ Head(s) = s[1]
      /\ \A k \in 1 .. Len(s) - 1 : Tail(s)[k] = s[k + 1] /\ k + 1 \in DOMAIN s
    BY <1>1, <1>3
<1>5. IsList(Tail(s))
    BY <1>2, SeqIsList
<1>6. ASSUME NEW x PROVE x \in Range(s) <=> x = Head(s) \/ x \in Range(Tail(s))
  <2>1. x \in Range(s) <=> \E k \in 1 .. Len(s) : x = s[k]
    BY ListAt
  <2>2. x \in Range(Tail(s)) <=> \E k \in 1 .. Len(s) - 1 : x = Tail(s)[k]
    <3>1. x \in Range(Tail(s)) <=> \E k \in 1 .. Len(Tail(s)) : x = Tail(s)[k]
        BY <1>5, ListAt
    <3> QED BY <3>1, <1>4
  <2>3. ASSUME x \in Range(s) PROVE x = Head(s) \/ x \in Range(Tail(s))
    <3>1. PICK k \in 1 .. Len(s) : x = s[k]
        BY <2>3, <2>1
    <3>2. k = 1 \/ (k - 1 \in 1 .. Len(s) - 1 /\ (k - 1) + 1 = k)
        BY <1>3
    <3> QED BY <3>1, <3>2, <1>4, <2>2
  <2>4. ASSUME x \in Range(Tail(s)) PROVE x \in Range(s)
    <3>1. PICK k \in 1 .. Len(s) - 1 : x = Tail(s)[k]
        BY <2>4, <2>2
    <3> QED BY <3>1, <1>3, <1>4, <2>1
  <2> QED BY <2>1, <2>3, <2>4, <1>3, <1>4
<1> QED BY <1>3, <1>4, <1>5, <1>6

LEMMA ShortLists ==
    /\ IsList(<<>>) /\ \A x : x \notin Range(<<>>)
    /\ \A y : IsList(<<y>>) /\ \A x : x \in Range(<<y>>) <=> x = y
<1>1. <<>> \in Seq({}) /\ Len(<<>>) = 0
    OBVIOUS
<1>2. IsList(<<>>)
    BY <1>1, SeqIsList
<1>3. ASSUME NEW y PROVE IsList(<<y>>) /\ \A x : x \in Range(<<y>>) <=> x = y
  <2>1. <<y>> \in Seq({y}) /\ Len(<<y>>) = 1 /\ <<y>>[1] = y
    OBVIOUS
  <2>2. IsList(<<y>>)
    BY <2>1, SeqIsList
  <2> QED BY <2>1, <2>2, ListAt
<1>4. \A x : x \notin Range(<<>>)
    BY <1>1, <1>2, ListAt
<1> QED BY <1>2, <1>3, <1>4

\* The function by which FlattenSeq concatenates the first n lists.
Flattens(f, lists, n) ==
    f = [k \in 1 .. n |-> IF k = 1 THEN lists[k] ELSE f[k - 1] \o lists[k]]

\* There is one: the first n without one would have one.
LEMMA FlattensExists ==
    ASSUME NEW lists, NEW n \in Nat
    PROVE  \E f : Flattens(f, lists, n)
<1> DEFINE T == {m \in Nat : ~\E f : Flattens(f, lists, m)}
<1>1. SUFFICES ASSUME T # {} PROVE FALSE
    OBVIOUS
<1>2. PICK m \in T : \A y \in T : m =< y
    BY <1>1, LeastNat
<1>3. m # 0
  <2>1. Flattens([k \in 1 .. 0 |-> 0], lists, 0)
    BY DEF Flattens
  <2> QED BY <2>1
<1>4. m \in Nat /\ m - 1 \in Nat /\ m - 1 \notin T
    BY <1>2, <1>3
<1>5. PICK f : Flattens(f, lists, m - 1)
    BY <1>4
<1> DEFINE g == [k \in 1 .. m |-> IF k < m THEN f[k]
                                  ELSE IF m = 1 THEN lists[1] ELSE f[m - 1] \o lists[m]]
<1>6. g = [k \in 1 .. m |-> IF k = 1 THEN lists[k] ELSE g[k - 1] \o lists[k]]
  <2> SUFFICES ASSUME NEW k \in 1 .. m
               PROVE  g[k] = IF k = 1 THEN lists[k] ELSE g[k - 1] \o lists[k]
    OBVIOUS
  <2>1. CASE k < m
    <3>1. k \in 1 .. m - 1 /\ (k # 1 => k - 1 \in 1 .. m - 1)
        BY <2>1, <1>4
    <3>2. f[k] = IF k = 1 THEN lists[k] ELSE f[k - 1] \o lists[k]
        BY <3>1, <1>5 DEF Flattens
    <3>3. g[k] = f[k] /\ (k # 1 => g[k - 1] = f[k - 1])
        BY <3>1, <1>4
    <3> QED BY <3>2, <3>3
  <2>2. CASE k = m
    <3>1. g[k] = IF m = 1 THEN lists[1] ELSE f[m - 1] \o lists[m]
        BY <2>2, <1>4
    <3>2. k # 1 => g[k - 1] = f[k - 1]
        BY <2>2, <1>4
    <3> QED BY <2>2, <3>1, <3>2
  <2> QED BY <2>1, <2>2, <1>4
<1> HIDE DEF g
<1>7. Flattens(g, lists, m)
    BY <1>6 DEF Flattens
<1> QED BY <1>2, <1>7

\* How often a list has members of a set: at most once.
AtMostOnce(list, S) == \A j, k \in DOMAIN list : list[j] \in S /\ list[k] \in S => j = k

LEMMA AtMostOnceConcat ==
    ASSUME NEW s, NEW t, NEW S, IsList(s), IsList(t), AtMostOnce(s, S), AtMostOnce(t, S),
           (\A x \in S : x \notin Range(s)) \/ (\A x \in S : x \notin Range(t))
    PROVE  AtMostOnce(s \o t, S)
<1>1. /\ Len(s) \in Nat /\ Len(t) \in Nat
      /\ DOMAIN s = 1 .. Len(s) /\ DOMAIN t = 1 .. Len(t)
      /\ DOMAIN (s \o t) = 1 .. Len(s) + Len(t)
    BY ListConcat, ListAt
<1>2. /\ \A k \in 1 .. Len(s) : (s \o t)[k] = s[k] /\ s[k] \in Range(s)
      /\ \A k \in Len(s) + 1 .. Len(s) + Len(t) :
            /\ k - Len(s) \in 1 .. Len(t)
            /\ (s \o t)[k] = t[k - Len(s)]
            /\ t[k - Len(s)] \in Range(t)
    BY <1>1, ListConcat, ListAt
<1> SUFFICES ASSUME NEW j \in 1 .. Len(s) + Len(t), NEW k \in 1 .. Len(s) + Len(t),
                    (s \o t)[j] \in S, (s \o t)[k] \in S
             PROVE  j = k
    BY <1>1 DEF AtMostOnce
<1>3. /\ j \in 1 .. Len(s) \/ j \in Len(s) + 1 .. Len(s) + Len(t)
      /\ k \in 1 .. Len(s) \/ k \in Len(s) + 1 .. Len(s) + Len(t)
    BY <1>1
<1>4. CASE j \in 1 .. Len(s) /\ k \in 1 .. Len(s)
    BY <1>4, <1>1, <1>2 DEF AtMostOnce
<1>5. CASE j \in Len(s) + 1 .. Len(s) + Len(t) /\ k \in Len(s) + 1 .. Len(s) + Len(t)
  <2>1. j - Len(s) = k - Len(s)
    BY <1>5, <1>1, <1>2 DEF AtMostOnce
  <2> QED BY <2>1, <1>1, <1>5
<1>6. CASE j \in 1 .. Len(s) /\ k \in Len(s) + 1 .. Len(s) + Len(t)
    BY <1>6, <1>2
<1>7. CASE j \in Len(s) + 1 .. Len(s) + Len(t) /\ k \in 1 .. Len(s)
    BY <1>7, <1>2
<1> QED BY <1>3, <1>4, <1>5, <1>6, <1>7

\* The concatenation has what the lists have; and has members of a set at most
\* once if one list has one, and no other list has any.
LEMMA FlattenSeqOfLists ==
    ASSUME NEW lists, IsList(lists), \A k \in 1 .. Len(lists) : IsList(lists[k])
    PROVE  /\ IsList(FlattenSeq(lists))
           /\ \A x : x \in Range(FlattenSeq(lists))
                        <=> \E k \in 1 .. Len(lists) : x \in Range(lists[k])
           /\ \A S : /\ \A k \in 1 .. Len(lists) : AtMostOnce(lists[k], S)
                     /\ \A j, k \in 1 .. Len(lists) : \A x, y \in S :
                           x \in Range(lists[j]) /\ y \in Range(lists[k]) => j = k
                     => AtMostOnce(FlattenSeq(lists), S)
<1>1. Len(lists) \in Nat /\ DOMAIN lists = 1 .. Len(lists)
    BY ListAt
<1>2. CASE Len(lists) = 0
  <2>1. lists = <<>>
    BY <1>2 DEF IsList
  <2>2. FlattenSeq(lists) = <<>>
    BY <1>2, <2>1 DEF FlattenSeq
  <2>3. \A S : AtMostOnce(<<>>, S)
    BY DEF AtMostOnce
  <2> QED BY <1>2, <2>2, <2>3, ShortLists
<1>3. CASE Len(lists) # 0
  <2> DEFINE n == Len(lists)
             f == CHOOSE f : f = [k \in 1 .. n |->
                                    IF k = 1 THEN lists[k] ELSE f[k - 1] \o lists[k]]
  <2>1. f = [k \in 1 .. n |-> IF k = 1 THEN lists[k] ELSE f[k - 1] \o lists[k]]
    <3>1. \E g : g = [k \in 1 .. n |-> IF k = 1 THEN lists[k] ELSE g[k - 1] \o lists[k]]
        BY <1>1, FlattensExists DEF Flattens
    <3> QED BY <3>1
  <2>2. FlattenSeq(lists) = f[n]
    BY <1>3 DEF FlattenSeq
  <2> HIDE DEF f
  <2>3. /\ f[1] = lists[1]
        /\ \A k \in 2 .. n : f[k] = f[k - 1] \o lists[k]
    <3>1. f[1] = lists[1]
        BY <2>1, <1>1, <1>3
    <3>2. ASSUME NEW k \in 2 .. n PROVE f[k] = f[k - 1] \o lists[k]
      <4>1. k \in 1 .. n /\ k # 1
        BY <1>1
      <4> QED BY <4>1, <2>1
    <3> QED BY <3>1, <3>2
  <2> DEFINE Good(k) ==
        /\ IsList(f[k])
        /\ \A x : x \in Range(f[k]) <=> \E j \in 1 .. k : x \in Range(lists[j])
        /\ \A S : /\ \A j \in 1 .. n : AtMostOnce(lists[j], S)
                  /\ \A i, j \in 1 .. n : \A x, y \in S :
                        x \in Range(lists[i]) /\ y \in Range(lists[j]) => i = j
                  => AtMostOnce(f[k], S)
      T == {k \in 1 .. n : ~Good(k)}
  <2>4. ASSUME T # {} PROVE FALSE
    <3>1. T \subseteq Nat
        OBVIOUS
    <3>2. PICK m \in T : \A y \in T : m =< y
        BY <3>1, <2>4, LeastNat
    <3>3. m # 1
      <4>1. 1 \in 1 .. n /\ \A j \in 1 .. 1 : j = 1
        BY <1>1, <1>3
      <4>2. IsList(f[1])
        BY <4>1, <2>3
      <4>3. \A x : x \in Range(f[1]) <=> \E j \in 1 .. 1 : x \in Range(lists[j])
        BY <4>1, <2>3
      <4>4. \A S : /\ \A j \in 1 .. n : AtMostOnce(lists[j], S)
                   /\ \A i, j \in 1 .. n : \A x, y \in S :
                         x \in Range(lists[i]) /\ y \in Range(lists[j]) => i = j
                   => AtMostOnce(f[1], S)
        <5>1. 1 \in 1 .. n
            BY <1>1, <1>3
        <5> QED BY <5>1, <2>3, Zenon
      <4>5. Good(1)
        BY <4>2, <4>3, <4>4 DEF Good
      <4> QED BY <4>5
    <3>4. m \in 2 .. n /\ m - 1 \in 1 .. n /\ m - 1 \notin T
      <4>1. m \in 1 .. n
        OBVIOUS
      <4>2. m - 1 \notin T
        <5> HIDE DEF T
        <5> QED BY <4>1, <3>2, <1>1
      <4> QED BY <4>1, <4>2, <3>3, <1>1
    <3>5. Good(m - 1)
      <4> HIDE DEF Good
      <4> QED BY <3>4
    <3>6. IsList(f[m - 1]) /\ IsList(lists[m]) /\ f[m] = f[m - 1] \o lists[m]
        BY <3>5, <3>4, <2>3, <1>1
    <3>7. /\ IsList(f[m])
          /\ \A x : x \in Range(f[m]) <=> x \in Range(f[m - 1]) \/ x \in Range(lists[m])
        BY <3>6, ListConcat
    <3>8. ASSUME NEW x PROVE x \in Range(f[m]) <=> \E j \in 1 .. m : x \in Range(lists[j])
      <4>1. x \in Range(f[m - 1]) <=> \E j \in 1 .. m - 1 : x \in Range(lists[j])
        BY <3>5
      <4>2. \A j \in 1 .. m : j \in 1 .. m - 1 \/ j = m
        BY <3>4
      <4>3. \A j \in 1 .. m - 1 : j \in 1 .. m
        BY <3>4
      <4>4. m \in 1 .. m
        BY <3>4
      <4> QED BY <3>7, <4>1, <4>2, <4>3, <4>4
    <3>9. ASSUME NEW S,
                 \A j \in 1 .. n : AtMostOnce(lists[j], S),
                 \A i, j \in 1 .. n : \A x, y \in S :
                    x \in Range(lists[i]) /\ y \in Range(lists[j]) => i = j
          PROVE  AtMostOnce(f[m], S)
      <4>1. AtMostOnce(f[m - 1], S) /\ AtMostOnce(lists[m], S)
        BY <3>5, <3>9, <3>4
      <4>2. ASSUME NEW x \in S, NEW y \in S, x \in Range(f[m - 1]), y \in Range(lists[m])
            PROVE  FALSE
        <5>1. PICK j \in 1 .. m - 1 : x \in Range(lists[j])
            BY <4>2, <3>5
        <5>2. j \in 1 .. n /\ m \in 1 .. n /\ j # m
            BY <3>4, <1>1
        <5> QED BY <5>1, <5>2, <4>2, <3>9
      <4> QED BY <4>1, <4>2, <3>6, AtMostOnceConcat
    <3>10. Good(m)
        BY <3>7, <3>8, <3>9
    <3> QED BY <3>2, <3>10
  <2>5. Good(n)
    <3>1. n \in 1 .. n
        BY <1>1, <1>3
    <3> HIDE DEF Good
    <3> QED BY <3>1, <2>4
  <2> QED BY <2>2, <2>5
<1> QED BY <1>2, <1>3

\* A finite set is listed by SetToSeq.
LEMMA SetToSeqOfFinite ==
    ASSUME NEW S, IsFiniteSet(S)
    PROVE  /\ IsList(SetToSeq(S)) /\ SetToSeq(S) \in Seq(S) /\ IsInjective(SetToSeq(S))
           /\ Range(SetToSeq(S)) = S
<1>1. Cardinality(S) \in Nat
    BY FS_CardinalityType
<1> DEFINE D == 1 .. Cardinality(S)
           s == SetToSeq(S)
<1>2. \E f \in [D -> S] : IsInjective(f)
  <2>1. PICK f : f \in Bijection(D, S)
    BY FS_CardinalityType DEF ExistsBijection
  <2> QED BY <2>1 DEF Bijection, Injection, IsInjective
<1>3. s \in [D -> S] /\ IsInjective(s)
    BY <1>2 DEF SetToSeq
<1> HIDE DEF s
<1>4. s \in Seq(S) /\ DOMAIN s = D
    BY <1>1, <1>3
<1>5. IsFiniteSet(D) /\ Cardinality(D) = Cardinality(S)
    BY <1>1, FS_Interval
<1>6. s \in Surjection(D, S)
    BY <1>3, <1>5, FS_Injection DEF Injection, IsInjective
<1>7. Range(s) = S
    BY <1>6, <1>4 DEF Surjection, Range
<1> QED BY <1>3, <1>4, <1>7, SeqIsList DEF s


\* A function on 1 .. n is a list.
LEMMA FunctionIsList ==
    ASSUME NEW n \in Nat, NEW f, f = [k \in 1 .. n |-> f[k]]
    PROVE  IsList(f) /\ Len(f) = n /\ DOMAIN f = 1 .. n
<1>1. DOMAIN f = 1 .. n
    OBVIOUS
<1>2. f \in [1 .. n -> Range(f)]
    BY <1>1 DEF Range
<1>3. f \in Seq(Range(f))
    BY <1>2
<1> QED BY <1>1, <1>3 DEF IsList

-----------------------------------------------------------------------------
(* The plan of a report *)

CreateCall(kind, item) == [op |-> "create", kind |-> kind, item |-> item]
UpdateCall(id, val) == [op |-> "update", id |-> id, val |-> val]
DeleteCall(id) == [op |-> "delete", id |-> id]
AddressesCall(nic, list) == [op |-> "addresses", nic |-> nic, list |-> list]
CreateAddressCall(nic, key) == [op |-> "createAddress", nic |-> nic, key |-> key]
UpdateAddressCall(id) == [op |-> "updateAddress", id |-> id]
DeleteAddressCall(id) == [op |-> "deleteAddress", id |-> id]

LEMMA AddressesOfItem ==
    ASSUME NEW kind, NEW id, NEW item
    PROVE  /\ IsList(Addresses(kind, id, item))
           /\ \A x : x \in Range(Addresses(kind, id, item))
                        <=> kind = "nic" /\ x = AddressesCall(id, item.ips)
    BY ShortLists DEF Addresses, AddressesCall

\* What is done about an item: it is created if it is not known, and otherwise
\* updated where it differs, and its addresses are looked at.
LEMMA PutCalls ==
    ASSUME NEW kind, NEW item, NEW known
    PROVE  LET found == Match(known, item.key)
               id == FirstOf(found).id
               calls == Put(kind, item, known)
           IN  /\ IsList(calls)
               /\ \A x \in Range(calls) :
                     \/ x = Refused
                     \/ found = {} /\ x = CreateCall(kind, item)
                     \/ found # {} /\ x = UpdateCall(id, item.val)
                     \/ found # {} /\ kind = "nic" /\ x = AddressesCall(id, item.ips)
               /\ Refused \notin Range(calls) =>
                     /\ found = {} => CreateCall(kind, item) \in Range(calls)
                     /\ found # {} /\ FirstOf(found).val # item.val
                           => UpdateCall(id, item.val) \in Range(calls)
                     /\ found # {} /\ kind = "nic"
                           => AddressesCall(id, item.ips) \in Range(calls)
               /\ found = {} => Len(calls) = 1
<1> DEFINE found == Match(known, item.key)
           old == FirstOf(found)
           calls == Put(kind, item, known)
<1>1. CASE kind = "gpu" /\ ~PopulatesGpu(item)
  <2>1. calls = <<Refused>>
    BY <1>1 DEF Put
  <2> HIDE DEF calls
  <2>2. IsList(calls) /\ \A x : x \in Range(calls) <=> x = Refused
    BY <2>1, ShortLists
  <2>3. Len(calls) = 1
    BY <2>1
  <2> QED BY <2>2, <2>3 DEF calls
<1>2. CASE ~(kind = "gpu" /\ ~PopulatesGpu(item)) /\ found = {}
  <2>1. calls = <<CreateCall(kind, item)>>
    BY <1>2 DEF Put, CreateCall
  <2> HIDE DEF calls
  <2>2. IsList(calls) /\ \A x : x \in Range(calls) <=> x = CreateCall(kind, item)
    BY <2>1, ShortLists
  <2>3. Len(calls) = 1
    BY <2>1
  <2> QED BY <1>2, <2>2, <2>3 DEF calls
<1>3. CASE ~(kind = "gpu" /\ ~PopulatesGpu(item)) /\ found # {}
  <2> DEFINE first == IF old.val = item.val THEN <<>> ELSE <<UpdateCall(old.id, item.val)>>
  <2>1. calls = first \o Addresses(kind, old.id, item)
    BY <1>3 DEF Put, UpdateCall
  <2>2. IsList(first) /\ \A x : x \in Range(first)
                            <=> old.val # item.val /\ x = UpdateCall(old.id, item.val)
    BY ShortLists
  <2> HIDE DEF calls, first, old
  <2>3. /\ IsList(calls)
        /\ \A x : x \in Range(calls) <=> x \in Range(first)
                                         \/ x \in Range(Addresses(kind, old.id, item))
    BY <2>1, <2>2, AddressesOfItem, ListConcat
  <2> QED BY <1>3, <2>2, <2>3, AddressesOfItem DEF calls, old
<1> QED BY <1>1, <1>2, <1>3

LEMMA DropCalls ==
    ASSUME NEW kind, NEW old
    PROVE  /\ IsList(Drop(kind, old))
           /\ \A x : x \in Range(Drop(kind, old))
                 <=> x = DeleteCall(old.id) \/ (kind = "nic" /\ x = AddressesCall(old.id, <<>>))
<1> DEFINE none == [ips |-> <<>>]
<1>1. Drop(kind, old) = Addresses(kind, old.id, none) \o <<DeleteCall(old.id)>>
    BY DEF Drop, DeleteCall
<1>2. none.ips = <<>>
    OBVIOUS
<1> HIDE DEF none
<1>3. /\ IsList(Addresses(kind, old.id, none))
      /\ \A x : x \in Range(Addresses(kind, old.id, none))
                   <=> kind = "nic" /\ x = AddressesCall(old.id, <<>>)
    BY <1>2, AddressesOfItem
<1>4. /\ IsList(<<DeleteCall(old.id)>>)
      /\ \A x : x \in Range(<<DeleteCall(old.id)>>) <=> x = DeleteCall(old.id)
    BY ShortLists
<1> QED BY <1>1, <1>3, <1>4, ListConcat

\* What is done about a list of items: something for each, and for each component
\* that is not among them.
Puts(kind, items, known) == [k \in DOMAIN items |-> Put(kind, items[k], known)]

Drops(kind, items, known) ==
    LET gone == SetToSeq(Gone(items, known)) IN [k \in DOMAIN gone |-> Drop(kind, gone[k])]

LEMMA ReconcileCalls ==
    ASSUME NEW kind, NEW items, NEW known, IsList(items), IsFiniteSet(known)
    PROVE  LET calls == Reconcile(kind, items, known)
               puts == Puts(kind, items, known)
               drops == Drops(kind, items, known)
           IN  /\ IsList(calls) /\ IsList(puts) /\ IsList(drops)
               /\ DOMAIN puts = 1 .. Len(puts) /\ DOMAIN puts = DOMAIN items
               /\ IsList(FlattenSeq(puts)) /\ IsList(FlattenSeq(drops))
               /\ calls = FlattenSeq(puts) \o FlattenSeq(drops)
               /\ \A x : x \in Range(FlattenSeq(puts))
                       <=> \E k \in DOMAIN items : x \in Range(Put(kind, items[k], known))
               /\ \A x : x \in Range(FlattenSeq(drops))
                       <=> \E c \in Gone(items, known) : x \in Range(Drop(kind, c))
               /\ \A x : x \in Range(calls)
                       <=> \/ \E k \in DOMAIN items : x \in Range(Put(kind, items[k], known))
                           \/ \E c \in Gone(items, known) : x \in Range(Drop(kind, c))
<1> DEFINE calls == Reconcile(kind, items, known)
           puts == Puts(kind, items, known)
           gone == SetToSeq(Gone(items, known))
           drops == Drops(kind, items, known)
<1>1. DOMAIN items = 1 .. Len(items) /\ Len(items) \in Nat
    BY ListAt
<1>2. IsFiniteSet(Gone(items, known))
    BY FS_Subset DEF Gone
<1>3. IsList(gone) /\ Range(gone) = Gone(items, known)
    BY <1>2, SetToSeqOfFinite
<1> HIDE DEF gone
<1>4. DOMAIN gone = 1 .. Len(gone) /\ Len(gone) \in Nat
    BY <1>3, ListAt
<1>5. /\ \A k \in DOMAIN items : puts[k] = Put(kind, items[k], known)
      /\ \A k \in DOMAIN gone : drops[k] = Drop(kind, gone[k])
    BY DEF Puts, Drops, gone
<1>6. /\ IsList(puts) /\ DOMAIN puts = 1 .. Len(puts) /\ DOMAIN puts = DOMAIN items
      /\ Len(puts) = Len(items)
    BY <1>1, FunctionIsList DEF Puts
<1>7. IsList(drops) /\ DOMAIN drops = 1 .. Len(drops) /\ Len(drops) = Len(gone)
    BY <1>4, FunctionIsList DEF Drops, gone
<1> HIDE DEF puts, drops
<1>8. /\ \A k \in 1 .. Len(puts) : IsList(puts[k])
      /\ \A k \in 1 .. Len(drops) : IsList(drops[k])
    BY <1>1, <1>4, <1>5, <1>6, <1>7, PutCalls, DropCalls
<1>9. /\ IsList(FlattenSeq(puts))
      /\ \A x : x \in Range(FlattenSeq(puts))
              <=> \E k \in 1 .. Len(puts) : x \in Range(puts[k])
    BY <1>6, <1>8, FlattenSeqOfLists
<1>10. /\ IsList(FlattenSeq(drops))
       /\ \A x : x \in Range(FlattenSeq(drops))
              <=> \E k \in 1 .. Len(drops) : x \in Range(drops[k])
    BY <1>7, <1>8, FlattenSeqOfLists
<1>11. calls = FlattenSeq(puts) \o FlattenSeq(drops)
    BY DEF Reconcile, Puts, Drops, puts, drops
<1> HIDE DEF calls
<1>12. ASSUME NEW x
       PROVE  x \in Range(FlattenSeq(puts))
                <=> \E k \in DOMAIN items : x \in Range(Put(kind, items[k], known))
    BY <1>5, <1>6, <1>9
<1>13. ASSUME NEW x
       PROVE  x \in Range(FlattenSeq(drops))
                <=> \E c \in Gone(items, known) : x \in Range(Drop(kind, c))
  <2>1. \A c : c \in Gone(items, known) <=> \E k \in DOMAIN gone : c = gone[k]
    BY <1>3, <1>4, ListAt
  <2>2. x \in Range(FlattenSeq(drops)) <=> \E k \in DOMAIN gone : x \in Range(Drop(kind, gone[k]))
    BY <1>4, <1>5, <1>7, <1>10
  <2> QED BY <2>1, <2>2
<1>14. /\ IsList(calls)
       /\ \A x : x \in Range(calls)
                <=> x \in Range(FlattenSeq(puts)) \/ x \in Range(FlattenSeq(drops))
    BY <1>9, <1>10, <1>11, ListConcat
<1> QED BY <1>6, <1>7, <1>9, <1>10, <1>11, <1>12, <1>13, <1>14 DEF calls, puts, drops, gone


HostFieldsCall(fields) == [op |-> "host", fields |-> fields]

LEMMA HostCalls ==
    ASSUME NEW info
    PROVE  /\ IsList(HostCall(info))
           /\ \A x \in Range(HostCall(info)) : x = Refused \/ x = HostFieldsCall(HostFields(info))
           /\ Refused \notin Range(HostCall(info)) =>
                 \/ host.fields = HostFields(info)
                 \/ HostFieldsCall(HostFields(info)) \in Range(HostCall(info))
    BY ShortLists DEF HostCall, HostFieldsCall

\* The parts of the report that are lists of components.
ListsOK(parts) ==
    /\ \A kind \in Kinds : IsList(parts[kind])
    /\ \A k \in DOMAIN parts.nic : IsList(parts.nic[k].ips)

PlanOf(kind, info) == Reconcile(kind, Components(info)[kind], Loaded(kind))

\* The plan of a report is the one of the host and those of the four kinds.
LEMMA ReportCalls ==
    ASSUME NEW info, ListsOK(Components(info)), IsFiniteSet(comps)
    PROVE  /\ IsList(CallsOf(info))
           /\ \A kind \in Kinds : IsList(PlanOf(kind, info))
           /\ \A x : x \in Range(CallsOf(info))
                   <=> \/ x \in Range(HostCall(info))
                       \/ \E kind \in Kinds : x \in Range(PlanOf(kind, info))
           /\ CallsOf(info) = (((HostCall(info) \o PlanOf("storage", info))
                                \o PlanOf("nic", info)) \o PlanOf("usb", info))
                                \o PlanOf("gpu", info)
<1> DEFINE H == HostCall(info)
           A == PlanOf("storage", info)
           B == PlanOf("nic", info)
           C == PlanOf("usb", info)
           D == PlanOf("gpu", info)
<1>1. CallsOf(info) = (((H \o A) \o B) \o C) \o D
    BY DEF CallsOf, UpdateStorages, UpdateNics, UpdateUsbs, UpdateGpus, PlanOf
<1>2. \A kind : IsFiniteSet(Loaded(kind))
    BY FS_Subset DEF Loaded
<1>3. \A kind \in Kinds : IsList(PlanOf(kind, info))
    BY <1>2, ReconcileCalls DEF ListsOK, PlanOf
<1>4. IsList(H) /\ IsList(A) /\ IsList(B) /\ IsList(C) /\ IsList(D)
    BY <1>3, HostCalls DEF Kinds
<1>5. \A x : (\E kind \in Kinds : x \in Range(PlanOf(kind, info)))
          <=> x \in Range(A) \/ x \in Range(B) \/ x \in Range(C) \/ x \in Range(D)
    BY DEF Kinds
<1> HIDE DEF H, A, B, C, D
<1>6. /\ IsList(H \o A)
      /\ \A x : x \in Range(H \o A) <=> x \in Range(H) \/ x \in Range(A)
    BY <1>4, ListConcat
<1>7. /\ IsList((H \o A) \o B)
      /\ \A x : x \in Range((H \o A) \o B) <=> x \in Range(H \o A) \/ x \in Range(B)
    BY <1>4, <1>6, ListConcat
<1>8. /\ IsList(((H \o A) \o B) \o C)
      /\ \A x : x \in Range(((H \o A) \o B) \o C)
              <=> x \in Range((H \o A) \o B) \/ x \in Range(C)
    BY <1>4, <1>7, ListConcat
<1>9. /\ IsList(CallsOf(info))
      /\ \A x : x \in Range(CallsOf(info))
              <=> x \in Range(((H \o A) \o B) \o C) \/ x \in Range(D)
    BY <1>1, <1>4, <1>8, ListConcat
<1>10. \A x : x \in Range(CallsOf(info))
           <=> \/ x \in Range(H) \/ x \in Range(A) \/ x \in Range(B)
               \/ x \in Range(C) \/ x \in Range(D)
    BY <1>6, <1>7, <1>8, <1>9
<1> QED BY <1>1, <1>3, <1>5, <1>9, <1>10 DEF H, A, B, C, D

\* What is done about the addresses of a NIC.
LEMMA AddressPlan ==
    ASSUME NEW nic, NEW list, NEW known, IsList(list), IsFiniteSet(known)
    PROVE  LET calls == AddressCalls(nic, list, known) IN
              /\ IsList(calls)
              /\ \A x \in Range(calls) :
                    \/ x = Refused
                    \/ \E k \in DOMAIN list : x = CreateAddressCall(nic, list[k].key)
                    \/ \E id : x = UpdateAddressCall(id)
                    \/ \E ip \in known : (\A k \in DOMAIN list : list[k].key # ip.key)
                                         /\ x = DeleteAddressCall(ip.id)
              /\ \A ip \in known : (\A k \in DOMAIN list : list[k].key # ip.key)
                    => DeleteAddressCall(ip.id) \in Range(calls)
              /\ Refused \notin Range(calls) =>
                    \A k \in DOMAIN list :
                       \/ \E ip \in known : ip.key = list[k].key
                       \/ CreateAddressCall(nic, list[k].key) \in Range(calls)
<1> DEFINE calls == AddressCalls(nic, list, known)
           puts == [k \in DOMAIN list |-> PutAddress(nic, list[k], known)]
           gone == SetToSeq(Gone(list, known))
           drops == [k \in DOMAIN gone |-> DeleteAddressCall(gone[k].id)]
<1>1. DOMAIN list = 1 .. Len(list) /\ Len(list) \in Nat
    BY ListAt
<1>2. IsFiniteSet(Gone(list, known))
    BY FS_Subset DEF Gone
<1>3. IsList(gone) /\ Range(gone) = Gone(list, known)
    BY <1>2, SetToSeqOfFinite
<1> HIDE DEF gone
<1>4. DOMAIN gone = 1 .. Len(gone) /\ Len(gone) \in Nat
    BY <1>3, ListAt
<1>5. /\ \A k \in DOMAIN list : puts[k] = PutAddress(nic, list[k], known)
      /\ \A k \in DOMAIN gone : drops[k] = DeleteAddressCall(gone[k].id)
    OBVIOUS
<1>6. IsList(puts) /\ DOMAIN puts = 1 .. Len(puts) /\ Len(puts) = Len(list)
    BY <1>1, FunctionIsList
<1>7. IsList(drops) /\ DOMAIN drops = 1 .. Len(drops) /\ Len(drops) = Len(gone)
    BY <1>4, FunctionIsList
<1>8. calls = FlattenSeq(puts) \o drops
    BY DEF AddressCalls, puts, drops, gone, DeleteAddressCall
<1> HIDE DEF puts, drops, calls
<1>9. ASSUME NEW k \in DOMAIN list
      PROVE  /\ IsList(puts[k])
             /\ \A x \in Range(puts[k]) :
                   \/ x = Refused
                   \/ x = CreateAddressCall(nic, list[k].key)
                   \/ \E id : x = UpdateAddressCall(id)
             /\ Refused \notin Range(puts[k]) =>
                   \/ \E ip \in known : ip.key = list[k].key
                   \/ CreateAddressCall(nic, list[k].key) \in Range(puts[k])
  <2>1. puts[k] = PutAddress(nic, list[k], known)
    BY <1>5
  <2>2. CASE ~PopulatesAddress(list[k])
    <3>1. puts[k] = <<Refused>>
        BY <2>1, <2>2 DEF PutAddress
    <3> QED BY <3>1, ShortLists
  <2>3. CASE PopulatesAddress(list[k]) /\ Match(known, list[k].key) = {}
    <3>1. puts[k] = <<CreateAddressCall(nic, list[k].key)>>
        BY <2>1, <2>3 DEF PutAddress, CreateAddressCall
    <3> QED BY <3>1, ShortLists
  <2>4. CASE PopulatesAddress(list[k]) /\ Match(known, list[k].key) # {}
    <3>1. \E ip \in known : ip.key = list[k].key
        BY <2>4 DEF Match
    <3>2. \/ puts[k] = <<>>
          \/ puts[k] = <<UpdateAddressCall(FirstOf(Match(known, list[k].key)).id)>>
        BY <2>1, <2>4 DEF PutAddress, UpdateAddressCall
    <3>3. CASE puts[k] = <<>>
        BY <3>1, <3>3, ShortLists
    <3>4. CASE puts[k] = <<UpdateAddressCall(FirstOf(Match(known, list[k].key)).id)>>
      <4> DEFINE id == FirstOf(Match(known, list[k].key)).id
      <4> HIDE DEF id
      <4>1. /\ IsList(puts[k])
            /\ \A x : x \in Range(puts[k]) <=> x = UpdateAddressCall(id)
        BY <3>4, ShortLists DEF id
      <4> QED BY <3>1, <4>1
    <3> QED BY <3>2, <3>3, <3>4
  <2> QED BY <2>2, <2>3, <2>4
<1>10. /\ IsList(FlattenSeq(puts))
       /\ \A x : x \in Range(FlattenSeq(puts))
              <=> \E k \in 1 .. Len(puts) : x \in Range(puts[k])
    BY <1>1, <1>6, <1>9, FlattenSeqOfLists
<1>11. \A x : x \in Range(FlattenSeq(puts)) <=> \E k \in DOMAIN list : x \in Range(puts[k])
    BY <1>1, <1>6, <1>10
<1>12. \A x : x \in Range(drops) <=> \E ip \in Gone(list, known) : x = DeleteAddressCall(ip.id)
  <2>1. \A ip : ip \in Gone(list, known) <=> \E k \in DOMAIN gone : ip = gone[k]
    BY <1>3, <1>4, ListAt
  <2>2. \A x : x \in Range(drops) <=> \E k \in DOMAIN gone : x = DeleteAddressCall(gone[k].id)
    BY <1>4, <1>5, <1>7, ListAt
  <2> QED BY <2>1, <2>2
<1>13. /\ IsList(calls)
       /\ \A x : x \in Range(calls) <=> x \in Range(FlattenSeq(puts)) \/ x \in Range(drops)
    BY <1>7, <1>8, <1>10, ListConcat
<1>14. \A ip : ip \in Gone(list, known)
            <=> ip \in known /\ \A k \in DOMAIN list : list[k].key # ip.key
    BY DEF Gone
<1>15. ASSUME NEW x \in Range(calls)
       PROVE  \/ x = Refused
              \/ \E k \in DOMAIN list : x = CreateAddressCall(nic, list[k].key)
              \/ \E id : x = UpdateAddressCall(id)
              \/ \E ip \in known : (\A k \in DOMAIN list : list[k].key # ip.key)
                                   /\ x = DeleteAddressCall(ip.id)
  <2>1. CASE x \in Range(FlattenSeq(puts))
    BY <2>1, <1>9, <1>11
  <2>2. CASE x \in Range(drops)
    BY <2>2, <1>12, <1>14
  <2> QED BY <1>13, <2>1, <2>2
<1>16. ASSUME NEW ip \in known, \A k \in DOMAIN list : list[k].key # ip.key
       PROVE  DeleteAddressCall(ip.id) \in Range(calls)
    BY <1>12, <1>13, <1>14, <1>16
<1>17. ASSUME Refused \notin Range(calls), NEW k \in DOMAIN list
       PROVE  \/ \E ip \in known : ip.key = list[k].key
              \/ CreateAddressCall(nic, list[k].key) \in Range(calls)
  <2>1. Refused \notin Range(puts[k])
    BY <1>11, <1>13, <1>17
  <2> QED BY <1>9, <1>11, <1>13, <2>1
<1> QED BY <1>13, <1>15, <1>16, <1>17 DEF calls


-----------------------------------------------------------------------------
(* Type correctness *)

CallOK(call) ==
    /\ call.op = "create" => call.kind \in Kinds /\ (call.kind = "nic" => IsList(call.item.ips))
    /\ call.op = "addresses" => IsList(call.list)

CallsOK(calls) == IsList(calls) /\ \A call \in Range(calls) : CallOK(call)

HandlerOK(r) ==
    /\ r.pc \in {"idle", "sent", "calls", "answered"}
    /\ r.pc # "idle" => r.req \in Requests
    /\ r.pc = "calls" => r.calls # <<>> /\ CallsOK(r.calls)

HandlersOK == DOMAIN rpc = Rpc /\ \A h \in Rpc : HandlerOK(rpc[h])

\* A component or address has its fields, was counted, and is known by its number.
ComponentOK(c) ==
    /\ DOMAIN c = {"kind", "id", "key", "val"}
    /\ c.kind \in Kinds
    /\ c.id \in 1 .. created

AddressOK(ip) ==
    /\ DOMAIN ip = {"id", "nic", "key", "status"}
    /\ ip.id \in 1 .. created
    /\ ip.nic \in 0 .. created
    /\ ip.status \in Statuses

InventoryOK ==
    /\ DOMAIN host = {"fields", "admitted"} /\ host.admitted \in BOOLEAN
    /\ created \in Nat
    /\ \A c \in comps : ComponentOK(c)
    /\ \A c, d \in comps : c.id = d.id => c = d
    /\ \A ip \in ips : AddressOK(ip)
    /\ \A ip, other \in ips : ip.id = other.id => ip = other

CountersOK == hw \in Requests /\ changes \in 0 .. MaxChanges /\ faults \in 0 .. MaxFaults

WorkerOK ==
    /\ notices \subseteq Id
    /\ IsList(queue) /\ Range(queue) \subseteq Id /\ IsInjective(queue)
    /\ \/ nm = NoRequest
       \/ nm \in [pc : {"write"}, id : Id, status : Statuses \ {"unspecified"}]
       \/ nm.pc = "list" /\ nm.ip.id \in Id /\ nm.ip.key # NoKey
    /\ nloop \in {"start", "events"}

TypeInv == InventoryOK /\ CountersOK /\ HandlersOK /\ WorkerOK

LEMMA TypeInvImpliesTypeOK == TypeInv => TypeOK
<1>1. ToSet(queue) = Range(queue)
    BY DEF ToSet, Range
<1>2. ASSUME TypeInv PROVE HostTypeOK
    BY <1>2 DEF TypeInv, InventoryOK, CountersOK, HandlersOK, HandlerOK, ComponentOK, HostTypeOK
<1> QED BY <1>1, <1>2 DEF TypeInv, InventoryOK, WorkerOK, AddressOK, TypeOK, Id

LEMMA InitIsTyped == Init => TypeInv
<1> SUFFICES ASSUME Init PROVE TypeInv
    OBVIOUS
<1>1. InventoryOK
    BY DEF Init, HostInit, InventoryOK
<1>2. CountersOK
    BY HostInventoryAssumption DEF Init, HostInit, CountersOK
<1>3. HandlersOK
    BY DEF Init, HostInit, HandlersOK, HandlerOK, Idle
<1>4. WorkerOK
    BY ShortLists DEF Init, WorkerOK, IsInjective
<1> QED BY <1>1, <1>2, <1>3, <1>4 DEF TypeInv

\* What has numbers up to a bound is finite.
LEMMA NumberedIsFinite ==
    ASSUME NEW S, NEW n \in Nat, \A x \in S : x.id \in 1 .. n,
           \A x, y \in S : x.id = y.id => x = y
    PROVE  IsFiniteSet(S)
<1> DEFINE f == [x \in S |-> x.id]
<1>1. f \in Injection(S, 1 .. n)
    BY DEF Injection, IsInjective
<1>2. IsFiniteSet(1 .. n)
    BY FS_Interval
<1> QED BY <1>1, <1>2, FS_Injection

LEMMA InventoryIsFinite ==
    ASSUME InventoryOK
    PROVE  IsFiniteSet(comps) /\ IsFiniteSet(ips)
    BY NumberedIsFinite DEF InventoryOK, ComponentOK, AddressOK

-----------------------------------------------------------------------------
(* The handlers keep their types *)

\* A handler that goes on with a list of calls, or gives up.
LEMMA ProceedIsTyped ==
    ASSUME HandlersOK, NEW h \in Rpc, rpc[h].pc # "idle", NEW calls, CallsOK(calls),
           Proceed(h, calls)
    PROVE  HandlersOK'
<1>1. rpc[h].req \in Requests
    BY DEF HandlersOK, HandlerOK
<1> DEFINE r == [pc |-> IF calls = <<>> THEN "answered" ELSE "calls",
                 req |-> rpc[h].req, calls |-> calls]
<1>2. rpc' = [rpc EXCEPT ![h] = r]
    BY DEF Proceed
<1>3. HandlerOK(r)
    BY <1>1 DEF HandlerOK
<1> HIDE DEF r
<1> QED BY <1>2, <1>3 DEF HandlersOK, HandlerOK, CallsOK, CallOK

LEMMA FailIsTyped ==
    ASSUME HandlersOK, NEW h \in Rpc, Fail(h)
    PROVE  HandlersOK'
<1>1. HandlerOK(Idle)
    BY DEF HandlerOK, Idle
<1> QED BY <1>1 DEF HandlersOK, HandlerOK, CallsOK, CallOK, Fail

LEMMA ReturnsIsTyped ==
    ASSUME HandlersOK, NEW h \in Rpc, rpc[h].pc # "idle", NEW calls, CallsOK(calls),
           Returns(h, calls)
    PROVE  HandlersOK'
    BY ProceedIsTyped, FailIsTyped DEF Returns

LEMMA RestIsTyped ==
    ASSUME HandlersOK, NEW h \in Rpc, rpc[h].pc = "calls"
    PROVE  CallsOK(Rest(h)) /\ CallOK(Call(h)) /\ rpc[h].pc # "idle"
<1>1. rpc[h].calls # <<>> /\ CallsOK(rpc[h].calls)
    BY DEF HandlersOK, HandlerOK
<1> DEFINE calls == rpc[h].calls
<1> HIDE DEF calls
<1>2. CallsOK(Tail(calls)) /\ CallOK(Head(calls))
    BY <1>1, ListTail DEF CallsOK, calls
<1> QED BY <1>2 DEF Call, Rest, calls

LEMMA OtherCallsAreTyped ==
    /\ CallOK(Refused)
    /\ \A nic, key : CallOK(CreateAddressCall(nic, key))
    /\ \A id : CallOK(UpdateAddressCall(id)) /\ CallOK(DeleteAddressCall(id))
    BY DEF CallOK, Refused, CreateAddressCall, UpdateAddressCall, DeleteAddressCall

\* The plan of a report consists of calls.
LEMMA PlanIsTyped ==
    ASSUME InventoryOK, NEW info, ListsOK(Components(info))
    PROVE  CallsOK(CallsOf(info))
<1> DEFINE parts == Components(info)
<1>1. IsFiniteSet(comps) /\ \A kind : IsFiniteSet(Loaded(kind))
    BY InventoryIsFinite, FS_Subset DEF Loaded
<1>2. ASSUME NEW kind \in Kinds, NEW x \in Range(PlanOf(kind, info))
      PROVE  CallOK(x)
  <2> DEFINE items == parts[kind]
             known == Loaded(kind)
  <2>1. IsList(items)
    BY DEF ListsOK
  <2>2. \/ \E k \in DOMAIN items : x \in Range(Put(kind, items[k], known))
        \/ \E c \in Gone(items, known) : x \in Range(Drop(kind, c))
    BY <1>1, <1>2, <2>1, ReconcileCalls DEF PlanOf
  <2>3. CASE \E k \in DOMAIN items : x \in Range(Put(kind, items[k], known))
    <3>1. PICK k \in DOMAIN items : x \in Range(Put(kind, items[k], known))
        BY <2>3
    <3>2. kind = "nic" => IsList(items[k].ips)
        BY DEF ListsOK
    <3> HIDE DEF items, known
    <3>3. \/ x = Refused
          \/ x = CreateCall(kind, items[k])
          \/ \E id : x = UpdateCall(id, items[k].val)
          \/ kind = "nic" /\ \E id : x = AddressesCall(id, items[k].ips)
        BY <3>1, PutCalls
    <3> QED BY <3>2, <3>3 DEF CallOK, Refused, CreateCall, UpdateCall, AddressesCall
  <2>4. CASE \E c \in Gone(items, known) : x \in Range(Drop(kind, c))
    <3>1. PICK c : x \in Range(Drop(kind, c))
        BY <2>4
    <3>2. x = DeleteCall(c.id) \/ x = AddressesCall(c.id, <<>>)
        BY <3>1, DropCalls
    <3> QED BY <3>2, ShortLists DEF CallOK, DeleteCall, AddressesCall
  <2> QED BY <2>2, <2>3, <2>4
<1>3. ASSUME NEW x \in Range(HostCall(info)) PROVE CallOK(x)
  <2>1. x = Refused \/ \E fields : x = HostFieldsCall(fields)
    BY <1>3, HostCalls
  <2> QED BY <2>1 DEF CallOK, Refused, HostFieldsCall
<1> QED BY <1>1, <1>2, <1>3, ReportCalls DEF CallsOK

\* The lists of a report that is valid.
LEMMA ReportHasLists ==
    ASSUME NEW request \in Requests, ValidSystemInfoRequest(request)
    PROVE  ListsOK(Components(request.info[1]))
    BY HostInventoryAssumption DEF ValidSystemInfoRequest, ListsOK

LEMMA HandleIsTyped ==
    ASSUME TypeInv, NEW h \in Rpc, Handle(h)
    PROVE  HandlersOK'
<1> USE DEF TypeInv
<1>1. CASE ReadHost(h)
  <2>1. rpc[h].pc # "idle" /\ rpc[h].req \in Requests
    BY <1>1 DEF ReadHost, HandlersOK, HandlerOK
  <2>2. CASE ValidSystemInfoRequest(rpc[h].req) /\ host.admitted
    <3>1. CallsOK(CallsOf(rpc[h].req.info[1]))
        BY <2>1, <2>2, ReportHasLists, PlanIsTyped
    <3> QED BY <1>1, <2>1, <2>2, <3>1, ProceedIsTyped DEF ReadHost
  <2>3. CASE ~(ValidSystemInfoRequest(rpc[h].req) /\ host.admitted)
    BY <1>1, <2>3, FailIsTyped DEF ReadHost
  <2> QED BY <2>2, <2>3
<1>2. CASE RefuseItem(h)
    BY <1>2, FailIsTyped DEF RefuseItem
<1>3. CASE WriteHost(h)
    BY <1>3, RestIsTyped, ReturnsIsTyped DEF WriteHost, Calling
<1>4. CASE Create(h)
  <2> DEFINE kind == Call(h).kind
             item == Call(h).item
             more == Addresses(kind, created + 1, item)
  <2>1. rpc[h].pc = "calls" /\ Call(h).op = "create" /\ Returns(h, more \o Rest(h))
    BY <1>4 DEF Create, Calling, Call
  <2>2. CallsOK(Rest(h)) /\ CallOK(Call(h)) /\ rpc[h].pc # "idle"
    BY <2>1, RestIsTyped
  <2>3. CallsOK(more)
    BY <2>1, <2>2, AddressesOfItem DEF CallsOK, CallOK, AddressesCall
  <2> HIDE DEF more
  <2>4. CallsOK(more \o Rest(h))
    BY <2>2, <2>3, ListConcat DEF CallsOK
  <2> QED BY <2>1, <2>2, <2>4, ReturnsIsTyped
<1>5. CASE Update(h)
    BY <1>5, RestIsTyped, ReturnsIsTyped, FailIsTyped DEF Update, Calling
<1>6. CASE Delete(h)
    BY <1>6, RestIsTyped, ReturnsIsTyped, FailIsTyped DEF Delete, Calling
<1>7. CASE ListAddresses(h)
  <2> DEFINE nic == Call(h).nic
             list == Call(h).list
             known == {ip \in ips : ip.nic = nic}
             more == AddressCalls(nic, list, known)
  <2>1. rpc[h].pc = "calls" /\ Call(h).op = "addresses" /\ Proceed(h, more \o Rest(h))
    BY <1>7 DEF ListAddresses, Calling, Call
  <2>2. CallsOK(Rest(h)) /\ CallOK(Call(h)) /\ rpc[h].pc # "idle"
    BY <2>1, RestIsTyped
  <2>3. IsList(list) /\ IsFiniteSet(known)
    BY <2>1, <2>2, InventoryIsFinite, FS_Subset DEF CallOK
  <2> HIDE DEF known, list, nic
  <2>4. CallsOK(more)
    <3>1. IsList(more)
        BY <2>3, AddressPlan
    <3>2. ASSUME NEW x \in Range(more) PROVE CallOK(x)
      <4>1. \/ x = Refused
            \/ \E k \in DOMAIN list : x = CreateAddressCall(nic, list[k].key)
            \/ \E id : x = UpdateAddressCall(id)
            \/ \E ip \in known : x = DeleteAddressCall(ip.id)
        BY <2>3, <3>2, AddressPlan
      <4> QED BY <4>1, OtherCallsAreTyped, Zenon
    <3> QED BY <3>1, <3>2 DEF CallsOK
  <2> HIDE DEF more
  <2>5. CallsOK(more \o Rest(h))
    BY <2>2, <2>4, ListConcat DEF CallsOK
  <2> QED BY <2>1, <2>2, <2>5, ProceedIsTyped
<1>8. CASE CreateAddress(h)
    BY <1>8, RestIsTyped, ReturnsIsTyped, FailIsTyped DEF CreateAddress, Calling
<1>9. CASE UpdateAddress(h)
    BY <1>9, RestIsTyped, ReturnsIsTyped, FailIsTyped DEF UpdateAddress, Calling
<1>10. CASE DeleteAddress(h)
    BY <1>10, RestIsTyped, ReturnsIsTyped, FailIsTyped DEF DeleteAddress, Calling
<1> QED BY <1>1, <1>2, <1>3, <1>4, <1>5, <1>6, <1>7, <1>8, <1>9, <1>10 DEF Handle


-----------------------------------------------------------------------------
(* Inventory keeps its types *)

\* A step writes at most one of the host, the components and the addresses; the
\* addresses are written by both managers and the operators.
SameInventory == UNCHANGED inventory

HostWritten ==
    /\ \/ \E fields : host' = [host EXCEPT !.fields = fields]
       \/ host' = [host EXCEPT !.admitted = ~@]
    /\ UNCHANGED <<comps, ips, created>>

ComponentAdded(kind, item) ==
    /\ comps' = comps \cup {Component(kind, created + 1, item)}
    /\ created' = created + 1
    /\ UNCHANGED <<host, ips>>

ComponentUpdated(id, val) ==
    /\ LET old == {c \in comps : c.id = id} IN
          comps' = (comps \ old) \cup {[c EXCEPT !.val = val] : c \in old}
    /\ UNCHANGED <<host, ips, created>>

ComponentDropped(id) ==
    /\ comps' = {c \in comps : c.id # id}
    /\ UNCHANGED <<host, ips, created>>

AddressAdded(nic, key, status) ==
    /\ ips' = ips \cup {[id |-> created + 1, nic |-> nic, key |-> key, status |-> status]}
    /\ created' = created + 1
    /\ UNCHANGED <<host, comps>>

AddressUpdated(id, status) ==
    /\ LET old == {ip \in ips : ip.id = id} IN
          ips' = (ips \ old) \cup {[ip EXCEPT !.status = status] : ip \in old}
    /\ UNCHANGED <<host, comps, created>>

AddressDropped(id) ==
    /\ ips' = {ip \in ips : ip.id # id}
    /\ UNCHANGED <<host, comps, created>>

InventoryStep ==
    \/ SameInventory
    \/ HostWritten
    \/ \E kind \in Kinds : \E item : ComponentAdded(kind, item)
    \/ \E id, val : ComponentUpdated(id, val)
    \/ \E id : ComponentDropped(id)
    \/ \E nic \in 0 .. created : \E key : \E status \in Statuses : AddressAdded(nic, key, status)
    \/ \E id : \E status \in Statuses : AddressUpdated(id, status)
    \/ \E id : AddressDropped(id)

LEMMA InventoryStepIsTyped ==
    ASSUME InventoryOK, InventoryStep
    PROVE  InventoryOK' /\ created' \in Nat /\ created' >= created
<1> USE DEF InventoryOK
<1>1. CASE SameInventory
    BY <1>1 DEF SameInventory, inventory, ComponentOK, AddressOK
<1>2. CASE HostWritten
  <2>1. DOMAIN host' = {"fields", "admitted"} /\ host'.admitted \in BOOLEAN
    BY <1>2 DEF HostWritten
  <2> QED BY <1>2, <2>1 DEF HostWritten, ComponentOK, AddressOK
<1>3. ASSUME NEW kind \in Kinds, NEW item, ComponentAdded(kind, item)
      PROVE  InventoryOK' /\ created' \in Nat /\ created' >= created
  <2> DEFINE new == Component(kind, created + 1, item)
  <2>2. DOMAIN new = {"kind", "id", "key", "val"} /\ new.kind = kind /\ new.id = created + 1
    BY DEF Component
  <2> HIDE DEF new
  <2>3. comps' = comps \cup {new} /\ created' = created + 1 /\ host' = host /\ ips' = ips
    BY <1>3 DEF ComponentAdded, new
  <2>4. \A c \in comps' : ComponentOK(c)'
    BY <2>2, <2>3 DEF ComponentOK
  <2>5. \A c, d \in comps' : c.id = d.id => c = d
    BY <2>2, <2>3 DEF ComponentOK
  <2>6. \A ip \in ips' : AddressOK(ip)'
    BY <2>3 DEF AddressOK
  <2> QED BY <2>3, <2>4, <2>5, <2>6
<1>4. ASSUME NEW id, NEW val, ComponentUpdated(id, val)
      PROVE  InventoryOK' /\ created' \in Nat /\ created' >= created
  <2>1. LET old == {c \in comps : c.id = id} IN
            comps' = (comps \ old) \cup {[c EXCEPT !.val = val] : c \in old}
    BY <1>4 DEF ComponentUpdated
  <2>2. host' = host /\ ips' = ips /\ created' = created
    BY <1>4 DEF ComponentUpdated
  <2>3. ASSUME NEW c \in comps'
        PROVE  \E d \in comps : /\ DOMAIN c = DOMAIN d /\ c.kind = d.kind /\ c.id = d.id
                                /\ c = IF d.id = id THEN [d EXCEPT !.val = val] ELSE d
    BY <2>1 DEF ComponentOK
  <2>4. \A c \in comps' : ComponentOK(c)'
    BY <2>2, <2>3 DEF ComponentOK
  <2>5. \A c, d \in comps' : c.id = d.id => c = d
    BY <2>3
  <2> QED BY <2>2, <2>4, <2>5 DEF AddressOK
<1>5. ASSUME NEW id, ComponentDropped(id)
      PROVE  InventoryOK' /\ created' \in Nat /\ created' >= created
  <2>1. comps' \subseteq comps /\ host' = host /\ ips' = ips /\ created' = created
    BY <1>5 DEF ComponentDropped
  <2> QED BY <2>1 DEF ComponentOK, AddressOK
<1>6. ASSUME NEW nic \in 0 .. created, NEW key, NEW status \in Statuses,
             AddressAdded(nic, key, status)
      PROVE  InventoryOK' /\ created' \in Nat /\ created' >= created
  <2> DEFINE new == [id |-> created + 1, nic |-> nic, key |-> key, status |-> status]
  <2>2. /\ DOMAIN new = {"id", "nic", "key", "status"} /\ new.id = created + 1
        /\ new.nic = nic /\ new.status = status
    OBVIOUS
  <2> HIDE DEF new
  <2>3. ips' = ips \cup {new} /\ created' = created + 1 /\ host' = host /\ comps' = comps
    BY <1>6 DEF AddressAdded, new
  <2>4. \A ip \in ips' : AddressOK(ip)'
    BY <2>2, <2>3 DEF AddressOK
  <2>5. \A ip, other \in ips' : ip.id = other.id => ip = other
    BY <2>2, <2>3 DEF AddressOK
  <2>6. \A c \in comps' : ComponentOK(c)'
    BY <2>3 DEF ComponentOK
  <2> QED BY <2>3, <2>4, <2>5, <2>6
<1>7. ASSUME NEW id, NEW status \in Statuses, AddressUpdated(id, status)
      PROVE  InventoryOK' /\ created' \in Nat /\ created' >= created
  <2>1. LET old == {ip \in ips : ip.id = id} IN
            ips' = (ips \ old) \cup {[ip EXCEPT !.status = status] : ip \in old}
    BY <1>7 DEF AddressUpdated
  <2>2. host' = host /\ comps' = comps /\ created' = created
    BY <1>7 DEF AddressUpdated
  <2>3. ASSUME NEW ip \in ips'
        PROVE  \E d \in ips : /\ DOMAIN ip = DOMAIN d /\ ip.nic = d.nic /\ ip.id = d.id
                              /\ ip = IF d.id = id THEN [d EXCEPT !.status = status] ELSE d
                              /\ ip.status \in Statuses
    BY <2>1 DEF AddressOK
  <2>4. \A ip \in ips' : AddressOK(ip)'
    BY <2>2, <2>3 DEF AddressOK
  <2>5. \A ip, other \in ips' : ip.id = other.id => ip = other
    BY <2>3
  <2> QED BY <2>2, <2>4, <2>5 DEF ComponentOK
<1>8. ASSUME NEW id, AddressDropped(id)
      PROVE  InventoryOK' /\ created' \in Nat /\ created' >= created
  <2>1. ips' \subseteq ips /\ host' = host /\ comps' = comps /\ created' = created
    BY <1>8 DEF AddressDropped
  <2> QED BY <2>1 DEF ComponentOK, AddressOK
<1> QED BY <1>1, <1>2, <1>3, <1>4, <1>5, <1>6, <1>7, <1>8 DEF InventoryStep

\* What the steps of the system do to Inventory.
LEMMA HandleWritesInventory ==
    ASSUME TypeInv, NEW h \in Rpc, Handle(h)
    PROVE  InventoryStep
<1>1. CASE ReadHost(h) \/ RefuseItem(h) \/ ListAddresses(h)
    BY <1>1 DEF ReadHost, RefuseItem, ListAddresses, SameInventory, InventoryStep
<1>2. CASE WriteHost(h)
    BY <1>2 DEF WriteHost, HostWritten, InventoryStep
<1>3. CASE Create(h)
  <2>1. Call(h).kind \in Kinds
    BY <1>3, RestIsTyped DEF Create, Calling, Call, CallOK, TypeInv
  <2>2. /\ comps' = comps \cup {Component(Call(h).kind, created + 1, Call(h).item)}
        /\ created' = created + 1
        /\ UNCHANGED <<host, ips>>
    BY <1>3 DEF Create
  <2>3. ComponentAdded(Call(h).kind, Call(h).item)
    BY <2>2 DEF ComponentAdded
  <2> QED BY <2>1, <2>3 DEF InventoryStep
<1>4. CASE Update(h)
  <2>1. ComponentUpdated(Call(h).id, Call(h).val)
    BY <1>4 DEF Update, ComponentUpdated
  <2> QED BY <2>1 DEF InventoryStep
<1>5. CASE Delete(h)
    BY <1>5 DEF Delete, SameInventory, inventory, ComponentDropped, InventoryStep
<1>6. CASE CreateAddress(h)
  <2>1. CASE \E c \in comps : c.id = Call(h).nic
    <3>1. Call(h).nic \in 0 .. created
        BY <2>1 DEF TypeInv, InventoryOK, ComponentOK
    <3>2. "configured" \in Statuses
        BY DEF Statuses
    <3>3. ips' = ips \cup {[id |-> created + 1, nic |-> Call(h).nic, key |-> Call(h).key,
                            status |-> "configured"]}
        BY <1>6, <2>1 DEF CreateAddress
    <3>4. created' = created + 1 /\ UNCHANGED <<host, comps>>
        BY <1>6, <2>1 DEF CreateAddress
    <3>5. AddressAdded(Call(h).nic, Call(h).key, "configured")
        BY <3>3, <3>4 DEF AddressAdded
    <3> QED BY <3>1, <3>2, <3>5 DEF InventoryStep
  <2>2. CASE ~\E c \in comps : c.id = Call(h).nic
    BY <1>6, <2>2 DEF CreateAddress, SameInventory, inventory, InventoryStep
  <2> QED BY <2>1, <2>2
<1>7. CASE UpdateAddress(h)
  <2>1. "configured" \in Statuses
    BY DEF Statuses
  <2>2. /\ LET old == {ip \in ips : ip.id = Call(h).id} IN
              ips' = (ips \ old) \cup {[ip EXCEPT !.status = "configured"] : ip \in old}
        /\ UNCHANGED <<host, comps, created>>
    BY <1>7 DEF UpdateAddress
  <2>3. AddressUpdated(Call(h).id, "configured")
    BY <2>2 DEF AddressUpdated
  <2> QED BY <2>1, <2>3 DEF InventoryStep
<1>8. CASE DeleteAddress(h)
    BY <1>8 DEF DeleteAddress, AddressDropped, InventoryStep
<1> QED BY <1>1, <1>2, <1>3, <1>4, <1>5, <1>6, <1>7, <1>8 DEF Handle

LEMMA HostNextWritesInventory ==
    ASSUME TypeInv, HostNext
    PROVE  InventoryStep
<1>1. CASE \E h \in Rpc : Send(h) \/ CallFails(h)
    BY <1>1 DEF Send, CallFails, InventoryStep, SameInventory
<1>2. CASE \E h \in Rpc : Handle(h)
    BY <1>2, HandleWritesInventory
<1>3. CASE ChangeHardware
    BY <1>3 DEF ChangeHardware, InventoryStep, SameInventory
<1>4. CASE ChangeHost
    BY <1>4 DEF ChangeHost, InventoryStep, HostWritten
<1> QED BY <1>1, <1>2, <1>3, <1>4 DEF HostNext

LEMMA NextWritesInventory ==
    ASSUME TypeInv, [Next]_vars
    PROVE  InventoryStep
<1> USE DEF InventoryStep
<1>1. CASE HostStep
    BY <1>1, HostNextWritesInventory DEF HostStep
<1>2. CASE EnterAddress
  <2>1. PICK key : ips' = ips \cup {[id |-> created + 1, nic |-> NoNic, key |-> key,
                                     status |-> "unspecified"]}
    BY <1>2 DEF EnterAddress
  <2>2. NoNic \in 0 .. created /\ "unspecified" \in Statuses
    BY DEF NoNic, Statuses, TypeInv, InventoryOK
  <2>3. created' = created + 1 /\ UNCHANGED <<host, comps>>
    BY <1>2 DEF EnterAddress
  <2>4. AddressAdded(NoNic, key, "unspecified")
    BY <2>1, <2>3 DEF AddressAdded
  <2> QED BY <2>2, <2>4
<1>3. CASE LoseNotice \/ HandleEvent \/ ReconcileAll \/ GetIPAddress \/ ListInSite \/ Restart
    BY <1>3 DEF LoseNotice, HandleEvent, ReconcileAll, GetIPAddress, ListInSite, Restart,
                hostVars, inventory, SameInventory
<1>4. CASE UpdateStatusAndState
  <2>1. nm.status \in Statuses
    BY <1>4 DEF UpdateStatusAndState, TypeInv, WorkerOK, NoRequest
  <2> DEFINE old == {ip \in ips : ip.id = nm.id}
             written == (ips \ old) \cup {[ip EXCEPT !.status = nm.status] : ip \in old}
  <2>2. ips' \in {ips, written} /\ UNCHANGED <<host, comps, created>>
    BY <1>4 DEF UpdateStatusAndState
  <2>3. CASE ips' = written
    <3>1. AddressUpdated(nm.id, nm.status)
        BY <2>2, <2>3 DEF AddressUpdated
    <3> QED BY <2>1, <3>1
  <2>4. CASE ips' = ips
    BY <2>2, <2>4 DEF SameInventory, inventory
  <2> QED BY <2>2, <2>3, <2>4
<1>5. CASE UNCHANGED vars
    BY <1>5 DEF vars, hostVars, inventory, SameInventory
<1> QED BY <1>1, <1>2, <1>3, <1>4, <1>5 DEF Next, Work


-----------------------------------------------------------------------------
(* The rest keeps its types *)

LEMMA HandlersStepIsTyped ==
    ASSUME TypeInv, [Next]_vars
    PROVE  HandlersOK'
<1>1. ASSUME NEW h \in Rpc, Send(h) PROVE HandlersOK'
  <2> DEFINE r == [pc |-> "sent", req |-> hw]
  <2>1. HandlerOK(r)
    BY DEF TypeInv, CountersOK, HandlerOK
  <2>2. rpc' = [rpc EXCEPT ![h] = r]
    BY <1>1 DEF Send
  <2> HIDE DEF r
  <2> QED BY <2>1, <2>2 DEF TypeInv, HandlersOK, HandlerOK, CallsOK, CallOK
<1>2. ASSUME NEW h \in Rpc, CallFails(h) PROVE HandlersOK'
    BY <1>2, FailIsTyped DEF CallFails, TypeInv
<1>3. ASSUME UNCHANGED rpc PROVE HandlersOK'
    BY <1>3 DEF TypeInv, HandlersOK, HandlerOK, CallsOK, CallOK
<1>4. CASE HostStep
    BY <1>1, <1>2, <1>3, <1>4, HandleIsTyped DEF HostStep, HostNext, ChangeHardware, ChangeHost
<1>5. CASE ~HostStep
    BY <1>3, <1>5 DEF Next, EnterAddress, LoseNotice, HandleEvent, ReconcileAll, Work, GetIPAddress,
                      ListInSite, UpdateStatusAndState, Restart, vars, hostVars
<1> QED BY <1>4, <1>5

LEMMA FaultIsCounted ==
    ASSUME faults \in 0 .. MaxFaults, faults' = faults \/ Fault
    PROVE  faults' \in 0 .. MaxFaults
    BY HostInventoryAssumption DEF Fault

LEMMA CountersStepIsTyped ==
    ASSUME TypeInv, [Next]_vars
    PROVE  CountersOK'
<1> USE DEF TypeInv, CountersOK
<1>1. faults' = faults \/ Fault
  <2>1. CASE HostStep
    BY <2>1 DEF HostStep, HostNext, Send, CallFails, ChangeHardware, ChangeHost, Handle, ReadHost,
            RefuseItem, WriteHost, Create, Update, Delete, ListAddresses, CreateAddress,
            UpdateAddress, DeleteAddress, Returns
  <2>2. CASE ~HostStep
    BY <2>2 DEF Next, EnterAddress, LoseNotice, HandleEvent, ReconcileAll, Work, GetIPAddress,
            ListInSite, UpdateStatusAndState, Restart, vars, hostVars
  <2> QED BY <2>1, <2>2
<1>2. hw' = hw \/ hw' \in Requests
  <2>1. CASE HostStep
    BY <2>1 DEF HostStep, HostNext, Send, CallFails, ChangeHardware, ChangeHost, Handle, ReadHost,
            RefuseItem, WriteHost, Create, Update, Delete, ListAddresses, CreateAddress,
            UpdateAddress, DeleteAddress
  <2>2. CASE ~HostStep
    BY <2>2 DEF Next, EnterAddress, LoseNotice, HandleEvent, ReconcileAll, Work, GetIPAddress,
            ListInSite, UpdateStatusAndState, Restart, vars, hostVars
  <2> QED BY <2>1, <2>2
<1>3. changes' = changes \/ Change
  <2>1. CASE HostStep
    BY <2>1 DEF HostStep, HostNext, Send, CallFails, ChangeHardware, ChangeHost, Handle, ReadHost,
            RefuseItem, WriteHost, Create, Update, Delete, ListAddresses, CreateAddress,
            UpdateAddress, DeleteAddress
  <2>2. CASE ~HostStep
    BY <2>2 DEF Next, EnterAddress, LoseNotice, HandleEvent, ReconcileAll, Work, GetIPAddress,
            ListInSite, UpdateStatusAndState, Restart, vars, hostVars
  <2> QED BY <2>1, <2>2
<1>4. faults' \in 0 .. MaxFaults
    BY <1>1, FaultIsCounted
<1>5. changes' \in 0 .. MaxChanges
    BY <1>3, HostInventoryAssumption DEF Change
<1> QED BY <1>2, <1>4, <1>5

\* Requests that are added are different from each other and from those there are.
LEMMA RequestIsTyped ==
    ASSUME NEW S, IsFiniteSet(S), NEW list, IsList(list), Range(list) \subseteq S,
           IsInjective(list), NEW ids \in SUBSET S
    PROVE  LET q == Request(list, ids) IN
              IsList(q) /\ Range(q) \subseteq S /\ IsInjective(q)
<1> DEFINE new == SetToSeq(ids \ ToSet(list))
<1>1. ToSet(list) = Range(list)
    BY DEF ToSet, Range
<1>2. IsFiniteSet(ids \ ToSet(list))
    BY FS_Subset
<1>3. IsList(new) /\ IsInjective(new) /\ Range(new) = ids \ Range(list)
    BY <1>1, <1>2, SetToSeqOfFinite
<1>4. Request(list, ids) = list \o new
    BY DEF Request
<1> HIDE DEF new
<1> DEFINE q == list \o new
<1>5. IsList(q) /\ \A x : x \in Range(q) <=> x \in Range(list) \/ x \in Range(new)
    BY <1>3, ListConcat
<1>6. ASSUME NEW x PROVE AtMostOnce(q, {x})
  <2>1. AtMostOnce(list, {x}) /\ AtMostOnce(new, {x})
    BY <1>3 DEF AtMostOnce, IsInjective
  <2> QED BY <1>3, <2>1, AtMostOnceConcat
<1> HIDE DEF q
<1>7. IsInjective(q)
    BY <1>6 DEF AtMostOnce, IsInjective
<1>8. Range(q) \subseteq S
    BY <1>3, <1>5
<1> QED BY <1>4, <1>5, <1>7, <1>8 DEF q

QueueOK(q) == IsList(q) /\ Range(q) \subseteq Id /\ IsInjective(q)

NmOK(r) ==
    \/ r = NoRequest
    \/ r \in [pc : {"write"}, id : Id, status : Statuses \ {"unspecified"}]
    \/ r.pc = "list" /\ r.ip.id \in Id /\ r.ip.key # NoKey

LEMMA TailIsQueue ==
    ASSUME NEW q, QueueOK(q), q # <<>>
    PROVE  QueueOK(Tail(q)) /\ Head(q) \in Id
<1>1. /\ IsList(Tail(q)) /\ Range(Tail(q)) \subseteq Id /\ Head(q) \in Id
      /\ Len(Tail(q)) = Len(q) - 1
      /\ \A k \in 1 .. Len(q) - 1 : Tail(q)[k] = q[k + 1] /\ k + 1 \in DOMAIN q
    BY ListTail DEF QueueOK
<1>2. DOMAIN Tail(q) = 1 .. Len(q) - 1 /\ Len(q) \in Nat
    BY <1>1, ListAt DEF QueueOK
<1>3. IsInjective(Tail(q))
  <2> SUFFICES ASSUME NEW j \in 1 .. Len(q) - 1, NEW k \in 1 .. Len(q) - 1,
                      Tail(q)[j] = Tail(q)[k]
               PROVE  j = k
    BY <1>2 DEF IsInjective
  <2>1. q[j + 1] = q[k + 1] /\ j + 1 \in DOMAIN q /\ k + 1 \in DOMAIN q
    BY <1>1
  <2>2. j + 1 = k + 1
    BY <2>1 DEF QueueOK, IsInjective
  <2> QED BY <1>2, <2>2
<1> QED BY <1>1, <1>3 DEF QueueOK

LEMMA IdIsFinite ==
    ASSUME InventoryOK
    PROVE  IsFiniteSet(Id) /\ \A ip \in ips : ip.id \in Id
    BY FS_Interval DEF InventoryOK, AddressOK, Id

LEMMA RequestIsQueue ==
    ASSUME InventoryOK, NEW q, QueueOK(q), NEW ids \in SUBSET Id
    PROVE  QueueOK(Request(q, ids))
    BY IdIsFinite, RequestIsTyped DEF QueueOK

LEMMA WorkerStepIsTyped ==
    ASSUME TypeInv, [Next]_vars
    PROVE  WorkerOK'
<1>1. /\ InventoryOK' /\ created \in Nat /\ created' \in Nat /\ created' >= created
    BY NextWritesInventory, InventoryStepIsTyped DEF TypeInv, InventoryOK
<1>2. Id \subseteq Id' /\ {ip.id : ip \in ips'} \subseteq Id'
    BY <1>1 DEF Id, InventoryOK, AddressOK
<1>3. /\ notices \subseteq Id /\ QueueOK(queue) /\ NmOK(nm) /\ nloop \in {"start", "events"}
    BY DEF TypeInv, WorkerOK, QueueOK, NmOK
<1>4. SUFFICES /\ notices' \subseteq Id' /\ QueueOK(queue') /\ NmOK(nm')
               /\ nloop' \in {"start", "events"}
  <2>1. ASSUME QueueOK(queue') PROVE /\ IsList(queue') /\ Range(queue') \subseteq Id'
                                     /\ IsInjective(queue')
    BY <1>2, <2>1 DEF QueueOK
  <2>2. ASSUME NmOK(nm')
        PROVE  \/ nm' = NoRequest
               \/ nm' \in [pc : {"write"}, id : Id', status : Statuses \ {"unspecified"}]
               \/ nm'.pc = "list" /\ nm'.ip.id \in Id' /\ nm'.ip.key # NoKey
    BY <1>2, <2>2 DEF NmOK
  <2> QED BY <2>1, <2>2 DEF WorkerOK
<1>5. ASSUME Announce PROVE notices' \subseteq Id'
    BY <1>2, <1>3, <1>5 DEF Announce
<1>6. InventoryOK /\ \A ip \in ips : ip.id \in Id
    BY IdIsFinite DEF TypeInv
<1>7. CASE HostStep \/ EnterAddress
    BY <1>3, <1>5, <1>7 DEF HostStep, EnterAddress
<1>8. CASE LoseNotice
    BY <1>2, <1>3, <1>8 DEF LoseNotice
<1>9. CASE HandleEvent
    BY <1>2, <1>3, <1>6, <1>9, RequestIsQueue DEF HandleEvent
<1>10. CASE ReconcileAll
  <2>1. {ip.id : ip \in ips} \in SUBSET Id
    BY <1>6
  <2>2. QueueOK(Request(queue, {ip.id : ip \in ips}))
    BY <1>3, <1>6, <2>1, RequestIsQueue
  <2> QED BY <1>2, <1>3, <1>10, <2>2 DEF ReconcileAll
<1>11. ASSUME NEW id \in Id, NEW rest, QueueOK(rest), HandleInventoryError(id, rest)
       PROVE  QueueOK(queue') /\ NmOK(nm')
  <2>1. QueueOK(Request(rest, {id}))
    BY <1>6, <1>11, RequestIsQueue
  <2> QED BY <1>11, <2>1 DEF HandleInventoryError, NmOK
<1>12. CASE GetIPAddress
  <2>1. queue # <<>> /\ notices' = notices /\ nloop' = nloop
    BY <1>12 DEF GetIPAddress
  <2>2. QueueOK(Tail(queue)) /\ Head(queue) \in Id
    BY <1>3, <2>1, TailIsQueue
  <2>3. CASE Fault /\ HandleInventoryError(Head(queue), Tail(queue))
    BY <1>2, <1>3, <1>11, <2>1, <2>2, <2>3
  <2>4. CASE queue' = Tail(queue) /\ Ack
    BY <1>2, <1>3, <2>1, <2>2, <2>4 DEF Ack, NmOK
  <2>5. ASSUME queue' = Tail(queue), NEW ip \in ips,
               nm' = IF WithoutText(ip)
                     THEN [pc |-> "write", id |-> Head(queue), status |-> "unassigned"]
                     ELSE [pc |-> "list", ip |-> ip]
        PROVE  NmOK(nm')
    <3>1. ip.id \in Id /\ "unassigned" \in Statuses \ {"unspecified"}
        BY <1>6 DEF Statuses
    <3> QED BY <2>2, <2>5, <3>1 DEF NmOK, WithoutText
  <2> QED BY <1>2, <1>3, <1>12, <2>1, <2>2, <2>3, <2>4, <2>5 DEF GetIPAddress
<1>13. CASE ListInSite
  <2>1. nm.ip.id \in Id /\ notices' = notices /\ nloop' = nloop
    BY <1>3, <1>13 DEF ListInSite, NmOK, NoRequest
  <2>2. CASE Fault /\ HandleInventoryError(nm.ip.id, queue)
    BY <1>2, <1>3, <1>11, <2>1, <2>2
  <2>3. CASE queue' = queue /\ Ack
    BY <1>2, <1>3, <2>1, <2>3 DEF Ack, NmOK
  <2>4. CASE queue' = queue /\ nm' = [pc |-> "write", id |-> nm.ip.id, status |-> Verdict(nm.ip)]
    <3>1. Verdict(nm.ip) \in Statuses \ {"unspecified"}
        BY DEF Verdict, Statuses
    <3> QED BY <1>2, <1>3, <2>1, <2>4, <3>1 DEF NmOK
  <2> QED BY <1>13, <2>2, <2>3, <2>4 DEF ListInSite
<1>14. CASE UpdateStatusAndState
  <2>1. nm.id \in Id /\ nloop' = nloop
    BY <1>3, <1>14 DEF UpdateStatusAndState, NmOK, NoRequest
  <2>2. notices' \subseteq Id'
    BY <1>5, <1>14 DEF UpdateStatusAndState
  <2>3. CASE Fault /\ HandleInventoryError(nm.id, queue)
    BY <1>3, <1>11, <2>1, <2>2, <2>3
  <2>4. CASE queue' = queue /\ Ack
    BY <1>3, <2>1, <2>2, <2>4 DEF Ack, NmOK
  <2> QED BY <1>14, <2>3, <2>4 DEF UpdateStatusAndState
<1>15. CASE Restart
    BY <1>15, ShortLists DEF Restart, QueueOK, NmOK, IsInjective
<1>16. CASE UNCHANGED vars
    BY <1>2, <1>3, <1>16 DEF vars, networkVars
<1> QED BY <1>7, <1>8, <1>9, <1>10, <1>12, <1>13, <1>14, <1>15, <1>16 DEF Next, Work

LEMMA TypeInvIsInductive == TypeInv /\ [Next]_vars => TypeInv'
<1> SUFFICES ASSUME TypeInv, [Next]_vars PROVE TypeInv'
    OBVIOUS
<1>1. InventoryOK'
    BY NextWritesInventory, InventoryStepIsTyped DEF TypeInv
<1> QED BY <1>1, HandlersStepIsTyped, CountersStepIsTyped, WorkerStepIsTyped DEF TypeInv

LEMMA TypeInvHolds == Spec => []TypeInv
    BY InitIsTyped, TypeInvIsInductive, PTL DEF Spec

\* Every component and address is of a known kind and status and has a number of
\* its own, a handler goes through a list of calls, and the controller knows
\* addresses only, each at most once, whatever is reported, lost and fails.
THEOREM NetworkTypeCorrect == Spec => []TypeOK
    BY TypeInvHolds, TypeInvImpliesTypeOK, PTL


-----------------------------------------------------------------------------
(* The plan of a report that is being handled *)

Reported(parts, c) == c.key \in KeysOf(parts[c.kind])

\* The report asks for the address on this component.
Needed(parts, c, key) ==
    /\ c.kind = "nic"
    /\ \E k \in DOMAIN parts.nic : parts.nic[k].key = c.key /\ key \in KeysOf(parts.nic[k].ips)

\* A call to come does no harm: whatever it creates is reported and not there yet,
\* and whatever it changes or deletes is there already, and differs.
CreateIsDue(parts, call) ==
    /\ \E k \in DOMAIN parts[call.kind] : call.item = parts[call.kind][k]
    /\ \A c \in Loaded(call.kind) : c.key # call.item.key

UpdateIsDue(parts, call) ==
    /\ call.id \in Id
    /\ \A c \in comps : c.id = call.id =>
          \E k \in DOMAIN parts[c.kind] : parts[c.kind][k].key = c.key
                                          /\ parts[c.kind][k].val = call.val

DeleteIsDue(parts, call) ==
    /\ call.id \in Id
    /\ \A c \in comps : c.id = call.id => ~Reported(parts, c)

AddressesAreDue(parts, call) ==
    /\ call.nic \in Id
    /\ \A c \in comps : c.id = call.nic =>
          /\ c.kind = "nic"
          /\ \/ ~Reported(parts, c) /\ call.list = <<>>
             \/ \E k \in DOMAIN parts.nic : parts.nic[k].key = c.key
                                            /\ call.list = parts.nic[k].ips

CreateAddressIsDue(parts, call) ==
    /\ call.nic \in Id
    /\ \A c \in comps : c.id = call.nic => Needed(parts, c, call.key)

DeleteAddressIsDue(parts, call) ==
    /\ call.id \in Id
    /\ \A ip \in ips : ip.id = call.id =>
          \A c \in comps : c.id = ip.nic => ~Needed(parts, c, ip.key)

Due(info, call) ==
    LET parts == Components(info) IN
    /\ call.op = "host" => call.fields = HostFields(info)
    /\ call.op = "create" => CreateIsDue(parts, call)
    /\ call.op = "update" => UpdateIsDue(parts, call)
    /\ call.op = "delete" => DeleteIsDue(parts, call)
    /\ call.op = "addresses" => AddressesAreDue(parts, call)
    /\ call.op = "createAddress" => CreateAddressIsDue(parts, call)
    /\ call.op = "deleteAddress" => DeleteAddressIsDue(parts, call)

\* What is not as reported yet will be after the calls to come.
HostDone(info, todo) ==
    host.fields = HostFields(info) \/ HostFieldsCall(HostFields(info)) \in todo

AddressesDone(nic, list, todo) ==
    \/ AddressesCall(nic, list) \in todo
    \/ /\ \A ip \in ips : ip.nic = nic =>
             ip.key \in KeysOf(list) \/ DeleteAddressCall(ip.id) \in todo
       /\ \A k \in DOMAIN list :
             \/ \E ip \in ips : ip.nic = nic /\ ip.key = list[k].key
             \/ CreateAddressCall(nic, list[k].key) \in todo

\* By a component that is there.
ItemDoneBy(c, kind, item, todo) ==
    /\ c.kind = kind /\ c.key = item.key
    /\ c.val = item.val \/ UpdateCall(c.id, item.val) \in todo
    /\ kind = "nic" => AddressesDone(c.id, item.ips, todo)

ItemDone(kind, item, todo) ==
    CreateCall(kind, item) \in todo \/ \E c \in comps : ItemDoneBy(c, kind, item, todo)

ItemsDone(info, todo) ==
    \A kind \in Kinds : \A k \in DOMAIN Components(info)[kind] :
       ItemDone(kind, Components(info)[kind][k], todo)

RestDropped(info, todo) ==
    \A c \in comps : Reported(Components(info), c) \/ DeleteCall(c.id) \in todo

AllDone(info, todo) == HostDone(info, todo) /\ ItemsDone(info, todo) /\ RestDropped(info, todo)

\* The creating calls of one component.
Creating(kind, key, calls) ==
    {call \in Range(calls) : call.op = "create" /\ call.kind = kind /\ call.item.key = key}

PlanOK(info, calls) ==
    /\ \A kind \in Kinds : \A key : AtMostOnce(calls, Creating(kind, key, calls))
    /\ \A call \in Range(calls) : Due(info, call)
    /\ Refused \notin Range(calls) => AllDone(info, Range(calls))

PlansOK ==
    \A h \in Rpc : rpc[h].pc \in {"calls", "answered"} =>
       /\ ValidSystemInfoRequest(rpc[h].req)
       /\ rpc[h].pc = "answered" => rpc[h].calls = <<>>
       /\ PlanOK(rpc[h].req.info[1], rpc[h].calls)

ReportInv == OneComponentPerKey /\ PlansOK

LEMMA CallFields ==
    /\ Refused.op = "refused"
    /\ \A fields : HostFieldsCall(fields).op = "host" /\ HostFieldsCall(fields).fields = fields
    /\ \A kind, item : /\ CreateCall(kind, item).op = "create"
                       /\ CreateCall(kind, item).kind = kind /\ CreateCall(kind, item).item = item
    /\ \A id, val : /\ UpdateCall(id, val).op = "update"
                    /\ UpdateCall(id, val).id = id /\ UpdateCall(id, val).val = val
    /\ \A id : DeleteCall(id).op = "delete" /\ DeleteCall(id).id = id
    /\ \A nic, list : /\ AddressesCall(nic, list).op = "addresses"
                      /\ AddressesCall(nic, list).nic = nic /\ AddressesCall(nic, list).list = list
    /\ \A nic, key : /\ CreateAddressCall(nic, key).op = "createAddress"
                     /\ CreateAddressCall(nic, key).nic = nic /\ CreateAddressCall(nic, key).key = key
    /\ \A id : UpdateAddressCall(id).op = "updateAddress" /\ UpdateAddressCall(id).id = id
    /\ \A id : DeleteAddressCall(id).op = "deleteAddress" /\ DeleteAddressCall(id).id = id
    BY DEF Refused, HostFieldsCall, CreateCall, UpdateCall, DeleteCall, AddressesCall,
           CreateAddressCall, UpdateAddressCall, DeleteAddressCall

-----------------------------------------------------------------------------
(* What the steps of Inventory leave as it was *)

\* Each component and address was there before the step with the same number, key
\* and NIC, or is the one that was added.
LEMMA InventorySteps ==
    ASSUME InventoryOK, InventoryStep
    PROVE  /\ created \in Nat /\ Id \subseteq Id' /\ created + 1 \notin Id
           /\ \A c \in comps' :
                 \/ \E d \in comps : c.kind = d.kind /\ c.id = d.id /\ c.key = d.key
                 \/ c.id = created + 1
           /\ \A ip \in ips' :
                 \/ \E other \in ips : ip.nic = other.nic /\ ip.id = other.id /\ ip.key = other.key
                 \/ ip.id = created + 1
           /\ \A c \in comps : c.id \in Id
           /\ \A ip \in ips : ip.id \in Id /\ ip.nic # created + 1
<1> USE DEF InventoryOK
<1>1. created \in Nat /\ created' \in Nat /\ created' >= created
    BY InventoryStepIsTyped
<1>2. Id \subseteq Id' /\ created + 1 \notin Id
    BY <1>1 DEF Id
<1>3. /\ \A c \in comps : c.id \in Id
      /\ \A ip \in ips : ip.id \in Id /\ ip.nic # created + 1
    BY <1>1 DEF ComponentOK, AddressOK, Id
<1>4. ASSUME NEW c \in comps'
      PROVE  \/ \E d \in comps : c.kind = d.kind /\ c.id = d.id /\ c.key = d.key
             \/ c.id = created + 1
  <2>1. CASE comps' \subseteq comps
    BY <2>1
  <2>2. ASSUME NEW kind, NEW item, ComponentAdded(kind, item)
        PROVE  c \in comps \/ c.id = created + 1
    BY <2>2 DEF ComponentAdded, Component
  <2>3. ASSUME NEW id, NEW val, ComponentUpdated(id, val)
        PROVE  \E d \in comps : c.kind = d.kind /\ c.id = d.id /\ c.key = d.key
    BY <2>3 DEF ComponentUpdated, ComponentOK
  <2>4. ASSUME NEW id, ComponentDropped(id) PROVE comps' \subseteq comps
    BY <2>4 DEF ComponentDropped
  <2> QED BY <2>1, <2>2, <2>3, <2>4 DEF InventoryStep, SameInventory, inventory, HostWritten,
                AddressAdded, AddressUpdated, AddressDropped
<1>5. ASSUME NEW ip \in ips'
      PROVE  \/ \E other \in ips : ip.nic = other.nic /\ ip.id = other.id /\ ip.key = other.key
             \/ ip.id = created + 1
  <2>1. CASE ips' \subseteq ips
    BY <2>1
  <2>2. ASSUME NEW nic, NEW key, NEW status, AddressAdded(nic, key, status)
        PROVE  ip \in ips \/ ip.id = created + 1
    BY <2>2 DEF AddressAdded
  <2>3. ASSUME NEW id, NEW status, AddressUpdated(id, status)
        PROVE  \E other \in ips : ip.nic = other.nic /\ ip.id = other.id /\ ip.key = other.key
    BY <2>3 DEF AddressUpdated, AddressOK
  <2>4. ASSUME NEW id, AddressDropped(id) PROVE ips' \subseteq ips
    BY <2>4 DEF AddressDropped
  <2> QED BY <2>1, <2>2, <2>3, <2>4 DEF InventoryStep, SameInventory, inventory, HostWritten,
                ComponentAdded, ComponentUpdated, ComponentDropped
<1> QED BY <1>1, <1>2, <1>3, <1>4, <1>5

\* Calls that are due stay so, unless another one creates the component.
LEMMA DueStaysDue ==
    ASSUME InventoryOK, InventoryStep, NEW info, NEW call, Due(info, call),
           call.op = "create" =>
              \A c \in comps' : c.id = created + 1 /\ c.kind = call.kind => c.key # call.item.key
    PROVE  Due(info, call)'
<1> DEFINE parts == Components(info)
<1> USE InventorySteps DEF Due
<1>1. ASSUME call.op = "create" PROVE CreateIsDue(parts, call)'
    BY <1>1 DEF CreateIsDue, Loaded
<1>2. ASSUME call.op = "update" PROVE UpdateIsDue(parts, call)'
    BY <1>2 DEF UpdateIsDue
<1>3. ASSUME call.op = "delete" PROVE DeleteIsDue(parts, call)'
    BY <1>3 DEF DeleteIsDue, Reported
<1>4. ASSUME call.op = "addresses" PROVE AddressesAreDue(parts, call)'
    BY <1>4 DEF AddressesAreDue, Reported
<1>5. ASSUME call.op = "createAddress" PROVE CreateAddressIsDue(parts, call)'
  <2>1. call.nic \in Id'
    BY <1>5 DEF CreateAddressIsDue
  <2>2. ASSUME NEW c \in comps', c.id = call.nic PROVE Needed(parts, c, call.key)
    <3>1. call.nic \in Id
        BY <1>5 DEF CreateAddressIsDue
    <3>2. PICK d \in comps : c.kind = d.kind /\ c.id = d.id /\ c.key = d.key
        BY <2>2, <3>1
    <3>3. Needed(parts, d, call.key)
        BY <1>5, <2>2, <3>2 DEF CreateAddressIsDue
    <3> QED BY <3>2, <3>3 DEF Needed
  <2> QED BY <2>1, <2>2 DEF CreateAddressIsDue
<1>6. ASSUME call.op = "deleteAddress" PROVE DeleteAddressIsDue(parts, call)'
  <2> SUFFICES ASSUME NEW ip \in ips', ip.id = call.id, NEW c \in comps', c.id = ip.nic
               PROVE  ~Needed(parts, c, ip.key)
    BY <1>6 DEF DeleteAddressIsDue
  <2>1. call.id \in Id
    BY <1>6 DEF DeleteAddressIsDue
  <2>2. PICK other \in ips : ip.nic = other.nic /\ ip.id = other.id /\ ip.key = other.key
    BY <2>1
  <2>3. c.id # created + 1
    BY <2>2
  <2>4. PICK d \in comps : c.kind = d.kind /\ c.id = d.id /\ c.key = d.key
    BY <2>3
  <2>5. ~Needed(parts, d, other.key)
    BY <1>6, <2>2, <2>4 DEF DeleteAddressIsDue
  <2> QED BY <2>2, <2>4, <2>5 DEF Needed
<1> QED BY <1>1, <1>2, <1>3, <1>4, <1>5, <1>6 DEF Due


-----------------------------------------------------------------------------
(* What a call leaves to the calls to come *)

\* All calls but the one that is made.
Keeps(todo, call, more) == \A x \in todo : x = call \/ x \in more

LEMMA KeptCalls ==
    ASSUME NEW todo, NEW call, NEW more, Keeps(todo, call, more)
    PROVE  /\ \A fields : HostFieldsCall(fields) \in todo /\ call.op # "host"
                 => HostFieldsCall(fields) \in more
           /\ \A kind, item : CreateCall(kind, item) \in todo
                               /\ (call.op # "create" \/ call.kind # kind \/ call.item # item)
                 => CreateCall(kind, item) \in more
           /\ \A id, val : UpdateCall(id, val) \in todo /\ (call.op # "update" \/ call.id # id)
                 => UpdateCall(id, val) \in more
           /\ \A id : DeleteCall(id) \in todo /\ (call.op # "delete" \/ call.id # id)
                 => DeleteCall(id) \in more
           /\ \A nic, list : AddressesCall(nic, list) \in todo
                              /\ (call.op # "addresses" \/ call.nic # nic \/ call.list # list)
                 => AddressesCall(nic, list) \in more
           /\ \A nic, key : CreateAddressCall(nic, key) \in todo
                             /\ (call.op # "createAddress" \/ call.nic # nic \/ call.key # key)
                 => CreateAddressCall(nic, key) \in more
           /\ \A id : DeleteAddressCall(id) \in todo
                       /\ (call.op # "deleteAddress" \/ call.id # id)
                 => DeleteAddressCall(id) \in more
<1> USE DEF Keeps
<1>1. ASSUME NEW fields, HostFieldsCall(fields) \in todo, HostFieldsCall(fields) \notin more
      PROVE  call.op = "host"
    BY <1>1 DEF HostFieldsCall
<1>2. ASSUME NEW kind, NEW item, CreateCall(kind, item) \in todo, CreateCall(kind, item) \notin more
      PROVE  call.op = "create" /\ call.kind = kind /\ call.item = item
    BY <1>2 DEF CreateCall
<1>3. ASSUME NEW id, NEW val, UpdateCall(id, val) \in todo, UpdateCall(id, val) \notin more
      PROVE  call.op = "update" /\ call.id = id
    BY <1>3 DEF UpdateCall
<1>4. ASSUME NEW id, DeleteCall(id) \in todo, DeleteCall(id) \notin more
      PROVE  call.op = "delete" /\ call.id = id
    BY <1>4 DEF DeleteCall
<1>5. ASSUME NEW nic, NEW list, AddressesCall(nic, list) \in todo,
             AddressesCall(nic, list) \notin more
      PROVE  call.op = "addresses" /\ call.nic = nic /\ call.list = list
    BY <1>5 DEF AddressesCall
<1>6. ASSUME NEW nic, NEW key, CreateAddressCall(nic, key) \in todo,
             CreateAddressCall(nic, key) \notin more
      PROVE  call.op = "createAddress" /\ call.nic = nic /\ call.key = key
    BY <1>6 DEF CreateAddressCall
<1>7. ASSUME NEW id, DeleteAddressCall(id) \in todo, DeleteAddressCall(id) \notin more
      PROVE  call.op = "deleteAddress" /\ call.id = id
    BY <1>7 DEF DeleteAddressCall
<1> QED BY <1>1, <1>2, <1>3, <1>4, <1>5, <1>6, <1>7

\* The addresses of a NIC are the same but for their status.
SameAddresses(nic) ==
    /\ \A ip \in ips' : ip.nic = nic =>
          \E old \in ips : old.nic = nic /\ old.id = ip.id /\ old.key = ip.key
    /\ \A old \in ips : old.nic = nic =>
          \E ip \in ips' : ip.nic = nic /\ old.id = ip.id /\ old.key = ip.key

AddressOps == {"addresses", "createAddress", "deleteAddress"}

LEMMA AddressesStayDone ==
    ASSUME NEW nic, NEW list, NEW todo, NEW call, NEW more, AddressesDone(nic, list, todo),
           Keeps(todo, call, more), call.op \notin AddressOps, SameAddresses(nic)
    PROVE  AddressesDone(nic, list, more)'
<1>1. /\ AddressesCall(nic, list) \in todo => AddressesCall(nic, list) \in more
      /\ \A id : DeleteAddressCall(id) \in todo => DeleteAddressCall(id) \in more
      /\ \A key : CreateAddressCall(nic, key) \in todo => CreateAddressCall(nic, key) \in more
    BY KeptCalls DEF AddressOps
<1>2. CASE AddressesCall(nic, list) \in todo
    BY <1>1, <1>2 DEF AddressesDone
<1>3. CASE AddressesCall(nic, list) \notin todo
  <2>1. ASSUME NEW ip \in ips', ip.nic = nic
        PROVE  ip.key \in KeysOf(list) \/ DeleteAddressCall(ip.id) \in more
    BY <1>1, <1>3, <2>1 DEF AddressesDone, SameAddresses
  <2>2. ASSUME NEW k \in DOMAIN list
        PROVE  \/ \E ip \in ips' : ip.nic = nic /\ ip.key = list[k].key
               \/ CreateAddressCall(nic, list[k].key) \in more
    BY <1>1, <1>3, <2>2 DEF AddressesDone, SameAddresses
  <2> QED BY <2>1, <2>2 DEF AddressesDone
<1> QED BY <1>2, <1>3

\* No address is there, and all are on another NIC, or as before.
LEMMA SameAddressesCases ==
    ASSUME InventoryOK, NEW nic
    PROVE  /\ ips' = ips => SameAddresses(nic)
           /\ \A id, status : AddressUpdated(id, status) => SameAddresses(nic)
           /\ \A other, key, status : AddressAdded(other, key, status) /\ other # nic
                 => SameAddresses(nic)
<1>1. ips' = ips => SameAddresses(nic)
    BY DEF SameAddresses
<1>2. ASSUME NEW id, NEW status, AddressUpdated(id, status) PROVE SameAddresses(nic)
  <2>1. ASSUME NEW ip \in ips', ip.nic = nic
        PROVE  \E old \in ips : old.nic = nic /\ old.id = ip.id /\ old.key = ip.key
    BY <1>2, <2>1 DEF AddressUpdated, InventoryOK, AddressOK
  <2>2. ASSUME NEW old \in ips, old.nic = nic
        PROVE  \E ip \in ips' : ip.nic = nic /\ old.id = ip.id /\ old.key = ip.key
    <3>1. CASE old.id # id
        BY <1>2, <2>2, <3>1 DEF AddressUpdated
    <3>2. CASE old.id = id
      <4> DEFINE ip == [old EXCEPT !.status = status]
      <4>1. ip \in ips'
        BY <1>2, <3>2 DEF AddressUpdated
      <4>2. ip.nic = nic /\ ip.id = old.id /\ ip.key = old.key
        BY <2>2 DEF InventoryOK, AddressOK
      <4> QED BY <4>1, <4>2
    <3> QED BY <3>1, <3>2
  <2> QED BY <2>1, <2>2 DEF SameAddresses
<1>3. ASSUME NEW other, NEW key, NEW status, AddressAdded(other, key, status), other # nic
      PROVE  SameAddresses(nic)
    BY <1>3 DEF AddressAdded, SameAddresses
<1> QED BY <1>1, <1>2, <1>3

\* Components and the addresses of their NICs are as before.
LEMMA ItemStaysDone ==
    ASSUME NEW kind, NEW item, NEW todo, NEW call, NEW more, ItemDone(kind, item, todo),
           Keeps(todo, call, more), call.op \notin AddressOps \cup {"create", "update"},
           comps \subseteq comps', \A c \in comps : SameAddresses(c.id)
    PROVE  ItemDone(kind, item, more)'
<1>1. CASE CreateCall(kind, item) \in todo
    BY <1>1, KeptCalls DEF ItemDone
<1>2. CASE CreateCall(kind, item) \notin todo
  <2>1. PICK c \in comps : ItemDoneBy(c, kind, item, todo)
    BY <1>2 DEF ItemDone
  <2>2. UpdateCall(c.id, item.val) \in todo => UpdateCall(c.id, item.val) \in more
    BY KeptCalls
  <2>3. kind = "nic" => AddressesDone(c.id, item.ips, more)'
    BY <2>1, AddressesStayDone DEF ItemDoneBy
  <2>4. ItemDoneBy(c, kind, item, more)'
    BY <2>1, <2>2, <2>3 DEF ItemDoneBy
  <2> QED BY <2>4 DEF ItemDone
<1> QED BY <1>1, <1>2

\* A component that is created goes on with its addresses.
LEMMA ItemDoneAfterCreate ==
    ASSUME InventoryOK, NEW kind, NEW item, NEW todo, NEW call, NEW more,
           ItemDone(kind, item, todo), Keeps(todo, call, more), call.op = "create",
           ComponentAdded(call.kind, call.item),
           call.kind = "nic" => AddressesCall(created + 1, call.item.ips) \in more
    PROVE  ItemDone(kind, item, more)'
<1>1. CASE CreateCall(kind, item) = call
  <2>1. call.kind = kind /\ call.item = item
    BY <1>1 DEF CreateCall
  <2>2. Component(kind, created + 1, item) \in comps'
    BY <2>1 DEF ComponentAdded
  <2>3. PICK new \in comps' : /\ new.kind = kind /\ new.key = item.key /\ new.val = item.val
                              /\ new.id = created + 1
    BY <2>2 DEF Component
  <2>4. kind = "nic" => AddressesCall(new.id, item.ips) \in more
    BY <2>1, <2>3
  <2>5. ItemDoneBy(new, kind, item, more)'
    BY <2>3, <2>4 DEF ItemDoneBy, AddressesDone
  <2> QED BY <2>5 DEF ItemDone
<1>2. CASE CreateCall(kind, item) \in todo /\ CreateCall(kind, item) # call
    BY <1>2 DEF Keeps, ItemDone
<1>3. CASE CreateCall(kind, item) \notin todo
  <2>1. PICK c \in comps : ItemDoneBy(c, kind, item, todo)
    BY <1>3 DEF ItemDone
  <2>2. UpdateCall(c.id, item.val) \in todo => UpdateCall(c.id, item.val) \in more
    BY KeptCalls
  <2>3. SameAddresses(c.id)
    BY SameAddressesCases DEF ComponentAdded
  <2>4. kind = "nic" => AddressesDone(c.id, item.ips, more)'
    BY <2>1, <2>3, AddressesStayDone DEF ItemDoneBy, AddressOps
  <2>5. ItemDoneBy(c, kind, item, more)' /\ c \in comps'
    BY <2>1, <2>2, <2>4 DEF ItemDoneBy, ComponentAdded
  <2> QED BY <2>5 DEF ItemDone
<1> QED BY <1>1, <1>2, <1>3

\* The value that is written is the one that is reported.
LEMMA ItemDoneAfterUpdate ==
    ASSUME InventoryOK, NEW parts, KeysDiffer(parts), NEW kind \in Kinds, NEW k \in DOMAIN parts[kind],
           NEW todo, NEW call, NEW more,
           ItemDone(kind, parts[kind][k], todo), Keeps(todo, call, more), call.op = "update",
           UpdateIsDue(parts, call), ComponentUpdated(call.id, call.val)
    PROVE  ItemDone(kind, parts[kind][k], more)'
<1> DEFINE item == parts[kind][k]
<1>1. CASE CreateCall(kind, item) \in todo
    BY <1>1, KeptCalls DEF ItemDone
<1>2. CASE CreateCall(kind, item) \notin todo
  <2>1. PICK c \in comps : ItemDoneBy(c, kind, item, todo)
    BY <1>2 DEF ItemDone
  <2>2. SameAddresses(c.id)
    BY SameAddressesCases DEF ComponentUpdated
  <2>3. kind = "nic" => AddressesDone(c.id, item.ips, more)'
    BY <2>1, <2>2, AddressesStayDone DEF ItemDoneBy, AddressOps
  <2>4. CASE c.id # call.id
    <3>1. c \in comps'
        BY <2>4 DEF ComponentUpdated
    <3>2. UpdateCall(c.id, item.val) \in todo => UpdateCall(c.id, item.val) \in more
        BY <2>4, KeptCalls
    <3>3. ItemDoneBy(c, kind, item, more)'
        BY <2>1, <2>3, <3>2 DEF ItemDoneBy
    <3> QED BY <3>1, <3>3 DEF ItemDone
  <2>5. CASE c.id = call.id
    <3> DEFINE new == [c EXCEPT !.val = call.val]
    <3>1. new \in comps'
        BY <2>5 DEF ComponentUpdated
    <3>2. new.kind = c.kind /\ new.id = c.id /\ new.key = c.key /\ new.val = call.val
        BY DEF InventoryOK, ComponentOK
    <3> HIDE DEF new
    <3>3. c.kind = kind /\ c.key = item.key
        BY <2>1 DEF ItemDoneBy
    <3>4. PICK j \in DOMAIN parts[kind] : parts[kind][j].key = c.key /\ parts[kind][j].val = call.val
        BY <2>5, <3>3 DEF UpdateIsDue
    <3>5. j = k
        BY <3>3, <3>4 DEF KeysDiffer
    <3>6. ItemDoneBy(new, kind, item, more)'
        BY <2>3, <3>2, <3>3, <3>4, <3>5 DEF ItemDoneBy
    <3> QED BY <3>1, <3>6 DEF ItemDone
  <2> QED BY <2>4, <2>5
<1> QED BY <1>1, <1>2

\* What is deleted is not reported.
LEMMA ItemDoneAfterDelete ==
    ASSUME InventoryOK, NEW parts, NEW kind \in Kinds, NEW k \in DOMAIN parts[kind],
           NEW todo, NEW call, NEW more,
           ItemDone(kind, parts[kind][k], todo), Keeps(todo, call, more), call.op = "delete",
           DeleteIsDue(parts, call), ComponentDropped(call.id)
    PROVE  ItemDone(kind, parts[kind][k], more)'
<1> DEFINE item == parts[kind][k]
<1>1. CASE CreateCall(kind, item) \in todo
    BY <1>1, KeptCalls DEF ItemDone
<1>2. CASE CreateCall(kind, item) \notin todo
  <2>1. PICK c \in comps : ItemDoneBy(c, kind, item, todo)
    BY <1>2 DEF ItemDone
  <2>2. SameAddresses(c.id)
    BY SameAddressesCases DEF ComponentDropped
  <2>3. kind = "nic" => AddressesDone(c.id, item.ips, more)'
    BY <2>1, <2>2, AddressesStayDone DEF ItemDoneBy, AddressOps
  <2>4. UpdateCall(c.id, item.val) \in todo => UpdateCall(c.id, item.val) \in more
    BY KeptCalls
  <2>5. Reported(parts, c)
    BY <2>1 DEF ItemDoneBy, Reported, KeysOf
  <2>6. c \in comps'
    BY <2>5 DEF DeleteIsDue, ComponentDropped
  <2>7. ItemDoneBy(c, kind, item, more)'
    BY <2>1, <2>3, <2>4 DEF ItemDoneBy
  <2> QED BY <2>6, <2>7 DEF ItemDone
<1> QED BY <1>1, <1>2


\* Calls for addresses: what is left to do on each NIC of the report is.
LEMMA ItemDoneAfterAddressCall ==
    ASSUME NEW kind, NEW item, NEW todo, NEW call, NEW more, ItemDone(kind, item, todo),
           Keeps(todo, call, more), call.op \in AddressOps, comps' = comps,
           \A c \in comps : c.kind = "nic" /\ kind = "nic" /\ c.key = item.key
                            /\ AddressesDone(c.id, item.ips, todo)
              => AddressesDone(c.id, item.ips, more)'
    PROVE  ItemDone(kind, item, more)'
<1>1. call.op # "create" /\ call.op # "update"
    BY DEF AddressOps
<1>2. CASE CreateCall(kind, item) \in todo
    BY <1>1, <1>2, KeptCalls DEF ItemDone
<1>3. CASE CreateCall(kind, item) \notin todo
  <2>1. PICK c \in comps : ItemDoneBy(c, kind, item, todo)
    BY <1>3 DEF ItemDone
  <2>2. UpdateCall(c.id, item.val) \in todo => UpdateCall(c.id, item.val) \in more
    BY <1>1, KeptCalls
  <2>3. kind = "nic" => AddressesDone(c.id, item.ips, more)'
    BY <2>1 DEF ItemDoneBy
  <2>4. ItemDoneBy(c, kind, item, more)'
    BY <2>1, <2>2, <2>3 DEF ItemDoneBy
  <2> QED BY <2>4 DEF ItemDone
<1> QED BY <1>2, <1>3

\* The addresses of a NIC have been listed, and the calls for them added.
LEMMA AddressesDoneAfterList ==
    ASSUME NEW nic, NEW list, NEW todo, NEW call, NEW more, AddressesDone(nic, list, todo),
           Keeps(todo, call, more), call.op = "addresses", ips' = ips,
           \A ip \in ips : ip.nic = call.nic /\ ip.key \notin KeysOf(call.list)
              => DeleteAddressCall(ip.id) \in more,
           \A k \in DOMAIN call.list :
              \/ \E ip \in ips : ip.nic = call.nic /\ ip.key = call.list[k].key
              \/ CreateAddressCall(call.nic, call.list[k].key) \in more
    PROVE  AddressesDone(nic, list, more)'
<1>1. CASE AddressesCall(nic, list) \in more
    BY <1>1 DEF AddressesDone
<1>2. CASE AddressesCall(nic, list) \in todo \ more
  <2>1. call.nic = nic /\ call.list = list
    BY <1>2, KeptCalls
  <2> QED BY <2>1 DEF AddressesDone
<1>3. CASE AddressesCall(nic, list) \notin todo
    BY <1>3, KeptCalls DEF AddressesDone
<1> QED BY <1>1, <1>2, <1>3

\* An address that is created is one that is needed.
LEMMA AddressesDoneAfterCreate ==
    ASSUME NEW nic, NEW list, NEW todo, NEW call, NEW more, AddressesDone(nic, list, todo),
           Keeps(todo, call, more), call.op = "createAddress",
           NEW status, AddressAdded(call.nic, call.key, status),
           nic = call.nic => call.key \in KeysOf(list)
    PROVE  AddressesDone(nic, list, more)'
<1>1. PICK new : /\ ips' = ips \cup {new} /\ new.id = created + 1 /\ new.nic = call.nic
                 /\ new.key = call.key
  <2> DEFINE n == [id |-> created + 1, nic |-> call.nic, key |-> call.key, status |-> status]
  <2>1. ips' = ips \cup {n}
    BY DEF AddressAdded
  <2>2. n.id = created + 1 /\ n.nic = call.nic /\ n.key = call.key
    OBVIOUS
  <2> HIDE DEF n
  <2> QED BY <2>1, <2>2
<1>2. CASE AddressesCall(nic, list) \in todo
    BY <1>2, KeptCalls DEF AddressesDone
<1>3. CASE AddressesCall(nic, list) \notin todo
  <2>1. ASSUME NEW ip \in ips', ip.nic = nic
        PROVE  ip.key \in KeysOf(list) \/ DeleteAddressCall(ip.id) \in more
    BY <1>1, <1>3, <2>1, KeptCalls DEF AddressesDone
  <2>2. ASSUME NEW k \in DOMAIN list
        PROVE  \/ \E ip \in ips' : ip.nic = nic /\ ip.key = list[k].key
               \/ CreateAddressCall(nic, list[k].key) \in more
    BY <1>1, <1>3, <2>2, KeptCalls DEF AddressesDone
  <2> QED BY <2>1, <2>2 DEF AddressesDone
<1> QED BY <1>2, <1>3

\* An address that is deleted is one that is not needed.
LEMMA AddressesDoneAfterDelete ==
    ASSUME NEW nic, NEW list, NEW todo, NEW call, NEW more, AddressesDone(nic, list, todo),
           Keeps(todo, call, more), call.op = "deleteAddress", AddressDropped(call.id),
           \A ip \in ips : ip.id = call.id /\ ip.nic = nic => ip.key \notin KeysOf(list)
    PROVE  AddressesDone(nic, list, more)'
<1>1. ips' = {ip \in ips : ip.id # call.id}
    BY DEF AddressDropped
<1>2. CASE AddressesCall(nic, list) \in todo
    BY <1>2, KeptCalls DEF AddressesDone
<1>3. CASE AddressesCall(nic, list) \notin todo
  <2>1. ASSUME NEW ip \in ips', ip.nic = nic
        PROVE  ip.key \in KeysOf(list) \/ DeleteAddressCall(ip.id) \in more
    BY <1>1, <1>3, <2>1, KeptCalls DEF AddressesDone
  <2>2. ASSUME NEW k \in DOMAIN list
        PROVE  \/ \E ip \in ips' : ip.nic = nic /\ ip.key = list[k].key
               \/ CreateAddressCall(nic, list[k].key) \in more
    <3>1. list[k].key \in KeysOf(list)
        BY DEF KeysOf
    <3> QED BY <1>1, <1>3, <2>2, <3>1, KeptCalls DEF AddressesDone
  <2> QED BY <2>1, <2>2 DEF AddressesDone
<1> QED BY <1>2, <1>3

\* What is there is reported, or will be deleted.
LEMMA RestStaysDropped ==
    ASSUME InventoryOK, InventoryStep, NEW info, NEW todo, NEW call, NEW more,
           RestDropped(info, todo), Keeps(todo, call, more),
           call.op = "delete" => ComponentDropped(call.id),
           \A c \in comps' : c.id = created + 1 => Reported(Components(info), c)
    PROVE  RestDropped(info, more)'
<1> SUFFICES ASSUME NEW c \in comps', ~Reported(Components(info), c)
             PROVE  DeleteCall(c.id) \in more
    BY DEF RestDropped, Reported
<1>1. PICK d \in comps : c.kind = d.kind /\ c.id = d.id /\ c.key = d.key
    BY InventorySteps
<1>2. DeleteCall(d.id) \in todo
    BY <1>1 DEF RestDropped, Reported
<1>3. CASE call.op # "delete" \/ call.id # d.id
    BY <1>1, <1>2, <1>3, KeptCalls
<1>4. CASE call.op = "delete" /\ call.id = d.id
    BY <1>1, <1>4 DEF ComponentDropped
<1> QED BY <1>3, <1>4

-----------------------------------------------------------------------------
(* Each call leaves the report to the calls to come *)

\* Calls that change neither components nor what addresses there are, and the
\* steps of everyone else.
LEMMA AllDoneKept ==
    ASSUME InventoryOK, InventoryStep, NEW info, NEW todo, NEW call, NEW more,
           AllDone(info, todo), Keeps(todo, call, more),
           call.op \in {"refused", "host", "updateAddress"},
           comps' = comps, \A c \in comps : SameAddresses(c.id),
           \/ call.op # "host" /\ host'.fields = host.fields
           \/ host'.fields = HostFields(info)
    PROVE  AllDone(info, more)'
<1>1. HostDone(info, more)'
    BY KeptCalls DEF AllDone, HostDone
<1>2. ItemsDone(info, more)'
  <2> SUFFICES ASSUME NEW kind \in Kinds, NEW k \in DOMAIN Components(info)[kind]
               PROVE  ItemDone(kind, Components(info)[kind][k], more)'
    BY DEF ItemsDone
  <2>1. ItemDone(kind, Components(info)[kind][k], todo)
    BY DEF AllDone, ItemsDone
  <2>2. call.op \notin AddressOps \cup {"create", "update"}
    BY DEF AddressOps
  <2> QED BY <2>1, <2>2, ItemStaysDone
<1>3. RestDropped(info, more)'
  <2>1. \A c \in comps' : c.id # created + 1
    BY InventorySteps
  <2> QED BY <2>1, RestStaysDropped DEF AllDone
<1> QED BY <1>1, <1>2, <1>3 DEF AllDone

LEMMA AllDoneAfterCreate ==
    ASSUME InventoryOK, NEW info, NEW todo, NEW call, NEW more,
           AllDone(info, todo), Keeps(todo, call, more), call.op = "create", call.kind \in Kinds,
           CreateIsDue(Components(info), call), ComponentAdded(call.kind, call.item),
           call.kind = "nic" => AddressesCall(created + 1, call.item.ips) \in more
    PROVE  AllDone(info, more)'
<1>1. HostDone(info, more)'
    BY KeptCalls DEF AllDone, HostDone, ComponentAdded
<1>2. ItemsDone(info, more)'
    BY ItemDoneAfterCreate DEF AllDone, ItemsDone
<1>3. RestDropped(info, more)'
  <2>1. ASSUME NEW c \in comps', c.id = created + 1 PROVE Reported(Components(info), c)
    <3>1. c.kind = call.kind /\ c.key = call.item.key
        BY <2>1, InventorySteps DEF ComponentAdded, Component, InventoryStep
    <3> QED BY <3>1 DEF CreateIsDue, Reported, KeysOf
  <2>2. InventoryStep
    BY DEF InventoryStep
  <2> QED BY <2>1, <2>2, RestStaysDropped DEF AllDone
<1> QED BY <1>1, <1>2, <1>3 DEF AllDone

LEMMA AllDoneAfterUpdate ==
    ASSUME InventoryOK, NEW info, KeysDiffer(Components(info)), NEW todo, NEW call, NEW more,
           AllDone(info, todo), Keeps(todo, call, more), call.op = "update",
           UpdateIsDue(Components(info), call), ComponentUpdated(call.id, call.val)
    PROVE  AllDone(info, more)'
<1>1. HostDone(info, more)'
    BY KeptCalls DEF AllDone, HostDone, ComponentUpdated
<1>2. ItemsDone(info, more)'
    BY ItemDoneAfterUpdate DEF AllDone, ItemsDone
<1>3. RestDropped(info, more)'
  <2>1. InventoryStep
    BY DEF InventoryStep
  <2>2. \A c \in comps' : c.id # created + 1
    BY DEF ComponentUpdated, InventoryOK, ComponentOK
  <2> QED BY <2>1, <2>2, RestStaysDropped DEF AllDone
<1> QED BY <1>1, <1>2, <1>3 DEF AllDone

LEMMA AllDoneAfterDelete ==
    ASSUME InventoryOK, NEW info, NEW todo, NEW call, NEW more,
           AllDone(info, todo), Keeps(todo, call, more), call.op = "delete",
           DeleteIsDue(Components(info), call), ComponentDropped(call.id)
    PROVE  AllDone(info, more)'
<1>1. HostDone(info, more)'
    BY KeptCalls DEF AllDone, HostDone, ComponentDropped
<1>2. ItemsDone(info, more)'
    BY ItemDoneAfterDelete DEF AllDone, ItemsDone
<1>3. RestDropped(info, more)'
  <2>1. InventoryStep
    BY DEF InventoryStep
  <2>2. \A c \in comps' : c.id # created + 1
    BY InventorySteps, <2>1 DEF ComponentDropped
  <2> QED BY <2>1, <2>2, RestStaysDropped DEF AllDone
<1> QED BY <1>1, <1>2, <1>3 DEF AllDone

\* The calls for addresses change nothing else.
LEMMA AllDoneAfterAddressCall ==
    ASSUME InventoryOK, InventoryStep, NEW info, NEW todo, NEW call, NEW more,
           AllDone(info, todo), Keeps(todo, call, more), call.op \in AddressOps,
           UNCHANGED <<host, comps>>,
           \A k \in DOMAIN Components(info).nic : \A c \in comps :
              c.kind = "nic" /\ c.key = Components(info).nic[k].key
              /\ AddressesDone(c.id, Components(info).nic[k].ips, todo)
                 => AddressesDone(c.id, Components(info).nic[k].ips, more)'
    PROVE  AllDone(info, more)'
<1>1. HostDone(info, more)'
    BY KeptCalls DEF AllDone, HostDone, AddressOps
<1>2. ItemsDone(info, more)'
  <2> SUFFICES ASSUME NEW kind \in Kinds, NEW k \in DOMAIN Components(info)[kind]
               PROVE  ItemDone(kind, Components(info)[kind][k], more)'
    BY DEF ItemsDone
  <2>1. ItemDone(kind, Components(info)[kind][k], todo)
    BY DEF AllDone, ItemsDone
  <2> QED BY <2>1, ItemDoneAfterAddressCall
<1>3. RestDropped(info, more)'
  <2>1. \A c \in comps' : c.id # created + 1
    BY InventorySteps
  <2> QED BY <2>1, RestStaysDropped DEF AllDone, AddressOps
<1> QED BY <1>1, <1>2, <1>3 DEF AllDone


-----------------------------------------------------------------------------
(* The plan that is made when the host is read *)

\* The component with the key of an item, the only one there is.
LEMMA FoundComponent ==
    ASSUME InventoryOK, OneComponentPerKey, NEW kind, NEW key, Match(Loaded(kind), key) # {}
    PROVE  /\ FirstOf(Match(Loaded(kind), key)) \in comps
           /\ FirstOf(Match(Loaded(kind), key)).kind = kind
           /\ FirstOf(Match(Loaded(kind), key)).key = key
<1> DEFINE found == Match(Loaded(kind), key)
<1>1. \A c \in found : c \in comps /\ c.kind = kind /\ c.key = key
    BY DEF Match, Loaded
<1>2. PICK c : c \in found
    OBVIOUS
<1>3. \A d \in found : d = c
    BY <1>1, <1>2 DEF OneComponentPerKey
<1>4. c.id =< c.id
    BY <1>1, <1>2 DEF InventoryOK, ComponentOK
<1> HIDE DEF found
<1>5. FirstOf(found) \in found
    BY <1>2, <1>3, <1>4 DEF FirstOf
<1> QED BY <1>1, <1>5 DEF found

\* The calls of one kind are due, and create no component twice.
LEMMA KindIsDue ==
    ASSUME InventoryOK, OneComponentPerKey, NEW info, ListsOK(Components(info)),
           NEW kind \in Kinds, NEW x \in Range(PlanOf(kind, info))
    PROVE  Due(info, x) /\ (x.op = "create" => x.kind = kind)
<1> DEFINE parts == Components(info)
           items == parts[kind]
           known == Loaded(kind)
<1>1. IsList(items) /\ IsFiniteSet(known)
    BY InventoryIsFinite, FS_Subset DEF ListsOK, Loaded
<1>2. \/ \E k \in DOMAIN items : x \in Range(Put(kind, items[k], known))
      \/ \E c \in Gone(items, known) : x \in Range(Drop(kind, c))
    BY <1>1, ReconcileCalls DEF PlanOf
<1>3. \A c \in comps : c.id \in Id
    BY DEF InventoryOK, ComponentOK, Id
<1>4. \A c, d \in comps : c.id = d.id => c = d
    BY DEF InventoryOK
<1>5. ASSUME NEW k \in DOMAIN items, x \in Range(Put(kind, items[k], known))
      PROVE  Due(info, x) /\ (x.op = "create" => x.kind = kind)
  <2> DEFINE item == items[k]
             found == Match(known, item.key)
             old == FirstOf(found)
  <2>1. \/ x = Refused
        \/ found = {} /\ x = CreateCall(kind, item)
        \/ found # {} /\ x = UpdateCall(old.id, item.val)
        \/ found # {} /\ kind = "nic" /\ x = AddressesCall(old.id, item.ips)
    BY <1>5, PutCalls
  <2>2. found # {} => old \in comps /\ old.kind = kind /\ old.key = item.key
    BY FoundComponent
  <2>3. CASE x = Refused
    BY <2>3 DEF Due, Refused
  <2>4. CASE found = {} /\ x = CreateCall(kind, item)
    <3>1. x.op = "create" /\ x.kind = kind /\ x.item = item
        BY <2>4 DEF CreateCall
    <3>2. \A c \in Loaded(kind) : c.key # item.key
        BY <2>4 DEF Match
    <3>3. CreateIsDue(parts, x)
        BY <3>1, <3>2 DEF CreateIsDue
    <3> QED BY <3>1, <3>3 DEF Due
  <2>5. CASE found # {} /\ x = UpdateCall(old.id, item.val)
    <3> HIDE DEF old
    <3>1. x.op = "update" /\ x.id = old.id /\ x.val = item.val
        BY <2>5 DEF UpdateCall
    <3>2. UpdateIsDue(parts, x)
        BY <1>3, <1>4, <2>2, <2>5, <3>1 DEF UpdateIsDue
    <3> QED BY <3>1, <3>2 DEF Due
  <2>6. CASE found # {} /\ kind = "nic" /\ x = AddressesCall(old.id, item.ips)
    <3> HIDE DEF old
    <3>1. x.op = "addresses" /\ x.nic = old.id /\ x.list = item.ips
        BY <2>6 DEF AddressesCall
    <3>2. AddressesAreDue(parts, x)
        BY <1>3, <1>4, <2>2, <2>6, <3>1 DEF AddressesAreDue
    <3> QED BY <3>1, <3>2 DEF Due
  <2> QED BY <2>1, <2>3, <2>4, <2>5, <2>6
<1>6. ASSUME NEW c \in Gone(items, known), x \in Range(Drop(kind, c))
      PROVE  Due(info, x) /\ (x.op = "create" => x.kind = kind)
  <2>1. c \in comps /\ c.kind = kind /\ ~Reported(parts, c)
    BY DEF Gone, Loaded, Reported, KeysOf
  <2>2. x = DeleteCall(c.id) \/ (kind = "nic" /\ x = AddressesCall(c.id, <<>>))
    BY <1>6, DropCalls
  <2>3. CASE x = DeleteCall(c.id)
    <3>1. x.op = "delete" /\ x.id = c.id
        BY <2>3 DEF DeleteCall
    <3>2. DeleteIsDue(parts, x)
        BY <1>3, <1>4, <2>1, <3>1 DEF DeleteIsDue
    <3> QED BY <3>1, <3>2 DEF Due
  <2>4. CASE kind = "nic" /\ x = AddressesCall(c.id, <<>>)
    <3>1. x.op = "addresses" /\ x.nic = c.id /\ x.list = <<>>
        BY <2>4 DEF AddressesCall
    <3>2. AddressesAreDue(parts, x)
        BY <1>3, <1>4, <2>1, <2>4, <3>1 DEF AddressesAreDue
    <3> QED BY <3>1, <3>2 DEF Due
  <2> QED BY <2>2, <2>3, <2>4
<1> QED BY <1>2, <1>5, <1>6

LEMMA KindCreatesOnce ==
    ASSUME InventoryOK, NEW info, ListsOK(Components(info)), KeysDiffer(Components(info)),
           NEW kind \in Kinds, NEW other, NEW key, NEW S,
           \A x \in S : x.op = "create" /\ x.kind = other /\ x.item.key = key
    PROVE  AtMostOnce(PlanOf(kind, info), S)
<1> DEFINE items == Components(info)[kind]
           known == Loaded(kind)
           puts == Puts(kind, items, known)
           drops == Drops(kind, items, known)
<1>1. IsList(items) /\ IsFiniteSet(known)
    BY InventoryIsFinite, FS_Subset DEF ListsOK, Loaded
<1>2. /\ IsList(puts) /\ DOMAIN puts = 1 .. Len(puts) /\ DOMAIN puts = DOMAIN items
      /\ IsList(FlattenSeq(puts)) /\ IsList(FlattenSeq(drops))
      /\ PlanOf(kind, info) = FlattenSeq(puts) \o FlattenSeq(drops)
      /\ \A x : x \in Range(FlattenSeq(drops))
              <=> \E c \in Gone(items, known) : x \in Range(Drop(kind, c))
    BY <1>1, ReconcileCalls DEF PlanOf
<1>3. \A k \in DOMAIN items : puts[k] = Put(kind, items[k], known)
    BY DEF Puts
<1> HIDE DEF puts, drops, known, items
<1>4. ASSUME NEW x \in Range(FlattenSeq(drops)) PROVE x \notin S
  <2>1. PICK c : x \in Range(Drop(kind, c))
    BY <1>2, <1>4
  <2>2. x = DeleteCall(c.id) \/ x = AddressesCall(c.id, <<>>)
    BY <2>1, DropCalls
  <2>3. x.op # "create"
    BY <2>2 DEF DeleteCall, AddressesCall
  <2> QED BY <2>3
<1>5. ASSUME NEW k \in DOMAIN items, NEW x \in Range(puts[k]), x \in S
      PROVE  items[k].key = key /\ Match(known, items[k].key) = {}
  <2>1. PICK id : \/ x = Refused
                  \/ Match(known, items[k].key) = {} /\ x = CreateCall(kind, items[k])
                  \/ x = UpdateCall(id, items[k].val)
                  \/ x = AddressesCall(id, items[k].ips)
    BY <1>3, <1>5, PutCalls
  <2>2. x.op = "create" /\ x.item.key = key
    BY <1>5
  <2> QED BY <2>1, <2>2 DEF Refused, CreateCall, UpdateCall, AddressesCall
<1>6. ASSUME NEW k \in DOMAIN items PROVE AtMostOnce(puts[k], S) /\ IsList(puts[k])
  <2>1. IsList(puts[k])
    BY <1>3, PutCalls
  <2>2. CASE Match(known, items[k].key) = {}
    <3>1. Len(puts[k]) = 1
        BY <1>3, <2>2, PutCalls
    <3>2. DOMAIN puts[k] = 1 .. 1
        BY <2>1, <3>1, ListAt
    <3> QED BY <2>1, <3>2 DEF AtMostOnce
  <2>3. CASE Match(known, items[k].key) # {}
    <3>1. \A j \in DOMAIN puts[k] : puts[k][j] \in Range(puts[k])
        BY DEF Range
    <3> QED BY <1>5, <2>1, <2>3, <3>1 DEF AtMostOnce
  <2> QED BY <2>2, <2>3
<1>7. ASSUME NEW j \in DOMAIN items, NEW k \in DOMAIN items, NEW x \in S, NEW y \in S,
             x \in Range(puts[j]), y \in Range(puts[k])
      PROVE  j = k
  <2>1. items[j].key = key /\ items[k].key = key
    BY <1>5, <1>7
  <2> QED BY <1>7, <2>1 DEF KeysDiffer, items
<1>8. AtMostOnce(FlattenSeq(puts), S)
    BY <1>2, <1>6, <1>7, FlattenSeqOfLists
<1>9. AtMostOnce(FlattenSeq(drops), S)
  <2>1. \A j \in DOMAIN FlattenSeq(drops) : FlattenSeq(drops)[j] \in Range(FlattenSeq(drops))
    BY DEF Range
  <2> QED BY <1>4, <2>1 DEF AtMostOnce
<1> QED BY <1>2, <1>4, <1>8, <1>9, AtMostOnceConcat

\* The plan does what is reported.
LEMMA ReadPlan ==
    ASSUME InventoryOK, OneComponentPerKey, NEW info, ListsOK(Components(info)),
           KeysDiffer(Components(info))
    PROVE  PlanOK(info, CallsOf(info))
<1> DEFINE parts == Components(info)
           calls == CallsOf(info)
           H == HostCall(info)
           A == PlanOf("storage", info)
           B == PlanOf("nic", info)
           C == PlanOf("usb", info)
           D == PlanOf("gpu", info)
<1>1. IsFiniteSet(comps) /\ \A kind : IsFiniteSet(Loaded(kind))
    BY InventoryIsFinite, FS_Subset DEF Loaded
<1>2. /\ IsList(calls)
      /\ \A kind \in Kinds : IsList(PlanOf(kind, info))
      /\ \A x : x \in Range(calls) <=> \/ x \in Range(HostCall(info))
                                       \/ \E kind \in Kinds : x \in Range(PlanOf(kind, info))
      /\ calls = (((H \o A) \o B) \o C) \o D
    BY <1>1, ReportCalls
<1>3. ASSUME NEW x \in Range(HostCall(info)) PROVE Due(info, x) /\ x.op # "create"
  <2>1. x = Refused \/ x = HostFieldsCall(HostFields(info))
    BY HostCalls
  <2>2. x.op = "refused" \/ (x.op = "host" /\ x.fields = HostFields(info))
    BY <2>1 DEF Refused, HostFieldsCall
  <2> QED BY <2>2 DEF Due
<1>4. \A x \in Range(calls) : Due(info, x)
    BY <1>2, <1>3, KindIsDue
<1>5. ASSUME NEW kind \in Kinds, NEW key PROVE AtMostOnce(calls, Creating(kind, key, calls))
  <2> DEFINE S == Creating(kind, key, calls)
  <2>1. \A x \in S : x.op = "create" /\ x.kind = kind /\ x.item.key = key
    BY DEF Creating
  <2> HIDE DEF S, calls
  <2>2. \A other \in Kinds : AtMostOnce(PlanOf(other, info), S)
    BY <2>1, KindCreatesOnce
  <2>3. \A other \in Kinds : other # kind => \A x \in S : x \notin Range(PlanOf(other, info))
    BY <2>1, KindIsDue
  <2>4. IsList(H) /\ \A x \in S : x \notin Range(H)
    BY <1>3, <2>1, HostCalls
  <2>5. AtMostOnce(H, S)
    <3>1. \A j \in DOMAIN H : H[j] \in Range(H)
        BY DEF Range
    <3> QED BY <2>4, <3>1 DEF AtMostOnce
  <2> HIDE DEF H, A, B, C, D
  <2>6. IsList(A) /\ IsList(B) /\ IsList(C) /\ IsList(D)
    BY <1>2 DEF A, B, C, D, Kinds
  <2>7. AtMostOnce(A, S) /\ AtMostOnce(B, S) /\ AtMostOnce(C, S) /\ AtMostOnce(D, S)
    BY <2>2 DEF A, B, C, D, Kinds
  <2>8. /\ kind # "storage" => \A x \in S : x \notin Range(A)
        /\ kind # "nic" => \A x \in S : x \notin Range(B)
        /\ kind # "usb" => \A x \in S : x \notin Range(C)
        /\ kind # "gpu" => \A x \in S : x \notin Range(D)
    BY <2>3 DEF A, B, C, D, Kinds
  <2>9. /\ IsList(H \o A) /\ AtMostOnce(H \o A, S)
        /\ kind # "storage" => \A x \in S : x \notin Range(H \o A)
    BY <2>4, <2>5, <2>6, <2>7, <2>8, ListConcat, AtMostOnceConcat
  <2>10. /\ IsList((H \o A) \o B) /\ AtMostOnce((H \o A) \o B, S)
         /\ kind \notin {"storage", "nic"} => \A x \in S : x \notin Range((H \o A) \o B)
    <3>1. (\A x \in S : x \notin Range(H \o A)) \/ (\A x \in S : x \notin Range(B))
        BY <2>8, <2>9
    <3> QED BY <2>6, <2>7, <2>8, <2>9, <3>1, ListConcat, AtMostOnceConcat
  <2>11. /\ IsList(((H \o A) \o B) \o C) /\ AtMostOnce(((H \o A) \o B) \o C, S)
         /\ kind \notin {"storage", "nic", "usb"}
               => \A x \in S : x \notin Range(((H \o A) \o B) \o C)
    <3>1. (\A x \in S : x \notin Range((H \o A) \o B)) \/ (\A x \in S : x \notin Range(C))
        BY <2>8, <2>10
    <3> QED BY <2>6, <2>7, <2>8, <2>10, <3>1, ListConcat, AtMostOnceConcat
  <2>12. AtMostOnce((((H \o A) \o B) \o C) \o D, S)
    <3>1. (\A x \in S : x \notin Range(((H \o A) \o B) \o C)) \/ (\A x \in S : x \notin Range(D))
        BY <2>8, <2>11
    <3> QED BY <2>6, <2>7, <2>11, <3>1, AtMostOnceConcat
  <2> QED BY <1>2, <2>12 DEF S
<1>6. ASSUME Refused \notin Range(calls) PROVE AllDone(info, Range(calls))
  <2>1. HostDone(info, Range(calls))
    BY <1>2, <1>6, HostCalls DEF HostDone
  <2>2. ASSUME NEW kind \in Kinds, NEW k \in DOMAIN parts[kind]
        PROVE  ItemDone(kind, parts[kind][k], Range(calls))
    <3> DEFINE item == parts[kind][k]
               found == Match(Loaded(kind), item.key)
               old == FirstOf(found)
               puts == Put(kind, item, Loaded(kind))
    <3>1. \A x \in Range(puts) : x \in Range(calls)
      <4>1. IsList(parts[kind])
        BY DEF ListsOK
      <4>2. \A x \in Range(puts) : x \in Range(PlanOf(kind, info))
        BY <1>1, <4>1, ReconcileCalls DEF PlanOf
      <4> QED BY <1>2, <4>2
    <3>2. Refused \notin Range(puts)
        BY <1>6, <3>1
    <3>3. /\ found = {} => CreateCall(kind, item) \in Range(puts)
          /\ found # {} /\ old.val # item.val => UpdateCall(old.id, item.val) \in Range(puts)
          /\ found # {} /\ kind = "nic" => AddressesCall(old.id, item.ips) \in Range(puts)
        BY <3>2, PutCalls
    <3>4. found # {} => old \in comps /\ old.kind = kind /\ old.key = item.key
        BY FoundComponent
    <3> HIDE DEF found, old, puts, calls
    <3>5. CASE found = {}
        BY <3>1, <3>3, <3>5 DEF ItemDone
    <3>6. CASE found # {}
      <4>1. ItemDoneBy(old, kind, item, Range(calls))
        BY <3>1, <3>3, <3>4, <3>6 DEF ItemDoneBy, AddressesDone
      <4> QED BY <3>4, <3>6, <4>1 DEF ItemDone
    <3> QED BY <3>5, <3>6
  <2>3. ASSUME NEW c \in comps, ~Reported(parts, c) PROVE DeleteCall(c.id) \in Range(calls)
    <3> DEFINE items == parts[c.kind]
    <3>1. c.kind \in Kinds
        BY DEF InventoryOK, ComponentOK
    <3>2. IsList(items)
        BY <3>1 DEF ListsOK
    <3>3. c \in Gone(items, Loaded(c.kind))
        BY <2>3 DEF Gone, Loaded, Reported, KeysOf
    <3>4. DeleteCall(c.id) \in Range(Drop(c.kind, c))
        BY DropCalls
    <3>5. DeleteCall(c.id) \in Range(PlanOf(c.kind, info))
        BY <1>1, <3>2, <3>3, <3>4, ReconcileCalls DEF PlanOf
    <3> QED BY <1>2, <3>1, <3>5
  <2> QED BY <2>1, <2>2, <2>3 DEF AllDone, ItemsDone, RestDropped
<1> QED BY <1>4, <1>5, <1>6 DEF PlanOK


-----------------------------------------------------------------------------
(* The plan goes on *)

\* The steps that write neither the host's fields, nor components, nor what
\* addresses there are.
LEMMA PlanStays ==
    ASSUME InventoryOK, InventoryStep, NEW info, NEW calls, PlanOK(info, calls),
           host'.fields = host.fields, comps' = comps, \A c \in comps : SameAddresses(c.id)
    PROVE  PlanOK(info, calls)'
<1>1. \A c \in comps' : c.id # created + 1
    BY InventorySteps
<1>2. ASSUME NEW call \in Range(calls) PROVE Due(info, call)'
  <2>1. Due(info, call)
    BY DEF PlanOK
  <2> QED BY <1>1, <2>1, DueStaysDue
<1>3. ASSUME Refused \notin Range(calls) PROVE AllDone(info, Range(calls))'
  <2>1. PICK todo : todo = Range(calls)
    OBVIOUS
  <2>2. AllDone(info, todo) /\ Keeps(todo, Refused, todo) /\ Refused.op = "refused"
    BY <1>3, <2>1 DEF PlanOK, Keeps, Refused
  <2>3. AllDone(info, todo)'
    BY <2>2, AllDoneKept
  <2> QED BY <2>1, <2>3
<1>4. \A kind \in Kinds : \A key : AtMostOnce(calls, Creating(kind, key, calls))
    BY DEF PlanOK
<1> QED BY <1>2, <1>3, <1>4 DEF PlanOK

\* The first call is made, and more calls are put before the others.
LEMMA PlanGoesOn ==
    ASSUME InventoryOK, InventoryStep, NEW info, NEW calls, IsList(calls), calls # <<>>,
           PlanOK(info, calls), Head(calls) # Refused, NEW more, IsList(more),
           \A x \in Range(more) : x.op # "create" /\ Due(info, x)',
           \A c \in comps' : c.id = created + 1 =>
              Head(calls).op = "create" /\ c.kind = Head(calls).kind
                                        /\ c.key = Head(calls).item.key,
           \A todo, rest : AllDone(info, todo) /\ Keeps(todo, Head(calls), rest)
                           /\ Range(more) \subseteq rest /\ Refused \notin rest
              => AllDone(info, rest)'
    PROVE  PlanOK(info, more \o Tail(calls))'
<1> DEFINE rest == Tail(calls)
           next == more \o rest
<1>1. /\ IsList(rest) /\ Head(calls) \in Range(calls) /\ Head(calls) = calls[1]
      /\ \A x : x \in Range(calls) <=> x = Head(calls) \/ x \in Range(rest)
      /\ Len(rest) = Len(calls) - 1 /\ 1 \in DOMAIN calls
      /\ \A k \in 1 .. Len(calls) - 1 : rest[k] = calls[k + 1] /\ k + 1 \in DOMAIN calls
    BY ListTail
<1>2. Len(calls) \in Nat /\ DOMAIN rest = 1 .. Len(calls) - 1
    BY <1>1, ListAt
<1> HIDE DEF rest
<1>3. IsList(next) /\ \A x : x \in Range(next) <=> x \in Range(more) \/ x \in Range(rest)
    BY <1>1, ListConcat
<1> HIDE DEF next
<1>4. ASSUME NEW kind \in Kinds, NEW key PROVE AtMostOnce(next, Creating(kind, key, next))
  <2> DEFINE S == Creating(kind, key, next)
             T == Creating(kind, key, calls)
  <2>1. S \subseteq T /\ \A x \in S : x \notin Range(more)
    BY <1>1, <1>3 DEF Creating
  <2>2. AtMostOnce(calls, T)
    BY DEF PlanOK
  <2> HIDE DEF S, T
  <2>3. AtMostOnce(rest, S)
    <3> SUFFICES ASSUME NEW j \in 1 .. Len(calls) - 1, NEW k \in 1 .. Len(calls) - 1,
                        rest[j] \in S, rest[k] \in S
                 PROVE  j = k
        BY <1>2 DEF AtMostOnce
    <3>1. /\ calls[j + 1] \in T /\ calls[k + 1] \in T
          /\ j + 1 \in DOMAIN calls /\ k + 1 \in DOMAIN calls
        BY <1>1, <2>1
    <3>2. j + 1 = k + 1
        BY <2>2, <3>1 DEF AtMostOnce
    <3> QED BY <1>2, <3>2
  <2>4. AtMostOnce(more, S)
    <3>1. \A j \in DOMAIN more : more[j] \in Range(more)
        BY DEF Range
    <3> QED BY <2>1, <3>1 DEF AtMostOnce
  <2>5. AtMostOnce(next, S)
    BY <1>1, <2>1, <2>3, <2>4, AtMostOnceConcat DEF next
  <2> QED BY <2>5 DEF S
<1>5. ASSUME NEW x \in Range(rest) PROVE Due(info, x)'
  <2>1. Due(info, x)
    BY <1>1 DEF PlanOK
  <2>2. ASSUME x.op = "create", NEW c \in comps', c.id = created + 1, c.kind = x.kind,
               c.key = x.item.key
        PROVE  FALSE
    <3> DEFINE T == Creating(c.kind, c.key, calls)
    <3>1. c.kind \in Kinds
        BY InventoryStepIsTyped DEF InventoryOK, ComponentOK
    <3>2. Head(calls).op = "create" /\ c.kind = Head(calls).kind /\ c.key = Head(calls).item.key
        BY <2>2
    <3>3. x \in T /\ Head(calls) \in T
        BY <1>1, <2>2, <3>2 DEF Creating
    <3>4. AtMostOnce(calls, T)
        BY <3>1 DEF PlanOK
    <3>5. PICK j \in 1 .. Len(calls) - 1 : x = rest[j]
        BY <1>1, <1>2, ListAt
    <3> HIDE DEF T
    <3>6. calls[j + 1] \in T /\ calls[1] \in T /\ j + 1 \in DOMAIN calls /\ 1 \in DOMAIN calls
        BY <1>1, <3>3, <3>5
    <3>7. j + 1 = 1
        BY <3>4, <3>6 DEF AtMostOnce
    <3> QED BY <1>2, <3>7
  <2> QED BY <2>1, <2>2, DueStaysDue
<1>6. \A x \in Range(next) : Due(info, x)'
    BY <1>3, <1>5
<1>7. ASSUME Refused \notin Range(next) PROVE AllDone(info, Range(next))'
  <2>1. PICK todo, left : todo = Range(calls) /\ left = Range(next)
    OBVIOUS
  <2>2. Refused \notin todo /\ Keeps(todo, Head(calls), left) /\ Range(more) \subseteq left
    BY <1>1, <1>3, <1>7, <2>1 DEF Keeps
  <2>3. AllDone(info, todo)
    BY <2>1, <2>2 DEF PlanOK
  <2>4. AllDone(info, left)'
    BY <1>7, <2>1, <2>2, <2>3
  <2> QED BY <2>1, <2>4
<1>8. PlanOK(info, next)'
    BY <1>4, <1>6, <1>7 DEF PlanOK
<1> QED BY <1>8 DEF next, rest

\* There is only one handler.
LEMMA PlansAfterProceed ==
    ASSUME OneHandler, HandlersOK, NEW h \in Rpc, ValidSystemInfoRequest(rpc[h].req),
           NEW info, info = rpc[h].req.info[1], NEW calls, Proceed(h, calls),
           PlanOK(info, calls)'
    PROVE  PlansOK'
<1>1. DOMAIN rpc = Rpc /\ \A k \in Rpc : k = h
    BY DEF HandlersOK, OneHandler
<1>2. rpc'[h] = [pc |-> IF calls = <<>> THEN "answered" ELSE "calls",
                 req |-> rpc[h].req, calls |-> calls]
    BY <1>1 DEF Proceed
<1>3. /\ rpc'[h].req = rpc[h].req /\ rpc'[h].calls = calls
      /\ rpc'[h].pc = "answered" => calls = <<>>
    BY <1>2
<1>4. PlanOK(rpc[h].req.info[1], rpc[h].calls)'
    BY <1>3
<1> QED BY <1>1, <1>3, <1>4 DEF PlansOK

LEMMA PlansAfterFail ==
    ASSUME OneHandler, HandlersOK, NEW h \in Rpc, Fail(h)
    PROVE  PlansOK'
<1>1. \A k \in Rpc : k = h /\ rpc'[k].pc = "idle"
    BY DEF HandlersOK, OneHandler, Fail, Idle
<1> QED BY <1>1 DEF PlansOK


-----------------------------------------------------------------------------
(* The calls keep to the plan *)

\* A handler and the calls it still has to make.
Handling(h, info, calls) ==
    /\ rpc[h].pc = "calls" /\ ValidSystemInfoRequest(rpc[h].req)
    /\ info = rpc[h].req.info[1] /\ calls = rpc[h].calls
    /\ calls # <<>> /\ CallsOK(calls) /\ PlanOK(info, calls)
    /\ KeysDiffer(Components(info))

LEMMA HandlerHasPlan ==
    ASSUME TypeInv, DistinctKeys, PlansOK, NEW h \in Rpc, rpc[h].pc = "calls"
    PROVE  Handling(h, rpc[h].req.info[1], rpc[h].calls)
<1>1. /\ rpc[h].req \in Requests /\ rpc[h].calls # <<>> /\ CallsOK(rpc[h].calls)
    BY DEF TypeInv, HandlersOK, HandlerOK
<1>2. ValidSystemInfoRequest(rpc[h].req) /\ PlanOK(rpc[h].req.info[1], rpc[h].calls)
    BY DEF PlansOK
<1>3. KeysDiffer(Components(rpc[h].req.info[1]))
    BY <1>1, <1>2 DEF DistinctKeys, ValidSystemInfoRequest
<1> QED BY <1>1, <1>2, <1>3 DEF Handling

\* A call is made, and returns or fails.
LEMMA CallIsMade ==
    ASSUME TypeInv, OneHandler, InventoryStep, NEW h \in Rpc, NEW info, NEW calls,
           Handling(h, info, calls), Head(calls) # Refused, NEW more, IsList(more),
           \A x \in Range(more) : x.op # "create" /\ Due(info, x)',
           \A c \in comps' : c.id = created + 1 =>
              Head(calls).op = "create" /\ c.kind = Head(calls).kind
                                        /\ c.key = Head(calls).item.key,
           \A todo, rest : AllDone(info, todo) /\ Keeps(todo, Head(calls), rest)
                           /\ Range(more) \subseteq rest /\ Refused \notin rest
              => AllDone(info, rest)',
           Proceed(h, more \o Tail(calls)) \/ Fail(h)
    PROVE  PlansOK'
<1>1. PlanOK(info, more \o Tail(calls))'
    BY PlanGoesOn DEF TypeInv, Handling, CallsOK
<1> QED BY <1>1, PlansAfterProceed, PlansAfterFail DEF TypeInv, Handling

\* A call that adds nothing to the plan, and no component.
LEMMA CallIsDone ==
    ASSUME TypeInv, OneHandler, InventoryStep, NEW h \in Rpc, NEW info, NEW calls,
           Handling(h, info, calls), Head(calls) # Refused,
           \A c \in comps' : c.id # created + 1,
           \A todo, rest : AllDone(info, todo) /\ Keeps(todo, Head(calls), rest)
              => AllDone(info, rest)',
           Proceed(h, Tail(calls)) \/ Fail(h)
    PROVE  PlansOK'
<1>1. IsList(<<>>) /\ \A x : x \notin Range(<<>>)
    BY ShortLists
<1>2. <<>> \o Tail(calls) = Tail(calls)
  <2>1. IsList(Tail(calls))
    BY ListTail DEF Handling, CallsOK
  <2> QED BY <2>1 DEF IsList
<1>3. Proceed(h, <<>> \o Tail(calls)) \/ Fail(h)
    BY <1>2
<1> QED BY <1>1, <1>3, CallIsMade

LEMMA PlansAfterReadHost ==
    ASSUME TypeInv, OneHandler, DistinctKeys, ReportInv, NEW h \in Rpc, ReadHost(h)
    PROVE  PlansOK'
<1>1. CASE ~(ValidSystemInfoRequest(rpc[h].req) /\ host.admitted)
    BY <1>1, PlansAfterFail DEF ReadHost, TypeInv
<1>2. CASE ValidSystemInfoRequest(rpc[h].req) /\ host.admitted
  <2>1. PICK info, calls : info = rpc[h].req.info[1] /\ calls = CallsOf(info)
    OBVIOUS
  <2>2. rpc[h].req \in Requests
    BY DEF TypeInv, HandlersOK, HandlerOK, ReadHost
  <2>3. ListsOK(Components(info)) /\ KeysDiffer(Components(info))
    BY <1>2, <2>1, <2>2, ReportHasLists DEF DistinctKeys, ValidSystemInfoRequest
  <2>4. PlanOK(info, calls)
    BY <2>1, <2>3, ReadPlan DEF TypeInv, ReportInv
  <2>5. InventoryOK /\ InventoryStep /\ host' = host /\ comps' = comps /\ ips' = ips
    BY DEF ReadHost, inventory, InventoryStep, SameInventory, TypeInv
  <2>6. PlanOK(info, calls)'
    BY <2>4, <2>5, PlanStays, SameAddressesCases
  <2>7. Proceed(h, calls)
    BY <1>2, <2>1 DEF ReadHost
  <2> QED BY <1>2, <2>1, <2>6, <2>7, PlansAfterProceed DEF TypeInv
<1> QED BY <1>1, <1>2

LEMMA PlansAfterWriteHost ==
    ASSUME TypeInv, OneHandler, NEW h \in Rpc, WriteHost(h), NEW info, NEW calls,
           Handling(h, info, calls)
    PROVE  PlansOK'
<1>1. PICK call : call = Head(calls)
    OBVIOUS
<1>2. /\ call.op = "host" /\ call # Refused /\ (Proceed(h, Tail(calls)) \/ Fail(h))
      /\ host' = [host EXCEPT !.fields = call.fields] /\ UNCHANGED <<comps, ips, created>>
    BY <1>1 DEF WriteHost, Calling, Call, Rest, Returns, Handling, Refused
<1>3. Due(info, call)
    BY <1>1, ListTail DEF Handling, CallsOK, PlanOK
<1>4. InventoryOK /\ InventoryStep /\ host'.fields = HostFields(info)
    BY <1>2, <1>3 DEF InventoryStep, HostWritten, TypeInv, InventoryOK, Due
<1>5. ASSUME NEW todo, NEW rest, AllDone(info, todo), Keeps(todo, call, rest)
      PROVE  AllDone(info, rest)'
    BY <1>2, <1>4, <1>5, AllDoneKept, SameAddressesCases
<1>6. \A c \in comps' : c.id # created + 1
    BY <1>2, <1>4, InventorySteps
<1>7. \A todo, rest : AllDone(info, todo) /\ Keeps(todo, call, rest) => AllDone(info, rest)'
    BY <1>5
<1> QED BY <1>1, <1>2, <1>4, <1>6, <1>7, CallIsDone

LEMMA PlansAfterUpdateAddress ==
    ASSUME TypeInv, OneHandler, NEW h \in Rpc, UpdateAddress(h), NEW info, NEW calls,
           Handling(h, info, calls)
    PROVE  PlansOK'
<1>1. PICK call : call = Head(calls)
    OBVIOUS
<1>2. /\ call.op = "updateAddress" /\ call # Refused /\ (Proceed(h, Tail(calls)) \/ Fail(h))
      /\ UNCHANGED <<host, comps, created>>
    BY <1>1 DEF UpdateAddress, Calling, Call, Rest, Returns, Handling, Refused
<1>3. AddressUpdated(call.id, "configured") /\ "configured" \in Statuses
    BY <1>1 DEF UpdateAddress, AddressUpdated, Call, Handling, Statuses
<1>4. InventoryOK /\ InventoryStep
    BY <1>3 DEF InventoryStep, TypeInv
<1>5. ASSUME NEW todo, NEW rest, AllDone(info, todo), Keeps(todo, call, rest)
      PROVE  AllDone(info, rest)'
    BY <1>2, <1>3, <1>4, <1>5, AllDoneKept, SameAddressesCases
<1>6. \A c \in comps' : c.id # created + 1
    BY <1>2, <1>4, InventorySteps
<1>7. \A todo, rest : AllDone(info, todo) /\ Keeps(todo, call, rest) => AllDone(info, rest)'
    BY <1>5
<1> QED BY <1>1, <1>2, <1>4, <1>6, <1>7, CallIsDone

LEMMA PlansAfterUpdate ==
    ASSUME TypeInv, OneHandler, NEW h \in Rpc, Update(h), NEW info, NEW calls,
           Handling(h, info, calls)
    PROVE  PlansOK'
<1>1. PICK call : call = Head(calls)
    OBVIOUS
<1>2. /\ call.op = "update" /\ call # Refused /\ (Proceed(h, Tail(calls)) \/ Fail(h))
      /\ ComponentUpdated(call.id, call.val)
    BY <1>1 DEF Update, Calling, Call, Rest, Returns, Handling, Refused, ComponentUpdated
<1>3. UpdateIsDue(Components(info), call)
  <2>1. Due(info, call)
    BY <1>1, ListTail DEF Handling, CallsOK, PlanOK
  <2> QED BY <1>2, <2>1 DEF Due
<1>4. InventoryOK /\ InventoryStep /\ KeysDiffer(Components(info))
    BY <1>2 DEF InventoryStep, TypeInv, Handling
<1>5. ASSUME NEW todo, NEW rest, AllDone(info, todo), Keeps(todo, call, rest)
      PROVE  AllDone(info, rest)'
    BY <1>2, <1>3, <1>4, <1>5, AllDoneAfterUpdate
<1>6. \A c \in comps' : c.id # created + 1
    BY <1>2, <1>4 DEF ComponentUpdated, InventoryOK, ComponentOK
<1>7. \A todo, rest : AllDone(info, todo) /\ Keeps(todo, call, rest) => AllDone(info, rest)'
    BY <1>5
<1> QED BY <1>1, <1>2, <1>4, <1>6, <1>7, CallIsDone

LEMMA PlansAfterDelete ==
    ASSUME TypeInv, OneHandler, NEW h \in Rpc, Delete(h), NEW info, NEW calls,
           Handling(h, info, calls)
    PROVE  PlansOK'
<1>1. PICK call : call = Head(calls)
    OBVIOUS
<1>2. CASE \E ip \in ips : ip.nic = call.id
    BY <1>1, <1>2, PlansAfterFail DEF Delete, Call, Handling, TypeInv
<1>3. CASE ~\E ip \in ips : ip.nic = call.id
  <2>1. /\ call.op = "delete" /\ call # Refused /\ (Proceed(h, Tail(calls)) \/ Fail(h))
        /\ ComponentDropped(call.id)
    BY <1>1, <1>3 DEF Delete, Calling, Call, Rest, Returns, Handling, Refused, ComponentDropped
  <2>2. DeleteIsDue(Components(info), call)
    <3>1. Due(info, call)
        BY <1>1, ListTail DEF Handling, CallsOK, PlanOK
    <3> QED BY <2>1, <3>1 DEF Due
  <2>3. InventoryOK /\ InventoryStep
    BY <2>1 DEF InventoryStep, TypeInv
  <2>4. ASSUME NEW todo, NEW rest, AllDone(info, todo), Keeps(todo, call, rest)
        PROVE  AllDone(info, rest)'
    BY <2>1, <2>2, <2>3, <2>4, AllDoneAfterDelete
  <2>5. \A c \in comps' : c.id # created + 1
    BY <2>1, <2>3, InventorySteps DEF ComponentDropped
  <2>6. \A todo, rest : AllDone(info, todo) /\ Keeps(todo, call, rest) => AllDone(info, rest)'
    BY <2>4
  <2> QED BY <1>1, <2>1, <2>3, <2>5, <2>6, CallIsDone
<1> QED BY <1>2, <1>3


\* A NIC that was created goes on with its addresses.
LEMMA PlansAfterCreate ==
    ASSUME TypeInv, OneHandler, NEW h \in Rpc, Create(h), NEW info, NEW calls,
           Handling(h, info, calls)
    PROVE  PlansOK'
<1>1. PICK call, more : /\ call = Head(calls)
                        /\ more = Addresses(call.kind, created + 1, call.item)
    OBVIOUS
<1>2. /\ call.op = "create" /\ call # Refused
      /\ (Proceed(h, more \o Tail(calls)) \/ Fail(h))
      /\ ComponentAdded(call.kind, call.item)
    BY <1>1 DEF Create, Calling, Call, Rest, Returns, Handling, Refused, ComponentAdded
<1>3. call \in Range(calls) /\ CallOK(call) /\ Due(info, call)
    BY <1>1, ListTail DEF Handling, CallsOK, PlanOK
<1>4. call.kind \in Kinds /\ CreateIsDue(Components(info), call)
    BY <1>2, <1>3 DEF CallOK, Due
<1>5. InventoryOK /\ InventoryStep
    BY <1>2, <1>4 DEF InventoryStep, TypeInv
<1>6. /\ IsList(more)
      /\ \A x : x \in Range(more)
                   <=> call.kind = "nic" /\ x = AddressesCall(created + 1, call.item.ips)
    BY <1>1, AddressesOfItem
<1>7. ASSUME NEW c \in comps', c.id = created + 1
      PROVE  c.kind = call.kind /\ c.key = call.item.key
    BY <1>2, <1>5, <1>7, InventorySteps DEF ComponentAdded, Component
<1>8. ASSUME NEW x \in Range(more) PROVE x.op # "create" /\ Due(info, x)'
  <2>1. call.kind = "nic" /\ x = AddressesCall(created + 1, call.item.ips)
    BY <1>6, <1>8
  <2>2. x.op = "addresses" /\ x.nic = created + 1 /\ x.list = call.item.ips
    BY <2>1 DEF AddressesCall
  <2>3. x.nic \in Id'
    BY <1>2, <1>5, <2>2, InventorySteps DEF ComponentAdded, Id
  <2>4. PICK k \in DOMAIN Components(info).nic : call.item = Components(info).nic[k]
    BY <1>4, <2>1 DEF CreateIsDue
  <2>5. AddressesAreDue(Components(info), x)'
    BY <1>7, <2>1, <2>2, <2>3, <2>4 DEF AddressesAreDue
  <2> QED BY <2>2, <2>5 DEF Due
<1>9. ASSUME NEW todo, NEW rest, AllDone(info, todo), Keeps(todo, call, rest),
             Range(more) \subseteq rest
      PROVE  AllDone(info, rest)'
    BY <1>2, <1>4, <1>5, <1>6, <1>9, AllDoneAfterCreate
<1>10. \A todo, rest : AllDone(info, todo) /\ Keeps(todo, call, rest)
                       /\ Range(more) \subseteq rest /\ Refused \notin rest
          => AllDone(info, rest)'
    BY <1>9
<1> QED BY <1>1, <1>2, <1>5, <1>6, <1>7, <1>8, <1>10, CallIsMade

\* What the addresses of a NIC of the report are to be.
LEMMA NeededAddresses ==
    ASSUME NEW parts, KeysDiffer(parts), NEW c, c.kind = "nic", NEW k \in DOMAIN parts.nic,
           parts.nic[k].key = c.key, NEW key
    PROVE  Needed(parts, c, key) <=> key \in KeysOf(parts.nic[k].ips)
    BY DEF Needed, KeysDiffer, Kinds

\* The calls for the addresses of a NIC are due.
LEMMA ListedAreDue ==
    ASSUME InventoryOK, NEW info, KeysDiffer(Components(info)), NEW call,
           call.op = "addresses", AddressesAreDue(Components(info), call), IsList(call.list),
           NEW x \in Range(AddressCalls(call.nic, call.list, {ip \in ips : ip.nic = call.nic}))
    PROVE  x.op # "create" /\ Due(info, x)
<1> DEFINE parts == Components(info)
           known == {ip \in ips : ip.nic = call.nic}
<1>1. IsFiniteSet(known)
    BY InventoryIsFinite, FS_Subset
<1>2. \/ x = Refused
      \/ \E k \in DOMAIN call.list : x = CreateAddressCall(call.nic, call.list[k].key)
      \/ \E id : x = UpdateAddressCall(id)
      \/ \E ip \in known : (\A k \in DOMAIN call.list : call.list[k].key # ip.key)
                           /\ x = DeleteAddressCall(ip.id)
    BY <1>1, AddressPlan
<1>3. CASE x = Refused \/ \E id : x = UpdateAddressCall(id)
    BY <1>3 DEF Due, Refused, UpdateAddressCall
<1>4. ASSUME NEW k \in DOMAIN call.list, x = CreateAddressCall(call.nic, call.list[k].key)
      PROVE  x.op # "create" /\ Due(info, x)
  <2>1. x.op = "createAddress" /\ x.nic = call.nic /\ x.key = call.list[k].key
    BY <1>4 DEF CreateAddressCall
  <2>2. ASSUME NEW c \in comps, c.id = call.nic PROVE Needed(parts, c, x.key)
    <3>1. c.kind = "nic"
        BY <2>2 DEF AddressesAreDue
    <3>2. DOMAIN <<>> = {}
        OBVIOUS
    <3>3. PICK j \in DOMAIN parts.nic : parts.nic[j].key = c.key /\ call.list = parts.nic[j].ips
        BY <2>2, <3>2 DEF AddressesAreDue
    <3>4. x.key \in KeysOf(parts.nic[j].ips)
        BY <2>1, <3>3 DEF KeysOf
    <3> QED BY <3>1, <3>3, <3>4 DEF Needed
  <2>3. CreateAddressIsDue(parts, x)
    BY <2>1, <2>2 DEF CreateAddressIsDue, AddressesAreDue
  <2> QED BY <2>1, <2>3 DEF Due
<1>5. ASSUME NEW ip \in known, \A k \in DOMAIN call.list : call.list[k].key # ip.key,
             x = DeleteAddressCall(ip.id)
      PROVE  x.op # "create" /\ Due(info, x)
  <2>1. x.op = "deleteAddress" /\ x.id = ip.id
    BY <1>5 DEF DeleteAddressCall
  <2>2. ip.id \in Id /\ \A other \in ips : other.id = ip.id => other = ip
    BY DEF InventoryOK, AddressOK, Id
  <2>3. ASSUME NEW c \in comps, c.id = ip.nic PROVE ~Needed(parts, c, ip.key)
    <3>1. c.id = call.nic /\ c.kind = "nic"
        BY <2>3 DEF AddressesAreDue
    <3>2. CASE ~Reported(parts, c)
        BY <3>1, <3>2 DEF Reported, Needed, KeysOf
    <3>3. CASE Reported(parts, c)
      <4>1. PICK j \in DOMAIN parts.nic : parts.nic[j].key = c.key /\ call.list = parts.nic[j].ips
        BY <3>1, <3>3 DEF AddressesAreDue
      <4>2. ip.key \notin KeysOf(parts.nic[j].ips)
        BY <1>5, <4>1 DEF KeysOf
      <4> QED BY <3>1, <4>1, <4>2, NeededAddresses
    <3> QED BY <3>2, <3>3
  <2>4. DeleteAddressIsDue(parts, x)
    BY <2>1, <2>2, <2>3 DEF DeleteAddressIsDue
  <2> QED BY <2>1, <2>4 DEF Due
<1> QED BY <1>2, <1>3, <1>4, <1>5

LEMMA PlansAfterListAddresses ==
    ASSUME TypeInv, OneHandler, NEW h \in Rpc, ListAddresses(h), NEW info, NEW calls,
           Handling(h, info, calls)
    PROVE  PlansOK'
<1>1. PICK call : call = Head(calls)
    OBVIOUS
<1>2. PICK known : known = {ip \in ips : ip.nic = call.nic}
    OBVIOUS
<1>3. PICK more : more = AddressCalls(call.nic, call.list, known)
    OBVIOUS
<1>4. /\ call.op = "addresses" /\ call # Refused
      /\ Proceed(h, more \o Tail(calls))
      /\ host' = host /\ comps' = comps /\ ips' = ips /\ created' = created
    BY <1>1, <1>2, <1>3
    DEF ListAddresses, Calling, Call, Rest, Handling, Refused, inventory
<1>5. call \in Range(calls) /\ CallOK(call) /\ Due(info, call)
    BY <1>1, ListTail DEF Handling, CallsOK, PlanOK
<1>6. IsList(call.list) /\ AddressesAreDue(Components(info), call) /\ KeysDiffer(Components(info))
    BY <1>4, <1>5 DEF CallOK, Due, Handling
<1>7. InventoryOK /\ InventoryStep /\ IsFiniteSet(known)
    BY <1>2, <1>4, InventoryIsFinite, FS_Subset DEF InventoryStep, SameInventory, inventory, TypeInv
<1>8. /\ IsList(more)
      /\ \A ip \in known : (\A k \in DOMAIN call.list : call.list[k].key # ip.key)
            => DeleteAddressCall(ip.id) \in Range(more)
      /\ Refused \notin Range(more) =>
            \A k \in DOMAIN call.list :
               \/ \E ip \in known : ip.key = call.list[k].key
               \/ CreateAddressCall(call.nic, call.list[k].key) \in Range(more)
    BY <1>3, <1>6, <1>7, AddressPlan
<1>9. ASSUME NEW x \in Range(more) PROVE x.op # "create" /\ Due(info, x)'
  <2>1. x.op # "create" /\ Due(info, x)
    BY <1>2, <1>3, <1>4, <1>6, <1>7, ListedAreDue
  <2> QED BY <1>7, <2>1, DueStaysDue
<1>10. ASSUME NEW todo, NEW rest, AllDone(info, todo), Keeps(todo, call, rest),
              Range(more) \subseteq rest, Refused \notin rest
       PROVE  AllDone(info, rest)'
  <2>1. ASSUME NEW ip \in ips, ip.nic = call.nic, ip.key \notin KeysOf(call.list)
        PROVE  DeleteAddressCall(ip.id) \in rest
    BY <1>2, <1>8, <1>10, <2>1 DEF KeysOf
  <2>2. ASSUME NEW k \in DOMAIN call.list
        PROVE  \/ \E ip \in ips : ip.nic = call.nic /\ ip.key = call.list[k].key
               \/ CreateAddressCall(call.nic, call.list[k].key) \in rest
    BY <1>2, <1>8, <1>10, <2>2
  <2>3. \A nic, list : AddressesDone(nic, list, todo) => AddressesDone(nic, list, rest)'
    BY <1>4, <1>10, <2>1, <2>2, AddressesDoneAfterList
  <2>4. call.op \in AddressOps
    BY <1>4 DEF AddressOps
  <2> QED BY <1>4, <1>7, <1>10, <2>3, <2>4, AllDoneAfterAddressCall
<1>11. \A todo, rest : AllDone(info, todo) /\ Keeps(todo, call, rest)
                       /\ Range(more) \subseteq rest /\ Refused \notin rest
          => AllDone(info, rest)'
    BY <1>10
<1>12. \A c \in comps' : c.id # created + 1
    BY <1>4, <1>7, InventorySteps
<1> QED BY <1>1, <1>4, <1>7, <1>8, <1>9, <1>11, <1>12, CallIsMade

LEMMA PlansAfterCreateAddress ==
    ASSUME TypeInv, OneHandler, NEW h \in Rpc, CreateAddress(h), NEW info, NEW calls,
           Handling(h, info, calls)
    PROVE  PlansOK'
<1>1. PICK call : call = Head(calls)
    OBVIOUS
<1>2. CASE ~\E c \in comps : c.id = call.nic
    BY <1>1, <1>2, PlansAfterFail DEF CreateAddress, Call, Handling, TypeInv
<1>3. CASE \E c \in comps : c.id = call.nic
  <2>1. /\ call.op = "createAddress" /\ call # Refused /\ (Proceed(h, Tail(calls)) \/ Fail(h))
        /\ UNCHANGED <<host, comps>>
    BY <1>1, <1>3 DEF CreateAddress, Calling, Call, Rest, Returns, Handling, Refused
  <2>2. AddressAdded(call.nic, call.key, "configured")
    BY <1>1, <1>3 DEF CreateAddress, Call, Handling, AddressAdded
  <2>3. CreateAddressIsDue(Components(info), call) /\ KeysDiffer(Components(info))
    <3>1. Due(info, call)
        BY <1>1, ListTail DEF Handling, CallsOK, PlanOK
    <3> QED BY <2>1, <3>1 DEF Due, Handling
  <2>4. call.nic \in 0 .. created /\ "configured" \in Statuses
    BY <1>3 DEF TypeInv, InventoryOK, ComponentOK, Statuses
  <2>5. InventoryOK /\ InventoryStep
    BY <2>2, <2>4 DEF InventoryStep, TypeInv
  <2>6. ASSUME NEW todo, NEW rest, AllDone(info, todo), Keeps(todo, call, rest)
        PROVE  AllDone(info, rest)'
    <3>1. ASSUME NEW k \in DOMAIN Components(info).nic, NEW c \in comps, c.kind = "nic",
                 c.key = Components(info).nic[k].key,
                 AddressesDone(c.id, Components(info).nic[k].ips, todo)
          PROVE  AddressesDone(c.id, Components(info).nic[k].ips, rest)'
      <4>1. c.id = call.nic => call.key \in KeysOf(Components(info).nic[k].ips)
        BY <2>3, <3>1, NeededAddresses DEF CreateAddressIsDue
      <4> QED BY <2>1, <2>2, <2>6, <3>1, <4>1, AddressesDoneAfterCreate
    <3>2. call.op \in AddressOps
        BY <2>1 DEF AddressOps
    <3> QED BY <2>1, <2>5, <2>6, <3>1, <3>2, AllDoneAfterAddressCall
  <2>7. \A todo, rest : AllDone(info, todo) /\ Keeps(todo, call, rest) => AllDone(info, rest)'
    BY <2>6
  <2>8. \A c \in comps' : c.id # created + 1
    BY <2>1, <2>5, InventorySteps
  <2> QED BY <1>1, <2>1, <2>5, <2>7, <2>8, CallIsDone
<1> QED BY <1>2, <1>3

LEMMA PlansAfterDeleteAddress ==
    ASSUME TypeInv, OneHandler, NEW h \in Rpc, DeleteAddress(h), NEW info, NEW calls,
           Handling(h, info, calls)
    PROVE  PlansOK'
<1>1. PICK call : call = Head(calls)
    OBVIOUS
<1>2. /\ call.op = "deleteAddress" /\ call # Refused /\ (Proceed(h, Tail(calls)) \/ Fail(h))
      /\ AddressDropped(call.id)
    BY <1>1 DEF DeleteAddress, Calling, Call, Rest, Returns, Handling, Refused, AddressDropped
<1>3. DeleteAddressIsDue(Components(info), call)
  <2>1. Due(info, call)
    BY <1>1, ListTail DEF Handling, CallsOK, PlanOK
  <2> QED BY <1>2, <2>1 DEF Due
<1>4. InventoryOK /\ InventoryStep /\ UNCHANGED <<host, comps>>
    BY <1>2 DEF InventoryStep, TypeInv, AddressDropped
<1>5. ASSUME NEW todo, NEW rest, AllDone(info, todo), Keeps(todo, call, rest)
      PROVE  AllDone(info, rest)'
  <2>1. ASSUME NEW k \in DOMAIN Components(info).nic, NEW c \in comps, c.kind = "nic",
               c.key = Components(info).nic[k].key,
               AddressesDone(c.id, Components(info).nic[k].ips, todo)
        PROVE  AddressesDone(c.id, Components(info).nic[k].ips, rest)'
    <3>1. \A ip \in ips : ip.id = call.id /\ ip.nic = c.id
             => ip.key \notin KeysOf(Components(info).nic[k].ips)
        BY <1>3, <2>1 DEF DeleteAddressIsDue, Needed
    <3> QED BY <1>2, <1>5, <2>1, <3>1, AddressesDoneAfterDelete
  <2>2. call.op \in AddressOps
    BY <1>2 DEF AddressOps
  <2> QED BY <1>4, <1>5, <2>1, <2>2, AllDoneAfterAddressCall
<1>6. \A todo, rest : AllDone(info, todo) /\ Keeps(todo, call, rest) => AllDone(info, rest)'
    BY <1>5
<1>7. \A c \in comps' : c.id # created + 1
    BY <1>4, InventorySteps
<1> QED BY <1>1, <1>2, <1>4, <1>6, <1>7, CallIsDone


LEMMA PlansAfterHandle ==
    ASSUME TypeInv, OneHandler, DistinctKeys, ReportInv, NEW h \in Rpc, Handle(h)
    PROVE  PlansOK'
<1>1. CASE ReadHost(h)
    BY <1>1, PlansAfterReadHost
<1>2. CASE RefuseItem(h)
    BY <1>2, PlansAfterFail DEF RefuseItem, TypeInv
<1>3. CASE ~ReadHost(h)
  <2>1. rpc[h].pc = "calls"
    BY <1>3 DEF Handle, RefuseItem, WriteHost, Create, Update, Delete, ListAddresses, CreateAddress,
                UpdateAddress, DeleteAddress, Calling
  <2>2. PICK info, calls : Handling(h, info, calls)
    BY <2>1, HandlerHasPlan DEF ReportInv
  <2> QED BY <1>2, <1>3, <2>2, PlansAfterWriteHost, PlansAfterCreate, PlansAfterUpdate,
             PlansAfterDelete, PlansAfterListAddresses, PlansAfterCreateAddress,
             PlansAfterUpdateAddress, PlansAfterDeleteAddress DEF Handle
<1> QED BY <1>1, <1>3

\* The steps of the others leave a plan what it is.
LEMMA PlansStay ==
    ASSUME TypeInv, PlansOK, InventoryStep, rpc' = rpc, host'.fields = host.fields,
           comps' = comps, \A c \in comps : SameAddresses(c.id)
    PROVE  PlansOK'
<1> SUFFICES ASSUME NEW h \in Rpc, rpc[h].pc \in {"calls", "answered"}
             PROVE  PlanOK(rpc[h].req.info[1], rpc[h].calls)'
    BY DEF PlansOK
<1>1. PICK info, calls : info = rpc[h].req.info[1] /\ calls = rpc[h].calls
    OBVIOUS
<1>2. PlanOK(info, calls)
    BY <1>1 DEF PlansOK
<1>3. PlanOK(info, calls)'
    BY <1>2, PlanStays DEF TypeInv
<1> QED BY <1>1, <1>3

LEMMA PlansAreKept ==
    ASSUME TypeInv, OneHandler, DistinctKeys, ReportInv, [Next]_vars
    PROVE  PlansOK'
<1>1. InventoryOK /\ InventoryStep /\ PlansOK
    BY NextWritesInventory DEF TypeInv, ReportInv
<1>2. ASSUME UNCHANGED <<host, comps, ips>>, rpc' = rpc PROVE PlansOK'
    BY <1>1, <1>2, PlansStay, SameAddressesCases
<1>3. CASE HostStep
  <2>1. ASSUME NEW h \in Rpc, Send(h) PROVE PlansOK'
    <3>1. \A k \in Rpc : k = h /\ rpc'[k].pc = "sent"
        BY <2>1 DEF TypeInv, HandlersOK, OneHandler, Send
    <3> QED BY <3>1 DEF PlansOK
  <2>2. ASSUME NEW h \in Rpc, CallFails(h) PROVE PlansOK'
    BY <2>2, PlansAfterFail DEF CallFails, TypeInv
  <2>3. CASE ChangeHardware
    BY <1>2, <2>3 DEF ChangeHardware, inventory
  <2>4. CASE ChangeHost
    <3>1. /\ rpc' = rpc /\ comps' = comps /\ ips' = ips
          /\ host' = [host EXCEPT !.admitted = ~@]
        BY <2>4 DEF ChangeHost
    <3>2. host'.fields = host.fields
        BY <3>1 DEF TypeInv, InventoryOK
    <3> QED BY <1>1, <3>1, <3>2, PlansStay, SameAddressesCases
  <2> QED BY <1>3, <2>1, <2>2, <2>3, <2>4, PlansAfterHandle DEF HostStep, HostNext
<1>4. CASE EnterAddress
  <2>1. PICK key : ips' = ips \cup {[id |-> created + 1, nic |-> NoNic, key |-> key,
                                     status |-> "unspecified"]}
    BY <1>4 DEF EnterAddress
  <2>2. AddressAdded(NoNic, key, "unspecified") /\ rpc' = rpc /\ host' = host /\ comps' = comps
    BY <1>4, <2>1 DEF EnterAddress, AddressAdded
  <2>3. \A c \in comps : c.id # NoNic
    BY DEF NoNic, TypeInv, InventoryOK, ComponentOK
  <2>4. \A c \in comps : SameAddresses(c.id)
    BY <1>1, <2>2, <2>3, SameAddressesCases
  <2> QED BY <1>1, <2>2, <2>4, PlansStay
<1>5. CASE LoseNotice \/ HandleEvent \/ ReconcileAll \/ GetIPAddress \/ ListInSite \/ Restart
    BY <1>2, <1>5 DEF LoseNotice, HandleEvent, ReconcileAll, GetIPAddress, ListInSite, Restart,
                      hostVars, inventory
<1>6. CASE UpdateStatusAndState
  <2> DEFINE old == {ip \in ips : ip.id = nm.id}
             written == (ips \ old) \cup {[ip EXCEPT !.status = nm.status] : ip \in old}
  <2>1. ips' \in {ips, written} /\ UNCHANGED <<host, comps, created, rpc>>
    BY <1>6 DEF UpdateStatusAndState
  <2>2. CASE ips' = ips
    BY <1>2, <2>1, <2>2
  <2>3. CASE ips' = written
    <3>1. AddressUpdated(nm.id, nm.status)
        BY <2>1, <2>3 DEF AddressUpdated
    <3>2. \A c \in comps : SameAddresses(c.id)
        BY <1>1, <3>1, SameAddressesCases
    <3> QED BY <1>1, <2>1, <3>2, PlansStay
  <2> QED BY <2>1, <2>2, <2>3
<1>7. CASE UNCHANGED vars
    BY <1>2, <1>7 DEF vars, hostVars
<1> QED BY <1>3, <1>4, <1>5, <1>6, <1>7 DEF Next, Work

\* Only the call that creates a component adds one.
LEMMA OthersAddNoComponent ==
    ASSUME TypeInv, [Next]_vars, ~\E h \in Rpc : Create(h)
    PROVE  \A c \in comps' : \E d \in comps : c.kind = d.kind /\ c.id = d.id /\ c.key = d.key
<1>1. InventoryOK /\ InventoryStep
    BY NextWritesInventory DEF TypeInv
<1>2. CASE comps' = comps
    BY <1>2
<1>3. ASSUME NEW h \in Rpc, Update(h)
      PROVE  \A c \in comps' : c.id # created + 1
  <2>1. ComponentUpdated(Call(h).id, Call(h).val)
    BY <1>3 DEF Update, ComponentUpdated
  <2> QED BY <1>1, <2>1 DEF ComponentUpdated, InventoryOK, ComponentOK
<1>4. ASSUME NEW h \in Rpc, Delete(h)
      PROVE  \A c \in comps' : c.id # created + 1
  <2>1. comps' \subseteq comps
    BY <1>4 DEF Delete
  <2> QED BY <1>1, <2>1, InventorySteps
<1>5. CASE ~\E h \in Rpc : Update(h) \/ Delete(h)
  <2>1. CASE HostStep
    BY <1>2, <1>5, <2>1 DEF HostStep, HostNext, Send, CallFails, ChangeHardware, ChangeHost,
            Handle, ReadHost, RefuseItem, WriteHost, ListAddresses, CreateAddress, UpdateAddress,
            DeleteAddress, inventory
  <2>2. CASE ~HostStep
    BY <1>2, <2>2 DEF Next, EnterAddress, LoseNotice, HandleEvent, ReconcileAll, Work, GetIPAddress,
            ListInSite, UpdateStatusAndState, Restart, vars, hostVars, inventory
  <2> QED BY <2>1, <2>2
<1> QED BY <1>1, <1>3, <1>4, <1>5, InventorySteps

\* What is created is not there yet.
LEMMA ComponentsStayUnique ==
    ASSUME TypeInv, OneHandler, DistinctKeys, ReportInv, [Next]_vars
    PROVE  OneComponentPerKey'
<1>1. InventoryOK /\ InventoryOK' /\ InventoryStep
    BY NextWritesInventory, InventoryStepIsTyped DEF TypeInv
<1>2. CASE ~\E h \in Rpc : Create(h)
  <2> SUFFICES ASSUME NEW c \in comps', NEW d \in comps', c.kind = d.kind, c.key = d.key
               PROVE  c = d
    BY DEF OneComponentPerKey
  <2>1. PICK x \in comps : c.kind = x.kind /\ c.id = x.id /\ c.key = x.key
    BY <1>2, OthersAddNoComponent
  <2>2. PICK y \in comps : d.kind = y.kind /\ d.id = y.id /\ d.key = y.key
    BY <1>2, OthersAddNoComponent
  <2>3. x = y
    BY <2>1, <2>2 DEF ReportInv, OneComponentPerKey
  <2> QED BY <1>1, <2>1, <2>2, <2>3 DEF InventoryOK
<1>3. ASSUME NEW h \in Rpc, Create(h) PROVE OneComponentPerKey'
  <2>1. PICK info, calls : Handling(h, info, calls)
    BY <1>3, HandlerHasPlan DEF ReportInv, Create, Calling
  <2>2. PICK call : call = Head(calls)
    OBVIOUS
  <2>3. call = Call(h) /\ call.op = "create"
    BY <1>3, <2>1, <2>2 DEF Create, Calling, Call, Handling
  <2>4. CreateIsDue(Components(info), call)
    <3>1. Due(info, call)
        BY <2>1, <2>2, ListTail DEF Handling, CallsOK, PlanOK
    <3> QED BY <2>3, <3>1 DEF Due
  <2>5. comps' = comps \cup {Component(call.kind, created + 1, call.item)}
    BY <1>3, <2>3 DEF Create
  <2>6. \A c \in comps : c.kind = call.kind => c.key # call.item.key
    BY <2>4 DEF CreateIsDue, Loaded
  <2>7. PICK new : new = Component(call.kind, created + 1, call.item)
    OBVIOUS
  <2>8. new.kind = call.kind /\ new.key = call.item.key
    BY <2>7 DEF Component
  <2> QED BY <2>5, <2>6, <2>7, <2>8 DEF ReportInv, OneComponentPerKey
<1> QED BY <1>2, <1>3

LEMMA ReportInvIsInductive ==
    ASSUME OneHandler, DistinctKeys
    PROVE  TypeInv /\ ReportInv /\ [Next]_vars => ReportInv'
    BY PlansAreKept, ComponentsStayUnique DEF ReportInv

LEMMA InitHasNoPlan == Init => ReportInv
    BY DEF Init, HostInit, ReportInv, OneComponentPerKey, PlansOK, Idle

\* When no call is left everything is done.
LEMMA ReportInvImpliesStored ==
    ASSUME TypeInv, ReportInv
    PROVE  AnsweredIsStored
<1> SUFFICES ASSUME NEW h \in Rpc, rpc[h].pc = "answered" PROVE Stored(rpc[h].req.info[1])
    BY DEF AnsweredIsStored
<1> DEFINE info == rpc[h].req.info[1]
           parts == Components(info)
<1>1. Range(<<>>) = {}
    BY ShortLists
<1>2. AllDone(info, {})
    BY <1>1 DEF ReportInv, PlansOK, PlanOK
<1> HIDE DEF info
<1>3. host.fields = HostFields(info)
    BY <1>2 DEF AllDone, HostDone
<1>4. \A c \in comps : Reported(parts, c)
    BY <1>2 DEF AllDone, RestDropped
<1>5. ASSUME NEW kind \in Kinds PROVE StoredKind(kind, parts[kind])
  <2> DEFINE items == parts[kind]
  <2>1. ASSUME NEW k \in DOMAIN items
        PROVE  \E c \in Loaded(kind) :
                  /\ c.key = items[k].key
                  /\ c.val = items[k].val
                  /\ kind = "nic"
                        => {ip.key : ip \in {i \in ips : i.nic = c.id}} = KeysOf(items[k].ips)
    <3>1. PICK c \in comps : ItemDoneBy(c, kind, items[k], {})
        BY <1>2 DEF AllDone, ItemsDone, ItemDone
    <3>2. c \in Loaded(kind) /\ c.key = items[k].key /\ c.val = items[k].val
        BY <3>1 DEF ItemDoneBy, Loaded
    <3>3. kind = "nic" => AddressesDone(c.id, items[k].ips, {})
        BY <3>1 DEF ItemDoneBy
    <3>4. kind = "nic" => {ip.key : ip \in {i \in ips : i.nic = c.id}} = KeysOf(items[k].ips)
        BY <3>3 DEF AddressesDone, KeysOf
    <3> QED BY <3>2, <3>4
  <2>2. {c.key : c \in Loaded(kind)} = KeysOf(items)
    <3>1. ASSUME NEW c \in Loaded(kind) PROVE c.key \in KeysOf(items)
        BY <1>4 DEF Loaded, Reported
    <3>2. ASSUME NEW key \in KeysOf(items) PROVE \E c \in Loaded(kind) : c.key = key
      <4>1. PICK k \in DOMAIN items : key = items[k].key
        BY DEF KeysOf
      <4> QED BY <2>1, <4>1
    <3> QED BY <3>1, <3>2
  <2> QED BY <2>1, <2>2 DEF StoredKind
<1> QED BY <1>3, <1>5 DEF Stored, Kinds, info

-----------------------------------------------------------------------------
\* As long as reports are handled one at a time, and none has a component twice,
\* no component is ever stored twice: not after calls that failed or were applied
\* although they failed, and not while both managers and operators write.
THEOREM ComponentsAreUnique ==
    ASSUME OneHandler, DistinctKeys
    PROVE  Spec => []OneComponentPerKey
<1>1. TypeInv /\ TypeInv' /\ ReportInv /\ [Next]_vars => ReportInv'
    BY ReportInvIsInductive
<1>2. ReportInv => OneComponentPerKey
    BY DEF ReportInv
<1> QED BY <1>1, <1>2, TypeInvHolds, InitHasNoPlan, PTL DEF Spec

\* Under the same conditions a report that was answered without an error is what
\* Inventory holds, with the addresses of every NIC, and nothing else.
THEOREM AnswersAreStored ==
    ASSUME OneHandler, DistinctKeys
    PROVE  Spec => []AnsweredIsStored
<1>1. TypeInv /\ TypeInv' /\ ReportInv /\ [Next]_vars => ReportInv'
    BY ReportInvIsInductive
<1>2. TypeInv /\ ReportInv => AnsweredIsStored
    BY ReportInvImpliesStored
<1> QED BY <1>1, <1>2, TypeInvHolds, InitHasNoPlan, PTL DEF Spec

=============================================================================
