--------------------------- MODULE UpdateAdviceProofs ---------------------------
(***************************************************************************)
(* Proofs about UpdateAdvice, for every set of images, schedules and       *)
(* policies: type correctness; the schedule that is answered is a closest  *)
(* one; and the policy LATEST never leads back.                            *)
(*                                                                         *)
(* The last one rests on two facts: the order of image versions is strict  *)
(* and transitive, and the search for the latest image keeps an image      *)
(* that precedes none of those it has seen, in whatever order it sees them.*)
(***************************************************************************)
EXTENDS UpdateAdvice, NaturalsInduction, WellFoundedInduction, FiniteSetTheorems,
        SequenceTheorems, TLAPS

-----------------------------------------------------------------------------
(* Least elements and numbers *)

\* A set of naturals that is not empty has a least element.
LEMMA LeastNat ==
    ASSUME NEW T, T \subseteq Nat, T # {}
    PROVE  \E x \in T : \A y \in T : x =< y
<1> DEFINE R == {p \in Nat \X Nat : p[1] < p[2]}
<1>1. IsWellFoundedOn(R, Nat)
    BY NatLessThanWellFounded, Zenon DEF OpToRel
<1> HIDE DEF R
<1>2. PICK x \in T : \A y \in T : ~(<<y, x>> \in R)
  <2>1. \E x \in T : \A y \in T : ~(<<y, x>> \in R)
    BY <1>1, WFMin, Zenon
  <2> QED BY <2>1, Zenon
<1>3. ASSUME NEW y \in T PROVE x =< y
  <2>1. x \in Nat /\ y \in Nat
    OBVIOUS
  <2>2. y < x => <<y, x>> \in R
    BY <2>1 DEF R
  <2> QED BY <1>2, <2>1, <2>2
<1> QED BY <1>2, <1>3

\* The function by which Value reads the first n digits of a part.
Reads(value, part, n) ==
    value = [k \in 0 .. n |-> IF k = 0 THEN 0 ELSE 10 * value[k - 1] + part[k]]

\* There is one: the first number of digits without one would have one.
LEMMA ReadsExists ==
    ASSUME NEW part \in Seq(0 .. 9), NEW n \in 0 .. Len(part)
    PROVE  \E value \in [0 .. n -> Nat] : Reads(value, part, n)
<1> DEFINE T == {m \in 0 .. Len(part) : ~\E value \in [0 .. m -> Nat] : Reads(value, part, m)}
<1>1. SUFFICES ASSUME T # {} PROVE FALSE
    OBVIOUS
<1>2. T \subseteq Nat
    OBVIOUS
<1>3. PICK m \in T : \A y \in T : m =< y
    BY <1>1, <1>2, LeastNat
<1>4. m # 0
  <2>1. [k \in 0 .. 0 |-> 0] \in [0 .. 0 -> Nat]
    OBVIOUS
  <2>2. Reads([k \in 0 .. 0 |-> 0], part, 0)
    BY DEF Reads
  <2> QED BY <2>1, <2>2
<1>5. m - 1 \in 0 .. Len(part) /\ m - 1 \notin T
  <2>1. m \in 0 .. Len(part) /\ Len(part) \in Nat
    OBVIOUS
  <2>2. m - 1 \in 0 .. Len(part) /\ ~(m =< m - 1)
    BY <2>1, <1>4
  <2> QED BY <2>2, <1>3
<1>6. PICK value \in [0 .. m - 1 -> Nat] : Reads(value, part, m - 1)
    BY <1>5
<1> DEFINE longer == [k \in 0 .. m |-> IF k = m THEN 10 * value[m - 1] + part[m] ELSE value[k]]
<1>7. longer \in [0 .. m -> Nat]
  <2>1. m \in 1 .. Len(part) /\ Len(part) \in Nat
    BY <1>4
  <2>2. part[m] \in 0 .. 9 /\ value[m - 1] \in Nat
    BY <2>1
  <2>3. 10 * value[m - 1] + part[m] \in Nat
    BY <2>2
  <2>4. ASSUME NEW k \in 0 .. m, k # m PROVE value[k] \in Nat
    BY <2>1, <2>4
  <2> QED BY <2>3, <2>4
<1>8. ASSUME NEW k \in 0 .. m
      PROVE  longer[k] = IF k = 0 THEN 0 ELSE 10 * longer[k - 1] + part[k]
  <2>1. CASE k = m
    BY <2>1, <1>4
  <2>2. CASE k # m
    <3>1. k \in 0 .. m - 1
        BY <2>2
    <3>2. value[k] = IF k = 0 THEN 0 ELSE 10 * value[k - 1] + part[k]
        BY <3>1, <1>6 DEF Reads
    <3>3. longer[k] = value[k] /\ (k # 0 => longer[k - 1] = value[k - 1])
        BY <3>1
    <3> QED BY <3>2, <3>3
  <2> QED BY <2>1, <2>2
<1>9. Reads(longer, part, m)
    BY <1>7, <1>8 DEF Reads
<1> QED BY <1>7, <1>9, <1>3

\* The number that a part without other characters reads as is a natural.
LEMMA ValueNat ==
    ASSUME NEW part \in Seq(0 .. 9)
    PROVE  Value(part) \in Nat
<1> DEFINE value == CHOOSE v : Reads(v, part, Len(part))
<1>1. PICK v \in [0 .. Len(part) -> Nat] : Reads(v, part, Len(part))
    BY ReadsExists
<1>2. Reads(value, part, Len(part))
    BY <1>1
<1>3. Value(part) = value[Len(part)]
    BY DEF Value, Reads
<1> HIDE DEF value
<1> DEFINE T == {k \in 0 .. Len(part) : value[k] \notin Nat}
<1>4. SUFFICES ASSUME T # {} PROVE FALSE
    BY <1>3
<1>5. PICK m \in T : \A y \in T : m =< y
  <2>1. T \subseteq Nat
    OBVIOUS
  <2> QED BY <1>4, <2>1, LeastNat
<1>6. value[m] = IF m = 0 THEN 0 ELSE 10 * value[m - 1] + part[m]
    BY <1>2 DEF Reads
<1>7. m # 0
    BY <1>6
<1>8. value[m - 1] \in Nat /\ part[m] \in 0 .. 9
  <2>1. m \in 1 .. Len(part) /\ Len(part) \in Nat
    BY <1>7
  <2>2. m - 1 \in 0 .. Len(part) /\ ~(m =< m - 1)
    BY <2>1
  <2>3. m - 1 \notin T
    BY <2>2, <1>5
  <2> QED BY <2>1, <2>2, <2>3
<1> QED BY <1>6, <1>7, <1>8

-----------------------------------------------------------------------------
(* The order of image versions *)

\* Lexical, with the order of the elements as a set of pairs.
LexicalIn(R, s, t) ==
    \E k \in DOMAIN t :
        /\ \A j \in 1 .. k - 1 : j \in DOMAIN s /\ s[j] = t[j]
        /\ k \in DOMAIN s => <<s[k], t[k]>> \in R

Irreflexive(R, S) == \A x \in S : <<x, x>> \notin R

Transitive(R, S) ==
    \A x, y, z \in S : <<x, y>> \in R /\ <<y, z>> \in R => <<x, z>> \in R

\* Sequences are not before themselves if no element is.
LEMMA LexicalIrreflexive ==
    ASSUME NEW S, NEW R, Irreflexive(R, S), NEW s \in Seq(S)
    PROVE  ~LexicalIn(R, s, s)
<1>1. ASSUME NEW k \in DOMAIN s PROVE <<s[k], s[k]>> \notin R
  <2>1. s[k] \in S
    OBVIOUS
  <2> QED BY <2>1 DEF Irreflexive
<1> QED BY <1>1 DEF LexicalIn

\* The lexical order is transitive if that of the elements is: of the two
\* places that decide the smaller one decides.
LEMMA LexicalTransitive ==
    ASSUME NEW S, NEW R, Transitive(R, S),
           NEW s \in Seq(S), NEW t \in Seq(S), NEW u \in Seq(S),
           LexicalIn(R, s, t), LexicalIn(R, t, u)
    PROVE  LexicalIn(R, s, u)
<1>1. PICK k \in DOMAIN t :
          /\ \A j \in 1 .. k - 1 : j \in DOMAIN s /\ s[j] = t[j]
          /\ k \in DOMAIN s => <<s[k], t[k]>> \in R
    BY DEF LexicalIn
<1>2. PICK m \in DOMAIN u :
          /\ \A j \in 1 .. m - 1 : j \in DOMAIN t /\ t[j] = u[j]
          /\ m \in DOMAIN t => <<t[m], u[m]>> \in R
    BY DEF LexicalIn
<1>3. /\ DOMAIN s = 1 .. Len(s) /\ DOMAIN t = 1 .. Len(t) /\ DOMAIN u = 1 .. Len(u)
      /\ Len(s) \in Nat /\ Len(t) \in Nat /\ Len(u) \in Nat
    BY LenProperties
<1>4. k \in Int /\ m \in Int /\ k >= 1 /\ m >= 1
    BY <1>3
<1>5. CASE k < m
  <2>1. k \in DOMAIN u /\ t[k] = u[k]
    BY <1>2, <1>3, <1>4, <1>5
  <2>2. \A j \in 1 .. k - 1 : j \in DOMAIN s /\ s[j] = u[j]
    BY <1>1, <1>2, <1>3, <1>4, <1>5
  <2> QED BY <1>1, <2>1, <2>2 DEF LexicalIn
<1>6. CASE k = m
  <2>1. \A j \in 1 .. m - 1 : j \in DOMAIN s /\ s[j] = u[j]
    BY <1>1, <1>2, <1>6
  <2>2. m \in DOMAIN s => <<s[m], u[m]>> \in R
    <3>1. SUFFICES ASSUME m \in DOMAIN s PROVE <<s[m], u[m]>> \in R
        OBVIOUS
    <3>2. <<s[m], t[m]>> \in R /\ <<t[m], u[m]>> \in R
        BY <3>1, <1>1, <1>2, <1>6
    <3>3. s[m] \in S /\ t[m] \in S /\ u[m] \in S
        BY <3>1, <1>1, <1>2, <1>6
    <3> QED BY <3>2, <3>3 DEF Transitive
  <2> QED BY <2>1, <2>2 DEF LexicalIn
<1>7. CASE m < k
  <2>1. m \in DOMAIN s /\ s[m] = t[m] /\ m \in DOMAIN t
    BY <1>1, <1>3, <1>4, <1>7
  <2>2. \A j \in 1 .. m - 1 : j \in DOMAIN s /\ s[j] = u[j]
    BY <1>1, <1>2, <1>3, <1>4, <1>7
  <2> QED BY <1>2, <2>1, <2>2 DEF LexicalIn
<1> QED BY <1>4, <1>5, <1>6, <1>7

SmallerPairs == {p \in Nat \X Nat : p[1] < p[2]}

LEMMA LexicalSmaller ==
    ASSUME NEW s \in Seq(Nat), NEW t \in Seq(Nat)
    PROVE  Lexical(s, t, Smaller) <=> LexicalIn(SmallerPairs, s, t)
<1>1. \A k \in DOMAIN t : k \in DOMAIN s =>
          (s[k] < t[k] <=> <<s[k], t[k]>> \in SmallerPairs)
    BY DEF SmallerPairs
<1> QED BY <1>1 DEF Lexical, LexicalIn, Smaller

LEMMA SmallerOrder == Irreflexive(SmallerPairs, Nat) /\ Transitive(SmallerPairs, Nat)
BY DEF Irreflexive, Transitive, SmallerPairs

\* What a part of a prerelease may be.
Identifier == {PrereleasePart(part) : part \in Part}

IsText(i) == i.build \/ i.digits = NotANumber

LEMMA IdentifierType ==
    ASSUME NEW i \in Identifier
    PROVE  /\ i.build \in BOOLEAN
           /\ i.digits # NotANumber => i.digits \in Seq(0 .. 9) /\ i.digits \in Seq(Nat)
           /\ i.build => i.digits # NotANumber
<1>1. PICK part \in Part : i = PrereleasePart(part)
    BY DEF Identifier
<1>2. i.build = (Len(part) > 1 /\ part[1] = 0) /\ i.digits = part
    BY <1>1 DEF PrereleasePart
<1>3. part = NotANumber => ~i.build
  <2>1. Len(NotANumber) = 1
    BY DEF NotANumber
  <2>2. ASSUME part = NotANumber PROVE ~(Len(part) > 1)
    <3>1. Len(part) = 1
        BY <2>1, <2>2, Zenon
    <3> QED BY <3>1
  <2> QED BY <1>2, <2>2, Zenon
<1>4. part # NotANumber => part \in Seq(0 .. 9)
    BY DEF Part
<1>5. Seq(0 .. 9) \subseteq Seq(Nat)
    BY SeqMonotonic, 0 .. 9 \subseteq Nat
<1> QED BY <1>2, <1>3, <1>4, <1>5

\* The three kinds of identifiers: numbers, texts with "build", other texts.
LEMMA IdentifierCases ==
    ASSUME NEW i \in Identifier, NEW j \in Identifier
    PROVE  IdentifierLess(i, j) <=>
              \/ ~IsText(i) /\ ~IsText(j) /\ Value(i.digits) < Value(j.digits)
              \/ i.build /\ j.build /\ LexicalIn(SmallerPairs, i.digits, j.digits)
              \/ ~IsText(i) /\ IsText(j)
              \/ i.build /\ IsText(j) /\ ~j.build
<1>1. i.build /\ j.build =>
          (Lexical(i.digits, j.digits, Smaller) <=> LexicalIn(SmallerPairs, i.digits, j.digits))
    BY IdentifierType, LexicalSmaller
<1> QED BY <1>1, IdentifierType DEF IdentifierLess, IsText

IdentifierPairs == {p \in Identifier \X Identifier : IdentifierLess(p[1], p[2])}

LEMMA LexicalIdentifier ==
    ASSUME NEW s \in Seq(Identifier), NEW t \in Seq(Identifier)
    PROVE  Lexical(s, t, IdentifierLess) <=> LexicalIn(IdentifierPairs, s, t)
<1>1. \A k \in DOMAIN t : k \in DOMAIN s =>
          (IdentifierLess(s[k], t[k]) <=> <<s[k], t[k]>> \in IdentifierPairs)
    BY DEF IdentifierPairs
<1> QED BY <1>1 DEF Lexical, LexicalIn

LEMMA IdentifierOrder ==
    Irreflexive(IdentifierPairs, Identifier) /\ Transitive(IdentifierPairs, Identifier)
<1>1. ASSUME NEW i \in Identifier PROVE ~IdentifierLess(i, i)
  <2>1. i.build => ~LexicalIn(SmallerPairs, i.digits, i.digits)
    BY IdentifierType, SmallerOrder, LexicalIrreflexive
  <2>2. ~IsText(i) => Value(i.digits) \in Nat
    BY IdentifierType, ValueNat DEF IsText
  <2> QED BY <2>1, <2>2, IdentifierCases, IdentifierType DEF IsText
<1>2. ASSUME NEW i \in Identifier, NEW j \in Identifier, NEW k \in Identifier,
             IdentifierLess(i, j), IdentifierLess(j, k)
      PROVE  IdentifierLess(i, k)
  <2>1. \A n \in {i, j, k} : ~IsText(n) => Value(n.digits) \in Nat
    BY IdentifierType, ValueNat DEF IsText
  <2>2. ASSUME i.build, j.build, k.build,
               LexicalIn(SmallerPairs, i.digits, j.digits),
               LexicalIn(SmallerPairs, j.digits, k.digits)
        PROVE  LexicalIn(SmallerPairs, i.digits, k.digits)
    <3>1. i.digits \in Seq(Nat) /\ j.digits \in Seq(Nat) /\ k.digits \in Seq(Nat)
        BY <2>2, IdentifierType
    <3> QED BY <2>2, <3>1, SmallerOrder, LexicalTransitive
  <2>3. \A n \in {i, j, k} : n.build => IsText(n)
    BY DEF IsText
  <2> HIDE DEF IsText
  <2> QED BY <1>2, <2>1, <2>2, <2>3, IdentifierCases
<1> QED BY <1>1, <1>2 DEF Irreflexive, Transitive, IdentifierPairs

\* Core and prerelease of a version that can be compared.
LEMMA ComparableParts ==
    ASSUME NEW v \in Seq(Part), Comparable(v)
    PROVE  /\ Core(v) \in Seq(Nat)
           /\ Prerelease(v) \in Seq(Identifier)
<1>1. Len(v) \in Nat /\ Len(v) >= 3
    BY DEF Comparable, semverCoreSegments
<1>2. Core(v) \in Seq(Nat)
  <2>1. ASSUME NEW k \in 1 .. 3 PROVE Value(v[k]) \in Nat
    <3>1. v[k] \in Part /\ v[k] # NotANumber
        BY <1>1 DEF Comparable, semverCoreSegments
    <3>2. v[k] \in Seq(0 .. 9)
        BY <3>1 DEF Part
    <3> QED BY <3>2, ValueNat
  <2> QED BY <2>1 DEF Core, semverCoreSegments
<1>3. Prerelease(v) \in Seq(Identifier)
  <2> DEFINE parts == SubSeq(v, 4, Len(v))
  <2>1. parts \in Seq(Part)
    BY <1>1, SubSeqProperties, LenProperties
  <2> HIDE DEF parts
  <2>2. Prerelease(v) \in {<<>>, [k \in DOMAIN parts |-> PrereleasePart(parts[k])]}
    BY DEF Prerelease, semverCoreSegments, parts
  <2>3. \A k \in DOMAIN parts : PrereleasePart(parts[k]) \in Identifier
    BY <2>1 DEF Identifier
  <2>4. [k \in DOMAIN parts |-> PrereleasePart(parts[k])] \in Seq(Identifier)
    BY <2>1, <2>3
  <2>5. <<>> \in Seq(Identifier)
    OBVIOUS
  <2> QED BY <2>2, <2>4, <2>5, Zenon
<1> QED BY <1>2, <1>3

LEMMA PrecedesIrreflexive ==
    ASSUME NEW v \in Seq(Part), Comparable(v)
    PROVE  ~Precedes(v, v)
<1>1. ~Lexical(Core(v), Core(v), Smaller)
    BY ComparableParts, LexicalSmaller, SmallerOrder, LexicalIrreflexive
<1>2. ~Lexical(Prerelease(v), Prerelease(v), IdentifierLess)
    BY ComparableParts, LexicalIdentifier, IdentifierOrder, LexicalIrreflexive
<1> QED BY <1>1, <1>2 DEF Precedes

\* The order of the versions that can be compared is transitive.
LEMMA PrecedesTransitive ==
    ASSUME NEW u \in Seq(Part), NEW v \in Seq(Part), NEW w \in Seq(Part),
           Comparable(u), Comparable(v), Comparable(w),
           Precedes(u, v), Precedes(v, w)
    PROVE  Precedes(u, w)
<1>1. /\ Core(u) \in Seq(Nat) /\ Core(v) \in Seq(Nat) /\ Core(w) \in Seq(Nat)
      /\ Prerelease(u) \in Seq(Identifier)
      /\ Prerelease(v) \in Seq(Identifier)
      /\ Prerelease(w) \in Seq(Identifier)
    BY ComparableParts
<1>2. ASSUME Lexical(Core(u), Core(v), Smaller), Lexical(Core(v), Core(w), Smaller)
      PROVE  Lexical(Core(u), Core(w), Smaller)
    BY <1>1, <1>2, LexicalSmaller, SmallerOrder, LexicalTransitive
<1>3. ASSUME Lexical(Prerelease(u), Prerelease(v), IdentifierLess),
             Lexical(Prerelease(v), Prerelease(w), IdentifierLess)
      PROVE  Lexical(Prerelease(u), Prerelease(w), IdentifierLess)
    BY <1>1, <1>3, LexicalIdentifier, IdentifierOrder, LexicalTransitive
<1> QED BY <1>2, <1>3 DEF Precedes

-----------------------------------------------------------------------------
(* The latest image *)

\* The function by which GetLatest has looked at the first n of an order.
Looks(latest, order, n) ==
    latest = [k \in 0 .. n |->
        IF k = 0 THEN NoOS
        ELSE IF \/ latest[k - 1] = NoOS
                \/ CompareImageVersions(stock[order[k]], stock[latest[k - 1]])
             THEN order[k] ELSE latest[k - 1]]

\* There is one, and it stays among the resources.
LEMMA LooksExists ==
    ASSUME NEW N \in Nat, NEW order \in [1 .. N -> 1 .. N], NEW n \in 0 .. N
    PROVE  \E latest \in [0 .. n -> 0 .. N] : Looks(latest, order, n)
<1> DEFINE T == {m \in 0 .. N : ~\E latest \in [0 .. m -> 0 .. N] : Looks(latest, order, m)}
<1>1. SUFFICES ASSUME T # {} PROVE FALSE
    OBVIOUS
<1>2. T \subseteq Nat
    OBVIOUS
<1>3. PICK m \in T : \A y \in T : m =< y
    BY <1>1, <1>2, LeastNat
<1>4. m # 0
  <2>1. [k \in 0 .. 0 |-> NoOS] \in [0 .. 0 -> 0 .. N]
    BY DEF NoOS
  <2>2. Looks([k \in 0 .. 0 |-> NoOS], order, 0)
    BY DEF Looks
  <2> QED BY <2>1, <2>2
<1>5. m - 1 \in 0 .. N /\ m - 1 \notin T
  <2>1. m \in 0 .. N
    OBVIOUS
  <2>2. m - 1 \in 0 .. N /\ ~(m =< m - 1)
    BY <2>1, <1>4
  <2> QED BY <2>2, <1>3
<1>6. PICK latest \in [0 .. m - 1 -> 0 .. N] : Looks(latest, order, m - 1)
    BY <1>5
<1> DEFINE next ==
        IF \/ latest[m - 1] = NoOS
           \/ CompareImageVersions(stock[order[m]], stock[latest[m - 1]])
        THEN order[m] ELSE latest[m - 1]
<1> DEFINE longer == [k \in 0 .. m |-> IF k = m THEN next ELSE latest[k]]
<1>7. next \in 0 .. N
  <2>1. order[m] \in 0 .. N /\ latest[m - 1] \in 0 .. N
    BY <1>4
  <2> QED BY <2>1
<1>8. longer \in [0 .. m -> 0 .. N]
  <2>1. ASSUME NEW k \in 0 .. m, k # m PROVE latest[k] \in 0 .. N
    BY <2>1
  <2> HIDE DEF next
  <2> QED BY <1>7, <2>1
<1>9. ASSUME NEW k \in 0 .. m
      PROVE  longer[k] =
                IF k = 0 THEN NoOS
                ELSE IF \/ longer[k - 1] = NoOS
                        \/ CompareImageVersions(stock[order[k]], stock[longer[k - 1]])
                     THEN order[k] ELSE longer[k - 1]
  <2>1. CASE k = m
    <3>1. longer[k] = next /\ longer[k - 1] = latest[m - 1]
        BY <2>1, <1>4
    <3> QED BY <3>1, <2>1, <1>4
  <2>2. CASE k # m
    <3>1. k \in 0 .. m - 1
        BY <2>2
    <3>2. latest[k] =
             IF k = 0 THEN NoOS
             ELSE IF \/ latest[k - 1] = NoOS
                     \/ CompareImageVersions(stock[order[k]], stock[latest[k - 1]])
                  THEN order[k] ELSE latest[k - 1]
        BY <3>1, <1>6 DEF Looks
    <3>3. longer[k] = latest[k] /\ (k # 0 => longer[k - 1] = latest[k - 1])
        BY <3>1
    <3> HIDE DEF longer
    <3> QED BY <3>2, <3>3
  <2> QED BY <2>1, <2>2
<1>10. Looks(longer, order, m)
  <2> HIDE DEF longer
  <2> SUFFICES longer = [k \in 0 .. m |-> 
                IF k = 0 THEN NoOS
                ELSE IF \/ longer[k - 1] = NoOS
                        \/ CompareImageVersions(stock[order[k]], stock[longer[k - 1]])
                     THEN order[k] ELSE longer[k - 1]]
    BY DEF Looks
  <2> QED BY <1>8, <1>9
<1> QED BY <1>8, <1>10, <1>3

\* What GetLatest returns for an order: a resource, and one that precedes none
\* of the stock if it can be compared.
LEMMA GetLatestSound ==
    ASSUME stock \in Seq(Seq(Part)) \ {<<>>}, NEW order \in Orders
    PROVE  /\ GetLatest(order) \in DOMAIN stock
           /\ \A k \in DOMAIN stock :
                 ~CompareImageVersions(stock[k], stock[GetLatest(order)])
<1> DEFINE N == Len(stock)
           latest == CHOOSE f : Looks(f, order, N)
<1>1. DOMAIN stock = 1 .. N /\ N \in Nat /\ N > 0
    OBVIOUS
<1>2. order \in [1 .. N -> 1 .. N] /\ IsInjective(order) /\ Len(order) = N
  <2>1. order \in [1 .. N -> 1 .. N] /\ IsInjective(order)
    BY <1>1 DEF Orders
  <2> QED BY <2>1, <1>1
<1>2a. \A k \in 1 .. N : stock[k] \in Seq(Part)
    BY <1>1
<1> HIDE DEF N
<1>3. PICK f \in [0 .. N -> 0 .. N] : Looks(f, order, N)
  <2>1. N \in 0 .. N
    BY <1>1
  <2> QED BY <2>1, <1>1, <1>2, LooksExists
<1>4. Looks(latest, order, N)
    BY <1>3
<1>5. GetLatest(order) = latest[N]
    BY <1>2 DEF GetLatest, Looks, N
<1> HIDE DEF latest
<1>6. ASSUME NEW k \in 0 .. N
      PROVE  latest[k] = IF k = 0 THEN NoOS
                         ELSE IF \/ latest[k - 1] = NoOS
                                 \/ CompareImageVersions(stock[order[k]], stock[latest[k - 1]])
                              THEN order[k] ELSE latest[k - 1]
    BY <1>4 DEF Looks
<1> DEFINE Good(k) ==
        /\ latest[k] \in 1 .. N
        /\ \A j \in 1 .. k : ~CompareImageVersions(stock[order[j]], stock[latest[k]])
<1> DEFINE T == {k \in 1 .. N : ~Good(k)}
<1>7. \A k \in 1 .. N : Good(k)
  <2>1. SUFFICES ASSUME T # {} PROVE FALSE
    OBVIOUS
  <2>2. T \subseteq Nat
    BY <1>1
  <2>3. PICK m \in T : \A y \in T : m =< y
    BY <2>1, <2>2, LeastNat
  <2>4. m \in 1 .. N /\ m \in 0 .. N /\ order[m] \in 1 .. N
    <3>1. m \in 1 .. N
        OBVIOUS
    <3>2. order[m] \in 1 .. N
        BY <1>2, <3>1
    <3> QED BY <1>1, <3>1, <3>2
  <2>5. \A k \in 1 .. N : stock[k] \in Seq(Part) /\ order[k] \in 1 .. N
    BY <1>2, <1>2a
  <2>6. ~CompareImageVersions(stock[order[m]], stock[order[m]])
    BY <2>4, <2>5, PrecedesIrreflexive DEF CompareImageVersions
  <2>7. CASE m = 1
    <3>1. latest[0] = NoOS
        BY <1>6, <1>1
    <3>2. latest[m] = order[m]
        BY <1>6, <2>4, <2>7, <3>1
    <3>3. Good(m)
        BY <2>4, <2>6, <2>7, <3>2
    <3> QED BY <3>3
  <2>8. CASE m # 1
    <3>1. m - 1 \in 1 .. N /\ ~(m =< m - 1)
        BY <2>4, <2>8, <1>1
    <3>2. Good(m - 1)
        BY <3>1, <2>3
    <3>3. latest[m - 1] # NoOS
        BY <3>2, <1>1 DEF NoOS
    <3> DEFINE new == stock[order[m]]
               old == stock[latest[m - 1]]
    <3>4. old \in Seq(Part)
        BY <3>2, <2>5
    <3>5. CASE CompareImageVersions(new, old)
      <4>1. latest[m] = order[m]
        BY <1>6, <2>4, <3>5
      <4>2. ASSUME NEW j \in 1 .. m - 1, CompareImageVersions(stock[order[j]], new)
            PROVE  FALSE
        <5>1. stock[order[j]] \in Seq(Part)
          <6>1. j \in 1 .. N
            BY <2>4, <1>1
          <6> QED BY <6>1, <2>5
        <5>2. Precedes(old, stock[order[j]])
            BY <5>1, <2>4, <2>5, <3>4, <3>5, <4>2, PrecedesTransitive DEF CompareImageVersions
        <5>3. CompareImageVersions(stock[order[j]], old)
            BY <5>2, <3>5, <4>2 DEF CompareImageVersions
        <5> QED BY <5>3, <3>2
      <4>3. \A j \in 1 .. m : j \in 1 .. m - 1 \/ j = m
        BY <2>4
      <4>4. Good(m)
        BY <4>1, <4>2, <4>3, <2>4, <2>6
      <4> QED BY <4>4
    <3>6. CASE ~CompareImageVersions(new, old)
      <4>1. latest[m] = latest[m - 1]
        BY <1>6, <2>4, <2>8, <3>3, <3>6
      <4>2. \A j \in 1 .. m : j \in 1 .. m - 1 \/ j = m
        BY <2>4
      <4>3. Good(m)
        BY <4>1, <4>2, <3>2, <3>6
      <4> QED BY <4>3
    <3> QED BY <3>5, <3>6
  <2> QED BY <2>7, <2>8
<1>8. order \in Surjection(1 .. N, 1 .. N)
  <2>1. IsFiniteSet(1 .. N)
    BY <1>1, FS_Interval
  <2>2. order \in Injection(1 .. N, 1 .. N)
    BY <1>2 DEF IsInjective, Injection
  <2> QED BY <2>1, <2>2, FS_Injection
<1>9. ASSUME NEW k \in DOMAIN stock PROVE ~CompareImageVersions(stock[k], stock[latest[N]])
  <2>1. \E j \in 1 .. N : order[j] = k
    BY <1>1, <1>8 DEF Surjection
  <2> QED BY <2>1, <1>1, <1>7
<1> QED BY <1>1, <1>5, <1>7, <1>9

-----------------------------------------------------------------------------
(* Type correctness *)

\* What a handler carries, the schedules and the policy are what somebody chose.
TypeInv ==
    /\ TypeOK
    /\ schedule \in Schedules
    /\ policy \in Policies /\ policy.target \in DOMAIN stock \cup {NoOS}
    /\ rpc.pc \in {"plan", "write"} => rpc.type \in StatusTypes
    /\ rpc.pc = "plan" => rpc.os \in DOMAIN stock
    /\ rpc.pc = "advise" =>
          rpc.policy \in Policies /\ rpc.policy.target \in DOMAIN stock \cup {NoOS}

LEMMA LatestInStock ==
    ASSUME TypeInv, NEW os \in Latest
    PROVE  os \in DOMAIN stock
<1>1. stock \in Seq(Seq(Part)) \ {<<>>}
  <2>1. Seq(Images) \subseteq Seq(Seq(Part))
    BY UpdateAdviceAssumption, SeqMonotonic
  <2> QED BY <2>1 DEF TypeInv, TypeOK
<1> QED BY <1>1, GetLatestSound DEF Latest

\* At most one single schedule is answered.
LEMMA ClosestLength ==
    ASSUME NEW singles, NEW t
    PROVE  Len(GetClosestSingleSchedule(singles, t)) =< 1
<1> DEFINE closest == GetClosestSingleSchedule(singles, t)
<1>1. closest = <<>> \/ \E s : closest = <<s>>
    BY Zenon DEF GetClosestSingleSchedule
<1> HIDE DEF closest
<1>2. Len(closest) =< 1
  <2>1. CASE closest = <<>>
    BY <2>1
  <2>2. CASE \E s : closest = <<s>>
    <3>1. PICK s : closest = <<s>>
        BY <2>2
    <3>2. Len(<<s>>) = 1
        OBVIOUS
    <3> QED BY <3>1, <3>2
  <2> QED BY <1>1, <2>1, <2>2
<1> QED BY <1>2 DEF closest

\* What TypeInv says of the handler.
HandlerOK ==
    /\ rpc.pc \in {"idle", "plan", "write", "schedule", "policy", "advise"}
    /\ rpc.pc = "write" => {rpc.os, rpc.available} \subseteq DOMAIN stock \cup {NoOS}
    /\ rpc.pc \in {"policy", "advise"} => Len(rpc.schedule.single) =< 1
    /\ rpc.pc \in {"plan", "write"} => rpc.type \in StatusTypes
    /\ rpc.pc = "plan" => rpc.os \in DOMAIN stock
    /\ rpc.pc = "advise" =>
          rpc.policy \in Policies /\ rpc.policy.target \in DOMAIN stock \cup {NoOS}

\* A step of the handler alone keeps the types if it leaves the handler right.
LEMMA HandlerAlone ==
    ASSUME TypeInv, UNCHANGED <<world, instance, agent>>, HandlerOK'
    PROVE  TypeInv'
BY DEF TypeInv, TypeOK, HandlerOK, world

LEMMA TypeInitially == Init => TypeInv
<1> SUFFICES ASSUME Init PROVE TypeInv
    OBVIOUS
<1>1. stock \in Seq(Images) \ {<<>>} /\ DOMAIN stock = {1}
  <2>1. PICK image \in Images : stock = <<image>>
    BY DEF Init
  <2>2. <<image>> \in Seq(Images) /\ Len(<<image>>) = 1 /\ DOMAIN <<image>> = 1 .. 1
    OBVIOUS
  <2> QED BY <2>1, <2>2
<1>2. policy \in Policies /\ policy.target \in DOMAIN stock \cup {NoOS}
    BY <1>1 DEF Init
<1> QED BY <1>1, <1>2 DEF Init, TypeInv, TypeOK, Idle, NoAdvice, StatusTypes

LEMMA HandleKeepsType ==
    ASSUME TypeInv, Handle \/ Failures
    PROVE  TypeInv'
<1>1. CASE Receive
    BY <1>1 DEF Receive, Continue, world, TypeInv, TypeOK
<1>2. CASE PlanUpdate
  <2>1. PICK os \in Latest :
           IF \/ Updated /\ rpc.os = rpc.read.os
              \/ rpc.type = rpc.read.type /\ Offer(os) = NoOS
           THEN Continue([pc |-> "schedule"])
           ELSE Continue([pc |-> "write", type |-> rpc.type, available |-> Offer(os),
                          os |-> IF Updated THEN rpc.os ELSE NoOS])
    BY <1>2 DEF PlanUpdate
  <2>2. Offer(os) \in DOMAIN stock \cup {NoOS}
    BY LatestInStock DEF Offer
  <2>3. rpc.pc = "plan" /\ UNCHANGED <<world, instance, agent>>
    BY <1>2 DEF PlanUpdate
  <2>4. rpc.type \in StatusTypes /\ rpc.os \in DOMAIN stock
    BY <2>3 DEF TypeInv
  <2>5. HandlerOK'
    BY <2>1, <2>2, <2>3, <2>4 DEF Continue, HandlerOK, world
  <2> QED BY <2>3, <2>5, HandlerAlone
<1>3. CASE UpdateInstance
    BY <1>3 DEF UpdateInstance, Continue, world, TypeInv, TypeOK
<1>4. CASE ReadSchedules
  <2>1. PICK now \in Times :
          LET single == GetClosestSingleSchedule(schedule.single, now)
          IN  rpc' \in {Idle, [pc |-> "policy", now |-> now,
                              schedule |-> [single |-> single, repeated |-> schedule.repeated]],
                       [pc |-> "policy", now |-> now,
                              schedule |-> [single |-> single, repeated |-> <<>>]]}
    BY <1>4 DEF ReadSchedules, Continue, Return
  <2>2. UNCHANGED <<world, instance, agent>>
    BY <1>4 DEF ReadSchedules
  <2>3. Len(GetClosestSingleSchedule(schedule.single, now)) =< 1
    BY ClosestLength
  <2>4. HandlerOK'
    BY <2>1, <2>3 DEF Idle, HandlerOK
  <2> QED BY <2>2, <2>4, HandlerAlone
<1>5. CASE ReadPolicy
  <2>1. \/ rpc' = Idle
        \/ rpc' = [pc |-> "advise", schedule |-> rpc.schedule, policy |-> policy]
    BY <1>5 DEF ReadPolicy, Continue, Return
  <2>2. rpc.pc = "policy" /\ UNCHANGED <<world, instance, agent>>
    BY <1>5 DEF ReadPolicy
  <2>3. /\ Len(rpc.schedule.single) =< 1
        /\ policy \in Policies /\ policy.target \in DOMAIN stock \cup {NoOS}
    BY <2>2 DEF TypeInv, TypeOK
  <2>4. HandlerOK'
    BY <2>1, <2>2, <2>3 DEF HandlerOK, Idle, world
  <2> QED BY <2>2, <2>4, HandlerAlone
<1>6. CASE Advise
  <2> DEFINE Advices == [kernel : {FALSE}, os : DOMAIN stock \cup {NoOS}]
                        \cup [kernel : {TRUE}, os : {NoOS}]
  <2>1. \A answer \in Answers(rpc.policy) : answer \in Advices
    <3>1. rpc.policy \in Policies /\ rpc.policy.target \in DOMAIN stock \cup {NoOS}
        BY <1>6 DEF Advise, TypeInv
    <3>2. rpc.policy.kernel \in BOOLEAN
        BY <3>1, UpdateAdviceAssumption
    <3>3. UpdateOS(rpc.policy) \subseteq DOMAIN stock \cup {NoOS}
        BY <3>1, LatestInStock DEF UpdateOS
    <3>4. NoAdvice \in Advices
        BY DEF NoAdvice
    <3>5. ASSUME NEW answer \in Details(rpc.policy) PROVE answer \in Advices
      <4>1. CASE rpc.policy.kernel = TRUE
        <5>1. answer = [kernel |-> TRUE, os |-> NoOS]
            BY <4>1 DEF Details
        <5> QED BY <5>1
      <4>2. CASE rpc.policy.kernel = FALSE
        <5>1. PICK os \in UpdateOS(rpc.policy) : answer = [kernel |-> FALSE, os |-> os]
            BY <4>2 DEF Details
        <5> QED BY <3>3, <5>1
      <4> QED BY <3>2, <4>1, <4>2
    <3> QED BY <3>4, <3>5 DEF Answers
  <2>2. agent' = agent \/ \E answer \in Answers(rpc.policy) :
                               agent' = [agent EXCEPT !.advice = answer]
    BY <1>6 DEF Advise
  <2>3. agent \in [type : StatusTypes, os : DOMAIN stock, advice : Advices]
    BY DEF TypeInv, TypeOK
  <2> HIDE DEF Advices
  <2>4. agent' \in [type : StatusTypes, os : DOMAIN stock, advice : Advices]
    BY <2>1, <2>2, <2>3
  <2>5. rpc' = Idle /\ UNCHANGED <<world, instance, faults>>
    BY <1>6 DEF Advise, Return
  <2> QED BY <2>4, <2>5 DEF Advices, Idle, world, TypeInv, TypeOK
<1>7. CASE Failures
  <2>1. /\ rpc' \in {Idle, [pc |-> "schedule"]}
        /\ UNCHANGED <<world, instance, agent>>
    BY <1>7 DEF Failures, PlanFails, UpdateFails, AdviseFails, Continue, Return
  <2>2. HandlerOK'
    BY <2>1 DEF HandlerOK, Idle
  <2> QED BY <2>1, <2>2, HandlerAlone
<1> QED BY <1>1, <1>2, <1>3, <1>4, <1>5, <1>6, <1>7 DEF Handle

LEMMA HostKeepsType ==
    ASSUME TypeInv, Host
    PROVE  TypeInv'
<1> DEFINE Advices == [kernel : {FALSE}, os : DOMAIN stock \cup {NoOS}]
                      \cup [kernel : {TRUE}, os : {NoOS}]
           Agents == [type : StatusTypes, os : DOMAIN stock, advice : Advices]
<1>1. agent \in Agents
    BY DEF TypeInv, TypeOK
<1>2. NoAdvice \in Advices /\ agent.advice.os \in DOMAIN stock \cup {NoOS}
    BY <1>1 DEF NoAdvice
<1>3. UNCHANGED <<world, instance, rpc>>
    BY DEF Host, Start, Install, InstallFails, Rest
<1> HIDE DEF Advices
<1>4. agent' \in Agents
  <2>1. CASE Start
    BY <1>1, <2>1 DEF Start, StatusTypes
  <2>2. CASE Install
    <3>1. (IF agent.advice.os = NoOS THEN agent.os ELSE agent.advice.os) \in DOMAIN stock
        BY <1>1, <1>2
    <3> QED BY <1>2, <2>2, <3>1 DEF Install, StatusTypes
  <2>3. CASE InstallFails
    BY <1>1, <1>2, <2>3 DEF InstallFails, StatusTypes
  <2>4. CASE Rest
    BY <1>1, <2>4 DEF Rest, StatusTypes
  <2> QED BY <2>1, <2>2, <2>3, <2>4 DEF Host
<1> QED BY <1>3, <1>4 DEF Advices, world, TypeInv, TypeOK

LEMMA WorldKeepsType ==
    ASSUME TypeInv, World
    PROVE  TypeInv'
<1>1. CASE \E image \in Images : Publish(image)
  <2>1. PICK image \in Images : Publish(image)
    BY <1>1
  <2>2. /\ stock' \in Seq(Images) \ {<<>>}
        /\ DOMAIN stock \subseteq DOMAIN stock'
    BY <2>1 DEF Publish, TypeInv, TypeOK
  <2> QED BY <2>1, <2>2 DEF Publish, TypeInv, TypeOK
<1>2. CASE \E s \in Schedules : Reschedule(s)
    BY <1>2 DEF Reschedule, TypeInv, TypeOK
<1>3. CASE \E p \in Policies : Decide(p)
    BY <1>3 DEF Decide, TypeInv, TypeOK
<1> QED BY <1>1, <1>2, <1>3 DEF World

LEMMA TypeInductive == TypeInv /\ [Next]_vars => TypeInv'
<1> SUFFICES ASSUME TypeInv, [Next]_vars PROVE TypeInv'
    OBVIOUS
<1>1. CASE UNCHANGED vars
    BY <1>1 DEF TypeInv, TypeOK, vars, world
<1> QED BY <1>1, HandleKeepsType, HostKeepsType, WorldKeepsType DEF Next

\* Resources that are named exist, advice names a kernel command or an OS and
\* never both, and answers hold at most one single schedule, for all images,
\* schedules, policies and failures.
THEOREM AdviceTypeCorrect == Spec => []TypeOK
<1>1. TypeInv => TypeOK
    BY DEF TypeInv
<1> QED BY <1>1, TypeInitially, TypeInductive, PTL DEF Spec

-----------------------------------------------------------------------------
(* The closest schedule *)

\* The schedules that are looked at and are not over.
OpenAt(singles, t) ==
    {k \in DOMAIN singles :
        /\ \A j \in 1 .. k : ~(singles[j].start > MaxInt \/ singles[j].end > MaxInt)
        /\ IsOpen(singles[k], t)}

Away(singles, k, t) == Distance(singles[k].start, t)

LEMMA TimesNat ==
    ASSUME NEW singles \in Seq([start : Nat, end : Nat]), NEW k \in DOMAIN singles
    PROVE  k \in Nat /\ singles[k].start \in Nat /\ singles[k].end \in Nat
<1> DEFINE R == [start : Nat, end : Nat]
<1>1. k \in Nat /\ singles[k] \in [start : Nat, end : Nat]
  <2>1. singles \in Seq(R)
    OBVIOUS
  <2> HIDE DEF R
  <2>2. k \in Nat /\ singles[k] \in R
    BY <2>1
  <2> QED BY <2>2 DEF R
<1> DEFINE s == singles[k]
<1> HIDE DEF s
<1>2. s \in [start : Nat, end : Nat] => s.start \in Nat /\ s.end \in Nat
    OBVIOUS
<1> QED BY <1>1, <1>2 DEF s

LEMMA AwayNat ==
    ASSUME NEW singles \in Seq([start : Nat, end : Nat]), NEW t \in Nat,
           NEW k \in DOMAIN singles
    PROVE  Away(singles, k, t) \in Nat
BY TimesNat DEF Away, Distance

\* Of the schedules that are at the least distance, one comes first.
LEMMA FirstClosest ==
    ASSUME NEW singles \in Seq([start : Nat, end : Nat]), NEW t \in Nat,
           OpenAt(singles, t) # {}
    PROVE  \E k \in OpenAt(singles, t) : \A j \in OpenAt(singles, t) :
              /\ ~(Away(singles, j, t) < Away(singles, k, t))
              /\ j < k => Away(singles, k, t) < Away(singles, j, t)
<1> DEFINE Open == OpenAt(singles, t)
           Distances == {Away(singles, k, t) : k \in Open}
<1>1. /\ Open \subseteq Nat
      /\ \A k \in Open : Away(singles, k, t) \in Nat
  <2>1. \A k \in Open : k \in DOMAIN singles
    BY DEF OpenAt
  <2> HIDE DEF Open
  <2> QED BY <2>1, TimesNat, AwayNat
<1>2. Open # {}
    OBVIOUS
<1> HIDE DEF Open
<1>3. Distances # {} /\ Distances \subseteq Nat
    BY <1>1, <1>2
<1>4. PICK d \in Distances : \A e \in Distances : d =< e
    BY <1>3, LeastNat
<1> DEFINE Nearest == {k \in Open : Away(singles, k, t) = d}
<1>5. Nearest # {} /\ Nearest \subseteq Nat
    BY <1>1
<1>6. PICK k \in Nearest : \A j \in Nearest : k =< j
    BY <1>5, LeastNat
<1>7. ASSUME NEW j \in Open
      PROVE  /\ ~(Away(singles, j, t) < Away(singles, k, t))
             /\ j < k => Away(singles, k, t) < Away(singles, j, t)
  <2>1. d =< Away(singles, j, t) /\ Away(singles, j, t) \in Nat /\ d \in Nat
    BY <1>1, <1>3, <1>4
  <2>2. j \in Nat /\ k \in Nat /\ Away(singles, k, t) = d
    BY <1>1, <1>5
  <2>3. j < k => Away(singles, j, t) # d
    BY <1>6, <2>2
  <2> QED BY <2>1, <2>2, <2>3
<1> QED BY <1>7 DEF Open

\* What GetClosestSingleSchedule returns: nothing if nothing is open, and else
\* an open schedule that no open one is closer than.
LEMMA ClosestSound ==
    ASSUME NEW singles \in Seq([start : Nat, end : Nat]), NEW t \in Nat
    PROVE  LET closest == GetClosestSingleSchedule(singles, t)
           IN  \/ OpenAt(singles, t) = {} /\ closest = <<>>
               \/ \E k \in OpenAt(singles, t) :
                     /\ closest = <<singles[k]>>
                     /\ \A j \in OpenAt(singles, t) :
                           ~(Away(singles, j, t) < Away(singles, k, t))
<1> DEFINE Open == OpenAt(singles, t)
           Closest == {k \in Open : \A j \in Open :
                          /\ ~(Away(singles, j, t) < Away(singles, k, t))
                          /\ j < k => Away(singles, k, t) < Away(singles, j, t)}
           chosen == CHOOSE k \in Closest : TRUE
<1>1. GetClosestSingleSchedule(singles, t) =
          IF Open = {} THEN <<>> ELSE <<singles[chosen]>>
    BY DEF GetClosestSingleSchedule, OpenAt, Away
<1>2. CASE Open = {}
    BY <1>1, <1>2
<1>3. CASE Open # {}
  <2>1. Closest # {}
    BY <1>3, FirstClosest
  <2>2. chosen \in Closest
    BY <2>1
  <2> HIDE DEF chosen
  <2> QED BY <1>1, <1>3, <2>2
<1> QED BY <1>2, <1>3

\* A step answers the closest schedule, with MaxInt and the lists as they are.
LEMMA ClosestStep ==
    ASSUME TypeInv, [Next]_vars, rpc.pc = "schedule", rpc'.pc = "policy"
    PROVE  ClosestAnswered
<1> DEFINE singles == schedule.single
           now == rpc'.now
           inTime == {s \in ToSet(singles) : s.end = 0 \/ now < s.end}
           answered == rpc'.schedule.single
           Open == OpenAt(singles, now)
<1>1. ReadSchedules
    BY DEF Next, Handle, Failures, Host, World, Receive, PlanUpdate, UpdateInstance, ReadPolicy,
           Advise, PlanFails, UpdateFails, AdviseFails, Start, Install, InstallFails, Rest,
           Publish, Reschedule, Decide, Continue, Return, Idle, vars
<1>2. now \in Times /\ rpc'.schedule.single = GetClosestSingleSchedule(singles, now)
    BY <1>1 DEF ReadSchedules, Continue, Return, Idle
<1>3. now \in Nat /\ MaxInt \in Nat /\ singles \in Seq([start : Nat, end : Nat])
    BY <1>2, UpdateAdviceAssumption DEF TypeInv
<1>4. \/ Open = {} /\ answered = <<>>
      \/ \E k \in Open : /\ answered = <<singles[k]>>
                         /\ \A j \in Open : ~(Away(singles, j, now) < Away(singles, k, now))
    BY <1>2, <1>3, ClosestSound
<1>5. \A k \in Open : singles[k] \in inTime
    BY DEF OpenAt, IsOpen, ToSet
<1>6. ASSUME \A s \in ToSet(singles) : s.start =< MaxInt /\ s.end =< MaxInt, NEW s \in inTime
      PROVE  \E j \in Open : s = singles[j]
  <2>1. PICK j \in DOMAIN singles : s = singles[j]
    BY DEF ToSet
  <2>2. ASSUME NEW i \in 1 .. j
        PROVE  ~(singles[i].start > MaxInt \/ singles[i].end > MaxInt)
    <3>1. i \in DOMAIN singles
        BY <1>3
    <3>2. singles[i].start \in Nat /\ singles[i].end \in Nat
        BY <1>3, <3>1, TimesNat
    <3>3. singles[i].start =< MaxInt /\ singles[i].end =< MaxInt
        BY <1>6, <3>1 DEF ToSet
    <3> QED BY <1>3, <3>2, <3>3
  <2>3. IsOpen(singles[j], now)
    BY <2>1 DEF IsOpen
  <2> QED BY <2>1, <2>2, <2>3 DEF OpenAt
<1>7. CASE Open = {} /\ answered = <<>>
  <2>1. ToSet(answered) = {} /\ DOMAIN answered = {}
    BY <1>7 DEF ToSet
  <2>2. (\A s \in ToSet(singles) : s.start =< MaxInt /\ s.end =< MaxInt) => inTime = {}
    BY <1>6, <1>7
  <2> QED BY <2>1, <2>2 DEF ClosestAnswered
<1>8. CASE \E k \in Open : /\ answered = <<singles[k]>>
                           /\ \A j \in Open : ~(Away(singles, j, now) < Away(singles, k, now))
  <2>1. PICK k \in Open : /\ answered = <<singles[k]>>
                          /\ \A j \in Open : ~(Away(singles, j, now) < Away(singles, k, now))
    BY <1>8
  <2>2. DOMAIN answered = {1} /\ answered[1] = singles[k] /\ answered # <<>>
    BY <2>1
  <2>3. ToSet(answered) = {singles[k]}
    BY <2>2 DEF ToSet
  <2>4. \A j \in Open : Away(singles, j, now) \in Nat
    BY <1>3, AwayNat DEF OpenAt
  <2>5. \A j \in Open : Away(singles, k, now) =< Away(singles, j, now)
    BY <2>1, <2>4
  <2> HIDE DEF Open, inTime, answered, singles, now
  <2>6. (\A s \in ToSet(singles) : s.start =< MaxInt /\ s.end =< MaxInt) =>
           \A s \in inTime : Distance(answered[1].start, now) =< Distance(s.start, now)
    BY <1>6, <2>2, <2>5 DEF Away
  <2>7. ToSet(answered) \subseteq inTime
    BY <1>5, <2>3
  <2>8. (\A s \in ToSet(singles) : s.start =< MaxInt /\ s.end =< MaxInt) =>
           \A i \in DOMAIN answered, s \in inTime :
              Distance(answered[i].start, now) =< Distance(s.start, now)
    BY <2>2, <2>6
  <2> QED BY <2>2, <2>7, <2>8 DEF inTime, answered, singles, now, ClosestAnswered
<1> QED BY <1>4, <1>7, <1>8

\* The answer holds an open schedule that no open one is closer than, and none
\* only if none is open, for every list of schedules and every time.
THEOREM AnswersTheClosest == Spec => ClosestIsAnswered
<1>1. TypeInv /\ [Next]_vars => [ClosestAnswered]_vars
    BY ClosestStep DEF ClosestAnswered
<1> QED BY <1>1, TypeInitially, TypeInductive, PTL DEF Spec, ClosestIsAnswered

-----------------------------------------------------------------------------
(* The policy LATEST *)

\* Whatever Inventory holds, the list can be read in some order.
LEMMA LatestExists ==
    ASSUME TypeInv
    PROVE  Latest # {}
<1>1. [k \in DOMAIN stock |-> k] \in Orders
    BY DEF Orders, IsInjective
<1> QED BY <1>1 DEF Latest

LEMMA NoWayBackStep ==
    ASSUME TypeInv, [Next]_vars
    PROVE  NoWayBack
<1> SUFFICES ASSUME AdvisesLatest,
                    Comparable(stock[agent.os]), Comparable(stock[agent'.advice.os]),
                    Precedes(stock[agent'.advice.os], stock[agent.os])
             PROVE  FALSE
    BY DEF NoWayBack
<1> DEFINE os == agent'.advice.os
<1>1. Advise /\ rpc.policy.kind = "LATEST" /\ os # NoOS
    BY DEF AdvisesLatest
<1>2. rpc.policy \in [kernel : BOOLEAN, kind : {"NONE", "TARGET", "LATEST"}, target : Nat]
    BY <1>1, UpdateAdviceAssumption DEF Advise, TypeInv
<1>3. UpdateOS(rpc.policy) = Latest /\ Answers(rpc.policy) = Details(rpc.policy)
    BY <1>1 DEF UpdateOS, Answers
<1>4. Details(rpc.policy) # {}
  <2>1. PICK latest \in Latest : TRUE
    BY LatestExists
  <2>2. [kernel |-> rpc.policy.kernel,
         os |-> IF rpc.policy.kernel THEN NoOS ELSE latest] \in Details(rpc.policy)
    BY <1>3, <2>1 DEF Details
  <2> QED BY <2>2
<1>5. PICK answer \in Details(rpc.policy) : agent' = [agent EXCEPT !.advice = answer]
    BY <1>1, <1>3, <1>4 DEF Advise
<1>6. agent \in [type : StatusTypes, os : DOMAIN stock,
                 advice : [kernel : {FALSE}, os : DOMAIN stock \cup {NoOS}]
                          \cup [kernel : {TRUE}, os : {NoOS}]]
    BY DEF TypeInv, TypeOK
<1>7. os = answer.os /\ agent.os \in DOMAIN stock
  <2>1. agent \in [type : StatusTypes, os : DOMAIN stock,
                   advice : {agent.advice}]
    BY <1>6
  <2> QED BY <1>5, <2>1
<1>8. os \in Latest
    BY <1>1, <1>2, <1>3, <1>7 DEF Details
<1>9. PICK order \in Orders : os = GetLatest(order)
    BY <1>8 DEF Latest
<1>10. stock \in Seq(Seq(Part)) \ {<<>>}
  <2>1. Seq(Images) \subseteq Seq(Seq(Part))
    BY UpdateAdviceAssumption, SeqMonotonic
  <2> QED BY <2>1 DEF TypeInv, TypeOK
<1>11. ~CompareImageVersions(stock[agent.os], stock[os])
    BY <1>7, <1>9, <1>10, GetLatestSound
<1> QED BY <1>11 DEF CompareImageVersions

\* The image that the policy LATEST names never precedes the one that the host
\* runs, as far as the two can be compared: for every stock, every order of the
\* list at every call, and everything that is published or fails in between.
THEOREM AdviceNeverLeadsBack == Spec => LatestNeverLeadsBack
<1>1. TypeInv /\ [Next]_vars => [NoWayBack]_vars
    BY NoWayBackStep
<1> QED BY <1>1, TypeInitially, TypeInductive, PTL DEF Spec, LatestNeverLeadsBack

=============================================================================
