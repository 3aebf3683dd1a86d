--------------------------- MODULE EditorTextProofs --------------------------
(***************************************************************************)
(* The operations on the text of an editor, for texts of any length over   *)
(* any characters: what the document inserts it removes again, and what    *)
(* it removes it inserts again.  A text is cut in the lines before a       *)
(* place, the two parts of its line and the lines after, and every         *)
(* operation is shown to change what is between the parts and nothing      *)
(* else.                                                                   *)
(***************************************************************************)
EXTENDS EditorUndo, FiniteSetTheorems, SequenceTheorems, WellFoundedInduction, TLAPS

-----------------------------------------------------------------------------
(* Induction over the numbers, and computations by rounds *)

\* A set of numbers has a least one.
LEMMA LeastNumber ==
  ASSUME NEW T, T \subseteq Nat, T # {}
  PROVE  \E m \in T : \A k \in T : m <= k
<1> DEFINE R == OpToRel(<, Nat)
<1>1. IsWellFoundedOn(R, Nat)
  BY NatLessThanWellFounded
<1>2. \A k, m \in Nat : k < m => <<k, m>> \in R
  BY DEF OpToRel
<1> HIDE DEF R
<1>3. PICK m \in T : \A k \in T : ~ (<<k, m>> \in R)
  BY <1>1, WFMin
<1>4. \A k \in T : ~ (k < m)
  BY <1>2, <1>3, Zenon
<1>5. \A k \in T : m <= k
  BY <1>4
<1> QED BY <1>5, Zenon

\* A set that has 0 and, with each number, the next one has them all.
LEMMA Induction ==
  ASSUME NEW T, 0 \in T, \A n \in Nat : n \in T => n + 1 \in T
  PROVE  Nat \subseteq T
<1> SUFFICES ASSUME NEW n \in Nat \ T PROVE FALSE
  OBVIOUS
<1>1. PICK m \in Nat \ T : \A k \in Nat \ T : m <= k
  BY LeastNumber
<1>2. m # 0 /\ m - 1 \in Nat /\ m - 1 \notin Nat \ T
  BY <1>1
<1> QED BY <1>1, <1>2

\* The steps of a bounded computation, a function for each.
Steps(S, n) == [1 .. n -> [S -> S]]

\* A computation of n steps from x.
LEMMA Recursion ==
  ASSUME NEW S, NEW x \in S, NEW n \in Nat, NEW step \in Steps(S, n)
  PROVE  \E f \in [0 .. n -> S] : f[0] = x /\ \A k \in 1 .. n : f[k] = step[k][f[k - 1]]
<1> USE DEF Steps
<1> DEFINE Upto_(k, f) == f[0] = x /\ \A i \in 1 .. k : f[i] = step[i][f[i - 1]]
           T == {k \in Nat : k <= n => \E f \in [0 .. k -> S] : Upto_(k, f)}
<1>1. 0 \in T
  <2>1. [i \in 0 .. 0 |-> x] \in [0 .. 0 -> S] /\ Upto_(0, [i \in 0 .. 0 |-> x])
    OBVIOUS
  <2> QED BY <2>1
<1>2. ASSUME NEW k \in Nat, k \in T PROVE k + 1 \in T
  <2> SUFFICES ASSUME k + 1 <= n PROVE \E f \in [0 .. k + 1 -> S] : Upto_(k + 1, f)
    OBVIOUS
  <2>1. PICK f \in [0 .. k -> S] : Upto_(k, f)
    BY <1>2
  <2> DEFINE g == [i \in 0 .. k + 1 |-> IF i = k + 1 THEN step[k + 1][f[k]] ELSE f[i]]
  <2>2. g \in [0 .. k + 1 -> S]
    OBVIOUS
  <2>3. Upto_(k + 1, g)
    BY <2>1
  <2> QED BY <2>2, <2>3
<1>3. n \in T
  <2> HIDE DEF T
  <2> QED BY <1>1, <1>2, Induction
<1> QED BY <1>3

-----------------------------------------------------------------------------
(* Sequences by their laws *)

\* The operators that the laws are about; hidden, they keep the built-in ones
\* away from the provers.
Nil == << >>
One(x) == <<x>>
Cat(s, t) == s \o t
Length(s) == Len(s)
At(s, i) == s[i]
List(S) == Seq(S)

\* The length of a sequence.
LEMMA LengthNat ==
  ASSUME NEW S, NEW s \in List(S)
  PROVE  Length(s) \in Nat
  BY DEF Length, List

\* An element of a sequence.
LEMMA AtType ==
  ASSUME NEW S, NEW s \in List(S), NEW i \in 1 .. Length(s)
  PROVE  At(s, i) \in S
  BY DEF Length, List, At

\* The sequence of nothing ...
LEMMA NilType ==
  ASSUME NEW S
  PROVE  Nil \in List(S) /\ Length(Nil) = 0
  BY DEF Length, List, Nil

\* ... is the only one that has no length.
LEMMA NilLength ==
  ASSUME NEW S, NEW s \in List(S), Length(s) = 0
  PROVE  s = Nil
  BY DEF Length, List, Nil

\* The sequence of one element.
LEMMA OneType ==
  ASSUME NEW S, NEW x \in S
  PROVE  One(x) \in List(S) /\ Length(One(x)) = 1 /\ At(One(x), 1) = x
  BY DEF One, Length, List, At

\* Two sequences joined ...
LEMMA CatType ==
  ASSUME NEW S, NEW s \in List(S), NEW t \in List(S)
  PROVE  Cat(s, t) \in List(S) /\ Length(Cat(s, t)) = Length(s) + Length(t)
  BY DEF Cat, Length, List

\* ... have the elements of the first ...
LEMMA CatFirst ==
  ASSUME NEW S, NEW s \in List(S), NEW t \in List(S), NEW i \in 1 .. Length(s)
  PROVE  At(Cat(s, t), i) = At(s, i)
  BY DEF Cat, Length, List, At

\* ... and those of the second.
LEMMA CatSecond ==
  ASSUME NEW S, NEW s \in List(S), NEW t \in List(S), NEW i \in 1 .. Length(t)
  PROVE  At(Cat(s, t), Length(s) + i) = At(t, i)
  BY DEF Cat, Length, List, At

\* Sequences are joined in any order ...
LEMMA CatAssociative ==
  ASSUME NEW S, NEW a \in List(S), NEW b \in List(S), NEW c \in List(S)
  PROVE  Cat(Cat(a, b), c) = Cat(a, Cat(b, c))
  BY DEF Cat, List

\* ... and nothing is joined without effect.
LEMMA CatNil ==
  ASSUME NEW S, NEW s \in List(S)
  PROVE  Cat(s, Nil) = s /\ Cat(Nil, s) = s
  BY DEF Cat, List, Nil

\* The first n elements ...
LEMMA UptoType ==
  ASSUME NEW S, NEW s \in List(S), NEW n \in 0 .. Length(s)
  PROVE  Upto(s, n) \in List(S) /\ Length(Upto(s, n)) = n
  BY DEF Upto, Min2, Length, List

\* ... are those of the sequence.
LEMMA UptoAt ==
  ASSUME NEW S, NEW s \in List(S), NEW n \in 0 .. Length(s), NEW i \in 1 .. n
  PROVE  At(Upto(s, n), i) = At(s, i)
  BY DEF Upto, Min2, Length, List, At

\* All but the first n elements ...
LEMMA FromType ==
  ASSUME NEW S, NEW s \in List(S), NEW n \in 0 .. Length(s)
  PROVE  From(s, n) \in List(S) /\ Length(From(s, n)) = Length(s) - n
  BY DEF From, Length, List

\* ... are those of the sequence, n places further.
LEMMA FromAt ==
  ASSUME NEW S, NEW s \in List(S), NEW n \in 0 .. Length(s), NEW i \in 1 .. Length(s) - n
  PROVE  At(From(s, n), i) = At(s, n + i)
  BY DEF From, Length, List, At

\* More than all the elements are all of them.
LEMMA UptoMore ==
  ASSUME NEW S, NEW s \in List(S), NEW n \in Int, n >= Length(s)
  PROVE  Upto(s, n) = s
<1> USE DEF Length, List
<1>1. Upto(s, n) = SubSeq(s, 1, Len(s))
  BY DEF Upto, Min2
<1> QED BY <1>1

\* Sequences with the same elements are the same.
LEMMA Same ==
  ASSUME NEW S, NEW s \in List(S), NEW t \in List(S),
         Length(s) = Length(t), \A i \in 1 .. Length(s) : At(s, i) = At(t, i)
  PROVE  s = t
  BY DEF Length, List, At

\* A sequence is what comes up to a place and what comes from there.
LEMMA UptoFrom ==
  ASSUME NEW S, NEW s \in List(S), NEW n \in 0 .. Length(s)
  PROVE  Cat(Upto(s, n), From(s, n)) = s
<1> DEFINE u == Upto(s, n)
           f == From(s, n)
           c == Cat(u, f)
<1>1. /\ Length(s) \in Nat
      /\ u \in List(S) /\ Length(u) = n
      /\ f \in List(S) /\ Length(f) = Length(s) - n
  BY UptoType, FromType, LengthNat
<1>2. c \in List(S) /\ Length(c) = Length(s)
  BY <1>1, CatType
<1>3. ASSUME NEW i \in 1 .. Length(s) PROVE At(c, i) = At(s, i)
  <2>1. CASE i <= n
    BY <2>1, <1>1, CatFirst, UptoAt
  <2>2. CASE i > n
    <3>1. i - n \in 1 .. Length(f) /\ Length(u) + (i - n) = i /\ n + (i - n) = i
      BY <2>2, <1>1
    <3>2. At(c, Length(u) + (i - n)) = At(f, i - n)
      BY <1>1, <3>1, CatSecond
    <3>3. At(f, i - n) = At(s, n + (i - n))
      BY <1>1, <3>1, FromAt
    <3> QED BY <3>1, <3>2, <3>3
  <2> QED BY <2>1, <2>2, <1>1
<1> QED BY <1>2, <1>3, Same

\* Two sequences joined come apart again.
LEMMA Parts ==
  ASSUME NEW S, NEW a \in List(S), NEW b \in List(S)
  PROVE  Upto(Cat(a, b), Length(a)) = a /\ From(Cat(a, b), Length(a)) = b
<1> DEFINE c == Cat(a, b)
<1>1. Length(a) \in Nat /\ Length(b) \in Nat /\ c \in List(S) /\ Length(c) = Length(a) + Length(b)
  BY CatType, LengthNat
<1>2. Length(a) \in 0 .. Length(c)
  BY <1>1
<1>3. Upto(c, Length(a)) = a
  <2>1. Upto(c, Length(a)) \in List(S) /\ Length(Upto(c, Length(a))) = Length(a)
    BY <1>1, <1>2, UptoType
  <2>2. ASSUME NEW i \in 1 .. Length(a) PROVE At(Upto(c, Length(a)), i) = At(a, i)
    BY <1>1, <1>2, UptoAt, CatFirst
  <2> QED BY <2>1, <2>2, Same
<1>4. From(c, Length(a)) = b
  <2>1. From(c, Length(a)) \in List(S) /\ Length(From(c, Length(a))) = Length(b)
    BY <1>1, <1>2, FromType
  <2>2. ASSUME NEW i \in 1 .. Length(b) PROVE At(From(c, Length(a)), i) = At(b, i)
    <3>1. i \in 1 .. Length(c) - Length(a)
      BY <1>1
    <3> QED BY <1>1, <1>2, <3>1, FromAt, CatSecond
  <2> QED BY <2>1, <2>2, Same
<1> QED BY <1>3, <1>4

\* Cutting the first of two joined sequences.
LEMMA PartsWithin ==
  ASSUME NEW S, NEW a \in List(S), NEW b \in List(S), NEW n \in 0 .. Length(a)
  PROVE  /\ Upto(Cat(a, b), n) = Upto(a, n)
         /\ From(Cat(a, b), n) = Cat(From(a, n), b)
<1>1. /\ Upto(a, n) \in List(S) /\ Length(Upto(a, n)) = n
      /\ From(a, n) \in List(S)
      /\ Cat(From(a, n), b) \in List(S)
  BY UptoType, FromType, CatType
<1>2. Cat(a, b) = Cat(Upto(a, n), Cat(From(a, n), b))
  BY <1>1, UptoFrom, CatAssociative
<1> QED BY <1>1, <1>2, Parts

\* Cutting the second of two joined sequences.
LEMMA PartsBeyond ==
  ASSUME NEW S, NEW a \in List(S), NEW b \in List(S), NEW n \in 0 .. Length(b)
  PROVE  /\ Upto(Cat(a, b), Length(a) + n) = Cat(a, Upto(b, n))
         /\ From(Cat(a, b), Length(a) + n) = From(b, n)
<1>1. /\ Upto(b, n) \in List(S) /\ Length(Upto(b, n)) = n
      /\ From(b, n) \in List(S)
      /\ Cat(a, Upto(b, n)) \in List(S) /\ Length(Cat(a, Upto(b, n))) = Length(a) + n
  BY UptoType, FromType, CatType
<1>2. Cat(a, b) = Cat(Cat(a, Upto(b, n)), From(b, n))
  BY <1>1, UptoFrom, CatAssociative
<1> QED BY <1>1, <1>2, Parts

\* A sequence cut at its end or its start.
LEMMA Whole ==
  ASSUME NEW S, NEW s \in List(S)
  PROVE  /\ Upto(s, Length(s)) = s /\ From(s, Length(s)) = Nil
         /\ Upto(s, 0) = Nil /\ From(s, 0) = s
  BY CatNil, NilType, Parts

\* A sequence around one of its elements.
Around(a, x, b) == Cat(a, Cat(One(x), b))

\* Its length, and the element.
LEMMA AroundType ==
  ASSUME NEW S, NEW a \in List(S), NEW x \in S, NEW b \in List(S)
  PROVE  /\ Around(a, x, b) \in List(S)
         /\ Length(Around(a, x, b)) = Length(a) + 1 + Length(b)
         /\ At(Around(a, x, b), Length(a) + 1) = x
<1>1. Length(a) \in Nat /\ Length(b) \in Nat
  BY LengthNat
<1>2. /\ One(x) \in List(S) /\ Length(One(x)) = 1 /\ At(One(x), 1) = x
      /\ Cat(One(x), b) \in List(S) /\ Length(Cat(One(x), b)) = 1 + Length(b)
  BY OneType, CatType
<1>3. 1 \in 1 .. Length(One(x)) /\ 1 \in 1 .. Length(Cat(One(x), b))
  BY <1>1, <1>2
<1>4. At(Cat(One(x), b), 1) = x
  BY <1>2, <1>3, CatFirst
<1>5. /\ Around(a, x, b) \in List(S)
      /\ Length(Around(a, x, b)) = Length(a) + (1 + Length(b))
      /\ At(Around(a, x, b), Length(a) + 1) = x
  BY <1>2, <1>3, <1>4, CatType, CatSecond DEF Around
<1> QED BY <1>1, <1>5

\* What is before and after the element.
LEMMA AroundParts ==
  ASSUME NEW S, NEW a \in List(S), NEW x \in S, NEW b \in List(S)
  PROVE  /\ Upto(Around(a, x, b), Length(a)) = a
         /\ From(Around(a, x, b), Length(a)) = Cat(One(x), b)
         /\ Upto(Around(a, x, b), Length(a) + 1) = Cat(a, One(x))
         /\ From(Around(a, x, b), Length(a) + 1) = b
<1>1. /\ One(x) \in List(S) /\ Length(One(x)) = 1
      /\ Cat(One(x), b) \in List(S)
      /\ Cat(a, One(x)) \in List(S) /\ Length(Cat(a, One(x))) = Length(a) + 1
  BY OneType, CatType
<1>2. Around(a, x, b) = Cat(a, Cat(One(x), b)) /\ Around(a, x, b) = Cat(Cat(a, One(x)), b)
  BY <1>1, CatAssociative DEF Around
<1>3. /\ Upto(Cat(a, Cat(One(x), b)), Length(a)) = a
      /\ From(Cat(a, Cat(One(x), b)), Length(a)) = Cat(One(x), b)
  BY <1>1, Parts
<1>4. /\ Upto(Cat(Cat(a, One(x)), b), Length(Cat(a, One(x)))) = Cat(a, One(x))
      /\ From(Cat(Cat(a, One(x)), b), Length(Cat(a, One(x)))) = b
  BY <1>1, Parts
<1> QED BY <1>1, <1>2, <1>3, <1>4

\* A sequence is around each of its elements.
LEMMA Split ==
  ASSUME NEW S, NEW d \in List(S), NEW r \in 1 .. Length(d)
  PROVE  /\ Upto(d, r - 1) \in List(S) /\ Length(Upto(d, r - 1)) = r - 1
         /\ From(d, r) \in List(S) /\ Length(From(d, r)) = Length(d) - r
         /\ At(d, r) \in S
         /\ d = Around(Upto(d, r - 1), At(d, r), From(d, r))
<1> DEFINE u == Upto(d, r - 1)
           f == From(d, r)
           x == At(d, r)
           e == Around(u, x, f)
<1>1. r - 1 \in 0 .. Length(d) /\ r \in 0 .. Length(d) /\ x \in S /\ Length(d) \in Nat
  BY LengthNat, AtType
<1>2. u \in List(S) /\ Length(u) = r - 1 /\ f \in List(S) /\ Length(f) = Length(d) - r
  BY <1>1, UptoType, FromType
<1>3. ASSUME NEW i \in 1 .. r - 1 PROVE At(u, i) = At(d, i)
  BY <1>1, UptoAt
<1>4. ASSUME NEW i \in 1 .. Length(d) - r PROVE At(f, i) = At(d, r + i)
  BY <1>1, FromAt
<1> HIDE DEF u, f
<1>5. (r - 1) + 1 = r /\ (r - 1) + 1 + (Length(d) - r) = Length(d)
  BY <1>1
<1>6. e \in List(S) /\ Length(e) = Length(d) /\ At(e, r) = x
  <2> HIDE DEF x
  <2> QED BY <1>1, <1>2, <1>5, AroundType
<1>7. Upto(e, r - 1) = u /\ From(e, r) = f
  <2> HIDE DEF x
  <2> QED BY <1>1, <1>2, <1>5, AroundParts
<1> HIDE DEF e, x
<1>8. ASSUME NEW i \in 1 .. Length(d) PROVE At(e, i) = At(d, i)
  <2>1. CASE i < r
    <3>1. i \in 1 .. r - 1 /\ r - 1 \in 0 .. Length(e)
      BY <2>1, <1>1, <1>6
    <3> QED BY <3>1, <1>3, <1>6, <1>7, UptoAt
  <2>2. CASE i = r
    BY <2>2, <1>6 DEF x
  <2>3. CASE i > r
    <3>1. i - r \in 1 .. Length(d) - r /\ r + (i - r) = i /\ r \in 0 .. Length(e)
      BY <2>3, <1>1, <1>6
    <3>2. At(f, i - r) = At(d, i)
      BY <3>1, <1>4
    <3>3. At(f, i - r) = At(e, r + (i - r))
      BY <3>1, <1>6, <1>7, FromAt
    <3> QED BY <3>1, <3>2, <3>3
  <2> QED BY <2>1, <2>2, <2>3, <1>1
<1>9. e = d
  BY <1>6, <1>8, Same
<1> QED BY <1>1, <1>2, <1>9 DEF u, f, x, e

\* A sequence with one element replaced.
Put(d, r, y) == [d EXCEPT ![r] = y]

\* The element is replaced, the others stay.
LEMMA PutType ==
  ASSUME NEW S, NEW d \in List(S), NEW r \in 1 .. Length(d), NEW y \in S
  PROVE  /\ Put(d, r, y) \in List(S) /\ Length(Put(d, r, y)) = Length(d)
         /\ At(Put(d, r, y), r) = y
         /\ \A i \in 1 .. Length(d) : i # r => At(Put(d, r, y), i) = At(d, i)
  BY DEF List, Length, At, Put

\* Sequences with the same first elements.
LEMMA SameUpto ==
  ASSUME NEW S, NEW d \in List(S), NEW e \in List(S), NEW n \in Nat,
         n <= Length(d), n <= Length(e), \A i \in 1 .. n : At(e, i) = At(d, i)
  PROVE  Upto(e, n) = Upto(d, n)
<1>1. Length(d) \in Nat /\ Length(e) \in Nat
  BY LengthNat
<1>2. n \in 0 .. Length(d) /\ n \in 0 .. Length(e)
  BY <1>1
<1>3. /\ Upto(e, n) \in List(S) /\ Length(Upto(e, n)) = n
      /\ Upto(d, n) \in List(S) /\ Length(Upto(d, n)) = n
  BY <1>2, UptoType
<1>4. ASSUME NEW i \in 1 .. n PROVE At(Upto(e, n), i) = At(Upto(d, n), i)
  BY <1>2, UptoAt
<1> QED BY <1>3, <1>4, Same

\* Sequences with the same last elements.
LEMMA SameFrom ==
  ASSUME NEW S, NEW d \in List(S), NEW e \in List(S), NEW n \in Nat,
         n <= Length(d), Length(e) = Length(d),
         \A i \in n + 1 .. Length(d) : At(e, i) = At(d, i)
  PROVE  From(e, n) = From(d, n)
<1>1. Length(d) \in Nat
  BY LengthNat
<1>2. n \in 0 .. Length(d) /\ n \in 0 .. Length(e)
  BY <1>1
<1>3. /\ From(e, n) \in List(S) /\ Length(From(e, n)) = Length(d) - n
      /\ From(d, n) \in List(S) /\ Length(From(d, n)) = Length(d) - n
  BY <1>2, FromType
<1>4. ASSUME NEW i \in 1 .. Length(d) - n PROVE At(From(e, n), i) = At(From(d, n), i)
  <2>1. At(From(e, n), i) = At(e, n + i) /\ At(From(d, n), i) = At(d, n + i)
    BY <1>2, FromAt
  <2>2. n + i \in n + 1 .. Length(d)
    BY <1>1
  <2> QED BY <2>1, <2>2
<1> QED BY <1>3, <1>4, Same

\* What is before and after a replaced element stays.
LEMMA PutParts ==
  ASSUME NEW S, NEW d \in List(S), NEW r \in 1 .. Length(d), NEW y \in S
  PROVE  /\ Upto(Put(d, r, y), r - 1) = Upto(d, r - 1)
         /\ From(Put(d, r, y), r) = From(d, r)
<1>1. r \in Nat /\ r - 1 \in Nat /\ Length(d) \in Nat /\ r - 1 <= Length(d) /\ r <= Length(d)
  BY LengthNat
<1>2. Put(d, r, y) \in List(S) /\ Length(Put(d, r, y)) = Length(d)
  BY PutType
<1>3. \A i \in 1 .. r - 1 : At(Put(d, r, y), i) = At(d, i)
  BY <1>1, PutType
<1>4. \A i \in r + 1 .. Length(d) : At(Put(d, r, y), i) = At(d, i)
  BY <1>1, PutType
<1> QED BY <1>1, <1>2, <1>3, <1>4, SameUpto, SameFrom

\* Replacing an element leaves what is before and after it.
LEMMA PutAround ==
  ASSUME NEW S, NEW d \in List(S), NEW r \in 1 .. Length(d), NEW y \in S
  PROVE  Put(d, r, y) = Around(Upto(d, r - 1), y, From(d, r))
<1>1. /\ Put(d, r, y) \in List(S) /\ Length(Put(d, r, y)) = Length(d)
      /\ At(Put(d, r, y), r) = y
  BY PutType
<1> QED BY <1>1, PutParts, Split

\* The element a sequence is around, replaced.
LEMMA AroundPut ==
  ASSUME NEW S, NEW a \in List(S), NEW x \in S, NEW y \in S, NEW b \in List(S)
  PROVE  Put(Around(a, x, b), Length(a) + 1, y) = Around(a, y, b)
<1>1. Length(a) \in Nat /\ Length(b) \in Nat /\ Length(a) + 1 - 1 = Length(a)
  BY LengthNat
<1>2. /\ Around(a, x, b) \in List(S) /\ Length(Around(a, x, b)) = Length(a) + 1 + Length(b)
      /\ Upto(Around(a, x, b), Length(a)) = a /\ From(Around(a, x, b), Length(a) + 1) = b
  BY AroundType, AroundParts
<1>3. Length(a) + 1 \in 1 .. Length(Around(a, x, b))
  BY <1>1, <1>2
<1> QED BY <1>1, <1>2, <1>3, PutAround

-----------------------------------------------------------------------------
(* A round of the removal *)

\* A text with characters added to its last line.
Ext(r, x) == Put(r, Length(r), Cat(At(r, Length(r)), x))

\* n characters of a line after the first p.
Piece(s, p, n) == SubSeq(s, p + 1, p + n)

\* Lines and texts obey the laws of sequences.
LEMMA TextIsList ==
  Line = List(Chars) /\ Text = List(Line)
  BY DEF Line, Text, List

\* A piece of a line in terms of the laws.
LEMMA PieceIs ==
  ASSUME NEW S, NEW s \in List(S), NEW p \in 0 .. Length(s), NEW n \in 0 .. Length(s) - p
  PROVE  Piece(s, p, n) = Upto(From(s, p), n)
<1>1. Piece(s, p, n) \in List(S) /\ Length(Piece(s, p, n)) = n
  BY DEF Piece, List, Length
<1>2. \A i \in 1 .. n : At(Piece(s, p, n), i) = At(s, p + i)
  BY DEF Piece, List, Length, At
<1>3. Length(s) \in Nat
  BY LengthNat
<1>4. /\ From(s, p) \in List(S) /\ Length(From(s, p)) = Length(s) - p
  BY FromType
<1>5. Upto(From(s, p), n) \in List(S) /\ Length(Upto(From(s, p), n)) = n
  BY <1>4, UptoType
<1>6. ASSUME NEW i \in 1 .. n PROVE At(Upto(From(s, p), n), i) = At(s, p + i)
  <2>1. i \in 1 .. Length(s) - p
    BY <1>3
  <2> QED BY <2>1, <1>4, UptoAt, FromAt
<1> QED BY <1>1, <1>2, <1>5, <1>6, Same

\* A state of the loop of removeText.
Cutting(d, k, r) == [doc |-> d, count |-> k, removed |-> r]

\* What a round does, in terms of the laws of sequences.
LEMMA RoundIs ==
  ASSUME NEW d, NEW k \in Int, NEW r, NEW line \in Int, NEW pos \in Int, k > 0,
         line <= Length(d), NEW n, n = Min2(k, Length(At(d, line)) - pos), n \in Nat,
         NEW cut, cut = Put(d, line, Cat(Upto(At(d, line), pos), From(At(d, line), pos + n))),
         NEW got, got = Ext(r, Piece(At(d, line), pos, n)),
         NEW joined, joined = Cat(Cat(Upto(cut, line - 1),
                                      One(Cat(At(cut, line), At(cut, line + 1)))),
                                  From(cut, line + 1))
  PROVE  /\ k - n <= 0 => CutRound(Cutting(d, k, r), line, pos) = Cutting(cut, k - n, got)
         /\ ~(k - n <= 0) /\ line < Length(cut) =>
              CutRound(Cutting(d, k, r), line, pos) = Cutting(joined, k - n - 1, Append(got, << >>))
         /\ ~(k - n <= 0) /\ ~(line < Length(cut)) =>
              CutRound(Cutting(d, k, r), line, pos) = Cutting(Upto(cut, line - 1), k - n - 1, got)
<1>1. Max2(n, 0) = n
  BY DEF Max2
<1>2. ~(k <= 0 \/ line > Length(d))
  BY DEF Length
<1> DEFINE s == Cutting(d, k, r)
<1>3. s.doc = d /\ s.count = k /\ s.removed = r
  BY DEF Cutting
<1>4. CutRound(s, line, pos) =
               IF k - n <= 0 THEN Cutting(cut, k - n, got)
               ELSE IF line < Length(cut)
               THEN Cutting(joined, k - n - 1, Append(got, << >>))
               ELSE Cutting(Upto(cut, line - 1), k - n - 1, got)
  <2> HIDE DEF s
  <2> QED BY <1>1, <1>2, <1>3, Zenon
        DEF CutRound, Without, Cat, One, At, Length, Put, Ext, Piece, Cutting
<1> HIDE DEF s
<1>5. s = Cutting(d, k, r)
  BY DEF s
<1> QED BY <1>4, <1>5, Zenon

(* A line whose part before the cut is p. *)

\* A text around a line whose part before the cut is p.
CutLine(a, p, x, b) == Around(a, Cat(p, x), b)

\* Its length and the line.
LEMMA CutLineType ==
  ASSUME NEW a \in Text, NEW p \in Line, NEW x \in Line, NEW b \in Text
  PROVE  /\ CutLine(a, p, x, b) \in Text
         /\ Length(CutLine(a, p, x, b)) = Length(a) + 1 + Length(b)
         /\ At(CutLine(a, p, x, b), Length(a) + 1) = Cat(p, x)
         /\ Length(Cat(p, x)) = Length(p) + Length(x)
         /\ Length(a) \in Nat /\ Length(b) \in Nat /\ Length(p) \in Nat /\ Length(x) \in Nat
         /\ Cat(p, x) \in Line
  BY TextIsList, CatType, AroundType, LengthNat DEF CutLine

\* Taking characters after the part p of a line.
LEMMA RoundCut ==
  ASSUME NEW a \in Text, NEW p \in Line, NEW x \in Line, NEW b \in Text,
         NEW n \in 0 .. Length(x)
  PROVE  LET d == CutLine(a, p, x, b)
             r == Length(a) + 1
             old == At(d, r)
         IN  /\ Put(d, r, Cat(Upto(old, Length(p)), From(old, Length(p) + n)))
                  = CutLine(a, p, From(x, n), b)
             /\ Piece(old, Length(p), n) = Upto(x, n)
<1>1. /\ At(CutLine(a, p, x, b), Length(a) + 1) = Cat(p, x) /\ Cat(p, x) \in Line
      /\ Length(p) \in Nat /\ Length(x) \in Nat /\ Length(Cat(p, x)) = Length(p) + Length(x)
  BY CutLineType
<1>2. Upto(Cat(p, x), Length(p)) = p /\ From(Cat(p, x), Length(p)) = x
  BY TextIsList, Parts
<1>3. From(Cat(p, x), Length(p) + n) = From(x, n) /\ From(x, n) \in Line
  BY TextIsList, PartsBeyond, FromType
<1>4. Cat(p, From(x, n)) \in Line
  BY <1>3, TextIsList, CatType
<1>5. Put(CutLine(a, p, x, b), Length(a) + 1, Cat(p, From(x, n))) = CutLine(a, p, From(x, n), b)
  BY <1>1, <1>4, TextIsList, AroundPut DEF CutLine
<1>6. Length(p) \in 0 .. Length(Cat(p, x)) /\ n \in 0 .. Length(Cat(p, x)) - Length(p)
  BY <1>1
<1>7. Piece(Cat(p, x), Length(p), n) = Upto(x, n)
  BY <1>1, <1>2, <1>6, TextIsList, PieceIs
<1> QED BY <1>1, <1>2, <1>3, <1>5, <1>7

\* A round that wants no more than the rest of the line is the last.
LEMMA RoundWithin ==
  ASSUME NEW a \in Text, NEW p \in Line, NEW x \in Line, NEW b \in Text,
         NEW k \in 1 .. Length(x), NEW r
  PROVE  CutRound(Cutting(CutLine(a, p, x, b), k, r), Length(a) + 1, Length(p))
           = Cutting(CutLine(a, p, From(x, k), b), 0, Ext(r, Upto(x, k)))
<1> DEFINE d == CutLine(a, p, x, b)
           line == Length(a) + 1
           old == At(d, line)
<1>1. /\ Length(d) = line + Length(b) /\ Length(old) = Length(p) + Length(x)
      /\ Length(a) \in Nat /\ Length(b) \in Nat /\ Length(p) \in Nat /\ Length(x) \in Nat
  BY CutLineType
<1>2. /\ Put(d, line, Cat(Upto(old, Length(p)), From(old, Length(p) + k)))
           = CutLine(a, p, From(x, k), b)
      /\ Piece(old, Length(p), k) = Upto(x, k)
  <2>1. k \in 0 .. Length(x)
    OBVIOUS
  <2> QED BY <2>1, RoundCut
<1> HIDE DEF d, old
<1>3. k = Min2(k, Length(old) - Length(p)) /\ k - k <= 0 /\ k - k = 0
  BY <1>1 DEF Min2
<1>4. line <= Length(d) /\ line \in Int /\ Length(p) \in Int /\ k \in Int /\ k > 0 /\ k \in Nat
  BY <1>1
<1> HIDE DEF line
<1>5. CutRound(Cutting(d, k, r), line, Length(p)) =
        Cutting(CutLine(a, p, From(x, k), b), k - k, Ext(r, Upto(x, k)))
  BY <1>2, <1>3, <1>4, RoundIs DEF old
<1> QED BY <1>5, <1>3 DEF d, line

\* A round that wants more takes the end of the line too: the next line follows.
LEMMA RoundJoin ==
  ASSUME NEW a \in Text, NEW p \in Line, NEW x \in Line, NEW y \in Line, NEW b \in Text,
         NEW k \in Nat, k > Length(x), NEW r
  PROVE  CutRound(Cutting(CutLine(a, p, x, Cat(One(y), b)), k, r), Length(a) + 1, Length(p))
           = Cutting(CutLine(a, p, y, b), k - Length(x) - 1, Append(Ext(r, x), << >>))
<1> DEFINE c == Cat(One(y), b)
           d == CutLine(a, p, x, c)
           line == Length(a) + 1
           old == At(d, line)
           n == Length(x)
           cut == Around(a, p, c)
<1>0. /\ One(y) \in Text /\ Length(One(y)) = 1 /\ At(One(y), 1) = y
      /\ c \in Text /\ Length(c) = 1 + Length(b)
  BY TextIsList, OneType, CatType
<1>1. /\ Length(d) = line + Length(c) /\ Length(old) = Length(p) + Length(x)
      /\ Length(a) \in Nat /\ Length(b) \in Nat /\ Length(p) \in Nat /\ Length(x) \in Nat
  <2> HIDE DEF c
  <2> QED BY <1>0, CutLineType, LengthNat, TextIsList
<1>2. /\ Put(d, line, Cat(Upto(old, Length(p)), From(old, Length(p) + n))) = cut
      /\ Piece(old, Length(p), n) = x
  <2> HIDE DEF c
  <2>1. n \in 0 .. Length(x)
    BY <1>1
  <2>2. From(x, n) = Nil /\ Upto(x, n) = x /\ Cat(p, Nil) = p
    BY TextIsList, Whole, CatNil
  <2> QED BY <1>0, <2>1, <2>2, RoundCut DEF CutLine
<1> HIDE DEF d, old
<1>3. n = Min2(k, Length(old) - Length(p)) /\ ~(k - n <= 0)
  BY <1>1 DEF Min2
<1>4. line <= Length(d) /\ line \in Int /\ Length(p) \in Int /\ k \in Int /\ k > 0 /\ n \in Nat
  BY <1>0, <1>1
<1>5. /\ Length(cut) = line + Length(c) /\ At(cut, line) = p /\ Upto(cut, line - 1) = a
      /\ At(cut, line + 1) = y /\ From(cut, line + 1) = b
  <2>1. /\ cut \in Text /\ Length(cut) = line + Length(c) /\ At(cut, line) = p
        /\ Upto(cut, Length(a)) = a /\ From(cut, line) = c
    <3> HIDE DEF c
    <3> QED BY <1>0, TextIsList, AroundType, AroundParts
  <2>2. line - 1 = Length(a)
    BY <1>1
  <2>3. From(c, 1) = b /\ At(c, 1) = y
    <3>1. 1 \in 1 .. Length(One(y))
      BY <1>0
    <3> QED BY <1>0, <3>1, Parts, CatFirst, TextIsList
  <2> HIDE DEF c, cut
  <2>4. line \in 0 .. Length(cut) /\ 1 \in 1 .. Length(cut) - line
    BY <2>1, <1>0, <1>1
  <2>5. At(From(cut, line), 1) = At(cut, line + 1)
    BY <2>1, <2>4, FromAt, TextIsList
  <2>6. /\ Upto(cut, line) \in Text /\ Length(Upto(cut, line)) = line
        /\ Cat(Upto(cut, line), c) = cut
    BY <2>1, <2>4, UptoType, UptoFrom, TextIsList
  <2>7. 1 \in 0 .. Length(c)
    BY <1>0, <1>1
  <2>8. From(cut, line + 1) = From(c, 1)
    BY <2>6, <2>7, <1>0, PartsBeyond, TextIsList
  <2> QED BY <2>1, <2>2, <2>3, <2>5, <2>8
<1> HIDE DEF line, cut
<1>6. line < Length(cut)
  BY <1>0, <1>1, <1>5 DEF line
<1>7. CutLine(a, p, y, b) = Cat(Cat(a, One(Cat(p, y))), b)
  BY CatAssociative, OneType, CatType, TextIsList DEF CutLine, Around
<1>8. CutRound(Cutting(d, k, r), line, Length(p)) =
        Cutting(CutLine(a, p, y, b), k - n - 1, Append(Ext(r, x), << >>))
  <2> HIDE DEF n
  <2> QED BY <1>2, <1>3, <1>4, <1>5, <1>6, <1>7, RoundIs DEF old
<1> QED BY <1>8 DEF d, line

\* On the last line it takes the whole line, the part before the cut too.
LEMMA RoundEnd ==
  ASSUME NEW a \in Text, NEW p \in Line, NEW x \in Line,
         NEW k \in Nat, k > Length(x), NEW r
  PROVE  CutRound(Cutting(CutLine(a, p, x, Nil), k, r), Length(a) + 1, Length(p))
           = Cutting(a, k - Length(x) - 1, Ext(r, x))
<1> DEFINE d == CutLine(a, p, x, Nil)
           line == Length(a) + 1
           old == At(d, line)
           n == Length(x)
           cut == Around(a, p, Nil)
<1>0. Nil \in Text /\ Length(Nil) = 0
  BY TextIsList, NilType
<1>1. /\ Length(d) = line /\ Length(old) = Length(p) + Length(x)
      /\ Length(a) \in Nat /\ Length(p) \in Nat /\ Length(x) \in Nat
  BY <1>0, CutLineType
<1>2. /\ Put(d, line, Cat(Upto(old, Length(p)), From(old, Length(p) + n))) = cut
      /\ Piece(old, Length(p), n) = x
  <2>1. n \in 0 .. Length(x)
    BY <1>1
  <2>2. From(x, n) = Nil /\ Upto(x, n) = x /\ Cat(p, Nil) = p
    BY TextIsList, Whole, CatNil
  <2> QED BY <1>0, <2>1, <2>2, RoundCut DEF CutLine
<1> HIDE DEF d, old
<1>3. n = Min2(k, Length(old) - Length(p)) /\ ~(k - n <= 0)
  BY <1>1 DEF Min2
<1>4. line <= Length(d) /\ line \in Int /\ Length(p) \in Int /\ k \in Int /\ k > 0 /\ n \in Nat
  BY <1>0, <1>1
<1>5. Length(cut) = line /\ Upto(cut, line - 1) = a
  <2>1. Length(cut) = line /\ Upto(cut, Length(a)) = a
    BY <1>0, <1>1, TextIsList, AroundType, AroundParts
  <2>2. line - 1 = Length(a)
    BY <1>1
  <2> QED BY <2>1, <2>2
<1> HIDE DEF line, cut
<1>6. ~(line < Length(cut))
  BY <1>4, <1>5
<1>7. CutRound(Cutting(d, k, r), line, Length(p)) =
        Cutting(a, k - n - 1, Ext(r, x))
  <2> HIDE DEF n
  <2> QED BY <1>2, <1>3, <1>4, <1>5, <1>6, RoundIs DEF old
<1> QED BY <1>7 DEF d, line

-----------------------------------------------------------------------------
(* A text between the two parts of a line *)

\* A text with an empty line more.
More(r) == Append(r, << >>)

\* The texts that have a line.
Full == {t \in Text : Length(t) >= 1}

\* The empty line comes last.
LEMMA MoreIs ==
  ASSUME NEW r \in Text
  PROVE  More(r) = Cat(r, One(Nil))
  BY DEF More, Cat, One, Nil, Text

\* A text is its last line and those before.
LEMMA Last ==
  ASSUME NEW t \in Full
  PROVE  /\ Upto(t, Length(t) - 1) \in Text /\ Length(Upto(t, Length(t) - 1)) = Length(t) - 1
         /\ At(t, Length(t)) \in Line
         /\ t = Cat(Upto(t, Length(t) - 1), One(At(t, Length(t))))
<1>1. t \in Text /\ Length(t) \in Nat /\ Length(t) \in 1 .. Length(t)
  BY LengthNat, TextIsList DEF Full
<1>2. /\ Upto(t, Length(t) - 1) \in Text /\ Length(Upto(t, Length(t) - 1)) = Length(t) - 1
      /\ At(t, Length(t)) \in Line
      /\ t = Around(Upto(t, Length(t) - 1), At(t, Length(t)), From(t, Length(t)))
  BY <1>1, Split, TextIsList
<1>3. From(t, Length(t)) = Nil
  BY <1>1, Whole, TextIsList
<1>4. One(At(t, Length(t))) \in Text
  BY <1>2, OneType, TextIsList
<1>5. Cat(One(At(t, Length(t))), Nil) = One(At(t, Length(t)))
  BY <1>4, CatNil, TextIsList
<1> QED BY <1>2, <1>3, <1>5 DEF Around

\* A text is its first line and those after.
LEMMA First ==
  ASSUME NEW t \in Full
  PROVE  /\ At(t, 1) \in Line
         /\ From(t, 1) \in Text /\ Length(From(t, 1)) = Length(t) - 1
         /\ t = Cat(One(At(t, 1)), From(t, 1))
<1>1. t \in Text /\ Length(t) \in Nat /\ 1 \in 1 .. Length(t) /\ 1 - 1 = 0
  BY LengthNat, TextIsList DEF Full
<1>2. /\ From(t, 1) \in Text /\ Length(From(t, 1)) = Length(t) - 1
      /\ At(t, 1) \in Line
      /\ t = Around(Upto(t, 1 - 1), At(t, 1), From(t, 1))
  BY <1>1, Split, TextIsList
<1>3. Upto(t, 1 - 1) = Nil
  BY <1>1, Whole, TextIsList
<1>4. Cat(One(At(t, 1)), From(t, 1)) \in Text
  BY <1>2, OneType, CatType, TextIsList
<1>5. Cat(Nil, Cat(One(At(t, 1)), From(t, 1))) = Cat(One(At(t, 1)), From(t, 1))
  BY <1>4, CatNil, TextIsList
<1> QED BY <1>2, <1>3, <1>5 DEF Around

\* The last line of a text, extended.
LEMMA ExtLast ==
  ASSUME NEW b \in Text, NEW x \in Line, NEW y \in Line
  PROVE  /\ Ext(Cat(b, One(x)), y) = Cat(b, One(Cat(x, y)))
         /\ Cat(b, One(x)) \in Full
<1>1. One(x) \in Text /\ Length(One(x)) = 1 /\ One(Cat(x, y)) \in Text /\ Cat(x, y) \in Line
  BY OneType, CatType, TextIsList
<1>2. Nil \in Text /\ Length(Nil) = 0 /\ Length(b) \in Nat
  BY NilType, LengthNat, TextIsList
<1>3. /\ Around(b, x, Nil) = Cat(b, One(x))
      /\ Around(b, Cat(x, y), Nil) = Cat(b, One(Cat(x, y)))
  BY <1>1, CatNil, TextIsList DEF Around
<1>4. /\ Around(b, x, Nil) \in Text /\ Length(Around(b, x, Nil)) = Length(b) + 1
      /\ At(Around(b, x, Nil), Length(b) + 1) = x
  BY <1>2, AroundType, TextIsList
<1>5. Put(Around(b, x, Nil), Length(b) + 1, Cat(x, y)) = Around(b, Cat(x, y), Nil)
  BY <1>1, <1>2, AroundPut, TextIsList
<1>6. Cat(b, One(x)) \in Full
  BY <1>2, <1>3, <1>4 DEF Full
<1> QED BY <1>3, <1>4, <1>5, <1>6 DEF Ext

\* Glue changes the first line and then the last.
LEMMA GlueIs ==
  ASSUME NEW p, NEW t \in Full, NEW q
  PROVE  Glue(p, t, q) = Put(Put(t, 1, Cat(p, At(t, 1))), Length(t),
                             Cat(At(Put(t, 1, Cat(p, At(t, 1))), Length(t)), q))
  BY Zenon DEF Glue, Put, At, Cat, Length

\* One line between two parts.
LEMMA GlueOne ==
  ASSUME NEW p \in Line, NEW x \in Line, NEW q \in Line
  PROVE  Glue(p, One(x), q) = One(Cat(p, Cat(x, q)))
<1>1. One(x) \in Full /\ Length(One(x)) = 1 /\ At(One(x), 1) = x
  BY OneType, TextIsList DEF Full
<1>2. ASSUME NEW y \in Line, NEW z \in Line PROVE Put(One(y), 1, z) = One(z)
  <2>1. Nil \in Text /\ Length(Nil) = 0 /\ 0 + 1 = 1
    BY NilType, TextIsList
  <2>2. Around(Nil, y, Nil) = One(y) /\ Around(Nil, z, Nil) = One(z)
    BY CatNil, OneType, TextIsList DEF Around
  <2> QED BY <2>1, <2>2, AroundPut, TextIsList
<1>3. Cat(p, x) \in Line /\ Cat(Cat(p, x), q) \in Line /\ Cat(Cat(p, x), q) = Cat(p, Cat(x, q))
  BY CatType, CatAssociative, TextIsList
<1>4. At(One(Cat(p, x)), 1) = Cat(p, x)
  BY <1>3, OneType, TextIsList
<1>5. Glue(p, One(x), q) = Put(Put(One(x), 1, Cat(p, x)), 1, Cat(At(Put(One(x), 1, Cat(p, x)), 1), q))
  BY <1>1, GlueIs
<1> QED BY <1>2, <1>3, <1>4, <1>5

\* Several lines between two parts: the first and the last are extended.
LEMMA GlueMore ==
  ASSUME NEW p \in Line, NEW x \in Line, NEW m \in Text, NEW z \in Line, NEW q \in Line
  PROVE  Glue(p, Cat(One(x), Cat(m, One(z))), q) = Cat(One(Cat(p, x)), Cat(m, One(Cat(z, q))))
<1> DEFINE u == Cat(m, One(z))
           t == Cat(One(x), u)
           px == Cat(p, x)
           v == Cat(One(px), m)
<1>0. px \in Line /\ Cat(z, q) \in Line
  BY CatType, TextIsList
<1>1. /\ One(x) \in Text /\ One(z) \in Text /\ Length(One(x)) = 1 /\ Length(One(z)) = 1
      /\ One(px) \in Text /\ Length(One(px)) = 1 /\ One(Cat(z, q)) \in Text
  BY <1>0, OneType, TextIsList
<1>2. u \in Text /\ Length(u) = Length(m) + 1 /\ Length(m) \in Nat
  BY <1>1, CatType, TextIsList, LengthNat
<1> HIDE DEF u, px
<1>3. t \in Text /\ Length(t) = Length(m) + 2 /\ t \in Full
  BY <1>1, <1>2, CatType, TextIsList DEF Full
<1>4. Nil \in Text /\ Length(Nil) = 0 /\ 0 + 1 = 1
  BY NilType, TextIsList
<1>5. ASSUME NEW y \in Line PROVE Around(Nil, y, u) = Cat(One(y), u)
  BY <1>2, CatNil, OneType, CatType, TextIsList DEF Around
<1>6. At(t, 1) = x
  BY <1>4, <1>5, <1>2, AroundType, TextIsList
<1>7. Put(t, 1, px) = Cat(One(px), u)
  BY <1>0, <1>4, <1>5, <1>2, AroundPut, TextIsList
<1>8. Cat(One(px), u) = Cat(v, One(z))
  BY <1>1, CatAssociative, TextIsList DEF u
<1>9. v \in Text /\ Length(v) = Length(m) + 1 /\ Length(m) + 1 + 1 = Length(m) + 2
  BY <1>1, <1>2, CatType, TextIsList
<1> HIDE DEF v
<1>10. Cat(v, One(z)) \in Full /\ Length(Cat(v, One(z))) = Length(t)
  BY <1>1, <1>3, <1>9, CatType, ExtLast, TextIsList
<1>11. Ext(Cat(v, One(z)), q) = Cat(v, One(Cat(z, q)))
  BY <1>9, ExtLast
<1>12. Glue(p, t, q) = Put(Put(t, 1, px), Length(t), Cat(At(Put(t, 1, px), Length(t)), q))
  BY <1>3, <1>6, GlueIs DEF px
<1>13. Glue(p, t, q) = Ext(Cat(v, One(z)), q)
  BY <1>7, <1>8, <1>10, <1>12 DEF Ext
<1>14. Cat(v, One(Cat(z, q))) = Cat(One(px), Cat(m, One(Cat(z, q))))
  BY <1>1, CatAssociative, TextIsList DEF v
<1> QED BY <1>11, <1>13, <1>14 DEF t, u, px

\* A text has one line, or a first and a last one.
LEMMA Shape ==
  ASSUME NEW t \in Full
  PROVE  \/ \E x \in Line : t = One(x)
         \/ \E x \in Line, m \in Text, z \in Line : t = Cat(One(x), Cat(m, One(z)))
<1> DEFINE x == At(t, 1)
           f == From(t, 1)
<1>1. x \in Line /\ f \in Text /\ Length(f) = Length(t) - 1 /\ t = Cat(One(x), f)
  BY First
<1>2. Length(f) \in Nat
  BY <1>1, LengthNat, TextIsList
<1> HIDE DEF x, f
<1>3. CASE Length(f) = 0
  <2>1. f = Nil
    BY <1>1, <1>3, NilLength, TextIsList
  <2>2. t = One(x)
    BY <1>1, <2>1, CatNil, OneType, TextIsList
  <2> QED BY <1>1, <2>2
<1>4. CASE Length(f) >= 1
  <2>1. f \in Full
    BY <1>1, <1>4 DEF Full
  <2>2. PICK m \in Text, z \in Line : f = Cat(m, One(z))
    BY <2>1, Last
  <2> QED BY <1>1, <2>2
<1> QED BY <1>2, <1>3, <1>4

\* A text with a first and a last line.
LEMMA MoreFull ==
  ASSUME NEW x \in Line, NEW m \in Text, NEW z \in Line
  PROVE  /\ Cat(One(x), Cat(m, One(z))) \in Full
         /\ Length(Cat(One(x), Cat(m, One(z)))) = Length(m) + 2
<1>1. /\ One(x) \in Text /\ One(z) \in Text /\ Length(One(x)) = 1 /\ Length(One(z)) = 1
      /\ Length(m) \in Nat
  BY OneType, TextIsList, LengthNat
<1>2. Cat(m, One(z)) \in Text /\ Length(Cat(m, One(z))) = Length(m) + 1
  BY <1>1, CatType, TextIsList
<1>3. /\ Cat(One(x), Cat(m, One(z))) \in Text
      /\ Length(Cat(One(x), Cat(m, One(z)))) = 1 + (Length(m) + 1)
  BY <1>1, <1>2, CatType, TextIsList
<1> QED BY <1>1, <1>3 DEF Full

\* Its last line apart.
LEMMA MoreShape ==
  ASSUME NEW x \in Line, NEW m \in Text, NEW z \in Line
  PROVE  /\ Cat(One(x), m) \in Text
         /\ Cat(One(x), Cat(m, One(z))) = Cat(Cat(One(x), m), One(z))
<1>1. One(x) \in Text /\ One(z) \in Text
  BY OneType, TextIsList
<1>2. Cat(One(x), m) \in Text
  BY <1>1, CatType, TextIsList
<1>3. Cat(One(x), Cat(m, One(z))) = Cat(Cat(One(x), m), One(z))
  BY <1>1, CatAssociative, TextIsList
<1> QED BY <1>2, <1>3

\* A text of one line.
LEMMA OneFull ==
  ASSUME NEW x \in Line
  PROVE  One(x) \in Full /\ Length(One(x)) = 1
  BY OneType, TextIsList DEF Full

\* The empty line and the empty text join without effect.
LEMMA EmptyLine ==
  /\ Nil \in Line /\ Nil \in Text /\ Length(Nil) = 0
  /\ \A x \in Line : Cat(x, Nil) = x /\ Cat(Nil, x) = x
  /\ \A t \in Text : Cat(t, Nil) = t /\ Cat(Nil, t) = t
  BY NilType, CatNil, TextIsList

\* A text between two parts has as many lines.
LEMMA GlueType ==
  ASSUME NEW p \in Line, NEW t \in Full, NEW q \in Line
  PROVE  Glue(p, t, q) \in Full /\ Length(Glue(p, t, q)) = Length(t)
<1>1. CASE \E x \in Line : t = One(x)
  <2>1. PICK x \in Line : t = One(x)
    BY <1>1
  <2>2. Cat(p, Cat(x, q)) \in Line
    BY CatType, TextIsList
  <2> QED BY <2>1, <2>2, OneFull, GlueOne
<1>2. CASE \E x \in Line, m \in Text, z \in Line : t = Cat(One(x), Cat(m, One(z)))
  <2>1. PICK x \in Line, m \in Text, z \in Line : t = Cat(One(x), Cat(m, One(z)))
    BY <1>2
  <2>2. Cat(p, x) \in Line /\ Cat(z, q) \in Line
    BY CatType, TextIsList
  <2>3. Glue(p, t, q) = Cat(One(Cat(p, x)), Cat(m, One(Cat(z, q))))
    BY <2>1, GlueMore
  <2> QED BY <2>1, <2>2, <2>3, MoreFull
<1> QED BY <1>1, <1>2, Shape

\* Characters taken from the part after a text and added to its end.
LEMMA GlueExt ==
  ASSUME NEW p \in Line, NEW r \in Full, NEW x \in Line, NEW q \in Line
  PROVE  Glue(p, Ext(r, x), q) = Glue(p, r, Cat(x, q)) /\ Ext(r, x) \in Full
<1>0. Cat(x, q) \in Line
  BY CatType, TextIsList
<1>1. CASE \E y \in Line : r = One(y)
  <2>1. PICK y \in Line : r = One(y)
    BY <1>1
  <2>2. Cat(y, x) \in Line /\ Cat(Cat(y, x), q) = Cat(y, Cat(x, q))
    BY CatType, CatAssociative, TextIsList
  <2>3. Ext(r, x) = One(Cat(y, x))
    BY <2>1, <2>2, ExtLast, EmptyLine, OneType, TextIsList
  <2> QED BY <1>0, <2>1, <2>2, <2>3, GlueOne, OneFull
<1>2. CASE \E y \in Line, m \in Text, z \in Line : r = Cat(One(y), Cat(m, One(z)))
  <2>1. PICK y \in Line, m \in Text, z \in Line : r = Cat(One(y), Cat(m, One(z)))
    BY <1>2
  <2>2. Cat(z, x) \in Line /\ Cat(Cat(z, x), q) = Cat(z, Cat(x, q))
    BY CatType, CatAssociative, TextIsList
  <2>3. Ext(r, x) = Cat(One(y), Cat(m, One(Cat(z, x))))
    BY <2>1, <2>2, ExtLast, MoreShape
  <2>4. Glue(p, Ext(r, x), q) = Cat(One(Cat(p, y)), Cat(m, One(Cat(Cat(z, x), q))))
    BY <2>2, <2>3, GlueMore
  <2>5. Glue(p, r, Cat(x, q)) = Cat(One(Cat(p, y)), Cat(m, One(Cat(z, Cat(x, q)))))
    BY <1>0, <2>1, GlueMore
  <2>6. Ext(r, x) \in Full
    BY <2>2, <2>3, MoreFull
  <2> QED BY <2>2, <2>4, <2>5, <2>6
<1> QED BY <1>1, <1>2, Shape

\* A line taken from after a text and added to it.
LEMMA GlueNext ==
  ASSUME NEW p \in Line, NEW r \in Full, NEW y \in Line
  PROVE  Glue(p, More(r), y) = Cat(Glue(p, r, Nil), One(y)) /\ More(r) \in Full
<1>0. More(r) = Cat(r, One(Nil)) /\ r \in Text
  BY MoreIs DEF Full
<1>1. CASE \E x \in Line : r = One(x)
  <2>1. PICK x \in Line : r = One(x)
    BY <1>1
  <2>2. More(r) = Cat(One(x), Cat(Nil, One(Nil)))
    BY <1>0, <2>1, EmptyLine, OneType, TextIsList
  <2>3. Glue(p, More(r), y) = Cat(One(Cat(p, x)), Cat(Nil, One(y)))
    BY <2>2, GlueMore, EmptyLine
  <2>4. Glue(p, r, Nil) = One(Cat(p, x))
    BY <2>1, GlueOne, EmptyLine
  <2>5. Cat(Nil, One(y)) = One(y)
    BY EmptyLine, OneType, TextIsList
  <2> QED BY <2>2, <2>3, <2>4, <2>5, MoreFull, EmptyLine
<1>2. CASE \E x \in Line, m \in Text, z \in Line : r = Cat(One(x), Cat(m, One(z)))
  <2>1. PICK x \in Line, m \in Text, z \in Line : r = Cat(One(x), Cat(m, One(z)))
    BY <1>2
  <2>2. /\ One(x) \in Text /\ One(z) \in Text /\ One(Nil) \in Text /\ One(y) \in Text
        /\ Cat(m, One(z)) \in Text /\ Cat(p, x) \in Line /\ One(Cat(p, x)) \in Text
    BY OneType, CatType, EmptyLine, TextIsList
  <2>3. More(r) = Cat(One(x), Cat(Cat(m, One(z)), One(Nil)))
    BY <1>0, <2>1, <2>2, CatAssociative, TextIsList
  <2>4. Glue(p, More(r), y) = Cat(One(Cat(p, x)), Cat(Cat(m, One(z)), One(y)))
    BY <2>2, <2>3, GlueMore, EmptyLine
  <2>5. Glue(p, r, Nil) = Cat(One(Cat(p, x)), Cat(m, One(z)))
    BY <2>1, GlueMore, EmptyLine
  <2>6. Cat(One(Cat(p, x)), Cat(Cat(m, One(z)), One(y)))
          = Cat(Cat(One(Cat(p, x)), Cat(m, One(z))), One(y))
    BY <2>2, CatAssociative, TextIsList
  <2>7. More(r) \in Full
    BY <2>2, <2>3, MoreFull, EmptyLine
  <2> QED BY <2>4, <2>5, <2>6, <2>7
<1> QED BY <1>1, <1>2, Shape

\* An empty line between two parts joins them.
LEMMA GlueNothing ==
  ASSUME NEW p \in Line, NEW q \in Line
  PROVE  Glue(p, One(Nil), q) = One(Cat(p, q))
  BY GlueOne, EmptyLine

\* Nothing on either side changes nothing.
LEMMA GlueWhole ==
  ASSUME NEW t \in Full
  PROVE  Glue(Nil, t, Nil) = t
<1>1. CASE \E x \in Line : t = One(x)
  BY <1>1, GlueOne, EmptyLine
<1>2. CASE \E x \in Line, m \in Text, z \in Line : t = Cat(One(x), Cat(m, One(z)))
  BY <1>2, GlueMore, EmptyLine
<1> QED BY <1>1, <1>2, Shape

\* The part before a text only extends its first line.
LEMMA GlueFirst ==
  ASSUME NEW u \in Full, NEW q \in Line
  PROVE  \E y \in Line, c \in Text :
           /\ Glue(Nil, u, q) = Cat(One(y), c)
           /\ \A p \in Line : Glue(p, u, q) = Cat(One(Cat(p, y)), c)
<1>1. CASE \E x \in Line : u = One(x)
  <2>1. PICK x \in Line : u = One(x)
    BY <1>1
  <2>2. Cat(x, q) \in Line
    BY CatType, TextIsList
  <2>3. \A p \in Line : Glue(p, u, q) = Cat(One(Cat(p, Cat(x, q))), Nil)
    BY <2>1, <2>2, GlueOne, OneType, CatType, EmptyLine, TextIsList
  <2>4. Glue(Nil, u, q) = Cat(One(Cat(x, q)), Nil)
    BY <2>2, <2>3, EmptyLine
  <2> QED BY <2>2, <2>3, <2>4, EmptyLine
<1>2. CASE \E x \in Line, m \in Text, z \in Line : u = Cat(One(x), Cat(m, One(z)))
  <2>1. PICK x \in Line, m \in Text, z \in Line : u = Cat(One(x), Cat(m, One(z)))
    BY <1>2
  <2>2. Cat(m, One(Cat(z, q))) \in Text
    BY CatType, OneType, TextIsList
  <2>3. \A p \in Line : Glue(p, u, q) = Cat(One(Cat(p, x)), Cat(m, One(Cat(z, q))))
    BY <2>1, GlueMore
  <2>4. Glue(Nil, u, q) = Cat(One(x), Cat(m, One(Cat(z, q))))
    BY <2>3, EmptyLine
  <2> QED BY <2>2, <2>3, <2>4
<1> QED BY <1>1, <1>2, Shape

\* The first line of a longer text is glued alone.
LEMMA GlueStep ==
  ASSUME NEW p \in Line, NEW x \in Line, NEW u \in Full, NEW q \in Line
  PROVE  Glue(p, Cat(One(x), u), q) = Cat(One(Cat(p, x)), Glue(Nil, u, q))
<1>1. CASE \E w \in Line : u = One(w)
  <2>1. PICK w \in Line : u = One(w)
    BY <1>1
  <2>2. Cat(w, q) \in Line /\ One(w) \in Text /\ One(Cat(w, q)) \in Text
    BY CatType, OneType, TextIsList
  <2>3. u = Cat(Nil, One(w)) /\ Cat(Nil, One(Cat(w, q))) = One(Cat(w, q))
    BY <2>1, <2>2, EmptyLine
  <2>4. Glue(p, Cat(One(x), u), q) = Cat(One(Cat(p, x)), Cat(Nil, One(Cat(w, q))))
    BY <2>3, GlueMore, EmptyLine
  <2>5. Glue(Nil, u, q) = One(Cat(w, q))
    BY <2>1, <2>2, GlueOne, EmptyLine
  <2> QED BY <2>3, <2>4, <2>5
<1>2. CASE \E w \in Line, n \in Text, v \in Line : u = Cat(One(w), Cat(n, One(v)))
  <2>1. PICK w \in Line, n \in Text, v \in Line : u = Cat(One(w), Cat(n, One(v)))
    BY <1>2
  <2>2. u = Cat(Cat(One(w), n), One(v)) /\ Cat(One(w), n) \in Text
    BY <2>1, MoreShape
  <2>3. Glue(p, Cat(One(x), u), q) = Cat(One(Cat(p, x)), Cat(Cat(One(w), n), One(Cat(v, q))))
    BY <2>2, GlueMore
  <2>4. Glue(Nil, u, q) = Cat(One(w), Cat(n, One(Cat(v, q))))
    BY <2>1, GlueMore, EmptyLine
  <2>5. Cat(v, q) \in Line
    BY CatType, TextIsList
  <2>6. Cat(One(w), Cat(n, One(Cat(v, q)))) = Cat(Cat(One(w), n), One(Cat(v, q)))
    BY <2>5, MoreShape
  <2> QED BY <2>3, <2>4, <2>6
<1> QED BY <1>1, <1>2, Shape

-----------------------------------------------------------------------------
(* The rounds of the removal *)

\* The states of the loop of removeText.
States == [doc : Text, count : Int, removed : Full]

\* The states of the loop over d that still have the line they cut: the lines a
\* and the part p before the cut are in place, and what was removed glued
\* between p and the rest of the line gives d.
Open(a, p, d) ==
  {s \in States : \E x \in Line, b \in Text :
     s.doc = CutLine(a, p, x, b) /\ d = Cat(a, Cat(Glue(p, s.removed, x), b))}

\* The states in which the line is gone, with the end of the text.
Gone(a, p, d) == {s \in States : s.doc = a /\ d = Cat(a, Glue(p, s.removed, Nil))}
Reached(a, p, d) == Open(a, p, d) \cup Gone(a, p, d)

\* The fields of a state.
LEMMA CuttingIs ==
  ASSUME NEW d, NEW k, NEW r
  PROVE  /\ Cutting(d, k, r).doc = d /\ Cutting(d, k, r).count = k /\ Cutting(d, k, r).removed = r
  BY DEF Cutting

\* A state is one.
LEMMA CuttingType ==
  ASSUME NEW d \in Text, NEW k \in Int, NEW r \in Full
  PROVE  Cutting(d, k, r) \in States
  BY DEF Cutting, States

\* A state and its fields.
LEMMA StatesAre ==
  ASSUME NEW s \in States
  PROVE  /\ s.doc \in Text /\ s.count \in Int /\ s.removed \in Full
         /\ s = Cutting(s.doc, s.count, s.removed)
  BY DEF Cutting, States

\* A state that still has the line.
LEMMA OpenState ==
  ASSUME NEW a \in Text, NEW p \in Line, NEW x \in Line, NEW b \in Text, NEW k \in Int, NEW r \in Full
  PROVE  Cutting(CutLine(a, p, x, b), k, r) \in Open(a, p, Cat(a, Cat(Glue(p, r, x), b)))
<1> DEFINE s == Cutting(CutLine(a, p, x, b), k, r)
<1>1. s \in States /\ s.doc = CutLine(a, p, x, b) /\ s.removed = r
  BY CutLineType, CuttingIs, CuttingType
<1> HIDE DEF s
<1>2. s \in Open(a, p, Cat(a, Cat(Glue(p, r, x), b)))
  BY <1>1 DEF Open
<1> QED BY <1>2 DEF s

\* A state whose line is gone.
LEMMA GoneState ==
  ASSUME NEW a \in Text, NEW p \in Line, NEW k \in Int, NEW r \in Full
  PROVE  Cutting(a, k, r) \in Gone(a, p, Cat(a, Glue(p, r, Nil)))
  BY CuttingIs, CuttingType DEF Gone

\* A round with nothing to do.
LEMMA RoundStops ==
  ASSUME NEW s, NEW line, NEW pos, s.count <= 0 \/ line > Length(s.doc)
  PROVE  CutRound(s, line, pos) = s
  BY DEF CutRound, Length

\* A round keeps what was removed and what is left together equal to d.
LEMMA RoundReached ==
  ASSUME NEW a \in Text, NEW p \in Line, NEW d, NEW s \in Reached(a, p, d)
  PROVE  CutRound(s, Length(a) + 1, Length(p)) \in Reached(a, p, d)
<1> DEFINE k == s.count
           r == s.removed
           new == CutRound(s, Length(a) + 1, Length(p))
<1>1. s \in States /\ k \in Int /\ r \in Full /\ s = Cutting(s.doc, k, r) /\ Length(a) \in Nat
  BY StatesAre, LengthNat, TextIsList DEF Reached, Open, Gone
<1>2. CASE k <= 0
  BY <1>2, RoundStops
<1>3. CASE s \in Gone(a, p, d)
  <2>1. s.doc = a
    BY <1>3 DEF Gone
  <2>2. Length(a) + 1 > Length(s.doc)
    BY <1>1, <2>1
  <2> QED BY <2>2, RoundStops
<1>4. CASE k > 0 /\ s \in Open(a, p, d)
  <2>1. PICK x \in Line, b \in Text :
          s.doc = CutLine(a, p, x, b) /\ d = Cat(a, Cat(Glue(p, r, x), b))
    BY <1>4 DEF Open
  <2>2. s = Cutting(CutLine(a, p, x, b), k, r) /\ Length(x) \in Nat /\ k \in Nat
    BY <1>1, <1>4, <2>1, LengthNat, TextIsList
  <2> HIDE DEF k, r
  <2>3. CASE k <= Length(x)
    <3>1. k \in 1 .. Length(x) /\ k \in 0 .. Length(x)
      BY <2>3, <2>2, <1>4
    <3>2. new = Cutting(CutLine(a, p, From(x, k), b), 0, Ext(r, Upto(x, k)))
      BY <2>2, <3>1, RoundWithin
    <3>3. From(x, k) \in Line /\ Upto(x, k) \in Line /\ Cat(Upto(x, k), From(x, k)) = x
      BY <3>1, UptoType, FromType, UptoFrom, TextIsList
    <3>4. Glue(p, Ext(r, Upto(x, k)), From(x, k)) = Glue(p, r, x) /\ Ext(r, Upto(x, k)) \in Full
      BY <1>1, <3>3, GlueExt
    <3>5. new \in Open(a, p, Cat(a, Cat(Glue(p, Ext(r, Upto(x, k)), From(x, k)), b)))
      <4> HIDE DEF new
      <4> QED BY <3>2, <3>3, <3>4, OpenState
    <3> QED BY <2>1, <3>4, <3>5 DEF Reached
  <2>4. CASE k > Length(x)
    <3>0. k - Length(x) - 1 \in Int
      BY <2>2
    <3>1. Glue(p, Ext(r, x), Nil) = Glue(p, r, x) /\ Ext(r, x) \in Full /\ Glue(p, r, x) \in Text
      <4>1. Cat(x, Nil) = x /\ Nil \in Line
        BY EmptyLine
      <4> QED BY <1>1, <4>1, GlueExt, GlueType DEF Full
    <3>2. CASE Length(b) = 0
      <4>1. b = Nil
        BY <3>2, NilLength, TextIsList
      <4>2. new = Cutting(a, k - Length(x) - 1, Ext(r, x))
        BY <2>2, <2>4, <4>1, RoundEnd
      <4>3. Cat(Glue(p, r, x), b) = Glue(p, Ext(r, x), Nil)
        BY <3>1, <4>1, EmptyLine
      <4>4. new \in Gone(a, p, Cat(a, Glue(p, Ext(r, x), Nil)))
        <5> HIDE DEF new
        <5> QED BY <3>0, <3>1, <4>2, GoneState
      <4> QED BY <2>1, <4>3, <4>4 DEF Reached
    <3>3. CASE Length(b) # 0
      <4>1. b \in Full
        <5>1. Length(b) \in Nat
          BY LengthNat, TextIsList
        <5> QED BY <5>1, <3>3 DEF Full
      <4>2. PICK y \in Line, c \in Text : b = Cat(One(y), c)
        BY <4>1, First
      <4>3. new = Cutting(CutLine(a, p, y, c), k - Length(x) - 1, More(Ext(r, x)))
        BY <2>2, <2>4, <4>2, RoundJoin DEF More
      <4>4. /\ Glue(p, More(Ext(r, x)), y) = Cat(Glue(p, r, x), One(y))
            /\ More(Ext(r, x)) \in Full
        BY <3>1, GlueNext
      <4>5. Cat(Cat(Glue(p, r, x), One(y)), c) = Cat(Glue(p, r, x), b)
        BY <3>1, <4>2, CatAssociative, OneType, TextIsList
      <4>6. new \in Open(a, p, Cat(a, Cat(Glue(p, More(Ext(r, x)), y), c)))
        <5> HIDE DEF new
        <5> QED BY <3>0, <4>3, <4>4, OpenState
      <4> QED BY <2>1, <4>4, <4>5, <4>6 DEF Reached
    <3> QED BY <3>2, <3>3
  <2> QED BY <2>2, <2>3, <2>4
<1> QED BY <1>1, <1>2, <1>3, <1>4 DEF Reached

\* f holds the states after the first n rounds.
Rounds(f, n, line, pos) == \A i \in 1 .. n : f[i] = CutRound(f[i - 1], line, pos)

\* The states CutRounds goes through.
LEMMA RoundsAre ==
  ASSUME NEW a \in Text, NEW p \in Line, NEW x \in Line, NEW b \in Text, NEW k \in Int,
         NEW d, d = CutLine(a, p, x, b), NEW f, f = CutRounds(d, Length(a) + 1, Length(p), k)
  PROVE  /\ Length(d) \in Nat
         /\ f[0] = Cutting(d, k, One(Nil))
         /\ Rounds(f, Length(d), Length(a) + 1, Length(p))
         /\ \A i \in 0 .. Length(d) : f[i] \in Reached(a, p, d)
<1> DEFINE S == Reached(a, p, d)
           n == Length(d)
           line == Length(a) + 1
           pos == Length(p)
           s0 == Cutting(d, k, One(Nil))
           step == [i \in 1 .. n |-> [s \in S |-> CutRound(s, line, pos)]]
<1>1. n \in Nat
  BY CutLineType, LengthNat, TextIsList
<1>2. s0 \in S
  <2>1. One(Nil) \in Full /\ Glue(p, One(Nil), x) = One(Cat(p, x))
    BY OneFull, EmptyLine, GlueNothing
  <2>2. d = Cat(a, Cat(Glue(p, One(Nil), x), b))
    BY <2>1 DEF CutLine, Around
  <2>3. s0 \in Open(a, p, d)
    BY <2>1, <2>2, OpenState
  <2> QED BY <2>3 DEF Reached
<1>3. \A s \in S : CutRound(s, line, pos) \in S
  BY RoundReached
<1> HIDE DEF S, s0, line, pos
<1>4. step \in Steps(S, n)
  BY <1>3 DEF Steps
<1>5. PICK g \in [0 .. n -> S] : g[0] = s0 /\ \A i \in 1 .. n : g[i] = step[i][g[i - 1]]
  <2> HIDE DEF step, n
  <2> QED BY <1>1, <1>2, <1>4, Recursion
<1>6. \A i \in 1 .. n : g[i] = CutRound(g[i - 1], line, pos)
  <2> HIDE DEF n
  <2>1. \A i \in 1 .. n : i - 1 \in 0 .. n
    BY <1>1
  <2> QED BY <1>5, <2>1
<1> HIDE DEF step, n
<1>7. g = [i \in 0 .. n |-> IF i = 0 THEN s0 ELSE CutRound(g[i - 1], line, pos)]
  <2>1. \A i \in 0 .. n : i = 0 \/ i \in 1 .. n
    BY <1>1
  <2> QED BY <1>5, <1>6, <2>1
<1>8. f = CHOOSE h : h = [i \in 0 .. n |-> IF i = 0 THEN s0 ELSE CutRound(h[i - 1], line, pos)]
  BY Zenon DEF CutRounds, n, s0, Cutting, One, Nil, Length, line, pos
<1>9. f = [i \in 0 .. n |-> IF i = 0 THEN s0 ELSE CutRound(f[i - 1], line, pos)]
  BY <1>7, <1>8
<1>10. f[0] = s0 /\ \A i \in 1 .. n : f[i] = CutRound(f[i - 1], line, pos)
  <2>1. 0 \in 0 .. n /\ \A i \in 1 .. n : i \in 0 .. n /\ i # 0
    BY <1>1
  <2> QED BY <1>9, <2>1, Zenon
<1>11. \A i \in 0 .. n : f[i] \in S
  <2> DEFINE T == {i \in Nat : i <= n => f[i] \in S}
  <2>1. 0 \in T
    BY <1>2, <1>10
  <2>2. ASSUME NEW i \in Nat, i \in T PROVE i + 1 \in T
    <3>1. CASE i + 1 <= n
      <4>1. i <= n /\ i + 1 \in 1 .. n /\ (i + 1) - 1 = i
        BY <3>1, <1>1
      <4>2. f[i + 1] = CutRound(f[i], line, pos) /\ f[i] \in S
        BY <4>1, <1>10, <2>2
      <4> QED BY <4>2, <1>3
    <3>2. CASE ~(i + 1 <= n)
      BY <3>2
    <3> QED BY <3>1, <3>2
  <2> HIDE DEF T
  <2>3. Nat \subseteq T
    BY <2>1, <2>2, Induction
  <2> QED BY <2>3, <1>1 DEF T
<1> QED BY <1>1, <1>10, <1>11 DEF S, n, line, pos, s0, Rounds

\* Rounds after the last change nothing.
LEMMA Settled ==
  ASSUME NEW n \in Nat, NEW f, NEW line, NEW pos,
         Rounds(f, n, line, pos),
         NEW j \in 0 .. n, f[j].count <= 0
  PROVE  f[n] = f[j]
<1> DEFINE T == {i \in Nat : j + i <= n => f[j + i] = f[j]}
<1>1. 0 \in T
  <2>1. j + 0 = j
    OBVIOUS
  <2> QED BY <2>1
<1>2. ASSUME NEW i \in Nat, i \in T PROVE i + 1 \in T
  <2>1. CASE j + (i + 1) <= n
    <3>1. j + (i + 1) \in 1 .. n /\ (j + (i + 1)) - 1 = j + i /\ j + i <= n
      BY <2>1
    <3>2. f[j + (i + 1)] = CutRound(f[j + i], line, pos) /\ f[j + i] = f[j]
      BY <3>1, <1>2 DEF Rounds
    <3>3. CutRound(f[j], line, pos) = f[j]
      BY RoundStops
    <3> QED BY <3>2, <3>3
  <2>2. CASE ~(j + (i + 1) <= n)
    BY <2>2
  <2> QED BY <2>1, <2>2
<1>3. n - j \in Nat /\ j + (n - j) = n
  OBVIOUS
<1> HIDE DEF T
<1>4. n - j \in T
  BY <1>1, <1>2, <1>3, Induction
<1> QED BY <1>3, <1>4 DEF T

\* Cut is where the rounds end.
LEMMA CutIs ==
  ASSUME NEW d, NEW line, NEW pos, NEW k
  PROVE  Cut(d, line, pos, k) = CutRounds(d, line, pos, k)[Length(d)]
  BY Zenon DEF Cut, Length

\* What Cut removed and what it left make up the text it was given.
LEMMA CutReached ==
  ASSUME NEW a \in Text, NEW p \in Line, NEW x \in Line, NEW b \in Text, NEW k \in Int
  PROVE  Cut(CutLine(a, p, x, b), Length(a) + 1, Length(p), k)
           \in Reached(a, p, CutLine(a, p, x, b))
<1> DEFINE d == CutLine(a, p, x, b)
<1>1. Length(d) \in Nat
  BY CutLineType, LengthNat, TextIsList
<1>2. Length(d) \in 0 .. Length(d)
  BY <1>1
<1> QED BY <1>2, CutIs, RoundsAre

\* A removal within a line.
LEMMA CutWithin ==
  ASSUME NEW a \in Text, NEW p \in Line, NEW x \in Line, NEW b \in Text, NEW k \in 1 .. Length(x)
  PROVE  Cut(CutLine(a, p, x, b), Length(a) + 1, Length(p), k)
           = Cutting(CutLine(a, p, From(x, k), b), 0, One(Upto(x, k)))
<1> DEFINE d == CutLine(a, p, x, b)
           n == Length(d)
           f == CutRounds(d, Length(a) + 1, Length(p), k)
<1>1. n = Length(a) + 1 + Length(b) /\ Length(a) \in Nat /\ Length(b) \in Nat
  BY CutLineType
<1>2. n \in Nat /\ 1 \in 1 .. n /\ 1 \in 0 .. n /\ 1 - 1 = 0 /\ k \in Int
  BY <1>1
<1>3. /\ f[0] = Cutting(d, k, One(Nil))
      /\ Rounds(f, n, Length(a) + 1, Length(p))
  BY <1>2, RoundsAre
<1> HIDE DEF f
<1>4. f[1] = Cutting(CutLine(a, p, From(x, k), b), 0, Ext(One(Nil), Upto(x, k)))
  <2>1. f[1] = CutRound(Cutting(d, k, One(Nil)), Length(a) + 1, Length(p))
    BY <1>2, <1>3 DEF Rounds
  <2> QED BY <2>1, RoundWithin
<1>5. Ext(One(Nil), Upto(x, k)) = One(Upto(x, k))
  <2>1. k \in 0 .. Length(x)
    OBVIOUS
  <2>2. Upto(x, k) \in Line
    BY <2>1, UptoType, TextIsList
  <2>3. Cat(Nil, One(Nil)) = One(Nil) /\ Cat(Nil, Upto(x, k)) = Upto(x, k)
        /\ Cat(Nil, One(Upto(x, k))) = One(Upto(x, k))
    BY <2>2, EmptyLine, OneType, TextIsList
  <2> QED BY <2>2, <2>3, ExtLast, EmptyLine
<1>6. f[1].count = 0
  BY <1>4, CuttingIs
<1>7. f[n] = f[1]
  <2> HIDE DEF n
  <2> QED BY <1>2, <1>3, <1>6, Settled
<1>8. Cut(d, Length(a) + 1, Length(p), k) = f[n]
  BY CutIs DEF f
<1> QED BY <1>4, <1>5, <1>7, <1>8

\* The recursion of Offsets.
LEMMA OffsetsAre ==
  ASSUME NEW t \in Text
  PROVE  /\ Offsets(t)[0] = 0
         /\ \A k \in 1 .. Length(t) : Offsets(t)[k] = Offsets(t)[k - 1] + Length(At(t, k)) + 1
         /\ \A k \in 0 .. Length(t) : Offsets(t)[k] \in Int
<1> DEFINE n == Length(t)
           I == Int
           step == [i \in 1 .. n |-> [s \in I |-> s + Length(At(t, i)) + 1]]
           o == Offsets(t)
<1>1. n \in Nat
  BY LengthNat, TextIsList
<1>2. \A i \in 1 .. n : Length(At(t, i)) \in Nat
  <2>1. \A i \in 1 .. n : At(t, i) \in Line
    BY AtType, TextIsList
  <2> QED BY <2>1, LengthNat, TextIsList
<1> HIDE DEF n
<1>3. step \in Steps(I, n)
  BY <1>2 DEF Steps
<1>4. PICK g \in [0 .. n -> I] : g[0] = 0 /\ \A i \in 1 .. n : g[i] = step[i][g[i - 1]]
  <2>1. 0 \in I
    OBVIOUS
  <2> HIDE DEF step, I
  <2> QED BY <1>1, <1>3, <2>1, Recursion
<1>5. \A i \in 1 .. n : i - 1 \in 0 .. n
  BY <1>1
<1>6. \A i \in 1 .. n : g[i] = g[i - 1] + Length(At(t, i)) + 1
  BY <1>4, <1>5
<1>7. g = [i \in 0 .. n |-> IF i = 0 THEN 0 ELSE g[i - 1] + Length(At(t, i)) + 1]
  <2>1. \A i \in 0 .. n : i = 0 \/ i \in 1 .. n
    BY <1>1
  <2> QED BY <1>4, <1>6, <2>1
<1>8. o = CHOOSE h : h = [i \in 0 .. n |-> IF i = 0 THEN 0 ELSE h[i - 1] + Length(At(t, i)) + 1]
  BY Zenon DEF Offsets, n, Length, At
<1>9. o = [i \in 0 .. n |-> IF i = 0 THEN 0 ELSE o[i - 1] + Length(At(t, i)) + 1]
  BY <1>7, <1>8
<1> HIDE DEF o, step
<1>10. o[0] = 0 /\ \A i \in 1 .. n : o[i] = o[i - 1] + Length(At(t, i)) + 1
  <2>1. 0 \in 0 .. n /\ \A i \in 1 .. n : i \in 0 .. n /\ i # 0
    BY <1>1
  <2> QED BY <1>9, <2>1, Zenon
<1>11. \A i \in 0 .. n : o[i] \in Int
  <2> DEFINE T == {i \in Nat : i <= n => o[i] \in Int}
  <2>1. 0 \in T
    BY <1>10
  <2>2. ASSUME NEW i \in Nat, i \in T PROVE i + 1 \in T
    <3>1. CASE i + 1 <= n
      <4>1. i <= n /\ i + 1 \in 1 .. n /\ (i + 1) - 1 = i
        BY <3>1, <1>1
      <4>2. o[i + 1] = o[i] + Length(At(t, i + 1)) + 1 /\ o[i] \in Int
        BY <4>1, <1>10, <2>2
      <4>3. Length(At(t, i + 1)) \in Nat
        BY <4>1, <1>2
      <4> QED BY <4>2, <4>3
    <3>2. CASE ~(i + 1 <= n)
      BY <3>2
    <3> QED BY <3>1, <3>2
  <2> HIDE DEF T
  <2>3. Nat \subseteq T
    BY <2>1, <2>2, Induction
  <2> QED BY <2>3, <1>1 DEF T
<1> QED BY <1>10, <1>11 DEF n, o

\* Each line adds a character at least, its end.
LEMMA OffsetsGrow ==
  ASSUME NEW t \in Text, NEW j \in 0 .. Length(t), NEW k \in j .. Length(t)
  PROVE  Offsets(t)[j] + (k - j) <= Offsets(t)[k]
<1> DEFINE o == Offsets(t)
           n == Length(t)
           T == {i \in Nat : j + i <= n => o[j] + i <= o[j + i]}
<1>0. n \in Nat
  BY LengthNat, TextIsList
<1>1. /\ \A i \in 1 .. n : o[i] = o[i - 1] + Length(At(t, i)) + 1
      /\ \A i \in 0 .. n : o[i] \in Int
  BY OffsetsAre
<1>2. \A i \in 1 .. n : Length(At(t, i)) \in Nat
  <2>1. \A i \in 1 .. n : At(t, i) \in Line
    BY AtType, TextIsList
  <2> QED BY <2>1, LengthNat, TextIsList
<1> HIDE DEF o, n
<1>3. j \in 0 .. n /\ k \in j .. n
  BY DEF n
<1>4. 0 \in T
  BY <1>1, <1>3
<1>5. ASSUME NEW i \in Nat, i \in T PROVE i + 1 \in T
  <2>1. CASE j + (i + 1) <= n
    <3>1. /\ j + i <= n /\ j + (i + 1) \in 1 .. n /\ (j + (i + 1)) - 1 = j + i
          /\ j + i \in 0 .. n
      BY <2>1, <1>0, <1>3
    <3>2. o[j + (i + 1)] = o[j + i] + Length(At(t, j + (i + 1))) + 1 /\ o[j] + i <= o[j + i]
      BY <3>1, <1>1, <1>5
    <3>3. Length(At(t, j + (i + 1))) \in Nat /\ o[j + i] \in Int /\ o[j] \in Int
      BY <3>1, <1>1, <1>2, <1>3
    <3> QED BY <3>2, <3>3
  <2>2. CASE ~(j + (i + 1) <= n)
    BY <2>2
  <2> QED BY <2>1, <2>2
<1>6. k - j \in Nat /\ j + (k - j) = k /\ k <= n
  BY <1>0, <1>3
<1> HIDE DEF T
<1>7. k - j \in T
  BY <1>4, <1>5, <1>6, Induction
<1>8. o[j] + (k - j) <= o[k]
  BY <1>6, <1>7 DEF T
<1> QED BY <1>8 DEF o

-----------------------------------------------------------------------------
(* What was inserted is removed *)

\* A sequence from the next place on.
LEMMA Peel ==
  ASSUME NEW S, NEW t \in List(S), NEW k \in Nat, k < Length(t)
  PROVE  /\ At(t, k + 1) \in S
         /\ From(t, k) = Cat(One(At(t, k + 1)), From(t, k + 1))
         /\ Upto(t, k + 1) = Cat(Upto(t, k), One(At(t, k + 1)))
<1>1. Length(t) \in Nat
  BY LengthNat
<1>2. k + 1 \in 1 .. Length(t) /\ (k + 1) - 1 = k
  BY <1>1
<1>3. /\ Upto(t, k) \in List(S) /\ Length(Upto(t, k)) = k
      /\ From(t, k + 1) \in List(S) /\ At(t, k + 1) \in S
      /\ t = Around(Upto(t, k), At(t, k + 1), From(t, k + 1))
  BY <1>2, Split
<1> DEFINE u == Upto(t, k)
           x == At(t, k + 1)
           f == From(t, k + 1)
<1>4. u \in List(S) /\ Length(u) = k /\ f \in List(S) /\ x \in S /\ t = Around(u, x, f)
  BY <1>3
<1> HIDE DEF u, x, f
<1>5. From(t, k) = Cat(One(x), f) /\ Upto(t, k + 1) = Cat(u, One(x))
  BY <1>4, AroundParts
<1> QED BY <1>4, <1>5 DEF u, x, f

\* The text u between the parts p and q of a line, between the lines a and b.
Inserted(a, p, u, q, b) == Cat(a, Cat(Glue(p, u, q), b))

\* The line in which an inserted text begins.
LEMMA InsertedLine ==
  ASSUME NEW a \in Text, NEW p \in Line, NEW u \in Full, NEW q \in Line, NEW b \in Text
  PROVE  \E y \in Line, c \in Text :
           /\ Cat(Glue(Nil, u, q), b) = Cat(One(y), c)
           /\ Inserted(a, p, u, q, b) = CutLine(a, p, y, c)
<1>1. PICK y \in Line, c \in Text :
           /\ Glue(Nil, u, q) = Cat(One(y), c)
           /\ \A w \in Line : Glue(w, u, q) = Cat(One(Cat(w, y)), c)
  BY GlueFirst
<1>2. Cat(c, b) \in Text /\ One(y) \in Text
  BY CatType, OneType, TextIsList
<1>3. Cat(Glue(Nil, u, q), b) = Cat(One(y), Cat(c, b))
  BY <1>1, <1>2, CatAssociative, TextIsList
<1>4. Inserted(a, p, u, q, b) = CutLine(a, p, y, Cat(c, b))
  <2>1. One(Cat(p, y)) \in Text
    BY CatType, OneType, TextIsList
  <2>2. Cat(Glue(p, u, q), b) = Cat(One(Cat(p, y)), Cat(c, b))
    BY <1>1, <2>1, CatAssociative, TextIsList
  <2> QED BY <2>2 DEF Inserted, CutLine, Around
<1> QED BY <1>2, <1>3, <1>4

\* A round over an inserted text takes its first line.
LEMMA InsertedRound ==
  ASSUME NEW a \in Text, NEW p \in Line, NEW x \in Line, NEW u \in Full, NEW q \in Line,
         NEW b \in Text, NEW m \in Nat, m > Length(x), NEW r \in Text
  PROVE  CutRound(Cutting(Inserted(a, p, Cat(One(x), u), q, b), m, Cat(r, One(Nil))),
                  Length(a) + 1, Length(p))
           = Cutting(Inserted(a, p, u, q, b), m - Length(x) - 1, Cat(Cat(r, One(x)), One(Nil)))
<1>1. PICK y \in Line, c \in Text :
           /\ Cat(Glue(Nil, u, q), b) = Cat(One(y), c)
           /\ Inserted(a, p, u, q, b) = CutLine(a, p, y, c)
  BY InsertedLine
<1>2. Glue(p, Cat(One(x), u), q) = Cat(One(Cat(p, x)), Glue(Nil, u, q))
  BY GlueStep
<1>3. Glue(Nil, u, q) \in Text /\ One(Cat(p, x)) \in Text
  BY GlueType, EmptyLine, CatType, OneType, TextIsList DEF Full
<1>4. Cat(Glue(p, Cat(One(x), u), q), b) = Cat(One(Cat(p, x)), Cat(One(y), c))
  BY <1>1, <1>2, <1>3, CatAssociative, TextIsList
<1>5. Inserted(a, p, Cat(One(x), u), q, b) = CutLine(a, p, x, Cat(One(y), c))
  BY <1>4 DEF Inserted, CutLine, Around
<1>6. CutRound(Cutting(CutLine(a, p, x, Cat(One(y), c)), m, Cat(r, One(Nil))),
               Length(a) + 1, Length(p))
        = Cutting(CutLine(a, p, y, c), m - Length(x) - 1, More(Ext(Cat(r, One(Nil)), x)))
  BY RoundJoin DEF More
<1>7. Ext(Cat(r, One(Nil)), x) = Cat(r, One(x))
  BY ExtLast, EmptyLine
<1>8. More(Cat(r, One(x))) = Cat(Cat(r, One(x)), One(Nil))
  BY MoreIs, OneType, CatType, TextIsList
<1>9. CutLine(a, p, y, c) = Inserted(a, p, u, q, b)
  BY <1>1
<1> QED BY <1>5, <1>6, <1>7, <1>8, <1>9

\* The last round takes its last line.
LEMMA InsertedLast ==
  ASSUME NEW a \in Text, NEW p \in Line, NEW x \in Line, NEW q \in Line,
         NEW b \in Text, NEW r \in Text
  PROVE  CutRound(Cutting(Inserted(a, p, One(x), q, b), Length(x), Cat(r, One(Nil))),
                  Length(a) + 1, Length(p))
           = Cutting(CutLine(a, p, q, b), 0, Cat(r, One(x)))
<1>1. Length(x) \in Nat
  BY LengthNat, TextIsList
<1>2. Inserted(a, p, One(x), q, b) = CutLine(a, p, Cat(x, q), b)
  BY GlueOne DEF Inserted, CutLine, Around
<1>3. CASE Length(x) = 0
  <2>1. x = Nil
    BY <1>3, NilLength, TextIsList
  <2>2. Cat(x, q) = q
    BY <2>1, EmptyLine
  <2>3. CutRound(Cutting(CutLine(a, p, q, b), 0, Cat(r, One(Nil))), Length(a) + 1, Length(p))
          = Cutting(CutLine(a, p, q, b), 0, Cat(r, One(Nil)))
    <3>1. Cutting(CutLine(a, p, q, b), 0, Cat(r, One(Nil))).count = 0
      BY CuttingIs
    <3> QED BY <3>1, RoundStops
  <2> QED BY <1>2, <1>3, <2>1, <2>2, <2>3
<1>4. CASE Length(x) > 0
  <2>1. /\ Cat(x, q) \in Line /\ Length(Cat(x, q)) = Length(x) + Length(q) /\ Length(q) \in Nat
        /\ Upto(Cat(x, q), Length(x)) = x /\ From(Cat(x, q), Length(x)) = q
    BY CatType, LengthNat, Parts, TextIsList
  <2>2. Length(x) \in 1 .. Length(Cat(x, q))
    BY <1>1, <1>4, <2>1
  <2>3. CutRound(Cutting(CutLine(a, p, Cat(x, q), b), Length(x), Cat(r, One(Nil))),
                 Length(a) + 1, Length(p))
          = Cutting(CutLine(a, p, q, b), 0, Ext(Cat(r, One(Nil)), x))
    BY <2>1, <2>2, RoundWithin
  <2>4. Ext(Cat(r, One(Nil)), x) = Cat(r, One(x))
    BY ExtLast, EmptyLine
  <2> QED BY <1>2, <2>3, <2>4
<1> QED BY <1>1, <1>3, <1>4

\* Cut removes a text that was inserted, whatever its lines.
LEMMA CutInserted ==
  ASSUME NEW a \in Text, NEW p \in Line, NEW t \in Full, NEW q \in Line, NEW b \in Text
  PROVE  Cut(Inserted(a, p, t, q, b), Length(a) + 1, Length(p), Size(t))
           = Cutting(CutLine(a, p, q, b), 0, t)
<1> DEFINE d == Inserted(a, p, t, q, b)
           n == Length(t)
           o == Offsets(t)
           line == Length(a) + 1
           pos == Length(p)
           f == CutRounds(d, line, pos, Size(t))
           N == Length(d)
<1>1. t \in Text /\ n \in Nat /\ n >= 1 /\ n - 1 \in Nat
  BY LengthNat, TextIsList DEF Full
<1>2. Size(t) = o[n] - 1
  BY Zenon DEF Size, Length
<1>3. \A k \in 0 .. n : o[k] \in Int
  BY <1>1, OffsetsAre
<1>4. o[0] = 0 /\ \A k \in 1 .. n : o[k] = o[k - 1] + Length(At(t, k)) + 1
  BY <1>1, OffsetsAre
<1>5. Size(t) \in Int
  <2> HIDE DEF o, n
  <2>1. n \in 0 .. n
    BY <1>1
  <2> QED BY <2>1, <1>2, <1>3
<1>6. PICK y \in Line, c \in Text : d = CutLine(a, p, y, c)
  BY InsertedLine
<1>7. N \in Nat /\ f[0] = Cutting(d, Size(t), One(Nil)) /\ Rounds(f, N, line, pos)
  <2> DEFINE s == Size(t)
  <2>1. s \in Int
    BY <1>5
  <2> HIDE DEF s, d
  <2> DEFINE e == CutLine(a, p, y, c)
             g == CutRounds(e, line, pos, s)
  <2>2. Length(e) \in Nat /\ g[0] = Cutting(e, s, One(Nil)) /\ Rounds(g, Length(e), line, pos)
    BY <2>1, RoundsAre
  <2> QED BY <2>2, <1>6 DEF s
<1>8. n <= N
  <2>1. Glue(p, t, q) \in Text /\ Length(Glue(p, t, q)) = n
    BY GlueType DEF Full
  <2>2. Cat(Glue(p, t, q), b) \in Text /\ Length(Cat(Glue(p, t, q), b)) = n + Length(b)
    BY <2>1, CatType, TextIsList
  <2>3. N = Length(a) + (n + Length(b))
    BY <2>2, CatType, TextIsList DEF Inserted
  <2>4. Length(a) \in Nat /\ Length(b) \in Nat
    BY LengthNat, TextIsList
  <2> QED BY <1>1, <2>3, <2>4
<1>9. Cut(d, line, pos, Size(t)) = f[N]
  BY CutIs
<1> DEFINE Rest(k) == Inserted(a, p, From(t, k), q, b)
           Cuts(k) == Cutting(Rest(k), o[n] - 1 - o[k], Cat(Upto(t, k), One(Nil)))
           T == {k \in Nat : k < n => f[k] = Cuts(k)}
<1>10. 0 \in T
  <2>1. From(t, 0) = t /\ Upto(t, 0) = Nil
    BY <1>1, Whole, TextIsList
  <2>2. Cat(Nil, One(Nil)) = One(Nil)
    BY EmptyLine, OneType, TextIsList
  <2>3. Cuts(0) = Cutting(d, o[n] - 1 - 0, One(Nil))
    BY <2>1, <2>2, <1>4
  <2>4. o[n] - 1 - 0 = Size(t)
    BY <1>2, <1>5
  <2>5. f[0] = Cuts(0)
    BY <2>3, <2>4, <1>7
  <2> HIDE DEF f, Cuts, n
  <2> QED BY <2>5
<1>11. ASSUME NEW k \in Nat, k < n
       PROVE  /\ From(t, k) = Cat(One(At(t, k + 1)), From(t, k + 1))
              /\ Upto(t, k + 1) = Cat(Upto(t, k), One(At(t, k + 1)))
              /\ At(t, k + 1) \in Line
              /\ From(t, k + 1) \in Text /\ Upto(t, k) \in Text
              /\ Length(From(t, k + 1)) = n - (k + 1)
  <2>1. k + 1 \in 0 .. n /\ k \in 0 .. n
    BY <1>1, <1>11
  <2> QED BY <1>1, <1>11, <2>1, Peel, FromType, UptoType, TextIsList
<1>12. ASSUME NEW k \in Nat, k \in T PROVE k + 1 \in T
  <2>1. CASE k + 1 < n
    <3> DEFINE x == At(t, k + 1)
               u == From(t, k + 1)
               m == o[n] - 1 - o[k]
    <3>1. k < n /\ f[k] = Cuts(k)
      <4> HIDE DEF f, Cuts, n
      <4> QED BY <2>1, <1>1, <1>12
    <3>2. x \in Line /\ u \in Text /\ Upto(t, k) \in Text /\ u \in Full
      <4>1. x \in Line /\ u \in Text /\ Upto(t, k) \in Text /\ Length(u) = n - (k + 1)
        BY <3>1, <1>11
      <4>2. Length(u) >= 1
        BY <4>1, <2>1, <1>1
      <4> QED BY <4>1, <4>2 DEF Full
    <3>3. /\ o[k + 1] = o[k] + Length(x) + 1 /\ o[k + 1] + (n - (k + 1)) <= o[n]
          /\ o[k] \in Int /\ o[n] \in Int /\ o[k + 1] \in Int
      <4>1. k + 1 \in 1 .. n /\ (k + 1) - 1 = k /\ k + 1 \in 0 .. n /\ n \in (k + 1) .. n /\ k \in 0 .. n
            /\ n \in 0 .. n
        BY <1>1, <2>1
      <4>2. o[k + 1] + (n - (k + 1)) <= o[n]
        BY <1>1, <4>1, OffsetsGrow
      <4> HIDE DEF o, n
      <4> QED BY <4>1, <4>2, <1>3, <1>4
    <3>4. Length(x) \in Nat
      BY <3>2, LengthNat, TextIsList
    <3>5. m \in Nat /\ m > Length(x) /\ m - Length(x) - 1 = o[n] - 1 - o[k + 1]
      <4> HIDE DEF o, n, x
      <4> QED BY <3>3, <3>4, <2>1, <1>1
    <3> HIDE DEF m
    <3>6. f[k] = Cutting(Inserted(a, p, Cat(One(x), u), q, b), m, Cat(Upto(t, k), One(Nil)))
      BY <3>1, <1>11 DEF m
    <3>7. Upto(t, k + 1) = Cat(Upto(t, k), One(x))
      BY <3>1, <1>11
    <3>8. CutRound(Cutting(Inserted(a, p, Cat(One(x), u), q, b), m, Cat(Upto(t, k), One(Nil))), line, pos)
            = Cutting(Inserted(a, p, u, q, b), m - Length(x) - 1,
                    Cat(Cat(Upto(t, k), One(x)), One(Nil)))
      <4> HIDE DEF x, u
      <4> QED BY <3>2, <3>5, InsertedRound
    <3>9. f[k + 1] = CutRound(f[k], line, pos)
      <4>1. k + 1 \in 1 .. N /\ (k + 1) - 1 = k
        BY <1>1, <1>7, <1>8, <2>1
      <4> HIDE DEF f, N
      <4> QED BY <4>1, <1>7 DEF Rounds
    <3>10. f[k + 1] = Cuts(k + 1)
      <4> HIDE DEF f, x, u
      <4> QED BY <3>5, <3>6, <3>7, <3>8, <3>9 DEF u
    <3> HIDE DEF f, Cuts
    <3> QED BY <3>10
  <2>2. CASE ~(k + 1 < n)
    <3> HIDE DEF n, Cuts, f
    <3> QED BY <2>2
  <2> QED BY <2>1, <2>2
<1>13. n - 1 \in T
  <2> HIDE DEF T
  <2> QED BY <1>1, <1>10, <1>12, Induction
<1> DEFINE x == At(t, n)
           r == Upto(t, n - 1)
<1>14. /\ From(t, n - 1) = Cat(One(x), From(t, n))
       /\ Upto(t, n) = Cat(r, One(x)) /\ x \in Line /\ r \in Text
  <2>1. n - 1 < n /\ (n - 1) + 1 = n
    BY <1>1
  <2> QED BY <1>1, <1>11, <2>1
<1>15. From(t, n) = Nil /\ Upto(t, n) = t
  BY <1>1, Whole, TextIsList
<1>16. From(t, n - 1) = One(x)
  <2> HIDE DEF x
  <2> QED BY <1>14, <1>15, EmptyLine, OneType, TextIsList
<1>17. f[n - 1] = Cutting(Inserted(a, p, One(x), q, b), Length(x), Cat(r, One(Nil)))
  <2>1. f[n - 1] = Cuts(n - 1)
    <3>1. n - 1 < n
      BY <1>1
    <3> HIDE DEF f, Cuts, n
    <3> QED BY <3>1, <1>13
  <2>2. o[n] - 1 - o[n - 1] = Length(x)
    <3>1. n \in 1 .. n /\ n - 1 \in 0 .. n
      BY <1>1
    <3>2. o[n] = o[n - 1] + Length(x) + 1 /\ o[n - 1] \in Int
      <4> HIDE DEF o, n
      <4> QED BY <3>1, <1>3, <1>4
    <3>3. Length(x) \in Nat
      BY <1>14, LengthNat, TextIsList
    <3> HIDE DEF o, n, x
    <3> QED BY <3>2, <3>3
  <2> HIDE DEF f, x
  <2> QED BY <2>1, <2>2, <1>16
<1>18. f[n] = CutRound(f[n - 1], line, pos)
  <2>1. n \in 1 .. N
    BY <1>1, <1>7, <1>8
  <2> HIDE DEF f, N, n
  <2> QED BY <2>1, <1>7 DEF Rounds
<1>19. f[n] = Cutting(CutLine(a, p, q, b), 0, t)
  <2> HIDE DEF x, r, f
  <2>1. CutRound(Cutting(Inserted(a, p, One(x), q, b), Length(x), Cat(r, One(Nil))), line, pos)
          = Cutting(CutLine(a, p, q, b), 0, Cat(r, One(x)))
    BY <1>14, InsertedLast
  <2> QED BY <2>1, <1>14, <1>15, <1>17, <1>18
<1>20. f[N] = f[n]
  <2>1. f[n].count = 0
    BY <1>19, CuttingIs
  <2>2. n \in 0 .. N
    BY <1>1, <1>7, <1>8
  <2> HIDE DEF f, N, n, line, pos
  <2> QED BY <1>7, <2>1, <2>2, Settled
<1> QED BY <1>9, <1>19, <1>20

\* n empty lines.
EmptyLines(n) == [i \in 1 .. n |-> << >>]

\* A line of blanks.
LEMMA FillType ==
  ASSUME NEW n \in Nat
  PROVE  /\ Fill(n) \in Line /\ Length(Fill(n)) = n
         /\ \A i \in 1 .. n : At(Fill(n), i) = Blank
<1>1. Blank \in Chars
  BY CharsAssumption
<1> QED BY <1>1 DEF Fill, Line, Length, At

\* A text of empty lines.
LEMMA EmptyLinesType ==
  ASSUME NEW n \in Nat
  PROVE  EmptyLines(n) \in Text /\ Length(EmptyLines(n)) = n
         /\ \A i \in 1 .. n : At(EmptyLines(n), i) = Nil
<1>1. Nil \in Line
  BY EmptyLine
<1>2. EmptyLines(n) = [i \in 1 .. n |-> Nil]
  BY DEF EmptyLines, Nil
<1>3. [i \in 1 .. n |-> Nil] \in Seq(Line) /\ Len([i \in 1 .. n |-> Nil]) = n
  <2> HIDE DEF Nil
  <2> QED BY <1>1
<1>4. \A i \in 1 .. n : [j \in 1 .. n |-> Nil][i] = Nil
  OBVIOUS
<1> HIDE DEF Nil
<1> QED BY <1>2, <1>3, <1>4 DEF Text, Length, At

\* The blanks of a line.
Blanks(line) == {i \in 1 .. Length(line) : At(line, i) = Blank}

\* Trim in terms of the laws of sequences.
LEMMA TrimIs ==
  ASSUME NEW s \in Line, NEW n
  PROVE  Trim(s, n) = Upto(s, Length(s) - Min2(n, Cardinality(Blanks(s))))
<1>1. DOMAIN s = 1 .. Len(s)
  BY DEF Line
<1> QED BY <1>1, Zenon DEF Trim, Blanks, Length, At

\* Trim takes back the blanks a line was filled with.
LEMMA TrimFill ==
  ASSUME NEW l \in Line, NEW n \in Nat
  PROVE  Trim(Cat(l, Fill(n)), n) = l
<1> DEFINE s == Cat(l, Fill(n))
           m == Length(l)
           I == m + 1 .. m + n
<1>1. /\ s \in Line /\ Length(s) = m + n /\ m \in Nat
      /\ Fill(n) \in Line /\ Length(Fill(n)) = n /\ \A i \in 1 .. n : At(Fill(n), i) = Blank
  BY FillType, CatType, LengthNat, TextIsList
<1>2. \A i \in I : At(s, i) = Blank /\ i \in 1 .. m + n
  <2> SUFFICES ASSUME NEW i \in I PROVE At(s, i) = Blank /\ i \in 1 .. m + n
    OBVIOUS
  <2>1. i - m \in 1 .. n /\ m + (i - m) = i /\ i \in 1 .. m + n
    BY <1>1
  <2>2. At(s, m + (i - m)) = At(Fill(n), i - m)
    BY <1>1, <2>1, CatSecond, TextIsList
  <2> QED BY <1>1, <2>1, <2>2
<1> HIDE DEF s
<1>3. I \subseteq Blanks(s) /\ Blanks(s) \subseteq 1 .. m + n
  BY <1>1, <1>2 DEF Blanks
<1>4. IsFiniteSet(1 .. m + n) /\ Cardinality(I) = n
  <2> DEFINE u == m + 1
             v == m + n
  <2>1. u \in Int /\ v \in Int /\ v - u + 1 = n /\ (u > v => n = 0)
    BY <1>1
  <2> HIDE DEF u, v
  <2>2. IsFiniteSet(1 .. v) /\ Cardinality(u .. v) = IF u > v THEN 0 ELSE v - u + 1
    BY <2>1, FS_Interval
  <2>3. IsFiniteSet(1 .. v) /\ Cardinality(u .. v) = n
    BY <2>1, <2>2
  <2> QED BY <2>3 DEF u, v
<1>5. IsFiniteSet(Blanks(s)) /\ Cardinality(Blanks(s)) \in Nat /\ Cardinality(I) <= Cardinality(Blanks(s))
  BY <1>3, <1>4, FS_Subset, FS_CardinalityType
<1>6. Min2(n, Cardinality(Blanks(s))) = n
  BY <1>4, <1>5 DEF Min2
<1>7. Length(s) - n = m
  BY <1>1
<1>8. Trim(s, n) = Upto(s, m)
  BY <1>1, <1>6, <1>7, TrimIs
<1>9. Upto(s, m) = l
  BY <1>1, Parts, TextIsList DEF s
<1> QED BY <1>8, <1>9 DEF s

\* Nothing trimmed.
LEMMA TrimNothing ==
  ASSUME NEW l \in Line
  PROVE  Trim(l, 0) = l
<1>1. Cat(l, Fill(0)) = l
  <2>1. Fill(0) = Nil
    BY FillType, NilLength, TextIsList
  <2> QED BY <2>1, EmptyLine
<1> QED BY <1>1, TrimFill

\* What RemoveText does after the cut.
LEMMA RemoveIs ==
  ASSUME NEW d, d # << >>, NEW line, NEW pos, NEW bl, NEW bc, NEW k,
         NEW c, c = Cut(d, line, pos, k)
  PROVE  /\ line > Length(c.doc) =>
              RemoveText(d, line, pos, bl, bc, k) =
                [doc |-> Upto(c.doc, Max2(0, Length(c.doc) - bl)), removed |-> c.removed]
         /\ ~(line > Length(c.doc)) =>
              RemoveText(d, line, pos, bl, bc, k) =
                [doc |-> Upto(Put(c.doc, line, Trim(At(c.doc, line), bc)),
                              Max2(0, Length(Put(c.doc, line, Trim(At(c.doc, line), bc))) - bl)),
                 removed |-> c.removed]
  BY Zenon DEF RemoveText, WithoutBlanks, Length, Put, At

\* The place of row line and column pos in d: the line l between the lines a and
\* b, cut in p and q, after bl lines and bc blanks are added.
Place(d, line, pos, a, l, b, p, q, bl, bc) ==
  /\ a \in Text /\ l \in Line /\ b \in Text /\ p \in Line /\ q \in Line
  /\ bl \in Nat /\ bc \in Nat
  /\ Length(a) + 1 = line /\ Length(p) = pos
  /\ Cat(p, q) = Cat(l, Fill(bc))
  /\ Around(a, l, b) = Cat(d, EmptyLines(bl))
  /\ line <= Length(d) => bl = 0
  /\ line > Length(d) => line = Length(d) + bl
  /\ pos <= Length(l) => bc = 0

\* removeText takes back exactly what insertText put at a place.
LEMMA RemoveInserted ==
  ASSUME NEW d \in Text, NEW line, NEW pos, NEW a, NEW l, NEW b, NEW p, NEW q, NEW bl, NEW bc,
         Place(d, line, pos, a, l, b, p, q, bl, bc), NEW t \in Full
  PROVE  RemoveText(Inserted(a, p, t, q, b), line, pos, bl, bc, Size(t)) =
           [doc |-> d, removed |-> t]
<1> DEFINE e == Inserted(a, p, t, q, b)
           c == Cut(e, line, pos, Size(t))
           cut == CutLine(a, p, q, b)
<1>1. /\ a \in Text /\ l \in Line /\ b \in Text /\ p \in Line /\ q \in Line
      /\ bl \in Nat /\ bc \in Nat /\ line = Length(a) + 1 /\ pos = Length(p)
      /\ Cat(p, q) = Cat(l, Fill(bc)) /\ Around(a, l, b) = Cat(d, EmptyLines(bl))
  BY DEF Place
<1>2. c = Cutting(cut, 0, t)
  BY <1>1, CutInserted
<1>3. c.doc = cut /\ c.removed = t
  BY <1>2, CuttingIs
<1>4. /\ Length(cut) = line + Length(b) /\ At(cut, line) = Cat(p, q) /\ line \in Nat /\ Length(b) \in Nat
      /\ Cat(p, q) \in Line
  <2>1. /\ Length(cut) = Length(a) + 1 + Length(b) /\ At(cut, Length(a) + 1) = Cat(p, q)
        /\ Length(a) \in Nat /\ Length(b) \in Nat /\ Cat(p, q) \in Line
    BY <1>1, CutLineType
  <2> HIDE DEF cut
  <2> QED BY <1>1, <2>1
<1>5. Put(cut, line, Trim(Cat(p, q), bc)) = Cat(d, EmptyLines(bl))
  <2>1. Trim(Cat(p, q), bc) = l
    BY <1>1, TrimFill
  <2>2. Put(cut, line, l) = Around(a, l, b)
    BY <1>1, <1>4, AroundPut, TextIsList DEF CutLine
  <2> QED BY <1>1, <2>1, <2>2
<1>6. Upto(Cat(d, EmptyLines(bl)), Max2(0, Length(Cat(d, EmptyLines(bl))) - bl)) = d
  <2>1. EmptyLines(bl) \in Text /\ Length(EmptyLines(bl)) = bl /\ Length(d) \in Nat
    BY <1>1, EmptyLinesType, LengthNat, TextIsList
  <2>2. Length(Cat(d, EmptyLines(bl))) = Length(d) + bl
    BY <2>1, CatType, TextIsList
  <2>3. Max2(0, Length(Cat(d, EmptyLines(bl))) - bl) = Length(d)
    BY <1>1, <2>1, <2>2 DEF Max2
  <2> QED BY <2>1, <2>3, Parts, TextIsList
<1>7. e # << >>
  <2>1. Glue(p, t, q) \in Text /\ Length(Glue(p, t, q)) >= 1
    BY <1>1, GlueType DEF Full
  <2>2. Cat(Glue(p, t, q), b) \in Text /\ Length(Cat(Glue(p, t, q), b)) = Length(Glue(p, t, q)) + Length(b)
    BY <1>1, <2>1, CatType, TextIsList
  <2>3. Length(e) = Length(a) + Length(Cat(Glue(p, t, q), b))
    BY <1>1, <2>2, CatType, TextIsList DEF Inserted
  <2>4. Length(e) # 0
    <3> HIDE DEF e
    <3>1. Length(a) \in Nat /\ Length(b) \in Nat /\ Length(Glue(p, t, q)) \in Nat
      BY <1>1, <2>1, LengthNat, TextIsList
    <3> QED BY <2>1, <2>2, <2>3, <3>1
  <2>5. Length(<< >>) = 0
    BY EmptyLine DEF Nil
  <2> QED BY <2>4, <2>5
<1>8. ~(line > Length(c.doc))
  BY <1>3, <1>4
<1> HIDE DEF c
<1>9. RemoveText(e, line, pos, bl, bc, Size(t)) =
        [doc |-> Upto(Put(c.doc, line, Trim(At(c.doc, line), bc)),
                      Max2(0, Length(Put(c.doc, line, Trim(At(c.doc, line), bc))) - bl)),
         removed |-> c.removed]
  <2> HIDE DEF e
  <2> QED BY <1>7, <1>8, RemoveIs DEF c
<1> QED BY <1>3, <1>4, <1>5, <1>6, <1>9

\* What InsertText does, in terms of the laws of sequences.
LEMMA InsertIs ==
  ASSUME NEW d, NEW line, NEW pos, NEW t,
         NEW bl, bl = Max2(0, line - Length(d)),
         NEW grown, grown = Cat(d, EmptyLines(bl)),
         NEW bc, bc = Max2(0, pos - Length(At(grown, line)) - (IF t = NewLine THEN 1 ELSE 0)),
         NEW target, target = Cat(At(grown, line), Fill(bc))
  PROVE  InsertText(d, line, pos, t) =
           [doc |-> Cat(Cat(Upto(grown, line - 1), Glue(Upto(target, pos), t, From(target, pos))),
                        From(grown, line)),
            blankLines |-> bl, blankChars |-> bc]
  BY Zenon DEF InsertText, Length, EmptyLines, At, Cat

\* InsertText puts a text where Place says.
InsertsAt(d, line, pos, a, b, p, q, bl, bc) ==
  \A t \in Full : (t = NewLine => pos <= Length(LineAt(d, line))) =>
    InsertText(d, line, pos, t) =
      [doc |-> Inserted(a, p, t, q, b), blankLines |-> bl, blankChars |-> bc]

\* Every row and column is a place of the text.
LEMMA PlaceOf ==
  ASSUME NEW d \in Text, NEW line \in Nat, line >= 1, NEW pos \in Nat
  PROVE  \E a \in Text, b \in Text, p \in Line, q \in Line, bl \in Nat, bc \in Nat :
           /\ Place(d, line, pos, a, LineAt(d, line), b, p, q, bl, bc)
           /\ InsertsAt(d, line, pos, a, b, p, q, bl, bc)
<1> DEFINE bl == Max2(0, line - Length(d))
           grown == Cat(d, EmptyLines(bl))
           l == At(grown, line)
           bc == Max2(0, pos - Length(l))
           target == Cat(l, Fill(bc))
           a == Upto(grown, line - 1)
           b == From(grown, line)
           p == Upto(target, pos)
           q == From(target, pos)
<1>1. Length(d) \in Nat /\ bl \in Nat /\ line <= Length(d) + bl /\ (line <= Length(d) => bl = 0)
      /\ (line > Length(d) => line = Length(d) + bl)
  BY LengthNat, TextIsList DEF Max2
<1> HIDE DEF bl
<1>2. /\ EmptyLines(bl) \in Text /\ Length(EmptyLines(bl)) = bl
      /\ \A i \in 1 .. bl : At(EmptyLines(bl), i) = Nil
  BY <1>1, EmptyLinesType
<1>3. grown \in Text /\ Length(grown) = Length(d) + bl
  BY <1>2, CatType, TextIsList
<1>4. l = LineAt(d, line)
  <2>1. CASE line <= Length(d)
    <3>1. line \in 1 .. Length(d)
      BY <2>1, <1>1
    <3>2. l = At(d, line)
      BY <1>2, <3>1, CatFirst, TextIsList
    <3>3. line \in DOMAIN d /\ At(d, line) = d[line]
      BY <3>1 DEF Text, Length, At
    <3> QED BY <3>2, <3>3 DEF LineAt
  <2>2. CASE line > Length(d)
    <3>1. bl \in 1 .. bl /\ Length(d) + bl = line
      BY <2>2, <1>1
    <3>2. l = At(EmptyLines(bl), bl)
      BY <1>2, <3>1, CatSecond, TextIsList
    <3>3. line \notin DOMAIN d
      BY <2>2 DEF Text, Length
    <3> QED BY <1>2, <3>1, <3>2, <3>3 DEF LineAt, Nil
  <2> QED BY <1>1, <2>1, <2>2
<1> HIDE DEF grown
<1>5. line \in 1 .. Length(grown) /\ (line - 1) + 1 = line
  BY <1>1, <1>3
<1>6. /\ l \in Line /\ a \in Text /\ Length(a) = line - 1 /\ b \in Text /\ grown = Around(a, l, b)
  BY <1>3, <1>5, Split, TextIsList
<1>7. Length(l) \in Nat /\ bc \in Nat /\ pos <= Length(l) + bc /\ (pos <= Length(l) => bc = 0)
  BY <1>6, LengthNat, TextIsList DEF Max2
<1> HIDE DEF l
<1>8. ASSUME NEW t \in Full, t = NewLine => pos <= Length(l)
      PROVE  bc = Max2(0, pos - Length(l) - (IF t = NewLine THEN 1 ELSE 0))
  <2>1. CASE t = NewLine
    BY <1>7, <1>8, <2>1 DEF Max2
  <2>2. CASE t # NewLine
    BY <1>7, <2>2 DEF Max2
  <2> QED BY <2>1, <2>2
<1> HIDE DEF bc
<1>9. target \in Line /\ Length(target) = Length(l) + bc
  BY <1>6, <1>7, FillType, CatType, TextIsList
<1>10. pos \in 0 .. Length(target)
  BY <1>7, <1>9
<1> HIDE DEF target
<1>11. p \in Line /\ Length(p) = pos /\ q \in Line /\ Cat(p, q) = target
  BY <1>9, <1>10, UptoType, FromType, UptoFrom, TextIsList
<1>12. ASSUME NEW t \in Full, t = NewLine => pos <= Length(l)
       PROVE  InsertText(d, line, pos, t) =
                [doc |-> Inserted(a, p, t, q, b), blankLines |-> bl, blankChars |-> bc]
  <2>1. InsertText(d, line, pos, t) =
          [doc |-> Cat(Cat(a, Glue(p, t, q)), b), blankLines |-> bl, blankChars |-> bc]
    BY <1>8, <1>12, InsertIs DEF bl, grown, l, target
  <2>2. Glue(p, t, q) \in Text
    BY <1>11, GlueType DEF Full
  <2>3. Cat(Cat(a, Glue(p, t, q)), b) = Inserted(a, p, t, q, b)
    <3> HIDE DEF a, p, q, b
    <3> QED BY <2>2, <1>6, CatAssociative, TextIsList DEF Inserted
  <2> QED BY <2>1, <2>3
<1>13. Place(d, line, pos, a, l, b, p, q, bl, bc)
  <2>1. Length(a) + 1 = line
    BY <1>5, <1>6
  <2> HIDE DEF a, p, q, b
  <2> QED BY <2>1, <1>1, <1>6, <1>7, <1>11 DEF Place, target, grown
<1> HIDE DEF a, p, q, b
<1>14. InsertsAt(d, line, pos, a, b, p, q, bl, bc)
  BY <1>4, <1>12 DEF InsertsAt
<1> QED BY <1>1, <1>4, <1>6, <1>7, <1>11, <1>13, <1>14

-----------------------------------------------------------------------------
(* What was removed is inserted *)

\* An element replaced by itself.
LEMMA PutSame ==
  ASSUME NEW S, NEW d \in List(S), NEW r \in 1 .. Length(d)
  PROVE  Put(d, r, At(d, r)) = d
<1>1. At(d, r) \in S
  BY AtType
<1>2. /\ Put(d, r, At(d, r)) \in List(S) /\ Length(Put(d, r, At(d, r))) = Length(d)
      /\ At(Put(d, r, At(d, r)), r) = At(d, r)
      /\ \A i \in 1 .. Length(d) : i # r => At(Put(d, r, At(d, r)), i) = At(d, i)
  BY <1>1, PutType
<1>3. \A i \in 1 .. Length(d) : At(Put(d, r, At(d, r)), i) = At(d, i)
  BY <1>2
<1> QED BY <1>2, <1>3, Same

\* A text with a line is not empty.
LEMMA NotEmpty ==
  ASSUME NEW d \in Text, NEW r \in 1 .. Length(d)
  PROVE  d # << >>
<1>1. Length(<< >>) = 0
  BY EmptyLine DEF Nil
<1> QED BY <1>1

\* A removal that has no blanks to take back is a cut.
LEMMA RemovePlain ==
  ASSUME NEW d \in Text, NEW line \in 1 .. Length(d), NEW pos \in 0 .. Length(At(d, line)),
         NEW k \in Int
  PROVE  LET a == Upto(d, line - 1)
             p == Upto(At(d, line), pos)
             c == Cut(d, line, pos, k)
         IN  /\ a \in Text /\ p \in Line /\ Length(a) + 1 = line /\ Length(p) = pos
             /\ d = CutLine(a, p, From(At(d, line), pos), From(d, line))
             /\ c \in Reached(a, p, d)
             /\ RemoveText(d, line, pos, 0, 0, k) = [doc |-> c.doc, removed |-> c.removed]
<1> DEFINE a == Upto(d, line - 1)
           b == From(d, line)
           l == At(d, line)
           p == Upto(l, pos)
           x == From(l, pos)
           c == Cut(d, line, pos, k)
           e == c.doc
<1>1. /\ a \in Text /\ Length(a) = line - 1 /\ b \in Text /\ l \in Line
      /\ d = Around(a, l, b)
  BY Split, TextIsList
<1>2. p \in Line /\ Length(p) = pos /\ x \in Line /\ Cat(p, x) = l
  BY <1>1, UptoType, FromType, UptoFrom, TextIsList
<1>3. Length(a) + 1 = line
  <2> HIDE DEF a
  <2> QED BY <1>1
<1>4. d = CutLine(a, p, x, b)
  <2> HIDE DEF a, p, x, b
  <2> QED BY <1>1, <1>2 DEF CutLine
<1>5. c \in Reached(a, p, d)
  <2> HIDE DEF a, p, x, b
  <2>1. Cut(CutLine(a, p, x, b), Length(a) + 1, Length(p), k)
           \in Reached(a, p, CutLine(a, p, x, b))
    BY <1>1, <1>2, CutReached
  <2> QED BY <2>1, <1>2, <1>3, <1>4
<1> HIDE DEF c
<1>6. e \in Text /\ Length(e) \in Nat
  BY <1>5, StatesAre, LengthNat, TextIsList DEF Reached, Open, Gone
<1> HIDE DEF e
<1>7. Upto(e, Max2(0, Length(e) - 0)) = e
  <2>1. Max2(0, Length(e) - 0) = Length(e)
    BY <1>6 DEF Max2
  <2> QED BY <2>1, <1>6, Whole, TextIsList
<1>8. d # << >>
  BY NotEmpty
<1>9. CASE line > Length(e)
  <2>1. RemoveText(d, line, pos, 0, 0, k) = [doc |-> Upto(e, Max2(0, Length(e) - 0)), removed |-> c.removed]
    BY <1>8, <1>9, RemoveIs DEF c, e
  <2> QED BY <2>1, <1>1, <1>2, <1>3, <1>4, <1>5, <1>7 DEF e, c
<1>10. CASE ~(line > Length(e))
  <2>1. line \in 1 .. Length(e)
    BY <1>6, <1>10
  <2>2. At(e, line) \in Line /\ Put(e, line, At(e, line)) = e
    BY <2>1, <1>6, AtType, PutSame, TextIsList
  <2>3. Trim(At(e, line), 0) = At(e, line)
    BY <2>2, TrimNothing
  <2>4. RemoveText(d, line, pos, 0, 0, k) =
          [doc |-> Upto(Put(e, line, Trim(At(e, line), 0)),
                        Max2(0, Length(Put(e, line, Trim(At(e, line), 0))) - 0)),
           removed |-> c.removed]
    BY <1>8, <1>10, RemoveIs DEF c, e
  <2>5. RemoveText(d, line, pos, 0, 0, k) = [doc |-> e, removed |-> c.removed]
    BY <2>2, <2>3, <2>4, <1>7
  <2> QED BY <2>5, <1>1, <1>2, <1>3, <1>4, <1>5 DEF e, c
<1> QED BY <1>9, <1>10

\* insertText puts back exactly what removeText took, if the line it began in is
\* still there or the removal began at its start.
LEMMA InsertRemoved ==
  ASSUME NEW d \in Text, NEW a \in Text, NEW p \in Line, NEW c \in Reached(a, p, d),
         Length(p) > 0 => Length(a) + 1 <= Length(c.doc)
  PROVE  InsertText(c.doc, Length(a) + 1, Length(p), c.removed).doc = d
<1> DEFINE line == Length(a) + 1
           pos == Length(p)
           e == c.doc
           r == c.removed
<1>1. e \in Text /\ r \in Full
  BY StatesAre DEF Reached, Open, Gone
<1>2. /\ line \in Nat /\ line >= 1 /\ pos \in Nat /\ Length(a) \in Nat /\ Length(e) \in Nat
  BY <1>1, LengthNat, TextIsList
<1> DEFINE l == LineAt(e, line)
<1>3. PICK a1 \in Text, b1 \in Text, p1 \in Line, q1 \in Line, bl \in Nat, bc \in Nat :
           /\ Place(e, line, pos, a1, l, b1, p1, q1, bl, bc)
           /\ InsertsAt(e, line, pos, a1, b1, p1, q1, bl, bc)
  <2> HIDE DEF e, line, pos
  <2> QED BY <1>1, <1>2, PlaceOf
<1>4. /\ l \in Line /\ Length(a1) + 1 = line /\ Length(p1) = pos
      /\ Cat(p1, q1) = Cat(l, Fill(bc))
      /\ Around(a1, l, b1) = Cat(e, EmptyLines(bl))
      /\ line <= Length(e) => bl = 0
      /\ line > Length(e) => line = Length(e) + bl
      /\ pos <= Length(l) => bc = 0
  BY <1>3 DEF Place
<1>5. Fill(0) = Nil /\ EmptyLines(0) = Nil
  BY FillType, EmptyLinesType, NilLength, TextIsList
<1>6. Length(a1) = Length(a)
  <2>1. Length(a1) \in Nat
    BY LengthNat, TextIsList
  <2> QED BY <2>1, <1>2, <1>4
<1>7. CASE c \in Open(a, p, d)
  <2>1. PICK x \in Line, b \in Text : e = CutLine(a, p, x, b) /\ d = Cat(a, Cat(Glue(p, r, x), b))
    BY <1>7 DEF Open
  <2>2. /\ Length(e) = line + Length(b) /\ Length(b) \in Nat /\ At(e, line) = Cat(p, x)
        /\ Cat(p, x) \in Line /\ Length(Cat(p, x)) = pos + Length(x) /\ Length(x) \in Nat
    <3> HIDE DEF e
    <3> QED BY <2>1, CutLineType
  <2>3. bl = 0
    BY <1>2, <1>4, <2>2
  <2>4. Around(a1, l, b1) = Around(a, Cat(p, x), b)
    BY <1>1, <1>4, <1>5, <2>1, <2>3, EmptyLine DEF CutLine
  <2>5. a1 = a /\ l = Cat(p, x) /\ b1 = b
    <3> HIDE DEF l
    <3>1. /\ Upto(Around(a1, l, b1), Length(a1)) = a1 /\ From(Around(a1, l, b1), Length(a1) + 1) = b1
          /\ At(Around(a1, l, b1), Length(a1) + 1) = l
      BY <1>3, <1>4, AroundParts, AroundType, TextIsList
    <3>2. /\ Upto(Around(a, Cat(p, x), b), Length(a)) = a
          /\ From(Around(a, Cat(p, x), b), Length(a) + 1) = b
          /\ At(Around(a, Cat(p, x), b), Length(a) + 1) = Cat(p, x)
      BY <2>2, AroundParts, AroundType, TextIsList
    <3> QED BY <3>1, <3>2, <2>4, <1>6
  <2>6. bc = 0 /\ pos <= Length(l)
    BY <1>2, <1>4, <2>2, <2>5
  <2>7. Cat(p1, q1) = Cat(p, x)
    BY <1>5, <1>4, <2>5, <2>6, EmptyLine
  <2>8. p1 = p /\ q1 = x
    <3>1. Upto(Cat(p1, q1), Length(p1)) = p1 /\ From(Cat(p1, q1), Length(p1)) = q1
      BY <1>3, Parts, TextIsList
    <3>2. Upto(Cat(p, x), Length(p)) = p /\ From(Cat(p, x), Length(p)) = x
      BY Parts, TextIsList
    <3> QED BY <3>1, <3>2, <2>7, <1>4
  <2> HIDE DEF e, r, l
  <2>9. InsertText(e, line, pos, r) =
          [doc |-> Inserted(a, p, r, x, b), blankLines |-> bl, blankChars |-> bc]
    BY <1>1, <1>3, <2>5, <2>6, <2>8 DEF InsertsAt, l
  <2>10. Inserted(a, p, r, x, b) = d
    BY <2>1 DEF Inserted
  <2>11. InsertText(e, line, pos, r).doc = d
    BY <2>9, <2>10
  <2> QED BY <2>11 DEF e, r
<1>8. CASE c \in Gone(a, p, d)
  <2>1. e = a /\ d = Cat(a, Glue(p, r, Nil))
    BY <1>8 DEF Gone
  <2>2. pos = 0 /\ bl = 1
    BY <1>2, <1>4, <2>1
  <2>3. p = Nil /\ p1 = Nil
    BY <1>4, <2>2, NilLength, TextIsList
  <2>4. l = Nil
    <3>1. line \notin DOMAIN e
      BY <1>2, <2>1 DEF Text, Length
    <3> QED BY <3>1 DEF LineAt, Nil
  <2>5. bc = 0 /\ pos <= Length(l)
    BY <1>4, <2>2, <2>4, EmptyLine
  <2>6. q1 = Nil
    <3>1. Cat(p1, q1) = Nil /\ Cat(p1, q1) = q1
      BY <1>3, <1>4, <1>5, <2>3, <2>4, <2>5, EmptyLine
    <3> QED BY <3>1
  <2>7. EmptyLines(1) \in Text /\ Length(EmptyLines(1)) = 1
    BY EmptyLinesType
  <2>8. a1 = a /\ b1 = Nil
    <3> HIDE DEF l
    <3>1. /\ Upto(Around(a1, l, b1), Length(a1)) = a1
          /\ Length(Around(a1, l, b1)) = Length(a1) + 1 + Length(b1)
      BY <1>3, <1>4, AroundParts, AroundType, TextIsList
    <3>2. Upto(Cat(a, EmptyLines(1)), Length(a)) = a /\ Length(Cat(a, EmptyLines(1))) = Length(a) + 1
      BY <2>7, Parts, CatType, TextIsList
    <3>3. Around(a1, l, b1) = Cat(a, EmptyLines(1))
      BY <1>4, <2>1, <2>2
    <3>4. Length(b1) \in Nat
      BY LengthNat, TextIsList
    <3>5. Length(b1) = 0
      BY <3>1, <3>2, <3>3, <3>4, <1>6, <1>2
    <3> QED BY <3>1, <3>2, <3>3, <3>5, <1>6, NilLength, TextIsList
  <2> HIDE DEF e, r, l
  <2>9. InsertText(e, line, pos, r) =
          [doc |-> Inserted(a, Nil, r, Nil, Nil), blankLines |-> bl, blankChars |-> bc]
    BY <1>1, <1>3, <2>3, <2>5, <2>6, <2>8 DEF InsertsAt, l
  <2>10. Inserted(a, Nil, r, Nil, Nil) = d
    <3>1. Glue(Nil, r, Nil) \in Text
      BY <1>1, GlueType, EmptyLine DEF Full
    <3> QED BY <3>1, <2>1, <2>3, EmptyLine DEF Inserted
  <2>11. InsertText(e, line, pos, r).doc = d
    BY <2>9, <2>10
  <2> QED BY <2>11 DEF e, r
<1> QED BY <1>7, <1>8 DEF Reached

-----------------------------------------------------------------------------
(* Rectangular blocks *)

\* A sequence cut anywhere, beyond its end too.
LEMMA CutAnywhere ==
  ASSUME NEW S, NEW s \in List(S), NEW n \in Nat
  PROVE  Upto(s, n) \in List(S) /\ From(s, n) \in List(S)
<1>1. Length(s) \in Nat
  BY LengthNat
<1>2. CASE n <= Length(s)
  <2>1. n \in 0 .. Length(s)
    BY <1>1, <1>2
  <2> QED BY <2>1, UptoType, FromType
<1>3. CASE n > Length(s)
  <2>1. Upto(s, n) = s
    BY <1>1, <1>3, UptoMore
  <2>2. From(s, n) \in List(S)
    <3>1. From(s, n) = SubSeq(s, n + 1, Len(s)) /\ n + 1 > Len(s)
      BY <1>3, <1>1 DEF From, Length
    <3> QED BY <3>1 DEF List
  <2> QED BY <2>1, <2>2
<1> QED BY <1>1, <1>2, <1>3

\* The elements of a sequence between two places.
Stretch(s, first, last) == SubSeq(s, first, last)

\* The elements between two places are those of the sequence.
LEMMA StretchIs ==
  ASSUME NEW S, NEW s \in List(S), NEW first \in Nat, first >= 1,
         NEW last \in Nat, last <= Length(s)
  PROVE  /\ Stretch(s, first, last) \in List(S)
         /\ \A i \in first .. last : Stretch(s, first, last)[i - first + 1] = At(s, i)
<1>1. Stretch(s, first, last) \in List(S)
  BY DEF Stretch, List, Length
<1>2. ASSUME NEW i \in first .. last PROVE Stretch(s, first, last)[i - first + 1] = At(s, i)
  BY DEF Stretch, List, Length, At
<1> QED BY <1>1, <1>2

\* A text given line by line.
LEMMA ByLines ==
  ASSUME NEW d \in Text, NEW e, e = [i \in DOMAIN d |-> e[i]],
         \A i \in 1 .. Length(d) : e[i] \in Line
  PROVE  /\ e \in Text /\ Length(e) = Length(d) /\ DOMAIN e = DOMAIN d
         /\ \A i \in 1 .. Length(d) : At(e, i) = e[i]
<1>1. DOMAIN d = 1 .. Length(d) /\ Length(d) \in Nat
  BY DEF Text, Length
<1>2. e \in [1 .. Length(d) -> Line]
  BY <1>1
<1>3. e \in Seq(Line) /\ Len(e) = Length(d) /\ DOMAIN e = 1 .. Length(d)
  BY <1>1, <1>2
<1> QED BY <1>1, <1>3 DEF Text, Length, At

\* A text is a function of its rows.
LEMMA LinesOf ==
  ASSUME NEW d \in Text
  PROVE  /\ DOMAIN d = 1 .. Length(d) /\ Length(d) \in Nat
         /\ \A i \in 1 .. Length(d) : d[i] = At(d, i) /\ At(d, i) \in Line
         /\ d = [i \in DOMAIN d |-> d[i]]
<1>1. DOMAIN d = 1 .. Length(d) /\ Length(d) \in Nat /\ d = [i \in DOMAIN d |-> d[i]]
  BY DEF Text, Length
<1>2. \A i \in 1 .. Length(d) : d[i] = At(d, i)
  BY DEF At
<1>3. \A i \in 1 .. Length(d) : At(d, i) \in Line
  BY AtType, TextIsList
<1> QED BY <1>1, <1>2, <1>3

\* A line without some characters is a line.
LEMMA WithoutType ==
  ASSUME NEW l \in Line, NEW p \in Nat, NEW n \in Int
  PROVE  Without(l, p, n) \in Line
<1>1. p + Max2(n, 0) \in Nat
  BY DEF Max2
<1>2. Upto(l, p) \in Line /\ From(l, p + Max2(n, 0)) \in Line
  BY <1>1, CutAnywhere, TextIsList
<1>3. Cat(Upto(l, p), From(l, p + Max2(n, 0))) \in Line
  BY <1>2, CatType, TextIsList
<1> QED BY <1>3 DEF Without, Cat

\* A rectangular block removed and put back.
LEMMA BlockRemoved ==
  ASSUME NEW d \in Text, NEW top \in 1 .. Length(d), NEW bottom \in top .. Length(d),
         NEW left \in Nat, NEW right \in Int, NEW c,
         c.top = top, c.bottom = bottom, c.left = left, c.right = right,
         NEW e, e = RedoRemoveBlock(c, d).doc, NEW u, u.top = top, u.bottom = bottom,
         u.previous = Stretch(d, top, bottom)
  PROVE  e \in Text /\ UndoRemoveBlock(u, e) = d
<1>1. /\ DOMAIN d = 1 .. Length(d) /\ Length(d) \in Nat /\ d = [i \in DOMAIN d |-> d[i]]
      /\ \A i \in 1 .. Length(d) : d[i] = At(d, i) /\ At(d, i) \in Line
  BY LinesOf
<1>2. Length(d) = Len(d) /\ Min2(bottom, Len(d)) = bottom
  BY <1>1 DEF Length, Min2
<1>3. e = [i \in DOMAIN d |->
            IF i \in top .. bottom THEN Without(d[i], left, right - left + 1) ELSE d[i]]
  BY <1>2 DEF RedoRemoveBlock
<1>4. \A i \in 1 .. Length(d) : e[i] \in Line
  <2> SUFFICES ASSUME NEW i \in 1 .. Length(d) PROVE e[i] \in Line
    OBVIOUS
  <2>1. right - left + 1 \in Int /\ d[i] \in Line
    BY <1>1
  <2>2. Without(d[i], left, right - left + 1) \in Line
    BY <2>1, WithoutType
  <2>3. e[i] = IF i \in top .. bottom THEN Without(d[i], left, right - left + 1) ELSE d[i]
    BY <1>1, <1>3, Zenon
  <2> QED BY <2>1, <2>2, <2>3
<1>5. e \in Text /\ Length(e) = Length(d) /\ DOMAIN e = DOMAIN d
  <2>1. e = [i \in DOMAIN d |-> e[i]]
    BY <1>3
  <2> QED BY <2>1, <1>4, ByLines
<1>6. \A i \in top .. bottom : u.previous[i - top + 1] = d[i]
  <2>1. top \in Nat /\ top >= 1 /\ bottom \in Nat /\ bottom <= Length(d)
    BY <1>1
  <2>2. \A i \in top .. bottom : Stretch(d, top, bottom)[i - top + 1] = At(d, i)
    BY <2>1, StretchIs, TextIsList
  <2> QED BY <2>2 DEF At
<1>7. \A i \in DOMAIN d : i \notin top .. bottom => e[i] = d[i]
  BY <1>3
<1>8. Min2(u.bottom, Len(e)) = bottom
  BY <1>2, <1>5 DEF Length
<1>9. UndoRemoveBlock(u, e) =
        [i \in DOMAIN e |-> IF i \in top .. bottom THEN u.previous[i - top + 1] ELSE e[i]]
  BY <1>8 DEF UndoRemoveBlock
<1> QED BY <1>1, <1>5, <1>6, <1>7, <1>9

\* A rectangular block pasted and taken back.
LEMMA BlockInserted ==
  ASSUME NEW d \in Text, NEW row \in Nat, row >= 1, NEW col \in Nat, NEW block \in Full,
         NEW c, c.row = row, c.col = col, c.block = block,
         NEW last, last = row + Length(block) - 1,
         NEW added, added = Max2(0, last - Length(d)),
         NEW e, e = RedoInsertBlock(c, d).doc, NEW u, u.row = row, u.block = block,
         u.previous = Stretch(Cat(d, EmptyLines(added)), row, last), u.added = added
  PROVE  e \in Text /\ UndoInsertBlock(u, e) = d
<1> DEFINE n == Length(block)
           grown == Cat(d, EmptyLines(added))
           With(line, t) == Upto(line, col) \o Fill(Max2(0, col - Len(line))) \o t
                         \o From(line, col)
<1>0. Length(d) = Len(d) /\ n = Len(block)
  BY DEF Length
<1>1. n \in Nat /\ n >= 1 /\ block \in Text /\ Length(d) \in Nat
  BY LengthNat, TextIsList DEF Full
<1>2. last \in Nat /\ last >= row /\ added \in Nat /\ last <= Length(d) + added
  BY <1>1 DEF Max2
<1>3. EmptyLines(added) \in Text /\ Length(EmptyLines(added)) = added
  BY <1>2, EmptyLinesType
<1>4. grown \in Text /\ Length(grown) = Length(d) + added
  BY <1>3, CatType, TextIsList
<1>5. e = [i \in DOMAIN grown |->
             IF i \in row .. last THEN With(grown[i], block[i - row + 1]) ELSE grown[i]]
  BY <1>0, Zenon DEF RedoInsertBlock, Cat, EmptyLines
<1>6. u.previous = Stretch(grown, row, last) /\ u.added = added
  OBVIOUS
<1> HIDE DEF grown
<1>7. /\ DOMAIN grown = 1 .. Length(grown) /\ grown = [i \in DOMAIN grown |-> grown[i]]
      /\ \A i \in 1 .. Length(grown) : grown[i] = At(grown, i) /\ At(grown, i) \in Line
  BY <1>4, LinesOf
<1>8. ASSUME NEW l \in Line, NEW t \in Line PROVE With(l, t) \in Line
  <2>1. Max2(0, col - Len(l)) \in Nat
    <3>1. Length(l) \in Nat
      BY LengthNat, TextIsList
    <3> QED BY <3>1 DEF Length, Max2
  <2> DEFINE k == Max2(0, col - Len(l))
  <2>2. Upto(l, col) \in Line /\ From(l, col) \in Line /\ Fill(k) \in Line
    BY <2>1, CutAnywhere, FillType, TextIsList
  <2> HIDE DEF k
  <2>3. Cat(Cat(Cat(Upto(l, col), Fill(k)), t), From(l, col)) \in Line
    BY <2>2, CatType, TextIsList
  <2> QED BY <2>3 DEF Cat, k
<1>9. \A i \in row .. last : block[i - row + 1] \in Line
  <2> SUFFICES ASSUME NEW i \in row .. last PROVE block[i - row + 1] \in Line
    OBVIOUS
  <2>1. i - row + 1 \in 1 .. n
    BY <1>1
  <2> QED BY <2>1, <1>1, LinesOf
<1> HIDE DEF With
<1>10. \A i \in 1 .. Length(grown) : e[i] \in Line
  <2> SUFFICES ASSUME NEW i \in 1 .. Length(grown) PROVE e[i] \in Line
    OBVIOUS
  <2>1. e[i] = IF i \in row .. last THEN With(grown[i], block[i - row + 1]) ELSE grown[i]
    BY <1>5, <1>7, Zenon
  <2>2. grown[i] \in Line
    BY <1>7
  <2> QED BY <2>1, <2>2, <1>8, <1>9
<1>11. e \in Text /\ Length(e) = Length(grown) /\ DOMAIN e = DOMAIN grown
  <2>1. e = [i \in DOMAIN grown |-> e[i]]
    BY <1>5
  <2> QED BY <2>1, <1>4, <1>10, ByLines
<1>12. \A i \in row .. last : u.previous[i - row + 1] = grown[i]
  <2>1. row \in Nat /\ row >= 1 /\ last \in Nat /\ last <= Length(grown)
    BY <1>2, <1>4
  <2>2. \A i \in row .. last : Stretch(grown, row, last)[i - row + 1] = At(grown, i)
    BY <2>1, <1>4, StretchIs, TextIsList
  <2> QED BY <2>2, <1>6 DEF At
<1>13. \A i \in DOMAIN grown : i \notin row .. last => e[i] = grown[i]
  BY <1>5
<1> DEFINE restored == [i \in DOMAIN e |-> IF i \in row .. last THEN u.previous[i - row + 1] ELSE e[i]]
<1>14. restored = grown
  <2> QED BY <1>7, <1>11, <1>12, <1>13
<1>15. UndoInsertBlock(u, e) = Upto(restored, Len(restored) - added)
  BY <1>0, <1>6, Zenon DEF UndoInsertBlock
<1>16. Len(grown) - added = Length(d)
  BY <1>1, <1>2, <1>4 DEF Length
<1>17. Upto(grown, Length(d)) = d
  BY <1>3, Parts, TextIsList DEF grown
<1> QED BY <1>11, <1>14, <1>15, <1>16, <1>17

-----------------------------------------------------------------------------
(* Comments and imports *)

\* The bar a line starts with and the blanks after it are its lead.
LEMMA LeadIs ==
  ASSUME NEW l \in Line, Length(l) >= 1, At(l, 1) = Bar
  PROVE  /\ Lead(l) \in 1 .. Length(l)
         /\ Cat(Cat(One(Bar), Fill(Lead(l) - 1)), From(l, Lead(l))) = l
<1> DEFINE n == Lead(l)
           T == {m \in 1 .. Length(l) : m = Length(l) \/ At(l, m + 1) # Blank}
<1>1. Length(l) \in Nat
  BY LengthNat, TextIsList
<1>2. Length(l) \in T /\ T \in SUBSET Nat
  BY <1>1
<1>3. PICK m \in T : \A k \in T : m <= k
  BY <1>2, LeastNumber
<1>4. ASSUME NEW j \in 2 .. m PROVE At(l, j) = Blank
  <2>1. j - 1 \in 1 .. Length(l) /\ ~(m <= j - 1) /\ (j - 1) + 1 = j /\ j - 1 # Length(l)
    BY <1>1, <1>3
  <2>2. j - 1 \notin T
    BY <1>3, <2>1
  <2> QED BY <2>1, <2>2
<1>5. n = CHOOSE k \in 1 .. Length(l) :
            (\A j \in 2 .. k : At(l, j) = Blank) /\ (k = Length(l) \/ At(l, k + 1) # Blank)
  BY Zenon DEF Lead, Length, At
<1>6. \E k \in 1 .. Length(l) :
            (\A j \in 2 .. k : At(l, j) = Blank) /\ (k = Length(l) \/ At(l, k + 1) # Blank)
  BY <1>3, <1>4
<1>7. n \in 1 .. Length(l) /\ \A j \in 2 .. n : At(l, j) = Blank
  BY <1>5, <1>6, Zenon
<1> HIDE DEF n, T
<1>8. n - 1 \in Nat /\ n \in 0 .. Length(l) /\ Bar \in Chars
  BY <1>1, <1>7, CharsAssumption
<1> DEFINE f == Fill(n - 1)
<1>9. f \in Line /\ Length(f) = n - 1 /\ \A i \in 1 .. n - 1 : At(f, i) = Blank
  BY <1>8, FillType
<1>10. One(Bar) \in Line /\ Length(One(Bar)) = 1 /\ At(One(Bar), 1) = Bar
  BY <1>8, OneType, TextIsList
<1> HIDE DEF f
<1> DEFINE b == Cat(One(Bar), f)
<1>11. b \in Line /\ Length(b) = n
  <2>1. b \in Line /\ Length(b) = 1 + (n - 1)
    BY <1>9, <1>10, CatType, TextIsList
  <2> QED BY <2>1, <1>7
<1>12. Upto(l, n) \in Line /\ Length(Upto(l, n)) = n
  BY <1>8, UptoType, TextIsList
<1>13. ASSUME NEW i \in 1 .. n PROVE At(b, i) = At(Upto(l, n), i)
  <2>1. At(Upto(l, n), i) = At(l, i)
    BY <1>8, <1>13, UptoAt, TextIsList
  <2>2. CASE i = 1
    <3>1. 1 \in 1 .. Length(One(Bar))
      BY <1>10
    <3>2. At(b, 1) = Bar
      BY <3>1, <1>9, <1>10, CatFirst, TextIsList
    <3> QED BY <2>1, <2>2, <3>2
  <2>3. CASE i # 1
    <3>1. i - 1 \in 1 .. n - 1 /\ 1 + (i - 1) = i /\ i \in 2 .. n
      BY <1>7, <2>3
    <3>2. At(b, 1 + (i - 1)) = At(f, i - 1)
      BY <3>1, <1>9, <1>10, CatSecond, TextIsList
    <3> QED BY <2>1, <3>1, <3>2, <1>7, <1>9
  <2> QED BY <2>2, <2>3
<1>14. b = Upto(l, n)
  <2> HIDE DEF b
  <2> QED BY <1>11, <1>12, <1>13, Same, TextIsList
<1>15. Cat(Upto(l, n), From(l, n)) = l
  BY <1>8, UptoFrom, TextIsList
<1> QED BY <1>7, <1>14, <1>15 DEF n, f, b

\* Characters inserted at the start of a line.
LEMMA InsertStart ==
  ASSUME NEW t \in Text, NEW i \in 1 .. Length(t), NEW z \in Line
  PROVE  InsertText(t, i, 0, One(z)).doc = Put(t, i, Cat(z, At(t, i)))
<1>1. /\ i \in Nat /\ i >= 1 /\ 0 \in Nat /\ i <= Length(t)
      /\ LineAt(t, i) = At(t, i) /\ At(t, i) \in Line
  BY LinesOf DEF LineAt
<1> DEFINE l == At(t, i)
<1>2. PICK a \in Text, b \in Text, p \in Line, q \in Line, bl \in Nat, bc \in Nat :
           /\ Place(t, i, 0, a, l, b, p, q, bl, bc)
           /\ InsertsAt(t, i, 0, a, b, p, q, bl, bc)
  <2>1. \A z0 : z0 = 0 => \E a \in Text, b \in Text, p \in Line, q \in Line, bl \in Nat, bc \in Nat :
           /\ Place(t, i, z0, a, LineAt(t, i), b, p, q, bl, bc)
           /\ InsertsAt(t, i, z0, a, b, p, q, bl, bc)
    BY <1>1, PlaceOf
  <2> QED BY <1>1, <2>1
<1> HIDE DEF l
<1>3. Length(l) \in Nat /\ l \in Line
  BY <1>1, LengthNat, TextIsList DEF l
<1>4. /\ Length(a) + 1 = i /\ Length(p) = 0 /\ bl = 0 /\ bc = 0
      /\ Cat(p, q) = Cat(l, Fill(bc)) /\ Around(a, l, b) = Cat(t, EmptyLines(bl))
  BY <1>1, <1>2, <1>3 DEF Place
<1>5. Fill(0) = Nil /\ EmptyLines(0) = Nil
  BY FillType, EmptyLinesType, NilLength, TextIsList
<1>6. p = Nil /\ q = l /\ Around(a, l, b) = t
  <2>1. p = Nil
    BY <1>4, NilLength, TextIsList
  <2>2. Cat(p, q) = q /\ Cat(l, Fill(bc)) = l /\ Cat(t, EmptyLines(bl)) = t
    BY <2>1, <1>3, <1>4, <1>5, EmptyLine
  <2> QED BY <1>4, <2>1, <2>2
<1>7. One(z) \in Full
  BY OneFull
<1>8. InsertText(t, i, 0, One(z)) =
        [doc |-> Inserted(a, p, One(z), q, b), blankLines |-> bl, blankChars |-> bc]
  <2>1. 0 <= Length(LineAt(t, i))
    BY <1>1, <1>3 DEF l
  <2> QED BY <2>1, <1>2, <1>7 DEF InsertsAt
<1>9. Cat(z, l) \in Line
  BY <1>3, CatType, TextIsList
<1>10. Inserted(a, p, One(z), q, b) = Around(a, Cat(z, l), b)
  <2>1. Glue(p, One(z), q) = One(Cat(z, l))
    BY <1>3, <1>6, <1>9, GlueOne, EmptyLine
  <2> QED BY <2>1 DEF Inserted, Around
<1>11. Put(t, i, Cat(z, l)) = Around(a, Cat(z, l), b)
  BY <1>3, <1>4, <1>6, <1>9, AroundPut, TextIsList
<1> QED BY <1>8, <1>10, <1>11 DEF l

\* Characters removed within a line.
LEMMA RemoveWithin ==
  ASSUME NEW d \in Text, NEW line \in 1 .. Length(d), NEW pos \in 0 .. Length(At(d, line)),
         NEW k \in 1 .. Length(At(d, line)) - pos
  PROVE  LET a == Upto(d, line - 1)
             p == Upto(At(d, line), pos)
             x == From(At(d, line), pos)
         IN  RemoveText(d, line, pos, 0, 0, k) =
               [doc |-> CutLine(a, p, From(x, k), From(d, line)), removed |-> One(Upto(x, k))]
<1> DEFINE a == Upto(d, line - 1)
           b == From(d, line)
           l == At(d, line)
           p == Upto(l, pos)
           x == From(l, pos)
           c == Cut(d, line, pos, k)
<1>1. l \in Line /\ b \in Text /\ k \in Int
  BY Split, TextIsList
<1>2. x \in Line /\ Length(x) = Length(l) - pos
  BY <1>1, FromType, TextIsList
<1>3. /\ a \in Text /\ p \in Line /\ Length(a) + 1 = line /\ Length(p) = pos
      /\ d = CutLine(a, p, x, b)
      /\ RemoveText(d, line, pos, 0, 0, k) = [doc |-> c.doc, removed |-> c.removed]
  BY <1>1, RemovePlain
<1>4. c = Cutting(CutLine(a, p, From(x, k), b), 0, One(Upto(x, k)))
  <2>1. k \in 1 .. Length(x)
    BY <1>2
  <2> HIDE DEF a, b, p, x
  <2>2. Cut(CutLine(a, p, x, b), Length(a) + 1, Length(p), k)
          = Cutting(CutLine(a, p, From(x, k), b), 0, One(Upto(x, k)))
    BY <1>1, <1>2, <1>3, <2>1, CutWithin
  <2> QED BY <2>2, <1>3
<1>5. c.doc = CutLine(a, p, From(x, k), b) /\ c.removed = One(Upto(x, k))
  BY <1>4, CuttingIs
<1> QED BY <1>3, <1>5

\* Two characters removed at the start of a line.
LEMMA RemoveStart ==
  ASSUME NEW t \in Text, NEW i \in 1 .. Length(t), Length(At(t, i)) >= 2
  PROVE  RemoveText(t, i, 0, 0, 0, 2).doc = Put(t, i, From(At(t, i), 2))
<1> DEFINE l == At(t, i)
           a == Upto(t, i - 1)
           b == From(t, i)
<1>1. /\ l \in Line /\ a \in Text /\ Length(a) = i - 1 /\ b \in Text /\ t = Around(a, l, b)
  BY Split, TextIsList
<1>2. Upto(l, 0) = Nil /\ From(l, 0) = l /\ Length(l) \in Nat
  BY <1>1, Whole, LengthNat, TextIsList
<1>3. RemoveText(t, i, 0, 0, 0, 2) =
        [doc |-> CutLine(a, Upto(l, 0), From(From(l, 0), 2), b),
         removed |-> One(Upto(From(l, 0), 2))]
  <2> DEFINE z == 0
             k == 2
  <2>1. z \in 0 .. Length(l) /\ k \in 1 .. Length(l) - z
    BY <1>2
  <2>2. RemoveText(t, i, z, 0, 0, k) =
          [doc |-> CutLine(a, Upto(l, z), From(From(l, z), k), b),
           removed |-> One(Upto(From(l, z), k))]
    <3> HIDE DEF z, k
    <3> QED BY <2>1, RemoveWithin
  <2> QED BY <2>2
<1>4. From(l, 2) \in Line
  <2>1. 2 \in 0 .. Length(l)
    BY <1>2
  <2> QED BY <1>1, <2>1, FromType, TextIsList
<1>5. CutLine(a, Nil, From(l, 2), b) = Around(a, From(l, 2), b)
  BY <1>4, EmptyLine DEF CutLine
<1>6. Put(t, i, From(l, 2)) = Around(a, From(l, 2), b)
  <2>1. Length(a) + 1 = i
    BY <1>1
  <2> HIDE DEF a, b, l
  <2> QED BY <2>1, <1>1, <1>4, AroundPut, TextIsList
<1> QED BY <1>2, <1>3, <1>5, <1>6

\* A round of the undo puts a line of e back as it is in d.
Reverts(c, d, e, from, to) ==
  \A t \in Text : \A i \in from .. to :
    Length(t) = Length(d) /\ At(t, i) = At(e, i) => UncommentLine(c, t, i) = Put(t, i, At(d, i))

\* The undo of a comment puts every line of the selection back.
LEMMA LinesBack ==
  ASSUME NEW d \in Text, NEW e \in Text, Length(e) = Length(d),
         NEW from \in 1 .. Length(d), NEW to \in from .. Length(d),
         \A i \in 1 .. Length(d) : i \notin from .. to => At(e, i) = At(d, i),
         NEW c, c.from = from, c.to = to,
         Reverts(c, d, e, from, to)
  PROVE  UndoComment(c, e) = d
<1> DEFINE L == Length(d)
           m == to - from + 1
           mid(n) == [i \in 1 .. L |-> IF i \in from .. from + n - 1 THEN At(d, i) ELSE At(e, i)]
           g == [n \in 0 .. m |-> mid(n)]
           o == UncommentLines(c, e)
<1>1. /\ L \in Nat /\ m \in Nat /\ m >= 1 /\ from \in Nat /\ to \in Nat
      /\ from + m - 1 = to /\ to <= L /\ from >= 1
  BY LengthNat, TextIsList
<1>2. \A i \in 1 .. L : At(d, i) \in Line /\ At(e, i) \in Line
  BY AtType, TextIsList
<1>3. ASSUME NEW n \in Nat
      PROVE  /\ mid(n) \in Text /\ Length(mid(n)) = L
             /\ \A i \in 1 .. L : At(mid(n), i) =
                  IF i \in from .. from + n - 1 THEN At(d, i) ELSE At(e, i)
  <2> DEFINE f == mid(n)
             W(i) == IF i \in from .. from + n - 1 THEN At(d, i) ELSE At(e, i)
  <2> HIDE DEF L
  <2>1. f \in [1 .. L -> Line]
    BY <1>2
  <2>2. \A i \in 1 .. L : f[i] = W(i)
    OBVIOUS
  <2> HIDE DEF mid, W
  <2>3. f \in Seq(Line) /\ Len(f) = L
    BY <2>1, <1>1
  <2> QED BY <2>2, <2>3 DEF Text, Length, At, W
<1> HIDE DEF mid, L, m
<1>4. mid(0) = e
  <2>1. 0 \in Nat /\ \A i \in 1 .. L : i \notin from .. from + 0 - 1
    BY <1>1
  <2>2. mid(0) \in Text /\ Length(mid(0)) = Length(e) /\ \A i \in 1 .. L : At(mid(0), i) = At(e, i)
    BY <1>3, <2>1 DEF L
  <2> QED BY <2>2, Same, TextIsList DEF L
<1>5. mid(m) = d
  <2>1. mid(m) \in Text /\ Length(mid(m)) = Length(d)
    BY <1>1, <1>3 DEF L
  <2>2. ASSUME NEW i \in 1 .. L PROVE At(mid(m), i) = At(d, i)
    <3>1. i \in from .. from + m - 1 \/ i \notin from .. to
      BY <1>1
    <3> QED BY <3>1, <1>1, <1>3 DEF L
  <2> QED BY <2>1, <2>2, Same, TextIsList DEF L
<1>6. ASSUME NEW n \in 1 .. m PROVE mid(n) = UncommentLine(c, mid(n - 1), from + n - 1)
  <2> DEFINE r == from + n - 1
             t == mid(n - 1)
             y == At(d, r)
  <2>1. n - 1 \in Nat /\ n \in Nat /\ r \in 1 .. L /\ r \in from .. to /\ r \notin from .. from + (n - 1) - 1
    BY <1>1
  <2>2. t \in Text /\ Length(t) = L /\ At(t, r) = At(e, r)
    BY <1>3, <2>1
  <2>3. UncommentLine(c, t, r) = Put(t, r, y)
    <3> HIDE DEF t, r
    <3> QED BY <2>1, <2>2 DEF L, Reverts
  <2>4. y \in Line
    BY <1>2, <2>1
  <2>5. /\ Put(t, r, y) \in Text /\ Length(Put(t, r, y)) = L /\ At(Put(t, r, y), r) = y
        /\ \A i \in 1 .. L : i # r => At(Put(t, r, y), i) = At(t, i)
    <3> HIDE DEF t, r, y
    <3>1. r \in 1 .. Length(t)
      BY <2>1, <2>2
    <3> QED BY <2>2, <2>4, <3>1, PutType, TextIsList
  <2>6. ASSUME NEW i \in 1 .. L PROVE At(mid(n), i) = At(Put(t, r, y), i)
    <3>1. CASE i = r
      <4>1. i \in from .. from + n - 1
        BY <3>1, <1>1
      <4> QED BY <4>1, <3>1, <2>1, <1>3, <2>5
    <3>2. CASE i # r
      <4>1. (i \in from .. from + n - 1) <=> (i \in from .. from + (n - 1) - 1)
        BY <3>2, <1>1
      <4>2. At(Put(t, r, y), i) = At(t, i)
        BY <3>2, <2>5
      <4>3. At(t, i) = IF i \in from .. from + (n - 1) - 1 THEN At(d, i) ELSE At(e, i)
        BY <2>1, <1>3
      <4>4. At(mid(n), i) = IF i \in from .. from + n - 1 THEN At(d, i) ELSE At(e, i)
        BY <2>1, <1>3
      <4> QED BY <4>1, <4>2, <4>3, <4>4
    <3> QED BY <3>1, <3>2
  <2>7. mid(n) \in Text /\ Length(mid(n)) = L
    BY <2>1, <1>3
  <2>8. mid(n) = Put(t, r, y)
    <3> HIDE DEF t, r, y
    <3> QED BY <2>5, <2>6, <2>7, Same, TextIsList
  <2> QED BY <2>3, <2>8
<1>7. g = [n \in 0 .. m |-> IF n = 0 THEN e ELSE UncommentLine(c, g[n - 1], from + n - 1)]
  <2>1. \A n \in 0 .. m : n = 0 \/ (n \in 1 .. m /\ n - 1 \in 0 .. m)
    BY <1>1
  <2>2. \A n \in 0 .. m : mid(n) = IF n = 0 THEN e ELSE UncommentLine(c, g[n - 1], from + n - 1)
    BY <2>1, <1>4, <1>6
  <2> QED BY <2>2
<1> HIDE DEF g
<1>8. o = CHOOSE h : h = [n \in 0 .. m |-> IF n = 0 THEN e ELSE UncommentLine(c, h[n - 1], from + n - 1)]
  BY Zenon DEF UncommentLines, m
<1>9. o = [n \in 0 .. m |-> IF n = 0 THEN e ELSE UncommentLine(c, o[n - 1], from + n - 1)]
  BY <1>7, <1>8
<1> HIDE DEF o
<1>10. o[0] = e /\ \A n \in 1 .. m : o[n] = UncommentLine(c, o[n - 1], from + n - 1)
  <2>1. 0 \in 0 .. m /\ \A n \in 1 .. m : n \in 0 .. m /\ n # 0
    BY <1>1
  <2> QED BY <1>9, <2>1, Zenon
<1>11. o[m] = mid(m)
  <2> DEFINE T == {n \in Nat : n <= m => o[n] = mid(n)}
  <2>1. 0 \in T
    BY <1>4, <1>10
  <2>2. ASSUME NEW n \in Nat, n \in T PROVE n + 1 \in T
    <3>1. CASE n + 1 <= m
      <4>1. n <= m /\ n + 1 \in 1 .. m /\ (n + 1) - 1 = n
        BY <3>1, <1>1
      <4>2. o[n + 1] = UncommentLine(c, o[n], from + (n + 1) - 1)
        BY <4>1, <1>10
      <4>3. mid(n + 1) = UncommentLine(c, mid(n), from + (n + 1) - 1)
        BY <4>1, <1>6
      <4> QED BY <4>1, <4>2, <4>3, <2>2
    <3>2. CASE ~(n + 1 <= m)
      BY <3>2
    <3> QED BY <3>1, <3>2
  <2> HIDE DEF T
  <2>3. Nat \subseteq T
    BY <2>1, <2>2, Induction
  <2> QED BY <2>3, <1>1 DEF T
<1>12. UndoComment(c, e) = o[m]
  BY Zenon DEF UndoComment, o, m
<1> QED BY <1>5, <1>11, <1>12

\* A line in a comment, or out of it.
CommentedLine(l, commented) ==
  IF commented THEN From(l, Lead(l)) ELSE Cat(Cat(One(Bar), One(Blank)), l)

\* A line commented, and back.
LEMMA CommentedLineIs ==
  ASSUME NEW l \in Line
  PROVE  /\ CommentedLine(l, FALSE) \in Line /\ Length(CommentedLine(l, FALSE)) >= 2
         /\ From(CommentedLine(l, FALSE), 2) = l
         /\ Length(l) >= 1 /\ At(l, 1) = Bar =>
              /\ CommentedLine(l, TRUE) \in Line /\ Lead(l) - 1 \in Nat
              /\ Cat(Cat(One(Bar), Fill(Lead(l) - 1)), CommentedLine(l, TRUE)) = l
<1>1. Bar \in Chars /\ Blank \in Chars /\ Length(l) \in Nat
  BY CharsAssumption, LengthNat, TextIsList
<1> DEFINE z == Cat(One(Bar), One(Blank))
<1>2. z \in Line /\ Length(z) = 2
  <2>1. One(Bar) \in Line /\ One(Blank) \in Line /\ Length(One(Bar)) = 1 /\ Length(One(Blank)) = 1
    BY <1>1, OneType, TextIsList
  <2>2. z \in Line /\ Length(z) = 1 + 1
    BY <2>1, CatType, TextIsList
  <2> QED BY <2>2
<1> HIDE DEF z
<1>3. CommentedLine(l, FALSE) = Cat(z, l)
  BY DEF CommentedLine, z
<1>4. Cat(z, l) \in Line /\ Length(Cat(z, l)) = Length(z) + Length(l) /\ From(Cat(z, l), Length(z)) = l
  BY <1>2, CatType, Parts, TextIsList
<1>5. ASSUME Length(l) >= 1, At(l, 1) = Bar
      PROVE  /\ CommentedLine(l, TRUE) \in Line /\ Lead(l) - 1 \in Nat
             /\ Cat(Cat(One(Bar), Fill(Lead(l) - 1)), CommentedLine(l, TRUE)) = l
  <2>1. /\ Lead(l) \in 1 .. Length(l)
        /\ Cat(Cat(One(Bar), Fill(Lead(l) - 1)), From(l, Lead(l))) = l
    BY <1>5, LeadIs
  <2>2. Lead(l) \in 0 .. Length(l) /\ Lead(l) - 1 \in Nat
    BY <2>1
  <2>3. From(l, Lead(l)) \in Line
    BY <2>2, FromType, TextIsList
  <2> QED BY <2>1, <2>2, <2>3 DEF CommentedLine
<1>6. /\ CommentedLine(l, FALSE) \in Line /\ Length(CommentedLine(l, FALSE)) >= 2
      /\ From(CommentedLine(l, FALSE), 2) = l
  <2>1. From(Cat(z, l), 2) = l
    BY <1>2, <1>4, Zenon
  <2>2. Length(Cat(z, l)) >= 2 /\ Cat(z, l) \in Line
    BY <1>1, <1>2, <1>4
  <2> QED BY <1>3, <2>1, <2>2, Zenon
<1> QED BY <1>5, <1>6

\* The lines of a text from one to another put in comments or out of them.
CommentedText(d, from, to, commented) ==
  [i \in DOMAIN d |-> IF i \notin from .. to THEN d[i]
                     ELSE IF commented THEN From(d[i], Lead(d[i]))
                     ELSE <<Bar, Blank>> \o d[i]]

\* A comment toggled and undone.
LEMMA CommentUndone ==
  ASSUME NEW d \in Text, NEW from \in 1 .. Length(d), NEW to \in from .. Length(d),
         NEW commented \in BOOLEAN,
         commented => \A i \in from .. to : Length(At(d, i)) >= 1 /\ At(At(d, i), 1) = Bar,
         NEW e, e = CommentedText(d, from, to, commented),
         NEW u, u.from = from, u.to = to, u.commented = commented,
         commented => \A i \in from .. to : u.blanks[i] = Lead(At(d, i))
  PROVE  e \in Text /\ UndoComment(u, e) = d
<1>1. /\ DOMAIN d = 1 .. Length(d) /\ Length(d) \in Nat /\ d = [i \in DOMAIN d |-> d[i]]
      /\ \A i \in 1 .. Length(d) : d[i] = At(d, i) /\ At(d, i) \in Line
  BY LinesOf
<1> DEFINE W(i) == IF i \notin from .. to THEN d[i] ELSE CommentedLine(d[i], commented)
<1>2. e = [i \in DOMAIN d |-> W(i)]
  <2>1. \A l : <<Bar, Blank>> \o l = Cat(Cat(One(Bar), One(Blank)), l)
    <3>1. <<Bar, Blank>> = Cat(One(Bar), One(Blank))
      BY DEF Cat, One
    <3> QED BY <3>1 DEF Cat
  <2> QED BY <2>1, Zenon DEF CommentedLine, CommentedText
<1>3. ASSUME NEW i \in 1 .. Length(d) PROVE e[i] = W(i) /\ W(i) \in Line
  <2>1. e[i] = W(i)
    BY <1>1, <1>2, Zenon
  <2>2. d[i] \in Line
    BY <1>1
  <2>3. /\ CommentedLine(d[i], FALSE) \in Line
        /\ Length(d[i]) >= 1 /\ At(d[i], 1) = Bar => CommentedLine(d[i], TRUE) \in Line
    BY <2>2, CommentedLineIs
  <2>4. CASE i \notin from .. to
    BY <2>1, <2>2, <2>4
  <2>5. CASE i \in from .. to /\ commented = TRUE
    <3>1. Length(d[i]) >= 1 /\ At(d[i], 1) = Bar
      BY <2>5, <1>1
    <3> QED BY <2>1, <2>3, <2>5, <3>1
  <2>6. CASE i \in from .. to /\ commented = FALSE
    BY <2>1, <2>3, <2>6
  <2> QED BY <2>4, <2>5, <2>6
<1>4. /\ e \in Text /\ Length(e) = Length(d)
      /\ \A i \in 1 .. Length(d) : At(e, i) = W(i)
  <2>1. e = [i \in DOMAIN d |-> e[i]]
    BY <1>2
  <2> HIDE DEF W
  <2>2. \A i \in 1 .. Length(d) : e[i] \in Line
    BY <1>3
  <2>3. e \in Text /\ Length(e) = Length(d) /\ \A i \in 1 .. Length(d) : At(e, i) = e[i]
    BY <2>1, <2>2, ByLines
  <2> QED BY <2>3, <1>3
<1>5. \A i \in 1 .. Length(d) : i \notin from .. to => At(e, i) = At(d, i)
  BY <1>1, <1>4
<1>6. Reverts(u, d, e, from, to)
  <2> SUFFICES ASSUME NEW t \in Text, NEW i \in from .. to, Length(t) = Length(d), At(t, i) = At(e, i)
      PROVE  UncommentLine(u, t, i) = Put(t, i, At(d, i))
    BY DEF Reverts
  <2> DEFINE l == At(d, i)
             w == At(t, i)
  <2>1. i \in 1 .. Length(d) /\ i \in 1 .. Length(t)
    BY <1>1
  <2>2. l \in Line /\ w = CommentedLine(l, commented)
    BY <1>1, <1>4, <2>1
  <2>3. CASE commented = TRUE
    <3> DEFINE z == Cat(One(Bar), Fill(u.blanks[i] - 1))
    <3>1. u.blanks[i] = Lead(l) /\ Length(l) >= 1 /\ At(l, 1) = Bar
      BY <2>3
    <3>2. Lead(l) - 1 \in Nat /\ Cat(Cat(One(Bar), Fill(Lead(l) - 1)), CommentedLine(l, TRUE)) = l
      BY <2>2, <3>1, CommentedLineIs
    <3>3. z \in Line
      <4>1. One(Bar) \in Line /\ Fill(Lead(l) - 1) \in Line
        BY <3>2, OneType, FillType, CharsAssumption, TextIsList
      <4> QED BY <4>1, <3>1, CatType, TextIsList
    <3>4. UncommentLine(u, t, i) = InsertText(t, i, 0, One(z)).doc
      BY <2>3, Zenon DEF UncommentLine, Cat, One
    <3>5. Cat(z, w) = l
      BY <2>2, <2>3, <3>1, <3>2
    <3> HIDE DEF z
    <3>6. InsertText(t, i, 0, One(z)).doc = Put(t, i, Cat(z, At(t, i)))
      BY <2>1, <3>3, InsertStart
    <3> QED BY <3>4, <3>5, <3>6
  <2>4. CASE commented = FALSE
    <3>1. Length(w) >= 2 /\ From(w, 2) = l
      BY <2>2, <2>4, CommentedLineIs
    <3>2. UncommentLine(u, t, i) = RemoveText(t, i, 0, 0, 0, 2).doc
      BY <2>4, Zenon DEF UncommentLine
    <3>3. RemoveText(t, i, 0, 0, 0, 2).doc = Put(t, i, From(At(t, i), 2))
      BY <2>1, <3>1, RemoveStart
    <3> QED BY <3>1, <3>2, <3>3
  <2> QED BY <2>3, <2>4
<1> HIDE DEF W
<1>7. UndoComment(u, e) = d
  BY <1>4, <1>5, <1>6, LinesBack
<1> QED BY <1>4, <1>7

\* The command that imports an actor.
Importing(line) == [type |-> "import", line |-> line]

\* The import becomes line n.
ImportsAt(d, n, e) == \A old : RedoImport(Importing(old), d) = [cmd |-> Importing(n), doc |-> e]

\* An import inserted and taken back.
LEMMA ImportUndone ==
  ASSUME NEW d \in Text
  PROVE  \E n, e : /\ e \in Text /\ ImportsAt(d, n, e) /\ UndoImport(Importing(n), e) = d
<1> DEFINE Commented(i) == \E j \in DOMAIN d[i] :
                        d[i][j] = Bar /\ \A k \in 1 .. j - 1 : d[i][k] = Blank
           n == CHOOSE m \in 1 .. Len(d) + 1 :
                  (\A i \in 1 .. m - 1 : Commented(i)) /\ (m = Len(d) + 1 \/ ~Commented(m))
           e == Around(Upto(d, n - 1), Import, From(d, n - 1))
           T == {m \in 1 .. Len(d) + 1 : m = Len(d) + 1 \/ ~Commented(m)}
<1>1. n \in 1 .. Length(d) + 1
  <2> HIDE DEF Commented
  <2>1. Len(d) \in Nat /\ Len(d) + 1 \in T /\ T \in SUBSET Nat
    BY DEF Text
  <2>2. PICK m \in T : \A k \in T : m <= k
    <3> HIDE DEF T
    <3> QED BY <2>1, LeastNumber
  <2>3. \A i \in 1 .. m - 1 : Commented(i)
    <3> SUFFICES ASSUME NEW i \in 1 .. m - 1 PROVE Commented(i)
      OBVIOUS
    <3>1. i \in 1 .. Len(d) + 1 /\ ~(m <= i) /\ i # Len(d) + 1
      BY <2>1, <2>2
    <3>2. i \notin T
      BY <3>1, <2>2
    <3> QED BY <3>1, <3>2
  <2>4. m \in 1 .. Len(d) + 1 /\ (m = Len(d) + 1 \/ ~Commented(m))
    BY <2>2
  <2>5. \E k \in 1 .. Len(d) + 1 :
           (\A i \in 1 .. k - 1 : Commented(i)) /\ (k = Len(d) + 1 \/ ~Commented(k))
    BY <2>3, <2>4
  <2>6. n \in 1 .. Len(d) + 1
    BY <2>5, Zenon
  <2> QED BY <2>6 DEF Length
<1>2. n - 1 \in 0 .. Length(d) /\ Length(d) \in Nat
  BY <1>1, LengthNat, TextIsList
<1> DEFINE a == Upto(d, n - 1)
           b == From(d, n - 1)
<1>3. a \in Text /\ Length(a) = n - 1 /\ b \in Text /\ One(Import) \in Text /\ Cat(a, b) = d
  BY <1>2, UptoType, FromType, UptoFrom, OneType, TextsAssumption, TextIsList
<1>4. \A old : RedoImport(Importing(old), d) =
                 [cmd |-> [Importing(old) EXCEPT !.line = n], doc |-> Cat(Cat(a, One(Import)), b)]
  BY Zenon DEF RedoImport, Cat, One
<1> HIDE DEF n, a, b
<1>5. e = Around(a, Import, b) /\ Cat(Cat(a, One(Import)), b) = e
  <2>1. Cat(Cat(a, One(Import)), b) = Cat(a, Cat(One(Import), b))
    BY <1>3, CatAssociative, TextIsList
  <2> QED BY <2>1 DEF Around, a, b
<1> HIDE DEF e
<1>6. ImportsAt(d, n, e)
  <2>1. \A old : [Importing(old) EXCEPT !.line = n] = Importing(n)
    BY DEF Importing
  <2> QED BY <2>1, <1>4, <1>5 DEF ImportsAt
<1>7. e \in Text /\ Upto(e, n - 1) = a /\ From(e, n) = b
  <2>1. Length(a) + 1 = n
    BY <1>1, <1>2, <1>3
  <2> QED BY <1>3, <1>5, <2>1, AroundType, AroundParts, TextsAssumption, TextIsList
<1>8. UndoImport(Importing(n), e) = Cat(Upto(e, n - 1), From(e, n))
  BY DEF UndoImport, Cat, Importing
<1> QED BY <1>3, <1>6, <1>7, <1>8

-----------------------------------------------------------------------------
(* Changes within a line, and removals that leave it *)

\* The size of a line.
LEMMA SizeOne ==
  ASSUME NEW x \in Line
  PROVE  Size(One(x)) = Length(x)
<1>1. One(x) \in Text /\ Length(One(x)) = 1 /\ At(One(x), 1) = x /\ Length(x) \in Nat
  BY OneType, LengthNat, TextIsList
<1>2. /\ Offsets(One(x))[0] = 0
      /\ \A k \in 1 .. Length(One(x)) :
           Offsets(One(x))[k] = Offsets(One(x))[k - 1] + Length(At(One(x), k)) + 1
  BY <1>1, OffsetsAre
<1>3. 1 \in 1 .. Length(One(x)) /\ 1 - 1 = 0
  BY <1>1
<1>4. Offsets(One(x))[1] = Offsets(One(x))[1 - 1] + Length(At(One(x), 1)) + 1
  BY <1>2, <1>3
<1>5. Offsets(One(x))[1] = 0 + Length(x) + 1
  BY <1>1, <1>2, <1>3, <1>4
<1>6. Size(One(x)) = Offsets(One(x))[1] - 1
  BY <1>1 DEF Size, Length
<1> QED BY <1>1, <1>5, <1>6

\* Sequences joined at the same place.
LEMMA CatSame ==
  ASSUME NEW S, NEW a \in List(S), NEW b \in List(S), NEW c \in List(S), NEW e \in List(S),
         Cat(a, b) = Cat(c, e), Length(a) = Length(c)
  PROVE  a = c /\ b = e
  BY Parts

\* Sequences around an element at the same place.
LEMMA AroundSame ==
  ASSUME NEW S, NEW a \in List(S), NEW x \in S, NEW b \in List(S),
         NEW a2 \in List(S), NEW x2 \in S, NEW b2 \in List(S),
         Around(a, x, b) = Around(a2, x2, b2), Length(a) = Length(a2)
  PROVE  a = a2 /\ x = x2 /\ b = b2
  BY AroundParts, AroundType

\* Characters inserted within a line.
LEMMA InsertMiddle ==
  ASSUME NEW a \in Text, NEW p \in Line, NEW q \in Line, NEW b \in Text, NEW z \in Line
  PROVE  InsertText(Around(a, Cat(p, q), b), Length(a) + 1, Length(p), One(z)).doc
           = Around(a, Cat(p, Cat(z, q)), b)
<1> DEFINE t == Around(a, Cat(p, q), b)
           i == Length(a) + 1
           pos == Length(p)
           l == Cat(p, q)
<1>1. l \in Line /\ Length(l) = Length(p) + Length(q)
  BY CatType, TextIsList
<1>2. /\ t \in Text /\ Length(t) = Length(a) + 1 + Length(b) /\ At(t, Length(a) + 1) = l
  BY <1>1, AroundType, TextIsList
<1>3. Length(a) \in Nat /\ Length(b) \in Nat /\ Length(p) \in Nat /\ Length(q) \in Nat
  BY LengthNat, TextIsList
<1>4. i \in 1 .. Length(t) /\ i \in Nat /\ i >= 1 /\ pos \in Nat /\ pos <= Length(l) /\ i <= Length(t)
  BY <1>1, <1>2, <1>3
<1>5. LineAt(t, i) = l
  <2> HIDE DEF t, l
  <2> QED BY <1>2, <1>4, LinesOf DEF LineAt
<1> HIDE DEF t, i, pos, l
<1>6. PICK a1 \in Text, b1 \in Text, p1 \in Line, q1 \in Line, bl \in Nat, bc \in Nat :
           /\ Place(t, i, pos, a1, LineAt(t, i), b1, p1, q1, bl, bc)
           /\ InsertsAt(t, i, pos, a1, b1, p1, q1, bl, bc)
  BY <1>2, <1>4, PlaceOf
<1>7. /\ Length(a1) + 1 = i /\ Length(p1) = pos /\ bl = 0 /\ bc = 0
      /\ Cat(p1, q1) = Cat(l, Fill(bc)) /\ Around(a1, l, b1) = Cat(t, EmptyLines(bl))
  BY <1>4, <1>5, <1>6 DEF Place
<1>8. Fill(0) = Nil /\ EmptyLines(0) = Nil
  BY FillType, EmptyLinesType, NilLength, TextIsList
<1>9. Cat(p1, q1) = Cat(p, q) /\ Around(a1, l, b1) = Around(a, l, b)
  <2>1. Cat(l, Fill(bc)) = l /\ Cat(t, EmptyLines(bl)) = t
    BY <1>1, <1>2, <1>7, <1>8, EmptyLine
  <2> QED BY <2>1, <1>7 DEF t, l
<1>10. p1 = p /\ q1 = q
  BY <1>7, <1>9, CatSame, TextIsList DEF pos
<1>11. a1 = a /\ b1 = b
  <2>1. Length(a1) \in Nat
    BY LengthNat, TextIsList
  <2>2. Length(a1) = Length(a)
    BY <2>1, <1>3, <1>7 DEF i
  <2> QED BY <2>2, <1>1, <1>9, AroundSame, TextIsList
<1>12. One(z) \in Full
  BY OneFull
<1>13. InsertText(t, i, pos, One(z)) =
        [doc |-> Inserted(a, p, One(z), q, b), blankLines |-> bl, blankChars |-> bc]
  BY <1>4, <1>5, <1>6, <1>10, <1>11, <1>12 DEF InsertsAt
<1>14. Inserted(a, p, One(z), q, b) = Around(a, Cat(p, Cat(z, q)), b)
  BY GlueOne DEF Inserted, Around
<1> QED BY <1>13, <1>14 DEF t, i, pos, l

\* Characters removed within a line.
LEMMA RemoveMiddle ==
  ASSUME NEW a \in Text, NEW p \in Line, NEW x \in Line, NEW q \in Line, NEW b \in Text,
         Length(x) >= 1
  PROVE  RemoveText(Around(a, Cat(p, Cat(x, q)), b), Length(a) + 1, Length(p), 0, 0, Length(x))
           = [doc |-> Around(a, Cat(p, q), b), removed |-> One(x)]
<1> DEFINE y == Cat(x, q)
           l == Cat(p, y)
           d == Around(a, l, b)
           line == Length(a) + 1
           pos == Length(p)
           k == Length(x)
<1>1. y \in Line /\ Length(y) = Length(x) + Length(q)
  BY CatType, TextIsList
<1>2. l \in Line /\ Length(l) = Length(p) + Length(y)
  BY <1>1, CatType, TextIsList
<1>3. d \in Text /\ Length(d) = Length(a) + 1 + Length(b) /\ At(d, Length(a) + 1) = l
  BY <1>2, AroundType, TextIsList
<1>4. Length(a) \in Nat /\ Length(b) \in Nat /\ Length(p) \in Nat /\ Length(q) \in Nat /\ Length(x) \in Nat
  BY LengthNat, TextIsList
<1>5. Upto(d, Length(a)) = a /\ From(d, Length(a) + 1) = b
  BY <1>2, AroundParts, TextIsList
<1>6. Upto(l, Length(p)) = p /\ From(l, Length(p)) = y
  BY <1>1, Parts, TextIsList
<1>7. Upto(y, Length(x)) = x /\ From(y, Length(x)) = q
  BY Parts, TextIsList
<1> HIDE DEF y, l, d
<1>8. /\ line \in 1 .. Length(d) /\ pos \in 0 .. Length(l) /\ k \in 1 .. Length(l) - pos
      /\ line - 1 = Length(a) /\ At(d, line) = l
  BY <1>1, <1>2, <1>3, <1>4
<1> HIDE DEF line, pos, k
<1>9. RemoveText(d, line, pos, 0, 0, k) =
         [doc |-> CutLine(Upto(d, line - 1), Upto(At(d, line), pos), From(From(At(d, line), pos), k),
                          From(d, line)),
          removed |-> One(Upto(From(At(d, line), pos), k))]
  BY <1>3, <1>8, RemoveWithin
<1>10. /\ Upto(d, line - 1) = a /\ Upto(At(d, line), pos) = p /\ From(At(d, line), pos) = y
       /\ From(y, k) = q /\ Upto(y, k) = x /\ From(d, line) = b
  BY <1>5, <1>6, <1>7, <1>8 DEF line, pos, k
<1> QED BY <1>9, <1>10 DEF d, l, y, line, pos, k, CutLine

\* Extending the last line adds no line.
LEMMA ExtType ==
  ASSUME NEW r \in Full, NEW x \in Line
  PROVE  Ext(r, x) \in Full /\ Length(Ext(r, x)) = Length(r)
<1>1. r \in Text /\ Length(r) \in Nat /\ Length(r) \in 1 .. Length(r)
  BY LengthNat, TextIsList DEF Full
<1>2. At(r, Length(r)) \in Line
  BY <1>1, AtType, TextIsList
<1>3. Cat(At(r, Length(r)), x) \in Line
  BY <1>2, CatType, TextIsList
<1>4. Ext(r, x) \in Text /\ Length(Ext(r, x)) = Length(r)
  BY <1>1, <1>3, PutType, TextIsList DEF Ext
<1> QED BY <1>1, <1>4 DEF Full

\* An empty line more adds one.
LEMMA MoreType ==
  ASSUME NEW r \in Full
  PROVE  Length(More(r)) = Length(r) + 1
<1>1. r \in Text /\ One(Nil) \in Text /\ Length(One(Nil)) = 1
  BY EmptyLine, OneType, TextIsList DEF Full
<1>2. More(r) = Cat(r, One(Nil))
  BY <1>1, MoreIs
<1> QED BY <1>1, <1>2, CatType, TextIsList

\* A round that wants more than the line has takes the line's end or the line.
LEMMA RoundBeyond ==
  ASSUME NEW a \in Text, NEW p \in Line, NEW x \in Line, NEW b \in Text,
         NEW k \in Nat, k > Length(x), NEW r \in Full,
         NEW s, s = CutRound(Cutting(CutLine(a, p, x, b), k, r), Length(a) + 1, Length(p))
  PROVE  s.doc = a \/ Length(s.removed) >= 2
<1>1. Length(r) \in Nat /\ Length(r) >= 1
  BY LengthNat, TextIsList DEF Full
<1>2. Ext(r, x) \in Full /\ Length(Ext(r, x)) = Length(r)
  BY ExtType
<1>3. CASE Length(b) = 0
  <2>1. b = Nil
    BY <1>3, NilLength, TextIsList
  <2>2. s = Cutting(a, k - Length(x) - 1, Ext(r, x))
    BY <2>1, RoundEnd
  <2> QED BY <2>2, CuttingIs
<1>4. CASE Length(b) # 0
  <2>1. b \in Full
    <3>1. Length(b) \in Nat
      BY LengthNat, TextIsList
    <3> QED BY <3>1, <1>4 DEF Full
  <2>2. At(b, 1) \in Line /\ From(b, 1) \in Text /\ b = Cat(One(At(b, 1)), From(b, 1))
    BY <2>1, First
  <2> DEFINE y == At(b, 1)
             c == From(b, 1)
  <2> HIDE DEF y, c
  <2>3. s = Cutting(CutLine(a, p, y, c), k - Length(x) - 1, More(Ext(r, x)))
    <3>1. b = Cat(One(y), c) /\ y \in Line /\ c \in Text
      BY <2>2 DEF y, c
    <3>2. CutRound(Cutting(CutLine(a, p, x, Cat(One(y), c)), k, r), Length(a) + 1, Length(p))
           = Cutting(CutLine(a, p, y, c), k - Length(x) - 1, Append(Ext(r, x), << >>))
      BY <3>1, RoundJoin
    <3> QED BY <3>1, <3>2 DEF More
  <2>4. Length(More(Ext(r, x))) = Length(r) + 1
    BY <1>2, MoreType
  <2> QED BY <2>3, <2>4, <1>1, CuttingIs
<1> QED BY <1>3, <1>4

\* The states in which more than a part of a line is removed.
Beyond(a, p, d) == {s \in Reached(a, p, d) : s.doc = a \/ Length(s.removed) >= 2}

\* Later rounds remove more.
LEMMA RoundStaysBeyond ==
  ASSUME NEW a \in Text, NEW p \in Line, NEW d, NEW s \in Beyond(a, p, d)
  PROVE  CutRound(s, Length(a) + 1, Length(p)) \in Beyond(a, p, d)
<1> DEFINE k == s.count
           r == s.removed
           new == CutRound(s, Length(a) + 1, Length(p))
<1>1. s \in Reached(a, p, d) /\ (s.doc = a \/ Length(r) >= 2)
  BY DEF Beyond
<1>2. s \in States
  BY <1>1 DEF Reached, Open, Gone
<1>3. k \in Int /\ r \in Full /\ s = Cutting(s.doc, k, r) /\ Length(a) \in Nat /\ Length(r) \in Nat
  BY <1>2, StatesAre, LengthNat, TextIsList DEF Full
<1>4. new \in Reached(a, p, d)
  BY <1>1, RoundReached
<1>5. CASE k <= 0
  <2>1. new = s
    BY <1>5, RoundStops
  <2> QED BY <2>1
<1>6. CASE s.doc = a
  <2>1. Length(a) + 1 > Length(s.doc)
    BY <1>3, <1>6
  <2>2. new = s
    BY <2>1, RoundStops
  <2> QED BY <2>2
<1>7. CASE k > 0 /\ s.doc # a
  <2>1. s \in Open(a, p, d) /\ Length(r) >= 2
    BY <1>1, <1>7 DEF Reached, Gone
  <2>2. PICK x \in Line, b \in Text : s.doc = CutLine(a, p, x, b)
    BY <2>1 DEF Open
  <2>3. s = Cutting(CutLine(a, p, x, b), k, r) /\ Length(x) \in Nat
    BY <1>3, <2>2, LengthNat, TextIsList
  <2> HIDE DEF k, r
  <2>4. CASE k <= Length(x)
    <3>1. k \in 1 .. Length(x) /\ k \in 0 .. Length(x)
      BY <1>3, <1>7, <2>3, <2>4
    <3>2. CutRound(Cutting(CutLine(a, p, x, b), k, r), Length(a) + 1, Length(p))
            = Cutting(CutLine(a, p, From(x, k), b), 0, Ext(r, Upto(x, k)))
      BY <3>1, RoundWithin
    <3>3. Upto(x, k) \in Line
      BY <3>1, UptoType, TextIsList
    <3>4. Length(Ext(r, Upto(x, k))) = Length(r)
      BY <3>3, <1>3, ExtType
    <3>5. new.removed = Ext(r, Upto(x, k))
      BY <2>3, <3>2, CuttingIs
    <3> HIDE DEF new
    <3> QED BY <1>4, <2>1, <3>4, <3>5 DEF Beyond, new
  <2>5. CASE k > Length(x)
    <3>1. k \in Nat
      BY <1>3, <1>7
    <3>2. new = CutRound(Cutting(CutLine(a, p, x, b), k, r), Length(a) + 1, Length(p))
      BY <2>3
    <3> HIDE DEF new
    <3>3. new.doc = a \/ Length(new.removed) >= 2
      BY <1>3, <2>3, <2>5, <3>1, <3>2, RoundBeyond
    <3> QED BY <1>4, <3>3 DEF Beyond, new
  <2> QED BY <1>3, <2>3, <2>4, <2>5
<1> QED BY <1>3, <1>5, <1>6, <1>7

\* A cut that wants more than the line has takes the line's end or the line.
LEMMA CutBeyond ==
  ASSUME NEW a \in Text, NEW p \in Line, NEW x \in Line, NEW b \in Text,
         NEW k \in Nat, k > Length(x),
         NEW c, c = Cut(CutLine(a, p, x, b), Length(a) + 1, Length(p), k)
  PROVE  c.doc = a \/ Length(c.removed) >= 2
<1> DEFINE d == CutLine(a, p, x, b)
           n == Length(d)
           f == CutRounds(d, Length(a) + 1, Length(p), k)
           S == Beyond(a, p, d)
<1>1. n = Length(a) + 1 + Length(b) /\ Length(a) \in Nat /\ Length(b) \in Nat
  BY CutLineType
<1>2. n \in Nat /\ n >= 1 /\ 1 \in 1 .. n /\ 1 \in 0 .. n /\ 1 - 1 = 0 /\ k \in Int
  BY <1>1
<1>3. /\ f[0] = Cutting(d, k, One(Nil))
      /\ Rounds(f, n, Length(a) + 1, Length(p))
      /\ \A i \in 0 .. n : f[i] \in Reached(a, p, d)
  BY <1>2, RoundsAre
<1>4. f[1] \in S
  <2> HIDE DEF f
  <2>1. f[1] = CutRound(f[1 - 1], Length(a) + 1, Length(p))
    BY <1>2, <1>3 DEF Rounds
  <2>2. f[1] = CutRound(Cutting(CutLine(a, p, x, b), k, One(Nil)), Length(a) + 1, Length(p))
    BY <2>1, <1>2, <1>3
  <2>3. One(Nil) \in Full
    BY OneFull, EmptyLine
  <2>4. f[1].doc = a \/ Length(f[1].removed) >= 2
    BY <2>2, <2>3, RoundBeyond
  <2> QED BY <2>4, <1>2, <1>3 DEF Beyond
<1>5. f[n] \in S
  <2> DEFINE T == {i \in Nat : i + 1 <= n => f[i + 1] \in S}
  <2> HIDE DEF f, S, n
  <2>1. 0 \in T
    BY <1>4
  <2>2. ASSUME NEW i \in Nat, i \in T PROVE i + 1 \in T
    <3>1. CASE (i + 1) + 1 <= n
      <4>1. i + 1 <= n /\ (i + 1) + 1 \in 1 .. n /\ ((i + 1) + 1) - 1 = i + 1
        BY <3>1, <1>2
      <4>2. f[(i + 1) + 1] = CutRound(f[i + 1], Length(a) + 1, Length(p)) /\ f[i + 1] \in S
        BY <4>1, <1>3, <2>2 DEF Rounds
      <4>3. CutRound(f[i + 1], Length(a) + 1, Length(p)) \in S
        BY <4>2, RoundStaysBeyond DEF S
      <4> QED BY <4>2, <4>3
    <3>2. CASE ~((i + 1) + 1 <= n)
      BY <3>2
    <3> QED BY <3>1, <3>2
  <2> HIDE DEF T
  <2>3. Nat \subseteq T
    BY <2>1, <2>2, Induction
  <2>4. n - 1 \in Nat /\ (n - 1) + 1 = n
    BY <1>2
  <2> QED BY <2>3, <2>4, <1>2 DEF T
<1>6. c = f[n]
  BY CutIs
<1> QED BY <1>5, <1>6 DEF Beyond

=============================================================================
