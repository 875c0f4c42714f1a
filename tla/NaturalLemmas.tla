--------------------------- MODULE NaturalLemmas ---------------------------
(***************************************************************************)
(* Induction over the natural numbers, stated about sets, and numbers in   *)
(* two places: t * q + r, with r below q.                                *)
(***************************************************************************)
EXTENDS Integers, WellFoundedInduction, TLAPS

\* A set of natural numbers that is not empty has a least element.
LEMMA LeastNatural ==
  ASSUME NEW T, T \subseteq Nat, T # {}
  PROVE  \E x \in T : \A y \in T : x <= y
<1> DEFINE R == {ss \in Nat \X Nat : ss[1] < ss[2]}
<1>1. IsWellFoundedOn(R, Nat)  BY NatLessThanWellFounded DEF OpToRel
<1>2. PICK x \in T : \A y \in T : ~ (<<y, x>> \in R)
  <2> HIDE DEF R
  <2>. QED BY <1>1, WFMin
<1>3. ASSUME NEW y \in T, y < x PROVE FALSE
  <2>1. <<y, x>> \in Nat \X Nat /\ <<y, x>>[1] < <<y, x>>[2]  BY <1>3
  <2>. QED BY <1>2, <2>1
<1>. QED BY <1>3

\* A set with 0 and the successor of each of its elements holds every natural
\* number: what is to be proved by induction over n is put as the set of the
\* n for which it holds.
LEMMA SetInduction ==
  ASSUME NEW T, 0 \in T, \A n \in Nat : n \in T => n + 1 \in T
  PROVE  Nat \subseteq T
<1> DEFINE U == Nat \ T
<1> SUFFICES ASSUME U # {} PROVE FALSE
  OBVIOUS
<1>1. PICK x \in U : \A y \in U : x <= y
  <2>1. U \subseteq Nat  OBVIOUS
  <2> HIDE DEF U
  <2>. QED BY <2>1, LeastNatural
<1>2. x # 0 /\ x - 1 \in Nat  OBVIOUS
<1>3. x - 1 \in T  BY <1>1, <1>2
<1>. QED BY <1>1, <1>2, <1>3

-----------------------------------------------------------------------------
(* Sums, products and intervals                                            *)

LEMMA SumOrder ==
  ASSUME NEW a \in Nat, NEW b \in Nat, NEW c \in Nat, b >= a
  PROVE  a + c \in Nat /\ b + c \in Nat /\ b + c >= a + c
OBVIOUS

LEMMA ProductNat == ASSUME NEW a \in Nat, NEW b \in Nat PROVE a * b \in Nat
OBVIOUS

\* Of two intervals with a number in common neither ends where the other begins.
LEMMA Apart ==
  ASSUME NEW a \in Nat, NEW b \in Nat, NEW c \in Nat, NEW d \in Nat, NEW v,
         v \in a .. b - 1, v \in c .. d - 1
  PROVE  ~ (b <= c) /\ ~ (d <= a)
OBVIOUS

-----------------------------------------------------------------------------
(* Numbers in two places                                                   *)

Two(t, q, r) == t * q + r

LEMMA ProductMonotone ==
  ASSUME NEW a \in Nat, NEW b \in Nat, NEW c \in Nat, a <= b
  PROVE  a * c <= b * c
<1>1. PICK d \in Nat : b = a + d  BY b - a \in Nat
<1>2. b * c = a * c + d * c  BY <1>1
<1>3. d * c \in Nat /\ a * c \in Nat  OBVIOUS
<1>. QED BY <1>2, <1>3

LEMMA SquareMonotone ==
  ASSUME NEW a \in Nat, NEW b \in Nat, a <= b
  PROVE  a * a <= b * b
<1>1. a * a <= b * a /\ a * b <= b * b  BY ProductMonotone
<1>2. a * b = b * a /\ a * a \in Nat /\ a * b \in Nat /\ b * b \in Nat  OBVIOUS
<1>. QED BY <1>1, <1>2

LEMMA TwoPlacesType ==
  ASSUME NEW q \in Nat, NEW t \in Nat, NEW r \in 0 .. q - 1
  PROVE  Two(t, q, r) \in Nat
<1>1. t * q \in Nat /\ r \in Nat  OBVIOUS
<1>. QED BY <1>1 DEF Two

LEMMA TwoPlacesBound ==
  ASSUME NEW m \in Nat, NEW q \in Nat, NEW t \in 0 .. m - 1, NEW r \in 0 .. q - 1
  PROVE  Two(t, q, r) \in 0 .. m * q - 1
<1>1. (t + 1) * q <= m * q  BY ProductMonotone, t + 1 \in Nat, t + 1 <= m
<1>2. (t + 1) * q = t * q + q /\ t * q \in Nat /\ m * q \in Nat  OBVIOUS
<1>. QED BY <1>1, <1>2 DEF Two

LEMMA TwoPlacesExist ==
  ASSUME NEW m \in Nat, NEW q \in Nat, NEW v \in 0 .. m * q - 1
  PROVE  \E t \in 0 .. m - 1, r \in 0 .. q - 1 : v = Two(t, q, r)
<1>1. q # 0 /\ m * q \in Nat  OBVIOUS
<1>2. PICK t \in Nat, r \in 0 .. q - 1 : v = t * q + r
  <2> DEFINE T == {n \in Nat : \E t \in Nat, r \in 0 .. q - 1 : n = t * q + r}
  <2>1. 0 \in T
    <3>1. 0 = 0 * q + 0 /\ 0 \in 0 .. q - 1  BY <1>1
    <3>. QED BY <3>1
  <2>2. ASSUME NEW n \in Nat, n \in T PROVE n + 1 \in T
    <3>1. PICK t \in Nat, r \in 0 .. q - 1 : n = t * q + r  BY <2>2
    <3>2. t * q \in Nat  OBVIOUS
    <3>3. CASE r + 1 \in 0 .. q - 1
      <4>1. n + 1 = t * q + (r + 1)  BY <3>1, <3>2
      <4>. QED BY <3>3, <4>1
    <3>4. CASE r + 1 = q
      <4>1. n + 1 = (t + 1) * q + 0 /\ 0 \in 0 .. q - 1 /\ t + 1 \in Nat /\ n + 1 \in Nat
        BY <1>1, <3>1, <3>2, <3>4
      <4>. QED BY <4>1, Zenon
    <3>. QED BY <3>3, <3>4
  <2> HIDE DEF T
  <2>3. v \in T  BY <1>1, <2>1, <2>2, SetInduction
  <2>. QED BY <2>3 DEF T
<1>3. t < m
  <2>1. CASE m <= t
    <3>1. m * q <= t * q /\ t * q \in Nat  BY <2>1, ProductMonotone
    <3>. QED BY <1>1, <1>2, <3>1
  <2>. QED BY <2>1
<1>. QED BY <1>2, <1>3 DEF Two

LEMMA TwoPlacesUnique ==
  ASSUME NEW q \in Nat, NEW t \in Nat, NEW r \in 0 .. q - 1, NEW u \in Nat, NEW s \in 0 .. q - 1,
         Two(t, q, r) = Two(u, q, s)
  PROVE  t = u /\ r = s
<1>1. ASSUME NEW a \in Nat, NEW b \in Nat, NEW x \in 0 .. q - 1, NEW y \in 0 .. q - 1,
             a * q + x = b * q + y, a < b
      PROVE  FALSE
  <2>1. (a + 1) * q <= b * q  BY <1>1, ProductMonotone, a + 1 \in Nat, a + 1 <= b
  <2>2. (a + 1) * q = a * q + q /\ a * q \in Nat /\ b * q \in Nat  OBVIOUS
  <2>. QED BY <1>1, <2>1, <2>2
<1>2. t * q + r = u * q + s  BY DEF Two
<1>3. t = u  BY <1>1, <1>2
<1>4. t * q \in Nat  OBVIOUS
<1>. QED BY <1>2, <1>3, <1>4
=============================================================================
