---------------------------- MODULE TrackerProofs ----------------------------
(***************************************************************************)
(* Proofs about Tracker, for any detections, thresholds, clock and number  *)
(* of frames.                                                              *)
(***************************************************************************)
EXTENDS Tracker, FiniteSetTheorems, TLAPS

-----------------------------------------------------------------------------
(* Lists without repetition                                                *)

Distinct(s) == \A m, n \in 1 .. Len(s) : s[m] = s[n] => m = n

LEMMA Push ==
  ASSUME NEW S, NEW s \in Seq(S), NEW x \in S
  PROVE  /\ <<x>> \o s \in Seq(S)
         /\ Len(<<x>> \o s) = Len(s) + 1
         /\ Nodes(<<x>> \o s) = {x} \cup Nodes(s)
         /\ Distinct(s) /\ x \notin Nodes(s) => Distinct(<<x>> \o s)
<1> DEFINE t == <<x>> \o s
<1>1. t \in Seq(S) /\ Len(t) = Len(s) + 1
  OBVIOUS
<1>2. t[1] = x /\ \A n \in 2 .. Len(t) : t[n] = s[n - 1]
  OBVIOUS
<1> HIDE DEF t
<1>3. Nodes(t) = {x} \cup Nodes(s)
  <2>1. \A y \in Nodes(t) : y \in {x} \cup Nodes(s)
    <3> SUFFICES ASSUME NEW n \in 1 .. Len(t) PROVE t[n] \in {x} \cup Nodes(s)
      BY DEF Nodes
    <3>1. CASE n = 1  BY <1>2, <3>1
    <3>2. CASE n # 1  BY <1>1, <1>2, <3>2 DEF Nodes
    <3>. QED BY <3>1, <3>2
  <2>2. x \in Nodes(t)  BY <1>1, <1>2 DEF Nodes
  <2>3. \A y \in Nodes(s) : y \in Nodes(t)
    <3> SUFFICES ASSUME NEW n \in 1 .. Len(s) PROVE s[n] \in Nodes(t)
      BY DEF Nodes
    <3>1. n + 1 \in 2 .. Len(t) /\ t[n + 1] = s[n]  BY <1>1, <1>2
    <3>. QED BY <3>1 DEF Nodes
  <2>. QED BY <2>1, <2>2, <2>3
<1>4. ASSUME Distinct(s), x \notin Nodes(s) PROVE Distinct(t)
  <2> SUFFICES ASSUME NEW m \in 1 .. Len(t), NEW n \in 1 .. Len(t), t[m] = t[n] PROVE m = n
    BY DEF Distinct
  <2>1. \A k \in 2 .. Len(t) : t[k] = s[k - 1] /\ k - 1 \in 1 .. Len(s) /\ t[k] # x
    BY <1>1, <1>2, <1>4 DEF Nodes
  <2>2. CASE m = 1 \/ n = 1  BY <1>2, <2>1, <2>2
  <2>3. CASE m # 1 /\ n # 1
    <3>1. m - 1 = n - 1  BY <1>4, <2>1, <2>3 DEF Distinct
    <3>. QED BY <3>1
  <2>. QED BY <2>2, <2>3
<1>. QED BY <1>1, <1>3, <1>4 DEF t

LEMMA Appended ==
  ASSUME NEW S, NEW s \in Seq(S), NEW x \in S
  PROVE  /\ Append(s, x) \in Seq(S)
         /\ Len(Append(s, x)) = Len(s) + 1
         /\ Append(s, x)[Len(s) + 1] = x
         /\ \A n \in 1 .. Len(s) : Append(s, x)[n] = s[n]
         /\ Nodes(Append(s, x)) = Nodes(s) \cup {x}
         /\ Distinct(s) /\ x \notin Nodes(s) => Distinct(Append(s, x))
<1> DEFINE t == Append(s, x)
<1>1. t \in Seq(S) /\ Len(t) = Len(s) + 1 /\ t[Len(s) + 1] = x /\ \A n \in 1 .. Len(s) : t[n] = s[n]
  OBVIOUS
<1> HIDE DEF t
<1>2. Nodes(t) = Nodes(s) \cup {x}
  <2>1. \A y \in Nodes(t) : y \in Nodes(s) \cup {x}
    <3> SUFFICES ASSUME NEW n \in 1 .. Len(t) PROVE t[n] \in Nodes(s) \cup {x}
      BY DEF Nodes
    <3>1. n = Len(s) + 1 \/ n \in 1 .. Len(s)  BY <1>1
    <3>. QED BY <1>1, <3>1 DEF Nodes
  <2>2. \A y \in Nodes(s) : y \in Nodes(t)
    <3> SUFFICES ASSUME NEW n \in 1 .. Len(s) PROVE s[n] \in Nodes(t)
      BY DEF Nodes
    <3>1. n \in 1 .. Len(t) /\ t[n] = s[n]  BY <1>1
    <3>. QED BY <3>1 DEF Nodes
  <2>3. x \in Nodes(t)
    <3>1. Len(s) + 1 \in 1 .. Len(t)  BY <1>1
    <3>. QED BY <1>1, <3>1 DEF Nodes
  <2>. QED BY <2>1, <2>2, <2>3
<1>3. ASSUME Distinct(s), x \notin Nodes(s) PROVE Distinct(t)
  <2> SUFFICES ASSUME NEW m \in 1 .. Len(t), NEW n \in 1 .. Len(t), t[m] = t[n] PROVE m = n
    BY DEF Distinct
  <2>1. \A k \in 1 .. Len(t) : k = Len(s) + 1 \/ (k \in 1 .. Len(s) /\ t[k] = s[k] /\ t[k] # x)
    BY <1>1, <1>3 DEF Nodes
  <2>. QED BY <1>1, <1>3, <2>1 DEF Distinct
<1>. QED BY <1>1, <1>2, <1>3 DEF t

LEMMA Removed ==
  ASSUME NEW S, NEW s \in Seq(S), NEW p \in 1 .. Len(s)
  PROVE  /\ Remove(s, p) \in Seq(S)
         /\ Len(Remove(s, p)) = Len(s) - 1
         /\ \A n \in 1 .. p - 1 : Remove(s, p)[n] = s[n]
         /\ Distinct(s) => Distinct(Remove(s, p)) /\ Nodes(Remove(s, p)) = Nodes(s) \ {s[p]}
<1> DEFINE t == Remove(s, p)
<1>1. Len(s) - 1 \in Nat /\ Len(s) \in Nat  OBVIOUS
<1>2. /\ t = [n \in 1 .. Len(s) - 1 |-> IF n < p THEN s[n] ELSE s[n + 1]]
      /\ \A n \in 1 .. Len(s) - 1 : (IF n < p THEN s[n] ELSE s[n + 1]) \in S
  BY DEF Remove
<1>3. t \in Seq(S) /\ Len(t) = Len(s) - 1  BY <1>1, <1>2
<1>4. \A n \in 1 .. Len(t) : t[n] = IF n < p THEN s[n] ELSE s[n + 1]  BY <1>2, <1>3
<1> HIDE DEF t
<1>5. ASSUME Distinct(s) PROVE Distinct(t)
  <2> SUFFICES ASSUME NEW m \in 1 .. Len(t), NEW n \in 1 .. Len(t), t[m] = t[n] PROVE m = n
    BY DEF Distinct
  <2> DEFINE from(k) == IF k < p THEN k ELSE k + 1
  <2>1. from(m) \in 1 .. Len(s) /\ from(n) \in 1 .. Len(s) /\ t[m] = s[from(m)] /\ t[n] = s[from(n)]
    BY <1>3, <1>4
  <2>2. from(m) = from(n)  BY <1>5, <2>1 DEF Distinct
  <2>. QED BY <2>2
<1>6. ASSUME Distinct(s) PROVE Nodes(t) = Nodes(s) \ {s[p]}
  <2>1. \A y \in Nodes(t) : y \in Nodes(s) \ {s[p]}
    <3> SUFFICES ASSUME NEW n \in 1 .. Len(t) PROVE t[n] \in Nodes(s) \ {s[p]}
      BY DEF Nodes
    <3> DEFINE k == IF n < p THEN n ELSE n + 1
    <3>1. k \in 1 .. Len(s) /\ k # p /\ t[n] = s[k]  BY <1>3, <1>4
    <3>2. s[k] # s[p]  BY <1>6, <3>1 DEF Distinct
    <3>. QED BY <3>1, <3>2 DEF Nodes
  <2>2. \A y \in Nodes(s) \ {s[p]} : y \in Nodes(t)
    <3> SUFFICES ASSUME NEW n \in 1 .. Len(s), s[n] # s[p] PROVE s[n] \in Nodes(t)
      BY DEF Nodes
    <3> DEFINE k == IF n < p THEN n ELSE n - 1
    <3>1. n # p  OBVIOUS
    <3>2. k \in 1 .. Len(t) /\ t[k] = s[n]  BY <1>3, <1>4, <3>1
    <3>. QED BY <3>2 DEF Nodes
  <2>. QED BY <2>1, <2>2
<1>7. \A n \in 1 .. p - 1 : t[n] = s[n]  BY <1>3, <1>4
<1>. QED BY <1>3, <1>5, <1>6, <1>7 DEF t

LEMMA Prefix ==
  ASSUME NEW S, NEW s \in Seq(S), NEW n \in 1 .. Len(s) + 1, Distinct(s)
  PROVE  /\ SubSeq(s, 1, n - 1) \in Seq(S)
         /\ Len(SubSeq(s, 1, n - 1)) = n - 1
         /\ Distinct(SubSeq(s, 1, n - 1))
         /\ Nodes(SubSeq(s, 1, n - 1)) = Nodes(s) \ {s[m] : m \in n .. Len(s)}
<1> DEFINE t == SubSeq(s, 1, n - 1)
<1>1. t \in Seq(S) /\ Len(t) = n - 1 /\ \A m \in 1 .. n - 1 : t[m] = s[m]
  OBVIOUS
<1> HIDE DEF t
<1>2. Distinct(t)  BY <1>1 DEF Distinct
<1>3. Nodes(t) = Nodes(s) \ {s[m] : m \in n .. Len(s)}
  <2>1. \A y \in Nodes(t) : y \in Nodes(s) \ {s[m] : m \in n .. Len(s)}
    <3> SUFFICES ASSUME NEW k \in 1 .. Len(t)
                 PROVE  t[k] \in Nodes(s) \ {s[m] : m \in n .. Len(s)}
      BY DEF Nodes
    <3>1. k \in 1 .. Len(s) /\ k < n /\ t[k] = s[k]  BY <1>1
    <3>2. \A m \in n .. Len(s) : s[m] # s[k]  BY <3>1 DEF Distinct
    <3>. QED BY <3>1, <3>2 DEF Nodes
  <2>2. \A y \in Nodes(s) \ {s[m] : m \in n .. Len(s)} : y \in Nodes(t)
    <3> SUFFICES ASSUME NEW k \in 1 .. Len(s), s[k] \notin {s[m] : m \in n .. Len(s)}
                 PROVE  s[k] \in Nodes(t)
      BY DEF Nodes
    <3>1. k \in 1 .. Len(t)  BY <1>1
    <3>. QED BY <1>1, <3>1 DEF Nodes
  <2>. QED BY <2>1, <2>2
<1>. QED BY <1>1, <1>2, <1>3 DEF t

LEMMA Counted ==
  ASSUME NEW s, NEW I, IsFiniteSet(I), \A m, n \in I : s[m] = s[n] => m = n
  PROVE  /\ IsFiniteSet({s[m] : m \in I})
         /\ Cardinality({s[m] : m \in I}) = Cardinality(I)
<1> DEFINE T == {s[m] : m \in I}
           f == [m \in I |-> s[m]]
<1>1. f \in Bijection(I, T)  BY DEF Bijection, Injection, Surjection, IsInjective
<1>2. ExistsBijection(I, T)  BY <1>1 DEF ExistsBijection
<1>. QED BY <1>2, FS_Bijection

LEMMA NodesCounted ==
  ASSUME NEW S, NEW s \in Seq(S), Distinct(s)
  PROVE  IsFiniteSet(Nodes(s)) /\ Cardinality(Nodes(s)) = Len(s)
<1>1. Len(s) \in Nat  OBVIOUS
<1>2. IsFiniteSet(1 .. Len(s)) /\ Cardinality(1 .. Len(s)) = Len(s)  BY <1>1, FS_Interval
<1> DEFINE I == 1 .. Len(s)
<1>3. \A m, n \in I : s[m] = s[n] => m = n  BY DEF Distinct
<1>4. Nodes(s) = {s[m] : m \in I}  BY DEF Nodes
<1>5. IsFiniteSet(I)  BY <1>2
<1> HIDE DEF I
<1>6. IsFiniteSet({s[m] : m \in I}) /\ Cardinality({s[m] : m \in I}) = Cardinality(I)
  BY <1>3, <1>5, Counted
<1>. QED BY <1>2, <1>4, <1>6 DEF I

\* Two lists without a common node, counted together.
LEMMA BothCounted ==
  ASSUME NEW S, NEW s \in Seq(S), NEW t \in Seq(S), Distinct(s), Distinct(t),
         Nodes(s) \cap Nodes(t) = {}
  PROVE  /\ IsFiniteSet(Nodes(s) \cup Nodes(t))
         /\ Cardinality(Nodes(s) \cup Nodes(t)) = Len(s) + Len(t)
<1>1. /\ IsFiniteSet(Nodes(s)) /\ Cardinality(Nodes(s)) = Len(s)
      /\ IsFiniteSet(Nodes(t)) /\ Cardinality(Nodes(t)) = Len(t)
  BY NodesCounted
<1>2. Cardinality(Nodes(s) \cap Nodes(t)) = 0  BY FS_EmptySet
<1>3. Len(s) \in Nat /\ Len(t) \in Nat  OBVIOUS
<1> DEFINE A == Nodes(s)
           B == Nodes(t)
<1> HIDE DEF A, B
<1>4. IsFiniteSet(A \cup B) /\ Cardinality(A \cup B) = Cardinality(A) + Cardinality(B) - Cardinality(A \cap B)
  <2>1. IsFiniteSet(A) /\ IsFiniteSet(B)  BY <1>1 DEF A, B
  <2>. QED BY <2>1, FS_Union
<1>. QED BY <1>1, <1>2, <1>3, <1>4 DEF A, B

LEMMA Wider == ASSUME NEW S, NEW T, S \subseteq T, NEW s \in Seq(S) PROVE s \in Seq(T)
OBVIOUS

LEMMA Square == ASSUME NEW x \in Int PROVE x * x \in Nat
<1>1. CASE x >= 0  BY <1>1
<1>2. CASE x < 0  BY <1>2
<1>. QED BY <1>1, <1>2

-----------------------------------------------------------------------------
(* Types                                                                   *)

Item == [c : Classes, pos : Int, seen_last : Int]

Records == [det : DOMAIN frame, t : IDs, distance : Nat]

\* TypeOK, but for the sign of the counts.
Types ==
  /\ clock \in Int /\ now \in Int
  /\ pc \in {"idle", "scan", "match", "new"}
  /\ frame \in Seq(Detections)
  /\ pending \subseteq DOMAIN frame
  /\ permutation \subseteq Records
  /\ at \in 1 .. Len(current_items) + 1
  /\ last_used_ID \in Nat
  /\ items \in Seq(Item)
  /\ Len(items) = last_used_ID
  /\ current_items \in Seq(IDs) /\ historical_items \in Seq(IDs)
  /\ counts \in [Classes -> Int]
  /\ result \in Seq(IDs) /\ last_tracked_detection \in Seq(IDs)

LEMMA FrameTyped ==
  ASSUME Types
  PROVE  /\ DOMAIN frame = 1 .. Len(frame) /\ Len(frame) \in Nat
         /\ \A d \in DOMAIN frame : frame[d] \in Detections /\ frame[d].c \in Classes /\ frame[d].pos \in Int
         /\ DOMAIN items = IDs
         /\ \A t \in IDs : items[t] \in Item
         /\ \A n \in 1 .. Len(current_items) : current_items[n] \in IDs
         /\ \A n \in 1 .. Len(historical_items) : historical_items[n] \in IDs
         /\ \A n \in 1 .. Len(result) : result[n] \in IDs
<1>1. DOMAIN frame = 1 .. Len(frame) /\ Len(frame) \in Nat /\ \A d \in DOMAIN frame : frame[d] \in Detections
  BY DEF Types
<1>2. \A d \in Detections : d.c \in Classes /\ d.pos \in Int  BY DetectionsAssumption DEF Classes
<1>3. DOMAIN items = IDs /\ \A t \in IDs : items[t] \in Item  BY DEF Types, IDs
<1>4. /\ \A n \in 1 .. Len(current_items) : current_items[n] \in IDs
      /\ \A n \in 1 .. Len(historical_items) : historical_items[n] \in IDs
      /\ \A n \in 1 .. Len(result) : result[n] \in IDs
  BY DEF Types
<1>. QED BY <1>1, <1>2, <1>3, <1>4

LEMMA PairsTyped ==
  ASSUME Types, NEW t \in IDs
  PROVE  Pairs(t) \subseteq Records
<1> SUFFICES ASSUME NEW d \in DOMAIN frame PROVE Distance(items[t], frame[d]) \in Nat
  BY DEF Pairs, Records
<1>1. items[t].pos \in Int /\ frame[d].pos \in Int  BY FrameTyped DEF Item
<1>2. items[t].pos - frame[d].pos \in Int  BY <1>1
<1>. QED BY <1>2, Square DEF Distance

LEMMA TypesInit == Init => Types
<1> SUFFICES ASSUME Init PROVE Types
  OBVIOUS
<1>1. \A S : <<>> \in Seq(S) /\ Len(<<>>) = 0  OBVIOUS
<1>2. counts \in [Classes -> Int]  BY DEF Init
<1>. QED BY <1>1, <1>2 DEF Init, Types, Records, IDs

LEMMA FrameOK == ASSUME NEW f \in Frames PROVE f \in Seq(Detections)
<1>1. PICK n \in 0 .. MaxFrame : f \in [1 .. n -> Detections]  BY DEF Frames
<1>2. n \in Nat  BY BoundsAssumption
<1>. QED BY <1>1, <1>2

LEMMA TypesTake ==
  ASSUME Types, NEW r \in permutation, NEW left, left \subseteq permutation, Take(r, left)
  PROVE  Types'
<1>1. r.det \in DOMAIN frame /\ r.t \in IDs  BY DEF Types, Records
<1>2. frame[r.det].pos \in Int /\ items[r.t] \in Item  BY <1>1, FrameTyped
<1>3. now \in Int  BY DEF Types
<1>4. [items[r.t] EXCEPT !.pos = frame[r.det].pos, !.seen_last = now] \in Item
  BY <1>2, <1>3 DEF Item
<1>5. items' = [items EXCEPT ![r.t] = [items[r.t] EXCEPT !.pos = frame[r.det].pos, !.seen_last = now]]
  BY DEF Take
<1>6. items' \in Seq(Item) /\ Len(items') = Len(items)
  BY <1>1, <1>4, <1>5 DEF Types, IDs
<1>7. result' \in Seq(IDs)  BY <1>1, Appended DEF Take, Types
<1>8. UNCHANGED <<clock, pc, now, frame, at, current_items, historical_items, counts, last_used_ID, last_tracked_detection>>
  BY DEF Take, lists
<1>9. permutation' \subseteq Records /\ pending' \subseteq DOMAIN frame  BY DEF Take, Types
<1>. QED BY <1>6, <1>7, <1>8, <1>9 DEF Types, Records, IDs

LEMMA TypesRetire == Types /\ Retire => Types'
<1> SUFFICES ASSUME Types, Retire PROVE Types'
  OBVIOUS
<1>1. at \in 1 .. Len(current_items) /\ current_items[at] \in IDs  BY DEF Types, Retire
<1>2. current_items' \in Seq(IDs) /\ Len(current_items') = Len(current_items) - 1
  BY <1>1, Removed DEF Types, Retire
<1>3. historical_items' \in Seq(IDs)  BY <1>1, Push DEF Types, Retire
<1>4. UNCHANGED <<clock, pc, now, frame, pending, permutation, at, items, counts, last_used_ID, result,
                  last_tracked_detection>>
  BY DEF Retire
<1>5. at \in 1 .. Len(current_items') + 1  BY <1>1, <1>2 DEF Types
<1>. QED BY <1>2, <1>3, <1>4, <1>5 DEF Types, Records, IDs

LEMMA TypesErase == Types /\ EraseOutdatedHistory => Types'
<1> SUFFICES ASSUME Types, EraseOutdatedHistory PROVE Types'
  OBVIOUS
<1>1. PICK n \in 1 .. Len(historical_items) + 1 :
        /\ historical_items' = SubSeq(historical_items, 1, n - 1)
        /\ counts' = [c \in Classes |->
             counts[c] - Cardinality({m \in n .. Len(historical_items) : items[historical_items[m]].c = c})]
  BY DEF EraseOutdatedHistory
<1>2. historical_items' \in Seq(IDs)  BY <1>1 DEF Types
<1>3. \A c \in Classes :
        Cardinality({m \in n .. Len(historical_items) : items[historical_items[m]].c = c}) \in Nat
  <2> TAKE c \in Classes
  <2>1. IsFiniteSet(n .. Len(historical_items))  BY FS_Interval DEF Types
  <2>. QED BY <2>1, FS_Subset, FS_CardinalityType
<1>4. counts' \in [Classes -> Int]
  <2> DEFINE K(c) == Cardinality({m \in n .. Len(historical_items) : items[historical_items[m]].c = c})
  <2>1. \A c \in Classes : K(c) \in Nat  BY <1>3
  <2>2. counts' = [c \in Classes |-> counts[c] - K(c)]  BY <1>1
  <2> HIDE DEF K
  <2>3. \A c \in Classes : counts[c] - K(c) \in Int  BY <2>1 DEF Types
  <2>. QED BY <2>2, <2>3
<1>5. /\ UNCHANGED <<clock, now, frame, pending, permutation, at, items, current_items, last_used_ID,
                     result, last_tracked_detection>>
      /\ pc' = "new"
  BY DEF EraseOutdatedHistory
<1>. QED BY <1>2, <1>4, <1>5 DEF Types, Records, IDs

LEMMA TypesWelcome == Types /\ Welcome => Types'
<1> SUFFICES ASSUME Types, Welcome PROVE Types'
  OBVIOUS
<1> DEFINE id == last_used_ID + 1
<1>1. PICK d \in pending :
        /\ last_used_ID' = id
        /\ items' = Append(items, [c |-> frame[d].c, pos |-> frame[d].pos, seen_last |-> now])
        /\ counts' = [counts EXCEPT ![frame[d].c] = @ + 1]
        /\ pending' = pending \ {d}
  BY DEF Welcome
<1>2. IDs \subseteq IDs' /\ id \in IDs'  BY <1>1 DEF IDs, Types
<1>3. d \in DOMAIN frame  BY DEF Types
<1>4. items' \in Seq(Item) /\ Len(items') = last_used_ID'
  <2>1. [c |-> frame[d].c, pos |-> frame[d].pos, seen_last |-> now] \in Item
    BY <1>3, FrameTyped DEF Types, Item
  <2>. QED BY <1>1, <2>1, Appended DEF Types
<1>5. current_items \in Seq(IDs') /\ historical_items \in Seq(IDs') /\ result \in Seq(IDs')
        /\ last_tracked_detection \in Seq(IDs')
  BY <1>2, Wider DEF Types
<1>6. current_items' \in Seq(IDs') /\ Len(current_items') = Len(current_items) + 1
  BY <1>1, <1>2, <1>5, Push DEF Welcome
<1>7. result' \in Seq(IDs')  BY <1>1, <1>2, <1>5, Appended DEF Welcome
<1>8. counts' \in [Classes -> Int]
  <2>1. frame[d].c \in Classes  BY <1>3, FrameTyped
  <2>. QED BY <1>1, <2>1 DEF Types
<1>9. UNCHANGED <<clock, pc, now, frame, permutation, at, historical_items, last_tracked_detection>>
  BY DEF Welcome
<1>10. Records \subseteq Records'  BY <1>2, <1>9 DEF Records
<1>11. permutation' \subseteq Records' /\ pending' \subseteq DOMAIN frame'
  BY <1>1, <1>9, <1>10 DEF Types
<1>12. at' \in 1 .. Len(current_items') + 1  BY <1>6, <1>9 DEF Types
<1>13. last_used_ID' \in Nat  BY <1>1 DEF Types
<1>. QED BY <1>4, <1>5, <1>6, <1>7, <1>8, <1>9, <1>11, <1>12, <1>13 DEF Types

LEMMA TypesStep == Types /\ [Next]_vars => Types'
<1> SUFFICES ASSUME Types, [Next]_vars PROVE Types'
  OBVIOUS
<1>1. CASE Track
  <2>1. PICK f \in Frames : frame' = f /\ pending' = DOMAIN f  BY <1>1 DEF Track
  <2>2. frame' \in Seq(Detections)  BY <2>1, FrameOK
  <2>3. /\ now' = clock /\ pc' = "scan" /\ at' = 1 /\ permutation' = {} /\ result' = <<>>
        /\ UNCHANGED <<clock, items, current_items, historical_items, counts, last_used_ID, last_tracked_detection>>
    BY <1>1 DEF Track, lists
  <2>4. <<>> \in Seq(IDs)  OBVIOUS
  <2>5. 1 \in 1 .. Len(current_items) + 1  BY DEF Types
  <2>. QED BY <2>1, <2>2, <2>3, <2>4, <2>5 DEF Types, IDs
<1>2. CASE Consider
  <2>1. at \in 1 .. Len(current_items) /\ current_items[at] \in IDs  BY <1>2 DEF Consider, Types
  <2>2. permutation' \subseteq Records  BY <1>2, <2>1, PairsTyped DEF Consider, Types
  <2>3. at' \in 1 .. Len(current_items) + 1  BY <1>2, <2>1 DEF Consider
  <2>4. UNCHANGED <<clock, pc, now, frame, pending, items, current_items, historical_items, counts, last_used_ID, result,
                    last_tracked_detection>>
    BY <1>2 DEF Consider, lists
  <2>. QED BY <2>2, <2>3, <2>4 DEF Types, Records, IDs
<1>3. CASE Retire  BY <1>3, TypesRetire
<1>4. CASE EndScan  BY <1>4 DEF EndScan, lists, Types, Records, IDs
<1>5. CASE Match
  <2>1. PICK r \in permutation : Take(r, {q \in permutation : q.t # r.t /\ q.det # r.det})
    BY <1>5 DEF Match
  <2>. QED BY <2>1, TypesTake
<1>6. CASE EraseOutdatedHistory  BY <1>6, TypesErase
<1>7. CASE Welcome  BY <1>7, TypesWelcome
<1>8. CASE Return  BY <1>8 DEF Return, lists, Types, Records, IDs
<1>9. CASE Tick  
  <2>1. clock' \in Int  BY <1>9, TimesAssumption DEF Tick
  <2>. QED BY <1>9, <2>1 DEF Tick, lists, Types, Records, IDs
<1>10. CASE UNCHANGED vars  BY <1>10 DEF vars, lists, Types, Records, IDs
<1>. QED BY <1>1, <1>2, <1>3, <1>4, <1>5, <1>6, <1>7, <1>8, <1>9, <1>10 DEF Next, TrackStep

-----------------------------------------------------------------------------
(* The two lists and the counts                                            *)

Listed == Nodes(current_items) \cup Nodes(historical_items)

OfClass(c) == {t \in Listed : items[t].c = c}

Lists ==
  /\ Distinct(current_items) /\ Distinct(historical_items)
  /\ Nodes(current_items) \cap Nodes(historical_items) = {}

Counts == \A c \in Classes : counts[c] = Cardinality(OfClass(c))

LEMMA ListedTyped ==
  ASSUME Types PROVE Nodes(current_items) \subseteq IDs /\ Nodes(historical_items) \subseteq IDs
BY FrameTyped DEF Nodes

LEMMA ListedFinite == ASSUME Types PROVE IsFiniteSet(Listed)
<1>1. IsFiniteSet(IDs)  BY FS_Interval DEF Types, IDs
<1>. QED BY <1>1, ListedTyped, FS_Subset DEF Listed

\* What the actions do to the lists.
LEMMA RetireLists ==
  ASSUME Types, Lists, Retire
  PROVE  LET t == current_items[at]
         IN  /\ Lists'
             /\ Nodes(current_items') = Nodes(current_items) \ {t}
             /\ Nodes(historical_items') = Nodes(historical_items) \cup {t}
             /\ t \in Nodes(current_items)
             /\ \A n \in 1 .. at - 1 : current_items'[n] = current_items[n] /\ n \in 1 .. Len(current_items')
<1> DEFINE t == current_items[at]
<1>1. at \in 1 .. Len(current_items) /\ t \in IDs /\ t \in Nodes(current_items)
  BY DEF Types, Retire, Nodes
<1>2. /\ Nodes(current_items') = Nodes(current_items) \ {t} /\ Distinct(current_items')
      /\ \A n \in 1 .. at - 1 : current_items'[n] = current_items[n]
      /\ Len(current_items') = Len(current_items) - 1
  BY <1>1, Removed DEF Types, Lists, Retire
<1>3. t \notin Nodes(historical_items)  BY <1>1 DEF Lists
<1>4. Nodes(historical_items') = {t} \cup Nodes(historical_items) /\ Distinct(historical_items')
  BY <1>1, <1>3, Push DEF Types, Lists, Retire
<1>5. Nodes(current_items') \cap Nodes(historical_items') = {}  BY <1>2, <1>4 DEF Lists
<1>6. \A n \in 1 .. at - 1 : n \in 1 .. Len(current_items')  BY <1>1, <1>2
<1>. QED BY <1>1, <1>2, <1>4, <1>5, <1>6 DEF Lists

LEMMA EraseLists ==
  ASSUME Types, Lists, EraseOutdatedHistory
  PROVE  /\ Lists'
         /\ Nodes(historical_items') \subseteq Nodes(historical_items)
         /\ \E n \in 1 .. Len(historical_items) + 1 :
              LET dropped == {historical_items[m] : m \in n .. Len(historical_items)}
              IN /\ Nodes(historical_items') = Nodes(historical_items) \ dropped
                 /\ \A c \in Classes : counts'[c] = counts[c] - Cardinality({t \in dropped : items[t].c = c})
<1>1. PICK n \in 1 .. Len(historical_items) + 1 :
        /\ historical_items' = SubSeq(historical_items, 1, n - 1)
        /\ counts' = [c \in Classes |->
             counts[c] - Cardinality({m \in n .. Len(historical_items) : items[historical_items[m]].c = c})]
  BY DEF EraseOutdatedHistory
<1> DEFINE dropped == {historical_items[m] : m \in n .. Len(historical_items)}
<1>2. Nodes(historical_items') = Nodes(historical_items) \ dropped /\ Distinct(historical_items')
  BY <1>1, Prefix DEF Types, Lists
<1>3. current_items' = current_items  BY DEF EraseOutdatedHistory
<1>4. Lists'  BY <1>2, <1>3 DEF Lists
<1>5. ASSUME NEW c \in Classes
      PROVE  counts'[c] = counts[c] - Cardinality({t \in dropped : items[t].c = c})
  <2> DEFINE I == {m \in n .. Len(historical_items) : items[historical_items[m]].c = c}
  <2>1. counts'[c] = counts[c] - Cardinality(I)  BY <1>1
  <2>2. IsFiniteSet(I)
    <3>1. IsFiniteSet(n .. Len(historical_items))  BY FS_Interval DEF Types
    <3>. QED BY <3>1, FS_Subset
  <2>3. \A k, m \in I : historical_items[k] = historical_items[m] => k = m
    BY DEF Lists, Distinct
  <2>4. Cardinality({historical_items[m] : m \in I}) = Cardinality(I)
    <3> HIDE DEF I
    <3>. QED BY <2>2, <2>3, Counted
  <2>5. {t \in dropped : items[t].c = c} = {historical_items[m] : m \in I}  OBVIOUS
  <2>. QED BY <2>1, <2>4, <2>5
<1>. QED BY <1>2, <1>4, <1>5

LEMMA WelcomeLists ==
  ASSUME Types, Lists, Welcome
  PROVE  LET id == last_used_ID + 1
         IN  /\ Lists'
             /\ Nodes(current_items') = Nodes(current_items) \cup {id}
             /\ id \notin Listed
<1> DEFINE id == last_used_ID + 1
<1>1. id \notin Listed
  <2>1. id \notin IDs  BY DEF Types, IDs
  <2>. QED BY <2>1, ListedTyped DEF Listed
<1>2. current_items' = <<id>> \o current_items /\ historical_items' = historical_items
  BY DEF Welcome
<1>3. current_items \in Seq(Nat) /\ id \in Nat
  <2>1. IDs \subseteq Nat /\ id \in Nat  BY DEF IDs, Types
  <2>2. current_items \in Seq(IDs)  BY DEF Types
  <2>. QED BY <2>1, <2>2, Wider
<1>4. Nodes(current_items') = {id} \cup Nodes(current_items) /\ Distinct(current_items')
  BY <1>1, <1>2, <1>3, Push DEF Lists, Listed
<1>5. Lists'  BY <1>1, <1>2, <1>4 DEF Lists, Listed
<1>. QED BY <1>1, <1>4, <1>5

\* The other actions leave the lists alone.
Elsewhere == Track \/ Consider \/ EndScan \/ Match \/ Return \/ Tick \/ UNCHANGED vars

LEMMA ElsewhereLists == Elsewhere => UNCHANGED lists
<1> SUFFICES ASSUME Elsewhere PROVE UNCHANGED lists
  OBVIOUS
<1>1. CASE Match
  <2>1. \E r, left : Take(r, left)  BY <1>1, Zenon DEF Match
  <2>. QED BY <2>1, Zenon DEF Take
<1>2. CASE Track \/ Consider \/ EndScan  BY <1>2, Zenon DEF Track, Consider, EndScan
<1>3. CASE Return \/ Tick  BY <1>3, Zenon DEF Return, Tick
<1>4. CASE UNCHANGED vars  BY <1>4 DEF vars, lists
<1>. QED BY <1>1, <1>2, <1>3, <1>4 DEF Elsewhere

LEMMA NextCases == [Next]_vars => Elsewhere \/ Retire \/ EraseOutdatedHistory \/ Welcome
BY Zenon DEF Next, TrackStep, Elsewhere

\* An item keeps its class.
LEMMA ClassesKept ==
  ASSUME Types, [Next]_vars, NEW t \in IDs
  PROVE  items'[t].c = items[t].c /\ (~Match => items'[t] = items[t])
<1>1. CASE Match
  <2>1. PICK r \in permutation : Take(r, {q \in permutation : q.t # r.t /\ q.det # r.det})
    BY <1>1 DEF Match
  <2>2. items' = [items EXCEPT ![r.t] = [items[r.t] EXCEPT !.pos = frame[r.det].pos, !.seen_last = now]]
    BY <2>1 DEF Take
  <2>3. items[t] \in Item /\ t \in DOMAIN items  BY FrameTyped
  <2>. QED BY <1>1, <2>2, <2>3 DEF Item
<1>2. CASE Welcome
  <2>1. PICK x : items' = Append(items, x)  BY <1>2 DEF Welcome
  <2>2. t \in 1 .. Len(items) /\ items \in Seq(Item)  BY DEF Types, IDs
  <2>3. items'[t] = items[t]  BY <2>1, <2>2
  <2>. QED BY <2>3
<1>3. CASE ~Match /\ ~Welcome
  <2>1. items' = items
    BY <1>3, Zenon DEF Next, TrackStep, Track, Consider, Retire, EndScan, EraseOutdatedHistory,
           Return, Tick, vars
  <2>. QED BY <2>1
<1>. QED BY <1>1, <1>2, <1>3

LEMMA ListsInit == Init => Lists /\ Counts
<1> SUFFICES ASSUME Init PROVE Lists /\ Counts
  OBVIOUS
<1>1. Nodes(current_items) = {} /\ Nodes(historical_items) = {}  BY DEF Init, Nodes
<1>2. Lists  BY <1>1 DEF Init, Lists, Distinct
<1>3. \A c : OfClass(c) = {}  BY <1>1 DEF OfClass, Listed
<1>4. Counts  BY <1>3, FS_EmptySet DEF Init, Counts
<1>. QED BY <1>2, <1>4

LEMMA ListsStep == Types /\ Lists /\ [Next]_vars => Lists'
<1> SUFFICES ASSUME Types, Lists, [Next]_vars PROVE Lists'
  OBVIOUS
<1>1. CASE Elsewhere  BY <1>1, ElsewhereLists DEF lists, Lists
<1>2. CASE Retire  BY <1>2, RetireLists
<1>3. CASE EraseOutdatedHistory  BY <1>3, EraseLists
<1>4. CASE Welcome  BY <1>4, WelcomeLists
<1>. QED BY <1>1, <1>2, <1>3, <1>4, NextCases

LEMMA CountsStep == Types /\ Lists /\ Counts /\ [Next]_vars => Counts'
<1> SUFFICES ASSUME Types, Lists, Counts, [Next]_vars, NEW c \in Classes
             PROVE  counts'[c] = Cardinality(OfClass(c)')
  BY DEF Counts
<1>1. counts[c] = Cardinality(OfClass(c)) /\ IsFiniteSet(OfClass(c))
  BY ListedFinite, FS_Subset DEF Counts, OfClass
<1>2. \A t \in Listed : t \in IDs /\ items'[t].c = items[t].c
  BY ListedTyped, ClassesKept DEF Listed
<1>3. CASE Elsewhere
  <2>1. Listed' = Listed /\ counts' = counts  BY <1>3, ElsewhereLists DEF lists, Listed
  <2>2. OfClass(c)' = OfClass(c)  BY <1>2, <2>1 DEF OfClass
  <2>. QED BY <1>1, <2>1, <2>2
<1>4. CASE Retire
  <2>1. Listed' = Listed  BY <1>4, RetireLists DEF Listed
  <2>2. OfClass(c)' = OfClass(c)  BY <1>2, <2>1 DEF OfClass
  <2>. QED BY <1>1, <1>4, <2>2 DEF Retire
<1>5. CASE EraseOutdatedHistory
  <2>1. PICK n \in 1 .. Len(historical_items) + 1 :
          LET dropped == {historical_items[m] : m \in n .. Len(historical_items)}
          IN /\ Nodes(historical_items') = Nodes(historical_items) \ dropped
             /\ counts'[c] = counts[c] - Cardinality({t \in dropped : items[t].c = c})
    BY <1>5, EraseLists
  <2> DEFINE dropped == {historical_items[m] : m \in n .. Len(historical_items)}
             gone == {t \in dropped : items[t].c = c}
  <2>2. current_items' = current_items  BY <1>5 DEF EraseOutdatedHistory
  <2>3. dropped \subseteq Nodes(historical_items)  BY DEF Nodes, Types
  <2>4. OfClass(c)' = OfClass(c) \ gone
    BY <1>2, <2>1, <2>2, <2>3 DEF OfClass, Listed, Lists
  <2>5. OfClass(c) \cap gone = gone  BY <2>3 DEF OfClass, Listed
  <2>6. Cardinality(OfClass(c) \ gone) = Cardinality(OfClass(c)) - Cardinality(gone)
    <3> DEFINE A == OfClass(c)
    <3>1. IsFiniteSet(A) /\ A \cap gone = gone  BY <1>1, <2>5
    <3> HIDE DEF gone, A
    <3>2. Cardinality(A \ gone) = Cardinality(A) - Cardinality(A \cap gone)  BY <3>1, FS_Difference
    <3>3. Cardinality(A \ gone) = Cardinality(A) - Cardinality(gone)  BY <3>1, <3>2
    <3>. QED BY <3>3 DEF A
  <2>. QED BY <1>1, <2>1, <2>4, <2>6
<1>6. CASE Welcome
  <2> DEFINE id == last_used_ID + 1
  <2>1. PICK d \in pending :
          /\ items' = Append(items, [c |-> frame[d].c, pos |-> frame[d].pos, seen_last |-> now])
          /\ counts' = [counts EXCEPT ![frame[d].c] = @ + 1]
    BY <1>6 DEF Welcome
  <2>2. items'[id].c = frame[d].c  BY <2>1 DEF Types
  <2>3. Listed' = Listed \cup {id} /\ id \notin Listed
    BY <1>6, WelcomeLists DEF Listed, Welcome
  <2>4. CASE frame[d].c = c
    <3>1. OfClass(c)' = OfClass(c) \cup {id} /\ id \notin OfClass(c)
      BY <1>2, <2>2, <2>3, <2>4 DEF OfClass
    <3>2. Cardinality(OfClass(c) \cup {id}) = Cardinality(OfClass(c)) + 1
      BY <1>1, <3>1, FS_AddElement
    <3>3. counts'[c] = counts[c] + 1  BY <2>1, <2>4 DEF Types
    <3>. QED BY <1>1, <3>1, <3>2, <3>3
  <2>5. CASE frame[d].c # c
    <3>1. OfClass(c)' = OfClass(c)  BY <1>2, <2>2, <2>3, <2>5 DEF OfClass
    <3>2. counts'[c] = counts[c]  BY <2>1, <2>5 DEF Types
    <3>. QED BY <1>1, <3>1, <3>2
  <2>. QED BY <2>4, <2>5
<1>. QED BY <1>3, <1>4, <1>5, <1>6, NextCases

-----------------------------------------------------------------------------
(* The matching                                                            *)

\* Item n of the result is what detection d has become.
Shows(n, d) == items[result[n]] = [c |-> frame[d].c, pos |-> frame[d].pos, seen_last |-> now]

Matching ==
  /\ Distinct(result) /\ Nodes(result) \subseteq Nodes(current_items)
  /\ Len(result) + Cardinality(pending) = Len(frame)
  /\ \A d \in DOMAIN frame \ pending : \E n \in 1 .. Len(result) : Shows(n, d)
  /\ pc = "scan" => result = <<>> /\ pending = DOMAIN frame
  /\ pc \in {"new", "idle"} => permutation = {}
  /\ pc = "idle" => pending = {} /\ last_tracked_detection = result

\* The records that are left pair a detection with an item that both have no
\* match; while they are collected their items are those already considered.
Candidates ==
  /\ \A r \in permutation :
       /\ r.t \in Nodes(current_items) /\ r.t \notin Nodes(result)
       /\ r.det \in pending
       /\ items[r.t].c = frame[r.det].c
  /\ pc = "scan" => \A r \in permutation : r.t \in {current_items[m] : m \in 1 .. at - 1}

LEMMA PendingFinite == ASSUME Types PROVE IsFiniteSet(pending) /\ Cardinality(pending) \in Nat
<1>1. IsFiniteSet(DOMAIN frame)
  <2>1. DOMAIN frame = 1 .. Len(frame) /\ Len(frame) \in Nat  BY FrameTyped
  <2>2. IsFiniteSet(1 .. Len(frame))  BY <2>1, FS_Interval
  <2>. QED BY <2>1, <2>2
<1>. QED BY <1>1, FS_Subset, FS_CardinalityType DEF Types

LEMMA MatchingInit == Init => Matching /\ Candidates
<1> SUFFICES ASSUME Init PROVE Matching /\ Candidates
  OBVIOUS
<1>1. Nodes(result) = {} /\ Len(result) = 0 /\ Len(frame) = 0 /\ DOMAIN frame = {}  BY DEF Init, Nodes
<1>2. Cardinality(pending) = 0  BY FS_EmptySet DEF Init
<1>. QED BY <1>1, <1>2 DEF Init, Matching, Candidates, Distinct

LEMMA CandidatesConsider ==
  ASSUME Types, Lists, Matching, Candidates, Consider
  PROVE  Candidates'
<1> DEFINE t == current_items[at]
<1>1. at \in 1 .. Len(current_items) /\ t \in Nodes(current_items) /\ t \in IDs
  BY DEF Types, Consider, Nodes
<1>2. pc = "scan" /\ Nodes(result) = {} /\ pending = DOMAIN frame  BY DEF Consider, Matching, Nodes
<1>3. ASSUME NEW r \in Pairs(t)
      PROVE  r.t = t /\ r.det \in DOMAIN frame /\ items[r.t].c = frame[r.det].c
  BY DEF Pairs, Near
<1>4. /\ permutation' = permutation \cup Pairs(t) /\ at' = at + 1
      /\ UNCHANGED <<pc, frame, pending, items, current_items, result>>
  BY DEF Consider, lists
<1>5. t \in {current_items[m] : m \in 1 .. at' - 1}  BY <1>1, <1>4
<1>6. \A r \in permutation : r.t \in {current_items[m] : m \in 1 .. at' - 1}
  BY <1>1, <1>2, <1>4 DEF Candidates
<1>. QED BY <1>1, <1>2, <1>3, <1>4, <1>5, <1>6 DEF Candidates

LEMMA CandidatesRetire ==
  ASSUME Types, Lists, Matching, Candidates, Retire
  PROVE  Matching' /\ Candidates'
<1> DEFINE t == current_items[at]
<1>1. /\ Nodes(current_items') = Nodes(current_items) \ {t}
      /\ \A n \in 1 .. at - 1 : current_items'[n] = current_items[n]
  BY RetireLists
<1>2. /\ pc = "scan" /\ Nodes(result) = {}
      /\ UNCHANGED <<pc, now, frame, pending, permutation, at, items, result, last_tracked_detection>>
  BY DEF Retire, Matching, Nodes
<1>3. at \in 1 .. Len(current_items)  BY DEF Types, Retire
<1>4. \A m \in 1 .. at - 1 : current_items[m] # t  BY <1>3 DEF Lists, Distinct
<1>5. Matching'  BY <1>2 DEF Matching, Shows, Nodes
<1>6. \A r \in permutation : r.t # t /\ r.t \in {current_items'[m] : m \in 1 .. at - 1}
  BY <1>1, <1>2, <1>4 DEF Candidates
<1>7. Candidates'  BY <1>1, <1>2, <1>6 DEF Candidates
<1>. QED BY <1>5, <1>7

LEMMA MatchingTake ==
  ASSUME Types, Matching, Candidates, pc = "match", NEW r \in permutation,
         Take(r, {q \in permutation : q.t # r.t /\ q.det # r.det})
  PROVE  /\ Matching' /\ Candidates'
         /\ Nodes(result') = Nodes(result) \cup {r.t}
         /\ r.t \in Nodes(current_items) /\ r.t \notin Nodes(result) /\ r.t \in IDs
         /\ r.det \in DOMAIN frame
         /\ items'[r.t] = [c |-> frame[r.det].c, pos |-> frame[r.det].pos, seen_last |-> now]
         /\ \A t \in IDs : t # r.t => items'[t] = items[t]
<1>1. /\ r.t \in Nodes(current_items) /\ r.t \notin Nodes(result) /\ r.det \in pending
      /\ items[r.t].c = frame[r.det].c
  BY DEF Candidates
<1>2. r.t \in IDs /\ r.det \in DOMAIN frame  BY DEF Types, Records
<1>3. /\ items' = [items EXCEPT ![r.t] = [items[r.t] EXCEPT !.pos = frame[r.det].pos, !.seen_last = now]]
      /\ result' = Append(result, r.t)
      /\ permutation' = {q \in permutation : q.t # r.t /\ q.det # r.det}
      /\ pending' = pending \ {r.det}
      /\ UNCHANGED <<pc, now, frame, at, current_items, last_tracked_detection>>
  BY DEF Take, lists
<1>4. items[r.t] \in Item /\ r.t \in DOMAIN items  BY <1>2, FrameTyped
<1>5. items'[r.t] = [c |-> frame[r.det].c, pos |-> frame[r.det].pos, seen_last |-> now]
  BY <1>1, <1>3, <1>4 DEF Item
<1>6. \A t \in IDs : t # r.t => items'[t] = items[t]  BY <1>3, FrameTyped
<1>7. /\ Len(result') = Len(result) + 1 /\ result'[Len(result) + 1] = r.t
      /\ \A n \in 1 .. Len(result) : result'[n] = result[n]
      /\ Nodes(result') = Nodes(result) \cup {r.t} /\ Distinct(result')
  BY <1>1, <1>2, <1>3, Appended DEF Types, Matching
<1>8. Len(result) \in Nat  BY DEF Types
<1>9. Len(result') + Cardinality(pending') = Len(frame')
  <2>1. Cardinality(pending') = Cardinality(pending) - 1
    BY <1>1, <1>3, PendingFinite, FS_RemoveElement
  <2>. QED BY <1>3, <1>7, <1>8, <2>1, PendingFinite DEF Matching
<1>10. ASSUME NEW d \in DOMAIN frame \ pending' PROVE \E n \in 1 .. Len(result') : Shows(n, d)'
  <2>1. CASE d = r.det
    <3>1. Len(result) + 1 \in 1 .. Len(result')  BY <1>7, <1>8
    <3>2. items'[result'[Len(result) + 1]] = [c |-> frame[d].c, pos |-> frame[d].pos, seen_last |-> now]
      BY <1>5, <1>7, <2>1
    <3>. QED BY <1>3, <3>1, <3>2 DEF Shows
  <2>2. CASE d # r.det
    <3>1. PICK n \in 1 .. Len(result) : Shows(n, d)  BY <1>3, <2>2 DEF Matching
    <3>2. result[n] \in IDs /\ result[n] # r.t  BY <1>1, FrameTyped DEF Nodes
    <3>3. items'[result'[n]] = items[result[n]]  BY <1>6, <1>7, <3>2
    <3>4. Shows(n, d)' /\ n \in 1 .. Len(result')  BY <1>3, <1>7, <1>8, <3>1, <3>3 DEF Shows
    <3>. QED BY <3>4
  <2>. QED BY <2>1, <2>2
<1>11. Matching'
  BY <1>1, <1>3, <1>7, <1>9, <1>10 DEF Matching
<1>12. Candidates'
  <2> SUFFICES ASSUME NEW q \in permutation'
               PROVE  /\ q.t \in Nodes(current_items) /\ q.t \notin Nodes(result')
                      /\ q.det \in pending' /\ items'[q.t].c = frame[q.det].c
    BY <1>3 DEF Candidates
  <2>1. q \in permutation /\ q.t # r.t /\ q.det # r.det  BY <1>3
  <2>2. q.t \in IDs  BY <2>1 DEF Types, Records
  <2>. QED BY <1>3, <1>6, <1>7, <2>1, <2>2 DEF Candidates
<1>. QED BY <1>1, <1>2, <1>5, <1>6, <1>7, <1>11, <1>12

LEMMA MatchingWelcome ==
  ASSUME Types, Lists, Matching, Candidates, Welcome
  PROVE  Matching' /\ Candidates'
<1> DEFINE id == last_used_ID + 1
<1>1. PICK d \in pending :
        /\ items' = Append(items, [c |-> frame[d].c, pos |-> frame[d].pos, seen_last |-> now])
        /\ pending' = pending \ {d}
  BY DEF Welcome
<1>2. /\ pc = "new" /\ permutation = {} /\ result' = Append(result, id)
      /\ UNCHANGED <<pc, now, frame, permutation, at, last_tracked_detection>>
  BY DEF Welcome, Matching
<1>3. Nodes(current_items') = Nodes(current_items) \cup {id} /\ id \notin Nodes(current_items)
  BY WelcomeLists DEF Listed
<1>4. id \notin Nodes(result)  BY <1>3 DEF Matching
<1>5. result \in Seq(Nat) /\ id \in Nat /\ Len(result) \in Nat
  <2>1. IDs \subseteq Nat /\ id \in Nat  BY DEF IDs, Types
  <2>2. result \in Seq(IDs)  BY DEF Types
  <2>3. result \in Seq(Nat)  BY <2>1, <2>2, Wider
  <2>. QED BY <2>1, <2>3
<1>6. /\ Len(result') = Len(result) + 1 /\ result'[Len(result) + 1] = id
      /\ \A n \in 1 .. Len(result) : result'[n] = result[n]
      /\ Nodes(result') = Nodes(result) \cup {id} /\ Distinct(result')
  BY <1>2, <1>4, <1>5, Appended DEF Matching
<1>7. /\ items'[id] = [c |-> frame[d].c, pos |-> frame[d].pos, seen_last |-> now]
      /\ \A t \in IDs : items'[t] = items[t]
  <2>1. Len(items) = last_used_ID /\ items \in Seq(Item)  BY DEF Types
  <2>. QED BY <1>1, <2>1 DEF IDs
<1>8. Len(result') + Cardinality(pending') = Len(frame')
  <2>1. Cardinality(pending') = Cardinality(pending) - 1
    BY <1>1, PendingFinite, FS_RemoveElement
  <2>. QED BY <1>2, <1>5, <1>6, <2>1, PendingFinite DEF Matching
<1>9. ASSUME NEW e \in DOMAIN frame \ pending' PROVE \E n \in 1 .. Len(result') : Shows(n, e)'
  <2>1. CASE e = d
    <3>1. Len(result) + 1 \in 1 .. Len(result')  BY <1>5, <1>6
    <3>2. items'[result'[Len(result) + 1]] = [c |-> frame[e].c, pos |-> frame[e].pos, seen_last |-> now]
      BY <1>6, <1>7, <2>1
    <3>. QED BY <1>2, <3>1, <3>2 DEF Shows
  <2>2. CASE e # d
    <3>1. PICK n \in 1 .. Len(result) : Shows(n, e)  BY <1>1, <2>2 DEF Matching
    <3>2. result[n] \in IDs  BY FrameTyped
    <3>3. items'[result'[n]] = items[result[n]]  BY <1>6, <1>7, <3>2
    <3>4. Shows(n, e)' /\ n \in 1 .. Len(result')  BY <1>2, <1>5, <1>6, <3>1, <3>3 DEF Shows
    <3>. QED BY <3>4
  <2>. QED BY <2>1, <2>2
<1>10. Matching'  BY <1>2, <1>3, <1>6, <1>8, <1>9 DEF Matching
<1>11. Candidates'  BY <1>2 DEF Candidates
<1>. QED BY <1>10, <1>11

LEMMA MatchingStep ==
  Types /\ Lists /\ Matching /\ Candidates /\ [Next]_vars => Matching' /\ Candidates'
<1> SUFFICES ASSUME Types, Lists, Matching, Candidates, [Next]_vars PROVE Matching' /\ Candidates'
  OBVIOUS
<1>1. CASE Track
  <2>1. PICK f \in Frames : frame' = f /\ pending' = DOMAIN f  BY <1>1 DEF Track
  <2>2. f \in Seq(Detections)  BY <2>1, FrameOK
  <2>3. DOMAIN f = 1 .. Len(f) /\ Len(f) \in Nat  BY <2>2
  <2>4. Cardinality(pending') = Len(frame')
    <3> DEFINE n == Len(f)
    <3>1. n \in Nat  BY <2>3
    <3> HIDE DEF n
    <3>2. Cardinality(1 .. n) = n  BY <3>1, FS_Interval
    <3>. QED BY <2>1, <2>3, <3>2 DEF n
  <2>5. /\ pc' = "scan" /\ permutation' = {} /\ result' = <<>>
    BY <1>1 DEF Track
  <2>6. Nodes(result') = {} /\ Distinct(result') /\ Len(result') = 0  BY <2>5 DEF Nodes, Distinct
  <2>7. Len(result') + Cardinality(pending') = Len(frame')  BY <2>1, <2>3, <2>4, <2>6
  <2>8. Matching'  BY <2>1, <2>5, <2>6, <2>7 DEF Matching
  <2>9. Candidates'  BY <2>5 DEF Candidates
  <2>. QED BY <2>8, <2>9
<1>2. CASE Consider
  <2>1. Matching'
    <3>1. UNCHANGED <<pc, now, frame, pending, items, current_items, result, last_tracked_detection>>
          /\ pc = "scan"
      BY <1>2 DEF Consider, lists
    <3>. QED BY <3>1 DEF Matching, Shows, Nodes, Distinct
  <2>. QED BY <1>2, <2>1, CandidatesConsider
<1>3. CASE Retire  BY <1>3, CandidatesRetire
<1>4. CASE Match
  <2>1. PICK r \in permutation : Take(r, {q \in permutation : q.t # r.t /\ q.det # r.det})
    BY <1>4 DEF Match
  <2>. QED BY <1>4, <2>1, MatchingTake DEF Match
<1>5. CASE Welcome  BY <1>5, MatchingWelcome
<1>6. CASE EndScan \/ EraseOutdatedHistory \/ Return \/ Tick \/ UNCHANGED vars
  <2>1. UNCHANGED <<now, frame, pending, permutation, items, current_items, result>>
    BY <1>6, Zenon DEF EndScan, EraseOutdatedHistory, Return, Tick, vars, lists
  <2>2. /\ pc' = "scan" => pc = "scan" /\ at' = at
        /\ pc' \in {"new", "idle"} => permutation = {}
        /\ pc' = "idle" => pending = {} /\ last_tracked_detection' = result
    BY <1>6 DEF EndScan, EraseOutdatedHistory, Return, Tick, vars, Matching
  <2>3. Matching'  BY <2>1, <2>2 DEF Matching, Shows, Nodes, Distinct
  <2>4. Candidates'  BY <2>1, <2>2 DEF Candidates, Nodes
  <2>. QED BY <2>3, <2>4
<1>. QED BY <1>1, <1>2, <1>3, <1>4, <1>5, <1>6 DEF Next, TrackStep

-----------------------------------------------------------------------------
(* The matching is stable                                                  *)

HasRecord(d, t) == \E r \in permutation : r.det = d /\ r.t = t

Claimed(d, t) ==
  \/ \E u \in DOMAIN before :
       MatchedWith(d, u) /\ Distance(before[u], frame[d]) <= Distance(before[t], frame[d])
  \/ \E e \in DOMAIN frame :
       MatchedWith(e, t) /\ Distance(before[t], frame[e]) <= Distance(before[t], frame[d])

\* What the items were before the call.
Before ==
  /\ DOMAIN before \subseteq IDs
  /\ pc \in {"scan", "match"} =>
       DOMAIN before = IDs /\ \A t \in IDs : t \notin Nodes(result) => items[t] = before[t]
  /\ \A r \in permutation : r.distance = Distance(before[r.t], frame[r.det])

\* Each near pair has a record, once its item is considered, until one of the
\* two is matched with something at least as near.
Covered ==
  /\ pc = "scan" =>
       \A m \in 1 .. at - 1, d \in DOMAIN frame :
         Near(before[current_items[m]], frame[d]) => HasRecord(d, current_items[m])
  /\ pc \in {"match", "new"} =>
       \A d \in DOMAIN frame, t \in Nodes(current_items) \cap DOMAIN before :
         Near(before[t], frame[d]) => HasRecord(d, t) \/ Claimed(d, t)

Stable == Before /\ Covered

LEMMA ClaimsStay ==
  ASSUME UNCHANGED <<frame, before>>, Nodes(result) \subseteq Nodes(result'),
         \A u \in Nodes(result) : items'[u] = items[u],
         NEW d, NEW t, Claimed(d, t)
  PROVE  Claimed(d, t)'
<1>1. \A e, u : MatchedWith(e, u) => MatchedWith(e, u)'  BY DEF MatchedWith
<1>2. \A a, b : Distance(a, b)' = Distance(a, b)  BY DEF Distance
<1>. QED BY <1>1, <1>2 DEF Claimed

LEMMA StableInit == Init => Stable
<1> SUFFICES ASSUME Init PROVE Stable
  OBVIOUS
<1>1. DOMAIN before = {}  BY DEF Init
<1>. QED BY <1>1 DEF Init, Stable, Before, Covered

LEMMA StableConsider ==
  ASSUME Types, Lists, Matching, Stable, Consider
  PROVE  Stable'
<1> DEFINE t == current_items[at]
<1>1. at \in 1 .. Len(current_items) /\ t \in IDs /\ at \in Nat  BY DEF Types, Consider
<1>2. pc = "scan" /\ Nodes(result) = {}  BY DEF Consider, Matching, Nodes
<1>3. items[t] = before[t]  BY <1>1, <1>2 DEF Stable, Before
<1>4. /\ permutation' = permutation \cup Pairs(t) /\ at' = at + 1
      /\ UNCHANGED <<pc, frame, items, current_items, result, before, last_used_ID>>
  BY DEF Consider, lists
<1>5. \A r \in Pairs(t) : r.distance = Distance(before[r.t], frame[r.det])
  BY <1>3 DEF Pairs
<1>6. ASSUME NEW d \in DOMAIN frame, Near(before[t], frame[d])
      PROVE  \E r \in Pairs(t) : r.det = d /\ r.t = t
  <2> DEFINE q == [det |-> d, t |-> t, distance |-> Distance(items[t], frame[d])]
  <2>1. q \in Pairs(t)  BY <1>3, <1>6 DEF Pairs
  <2>2. q.det = d /\ q.t = t  OBVIOUS
  <2>. QED BY <2>1, <2>2
<1>7. Before'  BY <1>4, <1>5 DEF Stable, Before, Distance, IDs, Nodes
<1>8. ASSUME NEW m \in 1 .. at' - 1, NEW d \in DOMAIN frame, Near(before[current_items[m]], frame[d])
      PROVE  HasRecord(d, current_items[m])'
  <2>1. CASE m = at  BY <1>4, <1>6, <1>8, <2>1 DEF HasRecord
  <2>2. CASE m # at
    <3>1. m \in 1 .. at - 1  BY <1>1, <1>4, <2>2
    <3>. QED BY <1>2, <1>4, <1>8, <3>1 DEF Stable, Covered, HasRecord
  <2>. QED BY <2>1, <2>2
<1>9. Covered'  BY <1>2, <1>4, <1>8 DEF Covered, Near, Distance
<1>. QED BY <1>7, <1>9 DEF Stable

LEMMA StableTake ==
  ASSUME Types, Matching, Candidates, Stable, pc = "match", NEW r \in permutation,
         \A q \in permutation : r.distance <= q.distance,
         Take(r, {q \in permutation : q.t # r.t /\ q.det # r.det})
  PROVE  Stable'
<1>1. /\ Nodes(result') = Nodes(result) \cup {r.t}
      /\ r.t \notin Nodes(result) /\ r.t \in IDs /\ r.det \in DOMAIN frame
      /\ items'[r.t] = [c |-> frame[r.det].c, pos |-> frame[r.det].pos, seen_last |-> now]
      /\ \A t \in IDs : t # r.t => items'[t] = items[t]
  BY MatchingTake
<1>2. /\ permutation' = {q \in permutation : q.t # r.t /\ q.det # r.det}
      /\ UNCHANGED <<pc, frame, current_items, before, last_used_ID>>
  BY DEF Take, lists
<1>3. Before'  BY <1>1, <1>2 DEF Stable, Before, Distance, IDs
<1>4. MatchedWith(r.det, r.t)'  BY <1>1, <1>2 DEF MatchedWith
<1>5. DOMAIN before = IDs  BY DEF Stable, Before
<1>6. \A u \in Nodes(result) : items'[u] = items[u]  BY <1>1, FrameTyped DEF Nodes
<1>7. ASSUME NEW d \in DOMAIN frame, NEW t \in Nodes(current_items) \cap DOMAIN before,
             Near(before[t], frame[d])
      PROVE  HasRecord(d, t)' \/ Claimed(d, t)'
  <2>1. CASE Claimed(d, t)  BY <1>1, <1>2, <1>6, <2>1, ClaimsStay
  <2>2. CASE HasRecord(d, t)
    <3>1. PICK q \in permutation : q.det = d /\ q.t = t  BY <2>2 DEF HasRecord
    <3>2. Distance(before[r.t], frame[r.det]) <= Distance(before[t], frame[d])
      <4>1. r.distance <= q.distance  OBVIOUS
      <4>. QED BY <3>1, <4>1 DEF Stable, Before
    <3>3. CASE q.t # r.t /\ q.det # r.det  BY <1>2, <3>1, <3>3 DEF HasRecord
    <3>4. CASE q.t = r.t
      <4>1. MatchedWith(r.det, t)' /\ Distance(before[t], frame[r.det]) <= Distance(before[t], frame[d])
        BY <1>4, <3>1, <3>2, <3>4
      <4>. QED BY <1>1, <1>2, <4>1 DEF Claimed, Distance
    <3>5. CASE q.det = r.det
      <4>1. MatchedWith(d, r.t)' /\ Distance(before[r.t], frame[d]) <= Distance(before[t], frame[d])
        BY <1>4, <3>1, <3>2, <3>5
      <4>. QED BY <1>1, <1>2, <1>5, <4>1 DEF Claimed, Distance
    <3>. QED BY <3>3, <3>4, <3>5
  <2>. QED BY <1>7, <2>1, <2>2 DEF Stable, Covered
<1>8. Covered'  BY <1>2, <1>7 DEF Covered, Near, Distance
<1>. QED BY <1>3, <1>8 DEF Stable

LEMMA StableWelcome ==
  ASSUME Types, Lists, Matching, Stable, Welcome
  PROVE  Stable'
<1> DEFINE id == last_used_ID + 1
<1>1. /\ pc = "new" /\ permutation = {} /\ result' = Append(result, id) /\ last_used_ID' = id
      /\ UNCHANGED <<pc, frame, permutation, before>>
  BY DEF Welcome, Matching
<1>2. \A t \in IDs : items'[t] = items[t]
  <2>1. ~Match  BY <1>1 DEF Match
  <2>2. Next  BY DEF Next, TrackStep
  <2>. QED BY <2>1, <2>2, ClassesKept
<1>3. Nodes(current_items') = Nodes(current_items) \cup {id} /\ id \notin IDs /\ IDs \subseteq IDs'
  BY <1>1, WelcomeLists DEF IDs, Types
<1>4. Nodes(result) \subseteq Nodes(result')
  <2>1. IDs \subseteq Nat /\ id \in Nat  BY DEF IDs, Types
  <2>2. result \in Seq(IDs)  BY DEF Types
  <2>3. result \in Seq(Nat)  BY <2>1, <2>2, Wider
  <2>4. Nodes(result') = Nodes(result) \cup {id}  BY <1>1, <2>1, <2>3, Appended
  <2>. QED BY <2>4
<1>5. \A u \in Nodes(result) : items'[u] = items[u]  BY <1>2, FrameTyped DEF Nodes
<1>6. Before'  BY <1>1, <1>3 DEF Stable, Before
<1>7. ASSUME NEW d \in DOMAIN frame, NEW t \in Nodes(current_items') \cap DOMAIN before,
             Near(before[t], frame[d])
      PROVE  Claimed(d, t)'
  <2>1. t \in Nodes(current_items)  BY <1>3 DEF Stable, Before
  <2>2. Claimed(d, t)  BY <1>1, <1>7, <2>1 DEF Stable, Covered, HasRecord
  <2>. QED BY <1>1, <1>4, <1>5, <2>2, ClaimsStay
<1>8. Covered'  BY <1>1, <1>7 DEF Covered, Near, Distance
<1>. QED BY <1>6, <1>8 DEF Stable

LEMMA StableStep ==
  Types /\ Lists /\ Matching /\ Candidates /\ Stable /\ [Next]_vars => Stable'
<1> SUFFICES ASSUME Types, Lists, Matching, Candidates, Stable, [Next]_vars PROVE Stable'
  OBVIOUS
<1>1. CASE Track
  <2>1. /\ pc' = "scan" /\ permutation' = {} /\ before' = items /\ at' = 1
        /\ UNCHANGED <<items, last_used_ID>>
    BY <1>1 DEF Track
  <2>2. DOMAIN before' = IDs'  BY <2>1, FrameTyped DEF IDs
  <2>. QED BY <2>1, <2>2 DEF Stable, Before, Covered
<1>2. CASE Consider  BY <1>2, StableConsider
<1>3. CASE Retire
  <2>1. /\ pc = "scan"
        /\ UNCHANGED <<pc, frame, permutation, at, items, result, before, last_used_ID>>
    BY <1>3 DEF Retire
  <2>2. \A n \in 1 .. at - 1 : current_items'[n] = current_items[n]  BY <1>3, RetireLists
  <2>3. Before'  BY <2>1 DEF Stable, Before, Distance, Nodes, IDs
  <2>4. Covered'  BY <2>1, <2>2 DEF Stable, Covered, HasRecord, Near, Distance
  <2>. QED BY <2>3, <2>4 DEF Stable
<1>4. CASE EndScan
  <2>1. /\ pc = "scan" /\ pc' = "match" /\ at > Len(current_items)
        /\ UNCHANGED <<frame, permutation, at, items, current_items, result, before, last_used_ID>>
    BY <1>4 DEF EndScan, lists
  <2>2. ASSUME NEW d \in DOMAIN frame, NEW t \in Nodes(current_items), Near(before[t], frame[d])
        PROVE  HasRecord(d, t)
    <3>1. PICK m \in 1 .. Len(current_items) : t = current_items[m]  BY DEF Nodes
    <3>2. m \in 1 .. at - 1  BY <2>1 DEF Types
    <3>. QED BY <2>1, <2>2, <3>1, <3>2 DEF Stable, Covered
  <2>3. Before'  BY <2>1 DEF Stable, Before, Distance, Nodes, IDs
  <2>4. Covered'  BY <2>1, <2>2 DEF Covered, HasRecord, Near, Distance, Nodes
  <2>. QED BY <2>3, <2>4 DEF Stable
<1>5. CASE Match
  <2>1. PICK r \in permutation :
          /\ \A q \in permutation : r.distance <= q.distance
          /\ Take(r, {q \in permutation : q.t # r.t /\ q.det # r.det})
    BY <1>5 DEF Match
  <2>. QED BY <1>5, <2>1, StableTake DEF Match
<1>6. CASE EraseOutdatedHistory
  <2>1. /\ pc = "match" /\ pc' = "new"
        /\ UNCHANGED <<frame, permutation, items, current_items, result, before, last_used_ID>>
    BY <1>6 DEF EraseOutdatedHistory
  <2>2. Before'  BY <2>1 DEF Stable, Before, Distance, IDs
  <2>3. Covered'  BY <2>1 DEF Stable, Covered, HasRecord, Claimed, MatchedWith, Near, Distance, Nodes
  <2>. QED BY <2>2, <2>3 DEF Stable
<1>7. CASE Welcome  BY <1>7, StableWelcome
<1>8. CASE Return
  <2>1. /\ pc' = "idle" /\ before' = <<>> /\ UNCHANGED permutation /\ permutation = {}
    BY <1>8 DEF Return, Matching
  <2>2. DOMAIN before' = {}  BY <2>1
  <2>. QED BY <2>1, <2>2 DEF Stable, Before, Covered
<1>9. CASE Tick \/ UNCHANGED vars
  <2>1. UNCHANGED <<pc, frame, permutation, at, items, current_items, result, before, last_used_ID>>
    BY <1>9, Zenon DEF Tick, vars, lists
  <2>2. Before'  BY <2>1 DEF Stable, Before, Distance, IDs, Nodes
  <2>3. Covered'  BY <2>1 DEF Stable, Covered, HasRecord, Claimed, MatchedWith, Near, Distance, Nodes
  <2>. QED BY <2>2, <2>3 DEF Stable
<1>. QED BY <1>1, <1>2, <1>3, <1>4, <1>5, <1>6, <1>7, <1>8, <1>9 DEF Next, TrackStep

-----------------------------------------------------------------------------
(* The theorems                                                            *)

Inv == Types /\ Lists /\ Counts /\ Matching /\ Candidates /\ Stable

LEMMA Invariant == Spec => []Inv
<1>1. Init => Inv  BY TypesInit, ListsInit, MatchingInit, StableInit DEF Inv
<1>2. Inv /\ [Next]_vars => Inv'
  BY TypesStep, ListsStep, CountsStep, MatchingStep, StableStep DEF Inv
<1>. QED BY <1>1, <1>2, PTL DEF Spec

\* Every variable of the tracker keeps its type: no iterator leaves its list
\* and no count gets below zero (tracker.cpp:55-126).
THEOREM TypeCorrect == Spec => []TypeOK
<1>1. ASSUME Inv PROVE TypeOK
  <2>1. \A c \in Classes : counts[c] \in Nat
    <3> TAKE c \in Classes
    <3>1. IsFiniteSet(Listed)  BY <1>1, ListedFinite DEF Inv
    <3>2. IsFiniteSet(OfClass(c))  BY <3>1, FS_Subset DEF OfClass
    <3>. QED BY <1>1, <3>2, FS_CardinalityType DEF Inv, Counts
  <2>2. counts \in [Classes -> Nat]  BY <1>1, <2>1 DEF Inv, Types
  <2>. QED BY <1>1, <2>2 DEF Inv, Types, TypeOK, Records, Item
<1>. QED BY <1>1, Invariant, PTL

\* After track every detection has one item of its own, as it is now
\* (tracker.cpp:86-120).
THEOREM OneItem == Spec => []OneItemForEachDetection
<1>1. ASSUME Inv, pc = "idle"
      PROVE  OneItemForEachDetection
  <2>1. pending = {} /\ last_tracked_detection = result  BY <1>1 DEF Inv, Matching
  <2>2. Len(result) = Len(frame)
    <3>1. Cardinality(pending) = 0  BY <2>1, FS_EmptySet
    <3>. QED BY <1>1, <3>1 DEF Inv, Types, Matching
  <2>3. DOMAIN result = 1 .. Len(result)  BY <1>1 DEF Inv, Types
  <2>. QED BY <1>1, <2>1, <2>2, <2>3 DEF Inv, Matching, Shows, Distinct, OneItemForEachDetection
<1>2. Inv => OneItemForEachDetection  BY <1>1 DEF OneItemForEachDetection
<1>. QED BY <1>2, Invariant, PTL

\* However the items move, no ID is listed twice and counts counts the lists
\* (tracker.cpp:41-53, 66, 110).
THEOREM CountsRight == Spec => []CountsMatchLists
<1>1. Inv => CountsMatchLists
  BY BothCounted DEF Inv, Types, Lists, Counts, OfClass, Listed, CountsMatchLists
<1>. QED BY <1>1, Invariant, PTL

\* An item and a detection near it only miss each other for a match at least
\* as near (tracker.cpp:80-105).
THEOREM MatchingStable == Spec => []MatchingIsStable
<1>1. ASSUME Inv, pc = "new" PROVE MatchingIsStable
  BY <1>1 DEF Inv, Matching, Stable, Covered, HasRecord, Claimed, MatchingIsStable
<1>2. Inv => MatchingIsStable  BY <1>1 DEF MatchingIsStable
<1>. QED BY <1>2, Invariant, PTL

\* What became history is never matched or shown again, whatever the clock
\* does (tracker.cpp:66).
THEOREM HistoryClosed == Spec => HistoryIsClosed
<1>1. ASSUME Inv, Inv', [Next]_vars, NEW t \in Nodes(historical_items)
      PROVE  t \notin Nodes(current_items') \cup Nodes(result') /\ items'[t] = items[t]
  <2>1. t \in IDs /\ t \notin Nodes(current_items)  BY <1>1, ListedTyped DEF Inv, Lists
  <2>2. Nodes(result') \subseteq Nodes(current_items')  BY <1>1 DEF Inv, Matching, Nodes
  <2>3. t \notin Nodes(current_items')
    <3>1. CASE Elsewhere  BY <2>1, <3>1, ElsewhereLists DEF lists, Nodes
    <3>2. CASE Retire  BY <1>1, <2>1, <3>2, RetireLists DEF Inv
    <3>3. CASE EraseOutdatedHistory  BY <2>1, <3>3 DEF EraseOutdatedHistory, Nodes
    <3>4. CASE Welcome  BY <1>1, <2>1, <3>4, WelcomeLists DEF Inv, Listed
    <3>. QED BY <1>1, <3>1, <3>2, <3>3, <3>4, NextCases
  <2>4. items'[t] = items[t]
    <3>1. CASE Match
      <4>1. PICK r \in permutation : Take(r, {q \in permutation : q.t # r.t /\ q.det # r.det})
        BY <3>1 DEF Match
      <4>2. t # r.t  BY <1>1, <2>1 DEF Inv, Candidates
      <4>. QED BY <1>1, <2>1, <3>1, <4>1, <4>2, MatchingTake DEF Inv, Match
    <3>2. CASE ~Match  BY <1>1, <2>1, <3>2, ClassesKept DEF Inv
    <3>. QED BY <3>1, <3>2
  <2>. QED BY <2>2, <2>3, <2>4
<1>2. Inv /\ Inv' /\ [Next]_vars =>
        [\A t \in Nodes(historical_items) :
           t \notin Nodes(current_items') \cup Nodes(result') /\ items'[t] = items[t]]_vars
  BY <1>1
<1>. QED BY <1>2, Invariant, PTL DEF Spec, HistoryIsClosed
=============================================================================
