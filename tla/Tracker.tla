------------------------------ MODULE Tracker ------------------------------
(***************************************************************************)
(* tracker::track: the detections of one frame are matched with the items  *)
(* seen before, items that were not seen for a while become history, and   *)
(* history that is too old is dropped.                                     *)
(*                                                                         *)
(* An item is its ID, and IDs are given out in order, so items is a        *)
(* sequence.  A detection is its place in the frame.  Boxes have the area  *)
(* 1 and lie on a line, and bbox_smooth_rate is 1, its default: the        *)
(* smoothed box of an item is the last box.  The clock is system_clock,    *)
(* which moves at any time, and also back.                                 *)
(***************************************************************************)
EXTENDS Integers, Sequences, FiniteSets

CONSTANTS
  Detections,      \* the detections that may occur: records of c and pos
  TimeThreshold,   \* time_threshold in seconds
  DoaThreshold,    \* doa_threshold
  HistoryMinutes,  \* the property history-length
  ClockSteps,      \* seconds the clock may move at once
  MaxFrame,        \* bound: detections in a frame
  MaxClock,        \* bound on the clock
  MaxID            \* bound on the IDs

ASSUME DetectionsAssumption == \A d \in Detections : d.pos \in Int
ASSUME TimesAssumption ==
  TimeThreshold \in Int /\ HistoryMinutes \in Nat /\ ClockSteps \subseteq Int /\ MaxClock \in Nat
ASSUME BoundsAssumption == DoaThreshold \in Int /\ MaxFrame \in Nat /\ MaxID \in Nat

VARIABLES
  clock,
  pc,             \* "idle": no call of track is going on
  now,            \* the time at the start of the call
  frame,          \* the parameter detections of the latest call
  pending,        \* detections_ptr: the detections without an item, in order
  permutation,    \* track_map records that are left
  at,             \* the iterator track_item, as a position in current_items
  items,          \* every item there ever was
  current_items, historical_items,   \* lists of IDs
  counts,
  last_used_ID,
  result,
  last_tracked_detection,
  before          \* the items at the start of the call; no part of the code

vars == <<clock, pc, now, frame, pending, permutation, at, items, current_items,
          historical_items, counts, last_used_ID, result, last_tracked_detection, before>>

lists == <<current_items, historical_items, counts>>

Classes == {d.c : d \in Detections}

\* history_length is a uint16_t.
HistoryLength == (HistoryMinutes * 60) % 2^16

\* Box::doa_with for boxes of the area 1
Distance(a, b) == (a.pos - b.pos) * (a.pos - b.pos)

Near(item, d) == item.c = d.c /\ Distance(item, d) < DoaThreshold

Nodes(s) == {s[n] : n \in 1 .. Len(s)}

\* The list without the node at position p.
Remove(s, p) == [n \in 1 .. Len(s) - 1 |-> IF n < p THEN s[n] ELSE s[n + 1]]

\* Suppression leaves no two detections of a class in one place.
Frames ==
  {f \in UNION {[1 .. n -> Detections] : n \in 0 .. MaxFrame} :
     \A m, n \in DOMAIN f : m # n => f[m] # f[n]}

Init ==
  /\ clock = 0 /\ now = 0
  /\ pc = "idle"
  /\ frame = <<>> /\ pending = {} /\ permutation = {} /\ at = 1
  /\ items = <<>> /\ before = <<>>
  /\ current_items = <<>> /\ historical_items = <<>>
  /\ counts = [c \in Classes |-> 0]
  /\ last_used_ID = 0
  /\ result = <<>> /\ last_tracked_detection = <<>>

-----------------------------------------------------------------------------
(* One call of track                                                       *)

Track ==
  /\ pc = "idle"
  /\ \E f \in Frames :
       /\ last_used_ID + Len(f) <= MaxID
       /\ frame' = f
       /\ pending' = DOMAIN f
  /\ now' = clock
  /\ pc' = "scan"
  /\ at' = 1
  /\ permutation' = {}
  /\ result' = <<>>
  /\ before' = items
  /\ UNCHANGED <<clock, items, lists, last_used_ID, last_tracked_detection>>

Expired(t) == now - items[t].seen_last >= TimeThreshold

\* The records that an item adds to the permutation.
Pairs(t) ==
  {[det |-> d, t |-> t, distance |-> Distance(items[t], frame[d])] :
     d \in {e \in DOMAIN frame : Near(items[t], frame[e])}}

Consider ==
  /\ pc = "scan" /\ at <= Len(current_items)
  /\ ~Expired(current_items[at])
  /\ permutation' = permutation \union Pairs(current_items[at])
  /\ at' = at + 1
  /\ UNCHANGED <<clock, pc, now, frame, pending, items, lists, last_used_ID, result,
                 last_tracked_detection, before>>

\* Mutants of Retire: the iterator also advances, and the item may still be
\* matched.
RetireAndAdvance ==
  /\ pc = "scan" /\ at <= Len(current_items)
  /\ Expired(current_items[at])
  /\ historical_items' = <<current_items[at]>> \o historical_items
  /\ current_items' = Remove(current_items, at)
  /\ at' = at + 1
  /\ UNCHANGED <<clock, pc, now, frame, pending, permutation, items, counts, last_used_ID,
                 result, last_tracked_detection, before>>

RetireAndConsider ==
  /\ pc = "scan" /\ at <= Len(current_items)
  /\ Expired(current_items[at])
  /\ permutation' = permutation \union Pairs(current_items[at])
  /\ historical_items' = <<current_items[at]>> \o historical_items
  /\ current_items' = Remove(current_items, at)
  /\ UNCHANGED <<clock, pc, now, frame, pending, at, items, counts, last_used_ID, result,
                 last_tracked_detection, before>>

\* historical_items.splice(begin, current_items, track_item++)
Retire ==
  /\ pc = "scan" /\ at <= Len(current_items)
  /\ Expired(current_items[at])
  /\ historical_items' = <<current_items[at]>> \o historical_items
  /\ current_items' = Remove(current_items, at)
  /\ UNCHANGED <<clock, pc, now, frame, pending, permutation, at, items, counts,
                 last_used_ID, result, last_tracked_detection, before>>

EndScan ==
  /\ pc = "scan" /\ at > Len(current_items)
  /\ pc' = "match"
  /\ UNCHANGED <<clock, now, frame, pending, permutation, at, items, lists, last_used_ID,
                 result, last_tracked_detection, before>>

\* The item of a record takes the box of its detection, and the record
\* leaves a permutation without the records of either.
Take(r, left) ==
  /\ items' = [items EXCEPT ![r.t] = [@ EXCEPT !.pos = frame[r.det].pos, !.seen_last = now]]
  /\ result' = Append(result, r.t)
  /\ permutation' = left
  /\ pending' = pending \ {r.det}
  /\ UNCHANGED <<clock, pc, now, frame, at, lists, last_used_ID, last_tracked_detection, before>>

\* Mutants of Match: the permutation is not sorted, and a detection stays in
\* the records of other items.
MatchUnsorted ==
  /\ pc = "match"
  /\ \E r \in permutation : Take(r, {q \in permutation : q.t # r.t /\ q.det # r.det})

MatchDetectionAgain ==
  /\ pc = "match"
  /\ \E r \in permutation :
       /\ \A q \in permutation : r.distance <= q.distance
       /\ Take(r, {q \in permutation : q.t # r.t})

\* The permutation is sorted by distance; std::sort leaves open the order of
\* equal distances.
Match ==
  /\ pc = "match"
  /\ \E r \in permutation :
       /\ \A q \in permutation : r.distance <= q.distance
       /\ Take(r, {q \in permutation : q.t # r.t /\ q.det # r.det})

Outdated(t) == clock - items[t].seen_last > HistoryLength

\* Mutant of EraseOutdatedHistory: one item is counted off for the tail.
EraseAndCountOne ==
  /\ pc = "match" /\ permutation = {}
  /\ \E n \in 1 .. Len(historical_items) + 1 :
       /\ \A m \in 1 .. n - 1 : ~Outdated(historical_items[m])
       /\ n <= Len(historical_items) => Outdated(historical_items[n])
       /\ historical_items' = SubSeq(historical_items, 1, n - 1)
       /\ counts' = [c \in Classes |->
            IF n <= Len(historical_items) /\ items[historical_items[n]].c = c
              THEN counts[c] - 1 ELSE counts[c]]
  /\ pc' = "new"
  /\ UNCHANGED <<clock, now, frame, pending, permutation, at, items, current_items,
                 last_used_ID, result, last_tracked_detection, before>>

\* From the first outdated item on, the rest of the list goes.  The clock is
\* read again.
EraseOutdatedHistory ==
  /\ pc = "match" /\ permutation = {}
  /\ \E n \in 1 .. Len(historical_items) + 1 :
       /\ \A m \in 1 .. n - 1 : ~Outdated(historical_items[m])
       /\ n <= Len(historical_items) => Outdated(historical_items[n])
       /\ historical_items' = SubSeq(historical_items, 1, n - 1)
       /\ counts' = [c \in Classes |->
            counts[c] - Cardinality({m \in n .. Len(historical_items) :
                                       items[historical_items[m]].c = c})]
  /\ pc' = "new"
  /\ UNCHANGED <<clock, now, frame, pending, permutation, at, items, current_items,
                 last_used_ID, result, last_tracked_detection, before>>

\* A detection that found no item becomes one.
Welcome ==
  /\ pc = "new"
  /\ \E d \in pending :
       /\ \A e \in pending : d <= e
       /\ last_used_ID' = last_used_ID + 1
       /\ items' = Append(items, [c |-> frame[d].c, pos |-> frame[d].pos, seen_last |-> now])
       /\ counts' = [counts EXCEPT ![frame[d].c] = @ + 1]
       /\ pending' = pending \ {d}
  /\ current_items' = <<last_used_ID'>> \o current_items
  /\ result' = Append(result, last_used_ID')
  /\ UNCHANGED <<clock, pc, now, frame, permutation, at, historical_items,
                 last_tracked_detection, before>>

Return ==
  /\ pc = "new" /\ pending = {}
  /\ pc' = "idle"
  /\ last_tracked_detection' = result
  /\ before' = <<>>
  /\ UNCHANGED <<clock, now, frame, pending, permutation, at, items, lists, last_used_ID, result>>

-----------------------------------------------------------------------------
(* The clock                                                               *)

Tick ==
  /\ \E d \in ClockSteps : clock' = clock + d
  /\ clock' \in 0 .. MaxClock
  /\ UNCHANGED <<pc, now, frame, pending, permutation, at, items, lists, last_used_ID, result,
                 last_tracked_detection, before>>

TrackStep ==
  \/ Track \/ Consider \/ Retire \/ EndScan \/ Match
  \/ EraseOutdatedHistory \/ Welcome \/ Return

Next == TrackStep \/ Tick

Spec == Init /\ [][Next]_vars

-----------------------------------------------------------------------------
(* Properties                                                              *)

IDs == 1 .. last_used_ID

TypeOK ==
  /\ clock \in Int /\ now \in Int
  /\ pc \in {"idle", "scan", "match", "new"}
  /\ frame \in Seq(Detections)
  /\ pending \subseteq DOMAIN frame
  /\ permutation \subseteq [det : DOMAIN frame, t : IDs, distance : Nat]
  /\ at \in 1 .. Len(current_items) + 1
  /\ last_used_ID \in Nat
  /\ items \in Seq([c : Classes, pos : Int, seen_last : Int])
  /\ Len(items) = last_used_ID
  /\ current_items \in Seq(IDs) /\ historical_items \in Seq(IDs)
  /\ counts \in [Classes -> Nat]
  /\ result \in Seq(IDs) /\ last_tracked_detection \in Seq(IDs)

\* After a call, last_tracked_detection has for every detection of the frame
\* one item, in its class and place, that was seen now, and has no other and
\* none twice.
OneItemForEachDetection ==
  pc = "idle" =>
    /\ Len(last_tracked_detection) = Len(frame)
    /\ \A d \in DOMAIN frame : \E n \in DOMAIN last_tracked_detection :
         items[last_tracked_detection[n]] = [c |-> frame[d].c, pos |-> frame[d].pos,
                                             seen_last |-> now]
    /\ \A m, n \in DOMAIN last_tracked_detection :
         m # n => last_tracked_detection[m] # last_tracked_detection[n]

\* However items move between the lists and out of them, none is in both or
\* twice in one, and counts is the number of items of each class.
CountsMatchLists ==
  /\ Cardinality(Nodes(current_items) \union Nodes(historical_items))
       = Len(current_items) + Len(historical_items)
  /\ \A c \in Classes :
       counts[c] = Cardinality({t \in Nodes(current_items) \union Nodes(historical_items) :
                                  items[t].c = c})

\* An item that became history is never matched or shown again, also when
\* the clock is set back so that it would not count as expired.
HistoryIsClosed ==
  [][\A t \in Nodes(historical_items) :
       t \notin Nodes(current_items') \union Nodes(result') /\ items'[t] = items[t]]_vars

\* The matching is stable: when a detection and an item near it are not
\* matched with each other, one of them has a match at most as far.  So an
\* object keeps its ID unless another detection is at least as near to it.
MatchedWith(d, t) ==
  /\ t \in Nodes(result)
  /\ items[t].c = frame[d].c /\ items[t].pos = frame[d].pos

MatchingIsStable ==
  pc = "new" =>
    \A d \in DOMAIN frame, t \in Nodes(current_items) \intersect DOMAIN before :
      Near(before[t], frame[d]) =>
        \/ \E u \in DOMAIN before :
             MatchedWith(d, u) /\ Distance(before[u], frame[d]) <= Distance(before[t], frame[d])
        \/ \E e \in DOMAIN frame :
             MatchedWith(e, t) /\ Distance(before[t], frame[e]) <= Distance(before[t], frame[d])

\* README.md:65: track-history-length is the number of minutes to keep the
\* history, so nothing that is dropped was seen in the last HistoryMinutes.
HistoryKept ==
  [][\A t \in Nodes(historical_items) \ Nodes(historical_items') :
       clock - items[t].seen_last > HistoryMinutes * 60]_vars
=============================================================================
