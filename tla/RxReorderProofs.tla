-------------------------- MODULE RxReorderProofs ---------------------------
(***************************************************************************)
(* Type correctness of the reorder table, and that its slots and sequence  *)
(* numbers stay aligned, for every number space, window size and stream.   *)
(* A call takes the table through up to six stages; each stage has a lemma *)
(* about what it makes of a table, and a call puts them together.          *)
(***************************************************************************)
EXTENDS RxReorder, WellFoundedInduction, TLAPS

-----------------------------------------------------------------------------
(* Arithmetic *)

LEMMA Sizes ==
    WinSize \in Nat /\ WinSize > 0 /\ MaxTid \in Nat /\ MaxTid > 0 /\ 2 * WinSize < MaxTid
  BY WindowAssumption DEF Half

\* What the modulus makes of the numbers that occur.
LEMMA ModFacts ==
    ASSUME NEW x \in 0 .. (2 * MaxTid - 1)
    PROVE  x % MaxTid = IF x < MaxTid THEN x ELSE x - MaxTid
  BY Sizes

LEMMA ModRange == ASSUME NEW x \in Nat PROVE x % MaxTid \in 0 .. (MaxTid - 1)
  BY Sizes

LEMMA MinNat ==
    ASSUME NEW S \in SUBSET Nat, S # {}
    PROVE  Min(S) \in S /\ \A y \in S : Min(S) <= y
<1>1. PICK x \in S : \A y \in S : ~ (<<y, x>> \in OpToRel(<, Nat))
      BY NatLessThanWellFounded, WFMin
<1>2. \A y \in S : ~ (y < x)
      BY <1>1 DEF OpToRel
<1>3. \A y \in S : x <= y
      BY <1>2
<1>. QED  BY <1>3 DEF Min

LEMMA MaxWindow ==
    ASSUME NEW S \in SUBSET Window, S # {}
    PROVE  Max(S) \in S /\ \A y \in S : Max(S) >= y
<1>. DEFINE D == {WinSize - i : i \in S}
<1>1. \A i \in S : WinSize - i \in Nat
      BY Sizes DEF Window
<1>2. D \in SUBSET Nat /\ D # {}
      BY <1>1
<1>3. PICK m \in D : \A y \in D : m <= y
      BY <1>2, MinNat
<1>4. PICK x \in S : m = WinSize - x
      BY <1>3
<1>5. \A y \in S : x >= y
  <2>. SUFFICES ASSUME NEW y \in S PROVE x >= y
       OBVIOUS
  <2>1. m <= WinSize - y
        BY <1>3
  <2>. QED  BY <2>1, <1>4, Sizes DEF Window
<1>. QED  BY <1>5 DEF Max

-----------------------------------------------------------------------------
(* Tables in the course of a call *)

\* A table with anything in up.
Shape(t) ==
    t \in [win : {WinSize}, start_win : 0 .. MaxTid, slots : [Window -> Slots],
           timer_is_set : BOOLEAN, flush_data : BOOLEAN, amsdu : BOOLEAN,
           force_no_drop : BOOLEAN, check_start_win : BOOLEAN, pkt_count : 0 .. WinSize,
           last_seq : -1 .. (MaxTid - 1), up : {t.up}]

NothingHeld(t) == \A i \in Window : t.slots[i] = Empty

InLine(t) ==
    \A i \in Window : t.slots[i] # Empty => Seq12(t.slots[i].num) = (t.start_win + i) % MaxTid

\* Stages before the last change only the slots, start_win and up.
SameFlags(r, t) ==
    /\ r.timer_is_set = t.timer_is_set /\ r.flush_data = t.flush_data
    /\ r.force_no_drop = t.force_no_drop /\ r.check_start_win = t.check_start_win

\* What every call leaves behind.
Good(t) ==
    /\ Shape(t)
    /\ InLine(t)
    /\ t.slots[0] = Empty
    /\ t.check_start_win => NothingHeld(t)
    /\ NothingHeld(t) \/ t.timer_is_set \/ t.flush_data

LEMMA EmptyIsSlot == Empty \in Slots
  BY StreamAssumption DEF Empty, Slots

LEMMA ShiftShape ==
    ASSUME NEW t, Shape(t), NEW k \in 0 .. WinSize, NEW s \in 0 .. MaxTid
    PROVE  /\ Shape(Shift(t, k, s))
           /\ Shift(t, k, s).start_win = s
           /\ Shift(t, k, s).slots = Rotated(t.slots, k)
           /\ SameFlags(Shift(t, k, s), t)
<1>1. Rotated(t.slots, k) \in [Window -> Slots]
      BY Sizes, EmptyIsSlot DEF Rotated, Shape, Window
<1>. HIDE DEF Rotated, Payloads
<1>. QED  BY <1>1 DEF Shift, Shape, SameFlags

\* However far the window is moved, what stays is in line with its new start.
LEMMA DispatchUntilOk ==
    ASSUME NEW t, Shape(t), InLine(t), NEW s \in 0 .. MaxTid
    PROVE  LET r == DispatchUntil(t, s)
           IN /\ Shape(r) /\ InLine(r) /\ r.start_win = s /\ SameFlags(r, t)
              /\ r.slots[WinSize - 1] = Empty
              /\ NothingHeld(t) => NothingHeld(r)
              /\ s <= t.start_win \/ s - t.start_win >= WinSize => NothingHeld(r)
              /\ (\A i \in Window : i >= s - t.start_win => t.slots[i] = Empty) => NothingHeld(r)
<1>. DEFINE k == IF s > t.start_win THEN Min({s - t.start_win, WinSize}) ELSE WinSize
            r == Shift(t, k, s)
<1>1. t.start_win \in 0 .. MaxTid /\ t.slots \in [Window -> Slots]
      BY DEF Shape
<1>2. /\ k \in 1 .. WinSize
      /\ k = WinSize \/ k = s - t.start_win
      /\ s <= t.start_win \/ s - t.start_win >= WinSize => k = WinSize
  <2>1. CASE s > t.start_win
    <3>1. {s - t.start_win, WinSize} \in SUBSET Nat
          BY <1>1, <2>1, Sizes
    <3>2. Min({s - t.start_win, WinSize}) \in {s - t.start_win, WinSize}
          BY <3>1, MinNat
    <3>3. \A y \in {s - t.start_win, WinSize} : Min({s - t.start_win, WinSize}) <= y
          BY <3>1, MinNat
    <3>. HIDE DEF Min
    <3>. QED  BY <1>1, <2>1, <3>2, <3>3, Sizes
  <2>2. CASE ~(s > t.start_win)
        BY <2>2, Sizes, <1>1
  <2>. QED  BY <2>1, <2>2
<1>. HIDE DEF k
<1>3. /\ Shape(r) /\ r.start_win = s /\ SameFlags(r, t)
      /\ r.slots = Rotated(t.slots, k)
      BY <1>2, ShiftShape, Sizes
<1>. HIDE DEF r
<1>4. \A i \in Window : r.slots[i] = IF i + k < WinSize THEN t.slots[i + k] ELSE Empty
      BY <1>3 DEF Rotated
<1>5. InLine(r)
  <2>. SUFFICES ASSUME NEW i \in Window, r.slots[i] # Empty
                PROVE  Seq12(r.slots[i].num) = (r.start_win + i) % MaxTid
       BY DEF InLine
  <2>1. i + k < WinSize /\ r.slots[i] = t.slots[i + k]
        BY <1>4
  <2>2. i + k \in Window /\ k = s - t.start_win
        BY <2>1, <1>2, Sizes DEF Window
  <2>3. Seq12(t.slots[i + k].num) = (t.start_win + (i + k)) % MaxTid
        BY <2>1, <2>2 DEF InLine
  <2>4. t.start_win + (i + k) = s + i
        BY <2>2, <1>1, <1>2 DEF Window
  <2>. QED  BY <1>3, <2>1, <2>3, <2>4
<1>6. r.slots[WinSize - 1] = Empty
      BY <1>4, <1>2, Sizes DEF Window
<1>7. NothingHeld(t) => NothingHeld(r)
      BY <1>4, <1>2, Sizes DEF NothingHeld, Window
<1>8. k = WinSize => NothingHeld(r)
      BY <1>4, Sizes DEF NothingHeld, Window
<1>9. (\A i \in Window : i >= s - t.start_win => t.slots[i] = Empty) => NothingHeld(r)
  <2>1. CASE k = s - t.start_win
    <3>. SUFFICES ASSUME \A i \in Window : i >= s - t.start_win => t.slots[i] = Empty,
                         NEW j \in Window
                  PROVE  r.slots[j] = Empty
         BY DEF NothingHeld
    <3>1. CASE j + k < WinSize
      <4>1. j + k \in Window /\ j + k >= s - t.start_win
            BY <2>1, <3>1, <1>2, Sizes DEF Window
      <4>. QED  BY <3>1, <4>1, <1>4
    <3>. QED  BY <3>1, <1>4
  <2>. QED  BY <2>1, <1>2, <1>8
<1>10. DispatchUntil(t, s) = r
      BY DEF DispatchUntil, r, k
<1>. QED  BY <1>2, <1>3, <1>5, <1>6, <1>7, <1>8, <1>9, <1>10

\* The scan moves the window to its first hole, across the wrap too.
LEMMA ScanOk ==
    ASSUME NEW t, Shape(t), InLine(t)
    PROVE  LET r == ScanAndDispatch(t)
           IN /\ Shape(r) /\ InLine(r) /\ r.slots[0] = Empty /\ SameFlags(r, t)
              /\ NothingHeld(t) => NothingHeld(r)
<1>. DEFINE H == {i \in Window : t.slots[i] = Empty} \cup {WinSize}
            k == Min(H)
            r == Shift(t, k, (t.start_win + k) % MaxTid)
<1>1. t.start_win \in 0 .. MaxTid /\ t.slots \in [Window -> Slots]
      BY DEF Shape
<1>2. k \in H /\ \A i \in H : k <= i
  <2>1. H \in SUBSET Nat /\ H # {}
        BY Sizes DEF Window
  <2>. QED  BY <2>1, MinNat
<1>. HIDE DEF k
<1>3. k \in 0 .. WinSize /\ (k < WinSize => t.slots[k] = Empty)
      BY <1>2, Sizes DEF Window
<1>4. (t.start_win + k) % MaxTid \in 0 .. MaxTid
      BY <1>1, <1>3, Sizes, ModRange
<1>5. /\ Shape(r) /\ r.start_win = (t.start_win + k) % MaxTid /\ SameFlags(r, t)
      /\ r.slots = Rotated(t.slots, k)
      BY <1>3, <1>4, ShiftShape
<1>. HIDE DEF r
<1>6. \A i \in Window : r.slots[i] = IF i + k < WinSize THEN t.slots[i + k] ELSE Empty
      BY <1>5 DEF Rotated
<1>7. InLine(r)
  <2>. SUFFICES ASSUME NEW i \in Window, r.slots[i] # Empty
                PROVE  Seq12(r.slots[i].num) = (r.start_win + i) % MaxTid
       BY DEF InLine
  <2>1. i + k < WinSize /\ r.slots[i] = t.slots[i + k]
        BY <1>6
  <2>2. i + k \in Window
        BY <2>1, <1>3, Sizes DEF Window
  <2>3. Seq12(t.slots[i + k].num) = (t.start_win + (i + k)) % MaxTid
        BY <2>1, <2>2 DEF InLine
  <2>4. (t.start_win + (i + k)) % MaxTid = (((t.start_win + k) % MaxTid) + i) % MaxTid
    <3>1. PICK a \in 0 .. (2 * MaxTid - 1) : a = t.start_win + k /\ a + i \in 0 .. (2 * MaxTid - 1)
          BY <1>1, <1>3, <2>1, Sizes DEF Window
    <3>2. t.start_win + (i + k) = a + i /\ i \in Nat /\ i < MaxTid
          BY <1>1, <1>3, <3>1, Sizes DEF Window
    <3>3. (a + i) % MaxTid = ((a % MaxTid) + i) % MaxTid
      <4>1. CASE a < MaxTid
        <5>1. a % MaxTid = a
              BY <4>1, ModFacts
        <5>. QED  BY <5>1
      <4>2. CASE ~(a < MaxTid)
        <5>1. a % MaxTid = a - MaxTid
              BY <4>2, ModFacts
        <5>2. (a + i) % MaxTid = a + i - MaxTid
          <6>1. PICK b \in 0 .. (2 * MaxTid - 1) : b = a + i
                BY <3>1
          <6>2. ~(b < MaxTid)
                BY <4>2, <3>2, <6>1, Sizes
          <6>3. b % MaxTid = b - MaxTid
                BY <6>2, ModFacts
          <6>. QED  BY <6>1, <6>3, <3>2, Sizes
        <5>3. a - MaxTid + i \in 0 .. (2 * MaxTid - 1) /\ a - MaxTid + i < MaxTid
              BY <4>2, <3>1, <3>2, Sizes
        <5>4. (a - MaxTid + i) % MaxTid = a - MaxTid + i
              BY <5>3, ModFacts
        <5>. QED  BY <5>1, <5>2, <5>4, <3>2, Sizes
      <4>. QED  BY <4>1, <4>2
    <3>. QED  BY <3>1, <3>2, <3>3
  <2>. QED  BY <1>5, <2>1, <2>3, <2>4
<1>8. r.slots[0] = Empty
      BY <1>6, <1>3, Sizes DEF Window
<1>9. NothingHeld(t) => NothingHeld(r)
      BY <1>6, <1>3, Sizes DEF NothingHeld, Window
<1>10. ScanAndDispatch(t) = r
      BY DEF ScanAndDispatch, r, k
<1>. QED  BY <1>5, <1>7, <1>8, <1>9, <1>10

\* A flush leaves nothing behind, also when its new start has wrapped.
LEMMA StartFlushOk ==
    ASSUME NEW t, Shape(t), InLine(t)
    PROVE  LET r == StartFlush(t)
           IN Shape(r) /\ InLine(r) /\ NothingHeld(r) /\ SameFlags(r, t)
<1>. DEFINE held == {i \in Window : t.slots[i] # Empty}
<1>1. CASE held = {}
      BY <1>1 DEF StartFlush, NothingHeld, SameFlags
<1>2. CASE held # {}
  <2>1. t.start_win \in 0 .. MaxTid
        BY DEF Shape
  <2>2. PICK m \in held : m = Max(held) /\ \A i \in held : m >= i
        BY <1>2, MaxWindow
  <2>3. m \in 0 .. (WinSize - 1)
        BY <2>2 DEF Window
  <2>4. PICK a \in 0 .. (2 * MaxTid - 1) : a = t.start_win + m + 1
        BY <2>1, <2>3, Sizes
  <2>5. PICK s \in 0 .. MaxTid : s = a % MaxTid
        BY <2>4, ModRange, Sizes
  <2>6. s = IF a < MaxTid THEN a ELSE a - MaxTid
        BY <2>5, ModFacts
  <2>7. StartFlush(t) = DispatchUntil(t, s)
        BY <1>2, <2>2, <2>4, <2>5 DEF StartFlush
  <2>8. CASE a < MaxTid
    <3>1. s - t.start_win = m + 1
          BY <2>8, <2>6, <2>4, <2>1, <2>3
    <3>2. \A i \in Window : i >= s - t.start_win => t.slots[i] = Empty
          BY <2>2, <2>3, <3>1 DEF Window
    <3>. QED  BY <2>7, <3>2, DispatchUntilOk
  <2>9. CASE ~(a < MaxTid)
    <3>1. s <= t.start_win
          BY <2>9, <2>6, <2>4, <2>1, <2>3, Sizes
    <3>. QED  BY <2>7, <3>1, DispatchUntilOk
  <2>. QED  BY <2>8, <2>9
<1>. QED  BY <1>1, <1>2

LEMMA FlushedOk ==
    ASSUME NEW t, Good(t)
    PROVE  LET r == Flushed(t)
           IN Good(r) /\ ~r.flush_data
<1>1. CASE t.flush_data
  <2>. DEFINE u == [t EXCEPT !.flush_data = FALSE]
              r == StartFlush(u)
  <2>1. Shape(u) /\ InLine(u) /\ ~u.flush_data
        BY DEF Good, Shape, InLine
  <2>2. Shape(r) /\ InLine(r) /\ NothingHeld(r) /\ ~r.flush_data
        BY <2>1, StartFlushOk DEF SameFlags
  <2>3. Flushed(t) = r
        BY <1>1 DEF Flushed
  <2>. HIDE DEF r
  <2>4. r.slots[0] = Empty
        BY <2>2, Sizes DEF NothingHeld, Window
  <2>. QED  BY <2>2, <2>3, <2>4 DEF Good
<1>2. CASE ~t.flush_data
      BY <1>2 DEF Flushed
<1>. QED  BY <1>1, <1>2

\* The start may be moved freely: nothing is held while it is in doubt.
LEMMA StartCheckedOk ==
    ASSUME NEW t, Good(t), NEW seq \in 0 .. (MaxTid - 1)
    PROVE  LET r == StartChecked(t, seq)
           IN Good(r) /\ ~r.check_start_win
<1>1. CASE t.check_start_win
  <2>. DEFINE r == StartChecked(t, seq)
  <2>1. Shape(t) /\ NothingHeld(t)
        BY <1>1 DEF Good
  <2>2. PICK s \in 0 .. MaxTid :
            r = [t EXCEPT !.check_start_win = FALSE, !.pkt_count = 0, !.last_seq = DefaultSeq,
                          !.start_win = s]
    <3>1. t.start_win \in 0 .. MaxTid /\ t.last_seq + 1 \in 0 .. MaxTid
          BY <2>1, Sizes DEF Shape
    <3>. QED  BY <1>1, <3>1 DEF StartChecked
  <2>. HIDE DEF r
  <2>3. Shape(r) /\ r.slots = t.slots /\ ~r.check_start_win
    <3>1. 0 \in 0 .. WinSize /\ DefaultSeq \in -1 .. (MaxTid - 1)
          BY Sizes DEF DefaultSeq
    <3>. HIDE DEF DefaultSeq
    <3>2. /\ r.slots = t.slots /\ ~r.check_start_win /\ r.start_win = s /\ r.win = t.win
          /\ r.pkt_count = 0 /\ r.last_seq = DefaultSeq /\ r.up = t.up
          BY <2>1, <2>2 DEF Shape
    <3>3. Shape(r)
          BY <2>1, <2>2, <3>1, <3>2 DEF Shape
    <3>. QED  BY <3>2, <3>3
  <2>4. NothingHeld(r) /\ InLine(r) /\ r.slots[0] = Empty
        BY <2>1, <2>3, Sizes DEF NothingHeld, InLine, Window
  <2>. QED  BY <2>3, <2>4 DEF Good, r
<1>2. CASE ~t.check_start_win
      BY <1>2 DEF StartChecked
<1>. QED  BY <1>1, <1>2

LEMMA NoDroppedOk ==
    ASSUME NEW t, Good(t), ~t.check_start_win, NEW seq \in 0 .. (MaxTid - 1), NEW type
    PROVE  LET r == NoDropped(t, seq, type)
           IN Good(r) /\ ~r.check_start_win
<1>1. CASE t.force_no_drop
  <2>1. Shape(t) /\ InLine(t) /\ t.start_win \in 0 .. MaxTid
        BY DEF Good, Shape
  <2>2. PICK a \in 0 .. (2 * MaxTid - 1) : a = t.start_win + WinSize
        BY <2>1, Sizes
  <2>3. PICK s \in 0 .. MaxTid : s = a % MaxTid
        BY <2>2, ModRange, Sizes
  <2>4. s = IF a < MaxTid THEN a ELSE a - MaxTid
        BY <2>3, ModFacts
  <2>5. s <= t.start_win \/ s - t.start_win >= WinSize
        BY <2>4, <2>2, <2>1, Sizes
  <2>. DEFINE f == DispatchUntil(t, s)
              g == [f EXCEPT !.start_win = seq]
              r == NoDropped(t, seq, type)
  <2>6. Shape(f) /\ NothingHeld(f) /\ ~f.check_start_win
        BY <2>1, <2>5, DispatchUntilOk DEF SameFlags
  <2>7. r = IF type = "BAR" THEN f ELSE g
        BY <1>1, <2>2, <2>3 DEF NoDropped
  <2>. HIDE DEF f
  <2>8. Shape(g) /\ NothingHeld(g) /\ ~g.check_start_win
        BY <2>6, Sizes DEF Shape, NothingHeld
  <2>. HIDE DEF g, r
  <2>9. Shape(r) /\ NothingHeld(r) /\ ~r.check_start_win
        BY <2>6, <2>7, <2>8
  <2>10. InLine(r) /\ r.slots[0] = Empty
        BY <2>9, Sizes DEF NothingHeld, InLine, Window
  <2>. QED  BY <2>9, <2>10 DEF Good, r
<1>2. CASE ~t.force_no_drop
      BY <1>2 DEF NoDropped
<1>. QED  BY <1>1, <1>2

\* The slot computed for a number is the one of that number, wrapped or not, and
\* it is free when the window had to be moved for it.
LEMMA CoveringOk ==
    ASSUME NEW t, Good(t), NEW last \in 0 .. (MaxTid - 1)
    PROVE  LET r == Covering(t, last)
               at == SlotOf(r.start_win, last)
           IN /\ Shape(r) /\ InLine(r) /\ SameFlags(r, t)
              /\ NothingHeld(t) => NothingHeld(r)
              /\ at \in Nat /\ (r.start_win + at) % MaxTid = last
              /\ r = t \/ r.slots[at] = Empty
<1>. DEFINE r == Covering(t, last)
            at == SlotOf(r.start_win, last)
<1>1. Shape(t) /\ InLine(t)
      BY DEF Good
<1>2. /\ Shape(r) /\ InLine(r) /\ SameFlags(r, t)
      /\ NothingHeld(t) => NothingHeld(r)
      /\ r = t \/ (r.start_win = WindowEndingAt(last) /\ r.slots[WinSize - 1] = Empty)
  <2>1. CASE IsOutside(t.start_win, last)
    <3>1. WindowEndingAt(last) \in 0 .. MaxTid
          BY Sizes DEF WindowEndingAt
    <3>. QED  BY <2>1, <3>1, <1>1, DispatchUntilOk DEF Covering
  <2>2. CASE ~IsOutside(t.start_win, last)
        BY <2>2, <1>1 DEF Covering, SameFlags
  <2>. QED  BY <2>1, <2>2
<1>. HIDE DEF r
<1>3. r.start_win \in 0 .. MaxTid
      BY <1>2 DEF Shape
<1>4. /\ at \in Nat
      /\ r.start_win + at = IF last >= r.start_win THEN last ELSE last + MaxTid
      BY <1>3, Sizes DEF SlotOf
<1>5. (r.start_win + at) % MaxTid = last
  <2>. HIDE DEF at
  <2>1. PICK a \in 0 .. (2 * MaxTid - 1) : a = r.start_win + at
        BY <1>3, <1>4, Sizes
  <2>2. a % MaxTid = last
        BY <2>1, <1>4, ModFacts, Sizes
  <2>. QED  BY <2>1, <2>2
<1>6. r = t \/ r.slots[at] = Empty
  <2>1. CASE r.start_win = WindowEndingAt(last) /\ r.slots[WinSize - 1] = Empty
    <3>1. at = WinSize - 1
          BY <2>1, Sizes DEF WindowEndingAt, SlotOf
    <3>. QED  BY <2>1, <3>1
  <2>. QED  BY <2>1, <1>2
<1>. QED  BY <1>2, <1>4, <1>5, <1>6 DEF r

LEMMA PlacedOk ==
    ASSUME NEW t, Shape(t), InLine(t), NEW at \in Nat, NEW p \in Slots,
           Seq12(p.num) = (t.start_win + at) % MaxTid
    PROVE  LET r == [t EXCEPT !.slots[at] = p]
           IN Shape(r) /\ InLine(r) /\ SameFlags(r, t)
<1>. DEFINE r == [t EXCEPT !.slots[at] = p]
<1>1. Shape(r) /\ SameFlags(r, t) /\ r.start_win = t.start_win
      BY DEF Shape, SameFlags
<1>2. \A i \in Window : r.slots[i] = IF i = at THEN p ELSE t.slots[i]
      BY DEF Shape
<1>. HIDE DEF r
<1>3. InLine(r)
      BY <1>1, <1>2 DEF InLine
<1>. QED  BY <1>1, <1>3 DEF r

\* The timer runs when an ordered call ends.
LEMMA FinishedOk ==
    ASSUME NEW t, Shape(t), InLine(t), t.slots[0] = Empty, ~t.check_start_win
    PROVE  Good(Finished(t))
<1>. DEFINE r == Finished(t)
<1>1. Shape(r) /\ r.slots = t.slots /\ r.start_win = t.start_win /\ r.timer_is_set
      /\ ~r.check_start_win
      BY DEF Finished, Shape
<1>. HIDE DEF r
<1>2. InLine(r)
      BY <1>1 DEF InLine
<1>. QED  BY <1>1, <1>2 DEF Good, r

LEMMA LeaveOk ==
    ASSUME NEW t, Good(t), NEW fwd, NEW drop, Leave(t, fwd, drop)
    PROVE  tbl' \in Tables /\ Good(tbl')
<1>1. tbl' = [t EXCEPT !.up = <<>>]
      BY DEF Leave
<1>2. Shape(t)
      BY DEF Good
<1>3. /\ tbl' \in Tables /\ Shape(tbl') /\ tbl'.slots = t.slots /\ tbl'.start_win = t.start_win
      /\ tbl'.timer_is_set = t.timer_is_set /\ tbl'.flush_data = t.flush_data
      /\ tbl'.check_start_win = t.check_start_win
      BY <1>1, <1>2 DEF Shape, Tables
<1>. QED  BY <1>3 DEF Good, InLine, NothingHeld

Kept == tbl \in Tables /\ Good(tbl)
Inv == tbl = NoTable \/ Kept

\* A call, packet or BAR, from a table in order to a table in order.
LEMMA RxReorderPktOk ==
    ASSUME Inv, NEW seq \in 0 .. (MaxTid - 1), NEW type, NEW payload \in Slots,
           type # "BAR" => Seq12(payload.num) = seq,
           RxReorderPkt(seq, type, payload)
    PROVE  Inv'
<1>. DEFINE carried == {payload.num} \ {Empty.num}
            t1 == Flushed(tbl)
            t2 == NoDropped(StartChecked(t1, seq), seq, type)
            drops == ~t2.force_no_drop /\ IsOld(t2.start_win, seq)
            last == IF type = "BAR" THEN (seq + WinSize - 1) % MaxTid ELSE seq
            t3 == Covering(t2, last)
            at == SlotOf(t3.start_win, last)
            t4 == IF type = "BAR" THEN t3 ELSE [t3 EXCEPT !.slots[at] = payload]
<1>1. CASE ~Reorders
      BY <1>1 DEF RxReorderPkt, Inv, Kept
<1>2. CASE Reorders
  <2>1. tbl \in Tables /\ Good(tbl)
        BY <1>2 DEF Inv, Kept, Reorders, NoTable
  <2>2. Good(t1) /\ ~t1.flush_data
        BY <2>1, FlushedOk
  <2>3. Good(t2) /\ ~t2.check_start_win
        BY <2>2, StartCheckedOk, NoDroppedOk
  <2>4. last \in 0 .. (MaxTid - 1)
        BY ModRange, Sizes
  <2>5. /\ Shape(t3) /\ InLine(t3) /\ SameFlags(t3, t2)
        /\ at \in Nat /\ (t3.start_win + at) % MaxTid = last
        /\ t3 = t2 \/ t3.slots[at] = Empty
        BY <2>3, <2>4, CoveringOk
  <2>. HIDE DEF t3, at
  <2>6. Shape(t4) /\ InLine(t4) /\ SameFlags(t4, t3)
        BY <2>5, PlacedOk DEF SameFlags
  <2>7. Good(Finished(t2))
        BY <2>3, FinishedOk DEF Good
  <2>8. t3.slots[at] # Empty => Good(Finished(t3))
        BY <2>5, <2>3, FinishedOk DEF Good, SameFlags
  <2>. HIDE DEF t4
  <2>9. Good(Finished(ScanAndDispatch(t4)))
        BY <2>6, <2>5, <2>3, ScanOk, FinishedOk DEF SameFlags
  <2>10. ASSUME Forwards(t1, seq)
         PROVE  /\ Good([t1 EXCEPT !.pkt_count = @ + 1])
                /\ Good([t1 EXCEPT !.pkt_count = @ + 1, !.last_seq = seq])
    <3>. HIDE DEF t1
    <3>1. Shape(t1) /\ t1.pkt_count + 1 \in 0 .. WinSize /\ seq \in -1 .. (MaxTid - 1)
      <4>1. Shape(t1) /\ t1.pkt_count \in 0 .. WinSize /\ t1.pkt_count + 1 < WinSize \div 2
            BY <2>2, <2>10 DEF Good, Shape, Forwards
      <4>. QED  BY <4>1, Sizes
    <3>. QED  BY <2>2, <3>1 DEF Good, Shape, InLine, NothingHeld
  <2>11. CASE Leave(t1, carried, {})
        BY <2>11, <2>2, LeaveOk DEF Inv, Kept
  <2>12. CASE Forwards(t1, seq) /\ Leave([t1 EXCEPT !.pkt_count = @ + 1], {}, carried)
        BY <2>12, <2>10, LeaveOk DEF Inv, Kept
  <2>13. CASE Forwards(t1, seq)
              /\ Leave([t1 EXCEPT !.pkt_count = @ + 1, !.last_seq = seq], carried, {})
        BY <2>13, <2>10, LeaveOk DEF Inv, Kept
  <2>14. CASE Leave(Finished(t2), {}, carried)
        BY <2>14, <2>7, LeaveOk DEF Inv, Kept
  <2>15. CASE t3.slots[at] # Empty /\ Leave(Finished(t3), {}, carried)
        BY <2>15, <2>8, LeaveOk DEF Inv, Kept
  <2>16. CASE Leave(Finished(ScanAndDispatch(t4)), {}, {})
        BY <2>16, <2>9, LeaveOk DEF Inv, Kept
  <2>. QED  BY <1>2, <2>11, <2>12, <2>13, <2>14, <2>15, <2>16 DEF RxReorderPkt, t3, at, t4
<1>. QED  BY <1>1, <1>2

-----------------------------------------------------------------------------
(* The steps *)

LEMMA InitOk == Init => TypeOK /\ Inv
  BY Sizes, StreamAssumption DEF Init, TypeOK, Inv, DefaultSeq

\* The agreement is negotiated or ended; the old table is gone either way.
LEMMA NewTableOk ==
    ASSUME NEW s \in 0 .. (MaxTid - 1), NEW l \in -1 .. (MaxTid - 1)
    PROVE  NewTable(s, l) \in Tables /\ Good(NewTable(s, l))
<1>. DEFINE r == NewTable(s, l)
<1>1. r.slots = [i \in Window |-> Empty] /\ r.slots \in [Window -> Slots]
      BY EmptyIsSlot DEF NewTable
<1>2. r \in Tables /\ Shape(r)
      BY <1>1, Sizes DEF NewTable, Tables, Shape
<1>3. NothingHeld(r) /\ InLine(r) /\ r.slots[0] = Empty
      BY <1>1, Sizes DEF NothingHeld, InLine, Window
<1>. QED  BY <1>2, <1>3 DEF Good

LEMMA StepOk == TypeOK /\ Inv /\ [Next]_vars => TypeOK' /\ Inv'
<1>. SUFFICES ASSUME TypeOK, Inv, [Next]_vars
              PROVE  TypeOK' /\ Inv'
     OBVIOUS
<1>. USE DEF histVars
<1>1. rx_seq \in -1 .. (MaxTid - 1) /\ wo \in First .. Last
      BY DEF TypeOK
<1>2. wo' \in First .. Last
      BY <1>1, StreamAssumption DEF Next, RxPkt, RxbaSync, RxBar, AddBa, AddBaResp, DelBa, Cleanup,
                  NoDropFlag, TimerExpire, FlushPriv, Acked, vars
<1>3. \A n \in InFlight : n \in 0 .. Last /\ Seq12(n) \in 0 .. (MaxTid - 1)
      BY <1>1, StreamAssumption, ModRange DEF InFlight, Seq12
<1>4. rx_seq' \in -1 .. (MaxTid - 1)
  <2>1. rx_seq' \in {rx_seq, DefaultSeq} \/ \E n \in InFlight : rx_seq' = Seq12(n)
        BY DEF Next, RxPkt, RxbaSync, RxBar, AddBa, AddBaResp, DelBa, Cleanup,
               NoDropFlag, TimerExpire, FlushPriv, Acked, vars
  <2>. QED  BY <2>1, <1>1, <1>3, Sizes DEF DefaultSeq
<1>5. Inv'
  <2>1. ASSUME NEW n \in InFlight,
               RxPkt(n, "MSDU") \/ RxPkt(n, "AMSDU") \/ RxbaSync(n)
        PROVE  Inv'
    <3>1. /\ Payload(n) \in Slots /\ Payload(n).num = n
          /\ DroppedInFw(n) \in Slots /\ DroppedInFw(n).num = n
          BY <1>3 DEF Payload, DroppedInFw, Slots
    <3>. QED  BY <2>1, <1>3, <3>1, RxReorderPktOk DEF RxPkt, RxbaSync
  <2>2. CASE RxBar
    <3>1. Seq12(wo) \in 0 .. (MaxTid - 1)
          BY <1>1, StreamAssumption, ModRange DEF Seq12
    <3>. QED  BY <2>2, <3>1, EmptyIsSlot, RxReorderPktOk DEF RxBar
  <2>3. ASSUME NEW ssn \in First .. (Last + MaxAhead), AddBa(ssn)
        PROVE  Inv'
    <3>1. Seq12(ssn) \in 0 .. (MaxTid - 1)
          BY StreamAssumption, AheadAssumption, ModRange DEF Seq12
    <3>. QED  BY <2>3, <3>1, <1>1, NewTableOk DEF AddBa, Inv, Kept
  <2>4. ASSUME HasTable
        PROVE  Kept
        BY <2>4 DEF Inv, HasTable, NoTable
  <2>5. CASE AddBaResp
    <3>1. PICK a \in BOOLEAN : Leave([tbl EXCEPT !.amsdu = a], {}, {})
          BY <2>5 DEF AddBaResp
    <3>2. Good([tbl EXCEPT !.amsdu = a])
          BY <2>4, <2>5 DEF AddBaResp, Kept, Good, Shape, InLine, NothingHeld
    <3>. QED  BY <3>1, <3>2, LeaveOk DEF Inv, Kept
  <2>6. CASE DelBa \/ Cleanup
        BY <2>6 DEF DelBa, Cleanup, Inv
  <2>7. CASE NoDropFlag
    <3>1. Good([tbl EXCEPT !.force_no_drop = TRUE])
          BY <2>4, <2>7 DEF NoDropFlag, Kept, Good, Shape, InLine, NothingHeld
    <3>. QED  BY <2>7, <3>1, LeaveOk DEF NoDropFlag, Inv, Kept
  <2>8. CASE TimerExpire
    <3>1. Good([tbl EXCEPT !.timer_is_set = FALSE, !.flush_data = TRUE])
          BY <2>4, <2>8 DEF TimerExpire, Kept, Good, Shape, InLine, NothingHeld
    <3>. QED  BY <2>8, <3>1, LeaveOk DEF TimerExpire, Inv, Kept
  <2>9. CASE FlushPriv
        BY <2>4, <2>9, FlushedOk, LeaveOk DEF FlushPriv, Inv, Kept
  <2>10. CASE Acked \/ UNCHANGED vars
        BY <2>10 DEF Acked, vars, Inv, Kept
  <2>. QED  BY <2>1, <2>2, <2>3, <2>5, <2>6, <2>7, <2>8, <2>9, <2>10 DEF Next
<1>. QED  BY <1>2, <1>4, <1>5 DEF TypeOK, Inv, Kept

-----------------------------------------------------------------------------
(* The theorems *)

\* Whatever packets, block-ack requests, events and timeouts come in which order,
\* the table stays in its domain: start_win within the numbers, one slot per
\* place of the window.
THEOREM TableTyped == Spec => []TypeOK
  BY InitOk, StepOk, PTL DEF Spec

\* The inductive invariant of the reordering.
THEOREM ReorderInvHolds == Spec => []ReorderInv
<1>1. Inv => ReorderInv
  <2>1. CASE tbl = NoTable
        BY <2>1 DEF ReorderInv, Aligned, HeadIsHole, EmptyInDoubt, Watched, Held, HasTable, NoTable
  <2>2. CASE Kept
    <3>1. Held(tbl) = {i \in Window : tbl.slots[i] # Empty}
          BY <2>2, Sizes DEF Held, Kept, Tables, NoTable
    <3>2. NothingHeld(tbl) <=> Held(tbl) = {}
          BY <3>1 DEF NothingHeld
    <3>. HIDE DEF Held
    <3>. QED  BY <2>2, <3>1, <3>2
              DEF Kept, Good, InLine, ReorderInv, Aligned, HeadIsHole, EmptyInDoubt, Watched
  <2>. QED  BY <2>1, <2>2 DEF Inv
<1>. QED  BY <1>1, InitOk, StepOk, PTL DEF Spec

\* The packet in slot i has the i-th number of the window, for every size of the
\* number space and of the window.
THEOREM AlignedHolds == Spec => []Aligned
<1>1. ReorderInv => Aligned
      BY DEF ReorderInv
<1>. QED  BY <1>1, ReorderInvHolds, PTL

\* Nothing that could go up waits between calls.
THEOREM HeadIsHoleHolds == Spec => []HeadIsHole
<1>1. ReorderInv => HeadIsHole
      BY DEF ReorderInv
<1>. QED  BY <1>1, ReorderInvHolds, PTL
=============================================================================
