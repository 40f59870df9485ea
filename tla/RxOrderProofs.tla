---------------------------- MODULE RxOrderProofs ----------------------------
(***************************************************************************)
(* The window of the reorder table in terms of the transmitter's stream,   *)
(* and that it sends packets up in order wherever numbers do not wrap.     *)
(***************************************************************************)
EXTENDS RxReorderProofs

-----------------------------------------------------------------------------
(* The modulus, for numbers of any size *)

LEMMA ModDiv == ASSUME NEW a \in Nat PROVE \E q \in Int : a = q * MaxTid + (a % MaxTid)
<1>1. a = (a \div MaxTid) * MaxTid + (a % MaxTid) /\ a \div MaxTid \in Int
      BY Sizes
<1>. QED  BY <1>1

LEMMA MultipleSmall ==
    ASSUME NEW q \in Int, q * MaxTid < MaxTid, q * MaxTid > -MaxTid
    PROVE  q = 0
  BY Sizes

LEMMA ModSame ==
    ASSUME NEW a \in Nat, NEW b \in Nat, Seq12(a) = Seq12(b), a - b < MaxTid, b - a < MaxTid
    PROVE  a = b
<1>1. PICK p \in Int : a = p * MaxTid + (a % MaxTid)
      BY ModDiv
<1>2. PICK q \in Int : b = q * MaxTid + (b % MaxTid)
      BY ModDiv
<1>3. a % MaxTid = b % MaxTid /\ a % MaxTid \in Int
      BY ModRange DEF Seq12
<1>4. (p - q) * MaxTid = a - b
      BY <1>1, <1>2, <1>3, Sizes
<1>5. p - q = 0
      BY <1>4, MultipleSmall, Sizes
<1>. QED  BY <1>4, <1>5, Sizes

LEMMA ModShift ==
    ASSUME NEW a \in Nat, NEW b \in Nat, NEW c \in Nat, Seq12(a) = Seq12(b)
    PROVE  Seq12(a + c) = Seq12(b + c)
<1>1. PICK p \in Int : a = p * MaxTid + (a % MaxTid)
      BY ModDiv
<1>2. PICK q \in Int : b = q * MaxTid + (b % MaxTid)
      BY ModDiv
<1>3. a % MaxTid = b % MaxTid /\ a % MaxTid \in Int
      BY ModRange DEF Seq12
<1>4. a - b = (p - q) * MaxTid
      BY <1>1, <1>2, <1>3, Sizes
<1>5. PICK x \in Int : a + c = x * MaxTid + ((a + c) % MaxTid)
      BY ModDiv
<1>6. PICK y \in Int : b + c = y * MaxTid + ((b + c) % MaxTid)
      BY ModDiv
<1>7. (a + c) % MaxTid \in 0 .. (MaxTid - 1) /\ (b + c) % MaxTid \in 0 .. (MaxTid - 1)
      BY ModRange
<1>8. (p - q - x + y) * MaxTid = ((a + c) % MaxTid) - ((b + c) % MaxTid)
      BY <1>4, <1>5, <1>6, <1>7, Sizes
<1>9. p - q - x + y = 0
      BY <1>7, <1>8, MultipleSmall, Sizes
<1>. QED  BY <1>7, <1>8, <1>9, Sizes DEF Seq12

LEMMA ModSmall == ASSUME NEW a \in 0 .. (MaxTid - 1) PROVE Seq12(a) = a
  BY ModFacts, Sizes DEF Seq12

-----------------------------------------------------------------------------
(* The tests and indices of the code, for numbers w and n of the stream *)

LEMMA HalfFacts == Half \in Nat /\ 2 * Half <= MaxTid /\ MaxTid <= 2 * Half + 1 /\ WinSize < Half
  BY WindowAssumption, Sizes DEF Half

\* n is w and d more: so is its sequence number, wrapped or not.
LEMMA Ahead ==
    ASSUME NEW w \in Nat, NEW s \in 0 .. MaxTid, Seq12(w) = Seq12(s),
           NEW d \in 0 .. (MaxTid - 1)
    PROVE  Seq12(w + d) = IF s + d < MaxTid THEN s + d ELSE s + d - MaxTid
<1>1. Seq12(w + d) = Seq12(s + d)
      BY ModShift, Sizes
<1>2. PICK a \in 0 .. (2 * MaxTid - 1) : a = s + d
      BY Sizes
<1>3. a % MaxTid = IF a < MaxTid THEN a ELSE a - MaxTid
      BY ModFacts
<1>. QED  BY <1>1, <1>2, <1>3, Sizes DEF Seq12

\* Old is what lies before the window, as long as it is not half the space away.
LEMMA OldOk ==
    ASSUME NEW w \in Nat, NEW s \in 0 .. MaxTid, Seq12(w) = Seq12(s),
           NEW n \in Nat, n - w < Half, w - n <= Half
    PROVE  IsOld(s, Seq12(n)) <=> n < w
<1>1. PICK h \in Nat : h = (s + Half) % MaxTid
                       /\ h = IF s + Half < MaxTid THEN s + Half ELSE s + Half - MaxTid
  <2>1. s + Half \in 0 .. (2 * MaxTid - 1)
        BY HalfFacts, Sizes
  <2>. QED  BY <2>1, ModFacts, HalfFacts, Sizes
<1>2. PICK q \in 0 .. (MaxTid - 1) : q = Seq12(n)
      BY ModRange DEF Seq12
<1>3. CASE n >= w
  <2>1. PICK d \in 0 .. (MaxTid - 1) : n = w + d /\ d < Half
        BY <1>3, HalfFacts, Sizes
  <2>2. q = IF s + d < MaxTid THEN s + d ELSE s + d - MaxTid
        BY <2>1, <1>2, Ahead
  <2>. QED  BY <1>1, <1>2, <1>3, <2>1, <2>2, HalfFacts, Sizes DEF IsOld
<1>4. CASE n < w
  <2>1. PICK d \in 0 .. (MaxTid - 1) : w = n + d /\ d <= Half /\ d > 0
        BY <1>4, HalfFacts, Sizes
  <2>2. Seq12(n) = Seq12(q)
        BY <1>2, ModSmall
  <2>3. Seq12(w) = IF q + d < MaxTid THEN q + d ELSE q + d - MaxTid
        BY <2>1, <2>2, Ahead, Sizes
  <2>4. Seq12(s) = IF s < MaxTid THEN s ELSE s - MaxTid
        BY ModFacts, Sizes DEF Seq12
  <2>. QED  BY <1>1, <1>2, <1>4, <2>1, <2>3, <2>4, HalfFacts, Sizes DEF IsOld
<1>. QED  BY <1>3, <1>4

\* Outside is what the window does not reach; inside, the slot is the distance.
LEMMA OutsideOk ==
    ASSUME NEW w \in Nat, NEW s \in 0 .. MaxTid, Seq12(w) = Seq12(s),
           NEW d \in 0 .. (MaxTid - 1), WinSize > 1
    PROVE  /\ IsOutside(s, Seq12(w + d)) <=> d >= WinSize
           /\ d < WinSize => SlotOf(s, Seq12(w + d)) = d
<1>1. PICK q \in 0 .. (MaxTid - 1) : q = Seq12(w + d)
      BY ModRange DEF Seq12
<1>2. q = IF s + d < MaxTid THEN s + d ELSE s + d - MaxTid
      BY <1>1, Ahead
<1>3. EndWin(s) = IF s + WinSize - 1 < MaxTid THEN s + WinSize - 1 ELSE s + WinSize - 1 - MaxTid
  <2>1. PICK a \in 0 .. (2 * MaxTid - 1) : a = s + WinSize - 1
        BY Sizes
  <2>2. a % MaxTid = IF a < MaxTid THEN a ELSE a - MaxTid
        BY ModFacts
  <2>. QED  BY <2>1, <2>2, Sizes DEF EndWin
<1>4. SlotOf(s, q) = IF q >= s THEN q - s ELSE q + MaxTid - s
      BY DEF SlotOf
<1>. QED  BY <1>1, <1>2, <1>3, <1>4, Sizes DEF IsOutside

\* The window that ends at n starts WinSize - 1 before it.
LEMMA EndingOk ==
    ASSUME NEW v \in Nat
    PROVE  LET s == WindowEndingAt(Seq12(v + (WinSize - 1)))
           IN s \in 0 .. (MaxTid - 1) /\ Seq12(v) = Seq12(s)
<1>1. PICK q \in 0 .. (MaxTid - 1) : q = Seq12(v + (WinSize - 1))
      BY ModRange, Sizes DEF Seq12
<1>2. PICK x \in 0 .. (MaxTid - 1) : x = Seq12(v)
      BY ModRange DEF Seq12
<1>3. Seq12(x) = x
      BY ModSmall
<1>4. PICK d \in 0 .. (MaxTid - 1) : d = WinSize - 1
      BY Sizes
<1>5. q = IF x + d < MaxTid THEN x + d ELSE x + d - MaxTid
  <2>1. x \in 0 .. MaxTid /\ Seq12(v) = Seq12(x)
        BY <1>2, <1>3, Sizes
  <2>2. Seq12(v + d) = IF x + d < MaxTid THEN x + d ELSE x + d - MaxTid
        BY <2>1, Ahead
  <2>. QED  BY <1>1, <1>4, <2>2
<1>6. WindowEndingAt(q) = x
      BY <1>4, <1>5, Sizes DEF WindowEndingAt
<1>. QED  BY <1>1, <1>2, <1>3, <1>6

-----------------------------------------------------------------------------
(* The stages of a call: what they send up and what they keep *)

\* The table t has its window at number w of the stream (StartsAt, for a table
\* in the course of a call).
Reads(t, w) ==
    /\ w \in First .. (wo + WinSize)
    /\ Seq12(w) = Seq12(t.start_win)
    /\ \A i \in Window :
          t.slots[i] # Empty =>
              t.slots[i].num = w + i /\ w + i <= Last /\ w + i < wo + WinSize

\* A table in the course of a call, and where its window is.
Runs(t, w) == Shape(t) /\ InLine(t) /\ t.up \in Seq(Slots) /\ Reads(t, w)

\* What is sent up rises, from above hi to below b.
Rising(up, b) ==
    /\ hi < b
    /\ \A j \in Sent(up) :
          /\ hi < up[j].num /\ up[j].num < b
          /\ \A k \in Sent(up) : k < j => up[k].num < up[j].num

\* Where numbers do not wrap: the start of the window is its number in the
\* stream, and what is sent up lies before it.
Tidy(t, w) == t.start_win = w /\ w < MaxTid /\ Rising(t.up, w)

HeldNums(t) == {t.slots[i].num : i \in {j \in Window : t.slots[j] # Empty}}

\* Nothing that was held or on its way up gets lost.
Carries(t, r) ==
    /\ Numbers(t.up) \subseteq Numbers(r.up)
    /\ HeldNums(t) \subseteq HeldNums(r) \cup Numbers(r.up)

SameRest(r, t) ==
    /\ r.win = t.win /\ r.amsdu = t.amsdu /\ r.force_no_drop = t.force_no_drop
    /\ r.check_start_win = t.check_start_win
    /\ r.pkt_count = t.pkt_count /\ r.last_seq = t.last_seq

LEMMA CarriesTrans ==
    ASSUME NEW a, NEW b, NEW c, Carries(a, b), Carries(b, c)
    PROVE  Carries(a, c)
  BY DEF Carries

LEMMA CarriesSame ==
    ASSUME NEW a, NEW b, a.up = b.up, a.slots = b.slots
    PROVE  Carries(a, b)
  BY DEF Carries, HeldNums

\* The slots passed over are appended to up.
LEMMA ShiftUp ==
    ASSUME NEW t, Shape(t), t.up \in Seq(Slots), NEW k \in 0 .. WinSize, NEW s \in 0 .. MaxTid
    PROVE  LET up == Shift(t, k, s).up
           IN /\ up \in Seq(Slots)
              /\ DOMAIN up = 1 .. (Len(t.up) + k)
              /\ \A j \in 1 .. Len(t.up) : up[j] = t.up[j]
              /\ \A j \in 1 .. k : up[Len(t.up) + j] = t.slots[j - 1]
<1>. DEFINE P == [i \in 1 .. k |-> t.slots[i - 1]]
<1>1. t.slots \in [Window -> Slots]
      BY DEF Shape
<1>2. \A i \in 1 .. k : t.slots[i - 1] \in Slots
      BY <1>1, Sizes DEF Window
<1>3. P \in Seq(Slots) /\ Len(P) = k
      BY <1>2
<1>4. Shift(t, k, s).up = t.up \o P
      BY DEF Shift, Shape, Payloads
<1>5. t.up \o P \in Seq(Slots) /\ Len(t.up \o P) = Len(t.up) + k /\ Len(t.up) \in Nat
      BY <1>3
<1>6. \A j \in 1 .. Len(t.up) : (t.up \o P)[j] = t.up[j]
      BY <1>3
<1>7. \A j \in 1 .. k : (t.up \o P)[Len(t.up) + j] = P[j]
      BY <1>3
<1>. QED  BY <1>4, <1>5, <1>6, <1>7

LEMMA SlotNumbers ==
    ASSUME NEW p \in Slots
    PROVE  p.num \in -1 .. Last /\ (p.kind = "pkt" => p # Empty)
  BY DEF Slots, Empty

\* Sending up the first k slots and moving the window to v.
LEMMA ShiftMoves ==
    ASSUME NEW t, NEW w, Runs(t, w), NEW k \in 0 .. WinSize, NEW s \in 0 .. MaxTid, hi \in Int
    PROVE  LET r == Shift(t, k, s)
           IN /\ Shape(r) /\ r.up \in Seq(Slots) /\ r.start_win = s /\ SameRest(r, t)
              /\ Carries(t, r)
              /\ \A i \in Window : i < k /\ t.slots[i] # Empty => w + i \in Numbers(r.up)
              /\ Rising(t.up, w) => Rising(r.up, w + k)
<1>. DEFINE r == Shift(t, k, s)
<1>1. Shape(t) /\ t.up \in Seq(Slots) /\ t.slots \in [Window -> Slots] /\ w \in Nat
      BY StreamAssumption DEF Runs, Reads, Shape
<1>2. Shape(r) /\ r.start_win = s /\ r.slots = Rotated(t.slots, k)
      BY <1>1, ShiftShape
<1>3. SameRest(r, t)
      BY <1>1 DEF Shift, Shape, SameRest
<1>4. /\ r.up \in Seq(Slots)
      /\ DOMAIN r.up = 1 .. (Len(t.up) + k)
      /\ \A j \in 1 .. Len(t.up) : r.up[j] = t.up[j]
      /\ \A j \in 1 .. k : r.up[Len(t.up) + j] = t.slots[j - 1]
      BY <1>1, ShiftUp
<1>5. Len(t.up) \in Nat /\ DOMAIN t.up = 1 .. Len(t.up)
      BY <1>1
<1>. HIDE DEF r
<1>6. \A i \in Window : t.slots[i] # Empty => t.slots[i].num = w + i
      BY DEF Runs, Reads
<1>7. \A i \in Window : i < k => t.slots[i].num \in Numbers(r.up)
  <2>. SUFFICES ASSUME NEW i \in Window, i < k
                PROVE  t.slots[i].num \in Numbers(r.up)
       OBVIOUS
  <2>1. PICK j \in 1 .. k : j = i + 1
        BY Sizes DEF Window
  <2>2. r.up[Len(t.up) + j] = t.slots[j - 1]
        BY <1>4
  <2>4. j - 1 = i
        BY <2>1 DEF Window
  <2>3. Len(t.up) + j \in DOMAIN r.up
        BY <1>4, <1>5, <2>1
  <2>. QED  BY <2>2, <2>3, <2>4 DEF Numbers
<1>8. Carries(t, r)
  <2>1. Numbers(t.up) \subseteq Numbers(r.up)
        BY <1>4, <1>5, Sizes DEF Numbers
  <2>2. ASSUME NEW i \in Window, t.slots[i] # Empty
        PROVE  t.slots[i].num \in HeldNums(r) \cup Numbers(r.up)
    <3>1. CASE i < k
          BY <1>7, <3>1
    <3>2. CASE ~(i < k)
      <4>1. PICK j \in Window : j + k = i
            BY <3>2, Sizes DEF Window
      <4>2. r.slots[j] = t.slots[i]
        <5>1. r.slots[j] = IF j + k < WinSize THEN t.slots[j + k] ELSE Empty
              BY <1>2 DEF Rotated
        <5>. QED  BY <4>1, <5>1, Sizes DEF Window
      <4>. QED  BY <2>2, <4>2 DEF HeldNums
    <3>. QED  BY <3>1, <3>2
  <2>3. HeldNums(t) \subseteq HeldNums(r) \cup Numbers(r.up)
        BY <2>2 DEF HeldNums
  <2>. QED  BY <2>1, <2>3 DEF Carries
<1>9. ASSUME Rising(t.up, w) PROVE Rising(r.up, w + k)
  <2>1. ASSUME NEW j \in Sent(r.up), j <= Len(t.up)
        PROVE  j \in Sent(t.up) /\ r.up[j] = t.up[j] /\ hi < r.up[j].num /\ r.up[j].num < w
    <3>1. j \in 1 .. Len(t.up) /\ r.up[j] = t.up[j]
          BY <2>1, <1>4, <1>5 DEF Sent
    <3>. QED  BY <3>1, <2>1, <1>5, <1>9 DEF Sent, Rising
  <2>2. ASSUME NEW j \in Sent(r.up), j > Len(t.up)
        PROVE  r.up[j].num = w + (j - Len(t.up) - 1) /\ j <= Len(t.up) + k
    <3>1. PICK i \in 1 .. k : j = Len(t.up) + i
      <4>1. j \in 1 .. (Len(t.up) + k) /\ k \in Nat
            BY <1>4, Sizes DEF Sent
      <4>2. j - Len(t.up) \in 1 .. k /\ j = Len(t.up) + (j - Len(t.up))
            BY <2>2, <4>1, <1>5
      <4>. QED  BY <4>2
    <3>2. r.up[j] = t.slots[i - 1] /\ i - 1 \in Window
          BY <3>1, <1>4, Sizes DEF Window
    <3>3. t.slots[i - 1] # Empty
          BY <2>2, <3>2, <1>1, SlotNumbers DEF Sent
    <3>. QED  BY <1>6, <3>1, <3>2, <3>3, <1>5, <1>1, Sizes
  <2>3. hi < w /\ k \in Nat /\ hi < w + k
        BY <1>9, <1>1, Sizes DEF Rising
  <2>4. Sent(r.up) \subseteq Nat
        BY <1>4, <1>5, Sizes DEF Sent
  <2>5. ASSUME NEW j \in Sent(r.up)
        PROVE  hi < r.up[j].num /\ r.up[j].num < w + k /\ r.up[j].num \in Int
    <3>1. r.up[j].num \in Int
          BY <1>4, SlotNumbers, StreamAssumption DEF Sent
    <3>2. CASE j <= Len(t.up)
          BY <3>1, <3>2, <2>1, <2>3, <1>1
    <3>3. CASE ~(j <= Len(t.up))
      <4>1. j > Len(t.up)
            BY <3>3, <2>4, <1>5
      <4>. QED  BY <2>2, <4>1, <3>1, <2>3, <1>1, <2>4, <1>5
    <3>. QED  BY <3>2, <3>3
  <2>6. ASSUME NEW j \in Sent(r.up), NEW i \in Sent(r.up), i < j
        PROVE  r.up[i].num < r.up[j].num
    <3>1. CASE j <= Len(t.up)
      <4>1. i <= Len(t.up)
            BY <3>1, <2>6, <2>4, <1>5
      <4>. QED  BY <2>1, <3>1, <4>1, <2>6, <1>9 DEF Rising
    <3>2. CASE ~(j <= Len(t.up)) /\ i <= Len(t.up)
      <4>1. r.up[i].num < w
            BY <3>2, <2>1
      <4>2. r.up[j].num >= w
            BY <3>2, <2>2, <2>4, <1>5, <1>1
      <4>. QED  BY <4>1, <4>2, <2>5, <1>1
    <3>3. CASE ~(j <= Len(t.up)) /\ ~(i <= Len(t.up))
          BY <3>3, <2>2, <2>4, <2>6, <1>5, <1>1
    <3>. QED  BY <3>1, <3>2, <3>3
  <2>. QED  BY <2>3, <2>5, <2>6 DEF Rising
<1>. QED  BY <1>2, <1>3, <1>4, <1>6, <1>7, <1>8, <1>9 DEF r

LEMMA RisingWeaken ==
    ASSUME NEW up \in Seq(Slots), NEW b \in Int, NEW c \in Int, b <= c, hi \in Int, Rising(up, b)
    PROVE  Rising(up, c)
<1>1. \A j \in Sent(up) : up[j].num \in Int
      BY SlotNumbers, StreamAssumption DEF Sent
<1>. QED  BY <1>1 DEF Rising

\* A dispatch passes over the distance it moves, or over the whole window.
LEMMA DispatchShift ==
    ASSUME NEW t, Shape(t), NEW s \in 0 .. MaxTid
    PROVE  \E k \in 1 .. WinSize :
              /\ DispatchUntil(t, s) = Shift(t, k, s)
              /\ k = WinSize \/ k = s - t.start_win
              /\ s > t.start_win => k <= s - t.start_win
              /\ s <= t.start_win \/ s - t.start_win >= WinSize => k = WinSize
<1>. DEFINE k == IF s > t.start_win THEN Min({s - t.start_win, WinSize}) ELSE WinSize
<1>1. t.start_win \in 0 .. MaxTid
      BY DEF Shape
<1>2. DispatchUntil(t, s) = Shift(t, k, s)
      BY DEF DispatchUntil
<1>3. CASE s > t.start_win
  <2>1. {s - t.start_win, WinSize} \in SUBSET Nat
        BY <1>1, <1>3, Sizes
  <2>2. PICK m : m = Min({s - t.start_win, WinSize})
        OBVIOUS
  <2>3. m \in {s - t.start_win, WinSize} /\ \A y \in {s - t.start_win, WinSize} : m <= y
        BY <2>1, <2>2, MinNat
  <2>4. k = m
        BY <1>3, <2>2
  <2>5. /\ m \in 1 .. WinSize /\ (m = WinSize \/ m = s - t.start_win)
        /\ m <= s - t.start_win
        /\ s - t.start_win >= WinSize => m = WinSize
        BY <1>1, <1>3, <2>3, Sizes
  <2>. QED  BY <1>1, <1>2, <1>3, <2>4, <2>5
<1>4. CASE ~(s > t.start_win)
  <2>1. k = WinSize
        BY <1>4
  <2>. QED  BY <1>2, <1>4, <2>1, Sizes
<1>. QED  BY <1>3, <1>4

\* The window moves on, to number v of the stream.
LEMMA DispatchMoves ==
    ASSUME NEW t, NEW w, Runs(t, w), NEW s \in 0 .. MaxTid, wo \in Nat, hi \in Int,
           NEW v \in First .. (wo + WinSize), Seq12(v) = Seq12(s),
           v > w, v - w < MaxTid - WinSize
    PROVE  LET r == DispatchUntil(t, s)
           IN /\ Runs(r, v) /\ r.start_win = s /\ SameRest(r, t)
              /\ Carries(t, r)
              /\ \A i \in Window : w + i < v /\ t.slots[i] # Empty => w + i \in Numbers(r.up)
              /\ t.start_win = w /\ s = v /\ Rising(t.up, w) => Rising(r.up, v)
<1>1. PICK k \in 1 .. WinSize :
              /\ DispatchUntil(t, s) = Shift(t, k, s)
              /\ k = WinSize \/ k = s - t.start_win
              /\ s > t.start_win => k <= s - t.start_win
      BY DispatchShift DEF Runs
<1>. DEFINE r == Shift(t, k, s)
<1>2. /\ Shape(t) /\ t.up \in Seq(Slots) /\ t.slots \in [Window -> Slots] /\ w \in Nat
      /\ v \in Nat /\ t.start_win \in 0 .. MaxTid /\ k \in Nat /\ k \in 0 .. WinSize
  <2>1. Shape(t) /\ t.up \in Seq(Slots) /\ w \in First .. (wo + WinSize)
        BY DEF Runs, Reads
  <2>2. t.slots \in [Window -> Slots] /\ t.start_win \in 0 .. MaxTid
        BY <2>1 DEF Shape
  <2>. QED  BY <2>1, <2>2, StreamAssumption, Sizes
<1>3. /\ Shape(r) /\ r.up \in Seq(Slots) /\ r.start_win = s /\ SameRest(r, t)
      /\ Carries(t, r)
      /\ \A i \in Window : i < k /\ t.slots[i] # Empty => w + i \in Numbers(r.up)
      /\ Rising(t.up, w) => Rising(r.up, w + k)
      BY <1>2, ShiftMoves
<1>4. InLine(r)
      BY <1>1, <1>2, DispatchUntilOk DEF Runs
<1>5. r.slots = Rotated(t.slots, k)
      BY <1>2, ShiftShape
<1>. HIDE DEF r
<1>6. \A i \in Window : r.slots[i] = IF i + k < WinSize THEN t.slots[i + k] ELSE Empty
      BY <1>5 DEF Rotated
<1>7. k = WinSize \/ v = w + k
  <2>. SUFFICES ASSUME k = s - t.start_win PROVE v = w + k
       BY <1>1
  <2>1. t.start_win + k = s
        BY <1>2
  <2>3. Seq12(w + k) = Seq12(t.start_win + k)
    <3>1. Seq12(w) = Seq12(t.start_win) /\ t.start_win \in Nat
          BY <1>2 DEF Runs, Reads
    <3>. QED  BY <1>2, <3>1, ModShift
  <2>2. w + k \in Nat /\ v - (w + k) < MaxTid /\ (w + k) - v < MaxTid
        BY <1>2, Sizes
  <2>. QED  BY <2>1, <2>2, <2>3, <1>2, ModSame
<1>8. Reads(r, v)
  <2>1. ASSUME NEW i \in Window, r.slots[i] # Empty
        PROVE  r.slots[i].num = v + i /\ v + i <= Last /\ v + i < wo + WinSize
    <3>1. i + k < WinSize /\ r.slots[i] = t.slots[i + k]
          BY <1>6, <2>1
    <3>2. i + k \in Window /\ v = w + k
          BY <3>1, <1>2, <1>7, Sizes DEF Window
    <3>3. /\ t.slots[i + k].num = w + (i + k) /\ w + (i + k) <= Last
          /\ w + (i + k) < wo + WinSize
          BY <2>1, <3>1, <3>2 DEF Runs, Reads
    <3>4. w + (i + k) = v + i
          BY <3>2, <1>2 DEF Window
    <3>. QED  BY <3>1, <3>3, <3>4
  <2>. QED  BY <2>1, <1>3 DEF Reads
<1>9. \A i \in Window : w + i < v /\ t.slots[i] # Empty => w + i \in Numbers(r.up)
      BY <1>3, <1>7, <1>2 DEF Window
<1>10. t.start_win = w /\ s = v /\ Rising(t.up, w) => Rising(r.up, v)
  <2>. SUFFICES ASSUME t.start_win = w, s = v, Rising(t.up, w) PROVE Rising(r.up, v)
       OBVIOUS
  <2>1. w + k <= v /\ w + k \in Int
        BY <1>1, <1>2
  <2>. QED  BY <2>1, <1>2, <1>3, RisingWeaken
<1>. QED  BY <1>1, <1>3, <1>4, <1>8, <1>9, <1>10 DEF Runs, r

\* The window moves to its first hole: that is not before the window, and its
\* predecessor is on its way up if it is after it.
LEMMA ScanMoves ==
    ASSUME NEW t, NEW w, Runs(t, w), wo \in Nat, hi \in Int
    PROVE  LET r == ScanAndDispatch(t)
           IN \E v \in First .. (wo + WinSize) :
              /\ Runs(r, v) /\ SameRest(r, t) /\ Carries(t, r)
              /\ v = w \/ v - 1 \in Numbers(r.up)
              /\ t.slots[0] # Empty => v # w
              /\ Straight /\ Tidy(t, w) => Tidy(r, v)
<1>. DEFINE H == {i \in Window : t.slots[i] = Empty} \cup {WinSize}
            k == Min(H)
            r == Shift(t, k, (t.start_win + k) % MaxTid)
<1>1. /\ Shape(t) /\ InLine(t) /\ t.up \in Seq(Slots) /\ t.slots \in [Window -> Slots] /\ w \in Nat
      /\ t.start_win \in 0 .. MaxTid
      BY StreamAssumption DEF Runs, Reads, Shape
<1>2. k \in H /\ \A i \in H : k <= i
  <2>1. H \in SUBSET Nat /\ H # {}
        BY Sizes DEF Window
  <2>. QED  BY <2>1, MinNat
<1>. HIDE DEF k
<1>3. k \in 0 .. WinSize /\ (\A i \in Window : i < k => t.slots[i] # Empty)
  <2>1. k \in 0 .. WinSize
        BY <1>2, Sizes DEF Window
  <2>2. ASSUME NEW i \in Window, i < k PROVE t.slots[i] # Empty
        BY <2>1, <2>2, <1>2, Sizes DEF Window
  <2>. QED  BY <2>1, <2>2
<1>4. (t.start_win + k) % MaxTid \in 0 .. MaxTid
  <2>1. PICK a \in Nat : a = t.start_win + k
        BY <1>1, <1>3, Sizes
  <2>2. a % MaxTid \in 0 .. (MaxTid - 1)
        BY ModRange
  <2>. QED  BY <2>1, <2>2, Sizes
<1>5. /\ Shape(r) /\ r.up \in Seq(Slots) /\ r.start_win = (t.start_win + k) % MaxTid
      /\ SameRest(r, t) /\ Carries(t, r)
      /\ \A i \in Window : i < k /\ t.slots[i] # Empty => w + i \in Numbers(r.up)
      /\ Rising(t.up, w) => Rising(r.up, w + k)
      BY <1>3, <1>4, ShiftMoves
<1>6. ScanAndDispatch(t) = r /\ r.slots = Rotated(t.slots, k)
      BY <1>1, <1>3, <1>4, ShiftShape DEF ScanAndDispatch, r, k
<1>7. InLine(r)
      BY <1>1, <1>6, ScanOk
<1>. HIDE DEF r
<1>8. \A i \in Window : r.slots[i] = IF i + k < WinSize THEN t.slots[i + k] ELSE Empty
      BY <1>6 DEF Rotated
<1>9. PICK v \in Nat : v = w + k
      BY <1>1, <1>3, Sizes
<1>10. k # 0 => /\ k - 1 \in Window /\ t.slots[k - 1] # Empty
                /\ v - 1 = w + (k - 1) /\ v - 1 <= Last /\ v - 1 < wo + WinSize
                /\ v - 1 \in Numbers(r.up)
  <2>. SUFFICES ASSUME k # 0
                PROVE  /\ k - 1 \in Window /\ t.slots[k - 1] # Empty
                       /\ v - 1 = w + (k - 1) /\ v - 1 <= Last /\ v - 1 < wo + WinSize
                       /\ v - 1 \in Numbers(r.up)
       OBVIOUS
  <2>1. k - 1 \in Window /\ k - 1 < k
        BY <1>3, Sizes DEF Window
  <2>2. t.slots[k - 1] # Empty
        BY <2>1, <1>3
  <2>3. v - 1 = w + (k - 1)
        BY <1>9, <1>3, <1>1
  <2>4. w + (k - 1) \in Numbers(r.up)
        BY <2>1, <2>2, <1>5
  <2>5. w + (k - 1) <= Last /\ w + (k - 1) < wo + WinSize
        BY <2>1, <2>2 DEF Runs, Reads
  <2>. QED  BY <2>1, <2>2, <2>3, <2>4, <2>5
<1>11. v \in First .. (wo + WinSize)
  <2>1. w \in First .. (wo + WinSize)
        BY DEF Runs, Reads
  <2>2. CASE k = 0
        BY <2>1, <2>2, <1>9, <1>1
  <2>3. CASE k # 0
        BY <2>1, <2>3, <1>3, <1>9, <1>10, Sizes, StreamAssumption
  <2>. QED  BY <2>2, <2>3
<1>12. Seq12(v) = Seq12(r.start_win)
  <2>1. Seq12(w + k) = Seq12(t.start_win + k)
        BY <1>1, <1>3, ModShift DEF Runs, Reads
  <2>2. PICK a \in 0 .. (MaxTid - 1) : a = Seq12(t.start_win + k)
        BY <1>1, <1>3, ModRange, Sizes DEF Seq12
  <2>3. r.start_win = a /\ Seq12(a) = a
        BY <1>5, <2>2, ModSmall DEF Seq12
  <2>. QED  BY <2>1, <2>2, <2>3, <1>9
<1>13. Reads(r, v)
  <2>1. ASSUME NEW i \in Window, r.slots[i] # Empty
        PROVE  r.slots[i].num = v + i /\ v + i <= Last /\ v + i < wo + WinSize
    <3>1. i + k < WinSize /\ r.slots[i] = t.slots[i + k]
          BY <1>8, <2>1
    <3>2. i + k \in Window /\ w + (i + k) = v + i
          BY <3>1, <1>1, <1>3, <1>9, Sizes DEF Window
    <3>3. /\ t.slots[i + k].num = w + (i + k) /\ w + (i + k) <= Last
          /\ w + (i + k) < wo + WinSize
          BY <2>1, <3>1, <3>2 DEF Runs, Reads
    <3>. QED  BY <3>1, <3>2, <3>3
  <2>. QED  BY <2>1, <1>11, <1>12 DEF Reads
<1>14. t.slots[0] # Empty => k # 0
      BY <1>2, Sizes DEF Window
<1>15. Straight /\ Tidy(t, w) => Tidy(r, v)
  <2>. SUFFICES ASSUME Straight, t.start_win = w, w < MaxTid, Rising(t.up, w)
                PROVE  r.start_win = v /\ v < MaxTid /\ Rising(r.up, v)
       BY DEF Tidy
  <2>1. v < MaxTid
        BY <1>9, <1>10, <1>1, <1>3, Sizes, StreamAssumption DEF Straight
  <2>2. v % MaxTid = v
        BY <2>1, ModSmall, Sizes DEF Seq12
  <2>. QED  BY <2>1, <2>2, <1>5, <1>9
<1>16. v = w \/ v - 1 \in Numbers(r.up)
      BY <1>9, <1>10, <1>1
<1>17. k # 0 => v # w
      BY <1>9, <1>1, <1>3
<1>. QED  BY <1>5, <1>6, <1>7, <1>11, <1>13, <1>14, <1>15, <1>16, <1>17 DEF Runs

\* A flush moves the window past all it holds, and sends it up.
LEMMA FlushMoves ==
    ASSUME NEW t, NEW w, Runs(t, w), wo \in Nat, hi \in Int
    PROVE  LET r == Flushed(t)
           IN \E v \in First .. (wo + WinSize) :
              /\ Runs(r, v) /\ SameRest(r, t) /\ Carries(t, r)
              /\ v = w \/ v - 1 \in Numbers(r.up)
              /\ NothingHeld(t) =>
                    v = w /\ r.up = t.up /\ r.slots = t.slots /\ r.start_win = t.start_win
              /\ Straight /\ Tidy(t, w) => Tidy(r, v)
<1>1. /\ Shape(t) /\ InLine(t) /\ t.up \in Seq(Slots) /\ t.slots \in [Window -> Slots]
      /\ w \in First .. (wo + WinSize) /\ w \in Nat /\ t.start_win \in 0 .. MaxTid
      BY StreamAssumption DEF Runs, Reads, Shape
<1>2. CASE ~t.flush_data
  <2>1. Flushed(t) = t
        BY <1>2 DEF Flushed
  <2>2. Carries(t, t) /\ SameRest(t, t)
        BY CarriesSame DEF SameRest
  <2>. QED  BY <1>1, <2>1, <2>2
<1>3. CASE t.flush_data
  <2>. DEFINE u == [t EXCEPT !.flush_data = FALSE]
              held == {i \in Window : u.slots[i] # Empty}
  <2>1. Shape(u) /\ u.slots = t.slots /\ u.up = t.up /\ u.start_win = t.start_win /\ SameRest(u, t)
        BY <1>1 DEF Shape, SameRest
  <2>2. Flushed(t) = StartFlush(u)
        BY <1>3 DEF Flushed
  <2>. HIDE DEF u
  <2>3. Runs(u, w)
        BY <2>1, <1>1 DEF Runs, Reads, InLine
  <2>4. Carries(t, u)
        BY <2>1, CarriesSame
  <2>5. CASE held = {}
    <3>1. StartFlush(u) = u
          BY <2>5 DEF StartFlush
    <3>2. Tidy(t, w) => Tidy(u, w)
          BY <2>1 DEF Tidy
    <3>. QED  BY <1>1, <2>1, <2>2, <2>3, <2>4, <3>1, <3>2
  <2>6. CASE held # {}
    <3>1. PICK m \in held : m = Max(held) /\ \A i \in held : m >= i
          BY <2>6, MaxWindow
    <3>2. m \in Window /\ m \in 0 .. (WinSize - 1) /\ t.slots[m] # Empty
          BY <2>1, <3>1 DEF Window
    <3>3. w + m <= Last /\ w + m < wo + WinSize
          BY <3>2 DEF Runs, Reads
    <3>4. PICK v \in First .. (wo + WinSize) : v = w + m + 1
          BY <1>1, <3>2, <3>3, Sizes, StreamAssumption
    <3>5. PICK a \in Nat : a = t.start_win + m + 1
          BY <1>1, <3>2, Sizes
    <3>6. PICK s \in 0 .. (MaxTid - 1) : s = a % MaxTid
          BY ModRange
    <3>7. StartFlush(u) = DispatchUntil(u, s)
          BY <2>1, <2>6, <3>1, <3>5, <3>6 DEF StartFlush
    <3>8. Seq12(v) = Seq12(s)
      <4>1. PICK c \in Nat : c = m + 1
            BY <3>2, Sizes
      <4>2. Seq12(w) = Seq12(t.start_win) /\ t.start_win \in Nat
            BY <1>1 DEF Runs, Reads
      <4>3. Seq12(w + c) = Seq12(t.start_win + c)
            BY <1>1, <4>1, <4>2, ModShift
      <4>4. v = w + c /\ a = t.start_win + c
            BY <1>1, <3>2, <3>4, <3>5, <4>1, Sizes
      <4>5. Seq12(s) = s
            BY ModSmall
      <4>. QED  BY <4>3, <4>4, <4>5, <3>6 DEF Seq12
    <3>. DEFINE r == DispatchUntil(u, s)
    <3>9. v > w /\ v - w < MaxTid - WinSize
          BY <1>1, <3>2, <3>4, Sizes
    <3>10. s \in 0 .. MaxTid
          BY Sizes
    <3>11. /\ Runs(r, v) /\ r.start_win = s /\ SameRest(r, u)
           /\ Carries(u, r)
           /\ \A i \in Window : w + i < v /\ u.slots[i] # Empty => w + i \in Numbers(r.up)
           /\ u.start_win = w /\ s = v /\ Rising(u.up, w) => Rising(r.up, v)
          BY <2>3, <3>8, <3>9, <3>10, DispatchMoves
    <3>. HIDE DEF r
    <3>12. v - 1 \in Numbers(r.up)
      <4>1. w + m < v /\ w + m = v - 1
            BY <1>1, <3>2, <3>4
      <4>. QED  BY <4>1, <2>1, <3>2, <3>11
    <3>13. Carries(t, r) /\ SameRest(r, t)
          BY <2>1, <2>4, <3>11, CarriesTrans DEF SameRest
    <3>14. ~NothingHeld(t)
          BY <3>2 DEF NothingHeld
    <3>15. Straight /\ Tidy(t, w) => Tidy(r, v)
      <4>. SUFFICES ASSUME Straight, Tidy(t, w) PROVE Tidy(r, v)
           OBVIOUS
      <4>1. v < MaxTid
            BY <3>3, <3>4, <1>1, <3>2, StreamAssumption, Sizes DEF Straight
      <4>2. v \in 0 .. (MaxTid - 1)
            BY <4>1, StreamAssumption, Sizes
      <4>3. s = v
            BY <3>8, <4>2, ModSmall
      <4>. QED  BY <4>1, <4>3, <3>11, <2>1 DEF Tidy
    <3>. QED  BY <2>2, <3>7, <3>11, <3>12, <3>13, <3>14, <3>15 DEF r
  <2>. QED  BY <2>5, <2>6
<1>. QED  BY <1>2, <1>3

\* The window covers number n afterwards, and n's slot is its distance from the
\* start.  A window that had to be moved does not pass the transmitter.
LEMMA CoverMoves ==
    ASSUME NEW t, NEW w, Runs(t, w), WinSize > 1, wo \in First .. Last, hi \in Int,
           NEW n \in Nat, w <= n, n - w < MaxTid - 1, n < wo + WinSize
    PROVE  LET r == Covering(t, Seq12(n))
           IN \E v \in First .. (wo + WinSize) :
              /\ Runs(r, v) /\ SameRest(r, t) /\ Carries(t, r)
              /\ v = w \/ v <= wo
              /\ n - v \in Window
              /\ SlotOf(r.start_win, Seq12(n)) = n - v
              /\ Straight /\ Tidy(t, w) => Tidy(r, v)
<1>1. /\ Shape(t) /\ w \in First .. (wo + WinSize) /\ w \in Nat /\ t.start_win \in 0 .. MaxTid
      /\ Seq12(w) = Seq12(t.start_win) /\ wo \in Nat
      BY StreamAssumption DEF Runs, Reads, Shape
<1>2. PICK d \in 0 .. (MaxTid - 1) : d = n - w /\ n = w + d
      BY <1>1, Sizes
<1>3. /\ IsOutside(t.start_win, Seq12(n)) <=> d >= WinSize
      /\ d < WinSize => SlotOf(t.start_win, Seq12(n)) = d
      BY <1>1, <1>2, OutsideOk
<1>4. CASE d < WinSize
  <2>1. Covering(t, Seq12(n)) = t
        BY <1>3, <1>4, Sizes DEF Covering
  <2>2. Carries(t, t) /\ SameRest(t, t)
        BY CarriesSame DEF SameRest
  <2>3. n - w \in Window
        BY <1>2, <1>4, Sizes DEF Window
  <2>. QED  BY <1>1, <1>2, <1>3, <1>4, <2>1, <2>2, <2>3
<1>5. CASE ~(d < WinSize)
  <2>1. PICK v \in Nat : v = n - (WinSize - 1)
        BY <1>1, <1>2, <1>5, Sizes
  <2>2. v > w /\ v <= wo /\ v - w < MaxTid - WinSize /\ v \in First .. (wo + WinSize)
        BY <1>1, <1>2, <1>5, <2>1, Sizes, StreamAssumption
  <2>3. n = v + (WinSize - 1)
        BY <2>1, Sizes
  <2>4. PICK s \in 0 .. (MaxTid - 1) : s = WindowEndingAt(Seq12(n)) /\ Seq12(v) = Seq12(s)
        BY <2>3, EndingOk
  <2>. DEFINE r == DispatchUntil(t, s)
  <2>5. Covering(t, Seq12(n)) = r
    <3>1. d >= WinSize
          BY <1>5, Sizes
    <3>. QED  BY <1>3, <3>1, <2>4 DEF Covering
  <2>6. s \in 0 .. MaxTid
        BY Sizes
  <2>7. /\ Runs(r, v) /\ r.start_win = s /\ SameRest(r, t)
        /\ Carries(t, r)
        /\ t.start_win = w /\ s = v /\ Rising(t.up, w) => Rising(r.up, v)
        BY <1>1, <2>2, <2>4, <2>6, DispatchMoves
  <2>. HIDE DEF r
  <2>8. n - v = WinSize - 1 /\ n - v \in Window
        BY <2>3, Sizes DEF Window
  <2>9. SlotOf(r.start_win, Seq12(n)) = n - v
    <3>1. PICK c \in 0 .. (MaxTid - 1) : c = WinSize - 1
          BY Sizes
    <3>2. c < WinSize /\ n = v + c
          BY <2>3, <3>1, Sizes
    <3>3. SlotOf(s, Seq12(v + c)) = c
          BY <3>2, <2>4, <2>6, OutsideOk
    <3>. QED  BY <3>1, <3>2, <3>3, <2>7, <2>8
  <2>10. Straight /\ Tidy(t, w) => Tidy(r, v)
    <3>. SUFFICES ASSUME Straight, Tidy(t, w) PROVE Tidy(r, v)
         OBVIOUS
    <3>1. v < MaxTid
          BY <2>2, <1>1, StreamAssumption, Sizes DEF Straight
    <3>2. v \in 0 .. (MaxTid - 1)
          BY <3>1, StreamAssumption, Sizes
    <3>3. s = v
          BY <2>4, <3>2, ModSmall
    <3>. QED  BY <3>1, <3>3, <2>7 DEF Tidy
  <2>. QED  BY <2>2, <2>5, <2>7, <2>8, <2>9, <2>10
<1>. QED  BY <1>4, <1>5

\* The doubt about the start ends: the window is where it was, or follows the
\* last packet, number l, that was forwarded.
LEMMA StartMoves ==
    ASSUME NEW t, NEW w, Runs(t, w), Good(t), NEW seq \in 0 .. (MaxTid - 1), wo \in Nat,
           NEW l \in First .. Last, t.check_start_win /\ t.last_seq # DefaultSeq => NumberOf(l, t.last_seq)
    PROVE  LET r == StartChecked(t, seq)
           IN /\ r.up = t.up /\ r.slots = t.slots /\ r.force_no_drop = t.force_no_drop
              /\ \/ Runs(r, w) /\ r.start_win = t.start_win
                 \/ /\ t.check_start_win /\ t.last_seq # DefaultSeq /\ seq # t.start_win
                    /\ Runs(r, l + 1) /\ r.start_win = t.last_seq + 1
              /\ ~t.check_start_win => r = t
<1>. DEFINE r == StartChecked(t, seq)
<1>1. /\ Shape(t) /\ w \in Nat /\ t.start_win \in 0 .. MaxTid
      BY StreamAssumption DEF Runs, Reads, Shape
<1>2. Good(r)
      BY StartCheckedOk
<1>3. CASE ~t.check_start_win
  <2>1. r = t
        BY <1>3 DEF StartChecked
  <2>. QED  BY <2>1
<1>4. CASE t.check_start_win
  <2>1. PICK s :
          /\ r = [t EXCEPT !.check_start_win = FALSE, !.pkt_count = 0, !.last_seq = DefaultSeq,
                           !.start_win = s]
          /\ \/ s = t.start_win
             \/ s = t.last_seq + 1 /\ t.last_seq # DefaultSeq /\ seq # t.start_win
        BY <1>4 DEF StartChecked
  <2>. HIDE DEF r
  <2>2. r.up = t.up /\ r.slots = t.slots /\ r.force_no_drop = t.force_no_drop /\ r.start_win = s
        BY <1>1, <2>1 DEF Shape
  <2>3. Shape(r) /\ InLine(r) /\ r.up \in Seq(Slots)
        BY <1>2, <2>2 DEF Good, Runs
  <2>4. NothingHeld(r)
        BY <1>4, <2>2 DEF Good, NothingHeld
  <2>5. CASE s = t.start_win
    <3>1. Reads(r, w)
          BY <2>2, <2>5 DEF Runs, Reads
    <3>. QED  BY <1>4, <2>2, <2>3, <2>5, <3>1 DEF Runs, r
  <2>6. CASE s = t.last_seq + 1 /\ t.last_seq # DefaultSeq /\ seq # t.start_win
    <3>1. NumberOf(l, t.last_seq)
          BY <1>4, <2>6
    <3>2. PICK x \in 0 .. (MaxTid - 1) : x = t.last_seq /\ x = Seq12(l) /\ Seq12(x) = x
          BY <3>1, ModRange, ModSmall, StreamAssumption DEF NumberOf, Seq12
    <3>3. Seq12(l + 1) = Seq12(x + 1)
      <4>1. l \in Nat /\ x \in Nat /\ Seq12(l) = Seq12(x)
            BY <3>2, StreamAssumption
      <4>. QED  BY <4>1, ModShift
    <3>4. l + 1 \in First .. (wo + WinSize)
          BY <3>1, StreamAssumption, Sizes DEF NumberOf
    <3>5. Reads(r, l + 1)
          BY <2>2, <2>4, <2>6, <3>2, <3>3, <3>4 DEF Reads, NothingHeld
    <3>. QED  BY <1>4, <2>2, <2>3, <2>6, <3>5 DEF Runs, r
  <2>. QED  BY <2>1, <2>5, <2>6
<1>. QED  BY <1>3, <1>4

\* A packet is put into its slot.
LEMMA PlaceMoves ==
    ASSUME NEW t, NEW w, Runs(t, w), wo \in Nat, NEW p \in Slots, p # Empty, NEW at \in Window,
           p.num = w + at, p.num < wo + WinSize, t.slots[at] = Empty
    PROVE  LET r == [t EXCEPT !.slots[at] = p]
           IN /\ Runs(r, w) /\ SameRest(r, t) /\ Carries(t, r)
              /\ r.up = t.up /\ r.start_win = t.start_win
              /\ r.slots[at] = p /\ p.num \in HeldNums(r)
<1>. DEFINE r == [t EXCEPT !.slots[at] = p]
<1>1. Shape(t) /\ w \in Nat /\ t.start_win \in 0 .. MaxTid /\ t.slots \in [Window -> Slots]
      BY StreamAssumption DEF Runs, Reads, Shape
<1>2. Shape(r) /\ SameRest(r, t) /\ r.start_win = t.start_win /\ r.up = t.up
      BY <1>1 DEF Shape, SameRest
<1>3. r.slots[at] = p /\ \A i \in Window : r.slots[i] = IF i = at THEN p ELSE t.slots[i]
      BY <1>1 DEF Shape
<1>. HIDE DEF r
<1>4. Reads(r, w)
  <2>1. p.num <= Last
        BY SlotNumbers, StreamAssumption
  <2>. QED  BY <1>2, <1>3, <2>1 DEF Runs, Reads
<1>5. InLine(r)
  <2>1. Seq12(w + at) = Seq12(t.start_win + at)
    <3>1. at \in Nat /\ t.start_win \in Nat /\ Seq12(w) = Seq12(t.start_win)
          BY <1>1, Sizes DEF Window, Runs, Reads
    <3>. QED  BY <1>1, <3>1, ModShift
  <2>. QED  BY <1>2, <1>3, <2>1 DEF Runs, InLine, Seq12
<1>6. Carries(t, r)
  <2>1. \A i \in Window : t.slots[i] # Empty => r.slots[i] = t.slots[i]
        BY <1>3
  <2>. QED  BY <1>2, <2>1 DEF Carries, HeldNums
<1>7. p.num \in HeldNums(r)
      BY <1>3 DEF HeldNums
<1>. QED  BY <1>2, <1>3, <1>4, <1>5, <1>6, <1>7 DEF Runs, r

\* An agreement that ends sends all it holds up, in order.
LEMMA CloseMoves ==
    ASSUME NEW t, NEW w, Runs(t, w), wo \in Nat, hi \in Int
    PROVE  LET r == DispatchUntil(t, (t.start_win + WinSize) % MaxTid)
           IN /\ r.up \in Seq(Slots)
              /\ HeldNums(t) \subseteq Numbers(r.up) /\ Numbers(t.up) \subseteq Numbers(r.up)
              /\ Rising(t.up, w) => Rising(r.up, w + WinSize)
              /\ Shape(r) /\ NothingHeld(r) /\ SameRest(r, t)
<1>1. /\ Shape(t) /\ InLine(t) /\ t.start_win \in 0 .. MaxTid /\ w \in Nat
      BY StreamAssumption DEF Runs, Reads, Shape
<1>2. PICK a \in 0 .. (2 * MaxTid - 1) : a = t.start_win + WinSize
      BY <1>1, Sizes
<1>3. PICK s \in 0 .. MaxTid : s = a % MaxTid
      BY <1>2, ModRange, Sizes
<1>4. s = IF a < MaxTid THEN a ELSE a - MaxTid
      BY <1>3, ModFacts
<1>5. s <= t.start_win \/ s - t.start_win >= WinSize
      BY <1>1, <1>2, <1>4, Sizes
<1>6. DispatchUntil(t, s) = Shift(t, WinSize, s)
      BY <1>1, <1>5, DispatchShift
<1>. DEFINE r == Shift(t, WinSize, s)
<1>7. WinSize \in 0 .. WinSize
      BY Sizes
<1>8. /\ Shape(r) /\ r.up \in Seq(Slots) /\ SameRest(r, t) /\ Carries(t, r)
      /\ \A i \in Window : i < WinSize /\ t.slots[i] # Empty => w + i \in Numbers(r.up)
      /\ Rising(t.up, w) => Rising(r.up, w + WinSize)
      BY <1>7, ShiftMoves
<1>9. NothingHeld(r)
      BY <1>1, <1>5, <1>6, DispatchUntilOk
<1>10. HeldNums(t) \subseteq Numbers(r.up)
      BY <1>8, <1>9 DEF Carries, HeldNums, NothingHeld
<1>. QED  BY <1>2, <1>3, <1>6, <1>8, <1>9, <1>10 DEF Carries

-----------------------------------------------------------------------------
(* A call *)

\* Number n comes in: a packet in flight, or a block-ack request for it.
Incoming(n, type, payload) ==
    IF type = "BAR" THEN n = wo
    ELSE n \in InFlight /\ payload \in Slots /\ payload # Empty /\ payload.num = n

\* The part of a call that keeps order, from a window at number w: what lies
\* before it is dropped; else the window comes to cover n, at w3, and a packet
\* that is not a copy takes its place, from where the scan leaves it at w5.
OrderedPart(t2, w, n, type, payload) ==
    LET seq == Seq12(n)
        last == IF type = "BAR" THEN (seq + WinSize - 1) % MaxTid ELSE seq
        t3 == Covering(t2, last)
        at == SlotOf(t3.start_win, last)
        t4 == IF type = "BAR" THEN t3 ELSE [t3 EXCEPT !.slots[at] = payload]
        t5 == ScanAndDispatch(t4)
    IN /\ IsOld(t2.start_win, seq) <=> n < w
       /\ w <= n =>
          \E w3 \in First .. (wo + WinSize) :
            /\ Runs(t3, w3) /\ SameRest(t3, t2) /\ Carries(t2, t3)
            /\ w3 = w \/ w3 <= wo
            /\ Straight /\ Tidy(t2, w) => Tidy(t3, w3)
            /\ type # "BAR" /\ t3.slots[at] # Empty => n \in HeldNums(t3)
            /\ type = "BAR" \/ t3.slots[at] = Empty =>
               \E w5 \in First .. (wo + WinSize) :
                 /\ Runs(t5, w5) /\ SameRest(t5, t2) /\ Carries(t2, t5)
                 /\ t5.slots[0] = Empty
                 /\ w5 = w3 \/ w5 - 1 \in Numbers(t5.up)
                 /\ type # "BAR" /\ w3 = n => w5 # w3
                 /\ type # "BAR" => n \in HeldNums(t5) \cup Numbers(t5.up)
                 /\ Straight /\ Tidy(t2, w) => Tidy(t5, w5)

LEMMA OrderedCall ==
    ASSUME NEW t2, NEW w, Runs(t2, w), WinSize > 1, wo \in First .. Last, hi \in Int,
           NEW n, NEW type, NEW payload, Incoming(n, type, payload)
    PROVE  OrderedPart(t2, w, n, type, payload)
<1>. DEFINE seq == Seq12(n)
            last == IF type = "BAR" THEN (seq + WinSize - 1) % MaxTid ELSE seq
            t3 == Covering(t2, last)
            at == SlotOf(t3.start_win, last)
            t4 == IF type = "BAR" THEN t3 ELSE [t3 EXCEPT !.slots[at] = payload]
            t5 == ScanAndDispatch(t4)
<1>1. /\ w \in First .. (wo + WinSize) /\ w \in Nat /\ t2.start_win \in 0 .. MaxTid
      /\ Seq12(w) = Seq12(t2.start_win) /\ wo \in Nat
      BY StreamAssumption DEF Runs, Reads, Shape
<1>2. n \in Nat /\ n \in wo .. (wo + WinSize - 1) /\ n <= Last
      BY <1>1, Sizes, StreamAssumption DEF Incoming, InFlight
<1>3. n - w < Half /\ w - n <= Half
      BY <1>1, <1>2, HalfFacts, StreamAssumption, Sizes
<1>4. IsOld(t2.start_win, seq) <=> n < w
      BY <1>1, <1>2, <1>3, OldOk
<1>5. ASSUME w <= n
      PROVE  \E w3 \in First .. (wo + WinSize) :
                   /\ Runs(t3, w3) /\ SameRest(t3, t2) /\ Carries(t2, t3)
                   /\ w3 = w \/ w3 <= wo
                   /\ Straight /\ Tidy(t2, w) => Tidy(t3, w3)
                   /\ type # "BAR" /\ t3.slots[at] # Empty => n \in HeldNums(t3)
                   /\ type = "BAR" \/ t3.slots[at] = Empty =>
                      \E w5 \in First .. (wo + WinSize) :
                        /\ Runs(t5, w5) /\ SameRest(t5, t2) /\ Carries(t2, t5)
                        /\ t5.slots[0] = Empty
                        /\ w5 = w3 \/ w5 - 1 \in Numbers(t5.up)
                        /\ type # "BAR" /\ w3 = n => w5 # w3
                        /\ type # "BAR" => n \in HeldNums(t5) \cup Numbers(t5.up)
                        /\ Straight /\ Tidy(t2, w) => Tidy(t5, w5)
  <2>1. PICK m \in Nat : /\ last = Seq12(m)
                         /\ w <= m /\ m - w < MaxTid - 1 /\ m < wo + WinSize
                         /\ type # "BAR" => m = n
    <3>1. CASE type = "BAR"
      <4>1. PICK c \in Nat : c = WinSize - 1
            BY Sizes
      <4>2. PICK q \in 0 .. (MaxTid - 1) : q = Seq12(n) /\ Seq12(q) = q
            BY <1>2, ModRange, ModSmall DEF Seq12
      <4>3. Seq12(n + c) = Seq12(q + c)
        <5>1. q \in Nat /\ Seq12(n) = Seq12(q)
              BY <4>2
        <5>. QED  BY <5>1, <1>2, ModShift
      <4>4. seq + WinSize - 1 = q + c
            BY <4>1, <4>2, Sizes
      <4>5. last = Seq12(n + c)
            BY <3>1, <4>3, <4>4 DEF Seq12
      <4>6. n = wo
            BY <3>1 DEF Incoming
      <4>7. n + c \in Nat /\ w <= n + c /\ n + c - w < MaxTid - 1 /\ n + c < wo + WinSize
            BY <1>1, <1>2, <1>3, <1>5, <4>1, <4>6, HalfFacts, Sizes
      <4>8. PICK x \in Nat : x = n + c
            BY <4>7
      <4>9. last = Seq12(x)
            BY <4>5, <4>8
      <4>10. w <= x /\ x - w < MaxTid - 1 /\ x < wo + WinSize
            BY <4>7, <4>8, <1>1, <1>2, Sizes
      <4>. HIDE DEF last
      <4>. QED  BY <3>1, <4>9, <4>10
    <3>2. CASE type # "BAR"
      <4>1. n - w < MaxTid - 1 /\ n < wo + WinSize
            BY <1>1, <1>2, <1>3, HalfFacts, Sizes
      <4>. QED  BY <3>2, <4>1, <1>2, <1>5
    <3>. QED  BY <3>1, <3>2
  <2>. HIDE DEF last
  <2>2. PICK w3 \in First .. (wo + WinSize) :
              /\ Runs(t3, w3) /\ SameRest(t3, t2) /\ Carries(t2, t3)
              /\ w3 = w \/ w3 <= wo
              /\ m - w3 \in Window
              /\ at = m - w3
              /\ Straight /\ Tidy(t2, w) => Tidy(t3, w3)
        BY <2>1, CoverMoves
  <2>. HIDE DEF t3
  <2>3. at \in Window /\ w3 \in Nat
        BY <2>2, <1>1, StreamAssumption
  <2>. HIDE DEF at
  <2>4. type # "BAR" => w3 + at = n
        BY <2>1, <2>2, <2>3
  <2>5. type # "BAR" /\ t3.slots[at] # Empty => n \in HeldNums(t3)
    <3>. SUFFICES ASSUME type # "BAR", t3.slots[at] # Empty PROVE n \in HeldNums(t3)
         OBVIOUS
    <3>1. t3.slots[at].num = w3 + at
          BY <2>2, <2>3 DEF Runs, Reads
    <3>. QED  BY <2>3, <2>4, <3>1 DEF HeldNums
  <2>6. ASSUME type = "BAR" \/ t3.slots[at] = Empty
        PROVE  /\ Runs(t4, w3) /\ SameRest(t4, t3) /\ Carries(t3, t4)
               /\ t4.up = t3.up /\ t4.start_win = t3.start_win
               /\ type # "BAR" => n \in HeldNums(t4) /\ t4.slots[at] # Empty
    <3>1. CASE type = "BAR"
          BY <3>1, <2>2, CarriesSame DEF SameRest
    <3>2. CASE type # "BAR"
      <4>1. payload \in Slots /\ payload # Empty /\ payload.num = n
            BY <3>2 DEF Incoming
      <4>2. n = w3 + at /\ n < wo + WinSize
            BY <3>2, <2>4, <1>1, <1>2, Sizes
      <4>3. t3.slots[at] = Empty
            BY <3>2, <2>6
      <4>. DEFINE r == [t3 EXCEPT !.slots[at] = payload]
      <4>4. t4 = r
            BY <3>2
      <4>5. /\ Runs(r, w3) /\ SameRest(r, t3) /\ Carries(t3, r)
            /\ r.up = t3.up /\ r.start_win = t3.start_win
            /\ r.slots[at] = payload /\ payload.num \in HeldNums(r)
            BY <2>2, <2>3, <1>1, <4>1, <4>2, <4>3, PlaceMoves
      <4>. HIDE DEF r, t4
      <4>. QED  BY <4>1, <4>4, <4>5
    <3>. QED  BY <3>1, <3>2
  <2>. HIDE DEF t4
  <2>7. ASSUME type = "BAR" \/ t3.slots[at] = Empty
        PROVE  \E w5 \in First .. (wo + WinSize) :
                        /\ Runs(t5, w5) /\ SameRest(t5, t2) /\ Carries(t2, t5)
                        /\ t5.slots[0] = Empty
                        /\ w5 = w3 \/ w5 - 1 \in Numbers(t5.up)
                        /\ type # "BAR" /\ w3 = n => w5 # w3
                        /\ type # "BAR" => n \in HeldNums(t5) \cup Numbers(t5.up)
                        /\ Straight /\ Tidy(t2, w) => Tidy(t5, w5)
    <3>1. PICK w5 \in First .. (wo + WinSize) :
              /\ Runs(t5, w5) /\ SameRest(t5, t4) /\ Carries(t4, t5)
              /\ w5 = w3 \/ w5 - 1 \in Numbers(t5.up)
              /\ t4.slots[0] # Empty => w5 # w3
              /\ Straight /\ Tidy(t4, w3) => Tidy(t5, w5)
          BY <2>6, <2>7, <1>1, ScanMoves
    <3>6. t5.slots[0] = Empty
          BY <2>6, <2>7, ScanOk DEF Runs
    <3>. HIDE DEF t5
    <3>2. SameRest(t5, t2) /\ Carries(t2, t5)
      <4>1. Carries(t3, t5)
            BY <2>6, <2>7, <3>1, CarriesTrans
      <4>. QED  BY <2>2, <2>6, <2>7, <3>1, <4>1, CarriesTrans DEF SameRest
    <3>3. type # "BAR" /\ w3 = n => w5 # w3
      <4>1. type # "BAR" /\ w3 = n => at = 0
            BY <2>3, <2>4, Sizes DEF Window
      <4>. QED  BY <4>1, <2>6, <2>7, <3>1
    <3>4. type # "BAR" => n \in HeldNums(t5) \cup Numbers(t5.up)
          BY <2>6, <2>7, <3>1 DEF Carries
    <3>5. Straight /\ Tidy(t2, w) => Tidy(t5, w5)
          BY <2>2, <2>6, <2>7, <3>1 DEF Tidy
    <3>. QED  BY <3>1, <3>2, <3>3, <3>4, <3>5, <3>6
  <2>. QED  BY <2>2, <2>5, <2>7
<1>. QED  BY <1>4, <1>5 DEF OrderedPart

-----------------------------------------------------------------------------
(* The history *)

LEMMA MaxBounded ==
    ASSUME NEW S \in SUBSET (-1 .. Last), S # {}
    PROVE  Max(S) \in S /\ \A y \in S : Max(S) >= y
<1>. DEFINE D == {Last - i : i \in S}
<1>1. \A i \in S : Last - i \in Nat
      BY StreamAssumption
<1>2. D \in SUBSET Nat /\ D # {}
      BY <1>1
<1>3. PICK m \in D : \A y \in D : m <= y
      BY <1>2, MinNat
<1>4. PICK x \in S : m = Last - x
      BY <1>3
<1>5. \A y \in S : x >= y
  <2>. SUFFICES ASSUME NEW y \in S PROVE x >= y
       OBVIOUS
  <2>1. m <= Last - y
        BY <1>3
  <2>. QED  BY <2>1, <1>4, StreamAssumption
<1>. QED  BY <1>5 DEF Max

\* Payloads that rise from above hi are none of them late, and hi stays below.
LEMMA RisingNotLate ==
    ASSUME NEW up \in Seq(Slots), NEW b \in Int, hi \in -1 .. Last, Rising(up, b)
    PROVE  /\ {j \in Sent(up) : \/ up[j].num <= hi
                                \/ \E k \in Sent(up) : k < j /\ up[k].num >= up[j].num} = {}
           /\ Max({hi} \cup {up[i].num : i \in Sent(up)}) \in -1 .. Last
           /\ Max({hi} \cup {up[i].num : i \in Sent(up)}) < b
           /\ up = <<>> => Max({hi} \cup {up[i].num : i \in Sent(up)}) = hi
<1>1. \A j \in Sent(up) : up[j].num \in -1 .. Last
      BY SlotNumbers DEF Sent
<1>2. \A j \in Sent(up) : /\ ~(up[j].num <= hi)
                          /\ \A k \in Sent(up) : k < j => ~(up[k].num >= up[j].num)
      BY <1>1, StreamAssumption DEF Rising
<1>. DEFINE S == {hi} \cup {up[i].num : i \in Sent(up)}
<1>3. S \in SUBSET (-1 .. Last) /\ S # {}
      BY <1>1
<1>4. Max(S) \in S
      BY <1>3, MaxBounded
<1>5. \A x \in S : x < b
      BY DEF Rising
<1>6. up = <<>> => S = {hi}
      BY DEF Sent
<1>. HIDE DEF S
<1>7. Max(S) \in -1 .. Last /\ Max(S) < b /\ (up = <<>> => Max(S) = hi)
  <2>1. PICK m \in S : m = Max(S)
        BY <1>4
  <2>2. m \in -1 .. Last /\ m < b
        BY <1>3, <1>5
  <2>3. up = <<>> => m = hi
        BY <1>6
  <2>. QED  BY <2>1, <2>2, <2>3
<1>. QED  BY <1>2, <1>7 DEF S

LEMMA RisingNone == ASSUME NEW b \in Int, hi < b PROVE Rising(<<>>, b)
  BY DEF Rising, Sent

\* What a call leaves behind when it sent up in order.
LEMMA LeaveInOrder ==
    ASSUME NEW t, NEW w, Runs(t, w), Rising(t.up, w), NEW fwd, NEW drop, hi \in -1 .. Last,
           Leave(t, fwd, drop)
    PROVE  late' = {} /\ hi' \in -1 .. Last /\ hi' < w /\ (t.up = <<>> => hi' = hi)
<1>1. t.up \in Seq(Slots) /\ w \in Int
      BY DEF Runs, Reads
<1>2. /\ hi' = Max({hi} \cup {t.up[i].num : i \in Sent(t.up)})
      /\ late' = {t.up[j].num : j \in {j \in Sent(t.up) :
                    \/ t.up[j].num <= hi
                    \/ \E k \in Sent(t.up) : k < j /\ t.up[k].num >= t.up[j].num}}
      BY DEF Leave, History
<1>. QED  BY <1>1, <1>2, RisingNotLate

LEMMA HeldSlots ==
    ASSUME NEW t \in Tables
    PROVE  t.win = WinSize /\ t # NoTable /\ Held(t) = {i \in Window : t.slots[i] # Empty}
<1>1. t.win = WinSize
      BY DEF Tables
<1>2. NoTable.win # WinSize
      BY Sizes DEF NoTable
<1>3. t # NoTable
      BY <1>1, <1>2
<1>. QED  BY <1>1, <1>3 DEF Held

LEMMA TableRuns ==
    ASSUME Kept, NEW w
    PROVE  /\ HasTable /\ tbl.up = <<>> /\ tbl.up \in Seq(Slots)
           /\ Held(tbl) = {i \in Window : tbl.slots[i] # Empty}
           /\ StartsAt(w) <=> Runs(tbl, w)
<1>1. tbl \in Tables /\ Shape(tbl) /\ InLine(tbl)
      BY DEF Kept, Good
<1>2. tbl.up = <<>> /\ tbl.up \in Seq(Slots)
  <2>1. tbl.up = <<>>
        BY <1>1 DEF Tables
  <2>. QED  BY <2>1
<1>3. tbl.win = WinSize /\ Held(tbl) = {i \in Window : tbl.slots[i] # Empty}
      BY <1>1, HeldSlots
<1>4. HasTable
      BY <1>3, Sizes DEF HasTable
<1>. HIDE DEF Held
<1>. QED  BY <1>1, <1>2, <1>3, <1>4 DEF StartsAt, Runs, Reads

-----------------------------------------------------------------------------
(* Order, where numbers do not wrap *)

\* While the start is in doubt the window has sent nothing up.
Doubt(t) ==
    t.check_start_win =>
        /\ hi = -1 /\ t.up = <<>>
        /\ t.last_seq # DefaultSeq => \E n \in First .. Last : NumberOf(n, t.last_seq)

LEMMA LeaveOrdered ==
    ASSUME wo \in First .. Last, wo' = wo, hi \in -1 .. Last,
           NEW t, NEW w, Good(t), Runs(t, w), Tidy(t, w), ~t.force_no_drop, Doubt(t),
           NEW fwd, NEW drop, Leave(t, fwd, drop)
    PROVE  Ordered'
<1>1. tbl' = [t EXCEPT !.up = <<>>] /\ Shape(t)
      BY DEF Leave, Good
<1>2. /\ tbl'.slots = t.slots /\ tbl'.start_win = t.start_win
      /\ tbl'.force_no_drop = t.force_no_drop /\ tbl'.check_start_win = t.check_start_win
      /\ tbl'.last_seq = t.last_seq
      BY <1>1 DEF Shape
<1>3. late' = {} /\ hi' \in -1 .. Last /\ hi' < w /\ (t.up = <<>> => hi' = hi)
      BY LeaveInOrder DEF Tidy
<1>4. t.start_win = w /\ w < MaxTid
      BY DEF Tidy
<1>5. tbl' \in Tables
      BY LeaveOk
<1>6. Held(tbl') = {i \in Window : t.slots[i] # Empty}
      BY <1>5, <1>2, HeldSlots
<1>. HIDE DEF Held
<1>7. StartsAt(tbl.start_win)'
      BY <1>2, <1>4, <1>6 DEF Runs, Reads, StartsAt
<1>8. tbl'.check_start_win =>
          /\ hi' = -1
          /\ tbl'.last_seq # DefaultSeq => (\E n \in First .. Last : NumberOf(n, tbl.last_seq))'
      BY <1>2, <1>3 DEF Doubt, NumberOf
<1>. QED  BY <1>2, <1>3, <1>4, <1>7, <1>8 DEF Ordered

LEMMA FinishedRuns ==
    ASSUME NEW t, NEW w, Runs(t, w)
    PROVE  LET r == Finished(t)
           IN /\ Runs(r, w) /\ Carries(t, r) /\ r.slots = t.slots /\ r.up = t.up
              /\ r.start_win = t.start_win /\ ~r.force_no_drop
              /\ r.check_start_win = t.check_start_win
<1>. DEFINE r == Finished(t)
<1>1. /\ Shape(r) /\ r.slots = t.slots /\ r.start_win = t.start_win /\ r.up = t.up
      /\ ~r.force_no_drop /\ r.check_start_win = t.check_start_win
      BY DEF Finished, Shape, Runs
<1>. HIDE DEF r
<1>2. Runs(r, w)
      BY <1>1 DEF Runs, Reads, InLine
<1>3. Carries(t, r)
      BY <1>1, CarriesSame
<1>. QED  BY <1>1, <1>2, <1>3 DEF r

\* A call keeps the order.
LEMMA CallOrdered ==
    ASSUME Straight, wo \in First .. Last, wo' = wo, Inv, Ordered,
           NEW n, NEW type, NEW payload, Incoming(n, type, payload),
           RxReorderPkt(Seq12(n), type, payload)
    PROVE  Ordered'
<1>. DEFINE seq == Seq12(n)
            carried == {payload.num} \ {Empty.num}
            t1 == Flushed(tbl)
            t2 == NoDropped(StartChecked(t1, seq), seq, type)
            drops == ~t2.force_no_drop /\ IsOld(t2.start_win, seq)
            last == IF type = "BAR" THEN (seq + WinSize - 1) % MaxTid ELSE seq
            t3 == Covering(t2, last)
            at == SlotOf(t3.start_win, last)
            t4 == IF type = "BAR" THEN t3 ELSE [t3 EXCEPT !.slots[at] = payload]
            t5 == ScanAndDispatch(t4)
<1>1. hi \in -1 .. Last /\ hi \in Int /\ wo \in Nat
      BY StreamAssumption DEF Ordered
<1>2. CASE ~Reorders
  <2>1. tbl' = tbl /\ hi' = hi /\ History(tbl, <<>>, carried, {})
        BY <1>2 DEF RxReorderPkt
  <2>2. late' = {}
        BY <2>1 DEF History, Sent
  <2>. QED  BY <2>1, <2>2 DEF Ordered, HasTable, StartsAt, NumberOf
<1>3. CASE Reorders
  <2>1. Kept /\ WinSize > 1
    <3>1. tbl.win > 1 /\ NoTable.win = 0
          BY <1>3 DEF Reorders, NoTable
    <3>2. Kept
          BY <3>1 DEF Inv
    <3>. QED  BY <3>1, <3>2, HeldSlots DEF Kept
  <2>. DEFINE w == tbl.start_win
  <2>2. /\ Good(tbl) /\ Runs(tbl, w) /\ tbl.up = <<>>
        /\ hi < w /\ w < MaxTid /\ ~tbl.force_no_drop /\ HasTable
        BY <2>1, TableRuns DEF Kept, Ordered
  <2>3. Tidy(tbl, w) /\ Doubt(tbl)
    <3>1. w \in Int
          BY <2>2 DEF Good, Shape
    <3>. QED  BY <2>2, <3>1, RisingNone DEF Tidy, Doubt, Ordered
  <2>4. tbl.check_start_win => NothingHeld(tbl)
        BY <2>2 DEF Good
  <2>5. PICK w1 \in First .. (wo + WinSize) :
              /\ Runs(t1, w1) /\ SameRest(t1, tbl)
              /\ NothingHeld(tbl) => t1.up = tbl.up
              /\ Tidy(t1, w1)
        BY <1>1, <2>2, <2>3, FlushMoves
  <2>6. Good(t1)
        BY <2>2, FlushedOk
  <2>7. Doubt(t1) /\ ~t1.force_no_drop
        BY <2>2, <2>3, <2>4, <2>5 DEF Doubt, SameRest
  <2>8. seq \in 0 .. (MaxTid - 1) /\ NumberOf(n, seq) /\ n \in First .. Last
    <3>1. n \in First .. Last /\ n < wo + WinSize
          BY <1>1, StreamAssumption, Sizes DEF Incoming, InFlight
    <3>. QED  BY <3>1, ModRange, StreamAssumption DEF NumberOf, Seq12
  <2>. HIDE DEF t1
  <2>9. CASE Leave(t1, carried, {})
        BY <1>1, <2>5, <2>6, <2>7, <2>9, LeaveOrdered
  <2>10. CASE Forwards(t1, seq) /\
              \/ Leave([t1 EXCEPT !.pkt_count = @ + 1], {}, carried)
              \/ Leave([t1 EXCEPT !.pkt_count = @ + 1, !.last_seq = seq], carried, {})
    <3>1. PICK l \in {t1.last_seq, seq} : \E fwd, drop :
              Leave([t1 EXCEPT !.pkt_count = @ + 1, !.last_seq = l], fwd, drop)
      <4>1. [t1 EXCEPT !.pkt_count = @ + 1] = [t1 EXCEPT !.pkt_count = @ + 1, !.last_seq = t1.last_seq]
            BY <2>6 DEF Good, Shape
      <4>. QED  BY <2>10, <4>1
    <3>6. PICK fwd, drop : Leave([t1 EXCEPT !.pkt_count = @ + 1, !.last_seq = l], fwd, drop)
          BY <3>1
    <3>. DEFINE r == [t1 EXCEPT !.pkt_count = @ + 1, !.last_seq = l]
    <3>2. Shape(t1) /\ t1.pkt_count + 1 \in 0 .. WinSize /\ l \in -1 .. (MaxTid - 1)
      <4>1. Shape(t1) /\ t1.pkt_count \in 0 .. WinSize /\ t1.pkt_count + 1 < WinSize \div 2
            BY <2>6, <2>10 DEF Good, Shape, Forwards
      <4>2. t1.last_seq \in -1 .. (MaxTid - 1)
            BY <4>1 DEF Shape
      <4>. QED  BY <4>1, <4>2, <2>8, Sizes
    <3>3. /\ Shape(r) /\ r.slots = t1.slots /\ r.start_win = t1.start_win /\ r.up = t1.up
          /\ r.check_start_win = t1.check_start_win /\ r.force_no_drop = t1.force_no_drop
          /\ r.timer_is_set = t1.timer_is_set /\ r.flush_data = t1.flush_data /\ r.last_seq = l
          BY <3>2 DEF Shape
    <3>. HIDE DEF r
    <3>4. Good(r) /\ Runs(r, w1) /\ Tidy(r, w1)
          BY <2>5, <2>6, <3>3 DEF Good, Runs, Reads, InLine, NothingHeld, Tidy
    <3>5. Doubt(r)
          BY <2>7, <2>8, <3>3 DEF Doubt
    <3>. QED  BY <1>1, <2>7, <3>3, <3>4, <3>5, <3>6, LeaveOrdered DEF r
  <2>11. CASE ~Forwards(t1, seq) /\
              \/ drops /\ Leave(Finished(t2), {}, carried)
              \/ ~drops /\ type # "BAR" /\ t3.slots[at] # Empty /\ Leave(Finished(t3), {}, carried)
              \/ ~drops /\ (type = "BAR" \/ t3.slots[at] = Empty) /\ Leave(Finished(t5), {}, {})
    <3>1. PICK l \in First .. Last : t1.check_start_win /\ t1.last_seq # DefaultSeq => NumberOf(l, t1.last_seq)
          BY <2>7, <2>8 DEF Doubt
    <3>. DEFINE r == StartChecked(t1, seq)
    <3>2. /\ r.up = t1.up /\ r.slots = t1.slots /\ r.force_no_drop = t1.force_no_drop
          /\ \/ Runs(r, w1) /\ r.start_win = t1.start_win
             \/ /\ t1.check_start_win /\ t1.last_seq # DefaultSeq
                /\ Runs(r, l + 1) /\ r.start_win = t1.last_seq + 1
          BY <1>1, <2>5, <2>6, <2>8, <3>1, StartMoves
    <3>3. Good(r) /\ ~r.check_start_win
          BY <2>6, <2>8, StartCheckedOk
    <3>4. t2 = r
          BY <2>7, <3>2 DEF NoDropped
    <3>. HIDE DEF r, t2
    <3>5. PICK w2 : Runs(t2, w2) /\ Tidy(t2, w2)
      <4>1. CASE Runs(r, w1) /\ r.start_win = t1.start_win
            BY <4>1, <3>2, <3>4, <2>5 DEF Tidy
      <4>2. CASE /\ t1.check_start_win /\ t1.last_seq # DefaultSeq
                 /\ Runs(r, l + 1) /\ r.start_win = t1.last_seq + 1
        <5>1. t1.last_seq = Seq12(l)
              BY <4>2, <3>1 DEF NumberOf
        <5>2. l \in 0 .. (MaxTid - 1) /\ l + 1 < MaxTid
              BY StreamAssumption, Sizes DEF Straight
        <5>3. r.start_win = l + 1
              BY <4>2, <5>1, <5>2, ModSmall
        <5>4. hi < l + 1 /\ l + 1 \in Int /\ r.up = <<>>
              BY <4>2, <2>7, <3>2, <5>2, Sizes DEF Doubt
        <5>. QED  BY <3>4, <4>2, <5>2, <5>3, <5>4, RisingNone DEF Tidy
      <4>. QED  BY <3>2, <4>1, <4>2
    <3>6. Good(t2) /\ ~t2.check_start_win /\ ~t2.force_no_drop
          BY <3>2, <3>3, <3>4, <2>7
    <3>13. OrderedPart(t2, w2, n, type, payload)
          BY <1>1, <2>1, <3>5, OrderedCall
    <3>7. /\ IsOld(t2.start_win, seq) <=> n < w2
          /\ w2 <= n =>
                 \E w3 \in First .. (wo + WinSize) :
                      type = "BAR" \/ t3.slots[at] = Empty =>
                      \E w5 \in First .. (wo + WinSize) :
                        Runs(t5, w5) /\ SameRest(t5, t2) /\ Tidy(t5, w5) /\ t5.slots[0] = Empty
          BY <3>5, <3>13 DEF OrderedPart
    <3>. DEFINE Ends(t) == \E v : /\ Runs(t, v) /\ Tidy(t, v) /\ t.slots[0] = Empty
                                  /\ ~t.check_start_win
    <3>8. ASSUME NEW t, Ends(t), NEW drop, Leave(Finished(t), {}, drop)
          PROVE  Ordered'
      <4>1. PICK v : /\ Runs(t, v) /\ Tidy(t, v) /\ t.slots[0] = Empty /\ ~t.check_start_win
            BY <3>8
      <4>. DEFINE f == Finished(t)
      <4>2. Good(f)
            BY <4>1, FinishedOk DEF Runs
      <4>3. Runs(f, v) /\ f.up = t.up /\ f.start_win = t.start_win /\ ~f.force_no_drop
            /\ ~f.check_start_win
            BY <4>1, FinishedRuns
      <4>. HIDE DEF f
      <4>4. Tidy(f, v) /\ Doubt(f)
            BY <4>1, <4>3 DEF Tidy, Doubt
      <4>. QED  BY <1>1, <3>8, <4>2, <4>3, <4>4, LeaveOrdered DEF f
    <3>9. CASE drops /\ Leave(Finished(t2), {}, carried)
      <4>1. Ends(t2)
            BY <3>5, <3>6 DEF Good
      <4>. QED  BY <3>8, <3>9, <4>1
    <3>10. ASSUME ~drops PROVE w2 <= n
      <4>1. w2 \in Int /\ n \in Int
            BY <2>8, <3>5 DEF Runs, Reads
      <4>. QED  BY <3>6, <3>7, <3>10, <4>1
    <3>11. CASE ~drops /\ type # "BAR" /\ t3.slots[at] # Empty /\ Leave(Finished(t3), {}, carried)
      <4>1. last \in 0 .. (MaxTid - 1)
            BY <2>8, ModRange, Sizes
      <4>2. t3 = t2
            BY <3>6, <3>11, <4>1, CoveringOk
      <4>3. Ends(t3)
            BY <4>2, <3>5, <3>6 DEF Good
      <4>. QED  BY <3>8, <3>11, <4>3
    <3>12. CASE ~drops /\ (type = "BAR" \/ t3.slots[at] = Empty) /\ Leave(Finished(t5), {}, {})
      <4>1. Ends(t5)
        <5>. HIDE DEF t5, t3, at
        <5>. QED  BY <3>6, <3>7, <3>10, <3>12 DEF SameRest
      <4>. QED  BY <3>8, <3>12, <4>1
    <3>. QED  BY <2>11, <3>9, <3>11, <3>12
  <2>. QED  BY <1>3, <2>9, <2>10, <2>11 DEF RxReorderPkt, t1
<1>. QED  BY <1>2, <1>3

\* The transmitter moves on, which leaves a window where it is.
LEMMA AckedStarts ==
    ASSUME Kept, wo \in Nat, wo' = wo + 1, tbl' = tbl, NEW w, StartsAt(w)
    PROVE  StartsAt(w)'
<1>1. Held(tbl) = {i \in Window : tbl.slots[i] # Empty}
      BY TableRuns
<1>2. Held(tbl) \subseteq Nat /\ w \in Nat /\ w \in First .. (wo + WinSize)
      BY <1>1, Sizes, StreamAssumption DEF Window, StartsAt
<1>3. ASSUME NEW i \in Held(tbl)
      PROVE  tbl.slots[i].num = w + i /\ w + i <= Last /\ w + i < wo' + WinSize
      BY <1>2, <1>3, Sizes DEF StartsAt
<1>4. w \in First .. (wo' + WinSize)
      BY <1>2, Sizes, StreamAssumption
<1>. HIDE DEF Held
<1>. QED  BY <1>3, <1>4 DEF StartsAt

LEMMA TableTidy ==
    ASSUME Kept, Ordered
    PROVE  LET w == tbl.start_win
           IN Good(tbl) /\ Runs(tbl, w) /\ Tidy(tbl, w) /\ Doubt(tbl) /\ ~tbl.force_no_drop
<1>. DEFINE w == tbl.start_win
<1>1. /\ Good(tbl) /\ Runs(tbl, w) /\ tbl.up = <<>>
      /\ hi < w /\ w < MaxTid /\ ~tbl.force_no_drop /\ HasTable
      BY TableRuns DEF Kept, Ordered
<1>2. w \in Int
      BY <1>1 DEF Good, Shape
<1>. QED  BY <1>1, <1>2, RisingNone DEF Tidy, Doubt, Ordered

\* The end of an agreement sends up in order; the next one has its own order.
LEMMA CloseOrdered ==
    ASSUME Inv, Ordered, wo \in Nat, Closed
    PROVE  late' = {} /\ hi' = -1
<1>. DEFINE up == IF HasTable
                  THEN DispatchUntil(tbl, (tbl.start_win + WinSize) % MaxTid).up ELSE <<>>
<1>1. hi' = -1 /\ History(NoTable, up, {}, {})
      BY DEF Closed
<1>2. late' = {up[j].num : j \in {j \in Sent(up) :
                    \/ up[j].num <= hi
                    \/ \E k \in Sent(up) : k < j /\ up[k].num >= up[j].num}}
  <2>. HIDE DEF up
  <2>. QED  BY <1>1 DEF History
<1>3. CASE ~HasTable
  <2>1. up = <<>> /\ Sent(<<>>) = {}
        BY <1>3 DEF Sent
  <2>. HIDE DEF up
  <2>. QED  BY <1>1, <1>2, <2>1
<1>4. CASE HasTable
  <2>1. Kept
        BY <1>4 DEF Inv, HasTable, NoTable
  <2>2. Runs(tbl, tbl.start_win) /\ Rising(tbl.up, tbl.start_win) /\ tbl.start_win \in Int
        BY <2>1, TableTidy DEF Tidy, Good, Shape
  <2>3. hi \in -1 .. Last /\ hi \in Int
        BY StreamAssumption DEF Ordered
  <2>4. up \in Seq(Slots) /\ Rising(up, tbl.start_win + WinSize)
        BY <1>4, <2>2, <2>3, CloseMoves
  <2>5. tbl.start_win + WinSize \in Int
        BY <2>2, Sizes
  <2>. HIDE DEF up
  <2>. QED  BY <1>1, <1>2, <2>3, <2>4, <2>5, RisingNotLate
<1>. QED  BY <1>3, <1>4

LEMMA InOrderInit == Init => InOrderInv
  BY StreamAssumption DEF Init, InOrderInv, Ordered, HasTable, NoTable

LEMMA InOrderStep ==
    ASSUME Straight, TypeOK, Inv, InOrderInv, [Next]_vars
    PROVE  InOrderInv'
<1>. USE DEF histVars
<1>1. /\ rx_seq \in -1 .. (MaxTid - 1) /\ wo \in First .. Last /\ wo \in Nat
      /\ hi \in -1 .. Last /\ hi \in Int
      BY StreamAssumption DEF TypeOK, InOrderInv, Ordered
<1>2. Ordered /\ (rx_seq # DefaultSeq => \E n \in First .. Last : NumberOf(n, rx_seq))
      BY DEF InOrderInv
<1>3. ASSUME HasTable PROVE Kept
      BY <1>3 DEF Inv, HasTable, NoTable
<1>4. ASSUME wo' = wo, rx_seq' = rx_seq \/ rx_seq' = DefaultSeq, Ordered' PROVE InOrderInv'
      BY <1>2, <1>4 DEF InOrderInv, NumberOf
<1>5. ASSUME NEW n \in InFlight, NEW type \in {"MSDU", "AMSDU"}, RxPkt(n, type)
      PROVE  InOrderInv'
  <2>1. Incoming(n, type, Payload(n))
    <3>1. n \in 0 .. Last
          BY <1>1, StreamAssumption DEF InFlight
    <3>. QED  BY <1>5, <3>1 DEF Incoming, Payload, Slots, Empty
  <2>2. wo' = wo /\ rx_seq' = Seq12(n) /\ RxReorderPkt(Seq12(n), type, Payload(n))
        BY <1>5 DEF RxPkt
  <2>3. Ordered'
        BY <1>1, <1>2, <2>1, <2>2, CallOrdered
  <2>4. n \in First .. Last /\ NumberOf(n, rx_seq)'
        BY <1>1, <2>2, StreamAssumption, Sizes DEF NumberOf, InFlight
  <2>. QED  BY <2>3, <2>4 DEF InOrderInv
<1>6. ASSUME NEW n \in InFlight, RxbaSync(n)
      PROVE  InOrderInv'
  <2>1. Incoming(n, "MSDU", DroppedInFw(n))
    <3>1. n \in 0 .. Last
          BY <1>1, StreamAssumption DEF InFlight
    <3>. QED  BY <3>1 DEF Incoming, DroppedInFw, Slots, Empty
  <2>2. wo' = wo /\ rx_seq' = rx_seq /\ RxReorderPkt(Seq12(n), "MSDU", DroppedInFw(n))
        BY <1>6 DEF RxbaSync
  <2>. QED  BY <1>1, <1>2, <1>4, <2>1, <2>2, CallOrdered
<1>7. CASE RxBar
  <2>1. wo' = wo /\ rx_seq' = rx_seq /\ RxReorderPkt(Seq12(wo), "BAR", Empty)
        BY <1>7 DEF RxBar
  <2>2. PICK n : n = wo
        OBVIOUS
  <2>3. Incoming(n, "BAR", Empty)
        BY <2>2 DEF Incoming
  <2>. QED  BY <1>1, <1>2, <1>4, <2>1, <2>2, <2>3, CallOrdered
<1>8. ASSUME NEW ssn \in First .. (Last + MaxAhead), AddBa(ssn)
      PROVE  InOrderInv'
  <2>1. late' = {} /\ hi' = -1 /\ wo' = wo /\ rx_seq' = rx_seq
        BY <1>1, <1>2, <1>8, CloseOrdered DEF AddBa
  <2>2. CASE tbl' = NoTable
        BY <1>4, <2>1, <2>2, StreamAssumption DEF Ordered, HasTable, NoTable
  <2>3. CASE tbl' = NewTable(Seq12(ssn), rx_seq)
    <3>1. /\ ssn \in First .. (wo + WinSize) /\ ssn \in 0 .. (MaxTid - 1)
          BY <1>1, <1>8, StreamAssumption, AheadAssumption, Sizes DEF AddBa, Straight
    <3>2. Seq12(ssn) = ssn
          BY <3>1, ModSmall
    <3>3. /\ tbl'.start_win = ssn /\ tbl'.slots = [i \in Window |-> Empty]
          /\ ~tbl'.force_no_drop /\ tbl'.last_seq = rx_seq
          BY <2>3, <3>2 DEF NewTable
    <3>4. Held(tbl') = {}
      <4>1. tbl' \in Tables
            BY <1>1, <2>3, <3>1, <3>2, NewTableOk
      <4>. QED  BY <4>1, <3>3, HeldSlots
    <3>. HIDE DEF Held
    <3>5. StartsAt(tbl.start_win)'
          BY <2>1, <3>1, <3>3, <3>4 DEF StartsAt
    <3>6. (tbl.last_seq # DefaultSeq => \E n \in First .. Last : NumberOf(n, tbl.last_seq))'
          BY <1>2, <2>1, <3>3 DEF NumberOf
    <3>7. hi' < ssn /\ ssn < MaxTid /\ hi' \in -1 .. Last
          BY <2>1, <3>1, StreamAssumption, Sizes
    <3>8. Ordered'
          BY <2>1, <3>3, <3>5, <3>6, <3>7 DEF Ordered
    <3>. QED  BY <1>4, <2>1, <3>8
  <2>. QED  BY <1>8, <2>2, <2>3 DEF AddBa
<1>9. CASE DelBa \/ Cleanup
  <2>1. late' = {} /\ hi' = -1 /\ wo' = wo /\ tbl' = NoTable
        /\ (rx_seq' = rx_seq \/ rx_seq' = DefaultSeq)
        BY <1>1, <1>2, <1>9, CloseOrdered DEF DelBa, Cleanup
  <2>. QED  BY <1>4, <2>1, StreamAssumption DEF Ordered, HasTable, NoTable
<1>10. ASSUME NEW t, NEW w, Good(t), Runs(t, w), Tidy(t, w), Doubt(t), ~t.force_no_drop,
              Leave(t, {}, {}), UNCHANGED <<rx_seq, wo>>
       PROVE  InOrderInv'
      BY <1>1, <1>4, <1>10, LeaveOrdered
<1>11. ASSUME HasTable, NEW t, Good(t), t.slots = tbl.slots, t.start_win = tbl.start_win,
              t.up = tbl.up, t.check_start_win = tbl.check_start_win,
              t.last_seq = tbl.last_seq, t.force_no_drop = tbl.force_no_drop,
              Leave(t, {}, {}), UNCHANGED <<rx_seq, wo>>
       PROVE  InOrderInv'
  <2>1. Runs(tbl, tbl.start_win) /\ Tidy(tbl, tbl.start_win) /\ Doubt(tbl) /\ ~tbl.force_no_drop
        BY <1>2, <1>3, <1>11, TableTidy
  <2>2. Runs(t, tbl.start_win)
        BY <1>11, <2>1 DEF Runs, Reads, Good
  <2>3. Tidy(t, tbl.start_win) /\ Doubt(t)
        BY <1>11, <2>1 DEF Tidy, Doubt
  <2>. QED  BY <1>10, <1>11, <2>1, <2>2, <2>3
<1>12. CASE AddBaResp
  <2>1. PICK a \in BOOLEAN : Leave([tbl EXCEPT !.amsdu = a], {}, {})
        BY <1>12 DEF AddBaResp
  <2>. DEFINE t == [tbl EXCEPT !.amsdu = a]
  <2>2. Kept /\ HasTable /\ UNCHANGED <<rx_seq, wo>>
        BY <1>3, <1>12 DEF AddBaResp
  <2>3. /\ Good(t) /\ t.slots = tbl.slots /\ t.start_win = tbl.start_win
        /\ t.up = tbl.up /\ t.check_start_win = tbl.check_start_win
        /\ t.last_seq = tbl.last_seq /\ t.force_no_drop = tbl.force_no_drop
        BY <2>2 DEF Kept, Good, Shape, InLine, NothingHeld
  <2>. HIDE DEF t
  <2>. QED  BY <1>11, <2>1, <2>2, <2>3 DEF t
<1>13. CASE TimerExpire
  <2>. DEFINE t == [tbl EXCEPT !.timer_is_set = FALSE, !.flush_data = TRUE]
  <2>1. Leave(t, {}, {})
        BY <1>13 DEF TimerExpire
  <2>2. Kept /\ HasTable /\ UNCHANGED <<rx_seq, wo>>
        BY <1>3, <1>13 DEF TimerExpire
  <2>3. /\ Good(t) /\ t.slots = tbl.slots /\ t.start_win = tbl.start_win
        /\ t.up = tbl.up /\ t.check_start_win = tbl.check_start_win
        /\ t.last_seq = tbl.last_seq /\ t.force_no_drop = tbl.force_no_drop
        BY <2>2 DEF Kept, Good, Shape, InLine, NothingHeld
  <2>. HIDE DEF t
  <2>. QED  BY <1>11, <2>1, <2>2, <2>3
<1>14. CASE FlushPriv
  <2>. DEFINE t == Flushed(tbl)
  <2>1. Leave(t, {}, {}) /\ Kept /\ UNCHANGED <<rx_seq, wo>>
        BY <1>3, <1>14 DEF FlushPriv
  <2>2. /\ Good(tbl) /\ Runs(tbl, tbl.start_win) /\ Tidy(tbl, tbl.start_win)
        /\ Doubt(tbl) /\ ~tbl.force_no_drop
        BY <1>2, <2>1, TableTidy
  <2>3. PICK v \in First .. (wo + WinSize) :
              /\ Runs(t, v) /\ SameRest(t, tbl) /\ Tidy(t, v)
              /\ NothingHeld(tbl) => t.up = tbl.up
        BY <1>1, <2>2, FlushMoves
  <2>4. Good(t)
        BY <2>2, FlushedOk
  <2>. HIDE DEF t
  <2>5. Doubt(t) /\ ~t.force_no_drop
        BY <2>2, <2>3 DEF Doubt, SameRest, Good
  <2>. QED  BY <1>10, <2>1, <2>3, <2>4, <2>5
<1>15. CASE Acked
  <2>1. wo' = wo + 1 /\ UNCHANGED <<tbl, rx_seq, histVars>>
        BY <1>15 DEF Acked
  <2>2. \A n, q : NumberOf(n, q) => NumberOf(n, q)'
        BY <1>1, <2>1, Sizes DEF NumberOf
  <2>3. HasTable => StartsAt(tbl.start_win)'
        BY <1>1, <1>2, <1>3, <2>1, AckedStarts DEF Ordered
  <2>4. Ordered'
        BY <1>2, <2>1, <2>2, <2>3 DEF Ordered, HasTable
  <2>. QED  BY <1>2, <2>1, <2>2, <2>4 DEF InOrderInv
<1>16. CASE UNCHANGED vars
      BY <1>16 DEF vars, InOrderInv, Ordered, HasTable, StartsAt, NumberOf
<1>17. ~NoDropFlag
      BY DEF NoDropFlag, Straight
<1>. QED  BY <1>5, <1>6, <1>7, <1>8, <1>9, <1>12, <1>13, <1>14, <1>15, <1>16, <1>17 DEF Next

-----------------------------------------------------------------------------
(* The theorems *)

\* The inductive invariant of the order: for every stream that does not reach the
\* wrap, number space and window, whatever packets are lost, repeated or
\* overtaken, the window's start separates what has gone up from what is held.
THEOREM InOrderInvHolds == Straight /\ Spec => []InOrderInv
<1>1. Straight /\ Init => Straight /\ TypeOK /\ Inv /\ InOrderInv
      BY InitOk, InOrderInit
<1>2. Straight /\ TypeOK /\ Inv /\ InOrderInv /\ [Next]_vars
          => (Straight /\ TypeOK /\ Inv /\ InOrderInv)'
      BY StepOk, InOrderStep DEF Straight
<1>. QED  BY <1>1, <1>2, PTL DEF Spec

\* mlan_11n_rxreorder_pkt sends the packets of an agreement up in the
\* transmitter's order and each one once, wherever numbers do not wrap.
THEOREM InOrderHolds == Straight /\ Spec => []InOrder
<1>1. InOrderInv => InOrder
      BY DEF InOrderInv, Ordered, InOrder
<1>. QED  BY <1>1, InOrderInvHolds, PTL
=============================================================================
