---------------------------- MODULE RxKeepProofs -----------------------------
(***************************************************************************)
(* The reorder table drops no packet that could still have been delivered, *)
(* for every number space, across the wrap and across a host's sleep.      *)
(***************************************************************************)
EXTENDS RxOrderProofs

\* What has left the driver when a call that sent up t.up and forwards fwd ends.
Past(t, fwd) == {top} \cup Numbers(t.up) \cup fwd

\* The transmitter is done with everything before w, or something from there on
\* has left the driver.
Behind(w, t, fwd) == w <= wo \/ \E x \in Past(t, fwd) : w <= x + 1

\* The window of an agreement that has seen no packet yet.
Fresh(w, t) == t.check_start_win /\ t.pkt_count = 0 /\ w <= wo + MaxAhead

\* The last packet an agreement in doubt has seen has left the driver.
LastPassed(t, fwd) ==
    t.check_start_win /\ t.last_seq # DefaultSeq =>
        \E n \in First .. Last : NumberOf(n, t.last_seq) /\ \E x \in Past(t, fwd) : n <= x

LEMMA Upward ==
    ASSUME NEW a \in Int, NEW b \in Int, NEW c \in Int, a <= b + 1, b <= c
    PROVE  a <= c + 1
  OBVIOUS

LEMMA PastMax ==
    ASSUME NEW up \in Seq(Slots), NEW fwd \in SUBSET (First .. Last), top \in -1 .. Last
    PROVE  LET past == {top} \cup Numbers(up) \cup fwd
           IN Max(past) \in -1 .. Last /\ \A x \in past : x \in -1 .. Last /\ x <= Max(past)
<1>. DEFINE past == {top} \cup Numbers(up) \cup fwd
<1>1. Numbers(up) \subseteq -1 .. Last
      BY SlotNumbers DEF Numbers
<1>2. past \in SUBSET (-1 .. Last) /\ past # {}
  <2>1. \A x \in First .. Last : x \in -1 .. Last
        BY StreamAssumption
  <2>2. \A x \in past : x \in -1 .. Last
        BY <1>1, <2>1
  <2>. QED  BY <2>2
<1>. HIDE DEF past
<1>3. PICK m \in past : m = Max(past) /\ \A y \in past : m >= y
      BY <1>2, MaxBounded
<1>4. m \in -1 .. Last /\ \A y \in past : y \in -1 .. Last /\ y <= m
      BY <1>2, <1>3, StreamAssumption
<1>. QED  BY <1>3, <1>4 DEF past

\* What a call leaves behind when it was right about all it dropped.
LEMMA LeaveKeeps ==
    ASSUME wo \in First .. Last, wo' = wo, top \in -1 .. Last, hi \in -1 .. Last,
           NEW t, NEW w, Good(t), Runs(t, w),
           NEW fwd \in SUBSET (First .. Last), NEW drop \in SUBSET Int,
           Behind(w, t, fwd) \/ Fresh(w, t), LastPassed(t, fwd),
           \A n \in drop : n \in HeldNums(t) \/ \E x \in Past(t, fwd) : n <= x,
           Leave(t, fwd, drop)
    PROVE  /\ Lossless'
           /\ \A x \in Past(t, fwd) : x \in Int /\ x <= top'
           /\ \A n \in HeldNums(t) : Accounted(n)'
<1>. DEFINE past == Past(t, fwd)
<1>1. /\ tbl' = [t EXCEPT !.up = <<>>] /\ Shape(t) /\ t.up \in Seq(Slots)
      /\ History(t, t.up, fwd, drop)
      BY DEF Leave, Good, Runs
<1>2. /\ tbl'.slots = t.slots /\ tbl'.start_win = t.start_win
      /\ tbl'.check_start_win = t.check_start_win
      /\ tbl'.last_seq = t.last_seq /\ tbl'.pkt_count = t.pkt_count
      BY <1>1 DEF Shape
<1>3. /\ top' = Max(past)
      /\ lost' = {n \in drop : n > Max(past) /\ \A i \in Held(t) : t.slots[i].num # n}
      BY <1>1 DEF History, Past
<1>4. top' \in -1 .. Last /\ \A x \in past : x \in -1 .. Last /\ x <= top'
      BY <1>1, <1>3, PastMax DEF Past
<1>. HIDE DEF past
<1>5. tbl' \in Tables
      BY LeaveOk
<1>6. Held(tbl') = {i \in Window : t.slots[i] # Empty}
      BY <1>5, <1>2, HeldSlots
<1>7. Held(t) = {i \in Window : t.slots[i] # Empty}
  <2>1. t.win = WinSize /\ NoTable.win # WinSize
        BY <1>1, Sizes DEF Shape, NoTable
  <2>. QED  BY <2>1 DEF Held
<1>. HIDE DEF Held
<1>8. lost' = {}
  <2>1. ASSUME NEW n \in drop, n > Max(past), \A i \in Held(t) : t.slots[i].num # n
        PROVE  FALSE
    <3>1. n \notin HeldNums(t)
          BY <1>7, <2>1 DEF HeldNums
    <3>2. PICK x \in past : n <= x
          BY <3>1 DEF past
    <3>3. PICK m \in Int : m = Max(past)
          BY <1>3, <1>4, StreamAssumption
    <3>4. x \in Int /\ x <= m
          BY <1>3, <1>4, <3>2, <3>3, StreamAssumption
    <3>5. n > m
          BY <2>1, <3>3
    <3>. QED  BY <3>2, <3>4, <3>5
  <2>. QED  BY <1>3, <2>1
<1>9. StartsAt(w)' /\ w \in First .. (wo + WinSize) /\ w \in Int
      BY <1>2, <1>6 DEF Runs, Reads, StartsAt
<1>10. (w <= top + 1 \/ w <= wo \/ (tbl.check_start_win /\ tbl.pkt_count = 0 /\ w <= wo + MaxAhead))'
  <2>1. CASE Fresh(w, t)
        BY <1>2, <2>1 DEF Fresh
  <2>2. CASE Behind(w, t, fwd)
    <3>1. CASE w <= wo
          BY <3>1
    <3>2. CASE \E x \in past : w <= x + 1
      <4>1. PICK x \in past : w <= x + 1
            BY <3>2
      <4>2. x \in Int /\ top' \in Int /\ x <= top'
            BY <1>4, StreamAssumption
      <4>3. w <= top' + 1
            BY <4>1, <4>2, <1>9, Upward
      <4>. QED  BY <4>3
    <3>. QED  BY <2>2, <3>1, <3>2 DEF Behind, past
  <2>. QED  BY <2>1, <2>2
<1>11. (tbl.check_start_win /\ tbl.last_seq # DefaultSeq =>
            \E n \in First .. Last : NumberOf(n, tbl.last_seq) /\ n <= top)'
  <2>. SUFFICES ASSUME t.check_start_win, t.last_seq # DefaultSeq
                PROVE  (\E n \in First .. Last : NumberOf(n, tbl.last_seq) /\ n <= top)'
       BY <1>2
  <2>1. PICK n \in First .. Last : NumberOf(n, t.last_seq) /\ \E x \in past : n <= x
        BY DEF LastPassed, past
  <2>2. n <= top'
        BY <1>4, <2>1, StreamAssumption
  <2>. QED  BY <1>2, <2>1, <2>2 DEF NumberOf
<1>14. hi' \in -1 .. Last
  <2>. DEFINE S == {hi} \cup {t.up[i].num : i \in Sent(t.up)}
  <2>1. hi' = Max(S)
        BY DEF Leave
  <2>2. \A j \in Sent(t.up) : t.up[j].num \in -1 .. Last
        BY <1>1, SlotNumbers DEF Sent
  <2>3. S \in SUBSET (-1 .. Last) /\ S # {}
        BY <2>2
  <2>. HIDE DEF S
  <2>4. Max(S) \in S
        BY <2>3, MaxBounded
  <2>. QED  BY <2>1, <2>3, <2>4
<1>12. Lossless'
      BY <1>4, <1>14, <1>8, <1>9, <1>10, <1>11 DEF Lossless
<1>13. \A n \in HeldNums(t) : Accounted(n)'
      BY <1>2, <1>6 DEF HeldNums, Accounted
<1>. QED  BY <1>4, <1>12, <1>13 DEF past

\* After a resume everything held goes up and the window starts at the packet.
LEMMA ResumeMoves ==
    ASSUME NEW t, NEW w, Runs(t, w), Good(t), ~t.check_start_win, t.force_no_drop,
           wo \in Nat, hi \in Int, NEW type, type # "BAR",
           NEW n \in First .. Last, n < wo + WinSize
    PROVE  LET r == NoDropped(t, Seq12(n), type)
           IN Runs(r, n) /\ Carries(t, r) /\ NothingHeld(r) /\ r.force_no_drop
<1>. DEFINE f == DispatchUntil(t, (t.start_win + WinSize) % MaxTid)
            seq == Seq12(n)
            r == NoDropped(t, seq, type)
<1>1. r = [f EXCEPT !.start_win = seq]
      BY DEF NoDropped
<1>2. seq \in 0 .. (MaxTid - 1)
      BY ModRange, StreamAssumption DEF Seq12
<1>3. Good(r)
      BY <1>2, NoDroppedOk
<1>4. /\ f.up \in Seq(Slots)
      /\ HeldNums(t) \subseteq Numbers(f.up) /\ Numbers(t.up) \subseteq Numbers(f.up)
      /\ Shape(f) /\ NothingHeld(f) /\ SameRest(f, t)
      BY CloseMoves
<1>. HIDE DEF f, r, seq
<1>5. /\ r.up = f.up /\ r.slots = f.slots /\ r.start_win = seq
      /\ r.force_no_drop = f.force_no_drop
      BY <1>1, <1>4 DEF Shape
<1>6. Carries(t, r)
      BY <1>4, <1>5 DEF Carries
<1>7. NothingHeld(r)
      BY <1>4, <1>5 DEF NothingHeld
<1>8. Seq12(n) = Seq12(r.start_win)
      BY <1>2, <1>5, ModSmall DEF seq
<1>9. n \in First .. (wo + WinSize)
      BY StreamAssumption, Sizes
<1>10. Runs(r, n)
      BY <1>3, <1>4, <1>5, <1>7, <1>8, <1>9 DEF Runs, Reads, Good, NothingHeld
<1>. QED  BY <1>4, <1>5, <1>6, <1>7, <1>10 DEF SameRest, r, seq

LEMMA BehindMore ==
    ASSUME NEW t, NEW r, NEW w, NEW fwd, Numbers(t.up) \subseteq Numbers(r.up), Behind(w, t, {})
    PROVE  Behind(w, r, fwd)
  BY DEF Behind, Past

\* The table between calls.
LEMMA TableKept ==
    ASSUME Kept, Lossless
    PROVE  \E w \in First .. (wo + WinSize) :
              /\ Good(tbl) /\ Runs(tbl, w) /\ tbl.up = <<>>
              /\ Behind(w, tbl, {}) \/ Fresh(w, tbl)
              /\ LastPassed(tbl, {})
<1>1. HasTable /\ Good(tbl) /\ tbl.up = <<>>
      BY TableRuns DEF Kept
<1>2. PICK w \in First .. (wo + WinSize) :
                /\ StartsAt(w)
                /\ \/ w <= top + 1
                   \/ w <= wo
                   \/ tbl.check_start_win /\ tbl.pkt_count = 0 /\ w <= wo + MaxAhead
      BY <1>1 DEF Lossless
<1>3. Runs(tbl, w)
      BY <1>2, TableRuns
<1>4. LastPassed(tbl, {})
      BY <1>1 DEF Lossless, LastPassed, Past
<1>. QED  BY <1>1, <1>2, <1>3, <1>4 DEF Behind, Fresh, Past

\* A call keeps what it must.
LEMMA CallKeeps ==
    ASSUME Settled, wo \in First .. Last, wo' = wo, Inv, Lossless,
           NEW n, NEW type, NEW payload, Incoming(n, type, payload),
           type = "BAR" => payload = Empty /\ (HasTable => ~tbl.check_start_win /\ ~tbl.force_no_drop),
           RxReorderPkt(Seq12(n), type, payload)
    PROVE  /\ Lossless'
           /\ type # "BAR" => Accounted(n)'
           /\ \A m \in First .. Last : Accounted(m) => Accounted(m)'
<1>. DEFINE seq == Seq12(n)
            carried == {payload.num} \ {Empty.num}
            t1 == Flushed(tbl)
            t2 == NoDropped(StartChecked(t1, seq), seq, type)
            drops == ~t2.force_no_drop /\ IsOld(t2.start_win, seq)
            last == IF type = "BAR" THEN (seq + WinSize - 1) % MaxTid ELSE seq
            t3 == Covering(t2, last)
            at == SlotOf(t3.start_win, last)
            t4 == IF type = "BAR" THEN t3 ELSE [t3 EXCEPT !.slots[at] = payload]
            t5 == ScanAndDispatch(t4)
            Goal == /\ Lossless'
                    /\ type # "BAR" => Accounted(n)'
                    /\ \A m \in First .. Last : Accounted(m) => Accounted(m)'
<1>1. /\ top \in -1 .. Last /\ hi \in -1 .. Last
      /\ hi \in Int /\ wo \in Nat
      BY StreamAssumption DEF Lossless
<1>2. /\ n \in First .. Last /\ n \in wo .. (wo + WinSize - 1) /\ n < wo + WinSize /\ n \in Nat
      /\ seq \in 0 .. (MaxTid - 1) /\ NumberOf(n, seq)
  <2>1. n \in First .. Last /\ n \in wo .. (wo + WinSize - 1) /\ n < wo + WinSize /\ n \in Nat
        BY <1>1, StreamAssumption, Sizes DEF Incoming, InFlight
  <2>. QED  BY <2>1, ModRange DEF NumberOf, Seq12
<1>3. carried = IF type = "BAR" THEN {} ELSE {n}
      BY <1>2, StreamAssumption DEF Incoming, Empty
<1>4. carried \in SUBSET (First .. Last) /\ carried \in SUBSET Int /\ {} \in SUBSET (First .. Last)
      BY <1>2, <1>3
<1>. HIDE DEF carried, Goal
<1>5. CASE ~Reorders
  <2>1. tbl' = tbl /\ hi' = hi /\ History(tbl, <<>>, carried, {})
        BY <1>5 DEF RxReorderPkt, carried
  <2>2. lost' = {} /\ top' = Max({top} \cup Numbers(<<>>) \cup carried)
        BY <2>1 DEF History
  <2>3. top' \in -1 .. Last /\ top <= top' /\ \A x \in carried : x <= top'
    <3>3. <<>> \in Seq(Slots)
          OBVIOUS
    <3>1. PICK up \in Seq(Slots) : up = <<>>
          BY <3>3
    <3>2. top' = Max({top} \cup Numbers(up) \cup carried)
          BY <2>2, <3>1
    <3>. QED  BY <1>1, <1>4, <3>2, PastMax
  <2>4. /\ type # "BAR" => Accounted(n)'
        /\ \A m \in First .. Last : Accounted(m) => Accounted(m)'
    <3>1. type # "BAR" => n <= top'
          BY <1>3, <2>3
    <3>2. \A m \in First .. Last : m <= top => m <= top'
          BY <1>1, <2>3, StreamAssumption
    <3>. QED  BY <2>1, <3>1, <3>2 DEF Accounted
  <2>5. ASSUME HasTable
        PROVE  /\ (\E w \in First .. (wo + WinSize) :
                /\ StartsAt(w)
                /\ \/ w <= top + 1
                   \/ w <= wo
                   \/ tbl.check_start_win /\ tbl.pkt_count = 0 /\ w <= wo + MaxAhead)'
               /\ (tbl.check_start_win /\ tbl.last_seq # DefaultSeq =>
                \E m \in First .. Last : NumberOf(m, tbl.last_seq) /\ m <= top)'
    <3>1. PICK w \in First .. (wo + WinSize) :
                /\ StartsAt(w)
                /\ \/ w <= top + 1
                   \/ w <= wo
                   \/ tbl.check_start_win /\ tbl.pkt_count = 0 /\ w <= wo + MaxAhead
          BY <2>5 DEF Lossless
    <3>2. StartsAt(w)'
          BY <2>1, <3>1 DEF StartsAt
    <3>3. w <= top + 1 => w <= top' + 1
      <4>1. w \in Int /\ top \in Int /\ top' \in Int
            BY <1>1, <2>3, StreamAssumption
      <4>. QED  BY <2>3, <4>1, Upward
    <3>4. \A m \in First .. Last : m <= top => m <= top'
          BY <1>1, <2>3, StreamAssumption
    <3>. QED  BY <2>1, <2>5, <3>1, <3>2, <3>3, <3>4 DEF Lossless, NumberOf
  <2>6. Lossless'
        BY <1>1, <2>1, <2>2, <2>3, <2>5 DEF Lossless, HasTable
  <2>. QED  BY <2>4, <2>6
<1>6. CASE Reorders
  <2>1. Kept /\ WinSize > 1
    <3>1. tbl.win > 1 /\ NoTable.win = 0
          BY <1>6 DEF Reorders, NoTable
    <3>2. Kept
          BY <3>1 DEF Inv
    <3>. QED  BY <3>1, <3>2, HeldSlots DEF Kept
  <2>2. PICK w \in First .. (wo + WinSize) :
              /\ Good(tbl) /\ Runs(tbl, w) /\ tbl.up = <<>>
              /\ Behind(w, tbl, {}) \/ Fresh(w, tbl)
              /\ LastPassed(tbl, {})
        BY <2>1, TableKept
  <2>3. Good(tbl) /\ tbl.up = <<>> /\ HasTable /\ LastPassed(tbl, {})
        BY <2>1, <2>2, TableRuns
  <2>4. PICK w1 \in First .. (wo + WinSize) :
              /\ Runs(t1, w1) /\ SameRest(t1, tbl) /\ Carries(tbl, t1)
              /\ w1 = w \/ w1 - 1 \in Numbers(t1.up)
              /\ NothingHeld(tbl) => w1 = w /\ t1.up = tbl.up
        BY <1>1, <2>2, FlushMoves
  <2>5. Good(t1)
        BY <2>3, FlushedOk
  <2>. HIDE DEF t1
  <2>6. t1.check_start_win => NothingHeld(tbl) /\ NothingHeld(t1) /\ w1 = w /\ t1.up = tbl.up
        BY <2>3, <2>4, <2>5 DEF Good, SameRest
  <2>7. Behind(w1, t1, {}) \/ Fresh(w1, t1)
    <3>1. CASE w1 = w
          BY <2>2, <2>4, <3>1, BehindMore DEF Carries, SameRest, Fresh
    <3>2. CASE w1 - 1 \in Numbers(t1.up)
      <4>1. w1 <= (w1 - 1) + 1
            BY StreamAssumption
      <4>. QED  BY <3>2, <4>1 DEF Behind, Past
    <3>. QED  BY <2>4, <3>1, <3>2
  <2>8. LastPassed(t1, {})
        BY <2>3, <2>4 DEF LastPassed, Past, SameRest, Carries

  <2>9. ASSUME NEW t, NEW fwd, Lossless', \A x \in Past(t, fwd) : x \in Int /\ x <= top',
               \A m \in HeldNums(t) : Accounted(m)', Carries(tbl, t),
               type # "BAR" => n \in HeldNums(t) \/ \E x \in Past(t, fwd) : n <= x
        PROVE  Goal
    <3>1. top' \in -1 .. Last /\ top \in Past(t, fwd)
          BY <2>9 DEF Lossless, Past
    <3>2. ASSUME NEW m \in First .. Last, Accounted(m) PROVE Accounted(m)'
      <4>1. CASE m <= top
        <5>1. m <= top'
              BY <1>1, <2>9, <3>1, <4>1, StreamAssumption
        <5>. QED  BY <5>1 DEF Accounted
      <4>2. CASE \E i \in Held(tbl) : tbl.slots[i].num = m
        <5>1. m \in HeldNums(tbl)
              BY <2>1, <4>2, TableRuns DEF HeldNums
        <5>2. m \in HeldNums(t) \/ m \in Past(t, fwd)
              BY <2>9, <5>1 DEF Carries, Past
        <5>. QED  BY <2>9, <5>2 DEF Accounted
      <4>. QED  BY <3>2, <4>1, <4>2 DEF Accounted
    <3>3. type # "BAR" => Accounted(n)'
      <4>. SUFFICES ASSUME type # "BAR" PROVE Accounted(n)'
           OBVIOUS
      <4>1. CASE n \in HeldNums(t)
            BY <2>9, <4>1
      <4>2. ASSUME NEW x \in Past(t, fwd), n <= x PROVE Accounted(n)'
        <5>1. x <= top'
              BY <2>9
        <5>2. x \in Int
              BY <2>9
        <5>. QED  BY <1>2, <3>1, <4>2, <5>1, <5>2, StreamAssumption DEF Accounted
      <4>. QED  BY <2>9, <4>1, <4>2
    <3>. QED  BY <2>9, <3>2, <3>3 DEF Goal

  <2>10. CASE Leave(t1, carried, {})
    <3>1. Behind(w1, t1, carried) \/ Fresh(w1, t1)
          BY <2>7, BehindMore
    <3>2. LastPassed(t1, carried)
          BY <2>8 DEF LastPassed, Past
    <3>3. /\ Lossless' /\ \A x \in Past(t1, carried) : x \in Int /\ x <= top'
          /\ \A m \in HeldNums(t1) : Accounted(m)'
          BY <1>1, <1>4, <2>4, <2>5, <2>10, <3>1, <3>2, LeaveKeeps
    <3>4. type # "BAR" => n \in Past(t1, carried) /\ n <= n
          BY <1>2, <1>3 DEF Past
    <3>5. type # "BAR" => n \in HeldNums(t1) \/ \E x \in Past(t1, carried) : n <= x
          BY <3>4
    <3>. QED  BY <2>4, <2>9, <3>3, <3>5 DEF Goal
  <2>11. CASE Forwards(t1, seq) /\
              \/ t1.last_seq = seq /\ Leave([t1 EXCEPT !.pkt_count = @ + 1], {}, carried)
              \/ Leave([t1 EXCEPT !.pkt_count = @ + 1, !.last_seq = seq], carried, {})
    <3>1. t1.check_start_win /\ t1.pkt_count + 1 < WinSize \div 2
          BY <2>11 DEF Forwards
    <3>2. type # "BAR" /\ carried = {n}
          BY <1>3, <2>3, <2>4, <3>1 DEF SameRest
    <3>3. PICK l \in {t1.last_seq, seq}, fwd \in SUBSET (First .. Last), drop \in SUBSET Int :
              /\ Leave([t1 EXCEPT !.pkt_count = @ + 1, !.last_seq = l], fwd, drop)
              /\ l = seq
              /\ \/ t1.last_seq = seq /\ fwd = {} /\ drop = {n}
                 \/ fwd = {n} /\ drop = {}
      <4>1. [t1 EXCEPT !.pkt_count = @ + 1] = [t1 EXCEPT !.pkt_count = @ + 1, !.last_seq = t1.last_seq]
            BY <2>5 DEF Good, Shape
      <4>2. CASE t1.last_seq = seq /\ Leave([t1 EXCEPT !.pkt_count = @ + 1], {}, carried)
            BY <1>4, <3>2, <4>1, <4>2
      <4>3. CASE Leave([t1 EXCEPT !.pkt_count = @ + 1, !.last_seq = seq], carried, {})
            BY <1>4, <3>2, <4>3
      <4>. QED  BY <2>11, <4>2, <4>3
    <3>. DEFINE r == [t1 EXCEPT !.pkt_count = @ + 1, !.last_seq = l]
    <3>4. Shape(t1) /\ t1.pkt_count + 1 \in 0 .. WinSize /\ l \in -1 .. (MaxTid - 1)
      <4>1. Shape(t1) /\ t1.pkt_count \in 0 .. WinSize
            BY <2>5 DEF Good, Shape
      <4>. QED  BY <4>1, <3>1, <3>3, <1>2, Sizes
    <3>5. /\ Shape(r) /\ r.slots = t1.slots /\ r.start_win = t1.start_win /\ r.up = t1.up
          /\ r.check_start_win = t1.check_start_win /\ r.force_no_drop = t1.force_no_drop
          /\ r.timer_is_set = t1.timer_is_set /\ r.flush_data = t1.flush_data
          /\ r.last_seq = seq
          BY <3>3, <3>4 DEF Shape
    <3>6. Leave(r, fwd, drop)
          BY <3>3
    <3>. HIDE DEF r
    <3>7. Good(r) /\ Runs(r, w1) /\ Carries(t1, r)
          BY <2>4, <2>5, <3>5, CarriesSame DEF Good, Runs, Reads, InLine, NothingHeld
    <3>8. n <= top \/ fwd = {n}
      <4>. SUFFICES ASSUME t1.last_seq = seq PROVE n <= top
           BY <3>3
      <4>1. t1.last_seq # DefaultSeq
            BY <1>2 DEF DefaultSeq
      <4>2. PICK m \in First .. Last : NumberOf(m, tbl.last_seq) /\ m <= top
            BY <2>3, <2>4, <3>1, <4>1 DEF Lossless, SameRest
      <4>3. Seq12(m) = Seq12(n)
            BY <2>4, <4>2 DEF NumberOf, SameRest
      <4>4. m \in Nat /\ m - n < MaxTid /\ n - m < MaxTid
            BY <1>2, StreamAssumption, HalfFacts, Sizes
      <4>5. m = n
            BY <1>2, <4>3, <4>4, ModSame
      <4>. QED  BY <4>2, <4>5
    <3>9. PICK x \in Past(r, fwd) : n <= x /\ x \in Int
      <4>1. CASE n <= top
            BY <1>1, <4>1, StreamAssumption DEF Past
      <4>2. CASE fwd = {n}
            BY <1>2, <4>2 DEF Past
      <4>. QED  BY <3>8, <4>1, <4>2
    <3>10. Behind(w1, r, fwd)
      <4>1. CASE Behind(w1, t1, {})
            BY <4>1, <3>5, BehindMore
      <4>2. CASE Fresh(w1, t1)
        <5>1. w1 <= x + 1
              BY <1>1, <1>2, <3>9, <4>2, StreamAssumption, Sizes DEF Fresh, Settled
        <5>. QED  BY <5>1 DEF Behind
      <4>. QED  BY <2>7, <4>1, <4>2
    <3>11. LastPassed(r, fwd)
          BY <1>2, <3>5, <3>9 DEF LastPassed
    <3>12. \A m \in drop : m \in HeldNums(r) \/ \E y \in Past(r, fwd) : m <= y
          BY <3>3, <3>9
    <3>13. /\ Lossless' /\ \A y \in Past(r, fwd) : y \in Int /\ y <= top'
           /\ \A m \in HeldNums(r) : Accounted(m)'
          BY <1>1, <3>6, <3>7, <3>10, <3>11, <3>12, LeaveKeeps
    <3>14. Carries(tbl, r)
          BY <2>4, <3>7, CarriesTrans
    <3>15. type # "BAR" => n \in HeldNums(r) \/ \E y \in Past(r, fwd) : n <= y
          BY <3>9
    <3>. QED  BY <2>9, <3>13, <3>14, <3>15 DEF Goal
  <2>12. CASE ~Forwards(t1, seq) /\
              \/ drops /\ Leave(Finished(t2), {}, carried)
              \/ ~drops /\ type # "BAR" /\ t3.slots[at] # Empty /\ Leave(Finished(t3), {}, carried)
              \/ ~drops /\ (type = "BAR" \/ t3.slots[at] = Empty) /\ Leave(Finished(t5), {}, {})
    <3>1. PICK l \in First .. Last :
              t1.check_start_win /\ t1.last_seq # DefaultSeq =>
                  NumberOf(l, t1.last_seq) /\ l <= top
          BY <1>2, <2>3, <2>4 DEF Lossless, SameRest
    <3>. DEFINE r == StartChecked(t1, seq)
    <3>2. /\ r.up = t1.up /\ r.slots = t1.slots /\ r.force_no_drop = t1.force_no_drop
          /\ \/ Runs(r, w1)
             \/ t1.check_start_win /\ t1.last_seq # DefaultSeq /\ Runs(r, l + 1)
          BY <1>1, <1>2, <2>4, <2>5, <3>1, StartMoves
    <3>3. Good(r) /\ ~r.check_start_win
          BY <1>2, <2>5, StartCheckedOk
    <3>4. t2 = NoDropped(r, seq, type)
          OBVIOUS
    <3>. HIDE DEF r, t2
    <3>5. Carries(t1, r)
          BY <3>2, CarriesSame
    <3>6. PICK v : Runs(r, v) /\ (Behind(v, r, {}) \/ (v = n /\ type # "BAR"  /\ NothingHeld(r)))
      <4>1. CASE t1.check_start_win /\ t1.last_seq # DefaultSeq /\ Runs(r, l + 1)
        <5>1. l + 1 <= top + 1
              BY <1>1, <3>1, <4>1, StreamAssumption
        <5>. QED  BY <4>1, <5>1 DEF Behind, Past
      <4>2. CASE Runs(r, w1) /\ Behind(w1, t1, {})
            BY <3>2, <4>2, BehindMore
      <4>3. CASE Runs(r, w1) /\ Fresh(w1, t1)
        <5>1. /\ t1.check_start_win /\ t1.pkt_count = 0 /\ w1 <= wo + MaxAhead
              /\ type # "BAR" /\ NothingHeld(r)
              BY <2>3, <2>4, <2>6, <3>2, <4>3 DEF Fresh, SameRest, NothingHeld
        <5>2. CASE w1 <= wo
              BY <4>3, <5>2 DEF Behind
        <5>3. CASE ~(w1 <= wo)
          <6>1. WinSize >= 4
                BY <1>1, <5>1, <5>3, StreamAssumption DEF Settled
          <6>2. t1.pkt_count + 1 < WinSize \div 2
                BY <5>1, <6>1, Sizes
          <6>3. seq = t1.start_win
                BY <2>12, <5>1, <6>2 DEF Forwards
          <6>4. Seq12(w1) = Seq12(n)
            <7>1. Seq12(w1) = Seq12(t1.start_win)
                  BY <2>4 DEF Runs, Reads
            <7>2. Seq12(seq) = seq
                  BY <1>2, ModSmall
            <7>. QED  BY <6>3, <7>1, <7>2
          <6>5. w1 \in Nat /\ w1 - n < MaxTid /\ n - w1 < MaxTid
                BY <1>1, <1>2, <5>3, StreamAssumption, Sizes
          <6>6. w1 = n
                BY <1>2, <6>4, <6>5, ModSame
          <6>. QED  BY <4>3, <5>1, <6>6
        <5>. QED  BY <5>2, <5>3
      <4>. QED  BY <2>7, <3>2, <4>1, <4>2, <4>3
    <3>7. PICK w2 : /\ Runs(t2, w2) /\ Carries(tbl, t2)
                    /\ Behind(w2, t2, {}) \/ (w2 = n /\ type # "BAR" /\ NothingHeld(t2))
                    /\ t2.force_no_drop => w2 = n
      <4>1. Carries(tbl, r)
            BY <2>4, <3>5, CarriesTrans
      <4>2. CASE ~r.force_no_drop
        <5>1. t2 = r
              BY <3>4, <4>2 DEF NoDropped
        <5>. QED  BY <3>6, <4>1, <4>2, <5>1
      <4>3. CASE r.force_no_drop
        <5>1. type # "BAR"
              BY <2>3, <2>4, <3>2, <4>3 DEF SameRest
        <5>2. Runs(t2, n) /\ Carries(r, t2) /\ NothingHeld(t2)
              BY <1>1, <1>2, <3>3, <3>4, <3>6, <4>3, <5>1, ResumeMoves
        <5>. QED  BY <4>1, <5>1, <5>2, CarriesTrans
      <4>. QED  BY <4>2, <4>3
    <3>8. Good(t2) /\ ~t2.check_start_win
          BY <1>2, <3>3, <3>4, NoDroppedOk
    <3>9. w2 \in Int /\ w2 \in Nat
          BY <3>7, StreamAssumption DEF Runs, Reads
    <3>10. OrderedPart(t2, w2, n, type, payload)
          BY <1>1, <2>1, <3>7, OrderedCall
    <3>11. ASSUME NEW t, NEW u, Runs(t, u), Carries(tbl, t), t.slots[0] = Empty, ~t.check_start_win,
                  Behind(u, t, {}), NEW drop \in SUBSET Int, Leave(Finished(t), {}, drop),
                  \A m \in drop : m = n,
                  type # "BAR" => n \in HeldNums(t) \/ \E x \in Past(t, {}) : n <= x,
                  type = "BAR" => drop = {}
           PROVE  Goal
      <4>. DEFINE f == Finished(t)
      <4>1. Good(f)
            BY <3>11, FinishedOk DEF Runs
      <4>2. /\ Runs(f, u) /\ Carries(t, f) /\ f.slots = t.slots /\ f.up = t.up
            /\ ~f.check_start_win
            BY <3>11, FinishedRuns
      <4>3. Leave(f, {}, drop)
            BY <3>11
      <4>. HIDE DEF f
      <4>4. Behind(u, f, {}) /\ LastPassed(f, {}) /\ Carries(tbl, f)
            BY <3>11, <4>2, CarriesTrans DEF Behind, Past, LastPassed
      <4>5. type # "BAR" => n \in HeldNums(f) \/ \E x \in Past(f, {}) : n <= x
            BY <3>11, <4>2 DEF HeldNums, Past
      <4>6. \A m \in drop : m \in HeldNums(f) \/ \E x \in Past(f, {}) : m <= x
            BY <3>11, <4>5
      <4>7. /\ Lossless' /\ \A x \in Past(f, {}) : x \in Int /\ x <= top'
            /\ \A m \in HeldNums(f) : Accounted(m)'
            BY <1>1, <1>4, <4>1, <4>2, <4>3, <4>4, <4>6, LeaveKeeps
      <4>. QED  BY <2>9, <4>4, <4>5, <4>7
    <3>12. ASSUME ~drops PROVE w2 <= n
      <4>1. IsOld(t2.start_win, seq) <=> n < w2
            BY <3>10 DEF OrderedPart
      <4>. QED  BY <1>2, <3>7, <3>9, <3>12, <4>1
    <3>13. carried \in SUBSET Int /\ {} \in SUBSET Int /\ (\A m \in carried : m = n)
           /\ (type = "BAR" => carried = {})
          BY <1>3, <1>4
    <3>14. CASE drops /\ Leave(Finished(t2), {}, carried)
      <4>1. n < w2
        <5>1. IsOld(t2.start_win, seq) <=> n < w2
              BY <3>10 DEF OrderedPart
        <5>. QED  BY <3>14, <5>1
      <4>2. Behind(w2, t2, {}) /\ ~(w2 <= wo)
            BY <1>1, <1>2, <3>7, <3>9, <4>1
      <4>3. PICK x \in Past(t2, {}) : w2 <= x + 1
            BY <4>2 DEF Behind
      <4>4. x \in Int
        <5>1. t2.up \in Seq(Slots)
              BY <3>7 DEF Runs
        <5>2. x \in -1 .. Last
              BY <1>1, <1>4, <4>3, <5>1, PastMax DEF Past
        <5>. QED  BY <5>2
      <4>5. n <= x
            BY <1>2, <3>9, <4>1, <4>3, <4>4
      <4>6. t2.slots[0] = Empty
            BY <3>8 DEF Good
      <4>. QED  BY <3>7, <3>8, <3>11, <3>13, <3>14, <4>2, <4>5, <4>6 DEF Goal
    <3>15. CASE ~drops /\ type # "BAR" /\ t3.slots[at] # Empty /\ Leave(Finished(t3), {}, carried)
      <4>1. last \in 0 .. (MaxTid - 1)
            BY <1>2, <3>15
      <4>2. t3 = t2
            BY <3>8, <3>15, <4>1, CoveringOk
      <4>3. n \in HeldNums(t2)
        <5>1. n \in HeldNums(t3)
              BY <3>10, <3>12, <3>15 DEF OrderedPart
        <5>. QED  BY <4>2, <5>1
      <4>4. ~NothingHeld(t2)
            BY <4>3 DEF NothingHeld, HeldNums
      <4>5. t2.slots[0] = Empty /\ Leave(Finished(t2), {}, carried)
            BY <3>8, <3>15, <4>2 DEF Good
      <4>. QED  BY <3>7, <3>8, <3>11, <3>13, <4>3, <4>4, <4>5 DEF Goal
    <3>16. CASE ~drops /\ (type = "BAR" \/ t3.slots[at] = Empty) /\ Leave(Finished(t5), {}, {})
      <4>1. PICK w3 \in First .. (wo + WinSize), w5 \in First .. (wo + WinSize) :
                 /\ w3 = w2 \/ w3 <= wo
                 /\ Runs(t5, w5) /\ SameRest(t5, t2) /\ Carries(t2, t5)
                 /\ t5.slots[0] = Empty
                 /\ w5 = w3 \/ w5 - 1 \in Numbers(t5.up)
                 /\ type # "BAR" /\ w3 = n => w5 # w3
                 /\ type # "BAR" => n \in HeldNums(t5) \cup Numbers(t5.up)
            BY <3>10, <3>12, <3>16 DEF OrderedPart
      <4>2. Leave(Finished(t5), {}, {})
            BY <3>16
      <4>. HIDE DEF t5
      <4>3. ~t5.check_start_win /\ Carries(tbl, t5)
            BY <3>7, <3>8, <4>1, CarriesTrans DEF SameRest
      <4>4. Behind(w5, t5, {})
        <5>1. CASE w5 - 1 \in Numbers(t5.up)
          <6>1. w5 <= (w5 - 1) + 1
                BY StreamAssumption
          <6>. QED  BY <5>1, <6>1 DEF Behind, Past
        <5>2. CASE w5 = w3 /\ w3 <= wo
              BY <5>2 DEF Behind
        <5>3. CASE w5 = w3 /\ w3 = w2
          <6>1. Behind(w2, t2, {})
                BY <3>7, <4>1, <5>3
          <6>. QED  BY <4>1, <5>3, <6>1, BehindMore DEF Carries
        <5>. QED  BY <4>1, <5>1, <5>2, <5>3
      <4>5. type # "BAR" => n \in HeldNums(t5) \/ \E x \in Past(t5, {}) : n <= x
        <5>1. n <= n
              BY <1>2
        <5>. QED  BY <4>1, <5>1 DEF Past
      <4>. QED  BY <3>11, <3>13, <4>1, <4>2, <4>3, <4>4, <4>5 DEF Goal
    <3>. QED  BY <2>12, <3>14, <3>15, <3>16
  <2>. QED  BY <1>6, <2>10, <2>11, <2>12 DEF RxReorderPkt, t1, carried, Goal
<1>. QED  BY <1>5, <1>6

\* The end of an agreement sends up all it holds, and drops nothing.
LEMMA CloseKeeps ==
    ASSUME Inv, Lossless, wo \in Nat, Closed
    PROVE  /\ lost' = {} /\ hi' = -1 /\ top' \in -1 .. Last
           /\ \A m \in First .. Last : Accounted(m) => m <= top'
<1>. DEFINE up == IF HasTable
                  THEN DispatchUntil(tbl, (tbl.start_win + WinSize) % MaxTid).up ELSE <<>>
<1>1. hi' = -1 /\ History(NoTable, up, {}, {})
      BY DEF Closed
<1>2. top \in -1 .. Last /\ hi \in -1 .. Last /\ hi \in Int
      BY StreamAssumption DEF Lossless
<1>3. up \in Seq(Slots) /\ \A i \in Held(tbl) : tbl.slots[i].num \in Numbers(up)
  <2>1. CASE ~HasTable
    <3>1. tbl = NoTable
          BY <2>1, TableRuns DEF Inv
    <3>2. up = <<>> /\ <<>> \in Seq(Slots) /\ Held(tbl) = {}
          BY <2>1, <3>1 DEF Held
    <3>. QED  BY <3>2
  <2>2. CASE HasTable
    <3>1. Kept
          BY <2>2 DEF Inv, HasTable, NoTable
    <3>2. PICK w \in First .. (wo + WinSize) : Runs(tbl, w)
          BY <2>2, <3>1, TableRuns DEF Lossless
    <3>3. up \in Seq(Slots) /\ HeldNums(tbl) \subseteq Numbers(up)
          BY <1>2, <2>2, <3>2, CloseMoves
    <3>4. Held(tbl) = {i \in Window : tbl.slots[i] # Empty}
          BY <3>1, TableRuns
    <3>. HIDE DEF up, Held
    <3>. QED  BY <3>3, <3>4 DEF HeldNums
  <2>. QED  BY <2>1, <2>2
<1>. HIDE DEF up
<1>4. lost' = {} /\ top' = Max({top} \cup Numbers(up) \cup {})
      BY <1>1 DEF History
<1>5. {} \in SUBSET (First .. Last)
      OBVIOUS
<1>6. /\ top' \in -1 .. Last
      /\ \A x \in {top} \cup Numbers(up) \cup {} : x \in -1 .. Last /\ x <= top'
      BY <1>2, <1>3, <1>4, <1>5, PastMax
<1>7. ASSUME NEW m \in First .. Last, Accounted(m) PROVE m <= top'
  <2>1. CASE m <= top
        BY <1>2, <1>6, <2>1, StreamAssumption
  <2>2. CASE \E i \in Held(tbl) : tbl.slots[i].num = m
        BY <1>3, <1>6, <2>2
  <2>. QED  BY <1>7, <2>1, <2>2 DEF Accounted
<1>. QED  BY <1>1, <1>4, <1>6, <1>7

LEMMA KeepInit == Init => KeepInv
  BY StreamAssumption DEF Init, KeepInv, Lossless, HasTable, NoTable

\* A step that only sets flags, or flushes, keeps what it must.
LEMMA QuietKeeps ==
    ASSUME Kept, Lossless, wo \in First .. Last, UNCHANGED <<rx_seq, wo>>,
           NEW t, NEW v \in First .. (wo + WinSize), Good(t), Runs(t, v), Carries(tbl, t),
           Behind(v, t, {}) \/ Fresh(v, t), LastPassed(t, {}), Leave(t, {}, {})
    PROVE  Lossless' /\ \A m \in First .. Last : Accounted(m) => Accounted(m)'
<1>1. /\ top \in -1 .. Last /\ hi \in -1 .. Last /\ wo' = wo
      /\ {} \in SUBSET (First .. Last) /\ {} \in SUBSET Int
      BY DEF Lossless
<1>2. \A n \in {} : n \in HeldNums(t) \/ \E x \in Past(t, {}) : n <= x
      OBVIOUS
<1>3. /\ Lossless' /\ \A x \in Past(t, {}) : x \in Int /\ x <= top'
      /\ \A m \in HeldNums(t) : Accounted(m)'
      BY <1>1, <1>2, LeaveKeeps
<1>4. top' \in Int /\ top \in Past(t, {}) /\ top \in Int
      BY <1>1, <1>3, StreamAssumption DEF Lossless, Past
<1>5. ASSUME NEW m \in First .. Last, Accounted(m) PROVE Accounted(m)'
  <2>1. CASE m <= top
    <3>1. m <= top'
          BY <1>3, <1>4, <2>1, StreamAssumption
    <3>. QED  BY <3>1 DEF Accounted
  <2>2. CASE \E i \in Held(tbl) : tbl.slots[i].num = m
    <3>1. m \in HeldNums(tbl)
          BY <2>2, TableRuns DEF HeldNums
    <3>2. m \in HeldNums(t) \/ m \in Past(t, {})
          BY <3>1 DEF Carries, Past
    <3>. QED  BY <1>3, <3>2 DEF Accounted
  <2>. QED  BY <1>5, <2>1, <2>2 DEF Accounted
<1>. QED  BY <1>3, <1>5

LEMMA KeepStep ==
    ASSUME Settled, TypeOK, Inv, KeepInv, [Next]_vars
    PROVE  KeepInv'
<1>. USE DEF histVars
<1>1. /\ rx_seq \in -1 .. (MaxTid - 1) /\ wo \in First .. Last /\ wo \in Nat
      BY StreamAssumption DEF TypeOK
<1>2. /\ Lossless
      /\ rx_seq # DefaultSeq =>
            \E n \in First .. Last : NumberOf(n, rx_seq) /\ Accounted(n)
      BY DEF KeepInv
<1>3. ASSUME HasTable PROVE Kept
      BY <1>3 DEF Inv, HasTable, NoTable
<1>4. ASSUME wo' = wo, rx_seq' = rx_seq \/ rx_seq' = DefaultSeq, Lossless',
             \A m \in First .. Last : Accounted(m) => Accounted(m)'
      PROVE  KeepInv'
  <2>1. \A n, q : NumberOf(n, q) => NumberOf(n, q)'
        BY <1>4 DEF NumberOf
  <2>. QED  BY <1>2, <1>4, <2>1 DEF KeepInv
<1>5. ASSUME NEW n \in InFlight, NEW type \in {"MSDU", "AMSDU"}, RxPkt(n, type)
      PROVE  KeepInv'
  <2>1. Incoming(n, type, Payload(n)) /\ type # "BAR"
    <3>1. n \in 0 .. Last
          BY <1>1, StreamAssumption DEF InFlight
    <3>. QED  BY <1>5, <3>1 DEF Incoming, Payload, Slots, Empty
  <2>2. wo' = wo /\ rx_seq' = Seq12(n) /\ RxReorderPkt(Seq12(n), type, Payload(n))
        BY <1>5 DEF RxPkt
  <2>3. Lossless' /\ Accounted(n)'
        BY <1>1, <1>2, <2>1, <2>2, CallKeeps
  <2>4. n \in First .. Last /\ NumberOf(n, rx_seq)'
        BY <1>1, <2>2, StreamAssumption, Sizes DEF NumberOf, InFlight
  <2>. QED  BY <2>3, <2>4 DEF KeepInv
<1>6. ASSUME NEW n \in InFlight, RxbaSync(n)
      PROVE  KeepInv'
  <2>1. Incoming(n, "MSDU", DroppedInFw(n))
    <3>1. n \in 0 .. Last
          BY <1>1, StreamAssumption DEF InFlight
    <3>. QED  BY <3>1 DEF Incoming, DroppedInFw, Slots, Empty
  <2>2. wo' = wo /\ rx_seq' = rx_seq /\ RxReorderPkt(Seq12(n), "MSDU", DroppedInFw(n))
        BY <1>6 DEF RxbaSync
  <2>. QED  BY <1>1, <1>2, <1>4, <2>1, <2>2, CallKeeps
<1>7. CASE RxBar
  <2>1. /\ wo' = wo /\ rx_seq' = rx_seq /\ RxReorderPkt(Seq12(wo), "BAR", Empty)
        /\ HasTable => ~tbl.check_start_win /\ ~tbl.force_no_drop
        BY <1>7 DEF RxBar, Settled
  <2>2. PICK n : n = wo
        OBVIOUS
  <2>3. Incoming(n, "BAR", Empty)
        BY <2>2 DEF Incoming
  <2>. QED  BY <1>1, <1>2, <1>4, <2>1, <2>2, <2>3, CallKeeps
<1>8. ASSUME Closed, wo' = wo, rx_seq' = rx_seq \/ rx_seq' = DefaultSeq, tbl' = NoTable
      PROVE  KeepInv'
  <2>1. /\ lost' = {} /\ hi' = -1 /\ top' \in -1 .. Last
        /\ \A m \in First .. Last : Accounted(m) => m <= top'
        BY <1>1, <1>2, <1>8, CloseKeeps
  <2>2. Lossless'
        BY <1>8, <2>1, StreamAssumption DEF Lossless, HasTable, NoTable
  <2>3. \A m \in First .. Last : m <= top' => Accounted(m)'
        BY DEF Accounted
  <2>. QED  BY <1>4, <1>8, <2>1, <2>2, <2>3
<1>9. ASSUME NEW ssn \in First .. (Last + MaxAhead), AddBa(ssn)
      PROVE  KeepInv'
  <2>1. Closed /\ wo' = wo /\ rx_seq' = rx_seq
        BY <1>9 DEF AddBa
  <2>2. CASE tbl' = NoTable
        BY <1>8, <2>1, <2>2
  <2>3. CASE tbl' = NewTable(Seq12(ssn), rx_seq)
    <3>1. /\ ssn \in First .. (wo + WinSize) /\ ssn <= wo + MaxAhead /\ ssn \in Nat
          BY <1>1, <1>9, StreamAssumption, AheadAssumption, Sizes DEF AddBa, Settled
    <3>2. PICK s \in 0 .. (MaxTid - 1) : s = Seq12(ssn) /\ Seq12(s) = s
          BY <3>1, ModRange, ModSmall DEF Seq12
    <3>3. /\ tbl'.start_win = s /\ tbl'.slots = [i \in Window |-> Empty]
          /\ tbl'.check_start_win /\ tbl'.pkt_count = 0 /\ tbl'.last_seq = rx_seq
          BY <2>3, <3>2 DEF NewTable
    <3>4. Held(tbl') = {}
      <4>1. tbl' \in Tables
            BY <1>1, <2>3, <3>2, NewTableOk
      <4>. QED  BY <4>1, <3>3, HeldSlots
    <3>5. /\ lost' = {} /\ hi' = -1 /\ top' \in -1 .. Last
          /\ \A m \in First .. Last : Accounted(m) => m <= top'
          BY <1>1, <1>2, <2>1, CloseKeeps
    <3>. HIDE DEF Held
    <3>6. StartsAt(ssn)'
          BY <2>1, <3>1, <3>2, <3>3, <3>4 DEF StartsAt
    <3>7. \A n, q : NumberOf(n, q) => NumberOf(n, q)'
          BY <2>1 DEF NumberOf
    <3>8. (tbl.last_seq # DefaultSeq =>
              \E n \in First .. Last : NumberOf(n, tbl.last_seq) /\ n <= top)'
          BY <1>2, <3>3, <3>5, <3>7
    <3>9. hi' \in -1 .. Last
          BY <3>5, StreamAssumption
    <3>10. Lossless'
          BY <2>1, <3>1, <3>3, <3>5, <3>6, <3>8, <3>9 DEF Lossless
    <3>11. \A m \in First .. Last : m <= top' => Accounted(m)'
          BY DEF Accounted
    <3>. QED  BY <1>4, <2>1, <3>5, <3>10, <3>11
  <2>. QED  BY <1>9, <2>2, <2>3 DEF AddBa
<1>10. CASE DelBa \/ Cleanup
      BY <1>8, <1>10 DEF DelBa, Cleanup
<1>11. ASSUME HasTable, NEW t, Good(t), t.slots = tbl.slots, t.start_win = tbl.start_win,
              t.up = tbl.up, t.check_start_win = tbl.check_start_win,
              t.last_seq = tbl.last_seq, t.pkt_count = tbl.pkt_count,
              Leave(t, {}, {}), UNCHANGED <<rx_seq, wo>>
       PROVE  KeepInv'
  <2>1. Kept
        BY <1>3, <1>11
  <2>2. PICK w \in First .. (wo + WinSize) :
              /\ Runs(tbl, w) /\ (Behind(w, tbl, {}) \/ Fresh(w, tbl)) /\ LastPassed(tbl, {})
        BY <1>2, <2>1, TableKept
  <2>3. Runs(t, w) /\ Carries(tbl, t)
        BY <1>11, <2>2, CarriesSame DEF Runs, Reads, Good
  <2>4. (Behind(w, t, {}) \/ Fresh(w, t)) /\ LastPassed(t, {})
        BY <1>11, <2>2 DEF Behind, Fresh, LastPassed, Past
  <2>5. Lossless' /\ \A m \in First .. Last : Accounted(m) => Accounted(m)'
        BY <1>1, <1>2, <1>11, <2>1, <2>3, <2>4, QuietKeeps
  <2>. QED  BY <1>4, <1>11, <2>5
<1>12. CASE AddBaResp
  <2>1. PICK a \in BOOLEAN : Leave([tbl EXCEPT !.amsdu = a], {}, {})
        BY <1>12 DEF AddBaResp
  <2>. DEFINE t == [tbl EXCEPT !.amsdu = a]
  <2>2. Kept /\ HasTable /\ UNCHANGED <<rx_seq, wo>>
        BY <1>3, <1>12 DEF AddBaResp
  <2>3. /\ Good(t) /\ t.slots = tbl.slots /\ t.start_win = tbl.start_win
        /\ t.up = tbl.up /\ t.check_start_win = tbl.check_start_win
        /\ t.last_seq = tbl.last_seq /\ t.pkt_count = tbl.pkt_count
        BY <2>2 DEF Kept, Good, Shape, InLine, NothingHeld
  <2>. HIDE DEF t
  <2>. QED  BY <1>11, <2>1, <2>2, <2>3 DEF t
<1>13. CASE TimerExpire
  <2>. DEFINE t == [tbl EXCEPT !.timer_is_set = FALSE, !.flush_data = TRUE]
  <2>1. Leave(t, {}, {})
        BY <1>13 DEF TimerExpire
  <2>2. Kept /\ HasTable /\ UNCHANGED <<rx_seq, wo>>
        BY <1>3, <1>13 DEF TimerExpire
  <2>3. /\ Good(t) /\ t.slots = tbl.slots /\ t.start_win = tbl.start_win
        /\ t.up = tbl.up /\ t.check_start_win = tbl.check_start_win
        /\ t.last_seq = tbl.last_seq /\ t.pkt_count = tbl.pkt_count
        BY <2>2 DEF Kept, Good, Shape, InLine, NothingHeld
  <2>. HIDE DEF t
  <2>. QED  BY <1>11, <2>1, <2>2, <2>3
<1>14. CASE NoDropFlag
  <2>. DEFINE t == [tbl EXCEPT !.force_no_drop = TRUE]
  <2>1. Leave(t, {}, {})
        BY <1>14 DEF NoDropFlag
  <2>2. Kept /\ HasTable /\ UNCHANGED <<rx_seq, wo>>
        BY <1>3, <1>14 DEF NoDropFlag
  <2>3. /\ Good(t) /\ t.slots = tbl.slots /\ t.start_win = tbl.start_win
        /\ t.up = tbl.up /\ t.check_start_win = tbl.check_start_win
        /\ t.last_seq = tbl.last_seq /\ t.pkt_count = tbl.pkt_count
        BY <2>2 DEF Kept, Good, Shape, InLine, NothingHeld
  <2>. HIDE DEF t
  <2>. QED  BY <1>11, <2>1, <2>2, <2>3
<1>15. CASE FlushPriv
  <2>. DEFINE t == Flushed(tbl)
  <2>1. Leave(t, {}, {}) /\ Kept /\ UNCHANGED <<rx_seq, wo>>
        BY <1>3, <1>15 DEF FlushPriv
  <2>2. PICK w \in First .. (wo + WinSize) :
              /\ Good(tbl) /\ Runs(tbl, w)
              /\ Behind(w, tbl, {}) \/ Fresh(w, tbl)
              /\ LastPassed(tbl, {})
        BY <1>2, <2>1, TableKept
  <2>3. hi \in Int
        BY <1>2, StreamAssumption DEF Lossless
  <2>4. PICK v \in First .. (wo + WinSize) :
              /\ Runs(t, v) /\ SameRest(t, tbl) /\ Carries(tbl, t)
              /\ v = w \/ v - 1 \in Numbers(t.up)
        BY <1>1, <2>2, <2>3, FlushMoves
  <2>5. Good(t)
        BY <2>2, FlushedOk
  <2>. HIDE DEF t
  <2>6. Behind(v, t, {}) \/ Fresh(v, t)
    <3>1. CASE v = w
          BY <2>2, <2>4, <3>1, BehindMore DEF Carries, SameRest, Fresh
    <3>2. CASE v - 1 \in Numbers(t.up)
      <4>1. v <= (v - 1) + 1
            BY StreamAssumption
      <4>. QED  BY <3>2, <4>1 DEF Behind, Past
    <3>. QED  BY <2>4, <3>1, <3>2
  <2>7. LastPassed(t, {})
        BY <2>2, <2>4 DEF LastPassed, Past, SameRest, Carries
  <2>8. Lossless' /\ \A m \in First .. Last : Accounted(m) => Accounted(m)'
        BY <1>1, <1>2, <2>1, <2>4, <2>5, <2>6, <2>7, QuietKeeps
  <2>. QED  BY <1>4, <2>1, <2>8
<1>16. CASE Acked
  <2>1. wo' = wo + 1 /\ UNCHANGED <<tbl, rx_seq, histVars>>
        BY <1>16 DEF Acked
  <2>2. \A n, q : NumberOf(n, q) => NumberOf(n, q)'
        BY <1>1, <2>1, Sizes DEF NumberOf
  <2>3. \A n : Accounted(n) => Accounted(n)'
        BY <2>1 DEF Accounted
  <2>4. ASSUME HasTable
        PROVE  (\E w \in First .. (wo + WinSize) :
                /\ StartsAt(w)
                /\ \/ w <= top + 1
                   \/ w <= wo
                   \/ tbl.check_start_win /\ tbl.pkt_count = 0 /\ w <= wo + MaxAhead)'
    <3>1. PICK w \in First .. (wo + WinSize) :
                /\ StartsAt(w)
                /\ \/ w <= top + 1
                   \/ w <= wo
                   \/ tbl.check_start_win /\ tbl.pkt_count = 0 /\ w <= wo + MaxAhead
          BY <1>2, <2>4 DEF Lossless
    <3>2. StartsAt(w)'
          BY <1>1, <1>3, <2>1, <2>4, <3>1, AckedStarts
    <3>3. /\ w <= wo => w <= wo'
          /\ w <= wo + MaxAhead => w <= wo' + MaxAhead
          /\ w \in First .. (wo' + WinSize)
          BY <1>1, <2>1, Sizes, StreamAssumption, AheadAssumption
    <3>. QED  BY <2>1, <3>1, <3>2, <3>3
  <2>5. (HasTable /\ tbl.check_start_win /\ tbl.last_seq # DefaultSeq =>
            \E n \in First .. Last : NumberOf(n, tbl.last_seq) /\ n <= top)'
        BY <1>2, <2>1, <2>2 DEF Lossless, HasTable
  <2>6. Lossless'
        BY <1>2, <2>1, <2>4, <2>5 DEF Lossless, HasTable
  <2>. QED  BY <1>2, <2>1, <2>2, <2>3, <2>6 DEF KeepInv
<1>17. CASE UNCHANGED vars
      BY <1>17 DEF vars, KeepInv, Lossless, HasTable, StartsAt, NumberOf, Accounted
<1>. QED  BY <1>5, <1>6, <1>7, <1>9, <1>10, <1>12, <1>13, <1>14, <1>15, <1>16, <1>17 DEF Next

-----------------------------------------------------------------------------
(* The theorems *)

\* The inductive invariant of what is kept: for every number space, window and
\* stream, across the wrap of sequence numbers and across a host's sleep,
\* everything before the window is up, passed by a later one, or done with.
THEOREM KeepInvHolds == Settled /\ Spec => []KeepInv
<1>1. Settled /\ Init => Settled /\ TypeOK /\ Inv /\ KeepInv
      BY InitOk, KeepInit
<1>2. Settled /\ TypeOK /\ Inv /\ KeepInv /\ [Next]_vars
          => (Settled /\ TypeOK /\ Inv /\ KeepInv)'
      BY StepOk, KeepStep DEF Settled
<1>. QED  BY <1>1, <1>2, PTL DEF Spec

\* mlan_11n_rxreorder_pkt drops a packet only as a copy of one that is held, or
\* when it or a later one has already gone up.
THEOREM NoNeedlessDropHolds == Settled /\ Spec => []NoNeedlessDrop
<1>1. KeepInv => NoNeedlessDrop
      BY DEF KeepInv, Lossless, NoNeedlessDrop
<1>. QED  BY <1>1, KeepInvHolds, PTL
=============================================================================
