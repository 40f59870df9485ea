------------------------------ MODULE RxReorder ------------------------------
(***************************************************************************)
(* The receive side of one 802.11n block-ack agreement of the mlan WLAN    *)
(* driver: mlan_11n_rxreorder.c keeps, for one transmitter and TID, a      *)
(* window of WinSize buffers over 12-bit sequence numbers and hands        *)
(* packets to the kernel in order, or after a timeout with the holes left  *)
(* out.                                                                    *)
(*                                                                         *)
(* A packet is known by its number in the transmitter's stream; the code   *)
(* only ever sees the number modulo MaxTid.  Calls that touch the table    *)
(* exclude one another (one rx work, blocked while a table is created or   *)
(* deleted), so a call is a step; the timer and the transmitter interleave.*)
(* RXBA_SYNC, which the main process handles without that block, is taken  *)
(* to be as indivisible as the others.                                     *)
(***************************************************************************)
EXTENDS Integers, Sequences, FiniteSets, FiniteSetsExt

CONSTANTS
    MaxTid,    \* MAX_TID_VALUE: sequence numbers are taken modulo this
    WinSize,   \* rx_win_size of the agreement
    First,     \* number of the first packet of the stream
    Last,      \* bound: number of the last packet
    MaxAhead,  \* bound: how far the agreement's ssn may be ahead of unacknowledged packets
    Suspends,  \* TRUE: the host may sleep and resume (force_no_drop)
    EarlyBars  \* when a BAR may be the next frame although the window's start is in
               \* doubt: "check" (check_start_win), "resume" (force_no_drop)

Half == MaxTid \div 2  \* TWOPOW11

ASSUME WindowAssumption == WinSize \in Nat \ {0} /\ MaxTid \in Nat /\ WinSize < Half
\* The code tells old from new by half the number space, which holds as long as
\* fewer packets than that are missed in a row: fewer are sent at all here.
ASSUME StreamAssumption ==
    First \in Nat /\ Last \in Nat /\ First <= Last /\ Last - First < Half
ASSUME AheadAssumption == MaxAhead \in Nat
ASSUME FlagsAssumption == Suspends \in BOOLEAN /\ EarlyBars \subseteq {"check", "resume"}

VARIABLES
    tbl,     \* the RxReorderTbl entry, or NoTable
    rx_seq,  \* last sequence number seen for the TID (priv->rx_seq)
    hi,      \* highest number the window of this agreement has sent up
    top,     \* highest number that has left the driver in any way
    late,    \* numbers the last call sent up although a later one was up before
    lost,    \* numbers it dropped although neither they nor a later one was up or held
    wo       \* the transmitter's oldest unacknowledged packet
histVars == <<hi, top, late, lost>>
vars == <<tbl, rx_seq, histVars, wo>>

-----------------------------------------------------------------------------
(* The table and its operators *)

Seq12(n) == n % MaxTid
DefaultSeq == -1                        \* DEFAULT_SEQ_NUM, no sequence number

Payload(n) == [num |-> n, kind |-> "pkt"]
DroppedInFw(n) == [num |-> n, kind |-> "gone"]  \* RX_PKT_DROPPED_IN_FW in n's place
Empty == [num |-> -1, kind |-> "none"]

Window == 0 .. (WinSize - 1)
NoTable == [win |-> 0]
HasTable == tbl.win # 0
Reorders == tbl.win > 1

\* wlan_11n_create_rxreorder_tbl: a fresh entry (kzalloc'ed, hence flush_data
\* and amsdu are off).
NewTable(ssn, last) ==
    [win |-> WinSize, start_win |-> ssn, slots |-> [i \in Window |-> Empty],
     timer_is_set |-> FALSE, flush_data |-> FALSE, amsdu |-> FALSE,
     force_no_drop |-> FALSE, check_start_win |-> TRUE, pkt_count |-> 0,
     last_seq |-> last, up |-> <<>>]

\* The first k slots in order, holes included, and what rotation makes of the rest.
Payloads(slots, k) == [i \in 1 .. k |-> slots[i - 1]]
Rotated(slots, k) ==
    [i \in Window |-> IF i + k < WinSize THEN slots[i + k] ELSE Empty]

\* Send the first k slots up and let the window start at start_win.
Shift(t, k, start_win) ==
    [t EXCEPT !.up = @ \o Payloads(t.slots, k),
              !.slots = Rotated(@, k),
              !.start_win = start_win]

\* Mutant of DispatchUntil: the whole window is sent up, however far it moves.
DispatchUntilAll(t, start_win) == Shift(t, WinSize, start_win)

\* wlan_11n_dispatch_pkt_until_start_win
DispatchUntil(t, start_win) ==
    Shift(t,
          IF start_win > t.start_win
          THEN Min({start_win - t.start_win, WinSize}) ELSE WinSize,
          start_win)

\* Mutants of ScanAndDispatch: one packet per call; start_win not masked.
ScanAndDispatchOne(t) ==
    IF t.slots[0] = Empty THEN t ELSE Shift(t, 1, (t.start_win + 1) % MaxTid)
ScanAndDispatchUnmasked(t) ==
    LET k == Min({i \in Window : t.slots[i] = Empty} \cup {WinSize})
    IN Shift(t, k, t.start_win + k)

\* wlan_11n_scan_and_dispatch: up to the first hole
ScanAndDispatch(t) ==
    LET k == Min({i \in Window : t.slots[i] = Empty} \cup {WinSize})
    IN Shift(t, k, (t.start_win + k) % MaxTid)

\* wlan_11n_find_last_seqnum and wlan_start_flush_data
StartFlush(t) ==
    LET held == {i \in Window : t.slots[i] # Empty}
    IN IF held = {} THEN t
       ELSE DispatchUntil(t, (t.start_win + Max(held) + 1) % MaxTid)

\* A flush the timer asked for comes before anything else.
Flushed(t) ==
    IF t.flush_data THEN StartFlush([t EXCEPT !.flush_data = FALSE]) ELSE t

EndWin(start_win) == (start_win + WinSize - 1) % MaxTid

\* While the start of the window is in doubt, fewer than half a window's
\* packets are forwarded unordered.
Forwards(t, seq) ==
    /\ t.check_start_win
    /\ seq # t.start_win
    /\ t.pkt_count + 1 < WinSize \div 2

\* The doubt is over: the window starts after the last packet that was
\* forwarded when that lies in the window, or before it with seq following.
\* pkt_count and last_seq are never read again and not kept.
StartChecked(t, seq) ==
    LET s   == t.start_win
        e   == EndWin(s)
        l   == t.last_seq
        inside == \/ e > s /\ l >= s /\ l < e
                  \/ e < s /\ (l >= s \/ l < e)
        moved == seq # s /\ l # DefaultSeq /\ (inside \/ (seq < s /\ seq > l))
    IN IF ~t.check_start_win THEN t
       ELSE [t EXCEPT !.check_start_win = FALSE,
                      !.pkt_count = 0,
                      !.last_seq = DefaultSeq,
                      !.start_win = IF moved THEN l + 1 ELSE s]

\* force_no_drop: send everything up and start the window at this packet.
NoDropped(t, seq, type) ==
    LET f == DispatchUntil(t, (t.start_win + WinSize) % MaxTid)
    IN IF ~t.force_no_drop THEN t
       ELSE IF type = "BAR" THEN f
       ELSE [f EXCEPT !.start_win = seq]

\* Mutants of IsOld: without the case of a wrapped half; the head taken for old.
IsOldUnwrapped(start_win, seq) == seq < start_win \/ seq >= start_win + Half
IsOldHead(start_win, seq) ==
    IF start_win + Half > MaxTid - 1
    THEN seq >= (start_win + Half) % MaxTid /\ seq <= start_win
    ELSE seq <= start_win \/ seq >= start_win + Half

\* seq lies in the half of the number space before the window.
IsOld(start_win, seq) ==
    IF start_win + Half > MaxTid - 1
    THEN seq >= (start_win + Half) % MaxTid /\ seq < start_win
    ELSE seq < start_win \/ seq >= start_win + Half

IsOutside(start_win, seq) ==
    LET e == EndWin(start_win)
    IN \/ e < start_win /\ seq < start_win /\ seq > e
       \/ e > start_win /\ (seq > e \/ seq < start_win)

\* The window whose last packet is seq.
WindowEndingAt(seq) ==
    IF seq - WinSize + 1 >= 0 THEN seq - WinSize + 1
    ELSE MaxTid - (WinSize - seq) + 1

\* Mutant of SlotOf: wrapped by the mask instead of the number of values.
SlotOfMask(start_win, seq) ==
    IF seq >= start_win THEN seq - start_win ELSE seq + (MaxTid - 1) - start_win

\* The slot of seq, wrapped or not.
SlotOf(start_win, seq) ==
    IF seq >= start_win THEN seq - start_win ELSE seq + MaxTid - start_win

\* The window moved so that it covers seq.
Covering(t, seq) ==
    IF IsOutside(t.start_win, seq) THEN DispatchUntil(t, WindowEndingAt(seq)) ELSE t

\* Mutant of Finished: the timer is started only when the window moved.
FinishedMoved(t) ==
    [t EXCEPT !.timer_is_set = @ \/ t.start_win # tbl.start_win, !.force_no_drop = FALSE]

\* The way out of an ordered call: the timer is started when it was not running
\* or the window moved, so that it runs either way; a resume is over.
Finished(t) == [t EXCEPT !.timer_is_set = TRUE, !.force_no_drop = FALSE]

-----------------------------------------------------------------------------
(* Calls *)

\* The numbers of payloads (a hole's is -1), and the places of the ones that go
\* up: a payload the firmware dropped is only skipped.
Numbers(payloads) == {payloads[i].num : i \in DOMAIN payloads}
Sent(payloads) == {i \in DOMAIN payloads : payloads[i].kind = "pkt"}

Held(t) == IF t = NoTable THEN {} ELSE {i \in Window : t.slots[i] # Empty}

\* What a call that leaves the table as t adds to the history: it sends up the
\* payloads up, then forwards or drops a packet.
History(t, up, fwd, drop) ==
    LET past == {top} \cup Numbers(up) \cup fwd
        after == {j \in Sent(up) :
                    \/ up[j].num <= hi
                    \/ \E k \in Sent(up) : k < j /\ up[k].num >= up[j].num}
    IN /\ top' = Max(past)
       /\ late' = {up[j].num : j \in after}
       /\ lost' = {n \in drop : /\ n > Max(past)
                                /\ \A i \in Held(t) : t.slots[i].num # n}

\* The call leaves the table as t.
Leave(t, fwd, drop) ==
    /\ tbl' = [t EXCEPT !.up = <<>>]
    /\ hi' = Max({hi} \cup {t.up[i].num : i \in Sent(t.up)})
    /\ History(t, t.up, fwd, drop)

\* mlan_11n_rxreorder_pkt for sequence number seq.  A BAR carries no payload.
RxReorderPkt(seq, type, payload) ==
    LET carried == {payload.num} \ {Empty.num}
        t1 == Flushed(tbl)
        t2 == NoDropped(StartChecked(t1, seq), seq, type)
        drops == ~t2.force_no_drop /\ IsOld(t2.start_win, seq)
        last == IF type = "BAR" THEN (seq + WinSize - 1) % MaxTid ELSE seq
        t3 == Covering(t2, last)
        at == SlotOf(t3.start_win, last)
        t4 == IF type = "BAR" THEN t3 ELSE [t3 EXCEPT !.slots[at] = payload]
    IN \/ /\ ~Reorders
          /\ History(tbl, <<>>, carried, {})
          /\ UNCHANGED <<tbl, hi>>
       \/ /\ Reorders
          /\ type = "AMSDU" /\ ~t1.amsdu
          /\ Leave(t1, carried, {})
       \/ /\ Reorders
          /\ type # "AMSDU" \/ t1.amsdu
          /\ Forwards(t1, seq)
          /\ \/ /\ t1.last_seq = seq
                /\ Leave([t1 EXCEPT !.pkt_count = @ + 1], {}, carried)
             \/ /\ t1.last_seq # seq
                /\ Leave([t1 EXCEPT !.pkt_count = @ + 1, !.last_seq = seq], carried, {})
       \/ /\ Reorders
          /\ type # "AMSDU" \/ t1.amsdu
          /\ ~Forwards(t1, seq)
          /\ \/ /\ drops
                /\ Leave(Finished(t2), {}, carried)
             \/ /\ ~drops
                /\ type # "BAR" /\ t3.slots[at] # Empty
                /\ Leave(Finished(t3), {}, carried)
             \/ /\ ~drops
                /\ type = "BAR" \/ t3.slots[at] = Empty
                /\ Leave(Finished(ScanAndDispatch(t4)), {}, {})

InFlight == {n \in wo .. (wo + WinSize - 1) : n <= Last}

\* A packet arrives, in any order and any number of times while the transmitter
\* waits for its acknowledgement.
RxPkt(n, type) ==
    /\ n \in InFlight
    /\ rx_seq' = Seq12(n)
    /\ RxReorderPkt(Seq12(n), type, Payload(n))
    /\ UNCHANGED wo

\* A block-ack request names the oldest packet that will still be sent.
RxBar ==
    /\ HasTable => /\ tbl.check_start_win => "check" \in EarlyBars
                   /\ tbl.force_no_drop => "resume" \in EarlyBars
    /\ RxReorderPkt(Seq12(wo), "BAR", Empty)
    /\ UNCHANGED <<rx_seq, wo>>

\* wlan_11n_rxba_sync_event: the firmware dropped packet n.
RxbaSync(n) ==
    /\ HasTable
    /\ ~tbl.force_no_drop
    /\ n \in InFlight
    /\ RxReorderPkt(Seq12(n), "MSDU", DroppedInFw(n))
    /\ UNCHANGED <<rx_seq, wo>>

\* wlan_11n_delete_rxreorder_tbl_entry: what is held is sent up first, and the
\* next agreement has its own order.
Closed ==
    LET up == IF HasTable
              THEN DispatchUntil(tbl, (tbl.start_win + WinSize) % MaxTid).up ELSE <<>>
    IN hi' = -1 /\ History(NoTable, up, {}, {})

-----------------------------------------------------------------------------
(* The agreement *)

\* wlan_cmd_11n_addba_rspgen accepts an ADDBA request: an older entry is
\* deleted, and the new one is missing when memory is short.
AddBa(ssn) ==
    /\ ssn \in wo .. (wo + MaxAhead)
    /\ tbl' \in {NewTable(Seq12(ssn), rx_seq), NoTable}
    /\ Closed
    /\ UNCHANGED <<rx_seq, wo>>

\* wlan_ret_11n_addba_resp, status success: A-MSDUs are now part of the agreement.
AddBaResp ==
    /\ HasTable
    /\ \E amsdu \in BOOLEAN : Leave([tbl EXCEPT !.amsdu = amsdu], {}, {})
    /\ UNCHANGED <<rx_seq, wo>>

\* mlan_11n_delete_bastream_tbl, and wlan_ret_11n_addba_resp with a failure
DelBa ==
    /\ HasTable
    /\ Closed
    /\ tbl' = NoTable
    /\ UNCHANGED <<rx_seq, wo>>

\* wlan_11n_cleanup_reorder_tbl: the link is down.
Cleanup ==
    /\ HasTable
    /\ Closed
    /\ tbl' = NoTable
    /\ rx_seq' = DefaultSeq
    /\ UNCHANGED wo

\* wlan_update_rxreorder_tbl: the host wakes up.
NoDropFlag ==
    /\ Suspends
    /\ HasTable
    /\ Leave([tbl EXCEPT !.force_no_drop = TRUE], {}, {})
    /\ UNCHANGED <<rx_seq, wo>>

-----------------------------------------------------------------------------
(* The timer and the transmitter *)

\* wlan_flush_data, the timer's callback
TimerExpire ==
    /\ HasTable
    /\ tbl.timer_is_set
    /\ Leave([tbl EXCEPT !.timer_is_set = FALSE, !.flush_data = TRUE], {}, {})
    /\ UNCHANGED <<rx_seq, wo>>

\* wlan_flush_priv_rxreorder_tbl, run by the rx work the callback queued
FlushPriv ==
    /\ HasTable
    /\ tbl.flush_data
    /\ Leave(Flushed(tbl), {}, {})
    /\ UNCHANGED <<rx_seq, wo>>

\* The transmitter is done with a packet: acknowledged, or given up.
Acked ==
    /\ wo < Last
    /\ wo' = wo + 1
    /\ UNCHANGED <<tbl, rx_seq, histVars>>

Init ==
    /\ tbl = NoTable
    /\ rx_seq = DefaultSeq
    /\ hi = -1
    /\ top = -1
    /\ late = {}
    /\ lost = {}
    /\ wo = First

Next ==
    \/ \E n \in InFlight : RxPkt(n, "MSDU") \/ RxPkt(n, "AMSDU") \/ RxbaSync(n)
    \/ RxBar
    \/ \E ssn \in First .. (Last + MaxAhead) : AddBa(ssn)
    \/ AddBaResp
    \/ DelBa
    \/ Cleanup
    \/ NoDropFlag
    \/ TimerExpire
    \/ FlushPriv
    \/ Acked

Spec == Init /\ [][Next]_vars

-----------------------------------------------------------------------------
(* Properties *)

\* An entry between calls.
Slots == [num : -1 .. Last, kind : {"pkt", "gone", "none"}]
Tables ==
    [win : {WinSize}, start_win : 0 .. MaxTid, slots : [Window -> Slots],
     timer_is_set : BOOLEAN, flush_data : BOOLEAN, amsdu : BOOLEAN,
     force_no_drop : BOOLEAN, check_start_win : BOOLEAN, pkt_count : 0 .. WinSize,
     last_seq : -1 .. (MaxTid - 1), up : {<<>>}]

\* Every field of the table is in its domain; start_win = last_seq + 1 is not
\* masked in the code and may be MaxTid for a while.
TypeOK ==
    /\ rx_seq \in -1 .. (MaxTid - 1)
    /\ wo \in First .. Last
    /\ tbl \in Tables \cup {NoTable}

\* The packet held in slot i has the i-th sequence number of the window: the
\* rotations, the wrapped index and the moves of start_win agree.
Aligned ==
    \A i \in Held(tbl) : Seq12(tbl.slots[i].num) = (tbl.start_win + i) % MaxTid

\* Between calls the window starts at a hole: nothing waits that could go up.
HeadIsHole == 0 \notin Held(tbl)

\* The window sends packets up in the transmitter's order, each one once
\* ("will do the reordering if required before sending it to kernel").
InOrder == late = {}

\* A packet is dropped only as a copy of one that is held, or when it or a
\* later one has already gone up.
NoNeedlessDrop == lost = {}

-----------------------------------------------------------------------------
(* The inductive invariant of Aligned and HeadIsHole *)

\* Nothing is held while the start of the window is in doubt: it may still be
\* moved without moving the slots.
EmptyInDoubt == HasTable /\ tbl.check_start_win => Held(tbl) = {}

\* What is held will be flushed, by a timer that runs or a flush that is due.
Watched == Held(tbl) # {} => tbl.timer_is_set \/ tbl.flush_data

ReorderInv == Aligned /\ HeadIsHole /\ EmptyInDoubt /\ Watched

-----------------------------------------------------------------------------
(* The inductive invariants of InOrder and NoNeedlessDrop *)

\* The window starts at number w of the stream: the modulus apart, w is
\* start_win, and the numbers held are w's successors, not only congruent to
\* them.  The transmitter keeps w within a window of what it still sends.
StartsAt(w) ==
    /\ w \in First .. (wo + WinSize)
    /\ Seq12(w) = Seq12(tbl.start_win)
    /\ \A i \in Held(tbl) :
          tbl.slots[i].num = w + i /\ w + i <= Last /\ w + i < wo + WinSize

\* seq is the sequence number of a packet, n, that the transmitter has sent.
NumberOf(n, seq) ==
    n \in First .. Last /\ n < wo + WinSize /\ seq = Seq12(n)

\* Sequence numbers do not wrap and the host does not sleep.
Straight ==
    /\ Last + 1 < MaxTid
    /\ Last + MaxAhead < MaxTid
    /\ MaxAhead <= WinSize
    /\ ~Suspends

\* Where numbers do not wrap, whatever the window has sent up lies before its
\* start, and its start is still free to move only as long as it has sent nothing.
Ordered ==
    /\ late = {}
    /\ hi \in -1 .. Last
    /\ HasTable =>
          /\ StartsAt(tbl.start_win)
          /\ ~tbl.force_no_drop
          /\ hi < tbl.start_win /\ tbl.start_win < MaxTid
          /\ tbl.check_start_win =>
                /\ hi = -1
                /\ tbl.last_seq # DefaultSeq =>
                      \E n \in First .. Last : NumberOf(n, tbl.last_seq)
InOrderInv ==
    /\ Ordered
    /\ rx_seq # DefaultSeq => \E n \in First .. Last : NumberOf(n, rx_seq)

\* A block-ack request comes only when the start of the window is settled, and
\* the agreement's ssn is ahead of unacknowledged packets by at most the one
\* that a window of four or more lets pass unordered.
Settled ==
    /\ EarlyBars = {}
    /\ MaxAhead = 0 \/ (MaxAhead = 1 /\ WinSize >= 4)

\* Every number before the window has gone up, or a later one has, or the
\* transmitter is done with it; of a fresh agreement's window that only holds
\* from the first packet on.
Lossless ==
    /\ lost = {}
    /\ top \in -1 .. Last
    /\ hi \in -1 .. Last
    /\ HasTable =>
          /\ \E w \in First .. (wo + WinSize) :
                /\ StartsAt(w)
                /\ \/ w <= top + 1
                   \/ w <= wo
                   \/ tbl.check_start_win /\ tbl.pkt_count = 0 /\ w <= wo + MaxAhead
          /\ tbl.check_start_win /\ tbl.last_seq # DefaultSeq =>
                \E n \in First .. Last : NumberOf(n, tbl.last_seq) /\ n <= top

\* The last packet seen has gone up, or a later one has, or it is held.
Accounted(n) == n <= top \/ \E i \in Held(tbl) : tbl.slots[i].num = n
KeepInv ==
    /\ Lossless
    /\ rx_seq # DefaultSeq =>
          \E n \in First .. Last : NumberOf(n, rx_seq) /\ Accounted(n)
=============================================================================
