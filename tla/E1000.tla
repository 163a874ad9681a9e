------------------------------- MODULE E1000 --------------------------------
(***************************************************************************)
(* The descriptor rings of the e1000 driver. send_frame and recv_frame run *)
(* under the E1000_DEV lock; the NIC (external) reads and writes the same  *)
(* descriptors and buffers at any time between their accesses. A ring      *)
(* slot's descriptor and buffer are one record: the frame and the DD bit.  *)
(* The copy out of a receive buffer and the return of its descriptor are   *)
(* two steps, since the NIC may act between them.                          *)
(***************************************************************************)
EXTENDS Integers, Sequences, SequencesExt

CONSTANTS
    DESC_COUNT,
    MaxFrames           \* bound on the frames sent, and on the frames received

VARIABLES
    tx, rx,             \* the rings: frame and DD bit of each slot
    nic,                \* registers: TDH, TDT, RDH, RDT
    e1000,              \* E1000: tx_head, tx_tail, tx_free, rx_head
    copied,             \* the frame recv_frame has copied and not yet returned: 0 or 1
    accepted, left,     \* frames send_frame took, frames that left the NIC
    arrived, delivered, \* frames the NIC stored, frames recv_frame returned
    burst               \* the NIC has wrapped past RDT = DESC_COUNT

e1000Vars ==
    <<tx, rx, nic, e1000, copied, accepted, left, arrived, delivered, burst>>

Ring == 0 .. DESC_COUNT - 1
Inc(i) == (i + 1) % DESC_COUNT

\* init_rings: every receive buffer belongs to the NIC, RDT = DESC_COUNT
Init ==
    /\ tx = [i \in Ring |-> [frame |-> 0, dd |-> FALSE]]
    /\ rx = [i \in Ring |-> [frame |-> 0, dd |-> FALSE]]
    /\ nic = [tdh |-> 0, tdt |-> 0, rdh |-> 0, rdt |-> DESC_COUNT]
    /\ e1000 = [tx_head |-> 0, tx_tail |-> 0, tx_free |-> DESC_COUNT, rx_head |-> 0]
    /\ copied = <<>> /\ burst = FALSE
    /\ accepted = 0 /\ left = <<>> /\ arrived = <<>> /\ delivered = <<>>

-----------------------------------------------------------------------------
(* The driver *)

\* a mutant of Done: descriptors count as done without their DD bit
DoneAnyway(n) == n <= DESC_COUNT - e1000.tx_free
\* the n oldest descriptors in flight are done
Done(n) ==
    /\ n <= DESC_COUNT - e1000.tx_free
    /\ \A k \in 0 .. n - 1 : tx[(e1000.tx_head + k) % DESC_COUNT].dd
reclaimed == CHOOSE n \in 0 .. DESC_COUNT : Done(n) /\ \A k \in n + 1 .. DESC_COUNT : ~Done(k)

send_frame ==
    LET free == e1000.tx_free + reclaimed
        slots == {(e1000.tx_head + k) % DESC_COUNT : k \in 0 .. reclaimed - 1}
        cleared == [i \in Ring |-> IF i \in slots THEN [tx[i] EXCEPT !.dd = FALSE] ELSE tx[i]]
        head == (e1000.tx_head + reclaimed) % DESC_COUNT
        i == e1000.tx_tail
    IN
    /\ accepted < MaxFrames
    /\ IF free = 0
       THEN /\ tx' = cleared
            /\ e1000' = [e1000 EXCEPT !.tx_head = head, !.tx_free = free]
            /\ UNCHANGED <<nic, accepted>>
       ELSE /\ tx' = [cleared EXCEPT ![i] = [frame |-> accepted + 1, dd |-> FALSE]]
            /\ e1000' = [e1000 EXCEPT !.tx_head = head, !.tx_free = free - 1, !.tx_tail = Inc(i)]
            /\ nic' = [nic EXCEPT !.tdt = Inc(i)]
            /\ accepted' = accepted + 1
    /\ UNCHANGED <<rx, copied, left, arrived, delivered, burst>>

\* recv_frame: DD is set, the frame is copied
recv_copy ==
    /\ copied = <<>> /\ rx[e1000.rx_head].dd
    /\ copied' = <<rx[e1000.rx_head].frame>>
    /\ UNCHANGED <<tx, rx, nic, e1000, accepted, left, arrived, delivered, burst>>

\* recv_frame: DD is cleared and RDT moved to the descriptor
recv_return ==
    LET i == e1000.rx_head IN
    /\ copied # <<>>
    /\ rx' = [rx EXCEPT ![i].dd = FALSE]
    /\ e1000' = [e1000 EXCEPT !.rx_head = Inc(i)]
    /\ nic' = [nic EXCEPT !.rdt = i]
    /\ delivered' = Append(delivered, copied[1])
    /\ copied' = <<>>
    /\ UNCHANGED <<tx, accepted, left, arrived, burst>>

-----------------------------------------------------------------------------
(* The NIC *)

\* external: TDH is not TDT, the frame leaves and DD is set
NicSends ==
    /\ nic.tdh # nic.tdt
    /\ left' = Append(left, tx[nic.tdh].frame)
    /\ tx' = [tx EXCEPT ![nic.tdh].dd = TRUE]
    /\ nic' = [nic EXCEPT !.tdh = Inc(@)]
    /\ UNCHANGED <<rx, e1000, copied, accepted, arrived, delivered, burst>>

\* external: RDH is not RDT, a frame is stored at RDH; other frames are dropped
NicReceives ==
    /\ nic.rdh # nic.rdt /\ Len(arrived) < MaxFrames
    /\ arrived' = Append(arrived, Len(arrived) + 1)
    /\ rx' = [rx EXCEPT ![nic.rdh] = [frame |-> Len(arrived) + 1, dd |-> TRUE]]
    /\ nic' = [nic EXCEPT !.rdh = Inc(@)]
    /\ burst' = (burst \/ rx[nic.rdh].dd)
    /\ UNCHANGED <<tx, e1000, copied, accepted, left, delivered>>

Next == send_frame \/ recv_copy \/ recv_return \/ NicSends \/ NicReceives

E1000Spec == Init /\ [][Next]_e1000Vars

-----------------------------------------------------------------------------
(* Properties *)

\* Frames leave in the order send_frame took them, none overwritten in its buffer before it
\* left, and frames are delivered in the order they arrived, each once (send_frame,
\* recv_frame), unless the NIC filled the ring before recv_frame first returned a buffer
\* and so, RDT being DESC_COUNT, started over on unread ones.
RingsInOrder ==
    /\ left = [k \in 1 .. Len(left) |-> k]
    /\ ~burst => IsPrefix(delivered, arrived)

\* When send_frame returns 0 the ring is, as its comment says, momentarily full: the NIC
\* still has a descriptor to send, or one to be reclaimed.
MomentarilyFull ==
    e1000.tx_free = 0 => nic.tdh # nic.tdt \/ tx[e1000.tx_head].dd
============================================================================
