------------------------------- MODULE RxRing -------------------------------
(***************************************************************************)
(* SpscByteRing of core/fixed_ring.zig, the lock-free ring that stages the *)
(* controller's bytes between the serial_rx task, which pushes what the    *)
(* transport delivered, and sys_task, which drains it into the engine at   *)
(* the top of a tick (cnc/rx_ring.zig, firmware/device_runtime.zig).       *)
(*                                                                         *)
(* head and tail are monotonic 32-bit counters that wrap; the position in  *)
(* the buffer is their remainder by the size.  The copies in and out go    *)
(* byte by byte here, so either task may be overtaken in the middle of     *)
(* one.  The acquire and release orders of the code make the atomic steps  *)
(* below sequentially consistent.                                          *)
(***************************************************************************)
EXTENDS Integers, Sequences

CONSTANTS
  Size,         (* ring_size, 4096 for the receive ring                    *)
  IndexMod,     (* head and tail wrap at this value: 2^32 in the code      *)
  Chunks        (* what one delivery of the transport may hold             *)

ASSUME RingAssumption ==
  /\ Size \in Nat \ {0} /\ IndexMod \in Nat
  /\ IndexMod % Size = 0 /\ IndexMod > Size
  /\ \A c \in Chunks : c \in Seq(Nat) /\ c # <<>>

VARIABLES
  buf,          (* the ring's storage                                      *)
  head, tail,   (* the two indices                                         *)
  dropped,      (* bytes refused so far, wrapping as the code's counter    *)
  chunk,        (* serial_rx: the delivery being pushed, or empty          *)
  room,         (* ... the n it accepts                                    *)
  put,          (* ... bytes copied so far                                 *)
  span,         (* sys_task: length of the readable slice, 0 when none     *)
  fed,          (* ... bytes of it that the sink has seen                  *)
  out           (* the byte the sink saw last                              *)

producer == <<head, dropped, chunk, room, put>>
consumer == <<tail, span, fed, out>>
vars == <<buf, producer, consumer>>

Least(a, b) == IF a <= b THEN a ELSE b

(* Mutant: the free space is taken for one byte more.                      *)
MutFree(h, t) == Size + 1 - ((h - t) % IndexMod)
Free(h, t) == Size - ((h - t) % IndexMod)

Slot(index) == index % Size

Init ==
  /\ buf \in [0..Size - 1 -> UNION {{c[i] : i \in DOMAIN c} : c \in Chunks}]
  /\ \A i, j \in 0..Size - 1 : buf[i] = buf[j]
  /\ head = 0 /\ tail = 0 /\ dropped = 0
  /\ chunk = <<>> /\ room = 0 /\ put = 0
  /\ span = 0 /\ fed = 0 /\ out = buf[0]

(* push(data): both indices are read once, before the copy.                *)
PushStart == \E c \in Chunks :
  /\ chunk = <<>>
  /\ chunk' = c /\ room' = Least(Len(c), Free(head, tail)) /\ put' = 0
  /\ UNCHANGED <<buf, head, dropped, consumer>>

PushByte ==
  /\ chunk # <<>> /\ put < room
  /\ buf' = [buf EXCEPT ![Slot(head + put)] = chunk[put + 1]]
  /\ put' = put + 1
  /\ UNCHANGED <<head, dropped, chunk, room, consumer>>

(* Mutant: the index is published before the copy.                         *)
MutPushEnd ==
  /\ chunk # <<>>
  /\ head' = (head + room) % IndexMod
  /\ dropped' = (dropped + Len(chunk) - room) % IndexMod
  /\ chunk' = <<>> /\ room' = 0 /\ put' = 0
  /\ UNCHANGED <<buf, consumer>>

(* The release store that publishes the bytes, and the count of the rest.  *)
PushEnd ==
  /\ chunk # <<>> /\ put = room
  /\ head' = (head + room) % IndexMod
  /\ dropped' = (dropped + Len(chunk) - room) % IndexMod
  /\ chunk' = <<>> /\ room' = 0 /\ put' = 0
  /\ UNCHANGED <<buf, consumer>>

(* Mutant: the last slot of the storage is not reached.                    *)
MutReadable == Least((head - tail) % IndexMod, Size - 1 - Slot(tail))

(* readableSlice: the bytes up to the end of the storage.                  *)
Readable == Least((head - tail) % IndexMod, Size - Slot(tail))

DrainSlice ==
  /\ span = 0 /\ Readable > 0
  /\ span' = Readable /\ fed' = 0
  /\ UNCHANGED <<buf, producer, tail, out>>

(* sink.feed(span), one byte.                                              *)
DrainByte ==
  /\ fed < span
  /\ out' = buf[Slot(tail) + fed]
  /\ fed' = fed + 1
  /\ UNCHANGED <<buf, producer, tail, span>>

(* consume(span.len)                                                       *)
Consume ==
  /\ span > 0 /\ fed = span
  /\ tail' = (tail + span) % IndexMod
  /\ span' = 0 /\ fed' = 0
  /\ UNCHANGED <<buf, producer, out>>

Push  == PushStart \/ PushByte \/ PushEnd
Drain == DrainSlice \/ DrainByte \/ Consume
Next  == Push \/ Drain

(* Both tasks are scheduled: a call that was entered runs to its end, and  *)
(* every tick drains what it finds.                                        *)
Spec == Init /\ [][Next]_vars
FairSpec == Spec /\ WF_vars(PushByte \/ PushEnd) /\ WF_vars(Drain)

-----------------------------------------------------------------------------
Used == (head - tail) % IndexMod

(* Every variable keeps to its values, the counters to their width.        *)
TypeOK ==
  /\ buf \in [0..Size - 1 -> Nat]
  /\ head \in 0..IndexMod - 1 /\ tail \in 0..IndexMod - 1 /\ dropped \in 0..IndexMod - 1
  /\ chunk \in Chunks \cup {<<>>}
  /\ room \in 0..Len(chunk) /\ put \in 0..room
  /\ span \in 0..Size /\ fed \in 0..span
  /\ out \in Nat

(* The producer never writes a byte that the consumer may still read, even *)
(* when the indices have wrapped and the copy is half done: accepted and   *)
(* unconsumed bytes together fit, and the slice being read is inside them. *)
NoOverwrite ==
  /\ Used + room <= Size
  /\ span <= Used /\ Slot(tail) + span <= Size

(* The ring is the queue of ByteQueue: what was accepted comes out once,   *)
(* in order, unchanged.                                                    *)
Queued == [i \in 1..Used - fed |-> buf[Slot(tail + fed + i - 1)]]
Queue  == INSTANCE ByteQueue WITH q <- Queued
IsQueue == Queue!QSpec

(* A byte that was accepted reaches the sink: the consumer cannot stop     *)
(* short of head at the end of the storage or at a wrap of the counters.   *)
Drained == \A t \in 0..IndexMod - 1 : (tail = t /\ head # t) ~> tail # t
=============================================================================
