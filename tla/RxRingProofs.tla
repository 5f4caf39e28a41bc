----------------------------- MODULE RxRingProofs -----------------------------
(***************************************************************************)
(* The receive ring never overwrites what is still to be read, and is the  *)
(* queue of ByteQueue, for every size, every width of the counters that is *)
(* a multiple of it, and every delivery: also for 4096 bytes and 32 bits.  *)
(***************************************************************************)
EXTENDS RxRing, TLAPS

-----------------------------------------------------------------------------
(* Remainders.                                                             *)
LEMMA Division ==
  ASSUME NEW a \in Int, NEW b \in Nat \ {0}
  PROVE  a = b * (a \div b) + (a % b) /\ a \div b \in Int /\ a % b \in 0..b - 1
OBVIOUS

LEMMA Multiple ==
  ASSUME NEW k \in Int, NEW b \in Nat \ {0}
  PROVE  (k > 0 => k * b >= b) /\ (k < 0 => k * b <= -b)
<1>1. CASE k > 0
  BY <1>1
<1>2. CASE k < 0
  BY <1>2
<1>3. CASE k = 0
  BY <1>3
<1> QED BY <1>1, <1>2, <1>3

LEMMA Remainder ==
  ASSUME NEW a \in Int, NEW b \in Nat \ {0}, NEW q \in Int, NEW r \in 0..b - 1,
         a = b * q + r
  PROVE  a % b = r
<1>1. a = b * (a \div b) + (a % b) /\ a \div b \in Int /\ a % b \in 0..b - 1
  OBVIOUS
<1> DEFINE k == q - (a \div b)
<1>2. k \in Int /\ k * b = b * q - b * (a \div b)
  BY <1>1
<1>3. k * b = (a % b) - r
  BY <1>1, <1>2
<1>4. k = 0
  <2>1. CASE k > 0
    BY <1>1, <1>2, <1>3, <2>1, Multiple
  <2>2. CASE k < 0
    BY <1>1, <1>2, <1>3, <2>2, Multiple
  <2> QED BY <1>2, <2>1, <2>2
<1> QED BY <1>1, <1>3, <1>4

LEMMA Widths ==
  /\ Size \in Nat \ {0} /\ IndexMod \in Nat \ {0} /\ IndexMod > Size
  /\ \E k \in Int : IndexMod = Size * k
<1>1. Size \in Nat \ {0} /\ IndexMod \in Nat \ {0} /\ IndexMod > Size /\ IndexMod % Size = 0
  BY RingAssumption
<1>2. IndexMod = Size * (IndexMod \div Size) /\ IndexMod \div Size \in Int
  BY <1>1, Division
<1> QED BY <1>1, <1>2

(* The counters wrap once at most.                                         *)
LEMMA Wrapped ==
  ASSUME NEW x \in 0..IndexMod - 1, NEW n \in 0..IndexMod
  PROVE  (x + n) % IndexMod = IF x + n < IndexMod THEN x + n ELSE x + n - IndexMod
<1>1. CASE x + n < IndexMod
  <2>1. x + n = IndexMod * 0 + (x + n) /\ x + n \in 0..IndexMod - 1
    BY <1>1, Widths
  <2> QED BY <1>1, <2>1, Remainder, Widths
<1>2. CASE x + n >= IndexMod
  <2>1. x + n = IndexMod * 1 + (x + n - IndexMod) /\ x + n - IndexMod \in 0..IndexMod - 1
    BY <1>2, Widths
  <2> QED BY <1>2, <2>1, Remainder, Widths
<1> QED BY <1>1, <1>2, Widths

LEMMA Apart ==
  ASSUME NEW h \in 0..IndexMod - 1, NEW t \in 0..IndexMod - 1
  PROVE  (h - t) % IndexMod = IF h >= t THEN h - t ELSE h - t + IndexMod
<1>1. CASE h >= t
  <2>1. h - t = IndexMod * 0 + (h - t) /\ h - t \in 0..IndexMod - 1
    BY <1>1, Widths
  <2> QED BY <1>1, <2>1, Remainder, Widths
<1>2. CASE h < t
  <2>1. h - t = IndexMod * (-1) + (h - t + IndexMod) /\ h - t + IndexMod \in 0..IndexMod - 1
    BY <1>2, Widths
  <2> QED BY <1>2, <2>1, Remainder, Widths
<1> QED BY <1>1, <1>2, Widths

-----------------------------------------------------------------------------
(* Slots.                                                                  *)
LEMMA SlotTyped == ASSUME NEW i \in Int PROVE Slot(i) \in 0..Size - 1
BY Division, Widths DEF Slot

(* The width of the counters is a multiple of the size.                    *)
LEMMA SlotWraps == ASSUME NEW i \in Int PROVE Slot(i - IndexMod) = Slot(i)
<1>1. PICK k \in Int : IndexMod = Size * k
  BY Widths
<1> DEFINE n == i \div Size
<1>2. i = Size * n + Slot(i) /\ n \in Int /\ Slot(i) \in 0..Size - 1
  BY Division, Widths DEF Slot
<1>3. Size * n - Size * k = Size * (n - k)
  BY <1>2, Widths
<1>4. i - IndexMod = Size * (n - k) + Slot(i) /\ n - k \in Int /\ i - IndexMod \in Int
  BY <1>1, <1>2, <1>3, Widths
<1> HIDE DEF n
<1> QED BY <1>2, <1>4, Remainder, Widths DEF Slot

(* Two positions less than the size apart have slots of their own.         *)
LEMMA SlotsDiffer ==
  ASSUME NEW i \in Int, NEW j \in Int, i < j, j - i < Size
  PROVE  Slot(i) # Slot(j)
<1> SUFFICES ASSUME Slot(i) = Slot(j) PROVE FALSE
  OBVIOUS
<1> DEFINE k == (j \div Size) - (i \div Size)
<1>1. /\ i = Size * (i \div Size) + Slot(i) /\ i \div Size \in Int
      /\ j = Size * (j \div Size) + Slot(j) /\ j \div Size \in Int
      /\ Slot(i) \in Int
  BY Division, Widths DEF Slot
<1>2. k \in Int /\ k * Size = Size * (j \div Size) - Size * (i \div Size)
  BY <1>1, Widths
<1>3. k * Size = j - i
  BY <1>1, <1>2, Widths
<1> HIDE DEF k
<1> QED BY <1>2, <1>3, Multiple, Widths

(* Up to the end of the storage the slots follow each other.               *)
LEMMA SlotsFollow ==
  ASSUME NEW i \in Int, NEW n \in Nat, Slot(i) + n < Size
  PROVE  Slot(i + n) = Slot(i) + n
<1>1. i = Size * (i \div Size) + Slot(i) /\ i \div Size \in Int /\ Slot(i) \in 0..Size - 1
  BY Division, Widths DEF Slot
<1> DEFINE q == i \div Size
           r == Slot(i) + n
<1>2. q \in Int /\ r \in 0..Size - 1 /\ i + n \in Int /\ i + n = Size * q + r
  BY <1>1, Widths
<1> HIDE DEF q, r
<1>3. (i + n) % Size = r
  BY <1>2, Remainder, Widths
<1> QED BY <1>3 DEF Slot, r

-----------------------------------------------------------------------------
(* TypeOK by the two tasks.                                                *)
Storage  == buf \in [0..Size - 1 -> Nat] /\ out \in Nat
Counters == head \in 0..IndexMod - 1 /\ tail \in 0..IndexMod - 1 /\ dropped \in 0..IndexMod - 1
Pushing  == chunk \in Chunks \cup {<<>>} /\ room \in 0..Len(chunk) /\ put \in 0..room
Draining == span \in 0..Size /\ fed \in 0..span

TypeInv == Storage /\ Counters /\ Pushing /\ Draining

LEMMA TypeInvTyped == TypeInv <=> TypeOK
BY DEF TypeInv, TypeOK, Storage, Counters, Pushing, Draining

LEMMA ChunkTyped ==
  ASSUME Pushing
  PROVE  chunk \in Seq(Nat) /\ Len(chunk) \in Nat /\ (chunk = <<>> => room = 0 /\ put = 0)
<1>1. CASE chunk \in Chunks
  BY <1>1, RingAssumption DEF Pushing
<1>2. CASE chunk = <<>>
  BY <1>2 DEF Pushing
<1> QED BY <1>1, <1>2 DEF Pushing

LEMMA UsedTyped ==
  ASSUME TypeInv
  PROVE  Used = (IF head >= tail THEN head - tail ELSE head - tail + IndexMod)
         /\ Used \in 0..IndexMod - 1
<1>1. head \in 0..IndexMod - 1 /\ tail \in 0..IndexMod - 1
  BY DEF TypeInv, Counters
<1>2. Used = IF head >= tail THEN head - tail ELSE head - tail + IndexMod
  BY <1>1, Apart DEF Used
<1> QED BY <1>1, <1>2, Widths

LEMMA TypeInit == Init => TypeInv /\ NoOverwrite
<1> SUFFICES ASSUME Init PROVE TypeInv /\ NoOverwrite
  OBVIOUS
<1>1. \A c \in Chunks : \A i \in DOMAIN c : c[i] \in Nat
  BY RingAssumption
<1>2. buf \in [0..Size - 1 -> Nat]
  BY <1>1 DEF Init
<1>3. 0 \in 0..Size - 1
  BY Widths
<1>4. Storage
  BY <1>2, <1>3 DEF Init, Storage
<1>5. Counters /\ Pushing /\ Draining
  BY Widths DEF Init, Counters, Pushing, Draining
<1>6. TypeInv
  BY <1>4, <1>5 DEF TypeInv
<1>7. Used = 0
  BY <1>6, UsedTyped DEF Init
<1>8. Slot(tail) \in 0..Size - 1
  BY <1>6, SlotTyped, Widths DEF TypeInv, Counters
<1> QED BY <1>6, <1>7, <1>8, Widths DEF Init, NoOverwrite

-----------------------------------------------------------------------------
(* The steps of the two tasks: what they do to the counters.               *)
LEMMA Pushed ==
  ASSUME TypeInv, NoOverwrite, PushEnd
  PROVE  /\ Used' = Used + room /\ head' \in 0..IndexMod - 1
         /\ head' = head + room \/ head' = head + room - IndexMod
<1>1. room \in 0..IndexMod /\ room \in Nat /\ Used + room < IndexMod
  <2>1. room \in Nat /\ Used \in Nat
    BY ChunkTyped, UsedTyped DEF TypeInv, Pushing
  <2>2. Used + room <= Size
    BY DEF NoOverwrite
  <2> QED BY <2>1, <2>2, Widths
<1>2. head' = IF head + room < IndexMod THEN head + room ELSE head + room - IndexMod
  BY <1>1, Wrapped DEF PushEnd, TypeInv, Counters
<1>3. head' \in 0..IndexMod - 1
  BY <1>1, <1>2, Widths DEF TypeInv, Counters
<1>4. Used' = IF head' >= tail THEN head' - tail ELSE head' - tail + IndexMod
  BY <1>3, Apart DEF PushEnd, consumer, Used, TypeInv, Counters
<1> QED BY <1>1, <1>2, <1>3, <1>4, UsedTyped, Widths DEF TypeInv, Counters

LEMMA Consumed ==
  ASSUME TypeInv, NoOverwrite, Consume
  PROVE  /\ Used' = Used - span /\ tail' \in 0..IndexMod - 1
         /\ tail' = tail + span \/ tail' = tail + span - IndexMod
<1>1. span \in 0..IndexMod /\ span <= Used
  BY Widths DEF TypeInv, Draining, NoOverwrite
<1>2. tail' = IF tail + span < IndexMod THEN tail + span ELSE tail + span - IndexMod
  BY <1>1, Wrapped DEF Consume, TypeInv, Counters
<1>3. tail' \in 0..IndexMod - 1
  BY <1>1, <1>2, Widths DEF TypeInv, Counters
<1>4. Used' = IF head >= tail' THEN head - tail' ELSE head - tail' + IndexMod
  BY <1>3, Apart DEF Consume, producer, Used, TypeInv, Counters
<1> QED BY <1>1, <1>2, <1>3, <1>4, UsedTyped, Widths DEF TypeInv, Counters

LEMMA UsedKept == head' = head /\ tail' = tail => Used' = Used
BY DEF Used

(* One step of either task: types, and nothing unread is overwritten.      *)
LEMMA PushStep == TypeInv /\ NoOverwrite /\ Push => TypeInv' /\ NoOverwrite'
<1> SUFFICES ASSUME TypeInv, NoOverwrite, Push PROVE TypeInv' /\ NoOverwrite'
  OBVIOUS
<1>1. CASE PushStart
  <2>1. PICK c \in Chunks : PushStart!(c)
    BY <1>1 DEF PushStart
  <2>2. Used \in Nat /\ Used <= Size /\ Free(head, tail) = Size - Used /\ Size \in Nat
    <3>1. room \in Nat
      BY ChunkTyped DEF TypeInv, Pushing
    <3> QED BY <3>1, UsedTyped, Widths DEF NoOverwrite, Free, Used
  <2>3. c \in Seq(Nat) /\ Len(c) \in Nat
    BY RingAssumption
  <2>4. room' \in 0..Len(c) /\ Used + room' <= Size
    BY <2>1, <2>2, <2>3 DEF Least
  <2>5. Used' = Used /\ Slot(tail)' = Slot(tail)
    BY <2>1, UsedKept DEF consumer, Slot
  <2>6. Pushing'
    BY <2>1, <2>3, <2>4 DEF Pushing
  <2>7. Storage' /\ Counters' /\ Draining'
    BY <2>1 DEF TypeInv, consumer, Storage, Counters, Draining
  <2> QED BY <2>1, <2>4, <2>5, <2>6, <2>7 DEF TypeInv, NoOverwrite, consumer
<1>2. CASE PushByte
  <2>1. put + 1 \in 1..Len(chunk) /\ put + 1 \in 0..room /\ chunk[put + 1] \in Nat
    BY <1>2, ChunkTyped DEF TypeInv, Pushing, PushByte
  <2>2. Storage'
    BY <1>2, <2>1 DEF TypeInv, PushByte, consumer, Storage
  <2>3. Counters' /\ Pushing' /\ Draining'
    BY <1>2, <2>1 DEF TypeInv, PushByte, consumer, Counters, Pushing, Draining
  <2>4. Used' = Used /\ Slot(tail)' = Slot(tail)
    BY <1>2, UsedKept DEF PushByte, consumer, Slot
  <2> QED BY <1>2, <2>2, <2>3, <2>4 DEF TypeInv, PushByte, consumer, NoOverwrite
<1>3. CASE PushEnd
  <2>1. Used' = Used + room /\ head' \in 0..IndexMod - 1
    BY <1>3, Pushed
  <2>2. dropped' \in 0..IndexMod - 1
    <3>1. dropped + Len(chunk) - room \in Int
      BY ChunkTyped DEF TypeInv, Counters, Pushing
    <3> QED BY <1>3, <3>1, Division, Widths DEF PushEnd
  <2>3. Counters' /\ Storage' /\ Draining'
    BY <1>3, <2>1, <2>2 DEF TypeInv, PushEnd, consumer, Counters, Storage, Draining
  <2>4. Pushing'
    BY <1>3 DEF PushEnd, Pushing
  <2>5. room \in Nat /\ Used \in Nat /\ Slot(tail)' = Slot(tail)
    BY <1>3, ChunkTyped, UsedTyped DEF TypeInv, Pushing, PushEnd, consumer, Slot
  <2>6. span \in Nat
    BY Widths DEF TypeInv, Draining
  <2> QED BY <1>3, <2>1, <2>3, <2>4, <2>5, <2>6, Widths
          DEF TypeInv, PushEnd, consumer, NoOverwrite
<1> QED BY <1>1, <1>2, <1>3 DEF Push

LEMMA DrainStep == TypeInv /\ NoOverwrite /\ Drain => TypeInv' /\ NoOverwrite'
<1> SUFFICES ASSUME TypeInv, NoOverwrite, Drain PROVE TypeInv' /\ NoOverwrite'
  OBVIOUS
<1>a. Slot(tail) \in 0..Size - 1 /\ Used \in Nat /\ room \in Nat /\ Size \in Nat
  <2>1. tail \in Int
    BY Widths DEF TypeInv, Counters
  <2>2. room \in Nat
    BY ChunkTyped DEF TypeInv, Pushing
  <2> QED BY <2>1, <2>2, SlotTyped, UsedTyped, Widths
<1>1. CASE DrainSlice
  <2>1. span' \in 1..Size /\ span' <= Used /\ Slot(tail) + span' <= Size
    BY <1>1, <1>a DEF DrainSlice, Readable, Least, Used
  <2>2. Used' = Used /\ Slot(tail)' = Slot(tail)
    BY <1>1, UsedKept DEF DrainSlice, producer, Slot
  <2>3. TypeInv'
    BY <1>1, <2>1 DEF TypeInv, DrainSlice, producer, Storage, Counters, Pushing, Draining
  <2> QED BY <1>1, <2>1, <2>2, <2>3 DEF DrainSlice, producer, NoOverwrite
<1>2. CASE DrainByte
  <2>1. Slot(tail) + fed \in 0..Size - 1 /\ fed + 1 \in 0..span
    BY <1>2, <1>a DEF DrainByte, TypeInv, Draining, NoOverwrite
  <2>2. Storage'
    BY <1>2, <2>1 DEF TypeInv, DrainByte, Storage
  <2>3. Counters' /\ Pushing' /\ Draining'
    BY <1>2, <2>1 DEF TypeInv, DrainByte, producer, Counters, Pushing, Draining
  <2>4. Used' = Used /\ Slot(tail)' = Slot(tail)
    BY <1>2, UsedKept DEF DrainByte, producer, Slot
  <2> QED BY <1>2, <2>2, <2>3, <2>4 DEF TypeInv, DrainByte, producer, NoOverwrite
<1>3. CASE Consume
  <2>1. Used' = Used - span /\ tail' \in 0..IndexMod - 1
    BY <1>3, Consumed
  <2>2. TypeInv'
    BY <1>3, <2>1, <1>a DEF TypeInv, Consume, producer, Storage, Counters, Pushing, Draining
  <2>3. Slot(tail') \in 0..Size - 1 /\ span \in Nat
    BY <2>1, SlotTyped, Widths DEF TypeInv, Draining
  <2>4. span' = 0 /\ room' = room
    BY <1>3 DEF Consume, producer
  <2>5. Used' + room' <= Size /\ span' <= Used'
    BY <1>a, <2>1, <2>3, <2>4 DEF NoOverwrite
  <2>6. Slot(tail)' + span' <= Size
    BY <1>a, <2>3, <2>4 DEF Slot
  <2> QED BY <2>2, <2>5, <2>6 DEF NoOverwrite
<1> QED BY <1>1, <1>2, <1>3 DEF Drain

LEMMA RingStep == TypeInv /\ NoOverwrite /\ [Next]_vars => TypeInv' /\ NoOverwrite'
<1>1. TypeInv /\ NoOverwrite /\ UNCHANGED vars => TypeInv' /\ NoOverwrite'
  BY UsedKept DEF TypeInv, NoOverwrite, vars, producer, consumer, Storage, Counters, Pushing,
     Draining, Slot
<1> QED BY <1>1, PushStep, DrainStep DEF Next

LEMMA RingInvariant == Spec => [](TypeInv /\ NoOverwrite)
BY TypeInit, RingStep, PTL DEF Spec

(* The counters keep to their width, and what a task holds between two     *)
(* steps to what it has read of the other's.                               *)
THEOREM TypeCorrect == Spec => []TypeOK
<1>1. TypeInv => TypeOK
  BY TypeInvTyped
<1> QED BY <1>1, RingInvariant, PTL

(* The producer never writes a slot that is still to be read, although it  *)
(* may copy on a tail that has moved since and the counters may wrap.      *)
THEOREM NothingOverwritten == Spec => []NoOverwrite
BY RingInvariant, PTL

-----------------------------------------------------------------------------
(* What has been copied stands where it will be published: the consumer    *)
(* cannot see it yet.                                                      *)
Copied == \A i \in 0..put - 1 : buf[Slot(head + i)] = chunk[i + 1]

RingInv == TypeInv /\ NoOverwrite /\ Copied

LEMMA Numbers ==
  ASSUME TypeInv, NoOverwrite
  PROVE  /\ Size \in Nat \ {0} /\ head \in Nat /\ tail \in Nat /\ Used \in Nat
         /\ room \in Nat /\ put \in 0..room /\ span \in 0..Used /\ fed \in 0..span
         /\ Used + room <= Size
<1>1. room \in Nat /\ put \in 0..room
  BY ChunkTyped DEF TypeInv, Pushing
<1>2. Used \in Nat /\ head \in Nat /\ tail \in Nat
  BY UsedTyped, Widths DEF TypeInv, Counters
<1>3. span \in Nat /\ fed \in 0..span
  BY Widths DEF TypeInv, Draining
<1> QED BY <1>1, <1>2, <1>3, Widths DEF NoOverwrite

(* Where the free space begins, seen from the other index.                 *)
LEMMA HeadSlots ==
  ASSUME TypeInv, NEW i \in Nat
  PROVE  Slot(tail + Used + i) = Slot(head + i)
<1>1. /\ head \in Nat /\ tail \in Nat /\ IndexMod \in Nat
      /\ Used = IF head >= tail THEN head - tail ELSE head - tail + IndexMod
  BY UsedTyped, Widths DEF TypeInv, Counters
<1>2. CASE head >= tail
  <2>1. tail + Used + i = head + i
    BY <1>1, <1>2
  <2> QED BY <2>1
<1>3. CASE head < tail
  <2>1. tail + Used + i \in Int /\ (tail + Used + i) - IndexMod = head + i
    BY <1>1, <1>3
  <2> QED BY <2>1, SlotWraps
<1> QED BY <1>1, <1>2, <1>3

(* A byte that is copied leaves alone what is queued and what was copied.  *)
LEMMA CopyApart ==
  ASSUME TypeInv, NoOverwrite, put < room
  PROVE  /\ \A i \in 0..Used - 1 : Slot(tail + i) # Slot(head + put)
         /\ \A i \in 0..put - 1 : Slot(head + i) # Slot(head + put)
<1>1. \A i \in 0..Used - 1 : Slot(tail + i) # Slot(head + put)
  <2> SUFFICES ASSUME NEW i \in 0..Used - 1 PROVE Slot(tail + i) # Slot(head + put)
    OBVIOUS
  <2> DEFINE a == tail + i
             b == tail + Used + put
  <2>1. a \in Int /\ b \in Int /\ a < b /\ b - a < Size
    BY Numbers
  <2>2. Slot(b) = Slot(head + put)
    BY HeadSlots, Numbers
  <2> HIDE DEF a, b
  <2>3. Slot(a) # Slot(b)
    BY <2>1, SlotsDiffer
  <2> QED BY <2>2, <2>3 DEF a
<1>2. \A i \in 0..put - 1 : Slot(head + i) # Slot(head + put)
  <2> SUFFICES ASSUME NEW i \in 0..put - 1 PROVE Slot(head + i) # Slot(head + put)
    OBVIOUS
  <2> DEFINE a == head + i
             b == head + put
  <2>1. a \in Int /\ b \in Int /\ a < b /\ b - a < Size
    BY Numbers
  <2> HIDE DEF a, b
  <2>2. Slot(a) # Slot(b)
    BY <2>1, SlotsDiffer
  <2> QED BY <2>2 DEF a, b
<1> QED BY <1>1, <1>2

LEMMA CopiedStep == RingInv /\ [Next]_vars => Copied'
<1> SUFFICES ASSUME RingInv, [Next]_vars PROVE Copied'
  OBVIOUS
<1>1. CASE PushStart \/ PushEnd
  <2>1. put' = 0
    BY <1>1 DEF PushStart, PushEnd
  <2> QED BY <2>1 DEF Copied
<1>2. CASE PushByte
  <2>1. /\ put \in Nat /\ put < room /\ put' = put + 1 /\ head' = head /\ chunk' = chunk
        /\ buf' = [buf EXCEPT ![Slot(head + put)] = chunk[put + 1]]
    BY <1>2, Numbers DEF PushByte, RingInv
  <2>2. Slot(head + put) \in 0..Size - 1 /\ buf \in [0..Size - 1 -> Nat]
    <3>1. head + put \in Int
      BY Numbers DEF RingInv
    <3> QED BY <3>1, SlotTyped DEF RingInv, TypeInv, Storage
  <2> SUFFICES ASSUME NEW i \in 0..put PROVE buf'[Slot(head + i)] = chunk[i + 1]
    BY <2>1 DEF Copied, Slot
  <2>3. CASE i = put
    BY <2>1, <2>2, <2>3
  <2>4. CASE i # put
    <3>1. i \in 0..put - 1 /\ Slot(head + i) # Slot(head + put)
      BY <2>1, <2>4, CopyApart DEF RingInv
    <3>2. Slot(head + i) \in 0..Size - 1
      BY <3>1, <2>1, Numbers, SlotTyped DEF RingInv
    <3> QED BY <2>1, <2>2, <3>1, <3>2 DEF RingInv, Copied
  <2> QED BY <2>3, <2>4
<1>3. CASE Drain \/ UNCHANGED vars
  <2>1. buf' = buf /\ put' = put /\ head' = head /\ chunk' = chunk
    BY <1>3 DEF Drain, DrainSlice, DrainByte, Consume, producer, vars
  <2> QED BY <2>1 DEF RingInv, Copied, Slot
<1> QED BY <1>1, <1>2, <1>3 DEF Next, Push

LEMMA RingInvariantCopied == Spec => []RingInv
<1>1. Init => RingInv
  BY TypeInit DEF RingInv, Copied, Init
<1>2. RingInv /\ [Next]_vars => RingInv'
  BY RingStep, CopiedStep DEF RingInv
<1> QED BY <1>1, <1>2, PTL DEF Spec

-----------------------------------------------------------------------------
(* The queue that the ring is.                                             *)
LEMMA Spelled == ASSUME NEW s \in Seq(Nat) PROVE s = [i \in 1..Len(s) |-> s[i]]
OBVIOUS

LEMMA TailSpelled ==
  ASSUME NEW s \in Seq(Nat), s # <<>>, NEW m \in Nat, m = Len(s) - 1
  PROVE  Tail(s) = [i \in 1..m |-> s[i + 1]]
<1> DEFINE t == Tail(s)
<1>1. t \in Seq(Nat) /\ Len(t) = m /\ \A i \in 1..m : t[i] = s[i + 1]
  OBVIOUS
<1> HIDE DEF t
<1>2. t = [i \in 1..m |-> t[i]]
  BY <1>1, Spelled
<1>3. t = [i \in 1..m |-> s[i + 1]]
  BY <1>1, <1>2
<1> QED BY <1>3 DEF t

LEMMA QueuedTyped ==
  ASSUME TypeInv, NoOverwrite
  PROVE  /\ Queued \in Seq(Nat) /\ Len(Queued) = Used - fed /\ Used - fed \in Nat
         /\ \A i \in 1..Used - fed : Queued[i] = buf[Slot(tail + fed + i - 1)]
<1>1. Used - fed \in Nat
  BY Numbers
<1>2. \A i \in 1..Used - fed : buf[Slot(tail + fed + i - 1)] \in Nat
  <2> SUFFICES ASSUME NEW i \in 1..Used - fed PROVE buf[Slot(tail + fed + i - 1)] \in Nat
    OBVIOUS
  <2>1. tail + fed + i - 1 \in Int
    BY Numbers
  <2>2. Slot(tail + fed + i - 1) \in 0..Size - 1
    BY <2>1, SlotTyped
  <2> QED BY <2>2 DEF TypeInv, Storage
<1>3. Queued \in [1..Used - fed -> Nat]
  BY <1>2 DEF Queued
<1>4. Queued \in Seq(Nat) /\ Len(Queued) = Used - fed
  BY <1>1, <1>3
<1> QED BY <1>1, <1>4 DEF Queued

(* A step that changes neither end of the queue nor what is in it.         *)
LEMMA QueuedKept ==
  ASSUME TypeInv, NoOverwrite, head' = head, tail' = tail, fed' = fed,
         \A i \in 0..Used - 1 : buf'[Slot(tail + i)] = buf[Slot(tail + i)]
  PROVE  Queued' = Queued
<1>1. Used' = Used
  BY UsedKept
<1>2. ASSUME NEW i \in 1..Used - fed
      PROVE  buf'[Slot(tail + fed + i - 1)] = buf[Slot(tail + fed + i - 1)]
  <2> DEFINE k == fed + i - 1
  <2>1. k \in 0..Used - 1 /\ tail + k = tail + fed + i - 1
    BY Numbers
  <2> QED BY <2>1
<1>3. Queued' = [i \in 1..Used - fed |-> buf'[Slot(tail + fed + i - 1)]]
  BY <1>1 DEF Queued, Slot
<1> QED BY <1>2, <1>3 DEF Queued

LEMMA PushByteKeeps == RingInv /\ PushByte => Queued' = Queued
<1> SUFFICES ASSUME RingInv, PushByte PROVE Queued' = Queued
  OBVIOUS
<1>1. TypeInv /\ NoOverwrite /\ put < room
  BY DEF RingInv, PushByte
<1>2. head' = head /\ tail' = tail /\ fed' = fed
  BY DEF PushByte, consumer
<1>3. ASSUME NEW i \in 0..Used - 1 PROVE buf'[Slot(tail + i)] = buf[Slot(tail + i)]
  <2>1. Slot(tail + i) # Slot(head + put)
    BY <1>1, CopyApart
  <2>2. tail + i \in Int
    BY <1>1, Numbers
  <2>3. Slot(tail + i) \in 0..Size - 1
    BY <2>2, SlotTyped
  <2> QED BY <2>1, <2>3, <1>1 DEF PushByte, TypeInv, Storage
<1> QED BY <1>1, <1>2, <1>3, QueuedKept

LEMMA ConsumeKeeps == RingInv /\ Consume => Queued' = Queued
<1> SUFFICES ASSUME RingInv, Consume PROVE Queued' = Queued
  OBVIOUS
<1>1. TypeInv /\ NoOverwrite /\ fed = span /\ fed' = 0 /\ buf' = buf
  BY DEF RingInv, Consume
<1>2. Used' = Used - span /\ (tail' = tail + span \/ tail' = tail + span - IndexMod)
  BY <1>1, Consumed
<1>n. /\ tail \in Nat /\ span \in Nat /\ fed \in Nat /\ Used \in Nat
      /\ IndexMod \in Nat /\ tail' \in Int
  BY <1>1, <1>2, Numbers, Widths
<1>3. Used' - fed' = Used - fed
  BY <1>1, <1>2, <1>n
<1>4. ASSUME NEW i \in 1..Used - fed
      PROVE  Slot(tail' + fed' + i - 1) = Slot(tail + fed + i - 1)
  <2> DEFINE k == tail + fed + i - 1
  <2>1. k \in Int
    BY <1>n
  <2>2. tail' + fed' + i - 1 = k \/ tail' + fed' + i - 1 = k - IndexMod
    <3>1. fed' = 0 /\ span = fed /\ i \in Int
      BY <1>1, <1>n
    <3>2. CASE tail' = tail + span
      BY <1>n, <3>1, <3>2
    <3>3. CASE tail' = tail + span - IndexMod
      BY <1>n, <3>1, <3>3
    <3> QED BY <1>2, <3>2, <3>3
  <2> HIDE DEF k
  <2>3. Slot(tail' + fed' + i - 1) = Slot(k)
    BY <2>1, <2>2, SlotWraps
  <2> QED BY <2>3 DEF k
<1>5. Queued' = [i \in 1..Used - fed |-> buf[Slot(tail' + fed' + i - 1)]]
  BY <1>1, <1>3 DEF Queued, Slot
<1> QED BY <1>4, <1>5 DEF Queued

(* The byte that the sink sees is the first of the queue.                  *)
LEMMA DrainByteGets == RingInv /\ DrainByte => Queue!Get
<1> SUFFICES ASSUME RingInv, DrainByte PROVE Queue!Get
  OBVIOUS
<1>1. /\ TypeInv /\ NoOverwrite /\ fed < span /\ fed' = fed + 1 /\ buf' = buf
      /\ head' = head /\ tail' = tail /\ out' = buf[Slot(tail) + fed]
  BY DEF RingInv, DrainByte, producer
<1>2. Slot(tail) + fed = Slot(tail + fed)
  <2>1. tail \in Int /\ fed \in Nat /\ span \in Nat /\ Size \in Nat
    BY <1>1, Numbers
  <2>2. Slot(tail) \in Int /\ Slot(tail) + span <= Size
    <3>1. Slot(tail) \in 0..Size - 1
      BY <2>1, SlotTyped
    <3> QED BY <3>1, <2>1, <1>1 DEF NoOverwrite
  <2>3. Slot(tail) + fed < Size
    BY <1>1, <2>1, <2>2
  <2> QED BY <2>1, <2>3, SlotsFollow
<1>n. tail \in Nat /\ fed \in Nat /\ span \in Nat /\ Used \in Nat /\ fed < Used
  BY <1>1, Numbers
<1>3. Queued \in Seq(Nat) /\ Len(Queued) = Used - fed /\ Used - fed \in Nat \ {0}
  BY <1>1, <1>n, QueuedTyped
<1>4. Head(Queued) = out' /\ Queued # <<>>
  <2>1. 1 \in 1..Used - fed /\ tail + fed + 1 - 1 = tail + fed
    BY <1>n
  <2>2. Queued[1] = buf[Slot(tail + fed)]
    BY <2>1, <1>1, QueuedTyped
  <2> QED BY <1>1, <1>2, <1>3, <2>2
<1>5. Queued' = Tail(Queued)
  <2>1. Used' = Used /\ Used - fed' = (Used - fed) - 1
    BY <1>1, <1>n, UsedKept
  <2> DEFINE m == (Used - fed) - 1
  <2>m. m \in Nat
    BY <1>n
  <2>2. Queued' = [i \in 1..m |-> buf[Slot(tail + fed' + i - 1)]]
    BY <1>1, <2>1 DEF Queued, Slot
  <2>3. Tail(Queued) = [i \in 1..m |-> Queued[i + 1]]
    <3> DEFINE s == Queued
    <3>1. s \in Seq(Nat) /\ s # <<>> /\ Len(s) - 1 = m
      BY <1>3, <1>4
    <3> HIDE DEF s, m
    <3>2. Tail(s) = [i \in 1..m |-> s[i + 1]]
      BY <2>m, <3>1, TailSpelled
    <3> QED BY <3>2 DEF s
  <2>4. ASSUME NEW i \in 1..m
        PROVE  Queued[i + 1] = buf[Slot(tail + fed' + i - 1)]
    <3>1. i + 1 \in 1..Used - fed /\ tail + fed + (i + 1) - 1 = tail + fed' + i - 1
      BY <1>1, <1>n
    <3>2. Queued[i + 1] = buf[Slot(tail + fed + (i + 1) - 1)]
      BY <1>1, <3>1, QueuedTyped
    <3> QED BY <3>1, <3>2
  <2> HIDE DEF m
  <2> QED BY <2>2, <2>3, <2>4
<1> QED BY <1>4, <1>5 DEF Queue!Get

(* The index that is published makes what was copied the queue's end.      *)
LEMMA PushEndPuts == RingInv /\ PushEnd => Queue!Put
<1> SUFFICES ASSUME RingInv, PushEnd PROVE Queue!Put
  OBVIOUS
<1>1. /\ TypeInv /\ NoOverwrite /\ Copied /\ chunk # <<>> /\ put = room /\ buf' = buf
      /\ tail' = tail /\ fed' = fed /\ out' = out
  BY DEF RingInv, PushEnd, consumer
<1>2. chunk \in Chunks /\ chunk \in Seq(Nat) /\ Len(chunk) \in Nat /\ room \in 0..Len(chunk)
  BY <1>1, ChunkTyped DEF TypeInv, Pushing
<1>n. /\ tail \in Nat /\ head \in Nat /\ fed \in Nat /\ Used \in Nat /\ fed <= Used
      /\ room \in Nat /\ Used + room <= Size /\ Size \in Nat
  BY <1>1, Numbers
<1>3. Used' = Used + room
  BY <1>1, Pushed
<1>4. Queued \in Seq(Nat) /\ Len(Queued) = Used - fed /\ Used - fed \in Nat
  BY <1>1, QueuedTyped
<1>5. Len(Queued) + room <= Size
  BY <1>4, <1>n
<1> DEFINE n == Used - fed
           m == n + room
           s == Queued
           e == SubSeq(chunk, 1, room)
<1>6. m \in Nat /\ n \in Nat /\ Used' - fed' = m
  BY <1>1, <1>3, <1>n, <1>4
<1>7. e \in Seq(Nat) /\ Len(e) = room /\ \A i \in 1..room : e[i] = chunk[i]
  BY <1>2
<1>8. s \o e = [i \in 1..m |-> IF i <= n THEN s[i] ELSE e[i - n]]
  <2>1. s \in Seq(Nat) /\ Len(s) = n
    BY <1>4
  <2>2. m = n + Len(e)
    BY <1>7
  <2> HIDE DEF s, e, n, m
  <2>3. s \in Seq(Nat) /\ e \in Seq(Nat) /\ n \in Nat /\ m \in Nat /\ n = Len(s)
    BY <2>1, <1>6, <1>7
  <2> DEFINE t == s \o e
  <2>4. t \in Seq(Nat) /\ Len(t) = m /\ \A i \in 1..m : t[i] = IF i <= n THEN s[i] ELSE e[i - n]
    BY <2>2, <2>3
  <2> HIDE DEF t
  <2>5. t = [i \in 1..m |-> t[i]]
    BY <2>4, Spelled
  <2>6. t = [i \in 1..m |-> IF i <= n THEN s[i] ELSE e[i - n]]
    BY <2>4, <2>5
  <2> QED BY <2>6 DEF t
<1>9. Queued' = [i \in 1..m |-> buf[Slot(tail + fed + i - 1)]]
  BY <1>1, <1>6 DEF Queued, Slot
<1>10. ASSUME NEW i \in 1..m
       PROVE  buf[Slot(tail + fed + i - 1)] = IF i <= n THEN s[i] ELSE e[i - n]
  <2>1. CASE i <= n
    <3>1. i \in 1..Used - fed
      BY <2>1, <1>6
    <3> QED BY <2>1, <3>1, <1>1, QueuedTyped
  <2>2. CASE ~(i <= n)
    <3> DEFINE k == i - n - 1
    <3>1. k \in 0..room - 1 /\ k \in Nat /\ k + 1 = i - n /\ k + 1 \in 1..room
      BY <2>2, <1>6, <1>n
    <3>2. tail + fed + i - 1 = tail + Used + k
      BY <1>n, <1>6
    <3> HIDE DEF k
    <3>3. Slot(tail + Used + k) = Slot(head + k)
      BY <1>1, <3>1, HeadSlots
    <3>4. buf[Slot(head + k)] = chunk[k + 1]
      BY <1>1, <3>1 DEF Copied
    <3>5. e[k + 1] = chunk[k + 1]
      BY <1>7, <3>1
    <3> HIDE DEF e, n
    <3> QED BY <2>2, <3>1, <3>2, <3>3, <3>4, <3>5
  <2> QED BY <2>1, <2>2
<1>11. Queued' = Queued \o SubSeq(chunk, 1, room)
  <2>1. Queued' = s \o e
    <3> HIDE DEF s, e, n, m
    <3> QED BY <1>8, <1>9, <1>10
  <2> QED BY <2>1
<1> QED BY <1>1, <1>2, <1>5, <1>11 DEF Queue!Put

LEMMA QueueInit == Init => Queue!QInit
<1> SUFFICES ASSUME Init PROVE Queue!QInit
  OBVIOUS
<1>1. TypeInv /\ NoOverwrite
  BY TypeInit
<1>2. Used = 0 /\ fed = 0
  BY <1>1, UsedTyped DEF Init
<1>3. Queued = <<>>
  <2>1. Queued \in Seq(Nat) /\ Len(Queued) = 0
    BY <1>1, <1>2, QueuedTyped
  <2> QED BY <2>1
<1>4. out \in Queue!Bytes
  <2>1. 0 \in 0..Size - 1
    BY Widths
  <2> QED BY <2>1 DEF Init, Queue!Bytes
<1> QED BY <1>3, <1>4 DEF Queue!QInit

LEMMA QueueStep == RingInv /\ [Next]_vars => [Queue!QNext]_<<Queued, out>>
<1> SUFFICES ASSUME RingInv, [Next]_vars PROVE [Queue!QNext]_<<Queued, out>>
  OBVIOUS
<1>1. CASE PushStart
  <2>1. head' = head /\ tail' = tail /\ fed' = fed /\ buf' = buf /\ out' = out
    BY <1>1 DEF PushStart, consumer
  <2> QED BY <2>1, QueuedKept DEF RingInv
<1>2. CASE PushByte
  BY <1>2, PushByteKeeps DEF PushByte, consumer
<1>3. CASE PushEnd
  BY <1>3, PushEndPuts DEF Queue!QNext
<1>4. CASE DrainSlice
  <2>1. fed = 0
    BY <1>4 DEF DrainSlice, RingInv, TypeInv, Draining
  <2>2. head' = head /\ tail' = tail /\ fed' = fed /\ buf' = buf /\ out' = out
    BY <1>4, <2>1 DEF DrainSlice, producer
  <2> QED BY <2>2, QueuedKept DEF RingInv
<1>5. CASE DrainByte
  BY <1>5, DrainByteGets DEF Queue!QNext
<1>6. CASE Consume
  BY <1>6, ConsumeKeeps DEF Consume
<1>7. CASE UNCHANGED vars
  <2>1. head' = head /\ tail' = tail /\ fed' = fed /\ buf' = buf /\ out' = out
    BY <1>7 DEF vars, producer, consumer
  <2> QED BY <2>1, QueuedKept DEF RingInv
<1> QED BY <1>1, <1>2, <1>3, <1>4, <1>5, <1>6, <1>7 DEF Next, Push, Drain

(* The ring is the queue of ByteQueue, byte by byte, for every size of the *)
(* storage and wherever the counters wrap.                                 *)
THEOREM RingIsQueue == Spec => IsQueue
<1>1. Spec => []RingInv
  BY RingInvariantCopied
<1>2. Init => Queue!QInit
  BY QueueInit
<1>3. RingInv /\ [Next]_vars => [Queue!QNext]_<<Queued, out>>
  BY QueueStep
<1> QED BY <1>1, <1>2, <1>3, PTL DEF Spec, IsQueue, Queue!QSpec
=============================================================================
