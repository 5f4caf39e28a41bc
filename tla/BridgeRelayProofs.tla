-------------------------- MODULE BridgeRelayProofs --------------------------
(***************************************************************************)
(* Both directions of the ESP32-S3 bridge keep the order of the packets,   *)
(* for any number of packets, stations and frames in flight and for queues *)
(* of any depth: BridgeRelay implements LossyFifo, twice.                  *)
(***************************************************************************)
EXTENDS BridgeRelay, TLAPS

LEMMA Bounds ==
  /\ NumIn \in Nat \ {0} /\ NumOut \in Nat \ {0} /\ InDepth \in Nat \ {0}
  /\ OutDepth \in Nat \ {0} /\ MaxFlight \in Nat \ {0}
  /\ Saved \in Stations \cup {None} /\ None \notin Stations
BY BridgeAssumption

Ascends(s) == \A i, k \in 1..Len(s) : i < k => s[i] < s[k]
Below(s, n) == \A i \in 1..Len(s) : s[i] < n

LEMMA Appended ==
  ASSUME NEW S, NEW s \in Seq(S), NEW x \in S
  PROVE  /\ Append(s, x) \in Seq(S) /\ Len(Append(s, x)) = Len(s) + 1
         /\ Append(s, x)[Len(s) + 1] = x
         /\ \A k \in 1..Len(s) : Append(s, x)[k] = s[k]
OBVIOUS

LEMMA Taken ==
  ASSUME NEW S, NEW s \in Seq(S), s # <<>>
  PROVE  /\ Head(s) \in S /\ Head(s) = s[1] /\ Tail(s) \in Seq(S)
         /\ Len(s) \in Nat \ {0} /\ Len(Tail(s)) = Len(s) - 1
         /\ \A k \in 1..Len(s) - 1 : Tail(s)[k] = s[k + 1]
OBVIOUS

LEMMA Elements ==
  ASSUME NEW S, NEW s \in Seq(S)
  PROVE  Len(s) \in Nat /\ \A k \in 1..Len(s) : s[k] \in S
OBVIOUS

LEMMA Numbers ==
  ASSUME NEW n, NEW s \in Seq(1..n), n \in Nat
  PROVE  s \in Seq(Int) /\ Len(s) \in Nat /\ \A k \in 1..Len(s) : s[k] \in Int
<1>1. Len(s) \in Nat /\ \A k \in 1..Len(s) : s[k] \in 1..n
  OBVIOUS
<1>2. \A k \in 1..Len(s) : s[k] \in Int
  BY <1>1
<1>3. s = [k \in 1..Len(s) |-> s[k]]
  OBVIOUS
<1>4. [k \in 1..Len(s) |-> s[k]] \in Seq(Int)
  BY <1>1, <1>2
<1> QED BY <1>1, <1>2, <1>3, <1>4

LEMMA AppendedBelow ==
  ASSUME NEW s \in Seq(Int), NEW x \in Int, NEW n \in Int, Below(s, n), x < n
  PROVE  Below(Append(s, x), n)
<1>1. Len(Append(s, x)) = Len(s) + 1 /\ Append(s, x)[Len(s) + 1] = x
  BY Appended
<1>2. \A k \in 1..Len(s) : Append(s, x)[k] = s[k]
  BY Appended
<1>3. Len(s) \in Nat
  OBVIOUS
<1> QED BY <1>1, <1>2, <1>3 DEF Below

LEMMA AppendedAscends ==
  ASSUME NEW s \in Seq(Int), NEW x \in Int, Ascends(s), Below(s, x)
  PROVE  Ascends(Append(s, x))
<1>1. Len(Append(s, x)) = Len(s) + 1 /\ Append(s, x)[Len(s) + 1] = x
  BY Appended
<1>2. \A k \in 1..Len(s) : Append(s, x)[k] = s[k]
  BY Appended
<1>3. Len(s) \in Nat
  OBVIOUS
<1>4. ASSUME NEW i \in 1..Len(s) + 1, NEW k \in 1..Len(s) + 1, i < k
      PROVE  Append(s, x)[i] < Append(s, x)[k]
  <2>1. CASE k = Len(s) + 1
    BY <2>1, <1>1, <1>2, <1>3, <1>4 DEF Below
  <2>2. CASE k # Len(s) + 1
    <3>1. i \in 1..Len(s) /\ k \in 1..Len(s)
      BY <2>2, <1>3, <1>4
    <3>2. s[i] < s[k]
      BY <3>1, <1>4 DEF Ascends
    <3> QED BY <3>1, <3>2, <1>2
  <2> QED BY <2>1, <2>2
<1> QED BY <1>1, <1>4 DEF Ascends

LEMMA TakenAscends ==
  ASSUME NEW s \in Seq(Int), s # <<>>, Ascends(s)
  PROVE  Ascends(Tail(s)) /\ \A k \in 1..Len(Tail(s)) : Head(s) < Tail(s)[k]
<1>1. \A k \in 1..Len(s) - 1 : k + 1 \in 1..Len(s) /\ 1 \in 1..Len(s) /\ 1 < k + 1
  BY Taken
<1> QED BY <1>1, Taken DEF Ascends

-----------------------------------------------------------------------------
(* TypeOK by the parts of the bridge, and what the tasks hold: the inbound *)
(* worker a packet that came in, a task before the send a MOD_ACK or, the  *)
(* outbound worker, a chunk.                                               *)
Addresses ==
  /\ peer \in Stations \cup {None} /\ learn \in Stations \cup {None}
  /\ ackTo \in Stations \cup {None} /\ mac \in [Task -> Stations \cup {None}]
Packets ==
  /\ inq \in Seq(1..NumIn) /\ Len(inq) <= InDepth
  /\ recvd \in 0..NumIn /\ written \in Seq(1..NumIn)
Chunks ==
  /\ outq \in Seq(1..NumOut) /\ Len(outq) <= OutDepth
  /\ read \in 0..NumOut /\ heard \in Seq(1..NumOut)
Places ==
  /\ pc \in [Task -> {"top", "learn", "ack", "pull", "write", "full", "lock", "wait"}]
  /\ pkt \in [Task -> 0..NumIn \cup 0..NumOut]
Sending ==
  /\ lock \in Task \cup {None} /\ done \in BOOLEAN
  /\ flight \in Seq([by : Task, id : 0..NumOut]) /\ Len(flight) <= MaxFlight
Holds ==
  /\ pc["in"] = "write" => pkt["in"] \in 1..NumIn
  /\ \A t \in Task : pc[t] = "lock" => pkt[t] \in 0..NumOut /\ (t # "out" => pkt[t] = 0)
  /\ pc["rx"] = "full" => read \in 1..NumOut

TypeInv == Addresses /\ Packets /\ Chunks /\ Places /\ Sending /\ Holds

LEMMA TypeInvTyped == TypeInv => TypeOK
BY DEF TypeInv, Addresses, Packets, Chunks, Places, Sending, TypeOK

LEMMA TypeInit == Init => TypeInv
<1> SUFFICES ASSUME Init PROVE TypeInv
  OBVIOUS
<1>1. Holds /\ Places /\ Addresses
  BY Bounds DEF Init, Holds, Task, Places, Addresses
<1>2. inq \in Seq(1..NumIn) /\ outq \in Seq(1..NumOut) /\ written \in Seq(1..NumIn)
      /\ heard \in Seq(1..NumOut) /\ flight \in Seq([by : Task, id : 0..NumOut])
  BY DEF Init
<1>3. Len(inq) = 0 /\ Len(outq) = 0 /\ Len(flight) = 0
  BY DEF Init
<1>4. Packets
  BY <1>2, <1>3, Bounds DEF Init, Packets
<1>5. Chunks
  BY <1>2, <1>3, Bounds DEF Init, Chunks
<1>6. Sending
  <2>1. done \in BOOLEAN /\ lock \in Task \cup {None}
    BY DEF Init
  <2>2. Len(flight) <= MaxFlight
    BY <1>3, Bounds
  <2> QED BY <1>2, <2>1, <2>2 DEF Sending
<1> QED BY <1>1, <1>4, <1>5, <1>6 DEF TypeInv

LEMMA TypeNext == TypeInv /\ [Step]_vars => TypeInv'
<1> SUFFICES ASSUME TypeInv, [Step]_vars PROVE TypeInv'
  OBVIOUS
<1> USE Bounds DEF TypeInv, learning, inbound, outbound, local, radio, At, Goto, Leave
<1>t. "in" \in Task /\ "out" \in Task /\ "rx" \in Task /\ Task = {"in", "out", "rx"}
  BY DEF Task
<1>1. ASSUME NEW s \in Stations, RecvProbe(s) PROVE TypeInv'
  BY <1>1 DEF RecvProbe, Addresses, Packets, Chunks, Places, Sending, Holds
<1>2. ASSUME NEW s \in Stations, RecvData(s) PROVE TypeInv'
  <2>1. Addresses' /\ Chunks' /\ Places' /\ Sending'
    BY <1>2 DEF RecvData, Addresses, Chunks, Places, Sending
  <2>2. Packets'
    <3>1. recvd' \in 1..NumIn
      BY <1>2 DEF RecvData, Traffic, Packets
    <3>2. inq' \in Seq(1..NumIn) /\ Len(inq') <= InDepth
      <4>1. CASE Len(inq) < InDepth
        <5>1. inq' = Append(inq, recvd') /\ inq \in Seq(1..NumIn)
          BY <1>2, <4>1 DEF RecvData, Packets
        <5>2. Append(inq, recvd') \in Seq(1..NumIn) /\ Len(Append(inq, recvd')) = Len(inq) + 1
          BY <3>1, <5>1, Appended
        <5>3. Len(inq) \in Nat
          BY <5>1
        <5> QED BY <4>1, <5>1, <5>2, <5>3
      <4>2. CASE ~(Len(inq) < InDepth)
        BY <1>2, <4>2 DEF RecvData, Packets
      <4> QED BY <4>1, <4>2
    <3> QED BY <1>2, <3>1, <3>2 DEF RecvData, Packets
  <2>3. Holds'
    BY <1>2 DEF RecvData, Holds, Packets
  <2> QED BY <2>1, <2>2, <2>3
<1>3. ASSUME NEW t \in Task, LearnTake(t) PROVE TypeInv'
  <2>1. Packets' /\ Chunks' /\ Sending'
    BY <1>3 DEF LearnTake, Packets, Chunks, Sending
  <2>2. Addresses' /\ Places' /\ Holds'
    BY <1>3, <1>t DEF LearnTake, Addresses, Places, Holds
  <2> QED BY <2>1, <2>2
<1>4. ASSUME NEW t \in Task, LearnApply(t) PROVE TypeInv'
  <2>1. Packets' /\ Chunks' /\ Sending'
    BY <1>4 DEF LearnApply, Packets, Chunks, Sending
  <2>2. Addresses' /\ Places' /\ Holds'
    BY <1>4, <1>t DEF LearnApply, Addresses, Places, Holds
  <2> QED BY <2>1, <2>2
<1>5. ASSUME NEW t \in Task, AckTake(t) PROVE TypeInv'
  <2>1. Packets' /\ Chunks' /\ Sending'
    BY <1>5 DEF AckTake, Packets, Chunks, Sending
  <2>2. Addresses' /\ Places'
    BY <1>5, <1>t DEF AckTake, Addresses, Places
  <2>3. Holds'
    BY <1>5, <1>t DEF AckTake, Places, Holds, Chunks, Packets
  <2> QED BY <2>1, <2>2, <2>3
<1>6. ASSUME NEW t \in Task, Send(t) PROVE TypeInv'
  <2>1. Addresses' /\ Packets' /\ Chunks' /\ Places' /\ Holds'
    BY <1>6, <1>t DEF Send, Addresses, Packets, Chunks, Places, Holds
  <2>2. [by |-> t, id |-> pkt[t]] \in [by : Task, id : 0..NumOut]
    BY <1>6 DEF Send, Holds, Chunks
  <2>3. flight' \in Seq([by : Task, id : 0..NumOut]) /\ Len(flight') = Len(flight) + 1
    BY <1>6, <2>2, Appended DEF Send, Sending
  <2>4. Len(flight') <= MaxFlight
    <3>1. Len(flight) \in Nat /\ Len(flight) < MaxFlight
      BY <1>6 DEF Send, Sending
    <3> QED BY <2>3, <3>1
  <2>5. Sending'
    BY <1>6, <2>3, <2>4 DEF Send, Sending
  <2> QED BY <2>1, <2>5
<1>7. ASSUME NEW t \in Task, SendFails(t) PROVE TypeInv'
  <2>1. Packets' /\ Chunks' /\ Sending'
    BY <1>7 DEF SendFails, Packets, Chunks, Sending
  <2>2. Addresses' /\ Places' /\ Holds'
    BY <1>7, <1>t DEF SendFails, After, Addresses, Places, Holds
  <2> QED BY <2>1, <2>2
<1>8. ASSUME NEW t \in Task, SendDone(t) PROVE TypeInv'
  <2>1. Packets' /\ Chunks' /\ Sending'
    BY <1>8 DEF SendDone, Packets, Chunks, Sending
  <2>2. Addresses' /\ Places' /\ Holds'
    BY <1>8, <1>t DEF SendDone, After, Addresses, Places, Holds
  <2> QED BY <2>1, <2>2
<1>9. ASSUME NEW t \in Task, SendTimeout(t) PROVE TypeInv'
  <2>1. Packets' /\ Chunks' /\ Sending'
    BY <1>9 DEF SendTimeout, Packets, Chunks, Sending
  <2>2. Addresses' /\ Places' /\ Holds'
    BY <1>9, <1>t DEF SendTimeout, After, Addresses, Places, Holds
  <2> QED BY <2>1, <2>2
<1>10. ASSUME PullIn PROVE TypeInv'
  <2>1. Addresses' /\ Chunks' /\ Sending'
    BY <1>10 DEF PullIn, Addresses, Chunks, Sending
  <2>2. CASE inq = <<>>
    BY <1>10, <1>t, <2>1, <2>2 DEF PullIn, Packets, Places, Holds
  <2>3. CASE inq # <<>>
    <3>1. /\ Head(inq) \in 1..NumIn /\ Tail(inq) \in Seq(1..NumIn)
          /\ Len(inq) \in Nat /\ Len(Tail(inq)) = Len(inq) - 1
      BY <2>3, Taken DEF Packets
    <3>2. Packets'
      <4>1. inq' = Tail(inq)
        BY <1>10, <2>3 DEF PullIn
      <4> QED BY <1>10, <3>1, <4>1 DEF PullIn, Packets
    <3>3. Places'
      BY <1>10, <1>t, <2>3, <3>1 DEF PullIn, Places
    <3>4. Holds'
      BY <1>10, <1>t, <2>3, <3>1 DEF PullIn, Places, Holds
    <3> QED BY <2>1, <3>2, <3>3, <3>4
  <2> QED BY <2>2, <2>3
<1>11. ASSUME Write PROVE TypeInv'
  <2>1. Chunks' /\ Sending'
    BY <1>11 DEF Write, Chunks, Sending
  <2>2. Packets'
    <3>1. Append(written, pkt["in"]) \in Seq(1..NumIn)
      BY <1>11, Appended DEF Write, Packets, Holds
    <3> QED BY <1>11, <3>1 DEF Write, Packets
  <2>3. Addresses' /\ Places' /\ Holds'
    BY <1>11, <1>t DEF Write, Addresses, Places, Holds
  <2> QED BY <2>1, <2>2, <2>3
<1>12. ASSUME PullOut PROVE TypeInv'
  <2>1. Packets' /\ Sending'
    BY <1>12 DEF PullOut, Packets, Sending
  <2>2. CASE outq = <<>>
    BY <1>12, <1>t, <2>1, <2>2 DEF PullOut, Addresses, Chunks, Places, Holds
  <2>3. CASE outq # <<>>
    <3>1. /\ Head(outq) \in 1..NumOut /\ Tail(outq) \in Seq(1..NumOut)
          /\ Len(outq) \in Nat /\ Len(Tail(outq)) = Len(outq) - 1
      BY <2>3, Taken DEF Chunks
    <3>2. Chunks'
      <4>1. outq' = Tail(outq)
        BY <1>12, <2>3 DEF PullOut
      <4> QED BY <1>12, <3>1, <4>1 DEF PullOut, Chunks
    <3>3. Addresses' /\ Places'
      BY <1>12, <1>t, <2>3, <3>1 DEF PullOut, Addresses, Places
    <3>4. Holds'
      BY <1>12, <1>t, <2>3, <3>1 DEF PullOut, Places, Holds
    <3> QED BY <2>1, <3>2, <3>3, <3>4
  <2> QED BY <2>2, <2>3
<1>13. ASSUME ReadUart PROVE TypeInv'
  <2>1. Addresses' /\ Packets' /\ Sending'
    BY <1>13 DEF ReadUart, Addresses, Packets, Sending
  <2>2. Places' /\ Holds'
    BY <1>13, <1>t DEF ReadUart, Traffic, Places, Holds, Chunks
  <2>3. Chunks'
    <3>1. CASE /\ outq' = Append(outq, read') /\ read' = read + 1
               /\ read < NumOut /\ Len(outq) < OutDepth
      <4>1. read' \in 1..NumOut /\ outq \in Seq(1..NumOut) /\ Len(outq) \in Nat
        BY <3>1 DEF Chunks
      <4>2. Append(outq, read') \in Seq(1..NumOut) /\ Len(Append(outq, read')) = Len(outq) + 1
        BY <4>1, Appended
      <4> QED BY <1>13, <3>1, <4>1, <4>2 DEF ReadUart, Chunks
    <3>2. CASE outq' = outq /\ read' \in {read, read + 1} /\ read' <= NumOut
      BY <1>13, <3>2 DEF ReadUart, Chunks
    <3> QED BY <1>13, <3>1, <3>2 DEF ReadUart, Traffic, Chunks
  <2> QED BY <2>1, <2>2, <2>3
<1>14. ASSUME FlushUart PROVE TypeInv'
  <2>1. Addresses' /\ Packets' /\ Sending'
    BY <1>14 DEF FlushUart, Addresses, Packets, Sending
  <2>2. Places' /\ Holds' /\ Chunks'
    BY <1>14, <1>t DEF FlushUart, Traffic, Places, Holds, Chunks
  <2> QED BY <2>1, <2>2
<1>15. ASSUME MakeRoom PROVE TypeInv'
  <2>1. Addresses' /\ Packets' /\ Sending'
    BY <1>15 DEF MakeRoom, Addresses, Packets, Sending
  <2>2. Places' /\ Holds'
    BY <1>15, <1>t DEF MakeRoom, Places, Holds
  <2>3. Chunks'
    <3> DEFINE rest == IF outq = <<>> THEN <<>> ELSE Tail(outq)
    <3>1. rest \in Seq(1..NumOut) /\ Len(rest) \in Nat /\ Len(rest) < OutDepth
      <4>1. CASE outq = <<>>
        BY <4>1
      <4>2. CASE outq # <<>>
        <5>1. Tail(outq) \in Seq(1..NumOut) /\ Len(outq) \in Nat /\ Len(Tail(outq)) = Len(outq) - 1
          BY <4>2, Taken DEF Chunks
        <5>2. Len(Tail(outq)) \in Nat
          BY <5>1
        <5> QED BY <4>2, <5>1, <5>2 DEF Chunks
      <4> QED BY <4>1, <4>2
    <3>2. read \in 1..NumOut /\ read' = read /\ outq' = Append(rest, read) /\ heard' = heard
      BY <1>15 DEF MakeRoom, Holds
    <3> HIDE DEF rest
    <3>3. Append(rest, read) \in Seq(1..NumOut) /\ Len(Append(rest, read)) = Len(rest) + 1
      BY <3>1, <3>2, Appended
    <3> QED BY <3>1, <3>2, <3>3 DEF Chunks
  <2> QED BY <2>1, <2>2, <2>3
<1>16. ASSUME OnSent PROVE TypeInv'
  <2>1. Addresses' /\ Packets' /\ Places' /\ Holds'
    BY <1>16 DEF OnSent, Addresses, Packets, Places, Holds
  <2>2. /\ Head(flight) \in [by : Task, id : 0..NumOut]
        /\ Tail(flight) \in Seq([by : Task, id : 0..NumOut])
        /\ Len(flight) \in Nat /\ Len(Tail(flight)) = Len(flight) - 1
    BY <1>16, Taken DEF OnSent, Sending
  <2>3. Sending'
    <3>1. flight' = Tail(flight) /\ done' = TRUE /\ lock' = lock
      BY <1>16 DEF OnSent
    <3>2. Len(Tail(flight)) <= MaxFlight
      BY <2>2 DEF Sending
    <3>3. done' \in BOOLEAN
      BY <3>1
    <3> QED BY <2>2, <3>1, <3>2, <3>3 DEF Sending
  <2>4. Chunks'
    <3>1. CASE Head(flight).id # 0 /\ heard' = Append(heard, Head(flight).id)
      <4>1. Head(flight).id \in 1..NumOut
        BY <2>2, <3>1
      <4>2. Append(heard, Head(flight).id) \in Seq(1..NumOut)
        BY <4>1, Appended DEF Chunks
      <4> QED BY <1>16, <3>1, <4>2 DEF OnSent, Chunks
    <3>2. CASE heard' = heard
      BY <1>16, <3>2 DEF OnSent, Chunks
    <3> QED BY <1>16, <3>1, <3>2 DEF OnSent
  <2> QED BY <2>1, <2>3, <2>4
<1>17. CASE UNCHANGED vars
  BY <1>17 DEF vars, Addresses, Packets, Chunks, Places, Sending, Holds
<1>18. CASE Step
  BY <1>1, <1>2, <1>3, <1>4, <1>5, <1>6, <1>7, <1>8, <1>9, <1>10, <1>11, <1>12, <1>13,
     <1>14, <1>15, <1>16, <1>18, <1>t DEF Step, In, Out, Rx, Worker
<1> QED BY <1>17, <1>18

(* Every variable of the bridge keeps to its values, and no queue grows    *)
(* beyond its depth, for any number of packets and stations.               *)
THEOREM TypeCorrect == Spec => []TypeOK
<1>1. Spec => []TypeInv
  BY TypeInit, TypeNext, PTL DEF Spec
<1> QED BY <1>1, TypeInvTyped, PTL

-----------------------------------------------------------------------------
(* Inbound: what was written precedes what the worker holds, that precedes *)
(* what is queued, and nothing is ahead of what was received.              *)
InOrder ==
  /\ Ascends(inq) /\ Below(inq, recvd + 1) /\ Below(written, recvd + 1)
  /\ \A k \in 1..Len(inq) : Below(written, inq[k])
  /\ pc["in"] = "write" =>
       /\ pkt["in"] <= recvd /\ Below(written, pkt["in"])
       /\ \A k \in 1..Len(inq) : pkt["in"] < inq[k]

InboundStep == [Inbound!Put \/ Inbound!Take]_<<recvd, written>>

LEMMA InKept ==
  ASSUME InOrder, UNCHANGED inbound,
         pc'["in"] = "write" => pc["in"] = "write" /\ pkt'["in"] = pkt["in"]
  PROVE  InOrder' /\ InboundStep
<1>1. inq' = inq /\ recvd' = recvd /\ written' = written
  BY DEF inbound
<1> QED BY <1>1 DEF InOrder, InboundStep, Ascends, Below

LEMMA InNext ==
  ASSUME TypeInv, InOrder, [Step]_vars
  PROVE  InOrder' /\ InboundStep
<1>0. /\ inq \in Seq(Int) /\ written \in Seq(Int) /\ recvd \in Int /\ Len(inq) \in Nat
      /\ Len(written) \in Nat
      /\ (pc["in"] = "write" => pkt["in"] \in 1..NumIn)
      /\ \A k \in 1..Len(inq) : inq[k] \in Int
      /\ \A k \in 1..Len(written) : written[k] \in Int
  <2>1. inq \in Seq(1..NumIn) /\ written \in Seq(1..NumIn) /\ recvd \in Int
    BY DEF TypeInv, Packets
  <2>2. inq \in Seq(Int) /\ written \in Seq(Int) /\ Len(inq) \in Nat /\ Len(written) \in Nat
    BY <2>1, Bounds, Numbers
  <2>3. pc["in"] = "write" => pkt["in"] \in 1..NumIn
    BY DEF TypeInv, Holds
  <2>4. /\ \A k \in 1..Len(inq) : inq[k] \in Int
        /\ \A k \in 1..Len(written) : written[k] \in Int
    BY <2>2
  <2> QED BY <2>1, <2>2, <2>3, <2>4
<1>t. "in" \in Task /\ "out" \in Task /\ "rx" \in Task /\ Task = {"in", "out", "rx"}
  BY DEF Task
<1>1. ASSUME NEW s \in Stations, RecvData(s) PROVE InOrder' /\ InboundStep
  <2>1. recvd' = recvd + 1 /\ recvd < NumIn /\ written' = written /\ UNCHANGED <<pc, pkt>>
    BY <1>0, <1>1, Bounds DEF RecvData, Traffic, local
  <2>2. InboundStep
    BY <2>1 DEF InboundStep, Inbound!Put
  <2>3. /\ Below(inq, recvd' + 1) /\ Below(inq, recvd')
        /\ Below(written, recvd' + 1) /\ Below(written, recvd')
    BY <2>1, <1>0 DEF InOrder, Below
  <2>4. CASE inq' = inq
    BY <2>1, <2>2, <2>3, <2>4, <1>0 DEF InOrder
  <2>5. CASE inq' = Append(inq, recvd')
    <3>1. recvd' \in Int /\ recvd' < recvd' + 1
      BY <2>1, <1>0
    <3>2. Ascends(inq')
      BY <3>1, <2>3, <2>5, <1>0, AppendedAscends DEF InOrder
    <3>3. Below(inq', recvd' + 1)
      BY <3>1, <2>3, <2>5, <1>0, AppendedBelow
    <3>4. /\ Len(inq') = Len(inq) + 1 /\ inq'[Len(inq) + 1] = recvd'
          /\ \A k \in 1..Len(inq) : inq'[k] = inq[k]
      BY <3>1, <2>5, <1>0, Appended
    <3>5. \A k \in 1..Len(inq') : Below(written', inq'[k])
      <4>1. \A k \in 1..Len(inq) : Below(written, inq'[k])
        BY <3>4 DEF InOrder
      <4>2. Below(written, inq'[Len(inq) + 1])
        BY <3>4, <2>3
      <4>3. \A k \in 1..Len(inq') : k \in 1..Len(inq) \/ k = Len(inq) + 1
        BY <3>4, <1>0
      <4> QED BY <4>1, <4>2, <4>3, <2>1
    <3>6. pc'["in"] = "write" =>
            /\ pkt'["in"] <= recvd' /\ Below(written', pkt'["in"])
            /\ \A k \in 1..Len(inq') : pkt'["in"] < inq'[k]
      <4> SUFFICES ASSUME pc["in"] = "write"
                   PROVE  /\ pkt["in"] <= recvd' /\ Below(written, pkt["in"])
                          /\ \A k \in 1..Len(inq') : pkt["in"] < inq'[k]
        BY <2>1
      <4>1. pkt["in"] \in Int /\ pkt["in"] <= recvd /\ Below(written, pkt["in"])
        BY <1>0 DEF InOrder
      <4>2. pkt["in"] <= recvd' /\ pkt["in"] < inq'[Len(inq) + 1]
        BY <4>1, <3>4, <2>1, <1>0
      <4>3. \A k \in 1..Len(inq) : pkt["in"] < inq'[k]
        BY <3>4 DEF InOrder
      <4>4. \A k \in 1..Len(inq') : k \in 1..Len(inq) \/ k = Len(inq) + 1
        BY <3>4, <1>0
      <4> QED BY <4>1, <4>2, <4>3, <4>4
    <3> QED BY <2>1, <2>2, <2>3, <3>2, <3>3, <3>5, <3>6 DEF InOrder
  <2>6. inq' = inq \/ inq' = Append(inq, recvd')
    BY <1>1 DEF RecvData
  <2> QED BY <2>4, <2>5, <2>6
<1>2. ASSUME PullIn PROVE InOrder' /\ InboundStep
  <2>1. CASE inq = <<>>
    BY <1>2, <2>1, <1>t, InKept DEF PullIn, inbound, Goto, At, TypeInv, Places
  <2>2. CASE inq # <<>>
    <3>1. /\ inq' = Tail(inq) /\ recvd' = recvd /\ written' = written /\ pkt'["in"] = Head(inq)
      BY <1>2, <2>2, <1>t DEF PullIn, TypeInv, Places
    <3>2. /\ Head(inq) = inq[1] /\ Len(inq) \in Nat \ {0} /\ Len(Tail(inq)) = Len(inq) - 1
          /\ \A k \in 1..Len(inq) - 1 : Tail(inq)[k] = inq[k + 1]
      BY <2>2, <1>0, Taken
    <3>3. 1 \in 1..Len(inq) /\ \A k \in 1..Len(inq) - 1 : k + 1 \in 1..Len(inq)
      BY <3>2
    <3>4. Ascends(inq') /\ \A k \in 1..Len(inq') : pkt'["in"] < inq'[k]
      BY <2>2, <3>1, <1>0, TakenAscends DEF InOrder
    <3>5. \A k \in 1..Len(inq') : k + 1 \in 1..Len(inq) /\ inq'[k] = inq[k + 1]
      BY <3>1, <3>2, <3>3
    <3>6. Below(inq', recvd' + 1)
      BY <3>1, <3>5 DEF InOrder, Below
    <3>7. \A k \in 1..Len(inq') : Below(written', inq'[k])
      BY <3>1, <3>5 DEF InOrder
    <3>8. Below(written', pkt'["in"])
      BY <3>1, <3>2, <3>3 DEF InOrder
    <3>9. pkt'["in"] <= recvd'
      <4>1. inq[1] < recvd + 1 /\ inq[1] \in Int
        BY <3>3, <1>0 DEF InOrder, Below
      <4> QED BY <4>1, <3>1, <3>2, <1>0
    <3>10. InboundStep
      BY <3>1 DEF InboundStep
    <3>11. Below(written', recvd' + 1)
      BY <3>1 DEF InOrder
    <3> QED BY <3>4, <3>6, <3>7, <3>8, <3>9, <3>10, <3>11 DEF InOrder
  <2> QED BY <2>1, <2>2
<1>3. ASSUME Write PROVE InOrder' /\ InboundStep
  <2>1. /\ inq' = inq /\ recvd' = recvd /\ pc["in"] = "write" /\ pc'["in"] # "write"
    BY <1>3, <1>t DEF Write, At, Leave, Goto, TypeInv, Places
  <2>2. CASE written' = written
    BY <2>1, <2>2, InKept DEF inbound
  <2>3. CASE written' = Append(written, pkt["in"])
    <3>1. pkt["in"] \in 1..recvd /\ Below(written, pkt["in"])
      BY <2>1, <1>0 DEF InOrder
    <3>2. InboundStep
      BY <2>1, <2>3, <3>1 DEF InboundStep, Inbound!Take, Below
    <3>3. Below(written', recvd' + 1)
      BY <2>1, <2>3, <3>1, <1>0, AppendedBelow DEF InOrder
    <3>4. \A k \in 1..Len(inq') : Below(written', inq'[k])
      BY <2>1, <2>3, <3>1, <1>0, AppendedBelow DEF InOrder
    <3> QED BY <2>1, <3>2, <3>3, <3>4 DEF InOrder
  <2> QED BY <1>3, <2>2, <2>3 DEF Write
<1>4. ASSUME NEW t \in Task, Worker(t) PROVE InOrder' /\ InboundStep
  <2>1. UNCHANGED inbound
    BY <1>4 DEF Worker, LearnTake, LearnApply, AckTake, Send, SendFails, SendDone, SendTimeout
  <2>2. pc'["in"] = "write" => pc["in"] = "write" /\ pkt'["in"] = pkt["in"]
    BY <1>4, <1>t DEF Worker, LearnTake, LearnApply, AckTake, Send, SendFails, SendDone,
       SendTimeout, After, Leave, Goto, At, local, TypeInv, Places
  <2> QED BY <2>1, <2>2, InKept
<1>5. ASSUME PullOut \/ ReadUart \/ FlushUart \/ MakeRoom PROVE InOrder' /\ InboundStep
  <2>1. UNCHANGED inbound
    BY <1>5 DEF PullOut, ReadUart, FlushUart, MakeRoom, inbound
  <2>2. pc'["in"] = "write" => pc["in"] = "write" /\ pkt'["in"] = pkt["in"]
    BY <1>5, <1>t DEF PullOut, ReadUart, FlushUart, MakeRoom, Goto, At, TypeInv, Places
  <2> QED BY <2>1, <2>2, InKept
<1>6. ASSUME OnSent \/ UNCHANGED vars \/ \E s \in Stations : RecvProbe(s)
      PROVE  InOrder' /\ InboundStep
  BY <1>6, InKept DEF OnSent, RecvProbe, vars, inbound, local
<1> QED BY <1>1, <1>2, <1>3, <1>4, <1>5, <1>6, <1>t DEF Step, In, Out, Rx

(* What goes to the UART keeps the order it came in and nothing goes twice,*)
(* whatever is lost between the radio's callback, the queue and the UART.  *)
THEOREM InboundKeepsOrder == Spec => InboundFifo
<1>1. Init => TypeInv /\ InOrder /\ Inbound!Init
  <2> SUFFICES ASSUME Init PROVE InOrder /\ Inbound!Init
    BY TypeInit
  <2>1. Len(inq) = 0 /\ Len(written) = 0 /\ pc["in"] = "top"
    BY DEF Init, Task
  <2> QED BY <2>1 DEF Init, InOrder, Ascends, Below, Inbound!Init
<1>2. TypeInv /\ InOrder /\ [Step]_vars => TypeInv' /\ InOrder' /\ InboundStep
  BY TypeNext, InNext
<1> QED BY <1>1, <1>2, PTL DEF Spec, InboundFifo, Inbound!Spec, InboundStep

-----------------------------------------------------------------------------
(* Outbound: what a station heard precedes the frames at the radio, they   *)
(* precede the chunk the worker is to send, that precedes the queue, and   *)
(* the chunk that waits for room (rx at "full") comes after all of them.   *)
Top == IF pc["rx"] = "full" THEN read - 1 ELSE read
Behind(n) == Below(heard, n) /\ \A i \in 1..Len(flight) : flight[i].id < n

Queued ==
  /\ Ascends(outq) /\ Below(outq, Top + 1)
  /\ \A k \in 1..Len(outq) : Behind(outq[k])
ToSend ==
  pc["out"] = "lock" /\ pkt["out"] # 0 =>
    /\ pkt["out"] <= Top /\ Behind(pkt["out"])
    /\ \A k \in 1..Len(outq) : pkt["out"] < outq[k]
InFlight ==
  /\ \A i, k \in 1..Len(flight) :
       i < k /\ flight[k].id # 0 => flight[i].id < flight[k].id
  /\ \A i \in 1..Len(flight) : flight[i].id # 0 => Below(heard, flight[i].id)

OutOrder == Queued /\ ToSend /\ InFlight /\ Behind(Top + 1)

OutboundStep == [Outbound!Put \/ Outbound!Take]_<<read, heard>>
LEMMA OutTyped ==
  ASSUME TypeInv
  PROVE  /\ outq \in Seq(Int) /\ heard \in Seq(Int) /\ Len(outq) \in Nat /\ Len(heard) \in Nat
         /\ \A k \in 1..Len(outq) : outq[k] \in 1..NumOut
         /\ \A k \in 1..Len(heard) : heard[k] \in Int
         /\ Len(flight) \in Nat /\ \A i \in 1..Len(flight) : flight[i].id \in 0..NumOut
         /\ read \in Int /\ read <= NumOut /\ Top \in Nat /\ Top <= read /\ pkt["out"] \in Int
<1>1. outq \in Seq(1..NumOut) /\ heard \in Seq(1..NumOut) /\ read \in 0..NumOut
  BY DEF TypeInv, Chunks
<1>2. flight \in Seq([by : Task, id : 0..NumOut])
  BY DEF TypeInv, Sending
<1>3. Len(flight) \in Nat /\ \A i \in 1..Len(flight) : flight[i] \in [by : Task, id : 0..NumOut]
  BY <1>2, Elements
<1>4. pkt["out"] \in Int
  <2>1. pkt["out"] \in 0..NumIn \cup 0..NumOut
    BY DEF TypeInv, Places, Task
  <2> QED BY <2>1, Bounds
<1>5. read \in Int /\ read <= NumOut /\ Top \in Nat /\ Top <= read
  <2>1. pc["rx"] = "full" => read \in 1..NumOut
    BY DEF TypeInv, Holds
  <2> QED BY <1>1, <2>1, Bounds DEF Top
<1>6. \A k \in 1..Len(outq) : outq[k] \in 1..NumOut
  BY <1>1, Elements
<1>7. /\ outq \in Seq(Int) /\ heard \in Seq(Int) /\ Len(outq) \in Nat /\ Len(heard) \in Nat
      /\ \A k \in 1..Len(heard) : heard[k] \in Int
  BY <1>1, Bounds, Numbers
<1> QED BY <1>3, <1>4, <1>5, <1>6, <1>7

LEMMA BehindMore ==
  ASSUME TypeInv, NEW m \in Int, NEW n \in Int, m <= n, Behind(m)
  PROVE  Behind(n)
<1>1. Below(heard, n)
  BY OutTyped DEF Behind, Below
<1>2. ASSUME NEW i \in 1..Len(flight) PROVE flight[i].id < n
  <2>1. flight[i].id \in Int /\ flight[i].id < m
    BY OutTyped, Bounds DEF Behind
  <2> QED BY <2>1
<1> QED BY <1>1, <1>2 DEF Behind

(* The steps that change neither the queue nor what the radio has.         *)
LEMMA OutKept ==
  ASSUME TypeInv, OutOrder, outq' = outq, heard' = heard, flight' = flight,
         Top' \in Int, Top <= Top',
         read' = read \/ (read < NumOut /\ read' = read + 1),
         pc'["out"] = "lock" /\ pkt'["out"] # 0 =>
           pc["out"] = "lock" /\ pkt'["out"] = pkt["out"]
  PROVE  OutOrder' /\ OutboundStep
<1>2. Behind(Top + 1)'
  <2>1. Behind(Top' + 1)
    BY OutTyped, BehindMore DEF OutOrder
  <2> QED BY <2>1 DEF Behind, Below
<1>3. Queued'
  <2>1. Below(outq, Top' + 1)
    <3>1. ASSUME NEW k \in 1..Len(outq) PROVE outq[k] < Top' + 1
      <4>1. outq[k] \in Int /\ outq[k] < Top + 1 /\ Top \in Int
        BY OutTyped, Bounds DEF OutOrder, Queued, Below
      <4> QED BY <4>1
    <3> QED BY <3>1 DEF Below
  <2>2. Ascends(outq)' /\ Below(outq, Top + 1)'
    BY <2>1 DEF OutOrder, Queued, Ascends, Below
  <2>3. (\A k \in 1..Len(outq) : Behind(outq[k]))'
    <3>1. \A k \in 1..Len(outq) : Behind(outq[k])
      BY DEF OutOrder, Queued
    <3> QED BY <3>1 DEF Behind, Below
  <2> QED BY <2>2, <2>3 DEF Queued
<1>4. ToSend'
  <2> SUFFICES ASSUME pc'["out"] = "lock", pkt'["out"] # 0
               PROVE  /\ pkt'["out"] <= Top' /\ Behind(pkt["out"])'
                      /\ \A k \in 1..Len(outq') : pkt'["out"] < outq'[k]
    BY DEF ToSend, Behind, Below
  <2>1. pc["out"] = "lock" /\ pkt'["out"] = pkt["out"] /\ pkt["out"] # 0
    OBVIOUS
  <2>2. pkt["out"] <= Top /\ Behind(pkt["out"]) /\ \A k \in 1..Len(outq) : pkt["out"] < outq[k]
    BY <2>1 DEF OutOrder, ToSend
  <2>3. pkt["out"] <= Top'
    BY <2>2, OutTyped
  <2> QED BY <2>1, <2>2, <2>3 DEF Behind, Below
<1>5. InFlight'
  BY DEF OutOrder, InFlight, Below
<1>6. OutboundStep
  BY DEF OutboundStep, Outbound!Put
<1> QED BY <1>2, <1>3, <1>4, <1>5, <1>6 DEF OutOrder
(* The steps that queue the chunk that came in last.                       *)
LEMMA OutAppended ==
  ASSUME TypeInv, OutOrder, NEW rest \in Seq(Int), Ascends(rest),
         \A k \in 1..Len(rest) : \E j \in 1..Len(outq) : rest[k] = outq[j],
         outq' = Append(rest, Top + 1), Top' = Top + 1, heard' = heard, flight' = flight,
         read' = read \/ (read < NumOut /\ read' = read + 1),
         pc'["out"] = pc["out"], pkt' = pkt
  PROVE  OutOrder' /\ OutboundStep
<1>1. /\ Len(outq') = Len(rest) + 1 /\ outq'[Len(rest) + 1] = Top + 1
      /\ \A k \in 1..Len(rest) : outq'[k] = rest[k]
  BY OutTyped, Appended
<1>2. \A k \in 1..Len(outq') : k \in 1..Len(rest) \/ k = Len(rest) + 1
  <2>1. Len(rest) \in Nat
    BY Elements
  <2> QED BY <1>1, <2>1
<1>3. \A k \in 1..Len(rest) : rest[k] < Top + 1 /\ Behind(rest[k])
  BY DEF OutOrder, Queued, Below
<1>4. Behind(Top + 1)
  BY DEF OutOrder
<1>5. Queued'
  <2>1. Below(rest, Top + 1)
    BY <1>3 DEF Below
  <2>2. Ascends(outq')
    BY <2>1, OutTyped, AppendedAscends
  <2>3. Below(outq', Top + 2)
    <3>1. Below(rest, Top + 2)
      <4>1. ASSUME NEW k \in 1..Len(rest) PROVE rest[k] < Top + 2
        <5>1. rest[k] \in Int /\ rest[k] < Top + 1
          BY Elements, <1>3
        <5>2. Top \in Nat
          BY OutTyped
        <5> QED BY <5>1, <5>2
      <4> QED BY <4>1 DEF Below
    <3>2. Top + 1 \in Int /\ Top + 2 \in Int /\ Top + 1 < Top + 2
      BY OutTyped
    <3> QED BY <3>1, <3>2, AppendedBelow
  <2>4. \A k \in 1..Len(outq') : Behind(outq'[k])
    BY <1>1, <1>2, <1>3, <1>4
  <2>5. Top' + 1 = Top + 2
    BY OutTyped
  <2> QED BY <2>2, <2>3, <2>4, <2>5 DEF Queued, Behind, Below, Ascends
<1>6. ToSend'
  <2> SUFFICES ASSUME pc["out"] = "lock", pkt["out"] # 0
               PROVE  /\ pkt["out"] <= Top + 1 /\ Behind(pkt["out"])
                      /\ \A k \in 1..Len(outq') : pkt["out"] < outq'[k]
    <3>1. Behind(pkt["out"])' <=> Behind(pkt["out"])
      BY DEF Behind, Below
    <3> QED BY <3>1 DEF ToSend
  <2>1. pkt["out"] <= Top /\ Behind(pkt["out"]) /\ \A k \in 1..Len(outq) : pkt["out"] < outq[k]
    BY DEF OutOrder, ToSend
  <2>2. pkt["out"] < Top + 1
    BY <2>1, OutTyped
  <2>3. \A k \in 1..Len(rest) : pkt["out"] < rest[k]
    BY <2>1
  <2>4. pkt["out"] <= Top + 1
    BY <2>2, OutTyped
  <2> QED BY <1>1, <1>2, <2>1, <2>2, <2>3, <2>4
<1>7. InFlight'
  BY DEF OutOrder, InFlight, Below
<1>8. Behind(Top + 1)'
  <2>1. Behind(Top + 2)
    BY <1>4, OutTyped, BehindMore
  <2>2. Top' + 1 = Top + 2
    BY OutTyped
  <2> QED BY <2>1, <2>2 DEF Behind, Below
<1>9. OutboundStep
  BY DEF OutboundStep, Outbound!Put
<1> QED BY <1>5, <1>6, <1>7, <1>8, <1>9 DEF OutOrder

LEMMA OutPulled ==
  ASSUME TypeInv, OutOrder, PullOut
  PROVE  OutOrder' /\ OutboundStep
<1>1. read' = read /\ heard' = heard /\ flight' = flight /\ Top' = Top
  BY DEF PullOut, radio, TypeInv, Places, Task, Goto, Top
<1>2. CASE outq = <<>>
  <2>1. outq' = outq /\ pc'["out"] = "top"
    BY <1>2 DEF PullOut, Goto, TypeInv, Places, Task
  <2>2. Top' \in Int /\ Top <= Top'
    BY <1>1, OutTyped
  <2> QED BY <1>1, <2>1, <2>2, OutKept
<1>3. CASE outq # <<>>
  <2>1. outq' = Tail(outq) /\ (pc'["out"] = "lock" => pkt'["out"] = Head(outq))
    BY <1>3 DEF PullOut, Goto, TypeInv, Places, Task
  <2>2. /\ Head(outq) = outq[1] /\ Len(outq) \in Nat \ {0} /\ Len(outq') = Len(outq) - 1
        /\ \A k \in 1..Len(outq) - 1 : outq'[k] = outq[k + 1]
    BY <1>3, <2>1, OutTyped, Taken
  <2>3. 1 \in 1..Len(outq)
        /\ \A k \in 1..Len(outq') : k + 1 \in 1..Len(outq) /\ outq'[k] = outq[k + 1]
    BY <2>2
  <2>4. Ascends(outq') /\ \A k \in 1..Len(outq') : Head(outq) < outq'[k]
    BY <1>3, <2>1, OutTyped, TakenAscends DEF OutOrder, Queued
  <2>5. Below(outq', Top + 1) /\ \A k \in 1..Len(outq') : Behind(outq'[k])
    BY <2>3 DEF OutOrder, Queued, Below
  <2>6. Queued'
    BY <1>1, <2>4, <2>5 DEF Queued, Ascends, Below, Behind
  <2>7. ToSend'
    <3>1. outq[1] \in Int /\ outq[1] < Top + 1 /\ Behind(outq[1])
      BY <2>3, OutTyped, Bounds DEF OutOrder, Queued, Below
    <3>2. outq[1] <= Top
      BY <3>1, OutTyped
    <3> QED BY <1>1, <2>1, <2>2, <2>4, <3>1, <3>2 DEF ToSend, Behind, Below
  <2>8. InFlight' /\ Behind(Top + 1)'
    BY <1>1 DEF OutOrder, InFlight, Behind, Below
  <2>9. OutboundStep
    BY <1>1 DEF OutboundStep
  <2> QED BY <2>6, <2>7, <2>8, <2>9 DEF OutOrder
<1> QED BY <1>2, <1>3
(* A task hands a frame on: a MOD_ACK, or the chunk that is next.          *)
LEMMA OutSent ==
  ASSUME TypeInv, OutOrder, NEW t \in Task, Send(t)
  PROVE  OutOrder' /\ OutboundStep
<1> DEFINE id == pkt[t]
<1>t. "out" \in Task /\ "rx" \in Task
  BY DEF Task
<1>1. outq' = outq /\ read' = read /\ heard' = heard /\ pkt' = pkt /\ Top' = Top
  BY <1>t DEF Send, outbound, At, Goto, TypeInv, Places, Top
<1>2. pc[t] = "lock" /\ (pc'["out"] = "lock" => t # "out" /\ pc["out"] = "lock")
  BY <1>t DEF Send, At, Goto, TypeInv, Places
<1>3. id \in 0..NumOut /\ (t # "out" => id = 0)
  BY <1>2 DEF TypeInv, Holds
<1>4. id # 0 => id <= Top /\ Behind(id) /\ \A k \in 1..Len(outq) : id < outq[k]
  BY <1>2, <1>3 DEF OutOrder, ToSend
<1>5. /\ Len(flight') = Len(flight) + 1 /\ flight'[Len(flight) + 1].id = id
      /\ \A i \in 1..Len(flight) : flight'[i] = flight[i]
  <2>1. [by |-> t, id |-> id] \in [by : Task, id : 0..NumOut]
    BY <1>3
  <2>2. flight' = Append(flight, [by |-> t, id |-> id])
    BY DEF Send
  <2> QED BY <2>1, <2>2, Appended DEF TypeInv, Sending
<1> HIDE DEF id
<1>6. \A i \in 1..Len(flight') : i \in 1..Len(flight) \/ i = Len(flight) + 1
  BY <1>5, OutTyped
<1>7. ASSUME NEW n, Behind(n), id < n
      PROVE  Below(heard, n) /\ \A i \in 1..Len(flight') : flight'[i].id < n
  BY <1>5, <1>6, <1>7 DEF Behind
<1>8. Queued'
  <2>1. ASSUME NEW k \in 1..Len(outq) PROVE id < outq[k]
    <3>1. outq[k] \in 1..NumOut
      BY OutTyped
    <3> QED BY <1>3, <1>4, <3>1, Bounds
  <2>2. \A k \in 1..Len(outq) : Behind(outq[k])
    BY DEF OutOrder, Queued
  <2>3. \A k \in 1..Len(outq) :
          Below(heard, outq[k]) /\ \A i \in 1..Len(flight') : flight'[i].id < outq[k]
    BY <2>1, <2>2, <1>7
  <2>4. Ascends(outq)' /\ Below(outq, Top + 1)'
    BY <1>1 DEF OutOrder, Queued, Ascends, Below
  <2>5. (\A k \in 1..Len(outq) : Behind(outq[k]))'
    BY <2>3, <1>1 DEF Behind, Below
  <2> QED BY <2>4, <2>5 DEF Queued
<1>9. Behind(Top + 1)'
  <2>1. id < Top + 1
    BY <1>3, <1>4, OutTyped, Bounds
  <2>2. Below(heard, Top + 1) /\ \A i \in 1..Len(flight') : flight'[i].id < Top + 1
    BY <2>1, <1>7 DEF OutOrder
  <2> QED BY <2>2, <1>1 DEF Behind, Below
<1>10. ToSend'
  <2> SUFFICES ASSUME pc'["out"] = "lock", pkt["out"] # 0
               PROVE  /\ pkt["out"] <= Top /\ Behind(pkt["out"])'
                      /\ \A k \in 1..Len(outq) : pkt["out"] < outq[k]
    BY <1>1 DEF ToSend
  <2>1. pc["out"] = "lock" /\ id = 0
    BY <1>2, <1>3
  <2>2. pkt["out"] <= Top /\ Behind(pkt["out"]) /\ \A k \in 1..Len(outq) : pkt["out"] < outq[k]
    BY <2>1 DEF OutOrder, ToSend
  <2>3. pkt["out"] \in 0..NumOut
    BY <2>1, <1>t DEF TypeInv, Holds
  <2>4. id < pkt["out"]
    BY <2>1, <2>3, Bounds
  <2>5. Below(heard, pkt["out"]) /\ \A i \in 1..Len(flight') : flight'[i].id < pkt["out"]
    BY <2>2, <2>4, <1>7
  <2>6. Behind(pkt["out"])'
    BY <2>5, <1>1 DEF Behind, Below
  <2> QED BY <2>2, <2>6
<1>11. InFlight'
  <2>1. ASSUME NEW i \in 1..Len(flight'), NEW k \in 1..Len(flight'), i < k, flight'[k].id # 0
        PROVE  flight'[i].id < flight'[k].id
    <3>1. i \in 1..Len(flight)
      BY <1>5, <2>1, OutTyped
    <3>2. CASE k \in 1..Len(flight)
      BY <1>5, <2>1, <3>1, <3>2 DEF OutOrder, InFlight
    <3>3. CASE k = Len(flight) + 1
      BY <1>4, <1>5, <2>1, <3>1, <3>3 DEF Behind
    <3> QED BY <1>6, <3>2, <3>3
  <2>2. ASSUME NEW i \in 1..Len(flight'), flight'[i].id # 0
        PROVE  Below(heard, flight'[i].id)
    <3>1. CASE i \in 1..Len(flight)
      BY <1>5, <2>2, <3>1 DEF OutOrder, InFlight
    <3>2. CASE i = Len(flight) + 1
      BY <1>4, <1>5, <2>2, <3>2 DEF Behind
    <3> QED BY <1>6, <3>1, <3>2
  <2> QED BY <2>1, <2>2, <1>1 DEF InFlight, Below
<1>12. OutboundStep
  BY <1>1 DEF OutboundStep
<1> QED BY <1>8, <1>9, <1>10, <1>11, <1>12 DEF OutOrder
(* The radio is through with its first frame, which a station heard or not. *)
LEMMA OutHeard ==
  ASSUME TypeInv, OutOrder, OnSent
  PROVE  OutOrder' /\ OutboundStep
<1> DEFINE id == Head(flight).id
<1>1. outq' = outq /\ read' = read /\ pkt' = pkt /\ pc' = pc /\ Top' = Top
  BY DEF OnSent, outbound, local, Top
<1>2. heard' = heard \/ (id # 0 /\ heard' = Append(heard, id))
  BY DEF OnSent
<1>3. /\ id = flight[1].id /\ 1 \in 1..Len(flight) /\ Len(flight') = Len(flight) - 1
      /\ \A i \in 1..Len(flight') : i + 1 \in 1..Len(flight) /\ flight'[i] = flight[i + 1]
  <2>1. flight # <<>> /\ flight' = Tail(flight)
    BY DEF OnSent
  <2>2. /\ Head(flight) = flight[1] /\ Len(flight) \in Nat \ {0}
        /\ Len(flight') = Len(flight) - 1
        /\ \A k \in 1..Len(flight) - 1 : flight'[k] = flight[k + 1]
    BY <2>1, Taken DEF TypeInv, Sending
  <2> QED BY <2>2
<1>4. id \in 0..NumOut /\ id \in Int
  BY <1>3, OutTyped, Bounds
<1> HIDE DEF id
<1>5. ASSUME NEW n \in Int, Below(heard, n), id < n
      PROVE  Below(heard', n)
  BY <1>2, <1>4, <1>5, OutTyped, AppendedBelow
<1>6. ASSUME NEW n \in Int, Behind(n)
      PROVE  Below(heard', n) /\ \A i \in 1..Len(flight') : flight'[i].id < n
  <2>1. Below(heard', n)
    BY <1>3, <1>5, <1>6 DEF Behind
  <2> QED BY <2>1, <1>3, <1>6 DEF Behind
<1>7. Queued'
  <2>1. \A k \in 1..Len(outq) : outq[k] \in Int /\ Behind(outq[k])
    BY OutTyped, Bounds DEF OutOrder, Queued
  <2>2. \A k \in 1..Len(outq) :
          Below(heard', outq[k]) /\ \A i \in 1..Len(flight') : flight'[i].id < outq[k]
    BY <2>1, <1>6
  <2>3. Ascends(outq)' /\ Below(outq, Top + 1)'
    BY <1>1 DEF OutOrder, Queued, Ascends, Below
  <2>4. (\A k \in 1..Len(outq) : Behind(outq[k]))'
    BY <2>2, <1>1 DEF Behind, Below
  <2> QED BY <2>3, <2>4 DEF Queued
<1>8. Behind(Top + 1)'
  <2>1. Top + 1 \in Int
    BY OutTyped
  <2>2. Below(heard', Top + 1) /\ \A i \in 1..Len(flight') : flight'[i].id < Top + 1
    BY <2>1, <1>6 DEF OutOrder
  <2> QED BY <2>2, <1>1 DEF Behind, Below
<1>9. ToSend'
  <2> SUFFICES ASSUME pc["out"] = "lock", pkt["out"] # 0
               PROVE  /\ pkt["out"] <= Top /\ Behind(pkt["out"])'
                      /\ \A k \in 1..Len(outq) : pkt["out"] < outq[k]
    BY <1>1 DEF ToSend
  <2>1. pkt["out"] <= Top /\ Behind(pkt["out"]) /\ \A k \in 1..Len(outq) : pkt["out"] < outq[k]
    BY DEF OutOrder, ToSend
  <2>2. pkt["out"] \in Int
    BY OutTyped
  <2>3. Below(heard', pkt["out"]) /\ \A i \in 1..Len(flight') : flight'[i].id < pkt["out"]
    BY <2>1, <2>2, <1>6
  <2>4. Behind(pkt["out"])'
    BY <2>3, <1>1 DEF Behind, Below
  <2> QED BY <2>1, <2>4
<1>10. InFlight'
  <2>1. ASSUME NEW i \in 1..Len(flight'), NEW k \in 1..Len(flight'), i < k, flight'[k].id # 0
        PROVE  flight'[i].id < flight'[k].id
    <3>1. i + 1 \in 1..Len(flight) /\ k + 1 \in 1..Len(flight) /\ i + 1 < k + 1
      BY <1>3, <2>1
    <3> QED BY <1>3, <2>1, <3>1 DEF OutOrder, InFlight
  <2>2. ASSUME NEW i \in 1..Len(flight'), flight'[i].id # 0
        PROVE  Below(heard', flight'[i].id)
    <3>1. i + 1 \in 1..Len(flight) /\ 1 < i + 1 /\ flight'[i].id = flight[i + 1].id
      BY <1>3
    <3>2. flight[i + 1].id \in Int
      BY <3>1, OutTyped, Bounds
    <3>3. Below(heard, flight[i + 1].id) /\ id < flight[i + 1].id
      BY <1>3, <2>2, <3>1 DEF OutOrder, InFlight
    <3> QED BY <3>1, <3>2, <3>3, <1>5
  <2> QED BY <2>1, <2>2 DEF InFlight
<1>11. OutboundStep
  <2>1. CASE heard' = heard
    BY <2>1, <1>1 DEF OutboundStep
  <2>2. CASE id # 0 /\ heard' = Append(heard, id)
    <3>1. Below(heard, id)
      BY <1>3, <2>2 DEF OutOrder, InFlight
    <3>2. id < Top + 1
      BY <1>3 DEF OutOrder, Behind
    <3>3. id \in 1..read
      BY <2>2, <3>2, <1>4, OutTyped, Bounds
    <3> QED BY <1>1, <2>2, <3>1, <3>3 DEF OutboundStep, Outbound!Take, Below
  <2> QED BY <1>2, <2>1, <2>2
<1> QED BY <1>7, <1>8, <1>9, <1>10, <1>11 DEF OutOrder

LEMMA OutNext ==
  ASSUME TypeInv, OutOrder, [Step]_vars
  PROVE  OutOrder' /\ OutboundStep
<1>t. "in" \in Task /\ "out" \in Task /\ "rx" \in Task /\ Task = {"in", "out", "rx"}
  BY DEF Task
<1>0. Top \in Nat /\ Top <= Top
  BY OutTyped
<1>1. ASSUME OnSent \/ PullOut \/ \E t \in Task : Send(t) PROVE OutOrder' /\ OutboundStep
  BY <1>1, OutHeard, OutPulled, OutSent
<1>2. ASSUME NEW t \in Task,
             \/ LearnTake(t) \/ LearnApply(t) \/ AckTake(t)
             \/ SendFails(t) \/ SendDone(t) \/ SendTimeout(t)
      PROVE  OutOrder' /\ OutboundStep
  <2>1. outq' = outq /\ read' = read /\ heard' = heard /\ flight' = flight
    BY <1>2 DEF LearnTake, LearnApply, AckTake, SendFails, SendDone, SendTimeout, outbound, radio
  <2>2. Top' = Top
    BY <1>2, <2>1, <1>t DEF LearnTake, LearnApply, AckTake, SendFails, SendDone, SendTimeout,
       Leave, Goto, At, After, Top, TypeInv, Places
  <2>3. pc'["out"] = "lock" /\ pkt'["out"] # 0 =>
          pc["out"] = "lock" /\ pkt'["out"] = pkt["out"]
    BY <1>2, <1>t DEF LearnTake, LearnApply, AckTake, SendFails, SendDone, SendTimeout,
       Leave, Goto, At, After, local, TypeInv, Places
  <2> QED BY <1>0, <2>1, <2>2, <2>3, OutKept
<1>3. ASSUME \/ \E s \in Stations : RecvProbe(s) \/ RecvData(s)
             \/ PullIn \/ Write \/ UNCHANGED vars
      PROVE  OutOrder' /\ OutboundStep
  <2>1. outq' = outq /\ read' = read /\ heard' = heard /\ flight' = flight
    BY <1>3 DEF RecvProbe, RecvData, PullIn, Write, vars, outbound, radio
  <2>2. Top' = Top
    BY <1>3, <2>1, <1>t DEF RecvProbe, RecvData, PullIn, Write, vars, local,
       Leave, Goto, At, Top, TypeInv, Places
  <2>3. pc'["out"] = pc["out"] /\ pkt'["out"] = pkt["out"]
    BY <1>3, <1>t DEF RecvProbe, RecvData, PullIn, Write, vars, local,
       Leave, Goto, At, TypeInv, Places
  <2> QED BY <1>0, <2>1, <2>2, <2>3, OutKept
<1>4. ASSUME ReadUart \/ FlushUart PROVE OutOrder' /\ OutboundStep
  <2>1. /\ heard' = heard /\ flight' = flight /\ pkt' = pkt
        /\ pc["rx"] = "pull" /\ pc'["out"] = pc["out"] /\ Top = read
    BY <1>4, <1>t DEF ReadUart, FlushUart, Goto, At, radio, Top, TypeInv, Places
  <2>2. CASE outq' = outq /\ read' \in {read, read + 1} /\ read' <= NumOut /\ pc'["rx"] = "top"
    <3>1. Top' = read' /\ Top' \in Int /\ Top <= Top'
      BY <2>1, <2>2, OutTyped DEF Top
    <3>2. read' = read \/ (read < NumOut /\ read' = read + 1)
      BY <2>2, OutTyped, Bounds
    <3> QED BY <2>1, <2>2, <3>1, <3>2, OutKept
  <2>3. CASE read < NumOut /\ read' = read + 1 /\ outq' = outq /\ pc'["rx"] = "full"
    <3>1. Top' = Top
      BY <2>1, <2>3, OutTyped DEF Top
    <3> QED BY <1>0, <2>1, <2>3, <3>1, OutKept
  <2>4. CASE read < NumOut /\ read' = read + 1 /\ outq' = Append(outq, read') /\ pc'["rx"] = "top"
    <3>1. Top' = Top + 1 /\ read' = Top + 1
      BY <2>1, <2>4 DEF Top
    <3>2. outq \in Seq(Int) /\ Ascends(outq)
      BY OutTyped DEF OutOrder, Queued
    <3> QED BY <2>1, <2>4, <3>1, <3>2, OutAppended
  <2>5. \/ outq' = outq /\ read' \in {read, read + 1} /\ read' <= NumOut /\ pc'["rx"] = "top"
        \/ read < NumOut /\ read' = read + 1 /\ outq' = outq /\ pc'["rx"] = "full"
        \/ read < NumOut /\ read' = read + 1 /\ outq' = Append(outq, read') /\ pc'["rx"] = "top"
    BY <1>4, <1>t, OutTyped, Bounds DEF ReadUart, Traffic, FlushUart, Goto, outbound, TypeInv, Places
  <2> QED BY <2>2, <2>3, <2>4, <2>5
<1>5. ASSUME MakeRoom PROVE OutOrder' /\ OutboundStep
  <2> DEFINE rest == IF outq = <<>> THEN <<>> ELSE Tail(outq)
  <2>1. /\ heard' = heard /\ flight' = flight /\ pkt' = pkt /\ read' = read
        /\ pc["rx"] = "full" /\ pc'["out"] = pc["out"] /\ pc'["rx"] = "top"
        /\ outq' = Append(rest, read)
    BY <1>5, <1>t DEF MakeRoom, Goto, At, radio, TypeInv, Places
  <2>2. read = Top + 1 /\ Top' = Top + 1
    BY <2>1, OutTyped DEF Top
  <2>3. /\ rest \in Seq(Int) /\ Ascends(rest)
        /\ \A k \in 1..Len(rest) : \E j \in 1..Len(outq) : rest[k] = outq[j]
    <3>1. CASE outq = <<>>
      BY <3>1 DEF Ascends
    <3>2. CASE outq # <<>>
      <4>1. /\ Tail(outq) \in Seq(Int) /\ Len(outq) \in Nat \ {0} /\ Len(Tail(outq)) = Len(outq) - 1
            /\ \A k \in 1..Len(outq) - 1 : Tail(outq)[k] = outq[k + 1]
        BY <3>2, OutTyped, Taken
      <4>2. \A k \in 1..Len(Tail(outq)) : k + 1 \in 1..Len(outq) /\ Tail(outq)[k] = outq[k + 1]
        BY <4>1
      <4>3. Ascends(Tail(outq))
        BY <3>2, OutTyped, TakenAscends DEF OutOrder, Queued
      <4> QED BY <3>2, <4>1, <4>2, <4>3
    <3> QED BY <3>1, <3>2
  <2> HIDE DEF rest
  <2> QED BY <2>1, <2>2, <2>3, OutAppended
<1> QED BY <1>1, <1>2, <1>3, <1>4, <1>5, <1>t DEF Step, In, Out, Rx, Worker

(* What goes to the stations keeps the order the controller sent it in and *)
(* nothing goes twice, although a frame that was given up may still go out *)
(* and a full queue pushes its oldest chunk out.                           *)
THEOREM OutboundKeepsOrder == Spec => OutboundFifo
<1>1. Init => TypeInv /\ OutOrder /\ Outbound!Init
  <2> SUFFICES ASSUME Init PROVE OutOrder /\ Outbound!Init
    BY TypeInit
  <2>1. /\ Len(outq) = 0 /\ Len(heard) = 0 /\ Len(flight) = 0
        /\ pc["out"] = "top" /\ pc["rx"] = "top"
    BY DEF Init, Task
  <2> QED BY <2>1 DEF Init, OutOrder, Queued, ToSend, InFlight, Behind, Top, Ascends, Below,
            Outbound!Init
<1>2. TypeInv /\ OutOrder /\ [Step]_vars => TypeInv' /\ OutOrder' /\ OutboundStep
  BY TypeNext, OutNext
<1> QED BY <1>1, <1>2, PTL DEF Spec, OutboundFifo, Outbound!Spec, OutboundStep
=============================================================================
