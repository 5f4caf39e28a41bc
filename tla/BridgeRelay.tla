---------------------------- MODULE BridgeRelay ----------------------------
(***************************************************************************)
(* The ESP32-S3 bridge between the Tab5's ESP-NOW radio and the            *)
(* controller's UART (s3-bridge/main/espnow_link.cpp, uart_bridge.cpp):    *)
(* the receive callback, the two queues with their workers, the UART       *)
(* receive task, and the send that all three tasks share, one frame at a   *)
(* time, with its completion given by the radio's callback.                *)
(*                                                                         *)
(* Packets are numbered in the order they reach the bridge.  A packet that *)
(* uart_bridge_send breaks off counts as lost.  The halt line and the      *)
(* counters are left out.                                                  *)
(***************************************************************************)
EXTENDS Integers, Sequences

CONSTANTS
  Stations,     (* radios that may talk to the bridge                      *)
  NumIn, NumOut, (* bound on the packets in each direction                 *)
  MaxMixed,     (* bound on the packets of both together, if any goes out  *)
  InDepth,      (* ESPNOW_QUEUE_DEPTH                                      *)
  OutDepth,     (* ESPNOW_OUTBOUND_DEPTH                                   *)
  MaxFlight,    (* frames the radio holds                                  *)
  Probers,      (* those of them that send MOD_PROBE                       *)
  Saved         (* the address restored from NVS, or None                  *)

None == "none"
Task == {"in", "out", "rx"}

ASSUME BridgeAssumption ==
  /\ {NumIn, NumOut, InDepth, OutDepth, MaxFlight} \subseteq Nat \ {0}
  /\ MaxMixed \in Nat /\ Probers \subseteq Stations
  /\ Saved \in Stations \cup {None} /\ None \notin Stations

VARIABLES
  peer,         (* s_tab5_mac, None while s_tab5_known is false            *)
  learn,        (* s_learn_mac while s_learn_pending                       *)
  ackTo,        (* s_ack_mac while s_ack_pending                           *)
  inq, outq,    (* the two queues                                          *)
  recvd,        (* packets the radio received so far                       *)
  written,      (* those that were written to the UART                     *)
  read,         (* chunks the controller sent so far                       *)
  heard,        (* those that reached a station                            *)
  pc,           (* task -> where it is                                     *)
  mac,          (* task -> the address it works with                       *)
  pkt,          (* task -> the packet it works with, 0 for a MOD_ACK       *)
  lock,         (* who holds s_tx_lock                                     *)
  done,         (* s_tx_done was given                                     *)
  flight        (* frames at the radio, each with the task that sent it    *)

learning == <<peer, learn>>
inbound == <<inq, recvd, written>>
outbound == <<outq, read>>
local == <<pc, mac, pkt>>
radio == <<lock, done, flight, heard>>
vars == <<learning, ackTo, inbound, outbound, local, radio>>

Init ==
  /\ peer = Saved /\ learn = None /\ ackTo = None
  /\ inq = <<>> /\ outq = <<>> /\ recvd = 0 /\ written = <<>> /\ read = 0 /\ heard = <<>>
  /\ pc = [t \in Task |-> "top"]
  /\ mac = [t \in Task |-> None] /\ pkt = [t \in Task |-> 0]
  /\ lock = None /\ done = FALSE /\ flight = <<>>

Traffic(in, out) ==
  in <= NumIn /\ out <= NumOut /\ (out > 0 => in + out <= MaxMixed)

At(t, label) == pc[t] = label
Goto(t, label) == pc' = [pc EXCEPT ![t] = label]
(* The task is through with what it worked at.                             *)
Leave(t, label) ==
  /\ Goto(t, label)
  /\ mac' = [mac EXCEPT ![t] = None] /\ pkt' = [pkt EXCEPT ![t] = 0]

-----------------------------------------------------------------------------
(* on_recv, in the radio's task: it only notes what the workers are to do. *)
RecvProbe(s) ==
  /\ s \in Probers /\ learn' = s /\ ackTo' = s
  /\ UNCHANGED <<peer, inbound, outbound, local, radio>>

(* Mutant: the newest packet goes to the front of the queue.               *)
MutRecvData(s) ==
  /\ recvd' = recvd + 1 /\ Traffic(recvd', read) /\ learn' = s
  /\ inq' = IF Len(inq) < InDepth THEN <<recvd'>> \o inq ELSE inq
  /\ UNCHANGED <<peer, ackTo, written, outbound, local, radio>>
RecvData(s) ==
  /\ recvd' = recvd + 1 /\ Traffic(recvd', read) /\ learn' = s
  /\ inq' = IF Len(inq) < InDepth THEN Append(inq, recvd') ELSE inq
  /\ UNCHANGED <<peer, ackTo, written, outbound, local, radio>>

-----------------------------------------------------------------------------
(* apply_deferred_learn: take the note, then register the station          *)
LearnTake(t) ==
  /\ At(t, "top")
  /\ IF learn = None THEN Goto(t, "ack") /\ UNCHANGED <<mac, learn>>
     ELSE Goto(t, "learn") /\ mac' = [mac EXCEPT ![t] = learn] /\ learn' = None
  /\ UNCHANGED <<peer, ackTo, inbound, outbound, pkt, radio>>

(* Mutant: only the first station that is heard is registered.             *)
MutLearnApply(t) ==
  /\ At(t, "learn") /\ Leave(t, "ack") /\ peer' = IF peer = None THEN mac[t] ELSE peer
  /\ UNCHANGED <<learn, ackTo, inbound, outbound, radio>>
LearnApply(t) ==
  /\ At(t, "learn") /\ Leave(t, "ack") /\ peer' = mac[t]
  /\ UNCHANGED <<learn, ackTo, inbound, outbound, radio>>

(* flush_pending_mod_ack, which every task does on its way                 *)
AckTake(t) ==
  /\ At(t, "ack")
  /\ IF ackTo = None THEN Goto(t, "pull") /\ UNCHANGED <<mac, pkt, ackTo>>
     ELSE /\ Goto(t, "lock") /\ ackTo' = None
          /\ mac' = [mac EXCEPT ![t] = ackTo] /\ pkt' = [pkt EXCEPT ![t] = 0]
  /\ UNCHANGED <<learning, inbound, outbound, radio>>

-----------------------------------------------------------------------------
(* inbound_worker: uart_bridge_send writes the packet or gives it up when  *)
(* the UART is paused by uart_bridge_reinit or stays full.                 *)
PullIn ==
  /\ At("in", "pull")
  /\ IF inq = <<>> THEN Goto("in", "top") /\ UNCHANGED <<pkt, inq>>
     ELSE Goto("in", "write") /\ pkt' = [pkt EXCEPT !["in"] = Head(inq)] /\ inq' = Tail(inq)
  /\ UNCHANGED <<learning, ackTo, recvd, written, outbound, mac, radio>>

Write ==
  /\ At("in", "write") /\ Leave("in", "top")
  /\ \/ written' = Append(written, pkt["in"])
     \/ UNCHANGED written
  /\ UNCHANGED <<learning, ackTo, inq, recvd, outbound, radio>>

(* outbound_worker: without a known Tab5 the chunk is dropped.             *)
PullOut ==
  /\ At("out", "pull")
  /\ IF outq = <<>> THEN Goto("out", "top") /\ UNCHANGED <<mac, pkt, outq>>
     ELSE /\ outq' = Tail(outq)
          /\ IF peer = None THEN Goto("out", "top") /\ UNCHANGED <<mac, pkt>>
             ELSE /\ Goto("out", "lock") /\ mac' = [mac EXCEPT !["out"] = peer]
                  /\ pkt' = [pkt EXCEPT !["out"] = Head(outq)]
  /\ UNCHANGED <<learning, ackTo, inbound, read, radio>>

(* Mutant: the depth is taken for one more than it is.                     *)
MutReadUart ==
  /\ At("rx", "pull")
  /\ \/ /\ read' = read + 1 /\ Traffic(recvd, read')
        /\ IF Len(outq) <= OutDepth
           THEN outq' = Append(outq, read') /\ Goto("rx", "top")
           ELSE Goto("rx", "full") /\ UNCHANGED outq
     \/ Goto("rx", "top") /\ UNCHANGED outbound
  /\ UNCHANGED <<learning, ackTo, inbound, mac, pkt, radio>>
(* uart_rx_task: a chunk that finds the queue full pushes the oldest out.  *)
ReadUart ==
  /\ At("rx", "pull")
  /\ \/ /\ read' = read + 1 /\ Traffic(recvd, read')
        /\ IF Len(outq) < OutDepth
           THEN outq' = Append(outq, read') /\ Goto("rx", "top")
           ELSE Goto("rx", "full") /\ UNCHANGED outq
     \/ Goto("rx", "top") /\ UNCHANGED outbound
  /\ UNCHANGED <<learning, ackTo, inbound, mac, pkt, radio>>

(* An overrun, or uart_bridge_reinit, costs what the UART has buffered.    *)
FlushUart ==
  /\ At("rx", "pull") /\ Goto("rx", "top")
  /\ read' \in {read, read + 1} /\ Traffic(recvd, read')
  /\ UNCHANGED <<learning, ackTo, inbound, outq, mac, pkt, radio>>

(* Mutant: the oldest chunk goes to the end of the queue.                  *)
MutMakeRoom ==
  /\ At("rx", "full") /\ Goto("rx", "top")
  /\ outq' = IF outq = <<>> THEN <<read>> ELSE Append(Append(Tail(outq), read), Head(outq))
  /\ UNCHANGED <<learning, ackTo, inbound, read, mac, pkt, radio>>
MakeRoom ==
  /\ At("rx", "full") /\ Goto("rx", "top")
  /\ outq' = Append(IF outq = <<>> THEN <<>> ELSE Tail(outq), read)
  /\ UNCHANGED <<learning, ackTo, inbound, read, mac, pkt, radio>>

-----------------------------------------------------------------------------
(* espnow_send_chunk.  What follows a MOD_ACK is the rest of the loop.     *)
After(t) == IF pkt[t] = 0 THEN "pull" ELSE "top"

(* The lock is had, an old completion is drained and the frame handed on.  *)
Send(t) ==
  /\ At(t, "lock") /\ lock = None /\ Len(flight) < MaxFlight
  /\ lock' = t /\ done' = FALSE /\ Goto(t, "wait")
  /\ flight' = Append(flight, [by |-> t, id |-> pkt[t]])
  /\ UNCHANGED <<learning, ackTo, inbound, outbound, mac, pkt, heard>>

(* ESPNOW_TX_LOCK_MS went by, or the radio refuses the frame.              *)
SendFails(t) ==
  /\ At(t, "lock") /\ Leave(t, After(t))
  /\ UNCHANGED <<learning, ackTo, inbound, outbound, radio>>

SendDone(t) ==
  /\ At(t, "wait") /\ done
  /\ done' = FALSE /\ lock' = None /\ Leave(t, After(t))
  /\ UNCHANGED <<learning, ackTo, inbound, outbound, flight, heard>>

(* ESPNOW_TX_WAIT_MS went by: the frame is given up, but may still go out. *)
SendTimeout(t) ==
  /\ At(t, "wait") /\ ~done
  /\ lock' = None /\ Leave(t, After(t))
  /\ UNCHANGED <<learning, ackTo, inbound, outbound, done, flight, heard>>

(* The radio is through with a frame, and on_sent gives s_tx_done.         *)
OnSent ==
  /\ flight # <<>> /\ flight' = Tail(flight) /\ done' = TRUE
  /\ \/ Head(flight).id # 0 /\ heard' = Append(heard, Head(flight).id)
     \/ UNCHANGED heard
  /\ UNCHANGED <<learning, ackTo, inbound, outbound, local, lock>>

-----------------------------------------------------------------------------
Worker(t) ==
  \/ LearnTake(t) \/ LearnApply(t) \/ AckTake(t)
  \/ Send(t) \/ SendFails(t) \/ SendDone(t) \/ SendTimeout(t)
In == Worker("in") \/ PullIn \/ Write
Out == Worker("out") \/ PullOut
Rx == Worker("rx") \/ ReadUart \/ FlushUart \/ MakeRoom

Step ==
  \/ \E s \in Stations : RecvProbe(s) \/ RecvData(s)
  \/ In \/ Out \/ Rx \/ OnSent

Spec == Init /\ [][Step]_vars
(* The inbound worker is scheduled; nothing is asked of the radio.         *)
FairSpec == Spec /\ WF_vars(In)

-----------------------------------------------------------------------------
TypeOK ==
  /\ {peer, learn, ackTo} \subseteq Stations \cup {None}
  /\ inq \in Seq(1..NumIn) /\ Len(inq) <= InDepth
  /\ outq \in Seq(1..NumOut) /\ Len(outq) <= OutDepth
  /\ recvd \in 0..NumIn /\ written \in Seq(1..NumIn)
  /\ read \in 0..NumOut /\ heard \in Seq(1..NumOut)
  /\ pc \in [Task -> {"top", "learn", "ack", "pull", "write", "full", "lock", "wait"}]
  /\ mac \in [Task -> Stations \cup {None}] /\ pkt \in [Task -> 0..NumIn \cup 0..NumOut]
  /\ lock \in Task \cup {None} /\ done \in BOOLEAN
  /\ flight \in Seq([by : Task, id : 0..NumOut]) /\ Len(flight) <= MaxFlight

(* Both directions lose packets, but neither reorders nor repeats them.    *)
Inbound == INSTANCE LossyFifo WITH NumPackets <- NumIn, put <- recvd, got <- written
Outbound == INSTANCE LossyFifo WITH NumPackets <- NumOut, put <- read, got <- heard
InboundFifo == Inbound!Spec
OutboundFifo == Outbound!Spec

(* When in the end the Tab5 alone is heard, again and again, replies go to *)
(* it, although two workers may take its address and another's in turn and *)
(* register them in the other order.                                       *)
PeerSettles == \A s \in Probers :
  ([]<>(learn = s) /\ <>[](learn \in {s, None})) => <>[](peer = s)

(* "Drain stale Give so a prior timeout cannot complete this wait early":  *)
(* who waits for a completion gets that of its own frame.                  *)
WaitEndsWithOwn ==
  [][\A t \in Task : SendDone(t) => \A i \in 1..Len(flight) : flight[i].by # t]_vars
=============================================================================
