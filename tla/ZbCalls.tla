------------------------------ MODULE ZbCalls ------------------------------
(***************************************************************************)
(* The command link between the Tab5 and its Zigbee coordinator: the       *)
(* command queue and its worker in zb_uart_host.c, the UART in both        *)
(* directions, and the hub of zigbee_hub.c that carries commands out and   *)
(* acknowledges them by sequence number.                                   *)
(*                                                                         *)
(* A frame with a bad checksum is dropped on either side, so the UART      *)
(* loses frames but keeps their order.  The receive task has the higher    *)
(* priority on the worker's core: noting an acknowledgement is one step.   *)
(* send_cmd_sync has no callers and is left out.                           *)
(***************************************************************************)
EXTENDS Integers, Sequences

CONSTANTS
  NumJobs,      (* commands that are issued                                *)
  Depth,        (* CMD_QUEUE_DEPTH                                         *)
  MaxTries,     (* CMD_MAX_RETRIES                                         *)
  SeqMod,       (* s_tx_seq wraps here: 256 in the code                    *)
  UpCap,        (* frames that the hub's receive buffer holds              *)
  DownCap,      (* replies on their way to the host                        *)
  MaxResets     (* bound on the hub's restarts                             *)

Job == 1..NumJobs
NoFrame == [seq |-> 0, job |-> 0]
NoReply == [seq |-> 0, nak |-> FALSE]

ASSUME CallAssumption ==
  /\ {NumJobs, Depth, MaxTries, UpCap, DownCap} \subseteq Nat \ {0}
  /\ MaxResets \in Nat /\ SeqMod \in Nat \ {0, 1}

VARIABLES
  answer,       (* job -> new, open, dropped, ok, refused or silent        *)
  queue,        (* s_cmd_q                                                 *)
  work,         (* the job the worker is at, 0 when it waits for one       *)
  tries,        (* its tries so far                                        *)
  pc,           (* the worker: rest, send or wait                          *)
  txSeq,        (* s_tx_seq                                                *)
  waitSeq,      (* s_wait_seq                                              *)
  reused,       (* that number was still under way with an earlier try     *)
                (* when it was given out again (history)                   *)
  ack,          (* s_ack_seq and s_ack_nak, when s_ack_sem was given       *)
  up,           (* frames in the hub's receive buffer                      *)
  down,         (* replies on their way to the host                        *)
  hub,          (* the frame the hub is handling                           *)
  formed,       (* s_stack_ready and s_formed                              *)
  last,         (* the job whose command was carried out last              *)
  runs,         (* job -> how often                                        *)
  resets

worker == <<work, tries, pc, txSeq, waitSeq, reused>>
wires == <<up, down>>
hubs == <<hub, formed, last, runs, resets>>
vars == <<answer, queue, worker, ack, wires, hubs>>

Init ==
  /\ answer = [j \in Job |-> "new"] /\ queue = <<>>
  /\ work = 0 /\ tries = 0 /\ pc = "rest" /\ txSeq \in 0..SeqMod - 1 /\ waitSeq = 0
  /\ reused = FALSE /\ ack = NoReply /\ up = <<>> /\ down = <<>>
  /\ hub = NoFrame /\ formed = FALSE /\ last = 0
  /\ runs = [j \in Job |-> 0] /\ resets = 0

(* enqueue_cmd, from any task: dropped when the queue stays full for 50 ms *)
Enqueue == \E j \in Job :
  /\ answer[j] = "new" /\ \A i \in 1..j - 1 : answer[i] # "new"
  /\ IF Len(queue) < Depth
     THEN queue' = Append(queue, j) /\ answer' = [answer EXCEPT ![j] = "open"]
     ELSE answer' = [answer EXCEPT ![j] = "dropped"] /\ UNCHANGED queue
  /\ UNCHANGED <<worker, ack, wires, hubs>>

-----------------------------------------------------------------------------
(* cmd_worker and send_cmd_blocking                                        *)
Take ==
  /\ pc = "rest" /\ queue # <<>>
  /\ work' = Head(queue) /\ queue' = Tail(queue) /\ tries' = 0 /\ pc' = "send"
  /\ UNCHANGED <<answer, txSeq, waitSeq, reused, ack, wires, hubs>>

(* The next sequence number; 0 is skipped.                                 *)
NextSeq == IF (txSeq + 1) % SeqMod = 0 THEN 1 ELSE (txSeq + 1) % SeqMod

(* The numbers of the tries that may yet be answered.                      *)
SeqsOf(s) == {s[i].seq : i \in DOMAIN s}
UnderWay == SeqsOf(up) \cup {hub.seq} \cup SeqsOf(down)

(* Every try has a number of its own, until the numbers come round.  What  *)
(* was noted of an earlier one is drained first.  A frame that finds the   *)
(* hub's buffer full is lost.                                              *)
Send ==
  /\ pc = "send" /\ pc' = "wait"
  /\ txSeq' = NextSeq /\ waitSeq' = NextSeq /\ ack' = NoReply
  /\ reused' = (NextSeq \in UnderWay)
  /\ tries' = tries + 1
  /\ up' = IF Len(up) < UpCap THEN Append(up, [seq |-> NextSeq, job |-> work]) ELSE up
  /\ UNCHANGED <<answer, queue, work, down, hubs>>

Report(a) ==
  /\ answer' = [answer EXCEPT ![work] = a]
  /\ work' = 0 /\ waitSeq' = 0 /\ pc' = "rest"

Answered ==
  /\ pc = "wait" /\ ack.seq = waitSeq
  /\ Report(IF ack.nak THEN "refused" ELSE "ok")
  /\ ack' = NoReply
  /\ UNCHANGED <<queue, tries, txSeq, reused, wires, hubs>>

(* Mutant: one try too many.                                               *)
MutTimeout ==
  /\ pc = "wait" /\ ack.seq = 0
  /\ IF tries <= MaxTries THEN pc' = "send" /\ UNCHANGED <<answer, work, waitSeq>>
     ELSE Report("silent")
  /\ UNCHANGED <<queue, tries, txSeq, reused, ack, wires, hubs>>
(* CMD_ACK_TIMEOUT_MS went by without a reply.                             *)
Timeout ==
  /\ pc = "wait" /\ ack.seq = 0
  /\ IF tries < MaxTries THEN pc' = "send" /\ UNCHANGED <<answer, work, waitSeq>>
     ELSE Report("silent")
  /\ UNCHANGED <<queue, tries, txSeq, reused, ack, wires, hubs>>

(* Mutant: any reply will do.                                              *)
MutNoteAck ==
  /\ down # <<>> /\ down' = Tail(down)
  /\ ack' = IF waitSeq # 0 THEN [Head(down) EXCEPT !.seq = waitSeq] ELSE ack
  /\ UNCHANGED <<answer, queue, worker, up, hubs>>
(* modulus_zb_uart_note_ack: a reply to anything but the try in progress   *)
(* is ignored.                                                             *)
NoteAck ==
  /\ down # <<>> /\ down' = Tail(down)
  /\ ack' = IF Head(down).seq = waitSeq THEN Head(down) ELSE ack
  /\ UNCHANGED <<answer, queue, worker, up, hubs>>

-----------------------------------------------------------------------------
(* zigbee_hub_process_cmd, one frame after the other in the receive task   *)
HubTake ==
  /\ hub = NoFrame /\ up # <<>>
  /\ hub' = Head(up) /\ up' = Tail(up)
  /\ UNCHANGED <<answer, queue, worker, ack, down, formed, last, runs, resets>>

Reply(nak) == down' = Append(down, [seq |-> hub.seq, nak |-> nak])

HubRun ==
  /\ hub # NoFrame /\ formed /\ Len(down) < DownCap
  /\ last' = hub.job /\ runs' = [runs EXCEPT ![hub.job] = @ + 1]
  /\ Reply(FALSE) /\ hub' = NoFrame
  /\ UNCHANGED <<answer, queue, worker, ack, up, formed, resets>>

HubRefuse ==
  /\ hub # NoFrame /\ ~formed /\ Len(down) < DownCap
  /\ Reply(TRUE) /\ hub' = NoFrame
  /\ UNCHANGED <<answer, queue, worker, ack, up, formed, last, runs, resets>>

(* The stack's initialization fails while the frame waits for the stack's  *)
(* lock: s_reply_seq makes the failure look like this command's reply.     *)
HubInitFails ==
  /\ hub # NoFrame /\ ~formed /\ Len(down) < DownCap
  /\ Reply(TRUE)
  /\ UNCHANGED <<answer, queue, worker, ack, up, hubs>>

Form ==
  /\ ~formed /\ formed' = TRUE
  /\ UNCHANGED <<answer, queue, worker, ack, wires, hub, last, runs, resets>>

(* The hub restarts, the UART loses a frame.                               *)
HubReset ==
  /\ resets < MaxResets /\ resets' = resets + 1
  /\ hub' = NoFrame /\ formed' = FALSE /\ up' = <<>>
  /\ UNCHANGED <<answer, queue, worker, ack, down, last, runs>>

Lose ==
  /\ \/ up # <<>> /\ up' = Tail(up) /\ UNCHANGED down
     \/ down # <<>> /\ down' = Tail(down) /\ UNCHANGED up
  /\ UNCHANGED <<answer, queue, worker, ack, hubs>>

Worker == Take \/ Send \/ Answered \/ Timeout
Next ==
  \/ Enqueue \/ Worker \/ NoteAck
  \/ HubTake \/ HubRun \/ HubRefuse \/ HubInitFails \/ Form \/ HubReset \/ Lose

(* The worker task runs; nothing is asked of the UART or the hub.          *)
Spec == Init /\ [][Next]_vars
FairSpec == Spec /\ WF_vars(Worker)

-----------------------------------------------------------------------------
Frame == [seq : 0..SeqMod - 1, job : 0..NumJobs]
Replies == [seq : 0..SeqMod - 1, nak : BOOLEAN]

TypeOK ==
  /\ answer \in [Job -> {"new", "open", "dropped", "ok", "refused", "silent"}]
  /\ queue \in Seq(Job) /\ Len(queue) <= Depth
  /\ work \in 0..NumJobs /\ tries \in 0..MaxTries /\ pc \in {"rest", "send", "wait"}
  /\ txSeq \in 0..SeqMod - 1 /\ waitSeq \in 0..SeqMod - 1 /\ reused \in BOOLEAN
  /\ ack \in Replies
  /\ up \in Seq(Frame) /\ Len(up) <= UpCap /\ down \in Seq(Replies) /\ Len(down) <= DownCap
  /\ hub \in Frame /\ formed \in BOOLEAN /\ last \in 0..NumJobs
  /\ runs \in [Job -> Nat] /\ resets \in 0..MaxResets

(* The device sees a command at most once for every try.                   *)
RunsPerTry == \A j \in Job : runs[j] <= MaxTries

(* The link keeps the promises of ZbService, however often the numbers     *)
(* come round: a command whose try got a number that nothing under way     *)
(* carried is never taken for done by the reply to another one.            *)
Service == INSTANCE ZbService WITH doubt <- reused
KeepsPromise == Service!Spec
(* The same without that condition, as if numbers did not come round.      *)
Certain == INSTANCE ZbService WITH doubt <- FALSE
DoneWasDone == Certain!Safety
=============================================================================
