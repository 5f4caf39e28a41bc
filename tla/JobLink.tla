------------------------------- MODULE JobLink -------------------------------
(***************************************************************************)
(* The job streamer of JobStream together with the controller it feeds:    *)
(* the radio and UART path in both directions, and grblHAL's MPG port as   *)
(* the streamer's header and engine_send.zig describe it.  Realtime bytes  *)
(* act at once; a line enters the RX buffer only while the port owns the   *)
(* stream; every line executed is answered by one ok; 0x8B flips the mode  *)
(* only in Idle and is answered by a report either way.                    *)
(*                                                                         *)
(* A frame may be lost in either direction (Lossy), delivered twice on the *)
(* way down (Dups), and the controller may refuse a claim (Refuses) or     *)
(* still be moving on lines that it has already acknowledged (Plans).      *)
(***************************************************************************)
EXTENDS JobStream

CONSTANTS
  Lossy, Dups, Refuses, Plans,
  MaxUp,        (* bound: answers under way before the controller waits    *)
  MaxJobs       (* bound: jobs the operator starts                         *)

ASSUME LinkAssumption ==
  /\ {Lossy, Dups, Refuses, Plans} \subseteq BOOLEAN
  /\ MaxUp \in Nat \ {0} /\ MaxJobs \in Nat \ {0}

VARIABLES
  cbuf,         (* lines in the controller's RX buffer of this port        *)
  cmpg,         (* the port owns the stream                                *)
  held,         (* feed hold                                               *)
  moving,       (* the planner still executes acknowledged lines           *)
  up,           (* answers under way to the pendant, oldest first          *)
  ran,          (* history: lines of the job executed since it was started *)
  jobs,         (* history: jobs started                                   *)
  smooth,       (* history: no frame was lost or sent twice, no toggle     *)
                (* refused, nothing reset and the session not closed so far*)
  clean         (* history: nothing of an earlier job was left when the    *)
                (* last one was started                                    *)

ctl  == <<cbuf, cmpg, held, moving>>
link == <<ctl, up, ran, jobs, smooth, clean>>
linkVars == <<vars, link>>

Report(mpg, busy) == [kind |-> "status", mpg |-> mpg, mach |-> IF busy THEN "busy" ELSE "idle"]
Ok == [kind |-> "ok", mpg |-> FALSE, mach |-> "idle"]
Busy == cbuf # <<>> \/ held \/ moving

UpRoom == Len(up) < MaxUp

(* Bytes of the RX buffer: a realtime byte takes none, and a line of the   *)
(* operator's own is as short as a line can be.                            *)
BytesOf(item) == CASE item.kind = "line" -> Cost(item.num)
                   [] item.kind = "mdi"  -> 1
                   [] OTHER              -> 0
Bytes(items)  == SumOf([k \in DOMAIN items |-> BytesOf(items[k])])

LinkInit ==
  /\ Init /\ conn
  /\ cbuf = <<>> /\ cmpg = FALSE /\ held = FALSE /\ moving = FALSE
  /\ up = <<>> /\ ran = <<>> /\ jobs = 0 /\ smooth = TRUE /\ clean = TRUE

(* A line of a job is on its way or in the buffer, or an ok is under way.  *)
Leftover ==
  \/ \E k \in DOMAIN tx : tx[k].kind = "line"
  \/ \E k \in DOMAIN cbuf : cbuf[k].kind = "line"
  \/ \E k \in DOMAIN up : up[k].kind = "ok"

(* The pendant's own steps.  A job that starts clears the record of lines. *)
Starts == st = "loaded" /\ Active(st')
Pendant ==
  /\ Clock \/ TickBegin \/ Pump \/ Ui
  /\ Starts => jobs < MaxJobs
  /\ jobs' = IF Starts THEN jobs + 1 ELSE jobs
  /\ ran' = IF Starts THEN <<>> ELSE ran
  /\ clean' = IF Starts THEN ~Leftover ELSE clean
  /\ smooth' = (smooth /\ conn')
  /\ UNCHANGED <<ctl, up>>

(* Mutant: the answer is parsed, and parsed again on the next chunk.       *)
MutAnswer ==
  /\ up # <<>>
  /\ LET a == Head(up) IN IF a.kind = "ok" THEN RxOk ELSE RxStatus(a.mpg, a.mach)
  /\ (up' = Tail(up) \/ up' = up)
  /\ UNCHANGED <<ctl, ran, jobs, smooth, clean>>

(* Driver.poll parses the oldest answer.                                   *)
Answer ==
  /\ up # <<>>
  /\ LET a == Head(up) IN IF a.kind = "ok" THEN RxOk ELSE RxStatus(a.mpg, a.mach)
  /\ up' = Tail(up)
  /\ UNCHANGED <<ctl, ran, jobs, smooth, clean>>

(* The transport's task opens the session that the engine had given up.    *)
Reopen == SessionOpens /\ UNCHANGED link

(* What the controller does with one item.                                 *)
Accept(item) ==
  CASE item.kind \in {"line", "mdi"} ->
         /\ cbuf' = IF cmpg THEN Append(cbuf, item) ELSE cbuf
         /\ UNCHANGED <<cmpg, held, moving, up>>
    [] item.kind = "hold"  -> held' = Busy /\ UNCHANGED <<cbuf, cmpg, moving, up>>
    [] item.kind = "cycle" -> held' = FALSE /\ UNCHANGED <<cbuf, cmpg, moving, up>>
    [] item.kind = "reset" ->
         /\ cbuf' = <<>> /\ held' = FALSE /\ moving' = FALSE
         /\ UNCHANGED <<cmpg, up>>
    [] OTHER ->
         /\ UpRoom
         /\ cmpg' \in IF Busy THEN {cmpg} ELSE {~cmpg} \cup (IF Refuses THEN {FALSE} ELSE {})
         /\ up' = Append(up, Report(cmpg', Busy))
         /\ UNCHANGED <<cbuf, held, moving>>

Deliver ==
  /\ WireTake /\ Accept(Head(tx))
  /\ smooth' = (smooth /\ CASE Head(tx).kind = "toggle" -> cmpg' # cmpg
                              [] OTHER -> Head(tx).kind # "reset")
  /\ UNCHANGED <<ran, jobs, clean>>

(* The MAC ack of a delivered frame was lost, and the frame is sent again. *)
(* The bound lets the port see one line more than the file has.            *)
DeliverTwice ==
  /\ Dups /\ tx # <<>> /\ Head(tx).kind = "line"
  /\ Len(ran) + Len(cbuf) <= NumLines
  /\ Accept(Head(tx)) /\ smooth' = FALSE
  /\ UNCHANGED <<vars, ran, jobs, clean>>

DownLost == Lossy /\ WireTake /\ smooth' = FALSE /\ UNCHANGED <<ctl, up, ran, jobs, clean>>
UpLost ==
  /\ Lossy /\ up # <<>> /\ up' = Tail(up) /\ smooth' = FALSE
  /\ UNCHANGED <<vars, ctl, ran, jobs, clean>>

(* The oldest line is taken out of the buffer, planned and acknowledged.   *)
CtlRun ==
  /\ cbuf # <<>> /\ ~held /\ UpRoom
  /\ cbuf' = Tail(cbuf) /\ moving' = (moving \/ Plans)
  /\ ran' = IF Head(cbuf).kind = "line" THEN Append(ran, Head(cbuf).num) ELSE ran
  /\ up' = Append(up, Ok)
  /\ UNCHANGED <<vars, cmpg, held, jobs, smooth, clean>>

CtlMoved == moving /\ moving' = FALSE /\ UNCHANGED <<vars, cbuf, cmpg, held, up, ran, jobs, smooth, clean>>

(* A periodic status report.                                               *)
CtlReport ==
  /\ UpRoom /\ up' = Append(up, Report(cmpg, Busy))
  /\ UNCHANGED <<vars, ctl, ran, jobs, smooth, clean>>

LinkNext == \/ Pendant \/ Reopen \/ Answer \/ Deliver \/ DeliverTwice \/ DownLost \/ UpLost
            \/ CtlRun \/ CtlMoved \/ CtlReport

LinkSpec == LinkInit /\ [][LinkNext]_linkVars

(* As in JobStream: the pendant's tasks run, a handler that was entered    *)
(* ends, and the transport gets rid of what it was handed, delivered or    *)
(* not.  Nothing is asked of the controller, which may never answer.       *)
Quietly(step) == step /\ UNCHANGED link
LinkFairness ==
  /\ WF_linkVars(Quietly(Clock)) /\ WF_linkVars(Quietly(TickBegin))
  /\ WF_linkVars(Quietly(Pump)) /\ WF_linkVars(Quietly(UiBaseline))
  /\ WF_linkVars(Quietly(UiAbortReset)) /\ WF_linkVars(Deliver \/ DownLost)

LinkFairSpec == LinkSpec /\ LinkFairness

-----------------------------------------------------------------------------
(* The lines in the controller's RX buffer and those still on their way to *)
(* it never exceed the window that the streamer assumed for it (what is    *)
(* over-filled is dropped in mid-line), although the pendant learns of a   *)
(* lost line or a lost ok only by silence.                                 *)
FlightFits == clean => Bytes(cbuf) + Bytes(tx) <= RxWindow

(* A line leaves the window only when the controller has executed a line   *)
(* of this job for it: an ok is never counted twice, nor one that answers  *)
(* something else.                                                         *)
AckedMeansRun == clean => next_line - Len(lens) <= Len(ran)

(* The controller executes no line a second time and none before an        *)
(* earlier one, even when frames are lost.                                 *)
RunsOnce == clean => \A i, j \in DOMAIN ran : i < j => ran[i] < ran[j]

(* A link that loses and repeats frames still never makes it go back in    *)
(* the file.                                                               *)
RunsNeverBack == clean => \A i, j \in DOMAIN ran : i < j => ran[i] <= ran[j]

(* As long as nothing was lost or reset it executes exactly the first lines *)
(* of the file.                                                            *)
RunsInOrder == clean /\ smooth => \A i \in DOMAIN ran : ran[i] = i - 1

(* A job that ends as complete has been executed to its last line, however *)
(* many frames the link has lost meanwhile: a bad link makes a job end by  *)
(* timeout, not as complete.                                               *)
CompleteMeansRun == clean /\ st = "complete" => Len(ran) = NumLines

(* After a complete job the port belongs to the PC sender again.           *)
PortReturned ==
  smooth /\ st = "idle" /\ last_terminal = "complete" /\ pc0 = "rest" /\ tx = <<>> => ~cmpg
=============================================================================
