------------------------------ MODULE JobStream ------------------------------
(***************************************************************************)
(* The pendant's G-code job streamer: cnc/job_stream.zig (the window and   *)
(* claim state machine), firmware/job_runner.zig (the pump that binds it   *)
(* to the driver) and the job entry points of firmware/device_runtime.zig. *)
(*                                                                         *)
(* Two threads share the streamer without a lock.  Core 1 runs sys_task:   *)
(* each tick captures the clock, parses what the controller sent, and then *)
(* pumps the job.  Core 0 runs the UI, whose buttons call jobLoadUsb,      *)
(* jobStart, jobHold, jobResume, jobAbort and the driver's cmdStop.        *)
(* pc1 and pc0 are their control points.  One call of a streamer method is *)
(* one step, except next(), which reads the USB volume half way: the steps *)
(* between two calls, and that read, are where the threads interleave.     *)
(*                                                                         *)
(* The controller is left open here: acks, errors and status reports       *)
(* arrive in any order, and the engine may take it for gone and close the  *)
(* session.  JobLink closes the loop with a controller.                    *)
(***************************************************************************)
EXTENDS Integers, Sequences

CONSTANTS
  NumLines,     (* lines of the loaded file                                *)
  Offset,       (* Offset[i]: RX-buffer bytes of the first i lines, each   *)
                (* counted with its newline                                *)
  RxWindow,     (* default_rx_window                                       *)
  MaxInflight,  (* max_inflight                                            *)
  AckTimeout,   (* default_ack_timeout_ms, in clock steps                  *)
  MaxLag,       (* clock steps one sys_task tick may last                  *)
  CounterMod,   (* the ack counters wrap at this value (2^32 in the code)  *)
  MaxWire,      (* bound: items the send path holds before a sender blocks *)
  Ops,          (* the operator's buttons that this instance presses       *)
  UsbFails,     (* whether the USB volume may stop answering mid-job       *)
  Silences,     (* whether the engine may close the session by a timeout   *)
  Rejects       (* whether the controller may answer error:N               *)

AllOps == {"load", "reload", "start", "hold", "resume", "abort", "stop", "mpg", "mdi"}

ASSUME FileAssumption ==
  /\ NumLines \in Nat \ {0}
  /\ Offset \in [0..NumLines -> Nat]
  /\ Offset[0] = 0
  /\ \A i, j \in 0..NumLines : i < j => Offset[i] < Offset[j]

ASSUME LimitAssumption ==
  /\ RxWindow \in Nat \ {0}
  /\ MaxInflight \in Nat \ {0}
  /\ AckTimeout \in Nat \ {0}
  /\ MaxLag \in Nat
  /\ CounterMod \in Nat \ {0}
  /\ MaxWire \in Nat \ {0}
  /\ Ops \subseteq AllOps
  /\ UsbFails \in BOOLEAN /\ Silences \in BOOLEAN /\ Rejects \in BOOLEAN

VARIABLES
  st, fault,            (* Streamer.state, Streamer.fault                  *)
  total, next_line,     (* total_lines, next_line                          *)
  lens,                 (* the unacked lines, oldest first                 *)
  inflight,             (* in_flight_bytes                                 *)
  age,                  (* now - last_ack_ms                               *)
  claimed, saw_grant,   (* the two grant flags                             *)
  last_ok, last_err,    (* JobRunner: last observed ack counters           *)
  last_terminal,        (* JobRunner.last_terminal                         *)
  pc1, act, loop,       (* sys_task: control point, pending action, and the*)
                        (* counter of the loop the pump is in: d or guard  *)
  lag,                  (* now - tick_ms: how old this tick's clock is     *)
  pc0,                  (* UI thread: control point                        *)
  ok_count, err_count,  (* engine ack counters                             *)
  mpg_remote, mpg_user, (* reported MPG grant; the operator's MPG wish     *)
  mach,                 (* parser machine state; other: alarm, disconnected *)
  mpg_snap, snap_idle,  (* snapshot.mpg_remote, snapshot.state == .idle    *)
  conn,                 (* isConnected: the engine's session is open       *)
  silent,               (* no report has restarted the session's timers in *)
                        (* this tick                                       *)
  fresh,                (* history: this tick's poll found it open and has *)
                        (* copied the parser's state into the snapshot     *)
  tx,                   (* items handed to the transport, oldest first     *)
  halted,               (* history: soft reset sent since the last start   *)
  owed                  (* history: odd number of 0x8B sent by the job     *)

streamer == <<st, fault, total, next_line, lens, inflight, claimed, saw_grant>>
runner   == <<last_ok, last_err, last_terminal>>
engine   == <<ok_count, err_count, mpg_remote>>
driver   == <<mpg_snap, snap_idle, mach, conn, silent, fresh>>
history  == <<halted, owed>>
vars == <<streamer, age, runner, pc1, act, loop, lag, pc0, engine, mpg_user, driver, tx, history>>

(* Every pump step leaves what only the UI, the parser or the clock writes. *)
pumpFrame == <<pc0, engine, mpg_user, halted>>
(* A UI step leaves the pump's control and the parser's state.              *)
uiFrame   == <<pc1, act, loop, lag, engine, last_terminal>>

States == {"idle", "loaded", "claiming", "streaming", "paused", "draining", "complete", "aborted"}
Faults == {"none", "claim_denied", "mpg_lost", "controller_error", "ack_timeout", "read_failed"}

Active(s)  == s \in {"claiming", "streaming", "paused", "draining"}
Started(s) == s \in {"streaming", "paused", "draining"}

(***************************************************************************)
(* What goes on the wire.  A realtime byte has line number 0.              *)
(***************************************************************************)
Line(i) == [kind |-> "line", num |-> i]
Byte(k) == [kind |-> k, num |-> 0]
Toggle  == Byte("toggle")
Reset   == Byte("reset")
Items   == [kind : {"line"}, num : 0..NumLines - 1]
             \cup [kind : {"toggle", "hold", "cycle", "reset", "mdi"}, num : {0}]
NoAct   == [kind |-> "none", num |-> 0]

Room == Len(tx) < MaxWire
Send(item) == Room /\ tx' = Append(tx, item)

(* sendGcode drops a text line silently unless canSendLine allows it.      *)
CanSendLine == mach = "busy" => mpg_remote

MpgActive == mpg_user = "on" \/ (mpg_user = "auto" /\ mpg_snap)

Least(a, b) == IF a <= b THEN a ELSE b
MaxAge  == AckTimeout + MaxLag + 1
Cost(i) == Offset[i + 1] - Offset[i]

(* The sum of a sequence of numbers.                                       *)
SumOf(w) ==
  LET upto[n \in 0..Len(w)] == IF n = 0 THEN 0 ELSE upto[n - 1] + w[n]
  IN  upto[Len(w)]

(* `tick_ms -% last_ack_ms > ack_timeout_ms`.  The subtraction is unsigned: *)
(* when the UI stamped last_ack_ms after this tick's clock was captured,    *)
(* the difference wraps to a huge interval.                                 *)
Expired == age < lag \/ age - lag > AckTimeout

(* At boot, or once a connected controller has reported that it is idle.   *)
Init ==
  /\ st = "idle" /\ fault = "none"
  /\ total = 0 /\ next_line = 0 /\ lens = <<>> /\ inflight = 0
  /\ age = 0 /\ claimed = FALSE /\ saw_grant = FALSE
  /\ last_ok = 0 /\ last_err = 0 /\ last_terminal = "idle"
  /\ pc1 = "rest" /\ act = NoAct /\ loop = 0 /\ lag = 0 /\ pc0 = "rest"
  /\ ok_count = 0 /\ err_count = 0
  /\ mpg_remote = FALSE /\ mpg_user = "auto" /\ mpg_snap = FALSE
  /\ conn \in BOOLEAN /\ fresh = conn /\ silent = TRUE
  /\ mach = (IF conn THEN "idle" ELSE "other") /\ snap_idle = conn
  /\ tx = <<>>
  /\ halted = FALSE /\ owed = FALSE

-----------------------------------------------------------------------------
(***************************************************************************)
(* Time, and the parser.  Clock is the millisecond timer; a tick that is   *)
(* under way sees at most MaxLag steps of it.  The Rx actions are the      *)
(* lines that rx_ring.drainInto parses at the top of a tick.               *)
(***************************************************************************)
Clock ==
  /\ pc1 # "rest" => lag < MaxLag
  /\ lag' = IF pc1 = "rest" THEN 0 ELSE lag + 1
  /\ age' = IF Active(st) THEN Least(age + 1, MaxAge) ELSE age
  /\ UNCHANGED <<streamer, runner, pc1, act, loop, pc0, engine, mpg_user, driver, tx, history>>

TickBegin ==
  /\ pc1 = "rest"
  /\ pc1' = "drain"
  /\ UNCHANGED <<lag, streamer, age, runner, act, loop, pc0, engine, mpg_user, driver, tx, history>>

parserFrame == <<streamer, age, runner, pc1, act, loop, lag, pc0, mpg_user, mpg_snap, snap_idle, fresh, tx>>

(* Mutant: the counter does not wrap.                                      *)
MutRxOk ==
  /\ pc1 = "drain"
  /\ ok_count' = ok_count + 1
  /\ UNCHANGED <<parserFrame, conn, silent, mach, err_count, mpg_remote, history>>

RxOk ==
  /\ pc1 = "drain"
  /\ ok_count' = (ok_count + 1) % CounterMod
  /\ UNCHANGED <<parserFrame, conn, silent, mach, err_count, mpg_remote, history>>

RxErr ==
  /\ pc1 = "drain" /\ Rejects
  /\ err_count' = (err_count + 1) % CounterMod
  /\ UNCHANGED <<parserFrame, conn, silent, mach, ok_count, mpg_remote, history>>

(* A report with the grant opens the session again, and so does an alarm   *)
(* whose code locks the controller; any other leaves it as it is.          *)
RxStatus(m, s) ==
  /\ pc1 = "drain"
  /\ mpg_remote' = m /\ mach' = s
  /\ conn' = (conn \/ m) \/ (s = "other" /\ conn' = TRUE)
  /\ silent' = FALSE
  /\ UNCHANGED <<parserFrame, ok_count, err_count, history>>

(* Engine.onConnect, which the transport's task calls at any time.         *)
SessionOpens ==
  /\ ~conn /\ conn' = TRUE
  /\ UNCHANGED <<parserFrame, silent, mach, engine, history>>

-----------------------------------------------------------------------------
(***************************************************************************)
(* JobRunner.pump on Core 1.  Driver.poll runs just before it.  Its engine *)
(* may give up a silent controller: the session closes and the state of    *)
(* the machine is forgotten, the grant is not.  An open session has the    *)
(* parser's state copied into the snapshot; with a closed one poll returns *)
(* early, and the snapshot keeps the grant that it saw last.               *)
(***************************************************************************)
SnapshotRefresh ==
  /\ conn' = conn \/ (Silences /\ silent /\ conn' = FALSE)
  /\ mach' = IF conn /\ ~conn' THEN "other" ELSE mach
  /\ mpg_snap' = IF conn' THEN mpg_remote ELSE mpg_snap
  /\ snap_idle' = (conn' /\ mach = "idle")
  /\ fresh' = conn' /\ silent' = TRUE

Goto(label) ==
  /\ pc1' = label
  /\ lag' = IF label = "rest" THEN 0 ELSE lag
  /\ loop' = IF label \in {"read", "send"} THEN loop ELSE 0

PumpSkip ==
  /\ pc1 = "drain" /\ ~Active(st)
  /\ SnapshotRefresh
  /\ Goto("rest")
  /\ UNCHANGED <<streamer, age, runner, act, tx, owed, pumpFrame>>

(* An error count that moved ends the job, and the pump returns at once.   *)
PumpError ==
  /\ pc1 = "drain" /\ Active(st) /\ last_err # err_count
  /\ SnapshotRefresh
  /\ last_err' = err_count /\ last_ok' = ok_count
  /\ st' = "aborted" /\ fault' = "controller_error"
  /\ Goto("rest")
  /\ UNCHANGED <<total, next_line, lens, inflight, claimed, saw_grant,
                 age, last_terminal, act, tx, owed, pumpFrame>>

AckDelta == (ok_count - last_ok) % CounterMod

PumpCount ==
  /\ pc1 = "drain" /\ Active(st) /\ last_err = err_count
  /\ SnapshotRefresh
  /\ last_ok' = ok_count
  /\ pc1' = "acks" /\ loop' = AckDelta
  /\ UNCHANGED <<streamer, age, last_err, last_terminal, act, lag, tx, owed, pumpFrame>>

(* Mutant: head moves before the cost of the oldest line is read.          *)
MutPumpAck ==
  /\ pc1 = "acks" /\ loop > 0
  /\ loop' = loop - 1
  /\ IF Active(st) /\ lens # <<>>
     THEN /\ lens' = Tail(lens)
          /\ inflight' = IF lens' = <<>> THEN inflight ELSE inflight - Cost(Head(lens'))
          /\ age' = lag
          /\ st' = IF st = "draining" /\ lens' = <<>> THEN "complete" ELSE st
     ELSE UNCHANGED <<lens, inflight, age, st>>
  /\ UNCHANGED <<fault, total, next_line, claimed, saw_grant, driver,
                 runner, pc1, act, lag, tx, owed, pumpFrame>>

(* onOk: pop the oldest line if there is one.                              *)
PumpAck ==
  /\ pc1 = "acks" /\ loop > 0
  /\ loop' = loop - 1
  /\ IF Active(st)
     THEN /\ IF lens # <<>>
             THEN /\ lens' = Tail(lens)
                  /\ inflight' = IF inflight >= Cost(Head(lens)) THEN inflight - Cost(Head(lens)) ELSE 0
             ELSE UNCHANGED <<lens, inflight>>
          /\ age' = lag
          /\ st' = IF st = "draining" /\ lens' = <<>> THEN "complete" ELSE st
     ELSE UNCHANGED <<lens, inflight, age, st>>
  /\ UNCHANGED <<fault, total, next_line, claimed, saw_grant, driver,
                 runner, pc1, act, lag, tx, owed, pumpFrame>>

(* Mutant: a revoked grant is not noticed.                                 *)
MutGrantKept ==
  /\ pc1 = "acks" /\ loop = 0
  /\ LET granted == mpg_snap /\ st = "claiming"
     IN  /\ st' = IF granted THEN "streaming" ELSE st
         /\ saw_grant' = (saw_grant \/ granted)
         /\ age' = IF granted THEN lag ELSE age
         /\ Goto(IF Active(st) THEN "next" ELSE "finish")
  /\ UNCHANGED <<fault, total, next_line, lens, inflight, claimed,
                 runner, act, tx, owed, driver, pumpFrame>>

(* onMpgGranted, or onMpgLost once a grant has been seen.                  *)
PumpGrant ==
  /\ pc1 = "acks" /\ loop = 0
  /\ LET granted == mpg_snap /\ st = "claiming"
         lost    == ~mpg_snap /\ saw_grant /\ Started(st)
     IN  /\ st' = IF granted THEN "streaming" ELSE IF lost THEN "aborted" ELSE st
         /\ fault' = IF lost THEN "mpg_lost" ELSE fault
         /\ saw_grant' = (saw_grant \/ granted)
         /\ age' = IF granted THEN lag ELSE age
         /\ Goto(IF Active(st) /\ ~lost THEN "next" ELSE "finish")
  /\ UNCHANGED <<total, next_line, lens, inflight, claimed,
                 runner, act, tx, owed, driver, pumpFrame>>

nextFrame == <<claimed, saw_grant, age, runner, tx, owed, driver, pumpFrame>>
NextTurn  == pc1 = "next" /\ loop < MaxInflight

(* Streamer.next failing the job; `item` is the realtime byte it returns.  *)
NextFails(f, item) ==
  /\ st' = "aborted" /\ fault' = f
  /\ act' = item
  /\ Goto(IF item = NoAct THEN "finish" ELSE "send")
  /\ UNCHANGED <<total, next_line, lens, inflight, nextFrame>>

(* Mutant: nothing ends a claim.                                           *)
MutClaimTimeout == FALSE

ClaimTimeout == st = "claiming" /\ Expired
DeadMan      == Started(st) /\ lens # <<>> /\ Expired
MaySend      == st = "streaming" /\ ~DeadMan

PumpClaimTimeout == NextTurn /\ ClaimTimeout /\ NextFails("claim_denied", Reset)
PumpDeadMan      == NextTurn /\ DeadMan /\ NextFails("ack_timeout", Byte("hold"))

(* Mutant: a program whose last line is sent counts as complete.           *)
MutFinished == st' = "complete"

(* The program's end, with or without lines still unacked.                 *)
Finished == st' = IF lens = <<>> THEN "complete" ELSE "draining"

(* Mutant: at the end of the file the unacked lines are sent once more.    *)
MutEndOfFile ==
  /\ NextTurn /\ MaySend /\ next_line >= total
  /\ st' = IF lens = <<>> THEN "complete" ELSE st
  /\ next_line' = next_line - Len(lens) /\ lens' = <<>> /\ inflight' = 0
  /\ Goto("finish")
  /\ UNCHANGED <<fault, total, act, nextFrame>>

PumpEndOfFile ==
  /\ NextTurn /\ MaySend /\ next_line >= total
  /\ Finished
  /\ Goto("finish")
  /\ UNCHANGED <<fault, total, next_line, lens, inflight, act, nextFrame>>

(* next() calls src.read(next_line): a seek and a read of the USB volume.  *)
PumpRead ==
  /\ NextTurn /\ MaySend /\ next_line < total
  /\ act' = Line(next_line)
  /\ Goto("read")
  /\ UNCHANGED <<st, fault, total, next_line, lens, inflight, nextFrame>>

(* next() returned .none without reading, or the per-tick guard ran out.   *)
PumpNothing ==
  /\ pc1 = "next"
  /\ \/ loop = MaxInflight
     \/ ~ClaimTimeout /\ ~DeadMan /\ st # "streaming"
  /\ Goto("finish")
  /\ UNCHANGED <<st, fault, total, next_line, lens, inflight, act, nextFrame>>

(* A null read: UsbLineSource never sets io_failed, so next() takes it for *)
(* a clean end of file, and writes the state without looking at it again.  *)
PumpNullRead ==
  /\ pc1 = "read" /\ UsbFails
  /\ total' = next_line
  /\ Finished
  /\ act' = NoAct /\ Goto("finish")
  /\ UNCHANGED <<fault, next_line, lens, inflight, nextFrame>>

(* A line that can never fit the window.                                   *)
PumpOversize ==
  /\ pc1 = "read" /\ Cost(act.num) > RxWindow
  /\ NextFails("read_failed", NoAct)

(* Mutant: the window forgets the line that is about to enter it.          *)
MutFits(i) == Len(lens) < MaxInflight /\ inflight < RxWindow

Fits(i) == Len(lens) < MaxInflight /\ inflight + Cost(i) <= RxWindow

(* Mutant: the line number does not advance, and the line is read again.   *)
MutPumpLine ==
  /\ pc1 = "read" /\ Cost(act.num) <= RxWindow /\ Fits(act.num)
  /\ lens' = Append(lens, act.num)
  /\ inflight' = inflight + Cost(act.num)
  /\ Goto("send")
  /\ UNCHANGED <<st, fault, total, next_line, act, nextFrame>>

(* The line that was read enters the window as line next_line.             *)
PumpLine ==
  /\ pc1 = "read" /\ Cost(act.num) <= RxWindow /\ Fits(act.num)
  /\ lens' = Append(lens, act.num)
  /\ inflight' = inflight + Cost(act.num)
  /\ next_line' = next_line + 1
  /\ Goto("send")
  /\ UNCHANGED <<st, fault, total, act, nextFrame>>

(* The line is read again when the window has room.                        *)
PumpFull ==
  /\ pc1 = "read" /\ Cost(act.num) <= RxWindow /\ ~Fits(act.num)
  /\ act' = NoAct /\ Goto("finish")
  /\ UNCHANGED <<st, fault, total, next_line, lens, inflight, nextFrame>>

PumpNext == \/ PumpClaimTimeout \/ PumpDeadMan \/ PumpEndOfFile \/ PumpRead \/ PumpNothing
            \/ PumpNullRead \/ PumpOversize \/ PumpLine \/ PumpFull

(* applyAction, outside any lock: the UI may act between next() and here.  *)
(* sendReset opens the session again, to wait for the banner.              *)
PumpSend ==
  /\ pc1 = "send"
  /\ IF act.kind = "line" /\ ~CanSendLine THEN UNCHANGED tx ELSE Send(act)
  /\ conn' = (conn \/ act = Reset)
  /\ act' = NoAct /\ pc1' = "next" /\ loop' = loop + 1
  /\ UNCHANGED <<lag, streamer, age, runner, owed, mpg_snap, snap_idle, mach, silent, fresh, pumpFrame>>

(* Mutant: the release is sent for a port that the job never claimed.      *)
MutPumpFinish ==
  /\ pc1 = "finish"
  /\ IF st \in {"complete", "aborted"}
     THEN /\ last_terminal' = st /\ Send(Toggle) /\ owed' = ~owed
          /\ Goto("idle")
     ELSE Goto("rest") /\ UNCHANGED <<last_terminal, tx, owed>>
  /\ UNCHANGED <<streamer, age, last_ok, last_err, act, driver, pumpFrame>>

(* Mutant: only an aborted job gives the port back.                        *)
MutRelease ==
  /\ pc1 = "finish"
  /\ IF st \in {"complete", "aborted"}
     THEN /\ last_terminal' = st
          /\ IF claimed /\ st = "aborted" THEN Send(Toggle) /\ owed' = ~owed ELSE UNCHANGED <<tx, owed>>
          /\ Goto("idle")
     ELSE Goto("rest") /\ UNCHANGED <<last_terminal, tx, owed>>
  /\ UNCHANGED <<streamer, age, last_ok, last_err, act, driver, pumpFrame>>

(* releaseAction and its send, then the move off the terminal state.       *)
PumpFinish ==
  /\ pc1 = "finish"
  /\ IF st \in {"complete", "aborted"}
     THEN /\ last_terminal' = st
          /\ IF claimed THEN Send(Toggle) /\ owed' = ~owed ELSE UNCHANGED <<tx, owed>>
          /\ Goto("idle")
     ELSE Goto("rest") /\ UNCHANGED <<last_terminal, tx, owed>>
  /\ UNCHANGED <<streamer, age, last_ok, last_err, act, driver, pumpFrame>>

PumpIdle ==
  /\ pc1 = "idle"
  /\ st' = "idle" /\ Goto("rest")
  /\ UNCHANGED <<fault, total, next_line, lens, inflight, claimed, saw_grant,
                 age, runner, act, tx, owed, driver, pumpFrame>>

Pump == PumpSkip \/ PumpError \/ PumpCount \/ PumpAck \/ PumpGrant \/ PumpNext \/ PumpSend \/ PumpFinish \/ PumpIdle

-----------------------------------------------------------------------------
(***************************************************************************)
(* The UI thread on Core 0.                                                *)
(***************************************************************************)
Pressed(op) == pc0 = "rest" /\ op \in Ops

(* Mutant: load does not clear the window of the job before.               *)
MutLoadJob ==
  /\ st' = "loaded" /\ fault' = "none"
  /\ total' = NumLines /\ next_line' = 0
  /\ age' = 0 /\ claimed' = FALSE /\ saw_grant' = FALSE
  /\ UNCHANGED <<lens, inflight, uiFrame, last_ok, last_err, pc0, mpg_user, driver, tx, history>>

LoadJob ==
  /\ st' = "loaded" /\ fault' = "none"
  /\ total' = NumLines /\ next_line' = 0 /\ lens' = <<>> /\ inflight' = 0
  /\ age' = 0 /\ claimed' = FALSE /\ saw_grant' = FALSE
  /\ UNCHANGED <<uiFrame, last_ok, last_err, pc0, mpg_user, driver, tx, history>>

(* The code loads at any time; "load" and "reload" only split the cases.   *)
AtRest == ~Active(st) /\ pc1 = "rest"
UiLoad   == Pressed("load") /\ AtRest /\ LoadJob
UiReload == Pressed("reload") /\ ~AtRest /\ LoadJob

(* startRequest takes effect here; the ack baseline is read in UiBaseline. *)
UiStart ==
  /\ Pressed("start") /\ st = "loaded" /\ snap_idle
  /\ age' = 0
  /\ LET already == MpgActive \/ mpg_snap
     IN  /\ st' = IF already THEN "streaming" ELSE "claiming"
         /\ saw_grant' = (saw_grant \/ already)
         /\ claimed' = (claimed \/ ~already)
         /\ pc0' = IF already THEN "baseline" ELSE "claim"
  /\ halted' = FALSE
  /\ UNCHANGED <<uiFrame, fault, total, next_line, lens, inflight,
                 last_ok, last_err, mpg_user, driver, tx, owed>>

UiBaseline ==
  /\ pc0 \in {"baseline", "claim"}
  /\ last_ok' = ok_count /\ last_err' = err_count
  /\ IF pc0 = "claim" THEN Send(Toggle) /\ owed' = ~owed ELSE UNCHANGED <<tx, owed>>
  /\ pc0' = "rest"
  /\ UNCHANGED <<uiFrame, streamer, age, mpg_user, driver, halted>>

buttonFrame == <<fault, total, next_line, lens, inflight, claimed, saw_grant,
                 uiFrame, last_ok, last_err>>

UiHold ==
  /\ Pressed("hold") /\ Send(Byte("hold"))
  /\ st' = IF st = "streaming" THEN "paused" ELSE st
  /\ UNCHANGED <<buttonFrame, age, pc0, mpg_user, driver, history>>

UiResume ==
  /\ Pressed("resume") /\ Send(Byte("cycle"))
  /\ st' = IF st = "paused" THEN "streaming" ELSE st
  /\ age' = IF st = "paused" THEN 0 ELSE age
  /\ UNCHANGED <<buttonFrame, pc0, mpg_user, driver, history>>

(* Mutant: a job that waits for its grant is not aborted.                  *)
MutUiAbort ==
  /\ Pressed("abort")
  /\ st' = IF Started(st) \/ st = "loaded" THEN "aborted" ELSE st
  /\ pc0' = "reset"
  /\ UNCHANGED <<buttonFrame, age, mpg_user, driver, tx, history>>

UiAbort ==
  /\ Pressed("abort")
  /\ st' = IF Active(st) \/ st = "loaded" THEN "aborted" ELSE st
  /\ pc0' = "reset"
  /\ UNCHANGED <<buttonFrame, age, mpg_user, driver, tx, history>>

UiAbortReset ==
  /\ pc0 = "reset" /\ Send(Reset)
  /\ halted' = TRUE /\ pc0' = "rest" /\ conn' = TRUE
  /\ UNCHANGED <<buttonFrame, st, age, mpg_user, mpg_snap, snap_idle, mach, silent, fresh, owed>>

(* cmdStop: the dashboard's stop key.  It resets the controller and leaves *)
(* the streamer as it is.                                                  *)
UiStop ==
  /\ Pressed("stop") /\ conn /\ Send(Reset)
  /\ snap_idle' = TRUE /\ halted' = TRUE /\ UNCHANGED <<mpg_snap, mach, conn, silent, fresh>>
  /\ UNCHANGED <<buttonFrame, st, age, pc0, mpg_user, owed>>

UiMpgToggle ==
  /\ Pressed("mpg")
  /\ mpg_user' = IF MpgActive THEN "off" ELSE "on"
  /\ IF conn /\ MpgActive = mpg_snap THEN Send(Toggle) ELSE UNCHANGED tx
  /\ UNCHANGED <<buttonFrame, st, age, pc0, driver, history>>

(* cmdSendGcode: a line of the operator's own, between the job's lines.    *)
UiMdi ==
  /\ Pressed("mdi") /\ conn /\ CanSendLine /\ Send(Byte("mdi"))
  /\ UNCHANGED <<buttonFrame, st, age, pc0, mpg_user, driver, history>>

Ui == \/ UiLoad \/ UiReload \/ UiStart \/ UiBaseline \/ UiHold \/ UiResume
      \/ UiAbort \/ UiAbortReset \/ UiStop \/ UiMpgToggle \/ UiMdi

(* The transport takes the oldest item.                                    *)
WireTake ==
  /\ tx # <<>> /\ tx' = Tail(tx)
  /\ UNCHANGED <<streamer, age, runner, pc1, act, loop, lag, pc0, engine,
                 mpg_user, driver, history>>

Rx == \/ RxOk \/ RxErr \/ SessionOpens
      \/ \E m \in BOOLEAN, s \in {"idle", "busy", "other"} : RxStatus(m, s)

Next == Clock \/ TickBegin \/ Rx \/ Pump \/ Ui \/ WireTake

(* sys_task and esp_timer keep running, a UI handler that was entered ends,*)
(* and the transport takes what it was handed.  Nobody must press a button *)
(* and the controller need not answer.                                     *)
Fairness ==
  /\ WF_vars(Clock) /\ WF_vars(TickBegin) /\ WF_vars(Pump)
  /\ WF_vars(UiBaseline) /\ WF_vars(UiAbortReset) /\ WF_vars(WireTake)

Spec == Init /\ [][Next]_vars
FairSpec == Spec /\ Fairness

-----------------------------------------------------------------------------
(* Every variable keeps to its values.                                     *)
TypeOK ==
  /\ st \in States /\ fault \in Faults
  /\ total \in 0..NumLines /\ next_line \in 0..NumLines
  /\ lens \in Seq(0..NumLines - 1) /\ inflight \in Nat
  /\ age \in 0..MaxAge /\ claimed \in BOOLEAN /\ saw_grant \in BOOLEAN
  /\ last_ok \in 0..CounterMod - 1 /\ last_err \in 0..CounterMod - 1
  /\ last_terminal \in {"idle", "complete", "aborted"}
  /\ pc1 \in {"rest", "drain", "acks", "next", "read", "send", "finish", "idle"}
  /\ act \in Items \cup {NoAct} /\ loop \in Nat
  /\ lag \in 0..MaxLag
  /\ pc0 \in {"rest", "baseline", "claim", "reset"}
  /\ ok_count \in 0..CounterMod - 1 /\ err_count \in 0..CounterMod - 1
  /\ mpg_remote \in BOOLEAN /\ mpg_user \in {"auto", "on", "off"}
  /\ mach \in {"idle", "busy", "other"} /\ mpg_snap \in BOOLEAN /\ snap_idle \in BOOLEAN
  /\ conn \in BOOLEAN /\ silent \in BOOLEAN /\ fresh \in BOOLEAN
  /\ tx \in Seq(Items)
  /\ halted \in BOOLEAN /\ owed \in BOOLEAN

(* The character-count window never promises more than the controller's    *)
(* RX buffer holds: in_flight_bytes stays within rx_window and at most     *)
(* max_inflight lines are tracked, whatever the acks and the UI do.        *)
WindowBound ==
  inflight <= RxWindow /\ Len(lens) <= MaxInflight

(* in_flight_bytes is what the tracked lines cost, even when the UI loads  *)
(* another job while the pump is half way through a read.                  *)
BytesConserved == inflight = SumOf([k \in DOMAIN lens |-> Cost(lens[k])])

(* ... and it is exact: the tracked lines are the last ones read, none     *)
(* missing and none twice, and in_flight_bytes is the sum of their bytes,  *)
(* however acks (more of them than lines included), pauses, an abort in    *)
(* the middle of a read and a new job interleave.                          *)
WindowInv ==
  /\ WindowBound
  /\ Len(lens) <= next_line /\ next_line <= total
  /\ \A k \in 1..Len(lens) : lens[k] = next_line - Len(lens) + k - 1
  /\ inflight = Offset[next_line] - Offset[next_line - Len(lens)]

(* A job reported complete or draining has emitted every line it is going  *)
(* to emit, and a complete one waits for no ack.                           *)
CompleteMeansDrained ==
  /\ st \in {"complete", "draining"} => next_line = total
  /\ st = "complete" => lens = <<>>

(* The job streamer "holds MPG, so canSendLine is true": every line of the *)
(* job is sent with the grant.                                             *)
LineHoldsGrant ==
  pc1 = "send" /\ act.kind = "line" => mpg_remote /\ CanSendLine

(* In a tick that found the session open a line leaves only while the last *)
(* report says that the MPG port owns the controller, and sendGcode does   *)
(* not drop it: the grant is looked at once per tick, and jobs end, begin  *)
(* and are stopped while the pump is on its way.                           *)
LineNeedsGrant == fresh => LineHoldsGrant

(* 0x8B is a toggle: once a job is over, the job has sent it an even       *)
(* number of times, so the port is in the mode it was found in.            *)
TogglesPaired ==
  st \in {"idle", "loaded"} /\ pc0 = "rest" => ~owed

(* After the operator's soft reset the streamer takes no further line of   *)
(* the file: at most the one it was about to send is still under way.      *)
NoReadAfterReset ==
  [][(pc1' = "read" /\ pc1 # "read") => ~halted]_vars

(* A job that ends as complete has emitted every line of the file.         *)
CompleteMeansWholeFile ==
  st = "complete" => next_line = NumLines

(* A started job that nobody pauses ends, even when the controller never   *)
(* answers: a refused claim and a silent controller time out.              *)
JobEnds == Active(st) ~> ~Active(st)

(* A claimed port is given back.                                           *)
ClaimIsReleased == owed ~> ~owed
=============================================================================
