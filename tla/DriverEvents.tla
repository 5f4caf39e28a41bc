---------------------------- MODULE DriverEvents ----------------------------
(***************************************************************************)
(* What one sampled event drives in the CNC driver: the probing cycles of  *)
(* probe_engine.zig and the queue of settings lines of driver_session.zig. *)
(* Once per chunk of received bytes, not once per line, Driver.feedAt      *)
(* hands both of them the engine's last event.                             *)
(*                                                                         *)
(* A touch (G38.2) is numbered when it is sent, and the position that a    *)
(* [PRB:] report brings is the number of the touch it is of.  Feeds,       *)
(* distances, the texts of the lines and the spindle clamp are left out,   *)
(* and so is a passive-mode gate that drops a line: it is as if the radio  *)
(* had lost it.                                                            *)
(***************************************************************************)
EXTENDS Integers, Sequences

CONSTANTS
  Cycles,       (* the probing cycles the operator starts                  *)
  SyncCount,    (* sync_line_count: four in the code                       *)
  Patience,     (* the 60 s of armWait, in units of the clock              *)
  ClockMod,     (* tick_ms wraps here: 2^32 in the code                    *)
  Stride,       (* the most the clock moves on between two polls: sys_task *)
                (* sleeps 10 ms and more, and tick_ms counts milliseconds  *)
  MaxStarts,    (* bound on the cycles and synchronizations started        *)
  MaxReports,   (* bound on the reports under way                          *)
  Troubles      (* what may be out of the ordinary: "none"; "split", a     *)
                (* chunk may end no line; "lost", frames are lost; "mdi",  *)
                (* the operator sends a line and synchronizes during a     *)
                (* cycle; "restart", a cycle is cancelled, or started      *)
                (* while answers are under way                             *)

(* The wait that each step of a cycle arms.  edge_x_neg, edge_y_neg and    *)
(* tool_setter have the steps of z_plate.                                  *)
Shape == [
  z_plate    |-> <<"ok", "probe", "ok", "ok", "end">>,
  edge_180_x |-> <<"ok", "probe", "ok", "probe", "ok", "ok", "end">>,
  center     |-> <<"ok", "probe", "ok", "probe", "ok", "probe", "ok", "probe",
                   "ok", "ok", "end">>]

ASSUME EventsAssumption ==
  /\ Cycles \subseteq DOMAIN Shape
  /\ {SyncCount, Patience, Stride, MaxStarts, MaxReports} \subseteq Nat \ {0}
  /\ ClockMod \in Nat /\ Patience < ClockMod
  /\ Troubles \subseteq {"none", "split", "lost", "mdi", "restart"}

VARIABLES
  phase, cycle, step, wait,     (* probe_engine.Engine                     *)
  got_ok, deadline,
  fresh, touched, pos,          (* parser.status: probe_fresh, probe_ok,   *)
                                (* probe_mpos                              *)
  mach,                         (* ... and state                           *)
  last,                         (* Engine.last_event                       *)
  shown,                        (* snapshot.state                          *)
  pending, next,                (* sync_pending, sync_line_next            *)
  clock,                        (* tick_ms                                 *)
  pc, todo,                     (* sys_task and the UI: where they are,    *)
                                (* and the wait they are about to arm      *)
  tx, rx, real,                 (* the link and the controller             *)
  touches,                      (* touches sent so far                     *)
  starts, trouble

probe == <<phase, cycle, step, wait, got_ok, deadline>>
parsed == <<fresh, touched, pos, mach, last>>
syncing == <<pending, next>>
tasks == <<pc, todo>>
link == <<tx, rx, real, touches>>
bounds == <<starts, trouble>>
vars == <<probe, parsed, shown, syncing, clock, tasks, link, bounds>>

Task == {"sys", "ui"}
Running == phase = "running"
Quiet == tx = <<>> /\ rx = <<>> /\ ~pending /\ \A t \in Task : pc[t] = "rest"

Init ==
  /\ phase = "idle" /\ cycle = "z_plate" /\ step = 1 /\ wait = "none"
  /\ got_ok = FALSE /\ deadline = 0
  /\ fresh = FALSE /\ touched = FALSE /\ pos = 0 /\ mach = "idle" /\ last = "none"
  /\ shown = "idle" /\ pending = FALSE /\ next = 0
  /\ clock \in 0..ClockMod - 1
  /\ pc = [t \in Task |-> "rest"] /\ todo = [t \in Task |-> "none"]
  /\ tx = <<>> /\ rx = <<>> /\ real = "idle" /\ touches = 0
  /\ starts = 0 /\ trouble \in Troubles

At(t, label) == pc[t] = label
Goto(t, label) == pc' = [pc EXCEPT ![t] = label]

-----------------------------------------------------------------------------
(* advance: the line of the step, then its wait                            *)
SendStep(t) ==
  /\ At(t, "send") /\ Goto(t, "arm")
  /\ todo' = [todo EXCEPT ![t] = Shape[cycle][step]]
  /\ touches' = IF todo'[t] = "probe" THEN touches + 1 ELSE touches
  /\ tx' = Append(tx, IF todo'[t] = "probe" THEN touches' ELSE 0)
  /\ UNCHANGED <<probe, parsed, shown, syncing, clock, rx, real, bounds>>

Then(t) == IF t = "sys" THEN "sync" ELSE "rest"
ArmStep(t) ==
  /\ At(t, "arm") /\ Goto(t, Then(t)) /\ todo' = [todo EXCEPT ![t] = "none"]
  /\ IF todo[t] = "end" THEN phase' = "done" /\ wait' = "none" /\ UNCHANGED <<got_ok, deadline>>
     ELSE /\ wait' = todo[t] /\ got_ok' = FALSE /\ UNCHANGED phase
          /\ deadline' = (clock + Patience) % ClockMod
  /\ UNCHANGED <<cycle, step, parsed, shown, syncing, clock, link, bounds>>

(* cmdProbeStart and cmdProbeCancel.  A restart finds at most one line     *)
(* unanswered, which bounds the model.                                     *)
Start(c) ==
  /\ At("ui", "rest") /\ shown = "idle" /\ ~Running
  /\ Quiet \/ (trouble = "restart" /\ Len(tx) + Len(rx) <= 1)
  /\ starts < MaxStarts /\ starts' = starts + 1
  /\ phase' = "running" /\ cycle' = c /\ step' = 1 /\ wait' = "none"
  /\ got_ok' = FALSE /\ deadline' = 0
  /\ Goto("ui", "send")
  /\ UNCHANGED <<parsed, shown, syncing, clock, todo, link, trouble>>

Cancel ==
  /\ trouble = "restart" /\ At("ui", "rest") /\ starts < MaxStarts
  /\ phase' = "idle" /\ wait' = "none" /\ got_ok' = FALSE
  /\ UNCHANGED <<cycle, step, deadline, parsed, shown, syncing, clock, tasks, link,
                 bounds>>

(* cmdSyncEnvelopeToController                                             *)
SyncStart ==
  /\ At("ui", "rest")
  /\ trouble = "mdi" \/ (trouble = "none" /\ Quiet /\ ~Running)
  /\ starts < MaxStarts /\ starts' = starts + 1
  /\ pending' = TRUE /\ next' = 1 /\ Goto("ui", "first")
  /\ UNCHANGED <<probe, parsed, shown, clock, todo, link, trouble>>

SyncFirst ==
  /\ At("ui", "first") /\ Goto("ui", "rest") /\ tx' = Append(tx, 0)
  /\ UNCHANGED <<probe, parsed, shown, syncing, clock, todo, rx, real, touches, bounds>>

Mdi ==
  /\ trouble = "mdi" /\ starts < MaxStarts /\ starts' = starts + 1
  /\ tx' = Append(tx, 0)
  /\ UNCHANGED <<probe, parsed, shown, syncing, clock, tasks, rx, real, touches, trouble>>

-----------------------------------------------------------------------------
(* Engine.feed with a chunk that ends n lines                              *)
Seen(ev, n) == {i \in 1..n : rx[i].ev \in ev}
Latest(I) == CHOOSE i \in I : \A k \in I : k <= i

Feed(n) ==
  /\ At("sys", "rest") /\ n \in 0..Len(rx) /\ rx # <<>> /\ (n = 0 => trouble = "split")
  /\ LET states == Seen({"report", "alarm"}, n)
         prbs == Seen({"prb"}, n)
     IN  /\ mach' = IF states = {} THEN mach ELSE rx[Latest(states)].mach
         /\ pos' = IF prbs = {} THEN pos ELSE rx[Latest(prbs)].id
         /\ touched' = IF prbs = {} THEN touched ELSE rx[Latest(prbs)].hit
         /\ fresh' = (fresh \/ prbs # {})
  /\ last' = IF n = 0 THEN last ELSE rx[n].ev
  /\ rx' = SubSeq(rx, n + 1, Len(rx))
  /\ Goto("sys", IF Running THEN "event" ELSE "sync")
  /\ UNCHANGED <<probe, shown, syncing, clock, todo, tx, real, touches, bounds>>

(* onEvent, with the last event.  It works at a copy of the status: what   *)
(* it clears of probe_fresh there is not cleared in the parser.            *)
eventFrame == <<cycle, deadline, parsed, shown, syncing, clock, todo, link, bounds>>
Hears == At("sys", "event") /\ Running

Step ==
  /\ wait' = "none" /\ got_ok' = FALSE /\ step' = step + 1 /\ Goto("sys", "send")
  /\ UNCHANGED phase
Fail == phase' = "failed" /\ wait' = "none"
Stay == Goto("sys", "sync") /\ UNCHANGED <<phase, step, wait>>

EventOk ==
  /\ Hears /\ last = "ok" /\ wait = "ok"
  /\ Step /\ UNCHANGED eventFrame

Answers == wait = "probe" /\ last \in {"ok", "prb", "report"}
Got == got_ok \/ last = "ok"

(* Mutant: a position ends the wait for a touch without its ok.            *)
MutEventTouched ==
  /\ Hears /\ Answers /\ fresh /\ touched
  /\ Step /\ UNCHANGED eventFrame
EventTouched ==
  /\ Hears /\ Answers /\ Got /\ fresh /\ touched
  /\ Step /\ UNCHANGED eventFrame

EventMissed ==
  /\ Hears /\ Answers /\ Got /\ fresh /\ ~touched
  /\ Fail /\ got_ok' = Got /\ Goto("sys", "sync") /\ UNCHANGED <<step, eventFrame>>

EventWaits ==
  /\ Hears /\ Answers /\ ~(Got /\ fresh)
  /\ Stay /\ got_ok' = Got /\ UNCHANGED eventFrame

EventFails ==
  /\ Hears /\ last \in {"err", "alarm"}
  /\ Fail /\ Goto("sys", "sync") /\ UNCHANGED <<step, got_ok, eventFrame>>

EventOther ==
  /\ At("sys", "event")
  /\ ~Running \/ last = "none"
     \/ (last \in {"ok", "prb", "report"} /\ wait = "none")
     \/ (last \in {"prb", "report"} /\ wait = "ok")
  /\ Stay /\ UNCHANGED <<got_ok, eventFrame>>

Event == EventOk \/ EventTouched \/ EventMissed \/ EventWaits \/ EventFails \/ EventOther

(* Mutant: any line of the controller advances the queue.                  *)
MutSyncDue == pending
(* onRxProcessed and advanceSyncQueue                                      *)
SyncDue == pending /\ last = "ok"
Sync ==
  /\ At("sys", "sync") /\ Goto("sys", "poll")
  /\ IF SyncDue
     THEN /\ next' = IF next < SyncCount THEN next + 1 ELSE next
          /\ pending' = (next' < SyncCount)
          /\ tx' = IF next < SyncCount THEN Append(tx, 0) ELSE tx
     ELSE UNCHANGED <<syncing, tx>>
  /\ UNCHANGED <<probe, parsed, shown, clock, todo, rx, real, touches, bounds>>

-----------------------------------------------------------------------------
(* Mutant: only a touch has a time limit.                                  *)
MutLate == deadline # 0 /\ clock' >= deadline /\ wait = "probe"
(* Driver.poll: probe.poll, then the snapshot                              *)
Late == deadline # 0 /\ clock' >= deadline
Poll ==
  /\ pc["sys"] \in {"rest", "poll"} /\ Goto("sys", "rest")
  /\ IF Running THEN \E d \in 1..Stride : clock' = (clock + d) % ClockMod
     ELSE UNCHANGED clock
  /\ IF Running /\ (Late \/ shown = "alarm") THEN Fail ELSE UNCHANGED <<phase, wait>>
  /\ shown' = mach
  /\ UNCHANGED <<cycle, step, got_ok, deadline, parsed, syncing, todo, link, bounds>>

-----------------------------------------------------------------------------
(* The controller, and the link.  An item of tx is the number of a touch,  *)
(* or 0 for any other line.                                                *)
Says(ev) == [ev |-> ev, mach |-> real', id |-> 0, hit |-> FALSE]
Prb(hit) == [ev |-> "prb", mach |-> real', id |-> Head(tx), hit |-> hit]
ctlFrame == <<probe, parsed, shown, syncing, clock, tasks, touches, bounds>>

CtlLine ==
  /\ tx # <<>> /\ Head(tx) = 0 /\ real # "run"
  /\ tx' = Tail(tx) /\ UNCHANGED real
  /\ rx' = Append(rx, Says(IF real = "alarm" THEN "err" ELSE "ok"))
  /\ UNCHANGED ctlFrame

CtlTouch ==
  /\ tx # <<>> /\ Head(tx) # 0 /\ real # "run"
  /\ IF real = "alarm"
     THEN tx' = Tail(tx) /\ UNCHANGED real /\ rx' = Append(rx, Says("err"))
     ELSE real' = "run" /\ UNCHANGED <<tx, rx>>
  /\ UNCHANGED ctlFrame

CtlContact ==
  /\ real = "run" /\ real' = "idle" /\ tx' = Tail(tx)
  /\ rx' = rx \o <<Prb(TRUE), Says("ok")>>
  /\ UNCHANGED ctlFrame

CtlMiss ==
  /\ real = "run" /\ real' = "alarm" /\ tx' = Tail(tx)
  /\ \/ rx' = rx \o <<Prb(FALSE), Says("alarm")>>
     \/ rx' = rx \o <<Says("alarm"), Prb(FALSE), Says("ok")>>
  /\ UNCHANGED ctlFrame

CtlReport ==
  /\ Len(rx) < MaxReports /\ UNCHANGED <<tx, real>>
  /\ rx' = Append(rx, Says("report"))
  /\ UNCHANGED ctlFrame

(* The operator unlocks the machine.                                       *)
CtlUnlock ==
  /\ real = "alarm" /\ tx = <<>> /\ real' = "idle"
  /\ UNCHANGED <<tx, rx, ctlFrame>>

Lose ==
  /\ trouble = "lost"
  /\ \/ tx # <<>> /\ real # "run" /\ tx' = Tail(tx) /\ UNCHANGED rx
     \/ rx # <<>> /\ rx' = Tail(rx) /\ UNCHANGED tx
  /\ UNCHANGED <<real, ctlFrame>>

Controller ==
  CtlLine \/ CtlTouch \/ CtlContact \/ CtlMiss \/ CtlReport \/ CtlUnlock \/ Lose

Sys == (\E n \in 0..Len(rx) : Feed(n)) \/ Event \/ SendStep("sys") \/ ArmStep("sys") \/ Sync \/ Poll
Handler == SendStep("ui") \/ ArmStep("ui") \/ SyncFirst
Next ==
  \/ Sys \/ Handler \/ Cancel \/ SyncStart \/ Mdi \/ Controller
  \/ \E c \in Cycles : Start(c)

Spec == Init /\ [][Next]_vars
(* sys_task runs, and a handler that was entered ends; nothing is asked of *)
(* the controller.                                                         *)
FairSpec == Spec /\ WF_vars(Sys) /\ WF_vars(Handler)

-----------------------------------------------------------------------------
TypeOK ==
  /\ phase \in {"idle", "running", "done", "failed"} /\ cycle \in DOMAIN Shape
  /\ step \in 1..Len(Shape[cycle]) /\ wait \in {"none", "ok", "probe"}
  /\ {got_ok, fresh, touched, pending} \subseteq BOOLEAN
  /\ {deadline, clock} \subseteq 0..ClockMod - 1
  /\ {mach, shown, real} \subseteq {"idle", "run", "alarm"} /\ next \in 0..SyncCount
  /\ last \in {"none", "ok", "err", "alarm", "prb", "report"}
  /\ pc \in [Task -> {"rest", "event", "send", "arm", "sync", "poll", "first"}]
  /\ todo \in [Task -> {"none", "ok", "probe", "end"}]
  /\ pos \in 0..touches /\ tx \in Seq(0..touches)

(* A step that ends the wait for a touch takes the position, captureProbe. *)
Captures == wait = "probe" /\ step' = step + 1

(* The position taken for a touch is the one read back from it, not the    *)
(* one of an earlier touch or cycle, however feeds fall on the lines, as   *)
(* long as every feed ends one, nothing is lost and no other line is       *)
(* answered meanwhile.                                                     *)
ReadbackIsOwn == [][Captures /\ trouble = "none" => pos = touches]_vars
(* The same wherever the chunks of the link end.                           *)
ReadbackSplit == [][Captures /\ trouble \in {"none", "split"} => pos = touches]_vars

(* Under the same conditions every line waits for the ok of the one before *)
(* it, be it of a cycle or of the settings queue.                          *)
SentInTurn ==
  [][trouble = "none" /\ Len(tx') > Len(tx) =>
       tx = <<>> /\ \A i \in DOMAIN rx : rx[i].ev # "ok"]_vars

(* A deadline that poll may never see passed: 0, which it takes for none,  *)
(* and one so near the wrap that the clock can step over all the values    *)
(* from it to the wrap between two polls.                                  *)
Missable == deadline = 0 \/ deadline + Stride > ClockMod
(* Whatever is lost, cancelled, split or silent: a cycle that was started  *)
(* ends, unless it arms a deadline of those two kinds.                     *)
CycleEnds == Running ~> ~Running \/ (wait # "none" /\ Missable)
(* The same wherever the deadline falls, as it would be if poll looked at  *)
(* the interval.                                                           *)
CycleEndsAcrossWrap == Running ~> ~Running
=============================================================================
