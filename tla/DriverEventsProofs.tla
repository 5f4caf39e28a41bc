-------------------------- MODULE DriverEventsProofs --------------------------
(***************************************************************************)
(* The driver's probing cycles and settings queue keep their variables to  *)
(* their values, and no cycle steps beyond its last line, for any cycles,  *)
(* any length of the queue, any patience and any troubles of the link: the *)
(* line that a cycle arms is always one of its own. Without trouble each   *)
(* line waits for the ok of the one before it, and each touch takes its    *)
(* own position.                                                           *)
(***************************************************************************)
EXTENDS DriverEvents, WellFoundedInduction, TLAPS

LEMMA Bounds ==
  /\ Cycles \subseteq DOMAIN Shape /\ SyncCount \in Nat \ {0} /\ Patience \in Nat \ {0}
  /\ ClockMod \in Nat \ {0} /\ Stride \in Nat \ {0}
  /\ MaxStarts \in Nat \ {0} /\ MaxReports \in Nat \ {0}
BY EventsAssumption

Ends == [c \in DOMAIN Shape |-> Len(Shape[c])]

(* A cycle waits at every step but the last, and ends there.               *)
LEMMA Shapes ==
  /\ DOMAIN Shape = {"z_plate", "edge_180_x", "center"} /\ Cycles \subseteq DOMAIN Shape
  /\ \A c \in DOMAIN Shape : Ends[c] \in Nat \ {0, 1} /\ Len(Shape[c]) = Ends[c]
  /\ \A c \in DOMAIN Shape : \A i \in 1..Ends[c] :
       /\ Shape[c][i] \in {"ok", "probe", "end"}
       /\ i = Ends[c] <=> Shape[c][i] = "end"
<1>1. DOMAIN Shape = {"z_plate", "edge_180_x", "center"}
  BY DEF Shape
<1>2. /\ Shape["z_plate"] = <<"ok", "probe", "ok", "ok", "end">>
      /\ Shape["edge_180_x"] = <<"ok", "probe", "ok", "probe", "ok", "ok", "end">>
      /\ Shape["center"] = <<"ok", "probe", "ok", "probe", "ok", "probe", "ok", "probe",
                             "ok", "ok", "end">>
  BY DEF Shape
<1>3. Ends["z_plate"] = 5 /\ Ends["edge_180_x"] = 7 /\ Ends["center"] = 11
  BY <1>1, <1>2 DEF Ends
<1>4. ASSUME NEW c \in DOMAIN Shape PROVE Ends[c] \in Nat \ {0, 1}
  BY <1>1, <1>3
<1>5. ASSUME NEW c \in DOMAIN Shape, NEW i \in 1..Ends[c]
      PROVE  Shape[c][i] \in {"ok", "probe", "end"} /\ (i = Ends[c] <=> Shape[c][i] = "end")
  <2>1. CASE c = "z_plate"
    <3>1. i \in {1, 2, 3, 4, 5}
      BY <1>3, <2>1
    <3> QED BY <1>2, <1>3, <2>1, <3>1
  <2>2. CASE c = "edge_180_x"
    <3>1. i \in {1, 2, 3, 4, 5, 6, 7}
      BY <1>3, <2>2
    <3> QED BY <1>2, <1>3, <2>2, <3>1
  <2>3. CASE c = "center"
    <3>1. i \in {1, 2, 3, 4, 5, 6, 7, 8, 9, 10, 11}
      BY <1>3, <2>3
    <3> QED BY <1>2, <1>3, <2>3, <3>1
  <2> QED BY <1>1, <1>5, <2>1, <2>2, <2>3
<1>6. \A c \in DOMAIN Shape : Len(Shape[c]) = Ends[c]
  BY DEF Ends
<1> QED BY <1>1, <1>4, <1>5, <1>6, Bounds

LEMMA Greatest ==
  ASSUME NEW n \in Nat, NEW I \in SUBSET (1..n), I # {}
  PROVE  Latest(I) \in I
<1> DEFINE R == OpToRel(<, Nat)
           T == {n - k : k \in I}
<1>1. IsWellFoundedOn(R, Nat)
  BY NatLessThanWellFounded
<1>2. T \subseteq Nat /\ T # {}
  <2>1. \A k \in I : n - k \in Nat
    OBVIOUS
  <2> QED BY <2>1
<1>3. \A x, y \in Nat : <<y, x>> \in R <=> y < x
  BY DEF OpToRel
<1> HIDE DEF R
<1>4. PICK x \in T : \A y \in T : ~(<<y, x>> \in R)
  <2> HIDE DEF T
  <2> QED BY <1>1, <1>2, WFMin
<1>5. PICK i \in I : x = n - i
  OBVIOUS
<1>6. ASSUME NEW k \in I PROVE k <= i
  <2>1. n - k \in T /\ n - k \in Nat /\ x \in Nat
    BY <1>2
  <2>2. ~(n - k < x)
    BY <1>2, <1>3, <1>4, <2>1
  <2> QED BY <1>5, <2>1, <2>2
<1>7. \E m \in I : \A k \in I : k <= m
  BY <1>6
<1> QED BY <1>7 DEF Latest

LEMMA Wrapped == ASSUME NEW n \in Nat PROVE n % ClockMod \in 0..ClockMod - 1
BY Bounds

LEMMA Appended ==
  ASSUME NEW S, NEW s \in Seq(S), NEW x \in S
  PROVE  Append(s, x) \in Seq(S) /\ Append(s, x) # <<>>
<1>1. Append(s, x) \in Seq(S)
  OBVIOUS
<1>2. Len(Append(s, x)) = Len(s) + 1 /\ Len(s) \in Nat
  OBVIOUS
<1> QED BY <1>1, <1>2

LEMMA Joined ==
  ASSUME NEW S, NEW s \in Seq(S), NEW x \in S, NEW y \in S
  PROVE  s \o <<x, y>> \in Seq(S)
OBVIOUS

LEMMA JoinedThree ==
  ASSUME NEW S, NEW s \in Seq(S), NEW x \in S, NEW y \in S, NEW z \in S
  PROVE  s \o <<x, y, z>> \in Seq(S)
OBVIOUS

LEMMA Taken ==
  ASSUME NEW S, NEW s \in Seq(S), s # <<>>
  PROVE  Head(s) \in S /\ Tail(s) \in Seq(S) /\ Len(Tail(s)) = Len(s) - 1
OBVIOUS

LEMMA Part ==
  ASSUME NEW S, NEW s \in Seq(S), NEW n \in 0..Len(s)
  PROVE  SubSeq(s, n + 1, Len(s)) \in Seq(S) /\ \A i \in 1..n : s[i] \in S
OBVIOUS

LEMMA Wider ==
  ASSUME NEW S, NEW T, S \subseteq T, NEW s \in Seq(S)
  PROVE  s \in Seq(T)
<1>1. Len(s) \in Nat /\ \A i \in 1..Len(s) : s[i] \in T
  OBVIOUS
<1>2. [i \in 1..Len(s) |-> s[i]] \in Seq(T) /\ s = [i \in 1..Len(s) |-> s[i]]
  BY <1>1
<1> QED BY <1>2

-----------------------------------------------------------------------------
Machine == {"idle", "run", "alarm"}
Heard(n) == [ev : {"ok", "err", "alarm", "prb", "report"}, mach : Machine, id : 0..n,
             hit : BOOLEAN]

(* TypeOK by the parts of the driver, and what it does not say: what the   *)
(* controller sends; that it is at a touch only while the line of one is   *)
(* unanswered; and that a cycle at its last step has just sent its line,   *)
(* or is about to, so no event can make it step again.                     *)
Engine ==
  /\ phase \in {"idle", "running", "done", "failed"} /\ wait \in {"none", "ok", "probe"}
  /\ got_ok \in BOOLEAN
Steps == cycle \in DOMAIN Shape /\ step \in 1..Ends[cycle]
Clocks == deadline \in 0..ClockMod - 1 /\ clock \in 0..ClockMod - 1
Flags == fresh \in BOOLEAN /\ touched \in BOOLEAN /\ pending \in BOOLEAN
Status ==
  /\ mach \in Machine /\ shown \in Machine /\ real \in Machine
  /\ last \in {"none", "ok", "err", "alarm", "prb", "report"}
Tasks ==
  /\ pc \in [Task -> {"rest", "event", "send", "arm", "sync", "poll", "first"}]
  /\ todo \in [Task -> {"none", "ok", "probe", "end"}]
Numbers == touches \in Nat /\ pos \in 0..touches /\ next \in 0..SyncCount
Lines == tx \in Seq(0..touches) /\ rx \in Seq(Heard(touches))
MidTouch == real = "run" => tx # <<>>
LastStep ==
  Running /\ step = Ends[cycle] =>
    At("sys", "send") \/ (At("sys", "arm") /\ todo["sys"] = "end")

Base == Engine /\ Clocks /\ Flags /\ Status
TypeInv == Base /\ Steps /\ Tasks /\ Numbers /\ Lines /\ MidTouch /\ LastStep

LEMMA TypeInvTyped == TypeInv => TypeOK
<1> SUFFICES ASSUME TypeInv PROVE TypeOK
  OBVIOUS
<1>1. step \in 1..Len(Shape[cycle])
  BY Shapes DEF TypeInv, Steps
<1>2. {got_ok, fresh, touched, pending} \subseteq BOOLEAN
  BY Zenon DEF TypeInv, Base, Engine, Flags
<1>3. {deadline, clock} \subseteq 0..ClockMod - 1
  BY DEF TypeInv, Base, Clocks
<1>4. {mach, shown, real} \subseteq {"idle", "run", "alarm"}
  BY DEF TypeInv, Base, Status, Machine
<1> QED BY <1>1, <1>2, <1>3, <1>4
        DEF TypeInv, Base, Engine, Status, Steps, Tasks, Numbers, Lines, TypeOK

LEMMA TypeInit == Init => TypeInv
<1> SUFFICES ASSUME Init PROVE TypeInv
  OBVIOUS
<1>1. Engine /\ Flags
  BY DEF Init, Engine, Flags
<1>2. Clocks /\ Numbers
  BY Bounds DEF Init, Clocks, Numbers
<1>3. Status /\ Tasks
  BY DEF Init, Status, Tasks, Machine
<1>4. Steps
  BY Shapes DEF Init, Steps
<1>5. Lines /\ MidTouch /\ LastStep
  BY DEF Init, Lines, MidTouch, LastStep, Running
<1> QED BY <1>1, <1>2, <1>3, <1>4, <1>5 DEF TypeInv, Base

LEMMA Labels == "sys" \in Task /\ "ui" \in Task /\ Task = {"sys", "ui"}
BY DEF Task

(* The lines of the operator and the settings queue.                       *)
LEMMA LineSent ==
  ASSUME TypeInv, touches' = touches, rx' = rx, real' = real, tx' \in {tx, Append(tx, 0)}
  PROVE  Lines' /\ MidTouch'
<1>1. 0 \in 0..touches
  BY DEF TypeInv, Numbers
<1>2. tx' \in Seq(0..touches) /\ (tx # <<>> => tx' # <<>>)
  BY <1>1, Appended DEF TypeInv, Lines
<1> QED BY <1>2 DEF TypeInv, Lines, MidTouch

-----------------------------------------------------------------------------
(* One lemma for each part of the driver.                                  *)
LEMMA SendTyped == ASSUME TypeInv, NEW t \in Task, SendStep(t) PROVE TypeInv'
<1>1. Base'
  BY DEF TypeInv, SendStep, Base, Engine, Clocks, Flags, Status, probe, parsed, syncing, bounds
<1>2. Steps'
  BY DEF TypeInv, SendStep, Steps, probe
<1>3. Shape[cycle][step] \in {"ok", "probe", "end"} /\ (step = Ends[cycle] <=> Shape[cycle][step] = "end")
  BY Shapes DEF TypeInv, Steps
<1>4. Tasks'
  BY <1>3 DEF TypeInv, SendStep, Goto, Tasks
<1>5. touches' \in {touches, touches + 1} /\ touches \in Nat
  BY DEF TypeInv, SendStep, Numbers
<1>6. Numbers'
  BY <1>5 DEF TypeInv, SendStep, Numbers, parsed, syncing
<1>7. 0..touches \subseteq 0..touches' /\ Heard(touches) \subseteq Heard(touches')
  BY <1>5 DEF Heard
<1>8. tx \in Seq(0..touches') /\ rx \in Seq(Heard(touches'))
  BY <1>7, Wider DEF TypeInv, Lines
<1>9. tx' \in Seq(0..touches') /\ tx' # <<>>
  <2>1. 0 \in 0..touches' /\ touches' \in 0..touches'
    BY <1>5
  <2> QED BY <1>8, <2>1, Appended DEF SendStep
<1>10. Lines' /\ MidTouch'
  BY <1>8, <1>9 DEF SendStep, Lines, MidTouch
<1>11. LastStep'
  BY <1>3, Labels DEF TypeInv, SendStep, LastStep, Running, At, Goto, probe, Tasks
<1> QED BY <1>1, <1>2, <1>4, <1>6, <1>10, <1>11 DEF TypeInv

LEMMA ArmTyped == ASSUME TypeInv, NEW t \in Task, ArmStep(t) PROVE TypeInv'
<1>1. Steps' /\ Numbers' /\ Lines' /\ MidTouch'
  BY DEF TypeInv, ArmStep, Steps, Numbers, Lines, MidTouch, parsed, syncing, link
<1>2. Tasks'
  BY DEF TypeInv, ArmStep, Goto, Then, Tasks
<1>3. Flags' /\ Status'
  BY DEF TypeInv, Base, ArmStep, Flags, Status, parsed, syncing, link
<1>4. (clock + Patience) % ClockMod \in 0..ClockMod - 1
  <2>1. clock + Patience \in Nat
    BY Bounds DEF TypeInv, Base, Clocks
  <2> QED BY <2>1, Wrapped
<1>5. Clocks'
  BY <1>4 DEF TypeInv, Base, ArmStep, Clocks
<1>6. Engine'
  <2>1. todo[t] \in {"none", "ok", "probe", "end"}
    BY DEF TypeInv, Tasks
  <2>2. CASE todo[t] = "end"
    BY <2>2 DEF TypeInv, Base, ArmStep, Engine
  <2>3. CASE todo[t] # "end"
    BY <2>1, <2>3 DEF TypeInv, Base, ArmStep, Engine
  <2> QED BY <2>2, <2>3
<1>7. LastStep'
  <2>1. CASE todo[t] = "end"
    BY <2>1 DEF ArmStep, LastStep, Running
  <2>2. CASE todo[t] # "end"
    BY <2>2, Labels DEF TypeInv, ArmStep, LastStep, Running, At, Goto, Tasks
  <2> QED BY <2>1, <2>2
<1> QED BY <1>1, <1>2, <1>3, <1>5, <1>6, <1>7 DEF TypeInv, Base

LEMMA StartTyped == ASSUME TypeInv, NEW c \in Cycles, Start(c) PROVE TypeInv'
<1>1. Numbers' /\ Lines' /\ MidTouch'
  BY DEF TypeInv, Start, Numbers, Lines, MidTouch, parsed, syncing, link
<1>2. Tasks'
  BY DEF TypeInv, Start, Goto, Tasks
<1>3. Flags' /\ Status' /\ Engine'
  BY DEF TypeInv, Base, Start, Flags, Status, Engine, parsed, syncing, link
<1>4. Clocks'
  BY Bounds DEF TypeInv, Base, Start, Clocks
<1>5. Steps' /\ LastStep'
  <2>1. c \in DOMAIN Shape /\ Ends[c] \in Nat \ {0, 1}
    BY Shapes
  <2> QED BY <2>1 DEF Start, Steps, LastStep
<1> QED BY <1>1, <1>2, <1>3, <1>4, <1>5 DEF TypeInv, Base

LEMMA UiTyped ==
  ASSUME TypeInv, Cancel \/ SyncStart \/ SyncFirst \/ Mdi
  PROVE  TypeInv'
<1> USE Labels
<1>1. CASE Cancel
  <2>1. Engine' /\ Clocks' /\ Flags' /\ Status'
    BY <1>1 DEF TypeInv, Base, Cancel, Engine, Clocks, Flags, Status, parsed, syncing, link
  <2>2. Steps' /\ Tasks' /\ Numbers' /\ Lines' /\ MidTouch'
    BY <1>1 DEF TypeInv, Cancel, Steps, Tasks, Numbers, Lines, MidTouch, parsed, syncing,
       tasks, link
  <2>3. LastStep'
    BY <1>1 DEF Cancel, LastStep, Running
  <2> QED BY <2>1, <2>2, <2>3 DEF TypeInv, Base
<1>2. CASE SyncStart
  <2>1. Engine' /\ Clocks' /\ Flags' /\ Status'
    BY <1>2 DEF TypeInv, Base, SyncStart, Engine, Clocks, Flags, Status, probe, parsed, link
  <2>2. Steps' /\ Tasks' /\ Lines' /\ MidTouch'
    BY <1>2 DEF TypeInv, SyncStart, Steps, Tasks, Lines, MidTouch, Goto, probe, link
  <2>3. Numbers'
    BY <1>2, Bounds DEF TypeInv, SyncStart, Numbers, parsed, link
  <2>4. LastStep'
    BY <1>2 DEF TypeInv, SyncStart, LastStep, Running, At, Goto, Tasks, probe
  <2> QED BY <2>1, <2>2, <2>3, <2>4 DEF TypeInv, Base
<1>3. CASE SyncFirst
  <2>1. Engine' /\ Clocks' /\ Flags' /\ Status'
    BY <1>3 DEF TypeInv, Base, SyncFirst, Engine, Clocks, Flags, Status, probe, parsed, syncing
  <2>2. Steps' /\ Tasks' /\ Numbers'
    BY <1>3 DEF TypeInv, SyncFirst, Steps, Tasks, Numbers, Goto, probe, parsed, syncing
  <2>3. Lines' /\ MidTouch'
    BY <1>3, LineSent DEF SyncFirst
  <2>4. LastStep'
    BY <1>3 DEF TypeInv, SyncFirst, LastStep, Running, At, Goto, Tasks, probe
  <2> QED BY <2>1, <2>2, <2>3, <2>4 DEF TypeInv, Base
<1>4. CASE Mdi
  <2>1. Engine' /\ Clocks' /\ Flags' /\ Status'
    BY <1>4 DEF TypeInv, Base, Mdi, Engine, Clocks, Flags, Status, probe, parsed, syncing
  <2>2. Steps' /\ Tasks' /\ Numbers' /\ LastStep'
    BY <1>4 DEF TypeInv, Mdi, Steps, Tasks, Numbers, LastStep, Running, At, probe, parsed,
       syncing, tasks
  <2>3. Lines' /\ MidTouch'
    BY <1>4, LineSent DEF Mdi
  <2> QED BY <2>1, <2>2, <2>3 DEF TypeInv, Base
<1> QED BY <1>1, <1>2, <1>3, <1>4

LEMMA FeedTyped == ASSUME TypeInv, NEW n \in 0..Len(rx), Feed(n) PROVE TypeInv'
<1> DEFINE H == Heard(touches)
<1>1. /\ rx \in Seq(H) /\ SubSeq(rx, n + 1, Len(rx)) \in Seq(H) /\ n \in Nat
      /\ \A i \in 1..n : rx[i] \in H
  <2>1. rx \in Seq(H) /\ Len(rx) \in Nat
    BY DEF TypeInv, Lines
  <2> HIDE DEF H
  <2> QED BY <2>1, Part
<1>2. \A ev : Seen(ev, n) \in SUBSET (1..n) /\ (Seen(ev, n) # {} => rx[Latest(Seen(ev, n))] \in H)
  <2> SUFFICES ASSUME NEW ev
      PROVE  Seen(ev, n) \in SUBSET (1..n) /\ (Seen(ev, n) # {} => rx[Latest(Seen(ev, n))] \in H)
    OBVIOUS
  <2>1. Seen(ev, n) \in SUBSET (1..n)
    BY DEF Seen
  <2>2. Seen(ev, n) # {} => Latest(Seen(ev, n)) \in 1..n
    BY <1>1, <2>1, Greatest
  <2> HIDE DEF H
  <2> QED BY <1>1, <2>1, <2>2
<1>3. Lines' /\ MidTouch'
  BY <1>1 DEF TypeInv, Feed, Lines, MidTouch
<1>4. Tasks'
  BY DEF TypeInv, Feed, Goto, Tasks
<1>5. Engine' /\ Clocks'
  BY DEF TypeInv, Base, Feed, Engine, Clocks, probe
<1>6. Steps' /\ LastStep'
  BY Labels DEF TypeInv, Feed, Steps, LastStep, Running, At, Goto, Tasks, probe
<1>7. mach' \in Machine
  BY <1>2 DEF TypeInv, Base, Status, Feed, Heard
<1>8. pos' \in 0..touches
  BY <1>2 DEF TypeInv, Numbers, Feed, Heard
<1>9. touched' \in BOOLEAN
  BY <1>2 DEF TypeInv, Base, Flags, Feed, Heard
<1>10. Flags'
  BY <1>9 DEF TypeInv, Base, Flags, Feed, syncing
<1>11. last' \in {"none", "ok", "err", "alarm", "prb", "report"}
  <2>1. n # 0 => rx[n] \in H
    BY <1>1
  <2> QED BY <2>1 DEF TypeInv, Base, Status, Feed, Heard
<1>12. Status'
  BY <1>7, <1>11 DEF TypeInv, Base, Status, Feed
<1>13. Numbers'
  BY <1>8 DEF TypeInv, Numbers, Feed, syncing
<1> QED BY <1>3, <1>4, <1>5, <1>6, <1>10, <1>12, <1>13 DEF TypeInv, Base

(* Only an event makes a cycle step, and sys_task is not at one when the   *)
(* cycle is at its last step.                                              *)
LEMMA EventTyped == ASSUME TypeInv, Event PROVE TypeInv'
<1> USE Labels
<1>1. Clocks' /\ Flags' /\ Status' /\ Numbers' /\ Lines' /\ MidTouch' /\ cycle' = cycle
  BY DEF TypeInv, Base, Event, EventOk, EventTouched, EventMissed, EventWaits, EventFails, EventOther,
     eventFrame, Clocks, Flags, Status, Numbers, Lines, MidTouch, parsed, syncing, link
<1>2. /\ At("sys", "event") /\ pc' \in {[pc EXCEPT !["sys"] = l] : l \in {"send", "sync"}}
      /\ todo' = todo
  BY DEF Event, EventOk, EventTouched, EventMissed, EventWaits, EventFails, EventOther, Hears,
     Step, Stay, Goto, eventFrame
<1>3. Tasks'
  BY <1>2 DEF TypeInv, Tasks
<1>4. ~(Running /\ step = Ends[cycle])
  BY <1>2 DEF TypeInv, LastStep, At
<1>5. Engine'
  <2>1. Got \in BOOLEAN
    BY DEF TypeInv, Base, Engine, Got
  <2>2. phase' \in {"idle", "running", "done", "failed"} /\ wait' \in {"none", "ok", "probe"}
    BY DEF TypeInv, Base, Engine, Event, EventOk, EventTouched, EventMissed, EventWaits,
       EventFails, EventOther, Step, Stay, Fail
  <2>3. got_ok' \in {FALSE, Got, got_ok}
    BY DEF Event, EventOk, EventTouched, EventMissed, EventWaits, EventFails, EventOther, Step
  <2>4. got_ok' \in BOOLEAN
    BY <2>1, <2>3 DEF TypeInv, Base, Engine
  <2> QED BY <2>2, <2>4 DEF Engine
<1>6. CASE EventOk \/ EventTouched
  <2>1. step' = step + 1 /\ pc' = [pc EXCEPT !["sys"] = "send"] /\ Running
    BY <1>6 DEF EventOk, EventTouched, Step, Goto, Hears
  <2>2. step + 1 \in 1..Ends[cycle]
    BY <1>4, <2>1, Shapes DEF TypeInv, Steps
  <2>3. Steps' /\ LastStep'
    BY <1>1, <2>1, <2>2 DEF TypeInv, Steps, LastStep, At, Tasks
  <2> QED BY <1>1, <1>3, <1>5, <2>3 DEF TypeInv, Base
<1>7. CASE ~(EventOk \/ EventTouched)
  <2>1. step' = step /\ (phase' = phase \/ phase' = "failed")
    BY <1>7 DEF Event, EventMissed, EventWaits, EventFails, EventOther, Stay, Fail
  <2>2. Steps' /\ LastStep'
    BY <1>1, <1>4, <2>1 DEF TypeInv, Steps, LastStep, Running
  <2> QED BY <1>1, <1>3, <1>5, <2>2 DEF TypeInv, Base
<1> QED BY <1>6, <1>7

LEMMA SyncTyped == ASSUME TypeInv, Sync PROVE TypeInv'
<1>1. Engine' /\ Clocks' /\ Status'
  BY DEF TypeInv, Base, Sync, Engine, Clocks, Status, probe, parsed
<1>2. pending' \in BOOLEAN
  <2>1. CASE SyncDue
    <3>1. pending' = (next' < SyncCount)
      BY <2>1 DEF Sync
    <3> DEFINE more == next' < SyncCount
    <3>2. more \in BOOLEAN
      OBVIOUS
    <3>3. pending' = more
      BY <3>1
    <3> HIDE DEF more
    <3> QED BY <3>2, <3>3
  <2>2. CASE ~SyncDue
    <3>1. pending' = pending
      BY <2>2 DEF Sync, syncing
    <3> QED BY <3>1 DEF TypeInv, Base, Flags
  <2> QED BY <2>1, <2>2
<1>3. Flags'
  BY <1>2 DEF TypeInv, Base, Sync, Flags, parsed
<1>4. next' \in 0..SyncCount
  BY Bounds DEF TypeInv, Numbers, Sync, syncing
<1>5. Numbers'
  BY <1>4 DEF TypeInv, Numbers, Sync, parsed
<1>6. Steps' /\ Tasks'
  BY DEF TypeInv, Sync, Steps, Tasks, Goto, probe
<1>7. Lines' /\ MidTouch'
  BY LineSent DEF Sync
<1>8. LastStep'
  BY Labels DEF TypeInv, Sync, LastStep, Running, At, Goto, Tasks, probe
<1> QED BY <1>1, <1>3, <1>5, <1>6, <1>7, <1>8 DEF TypeInv, Base

LEMMA PollTyped == ASSUME TypeInv, Poll PROVE TypeInv'
<1>1. clock' \in 0..ClockMod - 1
  <2>1. ASSUME NEW d \in 1..Stride PROVE (clock + d) % ClockMod \in 0..ClockMod - 1
    <3>1. clock + d \in Nat
      BY Bounds DEF TypeInv, Base, Clocks
    <3> QED BY <3>1, Wrapped
  <2>2. clock' = clock \/ \E d \in 1..Stride : clock' = (clock + d) % ClockMod
    BY DEF Poll
  <2> QED BY <2>1, <2>2 DEF TypeInv, Base, Clocks
<1>2. Clocks'
  BY <1>1 DEF TypeInv, Base, Clocks, Poll
<1>3. /\ phase' \in {phase, "failed"} /\ wait' \in {wait, "none"} /\ got_ok' = got_ok
  BY DEF Poll, Fail
<1>4. Engine'
  BY <1>3 DEF TypeInv, Base, Engine
<1>5. Flags' /\ Status'
  BY DEF TypeInv, Base, Poll, Flags, Status, parsed, syncing, link
<1>6. Steps' /\ Tasks' /\ Numbers' /\ Lines' /\ MidTouch'
  BY DEF TypeInv, Poll, Goto, Steps, Tasks, Numbers, Lines, MidTouch, parsed, syncing, link
<1>7. LastStep'
  <2>1. pc["sys"] \in {"rest", "poll"} /\ cycle' = cycle /\ step' = step
    BY DEF Poll
  <2>2. ~(Running /\ step = Ends[cycle])
    BY <2>1 DEF TypeInv, LastStep, At
  <2> QED BY <1>3, <2>1, <2>2 DEF LastStep, Running
<1> QED BY <1>2, <1>4, <1>5, <1>6, <1>7 DEF TypeInv, Base

LEMMA ControllerTyped == ASSUME TypeInv, Controller PROVE TypeInv'
<1> DEFINE H == Heard(touches)
<1>1. ctlFrame' = ctlFrame
  BY DEF Controller, CtlLine, CtlTouch, CtlContact, CtlMiss, CtlReport, CtlUnlock, Lose
<1>2. Engine' /\ Clocks' /\ Flags' /\ Steps' /\ Tasks' /\ Numbers' /\ LastStep'
  BY <1>1 DEF TypeInv, Base, Engine, Clocks, Flags, Steps, Tasks, Numbers, LastStep, Running,
     At, ctlFrame, probe, parsed, syncing, tasks
<1>3. touches' = touches /\ mach' = mach /\ shown' = shown /\ last' = last
  BY <1>1 DEF ctlFrame, parsed
<1>4. real' \in Machine
  BY DEF TypeInv, Base, Status, Machine, Controller, CtlLine, CtlTouch, CtlContact, CtlMiss,
     CtlReport, CtlUnlock, Lose
<1>5. Status'
  BY <1>3, <1>4 DEF TypeInv, Base, Status
<1>6. \A ev \in {"ok", "err", "alarm", "report"} : Says(ev) \in H
  BY <1>4 DEF TypeInv, Numbers, Says, Heard
<1>7. tx # <<>> => Tail(tx) \in Seq(0..touches) /\ Prb(TRUE) \in H /\ Prb(FALSE) \in H
  <2>1. tx # <<>> => Head(tx) \in 0..touches /\ Tail(tx) \in Seq(0..touches)
    BY Taken DEF TypeInv, Lines
  <2> QED BY <1>4, <2>1 DEF Prb, Heard
<1>8. /\ rx \in Seq(H) /\ tx \in Seq(0..touches) /\ (real = "run" => tx # <<>>)
      /\ (rx # <<>> => Tail(rx) \in Seq(H))
  <2>1. rx \in Seq(H)
    BY DEF TypeInv, Lines
  <2> HIDE DEF H
  <2> QED BY <2>1, Taken DEF TypeInv, Lines, MidTouch
<1> HIDE DEF H
<1>9. tx' \in Seq(0..touches) /\ rx' \in Seq(H) /\ MidTouch'
  <2>1. CASE CtlLine
    BY <2>1, <1>6, <1>7, <1>8, Appended DEF CtlLine, MidTouch
  <2>2. CASE CtlTouch
    BY <2>2, <1>6, <1>7, <1>8, Appended DEF CtlTouch, MidTouch
  <2>3. CASE CtlContact
    BY <2>3, <1>6, <1>7, <1>8, Joined DEF CtlContact, MidTouch
  <2>4. CASE CtlMiss
    <3>1. real' = "alarm" /\ tx # <<>> /\ tx' = Tail(tx) /\ rx \in Seq(H)
      BY <2>4, <1>8 DEF CtlMiss
    <3>2. tx' \in Seq(0..touches) /\ Prb(FALSE) \in H /\ Says("alarm") \in H /\ Says("ok") \in H
      BY <3>1, <1>6, <1>7
    <3>3. CASE rx' = rx \o <<Prb(FALSE), Says("alarm")>>
      BY <3>1, <3>2, <3>3, Joined DEF MidTouch
    <3>4. CASE rx' = rx \o <<Says("alarm"), Prb(FALSE), Says("ok")>>
      BY <3>1, <3>2, <3>4, JoinedThree DEF MidTouch
    <3> QED BY <2>4, <3>3, <3>4 DEF CtlMiss
  <2>5. CASE CtlReport
    BY <2>5, <1>6, <1>8, Appended DEF CtlReport, MidTouch
  <2>6. CASE CtlUnlock
    BY <2>6, <1>8 DEF CtlUnlock, MidTouch
  <2>7. CASE Lose
    BY <2>7, <1>7, <1>8 DEF Lose, MidTouch
  <2> QED BY <2>1, <2>2, <2>3, <2>4, <2>5, <2>6, <2>7 DEF Controller
<1>10. Lines'
  BY <1>3, <1>9 DEF Lines, H
<1> QED BY <1>2, <1>5, <1>9, <1>10 DEF TypeInv, Base

LEMMA Unchanged == TypeInv /\ UNCHANGED vars => TypeInv'
<1> SUFFICES ASSUME TypeInv, UNCHANGED vars PROVE TypeInv'
  OBVIOUS
<1>1. Base' /\ Steps' /\ Tasks'
  BY DEF TypeInv, Base, Engine, Clocks, Flags, Status, Steps, Tasks, vars, probe, parsed,
     syncing, tasks, link
<1>2. Numbers' /\ Lines' /\ MidTouch' /\ LastStep'
  BY DEF TypeInv, Numbers, Lines, MidTouch, LastStep, Running, At, vars, probe, parsed,
     syncing, tasks, link
<1> QED BY <1>1, <1>2 DEF TypeInv

LEMMA TypeStep == TypeInv /\ [Next]_vars => TypeInv'
<1> SUFFICES ASSUME TypeInv, Next PROVE TypeInv'
  BY Unchanged
<1>1. CASE Sys
  BY <1>1, Labels, FeedTyped, EventTyped, SendTyped, ArmTyped, SyncTyped, PollTyped DEF Sys
<1>2. CASE Handler
  BY <1>2, Labels, SendTyped, ArmTyped, UiTyped DEF Handler
<1>3. CASE Cancel \/ SyncStart \/ Mdi
  BY <1>3, UiTyped
<1>4. CASE Controller
  BY <1>4, ControllerTyped
<1>5. CASE \E c \in Cycles : Start(c)
  BY <1>5, StartTyped
<1> QED BY <1>1, <1>2, <1>3, <1>4, <1>5 DEF Next

(* Every variable keeps to its values; in particular no cycle steps beyond *)
(* its last line, although the UI may start or cancel one between any two  *)
(* steps of sys_task.                                                      *)
THEOREM TypeCorrect == Spec => []TypeOK
<1>1. Spec => []TypeInv
  BY TypeInit, TypeStep, PTL DEF Spec
<1> QED BY <1>1, TypeInvTyped, PTL

-----------------------------------------------------------------------------
(* One line at a time.  An answer among those under way:                   *)
NoOkIn(s) == \A i \in 1..Len(s) : s[i].ev # "ok"
OneOkIn(s) == \A i, k \in 1..Len(s) : s[i].ev = "ok" /\ s[k].ev = "ok" => i = k

LEMMA AppendedOk ==
  ASSUME NEW S, NEW s \in Seq(S), NEW x \in S
  PROVE  /\ NoOkIn(s) => OneOkIn(Append(s, x))
         /\ x.ev # "ok" => (NoOkIn(s) => NoOkIn(Append(s, x)))
         /\ x.ev # "ok" => (OneOkIn(s) => OneOkIn(Append(s, x)))
<1>1. /\ Len(Append(s, x)) = Len(s) + 1 /\ Append(s, x)[Len(s) + 1] = x /\ Len(s) \in Nat
      /\ \A k \in 1..Len(s) : Append(s, x)[k] = s[k]
  OBVIOUS
<1> DEFINE t == Append(s, x)
<1> HIDE DEF t
<1>2. \A k \in 1..Len(t) : k = Len(s) + 1 \/ k \in 1..Len(s)
  BY <1>1 DEF t
<1>3. t[Len(s) + 1] = x /\ \A k \in 1..Len(s) : t[k] = s[k]
  BY <1>1 DEF t
<1>4. NoOkIn(s) => OneOkIn(t)
  BY <1>2, <1>3 DEF NoOkIn, OneOkIn
<1>5. x.ev # "ok" => (NoOkIn(s) => NoOkIn(t))
  BY <1>2, <1>3 DEF NoOkIn
<1>6. x.ev # "ok" => (OneOkIn(s) => OneOkIn(t))
  BY <1>2, <1>3 DEF OneOkIn
<1> QED BY <1>4, <1>5, <1>6 DEF t

LEMMA JoinedOk ==
  ASSUME NEW S, NEW s \in Seq(S), NEW x \in S, NEW y \in S, NEW z \in S, NoOkIn(s), x.ev # "ok"
  PROVE  /\ OneOkIn(s \o <<x, y>>)
         /\ y.ev # "ok" => NoOkIn(s \o <<x, y>>) /\ OneOkIn(s \o <<x, y, z>>)
<1>1. s \o <<x, y>> = Append(Append(s, x), y)
  OBVIOUS
<1>2. s \o <<x, y, z>> = Append(Append(Append(s, x), y), z)
  OBVIOUS
<1> DEFINE a == Append(s, x)
           b == Append(a, y)
<1>3. a \in Seq(S) /\ NoOkIn(a) /\ b \in Seq(S)
  BY AppendedOk
<1> HIDE DEF a
<1>4. OneOkIn(b) /\ (y.ev # "ok" => NoOkIn(b))
  BY <1>3, AppendedOk
<1> HIDE DEF b
<1>5. y.ev # "ok" => OneOkIn(Append(b, z))
  BY <1>3, <1>4, AppendedOk
<1> QED BY <1>1, <1>2, <1>4, <1>5 DEF a, b

LEMMA FedOk ==
  ASSUME NEW S, NEW s \in Seq(S), NEW n \in 1..Len(s), OneOkIn(s)
  PROVE  /\ OneOkIn(SubSeq(s, n + 1, Len(s)))
         /\ NoOkIn(s) => s[n].ev # "ok" /\ NoOkIn(SubSeq(s, n + 1, Len(s)))
         /\ s[n].ev = "ok" => ~NoOkIn(s) /\ NoOkIn(SubSeq(s, n + 1, Len(s)))
<1> DEFINE t == SubSeq(s, n + 1, Len(s))
<1>1. \A k \in 1..Len(t) : t[k] = s[n + k] /\ n + k \in 1..Len(s) /\ k \in Nat /\ n \in Nat
  OBVIOUS
<1>2. \A i, k \in 1..Len(t) : n + i = n + k => i = k
  BY <1>1
<1>3. \A k \in 1..Len(t) : n + k # n
  BY <1>1
<1> HIDE DEF t
<1>4. OneOkIn(t)
  BY <1>1, <1>2 DEF OneOkIn
<1>5. NoOkIn(s) => s[n].ev # "ok" /\ NoOkIn(t)
  BY <1>1 DEF NoOkIn
<1>6. s[n].ev = "ok" => ~NoOkIn(s) /\ NoOkIn(t)
  BY <1>1, <1>3 DEF NoOkIn, OneOkIn
<1> QED BY <1>4, <1>5, <1>6 DEF t

-----------------------------------------------------------------------------
(* Nothing is under way.                                                   *)
Clear == tx = <<>> /\ NoOkIn(rx)
OneLine == Len(tx) <= 1 /\ (tx # <<>> => NoOkIn(rx)) /\ OneOkIn(rx)

(* A line about to be sent, and an ok that may still bring one about.      *)
Writing == pc["ui"] \in {"send", "first"} \/ pc["sys"] = "send"
HeardOk == pc["sys"] \in {"event", "sync"} /\ last = "ok"
Due == HeardOk /\ (pc["sys"] = "event" \/ pending)

(* There is one permit to send: the line under way, its ok, or the task    *)
(* that has heard it.  The UI gives out another only when nothing is under *)
(* way, and a cycle and the queue do not run together.                     *)
Permit == Writing \/ Due \/ (Running /\ got_ok) => Clear
Apart == pending => /\ ~Running /\ pc["ui"] \notin {"send", "arm"}
                    /\ pc["sys"] \notin {"event", "send", "arm"}
UiTurn ==
  /\ pc["ui"] = "first" => pending
  /\ pc["ui"] \in {"send", "first"} => ~HeardOk
  /\ pc["ui"] \in {"send", "arm"} => wait = "none" /\ ~got_ok /\ pc["sys"] \notin {"send", "arm"}
SysTurn == pc["sys"] \in {"send", "arm"} => ~got_ok

TurnInv == OneLine /\ Permit /\ Apart /\ UiTurn /\ SysTurn
Orderly == trouble = "none" => TurnInv

(* A step that makes tx longer starts from nothing under way.              *)
InTurn == Len(tx') > Len(tx) => Clear

LEMMA TurnInit == Init => Orderly
<1> SUFFICES ASSUME Init PROVE TurnInv
  BY DEF Orderly
<1>1. Len(tx) = 0 /\ Len(rx) = 0
  BY DEF Init
<1>2. OneLine
  BY <1>1 DEF Init, OneLine, NoOkIn, OneOkIn
<1>3. pc["ui"] = "rest" /\ pc["sys"] = "rest"
  BY Labels DEF Init
<1> QED BY <1>2, <1>3 DEF Init, TurnInv, Permit, Writing, Due, HeardOk, Running, Apart, UiTurn, SysTurn

(* The first line after nothing was under way.                             *)
LEMMA OneSent ==
  ASSUME Clear, NEW x, tx' = Append(tx, x), rx' = rx
  PROVE  OneLine' /\ InTurn
<1>1. tx' = <<x>>
  BY DEF Clear
<1>2. Len(tx') = 1 /\ NoOkIn(rx)
  BY <1>1 DEF Clear
<1>3. OneOkIn(rx)
  BY <1>2 DEF NoOkIn, OneOkIn
<1> QED BY <1>2, <1>3 DEF OneLine, InTurn

LEMMA LinkKept ==
  ASSUME TurnInv, tx' = tx, rx' = rx
  PROVE  OneLine' /\ Clear' = Clear /\ InTurn
<1>1. Len(tx') = Len(tx) /\ Len(tx) <= 1
  BY DEF TurnInv, OneLine
<1>2. InTurn
  BY <1>1 DEF InTurn
<1> QED BY <1>1, <1>2 DEF TurnInv, OneLine, Clear

LEMMA TxTyped == ASSUME TypeInv PROVE Len(tx) \in Nat /\ Len(rx) \in Nat
BY DEF TypeInv, Lines

LEMMA SendTurn ==
  ASSUME TypeInv, TurnInv, NEW t \in Task, SendStep(t)
  PROVE  TurnInv' /\ InTurn
<1> USE Labels
<1>1. Clear
  BY DEF TurnInv, Permit, Writing, SendStep, At
<1>2. OneLine' /\ InTurn
  BY <1>1, OneSent DEF SendStep
<1>3. /\ pc[t] = "send" /\ pc' = [pc EXCEPT ![t] = "arm"] /\ pc'[t] = "arm"
      /\ \A u \in Task : u # t => pc'[u] = pc[u]
  BY DEF TypeInv, Tasks, SendStep, At, Goto
<1>4. last' = last /\ pending' = pending /\ got_ok' = got_ok /\ wait' = wait /\ Running' = Running
  BY DEF SendStep, probe, parsed, syncing, Running
<1>5. CASE t = "sys"
  <2>1. pc["ui"] \notin {"send", "arm", "first"} /\ ~got_ok /\ ~pending /\ pc'["ui"] = pc["ui"]
    BY <1>3, <1>5 DEF TurnInv, UiTurn, Apart, SysTurn
  <2> QED BY <1>2, <1>3, <1>4, <1>5, <2>1
          DEF TurnInv, Permit, Writing, Due, HeardOk, Apart, UiTurn, SysTurn
<1>6. CASE t = "ui"
  <2>1. /\ pc["sys"] \notin {"send", "arm"} /\ ~got_ok /\ ~pending /\ wait = "none" /\ ~HeardOk
        /\ pc'["sys"] = pc["sys"]
    BY <1>3, <1>6 DEF TurnInv, UiTurn, Apart
  <2> QED BY <1>2, <1>3, <1>4, <1>6, <2>1
          DEF TurnInv, Permit, Writing, Due, HeardOk, Apart, UiTurn, SysTurn
<1> QED BY <1>5, <1>6

LEMMA ArmTurn ==
  ASSUME TypeInv, TurnInv, NEW t \in Task, ArmStep(t)
  PROVE  TurnInv' /\ InTurn
<1> USE Labels
<1>1. OneLine' /\ Clear' = Clear /\ InTurn
  BY LinkKept DEF ArmStep, link
<1>2. /\ pc[t] = "arm" /\ pc'[t] = Then(t)
      /\ \A u \in Task : u # t => pc'[u] = pc[u]
  BY DEF TypeInv, Tasks, ArmStep, At, Goto
<1>3. /\ last' = last /\ pending' = pending /\ (got_ok' = got_ok \/ ~got_ok')
      /\ (Running' => Running) /\ ~got_ok /\ ~pending
  BY DEF TurnInv, UiTurn, SysTurn, Apart, ArmStep, At, parsed, syncing, Running
<1>4. ~got_ok'
  BY <1>3
<1>5. CASE t = "sys"
  <2>1. pc'["sys"] = "sync" /\ pc'["ui"] = pc["ui"] /\ pc["ui"] \notin {"send", "arm", "first"}
    BY <1>2, <1>3, <1>5 DEF Then, TurnInv, UiTurn
  <2> QED BY <1>1, <1>3, <1>4, <2>1
          DEF TurnInv, Permit, Writing, Due, HeardOk, Apart, UiTurn, SysTurn
<1>6. CASE t = "ui"
  <2>1. pc'["ui"] = "rest" /\ pc'["sys"] = pc["sys"]
    BY <1>2, <1>6 DEF Then
  <2> QED BY <1>1, <1>3, <1>4, <2>1
          DEF TurnInv, Permit, Writing, Due, HeardOk, Apart, UiTurn, SysTurn
<1> QED BY <1>5, <1>6

LEMMA UiTurnStep ==
  ASSUME TypeInv, TurnInv, trouble = "none",
         (\E c \in Cycles : Start(c)) \/ Cancel \/ SyncStart \/ SyncFirst \/ Mdi
  PROVE  TurnInv' /\ InTurn
<1> USE Labels
<1>1. CASE \E c \in Cycles : Start(c)
  <2>1. Quiet
    BY <1>1 DEF Start
  <2>2. OneLine' /\ Clear' = Clear /\ InTurn
    BY <1>1, LinkKept DEF Start, link
  <2>3. Clear /\ ~pending /\ pc["sys"] = "rest"
    <3>1. Len(rx) = 0
      BY <2>1 DEF Quiet
    <3> QED BY <2>1, <3>1 DEF Quiet, Clear, NoOkIn
  <2>4. /\ pc'["ui"] = "send" /\ pc'["sys"] = "rest" /\ pending' = pending /\ ~got_ok'
        /\ wait' = "none"
    BY <1>1, <2>3 DEF TypeInv, Tasks, Start, Goto, syncing
  <2> QED BY <2>2, <2>3, <2>4
          DEF TurnInv, Permit, Writing, Due, HeardOk, Apart, UiTurn, SysTurn
<1>2. CASE SyncStart
  <2>1. Quiet /\ ~Running
    BY <1>2 DEF SyncStart
  <2>2. OneLine' /\ Clear' = Clear /\ InTurn
    BY <1>2, LinkKept DEF SyncStart, link
  <2>3. Clear /\ pc["sys"] = "rest"
    <3>1. Len(rx) = 0
      BY <2>1 DEF Quiet
    <3> QED BY <2>1, <3>1 DEF Quiet, Clear, NoOkIn
  <2>4. /\ pc'["ui"] = "first" /\ pc'["sys"] = "rest" /\ pending' = TRUE /\ got_ok' = got_ok
        /\ ~Running'
    BY <1>2, <2>1, <2>3 DEF TypeInv, Tasks, SyncStart, Goto, probe, Running
  <2> QED BY <2>2, <2>3, <2>4
          DEF TurnInv, Permit, Writing, Due, HeardOk, Apart, UiTurn, SysTurn
<1>3. CASE SyncFirst
  <2>1. pc["ui"] = "first" /\ pc'["ui"] = "rest" /\ pc'["sys"] = pc["sys"]
    BY <1>3 DEF TypeInv, Tasks, SyncFirst, At, Goto
  <2>2. Clear /\ pending /\ ~HeardOk /\ ~Running /\ pc["sys"] \notin {"event", "send", "arm"}
    BY <2>1 DEF TurnInv, Permit, Writing, Apart, UiTurn
  <2>3. OneLine' /\ InTurn
    BY <1>3, <2>2, OneSent DEF SyncFirst
  <2>4. /\ last' = last /\ pending' = pending /\ got_ok' = got_ok /\ wait' = wait
        /\ Running' = Running
    BY <1>3 DEF SyncFirst, probe, parsed, syncing, Running
  <2> QED BY <2>1, <2>2, <2>3, <2>4
          DEF TurnInv, Permit, Writing, Due, HeardOk, Apart, UiTurn, SysTurn
<1>4. CASE Cancel \/ Mdi
  BY <1>4 DEF Cancel, Mdi
<1> QED BY <1>1, <1>2, <1>3, <1>4

(* The feed takes the ok, and with it the permit, or finds none.           *)
LEMMA FeedTurn ==
  ASSUME TypeInv, TurnInv, trouble = "none", NEW n \in 0..Len(rx), Feed(n)
  PROVE  TurnInv' /\ InTurn
<1> USE Labels
<1>1. n \in 1..Len(rx) /\ rx \in Seq(Heard(touches))
  BY TxTyped DEF TypeInv, Lines, Feed
<1>2. tx' = tx /\ rx' = SubSeq(rx, n + 1, Len(rx)) /\ last' = rx[n].ev
  BY <1>1 DEF Feed
<1>3. /\ OneOkIn(rx') /\ (NoOkIn(rx) => last' # "ok" /\ NoOkIn(rx'))
      /\ (last' = "ok" => ~NoOkIn(rx) /\ NoOkIn(rx'))
  BY <1>1, <1>2, FedOk DEF TurnInv, OneLine
<1>4. OneLine' /\ (Clear => Clear' /\ last' # "ok") /\ (last' = "ok" => Clear' /\ ~Clear)
  BY <1>2, <1>3 DEF TurnInv, OneLine, Clear
<1>5. InTurn
  BY <1>2, TxTyped DEF InTurn
<1>6. /\ pc["sys"] = "rest" /\ pc'["ui"] = pc["ui"] /\ pc'["sys"] \in {"event", "sync"}
      /\ (pc'["sys"] = "event" => Running)
  BY DEF TypeInv, Tasks, Feed, At, Goto
<1>7. pending' = pending /\ got_ok' = got_ok /\ wait' = wait /\ Running' = Running
  BY DEF Feed, probe, syncing, Running
<1>8. Permit'
  <2>1. CASE Writing' \/ (Running' /\ got_ok')
    <3>1. Clear
      BY <1>6, <1>7, <2>1 DEF TurnInv, Permit, Writing
    <3> QED BY <3>1, <1>4 DEF Permit
  <2>2. CASE Due'
    BY <1>4, <2>2 DEF Permit, Due, HeardOk
  <2> QED BY <2>1, <2>2 DEF Permit
<1>9. UiTurn'
  <2>1. pc["ui"] \in {"send", "first"} => last' # "ok"
    BY <1>4 DEF TurnInv, Permit, Writing
  <2> QED BY <1>6, <1>7, <2>1 DEF TurnInv, UiTurn, HeardOk
<1>10. Apart' /\ SysTurn'
  BY <1>6, <1>7 DEF TurnInv, Apart, SysTurn
<1> QED BY <1>4, <1>5, <1>8, <1>9, <1>10 DEF TurnInv

LEMMA EventTurn ==
  ASSUME TypeInv, TurnInv, Event
  PROVE  TurnInv' /\ InTurn
<1> USE Labels
<1>1. OneLine' /\ Clear' = Clear /\ InTurn
  <2>1. tx' = tx /\ rx' = rx
    BY DEF Event, EventOk, EventTouched, EventMissed, EventWaits, EventFails, EventOther, eventFrame,
       link
  <2> QED BY <2>1, LinkKept
<1>2. last' = last /\ pending' = pending /\ pc["sys"] = "event" /\ pc'["ui"] = pc["ui"]
  <2>1. pc["sys"] = "event" /\ last' = last /\ pending' = pending
    BY DEF Event, EventOk, EventTouched, EventMissed, EventWaits, EventFails, EventOther,
       eventFrame, Hears, At, parsed, syncing
  <2>2. \E l \in {"send", "sync"} : pc' = [pc EXCEPT !["sys"] = l]
    BY DEF Event, EventOk, EventTouched, EventMissed, EventWaits, EventFails, EventOther, Step,
       Stay, Goto
  <2> QED BY <2>1, <2>2 DEF TypeInv, Tasks
<1>3. ~pending /\ pc["ui"] # "first" /\ (pc["ui"] = "send" => last # "ok")
  BY <1>2 DEF TurnInv, Apart, UiTurn, HeardOk
<1>4. CASE EventOk \/ EventTouched
  <2>1. Running /\ wait # "none" /\ (last = "ok" \/ got_ok)
    BY <1>4 DEF EventOk, EventTouched, Hears, Answers, Got
  <2>2. Clear /\ pc["ui"] \notin {"send", "arm"}
    BY <1>2, <2>1 DEF TurnInv, Permit, Due, HeardOk, UiTurn
  <2>3. pc'["sys"] = "send" /\ ~got_ok' /\ wait' = "none"
    BY <1>4 DEF TypeInv, Tasks, EventOk, EventTouched, Step, Goto
  <2> QED BY <1>1, <1>2, <1>3, <2>2, <2>3
          DEF TurnInv, Permit, Writing, Due, HeardOk, Apart, UiTurn, SysTurn
<1>5. CASE EventMissed \/ EventFails
  <2>1. pc'["sys"] = "sync" /\ phase' = "failed" /\ wait' = "none"
    BY <1>5 DEF TypeInv, Tasks, EventMissed, EventFails, Goto, Fail
  <2>2. pc["ui"] \in {"send", "arm"} => ~got_ok'
    <3>1. CASE EventMissed
      BY <3>1 DEF TurnInv, UiTurn, EventMissed, Answers
    <3>2. CASE EventFails
      BY <3>2 DEF TurnInv, UiTurn, EventFails
    <3> QED BY <1>5, <3>1, <3>2
  <2>3. pc["ui"] = "send" => Clear
    BY DEF TurnInv, Permit, Writing
  <2> QED BY <1>1, <1>2, <1>3, <2>1, <2>2, <2>3
          DEF TurnInv, Permit, Writing, Due, HeardOk, Running, Apart, UiTurn, SysTurn
<1>6. CASE EventWaits \/ EventOther
  <2>1. /\ pc'["sys"] = "sync" /\ wait' = wait /\ Running' = Running
        /\ (got_ok' => got_ok \/ (last = "ok" /\ wait = "probe"))
    <3>1. pc'["sys"] = "sync" /\ wait' = wait /\ phase' = phase
      BY <1>6 DEF TypeInv, Tasks, EventWaits, EventOther, Stay, Goto
    <3>2. CASE EventWaits
      <4>1. got_ok' = Got /\ wait = "probe"
        BY <3>2 DEF EventWaits, Answers
      <4>2. Got => got_ok \/ last = "ok"
        BY DEF Got
      <4> QED BY <3>1, <4>1, <4>2 DEF Running
    <3>3. CASE EventOther
      BY <3>1, <3>3 DEF EventOther, Running
    <3> QED BY <1>6, <3>2, <3>3
  <2>2. pc["ui"] \in {"send", "arm"} => ~got_ok'
    BY <2>1 DEF TurnInv, UiTurn
  <2>3. pc["ui"] = "send" \/ (Running' /\ got_ok') => Clear
    BY <1>2, <2>1 DEF TurnInv, Permit, Writing, Due, HeardOk
  <2> QED BY <1>1, <1>2, <1>3, <2>1, <2>2, <2>3
          DEF TurnInv, Permit, Writing, Due, HeardOk, Apart, UiTurn, SysTurn
<1> QED BY <1>4, <1>5, <1>6 DEF Event

LEMMA SyncTurn ==
  ASSUME TypeInv, TurnInv, Sync
  PROVE  TurnInv' /\ InTurn
<1> USE Labels
<1>1. pc["sys"] = "sync" /\ pc'["sys"] = "poll" /\ pc'["ui"] = pc["ui"]
  BY DEF TypeInv, Tasks, Sync, At, Goto
<1>2. last' = last /\ got_ok' = got_ok /\ wait' = wait /\ Running' = Running /\ rx' = rx
  BY DEF Sync, probe, parsed, Running
<1>3. CASE SyncDue
  <2>1. pending /\ last = "ok"
    BY <1>3 DEF SyncDue
  <2>2. Clear /\ ~Running /\ pc["ui"] \notin {"send", "arm", "first"}
    BY <1>1, <2>1 DEF TurnInv, Permit, Due, HeardOk, Apart, UiTurn
  <2>3. OneLine' /\ InTurn
    <3>1. CASE tx' = Append(tx, 0)
      BY <3>1, <1>2, <2>2, OneSent
    <3>2. CASE tx' = tx
      BY <3>2, <1>2, LinkKept
    <3> QED BY <1>3, <3>1, <3>2 DEF Sync
  <2> QED BY <1>1, <1>2, <2>2, <2>3
          DEF TurnInv, Permit, Writing, Due, HeardOk, Apart, UiTurn, SysTurn
<1>4. CASE ~SyncDue
  <2>1. tx' = tx /\ pending' = pending
    BY <1>4 DEF Sync, syncing
  <2>2. OneLine' /\ Clear' = Clear /\ InTurn
    BY <1>2, <2>1, LinkKept
  <2> QED BY <1>1, <1>2, <2>1, <2>2
          DEF TurnInv, Permit, Writing, Due, HeardOk, Apart, UiTurn, SysTurn
<1> QED BY <1>3, <1>4

LEMMA PollTurn ==
  ASSUME TypeInv, TurnInv, Poll
  PROVE  TurnInv' /\ InTurn
<1> USE Labels
<1>1. OneLine' /\ Clear' = Clear /\ InTurn
  BY LinkKept DEF Poll, link
<1>2. pc["sys"] \in {"rest", "poll"} /\ pc'["sys"] = "rest" /\ pc'["ui"] = pc["ui"]
  BY DEF TypeInv, Tasks, Poll, Goto
<1>3. /\ last' = last /\ pending' = pending /\ got_ok' = got_ok /\ wait' \in {wait, "none"}
      /\ (Running' => Running)
  BY DEF Poll, Fail, parsed, syncing, Running
<1> QED BY <1>1, <1>2, <1>3 DEF TurnInv, Permit, Writing, Due, HeardOk, Apart, UiTurn, SysTurn

(* The controller answers the line under way with one ok at most.          *)
LEMMA ControllerTurn ==
  ASSUME TypeInv, TurnInv, trouble = "none", Controller
  PROVE  TurnInv' /\ InTurn
<1> DEFINE H == Heard(touches)
<1>1. ctlFrame' = ctlFrame
  BY DEF Controller, CtlLine, CtlTouch, CtlContact, CtlMiss, CtlReport, CtlUnlock, Lose
<1>2. /\ rx \in Seq(H) /\ Len(tx) \in Nat
      /\ (tx # <<>> => Head(tx) \in 0..touches /\ Len(Tail(tx)) = Len(tx) - 1)
  <2>1. tx \in Seq(0..touches)
    BY DEF TypeInv, Lines
  <2>2. tx # <<>> => Head(tx) \in 0..touches /\ Len(Tail(tx)) = Len(tx) - 1
    BY <2>1, Taken
  <2> QED BY <2>1, <2>2 DEF TypeInv, Lines
<1>3. real' \in Machine
  BY DEF TypeInv, Base, Status, Machine, Controller, CtlLine, CtlTouch, CtlContact, CtlMiss,
     CtlReport, CtlUnlock, Lose
<1>4. \A ev \in {"ok", "err", "alarm", "report"} : Says(ev) \in H /\ Says(ev).ev = ev
  BY <1>3 DEF TypeInv, Numbers, Says, Heard
<1>5. tx # <<>> => \A hit \in BOOLEAN : Prb(hit) \in H /\ Prb(hit).ev = "prb"
  BY <1>2, <1>3 DEF Prb, Heard
<1>6. /\ OneLine /\ Len(tx) <= 1 /\ (tx # <<>> => NoOkIn(rx)) /\ OneOkIn(rx)
      /\ (tx # <<>> => Tail(tx) = <<>>)
  <2>1. tx # <<>> /\ Len(tx) <= 1 => Tail(tx) = <<>>
    BY DEF TypeInv, Lines
  <2> QED BY <2>1 DEF TurnInv, OneLine
<1> HIDE DEF H
<1>7. OneOkIn(rx') /\ (tx' = tx \/ tx' = <<>>) /\ (tx' # <<>> => NoOkIn(rx'))
      /\ (Clear => Clear')
  <2>1. CASE CtlLine
    BY <2>1, <1>2, <1>4, <1>6, AppendedOk DEF CtlLine, Clear
  <2>2. CASE CtlTouch
    BY <2>2, <1>2, <1>4, <1>6, AppendedOk DEF CtlTouch, Clear
  <2>3. CASE CtlContact
    BY <2>3, <1>2, <1>4, <1>5, <1>6, JoinedOk DEF CtlContact, Clear, TypeInv, MidTouch
  <2>4. CASE CtlMiss
    BY <2>4, <1>2, <1>4, <1>5, <1>6, JoinedOk DEF CtlMiss, Clear, TypeInv, MidTouch
  <2>5. CASE CtlReport
    BY <2>5, <1>2, <1>4, <1>6, AppendedOk DEF CtlReport, Clear
  <2>6. CASE CtlUnlock
    BY <2>6, <1>6 DEF CtlUnlock, Clear
  <2>7. CASE Lose
    BY <2>7 DEF Lose
  <2> QED BY <2>1, <2>2, <2>3, <2>4, <2>5, <2>6, <2>7 DEF Controller
<1>8. Len(tx') <= 1 /\ ~(Len(tx') > Len(tx))
  <2>1. CASE tx' = tx
    BY <2>1, <1>2, <1>6
  <2>2. CASE tx' = <<>>
    <3>1. Len(tx') = 0
      BY <2>2
    <3> QED BY <3>1, <1>2
  <2> QED BY <1>7, <2>1, <2>2
<1>9. OneLine' /\ InTurn
  BY <1>7, <1>8 DEF OneLine, InTurn
<1>10. /\ pc' = pc /\ last' = last /\ pending' = pending /\ got_ok' = got_ok /\ wait' = wait
       /\ Running' = Running
  BY <1>1 DEF ctlFrame, probe, parsed, syncing, tasks, Running
<1> QED BY <1>7, <1>9, <1>10 DEF TurnInv, Permit, Writing, Due, HeardOk, Apart, UiTurn, SysTurn

LEMMA TurnStep ==
  TypeInv /\ Orderly /\ [Next]_vars => Orderly' /\ (trouble = "none" => InTurn)
<1> SUFFICES ASSUME TypeInv, Orderly, [Next]_vars
    PROVE  Orderly' /\ (trouble = "none" => InTurn)
  OBVIOUS
<1>1. CASE UNCHANGED vars
  <2>1. trouble' = trouble /\ tx' = tx /\ rx' = rx
    BY <1>1 DEF vars, bounds, link
  <2>2. TurnInv => OneLine' /\ Clear' = Clear /\ InTurn
    BY <2>1, LinkKept
  <2>3. pc' = pc /\ last' = last /\ pending' = pending /\ got_ok' = got_ok /\ wait' = wait
        /\ Running' = Running
    BY <1>1 DEF vars, probe, parsed, syncing, tasks, Running
  <2>4. TurnInv => TurnInv'
    BY <2>2, <2>3 DEF TurnInv, Permit, Writing, Due, HeardOk, Apart, UiTurn, SysTurn
  <2> QED BY <2>1, <2>2, <2>4 DEF Orderly
<1>2. CASE Next
  <2>1. trouble' = trouble
    BY <1>2 DEF Next, Sys, Feed, Event, EventOk, EventTouched, EventMissed, EventWaits, EventFails,
       EventOther, eventFrame, SendStep, ArmStep, Sync, Poll, Handler, SyncFirst, Cancel, SyncStart,
       Mdi, Start, Controller, CtlLine, CtlTouch, CtlContact, CtlMiss, CtlReport, CtlUnlock, Lose,
       ctlFrame, bounds
  <2>2. SUFFICES ASSUME trouble = "none" PROVE TurnInv' /\ InTurn
    BY <2>1 DEF Orderly
  <2>3. TurnInv
    BY <2>2 DEF Orderly
  <2>4. CASE Sys
    BY <2>2, <2>3, <2>4, Labels, FeedTurn, EventTurn, SendTurn, ArmTurn, SyncTurn, PollTurn DEF Sys
  <2>5. CASE Handler
    BY <2>2, <2>3, <2>5, Labels, SendTurn, ArmTurn, UiTurnStep DEF Handler
  <2>6. CASE Cancel \/ SyncStart \/ Mdi \/ \E c \in Cycles : Start(c)
    BY <2>2, <2>3, <2>6, UiTurnStep
  <2>7. CASE Controller
    BY <2>2, <2>3, <2>7, ControllerTurn
  <2> QED BY <1>2, <2>4, <2>5, <2>6, <2>7 DEF Next
<1> QED BY <1>1, <1>2

(* Every line of a cycle or of the settings queue waits for the ok of the  *)
(* one before it, for cycles and queues of any length: driver.zig hands    *)
(* the same ok to the probe engine and to the queue, but never to both of  *)
(* them while they want it.                                                *)
THEOREM OneLineAtATime == Spec => SentInTurn
<1>1. Spec => [](TypeInv /\ Orderly)
  <2>1. TypeInv /\ Orderly /\ [Next]_vars => TypeInv' /\ Orderly'
    BY TypeStep, TurnStep
  <2> QED BY <2>1, TypeInit, TurnInit, PTL DEF Spec
<1>2. TypeInv /\ Orderly /\ [Next]_vars =>
        [trouble = "none" /\ Len(tx') > Len(tx) =>
           tx = <<>> /\ \A i \in DOMAIN rx : rx[i].ev # "ok"]_vars
  <2>1. TypeInv => DOMAIN rx = 1..Len(rx)
    BY DEF TypeInv, Lines
  <2> QED BY <2>1, TurnStep DEF InTurn, Clear, NoOkIn
<1> QED BY <1>1, <1>2, PTL DEF Spec, SentInTurn

-----------------------------------------------------------------------------
(* The position of a touch.  A report of it among the answers under way is *)
(* one of the touch n, and goes before the ok of its line.                 *)
NoPrbIn(s) == \A i \in 1..Len(s) : s[i].ev # "prb"
OkLast(s) == \A i, k \in 1..Len(s) : s[i].ev = "ok" /\ s[k].ev = "prb" => k < i
Of(n, s) == \A i \in 1..Len(s) : s[i].ev = "prb" => s[i].id = n

LEMMA AppendedPrb ==
  ASSUME NEW S, NEW s \in Seq(S), NEW x \in S, NEW n
  PROVE  /\ OkLast(s) /\ (x.ev = "prb" => NoOkIn(s)) => OkLast(Append(s, x))
         /\ Of(n, s) /\ (x.ev = "prb" => x.id = n) => Of(n, Append(s, x))
         /\ NoPrbIn(Append(s, x)) <=> (NoPrbIn(s) /\ x.ev # "prb")
         /\ NoOkIn(Append(s, x)) <=> (NoOkIn(s) /\ x.ev # "ok")
<1> DEFINE t == Append(s, x)
<1>1. /\ t[Len(s) + 1] = x /\ Len(s) \in Nat /\ \A k \in 1..Len(s) : t[k] = s[k]
      /\ \A k : k \in 1..Len(t) <=> k = Len(s) + 1 \/ k \in 1..Len(s)
  <2>1. Len(t) = Len(s) + 1 /\ t[Len(s) + 1] = x /\ Len(s) \in Nat /\ \A k \in 1..Len(s) : t[k] = s[k]
    OBVIOUS
  <2> QED BY <2>1
<1> HIDE DEF t
<1>2. Of(n, s) /\ (x.ev = "prb" => x.id = n) => Of(n, t)
  BY <1>1 DEF Of
<1>3. NoPrbIn(t) <=> (NoPrbIn(s) /\ x.ev # "prb")
  BY <1>1 DEF NoPrbIn
<1>4. NoOkIn(t) <=> (NoOkIn(s) /\ x.ev # "ok")
  BY <1>1 DEF NoOkIn
<1>5. ASSUME OkLast(s), x.ev = "prb" => NoOkIn(s) PROVE OkLast(t)
  <2> SUFFICES ASSUME NEW i \in 1..Len(t), NEW k \in 1..Len(t), t[i].ev = "ok", t[k].ev = "prb"
      PROVE  k < i
    BY DEF OkLast
  <2>1. CASE i = Len(s) + 1
    BY <1>1, <2>1
  <2>2. CASE i \in 1..Len(s) /\ k \in 1..Len(s)
    BY <1>1, <1>5, <2>2 DEF OkLast
  <2>3. CASE i \in 1..Len(s) /\ k = Len(s) + 1
    BY <1>1, <1>5, <2>3 DEF NoOkIn
  <2> QED BY <1>1, <2>1, <2>2, <2>3
<1> QED BY <1>2, <1>3, <1>4, <1>5 DEF t

LEMMA FedPrb ==
  ASSUME NEW S, NEW s \in Seq(S), NEW n \in 1..Len(s), NEW m, OkLast(s), Of(m, s)
  PROVE  LET t == SubSeq(s, n + 1, Len(s)) IN
         /\ OkLast(t) /\ Of(m, t)
         /\ NoPrbIn(s) => NoPrbIn(t)
         /\ NoOkIn(s) => NoOkIn(t)
         /\ s[n].ev = "ok" => NoPrbIn(t)
         /\ (\A i \in 1..n : s[i].ev # "prb") /\ NoPrbIn(t) => NoPrbIn(s)
<1> DEFINE t == SubSeq(s, n + 1, Len(s))
<1>1. /\ \A k \in 1..Len(t) : t[k] = s[n + k] /\ n + k \in 1..Len(s) /\ k \in Nat
      /\ n \in Nat /\ Len(s) \in Nat /\ Len(t) = Len(s) - n
  OBVIOUS
<1>2. /\ \A i, k \in 1..Len(t) : n + k < n + i => k < i
      /\ \A k \in 1..Len(t) : ~(n + k < n)
  BY <1>1
<1>3. \A i \in 1..Len(s) : i \in 1..n \/ (i - n \in 1..Len(t) /\ s[i] = t[i - n])
  BY <1>1
<1> HIDE DEF t
<1>4. OkLast(t)
  BY <1>1, <1>2 DEF OkLast
<1>5. Of(m, t) /\ (NoPrbIn(s) => NoPrbIn(t)) /\ (NoOkIn(s) => NoOkIn(t))
  BY <1>1 DEF Of, NoPrbIn, NoOkIn
<1>6. s[n].ev = "ok" => NoPrbIn(t)
  BY <1>1, <1>2 DEF OkLast, NoPrbIn
<1>7. (\A i \in 1..n : s[i].ev # "prb") /\ NoPrbIn(t) => NoPrbIn(s)
  BY <1>3 DEF NoPrbIn
<1> QED BY <1>4, <1>5, <1>6, <1>7 DEF t

(* A cycle has sent a touch, and waits for its answers or is about to.     *)
Asked(t) == pc[t] = "arm" /\ todo[t] = "probe"
Touching == Running /\ (wait = "probe" \/ Asked("sys") \/ Asked("ui"))
Answered == got_ok \/ (pc["sys"] = "event" /\ last = "ok")

(* What is under way is of the last touch sent.  Who hears an ok has been  *)
(* told every position that was under way, because the controller sends    *)
(* the position first: so a touch that was answered by an ok has its own   *)
(* position in the status, or had it in the chunk with the ok.             *)
Reports == OkLast(rx) /\ Of(touches, rx)
UnderWay ==
  /\ tx # <<>> => Head(tx) = 0 \/ Head(tx) = touches
  /\ real = "run" => tx # <<>> /\ Head(tx) # 0
Told == Writing \/ Due \/ (Running /\ got_ok) => NoPrbIn(rx)
SysWaits == pc["sys"] \in {"send", "arm"} => wait = "none"
Touch ==
  Touching =>
    /\ tx # <<>> => Head(tx) # 0
    /\ tx = <<>> /\ (Answered \/ ~NoOkIn(rx)) => pos = touches \/ ~NoPrbIn(rx)

TouchInv == Reports /\ UnderWay /\ Told /\ SysWaits /\ Touch
Measured == trouble = "none" => TouchInv

LEMMA JoinedPrb ==
  ASSUME NEW S, NEW s \in Seq(S), NEW x \in S, NEW y \in S, NEW z \in S, NEW n,
         OkLast(s), Of(n, s), NoOkIn(s)
  PROVE  /\ x.ev = "prb" /\ x.id = n /\ y.ev # "prb" =>
              LET t == s \o <<x, y>> IN OkLast(t) /\ Of(n, t) /\ ~NoPrbIn(t)
         /\ x.ev = "alarm" /\ y.ev = "prb" /\ y.id = n /\ z.ev = "ok" =>
              LET t == s \o <<x, y, z>> IN OkLast(t) /\ Of(n, t) /\ ~NoPrbIn(t)
<1>1. s \o <<x, y>> = Append(Append(s, x), y)
  OBVIOUS
<1>2. s \o <<x, y, z>> = Append(Append(Append(s, x), y), z)
  OBVIOUS
<1> DEFINE a == Append(s, x)
           b == Append(a, y)
<1>3. /\ a \in Seq(S) /\ (x.ev = "prb" /\ x.id = n => OkLast(a) /\ Of(n, a) /\ ~NoPrbIn(a))
      /\ x.ev = "alarm" => OkLast(a) /\ Of(n, a) /\ NoOkIn(a)
  BY AppendedPrb
<1> HIDE DEF a
<1>4. /\ b \in Seq(S)
      /\ x.ev = "prb" /\ x.id = n /\ y.ev # "prb" => OkLast(b) /\ Of(n, b) /\ ~NoPrbIn(b)
      /\ x.ev = "alarm" /\ y.ev = "prb" /\ y.id = n => OkLast(b) /\ Of(n, b) /\ ~NoPrbIn(b)
  BY <1>3, AppendedPrb
<1> HIDE DEF b
<1>5. x.ev = "alarm" /\ y.ev = "prb" /\ y.id = n /\ z.ev = "ok" =>
        LET t == Append(b, z) IN OkLast(t) /\ Of(n, t) /\ ~NoPrbIn(t)
  BY <1>4, AppendedPrb
<1> QED BY <1>1, <1>2, <1>4, <1>5 DEF a, b

LEMMA MeasuredInit == Init => Measured
<1> SUFFICES ASSUME Init PROVE TouchInv
  BY DEF Measured
<1>1. Len(rx) = 0 /\ tx = <<>>
  BY DEF Init
<1>2. Reports /\ NoPrbIn(rx)
  BY <1>1 DEF Reports, OkLast, Of, NoPrbIn
<1>3. UnderWay /\ Told /\ SysWaits /\ Touch
  BY <1>1, <1>2, Labels DEF Init, UnderWay, Told, SysWaits, Touch, Touching, Running
<1> QED BY <1>2, <1>3 DEF TouchInv

(* A line that starts from nothing under way and nothing to tell.          *)
LEMMA FirstSent ==
  ASSUME Clear, NoPrbIn(rx), TouchInv, NEW x, tx' = Append(tx, x), rx' = rx, real' = real,
         x = 0 \/ x = touches'
  PROVE  Reports' /\ UnderWay' /\ NoPrbIn(rx') /\ tx' # <<>> /\ Head(tx') = x
<1>1. tx' = <<x>>
  BY DEF Clear
<1>2. tx' # <<>> /\ Head(tx') = x
  BY <1>1
<1>3. Reports'
  BY DEF TouchInv, Reports, Of, NoPrbIn
<1>4. real # "run"
  BY DEF TouchInv, UnderWay, Clear
<1>5. UnderWay'
  BY <1>2, <1>4 DEF UnderWay
<1> QED BY <1>2, <1>3, <1>5

LEMMA SendMeasured ==
  ASSUME TypeInv, TurnInv, TouchInv, NEW t \in Task, SendStep(t)
  PROVE  TouchInv'
<1> USE Labels
<1>1. Clear /\ NoPrbIn(rx)
  BY DEF TurnInv, Permit, TouchInv, Told, Writing, SendStep, At
<1>2. /\ pc[t] = "send" /\ pc' = [pc EXCEPT ![t] = "arm"] /\ pc'[t] = "arm"
      /\ \A u \in Task : u # t => pc'[u] = pc[u]
  BY DEF TypeInv, Tasks, SendStep, At, Goto
<1>3. wait' = wait /\ Running' = Running /\ rx' = rx /\ real' = real
  BY DEF SendStep, probe, Running
<1>4. wait = "none" /\ pc["sys"] # "arm" /\ pc["ui"] # "arm"
  BY <1>2 DEF TurnInv, UiTurn, TouchInv, SysWaits
<1>5. PICK x : /\ tx' = Append(tx, x) /\ (x = 0 \/ x = touches')
               /\ (todo'[t] = "probe" => x # 0)
  <2>1. touches \in Nat
    BY DEF TypeInv, Numbers
  <2>2. CASE todo'[t] = "probe"
    <3>1. tx' = Append(tx, touches') /\ touches' = touches + 1
      BY <2>2 DEF SendStep
    <3>2. touches' # 0
      BY <2>1, <3>1
    <3> QED BY <3>1, <3>2
  <2>3. CASE todo'[t] # "probe"
    BY <2>3 DEF SendStep
  <2> QED BY <2>2, <2>3
<1>6. Reports' /\ UnderWay' /\ NoPrbIn(rx') /\ tx' # <<>> /\ Head(tx') = x
  BY <1>1, <1>3, <1>5, FirstSent
<1>7. Told' /\ SysWaits'
  BY <1>3, <1>4, <1>6 DEF Told, SysWaits
<1>8. Touching' => todo'[t] = "probe"
  BY <1>2, <1>3, <1>4 DEF Touching, Asked
<1>9. Touch'
  BY <1>5, <1>6, <1>8 DEF Touch
<1> QED BY <1>6, <1>7, <1>9 DEF TouchInv

LEMMA ArmMeasured ==
  ASSUME TypeInv, TurnInv, TouchInv, NEW t \in Task, ArmStep(t)
  PROVE  TouchInv'
<1> USE Labels
<1>1. tx' = tx /\ rx' = rx /\ real' = real /\ touches' = touches /\ pos' = pos /\ last' = last
      /\ pending' = pending
  BY DEF ArmStep, link, parsed, syncing
<1>2. /\ pc[t] = "arm" /\ pc'[t] \in {"sync", "rest"} /\ (t = "ui" => pc'[t] = "rest")
      /\ \A u \in Task : u # t => pc'[u] = pc[u] /\ pc[u] # "arm"
  <2>1. pc[t] = "arm" /\ pc'[t] = Then(t) /\ \A u \in Task : u # t => pc'[u] = pc[u]
    BY DEF TypeInv, Tasks, ArmStep, At, Goto
  <2>2. \A u \in Task : u # t => pc[u] # "arm"
    BY <2>1 DEF TurnInv, UiTurn
  <2> QED BY <2>1, <2>2 DEF Then
<1>3. (Running' => Running /\ ~got_ok' /\ wait' = todo[t]) /\ ~got_ok /\ wait = "none"
  <2>1. Running' => Running /\ ~got_ok' /\ wait' = todo[t]
    BY DEF ArmStep, Running
  <2> QED BY <1>2, <2>1 DEF TurnInv, UiTurn, SysTurn, TouchInv, SysWaits
<1>4. Touching' => Touching
  BY <1>2, <1>3 DEF Touching, Asked
<1>5. Touching' /\ Answered' => Answered
  BY <1>1, <1>2, <1>3 DEF Touching, Answered
<1>6. Touch'
  BY <1>1, <1>4, <1>5 DEF TouchInv, Touch
<1>7. pc'["sys"] \notin {"send", "arm"}
  BY <1>2 DEF TurnInv, UiTurn
<1>8. Told'
  <2>1. ~(Running' /\ got_ok')
    BY <1>3
  <2>2. Writing' => Writing
    BY <1>2 DEF Writing
  <2>3. ~pending /\ pc'["sys"] \in {"sync", "rest", pc["sys"]}
    BY <1>2 DEF TurnInv, Apart
  <2>4. Due' => Due
    BY <1>1, <2>3 DEF Due, HeardOk
  <2> QED BY <1>1, <2>1, <2>2, <2>4 DEF TouchInv, Told
<1>9. Reports' /\ UnderWay' /\ SysWaits'
  BY <1>1, <1>7 DEF TouchInv, Reports, UnderWay, SysWaits
<1> QED BY <1>6, <1>8, <1>9 DEF TouchInv

LEMMA UiMeasured ==
  ASSUME TypeInv, TurnInv, TouchInv, trouble = "none",
         (\E c \in Cycles : Start(c)) \/ Cancel \/ SyncStart \/ SyncFirst \/ Mdi
  PROVE  TouchInv'
<1> USE Labels
<1>1. CASE (\E c \in Cycles : Start(c)) \/ SyncStart
  <2>1. /\ Quiet /\ tx' = tx /\ rx' = rx /\ real' = real /\ touches' = touches
        /\ pc'["sys"] = pc["sys"] /\ ((pc'["ui"] = "send" /\ wait' = "none") \/ ~Running')
    <3>1. CASE \E c \in Cycles : Start(c)
      BY <1>1, <3>1 DEF TypeInv, Tasks, Start, Goto, link
    <3>2. CASE SyncStart
      BY <1>1, <3>2 DEF TypeInv, Tasks, SyncStart, Goto, link, probe, Running
    <3> QED BY <1>1, <3>1, <3>2
  <2>2. tx = <<>> /\ Len(rx) = 0 /\ pc["sys"] = "rest"
    BY <2>1 DEF Quiet
  <2>3. Reports' /\ Told'
    BY <2>1, <2>2 DEF Reports, OkLast, Of, Told, NoPrbIn
  <2>4. UnderWay' /\ SysWaits'
    BY <2>1, <2>2 DEF TouchInv, UnderWay, SysWaits
  <2>5. ~Touching'
    BY <2>1, <2>2 DEF Touching, Asked
  <2> QED BY <2>3, <2>4, <2>5 DEF TouchInv, Touch
<1>2. CASE SyncFirst
  <2>1. pc["ui"] = "first" /\ pc'["ui"] = "rest" /\ pc'["sys"] = pc["sys"]
    BY <1>2 DEF TypeInv, Tasks, SyncFirst, At, Goto
  <2>2. Clear /\ NoPrbIn(rx) /\ ~Running
    BY <2>1 DEF TurnInv, Permit, Apart, UiTurn, TouchInv, Told, Writing
  <2>3. tx' = Append(tx, 0) /\ rx' = rx /\ real' = real /\ wait' = wait /\ Running' = Running
    BY <1>2 DEF SyncFirst, probe, Running
  <2>4. Reports' /\ UnderWay' /\ NoPrbIn(rx')
    BY <2>2, <2>3, FirstSent
  <2> QED BY <2>1, <2>2, <2>3, <2>4 DEF TouchInv, Told, SysWaits, Touch, Touching
<1>3. CASE Cancel \/ Mdi
  BY <1>3 DEF Cancel, Mdi
<1> QED BY <1>1, <1>2, <1>3

(* A chunk with a report of the touch puts its position in the status; one *)
(* that ends with the ok leaves no report of it behind.                    *)
LEMMA FeedMeasured ==
  ASSUME TypeInv, TurnInv, TouchInv, trouble = "none", NEW n \in 0..Len(rx), Feed(n)
  PROVE  TouchInv'
<1> USE Labels
<1> DEFINE t == SubSeq(rx, n + 1, Len(rx))
           I == Seen({"prb"}, n)
<1>1. n \in 1..Len(rx) /\ rx \in Seq(Heard(touches))
  BY TxTyped DEF TypeInv, Lines, Feed
<1>2. rx' = t /\ last' = rx[n].ev /\ pos' = IF I = {} THEN pos ELSE rx[Latest(I)].id
  BY <1>1 DEF Feed
<1>3. tx' = tx /\ real' = real /\ touches' = touches /\ got_ok' = got_ok /\ wait' = wait
      /\ Running' = Running /\ pending' = pending /\ todo' = todo
  BY DEF Feed, probe, syncing, Running
<1>4. /\ pc["sys"] = "rest" /\ pc'["ui"] = pc["ui"] /\ pc'["sys"] \in {"event", "sync"}
  BY DEF TypeInv, Tasks, Feed, At, Goto
<1>5. /\ OkLast(t) /\ Of(touches, t) /\ (NoPrbIn(rx) => NoPrbIn(t)) /\ (NoOkIn(rx) => NoOkIn(t))
      /\ (rx[n].ev = "ok" => NoPrbIn(t))
      /\ ((\A i \in 1..n : rx[i].ev # "prb") /\ NoPrbIn(t) => NoPrbIn(rx))
  BY <1>1, FedPrb DEF TouchInv, Reports
<1> HIDE DEF t
<1>6. rx[n].ev = "ok" => ~NoOkIn(rx)
  BY <1>1 DEF NoOkIn
<1>7. I = {} => \A i \in 1..n : rx[i].ev # "prb"
  BY DEF Seen
<1>8. I # {} => rx[Latest(I)].id = touches
  <2>1. n \in Nat /\ I \in SUBSET (1..n) /\ \A i \in I : i \in 1..Len(rx) /\ rx[i].ev = "prb"
    BY <1>1 DEF Seen
  <2> HIDE DEF I
  <2>2. I # {} => Latest(I) \in I
    BY <2>1, Greatest
  <2> QED BY <2>1, <2>2 DEF TouchInv, Reports, Of
<1> HIDE DEF I
<1>9. Told'
  BY <1>2, <1>3, <1>4, <1>5 DEF TouchInv, Told, Writing, Due, HeardOk
<1>10. Touching' => Touching
  BY <1>3, <1>4 DEF Touching, Asked
<1>11. Answered' \/ ~NoOkIn(rx') => Answered \/ ~NoOkIn(rx)
  BY <1>2, <1>3, <1>5, <1>6 DEF Answered
<1>12. pos = touches \/ ~NoPrbIn(rx) => pos' = touches' \/ ~NoPrbIn(rx')
  BY <1>2, <1>3, <1>5, <1>7, <1>8
<1>13. Touch'
  BY <1>3, <1>10, <1>11, <1>12 DEF TouchInv, Touch
<1>14. Reports' /\ UnderWay' /\ SysWaits'
  BY <1>2, <1>3, <1>4, <1>5 DEF TouchInv, Reports, UnderWay, SysWaits
<1> QED BY <1>9, <1>13, <1>14 DEF TouchInv

LEMMA EventMeasured ==
  ASSUME TypeInv, TurnInv, TouchInv, Event
  PROVE  TouchInv'
<1> USE Labels
<1>1. tx' = tx /\ rx' = rx /\ real' = real /\ touches' = touches /\ pos' = pos /\ last' = last
      /\ pending' = pending /\ todo' = todo
  BY DEF Event, EventOk, EventTouched, EventMissed, EventWaits, EventFails, EventOther, eventFrame,
     link, parsed, syncing
<1>2. pc["sys"] = "event" /\ pc'["ui"] = pc["ui"] /\ pc'["sys"] \in {"send", "sync"}
  <2>1. /\ pc["sys"] = "event"
        /\ \E l \in {"send", "sync"} : pc' = [pc EXCEPT !["sys"] = l]
    BY DEF Event, EventOk, EventTouched, EventMissed, EventWaits, EventFails, EventOther, Hears,
       At, Step, Stay, Goto
  <2> QED BY <2>1 DEF TypeInv, Tasks
<1>3. Writing' => Writing \/ pc'["sys"] = "send"
  BY <1>2 DEF Writing
<1>4. Due' => Due
  BY <1>1, <1>2 DEF Due, HeardOk
<1>5. Reports' /\ UnderWay'
  BY <1>1 DEF TouchInv, Reports, UnderWay
<1>6. CASE EventOk \/ EventTouched
  <2>1. Running /\ wait # "none" /\ (last = "ok" \/ got_ok) /\ wait' = "none"
    BY <1>6 DEF EventOk, EventTouched, Hears, Answers, Got, Step
  <2>2. NoPrbIn(rx) /\ pc["ui"] \notin {"send", "arm"}
    BY <1>2, <2>1 DEF TurnInv, UiTurn, TouchInv, Told, Due, HeardOk
  <2>3. ~Touching'
    BY <1>2, <2>1, <2>2 DEF Touching, Asked
  <2> QED BY <1>1, <1>5, <2>1, <2>2, <2>3 DEF TouchInv, Told, SysWaits, Touch
<1>7. CASE ~(EventOk \/ EventTouched)
  <2>1. /\ pc'["sys"] = "sync" /\ (Running' => Running /\ wait' = wait)
        /\ (Running' /\ got_ok' => got_ok \/ last = "ok")
    <3>1. pc'["sys"] = "sync"
      BY <1>7 DEF TypeInv, Tasks, Event, EventMissed, EventWaits, EventFails, EventOther, Stay, Goto
    <3>2. Running' => phase' = phase /\ wait' = wait
      BY <1>7 DEF Event, EventMissed, EventWaits, EventFails, EventOther, Stay, Fail, Running
    <3>3. Running' /\ got_ok' => got_ok \/ last = "ok"
      <4>1. CASE EventWaits
        <5>1. got_ok' = Got
          BY <4>1 DEF EventWaits
        <5> QED BY <5>1 DEF Got
      <4>2. CASE EventMissed \/ EventFails
        BY <4>2 DEF EventMissed, EventFails, Fail, Running
      <4>3. CASE EventOther
        BY <4>3 DEF EventOther
      <4> QED BY <1>7, <4>1, <4>2, <4>3 DEF Event
    <3> QED BY <3>1, <3>2, <3>3 DEF Running
  <2>2. Told'
    BY <1>1, <1>2, <1>3, <1>4, <2>1 DEF TouchInv, Told, Due, HeardOk
  <2>3. (Touching' => Touching) /\ (Touching' /\ Answered' => Answered)
    BY <1>1, <1>2, <2>1 DEF Touching, Asked, Answered
  <2>4. Touch' /\ SysWaits'
    BY <1>1, <2>1, <2>3 DEF TouchInv, Touch, SysWaits
  <2> QED BY <1>5, <2>2, <2>4 DEF TouchInv
<1> QED BY <1>6, <1>7

LEMMA SyncMeasured ==
  ASSUME TypeInv, TurnInv, TouchInv, Sync
  PROVE  TouchInv'
<1> USE Labels
<1>1. pc["sys"] = "sync" /\ pc'["sys"] = "poll" /\ pc'["ui"] = pc["ui"]
  BY DEF TypeInv, Tasks, Sync, At, Goto
<1>2. /\ last' = last /\ got_ok' = got_ok /\ wait' = wait /\ Running' = Running /\ rx' = rx
      /\ real' = real /\ touches' = touches /\ pos' = pos /\ todo' = todo
  BY DEF Sync, probe, parsed, Running
<1>3. (Writing' => Writing) /\ ~Due' /\ (Touching' => Touching) /\ (Answered' => Answered)
  BY <1>1, <1>2 DEF Writing, Due, HeardOk, Touching, Asked, Answered
<1>4. Told' /\ SysWaits'
  BY <1>1, <1>2, <1>3 DEF TouchInv, Told, SysWaits
<1>5. CASE tx' = tx
  <2>1. Reports' /\ UnderWay' /\ Touch'
    BY <1>2, <1>3, <1>5 DEF TouchInv, Reports, UnderWay, Touch
  <2> QED BY <1>4, <2>1 DEF TouchInv
<1>6. CASE tx' # tx
  <2>1. tx' = Append(tx, 0) /\ pending /\ last = "ok"
    BY <1>6 DEF Sync, SyncDue, syncing
  <2>2. Clear /\ NoPrbIn(rx) /\ ~Running
    BY <1>1, <2>1 DEF TurnInv, Permit, Due, HeardOk, Apart, TouchInv, Told
  <2>3. Reports' /\ UnderWay'
    BY <1>2, <2>1, <2>2, FirstSent
  <2>4. ~Touching'
    BY <1>2, <2>2 DEF Touching
  <2> QED BY <1>4, <2>3, <2>4 DEF TouchInv, Touch
<1> QED BY <1>5, <1>6

LEMMA PollMeasured ==
  ASSUME TypeInv, TurnInv, TouchInv, Poll
  PROVE  TouchInv'
<1> USE Labels
<1>1. pc["sys"] \in {"rest", "poll"} /\ pc'["sys"] = "rest" /\ pc'["ui"] = pc["ui"]
  BY DEF TypeInv, Tasks, Poll, Goto
<1>2. /\ tx' = tx /\ rx' = rx /\ real' = real /\ touches' = touches /\ pos' = pos
      /\ last' = last /\ got_ok' = got_ok /\ todo' = todo
  BY DEF Poll, parsed, link
<1>3. Running' => Running /\ wait' = wait
  BY DEF Poll, Fail, Running
<1>4. (Writing' => Writing) /\ ~Due' /\ (Touching' => Touching)
      /\ (Touching' /\ Answered' => Answered)
  BY <1>1, <1>2, <1>3 DEF Writing, Due, HeardOk, Touching, Asked, Answered
<1>5. Reports' /\ UnderWay' /\ SysWaits'
  BY <1>1, <1>2 DEF TouchInv, Reports, UnderWay, SysWaits
<1>6. Told' /\ Touch'
  BY <1>2, <1>3, <1>4 DEF TouchInv, Told, Touch
<1> QED BY <1>5, <1>6 DEF TouchInv

(* The controller puts the position of a touch before its ok, and it is at *)
(* a touch only as long as the line of one is unanswered.                  *)
LEMMA ControllerMeasured ==
  ASSUME TypeInv, TurnInv, TouchInv, trouble = "none", Controller
  PROVE  TouchInv'
<1> USE Labels
<1> DEFINE H == Heard(touches)
<1>1. ctlFrame' = ctlFrame
  BY DEF Controller, CtlLine, CtlTouch, CtlContact, CtlMiss, CtlReport, CtlUnlock, Lose
<1>2. /\ rx \in Seq(H)
      /\ (tx # <<>> => Head(tx) \in 0..touches /\ Tail(tx) = <<>> /\ NoOkIn(rx))
  <2>1. tx \in Seq(0..touches) /\ Len(tx) <= 1
    BY DEF TypeInv, Lines, TurnInv, OneLine
  <2>2. tx # <<>> => Head(tx) \in 0..touches
    BY <2>1, Taken
  <2>3. tx # <<>> => Tail(tx) = <<>>
    BY <2>1
  <2> QED BY <2>2, <2>3 DEF TypeInv, Lines, TurnInv, OneLine
<1>3. real' \in Machine
  BY DEF TypeInv, Base, Status, Machine, Controller, CtlLine, CtlTouch, CtlContact, CtlMiss,
     CtlReport, CtlUnlock, Lose
<1>4. \A ev \in {"ok", "err", "alarm", "report"} : Says(ev) \in H /\ Says(ev).ev = ev
  BY <1>3 DEF TypeInv, Numbers, Says, Heard
<1>5. tx # <<>> => \A hit \in BOOLEAN : /\ Prb(hit) \in H /\ Prb(hit).ev = "prb"
                                        /\ Prb(hit).id = Head(tx)
  BY <1>2, <1>3 DEF Prb, Heard
<1>6. /\ OkLast(rx) /\ Of(touches, rx) /\ (tx # <<>> => Head(tx) = 0 \/ Head(tx) = touches)
      /\ (real = "run" => tx # <<>> /\ Head(tx) = touches /\ Head(tx) # 0)
  BY DEF TouchInv, Reports, UnderWay
<1> HIDE DEF H
<1>7. /\ OkLast(rx') /\ Of(touches, rx')
      /\ tx = <<>> => tx' = <<>> /\ (NoPrbIn(rx) <=> NoPrbIn(rx')) /\ (NoOkIn(rx) <=> NoOkIn(rx'))
      /\ tx # <<>> /\ Head(tx) # 0 => NoOkIn(rx') \/ ~NoPrbIn(rx')
      /\ tx' = tx \/ tx' = <<>>
      /\ real' = "run" => tx' = tx /\ tx # <<>> /\ Head(tx) # 0
  <2>1. CASE CtlLine
    BY <2>1, <1>2, <1>4, <1>6, AppendedPrb DEF CtlLine
  <2>2. CASE CtlTouch
    <3>1. CASE tx' = tx /\ rx' = rx
      BY <2>2, <3>1, <1>2, <1>6 DEF CtlTouch
    <3>2. CASE tx' = Tail(tx) /\ real' = real /\ real # "run" /\ rx' = Append(rx, Says("err"))
      BY <2>2, <3>2, <1>2, <1>4, <1>6, AppendedPrb DEF CtlTouch
    <3> QED BY <2>2, <3>1, <3>2 DEF CtlTouch
  <2>3. CASE CtlContact
    <3>0. tx # <<>> /\ tx' = <<>> /\ real' = "idle" /\ Prb(TRUE) \in H /\ Says("ok") \in H
          /\ rx' = rx \o <<Prb(TRUE), Says("ok")>>
      BY <2>3, <1>2, <1>4, <1>5, <1>6 DEF CtlContact
    <3>1. OkLast(rx') /\ Of(touches, rx') /\ ~NoPrbIn(rx')
      BY <2>3, <3>0, <1>2, <1>4, <1>5, <1>6, JoinedPrb DEF CtlContact
    <3> QED BY <3>0, <3>1
  <2>4. CASE CtlMiss
    <3>1. /\ tx # <<>> /\ tx' = <<>> /\ real' = "alarm" /\ Head(tx) = touches
          /\ Prb(FALSE) \in H /\ Says("alarm") \in H /\ Says("ok") \in H
      BY <2>4, <1>2, <1>4, <1>5, <1>6 DEF CtlMiss
    <3>2. OkLast(rx') /\ Of(touches, rx') /\ ~NoPrbIn(rx')
      <4>1. CASE rx' = rx \o <<Prb(FALSE), Says("alarm")>>
        BY <3>1, <4>1, <1>2, <1>4, <1>5, <1>6, JoinedPrb
      <4>2. CASE rx' = rx \o <<Says("alarm"), Prb(FALSE), Says("ok")>>
        BY <3>1, <4>2, <1>2, <1>4, <1>5, <1>6, JoinedPrb
      <4> QED BY <2>4, <4>1, <4>2 DEF CtlMiss
    <3> QED BY <3>1, <3>2
  <2>5. CASE CtlReport
    BY <2>5, <1>2, <1>4, <1>6, AppendedPrb DEF CtlReport
  <2>6. CASE CtlUnlock
    BY <2>6, <1>6 DEF CtlUnlock
  <2>7. CASE Lose
    BY <2>7 DEF Lose
  <2> QED BY <2>1, <2>2, <2>3, <2>4, <2>5, <2>6, <2>7 DEF Controller
<1>8. /\ pc' = pc /\ todo' = todo /\ last' = last /\ pending' = pending /\ got_ok' = got_ok
      /\ wait' = wait /\ Running' = Running /\ pos' = pos /\ touches' = touches
  BY <1>1 DEF ctlFrame, probe, parsed, syncing, tasks, Running
<1>9. Reports' /\ UnderWay' /\ SysWaits'
  BY <1>6, <1>7, <1>8 DEF TouchInv, Reports, UnderWay, SysWaits
<1>10. Writing \/ Due \/ (Running /\ got_ok) => tx = <<>> /\ NoPrbIn(rx)
  BY DEF TurnInv, Permit, Clear, TouchInv, Told
<1>11. Told'
  BY <1>7, <1>8, <1>10 DEF Told, Writing, Due, HeardOk
<1>12. Touch'
  <2>1. Touching' = Touching /\ Answered' = Answered
    BY <1>8 DEF Touching, Asked, Answered
  <2>2. SUFFICES ASSUME Touching
        PROVE  /\ tx' # <<>> => Head(tx') # 0
               /\ tx' = <<>> /\ (Answered \/ ~NoOkIn(rx')) => pos = touches \/ ~NoPrbIn(rx')
    BY <1>8, <2>1 DEF Touch
  <2>3. tx # <<>> => Head(tx) # 0
    BY <2>2 DEF TouchInv, Touch
  <2>4. Answered => tx = <<>>
    BY <2>2, <1>10 DEF Answered, Touching, Due, HeardOk
  <2>5. CASE tx = <<>>
    BY <2>2, <2>5, <1>7 DEF TouchInv, Touch
  <2>6. CASE tx # <<>>
    BY <2>3, <2>4, <2>6, <1>7
  <2> QED BY <2>5, <2>6
<1> QED BY <1>9, <1>11, <1>12 DEF TouchInv

LEMMA MeasuredStep ==
  TypeInv /\ Orderly /\ Measured /\ [Next]_vars => Measured'
<1> SUFFICES ASSUME TypeInv, Orderly, Measured, [Next]_vars, trouble' = "none" PROVE TouchInv'
  BY DEF Measured
<1>1. CASE UNCHANGED vars
  <2>1. trouble = "none"
    BY <1>1 DEF vars, bounds
  <2>2. TouchInv
    BY <2>1 DEF Measured
  <2>3. pc' = pc /\ todo' = todo /\ last' = last /\ pending' = pending /\ got_ok' = got_ok
        /\ wait' = wait /\ Running' = Running /\ pos' = pos
    BY <1>1 DEF vars, probe, parsed, syncing, tasks, Running
  <2>4. tx' = tx /\ rx' = rx /\ real' = real /\ touches' = touches
    BY <1>1 DEF vars, link
  <2>5. Touching' = Touching /\ Answered' = Answered /\ Writing' = Writing /\ Due' = Due
    BY <2>3 DEF Touching, Asked, Answered, Writing, Due, HeardOk
  <2>6. Reports' /\ UnderWay' /\ SysWaits'
    BY <2>2, <2>3, <2>4 DEF TouchInv, Reports, UnderWay, SysWaits
  <2>7. Told' /\ Touch'
    BY <2>2, <2>3, <2>4, <2>5 DEF TouchInv, Told, Touch
  <2> QED BY <2>6, <2>7 DEF TouchInv
<1>2. CASE Next
  <2>1. trouble = "none"
    BY <1>2 DEF Next, Sys, Feed, Event, EventOk, EventTouched, EventMissed, EventWaits, EventFails,
       EventOther, eventFrame, SendStep, ArmStep, Sync, Poll, Handler, SyncFirst, Cancel, SyncStart,
       Mdi, Start, Controller, CtlLine, CtlTouch, CtlContact, CtlMiss, CtlReport, CtlUnlock, Lose,
       ctlFrame, bounds
  <2>2. TurnInv /\ TouchInv
    BY <2>1 DEF Orderly, Measured
  <2>3. CASE Sys
    BY <2>1, <2>2, <2>3, Labels, FeedMeasured, EventMeasured, SendMeasured, ArmMeasured,
       SyncMeasured, PollMeasured DEF Sys
  <2>4. CASE Handler
    BY <2>1, <2>2, <2>4, Labels, SendMeasured, ArmMeasured, UiMeasured DEF Handler
  <2>5. CASE Cancel \/ SyncStart \/ Mdi \/ \E c \in Cycles : Start(c)
    BY <2>1, <2>2, <2>5, UiMeasured
  <2>6. CASE Controller
    BY <2>1, <2>2, <2>6, ControllerMeasured
  <2> QED BY <1>2, <2>3, <2>4, <2>5, <2>6 DEF Next
<1> QED BY <1>1, <1>2

(* The position that captureProbe takes for a touch is the one of that     *)
(* touch, for cycles of any length and however the controller's lines fall *)
(* into chunks that each end one, although onEvent never clears            *)
(* probe_fresh in the parser: what keeps an earlier touch's position out   *)
(* is that got_ok is cleared when the wait is armed, and that no ok but    *)
(* the touch's own can arrive before the wait is over.                     *)
THEOREM ReadsItsOwnTouch == Spec => ReadbackIsOwn
<1>1. Spec => [](TypeInv /\ Orderly /\ Measured)
  <2>1. TypeInv /\ Orderly /\ Measured /\ [Next]_vars => TypeInv' /\ Orderly' /\ Measured'
    BY TypeStep, TurnStep, MeasuredStep
  <2> QED BY <2>1, TypeInit, TurnInit, MeasuredInit, PTL DEF Spec
<1>2. TypeInv /\ Orderly /\ Measured /\ [Next]_vars =>
        [Captures /\ trouble = "none" => pos = touches]_vars
  <2> SUFFICES ASSUME TypeInv, Orderly, Measured, Next, Captures, trouble = "none"
      PROVE  pos = touches
    OBVIOUS
  <2>1. step \in Nat /\ step # 0 /\ step' # step /\ wait = "probe" /\ TurnInv /\ TouchInv
    BY Shapes DEF TypeInv, Steps, Captures, Orderly, Measured
  <2>2. EventOk \/ EventTouched
    BY <2>1 DEF Next, Sys, Feed, Event, EventMissed, EventWaits, EventFails, EventOther, Stay,
       eventFrame, SendStep, ArmStep, Sync, Poll, Handler, SyncFirst, Cancel, SyncStart, Mdi, Start,
       Captures, Controller, CtlLine, CtlTouch, CtlContact, CtlMiss, CtlReport, CtlUnlock, Lose,
       ctlFrame, probe
  <2>3. Running /\ Answered /\ pc["sys"] = "event"
    BY <2>1, <2>2 DEF EventOk, EventTouched, Hears, Answers, Got, Answered, At
  <2>4. tx = <<>> /\ NoPrbIn(rx)
    BY <2>1, <2>3 DEF Answered, TurnInv, Permit, Clear, TouchInv, Told, Due, HeardOk
  <2>5. Touching
    BY <2>1, <2>3 DEF Touching
  <2> QED BY <2>1, <2>3, <2>4, <2>5 DEF TouchInv, Touch
<1> QED BY <1>1, <1>2, PTL DEF Spec, ReadbackIsOwn
=============================================================================
