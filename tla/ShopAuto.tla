------------------------------ MODULE ShopAuto ------------------------------
(***************************************************************************)
(* The shop automation of zb_automation.c: blast gates (covers) and vacuum *)
(* plugs (switches) that follow the machine, plugs that are on while it    *)
(* rests, lamps that only the Idle scene turns up, the four scenes of the  *)
(* quick settings, and the poll of the zb_auto task that ties the two.     *)
(*                                                                         *)
(* A tick of the clock is GATE_LEAD_US (500 ms); the poll limits itself to *)
(* one pass in PollPeriod ticks.  Timers are kept as the ticks that remain *)
(* until they are due, so that the model needs no bound on time.           *)
(* Brightness, colour, power sampling and wording are left out; the device *)
(* registry and the modes are fixed.                                       *)
(*                                                                         *)
(* A pass over the devices puts one command for each of them into the      *)
(* queue of the Zigbee link, and its worker carries them out one by one,   *)
(* while poll and scenes go on.  What is queued is kept as the states that *)
(* the passes lead to, one after the other.                                *)
(***************************************************************************)
EXTENDS Sequences, Integers

CONSTANTS
  Gates, Vacs,  (* covers and plain switches in mode FOLLOW                *)
  Rest,         (* switches in mode INVERSE                                *)
  Lamps,        (* dimmable lights in mode OFF                             *)
  OffDelay,     (* zb_off_s in ticks                                       *)
  Scenes,       (* the scenes the user taps                                *)
  MaxScenes,    (* bound on their number                                   *)
  Troubles      (* what may be out of the ordinary: "none"; "cleanup", the *)
                (* Cleanup scene is used; "late", commands and reports of  *)
                (* switches are still under way when the next pass begins; *)
                (* "drop", the hub is at times out of reach; "mid", scenes *)
                (* fall into polls, and polls follow on scenes at once     *)

Switches == Vacs \cup Rest
Device == Gates \cup Switches \cup Lamps
GateLead == 1
PollPeriod == 2
None == -1

ASSUME ShopAssumption ==
  /\ OffDelay \in Nat /\ MaxScenes \in Nat
  /\ Scenes \subseteq {"cut", "cleanup", "idle", "emergency"}
  /\ Troubles \subseteq {"none", "cleanup", "late", "drop", "mid"}
  /\ Gates \cap (Switches \cup Lamps) = {} /\ Vacs \cap (Rest \cup Lamps) = {}
  /\ Rest \cap Lamps = {}

VARIABLES
  on,           (* Device -> is it on (a gate: open)?                      *)
  known,        (* the registry's d.on of the switches                     *)
  cmds,         (* the states that the queued passes lead to               *)
  missed,       (* has a device not been sent the command it needed?       *)
  reach,        (* can_control: link up and joined                         *)
  cnc,          (* the machine: idle, run, hold, or halt for ALARM, DOOR   *)
                (* and no connection                                       *)
  pct,          (* progress of its job: 0 no job, 1 under way, 2 >= 99 %   *)
  pc,           (* how far the poll in progress is                         *)
  nextPoll,     (* s_next_us                                               *)
  vacArm,       (* s_vac_arm_us                                            *)
  gateClose,    (* s_gate_close_us                                         *)
  active,       (* s_last_active                                           *)
  stopSeen,     (* s_stop_seen_us, as the ticks since                      *)
  armed,        (* s_job_armed                                             *)
  peak,         (* s_job_peak_pct                                          *)
  asked,        (* the scene tapped since the poll last saw a run begin    *)
  saw,          (* what the last complete poll saw of the machine          *)
  scenes,       (* scenes tapped so far                                    *)
  trouble       (* the trouble this behaviour may have                     *)

devices == <<on, known, cmds, missed>>
env == <<reach, cnc, pct, trouble>>
timers == <<vacArm, gateClose>>
follow == <<active, stopSeen>>
job == <<armed, peak>>
ghost == <<asked, scenes>>
vars == <<devices, env, pc, nextPoll, timers, follow, job, ghost, saw>>

Init ==
  /\ on = [d \in Device |-> d \in Rest] /\ known = [d \in Switches |-> on[d]]
  /\ cmds = <<>> /\ missed = FALSE
  /\ reach = TRUE /\ cnc = "halt" /\ pct = 0
  /\ pc = "rest" /\ nextPoll = 0
  /\ vacArm = None /\ gateClose = None
  /\ active = FALSE /\ stopSeen = None /\ armed = FALSE /\ peak = 0
  /\ asked = "none" /\ saw = "halt" /\ scenes = 0 /\ trouble \in Troubles

-----------------------------------------------------------------------------
(* What the device's mode asks of it while the machine is, or is not, busy *)
Want(d, busy) == IF d \in Rest THEN ~busy ELSE busy

(* drive_device: a cover is always commanded, a switch only when its last  *)
(* report differs.                                                         *)
Commanded(busy, which) ==
  {d \in which : d \in Gates \/ known[d] # Want(d, busy)}

(* The state of the devices when all that is queued has been carried out   *)
Final == IF cmds = <<>> THEN on ELSE cmds[Len(cmds)]

(* A pass queues the commands that make the devices `state`, where `wish`  *)
(* is what it is for.                                                      *)
Queue(state, wish) ==
  /\ cmds' = IF state = Final THEN cmds ELSE Append(cmds, state)
  /\ missed' = (missed \/ state # wish)
  /\ UNCHANGED <<on, known>>

Wished(busy, which) == [d \in Device |-> IF d \in which THEN Want(d, busy) ELSE Final[d]]

Driven(busy, which) == [d \in Device |->
  IF reach /\ d \in Commanded(busy, which) THEN Want(d, busy) ELSE Final[d]]

Apply(busy, which) == Queue(Driven(busy, which), Wished(busy, which))

AllOff == [d \in Device |-> FALSE]

ForceAllOff ==
  /\ Queue(IF reach THEN AllOff ELSE Final, AllOff)
  /\ vacArm' = None /\ gateClose' = None

(* Mutant: Cut leaves a pending gate close armed.                          *)
MutCut ==
  /\ Apply(TRUE, Gates) /\ vacArm' = GateLead /\ UNCHANGED gateClose
Cut == Apply(TRUE, Gates) /\ vacArm' = GateLead /\ gateClose' = None

Cleanup == Apply(TRUE, Gates \cup Switches) /\ vacArm' = None /\ UNCHANGED gateClose

IdleScene ==
  /\ Queue([d \in Device |-> Driven(FALSE, Switches)[d] \/ (reach /\ d \in Lamps)],
           [d \in Device |-> Wished(FALSE, Switches)[d] \/ d \in Lamps])
  /\ vacArm' = None /\ gateClose' = GateLead

(* Every command is carried out, and reported by its switch.               *)
Settled == cmds = <<>> /\ known = [d \in Switches |-> on[d]]

(* modulus_zb_scene_apply, from the quick settings or a recipe             *)
Scene(name, effect) ==
  /\ name \in Scenes /\ scenes < MaxScenes
  /\ \/ pc = "rest" /\ (Settled \/ trouble = "late")
     \/ trouble = "mid"
  /\ name = "cleanup" => trouble = "cleanup"
  /\ effect
  /\ asked' = name /\ scenes' = scenes + 1
  /\ UNCHANGED <<env, pc, nextPoll, follow, job, saw>>

SceneCut == Scene("cut", Cut)
SceneCleanup == Scene("cleanup", Cleanup)
SceneIdle == Scene("idle", IdleScene)
SceneEmergency == Scene("emergency", ForceAllOff)

-----------------------------------------------------------------------------
(* modulus_zb_auto_poll.  Everything up to a command is one step, so that  *)
(* a scene of the UI task may come between the two.                        *)
PollVac ==
  /\ pc = "rest" /\ nextPoll = 0 /\ nextPoll' = PollPeriod
  /\ Settled \/ trouble \in {"late", "mid"}
  /\ IF vacArm = 0 THEN vacArm' = None /\ pc' = "vac" ELSE pc' = "gate" /\ UNCHANGED vacArm
  /\ UNCHANGED <<devices, env, gateClose, follow, job, ghost, saw>>

PollVacOn ==
  /\ pc = "vac" /\ pc' = "gate"
  /\ Apply(TRUE, Switches)
  /\ UNCHANGED <<env, nextPoll, timers, follow, job, ghost, saw>>

PollGate ==
  /\ pc = "gate"
  /\ IF gateClose = 0 THEN gateClose' = None /\ pc' = "close"
     ELSE pc' = "status" /\ UNCHANGED gateClose
  /\ UNCHANGED <<devices, env, nextPoll, vacArm, follow, job, ghost, saw>>

PollGateClose ==
  /\ pc = "close" /\ pc' = "status"
  /\ Apply(FALSE, Gates)
  /\ UNCHANGED <<env, nextPoll, timers, follow, job, ghost, saw>>

PollStatus ==
  /\ pc = "status" /\ pc' = "rest" /\ saw' = cnc
  /\ UNCHANGED <<env, nextPoll, scenes>>

Busy == cnc \in {"run", "hold"}

(* Mutant: an alarm while the vacuum runs on after a stop is overlooked.   *)
MutPollHalt ==
  /\ PollStatus /\ cnc = "halt"
  /\ IF active /\ stopSeen = None
     THEN /\ active' = FALSE /\ stopSeen' = None /\ armed' = FALSE
          /\ ForceAllOff
     ELSE UNCHANGED <<active, stopSeen, armed, devices, timers>>
  /\ UNCHANGED <<peak, asked>>
(* ALARM, DOOR or no connection: everything off, unless nothing was on     *)
PollHalt ==
  /\ PollStatus /\ cnc = "halt"
  /\ IF active \/ stopSeen # None
     THEN /\ active' = FALSE /\ stopSeen' = None /\ armed' = FALSE
          /\ ForceAllOff
     ELSE UNCHANGED <<active, stopSeen, armed, devices, timers>>
  /\ UNCHANGED <<peak, asked>>

PollBusy ==
  /\ PollStatus /\ Busy
  /\ stopSeen' = None
  /\ armed' = (armed \/ pct > 0) /\ peak' = IF pct > peak THEN pct ELSE peak
  /\ active' = TRUE
  /\ IF active THEN UNCHANGED <<devices, timers, asked>> ELSE Cut /\ asked' = "none"

(* Mutant: a done job leaves s_last_active set.                            *)
MutPollJobDone ==
  /\ PollStatus /\ cnc = "idle" /\ active /\ stopSeen = None
  /\ armed /\ peak = 2
  /\ armed' = FALSE /\ peak' = 0
  /\ IdleScene
  /\ UNCHANGED <<active, stopSeen, asked>>
(* A stop is seen: either the job was done, or the run-on starts           *)
PollJobDone ==
  /\ PollStatus /\ cnc = "idle" /\ active /\ stopSeen = None
  /\ armed /\ peak = 2
  /\ active' = FALSE /\ armed' = FALSE /\ peak' = 0
  /\ IdleScene
  /\ UNCHANGED <<stopSeen, asked>>

PollStopSeen ==
  /\ PollStatus /\ cnc = "idle" /\ active /\ stopSeen = None
  /\ ~(armed /\ peak = 2)
  /\ stopSeen' = 0
  /\ UNCHANGED <<devices, timers, active, job, asked>>

(* Mutant: without a job the gates are left open.                          *)
MutPollRunOnEnds ==
  /\ PollStatus /\ cnc = "idle" /\ active /\ stopSeen = OffDelay
  /\ active' = FALSE /\ stopSeen' = None /\ armed' = FALSE
  /\ peak' = IF armed THEN 0 ELSE peak
  /\ IF armed THEN IdleScene
     ELSE Apply(FALSE, Switches) /\ vacArm' = None /\ UNCHANGED gateClose
  /\ UNCHANGED asked
PollRunOnEnds ==
  /\ PollStatus /\ cnc = "idle" /\ active /\ stopSeen = OffDelay
  /\ active' = FALSE /\ stopSeen' = None /\ armed' = FALSE
  /\ peak' = IF armed THEN 0 ELSE peak
  /\ IF armed THEN IdleScene
     ELSE Apply(FALSE, Switches) /\ vacArm' = None /\ gateClose' = GateLead
  /\ UNCHANGED asked

PollNothing ==
  /\ PollStatus /\ cnc = "idle"
  /\ ~active \/ stopSeen \in 0..OffDelay - 1
  /\ UNCHANGED <<devices, timers, follow, job, asked>>

Poll ==
  \/ PollVac \/ PollVacOn \/ PollGate \/ PollGateClose
  \/ PollHalt \/ PollBusy \/ PollJobDone \/ PollStopSeen \/ PollRunOnEnds
  \/ PollNothing

-----------------------------------------------------------------------------
(* The surroundings: the machine, the hub and the clock.  Nobody looks at  *)
(* the machine but the poll where it reads the status, so what happened to *)
(* it since the last time may as well happen there.                        *)
Machine ==
  /\ pc = "status"
  /\ \/ cnc' \in {"idle", "halt"} /\ UNCHANGED pct
     \/ ~Busy /\ cnc' = "run" /\ pct' \in {0, 1}
     \/ cnc = "run" /\ cnc' = "hold" /\ UNCHANGED pct
     \/ cnc = "hold" /\ cnc' = "run" /\ UNCHANGED pct
     \/ cnc = "run" /\ pct = 1 /\ pct' = 2 /\ UNCHANGED cnc
  /\ UNCHANGED <<devices, reach, trouble, pc, nextPoll, timers, follow, job, ghost, saw>>

(* What is still queued when the hub goes out of reach is given up.        *)
Hub ==
  /\ trouble = "drop" /\ reach' = ~reach
  /\ cmds' = <<>> /\ missed' = (missed \/ cmds # <<>>)
  /\ UNCHANGED <<on, known, cnc, pct, trouble, pc, nextPoll, timers, follow, job, ghost, saw>>

(* cmd_worker: the devices of a pass are commanded in the order of the     *)
(* registry, which is the one they were paired in: any.                    *)
Carry == \E d \in Device :
  /\ cmds # <<>> /\ on[d] # Head(cmds)[d]
  /\ on' = [on EXCEPT ![d] = Head(cmds)[d]]
  /\ cmds' = IF on' = Head(cmds) THEN Tail(cmds) ELSE cmds
  /\ UNCHANGED <<known, missed, env, pc, nextPoll, timers, follow, job, ghost, saw>>

(* modulus_wireless_zb_note_device_state                                   *)
Report == \E d \in Switches :
  /\ known[d] # on[d] /\ known' = [known EXCEPT ![d] = on[d]]
  /\ UNCHANGED <<on, cmds, missed, env, pc, nextPoll, timers, follow, job, ghost, saw>>

Down(t) == IF t > 0 THEN t - 1 ELSE t

(* A tick is long enough for the worker to empty its queue.                *)
Tick ==
  /\ pc = "rest" /\ cmds = <<>> /\ (Settled \/ trouble = "late")
  /\ nextPoll' = Down(nextPoll) /\ vacArm' = Down(vacArm) /\ gateClose' = Down(gateClose)
  /\ stopSeen' = IF stopSeen \in 0..OffDelay - 1 THEN stopSeen + 1 ELSE stopSeen
  /\ UNCHANGED <<devices, env, pc, active, job, ghost, saw>>

Next ==
  \/ Poll \/ SceneCut \/ SceneCleanup \/ SceneIdle \/ SceneEmergency
  \/ Machine \/ Hub \/ Carry \/ Report \/ Tick

Spec == Init /\ [][Next]_vars
(* The zb_auto task runs once a second and the worker whenever something   *)
(* is queued, and a switch reports what it does.                           *)
FairSpec ==
  Spec /\ WF_vars(Poll) /\ WF_vars(Tick) /\ WF_vars(Carry) /\ WF_vars(Report)

-----------------------------------------------------------------------------
TypeOK ==
  /\ on \in [Device -> BOOLEAN] /\ known \in [Switches -> BOOLEAN]
  /\ cmds \in Seq([Device -> BOOLEAN]) /\ missed \in BOOLEAN
  /\ reach \in BOOLEAN /\ cnc \in {"idle", "run", "hold", "halt"} /\ pct \in 0..2
  /\ pc \in {"rest", "vac", "gate", "close", "status"} /\ nextPoll \in 0..PollPeriod
  /\ {vacArm, gateClose} \subseteq None..GateLead /\ stopSeen \in None..OffDelay
  /\ active \in BOOLEAN /\ armed \in BOOLEAN /\ peak \in 0..2
  /\ asked \in Scenes \cup {"none"} /\ saw \in {"idle", "run", "hold", "halt"}
  /\ scenes \in 0..MaxScenes
  /\ trouble \in Troubles

VacOn == \E v \in Vacs : on[v]
AllVacsOn == \A v \in Vacs : on[v]
GatesOpen == \A g \in Gates : on[g]
GatesShut == \A g \in Gates : ~on[g]

(* The pass that is being carried out turns this vacuum off.               *)
GoesOff(v) == cmds # <<>> /\ ~Head(cmds)[v]
HasGate == \A v \in Vacs : on[v] => GatesOpen \/ GoesOff(v)

(* A vacuum never runs against a closed gate, but for the moment in which  *)
(* a hard-off has commanded the gate before the vacuum: the gate opens     *)
(* before it starts and else closes after it stopped, whatever order of    *)
(* runs, stops, alarms and Cut, Idle and Emergency scenes led there.       *)
VacuumHasGate == ~missed /\ trouble \notin {"cleanup", "mid"} => HasGate

(* Once a poll has seen ALARM, DOOR or a lost connection no vacuum is left *)
(* armed, whatever the trouble, and none runs on when the queue is worked  *)
(* off, if no command was missed, until a scene or the next run wants it.  *)
HaltMeansOff ==
  saw = "halt" /\ asked = "none" =>
    vacArm = None /\ (~missed => \A v \in Vacs : ~Final[v])

(* A machine that goes on running or holding ends up with open gates and   *)
(* running vacuums, whatever the earlier stops left armed.                 *)
RunBringsAir ==
  <>[](Busy /\ asked = "none" /\ ~missed) =>
    <>[](AllVacsOn /\ GatesOpen)

(* A machine that stays idle ends up with its vacuums off and gates shut.  *)
StopEndsOff ==
  <>[](cnc = "idle" /\ asked = "none" /\ ~missed) =>
    <>[](~VacOn /\ GatesShut)

(* The order as the file's head states it, "Stop: vacuum off-delay ->      *)
(* 500 ms -> gate close" (zb_automation.c), for every way to stop.         *)
GateClosesAfterVacuum ==
  [][(trouble = "none" /\ ~missed /\ GatesOpen /\ ~GatesOpen') => ~VacOn']_vars

(* The same for the Cleanup scene, when all that it queued is carried out. *)
CleanupHasGate == trouble = "cleanup" /\ ~missed /\ cmds = <<>> => HasGate

(* And for the runs that one poll sees begin and the next one over.        *)
BriefRunHasGate == trouble = "none" => HasGate

(* "Job complete" is said of a job that came to 99 % or more, not of the   *)
(* one that follows it: "beep + Idle scene when SD job finishes"           *)
(* (zb_automation.h).                                                      *)
JobCompleteHonest == [][PollJobDone => pct = 2]_vars
=============================================================================
