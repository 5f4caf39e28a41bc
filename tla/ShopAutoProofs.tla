---------------------------- MODULE ShopAutoProofs ----------------------------
(***************************************************************************)
(* The shop automation keeps its variables to their values, leaves no      *)
(* vacuum on after a halt, and runs none against a closed gate, for any    *)
(* gates, switches and lamps, any delay, and whatever scenes the user taps *)
(* and however often.                                                      *)
(***************************************************************************)
EXTENDS ShopAuto, SequenceTheorems, TLAPS

(* TypeOK by the parts of the state.                                       *)
States == [Device -> BOOLEAN]
Devices ==
  /\ on \in States /\ known \in [Switches -> BOOLEAN]
  /\ cmds \in Seq(States) /\ missed \in BOOLEAN
Env ==
  /\ reach \in BOOLEAN /\ cnc \in {"idle", "run", "hold", "halt"} /\ pct \in 0..2
  /\ trouble \in Troubles
Progress ==
  /\ pc \in {"rest", "vac", "gate", "close", "status"} /\ nextPoll \in 0..PollPeriod
  /\ saw \in {"idle", "run", "hold", "halt"}
Timers == vacArm \in None..GateLead /\ gateClose \in None..GateLead
Follow == active \in BOOLEAN /\ armed \in BOOLEAN
Counted == stopSeen \in None..OffDelay /\ peak \in 0..2
Tapped == asked \in Scenes \cup {"none"} /\ scenes \in 0..MaxScenes

TypeInv == Devices /\ Env /\ Progress /\ Timers /\ Follow /\ Counted /\ Tapped

LEMMA TypeInvTyped == TypeInv <=> TypeOK
BY DEF TypeInv, TypeOK, States, Devices, Env, Progress, Timers, Follow, Counted, Tapped

LEMMA TypeInit == Init => TypeInv
<1> SUFFICES ASSUME Init PROVE TypeInv
  OBVIOUS
<1>1. Devices
  <2>1. on \in [Device -> BOOLEAN]
    BY DEF Init
  <2>2. \A d \in Switches : on[d] \in BOOLEAN
    BY <2>1 DEF Device
  <2>3. known = [d \in Switches |-> on[d]]
    BY DEF Init
  <2>4. known \in [Switches -> BOOLEAN]
    BY <2>2, <2>3
  <2>5. <<>> \in Seq(States)
    OBVIOUS
  <2>6. cmds = <<>> /\ missed = FALSE
    BY DEF Init
  <2> QED BY <2>1, <2>4, <2>5, <2>6 DEF Devices, States
<1>2. Env /\ Progress /\ Tapped
  BY ShopAssumption DEF Init, Env, Progress, Tapped, PollPeriod
<1>3. Timers
  BY DEF Init, Timers, None, GateLead
<1>4. Follow
  BY DEF Init, Follow
<1>5. Counted
  BY ShopAssumption DEF Init, Counted, None
<1> QED BY <1>1, <1>2, <1>3, <1>4, <1>5 DEF TypeInv

-----------------------------------------------------------------------------
(* What the commands do to the devices and the timers.                     *)
LEMMA FinalTyped == Devices => Final \in States
BY DEF Devices, Final

LEMMA QueueTyped ==
  ASSUME Devices, NEW state \in States, NEW wish, Queue(state, wish)
  PROVE  Devices'
<1>1. cmds' \in Seq(States)
  BY DEF Devices, Queue
<1> QED BY <1>1 DEF Devices, Queue

LEMMA DrivenTyped ==
  ASSUME Devices, NEW busy \in BOOLEAN, NEW which
  PROVE  Driven(busy, which) \in States
<1>1. \A d \in Device : Final[d] \in BOOLEAN /\ Want(d, busy) \in BOOLEAN
  BY FinalTyped DEF Want, States
<1> QED BY <1>1 DEF Driven, States

LEMMA ApplyTyped ==
  ASSUME Devices, NEW busy \in BOOLEAN, NEW which, Apply(busy, which)
  PROVE  Devices'
BY DrivenTyped, QueueTyped DEF Apply

LEMMA CutTyped == TypeInv /\ Cut => Devices' /\ Timers'
<1> SUFFICES ASSUME TypeInv, Cut PROVE Devices' /\ Timers'
  OBVIOUS
<1>1. Devices'
  BY ApplyTyped DEF Cut, TypeInv
<1>2. Timers'
  BY DEF Cut, Timers, None, GateLead
<1> QED BY <1>1, <1>2

LEMMA CleanupTyped == TypeInv /\ Cleanup => Devices' /\ Timers'
<1> SUFFICES ASSUME TypeInv, Cleanup PROVE Devices' /\ Timers'
  OBVIOUS
<1>1. Devices'
  BY ApplyTyped DEF Cleanup, TypeInv
<1>2. Timers'
  BY DEF Cleanup, TypeInv, Timers, None, GateLead
<1> QED BY <1>1, <1>2

LEMMA IdleSceneTyped == TypeInv /\ IdleScene => Devices' /\ Timers'
<1> SUFFICES ASSUME TypeInv, IdleScene PROVE Devices' /\ Timers'
  OBVIOUS
<1>1. [d \in Device |-> Driven(FALSE, Switches)[d] \/ (reach /\ d \in Lamps)] \in States
  BY DEF States
<1>2. Devices'
  BY <1>1, QueueTyped DEF IdleScene, TypeInv
<1>3. Timers'
  BY DEF IdleScene, Timers, None, GateLead
<1> QED BY <1>2, <1>3

LEMMA ForceAllOffTyped == TypeInv /\ ForceAllOff => Devices' /\ Timers'
<1> SUFFICES ASSUME TypeInv, ForceAllOff PROVE Devices' /\ Timers'
  OBVIOUS
<1>1. (IF reach THEN AllOff ELSE Final) \in States
  BY FinalTyped DEF AllOff, States, TypeInv
<1>2. Devices'
  BY <1>1, QueueTyped DEF ForceAllOff, TypeInv
<1>3. Timers'
  BY DEF ForceAllOff, Timers, None, GateLead
<1> QED BY <1>2, <1>3

LEMMA Effects ==
  TypeInv /\ (Cut \/ Cleanup \/ IdleScene \/ ForceAllOff) => Devices' /\ Timers'
BY CutTyped, CleanupTyped, IdleSceneTyped, ForceAllOffTyped

-----------------------------------------------------------------------------
(* The steps of TypeInv.                                                   *)
LEMMA TypeScene ==
  TypeInv /\ (SceneCut \/ SceneCleanup \/ SceneIdle \/ SceneEmergency) => TypeInv'
<1> SUFFICES ASSUME TypeInv, SceneCut \/ SceneCleanup \/ SceneIdle \/ SceneEmergency
             PROVE  TypeInv'
  OBVIOUS
<1>1. Devices' /\ Timers'
  BY Effects DEF SceneCut, SceneCleanup, SceneIdle, SceneEmergency, Scene
<1>2. Tapped'
  BY ShopAssumption DEF TypeInv, Tapped, SceneCut, SceneCleanup, SceneIdle,
       SceneEmergency, Scene
<1>3. Env' /\ Progress' /\ Follow' /\ Counted'
  BY DEF TypeInv, SceneCut, SceneCleanup, SceneIdle, SceneEmergency, Scene, env, follow,
       job, Env, Progress, Follow, Counted
<1> QED BY <1>1, <1>2, <1>3 DEF TypeInv

LEMMA TypePollTimers ==
  TypeInv /\ (PollVac \/ PollVacOn \/ PollGate \/ PollGateClose) => TypeInv'
<1> SUFFICES ASSUME TypeInv, PollVac \/ PollVacOn \/ PollGate \/ PollGateClose
             PROVE  TypeInv'
  OBVIOUS
<1>1. Devices'
  <2>1. CASE PollVac \/ PollGate
    BY <2>1 DEF TypeInv, PollVac, PollGate, devices, Devices
  <2>2. CASE PollVacOn \/ PollGateClose
    BY <2>2, ApplyTyped DEF TypeInv, PollVacOn, PollGateClose
  <2> QED BY <2>1, <2>2
<1>2. Timers' /\ Progress'
  <2>1. CASE PollVac
    <3>1. Timers'
      BY <2>1 DEF TypeInv, PollVac, Timers, None, GateLead
    <3> QED BY <2>1, <3>1 DEF TypeInv, PollVac, Progress, PollPeriod
  <2>2. CASE PollVacOn
    BY <2>2 DEF TypeInv, PollVacOn, timers, Timers, Progress
  <2>3. CASE PollGate
    <3>1. Timers'
      BY <2>3 DEF TypeInv, PollGate, Timers, None, GateLead
    <3> QED BY <2>3, <3>1 DEF TypeInv, PollGate, Progress
  <2>4. CASE PollGateClose
    BY <2>4 DEF TypeInv, PollGateClose, timers, Timers, Progress
  <2> QED BY <2>1, <2>2, <2>3, <2>4
<1>3. Env' /\ Follow' /\ Counted' /\ Tapped'
  BY DEF TypeInv, PollVac, PollVacOn, PollGate, PollGateClose, env, follow, job, ghost,
       Env, Follow, Counted, Tapped
<1> QED BY <1>1, <1>2, <1>3 DEF TypeInv

PollEnds ==
  PollHalt \/ PollBusy \/ PollJobDone \/ PollStopSeen \/ PollRunOnEnds \/ PollNothing

LEMMA TypePollEnds == TypeInv /\ PollEnds => TypeInv'
<1> SUFFICES ASSUME TypeInv, PollEnds PROVE TypeInv'
  OBVIOUS
<1>1. Env' /\ Progress'
  BY DEF TypeInv, PollEnds, PollHalt, PollBusy, PollJobDone, PollStopSeen, PollRunOnEnds,
       PollNothing, PollStatus, env, Env, Progress
<1>2. Devices' /\ Timers'
  <2>1. CASE UNCHANGED <<devices, timers>>
    BY <2>1 DEF TypeInv, devices, timers, Devices, Timers
  <2>2. CASE Cut \/ IdleScene \/ ForceAllOff
    BY <2>2, Effects
  <2>3. CASE Apply(FALSE, Switches) /\ vacArm' = None /\ gateClose' = GateLead
    <3>1. Devices'
      BY <2>3, ApplyTyped DEF TypeInv
    <3> QED BY <2>3, <3>1 DEF Timers, None, GateLead
  <2> QED
    BY <2>1, <2>2, <2>3 DEF PollEnds, PollHalt, PollBusy, PollJobDone, PollStopSeen,
         PollRunOnEnds, PollNothing
<1>3. Follow' /\ Counted'
  <2>1. CASE PollHalt
    <3>1. Follow'
      BY <2>1 DEF TypeInv, PollHalt, Follow
    <3>2. Counted'
      BY <2>1, ShopAssumption DEF TypeInv, PollHalt, Counted, None
    <3> QED BY <3>1, <3>2
  <2>2. CASE PollBusy
    <3>1. Follow'
      BY <2>2 DEF TypeInv, PollBusy, Follow
    <3>2. Counted'
      BY <2>2, ShopAssumption DEF TypeInv, PollBusy, Env, Counted, None
    <3> QED BY <3>1, <3>2
  <2>3. CASE PollJobDone \/ PollRunOnEnds
    <3>1. Follow'
      BY <2>3 DEF TypeInv, PollJobDone, PollRunOnEnds, Follow
    <3>2. stopSeen' \in {stopSeen, None} /\ peak' \in {peak, 0}
      BY <2>3 DEF PollJobDone, PollRunOnEnds
    <3>3. Counted'
      BY <3>2, ShopAssumption DEF TypeInv, Counted, None
    <3> QED BY <3>1, <3>3
  <2>4. CASE PollStopSeen \/ PollNothing
    <3>1. Follow'
      BY <2>4 DEF TypeInv, PollStopSeen, PollNothing, follow, job, Follow
    <3>2. Counted'
      BY <2>4, ShopAssumption DEF TypeInv, PollStopSeen, PollNothing, follow, job, Counted,
           None
    <3> QED BY <3>1, <3>2
  <2> QED BY <2>1, <2>2, <2>3, <2>4 DEF PollEnds
<1>4. Tapped'
  BY DEF TypeInv, PollEnds, PollHalt, PollBusy, PollJobDone, PollStopSeen, PollRunOnEnds,
       PollNothing, PollStatus, Tapped
<1> QED BY <1>1, <1>2, <1>3, <1>4 DEF TypeInv

LEMMA CarryTyped == Devices /\ Carry => Devices'
<1> SUFFICES ASSUME Devices, Carry PROVE Devices'
  OBVIOUS
<1>1. cmds \in Seq(States) /\ cmds # <<>> /\ Head(cmds) \in States /\ Tail(cmds) \in Seq(States)
  BY DEF Devices, Carry
<1>2. on' \in States /\ cmds' \in Seq(States)
  BY <1>1 DEF Devices, Carry, States
<1> QED BY <1>2 DEF Devices, Carry

LEMMA TypeSurroundings ==
  TypeInv /\ (Machine \/ Hub \/ Carry \/ Report \/ Tick) => TypeInv'
<1> SUFFICES ASSUME TypeInv, Machine \/ Hub \/ Carry \/ Report \/ Tick PROVE TypeInv'
  OBVIOUS
<1>1. CASE Machine
  BY <1>1 DEF TypeInv, Machine, Busy, devices, timers, follow, job, ghost, Devices, Env,
       Progress, Timers, Follow, Counted, Tapped
<1>2. CASE Hub
  <2>1. Devices'
    BY <1>2 DEF TypeInv, Hub, Devices
  <2> QED BY <1>2, <2>1 DEF TypeInv, Hub, timers, follow, job, ghost, Env, Progress, Timers,
           Follow, Counted, Tapped
<1>3. CASE Carry
  BY <1>3, CarryTyped DEF TypeInv, Carry, env, timers, follow, job, ghost, Env, Progress,
       Timers, Follow, Counted, Tapped
<1>4. CASE Report
  <2>1. known' \in [Switches -> BOOLEAN]
    BY <1>4 DEF TypeInv, Report, Devices, States, Device
  <2>2. Devices'
    BY <1>4, <2>1 DEF TypeInv, Report, Devices
  <2> QED BY <1>4, <2>2 DEF TypeInv, Report, env, timers, follow, job, ghost, Env, Progress,
           Timers, Follow, Counted, Tapped
<1>5. CASE Tick
  <2>1. Timers' /\ Progress' /\ Counted'
    BY <1>5, ShopAssumption DEF TypeInv, Tick, Down, job, Timers, Progress, Counted, None,
         GateLead, PollPeriod
  <2> QED BY <1>5, <2>1 DEF TypeInv, Tick, devices, env, job, ghost, Devices, Env, Follow,
           Tapped
<1> QED BY <1>1, <1>2, <1>3, <1>4, <1>5

LEMMA TypeStep == TypeInv /\ [Next]_vars => TypeInv'
<1>1. TypeInv /\ UNCHANGED vars => TypeInv'
  BY DEF TypeInv, vars, devices, env, timers, follow, job, ghost, Devices, Env, Progress,
       Timers, Follow, Counted, Tapped
<1> QED
  BY <1>1, TypeScene, TypePollTimers, TypePollEnds, TypeSurroundings DEF Next, Poll, PollEnds

LEMMA TypeInvariant == Spec => []TypeInv
BY TypeInit, TypeStep, PTL DEF Spec

(* Devices, timers, the poll and what it remembers keep to their values:   *)
(* no timer is armed for longer than GATE_LEAD_US, and no run-on lasts     *)
(* longer than zb_off_s.                                                   *)
THEOREM TypeCorrect == Spec => []TypeOK
<1>1. TypeInv => TypeOK
  BY TypeInvTyped
<1> QED BY <1>1, TypeInvariant, PTL

-----------------------------------------------------------------------------
(* What each command does to the vacuums and the gates.                    *)
LEMMA Places ==
  /\ \A v \in Vacs : v \in Device /\ v \in Switches /\ v \notin Gates \cup Rest \cup Lamps
  /\ \A g \in Gates : g \in Device /\ g \notin Switches \cup Rest \cup Lamps
BY ShopAssumption DEF Device, Switches

LEMMA QueueDoes ==
  ASSUME Devices, NEW state \in States, NEW wish, Queue(state, wish)
  PROVE  Final' = state /\ (~missed' => ~missed /\ state = wish)
<1>1. CASE state = Final
  BY <1>1 DEF Queue, Final
<1>2. CASE state # Final
  <2>1. cmds' = Append(cmds, state) /\ cmds \in Seq(States)
    BY <1>2 DEF Queue, Devices
  <2>2. cmds' # <<>> /\ cmds'[Len(cmds')] = state
    BY <2>1
  <2> QED BY <2>2 DEF Queue, Final
<1>3. ~missed' => ~missed /\ state = wish
  BY DEF Queue
<1> QED BY <1>1, <1>2, <1>3

LEMMA ApplyDoes ==
  ASSUME Devices, NEW busy \in BOOLEAN, NEW which, Apply(busy, which)
  PROVE  /\ Final' = Driven(busy, which)
         /\ ~missed' => ~missed /\ Final' = Wished(busy, which)
BY DrivenTyped, QueueDoes DEF Apply

LEMMA DrivenElse ==
  ASSUME NEW busy, NEW which, NEW d \in Device, d \notin which
  PROVE  Driven(busy, which)[d] = Final[d]
BY DEF Driven, Commanded

LEMMA CutDoes ==
  ASSUME Devices, Apply(TRUE, Gates)
  PROVE  /\ \A v \in Vacs : Final'[v] = Final[v]
         /\ ~missed' => \A g \in Gates : Final'[g]
<1>1. Final' = Driven(TRUE, Gates) /\ (~missed' => Final' = Wished(TRUE, Gates))
  BY ApplyDoes
<1>2. \A v \in Vacs : Final'[v] = Final[v]
  BY <1>1, DrivenElse, Places
<1>3. \A g \in Gates : Wished(TRUE, Gates)[g]
  BY Places DEF Wished, Want
<1> QED BY <1>1, <1>2, <1>3

LEMMA VacsOnDoes ==
  ASSUME Devices, Apply(TRUE, Switches)
  PROVE  \A g \in Gates : Final'[g] = Final[g]
<1>1. Final' = Driven(TRUE, Switches)
  BY ApplyDoes
<1> QED BY <1>1, DrivenElse, Places

LEMMA GatesShutDoes ==
  ASSUME Devices, Apply(FALSE, Gates)
  PROVE  \A v \in Vacs : Final'[v] = Final[v]
<1>1. Final' = Driven(FALSE, Gates)
  BY ApplyDoes
<1> QED BY <1>1, DrivenElse, Places

LEMMA OffDoes ==
  ASSUME Devices, Apply(FALSE, Switches) \/ IdleScene \/ ForceAllOff, ~missed'
  PROVE  \A v \in Vacs : ~Final'[v]
<1> SUFFICES ASSUME NEW v \in Vacs PROVE ~Final'[v]
  OBVIOUS
<1>1. v \in Device /\ v \in Switches /\ v \notin Rest \cup Lamps
  BY Places
<1>2. ~Wished(FALSE, Switches)[v]
  BY <1>1 DEF Wished, Want
<1>3. CASE Apply(FALSE, Switches)
  BY <1>2, <1>3, ApplyDoes
<1>4. CASE IdleScene
  <2>1. [d \in Device |-> Driven(FALSE, Switches)[d] \/ (reach /\ d \in Lamps)] \in States
    BY DEF States
  <2>2. Final' = [d \in Device |-> Wished(FALSE, Switches)[d] \/ d \in Lamps]
    BY <1>4, <2>1, QueueDoes DEF IdleScene
  <2> QED BY <1>1, <1>2, <2>2
<1>5. CASE ForceAllOff
  <2>1. (IF reach THEN AllOff ELSE Final) \in States
    BY FinalTyped DEF AllOff, States
  <2>2. Final' = AllOff
    BY <1>5, <2>1, QueueDoes DEF ForceAllOff
  <2> QED BY <1>1, <2>2 DEF AllOff
<1> QED BY <1>3, <1>4, <1>5

LEMMA LastOfTail ==
  ASSUME NEW S, NEW s \in Seq(S), Len(s) > 1
  PROVE  Tail(s) # <<>> /\ Tail(s)[Len(Tail(s))] = s[Len(s)]
<1> DEFINE t == Tail(s)
<1>1. /\ t \in Seq(S) /\ Len(t) = Len(s) - 1
      /\ \A i \in 1..Len(t) : t[i] = s[i + 1]
  BY s # <<>>, HeadTailProperties
<1> HIDE DEF t
<1>2. Len(t) \in 1..Len(t) /\ Len(t) + 1 = Len(s) /\ t # <<>>
  BY <1>1
<1>3. t[Len(t)] = s[Len(t) + 1]
  BY <1>1, <1>2
<1> QED BY <1>2, <1>3 DEF t

(* What the worker does changes nothing of what it will have done.         *)
LEMMA CarryKeepsFinal ==
  ASSUME Devices, Carry
  PROVE  Final' = Final
<1>1. cmds \in Seq(States) /\ cmds # <<>> /\ Len(cmds) \in Nat /\ Len(cmds) > 0
  BY DEF Devices, Carry
<1>2. CASE on' # Head(cmds)
  BY <1>1, <1>2 DEF Carry, Final
<1>3. CASE on' = Head(cmds)
  <2>1. cmds' = Tail(cmds)
    BY <1>3 DEF Carry
  <2>2. CASE Len(cmds) = 1
    BY <1>1, <1>3, <2>1, <2>2 DEF Final
  <2>3. CASE Len(cmds) > 1
    <3>1. cmds' # <<>> /\ cmds'[Len(cmds')] = cmds[Len(cmds)]
      BY <1>1, <2>1, <2>3, LastOfTail
    <3>2. Final' = cmds'[Len(cmds')]
      BY <3>1 DEF Final
    <3>3. Final = cmds[Len(cmds)]
      BY <1>1 DEF Final
    <3> QED BY <3>1, <3>2, <3>3
  <2> QED BY <1>1, <2>2, <2>3
<1> QED BY <1>2, <1>3

LEMMA HubKeepsFinal ==
  ASSUME Hub, ~missed'
  PROVE  ~missed /\ cmds = <<>> /\ cmds' = <<>> /\ Final' = Final
BY DEF Hub, Final

-----------------------------------------------------------------------------
(* Every pass that turns a vacuum on, or leaves it on, finds the gates     *)
(* open and leaves them so.  When all is carried out, a vacuum that runs,  *)
(* is armed or is due has open gates, and nothing is about to close them.  *)
Open(state) == \A g \in Gates : state[g]
Orderly(from, to) == (\E v \in Vacs : to[v]) => Open(from) /\ Open(to)
Before(i) == IF i = 1 THEN on ELSE cmds[i - 1]

PassInv == \A i \in 1..Len(cmds) : Orderly(Before(i), cmds[i])
AimInv ==
  (\E v \in Vacs : Final[v]) \/ vacArm # None \/ pc = "vac" =>
    Open(Final) /\ gateClose = None /\ pc # "close"
Usual == ~missed /\ trouble \notin {"cleanup", "mid"}
GateInv == Usual => PassInv /\ AimInv

LEMMA GateInit == Init => GateInv
<1> SUFFICES ASSUME Init PROVE PassInv /\ AimInv
  BY DEF GateInv
<1>1. PassInv
  BY DEF Init, PassInv
<1>2. \A v \in Vacs : ~Final[v]
  BY Places DEF Init, Final
<1> QED BY <1>1, <1>2 DEF Init, AimInv

LEMMA PassQueued ==
  ASSUME Devices, PassInv, NEW state \in States, NEW wish, Queue(state, wish),
         Orderly(Final, state)
  PROVE  PassInv'
<1>1. CASE state = Final
  BY <1>1 DEF Queue, PassInv, Before, Orderly, Open
<1>2. CASE state # Final
  <2> SUFFICES ASSUME NEW i \in 1..Len(cmds') PROVE Orderly(Before(i)', cmds'[i])
    BY DEF PassInv, Orderly, Open
  <2>1. cmds' = Append(cmds, state) /\ cmds \in Seq(States) /\ on' = on
    BY <1>2 DEF Queue, Devices
  <2>2. CASE i \in 1..Len(cmds)
    <3>1. cmds'[i] = cmds[i] /\ Before(i)' = Before(i)
      BY <2>1, <2>2 DEF Before
    <3> QED BY <2>2, <3>1 DEF PassInv
  <2>3. CASE i = Len(cmds) + 1
    <3>1. cmds'[i] = state /\ Before(i)' = Final
      BY <2>1, <2>3 DEF Before, Final
    <3> QED BY <3>1
  <2> QED BY <2>1, <2>2, <2>3
<1> QED BY <1>1, <1>2

LEMMA ApplyQueued ==
  ASSUME Devices, PassInv, NEW busy \in BOOLEAN, NEW which, Apply(busy, which),
         Orderly(Final, Final')
  PROVE  PassInv'
<1>1. Queue(Driven(busy, which), Wished(busy, which)) /\ Final' = Driven(busy, which)
  BY ApplyDoes DEF Apply
<1> QED BY <1>1, DrivenTyped, PassQueued

LEMMA PassCarried ==
  ASSUME Devices, PassInv, Carry
  PROVE  PassInv'
<1>1. cmds \in Seq(States) /\ cmds # <<>> /\ Len(cmds) \in Nat /\ Len(cmds) > 0
  BY DEF Devices, Carry
<1>2. Orderly(on, cmds[1])
  BY <1>1 DEF PassInv, Before
<1>3. \A g \in Gates : on'[g] = on[g] \/ on'[g] = cmds[1][g]
  BY <1>1 DEF Carry, Devices, States
<1>4. Orderly(on', cmds[1])
  BY <1>2, <1>3 DEF Orderly, Open
<1>5. CASE on' # Head(cmds)
  <2>1. cmds' = cmds
    BY <1>5 DEF Carry
  <2> SUFFICES ASSUME NEW i \in 1..Len(cmds) PROVE Orderly(Before(i)', cmds[i])
    BY <2>1 DEF PassInv, Orderly, Open
  <2>2. CASE i = 1
    BY <1>4, <2>2 DEF Before
  <2>3. CASE i # 1
    <3>1. Before(i)' = Before(i)
      BY <2>1, <2>3 DEF Before
    <3> QED BY <3>1 DEF PassInv
  <2> QED BY <2>2, <2>3
<1>6. CASE on' = Head(cmds)
  <2>1. cmds' = Tail(cmds) /\ on' = cmds[1]
    <3>1. Head(cmds) = cmds[1]
      BY <1>1
    <3>2. cmds' = Tail(cmds)
      BY <1>6 DEF Carry
    <3> QED BY <1>6, <3>1, <3>2
  <2> SUFFICES ASSUME NEW i \in 1..Len(cmds') PROVE Orderly(Before(i)', cmds'[i])
    BY DEF PassInv, Orderly, Open
  <2>2. i + 1 \in 1..Len(cmds) /\ cmds'[i] = cmds[i + 1]
    BY <1>1, <2>1
  <2>3. Before(i)' = Before(i + 1)
    <3>1. CASE i = 1
      BY <2>1, <3>1 DEF Before
    <3>2. CASE i # 1
      <4>1. i - 1 \in 1..Len(cmds') /\ cmds'[i - 1] = cmds[i]
        BY <1>1, <2>1, <3>2
      <4> QED BY <3>2, <4>1 DEF Before
    <3> QED BY <3>1, <3>2
  <2> QED BY <2>2, <2>3 DEF PassInv
<1> QED BY <1>5, <1>6

LEMMA GateAfterOff ==
  ASSUME Devices, GateInv, trouble' = trouble, pc' = "rest", vacArm' = None,
         Apply(FALSE, Switches) \/ IdleScene \/ ForceAllOff
  PROVE  GateInv'
<1> SUFFICES ASSUME Usual' PROVE PassInv' /\ AimInv'
  BY DEF GateInv
<1>1. PICK state \in States : \E w : Queue(state, w)
  <2>1. CASE Apply(FALSE, Switches)
    BY <2>1, DrivenTyped DEF Apply
  <2>2. CASE IdleScene
    <3>1. [d \in Device |-> Driven(FALSE, Switches)[d] \/ (reach /\ d \in Lamps)] \in States
      BY DEF States
    <3> QED BY <2>2, <3>1 DEF IdleScene
  <2>3. CASE ForceAllOff
    <3>1. (IF reach THEN AllOff ELSE Final) \in States
      BY FinalTyped DEF AllOff, States
    <3> QED BY <2>3, <3>1 DEF ForceAllOff
  <2> QED BY <2>1, <2>2, <2>3
<1>2. Final' = state /\ Usual
  BY <1>1, QueueDoes DEF Usual
<1>3. \A v \in Vacs : ~Final'[v]
  BY OffDoes DEF Usual
<1>4. Orderly(Final, state)
  BY <1>2, <1>3 DEF Orderly
<1>5. PassInv'
  BY <1>1, <1>2, <1>4, PassQueued DEF GateInv
<1> QED BY <1>3, <1>5 DEF AimInv

LEMMA GateAfterCut ==
  ASSUME Devices, GateInv, trouble' = trouble, pc' = "rest", Cut
  PROVE  GateInv'
<1> SUFFICES ASSUME Usual' PROVE PassInv' /\ AimInv'
  BY DEF GateInv
<1>1. Apply(TRUE, Gates) /\ gateClose' = None
  BY DEF Cut
<1>2. Usual
  BY <1>1, ApplyDoes DEF Usual
<1>3. (\A v \in Vacs : Final'[v] = Final[v]) /\ Open(Final')
  BY <1>1, CutDoes DEF Usual, Open
<1>4. Orderly(Final, Final')
  BY <1>2, <1>3 DEF GateInv, AimInv, Orderly
<1>5. PassInv'
  BY <1>1, <1>2, <1>4, ApplyQueued DEF GateInv
<1> QED BY <1>1, <1>3, <1>5 DEF AimInv, Open

LEMMA GateKept ==
  ASSUME GateInv, UNCHANGED devices, trouble' = trouble,
         vacArm = None => vacArm' = None, pc' = "vac" => pc = "vac" \/ vacArm # None,
         pc' = "close" => pc = "close" \/ gateClose # None,
         gateClose = None => gateClose' = None
  PROVE  GateInv'
<1> SUFFICES ASSUME Usual' PROVE PassInv' /\ AimInv'
  BY DEF GateInv
<1>1. Usual /\ PassInv /\ AimInv /\ Final' = Final
  BY DEF GateInv, Usual, devices, Final
<1>2. PassInv'
  BY <1>1 DEF PassInv, Before, Orderly, Open, devices
<1>3. AimInv'
  BY <1>1 DEF AimInv, Open
<1> QED BY <1>2, <1>3

LEMMA GateStep == TypeInv /\ GateInv /\ [Next]_vars => GateInv'
<1> SUFFICES ASSUME TypeInv, GateInv, [Next]_vars PROVE GateInv'
  OBVIOUS
<1> Devices
  BY DEF TypeInv
<1>1. CASE SceneCut \/ SceneCleanup \/ SceneIdle \/ SceneEmergency
  <2> SUFFICES ASSUME Usual PROVE GateInv'
    <3>1. missed => missed'
      BY <1>1 DEF SceneCut, SceneCleanup, SceneIdle, SceneEmergency, Scene, Cut, Cleanup,
           IdleScene, ForceAllOff, Apply, Queue
    <3> QED BY <1>1, <3>1 DEF SceneCut, SceneCleanup, SceneIdle, SceneEmergency, Scene, env,
             GateInv, Usual
  <2>1. trouble' = trouble /\ pc' = "rest"
    BY <1>1 DEF SceneCut, SceneCleanup, SceneIdle, SceneEmergency, Scene, env, Usual
  <2>2. CASE SceneCut
    BY <2>1, <2>2, GateAfterCut DEF SceneCut, Scene
  <2>3. CASE SceneIdle \/ SceneEmergency
    <3>1. IdleScene \/ ForceAllOff
      BY <2>3 DEF SceneIdle, SceneEmergency, Scene
    <3>2. vacArm' = None
      BY <3>1 DEF IdleScene, ForceAllOff
    <3> QED BY <2>1, <3>1, <3>2, GateAfterOff
  <2> QED BY <1>1, <2>2, <2>3 DEF SceneCleanup, Scene, Usual
<1>2. CASE PollVac
  BY <1>2, GateKept DEF PollVac, env, None
<1>3. CASE PollVacOn
  <2>1. /\ pc = "vac" /\ pc' = "gate" /\ trouble' = trouble /\ UNCHANGED <<vacArm, gateClose>>
        /\ Apply(TRUE, Switches)
    BY <1>3 DEF PollVacOn, env, timers
  <2> SUFFICES ASSUME Usual' PROVE PassInv' /\ AimInv'
    BY DEF GateInv
  <2>2. Usual
    BY <2>1, ApplyDoes DEF Usual
  <2>3. Open(Final) /\ Open(Final') /\ gateClose = None
    BY <2>1, <2>2, VacsOnDoes DEF GateInv, AimInv, Open
  <2>4. PassInv'
    BY <2>1, <2>2, <2>3, ApplyQueued DEF GateInv, Orderly
  <2> QED BY <2>1, <2>3, <2>4 DEF AimInv, Open
<1>4. CASE PollGate
  BY <1>4, GateKept DEF PollGate, env, None
<1>5. CASE PollGateClose
  <2>1. /\ pc = "close" /\ pc' = "status" /\ trouble' = trouble
        /\ UNCHANGED <<vacArm, gateClose>> /\ Apply(FALSE, Gates)
    BY <1>5 DEF PollGateClose, env, timers
  <2> SUFFICES ASSUME Usual' PROVE PassInv' /\ AimInv'
    BY DEF GateInv
  <2>2. Usual
    BY <2>1, ApplyDoes DEF Usual
  <2>3. vacArm = None /\ \A v \in Vacs : ~Final'[v]
    BY <2>1, <2>2, GatesShutDoes DEF GateInv, AimInv
  <2>4. PassInv'
    BY <2>1, <2>2, <2>3, ApplyQueued DEF GateInv, Orderly
  <2> QED BY <2>1, <2>3, <2>4 DEF AimInv
<1>6. CASE PollEnds
  <2>1. trouble' = trouble /\ pc' = "rest"
    BY <1>6 DEF PollEnds, PollHalt, PollBusy, PollJobDone, PollStopSeen, PollRunOnEnds,
         PollNothing, PollStatus, env
  <2>2. CASE UNCHANGED <<devices, timers>>
    BY <2>1, <2>2, GateKept DEF timers
  <2>3. CASE Cut
    BY <2>1, <2>3, GateAfterCut
  <2>4. CASE (Apply(FALSE, Switches) \/ IdleScene \/ ForceAllOff) /\ vacArm' = None
    BY <2>1, <2>4, GateAfterOff
  <2> QED
    BY <1>6, <2>2, <2>3, <2>4 DEF PollEnds, PollHalt, PollBusy, PollJobDone, PollStopSeen,
         PollRunOnEnds, PollNothing, IdleScene, ForceAllOff
<1>7. CASE Machine \/ UNCHANGED vars
  BY <1>7, GateKept DEF Machine, vars, env, timers
<1>8. CASE Hub
  <2> SUFFICES ASSUME Usual' PROVE PassInv' /\ AimInv'
    BY DEF GateInv
  <2>1. Usual /\ cmds' = <<>> /\ Final' = Final /\ UNCHANGED <<vacArm, gateClose, pc>>
    BY <1>8, HubKeepsFinal DEF Hub, timers, Usual
  <2> QED BY <2>1 DEF GateInv, PassInv, AimInv, Open
<1>9. CASE Carry
  <2> SUFFICES ASSUME Usual' PROVE PassInv' /\ AimInv'
    BY DEF GateInv
  <2>1. Final' = Final
    BY <1>9, CarryKeepsFinal
  <2>2. Usual /\ UNCHANGED <<vacArm, gateClose, pc>>
    BY <1>9 DEF Carry, env, timers, Usual
  <2>3. PassInv'
    BY <1>9, <2>2, PassCarried DEF GateInv
  <2> QED BY <2>1, <2>2, <2>3 DEF GateInv, AimInv, Open
<1>10. CASE Report
  <2> SUFFICES ASSUME Usual' PROVE PassInv' /\ AimInv'
    BY DEF GateInv
  <2>1. /\ Usual /\ Final' = Final /\ UNCHANGED <<on, cmds, vacArm, gateClose, pc>>
    BY <1>10 DEF Report, env, timers, Usual, Final
  <2> QED BY <2>1 DEF GateInv, PassInv, Before, Orderly, AimInv, Open
<1>11. CASE Tick
  BY <1>11, GateKept DEF Tick, Down, None, env
<1> QED
  BY <1>1, <1>2, <1>3, <1>4, <1>5, <1>6, <1>7, <1>8, <1>9, <1>10, <1>11 DEF Next, Poll,
     PollEnds

LEMMA GateInvShown == Devices /\ GateInv => VacuumHasGate
<1> SUFFICES ASSUME Devices, Usual, PassInv, AimInv, NEW v \in Vacs, on[v], ~GoesOff(v)
             PROVE  GatesOpen
  BY DEF GateInv, VacuumHasGate, HasGate, Usual
<1>1. CASE cmds = <<>>
  BY <1>1 DEF AimInv, Final, Open, GatesOpen
<1>2. CASE cmds # <<>>
  <2>1. cmds[1][v] /\ 1 \in 1..Len(cmds)
    BY <1>2 DEF GoesOff, Devices
  <2> QED BY <2>1 DEF PassInv, Before, Orderly, Open, GatesOpen
<1> QED BY <1>1, <1>2

(* No vacuum runs against a closed gate, but for the moment between the    *)
(* two commands of a hard-off, whatever runs, stops, alarms and scenes     *)
(* armed and disarmed the two timers and however late commands and reports *)
(* are, with one poll at a time, Cut, Idle and Emergency tapped between    *)
(* polls, and no command missed.                                           *)
THEOREM GatesBeforeVacuums == Spec => []VacuumHasGate
<1>1. TypeInv /\ GateInv => VacuumHasGate
  BY GateInvShown DEF TypeInv
<1> QED
  BY <1>1, TypeInvariant, GateInit, GateStep, PTL DEF Spec

-----------------------------------------------------------------------------
(* Between runs, and until a scene is tapped, no vacuum is going to run or *)
(* about to; a poll that saw a halt has ended the run.                     *)
Rested == (~active => stopSeen = None) /\ (saw = "halt" => ~active)
Quiet ==
  asked = "none" /\ ~active =>
    vacArm = None /\ pc # "vac" /\ (~missed => \A v \in Vacs : ~Final[v])

LEMMA QuietInit == Init => Rested /\ Quiet
BY Places DEF Init, Rested, Quiet, Final

LEMMA RestedStep == Rested /\ [Next]_vars => Rested'
<1> SUFFICES ASSUME Rested, [Next]_vars PROVE Rested'
  OBVIOUS
<1>1. CASE UNCHANGED <<follow, saw>>
  BY <1>1 DEF Rested, follow
<1>2. CASE SceneCut \/ SceneCleanup \/ SceneIdle \/ SceneEmergency
  BY <1>1, <1>2 DEF SceneCut, SceneCleanup, SceneIdle, SceneEmergency, Scene
<1>3. CASE PollVac \/ PollVacOn \/ PollGate \/ PollGateClose
  BY <1>1, <1>3 DEF PollVac, PollVacOn, PollGate, PollGateClose
<1>4. CASE PollHalt
  BY <1>4 DEF PollHalt, PollStatus, Rested
<1>5. CASE PollBusy
  BY <1>5 DEF PollBusy, PollStatus, Busy, Rested
<1>6. CASE PollJobDone \/ PollStopSeen \/ PollRunOnEnds \/ PollNothing
  <2>1. saw' = "idle"
    BY <1>6 DEF PollJobDone, PollStopSeen, PollRunOnEnds, PollNothing, PollStatus
  <2>2. CASE PollJobDone \/ PollRunOnEnds
    BY <2>1, <2>2 DEF PollJobDone, PollRunOnEnds, Rested
  <2>3. CASE PollStopSeen \/ PollNothing
    BY <2>1, <2>3 DEF PollStopSeen, PollNothing, follow, Rested
  <2> QED BY <1>6, <2>2, <2>3
<1>7. CASE Machine \/ Hub \/ Carry \/ Report \/ UNCHANGED vars
  BY <1>1, <1>7 DEF Machine, Hub, Carry, Report, vars
<1>8. CASE Tick
  BY <1>8 DEF Tick, Rested, None
<1> QED
  BY <1>2, <1>3, <1>4, <1>5, <1>6, <1>7, <1>8 DEF Next, Poll

LEMMA QuietAfterOff ==
  ASSUME Devices, pc' = "rest", vacArm' = None,
         Apply(FALSE, Switches) \/ IdleScene \/ ForceAllOff
  PROVE  Quiet'
BY OffDoes DEF Quiet

LEMMA QuietKept ==
  ASSUME Quiet, asked' = asked, active' = active,
         vacArm = None => vacArm' = None, pc' = "vac" => pc = "vac" \/ vacArm # None,
         ~missed' => ~missed /\ \A v \in Vacs : Final'[v] = Final[v]
  PROVE  Quiet'
BY DEF Quiet

LEMMA QuietStep == TypeInv /\ Quiet /\ [Next]_vars => Quiet'
<1> SUFFICES ASSUME TypeInv, Quiet, [Next]_vars PROVE Quiet'
  OBVIOUS
<1> Devices
  BY DEF TypeInv
<1>0. ASSUME UNCHANGED devices PROVE ~missed' => ~missed /\ Final' = Final
  BY <1>0 DEF devices, Final
<1>1. CASE SceneCut \/ SceneCleanup \/ SceneIdle \/ SceneEmergency
  BY <1>1, ShopAssumption DEF SceneCut, SceneCleanup, SceneIdle, SceneEmergency, Scene, Quiet
<1>2. CASE PollVac
  BY <1>0, <1>2, QuietKept DEF PollVac, follow, ghost, None
<1>3. CASE PollVacOn
  BY <1>3 DEF PollVacOn, follow, ghost, Quiet
<1>4. CASE PollGate
  BY <1>0, <1>4, QuietKept DEF PollGate, follow, ghost
<1>5. CASE PollGateClose
  <2>1. ~missed' => ~missed /\ \A v \in Vacs : Final'[v] = Final[v]
    BY <1>5, ApplyDoes, GatesShutDoes DEF PollGateClose
  <2> QED BY <1>5, <2>1, QuietKept DEF PollGateClose, timers, follow, ghost
<1>6. CASE PollEnds
  <2>1. pc' = "rest"
    BY <1>6 DEF PollEnds, PollHalt, PollBusy, PollJobDone, PollStopSeen, PollRunOnEnds,
         PollNothing, PollStatus
  <2>2. CASE UNCHANGED <<devices, timers, active, asked>>
    BY <1>0, <2>1, <2>2, QuietKept DEF timers
  <2>3. CASE (Apply(FALSE, Switches) \/ IdleScene \/ ForceAllOff) /\ vacArm' = None
    BY <2>1, <2>3, QuietAfterOff
  <2>4. CASE PollBusy
    BY <2>4 DEF PollBusy, Quiet
  <2> QED
    BY <1>6, <2>2, <2>3, <2>4 DEF PollEnds, PollHalt, PollJobDone, PollStopSeen,
         PollRunOnEnds, PollNothing, IdleScene, ForceAllOff, follow
<1>7. CASE Machine \/ UNCHANGED vars
  BY <1>0, <1>7, QuietKept DEF Machine, vars, timers, follow, ghost
<1>8. CASE Hub
  BY <1>8, HubKeepsFinal, QuietKept DEF Hub, timers, follow, ghost
<1>9. CASE Carry
  <2>1. Final' = Final
    BY <1>9, CarryKeepsFinal
  <2>2. UNCHANGED <<missed, pc, vacArm, active, asked>>
    BY <1>9 DEF Carry, timers, follow, ghost
  <2> QED BY <2>1, <2>2, QuietKept
<1>10. CASE Report
  <2>1. missed' = missed /\ Final' = Final
    BY <1>10 DEF Report, Final
  <2> QED BY <1>10, <2>1, QuietKept DEF Report, timers, follow, ghost
<1>11. CASE Tick
  BY <1>0, <1>11, QuietKept DEF Tick, Down, ghost, None
<1> QED
  BY <1>1, <1>2, <1>3, <1>4, <1>5, <1>6, <1>7, <1>8, <1>9, <1>10, <1>11 DEF Next, Poll,
     PollEnds

(* Once a poll has seen ALARM, DOOR or a lost connection no vacuum is      *)
(* armed, whatever the trouble, and none goes on running if no command was *)
(* missed, also when the alarm came into a run-on or a run that was never  *)
(* polled.                                                                 *)
THEOREM HaltTurnsOff == Spec => []HaltMeansOff
<1>1. Rested /\ Quiet => HaltMeansOff
  BY DEF Rested, Quiet, HaltMeansOff
<1> QED
  BY <1>1, TypeInvariant, QuietInit, RestedStep, QuietStep, PTL DEF Spec
=============================================================================
