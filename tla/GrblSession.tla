----------------------------- MODULE GrblSession -----------------------------
(***************************************************************************)
(* The grblHAL session of the pendant: the state machine of                *)
(* cnc/grblhal/engine.zig and engine_poll.zig, the passive-mode gate of    *)
(* engine_send.zig and the three driver commands that reset or unlock the  *)
(* controller (driver_commands.zig), with a controller at the other end    *)
(* that answers what it is asked.                                          *)
(*                                                                         *)
(* The controller may go into alarm or fall silent for good; a PC sender   *)
(* may run a job of its own, requests and answers may be lost.  Time is    *)
(* counted in units of which one banner wait, one query retry and one      *)
(* status poll take one each.                                              *)
(***************************************************************************)
EXTENDS Integers, Sequences

CONSTANTS
  MaxRetries,   (* max_query_retries                                       *)
  Timeout,      (* response_timeout_ms                                     *)
  BusyTimeout,  (* busy_response_timeout_ms                                *)
  EnumLines,    (* lines of requestEnumerations: four in the code          *)
  Enums,        (* the controller announces the ENUMS capability           *)
  Troubles,     (* beside alarms: "silence", the controller falls silent;  *)
                (* "jobs", a PC sender starts and ends jobs; "loss",       *)
                (* requests and answers are lost                           *)
  Ops,          (* the operator's commands: "reset", "stop", "unlock"      *)
  MaxPresses,   (* bound: commands and connects in a behaviour, one less   *)
                (* where jobs or losses multiply the behaviours            *)
  MaxQueue      (* bound: requests, and answers, under way beyond which    *)
                (* nothing but what an answer brings about is added        *)

ASSUME SessionAssumption ==
  /\ {MaxRetries, EnumLines, MaxPresses} \subseteq Nat
  /\ Timeout \in Nat \ {0} /\ BusyTimeout \in Nat /\ BusyTimeout >= Timeout
  /\ Enums \in BOOLEAN /\ Troubles \subseteq {"silence", "jobs", "loss"}
  /\ Ops \subseteq {"reset", "stop", "unlock"}
  /\ MaxQueue \in Nat /\ MaxQueue >= 2

VARIABLES
  session,                      (* Engine.state                            *)
  mach, mpg,                    (* parser.status: state, mpg_remote        *)
  caps,                         (* ctrl_info.caps.enums                    *)
  welcomed, enums_requested,    (* welcome_received, enums_requested       *)
  needs_info, pending_unlock,
  retries,                      (* query_retry_count                       *)
  since_connect, since_query,   (* ages of connect_ms, last_query_ms,      *)
  since_response, since_poll,   (* last_response_ms, last_poll_ms          *)
  req, ans,                     (* under way to and from the controller    *)
  real, real_mpg, alive,        (* the controller                          *)
  presses,                      (* history: commands and connects          *)
  trouble                       (* what this behaviour may meet            *)

parsed == <<mach, mpg, caps>>
ages   == <<since_connect, since_query, since_response, since_poll>>
flags  == <<welcomed, enums_requested, needs_info, pending_unlock, retries>>
ctl    == <<real, real_mpg, alive>>
vars == <<session, parsed, flags, ages, req, ans, ctl, presses, trouble>>

Sessions == {"disconnected", "wait_banner", "querying", "configuring", "ready",
             "locked", "mpg_blocked"}
Answering == {"ready", "locked", "mpg_blocked"}

(* A text line is left out silently while another sender runs the machine. *)
CanSendLine(state, owned) == state = "busy" => owned

(* Items under way to the controller.  The clock and the operator wait for *)
(* room; what an answer brings about is sent at once.                      *)
Transmit(items) == req' = req \o items
TransmitIfRoom(items) == Len(req) + Len(items) <= MaxQueue /\ Transmit(items)
Info(state, owned) == IF CanSendLine(state, owned) THEN <<"info">> ELSE <<>>
Unlock == <<"unlock", "query">>
Event(kind) == [kind |-> kind, mach |-> real, mpg |-> real_mpg]

Init ==
  /\ session = "disconnected" /\ mach = "off" /\ mpg = FALSE /\ caps = FALSE
  /\ welcomed = FALSE /\ enums_requested = FALSE /\ needs_info = FALSE
  /\ pending_unlock = FALSE /\ retries = 0
  /\ since_connect = 0 /\ since_query = 0 /\ since_response = 0 /\ since_poll = 0
  /\ req = <<>> /\ ans = <<>>
  /\ real = "idle" /\ real_mpg = FALSE /\ alive = TRUE
  /\ presses = 0 /\ trouble \in Troubles

-----------------------------------------------------------------------------
(***************************************************************************)
(* The transport opens and closes the session.                             *)
(***************************************************************************)
Press ==
  /\ presses < (IF trouble = "silence" THEN MaxPresses ELSE MaxPresses - 1)
  /\ presses' = presses + 1

(* Mutant: a welcome heard in an earlier session still counts.             *)
MutConnect ==
  /\ Press
  /\ session' = "wait_banner" /\ since_connect' = 0 /\ since_response' = 0
  /\ UNCHANGED welcomed /\ enums_requested' = FALSE /\ retries' = 0
  /\ UNCHANGED <<parsed, needs_info, pending_unlock, since_query, since_poll, req, ans, ctl,
                 trouble>>

Connect ==
  /\ Press
  /\ session' = "wait_banner" /\ since_connect' = 0 /\ since_response' = 0
  /\ welcomed' = FALSE /\ enums_requested' = FALSE /\ retries' = 0
  /\ UNCHANGED <<parsed, needs_info, pending_unlock, since_query, since_poll, req, ans, ctl,
                 trouble>>

OnDisconnect ==
  /\ session' = "disconnected" /\ mach' = "off" /\ retries' = 0
  /\ UNCHANGED <<mpg, caps, welcomed, enums_requested, needs_info, pending_unlock>>

Disconnect ==
  /\ session # "disconnected" /\ Press
  /\ OnDisconnect
  /\ UNCHANGED <<ages, req, ans, ctl, trouble>>

-----------------------------------------------------------------------------
(***************************************************************************)
(* engine_poll.poll, once per sys_task tick.                               *)
(***************************************************************************)
pollFrame == <<parsed, welcomed, enums_requested, pending_unlock, since_connect,
               since_response, ans, ctl, presses, trouble>>

PollBanner ==
  /\ session = "wait_banner" /\ since_connect >= 1 /\ ~welcomed
  /\ TransmitIfRoom(<<"query">>)
  /\ session' = "querying" /\ since_query' = 0
  /\ UNCHANGED <<needs_info, retries, since_poll, pollFrame>>

(* Mutant: a query that is not answered is never given up.                 *)
MutGiveUp == FALSE
GiveUp == retries >= MaxRetries /\ mach # "busy"

PollQuery ==
  /\ session = "querying" /\ since_query >= 1 /\ ~GiveUp
  /\ TransmitIfRoom(<<"query">>)
  /\ retries' = IF retries < MaxRetries THEN retries + 1 ELSE retries
  /\ since_query' = 0
  /\ UNCHANGED <<session, needs_info, since_poll, pollFrame>>

PollGiveUp ==
  /\ session = "querying" /\ since_query >= 1 /\ GiveUp
  /\ OnDisconnect
  /\ UNCHANGED <<ages, req, ans, ctl, presses, trouble>>

Silent == since_response >= (IF mach = "busy" THEN BusyTimeout ELSE Timeout)

PollTimeout ==
  /\ session \in Answering /\ Silent
  /\ OnDisconnect
  /\ UNCHANGED <<ages, req, ans, ctl, presses, trouble>>

Identifies == needs_info /\ CanSendLine(mach, mpg)

PollReady ==
  /\ session = "ready" /\ ~Silent /\ (since_poll >= 1 \/ Identifies)
  /\ TransmitIfRoom((IF since_poll >= 1 THEN <<"query">> ELSE <<>>)
               \o (IF Identifies THEN <<"info">> ELSE <<>>))
  /\ since_poll' = 0
  /\ needs_info' = (needs_info /\ ~Identifies)
  /\ session' = IF Identifies THEN "configuring" ELSE session
  /\ UNCHANGED <<retries, since_query, pollFrame>>

PollWaiting ==
  /\ session \in {"locked", "mpg_blocked"} /\ ~Silent /\ since_poll >= 1
  /\ TransmitIfRoom(<<"query">>)
  /\ since_poll' = 0
  /\ UNCHANGED <<session, needs_info, retries, since_query, pollFrame>>

Poll == PollBanner \/ PollQuery \/ PollGiveUp \/ PollTimeout \/ PollReady \/ PollWaiting

-----------------------------------------------------------------------------
(***************************************************************************)
(* processLine: one answer of the controller.                              *)
(***************************************************************************)
Heard(kind) ==
  /\ ans # <<>> /\ Head(ans).kind = kind
  /\ ans' = Tail(ans) /\ since_response' = 0

lineFrame == <<since_connect, since_query, since_poll, ctl, presses, trouble>>

RxWelcome ==
  /\ Heard("welcome")
  /\ LET greeted == session \in {"wait_banner", "querying"}
     IN  /\ Transmit((IF pending_unlock THEN Unlock ELSE <<>>)
                     \o (IF greeted THEN Info(mach, mpg) ELSE <<>>))
         /\ session' = IF greeted THEN "configuring" ELSE session
         /\ retries' = IF greeted THEN 0 ELSE retries
  /\ welcomed' = TRUE /\ pending_unlock' = FALSE
  /\ UNCHANGED <<parsed, enums_requested, needs_info, lineFrame>>

Blocked(owned) ==
  CASE owned -> "mpg_blocked"
    [] ~owned /\ session = "mpg_blocked" -> "ready"
    [] OTHER -> session

(* Mutants: an alarm does not lock a session that MPG has blocked, or any  *)
(* session after the first report.                                         *)
MutAlarmBlocked(a) ==
  IF session = "querying"
  THEN IF a.mach = "alarm" THEN "locked"
       ELSE IF CanSendLine(a.mach, a.mpg) THEN "configuring" ELSE "ready"
  ELSE IF a.mach = "alarm" /\ ~a.mpg THEN "locked"
  ELSE IF Blocked(a.mpg) = "locked" THEN "ready"
  ELSE Blocked(a.mpg)

MutAlarmLater(a) ==
  IF session = "querying"
  THEN IF a.mach = "alarm" THEN "locked"
       ELSE IF CanSendLine(a.mach, a.mpg) THEN "configuring" ELSE "ready"
  ELSE IF Blocked(a.mpg) = "locked" THEN "ready"
  ELSE Blocked(a.mpg)

(* Where a status report takes the session.  A report of an alarm carries  *)
(* its code, as in all of the repository's tests: without one the alarm    *)
(* would not lock (alarmLocksController).                                  *)
AfterReport(a) ==
  IF session = "querying"
  THEN IF a.mach = "alarm" THEN "locked"
       ELSE IF CanSendLine(a.mach, a.mpg) THEN "configuring" ELSE "ready"
  ELSE IF a.mach = "alarm" THEN "locked"
  ELSE IF Blocked(a.mpg) = "locked" THEN "ready"
  ELSE Blocked(a.mpg)

RxStatus ==
  /\ Heard("status")
  /\ LET a == Head(ans)
         asks == session = "querying" /\ a.mach # "alarm"
     IN  /\ mach' = a.mach /\ mpg' = a.mpg
         /\ session' = AfterReport(a)
         /\ retries' = IF session = "querying" THEN 0 ELSE retries
         /\ Transmit(IF asks THEN Info(a.mach, a.mpg) ELSE <<>>)
         /\ needs_info' = (needs_info \/ (asks /\ ~CanSendLine(a.mach, a.mpg)))
  /\ UNCHANGED <<caps, welcomed, enums_requested, pending_unlock, lineFrame>>

RxAlarm ==
  /\ Heard("alarm")
  /\ mach' = "alarm" /\ session' = "locked"
  /\ UNCHANGED <<mpg, caps, flags, req, lineFrame>>

AsksEnums == ~enums_requested /\ caps

RxOk ==
  /\ Heard("ok")
  /\ IF session = "configuring" /\ AsksEnums
     THEN /\ Transmit(IF CanSendLine(mach, mpg) THEN [i \in 1..EnumLines |-> "enum"] ELSE <<>>)
          /\ enums_requested' = TRUE /\ UNCHANGED session
     ELSE /\ session' = IF session = "configuring" THEN "ready" ELSE session
          /\ UNCHANGED <<req, enums_requested>>
  /\ UNCHANGED <<parsed, welcomed, needs_info, pending_unlock, retries, lineFrame>>

(* [NEWOPT:ENUMS] within the answer to $I.                                 *)
RxInfo ==
  /\ Heard("newopt")
  /\ caps' = TRUE
  /\ UNCHANGED <<session, mach, mpg, flags, req, lineFrame>>

(* error:8, which no branch of the session takes up.                       *)
RxErr ==
  /\ Heard("err")
  /\ UNCHANGED <<session, parsed, flags, req, lineFrame>>

(* A line that arrives while the session is closed is parsed all the same. *)
Rx == RxWelcome \/ RxStatus \/ RxAlarm \/ RxOk \/ RxInfo \/ RxErr

-----------------------------------------------------------------------------
(***************************************************************************)
(* The operator's commands.                                                *)
(***************************************************************************)
Connected(op) == op \in Ops /\ session # "disconnected" /\ Press

SendReset ==
  /\ welcomed' = FALSE /\ enums_requested' = FALSE
  /\ session' = "wait_banner" /\ since_connect' = 0
  /\ TransmitIfRoom(<<"reset">>)

cmdFrame == <<parsed, needs_info, retries, since_query, since_response, since_poll, ans, ctl,
              trouble>>

CmdReset ==
  /\ Connected("reset") /\ SendReset
  /\ pending_unlock' = TRUE
  /\ UNCHANGED cmdFrame

CmdStop ==
  /\ Connected("stop") /\ SendReset
  /\ UNCHANGED <<pending_unlock, cmdFrame>>

CmdUnlock ==
  /\ Connected("unlock") /\ TransmitIfRoom(Unlock)
  /\ pending_unlock' = (pending_unlock \/ session \in {"wait_banner", "querying", "configuring"})
  /\ UNCHANGED <<session, welcomed, enums_requested, since_connect, cmdFrame>>

Ui == CmdReset \/ CmdStop \/ CmdUnlock

-----------------------------------------------------------------------------
(***************************************************************************)
(* The controller, as the comments of engine.zig and engine_send.zig       *)
(* describe grblHAL, and the link.                                         *)
(***************************************************************************)
Say(events) == Len(ans) + Len(events) <= MaxQueue /\ ans' = ans \o events
ctlFrame == <<session, parsed, flags, ages, presses, trouble>>

(* error:8 for a $ line while the machine runs; else the answer and ok.    *)
Reply(item) ==
  CASE item = "query" -> <<Event("status")>>
    [] item # "query" /\ real = "busy" /\ ~real_mpg -> <<Event("err")>>
    [] item = "info" /\ Enums /\ (real = "busy" => real_mpg) -> <<Event("newopt"), Event("ok")>>
    [] OTHER -> <<Event("ok")>>

CtlAnswer ==
  /\ alive /\ req # <<>> /\ Head(req) # "reset"
  /\ Say(Reply(Head(req))) /\ req' = Tail(req)
  /\ real' = IF Head(req) = "unlock" /\ real = "alarm" THEN "idle" ELSE real
  /\ UNCHANGED <<real_mpg, alive, ctlFrame>>

CtlReset ==
  /\ alive /\ req # <<>> /\ Head(req) = "reset"
  /\ Say(<<Event("welcome")>>) /\ req' = Tail(req)
  /\ real' = "idle" /\ UNCHANGED <<real_mpg, alive, ctlFrame>>

CtlJob ==
  /\ alive /\ trouble = "jobs" /\ real \in {"idle", "busy"}
  /\ real' = IF real = "idle" THEN "busy" ELSE "idle"
  /\ UNCHANGED <<real_mpg, alive, req, ans, ctlFrame>>

CtlMpg ==
  /\ alive /\ real = "idle" /\ real_mpg' = ~real_mpg
  /\ UNCHANGED <<real, alive, req, ans, ctlFrame>>

CtlAlarm ==
  /\ alive /\ real # "alarm"
  /\ real' = "alarm" /\ Say(<<Event("alarm")>>)
  /\ UNCHANGED <<real_mpg, alive, req, ctlFrame>>

CtlDies == trouble = "silence" /\ alive' = FALSE /\ req' = <<>> /\ UNCHANGED <<real, real_mpg, ans, ctlFrame>>

Lose ==
  /\ trouble = "loss"
  /\ \/ req # <<>> /\ req' = Tail(req) /\ UNCHANGED ans
     \/ ans # <<>> /\ ans' = Tail(ans) /\ UNCHANGED req
  /\ UNCHANGED <<ctl, ctlFrame>>

(* A dead controller's queue empties into the void.                        *)
Vanish == ~alive /\ req # <<>> /\ req' = <<>> /\ UNCHANGED <<ans, ctl, ctlFrame>>

Controller == CtlAnswer \/ CtlReset \/ CtlJob \/ CtlMpg \/ CtlAlarm \/ CtlDies \/ Lose \/ Vanish

Older(age, most) == IF age < most THEN age + 1 ELSE age
Clock ==
  /\ since_connect' = Older(since_connect, 1) /\ since_query' = Older(since_query, 1)
  /\ since_response' = Older(since_response, BusyTimeout) /\ since_poll' = Older(since_poll, 1)
  /\ UNCHANGED <<session, parsed, flags, req, ans, ctl, presses, trouble>>

Next == Clock \/ Connect \/ Disconnect \/ Poll \/ Rx \/ Ui \/ Controller

Spec == Init /\ [][Next]_vars

(* sys_task runs; a live controller answers, and a job or an alarm does    *)
(* not keep it from answering.                                             *)
FairSpec ==
  /\ Spec /\ WF_vars(Clock) /\ WF_vars(Poll) /\ WF_vars(Rx)
  /\ WF_vars(CtlAnswer \/ CtlReset) /\ WF_vars(Vanish)

-----------------------------------------------------------------------------
(* Every variable keeps to its values.                                     *)
TypeOK ==
  /\ session \in Sessions /\ mach \in {"off", "idle", "busy", "alarm"}
  /\ {mpg, caps, welcomed, enums_requested, needs_info, pending_unlock,
      real_mpg, alive} \subseteq BOOLEAN
  /\ retries \in 0..MaxRetries
  /\ {since_connect, since_query, since_poll} \subseteq 0..1
  /\ since_response \in 0..BusyTimeout
  /\ req \in Seq({"query", "info", "enum", "unlock", "reset"})
  /\ ans \in Seq([kind : {"status", "ok", "newopt", "err", "welcome", "alarm"},
                  mach : {"idle", "busy", "alarm"}, mpg : BOOLEAN])
  /\ real \in {"idle", "busy", "alarm"} /\ presses \in 0..MaxPresses
  /\ trouble \in Troubles

(* mpg_blocked lasts only as long as the reports say that MPG is granted,  *)
(* and never hides an alarm: a machine in alarm has to be unlocked first.  *)
BlockedIsMpg == session = "mpg_blocked" => mpg /\ mach # "alarm"

(* A session that was opened or reset gets through its handshake, unless   *)
(* it is closed, the controller falls silent meanwhile, or the answer to   *)
(* $I is refused or lost.                                                  *)
Connects ==
  session = "wait_banner" ~>
    session \in Answering \cup {"disconnected"} \/ ~alive \/ trouble # "silence"

(* An alarm that persists locks the session, whether the pendant heard of  *)
(* it by the ALARM line, by a report or only after MPG was revoked.        *)
AlarmSeen ==
  session \in Answering /\ real = "alarm" ~>
    session = "locked" \/ session \notin Answering \/ real # "alarm" \/ ~alive
      \/ trouble = "loss"

(* A controller that fell silent is noticed in every state but the two     *)
(* that wait without a limit.                                              *)
LossNoticed ==
  ~alive ~> \/ session = "disconnected"
            \/ session = "configuring"
            \/ session = "querying" /\ mach = "busy"
=============================================================================
