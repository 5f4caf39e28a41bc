--------------------------- MODULE StreamSession ---------------------------
(***************************************************************************)
(* The sessions with LinuxCNC (linuxcncrsh) and Mach3/Mach4 (MMBP) over    *)
(* TCP: the poll loop they share (cnc/stream_poll.zig), each engine's      *)
(* processLine, and the commands that reset and unlock the controller,     *)
(* with a controller at the other end.                                     *)
(*                                                                         *)
(* The connection may break and come back, a send may fail, the controller *)
(* may refuse the enable password or fall silent.  Time is counted in      *)
(* units of which one query retry and one status poll take one each.       *)
(* last_response_ms = 0, which suspends the response timeout, is left out: *)
(* it holds only for a line heard in the first millisecond of the clock.   *)
(***************************************************************************)
EXTENDS Integers, Sequences

CONSTANTS
  MaxRetries,          (* max_query_retries                                *)
  HelloTimeout,        (* handshake_timeout_ms                             *)
  Timeout,             (* response_timeout_ms                              *)
  LinuxCncOps, MachOps,(* the operator's commands with each of the two     *)
  Troubles,            (* beside a link that breaks and a controller that  *)
                       (* falls silent: "none"; "unlock", LinuxCNC may be  *)
                       (* unlocked; "rough", that too, passwords may be    *)
                       (* refused, sends fail (their result is not looked  *)
                       (* at) and answers take any time                    *)
  MaxPresses,          (* bound: commands and connects in a behaviour      *)
  MaxQueue             (* bound: answers under way, and requests beyond    *)
                       (* which only what an answer brings about is added  *)

ASSUME StreamAssumption ==
  /\ {MaxRetries, MaxPresses} \subseteq Nat
  /\ {HelloTimeout, Timeout} \subseteq Nat \ {0} /\ MaxQueue \in Nat /\ MaxQueue >= 2
  /\ LinuxCncOps \subseteq {"reset", "unlock"}
  /\ MachOps \subseteq {"reset", "unlock", "mdi"}
  /\ Troubles \subseteq {"none", "unlock", "rough"}

VARIABLES
  dialect,                     (* Engine.active: linuxcnc or mach3         *)
  session,                     (* Engine.state                             *)
  hello_done, enable_done,
  retries,                     (* query_retry_count                        *)
  since_connect, since_query,  (* ages of connect_ms, last_query_ms,       *)
  since_response, since_poll,  (* last_response_ms, last_poll_ms           *)
  open,                        (* the TCP connection                       *)
  req, ans,                    (* under way to and from the controller     *)
  enabled, estop, alive,       (* the controller                           *)
  presses,                     (* history: commands and connects           *)
  trouble                      (* what this behaviour may meet             *)

flags == <<hello_done, enable_done, retries>>
ages  == <<since_connect, since_query, since_response, since_poll>>
ctl   == <<enabled, estop, alive>>
vars  == <<dialect, session, flags, ages, open, req, ans, ctl, presses,
          trouble>>

Sessions == {"disconnected", "wait_banner", "configuring", "querying", "ready", "locked"}
LinuxCnc == dialect = "linuxcnc"
Ops == IF LinuxCnc THEN LinuxCncOps ELSE MachOps

(* What is sent without a connection goes nowhere.                         *)
Transmit(items) == req' = IF open THEN req \o items ELSE req
TransmitIfRoom(item) == Len(req) < MaxQueue /\ Transmit(<<item>>)

Init ==
  /\ dialect \in {d \in {"linuxcnc", "mach3"} :
                    (IF d = "linuxcnc" THEN LinuxCncOps ELSE MachOps) # {}}
  /\ session = "disconnected" /\ hello_done = FALSE /\ enable_done = FALSE /\ retries = 0
  /\ since_connect = 0 /\ since_query = 0 /\ since_response = 0 /\ since_poll = 0
  /\ open = FALSE /\ req = <<>> /\ ans = <<>>
  /\ enabled = FALSE /\ estop \in BOOLEAN /\ alive = TRUE
  /\ presses = 0 /\ trouble \in Troubles

-----------------------------------------------------------------------------
(***************************************************************************)
(* The connection.  3 s lie between its end and the next attempt, so the   *)
(* lines that had been received are processed by then.                     *)
(***************************************************************************)
Press == presses < MaxPresses /\ presses' = presses + 1

Connect ==
  /\ ~open /\ ans = <<>> /\ Press
  /\ open' = TRUE /\ req' = <<"hello">>
  /\ session' = "wait_banner" /\ since_connect' = 0 /\ since_response' = 0
  /\ hello_done' = FALSE /\ enable_done' = FALSE /\ retries' = 0
  /\ enabled' = FALSE
  /\ UNCHANGED <<dialect, since_query, since_poll, ans, estop, alive, trouble>>

(* hello_done and enable_done stay as they are.                            *)
OnDisconnect ==
  /\ session' = "disconnected" /\ retries' = 0 /\ UNCHANGED <<hello_done, enable_done>>

(* What is in the receive ring is still processed; the rest is lost.       *)
Break ==
  /\ open /\ open' = FALSE
  /\ OnDisconnect
  /\ req' = <<>> /\ \E n \in 0..Len(ans) : ans' = SubSeq(ans, 1, n)
  /\ UNCHANGED <<dialect, ages, ctl, presses, trouble>>

-----------------------------------------------------------------------------
(***************************************************************************)
(* stream_poll.poll, once per sys_task tick.                               *)
(***************************************************************************)
pollFrame == <<dialect, hello_done, enable_done, since_connect, since_response, open,
               ans, ctl, presses, trouble>>

(* Mutant: a handshake that has come as far as HELLO ACK is not given up.  *)
MutHelloLate == session = "wait_banner" /\ since_connect >= HelloTimeout /\ ~hello_done
(* The handshake has taken too long: LinuxCNC waits for two answers.       *)
HelloLate ==
  /\ since_connect >= HelloTimeout
  /\ \/ session = "wait_banner" /\ ~hello_done
     \/ session = "configuring" /\ LinuxCnc /\ ~enable_done

(* Mutant: a locked session is not watched.                                *)
MutLinked == session = "ready" \/ (session = "configuring" /\ ~LinuxCnc)
(* The poll counts down to the response timeout and asks for the status.   *)
Linked == session \in {"ready", "locked"} \/ (session = "configuring" /\ ~LinuxCnc)

QueryDue == session = "querying" /\ since_query >= 1
Silent == Linked /\ since_response >= Timeout
PollDue == Linked /\ ~Silent /\ since_poll >= 1

PollGiveUp ==
  /\ HelloLate \/ Silent \/ (QueryDue /\ retries >= MaxRetries)
  /\ OnDisconnect
  /\ UNCHANGED <<dialect, ages, open, req, ans, ctl, presses, trouble>>

PollQuery ==
  /\ QueryDue /\ retries < MaxRetries
  /\ TransmitIfRoom("poll")
  /\ retries' = retries + 1 /\ since_query' = 0
  /\ UNCHANGED <<session, since_poll, pollFrame>>

PollStatus ==
  /\ PollDue
  /\ TransmitIfRoom("poll")
  /\ since_poll' = 0
  /\ UNCHANGED <<session, retries, since_query, pollFrame>>

Poll == PollGiveUp \/ PollQuery \/ PollStatus

-----------------------------------------------------------------------------
(***************************************************************************)
(* processLine: one line of the controller, whatever the session's state.  *)
(***************************************************************************)
Line(kind, on) == [kind |-> kind, on |-> on]
(* Mutant: only the greeting counts as a response.                         *)
MutHeard(line) ==
  /\ ans # <<>> /\ Head(ans) = line /\ ans' = Tail(ans)
  /\ since_response' = IF line.kind = "hello" THEN 0 ELSE since_response

Heard(line) ==
  /\ ans # <<>> /\ Head(ans) = line
  /\ ans' = Tail(ans) /\ since_response' = 0

lineFrame == <<dialect, since_connect, since_poll, open, ctl, presses, trouble>>

(* HELLO ACK.  LinuxCNC is set up, its setup ends with get enable.         *)
RxHello ==
  /\ Heard(Line("hello", TRUE))
  /\ hello_done' = TRUE
  /\ IF LinuxCnc
     THEN session' = "configuring" /\ Transmit(<<"setup">>) /\ UNCHANGED <<retries, since_query>>
     ELSE session' = "querying" /\ Transmit(<<"poll">>) /\ retries' = 0 /\ since_query' = 0
  /\ UNCHANGED <<enable_done, lineFrame>>

RxNak ==
  /\ Heard(Line("hello", FALSE)) /\ OnDisconnect
  /\ UNCHANGED <<since_query, req, lineFrame>>

(* LinuxCNC: ENABLE ON, ENABLE OFF.                                        *)
RxEnableOn ==
  /\ Heard(Line("enable", TRUE))
  /\ enable_done' = TRUE /\ session' = "querying" /\ retries' = 0 /\ since_query' = 0
  /\ Transmit(<<"poll">>)
  /\ UNCHANGED <<hello_done, lineFrame>>

RxEnableOff ==
  /\ Heard(Line("enable", FALSE))
  /\ enable_done' = FALSE
  /\ session' = IF session \in {"ready", "querying", "locked"} THEN "configuring" ELSE session
  /\ UNCHANGED <<hello_done, retries, since_query, req, lineFrame>>

(* Mutant: the end of the emergency stop makes every session ready.        *)
MutRxEstop == \E on \in BOOLEAN :
  /\ Heard(Line("estop", on))
  /\ session' = IF on THEN "locked" ELSE IF session = "locked" THEN "ready" ELSE session
  /\ UNCHANGED <<flags, since_query, req, lineFrame>>

(* LinuxCNC: ESTOP ON, ESTOP OFF.                                          *)
RxEstop == \E on \in BOOLEAN :
  /\ Heard(Line("estop", on))
  /\ session' = IF on THEN "locked"
                ELSE IF session # "locked" THEN session
                ELSE IF enable_done THEN "ready" ELSE "configuring"
  /\ UNCHANGED <<flags, since_query, req, lineFrame>>

(* Mutant: a ready session takes no notice of the emergency stop.          *)
MutRxStatus == \E on \in BOOLEAN :
  /\ Heard(Line("status", on))
  /\ session' = IF on /\ session # "ready" THEN "locked"
                ELSE IF session \in {"querying", "configuring", "locked"} THEN "ready"
                ELSE session
  /\ retries' = IF session' = "ready" /\ session # "ready" THEN 0 ELSE retries
  /\ UNCHANGED <<hello_done, enable_done, since_query, req, lineFrame>>

(* Mach3: STATUS with ESTOP=1 or without.                                  *)
RxStatus == \E on \in BOOLEAN :
  /\ Heard(Line("status", on))
  /\ session' = IF on THEN "locked"
                ELSE IF session \in {"querying", "configuring", "locked"} THEN "ready"
                ELSE session
  /\ retries' = IF session' = "ready" /\ session # "ready" THEN 0 ELSE retries
  /\ UNCHANGED <<hello_done, enable_done, since_query, req, lineFrame>>

(* The other lines of a status poll: positions, overrides, spindle.        *)
RxData ==
  /\ Heard(Line("data", FALSE))
  /\ IF session = "querying" \/ (session = "configuring" /\ ~LinuxCnc)
     THEN session' = "ready" /\ retries' = 0
     ELSE UNCHANGED <<session, retries>>
  /\ UNCHANGED <<hello_done, enable_done, since_query, req, lineFrame>>

(* Mach3: OK.                                                              *)
RxOk ==
  /\ Heard(Line("ok", FALSE))
  /\ session' = IF session \in {"configuring", "locked"} THEN "ready" ELSE session
  /\ UNCHANGED <<flags, since_query, req, lineFrame>>

Rx == RxHello \/ RxNak \/ RxEnableOn \/ RxEnableOff \/ RxEstop \/ RxStatus \/ RxData \/ RxOk

-----------------------------------------------------------------------------
(***************************************************************************)
(* The operator's commands.                                                *)
(***************************************************************************)
Command(op) == op \in Ops /\ session # "disconnected" /\ Press /\ TransmitIfRoom(op)
cmdFrame == <<dialect, hello_done, retries, since_query, since_response, since_poll,
              open, ans, ctl, trouble>>

(* cmdReset and cmdStop: sendReset.                                        *)
CmdReset ==
  /\ Command("reset") /\ session' = "locked"
  /\ UNCHANGED <<enable_done, since_connect, cmdFrame>>

CmdUnlock ==
  /\ Command("unlock") /\ (LinuxCnc => trouble # "none")
  /\ IF session = "locked"
     THEN /\ session' = "configuring" /\ since_connect' = 0
          /\ enable_done' = (enable_done /\ ~LinuxCnc)
     ELSE UNCHANGED <<session, since_connect, enable_done>>
  /\ UNCHANGED cmdFrame

(* A line of G-code, as an example of what Mach3 answers by OK.            *)
CmdMdi ==
  /\ session \in {"ready", "locked"} /\ Command("mdi")
  /\ UNCHANGED <<session, enable_done, since_connect, cmdFrame>>

Ui == CmdReset \/ CmdUnlock \/ CmdMdi

-----------------------------------------------------------------------------
(***************************************************************************)
(* The controller, as far as the engines rely on it.  With verbose off     *)
(* LinuxCNC answers a set only if it fails; MMBP answers each CMD by OK.   *)
(***************************************************************************)
ctlFrame == <<dialect, session, flags, ages, presses, trouble>>
Ok == IF LinuxCnc THEN <<>> ELSE <<Line("ok", FALSE)>>
Rough == trouble = "rough"
Allows == IF Rough THEN BOOLEAN ELSE {TRUE}

Reply(item, allowed) ==
  CASE item = "hello" -> <<Line("hello", allowed)>>
    [] item = "setup" -> <<Line("enable", allowed)>>
    [] item = "poll"  -> <<Line(IF LinuxCnc THEN "estop" ELSE "status", estop), Line("data", FALSE)>>
    [] OTHER -> Ok

CtlAnswer == \E allowed \in Allows :
  /\ alive /\ open /\ req # <<>>
  /\ ans' = ans \o Reply(Head(req), allowed) /\ Len(ans') <= MaxQueue
  /\ req' = Tail(req)
  /\ enabled' = IF Head(req) = "setup" THEN allowed ELSE enabled
  /\ estop' = CASE Head(req) = "reset" -> TRUE
                [] Head(req) = "unlock" -> FALSE
                [] OTHER -> estop
  /\ UNCHANGED <<open, alive, ctlFrame>>

(* The emergency stop at the machine is pressed or released.               *)
CtlEstop == alive /\ estop' = ~estop /\ UNCHANGED <<enabled, alive, open, req, ans, ctlFrame>>

CtlDies == alive' = FALSE /\ UNCHANGED <<enabled, estop, open, req, ans, ctlFrame>>

(* Nobody answers any more, or a send fails (its time limit is 100 ms).    *)
Lose == \E i \in 1..Len(req) :
  /\ ~alive \/ Rough
  /\ req' = SubSeq(req, 1, i - 1) \o SubSeq(req, i + 1, Len(req))
  /\ UNCHANGED <<open, ans, ctl, ctlFrame>>

Controller == CtlAnswer \/ CtlEstop \/ CtlDies \/ Lose

Settled == req = <<>> /\ ans = <<>> /\ ~(HelloLate \/ Silent \/ QueryDue \/ PollDue)
Older(age, most) == IF age < most THEN age + 1 ELSE age
Clock ==
  /\ ~Rough /\ alive => Settled
  /\ since_connect' = Older(since_connect, HelloTimeout) /\ since_query' = Older(since_query, 1)
  /\ since_response' = Older(since_response, Timeout) /\ since_poll' = Older(since_poll, 1)
  /\ UNCHANGED <<dialect, session, flags, open, req, ans, ctl, presses, trouble>>

Next == Clock \/ Connect \/ Break \/ Poll \/ Rx \/ Ui \/ Controller

Spec == Init /\ [][Next]_vars

(* sys_task drains the ring and polls; a live controller answers.          *)
FairSpec ==
  /\ Spec /\ WF_vars(Clock) /\ WF_vars(Poll) /\ WF_vars(Rx)
  /\ WF_vars(CtlAnswer) /\ WF_vars(~alive /\ Lose)

-----------------------------------------------------------------------------
(* Every variable keeps to its values.                                     *)
TypeOK ==
  /\ dialect \in {"linuxcnc", "mach3"} /\ session \in Sessions
  /\ {hello_done, enable_done, open, enabled, estop, alive} \subseteq BOOLEAN
  /\ retries \in 0..MaxRetries
  /\ since_connect \in 0..HelloTimeout /\ since_response \in 0..Timeout
  /\ {since_query, since_poll} \subseteq 0..1
  /\ req \in Seq({"hello", "setup", "poll", "reset", "unlock", "mdi"})
  /\ ans \in Seq([kind : {"hello", "enable", "estop", "status", "data", "ok"}, on : BOOLEAN])
  /\ presses \in 0..MaxPresses /\ trouble \in Troubles

(* With LinuxCNC, a session over an open connection is ready only if that  *)
(* connection has been enabled: neither the emergency stop and its end nor *)
(* a line of an earlier connection makes it so (RxEnableOn, RxEstop).      *)
ReadyIsEnabled == LinuxCnc /\ open /\ session = "ready" => enabled

(* A handshake, an unlock and a query come to an end: the session can be   *)
(* used, or it is given up, and that only if something went wrong.         *)
Handshake == session \in {"wait_banner", "configuring", "querying"}
Settles == Handshake ~> \/ session \in {"ready", "locked"}
                        \/ session = "disconnected" /\ (Rough \/ ~open \/ ~alive)

(* A session that is ready while the machine is stopped hears of it, also  *)
(* when an OK or an old answer has just made it ready.                     *)
EstopSeen == session = "ready" /\ estop ~> session # "ready" \/ ~estop \/ ~alive

(* A controller that fell silent is noticed in every state.                *)
LossNoticed == ~alive ~> session = "disconnected"

(* A session whose controller answers in time is not given up.             *)
KeptWhileAnswered ==
  [][session' = "disconnected" => session = "disconnected" \/ ~open' \/ ~alive \/ Rough]_vars
=============================================================================
