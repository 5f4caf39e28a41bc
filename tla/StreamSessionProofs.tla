------------------------- MODULE StreamSessionProofs -------------------------
(***************************************************************************)
(* The sessions with LinuxCNC and Mach3 keep their variables to their      *)
(* values, and a LinuxCNC session is ready only over a connection that has *)
(* been enabled, for any time limits, retries, troubles and commands and   *)
(* however many requests and answers are under way. A controller that      *)
(* answers in time is never given up.                                      *)
(***************************************************************************)
EXTENDS StreamSession, TLAPS

Items  == {"hello", "setup", "poll", "reset", "unlock", "mdi"}
Lines == [kind : {"hello", "enable", "estop", "status", "data", "ok"}, on : BOOLEAN]

LEMMA Bounds ==
  /\ MaxRetries \in Nat /\ MaxPresses \in Nat
  /\ HelloTimeout \in Nat \ {0} /\ Timeout \in Nat \ {0}
BY StreamAssumption

LEMMA Joined ==
  ASSUME NEW S, NEW s \in Seq(S), NEW t \in Seq(S)
  PROVE  s \o t \in Seq(S)
OBVIOUS

LEMMA Taken ==
  ASSUME NEW S, NEW s \in Seq(S), s # <<>>
  PROVE  Head(s) \in S /\ Tail(s) \in Seq(S)
OBVIOUS

LEMMA Part ==
  ASSUME NEW S, NEW s \in Seq(S), NEW m \in 1..Len(s) + 1, NEW n \in 0..Len(s)
  PROVE  SubSeq(s, m, n) \in Seq(S)
OBVIOUS

LEMMA Aged ==
  ASSUME NEW most \in Nat, NEW age \in 0..most
  PROVE  Older(age, most) \in 0..most
BY DEF Older

(* TypeOK by the parts of the state.                                       *)
Session == dialect \in {"linuxcnc", "mach3"} /\ session \in Sessions /\ trouble \in Troubles
Flags == hello_done \in BOOLEAN /\ enable_done \in BOOLEAN
Counts == retries \in 0..MaxRetries /\ presses \in 0..MaxPresses
Times ==
  /\ since_connect \in 0..HelloTimeout /\ since_response \in 0..Timeout
  /\ since_query \in 0..1 /\ since_poll \in 0..1
Link == req \in Seq(Items) /\ ans \in Seq(Lines)
Far == open \in BOOLEAN /\ enabled \in BOOLEAN /\ estop \in BOOLEAN /\ alive \in BOOLEAN

TypeInv == Session /\ Flags /\ Counts /\ Times /\ Link /\ Far

LEMMA TypeInvTyped == TypeInv <=> TypeOK
BY DEF TypeInv, TypeOK, Session, Flags, Counts, Times, Link, Far, Items, Lines

LEMMA TypeInit == Init => TypeInv
<1> SUFFICES ASSUME Init PROVE TypeInv
  OBVIOUS
<1>1. Session /\ Flags /\ Far
  BY DEF Init, Session, Flags, Far, Sessions
<1>2. Counts /\ Times
  BY Bounds DEF Init, Counts, Times
<1>3. Link
  BY DEF Init, Link
<1> QED BY <1>1, <1>2, <1>3 DEF TypeInv

-----------------------------------------------------------------------------
(* What is said keeps to its kinds.                                        *)
LEMMA Sent ==
  ASSUME TypeInv, NEW item \in Items, Transmit(<<item>>)
  PROVE  req' \in Seq(Items)
<1>1. <<item>> \in Seq(Items)
  OBVIOUS
<1> QED BY <1>1, Joined DEF Transmit, TypeInv, Link

LEMMA Answered ==
  ASSUME TypeInv, NEW line, Heard(line)
  PROVE  ans' \in Seq(Lines) /\ since_response' = 0
BY Taken DEF Heard, TypeInv, Link

LEMMA LineTyped ==
  ASSUME NEW on \in BOOLEAN,
         NEW kind \in {"hello", "enable", "estop", "status", "data", "ok"}
  PROVE  Line(kind, on) \in Lines
BY DEF Line, Lines

LEMMA Spoken ==
  /\ <<>> \in Seq(Lines)
  /\ \A line \in Lines : <<line>> \in Seq(Lines)
  /\ \A line, other \in Lines : <<line, other>> \in Seq(Lines)
OBVIOUS

LEMMA ReplyTyped ==
  ASSUME TypeInv, NEW item \in Items, NEW allowed \in BOOLEAN
  PROVE  Reply(item, allowed) \in Seq(Lines)
<1>1. <<Line("hello", allowed)>> \in Seq(Lines) /\ <<Line("enable", allowed)>> \in Seq(Lines)
  BY LineTyped
<1>2. Ok \in Seq(Lines)
  <2>1. Line("ok", FALSE) \in Lines
    BY LineTyped
  <2>2. <<Line("ok", FALSE)>> \in Seq(Lines) /\ <<>> \in Seq(Lines)
    BY <2>1, Spoken, Zenon
  <2> QED BY <2>2 DEF Ok
<1>3. <<Line(IF LinuxCnc THEN "estop" ELSE "status", estop), Line("data", FALSE)>> \in Seq(Lines)
  <2>1. Line(IF LinuxCnc THEN "estop" ELSE "status", estop) \in Lines
    BY LineTyped DEF TypeInv, Far
  <2>2. Line("data", FALSE) \in Lines
    BY LineTyped
  <2> QED BY <2>1, <2>2, Spoken, Zenon
<1>4. CASE item = "hello"
  BY <1>1, <1>4 DEF Reply
<1>5. CASE item = "setup"
  BY <1>1, <1>5 DEF Reply
<1>6. CASE item = "poll"
  BY <1>3, <1>6 DEF Reply
<1>7. CASE item \notin {"hello", "setup", "poll"}
  BY <1>2, <1>7 DEF Reply
<1> QED BY <1>4, <1>5, <1>6, <1>7

-----------------------------------------------------------------------------
(* The steps of TypeInv, by the groups of Next.                            *)
LEMMA TypeConnection == TypeInv /\ (Connect \/ Break) => TypeInv'
<1> SUFFICES ASSUME TypeInv, Connect \/ Break PROVE TypeInv'
  OBVIOUS
<1> USE Bounds
<1>1. CASE Connect
  <2>0. req' \in Seq(Items)
    BY <1>1 DEF Connect, Items
  <2>1. Session'
    BY <1>1, <2>0 DEF TypeInv, Connect, Press, Session, Sessions
  <2>2. Flags' /\ Far'
    BY <1>1, <2>0 DEF TypeInv, Connect, Press, Flags, Far
  <2>3. Counts' /\ Times'
    BY <1>1, <2>0 DEF TypeInv, Connect, Press, Counts, Times
  <2>4. Link'
    BY <1>1, <2>0 DEF TypeInv, Connect, Press, Link
  <2> QED BY <2>1, <2>2, <2>3, <2>4 DEF TypeInv
<1>2. CASE Break
  <2>0. ans' \in Seq(Lines)
    <3>1. PICK n \in 0..Len(ans) : ans' = SubSeq(ans, 1, n)
      BY <1>2 DEF Break
    <3> QED BY <3>1, Part DEF TypeInv, Link
  <2>1. Session'
    BY <1>2, <2>0 DEF TypeInv, Break, OnDisconnect, ages, ctl, Session,
           Sessions
  <2>2. Flags' /\ Far'
    BY <1>2, <2>0 DEF TypeInv, Break, OnDisconnect, ages, ctl, Flags, Far
  <2>3. Counts' /\ Times'
    BY <1>2, <2>0 DEF TypeInv, Break, OnDisconnect, ages, ctl, Counts, Times
  <2>4. Link'
    BY <1>2, <2>0 DEF TypeInv, Break, OnDisconnect, ages, ctl, Link
  <2> QED BY <2>1, <2>2, <2>3, <2>4 DEF TypeInv
<1> QED BY <1>1, <1>2

LEMMA TypePoll == TypeInv /\ Poll => TypeInv'
<1> SUFFICES ASSUME TypeInv, Poll PROVE TypeInv'
  OBVIOUS
<1> USE Bounds
<1>1. CASE PollGiveUp
  <2>1. Session'
    BY <1>1 DEF TypeInv, PollGiveUp, OnDisconnect, ages, ctl, Session, Sessions
  <2>2. Flags' /\ Far'
    BY <1>1 DEF TypeInv, PollGiveUp, OnDisconnect, ages, ctl, Flags, Far
  <2>3. Counts' /\ Times'
    BY <1>1 DEF TypeInv, PollGiveUp, OnDisconnect, ages, ctl, Counts, Times
  <2>4. Link'
    BY <1>1 DEF TypeInv, PollGiveUp, OnDisconnect, ages, ctl, Link
  <2> QED BY <2>1, <2>2, <2>3, <2>4 DEF TypeInv
<1>2. CASE PollQuery
  <2>0. req' \in Seq(Items)
    BY <1>2, Sent DEF PollQuery, TransmitIfRoom, Items
  <2>1. Session'
    BY <1>2, <2>0 DEF TypeInv, PollQuery, pollFrame, ctl, Session, Sessions
  <2>2. Flags' /\ Far'
    BY <1>2, <2>0 DEF TypeInv, PollQuery, pollFrame, ctl, Flags, Far
  <2>3. Counts' /\ Times'
    BY <1>2, <2>0 DEF TypeInv, PollQuery, pollFrame, ctl, Counts, Times
  <2>4. Link'
    BY <1>2, <2>0 DEF TypeInv, PollQuery, pollFrame, ctl, Link
  <2> QED BY <2>1, <2>2, <2>3, <2>4 DEF TypeInv
<1>3. CASE PollStatus
  <2>0. req' \in Seq(Items)
    BY <1>3, Sent DEF PollStatus, TransmitIfRoom, Items
  <2>1. Session'
    BY <1>3, <2>0 DEF TypeInv, PollStatus, pollFrame, ctl, Session, Sessions
  <2>2. Flags' /\ Far'
    BY <1>3, <2>0 DEF TypeInv, PollStatus, pollFrame, ctl, Flags, Far
  <2>3. Counts' /\ Times'
    BY <1>3, <2>0 DEF TypeInv, PollStatus, pollFrame, ctl, Counts, Times
  <2>4. Link'
    BY <1>3, <2>0 DEF TypeInv, PollStatus, pollFrame, ctl, Link
  <2> QED BY <2>1, <2>2, <2>3, <2>4 DEF TypeInv
<1> QED BY <1>1, <1>2, <1>3 DEF Poll

LEMMA TypeRx == TypeInv /\ Rx => TypeInv'
<1> SUFFICES ASSUME TypeInv, Rx PROVE TypeInv'
  OBVIOUS
<1> USE Bounds
<1>1. CASE RxHello
  <2>0. ans' \in Seq(Lines) /\ since_response' = 0
    BY <1>1, Answered DEF RxHello
  <2>a. req' \in Seq(Items)
    BY <1>1, Sent DEF RxHello, Items
  <2>1. Session'
    BY <1>1, <2>0, <2>a DEF TypeInv, RxHello, lineFrame, ctl, flags, Session,
           Sessions
  <2>2. Flags' /\ Far'
    BY <1>1, <2>0, <2>a DEF TypeInv, RxHello, lineFrame, ctl, flags, Flags, Far
  <2>3. Counts' /\ Times'
    BY <1>1, <2>0, <2>a DEF TypeInv, RxHello, lineFrame, ctl, flags, Counts,
           Times
  <2>4. Link'
    BY <1>1, <2>0, <2>a DEF TypeInv, RxHello, lineFrame, ctl, flags, Link
  <2> QED BY <2>1, <2>2, <2>3, <2>4 DEF TypeInv
<1>2. CASE RxNak
  <2>0. ans' \in Seq(Lines) /\ since_response' = 0
    BY <1>2, Answered DEF RxNak
  <2>1. Session'
    BY <1>2, <2>0 DEF TypeInv, RxNak, lineFrame, ctl, flags, OnDisconnect,
           Session, Sessions
  <2>2. Flags' /\ Far'
    BY <1>2, <2>0 DEF TypeInv, RxNak, lineFrame, ctl, flags, OnDisconnect,
           Flags, Far
  <2>3. Counts' /\ Times'
    BY <1>2, <2>0 DEF TypeInv, RxNak, lineFrame, ctl, flags, OnDisconnect,
           Counts, Times
  <2>4. Link'
    BY <1>2, <2>0 DEF TypeInv, RxNak, lineFrame, ctl, flags, OnDisconnect, Link
  <2> QED BY <2>1, <2>2, <2>3, <2>4 DEF TypeInv
<1>3. CASE RxEnableOn
  <2>0. ans' \in Seq(Lines) /\ since_response' = 0
    BY <1>3, Answered DEF RxEnableOn
  <2>a. req' \in Seq(Items)
    BY <1>3, Sent DEF RxEnableOn, Items
  <2>1. Session'
    BY <1>3, <2>0, <2>a DEF TypeInv, RxEnableOn, lineFrame, ctl, flags,
           Session, Sessions
  <2>2. Flags' /\ Far'
    BY <1>3, <2>0, <2>a DEF TypeInv, RxEnableOn, lineFrame, ctl, flags, Flags,
           Far
  <2>3. Counts' /\ Times'
    BY <1>3, <2>0, <2>a DEF TypeInv, RxEnableOn, lineFrame, ctl, flags, Counts,
           Times
  <2>4. Link'
    BY <1>3, <2>0, <2>a DEF TypeInv, RxEnableOn, lineFrame, ctl, flags, Link
  <2> QED BY <2>1, <2>2, <2>3, <2>4 DEF TypeInv
<1>4. CASE RxEnableOff
  <2>0. ans' \in Seq(Lines) /\ since_response' = 0
    BY <1>4, Answered DEF RxEnableOff
  <2>1. Session'
    BY <1>4, <2>0 DEF TypeInv, RxEnableOff, lineFrame, ctl, flags, Session,
           Sessions
  <2>2. Flags' /\ Far'
    BY <1>4, <2>0 DEF TypeInv, RxEnableOff, lineFrame, ctl, flags, Flags, Far
  <2>3. Counts' /\ Times'
    BY <1>4, <2>0 DEF TypeInv, RxEnableOff, lineFrame, ctl, flags, Counts,
           Times
  <2>4. Link'
    BY <1>4, <2>0 DEF TypeInv, RxEnableOff, lineFrame, ctl, flags, Link
  <2> QED BY <2>1, <2>2, <2>3, <2>4 DEF TypeInv
<1>5. CASE RxEstop
  <2>0. ans' \in Seq(Lines) /\ since_response' = 0
    BY <1>5, Answered DEF RxEstop
  <2>1. Session'
    BY <1>5, <2>0 DEF TypeInv, RxEstop, lineFrame, ctl, flags, Session,
           Sessions
  <2>2. Flags' /\ Far'
    BY <1>5, <2>0 DEF TypeInv, RxEstop, lineFrame, ctl, flags, Flags, Far
  <2>3. Counts' /\ Times'
    BY <1>5, <2>0 DEF TypeInv, RxEstop, lineFrame, ctl, flags, Counts, Times
  <2>4. Link'
    BY <1>5, <2>0 DEF TypeInv, RxEstop, lineFrame, ctl, flags, Link
  <2> QED BY <2>1, <2>2, <2>3, <2>4 DEF TypeInv
<1>6. CASE RxStatus
  <2>0. ans' \in Seq(Lines) /\ since_response' = 0
    BY <1>6, Answered DEF RxStatus
  <2>1. Session'
    BY <1>6, <2>0 DEF TypeInv, RxStatus, lineFrame, ctl, flags, Session,
           Sessions
  <2>2. Flags' /\ Far'
    BY <1>6, <2>0 DEF TypeInv, RxStatus, lineFrame, ctl, flags, Flags, Far
  <2>3. Counts' /\ Times'
    BY <1>6, <2>0 DEF TypeInv, RxStatus, lineFrame, ctl, flags, Counts, Times
  <2>4. Link'
    BY <1>6, <2>0 DEF TypeInv, RxStatus, lineFrame, ctl, flags, Link
  <2> QED BY <2>1, <2>2, <2>3, <2>4 DEF TypeInv
<1>7. CASE RxData
  <2>0. ans' \in Seq(Lines) /\ since_response' = 0
    BY <1>7, Answered DEF RxData
  <2>1. Session'
    BY <1>7, <2>0 DEF TypeInv, RxData, lineFrame, ctl, flags, Session, Sessions
  <2>2. Flags' /\ Far'
    BY <1>7, <2>0 DEF TypeInv, RxData, lineFrame, ctl, flags, Flags, Far
  <2>3. Counts' /\ Times'
    BY <1>7, <2>0 DEF TypeInv, RxData, lineFrame, ctl, flags, Counts, Times
  <2>4. Link'
    BY <1>7, <2>0 DEF TypeInv, RxData, lineFrame, ctl, flags, Link
  <2> QED BY <2>1, <2>2, <2>3, <2>4 DEF TypeInv
<1>8. CASE RxOk
  <2>0. ans' \in Seq(Lines) /\ since_response' = 0
    BY <1>8, Answered DEF RxOk
  <2>1. Session'
    BY <1>8, <2>0 DEF TypeInv, RxOk, lineFrame, ctl, flags, Session, Sessions
  <2>2. Flags' /\ Far'
    BY <1>8, <2>0 DEF TypeInv, RxOk, lineFrame, ctl, flags, Flags, Far
  <2>3. Counts' /\ Times'
    BY <1>8, <2>0 DEF TypeInv, RxOk, lineFrame, ctl, flags, Counts, Times
  <2>4. Link'
    BY <1>8, <2>0 DEF TypeInv, RxOk, lineFrame, ctl, flags, Link
  <2> QED BY <2>1, <2>2, <2>3, <2>4 DEF TypeInv
<1> QED BY <1>1, <1>2, <1>3, <1>4, <1>5, <1>6, <1>7, <1>8 DEF Rx

LEMMA TypeUi == TypeInv /\ Ui => TypeInv'
<1> SUFFICES ASSUME TypeInv, Ui PROVE TypeInv'
  OBVIOUS
<1> USE Bounds
<1>1. CASE CmdReset
  <2>0. req' \in Seq(Items)
    BY <1>1, Sent DEF CmdReset, Command, TransmitIfRoom, Items
  <2>1. Session'
    BY <1>1, <2>0 DEF TypeInv, CmdReset, cmdFrame, ctl, Command, Press,
           Session, Sessions
  <2>2. Flags' /\ Far'
    BY <1>1, <2>0 DEF TypeInv, CmdReset, cmdFrame, ctl, Command, Press, Flags,
           Far
  <2>3. Counts' /\ Times'
    BY <1>1, <2>0 DEF TypeInv, CmdReset, cmdFrame, ctl, Command, Press, Counts,
           Times
  <2>4. Link'
    BY <1>1, <2>0 DEF TypeInv, CmdReset, cmdFrame, ctl, Command, Press, Link
  <2> QED BY <2>1, <2>2, <2>3, <2>4 DEF TypeInv
<1>2. CASE CmdUnlock
  <2>0. req' \in Seq(Items)
    BY <1>2, Sent DEF CmdUnlock, Command, TransmitIfRoom, Items
  <2>1. Session'
    BY <1>2, <2>0 DEF TypeInv, CmdUnlock, cmdFrame, ctl, Command, Press,
           Session, Sessions
  <2>2. Flags' /\ Far'
    BY <1>2, <2>0 DEF TypeInv, CmdUnlock, cmdFrame, ctl, Command, Press, Flags,
           Far
  <2>3. Counts' /\ Times'
    BY <1>2, <2>0 DEF TypeInv, CmdUnlock, cmdFrame, ctl, Command, Press,
           Counts, Times
  <2>4. Link'
    BY <1>2, <2>0 DEF TypeInv, CmdUnlock, cmdFrame, ctl, Command, Press, Link
  <2> QED BY <2>1, <2>2, <2>3, <2>4 DEF TypeInv
<1>3. CASE CmdMdi
  <2>0. req' \in Seq(Items)
    BY <1>3, Sent DEF CmdMdi, Command, TransmitIfRoom, Items
  <2>1. Session'
    BY <1>3, <2>0 DEF TypeInv, CmdMdi, cmdFrame, ctl, Command, Press, Session,
           Sessions
  <2>2. Flags' /\ Far'
    BY <1>3, <2>0 DEF TypeInv, CmdMdi, cmdFrame, ctl, Command, Press, Flags,
           Far
  <2>3. Counts' /\ Times'
    BY <1>3, <2>0 DEF TypeInv, CmdMdi, cmdFrame, ctl, Command, Press, Counts,
           Times
  <2>4. Link'
    BY <1>3, <2>0 DEF TypeInv, CmdMdi, cmdFrame, ctl, Command, Press, Link
  <2> QED BY <2>1, <2>2, <2>3, <2>4 DEF TypeInv
<1> QED BY <1>1, <1>2, <1>3 DEF Ui

LEMMA TypeController == TypeInv /\ Controller => TypeInv'
<1> SUFFICES ASSUME TypeInv, Controller PROVE TypeInv'
  OBVIOUS
<1> USE Bounds
<1>1. CASE CtlAnswer
  <2>a. PICK allowed \in Allows : CtlAnswer!(allowed)
    BY <1>1 DEF CtlAnswer
  <2>b. allowed \in BOOLEAN
    BY DEF Allows
  <2>c. Head(req) \in Items /\ req' \in Seq(Items)
    BY <2>a, Taken DEF TypeInv, Link
  <2>0. /\ req' \in Seq(Items) /\ ans' \in Seq(Lines)
        /\ enabled' \in BOOLEAN /\ estop' \in BOOLEAN
    <3>1. ans' \in Seq(Lines)
      BY <2>a, <2>b, <2>c, ReplyTyped, Joined DEF TypeInv, Link
    <3>2. enabled' \in BOOLEAN /\ estop' \in BOOLEAN
      BY <2>a, <2>b DEF TypeInv, Far
    <3> QED BY <2>c, <3>1, <3>2
  <2>1. Session'
    BY <1>1, <2>0 DEF TypeInv, CtlAnswer, ctlFrame, flags, ages, ctl, Session,
           Sessions
  <2>2. Flags' /\ Far'
    BY <1>1, <2>0 DEF TypeInv, CtlAnswer, ctlFrame, flags, ages, ctl, Flags,
           Far
  <2>3. Counts' /\ Times'
    BY <1>1, <2>0 DEF TypeInv, CtlAnswer, ctlFrame, flags, ages, ctl, Counts,
           Times
  <2>4. Link'
    BY <1>1, <2>0 DEF TypeInv, CtlAnswer, ctlFrame, flags, ages, ctl, Link
  <2> QED BY <2>1, <2>2, <2>3, <2>4 DEF TypeInv
<1>2. CASE CtlEstop
  <2>1. Session'
    BY <1>2 DEF TypeInv, CtlEstop, ctlFrame, flags, ages, ctl, Session,
           Sessions
  <2>2. Flags' /\ Far'
    BY <1>2 DEF TypeInv, CtlEstop, ctlFrame, flags, ages, ctl, Flags, Far
  <2>3. Counts' /\ Times'
    BY <1>2 DEF TypeInv, CtlEstop, ctlFrame, flags, ages, ctl, Counts, Times
  <2>4. Link'
    BY <1>2 DEF TypeInv, CtlEstop, ctlFrame, flags, ages, ctl, Link
  <2> QED BY <2>1, <2>2, <2>3, <2>4 DEF TypeInv
<1>3. CASE CtlDies
  <2>1. Session'
    BY <1>3 DEF TypeInv, CtlDies, ctlFrame, flags, ages, ctl, Session, Sessions
  <2>2. Flags' /\ Far'
    BY <1>3 DEF TypeInv, CtlDies, ctlFrame, flags, ages, ctl, Flags, Far
  <2>3. Counts' /\ Times'
    BY <1>3 DEF TypeInv, CtlDies, ctlFrame, flags, ages, ctl, Counts, Times
  <2>4. Link'
    BY <1>3 DEF TypeInv, CtlDies, ctlFrame, flags, ages, ctl, Link
  <2> QED BY <2>1, <2>2, <2>3, <2>4 DEF TypeInv
<1>4. CASE Lose
  <2>0. req' \in Seq(Items)
    <3>1. PICK i \in 1..Len(req) :
            req' = SubSeq(req, 1, i - 1) \o SubSeq(req, i + 1, Len(req))
      BY <1>4 DEF Lose
    <3>2. SubSeq(req, 1, i - 1) \in Seq(Items) /\ SubSeq(req, i + 1, Len(req)) \in Seq(Items)
      BY Part DEF TypeInv, Link
    <3> QED BY <3>1, <3>2, Joined
  <2>1. Session'
    BY <1>4, <2>0 DEF TypeInv, Lose, ctlFrame, flags, ages, ctl, Session,
           Sessions
  <2>2. Flags' /\ Far'
    BY <1>4, <2>0 DEF TypeInv, Lose, ctlFrame, flags, ages, ctl, Flags, Far
  <2>3. Counts' /\ Times'
    BY <1>4, <2>0 DEF TypeInv, Lose, ctlFrame, flags, ages, ctl, Counts, Times
  <2>4. Link'
    BY <1>4, <2>0 DEF TypeInv, Lose, ctlFrame, flags, ages, ctl, Link
  <2> QED BY <2>1, <2>2, <2>3, <2>4 DEF TypeInv
<1> QED BY <1>1, <1>2, <1>3, <1>4 DEF Controller

LEMMA TypeClock == TypeInv /\ Clock => TypeInv'
<1> SUFFICES ASSUME TypeInv, Clock PROVE TypeInv'
  OBVIOUS
<1>1. Times'
  BY Bounds, Aged DEF TypeInv, Clock, Times
<1>2. Session' /\ Flags' /\ Counts' /\ Link' /\ Far'
  BY DEF TypeInv, Clock, flags, ctl, Session, Flags, Counts, Link, Far
<1> QED BY <1>1, <1>2 DEF TypeInv

LEMMA TypeStep == TypeInv /\ [Next]_vars => TypeInv'
<1>1. TypeInv /\ UNCHANGED vars => TypeInv'
  BY DEF TypeInv, vars, flags, ages, ctl, Session, Flags, Counts, Times, Link, Far
<1> QED
  BY <1>1, TypeConnection, TypePoll, TypeRx, TypeUi, TypeController, TypeClock DEF Next

LEMMA TypeInvariant == Spec => []TypeInv
BY TypeInit, TypeStep, PTL DEF Spec

(* The session, the connection, the controller and what is under way keep  *)
(* to their values: no query is counted past max_query_retries, no age     *)
(* passes its limit, for every value of the constants.                     *)
THEOREM TypeCorrect == Spec => []TypeOK
<1>1. TypeInv => TypeOK
  BY TypeInvTyped
<1> QED BY <1>1, TypeInvariant, PTL

-----------------------------------------------------------------------------
(* No element of s is in S; at most one is.                                *)
Never(s, S) == \A i \in DOMAIN s : s[i] \notin S
Once(s, S)  == \A i, j \in DOMAIN s : s[i] \in S /\ s[j] \in S => i = j

LEMMA JoinedNever ==
  ASSUME NEW T, NEW S, NEW s \in Seq(T), NEW t \in Seq(T), Never(s, S), Never(t, S)
  PROVE  Never(s \o t, S)
BY DEF Never

LEMMA JoinedOnce ==
  ASSUME NEW T, NEW S, NEW s \in Seq(T), NEW t \in Seq(T),
         \/ Never(s, S) /\ Once(t, S)
         \/ Once(s, S) /\ Never(t, S)
  PROVE  Once(s \o t, S)
<1> SUFFICES ASSUME NEW i \in DOMAIN (s \o t), NEW j \in DOMAIN (s \o t),
                    (s \o t)[i] \in S, (s \o t)[j] \in S
             PROVE  i = j
  BY DEF Once
<1>1. \A k \in DOMAIN (s \o t) :
        \/ k \in DOMAIN s /\ (s \o t)[k] = s[k]
        \/ k - Len(s) \in DOMAIN t /\ (s \o t)[k] = t[k - Len(s)]
  OBVIOUS
<1>2. i \in Int /\ j \in Int /\ Len(s) \in Int
  OBVIOUS
<1> QED BY <1>1, <1>2 DEF Never, Once

LEMMA Rest ==
  ASSUME NEW T, NEW S, NEW s \in Seq(T), s # <<>>
  PROVE  /\ Never(s, S) => Never(Tail(s), S)
         /\ Once(s, S) => Once(Tail(s), S)
         /\ Once(s, S) /\ Head(s) \in S => Never(Tail(s), S)
<1>1. \A k \in DOMAIN Tail(s) : k + 1 \in DOMAIN s /\ k + 1 # 1 /\ Tail(s)[k] = s[k + 1]
  OBVIOUS
<1>2. 1 \in DOMAIN s /\ Head(s) = s[1] /\ \A k \in DOMAIN Tail(s) : k \in Int
  OBVIOUS
<1> QED BY <1>1, <1>2 DEF Never, Once

LEMMA Dropped ==
  ASSUME NEW T, NEW S, NEW s \in Seq(T), NEW i \in 1..Len(s)
  PROVE  LET r == SubSeq(s, 1, i - 1) \o SubSeq(s, i + 1, Len(s))
         IN  (Never(s, S) => Never(r, S)) /\ (Once(s, S) => Once(r, S))
<1> DEFINE r == SubSeq(s, 1, i - 1) \o SubSeq(s, i + 1, Len(s))
<1>a. /\ SubSeq(s, 1, i - 1) \in Seq(T) /\ Len(SubSeq(s, 1, i - 1)) = i - 1
      /\ \A k \in 1..i - 1 : SubSeq(s, 1, i - 1)[k] = s[k]
  OBVIOUS
<1>b. /\ SubSeq(s, i + 1, Len(s)) \in Seq(T)
      /\ Len(SubSeq(s, i + 1, Len(s))) = Len(s) - i
      /\ \A k \in 1..Len(s) - i : SubSeq(s, i + 1, Len(s))[k] = s[k + i]
  OBVIOUS
<1>1. \A k \in DOMAIN r :
        /\ k \in Int
        /\ k < i => k \in DOMAIN s /\ r[k] = s[k]
        /\ k >= i => k + 1 \in DOMAIN s /\ r[k] = s[k + 1]
  <2> DEFINE t == SubSeq(s, 1, i - 1)
             u == SubSeq(s, i + 1, Len(s))
  <2>1. t \in Seq(T) /\ Len(t) = i - 1 /\ \A k \in 1..i - 1 : t[k] = s[k]
    BY <1>a
  <2>2. u \in Seq(T) /\ Len(u) = Len(s) - i /\ \A k \in 1..Len(s) - i : u[k] = s[k + i]
    BY <1>b
  <2>3. r = t \o u
    OBVIOUS
  <2> HIDE DEF t, u, r
  <2> SUFFICES ASSUME NEW k \in DOMAIN r
               PROVE  /\ k \in Int
                      /\ k < i => k \in DOMAIN s /\ r[k] = s[k]
                      /\ k >= i => k + 1 \in DOMAIN s /\ r[k] = s[k + 1]
    OBVIOUS
  <2>4. k \in 1..Len(s) - 1 /\ r[k] = IF k <= i - 1 THEN t[k] ELSE u[k - (i - 1)]
    BY <2>1, <2>2, <2>3
  <2>5. CASE k < i
    BY <2>1, <2>4, <2>5
  <2>6. CASE k >= i
    <3>1. k - (i - 1) \in 1..Len(s) - i /\ k - (i - 1) + i = k + 1
      BY <2>4, <2>6
    <3> QED BY <2>2, <2>4, <2>6, <3>1, SMTT(30)
  <2> QED BY <2>4, <2>5, <2>6
<1> HIDE DEF r
<1>2. Never(s, S) => Never(r, S)
  BY <1>1 DEF Never
<1>3. Once(s, S) => Once(r, S)
  <2> SUFFICES ASSUME Once(s, S), NEW j \in DOMAIN r, NEW k \in DOMAIN r,
                      r[j] \in S, r[k] \in S
               PROVE  j = k
    BY DEF Once
  <2> QED BY <1>1 DEF Once
<1> QED BY <1>2, <1>3 DEF r

-----------------------------------------------------------------------------
(* With LinuxCNC, what opens a connection is said once: hello and then     *)
(* setup on the way there, HELLO ACK on the way back.                      *)
Openers   == {"hello", "setup"}
Greetings == {Line("hello", TRUE)}
Enablings == {Line("enable", TRUE)}
Foreign   == {line \in Lines : line.kind \in {"status", "ok"}}

OpenedOnce ==
  /\ Once(req, Openers) /\ Once(ans, Greetings)
  /\ Never(req, Openers) \/ Never(ans, Greetings)
  /\ enabled => Never(req, Openers) /\ Never(ans, Greetings)
Knows ==
  session \in {"querying", "ready"} \/ enable_done \/ ~Never(ans, Enablings) => enabled

(* So the connection is enabled once too, and whatever the session takes   *)
(* for a sign of it has come after that.                                   *)
EnableInv == LinuxCnc => Never(ans, Foreign) /\ (open => OpenedOnce /\ Knows)

LEMMA EnableInit == Init => EnableInv
BY DEF Init, EnableInv, OpenedOnce, Knows, Never, Once

(* A step that says nothing of what opens, and takes nothing for a sign.   *)
LEMMA EnableKept ==
  ASSUME EnableInv, dialect' = dialect, open' = open, enabled' = enabled,
         LinuxCnc /\ open /\ Knows /\ (session' \in {"querying", "ready"} \/ enable_done')
           => enabled,
         Once(req, Openers) => Once(req', Openers),
         Never(req, Openers) => Never(req', Openers),
         Once(ans, Greetings) => Once(ans', Greetings),
         Never(ans, Greetings) => Never(ans', Greetings),
         Never(ans, Enablings) => Never(ans', Enablings),
         LinuxCnc /\ Never(ans, Foreign) => Never(ans', Foreign)
  PROVE  EnableInv'
BY DEF EnableInv, OpenedOnce, Knows, LinuxCnc

LEMMA SentOther ==
  ASSUME TypeInv, NEW item \in Items, item \notin Openers, Transmit(<<item>>)
  PROVE  /\ Once(req, Openers) => Once(req', Openers)
         /\ Never(req, Openers) => Never(req', Openers)
<1>1. Never(<<item>>, Openers) /\ <<item>> \in Seq(Items) /\ req \in Seq(Items)
  BY DEF Never, TypeInv, Link
<1> QED BY <1>1, JoinedNever, JoinedOnce DEF Transmit

LEMMA HeardRest ==
  ASSUME TypeInv, NEW line, Heard(line)
  PROVE  /\ \A S : (Never(ans, S) => Never(ans', S)) /\ (Once(ans, S) => Once(ans', S))
         /\ \A S : Once(ans, S) /\ line \in S => Never(ans', S)
         /\ \A S : line \in S => ~Never(ans, S)
<1>1. ans \in Seq(Lines) /\ ans # <<>> /\ Head(ans) = line /\ ans' = Tail(ans)
  BY DEF TypeInv, Link, Heard
<1>2. 1 \in DOMAIN ans /\ Head(ans) = ans[1]
  BY <1>1
<1> QED BY <1>1, <1>2, Rest DEF Never

LEMMA EnablePoll == TypeInv /\ EnableInv /\ Poll => EnableInv'
<1> SUFFICES ASSUME TypeInv, EnableInv, Poll PROVE EnableInv'
  OBVIOUS
<1>1. CASE PollGiveUp
  BY <1>1, EnableKept DEF PollGiveUp, OnDisconnect, ctl, Knows
<1>2. CASE PollQuery
  <2>1. /\ Once(req, Openers) => Once(req', Openers)
        /\ Never(req, Openers) => Never(req', Openers)
    BY <1>2, SentOther DEF PollQuery, TransmitIfRoom, Items, Openers
  <2> QED BY <1>2, <2>1, EnableKept DEF PollQuery, pollFrame, ctl, Knows
<1>3. CASE PollStatus
  <2>1. /\ Once(req, Openers) => Once(req', Openers)
        /\ Never(req, Openers) => Never(req', Openers)
    BY <1>3, SentOther DEF PollStatus, TransmitIfRoom, Items, Openers
  <2> QED BY <1>3, <2>1, EnableKept DEF PollStatus, pollFrame, ctl, Knows
<1> QED BY <1>1, <1>2, <1>3 DEF Poll

LEMMA EnableUi == TypeInv /\ EnableInv /\ Ui => EnableInv'
<1> SUFFICES ASSUME TypeInv, EnableInv, Ui PROVE EnableInv'
  OBVIOUS
<1>1. CASE CmdReset
  <2>1. /\ Once(req, Openers) => Once(req', Openers)
        /\ Never(req, Openers) => Never(req', Openers)
    BY <1>1, SentOther DEF CmdReset, Command, TransmitIfRoom, Items, Openers
  <2> QED BY <1>1, <2>1, EnableKept DEF CmdReset, cmdFrame, ctl, Knows
<1>2. CASE CmdUnlock
  <2>1. /\ Once(req, Openers) => Once(req', Openers)
        /\ Never(req, Openers) => Never(req', Openers)
    BY <1>2, SentOther DEF CmdUnlock, Command, TransmitIfRoom, Items, Openers
  <2> QED BY <1>2, <2>1, EnableKept DEF CmdUnlock, cmdFrame, ctl, Knows
<1>3. CASE CmdMdi
  <2>1. /\ Once(req, Openers) => Once(req', Openers)
        /\ Never(req, Openers) => Never(req', Openers)
    BY <1>3, SentOther DEF CmdMdi, Command, TransmitIfRoom, Items, Openers
  <2> QED BY <1>3, <2>1, EnableKept DEF CmdMdi, cmdFrame, ctl, Knows
<1> QED BY <1>1, <1>2, <1>3 DEF Ui

LEMMA EnableConnection == TypeInv /\ EnableInv /\ (Connect \/ Break) => EnableInv'
<1> SUFFICES ASSUME TypeInv, EnableInv, Connect \/ Break PROVE EnableInv'
  OBVIOUS
<1>1. CASE Connect
  <2>1. Once(<<"hello">>, Openers)
    BY DEF Once
  <2> QED BY <1>1, <2>1 DEF Connect, EnableInv, OpenedOnce, Knows, Never, Once
<1>2. CASE Break
  <2>1. PICK n \in 0..Len(ans) : ans' = SubSeq(ans, 1, n)
    BY <1>2 DEF Break
  <2>2. Never(ans, Foreign) => Never(ans', Foreign)
    BY <2>1 DEF Never, TypeInv, Link
  <2> QED BY <1>2, <2>2 DEF Break, EnableInv, LinuxCnc
<1> QED BY <1>1, <1>2

LEMMA EnableHello == TypeInv /\ EnableInv /\ RxHello => EnableInv'
<1> SUFFICES ASSUME TypeInv, EnableInv, RxHello, LinuxCnc PROVE EnableInv'
  BY DEF EnableInv, RxHello, lineFrame, LinuxCnc
<1>1. /\ \A S : (Never(ans, S) => Never(ans', S)) /\ (Once(ans, S) => Once(ans', S))
      /\ Once(ans, Greetings) => Never(ans', Greetings)
      /\ ~Never(ans, Greetings)
  BY HeardRest DEF RxHello, Greetings
<1>2. dialect' = dialect /\ open' = open /\ enabled' = enabled /\ enable_done' = enable_done
  BY DEF RxHello, lineFrame, ctl
<1>3. session' = "configuring" /\ Transmit(<<"setup">>)
  BY DEF RxHello
<1>4. ASSUME open PROVE OpenedOnce' /\ Knows'
  <2>1. OpenedOnce /\ Knows
    BY <1>4 DEF EnableInv
  <2>2. Never(req, Openers) /\ ~enabled
    BY <1>1, <2>1 DEF OpenedOnce
  <2>3. Once(<<"setup">>, Openers) /\ <<"setup">> \in Seq(Items) /\ req \in Seq(Items)
    BY DEF Once, Items, TypeInv, Link
  <2>4. Once(req', Openers)
    BY <1>3, <1>4, <2>2, <2>3, JoinedOnce DEF Transmit
  <2>5. OpenedOnce'
    BY <1>1, <1>2, <2>1, <2>2, <2>4 DEF OpenedOnce
  <2>6. Knows'
    BY <1>1, <1>2, <1>3, <2>1, <2>2 DEF Knows
  <2> QED BY <2>5, <2>6
<1> QED BY <1>1, <1>2, <1>4 DEF EnableInv, LinuxCnc

LEMMA EnableRx == TypeInv /\ EnableInv /\ Rx => EnableInv'
<1> SUFFICES ASSUME TypeInv, EnableInv, Rx PROVE EnableInv'
  OBVIOUS
<1>1. CASE RxHello
  BY <1>1, EnableHello
<1>2. CASE RxNak
  <2>1. \A S : (Never(ans, S) => Never(ans', S)) /\ (Once(ans, S) => Once(ans', S))
    BY <1>2, HeardRest DEF RxNak
  <2> QED BY <1>2, <2>1, EnableKept DEF RxNak, OnDisconnect, lineFrame, ctl, Knows
<1>3. CASE RxEnableOn
  <2>1. /\ \A S : (Never(ans, S) => Never(ans', S)) /\ (Once(ans, S) => Once(ans', S))
        /\ ~Never(ans, Enablings)
    BY <1>3, HeardRest DEF RxEnableOn, Enablings
  <2>2. /\ Once(req, Openers) => Once(req', Openers)
        /\ Never(req, Openers) => Never(req', Openers)
    BY <1>3, SentOther DEF RxEnableOn, Items, Openers
  <2> QED BY <1>3, <2>1, <2>2, EnableKept DEF RxEnableOn, lineFrame, ctl, Knows
<1>4. CASE RxEnableOff
  <2>1. \A S : (Never(ans, S) => Never(ans', S)) /\ (Once(ans, S) => Once(ans', S))
    BY <1>4, HeardRest DEF RxEnableOff
  <2> QED BY <1>4, <2>1, EnableKept DEF RxEnableOff, lineFrame, flags, ctl,
         Knows
<1>5. CASE RxEstop
  <2>1. \A S : (Never(ans, S) => Never(ans', S)) /\ (Once(ans, S) => Once(ans', S))
    BY <1>5, HeardRest DEF RxEstop
  <2> QED BY <1>5, <2>1, EnableKept DEF RxEstop, lineFrame, flags, ctl, Knows
<1>6. CASE RxStatus
  <2>1. \A S : (Never(ans, S) => Never(ans', S)) /\ (Once(ans, S) => Once(ans', S))
    BY <1>6, HeardRest DEF RxStatus
  <2>2. ~LinuxCnc
    <3>1. ans # <<>> /\ Head(ans) = ans[1] /\ 1 \in DOMAIN ans /\ ans[1] \in Lines
      BY <1>6 DEF RxStatus, Heard, TypeInv, Link
    <3>2. Head(ans).kind \in {"status", "ok"}
      BY <1>6 DEF RxStatus, Heard, Line
    <3> QED BY <3>1, <3>2 DEF EnableInv, Never, Foreign
  <2> QED BY <1>6, <2>2 DEF RxStatus, lineFrame, EnableInv, LinuxCnc
<1>7. CASE RxData
  <2>1. \A S : (Never(ans, S) => Never(ans', S)) /\ (Once(ans, S) => Once(ans', S))
    BY <1>7, HeardRest DEF RxData
  <2> QED BY <1>7, <2>1, EnableKept DEF RxData, lineFrame, ctl, Knows
<1>8. CASE RxOk
  <2>1. \A S : (Never(ans, S) => Never(ans', S)) /\ (Once(ans, S) => Once(ans', S))
    BY <1>8, HeardRest DEF RxOk
  <2>2. ~LinuxCnc
    <3>1. ans # <<>> /\ Head(ans) = ans[1] /\ 1 \in DOMAIN ans /\ ans[1] \in Lines
      BY <1>8 DEF RxOk, Heard, TypeInv, Link
    <3>2. Head(ans).kind \in {"status", "ok"}
      BY <1>8 DEF RxOk, Heard, Line
    <3> QED BY <3>1, <3>2 DEF EnableInv, Never, Foreign
  <2> QED BY <1>8, <2>2 DEF RxOk, lineFrame, EnableInv, LinuxCnc
<1> QED BY <1>1, <1>2, <1>3, <1>4, <1>5, <1>6, <1>7, <1>8 DEF Rx

LEMMA EnableAnswer == TypeInv /\ EnableInv /\ CtlAnswer => EnableInv'
<1> SUFFICES ASSUME TypeInv, EnableInv, CtlAnswer, LinuxCnc PROVE EnableInv'
  BY DEF EnableInv, CtlAnswer, ctlFrame, LinuxCnc
<1> DEFINE item == Head(req)
<1>1. PICK allowed \in Allows : CtlAnswer!(allowed)
  BY DEF CtlAnswer
<1>2. /\ open /\ open' = open /\ dialect' = dialect /\ session' = session
      /\ enable_done' = enable_done /\ req # <<>> /\ req' = Tail(req)
      /\ ans' = ans \o Reply(item, allowed)
      /\ enabled' = IF item = "setup" THEN allowed ELSE enabled
  BY <1>1 DEF ctlFrame, flags
<1>3. allowed \in BOOLEAN /\ req \in Seq(Items) /\ ans \in Seq(Lines) /\ item \in Items
  BY <1>2, Taken DEF Allows, TypeInv, Link
<1>4. Reply(item, allowed) \in Seq(Lines)
  BY <1>3, ReplyTyped
<1>5. /\ Never(ans, Foreign) /\ OpenedOnce /\ Knows
  BY <1>2 DEF EnableInv
<1>6. /\ Never(req, Openers) => Never(req', Openers)
      /\ Once(req, Openers) => Once(req', Openers)
      /\ Once(req, Openers) /\ item \in Openers => Never(req', Openers)
  BY <1>2, <1>3, Rest
<1>7. /\ Never(Reply(item, allowed), Foreign)
      /\ item # "setup" => Never(Reply(item, allowed), Enablings)
      /\ item # "hello" => Never(Reply(item, allowed), Greetings)
      /\ ~allowed => Never(Reply(item, allowed), Enablings)
      /\ Once(Reply(item, allowed), Greetings)
  BY <1>3 DEF Reply, Ok, Line, Never, Once, Foreign, Enablings, Greetings, Items, LinuxCnc
<1>8. Never(ans', Foreign)
  BY <1>2, <1>3, <1>4, <1>5, <1>7, JoinedNever
<1>9. item \in Openers => ~Never(req, Openers)
  <2>1. 1 \in DOMAIN req /\ req[1] = item
    BY <1>2, <1>3
  <2> QED BY <2>1 DEF Never
<1>10. CASE item = "hello"
  <2>1. ~enabled /\ Never(ans, Greetings) /\ Never(req', Openers) /\ enabled' = enabled
    BY <1>2, <1>5, <1>6, <1>9, <1>10 DEF OpenedOnce, Openers
  <2>2. Once(ans', Greetings)
    BY <1>2, <1>3, <1>4, <1>7, <2>1, JoinedOnce
  <2>3. Never(ans', Enablings)
    BY <1>2, <1>3, <1>4, <1>5, <1>7, <1>10, <2>1, JoinedNever DEF Knows
  <2>4. Once(req', Openers)
    BY <2>1 DEF Never, Once
  <2>5. OpenedOnce' /\ Knows'
    BY <1>2, <1>5, <2>1, <2>2, <2>3, <2>4 DEF OpenedOnce, Knows
  <2> QED BY <1>8, <2>5 DEF EnableInv
<1>11. CASE item = "setup"
  <2>1. /\ ~enabled /\ Never(ans, Greetings) /\ Never(req', Openers)
        /\ enabled' = allowed
    BY <1>2, <1>5, <1>6, <1>9, <1>11 DEF OpenedOnce, Openers
  <2>2. Never(ans', Greetings)
    BY <1>2, <1>3, <1>4, <1>7, <1>11, <2>1, JoinedNever
  <2>3. ~allowed => Never(ans', Enablings)
    BY <1>2, <1>3, <1>4, <1>5, <1>7, <2>1, JoinedNever DEF Knows
  <2>4. Once(req', Openers) /\ Once(ans', Greetings)
    BY <2>1, <2>2 DEF Never, Once
  <2>5. OpenedOnce'
    BY <2>1, <2>2, <2>4 DEF OpenedOnce
  <2>6. Knows'
    BY <1>2, <1>5, <2>1, <2>3 DEF Knows
  <2> QED BY <1>8, <2>5, <2>6 DEF EnableInv
<1>12. CASE item \notin Openers
  <2>1. enabled' = enabled /\ item # "setup" /\ item # "hello"
    BY <1>2, <1>12 DEF Openers
  <2>2. /\ Once(ans, Greetings) => Once(ans', Greetings)
        /\ Never(ans, Greetings) => Never(ans', Greetings)
        /\ Never(ans, Enablings) => Never(ans', Enablings)
    BY <1>2, <1>3, <1>4, <1>7, <2>1, JoinedNever, JoinedOnce
  <2>3. (session' \in {"querying", "ready"} \/ enable_done') /\ Knows => enabled
    BY <1>2 DEF Knows
  <2> QED BY <1>2, <1>6, <1>8, <2>1, <2>2, <2>3, EnableKept
<1> QED BY <1>10, <1>11, <1>12 DEF Openers

LEMMA EnableController == TypeInv /\ EnableInv /\ Controller => EnableInv'
<1> SUFFICES ASSUME TypeInv, EnableInv, Controller PROVE EnableInv'
  OBVIOUS
<1>1. CASE CtlAnswer
  BY <1>1, EnableAnswer
<1>2. CASE CtlEstop \/ CtlDies
  BY <1>2, EnableKept DEF CtlEstop, CtlDies, ctlFrame, flags, Knows
<1>3. CASE Lose
  <2>1. PICK i \in 1..Len(req) :
          req' = SubSeq(req, 1, i - 1) \o SubSeq(req, i + 1, Len(req))
    BY <1>3 DEF Lose
  <2>2. /\ Once(req, Openers) => Once(req', Openers)
        /\ Never(req, Openers) => Never(req', Openers)
    BY <2>1, Dropped DEF TypeInv, Link
  <2> QED BY <1>3, <2>2, EnableKept DEF Lose, ctlFrame, flags, ctl, Knows
<1> QED BY <1>1, <1>2, <1>3 DEF Controller

LEMMA EnableStep == TypeInv /\ EnableInv /\ [Next]_vars => EnableInv'
<1>1. EnableInv /\ (Clock \/ UNCHANGED vars) => EnableInv'
  BY DEF EnableInv, OpenedOnce, Knows, LinuxCnc, Clock, vars, flags, ctl
<1> QED
  BY <1>1, EnableConnection, EnablePoll, EnableRx, EnableUi, EnableController DEF Next

(* A LinuxCNC session is ready over a connection only if the controller    *)
(* has taken the password of that connection, whatever was refused, lost,  *)
(* late, stopped, unlocked or left over from an earlier connection.        *)
THEOREM ReadyOnlyEnabled == Spec => []ReadyIsEnabled
<1>1. EnableInv => ReadyIsEnabled
  BY DEF EnableInv, Knows, ReadyIsEnabled
<1> QED BY <1>1, TypeInvariant, EnableInit, EnableStep, PTL DEF Spec

-----------------------------------------------------------------------------
(* A controller that answers.  On its way is what answers item as line.    *)
Has(s, x) == \E i \in 1..Len(s) : s[i] = x
Coming(item, line) == Has(req, item) \/ Has(ans, line)
Hello  == Coming("hello", Line("hello", TRUE))
Setup  == Coming("setup", Line("enable", TRUE))
Report == Coming("poll", Line("data", FALSE))
Word   == ans # <<>> \/ Has(req, "hello") \/ Has(req, "setup") \/ Has(req, "poll")

(* The handshake and the first query are answered before any time passes,  *)
(* and so is the status poll that each unit of time brings about.          *)
Opening ==
  /\ session = "wait_banner" => ~hello_done /\ ~enable_done
  /\ ~LinuxCnc /\ ~hello_done => Hello
  /\ LinuxCnc /\ (~enable_done \/ session = "configuring") => Hello \/ Setup
  /\ ~(IF LinuxCnc THEN enable_done ELSE hello_done) => since_connect = 0
Asking == session = "querying" => Report /\ since_query = 0
Fresh == since_response = 0 \/ (since_response = 1 /\ (since_poll = 1 \/ Word))
Granted == \A i \in 1..Len(ans) : ans[i] \notin {Line("hello", FALSE), Line("enable", FALSE)}

(* As long as nothing goes wrong, no time limit can run out.               *)
Smooth == open /\ alive /\ trouble = "none"
Kept == session # "disconnected" /\ Opening /\ Asking /\ Fresh /\ Granted
KeepInv == Smooth => Kept

LEMMA HasJoined ==
  ASSUME NEW S, NEW s \in Seq(S), NEW t \in Seq(S)
  PROVE  \A x : Has(s, x) \/ Has(t, x) => Has(s \o t, x)
<1> DEFINE u == s \o t
<1>1. /\ \A i \in 1..Len(s) : i \in 1..Len(u) /\ u[i] = s[i]
      /\ \A i \in 1..Len(t) : Len(s) + i \in 1..Len(u) /\ u[Len(s) + i] = t[i]
  OBVIOUS
<1> HIDE DEF u
<1>2. \A x : Has(s, x) \/ Has(t, x) => Has(u, x)
  BY <1>1 DEF Has
<1> QED BY <1>2 DEF u

LEMMA JoinedFrom ==
  ASSUME NEW S, NEW s \in Seq(S), NEW t \in Seq(S), NEW i \in 1..Len(s \o t)
  PROVE  \/ \E j \in 1..Len(s) : (s \o t)[i] = s[j]
         \/ \E j \in 1..Len(t) : (s \o t)[i] = t[j]
<1>1. CASE i \in 1..Len(s)
  BY <1>1
<1>2. CASE i \notin 1..Len(s)
  <2>1. i - Len(s) \in 1..Len(t) /\ (s \o t)[i] = t[i - Len(s)]
    BY <1>2
  <2> QED BY <2>1
<1> QED BY <1>1, <1>2

LEMMA HasRest ==
  ASSUME NEW S, NEW s \in Seq(S), s # <<>>
  PROVE  /\ \A x : Has(s, x) => x = Head(s) \/ Has(Tail(s), x)
         /\ \A i \in 1..Len(Tail(s)) : \E j \in 1..Len(s) : Tail(s)[i] = s[j]
         /\ \E j \in 1..Len(s) : Head(s) = s[j]
<1> DEFINE t == Tail(s)
<1>1. /\ Head(s) = s[1] /\ 1 \in 1..Len(s)
      /\ \A i \in 1..Len(t) : i + 1 \in 1..Len(s) /\ t[i] = s[i + 1]
      /\ \A i \in 1..Len(s) : i = 1 \/ (i - 1 \in 1..Len(t) /\ t[i - 1] = s[i])
  OBVIOUS
<1> HIDE DEF t
<1>2. \A x : Has(s, x) => x = Head(s) \/ Has(t, x)
  BY <1>1 DEF Has
<1>3. \A i \in 1..Len(t) : \E j \in 1..Len(s) : t[i] = s[j]
  BY <1>1
<1> QED BY <1>1, <1>2, <1>3 DEF t

LEMMA SentHas ==
  ASSUME TypeInv, open, NEW item \in Items, Transmit(<<item>>)
  PROVE  Has(req', item) /\ \A x : Has(req, x) => Has(req', x)
<1>1. req' = req \o <<item>> /\ req \in Seq(Items) /\ <<item>> \in Seq(Items)
  BY DEF Transmit, TypeInv, Link
<1>2. Has(<<item>>, item)
  BY DEF Has
<1> QED BY <1>1, <1>2, HasJoined

LEMMA HeardHas ==
  ASSUME TypeInv, Granted, NEW line, Heard(line)
  PROVE  /\ \A x : Has(ans, x) => x = line \/ Has(ans', x)
         /\ Granted' /\ line \notin {Line("hello", FALSE), Line("enable", FALSE)}
         /\ since_response' = 0
<1>1. ans \in Seq(Lines) /\ ans # <<>> /\ Head(ans) = line /\ ans' = Tail(ans) /\ since_response' = 0
  BY DEF Heard, TypeInv, Link
<1>2. \A x : Has(ans, x) => x = line \/ Has(ans', x)
  BY <1>1, HasRest
<1>3. \E j \in 1..Len(ans) : line = ans[j]
  BY <1>1, HasRest
<1>4. \A i \in 1..Len(ans') : \E j \in 1..Len(ans) : ans'[i] = ans[j]
  BY <1>1, HasRest
<1> QED BY <1>1, <1>2, <1>3, <1>4 DEF Granted

LEMMA Apart == \A a, b, on, off : a # b => Line(a, on) # Line(b, off)
<1> SUFFICES ASSUME NEW a, NEW b, NEW on, NEW off, Line(a, on) = Line(b, off) PROVE a = b
  OBVIOUS
<1>1. Line(a, on).kind = a /\ Line(b, off).kind = b
  BY DEF Line
<1> QED BY <1>1

LEMMA Moments ==
  ASSUME TypeInv
  PROVE  since_response \in Nat /\ since_connect \in Nat /\ since_poll \in 0..1
BY DEF TypeInv, Times

LEMMA KeepInit == Init => KeepInv
BY DEF Init, KeepInv, Smooth

LEMMA KeepConnection == TypeInv /\ KeepInv /\ (Connect \/ Break) => KeepInv'
<1> SUFFICES ASSUME Connect, Smooth' PROVE Kept'
  BY DEF KeepInv, Smooth, Break
<1>1. session' = "wait_banner" /\ req' = <<"hello">> /\ ans' = <<>>
  BY DEF Connect
<1>2. Len(req') = 1 /\ req'[1] = "hello" /\ Len(ans') = 0
  BY <1>1
<1>3. Has(req', "hello")
  BY <1>2 DEF Has
<1>4. Opening'
  BY <1>1, <1>3 DEF Connect, Opening, Hello, Coming
<1>5. Granted'
  BY <1>2 DEF Granted
<1> QED BY <1>1, <1>4, <1>5 DEF Connect, Kept, Asking, Fresh

(* The poll gives nothing up, and its query is one that is answered.       *)
LEMMA KeepPoll ==
  Timeout > 1 /\ TypeInv /\ KeepInv /\ Poll => KeepInv'
<1> SUFFICES ASSUME Timeout > 1, TypeInv, KeepInv, Poll, Smooth' PROVE Kept'
  BY DEF KeepInv
<1>1. Smooth /\ Kept
  BY DEF Smooth, KeepInv, Poll, PollGiveUp, PollQuery, PollStatus, pollFrame, ctl
<1>2. ~HelloLate
  BY <1>1, Bounds DEF Kept, Opening, HelloLate
<1>3. ~Silent
  BY <1>1, Bounds DEF Kept, Fresh, Silent
<1>4. ~QueryDue
  BY <1>1 DEF Kept, Asking, QueryDue
<1>5. PollStatus
  BY <1>2, <1>3, <1>4 DEF Poll, PollGiveUp, PollQuery
<1>6. Has(req', "poll") /\ \A x : Has(req, x) => Has(req', x)
  BY <1>1, <1>5, SentHas DEF PollStatus, TransmitIfRoom, Items, Smooth
<1>7. /\ session' = session /\ hello_done' = hello_done /\ enable_done' = enable_done
      /\ dialect' = dialect /\ since_connect' = since_connect /\ since_query' = since_query
      /\ since_response' = since_response /\ ans' = ans
  BY <1>5 DEF PollStatus, pollFrame
<1>8. Opening' /\ Asking'
  BY <1>1, <1>6, <1>7 DEF Kept, Opening, Asking, Hello, Setup, Report, Coming, LinuxCnc
<1>9. Fresh' /\ Granted'
  BY <1>1, <1>6, <1>7 DEF Kept, Fresh, Word, Granted
<1> QED BY <1>1, <1>7, <1>8, <1>9 DEF Kept

LEMMA KeepUi ==
  TypeInv /\ KeepInv /\ Ui => KeepInv'
<1> SUFFICES ASSUME TypeInv, KeepInv, Ui, Smooth' PROVE Kept'
  BY DEF KeepInv
<1>1. Smooth /\ Kept
  BY DEF Smooth, KeepInv, Ui, CmdReset, CmdUnlock, CmdMdi, cmdFrame, ctl
<1>2. PICK item \in Items : Transmit(<<item>>)
  BY DEF Ui, CmdReset, CmdUnlock, CmdMdi, Command, TransmitIfRoom, Items
<1>3. \A x : Has(req, x) => Has(req', x)
  BY <1>1, <1>2, SentHas DEF Smooth
<1>4. /\ hello_done' = hello_done /\ dialect' = dialect /\ since_query' = since_query
      /\ since_response' = since_response /\ since_poll' = since_poll /\ ans' = ans
      /\ since_connect' \in {since_connect, 0}
  BY DEF Ui, CmdReset, CmdUnlock, CmdMdi, cmdFrame
<1>5. /\ session' \in {session, "locked"} \/ (~LinuxCnc /\ session' = "configuring")
      /\ enable_done' = enable_done
  <2>1. CASE CmdReset \/ CmdMdi
    BY <2>1 DEF CmdReset, CmdMdi
  <2>2. CASE CmdUnlock
    <3>1. ~LinuxCnc
      BY <1>1, <2>2 DEF CmdUnlock, Smooth
    <3>2. enable_done' = enable_done
      <4>1. enable_done \in BOOLEAN
        BY DEF TypeInv, Flags
      <4> QED BY <2>2, <3>1, <4>1 DEF CmdUnlock
    <3> QED BY <2>2, <3>1, <3>2 DEF CmdUnlock
  <2> QED BY <2>1, <2>2 DEF Ui
<1>6. Opening' /\ Asking'
  BY <1>1, <1>3, <1>4, <1>5 DEF Kept, Opening, Asking, Hello, Setup, Report, Coming, LinuxCnc
<1>7. Fresh' /\ Granted'
  BY <1>1, <1>3, <1>4 DEF Kept, Fresh, Word, Granted
<1>8. session' # "disconnected"
  BY <1>1, <1>5 DEF Kept
<1> QED BY <1>6, <1>7, <1>8 DEF Kept

(* A line of the controller answers what it came for.                      *)
LEMMA KeepRx == TypeInv /\ KeepInv /\ Rx => KeepInv'
<1> SUFFICES ASSUME TypeInv, KeepInv, Rx, Smooth' PROVE Kept'
  BY DEF KeepInv
<1>1. Smooth /\ Kept /\ dialect' = dialect /\ since_connect' = since_connect
  BY DEF Smooth, KeepInv, Rx, RxHello, RxNak, RxEnableOn, RxEnableOff, RxEstop, RxStatus, RxData,
     RxOk, lineFrame, ctl
<1>2. PICK line : Heard(line)
  BY DEF Rx, RxHello, RxNak, RxEnableOn, RxEnableOff, RxEstop, RxStatus, RxData, RxOk
<1>3. /\ \A x : Has(ans, x) => x = line \/ Has(ans', x)
      /\ Granted' /\ line \notin {Line("hello", FALSE), Line("enable", FALSE)}
      /\ since_response' = 0
  BY <1>1, <1>2, HeardHas DEF Kept
<1>4. line = Head(ans)
  BY <1>2 DEF Heard
<1>5. Fresh'
  BY <1>3 DEF Fresh
<1> USE Apart
<1>6. CASE RxHello
  <2>1. line = Line("hello", TRUE)
    BY <1>4, <1>6 DEF RxHello, Heard
  <2>2. CASE LinuxCnc
    <3>1. session' = "configuring" /\ Transmit(<<"setup">>)
      BY <1>6, <2>2 DEF RxHello
    <3>2. Has(req', "setup")
      BY <1>1, <3>1, SentHas DEF Smooth, Items
    <3>3. Setup' /\ LinuxCnc'
      BY <1>1, <2>2, <3>2 DEF Setup, Coming, LinuxCnc
    <3>4. enable_done' = enable_done
      BY <1>6 DEF RxHello
    <3>5. Opening'
      BY <1>1, <3>1, <3>3, <3>4, <2>2 DEF Kept, Opening
    <3> QED BY <1>3, <1>5, <3>1, <3>5 DEF Kept, Asking
  <2>3. CASE ~LinuxCnc
    <3>1. session' = "querying" /\ Transmit(<<"poll">>) /\ since_query' = 0 /\ hello_done' = TRUE
      BY <1>6, <2>3 DEF RxHello
    <3>2. Has(req', "poll")
      BY <1>1, <3>1, SentHas DEF Smooth, Items
    <3>3. Asking' /\ ~LinuxCnc'
      BY <1>1, <2>3, <3>1, <3>2 DEF Asking, Report, Coming, LinuxCnc
    <3>4. Opening'
      BY <3>1, <3>3 DEF Opening
    <3> QED BY <1>3, <1>5, <3>1, <3>3, <3>4 DEF Kept
  <2> QED BY <2>2, <2>3
<1>7. CASE RxNak \/ RxEnableOff
  BY <1>3, <1>4, <1>7 DEF RxNak, RxEnableOff, Heard
<1>8. CASE RxEnableOn
  <2>1. line = Line("enable", TRUE)
    BY <1>4, <1>8 DEF RxEnableOn, Heard
  <2>2. session' = "querying" /\ Transmit(<<"poll">>) /\ since_query' = 0 /\ enable_done' = TRUE
        /\ hello_done' = hello_done
    BY <1>8 DEF RxEnableOn, lineFrame
  <2>3. Has(req', "poll") /\ \A x : Has(req, x) => Has(req', x)
    BY <1>1, <2>2, SentHas DEF Smooth, Items
  <2>4. Asking'
    BY <2>2, <2>3 DEF Asking, Report, Coming
  <2>5. Hello => Hello'
    BY <1>3, <2>1, <2>3 DEF Hello, Coming
  <2>6. Opening'
    BY <1>1, <2>2, <2>5 DEF Kept, Opening, LinuxCnc
  <2> QED BY <1>3, <1>5, <2>2, <2>4, <2>6 DEF Kept
<1>9. CASE RxEstop \/ RxStatus \/ RxData \/ RxOk
  <2>1. /\ line \notin {Line("hello", TRUE), Line("enable", TRUE)}
        /\ req' = req /\ hello_done' = hello_done /\ enable_done' = enable_done
        /\ since_query' = since_query
    BY <1>4, <1>9 DEF RxEstop, RxStatus, RxData, RxOk, Heard, flags, lineFrame
  <2>2. (Hello => Hello') /\ (Setup => Setup')
    BY <1>3, <2>1 DEF Hello, Setup, Coming
  <2>3. /\ session' = "querying" => session = "querying" /\ line # Line("data", FALSE)
        /\ session' = "wait_banner" => session = "wait_banner"
        /\ session' = "configuring" /\ LinuxCnc => session = "configuring" \/ ~enable_done
        /\ session' # "disconnected"
    BY <1>1, <1>4, <1>9 DEF Kept, RxEstop, RxStatus, RxData, RxOk, Heard
  <2>4. Asking'
    BY <1>1, <1>3, <2>1, <2>3 DEF Kept, Asking, Report, Coming
  <2>5. Opening'
    BY <1>1, <2>1, <2>2, <2>3 DEF Kept, Opening, LinuxCnc
  <2> QED BY <1>3, <1>5, <2>3, <2>4, <2>5 DEF Kept
<1> QED BY <1>6, <1>7, <1>8, <1>9 DEF Rx

(* The controller answers each of hello, setup and poll with its line.     *)
LEMMA KeepController == TypeInv /\ KeepInv /\ Controller => KeepInv'
<1> SUFFICES ASSUME TypeInv, KeepInv, Controller, Smooth' PROVE Kept'
  BY DEF KeepInv
<1>1. ctlFrame' = ctlFrame
  BY DEF Controller, CtlAnswer, CtlEstop, CtlDies, Lose
<1>2. Smooth /\ Kept
  BY <1>1 DEF KeepInv, Smooth, Controller, CtlAnswer, CtlEstop, CtlDies, Lose, ctl, ctlFrame
<1>3. /\ session' = session /\ dialect' = dialect /\ hello_done' = hello_done
      /\ enable_done' = enable_done /\ since_connect' = since_connect
      /\ since_query' = since_query /\ since_response' = since_response
      /\ since_poll' = since_poll
  BY <1>1 DEF ctlFrame, flags, ages
<1>4. CASE CtlAnswer
  <2> DEFINE item == Head(req)
             said == Reply(item, TRUE)
  <2>1. ans' = ans \o said /\ req # <<>> /\ req' = Tail(req)
    <3>1. Allows = {TRUE}
      BY <1>2 DEF Allows, Rough, Smooth
    <3> QED BY <1>4, <3>1 DEF CtlAnswer
  <2>2. req \in Seq(Items) /\ ans \in Seq(Lines) /\ item \in Items
    BY <2>1, Taken DEF TypeInv, Link
  <2>3. said \in Seq(Lines)
    BY <2>2, ReplyTyped
  <2>4. /\ item = "hello" => Has(said, Line("hello", TRUE))
        /\ item = "setup" => Has(said, Line("enable", TRUE))
        /\ item = "poll" => Has(said, Line("data", FALSE))
    <3>1. \A x, y : Has(<<x>>, x) /\ Has(<<x, y>>, y)
      BY DEF Has
    <3> QED BY <3>1 DEF Reply
  <2>5. \A i \in 1..Len(said) : said[i] \notin {Line("hello", FALSE), Line("enable", FALSE)}
    BY <2>2, Apart DEF Reply, Ok, Line, Items
  <2> HIDE DEF item, said
  <2>6. /\ \A x : Has(ans, x) \/ Has(said, x) => Has(ans', x)
        /\ \A x : Has(req, x) => x = item \/ Has(req', x)
    BY <2>1, <2>2, <2>3, HasJoined, HasRest DEF item
  <2>7. (Hello => Hello') /\ (Setup => Setup') /\ (Report => Report')
    BY <2>4, <2>6 DEF Hello, Setup, Report, Coming
  <2>8. Word => Word'
    <3>1. ans # <<>> => ans' # <<>>
      BY <2>1, <2>2, <2>3
    <3>2. \A x : Has(ans', x) => ans' # <<>>
      <4>1. ans' = <<>> => Len(ans') = 0
        OBVIOUS
      <4> QED BY <4>1 DEF Has
    <3> QED BY <2>4, <2>6, <3>1, <3>2 DEF Word
  <2>9. Granted'
    <3>1. \A i \in 1..Len(ans') : (\E j \in 1..Len(ans) : ans'[i] = ans[j])
                                  \/ \E j \in 1..Len(said) : ans'[i] = said[j]
      BY <2>1, <2>2, <2>3, JoinedFrom
    <3> QED BY <1>2, <2>5, <3>1 DEF Kept, Granted
  <2>10. Opening' /\ Asking' /\ Fresh'
    BY <1>2, <1>3, <2>7, <2>8 DEF Kept, Opening, Asking, Fresh, LinuxCnc
  <2> QED BY <1>2, <1>3, <2>9, <2>10 DEF Kept
<1>5. CASE CtlEstop
  BY <1>2, <1>3, <1>5 DEF CtlEstop, Kept, Opening, Asking, Fresh, Granted, Hello, Setup, Report,
     Word, Coming, LinuxCnc
<1>6. CASE CtlDies \/ Lose
  BY <1>2, <1>6 DEF CtlDies, Lose, Smooth, Rough, ctl
<1> QED BY <1>4, <1>5, <1>6 DEF Controller

(* Time passes only when everything is answered and nothing is due.        *)
LEMMA KeepClock == Timeout > 1 /\ TypeInv /\ KeepInv /\ Clock => KeepInv'
<1> SUFFICES ASSUME Timeout > 1, TypeInv, KeepInv, Clock, Smooth' PROVE Kept'
  BY DEF KeepInv
<1>1. Smooth /\ Kept
  BY DEF KeepInv, Smooth, Clock, ctl
<1>2. req = <<>> /\ ans = <<>> /\ ~(HelloLate \/ Silent \/ QueryDue \/ PollDue)
  BY <1>1 DEF Clock, Settled, Smooth, Rough
<1>3. \A x : ~Has(req, x) /\ ~Has(ans, x)
  <2>1. Len(req) = 0 /\ Len(ans) = 0
    BY <1>2
  <2> QED BY <2>1 DEF Has
<1>4. ~Hello /\ ~Setup /\ ~Report /\ ~Word
  BY <1>2, <1>3 DEF Hello, Setup, Report, Word, Coming
<1>5. /\ IF LinuxCnc THEN enable_done /\ session # "configuring" ELSE hello_done
      /\ session \notin {"wait_banner", "querying", "disconnected"}
  BY <1>1, <1>4 DEF Kept, Opening, Asking
<1>6. Linked
  BY <1>5 DEF Linked, TypeInv, Session, Sessions
<1>7. since_poll = 0 /\ since_response = 0
  BY <1>1, <1>2, <1>4, <1>6, Moments DEF PollDue, Kept, Fresh
<1>8. since_response' = 1 /\ since_poll' = 1
  BY <1>7, Bounds DEF Clock, Older
<1>9. session' = session /\ dialect' = dialect /\ hello_done' = hello_done
      /\ enable_done' = enable_done /\ ans' = ans
  BY DEF Clock, flags
<1>10. Opening' /\ Asking' /\ Fresh' /\ Granted'
  BY <1>1, <1>5, <1>8, <1>9 DEF Kept, Opening, Asking, Fresh, Granted, LinuxCnc
<1> QED BY <1>5, <1>9, <1>10 DEF Kept

LEMMA KeepStep == Timeout > 1 /\ TypeInv /\ KeepInv /\ [Next]_vars => KeepInv'
<1> SUFFICES ASSUME Timeout > 1, TypeInv, KeepInv, [Next]_vars PROVE KeepInv'
  OBVIOUS
<1>1. CASE UNCHANGED vars
  BY <1>1 DEF vars, flags, ages, ctl, KeepInv, Smooth, Kept, Opening, Asking, Fresh, Granted, Hello,
     Setup, Report, Word, Coming, LinuxCnc
<1> QED BY <1>1, KeepClock, KeepConnection, KeepPoll, KeepRx, KeepUi, KeepController DEF Next

(* A session over an open connection, with a controller that answers in    *)
(* time, is never given up, neither in the handshake nor at a query nor    *)
(* for a response: for any limits that leave one status poll for the       *)
(* response timeout, and any number of commands, as long as a LinuxCNC     *)
(* session is not unlocked, after which its controller is never asked for  *)
(* the enabling that the session waits for.                                *)
THEOREM AnsweredIsKept ==
  ASSUME Timeout > 1, "unlock" \notin Troubles
  PROVE  Spec => KeptWhileAnswered
<1>1. Spec => [](TypeInv /\ KeepInv)
  <2>1. TypeInv /\ KeepInv /\ [Next]_vars => TypeInv' /\ KeepInv'
    BY TypeStep, KeepStep
  <2> QED BY <2>1, TypeInit, KeepInit, PTL DEF Spec
<1>2. TypeInv /\ TypeInv' /\ KeepInv /\ KeepInv' /\ [Next]_vars =>
        [session' = "disconnected" => session = "disconnected" \/ ~open' \/ ~alive \/ Rough]_vars
  <2> SUFFICES ASSUME TypeInv, TypeInv', KeepInv', Next, session' = "disconnected", open', alive,
                      ~Rough, session # "disconnected"
      PROVE  FALSE
    OBVIOUS
  <2>1. trouble' = trouble /\ trouble = "none"
    <3>1. trouble' = trouble
      BY DEF Next, Clock, Connect, Break, Poll, PollGiveUp, PollQuery, PollStatus, pollFrame, Rx,
         RxHello, RxNak, RxEnableOn, RxEnableOff, RxEstop, RxStatus, RxData, RxOk, lineFrame, Ui,
         CmdReset, CmdUnlock, CmdMdi, cmdFrame, Controller, CtlAnswer, CtlEstop, CtlDies, Lose,
         ctlFrame
    <3>2. trouble \in {"none", "unlock", "rough"} /\ trouble # "unlock"
      BY StreamAssumption DEF TypeInv, Session
    <3> QED BY <3>1, <3>2 DEF Rough
  <2>2. alive'
    <3>1. ~CtlDies
      BY DEF CtlDies, ctlFrame
    <3> QED BY <3>1 DEF Next, Clock, Connect, Break, Poll, PollGiveUp, PollQuery, PollStatus,
          pollFrame, Rx, RxHello, RxNak, RxEnableOn, RxEnableOff, RxEstop, RxStatus, RxData, RxOk,
          lineFrame, Ui, CmdReset, CmdUnlock, CmdMdi, cmdFrame, Controller, CtlAnswer, CtlEstop,
          Lose, ctl
  <2> QED BY <2>1, <2>2 DEF KeepInv, Smooth, Kept
<1> QED BY <1>1, <1>2, PTL DEF Spec, KeptWhileAnswered
=============================================================================
