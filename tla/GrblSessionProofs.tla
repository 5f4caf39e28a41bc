-------------------------- MODULE GrblSessionProofs --------------------------
(***************************************************************************)
(* The grblHAL session keeps its variables to their values, and is blocked *)
(* only while the reports say that MPG is granted, for any time limits,    *)
(* retries, troubles and commands and however many requests and answers    *)
(* are under way.                                                          *)
(***************************************************************************)
EXTENDS GrblSession, TLAPS

Items  == {"query", "info", "enum", "unlock", "reset"}
Events == [kind : {"status", "ok", "newopt", "err", "welcome", "alarm"},
           mach : {"idle", "busy", "alarm"}, mpg : BOOLEAN]

LEMMA Bounds ==
  /\ MaxRetries \in Nat /\ EnumLines \in Nat /\ MaxPresses \in Nat
  /\ Timeout \in Nat /\ BusyTimeout \in Nat
BY SessionAssumption

LEMMA Joined ==
  ASSUME NEW S, NEW s \in Seq(S), NEW t \in Seq(S)
  PROVE  s \o t \in Seq(S)
OBVIOUS

LEMMA Taken ==
  ASSUME NEW S, NEW s \in Seq(S), s # <<>>
  PROVE  Head(s) \in S /\ Tail(s) \in Seq(S)
OBVIOUS

LEMMA Aged ==
  ASSUME NEW most \in Nat, NEW age \in 0..most
  PROVE  Older(age, most) \in 0..most
BY DEF Older

(* TypeOK by the parts of the state.                                       *)
Session ==
  /\ session \in Sessions /\ mach \in {"off", "idle", "busy", "alarm"}
  /\ mpg \in BOOLEAN /\ caps \in BOOLEAN /\ trouble \in Troubles
Flags ==
  /\ welcomed \in BOOLEAN /\ enums_requested \in BOOLEAN
  /\ needs_info \in BOOLEAN /\ pending_unlock \in BOOLEAN
Counts == retries \in 0..MaxRetries /\ presses \in 0..MaxPresses
Times ==
  /\ since_connect \in 0..1 /\ since_query \in 0..1 /\ since_poll \in 0..1
  /\ since_response \in 0..BusyTimeout
Link == req \in Seq(Items) /\ ans \in Seq(Events)
Far == real \in {"idle", "busy", "alarm"} /\ real_mpg \in BOOLEAN /\ alive \in BOOLEAN

TypeInv == Session /\ Flags /\ Counts /\ Times /\ Link /\ Far

LEMMA TypeInvTyped == TypeInv <=> TypeOK
BY DEF TypeInv, TypeOK, Session, Flags, Counts, Times, Link, Far, Items, Events

LEMMA TypeInit == Init => TypeInv
<1> SUFFICES ASSUME Init PROVE TypeInv
  OBVIOUS
<1>1. Session /\ Flags /\ Far
  BY DEF Init, Session, Flags, Far, Sessions
<1>2. Counts /\ Times
  BY Bounds DEF Init, Counts, Times
<1>3. Link
  BY DEF Init, Link
<1> QED BY <1>1, <1>2, <1>3 DEF TypeInv

-----------------------------------------------------------------------------
(* The steps of TypeInv, by the groups of Next.                            *)
LEMMA TypeConnection == TypeInv /\ (Connect \/ Disconnect) => TypeInv'
<1> SUFFICES ASSUME TypeInv, Connect \/ Disconnect PROVE TypeInv'
  OBVIOUS
<1> USE Bounds
<1>1. CASE Connect
  <2>1. Session'
    BY <1>1 DEF TypeInv, Connect, Press, parsed, ctl, Session, Sessions
  <2>2. Flags' /\ Far'
    BY <1>1 DEF TypeInv, Connect, Press, parsed, ctl, Flags, Far
  <2>3. Counts' /\ Times'
    BY <1>1 DEF TypeInv, Connect, Press, parsed, ctl, Counts, Times
  <2>4. Link'
    BY <1>1 DEF TypeInv, Connect, Press, parsed, ctl, Link
  <2> QED BY <2>1, <2>2, <2>3, <2>4 DEF TypeInv
<1>2. CASE Disconnect
  <2>1. Session'
    BY <1>2 DEF TypeInv, Disconnect, OnDisconnect, Press, ages, ctl, Session,
           Sessions
  <2>2. Flags' /\ Far'
    BY <1>2 DEF TypeInv, Disconnect, OnDisconnect, Press, ages, ctl, Flags, Far
  <2>3. Counts' /\ Times'
    BY <1>2 DEF TypeInv, Disconnect, OnDisconnect, Press, ages, ctl, Counts,
           Times
  <2>4. Link'
    BY <1>2 DEF TypeInv, Disconnect, OnDisconnect, Press, ages, ctl, Link
  <2> QED BY <2>1, <2>2, <2>3, <2>4 DEF TypeInv
<1> QED BY <1>1, <1>2

LEMMA Sent ==
  ASSUME TypeInv, NEW items \in Seq(Items), Transmit(items)
  PROVE  req' \in Seq(Items)
BY Joined DEF Transmit, TypeInv, Link

LEMMA TypePoll == TypeInv /\ Poll => TypeInv'
<1> SUFFICES ASSUME TypeInv, Poll PROVE TypeInv'
  OBVIOUS
<1> USE Bounds
<1> <<"query">> \in Seq(Items)
  BY DEF Items
<1>1. CASE PollBanner
  <2>0. req' \in Seq(Items)
    BY <1>1, Sent DEF PollBanner, TransmitIfRoom
  <2>1. Session'
    BY <1>1 DEF TypeInv, PollBanner, pollFrame, parsed, ctl, Session, Sessions
  <2>2. Flags' /\ Far'
    BY <1>1 DEF TypeInv, PollBanner, pollFrame, parsed, ctl, Flags, Far
  <2>3. Counts' /\ Times'
    BY <1>1 DEF TypeInv, PollBanner, pollFrame, parsed, ctl, Counts, Times
  <2>4. Link'
    BY <1>1, <2>0 DEF TypeInv, PollBanner, pollFrame, parsed, ctl, Link
  <2> QED BY <2>1, <2>2, <2>3, <2>4 DEF TypeInv
<1>2. CASE PollQuery
  <2>0. req' \in Seq(Items)
    BY <1>2, Sent DEF PollQuery, TransmitIfRoom
  <2>1. Session'
    BY <1>2 DEF TypeInv, PollQuery, pollFrame, parsed, ctl, Session, Sessions
  <2>2. Flags' /\ Far'
    BY <1>2 DEF TypeInv, PollQuery, pollFrame, parsed, ctl, Flags, Far
  <2>3. Counts' /\ Times'
    BY <1>2 DEF TypeInv, PollQuery, pollFrame, parsed, ctl, Counts, Times
  <2>4. Link'
    BY <1>2, <2>0 DEF TypeInv, PollQuery, pollFrame, parsed, ctl, Link
  <2> QED BY <2>1, <2>2, <2>3, <2>4 DEF TypeInv
<1>3. CASE PollGiveUp
  <2>1. Session'
    BY <1>3 DEF TypeInv, PollGiveUp, OnDisconnect, ages, ctl, Session, Sessions
  <2>2. Flags' /\ Far'
    BY <1>3 DEF TypeInv, PollGiveUp, OnDisconnect, ages, ctl, Flags, Far
  <2>3. Counts' /\ Times'
    BY <1>3 DEF TypeInv, PollGiveUp, OnDisconnect, ages, ctl, Counts, Times
  <2>4. Link'
    BY <1>3 DEF TypeInv, PollGiveUp, OnDisconnect, ages, ctl, Link
  <2> QED BY <2>1, <2>2, <2>3, <2>4 DEF TypeInv
<1>4. CASE PollTimeout
  <2>1. Session'
    BY <1>4 DEF TypeInv, PollTimeout, OnDisconnect, ages, ctl, Session,
           Sessions
  <2>2. Flags' /\ Far'
    BY <1>4 DEF TypeInv, PollTimeout, OnDisconnect, ages, ctl, Flags, Far
  <2>3. Counts' /\ Times'
    BY <1>4 DEF TypeInv, PollTimeout, OnDisconnect, ages, ctl, Counts, Times
  <2>4. Link'
    BY <1>4 DEF TypeInv, PollTimeout, OnDisconnect, ages, ctl, Link
  <2> QED BY <2>1, <2>2, <2>3, <2>4 DEF TypeInv
<1>5. CASE PollReady
  <2>a. /\ (IF since_poll >= 1 THEN <<"query">> ELSE <<>>) \in Seq(Items)
        /\ (IF Identifies THEN <<"info">> ELSE <<>>) \in Seq(Items)
    <3>1. <<"info">> \in Seq(Items) /\ <<>> \in Seq(Items)
      BY DEF Items
    <3> QED BY <3>1
  <2>b. (IF since_poll >= 1 THEN <<"query">> ELSE <<>>)
        \o (IF Identifies THEN <<"info">> ELSE <<>>) \in Seq(Items)
    BY <2>a, Joined
  <2>0. req' \in Seq(Items)
    BY <1>5, Sent, <2>b DEF PollReady, TransmitIfRoom
  <2>1. Session'
    BY <1>5 DEF TypeInv, PollReady, pollFrame, parsed, ctl, Session, Sessions
  <2>2. Flags' /\ Far'
    BY <1>5 DEF TypeInv, PollReady, pollFrame, parsed, ctl, Flags, Far
  <2>3. Counts' /\ Times'
    BY <1>5 DEF TypeInv, PollReady, pollFrame, parsed, ctl, Counts, Times
  <2>4. Link'
    BY <1>5, <2>0 DEF TypeInv, PollReady, pollFrame, parsed, ctl, Link
  <2> QED BY <2>1, <2>2, <2>3, <2>4 DEF TypeInv
<1>6. CASE PollWaiting
  <2>0. req' \in Seq(Items)
    BY <1>6, Sent DEF PollWaiting, TransmitIfRoom
  <2>1. Session'
    BY <1>6 DEF TypeInv, PollWaiting, pollFrame, parsed, ctl, Session, Sessions
  <2>2. Flags' /\ Far'
    BY <1>6 DEF TypeInv, PollWaiting, pollFrame, parsed, ctl, Flags, Far
  <2>3. Counts' /\ Times'
    BY <1>6 DEF TypeInv, PollWaiting, pollFrame, parsed, ctl, Counts, Times
  <2>4. Link'
    BY <1>6, <2>0 DEF TypeInv, PollWaiting, pollFrame, parsed, ctl, Link
  <2> QED BY <2>1, <2>2, <2>3, <2>4 DEF TypeInv
<1> QED BY <1>1, <1>2, <1>3, <1>4, <1>5, <1>6 DEF Poll

LEMMA Answered ==
  ASSUME TypeInv, NEW kind, Heard(kind)
  PROVE  Head(ans) \in Events /\ ans' \in Seq(Events) /\ since_response' = 0
BY Taken DEF Heard, TypeInv, Link

LEMMA InfoIsItems == \A state, owned : Info(state, owned) \in Seq(Items)
<1>1. <<"info">> \in Seq(Items) /\ <<>> \in Seq(Items)
  BY DEF Items
<1> QED BY <1>1 DEF Info

LEMMA TypeRx == TypeInv /\ Rx => TypeInv'
<1> SUFFICES ASSUME TypeInv, Rx PROVE TypeInv'
  OBVIOUS
<1> USE Bounds
<1>1. CASE RxWelcome
  <2>0. Head(ans) \in Events /\ ans' \in Seq(Events) /\ since_response' = 0
    BY <1>1, Answered DEF RxWelcome
  <2>a. /\ (IF pending_unlock THEN Unlock ELSE <<>>) \in Seq(Items)
        /\ (IF session \in {"wait_banner", "querying"} THEN Info(mach, mpg) ELSE <<>>)
             \in Seq(Items)
    <3>1. Unlock \in Seq(Items) /\ <<>> \in Seq(Items)
      BY DEF Unlock, Items
    <3> QED BY <3>1, InfoIsItems
  <2>b. req' \in Seq(Items)
    BY <1>1, <2>a, Joined, Sent DEF RxWelcome
  <2>1. Session'
    BY <1>1, <2>0 DEF TypeInv, RxWelcome, lineFrame, parsed, flags, ctl,
           Session, Sessions
  <2>2. Flags' /\ Far'
    BY <1>1, <2>0 DEF TypeInv, RxWelcome, lineFrame, parsed, flags, ctl, Flags,
           Far
  <2>3. Counts' /\ Times'
    BY <1>1, <2>0 DEF TypeInv, RxWelcome, lineFrame, parsed, flags, ctl,
           Counts, Times
  <2>4. Link'
    BY <1>1, <2>0, <2>b DEF TypeInv, RxWelcome, lineFrame, parsed, flags, ctl,
           Link
  <2> QED BY <2>1, <2>2, <2>3, <2>4 DEF TypeInv
<1>2. CASE RxStatus
  <2>0. Head(ans) \in Events /\ ans' \in Seq(Events) /\ since_response' = 0
    BY <1>2, Answered DEF RxStatus
  <2>a. \A c : (IF c THEN Info(Head(ans).mach, Head(ans).mpg) ELSE <<>>) \in Seq(Items)
    BY InfoIsItems
  <2>b. req' \in Seq(Items)
    BY <1>2, <2>a, Sent DEF RxStatus
  <2>1. Session'
    BY <1>2, <2>0 DEF TypeInv, RxStatus, AfterReport, Blocked, Events,
           lineFrame, parsed, flags, ctl, Session, Sessions
  <2>2. Flags' /\ Far'
    BY <1>2, <2>0 DEF TypeInv, RxStatus, AfterReport, Blocked, Events,
           lineFrame, parsed, flags, ctl, Flags, Far
  <2>3. Counts' /\ Times'
    BY <1>2, <2>0 DEF TypeInv, RxStatus, AfterReport, Blocked, Events,
           lineFrame, parsed, flags, ctl, Counts, Times
  <2>4. Link'
    BY <1>2, <2>0, <2>b DEF TypeInv, RxStatus, AfterReport, Blocked, Events,
           lineFrame, parsed, flags, ctl, Link
  <2> QED BY <2>1, <2>2, <2>3, <2>4 DEF TypeInv
<1>3. CASE RxAlarm
  <2>0. Head(ans) \in Events /\ ans' \in Seq(Events) /\ since_response' = 0
    BY <1>3, Answered DEF RxAlarm
  <2>1. Session'
    BY <1>3, <2>0 DEF TypeInv, RxAlarm, lineFrame, parsed, flags, ctl, Session,
           Sessions
  <2>2. Flags' /\ Far'
    BY <1>3, <2>0 DEF TypeInv, RxAlarm, lineFrame, parsed, flags, ctl, Flags,
           Far
  <2>3. Counts' /\ Times'
    BY <1>3, <2>0 DEF TypeInv, RxAlarm, lineFrame, parsed, flags, ctl, Counts,
           Times
  <2>4. Link'
    BY <1>3, <2>0 DEF TypeInv, RxAlarm, lineFrame, parsed, flags, ctl, Link
  <2> QED BY <2>1, <2>2, <2>3, <2>4 DEF TypeInv
<1>4. CASE RxOk
  <2>0. Head(ans) \in Events /\ ans' \in Seq(Events) /\ since_response' = 0
    BY <1>4, Answered DEF RxOk
  <2>a. [i \in 1..EnumLines |-> "enum"] \in Seq(Items) /\ <<>> \in Seq(Items)
    BY DEF Items
  <2>b. req' \in Seq(Items)
    BY <1>4, <2>a, Sent DEF RxOk, TypeInv, Link
  <2>1. Session'
    BY <1>4, <2>0 DEF TypeInv, RxOk, lineFrame, parsed, flags, ctl, Session,
           Sessions
  <2>2. Flags' /\ Far'
    BY <1>4, <2>0 DEF TypeInv, RxOk, lineFrame, parsed, flags, ctl, Flags, Far
  <2>3. Counts' /\ Times'
    BY <1>4, <2>0 DEF TypeInv, RxOk, lineFrame, parsed, flags, ctl, Counts,
           Times
  <2>4. Link'
    BY <1>4, <2>0, <2>b DEF TypeInv, RxOk, lineFrame, parsed, flags, ctl, Link
  <2> QED BY <2>1, <2>2, <2>3, <2>4 DEF TypeInv
<1>5. CASE RxInfo
  <2>0. Head(ans) \in Events /\ ans' \in Seq(Events) /\ since_response' = 0
    BY <1>5, Answered DEF RxInfo
  <2>1. Session'
    BY <1>5, <2>0 DEF TypeInv, RxInfo, lineFrame, parsed, flags, ctl, Session,
           Sessions
  <2>2. Flags' /\ Far'
    BY <1>5, <2>0 DEF TypeInv, RxInfo, lineFrame, parsed, flags, ctl, Flags,
           Far
  <2>3. Counts' /\ Times'
    BY <1>5, <2>0 DEF TypeInv, RxInfo, lineFrame, parsed, flags, ctl, Counts,
           Times
  <2>4. Link'
    BY <1>5, <2>0 DEF TypeInv, RxInfo, lineFrame, parsed, flags, ctl, Link
  <2> QED BY <2>1, <2>2, <2>3, <2>4 DEF TypeInv
<1>6. CASE RxErr
  <2>0. Head(ans) \in Events /\ ans' \in Seq(Events) /\ since_response' = 0
    BY <1>6, Answered DEF RxErr
  <2>1. Session'
    BY <1>6, <2>0 DEF TypeInv, RxErr, lineFrame, parsed, flags, ctl, Session,
           Sessions
  <2>2. Flags' /\ Far'
    BY <1>6, <2>0 DEF TypeInv, RxErr, lineFrame, parsed, flags, ctl, Flags, Far
  <2>3. Counts' /\ Times'
    BY <1>6, <2>0 DEF TypeInv, RxErr, lineFrame, parsed, flags, ctl, Counts,
           Times
  <2>4. Link'
    BY <1>6, <2>0 DEF TypeInv, RxErr, lineFrame, parsed, flags, ctl, Link
  <2> QED BY <2>1, <2>2, <2>3, <2>4 DEF TypeInv
<1> QED BY <1>1, <1>2, <1>3, <1>4, <1>5, <1>6 DEF Rx

LEMMA TypeUi == TypeInv /\ Ui => TypeInv'
<1> SUFFICES ASSUME TypeInv, Ui PROVE TypeInv'
  OBVIOUS
<1> USE Bounds
<1>1. CASE CmdReset
  <2>0. req' \in Seq(Items)
    <3>1. <<"reset">> \in Seq(Items)
      BY DEF Items
    <3> QED BY <1>1, <3>1, Sent DEF CmdReset, SendReset, TransmitIfRoom
  <2>1. Session'
    BY <1>1 DEF TypeInv, CmdReset, SendReset, cmdFrame, parsed, ctl, Connected,
           Press, Session, Sessions
  <2>2. Flags' /\ Far'
    BY <1>1 DEF TypeInv, CmdReset, SendReset, cmdFrame, parsed, ctl, Connected,
           Press, Flags, Far
  <2>3. Counts' /\ Times'
    BY <1>1 DEF TypeInv, CmdReset, SendReset, cmdFrame, parsed, ctl, Connected,
           Press, Counts, Times
  <2>4. Link'
    BY <1>1, <2>0 DEF TypeInv, CmdReset, SendReset, cmdFrame, parsed, ctl,
           Connected, Press, Link
  <2> QED BY <2>1, <2>2, <2>3, <2>4 DEF TypeInv
<1>2. CASE CmdStop
  <2>0. req' \in Seq(Items)
    <3>1. <<"reset">> \in Seq(Items)
      BY DEF Items
    <3> QED BY <1>2, <3>1, Sent DEF CmdStop, SendReset, TransmitIfRoom
  <2>1. Session'
    BY <1>2 DEF TypeInv, CmdStop, SendReset, cmdFrame, parsed, ctl, Connected,
           Press, Session, Sessions
  <2>2. Flags' /\ Far'
    BY <1>2 DEF TypeInv, CmdStop, SendReset, cmdFrame, parsed, ctl, Connected,
           Press, Flags, Far
  <2>3. Counts' /\ Times'
    BY <1>2 DEF TypeInv, CmdStop, SendReset, cmdFrame, parsed, ctl, Connected,
           Press, Counts, Times
  <2>4. Link'
    BY <1>2, <2>0 DEF TypeInv, CmdStop, SendReset, cmdFrame, parsed, ctl,
           Connected, Press, Link
  <2> QED BY <2>1, <2>2, <2>3, <2>4 DEF TypeInv
<1>3. CASE CmdUnlock
  <2>0. req' \in Seq(Items)
    <3>1. Unlock \in Seq(Items)
      BY DEF Items, Unlock
    <3> QED BY <1>3, <3>1, Sent DEF CmdUnlock, TransmitIfRoom
  <2>1. Session'
    BY <1>3 DEF TypeInv, CmdUnlock, cmdFrame, parsed, ctl, Connected, Press,
           Session, Sessions
  <2>2. Flags' /\ Far'
    BY <1>3 DEF TypeInv, CmdUnlock, cmdFrame, parsed, ctl, Connected, Press,
           Flags, Far
  <2>3. Counts' /\ Times'
    BY <1>3 DEF TypeInv, CmdUnlock, cmdFrame, parsed, ctl, Connected, Press,
           Counts, Times
  <2>4. Link'
    BY <1>3, <2>0 DEF TypeInv, CmdUnlock, cmdFrame, parsed, ctl, Connected,
           Press, Link
  <2> QED BY <2>1, <2>2, <2>3, <2>4 DEF TypeInv
<1> QED BY <1>1, <1>2, <1>3 DEF Ui

LEMMA Said ==
  ASSUME TypeInv, NEW events \in Seq(Events), Say(events)
  PROVE  ans' \in Seq(Events)
BY Joined DEF Say, TypeInv, Link

LEMMA EventTyped ==
  ASSUME TypeInv, NEW kind \in {"status", "ok", "newopt", "err", "welcome", "alarm"}
  PROVE  Event(kind) \in Events /\ <<Event(kind)>> \in Seq(Events)
BY DEF Event, Events, TypeInv, Far

LEMMA ReplyTyped ==
  ASSUME TypeInv, NEW item
  PROVE  Reply(item) \in Seq(Events)
<1>1. /\ <<Event("status")>> \in Seq(Events) /\ <<Event("err")>> \in Seq(Events)
      /\ <<Event("ok")>> \in Seq(Events)
  BY EventTyped
<1>2. <<Event("newopt"), Event("ok")>> \in Seq(Events)
  <2>1. Event("newopt") \in Events /\ Event("ok") \in Events
    BY EventTyped
  <2> QED BY <2>1
<1> QED BY <1>1, <1>2 DEF Reply

LEMMA TypeController == TypeInv /\ Controller => TypeInv'
<1> SUFFICES ASSUME TypeInv, Controller PROVE TypeInv'
  OBVIOUS
<1> USE Bounds
<1>1. CASE CtlAnswer
  <2>0. ans' \in Seq(Events) /\ req' \in Seq(Items)
    <3>1. ans' \in Seq(Events)
      BY <1>1, Said, ReplyTyped DEF CtlAnswer
    <3>2. req' \in Seq(Items)
      BY <1>1, Taken DEF CtlAnswer, TypeInv, Link
    <3> QED BY <3>1, <3>2
  <2>1. Session'
    BY <1>1 DEF TypeInv, CtlAnswer, ctlFrame, parsed, flags, ages, Session,
           Sessions
  <2>2. Flags' /\ Far'
    BY <1>1 DEF TypeInv, CtlAnswer, ctlFrame, parsed, flags, ages, Flags, Far
  <2>3. Counts' /\ Times'
    BY <1>1 DEF TypeInv, CtlAnswer, ctlFrame, parsed, flags, ages, Counts,
           Times
  <2>4. Link'
    BY <1>1, <2>0 DEF TypeInv, CtlAnswer, ctlFrame, parsed, flags, ages, Link
  <2> QED BY <2>1, <2>2, <2>3, <2>4 DEF TypeInv
<1>2. CASE CtlReset
  <2>0. ans' \in Seq(Events) /\ req' \in Seq(Items)
    <3>1. ans' \in Seq(Events)
      BY <1>2, Said, EventTyped DEF CtlReset
    <3>2. req' \in Seq(Items)
      BY <1>2, Taken DEF CtlReset, TypeInv, Link
    <3> QED BY <3>1, <3>2
  <2>1. Session'
    BY <1>2 DEF TypeInv, CtlReset, ctlFrame, parsed, flags, ages, Session,
           Sessions
  <2>2. Flags' /\ Far'
    BY <1>2 DEF TypeInv, CtlReset, ctlFrame, parsed, flags, ages, Flags, Far
  <2>3. Counts' /\ Times'
    BY <1>2 DEF TypeInv, CtlReset, ctlFrame, parsed, flags, ages, Counts, Times
  <2>4. Link'
    BY <1>2, <2>0 DEF TypeInv, CtlReset, ctlFrame, parsed, flags, ages, Link
  <2> QED BY <2>1, <2>2, <2>3, <2>4 DEF TypeInv
<1>3. CASE CtlJob
  <2>1. Session'
    BY <1>3 DEF TypeInv, CtlJob, ctlFrame, parsed, flags, ages, Session,
           Sessions
  <2>2. Flags' /\ Far'
    BY <1>3 DEF TypeInv, CtlJob, ctlFrame, parsed, flags, ages, Flags, Far
  <2>3. Counts' /\ Times'
    BY <1>3 DEF TypeInv, CtlJob, ctlFrame, parsed, flags, ages, Counts, Times
  <2>4. Link'
    BY <1>3 DEF TypeInv, CtlJob, ctlFrame, parsed, flags, ages, Link
  <2> QED BY <2>1, <2>2, <2>3, <2>4 DEF TypeInv
<1>4. CASE CtlMpg
  <2>1. Session'
    BY <1>4 DEF TypeInv, CtlMpg, ctlFrame, parsed, flags, ages, Session,
           Sessions
  <2>2. Flags' /\ Far'
    BY <1>4 DEF TypeInv, CtlMpg, ctlFrame, parsed, flags, ages, Flags, Far
  <2>3. Counts' /\ Times'
    BY <1>4 DEF TypeInv, CtlMpg, ctlFrame, parsed, flags, ages, Counts, Times
  <2>4. Link'
    BY <1>4 DEF TypeInv, CtlMpg, ctlFrame, parsed, flags, ages, Link
  <2> QED BY <2>1, <2>2, <2>3, <2>4 DEF TypeInv
<1>5. CASE CtlAlarm
  <2>0. ans' \in Seq(Events)
    BY <1>5, Said, EventTyped DEF CtlAlarm
  <2>1. Session'
    BY <1>5 DEF TypeInv, CtlAlarm, ctlFrame, parsed, flags, ages, Session,
           Sessions
  <2>2. Flags' /\ Far'
    BY <1>5 DEF TypeInv, CtlAlarm, ctlFrame, parsed, flags, ages, Flags, Far
  <2>3. Counts' /\ Times'
    BY <1>5 DEF TypeInv, CtlAlarm, ctlFrame, parsed, flags, ages, Counts, Times
  <2>4. Link'
    BY <1>5, <2>0 DEF TypeInv, CtlAlarm, ctlFrame, parsed, flags, ages, Link
  <2> QED BY <2>1, <2>2, <2>3, <2>4 DEF TypeInv
<1>6. CASE CtlDies
  <2>1. Session'
    BY <1>6 DEF TypeInv, CtlDies, ctlFrame, parsed, flags, ages, Session,
           Sessions
  <2>2. Flags' /\ Far'
    BY <1>6 DEF TypeInv, CtlDies, ctlFrame, parsed, flags, ages, Flags, Far
  <2>3. Counts' /\ Times'
    BY <1>6 DEF TypeInv, CtlDies, ctlFrame, parsed, flags, ages, Counts, Times
  <2>4. Link'
    BY <1>6 DEF TypeInv, CtlDies, ctlFrame, parsed, flags, ages, Link
  <2> QED BY <2>1, <2>2, <2>3, <2>4 DEF TypeInv
<1>7. CASE Lose
  <2>0. req' \in Seq(Items) /\ ans' \in Seq(Events)
    BY <1>7, Taken DEF Lose, TypeInv, Link
  <2>1. Session'
    BY <1>7 DEF TypeInv, Lose, ctl, ctlFrame, parsed, flags, ages, Session,
           Sessions
  <2>2. Flags' /\ Far'
    BY <1>7 DEF TypeInv, Lose, ctl, ctlFrame, parsed, flags, ages, Flags, Far
  <2>3. Counts' /\ Times'
    BY <1>7 DEF TypeInv, Lose, ctl, ctlFrame, parsed, flags, ages, Counts,
           Times
  <2>4. Link'
    BY <1>7, <2>0 DEF TypeInv, Lose, ctl, ctlFrame, parsed, flags, ages, Link
  <2> QED BY <2>1, <2>2, <2>3, <2>4 DEF TypeInv
<1>8. CASE Vanish
  <2>1. Session'
    BY <1>8 DEF TypeInv, Vanish, ctl, ctlFrame, parsed, flags, ages, Session,
           Sessions
  <2>2. Flags' /\ Far'
    BY <1>8 DEF TypeInv, Vanish, ctl, ctlFrame, parsed, flags, ages, Flags, Far
  <2>3. Counts' /\ Times'
    BY <1>8 DEF TypeInv, Vanish, ctl, ctlFrame, parsed, flags, ages, Counts,
           Times
  <2>4. Link'
    BY <1>8 DEF TypeInv, Vanish, ctl, ctlFrame, parsed, flags, ages, Link
  <2> QED BY <2>1, <2>2, <2>3, <2>4 DEF TypeInv
<1> QED BY <1>1, <1>2, <1>3, <1>4, <1>5, <1>6, <1>7, <1>8 DEF Controller

LEMMA TypeClock == TypeInv /\ Clock => TypeInv'
<1> SUFFICES ASSUME TypeInv, Clock PROVE TypeInv'
  OBVIOUS
<1>1. Session' /\ Far' /\ Link'
  BY DEF Clock, TypeInv, Session, Far, Link, parsed, flags, ctl
<1>2. Flags' /\ Counts'
  BY DEF Clock, TypeInv, Flags, Counts, parsed, flags, ctl
<1>3. Times'
  BY Aged, Bounds DEF Clock, TypeInv, Times
<1> QED BY <1>1, <1>2, <1>3 DEF TypeInv

LEMMA TypeStep == TypeInv /\ [Next]_vars => TypeInv'
<1>1. TypeInv /\ UNCHANGED vars => TypeInv'
  BY DEF vars, parsed, flags, ages, ctl, TypeInv, Session, Flags, Counts, Times, Link, Far
<1> QED BY <1>1, TypeConnection, TypePoll, TypeRx, TypeUi, TypeController, TypeClock DEF Next

LEMMA TypeInvariant == Spec => []TypeInv
BY TypeInit, TypeStep, PTL DEF Spec

(* Every variable keeps to its values, whatever comes from the controller  *)
(* and however long the queues grow.                                       *)
THEOREM TypeCorrect == Spec => []TypeOK
BY TypeInvariant, TypeInvTyped, PTL

-----------------------------------------------------------------------------
(* Only a report enters mpg_blocked, and it brings the grant with it; what *)
(* changes the reported state afterwards leaves mpg_blocked.               *)
LEMMA BlockedStep == BlockedIsMpg /\ [Next]_vars => BlockedIsMpg'
<1> SUFFICES ASSUME BlockedIsMpg, [Next]_vars PROVE BlockedIsMpg'
  OBVIOUS
<1>1. CASE Connect \/ Disconnect \/ PollGiveUp \/ PollTimeout
  BY <1>1 DEF Connect, Disconnect, PollGiveUp, PollTimeout, OnDisconnect, BlockedIsMpg
<1>2. CASE PollBanner \/ PollQuery \/ PollReady \/ PollWaiting
  BY <1>2 DEF PollBanner, PollQuery, PollReady, PollWaiting, pollFrame, parsed, BlockedIsMpg
<1>3. CASE RxStatus
  BY <1>3 DEF RxStatus, AfterReport, Blocked, BlockedIsMpg
<1>4. CASE RxAlarm
  BY <1>4 DEF RxAlarm, BlockedIsMpg
<1>5. CASE RxWelcome \/ RxOk \/ RxInfo \/ RxErr
  BY <1>5 DEF RxWelcome, RxOk, RxInfo, RxErr, parsed, BlockedIsMpg
<1>6. CASE Ui
  BY <1>6 DEF Ui, CmdReset, CmdStop, CmdUnlock, SendReset, cmdFrame, parsed, BlockedIsMpg
<1>7. CASE Controller
  BY <1>7 DEF Controller, CtlAnswer, CtlReset, CtlJob, CtlMpg, CtlAlarm, CtlDies, Lose,
              Vanish, ctlFrame, parsed, BlockedIsMpg
<1>8. CASE Clock \/ UNCHANGED vars
  BY <1>8 DEF Clock, vars, parsed, BlockedIsMpg
<1> QED BY <1>1, <1>2, <1>3, <1>4, <1>5, <1>6, <1>7, <1>8 DEF Next, Poll, Rx

(* The session is blocked only while the last report says that MPG is      *)
(* granted and never over an alarm, so the pendant neither stays passive   *)
(* on a machine that nobody else runs nor offers to go on in an alarm.     *)
THEOREM BlockedByMpgOnly == Spec => []BlockedIsMpg
<1>1. Init => BlockedIsMpg
  BY DEF Init, BlockedIsMpg
<1> QED BY <1>1, BlockedStep, PTL DEF Spec
=============================================================================
