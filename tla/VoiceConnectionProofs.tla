----------------------- MODULE VoiceConnectionProofs -----------------------
(***************************************************************************)
(* Proofs about VoiceConnection, for any number of websockets and any      *)
(* number of heartbeats that may be missed.                                *)
(*                                                                         *)
(* WsInv is about the websocket and the loops: a websocket is the newest   *)
(* one or none, only it may be open, a loop reads only from it, and the    *)
(* loop of a websocket to come is not in use.  PendingInv is about what    *)
(* somebody waits for: a reconnect that was begun is in progress or given  *)
(* up, and the channel on which the caller of run waits exists.  CloserInv *)
(* is about close: what it waits for is a websocket that was made, and     *)
(* what it closes is not open again.                                       *)
(***************************************************************************)
EXTENDS VoiceConnection, TLAPS

\* The type of everything but the websocket and the loops.
StateType == m_connection_state \in VoiceConnectionState /\ m_disconnected \in BOOLEAN

HbType ==
  /\ m_heartbeat_timer \in BOOLEAN /\ m_heartbeat_running \in BOOLEAN
  /\ m_last_heartbeat_acked \in BOOLEAN /\ m_missed_heartbeats \in 0..MaxMissed
  /\ hb \subseteq {"waiting", "fired", "sending"}

MediaType ==
  /\ m_udp \in BOOLEAN /\ m_dave \in {"none", "session", "sender"}
  /\ chans \subseteq {"m_channel", "m_recv_chan", "m_ready_chan", "ready"}

CallType ==
  /\ run \in {"idle", "connecting", "waiting", "ok", "error"}
  /\ closing \in {"idle", "closing", "closed", "failed", "reading", "ok", "error"}
  /\ stopped \in BOOLEAN /\ crashed \in BOOLEAN

RcType == rc \subseteq {"timer", "connecting"}

ServerType == server \in {"new", "greeted", "identify", "resume", "up"}

\* Loops as they should be, with the websockets in s open and n made.
LoopsOk(ls, s, n) ==
  /\ ls \in [1..MaxWs -> ListenOp]
  /\ \A i \in 1..MaxWs : /\ ls[i].at = "reading" => ls[i].ws \in s
                         /\ i > n => ls[i] = NoOp

WsInv ==
  /\ made \in 1..MaxWs /\ m_ws \in {0, made}
  /\ open \subseteq {m_ws} \ {0}
  /\ LoopsOk(listen, open, made)

\* The caller of run waits on a channel that is there and that has no signal yet.
RunInv ==
  /\ run = "waiting" => "m_ready_chan" \in chans
  /\ "ready" \in chans => run = "connecting" /\ "m_ready_chan" \in chans

\* A reconnect that left the connection without a websocket is in progress, or
\* the connection is given up.
ReconnectPending ==
  m_connection_state \in {"Resuming", "Connecting"} /\ m_ws = 0 => rc # {} \/ m_disconnected

\* A heartbeat that runs has its timer.
BeatInv == m_heartbeat_running => m_heartbeat_timer

\* The caller of close waits for a websocket that was made, and does so while
\* close is in progress; the one that is closed is not open again.
CloserInv ==
  /\ closing_ws \in 0..made
  /\ closing \in {"closing", "closed", "failed", "reading"} <=> closing_ws # 0
  /\ closing \in {"closed", "failed"} => closing_ws \notin open

\* What is not about websockets and loops.
RestInv ==
  /\ StateType /\ HbType /\ MediaType /\ CallType /\ RcType /\ ServerType
  /\ RunInv /\ ReconnectPending /\ BeatInv

VInv == WsInv /\ RestInv /\ CloserInv

-----------------------------------------------------------------------------
(* The loops.                                                              *)

\* A loop that is not reading takes the place of one that is in use.
LEMMA PutLoop ==
  ASSUME NEW ls, NEW s, NEW n \in Nat, LoopsOk(ls, s, n),
         NEW i \in 1..MaxWs, NEW o \in ListenOp,
         i <= n, o.at = "reading" => o.ws \in s
  PROVE  LoopsOk([ls EXCEPT ![i] = o], s, n)
  BY DEF LoopsOk

\* A loop in use belongs to a websocket that was made.
LEMMA InUse ==
  ASSUME NEW ls, NEW s, NEW n \in Nat, LoopsOk(ls, s, n),
         NEW i \in 1..MaxWs, ls[i].at # "none"
  PROVE  i <= n
  BY DEF LoopsOk, NoOp

\* Cancelling w leaves nobody reading on w.
LEMMA FailedLoops ==
  ASSUME NEW ls, NEW s, NEW n \in Nat, LoopsOk(ls, s, n), NEW w
  PROVE  LoopsOk(Failed(ls, w), s \ {w}, n)
  <1>1. Failed(ls, w) \in [1..MaxWs -> ListenOp]
    BY DEF LoopsOk, Failed, ListenOp
  <1>2. ASSUME NEW i \in 1..MaxWs
        PROVE  /\ Failed(ls, w)[i].at = "reading" => Failed(ls, w)[i].ws \in s \ {w}
               /\ i > n => Failed(ls, w)[i] = NoOp
    BY DEF LoopsOk, Failed, NoOp
  <1> QED BY <1>1, <1>2 DEF LoopsOk

\* Closing the UDP socket touches no reader.
LEMMA UdpClosedLoops ==
  ASSUME NEW ls, NEW s, NEW n \in Nat, LoopsOk(ls, s, n)
  PROVE  LoopsOk(UdpClosed(ls), s, n)
  <1>1. UdpClosed(ls) \in [1..MaxWs -> ListenOp]
    BY DEF LoopsOk, UdpClosed, ListenOp
  <1>2. ASSUME NEW i \in 1..MaxWs
        PROVE  /\ UdpClosed(ls)[i].at = "reading" => UdpClosed(ls)[i].ws \in s
               /\ i > n => UdpClosed(ls)[i] = NoOp
    BY DEF LoopsOk, UdpClosed, NoOp
  <1> QED BY <1>1, <1>2 DEF LoopsOk

\* The values a handler leaves its loop with.
LEMMA LoopValues ==
  /\ NoOp \in ListenOp /\ NoOp.at # "reading"
  /\ [at |-> "step"] \in ListenOp /\ [at |-> "failed"] \in ListenOp
  /\ \A m \in Messages : [at |-> "got", m |-> m] \in ListenOp
  /\ \A w \in 1..MaxWs : /\ [at |-> "reading", ws |-> w] \in ListenOp
                         /\ [at |-> "sending", ws |-> w] \in ListenOp
  /\ \A ok \in BOOLEAN : /\ [at |-> "bind", ok |-> ok] \in ListenOp
                         /\ [at |-> "connect", ok |-> ok] \in ListenOp
                         /\ [at |-> "discover", ok |-> ok] \in ListenOp
  BY DEF ListenOp, NoOp

-----------------------------------------------------------------------------
(* WsInv.                                                                  *)

\* A handler of loop i that leaves the websocket alone.
LEMMA LoopStep ==
  ASSUME WsInv, NEW i \in 1..MaxWs, listen[i].at # "none",
         NEW o \in ListenOp, o.at = "reading" => o.ws \in open,
         Put(i, o), m_ws' = m_ws, made' = made, open' = open
  PROVE  WsInv'
  <1>1. made \in Nat /\ i <= made
    BY InUse, MaxWsAssumption DEF WsInv
  <1> QED
    BY <1>1, PutLoop DEF WsInv, Put

\* Sending on m_ws, or finding none.
LEMMA SendStep ==
  ASSUME WsInv, NEW i \in 1..MaxWs, listen[i].at # "none", SendOnWs(i),
         m_ws' = m_ws, made' = made, open' = open
  PROVE  WsInv'
  <1>1. CASE m_ws # 0 /\ Put(i, [at |-> "sending", ws |-> m_ws])
    <2> DEFINE o == [at |-> "sending", ws |-> m_ws]
    <2>1. m_ws \in 1..MaxWs
      BY <1>1 DEF WsInv
    <2>2. o \in ListenOp /\ o.at # "reading"
      BY <2>1, LoopValues
    <2> HIDE DEF o
    <2>3. Put(i, o)
      BY <1>1 DEF o
    <2> QED BY <2>2, <2>3, LoopStep
  <1>2. CASE UNCHANGED listen
    BY <1>2 DEF WsInv
  <1> QED BY <1>1, <1>2 DEF SendOnWs

\* A new websocket, with its loop.
LEMMA EmplaceStep ==
  ASSUME WsInv, EmplaceWs
  PROVE  WsInv'
  <1> DEFINE ls == Failed(listen, m_ws)
             o == [at |-> "step"]
  <1>1. made \in Nat /\ made' = made + 1 /\ made' \in 1..MaxWs
    BY MaxWsAssumption DEF WsInv, EmplaceWs
  <1>2. LoopsOk(ls, open \ {m_ws}, made)
    BY <1>1, FailedLoops DEF WsInv
  <1>3. open' = {made'} /\ m_ws' = made'
    BY DEF WsInv, EmplaceWs
  <1>4. LoopsOk(ls, open', made')
    <2>1. open \ {m_ws} = {}
      BY DEF WsInv
    <2> HIDE DEF ls
    <2> QED BY <1>1, <1>2, <2>1 DEF LoopsOk
  <1>5. LoopsOk([ls EXCEPT ![made'] = o], open', made')
    <2>1. o \in ListenOp /\ o.at # "reading" /\ made' \in Nat
      BY LoopValues, <1>1
    <2> HIDE DEF ls, o
    <2> QED BY <1>1, <1>4, <2>1, PutLoop
  <1> QED
    BY <1>1, <1>3, <1>5 DEF WsInv, EmplaceWs

\* The websocket w is cancelled, dropped or closed and the loops see it.
LEMMA CancelStep ==
  ASSUME WsInv, NEW w, NEW ls, LoopsOk(ls, open, made),
         open' = open \ {w}, listen' = Failed(ls, w),
         made' = made, m_ws' = m_ws \/ (m_ws' = 0 /\ w = m_ws)
  PROVE  WsInv'
  <1>1. made \in Nat
    BY MaxWsAssumption DEF WsInv
  <1>2. LoopsOk(listen', open', made')
    BY <1>1, FailedLoops
  <1> QED
    BY <1>2 DEF WsInv

\* initiate_reconnect, from a read that failed and from a missed heartbeat.
LEMMA ReconnectStep ==
  ASSUME WsInv, NEW ls, LoopsOk(ls, open, made), NEW chains, initiate_reconnect(ls, chains)
  PROVE  WsInv'
  <1>1. CASE m_disconnected
    BY <1>1 DEF initiate_reconnect, wsVars, WsInv
  <1>2. CASE ~m_disconnected
    BY <1>2, CancelStep DEF initiate_reconnect
  <1> QED BY <1>1, <1>2

\* Every step of a loop keeps WsInv.
LEMMA ListeningKeepsWs ==
  ASSUME WsInv, NEW i \in 1..MaxWs, Listening(i)
  PROVE  WsInv'
  <1>1. CASE Step(i)
    <2> DEFINE o == IF m_ws = 0 THEN NoOp
                    ELSE IF m_ws \in open THEN [at |-> "reading", ws |-> m_ws] ELSE [at |-> "failed"]
    <2>1. m_ws # 0 => m_ws \in 1..MaxWs
      BY DEF WsInv
    <2>2. o \in ListenOp /\ (o.at = "reading" => o.ws \in open)
      BY <2>1, LoopValues
    <2>3. Put(i, o) /\ listen[i].at # "none" /\ m_ws' = m_ws /\ made' = made /\ open' = open
      BY <1>1 DEF Step, wsVars
    <2> HIDE DEF o
    <2> QED BY <2>2, <2>3, LoopStep
  <1>2. ASSUME NEW resumable \in BOOLEAN, OnReadFailed(i, resumable) PROVE WsInv'
    <2> DEFINE ls == [listen EXCEPT ![i] = NoOp]
    <2>1. made \in Nat /\ LoopsOk(ls, open, made)
      <3>1. made \in Nat /\ listen[i].at # "none" /\ LoopsOk(listen, open, made)
        BY <1>2, MaxWsAssumption DEF OnReadFailed, WsInv
      <3>2. i <= made
        BY <3>1, InUse
      <3> QED BY <3>1, <3>2, PutLoop, LoopValues
    <2>2. CASE initiate_reconnect(ls, hb)
      BY <2>1, <2>2, ReconnectStep
    <2>3. CASE listen' = ls /\ UNCHANGED wsVars
      BY <2>1, <2>3 DEF WsInv, wsVars
    <2> QED BY <1>2, <2>2, <2>3 DEF OnReadFailed
  <1>3. CASE OnHello(i)
    BY <1>3, SendStep DEF OnHello, Got
  <1>4. CASE OnReady(i)
    <2>1. PICK ok \in BOOLEAN : Put(i, [at |-> "bind", ok |-> ok])
      BY <1>4 DEF OnReady
    <2>2. listen[i].at # "none" /\ m_ws' = m_ws /\ made' = made /\ open' = open
      BY <1>4 DEF OnReady, Got, wsVars
    <2> DEFINE o == [at |-> "bind", ok |-> ok]
    <2>3. o \in ListenOp /\ o.at # "reading"
      BY LoopValues
    <2> HIDE DEF o
    <2>4. Put(i, o)
      BY <2>1 DEF o
    <2> QED BY <2>2, <2>3, <2>4, LoopStep
  <1>5. ASSUME NEW at \in {"connect", "discover"}, NEW ok \in BOOLEAN,
               Put(i, [at |-> at, ok |-> ok]), listen[i].at # "none",
               m_ws' = m_ws, made' = made, open' = open
        PROVE  WsInv'
    <2> DEFINE o == [at |-> at, ok |-> ok]
    <2>1. o \in ListenOp /\ o.at # "reading"
      BY LoopValues
    <2> HIDE DEF o
    <2>2. Put(i, o)
      BY <1>5 DEF o
    <2> QED BY <1>5, <2>1, <2>2, LoopStep
  <1>6. ASSUME Put(i, [at |-> "step"]), listen[i].at # "none",
               m_ws' = m_ws, made' = made, open' = open
        PROVE  WsInv'
    <2> DEFINE o == [at |-> "step"]
    <2>1. o \in ListenOp /\ o.at # "reading"
      BY LoopValues
    <2> HIDE DEF o
    <2>2. Put(i, o)
      BY <1>6 DEF o
    <2> QED BY <1>6, <2>1, <2>2, LoopStep
  <1>7. CASE UdpBound(i)
    <2>1. listen[i].at # "none" /\ m_ws' = m_ws /\ made' = made /\ open' = open
      BY <1>7 DEF UdpBound, wsVars
    <2> QED BY <1>7, <2>1, <1>5, <1>6 DEF UdpBound
  <1>8. CASE UdpConnected(i)
    <2>1. listen[i].at # "none" /\ m_ws' = m_ws /\ made' = made /\ open' = open
      BY <1>8 DEF UdpConnected, wsVars
    <2>2. CASE UNCHANGED listen
      BY <2>1, <2>2 DEF WsInv
    <2> QED BY <1>8, <2>1, <2>2, <1>5, <1>6 DEF UdpConnected, Crash
  <1>9. CASE UdpDiscovered(i)
    <2>1. listen[i].at # "none" /\ m_ws' = m_ws /\ made' = made /\ open' = open
      BY <1>9 DEF UdpDiscovered, wsVars
    <2> QED BY <1>9, <2>1, <1>6, SendStep DEF UdpDiscovered
  <1>10. CASE OnMedia(i)
    <2>1. listen[i].at # "none" /\ m_ws' = m_ws /\ made' = made /\ open' = open
      BY <1>10 DEF OnMedia, Got, wsVars
    <2> QED BY <1>10, <2>1, <1>6, SendStep DEF OnMedia
  <1>11. CASE OnSessionDescription(i) \/ OnHeartbeatAck(i) \/ OnResumed(i) \/ Sent(i)
    <2>1. /\ Put(i, [at |-> "step"]) /\ listen[i].at # "none"
          /\ m_ws' = m_ws /\ made' = made /\ open' = open
      BY <1>11 DEF OnSessionDescription, OnHeartbeatAck, OnResumed, Sent, Got, wsVars
    <2> QED BY <2>1, <1>6
  <1> QED
    BY <1>1, <1>2, <1>3, <1>4, <1>7, <1>8, <1>9, <1>10, <1>11 DEF Listening

\* Every step keeps WsInv.
LEMMA WsStep ==
  ASSUME WsInv, [Next]_vars
  PROVE  WsInv'
  <1>m. made \in Nat /\ 1 \in 1..MaxWs /\ LoopsOk(listen, open, made)
    BY MaxWsAssumption DEF WsInv
  <1>1. CASE Run
    <2>1. m_ws' = m_ws /\ made' = made /\ open' = open
      BY <1>1 DEF Run, wsVars
    <2>2. CASE Put(1, [at |-> "step"])
      <3> DEFINE o == [at |-> "step"]
      <3>1. o \in ListenOp /\ o.at # "reading" /\ 1 <= made
        BY LoopValues DEF WsInv
      <3> HIDE DEF o
      <3>2. LoopsOk([listen EXCEPT ![1] = o], open, made)
        BY <1>m, <3>1, PutLoop
      <3> QED BY <2>1, <2>2, <3>2 DEF WsInv, Put, o
    <2>3. CASE UNCHANGED listen
      BY <2>1, <2>3 DEF WsInv
    <2> QED BY <1>1, <2>2, <2>3 DEF Run
  <1>2. CASE RunConnected
    <2>1. CASE UNCHANGED <<wsVars, listen>>
      BY <2>1 DEF wsVars, WsInv
    <2> QED BY <1>2, <2>1, EmplaceStep DEF RunConnected
  <1>3. ASSUME NEW i \in 1..MaxWs, Listening(i) PROVE WsInv'
    BY <1>3, ListeningKeepsWs
  <1>4. ASSUME NEW i \in 1..MaxWs, NEW m \in Messages, ReadDone(i, m) PROVE WsInv'
    <2> DEFINE o == [at |-> "got", m |-> m]
    <2>1. o \in ListenOp /\ o.at # "reading"
      BY LoopValues
    <2> HIDE DEF o
    <2>2. /\ Put(i, o) /\ listen[i].at # "none"
          /\ m_ws' = m_ws /\ made' = made /\ open' = open
      BY <1>4 DEF ReadDone, o
    <2> QED BY <2>1, <2>2, LoopStep
  <1>5. ASSUME NEW w \in open, WsDrops(w) PROVE WsInv'
    BY <1>5, <1>m, CancelStep DEF WsDrops
  <1>6. CASE HeartbeatTick
    <2>1. CASE UNCHANGED <<wsVars, listen>>
      BY <2>1 DEF wsVars, WsInv
    <2>2. CASE initiate_reconnect(listen, hb \ {"fired"})
      BY <1>m, <2>2, ReconnectStep
    <2> QED BY <1>6, <2>1, <2>2 DEF HeartbeatTick
  <1>7. CASE ReconnectDone
    <2>1. CASE UNCHANGED <<wsVars, listen>>
      BY <2>1 DEF wsVars, WsInv
    <2> QED BY <1>7, <2>1, EmplaceStep DEF ReconnectDone
  <1>8. CASE Close
    <2>1. listen' = UdpClosed(listen) /\ m_ws' = m_ws /\ made' = made /\ open' = open
      BY <1>8 DEF Close, wsVars
    <2>2. LoopsOk(UdpClosed(listen), open, made)
      BY <1>m, UdpClosedLoops
    <2> QED BY <2>1, <2>2 DEF WsInv
  <1>9. CASE WsCloses
    BY <1>9, <1>m, CancelStep DEF WsCloses
  <1>10. CASE LastRead
    BY <1>10, <1>m, CancelStep DEF LastRead
  <1>11. CASE RequestStop
    <2>1. LoopsOk(UdpClosed(listen), open, made)
      BY <1>m, UdpClosedLoops
    <2> QED BY <1>11, <2>1, CancelStep DEF RequestStop
  <1>12. CASE HeartbeatExpires \/ HeartbeatSent \/ ReconnectTimer \/ WsClosed \/ UNCHANGED vars
    <2>1. UNCHANGED <<wsVars, listen>>
      BY <1>12 DEF HeartbeatExpires, HeartbeatSent, ReconnectTimer, WsClosed, vars
    <2> QED BY <2>1 DEF wsVars, WsInv
  <1> QED
    BY <1>1, <1>2, <1>3, <1>4, <1>5, <1>6, <1>7, <1>8, <1>9, <1>10, <1>11, <1>12 DEF Next

-----------------------------------------------------------------------------
(* RestInv.                                                                *)

\* What a step leaves alone keeps its part of RestInv.
LEMMA Frame ==
  ASSUME RestInv,
         UNCHANGED stateVars \/ StateType',
         UNCHANGED hbVars \/ (HbType' /\ BeatInv'),
         UNCHANGED mediaVars \/ MediaType',
         UNCHANGED callVars \/ CallType',
         UNCHANGED rc \/ RcType',
         UNCHANGED server \/ ServerType',
         UNCHANGED <<run, chans>> \/ RunInv',
         UNCHANGED <<stateVars, m_ws, rc>> \/ ReconnectPending'
  PROVE  RestInv'
  <1>1. StateType'
    BY Zenon DEF RestInv, StateType, stateVars
  <1>2. HbType' /\ BeatInv'
    <2>1. CASE UNCHANGED hbVars
      <3>1. HbType'
        BY <2>1, Zenon DEF RestInv, HbType, hbVars
      <3>2. BeatInv'
        BY <2>1, Zenon DEF RestInv, BeatInv, hbVars
      <3> QED BY <3>1, <3>2
    <2> QED BY <2>1
  <1>3. MediaType'
    BY Zenon DEF RestInv, MediaType, mediaVars
  <1>4. CallType'
    BY Zenon DEF RestInv, CallType, callVars
  <1>5. RcType' /\ ServerType'
    BY Zenon DEF RestInv, RcType, ServerType
  <1>6. RunInv'
    BY Zenon DEF RestInv, RunInv
  <1>7. ReconnectPending'
    BY Zenon DEF RestInv, ReconnectPending, stateVars
  <1> QED
    BY <1>1, <1>2, <1>3, <1>4, <1>5, <1>6, <1>7 DEF RestInv

\* close and request_stop: the caller of run is not left waiting on a channel
\* that is gone.
LEMMA ReleaseStep ==
  ASSUME RestInv, ReleaseMedia, m_dave' \in {"none", "session", "sender"}
  PROVE  /\ HbType' /\ BeatInv' /\ MediaType' /\ RunInv'
         /\ run' \in {"idle", "connecting", "waiting", "ok", "error"}
  <1>1. HbType' /\ BeatInv'
    BY DEF RestInv, HbType, BeatInv, ReleaseMedia, CancelledWait
  <1>2. MediaType' /\ RunInv' /\ run' \in {"idle", "connecting", "waiting", "ok", "error"}
    BY DEF RestInv, CallType, MediaType, RunInv, ReleaseMedia
  <1> QED BY <1>1, <1>2

\* initiate_reconnect leaves a reconnect in progress.
LEMMA InitiateStep ==
  ASSUME RestInv, NEW ls, NEW chains \in SUBSET {"waiting", "fired", "sending"},
         initiate_reconnect(ls, chains),
         m_heartbeat_timer' = m_heartbeat_timer,
         m_last_heartbeat_acked' = m_last_heartbeat_acked,
         m_missed_heartbeats' \in 0..MaxMissed,
         UNCHANGED <<mediaVars, callVars>>
  PROVE  RestInv'
  <1>1. CASE m_disconnected
    <2>1. /\ hb' = chains /\ m_heartbeat_running' = m_heartbeat_running
          /\ UNCHANGED <<stateVars, wsVars, rc>>
      BY <1>1 DEF initiate_reconnect
    <2>2. HbType' /\ BeatInv'
      BY <2>1 DEF RestInv, HbType, BeatInv
    <2> QED BY <2>1, <2>2, Frame DEF wsVars, mediaVars, callVars
  <1>2. CASE ~m_disconnected
    <2>1. /\ m_heartbeat_running' = FALSE /\ hb' = chains \ {"waiting"}
          /\ m_connection_state' = IF m_connection_state = "Ready" THEN "Resuming" ELSE "Connecting"
          /\ rc' = rc \cup {"timer"} /\ UNCHANGED <<m_disconnected, server>>
      BY <1>2 DEF initiate_reconnect
    <2>2. HbType' /\ BeatInv'
      BY <2>1 DEF RestInv, HbType, BeatInv
    <2>3. StateType' /\ RcType' /\ ReconnectPending'
      BY <2>1 DEF RestInv, StateType, RcType, ReconnectPending, VoiceConnectionState
    <2> QED BY <2>1, <2>2, <2>3, Frame DEF mediaVars, callVars
  <1> QED BY <1>1, <1>2

\* Every step of a loop keeps RestInv.
LEMMA ListeningKeepsRest ==
  ASSUME RestInv, NEW i \in 1..MaxWs, Listening(i)
  PROVE  RestInv'
  <1>1. CASE Step(i) \/ Sent(i)
    BY <1>1, Frame DEF Step, Sent, wsVars, mediaVars, callVars
  <1>2. ASSUME NEW resumable \in BOOLEAN, OnReadFailed(i, resumable) PROVE RestInv'
    <2> DEFINE ls == [listen EXCEPT ![i] = NoOp]
    <2>1. UNCHANGED <<mediaVars, callVars>>
      BY <1>2 DEF OnReadFailed
    <2>2. CASE /\ initiate_reconnect(ls, hb)
               /\ UNCHANGED <<m_heartbeat_timer, m_last_heartbeat_acked, m_missed_heartbeats>>
      <3>1. hb \in SUBSET {"waiting", "fired", "sending"} /\ m_missed_heartbeats' \in 0..MaxMissed
        BY <2>2 DEF RestInv, HbType
      <3> HIDE DEF ls
      <3> QED BY <2>1, <2>2, <3>1, InitiateStep
    <2>3. CASE /\ m_connection_state' = "Closed" /\ m_disconnected' = TRUE
               /\ UNCHANGED <<wsVars, hbVars, rc>>
      <3>1. StateType' /\ ReconnectPending'
        BY <2>3 DEF StateType, ReconnectPending, VoiceConnectionState
      <3> QED BY <2>1, <2>3, <3>1, Frame DEF wsVars, mediaVars, callVars
    <2> QED BY <1>2, <2>2, <2>3 DEF OnReadFailed
  <1>3. CASE OnHello(i)
    <2>1. HbType' /\ BeatInv'
      BY <1>3 DEF OnHello, setup_heartbeat, RestInv, HbType, BeatInv, hbVars
    <2>2. StateType' /\ ReconnectPending' /\ ServerType'
      BY <1>3 DEF OnHello, RestInv, StateType, ReconnectPending, ServerType, VoiceConnectionState
    <2>3. CallType'
      BY <1>3 DEF OnHello, SendOnWs, RestInv, CallType
    <2> QED BY <1>3, <2>1, <2>2, <2>3, Frame DEF OnHello, mediaVars
  <1>4. CASE OnReady(i)
    <2>1. StateType' /\ ReconnectPending'
      BY <1>4 DEF OnReady, StateType, ReconnectPending, VoiceConnectionState
    <2>2. MediaType'
      BY <1>4 DEF OnReady, RestInv, MediaType
    <2> QED BY <1>4, <2>1, <2>2, Frame DEF OnReady, wsVars, callVars
  <1>5. CASE UdpBound(i)
    <2>1. MediaType'
      BY <1>5 DEF UdpBound, RestInv, MediaType
    <2> QED BY <1>5, <2>1, Frame DEF UdpBound, wsVars, callVars
  <1>6. CASE UdpConnected(i)
    <2>1. MediaType' /\ CallType'
      BY <1>6 DEF UdpConnected, Crash, RestInv, MediaType, CallType
    <2> QED BY <1>6, <2>1, Frame DEF UdpConnected, wsVars
  <1>7. CASE UdpDiscovered(i)
    <2>1. CallType'
      BY <1>7 DEF UdpDiscovered, SendOnWs, RestInv, CallType
    <2> QED BY <1>7, <2>1, Frame DEF UdpDiscovered, wsVars, mediaVars
  <1>8. CASE OnSessionDescription(i)
    <2>1. MediaType' /\ CallType' /\ RunInv'
      BY <1>8 DEF OnSessionDescription, RestInv, MediaType, CallType, RunInv
    <2> QED BY <1>8, <2>1, Frame DEF OnSessionDescription, wsVars
  <1>9. CASE OnHeartbeatAck(i)
    <2>1. HbType' /\ BeatInv'
      BY <1>9 DEF OnHeartbeatAck, RestInv, HbType, BeatInv
    <2> QED BY <1>9, <2>1, Frame DEF OnHeartbeatAck, wsVars, mediaVars, callVars
  <1>10. CASE OnResumed(i)
    <2>1. HbType' /\ BeatInv'
      BY <1>10, MaxMissedHeartbeatsAssumption DEF OnResumed, RestInv, HbType, BeatInv
    <2>2. StateType' /\ ReconnectPending'
      BY <1>10 DEF OnResumed, StateType, ReconnectPending, VoiceConnectionState
    <2> QED BY <1>10, <2>1, <2>2, Frame DEF OnResumed, wsVars, mediaVars, callVars
  <1>11. CASE OnMedia(i)
    <2>1. MediaType' /\ CallType'
      BY <1>11 DEF OnMedia, SendOnWs, RestInv, MediaType, CallType
    <2> QED BY <1>11, <2>1, Frame DEF OnMedia, wsVars
  <1> QED
    BY <1>1, <1>2, <1>3, <1>4, <1>5, <1>6, <1>7, <1>8, <1>9, <1>10, <1>11 DEF Listening

\* Every step keeps RestInv.
LEMMA RestStep ==
  ASSUME WsInv, RestInv, [Next]_vars
  PROVE  RestInv'
  <1>e. EmplaceWs => m_ws' # 0 /\ ServerType'
    BY DEF EmplaceWs, WsInv, ServerType
  <1>1. CASE Run
    <2>1. MediaType' /\ CallType' /\ RunInv'
      BY <1>1 DEF Run, RestInv, MediaType, CallType, RunInv
    <2> QED BY <1>1, <2>1, Frame DEF Run, wsVars
  <1>2. CASE RunConnected
    <2>1. MediaType' /\ CallType' /\ RunInv'
      BY <1>2 DEF RunConnected, RestInv, MediaType, CallType, RunInv
    <2>2. UNCHANGED wsVars \/ (ReconnectPending' /\ ServerType')
      BY <1>2, <1>e DEF RunConnected, ReconnectPending
    <2> QED BY <1>2, <2>1, <2>2, Frame DEF RunConnected, wsVars
  <1>3. ASSUME NEW i \in 1..MaxWs, Listening(i) PROVE RestInv'
    BY <1>3, ListeningKeepsRest
  <1>4. ASSUME NEW i \in 1..MaxWs, NEW m \in Messages, ReadDone(i, m) PROVE RestInv'
    <2>1. ServerType'
      BY <1>4 DEF ReadDone, ServerType
    <2> QED BY <1>4, <2>1, Frame DEF ReadDone, mediaVars, callVars
  <1>5. ASSUME NEW w \in open, WsDrops(w) PROVE RestInv'
    BY <1>5, Frame DEF WsDrops, mediaVars, callVars
  <1>6. CASE HeartbeatExpires \/ HeartbeatSent
    <2>1. HbType' /\ BeatInv'
      <3>1. /\ hb' \subseteq {"waiting", "fired", "sending"}
            /\ UNCHANGED <<m_heartbeat_timer, m_heartbeat_running, m_last_heartbeat_acked,
                           m_missed_heartbeats>>
        BY <1>6 DEF HeartbeatExpires, HeartbeatSent, RestInv, HbType
      <3> QED BY <3>1, Zenon DEF RestInv, HbType, BeatInv
    <2> QED BY <1>6, <2>1, Frame DEF HeartbeatExpires, HeartbeatSent, wsVars, mediaVars, callVars
  <1>7. CASE HeartbeatTick
    <2>1. UNCHANGED <<mediaVars, callVars>>
      BY <1>7 DEF HeartbeatTick
    <2>2. CASE /\ m_missed_heartbeats' = MaxMissed
               /\ initiate_reconnect(listen, hb \ {"fired"})
               /\ UNCHANGED <<m_heartbeat_timer, m_last_heartbeat_acked>>
      <3>1. /\ hb \ {"fired"} \in SUBSET {"waiting", "fired", "sending"}
            /\ m_missed_heartbeats' \in 0..MaxMissed
        BY <2>2, MaxMissedHeartbeatsAssumption DEF RestInv, HbType
      <3> QED BY <2>1, <2>2, <3>1, InitiateStep
    <2>3. CASE /\ hb' = hb \ {"fired"}
               /\ UNCHANGED <<stateVars, wsVars, m_heartbeat_timer, m_heartbeat_running,
                              m_last_heartbeat_acked, m_missed_heartbeats, rc>>
      <3>1. HbType' /\ BeatInv'
        BY <2>3 DEF RestInv, HbType, BeatInv
      <3> QED BY <2>1, <2>3, <3>1, Frame DEF wsVars, mediaVars, callVars
    <2>4. CASE /\ m_last_heartbeat_acked \/ m_missed_heartbeats + 1 < MaxMissed
               /\ m_missed_heartbeats' = IF m_last_heartbeat_acked THEN 0 ELSE m_missed_heartbeats + 1
               /\ m_last_heartbeat_acked' = FALSE
               /\ hb' = (hb \ {"fired"}) \cup {"sending"}
               /\ UNCHANGED <<stateVars, wsVars, m_heartbeat_timer, m_heartbeat_running, rc>>
      <3>1. m_missed_heartbeats' \in 0..MaxMissed
        BY <2>4, MaxMissedHeartbeatsAssumption DEF RestInv, HbType
      <3>2. HbType' /\ BeatInv'
        BY <2>4, <3>1 DEF RestInv, HbType, BeatInv
      <3> QED BY <2>1, <2>4, <3>2, Frame DEF wsVars, mediaVars, callVars
    <2> QED BY <1>7, <2>2, <2>3, <2>4 DEF HeartbeatTick
  <1>8. CASE ReconnectTimer
    <2>1. RcType' /\ ReconnectPending'
      BY <1>8 DEF ReconnectTimer, RestInv, RcType, ReconnectPending, stateVars, wsVars
    <2> QED BY <1>8, <2>1, Frame DEF ReconnectTimer, wsVars, mediaVars, callVars
  <1>9. CASE ReconnectDone
    <2>1. RcType' /\ UNCHANGED <<mediaVars, callVars>>
      BY <1>9 DEF ReconnectDone, RestInv, RcType
    <2>2. CASE OnReconnectError /\ UNCHANGED <<wsVars, listen, hbVars>>
      <3>1. StateType' /\ ReconnectPending'
        BY <2>2 DEF OnReconnectError, StateType, ReconnectPending, VoiceConnectionState
      <3> QED BY <2>1, <2>2, <3>1, Frame DEF wsVars, mediaVars, callVars
    <2>3. CASE /\ EmplaceWs
               /\ m_last_heartbeat_acked' = TRUE /\ m_missed_heartbeats' = 0
               /\ UNCHANGED <<stateVars, m_heartbeat_timer, m_heartbeat_running, hb>>
      <3>1. HbType' /\ BeatInv'
        BY <2>3, MaxMissedHeartbeatsAssumption DEF RestInv, HbType, BeatInv
      <3>2. ReconnectPending' /\ ServerType'
        BY <2>3, <1>e DEF ReconnectPending
      <3> QED BY <2>1, <2>3, <3>1, <3>2, Frame DEF mediaVars, callVars
    <2> QED BY <1>9, <2>2, <2>3 DEF ReconnectDone
  <1>10. CASE Close
    <2>1. ReleaseMedia /\ UNCHANGED <<m_connection_state, wsVars, rc, m_dave, stopped>>
      BY <1>10 DEF Close
    <2>2. /\ m_disconnected' \in BOOLEAN /\ (m_disconnected => m_disconnected')
          /\ closing' \in {"idle", "closing", "closed", "failed", "reading", "ok", "error"} /\ crashed' \in BOOLEAN
      <3>1. /\ m_disconnected' = m_disconnected \/ m_disconnected' = TRUE
            /\ crashed' = crashed \/ crashed' = TRUE
        BY <1>10 DEF Close
      <3>2. closing' \in {"idle", "closing", "closed", "failed", "reading", "ok", "error"}
        BY <1>10 DEF Close
      <3>3. m_disconnected \in BOOLEAN /\ crashed \in BOOLEAN
        BY DEF RestInv, StateType, CallType
      <3>4. m_disconnected' \in BOOLEAN /\ crashed' \in BOOLEAN
        BY <3>1, <3>3, Zenon
      <3>5. m_disconnected => m_disconnected'
        BY <3>1
      <3> QED BY <3>2, <3>4, <3>5
    <2>3. m_dave' \in {"none", "session", "sender"} /\ stopped' \in BOOLEAN
      BY <2>1 DEF RestInv, MediaType, CallType
    <2>4. /\ HbType' /\ BeatInv' /\ MediaType' /\ RunInv'
          /\ run' \in {"idle", "connecting", "waiting", "ok", "error"}
      BY <2>1, <2>3, ReleaseStep
    <2>5. StateType' /\ ReconnectPending'
      BY <2>1, <2>2 DEF RestInv, StateType, ReconnectPending, wsVars
    <2>6. CallType'
      BY <2>2, <2>3, <2>4 DEF CallType
    <2> QED BY <2>1, <2>4, <2>5, <2>6, Frame DEF wsVars
  <1>11. CASE WsClosed
    <2>1. CallType'
      BY <1>11 DEF WsClosed, RestInv, CallType
    <2> QED BY <1>11, <2>1, Frame DEF WsClosed, wsVars, mediaVars
  <1>15. CASE WsCloses
    <2>1. CallType'
      BY <1>15 DEF WsCloses, RestInv, CallType
    <2> QED BY <1>15, <2>1, Frame DEF WsCloses, mediaVars
  <1>12. CASE LastRead
    <2>1. CallType'
      BY <1>12 DEF LastRead, RestInv, CallType
    <2>2. StateType' /\ ReconnectPending'
      BY <1>12 DEF LastRead, RestInv, StateType, ReconnectPending
    <2>3. ServerType'
      BY <1>12 DEF LastRead, ServerSends, RestInv, ServerType
    <2> QED BY <1>12, <2>1, <2>2, <2>3, Frame DEF LastRead, mediaVars
  <1>13. CASE RequestStop
    <2>1. /\ ReleaseMedia /\ stopped' = TRUE /\ m_disconnected' = TRUE /\ m_dave' = "none"
          /\ UNCHANGED <<m_connection_state, m_ws, server, rc, closing, crashed>>
      BY <1>13 DEF RequestStop
    <2>2. /\ HbType' /\ BeatInv' /\ MediaType' /\ RunInv'
          /\ run' \in {"idle", "connecting", "waiting", "ok", "error"}
      BY <2>1, ReleaseStep
    <2>3. StateType' /\ ReconnectPending'
      BY <2>1 DEF RestInv, StateType, ReconnectPending
    <2>4. CallType'
      BY <2>1, <2>2 DEF RestInv, CallType
    <2> QED BY <2>1, <2>2, <2>3, <2>4, Frame
  <1>14. CASE UNCHANGED vars
    BY <1>14, Frame DEF vars, wsVars, mediaVars, callVars
  <1> QED
    BY <1>1, <1>2, <1>3, <1>4, <1>5, <1>6, <1>7, <1>8, <1>9, <1>10, <1>11, <1>12, <1>13, <1>14, <1>15
    DEF Next

\* Every step keeps CloserInv: a websocket is opened only by being made.
LEMMA CloserStep ==
  ASSUME WsInv, CloserInv, [Next]_vars
  PROVE  CloserInv'
  <1>m. made \in Nat /\ m_ws \in 0..made
    BY MaxWsAssumption DEF WsInv
  <1>1. ASSUME UNCHANGED <<closing, closing_ws>>, made' = made, open' \subseteq open
        PROVE  CloserInv'
    BY <1>1 DEF CloserInv
  <1>2. ASSUME EmplaceWs, UNCHANGED <<closing, closing_ws>>
        PROVE  CloserInv'
    <2>1. made' = made + 1 /\ open' \subseteq open \cup {made'}
      BY <1>2 DEF EmplaceWs
    <2> QED BY <1>2, <1>m, <2>1 DEF CloserInv
  <1>3. CASE Run \/ HeartbeatExpires \/ HeartbeatSent \/ ReconnectTimer \/ UNCHANGED vars
    BY <1>1, <1>3 DEF Run, HeartbeatExpires, HeartbeatSent, ReconnectTimer, vars, wsVars, callVars
  <1>4. CASE RunConnected
    BY <1>1, <1>2, <1>4 DEF RunConnected, wsVars
  <1>5. ASSUME NEW i \in 1..MaxWs, Listening(i) PROVE CloserInv'
    <2>1. UNCHANGED <<closing, closing_ws>>
      BY <1>5 DEF Listening, Step, OnReadFailed, OnHello, OnReady, UdpBound, UdpConnected,
                  UdpDiscovered, OnSessionDescription, OnHeartbeatAck, OnResumed, OnMedia, Sent,
                  callVars
    <2>2. made' = made /\ open' \subseteq open
      BY <1>5 DEF Listening, Step, OnReadFailed, OnHello, OnReady, UdpBound, UdpConnected,
                  UdpDiscovered, OnSessionDescription, OnHeartbeatAck, OnResumed, OnMedia, Sent,
                  initiate_reconnect, wsVars
    <2> QED BY <2>1, <2>2, <1>1
  <1>6. ASSUME NEW i \in 1..MaxWs, NEW m \in Messages, ReadDone(i, m) PROVE CloserInv'
    BY <1>1, <1>6 DEF ReadDone, callVars
  <1>7. ASSUME NEW w \in open, WsDrops(w) PROVE CloserInv'
    BY <1>1, <1>7 DEF WsDrops, callVars
  <1>8. CASE HeartbeatTick
    BY <1>1, <1>8 DEF HeartbeatTick, initiate_reconnect, wsVars, callVars
  <1>9. CASE ReconnectDone
    BY <1>1, <1>2, <1>9 DEF ReconnectDone, wsVars, callVars
  <1>10. CASE Close
    BY <1>10, <1>m DEF Close, CloserInv, wsVars
  <1>11. CASE WsCloses
    BY <1>11 DEF WsCloses, CloserInv
  <1>12. CASE WsClosed
    BY <1>12, <1>m DEF WsClosed, CloserInv, wsVars
  <1>13. CASE LastRead
    BY <1>13, <1>m DEF LastRead, CloserInv
  <1>14. CASE RequestStop
    BY <1>1, <1>14 DEF RequestStop
  <1> QED
    BY <1>3, <1>4, <1>5, <1>6, <1>7, <1>8, <1>9, <1>10, <1>11, <1>12, <1>13, <1>14 DEF Next

\* VInv is an invariant.
THEOREM ConnectionInductive == Spec => []VInv
  <1>1. Init => VInv
    <2> SUFFICES ASSUME Init PROVE VInv
      OBVIOUS
    <2>1. WsInv
      BY MaxWsAssumption DEF Init, WsInv, LoopsOk, NoOp, ListenOp
    <2>2. HbType /\ BeatInv
      <3>1. m_missed_heartbeats \in 0..MaxMissed
        BY MaxMissedHeartbeatsAssumption DEF Init
      <3> QED BY <3>1, Zenon DEF Init, HbType, BeatInv
    <2>3. StateType /\ MediaType /\ CallType /\ RcType /\ ServerType
      BY DEF Init, StateType, MediaType, CallType, RcType, ServerType, VoiceConnectionState
    <2>4. RunInv /\ ReconnectPending
      BY DEF Init, RunInv, ReconnectPending
    <2>5. CloserInv
      BY DEF Init, CloserInv
    <2> QED
      BY <2>1, <2>2, <2>3, <2>4, <2>5 DEF VInv, RestInv
  <1>2. VInv /\ [Next]_vars => VInv'
    <2> SUFFICES ASSUME VInv, [Next]_vars PROVE VInv'
      OBVIOUS
    <2>1. WsInv'
      BY WsStep DEF VInv
    <2>2. RestInv'
      BY RestStep DEF VInv
    <2>3. CloserInv'
      BY CloserStep DEF VInv
    <2> QED BY <2>1, <2>2, <2>3 DEF VInv
  <1> QED
    BY <1>1, <1>2, PTL DEF Spec

\* Every variable keeps its type.
THEOREM ConnectionType == Spec => []TypeOK
  <1>1. VInv => TypeOK
    <2> SUFFICES ASSUME VInv PROVE TypeOK
      OBVIOUS
    <2>1. made \in 1..MaxWs /\ m_ws \in 0..made /\ open \subseteq 1..made
          /\ closing_ws \in 0..made
      BY MaxWsAssumption DEF VInv, WsInv, CloserInv
    <2>2. listen \in [1..MaxWs -> ListenOp]
      BY DEF VInv, WsInv, LoopsOk
    <2> QED
      BY <2>1, <2>2, Zenon DEF VInv, RestInv, TypeOK, StateType, HbType, MediaType, CallType,
                              RcType, ServerType
  <1> QED
    BY <1>1, ConnectionInductive, PTL

\* No websocket but m_ws is left open, and no loop waits on another one: neither
\* a reconnect, a close, a drop nor a new call of run leaves one behind.
THEOREM OneWebsocket == Spec => []ReadsOnCurrentWs
  <1>1. VInv => ReadsOnCurrentWs
    BY DEF VInv, WsInv, LoopsOk, ReadsOnCurrentWs
  <1> QED
    BY <1>1, ConnectionInductive, PTL

\* A reconnect that left the connection without a websocket is never lost: its
\* timer or its connect is still to come, or the connection was given up.  What
\* ReconnectSettles adds, that those complete, is fairness.
THEOREM ReconnectNotLost == Spec => []ReconnectPending
  <1>1. VInv => ReconnectPending
    BY DEF VInv, RestInv
  <1> QED
    BY <1>1, ConnectionInductive, PTL

\* The caller of run waits only on a channel that is there: close and
\* request_stop, which destroy it, answer the caller, also when run was called
\* again and its connect completes late.
THEOREM RunCallerAnswered == Spec => []RunInv
  <1>1. VInv => RunInv
    BY DEF VInv, RestInv
  <1> QED
    BY <1>1, ConnectionInductive, PTL

=============================================================================
