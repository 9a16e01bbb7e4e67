-------------------------- MODULE VoiceConnection --------------------------
(***************************************************************************)
(* The life of a voice connection (src/src/voice/voice_connection*.cpp,    *)
(* voice_websocket.cpp, voice_heartbeat.cpp, voice_reconnect.cpp):         *)
(* run, close, request_stop, the listen loop, the heartbeat and the        *)
(* reconnect, on one io_context thread, so that a handler is one step and  *)
(* everything that completed but whose handler did not run yet is queued.  *)
(* The audio and the DAVE handlers are in VoiceMedia.                      *)
(*                                                                         *)
(* Websockets are numbered; ws i is cancelled, closed or dropped when      *)
(* i \notin open.  A ListenOp reads from whatever m_ws is when it takes    *)
(* its next step.  Several places use m_ws, m_udp or m_dave without        *)
(* looking whether it is there; `crashed' is what happens when it is not.  *)
(***************************************************************************)
EXTENDS Naturals, FiniteSets

CONSTANTS
  MaxWs,      \* websockets ever made; the first one is there when run is called
  MaxMissed   \* kMaxMissedHeartbeats

ASSUME MaxWsAssumption == MaxWs \in Nat \ {0}
ASSUME MaxMissedHeartbeatsAssumption == MaxMissed \in Nat \ {0}

VARIABLES
  m_connection_state, m_disconnected,
  m_ws,                 \* 0: none
  made, open,
  listen,               \* the ListenOps: per number, where it is
  m_heartbeat_timer, m_heartbeat_running, m_last_heartbeat_acked, m_missed_heartbeats,
  hb,                   \* where heartbeat chains are: "waiting", "fired", "sending"
  rc,                   \* where reconnects are: "timer", "connecting"
  m_udp, m_dave,        \* m_dave: "none", "session" or "sender" (external sender known)
  chans,                \* which of m_channel, m_recv_chan and m_ready_chan exist, and
                        \* "ready" when a signal that nobody waits for is in the last
  run, closing,         \* where the callers of run and close are
  closing_ws,           \* the websocket close() waits for; 0: none
  stopped,              \* request_stop was called (history)
  crashed,
  server                \* how far the server's handshake on m_ws is

hbVars == <<m_heartbeat_timer, m_heartbeat_running, m_last_heartbeat_acked,
            m_missed_heartbeats, hb>>
wsVars == <<m_ws, made, open, server>>
stateVars == <<m_connection_state, m_disconnected>>
mediaVars == <<m_udp, m_dave, chans>>
callVars == <<run, closing, closing_ws, stopped, crashed>>
vars == <<stateVars, wsVars, listen, hbVars, rc, mediaVars, callVars>>

\* What the voice server may send; "Media" stands for the opcodes of VoiceMedia.
Messages == {"Hello", "Ready", "SessionDescription", "HeartbeatAck", "Resumed", "Media"}

\* A ListenOp: about to step, reading on a websocket, with the result of the
\* read, in one of the stages of setup_udp_async, or waiting for a send.
NoOp == [at |-> "none"]
ListenOp == {NoOp, [at |-> "step"], [at |-> "failed"]}
              \cup [at : {"reading", "sending"}, ws : 1..MaxWs]
              \cup [at : {"got"}, m : Messages]
              \cup [at : {"bind", "connect", "discover"}, ok : BOOLEAN]

VoiceConnectionState == {"Disconnected", "Connecting", "Identifying", "Ready", "Resuming", "Closed"}

TypeOK ==
  /\ m_connection_state \in VoiceConnectionState /\ m_disconnected \in BOOLEAN
  /\ made \in 1..MaxWs /\ m_ws \in 0..made /\ open \subseteq 1..made
  /\ listen \in [1..MaxWs -> ListenOp]
  /\ m_heartbeat_timer \in BOOLEAN /\ m_heartbeat_running \in BOOLEAN
  /\ m_last_heartbeat_acked \in BOOLEAN /\ m_missed_heartbeats \in 0..MaxMissed
  /\ hb \subseteq {"waiting", "fired", "sending"}
  /\ rc \subseteq {"timer", "connecting"}
  /\ m_udp \in BOOLEAN /\ m_dave \in {"none", "session", "sender"}
  /\ chans \subseteq {"m_channel", "m_recv_chan", "m_ready_chan", "ready"}
  /\ run \in {"idle", "connecting", "waiting", "ok", "error"}
  /\ closing \in {"idle", "closing", "closed", "failed", "reading", "ok", "error"}
  /\ closing_ws \in 0..made
  /\ stopped \in BOOLEAN /\ crashed \in BOOLEAN
  /\ server \in {"new", "greeted", "identify", "resume", "up"}

Init ==
  /\ m_connection_state = "Disconnected" /\ m_disconnected = FALSE
  /\ m_ws = 1 /\ made = 1 /\ open = {1}
  /\ listen = [i \in 1..MaxWs |-> NoOp]
  /\ m_heartbeat_timer = FALSE /\ m_heartbeat_running = FALSE
  /\ m_last_heartbeat_acked = TRUE /\ m_missed_heartbeats = 0 /\ hb = {}
  /\ rc = {}
  /\ m_udp = FALSE /\ m_dave = "none" /\ chans = {}
  /\ run = "idle" /\ closing = "idle" /\ closing_ws = 0 /\ stopped = FALSE /\ crashed = FALSE
  /\ server = "new"

-----------------------------------------------------------------------------
(* What several handlers do.                                               *)

Put(i, o) == listen' = [listen EXCEPT ![i] = o]

\* m_ws is used: without one the program is undefined.
SendOnWs(i) ==
  \/ m_ws # 0 /\ Put(i, [at |-> "sending", ws |-> m_ws]) /\ UNCHANGED crashed
  \/ m_ws = 0 /\ crashed' = TRUE /\ UNCHANGED listen

Crash(i) == crashed' = TRUE /\ UNCHANGED listen

\* What cancelling ws w does to the operations on it: reads and sends fail.
Failed(ls, w) ==
  [i \in 1..MaxWs |->
     IF ls[i].at = "reading" /\ ls[i].ws = w THEN [at |-> "failed"]
     ELSE IF ls[i].at = "sending" /\ ls[i].ws = w THEN [at |-> "step"]
     ELSE ls[i]]

\* A timer that is cancelled calls its handler with an error, which returns;
\* a handler that is already queued is not affected.
CancelledWait == hb \ {"waiting"}

\* The common part of close and request_stop.  The callers waiting on a channel
\* that is destroyed are answered with an error.
ReleaseMedia ==
  /\ m_heartbeat_running' = FALSE /\ m_heartbeat_timer' = FALSE /\ hb' = CancelledWait
  /\ chans' = {}
  /\ m_udp' = FALSE
  /\ run' = IF run = "waiting" THEN "error" ELSE run
  /\ UNCHANGED <<m_last_heartbeat_acked, m_missed_heartbeats>>

\* close() of the UDP socket: what waits on it fails.
UdpClosed(ls) ==
  [i \in 1..MaxWs |->
     IF ls[i].at \in {"connect", "discover"} THEN [at |-> ls[i].at, ok |-> FALSE] ELSE ls[i]]

-----------------------------------------------------------------------------
(* run                                                                     *)

\* run: the loop that listens on the websocket is started, and the caller
\* waits on m_ready_chan.  A call while that channel exists returns at once.
\* Bound: run is called again only after it succeeded, and only on a connection
\* that has no websocket any more.
Run ==
  /\ "m_ready_chan" \notin chans
  /\ chans' = chans \cup {"m_ready_chan"}
  /\ \/ run = "idle" /\ m_ws # 0 /\ run' = "waiting" /\ Put(1, [at |-> "step"])
     \/ run = "ok" /\ m_ws = 0 /\ run' = "connecting" /\ UNCHANGED listen
  /\ UNCHANGED <<stateVars, wsVars, hbVars, rc, m_udp, m_dave, closing, closing_ws, stopped, crashed>>

\* m_ws.emplace and ws_listen_loop: the websocket that was there is destroyed,
\* which cancels it, and a loop is started.
EmplaceWs ==
  /\ made < MaxWs
  /\ made' = made + 1 /\ m_ws' = made' /\ server' = "new"
  /\ open' = (open \ {m_ws}) \cup {made'}
  /\ listen' = [Failed(listen, m_ws) EXCEPT ![made'] = [at |-> "step"]]

RunConnected ==
  /\ run = "connecting"
  /\ chans' = chans \ {"ready"}
  /\ \/ run' = "error" /\ UNCHANGED <<wsVars, listen, crashed>>
     \/ /\ EmplaceWs
        /\ \/ /\ "m_ready_chan" \in chans /\ UNCHANGED crashed
              /\ run' = IF "ready" \in chans THEN "ok" ELSE "waiting"
           \/ "m_ready_chan" \notin chans /\ crashed' = TRUE /\ UNCHANGED run
  /\ UNCHANGED <<stateVars, hbVars, rc, m_udp, m_dave, closing, closing_ws, stopped>>

-----------------------------------------------------------------------------
(* The listen loop                                                         *)

\* ListenOp::step: read from the current websocket, or end the loop.
Step(i) ==
  /\ listen[i].at = "step"
  /\ Put(i, IF m_ws = 0 THEN NoOp
            ELSE IF m_ws \in open THEN [at |-> "reading", ws |-> m_ws] ELSE [at |-> "failed"])
  /\ UNCHANGED <<stateVars, wsVars, hbVars, rc, mediaVars, callVars>>

\* external: what the server may send on a websocket, and what follows.
ServerSends(p, m, q) ==
  \/ p = "new" /\ m = "Hello" /\ q = "greeted"
  \/ p = "identify" /\ m = "Ready" /\ q = "up"
  \/ p = "resume" /\ m = "Resumed" /\ q = "up"
  \/ p = "up" /\ m \in {"SessionDescription", "Media"} /\ q = p
  \/ p # "new" /\ m = "HeartbeatAck" /\ q = p

\* external: a read completes, or the connection ends.
ReadDone(i, m) ==
  /\ listen[i].at = "reading" /\ listen[i].ws \in open
  /\ \E q \in {"greeted", "identify", "resume", "up"} :
       ServerSends(server, m, q) /\ server' = q
  /\ Put(i, [at |-> "got", m |-> m])
  /\ UNCHANGED <<stateVars, m_ws, made, open, hbVars, rc, mediaVars, callVars>>

WsDrops(w) ==
  /\ w \in open
  /\ open' = open \ {w}
  /\ listen' = Failed(listen, w)
  /\ UNCHANGED <<stateVars, m_ws, made, server, hbVars, rc, mediaVars, callVars>>

\* Mutation: the websocket is given up without being cancelled.
ReconnectWithoutCancel(ls, chains) ==
  IF m_disconnected
  THEN listen' = ls /\ hb' = chains /\ UNCHANGED <<stateVars, wsVars, m_heartbeat_running, rc>>
  ELSE /\ m_heartbeat_running' = FALSE /\ hb' = chains \ {"waiting"}
       /\ m_connection_state' = IF m_connection_state = "Ready" THEN "Resuming" ELSE "Connecting"
       /\ listen' = ls
       /\ m_ws' = 0
       /\ rc' = rc \cup {"timer"}
       /\ UNCHANGED <<m_disconnected, made, open, server>>

\* initiate_reconnect, called with the listen loops and heartbeat chains left.
initiate_reconnect(ls, chains) ==
  IF m_disconnected
  THEN listen' = ls /\ hb' = chains /\ UNCHANGED <<stateVars, wsVars, m_heartbeat_running, rc>>
  ELSE /\ m_heartbeat_running' = FALSE /\ hb' = chains \ {"waiting"}
       /\ m_connection_state' = IF m_connection_state = "Ready" THEN "Resuming" ELSE "Connecting"
       /\ listen' = Failed(ls, m_ws)
       /\ open' = open \ {m_ws} /\ m_ws' = 0
       /\ rc' = rc \cup {"timer"}
       /\ UNCHANGED <<m_disconnected, made, server>>

\* The read failed: the close code decides (is_resumable_close_code), and only
\* a connection that was Ready is resumed.  The loop ends.
OnReadFailed(i, resumable) ==
  /\ listen[i].at = "failed"
  /\ LET ls == [listen EXCEPT ![i] = NoOp]
     IN IF resumable /\ m_connection_state = "Ready"
        THEN /\ initiate_reconnect(ls, hb)
             /\ UNCHANGED <<m_heartbeat_timer, m_last_heartbeat_acked, m_missed_heartbeats>>
        ELSE /\ m_connection_state' = "Closed" /\ m_disconnected' = TRUE
             /\ listen' = ls
             /\ UNCHANGED <<wsVars, hbVars, rc>>
  /\ UNCHANGED <<mediaVars, callVars>>

Got(i, m) == listen[i].at = "got" /\ listen[i].m = m

\* Ready: setup_udp_async makes the DAVE state and binds a socket.
OnReady(i) ==
  /\ Got(i, "Ready")
  /\ m_disconnected' = FALSE /\ m_connection_state' = "Ready"
  /\ m_dave' = IF m_dave = "none" THEN "session" ELSE m_dave
  /\ \E ok \in BOOLEAN : Put(i, [at |-> "bind", ok |-> ok])
  /\ UNCHANGED <<wsVars, hbVars, rc, m_udp, chans, callVars>>

\* Its stages; each completes with a result that may be stale when its handler
\* runs, and a failed one ends the chain and lets the loop go on.
UdpBound(i) ==
  /\ listen[i].at = "bind"
  /\ \/ listen[i].ok /\ m_udp' = TRUE /\ \E ok \in BOOLEAN : Put(i, [at |-> "connect", ok |-> ok])
     \/ ~listen[i].ok /\ Put(i, [at |-> "step"]) /\ UNCHANGED m_udp
  /\ UNCHANGED <<stateVars, wsVars, hbVars, rc, m_dave, chans, callVars>>

UdpConnected(i) ==
  /\ listen[i].at = "connect"
  /\ \/ /\ ~listen[i].ok /\ m_udp' = FALSE
        /\ Put(i, [at |-> "step"]) /\ UNCHANGED crashed
     \/ /\ listen[i].ok /\ m_udp /\ UNCHANGED <<m_udp, crashed>>
        /\ \E ok \in BOOLEAN : Put(i, [at |-> "discover", ok |-> ok])
     \/ listen[i].ok /\ ~m_udp /\ Crash(i) /\ UNCHANGED m_udp
  /\ UNCHANGED <<stateVars, wsVars, hbVars, rc, m_dave, chans, run, closing, closing_ws, stopped>>

\* The answer to the discovery packet, too short or not: SelectProtocol is sent.
UdpDiscovered(i) ==
  /\ listen[i].at = "discover"
  /\ \/ ~listen[i].ok /\ Put(i, [at |-> "step"]) /\ UNCHANGED crashed
     \/ listen[i].ok /\ SendOnWs(i)
  /\ UNCHANGED <<stateVars, wsVars, hbVars, rc, mediaVars, run, closing, closing_ws, stopped>>

\* SessionDescription: the key is installed, the channels are made and the
\* loops started, which signals ready when there is a socket; a mode that is
\* not supported is an error that the loop ignores.
OnSessionDescription(i) ==
  /\ Got(i, "SessionDescription")
  /\ Put(i, [at |-> "step"])
  /\ \/ UNCHANGED <<chans, run>>
     \/ /\ run' = IF m_udp /\ run = "waiting" THEN "ok" ELSE run
        /\ chans' = chans \cup {"m_channel", "m_recv_chan"} \cup
                      (IF m_udp /\ run = "connecting" /\ "m_ready_chan" \in chans THEN {"ready"} ELSE {})
  /\ UNCHANGED <<stateVars, wsVars, hbVars, rc, m_udp, m_dave, closing, closing_ws, stopped, crashed>>

OnHeartbeatAck(i) ==
  /\ Got(i, "HeartbeatAck")
  /\ m_last_heartbeat_acked' = TRUE
  /\ Put(i, [at |-> "step"])
  /\ UNCHANGED <<stateVars, wsVars, m_heartbeat_timer, m_heartbeat_running, m_missed_heartbeats,
                 hb, rc, mediaVars, callVars>>

\* setup_heartbeat: nothing when there is a timer already, running or not.
setup_heartbeat ==
  IF m_heartbeat_timer
  THEN UNCHANGED hbVars
  ELSE /\ m_heartbeat_timer' = TRUE /\ m_heartbeat_running' = TRUE
       /\ hb' = hb \cup {"waiting"}
       /\ UNCHANGED <<m_last_heartbeat_acked, m_missed_heartbeats>>

\* Hello: the heartbeat is set up, and Resume or Identify sent.
OnHello(i) ==
  /\ Got(i, "Hello")
  /\ setup_heartbeat
  /\ m_connection_state' = IF m_connection_state = "Resuming" THEN "Resuming" ELSE "Identifying"
  /\ SendOnWs(i)
  /\ server' = IF m_connection_state = "Resuming" THEN "resume" ELSE "identify"
  /\ UNCHANGED <<m_disconnected, m_ws, made, open, rc, mediaVars, run, closing, closing_ws, stopped>>

OnResumed(i) ==
  /\ Got(i, "Resumed")
  /\ m_connection_state' = "Ready" /\ m_disconnected' = FALSE
  /\ m_missed_heartbeats' = 0
  /\ Put(i, [at |-> "step"])
  /\ UNCHANGED <<wsVars, m_heartbeat_timer, m_heartbeat_running, m_last_heartbeat_acked, hb, rc,
                 mediaVars, callVars>>

\* An opcode of VoiceMedia: it may tell the external sender, and sends nothing,
\* sends when there is a websocket, or sends without looking.
OnMedia(i) ==
  /\ Got(i, "Media")
  /\ \/ m_dave' = (IF m_dave = "none" THEN "none" ELSE "sender")
     \/ UNCHANGED m_dave
  /\ \/ Put(i, [at |-> "step"]) /\ UNCHANGED crashed
     \/ SendOnWs(i)
  /\ UNCHANGED <<stateVars, wsVars, hbVars, rc, m_udp, chans, run, closing, closing_ws, stopped>>

\* A send completes; its result is ignored.
Sent(i) ==
  /\ listen[i].at = "sending"
  /\ Put(i, [at |-> "step"])
  /\ UNCHANGED <<stateVars, wsVars, hbVars, rc, mediaVars, callVars>>

-----------------------------------------------------------------------------
(* The heartbeat                                                           *)

HeartbeatExpires ==
  /\ "waiting" \in hb /\ hb' = (hb \ {"waiting"}) \cup {"fired"}
  /\ UNCHANGED <<stateVars, wsVars, listen, m_heartbeat_timer, m_heartbeat_running,
                 m_last_heartbeat_acked, m_missed_heartbeats, rc, mediaVars, callVars>>

\* heartbeat_tick's handler and send_heartbeat.
HeartbeatTick ==
  /\ "fired" \in hb
  /\ \/ /\ ~m_heartbeat_running
        /\ hb' = hb \ {"fired"}
        /\ UNCHANGED <<stateVars, wsVars, listen, m_heartbeat_timer, m_heartbeat_running,
                       m_last_heartbeat_acked, m_missed_heartbeats, rc>>
     \/ /\ m_heartbeat_running /\ ~m_last_heartbeat_acked /\ m_missed_heartbeats + 1 >= MaxMissed
        /\ m_missed_heartbeats' = MaxMissed
        /\ initiate_reconnect(listen, hb \ {"fired"})
        /\ UNCHANGED <<m_heartbeat_timer, m_last_heartbeat_acked>>
     \/ /\ m_heartbeat_running /\ (m_last_heartbeat_acked \/ m_missed_heartbeats + 1 < MaxMissed)
        /\ m_missed_heartbeats' = IF m_last_heartbeat_acked THEN 0 ELSE m_missed_heartbeats + 1
        /\ m_last_heartbeat_acked' = FALSE
        /\ hb' = (hb \ {"fired"}) \cup {"sending"}
        /\ UNCHANGED <<stateVars, wsVars, listen, m_heartbeat_timer, m_heartbeat_running, rc>>
  /\ UNCHANGED <<mediaVars, callVars>>

\* The heartbeat was written, failed, or there was no websocket.
HeartbeatSent ==
  /\ "sending" \in hb
  /\ hb' = (hb \ {"sending"}) \cup
             (IF m_heartbeat_running /\ m_heartbeat_timer THEN {"waiting"} ELSE {})
  /\ UNCHANGED <<stateVars, wsVars, listen, m_heartbeat_timer, m_heartbeat_running,
                 m_last_heartbeat_acked, m_missed_heartbeats, rc, mediaVars, callVars>>

-----------------------------------------------------------------------------
(* Reconnecting                                                            *)

ReconnectTimer ==
  /\ "timer" \in rc
  /\ rc' = (rc \ {"timer"}) \cup (IF m_disconnected THEN {} ELSE {"connecting"})
  /\ UNCHANGED <<stateVars, wsVars, listen, hbVars, mediaVars, callVars>>

\* Mutation: a failed connect is only logged.
ReconnectErrorIsLogged == UNCHANGED stateVars

\* The handler initiate_reconnect passes, on failure.
OnReconnectError == m_connection_state' = "Closed" /\ m_disconnected' = TRUE

\* connect_ws_async completes: nothing looks whether the connection was closed
\* meanwhile.
ReconnectDone ==
  /\ "connecting" \in rc /\ rc' = rc \ {"connecting"}
  /\ \/ OnReconnectError /\ UNCHANGED <<wsVars, listen, hbVars>>
     \/ /\ EmplaceWs
        /\ m_last_heartbeat_acked' = TRUE /\ m_missed_heartbeats' = 0
        /\ UNCHANGED <<stateVars, m_heartbeat_timer, m_heartbeat_running, hb>>
  /\ UNCHANGED <<mediaVars, callVars>>

-----------------------------------------------------------------------------
(* close and request_stop                                                  *)

\* close: without an external sender it returns success with the websocket
\* left open; m_dave is used without looking.
Close ==
  /\ closing = "idle"
  /\ ReleaseMedia
  /\ \/ m_udp /\ closing' = "error" /\ UNCHANGED <<m_disconnected, closing_ws, crashed>>
     \/ m_dave = "none" /\ crashed' = TRUE /\ UNCHANGED <<m_disconnected, closing, closing_ws>>
     \/ m_dave = "session" /\ closing' = "ok" /\ UNCHANGED <<m_disconnected, closing_ws, crashed>>
     \/ /\ m_dave = "sender" /\ m_ws = 0
        /\ closing' = "ok" /\ m_disconnected' = TRUE /\ UNCHANGED <<closing_ws, crashed>>
     \/ /\ m_dave = "sender" /\ m_ws # 0
        /\ closing' = "closing" /\ closing_ws' = m_ws /\ UNCHANGED <<m_disconnected, crashed>>
  /\ listen' = UdpClosed(listen)
  /\ UNCHANGED <<m_connection_state, wsVars, rc, m_dave, stopped>>

\* external: the close of the websocket that was m_ws when close was called is
\* over, with success only if that websocket was not cancelled or dropped; its
\* handler is queued.
WsCloses ==
  /\ closing = "closing"
  /\ \/ closing_ws \in open /\ closing' = "closed"
     \/ closing' = "failed"
  /\ open' = open \ {closing_ws} /\ listen' = Failed(listen, closing_ws)
  /\ UNCHANGED <<stateVars, m_ws, made, server, hbVars, rc, mediaVars, run, closing_ws,
                 stopped, crashed>>

\* Mutation: the caller is told only when the websocket closed without error.
WsClosedErrorIsLost ==
  /\ \/ closing = "failed" /\ closing' = "idle" /\ closing_ws' = 0 /\ UNCHANGED crashed
     \/ closing = "closed" /\ m_ws # 0 /\ closing' = "reading" /\ closing_ws' = m_ws /\ UNCHANGED crashed
     \/ closing = "closed" /\ m_ws = 0 /\ crashed' = TRUE /\ UNCHANGED <<closing, closing_ws>>
  /\ UNCHANGED <<stateVars, wsVars, listen, hbVars, rc, mediaVars, run, stopped>>

\* The handler of that close: a last read is started on what m_ws is by now,
\* which may be another websocket, or none.
WsClosed ==
  /\ \/ closing = "failed" /\ closing' = "error" /\ closing_ws' = 0 /\ UNCHANGED crashed
     \/ closing = "closed" /\ m_ws # 0 /\ closing' = "reading" /\ closing_ws' = m_ws /\ UNCHANGED crashed
     \/ closing = "closed" /\ m_ws = 0 /\ crashed' = TRUE /\ UNCHANGED <<closing, closing_ws>>
  /\ UNCHANGED <<stateVars, wsVars, listen, hbVars, rc, mediaVars, run, stopped>>

\* The last read completes, with an error, or with a message that the listen
\* loop of a new websocket then does not get; what m_ws is by then is dropped.
LastRead ==
  /\ closing = "reading" /\ closing' = "ok" /\ closing_ws' = 0
  /\ \/ closing_ws \notin open /\ UNCHANGED server
     \/ closing_ws \in open /\ \E m \in Messages : ServerSends(server, m, server')
  /\ m_ws' = 0 /\ open' = open \ {m_ws} /\ listen' = Failed(listen, m_ws)
  /\ m_disconnected' = TRUE
  /\ UNCHANGED <<m_connection_state, made, hbVars, rc, mediaVars, run, stopped, crashed>>

\* request_stop, or the destructor.
RequestStop ==
  /\ ~stopped /\ stopped' = TRUE
  /\ ReleaseMedia
  /\ m_disconnected' = TRUE /\ m_dave' = "none"
  /\ open' = open \ {m_ws} /\ listen' = Failed(UdpClosed(listen), m_ws)
  /\ UNCHANGED <<m_connection_state, m_ws, made, server, rc, closing, closing_ws, crashed>>

-----------------------------------------------------------------------------
Listening(i) ==
  \/ Step(i)
  \/ \E resumable \in BOOLEAN : OnReadFailed(i, resumable)
  \/ OnHello(i) \/ OnReady(i) \/ UdpBound(i) \/ UdpConnected(i) \/ UdpDiscovered(i)
  \/ OnSessionDescription(i) \/ OnHeartbeatAck(i) \/ OnResumed(i) \/ OnMedia(i)
  \/ Sent(i)

Next ==
  /\ ~crashed
  /\ \/ Run \/ RunConnected
     \/ \E i \in 1..MaxWs : Listening(i) \/ \E m \in Messages : ReadDone(i, m)
     \/ \E w \in open : WsDrops(w)
     \/ HeartbeatExpires \/ HeartbeatTick \/ HeartbeatSent
     \/ ReconnectTimer \/ ReconnectDone
     \/ Close \/ WsCloses \/ WsClosed \/ LastRead
     \/ RequestStop

Spec == Init /\ [][Next]_vars

\* Timers expire, a connect and a close complete (Beast bounds both handshakes
\* by its timeout), a queued handler runs, and a read on a websocket that is not
\* open fails.  Nothing makes the server send anything, so that a last read on a
\* websocket that is open may wait for ever.
Fairness ==
  /\ WF_vars(~crashed /\ (ReconnectTimer \/ ReconnectDone))
  /\ WF_vars(~crashed /\ (WsCloses \/ WsClosed))
  /\ WF_vars(~crashed /\ closing_ws \notin open /\ LastRead)

FairSpec == Spec /\ Fairness

-----------------------------------------------------------------------------
(* Properties.                                                             *)

\* The connection keeps track of its websocket through reconnects, closes, drops
\* and calls of run: a websocket other than m_ws is never left open, and a loop
\* that waits for a message waits on m_ws, which is open, never on one that was
\* cancelled or replaced and from which nothing comes.
ReadsOnCurrentWs ==
  /\ open \subseteq {m_ws}
  /\ \A i \in 1..MaxWs : listen[i].at = "reading" => listen[i].ws \in open

\* A reconnect is never forgotten half way: it ends in a new websocket or in
\* m_disconnected, whatever fails, is closed or is stopped meanwhile.
ReconnectSettles ==
  (m_connection_state \in {"Resuming", "Connecting"} /\ m_ws = 0)
    ~> (m_ws # 0 \/ m_disconnected \/ crashed)

\* The last read of close waits on a websocket that took the place of the one
\* that was closed, and from which nothing came so far.
LastReadWaits == closing = "reading" /\ closing_ws \in open

\* The caller of close is answered, also when the listen loop gives the
\* websocket up or a reconnect replaces it in the middle of the close, with two
\* exceptions, both from m_ws being looked at again only after the close: the
\* last read may wait for ever on a websocket that a reconnect installed, and the
\* program may crash, there or in another handler that uses what is gone.
CloseIsAnswered ==
  closing = "closing" ~> (closing \in {"ok", "error"} \/ []LastReadWaits \/ crashed)
=============================================================================
