---------------------------- MODULE ShardProofs ----------------------------
(***************************************************************************)
(* Machine-checked proofs about the gateway shard, for any number of       *)
(* overlapping next_event calls, any number of connections and any         *)
(* kMaxMissedHeartbeats.                                                   *)
(*                                                                         *)
(* None of the properties is inductive alone.  What they need is gathered  *)
(* in IInv: OpInv ties the state of an operation to the connection and     *)
(* message it holds, RunInv says that a running heartbeat owns a timer,    *)
(* AckInv counts the heartbeats that are out since the last sign of life.  *)
(*                                                                         *)
(* The last two sections are about what a message needs to reach the       *)
(* application: the inflater of its connection (HeldInv, OwnInv), and a     *)
(* session that continues where it was left (SessInv).                     *)
(***************************************************************************)
EXTENDS GatewaySession, TLAPS

OpType ==
  /\ pc \in [Callers -> PC]
  /\ on \in [Callers -> Conns \cup {None}]
  /\ got \in [Callers -> Message \cup {None}]

RestType ==
  /\ m_ws \in Conns \cup {None}
  /\ m_timer \in {"none", "idle", "armed"}
  /\ m_heartbeat_running \in BOOLEAN
  /\ m_session \in 0..MaxSeq \cup {None}
  /\ m_resume_gateway_url \in BOOLEAN
  /\ m_intentional_close \in BOOLEAN
  /\ m_inflater \in Conns \cup {None}
  /\ conn \in [Conns -> {"open", "closing", "closed"}]
  /\ hb_fired \in BOOLEAN
  /\ hb_sends \in 0..MaxSends
  /\ app_cmd \in {"idle", "sending"}
  /\ user_closed \in BOOLEAN
  /\ helloed \in BOOLEAN

AckType ==
  /\ m_last_heartbeat_acked \in BOOLEAN
  /\ m_missed_heartbeats \in 0..MaxMissed
  /\ unacked \in 0..MaxMissed

OpInv ==
  \A o \in Callers :
    /\ pc[o] \in {"reading", "got"} => on[o] \in Conns
    /\ pc[o] = "got" => got[o] \in Message

RunInv == m_heartbeat_running => m_timer # "none"

AckInv ==
  /\ m_last_heartbeat_acked => unacked = 0
  /\ m_heartbeat_running /\ ~m_last_heartbeat_acked =>
       unacked = m_missed_heartbeats + 1 /\ m_missed_heartbeats < MaxMissed

OpPart   == OpType /\ OpInv
HbPart   == AckType /\ AckInv
RestPart == RestType /\ RunInv /\ HeartbeatChainAlive /\ UrlHasSession

IInv == OpPart /\ HbPart /\ RestPart

-----------------------------------------------------------------------------
(* The operations: Goto keeps OpPart when its arguments fit.               *)

LEMMA GotoKeepsOps ==
  ASSUME OpPart, NEW o \in Callers, NEW p \in PC, NEW c \in Conns \cup {None},
         NEW m \in Message \cup {None},
         p \in {"reading", "got"} => c \in Conns,
         p = "got" => m \in Message,
         Goto(o, p, c, m)
  PROVE  OpPart'
  BY DEF OpPart, OpType, OpInv, Goto

LEMMA CompleteKeepsOps ==
  ASSUME OpPart, NEW o \in Callers, complete(o)
  PROVE  OpPart'
  BY GotoKeepsOps DEF complete, PC

LEMMA EnsureKeepsOps ==
  ASSUME OpPart, m_ws \in Conns \cup {None}, NEW o \in Callers,
         ensure_connected_then_read(o)
  PROVE  OpPart'
  <1>1. CASE is_open /\ read_one(o)
    BY <1>1, GotoKeepsOps DEF read_one, is_open, PC
  <1>2. CASE complete(o)
    BY <1>2, CompleteKeepsOps
  <1>3. CASE Goto(o, "backoff", None, None)
    BY <1>3, GotoKeepsOps DEF PC
  <1> QED
    BY <1>1, <1>2, <1>3 DEF ensure_connected_then_read

-----------------------------------------------------------------------------
(* OpPart: every handler moves its own operation only.                     *)

LEMMA OpPartStep ==
  ASSUME IInv, [Next]_vars
  PROVE  OpPart'
  <1> USE DEF IInv
  <1>ws. m_ws \in Conns \cup {None}
    BY DEF RestPart, RestType
  <1>same. ASSUME UNCHANGED opVars PROVE OpPart'
    BY <1>same DEF OpPart, OpType, OpInv, opVars
  <1>1. ASSUME NEW o \in Callers, NextEvent(o) PROVE OpPart'
    BY <1>1, <1>ws, EnsureKeepsOps DEF NextEvent
  <1>2. ASSUME NEW o \in Callers, BackoffExpired(o) PROVE OpPart'
    <2>1. CASE complete(o)
      BY <2>1, CompleteKeepsOps
    <2>2. CASE Goto(o, "connecting", None, None)
      BY <2>2, GotoKeepsOps DEF PC
    <2> QED BY <1>2, <2>1, <2>2 DEF BackoffExpired
  <1>3. ASSUME NEW o \in Callers, Connecting(o) PROVE OpPart'
    <2>1. ASSUME NEW c \in Conns, Connected(o, c) PROVE OpPart'
      BY <2>1, GotoKeepsOps DEF Connected, PC
    <2>2. ASSUME NEW c \in Conns, ConnectedNoInflater(o, c) PROVE OpPart'
      BY <2>2, CompleteKeepsOps DEF ConnectedNoInflater
    <2>3. CASE ConnectFailed(o)
      BY <2>3, CompleteKeepsOps DEF ConnectFailed
    <2> QED BY <1>3, <2>1, <2>2, <2>3 DEF Connecting
  <1>4. ASSUME NEW o \in Callers, Reading(o) PROVE OpPart'
    <2> pc[o] = "reading" => on[o] \in Conns
      BY DEF OpPart, OpInv
    <2>1. ASSUME NEW m \in Message, ReadDone(o, m) PROVE OpPart'
      BY <2>1, GotoKeepsOps DEF ReadDone, PC
    <2>2. CASE ReadFailed(o)
      BY <2>2, GotoKeepsOps DEF ReadFailed, PC
    <2> QED BY <1>4, <2>1, <2>2 DEF Reading
  <1>5. ASSUME NEW o \in Callers, Handle(o) PROVE OpPart'
    <2>1. CASE OnReadError(o)
      BY <2>1, <1>ws, CompleteKeepsOps, EnsureKeepsOps DEF OnReadError
    <2>2. CASE complete(o)
      BY <2>2, CompleteKeepsOps
    <2>3. CASE Goto(o, "sending", None, None) \/ Goto(o, "closing", None, None)
      BY <2>3, GotoKeepsOps DEF PC
    <2> QED
      BY <1>5, <2>1, <2>2, <2>3
      DEF Handle, InflateError, OnReady, OnDispatch, OnHeartbeatRequest,
          OnCloseRequest, OnHello, OnSignOfLife, OnIgnored
  <1>6. ASSUME NEW o \in Callers, OpWriteDone(o) PROVE OpPart'
    BY <1>6, CompleteKeepsOps DEF OpWriteDone
  <1>7. CASE HeartbeatExpires \/ Heartbeating \/ HeartbeatSendDone
    BY <1>7, <1>same
    DEF HeartbeatExpires, Heartbeating, HeartbeatStopped, HeartbeatSend,
        HeartbeatDead, HeartbeatSendDone
  <1>8. CASE (\E normal \in BOOLEAN : AppClose(normal)) \/ AppCommand \/ AppCommandDone
    BY <1>8, <1>same DEF AppClose, AppCommand, AppCommandDone
  <1>9. CASE \E c \in Conns : ConnectionEnds(c)
    BY <1>9, <1>same DEF ConnectionEnds
  <1>10. CASE UNCHANGED vars
    BY <1>10, <1>same DEF vars
  <1> QED
    BY <1>1, <1>2, <1>3, <1>4, <1>5, <1>6, <1>7, <1>8, <1>9, <1>10 DEF Next

-----------------------------------------------------------------------------
(* HbPart: the books on unanswered heartbeats.                             *)

LEMMA HbPartStep ==
  ASSUME IInv, [Next]_vars
  PROVE  HbPart'
  <1> USE MaxMissedAssumption
  <1>t. HbPart /\ RunInv /\ m_heartbeat_running \in BOOLEAN
    BY DEF IInv, RestPart, RestType
  \* Stopping the heartbeat, or not touching it, keeps the books.
  <1>same. ASSUME UNCHANGED ackVars, m_heartbeat_running' => m_heartbeat_running
           PROVE  HbPart'
    BY <1>same, <1>t DEF HbPart, AckType, AckInv, ackVars
  <1>1. ASSUME NEW o \in Callers,
               NextEvent(o) \/ BackoffExpired(o) \/ Connecting(o) \/ Reading(o)
                 \/ OpWriteDone(o)
        PROVE HbPart'
    BY <1>1, <1>same
    DEF NextEvent, BackoffExpired, Connecting, Connected, ConnectedNoInflater,
        ConnectFailed, Reading, ReadDone, ReadFailed, OpWriteDone, hbVars
  <1>2. ASSUME NEW o \in Callers, Handle(o) PROVE HbPart'
    <2>1. CASE OnReadError(o) \/ InflateError(o) \/ OnReady(o) \/ OnDispatch(o)
                 \/ OnHeartbeatRequest(o) \/ OnIgnored(o)
      BY <2>1, <1>same
      DEF OnReadError, InflateError, OnReady, OnDispatch, OnHeartbeatRequest,
          OnIgnored, hbVars
    <2>2. CASE OnCloseRequest(o)
      BY <2>2, <1>same DEF OnCloseRequest, close_impl
    <2>3. CASE OnHello(o)
      BY <2>3, <1>t DEF OnHello, HbPart, AckType, AckInv
    <2>4. CASE OnSignOfLife(o)
      BY <2>4, <1>t DEF OnSignOfLife, HbPart, AckType, AckInv
    <2> QED BY <1>2, <2>1, <2>2, <2>3, <2>4 DEF Handle
  <1>3. CASE HeartbeatExpires \/ HeartbeatStopped \/ HeartbeatSendDone
    BY <1>3, <1>same DEF HeartbeatExpires, HeartbeatStopped, HeartbeatSendDone
  <1>4. CASE HeartbeatSend
    <2>1. missed_now \in 0..MaxMissed /\ unacked' = missed_now + 1
      BY <1>4, <1>t DEF HeartbeatSend, missed_now, HbPart, AckType, AckInv
    <2>2. /\ m_missed_heartbeats' = missed_now /\ missed_now < MaxMissed
          /\ m_last_heartbeat_acked' = FALSE
      BY <1>4 DEF HeartbeatSend
    <2>3. m_missed_heartbeats' \in 0..MaxMissed /\ unacked' \in 0..MaxMissed
      BY <2>1, <2>2
    <2>4. AckInv'
      BY <2>1, <2>2 DEF AckInv
    <2> QED
      BY <2>2, <2>3, <2>4, Zenon DEF HbPart, AckType
  <1>5. CASE HeartbeatDead
    <2>1. m_missed_heartbeats' \in 0..MaxMissed
      BY <1>5, <1>t DEF HeartbeatDead, missed_now, HbPart, AckType, AckInv
    <2>2. ~m_heartbeat_running'
      BY <1>5, <1>t DEF HeartbeatDead, close_impl, RunInv
    <2> QED
      BY <1>5, <1>t, <2>1, <2>2 DEF HeartbeatDead, HbPart, AckType, AckInv
  <1>6. CASE \E normal \in BOOLEAN : AppClose(normal)
    BY <1>6, <1>same DEF AppClose, close_impl
  <1>7. CASE AppCommand \/ AppCommandDone \/ \E c \in Conns : ConnectionEnds(c)
    BY <1>7, <1>same DEF AppCommand, AppCommandDone, ConnectionEnds, hbVars
  <1>8. CASE UNCHANGED vars
    BY <1>8, <1>same DEF vars, hbVars
  <1> QED
    BY <1>1, <1>2, <1>3, <1>4, <1>5, <1>6, <1>7, <1>8 DEF Next, Heartbeating

-----------------------------------------------------------------------------
(* RestPart: the heartbeat chain and the resume URL.                       *)

LEMMA RestTypeStep ==
  ASSUME IInv, [Next]_vars
  PROVE  RestType'
  <1>t. RestType
    BY DEF IInv, RestPart
  <1> USE NoneAssumption, MaxSendsAssumption, MaxSeqAssumption
  <1>same. ASSUME UNCHANGED <<hbVars, sessVars, wsVars, stopVars>>,
                  app_cmd' \in {"idle", "sending"}
           PROVE  RestType'
    BY <1>same, <1>t DEF RestType, hbVars, sessVars, wsVars, stopVars
  \* What a close assigns is well typed.
  <1>close. ASSUME NEW normal \in BOOLEAN, close_impl(normal)
            PROVE  /\ m_intentional_close' \in BOOLEAN
                   /\ m_session' \in 0..MaxSeq \cup {None}
                   /\ m_resume_gateway_url' \in BOOLEAN
                   /\ m_timer' \in {"none", "idle", "armed"}
                   /\ m_heartbeat_running' \in BOOLEAN
                   /\ conn' \in [Conns -> {"open", "closing", "closed"}]
    BY <1>close, <1>t DEF close_impl, RestType
  <1>1. ASSUME NEW o \in Callers,
               NextEvent(o) \/ BackoffExpired(o) \/ Reading(o) \/ OpWriteDone(o)
                 \/ OnReadError(o) \/ InflateError(o) \/ OnHeartbeatRequest(o)
                 \/ OnSignOfLife(o) \/ OnIgnored(o)
        PROVE RestType'
    BY <1>1, <1>t, <1>same
    DEF NextEvent, BackoffExpired, Reading, ReadDone, ReadFailed, OpWriteDone,
        OnReadError, InflateError, OnHeartbeatRequest, OnSignOfLife, OnIgnored,
        RestType
  <1>2. ASSUME NEW o \in Callers, Connecting(o) PROVE RestType'
    <2>1. ASSUME NEW c \in Conns, Connected(o, c) PROVE RestType'
      BY <2>1, <1>t
      DEF Connected, install_ws, RestType, hbVars, sessVars, stopVars
    <2>2. ASSUME NEW c \in Conns, ConnectedNoInflater(o, c) PROVE RestType'
      BY <2>2, <1>t
      DEF ConnectedNoInflater, install_ws, RestType, hbVars, sessVars, stopVars
    <2>3. CASE ConnectFailed(o)
      BY <2>3, <1>t DEF ConnectFailed, RestType, hbVars, wsVars, stopVars
    <2> QED BY <1>2, <2>1, <2>2, <2>3 DEF Connecting
  <1>3. ASSUME NEW o \in Callers, OnReady(o) \/ OnDispatch(o) PROVE RestType'
    <2>1. pc[o] = "got" /\ got[o].op \in DispatchType
      BY <1>3 DEF OnReady, OnDispatch, Receives, DispatchType
    <2>2. got[o] \in Message
      BY <2>1 DEF IInv, OpPart, OpInv
    <2>3. got[o].s \in 0..MaxSeq
      BY <2>2 DEF Message
    <2> QED
      BY <1>3, <1>t, <2>3
      DEF OnReady, OnDispatch, RestType, hbVars, wsVars, stopVars
  <1>4. ASSUME NEW o \in Callers, OnCloseRequest(o) PROVE RestType'
    BY <1>4, <1>t, <1>close DEF OnCloseRequest, RestType
  <1>5. ASSUME NEW o \in Callers, OnHello(o) PROVE RestType'
    BY <1>5, <1>t DEF OnHello, start_heartbeat, RestType, sessVars, stopVars
  <1>6. CASE HeartbeatExpires \/ HeartbeatStopped
    BY <1>6, <1>t
    DEF HeartbeatExpires, HeartbeatStopped, RestType, sessVars, wsVars, stopVars
  <1>7. CASE HeartbeatSend
    <2>1. hb_sends' \in 0..MaxSends
      BY <1>7, <1>t DEF HeartbeatSend, RestType
    <2> QED
      BY <1>7, <1>t, <2>1, Zenon
      DEF HeartbeatSend, RestType, sessVars, wsVars, stopVars
  <1>8. CASE HeartbeatDead
    BY <1>8, <1>t, <1>close DEF HeartbeatDead, RestType
  <1>9. CASE HeartbeatSendDone
    BY <1>9, <1>t
    DEF HeartbeatSendDone, heartbeat_tick, RestType, sessVars, wsVars, stopVars
  <1>10. ASSUME NEW normal \in BOOLEAN, AppClose(normal) PROVE RestType'
    BY <1>10, <1>t, <1>close DEF AppClose, RestType
  <1>11. CASE AppCommand \/ AppCommandDone
    BY <1>11, <1>same DEF AppCommand, AppCommandDone
  <1>12. ASSUME NEW c \in Conns, ConnectionEnds(c) PROVE RestType'
    BY <1>12, <1>t DEF ConnectionEnds, RestType, hbVars, sessVars, stopVars
  <1>13. CASE UNCHANGED vars
    BY <1>13, <1>t, <1>same DEF vars, RestType
  <1> QED
    BY <1>1, <1>2, <1>3, <1>4, <1>5, <1>6, <1>7, <1>8, <1>9, <1>10, <1>11, <1>12,
       <1>13
    DEF Next, Handle, Heartbeating

LEMMA RunInvStep ==
  ASSUME IInv, [Next]_vars
  PROVE  RunInv'
  <1>t. RunInv
    BY DEF IInv, RestPart
  <1>same. ASSUME UNCHANGED <<m_timer, m_heartbeat_running>> PROVE RunInv'
    BY <1>same, <1>t DEF RunInv
  \* A close destroys the timer and stops the heartbeat that owned it.
  <1>close. ASSUME NEW normal, close_impl(normal) PROVE RunInv'
    BY <1>close, <1>t DEF RunInv, close_impl
  <1>1. ASSUME NEW o \in Callers,
               NextEvent(o) \/ BackoffExpired(o) \/ Connecting(o) \/ Reading(o)
                 \/ OpWriteDone(o)
        PROVE RunInv'
    BY <1>1, <1>same
    DEF NextEvent, BackoffExpired, Connecting, Connected, ConnectedNoInflater,
        ConnectFailed, Reading, ReadDone, ReadFailed, OpWriteDone, hbVars
  <1>2. ASSUME NEW o \in Callers, Handle(o) PROVE RunInv'
    <2>1. CASE OnCloseRequest(o)
      BY <2>1, <1>close DEF OnCloseRequest
    <2>2. CASE OnHello(o)
      BY <2>2 DEF OnHello, start_heartbeat, RunInv
    <2> QED
      BY <1>2, <1>same, <2>1, <2>2
      DEF Handle, OnReadError, InflateError, OnReady, OnDispatch,
          OnHeartbeatRequest, OnSignOfLife, OnIgnored, hbVars
  <1>3. CASE HeartbeatExpires \/ HeartbeatStopped \/ HeartbeatSend
    BY <1>3, <1>t DEF HeartbeatExpires, HeartbeatStopped, HeartbeatSend, RunInv
  <1>4. CASE HeartbeatDead
    BY <1>4, <1>close DEF HeartbeatDead
  <1>5. CASE HeartbeatSendDone
    BY <1>5, <1>t DEF HeartbeatSendDone, heartbeat_tick, RunInv
  <1>6. CASE \E normal \in BOOLEAN : AppClose(normal)
    BY <1>6, <1>close DEF AppClose
  <1>7. CASE AppCommand \/ AppCommandDone \/ \E c \in Conns : ConnectionEnds(c)
    BY <1>7, <1>same DEF AppCommand, AppCommandDone, ConnectionEnds, hbVars
  <1>8. CASE UNCHANGED vars
    BY <1>8, <1>same DEF vars, hbVars
  <1> QED
    BY <1>1, <1>2, <1>3, <1>4, <1>5, <1>6, <1>7, <1>8 DEF Next, Heartbeating

\* The chain can only be cut by a step that also closes the connection or
\* replaces it: every other step hands it from the timer to the queued
\* handler, from there to the write, and from there back to the timer.
LEMMA ChainStep ==
  ASSUME IInv, [Next]_vars
  PROVE  HeartbeatChainAlive'
  <1>t. RestType /\ RunInv /\ HeartbeatChainAlive
    BY DEF IInv, RestPart
  <1> USE NoneAssumption, MaxSendsAssumption
  <1>same. ASSUME UNCHANGED hbVars, UNCHANGED <<m_ws, conn, helloed>>
           PROVE  HeartbeatChainAlive'
    BY <1>same, <1>t DEF HeartbeatChainAlive, is_open, hbVars
  <1>close. ASSUME NEW normal, close_impl(normal), m_ws' = m_ws
            PROVE  ~is_open'
    BY <1>close, <1>t DEF close_impl, is_open, RestType
  <1>1. ASSUME NEW o \in Callers,
               NextEvent(o) \/ BackoffExpired(o) \/ Reading(o) \/ OpWriteDone(o)
        PROVE HeartbeatChainAlive'
    BY <1>1, <1>same
    DEF NextEvent, BackoffExpired, Reading, ReadDone, ReadFailed, OpWriteDone, wsVars
  <1>2. ASSUME NEW o \in Callers, Connecting(o) PROVE HeartbeatChainAlive'
    <2>1. CASE \E c \in Conns : install_ws(c)
      BY <2>1 DEF install_ws, HeartbeatChainAlive
    <2>2. CASE ConnectFailed(o)
      BY <2>2, <1>same DEF ConnectFailed, wsVars
    <2> QED BY <1>2, <2>1, <2>2 DEF Connecting, Connected, ConnectedNoInflater
  <1>3. ASSUME NEW o \in Callers, Handle(o) PROVE HeartbeatChainAlive'
    <2>1. CASE OnCloseRequest(o)
      BY <2>1, <1>close DEF OnCloseRequest, HeartbeatChainAlive
    <2>2. CASE OnHello(o)
      BY <2>2 DEF OnHello, start_heartbeat, HeartbeatChainAlive
    <2> QED
      BY <1>3, <1>same, <2>1, <2>2
      DEF Handle, OnReadError, InflateError, OnReady, OnDispatch,
          OnHeartbeatRequest, OnSignOfLife, OnIgnored, wsVars
  <1>4. CASE HeartbeatExpires
    BY <1>4, <1>t DEF HeartbeatExpires, HeartbeatChainAlive, is_open, wsVars
  <1>5. CASE HeartbeatStopped
    BY <1>5, <1>t DEF HeartbeatStopped, HeartbeatChainAlive, is_open, wsVars
  <1>6. CASE HeartbeatSend
    <2>1. hb_sends' > 0
      BY <1>6, <1>t DEF HeartbeatSend, RestType
    <2> QED
      BY <1>6, <2>1 DEF HeartbeatSend, HeartbeatChainAlive
  <1>7. CASE HeartbeatDead
    BY <1>7, <1>close DEF HeartbeatDead, HeartbeatChainAlive
  <1>8. CASE HeartbeatSendDone
    BY <1>8, <1>t
    DEF HeartbeatSendDone, heartbeat_tick, HeartbeatChainAlive, is_open, wsVars, RunInv
  <1>9. CASE \E normal \in BOOLEAN : AppClose(normal)
    BY <1>9, <1>close DEF AppClose, HeartbeatChainAlive
  <1>10. CASE AppCommand \/ AppCommandDone
    BY <1>10, <1>same DEF AppCommand, AppCommandDone, wsVars
  <1>11. ASSUME NEW c \in Conns, ConnectionEnds(c) PROVE HeartbeatChainAlive'
    <2>1. is_open' => is_open
      BY <1>11, <1>t DEF ConnectionEnds, is_open, RestType
    <2> QED
      BY <1>11, <1>t, <2>1 DEF ConnectionEnds, HeartbeatChainAlive, hbVars
  <1>12. CASE UNCHANGED vars
    BY <1>12, <1>same DEF vars, wsVars
  <1> QED
    BY <1>1, <1>2, <1>3, <1>4, <1>5, <1>6, <1>7, <1>8, <1>9, <1>10, <1>11, <1>12
    DEF Next, Heartbeating

LEMMA UrlStep ==
  ASSUME IInv, [Next]_vars
  PROVE  UrlHasSession'
  <1>t. UrlHasSession
    BY DEF IInv, RestPart
  <1>same. ASSUME UNCHANGED sessVars PROVE UrlHasSession'
    BY <1>same, <1>t DEF UrlHasSession, sessVars
  <1>close. ASSUME NEW normal \in BOOLEAN, close_impl(normal) PROVE UrlHasSession'
    BY <1>close, <1>t DEF UrlHasSession, close_impl
  <1>1. ASSUME NEW o \in Callers,
               NextEvent(o) \/ BackoffExpired(o) \/ Reading(o) \/ OpWriteDone(o)
        PROVE UrlHasSession'
    BY <1>1, <1>same
    DEF NextEvent, BackoffExpired, Reading, ReadDone, ReadFailed, OpWriteDone
  <1>2. ASSUME NEW o \in Callers, Connecting(o) PROVE UrlHasSession'
    <2>1. CASE ConnectFailed(o)
      BY <2>1 DEF ConnectFailed, UrlHasSession
    <2> QED
      BY <1>2, <1>same, <2>1 DEF Connecting, Connected, ConnectedNoInflater
  <1>3. ASSUME NEW o \in Callers, Handle(o) PROVE UrlHasSession'
    <2>1. CASE OnReady(o) \/ OnDispatch(o)
      <3>1. pc[o] = "got"
        BY <2>1 DEF OnReady, OnDispatch, Receives
      <3>2. got[o] \in Message
        BY <3>1 DEF IInv, OpPart, OpInv
      <3>3. got[o].s # None
        BY <3>2, NoneAssumption, MaxSeqAssumption DEF Message
      <3> QED
        BY <2>1, <1>t, <3>3 DEF OnReady, OnDispatch, UrlHasSession
    <2>2. CASE OnCloseRequest(o)
      BY <2>2, <1>close DEF OnCloseRequest
    <2> QED
      BY <1>3, <1>same, <2>1, <2>2
      DEF Handle, OnReadError, InflateError, OnHeartbeatRequest, OnHello,
          OnSignOfLife, OnIgnored
  <1>4. CASE HeartbeatDead
    BY <1>4, <1>close DEF HeartbeatDead
  <1>5. CASE \E normal \in BOOLEAN : AppClose(normal)
    BY <1>5, <1>close DEF AppClose
  <1>6. CASE HeartbeatExpires \/ HeartbeatStopped \/ HeartbeatSend \/ HeartbeatSendDone
    BY <1>6, <1>same
    DEF HeartbeatExpires, HeartbeatStopped, HeartbeatSend, HeartbeatSendDone
  <1>7. CASE AppCommand \/ AppCommandDone \/ \E c \in Conns : ConnectionEnds(c)
    BY <1>7, <1>same DEF AppCommand, AppCommandDone, ConnectionEnds
  <1>8. CASE UNCHANGED vars
    BY <1>8, <1>same DEF vars
  <1> QED
    BY <1>1, <1>2, <1>3, <1>4, <1>5, <1>6, <1>7, <1>8 DEF Next, Heartbeating

-----------------------------------------------------------------------------
(* The theorems.                                                           *)

LEMMA InitIInv == Init => IInv
  <1> SUFFICES ASSUME Init PROVE IInv
    OBVIOUS
  <1> USE NoneAssumption, MaxSeqAssumption, MaxMissedAssumption, MaxSendsAssumption
      DEF Init
  <1>1. OpPart
    BY DEF OpPart, OpType, OpInv, PC
  <1>2. HbPart
    BY DEF HbPart, AckType, AckInv
  <1>3. RestType
    <2>1. hb_sends \in 0..MaxSends
      OBVIOUS
    <2> QED
      BY <2>1, Zenon DEF RestType
  <1>4. RunInv /\ HeartbeatChainAlive /\ UrlHasSession
    BY DEF RunInv, HeartbeatChainAlive, UrlHasSession
  <1> QED
    BY <1>1, <1>2, <1>3, <1>4 DEF IInv, RestPart

\* The strengthening the safety theorems rest on: whatever the overlapping
\* next_event calls, the timer, the writes and the peer do, an operation holds
\* the connection and message its state calls for, a running heartbeat owns a
\* timer, and the miss counter is one behind the heartbeats that are out.
THEOREM Inductive == Spec => []IInv
  <1>1. IInv /\ [Next]_vars => IInv'
    BY OpPartStep, HbPartStep, RestTypeStep, RunInvStep, ChainStep, UrlStep
    DEF IInv, RestPart
  <1> QED
    BY InitIInv, <1>1, PTL DEF Spec

\* Every field of the shard stays in its range: in particular the miss counter
\* never passes kMaxMissedHeartbeats although only a tick ever resets it.
THEOREM TypeCorrect == Spec => []TypeOK
  <1>1. IInv => TypeOK
    BY DEF IInv, OpPart, OpType, HbPart, AckType, RestPart, RestType, TypeOK
  <1> QED
    BY Inductive, <1>1, PTL

\* The heartbeat of an open connection that said Hello never dies silently
\* (start_heartbeat, heartbeat_tick, close_impl).
THEOREM ChainAlive == Spec => []HeartbeatChainAlive
  <1>1. IInv => HeartbeatChainAlive
    BY DEF IInv, RestPart
  <1> QED
    BY Inductive, <1>1, PTL

\* A resume URL is never kept without its session (close_impl, reconnect_async).
THEOREM UrlWithSession == Spec => []UrlHasSession
  <1>1. IInv => UrlHasSession
    BY DEF IInv, RestPart
  <1> QED
    BY Inductive, <1>1, PTL

\* heartbeat_tick gives a connection up only after kMaxMissedHeartbeats
\* heartbeats in a row without a sign of life.
THEOREM Verdict == Spec => VerdictSound
  <1> DEFINE Dead ==
        m_missed_heartbeats' >= MaxMissed /\ m_missed_heartbeats' # m_missed_heartbeats
          => unacked >= MaxMissed
  <1>1. ASSUME IInv, [Next]_vars PROVE [Dead]_vars
    <2> USE MaxMissedAssumption
    <2>t. HbPart
      BY <1>1 DEF IInv
    <2>1. CASE HeartbeatDead
      BY <2>1, <2>t DEF HeartbeatDead, missed_now, HbPart, AckType, AckInv
    <2>2. CASE HeartbeatSend
      <3>1. m_missed_heartbeats' = missed_now /\ missed_now < MaxMissed
        BY <2>2 DEF HeartbeatSend
      <3>2. missed_now \in Nat
        BY <2>t DEF missed_now, HbPart, AckType
      <3> QED
        BY <3>1, <3>2
    <2>3. ASSUME ~HeartbeatDead, ~HeartbeatSend, Next
          PROVE  m_missed_heartbeats' = m_missed_heartbeats
      BY <2>3
      DEF Next, NextEvent, BackoffExpired, Connecting, Connected,
          ConnectedNoInflater, ConnectFailed, Reading, ReadDone, ReadFailed, Handle,
          OnReadError, InflateError, OnReady, OnDispatch, OnHeartbeatRequest,
          OnCloseRequest, OnHello, OnSignOfLife, OnIgnored, OpWriteDone,
          HeartbeatExpires, Heartbeating, HeartbeatStopped, HeartbeatSendDone,
          AppClose, AppCommand, AppCommandDone, ConnectionEnds, ackVars
    <2> QED
      BY <1>1, <2>1, <2>2, <2>3
  <1> QED
    BY Inductive, <1>1, PTL DEF Spec, VerdictSound

\* After an intentional close no connection attempt is started any more: the
\* only step into "connecting" is the backoff handler, which looks at
\* m_intentional_close again (reconnect_async).
THEOREM NoLateAttempt == Spec => NoAttemptAfterClose
  <1> DEFINE Late ==
        \A o \in Callers :
          pc[o] # "connecting" /\ pc'[o] = "connecting" => ~m_intentional_close
  \* A step into another state than "connecting", of any operation, is harmless.
  <1>other. ASSUME OpType, NEW o \in Callers, NEW p, NEW c, NEW m,
                   Goto(o, p, c, m), p # "connecting"
            PROVE  Late
    BY <1>other DEF OpType, Goto
  <1>1. ASSUME IInv, [Next]_vars PROVE [Late]_vars
    <2>t. OpType
      BY <1>1 DEF IInv, OpPart
    <2>same. ASSUME UNCHANGED opVars PROVE Late
      BY <2>same DEF opVars
    <2>ensure. ASSUME NEW o \in Callers, ensure_connected_then_read(o) PROVE Late
      BY <2>ensure, <2>t, <1>other
      DEF ensure_connected_then_read, read_one, complete
    <2>1. ASSUME NEW o \in Callers, NextEvent(o) \/ OnReadError(o) PROVE Late
      BY <2>1, <2>t, <2>ensure, <1>other DEF NextEvent, OnReadError, complete
    <2>2. ASSUME NEW o \in Callers, BackoffExpired(o) PROVE Late
      <3>1. CASE m_intentional_close
        BY <2>2, <2>t, <3>1, <1>other DEF BackoffExpired, complete
      <3>2. CASE ~m_intentional_close
        BY <3>2
      <3> QED BY <3>1, <3>2
    <2>3. ASSUME NEW o \in Callers, Connecting(o) \/ Reading(o) \/ OpWriteDone(o)
          PROVE  Late
      BY <2>3, <2>t, <1>other
      DEF Connecting, Connected, ConnectedNoInflater, ConnectFailed, Reading,
          ReadDone, ReadFailed, OpWriteDone, complete
    <2>4. ASSUME NEW o \in Callers, Handle(o), ~OnReadError(o) PROVE Late
      BY <2>4, <2>t, <1>other
      DEF Handle, InflateError, OnReady, OnDispatch, OnHeartbeatRequest,
          OnCloseRequest, OnHello, OnSignOfLife, OnIgnored, complete
    <2>5. CASE HeartbeatExpires \/ Heartbeating \/ HeartbeatSendDone
      BY <2>5, <2>same
      DEF HeartbeatExpires, Heartbeating, HeartbeatStopped, HeartbeatSend,
          HeartbeatDead, HeartbeatSendDone
    <2>6. CASE \/ \E normal \in BOOLEAN : AppClose(normal)
               \/ AppCommand \/ AppCommandDone
               \/ \E c \in Conns : ConnectionEnds(c)
      BY <2>6, <2>same DEF AppClose, AppCommand, AppCommandDone, ConnectionEnds
    <2> QED
      BY <1>1, <2>1, <2>2, <2>3, <2>4, <2>5, <2>6 DEF Next
  <1> QED
    BY Inductive, <1>1, PTL DEF Spec, NoAttemptAfterClose

-----------------------------------------------------------------------------
(* The inflater.                                                           *)

\* An operation that reads, or has a message to handle, holds the current
\* connection or one that is gone.
HeldInv ==
  \A o \in Callers :
    pc[o] \in {"reading", "got"} => on[o] = m_ws \/ conn[on[o]] = "closed"

\* The only operation moves itself: what it holds afterwards decides.
LEMMA GotoKeepsHeld ==
  ASSUME OpType, HeldInv, NEW o \in Callers, NEW p, NEW c, NEW m, Goto(o, p, c, m),
         p \in {"reading", "got"} => c = m_ws \/ conn[c] = "closed",
         UNCHANGED <<m_ws, conn>>
  PROVE  HeldInv'
  BY DEF OpType, HeldInv, Goto

LEMMA HeldStep ==
  ASSUME IInv, HeldInv, [Next]_vars
  PROVE  HeldInv'
  <1>t. OpType /\ OpInv /\ RestType
    BY DEF IInv, OpPart, RestPart
  <1> USE NoneAssumption
  <1>same. ASSUME UNCHANGED <<pc, on, m_ws, conn>> PROVE HeldInv'
    BY <1>same DEF HeldInv
  <1>idle. ASSUME NEW o \in Callers, NEW p, NEW c, NEW m, Goto(o, p, c, m),
                  p \notin {"reading", "got"}, UNCHANGED <<m_ws, conn>>
           PROVE  HeldInv'
    BY <1>idle, <1>t, GotoKeepsHeld
  <1>ensure. ASSUME NEW o \in Callers, ensure_connected_then_read(o),
                    UNCHANGED <<m_ws, conn>>
             PROVE  HeldInv'
    <2>1. CASE read_one(o)
      BY <2>1, <1>ensure, <1>t, GotoKeepsHeld DEF read_one
    <2> QED
      BY <1>ensure, <2>1, <1>idle DEF ensure_connected_then_read, complete
  \* What is closed stays closed until another connection takes its identity.
  <1>conn. ASSUME UNCHANGED <<m_ws, pc, on>>,
                  \A c \in Conns : conn[c] = "closed" => conn'[c] = "closed"
           PROVE  HeldInv'
    BY <1>conn, <1>t DEF HeldInv, OpInv
  <1>close. ASSUME NEW normal, close_impl(normal)
            PROVE  \A c \in Conns : conn[c] = "closed" => conn'[c] = "closed"
    BY <1>close, <1>t DEF close_impl, is_open, RestType
  <1>1. ASSUME NEW o \in Callers, NextEvent(o) \/ OnReadError(o) PROVE HeldInv'
    BY <1>1, <1>ensure, <1>idle DEF NextEvent, OnReadError, complete, wsVars
  <1>2. ASSUME NEW o \in Callers, BackoffExpired(o) \/ ConnectFailed(o) \/ OpWriteDone(o)
        PROVE  HeldInv'
    BY <1>2, <1>idle DEF BackoffExpired, ConnectFailed, OpWriteDone, complete, wsVars
  \* The replaced connection is closed, and the identity that is taken was held
  \* by nobody.
  <1>3. ASSUME NEW o \in Callers, NEW c \in Conns,
               Connected(o, c) \/ ConnectedNoInflater(o, c)
        PROVE  HeldInv'
    <2>1. /\ m_ws' = c
          /\ \A d \in Conns : d # c /\ (d = m_ws \/ conn[d] = "closed") => conn'[d] = "closed"
      BY <1>3 DEF Connected, ConnectedNoInflater, install_ws
    <2>2. ASSUME NEW q \in Callers, q # o, pc[q] \in {"reading", "got"}
          PROVE  on[q] \in Conns /\ on[q] # c /\ (on[q] = m_ws \/ conn[on[q]] = "closed")
      BY <1>3, <2>2, <1>t DEF Connected, ConnectedNoInflater, Free, OpInv, HeldInv
    <2>3. /\ \A q \in Callers : q # o => pc'[q] = pc[q] /\ on'[q] = on[q]
          /\ pc'[o] \in {"reading", "got"} => on'[o] = c
      BY <1>3, <1>t DEF Connected, ConnectedNoInflater, complete, Goto, OpType
    <2> QED
      BY <2>1, <2>2, <2>3 DEF HeldInv
  <1>4. ASSUME NEW o \in Callers, Reading(o) PROVE HeldInv'
    <2>1. ASSUME NEW m \in Message, ReadDone(o, m) PROVE HeldInv'
      <3>1. on[o] = m_ws \/ conn[on[o]] = "closed"
        BY <2>1 DEF ReadDone, HeldInv
      <3> QED
        BY <2>1, <3>1, <1>t, GotoKeepsHeld DEF ReadDone, wsVars
    <2> QED
      BY <1>4, <2>1, <1>idle DEF Reading, ReadFailed, wsVars
  <1>5. ASSUME NEW o \in Callers, Handle(o), ~OnReadError(o), ~OnCloseRequest(o)
        PROVE  HeldInv'
    BY <1>5, <1>idle
    DEF Handle, InflateError, OnReady, OnDispatch, OnHeartbeatRequest, OnHello,
        OnSignOfLife, OnIgnored, complete, wsVars
  <1>6. ASSUME NEW o \in Callers, OnCloseRequest(o) PROVE HeldInv'
    <2>1. /\ \A q \in Callers : q # o => pc'[q] = pc[q] /\ on'[q] = on[q]
          /\ pc'[o] = "closing" /\ m_ws' = m_ws
      BY <1>6, <1>t DEF OnCloseRequest, Goto, OpType
    <2>2. \A c \in Conns : conn[c] = "closed" => conn'[c] = "closed"
      BY <1>6, <1>close DEF OnCloseRequest
    <2> QED
      BY <2>1, <2>2, <1>t DEF HeldInv, OpInv
  <1>7. CASE HeartbeatExpires \/ HeartbeatStopped \/ HeartbeatSend \/ HeartbeatSendDone
    BY <1>7, <1>same
    DEF HeartbeatExpires, HeartbeatStopped, HeartbeatSend, HeartbeatSendDone, wsVars, opVars
  <1>8. CASE HeartbeatDead \/ \E normal \in BOOLEAN : AppClose(normal)
    BY <1>8, <1>conn, <1>close DEF HeartbeatDead, AppClose, opVars
  <1>9. CASE AppCommand \/ AppCommandDone
    BY <1>9, <1>same DEF AppCommand, AppCommandDone, wsVars, opVars
  <1>10. ASSUME NEW c \in Conns, ConnectionEnds(c) PROVE HeldInv'
    <2>1. \A d \in Conns : conn[d] = "closed" => conn'[d] = "closed"
      BY <1>10, <1>t DEF ConnectionEnds, RestType
    <2> QED
      BY <1>10, <2>1, <1>conn DEF ConnectionEnds, opVars
  <1>11. CASE UNCHANGED vars
    BY <1>11, <1>same DEF vars, wsVars, opVars
  <1> QED
    BY <1>1, <1>2, <1>3, <1>4, <1>5, <1>6, <1>7, <1>8, <1>9, <1>10, <1>11
    DEF Next, Connecting, Handle, Heartbeating

\* However many next_event calls overlap, an operation reads from the current
\* connection or from one that is gone: m_ws.emplace never leaves a live
\* connection behind that somebody still reads from.
THEOREM ReadersHoldCurrent == Spec => []HeldInv
  <1>1. Init => HeldInv
    BY DEF Init, HeldInv
  <1>2. IInv /\ HeldInv /\ [Next]_vars => HeldInv'
    BY HeldStep
  <1> QED
    BY Inductive, <1>1, <1>2, PTL DEF Spec

\* The documented use: one next_event call at a time.
Sequential == \A o, q \in Callers : o = q

OwnInv ==
  /\ m_inflater = m_ws
  /\ \A o \in Callers : pc[o] \in {"reading", "got"} => on[o] = m_ws

\* A step that installs a connection makes its inflater: Inflater::create does
\* not fail.
Inflated == m_ws' # m_ws => m_inflater' = m_ws'

LEMMA OwnStep ==
  ASSUME Sequential, IInv, OwnInv, [Next]_vars, Inflated
  PROVE  OwnInv'
  <1>t. OpType
    BY DEF IInv, OpPart
  <1>same. ASSUME UNCHANGED <<pc, on, m_ws, m_inflater>> PROVE OwnInv'
    BY <1>same DEF OwnInv
  <1>go. ASSUME NEW o \in Callers, NEW p, NEW c, NEW m, Goto(o, p, c, m),
                p \in {"reading", "got"} => c = m_ws', m_inflater' = m_ws'
         PROVE  OwnInv'
    BY <1>go, <1>t DEF OwnInv, OpType, Goto, Sequential
  <1>stays. ASSUME NEW o \in Callers, NEW p, NEW c, NEW m, Goto(o, p, c, m),
                   p \in {"reading", "got"} => c = m_ws, UNCHANGED <<m_ws, m_inflater>>
            PROVE  OwnInv'
    <2>1. m_inflater' = m_ws' /\ m_ws' = m_ws
      BY <1>stays DEF OwnInv
    <2> QED BY <1>stays, <2>1, <1>go
  <1>1. ASSUME NEW o \in Callers, NextEvent(o) \/ OnReadError(o) PROVE OwnInv'
    BY <1>1, <1>stays
    DEF NextEvent, OnReadError, ensure_connected_then_read, read_one, complete, wsVars
  <1>2. ASSUME NEW o \in Callers, BackoffExpired(o) \/ ConnectFailed(o) \/ OpWriteDone(o)
        PROVE  OwnInv'
    BY <1>2, <1>stays DEF BackoffExpired, ConnectFailed, OpWriteDone, complete, wsVars
  <1>3. ASSUME NEW o \in Callers, NEW c \in Conns, Connected(o, c) PROVE OwnInv'
    BY <1>3, <1>go DEF Connected, install_ws
  <1>fail. ASSUME NEW o \in Callers, NEW c \in Conns, ConnectedNoInflater(o, c) PROVE FALSE
    BY <1>fail DEF ConnectedNoInflater, install_ws, Free, Inflated
  <1>4. ASSUME NEW o \in Callers, Reading(o) PROVE OwnInv'
    <2>1. on[o] = m_ws
      BY <1>4 DEF Reading, ReadDone, ReadFailed, OwnInv
    <2> QED
      BY <1>4, <2>1, <1>stays DEF Reading, ReadDone, ReadFailed, wsVars
  <1>5. ASSUME NEW o \in Callers, Handle(o), ~OnReadError(o) PROVE OwnInv'
    BY <1>5, <1>stays
    DEF Handle, InflateError, OnReady, OnDispatch, OnHeartbeatRequest, OnCloseRequest,
        OnHello, OnSignOfLife, OnIgnored, complete, wsVars
  <1>6. CASE HeartbeatExpires \/ Heartbeating \/ HeartbeatSendDone
    BY <1>6, <1>same
    DEF HeartbeatExpires, Heartbeating, HeartbeatStopped, HeartbeatSend, HeartbeatDead,
        HeartbeatSendDone, wsVars, opVars
  <1>7. CASE (\E normal \in BOOLEAN : AppClose(normal)) \/ AppCommand \/ AppCommandDone
    BY <1>7, <1>same DEF AppClose, AppCommand, AppCommandDone, wsVars, opVars
  <1>8. CASE \E c \in Conns : ConnectionEnds(c)
    BY <1>8, <1>same DEF ConnectionEnds, opVars
  <1>9. CASE UNCHANGED vars
    BY <1>9, <1>same DEF vars, wsVars, opVars
  <1> QED
    BY <1>1, <1>2, <1>3, <1>fail, <1>4, <1>5, <1>6, <1>7, <1>8, <1>9
    DEF Next, Connecting, Handle

\* With one next_event loop, and an inflater for every connection, no message
\* is inflated in the context of another connection than its own: nothing is
\* lost between a read and its handler (reconnect_async, on_message).
THEOREM OwnContext ==
  ASSUME Sequential, ~InflaterCanFail
  PROVE  Spec => []InflatedByOwnContext
  <1>1. Init => OwnInv
    BY DEF Init, OwnInv
  <1>2. ASSUME IInv, OwnInv, [Next]_vars PROVE OwnInv'
    <2>1. Inflated
      BY <1>2
      DEF Inflated, Next, NextEvent, BackoffExpired, Connecting, Connected,
          ConnectedNoInflater, install_ws, ConnectFailed, Reading, ReadDone, ReadFailed,
          Handle, OnReadError, InflateError, OnReady, OnDispatch, OnHeartbeatRequest,
          OnCloseRequest, OnHello, OnSignOfLife, OnIgnored, OpWriteDone,
          HeartbeatExpires, Heartbeating, HeartbeatStopped, HeartbeatSend,
          HeartbeatDead, HeartbeatSendDone, AppClose, AppCommand, AppCommandDone,
          ConnectionEnds, wsVars, vars
    <2> QED BY <1>2, <2>1, OwnStep
  <1>3. OwnInv => InflatedByOwnContext
    BY DEF OwnInv, InflatedByOwnContext
  <1> QED
    BY Inductive, <1>1, <1>2, <1>3, PTL DEF Spec

-----------------------------------------------------------------------------
(* The session.                                                            *)

\* A message that waits for its handler, against the phase p of its connection.
GotInv(o, p) ==
  \/ got[o].op = "Hello" \/ got[o].op \in Control
  \/ got[o].op = "Ready" /\ got[o].s = 1 /\ p = 3
  \/ got[o].op = "Dispatch" /\ p > 2 /\ got[o].s = p - 2 /\ got[o].s = delivered + 1

\* Nothing of the session is between the gateway and the application.
Settled == \A o \in Callers : pc[o] = "got" => got[o].op \notin DispatchType

\* The gateway is at most one message ahead of what was delivered.
PhaseInv ==
  /\ \A o \in Callers : pc[o] = "got" => GotInv(o, srv[m_ws])
  /\ m_ws # None /\ srv[m_ws] > 2 /\ Settled => delivered = srv[m_ws] - 2

SessType == srv \in [Conns -> Nat] /\ delivered \in Nat

SessInv == SessType /\ PhaseInv /\ SequenceIsDelivered

\* The shard that talks to this gateway is a shard.
LEMMA GatewayKeepsShard == GNext => Next
  <1> SUFFICES ASSUME GNext PROVE Next
    OBVIOUS
  <1>1. ASSUME NEW o \in Callers, NEW m \in Message, GReadDone(o, m) PROVE Next
    BY <1>1 DEF GReadDone, Next, Reading
  <1>2. ASSUME NEW o \in Callers, NEW c \in Conns, GConnected(o, c) PROVE Next
    BY <1>2 DEF GConnected, Next, Connecting
  <1>3. ASSUME NEW o \in Callers, AnswerHello(o) \/ Deliver(o) PROVE Next
    BY <1>3 DEF AnswerHello, Deliver, Next, Handle
  <1>4. ASSUME NEW o \in Callers, Rest(o) PROVE Next
    BY <1>4 DEF Rest, Next, Connecting, Reading, Handle
  <1> QED
    BY <1>1, <1>2, <1>3, <1>4 DEF GNext, Next

LEMMA GatewayInflates == GNext => Inflated
  BY DEF GNext, GReadDone, GConnected, AnswerHello, Deliver, Rest, Inflated, NextEvent,
         BackoffExpired, Connected, install_ws, ConnectFailed, ReadDone, ReadFailed,
         OnReadError, OnReady, OnDispatch, OnHeartbeatRequest, OnCloseRequest, OnHello,
         OnSignOfLife, OnIgnored, OpWriteDone, HeartbeatExpires, Heartbeating,
         HeartbeatStopped, HeartbeatSend, HeartbeatDead, HeartbeatSendDone, AppClose,
         ConnectionEnds, wsVars

\* A step that neither reads nor delivers, and leaves the connection and the
\* session alone or drops the session, keeps the books.
LEMMA SessKept ==
  ASSUME SessInv, UNCHANGED <<m_ws, srv, delivered>>,
         m_session' \in {m_session, None},
         \A o \in Callers :
           \/ pc'[o] # "got" /\ (pc[o] = "got" => got[o].op \notin DispatchType)
           \/ pc'[o] = pc[o] /\ got'[o] = got[o]
  PROVE  SessInv'
  <1>1. Settled' => Settled
    BY DEF Settled
  <1>2. ASSUME NEW o \in Callers, pc'[o] = "got"
        PROVE  GotInv(o, srv[m_ws])'
    BY <1>2 DEF SessInv, PhaseInv, GotInv
  <1>3. SequenceIsDelivered'
    BY DEF SessInv, SequenceIsDelivered
  <1> QED
    BY <1>1, <1>2, <1>3 DEF SessInv, SessType, PhaseInv

LEMMA SessStep ==
  ASSUME Sequential, IInv, OwnInv, SessInv, [GNext]_gvars
  PROVE  SessInv'
  <1>t. OpType /\ OpInv /\ RestType /\ SessType
    BY DEF IInv, OpPart, RestPart, SessInv
  <1> USE NoneAssumption, MaxSeqAssumption
  \* One operation goes on, to a state in which it holds no message.
  <1>go. ASSUME NEW o \in Callers, NEW p, NEW c, NEW m, Goto(o, p, c, m), p # "got",
                pc[o] = "got" => got[o].op \notin DispatchType,
                UNCHANGED <<m_ws, srv, delivered>>, m_session' \in {m_session, None}
         PROVE  SessInv'
    <2>1. pc'[o] # "got" /\ \A q \in Callers : q = o
      BY <1>go, <1>t DEF Goto, OpType, Sequential
    <2> QED BY <1>go, <2>1, SessKept
  <1>same. ASSUME UNCHANGED <<opVars, m_ws, srv, delivered>>,
                  m_session' \in {m_session, None}
           PROVE  SessInv'
    BY <1>same, SessKept DEF opVars
  <1>1. ASSUME NEW o \in Callers, NEW m \in Message, GReadDone(o, m) PROVE SessInv'
    <2>1. /\ on[o] = m_ws /\ m_ws \in Conns /\ pc[o] = "reading"
          /\ UNCHANGED <<m_ws, m_session, delivered>>
      BY <1>1, <1>t DEF GReadDone, ReadDone, OwnInv, OpInv, wsVars, sessVars
    <2>2. PICK q \in 1..(MaxSeq + 2) : /\ GatewaySends(srv[m_ws], m, q)
                                       /\ srv' = [srv EXCEPT ![m_ws] = q]
      BY <1>1, <2>1 DEF GReadDone
    <2>3. srv' \in [Conns -> Nat] /\ srv'[m_ws] = q /\ srv[m_ws] \in Nat
      BY <2>1, <2>2, <1>t DEF SessType
    <2>4. pc'[o] = "got" /\ got'[o] = m /\ \A r \in Callers : r = o
      BY <1>1, <1>t DEF GReadDone, ReadDone, Goto, OpType, Sequential
    <2>5. Settled
      BY <2>1, <2>4 DEF Settled
    <2>6. srv[m_ws] > 2 => delivered = srv[m_ws] - 2
      BY <2>1, <2>5 DEF SessInv, PhaseInv
    <2>7. delivered \in Nat /\ delivered' = delivered /\ m_ws' = m_ws
      BY <2>1, <1>t DEF SessType
    <2>8. GotInv(o, q)'
      BY <2>2, <2>3, <2>4, <2>6, <2>7 DEF GatewaySends, GotInv
    <2>10. q > 2 /\ Settled' => delivered = q - 2
      <3> SUFFICES ASSUME q > 2, Settled' PROVE delivered = q - 2
        OBVIOUS
      <3>1. m.op \notin DispatchType
        BY <2>4 DEF Settled
      <3>2. q = srv[m_ws]
        BY <2>2, <3>1 DEF GatewaySends, DispatchType
      <3> QED BY <3>2, <2>6
    <2>11. PhaseInv'
      BY <2>3, <2>4, <2>7, <2>8, <2>10 DEF PhaseInv
    <2>12. SequenceIsDelivered'
      BY <2>1 DEF SessInv, SequenceIsDelivered
    <2> QED
      BY <2>3, <2>7, <2>11, <2>12 DEF SessInv, SessType
  <1>2. ASSUME NEW o \in Callers, NEW c \in Conns, GConnected(o, c) PROVE SessInv'
    <2>1. m_ws' = c /\ srv' = [srv EXCEPT ![c] = 0] /\ UNCHANGED <<m_session, delivered>>
      BY <1>2 DEF GConnected, Connected, install_ws, sessVars
    <2>2. srv' \in [Conns -> Nat] /\ srv'[c] = 0
      BY <2>1, <1>t DEF SessType
    <2>3. \A r \in Callers : pc'[r] # "got"
      BY <1>2, <1>t DEF GConnected, Connected, Goto, OpType, Sequential
    <2>4. PhaseInv'
      BY <2>1, <2>2, <2>3 DEF PhaseInv
    <2> QED
      BY <2>1, <2>2, <2>4, <1>t DEF SessInv, SessType, SequenceIsDelivered
  <1>3. ASSUME NEW o \in Callers, AnswerHello(o) PROVE SessInv'
    <2>1. /\ pc[o] = "got" /\ m_ws \in Conns
          /\ UNCHANGED <<m_ws, m_session, delivered>>
      BY <1>3, <1>t DEF AnswerHello, OnHello, Receives, OwnInv, OpInv, sessVars
    <2>2. srv' = [srv EXCEPT ![m_ws] = IF m_session = None THEN 2 ELSE m_session + 2]
      BY <1>3 DEF AnswerHello
    <2>3. m_session # None => m_session = delivered /\ m_session \in Nat
      BY <1>t DEF SessInv, SequenceIsDelivered, RestType
    <2>4. srv' \in [Conns -> Nat] /\ (srv'[m_ws] > 2 => delivered = srv'[m_ws] - 2)
      BY <2>1, <2>2, <2>3, <1>t DEF SessType
    <2>5. \A r \in Callers : pc'[r] # "got"
      BY <1>3, <1>t DEF AnswerHello, OnHello, Goto, OpType, Sequential
    <2>6. PhaseInv'
      BY <2>1, <2>4, <2>5 DEF PhaseInv
    <2> QED
      BY <2>1, <2>4, <2>6, <1>t DEF SessInv, SessType, SequenceIsDelivered
  <1>4. ASSUME NEW o \in Callers, Deliver(o) PROVE SessInv'
    <2>1. /\ pc[o] = "got" /\ got[o].op \in DispatchType /\ m_ws \in Conns
          /\ delivered' = got[o].s /\ UNCHANGED <<m_ws, srv>>
      BY <1>4, <1>t
      DEF Deliver, OnReady, OnDispatch, Receives, DispatchType, OwnInv, OpInv, wsVars
    <2>2. GotInv(o, srv[m_ws]) /\ srv[m_ws] \in Nat
      BY <2>1, <1>t DEF SessInv, PhaseInv, SessType
    <2>3. srv[m_ws] > 2 /\ got[o].s = srv[m_ws] - 2 /\ got[o].s > 0
      BY <2>1, <2>2 DEF GotInv, DispatchType, Control
    <2>4. \A r \in Callers : pc'[r] # "got"
      BY <1>4, <1>t
      DEF Deliver, OnReady, OnDispatch, complete, Goto, OpType, Sequential
    <2>5. PhaseInv'
      BY <2>1, <2>3, <2>4 DEF PhaseInv
    <2>6. m_session' \in {None, got[o].s}
      BY <1>4, <2>3, <1>t DEF Deliver, OnReady, OnDispatch, RestType
    <2>7. SequenceIsDelivered' /\ delivered' \in Nat
      BY <2>1, <2>2, <2>3, <2>6 DEF SequenceIsDelivered
    <2> QED
      BY <2>1, <2>5, <2>7, <1>t DEF SessInv, SessType
  <1>5. ASSUME NEW o \in Callers, Rest(o), UNCHANGED <<srv, delivered>> PROVE SessInv'
    <2>1. CASE NextEvent(o) \/ OnReadError(o)
      BY <1>5, <2>1, <1>go
      DEF NextEvent, OnReadError, ensure_connected_then_read, read_one, complete, wsVars,
          sessVars
    <2>2. CASE BackoffExpired(o) \/ ConnectFailed(o) \/ ReadFailed(o) \/ OpWriteDone(o)
      BY <1>5, <2>2, <1>go
      DEF BackoffExpired, ConnectFailed, ReadFailed, OpWriteDone, complete, wsVars, sessVars
    <2>3. CASE OnHeartbeatRequest(o) \/ OnSignOfLife(o) \/ OnIgnored(o)
      BY <1>5, <2>3, <1>go
      DEF OnHeartbeatRequest, OnSignOfLife, OnIgnored, Receives, DispatchType, complete,
          wsVars, sessVars
    <2>4. CASE OnCloseRequest(o)
      BY <1>5, <2>4, <1>go DEF OnCloseRequest, close_impl, Receives, DispatchType
    <2> QED
      BY <1>5, <2>1, <2>2, <2>3, <2>4 DEF Rest
  <1>6. CASE /\ HeartbeatExpires \/ Heartbeating \/ HeartbeatSendDone
             /\ UNCHANGED <<srv, delivered>>
    BY <1>6, <1>same
    DEF HeartbeatExpires, Heartbeating, HeartbeatStopped, HeartbeatSend, HeartbeatDead,
        HeartbeatSendDone, close_impl, wsVars, sessVars
  <1>7. ASSUME NEW normal \in BOOLEAN, AppClose(normal), UNCHANGED <<srv, delivered>>
        PROVE  SessInv'
    BY <1>7, <1>same DEF AppClose, close_impl
  <1>8. ASSUME NEW c \in Conns, ConnectionEnds(c), UNCHANGED <<srv, delivered>>
        PROVE  SessInv'
    BY <1>8, <1>same DEF ConnectionEnds, sessVars
  <1>9. CASE UNCHANGED gvars
    BY <1>9, <1>same DEF gvars, vars, wsVars, sessVars
  <1> QED
    BY <1>1, <1>2, <1>3, <1>4, <1>5, <1>6, <1>7, <1>8, <1>9 DEF GNext

\* A shard in a session is a shard: all the theorems above hold of it.
THEOREM SessionShard == GSpec => Spec
  <1>1. GInit => Init
    BY DEF GInit
  <1>2. [GNext]_gvars => [Next]_vars
    BY GatewayKeepsShard DEF gvars
  <1> QED
    BY <1>1, <1>2, PTL DEF GSpec, Spec

\* The strengthening: the gateway is one message ahead of the application at
\* most, and only while that message waits for its handler.
THEOREM SessionInductive ==
  ASSUME Sequential
  PROVE  GSpec => [](IInv /\ OwnInv /\ SessInv)
  <1>1. GInit => OwnInv /\ SessInv
    <2> SUFFICES ASSUME GInit PROVE OwnInv /\ SessInv
      OBVIOUS
    <2>1. OwnInv
      BY DEF GInit, Init, OwnInv
    <2>2. SessType /\ PhaseInv /\ SequenceIsDelivered
      BY DEF GInit, Init, SessType, PhaseInv, SequenceIsDelivered
    <2> QED BY <2>1, <2>2 DEF SessInv
  <1>2. ASSUME IInv, OwnInv, SessInv, [GNext]_gvars PROVE OwnInv' /\ SessInv'
    <2>1. [Next]_vars /\ Inflated
      BY <1>2, GatewayKeepsShard, GatewayInflates DEF gvars, vars, wsVars, Inflated
    <2> QED BY <1>2, <2>1, OwnStep, SessStep
  <1> QED
    BY <1>1, <1>2, SessionShard, Inductive, PTL DEF GSpec

\* With one next_event loop the sequence of a session that is held is the one
\* delivered last, over any number of drops, closes, failed connects, resumes
\* and dispatches: a Resume asks for exactly what is missing.
THEOREM ResumesWhereItWas ==
  ASSUME Sequential
  PROVE  GSpec => []SequenceIsDelivered
  <1>1. SessInv => SequenceIsDelivered
    BY DEF SessInv
  <1> QED
    BY <1>1, SessionInductive, PTL

\* Every dispatch is handled right after the one before it: none is lost,
\* repeated or reordered, whatever interrupts the session.
THEOREM NothingLost ==
  ASSUME Sequential
  PROVE  GSpec => DeliveredInOrder
  <1> DEFINE Ordered ==
        \A o \in Callers :
          pc[o] = "got" /\ got[o].op = "Dispatch" /\ pc'[o] # "got"
            => got[o].s = delivered + 1
  <1>1. SessInv => Ordered
    BY DEF SessInv, PhaseInv, GotInv, Control
  <1>2. SessInv => [Ordered]_gvars
    BY <1>1
  <1> QED
    BY <1>2, SessionInductive, PTL DEF GSpec, DeliveredInOrder

=============================================================================
