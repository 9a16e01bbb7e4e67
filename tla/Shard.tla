------------------------------- MODULE Shard -------------------------------
(***************************************************************************)
(* The gateway shard (src/src/shard.cpp, src/include/ekizu/shard.hpp).     *)
(*                                                                         *)
(* Every handler of the shard runs on m_strand, so each handler is one     *)
(* action; what interleaves are the completions the handlers wait for:     *)
(* the read, send and close of the WebSocketClient, the backoff timer, the *)
(* heartbeat timer, and the calls the application makes at any time.       *)
(*                                                                         *)
(* A WebSocketClient is modelled by how the shard uses it: a connection is *)
(* "open" until either side closes it ("closing": our close frame is under *)
(* way, is_open() is already false) and then "closed".  The delay of the   *)
(* reconnect backoff is abstract, hence so is m_reconnect_attempts, which  *)
(* only chooses that delay.                                                *)
(***************************************************************************)
EXTENDS Naturals

CONSTANTS
  Callers,          \* concurrent next_event operations
  Conns,            \* identities of WebSocketClient objects, reused when free
  None,             \* std::nullopt
  MaxSeq,           \* dispatch sequence numbers are 1..MaxSeq, 0 is "no s field"
  MaxMissed,        \* kMaxMissedHeartbeats
  MaxSends,         \* bound: heartbeats written but not yet completed
  InflaterCanFail   \* whether Inflater::create may return an error

ASSUME NoneAssumption == None \notin Conns /\ None \notin Nat
ASSUME MaxSeqAssumption == MaxSeq \in Nat
ASSUME MaxMissedAssumption == MaxMissed \in Nat \ {0}
ASSUME MaxSendsAssumption == MaxSends \in Nat \ {0}
ASSUME InflaterAssumption == InflaterCanFail \in BOOLEAN

VARIABLES
  m_ws,                     \* the current connection, None before the first
  m_timer,                  \* "none", or the heartbeat timer "idle" / "armed"
  m_heartbeat_running,
  m_last_heartbeat_acked,
  m_missed_heartbeats,
  m_session,                \* None, or the sequence of the session
  m_resume_gateway_url,     \* whether a resume URL is known
  m_intentional_close,
  m_inflater,               \* None, or the connection it was created for
  conn,                     \* state of each connection
  hb_fired,                 \* an expired heartbeat wait whose handler is queued
  hb_sends,                 \* heartbeat_tick sends whose completion is pending
  pc,                       \* where each next_event operation is
  on,                       \* the connection it reads from, or None
  got,                      \* the message whose handler is queued, or None
  app_cmd,                  \* a join/leave/presence command being written
  \* History variables: they record what happened and influence nothing.
  user_closed,              \* the application called close(normal | going_away)
  unacked,                  \* tick heartbeats sent since the last ACK or Hello
  helloed                   \* a Hello was handled since m_ws was installed

hbVars   == <<m_timer, m_heartbeat_running, hb_fired, hb_sends>>
ackVars  == <<m_last_heartbeat_acked, m_missed_heartbeats, unacked>>
sessVars == <<m_session, m_resume_gateway_url>>
wsVars   == <<m_ws, m_inflater, conn, helloed>>
opVars   == <<pc, on, got>>
stopVars == <<m_intentional_close, user_closed>>
vars == <<hbVars, ackVars, sessVars, wsVars, opVars, stopVars, app_cmd>>

\* "HelloBad" is a Hello without heartbeat_interval, "Other" any opcode the
\* shard ignores and any payload it rejects before it changes anything.
Opcode == {"Heartbeat", "Reconnect", "InvalidResumable", "InvalidFinal",
           "Hello", "HelloBad", "HeartbeatAck", "Other"}
DispatchType == {"Ready", "Dispatch"}
Message == [op : DispatchType, s : 0..MaxSeq] \cup [op : Opcode, s : {0}]

PC == {"idle", "backoff", "connecting", "reading", "got", "failed", "sending",
       "closing"}

TypeOK ==
  /\ m_ws \in Conns \cup {None}
  /\ m_timer \in {"none", "idle", "armed"}
  /\ m_heartbeat_running \in BOOLEAN
  /\ m_last_heartbeat_acked \in BOOLEAN
  /\ m_missed_heartbeats \in 0..MaxMissed
  /\ m_session \in 0..MaxSeq \cup {None}
  /\ m_resume_gateway_url \in BOOLEAN
  /\ m_intentional_close \in BOOLEAN
  /\ m_inflater \in Conns \cup {None}
  /\ conn \in [Conns -> {"open", "closing", "closed"}]
  /\ hb_fired \in BOOLEAN
  /\ hb_sends \in 0..MaxSends
  /\ pc \in [Callers -> PC]
  /\ on \in [Callers -> Conns \cup {None}]
  /\ got \in [Callers -> Message \cup {None}]
  /\ app_cmd \in {"idle", "sending"}
  /\ user_closed \in BOOLEAN
  /\ unacked \in 0..MaxMissed
  /\ helloed \in BOOLEAN

Init ==
  /\ m_ws = None /\ m_inflater = None
  /\ conn = [c \in Conns |-> "closed"]
  /\ m_timer = "none" /\ m_heartbeat_running = FALSE
  /\ hb_fired = FALSE /\ hb_sends = 0
  /\ m_last_heartbeat_acked = TRUE /\ m_missed_heartbeats = 0 /\ unacked = 0
  /\ m_session = None /\ m_resume_gateway_url = FALSE
  /\ m_intentional_close = FALSE /\ user_closed = FALSE
  /\ pc = [o \in Callers |-> "idle"]
  /\ on = [o \in Callers |-> None]
  /\ got = [o \in Callers |-> None]
  /\ app_cmd = "idle"
  /\ helloed = FALSE

-----------------------------------------------------------------------------
(* Helpers shared by the handlers.                                         *)

is_open == m_ws # None /\ conn[m_ws] = "open"

\* The op continues at state p, on connection c, with message m queued.
Goto(o, p, c, m) ==
  /\ pc' = [pc EXCEPT ![o] = p]
  /\ on' = [on EXCEPT ![o] = c]
  /\ got' = [got EXCEPT ![o] = m]

complete(o) == Goto(o, "idle", None, None)

read_one(o) == Goto(o, "reading", m_ws, None)

\* Mutation: trusts m_ws to be usable because it is set.
EnsureWithoutIsOpen(o) ==
  \/ m_ws # None /\ read_one(o)
  \/ m_ws = None /\ m_intentional_close /\ complete(o)
  \/ m_ws = None /\ ~m_intentional_close /\ Goto(o, "backoff", None, None)

\* reconnect_async answers operation_canceled when closed intentionally, and
\* ensure_connected_then_read answers not_connected before even asking it.
ensure_connected_then_read(o) ==
  \/ is_open /\ read_one(o)
  \/ ~is_open /\ m_intentional_close /\ complete(o)
  \/ ~is_open /\ ~m_intentional_close /\ Goto(o, "backoff", None, None)

\* Mutation: forgets the resume URL when the session is dropped.
CloseKeepsUrl(normal) ==
  /\ m_intentional_close' = (m_intentional_close \/ normal)
  /\ m_session' = IF normal THEN None ELSE m_session
  /\ m_resume_gateway_url' = m_resume_gateway_url
  /\ m_timer' = "none"
  /\ m_heartbeat_running' = (m_heartbeat_running /\ m_timer = "none")
  /\ conn' = IF is_open THEN [conn EXCEPT ![m_ws] = "closing"] ELSE conn

\* close_impl.  `normal' stands for the codes normal and going_away.
close_impl(normal) ==
  /\ m_intentional_close' = (m_intentional_close \/ normal)
  /\ m_session' = IF normal THEN None ELSE m_session
  /\ m_resume_gateway_url' = (m_resume_gateway_url /\ ~normal)
  /\ m_timer' = "none"
  /\ m_heartbeat_running' = (m_heartbeat_running /\ m_timer = "none")
  /\ conn' = IF is_open THEN [conn EXCEPT ![m_ws] = "closing"] ELSE conn

\* Mutation: the completion of a heartbeat does not arm the timer again.
TickWithoutRearm == m_timer' = m_timer

\* heartbeat_tick with the timer present and running: expires_after cancels a
\* wait that has not expired yet, so there is never more than one wait.
heartbeat_tick ==
  m_timer' = IF m_timer # "none" /\ m_heartbeat_running THEN "armed" ELSE m_timer

\* Mutation: the timer is armed but the heartbeat is not marked as running.
StartWithoutRunning == m_timer' = "armed" /\ m_heartbeat_running' = m_heartbeat_running

start_heartbeat == m_timer' = "armed" /\ m_heartbeat_running' = TRUE

-----------------------------------------------------------------------------
(* next_event: connecting.                                                 *)

NextEvent(o) ==
  /\ pc[o] = "idle"
  /\ ensure_connected_then_read(o)
  /\ UNCHANGED <<hbVars, ackVars, sessVars, wsVars, stopVars, app_cmd>>

\* Mutation: no second look at m_intentional_close after the wait.
BackoffWithoutRecheck(o) ==
  /\ pc[o] = "backoff"
  /\ ~hb_fired
  /\ Goto(o, "connecting", None, None)
  /\ UNCHANGED <<hbVars, ackVars, sessVars, wsVars, stopVars, app_cmd>>

\* Mutation: returns on m_intentional_close without calling the handler.
BackoffDropsHandler(o) ==
  /\ pc[o] = "backoff"
  /\ ~hb_fired
  /\ ~m_intentional_close
  /\ Goto(o, "connecting", None, None)
  /\ UNCHANGED <<hbVars, ackVars, sessVars, wsVars, stopVars, app_cmd>>

\* The backoff timer fires; close may have been called while it ran.  A
\* heartbeat handler already queued on the strand runs before this one.
BackoffExpired(o) ==
  /\ pc[o] = "backoff"
  /\ ~hb_fired
  /\ \/ m_intentional_close /\ complete(o)
     \/ ~m_intentional_close /\ Goto(o, "connecting", None, None)
  /\ UNCHANGED <<hbVars, ackVars, sessVars, wsVars, stopVars, app_cmd>>

\* No operation, and not the shard, holds this WebSocketClient.
Free(c) == c # m_ws /\ c # m_inflater /\ \A o \in Callers : on[o] # c

\* m_ws.emplace destroys the previous client, whose destructor cancels it.
install_ws(c) ==
  /\ m_ws' = c
  /\ conn' = [d \in Conns |->
                IF d = c THEN "open" ELSE IF d = m_ws THEN "closed" ELSE conn[d]]
  /\ helloed' = FALSE

\* Mutation: an inflater that exists is kept for the new connection.
ConnectedOldInflater(o, c) ==
  /\ pc[o] = "connecting"
  /\ Free(c)
  /\ install_ws(c)
  /\ m_inflater' = IF m_inflater = None THEN c ELSE m_inflater
  /\ Goto(o, "reading", c, None)
  /\ UNCHANGED <<hbVars, ackVars, sessVars, stopVars, app_cmd>>

Connected(o, c) ==
  /\ pc[o] = "connecting"
  /\ Free(c)
  /\ install_ws(c)
  /\ m_inflater' = c
  /\ Goto(o, "reading", c, None)
  /\ UNCHANGED <<hbVars, ackVars, sessVars, stopVars, app_cmd>>

\* Inflater::create fails after m_ws was replaced: the error is surfaced, the
\* new connection stays installed with the old inflater (or with none).
ConnectedNoInflater(o, c) ==
  /\ InflaterCanFail
  /\ pc[o] = "connecting"
  /\ Free(c)
  /\ install_ws(c)
  /\ complete(o)
  /\ UNCHANGED <<m_inflater, hbVars, ackVars, sessVars, stopVars, app_cmd>>

\* The next attempt goes to GATEWAY_URL, the session is kept.
ConnectFailed(o) ==
  /\ pc[o] = "connecting"
  /\ m_resume_gateway_url' = FALSE
  /\ complete(o)
  /\ UNCHANGED <<m_session, hbVars, ackVars, wsVars, stopVars, app_cmd>>

-----------------------------------------------------------------------------
(* next_event: the read completes on the client's strand and its handler   *)
(* is queued on the shard's strand.                                        *)

ReadDone(o, m) ==
  /\ pc[o] = "reading"
  /\ conn[on[o]] \in {"open", "closing"}
  /\ Goto(o, "got", on[o], m)
  /\ UNCHANGED <<hbVars, ackVars, sessVars, wsVars, stopVars, app_cmd>>

ReadFailed(o) ==
  /\ pc[o] = "reading"
  /\ conn[on[o]] = "closed"
  /\ Goto(o, "failed", on[o], None)
  /\ UNCHANGED <<hbVars, ackVars, sessVars, wsVars, stopVars, app_cmd>>

\* on_read_error: the error is one of the transient ones or another.
OnReadError(o) ==
  /\ pc[o] = "failed"
  /\ \/ complete(o)                          \* not transient: surfaced
     \/ m_intentional_close /\ complete(o)
     \/ ~m_intentional_close /\ ensure_connected_then_read(o)
  /\ UNCHANGED <<hbVars, ackVars, sessVars, wsVars, stopVars, app_cmd>>

-----------------------------------------------------------------------------
(* next_event: on_message and handle_gateway_payload.                      *)

\* A message can only be inflated in the context of its own connection; the
\* first message of a stream, the Hello, needs no context.
Inflates(o) == m_inflater = on[o] \/ got[o].op = "Hello"

InflateError(o) ==
  /\ pc[o] = "got"
  /\ m_inflater # on[o]
  /\ complete(o)
  /\ UNCHANGED <<hbVars, ackVars, sessVars, wsVars, stopVars, app_cmd>>

Receives(o, ops) == pc[o] = "got" /\ Inflates(o) /\ got[o].op \in ops

OnReady(o) ==
  /\ Receives(o, {"Ready"})
  /\ m_session' = got[o].s
  /\ m_resume_gateway_url' = TRUE
  /\ complete(o)
  /\ UNCHANGED <<hbVars, ackVars, wsVars, stopVars, app_cmd>>

\* Mutation: only READY records a sequence.
DispatchKeepsSequence(o) ==
  /\ Receives(o, {"Dispatch"})
  /\ complete(o)
  /\ UNCHANGED <<sessVars, hbVars, ackVars, wsVars, stopVars, app_cmd>>

OnDispatch(o) ==
  /\ Receives(o, {"Dispatch"})
  /\ m_session' = IF m_session # None /\ got[o].s # 0 THEN got[o].s ELSE m_session
  /\ complete(o)
  /\ UNCHANGED <<m_resume_gateway_url, hbVars, ackVars, wsVars, stopVars, app_cmd>>

\* The server asks for a heartbeat: the operation ends when it is written.
OnHeartbeatRequest(o) ==
  /\ Receives(o, {"Heartbeat"})
  /\ Goto(o, "sending", None, None)
  /\ UNCHANGED <<hbVars, ackVars, sessVars, wsVars, stopVars, app_cmd>>

\* Reconnect and InvalidSession close the connection; the operation ends when
\* the close does.  A session that cannot be resumed is closed with NORMAL.
OnCloseRequest(o) ==
  /\ Receives(o, {"Reconnect", "InvalidResumable", "InvalidFinal"})
  /\ close_impl(got[o].op = "InvalidFinal")
  /\ Goto(o, "closing", None, None)
  /\ UNCHANGED <<hb_fired, hb_sends, ackVars, m_ws, m_inflater, helloed,
                 user_closed, app_cmd>>

\* Hello starts the heartbeat and sends Resume or Identify.
OnHello(o) ==
  /\ Receives(o, {"Hello"})
  /\ m_last_heartbeat_acked' = TRUE
  /\ unacked' = 0
  /\ start_heartbeat
  /\ helloed' = TRUE
  /\ Goto(o, "sending", None, None)
  /\ UNCHANGED <<hb_fired, hb_sends, m_missed_heartbeats, sessVars, m_ws,
                 m_inflater, conn, stopVars, app_cmd>>

\* An ACK, or a Hello without an interval, which is rejected after it has
\* already counted as a sign of life.
OnSignOfLife(o) ==
  /\ Receives(o, {"HeartbeatAck", "HelloBad"})
  /\ m_last_heartbeat_acked' = TRUE
  /\ unacked' = 0
  /\ complete(o)
  /\ UNCHANGED <<m_missed_heartbeats, hbVars, sessVars, wsVars, stopVars, app_cmd>>

OnIgnored(o) ==
  /\ Receives(o, {"Other"})
  /\ complete(o)
  /\ UNCHANGED <<hbVars, ackVars, sessVars, wsVars, stopVars, app_cmd>>

\* The completion of the send or the close the operation was waiting for.
OpWriteDone(o) ==
  /\ pc[o] \in {"sending", "closing"}
  /\ complete(o)
  /\ UNCHANGED <<hbVars, ackVars, sessVars, wsVars, stopVars, app_cmd>>

-----------------------------------------------------------------------------
(* The heartbeat.                                                          *)

HeartbeatExpires ==
  /\ m_timer = "armed"
  /\ ~hb_fired
  /\ m_timer' = "idle"
  /\ hb_fired' = TRUE
  /\ UNCHANGED <<m_heartbeat_running, hb_sends, ackVars, sessVars, wsVars, opVars,
                 stopVars, app_cmd>>

\* The expired wait was overtaken by a close that stopped the heartbeat.
HeartbeatStopped ==
  /\ hb_fired
  /\ ~m_heartbeat_running \/ m_ws = None
  /\ hb_fired' = FALSE
  /\ UNCHANGED <<m_timer, m_heartbeat_running, hb_sends, ackVars, sessVars, wsVars,
                 opVars, stopVars, app_cmd>>

\* Mutation: an ACK does not reset the count.
MissesNeverReset ==
  IF m_last_heartbeat_acked THEN m_missed_heartbeats ELSE m_missed_heartbeats + 1

missed_now == IF m_last_heartbeat_acked THEN 0 ELSE m_missed_heartbeats + 1

HeartbeatSend ==
  /\ hb_fired /\ m_heartbeat_running /\ m_ws # None
  /\ missed_now < MaxMissed
  /\ hb_sends < MaxSends
  /\ hb_fired' = FALSE
  /\ m_missed_heartbeats' = missed_now
  /\ m_last_heartbeat_acked' = FALSE
  /\ unacked' = unacked + 1
  /\ hb_sends' = hb_sends + 1
  /\ UNCHANGED <<m_timer, m_heartbeat_running, sessVars, wsVars, opVars, stopVars,
                 app_cmd>>

\* "Connection dead, closing for reconnect": close with SESSION_EXPIRED.  The
\* handler also clears m_heartbeat_running itself, which close_impl has to do
\* anyway: a running heartbeat owns a timer (RunInv in ShardProofs).
HeartbeatDead ==
  /\ hb_fired /\ m_heartbeat_running /\ m_ws # None
  /\ missed_now >= MaxMissed
  /\ hb_fired' = FALSE
  /\ m_missed_heartbeats' = missed_now
  /\ close_impl(FALSE)
  /\ UNCHANGED <<m_last_heartbeat_acked, unacked, hb_sends, m_ws, m_inflater,
                 helloed, opVars, user_closed, app_cmd>>

\* The write completes, with an error or not: wait for the next interval.
HeartbeatSendDone ==
  /\ hb_sends > 0
  /\ hb_sends' = hb_sends - 1
  /\ heartbeat_tick
  /\ UNCHANGED <<m_heartbeat_running, hb_fired, ackVars, sessVars, wsVars, opVars,
                 stopVars, app_cmd>>

-----------------------------------------------------------------------------
(* The application and the peer.                                           *)

AppClose(normal) ==
  /\ close_impl(normal)
  /\ user_closed' = (user_closed \/ normal)
  /\ UNCHANGED <<hb_fired, hb_sends, ackVars, m_ws, m_inflater, helloed, opVars,
                 app_cmd>>

\* join_voice_channel, leave_voice_channel, update_presence: written on the
\* current client, whatever its state; not_connected when there is none.
AppCommand ==
  /\ app_cmd = "idle" /\ m_ws # None
  /\ app_cmd' = "sending"
  /\ UNCHANGED <<hbVars, ackVars, sessVars, wsVars, opVars, stopVars>>

AppCommandDone ==
  /\ app_cmd = "sending"
  /\ app_cmd' = "idle"
  /\ UNCHANGED <<hbVars, ackVars, sessVars, wsVars, opVars, stopVars>>

\* The peer drops the connection, or our close handshake ends.
ConnectionEnds(c) ==
  /\ conn[c] \in {"open", "closing"}
  /\ conn' = [conn EXCEPT ![c] = "closed"]
  /\ UNCHANGED <<m_ws, m_inflater, helloed, hbVars, ackVars, sessVars, opVars,
                 stopVars, app_cmd>>

-----------------------------------------------------------------------------
Handle(o) ==
  \/ OnReadError(o) \/ InflateError(o)
  \/ OnReady(o) \/ OnDispatch(o) \/ OnHeartbeatRequest(o) \/ OnCloseRequest(o)
  \/ OnHello(o) \/ OnSignOfLife(o) \/ OnIgnored(o)

Connecting(o) ==
  \/ \E c \in Conns : Connected(o, c) \/ ConnectedNoInflater(o, c)
  \/ ConnectFailed(o)

Reading(o) == ReadFailed(o) \/ \E m \in Message : ReadDone(o, m)

Heartbeating == HeartbeatStopped \/ HeartbeatSend \/ HeartbeatDead

Next ==
  \/ \E o \in Callers : \/ NextEvent(o) \/ BackoffExpired(o) \/ Connecting(o)
                        \/ Reading(o) \/ Handle(o) \/ OpWriteDone(o)
  \/ HeartbeatExpires \/ Heartbeating \/ HeartbeatSendDone
  \/ \E normal \in BOOLEAN : AppClose(normal)
  \/ AppCommand \/ AppCommandDone
  \/ \E c \in Conns : ConnectionEnds(c)

Spec == Init /\ [][Next]_vars

\* Timers expire, writes and connects complete, queued handlers run.  Nothing is
\* assumed of the application, nothing about which way a connect ends, and of
\* reads only what the gateway gives (GatewaySession).
Fairness ==
  /\ \A o \in Callers : /\ WF_vars(BackoffExpired(o)) /\ WF_vars(Connecting(o))
                        /\ WF_vars(Handle(o)) /\ WF_vars(OpWriteDone(o))
  /\ WF_vars(HeartbeatExpires) /\ WF_vars(Heartbeating)
  /\ WF_vars(HeartbeatSendDone)

-----------------------------------------------------------------------------
(* Properties.                                                             *)

\* Once Hello was handled on the current connection, and until someone closes
\* it, the heartbeat cannot have died silently: the timer is armed, or its
\* handler is queued, or a heartbeat is being written whose completion arms
\* the timer again (start_heartbeat, heartbeat_tick, close_impl).
HeartbeatChainAlive ==
  helloed /\ is_open =>
    /\ m_heartbeat_running
    /\ m_timer = "armed" \/ hb_fired \/ hb_sends > 0

\* The connection is declared dead only when MaxMissed heartbeats in a row
\* went out without an ACK or a Hello in between, although the miss counter
\* survives reconnects and is only reset by a later tick.
VerdictSound ==
  [][m_missed_heartbeats' >= MaxMissed /\ m_missed_heartbeats' # m_missed_heartbeats
       => unacked >= MaxMissed]_vars

\* A resume URL is only kept together with the session it belongs to, across
\* failed connects, closes and READY (close_impl, reconnect_async).
UrlHasSession == m_resume_gateway_url => m_session # None

\* With one caller of next_event, a queued message is always inflated in the
\* context of the connection it was read from: no event is lost because the
\* connection was replaced between the read and its handler.
InflatedByOwnContext ==
  \A o \in Callers : pc[o] = "got" => m_inflater = on[o]

\* After an intentional close no connection attempt is started any more, also
\* when the close came while the backoff timer was running.
NoAttemptAfterClose ==
  [][\A o \in Callers :
       pc[o] # "connecting" /\ pc'[o] = "connecting" => ~m_intentional_close]_vars

\* A heartbeat that stays unanswered is noticed: either a sign of life comes
\* or the heartbeat stops because the connection is being closed.
SilenceIsNoticed ==
  m_heartbeat_running /\ ~m_last_heartbeat_acked
    ~> m_last_heartbeat_acked \/ ~m_heartbeat_running

\* After an intentional close no next_event call hangs.
CloseReleasesCallers ==
  \A o \in Callers : m_intentional_close /\ pc[o] # "idle" ~> pc[o] = "idle"

\* An operation reading from a dead connection gets to a live one, or ends.
DropIsRecovered ==
  \A o \in Callers :
    pc[o] = "reading" /\ conn[on[o]] = "closed"
      ~> pc[o] = "idle" \/ (pc[o] = "reading" /\ conn[on[o]] = "open")

\* "Gateway support, with auto-reconnect": the shard gives up reconnecting
\* only because the application closed it.
GivesUpOnlyWhenClosed == m_intentional_close => user_closed

\* "This prevents next_event_impl from attempting to reconnect": after an
\* intentional close no new connection is installed.
ClosedStaysClosed == [][m_intentional_close => m_ws' = m_ws]_vars
=============================================================================
