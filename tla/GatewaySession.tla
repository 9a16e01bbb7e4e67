-------------------------- MODULE GatewaySession --------------------------
(***************************************************************************)
(* A shard talking to a gateway that keeps sessions: what Resume is for.   *)
(*                                                                         *)
(* The gateway (external) is modelled by what the shard relies on.  It     *)
(* greets a connection with Hello.  An Identify opens a session, whose     *)
(* READY has sequence 1; a Resume(seq) continues the session after seq.    *)
(* From then on it sends the dispatches of the session in order, and any   *)
(* other opcode at any time.  The number of dispatches is bounded by       *)
(* MaxSeq.                                                                 *)
(***************************************************************************)
EXTENDS Shard

VARIABLES
  srv,        \* per connection: 0 not greeted, 1 Hello sent, otherwise
              \* one more than the sequence it sends next
  delivered   \* the sequence of the last dispatch given to the application

gvars == <<vars, srv, delivered>>

Control == {"Heartbeat", "Reconnect", "InvalidResumable", "InvalidFinal",
            "HeartbeatAck", "Other"}

\* What the gateway may send on a connection in phase p, and the phase after.
GatewaySends(p, m, q) ==
  \/ p = 0 /\ m.op = "Hello" /\ q = 1
  \/ p = 2 /\ m.op = "Ready" /\ m.s = 1 /\ q = 3
  \/ p > 2 /\ m.op = "Dispatch" /\ m.s = p - 1 /\ q = p + 1
  \/ p > 1 /\ m.op \in Control /\ q = p

GReadDone(o, m) ==
  /\ ReadDone(o, m)
  /\ \E q \in 1..(MaxSeq + 2) : /\ GatewaySends(srv[on[o]], m, q)
                                /\ srv' = [srv EXCEPT ![on[o]] = q]
  /\ UNCHANGED delivered

GConnected(o, c) ==
  /\ Connected(o, c)
  /\ srv' = [srv EXCEPT ![c] = 0]
  /\ UNCHANGED delivered

\* The shard answers Hello with Resume or Identify on its current connection;
\* nothing is read any more from a connection that is already closed.
AnswerHello(o) ==
  /\ OnHello(o)
  /\ srv' = [srv EXCEPT ![m_ws] = IF m_session = None THEN 2 ELSE m_session + 2]
  /\ UNCHANGED delivered

\* The application receives the READY or the dispatch.
Deliver(o) ==
  /\ OnReady(o) \/ OnDispatch(o)
  /\ delivered' = got[o].s
  /\ UNCHANGED srv

GInit == Init /\ srv = [c \in Conns |-> 0] /\ delivered = 0

Rest(o) ==
  \/ NextEvent(o) \/ BackoffExpired(o) \/ ConnectFailed(o) \/ ReadFailed(o)
  \/ OnReadError(o) \/ OnHeartbeatRequest(o) \/ OnCloseRequest(o)
  \/ OnSignOfLife(o) \/ OnIgnored(o) \/ OpWriteDone(o)

GNext ==
  \/ \E o \in Callers : \/ \E m \in Message : GReadDone(o, m)
                        \/ \E c \in Conns : GConnected(o, c)
                        \/ AnswerHello(o) \/ Deliver(o)
                        \/ Rest(o) /\ UNCHANGED <<srv, delivered>>
  \/ /\ \/ HeartbeatExpires \/ Heartbeating \/ HeartbeatSendDone
        \/ \E normal \in BOOLEAN : AppClose(normal)
        \/ \E c \in Conns : ConnectionEnds(c)
     /\ UNCHANGED <<srv, delivered>>

GSpec == GInit /\ [][GNext]_gvars

\* The read of one caller ends, with what the gateway sends or with an error.
GReading(o) ==
  \/ ReadFailed(o) /\ UNCHANGED <<srv, delivered>>
  \/ \E m \in Message : GReadDone(o, m)

\* A read completes besides: the gateway greets every connection and goes on to
\* send acknowledgements and events, and the end of a connection ends its read.
GFairSpec == GSpec /\ Fairness /\ (\A o \in Callers : WF_vars(GReading(o)))

-----------------------------------------------------------------------------
\* Over any number of drops, closes, failed connects and resumes the
\* application sees every dispatch of a session exactly once and in order:
\* the sequence the shard resumes from is the one it delivered last.
DeliveredInOrder ==
  [][\A o \in Callers :
       pc[o] = "got" /\ got[o].op = "Dispatch" /\ pc'[o] # "got"
         => got[o].s = delivered + 1]_gvars

\* While a session is held its sequence is the last one delivered, also when
\* a close raced with the handler of the message.
SequenceIsDelivered == m_session # None => m_session = delivered
=============================================================================
