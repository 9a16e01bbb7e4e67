---------------------------- MODULE VoiceSender ----------------------------
(***************************************************************************)
(* The outgoing audio of a voice connection (src/src/voice/                *)
(* voice_sender.cpp, flush in voice_connection_impl.cpp): send_opus puts a *)
(* frame into m_channel, a SenderOp takes it out when it is due, encrypts  *)
(* it and hands it to the UDP socket, and flush waits until                *)
(* m_pending_frames is zero.  Everything runs on one thread; a completed   *)
(* operation whose handler did not run yet is "queued".                    *)
(*                                                                         *)
(* m_channel has no buffer: a send waits in it for a receive.  Time is     *)
(* not modelled: whether a frame is due is open.  The end-to-end           *)
(* encryption is in VoiceDave and its nonces in DaveFrames; here encrypting *)
(* a frame succeeds or fails.                                              *)
(***************************************************************************)
EXTENDS Naturals, FiniteSets, Sequences, SequencesExt

CONSTANTS
  Frames,        \* the frames the application may send, once each
  Loops,         \* the SenderOps: one is started per SessionDescription
  MaxFailures,   \* consecutive UDP failures after which a SenderOp stops
  None

ASSUME FramesAssumption == IsFiniteSet(Frames) /\ None \notin Frames
ASSUME MaxFailuresAssumption == MaxFailures \in Nat \ {0}

VARIABLES
  m_channel,          \* m_channel exists
  m_send_timer,       \* m_send_timer exists
  m_udp, m_disconnected,
  m_pending_frames,
  m_rtp_sequence,
  waiting,            \* the sends waiting in m_channel, oldest first
  cancelled,          \* frames whose send failed, handler queued
  accepted,           \* frames whose send succeeded or is still waiting (history)
  op,                 \* per SenderOp: where it is
  pkt,                \* per SenderOp: the frame it holds
  failures,           \* per SenderOp: consecutive_failures
  lost,               \* frames a cancelled timer wait dropped (history)
  flushing,           \* where the caller of flush is
  crashed             \* an empty m_send_timer was used

connVars == <<m_channel, m_send_timer, m_udp, m_disconnected>>
opVars == <<op, pkt, failures>>
svars == <<connVars, m_pending_frames, m_rtp_sequence, waiting, cancelled, accepted, opVars, lost,
           flushing, crashed>>

STypeOK ==
  /\ m_channel \in BOOLEAN /\ m_send_timer \in BOOLEAN
  /\ m_udp \in BOOLEAN /\ m_disconnected \in BOOLEAN
  /\ m_pending_frames \in 0..Cardinality(Frames)
  /\ m_rtp_sequence \in 0..Cardinality(Frames)
  /\ waiting \in Seq(Frames) /\ cancelled \subseteq Frames
  /\ accepted \subseteq Frames /\ lost \subseteq Frames
  /\ op \in [Loops -> {"none", "step", "receiving", "got", "timer", "due", "sending", "ended",
                       "gave up"}]
  /\ pkt \in [Loops -> Frames \cup {None}]
  /\ failures \in [Loops -> 0..MaxFailures]
  /\ flushing \in {"idle", "waiting", "ok"}
  /\ crashed \in BOOLEAN

\* setup_udp_async has bound and connected the socket.
SInit ==
  /\ m_channel = FALSE /\ m_send_timer = FALSE /\ m_udp = TRUE /\ m_disconnected = FALSE
  /\ m_pending_frames = 0 /\ m_rtp_sequence = 0
  /\ waiting = <<>> /\ cancelled = {} /\ accepted = {}
  /\ op = [l \in Loops |-> "none"] /\ pkt = [l \in Loops |-> None]
  /\ failures = [l \in Loops |-> 0] /\ lost = {}
  /\ flushing = "idle" /\ crashed = FALSE

Put(l, where, f) == op' = [op EXCEPT ![l] = where] /\ pkt' = [pkt EXCEPT ![l] = f]

-----------------------------------------------------------------------------
(* The connection around it (VoiceConnection)                              *)

\* SessionDescription: opus_sender_loop starts one more SenderOp.
opus_sender_loop(l) ==
  /\ op[l] = "none"
  /\ m_channel' = TRUE
  /\ \/ m_udp /\ m_send_timer' = TRUE /\ Put(l, "step", None)
     \/ ~m_udp /\ UNCHANGED <<m_send_timer, op, pkt>>
  /\ UNCHANGED <<m_udp, m_disconnected, m_pending_frames, m_rtp_sequence, waiting, cancelled,
                 accepted, failures, lost, flushing, crashed>>

\* close and request_stop: the channel, the timer and the socket go.  Waiting
\* sends fail; a SenderOp that waits on the channel or the timer ends, one that
\* waits for the socket is answered with an error.
Release ==
  /\ m_channel' = FALSE /\ m_send_timer' = FALSE /\ m_udp' = FALSE
  /\ cancelled' = cancelled \cup ToSet(waiting) /\ waiting' = <<>>
  /\ op' = [l \in Loops |-> IF op[l] \in {"receiving", "timer"} THEN "ended" ELSE op[l]]
  /\ lost' = lost \cup {pkt[l] : l \in {k \in Loops : op[k] = "timer"}}
  /\ pkt' = [l \in Loops |-> IF op[l] = "timer" THEN None ELSE pkt[l]]
  /\ UNCHANGED <<m_pending_frames, m_rtp_sequence, accepted, failures, flushing, crashed>>

Close == Release /\ UNCHANGED m_disconnected

RequestStop == Release /\ m_disconnected' = TRUE

-----------------------------------------------------------------------------
(* send_opus, and send_raw which encodes first                             *)

\* Mutation: the frame is counted when the channel took it.
CountWhenTaken(f) == UNCHANGED m_pending_frames

Count(f) == m_pending_frames' = m_pending_frames + 1

\* An empty frame, one that does not encode or parse, and one sent without a
\* channel are refused and leave no trace.
send_opus(f) ==
  /\ f \notin accepted
  /\ m_channel /\ ~m_disconnected
  /\ Count(f)
  /\ waiting' = Append(waiting, f) /\ accepted' = accepted \cup {f}
  /\ UNCHANGED <<connVars, m_rtp_sequence, cancelled, opVars, lost, flushing, crashed>>

\* A waiting send meets a waiting receive; both complete.
ChannelPasses(l) ==
  /\ op[l] = "receiving" /\ waiting # <<>>
  /\ Put(l, "got", Head(waiting)) /\ waiting' = Tail(waiting)
  /\ UNCHANGED <<connVars, m_pending_frames, m_rtp_sequence, cancelled, accepted, failures, lost,
                 flushing, crashed>>

\* The handler of a send that failed.
SendFailed(f) ==
  /\ f \in cancelled /\ cancelled' = cancelled \ {f}
  /\ m_pending_frames' = m_pending_frames - 1
  /\ UNCHANGED <<connVars, m_rtp_sequence, waiting, accepted, opVars, lost, flushing, crashed>>

-----------------------------------------------------------------------------
(* SenderOp                                                                *)

\* step: receive from the channel, or end.
Step(l) ==
  /\ op[l] = "step"
  /\ op' = [op EXCEPT ![l] = IF m_channel /\ m_udp THEN "receiving" ELSE "ended"]
  /\ UNCHANGED <<connVars, m_pending_frames, m_rtp_sequence, waiting, cancelled, accepted, pkt,
                 failures, lost, flushing, crashed>>

\* process, frame not due: m_send_timer, which all SenderOps share, is set, and
\* that cancels the wait of another one, whose frame is gone.
ProcessEarly(l) ==
  /\ op[l] = "got"
  /\ LET others == {k \in Loops \ {l} : op[k] = "timer"}
     IN \/ /\ m_send_timer
           /\ op' = [k \in Loops |-> IF k = l THEN "timer" ELSE IF k \in others THEN "ended" ELSE op[k]]
           /\ pkt' = [k \in Loops |-> IF k \in others THEN None ELSE pkt[k]]
           /\ lost' = lost \cup {pkt[k] : k \in others}
           /\ UNCHANGED crashed
        \/ ~m_send_timer /\ crashed' = TRUE /\ UNCHANGED <<op, pkt, lost>>
  /\ UNCHANGED <<connVars, m_pending_frames, m_rtp_sequence, waiting, cancelled, accepted, failures,
                 flushing>>

TimerExpires(l) ==
  /\ op[l] = "timer" /\ op' = [op EXCEPT ![l] = "due"]
  /\ UNCHANGED <<connVars, m_pending_frames, m_rtp_sequence, waiting, cancelled, accepted, pkt,
                 failures, lost, flushing, crashed>>

\* maintain_sync, with the counter of the frame that is done.
FrameDone(l, where) ==
  /\ m_pending_frames' = m_pending_frames - 1
  /\ m_rtp_sequence' = m_rtp_sequence + 1
  /\ Put(l, where, None)

\* send: without a socket the frame is dropped and the loop ends; a frame that
\* cannot be encrypted is dropped.
Send(l) ==
  /\ op[l] \in {"got", "due"}
  /\ \/ /\ ~m_udp /\ Put(l, "ended", None)
        /\ m_pending_frames' = m_pending_frames - 1
        /\ UNCHANGED m_rtp_sequence
     \/ m_udp /\ FrameDone(l, "step")
     \/ m_udp /\ Put(l, "sending", pkt[l]) /\ UNCHANGED <<m_pending_frames, m_rtp_sequence>>
  /\ UNCHANGED <<connVars, waiting, cancelled, accepted, failures, lost, flushing, crashed>>

\* The UDP send completes.
Sent(l) ==
  /\ op[l] = "sending"
  /\ \/ m_udp /\ failures' = [failures EXCEPT ![l] = 0] /\ FrameDone(l, "step")
     \/ /\ failures' = [failures EXCEPT ![l] = @ + 1]
        /\ FrameDone(l, IF failures'[l] >= MaxFailures THEN "gave up" ELSE "step")
  /\ UNCHANGED <<connVars, waiting, cancelled, accepted, lost, flushing, crashed>>

-----------------------------------------------------------------------------
(* flush                                                                   *)

Flushed == m_pending_frames = 0 \/ ~m_udp \/ m_disconnected

Flush ==
  /\ flushing = "idle" /\ flushing' = IF Flushed THEN "ok" ELSE "waiting"
  /\ UNCHANGED <<connVars, m_pending_frames, m_rtp_sequence, waiting, cancelled, accepted, opVars,
                 lost, crashed>>

\* Mutation: a flush that has to wait is never looked at again.
CheckNeverAgain == FALSE

\* FlushOp::check, ten milliseconds later.
Check ==
  /\ flushing = "waiting" /\ Flushed /\ flushing' = "ok"
  /\ UNCHANGED <<connVars, m_pending_frames, m_rtp_sequence, waiting, cancelled, accepted, opVars,
                 lost, crashed>>

-----------------------------------------------------------------------------
Sending(l) ==
  Step(l) \/ ChannelPasses(l) \/ ProcessEarly(l) \/ TimerExpires(l) \/ Send(l) \/ Sent(l)

-----------------------------------------------------------------------------
(* Properties.                                                             *)

\* The frames between send_opus and the end of their UDP send.
InFlight == ToSet(waiting) \cup cancelled \cup ({pkt[l] : l \in Loops} \ {None})

\* m_pending_frames counts every frame that is on its way and the ones a
\* cancelled timer lost, on every path: so a flush that returns because the
\* count is zero has seen every accepted frame leave, and the unsigned counter
\* is never decremented below zero.
PendingCountsFrames == m_pending_frames = Cardinality(InFlight) + Cardinality(lost)
=============================================================================
