---------------------------- MODULE VoiceMedia ----------------------------
(***************************************************************************)
(* The two halves of a voice connection's outgoing media, as one object    *)
(* runs them: the sender loops (VoiceSender) and the end-to-end encryption *)
(* (VoiceDave).  A SessionDescription starts a sender loop when its DAVE   *)
(* part succeeded, and request_stop ends both.                             *)
(***************************************************************************)
EXTENDS VoiceSender, VoiceDave

CONSTANT FramesInGroup   \* bound on the frames of a behaviour in which the
                         \* end-to-end encryption starts

mvars == <<svars, dvars>>

MInit == SInit /\ DInit

Alive == ~crashed /\ handler # "crashed"

\* handle_session_description_async: the loops start at once or after the key
\* package was sent.
Described(v) ==
  /\ OnSessionDescription(v)
  /\ \/ handler' = "idle" /\ made' = made /\ \E l \in Loops : opus_sender_loop(l)
     \/ (handler' # "idle" \/ made' # made) /\ UNCHANGED svars

DescribedLater ==
  /\ handler = "describe"
  /\ \/ SendDone /\ \E l \in Loops : opus_sender_loop(l)
     \/ SendFails /\ UNCHANGED svars

App == (\E f \in Frames : send_opus(f)) \/ Flush \/ Close

\* The bound: with a group, few frames and one sender loop.
Bounded ==
  made' > 0 => /\ Cardinality(accepted') <= FramesInGroup
               /\ Cardinality({l \in Loops : op'[l] # "none"}) <= 1

Sender ==
  \/ \E l \in Loops : Sending(l)
  \/ \E f \in Frames : SendFailed(f)
  \/ Check

MNext ==
  /\ Alive
  /\ \/ \E v \in 0..1 : Described(v)
     \/ DescribedLater
     \/ RequestStop /\ DStop
     \/ (App \/ Sender) /\ UNCHANGED dvars
     \/ /\ \/ OnReady \/ OnExternalSender \/ OnProposals
           \/ \E tid \in Tids \cup {0} : \/ OnAnnounceCommit(tid) \/ OnWelcome(tid)
                                         \/ \E v \in 0..1 : OnPrepareTransition(tid, v)
                                         \/ OnExecuteTransition(tid)
           \/ \E v \in 0..1 : OnPrepareEpoch(v)
           \/ handler # "describe" /\ (SendFails \/ SendDone)
        /\ UNCHANGED svars
  /\ Bounded

MSpec == MInit /\ [][MNext]_mvars

\* Timers expire, sends complete and queued handlers run.
MFairness ==
  /\ \A l \in Loops : WF_mvars(Alive /\ Sending(l) /\ UNCHANGED dvars)
  /\ \A f \in Frames : WF_mvars(Alive /\ SendFailed(f) /\ UNCHANGED dvars)
  /\ WF_mvars(Alive /\ Check /\ UNCHANGED dvars)

FairMSpec == MSpec /\ MFairness
-----------------------------------------------------------------------------
(* Properties.                                                             *)

\* flush returns, whatever fails, is closed or is renegotiated meanwhile,
\* unless a SenderOp gave up after MaxFailures failures or the shared timer
\* lost a frame: then it waits as long as the connection lives.
FlushEnds ==
  flushing = "waiting" ~>
    (flushing = "ok" \/ lost # {} \/ ~Alive \/ \E l \in Loops : op[l] = "gave up")
=============================================================================
