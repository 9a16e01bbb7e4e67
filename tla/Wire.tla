------------------------------- MODULE Wire -------------------------------
(***************************************************************************)
(* Everything the library writes for a peer and reads back, in one         *)
(* specification: API documents, requests, media frames and packets, and   *)
(* the nonces of encrypted frames.  The four do not share state; one       *)
(* behaviour exercises one of them.                                        *)
(***************************************************************************)
EXTENDS ApiDocuments, Requests, FrameLayout, DaveFrames

VARIABLE format    \* which of them this behaviour exercises

wirevars == <<format, docvars, reqvars, layoutvars, fvars>>

NoDocuments ==
  /\ subject = "none" /\ focus = "none" /\ document = NoDocument
  /\ object = NoDocument /\ sent = NoDocument /\ phase = "none"
NoRequests ==
  /\ builder = "none" /\ options = NoOptions /\ request = NoRequest
  /\ status = "none" /\ result = "none"
NoMedia == media = NotEncrypted /\ transmitted = NotEncrypted /\ stage = "none"
NoFrames ==
  /\ m_ratchet = CHOOSE e \in Epochs : TRUE
  /\ m_truncated_nonce = 0 /\ network = {} /\ m_managers = <<>>

WireInit ==
  \/ format = "document" /\ DInit /\ NoRequests /\ NoMedia /\ NoFrames
  \/ format = "request" /\ RInit /\ NoDocuments /\ NoMedia /\ NoFrames
  \/ format = "media" /\ LInit /\ NoDocuments /\ NoRequests /\ NoFrames
  \/ format = "nonces" /\ FInit /\ NoDocuments /\ NoRequests /\ NoMedia

WireNext ==
  /\ UNCHANGED format
  /\ \/ /\ format = "document" /\ DNext
        /\ UNCHANGED <<reqvars, layoutvars, fvars>>
     \/ /\ format = "request" /\ RNext
        /\ UNCHANGED <<docvars, layoutvars, fvars>>
     \/ /\ format = "media" /\ LNext
        /\ UNCHANGED <<docvars, reqvars, fvars>>
     \/ /\ format = "nonces" /\ FNext
        /\ UNCHANGED <<docvars, reqvars, layoutvars>>

WireSpec == WireInit /\ [][WireNext]_wirevars
-----------------------------------------------------------------------------
\* What is written for a peer is read back by it: objects and variants
\* (ApiDocuments), frames and packets (FrameLayout); a frame that was not written
\* whole is refused.
ReadsBack ==
  /\ DocumentsReadBack /\ VariantsReadBack
  /\ PacketsReadBack /\ FramesReadBack /\ CutFramesAreRefused
=============================================================================
