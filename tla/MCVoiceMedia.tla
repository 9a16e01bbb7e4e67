---------------------------- MODULE MCVoiceMedia ----------------------------
(* A small instance of VoiceMedia for TLC: two frames and two sender loops. *)
EXTENDS VoiceMedia

CONSTANTS f1, f2, l1, l2

TwoFrames == {f1, f2}
TwoLoops == {l1, l2}
=============================================================================
