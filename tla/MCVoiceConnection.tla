------------------------- MODULE MCVoiceConnection -------------------------
(* VoiceConnection with the constants of its cfg.                          *)
EXTENDS VoiceConnection
=============================================================================
