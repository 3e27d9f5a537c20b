----------------------------- MODULE MCVoiceCall -----------------------------
(* TLC instance of VoiceCall. *)
EXTENDS VoiceCall

=============================================================================
