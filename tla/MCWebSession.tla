---------------------------- MODULE MCWebSession ----------------------------
(* TLC instance of WebSession: the requested device, one other device. *)
EXTENDS WebSession

=============================================================================
