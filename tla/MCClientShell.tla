---------------------------- MODULE MCClientShell ----------------------------
(* TLC instance of ClientShell: the delays of the code, in ticks of about 15 s *)
(* and shortened to the shape that matters (growing, then constant).           *)
EXTENDS ClientShell

MCDelays == <<1, 2>>

=============================================================================
