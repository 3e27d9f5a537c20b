--------------------------- MODULE MCFileTransfer ---------------------------
(* TLC instance of FileTransfer. *)
EXTENDS FileTransfer

=============================================================================
