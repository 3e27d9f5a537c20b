----------------------- MODULE MCPresenceNotifications -----------------------
(* TLC instance of PresenceNotifications: two processes, both events enabled. *)
EXTENDS PresenceNotifications

MCAllowed == {Offline, Online}

=============================================================================
