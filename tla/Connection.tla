----------------------------- MODULE Connection -----------------------------
(***************************************************************************)
(* What a connection of the web client promises, without its sockets,      *)
(* timers and messages: it meets at most one partner, which is the device  *)
(* the user asked for; it is live only after it has met that partner; what *)
(* it seals leaves only while it lasts; and when it is over it stays over. *)
(***************************************************************************)
EXTENDS Naturals

CONSTANTS
    Wanted,     \* the device the user asked for
    Nobody

VARIABLES
    life,       \* "idle", "pairing", "live", "over"
    partner,    \* whom the session key is shared with
    sealed      \* sealed frames that left

vars == <<life, partner, sealed>>

Init == life = "idle" /\ partner = Nobody /\ sealed = 0

Start == life = "idle" /\ life' = "pairing" /\ UNCHANGED <<partner, sealed>>

Meet ==
    /\ life = "pairing" /\ partner = Nobody
    /\ partner' = Wanted
    /\ UNCHANGED <<life, sealed>>

\* The partners exchange messages: the connection may become live, or fall
\* back to a new round of the login, and this side may send.
Talk ==
    /\ life \in {"pairing", "live"} /\ partner = Wanted
    /\ life' \in {"pairing", "live"}
    /\ sealed' \in {sealed, sealed + 1}
    /\ UNCHANGED partner

End ==
    /\ life # "idle"
    /\ life' = "over" /\ partner' = Nobody
    /\ UNCHANGED sealed

Next == Start \/ Meet \/ Talk \/ End

Spec == Init /\ [][Next]_vars

=============================================================================
