---------------------------- MODULE MCWireCodec -----------------------------
(* Every message type of both generated files.                             *)
EXTENDS WireCodec

M == INSTANCE MessageSchema
R == INSTANCE RendezvousSchema

AllTypes ==
    [T \in DOMAIN M!MessageTypes \cup DOMAIN R!RendezvousTypes |->
        IF T \in DOMAIN M!MessageTypes THEN M!MessageTypes[T] ELSE R!RendezvousTypes[T]]
AllNames == DOMAIN AllTypes

=============================================================================
