-------------------------- MODULE WebSessionProofs --------------------------
(***************************************************************************)
(* Proofs about WebSession, for any number of devices, relay responses,    *)
(* challenges and frames.                                                  *)
(***************************************************************************)
EXTENDS WebSession, TLAPS

(***************************************************************************)
(* Type correctness, one group of variables at a time: a leaf that mixes   *)
(* Boolean variables with arithmetic is beyond the provers.                *)
(***************************************************************************)

\* The flags of the worker and of the session stay Boolean under every handler.
LEMMA FlagTypeStep == TypeOK /\ [Next]_vars => FlagType'
<1> SUFFICES ASSUME FlagType, [Next]_vars PROVE FlagType'
    BY DEF TypeOK
<1> USE DEF FlagType, host, core, sent, env, Teardown, SetState, Fail,
            WorkerError, Pairing
<1>1. CASE ConnectStep
  BY <1>1 DEF ConnectStep, Connect, ConnectAgain, ReadyDone, ProbeDone,
              IdSocketOpened, ConnectThrows
<1>2. CASE SignalingStep
  <2>1. ASSUME NEW pk \in RelayPks, RelayResponse(pk) PROVE FlagType'
    <3>1. CASE state \in Dead
      BY <2>1, <3>1 DEF RelayResponse
    <3>2. CASE state \notin Dead /\ VerifyServerRelayPk(pk)
      BY <2>1, <3>2 DEF RelayResponse
    <3>3. CASE state \notin Dead /\ ~VerifyServerRelayPk(pk)
      BY <2>1, <3>3 DEF RelayResponse
    <3> QED BY <3>1, <3>2, <3>3
  <2>2. CASE SignalingFailure \/ IdSocketClosed
    BY <2>2 DEF SignalingFailure, IdSocketClosed
  <2> QED BY <1>2, <2>1, <2>2 DEF SignalingStep
<1>3. CASE RelaySocketStep
  BY <1>3 DEF RelaySocketStep, RelaySocketOpened, RelaySocketFailed,
              RelaySocketClosed
<1>4. CASE FrameStep
  BY <1>4 DEF FrameStep, FirstRelayFrame, BadFirstFrame, HashArrives,
              LoginAnswer, CloseReason, Traffic, MalformedMessage, KeepAlive,
              DecryptFails
<1>5. CASE LocalStep
  BY <1>5 DEF LocalStep, FrameLost, ConnectTimeout, Disconnect, Control
<1>6. CASE UNCHANGED vars
  BY <1>6 DEF vars
<1> QED BY <1>1, <1>2, <1>3, <1>4, <1>5, <1>6 DEF Next

\* The four state labels keep their ranges: no handler invents a session state.
LEMMA StateTypeStep == TypeOK /\ [Next]_vars => StateType'
<1> SUFFICES ASSUME StateType, [Next]_vars PROVE StateType'
    BY DEF TypeOK
<1> USE DEF StateType, States, Pairing, Settled, Dead, host, core, sent, env,
            Teardown, SetState, Fail, WorkerError
<1>1. CASE ConnectStep
  BY <1>1 DEF ConnectStep, Connect, ConnectAgain, ReadyDone, ProbeDone,
              IdSocketOpened, ConnectThrows
<1>2. CASE SignalingStep
  BY <1>2 DEF SignalingStep, RelayResponse, SignalingFailure, IdSocketClosed
<1>3. CASE RelaySocketStep
  BY <1>3 DEF RelaySocketStep, RelaySocketOpened, RelaySocketFailed,
              RelaySocketClosed
<1>4. CASE FrameStep
  BY <1>4 DEF FrameStep, FirstRelayFrame, BadFirstFrame, HashArrives,
              LoginAnswer, CloseReason, Traffic, MalformedMessage, KeepAlive,
              DecryptFails
<1>5. CASE LocalStep
  BY <1>5 DEF LocalStep, FrameLost, ConnectTimeout, Disconnect, Control
<1>6. CASE UNCHANGED vars
  BY <1>6 DEF vars
<1> QED BY <1>1, <1>2, <1>3, <1>4, <1>5, <1>6 DEF Next

\* teardown() leaves the relay sockets well-typed.
LEMMA TeardownSockets ==
    ASSUME SocketType, Teardown
    PROVE  ws2' \in 0..MaxRelay /\ relays' \subseteq 1..MaxRelay
<1>1. CASE tornDown
  BY <1>1 DEF Teardown, SocketType
<1>2. CASE ~tornDown
  BY <1>2, BoundAssumption DEF Teardown, SocketType
<1> QED BY <1>1, <1>2

\* The relay sockets in use, open and opening are always among those asked for.
LEMMA SocketTypeStep == TypeOK /\ [Next]_vars => SocketType'
<1> SUFFICES ASSUME SocketType, CountType, [Next]_vars PROVE SocketType'
    BY DEF TypeOK
<1> USE BoundAssumption DEF SocketType, host, core, sent, env, WorkerError, Fail,
                            SetState
<1>1. CASE ConnectStep
  BY <1>1, TeardownSockets
     DEF ConnectStep, Connect, ConnectAgain, ReadyDone, ProbeDone,
         IdSocketOpened, ConnectThrows
<1>2. CASE SignalingStep
  <2>1. ASSUME NEW pk \in RelayPks, RelayResponse(pk) PROVE SocketType'
    <3>1. relayCount' \in 1..MaxRelay
      BY <2>1 DEF RelayResponse, CountType
    <3> QED BY <2>1, <3>1, TeardownSockets DEF RelayResponse
  <2>2. CASE SignalingFailure \/ IdSocketClosed
    BY <2>2, TeardownSockets DEF SignalingFailure, IdSocketClosed
  <2> QED BY <1>2, <2>1, <2>2 DEF SignalingStep
<1>3. CASE RelaySocketStep
  <2> PICK i \in 1..MaxRelay :
        RelaySocketOpened(i) \/ RelaySocketFailed(i) \/ RelaySocketClosed(i)
    BY <1>3 DEF RelaySocketStep
  <2>1. CASE RelaySocketOpened(i)
    <3>1. CASE UNCHANGED <<ws2, relays>>
      BY <2>1, <3>1 DEF RelaySocketOpened
    <3>2. CASE ws2' = i /\ relays' = relays \cup {i}
      BY <2>1, <3>2 DEF RelaySocketOpened
    <3> QED BY <2>1, <3>1, <3>2 DEF RelaySocketOpened
  <2>2. CASE RelaySocketFailed(i)
    BY <2>2, TeardownSockets DEF RelaySocketFailed
  <2>3. CASE RelaySocketClosed(i)
    <3>1. CASE relays' = relays \ {i} /\ UNCHANGED ws2
      BY <2>3, <3>1 DEF RelaySocketClosed
    <3>2. CASE ws2' = 0 /\ relays' = relays \ {i, ws2}
      BY <2>3, <3>2 DEF RelaySocketClosed
    <3> QED BY <2>3, <3>1, <3>2 DEF RelaySocketClosed
  <2> QED BY <2>1, <2>2, <2>3
<1>4. CASE FrameStep
  BY <1>4, TeardownSockets
     DEF FrameStep, FirstRelayFrame, BadFirstFrame, HashArrives, LoginAnswer,
         CloseReason, Traffic, MalformedMessage, KeepAlive, DecryptFails
<1>5. CASE LocalStep
  BY <1>5, TeardownSockets
     DEF LocalStep, FrameLost, ConnectTimeout, Disconnect, Control
<1>6. CASE UNCHANGED vars
  BY <1>6 DEF vars
<1> QED BY <1>1, <1>2, <1>3, <1>4, <1>5, <1>6 DEF Next

\* Keys belong to devices, and a login is only ever sealed under a device's key.
LEMMA KeyTypeStep == TypeOK /\ [Next]_vars => KeyType'
<1> SUFFICES ASSUME KeyType, [Next]_vars PROVE KeyType'
    BY DEF TypeOK
<1> USE DEF KeyType, host, core, sent, env, Teardown, Fail, WorkerError
<1>1. CASE ConnectStep
  BY <1>1 DEF ConnectStep, Connect, ConnectAgain, ReadyDone, ProbeDone,
              IdSocketOpened, ConnectThrows
<1>2. CASE SignalingStep
  <2>1. ASSUME NEW pk \in RelayPks, RelayResponse(pk) PROVE KeyType'
    <3>1. pk.pk \in Devices
      BY DEF RelayPks, SignedByServer, ServerPk, ForgedPk, Devices
    <3> QED BY <2>1, <3>1 DEF RelayResponse
  <2>2. CASE SignalingFailure \/ IdSocketClosed
    BY <2>2 DEF SignalingFailure, IdSocketClosed
  <2> QED BY <1>2, <2>1, <2>2 DEF SignalingStep
<1>3. CASE RelaySocketStep
  BY <1>3 DEF RelaySocketStep, RelaySocketOpened, RelaySocketFailed,
              RelaySocketClosed
<1>4. CASE FrameStep
  <2> PICK i \in 1..MaxRelay :
        \/ \E s \in SignedIds : FirstRelayFrame(i, s)
        \/ BadFirstFrame(i)
        \/ HashArrives(i)
        \/ \E answer \in Settled : LoginAnswer(i, answer)
        \/ CloseReason(i)
        \/ \E reply \in {0, 1} : Traffic(i, reply)
        \/ MalformedMessage(i)
        \/ KeepAlive(i)
        \/ DecryptFails(i)
    BY <1>4 DEF FrameStep
  <2>1. ASSUME NEW s \in SignedIds, FirstRelayFrame(i, s) PROVE KeyType'
    <3>1. s.pk \in Devices
      BY DEF SignedIds
    <3> QED BY <2>1, <3>1 DEF FirstRelayFrame
  <2>2. CASE HashArrives(i)
    <3>1. cipher \in Devices
      BY <2>2 DEF HashArrives, InStep, Listening
    <3>2. PICK c \in {"saved", "password", "empty"} :
            loginTo' = loginTo \cup {<<cipher, c>>}
      BY <2>2, Zenon DEF HashArrives
    <3>3. UNCHANGED <<peerEdPk, cipher, plain>>
      BY <2>2 DEF HashArrives
    <3> QED BY <3>1, <3>2, <3>3
  <2>3. CASE \/ BadFirstFrame(i) \/ CloseReason(i) \/ MalformedMessage(i)
             \/ KeepAlive(i) \/ DecryptFails(i)
    BY <2>3 DEF BadFirstFrame, CloseReason, MalformedMessage, KeepAlive,
                DecryptFails
  <2>4. ASSUME NEW answer \in Settled, LoginAnswer(i, answer) PROVE KeyType'
    BY <2>4 DEF LoginAnswer
  <2>5. ASSUME NEW reply \in {0, 1}, Traffic(i, reply) PROVE KeyType'
    BY <2>5 DEF Traffic
  <2> QED BY <2>1, <2>2, <2>3, <2>4, <2>5
<1>5. CASE LocalStep
  BY <1>5 DEF LocalStep, FrameLost, ConnectTimeout, Disconnect, Control
<1>6. CASE UNCHANGED vars
  BY <1>6 DEF vars
<1> QED BY <1>1, <1>2, <1>3, <1>4, <1>5, <1>6 DEF Next

\* The cipher's counters and the environment's bounds keep their ranges.
LEMMA CountTypeStep == TypeOK /\ [Next]_vars => CountType'
<1> SUFFICES ASSUME CountType, [Next]_vars PROVE CountType'
    BY DEF TypeOK
<1> USE BoundAssumption DEF CountType, host, core, sent, env, Teardown, Fail,
                            WorkerError, SealSend, InStep, OpenSeq
<1>1. CASE ConnectStep
  BY <1>1 DEF ConnectStep, Connect, ConnectAgain, ReadyDone, ProbeDone,
              IdSocketOpened, ConnectThrows
<1>2. CASE SignalingStep
  BY <1>2 DEF SignalingStep, RelayResponse, SignalingFailure, IdSocketClosed
<1>3. CASE RelaySocketStep
  BY <1>3 DEF RelaySocketStep, RelaySocketOpened, RelaySocketFailed,
              RelaySocketClosed
<1>4. CASE FrameStep
  BY <1>4 DEF FrameStep, FirstRelayFrame, BadFirstFrame, HashArrives,
              LoginAnswer, CloseReason, Traffic, MalformedMessage, KeepAlive,
              DecryptFails
<1>5. CASE LocalStep
  BY <1>5 DEF LocalStep, FrameLost, ConnectTimeout, Disconnect, Control
<1>6. CASE UNCHANGED vars
  BY <1>6 DEF vars
<1> QED BY <1>1, <1>2, <1>3, <1>4, <1>5, <1>6 DEF Next

\* The worker's and the session's variables always have their types.
THEOREM TypeCorrect == Spec => []TypeOK
<1>1. ASSUME Init PROVE TypeOK
  <2> USE <1>1, PeerAssumption, BoundAssumption DEF Init
  <2>1. FlagType
    BY DEF FlagType
  <2>2. StateType
    BY DEF StateType, States, Pairing
  <2>3. SocketType
    BY DEF SocketType
  <2>4. KeyType
    BY DEF KeyType
  <2>5. CountType
    BY DEF CountType
  <2> QED BY <2>1, <2>2, <2>3, <2>4, <2>5 DEF TypeOK
<1>2. TypeOK /\ [Next]_vars => TypeOK'
  BY FlagTypeStep, StateTypeStep, SocketTypeStep, KeyTypeStep, CountTypeStep
     DEF TypeOK
<1> QED BY <1>1, <1>2, PTL DEF Spec

(***************************************************************************)
(* The two trust links.                                                    *)
(***************************************************************************)

\* What CredentialOnlyToPeer needs to be inductive: the long-term key that link 2
\* checks signatures against is the requested device's.
TrustInv == peerEdPk \in {None, Peer} /\ CredentialOnlyToPeer

\* Every handler keeps both trust links: what a signature vouches for is the
\* requested device's key.
LEMMA TrustStep == TrustInv /\ [Next]_vars => TrustInv'
<1> SUFFICES ASSUME TrustInv, [Next]_vars PROVE TrustInv'
    OBVIOUS
<1> USE DEF TrustInv, CredentialOnlyToPeer, host, core, sent, env, Teardown,
            Fail, WorkerError
<1>1. CASE ConnectStep
  BY <1>1 DEF ConnectStep, Connect, ConnectAgain, ReadyDone, ProbeDone,
              IdSocketOpened, ConnectThrows
<1>2. CASE SignalingStep
  <2>1. ASSUME NEW pk \in RelayPks, RelayResponse(pk) PROVE TrustInv'
    <3>1. VerifyServerRelayPk(pk) => pk.pk = Peer
      BY DEF RelayPks, SignedByServer, ServerPk, ForgedPk, VerifyServerRelayPk
    <3> QED BY <2>1, <3>1 DEF RelayResponse
  <2>2. CASE SignalingFailure \/ IdSocketClosed
    BY <2>2 DEF SignalingFailure, IdSocketClosed
  <2> QED BY <1>2, <2>1, <2>2 DEF SignalingStep
<1>3. CASE RelaySocketStep
  BY <1>3 DEF RelaySocketStep, RelaySocketOpened, RelaySocketFailed,
              RelaySocketClosed
<1>4. CASE FrameStep
  <2> PICK i \in 1..MaxRelay :
        \/ \E s \in SignedIds : FirstRelayFrame(i, s)
        \/ BadFirstFrame(i)
        \/ HashArrives(i)
        \/ \E answer \in Settled : LoginAnswer(i, answer)
        \/ CloseReason(i)
        \/ \E reply \in {0, 1} : Traffic(i, reply)
        \/ MalformedMessage(i)
        \/ KeepAlive(i)
        \/ DecryptFails(i)
    BY <1>4 DEF FrameStep
  <2>1. ASSUME NEW s \in SignedIds, FirstRelayFrame(i, s) PROVE TrustInv'
    <3>1. peerEdPk # None /\ VerifyPeerSignedId(s) => s.pk = Peer
      BY DEF SignedIds, VerifyPeerSignedId
    <3> QED BY <2>1, <3>1 DEF FirstRelayFrame
  <2>2. CASE HashArrives(i)
    <3>1. cipher = Peer
      BY <2>2 DEF HashArrives, InStep, Listening
    <3>2. PICK c : loginTo' = loginTo \cup {<<Peer, c>>}
      BY <2>2, <3>1, Zenon DEF HashArrives
    <3>3. UNCHANGED <<peerEdPk, cipher>>
      BY <2>2 DEF HashArrives
    <3> QED BY <3>1, <3>2, <3>3
  <2>3. CASE \/ BadFirstFrame(i) \/ CloseReason(i) \/ MalformedMessage(i)
             \/ KeepAlive(i) \/ DecryptFails(i)
    BY <2>3 DEF BadFirstFrame, CloseReason, MalformedMessage, KeepAlive,
                DecryptFails
  <2>4. ASSUME NEW answer \in Settled, LoginAnswer(i, answer) PROVE TrustInv'
    BY <2>4 DEF LoginAnswer
  <2>5. ASSUME NEW reply \in {0, 1}, Traffic(i, reply) PROVE TrustInv'
    BY <2>5 DEF Traffic
  <2> QED BY <2>1, <2>2, <2>3, <2>4, <2>5
<1>5. CASE LocalStep
  BY <1>5 DEF LocalStep, FrameLost, ConnectTimeout, Disconnect, Control
<1>6. CASE UNCHANGED vars
  BY <1>6 DEF vars
<1> QED BY <1>1, <1>2, <1>3, <1>4, <1>5, <1>6 DEF Next

\* Every reachable state satisfies TrustInv.
LEMMA TrustInvariant == Spec => []TrustInv
<1>1. Init => TrustInv
  BY DEF Init, TrustInv, CredentialOnlyToPeer
<1> QED BY <1>1, TrustStep, PTL DEF Spec

\* The session key is shared with the requested device only, and no login goes to
\* anyone else, whatever the id server, the relay and the other devices send.
THEOREM Authenticated == Spec => []CredentialOnlyToPeer
<1>1. TrustInv => CredentialOnlyToPeer
  BY DEF TrustInv
<1> QED BY <1>1, TrustInvariant, PTL

(***************************************************************************)
(* The end of a connection.                                                *)
(***************************************************************************)

\* A session that ended has been torn down, and a torn-down worker holds no relay
\* socket: what NothingAfterTheEnd rests on.
EndInv ==
    /\ state \in Dead => tornDown
    /\ tornDown => ws2 = 0

\* Every handler keeps EndInv, revives no ended session and sends nothing after
\* teardown.
LEMMA EndStep ==
    ASSUME EndInv, [Next]_vars
    PROVE  /\ EndInv'
           /\ state \in Dead => state' \in Dead
           /\ tornDown => UNCHANGED <<onWire, plain>>
<1> USE DEF EndInv, Dead, host, core, sent, env, Teardown, Fail, WorkerError,
            SetState, SealSend, InStep, Listening
<1>1. CASE ConnectStep
  BY <1>1 DEF ConnectStep, Connect, ConnectAgain, ReadyDone, ProbeDone,
              IdSocketOpened, ConnectThrows
<1>2. CASE SignalingStep
  BY <1>2 DEF SignalingStep, RelayResponse, SignalingFailure, IdSocketClosed
<1>3. CASE RelaySocketStep
  BY <1>3 DEF RelaySocketStep, RelaySocketOpened, RelaySocketFailed,
              RelaySocketClosed
<1>4. CASE FrameStep
  <2> PICK i \in 1..MaxRelay :
        \/ \E s \in SignedIds : FirstRelayFrame(i, s)
        \/ BadFirstFrame(i)
        \/ HashArrives(i)
        \/ \E answer \in Settled : LoginAnswer(i, answer)
        \/ CloseReason(i)
        \/ \E reply \in {0, 1} : Traffic(i, reply)
        \/ MalformedMessage(i)
        \/ KeepAlive(i)
        \/ DecryptFails(i)
    BY <1>4 DEF FrameStep
  <2>1. CASE \E s \in SignedIds : FirstRelayFrame(i, s)
    BY <2>1 DEF FirstRelayFrame
  <2>2. CASE HashArrives(i)
    BY <2>2 DEF HashArrives
  <2>3. CASE \E answer \in Settled : LoginAnswer(i, answer)
    BY <2>3 DEF LoginAnswer, Settled
  <2>4. CASE \E reply \in {0, 1} : Traffic(i, reply)
    BY <2>4 DEF Traffic
  <2>5. CASE BadFirstFrame(i) \/ CloseReason(i) \/ MalformedMessage(i)
    BY <2>5 DEF BadFirstFrame, CloseReason, MalformedMessage
  <2>6. CASE KeepAlive(i)
    BY <2>6 DEF KeepAlive
  <2>7. CASE DecryptFails(i)
    BY <2>7 DEF DecryptFails
  <2> QED BY <2>1, <2>2, <2>3, <2>4, <2>5, <2>6, <2>7
<1>5. CASE LocalStep
  BY <1>5 DEF LocalStep, FrameLost, ConnectTimeout, Disconnect, Control
<1>6. CASE UNCHANGED vars
  BY <1>6 DEF vars
<1> QED BY <1>1, <1>2, <1>3, <1>4, <1>5, <1>6 DEF Next

\* An ended session never comes back to life and a torn-down worker hands nothing
\* more to a relay socket, even with duplicate relay responses.
THEOREM EndIsFinal == Spec => NothingAfterTheEnd
<1>1. Init => EndInv
  BY DEF Init, EndInv, Dead
<1>2. EndInv /\ [Next]_vars => EndInv'
  BY EndStep
<1>3. EndInv /\ [Next]_vars =>
        [ /\ (state \in Dead) => (state' \in Dead)
          /\ tornDown => UNCHANGED <<onWire, plain>> ]_vars
  BY EndStep
<1> QED BY <1>1, <1>2, <1>3, PTL DEF Spec, NothingAfterTheEnd

(***************************************************************************)
(* The life of a connection: how the worker's torn-down flag, its sockets  *)
(* and timer, the stage of connect() and the session's state fit together. *)
(***************************************************************************)

\* The end: an ended session has been torn down, and a torn-down worker has no
\* socket in use, no timer and, if there ever was a session, no pipeline.
EndLife ==
    /\ state \in Dead => tornDown
    /\ tornDown => ws2 = 0 /\ ws1 # "open" /\ ~connectTimer
    /\ tornDown /\ stage = "done" => ~pipelines

\* The beginning: before connect() is through there is no session, and before the
\* first relay response there is no relay socket and no key.
EarlyLife ==
    /\ stage = "idle" => ~tornDown
    /\ stage # "done" => /\ ws1 # "open" /\ ~connectTimer
                         /\ state = "connecting" /\ relayCount = 0
    /\ relayCount = 0 => /\ opening = {} /\ relays = {} /\ cipher = None
                         /\ state \in {"connecting", "rendezvous"} \cup Dead

\* In between: a settled session has its key, the watchdog watches a pairing, and
\* whoever has a relay socket or a key can send.
MidLife ==
    /\ state \in Settled => cipher # None
    /\ connectTimer => state \in Pairing
    /\ ~tornDown /\ (relays # {} \/ cipher # None) => ws2 # 0

LifeInv == EndLife /\ EarlyLife /\ MidLife

\* Every handler keeps the three ages of a connection consistent.
LEMMA LifeStep == TypeOK /\ LifeInv /\ [Next]_vars => LifeInv'
<1> SUFFICES ASSUME TypeOK, LifeInv, [Next]_vars PROVE LifeInv'
    OBVIOUS
<1> USE BoundAssumption
    DEF TypeOK, FlagType, StateType, SocketType, KeyType, CountType,
        LifeInv, EndLife, EarlyLife, MidLife, States, Pairing, Settled, Dead,
        host, core, sent, env, Teardown, Fail, WorkerError, SetState, SealSend,
        InStep, Listening
<1>1. CASE ConnectStep
  <2>1. CASE Connect
    BY <2>1 DEF Connect
  <2>2. CASE ConnectAgain
    BY <2>2 DEF ConnectAgain
  <2>3. CASE ReadyDone
    BY <2>3 DEF ReadyDone
  <2>4. CASE ProbeDone
    BY <2>4 DEF ProbeDone
  <2>5. CASE IdSocketOpened
    BY <2>5 DEF IdSocketOpened
  <2>6. CASE ConnectThrows
    BY <2>6 DEF ConnectThrows
  <2> QED BY <1>1, <2>1, <2>2, <2>3, <2>4, <2>5, <2>6 DEF ConnectStep
<1>2. CASE SignalingStep
  <2>1. ASSUME NEW pk \in RelayPks, RelayResponse(pk) PROVE LifeInv'
    BY <2>1 DEF RelayResponse
  <2>2. CASE SignalingFailure
    BY <2>2 DEF SignalingFailure
  <2>3. CASE IdSocketClosed
    <3>1. CASE state \in {"connecting", "rendezvous"}
      BY <2>3, <3>1 DEF IdSocketClosed
    <3>2. CASE state \notin {"connecting", "rendezvous"}
      BY <2>3, <3>2 DEF IdSocketClosed
    <3> QED BY <3>1, <3>2
  <2> QED BY <1>2, <2>1, <2>2, <2>3 DEF SignalingStep
<1>3. CASE RelaySocketStep
  <2> PICK i \in 1..MaxRelay :
        RelaySocketOpened(i) \/ RelaySocketFailed(i) \/ RelaySocketClosed(i)
    BY <1>3 DEF RelaySocketStep
  <2>1. CASE RelaySocketOpened(i)
    BY <2>1 DEF RelaySocketOpened
  <2>2. CASE RelaySocketFailed(i)
    BY <2>2 DEF RelaySocketFailed
  <2>3. CASE RelaySocketClosed(i)
    BY <2>3 DEF RelaySocketClosed
  <2> QED BY <2>1, <2>2, <2>3
<1>4. CASE FrameStep
  <2> PICK i \in 1..MaxRelay :
        \/ \E s \in SignedIds : FirstRelayFrame(i, s)
        \/ BadFirstFrame(i)
        \/ HashArrives(i)
        \/ \E answer \in Settled : LoginAnswer(i, answer)
        \/ CloseReason(i)
        \/ \E reply \in {0, 1} : Traffic(i, reply)
        \/ MalformedMessage(i)
        \/ KeepAlive(i)
        \/ DecryptFails(i)
    BY <1>4 DEF FrameStep
  <2>1. ASSUME NEW s \in SignedIds, FirstRelayFrame(i, s) PROVE LifeInv'
    BY <2>1 DEF FirstRelayFrame
  <2>2. CASE HashArrives(i)
    BY <2>2 DEF HashArrives
  <2>3. ASSUME NEW answer \in Settled, LoginAnswer(i, answer) PROVE LifeInv'
    BY <2>3 DEF LoginAnswer
  <2>4. ASSUME NEW reply \in {0, 1}, Traffic(i, reply) PROVE LifeInv'
    BY <2>4 DEF Traffic
  <2>5. CASE BadFirstFrame(i)
    BY <2>5 DEF BadFirstFrame
  <2>6. CASE CloseReason(i)
    BY <2>6 DEF CloseReason
  <2>7. CASE MalformedMessage(i)
    BY <2>7 DEF MalformedMessage
  <2>8. CASE KeepAlive(i)
    BY <2>8 DEF KeepAlive
  <2>9. CASE DecryptFails(i)
    BY <2>9 DEF DecryptFails
  <2> QED BY <2>1, <2>2, <2>3, <2>4, <2>5, <2>6, <2>7, <2>8, <2>9
<1>5. CASE LocalStep
  <2>1. CASE FrameLost
    BY <2>1 DEF FrameLost
  <2>2. CASE ConnectTimeout
    BY <2>2 DEF ConnectTimeout
  <2>3. CASE Disconnect
    BY <2>3 DEF Disconnect
  <2>4. CASE Control
    BY <2>4 DEF Control
  <2> QED BY <1>5, <2>1, <2>2, <2>3, <2>4 DEF LocalStep
<1>6. CASE UNCHANGED vars
  BY <1>6 DEF vars
<1> QED BY <1>1, <1>2, <1>3, <1>4, <1>5, <1>6 DEF Next
(***************************************************************************)
(* An orderly connection: one relay response, one challenge.               *)
(***************************************************************************)

\* One relay socket at most is opening or open, and while it opens the session
\* waits in "relay": no handler can move it behind the watchdog's back.
OneRelay ==
    /\ relays \subseteq {ws2}
    /\ \A i, j \in opening : i = j
    /\ opening # {} => relays = {} /\ (tornDown \/ state = "relay")

\* What WatchdogExact and StopIsTold add to it.
Attended ==
    /\ stage = "done" /\ ~tornDown /\ state \in Pairing => connectTimer
    /\ tornDown /\ ~userLeft => uiState \in Dead

OrderlyInv == orderly => OneRelay /\ Attended

\* Every handler keeps an orderly connection attended.
LEMMA OrderlyStep ==
    TypeOK /\ LifeInv /\ OrderlyInv /\ [Next]_vars => OrderlyInv'
<1> SUFFICES ASSUME TypeOK, LifeInv, OrderlyInv, [Next]_vars PROVE OrderlyInv'
    OBVIOUS
<1> USE BoundAssumption
    DEF TypeOK, FlagType, StateType, SocketType, KeyType, CountType,
        LifeInv, EndLife, EarlyLife, MidLife, OrderlyInv, OneRelay, Attended,
        States, Pairing, Settled, Dead,
        host, core, sent, env, Teardown, Fail, WorkerError, SetState, SealSend,
        InStep, Listening
<1>1. CASE ConnectStep
  <2>1. CASE Connect
    BY <2>1 DEF Connect
  <2>2. CASE ConnectAgain
    BY <2>2 DEF ConnectAgain
  <2>3. CASE ReadyDone
    BY <2>3 DEF ReadyDone
  <2>4. CASE ProbeDone
    BY <2>4 DEF ProbeDone
  <2>5. CASE IdSocketOpened
    BY <2>5 DEF IdSocketOpened
  <2>6. CASE ConnectThrows
    BY <2>6 DEF ConnectThrows
  <2> QED BY <1>1, <2>1, <2>2, <2>3, <2>4, <2>5, <2>6 DEF ConnectStep
<1>2. CASE SignalingStep
  <2>1. ASSUME NEW pk \in RelayPks, RelayResponse(pk) PROVE OrderlyInv'
    BY <2>1 DEF RelayResponse
  <2>2. CASE SignalingFailure
    BY <2>2 DEF SignalingFailure
  <2>3. CASE IdSocketClosed
    BY <2>3 DEF IdSocketClosed
  <2> QED BY <1>2, <2>1, <2>2, <2>3 DEF SignalingStep
<1>3. CASE RelaySocketStep
  <2> PICK i \in 1..MaxRelay :
        RelaySocketOpened(i) \/ RelaySocketFailed(i) \/ RelaySocketClosed(i)
    BY <1>3 DEF RelaySocketStep
  <2>1. CASE RelaySocketOpened(i)
    BY <2>1 DEF RelaySocketOpened
  <2>2. CASE RelaySocketFailed(i)
    BY <2>2 DEF RelaySocketFailed
  <2>3. CASE RelaySocketClosed(i)
    <3>1. CASE tornDown
      BY <2>3, <3>1 DEF RelaySocketClosed
    <3>2. CASE ~tornDown
      <4>1. OneRelay' \/ ~orderly
        BY <2>3, <3>2 DEF RelaySocketClosed
      <4>2. Attended' \/ ~orderly
        BY <2>3, <3>2 DEF RelaySocketClosed
      <4> QED BY <2>3, <4>1, <4>2 DEF RelaySocketClosed
    <3> QED BY <3>1, <3>2
  <2> QED BY <2>1, <2>2, <2>3
<1>4. CASE FrameStep
  <2> PICK i \in 1..MaxRelay :
        \/ \E s \in SignedIds : FirstRelayFrame(i, s)
        \/ BadFirstFrame(i)
        \/ HashArrives(i)
        \/ \E answer \in Settled : LoginAnswer(i, answer)
        \/ CloseReason(i)
        \/ \E reply \in {0, 1} : Traffic(i, reply)
        \/ MalformedMessage(i)
        \/ KeepAlive(i)
        \/ DecryptFails(i)
    BY <1>4 DEF FrameStep
  <2>1. ASSUME NEW s \in SignedIds, FirstRelayFrame(i, s) PROVE OrderlyInv'
    <3>1. CASE UNCHANGED <<tornDown, connectTimer, ws2, relays, state, uiState>>
      <4>1. UNCHANGED <<stage, opening, orderly, userLeft>>
        BY <2>1 DEF FirstRelayFrame
      <4> QED BY <3>1, <4>1
    <3>2. CASE Fail
      BY <2>1, <3>2 DEF FirstRelayFrame
    <3> QED BY <2>1, <3>1, <3>2 DEF FirstRelayFrame
  <2>2. CASE HashArrives(i)
    BY <2>2 DEF HashArrives
  <2>3. ASSUME NEW answer \in Settled, LoginAnswer(i, answer) PROVE OrderlyInv'
    BY <2>3 DEF LoginAnswer
  <2>4. ASSUME NEW reply \in {0, 1}, Traffic(i, reply) PROVE OrderlyInv'
    BY <2>4 DEF Traffic
  <2>5. CASE BadFirstFrame(i)
    BY <2>5 DEF BadFirstFrame
  <2>6. CASE CloseReason(i)
    BY <2>6 DEF CloseReason
  <2>7. CASE MalformedMessage(i)
    BY <2>7 DEF MalformedMessage
  <2>8. CASE KeepAlive(i)
    <3>1. CASE UNCHANGED <<host, state, uiState>>
      BY <2>8, <3>1 DEF KeepAlive
    <3>2. CASE Fail
      BY <2>8, <3>2 DEF KeepAlive
    <3> QED BY <2>8, <3>1, <3>2 DEF KeepAlive
  <2>9. CASE DecryptFails(i)
    BY <2>9 DEF DecryptFails
  <2> QED BY <2>1, <2>2, <2>3, <2>4, <2>5, <2>6, <2>7, <2>8, <2>9
<1>5. CASE LocalStep
  <2>1. CASE FrameLost
    BY <2>1 DEF FrameLost
  <2>2. CASE ConnectTimeout
    BY <2>2 DEF ConnectTimeout
  <2>3. CASE Disconnect
    BY <2>3 DEF Disconnect
  <2>4. CASE Control
    BY <2>4 DEF Control
  <2> QED BY <1>5, <2>1, <2>2, <2>3, <2>4 DEF LocalStep
<1>6. CASE UNCHANGED vars
  BY <1>6 DEF vars
<1> QED BY <1>1, <1>2, <1>3, <1>4, <1>5, <1>6 DEF Next

\* The counters of the two ciphers, as long as nobody interfered.
CountInv ==
    /\ ~tornDown => onWire = sendSeq
    /\ ~tampered => recvSeq = peerSeq /\ ~decryptFailed

\* Every handler keeps the counters in step.
LEMMA CountStep == TypeOK /\ LifeInv /\ CountInv /\ [Next]_vars => CountInv'
<1> SUFFICES ASSUME TypeOK, LifeInv, CountInv, [Next]_vars PROVE CountInv'
    OBVIOUS
<1> USE BoundAssumption
    DEF TypeOK, FlagType, SocketType, CountType, LifeInv, EndLife, EarlyLife,
        MidLife, CountInv, host, core, sent, env, Teardown, Fail, WorkerError,
        SetState, SealSend, InStep, Listening, OpenSeq
<1>1. CASE ConnectStep
  <2>1. CASE Connect
    BY <2>1 DEF Connect
  <2>2. CASE ConnectAgain
    BY <2>2 DEF ConnectAgain
  <2>3. CASE ReadyDone
    BY <2>3 DEF ReadyDone
  <2>4. CASE ProbeDone
    BY <2>4 DEF ProbeDone
  <2>5. CASE IdSocketOpened
    BY <2>5 DEF IdSocketOpened
  <2>6. CASE ConnectThrows
    BY <2>6 DEF ConnectThrows
  <2> QED BY <1>1, <2>1, <2>2, <2>3, <2>4, <2>5, <2>6 DEF ConnectStep
<1>2. CASE SignalingStep
  <2>1. ASSUME NEW pk \in RelayPks, RelayResponse(pk) PROVE CountInv'
    BY <2>1 DEF RelayResponse
  <2>2. CASE SignalingFailure
    BY <2>2 DEF SignalingFailure
  <2>3. CASE IdSocketClosed
    BY <2>3 DEF IdSocketClosed
  <2> QED BY <1>2, <2>1, <2>2, <2>3 DEF SignalingStep
<1>3. CASE RelaySocketStep
  <2> PICK i \in 1..MaxRelay :
        RelaySocketOpened(i) \/ RelaySocketFailed(i) \/ RelaySocketClosed(i)
    BY <1>3 DEF RelaySocketStep
  <2>1. CASE RelaySocketOpened(i)
    BY <2>1 DEF RelaySocketOpened
  <2>2. CASE RelaySocketFailed(i)
    BY <2>2 DEF RelaySocketFailed
  <2>3. CASE RelaySocketClosed(i)
    BY <2>3 DEF RelaySocketClosed
  <2> QED BY <2>1, <2>2, <2>3
<1>4. CASE FrameStep
  <2> PICK i \in 1..MaxRelay :
        \/ \E s \in SignedIds : FirstRelayFrame(i, s)
        \/ BadFirstFrame(i)
        \/ HashArrives(i)
        \/ \E answer \in Settled : LoginAnswer(i, answer)
        \/ CloseReason(i)
        \/ \E reply \in {0, 1} : Traffic(i, reply)
        \/ MalformedMessage(i)
        \/ KeepAlive(i)
        \/ DecryptFails(i)
    BY <1>4 DEF FrameStep
  <2>1. ASSUME NEW s \in SignedIds, FirstRelayFrame(i, s) PROVE CountInv'
    BY <2>1 DEF FirstRelayFrame
  <2>2. CASE HashArrives(i)
    BY <2>2 DEF HashArrives
  <2>3. ASSUME NEW answer \in Settled, LoginAnswer(i, answer) PROVE CountInv'
    BY <2>3 DEF LoginAnswer
  <2>4. ASSUME NEW reply \in {0, 1}, Traffic(i, reply) PROVE CountInv'
    BY <2>4 DEF Traffic
  <2>5. CASE BadFirstFrame(i)
    BY <2>5 DEF BadFirstFrame
  <2>6. CASE CloseReason(i)
    BY <2>6 DEF CloseReason
  <2>7. CASE MalformedMessage(i)
    BY <2>7 DEF MalformedMessage
  <2>8. CASE KeepAlive(i)
    BY <2>8 DEF KeepAlive
  <2>9. CASE DecryptFails(i)
    BY <2>9 DEF DecryptFails
  <2> QED BY <2>1, <2>2, <2>3, <2>4, <2>5, <2>6, <2>7, <2>8, <2>9
<1>5. CASE LocalStep
  <2>1. CASE FrameLost
    BY <2>1 DEF FrameLost
  <2>2. CASE ConnectTimeout
    BY <2>2 DEF ConnectTimeout
  <2>3. CASE Disconnect
    BY <2>3 DEF Disconnect
  <2>4. CASE Control
    BY <2>4 DEF Control
  <2> QED BY <1>5, <2>1, <2>2, <2>3, <2>4 DEF LocalStep
<1>6. CASE UNCHANGED vars
  BY <1>6 DEF vars
<1> QED BY <1>1, <1>2, <1>3, <1>4, <1>5, <1>6 DEF Next

\* The three invariants together, and that every connection keeps them.
ConnectionInv == LifeInv /\ OrderlyInv /\ CountInv

\* Every reachable state satisfies the inductive invariant.
LEMMA ConnectionInvariant == Spec => []ConnectionInv
<1>1. Init => ConnectionInv
  BY DEF Init, ConnectionInv, LifeInv, EndLife, EarlyLife, MidLife, OrderlyInv,
         OneRelay, Attended, CountInv, Pairing, Settled, Dead
<1>2. TypeOK /\ ConnectionInv /\ [Next]_vars => ConnectionInv'
  BY LifeStep, OrderlyStep, CountStep DEF ConnectionInv
<1> QED BY <1>1, <1>2, TypeCorrect, PTL DEF Spec

\* A worker that stopped without the user's disconnect has told the UI so.
THEOREM StopTold == Spec => []StopIsTold
<1>1. ConnectionInv => StopIsTold
  BY DEF ConnectionInv, OrderlyInv, Attended, StopIsTold
<1> QED BY <1>1, ConnectionInvariant, PTL

\* The watchdog cannot cut off a settled session, and no stalled pairing of an
\* orderly connection is left without it.
THEOREM Watched == Spec => []WatchdogExact
<1>1. ConnectionInv => WatchdogExact
  BY DEF ConnectionInv, LifeInv, EndLife, MidLife, OrderlyInv, Attended,
         WatchdogExact
<1> QED BY <1>1, ConnectionInvariant, PTL

\* teardown() of a session leaves no socket open and no pipeline running.
THEOREM AllReleased == Spec => []Released
<1>1. TypeOK /\ ConnectionInv => Released
  BY DEF TypeOK, SocketType, ConnectionInv, LifeInv, EndLife, OrderlyInv, OneRelay,
         Released
<1> QED BY <1>1, TypeCorrect, ConnectionInvariant, PTL

\* Every sealed frame of a living connection left, and a frame fails to open only
\* when the relay lost, replayed or forged one.
THEOREM CiphersInStep == Spec => []CipherInStep
<1>1. TypeOK /\ ConnectionInv => CipherInStep
  BY DEF TypeOK, FlagType, ConnectionInv, CountInv, CipherInStep
<1> QED BY <1>1, TypeCorrect, ConnectionInvariant, PTL

(***************************************************************************)
(* The refinement: the worker and its session implement Connection.        *)
(***************************************************************************)

\* The connection is over exactly when the worker is torn down: the session's own
\* end never comes first.
LEMMA OverIsTornDown == LifeInv => (Life = "over" <=> tornDown)
BY DEF LifeInv, EndLife, Life

\* The other three values of the refinement mapping, read off the detailed state.
LEMMA LifeValues ==
    ASSUME LifeInv, ~tornDown
    PROVE  /\ stage = "idle" => Life = "idle"
           /\ stage # "idle" /\ state \in Settled => Life = "live"
           /\ stage # "idle" /\ state \notin Settled => Life = "pairing"
BY DEF LifeInv, EndLife, EarlyLife, Life, Settled, Dead

\* A step that tears the worker down, sending nothing, ends the abstract
\* connection, or finds it already over.
LEMMA EndsAbstract ==
    ASSUME LifeInv, LifeInv', stage # "idle", tornDown', UNCHANGED onWire
    PROVE  Abstract!End
<1>1. Life # "idle"
  BY LifeValues, OverIsTornDown
<1>2. Life' = "over"
  BY OverIsTornDown DEF Life
<1> QED BY <1>1, <1>2 DEF Abstract!End

\* The four kinds of step a connection takes.  The worker tears down, or is torn
\* down and sends nothing;
Ends == tornDown' /\ stage # "idle" /\ UNCHANGED onWire
\* or it lives on with the key it has, and seals a frame only under a key;
GoesOn ==
    /\ ~tornDown /\ ~tornDown' /\ stage # "idle" /\ stage' # "idle"
    /\ UNCHANGED cipher
    /\ onWire' = onWire \/ (cipher # None /\ onWire' = onWire + 1)
\* or it accepts a key while it has none;
Meets ==
    /\ ~tornDown /\ ~tornDown' /\ stage # "idle" /\ UNCHANGED <<stage, state, onWire>>
    /\ cipher = None /\ cipher' # None
\* or connect() is called.
Starts ==
    /\ ~tornDown /\ stage = "idle" /\ stage' # "idle"
    /\ UNCHANGED <<tornDown, state, cipher, onWire>>

\* Every handler does one of the four.
LEMMA StepKinds ==
    ASSUME TypeOK, LifeInv, [Next]_vars
    PROVE  Ends \/ GoesOn \/ Meets \/ Starts \/ UNCHANGED vars
<1> USE BoundAssumption, PeerAssumption
    DEF TypeOK, FlagType, SocketType, CountType, LifeInv, EndLife, EarlyLife, MidLife,
        Ends, GoesOn, Meets, Starts, Dead, Devices,
        host, core, sent, env, Teardown, Fail, WorkerError, SetState, SealSend,
        InStep, Listening
<1>1. CASE ConnectStep
  <2>1. CASE Connect
    BY <2>1 DEF Connect
  <2>2. CASE ConnectAgain
    BY <2>2 DEF ConnectAgain
  <2>3. CASE ReadyDone
    BY <2>3 DEF ReadyDone
  <2>4. CASE ProbeDone
    BY <2>4 DEF ProbeDone
  <2>5. CASE IdSocketOpened
    BY <2>5 DEF IdSocketOpened
  <2>6. CASE ConnectThrows
    BY <2>6 DEF ConnectThrows
  <2> QED BY <1>1, <2>1, <2>2, <2>3, <2>4, <2>5, <2>6 DEF ConnectStep
<1>2. CASE SignalingStep
  <2>1. ASSUME NEW pk \in RelayPks, RelayResponse(pk) PROVE Ends \/ GoesOn \/ Meets
    BY <2>1 DEF RelayResponse
  <2>2. CASE SignalingFailure
    BY <2>2 DEF SignalingFailure
  <2>3. CASE IdSocketClosed
    BY <2>3 DEF IdSocketClosed
  <2> QED BY <1>2, <2>1, <2>2, <2>3 DEF SignalingStep
<1>3. CASE RelaySocketStep
  <2> PICK i \in 1..MaxRelay :
        RelaySocketOpened(i) \/ RelaySocketFailed(i) \/ RelaySocketClosed(i)
    BY <1>3 DEF RelaySocketStep
  <2>1. CASE RelaySocketOpened(i)
    BY <2>1 DEF RelaySocketOpened
  <2>2. CASE RelaySocketFailed(i)
    BY <2>2 DEF RelaySocketFailed
  <2>3. CASE RelaySocketClosed(i)
    BY <2>3 DEF RelaySocketClosed
  <2> QED BY <2>1, <2>2, <2>3
<1>4. CASE FrameStep
  <2> PICK i \in 1..MaxRelay :
        \/ \E s \in SignedIds : FirstRelayFrame(i, s)
        \/ BadFirstFrame(i)
        \/ HashArrives(i)
        \/ \E answer \in Settled : LoginAnswer(i, answer)
        \/ CloseReason(i)
        \/ \E reply \in {0, 1} : Traffic(i, reply)
        \/ MalformedMessage(i)
        \/ KeepAlive(i)
        \/ DecryptFails(i)
    BY <1>4 DEF FrameStep
  <2>1. ASSUME NEW s \in SignedIds, FirstRelayFrame(i, s) PROVE Ends \/ GoesOn \/ Meets
    BY <2>1 DEF FirstRelayFrame
  <2>2. CASE HashArrives(i)
    BY <2>2 DEF HashArrives
  <2>3. ASSUME NEW answer \in Settled, LoginAnswer(i, answer) PROVE Ends \/ GoesOn \/ Meets
    BY <2>3 DEF LoginAnswer
  <2>4. ASSUME NEW reply \in {0, 1}, Traffic(i, reply) PROVE Ends \/ GoesOn \/ Meets
    BY <2>4 DEF Traffic
  <2>5. CASE BadFirstFrame(i)
    BY <2>5 DEF BadFirstFrame
  <2>6. CASE CloseReason(i)
    BY <2>6 DEF CloseReason
  <2>7. CASE MalformedMessage(i)
    BY <2>7 DEF MalformedMessage
  <2>8. CASE KeepAlive(i)
    BY <2>8 DEF KeepAlive
  <2>9. CASE DecryptFails(i)
    BY <2>9 DEF DecryptFails
  <2> QED BY <2>1, <2>2, <2>3, <2>4, <2>5, <2>6, <2>7, <2>8, <2>9
<1>5. CASE LocalStep
  <2>1. CASE FrameLost
    BY <2>1 DEF FrameLost
  <2>2. CASE ConnectTimeout
    BY <2>2 DEF ConnectTimeout
  <2>3. CASE Disconnect
    BY <2>3 DEF Disconnect
  <2>4. CASE Control
    BY <2>4 DEF Control
  <2> QED BY <1>5, <2>1, <2>2, <2>3, <2>4 DEF LocalStep
<1> QED BY <1>1, <1>2, <1>3, <1>4, <1>5 DEF Next

\* A connection that lives on talks to the requested device or does nothing that
\* Connection can see.
LEMMA GoesOnAbstract ==
    ASSUME TrustInv, LifeInv, LifeInv', GoesOn
    PROVE  [Abstract!Next]_(Abstract!vars)
<1> USE DEF GoesOn
<1>1. Life \in {"pairing", "live"} /\ Life' \in {"pairing", "live"}
  BY DEF Life, LifeInv, EndLife
<1>2. CASE cipher = None
  <2>1. state \notin Settled /\ state' \notin Settled
    BY <1>2 DEF LifeInv, MidLife
  <2> QED BY <1>1, <1>2, <2>1 DEF Life, Abstract!vars
<1>3. CASE cipher # None
  <2>1. cipher = Peer
    BY <1>3 DEF TrustInv, CredentialOnlyToPeer
  <2> QED BY <1>1, <2>1 DEF Abstract!Next, Abstract!Talk
<1> QED BY <1>2, <1>3

\* Initial states map to initial states.
LEMMA RefinesInit == Init => Abstract!Init
BY DEF Init, Abstract!Init, Life, Dead

\* Every step maps to a step of Connection or to a stutter.
LEMMA RefinesStep ==
    ASSUME TypeOK, TrustInv, LifeInv, TrustInv', LifeInv', [Next]_vars
    PROVE  [Abstract!Next]_(Abstract!vars)
<1>1. CASE Ends
  BY <1>1, EndsAbstract DEF Ends, Abstract!Next
<1>2. CASE GoesOn
  BY <1>2, GoesOnAbstract
<1>3. CASE Meets
  <2>1. cipher' = Peer
    BY <1>3 DEF Meets, TrustInv, CredentialOnlyToPeer
  <2>2. Life = "pairing" /\ Life' = "pairing"
    BY <1>3 DEF Meets, Life, LifeInv, EndLife, MidLife
  <2> QED BY <1>3, <2>1, <2>2 DEF Meets, Abstract!Next, Abstract!Meet
<1>4. CASE Starts
  <2>1. cipher = None /\ state = "connecting"
    BY <1>4 DEF Starts, LifeInv, EarlyLife
  <2>2. Life = "idle" /\ Life' = "pairing"
    BY <1>4, <2>1 DEF Starts, Life, Dead, Settled
  <2> QED BY <1>4, <2>1, <2>2 DEF Starts, Abstract!Next, Abstract!Start
<1>5. CASE UNCHANGED vars
  BY <1>5 DEF vars, host, core, sent, env, Life, Abstract!vars
<1> QED BY <1>1, <1>2, <1>3, <1>4, <1>5, StepKinds

\* The worker and its session implement Connection: they meet only the requested
\* device, send sealed frames only to it and only while the connection lasts, and
\* never resume one that is over, in every environment.
THEOREM SessionImplementsConnection == Spec => ImplementsConnection
<1>1. TypeOK /\ TrustInv /\ LifeInv /\ TrustInv' /\ LifeInv' /\ [Next]_vars
        => [Abstract!Next]_(Abstract!vars)
  BY RefinesStep
<1>2. ConnectionInv => LifeInv
  BY DEF ConnectionInv
<1> QED BY RefinesInit, <1>1, <1>2, TypeCorrect, TrustInvariant, ConnectionInvariant,
           PTL DEF Spec, ImplementsConnection, Abstract!Spec

=============================================================================
