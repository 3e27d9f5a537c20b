----------------------------- MODULE WebSession -----------------------------
(***************************************************************************)
(* One connection of the web client: the sans-IO protocol core (class      *)
(* Session), the worker that owns its sockets, timer and media pipelines   *)
(* (class WorkerHost), the two trust links of the key exchange and the     *)
(* stream cipher.  The id server, the relay and the devices behind it are  *)
(* the environment: they may send any message at any time.                 *)
(*                                                                         *)
(* Every JavaScript task (a socket event, a timer, a UI command, the       *)
(* continuation of an await) is one action.  The hashes the login awaits   *)
(* are computed synchronously, so those awaits are microtasks and no other *)
(* task can run between them.                                              *)
(***************************************************************************)
EXTENDS Naturals, FiniteSets

CONSTANTS
    Peer,       \* the device id the user asked for
    Others,     \* other devices registered at the same id server
    None,       \* absent key / socket / cipher
    Saved,      \* TRUE iff a remembered hash is configured (savedHashHex)
    Canvas,     \* TRUE for a remote-desktop connection, FALSE for file/terminal
    MaxRelay,   \* bound: relay responses the id server sends
    MaxHash,    \* bound: login challenges the device sends
    MaxFrames,  \* bound: sealed frames the device sends
    MaxSealed   \* bound: sealed frames this side sends on UI request

Devices == {Peer} \cup Others

ASSUME PeerAssumption == Peer \notin Others /\ None \notin Devices
ASSUME ConfigAssumption == 
    Saved \in BOOLEAN /\ Canvas \in BOOLEAN
ASSUME BoundAssumption ==
    MaxRelay \in Nat /\ MaxHash \in Nat /\ MaxFrames \in Nat /\ MaxSealed \in Nat

VARIABLES
    \* WorkerHost
    stage,         \* where the async connect() stands
    tornDown, connectTimer,
    pipelines,     \* the video and audio pipelines exist
    ws1,           \* the id-server socket
    ws2,           \* the relay socket in use: its number, 0 for null
    relays,        \* relay sockets that are physically open
    opening,       \* openRelay() calls that still wait for their socket
    \* Session
    state, peerEdPk,
    cipher,        \* None, or the device that can open what we seal
    password,      \* config.password is not empty
    sendSeq, recvSeq,
    \* what left this worker
    loginTo,       \* <<device, credential>> of each LoginRequest sealed
    onWire,        \* sealed frames handed to a relay socket
    plain,         \* kinds of plaintext frames handed to a relay socket
    uiState,       \* last 'state' event posted to the UI
    \* environment and history
    orderly,       \* the id server answers once; the device sends one challenge
                   \* and answers the login after it.  Fixed in Init
    relayCount, hashCount, peerSeq,
    tampered,      \* the relay lost, replayed or forged a frame
    decryptFailed,
    userLeft       \* the UI sent 'disconnect'

host == <<stage, tornDown, connectTimer, pipelines, ws1, ws2, relays, opening>>
core == <<state, peerEdPk, cipher, password, sendSeq, recvSeq>>
sent == <<loginTo, onWire, plain>>
env  == <<orderly, relayCount, hashCount, peerSeq, tampered, decryptFailed,
          userLeft>>
vars == <<host, core, sent, uiState, env>>

Pairing == {"connecting", "rendezvous", "relay", "handshake", "login"}
Settled == {"needAccept", "streaming"}
Dead    == {"error", "closed"}
States  == Pairing \cup Settled \cup Dead

(***************************************************************************)
(* Signed statements.  A device's long-term key and its box key are named  *)
(* after the device.  The id server signs, for each device, that device's  *)
(* own key; a device signs its own box key but may claim any id, except    *)
(* that the requested device is honest about its id.                       *)
(***************************************************************************)
ServerPk == [by : {"server"}, id : Devices, pk : Devices]
SignedByServer == {s \in ServerPk : s.id = s.pk}
ForgedPk == [by : {"nobody"}, id : {Peer}, pk : Others]
RelayPks == SignedByServer \cup ForgedPk

SignedIds == {s \in [by : Devices, id : Devices, pk : Devices] :
                 s.by = s.pk /\ (s.by = Peer => s.id = Peer)}

VerifyServerRelayPkAnyId(s) == s.by = "server"   \* mutant: id not compared
\* Trust link 1: the server's signature over <<requested id, its key>>.
VerifyServerRelayPk(s) == s.by = "server" /\ s.id = Peer

\* Trust link 2: a signature under the key link 1 vouched for.
VerifyPeerSignedId(s) == s.by = peerEdPk

-----------------------------------------------------------------------------
(* WorkerHost.teardown(): idempotent; closes the socket in use only.       *)
Teardown ==
    /\ tornDown' = TRUE
    /\ connectTimer' = FALSE
    /\ pipelines' = (tornDown /\ pipelines)
    /\ ws1' = IF tornDown \/ ws1 = "null" THEN ws1 ELSE "closed"
    /\ ws2' = IF tornDown THEN ws2 ELSE 0
    /\ relays' = IF tornDown THEN relays ELSE relays \ {ws2}

\* mutant: the watchdog keeps running through a manual accept
SetStateKeepsTimer(s) ==
    /\ state' = s
    /\ uiState' = s
    /\ connectTimer' = (connectTimer /\ s # "streaming")

\* Session.setState + the worker's emit hook: a settled state stops the watchdog.
SetState(s) ==
    /\ state' = s
    /\ uiState' = s
    /\ connectTimer' = (connectTimer /\ s \in Pairing)

\* Session.fail(): 'error', then closeAll.
Fail ==
    /\ state' = "error"
    /\ uiState' = "error"
    /\ Teardown

\* mutant: a teardown nobody hears of
WorkerErrorSilent ==
    /\ Teardown
    /\ UNCHANGED <<state, uiState>>

\* An error posted by the worker itself; the session keeps its state.
WorkerError ==
    /\ uiState' = "error"
    /\ Teardown
    /\ UNCHANGED state

\* Session.sealSend(): the sequence number is used up even if no socket is left.
SealSend(n) ==
    /\ sendSeq' = sendSeq + n
    /\ onWire' = IF ws2 # 0 THEN onWire + n ELSE onWire

Init ==
    /\ stage = "idle" /\ tornDown = FALSE /\ connectTimer = FALSE
    /\ pipelines = FALSE /\ ws1 = "null" /\ ws2 = 0
    /\ relays = {} /\ opening = {}
    /\ state = "connecting" /\ peerEdPk = None /\ cipher = None
    /\ password \in BOOLEAN /\ sendSeq = 0 /\ recvSeq = 0
    /\ loginTo = {} /\ onWire = 0 /\ plain = {}
    /\ uiState = "none"
    /\ orderly \in BOOLEAN
    /\ relayCount = 0 /\ hashCount = 0 /\ peerSeq = 0
    /\ tampered = FALSE /\ decryptFailed = FALSE /\ userLeft = FALSE

-----------------------------------------------------------------------------
(* connect(), one action per stretch between two awaits *)

Connect ==
    /\ stage = "idle"
    /\ stage' = "ready"
    /\ uiState' = "connecting"
    /\ UNCHANGED <<tornDown, connectTimer, pipelines, ws1, ws2, relays, opening,
                   core, sent, env>>

\* A second 'connect' to the same worker is refused and changes nothing.
ConnectAgain ==
    /\ stage # "idle" /\ uiState # "error"
    /\ uiState' = "error"
    /\ UNCHANGED <<host, core, sent, env>>

ReadyDone ==
    /\ stage = "ready"
    /\ stage' = IF Canvas THEN "probe" ELSE "ws1"
    /\ UNCHANGED <<tornDown, connectTimer, pipelines, ws1, ws2, relays, opening,
                   core, sent, uiState, env>>

\* The pipelines are built without looking at tornDown.
ProbeDone ==
    /\ stage = "probe"
    /\ stage' = "ws1"
    /\ pipelines' = TRUE
    /\ UNCHANGED <<tornDown, connectTimer, ws1, ws2, relays, opening,
                   core, sent, uiState, env>>

\* mutant: no watchdog
IdSocketOpenedUnguarded ==
    /\ stage = "ws1"
    /\ stage' = "done" /\ ws1' = "open"
    /\ state' = "rendezvous" /\ uiState' = "rendezvous"
    /\ UNCHANGED <<connectTimer, tornDown, pipelines, ws2, relays, opening,
                   peerEdPk, cipher, password, sendSeq, recvSeq, sent, env>>

\* The id socket is open: build the session, start it, arm the watchdog.
IdSocketOpened ==
    /\ stage = "ws1"
    /\ \/ /\ tornDown
          /\ stage' = "aborted" /\ ws1' = "closed"
          /\ UNCHANGED <<connectTimer, state, uiState>>
       \/ /\ ~tornDown
          /\ stage' = "done" /\ ws1' = "open"
          /\ state' = "rendezvous" /\ uiState' = "rendezvous"
          /\ connectTimer' = TRUE
    /\ UNCHANGED <<tornDown, pipelines, ws2, relays, opening, peerEdPk, cipher,
                   password, sendSeq, recvSeq, sent, env>>

\* Any await of connect() may reject; the catch posts and tears down.
ConnectThrows ==
    /\ stage \in {"ready", "probe", "ws1"}
    /\ stage' = "aborted"
    /\ WorkerError
    /\ UNCHANGED <<opening, peerEdPk, cipher, password, sendSeq, recvSeq, sent, env>>

-----------------------------------------------------------------------------
(* Session.onSignalingBytes *)

RelayResponse(pk) ==
    /\ ws1 = "open" /\ relayCount < MaxRelay
    /\ orderly => relayCount = 0
    /\ relayCount' = relayCount + 1
    /\ IF state \in Dead
       THEN UNCHANGED <<host, core, uiState>>
       ELSE \/ /\ VerifyServerRelayPk(pk)
               /\ peerEdPk' = pk.pk
               /\ SetState("relay")
               /\ opening' = opening \cup {relayCount'}
               /\ UNCHANGED <<stage, tornDown, pipelines, ws1, ws2, relays>>
            \/ /\ ~VerifyServerRelayPk(pk)
               /\ Fail
               /\ UNCHANGED <<stage, opening, peerEdPk>>
    /\ UNCHANGED <<cipher, password, sendSeq, recvSeq, sent, hashCount, peerSeq,
                   tampered, decryptFailed, userLeft, orderly>>

\* Malformed bytes, a response without a signed key, or a punch-hole failure.
SignalingFailure ==
    /\ ws1 = "open" /\ state \notin Dead
    /\ Fail
    /\ UNCHANGED <<stage, opening, peerEdPk, cipher, password, sendSeq, recvSeq,
                   sent, env>>

\* The id server hangs up; after the hand-off to the relay that is expected.
IdSocketClosed ==
    /\ ws1 = "open"
    /\ \/ /\ state \in {"connecting", "rendezvous"}
          /\ uiState' = "error"
          /\ Teardown
       \/ /\ state \notin {"connecting", "rendezvous"}
          /\ ws1' = "closed"
          /\ UNCHANGED <<tornDown, connectTimer, pipelines, ws2, relays, uiState>>
    /\ UNCHANGED <<stage, opening, core, sent, env>>

-----------------------------------------------------------------------------
(* openRelay() and the relay socket *)

\* mutant: tornDown is not looked at after the await
RelaySocketOpenedLate(i) ==
    /\ i \in opening
    /\ opening' = opening \ {i}
    /\ ws2' = i /\ relays' = relays \cup {i}
    /\ plain' = plain \cup {"RequestRelay"}
    /\ SetState("handshake")
    /\ UNCHANGED <<stage, tornDown, pipelines, ws1, peerEdPk, cipher, password,
                   sendSeq, recvSeq, loginTo, onWire, env>>

RelaySocketOpened(i) ==
    /\ i \in opening
    /\ opening' = opening \ {i}
    /\ \/ /\ tornDown          \* opened too late: closed at once
          /\ UNCHANGED <<ws2, relays, plain, state, uiState, connectTimer>>
       \/ /\ ~tornDown
          /\ ws2' = i /\ relays' = relays \cup {i}
          /\ plain' = plain \cup {"RequestRelay"}
          /\ SetState("handshake")
    /\ UNCHANGED <<stage, tornDown, pipelines, ws1, peerEdPk, cipher, password,
                   sendSeq, recvSeq, loginTo, onWire, env>>

RelaySocketFailed(i) ==
    /\ i \in opening
    /\ opening' = opening \ {i}
    /\ WorkerError
    /\ UNCHANGED <<stage, peerEdPk, cipher, password, sendSeq, recvSeq, sent, env>>

RelaySocketClosed(i) ==
    /\ i \in relays
    /\ \/ /\ tornDown
          /\ relays' = relays \ {i}
          /\ UNCHANGED <<tornDown, connectTimer, pipelines, ws1, ws2, uiState>>
       \/ /\ ~tornDown
          /\ uiState' = IF state \in Dead THEN uiState ELSE "error"
          /\ tornDown' = TRUE /\ connectTimer' = FALSE /\ pipelines' = FALSE
          /\ ws1' = IF ws1 = "null" THEN ws1 ELSE "closed"
          /\ ws2' = 0 /\ relays' = relays \ {i, ws2}
    /\ UNCHANGED <<stage, opening, core, sent, env>>

\* Session.onFirstRelayFrame: a plaintext SignedId, answered with our sealed key.
FirstRelayFrame(i, s) ==
    /\ i \in relays /\ state \notin Dead /\ cipher = None
    /\ \/ /\ peerEdPk # None /\ VerifyPeerSignedId(s) /\ s.id = Peer
          /\ cipher' = s.pk
          /\ plain' = IF ws2 # 0 THEN plain \cup {"PublicKey"} ELSE plain
          /\ UNCHANGED <<tornDown, connectTimer, pipelines, ws1, ws2, relays,
                         state, uiState>>
       \/ /\ ~(peerEdPk # None /\ VerifyPeerSignedId(s) /\ s.id = Peer)
          /\ Fail
          /\ UNCHANGED <<cipher, plain>>
    /\ UNCHANGED <<stage, opening, peerEdPk, password, sendSeq, recvSeq,
                   loginTo, onWire, env>>

\* Anything else as first frame, or a plaintext that decodes to nothing.
BadFirstFrame(i) ==
    /\ i \in relays /\ state \notin Dead /\ cipher = None
    /\ Fail
    /\ UNCHANGED <<stage, opening, peerEdPk, cipher, password, sendSeq, recvSeq,
                   sent, env>>

-----------------------------------------------------------------------------
(* Frames after the key exchange: StreamCipher.open, then dispatch *)

ListeningUnkeyed(i) == i \in relays /\ state \notin Dead   \* mutant: no key needed
\* A frame may be handled: the socket is open, the session alive, the key agreed.
Listening(i) == i \in relays /\ state \notin Dead /\ cipher # None

OpenSeqCountsAll(short) == recvSeq + 1   \* mutant
\* StreamCipher.open: frames of at most one byte bypass the cipher.
OpenSeq(short) == IF short THEN recvSeq ELSE recvSeq + 1

\* The device seals its next frame, the relay delivers it, it opens.
InStep(i) ==
    /\ Listening(i) /\ peerSeq < MaxFrames
    /\ peerSeq' = peerSeq + 1
    /\ recvSeq' = OpenSeq(FALSE)
    /\ recvSeq' = peerSeq'

\* dispatch 'hash': the login, all in one task (see the header).
HashArrives(i) ==
    /\ InStep(i) /\ hashCount < MaxHash
    /\ orderly => state = "handshake"
    /\ hashCount' = hashCount + 1
    /\ SetState("login")
    /\ password' = FALSE
    /\ loginTo' = loginTo \cup {<<cipher, IF Saved THEN "saved"
                                          ELSE IF password THEN "password"
                                          ELSE "empty">>}
    /\ SealSend(1)
    /\ UNCHANGED <<stage, tornDown, pipelines, ws1, ws2, relays, opening,
                   peerEdPk, cipher, plain, relayCount, tampered, decryptFailed,
                   userLeft, orderly>>

\* dispatch 'login_response': peer_info, or an error that asks to wait.
LoginAnswer(i, answer) ==
    /\ InStep(i)
    /\ orderly => state \in {"login", "needAccept"}
    /\ SetState(answer)
    /\ UNCHANGED <<stage, tornDown, pipelines, ws1, ws2, relays, opening,
                   peerEdPk, cipher, password, sendSeq, sent, relayCount,
                   hashCount, tampered, decryptFailed, userLeft, orderly>>

\* dispatch 'close_reason': the device ends the connection.
CloseReason(i) ==
    /\ InStep(i)
    /\ state' = "closed" /\ uiState' = "closed"
    /\ Teardown
    /\ UNCHANGED <<stage, opening, peerEdPk, cipher, password, sendSeq, sent,
                   relayCount, hashCount, tampered, decryptFailed, userLeft, orderly>>

\* Every other message: forwarded to the UI (reply = 0; a rejected login is one
\* of these) or answered with one frame (reply = 1: video_received, test_delay).
Traffic(i, reply) ==
    /\ InStep(i)
    /\ SealSend(reply)
    /\ UNCHANGED <<host, state, peerEdPk, cipher, password, loginTo, plain,
                   uiState, relayCount, hashCount, tampered, decryptFailed,
                   userLeft, orderly>>

\* An opened frame that does not decode.
MalformedMessage(i) ==
    /\ InStep(i)
    /\ Fail
    /\ UNCHANGED <<stage, opening, peerEdPk, cipher, password, sendSeq, sent,
                   relayCount, hashCount, tampered, decryptFailed, userLeft, orderly>>

\* A frame of at most one byte, outside the cipher's numbering: an empty message
\* changes nothing, a byte that does not decode ends the session.
KeepAlive(i) ==
    /\ Listening(i)
    /\ recvSeq' = OpenSeq(TRUE)
    /\ \/ UNCHANGED <<host, state, uiState>>
       \/ Fail /\ UNCHANGED <<stage, opening>>
    /\ UNCHANGED <<peerEdPk, cipher, password, sendSeq, sent, env>>

\* The next frame does not open: it was lost, replayed, forged, or the two
\* ends count differently.
DecryptFails(i) ==
    /\ Listening(i)
    /\ \/ /\ tampered' = TRUE              \* a frame the device did not just seal
          /\ peerSeq' = peerSeq
       \/ /\ peerSeq < MaxFrames /\ peerSeq' = peerSeq + 1
          /\ recvSeq + 1 # peerSeq'
          /\ tampered' = tampered
    /\ recvSeq' = OpenSeq(FALSE)
    /\ decryptFailed' = TRUE
    /\ Fail
    /\ UNCHANGED <<stage, opening, peerEdPk, cipher, password, sendSeq, sent,
                   relayCount, hashCount, userLeft, orderly>>

\* The relay drops a frame of the device.
FrameLost ==
    /\ cipher # None /\ peerSeq < MaxFrames
    /\ peerSeq' = peerSeq + 1
    /\ tampered' = TRUE
    /\ UNCHANGED <<host, core, sent, uiState, relayCount, hashCount,
                   decryptFailed, userLeft, orderly>>

-----------------------------------------------------------------------------
(* Timer and UI commands *)

\* The watchdog; it is only ever armed while the session is pairing.
ConnectTimeout ==
    /\ connectTimer /\ state \in Pairing
    /\ WorkerError
    /\ UNCHANGED <<stage, opening, peerEdPk, cipher, password, sendSeq, recvSeq,
                   sent, env>>

\* handle('disconnect'): Session.disconnect if there is one, then teardown.
Disconnect ==
    /\ stage # "idle"
    /\ userLeft' = TRUE
    /\ \/ /\ stage = "done" /\ state # "closed"
          /\ state' = "closed" /\ uiState' = "closed"
       \/ /\ ~(stage = "done" /\ state # "closed")
          /\ UNCHANGED <<state, uiState>>
    /\ Teardown
    /\ UNCHANGED <<stage, opening, peerEdPk, cipher, password, sendSeq, recvSeq,
                   sent, relayCount, hashCount, peerSeq, tampered, decryptFailed,
                   orderly>>

\* handle(any control): sealed and sent, dropped before the cipher exists.
Control ==
    /\ stage = "done" /\ cipher # None /\ sendSeq < MaxSealed
    /\ SealSend(1)
    /\ UNCHANGED <<host, state, peerEdPk, cipher, password, recvSeq, loginTo,
                   plain, uiState, env>>

-----------------------------------------------------------------------------
ConnectStep == Connect \/ ConnectAgain \/ ReadyDone \/ ProbeDone
               \/ IdSocketOpened \/ ConnectThrows

SignalingStep == \/ \E pk \in RelayPks : RelayResponse(pk)
                 \/ SignalingFailure
                 \/ IdSocketClosed

RelaySocketStep == \E i \in 1..MaxRelay :
    RelaySocketOpened(i) \/ RelaySocketFailed(i) \/ RelaySocketClosed(i)

FrameStep == \E i \in 1..MaxRelay :
    \/ \E s \in SignedIds : FirstRelayFrame(i, s)
    \/ BadFirstFrame(i)
    \/ HashArrives(i)
    \/ \E answer \in Settled : LoginAnswer(i, answer)
    \/ CloseReason(i)
    \/ \E reply \in {0, 1} : Traffic(i, reply)
    \/ MalformedMessage(i)
    \/ KeepAlive(i)
    \/ DecryptFails(i)

LocalStep == FrameLost \/ ConnectTimeout \/ Disconnect \/ Control

Next == ConnectStep \/ SignalingStep \/ RelaySocketStep \/ FrameStep \/ LocalStep

Spec == Init /\ [][Next]_vars

\* Fairness: promises settle (a browser resolves or rejects every await of
\* connect() and every WebSocket it opens) and an armed timer fires.
Fairness ==
    /\ WF_vars(Connect)
    /\ WF_vars(ReadyDone \/ ProbeDone \/ IdSocketOpened \/ ConnectThrows)
    /\ WF_vars(\E i \in 1..MaxRelay : RelaySocketOpened(i) \/ RelaySocketFailed(i))
    /\ WF_vars(ConnectTimeout)

LiveSpec == Spec /\ Fairness

-----------------------------------------------------------------------------
(* Properties *)

FlagType ==
    /\ tornDown \in BOOLEAN /\ connectTimer \in BOOLEAN /\ pipelines \in BOOLEAN
    /\ password \in BOOLEAN
    /\ tampered \in BOOLEAN /\ decryptFailed \in BOOLEAN /\ userLeft \in BOOLEAN
    /\ orderly \in BOOLEAN

StateType ==
    /\ stage \in {"idle", "ready", "probe", "ws1", "done", "aborted"}
    /\ ws1 \in {"null", "open", "closed"}
    /\ state \in States
    /\ uiState \in States \cup {"none"}

SocketType ==
    /\ ws2 \in 0..MaxRelay
    /\ relays \subseteq 1..MaxRelay /\ opening \subseteq 1..MaxRelay

KeyType ==
    /\ peerEdPk \in Devices \cup {None} /\ cipher \in Devices \cup {None}
    /\ loginTo \subseteq Devices \X {"saved", "password", "empty"}
    /\ plain \subseteq {"RequestRelay", "PublicKey"}

CountType ==
    /\ sendSeq \in Nat /\ recvSeq \in Nat /\ onWire \in Nat
    /\ relayCount \in 0..MaxRelay /\ hashCount \in 0..MaxHash
    /\ peerSeq \in 0..MaxFrames

\* Every variable keeps its type; in particular a login is only ever sealed for
\* a device, never under a missing key.
TypeOK == FlagType /\ StateType /\ SocketType /\ KeyType /\ CountType

\* Whatever the id server, the relay and the other devices send, the session key
\* is shared with the requested device only, and a login goes to nobody else.
CredentialOnlyToPeer ==
    /\ cipher \in {None, Peer}
    /\ \A l \in loginTo : l[1] = Peer

\* A worker that stopped for any reason other than the user's own disconnect has
\* told the UI so: the screen is never left at a live state.  (A second relay
\* response leaves an unowned socket behind, which can still revive the screen;
\* hence orderly, here and below.)
StopIsTold == orderly /\ tornDown /\ ~userLeft => uiState \in Dead

\* The watchdog runs exactly while a session is pairing: it cannot cut off a
\* manual accept or a live stream, and, in an orderly connection, no stalled
\* pairing is left without it.
WatchdogExact ==
    /\ connectTimer => state \in Pairing /\ ~tornDown
    /\ orderly /\ stage = "done" /\ ~tornDown /\ state \in Pairing => connectTimer

\* Once a session has existed, teardown leaves no socket open, no relay socket
\* that opens later is kept, and no pipeline survives.
Released ==
    orderly /\ tornDown /\ stage = "done" => ws1 # "open" /\ relays = {} /\ ~pipelines

\* The cipher's counters stay in step: as long as the connection lives every
\* sealed frame was handed to the relay, and a received frame fails to open only
\* if the relay lost, replayed or forged one.
CipherInStep ==
    /\ ~tornDown => onWire = sendSeq
    /\ decryptFailed => tampered

\* A session that ended never comes back to life, and after teardown nothing is
\* handed to a relay socket any more, whatever arrives late.
NothingAfterTheEnd ==
    [][ /\ (state \in Dead) => (state' \in Dead)
        /\ tornDown => UNCHANGED <<onWire, plain>> ]_vars

\* A connect attempt never spins for ever: it ends, streams, or waits for the
\* remote user.
AttemptSettles == (stage = "ready") ~> (tornDown \/ state \in Settled)

\* Refinement mapping.  The worker's torn-down flag and the session's final
\* states both mean that the connection is over, whatever a socket that
\* nobody owns any more still does to the session behind it.
Life ==
    IF tornDown \/ state \in Dead THEN "over"
    ELSE IF stage = "idle" THEN "idle"
    ELSE IF state \in Settled THEN "live" ELSE "pairing"

Abstract ==
    INSTANCE Connection WITH
        Wanted <- Peer, Nobody <- None, life <- Life,
        partner <- (IF Life = "over" THEN None ELSE cipher), sealed <- onWire

\* The worker and its session implement Connection: in every interleaving of
\* socket events, timers and commands, orderly environment or not, each step is
\* a step of a connection that meets only the requested device, sends sealed
\* frames only to it and only while it lasts, and never resumes.
ImplementsConnection == Abstract!Spec

=============================================================================
