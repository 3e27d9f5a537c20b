------------------------------ MODULE VoiceCall ------------------------------
(***************************************************************************)
(* A voice call: the shell's call button and microphone (ui/app.ts,        *)
(* VoiceCallAttemptOwner, VoiceCaptureController), the session in the      *)
(* worker, and the remote device.  Shell and worker exchange messages over *)
(* two FIFO channels (postMessage), worker and device over two more (the   *)
(* sealed relay stream), so each acts on what the others said earlier.     *)
(*                                                                         *)
(* Attempts are numbered; an attempt's number stands for the millisecond   *)
(* timestamp of its request.                                               *)
(***************************************************************************)
EXTENDS Naturals, Sequences

CONSTANTS
    MaxCalls,   \* bound: call attempts of the user
    MaxQueue    \* bound: messages waiting in one channel

ASSUME VoiceBounds == MaxCalls \in Nat /\ MaxQueue \in Nat

VARIABLES
    \* the shell
    voiceCallState,  \* "idle", "preparing", "waiting", "connected"
    prep,            \* an owned prepare() waits for the microphone
    mic,             \* "off", "ready" (stream held), "capturing"
    attempt,         \* number of the latest attempt
    audioAllowed,    \* permissions.Audio
    alive,           \* the session has not been torn down
    \* the session in the worker
    pending,         \* pendingVoiceCallTimestamp, 0 for null
    accepted,        \* voiceCallAccepted
    live,            \* history: the request whose acceptance was last believed
    \* channels
    toWorker, toShell, toPeer, fromPeer,
    \* the device (external)
    ringing,         \* request waiting for its user, 0 for none
    agreed           \* history: attempts the device's user accepted

shell   == <<voiceCallState, prep, mic, attempt, audioAllowed, alive>>
session == <<pending, accepted, live>>
chans   == <<toWorker, toShell, toPeer, fromPeer>>
device  == <<ringing, agreed>>
vars    == <<shell, session, chans, device>>

Calls == 1..MaxCalls
UiStates == {"idle", "preparing", "waiting", "connected"}
Commands == {[c |-> "start", n |-> k] : k \in Calls} \cup {[c |-> "close", n |-> 0]}
            \cup {[c |-> "frame", n |-> 0]}
Events == {"waiting", "accepted", "rejected", "closed"}
Requests == {[m |-> "request", n |-> k] : k \in Calls} \cup {[m |-> "hangup", n |-> 0]}
            \cup {[m |-> "audio", n |-> k] : k \in Calls}
Answers == {[m |-> "response", n |-> k, ok |-> b] : k \in Calls, b \in BOOLEAN}
           \cup {[m |-> "hangup", n |-> 0, ok |-> FALSE]}

Room(q) == Len(q) < MaxQueue

Init ==
    /\ voiceCallState = "idle" /\ prep = FALSE /\ mic = "off" /\ attempt = 0
    /\ audioAllowed = TRUE /\ alive = TRUE
    /\ pending = 0 /\ accepted = FALSE /\ live = 0
    /\ toWorker = <<>> /\ toShell = <<>> /\ toPeer = <<>> /\ fromPeer = <<>>
    /\ ringing = 0 /\ agreed = {}

-----------------------------------------------------------------------------
(* The shell *)

\* mutant: an abandoned prepare() keeps its claim
EndCallKeepsAttempt(post) ==
    /\ voiceCallState' = "idle" /\ mic' = "off"
    /\ toWorker' = IF post THEN Append(toWorker, [c |-> "close", n |-> 0])
                   ELSE toWorker
    /\ UNCHANGED prep

\* endVoiceCall: the attempt is disowned, the microphone released, and the peer
\* is told if there was a call to end.
EndCall(post) ==
    /\ voiceCallState' = "idle" /\ prep' = FALSE /\ mic' = "off"
    /\ toWorker' = IF post THEN Append(toWorker, [c |-> "close", n |-> 0])
                   ELSE toWorker

InCall == voiceCallState \in {"waiting", "connected"}

\* toggleVoiceCall, up to the microphone request.
Toggle ==
    /\ alive /\ voiceCallState # "preparing" /\ Room(toWorker)
    /\ \/ /\ InCall
          /\ EndCall(TRUE)
          /\ UNCHANGED attempt
       \/ /\ ~InCall /\ audioAllowed /\ attempt < MaxCalls
          /\ attempt' = attempt + 1
          /\ voiceCallState' = "preparing" /\ prep' = TRUE /\ mic' = "off"
          /\ UNCHANGED toWorker
    /\ UNCHANGED <<audioAllowed, alive, session, toShell, toPeer, fromPeer, device>>

\* The microphone request of the owned attempt is settled.
Prepared(ok) ==
    /\ alive /\ prep /\ Room(toWorker)
    /\ prep' = FALSE
    /\ \/ /\ voiceCallState # "preparing"      \* left alone, stream and all
          /\ mic' = IF ok THEN "ready" ELSE "off"
          /\ UNCHANGED <<voiceCallState, toWorker>>
       \/ /\ voiceCallState = "preparing" /\ ~(ok /\ audioAllowed)
          /\ mic' = "off" /\ voiceCallState' = "idle"
          /\ UNCHANGED toWorker
       \/ /\ voiceCallState = "preparing" /\ ok /\ audioAllowed
          /\ mic' = "ready" /\ voiceCallState' = "waiting"
          /\ toWorker' = Append(toWorker, [c |-> "start", n |-> attempt])
    /\ UNCHANGED <<attempt, audioAllowed, alive, session, toShell, toPeer,
                   fromPeer, device>>

\* onVoiceCall('accepted'): capture starts if a microphone is held and idle;
\* otherwise, or if the processor cannot be built, the call is ended.
ShellAccepted ==
    /\ Head(toShell) = "accepted"
    /\ \/ /\ mic = "ready"
          /\ mic' = "capturing" /\ voiceCallState' = "connected"
          /\ UNCHANGED <<prep, toWorker>>
       \/ EndCall(InCall)

\* onVoiceCall('waiting'): follows the worker, whatever the shell was doing.
ShellWaiting ==
    /\ Head(toShell) = "waiting"
    /\ voiceCallState' = "waiting"
    /\ UNCHANGED <<prep, mic, toWorker>>

\* onVoiceCall('rejected' or 'closed').
ShellEnded ==
    /\ Head(toShell) \in {"rejected", "closed"}
    /\ EndCall(FALSE)

ShellEvent ==
    /\ alive /\ toShell # <<>> /\ Room(toWorker)
    /\ toShell' = Tail(toShell)
    /\ ShellAccepted \/ ShellWaiting \/ ShellEnded
    /\ UNCHANGED <<attempt, audioAllowed, alive, session, toPeer, fromPeer, device>>

\* pump(): one encoded chunk of the running capture.
CaptureFrame ==
    /\ alive /\ mic = "capturing" /\ Room(toWorker)
    /\ toWorker' = Append(toWorker, [c |-> "frame", n |-> 0])
    /\ UNCHANGED <<shell, session, toShell, toPeer, fromPeer, device>>

\* fail(): the reader or the encoder gives up; onError ends the call.
CaptureFails ==
    /\ alive /\ mic = "capturing" /\ Room(toWorker)
    /\ EndCall(InCall)
    /\ UNCHANGED <<attempt, audioAllowed, alive, session, toShell, toPeer,
                   fromPeer, device>>

\* applyPermission('Audio'): a revocation ends a call of any stage.
AudioPermission ==
    /\ alive /\ Room(toWorker)
    /\ audioAllowed' = ~audioAllowed
    /\ IF audioAllowed THEN EndCall(InCall)
       ELSE UNCHANGED <<voiceCallState, prep, mic, toWorker>>
    /\ UNCHANGED <<attempt, alive, session, toShell, toPeer, fromPeer, device>>

\* teardown(): the shell lets go of the worker, the session is closed.
SessionEnds ==
    /\ alive
    /\ alive' = FALSE
    /\ voiceCallState' = "idle" /\ prep' = FALSE /\ mic' = "off"
    /\ pending' = 0 /\ accepted' = FALSE
    /\ toWorker' = <<>> /\ toShell' = <<>>
    /\ UNCHANGED <<attempt, audioAllowed, live, toPeer, fromPeer, device>>

-----------------------------------------------------------------------------
(* The session *)

\* startVoiceCall
WorkerStart ==
    /\ Head(toWorker).c = "start"
    /\ IF pending # 0
       THEN UNCHANGED <<session, toShell, toPeer>>
       ELSE /\ pending' = Head(toWorker).n
            /\ UNCHANGED <<accepted, live>>
            /\ toPeer' = Append(toPeer, [m |-> "request", n |-> Head(toWorker).n])
            /\ toShell' = Append(toShell, "waiting")

\* mutant: hanging up forgets the open call
WorkerCloseKeepsCall ==
    /\ Head(toWorker).c = "close"
    /\ pending' = 0
    /\ toPeer' = Append(toPeer, [m |-> "hangup", n |-> 0])
    /\ toShell' = Append(toShell, "closed")
    /\ UNCHANGED <<accepted, live>>

\* closeVoiceCall
WorkerClose ==
    /\ Head(toWorker).c = "close"
    /\ pending' = 0 /\ accepted' = FALSE
    /\ toPeer' = Append(toPeer, [m |-> "hangup", n |-> 0])
    /\ toShell' = Append(toShell, "closed")
    /\ UNCHANGED live

\* sendVoiceAudioFrame: only in an accepted call, dropped when the relay is full.
WorkerFrame ==
    /\ Head(toWorker).c = "frame"
    /\ \/ /\ accepted
          /\ toPeer' = Append(toPeer, [m |-> "audio", n |-> live])
       \/ UNCHANGED toPeer
    /\ UNCHANGED <<session, toShell>>

WorkerCommand ==
    /\ alive /\ toWorker # <<>> /\ Room(toShell) /\ Room(toPeer)
    /\ toWorker' = Tail(toWorker)
    /\ WorkerStart \/ WorkerClose \/ WorkerFrame
    /\ UNCHANGED <<shell, fromPeer, device>>

\* mutant: the timestamp is not compared
WorkerResponseUnmatched ==
    /\ Head(fromPeer).m = "response"
    /\ pending' = 0
    /\ IF pending = 0
       THEN UNCHANGED <<accepted, live, toShell>>
       ELSE /\ accepted' = Head(fromPeer).ok
            /\ live' = pending
            /\ toShell' = Append(toShell, IF Head(fromPeer).ok THEN "accepted"
                                          ELSE "rejected")

\* dispatch 'voice_call_response': the first response uses up the request.
WorkerResponse ==
    /\ Head(fromPeer).m = "response"
    /\ pending' = 0
    /\ \/ /\ pending = 0
          /\ UNCHANGED <<accepted, live, toShell>>
       \/ /\ pending # 0 /\ Head(fromPeer).n # pending
          /\ toShell' = Append(toShell, "closed")
          /\ UNCHANGED <<accepted, live>>
       \/ /\ pending # 0 /\ Head(fromPeer).n = pending
          /\ accepted' = Head(fromPeer).ok
          /\ live' = pending
          /\ toShell' = Append(toShell, IF Head(fromPeer).ok THEN "accepted"
                                        ELSE "rejected")

\* dispatch 'voice_call_request': only a hang-up of a call we know is acted on.
WorkerHangup ==
    /\ Head(fromPeer).m = "hangup"
    /\ pending' = 0 /\ accepted' = FALSE
    /\ toShell' = IF pending # 0 \/ accepted THEN Append(toShell, "closed")
                  ELSE toShell
    /\ UNCHANGED live

WorkerPeerMessage ==
    /\ alive /\ fromPeer # <<>> /\ Room(toShell)
    /\ fromPeer' = Tail(fromPeer)
    /\ WorkerResponse \/ WorkerHangup
    /\ UNCHANGED <<shell, toWorker, toPeer, device>>

-----------------------------------------------------------------------------
(* The device (external): it answers each request at most once, with the   *)
(* request's own number, and may hang up at any time.                      *)

DeviceReceives ==
    /\ toPeer # <<>>
    /\ toPeer' = Tail(toPeer)
    /\ ringing' = CASE Head(toPeer).m = "request" -> Head(toPeer).n
                    [] Head(toPeer).m = "hangup" -> 0
                    [] OTHER -> ringing
    /\ UNCHANGED <<shell, session, toWorker, toShell, fromPeer, agreed>>

DeviceAnswers(ok) ==
    /\ ringing # 0 /\ Room(fromPeer)
    /\ fromPeer' = Append(fromPeer, [m |-> "response", n |-> ringing, ok |-> ok])
    /\ agreed' = IF ok THEN agreed \cup {ringing} ELSE agreed
    /\ ringing' = 0
    /\ UNCHANGED <<shell, session, toWorker, toShell, toPeer>>

\* The device's user ends a call that was agreed on, or refuses one that rings.
DeviceHangsUp ==
    /\ ringing # 0 \/ agreed # {}
    /\ Room(fromPeer)
    /\ fromPeer' = Append(fromPeer, [m |-> "hangup", n |-> 0, ok |-> FALSE])
    /\ ringing' = 0
    /\ UNCHANGED <<shell, session, toWorker, toShell, toPeer, agreed>>

-----------------------------------------------------------------------------
ShellStep  == Toggle \/ (\E ok \in BOOLEAN : Prepared(ok)) \/ ShellEvent
              \/ CaptureFrame \/ CaptureFails \/ AudioPermission \/ SessionEnds
WorkerStep == WorkerCommand \/ WorkerPeerMessage
DeviceStep == DeviceReceives \/ (\E ok \in BOOLEAN : DeviceAnswers(ok))
              \/ DeviceHangsUp

Next == ShellStep \/ WorkerStep \/ DeviceStep

Spec == Init /\ [][Next]_vars

-----------------------------------------------------------------------------
(* Properties *)

\* The types of the state of shell, worker, queues and device.
TypeOK ==
    /\ voiceCallState \in UiStates /\ prep \in BOOLEAN
    /\ mic \in {"off", "ready", "capturing"}
    /\ attempt \in 0..MaxCalls /\ audioAllowed \in BOOLEAN /\ alive \in BOOLEAN
    /\ pending \in 0..MaxCalls /\ accepted \in BOOLEAN /\ live \in 0..MaxCalls
    /\ toWorker \in Seq(Commands) /\ toShell \in Seq(Events)
    /\ toPeer \in Seq(Requests) /\ fromPeer \in Seq(Answers)
    /\ ringing \in 0..MaxCalls /\ agreed \subseteq Calls

\* Sound of the microphone leaves for the device only in a call the device's user
\* really accepted, and never behind our own hang-up.
AudioOnlyWithConsent ==
    \A k \in DOMAIN toPeer : toPeer[k].m = "audio" =>
        /\ toPeer[k].n \in agreed
        /\ \A j \in 1..k : toPeer[j].m # "hangup"

\* The microphone is held only while the button shows a call.
MicOnlyInCall == mic # "off" => InCall

\* When nothing is in flight between shell and worker and no microphone request
\* is open, both sides agree on whether there is a call: a call the worker holds
\* can be ended with the button, and a button that shows a call stands for one.
\* (They may still differ on its stage: after three attempts in flight at once the
\* worker can hold an accepted call and a pending request together, since
\* startVoiceCall looks at the pending request only.)
Quiet == alive /\ toWorker = <<>> /\ toShell = <<>> /\ ~prep

CallAgreement ==
    Quiet => (voiceCallState = "idle" <=> pending = 0 /\ ~accepted)

=============================================================================
