----------------------------- MODULE VoiceProofs -----------------------------
(***************************************************************************)
(* Proofs about VoiceCall, for any number of attempts and any room in the  *)
(* channels.                                                               *)
(***************************************************************************)
EXTENDS VoiceCall, TLAPS

(***************************************************************************)
(* The invariants.                                                         *)
(***************************************************************************)

\* An open microphone request belongs to a button that is not idle.
MicInv ==
    /\ mic # "off" => InCall
    /\ prep => voiceCallState # "idle"
    /\ voiceCallState = "preparing" => prep

\* Request, answer and hang-up in the channels.
Asks(q, k)     == q[k].m = "request"
HangsUp(q, k)  == q[k].m = "hangup"
Responds(k)    == fromPeer[k].m = "response"
Starts(k)      == toWorker[k].c = "start"
Closes(k)      == toWorker[k].c = "close"

\* Attempt x has been asked for, and the worker has not yet seen its answer.
Outstanding(x) ==
    \/ ringing = x /\ x # 0
    \/ \E k \in DOMAIN toPeer : Asks(toPeer, k) /\ toPeer[k].n = x
    \/ \E k \in DOMAIN fromPeer : Responds(k) /\ fromPeer[k].n = x

\* The number of a start command is new to worker and device.
FreshInv ==
    /\ \A k \in DOMAIN toWorker : Starts(k) =>
          /\ toWorker[k].n <= attempt
          /\ prep => toWorker[k].n < attempt
    /\ \A i, j \in DOMAIN toWorker : i < j /\ Starts(i) /\ Starts(j) =>
          toWorker[i].n < toWorker[j].n
    /\ \A x \in Calls, k \in DOMAIN toWorker : Outstanding(x) /\ Starts(k) =>
          x < toWorker[k].n
    /\ \A x \in Calls : Outstanding(x) => x <= attempt /\ (prep => x < attempt)

\* The request the worker waits for is the last thing it said but for sound,
\* wherever that request or its answer has got to.
Silence == \A k \in DOMAIN toPeer : ~Asks(toPeer, k) /\ ~HangsUp(toPeer, k)
LastInv ==
    pending # 0 =>
        /\ \A j, k \in DOMAIN toPeer : Asks(toPeer, k) /\ toPeer[k].n = pending /\ k < j =>
              ~Asks(toPeer, j) /\ ~HangsUp(toPeer, j)
        /\ ringing = pending => Silence
        /\ \A k \in DOMAIN fromPeer : Responds(k) /\ fromPeer[k].n = pending =>
              /\ ringing = 0 /\ Silence
              /\ \A j \in DOMAIN fromPeer : k < j => ~Responds(j)

\* An accepted call was agreed to, no hang-up is on its way, and nothing but the
\* pending request is outstanding.
ConsentInv ==
    /\ \A k \in DOMAIN fromPeer : Responds(k) /\ fromPeer[k].ok => fromPeer[k].n \in agreed
    /\ accepted =>
        /\ live \in agreed
        /\ \A k \in DOMAIN toPeer : ~HangsUp(toPeer, k)
        /\ \A x \in Calls : Outstanding(x) => x = pending

\* The worker has a call.
HasCall == pending # 0 \/ accepted
Closing == \E k \in DOMAIN toWorker : Closes(k)
Opening == \E k \in DOMAIN toWorker : Starts(k)

\* The last event on its way to the shell tells whether the worker has a call; with
\* none on its way the button shows it, or the command to change it is on its way.
EventInv ==
    /\ toShell # <<>> =>
          /\ HasCall <=> toShell[Len(toShell)] \in {"waiting", "accepted"}
          /\ pending # 0 => toShell[Len(toShell)] = "waiting"
    /\ \A k \in DOMAIN toShell : k > 1 /\ toShell[k] = "accepted" => toShell[k - 1] = "waiting"
    /\ toShell = <<"accepted">> => InCall \/ Closing
    /\ toShell = <<>> /\ HasCall => InCall \/ Closing
    /\ toShell = <<>> /\ ~HasCall /\ InCall => Opening

(***************************************************************************)
(* Channels and messages.                                                  *)
(***************************************************************************)

\* A receiver takes the first message and the others move up.
LEMMA Received ==
    ASSUME NEW S, NEW s \in Seq(S), s # <<>>
    PROVE  /\ Tail(s) \in Seq(S) /\ Head(s) \in S /\ Head(s) = s[1] /\ 1 \in DOMAIN s
           /\ Len(s) \in Nat /\ Len(s) >= 1 /\ DOMAIN s = 1..Len(s)
           /\ Len(Tail(s)) = Len(s) - 1 /\ DOMAIN Tail(s) = 1..(Len(s) - 1)
           /\ \A k \in DOMAIN Tail(s) : k + 1 \in DOMAIN s /\ Tail(s)[k] = s[k + 1]
OBVIOUS

\* A sender adds a message behind the others.
LEMMA Sent ==
    ASSUME NEW S, NEW s \in Seq(S), NEW e \in S
    PROVE  /\ Append(s, e) \in Seq(S) /\ Append(s, e) # <<>>
           /\ Len(s) \in Nat /\ Len(Append(s, e)) = Len(s) + 1
           /\ DOMAIN s = 1..Len(s) /\ DOMAIN Append(s, e) = 1..(Len(s) + 1)
           /\ \A k \in DOMAIN s : k \in DOMAIN Append(s, e) /\ Append(s, e)[k] = s[k]
           /\ Append(s, e)[Len(s) + 1] = e /\ Len(s) + 1 \in DOMAIN Append(s, e)
OBVIOUS

\* Every message is of one of its kinds and numbered as its kind is.
LEMMA MessageTypes ==
    /\ \A e \in Commands : e.c \in {"start", "close", "frame"} /\ (e.c = "start" => e.n \in Calls)
    /\ \A e \in Requests : e.m \in {"request", "hangup", "audio"}
                           /\ (e.m = "request" => e.n \in Calls)
    /\ \A e \in Answers : /\ e.m \in {"response", "hangup"} /\ e.ok \in BOOLEAN
                          /\ e.m = "response" => e.n \in Calls
    /\ [c |-> "close", n |-> 0] \in Commands /\ [c |-> "frame", n |-> 0] \in Commands
    /\ [m |-> "hangup", n |-> 0] \in Requests
    /\ [m |-> "hangup", n |-> 0, ok |-> FALSE] \in Answers
    /\ \A k \in Calls : /\ [c |-> "start", n |-> k] \in Commands
                        /\ [m |-> "request", n |-> k] \in Requests
                        /\ [m |-> "audio", n |-> k] \in Requests
                        /\ \A b \in BOOLEAN : [m |-> "response", n |-> k, ok |-> b] \in Answers
<1>1. \A e \in Commands : e.c \in {"start", "close", "frame"} /\ (e.c = "start" => e.n \in Calls)
  BY DEF Commands
<1>2. \A e \in Requests : e.m \in {"request", "hangup", "audio"}
                           /\ (e.m = "request" => e.n \in Calls)
  BY DEF Requests
<1>3. \A e \in Answers : /\ e.m \in {"response", "hangup"} /\ e.ok \in BOOLEAN
                         /\ e.m = "response" => e.n \in Calls
  <2>1. \A e \in {[m |-> "response", n |-> k, ok |-> b] : k \in Calls, b \in BOOLEAN} :
           e.m = "response" /\ e.ok \in BOOLEAN /\ e.n \in Calls
    OBVIOUS
  <2>2. ASSUME NEW e \in {[m |-> "hangup", n |-> 0, ok |-> FALSE]}
        PROVE  e.m = "hangup" /\ e.ok \in BOOLEAN
    <3>1. e = [m |-> "hangup", n |-> 0, ok |-> FALSE]
      OBVIOUS
    <3>2. e.m = "hangup"
      BY <3>1
    <3>3. e.ok = FALSE
      BY <3>1
    <3>4. e.ok \in BOOLEAN
      BY <3>3, Zenon
    <3> QED BY <3>2, <3>4, Zenon
  <2>3. ASSUME NEW e \in Answers
        PROVE  /\ e.m \in {"response", "hangup"} /\ e.ok \in BOOLEAN
               /\ e.m = "response" => e.n \in Calls
    <3>1. CASE e \in {[m |-> "response", n |-> k, ok |-> b] : k \in Calls, b \in BOOLEAN}
      <4>1. e.m = "response" /\ e.ok \in BOOLEAN /\ e.n \in Calls
        BY <2>1, <3>1
      <4> QED BY <4>1, Zenon
    <3>2. CASE e \in {[m |-> "hangup", n |-> 0, ok |-> FALSE]}
      <4>1. e.m = "hangup" /\ e.ok \in BOOLEAN
        BY <2>2, <3>2
      <4>2. e.m # "response"
        BY <4>1
      <4> QED BY <4>1, <4>2, Zenon
    <3> QED BY <3>1, <3>2 DEF Answers
  <2> QED BY <2>3, Zenon
<1>4. /\ [c |-> "close", n |-> 0] \in Commands /\ [c |-> "frame", n |-> 0] \in Commands
      /\ \A k \in Calls : [c |-> "start", n |-> k] \in Commands
  BY DEF Commands
<1>5. /\ [m |-> "hangup", n |-> 0] \in Requests
      /\ \A k \in Calls : [m |-> "request", n |-> k] \in Requests
                          /\ [m |-> "audio", n |-> k] \in Requests
  BY DEF Requests
<1>6. /\ [m |-> "hangup", n |-> 0, ok |-> FALSE] \in Answers
      /\ \A k \in Calls, b \in BOOLEAN : [m |-> "response", n |-> k, ok |-> b] \in Answers
  BY DEF Answers
<1> QED BY <1>1, <1>2, <1>3, <1>4, <1>5, <1>6

(***************************************************************************)
(* Type correctness and the microphone.                                    *)
(***************************************************************************)

\* With the types: sound carries the number of a believed acceptance and a start
\* command that of an attempt, so neither is 0.
VoiceType == TypeOK /\ (accepted => live # 0) /\ (prep => attempt # 0)

ShellType ==
    /\ voiceCallState \in UiStates /\ prep \in BOOLEAN
    /\ mic \in {"off", "ready", "capturing"}
    /\ attempt \in 0..MaxCalls /\ audioAllowed \in BOOLEAN /\ alive \in BOOLEAN
    /\ prep => attempt # 0
SessionType ==
    /\ pending \in 0..MaxCalls /\ accepted \in BOOLEAN /\ live \in 0..MaxCalls
    /\ accepted => live # 0
ChannelType ==
    /\ toWorker \in Seq(Commands) /\ toShell \in Seq(Events)
    /\ toPeer \in Seq(Requests) /\ fromPeer \in Seq(Answers)
    /\ ringing \in 0..MaxCalls /\ agreed \subseteq Calls

\* The three groups are VoiceType.
LEMMA VoiceGroups == VoiceType <=> ShellType /\ SessionType /\ ChannelType
BY DEF VoiceType, TypeOK, ShellType, SessionType, ChannelType

\* The steps of the shell in a session that goes on.
ShellMove == Toggle \/ (\E ok \in BOOLEAN : Prepared(ok)) \/ ShellEvent
             \/ CaptureFrame \/ CaptureFails \/ AudioPermission

Post(c, k) == toWorker' = Append(toWorker, [c |-> c, n |-> k])
CloseCall == Post("close", 0) /\ InCall /\ ~InCall'
\* What such a step says to the worker, and what becomes of the button.
Speaks ==
    \/ UNCHANGED toWorker /\ (InCall' <=> InCall)
    \/ CloseCall
    \/ Post("frame", 0) /\ (InCall' <=> InCall)
    \/ Post("start", attempt) /\ InCall' /\ prep /\ ~prep' /\ attempt' = attempt
Hears ==
    \/ Head(toShell) \in {"waiting", "accepted"} /\ UNCHANGED toWorker /\ InCall'
    \/ Head(toShell) = "accepted" /\ (CloseCall \/ (UNCHANGED toWorker /\ ~InCall /\ ~InCall'))
    \/ Head(toShell) \in {"rejected", "closed"} /\ UNCHANGED toWorker /\ ~InCall'
ShellKinds ==
    /\ UNCHANGED <<session, toPeer, fromPeer, device, alive>>
    /\ \/ UNCHANGED toShell /\ Speaks
       \/ toShell # <<>> /\ toShell' = Tail(toShell) /\ Hears
    /\ \/ attempt' = attempt /\ (prep' => prep)
       \/ attempt' = attempt + 1 /\ UNCHANGED toWorker

\* What endVoiceCall does, by whether there is a call to end.
LEMMA EndCallKinds ==
    ASSUME EndCall(InCall) PROVE ~InCall' /\ ~prep' /\ mic' = "off" /\ voiceCallState' = "idle"
           /\ (CloseCall \/ (UNCHANGED toWorker /\ ~InCall))
BY DEF EndCall, InCall, CloseCall, Post

\* Every step of the shell is of these kinds and keeps its types and its microphone.
LEMMA ShellStepKinds ==
    ASSUME VoiceType, MicInv, ShellMove
    PROVE  ShellKinds /\ ShellType' /\ MicInv'
<1>1. ShellType /\ MaxCalls \in Nat
  BY VoiceGroups, VoiceBounds
<1> USE <1>1
<1>2. CASE Toggle
  <2>1. CASE InCall /\ EndCall(TRUE) /\ UNCHANGED attempt
    <3>1. ~InCall' /\ ~prep' /\ mic' = "off" /\ voiceCallState' = "idle" /\ CloseCall
      BY <2>1 DEF EndCall, InCall, CloseCall, Post
    <3>2. UNCHANGED <<audioAllowed, alive, session, toShell, toPeer, fromPeer, device>>
      BY <1>2 DEF Toggle
    <3>3. ShellKinds
      BY <2>1, <3>1, <3>2 DEF ShellKinds, Speaks
    <3>4. ShellType' /\ MicInv'
      BY <2>1, <3>1, <3>2 DEF ShellType, MicInv, UiStates, EndCall
    <3> QED BY <3>3, <3>4
  <2>2. CASE /\ ~InCall /\ audioAllowed /\ attempt < MaxCalls
             /\ attempt' = attempt + 1
             /\ voiceCallState' = "preparing" /\ prep' = TRUE /\ mic' = "off"
             /\ UNCHANGED toWorker
    <3>1. ~InCall'
      BY <2>2 DEF InCall
    <3>2. UNCHANGED <<audioAllowed, alive, session, toShell, toPeer, fromPeer, device>>
      BY <1>2 DEF Toggle
    <3>3. ShellKinds
      BY <2>2, <3>1, <3>2 DEF ShellKinds, Speaks
    <3>4. attempt' \in 0..MaxCalls /\ attempt' # 0
      BY <2>2 DEF ShellType
    <3>5. ShellType' /\ MicInv'
      BY <2>2, <3>2, <3>4 DEF ShellType, MicInv, UiStates
    <3> QED BY <3>3, <3>5
  <2> QED BY <1>2, <2>1, <2>2 DEF Toggle
<1>3. ASSUME NEW ok \in BOOLEAN, Prepared(ok) PROVE ShellKinds /\ ShellType' /\ MicInv'
  <2>1. /\ prep /\ prep' = FALSE
        /\ UNCHANGED <<attempt, audioAllowed, alive, session, toShell, toPeer, fromPeer, device>>
    BY <1>3 DEF Prepared
  <2>2. CASE /\ voiceCallState # "preparing"
             /\ mic' = IF ok THEN "ready" ELSE "off"
             /\ UNCHANGED <<voiceCallState, toWorker>>
    <3>1. (InCall' <=> InCall) /\ InCall
      BY <2>1, <2>2 DEF InCall, MicInv, ShellType, UiStates
    <3>2. ShellKinds
      BY <2>1, <2>2, <3>1 DEF ShellKinds, Speaks
    <3>3. mic' \in {"off", "ready", "capturing"}
      BY <2>2
    <3>4. ShellType' /\ MicInv'
      BY <2>1, <2>2, <3>1, <3>3 DEF ShellType, MicInv
    <3> QED BY <3>2, <3>4
  <2>3. CASE /\ voiceCallState = "preparing"
             /\ mic' = "off" /\ voiceCallState' = "idle"
             /\ UNCHANGED toWorker
    <3>1. ~InCall' /\ ~InCall
      BY <2>3 DEF InCall
    <3>2. ShellKinds
      BY <2>1, <2>3, <3>1 DEF ShellKinds, Speaks
    <3>3. ShellType' /\ MicInv'
      BY <2>1, <2>3, <3>1 DEF ShellType, MicInv, UiStates
    <3> QED BY <3>2, <3>3
  <2>4. CASE /\ mic' = "ready" /\ voiceCallState' = "waiting"
             /\ toWorker' = Append(toWorker, [c |-> "start", n |-> attempt])
    <3>1. InCall'
      BY <2>4 DEF InCall
    <3>2. ShellKinds
      BY <2>1, <2>4, <3>1 DEF ShellKinds, Speaks, Post
    <3>3. ShellType' /\ MicInv'
      BY <2>1, <2>4, <3>1 DEF ShellType, MicInv, UiStates
    <3> QED BY <3>2, <3>3
  <2> QED BY <1>3, <2>2, <2>3, <2>4 DEF Prepared
<1>4. CASE ShellEvent
  <2>1. /\ toShell # <<>> /\ toShell' = Tail(toShell)
        /\ UNCHANGED <<attempt, audioAllowed, alive, session, toPeer, fromPeer, device>>
    BY <1>4 DEF ShellEvent
  <2>2. CASE ShellAccepted
    <3>1. CASE mic = "ready" /\ mic' = "capturing" /\ voiceCallState' = "connected"
               /\ UNCHANGED <<prep, toWorker>>
      <4>1. InCall'
        BY <3>1 DEF InCall
      <4>2. ShellKinds
        BY <2>1, <2>2, <3>1, <4>1 DEF ShellKinds, Hears, ShellAccepted
      <4>3. ShellType' /\ MicInv'
        BY <2>1, <3>1, <4>1 DEF ShellType, MicInv, UiStates
      <4> QED BY <4>2, <4>3
    <3>2. CASE EndCall(InCall)
      <4>1. ShellKinds
        BY <2>1, <2>2, <3>2, EndCallKinds DEF ShellKinds, Hears, ShellAccepted
      <4>2. ShellType' /\ MicInv'
        BY <2>1, <3>2, EndCallKinds DEF ShellType, MicInv, UiStates, EndCall
      <4> QED BY <4>1, <4>2
    <3> QED BY <2>2, <3>1, <3>2 DEF ShellAccepted
  <2>3. CASE ShellWaiting
    <3>1. InCall'
      BY <2>3 DEF ShellWaiting, InCall
    <3>2. ShellKinds
      BY <2>1, <2>3, <3>1 DEF ShellKinds, Hears, ShellWaiting
    <3>3. ShellType' /\ MicInv'
      BY <2>1, <2>3, <3>1 DEF ShellType, MicInv, UiStates, ShellWaiting
    <3> QED BY <3>2, <3>3
  <2>4. CASE ShellEnded
    <3>1. ~InCall' /\ ~prep' /\ UNCHANGED toWorker
      BY <2>4 DEF ShellEnded, EndCall, InCall
    <3>2. ShellKinds
      BY <2>1, <2>4, <3>1 DEF ShellKinds, Hears, ShellEnded
    <3>3. ShellType' /\ MicInv'
      BY <2>1, <2>4 DEF ShellType, MicInv, UiStates, ShellEnded, EndCall
    <3> QED BY <3>2, <3>3
  <2> QED BY <1>4, <2>2, <2>3, <2>4 DEF ShellEvent
<1>5. CASE CaptureFrame
  <2>1. UNCHANGED <<shell, session, toShell, toPeer, fromPeer, device>> /\ Post("frame", 0)
    BY <1>5 DEF CaptureFrame, Post
  <2>2. (InCall' <=> InCall) /\ UNCHANGED <<attempt, prep, alive>>
    BY <2>1 DEF shell, InCall
  <2>3. ShellKinds
    BY <2>1, <2>2 DEF ShellKinds, Speaks
  <2>4. ShellType' /\ MicInv'
    BY <2>1 DEF ShellType, MicInv, InCall, shell
  <2> QED BY <2>3, <2>4
<1>6. CASE CaptureFails
  <2>1. /\ EndCall(InCall)
        /\ UNCHANGED <<attempt, audioAllowed, alive, session, toShell, toPeer, fromPeer, device>>
    BY <1>6 DEF CaptureFails
  <2>2. ShellKinds
    BY <2>1, EndCallKinds DEF ShellKinds, Speaks
  <2>3. ShellType' /\ MicInv'
    BY <2>1, EndCallKinds DEF ShellType, MicInv, UiStates, EndCall
  <2> QED BY <2>2, <2>3
<1>7. CASE AudioPermission
  <2>1. /\ audioAllowed' = ~audioAllowed
        /\ UNCHANGED <<attempt, alive, session, toShell, toPeer, fromPeer, device>>
    BY <1>7 DEF AudioPermission
  <2>2. audioAllowed' \in BOOLEAN
    BY <2>1, Zenon
  <2>3. CASE EndCall(InCall)
    <3>1. ShellKinds
      BY <2>1, <2>3, EndCallKinds DEF ShellKinds, Speaks
    <3>2. ShellType' /\ MicInv'
      BY <2>1, <2>2, <2>3, EndCallKinds DEF ShellType, MicInv, UiStates, EndCall
    <3> QED BY <3>1, <3>2
  <2>4. CASE UNCHANGED <<voiceCallState, prep, mic, toWorker>>
    <3>1. InCall' <=> InCall
      BY <2>4 DEF InCall
    <3>2. ShellKinds
      BY <2>1, <2>4, <3>1 DEF ShellKinds, Speaks
    <3>3. ShellType' /\ MicInv'
      BY <2>1, <2>2, <2>4, <3>1 DEF ShellType, MicInv
    <3> QED BY <3>2, <3>3
  <2> QED BY <1>7, <2>3, <2>4 DEF AudioPermission
<1> QED BY <1>2, <1>3, <1>4, <1>5, <1>6, <1>7 DEF ShellMove

\* The shell sends commands and takes events.
LEMMA ShellChannels ==
    ASSUME VoiceType, ShellKinds PROVE SessionType' /\ ChannelType'
<1>1. ShellType /\ SessionType /\ ChannelType /\ MaxCalls \in Nat
  BY VoiceGroups, VoiceBounds
<1>2. prep => attempt \in Calls
  BY <1>1 DEF ShellType, Calls
<1>3. toWorker' \in Seq(Commands)
  <2>1. \/ UNCHANGED toWorker
        \/ \E e \in Commands : toWorker' = Append(toWorker, e)
    BY <1>2, MessageTypes DEF ShellKinds, Speaks, Hears, CloseCall, Post
  <2>2. toWorker \in Seq(Commands) /\ \A e \in Commands : Append(toWorker, e) \in Seq(Commands)
    BY <1>1, Sent DEF ChannelType
  <2> QED BY <2>1, <2>2
<1>4. toShell' \in Seq(Events)
  <2>1. toShell \in Seq(Events) /\ (toShell # <<>> => Tail(toShell) \in Seq(Events))
    BY <1>1, Received DEF ChannelType
  <2> QED BY <2>1 DEF ShellKinds
<1> QED BY <1>1, <1>3, <1>4 DEF ShellKinds, SessionType, ChannelType, session, device

\* Every step keeps the types and the microphone's state.
LEMMA VoiceTypeStep == VoiceType /\ MicInv /\ [Next]_vars => VoiceType' /\ MicInv'
<1> SUFFICES ASSUME VoiceType, MicInv, ShellType, SessionType, ChannelType, [Next]_vars
             PROVE  (ShellType /\ SessionType /\ ChannelType)' /\ MicInv'
  <2>1. (ShellType /\ SessionType /\ ChannelType)' => VoiceType'
    BY DEF VoiceType, TypeOK, ShellType, SessionType, ChannelType
  <2> QED BY <2>1, VoiceGroups
<1>0. MaxCalls \in Nat
  BY VoiceBounds
<1>1. CASE ShellMove
  BY <1>1, ShellStepKinds, ShellChannels
<1>2. CASE SessionEnds
  <2>1. ShellType' /\ MicInv'
    BY <1>2 DEF SessionEnds, ShellType, MicInv, UiStates
  <2>2. SessionType'
    <3>1. pending' \in 0..MaxCalls
      BY <1>0, <1>2 DEF SessionEnds
    <3> QED BY <1>2, <3>1 DEF SessionEnds, SessionType
  <2>3. ChannelType'
    BY <1>2 DEF SessionEnds, ChannelType, device
  <2> QED BY <2>1, <2>2, <2>3
<1>3. CASE WorkerCommand
  <2>1. /\ toWorker # <<>> /\ toWorker' = Tail(toWorker)
        /\ UNCHANGED <<shell, fromPeer, device>>
    BY <1>3 DEF WorkerCommand
  <2>2. ShellType' /\ MicInv'
    BY <2>1 DEF ShellType, MicInv, InCall, shell
  <2>3. Head(toWorker) \in Commands /\ toWorker' \in Seq(Commands)
    BY <2>1, Received DEF ChannelType
  <2>4. CASE WorkerStart
    <3>1. Head(toWorker).n \in Calls
      BY <2>3, <2>4, MessageTypes DEF WorkerStart
    <3>2. CASE pending # 0
      BY <2>1, <2>2, <2>3, <2>4, <3>2
         DEF WorkerStart, session, SessionType, ChannelType, device
    <3>3. CASE pending = 0
      <4>1. /\ pending' = Head(toWorker).n
            /\ UNCHANGED <<accepted, live>>
            /\ toPeer' = Append(toPeer, [m |-> "request", n |-> Head(toWorker).n])
            /\ toShell' = Append(toShell, "waiting")
        BY <2>4, <3>3 DEF WorkerStart
      <4>2. SessionType'
        BY <1>0, <3>1, <4>1 DEF SessionType, Calls
      <4>3. toPeer' \in Seq(Requests)
        BY <3>1, <4>1, MessageTypes, Sent DEF ChannelType
      <4>4. toShell' \in Seq(Events)
        BY <4>1, Sent DEF ChannelType, Events
      <4> QED BY <2>1, <2>2, <2>3, <4>2, <4>3, <4>4 DEF ChannelType, device
    <3> QED BY <3>2, <3>3
  <2>5. CASE WorkerClose
    <3>1. toPeer' \in Seq(Requests)
      BY <2>5, MessageTypes, Sent DEF ChannelType, WorkerClose
    <3>2. toShell' \in Seq(Events)
      BY <2>5, Sent DEF ChannelType, Events, WorkerClose
    <3>3. SessionType'
      <4>1. pending' \in 0..MaxCalls
        BY <1>0, <2>5 DEF WorkerClose
      <4> QED BY <2>5, <4>1 DEF SessionType, WorkerClose
    <3> QED BY <2>1, <2>2, <2>3, <3>1, <3>2, <3>3 DEF ChannelType, device
  <2>6. CASE WorkerFrame
    <3>1. UNCHANGED session /\ UNCHANGED toShell
      BY <2>6 DEF WorkerFrame
    <3>2. toPeer' \in Seq(Requests)
      <4>1. CASE UNCHANGED toPeer
        BY <4>1 DEF ChannelType
      <4>2. CASE accepted /\ toPeer' = Append(toPeer, [m |-> "audio", n |-> live])
        <5>1. live \in Calls
          BY <1>0, <4>2 DEF SessionType, Calls
        <5> QED BY <4>2, <5>1, MessageTypes, Sent DEF ChannelType
      <4> QED BY <2>6, <4>1, <4>2 DEF WorkerFrame
    <3>3. SessionType'
      BY <3>1 DEF SessionType, session
    <3> QED BY <2>1, <2>2, <2>3, <3>1, <3>2, <3>3 DEF ChannelType, device
  <2> QED BY <1>3, <2>4, <2>5, <2>6 DEF WorkerCommand
<1>4. CASE WorkerPeerMessage
  <2>1. /\ fromPeer # <<>> /\ fromPeer' = Tail(fromPeer)
        /\ UNCHANGED <<shell, toWorker, toPeer, device>>
    BY <1>4 DEF WorkerPeerMessage
  <2>2. ShellType' /\ MicInv'
    BY <2>1 DEF ShellType, MicInv, InCall, shell
  <2>3. Head(fromPeer) \in Answers /\ fromPeer' \in Seq(Answers)
    BY <2>1, Received DEF ChannelType
  <2>4. toShell' \in Seq(Events)
    <3>1. UNCHANGED toShell \/ \E e \in Events : toShell' = Append(toShell, e)
      BY <1>4 DEF WorkerPeerMessage, WorkerResponse, WorkerHangup, Events
    <3>2. \A e \in Events : Append(toShell, e) \in Seq(Events)
      BY Sent DEF ChannelType
    <3> QED BY <3>1, <3>2 DEF ChannelType
  <2>5. SessionType'
    <3>1. pending' = 0 /\ pending' \in 0..MaxCalls
      BY <1>0, <1>4 DEF WorkerPeerMessage, WorkerResponse, WorkerHangup
    <3>2. CASE UNCHANGED <<accepted, live>>
      BY <3>1, <3>2 DEF SessionType
    <3>3. CASE accepted' = FALSE /\ UNCHANGED live
      BY <3>1, <3>3 DEF SessionType
    <3>4. CASE pending # 0 /\ accepted' = Head(fromPeer).ok /\ live' = pending
      <4>1. Head(fromPeer).ok \in BOOLEAN
        BY <2>3, MessageTypes, Zenon
      <4>2. accepted' \in BOOLEAN
        BY <3>4, <4>1, Zenon
      <4> QED BY <3>1, <3>4, <4>2 DEF SessionType
    <3> QED BY <1>4, <3>2, <3>3, <3>4 DEF WorkerPeerMessage, WorkerResponse, WorkerHangup
  <2> QED BY <2>1, <2>2, <2>3, <2>4, <2>5 DEF ChannelType, device
<1>5. CASE DeviceReceives
  <2>1. /\ toPeer # <<>> /\ toPeer' = Tail(toPeer)
        /\ ringing' = CASE Head(toPeer).m = "request" -> Head(toPeer).n
                        [] Head(toPeer).m = "hangup" -> 0
                        [] OTHER -> ringing
        /\ UNCHANGED <<shell, session, toWorker, toShell, fromPeer, agreed>>
    BY <1>5 DEF DeviceReceives
  <2>2. Head(toPeer) \in Requests /\ toPeer' \in Seq(Requests)
    BY <2>1, Received DEF ChannelType
  <2>3. Head(toPeer).m = "request" => Head(toPeer).n \in 0..MaxCalls
    BY <1>0, <2>2, MessageTypes DEF Calls
  <2>4. ringing' \in 0..MaxCalls
    BY <1>0, <2>1, <2>3 DEF ChannelType
  <2> QED BY <2>1, <2>2, <2>4
          DEF ShellType, SessionType, ChannelType, MicInv, InCall, shell, session
<1>6. ASSUME NEW ok \in BOOLEAN, DeviceAnswers(ok)
      PROVE  (ShellType /\ SessionType /\ ChannelType)' /\ MicInv'
  <2>1. ringing \in Calls
    BY <1>0, <1>6 DEF DeviceAnswers, ChannelType, Calls
  <2>2. fromPeer' \in Seq(Answers)
    BY <1>6, <2>1, MessageTypes, Sent DEF DeviceAnswers, ChannelType
  <2>3. ringing' \in 0..MaxCalls /\ agreed' \subseteq Calls
    BY <1>0, <1>6, <2>1 DEF DeviceAnswers, ChannelType
  <2> QED BY <1>6, <2>2, <2>3 DEF DeviceAnswers, ShellType, SessionType, ChannelType, MicInv,
                                InCall, shell, session
<1>7. CASE DeviceHangsUp
  <2>1. fromPeer' \in Seq(Answers)
    BY <1>7, MessageTypes, Sent DEF DeviceHangsUp, ChannelType
  <2> QED BY <1>0, <1>7, <2>1 DEF DeviceHangsUp, ShellType, SessionType, ChannelType, MicInv,
                                InCall, shell, session
<1>8. CASE UNCHANGED vars
  BY <1>8 DEF vars, shell, session, chans, device, ShellType, SessionType, ChannelType, MicInv,
              InCall
<1> QED BY <1>1, <1>2, <1>3, <1>4, <1>5, <1>6, <1>7, <1>8
        DEF Next, ShellStep, ShellMove, WorkerStep, DeviceStep

(***************************************************************************)
(* Numbers: a request that is sent has never been sent before.             *)
(***************************************************************************)

\* Channels that stay keep what is outstanding.
LEMMA OutstandingStays ==
    ASSUME UNCHANGED <<ringing, toPeer, fromPeer>>
    PROVE  \A x : Outstanding(x)' <=> Outstanding(x)
BY DEF Outstanding, Asks, Responds

\* Only a request adds to what is outstanding.
LEMMA OutstandingShrinks ==
    ASSUME ChannelType,
           \/ DeviceReceives \/ (\E ok \in BOOLEAN : DeviceAnswers(ok)) \/ DeviceHangsUp
           \/ WorkerPeerMessage
    PROVE  \A x \in Calls : Outstanding(x)' => Outstanding(x)
<1> SUFFICES ASSUME NEW x \in Calls, Outstanding(x)' PROVE Outstanding(x)
    OBVIOUS
<1> USE DEF Outstanding, Asks, Responds
<1>1. x # 0
  BY VoiceBounds DEF Calls
<1>2. CASE DeviceReceives
  <2>1. /\ toPeer # <<>> /\ toPeer' = Tail(toPeer) /\ UNCHANGED fromPeer
        /\ ringing' = CASE Head(toPeer).m = "request" -> Head(toPeer).n
                        [] Head(toPeer).m = "hangup" -> 0
                        [] OTHER -> ringing
    BY <1>2 DEF DeviceReceives
  <2>2. /\ Head(toPeer) = toPeer[1] /\ 1 \in DOMAIN toPeer
        /\ \A k \in DOMAIN toPeer' : k + 1 \in DOMAIN toPeer /\ toPeer'[k] = toPeer[k + 1]
    BY <2>1, Received DEF ChannelType
  <2> QED BY <1>1, <2>1, <2>2
<1>3. CASE \E ok \in BOOLEAN : DeviceAnswers(ok)
  <2>1. PICK ok \in BOOLEAN : DeviceAnswers(ok)
    BY <1>3
  <2>2. /\ UNCHANGED toPeer /\ ringing # 0 /\ ringing' = 0
        /\ fromPeer' = Append(fromPeer, [m |-> "response", n |-> ringing, ok |-> ok])
    BY <2>1 DEF DeviceAnswers
  <2>3. [m |-> "response", n |-> ringing, ok |-> ok] \in Answers
    <3>1. ringing \in Calls
      BY <2>2, VoiceBounds DEF ChannelType, Calls
    <3> QED BY <3>1, MessageTypes
  <2>4. \A k \in DOMAIN fromPeer' : \/ k \in DOMAIN fromPeer /\ fromPeer'[k] = fromPeer[k]
                                    \/ fromPeer'[k].n = ringing
    BY <2>2, <2>3, Sent DEF ChannelType
  <2> QED BY <1>1, <2>2, <2>4
<1>4. CASE DeviceHangsUp
  <2>1. /\ UNCHANGED toPeer /\ ringing' = 0
        /\ fromPeer' = Append(fromPeer, [m |-> "hangup", n |-> 0, ok |-> FALSE])
    BY <1>4 DEF DeviceHangsUp
  <2>2. \A k \in DOMAIN fromPeer' : \/ k \in DOMAIN fromPeer /\ fromPeer'[k] = fromPeer[k]
                                    \/ fromPeer'[k].m = "hangup"
    BY <2>1, MessageTypes, Sent DEF ChannelType
  <2> QED BY <1>1, <2>1, <2>2
<1>5. CASE WorkerPeerMessage
  <2>1. fromPeer # <<>> /\ fromPeer' = Tail(fromPeer) /\ UNCHANGED <<toPeer, ringing>>
    BY <1>5 DEF WorkerPeerMessage, device
  <2>2. \A k \in DOMAIN fromPeer' : k + 1 \in DOMAIN fromPeer /\ fromPeer'[k] = fromPeer[k + 1]
    BY <2>1, Received DEF ChannelType
  <2> QED BY <2>1, <2>2
<1> QED BY <1>2, <1>3, <1>4, <1>5

\* What the worker says, and what is outstanding then.
LEMMA WorkerSays ==
    ASSUME ChannelType, NEW e \in Requests, toPeer' = Append(toPeer, e),
           UNCHANGED <<ringing, fromPeer>>
    PROVE  \A x \in Calls : Outstanding(x)' => Outstanding(x) \/ (e.m = "request" /\ e.n = x)
<1>1. \A k \in DOMAIN toPeer' : \/ k \in DOMAIN toPeer /\ toPeer'[k] = toPeer[k]
                                \/ toPeer'[k] = e
  BY Sent DEF ChannelType
<1> QED BY <1>1 DEF Outstanding, Asks, Responds

\* What the shell posts.
LEMMA ShellPosts ==
    ASSUME VoiceType, ShellKinds
    PROVE  \/ UNCHANGED toWorker
           \/ /\ attempt' = attempt /\ (prep' => prep)
              /\ \E e \in Commands :
                    /\ toWorker' = Append(toWorker, e)
                    /\ e.c = "start" => e.n = attempt /\ prep /\ ~prep'
<1>1. ShellType /\ MaxCalls \in Nat
  BY VoiceGroups, VoiceBounds
<1>2. prep => attempt \in Calls
  BY <1>1 DEF ShellType, Calls
<1>3. CASE UNCHANGED toWorker
  BY <1>3
<1>4. CASE toWorker' # toWorker
  <2>1. \E e \in Commands :
                    /\ toWorker' = Append(toWorker, e)
                    /\ e.c = "start" => e.n = attempt /\ prep /\ ~prep'
    <3>1. CASE Post("close", 0)
      <4>1. [c |-> "close", n |-> 0] \in Commands /\ [c |-> "close", n |-> 0].c # "start"
        BY MessageTypes
      <4> QED BY <3>1, <4>1 DEF Post
    <3>2. CASE Post("frame", 0)
      <4>1. [c |-> "frame", n |-> 0] \in Commands /\ [c |-> "frame", n |-> 0].c # "start"
        BY MessageTypes
      <4> QED BY <3>2, <4>1 DEF Post
    <3>3. CASE Post("start", attempt) /\ prep /\ ~prep'
      <4>1. [c |-> "start", n |-> attempt] \in Commands
        BY <1>2, <3>3, MessageTypes
      <4> QED BY <3>3, <4>1 DEF Post
    <3> QED BY <1>4, <3>1, <3>2, <3>3 DEF ShellKinds, Speaks, Hears, CloseCall
  <2> QED BY <1>4, <2>1 DEF ShellKinds
<1> QED BY <1>3, <1>4

\* Every step keeps the numbers of start commands fresh.
LEMMA FreshStep == VoiceType /\ MicInv /\ FreshInv /\ [Next]_vars => FreshInv'
<1> SUFFICES ASSUME VoiceType, MicInv, FreshInv, [Next]_vars PROVE FreshInv'
    OBVIOUS
<1>0. /\ MaxCalls \in Nat /\ attempt \in Nat /\ toWorker \in Seq(Commands) /\ ChannelType
      /\ \A k \in DOMAIN toWorker : Starts(k) => toWorker[k].n \in Calls
  BY VoiceGroups, VoiceBounds, MessageTypes DEF ShellType, ChannelType, Starts
<1> DEFINE Shrinks == \A x \in Calls : Outstanding(x)' => Outstanding(x)
<1>1. CASE ShellMove
  <2>1. ShellKinds
    BY <1>1, ShellStepKinds
  <2>2. Shrinks
    BY <2>1, OutstandingStays DEF ShellKinds, device
  <2>3. CASE UNCHANGED toWorker
    <3>1. \/ attempt' = attempt /\ (prep' => prep)
          \/ attempt' = attempt + 1
      BY <2>1 DEF ShellKinds
    <3> QED BY <1>0, <2>2, <2>3, <3>1 DEF FreshInv, Starts, Calls
  <2>4. ASSUME NEW e \in Commands, toWorker' = Append(toWorker, e),
               attempt' = attempt, prep' => prep,
               e.c = "start" => e.n = attempt /\ prep /\ ~prep'
        PROVE  FreshInv'
    <3>1. \A k \in DOMAIN toWorker' :
             \/ k \in DOMAIN toWorker /\ toWorker'[k] = toWorker[k] /\ k < Len(toWorker) + 1
             \/ k = Len(toWorker) + 1 /\ toWorker'[k] = e
      BY <1>0, <2>4, Sent
    <3>2. \A i, j \in DOMAIN toWorker' : i < j => i \in DOMAIN toWorker /\ toWorker'[i] = toWorker[i]
      BY <1>0, <2>4, Sent
    <3> QED BY <1>0, <2>2, <2>4, <3>1, <3>2 DEF FreshInv, Starts, Calls
  <2> QED BY <2>1, <2>3, <2>4, ShellPosts
<1>2. CASE SessionEnds
  <2>1. toWorker' = <<>> /\ prep' = FALSE /\ UNCHANGED <<attempt, toPeer, fromPeer, device>>
    BY <1>2 DEF SessionEnds
  <2>2. Shrinks
    BY <2>1, OutstandingStays DEF device
  <2>3. DOMAIN toWorker' = {}
    BY <2>1
  <2> QED BY <1>0, <2>1, <2>2, <2>3 DEF FreshInv
<1>3. CASE WorkerCommand
  <2>1. /\ toWorker # <<>> /\ toWorker' = Tail(toWorker)
        /\ UNCHANGED <<attempt, prep, fromPeer, ringing>>
    BY <1>3 DEF WorkerCommand, shell, device
  <2>2. /\ Head(toWorker) = toWorker[1] /\ 1 \in DOMAIN toWorker
        /\ \A k \in DOMAIN toWorker' : /\ k + 1 \in DOMAIN toWorker /\ k \in Nat /\ k >= 1
                                       /\ toWorker'[k] = toWorker[k + 1]
    BY <1>0, <2>1, Received
  <2>3. \A x \in Calls : Outstanding(x)' => Outstanding(x) \/ (Starts(1) /\ toWorker[1].n = x)
    <3>1. CASE UNCHANGED toPeer
      BY <2>1, <3>1, OutstandingStays
    <3>2. CASE WorkerStart /\ toPeer' = Append(toPeer, [m |-> "request", n |-> Head(toWorker).n])
      <4>1. Starts(1) /\ toWorker[1].n \in Calls
        BY <1>0, <2>2, <3>2 DEF WorkerStart, Starts
      <4>2. [m |-> "request", n |-> toWorker[1].n] \in Requests
        BY <4>1, MessageTypes
      <4> QED BY <1>0, <2>1, <2>2, <3>2, <4>1, <4>2, WorkerSays
    <3>3. CASE toPeer' = Append(toPeer, [m |-> "hangup", n |-> 0])
      BY <1>0, <2>1, <3>3, MessageTypes, WorkerSays
    <3>4. CASE accepted /\ toPeer' = Append(toPeer, [m |-> "audio", n |-> live])
      <4>1. live \in Calls
        BY <1>0, <3>4 DEF VoiceType, TypeOK, Calls
      <4> QED BY <1>0, <2>1, <3>4, <4>1, MessageTypes, WorkerSays
    <3> QED BY <1>3, <3>1, <3>2, <3>3, <3>4 DEF WorkerCommand, WorkerStart, WorkerClose, WorkerFrame
  <2>4. \A k \in DOMAIN toWorker' : Starts(k)' <=> Starts(k + 1)
    BY <2>2 DEF Starts
  <2>5. \A k \in DOMAIN toWorker' : 1 < k + 1 /\ toWorker'[k].n = toWorker[k + 1].n
    BY <2>2
  <2>6. \A x \in Calls : Outstanding(x)' => x <= attempt /\ (prep => x < attempt)
    BY <2>2, <2>3 DEF FreshInv
  <2>7. \A x \in Calls, k \in DOMAIN toWorker' : Outstanding(x)' /\ Starts(k)' =>
          x < toWorker'[k].n
    BY <2>2, <2>3, <2>4, <2>5 DEF FreshInv
  <2>8. \A i, j \in DOMAIN toWorker' : i < j /\ Starts(i)' /\ Starts(j)' =>
          toWorker'[i].n < toWorker'[j].n
    <3>1. \A i, j \in DOMAIN toWorker' : i < j => i + 1 < j + 1
      BY <2>2
    <3> QED BY <2>2, <2>4, <2>5, <3>1 DEF FreshInv
  <2>9. \A k \in DOMAIN toWorker' : Starts(k)' =>
          toWorker'[k].n <= attempt /\ (prep => toWorker'[k].n < attempt)
    BY <2>2, <2>4, <2>5 DEF FreshInv
  <2> QED BY <2>1, <2>6, <2>7, <2>8, <2>9 DEF FreshInv
<1>4. CASE WorkerPeerMessage \/ DeviceStep
  <2>1. UNCHANGED <<toWorker, attempt, prep>>
    BY <1>4 DEF WorkerPeerMessage, DeviceStep, DeviceReceives, DeviceAnswers, DeviceHangsUp, shell
  <2>2. Shrinks
    BY <1>0, <1>4, OutstandingShrinks DEF DeviceStep
  <2> QED BY <2>1, <2>2 DEF FreshInv, Starts
<1>5. CASE UNCHANGED vars
  <2>1. UNCHANGED <<toWorker, attempt, prep, ringing, toPeer, fromPeer>>
    BY <1>5 DEF vars, shell, chans, device
  <2> QED BY <2>1, OutstandingStays DEF FreshInv, Starts
<1> QED BY <1>1, <1>2, <1>3, <1>4, <1>5 DEF Next, ShellStep, ShellMove, WorkerStep

(***************************************************************************)
(* Consent.                                                                *)
(***************************************************************************)

\* Every step keeps the pending request the last thing the worker said.
LEMMA LastStep == VoiceType /\ MicInv /\ FreshInv /\ LastInv /\ [Next]_vars => LastInv'
<1> SUFFICES ASSUME VoiceType, MicInv, FreshInv, LastInv, [Next]_vars, pending' # 0
             PROVE  LastInv'
    BY DEF LastInv
<1>0. ChannelType /\ MaxCalls \in Nat
  BY VoiceGroups, VoiceBounds
<1> USE DEF Asks, HangsUp, Responds, Silence
<1>1. CASE UNCHANGED <<pending, ringing, toPeer, fromPeer>>
  BY <1>1 DEF LastInv
<1>2. CASE SessionEnds \/ WorkerPeerMessage
  BY <1>2 DEF SessionEnds, WorkerPeerMessage, WorkerResponse, WorkerHangup
<1>3. CASE WorkerCommand
  <2>1. UNCHANGED <<ringing, fromPeer>> /\ toWorker # <<>>
    BY <1>3 DEF WorkerCommand, device
  <2>2. CASE WorkerStart /\ pending = 0
    <3>1. pending' = Head(toWorker).n
          /\ toPeer' = Append(toPeer, [m |-> "request", n |-> Head(toWorker).n])
      BY <2>2 DEF WorkerStart
    <3>2. Head(toWorker) = toWorker[1] /\ 1 \in DOMAIN toWorker /\ Head(toWorker) \in Commands
      BY <1>0, <2>1, Received DEF ChannelType
    <3>3. pending' \in Calls /\ Starts(1)
      BY <2>2, <3>1, <3>2, MessageTypes DEF WorkerStart, Starts
    <3>4. ~Outstanding(pending')
      BY <3>1, <3>2, <3>3 DEF FreshInv, Calls
    <3>5. [m |-> "request", n |-> pending'] \in Requests
      BY <3>3, MessageTypes
    <3>6. \A k \in DOMAIN toPeer' : \/ k \in DOMAIN toPeer /\ toPeer'[k] = toPeer[k]
                                    \/ k = Len(toPeer) + 1
      BY <1>0, <3>1, <3>5, Sent DEF ChannelType
    <3>7. \A k \in DOMAIN toPeer' : k <= Len(toPeer) + 1 /\ k \in Nat /\ Len(toPeer) \in Nat
      BY <1>0, <3>1, <3>5, Sent DEF ChannelType
    <3>8. \A j, k \in DOMAIN toPeer' : k < j => k \in DOMAIN toPeer /\ toPeer'[k] = toPeer[k]
      BY <3>6, <3>7
    <3>9. \A k \in DOMAIN toPeer : Asks(toPeer, k) => toPeer[k].n # pending'
      BY <3>4 DEF Outstanding
    <3>10. ringing # pending'
      BY <3>4 DEF Outstanding
    <3>11. \A k \in DOMAIN fromPeer : Responds(k) => fromPeer[k].n # pending'
      BY <3>4 DEF Outstanding
    <3> QED BY <2>1, <3>8, <3>9, <3>10, <3>11 DEF LastInv
  <2>3. CASE WorkerStart /\ pending # 0
    BY <1>1, <2>1, <2>3 DEF WorkerStart, session
  <2>4. CASE WorkerClose
    BY <2>4 DEF WorkerClose
  <2>5. CASE WorkerFrame
    <3>1. pending' = pending
      BY <2>5 DEF WorkerFrame, session
    <3>2. CASE UNCHANGED toPeer
      BY <1>1, <2>1, <3>1, <3>2
    <3>3. CASE accepted /\ toPeer' = Append(toPeer, [m |-> "audio", n |-> live])
      <4>1. live \in Calls
        BY <1>0, <3>3 DEF VoiceType, TypeOK, Calls
      <4>2. [m |-> "audio", n |-> live] \in Requests
        BY <4>1, MessageTypes
      <4>3. \A k \in DOMAIN toPeer' : \/ k \in DOMAIN toPeer /\ toPeer'[k] = toPeer[k]
                                      \/ toPeer'[k].m = "audio"
        BY <1>0, <3>3, <4>2, Sent DEF ChannelType
      <4> QED BY <2>1, <3>1, <4>3 DEF LastInv
    <3> QED BY <2>5, <3>2, <3>3 DEF WorkerFrame
  <2> QED BY <1>3, <2>2, <2>3, <2>4, <2>5 DEF WorkerCommand
<1>4. CASE DeviceReceives
  <2>1. /\ toPeer # <<>> /\ toPeer' = Tail(toPeer) /\ UNCHANGED <<fromPeer, pending>>
        /\ ringing' = CASE Head(toPeer).m = "request" -> Head(toPeer).n
                        [] Head(toPeer).m = "hangup" -> 0
                        [] OTHER -> ringing
    BY <1>4 DEF DeviceReceives, session
  <2>2. /\ Head(toPeer) = toPeer[1] /\ 1 \in DOMAIN toPeer
        /\ \A k \in DOMAIN toPeer' : /\ k + 1 \in DOMAIN toPeer /\ k \in Nat /\ 1 < k + 1
                                     /\ toPeer'[k] = toPeer[k + 1]
    BY <1>0, <2>1, Received DEF ChannelType
  <2>3. \A j, k \in DOMAIN toPeer' : k < j => k + 1 < j + 1
    BY <2>2
  <2>4. Silence => Silence'
    BY <2>2
  <2>5. \A j, k \in DOMAIN toPeer' :
          Asks(toPeer, k)' /\ toPeer'[k].n = pending /\ k < j =>
              ~Asks(toPeer, j)' /\ ~HangsUp(toPeer, j)'
    BY <2>1, <2>2, <2>3 DEF LastInv
  <2>6. ringing' = pending => Silence'
    <3>1. CASE Asks(toPeer, 1) /\ toPeer[1].n = pending
      BY <2>1, <2>2, <3>1 DEF LastInv
    <3>2. CASE ~Asks(toPeer, 1) /\ ringing' = pending
      BY <2>1, <2>2, <2>4, <3>2 DEF LastInv
    <3> QED BY <2>1, <2>2, <3>1, <3>2
  <2>7. Silence /\ ringing = 0 => ringing' = 0
    BY <2>1, <2>2
  <2>8. \A k \in DOMAIN fromPeer : Responds(k) /\ fromPeer[k].n = pending =>
              /\ ringing' = 0 /\ Silence'
              /\ \A j \in DOMAIN fromPeer : k < j => ~Responds(j)
    BY <2>1, <2>4, <2>7 DEF LastInv
  <2> QED BY <2>1, <2>5, <2>6, <2>8 DEF LastInv
<1>5. ASSUME NEW e \in Answers, fromPeer' = Append(fromPeer, e), UNCHANGED <<toPeer, pending>>,
             ringing' = 0, e.m = "response" => ringing # 0 /\ e.n = ringing
      PROVE  LastInv'
  <2>1. \A k \in DOMAIN fromPeer' :
           \/ k \in DOMAIN fromPeer /\ fromPeer'[k] = fromPeer[k] /\ k < Len(fromPeer) + 1
           \/ k = Len(fromPeer) + 1 /\ fromPeer'[k] = e
    BY <1>0, <1>5, Sent DEF ChannelType
  <2>2. \A j, k \in DOMAIN fromPeer' : k < j => k \in DOMAIN fromPeer /\ fromPeer'[k] = fromPeer[k]
    BY <1>0, <1>5, Sent DEF ChannelType
  <2>3. \A j, k \in DOMAIN toPeer' :
          Asks(toPeer, k)' /\ toPeer'[k].n = pending' /\ k < j =>
              ~Asks(toPeer, j)' /\ ~HangsUp(toPeer, j)'
    BY <1>5 DEF LastInv
  <2>4. ASSUME NEW k \in DOMAIN fromPeer', Responds(k)', fromPeer'[k].n = pending'
        PROVE  Silence' /\ \A j \in DOMAIN fromPeer' : k < j => ~Responds(j)'
    <3>1. CASE k \in DOMAIN fromPeer /\ fromPeer'[k] = fromPeer[k]
      <4>1. ringing = 0 /\ Silence
        BY <1>5, <2>4, <3>1 DEF LastInv
      <4>2. e.m # "response"
        BY <1>5, <4>1
      <4> QED BY <1>5, <2>1, <2>4, <3>1, <4>1, <4>2 DEF LastInv
    <3>2. CASE k = Len(fromPeer) + 1 /\ fromPeer'[k] = e
      <4>1. Silence
        BY <1>5, <2>4, <3>2 DEF LastInv
      <4>2. \A j \in DOMAIN fromPeer' : ~(k < j)
        BY <1>0, <1>5, <3>2, Sent DEF ChannelType
      <4> QED BY <1>5, <4>1, <4>2
    <3> QED BY <2>1, <3>1, <3>2
  <2> QED BY <1>5, <2>3, <2>4 DEF LastInv
<1>6. ASSUME NEW ok \in BOOLEAN, DeviceAnswers(ok) PROVE LastInv'
  <2>1. ringing \in Calls
    BY <1>0, <1>6 DEF DeviceAnswers, ChannelType, Calls
  <2>2. [m |-> "response", n |-> ringing, ok |-> ok] \in Answers
    BY <2>1, MessageTypes
  <2> QED BY <1>5, <1>6, <2>2 DEF DeviceAnswers, session
<1>7. CASE DeviceHangsUp
  <2>1. [m |-> "hangup", n |-> 0, ok |-> FALSE] \in Answers
    BY MessageTypes
  <2>2. [m |-> "hangup", n |-> 0, ok |-> FALSE].m # "response"
    OBVIOUS
  <2> QED BY <1>5, <1>7, <2>1, <2>2 DEF DeviceHangsUp, session
<1>8. CASE ShellMove
  BY <1>1, <1>8, ShellStepKinds DEF ShellKinds, session, device
<1>9. CASE UNCHANGED vars
  BY <1>1, <1>9 DEF vars, session, chans, device
<1> QED BY <1>2, <1>3, <1>4, <1>6, <1>7, <1>8, <1>9
        DEF Next, ShellStep, ShellMove, WorkerStep, DeviceStep

\* Every step keeps consent.
LEMMA ConsentStep ==
    VoiceType /\ MicInv /\ FreshInv /\ LastInv /\ ConsentInv /\ [Next]_vars => ConsentInv'
<1> SUFFICES ASSUME VoiceType, MicInv, FreshInv, LastInv, ConsentInv, [Next]_vars
             PROVE  ConsentInv'
    OBVIOUS
<1>0. ChannelType /\ MaxCalls \in Nat /\ \A x \in Calls : x # 0
  BY VoiceGroups, VoiceBounds DEF Calls
<1> USE DEF HangsUp, Responds
<1>1. CASE UNCHANGED <<pending, accepted, live, ringing, toPeer, fromPeer, agreed>>
  BY <1>1, OutstandingStays DEF ConsentInv
<1>2. CASE SessionEnds
  BY <1>2 DEF SessionEnds, ConsentInv, device
<1>3. CASE WorkerCommand
  <2>1. UNCHANGED <<ringing, fromPeer, agreed>> /\ toWorker # <<>>
    BY <1>3 DEF WorkerCommand, device
  <2>2. CASE WorkerStart /\ pending = 0
    <3>1. /\ pending' = Head(toWorker).n /\ UNCHANGED <<accepted, live>>
          /\ toPeer' = Append(toPeer, [m |-> "request", n |-> Head(toWorker).n])
      BY <2>2 DEF WorkerStart
    <3>2. pending' \in Calls
      BY <1>0, <2>1, <2>2, <3>1, Received, MessageTypes DEF WorkerStart, ChannelType
    <3>3. PICK e \in Requests : e = [m |-> "request", n |-> pending']
      BY <3>2, MessageTypes
    <3>4. toPeer' = Append(toPeer, e) /\ e.m = "request" /\ e.n = pending'
      BY <3>1, <3>3
    <3>5. \A x \in Calls : Outstanding(x)' => Outstanding(x) \/ x = pending'
      BY <1>0, <2>1, <3>4, WorkerSays
    <3>6. \A k \in DOMAIN toPeer' : \/ k \in DOMAIN toPeer /\ toPeer'[k] = toPeer[k]
                                    \/ toPeer'[k].m = "request"
      BY <1>0, <3>4, Sent DEF ChannelType
    <3> QED BY <1>0, <2>1, <2>2, <3>1, <3>5, <3>6 DEF ConsentInv
  <2>3. CASE WorkerStart /\ pending # 0
    BY <1>1, <2>1, <2>3 DEF WorkerStart, session
  <2>4. CASE WorkerClose
    BY <2>1, <2>4 DEF WorkerClose, ConsentInv
  <2>5. CASE WorkerFrame
    <3>1. UNCHANGED <<pending, accepted, live>>
      BY <2>5 DEF WorkerFrame, session
    <3>2. CASE UNCHANGED toPeer
      BY <1>1, <2>1, <3>1, <3>2
    <3>3. CASE accepted /\ toPeer' = Append(toPeer, [m |-> "audio", n |-> live])
      <4>1. live \in Calls
        BY <1>0, <3>3 DEF VoiceType, TypeOK, Calls
      <4>2. PICK e \in Requests : e = [m |-> "audio", n |-> live]
        BY <4>1, MessageTypes
      <4>3. toPeer' = Append(toPeer, e) /\ e.m = "audio"
        BY <3>3, <4>2
      <4>4. \A k \in DOMAIN toPeer' : \/ k \in DOMAIN toPeer /\ toPeer'[k] = toPeer[k]
                                      \/ toPeer'[k].m = "audio"
        BY <1>0, <4>3, Sent DEF ChannelType
      <4>5. \A x \in Calls : Outstanding(x)' => Outstanding(x)
        BY <1>0, <2>1, <4>3, WorkerSays
      <4> QED BY <2>1, <3>1, <4>4, <4>5 DEF ConsentInv
    <3> QED BY <2>5, <3>2, <3>3 DEF WorkerFrame
  <2> QED BY <1>3, <2>2, <2>3, <2>4, <2>5 DEF WorkerCommand
<1>4. CASE WorkerPeerMessage
  <2>1. /\ fromPeer # <<>> /\ fromPeer' = Tail(fromPeer)
        /\ UNCHANGED <<toPeer, ringing, agreed>>
    BY <1>4 DEF WorkerPeerMessage, device
  <2>2. /\ Head(fromPeer) = fromPeer[1] /\ 1 \in DOMAIN fromPeer /\ fromPeer[1] \in Answers
        /\ \A k \in DOMAIN fromPeer' : /\ k + 1 \in DOMAIN fromPeer /\ 1 < k + 1
                                       /\ fromPeer'[k] = fromPeer[k + 1]
    BY <1>0, <2>1, Received DEF ChannelType
  <2>3. \A k \in DOMAIN fromPeer' : Responds(k)' /\ fromPeer'[k].ok => fromPeer'[k].n \in agreed'
    BY <2>1, <2>2 DEF ConsentInv
  <2>4. \A x \in Calls : Outstanding(x)' => Outstanding(x)
    BY <1>0, <1>4, OutstandingShrinks
  <2>5. CASE WorkerHangup
    BY <2>3, <2>5 DEF WorkerHangup, ConsentInv
  <2>6. CASE WorkerResponse
    <3>1. Responds(1) /\ fromPeer[1].n \in Calls /\ pending' = 0
      BY <2>2, <2>6, MessageTypes DEF WorkerResponse
    <3>2. CASE pending = 0 /\ UNCHANGED <<accepted, live>>
      BY <2>1, <2>3, <2>4, <3>1, <3>2 DEF ConsentInv
    <3>3. CASE pending # 0 /\ fromPeer[1].n # pending /\ UNCHANGED <<accepted, live>>
      <4>1. Outstanding(fromPeer[1].n)
        BY <2>2, <3>1 DEF Outstanding
      <4>2. ~accepted
        BY <3>1, <3>3, <4>1 DEF ConsentInv
      <4> QED BY <2>3, <3>3, <4>2 DEF ConsentInv
    <3>4. CASE /\ pending # 0 /\ fromPeer[1].n = pending
               /\ accepted' = fromPeer[1].ok /\ live' = pending
      <4>1. ringing = 0 /\ Silence /\ \A j \in DOMAIN fromPeer : 1 < j => ~Responds(j)
        BY <2>2, <3>1, <3>4 DEF LastInv
      <4>2. \A k \in DOMAIN fromPeer' : ~Responds(k)'
        BY <2>2, <4>1
      <4>3. \A x \in Calls : ~Outstanding(x)'
        BY <1>0, <2>1, <4>1, <4>2 DEF Outstanding, Silence, Asks
      <4>4. accepted' => live' \in agreed'
        BY <2>1, <2>2, <3>1, <3>4 DEF ConsentInv
      <4> QED BY <2>1, <2>3, <4>1, <4>3, <4>4 DEF ConsentInv, Silence
    <3> QED BY <2>2, <2>6, <3>2, <3>3, <3>4 DEF WorkerResponse
  <2> QED BY <1>4, <2>5, <2>6 DEF WorkerPeerMessage
<1>5. CASE DeviceStep
  <2>1. UNCHANGED <<pending, accepted, live>> /\ agreed \subseteq agreed'
    BY <1>5 DEF DeviceStep, DeviceReceives, DeviceAnswers, DeviceHangsUp, session
  <2>2. \A x \in Calls : Outstanding(x)' => Outstanding(x)
    BY <1>0, <1>5, OutstandingShrinks DEF DeviceStep
  <2>3. \A k \in DOMAIN toPeer' : \E j \in DOMAIN toPeer : toPeer'[k] = toPeer[j]
    <3>1. UNCHANGED toPeer \/ (toPeer # <<>> /\ toPeer' = Tail(toPeer))
      BY <1>5 DEF DeviceStep, DeviceReceives, DeviceAnswers, DeviceHangsUp
    <3>2. ASSUME toPeer # <<>>, toPeer' = Tail(toPeer)
          PROVE  \A k \in DOMAIN toPeer' : k + 1 \in DOMAIN toPeer /\ toPeer'[k] = toPeer[k + 1]
      BY <1>0, <3>2, Received DEF ChannelType
    <3> QED BY <3>1, <3>2
  <2>4. \A k \in DOMAIN fromPeer' : Responds(k)' /\ fromPeer'[k].ok => fromPeer'[k].n \in agreed'
    <3>1. CASE UNCHANGED fromPeer
      BY <2>1, <3>1 DEF ConsentInv
    <3>2. ASSUME NEW ok \in BOOLEAN, DeviceAnswers(ok)
          PROVE  \A k \in DOMAIN fromPeer' :
                    Responds(k)' /\ fromPeer'[k].ok => fromPeer'[k].n \in agreed'
      <4>1. ringing \in Calls
        BY <1>0, <3>2 DEF DeviceAnswers, ChannelType, Calls
      <4>2. PICK e \in Answers : e = [m |-> "response", n |-> ringing, ok |-> ok]
        BY <4>1, MessageTypes
      <4>3. fromPeer' = Append(fromPeer, e) /\ (e.ok => e.n \in agreed')
        BY <3>2, <4>2 DEF DeviceAnswers
      <4>4. \A k \in DOMAIN fromPeer' : \/ k \in DOMAIN fromPeer /\ fromPeer'[k] = fromPeer[k]
                                        \/ fromPeer'[k] = e
        BY <1>0, <4>3, Sent DEF ChannelType
      <4> QED BY <2>1, <4>3, <4>4 DEF ConsentInv
    <3>3. CASE DeviceHangsUp
      <4>1. PICK e \in Answers : e = [m |-> "hangup", n |-> 0, ok |-> FALSE]
        BY MessageTypes
      <4>2. fromPeer' = Append(fromPeer, e) /\ e.m = "hangup"
        BY <3>3, <4>1 DEF DeviceHangsUp
      <4>3. \A k \in DOMAIN fromPeer' : \/ k \in DOMAIN fromPeer /\ fromPeer'[k] = fromPeer[k]
                                        \/ fromPeer'[k] = e
        BY <1>0, <4>2, Sent DEF ChannelType
      <4> QED BY <2>1, <4>2, <4>3 DEF ConsentInv
    <3> QED BY <1>5, <3>1, <3>2, <3>3 DEF DeviceStep, DeviceReceives
  <2> QED BY <2>1, <2>2, <2>3, <2>4 DEF ConsentInv
<1>6. CASE ShellMove
  BY <1>1, <1>6, ShellStepKinds DEF ShellKinds, session, device
<1>7. CASE UNCHANGED vars
  BY <1>1, <1>7 DEF vars, session, chans, device
<1> QED BY <1>2, <1>3, <1>4, <1>5, <1>6, <1>7 DEF Next, ShellStep, ShellMove, WorkerStep

\* Sound that is on its way keeps its consent.
LEMMA AudioStep ==
    VoiceType /\ MicInv /\ ConsentInv /\ AudioOnlyWithConsent /\ [Next]_vars
        => AudioOnlyWithConsent'
<1> SUFFICES ASSUME VoiceType, MicInv, ConsentInv, AudioOnlyWithConsent, [Next]_vars
             PROVE  AudioOnlyWithConsent'
    OBVIOUS
<1>0. ChannelType /\ MaxCalls \in Nat
  BY VoiceGroups, VoiceBounds
<1>1. CASE UNCHANGED toPeer /\ agreed \subseteq agreed'
  BY <1>1 DEF AudioOnlyWithConsent
<1>2. CASE DeviceReceives
  <2>1. toPeer # <<>> /\ toPeer' = Tail(toPeer) /\ UNCHANGED agreed
    BY <1>2 DEF DeviceReceives
  <2>2. \A k \in DOMAIN toPeer' : /\ k + 1 \in DOMAIN toPeer /\ k \in Nat
                                  /\ toPeer'[k] = toPeer[k + 1]
    BY <1>0, <2>1, Received DEF ChannelType
  <2>3. \A k \in DOMAIN toPeer' : \A j \in 1..k : j \in DOMAIN toPeer' /\ j + 1 \in 1..(k + 1)
    BY <1>0, <2>1, Received DEF ChannelType
  <2> QED BY <2>1, <2>2, <2>3 DEF AudioOnlyWithConsent
<1>3. ASSUME NEW e \in Requests, toPeer' = Append(toPeer, e), UNCHANGED agreed,
             e.m = "audio" => accepted /\ e.n = live
      PROVE  AudioOnlyWithConsent'
  <2>1. \A k \in DOMAIN toPeer' : \/ k \in DOMAIN toPeer /\ toPeer'[k] = toPeer[k]
                                  \/ k = Len(toPeer) + 1 /\ toPeer'[k] = e
    BY <1>0, <1>3, Sent DEF ChannelType
  <2>2. \A k \in DOMAIN toPeer : \A j \in 1..k : j \in DOMAIN toPeer /\ toPeer'[j] = toPeer[j]
    BY <1>0, <1>3, Sent DEF ChannelType
  <2>3. \A j \in 1..(Len(toPeer) + 1) : j \in DOMAIN toPeer'
    BY <1>0, <1>3, Sent DEF ChannelType
  <2>4. ASSUME NEW k \in DOMAIN toPeer', toPeer'[k].m = "audio"
        PROVE  /\ toPeer'[k].n \in agreed'
               /\ \A j \in 1..k : toPeer'[j].m # "hangup"
    <3>1. CASE k \in DOMAIN toPeer /\ toPeer'[k] = toPeer[k]
      BY <1>3, <2>2, <2>4, <3>1 DEF AudioOnlyWithConsent
    <3>2. CASE k = Len(toPeer) + 1 /\ toPeer'[k] = e
      <4>1. accepted /\ e.n = live /\ e.m # "hangup"
        BY <1>3, <2>4, <3>2
      <4>2. \A j \in 1..k : toPeer'[j].m # "hangup"
        BY <2>1, <2>3, <3>2, <4>1 DEF ConsentInv, HangsUp
      <4> QED BY <1>3, <3>2, <4>1, <4>2 DEF ConsentInv
    <3> QED BY <2>1, <3>1, <3>2
  <2> QED BY <2>4 DEF AudioOnlyWithConsent
<1>4. CASE WorkerCommand
  <2>1. UNCHANGED agreed /\ toWorker # <<>>
    BY <1>4 DEF WorkerCommand, device
  <2>2. CASE UNCHANGED toPeer
    BY <1>1, <2>1, <2>2
  <2>3. CASE WorkerStart /\ toPeer' = Append(toPeer, [m |-> "request", n |-> Head(toWorker).n])
    <3>1. Head(toWorker).n \in Calls
      BY <1>0, <2>1, <2>3, Received, MessageTypes DEF WorkerStart, ChannelType
    <3>2. PICK e \in Requests : e = [m |-> "request", n |-> Head(toWorker).n]
      BY <3>1, MessageTypes
    <3>3. toPeer' = Append(toPeer, e) /\ e.m # "audio"
      BY <2>3, <3>2
    <3> QED BY <1>3, <2>1, <3>3
  <2>4. CASE toPeer' = Append(toPeer, [m |-> "hangup", n |-> 0])
    <3>1. PICK e \in Requests : e = [m |-> "hangup", n |-> 0]
      BY MessageTypes
    <3>2. toPeer' = Append(toPeer, e) /\ e.m # "audio"
      BY <2>4, <3>1
    <3> QED BY <1>3, <2>1, <3>2
  <2>5. CASE accepted /\ toPeer' = Append(toPeer, [m |-> "audio", n |-> live])
    <3>1. live \in Calls
      BY <1>0, <2>5 DEF VoiceType, TypeOK, Calls
    <3>2. PICK e \in Requests : e = [m |-> "audio", n |-> live]
      BY <3>1, MessageTypes
    <3>3. toPeer' = Append(toPeer, e) /\ e.n = live
      BY <2>5, <3>2
    <3> QED BY <1>3, <2>1, <2>5, <3>3
  <2> QED BY <1>4, <2>2, <2>3, <2>4, <2>5 DEF WorkerCommand, WorkerStart, WorkerClose, WorkerFrame
<1>5. CASE ShellMove
  BY <1>1, <1>5, ShellStepKinds DEF ShellKinds, device
<1>6. CASE SessionEnds \/ WorkerPeerMessage \/ (\E ok \in BOOLEAN : DeviceAnswers(ok))
           \/ DeviceHangsUp \/ UNCHANGED vars
  <2>1. UNCHANGED toPeer /\ agreed \subseteq agreed'
    BY <1>6 DEF SessionEnds, WorkerPeerMessage, DeviceAnswers, DeviceHangsUp, vars, chans, device
  <2> QED BY <1>1, <2>1
<1> QED BY <1>2, <1>4, <1>5, <1>6 DEF Next, ShellStep, ShellMove, WorkerStep, DeviceStep

(***************************************************************************)
(* Agreement of button and worker.                                         *)
(***************************************************************************)

\* The worker reports each change of its call, and an acceptance after the wait for it.
LEMMA EventSent ==
    ASSUME VoiceType, EventInv, NEW e \in Events, toShell' = Append(toShell, e),
           HasCall' <=> e \in {"waiting", "accepted"},
           pending' # 0 => e = "waiting",
           e = "accepted" => pending # 0 /\ UNCHANGED <<voiceCallState, toWorker>>
    PROVE  EventInv'
<1>1. toShell \in Seq(Events)
  BY DEF VoiceType, TypeOK
<1>2. /\ Len(toShell) \in Nat /\ Len(toShell') = Len(toShell) + 1 /\ toShell' # <<>>
      /\ toShell'[Len(toShell) + 1] = e /\ DOMAIN toShell = 1..Len(toShell)
      /\ DOMAIN toShell' = 1..(Len(toShell) + 1)
      /\ \A k \in DOMAIN toShell : toShell'[k] = toShell[k]
  BY <1>1, Sent
<1>3. \A k \in DOMAIN toShell' : k > 1 /\ toShell'[k] = "accepted" => toShell'[k - 1] = "waiting"
  <2> SUFFICES ASSUME NEW k \in DOMAIN toShell', k > 1, toShell'[k] = "accepted"
               PROVE  toShell'[k - 1] = "waiting"
      OBVIOUS
  <2>1. k - 1 \in DOMAIN toShell
    BY <1>2
  <2>2. CASE k \in DOMAIN toShell
    BY <1>2, <2>1, <2>2 DEF EventInv
  <2>3. CASE k = Len(toShell) + 1
    <3>1. toShell # <<>> /\ pending # 0 /\ k - 1 = Len(toShell)
      BY <1>2, <2>1, <2>3
    <3> QED BY <1>2, <2>1, <3>1 DEF EventInv
  <2> QED BY <1>2, <2>2, <2>3
<1>4. ASSUME toShell' = <<"accepted">> PROVE (InCall \/ Closing)'
  <2>1. Len(toShell') = 1 /\ toShell'[1] = "accepted"
    BY <1>4
  <2>2. Len(toShell) = 0 /\ e = "accepted"
    BY <1>2, <2>1
  <2>3. toShell = <<>> /\ pending # 0
    BY <1>1, <2>2
  <2> QED BY <2>2, <2>3 DEF EventInv, HasCall, InCall, Closing, Closes
<1> QED BY <1>2, <1>3, <1>4 DEF EventInv

\* What the shell posts stays in the channel behind what was there.
LEMMA PostKeeps ==
    ASSUME VoiceType, NEW e \in Commands, toWorker' = Append(toWorker, e)
    PROVE  /\ Closing => Closing'
           /\ Opening => Opening'
           /\ e.c = "close" => Closing'
           /\ e.c = "start" => Opening'
<1>1. toWorker \in Seq(Commands)
  BY DEF VoiceType, TypeOK
<1>2. /\ \A k \in DOMAIN toWorker : k \in DOMAIN toWorker' /\ toWorker'[k] = toWorker[k]
      /\ toWorker'[Len(toWorker) + 1] = e /\ Len(toWorker) + 1 \in DOMAIN toWorker'
  BY <1>1, Sent
<1> QED BY <1>2 DEF Closing, Opening, Closes, Starts

\* A step of the shell keeps the agreement.
LEMMA ShellEventStep ==
    ASSUME VoiceType, EventInv, ShellKinds PROVE EventInv'
<1>1. toShell \in Seq(Events) /\ (HasCall' <=> HasCall) /\ pending' = pending
  BY DEF VoiceType, TypeOK, ShellKinds, HasCall, session
<1>2. CloseCall => Closing' /\ ~InCall'
  <2>1. PICK e \in Commands : e = [c |-> "close", n |-> 0]
    BY MessageTypes
  <2> QED BY <2>1, PostKeeps DEF CloseCall, Post
<1>3. UNCHANGED toWorker => (Closing' <=> Closing) /\ (Opening' <=> Opening)
  BY DEF Closing, Opening, Closes, Starts
<1>4. CASE UNCHANGED toShell /\ Speaks
  <2>1. Post("frame", 0) => (Closing => Closing') /\ (Opening => Opening')
    <3>1. PICK e \in Commands : e = [c |-> "frame", n |-> 0]
      BY MessageTypes
    <3> QED BY <3>1, PostKeeps DEF Post
  <2>2. Post("start", attempt) /\ prep => Opening'
    <3>1. prep => attempt \in Calls
      BY VoiceBounds DEF VoiceType, TypeOK, Calls
    <3>2. prep => \E e \in Commands : e = [c |-> "start", n |-> attempt]
      BY <3>1, MessageTypes
    <3> QED BY <3>2, PostKeeps DEF Post
  <2>3. InCall \/ Closing => (InCall \/ Closing)'
    BY <1>2, <1>3, <1>4, <2>1 DEF Speaks
  <2>4. (InCall => Opening) => (InCall' => Opening')
    BY <1>2, <1>3, <1>4, <2>1, <2>2 DEF Speaks
  <2>5. CASE toShell = <<>>
    <3>1. toShell' = <<>> /\ DOMAIN toShell' = {}
      BY <1>4, <2>5
    <3>2. toShell' # <<"accepted">>
      BY <3>1
    <3> QED BY <1>1, <2>3, <2>4, <2>5, <3>1, <3>2 DEF EventInv
  <2>6. CASE toShell # <<>>
    BY <1>1, <1>4, <2>3, <2>6 DEF EventInv
  <2> QED BY <2>5, <2>6
<1>5. CASE toShell # <<>> /\ toShell' = Tail(toShell) /\ Hears
  <2>1. /\ Head(toShell) = toShell[1] /\ 1 \in DOMAIN toShell /\ Len(toShell) \in Nat
        /\ Len(toShell) >= 1 /\ DOMAIN toShell = 1..Len(toShell)
        /\ Len(toShell') = Len(toShell) - 1 /\ DOMAIN toShell' = 1..(Len(toShell) - 1)
        /\ \A k \in DOMAIN toShell' : k + 1 \in DOMAIN toShell /\ toShell'[k] = toShell[k + 1]
        /\ toShell' \in Seq(Events)
    BY <1>1, <1>5, Received
  <2>2. ASSUME toShell' # <<>>
        PROVE  toShell'[Len(toShell')] = toShell[Len(toShell)]
    <3>1. Len(toShell') # 0
      BY <2>1, <2>2
    <3>2. Len(toShell') \in DOMAIN toShell' /\ Len(toShell') + 1 = Len(toShell)
      BY <2>1, <3>1
    <3> QED BY <2>1, <3>2
  <2>3. \A k \in DOMAIN toShell' : k > 1 /\ toShell'[k] = "accepted" => toShell'[k - 1] = "waiting"
    <3> SUFFICES ASSUME NEW k \in DOMAIN toShell', k > 1, toShell'[k] = "accepted"
                 PROVE  toShell'[k - 1] = "waiting"
        OBVIOUS
    <3>1. k - 1 \in DOMAIN toShell' /\ (k - 1) + 1 = k /\ (k + 1) - 1 = k /\ k + 1 > 1
      BY <2>1
    <3>2. toShell'[k - 1] = toShell[k] /\ toShell[k + 1] = "accepted" /\ k + 1 \in DOMAIN toShell
      BY <2>1, <3>1
    <3>3. toShell[(k + 1) - 1] = "waiting"
      BY <3>1, <3>2 DEF EventInv
    <3> QED BY <3>1, <3>2, <3>3
  <2>4. ASSUME toShell' = <<"accepted">> PROVE InCall'
    <3>1. Len(toShell') = 1 /\ toShell'[1] = "accepted"
      BY <2>4
    <3>2. 1 \in DOMAIN toShell' /\ 1 + 1 = 2 /\ 2 > 1 /\ 2 - 1 = 1
      BY <2>1, <3>1
    <3>3. toShell[2] = "accepted" /\ 2 \in DOMAIN toShell
      BY <2>1, <3>1, <3>2
    <3>4. toShell[1] = "waiting"
      BY <3>2, <3>3 DEF EventInv
    <3> QED BY <1>5, <2>1, <3>4 DEF Hears
  <2>5. ASSUME toShell' = <<>>
        PROVE  /\ HasCall => (InCall \/ Closing)'
               /\ ~HasCall => ~InCall'
    <3>1. Len(toShell') = 0
      BY <2>5
    <3>2. Len(toShell) = 1
      BY <2>1, <3>1
    <3>3. toShell = <<toShell[1]>>
      BY <1>1, <2>1, <3>2
    <3>4. HasCall <=> toShell[1] \in {"waiting", "accepted"}
      BY <1>5, <3>2 DEF EventInv
    <3>5. toShell[1] = "accepted" => InCall \/ Closing
      BY <3>3 DEF EventInv
    <3>6. CASE HasCall
      BY <1>2, <1>3, <1>5, <2>1, <3>4, <3>5, <3>6 DEF Hears
    <3>7. CASE ~HasCall
      BY <1>5, <2>1, <3>4, <3>7 DEF Hears
    <3> QED BY <3>6, <3>7
  <2> QED BY <1>1, <1>5, <2>2, <2>3, <2>4, <2>5 DEF EventInv
<1> QED BY <1>4, <1>5 DEF ShellKinds

\* A response to another request than the pending one finds no accepted call.
LEMMA LateResponse ==
    ASSUME VoiceType, ConsentInv, fromPeer # <<>>, Head(fromPeer).m = "response",
           Head(fromPeer).n # pending
    PROVE  ~accepted
<1>1. fromPeer \in Seq(Answers)
  BY DEF VoiceType, TypeOK
<1>2. Head(fromPeer) = fromPeer[1] /\ 1 \in DOMAIN fromPeer /\ Head(fromPeer) \in Answers
  BY <1>1, Received
<1>3. Head(fromPeer).n \in Calls
  BY <1>2, MessageTypes
<1>4. Outstanding(Head(fromPeer).n)
  BY <1>2 DEF Outstanding, Responds
<1> QED BY <1>3, <1>4 DEF ConsentInv

\* Every step keeps the agreement.
LEMMA EventStep ==
    VoiceType /\ MicInv /\ ConsentInv /\ EventInv /\ [Next]_vars => EventInv'
<1> SUFFICES ASSUME VoiceType, MicInv, ConsentInv, EventInv, [Next]_vars PROVE EventInv'
    OBVIOUS
<1>0. /\ ChannelType /\ MaxCalls \in Nat /\ \A x \in Calls : x # 0
      /\ "waiting" \in Events /\ "accepted" \in Events /\ "rejected" \in Events
      /\ "closed" \in Events
  BY VoiceGroups, VoiceBounds DEF Calls, Events
<1>1. CASE ShellMove
  BY <1>1, ShellStepKinds, ShellEventStep
<1>2. CASE SessionEnds
  <2>1. toShell' = <<>> /\ ~HasCall' /\ ~InCall'
    BY <1>2 DEF SessionEnds, HasCall, InCall
  <2>2. DOMAIN toShell' = {} /\ toShell' # <<"accepted">>
    BY <2>1
  <2> QED BY <2>1, <2>2 DEF EventInv
<1>3. CASE WorkerCommand
  <2>1. toWorker # <<>> /\ toWorker' = Tail(toWorker) /\ UNCHANGED voiceCallState
    BY <1>3 DEF WorkerCommand, shell
  <2>2. /\ Head(toWorker) = toWorker[1] /\ 1 \in DOMAIN toWorker /\ Head(toWorker) \in Commands
        /\ DOMAIN toWorker = 1..Len(toWorker) /\ DOMAIN toWorker' = 1..(Len(toWorker) - 1)
        /\ Len(toWorker) \in Nat
        /\ \A k \in DOMAIN toWorker' : toWorker'[k] = toWorker[k + 1]
    BY <1>0, <2>1, Received DEF ChannelType
  <2>3. \A k \in DOMAIN toWorker : \/ k = 1
                                   \/ k - 1 \in DOMAIN toWorker' /\ toWorker'[k - 1] = toWorker[k]
    BY <2>2
  <2>4. Head(toWorker).c # "close" /\ Closing => Closing'
    BY <2>2, <2>3 DEF Closing, Closes
  <2>5. Head(toWorker).c # "start" /\ Opening => Opening'
    BY <2>2, <2>3 DEF Opening, Starts
  <2>6. CASE WorkerStart /\ pending = 0
    <3>1. pending' = Head(toWorker).n /\ toShell' = Append(toShell, "waiting")
      BY <2>6 DEF WorkerStart
    <3>2. pending' # 0
      BY <1>0, <2>2, <2>6, <3>1, MessageTypes DEF WorkerStart
    <3> QED BY <1>0, <3>1, <3>2, EventSent DEF HasCall
  <2>7. CASE WorkerStart /\ pending # 0
    <3>1. UNCHANGED <<pending, accepted, toShell>> /\ Head(toWorker).c # "close"
      BY <2>7 DEF WorkerStart, session
    <3> QED BY <2>1, <2>4, <2>7, <3>1 DEF EventInv, HasCall, InCall
  <2>8. CASE WorkerClose
    <3>1. toShell' = Append(toShell, "closed") /\ pending' = 0 /\ ~HasCall'
      BY <2>8 DEF WorkerClose, HasCall
    <3> QED BY <1>0, <3>1, EventSent
  <2>9. CASE WorkerFrame
    <3>1. UNCHANGED <<pending, accepted, toShell>> /\ Head(toWorker).c = "frame"
      BY <2>9 DEF WorkerFrame, session
    <3> QED BY <2>1, <2>4, <2>5, <3>1 DEF EventInv, HasCall, InCall
  <2> QED BY <1>3, <2>6, <2>7, <2>8, <2>9 DEF WorkerCommand
<1>4. CASE WorkerPeerMessage
  <2>1. fromPeer # <<>> /\ UNCHANGED <<voiceCallState, toWorker>>
    BY <1>4 DEF WorkerPeerMessage, shell
  <2>2. CASE WorkerHangup
    <3>1. pending' = 0 /\ ~HasCall'
      BY <2>2 DEF WorkerHangup, HasCall
    <3>2. CASE HasCall
      <4>1. toShell' = Append(toShell, "closed")
        BY <2>2, <3>2 DEF WorkerHangup, HasCall
      <4> QED BY <1>0, <3>1, <4>1, EventSent
    <3>3. CASE ~HasCall
      <4>1. UNCHANGED toShell
        BY <2>2, <3>3 DEF WorkerHangup, HasCall
      <4> QED BY <2>1, <3>1, <3>3, <4>1
              DEF EventInv, InCall, Closing, Opening, Closes, Starts
    <3> QED BY <3>2, <3>3
  <2>3. CASE WorkerResponse
    <3>1. pending' = 0 /\ Head(fromPeer).m = "response"
      BY <2>3 DEF WorkerResponse
    <3>2. CASE pending = 0 /\ UNCHANGED <<accepted, live, toShell>>
      BY <2>1, <3>1, <3>2 DEF EventInv, HasCall, InCall, Closing, Opening, Closes, Starts
    <3>3. CASE /\ Head(fromPeer).n # pending
               /\ toShell' = Append(toShell, "closed") /\ UNCHANGED accepted
      <4>1. ~HasCall'
        BY <2>1, <3>1, <3>3, LateResponse DEF HasCall
      <4> QED BY <1>0, <3>1, <3>3, <4>1, EventSent
    <3>4. CASE /\ pending # 0 /\ accepted' = Head(fromPeer).ok
               /\ toShell' = Append(toShell, IF Head(fromPeer).ok THEN "accepted" ELSE "rejected")
      <4>1. CASE Head(fromPeer).ok
        BY <1>0, <2>1, <3>1, <3>4, <4>1, EventSent DEF HasCall
      <4>2. CASE ~Head(fromPeer).ok
        <5>1. ~HasCall' /\ toShell' = Append(toShell, "rejected")
          BY <3>1, <3>4, <4>2 DEF HasCall
        <5> QED BY <1>0, <3>1, <5>1, EventSent
      <4> QED BY <4>1, <4>2
    <3> QED BY <2>3, <3>2, <3>3, <3>4 DEF WorkerResponse
  <2> QED BY <1>4, <2>2, <2>3 DEF WorkerPeerMessage
<1>5. CASE DeviceStep \/ UNCHANGED vars
  <2>1. UNCHANGED <<pending, accepted, toShell, toWorker, voiceCallState>>
    BY <1>5 DEF DeviceStep, DeviceReceives, DeviceAnswers, DeviceHangsUp, vars, shell, session,
                chans
  <2> QED BY <2>1 DEF EventInv, HasCall, InCall, Closing, Opening, Closes, Starts
<1> QED BY <1>1, <1>2, <1>3, <1>4, <1>5 DEF Next, ShellStep, ShellMove, WorkerStep

(***************************************************************************)
(* The results.                                                            *)
(***************************************************************************)

VoiceInv ==
    /\ VoiceType /\ MicInv /\ FreshInv /\ LastInv /\ ConsentInv /\ EventInv
    /\ AudioOnlyWithConsent

\* The parts hold together in every state.
LEMMA VoiceInvariant == Spec => []VoiceInv
<1>1. Init => VoiceInv
  <2> SUFFICES ASSUME Init PROVE VoiceInv
      OBVIOUS
  <2>1. /\ DOMAIN toWorker = {} /\ DOMAIN toShell = {} /\ DOMAIN toPeer = {}
        /\ DOMAIN fromPeer = {} /\ toShell # <<"accepted">>
    BY DEF Init
  <2>2. ShellType /\ MicInv
    <3>1. attempt \in 0..MaxCalls
      BY VoiceBounds DEF Init
    <3> QED BY <3>1 DEF Init, ShellType, MicInv, UiStates
  <2>3. SessionType
    <3>1. pending \in 0..MaxCalls /\ live \in 0..MaxCalls
      BY VoiceBounds DEF Init
    <3> QED BY <3>1 DEF Init, SessionType
  <2>4. ChannelType
    BY VoiceBounds DEF Init, ChannelType
  <2>5. \A x \in Calls : ~Outstanding(x)
    BY <2>1 DEF Init, Outstanding
  <2>6. FreshInv /\ LastInv /\ AudioOnlyWithConsent
    BY <2>1, <2>5 DEF Init, FreshInv, LastInv, AudioOnlyWithConsent
  <2>7. ConsentInv
    BY <2>1, <2>5 DEF Init, ConsentInv
  <2>8. EventInv
    BY <2>1 DEF Init, EventInv, HasCall, InCall
  <2> QED BY <2>2, <2>3, <2>4, <2>6, <2>7, <2>8, VoiceGroups DEF VoiceInv
<1>2. VoiceInv /\ [Next]_vars => VoiceInv'
  BY VoiceTypeStep, FreshStep, LastStep, ConsentStep, EventStep, AudioStep DEF VoiceInv
<1> QED BY <1>1, <1>2, PTL DEF Spec

\* Shell, worker, channels and device always have their types.
THEOREM VoiceTypes == Spec => []TypeOK
<1>1. VoiceInv => TypeOK
  BY DEF VoiceInv, VoiceType
<1> QED BY <1>1, VoiceInvariant, PTL

\* For any number of attempts and any delay in the channels: sound leaves for the
\* device only in a call its user accepted, and never behind our own hang-up.
THEOREM AudioConsented == Spec => []AudioOnlyWithConsent
<1>1. VoiceInv => AudioOnlyWithConsent
  BY DEF VoiceInv
<1> QED BY <1>1, VoiceInvariant, PTL

\* For any number of attempts and any delay: the microphone is held only while the
\* button shows a call.
THEOREM MicInCall == Spec => []MicOnlyInCall
<1>1. VoiceInv => MicOnlyInCall
  BY DEF VoiceInv, MicInv, MicOnlyInCall
<1> QED BY <1>1, VoiceInvariant, PTL

\* For any number of attempts and any delay: once nothing is in flight between shell
\* and worker, they agree on whether there is a call.
THEOREM CallAgreed == Spec => []CallAgreement
<1>1. VoiceInv => CallAgreement
  <2> SUFFICES ASSUME VoiceInv, Quiet
               PROVE  voiceCallState = "idle" <=> (pending = 0 /\ ~accepted)
    BY DEF CallAgreement
  <2>1. DOMAIN toWorker = {} /\ toShell = <<>> /\ ~prep
    BY DEF Quiet
  <2>2. ~Closing /\ ~Opening
    BY <2>1 DEF Closing, Opening
  <2>3. HasCall <=> InCall
    BY <2>1, <2>2 DEF VoiceInv, EventInv
  <2>4. InCall <=> voiceCallState # "idle"
    BY <2>1 DEF VoiceInv, VoiceType, TypeOK, UiStates, MicInv, InCall
  <2> QED BY <2>3, <2>4 DEF HasCall
<1> QED BY <1>1, VoiceInvariant, PTL

=============================================================================
