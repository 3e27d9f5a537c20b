-------------------------- MODULE ClientShellProofs --------------------------
(***************************************************************************)
(* Proofs about ClientShell, for any set of devices, any schedule of retry *)
(* delays and any deadlines.                                               *)
(***************************************************************************)
EXTENDS ClientShell, TLAPS

(***************************************************************************)
(* Type correctness.                                                       *)
(***************************************************************************)

\* A retry is scheduled for a later tick, at the deadline at the latest.
LEMMA DelayInTime ==
    ASSUME TypeOK, clock < Timeout, NEW n \in Nat
    PROVE  /\ clock + NextRestartReconnectDelay(n) \in Nat \ {0}
           /\ clock + NextRestartReconnectDelay(n) <= Timeout
<1> DEFINE k == IF n < Len(Delays) THEN n + 1 ELSE Len(Delays)
<1>1. k \in 1..Len(Delays)
  BY ShellAssumption
<1>2. Delays[k] \in Nat \ {0}
  BY <1>1, ShellAssumption
<1>3. clock \in Nat /\ Timeout \in Nat
  BY ShellAssumption DEF TypeOK
<1> QED BY <1>2, <1>3 DEF NextRestartReconnectDelay

\* The conjuncts of TypeOK by kind: flags, labels and devices, numbers.
FlagType ==
    /\ busy \in BOOLEAN /\ reconnecting \in BOOLEAN
    /\ crashed \in BOOLEAN /\ wronged \in BOOLEAN /\ hasty \in BOOLEAN

DeviceType ==
    /\ state \in {"connecting", "streaming", "error", "closed"}
    /\ peerId \in Peers \cup {None} /\ worker \in Peers \cup {None}
    /\ filePanel \in Peers \cup {None} /\ advanced \in Peers \cup {None}
    /\ flow \in Peers \cup {None}

NumberType ==
    /\ attempt \in Nat /\ retry \in Nat /\ stable \in Nat /\ clock \in 0..Timeout
    /\ restarts \in 0..MaxRestarts /\ since \in Nat

\* Every handler leaves the flags Boolean.
LEMMA FlagTypeStep == TypeOK /\ [Next]_vars => FlagType'
<1> SUFFICES ASSUME FlagType, [Next]_vars PROVE FlagType'
    BY DEF TypeOK, FlagType
<1> USE DEF FlagType, session, panels, timers, history, ClearRestartFlow, Ended,
            StartSession, ExpireRestartFlow
<1>1. CASE UserStep
  <2>1. ASSUME NEW p \in Peers, ConnectClick(p) PROVE FlagType'
    BY <2>1 DEF ConnectClick
  <2>2. CASE DisconnectClick
    BY <2>2 DEF DisconnectClick
  <2>3. CASE BeginRemoteRestart
    BY <2>3 DEF BeginRemoteRestart
  <2>4. CASE CancelRestartReconnect
    BY <2>4 DEF CancelRestartReconnect
  <2>5. CASE OpenFilePanel
    BY <2>5 DEF OpenFilePanel
  <2>6. CASE OpenAdvancedPanel
    BY <2>6 DEF OpenAdvancedPanel
  <2>7. CASE AdvancedEnds
    BY <2>7 DEF AdvancedEnds
  <2> QED BY <1>1, <2>1, <2>2, <2>3, <2>4, <2>5, <2>6, <2>7 DEF UserStep
<1>2. CASE WorkerStep
  <2>1. CASE Streaming
    BY <2>1 DEF Streaming
  <2>2. CASE WorkerError
    BY <2>2 DEF WorkerError
  <2>3. CASE LoginError
    BY <2>3 DEF LoginError
  <2>4. CASE RestartDenied
    BY <2>4 DEF RestartDenied
  <2>5. CASE FileDenied
    BY <2>5 DEF FileDenied
  <2>6. ASSUME NEW s \in {"error", "closed"}, NEW b \in BOOLEAN, SessionEnds(s, b)
        PROVE  FlagType'
    BY <2>6 DEF SessionEnds, ScheduleRestartReconnect
  <2> QED BY <1>2, <2>1, <2>2, <2>3, <2>4, <2>5, <2>6 DEF WorkerStep
<1>3. CASE TimerStep
  <2>1. CASE RetryFires
    BY <2>1 DEF RetryFires
  <2>2. CASE StableFires
    BY <2>2 DEF StableFires
  <2>3. CASE DeadlineFires
    BY <2>3 DEF DeadlineFires
  <2>4. CASE Tick
    BY <2>4 DEF Tick
  <2> QED BY <1>3, <2>1, <2>2, <2>3, <2>4 DEF TimerStep
<1>4. CASE UNCHANGED vars
  BY <1>4 DEF vars
<1> QED BY <1>1, <1>2, <1>3, <1>4 DEF Next

\* Every handler shows and connects to devices only.
LEMMA DeviceTypeStep == TypeOK /\ [Next]_vars => DeviceType'
<1> SUFFICES ASSUME DeviceType, [Next]_vars PROVE DeviceType'
    BY DEF TypeOK, DeviceType
<1> USE DEF DeviceType, session, panels, timers, history, ClearRestartFlow, Ended,
            StartSession, ExpireRestartFlow
<1>1. CASE UserStep
  <2>1. ASSUME NEW p \in Peers, ConnectClick(p) PROVE DeviceType'
    BY <2>1 DEF ConnectClick
  <2>2. CASE DisconnectClick
    BY <2>2 DEF DisconnectClick
  <2>3. CASE BeginRemoteRestart
    BY <2>3 DEF BeginRemoteRestart
  <2>4. CASE CancelRestartReconnect
    BY <2>4 DEF CancelRestartReconnect
  <2>5. CASE OpenFilePanel
    BY <2>5 DEF OpenFilePanel
  <2>6. CASE OpenAdvancedPanel
    BY <2>6 DEF OpenAdvancedPanel
  <2>7. CASE AdvancedEnds
    BY <2>7 DEF AdvancedEnds
  <2> QED BY <1>1, <2>1, <2>2, <2>3, <2>4, <2>5, <2>6, <2>7 DEF UserStep
<1>2. CASE WorkerStep
  <2>1. CASE Streaming
    BY <2>1 DEF Streaming
  <2>2. CASE WorkerError
    BY <2>2 DEF WorkerError
  <2>3. CASE LoginError
    BY <2>3 DEF LoginError
  <2>4. CASE RestartDenied
    BY <2>4 DEF RestartDenied
  <2>5. CASE FileDenied
    BY <2>5 DEF FileDenied
  <2>6. ASSUME NEW s \in {"error", "closed"}, NEW b \in BOOLEAN, SessionEnds(s, b)
        PROVE  DeviceType'
    BY <2>6 DEF SessionEnds, ScheduleRestartReconnect
  <2> QED BY <1>2, <2>1, <2>2, <2>3, <2>4, <2>5, <2>6 DEF WorkerStep
<1>3. CASE TimerStep
  <2>1. CASE RetryFires
    BY <2>1 DEF RetryFires
  <2>2. CASE StableFires
    BY <2>2 DEF StableFires
  <2>3. CASE DeadlineFires
    BY <2>3 DEF DeadlineFires
  <2>4. CASE Tick
    BY <2>4 DEF Tick
  <2> QED BY <1>3, <2>1, <2>2, <2>3, <2>4 DEF TimerStep
<1>4. CASE UNCHANGED vars
  BY <1>4 DEF vars
<1> QED BY <1>1, <1>2, <1>3, <1>4 DEF Next

\* Every handler keeps the timers and counters in range; the clock stops at the
\* deadline.
LEMMA NumberTypeStep == TypeOK /\ [Next]_vars => NumberType'
<1> SUFFICES ASSUME TypeOK, NumberType, [Next]_vars PROVE NumberType'
    BY DEF TypeOK, NumberType
<1> USE ShellAssumption
    DEF NumberType, session, panels, timers, history, ClearRestartFlow, Ended,
        StartSession, ExpireRestartFlow, Due
<1>1. CASE UserStep
  <2>1. ASSUME NEW p \in Peers, ConnectClick(p) PROVE NumberType'
    BY <2>1 DEF ConnectClick
  <2>2. CASE DisconnectClick
    BY <2>2 DEF DisconnectClick
  <2>3. CASE BeginRemoteRestart
    BY <2>3 DEF BeginRemoteRestart
  <2>4. CASE CancelRestartReconnect
    BY <2>4 DEF CancelRestartReconnect
  <2>5. CASE OpenFilePanel
    BY <2>5 DEF OpenFilePanel
  <2>6. CASE OpenAdvancedPanel
    BY <2>6 DEF OpenAdvancedPanel
  <2>7. CASE AdvancedEnds
    BY <2>7 DEF AdvancedEnds
  <2> QED BY <1>1, <2>1, <2>2, <2>3, <2>4, <2>5, <2>6, <2>7 DEF UserStep
<1>2. CASE WorkerStep
  <2>1. CASE Streaming
    BY <2>1 DEF Streaming
  <2>2. CASE WorkerError
    BY <2>2 DEF WorkerError
  <2>3. CASE LoginError
    BY <2>3 DEF LoginError
  <2>4. CASE RestartDenied
    BY <2>4 DEF RestartDenied
  <2>5. CASE FileDenied
    BY <2>5 DEF FileDenied
  <2>6. ASSUME NEW s \in {"error", "closed"}, NEW b \in BOOLEAN, SessionEnds(s, b)
        PROVE  NumberType'
    <3>1. CASE flow # None /\ ~b /\ retry = 0 /\ clock < Timeout
      <4>1. clock + NextRestartReconnectDelay(attempt) \in Nat
        BY <3>1, DelayInTime
      <4>2. retry' = clock + NextRestartReconnectDelay(attempt) /\ attempt' = attempt + 1
        BY <2>6, <3>1 DEF SessionEnds, ScheduleRestartReconnect
      <4> QED BY <2>6, <3>1, <4>1, <4>2 DEF SessionEnds, ScheduleRestartReconnect
    <3>2. CASE ~(flow # None /\ ~b /\ retry = 0 /\ clock < Timeout)
      BY <2>6, <3>2 DEF SessionEnds, ScheduleRestartReconnect
    <3> QED BY <3>1, <3>2
  <2> QED BY <1>2, <2>1, <2>2, <2>3, <2>4, <2>5, <2>6 DEF WorkerStep
<1>3. CASE TimerStep
  <2>1. CASE RetryFires
    BY <2>1 DEF RetryFires
  <2>2. CASE StableFires
    BY <2>2 DEF StableFires
  <2>3. CASE DeadlineFires
    BY <2>3 DEF DeadlineFires
  <2>4. CASE Tick
    BY <2>4 DEF Tick
  <2> QED BY <1>3, <2>1, <2>2, <2>3, <2>4 DEF TimerStep
<1>4. CASE UNCHANGED vars
  BY <1>4 DEF vars
<1> QED BY <1>1, <1>2, <1>3, <1>4 DEF Next

\* The shell's variables always have their types.
THEOREM ShellTypes == Spec => []TypeOK
<1>1. Init => TypeOK
  <2> SUFFICES ASSUME Init PROVE TypeOK
      OBVIOUS
  <2>1. FlagType
    BY DEF Init, FlagType
  <2>2. DeviceType
    BY DEF Init, DeviceType
  <2>3. NumberType
    BY ShellAssumption DEF Init, NumberType
  <2> QED BY <2>1, <2>2, <2>3 DEF TypeOK, FlagType, DeviceType, NumberType
<1>2. TypeOK /\ [Next]_vars => TypeOK'
  BY FlagTypeStep, DeviceTypeStep, NumberTypeStep
     DEF TypeOK, FlagType, DeviceType, NumberType
<1> QED BY <1>1, <1>2, PTL DEF Spec

(***************************************************************************)
(* The restart flow and the screen.                                        *)
(***************************************************************************)

\* What RetryAlone and ScreenMatchesSession need to be inductive.  A flow keeps
\* the connect form disabled whenever it is not streaming, so, unless a worker
\* crashed, the user cannot turn to another device under it; and timers belong to
\* a flow.
FlowInv ==
    /\ flow = None => retry = 0 /\ stable = 0
    /\ retry # 0 => busy
    /\ ~crashed /\ flow # None => flow = peerId /\ (busy \/ state = "streaming")

ScreenInv == ScreenMatchesSession /\ RetryAlone /\ FlowInv

\* Every handler keeps screen, session and flow together.
LEMMA ScreenStep == TypeOK /\ ScreenInv /\ [Next]_vars => ScreenInv'
<1> SUFFICES ASSUME TypeOK, ScreenInv, [Next]_vars PROVE ScreenInv'
    OBVIOUS
<1> USE ShellAssumption
    DEF TypeOK, ScreenInv, ScreenMatchesSession, RetryAlone, FlowInv, session, panels,
        timers, history, ClearRestartFlow, Ended, StartSession, ExpireRestartFlow
<1>1. CASE UserStep
  <2>1. ASSUME NEW p \in Peers, ConnectClick(p) PROVE ScreenInv'
    BY <2>1 DEF ConnectClick
  <2>2. CASE DisconnectClick
    BY <2>2 DEF DisconnectClick
  <2>3. CASE BeginRemoteRestart
    BY <2>3 DEF BeginRemoteRestart
  <2>4. CASE CancelRestartReconnect
    BY <2>4 DEF CancelRestartReconnect
  <2>5. CASE OpenFilePanel
    BY <2>5 DEF OpenFilePanel
  <2>6. CASE OpenAdvancedPanel
    BY <2>6 DEF OpenAdvancedPanel
  <2>7. CASE AdvancedEnds
    BY <2>7 DEF AdvancedEnds
  <2> QED BY <1>1, <2>1, <2>2, <2>3, <2>4, <2>5, <2>6, <2>7 DEF UserStep
<1>2. CASE WorkerStep
  <2>1. CASE Streaming
    BY <2>1 DEF Streaming
  <2>2. CASE WorkerError
    BY <2>2 DEF WorkerError
  <2>3. CASE LoginError
    BY <2>3 DEF LoginError
  <2>4. CASE RestartDenied
    BY <2>4 DEF RestartDenied
  <2>5. CASE FileDenied
    BY <2>5 DEF FileDenied
  <2>6. ASSUME NEW s \in {"error", "closed"}, NEW b \in BOOLEAN, SessionEnds(s, b)
        PROVE  ScreenInv'
    <3>1. CASE flow # None /\ ~b /\ retry = 0 /\ clock < Timeout
      <4>1. clock + NextRestartReconnectDelay(attempt) <= Timeout
        BY <3>1, DelayInTime
      <4>2. retry' = clock + NextRestartReconnectDelay(attempt)
        BY <2>6, <3>1 DEF SessionEnds, ScheduleRestartReconnect
      <4> QED BY <2>6, <3>1, <4>1, <4>2 DEF SessionEnds, ScheduleRestartReconnect
    <3>2. CASE flow # None /\ ~b /\ retry = 0 /\ clock >= Timeout
      BY <2>6, <3>2 DEF SessionEnds, ScheduleRestartReconnect
    <3>3. CASE ~(flow # None /\ ~b /\ retry = 0)
      BY <2>6, <3>3 DEF SessionEnds
    <3> QED BY <3>1, <3>2, <3>3
  <2> QED BY <1>2, <2>1, <2>2, <2>3, <2>4, <2>5, <2>6 DEF WorkerStep
<1>3. CASE TimerStep
  <2>1. CASE RetryFires
    BY <2>1 DEF RetryFires
  <2>2. CASE StableFires
    BY <2>2 DEF StableFires
  <2>3. CASE DeadlineFires
    BY <2>3 DEF DeadlineFires
  <2>4. CASE Tick
    BY <2>4 DEF Tick
  <2> QED BY <1>3, <2>1, <2>2, <2>3, <2>4 DEF TimerStep
<1>4. CASE UNCHANGED vars
  BY <1>4 DEF vars
<1> QED BY <1>1, <1>2, <1>3, <1>4 DEF Next

\* The stability check of the running stream ends StableFor ticks after the
\* stream began: an earlier one never stands in for it.
StableInv ==
    /\ ~hasty
    /\ state = "streaming" /\ stable # 0 => stable >= since + StableFor

\* Every handler restarts the stability check with the stream.
LEMMA StableStep == TypeOK /\ FlowInv /\ StableInv /\ [Next]_vars => StableInv'
<1> SUFFICES ASSUME TypeOK, FlowInv, StableInv, [Next]_vars PROVE StableInv'
    OBVIOUS
<1> USE ShellAssumption
    DEF TypeOK, FlowInv, StableInv, session, panels,
        timers, history, ClearRestartFlow, Ended, StartSession, ExpireRestartFlow
<1>1. CASE UserStep
  <2>1. ASSUME NEW p \in Peers, ConnectClick(p) PROVE StableInv'
    BY <2>1 DEF ConnectClick
  <2>2. CASE DisconnectClick
    BY <2>2 DEF DisconnectClick
  <2>3. CASE BeginRemoteRestart
    BY <2>3 DEF BeginRemoteRestart
  <2>4. CASE CancelRestartReconnect
    BY <2>4 DEF CancelRestartReconnect
  <2>5. CASE OpenFilePanel
    BY <2>5 DEF OpenFilePanel
  <2>6. CASE OpenAdvancedPanel
    BY <2>6 DEF OpenAdvancedPanel
  <2>7. CASE AdvancedEnds
    BY <2>7 DEF AdvancedEnds
  <2> QED BY <1>1, <2>1, <2>2, <2>3, <2>4, <2>5, <2>6, <2>7 DEF UserStep
<1>2. CASE WorkerStep
  <2>1. CASE Streaming
    BY <2>1 DEF Streaming
  <2>2. CASE WorkerError
    BY <2>2 DEF WorkerError
  <2>3. CASE LoginError
    BY <2>3 DEF LoginError
  <2>4. CASE RestartDenied
    BY <2>4 DEF RestartDenied
  <2>5. CASE FileDenied
    BY <2>5 DEF FileDenied
  <2>6. ASSUME NEW s \in {"error", "closed"}, NEW b \in BOOLEAN, SessionEnds(s, b)
        PROVE  StableInv'
    <3>1. CASE flow # None /\ ~b /\ retry = 0
      BY <2>6, <3>1 DEF SessionEnds, ScheduleRestartReconnect
    <3>2. CASE ~(flow # None /\ ~b /\ retry = 0)
      BY <2>6, <3>2 DEF SessionEnds
    <3> QED BY <3>1, <3>2
  <2> QED BY <1>2, <2>1, <2>2, <2>3, <2>4, <2>5, <2>6 DEF WorkerStep
<1>3. CASE TimerStep
  <2>1. CASE RetryFires
    <3>1. CASE ExpireRestartFlow
      <4>1. stable' = 0 /\ UNCHANGED hasty
        BY <3>1
      <4> QED BY <4>1
    <3>2. CASE StartSession(flow) /\ UNCHANGED history
      <4>1. state' = "connecting" /\ UNCHANGED hasty
        BY <3>2
      <4> QED BY <4>1
    <3> QED BY <2>1, <3>1, <3>2 DEF RetryFires
  <2>2. CASE StableFires
    BY <2>2 DEF StableFires
  <2>3. CASE DeadlineFires
    BY <2>3 DEF DeadlineFires
  <2>4. CASE Tick
    BY <2>4 DEF Tick
  <2> QED BY <1>3, <2>1, <2>2, <2>3, <2>4 DEF TimerStep
<1>4. CASE UNCHANGED vars
  BY <1>4 DEF vars
<1> QED BY <1>1, <1>2, <1>3, <1>4 DEF Next

\* Every reachable state satisfies the inductive invariants.
LEMMA ShellInvariant == Spec => [](ScreenInv /\ StableInv)
<1>1. Init => ScreenInv /\ StableInv
  BY DEF Init, ScreenInv, ScreenMatchesSession, RetryAlone, FlowInv, StableInv
<1>2. TypeOK /\ ScreenInv /\ StableInv /\ [Next]_vars => ScreenInv' /\ StableInv'
  BY ScreenStep, StableStep DEF ScreenInv
<1> QED BY <1>1, <1>2, ShellTypes, PTL DEF Spec

\* The screen tells the truth about the session behind it.
THEOREM ScreenTrue == Spec => []ScreenMatchesSession
<1>1. ScreenInv => ScreenMatchesSession
  BY DEF ScreenInv
<1> QED BY <1>1, ShellInvariant, PTL

\* A pending retry of the restart flow never cuts off a session and never lies
\* behind the deadline.
THEOREM RetriesAlone == Spec => []RetryAlone
<1>1. ScreenInv => RetryAlone
  BY DEF ScreenInv
<1> QED BY <1>1, ShellInvariant, PTL

\* A reconnect is called restored only after StableFor ticks of one stream.
THEOREM RestoredStable == Spec => []RestoredIsStable
<1>1. StableInv => RestoredIsStable
  BY DEF StableInv, RestoredIsStable
<1> QED BY <1>1, ShellInvariant, PTL

==============================================================================
