----------------------------- MODULE ClientShell -----------------------------
(***************************************************************************)
(* The shell of the web client (ui/app.ts): which device is shown, the one *)
(* worker that runs its session, the panels with connections of their own, *)
(* and the flow that restarts the remote device and reconnects to it.      *)
(*                                                                         *)
(* teardown() unhooks a worker before letting it go, so an event always    *)
(* comes from the current worker.  The states before 'streaming' are one   *)
(* state here, "connecting".  Time is counted in ticks since the restart   *)
(* request; a timer fires in the tick it is due, in any order with the     *)
(* others due in that tick.                                                *)
(***************************************************************************)
EXTENDS Naturals, Sequences

CONSTANTS
    Peers,        \* devices
    None,
    Delays,       \* RESTART_RECONNECT_DELAYS_MS, in ticks
    Timeout,      \* RESTART_RECONNECT_TIMEOUT_MS, in ticks
    StableFor,    \* the 15 seconds of a restored connection, in ticks
    MaxRestarts   \* bound: restart requests of the user

ASSUME ShellAssumption ==
    /\ None \notin Peers
    /\ Delays \in Seq(Nat \ {0}) /\ Delays # <<>>
    /\ Timeout \in Nat \ {0} /\ StableFor \in Nat \ {0} /\ MaxRestarts \in Nat

VARIABLES
    state,      \* as shown: "connecting", "streaming", "error", "closed"
    busy,       \* the connect form is disabled
    peerId,     \* the device shown
    worker,     \* the device the worker's session is with, or None
    filePanel,  \* the device the file panel's connection is with, or None
    advanced,   \* the same for the terminal and camera panels
    flow,       \* restartFlow: None, or the device it brings back
    attempt, reconnecting,
    retry,      \* due tick of flow.timer, 0 when not set
    stable,     \* due tick of flow.stableTimer, 0 when not set
    clock,      \* ticks since flow.startedAt
    \* history
    restarts,
    crashed,    \* worker.onerror was called at some time
    since,      \* tick at which the session last became 'streaming'
    wronged,    \* a streaming session was ended as one that did not return
    hasty       \* a reconnect was called stable before its time

session == <<state, busy, peerId, worker>>
panels  == <<filePanel, advanced>>
timers  == <<attempt, reconnecting, retry, stable, clock>>
history == <<restarts, crashed, since, wronged, hasty>>
vars    == <<session, panels, flow, timers, history>>

Init ==
    /\ state = "closed" /\ busy = FALSE /\ peerId = None /\ worker = None
    /\ filePanel = None /\ advanced = None
    /\ flow = None /\ attempt = 0 /\ reconnecting = FALSE
    /\ retry = 0 /\ stable = 0 /\ clock = 0
    /\ restarts = 0 /\ crashed = FALSE /\ since = 0 /\ wronged = FALSE /\ hasty = FALSE

-----------------------------------------------------------------------------
(* Helpers *)

\* mutant: the timers outlive their flow
ClearRestartFlowKeepsTimers ==
    /\ flow' = None /\ attempt' = 0 /\ reconnecting' = FALSE /\ clock' = clock
    /\ UNCHANGED <<retry, stable>>

\* clearRestartFlow
ClearRestartFlow ==
    /\ flow' = None /\ attempt' = 0 /\ reconnecting' = FALSE
    /\ retry' = 0 /\ stable' = 0 /\ clock' = 0

\* mutant: the worker is not let go
EndedKeepsWorker(s) ==
    /\ state' = s /\ busy' = FALSE
    /\ filePanel' = None /\ advanced' = None
    /\ UNCHANGED <<worker, peerId>>

\* setState('error') and setState('closed'): teardown, every panel destroyed.
Ended(s) ==
    /\ state' = s /\ busy' = FALSE
    /\ worker' = None /\ filePanel' = None /\ advanced' = None
    /\ UNCHANGED peerId

\* startSession
StartSession(p) ==
    /\ worker' = p /\ filePanel' = None
    /\ state' = "connecting" /\ busy' = TRUE
    /\ UNCHANGED advanced

\* nextRestartReconnectDelay, for an elapsed time below the timeout.
NextRestartReconnectDelay(n) ==
    LET delay == Delays[IF n < Len(Delays) THEN n + 1 ELSE Len(Delays)]
    IN IF delay < Timeout - clock THEN delay ELSE Timeout - clock

-----------------------------------------------------------------------------
(* The user *)

\* onConnectClick
ConnectClick(p) ==
    /\ ~busy /\ state # "streaming"
    /\ worker = None \/ state \in {"error", "closed"}
    /\ peerId' = p
    /\ StartSession(p)
    /\ UNCHANGED <<flow, timers, history>>

\* The disconnect button.
DisconnectClick ==
    /\ state = "streaming"
    /\ ClearRestartFlow
    /\ Ended("closed")
    /\ UNCHANGED history

\* beginRemoteRestart; a running flow is replaced.
BeginRemoteRestart ==
    /\ state = "streaming" /\ restarts < MaxRestarts
    /\ restarts' = restarts + 1
    /\ flow' = peerId /\ attempt' = 0 /\ reconnecting' = FALSE
    /\ retry' = 0 /\ stable' = 0 /\ clock' = 0
    /\ since' = 0
    /\ UNCHANGED <<session, panels, crashed, wronged, hasty>>

\* cancelRestartReconnect: its button is on the overlay.
CancelRestartReconnect ==
    /\ flow # None /\ state # "streaming"
    /\ ClearRestartFlow
    /\ Ended("closed")
    /\ UNCHANGED history

OpenFilePanel ==
    /\ state = "streaming" /\ filePanel = None
    /\ filePanel' = peerId
    /\ UNCHANGED <<session, advanced, flow, timers, history>>

\* The terminal or camera panel connects.
OpenAdvancedPanel ==
    /\ state = "streaming" /\ advanced = None
    /\ advanced' = peerId
    /\ UNCHANGED <<session, filePanel, flow, timers, history>>

\* Its connection ends, or its panel is closed.
AdvancedEnds ==
    /\ advanced # None
    /\ advanced' = None
    /\ UNCHANGED <<session, filePanel, flow, timers, history>>

-----------------------------------------------------------------------------
(* Events of the worker *)

\* mutant: the stability check of an earlier connection is not restarted
StreamingKeepsStable ==
    /\ worker # None /\ state = "connecting"
    /\ state' = "streaming"
    /\ stable' = IF flow # None /\ stable = 0 THEN clock + StableFor ELSE stable
    /\ since' = clock
    /\ UNCHANGED <<busy, peerId, worker, panels, flow, attempt, reconnecting, retry,
                   clock, restarts, crashed, wronged, hasty>>

\* 'streaming': a running flow starts its stability check.
Streaming ==
    /\ worker # None /\ state = "connecting"
    /\ state' = "streaming"
    /\ stable' = IF flow # None THEN clock + StableFor ELSE stable
    /\ since' = clock
    /\ UNCHANGED <<busy, peerId, worker, panels, flow, attempt, reconnecting, retry,
                   clock, restarts, crashed, wronged, hasty>>

\* scheduleRestartReconnect, when no retry is pending.
ScheduleRestartReconnect ==
    /\ stable' = 0
    /\ IF clock >= Timeout
       THEN /\ flow' = None /\ attempt' = 0 /\ reconnecting' = FALSE
            /\ retry' = 0 /\ clock' = 0
            /\ Ended("error")
       ELSE /\ attempt' = attempt + 1
            /\ retry' = clock + NextRestartReconnectDelay(attempt)
            /\ state' = "connecting" /\ busy' = TRUE
            /\ worker' = None /\ filePanel' = None
            /\ UNCHANGED <<peerId, advanced, flow, reconnecting, clock>>

\* 'error' or 'closed' from the session, by the device or not.
SessionEnds(s, peerInitiated) ==
    /\ worker # None
    /\ \/ /\ flow # None /\ ~peerInitiated
          /\ IF retry # 0 THEN UNCHANGED <<session, panels, flow, timers>>
             ELSE ScheduleRestartReconnect
       \/ /\ flow # None /\ peerInitiated
          /\ ClearRestartFlow
          /\ Ended(s)
       \/ /\ flow = None
          /\ Ended(s)
          /\ UNCHANGED <<flow, timers>>
    /\ UNCHANGED history

\* worker.onerror: an exception in the worker; a running flow is left alone.
WorkerError ==
    /\ worker # None
    /\ Ended("error")
    /\ crashed' = TRUE
    /\ UNCHANGED <<flow, timers, restarts, since, wronged, hasty>>

\* 'loginError': back to the form; the state shown stays what it was.
LoginError ==
    /\ worker # None /\ state = "connecting"
    /\ ClearRestartFlow
    /\ worker' = None /\ busy' = FALSE
    /\ UNCHANGED <<state, peerId, panels, history>>

\* applyPermission('Restart', false)
RestartDenied ==
    /\ worker # None /\ flow # None
    /\ ClearRestartFlow
    /\ IF state = "streaming" THEN UNCHANGED <<session, panels>> ELSE Ended("error")
    /\ UNCHANGED history

\* applyPermission('File', false)
FileDenied ==
    /\ worker # None /\ filePanel # None
    /\ filePanel' = None
    /\ UNCHANGED <<session, advanced, flow, timers, history>>

-----------------------------------------------------------------------------
(* Timers *)

\* expireRestartFlow
ExpireRestartFlow ==
    /\ ClearRestartFlow
    /\ wronged' = (wronged \/ (reconnecting /\ state = "streaming"))
    /\ IF ~reconnecting /\ state = "streaming" THEN UNCHANGED <<session, panels>>
       ELSE Ended("error")
    /\ UNCHANGED <<restarts, crashed, since, hasty>>

RetryFires ==
    /\ retry # 0 /\ retry <= clock /\ flow # None
    /\ \/ /\ clock >= Timeout
          /\ ExpireRestartFlow
       \/ /\ clock < Timeout
          /\ retry' = 0 /\ reconnecting' = TRUE
          /\ StartSession(flow)
          /\ UNCHANGED <<peerId, flow, attempt, stable, clock, history>>

StableFires ==
    /\ stable # 0 /\ stable <= clock /\ flow # None
    /\ IF state = "streaming"
       THEN /\ ClearRestartFlow
            /\ hasty' = (hasty \/ clock < since + StableFor)
       ELSE /\ stable' = 0
            /\ UNCHANGED <<flow, attempt, reconnecting, retry, clock, hasty>>
    /\ UNCHANGED <<session, panels, restarts, crashed, since, wronged>>

\* mutant: the deadline looks only at a flow that has begun to reconnect
DeadlineFiresLazily ==
    /\ flow # None /\ clock >= Timeout /\ reconnecting
    /\ ExpireRestartFlow

DeadlineFires ==
    /\ flow # None /\ clock >= Timeout
    /\ ExpireRestartFlow

Due == (retry # 0 /\ retry <= clock) \/ (stable # 0 /\ stable <= clock)
       \/ clock >= Timeout

Tick ==
    /\ flow # None /\ ~Due
    /\ clock' = clock + 1
    /\ UNCHANGED <<session, panels, flow, attempt, reconnecting, retry, stable, history>>

-----------------------------------------------------------------------------
UserStep == \/ \E p \in Peers : ConnectClick(p)
            \/ DisconnectClick \/ BeginRemoteRestart \/ CancelRestartReconnect
            \/ OpenFilePanel \/ OpenAdvancedPanel \/ AdvancedEnds
WorkerStep == \/ Streaming \/ WorkerError \/ LoginError \/ RestartDenied \/ FileDenied
              \/ \E s \in {"error", "closed"}, b \in BOOLEAN : SessionEnds(s, b)
TimerStep == RetryFires \/ StableFires \/ DeadlineFires \/ Tick

Next == UserStep \/ WorkerStep \/ TimerStep

Spec == Init /\ [][Next]_vars

\* Fairness: time passes and timers fire.
LiveSpec == Spec /\ WF_vars(TimerStep)

-----------------------------------------------------------------------------
(* Properties *)

\* The types of the shell, its panels, its timers and the history.
TypeOK ==
    /\ state \in {"connecting", "streaming", "error", "closed"}
    /\ busy \in BOOLEAN /\ peerId \in Peers \cup {None} /\ worker \in Peers \cup {None}
    /\ filePanel \in Peers \cup {None} /\ advanced \in Peers \cup {None}
    /\ flow \in Peers \cup {None}
    /\ attempt \in Nat /\ reconnecting \in BOOLEAN
    /\ retry \in Nat /\ stable \in Nat /\ clock \in 0..Timeout
    /\ restarts \in 0..MaxRestarts /\ since \in Nat
    /\ crashed \in BOOLEAN /\ wronged \in BOOLEAN /\ hasty \in BOOLEAN

\* The screen tells the truth about the session: a stream has a worker behind it,
\* an ended screen has none and the form can be used, and (unless a worker
\* crashed) the session is with the device shown.
ScreenMatchesSession ==
    /\ state = "streaming" => worker # None
    /\ state \in {"error", "closed"} => worker = None /\ ~busy
    /\ ~crashed => worker \in {None, peerId}

\* A pending retry belongs to a living flow, stands alone (no session it would
\* cut off) and never lies behind the deadline.
RetryAlone ==
    retry # 0 => flow # None /\ worker = None /\ state = "connecting" /\ retry <= Timeout

\* A reconnect is called restored only after an uninterrupted stream.
RestoredIsStable == ~hasty

\* A restart flow always comes to an end: restored, given up or taken back.
FlowEnds == (flow # None) ~> (flow = None)

\* The comment in startSession: a fresh connection retires everything that
\* belonged to the previous session.
FreshConnectionRetiresAll ==
    state = "streaming" => /\ filePanel \in {None, worker}
                           /\ advanced \in {None, worker}
                           /\ flow \in {None, worker}

\* "The remote device did not return" is never said of a session that streams.
VerdictTrue == ~wronged

=============================================================================
