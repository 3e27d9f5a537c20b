--------------------------- MODULE StrategyDelivery ---------------------------
(***************************************************************************)
(* How a device gets its policy (app/Models/Strategy.php, deliveryFor):    *)
(* the console keeps, per device, the map it last sent under a version     *)
(* token and the map the device last acknowledged by echoing its token;    *)
(* the device sends heartbeats with its token and applies what comes back. *)
(*                                                                         *)
(* A heartbeat is an HTTP request.  The request or its answer may be lost, *)
(* and the device may stop waiting and send the next one while a process   *)
(* still works on the first.  A process loads the device row and writes it *)
(* later (SyncController::heartbeat); others may write it in between.      *)
(*                                                                         *)
(* A map gives each option key a value or Unset.  A token is modelled by   *)
(* its rank among the tokens issued: the code takes max(time(), version+1),*)
(* newer than all before unless several are taken within one second.       *)
(* The code reads the strategy's id with the row and its options later; the *)
(* model reads both later.  A reassignment in between is one that came      *)
(* after the answer.                                                       *)
(***************************************************************************)
EXTENDS Naturals

CONSTANTS
    Keys, Vals,   \* option keys and their values
    Unset,        \* the key is absent; on the device, the built-in default
    Reset,        \* the empty string on the wire: back to the default
    Local,        \* a value the user of the device chose
    Beats,        \* heartbeat requests that may be under way at once
    NoBeat,       \* the device is not waiting for an answer
    MaxEvents     \* bound: edits of the policy and changes on the device

ASSUME ValueAssumption ==
    /\ Unset \notin Vals /\ Reset \notin Vals /\ Local \notin Vals
    /\ Unset # Reset /\ Unset # Local /\ Reset # Local
ASSUME BeatAssumption == NoBeat \notin Beats
ASSUME BoundAssumption == MaxEvents \in Nat

VARIABLES
    desired,    \* configOptions() of the resolved strategy, empty without one
    enforce,    \* that strategy re-pushes on every heartbeat
    active,     \* the device is approved (STATUS_ACTIVE)
    version,    \* strategy_version, 0 for null
    sent,       \* strategy_options
    acked,      \* strategy_acked_options
    top,        \* the newest token issued
    stage,      \* of each heartbeat request
    echo,       \* the token it carries
    older,      \* the requests that were under way when it was sent
    copy,       \* the device row as its process loaded it
    reply,      \* the strategy part of its answer; token 0: none
    awaited,    \* the request whose answer the device still waits for
    token,      \* the device's token, 0 if it never latched one
    held,       \* the device's settings
    behind,     \* history: requests a later one has overtaken
    overtaken,  \* history: an overtaken request has written the row
    events

row == <<version, sent, acked, top>>
policy == <<desired, enforce, active>>
requests == <<stage, echo, older, copy, reply>>
device == <<token, held>>
vars == <<policy, row, requests, awaited, device, behind, overtaken, events>>

Maps == [Keys -> Vals \cup {Unset}]
Nothing == [k \in Keys |-> Unset]
NoReply == [token |-> 0, wire |-> Nothing]
Row == [version |-> version, sent |-> sent, acked |-> acked, active |-> active]

Init ==
    /\ desired = Nothing /\ enforce = FALSE /\ active \in BOOLEAN
    /\ version = 0 /\ sent = Nothing /\ acked = Nothing /\ top = 0
    /\ stage = [b \in Beats |-> "idle"] /\ echo = [b \in Beats |-> 0]
    /\ older = [b \in Beats |-> {}]
    /\ copy = [b \in Beats |-> Row]
    /\ reply = [b \in Beats |-> NoReply]
    /\ awaited = NoBeat /\ token = 0 /\ held = Nothing
    /\ behind = {} /\ overtaken = FALSE /\ events = 0

-----------------------------------------------------------------------------
(* deliveryFor(), computed by the process of request b from its copy of the *)
(* row, the echo and the strategy as it is now.                             *)

\* Never had a policy and still does not, or is not under management.
\* mutant: a withdrawn policy is not taken back from the device
SilentWithoutPolicy(b) == ~copy[b].active \/ desired = Nothing

Silent(b) ==
    \/ ~copy[b].active
    \/ desired = Nothing /\ copy[b].acked = Nothing /\ copy[b].version = 0

\* The echo is evidence about the map sent under that token.
Acks(b) == copy[b].version # 0 /\ echo[b] = copy[b].version
Acked(b) == IF Acks(b) THEN copy[b].sent ELSE copy[b].acked

Bumps(b) == copy[b].version = 0 \/ copy[b].sent # desired

\* mutant: the token does not move with the map
NewTokenReused(b) == {IF copy[b].version = 0 THEN 1 ELSE copy[b].version}

\* max(time(), version + 1): above the copy's, and above all of them unless
\* others were taken in this very second.
NewToken(b) == (copy[b].version + 1) .. (top + 1)

\* Keys the device may be holding: what it acknowledged and what was sent.
\* mutant: only what was sent last
MayHoldSent(b) == {k \in Keys : copy[b].sent[k] # Unset}
MayHold(b) == {k \in Keys : Acked(b)[k] # Unset \/ copy[b].sent[k] # Unset}

Wire(b) ==
    [k \in Keys |-> IF desired[k] = Unset /\ k \in MayHold(b) THEN Reset
                                                             ELSE desired[k]]

\* mutant: the map is stored as it goes out, reset markers included
StoredAsSent(b) == Wire(b)
\* What strategy_options becomes: the wanted map, without the reset markers.
Stored(b) == desired

\* What is answered once the row's token is v.
Answer(b, v) ==
    IF echo[b] = v
    THEN IF enforce /\ desired # Nothing THEN [token |-> v, wire |-> desired] ELSE NoReply
    ELSE IF Wire(b) = Nothing THEN NoReply ELSE [token |-> v, wire |-> Wire(b)]

-----------------------------------------------------------------------------
(* A heartbeat and its life.                                               *)

\* A request is over: its slot is free again.
Free(b) ==
    /\ stage' = [stage EXCEPT ![b] = "idle"]
    /\ echo' = [echo EXCEPT ![b] = 0]
    /\ older' = [c \in Beats |-> IF c = b THEN {} ELSE older[c] \ {b}]
    /\ copy' = [copy EXCEPT ![b] = [version |-> 0, sent |-> Nothing,
                                    acked |-> Nothing, active |-> FALSE]]
    /\ reply' = [reply EXCEPT ![b] = NoReply]
    /\ behind' = behind \ {b}

Beat(b) ==
    /\ stage[b] = "idle" /\ awaited = NoBeat
    /\ stage' = [stage EXCEPT ![b] = "queued"]
    /\ echo' = [echo EXCEPT ![b] = token]
    /\ older' = [older EXCEPT ![b] = {c \in Beats : stage[c] # "idle"}]
    /\ awaited' = b
    /\ UNCHANGED <<policy, row, copy, reply, device, behind, overtaken, events>>

\* The request never arrives, or its answer is lost on the way back.
Lost(b) ==
    /\ awaited = b /\ stage[b] \in {"queued", "answered"}
    /\ awaited' = NoBeat
    /\ Free(b)
    /\ UNCHANGED <<policy, row, device, overtaken, events>>

\* The device stops waiting; the console does not learn of it.
GivesUp(b) ==
    /\ awaited = b /\ stage[b] \in {"queued", "loaded"}
    /\ awaited' = NoBeat
    /\ UNCHANGED <<policy, row, requests, device, behind, overtaken, events>>

\* heartbeat(): the device row is loaded.
Load(b) ==
    /\ stage[b] = "queued"
    /\ stage' = [stage EXCEPT ![b] = "loaded"]
    /\ copy' = [copy EXCEPT ![b] = Row]
    /\ behind' = behind \cup older[b]
    /\ UNCHANGED <<policy, row, echo, older, reply, awaited, device, overtaken, events>>

\* The answer of a process: kept if somebody waits for it.
Answers(b, r) ==
    \/ /\ awaited = b
       /\ stage' = [stage EXCEPT ![b] = "answered"]
       /\ reply' = [reply EXCEPT ![b] = r]
       /\ UNCHANGED <<echo, older, copy, behind>>
    \/ /\ awaited # b
       /\ Free(b)

\* deliveryFor(): the acknowledgement is recorded before the token moves; only
\* columns that changed against the copy are written.
DeliveryFor(b) ==
    /\ stage[b] = "loaded" /\ ~Silent(b)
    /\ acked' = IF Acks(b) /\ copy[b].acked # copy[b].sent THEN copy[b].sent ELSE acked
    /\ \/ /\ Bumps(b)
          /\ \E v \in NewToken(b) :
                /\ version' = v /\ sent' = Stored(b)
                /\ top' = IF v > top THEN v ELSE top
                /\ Answers(b, Answer(b, v))
       \/ /\ ~Bumps(b)
          /\ UNCHANGED <<version, sent, top>>
          /\ Answers(b, Answer(b, copy[b].version))
    /\ overtaken' = (overtaken \/ b \in behind)
    /\ UNCHANGED <<policy, awaited, device, events>>

NothingToSay(b) ==
    /\ stage[b] = "loaded" /\ Silent(b)
    /\ Answers(b, NoReply)
    /\ UNCHANGED <<policy, row, awaited, device, overtaken, events>>

\* The device applies what it is handed and latches the token.
Applied(w) ==
    [k \in Keys |-> CASE w[k] = Unset -> held[k]
                      [] w[k] = Reset -> Unset
                      [] OTHER -> w[k]]

Deliver(b) ==
    /\ awaited = b /\ stage[b] = "answered"
    /\ \/ /\ reply[b] # NoReply
          /\ token' = reply[b].token
          /\ held' = Applied(reply[b].wire)
       \/ /\ reply[b] = NoReply
          /\ UNCHANGED device
    /\ awaited' = NoBeat
    /\ Free(b)
    /\ UNCHANGED <<policy, row, overtaken, events>>

-----------------------------------------------------------------------------
(* What people do.                                                         *)

\* The strategy is edited, disabled, assigned or withdrawn.
EditPolicy(m, e) ==
    /\ events < MaxEvents /\ events' = events + 1
    /\ m # desired \/ e # enforce
    /\ desired' = m /\ enforce' = e
    /\ UNCHANGED <<active, row, requests, awaited, device, behind, overtaken>>

Approve ==
    /\ ~active /\ active' = TRUE
    /\ UNCHANGED <<desired, enforce, row, requests, awaited, device, behind,
                   overtaken, events>>

\* The user of the device changes a setting.
LocalEdit(k) ==
    /\ events < MaxEvents /\ events' = events + 1
    /\ held' = [held EXCEPT ![k] = Local]
    /\ UNCHANGED <<policy, row, requests, awaited, token, behind, overtaken>>

\* The client is installed afresh and has latched no token.
Reinstall ==
    /\ events < MaxEvents /\ events' = events + 1
    /\ awaited = NoBeat /\ token # 0
    /\ token' = 0 /\ held' = Nothing
    /\ UNCHANGED <<policy, row, requests, awaited, behind, overtaken>>

-----------------------------------------------------------------------------
Handle(b) == DeliveryFor(b) \/ NothingToSay(b)

Request == \E b \in Beats : Beat(b) \/ Load(b) \/ Handle(b) \/ Deliver(b)
Loss == \E b \in Beats : Lost(b) \/ GivesUp(b)
People == \/ \E m \in Maps, e \in BOOLEAN : EditPolicy(m, e)
          \/ Approve
          \/ \E k \in Keys : LocalEdit(k)
          \/ Reinstall

Next == Request \/ Loss \/ People

Spec == Init /\ [][Next]_vars

\* Fairness: the device goes on beating, processes finish, and a device that
\* asks for ever gets through, and is answered in time, some time.
Fairness ==
    /\ WF_vars(\E b \in Beats : Beat(b))
    /\ SF_vars(\E b \in Beats : Load(b) /\ awaited = b)
    /\ WF_vars(\E b \in Beats : Load(b))
    /\ SF_vars(\E b \in Beats : Handle(b) /\ awaited = b)
    /\ WF_vars(\E b \in Beats : Handle(b))
    /\ SF_vars(\E b \in Beats : Deliver(b))

LiveSpec == Spec /\ Fairness

-----------------------------------------------------------------------------
(* Properties.                                                             *)

\* The types of policy, row, requests and device.  The reset marker belongs to the
\* wire alone: what the row records as sent or acknowledged, and what the device
\* holds, has none (deliveryFor).
TypeOK ==
    /\ desired \in Maps /\ enforce \in BOOLEAN /\ active \in BOOLEAN
    /\ version \in Nat /\ sent \in Maps /\ acked \in Maps /\ top \in Nat
    /\ stage \in [Beats -> {"idle", "queued", "loaded", "answered"}]
    /\ echo \in [Beats -> Nat] /\ older \in [Beats -> SUBSET Beats]
    /\ copy \in [Beats -> [version : Nat, sent : Maps, acked : Maps, active : BOOLEAN]]
    /\ reply \in [Beats -> [token : Nat, wire : [Keys -> Vals \cup {Unset, Reset}]]]
    /\ awaited \in Beats \cup {NoBeat}
    /\ token \in Nat /\ held \in [Keys -> Vals \cup {Unset, Local}]
    /\ behind \subseteq Beats /\ overtaken \in BOOLEAN /\ events \in Nat

\* A key the console pushed stays on the device only as long as the console
\* remembers it: once the device has latched the current token, every pushed
\* key it holds belongs to the map of that token.
Forgotten(k) == token = version /\ held[k] \in Vals /\ sent[k] = Unset

\* No key is stranded, whatever is lost, retried, edited and reinstalled, unless
\* a request that the device gave up on is handled after a later one.
NoKeyStranded == ~overtaken => \A k \in Keys : ~Forgotten(k)

\* "The device echoed our current token: it is holding $desired": a device with
\* the row's token holds the map of that token, and an acknowledged map is held
\* by a device that has not moved on, up to what its user changed.
EchoIsEvidence ==
    ~overtaken /\ token # 0 =>
        LET told == IF token = version THEN sent ELSE acked IN
        \A k \in Keys : told[k] # Unset => held[k] \in {told[k], Local}

\* A policy that is left alone reaches the device: the keys it sets are set
\* (unless the user changed them and it does not enforce), and the keys it does
\* not set hold nothing the console once pushed.
Reached ==
    \A k \in Keys :
        IF desired[k] = Unset THEN held[k] \notin Vals
        ELSE held[k] = desired[k] \/ (held[k] = Local /\ ~enforce)

PolicyReached == []~overtaken => <>[](active => Reached)

\* What the comment in deliveryFor on the reset loop promises, with no proviso:
\* no key is left on the device "forever".
NeverStranded == <>[](active => Reached)

=============================================================================
