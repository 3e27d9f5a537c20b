------------------------ MODULE PresenceNotifications ------------------------
(***************************************************************************)
(* Offline and recovery alerts for one approved device: the minute sweep   *)
(* (app/Console/Commands/CheckDeviceNotifications.php), the heartbeat that *)
(* reports a recovery at once (SyncController::heartbeat), the durable     *)
(* claim row and the legacy cache marker they contend for                  *)
(* (app/Models/DevicePresenceNotificationState.php), and the cooldown of   *)
(* AppriseNotifications::send.                                             *)
(*                                                                         *)
(* Procs are PHP processes: sweeps and requests that handle a heartbeat.   *)
(* One step is one database statement or one cache call; anything may run  *)
(* between two of them, and a process may die between two of them.         *)
(*                                                                         *)
(* An outage marker is the record that an offline alert was delivered: the *)
(* delivered row, or the cache key older versions wrote.  Each marker has  *)
(* a number, 0 for the legacy one, so that "announced at most once" can be *)
(* said of it.                                                             *)
(***************************************************************************)
EXTENDS Naturals

CONSTANTS
    Procs,        \* PHP processes
    NoProc,       \* nobody: the lock is free, the row holds no claim token
    Allowed,      \* the events enabled, configured and scoped for the device
    MaxOutages,   \* bound: how often the device falls silent
    MaxFaults     \* bound: how often a process dies or outstays its claim

Offline == "device.offline"
Online == "device.online"

ASSUME NoProcAssumption == NoProc \notin Procs
ASSUME AllowedAssumption == Allowed \subseteq {Offline, Online}
ASSUME BoundsAssumption == MaxOutages \in Nat /\ MaxFaults \in Nat

VARIABLES
    presence,    \* heard lately, silent within the grace period, or past it
    row,         \* the device's notification state row
    token,       \* offline_claim_token of a pending row
    aged,        \* offline_claimed_at is CLAIM_TIMEOUT_SECONDS old
    mark,        \* number of the marker a delivered row stands for
    legacy,      \* the 30-day cache key of older versions exists
    lock,        \* owner of the cache lock on the legacy marker
    cooling,     \* events whose cooldown key is in the cache
    pc,          \* the next call of a process
    role,        \* what a process runs, and what a sweep loaded at its start
    held,        \* markers the process has consumed and not yet announced
    announced,   \* history: markers whose recovery was sent
    marks,       \* history: number of the last marker made
    outages, faults

device == <<presence, outages>>
claim == <<row, token, aged, mark, marks>>
shared == <<legacy, lock, cooling>>
vars == <<device, claim, shared, pc, role, held, announced, faults>>

Steps ==
    {"idle", "load", "fast", "lock", "check", "consumeBoth", "owned", "pull",
     "insert", "consume", "claim", "reclaim", "cool", "post", "mark",
     "release", "online", "tell"}

(***************************************************************************)
(* "beat": a heartbeat request.  A sweep is "quiet" if it loaded a snooze  *)
(* for the device, "reported" if it loaded a delivered row, else "sweep";  *)
(* it is "alert" once it has found the device silent, and, as a history    *)
(* that no step reads, "late" once its claim has timed out under it.       *)
(***************************************************************************)
Roles == {"none", "beat", "sweep", "reported", "quiet", "alert", "late"}

\* The types of the shared rows and cache keys and of each process.
TypeOK ==
    /\ presence \in {"online", "grace", "offline"}
    /\ row \in {"none", "pending", "delivered"}
    /\ token \in Procs \cup {NoProc}
    /\ aged \in BOOLEAN
    /\ mark \in Nat /\ marks \in Nat
    /\ legacy \in BOOLEAN
    /\ lock \in Procs \cup {NoProc}
    /\ cooling \in SUBSET {Offline, Online}
    /\ pc \in [Procs -> Steps]
    /\ role \in [Procs -> Roles]
    /\ held \in [Procs -> SUBSET Nat]
    /\ announced \in SUBSET Nat
    /\ outages \in Nat /\ faults \in Nat

(***************************************************************************)
(* An upgraded installation may start with the legacy marker, with the     *)
(* durable row, or with both.                                              *)
(***************************************************************************)
Init ==
    /\ presence = "online" /\ outages = 0 /\ faults = 0
    /\ row \in {"none", "delivered"}
    /\ token = NoProc /\ aged = FALSE
    /\ mark = IF row = "none" THEN 0 ELSE 1
    /\ marks = 1
    /\ legacy \in BOOLEAN
    /\ lock = NoProc /\ cooling = {}
    /\ pc = [p \in Procs |-> "idle"]
    /\ role = [p \in Procs |-> "none"]
    /\ held = [p \in Procs |-> {}]
    /\ announced = {}

\* The next call of p; a process that is done or dead keeps nothing.
Goto(p, step) ==
    /\ pc' = [pc EXCEPT ![p] = step]
    /\ role' = [role EXCEPT ![p] = IF step = "idle" THEN "none" ELSE @]

Enter(p, step, what) ==
    /\ pc' = [pc EXCEPT ![p] = step]
    /\ role' = [role EXCEPT ![p] = what]

-----------------------------------------------------------------------------
(* How a process begins.                                                   *)

\* handle(): the states and the active snoozes are loaded once, before the
\* devices.  Snoozes come and go with operators and time: here, an input.
Sweep(p, snoozed) ==
    /\ pc[p] = "idle" /\ Allowed # {}
    /\ Enter(p, "load", IF snoozed THEN "quiet"
                        ELSE IF row = "delivered" THEN "reported" ELSE "sweep")
    /\ UNCHANGED <<device, claim, shared, held, announced, faults>>

\* mutant: the grace comparison reversed
LoadWithinGrace(p) ==
    /\ pc[p] = "load"
    /\ \/ presence = "online" /\ Enter(p, "fast", IF role[p] = "quiet" THEN "quiet" ELSE "sweep")
       \/ presence = "grace" /\ role[p] = "sweep" /\ Enter(p, "lock", "alert")
       \/ presence # "online" /\ ~(presence = "grace" /\ role[p] = "sweep") /\ Goto(p, "idle")
    /\ UNCHANGED <<device, claim, shared, held, announced, faults>>

\* The device row as its chunk is read: online devices may recover, silent
\* ones past the grace period, not snoozed and not yet reported, are alerted.
Load(p) ==
    /\ pc[p] = "load"
    /\ \/ presence = "online" /\ Enter(p, "fast", IF role[p] = "quiet" THEN "quiet" ELSE "sweep")
       \/ presence = "offline" /\ role[p] = "sweep" /\ Enter(p, "lock", "alert")
       \/ presence # "online" /\ ~(presence = "offline" /\ role[p] = "sweep") /\ Goto(p, "idle")
    /\ UNCHANGED <<device, claim, shared, held, announced, faults>>

\* heartbeat(): presence is saved, then reportOnline runs.
Heartbeat(p) ==
    /\ pc[p] = "idle"
    /\ presence' = "online"
    /\ Enter(p, "fast", "beat")
    /\ UNCHANGED <<outages, claim, shared, held, announced, faults>>

-----------------------------------------------------------------------------
(* The legacy marker and its lock.                                         *)

\* mutant: the gate forgets the durable row
HasAnyRecoverableStateLegacy(p) ==
    /\ pc[p] = "fast"
    /\ Goto(p, IF legacy THEN "lock" ELSE "idle")
    /\ UNCHANGED <<device, claim, shared, held, announced, faults>>

\* hasAnyRecoverableStateFor: two unlocked reads in front of the claim.
HasAnyRecoverableState(p) ==
    /\ pc[p] = "fast"
    /\ Goto(p, IF legacy \/ row = "delivered" THEN "lock" ELSE "idle")
    /\ UNCHANGED <<device, claim, shared, held, announced, faults>>

\* mutant: the lock is taken over from its owner
TakeLegacyLockAlways(p) ==
    /\ pc[p] = "lock"
    /\ lock' = p /\ Goto(p, "check")
    /\ UNCHANGED <<device, claim, legacy, cooling, held,
                   announced, faults>>

\* claimLegacyMarkerFor, first half: take the lock or leave it to its owner.
TakeLegacyLock(p) ==
    /\ pc[p] = "lock"
    /\ \/ lock = NoProc /\ lock' = p /\ Goto(p, "check")
       \/ lock # NoProc /\ Goto(p, "idle") /\ UNCHANGED lock
    /\ UNCHANGED <<device, claim, legacy, cooling, held,
                   announced, faults>>

\* A lock is released by its owner only.
Unlock(p) == lock' = IF lock = p THEN NoProc ELSE lock

\* claimLegacyMarkerFor, second half: without a marker the lock is given back.
CheckLegacyMarker(p) ==
    /\ pc[p] = "check"
    /\ \/ /\ legacy
          /\ Goto(p, IF role[p] = "alert" THEN "owned" ELSE "consumeBoth")
          /\ UNCHANGED lock
       \/ /\ ~legacy
          /\ Goto(p, IF role[p] = "alert" THEN "claim" ELSE "consume")
          /\ Unlock(p)
    /\ UNCHANGED <<device, claim, legacy, cooling, held,
                   announced, faults>>

\* convertClaimedLegacyMarkerFor and consumeClaimedLegacyMarkerFor begin
\* alike: still the owner?  then read the marker (pull = get, then forget).
OwnsLegacyMarker(p) ==
    /\ pc[p] = "owned"
    /\ \/ lock = p /\ legacy /\ Goto(p, "pull") /\ UNCHANGED lock
       \/ /\ lock # p \/ ~legacy
          /\ Goto(p, IF held[p] # {} THEN "online" ELSE "idle")
          /\ Unlock(p)
    /\ UNCHANGED <<device, claim, legacy, cooling, held,
                   announced, faults>>

\* The marker is gone: a recovery owns it now, a sweep goes on to record it.
PullLegacyMarker(p) ==
    /\ pc[p] = "pull"
    /\ legacy' = FALSE
    /\ \/ /\ role[p] # "alert"
          /\ held' = [held EXCEPT ![p] = @ \cup {0}]
          /\ Unlock(p) /\ Goto(p, "online")
       \/ /\ role[p] = "alert"
          /\ Goto(p, "insert")
          /\ UNCHANGED <<held, lock>>
    /\ UNCHANGED <<device, claim, cooling, announced, faults>>

\* recordLegacyOffline: insertOrIgnore of a delivered row, then the release.
RecordLegacyOffline(p) ==
    /\ pc[p] = "insert"
    /\ \/ row = "none" /\ row' = "delivered" /\ mark' = 0
       \/ row # "none" /\ UNCHANGED <<row, mark>>
    /\ Unlock(p) /\ Goto(p, "idle")
    /\ UNCHANGED <<device, token, aged, marks, legacy, cooling, held,
                   announced, faults>>

-----------------------------------------------------------------------------
(* Recovery: the delivered row is deleted by exactly one consumer.         *)

\* consumeFor deletes a delivered row and says whether it did.
ConsumeFor(p) ==
    /\ \/ /\ row = "delivered" /\ row' = "none" /\ mark' = 0
          /\ held' = [held EXCEPT ![p] = @ \cup {mark}]
       \/ row # "delivered" /\ UNCHANGED <<row, mark, held>>
    /\ UNCHANGED <<token, aged, marks>>

ConsumeRow(p) ==
    /\ pc[p] = "consume"
    /\ ConsumeFor(p)
    /\ Goto(p, IF held'[p] # {} THEN "online" ELSE "idle")
    /\ UNCHANGED <<device, shared, announced, faults>>

\* With the legacy marker claimed, the row goes first and the marker second.
ConsumeRowThenMarker(p) ==
    /\ pc[p] = "consumeBoth"
    /\ ConsumeFor(p)
    /\ Goto(p, "owned")
    /\ UNCHANGED <<device, shared, announced, faults>>

\* A snooze closes the outage silently; the sweep goes by the snoozes it
\* loaded, a heartbeat by those of now.  Otherwise send() applies the cooldown.
SendOnline(p, snoozed) ==
    /\ pc[p] = "online"
    /\ LET hushed == IF role[p] = "beat" THEN snoozed ELSE role[p] = "quiet" IN
       \/ /\ ~hushed /\ Online \in Allowed \ cooling
          /\ cooling' = cooling \cup {Online}
          /\ Goto(p, "tell")
          /\ UNCHANGED held
       \/ /\ hushed \/ Online \notin Allowed \ cooling
          /\ held' = [held EXCEPT ![p] = {}]
          /\ Goto(p, "idle")
          /\ UNCHANGED cooling
    /\ UNCHANGED <<device, claim, legacy, lock, announced, faults>>

\* deliver(): whatever the outcome, it is not repeated.
DeliverOnline(p) ==
    /\ pc[p] = "tell"
    /\ announced' = announced \cup held[p]
    /\ held' = [held EXCEPT ![p] = {}]
    /\ Goto(p, "idle")
    /\ UNCHANGED <<device, claim, shared, faults>>

-----------------------------------------------------------------------------
(* The offline alert: claim, send, then complete or release the claim.     *)

Sending == {"cool", "post", "mark"}

Own(p) ==
    /\ row' = "pending" /\ token' = p /\ aged' = FALSE
    /\ Goto(p, "cool")

\* claimOfflineFor, first statement: insertOrIgnore of the pending row.
ClaimOffline(p) ==
    /\ pc[p] = "claim"
    /\ \/ row = "none" /\ Own(p)
       \/ row # "none" /\ Goto(p, "reclaim") /\ UNCHANGED <<row, token, aged>>
    /\ UNCHANGED <<device, mark, marks, shared, held, announced, faults>>

\* claimOfflineFor, second statement: take over a claim that timed out.
\* mutant: no timeout on the claim
ReclaimableEarly == row = "pending"

Reclaimable == row = "pending" /\ aged

ReclaimOffline(p) ==
    /\ pc[p] = "reclaim"
    /\ \/ Reclaimable /\ Own(p)
       \/ ~Reclaimable /\ Goto(p, "idle") /\ UNCHANGED <<row, token, aged>>
    /\ UNCHANGED <<device, mark, marks, shared, held, announced, faults>>

\* send(): nothing is sent for a disabled event or within its cooldown.
SendOffline(p) ==
    /\ pc[p] = "cool"
    /\ \/ /\ Offline \in Allowed \ cooling
          /\ cooling' = cooling \cup {Offline}
          /\ Goto(p, "post")
       \/ /\ Offline \notin Allowed \ cooling
          /\ Goto(p, "release")
          /\ UNCHANGED cooling
    /\ UNCHANGED <<device, claim, legacy, lock, held, announced, faults>>

DeliverOffline(p, step) ==
    /\ pc[p] = "post"
    /\ Goto(p, step)
    /\ UNCHANGED <<device, claim, shared, held, announced, faults>>

Delivered(p) == DeliverOffline(p, "mark")
DeliveryFails(p) == DeliverOffline(p, "release")

\* markDelivered: only the owner of the pending claim completes it; anyone
\* else falls through to releaseClaim.
MarkDelivered(p) ==
    /\ pc[p] = "mark"
    /\ \/ /\ row = "pending" /\ token = p
          /\ row' = "delivered" /\ token' = NoProc /\ aged' = FALSE
          /\ marks' = marks + 1 /\ mark' = marks + 1
          /\ Goto(p, "idle")
       \/ /\ ~(row = "pending" /\ token = p)
          /\ Goto(p, "release")
          /\ UNCHANGED claim
    /\ UNCHANGED <<device, shared, held, announced, faults>>

\* mutant: the token is not compared
ReleaseClaimUnowned(p) ==
    /\ pc[p] = "release"
    /\ \/ row = "pending" /\ row' = "none" /\ token' = NoProc /\ aged' = FALSE
       \/ row # "pending" /\ UNCHANGED <<row, token, aged>>
    /\ Goto(p, "idle")
    /\ UNCHANGED <<device, mark, marks, shared, held, announced, faults>>

\* releaseClaim: only the owner's pending row is deleted.
ReleaseClaim(p) ==
    /\ pc[p] = "release"
    /\ \/ /\ row = "pending" /\ token = p
          /\ row' = "none" /\ token' = NoProc /\ aged' = FALSE
       \/ /\ ~(row = "pending" /\ token = p)
          /\ UNCHANGED <<row, token, aged>>
    /\ Goto(p, "idle")
    /\ UNCHANGED <<device, mark, marks, shared, held, announced, faults>>

-----------------------------------------------------------------------------
(* What happens around the processes.                                      *)

\* The process dies: its claim, its lock and its place in the cache stay.
Crash(p) ==
    /\ pc[p] # "idle" /\ faults < MaxFaults
    /\ faults' = faults + 1
    /\ Goto(p, "idle")
    /\ held' = [held EXCEPT ![p] = {}]
    /\ UNCHANGED <<device, claim, shared, announced>>

\* The online window passes without a heartbeat, then the grace period.
FallSilent ==
    /\ \/ /\ presence = "online" /\ outages < MaxOutages
          /\ presence' = "grace" /\ outages' = outages + 1
       \/ presence = "grace" /\ presence' = "offline" /\ UNCHANGED outages
    /\ UNCHANGED <<claim, shared, pc, role, held, announced, faults>>

\* A pending claim grows older than CLAIM_TIMEOUT_SECONDS.  Its owner is dead
\* or, which counts as a fault, still at work.
AtWork(p) == pc[p] \in Sending \cup {"release"}

ClaimAges ==
    /\ row = "pending" /\ ~aged
    /\ aged' = TRUE
    /\ \/ ~AtWork(token) /\ UNCHANGED <<role, faults>>
       \/ /\ AtWork(token) /\ faults < MaxFaults
          /\ faults' = faults + 1
          /\ role' = [role EXCEPT ![token] = "late"]
    /\ UNCHANGED <<device, row, token, mark, marks, shared, pc, held, announced>>

\* The legacy lock runs out.  Its owner is dead or, a fault again, has not
\* yet reached its ownership check.  From that check to the release there are
\* three cache or database calls, taken to fit in the lock's 300 seconds.
InLockSection(p) == pc[p] \in {"check", "consumeBoth", "owned", "pull", "insert"}

LockExpires ==
    /\ lock # NoProc
    /\ \/ ~InLockSection(lock) /\ UNCHANGED faults
       \/ /\ InLockSection(lock) /\ pc[lock] \notin {"pull", "insert"}
          /\ faults < MaxFaults
          /\ faults' = faults + 1
    /\ lock' = NoProc
    /\ UNCHANGED <<device, claim, legacy, cooling, pc, role, held, announced>>

\* The cache drops the legacy marker (30 days) or a cooldown key.
LegacyMarkerExpires ==
    /\ legacy /\ legacy' = FALSE
    /\ UNCHANGED <<device, claim, lock, cooling, pc, role, held,
                   announced, faults>>

CooldownEnds(event) ==
    /\ event \in cooling
    /\ cooling' = cooling \ {event}
    /\ UNCHANGED <<device, claim, legacy, lock, pc, role, held,
                   announced, faults>>

-----------------------------------------------------------------------------
Begin(p) == Heartbeat(p) \/ \E snoozed \in BOOLEAN : Sweep(p, snoozed)

Recover(p) ==
    \/ HasAnyRecoverableState(p) \/ ConsumeRow(p) \/ ConsumeRowThenMarker(p)
    \/ DeliverOnline(p) \/ \E snoozed \in BOOLEAN : SendOnline(p, snoozed)

Legacy(p) ==
    \/ TakeLegacyLock(p) \/ CheckLegacyMarker(p) \/ OwnsLegacyMarker(p)
    \/ PullLegacyMarker(p) \/ RecordLegacyOffline(p)

Alert(p) ==
    \/ ClaimOffline(p) \/ ReclaimOffline(p) \/ SendOffline(p) \/ Delivered(p)
    \/ DeliveryFails(p) \/ MarkDelivered(p) \/ ReleaseClaim(p)

Work(p) == Load(p) \/ Recover(p) \/ Legacy(p) \/ Alert(p)

Around ==
    \/ FallSilent \/ ClaimAges \/ LockExpires
    \/ LegacyMarkerExpires \/ \E event \in {Offline, Online} : CooldownEnds(event)

Next == (\E p \in Procs : Begin(p) \/ Work(p) \/ Crash(p)) \/ Around

Spec == Init /\ [][Next]_vars

(***************************************************************************)
(* A running process goes on, the scheduler starts a sweep every minute,   *)
(* not all of them under a snooze, and what is bounded in time ends.       *)
(* The one assumption on the outside: a transport tried for ever succeeds. *)
(***************************************************************************)
Fairness ==
    /\ \A p \in Procs : WF_vars(Work(p))
    /\ SF_vars(\E p \in Procs : Sweep(p, FALSE))
    /\ WF_vars(ClaimAges \/ LockExpires \/ CooldownEnds(Offline))
    /\ SF_vars(\E p \in Procs : Delivered(p))

LiveSpec == Spec /\ Fairness

-----------------------------------------------------------------------------
(* Properties.                                                             *)

\* "Recovery is at-most-once ... concurrent commands cannot duplicate it"
\* (CheckDeviceNotifications.php:46-48): no two processes hold the same
\* marker for announcement, and none holds one that was announced before,
\* whatever sweeps and heartbeats overlap, die or outlive the marker's lock.
RecoveryAtMostOnce ==
    \A p \in Procs :
        /\ held[p] \cap announced = {}
        /\ \A q \in Procs \ {p} : held[p] \cap held[q] = {}

\* An alert is sent under a claim of one's own: until a claim times out, the
\* process that is sending owns the pending row, so that no second worker
\* alerts the same outage and no alert is sent for one already reported.
AlertUnderClaim ==
    \A p \in Procs :
        pc[p] \in Sending /\ role[p] # "late" => row = "pending" /\ token = p

\* "Only its owner may complete or release it" (CheckDeviceNotifications.php:
\* 83): a pending row is completed or deleted only by a step of the process
\* whose token it carries, also when a slow worker comes back to a claim that
\* another has taken over.
OwnerSettles ==
    [][row = "pending" /\ row' # "pending"
         => /\ token \in Procs
            /\ pc[token] \in {"mark", "release"}
            /\ pc'[token] = "idle"]_vars

\* A device that goes silent for good is reported once no snooze covers it, even
\* when the worker that claimed the alert died with the claim or the lock.
OutageReported ==
    Offline \in Allowed =>
        (<>[](presence = "offline") => <>(row = "delivered"))

\* A device that stays up has its outage closed: the delivered row and the
\* legacy marker do not survive the sweeps and heartbeats of a device online.
OutageCloses ==
    Allowed # {} => (<>[](presence = "online") => <>[](row # "delivered" /\ ~legacy))

=============================================================================
