--------------------------- MODULE PresenceProofs ---------------------------
(***************************************************************************)
(* Proofs about PresenceNotifications, for any set of processes and any    *)
(* number of outages and faults.                                           *)
(***************************************************************************)
EXTENDS PresenceNotifications, TLAPS

(***************************************************************************)
(* Type correctness in two groups: what the processes keep, and the rest.  *)
(***************************************************************************)
ProcType ==
    /\ pc \in [Procs -> Steps]
    /\ role \in [Procs -> Roles]
    /\ held \in [Procs -> SUBSET Nat]

RowType ==
    /\ row \in {"none", "pending", "delivered"}
    /\ token \in Procs \cup {NoProc}
    /\ lock \in Procs \cup {NoProc}
    /\ mark \in Nat /\ marks \in Nat
    /\ announced \in SUBSET Nat

\* Every call leaves each process at a call of the program, with a role it can
\* have and with numbered markers in hand.
LEMMA ProcTypeStep ==
    ASSUME ProcType, RowType, [Next]_vars
    PROVE  ProcType'
<1> USE DEF ProcType, RowType, Steps, Roles, Goto, Enter
<1>1. ASSUME NEW p \in Procs, Begin(p) PROVE ProcType'
  BY <1>1 DEF Begin, Heartbeat, Sweep
<1>2. ASSUME NEW p \in Procs, Load(p) PROVE ProcType'
  BY <1>2 DEF Load
<1>3. ASSUME NEW p \in Procs, Recover(p) PROVE ProcType'
  <2>1. CASE HasAnyRecoverableState(p)
    BY <2>1 DEF HasAnyRecoverableState
  <2>2. CASE ConsumeRow(p)
    BY <2>2 DEF ConsumeRow, ConsumeFor
  <2>3. CASE ConsumeRowThenMarker(p)
    BY <2>3 DEF ConsumeRowThenMarker, ConsumeFor
  <2>4. ASSUME NEW snoozed \in BOOLEAN, SendOnline(p, snoozed) PROVE ProcType'
    BY <2>4 DEF SendOnline
  <2>5. CASE DeliverOnline(p)
    BY <2>5 DEF DeliverOnline
  <2> QED BY <1>3, <2>1, <2>2, <2>3, <2>4, <2>5 DEF Recover
<1>4. ASSUME NEW p \in Procs, Legacy(p) PROVE ProcType'
  <2>1. CASE TakeLegacyLock(p) \/ CheckLegacyMarker(p) \/ OwnsLegacyMarker(p)
    BY <2>1 DEF TakeLegacyLock, CheckLegacyMarker, OwnsLegacyMarker
  <2>2. CASE PullLegacyMarker(p)
    BY <2>2 DEF PullLegacyMarker
  <2>3. CASE RecordLegacyOffline(p)
    BY <2>3 DEF RecordLegacyOffline
  <2> QED BY <1>4, <2>1, <2>2, <2>3 DEF Legacy
<1>5. ASSUME NEW p \in Procs, Alert(p) PROVE ProcType'
  BY <1>5 DEF Alert, ClaimOffline, ReclaimOffline, Own, SendOffline, Delivered,
              DeliveryFails, DeliverOffline, MarkDelivered, ReleaseClaim
<1>6. ASSUME NEW p \in Procs, Crash(p) PROVE ProcType'
  BY <1>6 DEF Crash
<1>7. CASE Around
  BY <1>7 DEF Around, FallSilent, ClaimAges, LockExpires, LegacyMarkerExpires,
              CooldownEnds
<1>8. CASE UNCHANGED vars
  BY <1>8 DEF vars
<1> QED BY <1>1, <1>2, <1>3, <1>4, <1>5, <1>6, <1>7, <1>8 DEF Next, Work

\* The row, its token, the lock and the marker numbers keep their ranges.
LEMMA RowTypeStep ==
    ASSUME ProcType, RowType, [Next]_vars
    PROVE  RowType'
<1> USE DEF ProcType, RowType, device, claim, shared, Unlock
<1>1. ASSUME NEW p \in Procs, Begin(p) \/ Load(p) \/ Crash(p) PROVE RowType'
  BY <1>1 DEF Begin, Heartbeat, Sweep, Load, Crash
<1>2. ASSUME NEW p \in Procs, Recover(p) PROVE RowType'
  <2>1. CASE HasAnyRecoverableState(p)
    BY <2>1 DEF HasAnyRecoverableState
  <2>2. CASE ConsumeRow(p)
    BY <2>2 DEF ConsumeRow, ConsumeFor
  <2>3. CASE ConsumeRowThenMarker(p)
    BY <2>3 DEF ConsumeRowThenMarker, ConsumeFor
  <2>4. ASSUME NEW snoozed \in BOOLEAN, SendOnline(p, snoozed) PROVE RowType'
    BY <2>4 DEF SendOnline
  <2>5. CASE DeliverOnline(p)
    BY <2>5 DEF DeliverOnline
  <2> QED BY <1>2, <2>1, <2>2, <2>3, <2>4, <2>5 DEF Recover
<1>3. ASSUME NEW p \in Procs, Legacy(p) PROVE RowType'
  <2>1. CASE TakeLegacyLock(p)
    BY <2>1 DEF TakeLegacyLock
  <2>2. CASE CheckLegacyMarker(p)
    BY <2>2 DEF CheckLegacyMarker
  <2>3. CASE OwnsLegacyMarker(p)
    BY <2>3 DEF OwnsLegacyMarker
  <2>4. CASE PullLegacyMarker(p)
    BY <2>4 DEF PullLegacyMarker
  <2>5. CASE RecordLegacyOffline(p)
    BY <2>5 DEF RecordLegacyOffline
  <2> QED BY <1>3, <2>1, <2>2, <2>3, <2>4, <2>5 DEF Legacy
<1>4. ASSUME NEW p \in Procs, Alert(p) PROVE RowType'
  <2>1. CASE ClaimOffline(p) \/ ReclaimOffline(p)
    BY <2>1 DEF ClaimOffline, ReclaimOffline, Own
  <2>2. CASE SendOffline(p) \/ Delivered(p) \/ DeliveryFails(p)
    BY <2>2 DEF SendOffline, Delivered, DeliveryFails, DeliverOffline
  <2>3. CASE MarkDelivered(p)
    BY <2>3 DEF MarkDelivered
  <2>4. CASE ReleaseClaim(p)
    BY <2>4 DEF ReleaseClaim
  <2> QED BY <1>4, <2>1, <2>2, <2>3, <2>4 DEF Alert
<1>5. CASE Around
  BY <1>5 DEF Around, FallSilent, ClaimAges, LockExpires, LegacyMarkerExpires,
              CooldownEnds
<1>6. CASE UNCHANGED vars
  BY <1>6 DEF vars
<1> QED BY <1>1, <1>2, <1>3, <1>4, <1>5, <1>6 DEF Next, Work

-----------------------------------------------------------------------------
(***************************************************************************)
(* The offline claim.                                                      *)
(***************************************************************************)

\* A claim that has not timed out belongs to the process that is sending
\* under it.
ClaimInv ==
    \A p \in Procs :
        pc[p] \in Sending /\ role[p] # "late" => row = "pending" /\ token = p /\ ~aged

\* Every step of every process preserves ClaimInv.
LEMMA ClaimStep ==
    ASSUME ProcType, RowType, ClaimInv, [Next]_vars
    PROVE  ClaimInv'
<1> USE DEF ProcType, ClaimInv, Sending, device, claim, shared, Goto, Enter
<1>1. ASSUME NEW p \in Procs, Begin(p) \/ Load(p) \/ Crash(p) PROVE ClaimInv'
  BY <1>1 DEF Begin, Heartbeat, Sweep, Load, Crash
<1>2. ASSUME NEW p \in Procs, Recover(p) PROVE ClaimInv'
  BY <1>2 DEF Recover, HasAnyRecoverableState, ConsumeRow, ConsumeFor,
              ConsumeRowThenMarker, SendOnline, DeliverOnline
<1>3. ASSUME NEW p \in Procs, Legacy(p) PROVE ClaimInv'
  BY <1>3 DEF Legacy, TakeLegacyLock, CheckLegacyMarker, OwnsLegacyMarker,
              PullLegacyMarker, RecordLegacyOffline
<1>4. ASSUME NEW p \in Procs, Alert(p) PROVE ClaimInv'
  <2>1. CASE ClaimOffline(p)
    BY <2>1 DEF ClaimOffline, Own
  <2>2. CASE ReclaimOffline(p)
    BY <2>2 DEF ReclaimOffline, Reclaimable, Own
  <2>3. CASE SendOffline(p) \/ Delivered(p) \/ DeliveryFails(p)
    BY <2>3 DEF SendOffline, Delivered, DeliveryFails, DeliverOffline
  <2>4. CASE MarkDelivered(p)
    BY <2>4 DEF MarkDelivered
  <2>5. CASE ReleaseClaim(p)
    BY <2>5 DEF ReleaseClaim
  <2> QED BY <1>4, <2>1, <2>2, <2>3, <2>4, <2>5 DEF Alert
<1>5. CASE Around
  <2>1. CASE ClaimAges
    BY <2>1 DEF ClaimAges, AtWork
  <2>2. CASE FallSilent \/ LockExpires \/ LegacyMarkerExpires
             \/ \E event \in {Offline, Online} : CooldownEnds(event)
    BY <2>2 DEF FallSilent, LockExpires, LegacyMarkerExpires, CooldownEnds
  <2> QED BY <1>5, <2>1, <2>2 DEF Around
<1>6. CASE UNCHANGED vars
  BY <1>6 DEF vars
<1> QED BY <1>1, <1>2, <1>3, <1>4, <1>5, <1>6 DEF Next, Work

\* The initial states have the types and no claim.
LEMMA InitTypes == Init => ProcType /\ RowType /\ ClaimInv
BY DEF Init, ProcType, RowType, ClaimInv, Sending, Steps, Roles

\* For any number of workers: an alert goes out only under a claim of the
\* sender's own, as long as that claim has not timed out.
THEOREM AlertsClaimed == Spec => []AlertUnderClaim
<1> DEFINE Inv == ProcType /\ RowType /\ ClaimInv
<1>1. Init => Inv
  BY InitTypes
<1>2. Inv /\ [Next]_vars => Inv'
  BY ProcTypeStep, RowTypeStep, ClaimStep
<1>3. Inv => AlertUnderClaim
  BY DEF ClaimInv, AlertUnderClaim
<1> QED BY <1>1, <1>2, <1>3, PTL DEF Spec

\* A pending row leaves that state by a step of its owner only.
LEMMA OwnerStep ==
    ASSUME ProcType, [Next]_vars, row = "pending", row' # "pending"
    PROVE  /\ token \in Procs
           /\ pc[token] \in {"mark", "release"}
           /\ pc'[token] = "idle"
<1> USE DEF ProcType, device, claim, shared, Goto, Enter
<1>1. ASSUME NEW p \in Procs, Begin(p) \/ Load(p) \/ Crash(p) PROVE FALSE
  BY <1>1 DEF Begin, Heartbeat, Sweep, Load, Crash
<1>2. ASSUME NEW p \in Procs, Recover(p) PROVE FALSE
  BY <1>2 DEF Recover, HasAnyRecoverableState, ConsumeRow, ConsumeFor,
              ConsumeRowThenMarker, SendOnline, DeliverOnline
<1>3. ASSUME NEW p \in Procs, Legacy(p) PROVE FALSE
  BY <1>3 DEF Legacy, TakeLegacyLock, CheckLegacyMarker, OwnsLegacyMarker,
              PullLegacyMarker, RecordLegacyOffline
<1>4. ASSUME NEW p \in Procs, Alert(p)
      PROVE  p = token /\ pc[p] \in {"mark", "release"} /\ pc'[p] = "idle"
  <2>1. CASE ClaimOffline(p) \/ ReclaimOffline(p) \/ SendOffline(p)
             \/ Delivered(p) \/ DeliveryFails(p)
    BY <2>1 DEF ClaimOffline, ReclaimOffline, Own, SendOffline, Delivered,
                DeliveryFails, DeliverOffline
  <2>2. CASE MarkDelivered(p)
    BY <2>2 DEF MarkDelivered
  <2>3. CASE ReleaseClaim(p)
    BY <2>3 DEF ReleaseClaim
  <2> QED BY <1>4, <2>1, <2>2, <2>3 DEF Alert
<1>5. CASE Around
  BY <1>5 DEF Around, FallSilent, ClaimAges, LockExpires, LegacyMarkerExpires,
              CooldownEnds
<1>6. CASE UNCHANGED vars
  BY <1>6 DEF vars
<1> QED BY <1>1, <1>2, <1>3, <1>4, <1>5, <1>6 DEF Next, Work

\* Nobody but its owner completes or releases a claim, whichever workers have
\* died, stalled or taken over in the meantime.
THEOREM OwnerAlone == Spec => OwnerSettles
<1> DEFINE Inv == ProcType /\ RowType
<1>1. Init => Inv
  BY InitTypes
<1>2. Inv /\ [Next]_vars => Inv'
  BY ProcTypeStep, RowTypeStep
<1>3. Inv /\ [Next]_vars =>
        [row = "pending" /\ row' # "pending"
           => /\ token \in Procs
              /\ pc[token] \in {"mark", "release"}
              /\ pc'[token] = "idle"]_vars
  BY OwnerStep
<1> QED BY <1>1, <1>2, <1>3, PTL DEF Spec, OwnerSettles

-----------------------------------------------------------------------------
(***************************************************************************)
(* Recovery.  A marker is in one place at a time: the row, the cache, the  *)
(* hands of the process that pulls it, or consumed by one process.         *)
(***************************************************************************)

\* A marker nobody has consumed.
Unclaimed(m) == m \notin announced /\ \A p \in Procs : m \notin held[p]

\* The legacy marker is being moved from the cache.
Moving(p) == pc[p] \in {"pull", "insert"}

\* From the ownership check to the release, the lock is the process's own.
LockInv == \A p \in Procs : Moving(p) => lock = p

\* New markers get new numbers.
NumberInv ==
    /\ marks > 0 /\ mark <= marks
    /\ \A m \in announced : m <= marks
    /\ \A p \in Procs : \A m \in held[p] : m <= marks

PlaceInv ==
    /\ row = "delivered" => Unclaimed(mark)
    /\ legacy \/ (\E p \in Procs : Moving(p))
         => Unclaimed(0) /\ ~(row = "delivered" /\ mark = 0)
    /\ legacy => \A p \in Procs : pc[p] # "insert"

\* The lock on the legacy marker excludes: two processes never move it at once.
LEMMA LockStep ==
    ASSUME ProcType, RowType, LockInv, [Next]_vars
    PROVE  LockInv'
<1> USE NoProcAssumption DEF ProcType, LockInv, Moving, device, claim, shared, Goto, Enter, Unlock
<1>1. ASSUME NEW p \in Procs, Begin(p) \/ Load(p) \/ Crash(p) PROVE LockInv'
  BY <1>1 DEF Begin, Heartbeat, Sweep, Load, Crash
<1>2. ASSUME NEW p \in Procs, Recover(p) PROVE LockInv'
  BY <1>2 DEF Recover, HasAnyRecoverableState, ConsumeRow, ConsumeFor,
              ConsumeRowThenMarker, SendOnline, DeliverOnline
<1>3. ASSUME NEW p \in Procs, Legacy(p) PROVE LockInv'
  <2>1. CASE TakeLegacyLock(p)
    BY <2>1 DEF TakeLegacyLock
  <2>2. CASE CheckLegacyMarker(p)
    BY <2>2 DEF CheckLegacyMarker
  <2>3. CASE OwnsLegacyMarker(p)
    BY <2>3 DEF OwnsLegacyMarker
  <2>4. CASE PullLegacyMarker(p)
    BY <2>4 DEF PullLegacyMarker
  <2>5. CASE RecordLegacyOffline(p)
    BY <2>5 DEF RecordLegacyOffline
  <2> QED BY <1>3, <2>1, <2>2, <2>3, <2>4, <2>5 DEF Legacy
<1>4. ASSUME NEW p \in Procs, Alert(p) PROVE LockInv'
  BY <1>4 DEF Alert, ClaimOffline, ReclaimOffline, Own, SendOffline, Delivered,
              DeliveryFails, DeliverOffline, MarkDelivered, ReleaseClaim
<1>5. CASE Around
  BY <1>5 DEF Around, FallSilent, ClaimAges, LockExpires, InLockSection,
              LegacyMarkerExpires, CooldownEnds
<1>6. CASE UNCHANGED vars
  BY <1>6 DEF vars
<1> QED BY <1>1, <1>2, <1>3, <1>4, <1>5, <1>6 DEF Next, Work

MarkerInv == LockInv /\ NumberInv /\ PlaceInv /\ RecoveryAtMostOnce

\* Every step of every process keeps each marker in one place.
LEMMA MarkerStep ==
    ASSUME ProcType, RowType, MarkerInv, [Next]_vars
    PROVE  NumberInv' /\ PlaceInv' /\ RecoveryAtMostOnce'
<1> DEFINE Goal == NumberInv' /\ PlaceInv' /\ RecoveryAtMostOnce'
<1> USE DEF ProcType, RowType, MarkerInv, LockInv, NumberInv, PlaceInv, RecoveryAtMostOnce,
            Unclaimed, Moving, device, claim, shared, Goto, Enter
<1>1. ASSUME NEW p \in Procs, Begin(p) \/ Load(p) \/ Crash(p) PROVE Goal
  <2>1. CASE Begin(p)
    <3>1. CASE Heartbeat(p)
      BY <1>1, <3>1 DEF Heartbeat
    <3>2. ASSUME NEW snoozed \in BOOLEAN, Sweep(p, snoozed) PROVE Goal
      BY <1>1, <3>2 DEF Sweep
    <3> QED BY <2>1, <3>1, <3>2 DEF Begin
  <2>2. CASE Load(p)
    BY <1>1, <2>2 DEF Load
  <2>3. CASE Crash(p)
    BY <1>1, <2>3 DEF Crash
  <2> QED BY <1>1, <2>1, <2>2, <2>3
<1>2. ASSUME NEW p \in Procs, Recover(p) PROVE Goal
  <2>1. CASE HasAnyRecoverableState(p)
    BY <1>2, <2>1 DEF HasAnyRecoverableState
  <2>2. CASE ConsumeRow(p)
    BY <1>2, <2>2 DEF ConsumeRow, ConsumeFor
  <2>3. CASE ConsumeRowThenMarker(p)
    BY <1>2, <2>3 DEF ConsumeRowThenMarker, ConsumeFor
  <2>4. ASSUME NEW snoozed \in BOOLEAN, SendOnline(p, snoozed) PROVE Goal
    BY <1>2, <2>4 DEF SendOnline
  <2>5. CASE DeliverOnline(p)
    BY <1>2, <2>5 DEF DeliverOnline
  <2> QED BY <1>2, <2>1, <2>2, <2>3, <2>4, <2>5 DEF Recover
<1>3. ASSUME NEW p \in Procs, Legacy(p) PROVE Goal
  <2>1. CASE TakeLegacyLock(p)
    BY <1>3, <2>1 DEF TakeLegacyLock
  <2>2. CASE CheckLegacyMarker(p)
    BY <1>3, <2>2 DEF CheckLegacyMarker
  <2>3. CASE OwnsLegacyMarker(p)
    BY <1>3, <2>3 DEF OwnsLegacyMarker
  <2>4. CASE PullLegacyMarker(p)
    BY <1>3, <2>4 DEF PullLegacyMarker
  <2>5. CASE RecordLegacyOffline(p)
    BY <1>3, <2>5 DEF RecordLegacyOffline
  <2> QED BY <1>3, <2>1, <2>2, <2>3, <2>4, <2>5 DEF Legacy
<1>4. ASSUME NEW p \in Procs, Alert(p) PROVE Goal
  <2>1. CASE ClaimOffline(p) \/ ReclaimOffline(p)
    <3>1. CASE ClaimOffline(p)
      BY <1>4, <3>1 DEF ClaimOffline, Own
    <3>2. CASE ReclaimOffline(p)
      BY <1>4, <3>2 DEF ReclaimOffline, Own
    <3> QED BY <2>1, <3>1, <3>2
  <2>2. CASE SendOffline(p) \/ Delivered(p) \/ DeliveryFails(p)
    <3>1. CASE SendOffline(p)
      BY <1>4, <3>1 DEF SendOffline
    <3>2. CASE Delivered(p)
      BY <1>4, <3>2 DEF Delivered, DeliverOffline
    <3>3. CASE DeliveryFails(p)
      BY <1>4, <3>3 DEF DeliveryFails, DeliverOffline
    <3> QED BY <2>2, <3>1, <3>2, <3>3
  <2>3. CASE MarkDelivered(p)
    <3>1. CASE row = "pending" /\ token = p
      <4>1. /\ marks' = marks + 1 /\ mark' = marks + 1 /\ row' = "delivered"
            /\ UNCHANGED <<legacy, lock, held, announced>>
            /\ pc' = [pc EXCEPT ![p] = "idle"]
        BY <2>3, <3>1 DEF MarkDelivered
      <4>2. NumberInv'
        BY <4>1
      <4>3. Unclaimed(marks + 1)
        OBVIOUS
      <4>4. PlaceInv'
        BY <4>1, <4>3
      <4>5. RecoveryAtMostOnce'
        BY <4>1
      <4> QED BY <4>2, <4>4, <4>5
    <3>2. CASE ~(row = "pending" /\ token = p)
      BY <1>4, <2>3, <3>2 DEF MarkDelivered
    <3> QED BY <3>1, <3>2
  <2>4. CASE ReleaseClaim(p)
    BY <1>4, <2>4 DEF ReleaseClaim
  <2> QED BY <1>4, <2>1, <2>2, <2>3, <2>4 DEF Alert
<1>5. CASE Around
  <2>1. CASE FallSilent
    BY <2>1 DEF FallSilent
  <2>2. CASE ClaimAges
    BY <2>2 DEF ClaimAges
  <2>3. CASE LockExpires
    BY <2>3 DEF LockExpires
  <2>4. CASE LegacyMarkerExpires
    BY <2>4 DEF LegacyMarkerExpires
  <2>5. ASSUME NEW event \in {Offline, Online}, CooldownEnds(event) PROVE Goal
    BY <2>5 DEF CooldownEnds
  <2> QED BY <1>5, <2>1, <2>2, <2>3, <2>4, <2>5 DEF Around
<1>6. CASE UNCHANGED vars
  BY <1>6 DEF vars
<1> QED BY <1>1, <1>2, <1>3, <1>4, <1>5, <1>6 DEF Next, Work

\* A recovery is announced at most once per marker, for any number of sweeps
\* and heartbeats at once and any number of deaths and lapsed locks.
THEOREM RecoveriesOnce == Spec => []RecoveryAtMostOnce
<1> DEFINE Inv == ProcType /\ RowType /\ MarkerInv
<1>1. Init => Inv
  <2>1. Init => MarkerInv
    BY DEF Init, MarkerInv, LockInv, NumberInv, PlaceInv, RecoveryAtMostOnce,
           Unclaimed, Moving
  <2> QED BY <2>1, InitTypes
<1>2. Inv /\ [Next]_vars => Inv'
  BY ProcTypeStep, RowTypeStep, LockStep, MarkerStep DEF MarkerInv
<1>3. Inv => RecoveryAtMostOnce
  BY DEF MarkerInv
<1> QED BY <1>1, <1>2, <1>3, PTL DEF Spec

=============================================================================
