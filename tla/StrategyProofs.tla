--------------------------- MODULE StrategyProofs ---------------------------
(***************************************************************************)
(* Proofs about StrategyDelivery, for any keys, values and policies and    *)
(* any number of heartbeat requests under way at once.                     *)
(***************************************************************************)
EXTENDS StrategyDelivery, TLAPS

(***************************************************************************)
(* Type correctness.                                                       *)
(***************************************************************************)

Copies  == [version : Nat, sent : Maps, acked : Maps, active : BOOLEAN]
Wires   == [Keys -> Vals \cup {Unset, Reset}]
Replies == [token : Nat, wire : Wires]
Stages  == {"idle", "queued", "loaded", "answered"}

\* The conjuncts of TypeOK by owner.
RowType ==
    /\ desired \in Maps /\ enforce \in BOOLEAN /\ active \in BOOLEAN
    /\ version \in Nat /\ sent \in Maps /\ acked \in Maps /\ top \in Nat
RequestType ==
    /\ stage \in [Beats -> Stages] /\ echo \in [Beats -> Nat]
    /\ older \in [Beats -> SUBSET Beats] /\ behind \subseteq Beats
    /\ copy \in [Beats -> Copies] /\ reply \in [Beats -> Replies]
DeviceType ==
    /\ awaited \in Beats \cup {NoBeat}
    /\ token \in Nat /\ held \in [Keys -> Vals \cup {Unset, Local}]
    /\ overtaken \in BOOLEAN /\ events \in Nat

\* The three groups are TypeOK.
LEMMA TypeGroups == TypeOK <=> RowType /\ RequestType /\ DeviceType
BY DEF TypeOK, RowType, RequestType, DeviceType, Copies, Replies, Wires, Stages

\* The constant map and the empty answer are of their types.
LEMMA NothingType == Nothing \in Maps /\ NoReply \in Replies /\ Nothing \in Wires
BY DEF Nothing, Maps, NoReply, Replies, Wires

\* What deliveryFor() puts on the wire is a map of values, resets and gaps.
LEMMA AnswerType ==
    ASSUME TypeOK, NEW b \in Beats, NEW v \in Nat
    PROVE  Wire(b) \in Wires /\ Answer(b, v) \in Replies
<1>1. Wire(b) \in Wires
  BY DEF Wire, Wires, TypeOK, Maps
<1>2. desired \in Wires
  BY DEF Wires, TypeOK, Maps
<1> QED BY <1>1, <1>2, NothingType DEF Answer, Replies

\* A request that is over leaves every other one as it was.
LEMMA FreeEffect ==
    ASSUME RequestType, NEW b \in Beats, Free(b)
    PROVE  /\ RequestType'
           /\ stage'[b] = "idle" /\ older'[b] = {} /\ behind' = behind \ {b}
           /\ \A c \in Beats \ {b} :
                 /\ stage'[c] = stage[c] /\ echo'[c] = echo[c] /\ copy'[c] = copy[c]
                 /\ reply'[c] = reply[c] /\ older'[c] = older[c] \ {b}
<1>1. [version |-> 0, sent |-> Nothing, acked |-> Nothing, active |-> FALSE] \in Copies
  BY NothingType DEF Copies
<1>2. stage' \in [Beats -> Stages] /\ echo' \in [Beats -> Nat]
  BY DEF RequestType, Free, Stages
<1>3. older' \in [Beats -> SUBSET Beats] /\ behind' \subseteq Beats
  BY DEF RequestType, Free
<1>4. copy' \in [Beats -> Copies]
  BY <1>1 DEF RequestType, Free
<1>5. reply' \in [Beats -> Replies]
  BY NothingType DEF RequestType, Free
<1>6. /\ stage'[b] = "idle" /\ older'[b] = {} /\ behind' = behind \ {b}
      /\ \A c \in Beats \ {b} :
                 /\ stage'[c] = stage[c] /\ echo'[c] = echo[c] /\ copy'[c] = copy[c]
                 /\ reply'[c] = reply[c] /\ older'[c] = older[c] \ {b}
  BY DEF RequestType, Free
<1> QED BY <1>2, <1>3, <1>4, <1>5, <1>6 DEF RequestType

\* An answer is kept for the device or its request is over.
LEMMA AnswersType ==
    ASSUME RequestType, NEW b \in Beats, NEW r \in Replies, Answers(b, r)
    PROVE  RequestType'
<1>1. CASE awaited = b
  <2>1. /\ stage' = [stage EXCEPT ![b] = "answered"] /\ reply' = [reply EXCEPT ![b] = r]
        /\ UNCHANGED <<echo, older, copy, behind>>
    BY <1>1 DEF Answers
  <2> QED BY <2>1 DEF RequestType, Stages
<1>2. CASE awaited # b
  BY <1>2, FreeEffect DEF Answers
<1> QED BY <1>1, <1>2

\* What the device makes of an answer is a setting for each key.
LEMMA AppliedType ==
    ASSUME TypeOK, NEW w \in Wires
    PROVE  Applied(w) \in [Keys -> Vals \cup {Unset, Local}]
BY DEF TypeOK, Applied, Wires

\* Every step keeps the types.
LEMMA TypeStep == TypeOK /\ [Next]_vars => TypeOK'
<1> SUFFICES ASSUME TypeOK, RowType, RequestType, DeviceType, [Next]_vars
             PROVE  RowType' /\ RequestType' /\ DeviceType'
  <2>1. TypeOK => RowType /\ RequestType /\ DeviceType
    BY TypeGroups
  <2>2. RowType' /\ RequestType' /\ DeviceType' => TypeOK'
    BY DEF TypeOK, RowType, RequestType, DeviceType, Copies, Replies, Wires, Stages
  <2> QED BY <2>1, <2>2
<1> USE DEF policy, row, requests, device
<1>1. ASSUME NEW b \in Beats, Beat(b) PROVE RowType' /\ RequestType' /\ DeviceType'
  <2>1. RowType' /\ DeviceType'
    BY <1>1 DEF Beat, RowType, DeviceType
  <2>2. RequestType'
    <3>1. {c \in Beats : stage[c] # "idle"} \in SUBSET Beats
      OBVIOUS
    <3> QED BY <1>1, <3>1 DEF Beat, RequestType, DeviceType, Stages
  <2> QED BY <2>1, <2>2
<1>2. ASSUME NEW b \in Beats, Load(b) PROVE RowType' /\ RequestType' /\ DeviceType'
  <2>1. Row \in Copies
    BY DEF Row, RowType, Copies
  <2>2. RequestType'
    <3>1. /\ stage' = [stage EXCEPT ![b] = "loaded"] /\ copy' = [copy EXCEPT ![b] = Row]
          /\ behind' = behind \cup older[b] /\ UNCHANGED <<echo, older, reply>>
      BY <1>2 DEF Load
    <3> QED BY <2>1, <3>1 DEF RequestType, Stages
  <2>3. RowType' /\ DeviceType'
    BY <1>2 DEF Load, RowType, DeviceType
  <2> QED BY <2>2, <2>3
<1>3. ASSUME NEW b \in Beats, DeliveryFor(b)
      PROVE  RowType' /\ RequestType' /\ DeviceType'
  <2>1. copy[b] \in Copies
    BY DEF RequestType
  <2>2. PICK v \in Nat : /\ version' \in Nat /\ sent' \in Maps /\ top' \in Nat
                         /\ Answers(b, Answer(b, v))
    <3>1. CASE Bumps(b)
      <4>1. PICK v \in NewToken(b) :
              /\ version' = v /\ sent' = desired
              /\ top' = IF v > top THEN v ELSE top
              /\ Answers(b, Answer(b, v))
        BY <1>3, <3>1 DEF DeliveryFor, Stored
      <4>2. v \in Nat
        BY <2>1, <4>1 DEF NewToken, Copies, RowType
      <4> QED BY <4>1, <4>2 DEF RowType
    <3>2. CASE ~Bumps(b)
      <4>1. copy[b].version \in Nat
        BY <2>1 DEF Copies
      <4> QED BY <1>3, <3>2, <4>1 DEF DeliveryFor, Stored, RowType
    <3> QED BY <3>1, <3>2
  <2>3. acked' \in Maps
    BY <1>3, <2>1 DEF DeliveryFor, Stored, RowType, Copies
  <2>4. RowType'
    BY <1>3, <2>2, <2>3 DEF DeliveryFor, Stored, RowType
  <2>5. RequestType'
    BY <2>2, AnswerType, AnswersType
  <2>6. awaited' = awaited /\ token' = token /\ held' = held /\ events' = events
    BY <1>3 DEF DeliveryFor, Stored
  <2>7. overtaken' \in BOOLEAN
    BY <1>3 DEF DeliveryFor, Stored
  <2> QED BY <2>4, <2>5, <2>6, <2>7 DEF DeviceType
<1>4. ASSUME NEW b \in Beats, NothingToSay(b)
      PROVE  RowType' /\ RequestType' /\ DeviceType'
  <2>1. RequestType'
    BY <1>4, AnswersType, NothingType DEF NothingToSay
  <2> QED BY <1>4, <2>1 DEF NothingToSay, RowType, DeviceType
<1>5. ASSUME NEW b \in Beats, Deliver(b) PROVE RowType' /\ RequestType' /\ DeviceType'
  <2>1. RequestType'
    BY <1>5, FreeEffect DEF Deliver
  <2>2. reply[b] \in Replies
    BY DEF RequestType
  <2>3. token' \in Nat /\ held' \in [Keys -> Vals \cup {Unset, Local}]
    <3>1. CASE reply[b] # NoReply
      BY <1>5, <2>2, <3>1, AppliedType DEF Deliver, Replies
    <3>2. CASE reply[b] = NoReply
      BY <1>5, <3>2 DEF Deliver, DeviceType
    <3> QED BY <3>1, <3>2
  <2>4. RowType' /\ awaited' = NoBeat /\ UNCHANGED <<overtaken, events>>
    BY <1>5 DEF Deliver, RowType
  <2> QED BY <2>1, <2>3, <2>4 DEF DeviceType
<1>6. ASSUME NEW b \in Beats, Lost(b) PROVE RowType' /\ RequestType' /\ DeviceType'
  <2>1. RequestType'
    BY <1>6, FreeEffect DEF Lost
  <2> QED BY <1>6, <2>1 DEF Lost, RowType, DeviceType
<1>7. ASSUME NEW b \in Beats, GivesUp(b) PROVE RowType' /\ RequestType' /\ DeviceType'
  BY <1>7 DEF GivesUp, RowType, RequestType, DeviceType
<1>8. CASE People
  <2>1. ASSUME NEW m \in Maps, NEW e \in BOOLEAN, EditPolicy(m, e)
        PROVE  RowType' /\ RequestType' /\ DeviceType'
    BY <2>1 DEF EditPolicy, RowType, RequestType, DeviceType
  <2>2. CASE Approve
    BY <2>2 DEF Approve, RowType, RequestType, DeviceType
  <2>3. ASSUME NEW k \in Keys, LocalEdit(k) PROVE RowType' /\ RequestType' /\ DeviceType'
    BY <2>3 DEF LocalEdit, RowType, RequestType, DeviceType
  <2>4. CASE Reinstall
    <3>1. Nothing \in [Keys -> Vals \cup {Unset, Local}]
      BY DEF Nothing
    <3> QED BY <2>4, <3>1 DEF Reinstall, RowType, RequestType, DeviceType
  <2> QED BY <1>8, <2>1, <2>2, <2>3, <2>4 DEF People
<1>9. CASE UNCHANGED vars
  BY <1>9 DEF vars, RowType, RequestType, DeviceType
<1> QED BY <1>1, <1>2, <1>3, <1>4, <1>5, <1>6, <1>7, <1>8, <1>9
        DEF Next, Request, Handle, Loss

\* Policy, row, requests and device always have their types.
THEOREM DeliveryTypes == Spec => []TypeOK
<1>1. Init => TypeOK
  <2> SUFFICES ASSUME Init PROVE TypeOK
      OBVIOUS
  <2>1. RowType
    BY NothingType DEF Init, RowType
  <2>2. Row \in Copies
    BY <2>1 DEF Row, RowType, Copies
  <2>3. RequestType
    BY <2>2, NothingType DEF Init, RequestType, Stages
  <2>4. DeviceType
    BY DEF Init, DeviceType, Nothing
  <2> QED BY <2>1, <2>3, <2>4, TypeGroups
<1> QED BY <1>1, TypeStep, PTL DEF Spec

(***************************************************************************)
(* The order of the requests.                                              *)
(***************************************************************************)

UnderWay(b) == stage[b] # "idle"

\* Of two requests under way one is older; a request that has been loaded has left
\* its elders behind; the one the device waits for is the newest; only that one has
\* an answer.
OrderInv ==
    /\ \A b, c \in Beats : c \in older[b] => UnderWay(c)
    /\ \A b, c \in Beats : UnderWay(b) /\ UnderWay(c) /\ b # c =>
          b \in older[c] \/ c \in older[b]
    /\ \A b, c \in Beats : stage[b] \in {"loaded", "answered"} /\ c \in older[b] =>
          c \in behind
    /\ \A b \in Beats : awaited = b =>
          UnderWay(b) /\ \A c \in Beats \ {b} : UnderWay(c) => c \in older[b]
    /\ \A b \in Beats : stage[b] = "answered" => awaited = b

\* A request that is over takes nothing but itself out of the order.
LEMMA FreeOrder ==
    ASSUME TypeOK, OrderInv, NEW b \in Beats, Free(b),
           \/ awaited = b /\ awaited' = NoBeat
           \/ awaited # b /\ awaited' = awaited
    PROVE  OrderInv'
<1>1. RequestType
  BY TypeGroups
<1> USE <1>1, BeatAssumption, FreeEffect DEF OrderInv, UnderWay
<1>2. \A a, c \in Beats : c \in older'[a] => c \in older[a] /\ c # b /\ a # b
  BY DEF RequestType
<1>3. \A a, c \in Beats \ {b} : c \in older[a] => c \in older'[a]
  OBVIOUS
<1>4. \A a \in Beats : stage'[a] # "idle" => a # b /\ stage'[a] = stage[a]
  OBVIOUS
<1>5. \A a \in Beats : a \in behind' <=> a \in behind /\ a # b
  OBVIOUS
<1>6. \A a \in Beats \ {b} : stage'[a] = stage[a]
  OBVIOUS
<1> QED BY <1>2, <1>3, <1>4, <1>5, <1>6

\* An answer that somebody waits for moves its request on, any other ends it.
LEMMA AnswersOrder ==
    ASSUME TypeOK, OrderInv, NEW b \in Beats, NEW r, Answers(b, r),
           stage[b] = "loaded", UNCHANGED awaited
    PROVE  OrderInv'
<1>1. CASE awaited = b
  <2>1. stage' = [stage EXCEPT ![b] = "answered"] /\ UNCHANGED <<older, behind>>
    BY <1>1 DEF Answers
  <2>2. \A c \in Beats : stage'[c] = IF c = b THEN "answered" ELSE stage[c]
    BY <2>1 DEF TypeOK
  <2> QED BY <1>1, <2>1, <2>2 DEF OrderInv, UnderWay
<1>2. CASE awaited # b
  BY <1>2, FreeOrder DEF Answers
<1> QED BY <1>1, <1>2

\* Every step keeps the order.
LEMMA OrderStep == TypeOK /\ OrderInv /\ [Next]_vars => OrderInv'
<1> SUFFICES ASSUME TypeOK, OrderInv, [Next]_vars PROVE OrderInv'
    OBVIOUS
<1> USE BeatAssumption DEF policy, row, requests, device
<1>1. ASSUME NEW b \in Beats, Beat(b) PROVE OrderInv'
  <2>1. \A c \in Beats : stage'[c] = IF c = b THEN "queued" ELSE stage[c]
    BY <1>1 DEF Beat, TypeOK
  <2>2. \A c \in Beats : older'[c] = IF c = b THEN {a \in Beats : stage[a] # "idle"}
                                     ELSE older[c]
    BY <1>1 DEF Beat, TypeOK
  <2>3. awaited' = b /\ stage[b] = "idle" /\ behind' = behind /\ awaited = NoBeat
    BY <1>1 DEF Beat
  <2> QED BY <2>1, <2>2, <2>3 DEF OrderInv, UnderWay
<1>2. ASSUME NEW b \in Beats, Load(b) PROVE OrderInv'
  <2>1. \A c \in Beats : stage'[c] = IF c = b THEN "loaded" ELSE stage[c]
    BY <1>2 DEF Load, TypeOK
  <2>2. stage[b] = "queued" /\ behind' = behind \cup older[b] /\ UNCHANGED <<older, awaited>>
    BY <1>2 DEF Load
  <2> QED BY <2>1, <2>2 DEF OrderInv, UnderWay
<1>3. ASSUME NEW b \in Beats, DeliveryFor(b) PROVE OrderInv'
  <2>1. stage[b] = "loaded" /\ UNCHANGED awaited /\ \E r : Answers(b, r)
    BY <1>3 DEF DeliveryFor, Stored
  <2> QED BY <2>1, AnswersOrder
<1>4. ASSUME NEW b \in Beats, NothingToSay(b) PROVE OrderInv'
  BY <1>4, AnswersOrder DEF NothingToSay
<1>5. ASSUME NEW b \in Beats, Deliver(b) \/ Lost(b) PROVE OrderInv'
  <2>1. Free(b) /\ awaited' = NoBeat /\ awaited = b
    BY <1>5 DEF Deliver, Lost
  <2> QED BY <2>1, FreeOrder
<1>6. ASSUME NEW b \in Beats, GivesUp(b) PROVE OrderInv'
  BY <1>6 DEF GivesUp, OrderInv, UnderWay
<1>7. CASE People
  <2>1. UNCHANGED <<stage, older, behind, awaited>>
    BY <1>7 DEF People, EditPolicy, Approve, LocalEdit, Reinstall
  <2> QED BY <2>1 DEF OrderInv, UnderWay
<1>8. CASE UNCHANGED vars
  BY <1>8 DEF vars, OrderInv, UnderWay
<1> QED BY <1>1, <1>2, <1>3, <1>4, <1>5, <1>6, <1>7, <1>8
        DEF Next, Request, Handle, Loss

(***************************************************************************)
(* What console and device know of each other, as long as no overtaken     *)
(* request has written.                                                    *)
(***************************************************************************)

\* A loaded request that was not left behind works on the row as it is, and the
\* token it carries is the device's, unless the device was installed afresh.
CopyInv ==
    /\ \A b \in Beats \ behind : stage[b] = "loaded" =>
          copy[b].version = version /\ copy[b].sent = sent /\ copy[b].acked = acked
    /\ \A b \in Beats \ behind : UnderWay(b) => echo[b] = token \/ token = 0
    /\ \A b \in Beats : awaited = b => echo[b] = token

\* An answer on its way carries the current token and map, and resets every key
\* the device may still hold from the acknowledged one.
Carries(r) ==
    /\ r.token = version /\ version # 0
    /\ \A k \in Keys :
          /\ sent[k] # Unset => r.wire[k] = sent[k]
          /\ sent[k] = Unset => r.wire[k] \in {Unset, Reset}
          /\ sent[k] = Unset /\ r.wire[k] = Unset /\ token # version => acked[k] = Unset

ReplyInv == \A b \in Beats : stage[b] = "answered" /\ reply[b] # NoReply => Carries(reply[b])

\* The device's settings follow map m, up to what its user changed.
Follows(m) ==
    \A k \in Keys : IF m[k] = Unset THEN held[k] \notin Vals ELSE held[k] \in {m[k], Local}

\* The device follows the map of the token it has latched: the one sent last, or
\* the one it acknowledged.
HeldInv ==
    /\ token <= version /\ version <= top
    /\ token = 0 => \A k \in Keys : held[k] \notin Vals
    /\ token # 0 /\ token = version => Follows(sent)
    /\ token # 0 /\ token # version => Follows(acked)

KnowledgeInv == ~overtaken => CopyInv /\ ReplyInv /\ HeldInv

\* Of two loaded requests one was left behind.
LEMMA OneCurrent ==
    ASSUME OrderInv, NEW b \in Beats, NEW c \in Beats, b # c,
           stage[b] \in {"loaded", "answered"}, stage[c] \in {"loaded", "answered"},
           b \notin behind
    PROVE  c \in behind
BY DEF OrderInv, UnderWay

\* What deliveryFor() does to the row when it works on a fresh copy.
LEMMA FreshDelivery ==
    ASSUME TypeOK, OrderInv, CopyInv, HeldInv, NEW b \in Beats, DeliveryFor(b), b \notin behind
    PROVE  /\ sent' = desired
           /\ acked' = Acked(b)
           /\ Acked(b) = IF version # 0 /\ echo[b] = version THEN sent ELSE acked
           /\ \/ version' = version /\ sent' = sent
              \/ version' > version
           /\ version' \in Nat /\ version' # 0 /\ version' <= top' /\ version <= version'
           /\ Answers(b, Answer(b, version'))
<1>1. copy[b].version = version /\ copy[b].sent = sent /\ copy[b].acked = acked
  BY DEF DeliveryFor, Stored, CopyInv
<1>2. acked' = Acked(b)
  BY <1>1 DEF DeliveryFor, Stored, Acked, Acks
<1>3. Acked(b) = IF version # 0 /\ echo[b] = version THEN sent ELSE acked
  BY <1>1 DEF Acked, Acks
<1>4. version \in Nat /\ top \in Nat /\ version <= top
  BY DEF TypeOK, HeldInv
<1>5. CASE Bumps(b)
  <2>1. PICK v \in NewToken(b) :
          /\ version' = v /\ sent' = desired
          /\ top' = IF v > top THEN v ELSE top
          /\ Answers(b, Answer(b, v))
    BY <1>5 DEF DeliveryFor, Stored
  <2>2. v \in (version + 1) .. (top + 1)
    BY <1>1, <2>1 DEF NewToken
  <2>3. version' \in Nat /\ version' > version /\ version' # 0 /\ version' <= top'
    BY <1>4, <2>1, <2>2
  <2> QED BY <1>2, <1>3, <1>4, <2>1, <2>3
<1>6. CASE ~Bumps(b)
  <2>1. UNCHANGED <<version, sent, top>> /\ Answers(b, Answer(b, copy[b].version))
    BY <1>6 DEF DeliveryFor, Stored
  <2>2. version # 0 /\ sent = desired
    BY <1>1, <1>6 DEF Bumps
  <2> QED BY <1>1, <1>2, <1>3, <1>4, <2>1, <2>2
<1> QED BY <1>5, <1>6

\* The answer to the device's own request carries the row it leaves behind.
LEMMA AnswerCarries ==
    ASSUME TypeOK, OrderInv, CopyInv, HeldInv, NEW b \in Beats, DeliveryFor(b),
           b \notin behind, awaited = b,
           NEW CONSTANT r, r = Answer(b, version'), r # NoReply
    PROVE  Carries(r)'
<1>1. /\ sent' = desired /\ acked' = Acked(b) /\ version' # 0 /\ version' \in Nat
  BY FreshDelivery
<1>2. token' = token /\ echo[b] = token
  BY DEF DeliveryFor, Stored, device, CopyInv
<1>3. CASE echo[b] = version'
  <2>1. r = [token |-> version', wire |-> desired]
    BY <1>3 DEF Answer
  <2> QED BY <1>1, <1>2, <1>3, <2>1 DEF Carries
<1>4. CASE echo[b] # version'
  <2>1. r = [token |-> version', wire |-> Wire(b)]
    BY <1>4 DEF Answer
  <2>2. r.token = version' /\ r.wire = Wire(b)
    BY <2>1
  <2>3. ASSUME NEW k \in Keys
        PROVE  /\ desired[k] # Unset => Wire(b)[k] = desired[k]
               /\ desired[k] = Unset => Wire(b)[k] \in {Unset, Reset}
               /\ desired[k] = Unset /\ Wire(b)[k] = Unset => Acked(b)[k] = Unset
    BY ValueAssumption DEF Wire, MayHold
  <2> QED BY <1>1, <2>2, <2>3 DEF Carries
<1> QED BY <1>3, <1>4

\* A handled request leaves the device's settings explained by the row.
LEMMA DeliveryHeld ==
    ASSUME TypeOK, OrderInv, CopyInv, HeldInv, NEW b \in Beats, DeliveryFor(b),
           b \notin behind
    PROVE  HeldInv'
<1>1. token' = token /\ held' = held
  BY DEF DeliveryFor, Stored, device
<1>2. echo[b] = token \/ token = 0
  BY DEF DeliveryFor, Stored, CopyInv, UnderWay
<1>3. token \in Nat /\ version \in Nat /\ top \in Nat
  BY DEF TypeOK
<1>4. token <= version' /\ version' <= top'
  <2>1. top' \in Nat
    BY <1>3, FreshDelivery, TypeStep DEF DeliveryFor, Stored
  <2> QED BY <1>3, FreshDelivery DEF HeldInv
<1>5. ASSUME token # 0, token = version' PROVE Follows(sent)'
  <2>1. version' = version /\ sent' = sent
    BY <1>3, <1>5, FreshDelivery DEF HeldInv
  <2> QED BY <1>1, <1>5, <2>1 DEF HeldInv, Follows
<1>6. ASSUME token # 0, token # version' PROVE Follows(acked)'
  <2>1. CASE token = version
    <3>1. acked' = sent
      BY <1>2, <1>6, <2>1, FreshDelivery
    <3> QED BY <1>1, <1>6, <2>1, <3>1 DEF HeldInv, Follows
  <2>2. CASE token # version
    <3>1. acked' = acked
      BY <1>2, <1>6, <2>2, FreshDelivery
    <3> QED BY <1>1, <1>6, <2>2, <3>1 DEF HeldInv, Follows
  <2> QED BY <2>1, <2>2
<1> QED BY <1>1, <1>4, <1>5, <1>6 DEF HeldInv

\* A request that is over leaves what is known of the others, if the row stays.
LEMMA FreeKnowledge ==
    ASSUME TypeOK, OrderInv, CopyInv, ReplyInv, NEW b \in Beats, Free(b),
           UNCHANGED <<row, device>>,
           \/ awaited' = NoBeat
           \/ awaited # b /\ awaited' = awaited
    PROVE  CopyInv' /\ ReplyInv'
<1>1. RequestType
  BY TypeGroups
<1>2. /\ stage'[b] = "idle" /\ behind' = behind \ {b}
      /\ \A c \in Beats \ {b} : stage'[c] = stage[c] /\ echo'[c] = echo[c]
                                /\ copy'[c] = copy[c] /\ reply'[c] = reply[c]
  BY <1>1, FreeEffect
<1>3. UNCHANGED <<version, sent, acked, token>>
  BY DEF row, device
<1>4. \A c \in Beats \ behind' : UnderWay(c)' => c # b /\ c \notin behind
  BY <1>2 DEF UnderWay
<1>5. \A c \in Beats \ behind' : stage'[c] = "loaded" =>
          copy'[c].version = version' /\ copy'[c].sent = sent' /\ copy'[c].acked = acked'
  BY <1>2, <1>3, <1>4 DEF CopyInv, UnderWay
<1>6. \A c \in Beats \ behind' : UnderWay(c)' => echo'[c] = token' \/ token' = 0
  BY <1>2, <1>3, <1>4 DEF CopyInv, UnderWay
<1>7. \A c \in Beats : awaited' = c => echo'[c] = token'
  <2> SUFFICES ASSUME NEW c \in Beats, awaited' = c PROVE echo'[c] = token'
      OBVIOUS
  <2>1. awaited = c /\ c # b
    BY BeatAssumption
  <2> QED BY <1>2, <1>3, <2>1 DEF CopyInv
<1>8. ReplyInv'
  <2>1. \A c \in Beats : stage'[c] = "answered" => stage[c] = "answered" /\ reply'[c] = reply[c]
    BY <1>2
  <2> QED BY <1>3, <2>1 DEF ReplyInv, Carries
<1> QED BY <1>5, <1>6, <1>7, <1>8 DEF CopyInv

\* A request handled on a fresh copy leaves copies and answers true to the row.
LEMMA DeliveryKnowledge ==
    ASSUME TypeOK, OrderInv, CopyInv, ReplyInv, HeldInv, NEW b \in Beats,
           DeliveryFor(b), b \notin behind
    PROVE  CopyInv' /\ ReplyInv'
<1>1. stage[b] = "loaded" /\ awaited' = awaited /\ token' = token
  BY DEF DeliveryFor, Stored, device
<1>2. PICK r : r = Answer(b, version') /\ Answers(b, r)
  BY FreshDelivery
<1>3. \A c \in Beats \ {b} : stage[c] \in {"loaded", "answered"} => c \in behind
  BY <1>1, OneCurrent
<1>4. \A c \in Beats \ {b} : stage[c] # "answered"
  BY <1>1 DEF OrderInv, UnderWay
<1>5. CASE awaited = b
  <2>1. /\ stage' = [stage EXCEPT ![b] = "answered"] /\ reply' = [reply EXCEPT ![b] = r]
        /\ UNCHANGED <<echo, older, copy, behind>>
    BY <1>2, <1>5 DEF Answers
  <2>2. \A c \in Beats : stage'[c] = IF c = b THEN "answered" ELSE stage[c]
    BY <2>1 DEF TypeOK
  <2>3. reply'[b] = r
    BY <2>1 DEF TypeOK
  <2>4. CopyInv'
    BY <1>1, <1>3, <2>1, <2>2 DEF CopyInv, UnderWay
  <2>5. r # NoReply => Carries(r)'
    BY <1>2, <1>5, AnswerCarries
  <2>6. ReplyInv'
    BY <1>4, <2>2, <2>3, <2>5 DEF ReplyInv, Carries
  <2> QED BY <2>4, <2>6
<1>6. CASE awaited # b
  <2>1. Free(b)
    BY <1>2, <1>6 DEF Answers
  <2>2. /\ stage'[b] = "idle" /\ behind' = behind \ {b}
        /\ \A c \in Beats \ {b} : stage'[c] = stage[c] /\ echo'[c] = echo[c]
    BY <2>1, TypeGroups, FreeEffect
  <2>3. \A c \in Beats \ behind' : UnderWay(c)' => c # b /\ c \notin behind
    BY <2>2 DEF UnderWay
  <2>4. CopyInv'
    BY <1>1, <1>3, <1>6, <2>2, <2>3 DEF CopyInv, UnderWay
  <2>5. ReplyInv'
    BY <1>4, <2>2 DEF ReplyInv
  <2> QED BY <2>4, <2>5
<1> QED BY <1>5, <1>6

\* What the device takes over makes it follow the map of the token it latches.
LEMMA TakenOver ==
    ASSUME TypeOK, HeldInv, NEW r \in Replies, Carries(r), token' = r.token,
           held' = Applied(r.wire), UNCHANGED row
    PROVE  HeldInv'
<1>1. UNCHANGED <<version, sent, acked, top>>
  BY DEF row
<1>2. token' = version /\ version # 0 /\ version \in Nat /\ top \in Nat /\ version <= top
  BY DEF Carries, HeldInv, TypeOK
<1>3. ASSUME NEW k \in Keys
      PROVE  IF sent[k] = Unset THEN held'[k] \notin Vals ELSE held'[k] \in {sent[k], Local}
  <2>1. held'[k] = CASE r.wire[k] = Unset -> held[k]
                     [] r.wire[k] = Reset -> Unset
                     [] OTHER -> r.wire[k]
    BY DEF Applied
  <2>2. CASE sent[k] # Unset
    <3>1. r.wire[k] = sent[k] /\ sent[k] \in Vals
      BY <2>2 DEF Carries, TypeOK, Maps
    <3> QED BY <2>1, <2>2, <3>1, ValueAssumption
  <2>3. CASE sent[k] = Unset /\ r.wire[k] = Reset
    BY <2>1, <2>3, ValueAssumption
  <2>4. CASE sent[k] = Unset /\ r.wire[k] = Unset
    <3>1. held'[k] = held[k]
      BY <2>1, <2>4, ValueAssumption
    <3>2. CASE token = 0
      BY <2>4, <3>1, <3>2 DEF HeldInv
    <3>3. CASE token # 0 /\ token = version
      BY <2>4, <3>1, <3>3 DEF HeldInv, Follows
    <3>4. CASE token # 0 /\ token # version
      <4>1. acked[k] = Unset
        BY <2>4, <3>4 DEF Carries
      <4> QED BY <2>4, <3>1, <3>4, <4>1 DEF HeldInv, Follows
    <3> QED BY <3>2, <3>3, <3>4
  <2>5. sent[k] # Unset \/ r.wire[k] \in {Unset, Reset}
    BY DEF Carries
  <2> QED BY <2>2, <2>3, <2>4, <2>5
<1>4. Follows(sent)'
  BY <1>1, <1>3 DEF Follows
<1>5. token' <= version' /\ version' <= top' /\ token' # 0 /\ token' = version'
  BY <1>1, <1>2
<1> QED BY <1>4, <1>5 DEF HeldInv

\* Every step keeps what console and device know of each other.
LEMMA KnowledgeStep ==
    TypeOK /\ OrderInv /\ KnowledgeInv /\ [Next]_vars => KnowledgeInv'
<1> SUFFICES ASSUME TypeOK, OrderInv, KnowledgeInv, [Next]_vars, ~overtaken'
             PROVE  CopyInv' /\ ReplyInv' /\ HeldInv'
  BY DEF KnowledgeInv
<1>1. ~overtaken
  BY DEF Next, Request, Handle, Loss, People, Beat, Load, DeliveryFor, Stored, NothingToSay,
         Deliver, Lost, GivesUp, EditPolicy, Approve, LocalEdit, Reinstall, vars
<1>2. CopyInv /\ ReplyInv /\ HeldInv
  BY <1>1 DEF KnowledgeInv
<1> USE <1>2
<1>3. ASSUME NEW b \in Beats, Beat(b) PROVE CopyInv' /\ ReplyInv' /\ HeldInv'
  <2>1. \A c \in Beats : /\ stage'[c] = IF c = b THEN "queued" ELSE stage[c]
                         /\ echo'[c] = IF c = b THEN token ELSE echo[c]
    BY <1>3 DEF Beat, TypeOK
  <2>2. awaited' = b /\ UNCHANGED <<row, copy, reply, device, behind>>
    BY <1>3 DEF Beat
  <2>3. CopyInv'
    BY <2>1, <2>2 DEF CopyInv, UnderWay, row, device
  <2>4. ReplyInv' /\ HeldInv'
    BY <2>1, <2>2 DEF ReplyInv, Carries, HeldInv, Follows, row, device
  <2> QED BY <2>3, <2>4
<1>4. ASSUME NEW b \in Beats, Load(b) PROVE CopyInv' /\ ReplyInv' /\ HeldInv'
  <2>1. \A c \in Beats : /\ stage'[c] = IF c = b THEN "loaded" ELSE stage[c]
                         /\ copy'[c] = IF c = b THEN Row ELSE copy[c]
    BY <1>4 DEF Load, TypeOK
  <2>2. UNCHANGED <<row, echo, reply, awaited, device>> /\ stage[b] = "queued"
        /\ behind' = behind \cup older[b]
    BY <1>4 DEF Load
  <2>3. Row.version = version /\ Row.sent = sent /\ Row.acked = acked
    BY DEF Row
  <2>4. CopyInv'
    BY <2>1, <2>2, <2>3 DEF CopyInv, UnderWay, row, device
  <2>5. ReplyInv' /\ HeldInv'
    BY <2>1, <2>2 DEF ReplyInv, Carries, HeldInv, Follows, row, device
  <2> QED BY <2>4, <2>5
<1>5. ASSUME NEW b \in Beats, DeliveryFor(b) PROVE CopyInv' /\ ReplyInv' /\ HeldInv'
  <2>1. b \notin behind
    BY <1>5 DEF DeliveryFor, Stored
  <2> QED BY <1>5, <2>1, DeliveryKnowledge, DeliveryHeld
<1>6. ASSUME NEW b \in Beats, NothingToSay(b) PROVE CopyInv' /\ ReplyInv' /\ HeldInv'
  <2>1. UNCHANGED <<row, device, awaited>> /\ stage[b] = "loaded" /\ Answers(b, NoReply)
    BY <1>6 DEF NothingToSay
  <2>2. HeldInv'
    BY <2>1 DEF HeldInv, Follows, row, device
  <2>3. CASE awaited = b
    <3>1. /\ stage' = [stage EXCEPT ![b] = "answered"]
          /\ reply' = [reply EXCEPT ![b] = NoReply]
          /\ UNCHANGED <<echo, copy, behind>>
      BY <2>1, <2>3 DEF Answers
    <3>2. \A c \in Beats : /\ stage'[c] = IF c = b THEN "answered" ELSE stage[c]
                           /\ reply'[c] = IF c = b THEN NoReply ELSE reply[c]
      BY <3>1 DEF TypeOK
    <3>3. CopyInv'
      BY <2>1, <3>1, <3>2 DEF CopyInv, UnderWay, row, device
    <3>4. ReplyInv'
      BY <2>1, <3>2 DEF ReplyInv, Carries, row, device
    <3> QED BY <2>2, <3>3, <3>4
  <2>4. CASE awaited # b
    BY <2>1, <2>2, <2>4, FreeKnowledge DEF Answers
  <2> QED BY <2>3, <2>4
<1>7. ASSUME NEW b \in Beats, Deliver(b) PROVE CopyInv' /\ ReplyInv' /\ HeldInv'
  <2>1. /\ awaited = b /\ stage[b] = "answered" /\ awaited' = NoBeat /\ Free(b)
        /\ UNCHANGED row
    BY <1>7 DEF Deliver
  <2>2. CASE reply[b] = NoReply
    <3>1. UNCHANGED device
      BY <1>7, <2>2 DEF Deliver
    <3>2. HeldInv'
      BY <2>1, <3>1 DEF HeldInv, Follows, row, device
    <3> QED BY <2>1, <3>1, <3>2, FreeKnowledge
  <2>3. CASE reply[b] # NoReply
    <3>1. token' = reply[b].token /\ held' = Applied(reply[b].wire)
      BY <1>7, <2>3 DEF Deliver
    <3>2. Carries(reply[b]) /\ reply[b] \in Replies
      BY <2>1, <2>3, TypeGroups DEF ReplyInv, RequestType
    <3>3. HeldInv'
      BY <2>1, <3>1, <3>2, TakenOver
    <3>4. \A c \in Beats \ {b} : UnderWay(c) => c \in behind
      BY <2>1 DEF OrderInv
    <3>5. \A c \in Beats \ {b} : stage[c] # "answered"
      BY <2>1 DEF OrderInv
    <3>6. /\ stage'[b] = "idle" /\ behind' = behind \ {b}
          /\ \A c \in Beats \ {b} : stage'[c] = stage[c]
      BY <2>1, TypeGroups, FreeEffect
    <3>7. \A c \in Beats \ behind' : stage'[c] = "idle"
      BY <3>4, <3>6 DEF UnderWay
    <3>8. CopyInv'
      BY <2>1, <3>7, BeatAssumption DEF CopyInv, UnderWay
    <3>9. ReplyInv'
      BY <3>5, <3>6 DEF ReplyInv
    <3> QED BY <3>3, <3>8, <3>9
  <2> QED BY <2>2, <2>3
<1>8. ASSUME NEW b \in Beats, Lost(b) PROVE CopyInv' /\ ReplyInv' /\ HeldInv'
  <2>1. UNCHANGED <<row, device>> /\ awaited' = NoBeat /\ Free(b)
    BY <1>8 DEF Lost
  <2>2. HeldInv'
    BY <2>1 DEF HeldInv, Follows, row, device
  <2> QED BY <2>1, <2>2, FreeKnowledge
<1>9. ASSUME NEW b \in Beats, GivesUp(b) PROVE CopyInv' /\ ReplyInv' /\ HeldInv'
  <2>1. UNCHANGED <<row, requests, device, behind>> /\ awaited' = NoBeat
    BY <1>9 DEF GivesUp
  <2> QED BY <2>1, BeatAssumption DEF CopyInv, UnderWay, ReplyInv, Carries, HeldInv,
          Follows, row, requests, device
<1>10. CASE \/ \E m \in Maps, e \in BOOLEAN : EditPolicy(m, e)
            \/ Approve
  <2>1. UNCHANGED <<row, requests, device, behind, awaited>>
    BY <1>10 DEF EditPolicy, Approve
  <2> QED BY <2>1 DEF CopyInv, UnderWay, ReplyInv, Carries, HeldInv,
          Follows, row, requests, device
<1>11. ASSUME NEW k \in Keys, LocalEdit(k) PROVE CopyInv' /\ ReplyInv' /\ HeldInv'
  <2>1. UNCHANGED <<row, requests, token, behind, awaited>>
        /\ held' = [held EXCEPT ![k] = Local]
    BY <1>11 DEF LocalEdit
  <2>2. CopyInv' /\ ReplyInv'
    BY <2>1 DEF CopyInv, UnderWay, ReplyInv, Carries, row, requests
  <2>3. \A j \in Keys : held'[j] = IF j = k THEN Local ELSE held[j]
    BY <2>1 DEF TypeOK
  <2>4. Follows(sent) => Follows(sent)'
    BY <2>1, <2>3, ValueAssumption DEF Follows, row
  <2>5. Follows(acked) => Follows(acked)'
    BY <2>1, <2>3, ValueAssumption DEF Follows, row
  <2>6. (\A j \in Keys : held[j] \notin Vals) => \A j \in Keys : held'[j] \notin Vals
    BY <2>3, ValueAssumption
  <2> QED BY <2>1, <2>2, <2>4, <2>5, <2>6 DEF HeldInv, row
<1>12. CASE Reinstall
  <2>1. /\ UNCHANGED <<row, requests, awaited, behind>>
        /\ awaited = NoBeat /\ token' = 0 /\ held' = Nothing
    BY <1>12 DEF Reinstall
  <2>2. CopyInv'
    BY <2>1, BeatAssumption DEF CopyInv, UnderWay, row, requests
  <2>3. \A c \in Beats : stage'[c] # "answered"
    BY <2>1, BeatAssumption DEF OrderInv, requests
  <2>4. \A k \in Keys : held'[k] \notin Vals
    BY <2>1, ValueAssumption DEF Nothing
  <2>5. version' \in Nat /\ 0 <= version' /\ version' <= top'
    BY <2>1 DEF HeldInv, row, TypeOK
  <2> QED BY <2>1, <2>2, <2>3, <2>4, <2>5 DEF ReplyInv, HeldInv
<1>13. CASE UNCHANGED vars
  BY <1>13 DEF vars, CopyInv, UnderWay, ReplyInv, Carries, HeldInv, Follows, row,
          requests, device
<1> QED BY <1>3, <1>4, <1>5, <1>6, <1>7, <1>8, <1>9, <1>10, <1>11, <1>12, <1>13
        DEF Next, Request, Handle, Loss, People

\* Order and knowledge hold in every state.
LEMMA DeliveryInvariant == Spec => [](TypeOK /\ OrderInv /\ KnowledgeInv)
<1>1. Init => OrderInv /\ KnowledgeInv
  <2> SUFFICES ASSUME Init PROVE OrderInv /\ KnowledgeInv
      OBVIOUS
  <2>1. /\ \A b \in Beats : stage[b] = "idle" /\ older[b] = {}
        /\ awaited = NoBeat /\ behind = {}
    BY DEF Init
  <2>2. OrderInv
    BY <2>1, BeatAssumption DEF OrderInv, UnderWay
  <2>3. CopyInv /\ ReplyInv
    BY <2>1, BeatAssumption DEF CopyInv, ReplyInv, UnderWay
  <2>4. HeldInv
    BY ValueAssumption DEF Init, HeldInv, Nothing
  <2> QED BY <2>2, <2>3, <2>4 DEF KnowledgeInv
<1> QED BY <1>1, OrderStep, KnowledgeStep, TypeStep, DeliveryTypes, PTL DEF Spec

\* For any number of keys and requests: whatever is lost, retried, edited or
\* reinstalled, a device that has latched the row's token holds no pushed key outside
\* the map of that token, unless deliveryFor() ran for an overtaken request.
THEOREM NothingStranded == Spec => []NoKeyStranded
<1>1. TypeOK /\ KnowledgeInv => NoKeyStranded
  <2> SUFFICES ASSUME TypeOK, HeldInv, NEW k \in Keys, token = version, sent[k] = Unset
               PROVE  held[k] \notin Vals
    BY DEF KnowledgeInv, NoKeyStranded, Forgotten
  <2>1. CASE token = 0
    BY <2>1 DEF HeldInv
  <2>2. CASE token # 0
    BY <2>2 DEF HeldInv, Follows
  <2> QED BY <2>1, <2>2
<1> QED BY <1>1, DeliveryInvariant, PTL

\* For any number of keys and requests: the token the device echoes is evidence of
\* the map it holds (the row's if it is the row's token, else the acknowledged one).
THEOREM EchoEvidence == Spec => []EchoIsEvidence
<1>1. TypeOK /\ KnowledgeInv => EchoIsEvidence
  BY DEF KnowledgeInv, HeldInv, Follows, EchoIsEvidence
<1> QED BY <1>1, DeliveryInvariant, PTL

=============================================================================
