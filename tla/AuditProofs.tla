---------------------------- MODULE AuditProofs -----------------------------
(***************************************************************************)
(* Theorem about AuditSessions, for any set of connections: neither a post *)
(* nor a heartbeat closes the row of a connection that lives.              *)
(***************************************************************************)
EXTENDS AuditSessions, TLAPS

LEMMA InitType == Init => TypeOK /\ AuditInv
<1> SUFFICES ASSUME Init PROVE TypeOK /\ AuditInv
  OBVIOUS
<1>1. rows = <<>> /\ Row = {}
  BY DEF Init, Row
<1>a. beat \in BeatType
  BY DEF Init, NoBeat, BeatType
<1>b. rows \in Seq(RowType)
  BY <1>1
<1>c. posts \subseteq {"new", "authorized", "close"} \X Conns
      /\ handlers \subseteq [kind : {"authorized", "close"}, conn : Conns, open : Nat]
  BY DEF Init
<1>2. TypeOK
  BY <1>a, <1>b, <1>c DEF Init, TypeOK
<1>3. AuditInv
  BY <1>1 DEF Init, AuditInv, EventsTrue, BeatTrue, NoBeat
<1> QED
  BY <1>2, <1>3

\* A rewrite of some rows keeps the sequence a sequence of rows.
LEMMA RewriteRows ==
    ASSUME TypeOK, NEW f, f = [r \in Row |-> f[r]], \A r \in Row : f[r] \in RowType
    PROVE  f \in Seq(RowType) /\ DOMAIN f = Row
<1>1. Len(rows) \in Nat /\ Row = 1 .. Len(rows)
  BY DEF TypeOK, Row
<1>2. f \in [1 .. Len(rows) -> RowType]
  BY <1>1
<1>3. f \in Seq(RowType)
  BY <1>1, <1>2
<1> QED
  BY <1>3

\* A row is a row.
LEMMA RowOf == ASSUME TypeOK, NEW r \in Row PROVE rows[r] \in RowType /\ rows[r].conn \in Conns
<1>1. rows[r] \in RowType
  BY DEF TypeOK, Row
<1> QED
  BY <1>1 DEF RowType

\* The columns a statement writes keep their types.
LEMMA RowColumns ==
    ASSUME NEW x \in RowType
    PROVE  /\ [x EXCEPT !.closed = TRUE] \in RowType
           /\ [x EXCEPT !.sent = "yes"] \in RowType
           /\ [x EXCEPT !.sent = "due"] \in RowType
           /\ [x EXCEPT !.age = "past"] \in RowType
           /\ [x EXCEPT !.age = "old"] \in RowType
           /\ [x EXCEPT !.asked = TRUE, !.sent = "no"] \in RowType
BY DEF RowType

\* Every action that writes rows keeps them rows; only an insert adds one.
LEMMA RowWrites ==
    ASSUME TypeOK
    PROVE  /\ \A h \in handlers : FinishClose(h) => rows' \in Seq(RowType) /\ DOMAIN rows' = Row
           /\ Reconcile \/ MarkSent \/ CloseStaleSessions => rows' \in Seq(RowType) /\ DOMAIN rows' = Row
           /\ \A r \in Row : Disconnect(r) \/ GraceEnds(r) \/ GetsOld(r) \/ RetryDue(r)
                               => rows' \in Seq(RowType) /\ DOMAIN rows' = Row
<1>1. \A r \in Row : rows[r] \in RowType
  BY DEF TypeOK, Row
<1> DEFINE Good == rows' \in Seq(RowType) /\ DOMAIN rows' = Row
<1>2. ASSUME rows' = [r \in Row |-> rows'[r]], \A r \in Row : rows'[r] \in RowType PROVE Good
  BY <1>2, RewriteRows
<1> HIDE DEF Good
<1>3. ASSUME NEW h, FinishClose(h) PROVE Good
  <2>1. rows' = [s \in Row |-> rows'[s]]
    BY <1>3 DEF FinishClose, Row
  <2>2. \A s \in Row : rows'[s] \in RowType
    BY <1>3, <1>1, RowColumns DEF FinishClose, Row
  <2> QED
    BY <1>2, <2>1, <2>2
<1>4. ASSUME Reconcile PROVE Good
  <2>1. rows' = [s \in Row |-> rows'[s]]
    BY <1>4 DEF Reconcile, Row
  <2>2. \A s \in Row : rows'[s] \in RowType
    BY <1>4, <1>1, RowColumns DEF Reconcile, Row
  <2> QED
    BY <1>2, <2>1, <2>2
<1>5. ASSUME MarkSent PROVE Good
  <2>1. rows' = [s \in Row |-> rows'[s]]
    BY <1>5 DEF MarkSent, Row
  <2>2. \A s \in Row : rows'[s] \in RowType
    BY <1>5, <1>1, RowColumns DEF MarkSent, Row
  <2> QED
    BY <1>2, <2>1, <2>2
<1>6. ASSUME CloseStaleSessions PROVE Good
  <2>1. rows' = [s \in Row |-> rows'[s]]
    BY <1>6 DEF CloseStaleSessions, Row
  <2>2. \A s \in Row : rows'[s] \in RowType
    BY <1>6, <1>1, RowColumns DEF CloseStaleSessions, Row
  <2> QED
    BY <1>2, <2>1, <2>2
<1>7. ASSUME NEW r \in Row, Disconnect(r) PROVE Good
  <2>1. rows' = [s \in Row |-> rows'[s]]
    BY <1>7 DEF Disconnect, Row
  <2>2. \A s \in Row : rows'[s] \in RowType
    BY <1>7, <1>1, RowColumns DEF Disconnect, Row
  <2> QED
    BY <1>2, <2>1, <2>2
<1>8. ASSUME NEW r \in Row, GraceEnds(r) PROVE Good
  <2>1. rows' = [s \in Row |-> rows'[s]]
    BY <1>8 DEF GraceEnds, Row
  <2>2. \A s \in Row : rows'[s] \in RowType
    BY <1>8, <1>1, RowColumns DEF GraceEnds, Row
  <2> QED
    BY <1>2, <2>1, <2>2
<1>9. ASSUME NEW r \in Row, GetsOld(r) PROVE Good
  <2>1. rows' = [s \in Row |-> rows'[s]]
    BY <1>9 DEF GetsOld, Row
  <2>2. \A s \in Row : rows'[s] \in RowType
    BY <1>9, <1>1, RowColumns DEF GetsOld, Row
  <2> QED
    BY <1>2, <2>1, <2>2
<1>10. ASSUME NEW r \in Row, RetryDue(r) PROVE Good
  <2>1. rows' = [s \in Row |-> rows'[s]]
    BY <1>10 DEF RetryDue, Row
  <2>2. \A s \in Row : rows'[s] \in RowType
    BY <1>10, <1>1, RowColumns DEF RetryDue, Row
  <2> QED
    BY <1>2, <2>1, <2>2
<1> QED
  BY <1>3, <1>4, <1>5, <1>6, <1>7, <1>8, <1>9, <1>10 DEF Good

\* An insert appends a row of the connection.
LEMMA Insert ==
    ASSUME TypeOK, NEW c \in Conns, CreateRow(c)
    PROVE  /\ rows' \in Seq(RowType)
           /\ DOMAIN rows' = Row \cup {Len(rows) + 1} /\ Len(rows) + 1 \notin Row
           /\ \A r \in Row : rows'[r] = rows[r]
           /\ rows'[Len(rows) + 1] = NewRow(c)
<1>1. rows \in Seq(RowType) /\ Len(rows) \in Nat /\ Row = 1 .. Len(rows)
  BY DEF TypeOK, Row
<1>2. NewRow(c) \in RowType
  BY DEF NewRow, RowType
<1>3. rows' = Append(rows, NewRow(c))
  BY DEF CreateRow
<1> HIDE DEF NewRow
<1>4. rows' \in Seq(RowType) /\ Len(rows') = Len(rows) + 1
  BY <1>1, <1>2, <1>3
<1> QED
  BY <1>1, <1>2, <1>3, <1>4

LEMMA LatestOpenType ==
    ASSUME TypeOK, NEW c
    PROVE  /\ LatestOpen(c) \in Nat
           /\ LatestOpen(c) # 0 => LatestOpen(c) \in Row /\ rows[LatestOpen(c)].conn = c
<1> DEFINE open == {r \in Row : rows[r].conn = c /\ Open(r)}
           latest == {r \in open : \A t \in open : t <= r}
<1>1. Row = 1 .. Len(rows) /\ Len(rows) \in Nat
  BY DEF TypeOK, Row
<1>2. CASE latest = {}
  BY <1>2 DEF LatestOpen
<1>3. CASE latest # {}
  BY <1>1, <1>3 DEF LatestOpen
<1> QED
  BY <1>2, <1>3

LEMMA TypeStep == ASSUME TypeOK, [Next]_vars PROVE TypeOK'
<1>1. Row \subseteq Nat
  BY DEF TypeOK, Row
<1>2. ASSUME NEW c \in Conns, OpenConnection(c) \/ Authorize(c) \/ CloseConnection(c)
      PROVE TypeOK'
  BY <1>2 DEF TypeOK, OpenConnection, Authorize, CloseConnection, EndConnections, Post, table, bounds
<1>3. CASE SwitchOff
  <2>1. beat' \in BeatType
    BY <1>3 DEF TypeOK, BeatType, SwitchOff
  <2>2. conn' \in [Conns -> {"idle", "opened", "authorized", "ended"}] /\ outages' \in Nat
    BY <1>3 DEF TypeOK, SwitchOff
  <2>3. up' \in BOOLEAN
    BY <1>3, Zenon DEF SwitchOff
  <2>4. UNCHANGED <<reach, posts, handlers, rows, seen, trashed, requests>>
    BY <1>3 DEF SwitchOff, table
  <2> QED
    BY <2>1, <2>2, <2>3, <2>4 DEF TypeOK
<1>4. CASE SwitchOn \/ LoseApi \/ RegainApi
  <2>1. up' \in BOOLEAN /\ reach' \in BOOLEAN
    BY <1>4, Zenon DEF TypeOK, SwitchOn, LoseApi, RegainApi
  <2>2. requests' \in Nat /\ outages' \in Nat
    BY <1>4 DEF TypeOK, SwitchOn, LoseApi, RegainApi, bounds
  <2>3. UNCHANGED <<conn, posts, handlers, beat, rows, seen, trashed>>
    BY <1>4 DEF SwitchOn, LoseApi, RegainApi, table
  <2> QED
    BY <2>1, <2>2, <2>3 DEF TypeOK
<1>5. CASE LosePost \/ Recycle \/ Lapse
  BY <1>5 DEF TypeOK, LosePost, Recycle, Lapse, device, table, bounds
<1>a. CASE Restore
  <2>1. trashed' \in BOOLEAN
    BY <1>a, Zenon DEF Restore
  <2>2. outages' \in Nat
    BY <1>a DEF TypeOK, Restore
  <2>3. UNCHANGED <<conn, up, reach, posts, handlers, beat, rows, seen, requests>>
    BY <1>a DEF Restore, device
  <2> QED
    BY <2>1, <2>2, <2>3 DEF TypeOK
<1>6. ASSUME NEW c \in Conns, HandleNew(c) PROVE TypeOK'
  <2>1. rows' \in Seq(RowType)
    BY <1>6, Insert DEF HandleNew
  <2> QED
    BY <1>6, <2>1 DEF TypeOK, HandleNew, device, bounds
<1>7. ASSUME NEW c \in Conns, NEW k \in {"authorized", "close"}, ReadOpen(k, c) PROVE TypeOK'
  <2>1. [kind |-> k, conn |-> c, open |-> LatestOpen(c)]
           \in [kind : {"authorized", "close"}, conn : Conns, open : Nat]
    BY LatestOpenType
  <2>2. handlers' \subseteq [kind : {"authorized", "close"}, conn : Conns, open : Nat]
    BY <1>7, <2>1 DEF TypeOK, ReadOpen
  <2> QED
    BY <1>7, <2>2 DEF TypeOK, ReadOpen, device, table, bounds
<1>8. ASSUME NEW h \in handlers, FinishClose(h) PROVE TypeOK'
  BY <1>8, RowWrites DEF TypeOK, FinishClose, device, bounds
<1>9. ASSUME NEW h \in handlers, FinishAuthorized(h) PROVE TypeOK'
  <2>0. h.conn \in Conns /\ rows \in Seq(RowType)
    BY DEF TypeOK
  <2>1. rows' \in Seq(RowType)
    BY <1>9, <2>0, Insert DEF FinishAuthorized
  <2> QED
    BY <1>9, <2>1 DEF TypeOK, FinishAuthorized, device, bounds
<1>10. CASE SendBeat \/ LoseBeat \/ RecordOnline \/ SelectPending
  <2>a. NoBeat \in BeatType
    BY DEF NoBeat, BeatType
  <2>b. ASSUME RecordOnline PROVE beat' \in BeatType
    <3>1. beat' = NoBeat \/ beat' = [beat EXCEPT !.at = "reconcile"]
      BY <2>b, Zenon DEF RecordOnline
    <3> QED
      BY <2>a, <3>1 DEF TypeOK, BeatType
  <2>c. ASSUME SendBeat \/ LoseBeat \/ SelectPending PROVE beat' \in BeatType
    <3>1. CASE SendBeat
      <4>1. beat' = [at |-> "sent", conns |-> Live, known |-> Row, pending |-> {}, heard |-> TRUE]
        BY <3>1 DEF SendBeat, NoBeat
      <4>2. Live \subseteq Conns
        BY DEF Live
      <4> QED
        BY <1>1, <4>1, <4>2 DEF BeatType
    <3>2. CASE LoseBeat
      BY <2>a, <3>2 DEF LoseBeat
    <3>3. CASE SelectPending
      <4>1. {r \in Row : Pending(r)} \in SUBSET Nat
        BY <1>1
      <4> QED
        BY <3>3, <4>1 DEF TypeOK, BeatType, SelectPending
    <3> QED
      BY <2>c, <3>1, <3>2, <3>3
  <2>1. beat' \in BeatType
    BY <1>10, <2>b, <2>c
  <2>2. seen' \in BOOLEAN
    BY <1>10, Zenon DEF TypeOK, SendBeat, LoseBeat, RecordOnline, SelectPending, table
  <2> QED
    BY <1>10, <2>1, <2>2 DEF TypeOK, SendBeat, LoseBeat, RecordOnline, SelectPending, device, table, bounds
<1>11. CASE Reconcile
  <2>1. beat' \in BeatType
    BY <1>11 DEF TypeOK, BeatType, Reconcile
  <2> QED
    BY <1>11, <2>1, RowWrites DEF TypeOK, Reconcile, device, bounds
<1>12. CASE MarkSent
  <2>1. beat' \in BeatType
    BY <1>12 DEF TypeOK, BeatType, MarkSent
  <2> QED
    BY <1>12, <2>1, RowWrites DEF TypeOK, MarkSent, device, bounds
<1>13. CASE Answer
  <2>1. beat' \in BeatType
    BY <1>13 DEF BeatType, NoBeat, Answer
  <2>2. posts' \subseteq {"new", "authorized", "close"} \X Conns
    BY <1>13 DEF TypeOK, Answer, EndConnections, Post, Live
  <2>3. conn' \in [Conns -> {"idle", "opened", "authorized", "ended"}]
    BY <1>13 DEF TypeOK, Answer, EndConnections
  <2> QED
    BY <1>13, <2>1, <2>2, <2>3 DEF TypeOK, Answer, table, bounds
<1>14. ASSUME NEW r \in Row, Disconnect(r) \/ GraceEnds(r) \/ GetsOld(r) \/ RetryDue(r) PROVE TypeOK'
  <2>1. rows' \in Seq(RowType)
    BY <1>14, RowWrites
  <2>2. requests' \in Nat
    BY <1>14 DEF TypeOK, Disconnect, GraceEnds, GetsOld, RetryDue, bounds
  <2>3. UNCHANGED <<conn, up, reach, posts, handlers, beat, seen, trashed, outages>>
    BY <1>14 DEF Disconnect, GraceEnds, GetsOld, RetryDue, device, bounds
  <2> QED
    BY <2>1, <2>2, <2>3 DEF TypeOK
<1>15. CASE CloseStaleSessions
  BY <1>15, RowWrites DEF TypeOK, CloseStaleSessions, device, bounds
<1>16. CASE UNCHANGED vars
  BY <1>16 DEF TypeOK, vars, device, table, bounds
<1>17. CASE DeviceStep
  BY <1>2, <1>3, <1>4, <1>17 DEF DeviceStep
<1>18. CASE PostStep
  BY <1>6, <1>7, <1>8, <1>9, <1>18 DEF PostStep
<1>19. CASE BeatStep
  BY <1>10, <1>11, <1>12, <1>13, <1>19 DEF BeatStep
<1>20. CASE TimeStep
  BY <1>5, <1>14, <1>20 DEF TimeStep
<1> QED
  BY <1>5, <1>a, <1>10, <1>14, <1>15, <1>16, <1>17, <1>18, <1>19, <1>20 DEF Next

-----------------------------------------------------------------------------
(* What a step may do to each part of the state.                           *)

\* A connection begins once and never comes back.
LEMMA ConnStep ==
    ASSUME TypeOK, Next
    PROVE  \A c \in Conns :
              /\ conn[c] # "idle" => conn'[c] # "idle"
              /\ conn[c] = "ended" => conn'[c] = "ended"
              /\ conn'[c] \in {"opened", "authorized"} => conn[c] = "idle" \/ c \in Live
<1>1. CASE UNCHANGED conn
  BY <1>1 DEF Live
<1>2. ASSUME NEW d \in Conns, OpenConnection(d) \/ Authorize(d) PROVE
         /\ conn[d] \in {"idle", "opened"} /\ conn'[d] \in {"opened", "authorized"}
         /\ conn[d] = "opened" \/ conn[d] = "idle"
         /\ \A c \in Conns \ {d} : conn'[c] = conn[c]
  BY <1>2 DEF TypeOK, OpenConnection, Authorize
<1>3. ASSUME NEW D, conn' = [c \in Conns |-> IF c \in D THEN "ended" ELSE conn[c]]
      PROVE  \A c \in Conns : conn'[c] = "ended" \/ conn'[c] = conn[c]
  BY <1>3
<1>4. ASSUME NEW d \in Conns, CloseConnection(d)
      PROVE  \A c \in Conns : conn'[c] = "ended" \/ conn'[c] = conn[c]
  BY <1>3, <1>4 DEF CloseConnection, EndConnections
<1>5. ASSUME SwitchOff \/ Answer
      PROVE  \A c \in Conns : conn'[c] = "ended" \/ conn'[c] = conn[c]
  BY <1>3, <1>5 DEF SwitchOff, Answer, EndConnections
<1>6. \/ UNCHANGED conn \/ SwitchOff \/ Answer
      \/ \E d \in Conns : OpenConnection(d) \/ Authorize(d) \/ CloseConnection(d)
  BY DEF Next, DeviceStep, PostStep, BeatStep, TimeStep, SwitchOn, LoseApi, RegainApi, HandleNew,
         ReadOpen, FinishClose, FinishAuthorized, SendBeat, LoseBeat, RecordOnline, Reconcile,
         SelectPending, MarkSent, LosePost, Disconnect, Recycle, Restore,
         CloseStaleSessions, GraceEnds, GetsOld, RetryDue, Lapse, device
<1> QED
  BY <1>1, <1>2, <1>4, <1>5, <1>6 DEF Live

\* A row stays the row of its connection; it leaves the grace under a
\* heartbeat that is not reconciled only if that one knows it; a new row is
\* within the grace and of a connection that began.
LEMMA RowsStep ==
    ASSUME TypeOK, EventsTrue, Next
    PROVE  /\ \A r \in Row : r \in Row' /\ rows'[r].conn = rows[r].conn
           /\ beat.at \in {"sent", "reconcile"} =>
                 \A r \in Row \ beat.known : rows[r].age = "grace" => rows'[r].age = "grace"
           /\ \A r \in Row' \ Row : rows'[r].age = "grace" /\ conn[rows'[r].conn] # "idle"
                                    /\ rows'[r].conn \in Conns
<1> DEFINE Kept == /\ \A r \in Row : r \in Row' /\ rows'[r].conn = rows[r].conn
                   /\ beat.at \in {"sent", "reconcile"} =>
                         \A r \in Row \ beat.known : rows[r].age = "grace" => rows'[r].age = "grace"
                   /\ \A r \in Row' \ Row : rows'[r].age = "grace" /\ conn[rows'[r].conn] # "idle"
                                            /\ rows'[r].conn \in Conns
<1>1. \A r \in Row : rows[r] \in RowType
  BY DEF TypeOK, Row
<1>2. CASE UNCHANGED rows
  BY <1>2 DEF Row
<1>3. ASSUME NEW c \in Conns, conn[c] # "idle", CreateRow(c) PROVE Kept
  <2>1. /\ Row' = Row \cup {Len(rows) + 1} /\ \A r \in Row : rows'[r] = rows[r]
        /\ rows'[Len(rows) + 1] = NewRow(c)
    BY <1>3, Insert DEF Row
  <2>2. NewRow(c).age = "grace" /\ NewRow(c).conn = c
    BY DEF NewRow
  <2> QED
    BY <1>3, <2>1, <2>2
<1>4. ASSUME NEW c \in Conns, HandleNew(c) PROVE Kept
  <2>1. conn[c] # "idle"
    BY <1>4 DEF HandleNew, EventsTrue
  <2> QED
    BY <1>3, <1>4, <2>1 DEF HandleNew
<1>5. ASSUME NEW h \in handlers, FinishAuthorized(h) PROVE Kept
  <2>1. h.conn \in Conns /\ conn[h.conn] # "idle"
    BY DEF TypeOK, EventsTrue
  <2>2. UNCHANGED rows \/ CreateRow(h.conn)
    BY <1>5 DEF FinishAuthorized
  <2> QED
    BY <1>2, <1>3, <2>1, <2>2
<1>6. ASSUME Row' = Row, \A r \in Row : rows'[r].conn = rows[r].conn /\ rows'[r].age = rows[r].age
      PROVE  Kept
  BY <1>6
<1>7. ASSUME NEW h \in handlers, FinishClose(h) PROVE Kept
  BY <1>1, <1>6, <1>7 DEF FinishClose, Row, RowType
<1>8. ASSUME Reconcile PROVE Kept
  BY <1>1, <1>6, <1>8 DEF Reconcile, Row, RowType
<1>9. ASSUME MarkSent PROVE Kept
  BY <1>1, <1>6, <1>9 DEF MarkSent, Row, RowType
<1>10. ASSUME CloseStaleSessions PROVE Kept
  BY <1>1, <1>6, <1>10 DEF CloseStaleSessions, Row, RowType
<1>11. ASSUME NEW r \in Row, Disconnect(r) PROVE Kept
  BY <1>1, <1>6, <1>11 DEF Disconnect, Row, RowType
<1>12. ASSUME NEW r \in Row, RetryDue(r) PROVE Kept
  BY <1>1, <1>6, <1>12 DEF RetryDue, Row, RowType
<1>13. ASSUME NEW r \in Row, GraceEnds(r) PROVE Kept
  <2>1. Row' = Row /\ \A s \in Row : rows'[s].conn = rows[s].conn /\ (s # r => rows'[s] = rows[s])
    BY <1>1, <1>13 DEF GraceEnds, Row, RowType
  <2>2. beat.at \in {"sent", "reconcile"} => r \in beat.known
    BY <1>13 DEF GraceEnds
  <2> QED
    BY <2>1, <2>2
<1>14. ASSUME NEW r \in Row, GetsOld(r) PROVE Kept
  <2>1. Row' = Row /\ \A s \in Row : rows'[s].conn = rows[s].conn /\ (s # r => rows'[s] = rows[s])
    BY <1>1, <1>14 DEF GetsOld, Row, RowType
  <2>2. rows[r].age # "grace"
    BY <1>14 DEF GetsOld
  <2> QED
    BY <2>1, <2>2
<1>15. \/ UNCHANGED rows \/ Reconcile \/ MarkSent \/ CloseStaleSessions
       \/ \E c \in Conns : HandleNew(c)
       \/ \E h \in handlers : FinishClose(h) \/ FinishAuthorized(h)
       \/ \E r \in Row : Disconnect(r) \/ GraceEnds(r) \/ GetsOld(r) \/ RetryDue(r)
  BY DEF Next, DeviceStep, PostStep, BeatStep, TimeStep, OpenConnection, Authorize, CloseConnection,
         SwitchOff, SwitchOn, LoseApi, RegainApi, ReadOpen, SendBeat, LoseBeat, RecordOnline,
         SelectPending, Answer, LosePost, Recycle, Restore, Lapse, table
<1> QED
  BY <1>2, <1>4, <1>5, <1>7, <1>8, <1>9, <1>10, <1>11, <1>12, <1>13, <1>14, <1>15

\* Posts in flight after a step are old ones or true ones.
LEMMA PostsStep ==
    ASSUME TypeOK, Next
    PROVE  \A p \in posts' \ posts : p[2] \in Conns /\ conn'[p[2]] # "idle"
                                     /\ (p[1] = "close" => conn'[p[2]] = "ended")
<1> DEFINE True(p) == p[2] \in Conns /\ conn'[p[2]] # "idle" /\ (p[1] = "close" => conn'[p[2]] = "ended")
<1>1. ASSUME NEW c \in Conns, OpenConnection(c) PROVE \A p \in posts' \ posts : True(p)
  BY <1>1 DEF TypeOK, OpenConnection, Post
<1>2. ASSUME NEW c \in Conns, Authorize(c) PROVE \A p \in posts' \ posts : True(p)
  BY <1>2 DEF TypeOK, Authorize, Post
<1>3. ASSUME NEW C \in SUBSET Conns, EndConnections(C) PROVE \A p \in posts' \ posts : True(p)
  BY <1>3 DEF EndConnections, Post
<1>4. ASSUME NEW c \in Conns, CloseConnection(c) PROVE \A p \in posts' \ posts : True(p)
  BY <1>3, <1>4 DEF CloseConnection
<1>5. ASSUME Answer PROVE \A p \in posts' \ posts : True(p)
  <2>1. Live \cap {rows[r].conn : r \in beat.pending} \in SUBSET Conns
    BY DEF Live
  <2> QED
    BY <1>3, <1>5, <2>1 DEF Answer
<1>6. \/ posts' \subseteq posts \/ Answer
      \/ \E c \in Conns : OpenConnection(c) \/ Authorize(c) \/ CloseConnection(c)
  BY DEF Next, DeviceStep, PostStep, BeatStep, TimeStep, SwitchOff, SwitchOn, LoseApi, RegainApi,
         HandleNew, ReadOpen, FinishClose, FinishAuthorized, SendBeat, LoseBeat, RecordOnline,
         Reconcile, SelectPending, MarkSent, LosePost, Disconnect, Recycle, Restore,
         CloseStaleSessions, GraceEnds, GetsOld, RetryDue, Lapse
<1> QED
  BY <1>1, <1>2, <1>4, <1>5, <1>6

\* A handler that starts has read the post and, if any, a row of its connection.
LEMMA HandlersStep ==
    ASSUME TypeOK, EventsTrue, Next
    PROVE  \A h \in handlers' \ handlers :
              /\ h.conn \in Conns /\ conn[h.conn] # "idle"
              /\ h.kind = "close" => conn[h.conn] = "ended"
              /\ h.open # 0 => h.open \in Row /\ rows[h.open].conn = h.conn
<1>1. ASSUME NEW c \in Conns, NEW k \in {"authorized", "close"}, ReadOpen(k, c),
             NEW h \in handlers' \ handlers
      PROVE  /\ h.conn \in Conns /\ conn[h.conn] # "idle"
             /\ h.kind = "close" => conn[h.conn] = "ended"
             /\ h.open # 0 => h.open \in Row /\ rows[h.open].conn = h.conn
  <2>1. h = [kind |-> k, conn |-> c, open |-> LatestOpen(c)] /\ <<k, c>> \in posts
    BY <1>1 DEF ReadOpen
  <2>2. conn[c] # "idle" /\ (k = "close" => conn[c] = "ended")
    BY <2>1 DEF EventsTrue
  <2> QED
    BY <2>1, <2>2, LatestOpenType
<1>2. \/ handlers' \subseteq handlers
      \/ \E c \in Conns : ReadOpen("authorized", c) \/ ReadOpen("close", c)
  BY DEF Next, DeviceStep, PostStep, BeatStep, TimeStep, OpenConnection, Authorize, CloseConnection,
         SwitchOff, SwitchOn, LoseApi, RegainApi, HandleNew, FinishClose, FinishAuthorized, SendBeat,
         LoseBeat, RecordOnline, Reconcile, SelectPending, MarkSent, Answer, LosePost, Disconnect,
         Recycle, Restore, CloseStaleSessions, GraceEnds, GetsOld, RetryDue, Lapse
<1> QED
  BY <1>1, <1>2

\* A heartbeat that is not yet reconciled keeps what it carries; a new one
\* carries what is true.
LEMMA BeatMoves ==
    ASSUME TypeOK, Next, beat'.at \in {"sent", "reconcile"}
    PROVE  \/ /\ beat.at \in {"sent", "reconcile"}
              /\ beat'.conns = beat.conns /\ beat'.known = beat.known
           \/ /\ beat'.conns = Live /\ beat'.known = Row /\ UNCHANGED <<conn, rows>>
<1> USE DEF BeatType
<1>1. CASE SwitchOff
  BY <1>1 DEF TypeOK, SwitchOff
<1>2. CASE SendBeat
  BY <1>2 DEF SendBeat, NoBeat, device, table
<1>3. CASE LoseBeat \/ Answer
  BY <1>3 DEF LoseBeat, Answer, NoBeat
<1>4. CASE RecordOnline
  <2>1. beat' = NoBeat \/ beat' = [beat EXCEPT !.at = "reconcile"]
    BY <1>4, Zenon DEF RecordOnline
  <2>2. beat.at = "sent" /\ NoBeat.at = "none"
    BY <1>4 DEF RecordOnline, NoBeat
  <2> QED
    BY <2>1, <2>2 DEF TypeOK
<1>5. CASE Reconcile \/ SelectPending \/ MarkSent
  BY <1>5 DEF TypeOK, Reconcile, SelectPending, MarkSent
<1>6. CASE UNCHANGED beat
  BY <1>6
<1>7. \/ UNCHANGED beat \/ SwitchOff \/ SendBeat \/ LoseBeat \/ Answer \/ RecordOnline
      \/ Reconcile \/ SelectPending \/ MarkSent
  BY DEF Next, DeviceStep, PostStep, BeatStep, TimeStep, OpenConnection, Authorize, CloseConnection,
         SwitchOn, LoseApi, RegainApi, HandleNew, ReadOpen, FinishClose, FinishAuthorized, LosePost,
         Disconnect, Recycle, Restore, CloseStaleSessions, GraceEnds, GetsOld, RetryDue, Lapse
<1> QED
  BY <1>1, <1>2, <1>3, <1>4, <1>5, <1>6, <1>7

-----------------------------------------------------------------------------
(* The invariant.                                                          *)

LEMMA EventsStep == ASSUME TypeOK, EventsTrue, Next PROVE EventsTrue'
<1>1. \A p \in posts : p[2] \in Conns
  BY DEF TypeOK
<1>2. \A h \in handlers : h.conn \in Conns
  BY DEF TypeOK
<1>3. \A r \in Row : rows[r].conn \in Conns
  BY RowOf
<1>4. \A p \in posts' : conn'[p[2]] # "idle" /\ (p[1] = "close" => conn'[p[2]] = "ended")
  BY <1>1, PostsStep, ConnStep DEF EventsTrue
<1>5. \A h \in handlers' :
         /\ conn'[h.conn] # "idle" /\ (h.kind = "close" => conn'[h.conn] = "ended")
         /\ h.open # 0 => h.open \in Row' /\ rows'[h.open].conn = h.conn
  <2> SUFFICES ASSUME NEW h \in handlers'
               PROVE  /\ conn'[h.conn] # "idle" /\ (h.kind = "close" => conn'[h.conn] = "ended")
                      /\ h.open # 0 => h.open \in Row' /\ rows'[h.open].conn = h.conn
    OBVIOUS
  <2>1. /\ h.conn \in Conns /\ conn[h.conn] # "idle"
        /\ h.kind = "close" => conn[h.conn] = "ended"
        /\ h.open # 0 => h.open \in Row /\ rows[h.open].conn = h.conn
    BY <1>2, HandlersStep DEF EventsTrue
  <2> QED
    BY <2>1, ConnStep, RowsStep
<1>6. \A r \in Row' : conn'[rows'[r].conn] # "idle"
  <2>1. ASSUME NEW r \in Row PROVE conn'[rows'[r].conn] # "idle"
    BY <1>3, <2>1, RowsStep, ConnStep DEF EventsTrue
  <2>2. ASSUME NEW r \in Row' \ Row PROVE conn'[rows'[r].conn] # "idle"
    BY <2>2, RowsStep, ConnStep
  <2> QED
    BY <2>1, <2>2
<1> QED
  BY <1>4, <1>5, <1>6 DEF EventsTrue

LEMMA BeatTrueStep == ASSUME TypeOK, AuditInv, Next PROVE BeatTrue'
<1> SUFFICES ASSUME beat'.at \in {"sent", "reconcile"}
             PROVE  /\ beat'.known \subseteq Row'
                    /\ \A r \in beat'.known : rows'[r].conn \in Live' => rows'[r].conn \in beat'.conns
                    /\ \A r \in Row' \ beat'.known : rows'[r].age = "grace"
  BY DEF BeatTrue
<1>0. EventsTrue /\ BeatTrue
  BY DEF AuditInv
<1>1. CASE beat'.conns = Live /\ beat'.known = Row /\ UNCHANGED <<conn, rows>>
  <2>1. Row' = Row /\ Live' = Live
    BY <1>1 DEF Row, Live
  <2> QED
    BY <1>1, <2>1
<1>2. CASE beat.at \in {"sent", "reconcile"} /\ beat'.conns = beat.conns /\ beat'.known = beat.known
  <2>1. /\ beat.known \subseteq Row
        /\ \A r \in beat.known : rows[r].conn \in Live => rows[r].conn \in beat.conns
        /\ \A r \in Row \ beat.known : rows[r].age = "grace"
    BY <1>0, <1>2 DEF BeatTrue
  <2>2. beat'.known \subseteq Row'
    BY <1>0, <1>2, <2>1, RowsStep
  <2>3. ASSUME NEW r \in beat'.known, rows'[r].conn \in Live' PROVE rows'[r].conn \in beat'.conns
    <3>1. r \in Row /\ rows'[r].conn = rows[r].conn
      BY <1>0, <1>2, <2>1, <2>3, RowsStep
    <3>2. rows[r].conn \in Conns /\ conn[rows[r].conn] # "idle"
      BY <1>0, <3>1, RowOf DEF EventsTrue
    <3>3. rows[r].conn \in Live
      BY <2>3, <3>1, <3>2, ConnStep DEF Live
    <3> QED
      BY <1>2, <2>1, <2>3, <3>1, <3>3
  <2>4. ASSUME NEW r \in Row' \ beat'.known PROVE rows'[r].age = "grace"
    BY <1>0, <1>2, <2>1, <2>4, RowsStep
  <2> QED
    BY <2>2, <2>3, <2>4
<1> QED
  BY <1>1, <1>2, BeatMoves

\* The invariant that the theorem below rests on: what posts, handlers and rows
\* say of a connection is true of the device (AuditController::connection), and,
\* given that a heartbeat is handled within the grace, one not yet reconciled
\* lists every live connection whose row it could close (SyncController::heartbeat).
LEMMA AuditInvariant == Spec => [](TypeOK /\ AuditInv)
<1>1. Init => TypeOK /\ AuditInv
  BY InitType
<1>2. TypeOK /\ AuditInv /\ [Next]_vars => (TypeOK /\ AuditInv)'
  <2> SUFFICES ASSUME TypeOK, AuditInv, [Next]_vars PROVE TypeOK' /\ AuditInv'
    OBVIOUS
  <2>1. TypeOK'
    BY TypeStep
  <2>2. CASE Next
    BY <2>1, <2>2, EventsStep, BeatTrueStep DEF AuditInv
  <2>3. CASE UNCHANGED vars
    BY <2>1, <2>3 DEF AuditInv, EventsTrue, BeatTrue, Row, Live, vars, device, table
  <2> QED
    BY <2>1, <2>2, <2>3
<1> QED
  BY <1>1, <1>2, PTL DEF Spec

\* A row whose connection lives is closed only by the sweep, and only when the
\* device is silent: a step of the reconciliation closes no such row because of
\* BeatTrue, a 'close' post because of EventsTrue
\* (AuditConnection::reconcileFor, closeStaleSessions).
THEOREM LiveRowsStay == Spec => LiveRowStays
<1> DEFINE Stays == \A r \in Row : Open(r) /\ rows[r].conn \in Live /\ rows'[r].closed => ~Heartbeating
<1>1. TypeOK /\ AuditInv /\ [Next]_vars => Stays
  <2> SUFFICES ASSUME TypeOK, AuditInv, [Next]_vars,
                      NEW r \in Row, Open(r), rows[r].conn \in Live, rows'[r].closed
               PROVE  ~Heartbeating
    OBVIOUS
  <2>0. EventsTrue /\ BeatTrue
    BY DEF AuditInv
  <2>1. rows[r] \in RowType /\ ~rows[r].closed
    BY DEF TypeOK, Row, Open
  <2>2. ASSUME rows'[r] = rows[r] PROVE FALSE
    BY <2>1, <2>2
  <2>3. CASE Reconcile
    <3>1. rows'[r] = rows[r] \/ Reconcilable(r, beat.conns)
      BY <2>3 DEF Reconcile
    <3>2. Reconcilable(r, beat.conns)
      BY <2>2, <3>1
    <3> QED
      BY <2>0, <2>3, <3>2 DEF Reconcile, Reconcilable, BeatTrue
  <2>4. ASSUME NEW h \in handlers, FinishClose(h) PROVE FALSE
    <3>1. rows'[r] = rows[r] \/ r = h.open
      BY <2>4 DEF FinishClose
    <3>2. r = h.open /\ h.open # 0 /\ h.kind = "close"
      <4>1. r \in Nat \ {0}
        BY DEF TypeOK, Row
      <4> QED
        BY <2>2, <2>4, <3>1, <4>1 DEF FinishClose
    <3>3. conn[rows[r].conn] = "ended"
      BY <2>0, <2>4, <3>2 DEF EventsTrue
    <3> QED
      BY <3>3 DEF Live
  <2>5. CASE CloseStaleSessions
    <3>1. rows'[r] = rows[r] \/ ~Heartbeating
      BY <2>5, Zenon DEF CloseStaleSessions
    <3> QED
      BY <2>2, <3>1
  <2>6. CASE MarkSent
    <3>1. rows'[r].closed = rows[r].closed
      BY <2>1, <2>6 DEF MarkSent, RowType
    <3> QED
      BY <2>1, <3>1
  <2>7. ASSUME NEW s \in Row, Disconnect(s) \/ GraceEnds(s) \/ GetsOld(s) \/ RetryDue(s) PROVE FALSE
    <3>0. rows[s] \in RowType
      BY RowOf
    <3>a. ASSUME Disconnect(s) PROVE rows'[r].closed = rows[r].closed
      <4>1. rows'[r] = rows[r] \/ rows'[r] = [rows[r] EXCEPT !.asked = TRUE, !.sent = "no"]
        BY <3>a DEF Disconnect, Row
      <4> QED
        BY <2>1, <4>1 DEF RowType
    <3>b. ASSUME GraceEnds(s) PROVE rows'[r].closed = rows[r].closed
      BY <2>1, <3>0, <3>b DEF GraceEnds, RowType
    <3>c. ASSUME GetsOld(s) PROVE rows'[r].closed = rows[r].closed
      BY <2>1, <3>0, <3>c DEF GetsOld, RowType
    <3>d. ASSUME RetryDue(s) PROVE rows'[r].closed = rows[r].closed
      BY <2>1, <3>0, <3>d DEF RetryDue, RowType
    <3>1. rows'[r].closed = rows[r].closed
      BY <2>7, <3>a, <3>b, <3>c, <3>d
    <3> QED
      BY <2>1, <3>1
  <2>8. ASSUME NEW c \in Conns, CreateRow(c) PROVE FALSE
    BY <2>2, <2>8, Insert
  <2>9. ASSUME NEW h \in handlers, FinishAuthorized(h) PROVE FALSE
    <3>1. h.conn \in Conns /\ (UNCHANGED rows \/ CreateRow(h.conn))
      BY <2>9 DEF FinishAuthorized, TypeOK
    <3> QED
      BY <2>2, <2>8, <3>1
  <2>10. ASSUME NEW c \in Conns, HandleNew(c) PROVE FALSE
    BY <2>8, <2>10 DEF HandleNew
  <2>11. \/ UNCHANGED rows \/ Reconcile \/ MarkSent \/ CloseStaleSessions
         \/ \E c \in Conns : HandleNew(c)
         \/ \E h \in handlers : FinishClose(h) \/ FinishAuthorized(h)
         \/ \E s \in Row : Disconnect(s) \/ GraceEnds(s) \/ GetsOld(s) \/ RetryDue(s)
    BY DEF Next, DeviceStep, PostStep, BeatStep, TimeStep, OpenConnection, Authorize,
           CloseConnection, SwitchOff, SwitchOn, LoseApi, RegainApi, ReadOpen, SendBeat, LoseBeat,
           RecordOnline, SelectPending, Answer, LosePost, Recycle, Restore, Lapse, vars, table
  <2> QED
    BY <2>2, <2>3, <2>4, <2>5, <2>6, <2>7, <2>9, <2>10, <2>11
<1>2. Spec => [](TypeOK /\ AuditInv)
  BY AuditInvariant
<1> QED
  BY <1>1, <1>2, PTL DEF Spec, LiveRowStays

=============================================================================
