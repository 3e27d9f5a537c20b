--------------------------- MODULE AuditSessions ----------------------------
(***************************************************************************)
(* The console's list of live sessions: rows of audit_connections, opened  *)
(* and closed by posts of the device (AuditController::connection),        *)
(* reconciled with the connections each heartbeat reports, closed by a     *)
(* sweep when the device is silent, and disconnected on an operator's      *)
(* request that travels in the answer to a heartbeat (AuditConnection,     *)
(* SyncController::heartbeat, ActiveSessions, CloseStaleSessions).         *)
(*                                                                         *)
(* One device.  A PHP request runs one database statement per action, so   *)
(* requests interleave between statements.  Posts are sent side by side:   *)
(* they arrive in any order or not at all.  A connection id names one      *)
(* connection (RustDesk counts them up; external).                         *)
(*                                                                         *)
(* Time is the order of events plus these ages: a row is within the grace  *)
(* of 90 s, past it, or past 5 minutes; a disconnect that was sent is due  *)
(* again after 60 s; the device has a heartbeat within 5 minutes or not.   *)
(***************************************************************************)
EXTENDS Naturals, Sequences, FiniteSets

CONSTANTS
    Conns,          \* connection ids
    MaxRows,        \* bound: rows
    MaxEvents,      \* bound: disconnect requests and outages together
    MaxOutages      \* bound: times the device loses the API, is switched off or restored

ASSUME AuditAssumption ==
    IsFiniteSet(Conns) /\ MaxRows \in Nat /\ MaxEvents \in Nat /\ MaxOutages \in Nat

VARIABLES
    \* the device (external)
    conn,           \* "idle", "opened", "authorized", "ended" for each id
    up,             \* it runs
    reach,          \* it reaches the API
    \* requests on their way or being handled
    posts,          \* posts in flight
    handlers,       \* 'authorized' and 'close' posts that have read their row
    beat,           \* the heartbeat of the device
    \* the database
    rows,           \* audit_connections
    seen,           \* last_online_at is within STALE_AFTER_MINUTES
    trashed,        \* the device is recycled (soft-deleted)
    \* bounds
    requests, outages

device == <<conn, up, reach>>
table == <<rows, seen, trashed>>
bounds == <<requests, outages>>
vars == <<device, posts, handlers, beat, table, bounds>>

Live == {c \in Conns : conn[c] \in {"opened", "authorized"}}
Row == DOMAIN rows
Open(r) == ~rows[r].closed

\* Another event is within the bounds.
More == requests + outages < MaxEvents

NoBeat == [at |-> "none", conns |-> {}, known |-> {}, pending |-> {}, heard |-> FALSE]
NewRow(c) == [conn |-> c, closed |-> FALSE, age |-> "grace", asked |-> FALSE, sent |-> "no"]

Init ==
    /\ conn = [c \in Conns |-> "idle"]
    /\ up = TRUE /\ reach = TRUE /\ seen = TRUE /\ trashed = FALSE
    /\ posts = {} /\ handlers = {} /\ rows = <<>>
    /\ beat = NoBeat
    /\ requests = 0 /\ outages = 0

-----------------------------------------------------------------------------
(* The device.                                                             *)

\* A post of a device that cannot reach the API is lost.
Post(P) == posts' = IF reach THEN posts \cup P ELSE posts

OpenConnection(c) ==
    /\ up /\ conn[c] = "idle"
    /\ conn' = [conn EXCEPT ![c] = "opened"]
    /\ Post({<<"new", c>>})
    /\ UNCHANGED <<up, reach, handlers, beat, table, bounds>>

Authorize(c) ==
    /\ conn[c] = "opened"
    /\ conn' = [conn EXCEPT ![c] = "authorized"]
    /\ Post({<<"authorized", c>>})
    /\ UNCHANGED <<up, reach, handlers, beat, table, bounds>>

\* A connection ends and the device says so.
EndConnections(C) ==
    /\ conn' = [c \in Conns |-> IF c \in C THEN "ended" ELSE conn[c]]
    /\ Post({<<"close", c>> : c \in C})

CloseConnection(c) ==
    /\ c \in Live
    /\ EndConnections({c})
    /\ UNCHANGED <<up, reach, handlers, beat, table, bounds>>

\* Reboot, power loss or a stopped service: nothing is posted, and the
\* heartbeat that is under way has nobody to answer to.
SwitchOff ==
    /\ up /\ More /\ outages < MaxOutages
    /\ up' = FALSE
    /\ conn' = [c \in Conns |-> IF c \in Live THEN "ended" ELSE conn[c]]
    /\ beat' = [beat EXCEPT !.heard = FALSE]
    /\ outages' = outages + 1
    /\ UNCHANGED <<reach, posts, handlers, table, requests>>

SwitchOn == ~up /\ up' = TRUE
            /\ UNCHANGED <<conn, reach, posts, handlers, beat, table, bounds>>

LoseApi ==
    /\ reach /\ More /\ outages < MaxOutages
    /\ reach' = FALSE
    /\ outages' = outages + 1
    /\ UNCHANGED <<conn, up, posts, handlers, beat, table, requests>>

RegainApi == ~reach /\ reach' = TRUE
             /\ UNCHANGED <<conn, up, posts, handlers, beat, table, bounds>>

LosePost == \E p \in posts :
    posts' = posts \ {p} /\ UNCHANGED <<device, handlers, beat, table, bounds>>

-----------------------------------------------------------------------------
(* AuditController::connection.                                            *)

\* Two rows at most come of a connection: its 'new' and its 'authorized'.
CreateRow(c) == Len(rows) < MaxRows /\ rows' = Append(rows, NewRow(c))

HandleNew(c) ==
    /\ <<"new", c>> \in posts
    /\ posts' = posts \ {<<"new", c>>}
    /\ CreateRow(c)
    /\ UNCHANGED <<device, handlers, beat, seen, trashed, bounds>>

\* The latest open row of the connection, 0 for null.
LatestOpen(c) ==
    LET open == {r \in Row : rows[r].conn = c /\ Open(r)}
        latest == {r \in open : \A s \in open : s <= r}
    IN  IF latest = {} THEN 0 ELSE CHOOSE r \in latest : TRUE

ReadOpen(kind, c) ==
    /\ <<kind, c>> \in posts
    /\ posts' = posts \ {<<kind, c>>}
    /\ handlers' = handlers \cup {[kind |-> kind, conn |-> c, open |-> LatestOpen(c)]}
    /\ UNCHANGED <<device, beat, table, bounds>>

FinishClose(h) ==
    /\ h \in handlers /\ h.kind = "close"
    /\ handlers' = handlers \ {h}
    /\ rows' = [r \in Row |-> IF r = h.open THEN [rows[r] EXCEPT !.closed = TRUE] ELSE rows[r]]
    /\ UNCHANGED <<device, posts, beat, seen, trashed, bounds>>

\* The row that was read is updated, closed in the meantime or not, in
\* columns that are not modelled; without one a row is created.
FinishAuthorized(h) ==
    /\ h \in handlers /\ h.kind = "authorized"
    /\ handlers' = handlers \ {h}
    /\ IF h.open # 0 THEN UNCHANGED rows ELSE CreateRow(h.conn)
    /\ UNCHANGED <<device, posts, beat, seen, trashed, bounds>>

-----------------------------------------------------------------------------
(* SyncController::heartbeat.                                              *)

SendBeat ==
    /\ up /\ reach /\ beat.at = "none"
    /\ beat' = [NoBeat EXCEPT !.at = "sent", !.conns = Live, !.known = Row, !.heard = TRUE]
    /\ UNCHANGED <<device, posts, handlers, table, bounds>>

\* The request, or in the end its answer, is lost.
LoseBeat ==
    /\ beat.at \in {"sent", "answer"}
    /\ beat' = NoBeat
    /\ UNCHANGED <<device, posts, handlers, table, bounds>>

\* A recycled device is answered with nothing and not recorded.
RecordOnline ==
    /\ beat.at = "sent"
    /\ seen' = (seen \/ ~trashed)
    /\ beat' = IF trashed THEN NoBeat ELSE [beat EXCEPT !.at = "reconcile"]
    /\ UNCHANGED <<device, posts, handlers, rows, trashed, bounds>>

\* mutant: no grace
ReconcilableAtOnce(r, conns) == Open(r) /\ rows[r].conn \notin conns
\* mutant: no list is no information
ReconcilableIfListed(r, conns) ==
    Open(r) /\ rows[r].age # "grace" /\ conns # {} /\ rows[r].conn \notin conns

\* AuditConnection::reconcileFor: past the grace and not reported; no list is
\* an empty list.
Reconcilable(r, conns) ==
    Open(r) /\ rows[r].age # "grace" /\ rows[r].conn \notin conns

Reconcile ==
    /\ beat.at = "reconcile"
    /\ rows' = [r \in Row |-> IF Reconcilable(r, beat.conns)
                              THEN [rows[r] EXCEPT !.closed = TRUE] ELSE rows[r]]
    /\ beat' = [beat EXCEPT !.at = "select", !.conns = {}, !.known = {}]
    /\ UNCHANGED <<device, posts, handlers, seen, trashed, bounds>>

\* mutant: no second attempt
PendingOnce(r) == Open(r) /\ rows[r].asked /\ rows[r].sent = "no"

\* AuditConnection::pendingDisconnectsFor: never sent, or sent too long ago.
Pending(r) == Open(r) /\ rows[r].asked /\ rows[r].sent \in {"no", "due"}

SelectPending ==
    /\ beat.at = "select"
    /\ beat' = [beat EXCEPT !.at = "mark", !.pending = {r \in Row : Pending(r)}]
    /\ UNCHANGED <<device, posts, handlers, table, bounds>>

MarkSent ==
    /\ beat.at = "mark"
    /\ rows' = [r \in Row |-> IF r \in beat.pending
                              THEN [rows[r] EXCEPT !.sent = "yes"] ELSE rows[r]]
    /\ beat' = [beat EXCEPT !.at = "answer"]
    /\ UNCHANGED <<device, posts, handlers, seen, trashed, bounds>>

\* The device closes each connection of the answer's list that it still has.
Answer ==
    /\ beat.at = "answer" /\ beat.heard /\ reach
    /\ EndConnections(Live \cap {rows[r].conn : r \in beat.pending})
    /\ beat' = NoBeat
    /\ UNCHANGED <<up, reach, handlers, table, bounds>>

-----------------------------------------------------------------------------
(* The console and the scheduler.                                          *)

\* ActiveSessions::disconnect, for an operator who may.
Disconnect(r) ==
    /\ r \in Row /\ Open(r) /\ More
    /\ rows' = [rows EXCEPT ![r].asked = TRUE, ![r].sent = "no"]
    /\ requests' = requests + 1
    /\ UNCHANGED <<device, posts, handlers, beat, seen, trashed, outages>>

Recycle ==
    /\ ~trashed /\ trashed' = TRUE
    /\ UNCHANGED <<device, posts, handlers, beat, rows, seen, bounds>>

Restore ==
    /\ trashed /\ trashed' = FALSE
    /\ More /\ outages < MaxOutages /\ outages' = outages + 1
    /\ UNCHANGED <<device, posts, handlers, beat, rows, seen, requests>>

\* AuditConnection::closeStaleSessions: the old rows of every device that is
\* not heartbeating; a recycled one never is.  The two statements are one
\* action: a device that returns between them is one that returns after.
Heartbeating == seen /\ ~trashed

CloseStaleSessions ==
    /\ rows' = [r \in Row |-> IF ~Heartbeating /\ Open(r) /\ rows[r].age = "old"
                              THEN [rows[r] EXCEPT !.closed = TRUE] ELSE rows[r]]
    /\ UNCHANGED <<device, posts, handlers, beat, seen, trashed, bounds>>

-----------------------------------------------------------------------------
(* Time.                                                                   *)

\* The grace outlasts a heartbeat's way to its handler: a row created after a
\* heartbeat was sent is within the grace until that one is reconciled.  The
\* ages of closed rows make no difference.
GraceEnds(r) ==
    /\ r \in Row /\ Open(r) /\ rows[r].age = "grace"
    /\ beat.at \in {"sent", "reconcile"} => r \in beat.known
    /\ rows' = [rows EXCEPT ![r].age = "past"]
    /\ UNCHANGED <<device, posts, handlers, beat, seen, trashed, bounds>>

GetsOld(r) ==
    /\ r \in Row /\ Open(r) /\ rows[r].age = "past"
    /\ rows' = [rows EXCEPT ![r].age = "old"]
    /\ UNCHANGED <<device, posts, handlers, beat, seen, trashed, bounds>>

RetryDue(r) ==
    /\ r \in Row /\ Open(r) /\ rows[r].sent = "yes"
    /\ rows' = [rows EXCEPT ![r].sent = "due"]
    /\ UNCHANGED <<device, posts, handlers, beat, seen, trashed, bounds>>

\* Five minutes without a heartbeat that was recorded.
Lapse ==
    /\ seen /\ (~up \/ ~reach \/ trashed) /\ beat.at = "none"
    /\ seen' = FALSE
    /\ UNCHANGED <<device, posts, handlers, beat, rows, trashed, bounds>>

-----------------------------------------------------------------------------
DeviceStep ==
    \/ \E c \in Conns : OpenConnection(c) \/ Authorize(c) \/ CloseConnection(c)
    \/ SwitchOff \/ SwitchOn \/ LoseApi \/ RegainApi
PostStep ==
    \/ \E c \in Conns : HandleNew(c) \/ ReadOpen("authorized", c) \/ ReadOpen("close", c)
    \/ \E h \in handlers : FinishClose(h) \/ FinishAuthorized(h)
BeatStep == SendBeat \/ RecordOnline \/ Reconcile \/ SelectPending \/ MarkSent \/ Answer
TimeStep == Lapse \/ \E r \in Row : GraceEnds(r) \/ GetsOld(r) \/ RetryDue(r)

Next ==
    \/ DeviceStep \/ PostStep \/ BeatStep \/ TimeStep
    \/ LosePost \/ LoseBeat
    \/ (\E r \in Row : Disconnect(r)) \/ Recycle \/ Restore \/ CloseStaleSessions

Spec == Init /\ [][Next]_vars

\* Time passes; the scheduler runs the sweep; a request that arrived is
\* handled; a running device that reaches the API goes on sending heartbeats;
\* a heartbeat is answered or lost, and not every one, nor every answer that
\* carries a list, is lost.
Fairness ==
    /\ \A n \in 1 .. MaxRows :
          WF_vars(GraceEnds(n)) /\ WF_vars(GetsOld(n)) /\ WF_vars(RetryDue(n))
    /\ WF_vars(Lapse) /\ WF_vars(CloseStaleSessions)
    /\ WF_vars(PostStep) /\ WF_vars(BeatStep \/ LoseBeat)
    /\ SF_vars(RecordOnline) /\ SF_vars(beat.pending # {} /\ Answer)

LiveSpec == Spec /\ Fairness

-----------------------------------------------------------------------------
(* Properties.                                                             *)

RowType == [conn : Conns, closed : BOOLEAN, age : {"grace", "past", "old"},
            asked : BOOLEAN, sent : {"no", "yes", "due"}]
BeatType == [at : {"none", "sent", "reconcile", "select", "mark", "answer"},
             conns : SUBSET Conns, known : SUBSET Nat, pending : SUBSET Nat, heard : BOOLEAN]

\* Every variable keeps its type.
TypeOK ==
    /\ conn \in [Conns -> {"idle", "opened", "authorized", "ended"}]
    /\ up \in BOOLEAN /\ reach \in BOOLEAN /\ seen \in BOOLEAN /\ trashed \in BOOLEAN
    /\ posts \subseteq {"new", "authorized", "close"} \X Conns
    /\ handlers \subseteq [kind : {"authorized", "close"}, conn : Conns, open : Nat]
    /\ beat \in BeatType /\ rows \in Seq(RowType)
    /\ requests \in Nat /\ outages \in Nat

\* What the server holds of a connection is true of the device: posts, handlers
\* and rows are of connections that began, a close is of one that ended, and a
\* handler's row is a row of its connection.
EventsTrue ==
    /\ \A p \in posts : conn[p[2]] # "idle" /\ (p[1] = "close" => conn[p[2]] = "ended")
    /\ \A h \in handlers :
          /\ conn[h.conn] # "idle" /\ (h.kind = "close" => conn[h.conn] = "ended")
          /\ h.open # 0 => h.open \in Row /\ rows[h.open].conn = h.conn
    /\ \A r \in Row : conn[rows[r].conn] # "idle"

\* A heartbeat that is not yet reconciled lists the connection of every row it
\* could close that still lives, however old its list is: the rows it does not
\* know are within their grace.
BeatTrue ==
    beat.at \in {"sent", "reconcile"} =>
        /\ beat.known \subseteq Row
        /\ \A r \in beat.known : rows[r].conn \in Live => rows[r].conn \in beat.conns
        /\ \A r \in Row \ beat.known : rows[r].age = "grace"

\* Both of the above: what the proof of LiveRowStays rests on.
AuditInv == EventsTrue /\ BeatTrue

\* A row is closed while its connection lives only by the sweep, on a device
\* that is silent: neither a heartbeat sent before the
\* connection began nor a post of another connection closes it
\* (reconcileFor, RECONCILE_GRACE_SECONDS).
LiveRowStays ==
    [][\A r \in Row : Open(r) /\ rows[r].conn \in Live /\ rows'[r].closed => ~Heartbeating]_vars

\* However posts are reordered or lost, and however a connection ended, the
\* console stops showing it and never shows it again: the row that a late
\* 'authorized' opens after the 'close' is closed too.
GhostsClose ==
    \A c \in Conns :
        [](conn[c] = "ended" => <>[](\A r \in Row : rows[r].conn = c => rows[r].closed))

\* A session an operator asked to disconnect does not stay on the list, lost
\* answers, lost posts and silent devices included
\* (pendingDisconnectsFor, DISCONNECT_RETRY_SECONDS).
DisconnectHappens ==
    \A n \in 1 .. MaxRows :
        (n \in Row /\ Open(n) /\ rows[n].asked) ~> (n \in Row /\ ~Open(n))

\* "A live session must not be left un-cancellable": as long as the device's
\* heartbeats are recorded in time, the connection itself ends, however many
\* answers that carry the request are lost and whenever operators ask again.
\* (A device cut off for 5 minutes keeps it: the sweep closes the row, and with
\* it the request; pendingDisconnectsFor, closeStaleSessions.)
DisconnectReaches ==
    []Heartbeating =>
        \A n \in 1 .. MaxRows :
            (n \in Row /\ Open(n) /\ rows[n].asked)
                ~> (n \in Row /\ conn[rows[n].conn] = "ended")

=============================================================================
