# CortenDesk: a TLA+ verification project

CortenDesk is a self-hosted console for RustDesk devices (Laravel, `src/app/`)
with a remote-desktop client that runs in the browser (TypeScript,
`src/webclient/src/`). This directory models the parts of both in which order,
concurrency and failure decide correctness, model-checks them with TLC, and
proves the central safety properties with TLAPS.

## 1. Inventory

| Component | State | Operations | Hard part | Modelled |
|---|---|---|---|---|
| Web session: `worker/session.worker.ts`, `core/session.ts`, `core/{handshake,crypto,signaling,auth}.ts` | worker stage, two sockets, media pipelines, watchdog; session state, peer key, cipher counters | `connect()` in stretches between awaits, socket callbacks, frames, watchdog, disconnect, controls | every await can be overtaken by a teardown; the trust chain; implicit cipher sequence numbers | `WebSession` |
| Voice call: `ui/app.ts`, `ui/voice-call-attempt.ts`, `media/voice-capture.ts`, `core/session.ts` | button state, attempt number, microphone; pending timestamp, accepted flag | toggle, microphone granted, events of the worker, commands of the shell, answers of the device | crossing requests, answers and hang-ups; permission prompt answered late | `VoiceCall` |
| File panel: `ui/file-panel.ts`, `core/file-transfer.ts` | job, write chain, open stream, upload loop, conflict dialog | start, digest, confirm, block, done, error, cancel, teardown, crash | promises that outlive a cancel; commits that fail; errors the device never hears of; waiters that somebody must release | `FileTransfer` |
| Client shell: `ui/app.ts`, `core/session-controls.ts` | screen state, worker, panels, restart flow with three timers | connect, disconnect, restart, reconnect, expiry, panels | timers racing session events; what survives a reconnect | `ClientShell` |
| Presence notifications: `CheckDeviceNotifications`, `DevicePresenceNotificationState`, `AppriseNotifications`, `SyncController::heartbeat` | claim row, legacy cache marker and lock, cooldown keys | minute sweep, heartbeat, claim, deliver, complete, release, recover | several PHP processes, death between two statements, claims and locks that time out | `PresenceNotifications` |
| Audit of connections: `AuditController`, `AuditConnection`, `CloseStaleSessions` | session rows | posts of the device, reconciliation, disconnect request, stale sweep | posts out of order or lost, heartbeats older than the rows they are compared with, silent and recycled devices | `AuditSessions` |
| Generated wire codec: `gen/message.ts`, `gen/rendezvous.ts` | none; 134 message types | `fromPartial`, `encode`, `decode` | peers of other versions, unions, packed lists, 64-bit integers, stop tags | `WireCodec` with `FieldKinds`, `MessageSchema`, `RendezvousSchema` |
| Strategy delivery: `Strategy::deliveryFor`, `assignTo`, `recompute` | version token, sent and acknowledged maps per device | heartbeat, edit, assign | lost responses; keys to reset on a device that never acknowledged | `StrategyDelivery` (delivery; resolution is an input) |
| Sign-in and one-time secrets: `AuthController`, `InvitationController`, `PasswordReset`, `ClientOidcController` | codes, links, pending requests | issue, check, burn | check-then-write | no |
| Address books | entries, tags | add, tag, legacy replace | read-modify-write | no |
| Display switching: `core/session.ts` 506-534, 635-656 | `pendingDisplay` | switch, confirmation | stale and refused switches | no |
| Groups, roles, admin API, Livewire pages, import, mail, downloads, diagnostics, media pipelines, input | - | - | CRUD, rendering, I/O, data path | no |

The browser side is one thread per page and one per worker, joined by
`postMessage`; concurrency comes from awaits, callbacks and timers. The shell
owns a session worker, and file, terminal and camera panels own workers of their
own that run the same `WorkerHost`. The console side is PHP processes that share
a database and a cache; a step is one statement. The two meet only through the
RustDesk servers and devices, which are outside the repository and are modelled
from how the code uses them.

`PROJECT.json` lists what is hard to test in this code, each at its line
("hazards"), with the properties that watch it.

## 2. Modules

**WebSession.** One connection attempt of a `WorkerHost` and its `Session`.
`stage` is how far `connect()` has come; one action stands for each stretch
between two awaits (`Connect`, `ReadyDone`, `ProbeDone`, `IdSocketOpened`, with
`ConnectThrows` for a rejection). `ws1`, `ws2`, `relays`, `opening` are the
sockets: `relays` also holds sockets the worker no longer owns. `Teardown`,
`SetState`, `Fail`, `WorkerError` and `SealSend` are the helpers of the code.
Keys and signatures are abstract: a signed statement records its signer, the id
it claims and the key it vouches for; the verification functions compare them as
`handshake.ts` does. A device other than the requested one may claim any id; the
requested device is honest about its own. `peerSeq`, `recvSeq`, `sendSeq` are
the implicit frame numbers. `orderly` chooses between an id server that answers
once and a device that asks for the login once, and an environment that does not keep to that.

**VoiceCall.** Shell, worker and device with four queues between them.
`attempt` is the ownership token of `VoiceCallAttemptOwner`; a call is named by its
number, which stands for the request timestamp. `agreed` records what the person
at the device accepted.

**FileTransfer.** One job. `chain` is the promise chain of `job.writeChain` and
`phase` the await it is in: closing the file before (`FileClosed`), opening one
(`Opened`), writing (`Written`). `closeJobFile` is two operators: with commit it is
the await "closing", whose rejection the code swallows (`FileClosed(FALSE)`, recorded
in `lost`); without, `AbortJobFile`. The upload loop has a program counter with an
await per position. `disk`, `remote`, `final`, `keep` say what is at the destination.
The host (external) serves, receives, refuses, fails and disconnects. An error
reaches the panel in two ways: from a host that has given the job up (`HostFails`),
and from our own worker, which cannot decompress a block while the host, not told,
goes on (`BlockUnreadable`, recorded in `damaged`).

**ClientShell.** The shell's `setState`, `onEvent`, `startSession` and the
restart flow. Time is `clock`, counted from the restart request and advanced only
up to the next due timer, so a timer that is due fires before time goes on;
timers due at the same moment fire in any order. History variables record what
the messages on the screen claimed.

**PresenceNotifications.** Processes that each run a sweep or a heartbeat,
one database or cache call per step. An outage marker (a delivered row, or the
legacy key) has a number, so that "announced once" can be said of it.
`ClaimAges` and `LockExpires` are the 300-second limits. A process still at work
when its limit passes counts as a fault, and so does the death of a process, so
`MaxFaults` bounds both. Assumption: a live process that has checked its
ownership of the legacy lock gets to the release before the lock lapses.

**StrategyDelivery.** The delivery half of a heartbeat for one device. `version`,
`sent` and `acked` are the columns `strategy_version`, `strategy_options` and
`strategy_acked_options`; `copy[b]` is the row as the process of request `b`
loaded it. `Silent`, `Acks`, `Bumps`, `NewToken`, `Stored`, `MayHold`, `Wire` and
`Answer` are the stretches of `deliveryFor`; `DeliveryFor` puts them together. The device
(external) sends one heartbeat at a time, applies an answer and latches its
token; it may give up on a request that a process still handles. `behind` and
`overtaken` are history: a request is overtaken when a later one is loaded before
it is handled. A token is its rank among the tokens issued.

**Connection** is the abstract specification of `WebSession`: a connection is
idle, pairing, live or over; it meets at most one partner, the requested device;
sealed frames leave only while it lasts and only to that partner; over is final.
`WebSession!Abstract` instantiates it. The mapping takes `life` from the
torn-down flag, the session's state and the stage of `connect()`, `partner` from
the cipher (nobody once it is over) and `sealed` from the frames handed to the
relay. `ImplementsConnection` is the abstract `Spec` under that mapping.

**AuditSessions.** The rows of `audit_connections` of one device. A request is
cut at its database statements: `AuditController::connection` reads the open row
(`ReadOpen`) and finishes later (`FinishClose`, `FinishAuthorized`), a heartbeat
is recorded, reconciled, reads the pending disconnects, marks them and is
answered. `rows[r].age` is within the grace of 90 s, past it, or past the
5 minutes of the sweep; `sent` is never, sent, or due again after 60 s; `seen`
says that a heartbeat was recorded within 5 minutes. The device (external)
opens, authorizes and ends connections, is switched off, loses the API; its posts
travel side by side and may be lost. Statements that no other request can tell
apart are one action: the select and update of `disconnect`, the two statements
of `closeStaleSessions`, the load and save of the device row. A device
that was deleted for good is answered like a recycled one until it registers
again, which is `Restore`. Assumptions: a
connection id is not used again; a heartbeat reaches its reconciliation within
the 90 s of the grace (guard of `GraceEnds`). The code does not enforce the second;
`LiveRowStays` needs it, and says nothing of a heartbeat that takes longer.

**WireCodec.** ts-proto writes the same code for every message type, so a type
is data: its table of fields, in `MessageSchema` (107 types of `message.ts`) and
`RendezvousSchema` (27 of `rendezvous.ts`), built from the kinds of field that
the generated code tells apart (`FieldKinds`). `FromPartial`, `Encoded`/`Throws`
and `Decode` interpret a table the way the generated functions do: fields in
order of their number with a union at its first member, fields at their default
skipped, packed lists written even when empty, bigints checked against 64 bits;
a tag matched as a whole, unknown ones skipped, an end-group or zero tag ending
the call, a union replaced, a nested message replaced and not merged. A scalar is
its default, another value, or too big; bytes are not modelled: the wire is a
sequence of records with a number, a wire type and a body. An encoder of a peer
writes defaults and does not pack. A stop tag (end-group or zero) may stand anywhere,
also in a nested body: the nested call then ends there, and since it shares the reader
with its caller, the caller's loop goes on in the rest of the body. Left out is a rest
that would be read there as another kind of field, text as a message or a message as
text, because what comes of that depends on single bytes. The reader and writer are a
library, external; frames arrive whole (WebSocket), so the reader's own errors are not
modelled.

`MC*` modules only give constants values. `*Proofs` modules hold the theorems.

## 3. Runs

| Run | Checks | Bounds | Distinct states |
|---|---|---|---|
| `session` | credential only to the requested device; a stopped worker has told the UI; watchdog exactly while pairing; everything released; cipher in step; nothing after the end; an attempt settles; implements `Connection` | 2 devices, 2 relay responses, 2 hashes, 3 frames, 1 control | 22,866 |
| `voice` | audio only with consent; microphone only in a call; shell and worker agree when idle | 3 calls, queues of 3 | 253,970 |
| `files` | done means complete; no partial file; blocks only of confirmed files; a job that nothing stops ends or asks; the loop of a stopped upload ends | 2 files of 2 blocks | 906,880 |
| `shell` | screen matches session; a pending retry stands alone; restored means stable; a flow ends | 2 peers, 2 restarts, deadline 6 ticks, stability 2 ticks, delays 1, 2 | 13,059 |
| `presence` | a recovery at most once; alerts under a claim; only the owner settles a claim; an outage is reported; an outage closes | 2 processes, 1 outage on top of any initial state, 1 fault | 525,921 |
| `strategy` | no pushed key forgotten; an echo is evidence of what the device holds; a policy left alone reaches the device | 2 keys, 1 value, 2 requests at once, 2 edits or device changes | 179,775 |
| `codec` | a message survives encode and decode, a bigint too big is refused; a newer peer is understood; the last value wins; a stop tag ends the message it stands in, and only the rest of a nested body is read one level up | all 134 types; one field set with each value, two fields set, one field of a nested message set, two messages in a row; one fault | 312,982 |
| `audit` | no live row closed; no ended session shown for ever; a disconnect takes effect on the list, and on a device that is heard | 1 connection, 2 rows, 2 disconnects, or 1 and 1 outage or restore | 204,409 |
| `cancel` | violation: a cancelled download clobbers a file | 1 file of 2 blocks | |
| `verdict` | violation: "did not return" said of a device that streams | as `shell` | |
| `fresh` | violation: flow or panel of the previous peer in a fresh connection | as `shell` | |
| `stranded` | violation: a key stays on the device for ever | as `strategy` | |

Why the bounds are enough. *session*: two relay responses give a socket in use
and an orphan, two hashes a second login, three frames one lost between two
others; the proofs cover all values. *voice*: an old and a new call suffice for
a stale answer, the third lets a call be pending while another is accepted; the
proofs cover any number and any queues. *files*: the second file shows what the
end of the first leaves behind, the second block what happens between two writes;
the safety proofs cover any number of files and blocks. *shell*: the deadline lies beyond
the sum of the delays and the stability time, so that every order of timers
occurs; the safety proofs cover any delays. *presence*: one claim owner and one contender, in either role, with one
fault; two processes are the fewest that contend, and the safety proofs cover
any number. *strategy*: a key that is withdrawn beside one that stays, a map
superseded before it was acknowledged (two edits), and one abandoned request
beside the awaited one; the safety proofs cover any keys, values and requests. *codec*: fields are written and read independently of
each other but for the union and the order, so pairs of fields and one level of
nesting show every interaction of the generated code; the types are all there.
*audit*: rows of different connections meet only in a heartbeat's list, where
each is looked up by itself; one connection has at most two rows, and the proof
of `LiveRowStays` covers any number; a second disconnect falls into each gap of the
first, between its select and mark, its mark and answer, and its answer and retry, and
an outage takes the place of one of the two.

Deadlock is checked in `presence`, `strategy` and `audit`. In the others the system may stop: a session
that was torn down, a job that ended, a page on which nobody clicks.

**Fairness.** `session`: the browser settles each promise and an armed timer
fires; the network and the device owe nothing. `files`: messages are delivered,
file operations settle and a connected host serves; users and failures owe
nothing, so a conflict dialog may stay open. `shell`: time passes and timers
fire. `presence`: a running process goes on (weak fairness); the scheduler starts
a sweep every minute, and because a snooze is a bounded window some of them are
not snoozed (strong); limits of claim, lock and cooldown pass (weak); a transport
that is tried for ever succeeds some time (strong, the only assumption on the
outside). `strategy`: the device beats (weak) and processes finish (weak); a device
that asks for ever gets a request through, has it handled and receives the answer
before it gives up some time (strong: nothing can be said of a device that never
hears from the console). `audit`: time passes and the scheduler runs the sweep
(weak); a request that arrived is handled, and a running device that reaches the
API goes on sending heartbeats (weak); not every heartbeat is lost, nor every
answer that carries disconnects (strong); posts may all be lost, and a device
may stay off, unreachable or recycled for ever.

**Findings.** (1) `cancelJob` cannot abort a stream that is still being opened,
and `onFtDone` chains a commit without looking at the job's status, so a
truncated file replaces an existing one although `file-panel.ts:12-13` excludes
it. (2) `expireRestartFlow` ends a reconnected, streaming session that has not
yet been stable for 15 seconds, with the message that the device did not return.
(3) `startSession` says it retires everything of the previous session; a restart
flow survives a crash of the worker, and terminal and camera panels survive a
login error. (4) `deliveryFor` remembers only the last map sent and the last
acknowledged. A heartbeat the device abandoned, handled while the answer to a
later one is on its way and after the policy was withdrawn, replaces the first and
moves the token; the key that the device then applies is in neither map and is
never reset. The comment at `Strategy.php:686-689` says the reset loop excludes
this; `NoKeyStranded`, `EchoIsEvidence` and `PolicyReached` hold as long as no
request is overtaken in this way, whatever else is lost.

Two more failures of downloads are in the model and excepted by name from
`DoneMeansComplete` and `NoPartialFile`, which do not hold of them. `closeJobFile`
takes every rejection of `close()` for "already closed" (`file-panel.ts:1014-1016`), so
a commit the browser refuses is reported as received (`lost`). A block that cannot be
decompressed fails the job on our side only (`file-transfer.ts:51-56`): if the error is
handled while the stream is being opened, nothing is aborted, later blocks are dropped,
the next file's digest makes the job "running" again (`file-panel.ts:933`), and the
truncated file is committed by a job that ends as done (`damaged`).

What the properties leave out deliberately: with a second relay response the
first relay socket is orphaned and can still revive the screen (`session`'s
`orderly`); after three calls in flight at once the worker can hold an accepted
call and a pending request together (`CallAgreement` says only that there is
a call); a digest that was on its way when the user cancelled shows the
download as running again, for ever (`JobSettles` is about jobs nothing stopped); a
teardown while a block is being read leaves the upload's loop waiting for the worker
that was dropped (`StoppedUploadEnds`); a device cut off from the API for 5 minutes has
its rows closed, and with them a disconnect asked for a session that lives on
(`DisconnectReaches` is about a device that is heard); a recovery announced once
through the row and once through the legacy marker counts as two markers
(`RecoveryAtMostOnce`).

## 4. Proofs

All for arbitrary constants, under the named assumptions of the component
modules: devices, processes, values and requests are told apart from the markers
for "none" (`PeerAssumption`, `NoProcAssumption`, `ValueAssumption`,
`BeatAssumption`, `ShellAssumption`), bounds are natural numbers
(`BoundAssumption`, `BoundsAssumption`, `VoiceBounds`, `AuditAssumption`), a
transfer has at least one file of at least one block (`TransferBounds`), and the
restart flow has at least one delay and delays and deadlines that are not zero
(`ShellAssumption`). Every value the code uses satisfies them.

**WebSessionProofs**

- `TypeCorrect`: `TypeOK`, split into five conjuncts with one
  lemma each. `TeardownSockets` isolates what a teardown does to the sockets.
- `Authenticated`: `CredentialOnlyToPeer`. It is not inductive:
  `FirstRelayFrame` takes the box key from a statement signed under `peerEdPk`,
  so one needs that `peerEdPk` is missing or the requested device's
  (`TrustInv`). Trust link 1 gives that, trust link 2 and the honesty of the
  requested device give the cipher, and a login is sealed with the cipher.
- `EndIsFinal`: `NothingAfterTheEnd`, from `EndInv`: after a
  teardown no socket is in use, and a dead session has been torn down.
- `StopTold`, `Watched`, `AllReleased`, `CiphersInStep`: none of the four
  properties is inductive, each needs to know how far `connect()` has got.
  `ConnectionInv` has three parts: `LifeInv` fits the await at which
  `connect()` stands, the session's state, sockets, timer and key together, before
  the first relay response (`EarlyLife`), while the session lives (`MidLife`) and
  after its end (`EndLife`); `OrderlyInv` says that with one relay response at most
  one relay socket opens, with the session waiting for it, a pairing is watched and
  an end was told; `CountInv` that the counters of both ends agree as long as the
  relay did not interfere.
- `SessionImplementsConnection`: the refinement `ImplementsConnection`.
  `OverIsTornDown`, from `ConnectionInv`, says what the abstract state is after
  the end; `StepKinds` sorts the actions into those that end the connection
  (`EndsAbstract`) and those that go on (`GoesOnAbstract`); `RefinesInit` and
  `RefinesStep` put them together.

**ClientShellProofs**

- `ScreenTrue`, `RetriesAlone`: `ScreenInv` joins the two properties, which need
  each other, with `FlowInv`: timers belong to a flow, and a flow keeps the connect
  form disabled unless it streams, so that (unless a worker crashed) the user
  cannot turn to another device under it.
- `RestoredStable`: `RestoredIsStable`, from `StableInv`: the stability check of the
  running stream ends `StableFor` ticks after that stream began.
- `ShellTypes`: the types.

**StrategyProofs**

- `NothingStranded`, `EchoEvidence`: both speak of the row and the device
  only, but what the device will hold next is on its way. `KnowledgeInv`, as long as
  no request was overtaken: a loaded request works on the row as it is (`CopyInv`),
  an answer on its way carries the current token and map and resets every key the
  device may still hold (`ReplyInv`), and the device follows the map of the token it
  has latched (`HeldInv`). It rests on `OrderInv`: of two requests under way one is
  older, the awaited one is the newest, only it is answered, and a request that is
  loaded leaves its elders behind.
- `DeliveryTypes`: `TypeOK`; in particular the reset marker stays on the wire and never
  gets into the maps the row records or into the device.

**VoiceProofs**

- `AudioConsented`, `MicInCall`, `CallAgreed`, from one invariant over shell,
  worker, device and four queues, `VoiceInv`: the microphone belongs to the call
  the button shows (`MicInv`); the numbers of calls are fresh, so that a stale
  answer matches no later request (`FreshInv`); a pending request is the last
  thing the worker said but for sound (`LastInv`); an accepted call was
  consented to by the device and nothing in the queue contradicts it
  (`ConsentInv`); the last event to the shell tells whether the worker has a
  call (`EventInv`).
- `VoiceTypes`: the types.

**FileTransferProofs**

- `BlocksConfirmed`: `BlocksOnlyConfirmed`. The go-ahead of the user reaches
  `uploadFiles` through a waiter that does not say which file it is for, so one
  needs that at most one question is open - on its way to the device, on its way
  back, or being decided - and that it is about the file the upload waits for
  (`TokenInv`); that a go-ahead on its way was given, and that of the file
  being sent too (`GoAheadInv`); and that a device does not take both
  roles (`RoleInv`). `Continues` says what each stretch of `uploadFiles`
  posts (`NextFileContinues`, `NextBlockContinues`, `AfterConfirmContinues`), `Quietly`
  and `Advance` are the two kinds of step of the panel, `HostQuietly` and
  `HostAnswers` those of the device.
- `SumsStep`: the accounts of an upload, `UploadSums`. Every block of a file that the
  device lacks and the loop has posted is in the channel once, in order, the end
  of the file last (`StreamInv`); the loop's position is what is with the device or on
  its way (`SenderInv`); nothing of a file is sent while it is still being asked
  about (`QuestionInv`); every file behind the loop is skipped, closed, or has its end
  in the channel, ahead of the "done" (`LedgerInv`). All but the last hold only while
  the device takes what it is sent (`Active`): after a failure it throws away what
  is still queued, and never starts again.

**FileDownloadProofs**

- `NothingPartial`, `DoneIsComplete`: `NoPartialFile` and `DoneMeansComplete`, from
  `Accounts`: `UploadSums` for an upload, and `Down` for a download (`DownStep`) until a
  block turns out unreadable, with the types and roles of `FileTransferProofs`. Both
  theorems carry the provisos of their properties: a refused commit is in `lost`, and
  nothing is said of a download with a `damaged` block.
- `Down` says of a job that is well that its stream has no gap: what is written to
  the open file, the write chain, the channel and what the device sends next follow
  each other block by block (`Sound`, with `Follows` and `HeadInv`), and each file is
  complete, skipped, or its end is still to come (`Account`). That is not inductive,
  since a cancel or a failed write breaks the stream, and a digest or file
  list that arrives late makes the panel call the stopped job running again. So a job
  that was stopped has told the device, which answers no more (`AskInv`), and a revived
  one gets no further block and no "done" (`Doomed`). `LinkInv` has what both sides may
  say in which order; `PartInv` that a truncated file is only left by the "done" of a
  job that had stopped, behind which nothing can revive it. Each action is a lemma
  (`HostServesDown`, `EventsDown`, `ItemStartsDown`, `OpenedDown`, `WrittenDown`, ...);
  `PanelActs`, `PanelTakes` and `HostActs` carry `LinkInv`, `NextStream` and
  `HostStream` the stream.

**PresenceProofs**

- `AlertsClaimed`: `AlertUnderClaim`, from `ClaimInv`: the claim
  under which a process that is not late sends has not aged, so nobody may
  reclaim it; with the types of processes and row.
- `OwnerAlone`: the action property `OwnerSettles`.
- `RecoveriesOnce`: `RecoveryAtMostOnce`, from `MarkerInv`:
  whoever is past the ownership check holds the lock (`LockInv`), marker numbers
  are fresh (`NumberInv`), and a marker is in one place only - row, cache, a
  process, or announced (`PlaceInv`).

**AuditProofs**

- `LiveRowsStay`: the action property `LiveRowStays`. It rests on `AuditInvariant`, a
  lemma: posts, handlers and rows are of connections that began, a close is of one
  that ended (`EventsTrue`), and a heartbeat not yet reconciled lists every live
  connection whose row it could close (`BeatTrue`; its last conjunct is the timing
  assumption of `GraceEnds`). What a step may do to connections, rows, posts, handlers
  and the heartbeat is a lemma each (`ConnStep`, `RowsStep`, `PostsStep`,
  `HandlersStep`, `BeatMoves`).

Only model-checked: the codec (`RoundTrip`, `NewerPeer`, `LastWins`,
`StopTagEnds`), which is recursive, as the messages are; and liveness
(`AttemptSettles`, `JobSettles`, `StoppedUploadEnds`, `FlowEnds`, `OutageReported`, `OutageCloses`,
`PolicyReached`, `GhostsClose`, `DisconnectHappens`, `DisconnectReaches`), which TLAPS does not reach with
fairness. Every other property of a passing run is a theorem.

## 5. Not modelled

- The bytes of a frame below the level of records (varints, UTF-8), which a
  library reads and writes; the TypeScript declarations and enums.
- What video, audio and input frames contain; wording and layout; cursor cache,
  statistics and codec probing beyond the fact that they happen: a data path
  without an order of its own.
- The Downloads-folder fallback of the file panel (`memBuf`), beyond the blocks that
  land in it.
- Directory listing and folder operations of the file panel. A dialog captures the
  entries and reads the folder later (hazard at `file-panel.ts:669`).
- Display switching: its messages are part of `WebSession`'s traffic, and
  `pendingDisplay` is not a variable there (hazard at `session.ts:518`).
- Which strategy a device resolves to and the recompute of its cache:
  `StrategyDelivery` takes the resolved policy as an input that changes at any
  time (hazard at `Strategy.php:524`).
- Sign-in, two-factor codes, invitations, resets, OIDC: requests of a few
  statements, whose check-then-write is listed as hazards.
- The file, alarm and note posts of `AuditController`, which append rows.
- CRUD pages, address books, admin API, import, mail, diagnostics: forms and
  queries. `public/` holds builds of the client and page scripts.

`PROJECT.json` gives the reason per component.

## 6. Plan

1. `StrategyResolution` (`Strategy.php` 350-432, 520-564): assignment at device,
   user and group level with the cached resolution and its recompute, and an
   abstract specification "the device holds the resolved policy" that it and
   `StrategyDelivery` implement together.
2. The remote pane of the file panel; display switching; one-time codes.
