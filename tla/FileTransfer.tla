---------------------------- MODULE FileTransfer ----------------------------
(***************************************************************************)
(* One transfer job of the file panel (ui/file-panel.ts) over its own      *)
(* connection: a download into an opened local folder, or an upload.  The  *)
(* panel's handlers are asynchronous: a write chain works off the received *)
(* blocks while later events, the user's cancel and the loss of the        *)
(* connection arrive.  The worker passes commands and events on in order   *)
(* (session.worker.ts), so panel and device are joined by two FIFO queues. *)
(*                                                                         *)
(* Every stretch of code between two awaits of real work (disk, socket,    *)
(* user) is one action; a promise resolved by a handler continues in the   *)
(* same action.                                                            *)
(***************************************************************************)
EXTENDS Naturals, Sequences, FiniteSets

CONSTANTS
    NFiles,   \* bound: files in a transfer
    Blocks    \* bound: blocks per file

ASSUME TransferBounds == NFiles \in Nat \ {0} /\ Blocks \in Nat \ {0}

Files == 1..NFiles

VARIABLES
    \* the panel
    kind,       \* "download" or "upload", fixed in Init like total
    total,      \* job.fileCount
    conn,       \* "streaming", "error" (worker.onerror), "closed" (no worker)
    status,     \* job.status; "none" before the job exists
    policy,     \* job.policy: "ask", "overwrite", "skip"
    deciding,   \* file whose digest waits for our decision, 0 for none
    asking,     \* the conflict dialog for it is open
    \* download
    chain,      \* job.writeChain: items not finished
    phase,      \* what the first item awaits: "idle", "closing", "opening", "writing"
    curFileNum, \* 0 for -1
    writable,   \* the open stream [f, n, ok], f = 0 for none; while phase is
                \* "closing", the one closeJobFile has taken out of the job
    disk,       \* local target of each file
    lost,       \* files whose commit the browser refused (history)
    \* upload
    up,         \* [pc, f, k]: where uploadFiles() stands
    \* channels
    toHost, toPanel,
    \* the device (external)
    host,       \* [pc, f, k]: where it stands with the job
    remote,     \* blocks it holds of each uploaded file
    final,      \* uploaded files it has closed
    \* history
    skipped,    \* files the user or the device decided to skip
    goAhead,    \* files an upload was allowed to send
    keep,       \* local files still untouched when the user last cancelled
    damaged     \* a received block could not be decompressed

job     == <<kind, total, conn, status, policy, deciding, asking>>
local   == <<chain, phase, curFileNum, writable, disk, lost>>
chans   == <<toHost, toPanel>>
device  == <<host, remote, final>>
history == <<skipped, goAhead, keep, damaged>>
vars    == <<job, local, up, chans, device, history>>

M(t, f, k) == [t |-> t, f |-> f, k |-> k]
NoStream == [f |-> 0, n |-> 0, ok |-> FALSE]
Ended    == {"done", "error", "cancelled"}

Init ==
    /\ kind \in {"download", "upload"} /\ total \in Files
    /\ conn = "streaming" /\ status = "none" /\ policy = "ask"
    /\ deciding = 0 /\ asking = FALSE
    /\ chain = <<>> /\ phase = "idle" /\ curFileNum = 0 /\ writable = NoStream
    /\ disk \in [Files -> {"old", "absent"}]
    /\ \A f \in Files : kind = "upload" \/ f > total => disk[f] = "absent"
    /\ lost = {}
    /\ up = [pc |-> "none", f |-> 0, k |-> 0]
    /\ toHost = <<>> /\ toPanel = <<>>
    /\ host = [pc |-> "idle", f |-> 0, k |-> 0]
    /\ remote = [f \in Files |-> 0] /\ final = {}
    /\ skipped = {} /\ goAhead = {} /\ keep = {} /\ damaged = FALSE

-----------------------------------------------------------------------------
(* Helpers of the panel *)

\* post(): nothing is sent once the worker is gone.
Post(msgs) == toHost' = IF conn = "closed" THEN toHost ELSE toHost \o msgs

\* What closing stream w makes of its file.
Committed(w) == [disk EXCEPT ![w.f] = IF w.n = Blocks THEN "new" ELSE "partial"]

\* mutant: giving a stream up closes it instead
AbortJobFileCommits ==
    /\ writable' = IF phase = "closing" THEN writable ELSE NoStream
    /\ disk' = IF phase # "closing" /\ writable.f # 0 /\ writable.ok THEN Committed(writable)
               ELSE disk
    /\ UNCHANGED lost

\* closeJobFile(job, false): the stream is given up, nothing of it reaches the
\* file.  One that is being closed is out of the job and closes all the same.
AbortJobFile ==
    /\ writable' = IF phase = "closing" THEN writable ELSE NoStream
    /\ UNCHANGED <<disk, lost>>

\* jobStopped, for the status s and connection c the job is left with.
JobStopped(s, c) == s \in {"cancelled", "error"} \/ c # "streaming"

At(pc, f, k) == [pc |-> pc, f |-> f, k |-> k]

\* The head of the upload loop for file i: what is posted, where it then waits.
NextFile(i, stop) ==
    IF stop THEN [post |-> <<>>, up |-> At("stopped", i, 0)]
    ELSE IF i > total THEN [post |-> <<M("done", 0, 0)>>, up |-> At("finished", 0, 0)]
    ELSE [post |-> <<M("digest", i, 0)>>, up |-> At("confirm", i, 0)]

\* The block loop of file f with n blocks behind it.  The end-of-file marker is
\* posted without looking at the job once more.
NextBlock(f, n, stop) ==
    IF n >= Blocks
    THEN LET next == NextFile(f + 1, stop)
         IN [post |-> <<M("block", f, 0)>> \o next.post, up |-> next.up]
    ELSE [post |-> <<>>, up |-> IF stop THEN At("stopped", f, n)
                                ELSE At("read", f, n + 1)]

\* mutant: a skipped file is sent all the same
AfterConfirmUnskipped(f, skip, offset, stop) ==
    IF stop THEN [post |-> <<>>, up |-> At("stopped", f, 0)]
    ELSE NextBlock(f, offset, stop)

\* The continuation of the confirm wait.
AfterConfirm(f, skip, offset, stop) ==
    IF stop THEN [post |-> <<>>, up |-> At("stopped", f, 0)]
    ELSE IF skip THEN NextFile(f + 1, stop)
    ELSE NextBlock(f, offset, stop)

\* mutant: a job that ends leaves its waiters
ReleaseWaitersNone == [post |-> <<>>, up |-> up]

\* confirmWaiter('cancelled') and sentWaiter(0) of a job that ends.
ReleaseWaiters ==
    CASE up.pc = "confirm" -> [post |-> <<>>, up |-> At("stopped", up.f, 0)]
      [] up.pc = "sent"    -> NextBlock(up.f, up.k, TRUE)
      [] OTHER             -> [post |-> <<>>, up |-> up]

\* cancelJob for a job that is neither done nor cancelled.
CancelJob ==
    /\ status' = "cancelled"
    /\ Post(<<M("cancel", 0, 0)>> \o ReleaseWaiters.post)
    /\ up' = ReleaseWaiters.up
    /\ AbortJobFile
    /\ keep' = {f \in Files : disk[f] = "old"}

\* teardown(): the worker is dropped first, so nothing more is posted.
Teardown ==
    /\ conn' = "closed"
    /\ IF status \in {"starting", "running"}
       THEN status' = "error" /\ up' = ReleaseWaiters.up /\ AbortJobFile
       ELSE UNCHANGED <<status, up, writable, disk, lost>>
    /\ UNCHANGED toHost

-----------------------------------------------------------------------------
(* Starting and ending a job *)

\* startDownloadOf: the permission prompt lies between the check of the
\* connection and this step, so the job may be created on a closed one.
StartDownload ==
    /\ kind = "download" /\ status = "none"
    /\ status' = "starting"
    /\ Post(<<M("send", 0, 0)>>)
    /\ UNCHANGED <<kind, total, conn, policy, deciding, asking, local, up, toPanel,
                   device, history>>

\* uploadFiles, up to the wait for the first confirm.
StartUpload ==
    /\ kind = "upload" /\ status = "none" /\ conn = "streaming"
    /\ status' = "running"
    /\ Post(<<M("receive", 0, 0)>> \o NextFile(1, FALSE).post)
    /\ up' = NextFile(1, FALSE).up
    /\ UNCHANGED <<kind, total, conn, policy, deciding, asking, local, toPanel, device,
                   history>>

\* The cancel button of the job's row.
UserCancels ==
    /\ status \in {"starting", "running"}
    /\ CancelJob
    /\ UNCHANGED <<kind, total, conn, policy, deciding, asking, chain, phase, curFileNum,
                   toPanel, device, skipped, goAhead, damaged>>

\* worker.onerror: the panel stops trusting the connection, the job is left alone.
WorkerCrashes ==
    /\ conn = "streaming"
    /\ conn' = "error"
    /\ UNCHANGED <<kind, total, status, policy, deciding, asking, local, up, chans, device,
                   history>>

\* connectIfNeeded on a broken connection, as far as the old job sees it.
Reopen ==
    /\ conn = "error"
    /\ Teardown
    /\ UNCHANGED <<kind, total, policy, deciding, asking, chain, phase, curFileNum,
                   toPanel, device, history>>

-----------------------------------------------------------------------------
(* onEvent *)

Arrives(t) == toPanel # <<>> /\ Head(toPanel).t = t /\ toPanel' = Tail(toPanel)
Msg == Head(toPanel)

\* onFtDir: a job's file list.
DirArrives ==
    /\ Arrives("dir")
    /\ status' = "running"
    /\ UNCHANGED <<kind, total, conn, policy, deciding, asking, local, up, toHost, device,
                   history>>

\* onFtDigest, up to its first await.
DigestArrives ==
    /\ Arrives("digest")
    /\ deciding' = Msg.f
    /\ \/ /\ kind = "download"
          /\ status' = "running"
          /\ asking' = FALSE
       \/ /\ kind = "upload"
          /\ asking' = (policy = "ask")
          /\ UNCHANGED status
    /\ UNCHANGED <<kind, total, conn, policy, local, up, toHost, device, history>>

\* mutant: the device is told, the loop that waits is not
ConfirmedUnheard(skip) ==
    /\ deciding' = 0 /\ asking' = FALSE
    /\ skipped' = IF skip THEN skipped \cup {deciding} ELSE skipped
    /\ goAhead' = IF kind = "upload" /\ ~skip THEN goAhead \cup {deciding} ELSE goAhead
    /\ Post(<<M("confirm", deciding, IF skip THEN 1 ELSE 0)>>)
    /\ UNCHANGED up

\* The end of onFtDigest with a decision to go on.
Confirmed(skip) ==
    /\ deciding' = 0 /\ asking' = FALSE
    /\ skipped' = IF skip THEN skipped \cup {deciding} ELSE skipped
    /\ goAhead' = IF kind = "upload" /\ ~skip THEN goAhead \cup {deciding} ELSE goAhead
    /\ LET next == IF up.pc = "confirm"
                   THEN AfterConfirm(up.f, skip, 0, JobStopped(status, conn))
                   ELSE [post |-> <<>>, up |-> up]
       IN /\ Post(<<M("confirm", deciding, IF skip THEN 1 ELSE 0)>> \o next.post)
          /\ up' = next.up

\* localTargetExists and the sticky policy settle it, or the dialog opens.
TargetChecked ==
    /\ deciding # 0 /\ ~asking
    /\ \/ /\ kind = "download" /\ disk[deciding] = "absent"
          /\ Confirmed(FALSE)
       \/ /\ kind = "upload" \/ disk[deciding] # "absent"
          /\ policy # "ask"
          /\ Confirmed(policy = "skip")
       \/ /\ kind = "download" /\ disk[deciding] # "absent" /\ policy = "ask"
          /\ asking' = TRUE
          /\ UNCHANGED <<deciding, toHost, up, skipped, goAhead>>
    /\ UNCHANGED <<kind, total, conn, status, policy, local, toPanel, device, keep, damaged>>

\* A button of the conflict dialog, with or without "apply to all".
Decide(action, applyAll) ==
    /\ asking
    /\ \/ /\ action # "cancel"
          /\ policy' = IF applyAll THEN action ELSE policy
          /\ Confirmed(action = "skip")
          /\ UNCHANGED <<status, writable, disk, lost, keep>>
       \/ /\ action = "cancel"
          /\ deciding' = 0 /\ asking' = FALSE
          /\ IF status \in {"done", "cancelled"}
             THEN /\ up' = ReleaseWaiters.up
                  /\ UNCHANGED <<status, toHost, writable, disk, lost, keep>>
             ELSE CancelJob
          /\ UNCHANGED <<policy, skipped, goAhead>>
    /\ UNCHANGED <<kind, total, conn, chain, phase, curFileNum, toPanel, device, damaged>>

\* 'ftSendConfirm': the device lets the upload go on by itself.
SendConfirmArrives ==
    /\ Arrives("confirm") \/ Arrives("skip")
    /\ LET next == IF up.pc = "confirm"
                   THEN AfterConfirm(up.f, Msg.t = "skip", Msg.k, JobStopped(status, conn))
                   ELSE [post |-> <<>>, up |-> up]
       IN Post(next.post) /\ up' = next.up
    /\ UNCHANGED <<job, local, device, history>>

\* onFtBlock: only queued; a stopped job drops it.
BlockArrives ==
    /\ Arrives("block")
    /\ chain' = IF status \in {"cancelled", "error"} THEN chain ELSE Append(chain, Msg)
    /\ UNCHANGED <<job, phase, curFileNum, writable, disk, lost, up, toHost, device, history>>

\* mutant: a finished download does not wait for its writes
DoneArrivesUnchained ==
    /\ Arrives("done")
    /\ status' = IF status \in {"error", "cancelled"} THEN status ELSE "done"
    /\ UNCHANGED <<kind, total, conn, policy, deciding, asking, local, up, toHost, device,
                   history>>

\* onFtDone: behind the queued writes for a download, at once for an upload.
DoneArrives ==
    /\ Arrives("done")
    /\ \/ /\ kind = "download"
          /\ chain' = Append(chain, Msg)
          /\ UNCHANGED status
       \/ /\ kind = "upload"
          /\ status' = IF status \in {"starting", "running"} THEN "done" ELSE status
          /\ UNCHANGED chain
    /\ UNCHANGED <<kind, total, conn, policy, deciding, asking, phase, curFileNum, writable,
                   disk, lost, up, toHost, device, history>>

\* onFtError: "skipped" ends a single-file job well, anything else fails it.
ErrorArrives ==
    /\ \/ /\ Arrives("skipped")
          /\ status' = "done"
          /\ UNCHANGED <<up, toHost, writable, disk, lost>>
       \/ /\ Arrives("error")
          /\ status' = "error"
          /\ Post(ReleaseWaiters.post)
          /\ up' = ReleaseWaiters.up
          /\ AbortJobFile
    /\ UNCHANGED <<kind, total, conn, policy, deciding, asking, chain, phase, curFileNum,
                   device, history>>

\* A 'state' event error or closed.
ClosedArrives ==
    /\ Arrives("closed")
    /\ Teardown
    /\ UNCHANGED <<kind, total, policy, deciding, asking, chain, phase, curFileNum, device,
                   history>>

-----------------------------------------------------------------------------
(* The write chain of a download *)

Item == Head(chain)

\* The item first finalizes the file before it, or its own.
Closes == Item.t = "done" \/ curFileNum # Item.f \/ Item.k = 0

\* What the item does once that file is closed.
AfterClose ==
    \/ /\ Item.t = "block" /\ curFileNum # Item.f    \* another file: open it
       /\ curFileNum' = Item.f /\ phase' = "opening"
       /\ UNCHANGED <<chain, status>>
    \/ /\ Item.t = "block" /\ curFileNum = Item.f
       /\ curFileNum' = 0 /\ phase' = "idle" /\ chain' = Tail(chain)
       /\ UNCHANGED status
    \/ /\ Item.t = "done"
       /\ curFileNum' = 0 /\ phase' = "idle" /\ chain' = Tail(chain)
       /\ status' = IF status \in {"error", "cancelled"} THEN status ELSE "done"

\* The first item starts.
ItemStarts ==
    /\ chain # <<>> /\ phase = "idle"
    /\ \/ /\ Closes /\ writable.f # 0                 \* await w.close()
          /\ phase' = "closing"
          /\ UNCHANGED <<chain, curFileNum, status>>
       \/ /\ Closes /\ writable.f = 0
          /\ AfterClose
       \/ /\ ~Closes
          /\ IF writable.f = 0
             THEN chain' = Tail(chain) /\ UNCHANGED phase   \* lands in memBuf
             ELSE phase' = "writing" /\ UNCHANGED chain
          /\ UNCHANGED <<curFileNum, status>>
    /\ UNCHANGED <<kind, total, conn, policy, deciding, asking, writable, disk, lost, up,
                   chans, device, history>>

\* closeJobFile(job, true) settles: the data is in the file, or the browser
\* refused it, which closeJobFile swallows.  A stream whose write failed cannot
\* be closed.
FileClosed(ok) ==
    /\ phase = "closing"
    /\ \/ /\ ok /\ writable.ok
          /\ disk' = Committed(writable)
          /\ UNCHANGED lost
       \/ /\ ~ok
          /\ lost' = IF writable.ok THEN lost \cup {writable.f} ELSE lost
          /\ UNCHANGED disk
    /\ writable' = NoStream
    /\ AfterClose
    /\ UNCHANGED <<kind, total, conn, policy, deciding, asking, up, chans, device, history>>

\* The catch of the item: the job fails, the device is told.
WriteFails ==
    /\ status' = "error"
    /\ Post(<<M("cancel", 0, 0)>>)
    /\ chain' = Tail(chain) /\ phase' = "idle"

\* createLocalWritable returns (it has created the file) or throws.
Opened(ok) ==
    /\ phase = "opening"
    /\ \/ /\ ok
          /\ disk' = IF disk[Item.f] = "absent" THEN [disk EXCEPT ![Item.f] = "empty"]
                     ELSE disk
          /\ writable' = [f |-> Item.f, n |-> 0, ok |-> TRUE]
          /\ phase' = IF Item.k = 0 THEN "closing" ELSE "writing"
          /\ UNCHANGED <<chain, status, toHost>>
       \/ /\ ~ok
          /\ WriteFails
          /\ UNCHANGED <<writable, disk>>
    /\ UNCHANGED <<kind, total, conn, policy, deciding, asking, curFileNum, lost, up, toPanel,
                   device, history>>

\* The write settles; the stream may have been aborted meanwhile.
Written(ok) ==
    /\ phase = "writing"
    /\ \/ /\ ok /\ (writable.f # 0 => writable.ok)
          /\ writable' = IF writable.f = 0 THEN writable
                         ELSE [writable EXCEPT !.n = @ + 1]
          /\ chain' = Tail(chain) /\ phase' = "idle"
          /\ UNCHANGED <<status, toHost>>
       \/ /\ ~ok
          /\ WriteFails
          /\ writable' = IF writable.f = 0 THEN writable ELSE [writable EXCEPT !.ok = FALSE]
    /\ UNCHANGED <<kind, total, conn, policy, deciding, asking, curFileNum, disk, lost, up,
                   toPanel, device, history>>

-----------------------------------------------------------------------------
(* uploadFiles between two of its awaits *)

\* The block is read and posted, without looking at the job again.
BlockRead ==
    /\ up.pc = "read"
    /\ Post(<<M("block", up.f, up.k)>>)
    /\ up' = At("sent", up.f, up.k)
    /\ UNCHANGED <<job, local, toPanel, device, history>>

\* The read throws; the catch reports it unless the job had stopped.
ReadFails ==
    /\ up.pc = "read"
    /\ IF JobStopped(status, conn)
       THEN UNCHANGED <<status, toHost>>
       ELSE status' = "error" /\ Post(<<M("error", 0, 0)>>)
    /\ up' = At("stopped", up.f, up.k)
    /\ UNCHANGED <<kind, total, conn, policy, deciding, asking, local, toPanel, device, history>>

\* 'ftSent': go on, or first let a deep backlog drain.
Sent ==
    /\ up.pc = "sent" /\ conn # "closed"
    /\ \/ LET next == NextBlock(up.f, up.k, JobStopped(status, conn))
          IN Post(next.post) /\ up' = next.up
       \/ up' = [up EXCEPT !.pc = "drain"] /\ UNCHANGED toHost
    /\ UNCHANGED <<job, local, toPanel, device, history>>

Drained ==
    /\ up.pc = "drain"
    /\ LET next == NextBlock(up.f, up.k, JobStopped(status, conn))
       IN Post(next.post) /\ up' = next.up
    /\ UNCHANGED <<job, local, toPanel, device, history>>

-----------------------------------------------------------------------------
(* The device (external).  It announces a download's files one by one and  *)
(* waits for each confirm; it answers an upload's digest with a confirm or *)
(* by asking back; it forgets a job that is cancelled or failed.           *)

Hears(t) == /\ host.pc # "gone"
            /\ toHost # <<>> /\ Head(toHost).t = t /\ toHost' = Tail(toHost)
Cmd == Head(toHost)

\* Announce file f of a download, or finish.
Announce(f) ==
    IF f > total
    THEN toPanel' = Append(toPanel, M("done", 0, 0)) /\ host' = At("idle", 0, 0)
    ELSE toPanel' = Append(toPanel, M("digest", f, 0)) /\ host' = At("wait", f, 0)

HostServes ==
    /\ \/ /\ Hears("send")
          /\ toPanel' = toPanel \o <<M("dir", 0, 0), M("digest", 1, 0)>>
          /\ host' = At("wait", 1, 0)
       \/ /\ Hears("confirm")
          /\ \/ /\ host.pc = "wait" /\ Cmd.f = host.f /\ Cmd.k = 0
                /\ host' = At("send", Cmd.f, 1) /\ UNCHANGED toPanel
             \/ /\ host.pc = "wait" /\ Cmd.f = host.f /\ Cmd.k = 1
                /\ \/ Announce(Cmd.f + 1)
                   \/ /\ total = 1
                      /\ toPanel' = Append(toPanel, M("skipped", 0, 0))
                      /\ host' = At("idle", 0, 0)
             \/ /\ ~(host.pc = "wait" /\ Cmd.f = host.f)
                /\ UNCHANGED <<toPanel, host>>
       \/ /\ Hears("receive")
          /\ host' = At("receive", 0, 0) /\ UNCHANGED toPanel
       \/ /\ Hears("cancel") \/ Hears("error")
          /\ host' = At("idle", 0, 0) /\ UNCHANGED toPanel
    /\ UNCHANGED <<job, local, up, remote, final, history>>

HostSends ==
    /\ host.pc = "send"
    /\ \/ /\ host.k <= Blocks
          /\ toPanel' = Append(toPanel, M("block", host.f, host.k))
          /\ host' = [host EXCEPT !.k = @ + 1]
       \/ /\ host.k > Blocks
          /\ IF host.f = total
             THEN /\ toPanel' = toPanel \o <<M("block", host.f, 0), M("done", 0, 0)>>
                  /\ host' = At("idle", 0, 0)
             ELSE /\ toPanel' = toPanel \o <<M("block", host.f, 0),
                                             M("digest", host.f + 1, 0)>>
                  /\ host' = At("wait", host.f + 1, 0)
    /\ UNCHANGED <<job, local, up, toHost, remote, final, history>>

HostReceives ==
    /\ \/ /\ Hears("digest") /\ host.pc = "receive"
          /\ \/ \E off \in 0..Blocks :
                   /\ toPanel' = Append(toPanel, M("confirm", Cmd.f, off))
                   /\ remote' = [remote EXCEPT ![Cmd.f] = off]
                   /\ goAhead' = goAhead \cup {Cmd.f}
                   /\ UNCHANGED skipped
             \/ /\ toPanel' = Append(toPanel, M("skip", Cmd.f, 0))
                /\ skipped' = skipped \cup {Cmd.f}
                /\ UNCHANGED <<remote, goAhead>>
             \/ /\ toPanel' = Append(toPanel, M("digest", Cmd.f, 0))
                /\ UNCHANGED <<remote, goAhead, skipped>>
          /\ UNCHANGED <<host, final>>
       \/ /\ Hears("block")
          /\ IF host.pc = "receive"
             THEN IF Cmd.k = 0
                  THEN final' = final \cup {Cmd.f} /\ UNCHANGED remote
                  ELSE remote' = [remote EXCEPT ![Cmd.f] = @ + 1] /\ UNCHANGED final
             ELSE UNCHANGED <<remote, final>>
          /\ UNCHANGED <<host, toPanel, goAhead, skipped>>
       \/ /\ Hears("done")
          /\ toPanel' = IF host.pc = "receive" THEN Append(toPanel, M("done", 0, 0))
                        ELSE toPanel
          /\ host' = At("idle", 0, 0)
          /\ UNCHANGED <<remote, final, goAhead, skipped>>
       \/ /\ Hears("digest") /\ host.pc # "receive"
          /\ UNCHANGED <<host, toPanel, remote, final, goAhead, skipped>>
    /\ UNCHANGED <<job, local, up, keep, damaged>>

\* The job fails on the device.
HostFails ==
    /\ host.pc \in {"wait", "send", "receive"}
    /\ host' = At("idle", 0, 0)
    /\ toPanel' = Append(toPanel, M("error", 0, 0))
    /\ UNCHANGED <<job, local, up, toHost, remote, final, history>>

\* A block of a download the worker cannot decompress (fileResponseToEvents): the
\* panel is told of an error in its place; the device hears nothing and goes on.
BlockUnreadable ==
    /\ host.pc = "send" /\ host.k <= Blocks
    /\ toPanel' = Append(toPanel, M("error", 0, 0))
    /\ host' = [host EXCEPT !.k = @ + 1]
    /\ damaged' = TRUE
    /\ UNCHANGED <<job, local, up, toHost, remote, final, skipped, goAhead, keep>>

\* The connection ends; it is the last thing the panel hears.
ConnectionLost ==
    /\ host.pc # "gone"
    /\ host' = At("gone", 0, 0)
    /\ toPanel' = Append(toPanel, M("closed", 0, 0))
    /\ toHost' = <<>>
    /\ UNCHANGED <<job, local, up, remote, final, history>>

-----------------------------------------------------------------------------
Choices == {<<"overwrite", FALSE>>, <<"overwrite", TRUE>>, <<"skip", FALSE>>,
            <<"skip", TRUE>>, <<"cancel", FALSE>>}

Events == DirArrives \/ DigestArrives \/ SendConfirmArrives \/ BlockArrives
          \/ DoneArrives \/ ErrorArrives \/ ClosedArrives
WriteChain == ItemStarts \/ \E ok \in BOOLEAN : Opened(ok) \/ Written(ok) \/ FileClosed(ok)
Upload == BlockRead \/ ReadFails \/ Sent \/ Drained
Host == HostServes \/ HostSends \/ HostReceives
User == StartDownload \/ StartUpload \/ UserCancels
        \/ \E c \in Choices : Decide(c[1], c[2])

Next == Events \/ TargetChecked \/ WriteChain \/ Upload \/ Host \/ User
        \/ HostFails \/ BlockUnreadable \/ ConnectionLost \/ WorkerCrashes \/ Reopen

Spec == Init /\ [][Next]_vars

\* Fairness: messages are delivered, file operations settle, the device serves
\* what it hears.  The user owes nothing, and nothing needs to fail.
Fairness == /\ WF_vars(Events) /\ WF_vars(TargetChecked) /\ WF_vars(WriteChain)
            /\ WF_vars(Upload) /\ WF_vars(Host)

LiveSpec == Spec /\ Fairness

-----------------------------------------------------------------------------
(* Properties *)

\* "Received" and "Sent" are true: a job shown as done has every file either
\* skipped or complete at its destination, whatever writes, events, a cancel and
\* the loss of the connection did to each other on the way.  Two things the code
\* does not take care of are excepted: a commit the browser refused, which
\* closeJobFile swallows, and a block that could not be decompressed, of which the
\* device is not told.
DoneMeansComplete ==
    status = "done" /\ ~damaged => \A f \in 1..total :
        \/ f \in skipped
        \/ kind = "download" /\ (disk[f] = "new" \/ f \in lost)
        \/ kind = "upload" /\ f \in final /\ remote[f] = Blocks

\* Nothing truncated passes for a file: what the device closes holds every block,
\* and so does what is closed here, as long as every block could be decompressed
\* and the job was not cancelled or failed (for those see CancelledNeverClobbers).
NoPartialFile ==
    /\ status \notin {"cancelled", "error"} /\ ~damaged =>
          \A f \in Files : disk[f] # "partial"
    /\ \A f \in final : remote[f] = Blocks

\* The device is sent blocks only of files it, or the user asked about the
\* conflict, gave the go-ahead for.
BlocksOnlyConfirmed ==
    \A i \in DOMAIN toHost : toHost[i].t = "block" => toHost[i].f \in goAhead

\* A job in either direction does not hang: as long as nothing stops it, it gets
\* from where it is to its end, or to the next question to the user, unless the
\* worker itself broke.  (What stops it also ends it; a late digest that makes a
\* cancelled download look running again is not covered.)
JobSettles ==
    [](status \notin {"cancelled", "error"}) =>
        ((status \in {"starting", "running"} /\ ~asking /\ conn = "streaming")
            ~> (status = "done" \/ asking \/ conn = "error"))

\* The loop of a stopped upload ends: no waiter for a confirm or a sent block is
\* left behind, whichever of cancel, error and teardown meets which wait.  Only a
\* teardown while a block is read leaves it waiting for the worker it dropped.
StoppedUploadEnds ==
    (kind = "upload" /\ status \in {"cancelled", "error"})
        ~> (up.pc \in {"stopped", "finished"} \/ (up.pc = "sent" /\ conn = "closed"))

\* The promise at the head of file-panel.ts: a cancelled download never clobbers
\* an existing file.
CancelledNeverClobbers == \A f \in keep : disk[f] = "old"

=============================================================================
