------------------------- MODULE FileTransferProofs -------------------------
(***************************************************************************)
(* Proofs about FileTransfer, for any number of files and blocks: its      *)
(* types, the go-aheads of an upload, and the accounts of what an upload   *)
(* has sent and left on the device.                                        *)
(***************************************************************************)
EXTENDS FileTransfer, TLAPS

MessageKinds == {"send", "receive", "digest", "confirm", "skip", "block", "done", "skipped",
                 "cancel", "error", "dir", "closed"}
Messages == [t : MessageKinds, f : Nat, k : Nat]
HostStates == {"idle", "wait", "send", "receive", "gone"}
UpStates == {"none", "confirm", "read", "sent", "drain", "stopped", "finished"}
Positions == [pc : UpStates, f : Nat, k : Nat]

Continuations == [post : Seq(Messages), up : Positions]

\* The types of what an upload's control depends on.
PanelType ==
    /\ kind \in {"download", "upload"} /\ total \in Nat /\ deciding \in Nat
    /\ up \in Positions /\ host \in [pc : HostStates, f : Nat, k : Nat]
    /\ toHost \in Seq(Messages) /\ toPanel \in Seq(Messages)

\* A question for the go-ahead of a file, and its answer, on their way.
Asks(i)    == toHost[i].t = "digest"
Answers(i) == toPanel[i].t \in {"digest", "confirm", "skip"}

\* The upload waits for file f, or has stopped.
Waits(f) == up.pc = "stopped" \/ (up.pc = "confirm" /\ up.f = f)

\* At most one question is open: on its way, being decided, or answered.  It is the
\* one the upload waits for.
TokenInv ==
    /\ \A i, j \in DOMAIN toHost : Asks(i) /\ Asks(j) => i = j
    /\ \A i, j \in DOMAIN toPanel : Answers(i) /\ Answers(j) => i = j
    /\ \A i \in DOMAIN toHost, j \in DOMAIN toPanel : ~(Asks(i) /\ Answers(j))
    /\ \A i \in DOMAIN toHost : Asks(i) =>
          deciding = 0 /\ Waits(toHost[i].f) /\ toHost[i].f # 0
    /\ \A i \in DOMAIN toPanel : Answers(i) =>
          deciding = 0 /\ Waits(toPanel[i].f) /\ toPanel[i].f # 0
    /\ deciding # 0 => Waits(deciding)
    /\ asking => deciding # 0

\* A go-ahead on its way was given, and so was that of the file being sent.
GoAheadInv ==
    /\ \A i \in DOMAIN toPanel : toPanel[i].t = "confirm" => toPanel[i].f \in goAhead
    /\ up.pc \in {"read", "sent", "drain"} => up.f \in goAhead
    /\ BlocksOnlyConfirmed

\* The device of an upload sends no files, that of a download gets none; an upload
\* that was not started is nowhere.
NoSend == \A i \in DOMAIN toHost : toHost[i].t # "send"
RoleInv ==
    /\ kind = "upload" => host.pc \in {"idle", "receive", "gone"} /\ NoSend
    /\ kind = "download" => up.pc = "none" /\ \A i \in DOMAIN toHost : toHost[i].t # "block"
    /\ status = "none" => up.pc = "none"

UploadInv == RoleInv /\ (kind = "upload" => TokenInv /\ GoAheadInv)

(***************************************************************************)
(* Channels and continuations.                                             *)
(***************************************************************************)

\* A receiver takes the first message and the others move up.
LEMMA Received ==
    ASSUME NEW S, NEW s \in Seq(S), s # <<>>
    PROVE  /\ Tail(s) \in Seq(S) /\ Head(s) \in S /\ Head(s) = s[1] /\ 1 \in DOMAIN s
           /\ \A k \in DOMAIN Tail(s) : /\ k + 1 \in DOMAIN s /\ Tail(s)[k] = s[k + 1]
                                        /\ k \in Nat /\ k + 1 # 1
OBVIOUS

\* Messages are added behind the others.
LEMMA Joined ==
    ASSUME NEW S, NEW s \in Seq(S), NEW p \in Seq(S)
    PROVE  /\ s \o p \in Seq(S)
           /\ \A i \in DOMAIN s : i \in DOMAIN (s \o p) /\ (s \o p)[i] = s[i]
           /\ \A i \in DOMAIN (s \o p) :
                 \/ i \in DOMAIN s /\ (s \o p)[i] = s[i]
                 \/ \E j \in DOMAIN p : i = Len(s) + j /\ (s \o p)[i] = p[j]
<1>1. s \o p \in Seq(S) /\ Len(s \o p) = Len(s) + Len(p) /\ Len(s) \in Nat /\ Len(p) \in Nat
  OBVIOUS
<1>2. DOMAIN s = 1..Len(s) /\ DOMAIN p = 1..Len(p) /\ DOMAIN (s \o p) = 1..(Len(s) + Len(p))
  OBVIOUS
<1>3. \A i \in DOMAIN s : i \in DOMAIN (s \o p) /\ (s \o p)[i] = s[i]
  BY <1>1, <1>2
<1>4. ASSUME NEW i \in DOMAIN (s \o p), i \notin DOMAIN s
      PROVE  \E j \in DOMAIN p : i = Len(s) + j /\ (s \o p)[i] = p[j]
  <2>1. i - Len(s) \in DOMAIN p /\ i = Len(s) + (i - Len(s))
    BY <1>1, <1>2, <1>4
  <2>2. (s \o p)[i] = p[i - Len(s)]
    BY <1>1, <1>2, <1>4
  <2> QED BY <2>1, <2>2
<1> QED BY <1>1, <1>3, <1>4

\* One message as a sequence, alone, behind others and before others.
LEMMA Single ==
    ASSUME NEW S, NEW m \in S
    PROVE  <<m>> \in Seq(S) /\ DOMAIN <<m>> = {1} /\ <<m>>[1] = m /\ Len(<<m>>) = 1
<1>1. <<m>> \in Seq(S)
  OBVIOUS
<1>2. DOMAIN <<m>> = {1} /\ <<m>>[1] = m /\ Len(<<m>>) = 1
  OBVIOUS
<1> QED BY <1>1, <1>2

\* Append in the form the other lemmas use.
LEMMA Appended ==
    ASSUME NEW S, NEW s \in Seq(S), NEW m \in S
    PROVE  Append(s, m) = s \o <<m>>
OBVIOUS

\* One message in front of others.
LEMMA Before ==
    ASSUME NEW S, NEW s \in Seq(S), NEW y \in Seq(S), Len(s) = 1, NEW p, p = s \o y
    PROVE  /\ p \in Seq(S)
           /\ \A i \in DOMAIN p : p[i] = s[1] \/ \E j \in DOMAIN y : i = 1 + j /\ p[i] = y[j]
<1>1. /\ s \o y \in Seq(S)
      /\ \A i \in DOMAIN (s \o y) :
                 \/ i \in DOMAIN s /\ (s \o y)[i] = s[i]
                 \/ \E j \in DOMAIN y : i = Len(s) + j /\ (s \o y)[i] = y[j]
  BY ONLY s \in Seq(S), y \in Seq(S), Joined
<1>2. \A i \in DOMAIN s : i = 1
  OBVIOUS
<1> QED BY <1>1, <1>2

\* What post() leaves in the channel.
LEMMA Posted ==
    ASSUME toHost \in Seq(Messages), NEW p \in Seq(Messages), Post(p) \/ UNCHANGED toHost
    PROVE  /\ toHost' \in Seq(Messages)
           /\ \A i \in DOMAIN toHost' :
                 \/ i \in DOMAIN toHost /\ toHost'[i] = toHost[i]
                 \/ \E j \in DOMAIN p : i = Len(toHost) + j /\ toHost'[i] = p[j]
<1>1. CASE UNCHANGED toHost
  BY <1>1
<1>2. CASE toHost' = toHost \o p
  BY <1>2, Joined
<1> QED BY <1>1, <1>2 DEF Post

\* A continuation r of uploadFiles at file f: it sends blocks of f only, asks for at
\* most one file, and then waits for that one.
Continues(r, f) ==
    /\ r \in Continuations
    /\ \A j \in DOMAIN r.post :
          /\ r.post[j].t \in {"block", "done", "digest"}
          /\ r.post[j].t = "block" => r.post[j].f = f
          /\ r.post[j].t = "digest" => /\ r.up.pc = "confirm" /\ r.up.f = r.post[j].f
                                       /\ r.post[j].f # 0
    /\ \A i, j \in DOMAIN r.post : r.post[i].t = "digest" /\ r.post[j].t = "digest" => i = j
    /\ r.up.pc \in {"read", "confirm", "stopped", "finished"}
    /\ r.up.pc = "read" => r.up.f = f
NoBlocks(r) == r.up.pc # "read" /\ \A j \in DOMAIN r.post : r.post[j].t # "block"

\* The head of the file loop sends no block.
LEMMA NextFileContinues ==
    ASSUME PanelType, NEW i \in Nat \ {0}, NEW stop \in BOOLEAN, NEW f
    PROVE  Continues(NextFile(i, stop), f) /\ NoBlocks(NextFile(i, stop))
           /\ Len(NextFile(i, stop).post) <= 1
<1> DEFINE r == NextFile(i, stop)
<1>1. CASE stop
  <2>1. r = [post |-> <<>>, up |-> At("stopped", i, 0)]
    BY <1>1 DEF NextFile
  <2>2. At("stopped", i, 0) \in Positions /\ At("stopped", i, 0).pc = "stopped"
    BY DEF M, At, Messages, MessageKinds, Positions, UpStates
  <2>3. r.post = <<>> /\ r.up.pc = "stopped" /\ r \in Continuations
    BY <2>1, <2>2 DEF Continuations
  <2> QED BY <2>3 DEF Continues, NoBlocks
<1>2. CASE ~stop /\ i > total
  <2>1. r = [post |-> <<M("done", 0, 0)>>, up |-> At("finished", 0, 0)]
    BY <1>2 DEF NextFile
  <2>2. /\ At("finished", 0, 0) \in Positions /\ At("finished", 0, 0).pc = "finished"
        /\ M("done", 0, 0) \in Messages /\ M("done", 0, 0).t = "done"
    BY DEF M, At, Messages, MessageKinds, Positions, UpStates
  <2>3. r.post = <<M("done", 0, 0)>> /\ r.up.pc = "finished" /\ r \in Continuations
    BY <2>1, <2>2 DEF Continuations
  <2>4. DOMAIN r.post = {1} /\ r.post[1].t = "done" /\ Len(r.post) = 1
    BY <2>2, <2>3
  <2> QED BY <2>3, <2>4 DEF Continues, NoBlocks
<1>3. CASE ~stop /\ ~(i > total)
  <2>1. r = [post |-> <<M("digest", i, 0)>>, up |-> At("confirm", i, 0)]
    BY <1>3 DEF NextFile
  <2>2. /\ At("confirm", i, 0) \in Positions /\ At("confirm", i, 0).pc = "confirm"
        /\ At("confirm", i, 0).f = i /\ M("digest", i, 0) \in Messages
        /\ M("digest", i, 0).t = "digest" /\ M("digest", i, 0).f = i
    BY DEF M, At, Messages, MessageKinds, Positions, UpStates
  <2>3. /\ r.post = <<M("digest", i, 0)>> /\ r.up.pc = "confirm" /\ r.up.f = i
        /\ r \in Continuations
    BY <2>1, <2>2 DEF Continuations
  <2>4. DOMAIN r.post = {1} /\ r.post[1].t = "digest" /\ r.post[1].f = i /\ Len(r.post) = 1
    BY <2>2, <2>3
  <2> QED BY <2>3, <2>4 DEF Continues, NoBlocks
<1> QED BY <1>1, <1>2, <1>3

\* The block loop sends blocks of its file.
LEMMA NextBlockContinues ==
    ASSUME PanelType, NEW f \in Nat, NEW n \in Nat, NEW stop \in BOOLEAN
    PROVE  Continues(NextBlock(f, n, stop), f)
<1> DEFINE r == NextBlock(f, n, stop)
           x == NextFile(f + 1, stop)
<1>0. Blocks \in Nat
  BY TransferBounds
<1>1. CASE n >= Blocks
  <2>1. r = [post |-> <<M("block", f, 0)>> \o x.post, up |-> x.up]
    BY <1>1 DEF NextBlock
  <2>2. Continues(x, f) /\ NoBlocks(x) /\ x.post \in Seq(Messages) /\ x.up \in Positions
    <3>1. f + 1 \in Nat \ {0}
      OBVIOUS
    <3>2. Continues(NextFile(f + 1, stop), f) /\ NoBlocks(NextFile(f + 1, stop))
      BY <3>1, NextFileContinues
    <3> QED BY <3>2 DEF Continues, Continuations
  <2>3. /\ M("block", f, 0) \in Messages /\ M("block", f, 0).t = "block"
        /\ M("block", f, 0).f = f
    BY DEF M, Messages, MessageKinds
  <2>4. PICK s \in Seq(Messages), y \in Seq(Messages) :
          /\ s = <<M("block", f, 0)>> /\ DOMAIN s = {1} /\ s[1] = M("block", f, 0) /\ Len(s) = 1
          /\ y = x.post
    <3>1. <<M("block", f, 0)>> \in Seq(Messages)
      BY <2>3
    <3>2. /\ DOMAIN <<M("block", f, 0)>> = {1} /\ Len(<<M("block", f, 0)>>) = 1
          /\ <<M("block", f, 0)>>[1] = M("block", f, 0)
      OBVIOUS
    <3> QED BY <2>2, <3>1, <3>2
  <2>5. /\ s \o y \in Seq(Messages)
        /\ \A i \in DOMAIN (s \o y) :
                 \/ i \in DOMAIN s /\ (s \o y)[i] = s[i]
                 \/ \E j \in DOMAIN y : i = Len(s) + j /\ (s \o y)[i] = y[j]
    BY Joined
  <2>6. r.post = s \o y /\ r.up = x.up /\ r \in Continuations
    BY <2>1, <2>2, <2>4, <2>5 DEF Continuations
  <2>7. \A i \in DOMAIN r.post :
           \/ r.post[i].t = "block" /\ r.post[i].f = f
           \/ \E j \in DOMAIN x.post : i = 1 + j /\ r.post[i] = x.post[j]
    BY <2>3, <2>4, <2>5, <2>6
  <2>8. \A j \in DOMAIN x.post :
           /\ x.post[j].t \in {"done", "digest"}
           /\ x.post[j].t = "digest" => /\ x.up.pc = "confirm" /\ x.up.f = x.post[j].f
                                        /\ x.post[j].f # 0
    BY <2>2 DEF Continues, NoBlocks
  <2>9. \A i \in DOMAIN r.post :
           /\ r.post[i].t \in {"block", "done", "digest"}
           /\ r.post[i].t = "block" => r.post[i].f = f
           /\ r.post[i].t = "digest" => /\ r.up.pc = "confirm" /\ r.up.f = r.post[i].f
                                        /\ r.post[i].f # 0
    BY <2>6, <2>7, <2>8
  <2>10. \A i, j \in DOMAIN r.post : r.post[i].t = "digest" /\ r.post[j].t = "digest" => i = j
    <3>1. \A i, j \in DOMAIN x.post : x.post[i].t = "digest" /\ x.post[j].t = "digest" => i = j
      BY <2>2 DEF Continues
    <3>2. \A i \in DOMAIN r.post : r.post[i].t = "digest" =>
             \E j \in DOMAIN x.post : i = 1 + j /\ x.post[j].t = "digest"
      BY <2>7
    <3> QED BY <3>1, <3>2
  <2>11. r.up.pc \in {"read", "confirm", "stopped", "finished"} /\ r.up.pc # "read"
    BY <2>2, <2>6 DEF Continues, NoBlocks
  <2> QED BY <2>6, <2>9, <2>10, <2>11 DEF Continues
<1>2. CASE ~(n >= Blocks) /\ stop
  <2>1. r = [post |-> <<>>, up |-> At("stopped", f, n)]
    BY <1>2 DEF NextBlock
  <2>2. At("stopped", f, n) \in Positions /\ At("stopped", f, n).pc = "stopped"
    BY DEF M, At, Messages, MessageKinds, Positions, UpStates
  <2>3. r.post = <<>> /\ r.up.pc = "stopped" /\ r \in Continuations
    BY <2>1, <2>2 DEF Continuations
  <2> QED BY <2>3 DEF Continues
<1>3. CASE ~(n >= Blocks) /\ ~stop
  <2>1. r = [post |-> <<>>, up |-> At("read", f, n + 1)]
    BY <1>3 DEF NextBlock
  <2>2. /\ At("read", f, n + 1) \in Positions /\ At("read", f, n + 1).pc = "read"
        /\ At("read", f, n + 1).f = f
    BY DEF M, At, Messages, MessageKinds, Positions, UpStates
  <2>3. r.post = <<>> /\ r.up.pc = "read" /\ r.up.f = f /\ r \in Continuations
    BY <2>1, <2>2 DEF Continuations
  <2> QED BY <2>3 DEF Continues
<1> QED BY <1>1, <1>2, <1>3

\* The end of a confirm wait goes on with the file, or past it without a block.
LEMMA AfterConfirmContinues ==
    ASSUME PanelType, NEW f \in Nat, NEW skip \in BOOLEAN, NEW n \in Nat, NEW stop \in BOOLEAN
    PROVE  /\ Continues(AfterConfirm(f, skip, n, stop), f)
           /\ skip => NoBlocks(AfterConfirm(f, skip, n, stop))
<1> DEFINE r == AfterConfirm(f, skip, n, stop)
<1>1. CASE stop
  <2>1. r = [post |-> <<>>, up |-> At("stopped", f, 0)]
    BY <1>1 DEF AfterConfirm
  <2>2. At("stopped", f, 0) \in Positions /\ At("stopped", f, 0).pc = "stopped"
    BY DEF M, At, Messages, MessageKinds, Positions, UpStates
  <2>3. r.post = <<>> /\ r.up.pc = "stopped" /\ r \in Continuations
    BY <2>1, <2>2 DEF Continuations
  <2> QED BY <2>3 DEF Continues, NoBlocks
<1>2. CASE ~stop /\ skip
  <2>1. r = NextFile(f + 1, stop) /\ f + 1 \in Nat \ {0}
    BY <1>2 DEF AfterConfirm
  <2> QED BY <2>1, NextFileContinues
<1>3. CASE ~stop /\ ~skip
  <2>1. r = NextBlock(f, n, stop)
    BY <1>3 DEF AfterConfirm
  <2> QED BY <1>3, <2>1, NextBlockContinues
<1> QED BY <1>1, <1>2, <1>3

\* The block loop of a stopped job stops.
LEMMA StopsNow ==
    ASSUME PanelType, NEW f \in Nat, NEW n \in Nat
    PROVE  NextBlock(f, n, TRUE).up.pc = "stopped"
<1>1. \A i, k \in Nat : At("stopped", i, k).pc = "stopped"
  BY DEF At
<1>2. NextFile(f + 1, TRUE).up.pc = "stopped"
  <2>1. NextFile(f + 1, TRUE).up = At("stopped", f + 1, 0)
    BY DEF NextFile
  <2>2. f + 1 \in Nat /\ 0 \in Nat
    OBVIOUS
  <2> QED BY <1>1, <2>1, <2>2
<1>3. CASE n >= Blocks
  <2>1. NextBlock(f, n, TRUE).up = NextFile(f + 1, TRUE).up
    BY <1>3 DEF NextBlock
  <2> QED BY <1>2, <2>1
<1>4. CASE ~(n >= Blocks)
  <2>1. NextBlock(f, n, TRUE).up = At("stopped", f, n)
    BY <1>4 DEF NextBlock
  <2> QED BY <1>1, <2>1
<1> QED BY <1>3, <1>4

\* The waiters of a job that ends are released: the upload stops, at most with the
\* rest of the file it was sending.
LEMMA Releases ==
    ASSUME PanelType
    PROVE  /\ ReleaseWaiters \in Continuations
           /\ \A j \in DOMAIN ReleaseWaiters.post :
                 /\ ReleaseWaiters.post[j].t \in {"block", "done"}
                 /\ ReleaseWaiters.post[j].f = up.f \/ ReleaseWaiters.post[j].t # "block"
                 /\ up.pc = "sent"
           /\ ReleaseWaiters.up = up \/ (ReleaseWaiters.up.pc = "stopped" /\ up.pc # "none")
<1> DEFINE r == ReleaseWaiters
<1>1. up \in Positions /\ up.f \in Nat /\ up.k \in Nat
  BY DEF PanelType, Positions
<1>2. CASE up.pc = "confirm"
  <2>1. r = [post |-> <<>>, up |-> At("stopped", up.f, 0)]
    BY <1>2 DEF ReleaseWaiters
  <2>2. At("stopped", up.f, 0) \in Positions /\ At("stopped", up.f, 0).pc = "stopped"
    BY <1>1 DEF At, Positions, UpStates
  <2>3. r \in Continuations /\ r.post = <<>> /\ r.up.pc = "stopped"
    BY <2>1, <2>2 DEF Continuations
  <2> QED BY <1>2, <2>3
<1>3. CASE up.pc = "sent"
  <2>1. r = NextBlock(up.f, up.k, TRUE)
    BY <1>3 DEF ReleaseWaiters
  <2>2. Continues(r, up.f) /\ r.up.pc = "stopped"
    BY <1>1, <2>1, NextBlockContinues, StopsNow
  <2>3. r \in Continuations /\ \A j \in DOMAIN r.post :
           /\ r.post[j].t \in {"block", "done", "digest"}
           /\ r.post[j].t = "block" => r.post[j].f = up.f
           /\ r.post[j].t = "digest" => r.up.pc = "confirm"
    BY <2>2 DEF Continues
  <2>4. r.up.pc = "stopped" /\ r.up.pc # "confirm"
    BY <2>2
  <2> QED BY <1>3, <2>3, <2>4
<1>4. CASE up.pc # "confirm" /\ up.pc # "sent"
  <2>1. r = [post |-> <<>>, up |-> up]
    BY <1>4 DEF ReleaseWaiters
  <2>2. r \in Continuations /\ r.post = <<>> /\ r.up = up
    BY <1>1, <2>1 DEF Continuations
  <2> QED BY <2>2
<1> QED BY <1>2, <1>3, <1>4

(***************************************************************************)
(* The kinds of step.                                                      *)
(***************************************************************************)

\* What the other steps have in common: the job stays of its kind and does not go
\* back to being none.
Steady == /\ kind' = kind /\ total' = total
          /\ status' = "none" => status = "none"

\* A step of the panel that settles no question: it may stop the upload, or go on
\* within the file that is being sent.
LEMMA Quietly ==
    ASSUME PanelType, UploadInv, Steady, UNCHANGED host,
           NEW p \in Seq(Messages), Post(p) \/ UNCHANGED toHost,
           \A j \in DOMAIN p : /\ p[j].t # "digest" /\ (p[j].t = "send" => kind = "download")
                               /\ p[j].t = "block" => kind = "upload" /\ p[j].f \in goAhead,
           toPanel' = toPanel \/ (toPanel # <<>> /\ toPanel' = Tail(toPanel)),
           \/ UNCHANGED <<deciding, asking>>
           \/ deciding' = 0 /\ asking' = FALSE
           \/ deciding' = deciding /\ kind = "download",
           goAhead \subseteq goAhead', up' \in Positions,
           \/ up' = up
           \/ up'.pc = "stopped" /\ up.pc # "none"
           \/ up.pc \in {"read", "sent", "drain"} /\ up'.pc \in {"read", "sent", "drain"}
              /\ up'.f = up.f
    PROVE  PanelType' /\ UploadInv'
<1>1. /\ toHost' \in Seq(Messages)
      /\ \A i \in DOMAIN toHost' :
            \/ i \in DOMAIN toHost /\ toHost'[i] = toHost[i]
            \/ \E j \in DOMAIN p : i = Len(toHost) + j /\ toHost'[i] = p[j]
  BY Posted DEF PanelType
<1>2. \A i \in DOMAIN toHost' :
         \/ i \in DOMAIN toHost /\ toHost'[i] = toHost[i]
         \/ /\ toHost'[i].t # "digest" /\ (toHost'[i].t = "send" => kind = "download")
            /\ toHost'[i].t = "block" => kind = "upload" /\ toHost'[i].f \in goAhead
  <2> SUFFICES ASSUME NEW i \in DOMAIN toHost', NEW j \in DOMAIN p, toHost'[i] = p[j]
               PROVE  /\ toHost'[i].t # "digest" /\ (toHost'[i].t = "send" => kind = "download")
                      /\ toHost'[i].t = "block" => kind = "upload" /\ toHost'[i].f \in goAhead
    BY <1>1
  <2> QED OBVIOUS
<1>3. toPanel' \in Seq(Messages)
  <2>1. toPanel \in Seq(Messages)
    BY DEF PanelType
  <2>2. CASE toPanel' = toPanel
    BY <2>1, <2>2
  <2>3. CASE toPanel # <<>> /\ toPanel' = Tail(toPanel)
    BY <2>1, <2>3, Received
  <2> QED BY <2>2, <2>3
<1>4. PanelType'
  BY <1>1, <1>3 DEF PanelType, Steady
<1>5. RoleInv'
  <2>1. kind = "download" => up' = up
    BY DEF UploadInv, RoleInv
  <2>2. status' = "none" => up' = up
    BY DEF UploadInv, RoleInv, Steady
  <2> QED BY <1>2, <2>1, <2>2 DEF UploadInv, RoleInv, NoSend, Steady
<1>6. ASSUME kind = "upload" PROVE TokenInv' /\ GoAheadInv'
  <2>1. TokenInv /\ GoAheadInv
    BY <1>6 DEF UploadInv
  <2>2. \A f : Waits(f) => Waits(f)'
    BY DEF Waits
  <2>3. \A i \in DOMAIN toHost' : Asks(i)' => /\ i \in DOMAIN toHost /\ Asks(i)
                                              /\ toHost'[i] = toHost[i]
    BY <1>2 DEF Asks
  <2>4. \E d \in {0, 1} : \A i \in DOMAIN toPanel' :
           i + d \in DOMAIN toPanel /\ toPanel'[i] = toPanel[i + d] /\ i \in Nat
    <3>1. CASE toPanel' = toPanel
      <4>1. \A i \in DOMAIN toPanel : i \in Nat /\ i + 0 = i
        BY DEF PanelType
      <4> QED BY <3>1, <4>1
    <3>2. CASE toPanel # <<>> /\ toPanel' = Tail(toPanel)
      BY <3>2, Received DEF PanelType
    <3> QED BY <3>1, <3>2
  <2>5. PICK d \in {0, 1} : \A i \in DOMAIN toPanel' :
           i + d \in DOMAIN toPanel /\ toPanel'[i] = toPanel[i + d] /\ i \in Nat
    BY <2>4
  <2>6. \A i \in DOMAIN toPanel' : Answers(i)' <=> Answers(i + d)
    BY <2>5 DEF Answers
  <2>7. \A i, j \in DOMAIN toPanel' : i + d = j + d => i = j
    BY <2>5
  <2>d. /\ deciding' = 0 \/ deciding' = deciding
        /\ asking' => deciding' # 0
    BY <1>6, <2>1 DEF TokenInv
  <2>8. TokenInv'
    BY <2>1, <2>2, <2>3, <2>5, <2>6, <2>7, <2>d DEF TokenInv
  <2>9. GoAheadInv'
    BY <1>2, <2>1, <2>5 DEF GoAheadInv, BlocksOnlyConfirmed
  <2> QED BY <2>8, <2>9
<1> QED BY <1>4, <1>5, <1>6 DEF UploadInv, Steady

\* A step that settles the open question, or meets none: uploadFiles goes on with
\* continuation r at file f, which has the go-ahead unless no block is sent.
LEMMA Advance ==
    ASSUME PanelType, UploadInv, Steady, UNCHANGED host, kind = "upload", status' # "none",
           NEW r, NEW f \in Nat, Continues(r, f), up' = r.up,
           NEW c \in Nat, NEW p \in Seq(Messages), Post(p),
           \A j \in DOMAIN p :
              \/ p[j].t \notin {"digest", "send", "block"}
              \/ \E i \in DOMAIN r.post : j = c + i /\ p[j] = r.post[i],
           f \in goAhead' \/ NoBlocks(r), goAhead \subseteq goAhead',
           \A i \in DOMAIN toHost : ~Asks(i),
           \A i \in DOMAIN toPanel' : ~Answers(i)',
           toPanel' \in Seq(Messages), deciding' = 0, ~asking'
    PROVE  PanelType' /\ UploadInv'
<1>1. /\ toHost' \in Seq(Messages)
      /\ \A i \in DOMAIN toHost' :
            \/ i \in DOMAIN toHost /\ toHost'[i] = toHost[i]
            \/ \E j \in DOMAIN p : i = Len(toHost) + j /\ toHost'[i] = p[j]
  BY Posted DEF PanelType
<1>2. \A i \in DOMAIN toHost' :
         \/ i \in DOMAIN toHost /\ toHost'[i] = toHost[i]
         \/ toHost'[i].t \notin {"digest", "send", "block"}
         \/ \E j \in DOMAIN r.post : i = Len(toHost) + (c + j) /\ toHost'[i] = r.post[j]
  <2> SUFFICES ASSUME NEW i \in DOMAIN toHost', NEW j \in DOMAIN p,
                      i = Len(toHost) + j, toHost'[i] = p[j]
               PROVE  \/ toHost'[i].t \notin {"digest", "send", "block"}
                      \/ \E h \in DOMAIN r.post :
                            i = Len(toHost) + (c + h) /\ toHost'[i] = r.post[h]
    BY <1>1
  <2> QED OBVIOUS
<1>3. r.up \in Positions /\ r.post \in Seq(Messages) /\ DOMAIN r.post \subseteq Nat
  <2>1. r.up \in Positions /\ r.post \in Seq(Messages)
    BY DEF Continues, Continuations
  <2> QED BY <2>1
<1>4. PanelType'
  BY <1>1, <1>3 DEF PanelType, Steady
<1>5. \A i \in DOMAIN toHost' : Asks(i)' =>
         \E j \in DOMAIN r.post : /\ i = Len(toHost) + (c + j) /\ r.post[j].t = "digest"
                                  /\ toHost'[i] = r.post[j]
  BY <1>2 DEF Asks
<1>6. TokenInv'
  <2>1. \A i, j \in DOMAIN toHost' : Asks(i)' /\ Asks(j)' => i = j
    BY <1>5 DEF Continues
  <2>2. \A i \in DOMAIN toHost' : Asks(i)' => Waits(toHost[i].f)' /\ toHost'[i].f # 0
    BY <1>5 DEF Continues, Waits
  <2> QED BY <2>1, <2>2 DEF TokenInv
<1>7. GoAheadInv'
  <2>1. \A i \in DOMAIN toPanel' : toPanel'[i].t # "confirm"
    BY DEF Answers
  <2>2. up'.pc \in {"read", "sent", "drain"} => up'.f \in goAhead'
    BY DEF Continues, NoBlocks
  <2>3. BlocksOnlyConfirmed'
    <3>1. \A j \in DOMAIN r.post : r.post[j].t = "block" => r.post[j].f \in goAhead'
      BY DEF Continues, NoBlocks
    <3> QED BY <1>2, <3>1 DEF UploadInv, GoAheadInv, BlocksOnlyConfirmed
  <2> QED BY <2>1, <2>2, <2>3 DEF GoAheadInv
<1>8. RoleInv'
  <2>1. NoSend'
    <3>1. \A j \in DOMAIN r.post : r.post[j].t # "send"
      BY DEF Continues
    <3> QED BY <1>2, <3>1 DEF UploadInv, RoleInv, NoSend
  <2> QED BY <2>1 DEF UploadInv, RoleInv, Steady
<1> QED BY <1>4, <1>6, <1>7, <1>8 DEF UploadInv

\* A step of the panel that posts nothing.
LEMMA Silently ==
    ASSUME PanelType, UploadInv, Steady, UNCHANGED <<host, toHost>>,
           toPanel' = toPanel \/ (toPanel # <<>> /\ toPanel' = Tail(toPanel)),
           \/ UNCHANGED <<deciding, asking>>
           \/ deciding' = deciding /\ kind = "download",
           goAhead' = goAhead, up' \in Positions,
           \/ up' = up
           \/ up'.pc = "stopped" /\ up.pc # "none"
           \/ up.pc \in {"read", "sent", "drain"} /\ up'.pc \in {"read", "sent", "drain"}
              /\ up'.f = up.f
    PROVE  PanelType' /\ UploadInv'
<1>1. PICK p \in Seq(Messages) : p = <<>> /\ DOMAIN p = {}
  <2>1. <<>> \in Seq(Messages) /\ DOMAIN <<>> = {}
    OBVIOUS
  <2> QED BY <2>1
<1> QED BY <1>1, Quietly

\* A step of the panel that posts one message.
LEMMA Saying ==
    ASSUME PanelType, UploadInv, Steady, UNCHANGED <<host, toPanel, deciding, asking, goAhead>>,
           NEW m \in Messages, Post(<<m>>), m.t # "digest", m.t = "send" => kind = "download",
           m.t = "block" => kind = "upload" /\ m.f \in goAhead,
           up' \in Positions,
           \/ up' = up
           \/ up'.pc = "stopped" /\ up.pc # "none"
           \/ up.pc \in {"read", "sent", "drain"} /\ up'.pc \in {"read", "sent", "drain"}
              /\ up'.f = up.f
    PROVE  PanelType' /\ UploadInv'
<1>1. PICK p \in Seq(Messages) : p = <<m>> /\ DOMAIN p = {1} /\ p[1] = m
  BY Single
<1>2. \A j \in DOMAIN p : /\ p[j].t # "digest" /\ (p[j].t = "send" => kind = "download")
                          /\ p[j].t = "block" => kind = "upload" /\ p[j].f \in goAhead
  BY <1>1
<1>3. Post(p)
  BY <1>1
<1> QED BY <1>2, <1>3, Quietly

\* A step of the device that answers no question.
LEMMA HostQuietly ==
    ASSUME PanelType, UploadInv, Steady, UNCHANGED <<up, deciding, asking, status>>,
           goAhead \subseteq goAhead',
           toHost' \in {toHost, <<>>} \/ (toHost # <<>> /\ toHost' = Tail(toHost)),
           NEW p \in Seq(Messages), toPanel' = toPanel \/ toPanel' = toPanel \o p,
           kind = "upload" => \A j \in DOMAIN p : p[j].t \notin {"digest", "confirm", "skip"},
           host' \in [pc : HostStates, f : Nat, k : Nat],
           kind = "upload" => host'.pc \in {"idle", "receive", "gone"}
    PROVE  PanelType' /\ UploadInv'
<1>1. /\ toPanel' \in Seq(Messages)
      /\ \A i \in DOMAIN toPanel' : \/ i \in DOMAIN toPanel /\ toPanel'[i] = toPanel[i]
                                    \/ \E j \in DOMAIN p : toPanel'[i] = p[j]
  <2>1. CASE toPanel' = toPanel
    BY <2>1 DEF PanelType
  <2>2. CASE toPanel' = toPanel \o p
    BY <2>2, Joined DEF PanelType
  <2> QED BY <2>1, <2>2
<1>2. /\ toHost' \in Seq(Messages)
      /\ \E d \in {0, 1} : \A i \in DOMAIN toHost' :
            i + d \in DOMAIN toHost /\ toHost'[i] = toHost[i + d] /\ i \in Nat
  <2>1. CASE toHost' = toHost
    <3>1. \A i \in DOMAIN toHost : i \in Nat /\ i + 0 = i
      BY DEF PanelType
    <3> QED BY <2>1, <3>1 DEF PanelType
  <2>2. CASE toHost # <<>> /\ toHost' = Tail(toHost)
    BY <2>2, Received DEF PanelType
  <2>3. CASE toHost' = <<>>
    BY <2>3
  <2> QED BY <2>1, <2>2, <2>3
<1>3. PICK d \in {0, 1} : \A i \in DOMAIN toHost' :
            i + d \in DOMAIN toHost /\ toHost'[i] = toHost[i + d] /\ i \in Nat
  BY <1>2
<1>4. PanelType'
  BY <1>1, <1>2 DEF PanelType, Steady
<1>5. RoleInv'
  BY <1>3 DEF UploadInv, RoleInv, NoSend, Steady
<1>6. ASSUME kind = "upload" PROVE TokenInv' /\ GoAheadInv'
  <2>1. TokenInv /\ GoAheadInv
    BY <1>6 DEF UploadInv
  <2>2. \A i \in DOMAIN toPanel' : Answers(i)' => /\ i \in DOMAIN toPanel /\ Answers(i)
                                                  /\ toPanel'[i] = toPanel[i]
    BY <1>1, <1>6 DEF Answers
  <2>3. \A i \in DOMAIN toHost' : Asks(i)' <=> Asks(i + d)
    BY <1>3 DEF Asks
  <2>4. \A i, j \in DOMAIN toHost' : i + d = j + d => i = j
    BY <1>3
  <2>5. \A f : Waits(f)' <=> Waits(f)
    BY DEF Waits
  <2>6. TokenInv'
    BY <1>3, <2>1, <2>2, <2>3, <2>4, <2>5 DEF TokenInv
  <2>7. \A i \in DOMAIN toPanel' : toPanel'[i].t = "confirm" => toPanel'[i].f \in goAhead'
    <3>1. \A i \in DOMAIN toPanel' : toPanel'[i].t = "confirm" => Answers(i)'
      BY DEF Answers
    <3> QED BY <2>1, <2>2, <3>1 DEF GoAheadInv
  <2>8. GoAheadInv'
    BY <1>3, <2>1, <2>7 DEF GoAheadInv, BlocksOnlyConfirmed
  <2> QED BY <2>6, <2>8
<1> QED BY <1>4, <1>5, <1>6 DEF UploadInv, Steady

\* The device takes the open question and answers it.
LEMMA HostAnswers ==
    ASSUME PanelType, UploadInv, Steady, UNCHANGED <<up, deciding, asking, status, host>>,
           kind = "upload", toHost # <<>>, Head(toHost).t = "digest", toHost' = Tail(toHost),
           NEW m \in Messages, m.t \in {"digest", "confirm", "skip"}, m.f = Head(toHost).f,
           toPanel' = Append(toPanel, m), goAhead \subseteq goAhead',
           m.t = "confirm" => m.f \in goAhead'
    PROVE  PanelType' /\ UploadInv'
<1>1. toHost \in Seq(Messages) /\ toPanel \in Seq(Messages) /\ TokenInv /\ GoAheadInv
  BY DEF PanelType, UploadInv
<1>2. /\ toHost' \in Seq(Messages) /\ Head(toHost) = toHost[1] /\ 1 \in DOMAIN toHost
      /\ \A i \in DOMAIN toHost' : /\ i + 1 \in DOMAIN toHost /\ toHost'[i] = toHost[i + 1]
                                   /\ i + 1 # 1
  BY <1>1, Received
<1>3. /\ toPanel' \in Seq(Messages)
      /\ \A i \in DOMAIN toPanel' : \/ i \in DOMAIN toPanel /\ toPanel'[i] = toPanel[i]
                                    \/ i = Len(toPanel) + 1 /\ toPanel'[i] = m
  BY <1>1
<1>4. PanelType'
  BY <1>2, <1>3 DEF PanelType, Steady
<1>5. Asks(1) /\ deciding = 0 /\ Waits(m.f) /\ m.f # 0
  BY <1>1, <1>2 DEF Asks, TokenInv
<1>6. \A i \in DOMAIN toHost' : ~Asks(i)'
  <2>1. \A i \in DOMAIN toHost' : Asks(i)' => Asks(i + 1)
    BY <1>2 DEF Asks
  <2> QED BY <1>1, <1>2, <1>5, <2>1 DEF TokenInv
<1>7. \A i \in DOMAIN toPanel' : Answers(i)' => i = Len(toPanel) + 1 /\ toPanel'[i] = m
  <2>1. \A i \in DOMAIN toPanel : ~Answers(i)
    BY <1>1, <1>2, <1>5 DEF TokenInv
  <2>2. \A i \in DOMAIN toPanel' : i \in DOMAIN toPanel /\ toPanel'[i] = toPanel[i] => ~Answers(i)'
    BY <2>1 DEF Answers
  <2> QED BY <1>3, <2>2
<1>8. TokenInv'
  <2>1. Waits(m.f)'
    BY <1>5 DEF Waits
  <2>2. \A i \in DOMAIN toPanel' : Answers(i)' => Waits(toPanel[i].f)' /\ toPanel'[i].f # 0
    BY <1>5, <1>7, <2>1 DEF Waits
  <2>3. \A i, j \in DOMAIN toPanel' : Answers(i)' /\ Answers(j)' => i = j
    BY <1>7
  <2> QED BY <1>1, <1>5, <1>6, <2>2, <2>3 DEF TokenInv
<1>9. GoAheadInv'
  <2>1. \A i \in DOMAIN toPanel' : toPanel'[i].t = "confirm" => toPanel'[i].f \in goAhead'
    BY <1>1, <1>3 DEF GoAheadInv
  <2> QED BY <1>1, <1>2, <2>1 DEF GoAheadInv, BlocksOnlyConfirmed
<1>10. RoleInv'
  BY <1>2 DEF UploadInv, RoleInv, NoSend, Steady
<1> QED BY <1>4, <1>8, <1>9, <1>10 DEF UploadInv

\* onFtDigest takes over the question of the device.
LEMMA DigestKept ==
    ASSUME PanelType, UploadInv, DigestArrives
    PROVE  PanelType' /\ UploadInv'
<1>1. /\ toPanel # <<>> /\ toPanel' = Tail(toPanel) /\ Head(toPanel).t = "digest"
      /\ deciding' = Head(toPanel).f
      /\ UNCHANGED <<kind, total, toHost, up, host, goAhead>>
      /\ status' = "none" => status = "none"
  BY DEF DigestArrives, Arrives, Msg, device, history
<1>2. /\ toPanel' \in Seq(Messages) /\ Head(toPanel) = toPanel[1] /\ 1 \in DOMAIN toPanel
      /\ Head(toPanel) \in Messages
      /\ \A i \in DOMAIN toPanel' : /\ i + 1 \in DOMAIN toPanel /\ toPanel'[i] = toPanel[i + 1]
                                    /\ i + 1 # 1
  BY <1>1, Received DEF PanelType
<1>3. deciding' \in Nat
  BY <1>1, <1>2 DEF Messages
<1>4. PanelType'
  BY <1>1, <1>2, <1>3 DEF PanelType
<1>5. RoleInv'
  BY <1>1 DEF UploadInv, RoleInv, NoSend
<1>6. ASSUME kind = "upload" PROVE TokenInv' /\ GoAheadInv'
  <2>1. TokenInv /\ GoAheadInv
    BY <1>6 DEF UploadInv
  <2>2. Answers(1) /\ deciding' = toPanel[1].f /\ Waits(deciding') /\ deciding' # 0
    BY <1>1, <1>2, <2>1 DEF Answers, TokenInv
  <2>3. \A i \in DOMAIN toPanel' : ~Answers(i)'
    <3>1. \A i \in DOMAIN toPanel' : Answers(i)' => Answers(i + 1)
      BY <1>2 DEF Answers
    <3> QED BY <1>2, <2>1, <2>2, <3>1 DEF TokenInv
  <2>4. \A i \in DOMAIN toHost' : ~Asks(i)'
    <3>1. \A i \in DOMAIN toHost : ~Asks(i)
      BY <1>2, <2>1, <2>2 DEF TokenInv
    <3> QED BY <1>1, <3>1 DEF Asks
  <2>5. Waits(deciding)'
    BY <1>1, <2>2 DEF Waits
  <2>6. TokenInv'
    BY <2>2, <2>3, <2>4, <2>5 DEF TokenInv
  <2>7. GoAheadInv'
    BY <1>1, <1>2, <2>1 DEF GoAheadInv, BlocksOnlyConfirmed
  <2> QED BY <2>6, <2>7
<1> QED BY <1>1, <1>4, <1>5, <1>6 DEF UploadInv

(***************************************************************************)
(* The operations.                                                         *)
(***************************************************************************)

\* The end of onFtDigest: the decision goes to the device and, if uploadFiles still
\* waits for it, the upload goes on with the file or past it.
LEMMA ConfirmKept ==
    ASSUME PanelType, UploadInv, Steady, UNCHANGED <<host, toPanel>>, status' = status,
           kind = "upload" => deciding # 0, NEW skip \in BOOLEAN, Confirmed(skip)
    PROVE  PanelType' /\ UploadInv'
<1> DEFINE m == M("confirm", deciding, IF skip THEN 1 ELSE 0)
           stop == JobStopped(status, conn)
           r == AfterConfirm(up.f, skip, 0, stop)
<1>1. /\ m \in Messages /\ m.t = "confirm" /\ stop \in BOOLEAN /\ up \in Positions
      /\ up.f \in Nat /\ toPanel \in Seq(Messages)
  BY DEF PanelType, Positions, M, Messages, MessageKinds, JobStopped
<1>2. deciding' = 0 /\ asking' = FALSE /\ goAhead \subseteq goAhead'
  BY DEF Confirmed
<1>3. CASE up.pc = "confirm"
  <2>1. kind = "upload" /\ status # "none" /\ TokenInv
    BY <1>3 DEF UploadInv, RoleInv, PanelType
  <2>2. Continues(r, up.f) /\ (skip => NoBlocks(r))
    BY <1>1, AfterConfirmContinues
  <2>3. r.post \in Seq(Messages)
    BY <2>2 DEF Continues, Continuations
  <2>4. Post(<<m>> \o r.post) /\ up' = r.up
    BY <1>3 DEF Confirmed
  <2>s. PICK s \in Seq(Messages) : s = <<m>> /\ DOMAIN s = {1} /\ s[1] = m /\ Len(s) = 1
    BY <1>1, Single
  <2>y. PICK y \in Seq(Messages) : y = r.post
    BY <2>3
  <2>5. PICK p : p = s \o y
    OBVIOUS
  <2>p. /\ p \in Seq(Messages)
        /\ \A i \in DOMAIN p : p[i] = s[1] \/ \E j \in DOMAIN y : i = 1 + j /\ p[i] = y[j]
    BY <2>s, <2>5, Before
  <2>6. \A j \in DOMAIN p :
           \/ p[j].t \notin {"digest", "send", "block"}
           \/ \E i \in DOMAIN r.post : j = 1 + i /\ p[j] = r.post[i]
    BY <1>1, <2>s, <2>y, <2>p
  <2>7. up.f \in goAhead' \/ NoBlocks(r)
    <3>1. up.f = deciding
      BY <1>3, <2>1 DEF TokenInv, Waits
    <3> QED BY <2>1, <2>2, <3>1 DEF Confirmed
  <2>8. (\A i \in DOMAIN toHost : ~Asks(i)) /\ (\A i \in DOMAIN toPanel : ~Answers(i))
    BY <2>1 DEF TokenInv
  <2>9. \A i \in DOMAIN toPanel' : ~Answers(i)'
    BY <2>8 DEF Answers
  <2>10. Post(p)
    BY <2>4, <2>5, <2>s, <2>y
  <2>11. 1 \in Nat /\ toPanel' \in Seq(Messages) /\ status' # "none"
    BY <1>1, <2>1
  <2> HIDE DEF r
  <2> QED BY <1>1, <1>2, <2>1, <2>2, <2>4, <2>6, <2>7, <2>8, <2>9, <2>10, <2>11, <2>p, Advance
<1>4. CASE up.pc # "confirm"
  <2>1. Post(<<m>> \o <<>>) /\ up' = up
    BY <1>4 DEF Confirmed
  <2>2. PICK p \in Seq(Messages) : p = <<m>> /\ DOMAIN p = {1} /\ p[1] = m
    BY <1>1, Single
  <2>3. <<m>> \o <<>> = p
    BY <2>2
  <2>4. \A j \in DOMAIN p : /\ p[j].t \notin {"digest", "send"}
                            /\ p[j].t = "block" => kind = "upload" /\ p[j].f \in goAhead
    BY <1>1, <2>2
  <2>5. Post(p) /\ up' \in Positions
    BY <1>1, <2>1, <2>3
  <2> QED BY <1>2, <2>1, <2>4, <2>5, Quietly
<1> QED BY <1>3, <1>4

\* Waiters released together with at most a cancel.
LEMMA ReleaseKept ==
    ASSUME PanelType, UploadInv, Steady, UNCHANGED host, goAhead' = goAhead,
           toPanel' = toPanel \/ (toPanel # <<>> /\ toPanel' = Tail(toPanel)),
           \/ UNCHANGED <<deciding, asking>>
           \/ deciding' = 0 /\ asking' = FALSE,
           up' = ReleaseWaiters.up,
           \/ Post(<<M("cancel", 0, 0)>> \o ReleaseWaiters.post)
           \/ Post(ReleaseWaiters.post)
           \/ UNCHANGED toHost
    PROVE  PanelType' /\ UploadInv'
<1> DEFINE m == M("cancel", 0, 0)
           r == ReleaseWaiters
<1>1. /\ r \in Continuations
      /\ \A j \in DOMAIN r.post : /\ r.post[j].t \in {"block", "done"}
                                  /\ r.post[j].f = up.f \/ r.post[j].t # "block"
                                  /\ up.pc = "sent"
      /\ r.up = up \/ (r.up.pc = "stopped" /\ up.pc # "none")
  BY Releases
<1> HIDE DEF r
<1>2. r.post \in Seq(Messages) /\ r.up \in Positions
  BY <1>1 DEF Continuations
<1>3. up.pc = "sent" => kind = "upload" /\ up.f \in goAhead
  BY DEF UploadInv, RoleInv, GoAheadInv, PanelType
<1>4. \A j \in DOMAIN r.post :
         /\ r.post[j].t \notin {"digest", "send"}
         /\ r.post[j].t = "block" => kind = "upload" /\ r.post[j].f \in goAhead
  BY <1>1, <1>3
<1>5. m \in Messages /\ m.t = "cancel"
  BY DEF M, Messages, MessageKinds
<1>6. \E p \in Seq(Messages) :
         /\ Post(p) \/ UNCHANGED toHost
         /\ \A j \in DOMAIN p : /\ p[j].t \notin {"digest", "send"}
                                /\ p[j].t = "block" => kind = "upload" /\ p[j].f \in goAhead
  <2>1. CASE Post(<<m>> \o r.post)
    <3>s. PICK s \in Seq(Messages) : s = <<m>> /\ DOMAIN s = {1} /\ s[1] = m /\ Len(s) = 1
      BY <1>5, Single
    <3>y. PICK y \in Seq(Messages) : y = r.post
      BY <1>2
    <3>1. PICK p : p = s \o y
      OBVIOUS
    <3>p. /\ p \in Seq(Messages)
          /\ \A i \in DOMAIN p : p[i] = s[1] \/ \E j \in DOMAIN y : i = 1 + j /\ p[i] = y[j]
      BY <3>s, <3>1, Before
    <3>2. \A j \in DOMAIN p : /\ p[j].t \notin {"digest", "send"}
                              /\ p[j].t = "block" => kind = "upload" /\ p[j].f \in goAhead
      BY <1>4, <1>5, <3>s, <3>y, <3>p
    <3>3. Post(p)
      BY <2>1, <3>1, <3>s, <3>y
    <3> QED BY <3>2, <3>3, <3>p
  <2>2. CASE Post(r.post)
    BY <1>2, <1>4, <2>2
  <2>3. CASE UNCHANGED toHost
    BY <1>2, <1>4, <2>3
  <2> QED BY <2>1, <2>2, <2>3 DEF r
<1>7. PICK p \in Seq(Messages) :
         /\ Post(p) \/ UNCHANGED toHost
         /\ \A j \in DOMAIN p : /\ p[j].t \notin {"digest", "send"}
                                /\ p[j].t = "block" => kind = "upload" /\ p[j].f \in goAhead
  BY <1>6
<1>8. up' = r.up
  BY DEF r
<1> QED BY <1>1, <1>2, <1>7, <1>8, Quietly

\* onEvent, but for digests and confirms: the upload at most stops.
LEMMA EventsKept ==
    ASSUME PanelType, UploadInv,
           DirArrives \/ BlockArrives \/ DoneArrives \/ ErrorArrives \/ ClosedArrives
    PROVE  PanelType' /\ UploadInv'
<1>0. up \in Positions
  BY DEF PanelType
<1>1. CASE DirArrives
  BY <1>0, <1>1, Silently DEF DirArrives, Arrives, Steady, device, history, local
<1>2. CASE BlockArrives
  BY <1>0, <1>2, Silently DEF BlockArrives, Arrives, Steady, job, device, history
<1>3. CASE DoneArrives
  BY <1>0, <1>3, Silently DEF DoneArrives, Arrives, Steady, device, history
<1>4. CASE ErrorArrives
  <2>1. CASE Arrives("skipped")
    BY <1>0, <1>4, <2>1, Silently DEF ErrorArrives, Arrives, Steady, device, history
  <2>2. CASE ~Arrives("skipped")
    BY <1>4, <2>2, ReleaseKept DEF ErrorArrives, Arrives, Steady, device, history
  <2> QED BY <2>1, <2>2
<1>5. CASE ClosedArrives
  BY <1>0, <1>5, Silently, ReleaseKept DEF ClosedArrives, Arrives, Teardown, Steady, device, history
<1> QED BY <1>1, <1>2, <1>3, <1>4, <1>5

\* 'ftSendConfirm': the upload goes on with the file the device confirmed.
LEMMA SendConfirmKept ==
    ASSUME PanelType, UploadInv, SendConfirmArrives
    PROVE  PanelType' /\ UploadInv'
<1>1. /\ toPanel # <<>> /\ toPanel' = Tail(toPanel) /\ Head(toPanel).t \in {"confirm", "skip"}
      /\ UNCHANGED <<kind, total, conn, status, deciding, asking, host, goAhead>>
  BY DEF SendConfirmArrives, Arrives, job, device, history
<1>2. /\ toPanel' \in Seq(Messages) /\ Head(toPanel) = toPanel[1] /\ 1 \in DOMAIN toPanel
      /\ Head(toPanel) \in Messages
      /\ \A i \in DOMAIN toPanel' : /\ i + 1 \in DOMAIN toPanel /\ toPanel'[i] = toPanel[i + 1]
                                    /\ i + 1 # 1
  BY <1>1, Received DEF PanelType
<1>3. Steady /\ up \in Positions
  BY <1>1 DEF Steady, PanelType
<1>4. CASE up.pc = "confirm"
  <2> DEFINE skip == Msg.t = "skip"
             r == AfterConfirm(up.f, skip, Msg.k, JobStopped(status, conn))
  <2>1. kind = "upload" /\ status # "none" /\ TokenInv /\ GoAheadInv
    BY <1>4 DEF UploadInv, RoleInv, PanelType
  <2>2. Post(r.post) /\ up' = r.up
    BY <1>4 DEF SendConfirmArrives
  <2>3. up.f \in Nat /\ Msg.k \in Nat /\ skip \in BOOLEAN /\ JobStopped(status, conn) \in BOOLEAN
    BY <1>2, <1>3 DEF Messages, Positions, Msg, JobStopped
  <2>4. Continues(r, up.f) /\ (skip => NoBlocks(r))
    BY <2>3, AfterConfirmContinues
  <2>5. Answers(1) /\ up.f = Msg.f /\ deciding = 0 /\ ~asking
    BY <1>1, <1>2, <1>4, <2>1 DEF Answers, TokenInv, Waits, Msg
  <2>6. up.f \in goAhead \/ NoBlocks(r)
    <3>1. ~skip => Msg.f \in goAhead
      BY <1>1, <1>2, <2>1 DEF GoAheadInv, Msg
    <3> QED BY <2>4, <2>5, <3>1
  <2>7. \A i \in DOMAIN toHost : ~Asks(i)
    BY <1>2, <2>1, <2>5 DEF TokenInv
  <2>8. \A i \in DOMAIN toPanel' : ~Answers(i)'
    <3>1. \A i \in DOMAIN toPanel' : Answers(i)' => Answers(i + 1)
      BY <1>2 DEF Answers
    <3> QED BY <1>2, <2>1, <2>5, <3>1 DEF TokenInv
  <2> HIDE DEF r
  <2>9. PICK p \in Seq(Messages) : p = r.post
    BY <2>4 DEF Continues, Continuations
  <2>10. \A j \in DOMAIN p : \/ p[j].t \notin {"digest", "send", "block"}
                             \/ \E i \in DOMAIN r.post : j = 0 + i /\ p[j] = r.post[i]
    <3>1. \A j \in DOMAIN p : j = 0 + j
      OBVIOUS
    <3> QED BY <2>9, <3>1
  <2>11. Post(p) /\ 0 \in Nat /\ status' # "none" /\ deciding' = 0 /\ ~asking'
         /\ (up.f \in goAhead' \/ NoBlocks(r)) /\ goAhead \subseteq goAhead'
    BY <1>1, <2>1, <2>2, <2>5, <2>6, <2>9
  <2> QED BY <1>1, <1>2, <1>3, <2>1, <2>2, <2>3, <2>4, <2>7, <2>8, <2>10, <2>11, Advance
<1>5. CASE up.pc # "confirm"
  <2>1. Post(<<>>) /\ up' = up
    BY <1>5 DEF SendConfirmArrives
  <2>2. toHost' = toHost
    BY <2>1 DEF Post, PanelType
  <2> QED BY <1>1, <1>3, <2>1, <2>2, Silently
<1> QED BY <1>4, <1>5

\* The block loop of a file with the go-ahead.
LEMMA LoopKept ==
    ASSUME PanelType, UploadInv, up.pc \in {"sent", "drain"},
           UNCHANGED <<job, toPanel, host, goAhead>>,
           Post(NextBlock(up.f, up.k, JobStopped(status, conn)).post),
           up' = NextBlock(up.f, up.k, JobStopped(status, conn)).up
    PROVE  PanelType' /\ UploadInv'
<1> DEFINE r == NextBlock(up.f, up.k, JobStopped(status, conn))
<1>1. /\ kind = "upload" /\ status # "none" /\ TokenInv /\ GoAheadInv /\ up.f \in Nat
      /\ up.k \in Nat /\ toPanel \in Seq(Messages)
  BY DEF UploadInv, RoleInv, PanelType, Positions
<1>2. Steady /\ UNCHANGED <<status, deciding, asking>>
  BY DEF Steady, job
<1>3. Continues(r, up.f)
  <2>1. JobStopped(status, conn) \in BOOLEAN
    BY DEF JobStopped
  <2> QED BY <1>1, <2>1, NextBlockContinues
<1>4. \A f : ~Waits(f)
  BY DEF Waits
<1>5. /\ \A i \in DOMAIN toHost : ~Asks(i)
      /\ \A i \in DOMAIN toPanel : ~Answers(i)
      /\ deciding = 0 /\ ~asking
  BY <1>1, <1>4 DEF TokenInv
<1>6. \A i \in DOMAIN toPanel' : ~Answers(i)'
  BY <1>5 DEF Answers
<1> HIDE DEF r
<1>7. PICK p \in Seq(Messages) : p = r.post
  BY <1>3 DEF Continues, Continuations
<1>8. \A j \in DOMAIN p : \/ p[j].t \notin {"digest", "send", "block"}
                          \/ \E i \in DOMAIN r.post : j = 0 + i /\ p[j] = r.post[i]
  <2>1. \A j \in DOMAIN p : j = 0 + j
    OBVIOUS
  <2> QED BY <1>7, <2>1
<1>9. Post(p) /\ up' = r.up
  BY <1>7 DEF r
<1>10. up.f \in goAhead' /\ goAhead \subseteq goAhead' /\ 0 \in Nat /\ status' # "none"
       /\ deciding' = 0 /\ ~asking' /\ toPanel' \in Seq(Messages)
  BY <1>1, <1>2, <1>5 DEF GoAheadInv
<1> QED BY <1>1, <1>2, <1>3, <1>5, <1>6, <1>8, <1>9, <1>10, Advance

\* uploadFiles between two of its awaits.
LEMMA UploadKept ==
    ASSUME PanelType, UploadInv, Upload
    PROVE  PanelType' /\ UploadInv'
<1>0. up \in Positions /\ up.f \in Nat /\ up.k \in Nat
  BY DEF PanelType, Positions
<1>1. CASE BlockRead
  <2> DEFINE m == M("block", up.f, up.k)
  <2>1. m \in Messages /\ m.t = "block" /\ m.f = up.f
    BY <1>0 DEF M, Messages, MessageKinds
  <2>2. up.pc = "read" /\ up' = At("sent", up.f, up.k) /\ Post(<<m>>)
        /\ UNCHANGED <<kind, total, status, host, toPanel, deciding, asking, goAhead>>
    BY <1>1 DEF BlockRead, job, device, history
  <2>3. up' \in Positions /\ up'.pc = "sent" /\ up'.f = up.f
    BY <1>0, <2>2 DEF At, Positions, UpStates
  <2>4. kind = "upload" /\ up.f \in goAhead
    BY <2>2 DEF UploadInv, RoleInv, GoAheadInv, PanelType
  <2>5. Steady
    BY <2>2 DEF Steady
  <2> HIDE DEF m
  <2> QED BY <2>1, <2>2, <2>3, <2>4, <2>5, Saying
<1>2. CASE ReadFails
  <2> DEFINE m == M("error", 0, 0)
  <2>1. m \in Messages /\ m.t = "error"
    BY DEF M, Messages, MessageKinds
  <2>2. /\ up.pc = "read" /\ up' = At("stopped", up.f, up.k)
        /\ UNCHANGED <<kind, total, host, toPanel, deciding, asking, goAhead>>
        /\ status' = "none" => status = "none"
        /\ UNCHANGED toHost \/ Post(<<m>>)
    BY <1>2 DEF ReadFails, device, history
  <2>3. up' \in Positions /\ up'.pc = "stopped" /\ up.pc # "none"
    BY <1>0, <2>2 DEF At, Positions, UpStates
  <2>4. Steady
    BY <2>2 DEF Steady
  <2> HIDE DEF m
  <2>5. CASE UNCHANGED toHost
    BY <2>2, <2>3, <2>4, <2>5, Silently
  <2>6. CASE Post(<<m>>)
    BY <2>1, <2>2, <2>3, <2>4, <2>6, Saying
  <2> QED BY <2>2, <2>5, <2>6
<1>3. CASE Sent
  <2>1. /\ up.pc = "sent" /\ UNCHANGED <<job, toPanel, host, goAhead>>
        /\ UNCHANGED <<kind, total, status, deciding, asking>>
    BY <1>3 DEF Sent, device, history, job
  <2>2. CASE up' = [up EXCEPT !.pc = "drain"] /\ UNCHANGED toHost
    <3>1. up' \in Positions /\ up'.pc = "drain" /\ up'.f = up.f
      BY <1>0, <2>2 DEF Positions, UpStates
    <3>2. Steady
      BY <2>1 DEF Steady
    <3> QED BY <2>1, <2>2, <3>1, <3>2, Silently
  <2>3. CASE ~(up' = [up EXCEPT !.pc = "drain"] /\ UNCHANGED toHost)
    <3>1. /\ Post(NextBlock(up.f, up.k, JobStopped(status, conn)).post)
          /\ up' = NextBlock(up.f, up.k, JobStopped(status, conn)).up
      BY <1>3, <2>3 DEF Sent
    <3> QED BY <2>1, <3>1, LoopKept
  <2> QED BY <2>2, <2>3
<1>4. CASE Drained
  <2>1. /\ up.pc = "drain" /\ UNCHANGED <<job, toPanel, host, goAhead>>
        /\ Post(NextBlock(up.f, up.k, JobStopped(status, conn)).post)
        /\ up' = NextBlock(up.f, up.k, JobStopped(status, conn)).up
    BY <1>4 DEF Drained, device, history
  <2> QED BY <2>1, LoopKept
<1> QED BY <1>1, <1>2, <1>3, <1>4 DEF Upload

\* localTargetExists, the policy, the dialog.
LEMMA DecisionKept ==
    ASSUME PanelType, UploadInv, TargetChecked \/ \E c \in Choices : Decide(c[1], c[2])
    PROVE  PanelType' /\ UploadInv'
<1>0. up \in Positions
  BY DEF PanelType
<1>1. CASE TargetChecked
  <2>1. /\ Steady /\ UNCHANGED <<host, toPanel>> /\ status' = status /\ deciding # 0
        /\ UNCHANGED <<kind, total>>
    BY <1>1 DEF TargetChecked, Steady, device
  <2>2. ASSUME NEW skip \in BOOLEAN, Confirmed(skip) PROVE PanelType' /\ UploadInv'
    BY <2>1, <2>2, ConfirmKept
  <2>3. CASE Confirmed(FALSE)
    BY <2>2, <2>3
  <2>4. CASE Confirmed(policy = "skip")
    <3>1. (policy = "skip") \in BOOLEAN
      OBVIOUS
    <3> QED BY <2>2, <2>4, <3>1
  <2>5. CASE kind = "download" /\ UNCHANGED <<deciding, toHost, up, goAhead>>
    BY <1>0, <2>1, <2>5, Silently
  <2> QED BY <1>1, <2>3, <2>4, <2>5 DEF TargetChecked
<1>2. ASSUME NEW c \in Choices, Decide(c[1], c[2]) PROVE PanelType' /\ UploadInv'
  <2>1. /\ asking /\ UNCHANGED <<kind, total, host, toPanel>>
        /\ kind = "upload" => deciding # 0
    BY <1>2 DEF Decide, device, UploadInv, TokenInv
  <2>2. CASE c[1] # "cancel"
    <3>1. Confirmed(c[1] = "skip") /\ status' = status
      BY <1>2, <2>2 DEF Decide
    <3>2. (c[1] = "skip") \in BOOLEAN /\ Steady
      BY <2>1, <3>1 DEF Steady
    <3> QED BY <2>1, <3>1, <3>2, ConfirmKept
  <2>3. CASE c[1] = "cancel"
    <3>1. /\ deciding' = 0 /\ asking' = FALSE /\ goAhead' = goAhead
          /\ up' = ReleaseWaiters.up
          /\ status' = "none" => status = "none"
          /\ UNCHANGED toHost \/ Post(<<M("cancel", 0, 0)>> \o ReleaseWaiters.post)
      BY <1>2, <2>3 DEF Decide, CancelJob
    <3>2. Steady
      BY <2>1, <3>1 DEF Steady
    <3> QED BY <2>1, <3>1, <3>2, ReleaseKept
  <2> QED BY <2>2, <2>3
<1> QED BY <1>1, <1>2

\* The write chain of a download says at most "cancel".
LEMMA WriteChainKept ==
    ASSUME PanelType, UploadInv, WriteChain
    PROVE  PanelType' /\ UploadInv'
<1> DEFINE m == M("cancel", 0, 0)
<1>1. /\ UNCHANGED <<kind, total, host, toPanel, deciding, asking, goAhead, up>>
      /\ status' = "none" => status = "none"
      /\ UNCHANGED toHost \/ Post(<<m>>)
  <2>1. CASE ItemStarts
    BY <2>1 DEF ItemStarts, AfterClose, chans, device, history
  <2>2. ASSUME NEW ok \in BOOLEAN, Opened(ok) PROVE <1>1!:
    BY <2>2 DEF Opened, WriteFails, device, history
  <2>3. ASSUME NEW ok \in BOOLEAN, Written(ok) PROVE <1>1!:
    BY <2>3 DEF Written, WriteFails, device, history
  <2>4. ASSUME NEW ok \in BOOLEAN, FileClosed(ok) PROVE <1>1!:
    BY <2>4 DEF FileClosed, AfterClose, chans, device, history
  <2> QED BY <2>1, <2>2, <2>3, <2>4 DEF WriteChain
<1>2. m \in Messages /\ m.t = "cancel"
  BY DEF M, Messages, MessageKinds
<1>3. Steady /\ up' \in Positions
  BY <1>1 DEF Steady, PanelType
<1> HIDE DEF m
<1>4. CASE UNCHANGED toHost
  BY <1>1, <1>3, <1>4, Silently
<1>5. CASE Post(<<m>>)
  BY <1>1, <1>2, <1>3, <1>5, Saying
<1> QED BY <1>1, <1>4, <1>5

\* The user's and the connection's other steps.
LEMMA UserKept ==
    ASSUME PanelType, UploadInv, StartDownload \/ UserCancels \/ WorkerCrashes \/ Reopen
    PROVE  PanelType' /\ UploadInv'
<1>0. up \in Positions
  BY DEF PanelType
<1>1. CASE StartDownload
  <2> DEFINE m == M("send", 0, 0)
  <2>1. m \in Messages /\ m.t = "send"
    BY DEF M, Messages, MessageKinds
  <2>2. /\ kind = "download" /\ Post(<<m>>) /\ status' = "starting"
        /\ UNCHANGED <<kind, total, host, toPanel, deciding, asking, goAhead, up>>
    BY <1>1 DEF StartDownload, device, history
  <2>3. Steady
    BY <2>2 DEF Steady
  <2> HIDE DEF m
  <2> QED BY <1>0, <2>1, <2>2, <2>3, Saying
<1>2. CASE UserCancels
  BY <1>2, ReleaseKept DEF UserCancels, CancelJob, Steady, device
<1>3. CASE WorkerCrashes
  BY <1>0, <1>3, Silently DEF WorkerCrashes, Steady, chans, device, history
<1>4. CASE Reopen
  BY <1>0, <1>4, Silently, ReleaseKept DEF Reopen, Teardown, Steady, device, history
<1> QED BY <1>1, <1>2, <1>3, <1>4

\* The first question of an upload.
LEMMA StartKept ==
    ASSUME PanelType, UploadInv, StartUpload
    PROVE  PanelType' /\ UploadInv'
<1> DEFINE m == M("receive", 0, 0)
           r == NextFile(1, FALSE)
<1>1. /\ kind = "upload" /\ status = "none" /\ status' = "running" /\ up' = r.up
      /\ Post(<<m>> \o r.post)
      /\ UNCHANGED <<kind, total, host, toPanel, deciding, asking, goAhead>>
  BY DEF StartUpload, device, history
<1>2. m \in Messages /\ m.t = "receive"
  BY DEF M, Messages, MessageKinds
<1>3. Continues(r, 0) /\ NoBlocks(r)
  <2>1. 1 \in Nat \ {0} /\ FALSE \in BOOLEAN
    OBVIOUS
  <2> QED BY <2>1, NextFileContinues
<1>4. TokenInv /\ \A f : ~Waits(f)
  BY <1>1 DEF UploadInv, RoleInv, Waits
<1>5. /\ \A i \in DOMAIN toHost : ~Asks(i)
      /\ \A i \in DOMAIN toPanel : ~Answers(i)
      /\ deciding = 0 /\ ~asking
  BY <1>4 DEF TokenInv
<1>6. \A i \in DOMAIN toPanel' : ~Answers(i)'
  BY <1>1, <1>5 DEF Answers
<1> HIDE DEF m, r
<1>7. PICK s \in Seq(Messages) : s = <<m>> /\ DOMAIN s = {1} /\ s[1] = m /\ Len(s) = 1
  BY <1>2, Single
<1>8. PICK y \in Seq(Messages) : y = r.post
  BY <1>3 DEF Continues, Continuations
<1>9. PICK p : p = s \o y
  OBVIOUS
<1>10. /\ p \in Seq(Messages)
       /\ \A i \in DOMAIN p : p[i] = s[1] \/ \E j \in DOMAIN y : i = 1 + j /\ p[i] = y[j]
  BY <1>7, <1>9, Before
<1>11. \A j \in DOMAIN p : \/ p[j].t \notin {"digest", "send", "block"}
                           \/ \E i \in DOMAIN r.post : j = 1 + i /\ p[j] = r.post[i]
  BY <1>2, <1>7, <1>8, <1>10
<1>12. Post(p) /\ Steady
  BY <1>1, <1>7, <1>8, <1>9 DEF Steady
<1>13. /\ 0 \in Nat /\ 1 \in Nat /\ deciding' = 0 /\ ~asking' /\ goAhead \subseteq goAhead'
       /\ toPanel' \in Seq(Messages) /\ status' # "none"
  BY <1>1, <1>5 DEF PanelType
<1> QED BY <1>1, <1>3, <1>5, <1>6, <1>10, <1>11, <1>12, <1>13, Advance

\* What the device may put into the panel's channel: nothing, one message or two.
LEMMA HostSays ==
    ASSUME PanelType, UploadInv, UNCHANGED <<job, up>>, goAhead \subseteq goAhead',
           toHost' \in {toHost, <<>>} \/ (toHost # <<>> /\ toHost' = Tail(toHost)),
           NEW m \in Messages, NEW n \in Messages,
           toPanel' \in {toPanel, Append(toPanel, m), toPanel \o <<m, n>>},
           kind = "upload" => {m.t, n.t} \cap {"digest", "confirm", "skip"} = {},
           host' \in [pc : HostStates, f : Nat, k : Nat],
           kind = "upload" => host'.pc \in {"idle", "receive", "gone"}
    PROVE  PanelType' /\ UploadInv'
<1>1. \E p \in Seq(Messages) :
         /\ toPanel' = toPanel \/ toPanel' = toPanel \o p
         /\ \A j \in DOMAIN p : p[j] \in {m, n}
  <2>1. /\ <<m>> \in Seq(Messages) /\ DOMAIN <<m>> = {1} /\ <<m>>[1] = m
    BY Single
  <2>2. <<m, n>> \in Seq(Messages) /\ DOMAIN <<m, n>> = {1, 2} /\ <<m, n>>[1] = m /\ <<m, n>>[2] = n
    <3>1. <<m, n>> \in Seq(Messages)
      OBVIOUS
    <3>2. DOMAIN <<m, n>> = {1, 2} /\ <<m, n>>[1] = m /\ <<m, n>>[2] = n
      OBVIOUS
    <3> QED BY <3>1, <3>2
  <2>3. Append(toPanel, m) = toPanel \o <<m>>
    BY Appended DEF PanelType
  <2>4. CASE toPanel' = toPanel \o <<m, n>>
    BY <2>2, <2>4
  <2>5. CASE toPanel' \in {toPanel, Append(toPanel, m)}
    BY <2>1, <2>3, <2>5
  <2> QED BY <2>4, <2>5
<1>2. PICK p \in Seq(Messages) :
         /\ toPanel' = toPanel \/ toPanel' = toPanel \o p
         /\ \A j \in DOMAIN p : p[j] \in {m, n}
  BY <1>1
<1>3. kind = "upload" => \A j \in DOMAIN p : p[j].t \notin {"digest", "confirm", "skip"}
  BY <1>2
<1>4. Steady /\ UNCHANGED <<deciding, asking, status>> /\ goAhead \subseteq goAhead'
  BY DEF Steady, job
<1> QED BY <1>2, <1>3, <1>4, HostQuietly

\* The device's side of a job but for the digests of an upload.
LEMMA HostKept ==
    ASSUME PanelType, UploadInv,
           HostServes \/ HostSends \/ HostFails \/ BlockUnreadable \/ ConnectionLost
    PROVE  PanelType' /\ UploadInv'
<1> DEFINE States == [pc : HostStates, f : Nat, k : Nat]
           Tame == kind = "upload" => host'.pc \in {"idle", "receive", "gone"}
<1>1. /\ host \in States /\ host.f \in Nat /\ host.k \in Nat /\ total \in Nat
      /\ kind = "upload" => host.pc \in {"idle", "receive", "gone"}
      /\ \A f, k \in Nat, pc \in HostStates : At(pc, f, k) \in States /\ At(pc, f, k).pc = pc
      /\ \A f, k \in Nat, t \in MessageKinds : M(t, f, k) \in Messages /\ M(t, f, k).t = t
  BY DEF PanelType, UploadInv, RoleInv, At, M, Messages
<1>2. /\ "idle" \in HostStates /\ "wait" \in HostStates /\ "send" \in HostStates
      /\ "receive" \in HostStates /\ "gone" \in HostStates
      /\ "dir" \in MessageKinds /\ "digest" \in MessageKinds /\ "done" \in MessageKinds
      /\ "skipped" \in MessageKinds /\ "block" \in MessageKinds /\ "error" \in MessageKinds
      /\ "closed" \in MessageKinds /\ 0 \in Nat /\ 1 \in Nat
  BY DEF HostStates, MessageKinds
<1>3. host.f + 1 \in Nat /\ host.k + 1 \in Nat
  BY <1>1
<1>4. CASE HostFails
  <2>1. /\ toPanel' = Append(toPanel, M("error", 0, 0)) /\ host' = At("idle", 0, 0)
        /\ UNCHANGED <<job, up, goAhead, toHost>>
    BY <1>4 DEF HostFails, history
  <2>2. M("error", 0, 0) \in Messages /\ M("error", 0, 0).t = "error" /\ host' \in States
        /\ host'.pc = "idle"
    BY <1>1, <1>2, <2>1
  <2> QED BY <2>1, <2>2, HostSays
<1>5. CASE ConnectionLost
  <2>1. /\ toPanel' = Append(toPanel, M("closed", 0, 0)) /\ host' = At("gone", 0, 0)
        /\ UNCHANGED <<job, up, goAhead>> /\ toHost' = <<>>
    BY <1>5 DEF ConnectionLost, history
  <2>2. M("closed", 0, 0) \in Messages /\ M("closed", 0, 0).t = "closed" /\ host' \in States
        /\ host'.pc = "gone"
    BY <1>1, <1>2, <2>1
  <2> QED BY <2>1, <2>2, HostSays
<1>8. CASE BlockUnreadable
  <2>1. /\ UNCHANGED <<job, up, goAhead, toHost>> /\ kind # "upload"
        /\ toPanel' = Append(toPanel, M("error", 0, 0)) /\ host' = [host EXCEPT !.k = @ + 1]
    BY <1>1, <1>8 DEF BlockUnreadable
  <2>2. M("error", 0, 0) \in Messages /\ host' \in States
    BY <1>1, <1>2, <1>3, <2>1
  <2> QED BY <2>1, <2>2, HostSays
<1>6. CASE HostSends
  <2>1. UNCHANGED <<job, up, goAhead, toHost>> /\ kind # "upload"
    BY <1>1, <1>6 DEF HostSends, history
  <2>2. CASE host.k <= Blocks
    <3> DEFINE m == M("block", host.f, host.k)
    <3>1. toPanel' = Append(toPanel, m) /\ host' = [host EXCEPT !.k = @ + 1]
      <4>1. ~(host.k > Blocks)
        BY <1>1, <2>2, TransferBounds
      <4> QED BY <1>6, <2>2, <4>1 DEF HostSends
    <3>2. m \in Messages /\ host' \in States
      BY <1>1, <1>2, <1>3, <3>1
    <3> HIDE DEF m
    <3> QED BY <2>1, <3>1, <3>2, HostSays
  <2>3. CASE ~(host.k <= Blocks) /\ host.f = total
    <3> DEFINE m == M("block", host.f, 0)
               n == M("done", 0, 0)
    <3>1. toPanel' = toPanel \o <<m, n>> /\ host' = At("idle", 0, 0)
      BY <1>6, <2>3 DEF HostSends
    <3>2. m \in Messages /\ n \in Messages /\ host' \in States
      BY <1>1, <1>2, <3>1
    <3> HIDE DEF m, n
    <3> QED BY <2>1, <3>1, <3>2, HostSays
  <2>4. CASE ~(host.k <= Blocks) /\ host.f # total
    <3> DEFINE m == M("block", host.f, 0)
               n == M("digest", host.f + 1, 0)
    <3>1. toPanel' = toPanel \o <<m, n>> /\ host' = At("wait", host.f + 1, 0)
      BY <1>6, <2>4 DEF HostSends
    <3>2. m \in Messages /\ n \in Messages /\ host' \in States
      BY <1>1, <1>2, <1>3, <3>1
    <3> HIDE DEF m, n
    <3> QED BY <2>1, <3>1, <3>2, HostSays
  <2> QED BY <2>2, <2>3, <2>4
<1>7. CASE HostServes
  <2>1. /\ UNCHANGED <<job, up, goAhead>> /\ toHost # <<>> /\ toHost' = Tail(toHost)
    BY <1>7 DEF HostServes, Hears, history
  <2>2. /\ Cmd = toHost[1] /\ 1 \in DOMAIN toHost /\ Cmd \in Messages /\ Cmd.f \in Nat
        /\ Cmd.f + 1 \in Nat
    <3>1. Cmd = toHost[1] /\ 1 \in DOMAIN toHost /\ Cmd \in Messages
      BY <2>1, Received DEF PanelType, Cmd
    <3>2. Cmd.f \in Nat
      BY <3>1 DEF Messages
    <3> QED BY <3>1, <3>2
  <2>3. CASE Cmd.t = "send" /\ toPanel' = toPanel \o <<M("dir", 0, 0), M("digest", 1, 0)>>
             /\ host' = At("wait", 1, 0)
    <3> DEFINE m == M("dir", 0, 0)
               n == M("digest", 1, 0)
    <3>1. kind # "upload"
      BY <2>2, <2>3 DEF UploadInv, RoleInv, NoSend
    <3>2. m \in Messages /\ n \in Messages /\ host' \in States
      BY <1>1, <1>2, <2>3
    <3>3. toPanel' = toPanel \o <<m, n>>
      BY <2>3
    <3> HIDE DEF m, n
    <3> QED BY <2>1, <3>1, <3>2, <3>3, HostSays
  <2>4. CASE host.pc = "wait" /\ Cmd.f = host.f /\ host' = At("send", Cmd.f, 1)
             /\ UNCHANGED toPanel
    <3>1. M("done", 0, 0) \in Messages /\ host' \in States /\ kind # "upload"
      BY <1>1, <1>2, <2>2, <2>4
    <3> QED BY <2>1, <2>4, <3>1, HostSays
  <2>5. CASE host.pc = "wait" /\ Announce(Cmd.f + 1)
    <3>1. kind # "upload"
      BY <1>1, <2>5
    <3>2. CASE Cmd.f + 1 > total
      <4>1. toPanel' = Append(toPanel, M("done", 0, 0)) /\ host' = At("idle", 0, 0)
        BY <2>5, <3>2 DEF Announce
      <4>2. M("done", 0, 0) \in Messages /\ host' \in States
        BY <1>1, <1>2, <4>1
      <4> QED BY <2>1, <3>1, <4>1, <4>2, HostSays
    <3>3. CASE ~(Cmd.f + 1 > total)
      <4> DEFINE m == M("digest", Cmd.f + 1, 0)
      <4>1. toPanel' = Append(toPanel, m) /\ host' = At("wait", Cmd.f + 1, 0)
        BY <2>5, <3>3 DEF Announce
      <4>2. m \in Messages /\ host' \in States
        BY <1>1, <1>2, <2>2, <4>1
      <4> HIDE DEF m
      <4> QED BY <2>1, <3>1, <4>1, <4>2, HostSays
    <3> QED BY <3>2, <3>3
  <2>6. CASE toPanel' = Append(toPanel, M("skipped", 0, 0)) /\ host' = At("idle", 0, 0)
    <3>1. M("skipped", 0, 0) \in Messages /\ M("skipped", 0, 0).t = "skipped" /\ host' \in States
          /\ host'.pc = "idle"
      BY <1>1, <1>2, <2>6
    <3> QED BY <2>1, <2>6, <3>1, HostSays
  <2>7. CASE UNCHANGED toPanel /\ (host' \in {host, At("receive", 0, 0), At("idle", 0, 0)})
    <3>1. M("done", 0, 0) \in Messages /\ M("done", 0, 0).t = "done" /\ host' \in States /\ Tame
      BY <1>1, <1>2, <2>7
    <3> QED BY <2>1, <2>7, <3>1, HostSays
  <2> QED BY <1>7, <2>3, <2>4, <2>5, <2>6, <2>7 DEF HostServes, Hears, Cmd
<1> QED BY <1>4, <1>5, <1>6, <1>7, <1>8

\* The device receives an upload.
LEMMA HostReceivesKept ==
    ASSUME PanelType, UploadInv, HostReceives
    PROVE  PanelType' /\ UploadInv'
<1>1. /\ UNCHANGED <<job, up>> /\ toHost # <<>> /\ toHost' = Tail(toHost)
      /\ UNCHANGED <<kind, total, status, deciding, asking>>
  BY DEF HostReceives, Hears, job
<1>2. Cmd \in Messages /\ Cmd.f \in Nat
  <2>1. Cmd \in Messages
    BY <1>1, Received DEF PanelType, Cmd
  <2> QED BY <2>1 DEF Messages
<1>3. /\ \A f, k \in Nat, t \in MessageKinds :
            M(t, f, k) \in Messages /\ M(t, f, k).t = t /\ M(t, f, k).f = f
      /\ "digest" \in MessageKinds /\ "confirm" \in MessageKinds /\ "skip" \in MessageKinds
      /\ "done" \in MessageKinds
  BY DEF M, Messages, MessageKinds
<1>4. host \in [pc : HostStates, f : Nat, k : Nat]
      /\ (kind = "upload" => host.pc \in {"idle", "receive", "gone"})
  BY DEF PanelType, UploadInv, RoleInv
<1>5. Steady
  BY <1>1 DEF Steady
<1>6. ASSUME NEW m \in Messages, toPanel' = Append(toPanel, m), Cmd.t = "digest", UNCHANGED host,
             m.t \in {"digest", "confirm", "skip"}, m.f = Cmd.f, goAhead \subseteq goAhead',
             m.t = "confirm" => m.f \in goAhead'
      PROVE  PanelType' /\ UploadInv'
  <2>1. CASE kind = "upload"
    BY <1>1, <1>5, <1>6, <2>1, HostAnswers DEF Cmd
  <2>2. CASE kind # "upload"
    BY <1>1, <1>4, <1>6, <2>2, HostSays
  <2> QED BY <2>1, <2>2
<1>7. CASE Cmd.t = "digest" /\ host.pc = "receive"
  <2>1. Hears("digest") /\ ~Hears("block") /\ ~Hears("done")
    BY <1>7 DEF HostReceives, Hears, Cmd
  <2>2. UNCHANGED host
    BY <1>7, <2>1 DEF HostReceives
  <2>3. CASE \E off \in 0..Blocks : /\ toPanel' = Append(toPanel, M("confirm", Cmd.f, off))
                                    /\ goAhead' = goAhead \cup {Cmd.f}
    <3>1. PICK off \in 0..Blocks : /\ toPanel' = Append(toPanel, M("confirm", Cmd.f, off))
                                   /\ goAhead' = goAhead \cup {Cmd.f}
      BY <2>3
    <3>2. off \in Nat
      BY TransferBounds
    <3> DEFINE m == M("confirm", Cmd.f, off)
    <3>3. m \in Messages /\ m.t = "confirm" /\ m.f = Cmd.f
      BY <1>2, <1>3, <3>2
    <3> HIDE DEF m
    <3>4. toPanel' = Append(toPanel, m) /\ goAhead \subseteq goAhead' /\ m.f \in goAhead'
      BY <3>1, <3>3 DEF m
    <3> QED BY <1>6, <1>7, <2>2, <3>3, <3>4
  <2>4. CASE \E t \in {"skip", "digest"} : toPanel' = Append(toPanel, M(t, Cmd.f, 0))
                                           /\ UNCHANGED goAhead
    <3>1. PICK t \in {"skip", "digest"} : toPanel' = Append(toPanel, M(t, Cmd.f, 0))
                                          /\ UNCHANGED goAhead
      BY <2>4
    <3> DEFINE m == M(t, Cmd.f, 0)
    <3>2. m \in Messages /\ m.t \in {"skip", "digest"} /\ m.f = Cmd.f
      BY <1>2, <1>3
    <3> HIDE DEF m
    <3>3. toPanel' = Append(toPanel, m)
      BY <3>1 DEF m
    <3> QED BY <1>6, <1>7, <2>2, <3>1, <3>2, <3>3
  <2> QED BY <1>7, <2>1, <2>3, <2>4 DEF HostReceives
<1>8. CASE ~(Cmd.t = "digest" /\ host.pc = "receive")
  <2> DEFINE m == M("done", 0, 0)
  <2>1. m \in Messages /\ m.t = "done"
    BY <1>3
  <2>2. /\ UNCHANGED goAhead /\ toPanel' \in {toPanel, Append(toPanel, m)}
        /\ host' \in {host, At("idle", 0, 0)}
    BY <1>8 DEF HostReceives, Hears, Cmd
  <2>3. At("idle", 0, 0) \in [pc : HostStates, f : Nat, k : Nat] /\ At("idle", 0, 0).pc = "idle"
    BY DEF At, HostStates
  <2> HIDE DEF m
  <2>4. /\ host' \in [pc : HostStates, f : Nat, k : Nat]
        /\ kind = "upload" => host'.pc \in {"idle", "receive", "gone"}
    BY <1>4, <2>2, <2>3
  <2> QED BY <1>1, <2>1, <2>2, <2>4, HostSays
<1> QED BY <1>7, <1>8

(***************************************************************************)
(* The theorem.                                                            *)
(***************************************************************************)

\* The invariant holds at first: no question is open.
LEMMA UploadStart == Init => PanelType /\ UploadInv
<1> SUFFICES ASSUME Init PROVE PanelType /\ UploadInv
  OBVIOUS
<1>1. /\ kind \in {"download", "upload"} /\ total \in Nat /\ deciding = 0 /\ asking = FALSE
      /\ toHost = <<>> /\ toPanel = <<>> /\ DOMAIN toHost = {} /\ DOMAIN toPanel = {}
      /\ toHost \in Seq(Messages) /\ toPanel \in Seq(Messages)
  BY TransferBounds DEF Init, Files
<1>2. up \in Positions /\ up.pc = "none" /\ host \in [pc : HostStates, f : Nat, k : Nat]
      /\ host.pc = "idle"
  BY DEF Init, Positions, UpStates, HostStates
<1>3. PanelType
  BY <1>1, <1>2 DEF PanelType
<1>4. RoleInv
  BY <1>1, <1>2 DEF RoleInv, NoSend
<1>5. TokenInv /\ GoAheadInv
  BY <1>1, <1>2 DEF TokenInv, GoAheadInv, BlocksOnlyConfirmed
<1> QED BY <1>3, <1>4, <1>5 DEF UploadInv

\* Every step keeps it.
LEMMA UploadStep == PanelType /\ UploadInv /\ [Next]_vars => PanelType' /\ UploadInv'
<1> SUFFICES ASSUME PanelType, UploadInv, [Next]_vars PROVE PanelType' /\ UploadInv'
  OBVIOUS
<1>1. CASE Events
  BY <1>1, EventsKept, DigestKept, SendConfirmKept DEF Events
<1>2. CASE TargetChecked \/ User
  BY <1>2, DecisionKept, StartKept, UserKept DEF User
<1>3. CASE WriteChain \/ Upload
  BY <1>3, WriteChainKept, UploadKept
<1>4. CASE Host \/ HostFails \/ BlockUnreadable \/ ConnectionLost
  BY <1>4, HostKept, HostReceivesKept DEF Host
<1>5. CASE WorkerCrashes \/ Reopen
  BY <1>5, UserKept
<1>6. CASE UNCHANGED vars
  <2>1. /\ UNCHANGED <<kind, total, status, deciding, asking, up, host, goAhead>>
        /\ toHost' = toHost /\ toPanel' = toPanel
    BY <1>6 DEF vars, job, chans, device, history
  <2>2. Steady /\ up' \in Positions
    BY <2>1 DEF Steady, PanelType
  <2> QED BY <2>1, <2>2, Silently
<1> QED BY <1>1, <1>2, <1>3, <1>4, <1>5, <1>6 DEF Next

\* The device of any upload, of any number of files and blocks, is sent blocks only of
\* files it or the user gave the go-ahead for, whatever the dialog, the sticky policy,
\* cancels, failures and the loss of the connection do in between (onFtDigest, uploadFiles).
THEOREM BlocksConfirmed == Spec => []BlocksOnlyConfirmed
<1>1. PanelType /\ UploadInv => BlocksOnlyConfirmed
  BY DEF PanelType, UploadInv, RoleInv, GoAheadInv, BlocksOnlyConfirmed
<1>2. Init => PanelType /\ UploadInv
  BY UploadStart
<1>3. PanelType /\ UploadInv /\ [Next]_vars => PanelType' /\ UploadInv'
  BY UploadStep
<1> QED BY <1>1, <1>2, <1>3, PTL DEF Spec

(***************************************************************************)
(* What an upload leaves on the device.                                    *)
(***************************************************************************)

\* Block n of file f (0 ends the file) on its way, and before the i-th message.
BlockAt(i, f)   == toHost[i].t = "block" /\ toHost[i].f = f
Queued(f, n)    == \E i \in DOMAIN toHost : BlockAt(i, f) /\ toHost[i].k = n
Sooner(i, f, n) == \E j \in DOMAIN toHost : j < i /\ BlockAt(j, f) /\ toHost[j].k = n

\* The device takes, or is about to take, what it is sent.  Once it has stopped it
\* never starts again.
Active == host.pc = "receive" \/ (toHost # <<>> /\ toHost[1].t = "receive")

\* Nothing of file f is on its way, and it is not closed.
Clear(f)     == f \in 1..total /\ f \notin final /\ \A i \in DOMAIN toHost : ~BlockAt(i, f)
Untouched(f) == Clear(f) /\ remote[f] = 0

\* The first n blocks of file f are with the device or on their way, and no others.
Ready(f, n) ==
    /\ f \in 1..total /\ f \notin final /\ remote[f] <= n /\ n <= Blocks
    /\ \A i \in DOMAIN toHost : BlockAt(i, f) => toHost[i].k \in 1..n
    /\ \A b \in 1..n : b > remote[f] => Queued(f, b)

Sending == {"read", "sent", "drain"}
Top == IF up.pc = "read" THEN up.k - 1 ELSE up.k

UploadShape ==
    /\ total \in Files /\ remote \in [Files -> Nat] /\ \A f \in Files : remote[f] <= Blocks
    /\ final \subseteq 1..total
    /\ chain = <<>> /\ phase = "idle" /\ writable = NoStream
    /\ \A f \in Files : disk[f] # "partial"
    /\ \A i \in DOMAIN toHost : /\ toHost[i].t = "receive" => i = 1
                                /\ toHost[i].t = "block" => toHost[i].f \in 1..total
    /\ \A i \in DOMAIN toPanel :
          /\ toPanel[i].t \in {"digest", "confirm", "skip", "done", "error", "closed"}
          /\ toPanel[i].t = "skip" => toPanel[i].f \in skipped
    /\ up.pc \in Sending \cup {"confirm"} => up.f \in 1..total
    /\ status = "none" => /\ toHost = <<>> /\ host.pc # "receive" /\ final = {}
                          /\ \A f \in Files : remote[f] = 0

\* The blocks of a file arrive in order, each once, the end of the file last, and
\* none is missing.
InOrder(i) ==
    toHost[i].t = "block" =>
        LET f == toHost[i].f
            k == toHost[i].k
        IN  /\ k # 0 => remote[f] < k /\ k <= Blocks
            /\ f \notin final
            /\ \A n \in 1..Blocks : n > remote[f] /\ (k = 0 \/ n < k) => Sooner(i, f, n)
            /\ \A j \in DOMAIN toHost : BlockAt(j, f) /\ toHost[j].k = k => i = j
            /\ k = 0 => \A j \in DOMAIN toHost : BlockAt(j, f) => j <= i
StreamInv == Active => \A i \in DOMAIN toHost : InOrder(i)

\* uploadFiles agrees with what is on its way, as long as it can post.
SenderInv ==
    Active /\ conn # "closed" /\ up.pc \in Sending => up.k \in 1..Blocks /\ Ready(up.f, Top)

\* A file is asked about before anything of it is sent.
QuestionInv ==
    Active =>
      /\ \A i \in DOMAIN toHost : toHost[i].t = "digest" => Untouched(toHost[i].f)
      /\ \A i \in DOMAIN toPanel :
           /\ toPanel[i].t = "digest" => Untouched(toPanel[i].f)
           /\ toPanel[i].t = "confirm" => /\ Clear(toPanel[i].f)
                                          /\ remote[toPanel[i].f] = toPanel[i].k
      /\ deciding # 0 => Untouched(deciding)
      /\ up.pc \in Sending \cup {"confirm"} => \A g \in 1..total : g > up.f => Untouched(g)

\* The files uploadFiles has behind it.
Past == IF up.pc = "finished" THEN 1..total
        ELSE IF up.pc \in Sending \cup {"confirm"} THEN 1..(up.f - 1) ELSE {}
Settles(f) == f \in skipped \/ f \in final

LedgerInv ==
    /\ Active => \A f \in Past : Settles(f) \/ Queued(f, 0)
    /\ \A i \in DOMAIN toHost : toHost[i].t = "done" =>
          up.pc = "finished" /\ \A j \in DOMAIN toHost : toHost[j].t = "block" => j < i
    /\ \A i \in DOMAIN toPanel : toPanel[i].t = "done" => \A f \in 1..total : Settles(f)
    /\ status = "done" => \A f \in 1..total : Settles(f)
    /\ \A f \in final : remote[f] = Blocks

UploadSums == UploadShape /\ StreamInv /\ SenderInv /\ QuestionInv /\ LedgerInv

\* What a block m may be when it is posted.
InLine(m) == \E n \in 0..Blocks : /\ Ready(m.f, n)
                                 /\ \/ m.k = 0 /\ n = Blocks
                                    \/ m.k = n + 1 /\ m.k <= Blocks

\* The steps of the panel: something is posted, at most one block of it, and
\* uploadFiles moves on.
LEMMA Posting ==
    ASSUME PanelType, UploadSums, UNCHANGED <<kind, total, host, remote, final>>,
           UNCHANGED <<chain, phase, writable, disk>>, skipped \subseteq skipped',
           conn = "closed" => conn' = "closed",
           toPanel' = toPanel \/ (toPanel # <<>> /\ toPanel' = Tail(toPanel)),
           deciding' \in {0, deciding},
           NEW p \in Seq(Messages), Post(p) \/ UNCHANGED toHost,
           NEW m \in Messages, m.f \in 1..total,
           \A j \in DOMAIN p : /\ p[j].t # "receive"
                               /\ p[j].t = "block" => p[j] = m /\ up.pc # "finished"
                               /\ p[j].t = "digest" /\ Active => Untouched(p[j].f),
           \A i, j \in DOMAIN p : /\ p[i].t = "block" /\ p[j].t = "block" => i = j
                                  /\ p[i].t = "done" /\ p[j].t = "block" => j < i
                                  /\ p[i].t = "digest" /\ p[j].t = "block" => p[i].f # m.f,
           \A j \in DOMAIN p : p[j].t = "block" /\ Active /\ conn # "closed" => InLine(m),
           up' \in Positions, up.pc = "finished" => up'.pc = "finished",
           up'.pc \in Sending \cup {"confirm"} => up'.f \in 1..total,
           \A j \in DOMAIN p : p[j].t = "done" => up'.pc = "finished",
           Active /\ conn' # "closed" /\ up'.pc \in Sending =>
              /\ up'.k \in 1..Blocks
              /\ \/ Ready(up'.f, Top') /\ \A j \in DOMAIN p : p[j].t # "block"
                 \/ Ready(up'.f, Top' - 1) /\ m.k = Top' /\ m.f = up'.f /\ p = <<m>> /\ Post(p)
                    /\ m.t = "block",
           Active /\ up'.pc \in Sending \cup {"confirm"} => \A g \in 1..total : g > up'.f =>
              Untouched(g) /\ \A j \in DOMAIN p : p[j].t = "block" => g # m.f,
           Active => \A f \in Past' : \/ Settles(f)' \/ Queued(f, 0)
                                      \/ Post(p) /\ conn # "closed"
                                         /\ \E j \in DOMAIN p : /\ p[j].t = "block" /\ p[j].k = 0
                                                                /\ p[j].f = f,
           deciding' # 0 => \A j \in DOMAIN p : p[j].t # "block",
           \A i \in DOMAIN toPanel' : Answers(i)' => \A j \in DOMAIN p : p[j].t # "block",
           \A i \in DOMAIN toHost : Asks(i) => \A j \in DOMAIN p : p[j].t = "block" => toHost[i].f # m.f,
           status' = "none" => status = "none" /\ UNCHANGED toHost,
           status' = "done" => status = "done" \/ \A f \in 1..total : Settles(f)
    PROVE  UploadSums'
<1>0. /\ toHost \in Seq(Messages) /\ total \in Nat /\ Blocks \in Nat /\ up' \in Positions
      /\ UploadShape /\ StreamInv /\ SenderInv /\ QuestionInv /\ LedgerInv
  BY TransferBounds DEF PanelType, UploadSums
<1>1. /\ toHost' \in Seq(Messages)
      /\ \A i \in DOMAIN toHost' :
            \/ i \in DOMAIN toHost /\ toHost'[i] = toHost[i]
            \/ \E j \in DOMAIN p : i = Len(toHost) + j /\ toHost'[i] = p[j]
  BY <1>0, Posted
<1>2. \A i \in DOMAIN toHost : i \in DOMAIN toHost' /\ toHost'[i] = toHost[i]
  <2>1. CASE UNCHANGED toHost
    BY <2>1
  <2>2. CASE toHost' = toHost \o p
    BY <1>0, <2>2, Joined
  <2> QED BY <2>1, <2>2 DEF Post
<1>3. \A i \in DOMAIN toHost : i \in Nat /\ i <= Len(toHost)
  BY <1>0
<1>4. \A i \in DOMAIN toHost' : i \in Nat
  BY <1>1
<1>5. \A i \in DOMAIN toHost', j \in DOMAIN p : i = Len(toHost) + j =>
         /\ i \notin DOMAIN toHost
         /\ \A h \in DOMAIN toHost : h < i
  <2>1. \A j \in DOMAIN p : j \in Nat /\ j >= 1
    OBVIOUS
  <2>2. Len(toHost) \in Nat
    BY <1>0
  <2> QED BY <1>3, <2>1, <2>2
<1>6. \A i \in DOMAIN toHost' : i \notin DOMAIN toHost => conn # "closed" /\ Post(p)
  BY DEF Post
<1>7. \A i \in DOMAIN toHost' : i \notin DOMAIN toHost =>
         \E j \in DOMAIN p : i = Len(toHost) + j /\ toHost'[i] = p[j]
  BY <1>1
<1>8. \A i \in DOMAIN toHost' : i \notin DOMAIN toHost /\ toHost'[i].t = "block" =>
         /\ toHost'[i] = m /\ m.t = "block" /\ conn # "closed" /\ up.pc # "finished"
         /\ \A h \in DOMAIN toHost : h < i
         /\ Active => InLine(m)
         /\ \E j \in DOMAIN p : p[j].t = "block"
  BY <1>5, <1>6, <1>7
<1>9. \A i, h \in DOMAIN toHost' :
         (i \notin DOMAIN toHost /\ toHost'[i].t = "block"
          /\ h \notin DOMAIN toHost /\ toHost'[h].t = "block") => i = h
  BY <1>7
<1>10. Active' => Active
  <2> SUFFICES ASSUME toHost' # <<>>, toHost'[1].t = "receive"
               PROVE  toHost # <<>> /\ toHost[1].t = "receive"
    BY DEF Active
  <2>1. 1 \in DOMAIN toHost'
    BY <1>1
  <2>2. 1 \in DOMAIN toHost /\ toHost'[1] = toHost[1]
    BY <1>1, <2>1
  <2> QED BY <2>2
<1>11. \E d \in {0, 1} : \A i \in DOMAIN toPanel' : i + d \in DOMAIN toPanel
                                                    /\ toPanel'[i] = toPanel[i + d]
  <2>1. CASE toPanel' = toPanel
    <3>1. \A i \in DOMAIN toPanel : i + 0 = i
      BY DEF PanelType
    <3> QED BY <2>1, <3>1
  <2>2. CASE toPanel # <<>> /\ toPanel' = Tail(toPanel)
    BY <2>2, Received DEF PanelType
  <2> QED BY <2>1, <2>2
<1>12. \A i \in DOMAIN toPanel' : \E h \in DOMAIN toPanel : toPanel'[i] = toPanel[h]
  BY <1>11
<1>13. UploadShape'
  <2>1. /\ total' \in Files /\ remote' \in [Files -> Nat] /\ \A f \in Files : remote'[f] <= Blocks
        /\ final' \subseteq 1..total' /\ chain' = <<>> /\ phase' = "idle" /\ writable' = NoStream
        /\ \A f \in Files : disk'[f] # "partial"
        /\ up'.pc \in Sending \cup {"confirm"} => up'.f \in 1..total'
    BY <1>0 DEF UploadShape
  <2>2. \A i \in DOMAIN toHost' : /\ toHost'[i].t = "receive" => i = 1
                                  /\ toHost'[i].t = "block" => toHost'[i].f \in 1..total'
    BY <1>0, <1>1 DEF UploadShape
  <2>3. \A i \in DOMAIN toPanel' :
          /\ toPanel'[i].t \in {"digest", "confirm", "skip", "done", "error", "closed"}
          /\ toPanel'[i].t = "skip" => toPanel'[i].f \in skipped'
    BY <1>0, <1>12 DEF UploadShape
  <2>4. status' = "none" => /\ toHost' = <<>> /\ host'.pc # "receive" /\ final' = {}
                            /\ \A f \in Files : remote'[f] = 0
    BY <1>0 DEF UploadShape
  <2> QED BY <2>1, <2>2, <2>3, <2>4 DEF UploadShape
<1>14. \A g : Clear(g) /\ (g # m.f \/ \A j \in DOMAIN p : p[j].t # "block") => Clear(g)'
  <2> SUFFICES ASSUME NEW g, Clear(g), g # m.f \/ \A j \in DOMAIN p : p[j].t # "block",
                      NEW i \in DOMAIN toHost', toHost'[i].t = "block", toHost'[i].f = g
               PROVE  FALSE
    BY DEF Clear, BlockAt
  <2> QED BY <1>1, <1>8 DEF Clear, BlockAt
<1>15. \A g : Untouched(g) /\ (g # m.f \/ \A j \in DOMAIN p : p[j].t # "block") => Untouched(g)'
  BY <1>14 DEF Untouched
<1>16. \A f, n : Queued(f, n) => Queued(f, n)'
  BY <1>2 DEF Queued, BlockAt
<1>17. \A f, n : Ready(f, n) /\ (\A j \in DOMAIN p : p[j].t # "block") => Ready(f, n)'
  <2> SUFFICES ASSUME NEW f, NEW n, Ready(f, n), \A j \in DOMAIN p : p[j].t # "block"
               PROVE  Ready(f, n)'
    OBVIOUS
  <2>1. \A i \in DOMAIN toHost' : BlockAt(i, f)' => toHost'[i].k \in 1..n
    BY <1>1, <1>8 DEF Ready, BlockAt
  <2> QED BY <1>16, <2>1 DEF Ready
<1>18. StreamInv'
  <2> SUFFICES ASSUME Active, NEW i \in DOMAIN toHost', toHost'[i].t = "block"
               PROVE  InOrder(i)'
    BY <1>10 DEF StreamInv, InOrder
  <2>f. PICK f, k : f = toHost'[i].f /\ k = toHost'[i].k
    OBVIOUS
  <2>0. /\ remote \in [Files -> Nat] /\ f \in Files /\ remote[f] \in Nat /\ k \in Nat
        /\ UNCHANGED <<remote, final>>
    <3>1. toHost'[i] \in Messages /\ f \in 1..total /\ total \in Files
      BY <1>1, <1>13, <2>f DEF UploadShape
    <3>2. f \in Files
      BY <3>1, TransferBounds DEF Files
    <3>3. k \in Nat
      BY <2>f, <3>1 DEF Messages
    <3> QED BY <1>0, <3>2, <3>3 DEF UploadShape
  <2>1. \A h \in DOMAIN toHost' : BlockAt(h, f)' =>
           \/ h \in DOMAIN toHost /\ BlockAt(h, f) /\ toHost'[h] = toHost[h]
           \/ h \notin DOMAIN toHost /\ toHost'[h].t = "block" /\ f = m.f
    BY <1>1, <1>8 DEF BlockAt
  <2>2. CASE i \in DOMAIN toHost
    <3>1. toHost'[i] = toHost[i] /\ InOrder(i)
      BY <1>0, <1>2, <2>2 DEF StreamInv
    <3>2. \A h \in DOMAIN toHost' : h \notin DOMAIN toHost /\ BlockAt(h, f)' =>
             toHost'[h].k # k /\ k # 0
      <4> SUFFICES ASSUME NEW h \in DOMAIN toHost', h \notin DOMAIN toHost, BlockAt(h, f)'
                   PROVE  toHost'[h].k # k /\ k # 0
        OBVIOUS
      <4>1. toHost'[h] = m /\ InLine(m) /\ m.f = f
        BY <1>8 DEF BlockAt
      <4>2. PICK n \in 0..Blocks : Ready(m.f, n) /\ (m.k = 0 \/ m.k = n + 1)
        BY <4>1 DEF InLine
      <4>3. k \in 1..n
        BY <2>2, <2>f, <3>1, <4>1, <4>2 DEF Ready, BlockAt
      <4> QED BY <4>1, <4>2, <4>3
    <3>3. \A n \in 1..Blocks : n > remote[f] /\ (k = 0 \/ n < k) => Sooner(i, f, n)'
      <4>1. \A n \in 1..Blocks : n > remote[f] /\ (k = 0 \/ n < k) => Sooner(i, f, n)
        BY <2>f, <3>1 DEF InOrder
      <4>2. \A n : Sooner(i, f, n) => Sooner(i, f, n)'
        BY <1>2 DEF Sooner, BlockAt
      <4> QED BY <4>1, <4>2
    <3>4. /\ k # 0 => remote[f] < k /\ k <= Blocks
          /\ f \notin final
          /\ \A j \in DOMAIN toHost : BlockAt(j, f) /\ toHost[j].k = k => i = j
          /\ k = 0 => \A j \in DOMAIN toHost : BlockAt(j, f) => j <= i
      BY <2>f, <3>1 DEF InOrder
    <3>5. \A j \in DOMAIN toHost' : BlockAt(j, f)' /\ toHost'[j].k = k => i = j
      BY <2>1, <3>2, <3>4
    <3>6. k = 0 => \A j \in DOMAIN toHost' : BlockAt(j, f)' => j <= i
      BY <2>1, <3>2, <3>4
    <3> QED BY <2>0, <2>f, <3>3, <3>4, <3>5, <3>6 DEF InOrder
  <2>3. CASE i \notin DOMAIN toHost
    <3>1. toHost'[i] = m /\ InLine(m) /\ \A h \in DOMAIN toHost : h < i
      BY <1>8, <2>3
    <3>2. PICK n \in 0..Blocks : Ready(f, n) /\ ((k = 0 /\ n = Blocks) \/ (k = n + 1 /\ k <= Blocks))
      BY <2>f, <3>1 DEF InLine
    <3>3. k # 0 => remote[f] < k /\ k <= Blocks
      BY <1>0, <2>0, <3>2 DEF Ready
    <3>4. f \notin final
      BY <3>2 DEF Ready
    <3>5. \A b \in 1..Blocks : b > remote[f] /\ (k = 0 \/ b < k) => Sooner(i, f, b)'
      <4> SUFFICES ASSUME NEW b \in 1..Blocks, b > remote[f], k = 0 \/ b < k
                   PROVE  Sooner(i, f, b)'
        OBVIOUS
      <4>1. b \in 1..n
        BY <1>0, <3>2
      <4>2. Queued(f, b)
        BY <3>2, <4>1 DEF Ready
      <4> QED BY <1>2, <3>1, <4>2 DEF Queued, Sooner, BlockAt
    <3>6. \A j \in DOMAIN toHost' : BlockAt(j, f)' /\ toHost'[j].k = k => i = j
      <4>1. \A j \in DOMAIN toHost : BlockAt(j, f) => toHost[j].k # k
        BY <3>2 DEF Ready
      <4> QED BY <1>9, <2>f, <2>1, <2>3, <4>1
    <3>7. \A j \in DOMAIN toHost' : BlockAt(j, f)' => j <= i
      <4>1. \A j \in DOMAIN toHost : j <= i
        BY <1>3, <1>4, <3>1
      <4> QED BY <1>4, <1>9, <2>f, <2>1, <2>3, <4>1
    <3> QED BY <2>0, <2>f, <3>3, <3>4, <3>5, <3>6, <3>7 DEF InOrder
  <2> QED BY <2>2, <2>3
<1>19. SenderInv'
  <2> SUFFICES ASSUME Active, conn' # "closed", up'.pc \in Sending
               PROVE  up'.k \in 1..Blocks /\ Ready(up.f, Top)'
    BY <1>10 DEF SenderInv
  <2>1. CASE Ready(up'.f, Top') /\ \A j \in DOMAIN p : p[j].t # "block"
    <3>1. PICK f, n : f = up'.f /\ n = Top'
      OBVIOUS
    <3>2. Ready(f, n)'
      BY <1>17, <2>1, <3>1
    <3> QED BY <3>1, <3>2
  <2>2. CASE /\ Ready(up'.f, Top' - 1) /\ m.k = Top' /\ m.f = up'.f /\ p = <<m>> /\ Post(p)
             /\ m.t = "block"
    <3>1. PICK f, n : f = up'.f /\ n = Top'
      OBVIOUS
    <3>2. Ready(f, n - 1) /\ m.k = n /\ m.f = f /\ up'.k \in 1..Blocks /\ n \in Nat /\ n <= Blocks
      <4>1. up'.k \in 1..Blocks /\ up'.k - 1 <= Blocks
        BY <1>0
      <4>2. Top' = up'.k \/ Top' = up'.k - 1
        BY DEF Top
      <4> QED BY <1>0, <2>2, <3>1, <4>1, <4>2
    <3>3. conn # "closed"
      OBVIOUS
    <3>4. toHost' = toHost \o p
      BY <2>2, <3>3 DEF Post
    <3>5. Len(toHost) + 1 \in DOMAIN toHost' /\ toHost'[Len(toHost) + 1] = m
      BY <1>0, <2>2, <3>4
    <3>6. Queued(f, n)'
      BY <2>2, <3>1, <3>2, <3>5 DEF Queued, BlockAt
    <3>7. /\ f \in 1..total /\ f \notin final /\ remote[f] <= n - 1
          /\ \A i \in DOMAIN toHost : BlockAt(i, f) => toHost[i].k \in 1..(n - 1)
          /\ \A b \in 1..(n - 1) : b > remote[f] => Queued(f, b)
      BY <3>2 DEF Ready
    <3>8. remote[f] \in Nat
      <4>1. f \in Files
        BY <1>0, <3>7, TransferBounds DEF Files, UploadShape
      <4> QED BY <1>0, <4>1 DEF UploadShape
    <3>n. n >= 1
      BY <3>2, <3>7, <3>8
    <3>9. \A b \in 1..n : b > remote[f] => Queued(f, b)'
      <4> SUFFICES ASSUME NEW b \in 1..n, b > remote[f] PROVE Queued(f, b)'
        OBVIOUS
      <4>1. CASE b = n
        BY <3>6, <4>1
      <4>2. CASE b # n
        <5>1. b \in 1..(n - 1)
          BY <3>2, <4>2
        <5> QED BY <1>16, <3>7, <5>1
      <4> QED BY <4>1, <4>2
    <3>10. \A i \in DOMAIN toHost' : BlockAt(i, f)' => toHost'[i].k \in 1..n
      <4>1. \A i \in DOMAIN toHost' : toHost'[i] = m \/ (i \in DOMAIN toHost /\ toHost'[i] = toHost[i])
        BY <1>1, <2>2
      <4>2. m.k \in 1..n /\ \A k \in 1..(n - 1) : k \in 1..n
        BY <3>2, <3>n
      <4> QED BY <3>7, <4>1, <4>2 DEF BlockAt
    <3>11. remote[f] <= n
      BY <3>2, <3>7, <3>8
    <3>12. Ready(f, n)'
      BY <3>2, <3>7, <3>9, <3>10, <3>11 DEF Ready
    <3> QED BY <3>1, <3>2, <3>12
  <2> QED BY <2>1, <2>2
<1>20. QuestionInv'
  <2> SUFFICES ASSUME Active' PROVE QuestionInv'
    BY DEF QuestionInv
  <2>0. Active
    BY <1>10
  <2>1. ASSUME NEW i \in DOMAIN toHost', toHost'[i].t = "digest" PROVE Untouched(toHost[i].f)'
    <3>1. PICK f : f = toHost'[i].f
      OBVIOUS
    <3>2. CASE i \in DOMAIN toHost
      <4>1. toHost'[i] = toHost[i] /\ Untouched(f) /\ Asks(i)
        BY <1>0, <1>2, <2>0, <2>1, <3>1, <3>2 DEF QuestionInv, Asks
      <4>2. f # m.f \/ \A j \in DOMAIN p : p[j].t # "block"
        BY <3>1, <3>2, <4>1
      <4> QED BY <1>15, <3>1, <4>1, <4>2
    <3>3. CASE i \notin DOMAIN toHost
      <4>1. PICK j \in DOMAIN p : toHost'[i] = p[j]
        BY <1>7, <3>3
      <4>2. Untouched(f) /\ (f # m.f \/ \A h \in DOMAIN p : p[h].t # "block")
        BY <2>0, <2>1, <3>1, <4>1
      <4> QED BY <1>15, <3>1, <4>2
    <3> QED BY <3>2, <3>3
  <2>2. ASSUME NEW i \in DOMAIN toPanel'
        PROVE  /\ toPanel'[i].t = "digest" => Untouched(toPanel[i].f)'
               /\ toPanel'[i].t = "confirm" => /\ Clear(toPanel[i].f)'
                                               /\ remote'[toPanel'[i].f] = toPanel'[i].k
    <3>1. PICK f : f = toPanel'[i].f
      OBVIOUS
    <3>2. /\ toPanel'[i].t = "digest" => Untouched(f)
          /\ toPanel'[i].t = "confirm" => Clear(f) /\ remote[f] = toPanel'[i].k
      BY <1>0, <1>12, <2>0, <3>1 DEF QuestionInv
    <3>3. toPanel'[i].t \in {"digest", "confirm"} => \A j \in DOMAIN p : p[j].t # "block"
      BY <2>2 DEF Answers
    <3> QED BY <1>14, <1>15, <3>1, <3>2, <3>3
  <2>3. deciding' # 0 => Untouched(deciding)'
    <3>1. deciding' # 0 => deciding' = deciding /\ Untouched(deciding) /\ \A j \in DOMAIN p : p[j].t # "block"
      BY <1>0, <2>0 DEF QuestionInv
    <3>2. PICK f : f = deciding'
      OBVIOUS
    <3> QED BY <1>15, <3>1, <3>2
  <2>4. up'.pc \in Sending \cup {"confirm"} => \A g \in 1..total' : g > up'.f => Untouched(g)'
    BY <1>15, <2>0
  <2> QED BY <2>1, <2>2, <2>3, <2>4 DEF QuestionInv
<1>21. LedgerInv'
  <2>0. \A f : Settles(f) => Settles(f)'
    BY DEF Settles
  <2>1. Active' => \A f \in Past' : Settles(f)' \/ Queued(f, 0)'
    <3> SUFFICES ASSUME Active', NEW f \in Past' PROVE Settles(f)' \/ Queued(f, 0)'
      OBVIOUS
    <3>1. CASE Settles(f)' \/ Queued(f, 0)
      BY <1>16, <3>1
    <3>2. CASE Post(p) /\ conn # "closed" /\ \E j \in DOMAIN p : /\ p[j].t = "block" /\ p[j].k = 0
                                                                /\ p[j].f = f
      <4>1. PICK j \in DOMAIN p : p[j].t = "block" /\ p[j].k = 0 /\ p[j].f = f
        BY <3>2
      <4>2. toHost' = toHost \o p
        BY <3>2 DEF Post
      <4>3. Len(toHost) + j \in DOMAIN toHost' /\ toHost'[Len(toHost) + j] = p[j]
        BY <1>0, <4>2
      <4>4. Queued(f, 0)'
        BY <4>1, <4>3 DEF Queued, BlockAt
      <4> QED BY <4>4
    <3> QED BY <1>10, <3>1, <3>2
  <2>2. ASSUME NEW i \in DOMAIN toHost', toHost'[i].t = "done"
        PROVE  up'.pc = "finished" /\ \A j \in DOMAIN toHost' : toHost'[j].t = "block" => j < i
    <3>1. CASE i \in DOMAIN toHost
      <4>1. up.pc = "finished" /\ \A j \in DOMAIN toHost : toHost[j].t = "block" => j < i
        BY <1>0, <1>2, <2>2, <3>1 DEF LedgerInv
      <4>2. \A j \in DOMAIN toHost' : toHost'[j].t = "block" => j \in DOMAIN toHost
        BY <1>8, <4>1
      <4> QED BY <1>2, <4>1, <4>2
    <3>2. CASE i \notin DOMAIN toHost
      <4>1. PICK h \in DOMAIN p : i = Len(toHost) + h /\ toHost'[i] = p[h]
        BY <1>7, <3>2
      <4>2. up'.pc = "finished" /\ \A j \in DOMAIN p : p[j].t = "block" => j < h
        BY <2>2, <4>1
      <4>3. \A j \in DOMAIN toHost : j < i
        BY <1>5, <4>1
      <4>4. \A j \in DOMAIN toHost' : j \notin DOMAIN toHost /\ toHost'[j].t = "block" => j < i
        <5>1. Len(toHost) \in Nat /\ \A j \in DOMAIN p : j \in Nat
          BY <1>0
        <5> QED BY <1>7, <4>1, <4>2, <5>1
      <4> QED BY <4>2, <4>3, <4>4
    <3> QED BY <3>1, <3>2
  <2>3. \A i \in DOMAIN toPanel' : toPanel'[i].t = "done" => \A f \in 1..total : Settles(f)'
    BY <1>0, <1>12, <2>0 DEF LedgerInv
  <2>4. status' = "done" => \A f \in 1..total : Settles(f)'
    BY <1>0, <2>0 DEF LedgerInv
  <2>5. \A f \in final' : remote'[f] = Blocks
    BY <1>0 DEF LedgerInv
  <2> QED BY <2>1, <2>2, <2>3, <2>4, <2>5 DEF LedgerInv
<1> QED BY <1>13, <1>18, <1>19, <1>20, <1>21 DEF UploadSums

\* What the steps of the panel leave alone.
PanelStep ==
    /\ UNCHANGED <<kind, total, host, remote, final>> /\ UNCHANGED <<chain, phase, writable, disk>>
    /\ skipped \subseteq skipped' /\ (conn = "closed" => conn' = "closed")
    /\ toPanel' = toPanel \/ (toPanel # <<>> /\ toPanel' = Tail(toPanel))
    /\ deciding' \in {0, deciding} /\ up' \in Positions
    /\ status' = "none" => status = "none" /\ UNCHANGED toHost
    /\ status' = "done" => status = "done" \/ \A f \in 1..total : Settles(f)

\* A step that neither asks nor sends: uploadFiles stays where it is, or stops.
LEMMA Resting ==
    ASSUME PanelType, UploadSums, PanelStep,
           NEW p \in Seq(Messages), Post(p) \/ UNCHANGED toHost,
           \A j \in DOMAIN p : p[j].t \in {"cancel", "error", "confirm"},
           \/ up' = up
           \/ up'.pc = "stopped" /\ up.pc # "finished"
           \/ up.pc = "sent" /\ up' = [up EXCEPT !.pc = "drain"]
    PROVE  UploadSums'
<1>1. PICK m \in Messages : m.f \in 1..total
  <2>1. total \in Nat \ {0}
    BY TransferBounds DEF UploadSums, UploadShape, Files
  <2>2. M("block", total, 0) \in Messages /\ M("block", total, 0).f = total
    BY <2>1 DEF M, Messages, MessageKinds
  <2> QED BY <2>1, <2>2
<1>2. \A j \in DOMAIN p : p[j].t \notin {"receive", "block", "digest", "done"}
  OBVIOUS
<1>3. UploadShape /\ SenderInv /\ QuestionInv /\ LedgerInv
  BY DEF UploadSums
<1>4. up \in Positions /\ up.f \in Nat /\ up.k \in Nat
  BY DEF PanelType, Positions
<1>5. \/ up' = up
      \/ up'.pc = "stopped" /\ up.pc # "finished"
      \/ up.pc = "sent" /\ up'.pc = "drain" /\ up'.f = up.f /\ up'.k = up.k
  BY <1>4 DEF Positions
<1>6. up'.pc \in Sending \cup {"confirm"} =>
         up.pc \in Sending \cup {"confirm"} /\ up'.f = up.f /\ up'.k = up.k
  BY <1>5 DEF Sending
<1>7. up'.pc \in Sending => up.pc \in Sending /\ Top' = Top /\ up'.f = up.f /\ up'.k = up.k
  BY <1>5 DEF Sending, Top
<1>8. Past' \subseteq Past
  <2>1. total' = total
    BY DEF PanelStep
  <2> QED BY <1>5, <1>6, <2>1 DEF Past
<1>9. \A f : Settles(f) => Settles(f)'
  BY DEF Settles, PanelStep
<1>10. Active => \A f \in Past' : Settles(f)' \/ Queued(f, 0)
  BY <1>3, <1>8, <1>9 DEF LedgerInv
<1>11. Active /\ conn' # "closed" /\ up'.pc \in Sending => up'.k \in 1..Blocks /\ Ready(up'.f, Top')
  <2>1. conn' # "closed" => conn # "closed"
    BY DEF PanelStep
  <2> QED BY <1>3, <1>7, <2>1 DEF SenderInv
<1>12. Active /\ up'.pc \in Sending \cup {"confirm"} => \A g \in 1..total : g > up'.f => Untouched(g)
  BY <1>3, <1>6 DEF QuestionInv
<1>13. /\ up'.pc \in Sending \cup {"confirm"} => up'.f \in 1..total
       /\ up.pc = "finished" => up'.pc = "finished"
  BY <1>3, <1>5, <1>6 DEF UploadShape
<1>14. /\ UNCHANGED <<kind, total, host, remote, final>> /\ UNCHANGED <<chain, phase, writable, disk>>
       /\ skipped \subseteq skipped' /\ (conn = "closed" => conn' = "closed")
       /\ toPanel' = toPanel \/ (toPanel # <<>> /\ toPanel' = Tail(toPanel))
       /\ deciding' \in {0, deciding} /\ up' \in Positions
       /\ status' = "none" => status = "none" /\ UNCHANGED toHost
       /\ status' = "done" => status = "done" \/ \A f \in 1..total : Settles(f)
  BY DEF PanelStep
<1> QED BY <1>1, <1>2, <1>10, <1>11, <1>12, <1>13, <1>14, Posting

\* A continuation r of uploadFiles at file f with n of its blocks behind it: the end
\* of the file, if eof, then the question for the next file or the end of the job.
Shape(r, f, n, eof, stop) ==
    /\ r \in Continuations
    /\ \A j \in DOMAIN r.post :
          \/ eof /\ j = 1 /\ r.post[j] = M("block", f, 0)
          \/ r.post[j] = M("digest", f + 1, 0) /\ f + 1 <= total
             /\ r.up = At("confirm", f + 1, 0) /\ (eof => j # 1)
          \/ r.post[j] = M("done", 0, 0) /\ r.up = At("finished", 0, 0) /\ (eof => j # 1)
    /\ eof => 1 \in DOMAIN r.post /\ r.post[1] = M("block", f, 0)
    /\ \/ r.up.pc = "stopped"
       \/ ~stop /\ r.up = At("finished", 0, 0) /\ f + 1 > total
       \/ ~stop /\ r.up = At("confirm", f + 1, 0) /\ f + 1 <= total
       \/ ~stop /\ r.up = At("read", f, n + 1) /\ n < Blocks /\ ~eof

\* What NextFile is after file f, and what NextBlock is in it.
LEMMA NextFileShape ==
    ASSUME PanelType, NEW f \in Nat, NEW n \in Nat, NEW stop \in BOOLEAN
    PROVE  /\ Shape(NextFile(f + 1, stop), f, n, FALSE, stop)
           /\ NextFile(f + 1, stop).up.pc # "read"
<1> DEFINE i == f + 1
           r == NextFile(i, stop)
<1>0. i \in Nat \ {0} /\ total \in Nat
  BY DEF PanelType
<1>1. r \in Continuations
  <2>1. Continues(NextFile(i, stop), f)
    BY <1>0, NextFileContinues
  <2> QED BY <2>1 DEF Continues
<1>2. CASE stop
  <2>1. r = [post |-> <<>>, up |-> At("stopped", i, 0)]
    BY <1>2 DEF NextFile
  <2>2. At("stopped", i, 0).pc = "stopped"
    BY DEF At
  <2>3. r.post = <<>> /\ r.up.pc = "stopped"
    BY <2>1, <2>2
  <2> QED BY <1>1, <2>3 DEF Shape
<1>3. CASE ~stop /\ i > total
  <2>1. r = [post |-> <<M("done", 0, 0)>>, up |-> At("finished", 0, 0)]
    BY <1>3 DEF NextFile
  <2>2. r.post = <<M("done", 0, 0)>> /\ r.up = At("finished", 0, 0) /\ r.up.pc = "finished"
    BY <2>1 DEF At
  <2>3. DOMAIN r.post = {1} /\ r.post[1] = M("done", 0, 0)
    BY <2>2
  <2> QED BY <1>1, <1>3, <2>2, <2>3 DEF Shape
<1>4. CASE ~stop /\ ~(i > total)
  <2>1. r = [post |-> <<M("digest", i, 0)>>, up |-> At("confirm", i, 0)]
    BY <1>4 DEF NextFile
  <2>2. r.post = <<M("digest", i, 0)>> /\ r.up = At("confirm", i, 0) /\ r.up.pc = "confirm"
    BY <2>1 DEF At
  <2>3. DOMAIN r.post = {1} /\ r.post[1] = M("digest", i, 0)
    BY <2>2
  <2>4. f + 1 <= total
    BY <1>0, <1>4
  <2> QED BY <1>1, <1>4, <2>2, <2>3, <2>4 DEF Shape
<1> QED BY <1>2, <1>3, <1>4

\* The same after n blocks of file f: its end comes first, if they are all.
LEMMA NextBlockShape ==
    ASSUME PanelType, NEW f \in Nat, NEW n \in Nat, NEW stop \in BOOLEAN
    PROVE  Shape(NextBlock(f, n, stop), f, n, n >= Blocks, stop)
<1> DEFINE r == NextBlock(f, n, stop)
           x == NextFile(f + 1, stop)
<1>0. Blocks \in Nat
  BY TransferBounds
<1>1. r \in Continuations
  <2>1. Continues(NextBlock(f, n, stop), f)
    BY NextBlockContinues
  <2> QED BY <2>1 DEF Continues
<1>2. CASE n >= Blocks
  <2>1. r = [post |-> <<M("block", f, 0)>> \o x.post, up |-> x.up]
    BY <1>2 DEF NextBlock
  <2>2. Shape(x, f, n, FALSE, stop) /\ x.up.pc # "read"
    BY NextFileShape
  <2>3. x.post \in Seq(Messages) /\ M("block", f, 0) \in Messages
    BY <2>2 DEF Shape, Continuations, M, Messages, MessageKinds
  <2>r. r.post = <<M("block", f, 0)>> \o x.post /\ r.up = x.up
    BY <2>1
  <2> HIDE DEF x, r
  <2>4. PICK s \in Seq(Messages) : s = <<M("block", f, 0)>> /\ s[1] = M("block", f, 0) /\ Len(s) = 1
    BY <2>3, Single
  <2>5. PICK y \in Seq(Messages) : y = x.post
    BY <2>3
  <2>6. PICK p : p = s \o y
    OBVIOUS
  <2>7. /\ p \in Seq(Messages) /\ 1 \in DOMAIN p /\ p[1] = s[1]
        /\ \A i \in DOMAIN p : i = 1 \/ \E j \in DOMAIN y : i = 1 + j /\ p[i] = y[j]
    <3>1. /\ s \o y \in Seq(Messages)
          /\ \A i \in DOMAIN s : i \in DOMAIN (s \o y) /\ (s \o y)[i] = s[i]
          /\ \A i \in DOMAIN (s \o y) :
                 \/ i \in DOMAIN s /\ (s \o y)[i] = s[i]
                 \/ \E j \in DOMAIN y : i = Len(s) + j /\ (s \o y)[i] = y[j]
      BY Joined
    <3>2. DOMAIN s = {1}
      BY <2>4
    <3> QED BY <2>4, <2>6, <3>1, <3>2
  <2>8. p = r.post
    BY <2>r, <2>4, <2>5, <2>6
  <2>9. \A j \in DOMAIN y : 1 + j # 1
    OBVIOUS
  <2>10. \A j \in DOMAIN r.post :
          \/ j = 1 /\ r.post[j] = M("block", f, 0)
          \/ r.post[j] = M("digest", f + 1, 0) /\ f + 1 <= total
             /\ r.up = At("confirm", f + 1, 0) /\ j # 1
          \/ r.post[j] = M("done", 0, 0) /\ r.up = At("finished", 0, 0) /\ j # 1
    <3> SUFFICES ASSUME NEW j \in DOMAIN p, j # 1
                 PROVE  \/ p[j] = M("digest", f + 1, 0) /\ f + 1 <= total
                           /\ x.up = At("confirm", f + 1, 0)
                        \/ p[j] = M("done", 0, 0) /\ x.up = At("finished", 0, 0)
      BY <2>r, <2>4, <2>7, <2>8
    <3>1. PICK h \in DOMAIN y : p[j] = y[h]
      BY <2>7
    <3> QED BY <2>2, <2>5, <3>1 DEF Shape
  <2>11. \/ r.up.pc = "stopped"
         \/ ~stop /\ r.up = At("finished", 0, 0) /\ f + 1 > total
         \/ ~stop /\ r.up = At("confirm", f + 1, 0) /\ f + 1 <= total
    <3>1. At("read", f, n + 1).pc = "read"
      BY DEF At
    <3> QED BY <2>2, <2>r, <3>1 DEF Shape
  <2> QED BY <1>1, <1>2, <2>4, <2>7, <2>8, <2>10, <2>11 DEF Shape, r
<1>3. CASE ~(n >= Blocks)
  <2>1. r.post = <<>> /\ r.up = IF stop THEN At("stopped", f, n) ELSE At("read", f, n + 1)
    BY <1>3 DEF NextBlock
  <2>2. At("stopped", f, n).pc = "stopped" /\ n < Blocks
    BY <1>0, <1>3 DEF At
  <2> QED BY <1>1, <1>3, <2>1, <2>2 DEF Shape
<1> QED BY <1>2, <1>3

\* uploadFiles goes on with continuation r at file f, whose messages are posted behind
\* those of s.  What is before file f is settled, what is behind it untouched.
Goes(r, f, n, eof, stop, s) ==
    /\ Shape(r, f, n, eof, stop) /\ up' = r.up /\ up.pc # "finished"
    /\ Post(s \o r.post) /\ \A j \in DOMAIN s : s[j].t \in {"cancel", "confirm"}
    /\ (~stop => conn # "closed") /\ (eof => n >= Blocks)
    /\ Active /\ conn # "closed" /\ (eof \/ r.up.pc = "read") => Ready(f, n)
    /\ Active => \A g \in 1..total : g > f => Untouched(g)
    /\ Active => \A g \in 1..(f - 1) : Settles(g) \/ Queued(g, 0)
    /\ r.up.pc \in {"finished", "confirm"} => eof \/ f \in skipped'

\* A step by which uploadFiles moves on keeps the accounts.
LEMMA Moving ==
    ASSUME PanelType, UploadSums, PanelStep,
           NEW r, NEW f \in 1..total, NEW n \in Nat, NEW eof \in BOOLEAN, NEW stop \in BOOLEAN,
           NEW s \in Seq(Messages), Goes(r, f, n, eof, stop, s),
           deciding' = 0, \A i \in DOMAIN toPanel' : ~Answers(i)', \A i \in DOMAIN toHost : ~Asks(i)
    PROVE  UploadSums'
<1>p. PICK c \in Nat, p \in Seq(Messages) :
         /\ Post(p)
         /\ \A j \in DOMAIN p :
              \/ p[j].t \in {"cancel", "confirm"}
              \/ \E i \in DOMAIN r.post : j = c + i /\ p[j] = r.post[i]
         /\ \A i \in DOMAIN r.post : c + i \in DOMAIN p /\ p[c + i] = r.post[i]
  <2>1. PICK y \in Seq(Messages) : y = r.post
    BY DEF Goes, Shape, Continuations
  <2>2. PICK p : p = s \o y
    OBVIOUS
  <2>3. /\ p \in Seq(Messages) /\ Len(s) \in Nat
        /\ \A i \in DOMAIN p : \/ i \in DOMAIN s /\ p[i] = s[i]
                               \/ \E j \in DOMAIN y : i = Len(s) + j /\ p[i] = y[j]
    BY <2>2, Joined
  <2>4. \A i \in DOMAIN y : Len(s) + i \in DOMAIN p /\ p[Len(s) + i] = y[i]
    BY <2>2
  <2>5. Post(p) /\ \A j \in DOMAIN s : s[j].t \in {"cancel", "confirm"}
    BY <2>1, <2>2 DEF Goes
  <2>6. \A j \in DOMAIN p :
              \/ p[j].t \in {"cancel", "confirm"}
              \/ \E i \in DOMAIN r.post : j = Len(s) + i /\ p[j] = r.post[i]
    BY <2>1, <2>3, <2>5
  <2>7. \A i \in DOMAIN r.post : Len(s) + i \in DOMAIN p /\ p[Len(s) + i] = r.post[i]
    BY <2>1, <2>4
  <2> QED BY <2>3, <2>5, <2>6, <2>7
<1> USE <1>p DEF Goes
<1> DEFINE m == M("block", f, 0)
<1>0. /\ total \in Nat /\ Blocks \in Nat /\ f \in Nat /\ f >= 1 /\ f <= total
      /\ DOMAIN p \subseteq Nat /\ DOMAIN r.post \subseteq Nat
      /\ r.post \in Seq(Messages) /\ r.up \in Positions
  <2>1. total \in Nat /\ Blocks \in Nat
    BY TransferBounds DEF PanelType
  <2>2. r.post \in Seq(Messages) /\ r.up \in Positions
    BY DEF Shape, Continuations
  <2>3. DOMAIN p \subseteq Nat /\ DOMAIN r.post \subseteq Nat
    BY <2>2
  <2> QED BY <2>1, <2>2, <2>3
<1>1. /\ m \in Messages /\ m.t = "block" /\ m.f = f /\ m.k = 0
      /\ M("digest", f + 1, 0).t = "digest" /\ M("digest", f + 1, 0).f = f + 1
      /\ M("done", 0, 0).t = "done"
  BY <1>0 DEF M, Messages, MessageKinds
<1>2. /\ At("finished", 0, 0).pc = "finished"
      /\ At("confirm", f + 1, 0).pc = "confirm" /\ At("confirm", f + 1, 0).f = f + 1
      /\ At("read", f, n + 1).pc = "read" /\ At("read", f, n + 1).f = f
      /\ At("read", f, n + 1).k = n + 1
  BY DEF At
<1> HIDE DEF m
<1>3. \A i \in DOMAIN r.post :
         \/ eof /\ i = 1 /\ r.post[i] = m
         \/ r.post[i].t = "digest" /\ r.post[i].f = f + 1 /\ f + 1 <= total /\ (eof => i # 1)
         \/ r.post[i].t = "done" /\ r.up.pc = "finished" /\ (eof => i # 1)
  BY <1>1, <1>2 DEF Shape, m
<1>4. \A j \in DOMAIN p :
         \/ p[j].t \in {"cancel", "confirm"}
         \/ eof /\ j = c + 1 /\ p[j] = m
         \/ p[j].t = "digest" /\ p[j].f = f + 1 /\ f + 1 <= total
         \/ p[j].t = "done" /\ r.up.pc = "finished" /\ (eof => j > c + 1)
  <2> SUFFICES ASSUME NEW j \in DOMAIN p, NEW i \in DOMAIN r.post, j = c + i, p[j] = r.post[i]
               PROVE  \/ eof /\ j = c + 1 /\ p[j] = m
                      \/ p[j].t = "digest" /\ p[j].f = f + 1 /\ f + 1 <= total
                      \/ p[j].t = "done" /\ r.up.pc = "finished" /\ (eof => j > c + 1)
    OBVIOUS
  <2>1. i \in Nat /\ i >= 1
    BY <1>0
  <2> QED BY <1>3, <2>1
<1>5. \A j \in DOMAIN p :
         /\ p[j].t # "receive"
         /\ p[j].t = "block" => eof /\ j = c + 1 /\ p[j] = m
         /\ p[j].t = "digest" => p[j].f = f + 1 /\ f + 1 <= total
         /\ p[j].t = "done" => r.up.pc = "finished" /\ (eof => j > c + 1)
  BY <1>1, <1>4
<1>6. \A i, j \in DOMAIN p : /\ p[i].t = "block" /\ p[j].t = "block" => i = j
                             /\ p[i].t = "done" /\ p[j].t = "block" => j < i
                             /\ p[i].t = "digest" /\ p[j].t = "block" => p[i].f # m.f
  <2>1. f + 1 # f
    BY <1>0
  <2> QED BY <1>0, <1>1, <1>5, <2>1
<1>7. \A j \in DOMAIN p : p[j].t = "digest" /\ Active => Untouched(p[j].f)
  <2>1. f + 1 <= total => f + 1 \in 1..total /\ f + 1 > f
    BY <1>0
  <2> QED BY <1>5, <2>1
<1>8. \A j \in DOMAIN p : p[j].t = "block" /\ Active /\ conn # "closed" => InLine(m)
  <2> SUFFICES ASSUME eof, Active, conn # "closed" PROVE InLine(m)
    BY <1>5
  <2>1. Ready(f, n) /\ n = Blocks
    BY <1>0 DEF Ready
  <2>2. n \in 0..Blocks
    BY <1>0, <2>1
  <2> QED BY <1>1, <2>1, <2>2 DEF InLine
<1>9. \/ r.up.pc = "stopped"
      \/ ~stop /\ r.up.pc = "finished" /\ f + 1 > total
      \/ ~stop /\ r.up.pc = "confirm" /\ r.up.f = f + 1 /\ f + 1 <= total
      \/ ~stop /\ r.up.pc = "read" /\ r.up.f = f /\ r.up.k = n + 1 /\ n < Blocks /\ ~eof
  BY <1>2 DEF Shape
<1>10. up'.pc \in Sending \cup {"confirm"} => up'.f \in 1..total
  BY <1>0, <1>9 DEF Sending
<1>11. Active /\ conn' # "closed" /\ up'.pc \in Sending =>
          up'.k \in 1..Blocks /\ Ready(up'.f, Top') /\ \A j \in DOMAIN p : p[j].t # "block"
  <2> SUFFICES ASSUME Active, conn' # "closed", up'.pc \in Sending
               PROVE  up'.k \in 1..Blocks /\ Ready(up'.f, Top') /\ \A j \in DOMAIN p : p[j].t # "block"
    OBVIOUS
  <2>1. r.up.pc = "read" /\ r.up.f = f /\ r.up.k = n + 1 /\ n < Blocks /\ ~eof
    BY <1>9 DEF Sending
  <2>2. conn # "closed"
    BY DEF PanelStep
  <2>3. Top' = n /\ up'.k \in 1..Blocks
    BY <1>0, <2>1 DEF Top
  <2> QED BY <1>5, <2>1, <2>2, <2>3
<1>12. Active /\ up'.pc \in Sending \cup {"confirm"} => \A g \in 1..total : g > up'.f =>
              Untouched(g) /\ \A j \in DOMAIN p : p[j].t = "block" => g # m.f
  <2> SUFFICES ASSUME Active, up'.pc \in Sending \cup {"confirm"}, NEW g \in 1..total, g > up'.f
               PROVE  Untouched(g) /\ g # m.f
    OBVIOUS
  <2>1. up'.f \in {f, f + 1}
    BY <1>9 DEF Sending
  <2>2. g > f /\ g # f
    BY <1>0, <2>1
  <2> QED BY <1>1, <2>2
<1>13. Active => \A g \in Past' : \/ Settles(g)' \/ Queued(g, 0)
                                  \/ Post(p) /\ conn # "closed"
                                     /\ \E j \in DOMAIN p : /\ p[j].t = "block" /\ p[j].k = 0
                                                            /\ p[j].f = g
  <2> SUFFICES ASSUME Active, NEW g \in Past'
               PROVE \/ Settles(g)' \/ Queued(g, 0)
                     \/ conn # "closed" /\ \E j \in DOMAIN p : /\ p[j].t = "block" /\ p[j].k = 0
                                                               /\ p[j].f = g
    OBVIOUS
  <2>1. total' = total
    BY DEF PanelStep
  <2>2. g \in 1..(f - 1) \/ (g = f /\ up'.pc \in {"finished", "confirm"} /\ ~stop)
    BY <1>0, <1>9, <2>1 DEF Past, Sending
  <2>3. CASE g \in 1..(f - 1)
    BY <2>3 DEF Settles, PanelStep
  <2>4. CASE g = f /\ up'.pc \in {"finished", "confirm"} /\ ~stop
    <3>1. CASE f \in skipped'
      BY <2>4, <3>1 DEF Settles
    <3>2. CASE eof
      <4>1. 1 \in DOMAIN r.post /\ r.post[1] = m
        BY <3>2 DEF Shape, m
      <4>2. c + 1 \in DOMAIN p /\ p[c + 1] = m
        BY <4>1
      <4> QED BY <1>1, <2>4, <4>2
    <3> QED BY <2>4, <3>1, <3>2
  <2> QED BY <2>2, <2>3, <2>4
<1>14. /\ UNCHANGED <<kind, total, host, remote, final>> /\ UNCHANGED <<chain, phase, writable, disk>>
       /\ skipped \subseteq skipped' /\ (conn = "closed" => conn' = "closed")
       /\ toPanel' = toPanel \/ (toPanel # <<>> /\ toPanel' = Tail(toPanel))
       /\ deciding' \in {0, deciding} /\ up' \in Positions
       /\ status' = "none" => status = "none" /\ UNCHANGED toHost
       /\ status' = "done" => status = "done" \/ \A g \in 1..total : Settles(g)
  BY DEF PanelStep
<1>15. m \in Messages /\ m.f \in 1..total
  BY <1>1
<1> QED BY <1>5, <1>6, <1>7, <1>8, <1>10, <1>11, <1>12, <1>13, <1>14, <1>15, Posting

\* No question is open while a file is sent.
LEMMA NoQuestion ==
    ASSUME PanelType, UploadInv, kind = "upload", PanelStep, up.pc \in Sending
    PROVE  /\ deciding' = 0 /\ \A i \in DOMAIN toPanel' : ~Answers(i)'
           /\ \A i \in DOMAIN toHost : ~Asks(i)
<1>1. TokenInv /\ \A f : ~Waits(f)
  BY DEF UploadInv, Waits, Sending
<1>2. /\ deciding = 0 /\ \A i \in DOMAIN toPanel : ~Answers(i)
      /\ \A i \in DOMAIN toHost : ~Asks(i)
  BY <1>1 DEF TokenInv
<1>3. deciding' = 0
  BY <1>2 DEF PanelStep
<1>4. CASE toPanel' = toPanel
  BY <1>2, <1>3, <1>4 DEF Answers
<1>5. CASE toPanel # <<>> /\ toPanel' = Tail(toPanel)
  <2>1. \A i \in DOMAIN toPanel' : i + 1 \in DOMAIN toPanel /\ toPanel'[i] = toPanel[i + 1]
    BY <1>5, Received DEF PanelType
  <2> QED BY <1>2, <1>3, <2>1 DEF Answers
<1> QED BY <1>4, <1>5 DEF PanelStep

\* The block loop goes on behind the block that was sent, or stops there.
LEMMA BlockLoop ==
    ASSUME PanelType, UploadInv, kind = "upload", UploadSums, PanelStep,
           up.pc \in {"sent", "drain"}, NEW stop \in BOOLEAN, ~stop => conn # "closed",
           NEW s \in Seq(Messages), \A j \in DOMAIN s : s[j].t \in {"cancel", "confirm"},
           up' = NextBlock(up.f, up.k, stop).up, Post(s \o NextBlock(up.f, up.k, stop).post)
    PROVE  UploadSums'
<1> DEFINE r == NextBlock(up.f, up.k, stop)
<1>1. up.f \in Nat /\ up.k \in Nat
  BY DEF PanelType, Positions
<1>2. Shape(r, up.f, up.k, up.k >= Blocks, stop)
  BY <1>1, NextBlockShape
<1>3. Post(s \o r.post) /\ up' = r.up
  OBVIOUS
<1> HIDE DEF r
<1>4. PICK eof \in BOOLEAN : Shape(r, up.f, up.k, eof, stop) /\ (eof <=> up.k >= Blocks)
  <2>1. (up.k >= Blocks) \in BOOLEAN
    OBVIOUS
  <2> QED BY <1>2, <2>1
<1>5. /\ deciding' = 0 /\ \A i \in DOMAIN toPanel' : ~Answers(i)'
      /\ \A i \in DOMAIN toHost : ~Asks(i)
  <2>1. up.pc \in Sending
    BY DEF Sending
  <2> QED BY <2>1, NoQuestion
<1>6. PICK f \in 1..total, n \in Nat : f = up.f /\ n = up.k
  <2>1. up.f \in 1..total
    BY DEF UploadSums, UploadShape, Sending
  <2> QED BY <1>1, <2>1
<1>7. Active /\ conn # "closed" => Ready(f, n)
  BY <1>6 DEF UploadSums, SenderInv, Sending, Top
<1>8. Active => \A g \in 1..total : g > f => Untouched(g)
  BY <1>6 DEF UploadSums, QuestionInv, Sending
<1>9. Active => \A g \in 1..(f - 1) : Settles(g) \/ Queued(g, 0)
  BY <1>6 DEF UploadSums, LedgerInv, Sending, Past
<1>10. r.up.pc \in {"finished", "confirm"} => eof
  <2>1. Shape(NextBlock(up.f, up.k, stop), up.f, up.k, up.k >= Blocks, stop)
    BY <1>2 DEF r
  <2>2. CASE up.k >= Blocks
    BY <1>4, <2>2
  <2>3. CASE ~(up.k >= Blocks)
    <3>1. r.up = IF stop THEN At("stopped", up.f, up.k) ELSE At("read", up.f, up.k + 1)
      BY <2>3 DEF NextBlock, r
    <3>2. r.up.pc \in {"stopped", "read"}
      BY <3>1 DEF At
    <3> QED BY <3>2
  <2> QED BY <2>2, <2>3
<1>11. up.pc # "finished"
  OBVIOUS
<1>12. Shape(r, f, n, eof, stop) /\ (eof => n >= Blocks)
  BY <1>4, <1>6
<1>13. Goes(r, f, n, eof, stop, s)
  BY <1>3, <1>7, <1>8, <1>9, <1>10, <1>11, <1>12 DEF Goes
<1> QED BY <1>5, <1>13, Moving

\* The waiters of a job that ends are released.
LEMMA Releasing ==
    ASSUME PanelType, UploadInv, kind = "upload", UploadSums, PanelStep,
           up' = ReleaseWaiters.up,
           \/ Post(<<M("cancel", 0, 0)>> \o ReleaseWaiters.post)
           \/ Post(ReleaseWaiters.post)
           \/ UNCHANGED toHost
    PROVE  UploadSums'
<1> DEFINE m == M("cancel", 0, 0)
           r == ReleaseWaiters
<1>1. m \in Messages /\ m.t = "cancel" /\ up.f \in Nat /\ up.k \in Nat
  BY DEF M, Messages, MessageKinds, PanelType, Positions
<1>2. PICK s \in Seq(Messages) : s = <<m>> /\ DOMAIN s = {1} /\ s[1] = m /\ Len(s) = 1
  BY <1>1, Single
<1>3. PICK e \in Seq(Messages) : e = <<>> /\ DOMAIN e = {}
  <2>1. <<>> \in Seq(Messages) /\ DOMAIN <<>> = {}
    OBVIOUS
  <2> QED BY <2>1
<1> HIDE DEF m
<1>4. CASE up.pc # "sent"
  <2>1. r = [post |-> <<>>, up |-> up] \/ (up.pc = "confirm" /\ r = [post |-> <<>>, up |-> At("stopped", up.f, 0)])
    BY <1>4 DEF ReleaseWaiters
  <2>2. At("stopped", up.f, 0).pc = "stopped"
    BY DEF At
  <2>3. r.post = <<>> /\ (r.up = up \/ (r.up.pc = "stopped" /\ up.pc # "finished"))
    BY <2>1, <2>2
  <2>4. <<m>> \o <<>> = s
    BY <1>2
  <2>5. Post(s) \/ Post(e) \/ UNCHANGED toHost
    BY <1>3, <2>3, <2>4 DEF m
  <2>6. CASE Post(s)
    <3>1. \A j \in DOMAIN s : s[j].t \in {"cancel", "error", "confirm"}
      BY <1>1, <1>2
    <3> QED BY <2>3, <2>6, <3>1, Resting
  <2>7. CASE Post(e) \/ UNCHANGED toHost
    BY <1>3, <2>3, <2>7, Resting
  <2> QED BY <2>5, <2>6, <2>7
<1>5. CASE up.pc = "sent"
  <2>1. r = NextBlock(up.f, up.k, TRUE)
    BY <1>5 DEF ReleaseWaiters
  <2>2. r.up.pc = "stopped" /\ TRUE \in BOOLEAN
    BY <1>1, <2>1, StopsNow
  <2>3. up' = r.up
    OBVIOUS
  <2>4. r.post \in Seq(Messages)
    <3>1. Continues(NextBlock(up.f, up.k, TRUE), up.f)
      BY <1>1, NextBlockContinues
    <3> QED BY <2>1, <3>1 DEF Continues, Continuations
  <2>8. CASE Post(<<m>> \o r.post)
    <3>1. Post(s \o r.post) /\ \A j \in DOMAIN s : s[j].t \in {"cancel", "confirm"}
      BY <1>1, <1>2, <2>8
    <3> QED BY <1>5, <2>1, <2>2, <2>3, <3>1, BlockLoop
  <2>9. CASE Post(r.post)
    <3>1. e \o r.post = r.post
      BY <1>3, <2>4
    <3>2. Post(e \o r.post) /\ \A j \in DOMAIN e : e[j].t \in {"cancel", "confirm"}
      BY <1>3, <2>9, <3>1
    <3> QED BY <1>5, <2>1, <2>2, <2>3, <3>2, BlockLoop
  <2>10. CASE UNCHANGED toHost
    <3>1. up'.pc = "stopped" /\ up.pc # "finished"
      BY <1>5, <2>2, <2>3
    <3> QED BY <1>3, <2>10, <3>1, Resting
  <2>11. Post(<<m>> \o r.post) \/ Post(r.post) \/ UNCHANGED toHost
    BY DEF m, r
  <2> QED BY <2>8, <2>9, <2>10, <2>11
<1> QED BY <1>4, <1>5

\* The wait for the go-ahead of a file ends: the file is passed over, or its blocks
\* behind the first n are sent.
LEMMA Answered ==
    ASSUME PanelType, UploadInv, kind = "upload", UploadSums, PanelStep, up.pc = "confirm",
           NEW skip \in BOOLEAN, NEW n \in Nat, NEW stop \in BOOLEAN, ~stop => conn # "closed",
           NEW s \in Seq(Messages), \A j \in DOMAIN s : s[j].t \in {"cancel", "confirm"},
           up' = AfterConfirm(up.f, skip, n, stop).up,
           Post(s \o AfterConfirm(up.f, skip, n, stop).post),
           skip => up.f \in skipped',
           ~skip /\ Active => Clear(up.f) /\ remote[up.f] = n,
           deciding' = 0, \A i \in DOMAIN toPanel' : ~Answers(i)', \A i \in DOMAIN toHost : ~Asks(i)
    PROVE  UploadSums'
<1> DEFINE r == AfterConfirm(up.f, skip, n, stop)
<1>1. up.f \in Nat
  BY DEF PanelType, Positions
<1>2. PICK f \in 1..total : f = up.f
  BY DEF UploadSums, UploadShape, Sending
<1>3. Active => \A g \in 1..total : g > f => Untouched(g)
  BY <1>2 DEF UploadSums, QuestionInv, Sending
<1>4. Active => \A g \in 1..(f - 1) : Settles(g) \/ Queued(g, 0)
  BY <1>2 DEF UploadSums, LedgerInv, Sending, Past
<1>5. up.pc # "finished" /\ up' = r.up /\ Post(s \o r.post)
  OBVIOUS
<1>6. CASE stop
  <2>1. r = [post |-> <<>>, up |-> At("stopped", up.f, 0)]
    BY <1>6 DEF AfterConfirm
  <2>2. r.post = <<>> /\ r.up.pc = "stopped"
    BY <2>1 DEF At
  <2>3. s \o <<>> = s
    OBVIOUS
  <2>4. Post(s)
    BY <1>5, <2>2, <2>3
  <2> QED BY <1>5, <2>2, <2>4, Resting
<1>7. CASE ~stop /\ skip
  <2>1. r = NextFile(up.f + 1, stop)
    BY <1>7 DEF AfterConfirm
  <2>2. Shape(r, up.f, n, FALSE, stop) /\ r.up.pc # "read"
    BY <1>1, <2>1, NextFileShape
  <2> HIDE DEF r
  <2>3. PICK eof \in BOOLEAN : Shape(r, f, n, eof, stop) /\ ~eof
    BY <1>2, <2>2
  <2>4. Goes(r, f, n, eof, stop, s)
    BY <1>2, <1>3, <1>4, <1>5, <1>7, <2>2, <2>3 DEF Goes
  <2> QED BY <2>4, Moving
<1>8. CASE ~stop /\ ~skip
  <2>1. r = NextBlock(up.f, n, stop)
    BY <1>8 DEF AfterConfirm
  <2>2. Shape(r, up.f, n, n >= Blocks, stop)
    BY <1>1, <2>1, NextBlockShape
  <2> HIDE DEF r
  <2>3. PICK eof \in BOOLEAN : Shape(r, f, n, eof, stop) /\ (eof <=> n >= Blocks)
    <3>1. (n >= Blocks) \in BOOLEAN
      OBVIOUS
    <3> QED BY <1>2, <2>2, <3>1
  <2>4. r.up.pc \in {"finished", "confirm"} => eof
    <3>1. CASE n >= Blocks
      BY <2>3, <3>1
    <3>2. CASE ~(n >= Blocks)
      <4>1. r.up = IF stop THEN At("stopped", up.f, n) ELSE At("read", up.f, n + 1)
        BY <2>1, <3>2 DEF NextBlock
      <4>2. r.up.pc \in {"stopped", "read"}
        BY <4>1 DEF At
      <4> QED BY <4>2
    <3> QED BY <3>1, <3>2
  <2>5. Active => Ready(f, n)
    <3> SUFFICES ASSUME Active PROVE Ready(f, n)
      OBVIOUS
    <3>1. Clear(f) /\ remote[f] = n
      BY <1>2, <1>8
    <3>2. n <= Blocks
      <4>1. f \in Files
        BY TransferBounds DEF UploadSums, UploadShape, Files
      <4> QED BY <3>1, <4>1 DEF UploadSums, UploadShape
    <3>3. \A b \in 1..n : ~(b > remote[f])
      BY <3>1
    <3> QED BY <3>1, <3>2, <3>3 DEF Ready, Clear
  <2>6. Goes(r, f, n, eof, stop, s)
    BY <1>3, <1>4, <1>5, <1>8, <2>3, <2>4, <2>5 DEF Goes
  <2> QED BY <2>6, Moving
<1> QED BY <1>6, <1>7, <1>8

\* The end of onFtDigest.
LEMMA ConfirmedSums ==
    ASSUME PanelType, UploadInv, kind = "upload", UploadSums, deciding # 0,
           UNCHANGED <<kind, total, conn, status>>, UNCHANGED local, UNCHANGED device,
           UNCHANGED toPanel, NEW skip \in BOOLEAN, Confirmed(skip), PanelType'
    PROVE  UploadSums'
<1> DEFINE m == M("confirm", deciding, IF skip THEN 1 ELSE 0)
           stop == JobStopped(status, conn)
<1>1. /\ m \in Messages /\ m.t = "confirm" /\ stop \in BOOLEAN /\ (~stop => conn # "closed")
  BY DEF PanelType, M, Messages, MessageKinds, JobStopped
<1>2. deciding' = 0 /\ skipped \subseteq skipped' /\ (skip => deciding \in skipped')
  BY DEF Confirmed
<1>3. PICK s \in Seq(Messages) : s = <<m>> /\ DOMAIN s = {1} /\ s[1] = m /\ Len(s) = 1
  BY <1>1, Single
<1>4. \A j \in DOMAIN s : s[j].t \in {"cancel", "confirm"}
  BY <1>1, <1>3
<1>5. TokenInv
  BY DEF UploadInv
<1>6. (\A i \in DOMAIN toHost : ~Asks(i)) /\ (\A i \in DOMAIN toPanel' : ~Answers(i)')
  BY <1>5 DEF TokenInv, Answers
<1>7. status # "none"
  <2>1. up.pc # "none"
    BY <1>5 DEF TokenInv, Waits
  <2> QED BY <2>1 DEF UploadInv, RoleInv
<1>8. PanelStep
  BY <1>2, <1>7 DEF PanelStep, local, device, PanelType
<1>9. CASE up.pc = "confirm"
  <2> DEFINE r == AfterConfirm(up.f, skip, 0, stop)
  <2>1. up.f = deciding
    BY <1>5, <1>9 DEF TokenInv, Waits
  <2>2. Post(<<m>> \o r.post) /\ up' = r.up
    BY <1>9 DEF Confirmed
  <2>3. Post(s \o r.post) /\ 0 \in Nat
    BY <1>3, <2>2
  <2>4. Active => Clear(up.f) /\ remote[up.f] = 0
    BY <2>1 DEF UploadSums, QuestionInv, Untouched
  <2> HIDE DEF m, stop
  <2> QED BY <1>1, <1>2, <1>4, <1>6, <1>8, <1>9, <2>1, <2>2, <2>3, <2>4, Answered
<1>10. CASE up.pc # "confirm"
  <2>1. Post(<<m>> \o <<>>) /\ up' = up
    BY <1>10 DEF Confirmed
  <2>2. <<m>> \o <<>> = s
    BY <1>3
  <2>3. Post(s)
    BY <2>1, <2>2
  <2> QED BY <1>4, <1>8, <2>1, <2>3, Resting
<1> QED BY <1>9, <1>10

\* A stream that is not open is not closed to anything.
LEMMA NothingClosed ==
    ASSUME UploadSums, AbortJobFile
    PROVE  UNCHANGED <<writable, disk>>
BY DEF UploadSums, UploadShape, AbortJobFile

\* onEvent, but for digests and confirms.
LEMMA EventSums ==
    ASSUME PanelType, UploadInv, kind = "upload", UploadSums, PanelType',
           DirArrives \/ BlockArrives \/ DoneArrives \/ ErrorArrives \/ ClosedArrives
    PROVE  UploadSums'
<1>1. \A t : Arrives(t) =>
         /\ t \in {"digest", "confirm", "skip", "done", "error", "closed"}
         /\ 1 \in DOMAIN toPanel /\ toPanel[1].t = t /\ toPanel # <<>> /\ toPanel' = Tail(toPanel)
  <2> SUFFICES ASSUME NEW t, Arrives(t)
               PROVE  /\ t \in {"digest", "confirm", "skip", "done", "error", "closed"}
                      /\ 1 \in DOMAIN toPanel /\ toPanel[1].t = t
    BY DEF Arrives
  <2>1. toPanel # <<>> /\ Head(toPanel).t = t
    BY DEF Arrives
  <2>2. Head(toPanel) = toPanel[1] /\ 1 \in DOMAIN toPanel
    BY <2>1, Received DEF PanelType
  <2> QED BY <2>1, <2>2 DEF UploadSums, UploadShape
<1>2. PICK e \in Seq(Messages) : e = <<>> /\ DOMAIN e = {}
  <2>1. <<>> \in Seq(Messages) /\ DOMAIN <<>> = {}
    OBVIOUS
  <2> QED BY <2>1
<1>3. CASE DirArrives \/ BlockArrives
  <2>1. Arrives("dir") \/ Arrives("block")
    BY <1>3 DEF DirArrives, BlockArrives
  <2>2. ~Arrives("dir")
    BY <1>1
  <2>3. ~Arrives("block")
    BY <1>1
  <2> QED BY <2>1, <2>2, <2>3
<1>4. CASE DoneArrives
  <2>1. /\ Arrives("done") /\ UNCHANGED <<kind, total, conn, deciding, chain, phase, writable, disk>>
        /\ UNCHANGED <<up, toHost, host, remote, final, skipped>>
        /\ status' = IF status \in {"starting", "running"} THEN "done" ELSE status
    BY <1>4 DEF DoneArrives, device, history
  <2>2. \A f \in 1..total : Settles(f)
    BY <1>1, <2>1 DEF UploadSums, LedgerInv
  <2>3. PanelStep
    BY <1>1, <2>1, <2>2 DEF PanelStep, PanelType
  <2> QED BY <1>2, <2>1, <2>3, Resting
<1>5. CASE ErrorArrives
  <2>1. ~Arrives("skipped")
    BY <1>1
  <2>2. /\ Arrives("error") /\ status' = "error" /\ Post(ReleaseWaiters.post)
        /\ up' = ReleaseWaiters.up /\ AbortJobFile
        /\ UNCHANGED <<kind, total, conn, deciding, chain, phase, host, remote, final, skipped>>
    BY <1>5, <2>1 DEF ErrorArrives, device, history
  <2>3. PanelStep
    BY <1>1, <2>2, NothingClosed DEF PanelStep, PanelType
  <2> QED BY <2>2, <2>3, Releasing
<1>6. CASE ClosedArrives
  <2>1. /\ Arrives("closed") /\ Teardown
        /\ UNCHANGED <<kind, total, deciding, chain, phase, host, remote, final, skipped>>
    BY <1>6 DEF ClosedArrives, device, history
  <2>2. CASE status \in {"starting", "running"}
    <3>1. /\ conn' = "closed" /\ status' = "error" /\ up' = ReleaseWaiters.up /\ AbortJobFile
          /\ UNCHANGED toHost
      BY <2>1, <2>2 DEF Teardown
    <3>2. PanelStep
      BY <1>1, <2>1, <3>1, NothingClosed DEF PanelStep, PanelType
    <3> QED BY <3>1, <3>2, Releasing
  <2>3. CASE status \notin {"starting", "running"}
    <3>1. conn' = "closed" /\ UNCHANGED <<status, up, writable, disk, toHost>>
      BY <2>1, <2>3 DEF Teardown
    <3>2. PanelStep
      BY <1>1, <2>1, <3>1 DEF PanelStep, PanelType
    <3> QED BY <1>2, <3>1, <3>2, Resting
  <2> QED BY <2>2, <2>3
<1> QED BY <1>3, <1>4, <1>5, <1>6

\* The user's and the connection's steps, and the dialog.
LEMMA UserSums ==
    ASSUME PanelType, UploadInv, kind = "upload", UploadSums, PanelType',
           \/ UserCancels \/ WorkerCrashes \/ Reopen \/ TargetChecked
           \/ \E c \in Choices : Decide(c[1], c[2])
    PROVE  UploadSums'
<1>2. PICK e \in Seq(Messages) : e = <<>> /\ DOMAIN e = {}
  <2>1. <<>> \in Seq(Messages) /\ DOMAIN <<>> = {}
    OBVIOUS
  <2> QED BY <2>1
<1>3. CASE UserCancels
  <2>1. /\ status' = "cancelled" /\ up' = ReleaseWaiters.up /\ AbortJobFile
        /\ Post(<<M("cancel", 0, 0)>> \o ReleaseWaiters.post)
        /\ UNCHANGED <<kind, total, conn, deciding, chain, phase, toPanel, host, remote, final, skipped>>
    BY <1>3 DEF UserCancels, CancelJob, device
  <2>2. PanelStep
    BY <2>1, NothingClosed DEF PanelStep, PanelType
  <2> QED BY <2>1, <2>2, Releasing
<1>4. CASE WorkerCrashes
  <2>1. /\ conn = "streaming"
        /\ UNCHANGED <<kind, total, status, deciding, chain, phase, writable, disk, up, toHost,
                       toPanel, host, remote, final, skipped>>
    BY <1>4 DEF WorkerCrashes, local, chans, device, history
  <2>2. PanelStep
    BY <2>1 DEF PanelStep, PanelType
  <2> QED BY <1>2, <2>1, <2>2, Resting
<1>5. CASE Reopen
  <2>1. /\ Teardown
        /\ UNCHANGED <<kind, total, deciding, chain, phase, toPanel, host, remote, final, skipped>>
    BY <1>5 DEF Reopen, device, history
  <2>2. CASE status \in {"starting", "running"}
    <3>1. /\ conn' = "closed" /\ status' = "error" /\ up' = ReleaseWaiters.up /\ AbortJobFile
          /\ UNCHANGED toHost
      BY <2>1, <2>2 DEF Teardown
    <3>2. PanelStep
      BY <2>1, <3>1, NothingClosed DEF PanelStep, PanelType
    <3> QED BY <3>1, <3>2, Releasing
  <2>3. CASE status \notin {"starting", "running"}
    <3>1. conn' = "closed" /\ UNCHANGED <<status, up, writable, disk, toHost>>
      BY <2>1, <2>3 DEF Teardown
    <3>2. PanelStep
      BY <2>1, <3>1 DEF PanelStep, PanelType
    <3> QED BY <1>2, <3>1, <3>2, Resting
  <2> QED BY <2>2, <2>3
<1>6. CASE TargetChecked
  <2>1. /\ deciding # 0 /\ UNCHANGED <<kind, total, conn, status>> /\ UNCHANGED local
        /\ UNCHANGED device /\ UNCHANGED toPanel
        /\ Confirmed(FALSE) \/ Confirmed(policy = "skip")
    BY <1>6 DEF TargetChecked
  <2>2. FALSE \in BOOLEAN /\ (policy = "skip") \in BOOLEAN
    OBVIOUS
  <2>3. PICK skip \in BOOLEAN : Confirmed(skip)
    BY <2>1, <2>2
  <2> QED BY <2>1, <2>3, ConfirmedSums
<1>7. ASSUME NEW c \in Choices, Decide(c[1], c[2]) PROVE UploadSums'
  <2>1. /\ asking /\ UNCHANGED <<kind, total, conn, chain, phase, curFileNum, toPanel>>
        /\ UNCHANGED device /\ UNCHANGED <<host, remote, final>>
    BY <1>7 DEF Decide, device
  <2>2. deciding # 0
    BY <2>1 DEF UploadInv, TokenInv
  <2>3. CASE c[1] # "cancel"
    <3>1. Confirmed(c[1] = "skip") /\ UNCHANGED <<status, writable, disk, lost>>
      BY <1>7, <2>3 DEF Decide
    <3>2. (c[1] = "skip") \in BOOLEAN
      OBVIOUS
    <3>3. PICK skip \in BOOLEAN : Confirmed(skip)
      BY <3>1, <3>2
    <3>4. UNCHANGED local /\ UNCHANGED <<kind, total, conn, status>> /\ UNCHANGED toPanel
      BY <2>1, <3>1 DEF local
    <3> QED BY <2>1, <2>2, <3>3, <3>4, ConfirmedSums
  <2>4. CASE c[1] = "cancel" /\ status \in {"done", "cancelled"}
    <3>1. /\ deciding' = 0 /\ up' = ReleaseWaiters.up
          /\ UNCHANGED <<status, toHost, writable, disk, skipped>>
      BY <1>7, <2>4 DEF Decide
    <3>2. PanelStep
      BY <2>1, <3>1 DEF PanelStep, PanelType
    <3> QED BY <3>1, <3>2, Releasing
  <2>5. CASE c[1] = "cancel" /\ status \notin {"done", "cancelled"}
    <3>1. /\ deciding' = 0 /\ CancelJob /\ UNCHANGED skipped
      BY <1>7, <2>5 DEF Decide
    <3>2. /\ status' = "cancelled" /\ up' = ReleaseWaiters.up /\ AbortJobFile
          /\ Post(<<M("cancel", 0, 0)>> \o ReleaseWaiters.post)
      BY <3>1 DEF CancelJob
    <3>3. PanelStep
      BY <2>1, <3>1, <3>2, NothingClosed DEF PanelStep, PanelType
    <3> QED BY <3>2, <3>3, Releasing
  <2> QED BY <2>3, <2>4, <2>5
<1> QED BY <1>3, <1>4, <1>5, <1>6, <1>7

\* 'ftSendConfirm'.
LEMMA SendConfirmSums ==
    ASSUME PanelType, UploadInv, kind = "upload", UploadSums, PanelType', SendConfirmArrives
    PROVE  UploadSums'
<1>1. /\ toPanel # <<>> /\ toPanel' = Tail(toPanel) /\ Head(toPanel).t \in {"confirm", "skip"}
      /\ UNCHANGED <<kind, total, conn, status, deciding, chain, phase, writable, disk>>
      /\ UNCHANGED <<host, remote, final, skipped>>
  BY DEF SendConfirmArrives, Arrives, job, local, device, history
<1>2. /\ Msg = toPanel[1] /\ 1 \in DOMAIN toPanel /\ Msg \in Messages /\ Msg.t \in {"confirm", "skip"}
      /\ \A i \in DOMAIN toPanel' : /\ i + 1 \in DOMAIN toPanel /\ toPanel'[i] = toPanel[i + 1]
                                    /\ i + 1 # 1
  BY <1>1, Received DEF PanelType, Msg
<1>3. Answers(1) /\ TokenInv
  BY <1>2 DEF Answers, UploadInv
<1>4. /\ deciding = 0 /\ Waits(Msg.f) /\ \A i \in DOMAIN toHost : ~Asks(i)
      /\ \A i \in DOMAIN toPanel : Answers(i) => i = 1
  BY <1>2, <1>3 DEF TokenInv
<1>5. \A i \in DOMAIN toPanel' : ~Answers(i)'
  BY <1>2, <1>4 DEF Answers
<1>6. status # "none"
  BY <1>4 DEF Waits, UploadInv, RoleInv
<1>7. PanelStep
  BY <1>1, <1>6 DEF PanelStep, PanelType
<1>8. PICK e \in Seq(Messages) : e = <<>> /\ DOMAIN e = {}
  <2>1. <<>> \in Seq(Messages) /\ DOMAIN <<>> = {}
    OBVIOUS
  <2> QED BY <2>1
<1>9. CASE up.pc = "confirm"
  <2>1. PICK skip \in BOOLEAN, stop \in BOOLEAN, n \in Nat :
           /\ skip = (Msg.t = "skip") /\ stop = JobStopped(status, conn) /\ n = Msg.k
    <3>1. (Msg.t = "skip") \in BOOLEAN /\ JobStopped(status, conn) \in BOOLEAN
      BY DEF JobStopped
    <3>2. Msg.k \in Nat
      BY <1>2 DEF Messages
    <3> QED BY <3>1, <3>2
  <2> DEFINE r == AfterConfirm(up.f, skip, n, stop)
  <2>2. Post(r.post) /\ up' = r.up
    BY <1>9, <2>1 DEF SendConfirmArrives
  <2>3. up.f = Msg.f
    BY <1>4, <1>9 DEF Waits
  <2>4. skip => up.f \in skipped'
    BY <1>1, <1>2, <2>1, <2>3 DEF UploadSums, UploadShape
  <2>5. ~skip /\ Active => Clear(up.f) /\ remote[up.f] = n
    <3>1. ~skip => Msg.t = "confirm"
      BY <1>2, <2>1
    <3> QED BY <1>2, <2>1, <2>3, <3>1 DEF UploadSums, QuestionInv
  <2>6. ~stop => conn # "closed"
    BY <2>1 DEF JobStopped
  <2>7. r.post \in Seq(Messages)
    <3>1. up.f \in Nat
      BY DEF PanelType, Positions
    <3>2. Continues(AfterConfirm(up.f, skip, n, stop), up.f)
      BY <3>1, AfterConfirmContinues
    <3> QED BY <3>2 DEF Continues, Continuations
  <2>8. e \o r.post = r.post
    BY <1>8, <2>7
  <2>9. Post(e \o r.post) /\ \A j \in DOMAIN e : e[j].t \in {"cancel", "confirm"}
    BY <1>8, <2>2, <2>8
  <2>10. deciding' = 0
    BY <1>1, <1>4
  <2> QED BY <1>4, <1>5, <1>7, <1>9, <2>2, <2>4, <2>5, <2>6, <2>9, <2>10, Answered
<1>10. CASE up.pc # "confirm"
  <2>1. Post(<<>>) /\ up' = up
    BY <1>10 DEF SendConfirmArrives
  <2>2. Post(e)
    BY <1>8, <2>1
  <2> QED BY <1>7, <1>8, <2>1, <2>2, Resting
<1> QED BY <1>9, <1>10

\* uploadFiles between two of its awaits.
LEMMA LoopSums ==
    ASSUME PanelType, UploadInv, kind = "upload", UploadSums, PanelType', Upload
    PROVE  UploadSums'
<1>1. /\ UNCHANGED <<kind, total, conn, deciding, chain, phase, writable, disk>>
      /\ UNCHANGED <<toPanel, host, remote, final, skipped>>
      /\ status' \in {status, "error"} /\ up.pc \in Sending
  BY DEF Upload, BlockRead, ReadFails, Sent, Drained, Sending, job, local, device, history
<1>2. status # "none"
  BY <1>1 DEF UploadInv, RoleInv, Sending
<1>3. PanelStep
  BY <1>1, <1>2 DEF PanelStep, PanelType
<1>4. PICK e \in Seq(Messages) : e = <<>> /\ DOMAIN e = {}
  <2>1. <<>> \in Seq(Messages) /\ DOMAIN <<>> = {}
    OBVIOUS
  <2> QED BY <2>1
<1>5. PICK stop \in BOOLEAN : stop = JobStopped(status, conn) /\ (~stop => conn # "closed")
  <2>1. JobStopped(status, conn) \in BOOLEAN /\ (~JobStopped(status, conn) => conn # "closed")
    BY DEF JobStopped
  <2> QED BY <2>1
<1>6. up.f \in Nat /\ up.k \in Nat
  BY DEF PanelType, Positions
<1>7. ASSUME up.pc \in {"sent", "drain"}, Post(NextBlock(up.f, up.k, stop).post),
             up' = NextBlock(up.f, up.k, stop).up
      PROVE  UploadSums'
  <2> DEFINE r == NextBlock(up.f, up.k, stop)
  <2>1. r.post \in Seq(Messages)
    <3>1. Continues(NextBlock(up.f, up.k, stop), up.f)
      BY <1>6, NextBlockContinues
    <3> QED BY <3>1 DEF Continues, Continuations
  <2>2. e \o r.post = r.post
    BY <1>4, <2>1
  <2>3. Post(e \o r.post) /\ \A j \in DOMAIN e : e[j].t \in {"cancel", "confirm"}
    BY <1>4, <1>7, <2>2
  <2> QED BY <1>3, <1>5, <1>7, <2>3, BlockLoop
<1>8. CASE Sent \/ Drained
  <2>1. \/ up' = [up EXCEPT !.pc = "drain"] /\ UNCHANGED toHost /\ up.pc = "sent"
        \/ /\ up.pc \in {"sent", "drain"} /\ Post(NextBlock(up.f, up.k, stop).post)
           /\ up' = NextBlock(up.f, up.k, stop).up
    BY <1>5, <1>8 DEF Sent, Drained
  <2>2. CASE up' = [up EXCEPT !.pc = "drain"] /\ UNCHANGED toHost /\ up.pc = "sent"
    BY <1>3, <1>4, <2>2, Resting
  <2> QED BY <1>7, <2>1, <2>2
<1>9. CASE ReadFails
  <2>1. PICK s \in Seq(Messages) : /\ s = <<M("error", 0, 0)>>
                                   /\ \A j \in DOMAIN s : s[j].t = "error"
    <3> DEFINE m == M("error", 0, 0)
    <3>1. m \in Messages /\ m.t = "error"
      BY DEF M, Messages, MessageKinds
    <3> HIDE DEF m
    <3>2. PICK s \in Seq(Messages) : s = <<m>> /\ DOMAIN s = {1} /\ s[1] = m
      BY <3>1, Single
    <3> QED BY <3>1, <3>2 DEF m
  <2>2. UNCHANGED toHost \/ Post(s)
    BY <1>9, <2>1 DEF ReadFails
  <2>3. up.pc = "read" /\ up' = At("stopped", up.f, up.k)
    BY <1>9 DEF ReadFails
  <2>4. up'.pc = "stopped" /\ up.pc # "finished"
    BY <2>3 DEF At
  <2> QED BY <1>3, <2>1, <2>2, <2>4, Resting
<1>10. CASE BlockRead
  <2> DEFINE m == M("block", up.f, up.k)
  <2>1. m \in Messages /\ m.t = "block" /\ m.f = up.f /\ m.k = up.k
    BY <1>6 DEF M, Messages, MessageKinds
  <2>2. up.pc = "read" /\ Post(<<m>>) /\ up' = At("sent", up.f, up.k) /\ status' = status
    BY <1>10 DEF BlockRead, job
  <2>3. up'.pc = "sent" /\ up'.f = up.f /\ up'.k = up.k /\ Top' = up.k /\ Top = up.k - 1
    BY <2>2 DEF At, Top
  <2> HIDE DEF m
  <2>4. PICK p \in Seq(Messages) : p = <<m>> /\ DOMAIN p = {1} /\ p[1] = m
    BY <2>1, Single
  <2>5. Active /\ conn # "closed" => up.k \in 1..Blocks /\ Ready(up.f, up.k - 1)
    BY <2>2, <2>3 DEF UploadSums, SenderInv, Sending
  <2>6. up.f \in 1..total
    BY <2>2 DEF UploadSums, UploadShape, Sending
  <2>7. Active /\ conn # "closed" => InLine(m)
    <3> SUFFICES ASSUME Active, conn # "closed" PROVE InLine(m)
      OBVIOUS
    <3>1. PICK n : n = up.k - 1
      OBVIOUS
    <3>2. n \in 0..Blocks /\ m.k = n + 1 /\ m.k <= Blocks /\ Ready(m.f, n)
      BY <1>6, <2>1, <2>5, <3>1, TransferBounds
    <3> QED BY <3>2 DEF InLine
  <2>8. /\ \A j \in DOMAIN p : p[j] = m /\ j = 1
        /\ Post(p)
    BY <2>2, <2>4
  <2>9. /\ deciding' = 0 /\ \A i \in DOMAIN toPanel' : ~Answers(i)'
        /\ \A i \in DOMAIN toHost : ~Asks(i)
    BY <1>1, <1>3, NoQuestion
  <2>10. Active => \A g \in 1..total : g > up.f => Untouched(g) /\ g # m.f
    <3>1. Active => \A g \in 1..total : g > up.f => Untouched(g)
      BY <2>2 DEF UploadSums, QuestionInv, Sending
    <3>2. \A g \in 1..total : g > up.f => g # up.f
      BY <1>6
    <3> QED BY <2>1, <3>1, <3>2
  <2>11. Active => \A f \in Past' : Settles(f)' \/ Queued(f, 0)
    <3>1. Past' = Past
      BY <1>1, <2>2, <2>3 DEF Past, Sending
    <3>2. \A f : Settles(f) => Settles(f)'
      BY <1>1 DEF Settles
    <3> QED BY <3>1, <3>2 DEF UploadSums, LedgerInv
  <2>12. Active /\ conn' # "closed" /\ up'.pc \in Sending =>
              /\ up'.k \in 1..Blocks
              /\ Ready(up'.f, Top' - 1) /\ m.k = Top' /\ m.f = up'.f /\ p = <<m>> /\ Post(p)
                 /\ m.t = "block"
    BY <1>1, <2>1, <2>2, <2>3, <2>4, <2>5, <2>8
  <2>13. /\ conn = "closed" => conn' = "closed"
         /\ skipped \subseteq skipped' /\ toPanel' = toPanel /\ deciding' \in {0, deciding}
         /\ up' \in Positions /\ status' = status /\ status' # "none" /\ up'.pc # "finished"
         /\ up.pc # "finished" /\ up'.f \in 1..total /\ up'.f = up.f
         /\ m \in Messages /\ m.f \in 1..total
    BY <1>1, <1>2, <2>1, <2>2, <2>3, <2>6, <2>9 DEF PanelType
  <2>14. \A j \in DOMAIN p : p[j].t = "block" /\ p[j] = m /\ j = 1
    BY <2>1, <2>8
  <2> QED BY <1>1, <2>1, <2>7, <2>8, <2>9, <2>10, <2>11, <2>12, <2>13, <2>14, Posting
<1> QED BY <1>8, <1>9, <1>10 DEF Upload

\* A step of the device moves the channel up by d and concerns at most file x.
LEMMA Heard ==
    ASSUME PanelType, UploadSums, UNCHANGED <<kind, total, conn, status, deciding, up>>,
           UNCHANGED <<chain, phase, writable, disk>>, skipped \subseteq skipped',
           toHost' \in Seq(Messages), NEW d \in {0, 1},
           \A i \in DOMAIN toHost' : i \in Nat /\ i + d \in DOMAIN toHost /\ toHost'[i] = toHost[i + d],
           status = "none" => UNCHANGED <<toHost, remote, final>> /\ host'.pc # "receive",
           Active' => Active,
           NEW x, remote' \in [Files -> Nat], \A f \in Files : remote'[f] <= Blocks,
           \A g \in Files : g # x => remote'[g] = remote[g],
           final \subseteq final', final' \subseteq final \cup {x}, final' \subseteq 1..total,
           \A f \in final' : remote'[f] = Blocks,
           Active' => \A j \in DOMAIN toHost : toHost[j].t = "block" /\ toHost[j].f # x =>
                         j - d \in DOMAIN toHost' /\ toHost'[j - d] = toHost[j],
           Active' => \A i \in DOMAIN toHost' : BlockAt(i, x)' => InOrder(i)',
           \A n : Active' /\ conn # "closed" /\ up.pc \in Sending /\ up.f = x /\ n = Top => Ready(x, n)',
           Active' /\ (Settles(x) \/ Queued(x, 0)) => Settles(x)' \/ Queued(x, 0)',
           Clear(x) => /\ \A i \in DOMAIN toHost' : toHost'[i].t = "digest" => toHost'[i].f # x
                       /\ \A i \in DOMAIN toPanel : toPanel[i].t \in {"digest", "confirm"} => toPanel[i].f # x
                       /\ deciding # x
                       /\ up.pc \in Sending \cup {"confirm"} => ~(x > up.f),
           NEW m \in Messages, toPanel' = toPanel \/ toPanel' = Append(toPanel, m),
           m.t \in {"digest", "confirm", "skip", "done", "error", "closed"},
           m.t = "skip" => m.f \in skipped',
           m.t = "done" => \A f \in 1..total : Settles(f)',
           Active' /\ m.t = "digest" => Untouched(m.f)',
           Active' /\ m.t = "confirm" => Clear(m.f)' /\ remote'[m.f] = m.k
    PROVE  UploadSums'
<1>0. /\ toHost \in Seq(Messages) /\ total \in Nat /\ Blocks \in Nat /\ total \in Files
      /\ UploadShape /\ StreamInv /\ SenderInv /\ QuestionInv /\ LedgerInv
  BY TransferBounds DEF PanelType, UploadSums, UploadShape
<1>1. 1..total \subseteq Files
  BY <1>0, TransferBounds DEF Files
<1>2. \A i \in DOMAIN toHost : i \in Nat
  BY <1>0
<1>3. \A i \in DOMAIN toPanel' : (i \in DOMAIN toPanel /\ toPanel'[i] = toPanel[i]) \/ toPanel'[i] = m
  <2>1. CASE toPanel' = toPanel
    BY <2>1
  <2>2. CASE toPanel' = Append(toPanel, m)
    BY <2>2 DEF PanelType
  <2> QED BY <2>1, <2>2
<1>4. UploadShape'
  <2>1. \A i \in DOMAIN toHost' : /\ toHost'[i].t = "receive" => i = 1
                                  /\ toHost'[i].t = "block" => toHost'[i].f \in 1..total
    <3> SUFFICES ASSUME NEW i \in DOMAIN toHost'
                 PROVE  /\ toHost'[i].t = "receive" => i = 1
                        /\ toHost'[i].t = "block" => toHost'[i].f \in 1..total
      OBVIOUS
    <3>1. toHost'[i] = toHost[i + d] /\ i + d \in DOMAIN toHost /\ i \in Nat /\ i >= 1
      OBVIOUS
    <3>2. toHost[i + d].t = "receive" => i + d = 1
      BY <1>0, <3>1 DEF UploadShape
    <3>3. toHost[i + d].t = "block" => toHost[i + d].f \in 1..total
      BY <1>0, <3>1 DEF UploadShape
    <3>4. i + d = 1 => i = 1
      BY <3>1
    <3> QED BY <3>1, <3>2, <3>3, <3>4
  <2>2. \A i \in DOMAIN toPanel' :
          /\ toPanel'[i].t \in {"digest", "confirm", "skip", "done", "error", "closed"}
          /\ toPanel'[i].t = "skip" => toPanel'[i].f \in skipped'
    BY <1>0, <1>3 DEF UploadShape
  <2>3. status' = "none" => /\ toHost' = <<>> /\ host'.pc # "receive" /\ final' = {}
                            /\ \A f \in Files : remote'[f] = 0
    BY <1>0 DEF UploadShape
  <2>4. /\ chain' = <<>> /\ phase' = "idle" /\ writable' = NoStream
        /\ \A f \in Files : disk'[f] # "partial"
        /\ up'.pc \in Sending \cup {"confirm"} => up'.f \in 1..total'
    BY <1>0 DEF UploadShape
  <2> QED BY <1>0, <2>1, <2>2, <2>3, <2>4 DEF UploadShape
<1>5. SUFFICES (Active' => StreamInv' /\ SenderInv' /\ QuestionInv'
                         /\ \A f \in Past' : Settles(f)' \/ Queued(f, 0)')
  <2>1. ~Active' => StreamInv' /\ SenderInv' /\ QuestionInv'
    BY DEF StreamInv, SenderInv, QuestionInv
  <2>2. \A f : Settles(f) => Settles(f)'
    BY DEF Settles
  <2>3. ASSUME NEW i \in DOMAIN toHost', toHost'[i].t = "done"
        PROVE  up'.pc = "finished" /\ \A j \in DOMAIN toHost' : toHost'[j].t = "block" => j < i
    <3>1. i + d \in DOMAIN toHost /\ toHost[i + d].t = "done" /\ i \in Nat
      BY <2>3
    <3>2. up.pc = "finished" /\ \A j \in DOMAIN toHost : toHost[j].t = "block" => j < i + d
      BY <1>0, <3>1 DEF LedgerInv
    <3>3. \A j \in DOMAIN toHost' : toHost'[j].t = "block" => j + d < i + d /\ j \in Nat
      BY <3>2
    <3>4. \A j \in Nat : j + d < i + d => j < i
      BY <3>1
    <3> QED BY <3>2, <3>3, <3>4
  <2>4. \A i \in DOMAIN toPanel' : toPanel'[i].t = "done" => \A f \in 1..total : Settles(f)'
    BY <1>0, <1>3, <2>2 DEF LedgerInv
  <2>5. status' = "done" => \A f \in 1..total : Settles(f)'
    BY <1>0, <2>2 DEF LedgerInv
  <2>6. LedgerInv'
    BY <1>5, <2>3, <2>4, <2>5 DEF LedgerInv
  <2> QED BY <1>4, <1>5, <2>1, <2>6 DEF UploadSums
<1>6. SUFFICES ASSUME Active' PROVE StreamInv' /\ SenderInv' /\ QuestionInv'
                                    /\ \A f \in Past' : Settles(f)' \/ Queued(f, 0)'
  OBVIOUS
<1>7. Active
  BY <1>6
<1>8. \A g, n : g # x /\ Queued(g, n) => Queued(g, n)'
  <2> SUFFICES ASSUME NEW g, NEW n, g # x, Queued(g, n)
               PROVE  Queued(g, n)'
    OBVIOUS
  <2>1. PICK j \in DOMAIN toHost : BlockAt(j, g) /\ toHost[j].k = n
    BY DEF Queued
  <2>2. j - d \in DOMAIN toHost' /\ toHost'[j - d] = toHost[j]
    BY <1>6, <2>1 DEF BlockAt
  <2> QED BY <2>1, <2>2 DEF Queued, BlockAt
<1>9. \A g : g # x /\ Clear(g) => Clear(g)'
  BY DEF Clear, BlockAt
<1>10. \A g \in 1..total : g # x => remote'[g] = remote[g]
  BY <1>1
<1>11. \A g : g # x /\ Untouched(g) => Untouched(g)'
  BY <1>9, <1>10 DEF Untouched, Clear
<1>12. StreamInv'
  <2> SUFFICES ASSUME NEW i \in DOMAIN toHost', toHost'[i].t = "block" PROVE InOrder(i)'
    BY DEF StreamInv, InOrder
  <2>1. CASE toHost'[i].f = x
    BY <1>6, <2>1 DEF BlockAt
  <2>2. CASE toHost'[i].f # x
    <3>1. PICK h \in DOMAIN toHost : h = i + d /\ toHost'[i] = toHost[h] /\ i \in Nat
      OBVIOUS
    <3>2. PICK f, k : f = toHost[h].f /\ k = toHost[h].k
      OBVIOUS
    <3>3. InOrder(h) /\ f # x /\ f \in 1..total /\ h \in Nat /\ toHost[h].t = "block"
      BY <1>0, <1>2, <1>7, <2>2, <3>1, <3>2 DEF StreamInv, UploadShape
    <3>4. /\ k # 0 => remote[f] < k /\ k <= Blocks
          /\ f \notin final
          /\ \A n \in 1..Blocks : n > remote[f] /\ (k = 0 \/ n < k) => Sooner(h, f, n)
          /\ \A j \in DOMAIN toHost : BlockAt(j, f) /\ toHost[j].k = k => h = j
          /\ k = 0 => \A j \in DOMAIN toHost : BlockAt(j, f) => j <= h
      BY <3>2, <3>3 DEF InOrder
    <3>5. remote'[f] = remote[f] /\ f \notin final'
      BY <1>10, <3>3, <3>4
    <3>6. \A n : Sooner(h, f, n) => Sooner(i, f, n)'
      <4> SUFFICES ASSUME NEW n, NEW j \in DOMAIN toHost, j < h, BlockAt(j, f), toHost[j].k = n
                   PROVE  Sooner(i, f, n)'
        BY DEF Sooner
      <4>1. j - d \in DOMAIN toHost' /\ toHost'[j - d] = toHost[j]
        BY <1>6, <3>3 DEF BlockAt
      <4>2. j - d < i
        BY <1>2, <3>1
      <4> QED BY <4>1, <4>2 DEF Sooner, BlockAt
    <3>7. \A j \in DOMAIN toHost' : BlockAt(j, f)' => BlockAt(j + d, f) /\ j + d \in DOMAIN toHost
                                                      /\ toHost'[j] = toHost[j + d] /\ j \in Nat
      BY DEF BlockAt
    <3>8. \A j \in DOMAIN toHost' : BlockAt(j, f)' /\ toHost'[j].k = k => i = j
      <4>1. \A j \in DOMAIN toHost' : BlockAt(j, f)' /\ toHost'[j].k = k => h = j + d /\ j \in Nat
        BY <3>4, <3>7
      <4> QED BY <3>1, <4>1
    <3>9. k = 0 => \A j \in DOMAIN toHost' : BlockAt(j, f)' => j <= i
      <4>1. k = 0 => \A j \in DOMAIN toHost' : BlockAt(j, f)' => j + d <= h /\ j \in Nat
        BY <3>4, <3>7
      <4> QED BY <3>1, <4>1
    <3>10. f = toHost'[i].f /\ k = toHost'[i].k
      BY <3>1, <3>2
    <3> QED BY <3>4, <3>5, <3>6, <3>8, <3>9, <3>10 DEF InOrder
  <2> QED BY <2>1, <2>2
<1>13. SenderInv'
  <2> SUFFICES ASSUME conn # "closed", up.pc \in Sending PROVE up'.k \in 1..Blocks /\ Ready(up.f, Top)'
    BY DEF SenderInv
  <2>1. up.k \in 1..Blocks /\ Ready(up.f, Top) /\ UNCHANGED Top
    BY <1>0, <1>7 DEF SenderInv, Top
  <2>2. CASE up.f = x
    <3>1. PICK n : n = Top
      OBVIOUS
    <3>2. Ready(x, n)'
      BY <1>6, <2>2, <3>1
    <3>3. up'.f = x /\ Top' = n
      BY <2>1, <2>2, <3>1
    <3> QED BY <2>1, <3>2, <3>3
  <2>3. CASE up.f # x
    <3>1. PICK f, n : f = up.f /\ n = Top
      OBVIOUS
    <3>2. f # x /\ Ready(f, n)
      BY <2>1, <2>3, <3>1
    <3>3. f \in 1..total /\ remote'[f] = remote[f] /\ f \notin final'
      BY <1>10, <3>2 DEF Ready
    <3>4. \A i \in DOMAIN toHost' : BlockAt(i, f)' => toHost'[i].k \in 1..n
      BY <3>2 DEF Ready, BlockAt
    <3>5. Ready(f, n)'
      BY <1>8, <3>2, <3>3, <3>4 DEF Ready
    <3> QED BY <2>1, <3>1, <3>5
  <2> QED BY <2>2, <2>3
<1>14. QuestionInv'
  <2>0. ASSUME NEW g, Clear(g), Clear(x) => g # x PROVE g # x
    BY <2>0
  <2>1. ASSUME NEW i \in DOMAIN toHost', toHost'[i].t = "digest" PROVE Untouched(toHost[i].f)'
    <3>1. PICK g : g = toHost'[i].f
      OBVIOUS
    <3>2. Untouched(g)
      BY <1>0, <1>7, <2>1, <3>1 DEF QuestionInv
    <3>3. g # x
      BY <2>1, <3>1, <3>2 DEF Untouched
    <3> QED BY <1>11, <3>1, <3>2, <3>3
  <2>2. ASSUME NEW i \in DOMAIN toPanel'
        PROVE  /\ toPanel'[i].t = "digest" => Untouched(toPanel[i].f)'
               /\ toPanel'[i].t = "confirm" => /\ Clear(toPanel[i].f)'
                                               /\ remote'[toPanel'[i].f] = toPanel'[i].k
    <3>1. PICK g : g = toPanel'[i].f
      OBVIOUS
    <3>2. CASE toPanel'[i] = m
      <4>1. /\ m.t = "digest" => Untouched(g)'
            /\ m.t = "confirm" => Clear(g)' /\ remote'[g] = m.k
        BY <1>6, <3>1, <3>2
      <4> QED BY <3>1, <3>2, <4>1
    <3>3. CASE i \in DOMAIN toPanel /\ toPanel'[i] = toPanel[i]
      <4>1. /\ toPanel[i].t = "digest" => Untouched(g)
            /\ toPanel[i].t = "confirm" => Clear(g) /\ remote[g] = toPanel[i].k
        BY <1>0, <1>7, <3>1, <3>3 DEF QuestionInv
      <4>2. toPanel[i].t \in {"digest", "confirm"} => g # x /\ g \in 1..total
        BY <3>1, <3>3, <4>1 DEF Untouched, Clear
      <4>3. /\ toPanel[i].t = "digest" => Untouched(g)'
            /\ toPanel[i].t = "confirm" => Clear(g)' /\ remote'[g] = toPanel[i].k
        BY <1>9, <1>10, <1>11, <4>1, <4>2
      <4> QED BY <3>1, <3>3, <4>3
    <3> QED BY <1>3, <3>2, <3>3
  <2>3. deciding' # 0 => Untouched(deciding)'
    <3>1. PICK g : g = deciding
      OBVIOUS
    <3>2. g # 0 => Untouched(g) /\ g # x
      BY <1>0, <1>7, <3>1 DEF QuestionInv, Untouched
    <3>3. g # 0 => Untouched(g)'
      BY <1>11, <3>2
    <3> QED BY <3>1, <3>3
  <2>4. up'.pc \in Sending \cup {"confirm"} => \A g \in 1..total' : g > up'.f => Untouched(g)'
    <3> SUFFICES ASSUME up.pc \in Sending \cup {"confirm"}, NEW g \in 1..total, g > up.f
                 PROVE  Untouched(g)'
      OBVIOUS
    <3>1. Untouched(g)
      BY <1>0, <1>7 DEF QuestionInv
    <3>2. g # x
      BY <3>1 DEF Untouched
    <3> QED BY <1>11, <3>1, <3>2
  <2> QED BY <2>1, <2>2, <2>3, <2>4 DEF QuestionInv
<1>15. \A f \in Past' : Settles(f)' \/ Queued(f, 0)'
  <2> SUFFICES ASSUME NEW f \in Past' PROVE Settles(f)' \/ Queued(f, 0)'
    OBVIOUS
  <2>1. Settles(f) \/ Queued(f, 0)
    BY <1>0, <1>7 DEF LedgerInv, Past
  <2>2. CASE f = x
    BY <1>6, <2>1, <2>2
  <2>3. CASE f # x
    BY <1>8, <2>1, <2>3 DEF Settles
  <2> QED BY <2>2, <2>3
<1> QED BY <1>12, <1>13, <1>14, <1>15

\* A conflict of an upload is put to the user.
LEMMA DigestSums ==
    ASSUME PanelType, UploadInv, kind = "upload", UploadSums, PanelType', DigestArrives
    PROVE  UploadSums'
<1>1. /\ toPanel # <<>> /\ Head(toPanel).t = "digest" /\ toPanel' = Tail(toPanel)
      /\ deciding' = Head(toPanel).f
      /\ UNCHANGED <<kind, total, conn, status, up, toHost, host, remote, final, skipped>>
      /\ UNCHANGED <<chain, phase, writable, disk>>
  BY DEF DigestArrives, Arrives, Msg, local, device, history
<1>2. /\ Head(toPanel) = toPanel[1] /\ 1 \in DOMAIN toPanel
      /\ \A i \in DOMAIN toPanel' : \E h \in DOMAIN toPanel : toPanel'[i] = toPanel[h]
  <2>1. /\ Head(toPanel) = toPanel[1] /\ 1 \in DOMAIN toPanel
        /\ \A i \in DOMAIN toPanel' : i + 1 \in DOMAIN toPanel /\ toPanel'[i] = toPanel[i + 1]
    BY <1>1, Received DEF PanelType
  <2> QED BY <2>1
<1>3. UploadShape /\ StreamInv /\ SenderInv /\ QuestionInv /\ LedgerInv
  BY DEF UploadSums
<1>4. UploadShape'
  <2>1. \A i \in DOMAIN toPanel' :
          /\ toPanel'[i].t \in {"digest", "confirm", "skip", "done", "error", "closed"}
          /\ toPanel'[i].t = "skip" => toPanel'[i].f \in skipped'
    BY <1>1, <1>2, <1>3 DEF UploadShape
  <2> QED BY <1>1, <1>3, <2>1 DEF UploadShape
<1>5. StreamInv' /\ SenderInv'
  <2>1. StreamInv'
    BY <1>1, <1>3 DEF StreamInv, InOrder, Sooner, BlockAt, Active
  <2>2. SenderInv'
    BY <1>1, <1>3 DEF SenderInv, Ready, Queued, BlockAt, Active, Top
  <2> QED BY <2>1, <2>2
<1>6. UNCHANGED Active /\ \A g : Untouched(g)' = Untouched(g) /\ Clear(g)' = Clear(g)
  BY <1>1 DEF Active, Untouched, Clear, BlockAt
<1>7. QuestionInv'
  <2> SUFFICES ASSUME Active
               PROVE  /\ \A i \in DOMAIN toHost' : toHost'[i].t = "digest" => Untouched(toHost[i].f)'
                      /\ \A i \in DOMAIN toPanel' :
                           /\ toPanel'[i].t = "digest" => Untouched(toPanel[i].f)'
                           /\ toPanel'[i].t = "confirm" => /\ Clear(toPanel[i].f)'
                                                           /\ remote'[toPanel'[i].f] = toPanel'[i].k
                      /\ deciding' # 0 => Untouched(deciding)'
                      /\ up'.pc \in Sending \cup {"confirm"} =>
                            \A g \in 1..total' : g > up'.f => Untouched(g)'
    BY <1>6 DEF QuestionInv
  <2>1. ASSUME NEW i \in DOMAIN toHost', toHost'[i].t = "digest" PROVE Untouched(toHost[i].f)'
    <3>1. PICK g : g = toHost[i].f
      OBVIOUS
    <3>2. Untouched(g)
      BY <1>1, <1>3, <2>1, <3>1 DEF QuestionInv
    <3>3. Untouched(g)'
      BY <1>6, <3>2
    <3> QED BY <1>1, <3>1, <3>3
  <2>2. ASSUME NEW i \in DOMAIN toPanel'
        PROVE  /\ toPanel'[i].t = "digest" => Untouched(toPanel[i].f)'
               /\ toPanel'[i].t = "confirm" => /\ Clear(toPanel[i].f)'
                                               /\ remote'[toPanel'[i].f] = toPanel'[i].k
    <3>1. PICK g : g = toPanel'[i].f
      OBVIOUS
    <3>2. PICK h \in DOMAIN toPanel : toPanel'[i] = toPanel[h]
      BY <1>2
    <3>3. /\ toPanel'[i].t = "digest" => Untouched(g)
          /\ toPanel'[i].t = "confirm" => Clear(g) /\ remote[g] = toPanel'[i].k
      BY <1>3, <3>1, <3>2 DEF QuestionInv
    <3>4. /\ toPanel'[i].t = "digest" => Untouched(g)'
          /\ toPanel'[i].t = "confirm" => Clear(g)' /\ remote'[g] = toPanel'[i].k
      BY <1>1, <1>6, <3>3
    <3> QED BY <3>1, <3>4
  <2>3. Untouched(deciding)'
    <3>1. PICK g : g = toPanel[1].f
      OBVIOUS
    <3>2. Untouched(g)
      BY <1>1, <1>2, <1>3, <3>1 DEF QuestionInv
    <3>3. Untouched(g)' /\ deciding' = g
      BY <1>1, <1>2, <1>6, <3>1, <3>2
    <3> QED BY <3>3
  <2>4. up'.pc \in Sending \cup {"confirm"} => \A g \in 1..total' : g > up'.f => Untouched(g)'
    BY <1>1, <1>3, <1>6 DEF QuestionInv
  <2> QED BY <2>1, <2>2, <2>3, <2>4
<1>8. LedgerInv'
  <2>1. /\ \A f : Settles(f)' = Settles(f)
        /\ \A f : Queued(f, 0)' = Queued(f, 0)
        /\ Past' = Past
    BY <1>1 DEF Settles, Queued, BlockAt, Past
  <2>2. \A i \in DOMAIN toPanel' : toPanel'[i].t = "done" => \A f \in 1..total' : Settles(f)'
    BY <1>1, <1>2, <1>3, <2>1 DEF LedgerInv
  <2> QED BY <1>1, <1>3, <1>6, <2>1, <2>2 DEF LedgerInv
<1> QED BY <1>4, <1>5, <1>7, <1>8 DEF UploadSums

\* The first question of an upload: nothing has been sent yet.
LEMMA StartSums ==
    ASSUME PanelType, UploadInv, UploadSums, PanelType', StartUpload
    PROVE  UploadSums'
<1>1. /\ kind = "upload" /\ status = "none" /\ conn = "streaming" /\ status' = "running"
      /\ toHost' = toHost \o (<<M("receive", 0, 0)>> \o NextFile(1, FALSE).post)
      /\ up' = NextFile(1, FALSE).up
      /\ UNCHANGED <<kind, total, conn, deciding, toPanel, host, remote, final, skipped>>
      /\ UNCHANGED <<chain, phase, writable, disk>>
  BY DEF StartUpload, Post, local, device, history
<1>2. /\ UploadShape /\ LedgerInv /\ total \in 1..NFiles /\ NFiles \in Nat
      /\ toHost = <<>> /\ final = {} /\ \A f \in Files : remote[f] = 0
  BY <1>1, TransferBounds DEF UploadSums, UploadShape, Files
<1> DEFINE r == NextFile(1, FALSE)
           a == M("receive", 0, 0)
           b == M("digest", 1, 0)
<1>3. r = [post |-> <<b>>, up |-> At("confirm", 1, 0)]
  BY <1>2 DEF NextFile
<1>4. toHost' = toHost \o (<<a>> \o r.post) /\ up' = r.up
  BY <1>1
<1>5. a \in Messages /\ b \in Messages /\ a.t = "receive" /\ b.t = "digest" /\ b.f = 1
  BY DEF M, Messages, MessageKinds
<1> HIDE DEF r, a, b
<1>6. up'.pc = "confirm" /\ up'.f = 1
  BY <1>3, <1>4 DEF At
<1>7. \A i \in DOMAIN toHost' : (i = 1 /\ toHost'[i] = a) \/ (i = 2 /\ toHost'[i] = b)
  <2>1. PICK s \in Seq(Messages) : s = <<a>> /\ DOMAIN s = {1} /\ s[1] = a /\ Len(s) = 1
    BY <1>5, Single
  <2>2. PICK y \in Seq(Messages) : y = <<b>> /\ DOMAIN y = {1} /\ y[1] = b
    BY <1>5, Single
  <2>3. toHost' = toHost \o (s \o y)
    BY <1>3, <1>4, <2>1, <2>2
  <2>4. PICK p : p = s \o y
    OBVIOUS
  <2>5. /\ p \in Seq(Messages)
        /\ \A i \in DOMAIN p : \/ i \in DOMAIN s /\ p[i] = s[i]
                              \/ \E j \in DOMAIN y : i = Len(s) + j /\ p[i] = y[j]
    BY <2>4, Joined
  <2>6. toHost \o p = p
    BY <1>2, <2>5
  <2>7. \A i \in DOMAIN p : (i = 1 /\ p[i] = a) \/ (i = 2 /\ p[i] = b)
    <3>1. \A i \in DOMAIN s : i = 1 /\ s[i] = a
      BY <2>1
    <3>2. \A j \in DOMAIN y : Len(s) + j = 2 /\ y[j] = b
      BY <2>1, <2>2
    <3> QED BY <2>5, <3>1, <3>2
  <2> QED BY <2>3, <2>4, <2>6, <2>7
<1>8. \A i \in DOMAIN toHost' : \/ i = 1 /\ toHost'[i].t = "receive"
                                \/ i = 2 /\ toHost'[i].t = "digest" /\ toHost'[i].f = 1
  BY <1>5, <1>7
<1>9. 1..total \subseteq Files /\ 1 \in 1..total
  BY <1>2 DEF Files
<1>10. /\ \A i \in DOMAIN toPanel : ~Answers(i)
      /\ deciding = 0
  BY <1>1 DEF UploadInv, RoleInv, TokenInv, Waits
<1>11. \A g \in 1..total : Untouched(g)' /\ Clear(g)'
  BY <1>1, <1>2, <1>8, <1>9 DEF Untouched, Clear, BlockAt
<1>12. UploadShape'
  BY <1>1, <1>2, <1>6, <1>8, <1>9 DEF UploadShape
<1>13. StreamInv' /\ SenderInv'
  BY <1>6, <1>8 DEF StreamInv, InOrder, SenderInv, Sending
<1>14. QuestionInv'
  <2>1. ASSUME NEW i \in DOMAIN toHost', toHost'[i].t = "digest" PROVE Untouched(toHost[i].f)'
    <3>1. PICK g \in 1..total : g = toHost'[i].f
      BY <1>8, <1>9, <2>1
    <3>2. Untouched(g)'
      BY <1>11
    <3> QED BY <3>1, <3>2
  <2>2. \A i \in DOMAIN toPanel' : toPanel'[i].t \notin {"digest", "confirm"}
    BY <1>1, <1>10 DEF Answers
  <2>3. deciding' = 0 /\ \A g \in 1..total' : g > up'.f => Untouched(g)'
    BY <1>1, <1>10, <1>11
  <2> QED BY <2>1, <2>2, <2>3 DEF QuestionInv
<1>15. LedgerInv'
  <2>1. Past' = {}
    BY <1>6 DEF Past, Sending
  <2>2. \A f : Settles(f)' = Settles(f)
    BY <1>1 DEF Settles
  <2> QED BY <1>1, <1>2, <1>8, <2>1, <2>2 DEF LedgerInv
<1> QED BY <1>12, <1>13, <1>14, <1>15 DEF UploadSums

\* The messages behind the first move up.
LEMMA MovesUp ==
    ASSUME NEW S, NEW s \in Seq(S), s # <<>>
    PROVE  \A j \in DOMAIN s : j # 1 => j - 1 \in DOMAIN Tail(s) /\ Tail(s)[j - 1] = s[j]
OBVIOUS

\* A step of the device that takes no block of a job it is receiving.
LEMMA Passing ==
    ASSUME PanelType, UploadSums, UNCHANGED <<kind, total, conn, status, deciding, up>>,
           UNCHANGED <<chain, phase, writable, disk, remote, final>>, skipped \subseteq skipped',
           \/ UNCHANGED toHost
           \/ toHost' = <<>> /\ ~Active'
           \/ toHost # <<>> /\ toHost' = Tail(toHost) /\ (Active' => toHost[1].t # "block"),
           status = "none" => UNCHANGED toHost /\ host'.pc # "receive",
           Active' => Active,
           NEW m \in Messages, toPanel' = toPanel \/ toPanel' = Append(toPanel, m),
           m.t \in {"digest", "skip", "done", "error", "closed"},
           m.t = "skip" => m.f \in skipped',
           m.t = "done" => \A f \in 1..total : Settles(f)',
           Active' /\ m.t = "digest" => Untouched(m.f)'
    PROVE  UploadSums'
<1>1. /\ toHost \in Seq(Messages) /\ UploadShape /\ LedgerInv
      /\ \A i \in DOMAIN toHost : i \in Nat /\ i + 0 = i /\ i - 0 = i
  BY DEF PanelType, UploadSums
<1>2. \E d \in {0, 1} :
        /\ toHost' \in Seq(Messages)
        /\ \A i \in DOMAIN toHost' : i \in Nat /\ i + d \in DOMAIN toHost /\ toHost'[i] = toHost[i + d]
        /\ Active' => \A j \in DOMAIN toHost : toHost[j].t = "block" =>
                         j - d \in DOMAIN toHost' /\ toHost'[j - d] = toHost[j]
  <2>1. CASE UNCHANGED toHost
    BY <1>1, <2>1
  <2>2. CASE toHost' = <<>> /\ ~Active'
    <3>1. <<>> \in Seq(Messages) /\ DOMAIN <<>> = {}
      OBVIOUS
    <3> QED BY <2>2, <3>1
  <2>3. CASE toHost # <<>> /\ toHost' = Tail(toHost) /\ (Active' => toHost[1].t # "block")
    <3>1. /\ toHost' \in Seq(Messages)
          /\ \A i \in DOMAIN toHost' : /\ i \in Nat /\ i + 1 \in DOMAIN toHost
                                       /\ toHost'[i] = toHost[i + 1]
      BY <1>1, <2>3, Received
    <3>2. \A j \in DOMAIN toHost : j # 1 => j - 1 \in DOMAIN toHost' /\ toHost'[j - 1] = toHost[j]
      BY <1>1, <2>3, MovesUp
    <3>3. Active' => \A j \in DOMAIN toHost : toHost[j].t = "block" =>
                        j - 1 \in DOMAIN toHost' /\ toHost'[j - 1] = toHost[j]
      BY <2>3, <3>2
    <3> QED BY <3>1, <3>3
  <2> QED BY <2>1, <2>2, <2>3
<1>3. PICK d \in {0, 1} :
        /\ toHost' \in Seq(Messages)
        /\ \A i \in DOMAIN toHost' : i \in Nat /\ i + d \in DOMAIN toHost /\ toHost'[i] = toHost[i + d]
        /\ Active' => \A j \in DOMAIN toHost : toHost[j].t = "block" =>
                         j - d \in DOMAIN toHost' /\ toHost'[j - d] = toHost[j]
  BY <1>2
<1>4. PICK x : x = 0
  OBVIOUS
<1>5. x \notin 1..total /\ total \in Nat
  BY <1>4 DEF PanelType
<1>6. \A i \in DOMAIN toHost' : ~BlockAt(i, x)'
  <2>1. \A h \in DOMAIN toHost : toHost[h].t = "block" => toHost[h].f \in 1..total
    BY <1>1 DEF UploadShape
  <2>2. \A i \in DOMAIN toHost' : \E h \in DOMAIN toHost : toHost'[i] = toHost[h]
    BY <1>3
  <2> QED BY <1>5, <2>1, <2>2 DEF BlockAt
<1>7. /\ ~Clear(x) /\ ~Queued(x, 0) /\ (Settles(x) => Settles(x)')
      /\ (up.pc \in Sending => up.f # x)
  <2>1. \A i \in DOMAIN toHost : ~BlockAt(i, x)
    BY <1>1, <1>5 DEF UploadShape, BlockAt
  <2> QED BY <1>1, <1>5, <2>1 DEF Clear, Queued, Settles, UploadShape
<1>8. /\ remote' \in [Files -> Nat] /\ \A f \in Files : remote'[f] <= Blocks
      /\ \A g \in Files : g # x => remote'[g] = remote[g]
      /\ final \subseteq final' /\ final' \subseteq final \cup {x} /\ final' \subseteq 1..total
      /\ \A f \in final' : remote'[f] = Blocks
  BY <1>1 DEF UploadShape, LedgerInv
<1>9. /\ Active' => \A j \in DOMAIN toHost : toHost[j].t = "block" /\ toHost[j].f # x =>
                         j - d \in DOMAIN toHost' /\ toHost'[j - d] = toHost[j]
      /\ Active' => \A i \in DOMAIN toHost' : BlockAt(i, x)' => InOrder(i)'
      /\ \A n : Active' /\ conn # "closed" /\ up.pc \in Sending /\ up.f = x /\ n = Top => Ready(x, n)'
      /\ Active' /\ (Settles(x) \/ Queued(x, 0)) => Settles(x)' \/ Queued(x, 0)'
  BY <1>3, <1>6, <1>7
<1>10. /\ m.t \in {"digest", "confirm", "skip", "done", "error", "closed"}
       /\ Active' /\ m.t = "confirm" => Clear(m.f)' /\ remote'[m.f] = m.k
       /\ status = "none" => UNCHANGED <<toHost, remote, final>> /\ host'.pc # "receive"
  OBVIOUS
<1> QED BY <1>3, <1>7, <1>8, <1>9, <1>10, Heard

\* Once the first message is taken, only the device itself can be receiving.
LEMMA Taken ==
    ASSUME PanelType, UploadSums, toHost # <<>>, toHost' = Tail(toHost)
    PROVE  /\ Cmd = toHost[1] /\ 1 \in DOMAIN toHost /\ Cmd \in Messages /\ status # "none"
           /\ Active' <=> host'.pc = "receive"
<1>1. /\ Cmd = toHost[1] /\ 1 \in DOMAIN toHost /\ Cmd \in Messages /\ toHost' \in Seq(Messages)
      /\ \A k \in DOMAIN toHost' : /\ k + 1 \in DOMAIN toHost /\ toHost'[k] = toHost[k + 1]
                                   /\ k + 1 # 1
  BY Received DEF PanelType, Cmd
<1>2. UploadShape
  BY DEF UploadSums
<1>3. \A k \in DOMAIN toHost' : toHost'[k].t # "receive"
  <2>1. \A k \in DOMAIN toHost : toHost[k].t = "receive" => k = 1
    BY <1>2 DEF UploadShape
  <2> QED BY <1>1, <2>1
<1>4. toHost' # <<>> => 1 \in DOMAIN toHost'
  BY <1>1
<1>5. status # "none"
  BY <1>2 DEF UploadShape
<1> QED BY <1>1, <1>3, <1>4, <1>5 DEF Active

\* The device's steps that do not receive anything.
LEMMA HostSums ==
    ASSUME PanelType, UploadInv, kind = "upload", UploadSums,
           HostServes \/ HostSends \/ HostFails \/ BlockUnreadable \/ ConnectionLost
    PROVE  UploadSums'
<1>5. ~HostSends /\ ~BlockUnreadable
  BY DEF HostSends, BlockUnreadable, UploadInv, RoleInv
<1>1. /\ UNCHANGED <<kind, total, conn, status, deciding, up, skipped>>
      /\ UNCHANGED <<chain, phase, writable, disk, remote, final>>
  <2>1. UNCHANGED <<job, local, up, remote, final, history>>
    BY <1>5 DEF HostServes, HostFails, ConnectionLost
  <2> QED BY <2>1 DEF job, local, history
<1>2. host.pc \in {"idle", "receive", "gone"} /\ NoSend /\ UploadShape
  BY DEF UploadInv, RoleInv, UploadSums
<1>3. /\ \A t \in MessageKinds : M(t, 0, 0) \in Messages /\ M(t, 0, 0).t = t
      /\ "error" \in MessageKinds /\ "closed" \in MessageKinds
      /\ At("idle", 0, 0).pc = "idle" /\ At("gone", 0, 0).pc = "gone"
      /\ At("receive", 0, 0).pc = "receive"
  BY DEF M, Messages, MessageKinds, At
<1>4. PICK me \in Messages, mc \in Messages : /\ me = M("error", 0, 0) /\ mc = M("closed", 0, 0)
                                              /\ me.t = "error" /\ mc.t = "closed"
  BY <1>3
<1>6. CASE HostFails
  <2>1. UNCHANGED toHost /\ host'.pc = "idle" /\ toPanel' = Append(toPanel, me)
        /\ host.pc = "receive"
    BY <1>2, <1>3, <1>4, <1>6 DEF HostFails
  <2>2. status # "none" /\ (Active' => Active)
    BY <1>2, <2>1 DEF UploadShape, Active
  <2> QED BY <1>1, <1>4, <2>1, <2>2, Passing
<1>7. CASE ConnectionLost
  <2>1. toHost' = <<>> /\ host'.pc = "gone" /\ toPanel' = Append(toPanel, mc)
    BY <1>3, <1>4, <1>7 DEF ConnectionLost
  <2>2. ~Active' /\ (status = "none" => toHost = <<>>)
    BY <1>2, <2>1 DEF UploadShape, Active
  <2> QED BY <1>1, <1>4, <2>1, <2>2, Passing
<1>8. CASE HostServes
  <2>1. toHost # <<>> /\ toHost' = Tail(toHost)
    BY <1>8 DEF HostServes, Hears
  <2>2. /\ Cmd = toHost[1] /\ 1 \in DOMAIN toHost /\ status # "none"
        /\ Active' <=> host'.pc = "receive"
    BY <2>1, Taken
  <2>3. Cmd.t # "send"
    BY <1>2, <2>2 DEF NoSend
  <2>4. /\ UNCHANGED toPanel
        /\ \/ Cmd.t = "confirm" /\ host' = host
           \/ Cmd.t = "receive" /\ host'.pc = "receive"
           \/ Cmd.t \in {"cancel", "error"} /\ host'.pc = "idle"
    BY <1>2, <1>3, <1>8, <2>3 DEF HostServes, Hears, Cmd
  <2>5. (Active' => Active) /\ Cmd.t # "block"
    BY <2>1, <2>2, <2>4 DEF Active
  <2> QED BY <1>1, <1>4, <2>1, <2>2, <2>4, <2>5, Passing
<1> QED BY <1>5, <1>6, <1>7, <1>8

\* The device answers a digest of an upload: go on from a block it holds.
LEMMA GoesOn ==
    ASSUME PanelType, UploadInv, kind = "upload", UploadSums,
           UNCHANGED <<kind, total, conn, status, deciding, up, host, final, skipped>>,
           UNCHANGED <<chain, phase, writable, disk>>,
           toHost # <<>>, toHost' = Tail(toHost), Cmd.t = "digest", host.pc = "receive",
           NEW off \in 0..Blocks, NEW x, x = Cmd.f, NEW m \in Messages, m.t = "confirm",
           m.f = x, m.k = off, toPanel' = Append(toPanel, m), remote' = [remote EXCEPT ![x] = off]
    PROVE  UploadSums'
<1>1. /\ Cmd = toHost[1] /\ 1 \in DOMAIN toHost /\ status # "none"
      /\ Active' /\ Active
  BY Taken DEF Active
<1>2. /\ toHost' \in Seq(Messages) /\ toHost \in Seq(Messages)
      /\ \A i \in DOMAIN toHost' : /\ i \in Nat /\ i + 1 \in DOMAIN toHost
                                   /\ toHost'[i] = toHost[i + 1] /\ i + 1 # 1
  BY Received DEF PanelType
<1>3. \A j \in DOMAIN toHost : j # 1 => j - 1 \in DOMAIN toHost' /\ toHost'[j - 1] = toHost[j]
  BY <1>2, MovesUp
<1>4. TokenInv /\ UploadShape /\ StreamInv /\ QuestionInv /\ LedgerInv /\ Blocks \in Nat
  BY TransferBounds DEF UploadInv, UploadSums
<1>5. Asks(1) /\ toHost[1].f = x
  BY <1>1 DEF Asks
<1>6. /\ \A i \in DOMAIN toHost : Asks(i) => i = 1
      /\ \A i \in DOMAIN toPanel : ~Answers(i)
      /\ deciding = 0 /\ x # 0 /\ Waits(x)
  BY <1>1, <1>4, <1>5 DEF TokenInv
<1>7. Untouched(x) /\ Clear(x)
  BY <1>1, <1>4, <1>5 DEF QuestionInv, Asks, Untouched
<1>8. x \in 1..total /\ x \in Files /\ x \notin final /\ \A i \in DOMAIN toHost : ~BlockAt(i, x)
  <2>1. 1..total \subseteq Files
    BY <1>4, TransferBounds DEF UploadShape, Files
  <2> QED BY <1>7, <2>1 DEF Clear
<1>9. /\ remote' \in [Files -> Nat] /\ (\A f \in Files : remote'[f] <= Blocks)
      /\ (\A g \in Files : g # x => remote'[g] = remote[g]) /\ remote'[x] = off
  BY <1>4, <1>8 DEF UploadShape
<1>10. /\ final \subseteq final' /\ final' \subseteq final \cup {x} /\ final' \subseteq 1..total
       /\ \A f \in final' : remote'[f] = Blocks
  <2>1. final \subseteq Files
    BY <1>4, TransferBounds DEF UploadShape, Files
  <2> QED BY <1>4, <1>8, <1>9, <2>1 DEF UploadShape, LedgerInv
<1>11. \A j \in DOMAIN toHost : toHost[j].t = "block" /\ toHost[j].f # x =>
         j - 1 \in DOMAIN toHost' /\ toHost'[j - 1] = toHost[j]
  <2>1. toHost[1].t # "block"
    BY <1>1
  <2> QED BY <1>3, <2>1
<1>12. \A i \in DOMAIN toHost' : ~BlockAt(i, x)'
  BY <1>2, <1>8 DEF BlockAt
<1>13. /\ up.pc \notin Sending
       /\ (Settles(x) \/ Queued(x, 0) => Settles(x)')
  BY <1>6, <1>8 DEF Waits, Sending, Settles, Queued
<1>14. /\ \A i \in DOMAIN toHost' : toHost'[i].t = "digest" => toHost'[i].f # x
       /\ \A i \in DOMAIN toPanel : toPanel[i].t \in {"digest", "confirm"} => toPanel[i].f # x
       /\ deciding # x
       /\ up.pc \in Sending \cup {"confirm"} => ~(x > up.f)
  <2>1. \A i \in DOMAIN toHost' : toHost'[i].t # "digest"
    BY <1>2, <1>6 DEF Asks
  <2>2. \A i \in DOMAIN toPanel : toPanel[i].t \notin {"digest", "confirm"}
    BY <1>6 DEF Answers
  <2>3. up.pc \in Sending \cup {"confirm"} => up.f = x
    BY <1>6 DEF Waits, Sending
  <2> QED BY <1>6, <1>8, <2>1, <2>2, <2>3 DEF PanelType
<1>15. Clear(m.f)' /\ remote'[m.f] = m.k
  BY <1>8, <1>9, <1>12 DEF Clear
<1> QED BY <1>1, <1>2, <1>9, <1>10, <1>11, <1>12, <1>13, <1>14, <1>15, Heard

\* A block of an upload is taken: the one the device lacks next.
LEMMA TakesBlock ==
    ASSUME PanelType, UploadInv, kind = "upload", UploadSums,
           UNCHANGED <<kind, total, conn, status, deciding, up, host, final, skipped>>,
           UNCHANGED <<chain, phase, writable, disk, toPanel>>,
           toHost # <<>>, toHost' = Tail(toHost), Cmd.t = "block", host.pc = "receive",
           NEW x, x = Cmd.f, Cmd.k # 0, remote' = [remote EXCEPT ![x] = @ + 1]
    PROVE  UploadSums'
<1>1. /\ Cmd = toHost[1] /\ 1 \in DOMAIN toHost /\ status # "none" /\ Cmd \in Messages
      /\ Active' /\ Active
  BY Taken DEF Active
<1>2. /\ toHost' \in Seq(Messages) /\ toHost \in Seq(Messages)
      /\ \A i \in DOMAIN toHost' : /\ i \in Nat /\ i + 1 \in DOMAIN toHost
                                   /\ toHost'[i] = toHost[i + 1] /\ i + 1 # 1
  BY Received DEF PanelType
<1>3. \A j \in DOMAIN toHost : /\ j \in Nat /\ ~(j < 1)
                               /\ j # 1 => j - 1 \in DOMAIN toHost' /\ toHost'[j - 1] = toHost[j]
  BY <1>2, MovesUp
<1>4. UploadShape /\ StreamInv /\ SenderInv /\ LedgerInv /\ Blocks \in Nat
  BY TransferBounds DEF UploadSums
<1>5. PICK k \in Nat : k = toHost[1].k
  BY <1>1 DEF Messages
<1>6. toHost[1].t = "block" /\ toHost[1].f = x /\ BlockAt(1, x) /\ k # 0 /\ InOrder(1)
  BY <1>1, <1>4, <1>5 DEF BlockAt, StreamInv
<1>7. x \in 1..total /\ x \in Files /\ remote[x] \in Nat
  <2>1. 1..total \subseteq Files
    BY <1>4, TransferBounds DEF UploadShape, Files
  <2>2. x \in 1..total
    BY <1>1, <1>4, <1>6 DEF UploadShape
  <2> QED BY <1>4, <2>1, <2>2 DEF UploadShape
<1>8. /\ remote[x] < k /\ k <= Blocks /\ x \notin final
      /\ \A n \in 1..Blocks : n > remote[x] /\ n < k => Sooner(1, x, n)
      /\ \A j \in DOMAIN toHost : BlockAt(j, x) /\ toHost[j].k = k => 1 = j
  BY <1>5, <1>6 DEF InOrder
<1>9. k = remote[x] + 1
  <2>1. \A n : ~Sooner(1, x, n)
    BY <1>3 DEF Sooner
  <2>2. remote[x] + 1 \in 1..Blocks
    BY <1>4, <1>7, <1>8
  <2> QED BY <1>7, <1>8, <2>1, <2>2
<1>10. /\ remote' \in [Files -> Nat] /\ (\A f \in Files : remote'[f] <= Blocks)
       /\ (\A g \in Files : g # x => remote'[g] = remote[g]) /\ remote'[x] = k
  BY <1>4, <1>7, <1>8, <1>9 DEF UploadShape
<1>11. /\ final \subseteq final' /\ final' \subseteq final \cup {x} /\ final' \subseteq 1..total
       /\ \A f \in final' : remote'[f] = Blocks
  <2>1. final \subseteq Files
    BY <1>4, TransferBounds DEF UploadShape, Files
  <2> QED BY <1>4, <1>8, <1>10, <2>1 DEF UploadShape, LedgerInv
<1>12. \A j \in DOMAIN toHost : toHost[j].t = "block" /\ toHost[j].f # x =>
         j - 1 \in DOMAIN toHost' /\ toHost'[j - 1] = toHost[j]
  BY <1>3, <1>6
<1>13. \A n : n # k /\ Queued(x, n) => Queued(x, n)'
  <2> SUFFICES ASSUME NEW n, n # k, Queued(x, n) PROVE Queued(x, n)'
    OBVIOUS
  <2>1. PICK j \in DOMAIN toHost : BlockAt(j, x) /\ toHost[j].k = n
    BY DEF Queued
  <2>2. j # 1
    BY <1>5, <2>1
  <2>3. j - 1 \in DOMAIN toHost' /\ toHost'[j - 1] = toHost[j]
    BY <1>3, <2>2
  <2> QED BY <2>1, <2>3 DEF Queued, BlockAt
<1>14. ASSUME NEW i \in DOMAIN toHost', BlockAt(i, x)' PROVE InOrder(i)'
  <2>1. PICK h \in DOMAIN toHost : h = i + 1 /\ toHost'[i] = toHost[h] /\ h # 1 /\ i \in Nat
    BY <1>2
  <2>2. PICK b \in Nat : b = toHost[h].k
    <3>1. toHost[h] \in Messages
      BY <1>2
    <3> QED BY <3>1 DEF Messages
  <2>3. BlockAt(h, x) /\ InOrder(h) /\ toHost[h].t = "block" /\ toHost[h].f = x
    BY <1>1, <1>4, <1>14, <2>1 DEF BlockAt, StreamInv
  <2>4. /\ b # 0 => remote[x] < b /\ b <= Blocks
        /\ \A n \in 1..Blocks : n > remote[x] /\ (b = 0 \/ n < b) => Sooner(h, x, n)
        /\ \A j \in DOMAIN toHost : BlockAt(j, x) /\ toHost[j].k = b => h = j
        /\ b = 0 => \A j \in DOMAIN toHost : BlockAt(j, x) => j <= h
    BY <2>2, <2>3 DEF InOrder
  <2>5. b # k
    BY <1>8, <2>1, <2>2, <2>3
  <2>6. b # 0 => remote'[x] < b /\ b <= Blocks
    BY <1>7, <1>9, <1>10, <2>4, <2>5
  <2>7. \A n : n # k /\ Sooner(h, x, n) => Sooner(i, x, n)'
    <3> SUFFICES ASSUME NEW n, n # k, Sooner(h, x, n) PROVE Sooner(i, x, n)'
      OBVIOUS
    <3>1. PICK j \in DOMAIN toHost : j < h /\ BlockAt(j, x) /\ toHost[j].k = n
      BY DEF Sooner
    <3>2. j # 1 /\ j \in Nat
      BY <1>3, <1>5, <3>1
    <3>3. j - 1 \in DOMAIN toHost' /\ toHost'[j - 1] = toHost[j] /\ j - 1 < i
      BY <1>3, <2>1, <3>1, <3>2
    <3> QED BY <3>1, <3>3 DEF Sooner, BlockAt
  <2>8. \A n \in 1..Blocks : n > remote'[x] /\ (b = 0 \/ n < b) => Sooner(i, x, n)'
    <3>1. \A n \in 1..Blocks : n > remote'[x] => n > remote[x] /\ n # k
      BY <1>4, <1>7, <1>9, <1>10
    <3> QED BY <2>4, <2>7, <3>1
  <2>9. \A j \in DOMAIN toHost' : BlockAt(j, x)' => BlockAt(j + 1, x) /\ j + 1 \in DOMAIN toHost
                                                    /\ toHost'[j] = toHost[j + 1] /\ j \in Nat
    BY <1>2 DEF BlockAt
  <2>10. \A j \in DOMAIN toHost' : BlockAt(j, x)' /\ toHost'[j].k = b => i = j
    <3>1. \A j \in DOMAIN toHost' : BlockAt(j, x)' /\ toHost'[j].k = b => h = j + 1 /\ j \in Nat
      BY <2>4, <2>9
    <3> QED BY <2>1, <3>1
  <2>11. b = 0 => \A j \in DOMAIN toHost' : BlockAt(j, x)' => j <= i
    <3>1. b = 0 => \A j \in DOMAIN toHost' : BlockAt(j, x)' => j + 1 <= h /\ j \in Nat
      BY <2>4, <2>9
    <3> QED BY <2>1, <3>1
  <2>12. toHost'[i].f = x /\ toHost'[i].k = b
    BY <2>1, <2>2, <2>3
  <2>13. x \notin final'
    BY <1>8
  <2> QED BY <2>6, <2>8, <2>10, <2>11, <2>12, <2>13 DEF InOrder
<1>15. ASSUME NEW n, conn # "closed", up.pc \in Sending, up.f = x, n = Top PROVE Ready(x, n)'
  <2>2. Ready(x, n)
    BY <1>1, <1>4, <1>15 DEF SenderInv
  <2>3. k \in 1..n
    BY <1>1, <1>5, <1>6, <2>2 DEF Ready
  <2>4. \A i \in DOMAIN toHost' : BlockAt(i, x)' => toHost'[i].k \in 1..n
    BY <1>2, <2>2 DEF Ready, BlockAt
  <2>5. \A b \in 1..n : b > remote'[x] => Queued(x, b)'
    <3>1. \A b \in 1..n : b > remote'[x] => b > remote[x] /\ b # k
      BY <1>7, <1>9, <1>10
    <3>2. \A b \in 1..n : b > remote[x] => Queued(x, b)
      BY <2>2 DEF Ready
    <3> QED BY <1>13, <3>1, <3>2
  <2>6. /\ x \in 1..total' /\ x \notin final' /\ remote'[x] <= n /\ n <= Blocks
    BY <1>7, <1>8, <1>10, <2>2, <2>3 DEF Ready
  <2> QED BY <2>4, <2>5, <2>6 DEF Ready
<1>16. Settles(x) \/ Queued(x, 0) => Settles(x)' \/ Queued(x, 0)'
  BY <1>6, <1>13 DEF Settles
<1>17. ~Clear(x)
  BY <1>1, <1>6 DEF Clear
<1>18. PICK m \in Messages : m.t = "error"
  <2>1. M("error", 0, 0) \in Messages /\ M("error", 0, 0).t = "error"
    BY DEF M, Messages, MessageKinds
  <2> QED BY <2>1
<1>19. /\ Active' => \A i \in DOMAIN toHost' : BlockAt(i, x)' => InOrder(i)'
       /\ \A n : Active' /\ conn # "closed" /\ up.pc \in Sending /\ up.f = x /\ n = Top => Ready(x, n)'
  BY <1>14, <1>15
<1>20. /\ UNCHANGED <<kind, total, conn, status, deciding, up>> /\ UNCHANGED toPanel
       /\ UNCHANGED <<chain, phase, writable, disk>> /\ skipped \subseteq skipped'
  OBVIOUS
<1> QED BY ONLY PanelType, UploadSums, m \in Messages, <1>1, <1>2, <1>10, <1>11, <1>12, <1>16, <1>17,
                <1>18, <1>19, <1>20, Heard

\* The end of a file of an upload is taken: every block of it came before.
LEMMA TakesEnd ==
    ASSUME PanelType, UploadInv, kind = "upload", UploadSums,
           UNCHANGED <<kind, total, conn, status, deciding, up, host, remote, skipped>>,
           UNCHANGED <<chain, phase, writable, disk, toPanel>>,
           toHost # <<>>, toHost' = Tail(toHost), Cmd.t = "block", host.pc = "receive",
           NEW x, x = Cmd.f, Cmd.k = 0, final' = final \cup {x}
    PROVE  UploadSums'
<1>1. /\ Cmd = toHost[1] /\ 1 \in DOMAIN toHost /\ status # "none"
      /\ Active' /\ Active
  BY Taken DEF Active
<1>2. /\ toHost' \in Seq(Messages) /\ toHost \in Seq(Messages)
      /\ \A i \in DOMAIN toHost' : /\ i \in Nat /\ i + 1 \in DOMAIN toHost
                                   /\ toHost'[i] = toHost[i + 1] /\ ~(i + 1 <= 1)
  <2>1. /\ toHost' \in Seq(Messages) /\ toHost \in Seq(Messages)
        /\ \A i \in DOMAIN toHost' : /\ i + 1 \in DOMAIN toHost /\ toHost'[i] = toHost[i + 1]
    BY Received DEF PanelType
  <2>2. \A i \in DOMAIN toHost' : i \in Nat /\ ~(i + 1 <= 1)
    BY <2>1
  <2> QED BY <2>1, <2>2
<1>3. \A j \in DOMAIN toHost : /\ j \in Nat /\ ~(j < 1)
                               /\ j # 1 => j - 1 \in DOMAIN toHost' /\ toHost'[j - 1] = toHost[j]
  BY <1>2, MovesUp
<1>4. UploadShape /\ StreamInv /\ SenderInv /\ LedgerInv /\ Blocks \in Nat \ {0}
  BY TransferBounds DEF UploadSums
<1>6. toHost[1].t = "block" /\ toHost[1].f = x /\ BlockAt(1, x) /\ toHost[1].k = 0 /\ InOrder(1)
  BY <1>1, <1>4 DEF BlockAt, StreamInv
<1>7. x \in 1..total /\ x \in Files /\ remote[x] \in Nat /\ remote[x] <= Blocks
  <2>1. 1..total \subseteq Files
    BY <1>4, TransferBounds DEF UploadShape, Files
  <2>2. x \in 1..total
    BY <1>1, <1>4, <1>6 DEF UploadShape
  <2> QED BY <1>4, <2>1, <2>2 DEF UploadShape
<1>8. /\ \A n \in 1..Blocks : n > remote[x] => Sooner(1, x, n)
      /\ \A j \in DOMAIN toHost : BlockAt(j, x) => j <= 1
  BY <1>6 DEF InOrder
<1>9. remote[x] = Blocks
  <2>1. \A n : ~Sooner(1, x, n)
    BY <1>3 DEF Sooner
  <2>2. Blocks \in 1..Blocks
    BY <1>4
  <2>3. ~(Blocks > remote[x])
    BY <1>8, <2>1, <2>2
  <2> QED BY <1>4, <1>7, <2>3
<1>10. /\ remote' \in [Files -> Nat] /\ (\A f \in Files : remote'[f] <= Blocks)
       /\ (\A g \in Files : g # x => remote'[g] = remote[g])
       /\ final \subseteq final' /\ final' \subseteq final \cup {x} /\ final' \subseteq 1..total
       /\ \A f \in final' : remote'[f] = Blocks
  BY <1>4, <1>7, <1>9 DEF UploadShape, LedgerInv
<1>12. \A j \in DOMAIN toHost : toHost[j].t = "block" /\ toHost[j].f # x =>
         j - 1 \in DOMAIN toHost' /\ toHost'[j - 1] = toHost[j]
  BY <1>3, <1>6
<1>13. \A i \in DOMAIN toHost' : ~BlockAt(i, x)'
  BY <1>2, <1>8 DEF BlockAt
<1>14. conn # "closed" /\ up.pc \in Sending => up.f # x
  <2> SUFFICES ASSUME conn # "closed", up.pc \in Sending, up.f = x PROVE FALSE
    OBVIOUS
  <2>1. PICK n : n = Top
    OBVIOUS
  <2>2. Ready(x, n)
    BY <1>1, <1>4, <2>1 DEF SenderInv
  <2>3. toHost[1].k \in 1..n
    BY <1>1, <1>6, <2>2 DEF Ready
  <2> QED BY <1>6, <2>3
<1>15. Settles(x)'
  BY DEF Settles
<1>16. ~Clear(x)
  BY <1>1, <1>6 DEF Clear
<1>17. PICK m \in Messages : m.t = "error"
  <2>1. M("error", 0, 0) \in Messages /\ M("error", 0, 0).t = "error"
    BY DEF M, Messages, MessageKinds
  <2> QED BY <2>1
<1> QED BY <1>1, <1>2, <1>10, <1>12, <1>13, <1>14, <1>15, <1>16, <1>17, Heard

\* The device receives an upload.
LEMMA HostReceivesSums ==
    ASSUME PanelType, UploadInv, kind = "upload", UploadSums, HostReceives
    PROVE  UploadSums'
<1>1. /\ UNCHANGED <<kind, total, conn, status, deciding, up>>
      /\ UNCHANGED <<chain, phase, writable, disk>> /\ toHost # <<>> /\ toHost' = Tail(toHost)
  BY DEF HostReceives, Hears, job, local
<1>2. /\ Cmd = toHost[1] /\ 1 \in DOMAIN toHost /\ status # "none" /\ Cmd \in Messages
      /\ Active' <=> host'.pc = "receive"
  BY <1>1, Taken
<1>3. PICK x \in Nat : x = Cmd.f
  BY <1>2 DEF Messages
<1>4. /\ \A t \in MessageKinds, k \in Nat :
            /\ M(t, x, k) \in Messages /\ M(t, x, k).t = t /\ M(t, x, k).f = x /\ M(t, x, k).k = k
      /\ M("done", 0, 0) \in Messages /\ M("done", 0, 0).t = "done"
      /\ "confirm" \in MessageKinds /\ "skip" \in MessageKinds /\ "digest" \in MessageKinds
      /\ "error" \in MessageKinds /\ At("idle", 0, 0).pc = "idle"
  BY DEF M, Messages, MessageKinds, At
<1>5. PICK e \in Messages : e.t = "error"
  BY <1>4
<1>6. UploadShape /\ QuestionInv /\ LedgerInv /\ Blocks \in Nat
  BY TransferBounds DEF UploadSums
<1>7. CASE Cmd.t = "digest" /\ host.pc = "receive"
  <2>1. UNCHANGED <<host, final>>
    BY <1>7 DEF HostReceives, Hears, Cmd
  <2>2. Active /\ host'.pc = "receive"
    BY <1>7, <2>1 DEF Active
  <2>3. CASE \E off \in 0..Blocks : /\ toPanel' = Append(toPanel, M("confirm", x, off))
                                    /\ remote' = [remote EXCEPT ![x] = off]
                                    /\ UNCHANGED skipped
    <3>1. PICK off \in 0..Blocks : /\ toPanel' = Append(toPanel, M("confirm", x, off))
                                   /\ remote' = [remote EXCEPT ![x] = off]
                                   /\ UNCHANGED skipped
      BY <2>3
    <3>2. PICK m \in Messages : m = M("confirm", x, off) /\ m.t = "confirm" /\ m.f = x /\ m.k = off
      BY <1>4, <1>6
    <3>3. toPanel' = Append(toPanel, m)
      BY <3>1, <3>2
    <3> QED BY <1>1, <1>3, <1>7, <2>1, <3>1, <3>2, <3>3, GoesOn
  <2>4. CASE toPanel' = Append(toPanel, M("skip", x, 0)) /\ skipped' = skipped \cup {x}
             /\ UNCHANGED remote
    <3>1. PICK m \in Messages : m = M("skip", x, 0) /\ m.t = "skip" /\ m.f = x
      BY <1>4
    <3>2. toPanel' = Append(toPanel, m)
      BY <2>4, <3>1
    <3> QED BY <1>1, <1>2, <1>7, <2>1, <2>2, <2>4, <3>1, <3>2, Passing
  <2>5. CASE toPanel' = Append(toPanel, M("digest", x, 0)) /\ UNCHANGED <<remote, skipped>>
    <3>1. PICK m \in Messages : m = M("digest", x, 0) /\ m.t = "digest" /\ m.f = x
      BY <1>4
    <3>2. toPanel' = Append(toPanel, m)
      BY <2>5, <3>1
    <3>3. Untouched(x)
      BY <1>2, <1>3, <1>6, <1>7, <2>2 DEF QuestionInv
    <3>4. \A i \in DOMAIN toHost' : i + 1 \in DOMAIN toHost /\ toHost'[i] = toHost[i + 1]
      BY <1>1, Received DEF PanelType
    <3>5. Untouched(x)'
      BY <1>1, <2>1, <2>5, <3>3, <3>4 DEF Untouched, Clear, BlockAt
    <3>6. Untouched(m.f)'
      BY <3>1, <3>5
    <3> QED BY <1>1, <1>2, <1>7, <2>1, <2>2, <2>5, <3>1, <3>2, <3>6, Passing
  <2> QED BY <1>3, <1>7, <2>3, <2>4, <2>5 DEF HostReceives, Hears, Cmd
<1>8. CASE Cmd.t = "block" /\ host.pc = "receive" /\ Cmd.k # 0
  <2>1. UNCHANGED <<host, toPanel, skipped, final>> /\ remote' = [remote EXCEPT ![x] = @ + 1]
    BY <1>3, <1>8 DEF HostReceives, Hears, Cmd
  <2> QED BY <1>1, <1>3, <1>8, <2>1, TakesBlock
<1>9. CASE Cmd.t = "block" /\ host.pc = "receive" /\ Cmd.k = 0
  <2>1. UNCHANGED <<host, toPanel, skipped, remote>> /\ final' = final \cup {x}
    BY <1>3, <1>9 DEF HostReceives, Hears, Cmd
  <2> QED BY <1>1, <1>3, <1>9, <2>1, TakesEnd
<1>10. CASE Cmd.t \in {"block", "digest"} /\ host.pc # "receive"
  <2>1. UNCHANGED <<host, toPanel, skipped, remote, final>>
    BY <1>10 DEF HostReceives, Hears, Cmd
  <2>2. ~Active'
    BY <1>2, <1>10, <2>1
  <2> QED BY <1>1, <1>2, <1>5, <2>1, <2>2, Passing
<1>11. CASE Cmd.t = "done"
  <2>1. /\ UNCHANGED <<skipped, remote, final>> /\ host'.pc = "idle"
        /\ toPanel' = IF host.pc = "receive" THEN Append(toPanel, M("done", 0, 0)) ELSE toPanel
    BY <1>4, <1>11 DEF HostReceives, Hears, Cmd
  <2>2. ~Active'
    BY <1>2, <2>1
  <2>3. CASE host.pc # "receive"
    BY <1>1, <1>2, <1>5, <2>1, <2>2, <2>3, Passing
  <2>4. CASE host.pc = "receive"
    <3>1. PICK m \in Messages : m = M("done", 0, 0) /\ m.t = "done"
      BY <1>4
    <3>2. toPanel' = Append(toPanel, m)
      BY <2>1, <2>4, <3>1
    <3>3. up.pc = "finished" /\ \A j \in DOMAIN toHost : toHost[j].t = "block" => j < 1
      BY <1>2, <1>6, <1>11 DEF LedgerInv
    <3>4. \A j \in DOMAIN toHost : ~(j < 1)
      BY DEF PanelType
    <3>5. \A f : ~Queued(f, 0)
      BY <3>3, <3>4 DEF Queued, BlockAt
    <3>6. \A f \in 1..total : Settles(f)
      BY <1>6, <2>4, <3>3, <3>5 DEF LedgerInv, Past, Active
    <3>7. \A f \in 1..total : Settles(f)'
      BY <2>1, <3>6 DEF Settles
    <3> QED BY <1>1, <1>2, <2>1, <2>2, <3>1, <3>2, <3>7, Passing
  <2> QED BY <2>3, <2>4
<1> QED BY <1>7, <1>8, <1>9, <1>10, <1>11 DEF HostReceives, Hears, Cmd

\* At first nothing was sent.
LEMMA SumsStart == ASSUME Init PROVE UploadSums \/ kind = "download"
<1> SUFFICES ASSUME kind = "upload" PROVE UploadSums
  BY DEF Init
<1>1. /\ total \in Files /\ conn = "streaming" /\ status = "none" /\ deciding = 0
      /\ chain = <<>> /\ phase = "idle" /\ writable = NoStream
      /\ toHost = <<>> /\ toPanel = <<>> /\ DOMAIN toHost = {} /\ DOMAIN toPanel = {}
      /\ remote = [f \in Files |-> 0] /\ final = {} /\ up.pc = "none" /\ host.pc = "idle"
  BY DEF Init
<1>2. \A f \in Files : disk[f] # "partial"
  BY DEF Init
<1>3. UploadShape
  <2>1. remote \in [Files -> Nat] /\ \A f \in Files : remote[f] = 0 /\ remote[f] <= Blocks
    BY <1>1, TransferBounds
  <2> QED BY <1>1, <1>2, <2>1 DEF UploadShape, Sending
<1>4. ~Active /\ Past = {}
  BY <1>1 DEF Active, Past, Sending
<1> QED BY <1>1, <1>3, <1>4 DEF UploadSums, StreamInv, SenderInv, QuestionInv, LedgerInv

\* Every step of an upload keeps its accounts.
LEMMA SumsStep ==
    ASSUME PanelType, UploadInv, UploadSums, kind = "upload", [Next]_vars, PanelType'
    PROVE  UploadSums'
<1>1. CASE Events
  BY <1>1, EventSums, DigestSums, SendConfirmSums DEF Events
<1>2. CASE TargetChecked \/ User \/ WorkerCrashes \/ Reopen
  <2>1. ~StartDownload
    BY DEF StartDownload
  <2> QED BY <1>2, <2>1, UserSums, StartSums DEF User
<1>3. CASE WriteChain
  <2>1. chain = <<>> /\ phase = "idle"
    BY DEF UploadSums, UploadShape
  <2> QED BY <1>3, <2>1 DEF WriteChain, ItemStarts, Opened, Written, FileClosed
<1>4. CASE Upload
  BY <1>4, LoopSums
<1>5. CASE Host \/ HostFails \/ BlockUnreadable \/ ConnectionLost
  BY <1>5, HostSums, HostReceivesSums DEF Host
<1>6. CASE UNCHANGED vars
  <2>1. /\ UNCHANGED <<kind, total, conn, status, deciding, up, toHost, toPanel>>
        /\ UNCHANGED <<chain, phase, writable, disk, host, remote, final, skipped>>
    BY <1>6 DEF vars, job, local, chans, device, history
  <2>2. PICK m \in Messages : m.t = "error"
    <3>1. M("error", 0, 0) \in Messages /\ M("error", 0, 0).t = "error"
      BY DEF M, Messages, MessageKinds
    <3> QED BY <3>1
  <2>3. (Active' => Active) /\ (status = "none" => host'.pc # "receive")
    BY <2>1 DEF Active, UploadSums, UploadShape
  <2> QED BY <2>1, <2>2, <2>3, Passing
<1> QED BY <1>1, <1>2, <1>3, <1>4, <1>5, <1>6 DEF Next

\* What the accounts of an upload are kept for.
LEMMA SumsMean ==
    ASSUME UploadSums, kind = "upload"
    PROVE  NoPartialFile /\ DoneMeansComplete
<1>1. UploadShape /\ LedgerInv
  BY DEF UploadSums
<1>2. NoPartialFile
  BY <1>1 DEF UploadShape, LedgerInv, NoPartialFile
<1>3. DoneMeansComplete
  BY <1>1 DEF UploadShape, LedgerInv, DoneMeansComplete, Settles
<1> QED BY <1>2, <1>3

=============================================================================
