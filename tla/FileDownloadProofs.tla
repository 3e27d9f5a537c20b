------------------------- MODULE FileDownloadProofs -------------------------
(***************************************************************************)
(* What a finished transfer left behind, for any number of files and       *)
(* blocks: the accounts of a download, and with those of an upload         *)
(* (FileTransferProofs) the two theorems about both.                       *)
(***************************************************************************)
EXTENDS FileTransferProofs

Stopped   == status \in {"cancelled", "error"}
Has(q, t) == \E i \in DOMAIN q : q[i].t = t
Eof(m)    == m.t = "block" /\ m.k = 0
Pred(k)   == IF k = 0 THEN Blocks ELSE k - 1

\* Message b comes right behind a in a download: the blocks of a file in order, its
\* end (0) behind the last, then the next file or the end of the job.
Follows(a, b) ==
    /\ b.t = "block" => a.t = "block" /\ IF b.k = 1 THEN a.k = 0 ELSE a.f = b.f /\ a.k = Pred(b.k)
    /\ b.t = "digest" => Eof(a) \/ a.t = "dir"
    /\ b.t \in {"dir", "done", "skipped"} => Eof(a)
Chained(q) == \A i \in DOMAIN q : i + 1 \in DOMAIN q => Follows(q[i], q[i + 1])

\* The last message, behind a.  The stream runs from what is written (Mark) through
\* the write chain (Tip) and the channel to what the device sends next (Due).
End(q, a) == IF q = <<>> THEN a ELSE q[Len(q)]
Mark == M("block", writable.f, writable.n)
Tip  == End(chain, Mark)
Due  == M("block", host.f, IF host.pc = "wait" THEN 1 ELSE IF host.k > Blocks THEN 0 ELSE host.k)

\* The device is through with the job; nothing but the end of the connection follows.
Settled  == host.pc \in {"idle", "gone"} /\ ~Has(toHost, "send")
Terminal == Settled /\ \A i \in DOMAIN toPanel : toPanel[i].t \in {"error", "closed"}

\* The device was told to stop, or cannot be told anything; it waits for a go-ahead
\* that will not come.
Cut == conn = "closed" \/ Has(toHost, "cancel")
Go(i) == /\ toHost[i].t = "confirm" /\ toHost[i].f = host.f
         /\ \A j \in 1..(i - 1) : toHost[j].t # "cancel"
Hopeless == host.pc = "wait" /\ Cut /\ \A i \in DOMAIN toHost : ~Go(i)

\* A job revived after it had stopped: no block is still to come.
Doomed == /\ ~Has(toPanel, "block") /\ ~Has(toPanel, "done") /\ ~Has(chain, "done")
          /\ Settled \/ Hopeless
          /\ status # "none"

Over == {"digest", "done", "skipped", "error", "closed"}

DownType ==
    /\ total \in Files /\ final = {} /\ deciding \in 0..total /\ (asking => deciding # 0)
    /\ chain \in Seq(Messages) /\ phase \in {"idle", "closing", "opening", "writing"} /\ curFileNum \in Nat
    /\ writable \in [f : Nat, n : Nat, ok : BOOLEAN]
    /\ writable.f = 0 => writable = NoStream
    /\ writable.f # 0 => writable.f = curFileNum
    /\ disk \in [Files -> {"old", "absent", "empty", "new", "partial"}]

\* What the two sides may send.
LineInv ==
    /\ \A i \in DOMAIN toHost :
          /\ toHost[i].t \in {"send", "confirm", "cancel"}
          /\ toHost[i].t = "confirm" /\ toHost[i].k = 1 => toHost[i].f \in skipped
          /\ toHost[i].t = "send" => i = 1
    /\ \A i \in DOMAIN toPanel :
          /\ toPanel[i].t \in {"dir", "digest", "block", "done", "skipped", "error", "closed"}
          /\ toPanel[i].t = "block" => toPanel[i].k <= Blocks
          /\ toPanel[i].t \in {"block", "digest"} => toPanel[i].f \in 1..total
          /\ toPanel[i].t = "dir" => i = 1
    /\ host.pc \in {"wait", "send"} => host.f \in 1..total /\ ~Has(toHost, "send")
    /\ host.pc = "send" => host.k \in 1..(Blocks + 1)
    /\ host.pc # "receive"

\* In which order the device speaks, and what it does next.
OrderInv ==
    /\ \A i, j \in DOMAIN toPanel : i < j =>
          /\ toPanel[i].t \in Over => toPanel[j].t \in {"error", "closed"}
          /\ toPanel[i].t = "dir" => toPanel[j].t \in {"digest", "error", "closed"}
    /\ \A i \in DOMAIN toPanel :
          /\ toPanel[i].t \in {"error", "done", "skipped"} => Settled
          /\ toPanel[i].t = "closed" => host.pc = "gone"
          /\ toPanel[i].t = "skipped" => total = 1 /\ 1 \in skipped
    /\ Has(chain, "done") => Terminal
    /\ host.pc = "send" => \A i \in DOMAIN toPanel : toPanel[i].t = "block"
    /\ host.pc = "wait" => toPanel = <<>> \/ Has(toPanel, "digest")

\* A file is asked about once; a job that has stopped has told the device.
AskInv ==
    /\ \A i \in DOMAIN toPanel : toPanel[i].t = "digest" =>
         /\ host.pc = "wait" => toPanel[i].f = host.f
         /\ deciding # toPanel[i].f
         /\ ~Has(toHost, "send")
         /\ \A j \in DOMAIN toHost : toHost[j].t = "confirm" => toHost[j].f # toPanel[i].f
    /\ host.pc \in {"wait", "send"} =>
         /\ deciding <= host.f
         /\ \A j \in DOMAIN toHost : toHost[j].t = "confirm" => toHost[j].f <= host.f
    /\ Stopped => Cut \/ Settled

\* Nothing has happened to a job the device has not started with.
Idle == chain = <<>> /\ phase = "idle" /\ curFileNum = 0 /\ writable = NoStream
FreshInv ==
    /\ Has(toHost, "send") \/ Has(toPanel, "dir") \/ status = "none" =>
          Idle /\ deciding = 0 /\ ~Has(toHost, "confirm")
    /\ Has(toHost, "send") \/ status = "none" =>
          host.pc \in {"idle", "gone"} /\ \A i \in DOMAIN toPanel : toPanel[i].t = "closed"
    /\ status = "none" => toHost = <<>>

LinkInv == LineInv /\ OrderInv /\ AskInv /\ FreshInv

(***************************************************************************)
(* The link between panel and device.                                      *)
(***************************************************************************)

\* One message more, behind the others.
LEMMA Grown ==
    ASSUME NEW S, NEW s \in Seq(S), NEW m \in S, NEW r, r = Append(s, m)
    PROVE  /\ r \in Seq(S) /\ r # <<>> /\ Len(r) = Len(s) + 1 /\ r[Len(s) + 1] = m
           /\ Len(s) + 1 \in DOMAIN r /\ Len(s) \in Nat
           /\ \A i \in DOMAIN s : i \in DOMAIN r /\ r[i] = s[i] /\ i \in Nat /\ i < Len(s) + 1
           /\ \A i \in DOMAIN r : /\ i \in Nat
                                  /\ \/ i \in DOMAIN s /\ r[i] = s[i]
                                     \/ i = Len(s) + 1 /\ r[i] = m
<1>1. /\ r \in Seq(S) /\ Len(r) = Len(s) + 1 /\ r[Len(s) + 1] = m /\ Len(s) \in Nat
      /\ DOMAIN r = 1..(Len(s) + 1) /\ DOMAIN s = 1..Len(s)
  OBVIOUS
<1>2. \A i \in DOMAIN s : r[i] = s[i]
  OBVIOUS
<1>3. Len(s) + 1 \in DOMAIN r /\ r # <<>>
  BY <1>1
<1>4. \A i \in DOMAIN r : i \in Nat /\ (i \in DOMAIN s \/ i = Len(s) + 1)
  BY <1>1
<1>5. \A i \in DOMAIN s : i \in DOMAIN r /\ i \in Nat /\ i < Len(s) + 1
  BY <1>1
<1> QED BY <1>1, <1>2, <1>3, <1>4, <1>5

\* A step of the panel that takes no message and posts at most one, a cancel or the
\* answer to the question it is deciding.
LEMMA PanelActs ==
    ASSUME PanelType, DownType, LinkInv, UNCHANGED <<total, toPanel, host>>,
           skipped \subseteq skipped', deciding' \in {0, deciding},
           NEW m \in Messages, m.t \in {"cancel", "confirm"},
           m.t = "confirm" => /\ m.f = deciding /\ deciding # 0 /\ deciding' = 0
                              /\ m.k = 1 => m.f \in skipped',
           UNCHANGED toHost \/ (toHost' = Append(toHost, m) /\ conn # "closed" /\ status # "none"),
           status' = "none" => status = "none",
           conn = "closed" => conn' = "closed",
           Stopped' => Stopped \/ conn' = "closed" \/ (m.t = "cancel" /\ toHost' = Append(toHost, m)),
           Has(chain', "done") => Has(chain, "done"), Idle => Idle'
    PROVE  /\ LinkInv'
           /\ Settled => Settled'
           /\ Terminal => Terminal'
           /\ Doomed => Doomed'
<1>0. /\ toHost \in Seq(Messages) /\ total \in Nat /\ deciding \in Nat
      /\ LineInv /\ OrderInv /\ AskInv /\ FreshInv
  BY DEF PanelType, LinkInv
<1>1. /\ \A i \in DOMAIN toHost : i \in DOMAIN toHost' /\ toHost'[i] = toHost[i]
      /\ \A i \in DOMAIN toHost' :
            \/ i \in DOMAIN toHost /\ toHost'[i] = toHost[i]
            \/ i = Len(toHost) + 1 /\ toHost'[i] = m /\ toHost' = Append(toHost, m)
  BY <1>0, Grown
<1>2. \A t : /\ Has(toHost, t) => Has(toHost', t)
             /\ Has(toHost', t) /\ t \notin {"cancel", "confirm"} => Has(toHost, t)
  BY <1>1 DEF Has
<1>3. Settled => Settled'
  BY <1>2 DEF Settled
<1>4. Terminal => Terminal'
  BY <1>3 DEF Terminal
<1>5. LineInv'
  <2>1. \A i \in DOMAIN toHost' :
          /\ toHost'[i].t \in {"send", "confirm", "cancel"}
          /\ toHost'[i].t = "confirm" /\ toHost'[i].k = 1 => toHost'[i].f \in skipped'
          /\ toHost'[i].t = "send" => i = 1
    BY <1>0, <1>1 DEF LineInv
  <2> QED BY <1>0, <1>2, <2>1 DEF LineInv
<1>6. OrderInv'
  BY <1>0, <1>3, <1>4 DEF OrderInv, Has
<1>7. Cut => Cut'
  BY <1>2 DEF Cut
<1>8. AskInv'
  <2>1. ASSUME NEW i \in DOMAIN toPanel, toPanel[i].t = "digest"
        PROVE  /\ host.pc = "wait" => toPanel[i].f = host.f
               /\ deciding' # toPanel[i].f
               /\ ~Has(toHost', "send")
               /\ \A j \in DOMAIN toHost' : toHost'[j].t = "confirm" => toHost'[j].f # toPanel[i].f
    <3>1. toPanel[i].f # 0
      BY <1>0, <2>1 DEF LineInv
    <3> QED BY <1>0, <1>1, <1>2, <2>1, <3>1 DEF AskInv
  <2>2. host.pc \in {"wait", "send"} =>
         /\ deciding' <= host.f
         /\ \A j \in DOMAIN toHost' : toHost'[j].t = "confirm" => toHost'[j].f <= host.f
    <3>1. host.pc \in {"wait", "send"} => 0 <= host.f
      BY <1>0 DEF LineInv
    <3> QED BY <1>0, <1>1, <3>1 DEF AskInv
  <2>3. Stopped' => Cut' \/ Settled'
    <3>1. toHost' = Append(toHost, m) /\ m.t = "cancel" => Has(toHost', "cancel")
      BY <1>0, Grown DEF Has
    <3> QED BY <1>0, <1>3, <1>7, <3>1 DEF AskInv, Cut
  <2> QED BY <2>1, <2>2, <2>3 DEF AskInv
<1>9. FreshInv'
  BY <1>0, <1>2 DEF FreshInv, Has
<1>10. Hopeless => Hopeless'
  <2> SUFFICES ASSUME Hopeless, NEW i \in DOMAIN toHost', Go(i)' PROVE FALSE
    BY <1>7 DEF Hopeless
  <2>1. CASE i \in DOMAIN toHost /\ toHost'[i] = toHost[i]
    <3>1. \A j \in 1..(i - 1) : j \in DOMAIN toHost
      BY <1>0, <2>1
    <3>2. Go(i)
      BY <1>1, <2>1, <3>1 DEF Go
    <3> QED BY <2>1, <3>2 DEF Hopeless
  <2>2. CASE i = Len(toHost) + 1 /\ toHost' = Append(toHost, m)
    <3>1. PICK h \in DOMAIN toHost : toHost[h].t = "cancel"
      BY <2>2 DEF Hopeless, Cut, Has
    <3>2. h \in 1..(i - 1)
      BY <1>0, <2>2
    <3> QED BY <1>1, <3>1, <3>2 DEF Go
  <2> QED BY <1>1, <2>1, <2>2
<1>11. Doomed => Doomed'
  BY <1>3, <1>10 DEF Doomed, Has
<1> QED BY <1>3, <1>4, <1>5, <1>6, <1>8, <1>9, <1>11 DEF LinkInv


\* A step of the panel that takes a message and posts nothing.  A job that had stopped
\* and is revived by it gets no further block.
LEMMA PanelTakes ==
    ASSUME PanelType, DownType, LinkInv, UNCHANGED <<total, toHost, host, skipped>>,
           toPanel # <<>>, toPanel' = Tail(toPanel),
           deciding' = IF Msg.t = "digest" THEN Msg.f ELSE deciding,
           status' = "none" => status = "none",
           conn = "closed" => conn' = "closed",
           Stopped' => Stopped \/ conn' = "closed" \/ Msg.t = "error",
           Has(chain', "done") => Has(chain, "done") \/ Msg.t = "done",
           Msg.t \notin {"block", "done"} => UNCHANGED chain /\ (Idle => Idle')
    PROVE  /\ LinkInv'
           /\ Settled => Settled'
           /\ Terminal => Terminal'
           /\ Doomed => Doomed'
           /\ Stopped /\ status' # "none" /\ Msg.t \in {"dir", "digest", "skipped"} => Doomed'
<1>0. /\ toPanel \in Seq(Messages) /\ total \in Nat /\ deciding \in Nat
      /\ LineInv /\ OrderInv /\ AskInv /\ FreshInv
  BY DEF PanelType, LinkInv
<1>1. /\ Msg = toPanel[1] /\ 1 \in DOMAIN toPanel /\ Msg \in Messages
      /\ \A i \in DOMAIN toPanel' : /\ i \in Nat /\ i + 1 \in DOMAIN toPanel
                                    /\ toPanel'[i] = toPanel[i + 1] /\ 1 < i + 1
      /\ \A i \in DOMAIN toPanel : i # 1 => i - 1 \in DOMAIN toPanel' /\ toPanel'[i - 1] = toPanel[i]
  <2>1. /\ Msg = toPanel[1] /\ 1 \in DOMAIN toPanel /\ Msg \in Messages
        /\ \A i \in DOMAIN toPanel' : /\ i \in Nat /\ i + 1 \in DOMAIN toPanel
                                      /\ toPanel'[i] = toPanel[i + 1] /\ i + 1 # 1
    BY <1>0, Received DEF Msg
  <2>2. \A i \in DOMAIN toPanel' : i \in Nat /\ i >= 1
    OBVIOUS
  <2>3. \A i \in DOMAIN toPanel : i # 1 => i - 1 \in DOMAIN toPanel' /\ toPanel'[i - 1] = toPanel[i]
    BY <1>0, MovesUp
  <2> QED BY <2>1, <2>2, <2>3
<1>2. \A t : Has(toPanel', t) => Has(toPanel, t)
  BY <1>1 DEF Has
<1>3. Settled => Settled'
  BY DEF Settled, Has
<1>4. Terminal => Terminal'
  BY <1>1, <1>3 DEF Terminal
<1>5. Msg.t = "done" => \A i \in DOMAIN toPanel' : toPanel'[i].t \in {"error", "closed"}
  BY <1>0, <1>1 DEF OrderInv, Over
<1>6. LineInv'
  <2>1. \A i \in DOMAIN toPanel' :
          /\ toPanel'[i].t \in {"dir", "digest", "block", "done", "skipped", "error", "closed"}
          /\ toPanel'[i].t = "block" => toPanel'[i].k <= Blocks
          /\ toPanel'[i].t \in {"block", "digest"} => toPanel'[i].f \in 1..total'
          /\ toPanel'[i].t # "dir"
    <3>1. \A i \in DOMAIN toPanel : i # 1 => 
          /\ toPanel[i].t \in {"dir", "digest", "block", "done", "skipped", "error", "closed"}
          /\ toPanel[i].t = "block" => toPanel[i].k <= Blocks
          /\ toPanel[i].t \in {"block", "digest"} => toPanel[i].f \in 1..total
          /\ toPanel[i].t # "dir"
      BY <1>0 DEF LineInv
    <3>2. \A i \in DOMAIN toPanel' : \E h \in DOMAIN toPanel : h # 1 /\ toPanel'[i] = toPanel[h]
      BY <1>1
    <3> QED BY <3>1, <3>2
  <2> QED BY <1>0, <2>1 DEF LineInv, Has
<1>7. OrderInv'
  <2>1. \A i, j \in DOMAIN toPanel' : i < j =>
          /\ toPanel'[i].t \in Over => toPanel'[j].t \in {"error", "closed"}
          /\ toPanel'[i].t = "dir" => toPanel'[j].t \in {"digest", "error", "closed"}
    <3> SUFFICES ASSUME NEW i \in DOMAIN toPanel', NEW j \in DOMAIN toPanel', i < j
                 PROVE  /\ toPanel'[i].t \in Over => toPanel'[j].t \in {"error", "closed"}
                        /\ toPanel'[i].t = "dir" => toPanel'[j].t \in {"digest", "error", "closed"}
      OBVIOUS
    <3>1. PICK a \in DOMAIN toPanel, b \in DOMAIN toPanel :
            a < b /\ toPanel'[i] = toPanel[a] /\ toPanel'[j] = toPanel[b]
      <4>1. i + 1 \in DOMAIN toPanel /\ j + 1 \in DOMAIN toPanel /\ i + 1 < j + 1
        BY <1>1
      <4> QED BY <1>1, <4>1
    <3> QED BY <1>0, <3>1 DEF OrderInv
  <2>2. \A i \in DOMAIN toPanel' :
          /\ toPanel'[i].t \in {"error", "done", "skipped"} => Settled'
          /\ toPanel'[i].t = "closed" => host'.pc = "gone"
          /\ toPanel'[i].t = "skipped" => total' = 1 /\ 1 \in skipped'
    BY <1>0, <1>1, <1>3 DEF OrderInv
  <2>3. Has(chain', "done") => Terminal'
    <3>1. CASE Has(chain, "done")
      BY <1>0, <1>4, <3>1 DEF OrderInv
    <3>2. CASE Msg.t = "done"
      <4>1. Settled
        BY <1>0, <1>1, <3>2 DEF OrderInv
      <4> QED BY <1>3, <1>5, <3>2, <4>1 DEF Terminal
    <3> QED BY <3>1, <3>2
  <2>4. host'.pc = "send" => \A i \in DOMAIN toPanel' : toPanel'[i].t = "block"
    BY <1>0, <1>1 DEF OrderInv
  <2>5. host'.pc = "wait" => toPanel' = <<>> \/ Has(toPanel', "digest")
    <3> SUFFICES ASSUME host.pc = "wait" PROVE toPanel' = <<>> \/ Has(toPanel', "digest")
      OBVIOUS
    <3>1. PICK i \in DOMAIN toPanel : toPanel[i].t = "digest"
      BY <1>0 DEF OrderInv, Has
    <3>2. CASE i # 1
      BY <1>1, <3>1, <3>2 DEF Has
    <3>3. CASE i = 1
      <4>1. \A j \in DOMAIN toPanel : 1 < j => toPanel[j].t \in {"error", "closed"}
        BY <1>0, <1>1, <3>1, <3>3 DEF OrderInv, Over
      <4>2. \A j \in DOMAIN toPanel : toPanel[j].t \notin {"error", "closed"}
        BY <1>0 DEF OrderInv, Settled
      <4>3. DOMAIN toPanel' = {}
        BY <1>1, <4>1, <4>2
      <4>4. toPanel' \in Seq(Messages)
        BY <1>0, Received
      <4> QED BY <4>3, <4>4
    <3> QED BY <3>2, <3>3
  <2> QED BY <2>1, <2>2, <2>3, <2>4, <2>5 DEF OrderInv
<1>8. Cut => Cut'
  BY DEF Cut, Has
<1>9. Msg.t = "digest" => \A i \in DOMAIN toPanel' : toPanel'[i].t # "digest"
  BY <1>0, <1>1 DEF OrderInv, Over
<1>10. AskInv'
  <2>1. ASSUME NEW i \in DOMAIN toPanel', toPanel'[i].t = "digest"
        PROVE  /\ host.pc = "wait" => toPanel'[i].f = host.f
               /\ deciding' # toPanel'[i].f
               /\ ~Has(toHost, "send")
               /\ \A j \in DOMAIN toHost : toHost[j].t = "confirm" => toHost[j].f # toPanel'[i].f
    BY <1>0, <1>1, <1>9, <2>1 DEF AskInv
  <2>2. host.pc \in {"wait", "send"} => deciding' <= host.f
    <3>1. CASE Msg.t = "digest"
      <4>1. host.pc # "send"
        BY <1>0, <1>1, <3>1 DEF OrderInv
      <4>2. host.pc = "wait" => Msg.f = host.f
        BY <1>0, <1>1, <3>1 DEF AskInv
      <4>3. host.f \in Nat
        BY DEF PanelType
      <4> QED BY <3>1, <4>1, <4>2, <4>3
    <3>2. CASE Msg.t # "digest"
      BY <1>0, <3>2 DEF AskInv
    <3> QED BY <3>1, <3>2
  <2>3. Stopped' => Cut' \/ Settled'
    <3>1. Msg.t = "error" => Settled
      BY <1>0, <1>1 DEF OrderInv
    <3> QED BY <1>0, <1>3, <1>8, <3>1 DEF AskInv, Cut
  <2> QED BY <1>0, <2>1, <2>2, <2>3 DEF AskInv
<1>11. FreshInv'
  <2>1. ~Has(toPanel', "dir")
    BY <1>0, <1>1 DEF LineInv, Has
  <2>2. Has(toHost, "send") \/ status' = "none" =>
          /\ host.pc \in {"idle", "gone"} /\ \A i \in DOMAIN toPanel : toPanel[i].t = "closed"
          /\ Idle /\ deciding = 0
    BY <1>0 DEF FreshInv
  <2>3. Has(toHost, "send") \/ status' = "none" => Idle' /\ deciding' = 0
    BY <1>1, <2>2
  <2> QED BY <1>0, <1>1, <2>1, <2>2, <2>3 DEF FreshInv
<1>12. Hopeless => Hopeless'
  BY <1>8 DEF Hopeless, Go
<1>13. Doomed => Doomed'
  <2> SUFFICES ASSUME Doomed PROVE Doomed'
    OBVIOUS
  <2>1. Msg.t \notin {"block", "done"}
    BY <1>1 DEF Doomed, Has
  <2> QED BY <1>2, <1>3, <1>12, <2>1 DEF Doomed
<1>14. ASSUME Stopped, status' # "none", Msg.t \in {"dir", "digest", "skipped"} PROVE Doomed'
  <2>1. ~Has(chain, "done")
    BY <1>0, <1>1, <1>14 DEF OrderInv, Terminal
  <2>2. \A i \in DOMAIN toPanel' : toPanel'[i].t \in {"digest", "error", "closed"}
    <3>1. \A j \in DOMAIN toPanel : 1 < j => toPanel[j].t \in {"digest", "error", "closed"}
      BY <1>0, <1>1, <1>14 DEF OrderInv, Over
    <3> QED BY <1>1, <3>1
  <2>3. CASE Settled
    BY <1>3, <1>14, <2>1, <2>2, <2>3 DEF Doomed, Has
  <2>4. CASE ~Settled
    <3>1. Cut' /\ Msg.t # "skipped"
      BY <1>0, <1>1, <1>8, <1>14, <2>4 DEF AskInv, OrderInv
    <3>2. host.pc \notin {"send", "receive"} /\ ~Has(toHost, "send")
      BY <1>0, <1>1, <1>14 DEF OrderInv, LineInv, FreshInv
    <3>3. host.pc = "wait"
      BY <2>4, <3>2 DEF Settled, PanelType, HostStates
    <3>4. PICK i \in DOMAIN toPanel : toPanel[i].t = "digest"
      BY <1>0, <3>3 DEF OrderInv, Has
    <3>5. \A j \in DOMAIN toHost : ~(toHost[j].t = "confirm" /\ toHost[j].f = host.f)
      BY <1>0, <3>3, <3>4 DEF AskInv
    <3>6. Hopeless'
      BY <3>1, <3>3, <3>5 DEF Hopeless, Go
    <3> QED BY <1>14, <2>1, <2>2, <3>1, <3>6 DEF Doomed, Has
  <2> QED BY <2>3, <2>4
<1> QED BY <1>3, <1>4, <1>6, <1>7, <1>10, <1>11, <1>13, <1>14 DEF LinkInv

\* What a message to the panel may be, and what may come behind it.
Fits(m) ==
    /\ m.t \in {"dir", "digest", "block", "done", "skipped", "error", "closed"}
    /\ m.t = "block" => m.k <= Blocks
    /\ m.t \in {"block", "digest"} => m.f \in 1..total
    /\ m.t \in {"error", "done", "skipped"} => Settled
    /\ m.t = "closed" => host.pc = "gone"
    /\ m.t = "skipped" => total = 1 /\ 1 \in skipped
    /\ m.t = "digest" => /\ host.pc = "wait" => m.f = host.f
                         /\ deciding # m.f /\ ~Has(toHost, "send")
                         /\ \A j \in DOMAIN toHost : toHost[j].t = "confirm" => toHost[j].f # m.f
    /\ host.pc = "send" => m.t = "block"
Precedes(a, b) == /\ a.t \in Over => b.t \in {"error", "closed"}
                  /\ a.t = "dir" => b.t \in {"digest", "error", "closed"}
                  /\ b.t # "dir"

\* A step of the device: it says p, and has heard the start of the job.
LEMMA HostActs ==
    ASSUME PanelType, DownType, LinkInv,
           UNCHANGED <<total, deciding, status, conn, skipped, chain, phase, curFileNum, writable>>,
           \A i \in DOMAIN toHost' : \E j \in DOMAIN toHost : toHost'[i] = toHost[j],
           toHost' \in Seq(Messages), ~Has(toHost', "send"),
           NEW p \in Seq(Messages), toPanel' = toPanel \o p,
           \A m : (\E i \in DOMAIN toPanel : toPanel[i] = m) => Fits(m)',
           \A j \in DOMAIN p : Fits(p[j])' /\ (p[j].t = "dir" => j = 1 /\ toPanel = <<>>),
           \A i \in DOMAIN toPanel, j \in DOMAIN p : Precedes(toPanel[i], p[j]),
           \A i, j \in DOMAIN p : i < j => Precedes(p[i], p[j]),
           host'.pc \in {"wait", "send"} =>
              /\ host'.f \in 1..total /\ deciding <= host'.f
              /\ \A j \in DOMAIN toHost' : toHost'[j].t = "confirm" => toHost'[j].f <= host'.f,
           host'.pc = "send" => host'.k \in 1..(Blocks + 1),
           host'.pc = "wait" => toPanel' = <<>> \/ Has(toPanel', "digest"),
           host'.pc \in {"idle", "wait", "send", "gone"},
           Settled => Settled',
           Stopped => Cut' \/ Settled',
           Terminal => \A j \in DOMAIN p : p[j].t \in {"error", "closed"},
           \A j \in DOMAIN p : p[j].t = "dir" => Idle /\ deciding = 0 /\ ~Has(toHost, "confirm"),
           status = "none" => /\ host'.pc \in {"idle", "gone"}
                              /\ \A j \in DOMAIN p : p[j].t = "closed"
    PROVE  LinkInv' /\ (Terminal => Terminal')
<1>0. /\ toPanel \in Seq(Messages) /\ total \in Nat
      /\ LineInv /\ OrderInv /\ AskInv /\ FreshInv
  BY DEF PanelType, LinkInv
<1>1. /\ \A i \in DOMAIN toPanel : i \in DOMAIN toPanel' /\ toPanel'[i] = toPanel[i]
      /\ \A i \in DOMAIN toPanel' :
            \/ i \in DOMAIN toPanel /\ toPanel'[i] = toPanel[i]
            \/ \E j \in DOMAIN p : i = Len(toPanel) + j /\ toPanel'[i] = p[j]
  BY <1>0, Joined
<1>2. \A i \in DOMAIN toPanel : i \in Nat /\ i <= Len(toPanel)
  BY <1>0
<1>3. \A j \in DOMAIN p : j \in Nat /\ j >= 1
  OBVIOUS
<1>4. Len(toPanel) \in Nat /\ (toPanel = <<>> => Len(toPanel) = 0)
  BY <1>0
<1>5. \A t : Has(toHost', t) => Has(toHost, t)
  BY DEF Has
<1>6. ASSUME NEW i \in DOMAIN toPanel' PROVE \E m : m = toPanel'[i] /\ Fits(m)'
  BY <1>1, <1>6
<1>7. LineInv'
  <2>1. \A i \in DOMAIN toHost' :
          /\ toHost'[i].t \in {"send", "confirm", "cancel"}
          /\ toHost'[i].t = "confirm" /\ toHost'[i].k = 1 => toHost'[i].f \in skipped'
          /\ toHost'[i].t # "send"
    BY <1>0 DEF LineInv, Has
  <2>2. \A i \in DOMAIN toPanel' :
          /\ toPanel'[i].t \in {"dir", "digest", "block", "done", "skipped", "error", "closed"}
          /\ toPanel'[i].t = "block" => toPanel'[i].k <= Blocks
          /\ toPanel'[i].t \in {"block", "digest"} => toPanel'[i].f \in 1..total'
    BY <1>6 DEF Fits
  <2>3. \A i \in DOMAIN toPanel' : toPanel'[i].t = "dir" => i = 1
    <3>1. \A j \in DOMAIN p : p[j].t = "dir" => Len(toPanel) + j = 1
      BY <1>4
    <3>2. \A i \in DOMAIN toPanel : toPanel[i].t = "dir" => i = 1
      BY <1>0 DEF LineInv
    <3> QED BY <1>1, <3>1, <3>2
  <2> QED BY <2>1, <2>2, <2>3 DEF LineInv
<1>8. Terminal => Terminal'
  <2> SUFFICES ASSUME Terminal PROVE Terminal'
    OBVIOUS
  <2>1. \A i \in DOMAIN toPanel' : toPanel'[i].t \in {"error", "closed"}
    BY <1>1 DEF Terminal
  <2> QED BY <2>1 DEF Terminal
<1>9. OrderInv'
  <2>1. \A i, j \in DOMAIN toPanel' : i < j =>
          /\ toPanel'[i].t \in Over => toPanel'[j].t \in {"error", "closed"}
          /\ toPanel'[i].t = "dir" => toPanel'[j].t \in {"digest", "error", "closed"}
    <3> SUFFICES ASSUME NEW i \in DOMAIN toPanel', NEW j \in DOMAIN toPanel', i < j
                 PROVE  /\ toPanel'[i].t \in Over => toPanel'[j].t \in {"error", "closed"}
                        /\ toPanel'[i].t = "dir" => toPanel'[j].t \in {"digest", "error", "closed"}
      OBVIOUS
    <3>1. CASE j \in DOMAIN toPanel
      <4>1. i \in DOMAIN toPanel
        BY <1>1, <1>2, <1>3, <1>4, <3>1
      <4> QED BY <1>0, <1>1, <3>1, <4>1 DEF OrderInv
    <3>2. CASE j \notin DOMAIN toPanel /\ i \in DOMAIN toPanel
      BY <1>1, <3>2 DEF Precedes
    <3>3. CASE j \notin DOMAIN toPanel /\ i \notin DOMAIN toPanel
      <4>1. PICK a \in DOMAIN p, b \in DOMAIN p :
              /\ i = Len(toPanel) + a /\ toPanel'[i] = p[a]
              /\ j = Len(toPanel) + b /\ toPanel'[j] = p[b]
        BY <1>1, <3>3
      <4>2. a < b
        BY <1>3, <1>4, <4>1
      <4> QED BY <4>1, <4>2 DEF Precedes
    <3> QED BY <3>1, <3>2, <3>3
  <2>2. \A i \in DOMAIN toPanel' :
          /\ toPanel'[i].t \in {"error", "done", "skipped"} => Settled'
          /\ toPanel'[i].t = "closed" => host'.pc = "gone"
          /\ toPanel'[i].t = "skipped" => total' = 1 /\ 1 \in skipped'
          /\ host'.pc = "send" => toPanel'[i].t = "block"
    BY <1>6 DEF Fits
  <2>3. Has(chain', "done") => Terminal'
    BY <1>0, <1>8 DEF OrderInv
  <2> QED BY <2>1, <2>2, <2>3 DEF OrderInv
<1>10. AskInv'
  <2>1. \A i \in DOMAIN toPanel' : toPanel'[i].t = "digest" =>
         /\ host'.pc = "wait" => toPanel'[i].f = host'.f
         /\ deciding' # toPanel'[i].f
         /\ ~Has(toHost', "send")
         /\ \A j \in DOMAIN toHost' : toHost'[j].t = "confirm" => toHost'[j].f # toPanel'[i].f
    BY <1>6 DEF Fits
  <2>2. Stopped' => Cut' \/ Settled'
    BY DEF Stopped
  <2> QED BY <2>1, <2>2 DEF AskInv
<1>11. FreshInv'
  <2>1. status' = "none" => /\ toHost = <<>> /\ \A i \in DOMAIN toPanel : toPanel[i].t = "closed"
                            /\ Idle /\ deciding = 0 /\ ~Has(toHost, "confirm")
    BY <1>0 DEF FreshInv
  <2>2. status' = "none" => toHost' = <<>>
    <3>1. toHost = <<>> => \A i : i \notin DOMAIN toHost'
      <4>1. \A i : i \notin DOMAIN <<>>
        OBVIOUS
      <4> QED BY <4>1
    <3>2. (\A i : i \notin DOMAIN toHost') => toHost' = <<>>
      <4>1. toHost' # <<>> => 1 \in DOMAIN toHost'
        OBVIOUS
      <4> QED BY <4>1
    <3> QED BY <2>1, <3>1, <3>2
  <2>3. status' = "none" => \A i \in DOMAIN toPanel' : toPanel'[i].t = "closed"
    BY <1>1, <2>1
  <2>4. Has(toPanel', "dir") => Idle /\ deciding = 0 /\ ~Has(toHost, "confirm")
    BY <1>0, <1>1 DEF FreshInv, Has
  <2>5. Idle' <=> Idle
    BY DEF Idle
  <2> QED BY <1>5, <2>1, <2>2, <2>3, <2>4, <2>5 DEF FreshInv
<1> QED BY <1>7, <1>8, <1>9, <1>10, <1>11 DEF LinkInv

(***************************************************************************)
(* The stream of a download.                                               *)
(***************************************************************************)

\* While the job is well, the stream has no gap: every block is behind the one
\* before it, and what is open is being written.
Sound ==
    /\ Chained(chain) /\ Chained(toPanel)
    /\ chain # <<>> => Follows(Mark, chain[1])
    /\ toPanel # <<>> => Follows(Tip, toPanel[1])
    /\ host.pc \in {"wait", "send"} /\ ~Has(toPanel, "digest") => Follows(End(toPanel, Tip), Due)
    /\ writable.f # 0 => writable.ok /\ (writable.n = 0 => phase = "writing")
    /\ writable.f = 0 => (phase = "opening" \/ curFileNum = 0) /\ phase # "writing"

\* As long as the job may end well, every file is settled or its end is still to come.
Whole(f) == f \in skipped \/ disk[f] = "new" \/ f \in lost
Pending(f) ==
    \/ \E i \in DOMAIN chain : Eof(chain[i]) /\ chain[i].f = f
    \/ \E i \in DOMAIN toPanel : Eof(toPanel[i]) /\ toPanel[i].f = f
    \/ host.pc \in {"wait", "send"} /\ f >= host.f
    \/ Has(toHost, "send")
Promising == \/ Has(chain, "done") \/ Has(toPanel, "done")
             \/ host.pc \in {"wait", "send"} \/ Has(toHost, "send")
Account == Promising => \A f \in 1..total : Whole(f) \/ Pending(f)

Fine == Stopped \/ Doomed \/ (Sound /\ Account)

\* What the device says follows what it said before.
LEMMA HostStream ==
    ASSUME PanelType, DownType, LinkInv, Sound,
           UNCHANGED <<chain, phase, curFileNum, writable>>,
           NEW p \in Seq(Messages), toPanel' = toPanel \o p,
           p # <<>> => Follows(End(toPanel, Tip), p[1]), Chained(p),
           p = <<>> \/ Len(p) = 1 \/ Len(p) = 2,
           NEW e, e = IF p = <<>> THEN End(toPanel, Tip) ELSE p[Len(p)],
           NEW d, d = Due',
           host'.pc \in {"wait", "send"} /\ ~Has(toPanel', "digest") => Follows(e, d)
    PROVE  Sound'
<1>0. toPanel \in Seq(Messages) /\ Len(toPanel) \in Nat /\ Len(p) \in Nat
  BY DEF PanelType
<1>1. PICK t : t = Tip /\ Tip' = t /\ UNCHANGED Mark
  BY DEF Tip, Mark, End
<1>2. /\ Len(toPanel') = Len(toPanel) + Len(p) /\ toPanel' \in Seq(Messages)
      /\ \A i \in DOMAIN toPanel : i \in Nat /\ i >= 1 /\ i <= Len(toPanel) /\ toPanel'[i] = toPanel[i]
      /\ \A i \in DOMAIN toPanel' : /\ i \in Nat /\ i >= 1 /\ i <= Len(toPanel) + Len(p)
                                    /\ i \in DOMAIN toPanel \/ i - Len(toPanel) \in DOMAIN p
      /\ \A j \in DOMAIN p : toPanel'[Len(toPanel) + j] = p[j] /\ j \in Nat
  <2>1. /\ toPanel' \in Seq(Messages) /\ Len(toPanel') = Len(toPanel) + Len(p)
        /\ \A i \in DOMAIN toPanel : toPanel'[i] = toPanel[i]
    BY <1>0, Joined
  <2>2. \A j \in DOMAIN p : Len(toPanel) + j \in DOMAIN toPanel' /\ Len(toPanel) + j \notin DOMAIN toPanel
    BY <1>0, <2>1
  <2>3. \A j \in DOMAIN p : \E h \in DOMAIN p : Len(toPanel) + j = Len(toPanel) + h
                                                /\ toPanel'[Len(toPanel) + j] = p[h]
    BY <1>0, <2>2, Joined
  <2>4. \A j \in DOMAIN p : toPanel'[Len(toPanel) + j] = p[j] /\ j \in Nat
    BY <1>0, <2>3
  <2>5. \A i \in DOMAIN toPanel' : /\ i \in Nat /\ i >= 1 /\ i <= Len(toPanel) + Len(p)
                                   /\ i \in DOMAIN toPanel \/ i - Len(toPanel) \in DOMAIN p
    BY <1>0, <2>1
  <2> QED BY <1>0, <2>1, <2>4, <2>5
<1>3. /\ toPanel = <<>> => Len(toPanel) = 0
      /\ toPanel # <<>> => Len(toPanel) \in DOMAIN toPanel /\ 1 \in DOMAIN toPanel
      /\ p = <<>> => Len(p) = 0
      /\ p # <<>> => 1 \in DOMAIN p /\ Len(p) \in DOMAIN p
  BY <1>0
<1>4. End(toPanel', t) = e
  <2>1. CASE p = <<>>
    <3>1. toPanel' = toPanel
      BY <1>0, <2>1
    <3> QED BY <1>1, <2>1, <3>1 DEF End
  <2>2. CASE p # <<>>
    <3>1. toPanel' # <<>>
      BY <1>0, <1>2, <1>3, <2>2
    <3>2. toPanel'[Len(toPanel')] = p[Len(p)]
      BY <1>2, <1>3, <2>2
    <3> QED BY <2>2, <3>1, <3>2 DEF End
  <2> QED BY <2>1, <2>2
<1>5. ASSUME toPanel' # <<>> PROVE Follows(t, toPanel'[1])
  <2>1. CASE toPanel # <<>>
    BY <1>1, <1>2, <1>3, <2>1 DEF Sound
  <2>2. CASE toPanel = <<>>
    <3>1. p # <<>>
      BY <1>0, <1>2, <1>3, <1>5, <2>2
    <3>2. toPanel'[1] = p[1]
      BY <1>2, <1>3, <2>2, <3>1
    <3> QED BY <1>1, <2>2, <3>1, <3>2 DEF End
  <2> QED BY <2>1, <2>2
<1>6. ASSUME NEW i \in DOMAIN toPanel', i + 1 \in DOMAIN toPanel'
      PROVE  Follows(toPanel'[i], toPanel'[i + 1])
  <2>1. CASE i + 1 \in DOMAIN toPanel
    <3>1. i \in DOMAIN toPanel
      BY <1>0, <1>2, <2>1
    <3> QED BY <1>2, <2>1, <3>1 DEF Sound, Chained
  <2>2. CASE i + 1 \notin DOMAIN toPanel /\ i \in DOMAIN toPanel
    <3>1. i = Len(toPanel) /\ toPanel # <<>>
      BY <1>0, <1>2, <1>6, <2>2
    <3>2. p # <<>> /\ toPanel'[i + 1] = p[1]
      BY <1>0, <1>2, <1>3, <1>6, <2>2, <3>1
    <3> QED BY <1>2, <2>2, <3>1, <3>2 DEF End
  <2>3. CASE i + 1 \notin DOMAIN toPanel /\ i \notin DOMAIN toPanel
    <3>1. PICK a \in DOMAIN p : a = i - Len(toPanel) /\ a \in Nat /\ i = Len(toPanel) + a
      BY <1>0, <1>2, <2>3
    <3>2. PICK b \in DOMAIN p : b = i + 1 - Len(toPanel) /\ b \in Nat /\ i + 1 = Len(toPanel) + b
      BY <1>0, <1>2, <1>6, <2>3
    <3>3. b = a + 1
      BY <1>0, <3>1, <3>2
    <3>4. Follows(p[a], p[b])
      BY <3>1, <3>2, <3>3 DEF Chained
    <3> QED BY <1>2, <3>1, <3>2, <3>4
  <2> QED BY <2>1, <2>2, <2>3
<1>7. Chained(toPanel') /\ Chained(chain')
  BY <1>6 DEF Chained, Sound
<1>8. chain' # <<>> => Follows(Mark', chain'[1])
  BY <1>1 DEF Sound
<1>9. /\ toPanel' # <<>> => Follows(Tip', toPanel'[1])
      /\ host'.pc \in {"wait", "send"} /\ ~Has(toPanel', "digest") => Follows(End(toPanel', Tip'), Due')
  BY <1>1, <1>4, <1>5
<1>10. /\ writable'.f # 0 => writable'.ok /\ (writable'.n = 0 => phase' = "writing")
       /\ writable'.f = 0 => (phase' = "opening" \/ curFileNum' = 0) /\ phase' # "writing"
  BY DEF Sound
<1> QED BY <1>7, <1>8, <1>9, <1>10 DEF Sound

\* What waits in the chain: blocks in order, and the end of the job behind them.
ChainInv ==
    \A i \in DOMAIN chain :
         /\ chain[i].t \in {"block", "done"}
         /\ chain[i].t = "block" => chain[i].k <= Blocks /\ chain[i].f \in 1..total
         /\ chain[i].t = "done" => i = Len(chain)
         /\ i + 1 \in DOMAIN chain /\ chain[i + 1].t = "block" => Follows(chain[i], chain[i + 1])

\* What the first item awaits, and what it finds open.
HeadInv ==
    /\ phase \in {"opening", "writing"} =>
          chain # <<>> /\ Item.t = "block" /\ curFileNum = Item.f /\ Item.k # 0
    /\ phase = "closing" => chain # <<>> /\ (Item.t = "block" => curFileNum = Item.f /\ Item.k = 0)
    /\ phase = "opening" => writable = NoStream /\ Item.k = 1
    /\ chain # <<>> /\ Item.t = "block" =>
          /\ Item.k # 1 => curFileNum = Item.f
          /\ Item.k = 1 /\ phase = "idle" => curFileNum = 0 /\ writable = NoStream
          /\ writable.f # 0 /\ writable.ok => Follows(Mark, Item)

DoneInv ==
    status = "done" => \/ \A f \in 1..total : f \in skipped
                       \/ chain = <<>> /\ Terminal /\ \A f \in 1..total : Whole(f)
\* Only a job that has stopped for good leaves a truncated file.
PartInv == (\E f \in Files : disk[f] = "partial") => Stopped /\ Terminal

Down == DownType /\ LinkInv /\ ChainInv /\ HeadInv /\ Fine /\ DoneInv /\ PartInv

\* The device hears the first command.
LEMMA Heeded ==
    ASSUME PanelType, LinkInv, NEW t, Hears(t)
    PROVE  /\ Cmd \in Messages /\ Cmd = toHost[1] /\ Cmd.t = t /\ 1 \in DOMAIN toHost
           /\ toHost' \in Seq(Messages) /\ host.pc # "gone" /\ status # "none"
           /\ \A i \in DOMAIN toHost' : /\ i \in Nat /\ i + 1 \in DOMAIN toHost
                                        /\ toHost'[i] = toHost[i + 1] /\ i + 1 # 1
           /\ \A i \in DOMAIN toHost' : \E j \in DOMAIN toHost : toHost'[i] = toHost[j]
           /\ ~Has(toHost', "send") /\ (Has(toHost, "send") => t = "send")
           /\ Has(toHost, "cancel") /\ t # "cancel" => Has(toHost', "cancel")
           /\ t \in {"send", "confirm", "cancel"}
<1>1. toHost \in Seq(Messages) /\ toHost # <<>> /\ toHost' = Tail(toHost) /\ LineInv /\ FreshInv
  BY DEF PanelType, LinkInv, Hears
<1>2. /\ Cmd \in Messages /\ Cmd = toHost[1] /\ 1 \in DOMAIN toHost /\ toHost' \in Seq(Messages)
      /\ \A i \in DOMAIN toHost' : /\ i \in Nat /\ i + 1 \in DOMAIN toHost
                                   /\ toHost'[i] = toHost[i + 1] /\ i + 1 # 1
  BY <1>1, Received DEF Cmd
<1>3. Cmd.t = t /\ host.pc # "gone" /\ status # "none"
  BY <1>1 DEF Hears, Cmd, FreshInv
<1>4. ~Has(toHost', "send") /\ (Has(toHost, "send") => t = "send")
  BY <1>1, <1>2, <1>3 DEF LineInv, Has
<1>5. Has(toHost, "cancel") /\ t # "cancel" => Has(toHost', "cancel")
  <2>1. \A j \in DOMAIN toHost : j # 1 => j - 1 \in DOMAIN toHost' /\ toHost'[j - 1] = toHost[j]
    BY <1>1, MovesUp
  <2> QED BY <1>2, <1>3, <2>1 DEF Has
<1>6. t \in {"send", "confirm", "cancel"}
  BY <1>1, <1>2, <1>3 DEF LineInv
<1> QED BY <1>2, <1>3, <1>4, <1>5, <1>6

\* What was said before still fits.
LEMMA StillFits ==
    ASSUME PanelType, LinkInv, UNCHANGED <<total, deciding, skipped>>,
           \A i \in DOMAIN toHost' : \E j \in DOMAIN toHost : toHost'[i] = toHost[j],
           host.pc # "gone", Settled => Settled',
           host'.pc = "wait" => UNCHANGED host \/ host.pc = "send",
           host'.pc = "send" => host.pc = "send",
           NEW m, \E i \in DOMAIN toPanel : toPanel[i] = m
    PROVE  Fits(m)'
<1>1. PICK i \in DOMAIN toPanel : toPanel[i] = m
  OBVIOUS
<1>2. LineInv /\ OrderInv /\ AskInv
  BY DEF LinkInv
<1>3. ~Has(toHost, "send") => ~Has(toHost', "send")
  BY DEF Has
<1>4. /\ m.t \in {"dir", "digest", "block", "done", "skipped", "error", "closed"}
      /\ m.t = "block" => m.k <= Blocks
      /\ m.t \in {"block", "digest"} => m.f \in 1..total
  BY <1>1, <1>2 DEF LineInv
<1>5. /\ m.t \in {"error", "done", "skipped"} => Settled
      /\ m.t # "closed"
      /\ m.t = "skipped" => total = 1 /\ 1 \in skipped
      /\ host.pc = "send" => m.t = "block"
  BY <1>1, <1>2 DEF OrderInv
<1>6. m.t = "digest" => /\ host.pc = "wait" => m.f = host.f
                        /\ deciding # m.f /\ ~Has(toHost, "send")
                        /\ \A j \in DOMAIN toHost : toHost[j].t = "confirm" => toHost[j].f # m.f
  BY <1>1, <1>2 DEF AskInv
<1>7. m.t = "digest" => /\ host'.pc = "wait" => m.f = host'.f
                        /\ deciding # m.f /\ ~Has(toHost', "send")
                        /\ \A j \in DOMAIN toHost' : toHost'[j].t = "confirm" => toHost'[j].f # m.f
  BY <1>3, <1>5, <1>6
<1> QED BY <1>4, <1>5, <1>7 DEF Fits

\* What a step of the device leaves to be shown.
LEMMA HostCloses ==
    ASSUME Down, UNCHANGED <<total, deciding, asking, final, status, skipped>>,
           UNCHANGED <<chain, phase, curFileNum, writable, disk, lost>>,
           LinkInv', Terminal => Terminal', Doomed => Doomed',
           ~Doomed /\ Sound /\ Account => Sound' /\ Account'
    PROVE  Down'
<1>1. DownType' /\ (Stopped => Stopped')
  BY DEF Down, DownType, Stopped
<1>2. ChainInv' /\ HeadInv'
  BY DEF Down, ChainInv, HeadInv, Item, Mark, Follows, Eof
<1>3. Fine'
  BY <1>1 DEF Down, Fine
<1>4. DoneInv' /\ PartInv'
  BY <1>1 DEF Down, DoneInv, PartInv, Whole
<1> QED BY <1>1, <1>2, <1>3, <1>4 DEF Down

\* The device starts with the job.
LEMMA StartHeard ==
    ASSUME PanelType, PanelType', Down, Hears("send"),
           toPanel' = toPanel \o <<M("dir", 0, 0), M("digest", 1, 0)>>, host' = At("wait", 1, 0),
           UNCHANGED <<job, local, up, remote, final, history>>
    PROVE  Down'
<1> DEFINE p == <<M("dir", 0, 0), M("digest", 1, 0)>>
<1>0. /\ UNCHANGED <<total, deciding, asking, final, status, conn, skipped>>
      /\ UNCHANGED <<chain, phase, curFileNum, writable, disk, lost>>
      /\ DownType /\ LinkInv /\ total \in Nat /\ 1 \in 1..total
      /\ LineInv /\ OrderInv /\ AskInv /\ FreshInv
  BY TransferBounds DEF job, local, history, Down, LinkInv, DownType, Files
<1>1. /\ p \in Seq(Messages) /\ DOMAIN p = {1, 2} /\ p[1] = M("dir", 0, 0) /\ p[2] = M("digest", 1, 0)
      /\ Len(p) = 2 /\ p # <<>>
  BY DEF Messages, M, MessageKinds
<1>2. /\ Cmd \in Messages /\ Cmd = toHost[1] /\ Cmd.t = "send" /\ 1 \in DOMAIN toHost
      /\ toHost' \in Seq(Messages) /\ host.pc # "gone" /\ status # "none"
      /\ \A i \in DOMAIN toHost' : \E j \in DOMAIN toHost : toHost'[i] = toHost[j]
      /\ ~Has(toHost', "send") /\ (Has(toHost, "cancel") => Has(toHost', "cancel"))
  BY <1>0, Heeded
<1>3. Has(toHost, "send")
  BY <1>2 DEF Has
<1>4. toPanel = <<>> /\ Idle /\ deciding = 0 /\ ~Has(toHost, "confirm") /\ host.pc = "idle"
  <2>1. \A i \in DOMAIN toPanel : toPanel[i].t = "closed"
    BY <1>0, <1>3 DEF FreshInv
  <2>2. \A i : i \notin DOMAIN toPanel
    BY <1>0, <1>2, <2>1 DEF OrderInv
  <2>3. toPanel # <<>> => 1 \in DOMAIN toPanel
    BY DEF PanelType
  <2> QED BY <1>0, <1>2, <1>3, <2>2, <2>3 DEF FreshInv
<1>5. ~Settled /\ ~Doomed /\ ~Terminal /\ (Cut => Cut')
  BY <1>0, <1>2, <1>3, <1>4 DEF Settled, Doomed, Hopeless, Terminal, Cut
<1>6. /\ host' = [pc |-> "wait", f |-> 1, k |-> 0]
      /\ \A j \in DOMAIN toHost' : toHost'[j].t # "confirm"
  BY <1>2, <1>4 DEF At, Has
<1>7. toPanel' = toPanel \o p /\ toPanel' = p
  BY <1>4
<1>8. Has(toPanel', "digest")
  BY <1>1, <1>7 DEF Has, M
<1>9. \A j \in DOMAIN p : Fits(p[j])' /\ (p[j].t = "dir" => j = 1 /\ toPanel = <<>>)
  BY <1>0, <1>1, <1>2, <1>4, <1>6 DEF Fits, M
<1>10. LinkInv'
  <2>1. /\ \A m : (\E i \in DOMAIN toPanel : toPanel[i] = m) => Fits(m)'
        /\ \A i \in DOMAIN toPanel, j \in DOMAIN p : Precedes(toPanel[i], p[j])
    <3>1. \A i : i \notin DOMAIN <<>>
      OBVIOUS
    <3> QED BY <1>4, <3>1
  <2>2. \A i, j \in DOMAIN p : i < j => Precedes(p[i], p[j])
    BY <1>1 DEF Precedes, M, Over
  <2>3. (Stopped => Cut' \/ Settled') /\ (Settled => Settled')
    BY <1>0, <1>5 DEF AskInv
  <2>4. /\ host'.pc \in {"wait", "send"} =>
              /\ host'.f \in 1..total /\ deciding <= host'.f
              /\ \A j \in DOMAIN toHost' : toHost'[j].t = "confirm" => toHost'[j].f <= host'.f
        /\ host'.pc = "send" => host'.k \in 1..(Blocks + 1)
        /\ host'.pc \in {"idle", "wait", "send", "gone"}
    BY <1>0, <1>4, <1>6
  <2>5. \A j \in DOMAIN p : p[j].t = "dir" => Idle /\ deciding = 0 /\ ~Has(toHost, "confirm")
    BY <1>4
  <2> HIDE DEF p
  <2> QED BY ONLY PanelType, <1>0, <1>1, <1>2, <1>5, <1>7, <1>8, <1>9, <2>1, <2>2, <2>3, <2>4, <2>5, HostActs
<1>11. Sound => Sound'
  <2> SUFFICES ASSUME Sound PROVE Sound'
    OBVIOUS
  <2>1. /\ p # <<>> => Follows(End(toPanel, Tip), p[1])
        /\ Chained(p)
    <3>1. Eof(End(toPanel, Tip))
      BY <1>4 DEF End, Tip, Idle, Mark, NoStream, M, Eof
    <3>2. Follows(End(toPanel, Tip), p[1])
      BY <1>1, <3>1 DEF Follows, M
    <3>3. Follows(p[1], p[2])
      BY <1>1 DEF Follows, M
    <3> QED BY <1>1, <3>2, <3>3 DEF Chained
  <2> HIDE DEF p
  <2> QED BY <1>0, <1>1, <1>7, <1>8, <2>1, HostStream
<1>12. Account'
  BY <1>0, <1>6 DEF Account, Pending
<1> QED BY <1>0, <1>5, <1>10, <1>11, <1>12, HostCloses

\* The device hears the answer it waits for: nothing else is on its way.
LEMMA AnswerHeard ==
    ASSUME PanelType, DownType, LinkInv, Hears("confirm"), host.pc = "wait", Cmd.f = host.f
    PROVE  /\ toPanel = <<>> /\ ~Settled /\ ~Doomed /\ ~Terminal
           /\ \A i : i \notin DOMAIN toPanel
           /\ host.f \in 1..total /\ host.f \in Nat /\ deciding <= host.f
           /\ Cmd.k = 1 => host.f \in skipped
           /\ \A j \in DOMAIN toHost' : toHost'[j].t = "confirm" => toHost'[j].f <= host.f
           /\ Stopped /\ UNCHANGED conn => Cut'
<1>0. LineInv /\ OrderInv /\ AskInv /\ FreshInv /\ host.f \in Nat
  BY DEF LinkInv, PanelType
<1>1. /\ Cmd = toHost[1] /\ Cmd.t = "confirm" /\ 1 \in DOMAIN toHost
      /\ \A i \in DOMAIN toHost' : \E j \in DOMAIN toHost : toHost'[i] = toHost[j]
      /\ Has(toHost, "cancel") => Has(toHost', "cancel")
  BY Heeded
<1>2. toPanel = <<>>
  BY <1>0, <1>1 DEF OrderInv, AskInv, Has
<1>3. \A i : i \notin DOMAIN toPanel
  <2>1. \A i : i \notin DOMAIN <<>>
    OBVIOUS
  <2> QED BY <1>2, <2>1
<1>4. ~Settled /\ ~Terminal
  BY DEF Settled, Terminal
<1>5. Go(1)
  BY <1>1 DEF Go
<1>6. ~Doomed
  BY <1>1, <1>4, <1>5 DEF Doomed, Hopeless
<1>7. Stopped /\ UNCHANGED conn => Cut'
  BY <1>0, <1>1, <1>4 DEF AskInv, Cut
<1>8. /\ host.f \in 1..total /\ deciding <= host.f
      /\ Cmd.k = 1 => host.f \in skipped
      /\ \A j \in DOMAIN toHost' : toHost'[j].t = "confirm" => toHost'[j].f <= host.f
  <2>1. host.f \in 1..total /\ (Cmd.k = 1 => Cmd.f \in skipped)
    BY <1>0, <1>1 DEF LineInv
  <2>2. /\ deciding <= host.f
        /\ \A j \in DOMAIN toHost : toHost[j].t = "confirm" => toHost[j].f <= host.f
    BY <1>0 DEF AskInv
  <2> QED BY <1>1, <2>1, <2>2
<1> QED BY <1>0, <1>1, <1>2, <1>3, <1>4, <1>6, <1>7, <1>8 DEF Cut

\* The answer is to go on, or the device goes on behind a file that is skipped.
LEMMA AnswerTaken ==
    ASSUME PanelType, PanelType', Down, Hears("confirm"), host.pc = "wait", Cmd.f = host.f,
           UNCHANGED <<job, local, up, remote, final, history>>,
           NEW p \in Seq(Messages), toPanel' = toPanel \o p, p = <<>> \/ Len(p) = 1,
           p = <<>> <=> Cmd.k # 1, p = <<>> <=> host'.pc = "send",
           host'.pc = "send" => host'.f = host.f /\ host'.k = 1,
           host'.pc = "wait" => host'.f = host.f + 1 /\ host'.f \in 1..total,
           host'.pc \in {"idle", "wait", "send"},
           host'.pc = "idle" => host.f = total,
           p # <<>> => /\ p[1].t \in {"digest", "done", "skipped"}
                       /\ p[1].t = "digest" <=> host'.pc = "wait"
                       /\ p[1].t = "digest" => p[1].f = host.f + 1
                       /\ p[1].t = "skipped" => total = 1
    PROVE  Down'
<1>0. /\ UNCHANGED <<total, deciding, asking, final, status, conn, skipped>>
      /\ UNCHANGED <<chain, phase, curFileNum, writable, disk, lost>>
      /\ DownType /\ LinkInv /\ total \in Nat /\ toPanel \in Seq(Messages) /\ deciding \in Nat
      /\ LineInv /\ OrderInv /\ AskInv /\ FreshInv
  BY TransferBounds DEF job, local, history, Down, LinkInv, DownType, Files, PanelType
<1>1. /\ toPanel = <<>> /\ ~Settled /\ ~Doomed /\ ~Terminal
      /\ \A i : i \notin DOMAIN toPanel
      /\ host.f \in 1..total /\ host.f \in Nat /\ deciding <= host.f
      /\ Cmd.k = 1 => host.f \in skipped
      /\ \A j \in DOMAIN toHost' : toHost'[j].t = "confirm" => toHost'[j].f <= host.f
      /\ Stopped => Cut'
  BY <1>0, AnswerHeard
<1>2. /\ toHost' \in Seq(Messages) /\ status # "none" /\ ~Has(toHost', "send") /\ ~Has(toHost, "send")
      /\ \A i \in DOMAIN toHost' : \E j \in DOMAIN toHost : toHost'[i] = toHost[j]
  BY <1>0, Heeded
<1>3. toPanel' = p
  BY <1>1
<1>4. \A j \in DOMAIN p : j = 1
  OBVIOUS
<1>5. p # <<>> => 1 \in DOMAIN p /\ p[Len(p)] = p[1]
  OBVIOUS
<1>6. p = <<>> => \A i : i \notin DOMAIN p
  <2>1. \A i : i \notin DOMAIN <<>>
    OBVIOUS
  <2> QED BY <2>1
<1>7. host'.pc = "wait" <=> Has(toPanel', "digest")
  BY <1>3, <1>4, <1>5, <1>6 DEF Has
<1>8. ASSUME NEW j \in DOMAIN p PROVE Fits(p[j])' /\ p[j].t # "dir"
  <2>1. p # <<>> /\ p[j] = p[1] /\ host'.pc \in {"idle", "wait"}
    BY <1>4, <1>6
  <2>2. host'.pc = "idle" => Settled'
    BY <1>2 DEF Settled
  <2>3. p[1].t = "digest" =>
          /\ p[1].f \in 1..total /\ p[1].f = host'.f /\ deciding' # p[1].f
          /\ \A h \in DOMAIN toHost' : toHost'[h].t = "confirm" => toHost'[h].f # p[1].f
    <3> SUFFICES ASSUME p[1].t = "digest"
                 PROVE  /\ p[1].f \in 1..total /\ p[1].f = host'.f /\ deciding' # p[1].f
                        /\ \A h \in DOMAIN toHost' : toHost'[h].t = "confirm" => toHost'[h].f # p[1].f
      OBVIOUS
    <3>1. \A x \in Nat : x <= host.f => x # host.f + 1
      BY <1>1
    <3>2. \A h \in DOMAIN toHost' : toHost'[h].f \in Nat
      <4>1. \A h \in DOMAIN toHost' : toHost'[h] \in Messages
        BY <1>2
      <4> QED BY <4>1 DEF Messages
    <3>3. host'.pc = "wait" /\ p[1].f = host.f + 1
      BY <2>1
    <3>4. p[1].f \in 1..total /\ p[1].f = host'.f
      BY <3>3
    <3>5. deciding' # p[1].f
      BY <1>0, <1>1, <3>1, <3>3
    <3> QED BY <1>1, <3>1, <3>2, <3>3, <3>4, <3>5
  <2>4. p[1].t = "skipped" => total' = 1 /\ 1 \in skipped'
    BY <1>0, <1>1, <2>1
  <2>5. p[1].t \in {"digest", "done", "skipped"} /\ host'.pc # "send"
    BY <2>1
  <2>6. p[1].t \in {"done", "skipped"} => Settled'
    BY <2>1, <2>2
  <2>7. Fits(p[1])'
    BY <1>0, <1>2, <2>3, <2>4, <2>5, <2>6 DEF Fits
  <2> QED BY <2>1, <2>5, <2>7
<1>9. LinkInv'
  <2>1. /\ \A m : (\E i \in DOMAIN toPanel : toPanel[i] = m) => Fits(m)'
        /\ \A i \in DOMAIN toPanel, j \in DOMAIN p : Precedes(toPanel[i], p[j])
        /\ \A j \in DOMAIN p : Fits(p[j])' /\ (p[j].t = "dir" => j = 1 /\ toPanel = <<>>)
        /\ \A j \in DOMAIN p : p[j].t = "dir" => Idle /\ deciding = 0 /\ ~Has(toHost, "confirm")
    BY <1>1, <1>8
  <2>2. \A i, j \in DOMAIN p : i < j => Precedes(p[i], p[j])
    BY <1>4
  <2>3. /\ host'.pc \in {"wait", "send"} =>
              /\ host'.f \in 1..total /\ deciding <= host'.f
              /\ \A j \in DOMAIN toHost' : toHost'[j].t = "confirm" => toHost'[j].f <= host'.f
        /\ host'.pc = "send" => host'.k \in 1..(Blocks + 1)
        /\ host'.pc \in {"idle", "wait", "send", "gone"}
    <3>1. \A x \in Nat : x <= host.f => x <= host.f + 1
      BY <1>1
    <3>2. \A h \in DOMAIN toHost' : toHost'[h].f \in Nat
      <4>1. \A h \in DOMAIN toHost' : toHost'[h] \in Messages
        BY <1>2
      <4> QED BY <4>1 DEF Messages
    <3>3. 1 \in 1..(Blocks + 1)
      BY TransferBounds
    <3>4. CASE host'.pc = "send"
      BY <1>0, <1>1, <3>3, <3>4
    <3>5. CASE host'.pc = "wait"
      <4>1. deciding <= host'.f
        BY <1>0, <1>1, <3>1, <3>5
      <4>2. \A j \in DOMAIN toHost' : toHost'[j].t = "confirm" => toHost'[j].f <= host'.f
        BY <1>1, <3>1, <3>2, <3>5
      <4> QED BY <3>5, <4>1, <4>2
    <3> QED BY <3>4, <3>5
  <2> QED BY ONLY PanelType, <1>0, <1>1, <1>2, <1>7, p \in Seq(Messages), toPanel' = toPanel \o p,
                  <2>1, <2>2, <2>3, HostActs
<1>10. ASSUME Sound PROVE Sound'
  <2>1. Follows(Tip, Due) /\ Due = M("block", host.f, 1)
    BY <1>1, <1>10 DEF Sound, Has, End, Due
  <2>2. Eof(Tip)
    BY <2>1 DEF Follows, M, Eof
  <2>3. End(toPanel, Tip) = Tip
    BY <1>1 DEF End
  <2>4. p # <<>> => Follows(End(toPanel, Tip), p[1])
    BY <2>2, <2>3 DEF Follows
  <2>5. Chained(p)
    BY <1>4, <1>6 DEF Chained
  <2>6. PICK d : d = Due'
    OBVIOUS
  <2>7. PICK e : e = IF p = <<>> THEN End(toPanel, Tip) ELSE p[Len(p)]
    OBVIOUS
  <2>8. ASSUME host'.pc \in {"wait", "send"}, ~Has(toPanel', "digest") PROVE Follows(e, d)
    <3>1. host'.pc = "send" /\ p = <<>>
      BY <1>7, <2>8
    <3>2. d = M("block", host.f, 1)
      BY <3>1, <2>6, TransferBounds DEF Due
    <3> QED BY <2>1, <2>3, <2>7, <3>1, <3>2
  <2> QED BY ONLY PanelType, <1>0, <1>10, p \in Seq(Messages), toPanel' = toPanel \o p, p = <<>> \/ Len(p) = 1,
                  <2>4, <2>5, <2>6, <2>7, <2>8, HostStream
<1>11. ASSUME Account PROVE Account'
  <2>1. \A f \in 1..total : Whole(f) \/ Pending(f)
    BY <1>11 DEF Account, Promising
  <2> SUFFICES ASSUME NEW f \in 1..total' PROVE Whole(f)' \/ Pending(f)'
    BY DEF Account
  <2>2. CASE Whole(f)
    BY <1>0, <2>2 DEF Whole
  <2>3. CASE \E i \in DOMAIN chain : Eof(chain[i]) /\ chain[i].f = f
    BY <1>0, <2>3 DEF Pending
  <2>4. CASE f >= host.f
    <3>1. CASE host'.pc = "send"
      BY <2>4, <3>1 DEF Pending
    <3>2. CASE f = host.f /\ host'.pc # "send"
      BY <1>0, <1>1, <3>2 DEF Whole
    <3>3. CASE f # host.f /\ host'.pc # "send"
      <4>1. f \in Nat /\ f >= host.f + 1 /\ f <= total
        BY <1>0, <1>1, <2>4, <3>3
      <4>2. host'.pc = "wait" /\ f >= host'.f
        BY <1>0, <1>1, <3>3, <4>1
      <4> QED BY <4>2 DEF Pending
    <3> QED BY <3>1, <3>2, <3>3
  <2> QED BY <1>0, <1>1, <1>2, <2>1, <2>2, <2>3, <2>4 DEF Pending
<1> QED BY <1>0, <1>1, <1>9, <1>10, <1>11, HostCloses

\* A step of the device behind which what was said before still stands.
LEMMA HostGoesOn ==
    ASSUME PanelType, PanelType', Down, UNCHANGED <<job, local, skipped, final>>,
           \A i \in DOMAIN toHost' : \E j \in DOMAIN toHost : toHost'[i] = toHost[j],
           ~Has(toHost', "send"), host.pc # "gone", Settled => Settled',
           NEW p \in Seq(Messages), toPanel' = toPanel \o p, p = <<>> \/ Len(p) = 1 \/ Len(p) = 2,
           host'.pc = "wait" => UNCHANGED host \/ host.pc = "send",
           host'.pc = "send" => host.pc = "send" /\ host'.k \in 1..(Blocks + 1),
           host'.pc \in {"wait", "send"} => host'.f \in 1..total /\ host'.f >= host.f,
           host'.pc = "wait" => toPanel' = <<>> \/ Has(toPanel', "digest"),
           host'.pc \in {"idle", "wait", "send", "gone"},
           Stopped => Cut' \/ Settled',
           Doomed => Doomed',
           \A j \in DOMAIN p : Fits(p[j])' /\ p[j].t # "dir",
           \A i \in DOMAIN toPanel, j \in DOMAIN p : Precedes(toPanel[i], p[j]),
           \A i, j \in DOMAIN p : i < j => Precedes(p[i], p[j]),
           Terminal => \A j \in DOMAIN p : p[j].t \in {"error", "closed"},
           status = "none" => /\ host'.pc \in {"idle", "gone"}
                              /\ \A j \in DOMAIN p : p[j].t = "closed",
           ~Doomed /\ Sound => (p # <<>> => Follows(End(toPanel, Tip), p[1])) /\ Chained(p),
           NEW e, e = IF p = <<>> THEN End(toPanel, Tip) ELSE p[Len(p)],
           NEW d, d = Due',
           ~Doomed /\ Sound => (host'.pc \in {"wait", "send"} /\ ~Has(toPanel', "digest") => Follows(e, d)),
           ~Doomed /\ Account => Account'
    PROVE  Down'
<1>0. /\ UNCHANGED <<total, deciding, asking, final, status, conn, skipped>>
      /\ UNCHANGED <<chain, phase, curFileNum, writable, disk, lost>>
      /\ DownType /\ LinkInv /\ total \in Nat /\ toPanel \in Seq(Messages) /\ deciding \in Nat
      /\ toHost' \in Seq(Messages) /\ LineInv /\ OrderInv /\ AskInv /\ FreshInv
  BY DEF job, local, Down, LinkInv, PanelType
<1>1. \A m : (\E i \in DOMAIN toPanel : toPanel[i] = m) => Fits(m)'
  <2> SUFFICES ASSUME NEW m, \E i \in DOMAIN toPanel : toPanel[i] = m PROVE Fits(m)'
    OBVIOUS
  <2> QED BY <1>0, StillFits
<1>2. /\ host'.pc \in {"wait", "send"} =>
              /\ host'.f \in 1..total /\ deciding <= host'.f
              /\ \A j \in DOMAIN toHost' : toHost'[j].t = "confirm" => toHost'[j].f <= host'.f
      /\ host'.pc = "send" => host'.k \in 1..(Blocks + 1)
  <2> SUFFICES ASSUME host'.pc \in {"wait", "send"}
               PROVE  /\ host'.f \in 1..total /\ deciding <= host'.f
                      /\ \A j \in DOMAIN toHost' : toHost'[j].t = "confirm" => toHost'[j].f <= host'.f
    OBVIOUS
  <2>1. host.pc \in {"wait", "send"}
    OBVIOUS
  <2>2. /\ deciding <= host.f
        /\ \A j \in DOMAIN toHost' : toHost'[j].t = "confirm" => toHost'[j].f <= host.f
    BY <1>0, <2>1 DEF AskInv
  <2>3. host.f \in Nat /\ host'.f \in Nat
    BY DEF PanelType
  <2>4. \A x \in Nat : x <= host.f => x <= host'.f
    BY <2>3
  <2>5. \A j \in DOMAIN toHost' : toHost'[j].f \in Nat
    <3>1. \A j \in DOMAIN toHost' : toHost'[j] \in Messages
      BY <1>0
    <3> QED BY <3>1 DEF Messages
  <2> QED BY <1>0, <2>2, <2>4, <2>5
<1>3. /\ \A j \in DOMAIN p : Fits(p[j])' /\ (p[j].t = "dir" => j = 1 /\ toPanel = <<>>)
      /\ \A j \in DOMAIN p : p[j].t = "dir" => Idle /\ deciding = 0 /\ ~Has(toHost, "confirm")
  OBVIOUS
<1>4. LinkInv' /\ (Terminal => Terminal')
  BY ONLY PanelType, <1>0, <1>1, <1>2, <1>3,
           \A i \in DOMAIN toHost' : \E j \in DOMAIN toHost : toHost'[i] = toHost[j],
           ~Has(toHost', "send"), Settled => Settled',
           p \in Seq(Messages), toPanel' = toPanel \o p,
           host'.pc = "wait" => toPanel' = <<>> \/ Has(toPanel', "digest"),
           host'.pc \in {"idle", "wait", "send", "gone"},
           Stopped => Cut' \/ Settled',
           \A i \in DOMAIN toPanel, j \in DOMAIN p : Precedes(toPanel[i], p[j]),
           \A i, j \in DOMAIN p : i < j => Precedes(p[i], p[j]),
           Terminal => \A j \in DOMAIN p : p[j].t \in {"error", "closed"},
           status = "none" => /\ host'.pc \in {"idle", "gone"}
                              /\ \A j \in DOMAIN p : p[j].t = "closed",
           HostActs
<1>5. ASSUME ~Doomed, Sound PROVE Sound'
  <2>1. /\ p # <<>> => Follows(End(toPanel, Tip), p[1])
        /\ Chained(p)
        /\ host'.pc \in {"wait", "send"} /\ ~Has(toPanel', "digest") => Follows(e, d)
    BY <1>5
  <2> QED BY ONLY PanelType, <1>0, <1>5, p \in Seq(Messages), toPanel' = toPanel \o p,
           p = <<>> \/ Len(p) = 1 \/ Len(p) = 2, e = IF p = <<>> THEN End(toPanel, Tip) ELSE p[Len(p)],
           d = Due', <2>1, HostStream
<1> QED BY <1>0, <1>4, <1>5, HostCloses

\* The device hears a cancel, or an answer it does not wait for.
LEMMA NothingSaid ==
    ASSUME PanelType, PanelType', Down, UNCHANGED <<job, local, toPanel, remote, final, history>>,
           \/ Hears("cancel") /\ host' = At("idle", 0, 0)
           \/ Hears("confirm") /\ ~(host.pc = "wait" /\ Cmd.f = host.f) /\ UNCHANGED host
    PROVE  Down'
<1> DEFINE p == <<>>
<1>0. /\ UNCHANGED <<total, deciding, asking, final, status, conn, skipped>>
      /\ UNCHANGED <<chain, phase, curFileNum, writable, disk, lost>>
      /\ DownType /\ LinkInv /\ toPanel \in Seq(Messages)
      /\ LineInv /\ OrderInv /\ AskInv /\ FreshInv /\ host.f \in Nat
  BY DEF job, local, history, Down, LinkInv, PanelType
<1>1. PICK t \in {"cancel", "confirm"} :
        /\ Hears(t) /\ (t = "cancel" => host' = At("idle", 0, 0))
        /\ t = "confirm" => ~(host.pc = "wait" /\ Cmd.f = host.f) /\ UNCHANGED host
  OBVIOUS
<1>2. /\ Cmd = toHost[1] /\ Cmd.t = t /\ host.pc # "gone" /\ status # "none"
      /\ \A i \in DOMAIN toHost' : /\ i \in Nat /\ i + 1 \in DOMAIN toHost
                                   /\ toHost'[i] = toHost[i + 1] /\ i + 1 # 1
      /\ \A i \in DOMAIN toHost' : \E j \in DOMAIN toHost : toHost'[i] = toHost[j]
      /\ ~Has(toHost', "send") /\ ~Has(toHost, "send")
      /\ Has(toHost, "cancel") /\ t # "cancel" => Has(toHost', "cancel")
  BY <1>0, <1>1, Heeded
<1>3. /\ p \in Seq(Messages) /\ p = <<>> /\ toPanel' = toPanel \o p
      /\ \A j : j \notin DOMAIN p
  BY <1>0
<1>4. host' = [pc |-> "idle", f |-> 0, k |-> 0] \/ UNCHANGED host
  BY <1>1 DEF At
<1>5. (Settled => Settled') /\ (t = "cancel" => Settled')
  BY <1>1, <1>2, <1>4 DEF Settled, At
<1>6. /\ host'.pc = "wait" => UNCHANGED host \/ host.pc = "send"
      /\ host'.pc = "send" => host.pc = "send" /\ host'.k \in 1..(Blocks + 1)
      /\ host'.pc \in {"wait", "send"} => host'.f \in 1..total /\ host'.f >= host.f
      /\ host'.pc = "wait" => toPanel' = <<>> \/ Has(toPanel', "digest")
  <2>1. CASE UNCHANGED host
    <3>1. host.f >= host.f
      BY <1>0
    <3> QED BY <1>0, <2>1, <3>1 DEF LineInv, OrderInv
  <2>2. CASE host'.pc = "idle"
    BY <2>2
  <2> QED BY <1>4, <2>1, <2>2
<1>7. host'.pc \in {"idle", "wait", "send", "gone"}
  BY <1>0, <1>4 DEF LineInv, PanelType, HostStates
<1>8. Cut => Cut' \/ t = "cancel"
  BY <1>0, <1>2 DEF Cut
<1>9. Stopped => Cut' \/ Settled'
  BY <1>0, <1>5, <1>8 DEF AskInv
<1>10. ASSUME Doomed PROVE Doomed'
  <2>1. CASE Settled'
    BY <1>0, <1>10, <2>1 DEF Doomed
  <2>2. CASE ~Settled'
    <3>1. Hopeless /\ t = "confirm" /\ UNCHANGED host /\ Cut' /\ host.pc = "wait"
      BY <1>1, <1>5, <1>8, <1>10, <2>2 DEF Doomed, Hopeless
    <3>2. ASSUME NEW i \in DOMAIN toHost', Go(i)' PROVE FALSE
      <4>1. /\ i \in Nat /\ i + 1 \in DOMAIN toHost /\ toHost[i + 1] = toHost'[i]
            /\ \A j \in DOMAIN toHost' : toHost[j + 1] = toHost'[j]
        BY <1>2
      <4>2. ASSUME NEW j \in 1..(i + 1 - 1) PROVE toHost[j].t # "cancel"
        <5>1. CASE j = 1
          BY <1>2, <3>1, <5>1
        <5>2. CASE j # 1
          <6>1. j - 1 \in 1..(i - 1) /\ (j - 1) + 1 = j
            BY <4>1, <4>2, <5>2
          <6>2. toHost'[j - 1].t # "cancel"
            BY <3>2, <6>1 DEF Go
          <6>3. \A x \in 1..(i - 1) : x \in DOMAIN toHost'
            <7>1. toHost' \in Seq(Messages)
              BY DEF PanelType
            <7> QED BY <3>2, <7>1
          <6> QED BY <4>1, <6>1, <6>2, <6>3
        <5> QED BY <5>1, <5>2
      <4>3. Go(i + 1)
        BY <3>1, <3>2, <4>1, <4>2 DEF Go
      <4> QED BY <3>1, <4>1, <4>3 DEF Hopeless
    <3>3. Hopeless'
      BY <3>1, <3>2 DEF Hopeless
    <3> QED BY <1>0, <1>10, <3>3 DEF Doomed
  <2> QED BY <2>1, <2>2
<1>11. ASSUME Account PROVE Account'
  <2> SUFFICES ASSUME Promising', NEW f \in 1..total PROVE Whole(f)' \/ Pending(f)'
    BY <1>0 DEF Account
  <2>1. Promising /\ (host.pc \in {"wait", "send"} => UNCHANGED host)
    <3>1. CASE UNCHANGED host
      BY <1>0, <1>2, <3>1 DEF Promising
    <3>2. CASE host'.pc = "idle"
      <4>1. Has(chain, "done") \/ Has(toPanel, "done")
        BY <1>0, <1>2, <3>2 DEF Promising
      <4>2. Settled
        BY <1>0, <4>1 DEF OrderInv, Terminal, Has
      <4> QED BY <4>1, <4>2 DEF Promising, Settled
    <3> QED BY <1>4, <3>1, <3>2
  <2>2. Whole(f) \/ Pending(f)
    BY <1>11, <2>1 DEF Account
  <2> QED BY <1>0, <1>2, <2>1, <2>2 DEF Whole, Pending
<1>12. PICK d : d = Due'
  OBVIOUS
<1>13. PICK e : e = IF p = <<>> THEN End(toPanel, Tip) ELSE p[Len(p)]
  OBVIOUS
<1>14. ASSUME Sound, host'.pc \in {"wait", "send"}, ~Has(toPanel', "digest") PROVE Follows(e, d)
  <2>1. UNCHANGED host
    BY <1>4, <1>14
  <2>2. d = Due
    BY <1>12, <2>1 DEF Due
  <2> QED BY <1>3, <1>13, <1>14, <2>1, <2>2 DEF Sound
<1>15. Chained(p)
  BY <1>3 DEF Chained
<1> HIDE DEF p
<1>16. /\ \A j \in DOMAIN p : Fits(p[j])' /\ p[j].t # "dir"
       /\ \A i \in DOMAIN toPanel, j \in DOMAIN p : Precedes(toPanel[i], p[j])
       /\ \A i, j \in DOMAIN p : i < j => Precedes(p[i], p[j])
       /\ Terminal => \A j \in DOMAIN p : p[j].t \in {"error", "closed"}
       /\ status = "none" => /\ host'.pc \in {"idle", "gone"}
                             /\ \A j \in DOMAIN p : p[j].t = "closed"
       /\ p # <<>> => Follows(End(toPanel, Tip), p[1])
  BY <1>2, <1>3
<1> QED BY ONLY PanelType, PanelType', Down, UNCHANGED <<job, local, toPanel, remote, final, history>>,
              <1>0, <1>2, <1>3, <1>5, <1>6, <1>7, <1>9, <1>10, <1>11, <1>12, <1>13, <1>14, <1>15, <1>16, HostGoesOn

\* The device hears a command: whatever it says fits.
LEMMA HostServesDown ==
    ASSUME PanelType, PanelType', Down, HostServes
    PROVE  Down'
<1>0. /\ UNCHANGED <<job, local, up, remote, final, history>>
      /\ LinkInv /\ DownType /\ total \in Nat /\ total >= 1 /\ toPanel \in Seq(Messages)
  BY TransferBounds DEF HostServes, Down, PanelType, DownType, Files
<1>1. CASE /\ Hears("send")
           /\ toPanel' = toPanel \o <<M("dir", 0, 0), M("digest", 1, 0)>>
           /\ host' = At("wait", 1, 0)
  BY <1>0, <1>1, StartHeard
<1>2. ASSUME Hears("confirm"), host.pc = "wait", Cmd.f = host.f, Cmd.k = 0,
             host' = At("send", Cmd.f, 1), UNCHANGED toPanel
      PROVE  Down'
  <2>1. PICK p : p = <<>> /\ p \in Seq(Messages) /\ toPanel' = toPanel \o p
    <3>1. <<>> \in Seq(Messages) /\ toPanel \o <<>> = toPanel
      BY <1>0
    <3> QED BY <1>2, <3>1
  <2>2. host'.pc = "send" /\ host'.f = host.f /\ host'.k = 1
    BY <1>2 DEF At
  <2>3. /\ p = <<>> <=> Cmd.k # 1
        /\ p = <<>> <=> host'.pc = "send"
    BY <1>2, <2>1, <2>2
  <2> QED BY ONLY PanelType, PanelType', Down, <1>0, <1>2, <2>1, <2>2, <2>3, AnswerTaken
<1>3. ASSUME Hears("confirm"), host.pc = "wait", Cmd.f = host.f, Cmd.k = 1,
             \/ Announce(Cmd.f + 1)
             \/ /\ total = 1
                /\ toPanel' = Append(toPanel, M("skipped", 0, 0))
                /\ host' = At("idle", 0, 0)
      PROVE  Down'
  <2>1. host.f \in 1..total /\ host.f \in Nat /\ host.f + 1 \in Nat
    <3>1. host.f \in 1..total /\ host.f \in Nat
      BY ONLY PanelType, <1>0, <1>3, AnswerHeard
    <3> QED BY <3>1
  <2>2. PICK m \in Messages :
          /\ toPanel' = Append(toPanel, m)
          /\ m.t \in {"digest", "done", "skipped"}
          /\ m.t = "digest" => /\ host' = At("wait", host.f + 1, 0) /\ m.f = host.f + 1
                               /\ host.f + 1 <= total
          /\ m.t # "digest" => host' = At("idle", 0, 0) /\ host.f = total
          /\ m.t = "skipped" => total = 1
    <3>1. CASE Announce(Cmd.f + 1) /\ host.f + 1 > total
      <4>1. toPanel' = Append(toPanel, M("done", 0, 0)) /\ host' = At("idle", 0, 0) /\ host.f = total
        BY <1>0, <1>3, <2>1, <3>1 DEF Announce
      <4>2. M("done", 0, 0) \in Messages /\ M("done", 0, 0).t = "done"
        BY DEF Messages, MessageKinds, M
      <4> QED BY <4>1, <4>2
    <3>2. CASE Announce(Cmd.f + 1) /\ ~(host.f + 1 > total)
      <4>1. /\ toPanel' = Append(toPanel, M("digest", host.f + 1, 0))
            /\ host' = At("wait", host.f + 1, 0) /\ host.f + 1 <= total
        BY <1>0, <1>3, <2>1, <3>2 DEF Announce
      <4>2. /\ M("digest", host.f + 1, 0) \in Messages /\ M("digest", host.f + 1, 0).t = "digest"
            /\ M("digest", host.f + 1, 0).f = host.f + 1
        BY <2>1 DEF Messages, MessageKinds, M
      <4> QED BY <4>1, <4>2
    <3>3. CASE /\ total = 1
               /\ toPanel' = Append(toPanel, M("skipped", 0, 0))
               /\ host' = At("idle", 0, 0)
      <4>1. M("skipped", 0, 0) \in Messages /\ M("skipped", 0, 0).t = "skipped" /\ host.f = total
        BY <2>1, <3>3 DEF Messages, MessageKinds, M
      <4> QED BY <3>3, <4>1
    <3> QED BY <1>3, <3>1, <3>2, <3>3
  <2>3. PICK p : p = <<m>>
    OBVIOUS
  <2>4. /\ p \in Seq(Messages) /\ Len(p) = 1 /\ p[1] = m /\ p # <<>>
        /\ toPanel' = toPanel \o p
    BY <1>0, <2>2, <2>3
  <2>5. /\ host'.pc = "wait" => host'.f = host.f + 1 /\ host'.f \in 1..total
        /\ host'.pc \in {"idle", "wait"}
        /\ host'.pc = "idle" => host.f = total
        /\ p[1].t = "digest" <=> host'.pc = "wait"
    <3>1. host.f + 1 <= total => host.f + 1 \in 1..total
      BY <1>0, <2>1
    <3> QED BY <2>2, <2>4, <3>1 DEF At
  <2> QED BY <1>0, <1>3, <2>2, <2>4, <2>5, AnswerTaken
<1>4. CASE /\ Hears("confirm") /\ ~(host.pc = "wait" /\ Cmd.f = host.f)
           /\ UNCHANGED <<toPanel, host>>
  BY <1>0, <1>4, NothingSaid
<1>5. CASE Hears("cancel") /\ host' = At("idle", 0, 0) /\ UNCHANGED toPanel
  BY <1>0, <1>5, NothingSaid
<1>6. ~Hears("receive") /\ ~Hears("error")
  <2>1. ASSUME NEW t \in {"receive", "error"}, Hears(t) PROVE FALSE
    BY <1>0, <2>1, Heeded
  <2> QED BY <2>1
<1> QED BY <1>1, <1>2, <1>3, <1>4, <1>5, <1>6 DEF HostServes

\* An upload's receiver has no part in a download.
LEMMA HostReceivesNothing ==
    ASSUME PanelType, LinkInv, HostReceives
    PROVE  FALSE
<1>1. PICK t \in {"digest", "block", "done"} : Hears(t)
  BY DEF HostReceives
<1> QED BY <1>1, Heeded

\* The device sends a block, or the end of a file and what comes behind it.
LEMMA HostSendsDown ==
    ASSUME PanelType, PanelType', Down, HostSends
    PROVE  Down'
<1>0. /\ UNCHANGED <<total, deciding, asking, final, status, conn, skipped>>
      /\ UNCHANGED <<chain, phase, curFileNum, writable, disk, lost>>
      /\ UNCHANGED <<job, local, skipped, final, toHost>>
      /\ DownType /\ LinkInv /\ toPanel \in Seq(Messages) /\ total \in Nat
      /\ LineInv /\ OrderInv /\ AskInv /\ FreshInv /\ host.f \in Nat /\ host.k \in Nat /\ Blocks \in Nat
  BY TransferBounds DEF job, local, history, HostSends, Down, LinkInv, PanelType
<1>1. /\ host.pc = "send" /\ host.f \in 1..total /\ host.k \in 1..(Blocks + 1)
      /\ ~Has(toHost, "send")
      /\ \A i \in DOMAIN toPanel : toPanel[i].t = "block"
      /\ ~Settled /\ ~Doomed /\ ~Terminal /\ status # "none"
  <2>1. host.pc = "send"
    BY DEF HostSends
  <2>2. /\ host.f \in 1..total /\ host.k \in 1..(Blocks + 1) /\ ~Has(toHost, "send")
        /\ \A i \in DOMAIN toPanel : toPanel[i].t = "block"
    BY <1>0, <2>1 DEF LineInv, OrderInv
  <2>3. ~Settled /\ ~Doomed /\ ~Terminal /\ status # "none"
    BY <1>0, <2>1 DEF Settled, Doomed, Hopeless, Terminal, FreshInv
  <2> QED BY <2>1, <2>2, <2>3
<1>2. /\ Stopped => Cut' \/ Settled'
      /\ Cut' <=> Cut
      /\ \A i \in DOMAIN toHost' : \E j \in DOMAIN toHost : toHost'[i] = toHost[j]
      /\ deciding <= host.f
      /\ \A j \in DOMAIN toHost' : toHost'[j].t = "confirm" => toHost'[j].f <= host.f
  <2>1. Cut' <=> Cut
    BY <1>0 DEF Cut
  <2> QED BY <1>0, <1>1, <2>1 DEF AskInv
<1>3. \A b : \A i \in DOMAIN toPanel : b.t # "dir" => Precedes(toPanel[i], b)
  BY <1>1 DEF Precedes, Over
<1>4. ASSUME NEW p \in Seq(Messages), toPanel' = toPanel \o p, p # <<>>, Len(p) = 1 \/ Len(p) = 2,
             p[1] = M("block", host.f, IF host.k <= Blocks THEN host.k ELSE 0),
             IF host.k <= Blocks
             THEN Len(p) = 1 /\ host' = [host EXCEPT !.k = @ + 1]
             ELSE /\ Len(p) = 2
                  /\ p[2] = IF host.f = total THEN M("done", 0, 0) ELSE M("digest", host.f + 1, 0)
                  /\ host' = IF host.f = total THEN At("idle", 0, 0) ELSE At("wait", host.f + 1, 0)
      PROVE  Down'
  <2>1. /\ 1 \in DOMAIN p /\ \A j \in DOMAIN p : j = 1 \/ (j = 2 /\ Len(p) = 2)
        /\ Len(p) = 2 => 2 \in DOMAIN p
    BY <1>4
  <2>2. /\ host.k <= Blocks => /\ host'.pc = "send" /\ host'.f = host.f /\ host'.k = host.k + 1
                               /\ host.k + 1 \in 1..(Blocks + 1)
        /\ ~(host.k <= Blocks) /\ host.f = total => host'.pc = "idle"
        /\ ~(host.k <= Blocks) /\ host.f # total =>
              host'.pc = "wait" /\ host'.f = host.f + 1 /\ host.f + 1 \in 1..total
        /\ host.f + 1 >= host.f /\ host.f >= host.f
    <3>1. host.k <= Blocks => host.k + 1 \in 1..(Blocks + 1)
      BY <1>0, <1>1
    <3>2. host.f # total => host.f + 1 \in 1..total
      BY <1>0, <1>1
    <3>3. host.f + 1 >= host.f /\ host.f >= host.f
      BY <1>0
    <3>4. host \in [pc : HostStates, f : Nat, k : Nat]
      BY DEF PanelType
    <3> QED BY <1>1, <1>4, <3>1, <3>2, <3>3, <3>4 DEF At
  <2>3. ~(host.k <= Blocks) => Eof(p[1]) /\ Len(p) = 2 /\ p[2].t \in {"done", "digest"}
    BY <1>4 DEF Eof, M
  <2>4. /\ host'.pc = "wait" => Has(toPanel', "digest")
        /\ \A i \in DOMAIN toPanel : i \in DOMAIN toPanel' /\ toPanel'[i] = toPanel[i]
        /\ Len(toPanel) + 1 \in DOMAIN toPanel' /\ toPanel'[Len(toPanel) + 1] = p[1]
    <3>1. /\ \A i \in DOMAIN toPanel : i \in DOMAIN toPanel' /\ toPanel'[i] = toPanel[i]
          /\ Len(toPanel) + 1 \in DOMAIN toPanel' /\ toPanel'[Len(toPanel) + 1] = p[1]
          /\ Len(p) = 2 => Len(toPanel) + 2 \in DOMAIN toPanel' /\ toPanel'[Len(toPanel) + 2] = p[2]
      BY <1>0, <1>4
    <3>2. host'.pc = "wait" => Len(p) = 2 /\ p[2].t = "digest"
      BY <1>4, <2>2 DEF M, At
    <3> QED BY <3>1, <3>2 DEF Has
  <2>5. (host'.pc = "idle" => Settled') /\ ~Has(toHost', "send")
    BY <1>0, <1>1 DEF Settled
  <2>6. ASSUME NEW j \in DOMAIN p PROVE Fits(p[j])' /\ p[j].t # "dir"
    <3>1. CASE j = 1
      <4>1. p[1].t = "block" /\ p[1].k <= Blocks /\ p[1].f \in 1..total
        BY <1>0, <1>1, <1>4 DEF M
      <4> QED BY <1>0, <3>1, <4>1 DEF Fits
    <3>2. CASE j = 2 /\ host.f = total
      <4>1. p[2].t = "done" /\ host'.pc = "idle"
        BY <1>4, <2>1, <2>2, <3>2 DEF M
      <4> QED BY <2>5, <3>2, <4>1 DEF Fits
    <3>3. CASE j = 2 /\ host.f # total
      <4>1. p[2].t = "digest" /\ p[2].f = host.f + 1 /\ host'.pc = "wait" /\ host'.f = host.f + 1
            /\ host.f + 1 \in 1..total
        BY <1>4, <2>1, <2>2, <3>3 DEF M
      <4>2. \A x \in Nat : x <= host.f => x # host.f + 1
        BY <1>0
      <4>3. deciding' # p[2].f
        BY <1>0, <1>2, <4>1, <4>2 DEF PanelType
      <4>4. \A h \in DOMAIN toHost' : toHost'[h].t = "confirm" => toHost'[h].f # p[2].f
        <5>1. \A h \in DOMAIN toHost' : toHost'[h] \in Messages
          BY DEF PanelType
        <5>2. \A h \in DOMAIN toHost' : toHost'[h].f \in Nat
          BY <5>1 DEF Messages
        <5> QED BY <1>2, <4>1, <4>2, <5>2
      <4> QED BY <1>0, <2>5, <3>3, <4>1, <4>3, <4>4 DEF Fits
    <3> QED BY <2>1, <3>1, <3>2, <3>3
  <2>7. \A i, j \in DOMAIN p : i < j => Precedes(p[i], p[j])
    <3> SUFFICES ASSUME NEW i \in DOMAIN p, NEW j \in DOMAIN p, i < j PROVE Precedes(p[i], p[j])
      OBVIOUS
    <3>1. i = 1
      BY <2>1
    <3> QED BY <1>4, <2>6, <3>1 DEF Precedes, M, Over
  <2>8. PICK d : d = Due'
    OBVIOUS
  <2>9. PICK e : e = IF p = <<>> THEN End(toPanel, Tip) ELSE p[Len(p)]
    OBVIOUS
  <2>10. ASSUME Sound PROVE /\ Follows(End(toPanel, Tip), p[1]) /\ Chained(p)
                            /\ host'.pc \in {"wait", "send"} /\ ~Has(toPanel', "digest") => Follows(e, d)
    <3>1. Follows(End(toPanel, Tip), Due)
      BY <1>1, <2>10 DEF Sound, Has
    <3>2. Due = p[1]
      BY <1>0, <1>1, <1>4 DEF Due
    <3>3. Chained(p)
      <4>1. Len(p) = 2 => Follows(p[1], p[2])
        BY <1>4, <2>3 DEF Follows, M
      <4>2. ASSUME NEW i \in DOMAIN p, i + 1 \in DOMAIN p PROVE i = 1 /\ Len(p) = 2
        BY <1>4, <4>2
      <4> QED BY <4>1, <4>2 DEF Chained
    <3>4. ASSUME host'.pc \in {"wait", "send"}, ~Has(toPanel', "digest") PROVE Follows(e, d)
      <4>1. host.k <= Blocks /\ e = M("block", host.f, host.k)
        BY <1>4, <2>2, <2>4, <2>9, <3>4
      <4>2. d = M("block", host.f, IF host.k + 1 > Blocks THEN 0 ELSE host.k + 1)
        BY <2>2, <2>8, <4>1 DEF Due
      <4>3. /\ host.k + 1 # 1 /\ host.k + 1 # 0
            /\ host.k + 1 > Blocks => host.k = Blocks
            /\ (host.k + 1) - 1 = host.k
        BY <1>0, <1>1, <4>1
      <4> QED BY <4>1, <4>2, <4>3 DEF Follows, Pred, M
    <3> QED BY <3>1, <3>2, <3>3, <3>4
  <2>11. ASSUME Account PROVE Account'
    <3> SUFFICES ASSUME NEW f \in 1..total PROVE Whole(f)' \/ Pending(f)'
      BY <1>0 DEF Account
    <3>1. Whole(f) \/ Pending(f)
      BY <1>1, <2>11 DEF Account, Promising
    <3>2. CASE Whole(f)
      BY <1>0, <3>2 DEF Whole
    <3>3. CASE \/ \E i \in DOMAIN chain : Eof(chain[i]) /\ chain[i].f = f
               \/ \E i \in DOMAIN toPanel : Eof(toPanel[i]) /\ toPanel[i].f = f
      BY <1>0, <2>4, <3>3 DEF Pending
    <3>4. CASE f >= host.f
      <4>1. CASE host.k <= Blocks
        BY <2>2, <3>4, <4>1 DEF Pending
      <4>2. CASE ~(host.k <= Blocks) /\ f = host.f
        <5>1. Eof(p[1]) /\ p[1].f = f
          BY <1>4, <2>3, <4>2 DEF M
        <5> QED BY <2>4, <5>1 DEF Pending
      <4>3. CASE ~(host.k <= Blocks) /\ f # host.f
        <5>1. f >= host.f + 1 /\ host.f # total
          BY <1>0, <3>4, <4>3
        <5> QED BY <2>2, <4>3, <5>1 DEF Pending
      <4> QED BY <4>1, <4>2, <4>3
    <3> QED BY <1>1, <3>1, <3>2, <3>3, <3>4 DEF Pending
  <2>12. /\ host'.pc = "wait" => UNCHANGED host \/ host.pc = "send"
         /\ host'.pc = "send" => host.pc = "send" /\ host'.k \in 1..(Blocks + 1)
         /\ host'.pc \in {"wait", "send"} => host'.f \in 1..total /\ host'.f >= host.f
         /\ host'.pc \in {"idle", "wait", "send", "gone"}
    BY <1>1, <2>2
  <2>13. \A i \in DOMAIN toPanel, j \in DOMAIN p : Precedes(toPanel[i], p[j])
    BY <1>3, <2>6
  <2> QED BY ONLY PanelType, PanelType', Down, <1>0, <1>1, <1>2, <1>4, <2>4, <2>5, <2>6, <2>7, <2>8, <2>9, <2>10,
                  <2>11, <2>12, <2>13, HostGoesOn
<1>5. CASE host.k <= Blocks
  <2>1. PICK m : m = M("block", host.f, host.k)
    OBVIOUS
  <2>2. m \in Messages
    BY <1>0, <2>1 DEF Messages, MessageKinds, M
  <2>3. PICK p : p = <<m>>
    OBVIOUS
  <2>4. p \in Seq(Messages) /\ Len(p) = 1 /\ p # <<>> /\ p[1] = m /\ toPanel' = toPanel \o p
    <3>1. toPanel' = Append(toPanel, m)
      BY <1>0, <1>5, <2>1 DEF HostSends
    <3> QED BY ONLY <1>0, <2>2, <2>3, <3>1, Appended
  <2>5. host' = [host EXCEPT !.k = @ + 1]
    BY <1>0, <1>5 DEF HostSends
  <2> QED BY <1>4, <1>5, <2>1, <2>4, <2>5
<1>6. CASE ~(host.k <= Blocks)
  <2>1. PICK a, b : /\ a = M("block", host.f, 0)
                    /\ b = IF host.f = total THEN M("done", 0, 0) ELSE M("digest", host.f + 1, 0)
    OBVIOUS
  <2>2. a \in Messages /\ b \in Messages
    BY <1>0, <2>1 DEF Messages, MessageKinds, M
  <2>3. PICK p : p = <<a, b>>
    OBVIOUS
  <2>4. /\ p \in Seq(Messages) /\ Len(p) = 2 /\ p # <<>> /\ p[1] = a /\ p[2] = b
    BY <2>2, <2>3
  <2>5. /\ toPanel' = toPanel \o p
        /\ host' = IF host.f = total THEN At("idle", 0, 0) ELSE At("wait", host.f + 1, 0)
    BY <1>0, <1>6, <2>1, <2>3 DEF HostSends
  <2> QED BY <1>4, <1>6, <2>1, <2>4, <2>5
<1> QED BY <1>5, <1>6

\* The device gives up, or the connection ends.
LEMMA HostEndsDown ==
    ASSUME PanelType, PanelType', Down, HostFails \/ ConnectionLost
    PROVE  Down'
<1>0. /\ UNCHANGED <<total, deciding, asking, final, status, conn, skipped>>
      /\ UNCHANGED <<chain, phase, curFileNum, writable, disk, lost>>
      /\ UNCHANGED <<job, local, skipped, final>>
      /\ DownType /\ LinkInv /\ toPanel \in Seq(Messages) /\ total \in Nat
      /\ LineInv /\ OrderInv /\ AskInv /\ FreshInv
  BY DEF job, local, history, HostFails, ConnectionLost, Down, LinkInv, PanelType
<1>1. PICK m \in Messages :
        /\ toPanel' = Append(toPanel, m)
        /\ \/ m.t = "error" /\ host'.pc = "idle" /\ host.pc \in {"wait", "send"} /\ UNCHANGED toHost
           \/ m.t = "closed" /\ host'.pc = "gone" /\ host.pc # "gone" /\ toHost' = <<>>
  <2>1. \A t \in {"error", "closed"} : M(t, 0, 0) \in Messages /\ M(t, 0, 0).t = t
    BY DEF Messages, MessageKinds, M
  <2>2. CASE HostFails
    <3>1. host.pc \in {"wait", "send"} /\ host'.pc = "idle" /\ UNCHANGED toHost
          /\ toPanel' = Append(toPanel, M("error", 0, 0))
      BY <1>0, <2>2 DEF HostFails, At, LineInv
    <3> QED BY <2>1, <3>1
  <2>3. CASE ConnectionLost
    <3>1. host.pc # "gone" /\ host'.pc = "gone" /\ toHost' = <<>>
          /\ toPanel' = Append(toPanel, M("closed", 0, 0))
      BY <2>3 DEF ConnectionLost, At
    <3> QED BY <2>1, <3>1
  <2> QED BY <2>2, <2>3
<1>2. /\ \A i \in DOMAIN toHost' : \E j \in DOMAIN toHost : toHost'[i] = toHost[j]
      /\ ~Has(toHost', "send") /\ Settled' /\ host.pc # "gone"
      /\ m.t = "error" => ~Has(toHost, "send") /\ ~Settled
  <2>1. \A i : i \notin DOMAIN <<>>
    OBVIOUS
  <2>2. CASE m.t = "error"
    <3>1. ~Has(toHost, "send") /\ UNCHANGED toHost
      BY <1>0, <1>1, <2>2 DEF LineInv
    <3> QED BY <1>1, <2>2, <3>1 DEF Settled
  <2>3. CASE m.t = "closed"
    BY <1>1, <2>1, <2>3 DEF Settled, Has
  <2> QED BY <1>1, <2>2, <2>3
<1>3. PICK p : p = <<m>>
  OBVIOUS
<1>4. /\ p \in Seq(Messages) /\ Len(p) = 1 /\ p # <<>> /\ p[1] = m /\ toPanel' = toPanel \o p
      /\ \A j \in DOMAIN p : j = 1
  BY ONLY <1>0, <1>1, <1>3, Appended
<1>5. /\ \A i \in DOMAIN toPanel : i \in DOMAIN toPanel' /\ toPanel'[i] = toPanel[i]
      /\ \A i \in DOMAIN toPanel' : (i \in DOMAIN toPanel /\ toPanel'[i] = toPanel[i]) \/ toPanel'[i] = m
  BY <1>0, <1>1, Grown
<1>6. Fits(m)'
  BY <1>0, <1>1, <1>2 DEF Fits
<1>7. /\ \A j \in DOMAIN p : Fits(p[j])' /\ p[j].t # "dir"
      /\ \A i \in DOMAIN toPanel, j \in DOMAIN p : Precedes(toPanel[i], p[j])
      /\ \A i, j \in DOMAIN p : i < j => Precedes(p[i], p[j])
      /\ Terminal => \A j \in DOMAIN p : p[j].t \in {"error", "closed"}
  <2>1. \A j \in DOMAIN p : p[j] = m
    BY <1>4
  <2>2. \A a : Precedes(a, m)
    BY <1>1 DEF Precedes
  <2> QED BY <1>1, <1>4, <1>6, <2>1, <2>2
<1>8. status = "none" => /\ host'.pc \in {"idle", "gone"}
                         /\ \A j \in DOMAIN p : p[j].t = "closed"
  <2>1. status = "none" => host.pc \in {"idle", "gone"}
    BY <1>0 DEF FreshInv
  <2> QED BY <1>1, <1>4, <2>1
<1>9. ASSUME Doomed PROVE Doomed'
  BY <1>0, <1>1, <1>2, <1>5, <1>9 DEF Doomed, Has
<1>10. ASSUME Account PROVE Account'
  <2> SUFFICES ASSUME Promising', NEW f \in 1..total PROVE Whole(f)' \/ Pending(f)'
    BY <1>0 DEF Account
  <2>1. Has(chain, "done") \/ Has(toPanel, "done")
    BY <1>0, <1>1, <1>2, <1>5 DEF Promising, Has
  <2>2. Settled
    BY <1>0, <2>1 DEF OrderInv, Terminal, Has
  <2>3. Whole(f) \/ Pending(f)
    BY <1>10, <2>1 DEF Account, Promising
  <2> QED BY <1>0, <1>5, <2>2, <2>3 DEF Whole, Pending, Settled
<1>11. PICK d : d = Due'
  OBVIOUS
<1>12. PICK e : e = IF p = <<>> THEN End(toPanel, Tip) ELSE p[Len(p)]
  OBVIOUS
<1>13. /\ Follows(End(toPanel, Tip), p[1]) /\ Chained(p) /\ host'.pc \in {"idle", "gone"}
       /\ Stopped => Cut' \/ Settled'
  <2>1. \A a : Follows(a, m)
    BY <1>1 DEF Follows
  <2>2. \A j \in DOMAIN p : j + 1 \notin DOMAIN p
    BY <1>4
  <2> QED BY <1>1, <1>2, <1>4, <2>1, <2>2 DEF Chained
<1>14. host'.pc \notin {"wait", "send"} /\ host'.pc \in {"idle", "wait", "send", "gone"}
  BY <1>1
<1> QED BY ONLY PanelType, PanelType', Down, <1>0, <1>2, <1>4, <1>7, <1>8, <1>9, <1>10, <1>11, <1>12, <1>13,
              <1>14, HostGoesOn

\* A message that is posted alone.
LEMMA PostsOne ==
    ASSUME toHost \in Seq(Messages), NEW m \in Messages, Post(<<m>> \o <<>>) \/ Post(<<m>>)
    PROVE  toHost' = IF conn = "closed" THEN toHost ELSE Append(toHost, m)
<1>1. <<m>> \o <<>> = <<m>>
  OBVIOUS
<1>2. Append(toHost, m) = toHost \o <<m>>
  BY Appended
<1> QED BY <1>1, <1>2 DEF Post

\* A step of the panel behind which the job has stopped.
LEMMA PanelStops ==
    ASSUME Down, LinkInv', Terminal => Terminal', Stopped',
           UNCHANGED <<total, final, chain, phase, curFileNum, disk>>,
           writable' \in {writable, NoStream}, deciding' \in {0, deciding},
           asking' => deciding' # 0
    PROVE  Down'
<1>1. DownType'
  <2>1. NoStream \in [f : Nat, n : Nat, ok : BOOLEAN] /\ NoStream.f = 0
    BY DEF NoStream
  <2>2. 0 \in 0..total
    BY DEF Down, DownType, Files
  <2> QED BY <2>1, <2>2 DEF Down, DownType
<1>2. ChainInv' /\ HeadInv'
  <2>1. CASE UNCHANGED writable
    BY <2>1 DEF Down, ChainInv, HeadInv, Item, Mark, Follows, Eof
  <2>2. CASE writable' = NoStream
    <3>1. writable'.f = 0
      BY <2>2 DEF NoStream
    <3> QED BY <2>2, <3>1 DEF Down, ChainInv, HeadInv, Item, Follows, Eof
  <2> QED BY <2>1, <2>2
<1>3. DoneInv' /\ PartInv' /\ Fine'
  BY DEF Down, DoneInv, PartInv, Fine, Stopped
<1> QED BY <1>1, <1>2, <1>3 DEF Down

\* A step of the panel that takes no message and leaves the job as it is.
LEMMA PanelKeeps ==
    ASSUME PanelType, Down, UNCHANGED <<total, toPanel, host, final, status>>,
           UNCHANGED <<chain, phase, curFileNum, writable, disk, lost>>,
           skipped \subseteq skipped', deciding' \in {0, deciding}, asking' => deciding' # 0,
           NEW m \in Messages, m.t \in {"cancel", "confirm"},
           m.t = "confirm" => /\ m.f = deciding /\ deciding # 0 /\ deciding' = 0
                              /\ m.k = 1 => m.f \in skipped',
           UNCHANGED toHost \/ (toHost' = Append(toHost, m) /\ conn # "closed" /\ status # "none"),
           conn = "closed" => conn' = "closed"
    PROVE  Down'
<1>1. DownType /\ LinkInv /\ toHost \in Seq(Messages) /\ (Stopped' <=> Stopped) /\ (Idle => Idle')
      /\ (Has(chain', "done") <=> Has(chain, "done"))
  BY DEF Down, PanelType, Stopped, Idle, Has
<1>2. LinkInv' /\ (Terminal => Terminal') /\ (Doomed => Doomed')
  BY <1>1, PanelActs
<1>3. DownType'
  <2>1. 0 \in 0..total
    BY <1>1 DEF DownType, Files
  <2> QED BY <1>1, <2>1 DEF DownType
<1>4. ChainInv' /\ HeadInv'
  BY DEF Down, ChainInv, HeadInv, Item, Mark, Follows, Eof
<1>5. ASSUME Sound, Account PROVE Sound' /\ Account'
  <2>1. Has(toHost', "send") <=> Has(toHost, "send")
    <3>1. CASE UNCHANGED toHost
      BY <3>1 DEF Has
    <3>2. CASE toHost' = Append(toHost, m)
      BY <1>1, <3>2, Grown DEF Has
    <3> QED BY <3>1, <3>2
  <2>2. Sound'
    BY <1>5 DEF Sound, Chained, Follows, Eof, End, Tip, Mark, Due, Has
  <2>3. Promising' => Promising
    BY <2>1 DEF Promising, Has
  <2>4. ASSUME NEW f \in 1..total, Whole(f) \/ Pending(f) PROVE Whole(f)' \/ Pending(f)'
    BY <2>1, <2>4 DEF Whole, Pending
  <2>5. Account'
    BY <1>5, <2>3, <2>4 DEF Account
  <2> QED BY <2>2, <2>5
<1>6. Fine'
  BY <1>1, <1>2, <1>5 DEF Down, Fine
<1>7. DoneInv' /\ PartInv'
  BY <1>1, <1>2 DEF Down, DoneInv, PartInv, Whole
<1> QED BY <1>2, <1>3, <1>4, <1>6, <1>7 DEF Down

\* cancelJob of a download: it tells the device, or the connection is gone.
LEMMA CancelDown ==
    ASSUME PanelType, Down, CancelJob, up.pc = "none", status # "none",
           UNCHANGED <<total, conn, final, chain, phase, curFileNum, skipped, toPanel, host>>,
           deciding' \in {0, deciding}, asking' => deciding' # 0
    PROVE  Down'
<1>1. PICK m \in Messages : m = M("cancel", 0, 0) /\ m.t = "cancel"
  <2>1. M("cancel", 0, 0) \in Messages /\ M("cancel", 0, 0).t = "cancel"
    BY DEF Messages, MessageKinds, M
  <2> QED BY <2>1
<1>2. /\ toHost' = IF conn = "closed" THEN toHost ELSE Append(toHost, m)
      /\ status' = "cancelled" /\ writable' \in {writable, NoStream} /\ UNCHANGED disk
  <2>1. ReleaseWaiters.post = <<>>
    BY DEF ReleaseWaiters
  <2>2. Post(<<m>> \o <<>>)
    BY <1>1, <2>1 DEF CancelJob
  <2>3. toHost \in Seq(Messages)
    BY DEF PanelType
  <2> QED BY <2>2, <2>3, PostsOne DEF CancelJob, AbortJobFile
<1>3. DownType /\ LinkInv /\ skipped \subseteq skipped' /\ (Idle => Idle') /\ Stopped'
      /\ (Has(chain', "done") <=> Has(chain, "done"))
  BY <1>2 DEF Down, Idle, Has, Stopped
<1>4. /\ UNCHANGED toHost \/ (toHost' = Append(toHost, m) /\ conn # "closed" /\ status # "none")
      /\ status' = "none" => status = "none"
      /\ conn = "closed" => conn' = "closed"
      /\ conn' = "closed" \/ (m.t = "cancel" /\ toHost' = Append(toHost, m))
  BY <1>1, <1>2
<1>5. LinkInv' /\ (Terminal => Terminal')
  BY <1>1, <1>3, <1>4, PanelActs
<1> QED BY <1>2, <1>3, <1>5, PanelStops

\* teardown(): nothing is posted.
LEMMA TeardownDown ==
    ASSUME PanelType, Down, Teardown,
           UNCHANGED <<total, deciding, asking, final, chain, phase, curFileNum, skipped, toPanel, host>>
    PROVE  Down'
<1>1. /\ conn' = "closed" /\ UNCHANGED <<toHost, disk, lost>>
      /\ \/ status' = "error" /\ writable' \in {writable, NoStream} /\ status # "none"
         \/ UNCHANGED <<status, writable>>
  BY DEF Teardown, AbortJobFile
<1>2. PICK m \in Messages : m.t = "cancel"
  <2>1. M("cancel", 0, 0) \in Messages /\ M("cancel", 0, 0).t = "cancel"
    BY DEF Messages, MessageKinds, M
  <2> QED BY <2>1
<1>3. DownType /\ LinkInv /\ skipped \subseteq skipped' /\ (Idle => Idle') /\ (asking' => deciding' # 0)
      /\ (Has(chain', "done") <=> Has(chain, "done"))
  BY <1>1 DEF Down, Idle, Has, DownType
<1>4. CASE status' = "error" /\ writable' \in {writable, NoStream} /\ status # "none"
  <2>1. LinkInv' /\ (Terminal => Terminal') /\ Stopped'
    BY <1>1, <1>2, <1>3, <1>4, PanelActs DEF Stopped
  <2> QED BY <1>1, <1>3, <1>4, <2>1, PanelStops
<1>5. CASE UNCHANGED <<status, writable>>
  BY <1>1, <1>2, <1>3, <1>5, PanelKeeps
<1> QED BY <1>1, <1>4, <1>5

\* The decision about a file is sent to the device.
LEMMA ConfirmedDown ==
    ASSUME PanelType, Down, NEW skip \in BOOLEAN, Confirmed(skip), up.pc = "none", deciding # 0,
           UNCHANGED <<kind, total, conn, status, local, toPanel, device>>
    PROVE  Down'
<1>1. PICK m \in Messages : /\ m = M("confirm", deciding, IF skip THEN 1 ELSE 0)
                            /\ m.t = "confirm" /\ m.f = deciding /\ (m.k = 1 <=> skip)
  <2>1. PICK k : k = IF skip THEN 1 ELSE 0
    OBVIOUS
  <2>2. k \in Nat /\ (k = 1 <=> skip)
    BY <2>1
  <2>3. /\ M("confirm", deciding, k) \in Messages /\ M("confirm", deciding, k).t = "confirm"
        /\ M("confirm", deciding, k).f = deciding /\ M("confirm", deciding, k).k = k
    BY <2>2 DEF Messages, MessageKinds, M, PanelType
  <2> QED BY <2>1, <2>2, <2>3
<1>2. /\ deciding' = 0 /\ asking' = FALSE /\ skipped \subseteq skipped'
      /\ skip => deciding \in skipped'
      /\ Post(<<m>> \o <<>>)
  BY <1>1 DEF Confirmed
<1>3. toHost' = IF conn = "closed" THEN toHost ELSE Append(toHost, m)
  <2>1. toHost \in Seq(Messages)
    BY DEF PanelType
  <2> QED BY <1>2, <2>1, PostsOne
<1>4. status # "none"
  BY DEF Down, LinkInv, FreshInv
<1>5. UNCHANGED <<total, toPanel, host, final, status, conn, chain, phase, curFileNum, writable, disk, lost>>
  BY DEF local, device
<1>6. /\ UNCHANGED toHost \/ (toHost' = Append(toHost, m) /\ conn # "closed" /\ status # "none")
      /\ conn = "closed" => conn' = "closed"
      /\ deciding' \in {0, deciding} /\ (asking' => deciding' # 0)
  BY <1>2, <1>3, <1>4, <1>5
<1> QED BY ONLY PanelType, Down, deciding # 0, <1>1, <1>2, <1>5, <1>6, PanelKeeps

\* A question is settled by the folder, the policy or the user.
LEMMA DecisionDown ==
    ASSUME PanelType, Down, kind = "download", up.pc = "none",
           TargetChecked \/ \E c \in Choices : Decide(c[1], c[2])
    PROVE  Down'
<1>1. PICK m \in Messages : m.t = "cancel"
  <2>1. M("cancel", 0, 0) \in Messages /\ M("cancel", 0, 0).t = "cancel"
    BY DEF Messages, MessageKinds, M
  <2> QED BY <2>1
<1>2. CASE TargetChecked
  <2>1. UNCHANGED <<kind, total, conn, status, local, toPanel, device>> /\ deciding # 0
    BY <1>2 DEF TargetChecked
  <2>2. \/ \E skip \in BOOLEAN : Confirmed(skip)
        \/ UNCHANGED <<deciding, toHost, skipped>>
    <3>1. \/ Confirmed(FALSE) \/ Confirmed(policy = "skip")
          \/ UNCHANGED <<deciding, toHost, skipped>>
      BY <1>2 DEF TargetChecked
    <3>2. (policy = "skip") \in BOOLEAN
      OBVIOUS
    <3>3. PICK s \in BOOLEAN : s = (policy = "skip")
      BY <3>2
    <3> QED BY <3>1, <3>3
  <2>3. CASE \E skip \in BOOLEAN : Confirmed(skip)
    BY <2>1, <2>3, ConfirmedDown
  <2>4. CASE UNCHANGED <<deciding, toHost, skipped>>
    <3>1. UNCHANGED <<total, toPanel, host, final, status, conn, chain, phase, curFileNum, writable, disk, lost>>
      BY <2>1 DEF local, device
    <3>2. deciding' \in {0, deciding} /\ (asking' => deciding' # 0) /\ skipped \subseteq skipped'
      BY <2>1, <2>4
    <3> QED BY ONLY PanelType, Down, <1>1, <2>4, <3>1, <3>2, PanelKeeps
  <2> QED BY <2>2, <2>3, <2>4
<1>3. ASSUME NEW c \in Choices, Decide(c[1], c[2]) PROVE Down'
  <2>1. /\ deciding # 0 /\ status # "none"
        /\ UNCHANGED <<kind, total, conn, chain, phase, curFileNum, toPanel, host, final>>
        /\ UNCHANGED <<kind, total, conn, chain, phase, curFileNum, toPanel, device>>
    BY <1>3 DEF Decide, Down, DownType, LinkInv, FreshInv, device
  <2>2. CASE c[1] # "cancel"
    <3>1. PICK s \in BOOLEAN : s = (c[1] = "skip")
      OBVIOUS
    <3>2. Confirmed(s) /\ UNCHANGED <<status, writable, disk, lost>>
      BY <1>3, <2>2, <3>1 DEF Decide
    <3>3. UNCHANGED local
      BY <2>1, <3>2 DEF local
    <3> QED BY ONLY PanelType, Down, up.pc = "none", <2>1, <3>1, <3>2, <3>3, ConfirmedDown
  <2>3. CASE c[1] = "cancel"
    <3>1. /\ deciding' = 0 /\ asking' = FALSE /\ UNCHANGED skipped
          /\ \/ CancelJob
             \/ UNCHANGED <<status, toHost, writable, disk, lost>>
      BY <1>3, <2>3 DEF Decide
    <3>2. deciding' \in {0, deciding} /\ (asking' => deciding' # 0)
      BY <3>1
    <3>3. CASE CancelJob
      BY ONLY PanelType, Down, up.pc = "none", <2>1, <3>1, <3>2, <3>3, CancelDown
    <3>4. CASE UNCHANGED <<status, toHost, writable, disk, lost>>
      BY ONLY PanelType, Down, <1>1, <2>1, <3>1, <3>2, <3>4, PanelKeeps
    <3> QED BY <3>1, <3>3, <3>4
  <2> QED BY <2>2, <2>3
<1> QED BY <1>2, <1>3

\* The user starts the download, cancels it or reopens the panel; the worker breaks.
LEMMA UserDown ==
    ASSUME PanelType, Down, up.pc = "none", UserCancels \/ WorkerCrashes \/ Reopen
    PROVE  Down'
<1>1. CASE UserCancels
  <2>1. /\ CancelJob /\ status # "none"
        /\ UNCHANGED <<total, conn, final, chain, phase, curFileNum, skipped, toPanel, host>>
        /\ deciding' \in {0, deciding} /\ (asking' => deciding' # 0)
    BY <1>1 DEF UserCancels, Down, DownType, device
  <2> QED BY ONLY PanelType, Down, up.pc = "none", <2>1, CancelDown
<1>2. CASE WorkerCrashes
  <2>1. PICK m \in Messages : m.t = "cancel"
    <3>1. M("cancel", 0, 0) \in Messages /\ M("cancel", 0, 0).t = "cancel"
      BY DEF Messages, MessageKinds, M
    <3> QED BY <3>1
  <2>2. /\ UNCHANGED <<total, toPanel, host, final, status, skipped, deciding, asking, toHost>>
        /\ UNCHANGED <<chain, phase, curFileNum, writable, disk, lost>> /\ conn = "streaming"
    BY <1>2 DEF WorkerCrashes, local, chans, device, history
  <2>3. deciding' \in {0, deciding} /\ (asking' => deciding' # 0) /\ skipped \subseteq skipped'
    BY <2>2 DEF Down, DownType
  <2> QED BY ONLY PanelType, Down, <2>1, <2>2, <2>3, PanelKeeps
<1>3. CASE Reopen
  <2>1. /\ Teardown
        /\ UNCHANGED <<total, deciding, asking, final, chain, phase, curFileNum, skipped, toPanel, host>>
    BY <1>3 DEF Reopen, device, history
  <2> QED BY ONLY PanelType, Down, <2>1, TeardownDown
<1> QED BY <1>1, <1>2, <1>3

\* The job starts: the device is sent the one command it waits for.
LEMMA StartDown ==
    ASSUME PanelType, Down, StartDownload
    PROVE  Down'
<1>0. /\ UNCHANGED <<total, deciding, asking, chain, phase, curFileNum, writable, disk, lost>>
      /\ UNCHANGED <<conn, toPanel, host, final, skipped>>
      /\ status = "none" /\ status' = "starting" /\ Post(<<M("send", 0, 0)>>)
  BY DEF StartDownload, local, device, history
<1>1. DownType /\ LineInv /\ OrderInv /\ AskInv /\ FreshInv /\ toPanel \in Seq(Messages)
  BY DEF Down, LinkInv, PanelType
<1>2. /\ toHost = <<>> /\ Idle /\ deciding = 0 /\ host.pc \in {"idle", "gone"}
      /\ \A i \in DOMAIN toPanel : toPanel[i].t = "closed"
  BY <1>0, <1>1 DEF FreshInv
<1>3. \A i \in DOMAIN toHost' : i = 1 /\ toHost'[i].t = "send"
  <2>1. \A i : i \notin DOMAIN <<>>
    OBVIOUS
  <2>2. PICK m \in Messages : m = M("send", 0, 0) /\ m.t = "send"
    <3>1. M("send", 0, 0) \in Messages /\ M("send", 0, 0).t = "send"
      BY DEF Messages, MessageKinds, M
    <3> QED BY <3>1
  <2>3. toHost \in Seq(Messages) /\ Len(toHost) = 0
    BY <1>2 DEF PanelType
  <2>4. toHost' = toHost \/ toHost' = Append(toHost, m)
    BY <1>0, <2>2, <2>3, PostsOne
  <2>5. ASSUME toHost' = Append(toHost, m), NEW i \in DOMAIN toHost' PROVE i = 1 /\ toHost'[i] = m
    BY <1>2, <2>1, <2>3, <2>5, Grown
  <2> QED BY <1>2, <2>1, <2>2, <2>4, <2>5
<1>4. chain = <<>> /\ (\A i : i \notin DOMAIN chain) /\ curFileNum = 0 /\ writable = NoStream /\ phase = "idle"
      /\ writable.f = 0
  <2>1. \A i : i \notin DOMAIN <<>>
    OBVIOUS
  <2> QED BY <1>2, <2>1 DEF Idle, NoStream
<1>5. DownType' /\ ChainInv' /\ HeadInv'
  BY <1>0, <1>1, <1>4 DEF DownType, ChainInv, HeadInv
<1>6. LineInv'
  BY <1>0, <1>1, <1>2, <1>3 DEF LineInv
<1>7. OrderInv'
  BY <1>0, <1>1, <1>2, <1>4 DEF OrderInv, Over, Has
<1>8. AskInv' /\ FreshInv'
  BY <1>0, <1>1, <1>2, <1>3, <1>4 DEF AskInv, FreshInv, Stopped, Idle, Has
<1>9. Sound'
  <2>1. \A a, i : i \in DOMAIN toPanel => Follows(a, toPanel[i])
    BY <1>2 DEF Follows
  <2>2. toPanel # <<>> => 1 \in DOMAIN toPanel
    BY <1>1
  <2> QED BY <1>0, <1>2, <1>4, <2>1, <2>2 DEF Sound, Chained
<1>10. Account'
  BY <1>0, <1>2, <1>4 DEF Account, Promising, Pending, Has
<1>11. DoneInv' /\ PartInv'
  BY <1>0 DEF DoneInv, PartInv, Down, Stopped
<1> QED BY <1>5, <1>6, <1>7, <1>8, <1>9, <1>10, <1>11 DEF Down, LinkInv, Fine

(***************************************************************************)
(* Events.                                                                 *)
(***************************************************************************)

\* The first message is taken, the others move up.
LEMMA TakenFirst ==
    ASSUME PanelType, LinkInv, toPanel # <<>>, toPanel' = Tail(toPanel)
    PROVE  /\ Msg \in Messages /\ Msg = toPanel[1] /\ 1 \in DOMAIN toPanel /\ toPanel' \in Seq(Messages)
           /\ \A i \in DOMAIN toPanel' : /\ i \in Nat /\ i + 1 \in DOMAIN toPanel
                                         /\ toPanel'[i] = toPanel[i + 1] /\ i + 1 # 1
           /\ \A i \in DOMAIN toPanel : i # 1 => i - 1 \in DOMAIN toPanel' /\ toPanel'[i - 1] = toPanel[i]
           /\ \A i \in DOMAIN toPanel' :
                 /\ Msg.t \in Over => toPanel'[i].t \in {"error", "closed"}
                 /\ Msg.t = "dir" => toPanel'[i].t \in {"digest", "error", "closed"}
           /\ \A t : /\ Has(toPanel', t) => Has(toPanel, t)
                     /\ Has(toPanel, t) => Msg.t = t \/ Has(toPanel', t)
           /\ toPanel' # <<>> => 1 \in DOMAIN toPanel' /\ 2 \in DOMAIN toPanel /\ toPanel'[1] = toPanel[2]
           /\ Msg.t \in {"dir", "digest", "block", "done", "skipped", "error", "closed"}
           /\ Terminal => Msg.t \in {"error", "closed"}
<1>0. toPanel \in Seq(Messages) /\ LineInv /\ OrderInv
  BY DEF PanelType, LinkInv
<1>1. /\ Msg \in Messages /\ Msg = toPanel[1] /\ 1 \in DOMAIN toPanel /\ toPanel' \in Seq(Messages)
      /\ \A i \in DOMAIN toPanel' : /\ i \in Nat /\ i + 1 \in DOMAIN toPanel
                                    /\ toPanel'[i] = toPanel[i + 1] /\ i + 1 # 1
  BY <1>0, Received DEF Msg
<1>2. \A i \in DOMAIN toPanel : i # 1 => i - 1 \in DOMAIN toPanel' /\ toPanel'[i - 1] = toPanel[i]
  BY <1>0, MovesUp
<1>3. ASSUME NEW i \in DOMAIN toPanel'
      PROVE  /\ Msg.t \in Over => toPanel'[i].t \in {"error", "closed"}
             /\ Msg.t = "dir" => toPanel'[i].t \in {"digest", "error", "closed"}
  <2>1. i + 1 \in DOMAIN toPanel /\ toPanel'[i] = toPanel[i + 1] /\ 1 < i + 1
    BY <1>0, <1>1
  <2> QED BY <1>0, <1>1, <2>1 DEF OrderInv
<1>4. \A t : /\ Has(toPanel', t) => Has(toPanel, t)
             /\ Has(toPanel, t) => Msg.t = t \/ Has(toPanel', t)
  <2> TAKE t
  <2>1. ASSUME NEW j \in DOMAIN toPanel', toPanel'[j].t = t PROVE Has(toPanel, t)
    BY <1>1, <2>1 DEF Has
  <2>2. ASSUME NEW j \in DOMAIN toPanel, toPanel[j].t = t PROVE Msg.t = t \/ Has(toPanel', t)
    <3>1. CASE j = 1
      BY <1>1, <2>2, <3>1
    <3>2. CASE j # 1
      BY <1>2, <2>2, <3>2 DEF Has
    <3> QED BY <3>1, <3>2
  <2> QED BY <2>1, <2>2 DEF Has
<1>5. toPanel' # <<>> => 1 \in DOMAIN toPanel' /\ 2 \in DOMAIN toPanel /\ toPanel'[1] = toPanel[2]
  <2>1. toPanel' # <<>> => 1 \in DOMAIN toPanel'
    BY <1>1
  <2>2. 1 \in DOMAIN toPanel' => 1 + 1 \in DOMAIN toPanel /\ toPanel'[1] = toPanel[1 + 1]
    BY ONLY <1>1
  <2> QED BY <2>1, <2>2
<1>6. /\ Msg.t \in {"dir", "digest", "block", "done", "skipped", "error", "closed"}
      /\ Terminal => Msg.t \in {"error", "closed"}
  BY <1>0, <1>1 DEF LineInv, Terminal
<1> QED BY <1>1, <1>2, <1>3, <1>4, <1>5, <1>6

\* An event that is not part of the stream leaves it whole.
LEMMA EventStream ==
    ASSUME PanelType, DownType, LinkInv, ChainInv, Sound, Account,
           UNCHANGED <<total, skipped, host, toHost, chain, phase, curFileNum, writable, disk, lost>>,
           toPanel # <<>>, toPanel' = Tail(toPanel), Msg.t \in {"dir", "digest", "skipped", "closed"}
    PROVE  Sound' /\ Account'
<1>0. toPanel \in Seq(Messages) /\ LineInv /\ OrderInv
  BY DEF PanelType, LinkInv
<1>1. /\ Msg = toPanel[1] /\ 1 \in DOMAIN toPanel
      /\ \A i \in DOMAIN toPanel' : /\ i \in Nat /\ i + 1 \in DOMAIN toPanel
                                    /\ toPanel'[i] = toPanel[i + 1] /\ i + 1 # 1
      /\ \A i \in DOMAIN toPanel : i # 1 => i - 1 \in DOMAIN toPanel' /\ toPanel'[i - 1] = toPanel[i]
      /\ \A i \in DOMAIN toPanel' :
                 /\ Msg.t \in Over => toPanel'[i].t \in {"error", "closed"}
                 /\ Msg.t = "dir" => toPanel'[i].t \in {"digest", "error", "closed"}
      /\ \A t : /\ Has(toPanel', t) => Has(toPanel, t)
                /\ Has(toPanel, t) => Msg.t = t \/ Has(toPanel', t)
      /\ toPanel' # <<>> => 1 \in DOMAIN toPanel' /\ 2 \in DOMAIN toPanel /\ toPanel'[1] = toPanel[2]
  BY TakenFirst
<1>2. PICK t : t = Tip /\ Tip' = t /\ UNCHANGED <<Mark, Due>>
  BY DEF Tip, Mark, End, Due
<1>3. Chained(toPanel')
  <2> SUFFICES ASSUME NEW i \in DOMAIN toPanel', i + 1 \in DOMAIN toPanel'
               PROVE  Follows(toPanel'[i], toPanel'[i + 1])
    BY DEF Chained
  <2> QED BY <1>1 DEF Sound, Chained
<1>4. toPanel' # <<>> => Follows(t, toPanel'[1])
  <2>1. CASE Msg.t \in Over
    BY <1>1, <2>1 DEF Follows
  <2>2. CASE Msg.t = "dir"
    <3>1. Eof(t)
      BY <1>1, <1>2, <2>2 DEF Sound, Follows
    <3> QED BY <1>1, <2>2, <3>1 DEF Follows
  <2> QED BY <2>1, <2>2 DEF Over
<1>5. ASSUME host.pc \in {"wait", "send"}, ~Has(toPanel', "digest")
      PROVE  Follows(End(toPanel', t), Due)
  <2>1. host.pc = "wait" /\ Msg.t = "digest"
    BY <1>0, <1>1, <1>5 DEF OrderInv
  <2>2. toPanel' = <<>>
    BY <1>0, <1>1, <2>1 DEF OrderInv, Over, Settled
  <2>3. Eof(t)
    <3>1. t.t # "dir"
      <4>1. CASE chain = <<>>
        BY <1>2, <4>1 DEF Tip, End, Mark, M
      <4>2. CASE chain # <<>>
        <5>1. Len(chain) \in DOMAIN chain
          BY <4>2 DEF DownType
        <5> QED BY <1>2, <4>2, <5>1 DEF Tip, End, ChainInv
      <4> QED BY <4>1, <4>2
    <3> QED BY <1>1, <1>2, <2>1, <3>1 DEF Sound, Follows
  <2>4. Due = M("block", host.f, 1)
    BY <2>1 DEF Due
  <2> QED BY <2>2, <2>3, <2>4 DEF Follows, End, Eof, M
<1>6. Sound'
  <2>1. /\ Chained(chain') /\ Chained(toPanel')
        /\ chain' # <<>> => Follows(Mark', chain'[1])
    BY <1>2, <1>3 DEF Sound
  <2>2. /\ toPanel' # <<>> => Follows(Tip', toPanel'[1])
        /\ host'.pc \in {"wait", "send"} /\ ~Has(toPanel', "digest") => Follows(End(toPanel', Tip'), Due')
    BY <1>2, <1>4, <1>5
  <2>3. /\ writable'.f # 0 => writable'.ok /\ (writable'.n = 0 => phase' = "writing")
        /\ writable'.f = 0 => (phase' = "opening" \/ curFileNum' = 0) /\ phase' # "writing"
    BY DEF Sound
  <2> QED BY <2>1, <2>2, <2>3 DEF Sound
<1>7. Account'
  <2> SUFFICES ASSUME Promising', NEW f \in 1..total PROVE Whole(f)' \/ Pending(f)'
    BY DEF Account
  <2>1. Promising
    BY <1>1 DEF Promising
  <2>2. Whole(f) \/ Pending(f)
    BY <2>1 DEF Account
  <2>3. ASSUME NEW i \in DOMAIN toPanel, Eof(toPanel[i])
        PROVE  i - 1 \in DOMAIN toPanel' /\ toPanel'[i - 1] = toPanel[i]
    BY <1>1, <2>3 DEF Eof
  <2> QED BY <2>2, <2>3 DEF Whole, Pending
<1> QED BY <1>6, <1>7

\* An event that is not part of the stream and does not stop the job.
LEMMA EventDown ==
    ASSUME PanelType, Down,
           UNCHANGED <<total, final, skipped, host, toHost, chain, phase, curFileNum, writable, disk, lost>>,
           toPanel # <<>>, toPanel' = Tail(toPanel), Msg.t \in {"dir", "digest", "skipped", "closed"},
           deciding' = IF Msg.t = "digest" THEN Msg.f ELSE deciding, asking' => deciding' # 0,
           conn = "closed" => conn' = "closed",
           \/ Msg.t \in {"dir", "digest"} /\ status' = "running"
           \/ Msg.t = "skipped" /\ status' = "done"
           \/ Msg.t = "closed" /\ UNCHANGED status
    PROVE  Down'
<1>0. DownType /\ LinkInv /\ ChainInv /\ HeadInv /\ Fine /\ DoneInv /\ PartInv /\ LineInv /\ OrderInv
  BY DEF Down, LinkInv
<1>1. /\ Msg = toPanel[1] /\ 1 \in DOMAIN toPanel /\ (Terminal => Msg.t \in {"error", "closed"})
  BY <1>0, TakenFirst
<1>2. /\ Stopped' => Stopped
      /\ status' = "none" => status = "none"
      /\ Msg.t # "closed" => ~Stopped' /\ status' # "none"
      /\ Msg.t = "closed" => (Stopped' <=> Stopped)
      /\ Idle => Idle' /\ (Has(chain', "done") => Has(chain, "done"))
  BY DEF Stopped, Idle, Has
<1>3. /\ LinkInv' /\ (Terminal => Terminal') /\ (Doomed => Doomed')
      /\ Stopped /\ status' # "none" /\ Msg.t \in {"dir", "digest", "skipped"} => Doomed'
  BY <1>0, <1>2, PanelTakes
<1>4. DownType'
  <2>1. Msg.t = "digest" => Msg.f \in 0..total
    BY <1>0, <1>1 DEF LineInv, DownType, Files
  <2> QED BY <1>0, <2>1 DEF DownType
<1>5. ChainInv' /\ HeadInv'
  BY <1>0 DEF ChainInv, HeadInv, Item, Mark, Follows, Eof
<1>6. Fine'
  <2>1. CASE Stopped
    BY <1>2, <1>3, <2>1 DEF Fine
  <2>2. CASE Doomed
    BY <1>3, <2>2 DEF Fine
  <2>3. CASE Sound /\ Account
    BY <1>0, <2>3, EventStream DEF Fine
  <2> QED BY <1>0, <2>1, <2>2, <2>3 DEF Fine
<1>7. DoneInv'
  <2>1. CASE Msg.t \in {"dir", "digest"}
    BY <2>1 DEF DoneInv
  <2>2. CASE Msg.t = "skipped"
    <3>1. total = 1 /\ 1 \in skipped
      BY <1>0, <1>1, <2>2 DEF OrderInv
    <3>2. \A f \in 1..total : f = 1
      BY <3>1
    <3> QED BY <3>1, <3>2 DEF DoneInv
  <2>3. CASE Msg.t = "closed"
    BY <1>0, <1>3, <2>3 DEF DoneInv, Whole
  <2> QED BY <2>1, <2>2, <2>3
<1>8. PartInv'
  BY <1>0, <1>1, <1>2, <1>3 DEF PartInv
<1> QED BY <1>3, <1>4, <1>5, <1>6, <1>7, <1>8 DEF Down

\* onFtBlock.
LEMMA BlockDown ==
    ASSUME PanelType, Down, BlockArrives
    PROVE  Down'
<1>0. /\ DownType /\ LinkInv /\ ChainInv /\ HeadInv /\ Fine /\ DoneInv /\ PartInv /\ LineInv /\ OrderInv
      /\ UNCHANGED <<total, conn, status, deciding, asking, final, skipped, host, toHost>>
      /\ UNCHANGED <<phase, curFileNum, writable, disk, lost>>
      /\ toPanel # <<>> /\ toPanel' = Tail(toPanel) /\ Msg.t = "block"
      /\ chain \in Seq(Messages) /\ toPanel \in Seq(Messages)
  BY DEF Down, LinkInv, BlockArrives, Arrives, job, device, history, Msg, DownType, PanelType
<1>1. /\ Msg \in Messages /\ Msg = toPanel[1] /\ 1 \in DOMAIN toPanel /\ ~Terminal
      /\ \A i \in DOMAIN toPanel' : /\ i \in Nat /\ i + 1 \in DOMAIN toPanel
                                    /\ toPanel'[i] = toPanel[i + 1] /\ i + 1 # 1
      /\ \A i \in DOMAIN toPanel : i # 1 => i - 1 \in DOMAIN toPanel' /\ toPanel'[i - 1] = toPanel[i]
      /\ \A t : /\ Has(toPanel', t) => Has(toPanel, t)
                /\ Has(toPanel, t) => Msg.t = t \/ Has(toPanel', t)
      /\ toPanel' # <<>> => 1 \in DOMAIN toPanel' /\ 2 \in DOMAIN toPanel /\ toPanel'[1] = toPanel[2]
  BY <1>0, TakenFirst
<1>2. /\ Has(toPanel, "block") /\ ~Doomed /\ ~Has(chain, "done")
      /\ Msg.k <= Blocks /\ Msg.f \in 1..total
  BY <1>0, <1>1 DEF Has, Doomed, OrderInv, LineInv
<1>3. (Stopped' <=> Stopped) /\ (Stopped => UNCHANGED chain) /\ (~Stopped => chain' = Append(chain, Msg))
  BY <1>0 DEF Stopped, BlockArrives
<1>4. ~Has(chain', "done")
  <2>1. CASE Stopped
    BY <1>2, <1>3, <2>1
  <2>2. CASE ~Stopped
    <3>1. chain' = Append(chain, Msg) /\ chain \in Seq(Messages) /\ Msg \in Messages
      BY <1>0, <1>1, <1>3, <2>2 DEF DownType
    <3>2. \A i \in DOMAIN chain' : (i \in DOMAIN chain /\ chain'[i] = chain[i]) \/ chain'[i] = Msg
      BY ONLY <3>1, Grown
    <3>3. Msg.t = "block" /\ ~Has(chain, "done")
      BY <1>0, <1>2
    <3> QED BY ONLY <3>2, <3>3 DEF Has
  <2> QED BY <2>1, <2>2
<1>5. LinkInv' /\ (Terminal => Terminal')
  BY <1>0, <1>3, <1>4, PanelTakes
<1>6. CASE Stopped
  <2>1. Stopped' /\ writable' \in {writable, NoStream} /\ deciding' \in {0, deciding} /\ (asking' => deciding' # 0)
    BY <1>0, <1>3, <1>6 DEF DownType
  <2> QED BY <1>0, <1>3, <1>5, <1>6, <2>1, PanelStops
<1>7. CASE ~Stopped
  <2>0. Sound /\ Account
    BY <1>0, <1>2, <1>7 DEF Fine
  <2>1. /\ chain' \in Seq(Messages) /\ chain' # <<>> /\ Len(chain') = Len(chain) + 1
        /\ chain'[Len(chain) + 1] = Msg /\ Len(chain) + 1 \in DOMAIN chain' /\ Len(chain) \in Nat
        /\ \A i \in DOMAIN chain : i \in DOMAIN chain' /\ chain'[i] = chain[i] /\ i \in Nat /\ i < Len(chain) + 1
        /\ \A i \in DOMAIN chain' : /\ i \in Nat
                                    /\ \/ i \in DOMAIN chain /\ chain'[i] = chain[i]
                                       \/ i = Len(chain) + 1 /\ chain'[i] = Msg
    BY <1>0, <1>1, <1>3, <1>7, Grown
  <2>2. /\ chain # <<>> => 1 \in DOMAIN chain /\ Len(chain) \in DOMAIN chain
        /\ chain = <<>> => Len(chain) = 0
    BY <1>0
  <2>3. Follows(Tip, Msg)
    BY <1>0, <1>1, <2>0 DEF Sound
  <2>4. Chained(chain')
    <3> SUFFICES ASSUME NEW i \in DOMAIN chain', i + 1 \in DOMAIN chain'
                 PROVE  Follows(chain'[i], chain'[i + 1])
      BY DEF Chained
    <3>1. CASE i + 1 \in DOMAIN chain
      <4>1. i \in DOMAIN chain
        BY <1>0, <2>1, <3>1
      <4> QED BY <2>0, <2>1, <3>1, <4>1 DEF Sound, Chained
    <3>2. CASE i + 1 = Len(chain) + 1
      <4>1. i = Len(chain) /\ chain # <<>> /\ i \in DOMAIN chain
        BY <1>0, <2>1, <3>2
      <4>2. Tip = chain[i]
        BY <4>1 DEF Tip, End
      <4> QED BY <2>1, <2>3, <3>2, <4>1, <4>2
    <3> QED BY <2>1, <3>1, <3>2
  <2>5. chain'[1] = IF chain = <<>> THEN Msg ELSE chain[1]
    BY <2>1, <2>2
  <2>6. chain = <<>> => Tip = Mark /\ Follows(Mark, Msg)
    BY <2>3 DEF Tip, End
  <2>7. UNCHANGED <<Mark, Due>> /\ Tip' = Msg
    BY <1>0, <2>1 DEF Mark, Due, Tip, End
  <2>8. Chained(toPanel')
    BY <1>1, <2>0 DEF Sound, Chained
  <2>9. toPanel' # <<>> => Follows(Msg, toPanel'[1])
    <3>1. 1 \in DOMAIN toPanel /\ 1 + 1 \in DOMAIN toPanel => Follows(toPanel[1], toPanel[1 + 1])
      BY <2>0 DEF Sound, Chained
    <3> QED BY <1>1, <3>1
  <2>10. End(toPanel', Msg) = End(toPanel, Tip)
    <3>1. CASE toPanel' = <<>>
      <4>1. Len(toPanel) = 1
        <5>1. Len(toPanel) \in DOMAIN toPanel
          BY <1>0
        <5>2. \A i : i \notin DOMAIN <<>>
          OBVIOUS
        <5> QED BY <1>1, <3>1, <5>1, <5>2
      <4> QED BY <1>0, <1>1, <3>1, <4>1 DEF End
    <3>2. CASE toPanel' # <<>>
      <4>1. Len(toPanel') + 1 = Len(toPanel) /\ Len(toPanel') \in DOMAIN toPanel'
        BY <1>0, <3>2
      <4>2. toPanel'[Len(toPanel')] = toPanel[Len(toPanel)]
        BY <1>1, <4>1
      <4> QED BY <1>0, <3>2, <4>2 DEF End
    <3> QED BY <3>1, <3>2
  <2>11. Sound'
    <3>1. /\ chain' # <<>> => Follows(Mark', chain'[1])
          /\ toPanel' # <<>> => Follows(Tip', toPanel'[1])
      BY <2>0, <2>5, <2>6, <2>7, <2>9 DEF Sound
    <3>2. host'.pc \in {"wait", "send"} /\ ~Has(toPanel', "digest") => Follows(End(toPanel', Tip'), Due')
      BY <1>0, <1>1, <2>0, <2>7, <2>10 DEF Sound
    <3>3. /\ writable'.f # 0 => writable'.ok /\ (writable'.n = 0 => phase' = "writing")
          /\ writable'.f = 0 => (phase' = "opening" \/ curFileNum' = 0) /\ phase' # "writing"
      BY <1>0, <2>0 DEF Sound
    <3> QED BY <2>4, <2>8, <3>1, <3>2, <3>3 DEF Sound
  <2>12. Account'
    <3> SUFFICES ASSUME Promising', NEW f \in 1..total PROVE Whole(f)' \/ Pending(f)'
      BY <1>0 DEF Account
    <3>1. Promising
      BY <1>0, <1>1, <1>4 DEF Promising, Has
    <3>2. Whole(f) \/ Pending(f)
      BY <2>0, <3>1 DEF Account
    <3>3. ASSUME NEW i \in DOMAIN toPanel, Eof(toPanel[i]), toPanel[i].f = f PROVE Pending(f)'
      <4>1. CASE i = 1
        BY <1>1, <2>1, <3>3, <4>1 DEF Pending
      <4>2. CASE i # 1
        BY <1>1, <3>3, <4>2 DEF Pending
      <4> QED BY <4>1, <4>2
    <3> QED BY <1>0, <2>1, <3>2, <3>3 DEF Whole, Pending
  <2>13. DownType'
    BY <1>0, <2>1 DEF DownType
  <2>14. ChainInv'
    <3>1. ASSUME NEW i \in DOMAIN chain'
          PROVE  chain'[i].t = "block" /\ chain'[i].k <= Blocks /\ chain'[i].f \in 1..total
      <4>1. CASE i \in DOMAIN chain /\ chain'[i] = chain[i]
        BY <1>0, <1>2, <4>1 DEF ChainInv, Has
      <4>2. CASE chain'[i] = Msg
        BY <1>0, <1>2, <4>2
      <4> QED BY <2>1, <4>1, <4>2
    <3> QED BY <1>0, <2>4, <3>1 DEF ChainInv, Chained
  <2>15. HeadInv'
    <3>1. CASE chain # <<>>
      <4>1. Item' = Item
        BY <1>0, <2>1, <2>5, <3>1 DEF Item
      <4> QED BY <1>0, <2>1, <2>7, <3>1, <4>1 DEF HeadInv
    <3>2. CASE chain = <<>>
      <4>1. Item' = Msg /\ phase = "idle" /\ Follows(Mark, Msg)
        BY <1>0, <2>1, <2>5, <2>6, <3>2 DEF Item, HeadInv, DownType
      <4>2. /\ Msg.k # 1 => writable.f = Msg.f
            /\ Msg.k = 1 => writable.n = 0
        BY <1>0, <4>1 DEF Follows, Mark, M
      <4>3. Msg.f # 0
        BY <1>0, <1>2 DEF DownType, Files
      <4>4. Msg.k # 1 => curFileNum = Msg.f
        BY <1>0, <4>2, <4>3 DEF DownType
      <4>5. Msg.k = 1 => curFileNum = 0 /\ writable = NoStream
        BY <1>0, <2>0, <4>1, <4>2 DEF Sound, DownType
      <4> QED BY <1>0, <2>7, <4>1, <4>4, <4>5 DEF HeadInv
    <3> QED BY <3>1, <3>2
  <2>16. DoneInv' /\ PartInv' /\ Fine'
    BY <1>0, <1>1, <2>11, <2>12 DEF DoneInv, PartInv, Fine
  <2> QED BY <1>5, <2>13, <2>14, <2>15, <2>16 DEF Down
<1> QED BY <1>6, <1>7

\* onFtDone of a download: the end of the job waits behind the writes.
LEMMA DoneDown ==
    ASSUME PanelType, Down, kind = "download", DoneArrives
    PROVE  Down'
<1>0. /\ DownType /\ LinkInv /\ ChainInv /\ HeadInv /\ Fine /\ DoneInv /\ PartInv /\ LineInv /\ OrderInv
      /\ UNCHANGED <<total, conn, status, deciding, asking, final, skipped, host, toHost>>
      /\ UNCHANGED <<phase, curFileNum, writable, disk, lost>>
      /\ toPanel # <<>> /\ toPanel' = Tail(toPanel) /\ Msg.t = "done" /\ chain' = Append(chain, Msg)
      /\ chain \in Seq(Messages) /\ toPanel \in Seq(Messages)
  BY DEF Down, LinkInv, DoneArrives, Arrives, device, history, Msg, DownType, PanelType
<1>1. /\ Msg \in Messages /\ Msg = toPanel[1] /\ 1 \in DOMAIN toPanel /\ ~Terminal
      /\ \A i \in DOMAIN toPanel' : /\ i \in Nat /\ i + 1 \in DOMAIN toPanel
                                    /\ toPanel'[i] = toPanel[i + 1] /\ i + 1 # 1
      /\ \A i \in DOMAIN toPanel : i # 1 => i - 1 \in DOMAIN toPanel' /\ toPanel'[i - 1] = toPanel[i]
      /\ \A i \in DOMAIN toPanel' : toPanel'[i].t \in {"error", "closed"}
      /\ toPanel' # <<>> => 1 \in DOMAIN toPanel'
  BY <1>0, TakenFirst DEF Over
<1>2. /\ Has(toPanel, "done") /\ ~Doomed /\ ~Has(chain, "done") /\ Settled
  BY <1>0, <1>1 DEF Has, Doomed, OrderInv
<1>3. LinkInv' /\ (Terminal => Terminal')
  <2>1. Stopped' => Stopped
    BY <1>0 DEF Stopped
  <2> QED BY <1>0, <2>1, PanelTakes
<1>4. /\ chain' \in Seq(Messages) /\ chain' # <<>> /\ Len(chain') = Len(chain) + 1
      /\ chain'[Len(chain) + 1] = Msg /\ Len(chain) + 1 \in DOMAIN chain' /\ Len(chain) \in Nat
      /\ \A i \in DOMAIN chain : i \in DOMAIN chain' /\ chain'[i] = chain[i] /\ i \in Nat /\ i < Len(chain) + 1
      /\ \A i \in DOMAIN chain' : /\ i \in Nat
                                  /\ \/ i \in DOMAIN chain /\ chain'[i] = chain[i]
                                     \/ i = Len(chain) + 1 /\ chain'[i] = Msg
  BY <1>0, <1>1, Grown
<1>5. /\ chain # <<>> => 1 \in DOMAIN chain /\ Len(chain) \in DOMAIN chain
      /\ chain = <<>> => Len(chain) = 0
  BY <1>0
<1>6. chain'[1] = IF chain = <<>> THEN Msg ELSE chain[1]
  BY <1>4, <1>5
<1>7. ASSUME Sound, Account PROVE Sound' /\ Account'
  <2>1. Follows(Tip, Msg)
    BY <1>0, <1>1, <1>7 DEF Sound
  <2>2. Chained(chain')
    <3> SUFFICES ASSUME NEW i \in DOMAIN chain', i + 1 \in DOMAIN chain'
                 PROVE  Follows(chain'[i], chain'[i + 1])
      BY DEF Chained
    <3>1. CASE i + 1 \in DOMAIN chain
      <4>1. i \in DOMAIN chain
        BY <1>0, <1>4, <3>1
      <4> QED BY <1>4, <1>7, <3>1, <4>1 DEF Sound, Chained
    <3>2. CASE i + 1 = Len(chain) + 1
      <4>1. i = Len(chain) /\ chain # <<>> /\ i \in DOMAIN chain
        BY <1>0, <1>4, <3>2
      <4>2. Tip = chain[i]
        BY <4>1 DEF Tip, End
      <4> QED BY <1>4, <2>1, <3>2, <4>1, <4>2
    <3> QED BY <1>4, <3>1, <3>2
  <2>3. chain = <<>> => Follows(Mark, Msg)
    BY <2>1 DEF Tip, End
  <2>4. UNCHANGED Mark
    BY <1>0 DEF Mark
  <2>5. \A a : \A i \in DOMAIN toPanel' : Follows(a, toPanel'[i])
    BY <1>1 DEF Follows
  <2>6. Chained(toPanel') /\ (toPanel' # <<>> => Follows(Tip', toPanel'[1]))
    BY <1>1, <2>5 DEF Chained
  <2>7. host'.pc \notin {"wait", "send"}
    BY <1>0, <1>2 DEF Settled
  <2>8. chain' # <<>> => Follows(Mark', chain'[1])
    BY <1>6, <1>7, <2>3, <2>4 DEF Sound
  <2>9. Sound'
    <3>1. /\ writable'.f # 0 => writable'.ok /\ (writable'.n = 0 => phase' = "writing")
          /\ writable'.f = 0 => (phase' = "opening" \/ curFileNum' = 0) /\ phase' # "writing"
      BY <1>0, <1>7 DEF Sound
    <3> QED BY <2>2, <2>6, <2>7, <2>8, <3>1 DEF Sound
  <2>10. \A f \in 1..total : Whole(f) \/ Pending(f)
    BY <1>2, <1>7 DEF Account, Promising
  <2>11. ASSUME NEW f \in 1..total PROVE Whole(f)' \/ Pending(f)'
    <3>1. ASSUME NEW i \in DOMAIN toPanel, Eof(toPanel[i]) PROVE i - 1 \in DOMAIN toPanel' /\ toPanel'[i - 1] = toPanel[i]
      BY <1>0, <1>1, <3>1 DEF Eof
    <3>2. CASE Whole(f) \/ (host.pc \in {"wait", "send"} /\ f >= host.f) \/ Has(toHost, "send")
      BY <1>0, <3>2 DEF Whole, Pending
    <3>3. CASE \E i \in DOMAIN chain : Eof(chain[i]) /\ chain[i].f = f
      BY <1>4, <3>3 DEF Pending
    <3>4. CASE \E i \in DOMAIN toPanel : Eof(toPanel[i]) /\ toPanel[i].f = f
      BY <3>1, <3>4 DEF Pending
    <3> QED BY <2>10, <3>2, <3>3, <3>4 DEF Pending
  <2>12. Account'
    BY <1>0, <2>11 DEF Account
  <2> QED BY <2>9, <2>12
<1>8. Fine'
  BY <1>0, <1>2, <1>7 DEF Fine, Stopped
<1>9. DownType'
  BY <1>0, <1>4 DEF DownType
<1>10. ChainInv'
  <2> SUFFICES ASSUME NEW i \in DOMAIN chain'
               PROVE  /\ chain'[i].t \in {"block", "done"}
                      /\ chain'[i].t = "block" => chain'[i].k <= Blocks /\ chain'[i].f \in 1..total
                      /\ chain'[i].t = "done" => i = Len(chain')
                      /\ i + 1 \in DOMAIN chain' /\ chain'[i + 1].t = "block" => Follows(chain'[i], chain'[i + 1])
    BY <1>0 DEF ChainInv
  <2>1. CASE i \in DOMAIN chain /\ chain'[i] = chain[i]
    <3>1. chain[i].t # "done"
      BY <1>2, <2>1 DEF Has
    <3>2. i + 1 \in DOMAIN chain' /\ chain'[i + 1].t = "block" =>
             i + 1 \in DOMAIN chain /\ chain'[i + 1] = chain[i + 1]
      BY <1>0, <1>4
    <3> QED BY <1>0, <2>1, <3>1, <3>2 DEF ChainInv
  <2>2. CASE i = Len(chain) + 1 /\ chain'[i] = Msg
    <3>1. i + 1 \notin DOMAIN chain'
      <4>1. i + 1 \notin DOMAIN chain /\ i + 1 # Len(chain) + 1
        BY <1>4, <2>2
      <4> QED BY <1>4, <4>1
    <3> QED BY <1>0, <1>4, <2>2, <3>1
  <2> QED BY <1>4, <2>1, <2>2
<1>11. HeadInv'
  <2>1. CASE chain # <<>>
    <3>1. Item' = Item /\ UNCHANGED Mark
      BY <1>0, <1>4, <1>6, <2>1 DEF Item, Mark
    <3> QED BY <1>0, <1>4, <2>1, <3>1 DEF HeadInv
  <2>2. CASE chain = <<>>
    <3>1. Item' = Msg /\ phase = "idle"
      BY <1>0, <1>4, <1>6, <2>2 DEF Item, HeadInv, DownType
    <3> QED BY <1>0, <3>1 DEF HeadInv
  <2> QED BY <2>1, <2>2
<1>12. DoneInv' /\ PartInv'
  BY <1>0, <1>1 DEF DoneInv, PartInv
<1> QED BY <1>3, <1>8, <1>9, <1>10, <1>11, <1>12 DEF Down

\* Whatever the panel hears.
LEMMA EventsDown ==
    ASSUME PanelType, Down, kind = "download", up.pc = "none", Events
    PROVE  Down'
<1>0. DownType /\ LinkInv /\ LineInv /\ OrderInv
  BY DEF Down, LinkInv
<1>1. CASE DirArrives
  <2>1. /\ UNCHANGED <<total, final, skipped, host, toHost, chain, phase, curFileNum, writable, disk, lost>>
        /\ UNCHANGED <<deciding, asking, conn>>
        /\ toPanel # <<>> /\ toPanel' = Tail(toPanel) /\ Msg.t = "dir" /\ status' = "running"
    BY <1>1 DEF DirArrives, Arrives, local, device, history, Msg
  <2>2. asking' => deciding' # 0
    BY <1>0, <2>1 DEF DownType
  <2> QED BY ONLY PanelType, Down, <2>1, <2>2, EventDown
<1>2. CASE DigestArrives
  <2>1. /\ UNCHANGED <<total, final, skipped, host, toHost, chain, phase, curFileNum, writable, disk, lost>>
        /\ UNCHANGED conn /\ deciding' = Msg.f /\ asking' = FALSE
        /\ toPanel # <<>> /\ toPanel' = Tail(toPanel) /\ Msg.t = "digest" /\ status' = "running"
    BY <1>2 DEF DigestArrives, Arrives, local, device, history, Msg
  <2> QED BY ONLY PanelType, Down, <2>1, EventDown
<1>3. CASE SendConfirmArrives
  <2>1. toPanel # <<>> /\ toPanel' = Tail(toPanel) /\ Msg.t \in {"confirm", "skip"}
    BY <1>3 DEF SendConfirmArrives, Arrives, Msg
  <2> QED BY <1>0, <2>1, TakenFirst
<1>4. CASE BlockArrives
  BY <1>4, BlockDown
<1>5. CASE DoneArrives
  BY <1>5, DoneDown
<1>6. CASE ErrorArrives
  <2>1. /\ UNCHANGED <<total, final, skipped, host, chain, phase, curFileNum, disk, lost>>
        /\ UNCHANGED <<deciding, asking, conn>>
        /\ toPanel # <<>> /\ toPanel' = Tail(toPanel)
        /\ \/ Msg.t = "skipped" /\ status' = "done" /\ UNCHANGED <<toHost, writable>>
           \/ Msg.t = "error" /\ status' = "error" /\ Post(ReleaseWaiters.post)
              /\ writable' \in {writable, NoStream}
    BY <1>6 DEF ErrorArrives, Arrives, AbortJobFile, device, history, Msg
  <2>2. asking' => deciding' # 0
    BY <1>0, <2>1 DEF DownType
  <2>3. CASE Msg.t = "skipped" /\ status' = "done" /\ UNCHANGED <<toHost, writable>>
    BY ONLY PanelType, Down, <2>1, <2>2, <2>3, EventDown
  <2>4. CASE Msg.t = "error" /\ status' = "error" /\ Post(ReleaseWaiters.post)
              /\ writable' \in {writable, NoStream}
    <3>1. UNCHANGED toHost
      <4>1. ReleaseWaiters.post = <<>>
        BY DEF ReleaseWaiters
      <4>2. toHost \in Seq(Messages)
        BY DEF PanelType
      <4>3. toHost \o <<>> = toHost
        BY <4>2
      <4> QED BY <2>4, <4>1, <4>3 DEF Post
    <3>2. /\ Stopped' /\ (Has(chain', "done") => Has(chain, "done")) /\ (Idle => Idle')
      BY <2>1, <2>4 DEF Stopped, Idle, Has
    <3>3. LinkInv' /\ (Terminal => Terminal')
      BY ONLY PanelType, <1>0, <2>1, <2>4, <3>1, <3>2, PanelTakes
    <3> QED BY ONLY Down, <2>1, <2>2, <2>4, <3>2, <3>3, PanelStops
  <2> QED BY <2>1, <2>3, <2>4
<1>7. CASE ClosedArrives
  <2>1. /\ UNCHANGED <<total, final, skipped, host, toHost, chain, phase, curFileNum, disk, lost>>
        /\ UNCHANGED <<deciding, asking>> /\ conn' = "closed"
        /\ toPanel # <<>> /\ toPanel' = Tail(toPanel) /\ Msg.t = "closed"
        /\ \/ status' = "error" /\ writable' \in {writable, NoStream}
           \/ UNCHANGED <<status, writable>>
    BY <1>7 DEF ClosedArrives, Teardown, Arrives, AbortJobFile, device, history, Msg
  <2>2. asking' => deciding' # 0
    BY <1>0, <2>1 DEF DownType
  <2>3. CASE status' = "error" /\ writable' \in {writable, NoStream}
    <3>1. /\ Stopped' /\ (Has(chain', "done") => Has(chain, "done")) /\ (Idle => Idle')
      BY <2>1, <2>3 DEF Stopped, Idle, Has
    <3>2. LinkInv' /\ (Terminal => Terminal')
      BY ONLY PanelType, <1>0, <2>1, <2>3, <3>1, PanelTakes
    <3> QED BY ONLY Down, <2>1, <2>2, <2>3, <3>1, <3>2, PanelStops
  <2>4. CASE UNCHANGED <<status, writable>>
    BY ONLY PanelType, Down, <2>1, <2>2, <2>4, EventDown
  <2> QED BY <2>1, <2>3, <2>4
<1> QED BY <1>1, <1>2, <1>3, <1>4, <1>5, <1>6, <1>7 DEF Events

(***************************************************************************)
(* The write chain.                                                        *)
(***************************************************************************)

\* The first item is done with, the others move up.
LEMMA NextItem ==
    ASSUME DownType, ChainInv, chain # <<>>, chain' = Tail(chain), UNCHANGED total
    PROVE  /\ Item \in Messages /\ Item = chain[1] /\ 1 \in DOMAIN chain /\ chain' \in Seq(Messages)
           /\ Item.t = "block" => Item.k <= Blocks /\ Item.f \in 1..total
           /\ \A i \in DOMAIN chain' : /\ i \in Nat /\ i + 1 \in DOMAIN chain
                                       /\ chain'[i] = chain[i + 1] /\ i + 1 # 1
           /\ \A i \in DOMAIN chain : i # 1 => i - 1 \in DOMAIN chain' /\ chain'[i - 1] = chain[i]
           /\ chain' # <<>> => /\ 1 \in DOMAIN chain' /\ 2 \in DOMAIN chain
                               /\ chain'[1] = chain[2] /\ Item' = chain'[1] /\ Item' \in Messages
                               /\ Item'.t = "block" => Follows(Item, Item')
           /\ \A a, b : End(chain, a) = IF chain' = <<>> THEN Item ELSE End(chain', b)
           /\ Item.t = "done" => chain' = <<>>
           /\ ChainInv'
<1>0. chain \in Seq(Messages)
  BY DEF DownType
<1>1. /\ Item \in Messages /\ Item = chain[1] /\ 1 \in DOMAIN chain /\ chain' \in Seq(Messages)
      /\ \A i \in DOMAIN chain' : /\ i \in Nat /\ i + 1 \in DOMAIN chain
                                  /\ chain'[i] = chain[i + 1] /\ i + 1 # 1
  BY <1>0, Received DEF Item
<1>2. \A i \in DOMAIN chain : i # 1 => i - 1 \in DOMAIN chain' /\ chain'[i - 1] = chain[i]
  BY <1>0, MovesUp
<1>3. Item.t = "block" => Item.k <= Blocks /\ Item.f \in 1..total
  BY <1>1 DEF ChainInv
<1>4. chain' # <<>> => /\ 1 \in DOMAIN chain' /\ 2 \in DOMAIN chain
                       /\ chain'[1] = chain[2] /\ Item' = chain'[1] /\ Item' \in Messages
  <2>1. chain' # <<>> => 1 \in DOMAIN chain' /\ Item' = chain'[1] /\ Item' \in Messages
    BY <1>1 DEF Item
  <2>2. 1 \in DOMAIN chain' => 1 + 1 \in DOMAIN chain /\ chain'[1] = chain[1 + 1]
    BY ONLY <1>1
  <2> QED BY <2>1, <2>2
<1>5. chain' # <<>> /\ Item'.t = "block" => Follows(Item, Item')
  <2>1. 1 + 1 \in DOMAIN chain /\ chain[1 + 1].t = "block" => Follows(chain[1], chain[1 + 1])
    BY <1>1 DEF ChainInv
  <2> QED BY <1>1, <1>4, <2>1
<1>6. Len(chain) \in DOMAIN chain /\ Len(chain) \in Nat
  BY <1>0
<1>7. chain' = <<>> => Len(chain) = 1
  <2>1. \A i : i \notin DOMAIN <<>>
    OBVIOUS
  <2> QED BY <1>2, <1>6, <2>1
<1>8. chain' # <<>> => Len(chain') = Len(chain) - 1 /\ Len(chain') \in DOMAIN chain'
  BY <1>0, <1>1
<1>9. \A a, b : End(chain, a) = IF chain' = <<>> THEN Item ELSE End(chain', b)
  <2>1. CASE chain' = <<>>
    BY <1>1, <1>7, <2>1 DEF End
  <2>2. CASE chain' # <<>>
    <3>1. chain'[Len(chain')] = chain[Len(chain)]
      BY <1>1, <1>6, <1>8, <2>2
    <3> QED BY <2>2, <3>1 DEF End
  <2> QED BY <2>1, <2>2
<1>10. Item.t = "done" => chain' = <<>>
  <2> SUFFICES ASSUME Item.t = "done", chain' # <<>> PROVE FALSE
    OBVIOUS
  <2>1. Len(chain) = 1
    BY <1>1 DEF ChainInv
  <2>2. 2 \in 1..1
    BY <1>0, <1>4, <2>1
  <2> QED BY <2>2
<1>11. ChainInv'
  <2> SUFFICES ASSUME NEW i \in DOMAIN chain'
               PROVE  /\ chain'[i].t \in {"block", "done"}
                      /\ chain'[i].t = "block" => chain'[i].k <= Blocks /\ chain'[i].f \in 1..total
                      /\ chain'[i].t = "done" => i = Len(chain')
                      /\ i + 1 \in DOMAIN chain' /\ chain'[i + 1].t = "block" => Follows(chain'[i], chain'[i + 1])
    BY DEF ChainInv
  <2>1. i \in Nat /\ i + 1 \in DOMAIN chain /\ chain'[i] = chain[i + 1]
    BY <1>1
  <2>2. chain'[i].t = "done" => i = Len(chain')
    <3>1. chain' # <<>>
      <4>1. \A j : j \notin DOMAIN <<>>
        OBVIOUS
      <4> QED BY <4>1
    <3>2. chain[i + 1].t = "done" => i + 1 = Len(chain)
      BY <2>1 DEF ChainInv
    <3> QED BY <1>6, <1>8, <2>1, <3>1, <3>2
  <2>3. i + 1 \in DOMAIN chain' => i + 1 + 1 \in DOMAIN chain /\ chain'[i + 1] = chain[i + 1 + 1]
    BY <1>1
  <2> QED BY <2>1, <2>2, <2>3 DEF ChainInv
<1> QED BY <1>1, <1>2, <1>3, <1>4, <1>5, <1>9, <1>10, <1>11

\* What follows the end of one file follows the end of any.
LEMMA EndsAlike ==
    ASSUME NEW a, NEW b, NEW c \in Messages, Eof(a), Eof(b), Follows(a, c)
    PROVE  Follows(b, c)
<1>1. Blocks \in Nat /\ Blocks # 0
  BY TransferBounds
<1>2. c.k \in Nat
  BY DEF Messages
<1>3. c.t = "block" => c.k = 1
  BY <1>1, <1>2 DEF Follows, Eof, Pred
<1> QED BY <1>3 DEF Follows, Eof

\* The stream goes on from what the first item leaves written.
LEMMA NextStream ==
    ASSUME PanelType, LinkInv, DownType, ChainInv, Sound, chain # <<>>, chain' = Tail(chain),
           UNCHANGED <<total, toPanel, host>>,
           \A c \in Messages : Follows(Item, c) => Follows(Mark', c),
           writable'.f # 0 => writable'.ok /\ writable'.n # 0,
           writable'.f = 0 => curFileNum' = 0,
           phase' = "idle"
    PROVE  Sound'
<1>1. /\ Item = chain[1] /\ chain' \in Seq(Messages)
      /\ \A i \in DOMAIN chain' : i \in Nat /\ i + 1 \in DOMAIN chain /\ chain'[i] = chain[i + 1]
      /\ chain' # <<>> => /\ 1 \in DOMAIN chain' /\ 2 \in DOMAIN chain /\ chain'[1] = chain[2]
                          /\ Item' = chain'[1] /\ Item' \in Messages
      /\ \A a, b : End(chain, a) = IF chain' = <<>> THEN Item ELSE End(chain', b)
      /\ 1 \in DOMAIN chain
  BY NextItem
<1>2. Chained(chain')
  BY <1>1 DEF Sound, Chained
<1>3. chain' # <<>> => Follows(Mark', chain'[1])
  <2>1. 1 \in DOMAIN chain /\ 1 + 1 \in DOMAIN chain => Follows(chain[1], chain[1 + 1])
    BY DEF Sound, Chained
  <2> QED BY <1>1, <2>1
<1>4. PICK m : m = Mark'
  OBVIOUS
<1>5. PICK t : t = Tip' /\ t = End(chain', m)
  BY <1>4 DEF Tip
<1>6. Tip = t \/ (Tip = Item /\ t = m)
  BY <1>1, <1>5 DEF Tip, End
<1>7. \A c \in Messages : Follows(Tip, c) => Follows(t, c)
  BY <1>4, <1>6
<1>8. toPanel # <<>> => Follows(t, toPanel[1])
  <2>1. toPanel # <<>> => toPanel[1] \in Messages
    BY DEF PanelType
  <2> QED BY <1>7, <2>1 DEF Sound
<1>9. ASSUME host.pc \in {"wait", "send"}, ~Has(toPanel, "digest")
      PROVE  Follows(End(toPanel, t), Due)
  <2>1. Follows(End(toPanel, Tip), Due)
    BY <1>9 DEF Sound
  <2>2. Due \in Messages
    <3>1. host.f \in Nat /\ host.k \in Nat
      BY DEF PanelType
    <3>2. PICK k : k = IF host.pc = "wait" THEN 1 ELSE IF host.k > Blocks THEN 0 ELSE host.k
      OBVIOUS
    <3>3. k \in Nat
      BY <3>1, <3>2
    <3> QED BY <3>1, <3>2, <3>3 DEF Due, M, Messages, MessageKinds
  <2>3. CASE toPanel = <<>>
    BY <1>7, <2>1, <2>2, <2>3 DEF End
  <2>4. CASE toPanel # <<>>
    BY <2>1, <2>4 DEF End
  <2> QED BY <2>3, <2>4
<1>10. Chained(toPanel') /\ UNCHANGED Due
  BY DEF Sound, Due
<1>11. /\ toPanel' # <<>> => Follows(Tip', toPanel'[1])
       /\ host'.pc \in {"wait", "send"} /\ ~Has(toPanel', "digest") => Follows(End(toPanel', Tip'), Due')
  BY <1>5, <1>8, <1>9, <1>10
<1>12. phase' # "writing"
  OBVIOUS
<1> QED BY <1>2, <1>3, <1>10, <1>11, <1>12 DEF Sound

\* The accounts when the first item is done with.
LEMMA NextAccount ==
    ASSUME DownType, ChainInv, Account, chain # <<>>, chain' = Tail(chain),
           UNCHANGED <<total, toPanel, host, toHost>>,
           \A f \in 1..total : Whole(f) => Whole(f)',
           \A f \in 1..total : Eof(Item) /\ Item.f = f => Whole(f)'
    PROVE  Account'
<1>1. /\ Item = chain[1]
      /\ \A i \in DOMAIN chain' : i \in Nat /\ i + 1 \in DOMAIN chain /\ chain'[i] = chain[i + 1]
      /\ \A i \in DOMAIN chain : i # 1 => i - 1 \in DOMAIN chain' /\ chain'[i - 1] = chain[i]
  BY NextItem
<1> SUFFICES ASSUME Promising', NEW f \in 1..total PROVE Whole(f)' \/ Pending(f)'
  BY DEF Account
<1>2. Promising
  BY <1>1 DEF Promising, Has
<1>3. Whole(f) \/ Pending(f)
  BY <1>2 DEF Account
<1>4. ASSUME NEW i \in DOMAIN chain, Eof(chain[i]), chain[i].f = f PROVE Whole(f)' \/ Pending(f)'
  <2>1. CASE i = 1
    BY <1>1, <1>4, <2>1
  <2>2. CASE i # 1
    <3>1. PICK j \in DOMAIN chain' : chain'[j] = chain[i]
      BY <1>1, <2>2
    <3> QED BY <1>4, <3>1 DEF Pending
  <2> QED BY <2>1, <2>2
<1> QED BY <1>3, <1>4 DEF Pending

\* An item that is started or done with: panel and device see nothing of it.
LEMMA ItemLink ==
    ASSUME PanelType, Down, chain # <<>>, chain' = chain \/ chain' = Tail(chain),
           UNCHANGED <<total, toPanel, host, skipped, deciding, asking, conn, toHost>>,
           UNCHANGED status \/ status' = "done"
    PROVE  LinkInv' /\ (Terminal => Terminal') /\ (Doomed => Doomed') /\ status # "none"
<1>1. DownType /\ LinkInv /\ ChainInv /\ FreshInv
  BY DEF Down, LinkInv
<1>2. PICK m \in Messages : m.t = "cancel"
  <2>1. M("cancel", 0, 0) \in Messages /\ M("cancel", 0, 0).t = "cancel"
    BY DEF Messages, MessageKinds, M
  <2> QED BY <2>1
<1>3. Has(chain', "done") => Has(chain, "done")
  <2>1. CASE chain' = Tail(chain)
    <3>1. \A i \in DOMAIN chain' : i + 1 \in DOMAIN chain /\ chain'[i] = chain[i + 1]
      BY <1>1, <2>1, NextItem
    <3> QED BY <3>1 DEF Has
  <2> QED BY <2>1
<1>4. status # "none" /\ (Idle => Idle') /\ (Stopped' => Stopped) /\ (status' = "none" => status = "none")
  BY <1>1 DEF FreshInv, Idle, Stopped
<1>5. deciding' \in {0, deciding}
  OBVIOUS
<1> QED BY ONLY PanelType, UNCHANGED <<total, toPanel, host, skipped, deciding, asking, conn, toHost>>,
              <1>1, <1>2, <1>3, <1>4, <1>5, PanelActs

\* A close that settles: there was nothing to close that could be, the data is in the
\* file, or the browser refused it.
CloseEnds == /\ writable' = NoStream
             /\ \/ ~writable.ok /\ UNCHANGED <<disk, lost>>
                \/ writable.ok /\ disk' = Committed(writable) /\ UNCHANGED lost
                \/ writable.ok /\ UNCHANGED disk /\ lost' = lost \cup {writable.f}

\* The item waits for the file before it, or its own, to be closed.
LEMMA ClosesDown ==
    ASSUME PanelType, Down, chain # <<>>, phase = "idle", Closes, writable.f # 0, phase' = "closing",
           UNCHANGED <<chain, curFileNum, status, writable, disk, lost>>,
           UNCHANGED <<total, final, toPanel, host, skipped, deciding, asking, conn, toHost>>
    PROVE  Down'
<1>0. DownType /\ LinkInv /\ ChainInv /\ HeadInv /\ Fine /\ DoneInv /\ PartInv
  BY DEF Down
<1>1. LinkInv' /\ (Terminal => Terminal') /\ (Doomed => Doomed')
  BY ItemLink
<1>2. DoneInv' /\ PartInv' /\ (Stopped' <=> Stopped)
  BY <1>0, <1>1 DEF DoneInv, PartInv, Stopped
<1>3. UNCHANGED <<Item, Mark, Tip, Due>>
  BY DEF Item, Mark, Tip, Due
<1>4. Item.t = "block" => curFileNum = Item.f /\ Item.k = 0
  <2>1. Item.t = "block" /\ Item.k = 1 => writable = NoStream
    BY <1>0 DEF HeadInv
  <2>2. Item.t = "block" => curFileNum = Item.f
    BY <1>0, <2>1 DEF HeadInv, NoStream
  <2> QED BY <2>2 DEF Closes
<1>5. DownType' /\ ChainInv'
  BY <1>0 DEF DownType, ChainInv
<1>6. HeadInv'
  BY <1>0, <1>3, <1>4 DEF HeadInv
<1>7. Sound => Sound'
  BY <1>3 DEF Sound
<1>8. Account => Account'
  BY DEF Account, Promising, Whole, Pending
<1>9. Fine'
  BY <1>0, <1>1, <1>2, <1>7, <1>8 DEF Fine
<1> QED BY <1>1, <1>2, <1>5, <1>6, <1>9 DEF Down

\* The first block of a file: the file is opened.
LEMMA OpensDown ==
    ASSUME PanelType, Down, chain # <<>>, phase = "idle", Item.t = "block", curFileNum # Item.f,
           UNCHANGED <<writable, disk, lost>>, curFileNum' = Item.f, phase' = "opening",
           UNCHANGED <<chain, status, total, final, toPanel, host, skipped, deciding, asking, conn, toHost>>
    PROVE  Down'
<1>0. DownType /\ LinkInv /\ ChainInv /\ HeadInv /\ Fine /\ DoneInv /\ PartInv
  BY DEF Down
<1>1. /\ Item.k = 1 /\ curFileNum = 0 /\ writable = NoStream /\ writable.f = 0
  <2>1. Item.k = 1 /\ curFileNum = 0 /\ writable = NoStream
    BY <1>0 DEF HeadInv
  <2>2. writable.f = 0
    BY <2>1 DEF NoStream
  <2> QED BY <2>1, <2>2
<1>2. LinkInv' /\ (Terminal => Terminal') /\ (Doomed => Doomed')
  BY ItemLink
<1>3. Item' = Item /\ Item.f \in Nat /\ UNCHANGED <<Mark, Due, Tip>>
  <2>1. Item \in Messages
    BY <1>0 DEF DownType, Item
  <2> QED BY <1>1, <2>1 DEF Item, Messages, Mark, Due, Tip
<1>4. DownType' /\ ChainInv'
  BY <1>0, <1>1, <1>3 DEF DownType, ChainInv
<1>5. HeadInv'
  BY <1>1, <1>3 DEF HeadInv
<1>6. Sound => Sound'
  BY <1>1, <1>3 DEF Sound
<1>7. Account => Account'
  BY <1>1 DEF Account, Promising, Whole, Pending
<1>8. Fine'
  BY <1>0, <1>2, <1>6, <1>7 DEF Fine, Stopped
<1>9. DoneInv' /\ PartInv'
  BY <1>0, <1>1, <1>2 DEF DoneInv, PartInv, Stopped
<1> QED BY <1>2, <1>4, <1>5, <1>8, <1>9 DEF Down

\* The end of a file: it is closed, and complete.
LEMMA EofDown ==
    ASSUME PanelType, Down, chain # <<>>, phase \in {"idle", "closing"},
           Item.t = "block", curFileNum = Item.f, Item.k = 0,
           CloseEnds, curFileNum' = 0, phase' = "idle", chain' = Tail(chain),
           UNCHANGED <<status, total, final, toPanel, host, skipped, deciding, asking, conn, toHost>>
    PROVE  Down'
<1>0. DownType /\ LinkInv /\ ChainInv /\ HeadInv /\ Fine /\ DoneInv /\ PartInv
  BY DEF Down
<1>1. /\ Item \in Messages /\ chain' \in Seq(Messages) /\ Item.f \in 1..total
      /\ chain' # <<>> => Item' \in Messages /\ (Item'.t = "block" => Follows(Item, Item'))
      /\ ChainInv'
  BY <1>0, NextItem
<1>2. LinkInv' /\ (Terminal => Terminal') /\ (Doomed => Doomed')
  BY ItemLink
<1>3. Blocks \in Nat /\ Blocks # 0
  BY TransferBounds
<1>4. /\ writable' = NoStream /\ writable'.f = 0 /\ writable'.n = 0
      /\ \/ ~writable.ok /\ UNCHANGED <<disk, lost>>
         \/ disk' = [disk EXCEPT ![Item.f] = "new"] /\ UNCHANGED lost
         \/ UNCHANGED disk /\ lost' = lost \cup {Item.f}
  <2>1. writable.ok => writable.f = Item.f /\ writable.n = Blocks
    <3>1. writable.ok => writable.f # 0
      BY <1>0 DEF DownType, NoStream
    <3>2. writable.ok => Follows(Mark, Item) /\ writable.f = curFileNum
      BY <1>0, <3>1 DEF HeadInv, DownType
    <3> QED BY <3>2 DEF Follows, Mark, M, Pred
  <2> QED BY <2>1 DEF CloseEnds, Committed, NoStream
<1>5. /\ \A f \in Files : disk'[f] = "partial" => disk[f] = "partial"
      /\ \A f \in 1..total : Whole(f) => Whole(f)'
      /\ \A f : writable.ok /\ f = Item.f => Whole(f)'
      /\ disk' \in [Files -> {"old", "absent", "empty", "new", "partial"}]
  <2>1. disk \in [Files -> {"old", "absent", "empty", "new", "partial"}] /\ Item.f \in Files
        /\ \A f \in 1..total : f \in Files
    <3>1. total \in 1..NFiles /\ NFiles \in Nat
      BY <1>0, TransferBounds DEF DownType, Files
    <3> QED BY <1>0, <1>1, <3>1 DEF DownType, Files
  <2>2. \A f \in Files : disk'[f] = disk[f] \/ disk'[f] = "new"
    BY <1>4, <2>1
  <2>3. \A f \in lost : f \in lost'
    BY <1>4
  <2>4. PICK g : g = Item.f
    OBVIOUS
  <2>5. writable.ok => disk'[g] = "new" \/ g \in lost'
    BY <1>4, <2>1, <2>4
  <2>6. disk' \in [Files -> {"old", "absent", "empty", "new", "partial"}]
    BY <1>4, <2>1
  <2>7. \A f \in 1..total : Whole(f) => Whole(f)'
    BY <2>1, <2>2, <2>3 DEF Whole
  <2>8. writable.ok => Whole(g)'
    BY <2>5 DEF Whole
  <2> QED BY <2>2, <2>4, <2>6, <2>7, <2>8
<1>6. DownType'
  BY <1>0, <1>1, <1>4, <1>5 DEF DownType, NoStream
<1>7. HeadInv'
  <2>1. chain' # <<>> /\ Item'.t = "block" => Item'.k = 1
    <3>1. chain' # <<>> => Item'.k \in Nat
      BY <1>1 DEF Messages
    <3> QED BY <1>1, <1>3, <3>1 DEF Follows, Pred
  <2> QED BY <1>4, <2>1 DEF HeadInv
<1>8. ASSUME Sound, Account PROVE Sound' /\ Account'
  <2>1. \A c \in Messages : Follows(Item, c) => Follows(Mark', c)
    <3>1. PICK m : m = Mark' /\ Eof(m)
      <4>1. PICK m : m = Mark'
        OBVIOUS
      <4>2. m = [t |-> "block", f |-> writable'.f, k |-> writable'.n]
        BY <4>1 DEF Mark, M
      <4> QED BY <1>4, <4>1, <4>2 DEF Eof
    <3>2. Eof(Item)
      BY DEF Eof
    <3> QED BY <3>1, <3>2, EndsAlike
  <2>2. writable.f # 0 /\ writable.ok
    <3>1. curFileNum # 0
      BY <1>0, <1>1 DEF DownType, Files
    <3> QED BY <1>8, <3>1 DEF Sound
  <2>3. Sound'
    BY <1>0, <1>4, <1>8, <2>1, NextStream
  <2>4. \A f \in 1..total : Eof(Item) /\ Item.f = f => Whole(f)'
    BY <1>5, <2>2 DEF Whole
  <2>5. Account'
    BY <1>0, <1>5, <1>8, <2>4, NextAccount
  <2> QED BY <2>3, <2>5
<1>9. Fine'
  BY <1>0, <1>2, <1>8 DEF Fine, Stopped
<1>10. DoneInv' /\ PartInv'
  BY <1>0, <1>2, <1>5 DEF DoneInv, PartInv, Stopped
<1> QED BY <1>1, <1>2, <1>6, <1>7, <1>9, <1>10 DEF Down

\* A block of the open file: it is written, or lands in memory when the stream is gone.
LEMMA BlockItemDown ==
    ASSUME PanelType, Down, chain # <<>>, phase = "idle", Item.t = "block", curFileNum = Item.f, Item.k # 0,
           IF writable.f = 0 THEN chain' = Tail(chain) /\ UNCHANGED phase
                             ELSE phase' = "writing" /\ UNCHANGED chain,
           UNCHANGED <<curFileNum, status, writable, disk, lost>>,
           UNCHANGED <<total, final, toPanel, host, skipped, deciding, asking, conn, toHost>>
    PROVE  Down'
<1>0. DownType /\ LinkInv /\ ChainInv /\ HeadInv /\ Fine /\ DoneInv /\ PartInv
  BY DEF Down
<1>1. LinkInv' /\ (Terminal => Terminal') /\ (Doomed => Doomed')
  BY ItemLink
<1>2. DoneInv' /\ PartInv' /\ (Stopped' <=> Stopped)
  BY <1>0, <1>1 DEF DoneInv, PartInv, Stopped
<1>3. CASE writable.f = 0
  <2>1. /\ Item \in Messages /\ chain' \in Seq(Messages) /\ Item.f \in 1..total
        /\ chain' # <<>> => Item' \in Messages /\ (Item'.t = "block" => Follows(Item, Item'))
        /\ ChainInv'
    BY <1>0, <1>3, NextItem
  <2>2. ~Sound
    <3>1. curFileNum # 0
      BY <1>0, <2>1 DEF DownType, Files
    <3> QED BY <1>3, <3>1 DEF Sound
  <2>3. Fine'
    BY <1>0, <1>1, <1>2, <2>2 DEF Fine
  <2>4. DownType'
    BY <1>0, <1>3, <2>1 DEF DownType
  <2>5. HeadInv'
    <3>1. chain' # <<>> /\ Item'.t = "block" => Item'.k # 1 /\ Item'.f = Item.f
      BY <2>1 DEF Follows
    <3> QED BY <1>3, <3>1 DEF HeadInv
  <2> QED BY <1>1, <1>2, <2>1, <2>3, <2>4, <2>5 DEF Down
<1>4. CASE writable.f # 0
  <2>1. UNCHANGED <<chain, Item, Mark, Tip, Due>> /\ phase' = "writing"
    BY <1>4 DEF Item, Mark, Tip, Due
  <2>2. DownType' /\ ChainInv'
    BY <1>0, <2>1 DEF DownType, ChainInv
  <2>3. HeadInv'
    BY <1>0, <2>1 DEF HeadInv
  <2>4. Sound => Sound'
    BY <1>4, <2>1 DEF Sound
  <2>5. Account => Account'
    BY <2>1 DEF Account, Promising, Whole, Pending
  <2>6. Fine'
    BY <1>0, <1>1, <1>2, <2>4, <2>5 DEF Fine
  <2> QED BY <1>1, <1>2, <2>2, <2>3, <2>6 DEF Down
<1> QED BY <1>3, <1>4

\* The end of the job: what is open is closed as it is.
LEMMA DoneItemDown ==
    ASSUME PanelType, Down, chain # <<>>, phase \in {"idle", "closing"}, Item.t = "done",
           CloseEnds, curFileNum' = 0, phase' = "idle", chain' = Tail(chain),
           status' = IF status \in {"error", "cancelled"} THEN status ELSE "done",
           UNCHANGED <<total, final, toPanel, host, skipped, deciding, asking, conn, toHost>>
    PROVE  Down'
<1>0. DownType /\ LinkInv /\ ChainInv /\ HeadInv /\ Fine /\ DoneInv /\ PartInv /\ OrderInv
  BY DEF Down, LinkInv
<1>1. /\ Item \in Messages /\ chain' \in Seq(Messages) /\ Item = chain[1] /\ 1 \in DOMAIN chain
      /\ chain' = <<>> /\ ChainInv'
      /\ \A i \in DOMAIN chain : i # 1 => i - 1 \in DOMAIN chain'
  BY <1>0, NextItem
<1>2. LinkInv' /\ (Terminal => Terminal') /\ (Stopped => Stopped')
  <2>1. UNCHANGED status \/ status' = "done"
    OBVIOUS
  <2> QED BY <2>1, ItemLink DEF Stopped
<1>3. Has(chain, "done") /\ Terminal /\ Terminal'
  BY <1>0, <1>1, <1>2 DEF Has, OrderInv
<1>4. /\ writable' = NoStream /\ writable'.f = 0
      /\ writable.f = 0 => UNCHANGED <<disk, lost>>
      /\ disk' \in [Files -> {"old", "absent", "empty", "new", "partial"}]
  BY <1>0 DEF CloseEnds, Committed, NoStream, DownType
<1>5. DownType' /\ HeadInv'
  <2>1. DownType'
    BY <1>0, <1>1, <1>4 DEF DownType, NoStream
  <2>2. HeadInv'
    BY <1>1 DEF HeadInv
  <2> QED BY <2>1, <2>2
<1>6. CASE Stopped
  <2>1. Stopped'
    BY <1>2, <1>6
  <2>2. DoneInv'
    BY <2>1 DEF Stopped, DoneInv
  <2>3. PartInv' /\ Fine'
    BY <1>3, <2>1 DEF PartInv, Fine
  <2> QED BY <1>1, <1>2, <1>5, <2>2, <2>3 DEF Down
<1>7. CASE ~Stopped
  <2>1. Sound /\ Account
    BY <1>0, <1>3, <1>7 DEF Fine, Doomed
  <2>2. writable.f = 0 /\ UNCHANGED <<disk, lost>>
    <3>1. Follows(Mark, Item)
      BY <1>1, <2>1 DEF Sound
    <3>2. writable.n = 0
      BY <3>1 DEF Follows, Eof, Mark, M
    <3> QED BY <1>4, <2>1, <3>2 DEF Sound
  <2>3. \A i \in DOMAIN chain : i = 1
    <3>1. \A i : i \notin DOMAIN <<>>
      OBVIOUS
    <3> QED BY <1>1, <3>1
  <2>4. \A f \in 1..total : Whole(f)
    <3>1. \A f \in 1..total : Whole(f) \/ Pending(f)
      BY <1>3, <2>1 DEF Account, Promising
    <3>2. \A f : ~Pending(f)
      BY <1>1, <1>3, <2>3 DEF Pending, Eof, Terminal, Settled
    <3> QED BY <3>1, <3>2
  <2>5. DoneInv'
    BY <1>1, <1>3, <2>2, <2>4 DEF DoneInv, Whole
  <2>6. PartInv'
    BY <1>0, <1>7, <2>2 DEF PartInv
  <2>7. ~Has(chain', "done") /\ Chained(chain')
    <3>1. \A i : i \notin DOMAIN <<>>
      OBVIOUS
    <3> QED BY <1>1, <3>1 DEF Has, Chained
  <2>8. Account'
    BY <1>3, <2>7 DEF Account, Promising, Terminal, Settled, Has
  <2>9. Sound'
    <3>1. \A a : \A i \in DOMAIN toPanel : Follows(a, toPanel[i])
      BY <1>3 DEF Terminal, Follows
    <3>2. toPanel # <<>> => 1 \in DOMAIN toPanel
      BY DEF PanelType
    <3>3. Chained(toPanel') /\ (toPanel' # <<>> => Follows(Tip', toPanel'[1]))
      BY <3>1, <3>2 DEF Chained
    <3>4. host'.pc \notin {"wait", "send"}
      BY <1>3 DEF Terminal, Settled
    <3> QED BY <1>1, <1>4, <2>7, <3>3, <3>4 DEF Sound
  <2> QED BY <1>1, <1>2, <1>5, <2>5, <2>6, <2>8, <2>9 DEF Down, Fine
<1> QED BY <1>6, <1>7

\* The file is closed, or there was none: the item goes on.
LEMMA AfterCloseDown ==
    ASSUME PanelType, Down, chain # <<>>, phase \in {"idle", "closing"}, Closes, AfterClose, CloseEnds,
           phase = "idle" => writable.f = 0,
           UNCHANGED <<total, final, toPanel, host, skipped, deciding, asking, conn, toHost>>
    PROVE  Down'
<1>0. DownType /\ HeadInv
  BY DEF Down
<1>1. CASE /\ Item.t = "block" /\ curFileNum # Item.f
           /\ curFileNum' = Item.f /\ phase' = "opening"
           /\ UNCHANGED <<chain, status>>
  <2>1. phase = "idle"
    BY <1>0, <1>1 DEF HeadInv
  <2>2. UNCHANGED <<writable, disk, lost>>
    BY <1>0, <2>1 DEF DownType, CloseEnds, NoStream
  <2> QED BY <1>1, <2>1, <2>2, OpensDown
<1>2. CASE /\ Item.t = "block" /\ curFileNum = Item.f
           /\ curFileNum' = 0 /\ phase' = "idle" /\ chain' = Tail(chain)
           /\ UNCHANGED status
  <2>1. Item.k = 0
    BY <1>2 DEF Closes
  <2> QED BY <1>2, <2>1, EofDown
<1>3. CASE /\ Item.t = "done"
           /\ curFileNum' = 0 /\ phase' = "idle" /\ chain' = Tail(chain)
           /\ status' = IF status \in {"error", "cancelled"} THEN status ELSE "done"
  BY <1>3, DoneItemDown
<1> QED BY <1>1, <1>2, <1>3 DEF AfterClose

\* The first item of the chain starts, in all its cases.
LEMMA ItemStartsDown ==
    ASSUME PanelType, Down, ItemStarts
    PROVE  Down'
<1>0. DownType /\ ChainInv
  BY DEF Down
<1>1. /\ chain # <<>> /\ phase = "idle"
      /\ UNCHANGED <<total, final, toPanel, host, skipped, deciding, asking, conn, toHost>>
      /\ UNCHANGED <<writable, disk, lost>>
  BY DEF ItemStarts, chans, device, history
<1>2. CASE /\ Closes /\ writable.f # 0
           /\ phase' = "closing"
           /\ UNCHANGED <<chain, curFileNum, status>>
  BY ONLY PanelType, Down, <1>1, <1>2, ClosesDown
<1>3. CASE Closes /\ writable.f = 0 /\ AfterClose
  <2>1. CloseEnds
    BY <1>0, <1>1, <1>3 DEF CloseEnds, DownType, NoStream
  <2> QED BY ONLY PanelType, Down, <1>1, <1>3, <2>1, AfterCloseDown
<1>4. CASE /\ ~Closes
           /\ IF writable.f = 0
              THEN chain' = Tail(chain) /\ UNCHANGED phase
              ELSE phase' = "writing" /\ UNCHANGED chain
           /\ UNCHANGED <<curFileNum, status>>
  <2>1. 1 \in DOMAIN chain /\ Item = chain[1]
    BY <1>0, <1>1 DEF DownType, Item
  <2>2. Item.t = "block" /\ curFileNum = Item.f /\ Item.k # 0
    BY <1>0, <1>4, <2>1 DEF Closes, ChainInv
  <2> QED BY ONLY PanelType, Down, <1>1, <1>4, <2>2, BlockItemDown
<1> QED BY <1>2, <1>3, <1>4 DEF ItemStarts

\* The close of the first item settles.
LEMMA FileClosedDown ==
    ASSUME PanelType, Down, NEW ok \in BOOLEAN, FileClosed(ok)
    PROVE  Down'
<1>1. /\ phase = "closing" /\ AfterClose
      /\ UNCHANGED <<total, final, toPanel, host, skipped, deciding, asking, conn, toHost>>
  BY DEF FileClosed, chans, device, history
<1>2. chain # <<>> /\ Closes
  BY <1>1 DEF Down, HeadInv, ChainInv, DownType, Item, Closes
<1>3. CloseEnds
  BY DEF FileClosed, CloseEnds
<1> QED BY ONLY PanelType, Down, <1>1, <1>2, <1>3, AfterCloseDown

\* The write fails: so does the job, the device is told, the stream is lost.
LEMMA FailsDown ==
    ASSUME PanelType, Down, phase \in {"opening", "writing"}, WriteFails,
           writable' = IF writable.f = 0 THEN writable ELSE [writable EXCEPT !.ok = FALSE],
           UNCHANGED <<curFileNum, disk, lost, total, final, toPanel, host, skipped, deciding, asking, conn>>
    PROVE  Down'
<1>0. DownType /\ LinkInv /\ ChainInv /\ HeadInv /\ Fine /\ DoneInv /\ PartInv /\ FreshInv
  BY DEF Down, LinkInv
<1>1. chain # <<>> /\ Item.t = "block" /\ curFileNum = Item.f /\ Item.k # 0
  BY <1>0 DEF HeadInv
<1>2. /\ chain' = Tail(chain) /\ phase' = "idle" /\ status' = "error" /\ Stopped'
      /\ Post(<<M("cancel", 0, 0)>>)
  BY DEF WriteFails, Stopped
<1>3. /\ Item \in Messages /\ chain' \in Seq(Messages)
      /\ chain' # <<>> => Item' \in Messages /\ (Item'.t = "block" => Follows(Item, Item'))
      /\ \A i \in DOMAIN chain' : i + 1 \in DOMAIN chain /\ chain'[i] = chain[i + 1]
      /\ ChainInv'
  BY <1>0, <1>1, <1>2, NextItem
<1>4. PICK m \in Messages : m = M("cancel", 0, 0) /\ m.t = "cancel"
  <2>1. M("cancel", 0, 0) \in Messages /\ M("cancel", 0, 0).t = "cancel"
    BY DEF Messages, MessageKinds, M
  <2> QED BY <2>1
<1>5. toHost' = IF conn = "closed" THEN toHost ELSE Append(toHost, m)
  <2>1. toHost \in Seq(Messages)
    BY DEF PanelType
  <2> QED BY <1>2, <1>4, <2>1, PostsOne
<1>6. LinkInv' /\ (Terminal => Terminal')
  <2>1. skipped \subseteq skipped' /\ deciding' \in {0, deciding}
    OBVIOUS
  <2>2. status # "none" /\ (Idle => Idle')
    BY <1>0, <1>1 DEF FreshInv, Idle
  <2>3. /\ UNCHANGED toHost \/ (toHost' = Append(toHost, m) /\ conn # "closed" /\ status # "none")
        /\ status' = "none" => status = "none"
        /\ conn = "closed" => conn' = "closed"
        /\ conn' = "closed" \/ (m.t = "cancel" /\ toHost' = Append(toHost, m))
    BY <1>2, <1>4, <1>5, <2>2
  <2>4. Has(chain', "done") => Has(chain, "done")
    BY <1>3 DEF Has
  <2> QED BY <1>0, <1>4, <2>1, <2>2, <2>3, <2>4, PanelActs
<1>7. DownType'
  <2>1. /\ writable' \in [f : Nat, n : Nat, ok : BOOLEAN]
        /\ writable'.f = writable.f /\ (writable'.f = 0 => writable' = NoStream)
    BY <1>0 DEF DownType
  <2> QED BY <1>0, <1>2, <1>3, <2>1 DEF DownType
<1>8. HeadInv'
  <2>1. writable'.f = 0 \/ ~writable'.ok
    BY <1>0 DEF DownType
  <2>2. chain' # <<>> /\ Item'.t = "block" => Item'.k # 1 /\ Item'.f = Item.f
    BY <1>1, <1>3 DEF Follows
  <2> QED BY <1>1, <1>2, <2>1, <2>2 DEF HeadInv
<1>9. DoneInv' /\ PartInv' /\ Fine'
  BY <1>0, <1>2, <1>6 DEF DoneInv, PartInv, Fine
<1> QED BY <1>3, <1>6, <1>7, <1>8, <1>9 DEF Down

\* The file is open, and empty if it was not there.
LEMMA OpenedDown ==
    ASSUME PanelType, Down, NEW ok \in BOOLEAN, Opened(ok)
    PROVE  Down'
<1>0. DownType /\ LinkInv /\ ChainInv /\ HeadInv /\ Fine /\ DoneInv /\ PartInv
  BY DEF Down
<1>1. /\ phase = "opening" /\ chain # <<>> /\ Item.t = "block" /\ curFileNum = Item.f /\ Item.k = 1
      /\ writable = NoStream /\ writable.f = 0
      /\ UNCHANGED <<curFileNum, lost, total, final, toPanel, host, skipped, deciding, asking, conn>>
  BY <1>0 DEF HeadInv, NoStream, Opened, device, history
<1>2. CASE ~ok
  <2>1. WriteFails /\ UNCHANGED <<writable, disk>>
    BY <1>2 DEF Opened
  <2>2. writable' = IF writable.f = 0 THEN writable ELSE [writable EXCEPT !.ok = FALSE]
    BY <1>1, <2>1
  <2> QED BY <1>1, <2>1, <2>2, FailsDown
<1>3. CASE ok
  <2>1. /\ disk' = IF disk[Item.f] = "absent" THEN [disk EXCEPT ![Item.f] = "empty"] ELSE disk
        /\ writable' = [f |-> Item.f, n |-> 0, ok |-> TRUE]
        /\ phase' = "writing"
        /\ UNCHANGED <<chain, status, toHost>>
    BY <1>1, <1>3 DEF Opened
  <2>2. /\ Item \in Messages /\ Item.f \in 1..total /\ Item.f \in Nat /\ Item.f # 0 /\ Item' = Item
    <3>1. 1 \in DOMAIN chain /\ Item = chain[1] /\ Item \in Messages
      BY <1>0, <1>1 DEF DownType, Item
    <3>2. total \in Nat
      BY DEF PanelType
    <3> QED BY <1>0, <1>1, <2>1, <3>1, <3>2 DEF ChainInv, Item
  <2>3. /\ \A f \in Files : disk'[f] = "partial" => disk[f] = "partial"
        /\ \A f \in Files : disk[f] = "new" => disk'[f] = "new"
        /\ disk' \in [Files -> {"old", "absent", "empty", "new", "partial"}]
    BY <1>0, <2>1 DEF DownType
  <2>4. \A f \in 1..total : f \in Files /\ (Whole(f) => Whole(f)')
    <3>1. total \in 1..NFiles /\ NFiles \in Nat
      BY <1>0, TransferBounds DEF DownType, Files
    <3>2. \A f \in 1..total : f \in Files
      BY <3>1 DEF Files
    <3> QED BY <1>1, <2>3, <3>2 DEF Whole
  <2>5. LinkInv' /\ (Terminal => Terminal') /\ (Doomed => Doomed')
    BY <1>1, <2>1, ItemLink
  <2>6. DownType'
    <3>1. writable' \in [f : Nat, n : Nat, ok : BOOLEAN] /\ writable'.f # 0 /\ writable'.f = curFileNum
      BY <1>1, <2>1, <2>2
    <3> QED BY <1>0, <1>1, <2>1, <2>3, <3>1 DEF DownType
  <2>7. writable'.f = Item.f /\ writable'.n = 0 /\ writable'.ok /\ Follows(Mark', Item)
    <3>1. writable'.f = Item.f /\ writable'.n = 0 /\ writable'.ok
      BY <2>1
    <3>2. PICK m : m = Mark' /\ m.t = "block" /\ m.k = 0
      <4>1. PICK m : m = Mark'
        OBVIOUS
      <4>2. m = [t |-> "block", f |-> writable'.f, k |-> writable'.n]
        BY <4>1 DEF Mark, M
      <4> QED BY <3>1, <4>1, <4>2
    <3> QED BY <1>1, <3>1, <3>2 DEF Follows
  <2>8. ChainInv' /\ HeadInv'
    <3>1. ChainInv'
      BY <1>0, <1>1, <2>1 DEF ChainInv
    <3> QED BY <1>1, <2>1, <2>2, <2>7, <3>1 DEF HeadInv
  <2>9. ASSUME Sound, Account PROVE Sound' /\ Account'
    <3>1. Tip' = Tip /\ Due' = Due
      BY <1>1, <2>1 DEF Tip, Due, End
    <3>2. Follows(Mark', chain'[1])
      BY <2>1, <2>2, <2>7 DEF Item
    <3>3. Sound'
      BY <1>1, <2>1, <2>2, <2>7, <2>9, <3>1, <3>2 DEF Sound
    <3>4. Account'
      <4>1. Promising' => Promising
        BY <1>1, <2>1 DEF Promising
      <4>2. \A f \in 1..total : Pending(f) => Pending(f)'
        BY <1>1, <2>1 DEF Pending
      <4> QED BY <1>1, <2>4, <2>9, <4>1, <4>2 DEF Account
    <3> QED BY <3>3, <3>4
  <2>10. Fine'
    BY <1>0, <2>1, <2>5, <2>9 DEF Fine, Stopped
  <2>11. DoneInv' /\ PartInv'
    BY <1>0, <1>1, <2>1, <2>3, <2>4, <2>5 DEF DoneInv, PartInv, Stopped
  <2> QED BY <2>5, <2>6, <2>8, <2>10, <2>11 DEF Down
<1> QED BY <1>2, <1>3

\* The write settles: one block more of the file, in its place.
LEMMA WrittenDown ==
    ASSUME PanelType, Down, NEW ok \in BOOLEAN, Written(ok)
    PROVE  Down'
<1>0. DownType /\ LinkInv /\ ChainInv /\ HeadInv /\ Fine /\ DoneInv /\ PartInv
  BY DEF Down
<1>1. /\ phase = "writing" /\ chain # <<>> /\ Item.t = "block" /\ curFileNum = Item.f /\ Item.k # 0
      /\ writable.f # 0 /\ writable.ok => Follows(Mark, Item)
      /\ UNCHANGED <<curFileNum, disk, lost, total, final, toPanel, host, skipped, deciding, asking, conn>>
  BY <1>0 DEF HeadInv, Written, device, history
<1>2. CASE ~ok
  <2>1. /\ WriteFails
        /\ writable' = IF writable.f = 0 THEN writable ELSE [writable EXCEPT !.ok = FALSE]
    BY <1>2 DEF Written
  <2> QED BY <1>1, <2>1, FailsDown
<1>3. CASE ok
  <2>1. /\ writable.f # 0 => writable.ok
        /\ writable' = IF writable.f = 0 THEN writable ELSE [writable EXCEPT !.n = @ + 1]
        /\ chain' = Tail(chain) /\ phase' = "idle"
        /\ UNCHANGED <<status, toHost>>
    BY <1>3 DEF Written
  <2>2. /\ Item \in Messages /\ Item.k \in Nat /\ chain' \in Seq(Messages)
        /\ chain' # <<>> => Item' \in Messages /\ (Item'.t = "block" => Follows(Item, Item'))
        /\ ChainInv'
    <3>1. /\ Item \in Messages /\ chain' \in Seq(Messages)
          /\ chain' # <<>> => Item' \in Messages /\ (Item'.t = "block" => Follows(Item, Item'))
          /\ ChainInv'
      BY <1>0, <1>1, <2>1, NextItem
    <3> QED BY <3>1 DEF Messages
  <2>3. LinkInv' /\ (Terminal => Terminal') /\ (Doomed => Doomed')
    BY <1>1, <2>1, ItemLink
  <2>4. /\ writable' \in [f : Nat, n : Nat, ok : BOOLEAN] /\ writable'.f = writable.f
        /\ writable.f = 0 => writable' = NoStream
        /\ writable.f # 0 => writable'.n = writable.n + 1 /\ writable'.ok
        /\ writable.n \in Nat /\ (writable.f # 0 => writable.f = Item.f)
    <3>1. /\ writable \in [f : Nat, n : Nat, ok : BOOLEAN] /\ writable.n \in Nat
          /\ writable.f = 0 => writable = NoStream
          /\ writable.f # 0 => writable.f = Item.f
      BY <1>0, <1>1 DEF DownType
    <3>2. CASE writable.f = 0
      BY <2>1, <3>1, <3>2
    <3>3. CASE writable.f # 0
      <4>1. writable' = [writable EXCEPT !.n = writable.n + 1] /\ writable.n + 1 \in Nat
        BY <2>1, <3>1, <3>3
      <4>2. writable' \in [f : Nat, n : Nat, ok : BOOLEAN]
        BY <3>1, <4>1
      <4>3. writable'.f = writable.f /\ writable'.n = writable.n + 1 /\ writable'.ok = writable.ok
        BY <3>1, <4>1
      <4> QED BY <2>1, <3>1, <3>3, <4>2, <4>3
    <3> QED BY <3>2, <3>3
  <2>5. ASSUME writable.f # 0
        PROVE  writable'.f = Item.f /\ writable'.n = Item.k /\ writable'.n # 0 /\ writable'.ok
    <3>1. IF Item.k = 1 THEN writable.n = 0 ELSE writable.n = Item.k - 1
      BY <1>1, <2>1, <2>5 DEF Follows, Mark, M, Pred
    <3> QED BY <1>1, <2>2, <2>4, <2>5, <3>1
  <2>6. ASSUME writable.f # 0, NEW c, Follows(Item, c) PROVE Follows(Mark', c)
    <3>1. PICK m : m = Mark' /\ m.t = Item.t /\ m.f = Item.f /\ m.k = Item.k
      <4>1. PICK m : m = Mark'
        OBVIOUS
      <4>2. m = [t |-> "block", f |-> writable'.f, k |-> writable'.n]
        BY <4>1 DEF Mark, M
      <4> QED BY <1>1, <2>5, <2>6, <4>1, <4>2
    <3>2. Follows(m, c)
      BY <2>6, <3>1 DEF Follows, Eof
    <3> QED BY <3>1, <3>2
  <2>7. DownType'
    BY <1>0, <1>1, <2>1, <2>2, <2>4 DEF DownType
  <2>8. HeadInv'
    <3>1. chain' # <<>> /\ Item'.t = "block" =>
             Item'.k # 1 /\ Item'.f = Item.f /\ (writable.f # 0 => Follows(Mark', Item'))
      <4>1. chain' # <<>> /\ Item'.t = "block" => Follows(Item, Item')
        BY <2>2
      <4>2. chain' # <<>> /\ Item'.t = "block" => Item'.k # 1 /\ Item'.f = Item.f
        BY <1>1, <4>1 DEF Follows
      <4>3. PICK c : c = Item'
        OBVIOUS
      <4>4. Follows(Item, c) /\ writable.f # 0 => Follows(Mark', c)
        BY <2>6
      <4> QED BY <4>1, <4>2, <4>3, <4>4
    <3> QED BY <1>1, <2>1, <2>4, <3>1 DEF HeadInv
  <2>9. ASSUME Sound, Account PROVE Sound' /\ Account'
    <3>1. writable.f # 0
      BY <1>1, <2>9 DEF Sound
    <3>2. \A c \in Messages : Follows(Item, c) => Follows(Mark', c)
      BY <2>6, <3>1
    <3>3. Sound'
      BY <1>0, <1>1, <2>1, <2>4, <2>5, <2>9, <3>1, <3>2, NextStream
    <3>4. \A f \in 1..total : (Whole(f) => Whole(f)') /\ ~Eof(Item)
      BY <1>1 DEF Whole, Eof
    <3>5. Account'
      BY <1>0, <1>1, <2>1, <2>9, <3>4, NextAccount
    <3> QED BY <3>3, <3>5
  <2>10. Fine'
    BY <1>0, <2>1, <2>3, <2>9 DEF Fine, Stopped
  <2>11. DoneInv' /\ PartInv'
    <3>1. \A f : Whole(f)' <=> Whole(f)
      BY <1>1 DEF Whole
    <3> QED BY <1>0, <1>1, <2>1, <2>3, <3>1 DEF DoneInv, PartInv, Stopped
  <2> QED BY <2>2, <2>3, <2>7, <2>8, <2>10, <2>11 DEF Down
<1> QED BY <1>2, <1>3

(***************************************************************************)
(* Both kinds together.                                                    *)
(***************************************************************************)

\* At first a download has neither messages nor a stream.
LEMMA DownStart == ASSUME Init, kind = "download" PROVE Down
<1>1. /\ total \in Files /\ conn = "streaming" /\ status = "none" /\ deciding = 0 /\ asking = FALSE
      /\ chain = <<>> /\ phase = "idle" /\ curFileNum = 0 /\ writable = NoStream
      /\ disk \in [Files -> {"old", "absent"}]
      /\ toHost = <<>> /\ toPanel = <<>> /\ host.pc = "idle" /\ final = {}
  BY DEF Init, At
<1>2. /\ \A i : i \notin DOMAIN chain /\ i \notin DOMAIN toHost /\ i \notin DOMAIN toPanel
      /\ <<>> \in Seq(Messages)
  <2>1. \A i : i \notin DOMAIN <<>>
    OBVIOUS
  <2> QED BY <1>1, <2>1
<1>3. NoStream \in [f : Nat, n : Nat, ok : BOOLEAN] /\ NoStream.f = 0
  BY DEF NoStream
<1>4. \A f \in Files : disk[f] # "partial"
  BY <1>1
<1>5. DownType
  <2>1. 0 \in 0..total
    BY <1>1 DEF Files
  <2>2. disk \in [Files -> {"old", "absent", "empty", "new", "partial"}]
    BY <1>1
  <2> QED BY <1>1, <1>2, <1>3, <2>1, <2>2 DEF DownType
<1>6. LinkInv
  BY <1>1, <1>2 DEF LinkInv, LineInv, OrderInv, AskInv, FreshInv, Has, Stopped, Idle
<1>7. ChainInv /\ HeadInv
  BY <1>1, <1>2 DEF ChainInv, HeadInv
<1>8. Sound /\ Account
  BY <1>1, <1>2, <1>3 DEF Sound, Chained, Account, Promising, Has
<1>9. DoneInv /\ PartInv
  BY <1>1, <1>4 DEF DoneInv, PartInv
<1> QED BY <1>5, <1>6, <1>7, <1>8, <1>9 DEF Down, Fine

\* A step that leaves the download alone.
LEMMA StillDown == ASSUME PanelType, Down, UNCHANGED vars PROVE Down'
<1>1. PICK m \in Messages : m.t = "cancel"
  <2>1. M("cancel", 0, 0) \in Messages /\ M("cancel", 0, 0).t = "cancel"
    BY DEF Messages, MessageKinds, M
  <2> QED BY <2>1
<1>2. /\ UNCHANGED <<total, toPanel, host, final, status, skipped, deciding, asking, toHost, conn>>
      /\ UNCHANGED <<chain, phase, curFileNum, writable, disk, lost>>
  BY DEF vars, job, local, chans, device, history
<1>3. deciding' \in {0, deciding} /\ (asking' => deciding' # 0) /\ skipped \subseteq skipped'
  BY <1>2 DEF Down, DownType
<1> QED BY ONLY PanelType, Down, <1>1, <1>2, <1>3, PanelKeeps

\* Every step of a download keeps its stream and its accounts.
LEMMA DownStep ==
    ASSUME PanelType, UploadInv, Down, kind = "download", [Next]_vars, ~BlockUnreadable, PanelType'
    PROVE  Down'
<1>1. up.pc = "none" /\ LinkInv
  BY DEF UploadInv, RoleInv, Down
<1>2. CASE Events
  BY <1>1, <1>2, EventsDown
<1>3. CASE TargetChecked \/ User \/ WorkerCrashes \/ Reopen
  <2>1. ~StartUpload
    BY DEF StartUpload
  <2> QED BY <1>1, <1>3, <2>1, DecisionDown, UserDown, StartDown DEF User
<1>4. CASE WriteChain
  BY <1>4, ItemStartsDown, OpenedDown, WrittenDown, FileClosedDown DEF WriteChain
<1>5. CASE Upload
  BY <1>1, <1>5 DEF Upload, BlockRead, ReadFails, Sent, Drained
<1>6. CASE Host \/ HostFails \/ ConnectionLost
  BY <1>1, <1>6, HostServesDown, HostSendsDown, HostReceivesNothing, HostEndsDown DEF Host
<1>7. CASE UNCHANGED vars
  BY <1>7, StillDown
<1> QED BY <1>2, <1>3, <1>4, <1>5, <1>6, <1>7 DEF Next

\* What the accounts of a download are kept for.
LEMMA DownMean ==
    ASSUME Down, kind = "download"
    PROVE  NoPartialFile /\ DoneMeansComplete
<1>1. NoPartialFile
  BY DEF Down, DownType, PartInv, Stopped, NoPartialFile
<1>2. DoneMeansComplete
  BY DEF Down, DoneInv, Whole, DoneMeansComplete
<1> QED BY <1>1, <1>2

\* The kind of a transfer is fixed when it is made.
LEMMA SameKind == ASSUME [Next]_vars PROVE kind' = kind
<1>1. CASE Events
  BY <1>1 DEF Events, DirArrives, DigestArrives, SendConfirmArrives, BlockArrives, DoneArrives,
              ErrorArrives, ClosedArrives, job
<1>2. CASE TargetChecked \/ User \/ WorkerCrashes \/ Reopen
  BY <1>2 DEF TargetChecked, User, StartDownload, StartUpload, UserCancels, Decide, WorkerCrashes, Reopen
<1>3. CASE WriteChain \/ Upload
  BY <1>3 DEF WriteChain, ItemStarts, Opened, Written, FileClosed, Upload, BlockRead, ReadFails, Sent, Drained, job
<1>4. CASE Host \/ HostFails \/ BlockUnreadable \/ ConnectionLost
  BY <1>4 DEF Host, HostServes, HostSends, HostReceives, HostFails, BlockUnreadable, ConnectionLost, job
<1>5. CASE UNCHANGED vars
  BY <1>5 DEF vars, job
<1> QED BY <1>1, <1>2, <1>3, <1>4, <1>5 DEF Next

\* A download with an undecodable block stays one.
LEMMA StaysDamaged == ASSUME [Next]_vars PROVE UNCHANGED damaged \/ damaged' = TRUE
<1>1. CASE Events
  BY <1>1 DEF Events, DirArrives, DigestArrives, SendConfirmArrives, BlockArrives, DoneArrives,
              ErrorArrives, ClosedArrives, history
<1>2. CASE TargetChecked \/ User \/ WorkerCrashes \/ Reopen
  BY <1>2 DEF TargetChecked, User, StartDownload, StartUpload, UserCancels, Decide, WorkerCrashes, Reopen,
              history
<1>3. CASE WriteChain \/ Upload
  BY <1>3 DEF WriteChain, ItemStarts, Opened, Written, FileClosed, Upload, BlockRead, ReadFails, Sent,
              Drained, history
<1>4. CASE Host \/ HostFails \/ BlockUnreadable \/ ConnectionLost
  BY <1>4 DEF Host, HostServes, HostSends, HostReceives, HostFails, BlockUnreadable, ConnectionLost, history
<1>5. CASE UNCHANGED vars
  BY <1>5 DEF vars, history, BlockUnreadable
<1> QED BY <1>1, <1>2, <1>3, <1>4, <1>5 DEF Next

\* The device of a download closes no file.
LEMMA NoneFinal ==
    ASSUME PanelType, UploadInv, kind = "download", final = {}, [Next]_vars
    PROVE  final' = {}
<1>1. CASE Events
  BY <1>1 DEF Events, DirArrives, DigestArrives, SendConfirmArrives, BlockArrives, DoneArrives,
              ErrorArrives, ClosedArrives, device
<1>2. CASE TargetChecked \/ User \/ WorkerCrashes \/ Reopen
  BY <1>2 DEF TargetChecked, User, StartDownload, StartUpload, UserCancels, Decide, WorkerCrashes, Reopen,
              device
<1>3. CASE WriteChain \/ Upload
  BY <1>3 DEF WriteChain, ItemStarts, Opened, Written, FileClosed, Upload, BlockRead, ReadFails, Sent,
              Drained, device
<1>4. CASE HostReceives
  <2>1. ~Hears("block")
    <3>1. Hears("block") => 1 \in DOMAIN toHost /\ toHost[1].t = "block"
      BY DEF Hears, PanelType
    <3> QED BY <3>1 DEF UploadInv, RoleInv
  <2> QED BY <1>4, <2>1 DEF HostReceives
<1>5. CASE HostServes \/ HostSends \/ HostFails \/ BlockUnreadable \/ ConnectionLost
  BY <1>5 DEF HostServes, HostSends, HostFails, BlockUnreadable, ConnectionLost
<1>6. CASE UNCHANGED vars
  BY <1>6 DEF vars, device
<1> QED BY <1>1, <1>2, <1>3, <1>4, <1>5, <1>6 DEF Next, Host

\* The accounts of the transfer, of whichever kind it is; those of a download end with
\* the first block that cannot be decompressed.
Accounts == /\ PanelType /\ UploadInv /\ kind \in {"download", "upload"}
            /\ kind = "upload" => UploadSums
            /\ kind = "download" => final = {} /\ (damaged \/ Down)

\* The accounts are right at first and stay right.
LEMMA AccountsStart == Init => Accounts
<1> SUFFICES ASSUME Init PROVE Accounts
  OBVIOUS
<1>1. PanelType /\ UploadInv /\ kind \in {"download", "upload"}
  BY UploadStart DEF Init
<1>2. kind = "upload" => UploadSums
  BY SumsStart
<1>3. kind = "download" => Down /\ final = {}
  BY DownStart DEF Init
<1> QED BY <1>1, <1>2, <1>3 DEF Accounts

\* Every step keeps them.
LEMMA AccountsStep == Accounts /\ [Next]_vars => Accounts'
<1> SUFFICES ASSUME Accounts, [Next]_vars PROVE Accounts'
  OBVIOUS
<1>1. PanelType /\ UploadInv /\ kind \in {"download", "upload"}
  BY DEF Accounts
<1>2. PanelType' /\ UploadInv' /\ kind' = kind
  BY <1>1, UploadStep, SameKind
<1>3. kind = "upload" => UploadSums'
  BY <1>1, <1>2, SumsStep DEF Accounts
<1>4. kind = "download" => damaged' \/ Down'
  <2>1. CASE damaged \/ BlockUnreadable
    BY <2>1, StaysDamaged, Zenon DEF BlockUnreadable
  <2>2. CASE ~damaged /\ ~BlockUnreadable
    BY <1>1, <1>2, <2>2, DownStep DEF Accounts
  <2> QED BY <2>1, <2>2
<1>5. kind = "download" => final' = {}
  BY <1>1, NoneFinal DEF Accounts
<1> QED BY <1>1, <1>2, <1>3, <1>4, <1>5 DEF Accounts

\* And they say what they are kept for.
LEMMA AccountsMean == Accounts => NoPartialFile /\ DoneMeansComplete
<1> SUFFICES ASSUME Accounts PROVE NoPartialFile /\ DoneMeansComplete
  OBVIOUS
<1>1. CASE kind = "download" /\ damaged
  BY <1>1 DEF Accounts, NoPartialFile, DoneMeansComplete
<1> QED BY <1>1, SumsMean, DownMean DEF Accounts

\* No truncated file passes for a file: whatever writes, events, a cancel and the loss
\* of the connection do to each other, a local file holding only part of its blocks is
\* left behind by nothing but a job shown as cancelled or failed, or one that met a
\* block it could not decompress; and an uploaded file the device has closed holds
\* every block (closeJobFile, the write chain of onFtBlock and the block loop of
\* uploadFiles).
THEOREM NothingPartial == Spec => []NoPartialFile
BY AccountsStart, AccountsStep, AccountsMean, PTL DEF Spec

\* "Received" and "Sent" are true: a job shown as done (onFtDone behind the write
\* chain, 'ftDone' of an upload, "skipped" in onFtError) has every file either skipped
\* or complete at its destination, but for files whose commit closeJobFile swallowed
\* and for downloads that met a block they could not decompress.
THEOREM DoneIsComplete == Spec => []DoneMeansComplete
BY AccountsStart, AccountsStep, AccountsMean, PTL DEF Spec
=============================================================================
