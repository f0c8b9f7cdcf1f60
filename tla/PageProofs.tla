------------------------------ MODULE PageProofs ------------------------------
(***************************************************************************)
(* Proofs about Lifecycle for every MaxEpoch, and about Page for every     *)
(* number of sockets, attempts and nudges.                                 *)
(*                                                                         *)
(* The handlers of Lifecycle are operators on the record of the page, so   *)
(* the first part has a lemma for each of them (Connect, SocketClosed,     *)
(* Resume) and one step for each event.  The page implements its           *)
(* connection: each step is one of Lifecycle's or leaves it alone, so that *)
(* what the first part says holds of the page.  On top of it, an invariant *)
(* that ties the data to the connection they were fetched on.              *)
(***************************************************************************)
EXTENDS Page, TLAPS

-----------------------------------------------------------------------------
(* The connection: Lifecycle. *)


\* The invariant of a page while one of its handlers runs.
Sound(s) ==
    /\ s \in Tabs
    /\ s.conn \in {0, s.epoch} /\ s.reconnect \in {0, s.epoch}
    /\ s.conn # 0 =>
         /\ s.page # "disposed"
         /\ s.online /\ ~s.terminal /\ ~s.manual
         /\ s.pending = "none" /\ ~s.hiddenClosed /\ s.reconnect = 0
         /\ s.status = IF s.hello THEN "live" ELSE "connecting"
    /\ s.conn = 0 => ~s.hello /\ s.status \notin {"live", "connecting"}
    /\ s.helloTimer <=> s.conn # 0 /\ ~s.hello /\ ~s.hidden
    /\ s.measuring <=> s.conn # 0 /\ s.hello /\ ~s.hidden
    /\ s.manual \/ s.page = "disposed" => s.reconnect = 0
    /\ s.pending # "none" => s.epoch # 0

\* ... and between two events.
Settled(s) ==
    /\ Sound(s)
    /\ CanOpen(s) /\ s.page = "shown" => s.conn # 0 \/ s.reconnect # 0

\* The inductive invariant: the ghost counter is what the page knows of its
\* 4009 closes.
LInv ==
    /\ Settled(tab) /\ tab.epoch <= MaxEpoch
    /\ oversized \in 0 .. 2
    /\ oversized > 0 => ~tab.payloadRetry
    /\ oversized = 2 => tab.manual

-----------------------------------------------------------------------------
(* Lemmas about the handlers. *)

Pending == {"none", "waiting", "due"}

\* A page without a connection, its timers stopped.
Bare(s) == s.conn = 0 /\ ~s.hello /\ ~s.helloTimer /\ ~s.measuring

\* Giving the connection up leaves a bare page, otherwise unchanged.
LEMMA Retired ==
    ASSUME NEW s \in Tabs
    PROVE  LET r == RetireSocket(StopConnectionWork(s))
           IN  /\ r \in Tabs /\ Bare(r) /\ r.reconnect = 0
               /\ r.epoch = s.epoch /\ r.hidden = s.hidden /\ r.online = s.online
               /\ r.page = s.page /\ r.status = s.status /\ r.terminal = s.terminal
               /\ r.manual = s.manual /\ r.payloadRetry = s.payloadRetry
               /\ r.pending = s.pending /\ r.hiddenClosed = s.hiddenClosed
BY DEF RetireSocket, StopConnectionWork, Bare, Tabs

\* What the next epoch changes is well typed.
LEMMA NextEpochType ==
    ASSUME NEW b \in Tabs, NEW e \in Nat, NEW st \in Status, NEW p \in Pending
    PROVE  [b EXCEPT !.epoch = e, !.status = st, !.pending = p,
                     !.hiddenClosed = FALSE, !.heard = FALSE] \in Tabs
BY DEF Tabs, Pending

\* The next epoch starts without anything of the previous one.
LEMMA NextEpochBare ==
    ASSUME NEW s \in Tabs
    PROVE  LET r == NextEpoch(s)
           IN  /\ r \in Tabs /\ Bare(r) /\ r.reconnect = 0
               /\ r.pending = "none" /\ ~r.hiddenClosed
               /\ r.epoch = s.epoch + 1 /\ r.status = "connecting"
               /\ r.hidden = s.hidden /\ r.online = s.online /\ r.page = s.page
               /\ r.terminal = s.terminal /\ r.manual = s.manual
               /\ r.payloadRetry = s.payloadRetry
<1>1. PICK b \in Tabs : b = RetireSocket(StopConnectionWork(s))
  BY Retired
<1>2. /\ Bare(b) /\ b.reconnect = 0
      /\ b.epoch = s.epoch /\ b.hidden = s.hidden /\ b.online = s.online
      /\ b.page = s.page /\ b.terminal = s.terminal
      /\ b.manual = s.manual /\ b.payloadRetry = s.payloadRetry
  BY <1>1, Retired
<1>3. NextEpoch(s) = [b EXCEPT !.epoch = @ + 1, !.status = "connecting", !.pending = "none",
                               !.hiddenClosed = FALSE, !.heard = FALSE]
  BY <1>1 DEF NextEpoch
<1>4. b.epoch + 1 \in Nat /\ "connecting" \in Status /\ "none" \in Pending
  BY DEF Tabs, Status, Pending
<1>5. PICK n \in Tabs : n = NextEpoch(s)
  BY <1>3, <1>4, NextEpochType
<1>6. /\ n.epoch = b.epoch + 1 /\ n.status = "connecting"
      /\ n.pending = "none" /\ ~n.hiddenClosed
  BY <1>3, <1>5 DEF Tabs
<1>7. /\ n.conn = b.conn /\ n.hello = b.hello /\ n.helloTimer = b.helloTimer
      /\ n.measuring = b.measuring /\ n.reconnect = b.reconnect
  BY <1>3, <1>5 DEF Tabs
<1>8. /\ n.hidden = b.hidden /\ n.online = b.online
      /\ n.page = b.page /\ n.terminal = b.terminal
      /\ n.manual = b.manual /\ n.payloadRetry = b.payloadRetry
  BY <1>3, <1>5 DEF Tabs
<1> QED
  BY <1>2, <1>5, <1>6, <1>7, <1>8 DEF Bare

\* A bare page that may connect waits for its reconnect timer.
LEMMA ScheduleSettles ==
    ASSUME NEW s \in Tabs, Bare(s), CanOpen(s), s.epoch # 0
    PROVE  LET r == ScheduleReconnect(s)
           IN  Settled(r) /\ r.payloadRetry = s.payloadRetry /\ r.manual = s.manual
<1>1. PICK r \in Tabs : r = ScheduleReconnect(s)
  BY DEF ScheduleReconnect, Tabs, Status
<1>2. r.status = "reconnecting" /\ r.reconnect = s.epoch
  BY <1>1 DEF ScheduleReconnect, Tabs
<1>3. /\ r.epoch = s.epoch /\ r.conn = s.conn /\ r.hello = s.hello
      /\ r.helloTimer = s.helloTimer /\ r.measuring = s.measuring
  BY <1>1 DEF ScheduleReconnect, Tabs
<1>4. /\ r.manual = s.manual /\ r.page = s.page /\ r.pending = s.pending
      /\ r.payloadRetry = s.payloadRetry
  BY <1>1 DEF ScheduleReconnect, Tabs
<1> QED BY <1>1, <1>2, <1>3, <1>4 DEF Settled, Sound, Bare, CanOpen

\* Opening a socket on a page that may open one settles it, whether or not the
\* browser can create the socket.
LEMMA OpenSettles ==
    ASSUME NEW s \in Tabs, NEW ok \in BOOLEAN, CanOpen(s)
    PROVE  LET r == OpenSocket(s, ok)
           IN  Settled(r) /\ r.payloadRetry = s.payloadRetry /\ r.manual = s.manual
<1>1. PICK n \in Tabs : n = NextEpoch(s)
  BY NextEpochBare
<1>2. /\ Bare(n) /\ n.reconnect = 0 /\ n.pending = "none" /\ ~n.hiddenClosed
      /\ n.epoch \in Nat \ {0} /\ n.status = "connecting" /\ CanOpen(n)
      /\ n.payloadRetry = s.payloadRetry /\ n.manual = s.manual
  BY <1>1, NextEpochBare DEF CanOpen, Tabs
<1>3. CASE ok
  <2>1. PICK r \in Tabs : r = [n EXCEPT !.conn = n.epoch, !.helloTimer = TRUE]
    BY DEF Tabs
  <2>2. OpenSocket(s, ok) = r
    BY <1>1, <1>3, <2>1 DEF OpenSocket
  <2>3. /\ r.conn = n.epoch /\ r.helloTimer
        /\ r.epoch = n.epoch /\ r.hello = n.hello /\ r.measuring = n.measuring
        /\ r.reconnect = n.reconnect /\ r.pending = n.pending
        /\ r.hiddenClosed = n.hiddenClosed /\ r.status = n.status
    BY <2>1 DEF Tabs
  <2>4. /\ r.hidden = n.hidden /\ r.online = n.online /\ r.page = n.page
        /\ r.terminal = n.terminal /\ r.manual = n.manual
        /\ r.payloadRetry = n.payloadRetry
    BY <2>1 DEF Tabs
  <2> QED BY <1>2, <2>2, <2>3, <2>4 DEF Settled, Sound, Bare, CanOpen
<1>4. CASE ~ok
  <2>1. PICK h \in Tabs : h = [n EXCEPT !.healthy = FALSE]
    BY DEF Tabs
  <2>2. OpenSocket(s, ok) = ScheduleReconnect(h)
    BY <1>1, <1>4, <2>1 DEF OpenSocket
  <2>3. /\ h.epoch = n.epoch /\ h.conn = n.conn /\ h.hello = n.hello
        /\ h.helloTimer = n.helloTimer /\ h.measuring = n.measuring
        /\ h.payloadRetry = n.payloadRetry
    BY <2>1 DEF Tabs
  <2>4. /\ h.hidden = n.hidden /\ h.online = n.online /\ h.page = n.page
        /\ h.terminal = n.terminal /\ h.manual = n.manual
    BY <2>1 DEF Tabs
  <2>5. Bare(h) /\ CanOpen(h) /\ h.epoch # 0
    BY <1>2, <2>3, <2>4 DEF Bare, CanOpen
  <2> QED BY <1>2, <2>2, <2>3, <2>4, <2>5, ScheduleSettles
<1> QED BY <1>3, <1>4

\* connect() settles any page between two events but for its being stranded.
LEMMA ConnectSettles ==
    ASSUME NEW s \in Tabs, NEW ok \in BOOLEAN, Sound(s)
    PROVE  LET r == Connect(s, ok)
           IN  Settled(r) /\ r.payloadRetry = s.payloadRetry /\ r.manual = s.manual
<1>1. CASE ~CanOpen(s)
  BY <1>1 DEF Connect, Settled
<1>2. CASE CanOpen(s) /\ s.pending = "waiting"
  <2>1. Bare(s) /\ s.epoch # 0
    BY <1>2 DEF Sound, Bare
  <2> QED BY <1>2, <2>1, ScheduleSettles DEF Connect
<1>3. CASE CanOpen(s) /\ s.pending # "waiting"
  BY <1>3, OpenSettles DEF Connect
<1> QED BY <1>1, <1>2, <1>3

\* A page that has just given its connection up.
Lost(s) ==
    /\ Bare(s) /\ s.reconnect = 0 /\ s.epoch # 0 /\ s.page # "disposed"
    /\ s.online /\ ~s.terminal /\ ~s.manual /\ s.pending = "none"

\* What a close writes besides is well typed.
LEMMA ClosedType ==
    ASSUME NEW s \in Tabs, NEW st \in Status, NEW p \in Pending, NEW flag \in BOOLEAN
    PROVE  /\ [s EXCEPT !.pending = p, !.hiddenClosed = flag, !.status = st] \in Tabs
           /\ [s EXCEPT !.manual = TRUE, !.status = st, !.pending = p] \in Tabs
           /\ [s EXCEPT !.status = st, !.terminal = TRUE, !.pending = p] \in Tabs
           /\ [s EXCEPT !.status = st, !.hiddenClosed = flag] \in Tabs
BY DEF Tabs, Pending

\* The names of states that a close uses.
LEMMA Names ==
    /\ {"idle", "offline", "reconnecting", "terminal"} \subseteq Status \ {"live", "connecting"}
    /\ "none" \in Pending /\ "waiting" \in Pending
BY DEF Status, Pending

\* A deferred retry waits for its timer, or for the page to be shown.
LEMMA DeferSettles ==
    ASSUME NEW s \in Tabs, Lost(s)
    PROVE  LET r == DeferRetry(s)
           IN  Settled(r) /\ r.payloadRetry = s.payloadRetry /\ r.manual = s.manual
<1>1. PICK st \in Status : st = (IF s.online THEN "idle" ELSE "offline")
  BY Names
<1>2. s.hidden \in BOOLEAN
  BY DEF Tabs
<1>3. PICK d \in Tabs : d = [s EXCEPT !.pending = "waiting", !.hiddenClosed = s.hidden, !.status = st]
  BY <1>2, ClosedType, Names
<1>4. DeferRetry(s) = IF CanOpen(d) THEN ScheduleReconnect(d) ELSE d
  BY <1>1, <1>3 DEF DeferRetry
<1>5. /\ d.pending = "waiting" /\ d.status = st
      /\ d.epoch = s.epoch /\ d.conn = s.conn /\ d.hello = s.hello
      /\ d.helloTimer = s.helloTimer /\ d.measuring = s.measuring
      /\ d.reconnect = s.reconnect /\ d.payloadRetry = s.payloadRetry
      /\ d.manual = s.manual
  BY <1>3 DEF Tabs
<1>6. Bare(d) /\ d.epoch # 0 /\ d.reconnect = 0 /\ d.status \notin {"live", "connecting"}
  BY <1>1, <1>5, Names DEF Lost, Bare
<1>7. CASE CanOpen(d)
  BY <1>4, <1>5, <1>6, <1>7, ScheduleSettles
<1>8. CASE ~CanOpen(d)
  BY <1>4, <1>5, <1>6, <1>8 DEF Settled, Sound, Bare
<1> QED BY <1>7, <1>8

\* 4009 uses the automatic retry up, or asks for a manual one.
LEMMA PayloadSettles ==
    ASSUME NEW s \in Tabs, Lost(s)
    PROVE  LET r == PayloadTooLarge(s)
           IN  Settled(r) /\ ~r.payloadRetry /\ (~s.payloadRetry => r.manual)
<1>1. CASE s.payloadRetry
  <2>1. PICK d \in Tabs : d = [s EXCEPT !.payloadRetry = FALSE]
    BY DEF Tabs
  <2>2. /\ ~d.payloadRetry /\ d.epoch = s.epoch /\ d.conn = s.conn /\ d.hello = s.hello
        /\ d.helloTimer = s.helloTimer /\ d.measuring = s.measuring
        /\ d.reconnect = s.reconnect /\ d.page = s.page /\ d.online = s.online
        /\ d.terminal = s.terminal /\ d.manual = s.manual /\ d.pending = s.pending
    BY <2>1 DEF Tabs
  <2>3. Lost(d)
    BY <2>2 DEF Lost, Bare
  <2> QED BY <1>1, <2>1, <2>2, <2>3, DeferSettles DEF PayloadTooLarge
<1>2. CASE ~s.payloadRetry
  <2>1. PICK d \in Tabs : d = [s EXCEPT !.manual = TRUE, !.status = "idle", !.pending = "none"]
    BY ClosedType, Names DEF Status
  <2>2. /\ d.manual /\ d.status = "idle" /\ d.pending = "none"
        /\ d.epoch = s.epoch /\ d.conn = s.conn /\ d.hello = s.hello
        /\ d.helloTimer = s.helloTimer /\ d.measuring = s.measuring
        /\ d.reconnect = s.reconnect /\ d.payloadRetry = s.payloadRetry
    BY <2>1 DEF Tabs
  <2> QED BY <1>2, <2>1, <2>2 DEF PayloadTooLarge, Settled, Sound, CanOpen, Lost, Bare
<1> QED BY <1>1, <1>2

\* Whatever the code, a close leaves a page that is not stranded; only 4009
\* uses the automatic retry up, and the second time asks for a manual one.
LEMMA CloseSettles ==
    ASSUME NEW s \in Tabs, Lost(s), ~s.hiddenClosed, NEW code \in Codes, NEW ok \in BOOLEAN
    PROVE  LET r == SocketClosed(s, code, ok)
           IN  /\ Settled(r)
               /\ code # 4009 => r.payloadRetry = s.payloadRetry
               /\ code = 4009 => ~r.payloadRetry /\ (~s.payloadRetry => r.manual)
<1>1. PICK t \in Tabs : t = [s EXCEPT !.healthy = FALSE]
  BY DEF Tabs
<1>2. /\ t.epoch = s.epoch /\ t.conn = s.conn /\ t.hello = s.hello
      /\ t.helloTimer = s.helloTimer /\ t.measuring = s.measuring
      /\ t.reconnect = s.reconnect /\ t.page = s.page /\ t.online = s.online
      /\ t.terminal = s.terminal /\ t.manual = s.manual /\ t.pending = s.pending
      /\ t.payloadRetry = s.payloadRetry
  BY <1>1 DEF Tabs
<1>3. Lost(t)
  BY <1>2 DEF Lost, Bare
<1>4. CASE code = 4002
  <2>1. PICK d \in Tabs : d = [t EXCEPT !.status = "terminal", !.terminal = TRUE, !.pending = "none"]
    BY ClosedType, Names
  <2>2. SocketClosed(s, code, ok) = d
    BY <1>1, <1>4, <2>1 DEF SocketClosed
  <2>3. /\ d.status = "terminal" /\ d.terminal /\ d.pending = "none"
        /\ d.epoch = t.epoch /\ d.conn = t.conn /\ d.hello = t.hello
        /\ d.helloTimer = t.helloTimer /\ d.measuring = t.measuring
        /\ d.reconnect = t.reconnect /\ d.payloadRetry = t.payloadRetry
    BY <2>1 DEF Tabs
  <2> QED BY <1>2, <1>3, <1>4, <2>2, <2>3 DEF Settled, Sound, CanOpen, Lost, Bare
<1>5. CASE code = 4009
  <2>1. SocketClosed(s, code, ok) = PayloadTooLarge(t)
    BY <1>1, <1>5 DEF SocketClosed
  <2> QED BY <1>2, <1>3, <1>5, <2>1, PayloadSettles
<1>6. CASE code = 4008
  <2>1. SocketClosed(s, code, ok) = DeferRetry(t)
    BY <1>1, <1>6 DEF SocketClosed
  <2> QED BY <1>2, <1>3, <1>6, <2>1, DeferSettles
<1>7. CASE code \in {1006, 4001} /\ ~Visible(t)
  <2>1. PICK st \in Status : st = (IF t.online THEN "idle" ELSE "offline")
    BY Names
  <2>2. PICK flag \in BOOLEAN : flag = (t.hidden \/ t.hiddenClosed)
    OBVIOUS
  <2>3. PICK d \in Tabs : d = [t EXCEPT !.status = st, !.hiddenClosed = flag]
    BY ClosedType, Names
  <2>4. SocketClosed(s, code, ok) = d
    BY <1>1, <1>7, <2>1, <2>2, <2>3 DEF SocketClosed
  <2>5. /\ d.status = st /\ d.epoch = t.epoch /\ d.conn = t.conn /\ d.hello = t.hello
        /\ d.helloTimer = t.helloTimer /\ d.measuring = t.measuring
        /\ d.reconnect = t.reconnect /\ d.payloadRetry = t.payloadRetry
        /\ d.pending = t.pending /\ d.hidden = t.hidden /\ d.online = t.online
    BY <2>3 DEF Tabs
  <2>6. st \notin {"live", "connecting"}
    BY <2>1, Names
  <2> QED BY <1>2, <1>3, <1>7, <2>4, <2>5, <2>6 DEF Settled, Sound, CanOpen, Visible, Lost, Bare
<1>8. CASE code = 4001 /\ Visible(t)
  <2>1. SocketClosed(s, code, ok) = OpenSocket(t, ok)
    BY <1>1, <1>3, <1>8 DEF SocketClosed, Connect, Lost, CanOpen, Visible
  <2> QED BY <1>2, <1>3, <1>8, <2>1, OpenSettles DEF Lost, CanOpen, Visible
<1>9. CASE code = 1006 /\ Visible(t)
  <2>1. SocketClosed(s, code, ok) = ScheduleReconnect(t)
    BY <1>1, <1>9 DEF SocketClosed
  <2> QED BY <1>2, <1>3, <1>9, <2>1, ScheduleSettles DEF Lost, CanOpen, Visible
<1> QED BY <1>4, <1>5, <1>6, <1>7, <1>8, <1>9 DEF Codes

\* The same for a page that still has the connection.
LEMMA DisconnectSettles ==
    ASSUME NEW s \in Tabs, Settled(s), s.conn # 0, NEW code \in Codes, NEW ok \in BOOLEAN
    PROVE  LET r == Disconnected(s, code, ok)
           IN  /\ Settled(r)
               /\ code # 4009 => r.payloadRetry = s.payloadRetry
               /\ code = 4009 => ~r.payloadRetry /\ (~s.payloadRetry => r.manual)
<1>1. PICK b \in Tabs : b = RetireSocket(StopConnectionWork(s))
  BY Retired
<1>2. Lost(b) /\ ~b.hiddenClosed /\ b.payloadRetry = s.payloadRetry
  BY <1>1, Retired DEF Lost, Settled, Sound
<1> QED BY <1>1, <1>2, CloseSettles DEF Disconnected

-----------------------------------------------------------------------------
(* The initial states, and one lemma for each group of events. *)

\* A page starts with a connection, or hidden or offline.
LEMMA InitSettles == Init => LInv
<1> SUFFICES ASSUME Init PROVE LInv
  OBVIOUS
<1>1. PICK hidden \in BOOLEAN, online \in BOOLEAN : tab = Connect(NewTab(hidden, online), TRUE)
  BY DEF Init
<1> DEFINE new == NewTab(hidden, online)
<1>2. new \in Tabs /\ new.epoch = 0 /\ new.pending = "none"
  BY DEF NewTab, Tabs, Status
<1>3. Sound(new)
  BY <1>2 DEF Sound, NewTab
<1>4. tab = Connect(new, TRUE)
  BY <1>1
<1> HIDE DEF new
<1>5. Settled(tab)
  BY <1>2, <1>3, <1>4, ConnectSettles
<1>6. tab.epoch <= MaxEpoch
  <2>1. CASE CanOpen(new)
    <3>1. Connect(new, TRUE) = OpenSocket(new, TRUE)
      BY <1>2, <2>1 DEF Connect
    <3>2. PICK n \in Tabs : n = NextEpoch(new) /\ n.epoch = 1
      BY <1>2, NextEpochBare
    <3>3. tab = [n EXCEPT !.conn = n.epoch, !.helloTimer = TRUE]
      BY <1>4, <3>1, <3>2 DEF OpenSocket
    <3>4. tab.epoch = 1
      BY <3>2, <3>3 DEF Tabs
    <3> QED BY <3>4, EpochAssumption
  <2>2. CASE ~CanOpen(new)
    BY <1>2, <1>4, <2>2, EpochAssumption DEF Connect
  <2> QED BY <2>1, <2>2
<1>7. oversized = 0
  BY DEF Init
<1> QED BY <1>5, <1>6, <1>7 DEF LInv

\* Events that leave the connection as it is.
LEMMA HideStep == LInv /\ Hide => LInv'
<1> SUFFICES ASSUME LInv, Hide PROVE LInv'
  OBVIOUS
<1>1. tab \in Tabs
  BY DEF LInv, Settled, Sound
<1>2. PICK r \in Tabs : r = [tab EXCEPT !.hidden = TRUE, !.healthy = FALSE,
                                       !.measuring = FALSE, !.helloTimer = FALSE]
  BY <1>1 DEF Tabs
<1>3. tab' = r /\ r.epoch <= MaxEpoch /\ UNCHANGED oversized
  BY <1>2 DEF Hide, Step
<1>4. /\ r.hidden /\ ~r.measuring /\ ~r.helloTimer
      /\ r.epoch = tab.epoch /\ r.conn = tab.conn /\ r.reconnect = tab.reconnect
      /\ r.online = tab.online /\ r.terminal = tab.terminal /\ r.manual = tab.manual
      /\ r.pending = tab.pending /\ r.hiddenClosed = tab.hiddenClosed
      /\ r.status = tab.status /\ r.hello = tab.hello /\ r.page = tab.page
      /\ r.payloadRetry = tab.payloadRetry
  BY <1>1, <1>2 DEF Tabs
<1>5. Settled(r)
  BY <1>4 DEF LInv, Settled, Sound, CanOpen
<1> QED BY <1>3, <1>4, <1>5 DEF LInv

\* What the invariant depends on.
SameLife(r, s) ==
    /\ r.measuring = s.measuring /\ r.helloTimer = s.helloTimer
    /\ r.epoch = s.epoch /\ r.conn = s.conn /\ r.reconnect = s.reconnect
    /\ r.online = s.online /\ r.terminal = s.terminal /\ r.manual = s.manual
    /\ r.pending = s.pending /\ r.hiddenClosed = s.hiddenClosed
    /\ r.status = s.status /\ r.hello = s.hello /\ r.page = s.page
    /\ r.hidden = s.hidden

\* A page that is the same in these stays settled.
LEMMA SameLifeSettles ==
    ASSUME NEW s \in Tabs, NEW r \in Tabs, Settled(s), SameLife(r, s)
    PROVE  Settled(r)
BY DEF SameLife, Settled, Sound, CanOpen

\* The page does not notice that its link dies.
LEMMA LinkStep == LInv /\ LinkDies => LInv'
<1> SUFFICES ASSUME LInv, LinkDies PROVE LInv'
  OBVIOUS
<1>1. tab \in Tabs /\ Settled(tab)
  BY DEF LInv, Settled, Sound
<1>2. PICK r \in Tabs : r = [tab EXCEPT !.dead = TRUE]
  BY <1>1 DEF Tabs
<1>3. SameLife(r, tab) /\ r.payloadRetry = tab.payloadRetry
  BY <1>1, <1>2 DEF Tabs, SameLife
<1>4. tab' = r /\ UNCHANGED oversized
  BY <1>2 DEF LinkDies, Step
<1> QED BY <1>1, <1>3, <1>4, SameLifeSettles DEF LInv, SameLife

\* Half a minute of health gives the automatic retry back.
LEMMA PublishStep ==
    ASSUME LInv, NEW message \in BOOLEAN, NEW eligible \in BOOLEAN, NEW elapsed \in BOOLEAN,
           Publish(message, eligible, elapsed)
    PROVE  LInv'
<1>1. tab \in Tabs /\ Settled(tab) /\ oversized \in 0 .. 2
  BY DEF LInv, Settled, Sound
<1>2. PICK v \in BOOLEAN : v = (tab.payloadRetry \/ elapsed)
  OBVIOUS
<1>3. PICK h \in BOOLEAN : h = (eligible /\ ~elapsed)
  OBVIOUS
<1> PICK e \in BOOLEAN : e = (tab.heard \/ message)
  OBVIOUS
<1>4. PICK r \in Tabs : r = [tab EXCEPT !.heard = e, !.healthy = h, !.payloadRetry = v]
  BY <1>1, ZenonT(40) DEF Tabs
<1>5. SameLife(r, tab) /\ r.payloadRetry = v
  BY <1>1, <1>4 DEF Tabs, SameLife
<1>6. tab' = r /\ oversized' = IF elapsed THEN 0 ELSE oversized
  BY <1>2, <1>3, <1>4 DEF Publish, Step
<1>7. Settled(r)
  BY <1>1, <1>5, SameLifeSettles
<1>8. tab.epoch <= MaxEpoch /\ (oversized > 0 => ~tab.payloadRetry) /\ (oversized = 2 => tab.manual)
  BY DEF LInv
<1>9. CASE elapsed
  BY <1>5, <1>6, <1>7, <1>8, <1>9 DEF LInv, SameLife
<1>10. CASE ~elapsed
  BY <1>1, <1>2, <1>5, <1>6, <1>7, <1>8, <1>10 DEF LInv, SameLife
<1> QED BY <1>9, <1>10

\* The deadline of a deferred retry only exists without a connection.
LEMMA DeadlineStep == LInv /\ DeadlinePasses => LInv'
<1> SUFFICES ASSUME LInv, DeadlinePasses PROVE LInv'
  OBVIOUS
<1>1. tab \in Tabs /\ Settled(tab)
  BY DEF LInv, Settled, Sound
<1>2. PICK r \in Tabs : r = [tab EXCEPT !.pending = "due"]
  BY <1>1 DEF Tabs
<1>3. /\ r.measuring = tab.measuring /\ r.helloTimer = tab.helloTimer
      /\ r.epoch = tab.epoch /\ r.conn = tab.conn /\ r.reconnect = tab.reconnect
      /\ r.online = tab.online /\ r.terminal = tab.terminal /\ r.manual = tab.manual
      /\ r.pending = "due" /\ r.hiddenClosed = tab.hiddenClosed
      /\ r.status = tab.status /\ r.hello = tab.hello /\ r.page = tab.page
      /\ r.hidden = tab.hidden /\ r.payloadRetry = tab.payloadRetry
  BY <1>1, <1>2 DEF Tabs
<1>4. tab' = r /\ UNCHANGED oversized /\ tab.pending = "waiting"
  BY <1>2 DEF DeadlinePasses
<1>5. Settled(r)
  BY <1>1, <1>3, <1>4 DEF Settled, Sound, CanOpen
<1> QED BY <1>3, <1>4, <1>5 DEF LInv

\* What a hello changes is well typed.
LEMMA HelloType ==
    ASSUME NEW t \in Tabs, NEW st \in Status, NEW v \in BOOLEAN
    PROVE  [t EXCEPT !.hello = TRUE, !.helloTimer = FALSE, !.status = st,
                     !.hiddenClosed = FALSE, !.heard = v, !.measuring = v] \in Tabs
BY DEF Tabs

\* A hello makes a connection live and swaps its timers.
LEMMA HelloStep == LInv /\ ReceiveHello => LInv'
<1> SUFFICES ASSUME LInv, ReceiveHello PROVE LInv'
  OBVIOUS
<1>1. tab \in Tabs /\ Settled(tab)
  BY DEF LInv, Settled, Sound
<1>2. PICK visible \in BOOLEAN, st \in Status : visible = ~tab.hidden /\ st = "live"
  BY DEF Status
<1>3. PICK r \in Tabs : r = [tab EXCEPT !.hello = TRUE, !.helloTimer = FALSE, !.status = st,
                !.hiddenClosed = FALSE, !.heard = visible, !.measuring = visible]
  BY <1>1, HelloType
<1>4. /\ r.hello /\ ~r.helloTimer /\ r.status = "live" /\ ~r.hiddenClosed
      /\ r.measuring = ~tab.hidden
      /\ r.epoch = tab.epoch /\ r.conn = tab.conn /\ r.reconnect = tab.reconnect
      /\ r.online = tab.online /\ r.terminal = tab.terminal /\ r.manual = tab.manual
      /\ r.pending = tab.pending /\ r.page = tab.page
      /\ r.hidden = tab.hidden /\ r.payloadRetry = tab.payloadRetry
  BY <1>1, <1>2, <1>3 DEF Tabs
<1>5. tab' = r /\ UNCHANGED oversized /\ tab.conn # 0
  BY <1>2, <1>3 DEF ReceiveHello, Step, Live
<1>6. Settled(r)
  BY <1>1, <1>4, <1>5 DEF Settled, Sound, CanOpen
<1> QED BY <1>4, <1>5, <1>6 DEF LInv

\* A step that settles the page and keeps its part in the 4009 count.
LEMMA KeepsCount ==
    ASSUME LInv, NEW r, Settled(r), Step(r), UNCHANGED oversized,
           r.payloadRetry = tab.payloadRetry, r.manual = tab.manual
    PROVE  LInv'
BY DEF LInv, Step

\* Closes: by the server or the network, by the hello timer, by silence.
LEMMA CloseStep == ASSUME LInv, NEW code \in Codes, Close(code) PROVE LInv'
<1>1. tab \in Tabs /\ Settled(tab) /\ oversized \in 0 .. 2 /\ (oversized > 0 => ~tab.payloadRetry)
  BY DEF LInv, Settled, Sound
<1>2. PICK ok \in BOOLEAN : Step(Disconnected(tab, code, ok))
  BY DEF Close
<1>3. tab.conn # 0 /\ ~tab.manual
  BY DEF Close, LInv, Settled, Sound
<1>4. PICK r : r = Disconnected(tab, code, ok)
  OBVIOUS
<1>5. /\ Settled(r)
      /\ code # 4009 => r.payloadRetry = tab.payloadRetry
      /\ code = 4009 => ~r.payloadRetry /\ (~tab.payloadRetry => r.manual)
  BY <1>1, <1>3, <1>4, DisconnectSettles
<1>6. tab' = r /\ r.epoch <= MaxEpoch
  BY <1>2, <1>4 DEF Step
<1>7. oversized' = IF code = 4009 /\ oversized < 2 THEN oversized + 1 ELSE oversized
  BY DEF Close
<1>8. oversized # 2
  BY <1>3 DEF LInv
<1>9. CASE code = 4009
  <2>1. oversized' = oversized + 1 /\ oversized' \in 1 .. 2
    BY <1>1, <1>7, <1>8, <1>9
  <2>2. oversized' = 2 => r.manual
    BY <1>1, <1>5, <1>9, <2>1
  <2> QED BY <1>5, <1>6, <1>9, <2>1, <2>2 DEF LInv
<1>10. CASE code # 4009
  BY <1>1, <1>5, <1>6, <1>7, <1>8, <1>10 DEF LInv
<1> QED BY <1>9, <1>10

\* The runtime gives the connection up: no hello in time, or silence.
LEMMA GiveUpStep == LInv /\ (HelloTimeout \/ Silence) => LInv'
<1> SUFFICES ASSUME LInv, HelloTimeout \/ Silence PROVE LInv'
  OBVIOUS
<1>1. tab \in Tabs /\ Settled(tab)
  BY DEF LInv, Settled, Sound
<1>2. tab.conn # 0 /\ ~tab.manual
  BY <1>1 DEF HelloTimeout, Silence, Settled, Sound
<1>3. PICK ok \in BOOLEAN : Step(Disconnected(tab, 1006, ok)) /\ UNCHANGED oversized
  BY DEF HelloTimeout, HelloOverdue, Silence
<1>4. 1006 \in Codes /\ 1006 # 4009
  BY DEF Codes
<1>5. PICK r : r = Disconnected(tab, 1006, ok)
  OBVIOUS
<1>6. Settled(r) /\ r.payloadRetry = tab.payloadRetry
  BY <1>1, <1>2, <1>4, <1>5, DisconnectSettles
<1>7. tab' = r /\ r.epoch <= MaxEpoch
  BY <1>3, <1>5 DEF Step
<1>8. oversized # 2
  BY <1>2 DEF LInv
<1> QED BY <1>3, <1>6, <1>7, <1>8 DEF LInv

\* The browser closes the connection: offline, pagehide, disposal.
LEMMA BrowserStep == LInv /\ (GoOffline \/ PageHide \/ Dispose) => LInv'
<1> SUFFICES ASSUME LInv, GoOffline \/ PageHide \/ Dispose PROVE LInv'
  OBVIOUS
<1>1. tab \in Tabs /\ Settled(tab) /\ tab.epoch <= MaxEpoch
  BY DEF LInv, Settled, Sound
<1>2. PICK b \in Tabs : b = RetireSocket(StopConnectionWork(tab))
  BY <1>1, Retired
<1>3. /\ Bare(b) /\ b.reconnect = 0 /\ b.epoch = tab.epoch
      /\ b.manual = tab.manual /\ b.payloadRetry = tab.payloadRetry /\ b.pending = tab.pending
  BY <1>1, <1>2, Retired
<1>4. PICK st1 \in Status, st2 \in Status, st3 \in Status :
        st1 = "offline" /\ st2 = "idle" /\ st3 = "terminal"
  BY DEF Status
<1>5. CASE GoOffline
  <2>1. PICK r \in Tabs : r = [b EXCEPT !.online = FALSE, !.healthy = FALSE, !.status = st1]
    BY DEF Tabs
  <2>2. tab' = r /\ UNCHANGED oversized
    BY <1>2, <1>4, <1>5, <2>1 DEF GoOffline, Step, CloseForBrowser
  <2>3. /\ ~r.online /\ r.status = "offline"
        /\ r.conn = b.conn /\ r.hello = b.hello /\ r.helloTimer = b.helloTimer
        /\ r.measuring = b.measuring /\ r.reconnect = b.reconnect /\ r.epoch = b.epoch
        /\ r.manual = b.manual /\ r.payloadRetry = b.payloadRetry /\ r.pending = b.pending
    BY <1>4, <2>1 DEF Tabs
  <2>4. Settled(r)
    BY <1>1, <1>3, <2>3 DEF Settled, Sound, CanOpen, Bare
  <2> QED BY <1>1, <1>3, <2>2, <2>3, <2>4 DEF LInv
<1>6. CASE PageHide
  <2>1. PICK r \in Tabs : r = [b EXCEPT !.page = "gone", !.healthy = FALSE, !.status = st2]
    BY DEF Tabs
  <2>2. tab' = r /\ UNCHANGED oversized
    BY <1>2, <1>4, <1>6, <2>1 DEF PageHide, Step, CloseForBrowser
  <2>3. /\ r.page = "gone" /\ r.status = "idle"
        /\ r.conn = b.conn /\ r.hello = b.hello /\ r.helloTimer = b.helloTimer
        /\ r.measuring = b.measuring /\ r.reconnect = b.reconnect /\ r.epoch = b.epoch
        /\ r.manual = b.manual /\ r.payloadRetry = b.payloadRetry /\ r.pending = b.pending
    BY <1>4, <2>1 DEF Tabs
  <2>4. Settled(r)
    BY <1>1, <1>3, <2>3 DEF Settled, Sound, CanOpen, Bare
  <2> QED BY <1>1, <1>3, <2>2, <2>3, <2>4 DEF LInv
<1>7. CASE Dispose
  <2>1. PICK r \in Tabs : r = [b EXCEPT !.page = "disposed", !.status = st3, !.healthy = FALSE]
    BY DEF Tabs
  <2>2. tab' = r /\ UNCHANGED oversized
    BY <1>2, <1>4, <1>7, <2>1 DEF Dispose
  <2>3. /\ r.page = "disposed" /\ r.status = "terminal"
        /\ r.conn = b.conn /\ r.hello = b.hello /\ r.helloTimer = b.helloTimer
        /\ r.measuring = b.measuring /\ r.reconnect = b.reconnect /\ r.epoch = b.epoch
        /\ r.manual = b.manual /\ r.payloadRetry = b.payloadRetry /\ r.pending = b.pending
    BY <1>4, <2>1 DEF Tabs
  <2>4. Settled(r)
    BY <1>1, <1>3, <2>3 DEF Settled, Sound, CanOpen, Bare
  <2> QED BY <1>1, <1>3, <2>2, <2>3, <2>4 DEF LInv
<1> QED BY <1>5, <1>6, <1>7

\* Events that connect: online, pageshow, the reconnect timer.
LEMMA ConnectStep == LInv /\ (GoOnline \/ PageShow \/ ReconnectFires) => LInv'
<1> SUFFICES ASSUME LInv, GoOnline \/ PageShow \/ ReconnectFires PROVE LInv'
  OBVIOUS
<1>1. tab \in Tabs /\ Settled(tab) /\ Sound(tab)
  BY DEF LInv, Settled, Sound
<1>2. UNCHANGED oversized
  BY DEF GoOnline, PageShow, ReconnectFires
<1>3. CASE GoOnline
  <2>1. PICK ok \in BOOLEAN : Step(Connect([tab EXCEPT !.online = TRUE, !.healthy = FALSE], ok))
    BY <1>3 DEF GoOnline
  <2>2. PICK s \in Tabs : s = [tab EXCEPT !.online = TRUE, !.healthy = FALSE]
    BY <1>1 DEF Tabs
  <2>3. /\ s.measuring = tab.measuring /\ s.helloTimer = tab.helloTimer
        /\ s.epoch = tab.epoch /\ s.conn = tab.conn /\ s.reconnect = tab.reconnect
        /\ s.terminal = tab.terminal /\ s.manual = tab.manual
        /\ s.pending = tab.pending /\ s.hiddenClosed = tab.hiddenClosed
        /\ s.status = tab.status /\ s.hello = tab.hello /\ s.page = tab.page
        /\ s.hidden = tab.hidden /\ s.payloadRetry = tab.payloadRetry /\ s.online
    BY <1>1, <2>2 DEF Tabs
  <2>4. Sound(s)
    BY <1>1, <2>3 DEF Sound
  <2> QED BY <1>2, <2>1, <2>2, <2>3, <2>4, ConnectSettles, KeepsCount
<1>4. CASE PageShow
  <2>1. PICK ok \in BOOLEAN : Step(Connect([tab EXCEPT !.page = "shown"], ok))
    BY <1>4 DEF PageShow
  <2>2. PICK s \in Tabs : s = [tab EXCEPT !.page = "shown"]
    BY <1>1 DEF Tabs
  <2>3. /\ s.measuring = tab.measuring /\ s.helloTimer = tab.helloTimer
        /\ s.epoch = tab.epoch /\ s.conn = tab.conn /\ s.reconnect = tab.reconnect
        /\ s.terminal = tab.terminal /\ s.manual = tab.manual
        /\ s.pending = tab.pending /\ s.hiddenClosed = tab.hiddenClosed
        /\ s.status = tab.status /\ s.hello = tab.hello /\ s.page = "shown"
        /\ s.hidden = tab.hidden /\ s.payloadRetry = tab.payloadRetry /\ s.online = tab.online
    BY <1>1, <2>2 DEF Tabs
  <2>4. Sound(s)
    BY <1>1, <2>3 DEF Sound
  <2> QED BY <1>2, <2>1, <2>2, <2>3, <2>4, ConnectSettles, KeepsCount
<1>5. CASE ReconnectFires
  <2>1. PICK ok \in BOOLEAN : Step(Connect([tab EXCEPT !.reconnect = 0], ok))
    BY <1>1, <1>5 DEF ReconnectFires, Sound
  <2>2. PICK s \in Tabs : s = [tab EXCEPT !.reconnect = 0]
    BY <1>1 DEF Tabs
  <2>3. /\ s.measuring = tab.measuring /\ s.helloTimer = tab.helloTimer
        /\ s.epoch = tab.epoch /\ s.conn = tab.conn /\ s.reconnect = 0
        /\ s.terminal = tab.terminal /\ s.manual = tab.manual
        /\ s.pending = tab.pending /\ s.hiddenClosed = tab.hiddenClosed
        /\ s.status = tab.status /\ s.hello = tab.hello /\ s.page = tab.page
        /\ s.hidden = tab.hidden /\ s.payloadRetry = tab.payloadRetry /\ s.online = tab.online
    BY <1>1, <2>2 DEF Tabs
  <2>4. Sound(s)
    BY <1>1, <2>3 DEF Sound
  <2> QED BY <1>2, <2>1, <2>2, <2>3, <2>4, ConnectSettles, KeepsCount
<1> QED BY <1>3, <1>4, <1>5

\* The Retry control.
LEMMA RetryStep == LInv /\ Retry => LInv'
<1> SUFFICES ASSUME LInv, Retry PROVE LInv'
  OBVIOUS
<1>1. tab \in Tabs /\ Settled(tab) /\ Sound(tab)
  BY DEF LInv, Settled, Sound
<1>2. PICK ok \in BOOLEAN :
        CASE Active(tab) -> Step([tab EXCEPT !.healthy = FALSE]) /\ UNCHANGED oversized
          [] ~Active(tab) /\ tab.manual ->
               /\ Step(OpenSocket([tab EXCEPT !.manual = FALSE, !.payloadRetry = TRUE], ok))
               /\ oversized' = 0
          [] OTHER -> Step(Connect(tab, ok)) /\ UNCHANGED oversized
  BY DEF Retry
<1>3. CASE Active(tab)
  <2>1. PICK r \in Tabs : r = [tab EXCEPT !.healthy = FALSE]
    BY <1>1 DEF Tabs
  <2>2. SameLife(r, tab) /\ r.payloadRetry = tab.payloadRetry
    BY <1>1, <2>1 DEF Tabs, SameLife
  <2>3. Step(r) /\ UNCHANGED oversized
    BY <1>2, <1>3, <2>1
  <2> QED BY <1>1, <2>2, <2>3, SameLifeSettles, KeepsCount DEF SameLife
<1>4. CASE ~Active(tab) /\ tab.manual
  <2>1. PICK s \in Tabs : s = [tab EXCEPT !.manual = FALSE, !.payloadRetry = TRUE]
    BY <1>1 DEF Tabs
  <2>2. CanOpen(s)
    <3>1. /\ s.page = tab.page /\ s.terminal = tab.terminal /\ ~s.manual
          /\ s.hidden = tab.hidden /\ s.online = tab.online
      BY <1>1, <2>1 DEF Tabs
    <3> QED BY <3>1 DEF Retry, Visible, CanOpen
  <2>3. Step(OpenSocket(s, ok)) /\ oversized' = 0
    BY <1>2, <1>4, <2>1
  <2>4. Settled(OpenSocket(s, ok))
    BY <2>2, OpenSettles
  <2> QED BY <2>3, <2>4 DEF LInv, Step
<1>5. CASE ~Active(tab) /\ ~tab.manual
  <2>1. Step(Connect(tab, ok)) /\ UNCHANGED oversized
    BY <1>2, <1>5
  <2> QED BY <1>1, <2>1, ConnectSettles, KeepsCount
<1> QED BY <1>3, <1>4, <1>5

\* The page becomes visible: first what the lifecycle answers, then what the
\* runtime adds.
LEMMA ResumeSettles ==
    ASSUME NEW s \in Tabs, Sound(s), NEW ok \in BOOLEAN
    PROVE  LET r == Resume(s, ok)
           IN  Settled(r) /\ r.payloadRetry = s.payloadRetry /\ r.manual = s.manual
<1>1. CASE ~Visible(s)
  BY <1>1 DEF Resume, Settled, CanOpen, Visible
<1>2. CASE Visible(s) /\ s.conn = 0
  BY <1>2, ConnectSettles DEF Resume
<1>3. CASE Visible(s) /\ s.conn # 0 /\ ~s.hello
  <2>1. PICK r \in Tabs : r = [s EXCEPT !.helloTimer = TRUE]
    BY DEF Tabs
  <2>2. Resume(s, ok) = r
    BY <1>3, <2>1 DEF Resume
  <2>3. r.helloTimer = s.helloTimer
    BY <1>3, <2>1 DEF Sound, Visible, Tabs
  <2>4. SameLife(r, s) /\ r.payloadRetry = s.payloadRetry
    BY <2>1, <2>3, ZenonT(40) DEF SameLife, Tabs
  <2>5. Settled(s)
    BY <1>3 DEF Settled
  <2> QED BY <2>2, <2>4, <2>5, SameLifeSettles DEF SameLife
<1>4. CASE Visible(s) /\ s.conn # 0 /\ s.hello
  BY <1>4 DEF Resume, Settled
<1> QED BY <1>1, <1>2, <1>3, <1>4

\* With a connection the lifecycle only measures and the runtime only sets the hello timer; without one, either may connect.
LEMMA UnhideStep == LInv /\ Unhide => LInv'
<1> SUFFICES ASSUME LInv, Unhide PROVE LInv'
  OBVIOUS
<1>1. tab \in Tabs /\ Settled(tab) /\ Sound(tab) /\ tab.hidden /\ UNCHANGED oversized
  BY DEF LInv, Settled, Sound, Unhide
<1>2. PICK s \in Tabs : s = [tab EXCEPT !.hidden = FALSE, !.healthy = FALSE, !.heard = FALSE]
  BY <1>1 DEF Tabs
<1>3. PICK ok1 \in BOOLEAN, ok2 \in BOOLEAN : Step(Resume(Shown(s, ok1), ok2))
  BY <1>2 DEF Unhide
<1>4. /\ ~s.hidden /\ s.measuring = tab.measuring /\ s.helloTimer = tab.helloTimer
      /\ s.epoch = tab.epoch /\ s.conn = tab.conn /\ s.reconnect = tab.reconnect
      /\ s.terminal = tab.terminal /\ s.manual = tab.manual
      /\ s.pending = tab.pending /\ s.hiddenClosed = tab.hiddenClosed
      /\ s.status = tab.status /\ s.hello = tab.hello /\ s.page = tab.page
      /\ s.payloadRetry = tab.payloadRetry /\ s.online = tab.online
  BY <1>1, <1>2 DEF Tabs
<1>5. PICK m \in BOOLEAN : m = (s.measuring \/ (Active(s) /\ Visible(s)))
  OBVIOUS
<1>6. PICK v \in Tabs : v = [s EXCEPT !.measuring = m]
  BY DEF Tabs
<1>7. /\ v.measuring = m /\ v.hidden = s.hidden /\ v.helloTimer = s.helloTimer
      /\ v.epoch = s.epoch /\ v.conn = s.conn /\ v.reconnect = s.reconnect
      /\ v.terminal = s.terminal /\ v.manual = s.manual
      /\ v.pending = s.pending /\ v.hiddenClosed = s.hiddenClosed
      /\ v.status = s.status /\ v.hello = s.hello /\ v.page = s.page
      /\ v.payloadRetry = s.payloadRetry /\ v.online = s.online
  BY <1>6 DEF Tabs
<1>8. CASE tab.conn = 0
  <2>1. Sound(s)
    BY <1>1, <1>4, <1>8 DEF Sound
  <2>2. m = FALSE
    BY <1>1, <1>4, <1>5, <1>8 DEF Sound, Active
  <2>3. Sound(v)
    BY <2>1, <2>2, <1>7, <1>4, <1>8 DEF Sound
  <2>4. PICK w : w = Shown(s, ok1)
    OBVIOUS
  <2>5. w \in Tabs /\ Sound(w) /\ w.payloadRetry = s.payloadRetry /\ w.manual = s.manual
    <3>1. CASE (s.hiddenClosed \/ s.pending # "none") /\ CanOpen(s)
      <4>1. w = Connect(s, ok1)
        BY <2>4, <3>1 DEF Shown
      <4>2. Settled(w) /\ w.payloadRetry = s.payloadRetry /\ w.manual = s.manual
        BY <2>1, <4>1, ConnectSettles
      <4> QED BY <4>2 DEF Settled, Sound
    <3>2. CASE ~((s.hiddenClosed \/ s.pending # "none") /\ CanOpen(s))
      <4>1. w = v
        BY <1>5, <1>6, <2>4, <3>2 DEF Shown
      <4> QED BY <1>7, <2>3, <4>1
    <3> QED BY <3>1, <3>2
  <2> QED BY <1>1, <1>3, <1>4, <2>4, <2>5, ResumeSettles, KeepsCount
<1>9. CASE tab.conn # 0
  <2>1. /\ s.pending = "none" /\ ~s.hiddenClosed /\ s.online /\ ~tab.measuring /\ ~tab.helloTimer
        /\ s.status = IF s.hello THEN "live" ELSE "connecting"
    BY <1>1, <1>4, <1>9 DEF Sound
  <2>2. Shown(s, ok1) = v
    BY <1>5, <1>6, <2>1 DEF Shown
  <2>3. CASE s.hello
    <3>1. m = TRUE
      BY <1>4, <1>5, <1>9, <2>1, <2>3 DEF Active, Visible
    <3>2. Sound(v)
      BY <1>1, <1>4, <1>7, <1>9, <2>1, <2>3, <3>1 DEF Sound
    <3> QED BY <1>1, <1>3, <1>4, <1>7, <2>2, <3>2, ResumeSettles, KeepsCount
  <2>4. CASE ~s.hello
    <3>1. m = FALSE
      BY <1>4, <1>5, <2>1, <2>4 DEF Active
    <3>2. PICK r \in Tabs : r = [v EXCEPT !.helloTimer = TRUE]
      BY DEF Tabs
    <3>3. Resume(v, ok2) = r
      BY <1>4, <1>7, <1>9, <2>1, <2>4, <3>2 DEF Resume, Visible
    <3>4. /\ r.helloTimer /\ r.measuring = v.measuring /\ r.hidden = v.hidden
          /\ r.epoch = v.epoch /\ r.conn = v.conn /\ r.reconnect = v.reconnect
          /\ r.terminal = v.terminal /\ r.manual = v.manual
          /\ r.pending = v.pending /\ r.hiddenClosed = v.hiddenClosed
          /\ r.status = v.status /\ r.hello = v.hello /\ r.page = v.page
          /\ r.payloadRetry = v.payloadRetry /\ r.online = v.online
      BY <3>2 DEF Tabs
    <3>5. Settled(r)
      <4>1. /\ r.conn = tab.conn /\ r.epoch = tab.epoch /\ r.reconnect = tab.reconnect
            /\ r.page = tab.page /\ r.terminal = tab.terminal /\ r.manual = tab.manual
            /\ r.online = tab.online /\ r.pending = tab.pending /\ r.hiddenClosed = tab.hiddenClosed
            /\ r.status = tab.status /\ r.hello = tab.hello
            /\ ~r.hello /\ ~r.hidden /\ r.helloTimer /\ ~r.measuring
        BY <1>4, <1>7, <2>4, <3>1, <3>4
      <4> QED BY <1>1, <1>9, <4>1 DEF Settled, Sound
    <3>6. Step(r)
      BY <1>3, <2>2, <3>3
    <3> QED BY <1>1, <1>4, <1>7, <3>4, <3>5, <3>6, KeepsCount
  <2> QED BY <2>3, <2>4
<1> QED BY <1>8, <1>9

-----------------------------------------------------------------------------
(* The theorems. *)

\* The inductive invariant holds for every number of sockets.
THEOREM LifecycleInvariance == Spec => []LInv
<1>1. Init => LInv
  BY InitSettles
<1>2. LInv /\ [Next]_vars => LInv'
  <2> SUFFICES ASSUME LInv, [Next]_vars PROVE LInv'
    OBVIOUS
  <2>1. CASE UNCHANGED vars
    BY <2>1 DEF vars, LInv, Settled, Sound, CanOpen
  <2>2. CASE Hide
    BY <2>2, HideStep
  <2>3. CASE Unhide
    BY <2>3, UnhideStep
  <2>4. CASE GoOffline \/ PageHide \/ Dispose
    BY <2>4, BrowserStep
  <2>5. CASE GoOnline \/ PageShow \/ ReconnectFires
    BY <2>5, ConnectStep
  <2>6. CASE Retry
    BY <2>6, RetryStep
  <2>7. CASE ReceiveHello
    BY <2>7, HelloStep
  <2>8. CASE HelloTimeout \/ Silence
    BY <2>8, GiveUpStep
  <2>9. CASE LinkDies
    BY <2>9, LinkStep
  <2>10. CASE DeadlinePasses
    BY <2>10, DeadlineStep
  <2>11. CASE \E code \in Codes : Close(code)
    BY <2>11, CloseStep
  <2>12. CASE \E message, eligible, elapsed \in BOOLEAN : Publish(message, eligible, elapsed)
    BY <2>12, PublishStep
  <2> QED
    BY <2>1, <2>2, <2>3, <2>4, <2>5, <2>6, <2>7, <2>8, <2>9, <2>10, <2>11, <2>12 DEF Next
<1> QED BY <1>1, <1>2, PTL DEF Spec

\* Type correctness; a socket or a timer never belongs to an earlier epoch.
THEOREM LifecycleTypeCorrect == Spec => []TypeOK
<1>1. LInv => TypeOK
  BY DEF LInv, Settled, Sound, TypeOK
<1> QED BY <1>1, LifecycleInvariance, PTL

\* lifecycle.ts and the runtime never disagree about the connection.
THEOREM OwnersAlwaysAgree == Spec => []OwnersAgree
<1>1. LInv => OwnersAgree
  BY DEF LInv, Settled, Sound, OwnersAgree
<1> QED BY <1>1, LifecycleInvariance, PTL

\* No order of browser, socket and timer events strands a page.
THEOREM PageNeverStranded == Spec => []NeverStranded
<1>1. LInv => NeverStranded
  BY DEF LInv, Settled, NeverStranded, Wanted
<1> QED BY <1>1, LifecycleInvariance, PTL

\* The timers of a connection run exactly while the page is visible.
THEOREM TimersAlwaysFit == Spec => []TimersFit
<1>1. LInv => TimersFit
  BY DEF LInv, Settled, Sound, TimersFit
<1> QED BY <1>1, LifecycleInvariance, PTL

\* A second 4009 is the last automatic attempt.
THEOREM RetriesOnce == Spec => []OneAutomaticRetry
<1>1. LInv => OneAutomaticRetry
  BY DEF LInv, Settled, Sound, OneAutomaticRetry
<1> QED BY <1>1, LifecycleInvariance, PTL

-----------------------------------------------------------------------------
(* When a socket is opened. *)

\* A retry by hand leaves no deferred one behind.
ManualIdle(s) == s.manual => s.pending = "none"

\* From s to r a socket is opened at most as it may be.
Careful(s, r) ==
    /\ r.epoch # s.epoch => /\ ~r.hidden /\ r.online /\ ~r.terminal /\ ~r.manual
                            /\ s.pending # "waiting"
    /\ ManualIdle(r)

\* A connect() or less leads from s to r.
OpensFrom(s, r) ==
    /\ r.hidden = s.hidden /\ r.online = s.online /\ r.terminal = s.terminal
    /\ r.manual = s.manual /\ r.page = s.page
    /\ \/ r.epoch = s.epoch /\ r.pending = s.pending
       \/ CanOpen(s) /\ s.pending # "waiting" /\ r.pending = "none"

LEMMA OpensCarefully ==
    ASSUME NEW s, NEW r, OpensFrom(s, r), ManualIdle(s) PROVE Careful(s, r)
BY DEF OpensFrom, Careful, ManualIdle, CanOpen

LEMMA OpensTwice ==
    ASSUME NEW s, NEW v, NEW r, OpensFrom(s, v), OpensFrom(v, r) PROVE OpensFrom(s, r)
BY DEF OpensFrom, CanOpen

LEMMA ScheduleOpens ==
    ASSUME NEW s \in Tabs
    PROVE  ScheduleReconnect(s) \in Tabs /\ OpensFrom(s, ScheduleReconnect(s))
<1>1. PICK r \in Tabs : r = ScheduleReconnect(s)
  BY DEF ScheduleReconnect, Tabs, Status
<1>2. /\ r.hidden = s.hidden /\ r.online = s.online /\ r.terminal = s.terminal
      /\ r.manual = s.manual /\ r.page = s.page /\ r.epoch = s.epoch /\ r.pending = s.pending
  BY <1>1 DEF ScheduleReconnect, Tabs
<1> QED BY <1>1, <1>2 DEF OpensFrom

LEMMA OpenOpens ==
    ASSUME NEW s \in Tabs, NEW ok \in BOOLEAN, CanOpen(s), s.pending # "waiting"
    PROVE  OpenSocket(s, ok) \in Tabs /\ OpensFrom(s, OpenSocket(s, ok))
<1>1. PICK n \in Tabs : n = NextEpoch(s)
  BY NextEpochBare
<1>2. OpensFrom(s, n) /\ n.pending = "none"
  BY <1>1, NextEpochBare DEF OpensFrom
<1>3. CASE ok
  <2>1. PICK r \in Tabs : r = [n EXCEPT !.conn = n.epoch, !.helloTimer = TRUE]
    BY DEF Tabs
  <2>2. OpenSocket(s, ok) = r
    BY <1>1, <1>3, <2>1 DEF OpenSocket
  <2>3. /\ r.hidden = n.hidden /\ r.online = n.online /\ r.terminal = n.terminal
        /\ r.manual = n.manual /\ r.page = n.page /\ r.epoch = n.epoch /\ r.pending = n.pending
    BY <2>1 DEF Tabs
  <2> QED BY <1>2, <2>2, <2>3, OpensTwice DEF OpensFrom
<1>4. CASE ~ok
  <2>1. PICK h \in Tabs : h = [n EXCEPT !.healthy = FALSE]
    BY DEF Tabs
  <2>2. OpenSocket(s, ok) = ScheduleReconnect(h)
    BY <1>1, <1>4, <2>1 DEF OpenSocket
  <2>3. /\ h.hidden = n.hidden /\ h.online = n.online /\ h.terminal = n.terminal
        /\ h.manual = n.manual /\ h.page = n.page /\ h.epoch = n.epoch /\ h.pending = n.pending
    BY <2>1 DEF Tabs
  <2>4. OpensFrom(s, h)
    BY <1>2, <2>3, OpensTwice DEF OpensFrom
  <2> QED BY <2>2, <2>4, ScheduleOpens, OpensTwice
<1> QED BY <1>3, <1>4

LEMMA ConnectOpens ==
    ASSUME NEW s \in Tabs, NEW ok \in BOOLEAN
    PROVE  Connect(s, ok) \in Tabs /\ OpensFrom(s, Connect(s, ok))
<1>1. CASE ~CanOpen(s)
  BY <1>1 DEF Connect, OpensFrom
<1>2. CASE CanOpen(s) /\ s.pending = "waiting"
  BY <1>2, ScheduleOpens DEF Connect
<1>3. CASE CanOpen(s) /\ s.pending # "waiting"
  BY <1>3, OpenOpens DEF Connect
<1> QED BY <1>1, <1>2, <1>3

LEMMA DeferKeepsEpoch ==
    ASSUME NEW s \in Tabs
    PROVE  LET r == DeferRetry(s) IN r.epoch = s.epoch /\ r.manual = s.manual
<1>1. PICK st \in Status : st = (IF s.online THEN "idle" ELSE "offline")
  BY DEF Status
<1>2. PICK d \in Tabs : d = [s EXCEPT !.pending = "waiting", !.hiddenClosed = s.hidden, !.status = st]
  BY DEF Tabs
<1>3. DeferRetry(s) = IF CanOpen(d) THEN ScheduleReconnect(d) ELSE d
  BY <1>1, <1>2 DEF DeferRetry
<1>4. d.epoch = s.epoch /\ d.manual = s.manual
  BY <1>2 DEF Tabs
<1>5. PICK r \in Tabs : r = ScheduleReconnect(d)
  BY <1>2, ScheduleOpens
<1>6. r.epoch = d.epoch /\ r.manual = d.manual
  BY <1>2, <1>5 DEF ScheduleReconnect, Tabs
<1> QED BY <1>3, <1>4, <1>5, <1>6

\* Whatever closed the connection: what is opened at once may be.
LEMMA CloseCareful ==
    ASSUME NEW s \in Tabs, Settled(s), s.conn # 0, NEW code \in Codes, NEW ok \in BOOLEAN
    PROVE  Careful(s, Disconnected(s, code, ok))
<1>1. PICK b \in Tabs : b = RetireSocket(StopConnectionWork(s))
  BY Retired
<1>2. PICK t \in Tabs : t = [b EXCEPT !.healthy = FALSE]
  BY DEF Tabs
<1>3. /\ t.epoch = s.epoch /\ t.manual = s.manual /\ t.pending = s.pending
      /\ t.hidden = s.hidden /\ t.online = s.online /\ t.terminal = s.terminal
      /\ ~t.manual /\ t.pending = "none"
  BY <1>1, <1>2, Retired DEF Tabs, Settled, Sound
<1> DEFINE r == Disconnected(s, code, ok)
<1>4. r = SocketClosed(b, code, ok)
  BY <1>1 DEF Disconnected
<1> SUFFICES Careful(s, r)
  BY DEF r
<1> HIDE DEF r
<1>11. ASSUME NEW x, x.epoch = t.epoch, x.manual = t.manual \/ x.pending = "none" PROVE Careful(s, x)
  <2>1. x.epoch = s.epoch
    BY <1>3, <1>11
  <2>2. x.manual => x.pending = "none"
    BY <1>3, <1>11, Zenon
  <2> QED BY <2>1, <2>2, Zenon DEF Careful, ManualIdle
<1>12. ASSUME NEW x, OpensFrom(t, x) PROVE Careful(s, x)
  <2>1. ManualIdle(t)
    BY <1>3 DEF ManualIdle
  <2>2. Careful(t, x)
    BY <1>12, <2>1, OpensCarefully
  <2>3. s.epoch = t.epoch /\ s.pending = t.pending
    BY <1>3
  <2> QED BY <2>2, <2>3, Zenon DEF Careful
<1>5. CASE code = 4002
  <2>1. PICK d \in Tabs : d = [t EXCEPT !.status = "terminal", !.terminal = TRUE, !.pending = "none"]
    BY ClosedType, Names
  <2>2. r = d
    BY <1>2, <1>4, <1>5, <2>1 DEF SocketClosed
  <2>3. d.epoch = t.epoch /\ d.manual = t.manual
    BY <2>1 DEF Tabs
  <2> QED BY <1>11, <2>2, <2>3
<1>6. CASE code = 4009
  <2>1. r = PayloadTooLarge(t)
    BY <1>2, <1>4, <1>6 DEF SocketClosed
  <2>2. CASE t.payloadRetry
    <3>1. PICK u \in Tabs : u = [t EXCEPT !.payloadRetry = FALSE]
      BY DEF Tabs
    <3>2. u.epoch = t.epoch /\ u.manual = t.manual
      BY <3>1 DEF Tabs
    <3>3. r = DeferRetry(u)
      BY <2>1, <2>2, <3>1 DEF PayloadTooLarge
    <3> QED BY <1>11, <3>2, <3>3, DeferKeepsEpoch
  <2>3. CASE ~t.payloadRetry
    <3>1. PICK u \in Tabs : u = [t EXCEPT !.manual = TRUE, !.status = "idle", !.pending = "none"]
      BY ClosedType, Names
    <3>2. u.epoch = t.epoch /\ u.pending = "none"
      BY <3>1 DEF Tabs
    <3>3. r = u
      BY <2>1, <2>3, <3>1 DEF PayloadTooLarge
    <3> QED BY <1>11, <3>2, <3>3
  <2> QED BY <2>2, <2>3
<1>7. CASE code = 4008
  <2>1. r = DeferRetry(t)
    BY <1>2, <1>4, <1>7 DEF SocketClosed
  <2> QED BY <1>11, <2>1, DeferKeepsEpoch
<1>8. CASE code \in {1006, 4001} /\ ~Visible(t)
  <2>1. PICK st \in Status : st = (IF t.online THEN "idle" ELSE "offline")
    BY Names
  <2>2. PICK flag \in BOOLEAN : flag = (t.hidden \/ t.hiddenClosed)
    OBVIOUS
  <2>3. PICK d \in Tabs : d = [t EXCEPT !.status = st, !.hiddenClosed = flag]
    BY ClosedType, Names
  <2>4. r = d
    BY <1>2, <1>4, <1>8, <2>1, <2>2, <2>3 DEF SocketClosed
  <2>5. d.epoch = t.epoch /\ d.manual = t.manual
    BY <2>3 DEF Tabs
  <2> QED BY <1>11, <2>4, <2>5
<1>9. CASE code = 4001 /\ Visible(t)
  <2>1. r = Connect(t, ok)
    BY <1>2, <1>4, <1>9 DEF SocketClosed
  <2>2. OpensFrom(t, r)
    BY <2>1, ConnectOpens
  <2> QED BY <1>12, <2>2
<1>10. CASE code = 1006 /\ Visible(t)
  <2>1. r = ScheduleReconnect(t)
    BY <1>2, <1>4, <1>10 DEF SocketClosed
  <2>2. OpensFrom(t, r)
    BY <2>1, ScheduleOpens
  <2> QED BY <1>12, <2>2
<1> QED BY <1>5, <1>6, <1>7, <1>8, <1>9, <1>10 DEF Codes

\* Every event opens a socket only as it may be.
LEMMA StepCareful ==
    ASSUME LInv, ManualIdle(tab), [Next]_vars PROVE Careful(tab, tab')
<1>1. tab \in Tabs /\ Settled(tab) /\ Sound(tab)
  BY DEF LInv, Settled, Sound
<1>2. ASSUME NEW r \in Tabs, r.epoch = tab.epoch, r.manual = tab.manual, r.pending = tab.pending, tab' = r
      PROVE  Careful(tab, tab')
  BY <1>2 DEF Careful, ManualIdle
<1>3. CASE UNCHANGED vars
  BY <1>1, <1>2, <1>3 DEF vars
<1>4. CASE Hide
  <2>1. PICK r \in Tabs : r = [tab EXCEPT !.hidden = TRUE, !.healthy = FALSE,
                                         !.measuring = FALSE, !.helloTimer = FALSE]
    BY <1>1 DEF Tabs
  <2> QED BY <1>1, <1>2, <1>4, <2>1 DEF Hide, Step, Tabs
<1>5. CASE LinkDies
  <2>1. PICK r \in Tabs : r = [tab EXCEPT !.dead = TRUE]
    BY <1>1 DEF Tabs
  <2> QED BY <1>1, <1>2, <1>5, <2>1 DEF LinkDies, Step, Tabs
<1>6. CASE DeadlinePasses
  <2>1. PICK r \in Tabs : r = [tab EXCEPT !.pending = "due"]
    BY <1>1 DEF Tabs
  <2>2. r.epoch = tab.epoch /\ r.manual = tab.manual
    BY <1>1, <2>1 DEF Tabs
  <2> QED BY <1>6, <2>1, <2>2 DEF DeadlinePasses, Careful, ManualIdle
<1>7. CASE ReceiveHello
  <2>1. PICK h \in BOOLEAN : h = ~tab.hidden
    OBVIOUS
  <2>2. PICK r \in Tabs : r = [tab EXCEPT !.hello = TRUE, !.helloTimer = FALSE, !.status = "live",
                                         !.hiddenClosed = FALSE, !.heard = h, !.measuring = h]
    BY <1>1, ZenonT(40) DEF Tabs, Status
  <2>3. tab' = r
    BY <1>7, <2>1, <2>2 DEF ReceiveHello, Step, Live
  <2> QED BY <1>1, <1>2, <2>2, <2>3, ZenonT(40) DEF Tabs
<1>8. CASE \E message, eligible, elapsed \in BOOLEAN : Publish(message, eligible, elapsed)
  <2>1. PICK message \in BOOLEAN, eligible \in BOOLEAN, elapsed \in BOOLEAN :
          Publish(message, eligible, elapsed)
    BY <1>8
  <2>2. PICK h \in BOOLEAN, e \in BOOLEAN, p \in BOOLEAN :
          h = (tab.heard \/ message) /\ e = (eligible /\ ~elapsed) /\ p = (tab.payloadRetry \/ elapsed)
    OBVIOUS
  <2>3. PICK r \in Tabs : r = [tab EXCEPT !.heard = h, !.healthy = e, !.payloadRetry = p]
    BY <1>1, ZenonT(40) DEF Tabs
  <2>4. tab' = r
    BY <2>1, <2>2, <2>3 DEF Publish, Step
  <2> QED BY <1>1, <1>2, <2>3, <2>4, ZenonT(40) DEF Tabs
<1>9. CASE GoOffline \/ PageHide \/ Dispose
  <2>1. PICK b \in Tabs : b = RetireSocket(StopConnectionWork(tab))
    BY <1>1, Retired
  <2>2. b.epoch = tab.epoch /\ b.manual = tab.manual /\ b.pending = tab.pending
    BY <1>1, <2>1, Retired
  <2>3. PICK r1 \in Tabs, r2 \in Tabs, r3 \in Tabs :
          /\ r1 = [b EXCEPT !.online = FALSE, !.healthy = FALSE, !.status = "offline"]
          /\ r2 = [b EXCEPT !.page = "gone", !.healthy = FALSE, !.status = "idle"]
          /\ r3 = [b EXCEPT !.page = "disposed", !.status = "terminal", !.healthy = FALSE]
    <3>1. [b EXCEPT !.online = FALSE, !.healthy = FALSE, !.status = "offline"] \in Tabs
      BY DEF Tabs, Status
    <3>2. [b EXCEPT !.page = "gone", !.healthy = FALSE, !.status = "idle"] \in Tabs
      BY DEF Tabs, Status
    <3>3. [b EXCEPT !.page = "disposed", !.status = "terminal", !.healthy = FALSE] \in Tabs
      BY DEF Tabs, Status
    <3> QED BY <3>1, <3>2, <3>3
  <2>4. tab' \in {r1, r2, r3}
    BY <1>9, <2>1, <2>3 DEF GoOffline, PageHide, Dispose, Step, CloseForBrowser
  <2>5. /\ r1.epoch = b.epoch /\ r1.manual = b.manual /\ r1.pending = b.pending
        /\ r2.epoch = b.epoch /\ r2.manual = b.manual /\ r2.pending = b.pending
        /\ r3.epoch = b.epoch /\ r3.manual = b.manual /\ r3.pending = b.pending
    BY <2>3 DEF Tabs
  <2> QED BY <1>2, <2>2, <2>4, <2>5
<1>10. ASSUME NEW s \in Tabs, s.epoch = tab.epoch, s.manual = tab.manual, s.pending = tab.pending,
              NEW r, OpensFrom(s, r), tab' = r
       PROVE  Careful(tab, tab')
  <2>1. Careful(s, r)
    BY <1>10, OpensCarefully DEF ManualIdle
  <2> QED BY <1>10, <2>1 DEF Careful
<1>11. CASE GoOnline
  <2>1. PICK s \in Tabs : s = [tab EXCEPT !.online = TRUE, !.healthy = FALSE]
    BY <1>1 DEF Tabs
  <2>2. PICK ok \in BOOLEAN : tab' = Connect(s, ok)
    BY <1>11, <2>1 DEF GoOnline, Step
  <2>3. s.epoch = tab.epoch /\ s.manual = tab.manual /\ s.pending = tab.pending
    BY <1>1, <2>1 DEF Tabs
  <2> QED BY <1>10, <2>2, <2>3, ConnectOpens
<1>12. CASE PageShow
  <2>1. PICK s \in Tabs : s = [tab EXCEPT !.page = "shown"]
    BY <1>1 DEF Tabs
  <2>2. PICK ok \in BOOLEAN : tab' = Connect(s, ok)
    BY <1>12, <2>1 DEF PageShow, Step
  <2>3. s.epoch = tab.epoch /\ s.manual = tab.manual /\ s.pending = tab.pending
    BY <1>1, <2>1 DEF Tabs
  <2> QED BY <1>10, <2>2, <2>3, ConnectOpens
<1>13. CASE ReconnectFires
  <2>1. PICK s \in Tabs : s = [tab EXCEPT !.reconnect = 0]
    BY <1>1 DEF Tabs
  <2>2. PICK ok \in BOOLEAN : tab' = Connect(s, ok) \/ tab' = s
    BY <1>13, <2>1 DEF ReconnectFires, Step
  <2>3. s.epoch = tab.epoch /\ s.manual = tab.manual /\ s.pending = tab.pending
    BY <1>1, <2>1 DEF Tabs
  <2> QED BY <1>2, <1>10, <2>1, <2>2, <2>3, ConnectOpens
<1>14. CASE Retry
  <2>1. PICK ok \in BOOLEAN :
          CASE Active(tab) -> Step([tab EXCEPT !.healthy = FALSE]) /\ UNCHANGED oversized
            [] ~Active(tab) /\ tab.manual ->
                 /\ Step(OpenSocket([tab EXCEPT !.manual = FALSE, !.payloadRetry = TRUE], ok))
                 /\ oversized' = 0
            [] OTHER -> Step(Connect(tab, ok)) /\ UNCHANGED oversized
    BY <1>14 DEF Retry
  <2>2. CASE Active(tab)
    <3>1. PICK r \in Tabs : r = [tab EXCEPT !.healthy = FALSE]
      BY <1>1 DEF Tabs
    <3> QED BY <1>1, <1>2, <2>1, <2>2, <3>1 DEF Step, Tabs
  <2>3. CASE ~Active(tab) /\ tab.manual
    <3>1. PICK s \in Tabs : s = [tab EXCEPT !.manual = FALSE, !.payloadRetry = TRUE]
      BY <1>1 DEF Tabs
    <3>2. /\ s.epoch = tab.epoch /\ ~s.manual /\ s.pending = tab.pending /\ s.page = tab.page
          /\ s.hidden = tab.hidden /\ s.online = tab.online /\ s.terminal = tab.terminal
      BY <1>1, <3>1 DEF Tabs
    <3>3. CanOpen(s) /\ s.pending = "none"
      BY <1>14, <2>3, <3>2 DEF Retry, Visible, CanOpen, ManualIdle
    <3>4. tab' = OpenSocket(s, ok)
      BY <2>1, <2>3, <3>1 DEF Step
    <3>5. Careful(s, tab')
      BY <3>2, <3>3, <3>4, OpenOpens, OpensCarefully DEF ManualIdle
    <3> QED BY <3>2, <3>5 DEF Careful
  <2>4. CASE ~Active(tab) /\ ~tab.manual
    <3>1. tab' = Connect(tab, ok)
      BY <2>1, <2>4 DEF Step
    <3> QED BY <1>1, <1>10, <3>1, ConnectOpens
  <2> QED BY <2>2, <2>3, <2>4
<1>15. CASE Unhide
  <2>1. PICK s \in Tabs : s = [tab EXCEPT !.hidden = FALSE, !.healthy = FALSE, !.heard = FALSE]
    BY <1>1 DEF Tabs
  <2>2. PICK ok1 \in BOOLEAN, ok2 \in BOOLEAN : tab' = Resume(Shown(s, ok1), ok2)
    BY <1>15, <2>1 DEF Unhide, Step
  <2>3. s.epoch = tab.epoch /\ s.manual = tab.manual /\ s.pending = tab.pending
    BY <1>1, <2>1 DEF Tabs
  <2>4. PICK v \in Tabs : v = Shown(s, ok1) /\ OpensFrom(s, v)
    <3>1. PICK m \in BOOLEAN : m = (s.measuring \/ (Active(s) /\ Visible(s)))
      OBVIOUS
    <3>2. PICK u \in Tabs : u = [s EXCEPT !.measuring = m]
      BY DEF Tabs
    <3>3. OpensFrom(s, u)
      BY <3>2 DEF OpensFrom, Tabs
    <3>4. Shown(s, ok1) = Connect(s, ok1) \/ Shown(s, ok1) = u
      BY <3>1, <3>2 DEF Shown
    <3> QED BY <3>2, <3>3, <3>4, ConnectOpens
  <2>5. OpensFrom(v, Resume(v, ok2))
    <3>1. PICK u \in Tabs : u = [v EXCEPT !.helloTimer = TRUE]
      BY DEF Tabs
    <3>2. OpensFrom(v, u) /\ OpensFrom(v, v)
      BY <3>1 DEF OpensFrom, Tabs
    <3>3. Resume(v, ok2) \in {v, u, Connect(v, ok2)}
      BY <3>1 DEF Resume
    <3> QED BY <3>2, <3>3, ConnectOpens
  <2> QED BY <1>10, <2>2, <2>3, <2>4, <2>5, OpensTwice
<1>16. CASE HelloTimeout \/ Silence
  <2>1. tab.conn # 0 /\ 1006 \in Codes
    BY <1>1, <1>16 DEF HelloTimeout, Silence, Sound, Codes
  <2>2. PICK ok \in BOOLEAN : tab' = Disconnected(tab, 1006, ok)
    BY <1>16 DEF HelloTimeout, Silence, HelloOverdue, Step
  <2> QED BY <1>1, <2>1, <2>2, CloseCareful
<1>17. CASE \E code \in Codes : Close(code)
  <2>1. PICK code \in Codes : Close(code)
    BY <1>17
  <2>2. PICK ok \in BOOLEAN : tab' = Disconnected(tab, code, ok) /\ tab.conn # 0
    BY <2>1 DEF Close, Step
  <2> QED BY <1>1, <2>2, CloseCareful
<1> QED
  BY <1>3, <1>4, <1>5, <1>6, <1>7, <1>8, <1>9, <1>11, <1>12, <1>13, <1>14, <1>15, <1>16, <1>17 DEF Next

LEMMA InitManualIdle == Init => ManualIdle(tab)
<1> SUFFICES ASSUME Init PROVE ManualIdle(tab)
  OBVIOUS
<1>1. PICK hidden \in BOOLEAN, online \in BOOLEAN : tab = Connect(NewTab(hidden, online), TRUE)
  BY DEF Init
<1>2. NewTab(hidden, online) \in Tabs /\ ~NewTab(hidden, online).manual
  BY DEF NewTab, Tabs, Status
<1>3. OpensFrom(NewTab(hidden, online), tab)
  BY <1>1, <1>2, ConnectOpens
<1> QED BY <1>2, <1>3 DEF OpensFrom, ManualIdle

\* A socket is opened only by a visible, online page that is not told to reload,
\* and never before the deadline of a deferred retry.
THEOREM OpensCarefullyAlways == Spec => OpensWhenAllowed
<1> DEFINE Allowed == tab'.epoch # tab.epoch =>
                        /\ ~tab'.hidden /\ tab'.online /\ ~tab'.terminal /\ ~tab'.manual
                        /\ tab.pending # "waiting"
<1>1. Init => ManualIdle(tab)
  BY InitManualIdle
<1>2. LInv /\ ManualIdle(tab) /\ [Next]_vars => ManualIdle(tab)'
  <2> SUFFICES ASSUME LInv, ManualIdle(tab), [Next]_vars PROVE ManualIdle(tab')
    BY DEF ManualIdle
  <2> QED BY StepCareful DEF Careful
<1>3. LInv /\ ManualIdle(tab) /\ [Next]_vars => [Allowed]_vars
  BY StepCareful DEF Careful
<1> QED BY <1>1, <1>2, <1>3, LifecycleInvariance, PTL DEF Spec, OpensWhenAllowed

-----------------------------------------------------------------------------
(* The page implements its connection. *)

\* A data event is a Publish of the connection or leaves it alone.
LEMMA DataEventRefines ==
    ASSUME NEW d, NEW message \in BOOLEAN, DataEvent(d, message)
    PROVE  [Next]_vars
<1>1. CASE tab.hello /\ ~tab.hidden
  <2>1. PICK elapsed \in BOOLEAN : Publish(message, LiveEligible(tab, Built(tab, d)), elapsed)
    BY <1>1 DEF DataEvent
  <2>2. Publish(message, TRUE, elapsed) \/ Publish(message, FALSE, elapsed)
    <3>1. PICK e \in BOOLEAN : e = LiveEligible(tab, Built(tab, d))
      BY DEF LiveEligible
    <3> QED BY <2>1, <3>1
  <2> QED BY <2>2 DEF Next
<1>2. CASE ~(tab.hello /\ ~tab.hidden)
  BY <1>2 DEF DataEvent, vars
<1> QED BY <1>1, <1>2

\* Every step of the page is one of Lifecycle, or a stutter of it.
LEMMA PageStepRefines == PageNext => [Next]_vars
<1> SUFFICES ASSUME PageNext PROVE [Next]_vars
  OBVIOUS
<1>1. CASE OnHide \/ OnUnhide \/ OnConnect \/ OnReconnect \/ OnBrowserClose
  BY <1>1 DEF OnHide, OnUnhide, OnConnect, OnReconnect, OnBrowserClose, Next
<1>2. CASE OnClose \/ OnHelloTimeout \/ OnSilence \/ OnHello \/ OnRetry \/ OnDispose
  BY <1>2 DEF OnClose, OnHelloTimeout, OnSilence, OnHello, OnRetry, OnDispose, Next
<1>3. CASE Unseen
  BY <1>3 DEF Unseen, Next
<1>4. CASE Answers \/ \E p \in Parts : Failure(p)
  BY <1>4, DataEventRefines DEF Answers, Answer, Failure
<1>5. CASE ResyncBook \/ ResyncCandles
  BY <1>5, DataEventRefines DEF ResyncBook, ResyncCandles
<1>6. CASE SelectInterval
  BY <1>6, DataEventRefines DEF SelectInterval
<1>7. CASE (\E ready, advances \in BOOLEAN : Message(ready, advances)) \/ FeedDelayed
  BY <1>7, DataEventRefines DEF Message, FeedDelayed
<1>8. CASE Frame
  BY <1>8 DEF Frame
<1> QED BY <1>1, <1>2, <1>3, <1>4, <1>5, <1>6, <1>7, <1>8 DEF PageNext

\* The page implements the life of its connection.
THEOREM PageImplementsLifecycle == PageSpec => Spec
<1>1. PageInit => Init
  BY DEF PageInit
<1>2. [PageNext]_<<vars, pageVars>> => [Next]_vars
  BY PageStepRefines DEF vars
<1> QED BY <1>1, <1>2, PTL DEF PageSpec, Spec

\* However data come and go, a page that should be connected has a connection or
\* a timer that will make one.
THEOREM PageIsNeverStranded == PageSpec => []NeverStranded
BY PageImplementsLifecycle, PageNeverStranded, PTL

\* So does the page, whatever its data do.
THEOREM PageOpensCarefully == PageSpec => OpensWhenAllowed
BY PageImplementsLifecycle, OpensCarefullyAlways, PTL

-----------------------------------------------------------------------------
(* The invariant of the data, and what keeps it. *)

\* On a page s with the data d: a hello is only there while the page is shown;
\* after it what is ready is fresh, before it nothing is; what was fetched on an
\* earlier connection is marked.
Marked(s, d) ==
    /\ d \in Data
    /\ s.hello => s.page = "shown"
    /\ s.hello => \A p \in Parts : d.part[p].status = "ready" => d.part[p].holds = "fresh"
    /\ ~s.hello => \A p \in Parts : d.part[p].holds # "fresh"
    /\ s.page # "disposed" /\ (\E p \in Parts : d.part[p].holds = "cached") => d.stale

\* e is d with parts that load again or are forgotten.
Loads(d, e) ==
    /\ e \in Data /\ e.stale = d.stale
    /\ \A p \in Parts :
         /\ e.part[p].holds \in {"nothing", d.part[p].holds}
         /\ e.part[p].status = "ready" =>
              d.part[p].status = "ready" /\ e.part[p].holds = d.part[p].holds

\* Loading again takes nothing of the invariant away.
LEMMA LoadsKeeps ==
    ASSUME NEW s, NEW d, NEW e, Marked(s, d), Loads(d, e)
    PROVE  Marked(s, e)
BY DEF Marked, Loads, Data, Part

\* A page that has the same connection keeps it as well.
LEMMA SamePageKeeps ==
    ASSUME NEW s, NEW r, NEW d, Marked(s, d), r.hello = s.hello, r.page = s.page
    PROVE  Marked(r, d)
BY DEF Marked

\* Building the snapshot takes the mark back only where nothing is cached.
LEMMA BuiltKeeps ==
    ASSUME NEW s, NEW d, Marked(s, d)
    PROVE  Marked(s, Built(s, d))
<1>1. PICK e : e = Built(s, d)
  OBVIOUS
<1>2. PICK b \in BOOLEAN : b = BootstrapReady(s, d)
  BY DEF BootstrapReady
<1>3. e = [d EXCEPT !.stale = @ /\ ~b]
  BY <1>1, <1>2 DEF Built
<1>4. d \in Data
  BY DEF Marked
<1>5. /\ e \in Data /\ e.part = d.part /\ e.stale = (d.stale /\ ~b)
  BY <1>3, <1>4 DEF Data
<1>6. b => s.hello /\ \A p \in Parts : d.part[p].status = "ready"
  BY <1>2 DEF BootstrapReady, Active
<1> QED BY <1>1, <1>5, <1>6 DEF Marked

\* Aborting the requests: nothing is fresh any more.
LEMMA AbortFacts ==
    ASSUME NEW d \in Data
    PROVE  LET e == Abort(d)
           IN  /\ e \in Data /\ e.stale = d.stale
               /\ \A p \in Parts :
                    e.part[p].holds = IF d.part[p].holds = "fresh" THEN "cached" ELSE d.part[p].holds
<1>1. DEFINE f == [p \in Parts |->
                     [d.part[p] EXCEPT !.status = IF p \in Owned THEN "idle" ELSE @,
                                       !.holds = IF @ = "fresh" THEN "cached" ELSE @]]
<1>2. Abort(d) = [d EXCEPT !.part = f]
  BY DEF Abort
<1>3. \A p \in Parts : d.part[p] \in Part
  BY DEF Data
<1>4. ASSUME NEW p \in Parts
      PROVE  /\ f[p] \in Part
             /\ f[p].holds = IF d.part[p].holds = "fresh" THEN "cached" ELSE d.part[p].holds
  BY <1>3 DEF Part
<1>5. f \in [Parts -> Part]
  BY <1>4
<1> HIDE DEF f
<1>6. [d EXCEPT !.part = f] \in Data
  BY <1>5 DEF Data
<1>7. [d EXCEPT !.part = f].part = f /\ [d EXCEPT !.part = f].stale = d.stale
  BY DEF Data
<1> QED BY <1>2, <1>4, <1>6, <1>7

\* Resetting the evidence that the feed is live changes no part.
LEMMA EvidenceFacts ==
    ASSUME NEW d \in Data
    PROVE  LET e == [d EXCEPT !.feedReady = FALSE, !.condition = "waiting"]
           IN  e \in Data /\ e.part = d.part /\ e.stale = d.stale
BY DEF Data

\* The parts and the mark after the connection has changed or not.
LEMMA CarriedFacts ==
    ASSUME NEW d \in Data
    PROVE  LET e == Carried(d)
               lost == tab'.conn # tab.conn \/ tab'.epoch # tab.epoch
           IN  /\ e \in Data /\ e.stale = d.stale
               /\ ~lost => e.part = d.part
               /\ lost => \A p \in Parts :
                    e.part[p].holds = IF d.part[p].holds = "fresh" THEN "cached" ELSE d.part[p].holds
<1>1. CASE ~(tab'.conn # tab.conn \/ tab'.epoch # tab.epoch)
  BY <1>1 DEF Carried
<1>2. CASE tab'.conn # tab.conn \/ tab'.epoch # tab.epoch
  <2>1. PICK a \in Data : a = Abort(d)
    BY AbortFacts
  <2>2. Carried(d) = IF tab'.epoch # tab.epoch
                       THEN [a EXCEPT !.feedReady = FALSE, !.condition = "waiting"] ELSE a
    BY <1>2, <2>1 DEF Carried
  <2>3. Carried(d) \in Data /\ Carried(d).part = a.part /\ Carried(d).stale = a.stale
    BY <2>2, EvidenceFacts
  <2> QED BY <1>2, <2>1, <2>3, AbortFacts
<1> QED BY <1>1, <1>2

\* The connection is the same.
SameConnection ==
    /\ tab'.conn = tab.conn /\ tab'.epoch = tab.epoch
    /\ tab'.hello = tab.hello /\ tab'.page = tab.page

\* There was no hello and there is none.
NoHello == ~tab.hello /\ ~tab'.hello /\ (tab.page = "disposed" => tab'.page = "disposed")

\* A connection is given up: all its data become cached ones.
LostConnection ==
    /\ tab.hello => tab'.conn # tab.conn \/ tab'.epoch # tab.epoch
    /\ ~tab'.hello
    /\ tab.page = "disposed" => tab'.page = "disposed"

\* A page that keeps its connection, or had no hello, keeps its invariant.
LEMMA CarriedKeeps ==
    ASSUME NEW d, Marked(tab, d), SameConnection \/ NoHello
    PROVE  Marked(tab', Carried(d))
<1>1. PICK e : e = Carried(d)
  OBVIOUS
<1>2. d \in Data
  BY DEF Marked
<1>3. CASE SameConnection
  <2>1. e \in Data /\ e.stale = d.stale /\ e.part = d.part
    BY <1>1, <1>2, <1>3, CarriedFacts DEF SameConnection
  <2> QED BY <1>1, <1>3, <2>1 DEF Marked, SameConnection
<1>4. CASE NoHello
  <2>1. e \in Data /\ e.stale = d.stale /\ \A p \in Parts : e.part[p].holds = d.part[p].holds
    BY <1>1, <1>2, <1>4, CarriedFacts DEF NoHello, Marked
  <2> QED BY <1>1, <1>4, <2>1 DEF Marked, NoHello
<1> QED BY <1>3, <1>4

\* A page that loses its connection keeps it when what it holds is marked first.
LEMMA LostKeeps ==
    ASSUME NEW d, Marked(tab, d), LostConnection,
           tab'.page # "disposed" /\ (\E p \in Parts : d.part[p].holds # "nothing") => d.stale
    PROVE  Marked(tab', Carried(d))
<1>1. PICK e : e = Carried(d)
  OBVIOUS
<1>2. d \in Data
  BY DEF Marked
<1>3. CASE ~tab.hello
  BY <1>3, CarriedKeeps DEF LostConnection, NoHello
<1>4. CASE tab.hello
  <2>1. /\ e \in Data /\ e.stale = d.stale
        /\ \A p \in Parts :
             e.part[p].holds = IF d.part[p].holds = "fresh" THEN "cached" ELSE d.part[p].holds
    BY <1>1, <1>2, <1>4, CarriedFacts DEF LostConnection
  <2>2. ~tab'.hello /\ \A p \in Parts : e.part[p].holds # "fresh"
    BY <2>1 DEF LostConnection
  <2>3. tab'.page # "disposed" /\ (\E p \in Parts : e.part[p].holds = "cached") => e.stale
    BY <2>1
  <2> QED BY <1>1, <2>1, <2>2, <2>3 DEF Marked
<1> QED BY <1>3, <1>4

\* Marking what the page holds.
LEMMA MarkFacts ==
    ASSUME NEW s, NEW d, Marked(s, d)
    PROVE  LET e == MarkStale(d)
           IN  Marked(s, e) /\ e.part = d.part
               /\ ((\E p \in Parts : e.part[p].holds # "nothing") => e.stale)
<1>1. PICK m \in BOOLEAN : m = (d.stale \/ \E p \in Parts : d.part[p].holds # "nothing")
  BY DEF Marked, Data
<1>2. MarkStale(d) = [d EXCEPT !.stale = m]
  BY <1>1 DEF MarkStale, Marked, Data
<1>3. PICK e \in Data : e = [d EXCEPT !.stale = m]
  BY DEF Marked, Data
<1>4. e.part = d.part /\ e.stale = m
  BY <1>3 DEF Marked, Data
<1> QED BY <1>1, <1>2, <1>3, <1>4 DEF Marked

\* What the loss of a connection does before the requests are aborted.
LEMMA DisconnectFacts ==
    ASSUME NEW s, NEW d, Marked(s, d), NEW c \in {"stale", d.condition}
    PROVE  LET e == [Disconnect(d) EXCEPT !.condition = c]
           IN  /\ Marked(s, e) /\ (c = d.condition => e = Disconnect(d))
               /\ (\E p \in Parts : e.part[p].holds # "nothing") => e.stale
<1>1. PICK m : m = MarkStale(d)
  OBVIOUS
<1>2. Marked(s, m) /\ m.part = d.part /\ ((\E p \in Parts : m.part[p].holds # "nothing") => m.stale)
  BY <1>1, MarkFacts
<1>3. m \in Data /\ m.condition = d.condition
  BY <1>1, <1>2 DEF Marked, MarkStale, Data
<1>4. PICK e \in Data : e = [m EXCEPT !.feedReady = FALSE, !.condition = c]
  BY <1>3 DEF Data
<1>5. [Disconnect(d) EXCEPT !.condition = c] = e
  BY <1>1, <1>4 DEF Disconnect
<1>6. e.part = m.part /\ e.stale = m.stale
  BY <1>3, <1>4 DEF Data
<1>7. c = d.condition => e = Disconnect(d)
  BY <1>1, <1>3, <1>4 DEF Disconnect, Data
<1>8. Marked(s, e)
  BY <1>2, <1>4, <1>6 DEF Marked
<1> QED BY <1>2, <1>5, <1>6, <1>7, <1>8

\* A part that loads.
LEMMA LoadingType ==
    ASSUME NEW p \in Part, NEW used \in 0 .. MaxAttempts
    PROVE  LET q == [p EXCEPT !.status = "loading", !.used = used]
           IN  q \in Part /\ q.status = "loading" /\ q.holds = p.holds
BY DEF Part

\* A part that has failed.
LEMMA FailedType ==
    ASSUME NEW p \in Part
    PROVE  LET q == [p EXCEPT !.status = "failed"]
           IN  q \in Part /\ q.status = "failed" /\ q.holds = p.holds
BY DEF Part

\* What a request does to a part.
LEMMA PartFacts ==
    ASSUME NEW p \in Part
    PROVE  /\ NextAttempt(p) \in Part /\ NextAttempt(p).status # "ready"
           /\ NextAttempt(p).holds = p.holds
           /\ Start(p) \in Part /\ Start(p).status # "ready" /\ Start(p).holds = p.holds
           /\ Emptied(p) \in Part /\ Emptied(p).status = p.status /\ Emptied(p).holds = "nothing"
           /\ Accepted(p) \in Part /\ Accepted(p).holds = "fresh"
<1>0. 0 \in 0 .. MaxAttempts
  BY PageAssumption
<1>1. ASSUME NEW q \in Part
      PROVE  /\ NextAttempt(q) \in Part /\ NextAttempt(q).status # "ready"
             /\ NextAttempt(q).holds = q.holds
  <2>1. q.used \in 0 .. MaxAttempts /\ q.holds \in {"nothing", "cached", "fresh"}
    BY DEF Part
  <2>2. CASE q.used < MaxAttempts
    <3>1. q.used + 1 \in 0 .. MaxAttempts
      BY <2>1, <2>2, PageAssumption
    <3>2. NextAttempt(q) = [q EXCEPT !.status = "loading", !.used = q.used + 1]
      BY <2>2 DEF NextAttempt
    <3> QED BY <3>1, <3>2, LoadingType, ZenonT(40)
  <2>3. CASE ~(q.used < MaxAttempts)
    <3>1. NextAttempt(q) = [q EXCEPT !.status = "failed"]
      BY <2>3 DEF NextAttempt
    <3> QED BY <3>1, FailedType
  <2> QED BY <2>2, <2>3
<1>2. [p EXCEPT !.used = 0] \in Part /\ [p EXCEPT !.used = 0].holds = p.holds
  BY <1>0 DEF Part
<1>3. Start(p) \in Part /\ Start(p).status # "ready" /\ Start(p).holds = p.holds
  BY <1>1, <1>2 DEF Start
<1>4. Emptied(p) \in Part /\ Emptied(p).status = p.status /\ Emptied(p).holds = "nothing"
  BY DEF Emptied, Part
<1>5. Accepted(p) \in Part /\ Accepted(p).holds = "fresh"
  BY <1>0 DEF Accepted, Part
<1> QED BY <1>1, <1>3, <1>4, <1>5

\* A bootstrap leaves nothing ready.
LEMMA BootstrapFacts ==
    ASSUME NEW d \in Data, NEW recover \in BOOLEAN
    PROVE  LET e == Bootstrap(d, recover)
           IN  Loads(d, e) /\ \A p \in Parts : e.part[p].status # "ready"
<1>1. DEFINE next == [p \in Parts |-> IF recover THEN NextAttempt(d.part[p]) ELSE Start(d.part[p])]
             f == [next EXCEPT !["candles"] = Emptied(@), !["book"] = IF recover THEN @ ELSE Emptied(@)]
<1>2. \A p \in Parts : d.part[p] \in Part
  BY DEF Data
<1>3. \A p \in Parts : next[p] \in Part /\ next[p].status # "ready" /\ next[p].holds = d.part[p].holds
  BY <1>2, PartFacts
<1>4. \A p \in Parts : /\ f[p] \in Part /\ f[p].status # "ready"
                       /\ f[p].holds \in {"nothing", d.part[p].holds}
  <2> HIDE DEF next
  <2>1. next["candles"] \in Part /\ next["book"] \in Part
    BY <1>3 DEF Parts
  <2>2. /\ Emptied(next["candles"]) \in Part /\ Emptied(next["candles"]).status # "ready"
        /\ Emptied(next["candles"]).holds = "nothing"
    BY <1>3, <2>1, PartFacts DEF Parts
  <2>3. /\ Emptied(next["book"]) \in Part /\ Emptied(next["book"]).status # "ready"
        /\ Emptied(next["book"]).holds = "nothing"
    BY <1>3, <2>1, PartFacts DEF Parts
  <2>4. DOMAIN next = Parts
    BY DEF next
  <2> QED BY <1>3, <2>2, <2>3, <2>4 DEF Parts
<1>5. f \in [Parts -> Part]
  <2>1. DOMAIN f = Parts /\ f = [p \in Parts |-> f[p]]
    OBVIOUS
  <2> QED BY <1>4, <2>1
<1>6. Bootstrap(d, recover) = [d EXCEPT !.matches = TRUE, !.part = f]
  BY DEF Bootstrap
<1> HIDE DEF f
<1>7. PICK e \in Data : e = [d EXCEPT !.matches = TRUE, !.part = f]
  BY <1>5 DEF Data
<1>8. e.part = f /\ e.stale = d.stale
  BY <1>7 DEF Data
<1> QED BY <1>4, <1>6, <1>7, <1>8 DEF Loads

\* A hello leaves nothing ready, and nothing cached that is not marked.
LEMMA GreetedKeeps ==
    ASSUME NEW s, NEW r, NEW d, Marked(s, d), ~s.hello, s.page = "shown", r.page = "shown",
           NEW new \in BOOLEAN
    PROVE  Marked(r, Greeted(d, new))
<1>1. d \in Data /\ \A p \in Parts : d.part[p] \in Part
  BY DEF Marked, Data
<1>2. PICK forgotten : forgotten = Forget(d, new)
  OBVIOUS
<1>3. /\ forgotten \in Data
      /\ \A p \in Parts : forgotten.part[p].holds # "fresh"
      /\ (\E p \in Parts : forgotten.part[p].holds = "cached") => forgotten.stale
  <2>1. CASE new
    <3>1. DEFINE f == [p \in Parts |-> Emptied(d.part[p])]
    <3>2. f \in [Parts -> Part] /\ \A p \in Parts : f[p].holds = "nothing"
      BY <1>1, PartFacts
    <3>3. forgotten = [d EXCEPT !.known = TRUE, !.stale = FALSE, !.part = f]
      BY <1>2, <2>1 DEF Forget
    <3> HIDE DEF f
    <3>4. forgotten \in Data /\ forgotten.part = f
      BY <1>1, <3>2, <3>3 DEF Data
    <3> QED BY <3>2, <3>4
  <2>2. CASE ~new
    BY <1>2, <2>2 DEF Forget, Marked
  <2> QED BY <2>1, <2>2
<1>4. PICK recover \in BOOLEAN : recover = (~new /\ ~d.manualBootstrap)
  BY <1>1 DEF Data
<1>5. PICK b : b = Bootstrap(forgotten, recover)
  OBVIOUS
<1>6. Loads(forgotten, b) /\ \A p \in Parts : b.part[p].status # "ready"
  BY <1>3, <1>5, BootstrapFacts
<1>7. PICK e : e = [b EXCEPT !.manualBootstrap = FALSE]
  OBVIOUS
<1>8. Greeted(d, new) = e
  BY <1>2, <1>4, <1>5, <1>7 DEF Greeted
<1>9. e \in Data /\ e.part = b.part /\ e.stale = b.stale
  BY <1>6, <1>7 DEF Loads, Data
<1>10. \A p \in Parts : e.part[p].status # "ready" /\ e.part[p].holds # "fresh"
  BY <1>3, <1>6, <1>9 DEF Loads
<1>11. (\E p \in Parts : e.part[p].holds = "cached") => e.stale
  BY <1>3, <1>6, <1>9 DEF Loads
<1> QED BY <1>8, <1>9, <1>10, <1>11 DEF Marked

-----------------------------------------------------------------------------
(* What the handlers of the connection do to it. *)

\* A new socket has no hello.
LEMMA OpenSilent ==
    ASSUME NEW s \in Tabs, NEW ok \in BOOLEAN
    PROVE  LET r == OpenSocket(s, ok)
           IN  ~r.hello /\ r.page = s.page /\ r.epoch = s.epoch + 1
<1>1. PICK n \in Tabs : n = NextEpoch(s)
  BY NextEpochBare
<1>2. ~n.hello /\ n.page = s.page /\ n.epoch = s.epoch + 1
  BY <1>1, NextEpochBare DEF Bare
<1>3. CASE ok
  <2>1. OpenSocket(s, ok) = [n EXCEPT !.conn = n.epoch, !.helloTimer = TRUE]
    BY <1>1, <1>3 DEF OpenSocket
  <2> QED BY <1>2, <2>1 DEF Tabs
<1>4. CASE ~ok
  <2>1. PICK m \in Tabs : m = [n EXCEPT !.healthy = FALSE]
    BY DEF Tabs
  <2>2. m.hello = n.hello /\ m.page = n.page /\ m.epoch = n.epoch
    BY <2>1 DEF Tabs
  <2>3. OpenSocket(s, ok) = [m EXCEPT !.status = "reconnecting", !.reconnect = m.epoch]
    BY <1>1, <1>4, <2>1 DEF OpenSocket, ScheduleReconnect
  <2> QED BY <1>2, <2>2, <2>3 DEF Tabs
<1> QED BY <1>3, <1>4

\* A page without a hello gets none from connecting.
LEMMA ConnectSilent ==
    ASSUME NEW s \in Tabs, ~s.hello, NEW ok \in BOOLEAN
    PROVE  LET r == Connect(s, ok) IN ~r.hello /\ r.page = s.page
<1>1. CASE ~CanOpen(s)
  BY <1>1 DEF Connect
<1>2. CASE CanOpen(s) /\ s.pending = "waiting"
  <2>1. Connect(s, ok) = [s EXCEPT !.status = "reconnecting", !.reconnect = s.epoch]
    BY <1>2 DEF Connect, ScheduleReconnect
  <2> QED BY <2>1 DEF Tabs
<1>3. CASE CanOpen(s) /\ s.pending # "waiting"
  BY <1>3, OpenSilent DEF Connect
<1> QED BY <1>1, <1>2, <1>3

\* Nor from a close, after which it has no connection or one of the next epoch.
LEMMA CloseSilent ==
    ASSUME NEW s \in Tabs, Lost(s), NEW code \in Codes, NEW ok \in BOOLEAN
    PROVE  LET r == SocketClosed(s, code, ok)
           IN  ~r.hello /\ r.page = s.page /\ (r.conn = 0 \/ r.epoch = s.epoch + 1)
<1>1. PICK t \in Tabs : t = [s EXCEPT !.healthy = FALSE]
  BY DEF Tabs
<1>2. /\ t.page = s.page /\ t.epoch = s.epoch /\ ~t.hello /\ t.conn = 0
      /\ t.terminal = s.terminal /\ t.manual = s.manual /\ t.pending = s.pending
  BY <1>1 DEF Tabs, Lost, Bare
<1>3. CASE code = 4002
  <2>1. SocketClosed(s, code, ok) = [t EXCEPT !.status = "terminal", !.terminal = TRUE, !.pending = "none"]
    BY <1>1, <1>3 DEF SocketClosed
  <2> QED BY <1>2, <2>1 DEF Tabs
<1>4. ASSUME NEW u \in Tabs, ~u.hello, u.page = s.page, u.conn = 0
      PROVE  LET r == DeferRetry(u) IN ~r.hello /\ r.page = s.page /\ r.conn = 0
  <2>1. PICK idle : idle = [u EXCEPT !.pending = "waiting", !.hiddenClosed = u.hidden,
                                     !.status = IF u.online THEN "idle" ELSE "offline"]
    OBVIOUS
  <2>2. ~idle.hello /\ idle.page = s.page /\ idle.conn = 0 /\ idle \in Tabs
    BY <1>4, <2>1, ZenonT(40) DEF Tabs, Status
  <2>3. CASE CanOpen(idle)
    <3>1. DeferRetry(u) = [idle EXCEPT !.status = "reconnecting", !.reconnect = idle.epoch]
      BY <2>1, <2>3 DEF DeferRetry, ScheduleReconnect
    <3> QED BY <2>2, <3>1 DEF Tabs
  <2>4. CASE ~CanOpen(idle)
    BY <2>1, <2>2, <2>4 DEF DeferRetry
  <2> QED BY <2>3, <2>4
<1>5. CASE code = 4009
  <2>1. SocketClosed(s, code, ok) = PayloadTooLarge(t)
    BY <1>1, <1>5 DEF SocketClosed
  <2>2. CASE t.payloadRetry
    <3>1. PICK u \in Tabs : u = [t EXCEPT !.payloadRetry = FALSE]
      BY DEF Tabs
    <3>2. ~u.hello /\ u.page = s.page /\ u.conn = 0
      BY <1>2, <3>1 DEF Tabs
    <3> QED BY <1>4, <2>1, <2>2, <3>1, <3>2 DEF PayloadTooLarge
  <2>3. CASE ~t.payloadRetry
    <3>1. PayloadTooLarge(t) = [t EXCEPT !.manual = TRUE, !.status = "idle", !.pending = "none"]
      BY <2>3 DEF PayloadTooLarge
    <3> QED BY <1>2, <2>1, <3>1 DEF Tabs
  <2> QED BY <2>2, <2>3
<1>6. CASE code = 4008
  <2>1. SocketClosed(s, code, ok) = DeferRetry(t)
    BY <1>1, <1>6 DEF SocketClosed
  <2> QED BY <1>2, <1>4, <2>1
<1>7. CASE code \in {1006, 4001} /\ ~Visible(t)
  <2>1. SocketClosed(s, code, ok) =
          [t EXCEPT !.status = IF t.online THEN "idle" ELSE "offline", !.hiddenClosed = t.hidden \/ @]
    BY <1>1, <1>7 DEF SocketClosed
  <2> QED BY <1>2, <2>1 DEF Tabs
<1>8. CASE code = 4001 /\ Visible(t)
  <2>1. SocketClosed(s, code, ok) = OpenSocket(t, ok)
    BY <1>1, <1>2, <1>8 DEF SocketClosed, Connect, Lost, CanOpen, Visible
  <2> QED BY <1>2, <2>1, OpenSilent
<1>9. CASE code = 1006 /\ Visible(t)
  <2>1. SocketClosed(s, code, ok) = [t EXCEPT !.status = "reconnecting", !.reconnect = t.epoch]
    BY <1>1, <1>9 DEF SocketClosed, ScheduleReconnect
  <2> QED BY <1>2, <2>1 DEF Tabs
<1> QED BY <1>3, <1>5, <1>6, <1>7, <1>8, <1>9 DEF Codes

\* Giving the connection up, for whatever reason.
LEMMA DisconnectLoses ==
    ASSUME LInv, tab.conn # 0, NEW code \in Codes, NEW ok \in BOOLEAN,
           tab' = Disconnected(tab, code, ok)
    PROVE  LostConnection /\ tab'.page = tab.page
<1>1. tab \in Tabs /\ Sound(tab)
  BY DEF LInv, Settled, Sound
<1>2. PICK b \in Tabs : b = RetireSocket(StopConnectionWork(tab))
  BY <1>1, Retired
<1>3. Lost(b) /\ b.epoch = tab.epoch /\ b.page = tab.page
  BY <1>1, <1>2, Retired DEF Lost, Sound
<1>4. tab' = SocketClosed(b, code, ok)
  BY <1>2 DEF Disconnected
<1>5. ~tab'.hello /\ tab'.page = tab.page /\ (tab'.conn = 0 \/ tab'.epoch = tab.epoch + 1)
  BY <1>3, <1>4, CloseSilent
<1>6. tab.epoch \in Nat
  BY <1>1 DEF Tabs
<1> QED BY <1>5, <1>6 DEF LostConnection

\* A page without a hello stays so when it is shown again; one with a connection keeps it.
LEMMA UnhideFacts == LInv /\ Unhide => SameConnection \/ NoHello
<1> SUFFICES ASSUME LInv, Unhide PROVE SameConnection \/ NoHello
  OBVIOUS
<1>1. tab \in Tabs /\ Sound(tab) /\ tab.page # "disposed" /\ tab.hidden
  BY DEF LInv, Settled, Sound, Unhide
<1>2. PICK s \in Tabs : s = [tab EXCEPT !.hidden = FALSE, !.healthy = FALSE, !.heard = FALSE]
  BY <1>1 DEF Tabs
<1>3. PICK ok1 \in BOOLEAN, ok2 \in BOOLEAN : tab' = Resume(Shown(s, ok1), ok2)
  BY <1>2 DEF Unhide, Step
<1>4. /\ ~s.hidden /\ s.measuring = tab.measuring /\ s.helloTimer = tab.helloTimer
      /\ s.epoch = tab.epoch /\ s.conn = tab.conn /\ s.reconnect = tab.reconnect
      /\ s.terminal = tab.terminal /\ s.manual = tab.manual
      /\ s.pending = tab.pending /\ s.hiddenClosed = tab.hiddenClosed
      /\ s.status = tab.status /\ s.hello = tab.hello /\ s.page = tab.page
      /\ s.online = tab.online
  BY <1>1, <1>2 DEF Tabs
<1>5. PICK m \in BOOLEAN : m = (s.measuring \/ (Active(s) /\ Visible(s)))
  OBVIOUS
<1>6. PICK v \in Tabs : v = [s EXCEPT !.measuring = m]
  BY DEF Tabs
<1>7. v.conn = s.conn /\ v.epoch = s.epoch /\ v.hello = s.hello /\ v.page = s.page
  BY <1>6 DEF Tabs
<1>8. CASE tab.conn = 0
  <2>1. Sound(s) /\ ~s.hello
    BY <1>1, <1>4, <1>8 DEF Sound
  <2>2. PICK w : w = Shown(s, ok1)
    OBVIOUS
  <2>3. w \in Tabs /\ ~w.hello
    <3>1. CASE (s.hiddenClosed \/ s.pending # "none") /\ CanOpen(s)
      <4>1. w = Connect(s, ok1)
        BY <2>2, <3>1 DEF Shown
      <4>2. w \in Tabs
        BY <2>1, <4>1, ConnectSettles DEF Settled, Sound
      <4> QED BY <2>1, <4>1, <4>2, ConnectSilent
    <3>2. CASE ~((s.hiddenClosed \/ s.pending # "none") /\ CanOpen(s))
      <4>1. w = v
        BY <1>5, <1>6, <2>2, <3>2 DEF Shown
      <4> QED BY <1>7, <2>1, <4>1
    <3> QED BY <3>1, <3>2
  <2>4. tab' = Resume(w, ok2)
    BY <1>3, <2>2
  <2>5. ~tab'.hello
    <3>1. CASE Visible(w) /\ w.conn = 0
      <4>1. tab' = Connect(w, ok2)
        BY <2>4, <3>1 DEF Resume
      <4> QED BY <2>3, <4>1, ConnectSilent
    <3>2. CASE Visible(w) /\ w.conn # 0
      <4>1. tab' = [w EXCEPT !.helloTimer = TRUE]
        BY <2>3, <2>4, <3>2 DEF Resume
      <4> QED BY <2>3, <4>1 DEF Tabs
    <3>3. CASE ~Visible(w)
      BY <2>3, <2>4, <3>3 DEF Resume
    <3> QED BY <3>1, <3>2, <3>3
  <2> QED BY <1>1, <1>4, <2>1, <2>5 DEF NoHello
<1>9. CASE tab.conn # 0
  <2>1. s.pending = "none" /\ ~s.hiddenClosed
    BY <1>1, <1>4, <1>9 DEF Sound
  <2>2. tab' = Resume(v, ok2)
    BY <1>3, <1>5, <1>6, <2>1 DEF Shown
  <2>3. tab' = v \/ tab' = [v EXCEPT !.helloTimer = TRUE]
    BY <1>4, <1>7, <1>9, <2>2 DEF Resume
  <2> QED BY <1>4, <1>7, <2>3 DEF SameConnection, Tabs
<1> QED BY <1>8, <1>9

\* Connecting by an event of the browser or by the timer is for a page without a
\* hello.
LEMMA ConnectFacts ==
    ASSUME LInv, Marked(tab, data), GoOnline \/ PageShow \/ ReconnectFires
    PROVE  NoHello
<1>1. tab \in Tabs /\ Sound(tab)
  BY DEF LInv, Settled, Sound
<1>2. CASE GoOnline
  <2>1. PICK s \in Tabs : s = [tab EXCEPT !.online = TRUE, !.healthy = FALSE]
    BY <1>1 DEF Tabs
  <2>2. PICK ok \in BOOLEAN : tab' = Connect(s, ok)
    BY <1>2, <2>1 DEF GoOnline, Step
  <2>3. ~tab.hello /\ tab.page # "disposed"
    BY <1>1, <1>2 DEF GoOnline, Sound
  <2>4. ~s.hello
    BY <2>1, <2>3 DEF Tabs
  <2> QED BY <2>2, <2>3, <2>4, ConnectSilent DEF NoHello
<1>3. CASE PageShow
  <2>1. PICK s \in Tabs : s = [tab EXCEPT !.page = "shown"]
    BY <1>1 DEF Tabs
  <2>2. PICK ok \in BOOLEAN : tab' = Connect(s, ok)
    BY <1>3, <2>1 DEF PageShow, Step
  <2>3. ~tab.hello /\ tab.page # "disposed"
    BY <1>3 DEF PageShow, Marked
  <2>4. ~s.hello
    BY <2>1, <2>3 DEF Tabs
  <2> QED BY <2>2, <2>3, <2>4, ConnectSilent DEF NoHello
<1>4. CASE ReconnectFires
  <2>1. PICK s \in Tabs : s = [tab EXCEPT !.reconnect = 0]
    BY <1>1 DEF Tabs
  <2>2. PICK ok \in BOOLEAN : tab' = Connect(s, ok) \/ tab' = s
    BY <1>4, <2>1 DEF ReconnectFires, Step
  <2>3. ~tab.hello /\ tab.page # "disposed"
    BY <1>1, <1>4 DEF ReconnectFires, Sound
  <2>4. ~s.hello
    BY <2>1, <2>3 DEF Tabs
  <2> QED BY <2>2, <2>3, <2>4, ConnectSilent DEF NoHello
<1> QED BY <1>2, <1>3, <1>4

\* What the browser takes away, and the end of the page.
LEMMA BrowserFacts == LInv /\ (GoOffline \/ PageHide \/ Dispose) => LostConnection
<1> SUFFICES ASSUME LInv, GoOffline \/ PageHide \/ Dispose PROVE LostConnection
  OBVIOUS
<1>1. tab \in Tabs /\ Sound(tab) /\ tab.page # "disposed"
  BY DEF LInv, Settled, Sound, GoOffline, PageHide, Dispose
<1>2. PICK b \in Tabs : b = RetireSocket(StopConnectionWork(tab))
  BY <1>1, Retired
<1>3. b.conn = 0 /\ ~b.hello
  BY <1>1, <1>2, Retired DEF Bare
<1>4. \/ tab' = [b EXCEPT !.online = FALSE, !.healthy = FALSE, !.status = "offline"]
      \/ tab' = [b EXCEPT !.page = "gone", !.healthy = FALSE, !.status = "idle"]
      \/ tab' = [b EXCEPT !.page = "disposed", !.status = "terminal", !.healthy = FALSE]
  BY <1>2 DEF GoOffline, PageHide, Dispose, Step, CloseForBrowser
<1>5. tab'.conn = 0 /\ ~tab'.hello
  BY <1>3, <1>4 DEF Tabs
<1>6. tab.hello => tab.conn # 0
  BY <1>1 DEF Sound
<1> QED BY <1>1, <1>5, <1>6 DEF LostConnection

\* The Retry control: a live page keeps its connection, one without a hello gets none.
LEMMA RetryFacts ==
    LInv /\ Retry => IF Active(tab) THEN SameConnection ELSE NoHello
<1> SUFFICES ASSUME LInv, Retry PROVE IF Active(tab) THEN SameConnection ELSE NoHello
  OBVIOUS
<1>1. tab \in Tabs /\ Sound(tab) /\ tab.page # "disposed"
  BY DEF LInv, Settled, Sound, Retry
<1>2. CASE Active(tab)
  <2>1. tab' = [tab EXCEPT !.healthy = FALSE]
    BY <1>2 DEF Retry, Step
  <2> QED BY <1>1, <1>2, <2>1 DEF SameConnection, Tabs
<1>3. CASE ~Active(tab)
  <2>1. ~tab.hello
    BY <1>1, <1>3 DEF Sound, Active
  <2>2. PICK s \in Tabs : s = [tab EXCEPT !.manual = FALSE, !.payloadRetry = TRUE]
    BY <1>1 DEF Tabs
  <2>3. PICK ok \in BOOLEAN : tab' = OpenSocket(s, ok) \/ tab' = Connect(tab, ok)
    BY <1>3, <2>2 DEF Retry, Step
  <2>4. ~tab'.hello
    BY <1>1, <2>1, <2>2, <2>3, OpenSilent, ConnectSilent
  <2> QED BY <1>1, <1>3, <2>1, <2>4 DEF NoHello
<1> QED BY <1>2, <1>3

-----------------------------------------------------------------------------
(* The steps of the page. *)

\* The end of every handler keeps what holds of what it publishes.
LEMMA PublishesKeeps ==
    ASSUME NEW d, Marked(tab', d), Publishes(d)
    PROVE  Marked(tab, data)'
<1>1. Marked(tab', Built(tab', d))
  BY BuiltKeeps
<1>2. data' = Built(tab', d)
  BY DEF Publishes
<1> QED BY <1>1, <1>2 DEF Marked

\* The page shown, connected, or told by its timer to connect.
LEMMA ConnectingStep ==
    ASSUME LInv, Marked(tab, data), OnUnhide \/ OnConnect \/ OnReconnect
    PROVE  Marked(tab, data)'
<1>1. SameConnection \/ NoHello
  BY UnhideFacts, ConnectFacts DEF OnUnhide, OnConnect, OnReconnect
<1>2. PICK c : c = Carried(data)
  OBVIOUS
<1>3. Marked(tab', c)
  BY <1>1, <1>2, CarriedKeeps
<1>4. Marked(tab', [c EXCEPT !.condition = "waiting"])
  <2>1. PICK e : e = [c EXCEPT !.condition = "waiting"]
    OBVIOUS
  <2>2. e \in Data /\ e.part = c.part /\ e.stale = c.stale
    BY <1>3, <2>1 DEF Marked, Data
  <2> QED BY <1>3, <2>1, <2>2 DEF Marked
<1> QED BY <1>2, <1>3, <1>4, PublishesKeeps DEF OnUnhide, OnConnect, OnReconnect

\* The connection lost: what the page holds is marked before it becomes cached.
LEMMA LosingStep ==
    ASSUME LInv, Marked(tab, data), OnBrowserClose \/ OnClose \/ OnHelloTimeout \/ OnSilence
    PROVE  Marked(tab, data)'
<1>1. ASSUME NEW d, Marked(tab, d), (\E p \in Parts : d.part[p].holds # "nothing") => d.stale,
             LostConnection, Publishes(Carried(d))
      PROVE  Marked(tab, data)'
  BY <1>1, LostKeeps, PublishesKeeps
<1>2. CASE OnBrowserClose
  BY <1>1, <1>2, MarkFacts, BrowserFacts DEF OnBrowserClose
<1>3. tab.helloTimer \/ tab.measuring => tab.conn # 0
  BY DEF LInv, Settled, Sound
<1>4. 1006 \in Codes
  BY DEF Codes
<1>5. CASE OnClose \/ OnHelloTimeout
  <2>1. LostConnection /\ Publishes(Carried(Disconnect(data)))
    BY <1>3, <1>4, <1>5, DisconnectLoses
       DEF OnClose, OnHelloTimeout, Close, HelloTimeout, HelloOverdue, Step
  <2>2. PICK c : c = data.condition
    OBVIOUS
  <2> QED BY <1>1, <2>1, <2>2, DisconnectFacts
<1>6. CASE OnSilence
  <2>1. LostConnection
    BY <1>3, <1>4, <1>6, DisconnectLoses DEF OnSilence, Silence, Step
  <2> QED BY <1>1, <1>6, <2>1, DisconnectFacts DEF OnSilence
<1> QED BY <1>2, <1>5, <1>6

\* A hello, and the Retry control.
LEMMA LoadingStep ==
    ASSUME LInv, Marked(tab, data), OnHello \/ OnRetry
    PROVE  Marked(tab, data)'
<1>1. CASE OnHello
  <2>1. ~tab.hello /\ tab.page = "shown" /\ tab' = Live(tab) /\ tab \in Tabs
    BY <1>1 DEF OnHello, Running, ReceiveHello, Step, LInv, Settled, Sound
  <2>2. tab'.page = "shown"
    BY <2>1 DEF Live, Tabs
  <2>3. PICK new \in BOOLEAN : Publishes(Greeted(data, new))
    BY <1>1 DEF OnHello
  <2>4. Marked(tab', Greeted(data, new))
    BY <2>1, <2>2, GreetedKeeps
  <2> QED BY <2>3, <2>4, PublishesKeeps
<1>2. CASE OnRetry
  <2>1. CASE Active(tab)
    <3>1. Loads(data, Bootstrap(data, FALSE))
      BY BootstrapFacts DEF Marked
    <3>2. Marked(tab', Bootstrap(data, FALSE))
      BY <1>2, <2>1, <3>1, RetryFacts, LoadsKeeps, SamePageKeeps DEF OnRetry, SameConnection
    <3> QED BY <1>2, <2>1, <3>2, PublishesKeeps DEF OnRetry
  <2>2. CASE ~Active(tab)
    <3>1. PICK e : e = [data EXCEPT !.manualBootstrap = TRUE]
      OBVIOUS
    <3>2. e \in Data /\ e.part = data.part /\ e.stale = data.stale
      BY <3>1 DEF Marked, Data
    <3>3. Marked(tab, e)
      BY <3>2 DEF Marked
    <3> QED BY <1>2, <2>2, <3>1, <3>3, RetryFacts, CarriedKeeps, PublishesKeeps DEF OnRetry
  <2> QED BY <2>1, <2>2
<1> QED BY <1>1, <1>2

\* A data event leaves the connection as it is.
LEMMA DataEventKeeps ==
    ASSUME LInv, NEW d, NEW message \in BOOLEAN, Marked(tab, d), DataEvent(d, message)
    PROVE  Marked(tab, data)'
<1>1. tab \in Tabs
  BY DEF LInv, Settled, Sound
<1>2. tab'.hello = tab.hello /\ tab'.page = tab.page
  BY <1>1 DEF DataEvent, Publish, Step, Tabs
<1> QED BY <1>2, SamePageKeeps, PublishesKeeps DEF DataEvent

\* One part loads again, the candles perhaps for another selection.
LEMMA PartLoads ==
    ASSUME NEW s, NEW d, Marked(s, d), NEW p \in Parts, NEW part \in Part, NEW e,
           \/ e = [d EXCEPT !.part[p] = part]
           \/ e = [d EXCEPT !.matches = TRUE, !.part[p] = part],
           part.holds \in {"nothing", d.part[p].holds}, part.status # "ready"
    PROVE  Marked(s, e)
<1>1. d \in Data
  BY DEF Marked
<1>2. PICK f \in [Parts -> Part] : f = [d.part EXCEPT ![p] = part]
  BY <1>1 DEF Data
<1>3. e = [d EXCEPT !.part = f] \/ e = [d EXCEPT !.matches = TRUE, !.part = f]
  BY <1>2
<1>4. e \in Data /\ e.stale = d.stale /\ e.part = f
  BY <1>1, <1>3 DEF Data
<1>5. \A q \in Parts : f[q] = IF q = p THEN part ELSE d.part[q]
  BY <1>1, <1>2 DEF Data
<1>6. Loads(d, e)
  BY <1>4, <1>5 DEF Loads
<1> QED BY <1>6, LoadsKeeps

\* An answer, on a page with a hello.
LEMMA AnswerStep ==
    ASSUME LInv, Marked(tab, data), NEW p \in Parts, Answer(p)
    PROVE  Marked(tab, data)'
<1>1. data \in Data /\ data.part[p] \in Part /\ tab.hello
  BY DEF Marked, Data, Answer, Active
<1>2. PICK part \in Part : part = Accepted(data.part[p])
  BY <1>1, PartFacts
<1>3. part.holds = "fresh"
  BY <1>1, <1>2, PartFacts
<1>4. PICK e : e = [data EXCEPT !.part[p] = part]
  OBVIOUS
<1>5. e \in Data /\ e.stale = data.stale /\ e.part = [data.part EXCEPT ![p] = part]
  BY <1>1, <1>4 DEF Data
<1>6. \A q \in Parts : e.part[q] = IF q = p THEN part ELSE data.part[q]
  BY <1>1, <1>5 DEF Data
<1>7. Marked(tab, e)
  BY <1>1, <1>3, <1>5, <1>6 DEF Marked
<1>8. DataEvent(e, FALSE)
  BY <1>2, <1>4 DEF Answer
<1> QED BY <1>7, <1>8, DataEventKeeps

\* A part that loads again: a failed request, a resync, another selection.
LEMMA ResyncStep ==
    ASSUME LInv, Marked(tab, data),
           (\E p \in Parts : Failure(p)) \/ ResyncBook \/ ResyncCandles \/ SelectInterval
    PROVE  Marked(tab, data)'
<1>1. data \in Data /\ \A p \in Parts : data.part[p] \in Part
  BY DEF Marked, Data
<1>2. ASSUME NEW p \in Parts, Failure(p)
      PROVE  Marked(tab, data)'
  <2>1. PICK part \in Part : part = NextAttempt(data.part[p])
    BY <1>1, PartFacts
  <2>2. part.status # "ready" /\ part.holds = data.part[p].holds
    BY <1>1, <2>1, PartFacts
  <2>3. PICK e : e = [data EXCEPT !.part[p] = part]
    OBVIOUS
  <2>4. DataEvent(e, FALSE)
    BY <1>2, <2>1, <2>3 DEF Failure
  <2>5. Marked(tab, e)
    BY <2>2, <2>3, PartLoads
  <2> QED BY <2>4, <2>5, DataEventKeeps
<1>3. "book" \in Parts /\ "candles" \in Parts
  BY DEF Parts
<1>4. CASE ResyncBook
  <2>1. PICK part \in Part : part = NextAttempt(data.part["book"])
    BY <1>1, <1>3, PartFacts
  <2>2. part.status # "ready" /\ part.holds = data.part["book"].holds
    BY <1>1, <1>3, <2>1, PartFacts
  <2>3. PICK e : e = [data EXCEPT !.part["book"] = part]
    OBVIOUS
  <2>4. DataEvent(e, TRUE)
    BY <1>4, <2>1, <2>3 DEF ResyncBook
  <2>5. Marked(tab, e)
    BY <1>3, <2>2, <2>3, PartLoads
  <2> QED BY <2>4, <2>5, DataEventKeeps
<1>5. CASE ResyncCandles
  <2>1. PICK part \in Part : part = Emptied(NextAttempt(data.part["candles"]))
    BY <1>1, <1>3, PartFacts
  <2>2. part.status # "ready" /\ part.holds = "nothing"
    BY <1>1, <1>3, <2>1, PartFacts
  <2>3. PICK e : e = [data EXCEPT !.matches = TRUE, !.part["candles"] = part]
    OBVIOUS
  <2>4. DataEvent(e, TRUE)
    BY <1>5, <2>1, <2>3 DEF ResyncCandles
  <2>5. Marked(tab, e)
    BY <1>3, <2>2, <2>3, PartLoads
  <2> QED BY <2>4, <2>5, DataEventKeeps
<1>6. CASE SelectInterval /\ Active(tab)
  <2>1. PICK part \in Part : part = Emptied(Start(data.part["candles"]))
    BY <1>1, <1>3, PartFacts
  <2>2. part.status # "ready" /\ part.holds = "nothing"
    BY <1>1, <1>3, <2>1, PartFacts
  <2>3. PICK e : e = [data EXCEPT !.matches = TRUE, !.part["candles"] = part]
    OBVIOUS
  <2>4. DataEvent(e, FALSE)
    BY <1>6, <2>1, <2>3 DEF SelectInterval
  <2>5. Marked(tab, e)
    BY <1>3, <2>2, <2>3, PartLoads
  <2> QED BY <2>4, <2>5, DataEventKeeps
<1>7. CASE SelectInterval /\ ~Active(tab)
  <2>1. PICK same \in BOOLEAN : DataEvent([data EXCEPT !.matches = same], FALSE)
    BY <1>7 DEF SelectInterval
  <2>2. PICK e : e = [data EXCEPT !.matches = same]
    OBVIOUS
  <2>3. e \in Data /\ e.part = data.part /\ e.stale = data.stale
    BY <1>1, <2>2 DEF Data
  <2>4. Marked(tab, e)
    BY <2>3 DEF Marked
  <2> QED BY <2>1, <2>2, <2>4, DataEventKeeps
<1> QED BY <1>2, <1>4, <1>5, <1>6, <1>7

\* What a message or the health interval says of the feed.
LEMMA EvidenceStep ==
    ASSUME LInv, Marked(tab, data),
           (\E ready, advances \in BOOLEAN : Message(ready, advances)) \/ FeedDelayed
    PROVE  Marked(tab, data)'
<1>1. ASSUME NEW r \in BOOLEAN, NEW c \in {"waiting", "live", "stale", "feed-delayed"}
      PROVE  Marked(tab, [data EXCEPT !.feedReady = r, !.condition = c])
  <2>1. PICK e : e = [data EXCEPT !.feedReady = r, !.condition = c]
    OBVIOUS
  <2>2. e \in Data /\ e.part = data.part /\ e.stale = data.stale
    BY <2>1 DEF Marked, Data
  <2> QED BY <2>1, <2>2 DEF Marked
<1>2. data.condition \in {"waiting", "live", "stale", "feed-delayed"} /\ data.feedReady \in BOOLEAN
  BY DEF Marked, Data
<1>3. CASE \E ready, advances \in BOOLEAN : Message(ready, advances)
  <2>1. PICK ready \in BOOLEAN, advances \in BOOLEAN : Message(ready, advances)
    BY <1>3
  <2>2. PICK c \in {"waiting", "live", "stale", "feed-delayed"} :
           c = IF advances /\ ~tab.hidden THEN "live" ELSE data.condition
    BY <1>2
  <2>3. DataEvent([data EXCEPT !.feedReady = ready, !.condition = c], TRUE)
    BY <2>1, <2>2 DEF Message
  <2> QED BY <1>1, <2>3, DataEventKeeps
<1>4. CASE FeedDelayed
  <2>1. DataEvent([data EXCEPT !.condition = "feed-delayed"], FALSE)
    BY <1>4 DEF FeedDelayed
  <2>2. [data EXCEPT !.condition = "feed-delayed"]
          = [data EXCEPT !.feedReady = data.feedReady, !.condition = "feed-delayed"]
    BY DEF Marked, Data
  <2> QED BY <1>1, <1>2, <2>1, <2>2, DataEventKeeps
<1> QED BY <1>3, <1>4

\* The steps nobody sees, the end of the page and the frame.
LEMMA QuietStep ==
    ASSUME LInv, Marked(tab, data), Unseen \/ OnDispose \/ Frame \/ UNCHANGED <<vars, pageVars>>
    PROVE  Marked(tab, data)'
<1>1. tab \in Tabs
  BY DEF LInv, Settled, Sound
<1>2. CASE Unseen
  <2>1. tab'.hello = tab.hello /\ tab'.page = tab.page /\ data' = data
    BY <1>1, <1>2 DEF Unseen, LinkDies, DeadlinePasses, Step, pageVars, Tabs
  <2> QED BY <2>1, SamePageKeeps
<1>3. CASE OnDispose
  <2>1. PICK b \in Tabs : b = RetireSocket(StopConnectionWork(tab))
    BY <1>1, Retired
  <2>2. tab' = [b EXCEPT !.page = "disposed", !.status = "terminal", !.healthy = FALSE]
    BY <1>3, <2>1 DEF OnDispose, Dispose
  <2>3. tab'.page = "disposed"
    BY <2>2 DEF Tabs
  <2> QED BY <1>3, <2>3, BrowserFacts, LostKeeps DEF OnDispose
<1>4. CASE Frame \/ UNCHANGED <<vars, pageVars>>
  BY <1>4 DEF Frame, vars, pageVars
<1> QED BY <1>2, <1>3, <1>4

\* A page starts with nothing.
LEMMA PageInitMarked == PageInit => Marked(tab, data)
<1> SUFFICES ASSUME PageInit PROVE Marked(tab, data)
  OBVIOUS
<1>1. NewPart \in Part /\ NewPart.status = "idle" /\ NewPart.holds = "nothing"
  BY PageAssumption DEF NewPart, Part
<1>2. data \in Data /\ data.part = [p \in Parts |-> NewPart]
  BY <1>1 DEF PageInit, Data
<1>3. LInv
  BY InitSettles DEF PageInit
<1>4. PICK hidden \in BOOLEAN, online \in BOOLEAN : tab = Connect(NewTab(hidden, online), TRUE)
  BY DEF PageInit, Init
<1>5. PICK s \in Tabs : s = NewTab(hidden, online)
  BY DEF NewTab, Tabs, Status
<1>6. ~s.hello
  BY <1>5 DEF NewTab
<1>7. ~tab.hello
  BY <1>4, <1>5, <1>6, ConnectSilent
<1> QED BY <1>1, <1>2, <1>7 DEF Marked

\* The invariant of the data on every connection.
LEMMA AlwaysMarked == PageSpec => [](LInv /\ Marked(tab, data))
<1>1. PageInit => Marked(tab, data)
  BY PageInitMarked
<1>2. LInv /\ Marked(tab, data) /\ [PageNext]_<<vars, pageVars>> => Marked(tab, data)'
  <2> SUFFICES ASSUME LInv, Marked(tab, data), [PageNext]_<<vars, pageVars>>
               PROVE  Marked(tab, data)'
    OBVIOUS
  <2>1. CASE OnHide
    <3>1. tab'.hello = tab.hello /\ tab'.page = tab.page
      BY <2>1 DEF OnHide, Hide, Step, LInv, Settled, Sound, Tabs
    <3> QED BY <2>1, <3>1, SamePageKeeps, PublishesKeeps DEF OnHide
  <2>2. CASE OnUnhide \/ OnConnect \/ OnReconnect
    BY <2>2, ConnectingStep
  <2>3. CASE OnBrowserClose \/ OnClose \/ OnHelloTimeout \/ OnSilence
    BY <2>3, LosingStep
  <2>4. CASE OnHello \/ OnRetry
    BY <2>4, LoadingStep
  <2>5. CASE Answers
    BY <2>5, AnswerStep DEF Answers
  <2>6. CASE (\E p \in Parts : Failure(p)) \/ ResyncBook \/ ResyncCandles \/ SelectInterval
    BY <2>6, ResyncStep
  <2>7. CASE (\E ready, advances \in BOOLEAN : Message(ready, advances)) \/ FeedDelayed
    BY <2>7, EvidenceStep
  <2>8. CASE Unseen \/ OnDispose \/ Frame \/ UNCHANGED <<vars, pageVars>>
    BY <2>8, QuietStep
  <2> QED BY <2>1, <2>2, <2>3, <2>4, <2>5, <2>6, <2>7, <2>8 DEF PageNext
<1> QED BY <1>1, <1>2, PageImplementsLifecycle, LifecycleInvariance, PTL DEF PageSpec

\* README: the browser shows cached values as stale after a disconnect, whatever
\* the order of losses, hellos and answers.
THEOREM CachedAlwaysMarked == PageSpec => []CachedIsMarked
<1>1. Marked(tab, data) => CachedIsMarked
  BY DEF Marked, CachedIsMarked
<1> QED BY <1>1, AlwaysMarked, PTL

-----------------------------------------------------------------------------
(* What the screen shows. *)

\* The types, and the screen that shows the last snapshot, or will with the next
\* frame.
Showing ==
    /\ nudges \in 0 .. MaxNudges
    /\ pending \in Snapshots \cup {none} /\ screen \in Snapshots
    /\ tab.page # "disposed" =>
         Snapshot(tab, data) = IF pending = none THEN screen ELSE pending

\* A snapshot has its type, and is one.
LEMMA SnapshotType ==
    ASSUME NEW s, NEW d
    PROVE  Snapshot(s, d) \in Snapshots /\ Snapshot(s, d) # none
<1>1. StatusLabel(s, d) \in Labels
  BY DEF StatusLabel, Labels
<1>2. Cached(d) \in BOOLEAN
  BY DEF Cached
<1>3. Snapshot(s, d) \in Snapshots
  BY <1>1, <1>2 DEF Snapshot, Snapshots
<1>4. DOMAIN Snapshot(s, d) = {"label", "cached"} /\ DOMAIN none = {"snapshot"}
  BY DEF Snapshot, none
<1> QED BY <1>3, <1>4

\* What every handler but the last does to it.
LEMMA PublishesShows ==
    ASSUME NEW d, Publishes(d), Showing, nudges' \in 0 .. MaxNudges
    PROVE  Showing'
BY SnapshotType DEF Publishes, Queue, Showing

\* Every step of the page.
LEMMA ShowsStep ==
    ASSUME LInv, Showing, [PageNext]_<<vars, pageVars>>
    PROVE  Showing'
<1>1. nudges \in 0 .. MaxNudges /\ (Nudge => nudges' \in 0 .. MaxNudges)
  BY PageAssumption DEF Showing, Nudge
<1>2. CASE OnHide \/ OnUnhide \/ OnConnect \/ OnReconnect \/ OnBrowserClose \/ OnClose
  BY <1>1, <1>2, PublishesShows
     DEF OnHide, OnUnhide, OnConnect, OnReconnect, OnBrowserClose, OnClose
<1>3. CASE OnHelloTimeout \/ OnSilence \/ OnHello \/ OnRetry
  BY <1>1, <1>3, PublishesShows DEF OnHelloTimeout, OnSilence, OnHello, OnRetry
<1>4. ASSUME NEW d, NEW message, DataEvent(d, message)
      PROVE  Publishes(d)
  BY <1>4 DEF DataEvent
<1>5. CASE Answers \/ (\E p \in Parts : Failure(p))
  BY <1>1, <1>4, <1>5, PublishesShows DEF Answers, Answer, Failure
<1>6. CASE ResyncBook \/ ResyncCandles \/ SelectInterval
  BY <1>1, <1>4, <1>6, PublishesShows DEF ResyncBook, ResyncCandles, SelectInterval
<1>7. CASE (\E ready, advances \in BOOLEAN : Message(ready, advances)) \/ FeedDelayed
  BY <1>1, <1>4, <1>7, PublishesShows DEF Message, FeedDelayed
<1>8. CASE Unseen
  <2>1. PICK s : s = tab'
    OBVIOUS
  <2>2. /\ s.terminal = tab.terminal /\ s.manual = tab.manual /\ s.online = tab.online
        /\ s.status = tab.status /\ s.conn = tab.conn /\ s.hello = tab.hello
        /\ s.hidden = tab.hidden /\ s.page = tab.page
    BY <1>8, <2>1 DEF Unseen, LinkDies, DeadlinePasses, Step, LInv, Settled, Sound, Tabs
  <2>3. Snapshot(s, data) = Snapshot(tab, data)
    BY <2>2 DEF Snapshot, StatusLabel, ManualRetryRequired, LiveEligible, BootstrapReady,
                Active, Visible
  <2> QED BY <1>8, <2>1, <2>2, <2>3 DEF Unseen, pageVars, Showing
<1>9. CASE OnDispose
  <2>1. PICK b \in Tabs : b = RetireSocket(StopConnectionWork(tab))
    BY Retired DEF LInv, Settled, Sound
  <2>2. tab' = [b EXCEPT !.page = "disposed", !.status = "terminal", !.healthy = FALSE]
    BY <1>9, <2>1 DEF OnDispose, Dispose
  <2>3. tab'.page = "disposed"
    BY <2>2 DEF Tabs
  <2> QED BY <1>9, <2>3 DEF OnDispose, Showing
<1>10. CASE Frame
  BY <1>10 DEF Frame, Showing, vars
<1>11. CASE UNCHANGED <<vars, pageVars>>
  BY <1>11 DEF Showing, vars, pageVars
<1> QED
  BY <1>2, <1>3, <1>5, <1>6, <1>7, <1>8, <1>9, <1>10, <1>11 DEF PageNext

\* "Live" is only said over data that were all fetched on this connection and are
\* not marked, and the screen says what the page last published.
THEOREM LiveAlwaysCurrent == PageSpec => []LiveIsCurrent
<1>1. PageInit => Showing
  <2> SUFFICES ASSUME PageInit PROVE Showing
    OBVIOUS
  <2>1. pending = Snapshot(tab, data) /\ pending # none /\ pending \in Snapshots
    BY SnapshotType DEF PageInit
  <2>2. screen \in Snapshots
    BY DEF PageInit, Snapshots, Labels
  <2>3. nudges \in 0 .. MaxNudges
    <3>1. nudges = MaxNudges
      BY DEF PageInit
    <3>2. MaxNudges \in 0 .. MaxNudges
      BY PageAssumption
    <3> QED BY <3>1, <3>2
  <2> QED BY <2>1, <2>2, <2>3 DEF Showing
<1>2. LInv /\ Showing /\ [PageNext]_<<vars, pageVars>> => Showing'
  BY ShowsStep
<1>3. LInv /\ Marked(tab, data) /\ Showing => LiveIsCurrent
  <2> SUFFICES ASSUME LInv, Marked(tab, data), Showing PROVE LiveIsCurrent
    OBVIOUS
  <2>1. PageTypeOK
    BY DEF PageTypeOK, Showing, Marked
  <2>2. ASSUME StatusLabel(tab, data) = "Live"
        PROVE  /\ tab.conn # 0 /\ tab.online /\ ~data.stale
               /\ \A p \in Parts : data.part[p].holds = "fresh"
    <3>1. LiveEligible(tab, data)
      BY <2>2 DEF StatusLabel
    <3> QED BY <3>1 DEF LiveEligible, BootstrapReady, Active, Visible, Marked
  <2> QED BY <2>1, <2>2 DEF LiveIsCurrent, Showing
<1> QED BY <1>1, <1>2, <1>3, AlwaysMarked, PTL DEF PageSpec

=============================================================================
