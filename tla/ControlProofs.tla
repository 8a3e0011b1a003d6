--------------------------- MODULE ControlProofs ---------------------------
(* Proofs about Control and Telemetry, for any writers, sessions, requests   *)
(* and depths of the rings.                                                  *)
EXTENDS Control, FiniteSetTheorems, TLAPS

Writer == Prober \cup Watcher

-----------------------------------------------------------------------------
(* The reachability row.                                                     *)

rowVars == <<row, ticket, task, heard, lost, ponged>>

RowTypeOK ==
    /\ row \in Row \cup {NoRow} /\ ticket \in 1 .. MaxTicket
    /\ task \in [Writer -> Tasks]
    /\ heard \in Nat /\ lost \in BOOLEAN /\ ponged \in BOOLEAN

(* Tickets are drawn once: those in use are below the counter, and no        *)
(* writer's start coincides with a commit.                                   *)
TicketInv ==
    /\ heard < ticket
    /\ row = NoRow => heard = 0 /\ ~lost /\ ~ponged
    /\ row # NoRow => row.seq < ticket /\ row.obs < ticket
    /\ row # NoRow /\ row.up /\ ~lost => heard = row.obs

TaskAt(w) ==
    /\ task[w].pc \in {"asked", "heard"} =>
          /\ 1 <= task[w].seq /\ task[w].seq < ticket
          /\ row # NoRow => task[w].seq # row.obs
          /\ \A v \in Writer : task[v].pc = "heard" => task[w].seq # task[v].obs
    /\ task[w].pc = "heard" => task[w].obs < ticket

RowInv ==
    /\ RowTypeOK /\ TicketInv
    /\ \A w \in Writer : TaskAt(w)
    /\ NoFalseOffline /\ PongKept

LEMMA Typed ==
  /\ Resting \in Tasks /\ Resting.pc = "rest"
  /\ \A r \in Row : /\ r.up \in BOOLEAN /\ r.pong \in BOOLEAN /\ r.path \in Path
                    /\ r.seq \in Nat /\ r.obs \in Nat
  /\ \A t \in Tasks : t.up \in BOOLEAN /\ t.path \in Path /\ t.seq \in Nat /\ t.obs \in Nat
  BY DEF Resting, Tasks, Row, Path

LEMMA RowInit == Init => RowInv
  <1> SUFFICES ASSUME Init PROVE RowInv
    OBVIOUS
  <1> USE TelemetryAssumption, Typed DEF Init, TelemetryInit, Writer
  <1>0. ponged \in BOOLEAN /\ lost \in BOOLEAN
    BY Zenon
  <1>1. RowTypeOK
    BY <1>0 DEF RowTypeOK
  <1>2. TicketInv /\ NoFalseOffline /\ PongKept /\ \A w \in Writer : TaskAt(w)
    BY DEF TicketInv, NoFalseOffline, PongKept, TaskAt
  <1> QED
    BY <1>1, <1>2 DEF RowInv

(* Ask: a fresh ticket is above every one in use. *)
LEMMA AskKeeps ==
  ASSUME RowInv, NEW w \in Writer, Ask(w)
  PROVE  RowInv'
  <1> DEFINE r == [Resting EXCEPT !.pc = "asked", !.seq = ticket]
  <1>r. task' = [task EXCEPT ![w] = r]
    BY DEF Ask
  <1>n. ticket \in Nat
    BY TelemetryAssumption DEF RowInv, RowTypeOK
  <1>s. r \in Tasks /\ r.pc = "asked" /\ r.seq = ticket
    <2>1. Resting \in Tasks
      BY Typed
    <2>2. r \in Tasks
      BY <1>n, <2>1 DEF Tasks
    <2>3. r.pc = "asked" /\ r.seq = ticket
      BY <2>1 DEF Tasks
    <2> QED
      BY <2>2, <2>3
  <1> HIDE DEF r
  <1>f. /\ task' \in [Writer -> Tasks] /\ \A v \in Writer \ {w} : task'[v] = task[v]
        /\ task'[w].pc = "asked" /\ task'[w].seq = ticket
        /\ ticket' = ticket + 1 /\ ticket < MaxTicket /\ UNCHANGED <<row, heard, lost, ponged>>
    BY <1>r, <1>s DEF Ask, RowInv, RowTypeOK
  <1> USE TelemetryAssumption, Typed, <1>f DEF RowInv, RowTypeOK
  <1>1. RowTypeOK'
    OBVIOUS
  <1>2. TicketInv'
    BY DEF TicketInv
  <1>3. \A v \in Writer : TaskAt(v)'
    BY DEF TaskAt, TicketInv
  <1>4. NoFalseOffline' /\ PongKept'
    BY DEF NoFalseOffline, PongKept
  <1> QED
    BY <1>1, <1>2, <1>3, <1>4

(* Quit and Send: a writer comes to rest. *)
LEMMA RestKeeps ==
  ASSUME RowInv, NEW w \in Writer, Quit(w) \/ Send(w)
  PROVE  RowInv'
  <1>f. /\ task' \in [Writer -> Tasks] /\ \A v \in Writer \ {w} : task'[v] = task[v]
        /\ task'[w].pc = "rest" /\ UNCHANGED <<row, ticket, heard, lost, ponged>>
    BY Typed DEF Quit, Send, Rest, RowInv, RowTypeOK
  <1> QED
    BY <1>f DEF RowInv, RowTypeOK, TicketInv, TaskAt, NoFalseOffline, PongKept

(* Hear: the commit ticket is above every start. *)
LEMMA HearKeeps ==
  ASSUME RowInv, NEW p \in Prober, NEW up \in BOOLEAN, NEW path \in Path, Hear(p, up, path)
  PROVE  RowInv'
  <1>t. p \in Writer /\ task[p] \in Tasks
    BY DEF Writer, RowInv, RowTypeOK
  <1> DEFINE r == [task[p] EXCEPT !.pc = "heard", !.up = up, !.path = path, !.obs = ticket]
  <1>r. task' = [task EXCEPT ![p] = r]
    BY <1>t DEF Hear, RowInv, RowTypeOK
  <1>n. ticket \in Nat
    BY TelemetryAssumption DEF RowInv, RowTypeOK
  <1>s. r \in Tasks /\ r.pc = "heard" /\ r.seq = task[p].seq /\ r.obs = ticket
    <2>1. r \in Tasks
      BY <1>t, <1>n DEF Tasks
    <2>2. r.pc = "heard" /\ r.seq = task[p].seq /\ r.obs = ticket
      BY <1>t DEF Tasks
    <2> QED
      BY <2>1, <2>2
  <1> HIDE DEF r
  <1>f. /\ task' \in [Writer -> Tasks] /\ \A v \in Writer \ {p} : task'[v] = task[v]
        /\ task'[p].pc = "heard" /\ task'[p].seq = task[p].seq /\ task'[p].obs = ticket
        /\ task[p].pc = "asked"
        /\ ticket' = ticket + 1 /\ ticket < MaxTicket /\ UNCHANGED <<row, heard, lost, ponged>>
    <2>1. task \in [Writer -> Tasks]
      BY DEF RowInv, RowTypeOK
    <2>2. /\ task' \in [Writer -> Tasks] /\ \A v \in Writer \ {p} : task'[v] = task[v]
          /\ task'[p] = r
      BY <1>t, <1>r, <1>s, <2>1
    <2>3. /\ task[p].pc = "asked"
          /\ ticket' = ticket + 1 /\ ticket < MaxTicket /\ UNCHANGED <<row, heard, lost, ponged>>
      BY DEF Hear
    <2> QED
      BY <1>s, <2>2, <2>3
  <1> USE TelemetryAssumption, Typed, <1>t, <1>f DEF RowInv, RowTypeOK
  <1>1. RowTypeOK'
    OBVIOUS
  <1>2. TicketInv'
    BY DEF TicketInv
  <1>3. \A v \in Writer : TaskAt(v)'
    BY DEF TaskAt, TicketInv
  <1>4. NoFalseOffline' /\ PongKept'
    BY DEF NoFalseOffline, PongKept
  <1> QED
    BY <1>1, <1>2, <1>3, <1>4

(* CommitProbe: a failure replaces a reachable row only if the row was       *)
(* committed before the probe began.                                         *)
LEMMA CommitProbeKeeps ==
  ASSUME RowInv, NEW p \in Prober, CommitProbe(p)
  PROVE  RowInv'
  <1> DEFINE t == task[p]
             new == [up |-> t.up, path |-> t.path, seq |-> t.seq, obs |-> t.obs, pong |-> t.up]
  <1>t. p \in Writer /\ t \in Tasks /\ t.pc = "heard" /\ ticket' = ticket
    BY DEF Writer, RowInv, RowTypeOK, CommitProbe
  <1>n. new \in Row /\ new.up = t.up /\ new.seq = t.seq /\ new.obs = t.obs /\ new.pong = t.up
    BY <1>t, Typed DEF Row
  <1>o. /\ t.up => ponged'
        /\ ~t.up => ponged' = ponged
        /\ ponged' \in BOOLEAN
    BY <1>t DEF CommitProbe, RowInv, RowTypeOK
  <1>l. /\ heard' = IF t.up /\ t.obs > heard THEN t.obs ELSE heard
        /\ t.up => (lost' <=> ~row'.up \/ row'.obs # heard')
        /\ ~t.up => lost' = lost
        /\ lost' \in BOOLEAN
    <2>1. (~row'.up \/ row'.obs # heard') \in BOOLEAN
      BY Zenon
    <2> QED
      BY <1>t, <2>1 DEF CommitProbe, RowInv, RowTypeOK
  <1>f. /\ task' \in [Writer -> Tasks] /\ \A v \in Writer \ {p} : task'[v] = task[v]
        /\ task'[p].pc \in {"rest", "send"}
    <2>1. CASE Rest(p)
      BY <2>1, <1>t, Typed DEF Rest, RowInv, RowTypeOK
    <2>2. CASE task' = [task EXCEPT ![p].pc = "send"]
      BY <2>2, <1>t DEF Tasks, RowInv, RowTypeOK
    <2> QED
      BY <2>1, <2>2 DEF CommitProbe
  <1>1. CASE row # NoRow /\ ~Supersedes(t.seq, row)
    <2>1. row' = KeptPong(t, row) /\ row \in Row
      BY <1>1 DEF CommitProbe, RowInv, RowTypeOK
    <2>2. /\ row' \in Row /\ row' # NoRow
          /\ row'.up = row.up /\ row'.seq = row.seq /\ row'.obs = row.obs
          /\ row'.pong = (row.pong \/ (row.up /\ t.up))
      <3>1. CASE row.up /\ ~row.pong /\ t.up
        <4>1. row' = [row EXCEPT !.pong = TRUE]
          BY <3>1, <2>1 DEF KeptPong
        <4>2. row' \in Row
          BY <4>1, <2>1 DEF Row
        <4>3. row'.up = row.up /\ row'.seq = row.seq /\ row'.obs = row.obs
          BY <4>1, <2>1 DEF Row
        <4>4. row'.pong = TRUE
          BY <4>1, <2>1 DEF Row
        <4>5. row'.pong = (row.pong \/ (row.up /\ t.up))
          BY <3>1, <4>4
        <4> QED
          BY <4>2, <4>3, <4>5, RowAssumption
      <3>2. CASE ~(row.up /\ ~row.pong /\ t.up)
        BY <3>2, <1>1, <2>1, Typed DEF KeptPong
      <3> QED
        BY <3>1, <3>2
    <2> USE Typed, <1>t, <1>f, <1>o, <1>l, <1>1, <2>1, <2>2 DEF RowInv, RowTypeOK
    <2>3. RowTypeOK' /\ TicketInv'
      <3>1. t.obs < ticket /\ t.obs \in Nat /\ t.up \in BOOLEAN
        BY DEF TaskAt
      <3>2. RowTypeOK' /\ heard' < ticket'
        BY <3>1 DEF TicketInv
      <3>3. row'.up /\ ~lost' => heard' = row'.obs
        <4>1. CASE t.up
          BY <4>1
        <4>2. CASE ~t.up
          BY <4>2 DEF TicketInv
        <4> QED
          BY <3>1, <4>1, <4>2
      <3> QED
        BY <3>1, <3>2, <3>3 DEF TicketInv
    <2>4. \A v \in Writer : TaskAt(v)'
      BY DEF TaskAt
    <2>5. NoFalseOffline' /\ PongKept'
      BY DEF NoFalseOffline, PongKept
    <2> QED
      BY <2>3, <2>4, <2>5
  <1>2. CASE row # NoRow /\ Supersedes(t.seq, row) /\ ContradictedBy(t, row)
    <2>1. row' = row /\ ~t.up
      BY <1>2 DEF CommitProbe, ContradictedBy
    <2> USE Typed, <1>t, <1>f, <1>o, <1>l, <1>2, <2>1 DEF RowInv, RowTypeOK
    <2>3. RowTypeOK' /\ TicketInv'
      BY DEF TicketInv
    <2>4. \A v \in Writer : TaskAt(v)'
      BY DEF TaskAt
    <2>5. NoFalseOffline' /\ PongKept'
      BY DEF NoFalseOffline, PongKept
    <2> QED
      BY <2>3, <2>4, <2>5
  <1>3. CASE row = NoRow \/ (Supersedes(t.seq, row) /\ ~ContradictedBy(t, row))
    <2>1. row' = new
      BY <1>3 DEF CommitProbe
    <2>2. 1 <= t.seq /\ t.seq < ticket /\ t.obs < ticket /\ t.seq \in Nat /\ t.obs \in Nat
      BY <1>t, Typed DEF RowInv, TaskAt
    <2>a. row' \in Row /\ row' # NoRow
      BY <2>1, <1>n, RowAssumption
    <2> USE Typed, <1>t, <1>f, <1>o, <1>l, <1>n, <2>1, <2>2, <2>a DEF RowInv, RowTypeOK
    <2> HIDE DEF new
    <2>3. RowTypeOK' /\ TicketInv'
      BY DEF TicketInv
    <2>4. \A v \in Writer : TaskAt(v)'
      BY DEF TaskAt
    <2>5. NoFalseOffline'
      <3>1. CASE t.up
        BY <3>1 DEF NoFalseOffline
      <3>2. CASE ~t.up
        <4>1. lost \/ heard < t.seq
          BY <1>3, <3>2 DEF NoFalseOffline, TicketInv, Supersedes, ContradictedBy, TaskAt
        <4> QED
          BY <4>1, <3>2 DEF NoFalseOffline
      <3> QED
        BY <3>1, <3>2
    <2>6. PongKept'
      BY DEF PongKept
    <2> QED
      BY <2>3, <2>4, <2>5, <2>6
  <1> QED
    BY <1>1, <1>2, <1>3

(* CommitObservation: the watcher never turns a row unreachable. *)
LEMMA CommitObservationKeeps ==
  ASSUME RowInv, NEW w \in Watcher, NEW path \in Path, CommitObservation(w, path)
  PROVE  RowInv'
  <1> DEFINE t == task[w]
  <1>t. /\ w \in Writer /\ t \in Tasks /\ t.pc = "asked" /\ ponged' = ponged
        /\ ticket \in Nat /\ ticket < MaxTicket
    BY DEF Writer, RowInv, RowTypeOK, CommitObservation
  <1>s. t.seq \in Nat /\ 1 <= t.seq /\ t.seq < ticket
    BY <1>t, Typed DEF RowInv, TaskAt
  <1>1. CASE row # NoRow /\ (~Supersedes(t.seq, row) \/ row.path = path)
    <2>1. /\ task' \in [Writer -> Tasks] /\ \A v \in Writer \ {w} : task'[v] = task[v]
          /\ task'[w].pc = "rest" /\ UNCHANGED <<row, ticket, heard, lost>>
      BY <1>1, <1>t, Typed DEF CommitObservation, Rest, RowInv, RowTypeOK
    <2> QED
      BY <1>t, <2>1 DEF RowInv, RowTypeOK, TicketInv, TaskAt, NoFalseOffline, PongKept
  <1>2. CASE ~(row # NoRow /\ (~Supersedes(t.seq, row) \/ row.path = path))
    <2> DEFINE new == IF row = NoRow
                      THEN [up |-> TRUE, path |-> path, seq |-> t.seq, obs |-> ticket, pong |-> FALSE]
                      ELSE [row EXCEPT !.path = path, !.seq = t.seq, !.obs = ticket]
    <2>n. /\ new \in Row /\ new.seq = t.seq /\ new.obs = ticket
          /\ row = NoRow => new.up
          /\ row # NoRow => new.up = row.up /\ new.pong = row.pong
      <3>1. CASE row = NoRow
        BY <3>1, <1>t, <1>s DEF Row
      <3>2. CASE row # NoRow
        BY <3>2, <1>t, <1>s DEF Row, RowInv, RowTypeOK
      <3> QED
        BY <3>1, <3>2
    <2>1. /\ row' = new /\ ticket' = ticket + 1
          /\ heard' = IF new.up THEN ticket ELSE heard
          /\ lost' = (lost /\ ~new.up)
          /\ task' = [task EXCEPT ![w].pc = "send", ![w].up = new.up, ![w].path = path]
      BY <1>2 DEF CommitObservation
    <2> HIDE DEF new
    <2>f. /\ task' \in [Writer -> Tasks] /\ \A v \in Writer \ {w} : task'[v] = task[v]
          /\ task'[w].pc = "send"
      <3> DEFINE r == [t EXCEPT !.pc = "send", !.up = new.up, !.path = path]
      <3>1. task' = [task EXCEPT ![w] = r]
        BY <2>1, <1>t DEF RowInv, RowTypeOK
      <3>2. r \in Tasks /\ r.pc = "send"
        BY <1>t, <2>n, Typed DEF Tasks
      <3> HIDE DEF r
      <3> QED
        BY <1>t, <3>1, <3>2 DEF RowInv, RowTypeOK
    <2>a. row' \in Row /\ row' # NoRow
      BY <2>1, <2>n, RowAssumption
    <2> USE TelemetryAssumption, Typed, <1>t, <1>s, <2>n, <2>1, <2>f, <2>a DEF RowInv, RowTypeOK
    <2>3. RowTypeOK' /\ TicketInv'
      BY DEF TicketInv
    <2>4. \A v \in Writer : TaskAt(v)'
      BY DEF TaskAt
    <2>5. NoFalseOffline'
      BY <1>2 DEF NoFalseOffline, Supersedes
    <2>6. PongKept'
      BY DEF PongKept, TicketInv
    <2> QED
      BY <2>3, <2>4, <2>5, <2>6
  <1> QED
    BY <1>1, <1>2

(* Every other step leaves the row, its writers and the tickets alone. *)
LEMMA RowStep == RowInv /\ [Next]_vars => RowInv'
  <1> SUFFICES ASSUME RowInv, [Next]_vars PROVE RowInv'
    OBVIOUS
  <1>1. ASSUME NEW w \in Writer, Ask(w) \/ Quit(w) \/ Send(w) PROVE RowInv'
    BY <1>1, AskKeeps, RestKeeps
  <1>2. ASSUME NEW p \in Prober, CommitProbe(p) PROVE RowInv'
    BY <1>2, CommitProbeKeeps
  <1>3. ASSUME NEW p \in Prober, NEW up \in BOOLEAN, NEW path \in Path, Hear(p, up, path) PROVE RowInv'
    BY <1>3, HearKeeps
  <1>4. ASSUME NEW w \in Watcher, NEW path \in Path, CommitObservation(w, path) PROVE RowInv'
    BY <1>4, CommitObservationKeeps
  <1>5. CASE UNCHANGED rowVars
    BY <1>5 DEF rowVars, RowInv, RowTypeOK, TicketInv, TaskAt, NoFalseOffline, PongKept
  <1>6. \/ \E w \in Writer : Ask(w) \/ Quit(w) \/ Send(w)
        \/ \E p \in Prober : CommitProbe(p)
        \/ \E p \in Prober, up \in BOOLEAN, path \in Path : Hear(p, up, path)
        \/ \E w \in Watcher, path \in Path : CommitObservation(w, path)
        \/ UNCHANGED rowVars
    <2>1. CASE TelemetryNext
      BY <2>1 DEF TelemetryNext, Writer, rowVars, RecordOpen, InsertLive, RemoveLive, RecordClose,
         Tap, Snapshot, ForwardReach, ForwardAudit
    <2>2. CASE ~TelemetryNext
      BY <2>2 DEF Next, rowVars, vars, telemetry, ClientSends, ClientLeaves, ReadCall, ReadRefused,
         ReadShutdown, ReadEnd, Aborted, ReadUpgrade, Handled, Written, Returned, OpenSession,
         Subscribe, StreamEnds, Ended
    <2> QED
      BY <2>1, <2>2
  <1> QED
    BY <1>1, <1>2, <1>3, <1>4, <1>5, <1>6

(* Overlapping probes that end in any order never leave a row unreachable    *)
(* whose writer began before the peer was last found reachable: reach.rs     *)
(* orders starts by ticket, and a failure yields to a pong that landed       *)
(* inside its window.  Answers whose time the row does not carry are         *)
(* excepted: one merged into a newer row or dropped, and one overtaken.      *)
THEOREM NoFalseOfflineHolds == Spec => []NoFalseOffline
  <1>1. RowInv => NoFalseOffline
    BY DEF RowInv
  <1> QED
    BY <1>1, RowInit, RowStep, PTL DEF Spec

(* Once a probe has brought a pong in no reachable row is without its        *)
(* payload: a superseded probe lends its pong, a watcher keeps it.           *)
THEOREM PongKeptHolds == Spec => []PongKept
  <1>1. RowInv => PongKept
    BY DEF RowInv
  <1> QED
    BY <1>1, RowInit, RowStep, PTL DEF Spec

-----------------------------------------------------------------------------
(* The connection: permits, answers and upgrades.                            *)

ConnTypeOK ==
    /\ wire \in Seq(Kinds) /\ Len(wire) <= MaxRequests
    /\ next \in 0 .. Len(wire)
    /\ mode \in {"loop", "drain", "session", "stream", "over"}
    /\ job \in [Request -> {"none", "run", "write", "wrote", "done", "cut"}]
    /\ permits \in Nat
    /\ reply \in [Request -> Nat] /\ client \in {"here", "gone"}

(* A request has no answer before its task writes it, exactly one after, and *)
(* a request with no task was answered by the loop, unless it is the upgrade.*)
RequestAt(i) ==
    /\ i > next => job[i] = "none"
    /\ i > next \/ job[i] \in {"run", "write"} => reply[i] = 0
    /\ job[i] \in {"wrote", "done"} /\ client = "here" => reply[i] = 1
    /\ job[i] = "none" /\ i <= next /\ client = "here" /\ mode # "over"
          /\ (i = next => mode = "loop") => reply[i] = 1
    /\ job[i] = "cut" => mode = "over"
    /\ mode \in {"session", "stream"} => job[i] \notin Working
    /\ reply[i] \in 0 .. 1

AtWork == {i \in Request : job[i] \in Working}

ConnInv ==
    /\ ConnTypeOK
    /\ \A i \in Request : RequestAt(i)
    /\ PermitsReturn

LEMMA AtWorkFinite == ConnTypeOK => IsFiniteSet(AtWork)
  <1>1. IsFiniteSet(Request)
    BY FS_Interval, ControlAssumption DEF Request
  <1> QED
    BY <1>1, FS_Subset DEF AtWork

LEMMA ConnInit == Init => ConnInv
  <1> SUFFICES ASSUME Init PROVE ConnInv
    OBVIOUS
  <1> USE ControlAssumption DEF Init
  <1>1. ConnTypeOK
    BY DEF ConnTypeOK, Request
  <1>2. \A i \in Request : RequestAt(i)
    BY DEF RequestAt, Working, Request
  <1>3. AtWork = {}
    BY DEF AtWork, Working
  <1>c. Cardinality(AtWork) = 0
    BY <1>3, FS_EmptySet
  <1>4. PermitsReturn
    BY <1>c DEF PermitsReturn, AtWork
  <1> QED
    BY <1>1, <1>2, <1>4 DEF ConnInv

(* PermitsReturn is kept by a step that keeps both of its terms. *)
LEMMA SameWork ==
  ASSUME ConnInv, permits' = permits, AtWork' = AtWork
  PROVE  PermitsReturn'
  BY DEF ConnInv, PermitsReturn, AtWork

(* The end of the connection gives every permit back at once. *)
LEMMA EndedKeeps ==
  ASSUME ConnInv, Ended, wire' = wire, client' = client,
         next' \in next .. Len(wire), next' <= next + 1,
         reply' = reply \/ (next' = next + 1 /\ reply' = Replied(next + 1))
  PROVE  ConnInv'
  <1> USE ControlAssumption
  <1>t. ConnTypeOK
    BY DEF ConnInv
  <1>r. /\ reply' \in [Request -> Nat]
        /\ \A i \in Request : i # next + 1 \/ next' = next => reply'[i] = reply[i]
        /\ \A i \in Request : i = next + 1 /\ next' = next + 1 => reply'[i] \in {reply[i], reply[i] + 1}
    <2>1. CASE reply' = reply
      BY <2>1, <1>t DEF ConnTypeOK
    <2>2. CASE next' = next + 1 /\ reply' = [reply EXCEPT ![next + 1] = @ + 1]
      <3>n. next + 1 \in Request
        BY <2>2, <1>t DEF ConnTypeOK, Request
      <3>1. reply' \in [Request -> Nat]
        BY <3>n, <2>2, <1>t DEF ConnTypeOK
      <3>2. next \in Nat /\ next' # next
        BY <2>2, <1>t DEF ConnTypeOK
      <3>3. \A i \in Request : reply'[i] = IF i = next + 1 THEN reply[i] + 1 ELSE reply[i]
        BY <2>2, <1>t DEF ConnTypeOK
      <3> QED
        BY <3>1, <3>2, <3>3
    <2> QED
      BY <2>1, <2>2 DEF Replied
  <1>j. /\ job' \in [Request -> {"none", "run", "write", "wrote", "done", "cut"}]
        /\ \A i \in Request : job'[i] = IF job[i] \in Working THEN "cut" ELSE job[i]
    BY <1>t DEF ConnTypeOK, Ended
  <1>1. ConnTypeOK'
    BY <1>t, <1>r, <1>j DEF ConnTypeOK, Ended
  <1>2. ASSUME NEW i \in Request PROVE RequestAt(i)'
    <2>1. RequestAt(i) /\ i \in Nat /\ reply[i] \in Nat /\ next \in Nat /\ next' \in Nat
      BY <1>t DEF ConnInv, ConnTypeOK, Request
    <2>m. mode' = "over"
      BY DEF Ended
    <2>2. CASE i = next + 1 /\ next' = next + 1
      <3>1. job[i] = "none" /\ reply[i] = 0
        BY <2>1, <2>2 DEF RequestAt
      <3>2. job'[i] = "none" /\ reply'[i] \in 0 .. 1
        BY <3>1, <2>2, <1>j, <1>r DEF Working
      <3> QED
        BY <3>2, <2>m, <2>1, <2>2 DEF RequestAt
    <2>3. CASE ~(i = next + 1 /\ next' = next + 1)
      <3>1. reply'[i] = reply[i] /\ (i > next' => i > next)
        BY <2>1, <2>3, <1>r
      <3> QED
        BY <3>1, <2>1, <2>m, <1>j DEF RequestAt, Working
    <2> QED
      BY <2>2, <2>3
  <1>3. AtWork' = {}
    BY <1>j DEF AtWork, Working
  <1>c. Cardinality(AtWork') = 0
    BY <1>3, FS_EmptySet
  <1>4. PermitsReturn'
    BY <1>c DEF PermitsReturn, AtWork, Ended
  <1> QED
    BY <1>1, <1>2, <1>4 DEF ConnInv

(* A frame the loop takes names a request that has no task and no answer. *)
LEMMA TakenFresh ==
  ASSUME ConnInv, NEW kind, Takes(kind)
  PROVE  /\ next + 1 \in Request /\ job[next + 1] = "none" /\ reply[next + 1] = 0
         /\ next' \in 0 .. Len(wire) /\ next' = next + 1 /\ next \in Nat /\ Len(wire) \in Nat
  <1>1. next + 1 \in Request /\ next \in Nat /\ Len(wire) \in Nat /\ next' = next + 1
    BY ControlAssumption DEF ConnInv, ConnTypeOK, Takes, Request
  <1>2. RequestAt(next + 1)
    BY <1>1 DEF ConnInv
  <1> QED
    BY <1>1, <1>2 DEF RequestAt, Takes

LEMMA ReadCallKeeps == ConnInv /\ ReadCall => ConnInv'
  <1> SUFFICES ASSUME ConnInv, ReadCall PROVE ConnInv'
    OBVIOUS
  <1>t. ConnTypeOK
    BY DEF ConnInv
  <1>n. /\ next + 1 \in Request /\ job[next + 1] = "none" /\ reply[next + 1] = 0
        /\ next' \in 0 .. Len(wire) /\ next' = next + 1 /\ next \in Nat /\ Len(wire) \in Nat
    BY TakenFresh DEF ReadCall
  <1>j. /\ job' \in [Request -> {"none", "run", "write", "wrote", "done", "cut"}]
        /\ job'[next + 1] = "run" /\ \A i \in Request \ {next + 1} : job'[i] = job[i]
    BY <1>t, <1>n DEF ConnTypeOK, ReadCall
  <1>f. /\ permits > 0 /\ permits' = permits - 1 /\ permits \in Nat
        /\ mode = "loop" /\ UNCHANGED <<wire, mode, reply, client>>
    BY <1>t DEF ConnTypeOK, ReadCall, Takes
  <1>1. ConnTypeOK'
    BY <1>t, <1>n, <1>j, <1>f DEF ConnTypeOK
  <1>2. ASSUME NEW i \in Request PROVE RequestAt(i)'
    <2>1. RequestAt(i) /\ i \in Nat
      BY DEF ConnInv, Request
    <2> QED
      BY <2>1, <1>n, <1>j, <1>f DEF RequestAt, Working
  <1>3. AtWork' = AtWork \cup {next + 1} /\ next + 1 \notin AtWork
    BY <1>n, <1>j DEF AtWork, Working
  <1>4. Cardinality(AtWork') = Cardinality(AtWork) + 1 /\ Cardinality(AtWork) \in Nat
    BY <1>3, <1>t, AtWorkFinite, FS_AddElement, FS_CardinalityType
  <1>5. PermitsReturn'
    BY <1>4, <1>f, ControlAssumption DEF ConnInv, PermitsReturn, AtWork
  <1> QED
    BY <1>1, <1>2, <1>5 DEF ConnInv

LEMMA ReadRefusedKeeps == ConnInv /\ ReadRefused => ConnInv'
  <1> SUFFICES ASSUME ConnInv, ReadRefused PROVE ConnInv'
    OBVIOUS
  <1>t. ConnTypeOK
    BY DEF ConnInv
  <1>n. /\ next + 1 \in Request /\ job[next + 1] = "none" /\ reply[next + 1] = 0
        /\ next' \in 0 .. Len(wire) /\ next' = next + 1 /\ next \in Nat /\ Len(wire) \in Nat
        /\ mode = "loop"
    <2>1. Takes("bad") \/ Takes("call")
      BY DEF ReadRefused
    <2> QED
      BY <2>1, TakenFresh DEF Takes
  <1>1. CASE client # "here"
    <2>1. /\ Ended /\ wire' = wire /\ client' = client
          /\ next' \in next .. Len(wire) /\ next' <= next + 1 /\ next' = next + 1
          /\ reply' = Replied(next + 1)
      BY <1>1, <1>n DEF ReadRefused
    <2> QED
      BY <2>1, EndedKeeps
  <1>2. CASE client = "here"
    <2>f. /\ UNCHANGED <<mode, job, permits, wire, client>>
          /\ reply' = [reply EXCEPT ![next + 1] = @ + 1]
      BY <1>2 DEF ReadRefused, Replied
    <2>r. /\ reply' \in [Request -> Nat] /\ reply'[next + 1] = 1
          /\ \A i \in Request \ {next + 1} : reply'[i] = reply[i]
      BY <2>f, <1>n, <1>t DEF ConnTypeOK
    <2>1. ConnTypeOK'
      BY <1>t, <1>n, <2>f, <2>r DEF ConnTypeOK
    <2>2. ASSUME NEW i \in Request PROVE RequestAt(i)'
      <3>1. RequestAt(i) /\ i \in Nat
        BY DEF ConnInv, Request
      <3> QED
        BY <3>1, <1>n, <2>f, <2>r DEF RequestAt, Working
    <2>3. PermitsReturn'
      BY <2>f, SameWork DEF AtWork
    <2> QED
      BY <2>1, <2>2, <2>3 DEF ConnInv
  <1> QED
    BY <1>1, <1>2

LEMMA ReadUpgradeKeeps ==
  ASSUME ConnInv, NEW kind, ReadUpgrade(kind)
  PROVE  ConnInv'
  <1>t. ConnTypeOK
    BY DEF ConnInv
  <1>n. /\ next + 1 \in Request /\ job[next + 1] = "none" /\ reply[next + 1] = 0
        /\ next' \in 0 .. Len(wire) /\ next' = next + 1 /\ next \in Nat /\ Len(wire) \in Nat
    BY TakenFresh DEF ReadUpgrade
  <1>f. mode = "loop" /\ mode' = "drain" /\ UNCHANGED <<wire, job, permits, reply, client>>
    BY DEF ReadUpgrade, Takes
  <1>1. ConnTypeOK'
    BY <1>t, <1>n, <1>f DEF ConnTypeOK
  <1>2. ASSUME NEW i \in Request PROVE RequestAt(i)'
    <2>1. RequestAt(i) /\ i \in Nat
      BY DEF ConnInv, Request
    <2> QED
      BY <2>1, <1>n, <1>f DEF RequestAt, Working
  <1>3. PermitsReturn'
    BY <1>f, SameWork DEF AtWork
  <1> QED
    BY <1>1, <1>2, <1>3 DEF ConnInv

(* A request task's own steps: it answers once, then gives its permit back. *)
LEMMA TaskKeeps ==
  ASSUME ConnInv, NEW k \in Request, Handled(k) \/ Written(k)
  PROVE  ConnInv'
  <1>t. ConnTypeOK
    BY DEF ConnInv
  <1>f. UNCHANGED <<wire, next, mode, permits, client>>
    BY DEF Handled, Written
  <1>j. /\ job' \in [Request -> {"none", "run", "write", "wrote", "done", "cut"}]
        /\ \A i \in Request \ {k} : job'[i] = job[i]
        /\ \/ job[k] = "run" /\ job'[k] = "write" /\ reply' = reply
           \/ job[k] = "write" /\ job'[k] = "wrote" /\ reply' = Replied(k)
    BY <1>t DEF ConnTypeOK, Handled, Written
  <1>r. /\ reply' \in [Request -> Nat] /\ \A i \in Request \ {k} : reply'[i] = reply[i]
        /\ job'[k] = "write" => reply'[k] = reply[k]
        /\ job'[k] = "wrote" => reply'[k] = IF client = "here" THEN reply[k] + 1 ELSE reply[k]
    BY <1>t, <1>j DEF ConnTypeOK, Replied
  <1>1. ConnTypeOK'
    BY <1>t, <1>f, <1>j, <1>r DEF ConnTypeOK
  <1>2. ASSUME NEW i \in Request PROVE RequestAt(i)'
    <2>1. RequestAt(i) /\ i \in Nat /\ next \in Nat /\ reply[i] \in Nat
      BY <1>t DEF ConnInv, Request, ConnTypeOK
    <2> QED
      BY <2>1, <1>f, <1>j, <1>r DEF RequestAt, Working
  <1>3. AtWork' = AtWork
    BY <1>j DEF AtWork, Working
  <1>4. PermitsReturn'
    BY <1>f, <1>3, SameWork
  <1> QED
    BY <1>1, <1>2, <1>4 DEF ConnInv

LEMMA ReturnedKeeps ==
  ASSUME ConnInv, NEW k \in Request, Returned(k)
  PROVE  ConnInv'
  <1>t. ConnTypeOK
    BY DEF ConnInv
  <1>f. permits' = permits + 1 /\ permits \in Nat /\ UNCHANGED <<wire, next, mode, reply, client>>
    BY <1>t DEF Returned, ConnTypeOK
  <1>j. /\ job' \in [Request -> {"none", "run", "write", "wrote", "done", "cut"}]
        /\ \A i \in Request \ {k} : job'[i] = job[i]
        /\ job[k] = "wrote" /\ job'[k] = "done"
    BY <1>t DEF ConnTypeOK, Returned
  <1>1. ConnTypeOK'
    BY <1>t, <1>f, <1>j DEF ConnTypeOK
  <1>2. ASSUME NEW i \in Request PROVE RequestAt(i)'
    <2>1. RequestAt(i) /\ i \in Nat /\ next \in Nat
      BY <1>t DEF ConnInv, Request, ConnTypeOK
    <2> QED
      BY <2>1, <1>f, <1>j DEF RequestAt, Working
  <1>3. AtWork' = AtWork \ {k} /\ k \in AtWork
    BY <1>j DEF AtWork, Working
  <1>4. Cardinality(AtWork') = Cardinality(AtWork) - 1 /\ Cardinality(AtWork) \in Nat
    BY <1>3, <1>t, AtWorkFinite, FS_RemoveElement, FS_CardinalityType
  <1>5. PermitsReturn'
    BY <1>4, <1>f, ControlAssumption DEF ConnInv, PermitsReturn, AtWork
  <1> QED
    BY <1>1, <1>2, <1>5 DEF ConnInv

(* The upgrade proceeds when every task has run to its end. *)
LEMMA UpgradeKeeps == ConnInv /\ (OpenSession \/ Subscribe) => ConnInv'
  <1> SUFFICES ASSUME ConnInv, OpenSession \/ Subscribe PROVE ConnInv'
    OBVIOUS
  <1>f. /\ mode = "drain" /\ Drained /\ mode' \in {"session", "stream"}
        /\ UNCHANGED <<wire, next, job, permits, reply, client>>
    BY DEF OpenSession, Subscribe
  <1>1. ConnTypeOK'
    BY <1>f DEF ConnInv, ConnTypeOK
  <1>2. ASSUME NEW i \in Request PROVE RequestAt(i)'
    BY <1>f DEF ConnInv, RequestAt, Drained
  <1>3. PermitsReturn'
    BY <1>f, SameWork DEF AtWork
  <1> QED
    BY <1>1, <1>2, <1>3 DEF ConnInv

LEMMA ClientKeeps ==
  ASSUME ConnInv, (\E kind \in Kinds : ClientSends(kind)) \/ ClientLeaves
  PROVE  ConnInv'
  <1>t. ConnTypeOK
    BY DEF ConnInv
  <1>f. /\ UNCHANGED <<next, mode, job, permits, reply>> /\ client' \in {client, "gone"}
    BY DEF ClientSends, ClientLeaves
  <1>w. wire' \in Seq(Kinds) /\ Len(wire') <= MaxRequests /\ next \in 0 .. Len(wire')
    <2>1. CASE wire' = wire
      BY <2>1, <1>t DEF ConnTypeOK
    <2>2. ASSUME NEW kind \in Kinds, wire' = Append(wire, kind), Len(wire) < MaxRequests
          PROVE  wire' \in Seq(Kinds) /\ Len(wire') <= MaxRequests /\ next \in 0 .. Len(wire')
      BY <2>2, <1>t, ControlAssumption DEF ConnTypeOK
    <2> QED
      BY <2>1, <2>2 DEF ClientSends, ClientLeaves
  <1>1. ConnTypeOK'
    BY <1>t, <1>f, <1>w DEF ConnTypeOK
  <1>2. ASSUME NEW i \in Request PROVE RequestAt(i)'
    BY <1>f, <1>t DEF ConnInv, RequestAt, ConnTypeOK
  <1>3. PermitsReturn'
    BY <1>f, SameWork DEF AtWork
  <1> QED
    BY <1>1, <1>2, <1>3 DEF ConnInv

LEMMA ConnStep == ConnInv /\ [Next]_vars => ConnInv'
  <1> SUFFICES ASSUME ConnInv, [Next]_vars PROVE ConnInv'
    OBVIOUS
  <1>t. next \in Nat /\ Len(wire) \in Nat /\ next <= Len(wire)
    BY DEF ConnInv, ConnTypeOK
  <1>1. ASSUME (\E kind \in Kinds : ClientSends(kind)) \/ ClientLeaves PROVE ConnInv'
    BY <1>1, ClientKeeps
  <1>2. CASE ReadCall \/ ReadRefused \/ OpenSession \/ Subscribe
    BY <1>2, ReadCallKeeps, ReadRefusedKeeps, UpgradeKeeps
  <1>3. ASSUME NEW kind, ReadUpgrade(kind) PROVE ConnInv'
    BY <1>3, ReadUpgradeKeeps
  <1>4. ASSUME NEW i \in Request, Handled(i) \/ Written(i) \/ Returned(i) PROVE ConnInv'
    BY <1>4, TaskKeeps, ReturnedKeeps
  <1>5. CASE ReadShutdown
    <2>1. /\ Ended /\ wire' = wire /\ client' = client /\ next' = next + 1
          /\ next' \in next .. Len(wire) /\ next' <= next + 1
          /\ reply' = Replied(next + 1)
      BY <1>5, <1>t DEF ReadShutdown, Takes
    <2> QED
      BY <2>1, EndedKeeps
  <1>6. CASE ReadEnd \/ Aborted \/ StreamEnds
    <2>1. /\ Ended /\ wire' = wire /\ client' = client /\ next' = next /\ reply' = reply
          /\ next' \in next .. Len(wire) /\ next' <= next + 1
      BY <1>6, <1>t DEF ReadEnd, Aborted, StreamEnds
    <2> QED
      BY <2>1, EndedKeeps
  <1>7. CASE UNCHANGED connection
    <2>1. /\ UNCHANGED <<wire, next, mode, job, permits, reply, client>>
      BY <1>7 DEF connection
    <2>2. PermitsReturn'
      BY <2>1, SameWork DEF AtWork
    <2>3. ConnTypeOK' /\ \A i \in Request : RequestAt(i)'
      BY <2>1 DEF ConnInv, ConnTypeOK, RequestAt
    <2> QED
      BY <2>2, <2>3 DEF ConnInv
  <1>8. \/ (\E kind \in Kinds : ClientSends(kind)) \/ ClientLeaves
        \/ ReadCall \/ ReadRefused \/ OpenSession \/ Subscribe
        \/ \E kind \in {"open_session", "subscribe"} : ReadUpgrade(kind)
        \/ \E i \in Request : Handled(i) \/ Written(i) \/ Returned(i)
        \/ ReadShutdown \/ ReadEnd \/ Aborted \/ StreamEnds
        \/ UNCHANGED connection
    BY DEF Next, vars
  <1> QED
    BY <1>1, <1>2, <1>3, <1>4, <1>5, <1>6, <1>7, <1>8

(* No permit is lost on any exit of a request task or of its connection      *)
(* (control.rs: the permit travels with the task).                           *)
THEOREM PermitsReturnHolds == Spec => []PermitsReturn
  <1>1. ConnInv => PermitsReturn
    BY DEF ConnInv
  <1> QED
    BY <1>1, ConnInit, ConnStep, PTL DEF Spec

(* When a session's or a subscription's bytes may flow every request before  *)
(* it was answered and no task can write among them (reclaim_writer).        *)
THEOREM UpgradeCleanHolds == Spec => []UpgradeClean
  <1>1. ConnInv => UpgradeClean
    <2> SUFFICES ASSUME ConnInv, mode \in {"session", "stream"}, NEW i \in 1 .. next - 1
                 PROVE  job[i] \in {"none", "done"} /\ (client = "here" => reply[i] = 1)
      BY DEF UpgradeClean
    <2>1. i \in Request /\ i < next /\ i \in Nat /\ next \in Nat
      BY ControlAssumption DEF ConnInv, ConnTypeOK, Request
    <2> QED
      BY <2>1 DEF ConnInv, ConnTypeOK, RequestAt, Working
  <1> QED
    BY <1>1, ConnInit, ConnStep, PTL DEF Spec

-----------------------------------------------------------------------------
(* The types of the session table and of the subscription.                   *)

SubOK == sub \in Subs /\ \A ring \in {"reach", "audit"} : Len(sub[ring]) <= Depth(ring)

TableTypeOK ==
    /\ sess \in [Session -> {"no", "recorded", "live", "removed", "closed"}]
    /\ live \subseteq Session /\ gap \subseteq Session
    /\ swapped \in BOOLEAN
    /\ SubOK

LEMMA SubFields ==
  SubOK => /\ sub \in Subs /\ sub.reach \in Seq(Tellings) /\ sub.audit \in Seq(Records)
           /\ sub.view \in Tellings /\ sub.open \subseteq Session /\ sub.lag \in BOOLEAN
           /\ Len(sub.reach) <= REACH_BROADCAST_DEPTH /\ Len(sub.audit) <= STREAM_BROADCAST_DEPTH
  BY DEF SubOK, Subs, Depth

(* A ring takes a message: it is no longer than its depth. *)
LEMMA RingBound ==
  ASSUME NEW S, NEW q \in Seq(S), NEW m \in S, NEW d \in Nat \ {0}, Len(q) <= d
  PROVE  /\ Append(IF Len(q) = d THEN Tail(q) ELSE q, m) \in Seq(S)
         /\ Len(Append(IF Len(q) = d THEN Tail(q) ELSE q, m)) <= d
  <1>1. CASE Len(q) = d
    <2>1. q # <<>>
      BY <1>1
    <2>2. Tail(q) \in Seq(S) /\ Len(Tail(q)) = Len(q) - 1
      BY <2>1
    <2> QED
      BY <1>1, <2>2
  <1>2. CASE Len(q) # d
    BY <1>2
  <1> QED
    BY <1>1, <1>2

LEMMA BroadcastReach ==
  ASSUME SubOK, NEW m \in Tellings, Broadcast("reach", m)
  PROVE  SubOK'
  <1> DEFINE full == Len(sub.reach) = REACH_BROADCAST_DEPTH
             q == Append(IF full THEN Tail(sub.reach) ELSE sub.reach, m)
  <1>q. q \in Seq(Tellings) /\ Len(q) <= REACH_BROADCAST_DEPTH
    BY SubFields, RingBound, TelemetryAssumption
  <1>1. CASE sub' = sub
    BY <1>1 DEF SubOK, Depth
  <1>2. CASE sub' = [sub EXCEPT !.reach = q, !.lag = sub.lag \/ full]
    <2> HIDE DEF q, full
    <2>0. (sub.lag \/ full) \in BOOLEAN
      BY Zenon
    <2> DEFINE g == sub.lag \/ full
    <2>g. sub' = [sub EXCEPT !.reach = q, !.lag = g] /\ g \in BOOLEAN
      BY <1>2, <2>0
    <2> HIDE DEF g
    <2>1. sub' \in Subs
      BY <2>g, <1>q, SubFields DEF Subs
    <2>2. sub'.reach = q /\ sub'.audit = sub.audit
      BY <2>g, SubFields DEF Subs
    <2> QED
      BY <2>1, <2>2, <1>q, SubFields DEF SubOK, Depth
  <1>3. sub' = sub \/ sub' = [sub EXCEPT !.reach = q, !.lag = sub.lag \/ full]
    BY SubFields DEF Broadcast, Depth, Subs
  <1> QED
    BY <1>1, <1>2, <1>3

LEMMA BroadcastAudit ==
  ASSUME SubOK, NEW m \in Records, Broadcast("audit", m)
  PROVE  SubOK'
  <1> DEFINE full == Len(sub.audit) = STREAM_BROADCAST_DEPTH
             q == Append(IF full THEN Tail(sub.audit) ELSE sub.audit, m)
  <1>q. q \in Seq(Records) /\ Len(q) <= STREAM_BROADCAST_DEPTH
    BY SubFields, RingBound, TelemetryAssumption
  <1>1. CASE sub' = sub
    BY <1>1 DEF SubOK, Depth
  <1>2. CASE sub' = [sub EXCEPT !.audit = q, !.lag = sub.lag \/ full]
    <2> HIDE DEF q, full
    <2>0. (sub.lag \/ full) \in BOOLEAN
      BY Zenon
    <2> DEFINE g == sub.lag \/ full
    <2>g. sub' = [sub EXCEPT !.audit = q, !.lag = g] /\ g \in BOOLEAN
      BY <1>2, <2>0
    <2> HIDE DEF g
    <2>1. sub' \in Subs
      BY <2>g, <1>q, SubFields DEF Subs
    <2>2. sub'.audit = q /\ sub'.reach = sub.reach
      BY <2>g, SubFields DEF Subs
    <2> QED
      BY <2>1, <2>2, <1>q, SubFields DEF SubOK, Depth
  <1>3. sub' = sub \/ sub' = [sub EXCEPT !.audit = q, !.lag = sub.lag \/ full]
    BY SubFields DEF Broadcast, Depth, Subs
  <1> QED
    BY <1>1, <1>2, <1>3

LEMMA ToldTyped == row \in Row \cup {NoRow} => Told(row) \in Tellings
  BY DEF Told, Tellings, Row, Path

LEMMA TableInit == Init => TableTypeOK
  <1> SUFFICES ASSUME Init PROVE TableTypeOK
    OBVIOUS
  <1> USE TelemetryAssumption DEF Init, TelemetryInit
  <1>0. swapped \in BOOLEAN
    BY Zenon
  <1>1. Told(NoRow) \in Tellings
    BY DEF Told, Tellings, Path
  <1>2. sub \in Subs
    BY <1>1 DEF Unsubscribed, Subs
  <1>3. sub.reach = <<>> /\ sub.audit = <<>>
    BY DEF Unsubscribed
  <1>4. SubOK
    BY <1>2, <1>3 DEF SubOK, Depth
  <1> QED
    BY <1>0, <1>4 DEF TableTypeOK

(* The steps of the subscription that read the rings or change its phase. *)
LEMMA SubStep ==
  ASSUME TableTypeOK, RowTypeOK,
         Tap \/ Snapshot \/ ForwardReach \/ ForwardAudit \/ Subscribe \/ Ended
  PROVE  SubOK'
  <1> USE SubFields
  <1>s. SubOK
    BY DEF TableTypeOK
  <1>1. CASE \E pc \in {"no", "taps", "tapped", "over"} : sub' = [sub EXCEPT !.pc = pc]
    <2>1. PICK pc \in {"no", "taps", "tapped", "over"} : sub' = [sub EXCEPT !.pc = pc]
      BY <1>1
    <2>2. sub' \in Subs /\ sub'.reach = sub.reach /\ sub'.audit = sub.audit
      BY <2>1, <1>s DEF Subs
    <2> QED
      BY <2>2, <1>s DEF SubOK, Depth
  <1>2. CASE Snapshot
    <2>0. Told(row) \in Tellings /\ live \subseteq Session
      BY ToldTyped DEF RowTypeOK, TableTypeOK
    <2>1. sub' = [sub EXCEPT !.pc = "forward", !.view = Told(row), !.open = live]
      BY <1>2 DEF Snapshot
    <2>2. sub' \in Subs /\ sub'.reach = sub.reach /\ sub'.audit = sub.audit
      BY <2>0, <2>1, <1>s DEF Subs
    <2> QED
      BY <2>2, <1>s DEF SubOK, Depth
  <1>3. CASE ForwardReach
    <2>1. sub' = [sub EXCEPT !.reach = Tail(sub.reach), !.view = Head(sub.reach)]
      BY <1>3, <1>s DEF ForwardReach, Subs
    <2>2. /\ Tail(sub.reach) \in Seq(Tellings) /\ Head(sub.reach) \in Tellings
          /\ Len(Tail(sub.reach)) <= REACH_BROADCAST_DEPTH
      BY <1>3, <1>s, TelemetryAssumption DEF ForwardReach
    <2>3. sub' \in Subs
      BY <2>1, <2>2, <1>s DEF Subs
    <2>4. sub'.reach = Tail(sub.reach) /\ sub'.audit = sub.audit
      BY <2>1, <1>s DEF Subs
    <2> QED
      BY <2>2, <2>3, <2>4, <1>s DEF SubOK, Depth
  <1>4. CASE ForwardAudit
    <2> DEFINE m == Head(sub.audit)
               o == IF m.what = "open" THEN sub.open \cup {m.of} ELSE sub.open \ {m.of}
    <2>2. /\ Tail(sub.audit) \in Seq(Records) /\ m \in Records
          /\ Len(Tail(sub.audit)) <= STREAM_BROADCAST_DEPTH
      BY <1>4, <1>s, TelemetryAssumption DEF ForwardAudit
    <2>o. o \subseteq Session
      BY <2>2, <1>s DEF Records
    <2>1. sub' = [sub EXCEPT !.audit = Tail(sub.audit), !.open = o]
      BY <1>4, <1>s DEF ForwardAudit, Subs
    <2> HIDE DEF o
    <2>3. sub' \in Subs
      BY <2>1, <2>2, <2>o, <1>s DEF Subs
    <2>4. sub'.audit = Tail(sub.audit) /\ sub'.reach = sub.reach
      BY <2>1, <1>s DEF Subs
    <2> QED
      BY <2>2, <2>3, <2>4, <1>s DEF SubOK, Depth
  <1> QED
    BY <1>1, <1>2, <1>3, <1>4 DEF Tap, Subscribe, Ended

LEMMA TableStep ==
  ASSUME RowInv, TableTypeOK, [Next]_vars
  PROVE  TableTypeOK'
  <1>r. RowTypeOK
    BY DEF RowInv
  <1>s. SubOK
    BY DEF TableTypeOK
  <1>1. ASSUME NEW s \in Session, RecordOpen(s) \/ InsertLive(s) \/ RemoveLive(s) \/ RecordClose(s)
        PROVE  TableTypeOK'
    <2>1. [what |-> "open", of |-> s] \in Records /\ [what |-> "close", of |-> s] \in Records
      BY DEF Records
    <2>2. SubOK'
      BY <1>1, <2>1, <1>s, BroadcastAudit DEF RecordOpen, InsertLive, RemoveLive, RecordClose,
         SubOK, Depth
    <2> QED
      BY <1>1, <2>2 DEF TableTypeOK, RecordOpen, InsertLive, RemoveLive, RecordClose, Moved
  <1>2. ASSUME NEW w \in Writer, Send(w) PROVE TableTypeOK'
    <2>1. [up |-> task[w].up, path |-> task[w].path] \in Tellings
      BY <1>r, Typed DEF RowTypeOK, Tellings
    <2>2. SubOK'
      BY <1>2, <2>1, <1>s, BroadcastReach DEF Send
    <2>3. swapped' \in BOOLEAN
      BY <1>2, Zenon DEF Send, TableTypeOK
    <2> QED
      BY <1>2, <2>2, <2>3 DEF TableTypeOK, Send
  <1>3. CASE Tap \/ Snapshot \/ ForwardReach \/ ForwardAudit \/ Subscribe \/ Ended
    <2>1. SubOK'
      BY <1>3, <1>r, SubStep
    <2> QED
      BY <1>3, <2>1 DEF TableTypeOK, Tap, Snapshot, ForwardReach, ForwardAudit, Subscribe, Ended
  <1>4. CASE UNCHANGED <<sess, live, sub, swapped, gap>>
    BY <1>4 DEF TableTypeOK, SubOK, Depth
  <1>5. \/ \E s \in Session : RecordOpen(s) \/ InsertLive(s) \/ RemoveLive(s) \/ RecordClose(s)
        \/ \E w \in Writer : Send(w)
        \/ Tap \/ Snapshot \/ ForwardReach \/ ForwardAudit \/ Subscribe \/ Ended
        \/ UNCHANGED <<sess, live, sub, swapped, gap>>
    <2>1. CASE TelemetryNext
      <3>1. ASSUME NEW w \in Writer, Ask(w) \/ Quit(w) PROVE UNCHANGED <<sess, live, sub, swapped, gap>>
        BY <3>1 DEF Ask, Quit
      <3>2. ASSUME NEW p \in Prober, CommitProbe(p) PROVE UNCHANGED <<sess, live, sub, swapped, gap>>
        BY <3>2 DEF CommitProbe
      <3>3. ASSUME NEW p \in Prober, NEW up \in BOOLEAN, NEW path \in Path, Hear(p, up, path)
            PROVE  UNCHANGED <<sess, live, sub, swapped, gap>>
        BY <3>3 DEF Hear
      <3>4. ASSUME NEW w \in Watcher, NEW path \in Path, CommitObservation(w, path)
            PROVE  UNCHANGED <<sess, live, sub, swapped, gap>>
        BY <3>4 DEF CommitObservation
      <3> QED
        BY <2>1, <3>1, <3>2, <3>3, <3>4 DEF TelemetryNext, Writer
    <2>2. CASE ~TelemetryNext
      BY <2>2 DEF Next, vars, telemetry, ClientSends, ClientLeaves, ReadCall, ReadRefused,
         ReadShutdown, ReadEnd, Aborted, ReadUpgrade, Handled, Written, Returned, OpenSession,
         StreamEnds
    <2> QED
      BY <2>1, <2>2
  <1> QED
    BY <1>1, <1>2, <1>3, <1>4, <1>5

(* Every variable of the connection and of the telemetry keeps its type:     *)
(* no ring outgrows its depth, no request is answered twice, and permits     *)
(* stay between none and MAX_INFLIGHT.                                       *)
THEOREM TypeCorrect == Spec => []TypeOK
  <1> DEFINE I == RowInv /\ ConnInv /\ TableTypeOK
  <1>1. Init => I
    BY RowInit, ConnInit, TableInit
  <1>2. I /\ [Next]_vars => I'
    BY RowStep, ConnStep, TableStep
  <1>3. I => TypeOK
    <2> SUFFICES ASSUME I PROVE TypeOK
      OBVIOUS
    <2>1. TelemetryTypeOK
      BY DEF RowInv, RowTypeOK, TableTypeOK, SubOK, TelemetryTypeOK, Writer
    <2>2. permits \in 0 .. MAX_INFLIGHT
      <3>1. permits \in Nat /\ Cardinality(AtWork) \in Nat
        BY AtWorkFinite, FS_CardinalityType DEF ConnInv, ConnTypeOK
      <3> QED
        BY <3>1, ControlAssumption DEF ConnInv, PermitsReturn, AtWork
    <2>3. reply \in [Request -> 0 .. 1]
      BY DEF ConnInv, ConnTypeOK, RequestAt
    <2> QED
      BY <2>1, <2>2, <2>3 DEF ConnInv, ConnTypeOK, TypeOK
  <1> HIDE DEF I
  <1> QED
    BY <1>1, <1>2, <1>3, PTL DEF Spec

-----------------------------------------------------------------------------
(* What a subscriber believes of the row: what the proof of Projects carries *)
(* about the transitions that were committed and not sent yet.               *)

Sending == {w \in Writer : task[w].pc = "send"}

Says(w) == [up |-> task[w].up, path |-> task[w].path]

(* Starts are told apart by their tickets, and a row has the latest start    *)
(* that committed.                                                           *)
SeqInv ==
    /\ \A w \in Writer : task[w].pc # "rest" => task[w].seq < ticket
    /\ \A v, w \in Writer :
          task[v].pc # "rest" /\ task[w].pc # "rest" /\ v # w => task[v].seq # task[w].seq
    /\ \A w \in Writer :
          task[w].pc \in {"asked", "heard"} /\ row # NoRow => task[w].seq # row.seq
    /\ \A w \in Sending : row # NoRow /\ task[w].seq <= row.seq

(* The transition of the row there is, and while none overtook another the   *)
(* last of those waiting, says what the row says.                            *)
SaysInv ==
    /\ \A w \in Sending : task[w].seq = row.seq => Says(w) = Told(row)
    /\ ~swapped => \A w \in Sending :
          (\A o \in Sending : task[o].seq <= task[w].seq) => Says(w) = Told(row)

(* What the subscriber will believe once it has received what was sent.      *)
Latest == IF sub.reach = <<>> THEN sub.view ELSE sub.reach[Len(sub.reach)]

SeenInv ==
    ~swapped /\ Sending = {} =>
        /\ sub.pc = "forward" => Latest = Told(row)
        /\ sub.pc = "tapped" /\ sub.reach # <<>> => Latest = Told(row)

(* Before the rings are tapped nothing is in them, and only a subscription   *)
(* taps them.                                                                *)
TapInv ==
    /\ sub.pc \in {"no", "taps"} => sub.reach = <<>> /\ sub.audit = <<>>
    /\ mode \in {"loop", "drain", "session"} => sub.pc = "no"

(* The records of a session that the subscription has not received.          *)
Holds(q, s, what) == \E j \in 1 .. Len(q) : q[j] = [what |-> what, of |-> s]
Waiting(s, what) == Holds(sub.audit, s, what)

(* Nothing of a session follows its close.                                   *)
Ordered(q) ==
    \A j, k \in 1 .. Len(q) : q[j].of = q[k].of /\ q[k].what = "close" /\ j # k => j < k

(* A session is recorded open once and closed once, in this order.           *)
RecordInv ==
    /\ \A s \in Session : s \in live <=> sess[s] = "live"
    /\ \A s \in Session :
          /\ sess[s] = "no" => ~Waiting(s, "open")
          /\ sess[s] # "closed" => ~Waiting(s, "close")
    /\ Ordered(sub.audit)

(* What the subscription knows of a session, or is yet to hear.              *)
KnownInv ==
    /\ sub.pc = "tapped" /\ ~sub.lag => \A s \in Session :
          /\ sess[s] = "recorded" /\ s \notin gap => Waiting(s, "open")
          /\ sess[s] = "closed" => Waiting(s, "close") \/ ~Waiting(s, "open")
    /\ sub.pc = "forward" /\ ~sub.lag => \A s \in Session \ gap :
          /\ sess[s] = "no" => s \notin sub.open
          /\ sess[s] \in {"recorded", "live"} => s \in sub.open \/ Waiting(s, "open")
          /\ sess[s] = "closed" =>
                Waiting(s, "close") \/ (~Waiting(s, "open") /\ s \notin sub.open)

WriterInv == SeqInv /\ SaysInv /\ SeenInv

(* A writer that has nothing to send before and after its step.              *)
LEMMA QuietWriter ==
  ASSUME RowInv, RowTypeOK', WriterInv, NEW w \in Writer,
         \A v \in Writer \ {w} : task'[v] = task[v],
         task[w].pc # "send", task'[w].pc # "send", ticket' >= ticket,
         task'[w].pc # "rest" => /\ task'[w].seq < ticket'
                                 /\ \/ task[w].pc # "rest" /\ task'[w].seq = task[w].seq
                                    \/ task'[w].seq = ticket,
         row' = NoRow <=> row = NoRow, row # NoRow => row'.seq = row.seq,
         Told(row') = Told(row), UNCHANGED <<sub, swapped>>
  PROVE  WriterInv'
  <1>n. /\ ticket \in Nat /\ ticket' \in Nat
        /\ \A v \in Writer : task[v].seq \in Nat /\ task'[v].seq \in Nat
        /\ row # NoRow => row.seq \in Nat /\ row.seq < ticket
    BY Typed, TelemetryAssumption DEF RowInv, RowTypeOK, TicketInv
  <1>p. \A v \in Writer : task'[v].pc \in {"rest", "asked", "heard", "send"}
                          /\ task[v].pc \in {"rest", "asked", "heard", "send"}
    BY DEF RowInv, RowTypeOK, Tasks
  <1>s. Sending' = Sending /\ \A v \in Sending : v # w /\ task'[v] = task[v]
    BY DEF Sending
  <1>1. SeqInv'
    <2>1. \A v \in Writer : task'[v].pc # "rest" => task'[v].seq < ticket'
      BY <1>n DEF WriterInv, SeqInv
    <2>2. \A v \in Writer : v # w /\ task'[v].pc # "rest" /\ task'[w].pc # "rest"
              => task'[v].seq # task'[w].seq
      BY <1>n DEF WriterInv, SeqInv
    <2>3. \A u, v \in Writer :
              task'[u].pc # "rest" /\ task'[v].pc # "rest" /\ u # v => task'[u].seq # task'[v].seq
      BY <2>2 DEF WriterInv, SeqInv
    <2>4. \A v \in Writer :
              task'[v].pc \in {"asked", "heard"} /\ row' # NoRow => task'[v].seq # row'.seq
      BY <1>n, <1>p DEF WriterInv, SeqInv
    <2>5. \A v \in Sending' : row' # NoRow /\ task'[v].seq <= row'.seq
      BY <1>s DEF WriterInv, SeqInv
    <2> QED
      BY <2>1, <2>3, <2>4, <2>5 DEF SeqInv
  <1>2. SaysInv'
    <2>1. \A v \in Sending : Says(v)' = Says(v)
      BY <1>s DEF Says
    <2>2. \A v \in Sending : row # NoRow
      BY DEF WriterInv, SeqInv
    <2> QED
      BY <1>s, <2>1, <2>2 DEF WriterInv, SaysInv
  <1>3. SeenInv'
    BY <1>s DEF WriterInv, SeenInv, Latest
  <1> QED
    BY <1>1, <1>2, <1>3 DEF WriterInv

(* A writer whose row is committed: it is the latest, and waits to be told   *)
(* of if it says anything new.                                               *)
LEMMA CommitWriter ==
  ASSUME RowInv, RowTypeOK', WriterInv, NEW w \in Writer,
         \A v \in Writer \ {w} : task'[v] = task[v],
         task[w].pc \in {"asked", "heard"}, ticket' >= ticket,
         row' # NoRow, row'.seq = task[w].seq, row # NoRow => row.seq <= task[w].seq,
         \/ task'[w].pc = "rest" /\ Told(row') = Told(row)
         \/ task'[w].pc = "send" /\ task'[w].seq = task[w].seq /\ Says(w)' = Told(row'),
         UNCHANGED <<sub, swapped>>
  PROVE  WriterInv'
  <1>n. /\ ticket \in Nat /\ ticket' \in Nat
        /\ \A v \in Writer : task[v].seq \in Nat /\ task'[v].seq \in Nat
        /\ row # NoRow => row.seq \in Nat
    BY Typed, TelemetryAssumption DEF RowInv, RowTypeOK
  <1>s. /\ w \notin Sending /\ \A v \in Sending : v \in Writer \ {w} /\ task'[v] = task[v]
        /\ \A v \in Writer : v \in Sending' <=> v \in Sending \/ (v = w /\ task'[w].pc = "send")
        /\ \A v \in Sending' : v \in Writer
    BY DEF Sending
  <1>l. \A v \in Sending : row # NoRow /\ task[v].seq < task[w].seq
    BY <1>n, <1>s DEF WriterInv, SeqInv, Sending
  <1>1. SeqInv'
    <2>1. \A v \in Writer : task'[v].pc # "rest" => task'[v].seq < ticket'
      BY <1>n DEF WriterInv, SeqInv
    <2>2. \A u, v \in Writer :
              task'[u].pc # "rest" /\ task'[v].pc # "rest" /\ u # v => task'[u].seq # task'[v].seq
      BY DEF WriterInv, SeqInv
    <2>3. \A v \in Writer :
              task'[v].pc \in {"asked", "heard"} /\ row' # NoRow => task'[v].seq # row'.seq
      BY DEF WriterInv, SeqInv
    <2>4. \A v \in Sending' : row' # NoRow /\ task'[v].seq <= row'.seq
      BY <1>n, <1>s, <1>l
    <2> QED
      BY <2>1, <2>2, <2>3, <2>4 DEF SeqInv
  <1>2. SaysInv'
    <2>1. \A v \in Sending : Says(v)' = Says(v)
      BY <1>s DEF Says
    <2>2. \A v \in Sending' : task'[v].seq = row'.seq => Says(v)' = Told(row')
      BY <1>n, <1>s, <1>l
    <2>3. ASSUME ~swapped', NEW v \in Sending',
                 \A o \in Sending' : task'[o].seq <= task'[v].seq
          PROVE  Says(v)' = Told(row')
      <3>1. CASE v = w
        BY <1>s, <2>3, <3>1
      <3>2. CASE v # w
        <4>1. v \in Sending /\ task'[v] = task[v]
          BY <1>s, <3>2
        <4>2. task'[w].pc # "send"
          BY <1>n, <1>s, <1>l, <2>3, <4>1
        <4>3. \A o \in Sending : task[o].seq <= task[v].seq
          BY <1>s, <2>3, <4>1
        <4>4. Says(v) = Told(row)
          BY <2>3, <4>1, <4>3 DEF WriterInv, SaysInv
        <4> QED
          BY <2>1, <4>1, <4>2, <4>4
      <3> QED
        BY <3>1, <3>2
    <2> QED
      BY <2>2, <2>3 DEF SaysInv
  <1>3. SeenInv'
    <2>1. CASE task'[w].pc = "send"
      BY <1>s, <2>1 DEF SeenInv
    <2>2. CASE task'[w].pc = "rest" /\ Told(row') = Told(row)
      <3>1. Sending' = {} => Sending = {}
        BY <1>s
      <3> QED
        BY <2>2, <3>1 DEF WriterInv, SeenInv, Latest
    <2> QED
      BY <2>1, <2>2
  <1> QED
    BY <1>1, <1>2, <1>3 DEF WriterInv

LEMMA AskQuiet ==
  ASSUME RowInv, RowTypeOK', WriterInv, NEW w \in Writer, Ask(w)
  PROVE  WriterInv'
  <1> DEFINE r == [Resting EXCEPT !.pc = "asked", !.seq = ticket]
  <1>1. /\ task' = [task EXCEPT ![w] = r] /\ task[w].pc = "rest"
        /\ ticket' = ticket + 1 /\ UNCHANGED <<row, sub, swapped>>
    BY DEF Ask
  <1>2. r.pc = "asked" /\ r.seq = ticket
    BY DEF Resting
  <1> HIDE DEF r
  <1>3. task'[w] = r /\ \A v \in Writer \ {w} : task'[v] = task[v]
    BY <1>1 DEF RowInv, RowTypeOK
  <1>4. ticket \in Nat
    BY TelemetryAssumption DEF RowInv, RowTypeOK
  <1>5. ticket' >= ticket /\ task'[w].seq < ticket'
    BY <1>1, <1>2, <1>3, <1>4
  <1> QED
    BY <1>1, <1>2, <1>3, <1>5, QuietWriter

LEMMA QuitQuiet ==
  ASSUME RowInv, RowTypeOK', WriterInv, NEW w \in Writer, Quit(w)
  PROVE  WriterInv'
  <1>1. /\ task'[w] = Resting /\ task[w].pc = "asked" /\ UNCHANGED <<row, ticket, sub, swapped>>
        /\ \A v \in Writer \ {w} : task'[v] = task[v]
    BY DEF Quit, Rest, RowInv, RowTypeOK
  <1>2. ticket' >= ticket
    BY <1>1, TelemetryAssumption DEF RowInv, RowTypeOK
  <1> QED
    BY <1>1, <1>2, Typed, QuietWriter

LEMMA HearQuiet ==
  ASSUME RowInv, RowTypeOK', WriterInv, NEW p \in Prober, NEW up \in BOOLEAN, NEW path \in Path,
         Hear(p, up, path)
  PROVE  WriterInv'
  <1>t. p \in Writer /\ task[p] \in Tasks /\ task \in [Writer -> Tasks]
    BY DEF Writer, RowInv, RowTypeOK
  <1>1. /\ task[p].pc = "asked" /\ ticket' = ticket + 1 /\ UNCHANGED <<row, sub, swapped>>
        /\ task'[p].pc = "heard" /\ task'[p].seq = task[p].seq
        /\ \A v \in Writer \ {p} : task'[v] = task[v]
    BY <1>t DEF Hear, Tasks
  <1>2. ticket \in Nat /\ task[p].seq \in Nat /\ task[p].seq < ticket
    BY <1>1, <1>t, Typed, TelemetryAssumption DEF RowInv, RowTypeOK, TaskAt
  <1>3. ticket' >= ticket /\ task'[p].seq < ticket'
    BY <1>1, <1>2
  <1> QED
    BY <1>t, <1>1, <1>3, QuietWriter

LEMMA CommitProbeTells ==
  ASSUME RowInv, RowTypeOK', WriterInv, NEW p \in Prober, CommitProbe(p)
  PROVE  WriterInv'
  <1> DEFINE t == task[p]
             new == [up |-> t.up, path |-> t.path, seq |-> t.seq, obs |-> t.obs, pong |-> t.up]
  <1>t. /\ p \in Writer /\ t \in Tasks /\ task \in [Writer -> Tasks] /\ t.pc = "heard"
        /\ ticket' >= ticket /\ UNCHANGED <<sub, swapped>>
    BY TelemetryAssumption DEF Writer, RowInv, RowTypeOK, CommitProbe
  <1>r. Rest(p) => /\ task'[p].pc = "rest" /\ task'[p].pc # "send"
                   /\ \A v \in Writer \ {p} : task'[v] = task[v]
    BY <1>t, Typed DEF Rest
  <1>1. CASE row # NoRow /\ ~Supersedes(t.seq, row)
    <2>1. row' = KeptPong(t, row) /\ Rest(p) /\ row \in Row
      BY <1>1 DEF CommitProbe, RowInv, RowTypeOK
    <2>2. row' # NoRow /\ row'.up = row.up /\ row'.path = row.path /\ row'.seq = row.seq
      <3>1. CASE row.up /\ ~row.pong /\ t.up
        <4>1. row' = [row EXCEPT !.pong = TRUE]
          BY <3>1, <2>1 DEF KeptPong
        <4>2. row' \in Row
          BY <4>1, <2>1 DEF Row
        <4> QED
          BY <4>1, <4>2, <2>1, RowAssumption DEF Row
      <3>2. CASE ~(row.up /\ ~row.pong /\ t.up)
        BY <3>2, <1>1, <2>1 DEF KeptPong
      <3> QED
        BY <3>1, <3>2
    <2>3. Told(row') = Told(row)
      BY <1>1, <2>2 DEF Told
    <2> QED
      BY <1>t, <1>r, <1>1, <2>1, <2>2, <2>3, QuietWriter
  <1>2. CASE row # NoRow /\ Supersedes(t.seq, row) /\ ContradictedBy(t, row)
    <2>1. row' = row /\ Rest(p)
      BY <1>2 DEF CommitProbe
    <2> QED
      BY <1>t, <1>r, <2>1, QuietWriter
  <1>3. CASE row = NoRow \/ (Supersedes(t.seq, row) /\ ~ContradictedBy(t, row))
    <2>1. /\ row' = new
          /\ IF Told(row) # Told(new) THEN task' = [task EXCEPT ![p].pc = "send"] ELSE Rest(p)
      BY <1>3 DEF CommitProbe
    <2>2. new \in Row /\ new.up = t.up /\ new.path = t.path /\ new.seq = t.seq
      BY <1>t, Typed DEF Row
    <2> HIDE DEF new
    <2>3. row' # NoRow /\ Told(row') = [up |-> t.up, path |-> t.path]
      BY <2>1, <2>2, RowAssumption DEF Told
    <2>4. row # NoRow => row.seq <= t.seq
      BY <1>t, <1>3, Typed DEF Supersedes, RowInv, RowTypeOK
    <2>5. CASE Rest(p) /\ Told(row) = Told(new)
      BY <1>t, <1>r, <2>1, <2>2, <2>3, <2>4, <2>5, CommitWriter
    <2>6. CASE task' = [task EXCEPT ![p].pc = "send"]
      <3>1. /\ task'[p].pc = "send" /\ task'[p].seq = t.seq
            /\ task'[p].up = t.up /\ task'[p].path = t.path
            /\ \A v \in Writer \ {p} : task'[v] = task[v]
        BY <1>t, <2>6 DEF Tasks
      <3>2. Says(p)' = Told(row')
        BY <2>3, <3>1 DEF Says
      <3> QED
        BY <1>t, <2>1, <2>2, <2>3, <2>4, <3>1, <3>2, CommitWriter
    <2> QED
      BY <2>1, <2>5, <2>6
  <1> QED
    BY <1>1, <1>2, <1>3

LEMMA CommitObservationTells ==
  ASSUME RowInv, RowTypeOK', WriterInv, NEW w \in Watcher, NEW path \in Path,
         CommitObservation(w, path)
  PROVE  WriterInv'
  <1> DEFINE t == task[w]
  <1>t. /\ w \in Writer /\ t \in Tasks /\ task \in [Writer -> Tasks] /\ t.pc = "asked"
        /\ ticket \in Nat /\ UNCHANGED <<sub, swapped>>
    BY TelemetryAssumption DEF Writer, RowInv, RowTypeOK, CommitObservation
  <1>1. CASE row # NoRow /\ (~Supersedes(t.seq, row) \/ row.path = path)
    <2>1. /\ task'[w].pc = "rest" /\ \A v \in Writer \ {w} : task'[v] = task[v]
          /\ UNCHANGED <<row, ticket>>
      BY <1>1, <1>t, Typed DEF CommitObservation, Rest
    <2>2. ticket' >= ticket
      BY <1>t, <2>1
    <2> QED
      BY <1>t, <2>1, <2>2, QuietWriter
  <1>2. CASE ~(row # NoRow /\ (~Supersedes(t.seq, row) \/ row.path = path))
    <2> DEFINE new == IF row = NoRow
                      THEN [up |-> TRUE, path |-> path, seq |-> t.seq, obs |-> ticket, pong |-> FALSE]
                      ELSE [row EXCEPT !.path = path, !.seq = t.seq, !.obs = ticket]
    <2>n. new \in Row /\ new.seq = t.seq /\ new.path = path /\ new.up \in BOOLEAN
      <3>1. CASE row = NoRow
        BY <3>1, <1>t, Typed DEF Row
      <3>2. CASE row # NoRow
        BY <3>2, <1>t, Typed DEF Row, RowInv, RowTypeOK
      <3> QED
        BY <3>1, <3>2
    <2>1. /\ row' = new /\ ticket' = ticket + 1
          /\ task' = [task EXCEPT ![w].pc = "send", ![w].up = new.up, ![w].path = path]
      BY <1>2 DEF CommitObservation
    <2> HIDE DEF new
    <2>f. /\ task'[w].pc = "send" /\ task'[w].up = new.up /\ task'[w].path = path
          /\ task'[w].seq = t.seq /\ \A v \in Writer \ {w} : task'[v] = task[v]
      BY <1>t, <2>1 DEF Tasks
    <2>2. row' # NoRow /\ Told(row') = [up |-> new.up, path |-> path]
      BY <2>1, <2>n, RowAssumption DEF Told
    <2>3. Says(w)' = Told(row')
      BY <2>2, <2>f DEF Says
    <2>4. row # NoRow => row.seq <= t.seq
      BY <1>t, <1>2, Typed DEF Supersedes, RowInv, RowTypeOK
    <2>5. ticket' >= ticket
      BY <1>t, <2>1
    <2> QED
      BY <1>t, <2>1, <2>n, <2>2, <2>f, <2>3, <2>4, <2>5, CommitWriter
  <1> QED
    BY <1>1, <1>2

(* What a ring that takes a message holds: the message is its last, and all  *)
(* that was there before is, unless the subscriber lags.                     *)
LEMMA ReachTakes ==
  ASSUME SubOK, NEW m \in Tellings, Broadcast("reach", m)
  PROVE  /\ sub'.pc = sub.pc /\ sub'.view = sub.view /\ sub'.audit = sub.audit
         /\ sub'.open = sub.open /\ (~sub'.lag => ~sub.lag)
         /\ sub.pc \notin Tapped => sub'.reach = sub.reach
         /\ sub.pc \in Tapped => sub'.reach # <<>> /\ sub'.reach[Len(sub'.reach)] = m
  <1> DEFINE full == Len(sub.reach) = REACH_BROADCAST_DEPTH
             b == IF full THEN Tail(sub.reach) ELSE sub.reach
             q == Append(b, m)
  <1>1. CASE sub.pc \notin Tapped
    BY <1>1 DEF Broadcast
  <1>2. CASE sub.pc \in Tapped
    <2>b. b \in Seq(Tellings)
      <3>1. full => sub.reach # <<>>
        BY SubFields, TelemetryAssumption
      <3> QED
        BY <3>1, SubFields
    <2>q. q # <<>> /\ q[Len(q)] = m
      <3> HIDE DEF b
      <3>1. Len(q) = Len(b) + 1 /\ Len(b) \in Nat
        BY <2>b
      <3> QED
        BY <2>b, <3>1
    <2>1. sub' = [sub EXCEPT !.reach = q, !.lag = sub.lag \/ full]
      BY <1>2, SubFields DEF Broadcast, Depth, Subs
    <2> HIDE DEF q, full
    <2> DEFINE g == sub.lag \/ full
    <2>g. sub' = [sub EXCEPT !.reach = q, !.lag = g] /\ (~g => ~sub.lag)
      BY <2>1
    <2> HIDE DEF g
    <2>2. /\ sub'.pc = sub.pc /\ sub'.view = sub.view /\ sub'.audit = sub.audit
          /\ sub'.open = sub.open /\ sub'.lag = g /\ sub'.reach = q
      BY <2>g, SubFields DEF Subs
    <2> QED
      BY <1>2, <2>g, <2>2, <2>q
  <1> QED
    BY <1>1, <1>2

(* A transition that is sent.                                                *)
LEMMA SendTells ==
  ASSUME RowInv, RowTypeOK', SubOK, WriterInv, NEW w \in Writer, Send(w)
  PROVE  WriterInv'
  <1>t. task \in [Writer -> Tasks] /\ task[w] \in Tasks
    BY DEF RowInv, RowTypeOK
  <1>1. /\ task[w].pc = "send" /\ UNCHANGED <<row, ticket>>
        /\ task'[w].pc = "rest" /\ \A v \in Writer \ {w} : task'[v] = task[v]
        /\ Broadcast("reach", Says(w))
    BY <1>t, Typed DEF Send, Rest, Says
  <1>2. Says(w) \in Tellings
    BY <1>t, Typed DEF Says, Tellings
  <1>n. /\ \A v \in Writer : task[v].seq \in Nat
        /\ row # NoRow => row.seq \in Nat
    BY Typed DEF RowInv, RowTypeOK
  <1>s. /\ w \in Sending /\ w \notin Sending'
        /\ \A v \in Sending' : v \in Sending /\ v \in Writer /\ v # w /\ task'[v] = task[v]
        /\ \A v \in Sending : v = w \/ v \in Sending'
    BY <1>1 DEF Sending
  <1>r. row # NoRow /\ task[w].seq <= row.seq
    BY <1>s DEF WriterInv, SeqInv
  <1>w. ~swapped' => /\ \A v \in Sending : task[w].seq <= task[v].seq
                     /\ ~swapped \/ task[w].seq = row.seq
    <2>1. ~swapped' => ~\E o \in Writer : task[o].pc = "send" /\ task[o].seq < task[w].seq
      BY <1>t DEF Send
    <2>2. ~swapped' => ~swapped \/ task[w].seq = row.seq
      BY DEF Send
    <2> QED
      BY <2>1, <2>2, <1>n DEF Sending
  <1>e. ~swapped' /\ task[w].seq = row.seq => Sending' = {}
    BY <1>n, <1>r, <1>s, <1>w DEF WriterInv, SeqInv, Sending
  <1>3. SeqInv'
    BY <1>1, <1>s DEF WriterInv, SeqInv
  <1>4. SaysInv'
    <2>1. \A v \in Sending' : Says(v)' = Says(v)
      BY <1>s DEF Says
    <2>2. \A v \in Sending' : task'[v].seq = row'.seq => Says(v)' = Told(row')
      BY <1>1, <1>s, <2>1 DEF WriterInv, SaysInv
    <2>3. ASSUME ~swapped', NEW v \in Sending',
                 \A o \in Sending' : task'[o].seq <= task'[v].seq
          PROVE  Says(v)' = Told(row')
      <3>1. ~swapped
        BY <1>e, <1>w, <2>3
      <3>2. \A o \in Sending : task[o].seq <= task[v].seq
        BY <1>s, <1>w, <2>3
      <3> QED
        BY <1>1, <1>s, <2>1, <2>3, <3>1, <3>2 DEF WriterInv, SaysInv
    <2> QED
      BY <2>2, <2>3 DEF SaysInv
  <1>5. SeenInv'
    <2> SUFFICES ASSUME ~swapped', Sending' = {}, sub'.pc \in Tapped
                 PROVE  Latest' = Told(row')
      BY DEF SeenInv, Tapped
    <2>1. Sending = {w}
      BY <1>s
    <2>2. Says(w) = Told(row)
      BY <1>n, <1>w, <2>1 DEF WriterInv, SaysInv
    <2>3. sub'.reach # <<>> /\ sub'.reach[Len(sub'.reach)] = Says(w)
      BY <1>1, <1>2, ReachTakes
    <2> QED
      BY <1>1, <2>2, <2>3 DEF Latest
  <1> QED
    BY <1>3, <1>4, <1>5 DEF WriterInv

-----------------------------------------------------------------------------
(* The rings from the subscriber's end.                                      *)

LEMMA TailEntries ==
  ASSUME NEW S, NEW q \in Seq(S), q # <<>>
  PROVE  /\ Tail(q) \in Seq(S) /\ Head(q) = q[1] /\ Len(Tail(q)) = Len(q) - 1 /\ Len(q) \in Nat \ {0}
         /\ \A j \in 1 .. Len(Tail(q)) : j + 1 \in 1 .. Len(q) /\ Tail(q)[j] = q[j + 1]
  OBVIOUS

LEMMA AppendEntries ==
  ASSUME NEW S, NEW q \in Seq(S), NEW m \in S
  PROVE  /\ Append(q, m) \in Seq(S) /\ Len(Append(q, m)) = Len(q) + 1 /\ Len(q) \in Nat
         /\ Append(q, m)[Len(q) + 1] = m
         /\ \A j \in 1 .. Len(q) : Append(q, m)[j] = q[j]
  OBVIOUS

LEMMA TailHolds ==
  ASSUME NEW q \in Seq(Records), q # <<>>, NEW s \in Session, NEW x \in {"open", "close"}
  PROVE  /\ Holds(Tail(q), s, x) => Holds(q, s, x)
         /\ Holds(q, s, x) => Holds(Tail(q), s, x) \/ Head(q) = [what |-> x, of |-> s]
         /\ Ordered(q) => Ordered(Tail(q))
         /\ Ordered(q) /\ Head(q) = [what |-> "close", of |-> s] => ~Holds(Tail(q), s, x)
  <1> DEFINE t == Tail(q)
  <1>1. /\ t \in Seq(Records) /\ Head(q) = q[1] /\ Len(t) = Len(q) - 1 /\ Len(q) \in Nat \ {0}
        /\ \A j \in 1 .. Len(t) : j + 1 \in 1 .. Len(q) /\ t[j] = q[j + 1]
    BY TailEntries
  <1> HIDE DEF t
  <1>2. Holds(t, s, x) => Holds(q, s, x)
    BY <1>1 DEF Holds
  <1>3. ASSUME Holds(q, s, x) PROVE Holds(t, s, x) \/ Head(q) = [what |-> x, of |-> s]
    <2>1. PICK j \in 1 .. Len(q) : q[j] = [what |-> x, of |-> s]
      BY <1>3 DEF Holds
    <2>2. CASE j = 1
      BY <1>1, <2>1, <2>2
    <2>3. CASE j # 1
      <3>1. j - 1 \in 1 .. Len(t) /\ (j - 1) + 1 = j
        BY <1>1, <2>3
      <3>2. t[j - 1] = q[j]
        BY <1>1, <3>1
      <3> QED
        BY <2>1, <3>1, <3>2 DEF Holds
    <2> QED
      BY <2>2, <2>3
  <1>4. ASSUME Ordered(q) PROVE Ordered(t)
    <2> SUFFICES ASSUME NEW j \in 1 .. Len(t), NEW k \in 1 .. Len(t),
                        t[j].of = t[k].of, t[k].what = "close", j # k
                 PROVE  j < k
      BY DEF Ordered
    <2>1. j + 1 \in 1 .. Len(q) /\ k + 1 \in 1 .. Len(q) /\ t[j] = q[j + 1] /\ t[k] = q[k + 1]
      BY <1>1
    <2>2. j + 1 < k + 1
      BY <1>4, <2>1 DEF Ordered
    <2> QED
      BY <1>1, <2>2
  <1>5. ASSUME Ordered(q), Head(q) = [what |-> "close", of |-> s], Holds(t, s, x) PROVE FALSE
    <2>1. PICK j \in 1 .. Len(t) : t[j] = [what |-> x, of |-> s]
      BY <1>5 DEF Holds
    <2>2. j + 1 \in 1 .. Len(q) /\ q[j + 1].of = s /\ q[1].of = s /\ q[1].what = "close"
      BY <1>1, <1>5, <2>1
    <2>3. 1 \in 1 .. Len(q) /\ j + 1 # 1
      BY <1>1
    <2>4. j + 1 < 1
      BY <1>5, <2>2, <2>3 DEF Ordered
    <2> QED
      BY <1>1, <2>4
  <1> QED
    BY <1>2, <1>3, <1>4, <1>5 DEF t

LEMMA AppendHolds ==
  ASSUME NEW q \in Seq(Records), NEW s \in Session, NEW x \in {"open", "close"},
         NEW m, m = [what |-> x, of |-> s]
  PROVE  /\ Holds(Append(q, m), s, x)
         /\ \A v \in Session, y \in {"open", "close"} :
               Holds(Append(q, m), v, y) <=> Holds(q, v, y) \/ (v = s /\ y = x)
         /\ Ordered(q) /\ ~Holds(q, s, "close") => Ordered(Append(q, m))
  <1> DEFINE a == Append(q, m)
  <1>0. m \in Records
    BY DEF Records
  <1>1. /\ a \in Seq(Records) /\ Len(a) = Len(q) + 1 /\ Len(q) \in Nat
        /\ a[Len(q) + 1] = m /\ \A j \in 1 .. Len(q) : a[j] = q[j]
    BY <1>0, AppendEntries
  <1> HIDE DEF a
  <1>2. ASSUME NEW v \in Session, NEW y \in {"open", "close"}
        PROVE  Holds(a, v, y) <=> Holds(q, v, y) \/ (v = s /\ y = x)
    <2>1. ASSUME Holds(a, v, y) PROVE Holds(q, v, y) \/ (v = s /\ y = x)
      <3>1. PICK j \in 1 .. Len(a) : a[j] = [what |-> y, of |-> v]
        BY <2>1 DEF Holds
      <3>2. CASE j = Len(q) + 1
        BY <1>1, <3>1, <3>2
      <3>3. CASE j # Len(q) + 1
        <4>1. j \in 1 .. Len(q)
          BY <1>1, <3>3
        <4> QED
          BY <1>1, <3>1, <4>1 DEF Holds
      <3> QED
        BY <3>2, <3>3
    <2>2. ASSUME Holds(q, v, y) PROVE Holds(a, v, y)
      BY <1>1, <2>2 DEF Holds
    <2>3. Len(q) + 1 \in 1 .. Len(a)
      BY <1>1
    <2>4. Holds(a, s, x)
      BY <1>1, <2>3 DEF Holds
    <2> QED
      BY <2>1, <2>2, <2>4
  <1>3. ASSUME Ordered(q), ~Holds(q, s, "close") PROVE Ordered(a)
    <2> SUFFICES ASSUME NEW j \in 1 .. Len(a), NEW k \in 1 .. Len(a),
                        a[j].of = a[k].of, a[k].what = "close", j # k
                 PROVE  j < k
      BY DEF Ordered
    <2>1. CASE k = Len(q) + 1
      BY <1>1, <2>1
    <2>2. CASE k # Len(q) + 1 /\ j # Len(q) + 1
      <3>1. j \in 1 .. Len(q) /\ k \in 1 .. Len(q)
        BY <1>1, <2>2
      <3> QED
        BY <1>1, <1>3, <3>1 DEF Ordered
    <2>3. CASE k # Len(q) + 1 /\ j = Len(q) + 1
      <3>1. k \in 1 .. Len(q) /\ a[k] = q[k] /\ q[k] \in Records /\ a[j] = m
        BY <1>1, <2>3
      <3>2. q[k].of = s /\ q[k].what = "close"
        BY <3>1
      <3>3. q[k] = [what |-> "close", of |-> s]
        BY <3>1, <3>2 DEF Records
      <3> QED
        BY <1>3, <3>1, <3>3 DEF Holds
    <2> QED
      BY <2>1, <2>2, <2>3
  <1> QED
    BY <1>2, <1>3 DEF a

LEMMA AuditTakes ==
  ASSUME SubOK, NEW m \in Records, Broadcast("audit", m)
  PROVE  /\ sub'.pc = sub.pc /\ sub'.view = sub.view /\ sub'.reach = sub.reach
         /\ sub'.open = sub.open
         /\ sub.pc \notin Tapped => sub'.audit = sub.audit /\ sub'.lag = sub.lag
         /\ sub.pc \in Tapped =>
               \/ sub'.audit = Append(sub.audit, m) /\ (~sub'.lag => ~sub.lag)
               \/ sub.audit # <<>> /\ sub'.audit = Append(Tail(sub.audit), m) /\ sub'.lag
  <1> DEFINE full == Len(sub.audit) = STREAM_BROADCAST_DEPTH
             b == IF full THEN Tail(sub.audit) ELSE sub.audit
             q == Append(b, m)
  <1>1. CASE sub.pc \notin Tapped
    BY <1>1 DEF Broadcast
  <1>2. CASE sub.pc \in Tapped
    <2>1. sub' = [sub EXCEPT !.audit = q, !.lag = sub.lag \/ full]
      BY <1>2, SubFields DEF Broadcast, Depth, Subs
    <2>b. full => sub.audit # <<>>
      BY SubFields, TelemetryAssumption
    <2>q. q = IF full THEN Append(Tail(sub.audit), m) ELSE Append(sub.audit, m)
      OBVIOUS
    <2> HIDE DEF q, full
    <2> DEFINE g == sub.lag \/ full
    <2>g. /\ sub' = [sub EXCEPT !.audit = q, !.lag = g] /\ (~g => ~sub.lag)
          /\ full => g
      BY <2>1
    <2> HIDE DEF g
    <2>2. /\ sub'.pc = sub.pc /\ sub'.view = sub.view /\ sub'.reach = sub.reach
          /\ sub'.open = sub.open /\ sub'.lag = g /\ sub'.audit = q
      BY <2>g, SubFields DEF Subs
    <2> QED
      BY <1>2, <2>b, <2>g, <2>2, <2>q
  <1> QED
    BY <1>1, <1>2

ListenInv == WriterInv /\ TapInv /\ RecordInv /\ KnownInv

(* The fields of the subscription after the steps that change its phase or   *)
(* take a message out of a ring.                                             *)
LEMMA PhaseMoves ==
  ASSUME SubOK, Tap \/ Subscribe \/ Ended
  PROVE  /\ sub'.reach = sub.reach /\ sub'.audit = sub.audit /\ sub'.lag = sub.lag
         /\ Tap => sub'.pc = "tapped" /\ sub.pc = "taps"
         /\ Subscribe => mode = "drain" /\ mode' = "stream" /\ sub'.pc = "taps"
         /\ Ended => /\ mode' = "over" /\ sub'.pc \in {"no", "over"}
                     /\ sub'.pc = "no" => sub.pc = "no"
  BY SubFields DEF Tap, Subscribe, Ended, Subs

LEMMA SnapshotMoves ==
  ASSUME SubOK, Snapshot
  PROVE  /\ sub.pc = "tapped" /\ sub'.pc = "forward" /\ sub'.reach = sub.reach
         /\ sub'.audit = sub.audit /\ sub'.lag = sub.lag
         /\ sub'.view = Told(row) /\ sub'.open = live
  BY SubFields DEF Snapshot, Subs

LEMMA ForwardReachMoves ==
  ASSUME SubOK, ForwardReach
  PROVE  /\ sub.pc = "forward" /\ sub'.pc = "forward" /\ sub.reach # <<>>
         /\ sub'.reach = Tail(sub.reach) /\ sub'.view = Head(sub.reach)
         /\ sub'.audit = sub.audit /\ sub'.lag = sub.lag /\ sub'.open = sub.open
  BY SubFields DEF ForwardReach, Subs

LEMMA ForwardAuditMoves ==
  ASSUME SubOK, ForwardAudit
  PROVE  LET m == Head(sub.audit) IN
         /\ sub.pc = "forward" /\ sub'.pc = "forward" /\ sub.audit # <<>>
         /\ sub'.audit = Tail(sub.audit) /\ sub'.lag = sub.lag
         /\ sub'.open = IF m.what = "open" THEN sub.open \cup {m.of} ELSE sub.open \ {m.of}
         /\ sub'.reach = sub.reach /\ sub'.view = sub.view
  <1> DEFINE m == Head(sub.audit)
             o == IF m.what = "open" THEN sub.open \cup {m.of} ELSE sub.open \ {m.of}
  <1>1. /\ sub.pc = "forward" /\ sub.audit # <<>>
        /\ sub' = [sub EXCEPT !.audit = Tail(sub.audit), !.open = o]
    BY SubFields DEF ForwardAudit, Subs
  <1> HIDE DEF o
  <1>2. /\ sub'.pc = "forward" /\ sub'.audit = Tail(sub.audit) /\ sub'.lag = sub.lag
        /\ sub'.open = o /\ sub'.reach = sub.reach /\ sub'.view = sub.view
    BY <1>1, SubFields DEF Subs
  <1> QED
    BY <1>1, <1>2 DEF o

(* Steps that leave the writers, or the sessions, alone.                     *)
LEMMA SameWriters ==
  ASSUME WriterInv, UNCHANGED <<row, ticket, task, swapped>>, SeenInv'
  PROVE  WriterInv'
  <1>1. Sending' = Sending /\ \A w \in Sending : Says(w)' = Says(w)
    BY DEF Sending, Says
  <1> QED
    BY <1>1 DEF WriterInv, SeqInv, SaysInv

LEMMA SameSessions ==
  ASSUME RecordInv, KnownInv, UNCHANGED <<sess, live, gap>>, sub'.pc = sub.pc,
         sub'.audit = sub.audit, sub'.open = sub.open, ~sub'.lag => ~sub.lag
  PROVE  RecordInv' /\ KnownInv'
  BY DEF RecordInv, KnownInv, Waiting

LEMMA TapListens ==
  ASSUME SubOK, ListenInv, Tap, UNCHANGED mode
  PROVE  ListenInv'
  <1>1. /\ sub.pc = "taps" /\ sub'.pc = "tapped" /\ sub'.reach = sub.reach
        /\ sub'.audit = sub.audit
    BY PhaseMoves
  <1>2. /\ gap' = {s \in Session : sess[s] = "recorded"}
        /\ UNCHANGED <<row, ticket, task, sess, live, swapped>>
    BY DEF Tap
  <1>3. sub.reach = <<>> /\ sub.audit = <<>>
    BY <1>1 DEF ListenInv, TapInv
  <1>4. SeenInv'
    BY <1>1, <1>3 DEF SeenInv
  <1>5. WriterInv'
    BY <1>2, <1>4, SameWriters DEF ListenInv
  <1>7. TapInv'
    BY <1>1 DEF ListenInv, TapInv
  <1>8. \A s \in Session, x \in {"open", "close"} : ~Waiting(s, x)'
    BY <1>1, <1>3 DEF Waiting, Holds
  <1>9. RecordInv' /\ KnownInv'
    BY <1>1, <1>2, <1>8 DEF ListenInv, RecordInv, KnownInv
  <1> QED
    BY <1>5, <1>7, <1>9 DEF ListenInv

(* The snapshot: a session it misses is recorded in the ring, unless it was  *)
(* recorded before the tap and is not in the table yet.                      *)
LEMMA SnapshotListens ==
  ASSUME SubOK, ListenInv, Snapshot, UNCHANGED mode
  PROVE  ListenInv'
  <1>1. /\ sub.pc = "tapped" /\ sub'.pc = "forward" /\ sub'.reach = sub.reach
        /\ sub'.audit = sub.audit /\ sub'.lag = sub.lag
        /\ sub'.view = Told(row) /\ sub'.open = live
    BY SnapshotMoves
  <1>2. /\ gap' = {s \in gap : sess[s] = "recorded"}
        /\ UNCHANGED <<row, ticket, task, sess, live, swapped>>
    BY DEF Snapshot
  <1>3. SeenInv'
    <2>1. Sending' = Sending
      BY <1>2 DEF Sending
    <2> QED
      BY <1>1, <1>2, <2>1 DEF ListenInv, WriterInv, SeenInv, Latest
  <1>4. WriterInv'
    BY <1>2, <1>3, SameWriters DEF ListenInv
  <1>5. TapInv'
    BY <1>1 DEF ListenInv, TapInv
  <1>6. RecordInv'
    BY <1>1, <1>2 DEF ListenInv, RecordInv, Waiting
  <1>7. KnownInv'
    BY <1>1, <1>2 DEF ListenInv, RecordInv, KnownInv, Waiting
  <1> QED
    BY <1>4, <1>5, <1>6, <1>7 DEF ListenInv

LEMMA ForwardReachListens ==
  ASSUME SubOK, ListenInv, ForwardReach, UNCHANGED mode
  PROVE  ListenInv'
  <1>1. /\ sub.pc = "forward" /\ sub'.pc = "forward" /\ sub.reach # <<>>
        /\ sub'.reach = Tail(sub.reach) /\ sub'.view = Head(sub.reach)
        /\ sub'.audit = sub.audit /\ sub'.lag = sub.lag /\ sub'.open = sub.open
    BY ForwardReachMoves
  <1>2. UNCHANGED <<row, ticket, task, sess, live, swapped, gap>>
    BY DEF ForwardReach
  <1>3. Latest' = Latest
    <2> DEFINE q == sub.reach
               t == Tail(q)
    <2>1. /\ q \in Seq(Tellings) /\ t \in Seq(Tellings) /\ Head(q) = q[1]
          /\ Len(t) = Len(q) - 1 /\ Len(q) \in Nat \ {0}
          /\ \A j \in 1 .. Len(t) : j + 1 \in 1 .. Len(q) /\ t[j] = q[j + 1]
      BY <1>1, SubFields, TailEntries
    <2> HIDE DEF t
    <2>2. CASE t = <<>>
      <3>1. Len(q) = 1
        BY <2>1, <2>2
      <3> QED
        BY <1>1, <2>1, <2>2, <3>1 DEF Latest, t
    <2>3. CASE t # <<>>
      <3>1. Len(t) \in 1 .. Len(t)
        BY <2>1, <2>3
      <3>2. t[Len(t)] = q[Len(q)]
        BY <2>1, <3>1
      <3> QED
        BY <1>1, <2>3, <3>2 DEF Latest, t
    <2> QED
      BY <2>2, <2>3
  <1>4. SeenInv'
    <2>1. Sending' = Sending
      BY <1>2 DEF Sending
    <2> QED
      BY <1>1, <1>2, <1>3, <2>1 DEF ListenInv, WriterInv, SeenInv
  <1>5. WriterInv'
    BY <1>2, <1>4, SameWriters DEF ListenInv
  <1>6. TapInv'
    BY <1>1 DEF ListenInv, TapInv
  <1>7. RecordInv' /\ KnownInv'
    BY <1>1, <1>2, SameSessions DEF ListenInv
  <1> QED
    BY <1>5, <1>6, <1>7 DEF ListenInv

(* A record taken from the ring moves what it said into what is believed.    *)
LEMMA ForwardAuditListens ==
  ASSUME SubOK, ListenInv, ForwardAudit, UNCHANGED mode
  PROVE  ListenInv'
  <1> DEFINE m == Head(sub.audit)
  <1>1. /\ sub.pc = "forward" /\ sub'.pc = "forward" /\ sub.audit # <<>>
        /\ sub'.audit = Tail(sub.audit) /\ sub'.lag = sub.lag
        /\ sub'.open = IF m.what = "open" THEN sub.open \cup {m.of} ELSE sub.open \ {m.of}
        /\ sub'.reach = sub.reach /\ sub'.view = sub.view
    BY ForwardAuditMoves
  <1>2. UNCHANGED <<row, ticket, task, sess, live, swapped, gap>>
    BY DEF ForwardAudit
  <1>3. SeenInv'
    <2>1. Sending' = Sending
      BY <1>2 DEF Sending
    <2> QED
      BY <1>1, <1>2, <2>1 DEF ListenInv, WriterInv, SeenInv, Latest
  <1>4. WriterInv'
    BY <1>2, <1>3, SameWriters DEF ListenInv
  <1>5. TapInv'
    BY <1>1 DEF ListenInv, TapInv
  <1>6. sub.audit \in Seq(Records) /\ m \in Records
    BY <1>1, SubFields
  <1>7. PICK x \in {"open", "close"}, u \in Session : m = [what |-> x, of |-> u]
    BY <1>6 DEF Records
  <1>8. m.what = x /\ m.of = u
    BY <1>7
  <1>9. \A s \in Session, y \in {"open", "close"} :
           /\ Waiting(s, y)' => Waiting(s, y)
           /\ Waiting(s, y) => Waiting(s, y)' \/ (s = u /\ y = x)
    <2> SUFFICES ASSUME NEW s \in Session, NEW y \in {"open", "close"}
                 PROVE  /\ Waiting(s, y)' => Waiting(s, y)
                        /\ Waiting(s, y) => Waiting(s, y)' \/ (s = u /\ y = x)
      OBVIOUS
    <2>1. /\ Holds(Tail(sub.audit), s, y) => Holds(sub.audit, s, y)
          /\ Holds(sub.audit, s, y) => Holds(Tail(sub.audit), s, y) \/ m = [what |-> y, of |-> s]
      BY <1>1, <1>6, TailHolds
    <2>2. m = [what |-> y, of |-> s] => s = u /\ y = x
      BY <1>8
    <2> QED
      BY <1>1, <2>1, <2>2 DEF Waiting
  <1>10. x = "close" => ~Waiting(u, "open")' /\ ~Waiting(u, "close")'
    BY <1>1, <1>6, <1>7, TailHolds DEF ListenInv, RecordInv, Waiting
  <1>11. Ordered(sub.audit)'
    BY <1>1, <1>6, <1>7, TailHolds DEF ListenInv, RecordInv
  <1>12. Waiting(u, x)
    <2>1. 1 \in 1 .. Len(sub.audit) /\ sub.audit[1] = m
      BY <1>1, <1>6, TailEntries
    <2> QED
      BY <1>7, <2>1 DEF Waiting, Holds
  <1>13. RecordInv'
    BY <1>2, <1>9, <1>11 DEF ListenInv, RecordInv
  <1>14. ASSUME ~sub.lag, NEW s \in Session \ gap
         PROVE  /\ sess[s] = "no" => s \notin sub'.open
                /\ sess[s] \in {"recorded", "live"} => s \in sub'.open \/ Waiting(s, "open")'
                /\ sess[s] = "closed" =>
                      Waiting(s, "close")' \/ (~Waiting(s, "open")' /\ s \notin sub'.open)
    <2>0. /\ sess[s] = "no" => s \notin sub.open
          /\ sess[s] \in {"recorded", "live"} => s \in sub.open \/ Waiting(s, "open")
          /\ sess[s] = "closed" =>
                Waiting(s, "close") \/ (~Waiting(s, "open") /\ s \notin sub.open)
          /\ sess[s] = "no" => ~Waiting(s, "open")
          /\ sess[s] # "closed" => ~Waiting(s, "close")
      BY <1>1, <1>14 DEF ListenInv, KnownInv, RecordInv
    <2>1. CASE s # u
      <3>1. s \in sub'.open <=> s \in sub.open
        BY <1>1, <1>8, <2>1
      <3> QED
        BY <1>9, <2>0, <2>1, <3>1
    <2>2. CASE s = u /\ x = "open"
      <3>1. s \in sub'.open
        BY <1>1, <1>8, <2>2
      <3> QED
        BY <1>9, <1>12, <2>0, <2>2, <3>1
    <2>3. CASE s = u /\ x = "close"
      <3>1. s \notin sub'.open
        BY <1>1, <1>8, <2>3
      <3> QED
        BY <1>10, <1>12, <2>0, <2>3, <3>1
    <2> QED
      BY <2>1, <2>2, <2>3
  <1>15. KnownInv'
    BY <1>1, <1>2, <1>14 DEF KnownInv
  <1> QED
    BY <1>4, <1>5, <1>13, <1>15 DEF ListenInv

(* The session table moves without a record.                                 *)
LEMMA TableListens ==
  ASSUME TableTypeOK, ListenInv, NEW s \in Session, InsertLive(s) \/ RemoveLive(s), UNCHANGED mode
  PROVE  ListenInv'
  <1>1. /\ UNCHANGED <<row, ticket, task, sub, swapped, gap>>
        /\ \A v \in Session \ {s} : sess'[v] = sess[v]
        /\ \A v \in Session \ {s} : v \in live' <=> v \in live
        /\ \/ sess[s] = "recorded" /\ sess'[s] = "live" /\ s \in live'
           \/ sess[s] = "live" /\ sess'[s] = "removed" /\ s \notin live'
    BY DEF TableTypeOK, InsertLive, RemoveLive, Moved
  <1>2. SeenInv'
    <2>1. Sending' = Sending
      BY <1>1 DEF Sending
    <2> QED
      BY <1>1, <2>1 DEF ListenInv, WriterInv, SeenInv, Latest
  <1>3. WriterInv'
    BY <1>1, <1>2, SameWriters DEF ListenInv
  <1>4. TapInv'
    BY <1>1 DEF ListenInv, TapInv
  <1>5. \A v \in Session, y \in {"open", "close"} : Waiting(v, y)' <=> Waiting(v, y)
    BY <1>1 DEF Waiting
  <1>6. RecordInv'
    <2>1. \A v \in Session : v \in live' <=> sess'[v] = "live"
      BY <1>1 DEF ListenInv, RecordInv
    <2>2. \A v \in Session : /\ sess'[v] = "no" => ~Waiting(v, "open")'
                             /\ sess'[v] # "closed" => ~Waiting(v, "close")'
      BY <1>1, <1>5 DEF ListenInv, RecordInv
    <2> QED
      BY <1>1, <2>1, <2>2 DEF ListenInv, RecordInv
  <1>7. KnownInv'
    <2>1. sub'.pc = "tapped" /\ ~sub'.lag => \A v \in Session :
             /\ sess'[v] = "recorded" /\ v \notin gap' => Waiting(v, "open")'
             /\ sess'[v] = "closed" => Waiting(v, "close")' \/ ~Waiting(v, "open")'
      BY <1>1, <1>5 DEF ListenInv, KnownInv
    <2>2. sub'.pc = "forward" /\ ~sub'.lag => \A v \in Session \ gap' :
             /\ sess'[v] = "no" => v \notin sub'.open
             /\ sess'[v] \in {"recorded", "live"} => v \in sub'.open \/ Waiting(v, "open")'
             /\ sess'[v] = "closed" =>
                   Waiting(v, "close")' \/ (~Waiting(v, "open")' /\ v \notin sub'.open)
      BY <1>1, <1>5 DEF ListenInv, KnownInv
    <2> QED
      BY <2>1, <2>2 DEF KnownInv
  <1> QED
    BY <1>3, <1>4, <1>6, <1>7 DEF ListenInv

(* A record is made and told: of an opening, or of a close.                  *)
LEMMA RecordListens ==
  ASSUME TableTypeOK, ListenInv, NEW s \in Session, NEW x \in {"open", "close"},
         UNCHANGED <<mode, row, ticket, task, live, swapped, gap>>,
         NEW m, m = [what |-> x, of |-> s], Broadcast("audit", m),
         \A v \in Session \ {s} : sess'[v] = sess[v],
         \/ x = "open" /\ sess[s] = "no" /\ sess'[s] = "recorded"
         \/ x = "close" /\ sess[s] = "removed" /\ sess'[s] = "closed"
  PROVE  ListenInv'
  <1>0. SubOK /\ m \in Records /\ sub.audit \in Seq(Records)
    BY SubFields DEF TableTypeOK, Records
  <1>1. /\ sub'.pc = sub.pc /\ sub'.view = sub.view /\ sub'.reach = sub.reach
        /\ sub'.open = sub.open
        /\ sub.pc \notin Tapped => sub'.audit = sub.audit /\ sub'.lag = sub.lag
        /\ sub.pc \in Tapped =>
              \/ sub'.audit = Append(sub.audit, m) /\ (~sub'.lag => ~sub.lag)
              \/ sub.audit # <<>> /\ sub'.audit = Append(Tail(sub.audit), m) /\ sub'.lag
    BY <1>0, AuditTakes
  <1>2. SeenInv'
    <2>1. Sending' = Sending
      BY DEF Sending
    <2> QED
      BY <1>1, <2>1 DEF ListenInv, WriterInv, SeenInv, Latest
  <1>3. WriterInv'
    BY <1>2, SameWriters DEF ListenInv
  <1>4. TapInv'
    BY <1>1 DEF ListenInv, TapInv, Tapped
  <1>a. \A v \in Session : v \in live' <=> sess'[v] = "live"
    BY DEF ListenInv, RecordInv
  <1>c. ~Waiting(s, "close") /\ Ordered(sub.audit) /\ (x = "open" => ~Waiting(s, "open"))
    BY DEF ListenInv, RecordInv
  <1>5. CASE sub'.audit = sub.audit /\ sub.pc \notin Tapped
    <2>1. \A v \in Session, y \in {"open", "close"} : Waiting(v, y)' <=> Waiting(v, y)
      BY <1>5 DEF Waiting
    <2>2. RecordInv'
      BY <1>5, <1>a, <1>c, <2>1 DEF ListenInv, RecordInv
    <2>3. KnownInv'
      BY <1>1, <1>5 DEF KnownInv, Tapped
    <2> QED
      BY <1>3, <1>4, <2>2, <2>3 DEF ListenInv
  <1>6. CASE sub'.audit = Append(sub.audit, m) /\ (~sub'.lag => ~sub.lag)
    <2>1. /\ \A v \in Session, y \in {"open", "close"} :
                Waiting(v, y)' <=> Waiting(v, y) \/ (v = s /\ y = x)
          /\ Ordered(sub.audit)'
      BY <1>0, <1>6, <1>c, AppendHolds DEF Waiting
    <2>2. RecordInv'
      <3>1. \A v \in Session : /\ sess'[v] = "no" => ~Waiting(v, "open")'
                               /\ sess'[v] # "closed" => ~Waiting(v, "close")'
        BY <2>1 DEF ListenInv, RecordInv
      <3> QED
        BY <1>a, <2>1, <3>1 DEF RecordInv
    <2>3. KnownInv'
      <3>1. sub'.pc = "tapped" /\ ~sub'.lag => \A v \in Session :
               /\ sess'[v] = "recorded" /\ v \notin gap' => Waiting(v, "open")'
               /\ sess'[v] = "closed" => Waiting(v, "close")' \/ ~Waiting(v, "open")'
        BY <1>1, <1>6, <2>1 DEF ListenInv, KnownInv
      <3>2. sub'.pc = "forward" /\ ~sub'.lag => \A v \in Session \ gap' :
               /\ sess'[v] = "no" => v \notin sub'.open
               /\ sess'[v] \in {"recorded", "live"} => v \in sub'.open \/ Waiting(v, "open")'
               /\ sess'[v] = "closed" =>
                     Waiting(v, "close")' \/ (~Waiting(v, "open")' /\ v \notin sub'.open)
        BY <1>1, <1>6, <2>1 DEF ListenInv, KnownInv
      <3> QED
        BY <3>1, <3>2 DEF KnownInv
    <2> QED
      BY <1>3, <1>4, <2>2, <2>3 DEF ListenInv
  <1>7. CASE sub.audit # <<>> /\ sub'.audit = Append(Tail(sub.audit), m) /\ sub'.lag
    <2> DEFINE b == Tail(sub.audit)
    <2>1. /\ b \in Seq(Records) /\ Ordered(b)
          /\ \A v \in Session, y \in {"open", "close"} : Holds(b, v, y) => Waiting(v, y)
      BY <1>0, <1>7, <1>c, TailHolds, TailEntries DEF Waiting
    <2>2. sub'.audit = Append(b, m)
      BY <1>7
    <2> HIDE DEF b
    <2>3. ~Holds(b, s, "close")
      BY <1>c, <2>1
    <2>4. /\ \A v \in Session, y \in {"open", "close"} :
                Waiting(v, y)' => Waiting(v, y) \/ (v = s /\ y = x)
          /\ Ordered(sub.audit)'
      BY <2>1, <2>2, <2>3, AppendHolds DEF Waiting
    <2>5. RecordInv'
      <3>1. \A v \in Session : /\ sess'[v] = "no" => ~Waiting(v, "open")'
                               /\ sess'[v] # "closed" => ~Waiting(v, "close")'
        BY <2>4 DEF ListenInv, RecordInv
      <3> QED
        BY <1>a, <2>4, <3>1 DEF RecordInv
    <2>6. KnownInv'
      BY <1>7 DEF KnownInv
    <2> QED
      BY <1>3, <1>4, <2>5, <2>6 DEF ListenInv
  <1> QED
    BY <1>1, <1>5, <1>6, <1>7

LEMMA SessionListens ==
  ASSUME TableTypeOK, ListenInv, NEW s \in Session, UNCHANGED mode,
         RecordOpen(s) \/ InsertLive(s) \/ RemoveLive(s) \/ RecordClose(s)
  PROVE  ListenInv'
  <1>1. CASE RecordOpen(s)
    <2>1. /\ UNCHANGED <<row, ticket, task, live, swapped, gap>>
          /\ Broadcast("audit", [what |-> "open", of |-> s])
          /\ sess[s] = "no" /\ sess'[s] = "recorded"
          /\ \A v \in Session \ {s} : sess'[v] = sess[v]
      BY <1>1 DEF RecordOpen, Moved, TableTypeOK
    <2> QED
      BY <2>1, RecordListens
  <1>2. CASE RecordClose(s)
    <2>1. /\ UNCHANGED <<row, ticket, task, live, swapped, gap>>
          /\ Broadcast("audit", [what |-> "close", of |-> s])
          /\ sess[s] = "removed" /\ sess'[s] = "closed"
          /\ \A v \in Session \ {s} : sess'[v] = sess[v]
      BY <1>2 DEF RecordClose, Moved, TableTypeOK
    <2> QED
      BY <2>1, RecordListens
  <1> QED
    BY <1>1, <1>2, TableListens

(* The writers' steps.                                                       *)
LEMMA WriterListens ==
  ASSUME RowInv, RowTypeOK', SubOK, ListenInv, WriterInv',
         UNCHANGED <<mode, sess, live, gap>>,
         sub' = sub \/ \E w \in Writer : Send(w)
  PROVE  ListenInv'
  <1>1. /\ sub'.pc = sub.pc /\ sub'.audit = sub.audit /\ sub'.open = sub.open
        /\ ~sub'.lag => ~sub.lag
        /\ sub.pc \notin Tapped => sub'.reach = sub.reach
    <2>1. CASE sub' = sub
      BY <2>1
    <2>2. ASSUME NEW w \in Writer, Send(w)
          PROVE  /\ sub'.pc = sub.pc /\ sub'.audit = sub.audit /\ sub'.open = sub.open
                 /\ ~sub'.lag => ~sub.lag
                 /\ sub.pc \notin Tapped => sub'.reach = sub.reach
      <3>1. Broadcast("reach", Says(w)) /\ Says(w) \in Tellings
        BY <2>2, Typed DEF Send, Says, RowInv, RowTypeOK, Tellings
      <3> QED
        BY <3>1, ReachTakes
    <2> QED
      BY <2>1, <2>2
  <1>2. TapInv'
    BY <1>1 DEF ListenInv, TapInv, Tapped
  <1>3. RecordInv' /\ KnownInv'
    BY <1>1, SameSessions DEF ListenInv
  <1> QED
    BY <1>2, <1>3 DEF ListenInv

(* The connection's steps: a subscription begins with empty rings, and ends. *)
LEMMA PhaseListens ==
  ASSUME SubOK, ListenInv, Subscribe \/ Ended
  PROVE  ListenInv'
  <1>1. /\ sub'.reach = sub.reach /\ sub'.audit = sub.audit
        /\ Subscribe => mode = "drain" /\ mode' = "stream" /\ sub'.pc = "taps"
        /\ Ended => mode' = "over" /\ sub'.pc \in {"no", "over"} /\ (sub'.pc = "no" => sub.pc = "no")
    BY PhaseMoves
  <1>2. UNCHANGED <<row, ticket, task, sess, live, swapped, gap>>
    BY DEF Subscribe, Ended
  <1>3. sub'.pc \notin {"tapped", "forward"}
    BY <1>1
  <1>4. WriterInv'
    BY <1>2, <1>3, SameWriters DEF ListenInv, SeenInv
  <1>5. TapInv'
    BY <1>1 DEF ListenInv, TapInv
  <1>6. RecordInv' /\ KnownInv'
    BY <1>1, <1>2, <1>3 DEF ListenInv, RecordInv, KnownInv, Waiting
  <1> QED
    BY <1>4, <1>5, <1>6 DEF ListenInv

LEMMA ListenInit == Init => ListenInv
  <1> SUFFICES ASSUME Init PROVE ListenInv
    OBVIOUS
  <1>1. /\ \A w \in Writer : task[w] = Resting
        /\ row = NoRow /\ ~swapped /\ live = {} /\ \A s \in Session : sess[s] = "no"
        /\ sub.pc = "no" /\ sub.reach = <<>> /\ sub.audit = <<>>
    BY DEF Init, TelemetryInit, Writer, Unsubscribed
  <1>2. \A s \in Session, y \in {"open", "close"} : ~Waiting(s, y)
    BY <1>1 DEF Waiting, Holds
  <1>3. Sending = {}
    BY <1>1, Typed DEF Sending
  <1>4. WriterInv
    BY <1>1, <1>3, Typed DEF WriterInv, SeqInv, SaysInv, SeenInv
  <1>5. TapInv /\ RecordInv /\ KnownInv
    BY <1>1, <1>2 DEF TapInv, RecordInv, KnownInv, Ordered
  <1> QED
    BY <1>4, <1>5 DEF ListenInv

LEMMA ListenStep ==
  ASSUME RowInv, TableTypeOK, ListenInv, [Next]_vars
  PROVE  ListenInv'
  <1>r. RowInv' /\ RowTypeOK' /\ SubOK
    <2>1. RowInv'
      BY RowStep
    <2> QED
      BY <2>1 DEF RowInv, TableTypeOK
  <1>w. WriterInv
    BY DEF ListenInv
  <1>1. CASE TelemetryNext /\ UNCHANGED connection
    <2>0. TelemetryNext /\ UNCHANGED mode
      BY <1>1 DEF connection
    <2>1. ASSUME NEW w \in Writer, Ask(w) \/ Quit(w) \/ Send(w) PROVE ListenInv'
      <3>1. WriterInv'
        BY <1>r, <1>w, <2>1, AskQuiet, QuitQuiet, SendTells
      <3>2. UNCHANGED <<sess, live, gap>> /\ (sub' = sub \/ Send(w))
        BY <2>1 DEF Ask, Quit, Send
      <3> QED
        BY <1>r, <2>0, <3>1, <3>2, WriterListens
    <2>2. ASSUME NEW p \in Prober, CommitProbe(p) PROVE ListenInv'
      <3>1. WriterInv'
        BY <1>r, <1>w, <2>2, CommitProbeTells
      <3>2. UNCHANGED <<sess, live, gap, sub>>
        BY <2>2 DEF CommitProbe
      <3> QED
        BY <1>r, <2>0, <3>1, <3>2, WriterListens
    <2>3. ASSUME NEW p \in Prober, NEW up \in BOOLEAN, NEW path \in Path, Hear(p, up, path)
          PROVE  ListenInv'
      <3>1. WriterInv'
        BY <1>r, <1>w, <2>3, HearQuiet
      <3>2. UNCHANGED <<sess, live, gap, sub>>
        BY <2>3 DEF Hear
      <3> QED
        BY <1>r, <2>0, <3>1, <3>2, WriterListens
    <2>4. ASSUME NEW w \in Watcher, NEW path \in Path, CommitObservation(w, path)
          PROVE  ListenInv'
      <3>1. WriterInv'
        BY <1>r, <1>w, <2>4, CommitObservationTells
      <3>2. UNCHANGED <<sess, live, gap, sub>>
        BY <2>4 DEF CommitObservation
      <3> QED
        BY <1>r, <2>0, <3>1, <3>2, WriterListens
    <2>5. ASSUME NEW s \in Session,
                 RecordOpen(s) \/ InsertLive(s) \/ RemoveLive(s) \/ RecordClose(s)
          PROVE  ListenInv'
      BY <2>0, <2>5, SessionListens
    <2>6. CASE Tap \/ Snapshot \/ ForwardReach \/ ForwardAudit
      BY <1>r, <2>0, <2>6, TapListens, SnapshotListens, ForwardReachListens, ForwardAuditListens
    <2> QED
      BY <2>0, <2>1, <2>2, <2>3, <2>4, <2>5, <2>6 DEF TelemetryNext, Writer
  <1>2. CASE Subscribe \/ Ended
    BY <1>r, <1>2, PhaseListens
  <1>3. CASE /\ UNCHANGED telemetry
             /\ \/ UNCHANGED mode
                \/ mode \in {"loop", "drain"} /\ mode' \in {"drain", "session"}
    <2>1. UNCHANGED <<row, ticket, task, sess, live, sub, swapped, gap>>
      BY <1>3 DEF telemetry
    <2>2. SeenInv'
      <3>1. Sending' = Sending
        BY <2>1 DEF Sending
      <3> QED
        BY <2>1, <3>1 DEF ListenInv, WriterInv, SeenInv, Latest
    <2>3. WriterInv'
      BY <1>w, <2>1, <2>2, SameWriters
    <2>4. TapInv'
      BY <1>3, <2>1 DEF ListenInv, TapInv
    <2>5. RecordInv' /\ KnownInv'
      BY <2>1, SameSessions DEF ListenInv
    <2> QED
      BY <2>3, <2>4, <2>5 DEF ListenInv
  <1>4. \/ TelemetryNext /\ UNCHANGED connection
        \/ Subscribe \/ Ended
        \/ /\ UNCHANGED telemetry
           /\ \/ UNCHANGED mode
              \/ mode \in {"loop", "drain"} /\ mode' \in {"drain", "session"}
    BY DEF Next, vars, connection, ClientSends, ClientLeaves, ReadCall, ReadRefused,
       ReadShutdown, ReadEnd, Aborted, ReadUpgrade, Takes, Handled, Written, Returned,
       OpenSession, StreamEnds
  <1> QED
    BY <1>1, <1>2, <1>3, <1>4

(* A subscriber that has not fallen behind and has received what was sent    *)
(* believes what the tables say, wherever run_subscription's tap and its     *)
(* snapshot fell between the steps of the probes, the path watchers and the  *)
(* sessions: for any number of each and any depth of the rings.              *)
THEOREM ProjectsHolds == Spec => []Projects
  <1> DEFINE I == RowInv /\ TableTypeOK /\ ListenInv
  <1>1. Init => I
    BY RowInit, TableInit, ListenInit
  <1>2. I /\ [Next]_vars => I'
    BY RowStep, TableStep, ListenStep
  <1>3. I => Projects
    <2> SUFFICES ASSUME I, sub.pc = "forward", ~sub.lag
                 PROVE  /\ sub.reach = <<>> /\ ~swapped
                           /\ (\A w \in DOMAIN task : task[w].pc # "send") => sub.view = Told(row)
                        /\ sub.audit = <<>> =>
                             \A s \in Session \ gap :
                                sess[s] \in {"no", "live", "closed"} =>
                                    (s \in sub.open <=> s \in live)
      BY DEF Projects
    <2>1. ASSUME sub.reach = <<>>, ~swapped, \A w \in DOMAIN task : task[w].pc # "send"
          PROVE  sub.view = Told(row)
      <3>1. Sending = {}
        BY <2>1 DEF Sending, RowInv, RowTypeOK
      <3> QED
        BY <2>1, <3>1 DEF ListenInv, WriterInv, SeenInv, Latest
    <2>2. ASSUME sub.audit = <<>>, NEW s \in Session \ gap, sess[s] \in {"no", "live", "closed"}
          PROVE  s \in sub.open <=> s \in live
      <3>1. ~Waiting(s, "open") /\ ~Waiting(s, "close")
        BY <2>2 DEF Waiting, Holds
      <3> QED
        BY <2>2, <3>1 DEF ListenInv, KnownInv, RecordInv
    <2> QED
      BY <2>1, <2>2
  <1> HIDE DEF I
  <1> QED
    BY <1>1, <1>2, <1>3, PTL DEF Spec
=============================================================================
