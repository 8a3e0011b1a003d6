----------------------------- MODULE Telemetry -----------------------------
(***************************************************************************)
(* What a node tells its subscribers: the reachability row of a peer and   *)
(* its two kinds of writers, probes (node/src/daemon/reach.rs) and session *)
(* path watchers (path_watch.rs), the table of open sessions               *)
(* (node/src/audit/log.rs), the broadcast rings both feed, and a           *)
(* subscription that joins a snapshot with the rings (node/src/control.rs).*)
(*                                                                         *)
(* Left out: round-trip times, metadata and ages; the TTL and the claim    *)
(* that limit how many probes run (any number may); the audit file; the    *)
(* three rings that carry no table (blobs, resume, own network).           *)
(***************************************************************************)
EXTENDS Naturals, Sequences

CONSTANTS Prober, Watcher,  \* the writers of the row
          Session,
          NoRow,
          MaxTicket,        \* bound on tickets drawn from probe_seq
          REACH_BROADCAST_DEPTH, STREAM_BROADCAST_DEPTH  \* of the two rings

ASSUME TelemetryAssumption ==
    /\ Prober \cap Watcher = {}
    /\ MaxTicket \in Nat \ {0}
    /\ {REACH_BROADCAST_DEPTH, STREAM_BROADCAST_DEPTH} \subseteq Nat \ {0}

VARIABLES
    row,      \* the peer's entry in MeshState::reachability
    ticket,   \* probe_seq
    task,     \* what each writer is doing
    sess,     \* how far each session has got
    live,     \* the live table of open_tracked
    sub,      \* the subscription
    heard,    \* history: the latest ticket at which the peer was found reachable
    lost,     \* history: the row does not carry that ticket
    ponged,   \* history: a probe has brought a pong in
    swapped,  \* history: transitions were sent out of the order of commits
    gap       \* history: sessions recorded before the rings were tapped and
              \* not in the table yet when the snapshot was read

telemetry == <<row, ticket, task, sess, live, sub, heard, lost, ponged, swapped, gap>>

Path == {"unknown", "relay", "direct"}
Row == [up : BOOLEAN, path : Path, seq : Nat, obs : Nat, pong : BOOLEAN]

ASSUME RowAssumption == NoRow \notin Row

\* What a subscriber is told of the row: none is an unreachable peer.
Told(r) == IF r = NoRow THEN [up |-> FALSE, path |-> "unknown"]
                        ELSE [up |-> r.up, path |-> r.path]
Tellings == [up : BOOLEAN, path : Path]

Resting == [pc |-> "rest", seq |-> 0, up |-> FALSE, path |-> "unknown", obs |-> 0]
Tasks == [pc : {"rest", "asked", "heard", "send"}, seq : Nat, up : BOOLEAN,
          path : Path, obs : Nat]

\* The rings are the subscription's own: what it has not received of each,
\* and whether it was told that it fell behind.
Unsubscribed == [pc |-> "no", reach |-> <<>>, audit |-> <<>>, lag |-> FALSE,
                 view |-> Told(NoRow), open |-> {}]
Tapped == {"tapped", "forward"}
Depth(ring) == IF ring = "reach" THEN REACH_BROADCAST_DEPTH ELSE STREAM_BROADCAST_DEPTH
Records == [what : {"open", "close"}, of : Session]
Subs == [pc : {"no", "taps", "tapped", "forward", "over"},
         reach : Seq(Tellings), audit : Seq(Records),
         lag : BOOLEAN, view : Tellings, open : SUBSET Session]

TelemetryInit ==
    /\ row = NoRow /\ ticket = 1
    /\ task = [w \in Prober \cup Watcher |-> Resting]
    /\ sess = [s \in Session |-> "no"] /\ live = {}
    /\ sub = Unsubscribed
    /\ heard = 0 /\ lost = FALSE /\ ponged = FALSE /\ swapped = FALSE /\ gap = {}

\* broadcast::Sender::send: a full ring loses its oldest message, of which
\* the receiver is told.
Broadcast(ring, m) ==
    LET full == Len(sub[ring]) = Depth(ring)
    IN  sub' = IF sub.pc \in Tapped
               THEN [sub EXCEPT ![ring] = Append(IF full THEN Tail(@) ELSE @, m),
                                !.lag = @ \/ full]
               ELSE sub

Rest(w) == task' = [task EXCEPT ![w] = Resting]

-----------------------------------------------------------------------------
(* The writers of the row.                                                 *)

\* A probe or an observation begins with its ticket.
Ask(w) ==
    /\ task[w].pc = "rest" /\ ticket < MaxTicket
    /\ task' = [task EXCEPT ![w] = [Resting EXCEPT !.pc = "asked", !.seq = ticket]]
    /\ ticket' = ticket + 1
    /\ UNCHANGED <<row, sess, live, sub, heard, lost, ponged, swapped, gap>>

\* It commits nothing: the device is refused, the peer throttled the probe,
\* or the watched connection is gone.
Quit(w) ==
    /\ task[w].pc = "asked"
    /\ Rest(w)
    /\ UNCHANGED <<row, ticket, sess, live, sub, heard, lost, ponged, swapped, gap>>

\* probe_once and classify: a pong, or a failure after which the path is
\* unknown; then the commit ticket.
Hear(p, up, path) ==
    /\ task[p].pc = "asked" /\ ticket < MaxTicket
    /\ up \/ path = "unknown"
    /\ task' = [task EXCEPT ![p].pc = "heard", ![p].up = up, ![p].path = path,
                            ![p].obs = ticket]
    /\ ticket' = ticket + 1
    /\ UNCHANGED <<row, sess, live, sub, heard, lost, ponged, swapped, gap>>

\* supersedes: the ticket of the start orders the writers.
Supersedes(seq, r) == seq >= r.seq

\* Mutant: a failure counts as much as a pong.
ContradictedByMutant(t, r) == FALSE

\* contradicted_by: a pong landed inside the window of a probe that failed.
ContradictedBy(t, r) == ~t.up /\ r.up /\ r.obs > t.seq

\* Mutant: the pong of a superseded probe is dropped with its verdict.
KeptPongMutant(t, r) == r

\* A superseded probe still lends its pong to a reachable row that has none.
KeptPong(t, r) == IF r.up /\ ~r.pong /\ t.up THEN [r EXCEPT !.pong = TRUE] ELSE r

\* probe_peer from its commit on, under one lock; the transition is sent later.
CommitProbe(p) ==
    LET t == task[p]
        new == [up |-> t.up, path |-> t.path, seq |-> t.seq, obs |-> t.obs, pong |-> t.up]
    IN  /\ t.pc = "heard"
        /\ IF row # NoRow /\ ~Supersedes(t.seq, row)
           THEN row' = KeptPong(t, row) /\ Rest(p)
           ELSE IF row # NoRow /\ ContradictedBy(t, row)
           THEN Rest(p) /\ UNCHANGED row
           ELSE /\ row' = new
                /\ IF Told(row) # Told(new)
                   THEN task' = [task EXCEPT ![p].pc = "send"] ELSE Rest(p)
        /\ heard' = IF t.up /\ t.obs > heard THEN t.obs ELSE heard
        /\ lost' = IF t.up THEN ~row'.up \/ row'.obs # heard' ELSE lost
        /\ ponged' = (ponged \/ t.up)
        /\ UNCHANGED <<ticket, sess, live, sub, swapped, gap>>

\* commit_observation: only the path is the watcher's to set; it seeds a row
\* as reachable, and is quiet when the path is what the row says already.
CommitObservation(w, path) ==
    LET t == task[w]
        new == IF row = NoRow
               THEN [up |-> TRUE, path |-> path, seq |-> t.seq, obs |-> ticket, pong |-> FALSE]
               ELSE [row EXCEPT !.path = path, !.seq = t.seq, !.obs = ticket]
    IN  /\ t.pc = "asked" /\ ticket < MaxTicket
        /\ IF row # NoRow /\ (~Supersedes(t.seq, row) \/ row.path = path)
           THEN Rest(w) /\ UNCHANGED <<row, ticket, heard, lost>>
           ELSE /\ row' = new
                /\ ticket' = ticket + 1
                /\ heard' = IF new.up THEN ticket ELSE heard
                /\ lost' = (lost /\ ~new.up)
                /\ task' = [task EXCEPT ![w].pc = "send", ![w].up = new.up, ![w].path = path]
        /\ UNCHANGED <<sess, live, sub, ponged, swapped, gap>>

\* The transition carries the row that was committed, not the row there is.
\* Rows are committed in the order of their tickets; nothing orders the sends.
Send(w) ==
    /\ task[w].pc = "send"
    /\ Broadcast("reach", [up |-> task[w].up, path |-> task[w].path])
    /\ swapped' = IF \E o \in DOMAIN task : task[o].pc = "send" /\ task[o].seq < task[w].seq
                  THEN TRUE ELSE swapped /\ task[w].seq # row.seq
    /\ Rest(w)
    /\ UNCHANGED <<row, ticket, sess, live, heard, lost, ponged, gap>>

-----------------------------------------------------------------------------
(* The session table.                                                      *)

Moved(s, from, to) == sess[s] = from /\ sess' = [sess EXCEPT ![s] = to]

\* open_tracked records, then inserts; close_tracked removes, then records.
RecordOpen(s) ==
    /\ Moved(s, "no", "recorded")
    /\ Broadcast("audit", [what |-> "open", of |-> s])
    /\ UNCHANGED <<row, ticket, task, live, heard, lost, ponged, swapped, gap>>

InsertLive(s) ==
    /\ Moved(s, "recorded", "live")
    /\ live' = live \cup {s}
    /\ UNCHANGED <<row, ticket, task, sub, heard, lost, ponged, swapped, gap>>

RemoveLive(s) ==
    /\ Moved(s, "live", "removed")
    /\ live' = live \ {s}
    /\ UNCHANGED <<row, ticket, task, sub, heard, lost, ponged, swapped, gap>>

RecordClose(s) ==
    /\ Moved(s, "removed", "closed")
    /\ Broadcast("audit", [what |-> "close", of |-> s])
    /\ UNCHANGED <<row, ticket, task, live, heard, lost, ponged, swapped, gap>>

-----------------------------------------------------------------------------
(* run_subscription.                                                       *)

\* The rings are tapped before anything is read ...
Tap ==
    /\ sub.pc = "taps"
    /\ sub' = [sub EXCEPT !.pc = "tapped"]
    /\ gap' = {s \in Session : sess[s] = "recorded"}
    /\ UNCHANGED <<row, ticket, task, sess, live, heard, lost, ponged, swapped>>

\* Mutant: the snapshot is read first.
SnapshotMutant ==
    /\ sub.pc = "tapped"
    /\ sub' = [sub EXCEPT !.pc = "forward", !.view = Told(row), !.open = live,
                          !.reach = <<>>, !.audit = <<>>]
    /\ gap' = {s \in gap : sess[s] = "recorded"}
    /\ UNCHANGED <<row, ticket, task, sess, live, heard, lost, ponged, swapped>>

\* ... the snapshot follows ...
Snapshot ==
    /\ sub.pc = "tapped"
    /\ sub' = [sub EXCEPT !.pc = "forward", !.view = Told(row), !.open = live]
    /\ gap' = {s \in gap : sess[s] = "recorded"}
    /\ UNCHANGED <<row, ticket, task, sess, live, heard, lost, ponged, swapped>>

\* ... and then every message of either ring, in its order.
ForwardReach ==
    /\ sub.pc = "forward" /\ sub.reach # <<>>
    /\ sub' = [sub EXCEPT !.reach = Tail(@), !.view = Head(sub.reach)]
    /\ UNCHANGED <<row, ticket, task, sess, live, heard, lost, ponged, swapped, gap>>

ForwardAudit ==
    /\ sub.pc = "forward" /\ sub.audit # <<>>
    /\ LET m == Head(sub.audit)
       IN  sub' = [sub EXCEPT !.audit = Tail(@),
                       !.open = IF m.what = "open" THEN @ \cup {m.of} ELSE @ \ {m.of}]
    /\ UNCHANGED <<row, ticket, task, sess, live, heard, lost, ponged, swapped, gap>>

TelemetryNext ==
    \/ \E w \in Prober \cup Watcher : Ask(w) \/ Quit(w) \/ Send(w)
    \/ \E p \in Prober : CommitProbe(p) \/ \E up \in BOOLEAN, path \in Path : Hear(p, up, path)
    \/ \E w \in Watcher, path \in Path \ {"unknown"} : CommitObservation(w, path)
    \/ \E s \in Session : RecordOpen(s) \/ InsertLive(s) \/ RemoveLive(s) \/ RecordClose(s)
    \/ Tap \/ Snapshot \/ ForwardReach \/ ForwardAudit

-----------------------------------------------------------------------------
(* Properties.                                                             *)

\* Every variable keeps its type; no ring holds more than its depth.
TelemetryTypeOK ==
    /\ row \in Row \cup {NoRow} /\ ticket \in 1 .. MaxTicket
    /\ task \in [Prober \cup Watcher -> Tasks]
    /\ sess \in [Session -> {"no", "recorded", "live", "removed", "closed"}]
    /\ live \subseteq Session /\ gap \subseteq Session
    /\ sub \in Subs /\ \A ring \in {"reach", "audit"} : Len(sub[ring]) <= Depth(ring)
    /\ heard \in Nat /\ lost \in BOOLEAN /\ ponged \in BOOLEAN /\ swapped \in BOOLEAN

\* A row says unreachable only if the peer was last found reachable before
\* the writer it comes from had begun: overlapping probes that end in any
\* order never "pin reachable: false" on a peer that answered meanwhile
\* (reach.rs).  Excused is an answer whose time the row does not carry: that
\* of a probe superseded when it lands, merged into the newer row or dropped,
\* and one overtaken by the row of a probe begun later and answered earlier.
NoFalseOffline == row # NoRow /\ ~row.up /\ ~lost => heard < row.seq

\* The same for every answer, as reach.rs has it.  The code does not keep it.
NeverFalseOffline == row # NoRow /\ ~row.up => heard < row.seq

\* Once a probe has brought a pong in, no reachable row is without its
\* payload, whichever of the probe and a session's watcher lands first: its
\* empty services would mean "the peer offers you nothing" (reach.rs).
PongKept == ponged /\ row # NoRow /\ row.up => row.pong

\* A subscriber that has not fallen behind and has received what was sent
\* believes what the tables say, wherever its subscription fell between the
\* steps of the writers.  Two races are excused: two transitions sent out of
\* the order of their commits, until the latest row's is sent, and a session
\* recorded before the rings were tapped and entered in the table after the
\* snapshot was read.
Projects ==
    sub.pc = "forward" /\ ~sub.lag =>
        /\ sub.reach = <<>> /\ ~swapped /\ (\A w \in DOMAIN task : task[w].pc # "send")
               => sub.view = Told(row)
        /\ sub.audit = <<>> =>
              \A s \in Session \ gap :
                 sess[s] \in {"no", "live", "closed"} => (s \in sub.open <=> s \in live)
=============================================================================
