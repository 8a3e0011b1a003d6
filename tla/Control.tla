------------------------------ MODULE Control ------------------------------
(***************************************************************************)
(* One connection of the control socket (node/src/control.rs): the read    *)
(* loop and its request tasks, which share a writer and a bounded number   *)
(* of permits, and the upgrades that take the connection over for a        *)
(* session or a subscription.  The subscription is Telemetry's.            *)
(*                                                                         *)
(* A request is named by its place among the frames the client sends.  The *)
(* writer's mutex is held for whole frames, so a frame is written in one   *)
(* step.  Left out: what the handlers do and answer, the teardown of the   *)
(* services registered through the connection (ServiceRegistry has both),  *)
(* and the bytes of a session.                                             *)
(***************************************************************************)
EXTENDS Telemetry, FiniteSets

CONSTANTS MaxRequests,  \* bound on the frames the client sends
          MAX_INFLIGHT

ASSUME ControlAssumption ==
    MaxRequests \in Nat /\ MAX_INFLIGHT \in Nat \ {0}

VARIABLES
    wire,     \* the frames the client sent
    next,     \* how many the read loop has taken
    mode,     \* what the connection's task is doing
    job,      \* the request tasks
    permits,  \* the free permits of the connection's semaphore
    reply,    \* how many frames answered each request
    client    \* whether the client is there

connection == <<wire, next, mode, job, permits, reply, client>>
vars == <<connection, telemetry>>

Request == 1 .. MaxRequests
Kinds == {"call", "bad", "shutdown", "open_session", "subscribe"}
Working == {"run", "write", "wrote"}

Init ==
    /\ TelemetryInit
    /\ wire = <<>> /\ next = 0 /\ mode = "loop"
    /\ job = [i \in Request |-> "none"]
    /\ permits = MAX_INFLIGHT
    /\ reply = [i \in Request |-> 0]
    /\ client = "here"

\* A frame written reaches a client that is still there.
Replied(i) == IF client = "here" THEN [reply EXCEPT ![i] = @ + 1] ELSE reply

\* The connection's task ends, and with its JoinSet every request task.
Ended ==
    /\ mode' = "over"
    /\ job' = [i \in Request |-> IF job[i] \in Working THEN "cut" ELSE job[i]]
    /\ permits' = MAX_INFLIGHT
    /\ sub' = [sub EXCEPT !.pc = IF @ = "no" THEN "no" ELSE "over"]
    /\ UNCHANGED <<row, ticket, task, sess, live, heard, lost, ponged, swapped, gap>>

-----------------------------------------------------------------------------
(* The client.                                                             *)

ClientSends(kind) ==
    /\ client = "here" /\ Len(wire) < MaxRequests
    /\ wire' = Append(wire, kind)
    /\ UNCHANGED <<next, mode, job, permits, reply, client, telemetry>>

ClientLeaves ==
    /\ client = "here"
    /\ client' = "gone"
    /\ UNCHANGED <<wire, next, mode, job, permits, reply, telemetry>>

-----------------------------------------------------------------------------
(* The read loop.                                                          *)

Takes(kind) == mode = "loop" /\ next < Len(wire) /\ wire[next + 1] = kind /\ next' = next + 1

\* A permit is taken if there is one, never waited for.
ReadCall ==
    /\ Takes("call") /\ permits > 0
    /\ permits' = permits - 1
    /\ job' = [job EXCEPT ![next + 1] = "run"]
    /\ UNCHANGED <<wire, mode, reply, client, telemetry>>

\* An answer from the loop itself: the request is over the limit, or is not
\* one.  A failed write ends the connection.
ReadRefused ==
    /\ Takes("bad") \/ (Takes("call") /\ permits = 0)
    /\ reply' = Replied(next + 1)
    /\ IF client = "here" THEN UNCHANGED <<mode, job, permits, telemetry>> ELSE Ended
    /\ UNCHANGED <<wire, client>>

\* shutdown: the signal is raised, the ack tried, and every control task,
\* this one included, is aborted.
ReadShutdown ==
    /\ Takes("shutdown")
    /\ reply' = Replied(next + 1)
    /\ Ended
    /\ UNCHANGED <<wire, client>>

ReadUpgrade(kind) ==
    /\ Takes(kind)
    /\ mode' = "drain"
    /\ UNCHANGED <<wire, job, permits, reply, client, telemetry>>

\* The client closed, and everything it sent was read.
ReadEnd ==
    /\ mode = "loop" /\ next = Len(wire) /\ client = "gone"
    /\ Ended
    /\ UNCHANGED <<wire, next, reply, client>>

\* Another connection's shutdown, or Node::shutdown, aborts this one.
Aborted ==
    /\ mode # "over"
    /\ Ended
    /\ UNCHANGED <<wire, next, reply, client>>

-----------------------------------------------------------------------------
(* The request tasks.                                                      *)

\* The handler returns, or panics and is answered for.
Handled(i) ==
    /\ job[i] = "run"
    /\ job' = [job EXCEPT ![i] = "write"]
    /\ UNCHANGED <<wire, next, mode, permits, reply, client, telemetry>>

Written(i) ==
    /\ job[i] = "write"
    /\ job' = [job EXCEPT ![i] = "wrote"]
    /\ reply' = Replied(i)
    /\ UNCHANGED <<wire, next, mode, permits, client, telemetry>>

\* Mutant: the permit is forgotten.
ReturnedMutant(i) ==
    /\ job[i] = "wrote"
    /\ job' = [job EXCEPT ![i] = "done"]
    /\ UNCHANGED <<wire, next, mode, permits, reply, client, telemetry>>

\* The task's end gives its permit back: after the answer is written.
Returned(i) ==
    /\ job[i] = "wrote"
    /\ job' = [job EXCEPT ![i] = "done"]
    /\ permits' = permits + 1
    /\ UNCHANGED <<wire, next, mode, reply, client, telemetry>>

-----------------------------------------------------------------------------
(* The upgrades.                                                           *)

\* Mutant: a handler that has not returned is not waited for.
DrainedMutant == \A i \in Request : job[i] # "write"

\* reclaim_writer: every request task runs to its end first.
Drained == \A i \in Request : job[i] \notin Working

OpenSession ==
    /\ mode = "drain" /\ wire[next] = "open_session" /\ Drained
    /\ mode' = "session"
    /\ UNCHANGED <<wire, next, job, permits, reply, client, telemetry>>

Subscribe ==
    /\ mode = "drain" /\ wire[next] = "subscribe" /\ Drained
    /\ mode' = "stream"
    /\ sub' = [sub EXCEPT !.pc = "taps"]
    /\ UNCHANGED <<wire, next, job, permits, reply, client, row, ticket, task, sess,
                   live, heard, lost, ponged, swapped, gap>>

\* The client is gone: the next write fails, the session's pipe ends.
StreamEnds ==
    /\ mode \in {"session", "stream"} /\ client = "gone"
    /\ Ended
    /\ UNCHANGED <<wire, next, reply, client>>

-----------------------------------------------------------------------------
Next ==
    \/ \E kind \in Kinds : ClientSends(kind)
    \/ ClientLeaves
    \/ ReadCall \/ ReadRefused \/ ReadShutdown \/ ReadEnd \/ Aborted
    \/ \E kind \in {"open_session", "subscribe"} : ReadUpgrade(kind)
    \/ \E i \in Request : Handled(i) \/ Written(i) \/ Returned(i)
    \/ OpenSession \/ Subscribe \/ StreamEnds
    \/ TelemetryNext /\ UNCHANGED connection

Spec == Init /\ [][Next]_vars

-----------------------------------------------------------------------------
(* Properties.                                                             *)

\* Every variable keeps its type; no request is answered twice, and the permits
\* never go below zero or above the limit.
TypeOK ==
    /\ TelemetryTypeOK
    /\ wire \in Seq(Kinds) /\ Len(wire) <= MaxRequests
    /\ next \in 0 .. Len(wire)
    /\ mode \in {"loop", "drain", "session", "stream", "over"}
    /\ job \in [Request -> {"none", "run", "write", "wrote", "done", "cut"}]
    /\ permits \in 0 .. MAX_INFLIGHT
    /\ reply \in [Request -> 0 .. 1] /\ client \in {"here", "gone"}

\* Every permit is free or held by a task that is still at work: none is lost
\* on any exit, so a request is refused only while MAX_INFLIGHT others run.
PermitsReturn == permits + Cardinality({i \in Request : job[i] \in Working}) = MAX_INFLIGHT

\* When an upgrade's bytes may flow, every request before it has had its
\* answer and nothing is left that could write a frame among them.
UpgradeClean ==
    mode \in {"session", "stream"} =>
        \A i \in 1 .. next - 1 :
            /\ job[i] \in {"none", "done"}
            /\ client = "here" => reply[i] = 1
=============================================================================
