-------------------------------- MODULE Dial --------------------------------
(***************************************************************************)
(* Outbound connections: open_session's dial paths                         *)
(* (node/src/daemon/dial.rs), the connection cache that lets sessions      *)
(* share one connection per device (conn_cache.rs), and the endpoint hooks *)
(* that veto a dial to a revoked device and register the connections a     *)
(* revocation closes (hooks.rs).                                           *)
(*                                                                         *)
(* A caller opens at most one session.  A connection is named by the       *)
(* caller that dialled it and the device it reaches: a caller dials at     *)
(* most once, and a race dials each candidate once.                        *)
(*                                                                         *)
(* Left out: addresses and hints, the order and stagger of a race (which   *)
(* candidate is tried next is any), what flows on a session, and the time  *)
(* before boot arms the hooks, when every dial is refused.                 *)
(***************************************************************************)
EXTENDS Naturals, FiniteSets

CONSTANTS Device, Caller, None,
          MaxRevokes,  \* bound on revocations written
          MaxUndos,    \* bound on revocations undone
          MaxCuts,     \* bound on revoke verbs dropped between write and pass
          MaxLosses    \* bound on unreachable devices and lost connections

ASSUME DialAssumption ==
    /\ None \notin Caller
    /\ {MaxRevokes, MaxUndos, MaxCuts, MaxLosses} \subseteq Nat

VARIABLES
    call,     \* what each caller is doing
    conn,     \* the connections, by caller and device
    reg,      \* PeerConns: the registered connections
    slot,     \* McpConnCache: who leads, or led, the dial to each device
    revoked,  \* the devices dial_refused refuses
    verb,     \* the revocations in progress, by device
    cut,      \* history: revoked devices whose close pass has run
    barred,   \* history: devices revoked ever since the caller's last claim
    pardoned, \* history: devices un-revoked after the caller gave them up
    spent     \* what is used of the bounds

vars == <<call, conn, reg, slot, revoked, verb, cut, barred, pardoned, spent>>

Conn == Caller \X Device

\* want: the candidates of the dial; peers: the ones claim still looks at;
\* holds: the slots a dial that leads holds; on: the device whose connection
\* is used, of: the caller who dialled it, or who leads the dial waited for.
Calls == [pc : {"idle", "claim", "check", "open", "wait", "dial", "session", "done"},
          want : SUBSET Device, peers : SUBSET Device, holds : SUBSET Device,
          of : Caller \cup {None}, on : Device \cup {None}]

Idle == [pc |-> "idle", want |-> {}, peers |-> {}, holds |-> {},
         of |-> None, on |-> None]

Finished == [Idle EXCEPT !.pc = "done"]

\* A connection that a closed pass, its peer or its last holder ended is "gone".
Phases == {"none", "handshake", "registered", "up", "gone"}

Slots == [kind : {"free", "dialing", "live"}, by : Caller \cup {None}]

Free == [kind |-> "free", by |-> None]

NoVerb == [pc |-> "idle", ids |-> {}]

Bounds == [revokes : Nat, undos : Nat, cuts : Nat, losses : Nat]

Spend(what) == spent' = [spent EXCEPT ![what] = @ + 1]

Init ==
    /\ call = [c \in Caller |-> Idle]
    /\ conn = [k \in Conn |-> "none"]
    /\ reg = {}
    /\ slot = [d \in Device |-> Free]
    /\ revoked = {} /\ cut = {}
    /\ verb = [d \in Device |-> NoVerb]
    /\ barred = [c \in Caller |-> {}] /\ pardoned = [c \in Caller |-> {}]
    /\ spent = [revokes |-> 0, undos |-> 0, cuts |-> 0, losses |-> 0]

-----------------------------------------------------------------------------
(* The cache.                                                              *)

\* open(): the cached handle upgrades and is not closed.
Live(d) == slot[d].kind = "live" /\ conn[<<slot[d].by, d>>] = "up"

\* The callers that keep a connection from being dropped: its sessions, and a
\* caller that claimed it and has not opened its stream yet.
Holders(k) == {c \in Caller : /\ call[c].pc \in {"check", "open", "session"}
                              /\ <<call[c].of, call[c].on>> = k}

\* A connection goes with its last holder.
Dropped(c) ==
    LET k == <<call[c].of, call[c].on>>
    IN  IF call[c].pc \in {"check", "open", "session"} /\ Holders(k) = {c}
        THEN [conn EXCEPT ![k] = "gone"] ELSE conn

\* The candidates a caller of the cache no longer looks at: a hand-out check
\* found them revoked.  Its dial still races them.
GivenUp(c) == IF call[c].peers = {} THEN {} ELSE call[c].want \ call[c].peers

\* DialLead::drop: the slots a lead still holds are cleared.
Cleared(c) == [d \in Device |-> IF slot[d] = [kind |-> "dialing", by |-> c]
                                THEN Free ELSE slot[d]]

\* A dial abandoned: what it has opened is dropped.
Abandoned(c) == [k \in Conn |-> IF k[1] = c /\ conn[k] # "none" THEN "gone" ELSE conn[k]]

(***************************************************************************)
(* dial_service_with_idle_timeout up to the cache: the candidates are      *)
(* resolved and the refused ones dropped.  A session with its own idle     *)
(* timeout dials for itself; so do the other protocols, of which the dials *)
(* gossip makes on its own are not checked here.                           *)
(***************************************************************************)
Open(c, devices) ==
    /\ call[c].pc = "idle"
    /\ LET ok == devices \ revoked
       IN  call' = [call EXCEPT ![c] = IF ok = {} THEN Finished
                    ELSE [Idle EXCEPT !.pc = "claim", !.want = ok, !.peers = ok]]
    /\ UNCHANGED <<conn, reg, slot, revoked, verb, cut, barred, pardoned, spent>>

DialAlone(c, d, checked) ==
    /\ call[c].pc = "idle"
    /\ call' = [call EXCEPT ![c] = IF checked /\ d \in revoked THEN Finished
                ELSE [Idle EXCEPT !.pc = "dial", !.want = {d}]]
    /\ barred' = [barred EXCEPT ![c] = revoked]
    /\ UNCHANGED <<conn, reg, slot, revoked, verb, cut, pardoned, spent>>

\* Mutant: the dials in flight are not looked at.
ClaimMutant(c) ==
    LET peers == call[c].peers
        live == {d \in peers : Live(d)}
    IN  /\ call[c].pc = "claim"
        /\ \/ \E d \in live :
                /\ call' = [call EXCEPT ![c] = [@ EXCEPT !.pc = "check", !.of = slot[d].by, !.on = d]]
                /\ UNCHANGED slot
           \/ /\ live = {}
              /\ call' = [call EXCEPT ![c] = [@ EXCEPT !.pc = "dial", !.holds = peers]]
              /\ slot' = [d \in Device |-> IF d \in peers THEN [kind |-> "dialing", by |-> c]
                                                          ELSE slot[d]]
        /\ barred' = [barred EXCEPT ![c] = revoked]
        /\ UNCHANGED <<conn, reg, revoked, verb, cut, pardoned, spent>>

\* claim, under the map's lock: a live connection to any candidate, else a
\* dial in flight to one, else this caller leads a dial and holds their slots.
Claim(c) ==
    LET peers == call[c].peers
        live == {d \in peers : Live(d)}
        busy == {d \in peers : slot[d].kind = "dialing"}
    IN  /\ call[c].pc = "claim"
        /\ \/ \E d \in live :
                /\ call' = [call EXCEPT ![c] = [@ EXCEPT !.pc = "check", !.of = slot[d].by, !.on = d]]
                /\ UNCHANGED slot
           \/ /\ live = {}
              /\ \E d \in busy :
                   call' = [call EXCEPT ![c] = [@ EXCEPT !.pc = "wait", !.of = slot[d].by]]
              /\ UNCHANGED slot
           \/ /\ live = {} /\ busy = {}
              /\ call' = [call EXCEPT ![c] = [@ EXCEPT !.pc = "dial", !.holds = peers]]
              /\ slot' = [d \in Device |-> IF d \in peers THEN [kind |-> "dialing", by |-> c]
                                                          ELSE slot[d]]
        /\ barred' = [barred EXCEPT ![c] = revoked]
        /\ UNCHANGED <<conn, reg, revoked, verb, cut, pardoned, spent>>

\* Mutant: a cached connection is handed out unasked.
CheckMutant(c) ==
    /\ call[c].pc = "check"
    /\ call' = [call EXCEPT ![c].pc = "open"]
    /\ UNCHANGED <<conn, reg, slot, revoked, verb, cut, barred, pardoned, spent>>

\* claim_loop's hand-out check: a refused device leaves the candidates.
Check(c) ==
    /\ call[c].pc = "check"
    /\ IF call[c].on \in revoked
       THEN LET rest == call[c].peers \ {call[c].on}
            IN  /\ call' = [call EXCEPT ![c] = IF rest = {} THEN Finished
                              ELSE [@ EXCEPT !.pc = "claim", !.peers = rest,
                                             !.of = None, !.on = None]]
                /\ conn' = Dropped(c)
       ELSE call' = [call EXCEPT ![c].pc = "open"] /\ UNCHANGED conn
    /\ UNCHANGED <<reg, slot, revoked, verb, cut, barred, pardoned, spent>>

\* open_on: a stream on the connection handed out.
Reuse(c) ==
    /\ call[c].pc = "open" /\ conn[<<call[c].of, call[c].on>>] = "up"
    /\ call' = [call EXCEPT ![c].pc = "session"]
    /\ UNCHANGED <<conn, reg, slot, revoked, verb, cut, barred, pardoned, spent>>

\* ... it was closed meanwhile: its entry goes, unless a newer one is there.
Stale(c) ==
    /\ call[c].pc = "open" /\ conn[<<call[c].of, call[c].on>>] # "up"
    /\ slot' = [slot EXCEPT ![call[c].on] =
                    IF @ = [kind |-> "live", by |-> call[c].of] THEN Free ELSE @]
    /\ call' = [call EXCEPT ![c] = [@ EXCEPT !.pc = "claim", !.of = None, !.on = None]]
    /\ UNCHANGED <<conn, reg, revoked, verb, cut, barred, pardoned, spent>>

\* ... it has no stream credit: this caller dials without the slots.
Saturated(c) ==
    /\ call[c].pc = "open" /\ conn[<<call[c].of, call[c].on>>] = "up"
    /\ \E s \in Caller \ {c} : /\ call[s].pc = "session"
                               /\ call[s].of = call[c].of /\ call[s].on = call[c].on
    /\ call' = [call EXCEPT ![c] = [@ EXCEPT !.pc = "dial", !.of = None, !.on = None]]
    /\ UNCHANGED <<conn, reg, slot, revoked, verb, cut, barred, pardoned, spent>>

\* The dial waited for ended: the leader's sender is gone, so look again.
Wake(c) ==
    /\ call[c].pc = "wait" /\ call[call[c].of].pc # "dial"
    /\ call' = [call EXCEPT ![c] = [@ EXCEPT !.pc = "claim", !.of = None]]
    /\ UNCHANGED <<conn, reg, slot, revoked, verb, cut, barred, pardoned, spent>>

-----------------------------------------------------------------------------
(* One dial: the hooks, and the race.                                      *)

\* before_connect, for every candidate the dial was built with.
BeforeConnect(c, d) ==
    /\ call[c].pc = "dial" /\ d \in call[c].want /\ conn[<<c, d>>] = "none"
    /\ conn' = [conn EXCEPT ![<<c, d>>] = IF d \in revoked THEN "gone" ELSE "handshake"]
    /\ UNCHANGED <<call, reg, slot, revoked, verb, cut, barred, pardoned, spent>>

\* after_handshake registers the connection, then asks again.
Register(c, d) ==
    /\ conn[<<c, d>>] = "handshake"
    /\ conn' = [conn EXCEPT ![<<c, d>>] = "registered"]
    /\ reg' = reg \cup {<<c, d>>}
    /\ UNCHANGED <<call, slot, revoked, verb, cut, barred, pardoned, spent>>

\* Mutant: before_connect's answer is trusted.
RecheckMutant(c, d) ==
    /\ conn[<<c, d>>] = "registered"
    /\ conn' = [conn EXCEPT ![<<c, d>>] = "up"]
    /\ UNCHANGED <<call, reg, slot, revoked, verb, cut, barred, pardoned, spent>>

Recheck(c, d) ==
    /\ conn[<<c, d>>] = "registered"
    /\ IF d \in revoked
       THEN conn' = [conn EXCEPT ![<<c, d>>] = "gone"] /\ reg' = reg \ {<<c, d>>}
       ELSE conn' = [conn EXCEPT ![<<c, d>>] = "up"] /\ UNCHANGED reg
    /\ UNCHANGED <<call, slot, revoked, verb, cut, barred, pardoned, spent>>

\* The first connection up wins the race, the others are dropped, and a lead
\* settles: the winner's slot is live and the others are cleared.
Win(c, d) ==
    /\ call[c].pc = "dial" /\ conn[<<c, d>>] = "up"
    /\ call' = [call EXCEPT ![c] =
                    [@ EXCEPT !.pc = "session", !.holds = {}, !.of = c, !.on = d]]
    /\ conn' = [Abandoned(c) EXCEPT ![<<c, d>>] = "up"]
    /\ slot' = [e \in Device |-> IF e = d /\ d \in call[c].holds
                                 THEN [kind |-> "live", by |-> c] ELSE Cleared(c)[e]]
    /\ UNCHANGED <<reg, revoked, verb, cut, barred, pardoned, spent>>

\* Mutant: a lead that fails leaves its slots.
DialFailsMutant(c) ==
    /\ call[c].pc = "dial" /\ \A d \in call[c].want : conn[<<c, d>>] = "gone"
    /\ call' = [call EXCEPT ![c] = Finished]
    /\ UNCHANGED <<conn, reg, slot, revoked, verb, cut, barred, pardoned, spent>>

\* Every candidate failed.
DialFails(c) ==
    /\ call[c].pc = "dial" /\ \A d \in call[c].want : conn[<<c, d>>] = "gone"
    /\ call' = [call EXCEPT ![c] = Finished]
    /\ slot' = Cleared(c)
    /\ UNCHANGED <<conn, reg, revoked, verb, cut, barred, pardoned, spent>>

\* session_on's deadline, or the caller is dropped: its lead goes with it.
Timeout(c) ==
    /\ call[c].pc \in {"check", "open", "wait", "dial"} /\ spent.losses < MaxLosses
    /\ call' = [call EXCEPT ![c] = Finished]
    /\ conn' = IF call[c].pc = "dial" THEN Abandoned(c) ELSE Dropped(c)
    /\ slot' = Cleared(c)
    /\ Spend("losses")
    /\ UNCHANGED <<reg, revoked, verb, cut, barred, pardoned>>

-----------------------------------------------------------------------------
(* A session's end, and what happens to connections from outside.          *)

EndSession(c) ==
    /\ call[c].pc = "session"
    /\ call' = [call EXCEPT ![c] = Finished]
    /\ conn' = Dropped(c)
    /\ UNCHANGED <<reg, slot, revoked, verb, cut, barred, pardoned, spent>>

\* The device does not answer, or its connection is lost.
Lost(c, d) ==
    /\ conn[<<c, d>>] \in {"handshake", "registered", "up"} /\ spent.losses < MaxLosses
    /\ conn' = [conn EXCEPT ![<<c, d>>] = "gone"]
    /\ Spend("losses")
    /\ UNCHANGED <<call, reg, slot, revoked, verb, cut, barred, pardoned>>

\* The watcher after_handshake spawned sees the connection closed.
Unregister(c, d) ==
    /\ <<c, d>> \in reg /\ conn[<<c, d>>] = "gone"
    /\ reg' = reg \ {<<c, d>>}
    /\ UNCHANGED <<call, conn, slot, revoked, verb, cut, barred, pardoned, spent>>

-----------------------------------------------------------------------------
(* Revocation: a revoke verb or a roster install writes, then closes.  Verbs *)
(* for different devices run at the same time.                             *)

Revoke(d) ==
    /\ verb[d].pc = "idle" /\ d \notin revoked /\ spent.revokes < MaxRevokes
    /\ revoked' = revoked \cup {d}
    /\ verb' = [verb EXCEPT ![d].pc = "pass"]
    /\ Spend("revokes")
    /\ UNCHANGED <<call, conn, reg, slot, cut, barred, pardoned>>

Unrevoke(d) ==
    /\ d \in revoked /\ spent.undos < MaxUndos
    /\ revoked' = revoked \ {d} /\ cut' = cut \ {d}
    /\ barred' = [c \in Caller |-> barred[c] \ {d}]
    /\ pardoned' = [c \in Caller |-> pardoned[c] \cup ({d} \cap GivenUp(c))]
    /\ Spend("undos")
    /\ UNCHANGED <<call, conn, reg, slot, verb>>

\* close_refused: the registered devices, then the refused ones among them,
\* then every connection registered to one of these.
RemoteIds(d) ==
    /\ verb[d].pc = "pass"
    /\ verb' = [verb EXCEPT ![d] = [pc |-> "read", ids |-> {k[2] : k \in reg}]]
    /\ UNCHANGED <<call, conn, reg, slot, revoked, cut, barred, pardoned, spent>>

RefusedIds(d) ==
    /\ verb[d].pc = "read"
    /\ verb' = [verb EXCEPT ![d] = [pc |-> "close", ids |-> @.ids \cap revoked]]
    /\ UNCHANGED <<call, conn, reg, slot, revoked, cut, barred, pardoned, spent>>

CloseIds(d) ==
    /\ verb[d].pc = "close"
    /\ conn' = [k \in Conn |-> IF k \in reg /\ k[2] \in verb[d].ids THEN "gone" ELSE conn[k]]
    /\ cut' = cut \cup ({d} \cap revoked)
    /\ verb' = [verb EXCEPT ![d] = NoVerb]
    /\ UNCHANGED <<call, reg, slot, revoked, barred, pardoned, spent>>

\* The verb's client went away, or the pass's read could not run: what is
\* written stays, and nothing is closed.
PassDropped(d) ==
    /\ verb[d].pc # "idle" /\ spent.cuts < MaxCuts
    /\ verb' = [verb EXCEPT ![d] = NoVerb]
    /\ Spend("cuts")
    /\ UNCHANGED <<call, conn, reg, slot, revoked, cut, barred, pardoned>>

-----------------------------------------------------------------------------
Progress(c) ==
    \/ Claim(c) \/ Check(c) \/ Reuse(c) \/ Stale(c) \/ Wake(c) \/ DialFails(c)
    \/ \E d \in Device : \/ BeforeConnect(c, d) \/ Register(c, d)
                         \/ Recheck(c, d) \/ Win(c, d)

Next ==
    \/ \E c \in Caller : \E devices \in SUBSET Device \ {{}} : Open(c, devices)
    \/ \E c \in Caller, d \in Device, checked \in BOOLEAN : DialAlone(c, d, checked)
    \/ \E c \in Caller :
          \/ Claim(c) \/ Check(c) \/ Reuse(c) \/ Stale(c) \/ Saturated(c) \/ Wake(c)
          \/ DialFails(c) \/ Timeout(c) \/ EndSession(c)
    \/ \E c \in Caller, d \in Device :
          \/ BeforeConnect(c, d) \/ Register(c, d) \/ Recheck(c, d) \/ Win(c, d)
          \/ Lost(c, d) \/ Unregister(c, d)
    \/ \E d \in Device :
          \/ Revoke(d) \/ Unrevoke(d)
          \/ RemoteIds(d) \/ RefusedIds(d) \/ CloseIds(d) \/ PassDropped(d)

Spec == Init /\ [][Next]_vars

\* The runtime polls every task that can go on, and every handshake ends.
\* No deadline is assumed to fire.
LiveSpec == Spec /\ \A c \in Caller : WF_vars(Progress(c))

-----------------------------------------------------------------------------
(* Properties.                                                             *)

\* Every variable keeps its type; only a dial holds slots, and a caller that
\* waits for or uses a connection knows whose.
TypeOK ==
    /\ call \in [Caller -> Calls]
    /\ \A c \in Caller :
          /\ call[c].holds # {} => call[c].pc = "dial"
          /\ call[c].pc = "wait" => call[c].of \in Caller
          /\ call[c].pc \in {"check", "open", "session"} =>
                <<call[c].of, call[c].on>> \in Conn
    /\ conn \in [Conn -> Phases]
    /\ reg \subseteq Conn /\ slot \in [Device -> Slots]
    /\ revoked \subseteq Device /\ cut \subseteq revoked
    /\ verb \in [Device -> [pc : {"idle", "pass", "read", "close"}, ids : SUBSET Device]]
    /\ barred \in [Caller -> SUBSET Device] /\ pardoned \in [Caller -> SUBSET Device]
    /\ spent \in Bounds

\* Once a revocation's close pass has run, no outbound connection to the
\* device is up: one registered before the write was found by the pass, one
\* registered after it is refused by its own re-check (hooks.rs).
RevokedCut == \A k \in Conn : k[2] \in cut => conn[k] # "up"

\* No session is handed out to a device that has been revoked since before
\* the caller last looked at the cache, whether or not a close pass ran.
NeverHandedOut ==
    [][\A c \in Caller : call'[c].pc = "session" /\ call[c].pc # "session"
           => call'[c].on \notin barred[c]]_vars

\* The devices a lead's dial has connections to, or is opening them to.
Leads(c) == call[c].pc = "dial" /\ call[c].holds # {}
Dialling(c) == {d \in Device : conn[<<c, d>>] \in {"handshake", "registered", "up"}}

\* Two leads never dial one device side by side, and no lead dials a device
\* the cache has a live connection to.  Excused is a device that one of them
\* gave up as revoked and that was un-revoked before the dial got to it: the
\* dial still races it, without its slot.
OneDialPerDevice ==
    \A c \in Caller : Leads(c) =>
        \A d \in Dialling(c) \ pardoned[c] :
            /\ ~Live(d)
            /\ \A o \in Caller \ {c} : Leads(o) => d \notin Dialling(o) \ pardoned[o]

\* The same with no excuse, as conn_cache.rs has it.  The code does not keep
\* it.
NeverSideBySide ==
    \A c \in Caller : Leads(c) =>
        \A d \in Dialling(c) :
            ~Live(d) /\ \A o \in Caller \ {c} : Leads(o) => d \notin Dialling(o)

\* Every caller is answered, and waiting for another's dial never depends on
\* the deadline: a slot never outlives the dial it stands for.
Answered ==
    \A c \in Caller : call[c].pc = "claim" ~> call[c].pc \in {"session", "done"}
=============================================================================
