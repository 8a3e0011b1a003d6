------------------------------ MODULE Admission ------------------------------
(***************************************************************************)
(* Who is served, and who is cut: the inbound half of a mcpmesh daemon.    *)
(*                                                                         *)
(* A connection is accepted (net/src/endpoint.rs, run_mesh_connection),    *)
(* registered in the connection registry (net/src/registry.rs) and carries *)
(* sessions, each of which resolves its own principal through the trust    *)
(* gate (node/src/roster/gate.rs) and is admitted against the live service *)
(* registry.  Meanwhile the operator's verbs install rosters, strip allow  *)
(* lists, unpair and revoke (node/src/daemon), each of which first changes *)
(* what the gate or the registry answers and only then severs.             *)
(*                                                                         *)
(* What one lock covers is one step.  The reads and writes of a session    *)
(* and of a verb that another thread can fall between are separate steps:  *)
(* RosterGate::resolve reads the view, and then whether it has gone stale. *)
(* Two things are one step that are several reads in the code: resolving a *)
(* principal to its devices, and the accept-time gate, whose answer admits *)
(* no session.                                                             *)
(***************************************************************************)
EXTENDS Integers, FiniteSets

CONSTANTS
    Device,      \* endpoint ids; a device is also its own "eid:" principal
    User,        \* user ids, pairing ("b64u:") and roster handles alike
    KeyUser,     \* the user ids of "b64u:" form, the only ones revocable as such
    Group,       \* roster group names
    Nick,        \* pairing nicknames, display only
    Service,     \* service names
    Ephemeral,   \* the services registered in memory only
    Conn,        \* connections, each used once
    Remote,      \* the TLS-authenticated device behind each connection
    Stream,      \* session slots, reused
    Op,          \* control connections that may run a revocation verb
    Rows,        \* the pair rows that may be written
    Views,       \* the roster views that may be installed
    Lists,       \* the allow lists services may be registered with
    Names,       \* what the operator's verbs may name
    Verbs,       \* the control verbs in use, a subset of AllVerbs
    NoUser, NoRow, NoConn, NoNick, NoService

\* "repair" is a pairing that rewrites the row of a device already paired.
AllVerbs == {"roster_install", "allow_revoke", "allow_grant", "unregister",
             "peer_remove", "pair", "repair", "peer_revoke", "peer_unrevoke"}

Principal == Device \cup User \cup Group
AnyUser == User \cup {NoUser}

\* RosterView as build_view makes it: a revoked device is never also active,
\* and an inactive device carries no user and no group.
ViewType == [revoked : SUBSET Device,
             user    : [Device -> AnyUser],
             groups  : [Device -> SUBSET Group]]

RowType == [nick : Nick, user : AnyUser, paired : BOOLEAN]

ASSUME ConstantsAssumption ==
    /\ KeyUser \subseteq User
    /\ Ephemeral \subseteq Service
    /\ NoUser \notin User
    /\ NoRow \notin RowType
    /\ NoNick \notin Nick
    /\ NoConn \notin Conn
    /\ NoService \notin Service
    /\ Remote \in [Conn -> Device]
    /\ Verbs \subseteq AllVerbs
    /\ IsFiniteSet(Stream)

ASSUME InputsAssumption ==
    /\ Rows \subseteq RowType
    /\ Views \subseteq ViewType
    /\ Lists \subseteq SUBSET Principal
    /\ Names \subseteq Principal \cup Nick
    /\ \A v \in Views : \A d \in v.revoked : v.user[d] = NoUser

VARIABLES
    view,        \* the installed roster view
    stale,       \* is that view past its staleness ceiling (DegradedStopped)?
    peers,       \* PeerStore, the pair rows
    revokedDev,  \* PeerStore, the revoked endpoints
    revokedUser, \* PeerStore, the revoked identities
    allow,       \* LiveServices: the allow list of each served name
    conn,        \* state of each connection
    cuser,       \* the registry entry's roster_user, read before it is registered
    admitted,    \* the registry entry's count of live sessions per principal
    sess,        \* each session's progress through run_session
    install,     \* the roster install holding reload_lock between swap and sever
    strip,       \* the allow-stripping verb holding reload_lock
    removing,    \* nicknames whose unpair has severed and not yet deleted the row
    rev,         \* the revocation verbs in flight
    grandfathered \* sessions of services unregistered or re-registered under them

storeVars == <<peers, revokedDev, revokedUser>>
gateVars  == <<view, stale>>
connVars  == <<conn, cuser, admitted>>
opVars    == <<install, strip, removing, rev>>
vars == <<gateVars, storeVars, allow, connVars, sess, opVars, grandfathered>>

-----------------------------------------------------------------------------
(* The trust gate. *)

NoRoster == [revoked |-> {}, user |-> [d \in Device |-> NoUser],
             groups |-> [d \in Device |-> {}]]

\* The first half of RosterGate::resolve: whose the device is by the view.
ViewUser(d) == IF d \in view.revoked THEN NoUser ELSE view.user[d]

\* Its second half, and so RosterGate::roster_user: nobody resolves through a
\* roster that has gone stale, whatever the view read before said.
Vouched(u) == IF stale THEN NoUser ELSE u

\* Both halves at once.
RosterUser(d) == Vouched(ViewUser(d))

\* The principals a roster identity is authorized under: device, user, groups.
RosterPrincipals(d) == {d, view.user[d]} \cup view.groups[d]

\* decide_admission: an endpoint revocation first, then the row's identity.
Refused(d) ==
    \/ d \in revokedDev
    \/ peers[d] # NoRow /\ peers[d].user \in revokedUser

\* AllowlistGate::identity_of: a pair row names a device and perhaps a user.
PairPrincipals(d) ==
    IF peers[d] = NoRow THEN {} ELSE {d} \cup ({peers[d].user} \ {NoUser})

\* ComposedGate::resolve, as far as accepting a connection asks: is there an
\* identity at all?
Resolves(d) ==
    /\ d \notin view.revoked
    /\ ~Refused(d)
    /\ IF RosterUser(d) # NoUser THEN RosterUser(d) \notin revokedUser
                                 ELSE peers[d] # NoRow

\* As if register_checked's recheck asked for revocations only.
RevokedOnlyMutant(d, ru) == Refused(d) \/ d \in view.revoked \/ ru \in revokedUser

\* ComposedGate::should_sever_now, with the discriminator ru.
ShouldSeverNow(d, ru) ==
    \/ Refused(d)
    \/ d \in view.revoked
    \/ ru \in revokedUser
    \/ ru # NoUser /\ view.user[d] = NoUser

\* net's should_sever, the predicate a roster install severs by.
ShouldSever(d, ru, v) ==
    \/ d \in v.revoked
    \/ ru # NoUser /\ v.user[d] = NoUser

\* endpoints_for_principal: every device principal p names now.
EndpointsFor(p) ==
    {d \in Device :
        \/ peers[d] # NoRow /\ p \in {d, peers[d].user}
        \/ view.user[d] # NoUser /\ p \in RosterPrincipals(d)}

\* revocation_targets: the same, and every row of that nickname.
RevocationTargets(p) ==
    EndpointsFor(p) \cup {d \in Device : peers[d] # NoRow /\ peers[d].nick = p}

-----------------------------------------------------------------------------
(* The connection registry. *)

NoCounts == [p \in Principal |-> 0]

Registered(c) == conn[c] \in {"open", "closed"}

\* sever_matching and sever_matching_admitted: close, leave the entry to the
\* connection's own task.
Sever(cs) ==
    conn' = [c \in Conn |-> IF conn[c] = "open" /\ c \in cs THEN "closed" ELSE conn[c]]

\* Does the entry carry a session admitted as one of these principals, or
\* belong to one of these devices?
NamedBy(c, devs, prins) ==
    \/ Remote[c] \in devs
    \/ \E p \in prins \cap Principal : admitted[c][p] > 0

\* As if the entry kept the set of admitted principals instead of a count.
RecordedMutant(c, ids, by) ==
    [admitted EXCEPT ![c] =
        [p \in Principal |-> IF p \notin ids THEN @[p] ELSE IF by > 0 THEN 1 ELSE 0]]

\* The entry's count, moved for each of a session's principals.
Recorded(c, ids, by) ==
    [admitted EXCEPT ![c] = [p \in Principal |-> IF p \in ids THEN @[p] + by ELSE @[p]]]

-----------------------------------------------------------------------------
(* Sessions. *)

IdleSession == [pc |-> "idle", conn |-> NoConn, snap |-> [v \in Service |-> {}],
                before |-> NoUser, pair |-> {}, seen |-> NoUser, ids |-> {}, roster |-> FALSE,
                svc |-> NoService, flips |-> 0]

Serving(s) == sess[s].pc = "serving"

\* A session that is really being served: its connection is not closed.
Live(s) == Serving(s) /\ conn[sess[s].conn] = "open"

Advance(s, next) == sess' = [sess EXCEPT ![s] = next]

\* The -32054 answer, and the end of a session alike, leave no state behind.
Refuse(s) == Advance(s, IdleSession)

\* The steps between the first and the last read of the roster discriminator.
Resolving == {"asked", "before", "cleared", "paired", "named", "vouched", "resolved", "after"}

\* History: how many changes of the view and of its staleness fell between a
\* session's first read of them and its last (saturating at 2).
Flip(by) == sess' = [s \in Stream |->
                        IF sess[s].pc \notin Resolving THEN sess[s]
                        ELSE [sess[s] EXCEPT !.flips = IF @ + by < 2 THEN @ + by ELSE 2]]

-----------------------------------------------------------------------------
(* run_mesh_connection *)

\* The accept-time gate: an unresolved peer is closed with 401 and leaves no
\* trace, so only the accepted case is a step.
Accept(c) ==
    /\ conn[c] = "idle"
    /\ Resolves(Remote[c])
    /\ conn' = [conn EXCEPT ![c] = "accepted"]
    /\ UNCHANGED <<gateVars, storeVars, allow, cuser, admitted, sess, opVars, grandfathered>>

\* The discriminator is read once, after the resolve: the view ...
ReadRosterUser(c) ==
    /\ conn[c] = "accepted"
    /\ conn' = [conn EXCEPT ![c] = "viewed"]
    /\ cuser' = [cuser EXCEPT ![c] = ViewUser(Remote[c])]
    /\ UNCHANGED <<gateVars, storeVars, allow, admitted, sess, opVars, grandfathered>>

\* ... and its staleness.
TagRosterUser(c) ==
    /\ conn[c] = "viewed"
    /\ conn' = [conn EXCEPT ![c] = "tagged"]
    /\ cuser' = [cuser EXCEPT ![c] = Vouched(cuser[c])]
    /\ UNCHANGED <<gateVars, storeVars, allow, admitted, sess, opVars, grandfathered>>

\* register_checked: the recheck and the insert are one step under the
\* registry lock; a connection to be severed is closed instead.
RegisterChecked(c) ==
    /\ conn[c] = "tagged"
    /\ conn' = [conn EXCEPT ![c] =
                   IF ShouldSeverNow(Remote[c], cuser[c]) THEN "gone" ELSE "open"]
    /\ UNCHANGED <<gateVars, storeVars, allow, cuser, admitted, sess, opVars, grandfathered>>

\* The peer or the network ends the connection.
PeerCloses(c) ==
    /\ conn[c] = "open"
    /\ conn' = [conn EXCEPT ![c] = "closed"]
    /\ UNCHANGED <<gateVars, storeVars, allow, cuser, admitted, sess, opVars, grandfathered>>

\* accept_bi fails on a closed connection, run_mesh_connection returns and
\* the Registration's drop removes the entry with all its counts.
Deregister(c) ==
    /\ conn[c] = "closed"
    /\ conn' = [conn EXCEPT ![c] = "gone"]
    /\ admitted' = [admitted EXCEPT ![c] = NoCounts]
    /\ UNCHANGED <<gateVars, storeVars, allow, cuser, sess, opVars, grandfathered>>

-----------------------------------------------------------------------------
(* run_session and resolve_session_principal *)

\* What a session starts from: its connection and a snapshot of the services.
NewSession(c) == [IdleSession EXCEPT !.pc = "init", !.conn = c, !.snap = allow]

\* The initialize frame has arrived: the live registry is snapshotted.
Initialize(s, c) ==
    /\ sess[s].pc = "idle"
    /\ conn[c] = "open"
    /\ Advance(s, NewSession(c))
    /\ grandfathered' = grandfathered \ {s}
    /\ UNCHANGED <<gateVars, storeVars, allow, connVars, opVars>>

\* roster_before, the first of the two reads of the discriminator: the view ...
AskBefore(s) ==
    /\ sess[s].pc = "init"
    /\ Advance(s, [sess[s] EXCEPT !.pc = "asked", !.before = ViewUser(Remote[sess[s].conn])])
    /\ UNCHANGED <<gateVars, storeVars, allow, connVars, opVars, grandfathered>>

\* ... and its staleness.
ReadBefore(s) ==
    /\ sess[s].pc = "asked"
    /\ Advance(s, [sess[s] EXCEPT !.pc = "before", !.before = Vouched(sess[s].before)])
    /\ UNCHANGED <<gateVars, storeVars, allow, connVars, opVars, grandfathered>>

\* ComposedGate::resolve: the roster's revocations first, ...
ReadRevoked(s) ==
    /\ sess[s].pc = "before"
    /\ IF Remote[sess[s].conn] \in view.revoked
       THEN Refuse(s)
       ELSE Advance(s, [sess[s] EXCEPT !.pc = "cleared"])
    /\ UNCHANGED <<gateVars, storeVars, allow, connVars, opVars, grandfathered>>

\* ... then one read transaction of the pair store, ...
ReadPair(s) ==
    LET d == Remote[sess[s].conn] IN
    /\ sess[s].pc = "cleared"
    /\ IF Refused(d)
       THEN Refuse(s)
       ELSE Advance(s, [sess[s] EXCEPT !.pc = "paired", !.pair = PairPrincipals(d)])
    /\ UNCHANGED <<gateVars, storeVars, allow, connVars, opVars, grandfathered>>

\* ... then RosterGate::resolve: the view's identity for the device, ...
ReadView(s) ==
    LET d == Remote[sess[s].conn] IN
    /\ sess[s].pc = "paired"
    /\ Advance(s, [sess[s] EXCEPT !.pc = "named", !.seen = ViewUser(d),
                      !.ids = IF ViewUser(d) = NoUser THEN {} ELSE RosterPrincipals(d)])
    /\ UNCHANGED <<gateVars, storeVars, allow, connVars, opVars, grandfathered>>

\* ... unless the roster has gone stale by now.  A device no roster vouches
\* for is its pair row.
ReadRoster(s) ==
    /\ sess[s].pc = "named"
    /\ CASE Vouched(sess[s].seen) # NoUser ->
              Advance(s, [sess[s] EXCEPT !.pc = "vouched"])
         [] Vouched(sess[s].seen) = NoUser /\ sess[s].pair # {} ->
              Advance(s, [sess[s] EXCEPT !.pc = "resolved", !.ids = sess[s].pair])
         [] OTHER -> Refuse(s)
    /\ UNCHANGED <<gateVars, storeVars, allow, connVars, opVars, grandfathered>>

\* roster_identity_revoked: the roster's identity wins, unless its user is
\* revoked here.
CheckRosterIdentity(s) ==
    /\ sess[s].pc = "vouched"
    /\ IF sess[s].seen \in revokedUser
       THEN Refuse(s)
       ELSE Advance(s, [sess[s] EXCEPT !.pc = "resolved", !.roster = TRUE])
    /\ UNCHANGED <<gateVars, storeVars, allow, connVars, opVars, grandfathered>>

\* roster_after, the second read of the discriminator: the view ...
AskAfter(s) ==
    /\ sess[s].pc = "resolved"
    /\ Advance(s, [sess[s] EXCEPT !.pc = "after", !.seen = ViewUser(Remote[sess[s].conn])])
    /\ UNCHANGED <<gateVars, storeVars, allow, connVars, opVars, grandfathered>>

\* As if the discriminator were read after the resolve only.
LateReadMutant(s) == Vouched(sess[s].seen)

\* roster_before.or(roster_after): the discriminator of the two reads.
Discriminator(s) ==
    IF sess[s].before # NoUser THEN sess[s].before ELSE Vouched(sess[s].seen)

\* ... and its staleness, then admit_roster_user: a session the roster vouches
\* for is served only on an entry a roster install will find.
AdmitRosterUser(s) ==
    LET c  == sess[s].conn
        ru == Discriminator(s)
        proceed == Advance(s, [sess[s] EXCEPT !.pc = "promoted"]) IN
    /\ sess[s].pc = "after"
    /\ \/ /\ ru = NoUser \/ cuser[c] # NoUser
          /\ proceed
          /\ UNCHANGED cuser
       \/ /\ ru # NoUser /\ cuser[c] = NoUser
          /\ Registered(c) /\ ~ShouldSeverNow(Remote[c], ru)
          /\ proceed
          /\ cuser' = [cuser EXCEPT ![c] = ru]
       \/ /\ ru # NoUser /\ cuser[c] = NoUser
          /\ ~Registered(c) \/ ShouldSeverNow(Remote[c], ru)
          /\ Refuse(s)
          /\ UNCHANGED cuser
    /\ UNCHANGED <<gateVars, storeVars, allow, conn, admitted, opVars, grandfathered>>

\* caller_admits: one of the caller's principals is on the list.
CallerAdmits(ids, list) == ids \cap list # {}

\* As if the session were admitted by the registry it started with.
SnapshotMutant(s, v) == CallerAdmits(sess[s].ids, sess[s].snap[v])

\* still_admits: the live registry admits the session's identity to v now.
StillAdmits(s, v) == CallerAdmits(sess[s].ids, allow[v])

\* select_service picked v from the snapshot; admit_session, under the
\* registry lock, asks the live registry again and records the principals.
AdmitSession(s, v) ==
    /\ sess[s].pc = "promoted"
    /\ CallerAdmits(sess[s].ids, sess[s].snap[v])
    /\ Registered(sess[s].conn)
    /\ StillAdmits(s, v)
    /\ admitted' = Recorded(sess[s].conn, sess[s].ids, 1)
    /\ Advance(s, [sess[s] EXCEPT !.pc = "serving", !.svc = v])
    /\ UNCHANGED <<gateVars, storeVars, allow, conn, cuser, opVars, grandfathered>>

\* No admissible service was named, or the recheck refused it.
RefuseSession(s) ==
    /\ sess[s].pc = "promoted"
    /\ Refuse(s)
    /\ UNCHANGED <<gateVars, storeVars, allow, connVars, opVars, grandfathered>>

\* The session ends and its AdmittedSession guard drops.
EndSession(s) ==
    /\ Serving(s)
    /\ Refuse(s)
    /\ admitted' = IF Registered(sess[s].conn)
                   THEN Recorded(sess[s].conn, sess[s].ids, -1) ELSE admitted
    /\ UNCHANGED <<gateVars, storeVars, allow, conn, cuser, opVars, grandfathered>>

-----------------------------------------------------------------------------
(* Verbs that hold reload_lock. *)

LockFree == ~install /\ strip.pc = "idle"

\* install_roster_view_and_sever, first half: the gate answers from the new
\* view from here on.  A view just validated is current.
SwapView(v) ==
    /\ "roster_install" \in Verbs
    /\ LockFree
    /\ view' = v
    /\ stale' = FALSE
    /\ install' = TRUE
    /\ Flip(IF stale THEN 2 ELSE 1)
    /\ UNCHANGED <<storeVars, allow, connVars, strip, removing, rev, grandfathered>>

\* Its second half: sever by the sets computed from that view.
SeverRoster ==
    /\ install
    /\ install' = FALSE
    /\ Sever({c \in Conn : ShouldSever(Remote[c], cuser[c], view)})
    /\ UNCHANGED <<gateVars, storeVars, allow, cuser, admitted, sess, strip, removing, rev, grandfathered>>

IdleStrip == [pc |-> "idle", prins |-> {}, nick |-> NoNick, targets |-> {}]

\* revoke_service_allow: strip one principal from one service and swap the
\* live registry; a principal that was not on the list changes nothing.
RevokeServiceAllow(v, p) ==
    /\ "allow_revoke" \in Verbs
    /\ LockFree
    /\ p \in allow[v]
    /\ allow' = [allow EXCEPT ![v] = @ \ {p}]
    /\ strip' = [IdleStrip EXCEPT !.pc = "swapped", !.prins = {p}]
    /\ UNCHANGED <<gateVars, storeVars, connVars, sess, install, removing, rev, grandfathered>>

\* The principals an unpair withdraws: each device, and its user unless a
\* device of another nickname that was paired here still carries it.
UnpairPrincipals(n) ==
    LET mine == {d \in Device : peers[d] # NoRow /\ peers[d].nick = n}
        kept == {peers[d].user : d \in {e \in Device : /\ peers[e] # NoRow
                                                       /\ peers[e].nick # n
                                                       /\ peers[e].paired}}
    IN  mine \cup ({peers[d].user : d \in mine} \ (kept \cup {NoUser}))

\* remove_peer, entering revoke_service_access: take the lock, name the
\* principals; with none to name, go on to the delete.
UnpairNames(n) ==
    /\ "peer_remove" \in Verbs
    /\ LockFree
    /\ IF UnpairPrincipals(n) = {}
       THEN removing' = removing \cup {n} /\ UNCHANGED strip
       ELSE /\ strip' = [IdleStrip EXCEPT !.pc = "named", !.prins = UnpairPrincipals(n), !.nick = n]
            /\ UNCHANGED removing
    /\ UNCHANGED <<gateVars, storeVars, allow, connVars, sess, install, rev, grandfathered>>

\* Strip them from every configured service and swap.
UnpairStrips ==
    /\ strip.pc = "named"
    /\ allow' = [v \in Service |->
                    IF v \in Ephemeral THEN allow[v] ELSE allow[v] \ strip.prins]
    /\ strip' = [strip EXCEPT !.pc = "swapped"]
    /\ UNCHANGED <<gateVars, storeVars, connVars, sess, install, removing, rev, grandfathered>>

\* sever_principals resolves the devices behind the principals ...
StripTargets ==
    /\ strip.pc = "swapped"
    /\ strip' = [strip EXCEPT !.pc = "resolved",
                              !.targets = UNION {EndpointsFor(p) : p \in strip.prins}]
    /\ UNCHANGED <<gateVars, storeVars, allow, connVars, sess, install, removing, rev, grandfathered>>

\* ... and closes by device and by what sessions were admitted as.  The lock
\* is released; an unpair still has its rows to delete.
StripSevers ==
    /\ strip.pc = "resolved"
    /\ Sever({c \in Conn : NamedBy(c, strip.targets, strip.prins)})
    /\ removing' = removing \cup ({strip.nick} \ {NoNick})
    /\ strip' = IdleStrip
    /\ UNCHANGED <<gateVars, storeVars, allow, cuser, admitted, sess, install, rev, grandfathered>>

\* remove_peer's last step, outside the lock: PeerStore::remove.
UnpairDeletes(n) ==
    /\ n \in removing
    /\ peers' = [d \in Device |-> IF peers[d] # NoRow /\ peers[d].nick = n THEN NoRow ELSE peers[d]]
    /\ removing' = removing \ {n}
    /\ UNCHANGED <<gateVars, revokedDev, revokedUser, allow, connVars, sess, install, strip, rev, grandfathered>>

\* grant_service_allow refuses a principal the gate refuses.
PrincipalRevoked(p) ==
    \/ p \in revokedUser
    \/ p \in Device /\ (Refused(p) \/ p \in view.revoked)

\* grant_service_allow (and the grant of a pairing): append and swap.
GrantServiceAllow(v, p) ==
    /\ "allow_grant" \in Verbs
    /\ LockFree
    /\ ~PrincipalRevoked(p)
    /\ allow' = [allow EXCEPT ![v] = @ \cup {p}]
    /\ UNCHANGED <<gateVars, storeVars, connVars, sess, opVars, grandfathered>>

\* unregister_service, unregister_ephemeral and a repeated ephemeral
\* register_service replace a list without severing: sessions in flight finish.
ReplaceService(v, list) ==
    /\ "unregister" \in Verbs
    /\ LockFree
    /\ list = {} \/ v \in Ephemeral
    /\ allow' = [allow EXCEPT ![v] = list]
    /\ grandfathered' = grandfathered \cup {s \in Stream : Serving(s) /\ sess[s].svc = v}
    /\ UNCHANGED <<gateVars, storeVars, connVars, sess, opVars>>

-----------------------------------------------------------------------------
(* Verbs that do not: pairing writes and revocations. *)

\* PeerStore::add, from a pairing, an introduction or peer_add.
WriteRow(d, row) ==
    /\ (IF peers[d] = NoRow THEN "pair" ELSE "repair") \in Verbs
    /\ peers' = [peers EXCEPT ![d] = row]
    /\ UNCHANGED <<gateVars, revokedDev, revokedUser, allow, connVars, sess, opVars, grandfathered>>

IdleRev == [pc |-> "idle", devs |-> {}, user |-> NoUser, targets |-> {}]

\* A "b64u:" argument names the identity as well as its devices.
NamedUser(p) == IF p \in KeyUser THEN p ELSE NoUser

\* peer_revoke resolves its argument; a bare device needs no row, any other
\* argument that names nothing is an error.
PeerRevoke(o, p) ==
    LET devs == RevocationTargets(p) \cup ({p} \cap Device) IN
    /\ "peer_revoke" \in Verbs
    /\ rev[o].pc = "idle"
    /\ devs # {}
    /\ rev' = [rev EXCEPT ![o] = [IdleRev EXCEPT !.pc = "user", !.devs = devs, !.user = NamedUser(p)]]
    /\ UNCHANGED <<gateVars, storeVars, allow, connVars, sess, install, strip, removing, grandfathered>>

RevokeWritesUser(o) ==
    /\ rev[o].pc = "user"
    /\ revokedUser' = revokedUser \cup ({rev[o].user} \ {NoUser})
    /\ rev' = [rev EXCEPT ![o].pc = "devs"]
    /\ UNCHANGED <<gateVars, peers, revokedDev, allow, connVars, sess, install, strip, removing, grandfathered>>

RevokeWritesDevices(o) ==
    /\ rev[o].pc = "devs"
    /\ revokedDev' = revokedDev \cup rev[o].devs
    /\ rev' = [rev EXCEPT ![o].pc = "written"]
    /\ UNCHANGED <<gateVars, peers, revokedUser, allow, connVars, sess, install, strip, removing, grandfathered>>

\* As if a revocation severed by the identity it names only.
IdentityOnlyMutant(o) == {rev[o].user} \ {NoUser}

\* The principals a revocation severs by.
RevPrincipals(o) == rev[o].devs \cup ({rev[o].user} \ {NoUser})

\* sever_principals again: resolve after the writes, then close.
RevokeTargets(o) ==
    /\ rev[o].pc = "written"
    /\ rev' = [rev EXCEPT ![o].pc = "sever",
                          ![o].targets = UNION {EndpointsFor(p) : p \in RevPrincipals(o)}]
    /\ UNCHANGED <<gateVars, storeVars, allow, connVars, sess, install, strip, removing, grandfathered>>

RevokeSevers(o) ==
    /\ rev[o].pc = "sever"
    /\ Sever({c \in Conn : NamedBy(c, rev[o].targets, RevPrincipals(o))})
    /\ rev' = [rev EXCEPT ![o] = IdleRev]
    /\ UNCHANGED <<gateVars, storeVars, allow, cuser, admitted, sess, install, strip, removing, grandfathered>>

\* peer_unrevoke: the identity first, then the devices it resolved before.
PeerUnrevoke(o, p) ==
    /\ "peer_unrevoke" \in Verbs
    /\ rev[o].pc = "idle"
    /\ revokedUser' = revokedUser \ {NamedUser(p)}
    /\ rev' = [rev EXCEPT ![o] = [IdleRev EXCEPT !.pc = "lift",
                 !.devs = RevocationTargets(p) \cup ({p} \cap Device)]]
    /\ UNCHANGED <<gateVars, peers, revokedDev, allow, connVars, sess, install, strip, removing, grandfathered>>

UnrevokeDevices(o) ==
    /\ rev[o].pc = "lift"
    /\ revokedDev' = revokedDev \ rev[o].devs
    /\ rev' = [rev EXCEPT ![o] = IdleRev]
    /\ UNCHANGED <<gateVars, peers, revokedUser, allow, connVars, sess, install, strip, removing, grandfathered>>

-----------------------------------------------------------------------------
(* Roster staleness. *)

\* Time passes the staleness ceiling (or the roster's own expiry and grace).
GoStale ==
    /\ view # NoRoster /\ ~stale
    /\ stale' = TRUE
    /\ Flip(1)
    /\ UNCHANGED <<view, storeVars, allow, connVars, opVars, grandfathered>>

\* A poll finds the installed roster still the newest: confirm_roster_current.
ConfirmCurrent ==
    /\ stale
    /\ stale' = FALSE
    /\ Flip(1)
    /\ UNCHANGED <<view, storeVars, allow, connVars, opVars, grandfathered>>

\* As if the sweep asked the gate, which answers nobody once stale.
AskTheGateMutant(c) == RosterUser(Remote[c]) # NoUser

\* Was the connection resolved by a roster?
RosterResolved(c) == cuser[c] # NoUser

\* staleness_sweep_once, run every minute: a stopped roster's connections go.
StalenessSweep ==
    /\ stale
    /\ \E c \in Conn : conn[c] = "open" /\ RosterResolved(c)
    /\ Sever({c \in Conn : RosterResolved(c)})
    /\ UNCHANGED <<gateVars, storeVars, allow, cuser, admitted, sess, opVars, grandfathered>>

-----------------------------------------------------------------------------

Init ==
    /\ view = NoRoster /\ stale = FALSE
    /\ peers \in [Device -> Rows \cup {NoRow}]
    /\ revokedDev = {} /\ revokedUser = {}
    /\ allow \in [Service -> Lists]
    /\ conn = [c \in Conn |-> "idle"]
    /\ cuser = [c \in Conn |-> NoUser]
    /\ admitted = [c \in Conn |-> NoCounts]
    /\ sess = [s \in Stream |-> IdleSession]
    /\ install = FALSE /\ strip = IdleStrip /\ removing = {}
    /\ rev = [o \in Op |-> IdleRev]
    /\ grandfathered = {}

ConnStep(c) ==
    \/ Accept(c) \/ ReadRosterUser(c) \/ TagRosterUser(c) \/ RegisterChecked(c)
    \/ PeerCloses(c) \/ Deregister(c)

SessionStep(s) ==
    \/ \E c \in Conn : Initialize(s, c)
    \/ AskBefore(s) \/ ReadBefore(s)
    \/ ReadRevoked(s) \/ ReadPair(s) \/ ReadView(s) \/ ReadRoster(s) \/ CheckRosterIdentity(s)
    \/ AskAfter(s) \/ AdmitRosterUser(s)
    \/ \E v \in Service : AdmitSession(s, v)
    \/ RefuseSession(s) \/ EndSession(s)

LockedStep ==
    \/ \E v \in Views : SwapView(v)
    \/ SeverRoster
    \/ \E v \in Service, p \in Names \cap Principal : RevokeServiceAllow(v, p) \/ GrantServiceAllow(v, p)
    \/ \E n \in Names \cap Nick : UnpairNames(n)
    \/ UnpairStrips \/ StripTargets \/ StripSevers
    \/ \E v \in Service, list \in Lists \cup {{}} : ReplaceService(v, list)

StoreStep ==
    \/ \E n \in Nick : UnpairDeletes(n)
    \/ \E d \in Device, row \in Rows : WriteRow(d, row)
    \/ \E o \in Op, p \in Names : PeerRevoke(o, p) \/ PeerUnrevoke(o, p)
    \/ \E o \in Op : \/ RevokeWritesUser(o) \/ RevokeWritesDevices(o)
                     \/ RevokeTargets(o) \/ RevokeSevers(o) \/ UnrevokeDevices(o)

RosterAges == GoStale \/ ConfirmCurrent \/ StalenessSweep

Next ==
    \/ \E c \in Conn : ConnStep(c)
    \/ \E s \in Stream : SessionStep(s)
    \/ LockedStep
    \/ StoreStep
    \/ RosterAges

Spec == Init /\ [][Next]_vars

(* Weak fairness of the sweep: its task sleeps a minute and sweeps, for ever. *)
LiveSpec == Spec /\ WF_vars(StalenessSweep)

-----------------------------------------------------------------------------
(* Correctness. *)

SessType == [pc     : Resolving \cup {"idle", "init", "promoted", "serving"},
             conn   : Conn \cup {NoConn},
             snap   : [Service -> SUBSET Principal],
             before : AnyUser,
             pair   : SUBSET Principal,
             seen   : AnyUser,
             ids    : SUBSET Principal,
             roster : BOOLEAN,
             svc    : Service \cup {NoService},
             flips  : 0..2]

GateTypeOK ==
    /\ view \in Views \cup {NoRoster}
    /\ stale \in BOOLEAN

StoreTypeOK ==
    /\ peers \in [Device -> Rows \cup {NoRow}]
    /\ revokedDev \subseteq Device
    /\ revokedUser \subseteq User
    /\ allow \in [Service -> SUBSET Principal]

ConnTypeOK ==
    /\ conn \in [Conn -> {"idle", "accepted", "viewed", "tagged", "open", "closed", "gone"}]
    /\ cuser \in [Conn -> AnyUser]
    /\ admitted \in [Conn -> [Principal -> Int]]

SessTypeOK ==
    /\ sess \in [Stream -> SessType]
    /\ \A s \in Stream : sess[s].pc # "idle" => sess[s].conn \in Conn
    /\ grandfathered \subseteq Stream

StripType == [pc : {"idle", "named", "swapped", "resolved"}, prins : SUBSET Principal,
              nick : Nick \cup {NoNick}, targets : SUBSET Device]

RevType == [pc : {"idle", "user", "devs", "written", "sever", "lift"},
            devs : SUBSET Device, user : AnyUser, targets : SUBSET Device]

OpTypeOK ==
    /\ install \in BOOLEAN
    /\ strip \in StripType
    /\ removing \subseteq Nick
    /\ rev \in [Op -> RevType]

\* Types, and that a session past idle belongs to a connection.
TypeOK == GateTypeOK /\ StoreTypeOK /\ ConnTypeOK /\ SessTypeOK /\ OpTypeOK

\* The sessions being served as principal p on connection c.
Served(c, p) == {s \in Stream : Serving(s) /\ sess[s].conn = c /\ p \in sess[s].ids}

\* The registry's count for a principal is the number of sessions being served
\* as it on that connection: AdmittedSession's drop undoes exactly what
\* admit_session recorded, whatever order sessions and connections end in.
\* A count too low would let a revoked session escape sever_matching_admitted.
CountsMatch ==
    \A c \in Conn, p \in Principal :
        Registered(c) => admitted[c][p] = Cardinality(Served(c, p))

\* Once a roster install has severed, no open connection is left that the
\* installed view revokes, or that was resolved by a roster and is not in it
\* (the module doc of net/src/registry.rs: a racing registration is refused
\* by the recheck or found by the sever).
RosterCut ==
    \A c \in Conn :
        conn[c] = "open" /\ ShouldSever(Remote[c], cuser[c], view) => install

\* A session served as a roster identity is on an entry roster severs find,
\* so a drop from the roster cuts it - unless the view and its staleness
\* changed twice, together or one after the other, during the reads of
\* resolve_session_principal.  One install over a stale roster is such a
\* change of both: each of the three resolves reads the view first and the
\* staleness after it, so the middle one can take the old view's user for
\* current while the ones around it see nobody.
RosterSessionCut ==
    \A s \in Stream :
        Live(s) /\ sess[s].roster /\ sess[s].flips < 2
            => \/ view.user[Remote[sess[s].conn]] # NoUser
               \/ install

\* A live session is one its service's list still admits, or the verb that
\* stripped the list is about to sever it.  (A service unregistered or
\* re-registered under its sessions lets them finish.)
AllowRevokeCut ==
    \A s \in Stream :
        Live(s) /\ s \notin grandfathered
            => \/ CallerAdmits(sess[s].ids, allow[sess[s].svc])
               \/ strip.pc \in {"swapped", "resolved"} /\ sess[s].ids \cap strip.prins # {}

\* Is a revocation of this device still on its way to its sever?
RevocationPending(d) ==
    \E o \in Op : rev[o].pc \in {"written", "sever"} /\ d \in rev[o].devs

\* Once peer_revoke has returned, no session of a device it revoked is live
\* (or a roster install that dropped the device is about to cut it) - provided
\* no pair row is removed meanwhile: admit_session rechecks the allow lists,
\* not the revocations, so a session already past its gate read is found only
\* through its device's row, its roster entry or its count.
RevokedDeviceCut ==
    \A s \in Stream :
        Live(s) /\ sess[s].flips < 2 /\ Remote[sess[s].conn] \in revokedDev
            => RevocationPending(Remote[sess[s].conn]) \/ install

\* An unpaired device is cut off: revoke_service_access says that the peer
\* "loses gate resolve entirely and cannot be re-admitted on redial".
UnpairedCut ==
    \A s \in Stream :
        Live(s) /\ ~sess[s].roster /\ peers[Remote[sess[s].conn]] = NoRow
            => strip.nick # NoNick

\* A session admitted as a principal is cut by that principal's revocation
\* "after its device has been re-bound" (docs/local-protocol.md).
RevokedPrincipalCut ==
    \A s \in Stream :
        Live(s) /\ sess[s].ids \cap revokedUser # {}
            => \E o \in Op : rev[o].pc \in {"devs", "written", "sever"}

\* A roster past its ceiling stops serving: each of its connections is cut
\* unless the roster is confirmed or replaced first.
StaleRosterCut ==
    \A c \in Conn :
        (stale /\ conn[c] = "open" /\ cuser[c] # NoUser) ~> (~stale \/ conn[c] # "open")

-----------------------------------------------------------------------------
(* What the proofs carry along with the properties above. *)

\* Only a connection that was opened carries sessions, no entry counts any
\* before it is registered, and what is served is a service.
ConnFacts ==
    /\ \A s \in Stream : sess[s].pc # "idle" => conn[sess[s].conn] \in {"open", "closed", "gone"}
    /\ \A c \in Conn : conn[c] \in {"idle", "accepted", "viewed", "tagged"} => admitted[c] = NoCounts
    /\ \A s \in Stream : Serving(s) => sess[s].svc \in Service

\* A roster identity nobody had a moment before: one change at least, and if it
\* was the only one the roster still answers.
Turned(s) ==
    sess[s].before = NoUser
        => /\ sess[s].flips > 0
           /\ sess[s].flips = 1 => RosterUser(Remote[sess[s].conn]) # NoUser

\* How far a session is, and what it must have read to get there.
SessionFacts(s) ==
    LET d == Remote[sess[s].conn] IN
    /\ sess[s].pc = "init" => sess[s].flips = 0
    /\ sess[s].pc \in {"init", "asked", "before", "cleared", "paired", "named", "vouched"}
          => ~sess[s].roster
    /\ sess[s].pc = "asked" /\ sess[s].flips = 0 => sess[s].before = ViewUser(d)
    /\ sess[s].pc \in {"before", "cleared", "paired", "named"} /\ sess[s].before = NoUser
             /\ sess[s].flips = 0
          => RosterUser(d) = NoUser
    /\ sess[s].pc = "named" /\ sess[s].flips = 0 => sess[s].seen = ViewUser(d)
    /\ sess[s].pc = "named" /\ sess[s].before = NoUser /\ sess[s].flips < 2
          => sess[s].seen \in {NoUser, ViewUser(d)}
    /\ sess[s].pc = "vouched" => Turned(s)
    /\ sess[s].pc \in {"resolved", "after"} /\ sess[s].roster => Turned(s)
    /\ sess[s].pc = "after" /\ sess[s].roster /\ sess[s].before = NoUser /\ sess[s].flips = 1
          => sess[s].seen # NoUser
    /\ sess[s].pc \in {"promoted", "serving"} /\ sess[s].roster /\ sess[s].flips < 2
          => cuser[sess[s].conn] # NoUser
    /\ sess[s].pc \in {"resolved", "after", "promoted", "serving"} /\ ~sess[s].roster
          => sess[s].pair # {}

SessFacts == \A s \in Stream : SessionFacts(s)

\* A revocation of d on its way to a sever that will find d.
WillSever(d) ==
    \E o \in Op : /\ d \in rev[o].devs
                  /\ \/ rev[o].pc = "written"
                     \/ rev[o].pc = "sever" /\ d \in rev[o].targets

\* A roster connection of a revoked device is about to be closed.
RevokedConnFacts ==
    \A c \in Conn :
        conn[c] = "open" /\ cuser[c] # NoUser /\ Remote[c] \in revokedDev
            => WillSever(Remote[c]) \/ ShouldSever(Remote[c], cuser[c], view)

\* While no pair is removed, neither is the row a session was resolved by.
RowFacts ==
    /\ strip.nick = NoNick
    /\ removing = {}
    /\ \A s \in Stream :
          sess[s].pc \in {"paired", "named", "vouched", "resolved", "after", "promoted", "serving"}
                /\ sess[s].pair # {}
            => LET d == Remote[sess[s].conn] IN
               /\ peers[d] # NoRow
               /\ conn[sess[s].conn] = "open" /\ d \in revokedDev => WillSever(d)
=============================================================================
