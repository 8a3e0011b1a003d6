------------------------------- MODULE Pairing -------------------------------
(***************************************************************************)
(* The pairing ceremonies between nodes, both sides: redeem_invite and     *)
(* attest_to on the dialling node, handle_inviter_side and                 *)
(* handle_attestation on the other (node/src/pairing/rendezvous.rs), behind*)
(* the accept gate of the pair protocol, together with the operator's      *)
(* verbs on the same peer store: peer_rename, peer_introduce, peer_add,    *)
(* peer_remove, peer_revoke and peer_unrevoke.                             *)
(*                                                                         *)
(* Every store access is a transaction of its own and only config writers  *)
(* hold reload_lock, so a row may be computed from one state of the store  *)
(* and written into another.  An invite is its remaining uses: module      *)
(* Invites says why that may be taken as one step.  Left out: rate limits, *)
(* expiry, the authentication code and dial hints.                         *)
(***************************************************************************)
EXTENDS Naturals, FiniteSets

CONSTANTS Node, Name, Service, Offer, NoPerson, NoRow, NoOffer, NoName,
          Person,      \* the user id each node can prove
          Nick,        \* the name each node gives itself
          By, Kind,    \* of each offer: its node; "pair", "self" or "attest"
          Alias, Minted,  \* the inviter's name for the redeemer; the uses minted
          Grants,      \* the services an invite names
          Operated,    \* nodes whose operator uses the verbs
          Verbs,       \* the verbs in use
          MaxDials, MaxOps, MaxStops  \* bounds: ceremonies; verbs; crashes and failed grants

People == {Person[n] : n \in Node} \ {NoPerson}

Row == [nick : Name, user : People \cup {NoPerson}, paired : BOOLEAN,
        dials : SUBSET Service, checked : BOOLEAN]   \* history: was the name checked for a collision?

ASSUME PairingAssumption ==
    /\ Nick \in [Node -> Name] /\ By \in [Offer -> Node]
    /\ Kind \in [Offer -> {"pair", "self", "attest"}]
    /\ Alias \in [Offer -> Name \cup {NoName}] /\ Minted \in [Offer -> Nat]
    /\ Grants \in [Offer -> SUBSET Service]
    /\ NoName \notin Name /\ NoOffer \notin Offer
    /\ NoRow \notin Row /\ NoPerson \notin Node /\ Node \cap People = {}
    /\ {MaxDials, MaxOps, MaxStops} \subseteq Nat

VARIABLES
    store,   \* store[n][m]: node n's PeerEntry for m
    allow,   \* the principals each node's services admit
    revoked, \* each node's revoked endpoints and identities
    left,    \* the uses left of each offer
    pair,    \* each node's pair or attest_to verb
    srv,     \* the handler of each dialling node's connection
    op,      \* the operator's verb in progress on each node
    told,    \* history: <<n, m>>, n was told it is paired with m, not undone since
    stale,   \* history: threads that read their node's store before a write
    raced,   \* history: nodes where such a thread then wrote, or a verb replaced a row
             \* by one that proves less
    spent    \* what of the bounds is used up

pairVars == <<store, allow, revoked, left, pair, srv, op, told, stale, raced, spent>>

IdlePair == [pc |-> "idle", offer |-> NoOffer, name |-> NoName, cut |-> FALSE]
IdleSrv == [pc |-> "idle", offer |-> NoOffer, user |-> NoPerson, late |-> FALSE,
            entry |-> NoRow]
IdleOp == [pc |-> "idle", rows |-> [m \in Node |-> NoRow], name |-> NoName]

Rows(n) == {m \in Node : store[n][m] # NoRow}

\* PeerStore::admission: the endpoint, or the identity its row carries.
Refused(n, m) ==
    m \in revoked[n] \/ (m \in Rows(n) /\ store[n][m].user \in revoked[n])

\* nickname_collision and nickname_squat.
Taken(n, name, m) == \E k \in Rows(n) \ {m} : store[n][k].nick = name

\* The stable principal of a row.
Principal(m, user) == IF user = NoPerson THEN m ELSE user

-----------------------------------------------------------------------------
(* Reads and writes of a node's store by its threads.                      *)
Busy(n) ==
    {<<"pair", n>> : k \in {x \in {n} : pair[x].pc # "idle"}}
    \cup {<<"op", n>> : k \in {x \in {n} : op[x].pc # "idle"}}
    \cup {<<"srv", m>> : m \in {x \in Node : srv[x].pc # "idle" /\ By[srv[x].offer] = n}}

Reads(t) == stale' = stale \ {t}

Excused(n, why) == raced' = IF why THEN raced \cup {n} ELSE raced

Writes(n, t) ==
    /\ Excused(n, t \in stale)
    /\ stale' = stale \cup (Busy(n) \ {t})

Put(n, m, row) == store' = [store EXCEPT ![n][m] = row]

\* reload_lock: a rename holds it from its reads to its write.
LockFree(n) == op[n].pc # "rename"

-----------------------------------------------------------------------------
(* The dialling side.                                                      *)

\* The accept loop lets a connection through to the handler while some invite is
\* live, or attestations are admitted, unless the device is revoked.
PairGate(i, n, o) ==
    /\ Kind[o] = "attest" \/ \E p \in Offer : By[p] = i /\ left[p] > 0
    /\ ~Refused(i, n)

\* redeem_invite and attest_to up to the hello, and the gate that accepts the
\* connection: what they refuse changes nothing.
Dial(n, o, name, binds) ==
    LET i == By[o] IN
    /\ spent.dials < MaxDials /\ spent' = [spent EXCEPT !.dials = @ + 1]
    /\ pair[n].pc = "idle" /\ srv[n].pc = "idle" /\ i # n
    /\ Kind[o] = "attest" => binds /\ name = Nick[i]
    /\ Kind[o] = "pair" => ~Taken(n, name, i)
    /\ Kind[o] # "self" => ~Refused(n, i)
    /\ PairGate(i, n, o)
    /\ pair' = [pair EXCEPT ![n] = [pc |-> "wait", offer |-> o, name |-> name, cut |-> FALSE]]
    /\ srv' = [srv EXCEPT ![n] =
                 [IdleSrv EXCEPT !.pc = "hello", !.offer = o,
                                 !.user = IF binds THEN Person[n] ELSE NoPerson,
                                 !.late = binds /\ Person[n] \in revoked[i]]]
    /\ stale' = stale \ {<<"pair", n>>, <<"srv", n>>}
    /\ UNCHANGED <<store, allow, revoked, left, op, told, raced>>

\* The reply: a revoked identity ends a pairing here; a self-enrolment writes
\* no row.
Hear(n) ==
    LET o == pair[n].offer IN
    /\ pair[n].pc = "wait" /\ srv[n].pc = "ok"
    /\ srv' = [srv EXCEPT ![n] = IdleSrv]
    /\ pair' = [pair EXCEPT ![n] =
                  IF \/ Kind[o] = "self"
                     \/ Kind[o] = "pair" /\ Person[By[o]] \in revoked[n]
                  THEN IdlePair ELSE [@ EXCEPT !.pc = "save"]]
    /\ UNCHANGED <<store, allow, revoked, left, op, told, stale, raced, spent>>

\* One transaction: the row for the inviter, merged with the one there.
SaveBack(n) ==
    LET o == pair[n].offer   i == By[o]   old == store[n][i]   had == old # NoRow IN
    /\ pair[n].pc = "save"
    /\ Put(n, i, [nick    |-> IF Kind[o] = "attest" /\ had THEN old.nick ELSE pair[n].name,
                    user    |-> IF Person[i] = NoPerson /\ had THEN old.user ELSE Person[i],
                    paired  |-> TRUE,
                    dials   |-> (IF had THEN old.dials ELSE {})
                                \cup (IF Kind[o] = "pair" THEN Grants[o] ELSE {}),
                    checked |-> Kind[o] = "pair" \/ (had /\ old.checked)])
    /\ Writes(n, <<"pair", n>>)
    /\ pair' = [pair EXCEPT ![n] = IF Kind[o] = "pair" THEN [@ EXCEPT !.pc = "back"] ELSE IdlePair]
    /\ UNCHANGED <<allow, revoked, left, srv, op, told, spent>>

\* The mutual grant is best effort; either way the verb answers "paired".
GrantBack(n) ==
    LET i == By[pair[n].offer] IN
    /\ pair[n].pc = "back" /\ LockFree(n)
    /\ \/ allow' = [allow EXCEPT ![n] = @ \cup {Principal(i, Person[i])}]
       \/ UNCHANGED allow
    /\ Writes(n, <<"pair", n>>)
    /\ told' = IF pair[n].cut THEN told ELSE told \cup {<<n, i>>}
    /\ pair' = [pair EXCEPT ![n] = IdlePair]
    /\ UNCHANGED <<store, revoked, left, srv, op, spent>>

\* The connection fails, or the verb's client goes away.  The handler on the
\* other side runs on.
Lost(n) ==
    /\ pair[n].pc # "idle"
    /\ pair' = [pair EXCEPT ![n] = IdlePair]
    /\ UNCHANGED <<store, allow, revoked, left, srv, op, told, stale, raced, spent>>

-----------------------------------------------------------------------------
(* The inviter's side: handle_inviter_side for the connection from n.      *)
Answer(n, pc) == srv' = [srv EXCEPT ![n].pc = pc]

Claimed(n) == IF Alias[srv[n].offer] # NoName THEN Alias[srv[n].offer] ELSE Nick[n]

Collides(n) == LET i == By[srv[n].offer] IN n \notin Rows(i) /\ Taken(i, Claimed(n), n)

\* The collision check in front of the burn, for a live secret.
PreCheck(n) ==
    LET o == srv[n].offer IN
    /\ srv[n].pc = "hello" /\ Kind[o] # "attest"
    /\ Answer(n, IF Kind[o] = "pair" /\ left[o] > 0 /\ Collides(n) THEN "no" ELSE "burn")
    /\ UNCHANGED <<store, allow, revoked, left, pair, op, told, stale, raced, spent>>

\* As if a spent invite could be used again.
BurnMutant(n) ==
    /\ srv[n].pc = "burn"
    /\ left' = [left EXCEPT ![srv[n].offer] = @ - 1]
    /\ Answer(n, IF Kind[srv[n].offer] = "pair" THEN "check" ELSE "ok")
    /\ UNCHANGED <<store, allow, revoked, pair, op, told, stale, raced, spent>>

\* try_redeem.  A self-enrolment ends here, with a binding for the redeemer
\* if this node has an identity to enrol into and the invite was single-use.
Burn(n) ==
    LET o == srv[n].offer IN
    /\ srv[n].pc = "burn"
    /\ left' = [left EXCEPT ![o] = IF @ > 0 THEN @ - 1 ELSE 0]
    /\ Answer(n, CASE left[o] = 0 -> "no"
                   [] left[o] > 0 /\ Kind[o] = "pair" -> "check"
                   [] OTHER -> IF left[o] = 1 /\ Person[By[o]] # NoPerson THEN "ok" ELSE "no")
    /\ UNCHANGED <<store, allow, revoked, pair, op, told, stale, raced, spent>>

\* The row the inviter means to write: what it has wins, save for an identity
\* newly proven.
Entry(n) ==
    LET old == store[By[srv[n].offer]][n]   had == old # NoRow IN
    [nick    |-> IF had THEN old.nick ELSE Claimed(n),
     user    |-> IF srv[n].user = NoPerson /\ had THEN old.user ELSE srv[n].user,
     paired  |-> TRUE,
     dials   |-> IF had THEN old.dials ELSE {},
     checked |-> ~had \/ old.checked]

\* As if ordinary redemption did not ask whether the identity is revoked.
CheckUnrevokedMutant(n) ==
    /\ srv[n].pc = "check"
    /\ srv' = [srv EXCEPT ![n] = IF Collides(n) THEN [@ EXCEPT !.pc = "no"]
                                   ELSE [@ EXCEPT !.pc = "save", !.entry = Entry(n)]]
    /\ Reads(<<"srv", n>>)
    /\ UNCHANGED <<store, allow, revoked, left, pair, op, told, raced, spent>>

\* As if the name were only checked in front of the burn.
CheckOnceMutant(n) ==
    /\ srv[n].pc = "check"
    /\ srv' = [srv EXCEPT ![n] = IF Entry(n).user \in revoked[By[srv[n].offer]]
                                   THEN [@ EXCEPT !.pc = "no"]
                                   ELSE [@ EXCEPT !.pc = "save", !.entry = Entry(n)]]
    /\ Reads(<<"srv", n>>)
    /\ UNCHANGED <<store, allow, revoked, left, pair, op, told, raced, spent>>

\* The race guard, the merge, and the identity's revocation.
Check(n) ==
    /\ srv[n].pc = "check"
    /\ srv' = [srv EXCEPT ![n] =
                   IF Collides(n) \/ Entry(n).user \in revoked[By[srv[n].offer]]
                   THEN [@ EXCEPT !.pc = "no"]
                   ELSE [@ EXCEPT !.pc = "save", !.entry = Entry(n)]]
    /\ Reads(<<"srv", n>>)
    /\ UNCHANGED <<store, allow, revoked, left, pair, op, told, raced, spent>>

\* Fact one: the row.
Save(n) ==
    LET i == By[srv[n].offer] IN
    /\ srv[n].pc = "save"
    /\ Put(i, n, srv[n].entry)
    /\ Writes(i, <<"srv", n>>)
    /\ Answer(n, "grant")
    /\ UNCHANGED <<allow, revoked, left, pair, op, told, spent>>

\* As if a failed grant were answered "paired".
GrantSoftMutant(n) ==
    LET i == By[srv[n].offer] IN
    /\ srv[n].pc = "grant" /\ LockFree(i)
    /\ \/ allow' = [allow EXCEPT ![i] = @ \cup {Principal(n, srv[n].entry.user)}]
       \/ UNCHANGED allow
    /\ Writes(i, <<"srv", n>>)
    /\ Answer(n, "ok")
    /\ UNCHANGED <<store, revoked, left, pair, op, told, spent>>

\* Fact two: its principal into the allow lists, under reload_lock.
Grant(n) ==
    LET i == By[srv[n].offer] IN
    /\ srv[n].pc = "grant" /\ LockFree(i)
    /\ allow' = [allow EXCEPT ![i] = @ \cup {Principal(n, srv[n].entry.user)}]
    /\ Writes(i, <<"srv", n>>)
    /\ Answer(n, "ok")
    /\ UNCHANGED <<store, revoked, left, pair, op, told, spent>>

\* The config write fails: the handler ends without a reply.
GrantFails(n) ==
    /\ srv[n].pc = "grant"
    /\ spent.stops < MaxStops /\ spent' = [spent EXCEPT !.stops = @ + 1]
    /\ Answer(n, "no")
    /\ UNCHANGED <<store, allow, revoked, left, pair, op, told, stale, raced>>

\* handle_attestation and attestation_decision: another device of a person
\* this node pairs with, under that person's name, with the services all of
\* their rows share.
Attest(n) ==
    LET i == By[srv[n].offer]
        old == store[i][n]   had == old # NoRow
        same == {m \in Rows(i) : store[i][m].user = srv[n].user}
    IN
    /\ srv[n].pc = "hello" /\ Kind[srv[n].offer] = "attest"
    /\ IF \/ srv[n].user = NoPerson \/ n \in revoked[i]
          \/ srv[n].user \in revoked[i] \/ same = {}
       THEN /\ Answer(n, "no")
            /\ UNCHANGED <<store, stale, raced>>
       ELSE /\ \E first \in same :
                 Put(i, n, [nick    |-> store[i][first].nick,
                            user    |-> srv[n].user,
                            paired  |-> TRUE,
                            dials   |-> {s \in Service : \A m \in same : s \in store[i][m].dials},
                            checked |-> store[i][first].checked])
            /\ Writes(i, <<"srv", n>>)
            /\ Answer(n, "ok")
    /\ UNCHANGED <<allow, revoked, left, pair, op, told, spent>>

\* A refusal reaches the dialler, or the dialler has gone.
Closed(n) ==
    /\ srv[n].pc = "no" \/ (srv[n].pc = "ok" /\ pair[n].pc # "wait")
    /\ srv' = [srv EXCEPT ![n] = IdleSrv]
    /\ pair' = [pair EXCEPT ![n] = IF @.pc = "wait" THEN IdlePair ELSE @]
    /\ UNCHANGED <<store, allow, revoked, left, op, told, stale, raced, spent>>

-----------------------------------------------------------------------------
(* The operator's verbs.                                                   *)
Can(n, verb) ==
    /\ n \in Operated /\ verb \in Verbs /\ op[n].pc = "idle"
    /\ spent.ops < MaxOps /\ spent' = [spent EXCEPT !.ops = @ + 1]

\* rename_plan, under reload_lock: a person's rows, or those of one name.
PeerRename(n, who, to) ==
    LET named == {m \in Rows(n) : IF who \in People THEN store[n][m].user = who
                                  ELSE store[n][m].nick = who} IN
    /\ Can(n, "peer_rename")
    /\ named # {} /\ \E m \in named : store[n][m].nick # to
    /\ ~\E m \in Rows(n) \ named : store[n][m].nick = to
    /\ op' = [op EXCEPT ![n] = [pc |-> "rename", name |-> to,
                 rows |-> [m \in Node |-> IF m \notin named THEN NoRow ELSE
                    [store[n][m] EXCEPT !.nick = to,
                                        !.checked = @ \/ who \in People \/ named = {m}]]]]
    /\ Reads(<<"op", n>>)
    /\ UNCHANGED <<store, allow, revoked, left, pair, srv, told, raced>>

RowsWritten(n) == [store EXCEPT ![n] =
    [m \in Node |-> IF op[n].rows[m] = NoRow THEN @[m] ELSE op[n].rows[m]]]

RenameWrite(n) ==
    /\ op[n].pc = "rename"
    /\ store' = RowsWritten(n)
    /\ Writes(n, <<"op", n>>)
    /\ op' = [op EXCEPT ![n] = IdleOp]
    /\ UNCHANGED <<allow, revoked, left, pair, srv, told, spent>>

\* As if an introduction could replace a row a ceremony proved.
IntroduceOverMutant(n, m, name, binds) ==
    /\ Can(n, "peer_introduce")
    /\ m # n
    /\ \E e \in Rows(n) : store[n][e].paired /\ store[n][e].user # NoPerson
    /\ ~(binds /\ Person[m] \in revoked[n])
    /\ ~Taken(n, name, m)
    /\ op' = [op EXCEPT ![n] = [pc |-> "introduce", name |-> NoName,
                 rows |-> [k \in Node |-> IF k # m THEN NoRow ELSE
                    [nick |-> name, user |-> IF binds THEN Person[m] ELSE NoPerson,
                     paired |-> FALSE, dials |-> {}, checked |-> TRUE]]]]
    /\ Reads(<<"op", n>>)
    /\ UNCHANGED <<store, allow, revoked, left, pair, srv, told, raced>>

\* introduce_peer: its checks, the endorser a person paired with by ceremony ...
PeerIntroduce(n, m, name, binds) ==
    /\ Can(n, "peer_introduce")
    /\ m # n
    /\ \E e \in Rows(n) : store[n][e].paired /\ store[n][e].user # NoPerson
    /\ ~(binds /\ Person[m] \in revoked[n])
    /\ ~Taken(n, name, m)
    /\ ~(m \in Rows(n) /\ store[n][m].paired)
    /\ op' = [op EXCEPT ![n] = [pc |-> "introduce", name |-> NoName,
                 rows |-> [k \in Node |-> IF k # m THEN NoRow ELSE
                    [nick |-> name, user |-> IF binds THEN Person[m] ELSE NoPerson,
                     paired |-> FALSE, dials |-> {}, checked |-> TRUE]]]]
    /\ Reads(<<"op", n>>)
    /\ UNCHANGED <<store, allow, revoked, left, pair, srv, told, raced>>

\* Only a row a ceremony proved is protected: introduced again, without its
\* binding, an introduced row loses the identity it had, and the node is excused.
Reintroduced(n) ==
    \E m \in Rows(n) : /\ op[n].rows[m] # NoRow /\ op[n].rows[m].user = NoPerson
                        /\ ~store[n][m].paired /\ store[n][m].user # NoPerson

\* ... and its write, with no lock held since.
IntroduceWrite(n) ==
    /\ op[n].pc = "introduce"
    /\ store' = RowsWritten(n)
    /\ Excused(n, <<"op", n>> \in stale \/ Reintroduced(n))
    /\ stale' = stale \cup (Busy(n) \ {<<"op", n>>})
    /\ op' = [op EXCEPT ![n] = IdleOp]
    /\ UNCHANGED <<allow, revoked, left, pair, srv, told, spent>>

\* add_peer: an upsert that checks nothing; over a row it loses what the row
\* held, and the node is excused from then on.
PeerAdd(n, m, name) ==
    /\ Can(n, "peer_add") /\ m # n
    /\ Put(n, m, [nick |-> name, user |-> NoPerson, paired |-> FALSE, dials |-> {},
                  checked |-> FALSE])
    /\ Excused(n, m \in Rows(n))
    /\ stale' = stale \cup Busy(n)
    /\ UNCHANGED <<allow, revoked, left, pair, srv, op, told>>

\* The principals of the rows named: an identity only with its last device.
Stripped(n, name) ==
    LET named == {m \in Rows(n) : store[n][m].nick = name}
        kept == {store[n][m].user : m \in Rows(n) \ named}
    IN  named \cup ({store[n][m].user : m \in named} \ (kept \cup {NoPerson}))

\* History: n unpairs these peers, the ones it has just answered included.
Unpairs(n, peers) ==
    /\ told' = {t \in told : ~(t[2] = n /\ t[1] \in peers)}
    /\ pair' = [m \in Node |-> IF m \in peers /\ pair[m].pc # "idle" /\ By[pair[m].offer] = n
                               THEN [pair[m] EXCEPT !.cut = TRUE] ELSE pair[m]]

\* As if remove_peer dropped the rows before the grants.
PeerRemoveMutant(n, name) ==
    /\ Can(n, "peer_remove") /\ \E m \in Rows(n) : store[n][m].nick = name
    /\ store' = [store EXCEPT ![n] =
                   [m \in Node |-> IF @[m] # NoRow /\ @[m].nick = name THEN NoRow ELSE @[m]]]
    /\ stale' = (stale \cup Busy(n)) \ {<<"op", n>>}
    /\ Unpairs(n, {m \in Rows(n) : store[n][m].nick = name})
    /\ op' = [op EXCEPT ![n] = [IdleOp EXCEPT !.pc = "remove", !.name = name]]
    /\ UNCHANGED <<allow, revoked, left, srv, raced>>

\* remove_peer: first the grants, under reload_lock ...
PeerRemove(n, name) ==
    /\ Can(n, "peer_remove") /\ \E m \in Rows(n) : store[n][m].nick = name
    /\ allow' = [allow EXCEPT ![n] = @ \ Stripped(n, name)]
    /\ stale' = (stale \cup Busy(n)) \ {<<"op", n>>}
    /\ Unpairs(n, {m \in Rows(n) : store[n][m].nick = name})
    /\ op' = [op EXCEPT ![n] = [IdleOp EXCEPT !.pc = "remove", !.name = name]]
    /\ UNCHANGED <<store, revoked, left, srv, raced>>

\* ... then every row of that name.
RemoveRows(n) ==
    /\ op[n].pc = "remove"
    /\ store' = [store EXCEPT ![n] =
                   [m \in Node |-> IF @[m] # NoRow /\ @[m].nick = op[n].name THEN NoRow ELSE @[m]]]
    /\ Writes(n, <<"op", n>>)
    /\ told' = {t \in told : t[1] # n \/ store'[n][t[2]] # NoRow}
    /\ op' = [op EXCEPT ![n] = IdleOp]
    /\ UNCHANGED <<allow, revoked, left, pair, srv, spent>>

\* The verb's client goes away between the two halves of a verb.
OpAborted(n) ==
    /\ op[n].pc # "idle"
    /\ op' = [op EXCEPT ![n] = IdleOp]
    /\ UNCHANGED <<store, allow, revoked, left, pair, srv, told, stale, raced, spent>>

\* peer_revoke of an endpoint or an identity; peer_unrevoke.
PeerRevoke(n, p) ==
    /\ Can(n, "peer_revoke") /\ p \notin revoked[n]
    /\ revoked' = [revoked EXCEPT ![n] = @ \cup {p}]
    /\ UNCHANGED <<store, allow, left, pair, srv, op, told, stale, raced>>

PeerUnrevoke(n, p) ==
    /\ n \in Operated /\ op[n].pc = "idle" /\ p \in revoked[n]
    /\ revoked' = [revoked EXCEPT ![n] = @ \ {p}]
    /\ srv' = [m \in Node |-> IF srv[m].pc # "idle" /\ By[srv[m].offer] = n
                              THEN [srv[m] EXCEPT !.late = FALSE] ELSE srv[m]]
    /\ UNCHANGED <<store, allow, left, pair, op, told, stale, raced, spent>>

\* A node stops: its threads and connections go; the store, the config and
\* the invites stay.
Stop(n) ==
    LET cut == {m \in Node : srv[m].pc # "idle" /\ By[srv[m].offer] = n} IN
    /\ spent.stops < MaxStops /\ spent' = [spent EXCEPT !.stops = @ + 1]
    /\ srv' = [m \in Node |-> IF m \in cut THEN IdleSrv ELSE srv[m]]
    /\ pair' = [m \in Node |-> IF m = n \/ (m \in cut /\ pair[m].pc = "wait")
                               THEN IdlePair ELSE pair[m]]
    /\ op' = [op EXCEPT ![n] = IdleOp]
    /\ UNCHANGED <<store, allow, revoked, left, told, stale, raced>>

-----------------------------------------------------------------------------
PairInit ==
    /\ store = [n \in Node |-> [m \in Node |-> NoRow]]
    /\ allow = [n \in Node |-> {}] /\ revoked = [n \in Node |-> {}]
    /\ left = Minted
    /\ pair = [n \in Node |-> IdlePair]
    /\ srv = [n \in Node |-> IdleSrv]
    /\ op = [n \in Node |-> IdleOp]
    /\ told = {} /\ stale = {} /\ raced = {}
    /\ spent = [dials |-> 0, ops |-> 0, stops |-> 0]

CeremonyStep ==
    \E n \in Node :
        \/ \E o \in Offer, binds \in BOOLEAN : Dial(n, o, Nick[By[o]], binds)
        \/ Hear(n) \/ SaveBack(n) \/ GrantBack(n) \/ Lost(n)
        \/ PreCheck(n) \/ Burn(n) \/ Check(n) \/ Save(n) \/ Grant(n) \/ GrantFails(n)
        \/ Attest(n) \/ Closed(n)

OperatorStep ==
    \E n \in Node :
        \/ \E who \in Name \cup People, to \in Name : PeerRename(n, who, to)
        \/ \E m \in Node, name \in Name, binds \in BOOLEAN : PeerIntroduce(n, m, name, binds)
        \/ \E m \in Node, name \in Name : PeerAdd(n, m, name)
        \/ \E name \in Name : PeerRemove(n, name)
        \/ \E p \in Node \cup People : PeerRevoke(n, p) \/ PeerUnrevoke(n, p)
        \/ RenameWrite(n) \/ IntroduceWrite(n) \/ RemoveRows(n) \/ OpAborted(n)

PairNext == CeremonyStep \/ OperatorStep \/ \E n \in Node : Stop(n)

PairSpec == PairInit /\ [][PairNext]_pairVars

-----------------------------------------------------------------------------
Pairs == [pc : {"idle", "wait", "save", "back"}, offer : Offer \cup {NoOffer},
          name : Name \cup {NoName}, cut : BOOLEAN]
Srvs == [pc : {"idle", "hello", "burn", "check", "save", "grant", "ok", "no"},
         offer : Offer \cup {NoOffer}, user : People \cup {NoPerson}, late : BOOLEAN,
         entry : Row \cup {NoRow}]
Ops == [pc : {"idle", "rename", "introduce", "remove"},
        rows : [Node -> Row \cup {NoRow}], name : Name \cup {NoName}]

\* Every variable keeps its type.
PairTypeOK ==
    /\ store \in [Node -> [Node -> Row \cup {NoRow}]]
    /\ allow \in [Node -> SUBSET (Node \cup People)]
    /\ revoked \in [Node -> SUBSET (Node \cup People)]
    /\ left \in [Offer -> Nat]
    /\ pair \in [Node -> Pairs] /\ srv \in [Node -> Srvs] /\ op \in [Node -> Ops]
    /\ told \subseteq Node \X Node
    /\ raced \subseteq Node
    /\ spent \in [dials : 0..MaxDials, ops : 0..MaxOps, stops : 0..MaxStops]

\* One ceremony admits both directions: a node told it is paired with m is a
\* row of m's that m's services admit, and has m's row, until m unpairs it or
\* two writers race.  In particular an answer "paired" never precedes the two
\* writes on the inviter.
PairedBothWays ==
    \A t \in told :
        raced \cap {t[1], t[2]} = {} =>
            /\ t[1] \in Rows(t[2]) /\ t[2] \in Rows(t[1])
            /\ {t[1], store[t[2]][t[1]].user} \cap allow[t[2]] # {}

\* No allow list names a principal without a row, at any point of a pairing,
\* a removal or a crash within either: what a later pairing would inherit.
NoOrphanGrant ==
    \A n \in Node \ raced : \A p \in allow[n] :
        \E m \in Rows(n) : p = m \/ p = store[n][m].user

\* Two peers share a checked name only as devices of one person: the pre-check,
\* the race guard and the redeemer's check between them leave no other way
\* than a race.
NamesUnique ==
    \A n \in Node \ raced : \A m, k \in Rows(n) :
        m # k /\ store[n][m].nick = store[n][k].nick /\ store[n][m].checked
              /\ store[n][k].checked
            => store[n][m].user = store[n][k].user /\ store[n][m].user # NoPerson

\* A pairing presented under an identity revoked before the hello gets neither
\* row nor grant.
RevokedNeverPairs ==
    \A n \in Node : srv[n].late => srv[n].pc \notin {"save", "grant"}

\* A row in place is never weakened: no proven identity or ceremony stamp
\* is lost but with the row itself, to a race, or to a verb that replaces the
\* row: peer_add, and an introduction of a row that was itself introduced.
NeverWeakened ==
    [][\A n, m \in Node :
          LET old == store[n][m]   new == store'[n][m] IN
          old # NoRow /\ new # NoRow /\ n \notin raced' =>
              /\ old.user # NoPerson => new.user # NoPerson
              /\ old.paired => new.paired
              /\ old.dials \subseteq new.dials \/ srv'[m] # srv[m]]_pairVars

\* What the comment on the race guard says: the loser of two racing
\* redemptions with one nickname is caught.
RaceGuardCatches ==
    \A n \in Node : \A m, k \in Rows(n) :
        m # k /\ store[n][m].nick = store[n][k].nick
            => store[n][m].user = store[n][k].user /\ store[n][m].user # NoPerson
=============================================================================
