# A verification project for mcpmesh

mcpmesh joins the MCP servers of several machines into a peer-to-peer mesh. Every
machine runs one daemon: it accepts QUIC connections from other devices, decides
from a pair store and a signed roster who they are, serves them the services their
allow lists admit them to, and takes orders from local programs over a control
socket. This directory holds TLA+ models of that daemon, the TLC runs that check
them on small instances, and TLAPS proofs of the main results for every instance.
Paths below are relative to `src/`.

## 1. The system

| Part | Where | State it keeps | Operations | What makes it correct |
|---|---|---|---|---|
| Connection registry | `net/src/registry.rs` | entries: device, roster discriminator, session counts per principal | `register_checked`, `admit_roster_user`, `admit_session`, the two drops, `sever_matching`, `sever_matching_admitted` | counts are exact; a sever finds everything it is meant to find |
| Mesh accept path | `net/src/endpoint.rs` | one task per connection, one per session | `run_mesh_connection`, `run_session`, `resolve_session_principal` | a session is never served on an identity or a list that was withdrawn before it was recorded |
| Trust gate | `node/src/roster/gate.rs` | installed roster view, freshness | `resolve`, `roster_user`, `should_sever_now`, `install` | revocation wins over roster, roster over pair row |
| Peer store | `node/src/allowlist.rs` | pair rows, revoked endpoints and identities | `add`, `remove`, `revoke_*`, `unrevoke_*`, `decide_admission` | a revoked device or identity is refused |
| Severing | `node/src/daemon/sever.rs` | none | `endpoints_for_principal`, `sever_principals` | a principal's devices are all found |
| Roster installation | `node/src/daemon/roster_install.rs` | current roster, serial, `reload_lock` | install and sever, staleness sweep, confirm | a dropped or revoked device is cut; serials only grow |
| Control verbs | `node/src/daemon/handlers.rs`, `config_write.rs` | config file, ephemeral services, live registry | register, unregister, grant, revoke, `peer_remove`, `peer_revoke`, mint | an answered verb is in force; two verbs never undo each other |
| Control connection | `node/src/control.rs` | permits, requests in flight, ephemeral teardown list | read, dispatch, upgrade, subscribe, abort on close, teardown | permits come back; an upgrade's bytes are its own; an ephemeral service lives as long as its connection |
| Invites | `node/src/pairing/mod.rs`, `persist.rs` | map of live invites, its file | mint, `try_redeem`, `remove_expired`, load | at most `max_uses` redemptions, across crashes; no use lost |
| Pair rendezvous, accept loop | `node/src/pairing/rendezvous.rs`, `daemon/accept.rs` | ceremonies in progress | both sides of a pairing, an attestation, a self-enrolment | both sides agree; one checked name, one person; no grant without a row |
| Roster trust | `trust/src/roster` | none | validate, upsert, revoke, remove, cross-sign | what an operator signs its nodes accept |
| Roster distribution | `node/src/roster/distribute.rs`, `transport.rs` | the poll loop, fetch permits | announce, fetch, poll | a node that missed every announce still converges |
| Organisation authoring | `node/src/daemon/org_author.rs` | signing key, staged successor, `org_author_lock` | create, approve, revoke, rotate | a revocation stays; the org can always publish |
| Own identity | `node/src/daemon.rs`, `daemon/handlers.rs`, `daemon/boot.rs` | `user.key`, the adopted sidecar, three bindings, `user_key_lock` | import, adopt, detach, sign, enrol, boot | a restart presents what was presented; nothing is signed as someone else |
| Dialling | `node/src/daemon/dial.rs`, `conn_cache.rs`, `hooks.rs` | one slot per device, registered outbound connections | single-flight dial, race, reuse, veto, close pass | no connection to a revoked device survives; every caller is answered |
| Reachability | `node/src/daemon/reach.rs`, `path_watch.rs` | one row per peer | probe, observe, commit | a peer that answered is never shown offline by an older probe |
| Session table and streams | `node/src/audit/log.rs`, `control.rs` | open sessions, two broadcast rings | record, broadcast, tap, snapshot | a subscriber's picture is the tables' |
| Blobs, backends, limits, audit file, framing, presence, local discovery | `node/src/blobs`, `node/src/backends`, `node/src/limits.rs`, `node/src/audit`, `codec`, `node/src/discovery` | scopes, children, buckets, files | - | not modelled, section 5 |

How they interact: a session reads the gate, the gate reads the roster view and the
peer store, and the session is recorded in the connection registry; a verb first
changes what those answer and then severs what the registry finds. Verbs that touch
services or rosters hold `reload_lock`; pairing writes and `peer_revoke` do not. A
control connection that closes aborts its requests where they wait.

What is hard here: a session makes eight separate reads of gate, store and lists between
its `initialize` and its admission, and any verb can run between two of them; unpairing releases the lock
before its last step; blocking work (config edits, invite stores, roster installs, key
promotions) outlives the request that started it; a verb can fail after half its effect; a daemon can die
between a write and its answer; a roster becomes stale without any event; three
channels install rosters, and a rotation moves the root they are checked against
between two files; a pairing reads the store, awaits, and writes a row computed from
what it read; a dial ends while its target is being revoked. The hazards are listed,
line by line, in `PROJECT.json`.

## 2. The modules

### Admission: who is served and who is cut

`Admission.tla` models the connection registry, the accept path, the trust gate, the
peer store's decision, severing, and the verbs that withdraw access. What one lock
covers is one step.

* `conn`, `cuser`, `admitted` are the registry's entries. `Accept`, `ReadRosterUser`,
  `TagRosterUser`, `RegisterChecked`, `PeerCloses`, `Deregister` are `run_mesh_connection`.
* `sess` is each session's progress: `Initialize` (snapshot of the services), then
  `resolve_session_principal`: `AskBefore` and `ReadBefore` (`roster_before`),
  `ReadRevoked`, `ReadPair`, `ReadView`, `ReadRoster`, `CheckRosterIdentity`
  (`ComposedGate::resolve`), `AskAfter` and `AdmitRosterUser` (the second `roster_user`
  and the promotion), then `AdmitSession`, `RefuseSession`, `EndSession`. Asking the roster
  is two reads wherever it happens (`gate.rs` 124 and 129): `ViewUser` is the view's
  answer, `Vouched` what is left of it when the roster's age is read after it.
* `install` and `strip` are the verb holding `reload_lock`, stopped between its
  change and its sever: `SwapView`/`SeverRoster`; `RevokeServiceAllow`, `UnpairNames`,
  `UnpairStrips`, `StripTargets`, `StripSevers`. `UnpairDeletes` is `remove_peer`'s
  last step, outside the lock. `GrantServiceAllow` and `ReplaceService` change lists
  without severing.
* `rev` is each `peer_revoke`/`peer_unrevoke`, one step per store transaction.
* `WriteRow` is any pairing write. `GoStale`, `ConfirmCurrent`, `StalenessSweep` are
  the roster's age.
* `grandfathered` and `flips` are history: sessions whose service was replaced under
  them (documented to finish), and how often what the gate reads of the roster changed
  during a session's reads.

Assumed: verbs run to completion (their clients stay connected); resolving a
principal to its devices reads roster and store together; a grant's revocation check
and its append are one step; `should_sever_now` is one read in the two steps that call it
under the registry lock, and so is `effective_state`; the check of the connection's own
identity at its accept is left out, which only adds connections that no session gets
through. `RosterSessionCut` and `RevokedDeviceCut` exclude
sessions during whose reads the roster changed twice: the code's
`roster_before.or(roster_after)` detects one change. An install over a roster that had
gone stale counts as two, because it changes both of the things the gate reads
(section 3).

### Invites: counted bearer secrets

`Invites.tla` models `LiveInvites` and its file. `ram`, `disk` map each secret to its
uses left (0: no entry). `writer` is the holder of `writes` and how far its store is.
`MintInvite`, `RemoveExpired`, `FinishReap`, `Mint`, `FinishMint` are `mint_invite`;
`Hello`, `RedeemUnknown`, `TryRedeem`, `FinishExpired`, `FinishRedeem` are
`try_redeem` and its caller; `StoreEnds` is the file's atomic rename or its failure;
`Crash`, `Restart`, `Expire` are the world. `granted` and `inDoubt` are history.

Assumed: a store lands whole or not at all (no power-loss model of the directory);
secrets are unguessable, so only handed-out ones are presented; the nickname checks
before `try_redeem` and the accept gate's `count()` are left out, which only adds
behaviours. `Spec` keeps minting clients connected; `DisconnectSpec` adds
`ClientGone` and `OrphanEnds`, a mint aborted while its store runs on.

### ServiceRegistry: what is offered, and to whom

`ServiceRegistry.tla` models the `[services]` table (`cfg`), the ephemeral overlay
(`eph`), the live registry (`live`) and the five service verbs of control clients.
`Request` is the control loop; each verb is a Start action (lock taken, in-memory
part done), `EditReads`/`EditWrites`/`EditFails` on the blocking thread, and a Finish
action (reload, sever, answer). An ephemeral registration is two steps of one poll:
`RegisterEphemeral` reads the file and inserts, `FinishEphemeral` reads the file again and
answers, with an error if it cannot be loaded by then. `Close` aborts the request in
flight where it waits and leaves its edit in `orphans`; a request that is being polled at
that moment (`polled`) runs on to its next await, as a task does whose abort was only
requested, so it may still insert, or start an edit, when the connection is gone.
`Teardown` is `unregister_ephemeral`. `FileChanges` is an operator saving a file that
`Config::load` refuses, or mending it. `dirty`, `registered`, `revoked`, `own` and
`leaked` are history; `leaked` holds the names the code leaves behind (section 3).

Assumed: one request at a time per connection; `MaxHeld` bounds how often one
connection registers one name; sessions are admitted in one step (the races of
admission are Admission's); a pairing's grant is the grant verb. The constants
`Aborts` and `Faults` switch hang-ups and file errors on.

### RosterRegister and RosterInstall: one roster, three channels

`RosterRegister.tla` is the abstract specification: a register of documents whose
serial never goes back, though a boot may empty it. `RosterInstall.tla` is the code:
`disk` is `roster.json`, `pin` the pinned root, `gate` the live view, `lock` is
`reload_lock`, `task` each request, gossip handler and the poll loop, `job` the blocking
thread that works for it. `RequestInstall`, `OnAnnounce`, `PollNewer` and `PollEqual`
begin; `Acquire` takes the lock and re-checks the serial where the code does; `JobRead`
and `JobWrite` validate and persist; `WritePin` (or `PinFails`), `Confirm`, `Swap`,
`Reconcile`, `AnnounceSerial`, `AnnounceBytes` follow in the code's order. `OrgJoin`,
`SetRosterUrl` and `RespawnPollLoop` are the other verbs, `Publish` the operator, `Crash`
the end of the process and its boot. `NeverRollsBack` is the refinement
(`INSTANCE RosterRegister WITH current <- gate, floor <- top`), `top` being the highest
serial enforced. `DisconnectSpec` adds a client that goes away while its job runs on.

### OrgAuthor: the operator's side

`key`, `staged`, `disk`, `pin` are the four files; a document is its users, groups,
revoked devices and who signed it. `OrgCreate`, `OrgApprove`, `OrgRevokeDevice`,
`OrgRevokeUser`, `OrgRotate` read, mutate and sign under `org_author_lock`
(`UpsertMember`, `RevokeDevice`, `RemoveUser` are `mutate.rs`); `Promote`, `Persist`,
`Pin` (the explicit root of a create or a rotation, or the successor root the document
brought along: `ToPin`), `Announce` are the publication, `Fail` its undoing. `Disconnect`
stops a verb anywhere and frees its locks, but not the blocking job it was waiting for
(`Running`): a promotion, the check and the write of `install_from_file`, a pin, a
rollback go on in `orphans` and land, if they do, at any later time (`LateCheck`,
`LateWrite`, `LatePromote`, `LatePin`, `LateRestore`). The `gate` of RosterInstall
and its channels are left out: the operator's own node gets its documents from these
verbs. History: `midway`, a rotation ended with key and pin apart and none has
completed since; `strayed`, a job left behind has changed a file; `overrun`, one wrote the
roster although another verb had installed since the job's check. Assumed: the write that
restores the predecessor key succeeds (the code ignores its failure); the check and the
write of a verb that still holds `reload_lock` are one step.

### Pairing: the ceremonies and the verbs on the same rows

`store` maps each node's peers to rows, `allow` its allow lists, `left` the uses of an
offer (Invites shows why a redemption is one step). `pair` is the dialling side:
`Dial` (through `PairGate`, the accept loop's checks), `Hear`, `SaveBack`, `GrantBack`,
`Lost`. `srv` is the other: `PreCheck`, `Burn`, `Check` (the race guard and the revoked
identity), `Save`, `Grant`, `GrantFails`, `Attest`, `Closed`. `op` is an operator's verb:
`PeerRename`, `PeerIntroduce`, `PeerAdd`, `PeerRemove`, `PeerRevoke`, `PeerUnrevoke`, with a
step for each transaction and `OpAborted` for a client that leaves; `Stop` ends a node's
process. A thread that computed a row from a store that was then written is `stale`; a
node where such a thread writes is `raced` and excused: the code has no lock over the
store, and section 3 lists what that costs. So is a node where a verb replaces a row by
one that proves less: `peer_add` over any row, and `peer_introduce` over a row that was
itself introduced, when the second introduction comes without the subject's binding
(`Reintroduced`: `introduce_peer` protects only rows with a `paired_at` stamp,
`handlers.rs` 985-1003, so the `user_id` the first binding proved is dropped). `checked`
is history: a row's name was compared with the others when it was given. A rename by
nickname gives one name to all rows of another, which were together before, so it checks
the name only of a single row or of one person's rows. The several reads of
`introduce_peer`, and the rows one rename writes, are one step.

The module's specification is `PairSpec` and its type invariant `PairTypeOK`, so that one
proof module can extend it together with `Invites`.

### OwnIdentity: what a node signs with

`key` and `sidecar` are the files; `boot`, `imported` and `adopted` the bindings in
memory, and `Presented` is `self_binding`. Every verb takes `user_key_lock`; its file operations are blocking jobs,
which land even when the verb was dropped (`Disconnect`, `JobLands`). `AdoptBegin`/
`AdoptWritten`, `DetachBegin`/`Detached`, `ImportBegin`/`SidecarGone`/`KeyWritten`/
`KeyNotWritten`/`Restored`, `SignBegin`/`Sign`, and the ceremony's `CeremonyAccept`,
`CeremonyGate`, `CeremonyBind`, `CeremonyReply`. `EditKey` and `PlantSidecar` are files changed by hand.
`LoadSidecar` is a boot's reading of the sidecar, which may fail: the node then presents its
own identity and leaves the file where it is. `torn` is history: a job landed without its
verb, a roll-back failed, or a file changed by hand, and no boot since. So is `blind`: the
last boot could not read its key or its sidecar, and no import has brought both back.

### Dial: outbound connections

`slot` is the cache's entry for a device (empty, a dial under way, a live connection),
`conn` each dialled connection, `reg` the hook's registry. A caller goes through `Claim`,
`Check`, then `Reuse`, `Wake` or its own dial: `BeforeConnect` (the veto), `Register`,
`Recheck` (`after_handshake`), `Win`, `DialFails`, `Timeout`. `Revoke`, `RemoteIds`,
`RefusedIds`, `CloseIds` are `peer_revoke`'s write and close pass, step by step, and
`PassDropped` a verb aborted between them. `cut` is history: devices a close pass has
finished with and nobody un-revoked; `barred` those revoked since a caller last looked;
`pardoned` the devices a caller gave up as revoked (`GivenUp`) that were un-revoked while
its dial still raced them.
Pair-protocol dials are exempt from the hooks in the code and left out; the hooks are
taken as armed.

### Telemetry and Control: a control connection and its subscription

`Telemetry.tla` has a peer's row, its writers (probes and path watchers, which draw a
ticket, work, commit and send), the table of open sessions and the two bounded rings;
`Tap`, `Snapshot`, `ForwardReach`, `ForwardAudit` are a subscription. `Control.tla`
extends it with the connection: frames in the order sent, permits, one task per request
(`ReadCall`, `ReadRefused`, `Handled`, `Written`, `Returned`), shutdown, the drain before
an upgrade (`Drained`), `OpenSession` and `Subscribe`, `StreamEnds`, and the abort when
the client leaves. History of the row: `heard`, the time of the last answer of the peer,
whether or not it was committed, and `lost`, that the row does not carry that time.
Assumed: the peer stays in the store; handlers end.

The `MC*.tla` modules define the instances; `*Proofs.tla` hold the theorems.

## 3. The runs

| Run | Instance | Shows | States |
|---|---|---|---|
| `admission_roster` | 1 device, 1 connection, 2 sessions, 3 rosters (with, without, revoking the device) | `RosterCut`, `RosterSessionCut`, `CountsMatch`, `StaleRosterCut` | 1.4 million |
| `admission_allow` | 2 devices of one user, 2 services (one ephemeral), 1 session, all list verbs, unpair and re-pair | `AllowRevokeCut` | 3.2 million |
| `admission_revoke` | 1 device, re-bound between two people, 3 rosters, 1 revoking client | `RevokedDeviceCut` | 1.2 million |
| `invites` | a two-use and a single-use secret, 2 redeemers, crashes, failed writes | `RedeemedAtMost`, `UsesAccounted` | 17,600 |
| `registry_verbs` | 1 name, 1 principal, 2 clients, all verbs, unloadable file and failing edits | `LiveCurrent`, `RevokeTakesEffect`, `NoShadow`, `RegisteredStays` | 60,300 |
| `registry_teardown` | 1 name, 2 clients that hang up anywhere, edits that outlive them | `EphemeralOwned` | 57,300 |
| `roster_install` | 1 verb, 1 gossip handler, the poll loop; 2 documents with a rotation between them, 1 forged; 1 failed write, 1 crash | `NeverRollsBack` (the refinement), `Durable`, `Settled`, `CrashSafe`, `PollNeverCut`, `Converges` | 379,000 |
| `org_author` | 2 clients, 2 names, 2 user keys, 2 devices, 3 roots, serials to 3, 1 failed write, 2 stops, jobs that outlive their verbs | `NeverRefused`, `CanPublish`, `RevocationSticks` | 1.7 million |
| `pairing` | 3 nodes, two of them one person's with one host name; 4 offers of all kinds, 2 dials, 1 verb, 1 stop | `PairedBothWays`, `NoOrphanGrant`, `NamesUnique`, `RevokedNeverPairs`, `NeverWeakened`, `PairTypeOK` | 1.0 million |
| `own_identity` | 3 keys, 2 threads, 2 boots, and 2 things that go wrong: failing file operations (unreadable files among them), at most 1 dropped client | `RestartPresentsTheSame`, `SignsAsPresented`, `KeyIsKept` | 1.1 million |
| `dial` | 2 callers, 2 devices, 1 revocation, undone once, 1 dropped verb, 1 lost connection | `RevokedCut`, `NeverHandedOut`, `OneDialPerDevice`, `Answered` | 678,000 |
| `control` | 2 requests, 1 permit, 2 probes, 1 watcher, 1 session, rings of 2 and 1 | `PermitsReturn`, `UpgradeClean`, `NoFalseOffline`, `PongKept`, `Projects` | 1.5 million |

The bounds hold the smallest instance in which each race exists: two sessions on one
connection (counts above one), a second device carrying the unpaired user, one roster
of each kind, two uses of one invite so that a count can be off by one, two clients so
that one acts while the other waits, two registrations of a name by one connection so
that a failed one can be taken off while the first stays; three roots, so that a rotation
can be made on top of an unfinished one; two devices of one person and one host name, so
that names may and may not be shared; rings small enough to overflow; one permit, so that
a lost one is missed at once. Session slots, connections and clients otherwise do not
interact more than pairwise. `pairing` has one verb and two dials, which is enough for
each race but not for a verb after a verb; its invariants are proved for any number of
both. `control` runs two probes next to one watcher, each of them again and again. Its
constraint `Apart` keeps the second probe at work, and every ticket after the fourth, to
states in which the client has sent nothing: requests and rows meet only in the
subscription, which reads the row and writes nothing a writer reads, so what the constraint
leaves out is a product of two parts that are each covered; the theorems of section 4
have no such bound. `control`, `org_author`, `own_identity`, `invites` and the two registry
runs are run up to the symmetry of interchangeable values (probes; clients, names, keys,
devices, roots; threads; redeemers), which is sound since they check invariants and, in
`own_identity`, a property of single steps, and no definition tells the values apart. Deadlock checking is off where the system may rest: bounds on
faults, dials and requests run out.

Fairness, stated in three modules:

* `Admission`: `StalenessSweep` is weakly fair; the daemon runs it in a task that sleeps
  a minute and sweeps, for ever (`roster_install.rs` 280-293).
* `RosterInstall`: a task that can take its next step does, and a replaced poll loop is
  started again (weak: the executor runs ready tasks). The poll loop's `lock` is strongly
  fair because tokio's mutex is first-come first-served, and its poll of the latest
  document is strongly fair because the loop polls again and again and the host is
  assumed to serve the latest document infinitely often. Gossip is assumed to deliver
  nothing.
* `Dial`: a caller's next step is weakly fair, a failing dial included. No deadline is
  assumed to fire, so `Answered` shows that waiting for another's dial never rests on it.

Every property of a passing run has a mutant in `PROJECT.json`: a plausible bug in
one definition (the operators named `...Mutant`) that TLC refutes with it. The type
invariants of all modules but `Pairing` are proved rather than run; that of `Pairing` is
both.

### Disagreements between code and documents

Where the code does less than a comment or a document says, the model follows the code
and the property names the exception. The stronger statements are kept as definitions:
adding one to the named run's configuration shows the behaviour.

* `UnpairedCut` (`Admission`): `remove_peer` severs and then, without the lock, deletes
  the row. A session starting in between still resolves and is not cut.
* `RevokedPrincipalCut` (`Admission`): a session that resolved as an identity before its
  device was re-bound is admitted as it after that identity's revocation returned.
* `Invites` under `DisconnectSpec`: an aborted mint releases `writes` while its store runs
  on; the old snapshot can land after a redemption, and a restart returns the use.
* `RevokeAckHolds` (`ServiceRegistry`): a revocation that failed between strip and swap is
  acknowledged on retry although the live registry still admits the principal.
* `RosterSessionCut` without its excuse: `endpoint.rs` 379-384 has it that only two changes
  of the roster between the reads make a roster session on an entry that no install severs,
  "two installs, or an install plus a degraded-state flip". One install of a roster without
  the device over an expired one with it is enough: each call to the gate reads first the
  view (`gate.rs` 124) and then its age (129), so the middle one takes the old view's user
  for current while those around it see nobody. The model counts such an install as both
  changes.
* `EphemeralTornDown` (`ServiceRegistry`, with `Faults` or `Aborts`): a registration is "torn down
  whatever happens" (`control.rs` 337). When the file cannot be loaded the second time
  (`handlers.rs` 591), the answer is an error and the name leaves the teardown list, but
  the registration stays. And a request being polled when its connection closes can insert
  after the teardown has run.
* `EphemeralStays` (`ServiceRegistry`, `Aborts = TRUE`): a connection that closes while its
  ephemeral registration waits for the lock tears down the same name registered by
  another connection.
* `RosterInstall` under `DisconnectSpec`: a client that leaves during `roster_install`
  frees `reload_lock` while its job runs on; its document may be persisted over a newer
  one and the next boot enforces the older, against the comment at
  `roster_install.rs` 319-323. Without a disconnect, a pin that cannot be written after
  the persist leaves the gate on the older document until the next serial or a restart.
* `RotationSafe` (`OrgAuthor`): a stop between promoting the successor key and installing
  the document that names it leaves the operator signing with a key its own node
  rejects, though `org_author.rs` 424-426 calls a staged key left behind the worst case.
  So does a failed or interrupted pin of a rotation on top of one interrupted there
  before. A completed rotation repairs both. When only the pin fails, the verb says "the
  rotation was NOT published" although the document is on the disk.
* `NeverStale` and `NeverOverrun` (`OrgAuthor`): the blocking jobs of a verb whose client
  goes away outlive its locks. A promotion that lands then leaves the key at the successor
  and the pin at the predecessor (a second way to break `RotationSafe`); an install that
  lands between another verb's reading and its persist makes the node refuse as stale what
  its operator has just signed; and an install overtaken between its check and its write
  (`roster/mod.rs` 89 and 96) replaces a newer roster, with it a revocation that was
  acknowledged. `daemon.rs` 490-499 says of the lock that with it "the second approval"
  does "simply queue and then succeed at N+2", and that even without it "there is no lost update".
* `RaceGuardCatches` (`Pairing`): two redemptions with one nickname can both pass the
  guard, which reads the store before either row is written
  (`rendezvous.rs` 905-908: "the loser must be caught here"). `attest_to` checks no
  nickname at all.
* `OwnIdentity`: a key minted at boot may be imported over without `replace` although it
  was already presented to peers (`handlers.rs` 2883, `boot.rs` 517,
  `docs/embedding.md` 413); a client that leaves during an import leaves the files and
  the live identity disagreeing until a restart (`torn`). A boot that cannot read the key or
  the sidecar presents another identity than the next one will (`blind`; `boot.rs` 571-576
  logs it).
* `NeverSideBySide` (`Dial`): a race's dial still covers a device the cache has dropped as
  revoked, so after an undone
  revocation two dials to it can run side by side, though `conn_cache.rs` 23 says
  never; a verb aborted between its write and its close pass leaves connections up.
* `NeverFalseOffline` (`Telemetry`): `reach.rs` 301-312 says that a failure does not
  overwrite a pong that arrived inside its window. It does when the row does not carry the
  pong's time: the pong of a superseded probe is merged into the newer row without moving
  `observed` (251-257), or dropped when that row is a failure's; and the pong of a probe
  begun later but answered earlier overwrites a newer one.
* `Telemetry`: a session is broadcast before it is entered in the table, so a
  subscription between the two sees neither (`gap`; the comment at `control.rs` 495-505
  says otherwise); two transitions may be sent out of the order of their commits
  (`swapped`).
* `Control`: a permit comes back only after its response was written, so a client that
  retries "after any response lands" (`protocol.rs` 2944) may be refused again; a
  connection accepted while a wire shutdown aborts the tasks is not aborted;
  `client.rs`'s `request_value` matches no ids, so a client that gives up on one request
  reads its answer as the next one's.

`docs/local-protocol.md` (257-260) says that a closed control connection stops its
requests wherever they are and that "its effects up to that point stand"; the disconnect
cases above are about what comes *after* that point: a write that lands later, and a
teardown of something the connection never made. The same cause also breaks
`RegisteredStays` when `registry_verbs` is run with two names and `Aborts = TRUE`: the
orphaned edit writes back a file read before another registration.

## 4. The proofs

All theorems hold for every value of the constants that satisfies the named ASSUMEs
(finitely many sessions, distinct null values, revoked devices inactive in a view).

`AdmissionProofs`: each result is an induction, one lemma per group of actions.

* `TypeCorrect`, `RosterInstallCuts` need no strengthening: `RegisterChecked` rechecks
  in the step that inserts, so every open connection was compared with a view no
  older than the last sever.
* `CountsExact` adds `ConnFacts` (sessions live on connections that were opened,
  entries start at zero); a step moves one session, so one cardinality changes by one.
* `RosterSessionsCut` adds `SessFacts`: what a session must have read, and how often
  the roster can have changed, at each point of its resolution; `Turned` is its core: an
  identity the first read of the discriminator did not see takes one change, and if it took
  only one, the roster still answers. This is the argument for reading the discriminator
  both before and after.
* `WithdrawnAccessCut`: `admit_session` asks the live list in the step that records the
  principals, and a strip is followed by a sever that reads those records.
* `RevokedDevicesCut` (no `peer_remove` among the verbs) adds `RevokedConnFacts`,
  `RowFacts` and `WillSever`: a session already past its gate read still has its row or
  its roster entry, so a pending revocation will resolve its device.

`PairingProofs`, the invites: the invariant `Inv` adds to the properties who holds the lock
(`LockFacts`), that clocks read are past (`ClockFacts`), that the file is the map now or
before the unfinished write (`DiskFacts`), that unminted secrets are unused
(`FreshFacts`), that neither map nor file holds more than is left (`LeftFacts`), and the
ledger while the daemon is down (`DownAccounted`). `InvitesTyped`, `NeverOverIssued`,
`NoUseLost` and `FileIsCurrent` follow.

`PairingProofs`, the ceremonies: `FullInv` has three parts beside the types. `ShapeInv` says
what each thread's record holds at each place (a dialling node that waits has a handler
with the same offer; only an ordinary redemption checks, saves and grants; a row for a
node carries the identity that node can prove or none). `FreshInv` says what a thread that
is not stale may rely on: the redeemer's name is still free until it saves and its row is
there until it grants (`PairFresh`); the inviter's merged row still fits the store before
the save and is the store's after it (`SrvFresh`); a rename's rows differ from the store's
in the name only, an introduction replaces no row a ceremony proved, a removal's principals
are off the allow list and nobody is owed an admission by the rows about to go (`OpFresh`).
`NodeInv` says, of a node that is not raced, that every grant has a row, checked names are
unique, every peer that was answered "paired", *or is about to be* (`Promised`), is
admitted, and every node that answered its own client holds the other's row. The
promise is what makes it inductive: the answer is given in steps on both nodes, and a
removal in between must cancel it. One frame argument (`StepKeeps`, `PutKeeps`) serves every
action: a step leaves a node's store, grants and promises alone, or marks every other
thread of that node stale. `PairTypeCorrect`, `PairedBothWaysHolds`, `NoOrphanGrantHolds`,
`NamesUniqueHolds`, `RevokedNeverPairsHolds` follow, and `NeverWeakenedHolds`, an action
property, from what `FullInv` says of the row each writer is about to write. They hold for any
number of nodes, offers, ceremonies, verbs and crashes. Assumed of the constants beside
their types: the null values are none of the values, and no endpoint is a user id.

`ServiceRegistryProofs` has four inductions. `OwnInv` needs no assumption about clients:
`OwnFacts` says that an open connection's teardown list has one entry for each name it
registered and one more for a registration still waiting, which is why taking one off
after a failure never uncovers a live registration, and that every ephemeral name but the
leaked ones has an owner that is open or about to tear it down. `RegistryTyped` and
`EphemeralNeverLeaks` follow. `NamesInv`, under `~Aborts`, adds that whoever edits holds
the lock and the file is still as it was read (`LockFacts`), and what the request under
way has checked (`EditFacts`); `NeverShadowed` and `RegistrationsStay` follow. The
assumption is needed: an edit that outlives its request breaks both. `LiveFacts`, over
`LockHeld` (a request holds the lock exactly while its edit is under way), says that the
live registry is what the file and the overlay make of it but for what the request that
holds the lock still has to swap in (`Behind`); `RegistryCurrent` is `LiveCurrent` with
hang-ups and orphaned edits included. `RevokeFacts`, again under `~Aborts`, says that a
revoked entry is in none of the file, the overlay and the live registry (`Barred`), and
from which of them a revocation under way has taken it so far; `RevocationsHold` follows.

`RosterInstallProofs`: `IInv` adds to the types who holds the lock at which place
(`LockInv`), what a task and its job agree on (`JobInv`), which root vouches for the
document under way (`RootInv`), that a validated document is newer than everything
enforced until it is swapped in (`SerialInv`), that the gate has the highest serial ever
(`GateInv`), and who is about to repair a gate that differs from the disk (`SettleInv`).
`Refinement` maps every step to a step of RosterRegister or a stutter: `Swap` adopts,
`Crash` drops or restores, and restoring is never older because what was enforced was
persisted first. `DurableHolds`, `SettledHolds`, `CrashSafeHolds`, `PollNeverCutHolds`
follow. Assumed of the constants: documents have positive serials, and a feed is a
sequence of them; clients stay connected.

`OrgAuthorProofs`: `HoldInv` says that `reload_lock` is held exactly from the persist to the
answer, `BaseInv` that a document waiting to be persisted is the first or was made, under
`org_author_lock`, from the one on the disk or one a late job has since replaced by a
document no newer, `CutInv` that what was or will be confirmed is on the disk, and `LateInv`
that a job left behind carries at most the next serial and, if that is newer than the
disk's, every confirmed revocation. So the serial a late job compares when it runs is enough
to keep it from undoing one, unless it is overtaken between the check and the write
(`overrun`). `TypeCorrect` and `RevocationSticksHolds` follow. `KInv`, for a node no late
job has changed, adds what a verb under way knows of the keys at each place
(`RoleInv`, `RotateFacts`, `CreateFacts`, `AmendFacts`), that outside the two excused
rotations the pinned root accepts the roster on the disk signed with any key in use
(`SettledInv`), and that the disk and every document waiting pass the rules of `build_view`
and are newer than what they replace (`ViewInv`, from lemmas that each mutation of
`mutate.rs` keeps those rules). `CanPublishHolds` and `NeverRefusedHolds` follow.

`OwnIdentityProofs`: `AtInv` says what holds at each place of a verb, `SyncInv` that
outside a verb files and memory agree unless `torn`, but for what a boot could not read
(`blind`), `JobInv` that only a torn node has jobs without a verb, and `OwnInv` that an owned key is there and not boot-minted.
`RestartPresentsTheSameHolds`, `SignsAsPresentedHolds` and `KeyIsKeptHolds` follow.

`DialProofs`: `LeadInv` and `LiveInv` tie slots to the callers behind them, `OwnInv`
connections to the call that dialled them, `RegInv` to the hook's registry, `PassInv` each
place of the close pass to what it has read, `BarInv` a caller to the revocations since its
claim; `RevokedCutHolds` is the
argument that a connection registered too late for the pass is seen by `Recheck`.
`NeverHandedOutHolds` follows, for any callers and devices. `OneDialPerDeviceHolds` adds
`GiveInv`: a lead holds the slots of all the candidates it has not given up, and one it has
given up is still revoked, so that `before_connect` refuses it, unless it was pardoned.

`ControlProofs` has four inductions: `RowInv` (rows, tickets, the last answer heard and what
each writer knows at its place) gives `NoFalseOfflineHolds` and `PongKeptHolds` for any number of writers;
`ConnInv` (permits, tasks and what each request's place implies) gives
`PermitsReturnHolds` and `UpgradeCleanHolds`; the types of the tables complete
`TypeCorrect`; and `ListenInv` says that the last message in the ring, or else what was
forwarded, agrees with the row unless a writer has yet to send (`WriterInv`), and that a
session whose entry and message differ is one whose message is still in the ring, or was
sent before the tap (`RecordInv`, `KnownInv`). `ProjectsHolds` follows for any depth of the
rings.

Only model-checked: the liveness properties `StaleRosterCut`, `Converges` and `Answered`,
which rest on fairness and are out of the prover's reach. Every safety property a run
checks is also a theorem.

## 5. Not modelled, and the plan

Left out for good: cryptography (`trust/src/keys.rs`, `binding.rs`, `sas.rs` as
algorithms), the command line, release tooling, local discovery, rendering and parsing,
the data types of `local-api/src/protocol.rs`.

Left out so far: blob scopes and fetches (`node/src/blobs`), backends and child processes,
limits (token buckets and session slots), the audit file and its rotation, framing,
presence gossip, own-network reports (`self_net.rs`), session resumption (`resume.rs`),
dial hints, signed device revocations (`device_revocation_import`, which also checks and
writes in separate transactions), relay and status verbs, and most of start-up.

The definitions map to about a ninth of the 75,000 lines. The rest of the source
files is largely tests inside the modules, documentation comments, data types, rendering
and the parts above; the control paths of the components marked modelled are covered.

In order:

1. `Limits` and `Backend`: slots and strikes, child life cycle, a session's last frames.
2. `BlobScopes`: grants, scope changes and fetches under way.
3. The audit file's rotation and queue; framing; session resumption; device revocations.
