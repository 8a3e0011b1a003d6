---------------------------- MODULE RosterInstall ----------------------------
(***************************************************************************)
(* How one node converges on its organisation's roster.  Three channels    *)
(* deliver signed documents: the control verb roster_install, the gossip   *)
(* announce and the URL poll.  Each takes reload_lock, has the document    *)
(* validated and persisted on a blocking thread, moves the trust anchor    *)
(* when the document says so, and only then swaps the live gate.  Verbs    *)
(* may be cut off by their client, the daemon may crash between any two    *)
(* steps, config writes may fail, and hosts and gossip peers may serve     *)
(* stale, repeated or unsigned documents under any claimed serial.         *)
(*                                                                         *)
(* Left out: clocks (expiry and staleness are in Admission), what a        *)
(* document says about people (OrgAuthor) and the connections an install   *)
(* severs (Admission).                                                     *)
(***************************************************************************)
EXTENDS Integers, Sequences, FiniteSets

CONSTANTS Clients,   \* control requests that may be in flight
          Handlers,  \* gossip announce handlers (one per fetch permit)
          Poller,    \* the URL poll loop
          Roots,     \* org root keys
          NoRoot,    \* no key: nothing pinned, or no valid signature
          Feed,      \* what the operator publishes, in order
          Forged,    \* documents no root signed
          NoDoc,     \* no roster
          None,      \* the lock is free
          MaxFaults, \* bound on failed config writes
          MaxCrashes \* bound on crashes

Tasks == Clients \cup Handlers \cup {Poller}
Signed == {Feed[i] : i \in DOMAIN Feed}
Docs == Signed \cup Forged
MaybeRoot == Roots \cup {NoRoot}

(* A document: its serial, the root whose signature verifies, the rotation *)
(* bridge it carries (cross-signed by which root, naming which successor)  *)
(* and whether it lists this node's device.                                *)
DocType == [serial : Nat, signer : MaybeRoot, cross : MaybeRoot,
            succ : MaybeRoot, lists : BOOLEAN]

ASSUME DocAssumption ==
    /\ NoRoot \notin Roots
    /\ Feed \in Seq(DocType) /\ Feed # << >>
    /\ Docs \subseteq DocType
    /\ NoDoc \notin DocType
    /\ \A d \in Docs : d.serial > 0
    /\ \A d \in Forged : d.signer = NoRoot

ASSUME BoundAssumption == MaxFaults \in Nat /\ MaxCrashes \in Nat

ASSUME TaskAssumption ==
    /\ None \notin Tasks
    /\ Clients \cap Handlers = {}
    /\ Poller \notin Clients \cup Handlers

VARIABLES
    published, \* how many documents of Feed exist so far
    disk,      \* roster.json
    gate,      \* the view the RosterGate enforces
    pin,       \* [identity] org_root_pk in the config
    uid,       \* [identity] user_id: where its value came from
    confirmed, \* serial of the document that last confirmed currency
    url,       \* [roster] url is set in the config
    polling,   \* a poll loop runs
    transport, \* booted in roster mode: gossip is subscribed
    lock,      \* reload_lock: its holder
    task,      \* each task's place in its handler
    job,       \* the blocking install each task spawned
    announced, \* the last announce: claimed serial, document serial
    top,       \* history: the highest serial the gate ever enforced
    faults,    \* config writes failed so far
    crashes    \* crashes so far

vars == <<published, disk, gate, pin, uid, confirmed, url, polling, transport,
          lock, task, job, announced, top, faults, crashes>>

Serial(d) == IF d = NoDoc THEN 0 ELSE d.serial

Highest(n, d) == IF Serial(d) > n THEN Serial(d) ELSE n

IdleTask == [pc |-> "idle", doc |-> NoDoc, claim |-> 0, root |-> NoRoot]
NoJob == [st |-> "none", doc |-> NoDoc, root |-> NoRoot]

Bridges(r, d) ==
    /\ d.cross = r
    /\ d.succ # NoRoot
    /\ d.signer = d.succ

(* resolve_verifier: the pinned root signed it, or vouches for who did.    *)
Trusts(r, d) == r # NoRoot /\ (d.signer = r \/ Bridges(r, d))

(* The successor a validated document moves the anchor to.                 *)
Adopted(r, d) == IF d.signer = r THEN NoRoot ELSE d.succ

(* Mutant: the serial is not looked at.                                    *)
ValidatesMutant(d, r, installed) == Trusts(r, d)

(* validate_for_install: the signature and the strictly rising serial.     *)
Validates(d, r, installed) == Trusts(r, d) /\ d.serial > installed

Available == {Feed[i] : i \in 1..published} \cup Forged

Init ==
    /\ published = 1
    /\ disk = NoDoc
    /\ gate = NoDoc
    /\ pin \in MaybeRoot
    /\ transport = (pin # NoRoot)
    /\ url = FALSE
    /\ uid = "none"
    /\ confirmed = 0
    /\ polling = FALSE
    /\ lock = None
    /\ task = [t \in Tasks |-> IdleTask]
    /\ job = [t \in Tasks |-> NoJob]
    /\ announced = <<0, 0>>
    /\ top = 0
    /\ faults = 0
    /\ crashes = 0

-----------------------------------------------------------------------------
(* The operator publishes its next document (elsewhere).                   *)
Publish ==
    /\ published < Len(Feed)
    /\ published' = published + 1
    /\ UNCHANGED <<disk, gate, pin, uid, confirmed, url, polling, transport,
                   lock, task, job, announced, top, faults, crashes>>

Begin(t, pc, d, s, r) ==
    /\ task[t] = IdleTask
    /\ job[t] = NoJob
    /\ task' = [task EXCEPT ![t] = [pc |-> pc, doc |-> d, claim |-> s, root |-> r]]

(* roster_install: a local file, with or without an explicit root.         *)
RequestInstall(c, d, r) ==
    /\ Begin(c, "want", d, 0, r)
    /\ UNCHANGED <<published, disk, gate, pin, uid, confirmed, url, polling,
                   transport, lock, job, announced, top, faults, crashes>>

(* on_announce: the claimed serial is unsigned; only a newer one is        *)
(* fetched.  A refused provider, a timeout or a failed fetch drops it.     *)
OnAnnounce(h, d, s) ==
    /\ transport
    /\ s > Serial(gate)
    /\ Begin(h, "want", d, s, NoRoot)
    /\ UNCHANGED <<published, disk, gate, pin, uid, confirmed, url, polling,
                   transport, lock, job, announced, top, faults, crashes>>

(* poll_roster_url_once: a newer body goes to the install; an equal one    *)
(* confirms currency, but only when the pinned root signed it.             *)
PollNewer(d) ==
    /\ polling
    /\ d.serial > Serial(gate)
    /\ Begin(Poller, "want", d, d.serial, NoRoot)
    /\ UNCHANGED <<published, disk, gate, pin, uid, confirmed, url, polling,
                   transport, lock, job, announced, top, faults, crashes>>

PollEqual(d) ==
    /\ polling
    /\ task[Poller] = IdleTask
    /\ d.serial = Serial(gate)
    /\ pin # NoRoot /\ d.signer = pin
    /\ confirmed' = d.serial
    /\ UNCHANGED <<published, disk, gate, pin, uid, url, polling, transport,
                   lock, task, job, announced, top, faults, crashes>>

-----------------------------------------------------------------------------
(* Mutant: the document itself says which root to verify against.          *)
AnchorMutant(t) == IF task[t].root # NoRoot THEN task[t].root ELSE task[t].doc.signer

(* Taking reload_lock.  The automatic channels look at the gate again      *)
(* under the lock; every channel needs a root to verify against.           *)
Anchor(t) == IF task[t].root # NoRoot THEN task[t].root ELSE pin

Superseded(t) == t \notin Clients /\ task[t].claim <= Serial(gate)

Acquire(t) ==
    /\ task[t].pc = "want"
    /\ lock = None
    /\ IF Superseded(t) \/ Anchor(t) = NoRoot
       THEN /\ task' = [task EXCEPT ![t] = IdleTask]
            /\ UNCHANGED <<lock, job>>
       ELSE /\ lock' = t
            /\ task' = [task EXCEPT ![t].pc = "install"]
            /\ job' = [job EXCEPT ![t] =
                         [st |-> "read", doc |-> task[t].doc, root |-> Anchor(t)]]
    /\ UNCHANGED <<published, disk, gate, pin, uid, confirmed, url, polling,
                   transport, announced, top, faults, crashes>>

(* install_from_file, on a blocking thread: the installed serial is read   *)
(* from the disk and the document validated, then it is written.  The      *)
(* thread runs on when its task is cut off.                                *)
JobRead(t) ==
    /\ job[t].st = "read"
    /\ job' = [job EXCEPT ![t].st =
                 IF Validates(job[t].doc, job[t].root, Serial(disk))
                 THEN "write" ELSE "failed"]
    /\ UNCHANGED <<published, disk, gate, pin, uid, confirmed, url, polling,
                   transport, lock, task, announced, top, faults, crashes>>

(* Mutant: the document is not persisted.                                  *)
JobWriteMutant(t) ==
    /\ job[t].st = "write"
    /\ job' = [job EXCEPT ![t].st = "done"]
    /\ UNCHANGED <<published, disk, gate, pin, uid, confirmed, url, polling,
                   transport, lock, task, announced, top, faults, crashes>>

JobWrite(t) ==
    /\ job[t].st = "write"
    /\ disk' = job[t].doc
    /\ job' = [job EXCEPT ![t].st = "done"]
    /\ UNCHANGED <<published, gate, pin, uid, confirmed, url, polling,
                   transport, lock, task, announced, top, faults, crashes>>

Leave(t) ==
    /\ lock' = None
    /\ task' = [task EXCEPT ![t] = IdleTask]
    /\ job' = [job EXCEPT ![t] = NoJob]

(* The root written to the config: an adopted successor wins over the      *)
(* caller's explicit root.                                                 *)
NewPin(t) ==
    LET a == Adopted(job[t].root, job[t].doc)
    IN  IF a # NoRoot THEN a ELSE task[t].root

(* Mutant: a document that moves no root is persisted and not enforced.    *)
InstalledMutant(t) ==
    /\ task[t].pc = "install"
    /\ \/ /\ \/ job[t].st = "failed"
             \/ job[t].st = "done" /\ NewPin(t) = NoRoot
          /\ Leave(t)
       \/ /\ job[t].st = "done" /\ NewPin(t) # NoRoot
          /\ task' = [task EXCEPT ![t].pc = "pin"]
          /\ UNCHANGED <<lock, job>>
    /\ UNCHANGED <<published, disk, gate, pin, uid, confirmed, url, polling,
                   transport, announced, top, faults, crashes>>

Installed(t) ==
    /\ task[t].pc = "install"
    /\ \/ /\ job[t].st = "failed"
          /\ Leave(t)
       \/ /\ job[t].st = "done"
          /\ task' = [task EXCEPT ![t].pc =
                        IF NewPin(t) # NoRoot THEN "pin" ELSE "confirm"]
          /\ UNCHANGED <<lock, job>>
    /\ UNCHANGED <<published, disk, gate, pin, uid, confirmed, url, polling,
                   transport, announced, top, faults, crashes>>

(* write_identity_pin: on failure the handler returns, the document        *)
(* already persisted.                                                      *)
WritePin(t) ==
    /\ task[t].pc = "pin"
    /\ pin' = NewPin(t)
    /\ task' = [task EXCEPT ![t].pc = "confirm"]
    /\ UNCHANGED <<published, disk, gate, uid, confirmed, url, polling,
                   transport, lock, job, announced, top, faults, crashes>>

PinFails(t) ==
    /\ task[t].pc = "pin"
    /\ faults < MaxFaults
    /\ faults' = faults + 1
    /\ Leave(t)
    /\ UNCHANGED <<published, disk, gate, pin, uid, confirmed, url, polling,
                   transport, announced, top, crashes>>

(* confirm_roster_current, then (after the sidecar write) the swap.        *)
Confirm(t) ==
    /\ task[t].pc = "confirm"
    /\ confirmed' = task[t].doc.serial
    /\ task' = [task EXCEPT ![t].pc = "swap"]
    /\ UNCHANGED <<published, disk, gate, pin, uid, url, polling, transport,
                   lock, job, announced, top, faults, crashes>>

(* install_roster_view_and_sever.                                          *)
Swap(t) ==
    /\ task[t].pc = "swap"
    /\ gate' = task[t].doc
    /\ top' = Highest(top, task[t].doc)
    /\ task' = [task EXCEPT ![t].pc = "reconcile"]
    /\ UNCHANGED <<published, disk, pin, uid, confirmed, url, polling,
                   transport, lock, job, announced, faults, crashes>>

(* reconcile_user_id_from_roster: a failed write is only logged.  The      *)
(* automatic channels release the lock here; the verb still holds it while *)
(* it announces.                                                           *)
Reconcile(t) ==
    /\ task[t].pc = "reconcile"
    /\ \/ /\ uid' = IF gate.lists THEN "assigned" ELSE uid
          /\ UNCHANGED faults
       \/ /\ gate.lists /\ uid # "assigned"
          /\ faults < MaxFaults
          /\ faults' = faults + 1
          /\ UNCHANGED uid
    /\ lock' = IF t \in Clients THEN lock ELSE None
    /\ task' = [task EXCEPT ![t].pc = "announce"]
    /\ job' = [job EXCEPT ![t] = NoJob]
    /\ UNCHANGED <<published, disk, gate, pin, confirmed, url, polling,
                   transport, announced, top, crashes>>

(* announce_roster: the serial is the gate's, the bytes are read from the  *)
(* disk a step later.                                                      *)
AnnounceSerial(t) ==
    /\ task[t].pc = "announce"
    /\ task' = [task EXCEPT ![t].pc = "seed", ![t].claim = Serial(gate)]
    /\ UNCHANGED <<published, disk, gate, pin, uid, confirmed, url, polling,
                   transport, lock, job, announced, top, faults, crashes>>

(* Mutant: the announce leaves reload_lock held.                           *)
AnnounceBytesMutant(t) ==
    /\ task[t].pc = "seed"
    /\ announced' = <<task[t].claim, Serial(disk)>>
    /\ task' = [task EXCEPT ![t] = IdleTask]
    /\ UNCHANGED <<published, disk, gate, pin, uid, confirmed, url, polling,
                   transport, lock, job, top, faults, crashes>>

AnnounceBytes(t) ==
    /\ task[t].pc = "seed"
    /\ announced' = <<task[t].claim, Serial(disk)>>
    /\ task' = [task EXCEPT ![t] = IdleTask]
    /\ lock' = IF lock = t THEN None ELSE lock
    /\ UNCHANGED <<published, disk, gate, pin, uid, confirmed, url, polling,
                   transport, job, top, faults, crashes>>

-----------------------------------------------------------------------------
(* org_join: pins a root and proposes a user id.                           *)
OrgJoin(c, r) ==
    /\ task[c] = IdleTask
    /\ lock = None
    /\ pin' = r
    /\ uid' = IF gate = NoDoc THEN "proposed" ELSE "rejoined"
    /\ UNCHANGED <<published, disk, gate, confirmed, url, polling,
                   transport, lock, task, job, announced, top, faults,
                   crashes>>

(* Mutant: the poll loop is replaced without reload_lock.                  *)
SetRosterUrlMutant(c) ==
    /\ Begin(c, "url", NoDoc, 0, NoRoot)
    /\ url' = TRUE
    /\ UNCHANGED <<published, disk, gate, pin, uid, confirmed, polling,
                   transport, lock, job, announced, top, faults, crashes>>

(* set_roster_url: under the lock, the config write and then               *)
(* respawn_poll_loop, which aborts the loop that is running.               *)
SetRosterUrl(c) ==
    /\ lock = None
    /\ Begin(c, "url", NoDoc, 0, NoRoot)
    /\ lock' = c
    /\ url' = TRUE
    /\ UNCHANGED <<published, disk, gate, pin, uid, confirmed, polling,
                   transport, job, announced, top, faults, crashes>>

RespawnPollLoop(c) ==
    /\ task[c].pc = "url"
    /\ polling' = (polling \/ pin # NoRoot)
    /\ task' = [task EXCEPT ![c] = IdleTask,
                            ![Poller] = IF pin # NoRoot THEN IdleTask ELSE @]
    /\ lock' = None
    /\ UNCHANGED <<published, disk, gate, pin, uid, confirmed, url,
                   transport, job, announced, top, faults, crashes>>

-----------------------------------------------------------------------------
(* A crash at any point; serve_forever then loads what the pinned root     *)
(* vouches for (load_installed does not look at the serial) and restarts   *)
(* the poll loop.                                                          *)
Crash ==
    /\ crashes < MaxCrashes
    /\ crashes' = crashes + 1
    /\ gate' = IF disk # NoDoc /\ Trusts(pin, disk) THEN disk ELSE NoDoc
    /\ polling' = (url /\ pin # NoRoot)
    /\ transport' = (pin # NoRoot)
    /\ top' = Highest(top, gate')
    /\ lock' = None
    /\ task' = [t \in Tasks |-> IdleTask]
    /\ job' = [t \in Tasks |-> NoJob]
    /\ UNCHANGED <<published, disk, pin, uid, confirmed, url, announced, faults>>

(* The client closes its control connection: the handler stops at its      *)
(* await and its lock is released, but the blocking thread runs on.        *)
Disconnect(c) ==
    /\ task[c].pc # "idle"
    /\ task' = [task EXCEPT ![c] = IdleTask]
    /\ lock' = IF lock = c THEN None ELSE lock
    /\ pin' \in IF task[c].pc = "pin" THEN {pin, NewPin(c)} ELSE {pin}
    /\ job' = [job EXCEPT ![c] = IF job[c].st \in {"read", "write"} THEN @ ELSE NoJob]
    /\ UNCHANGED <<published, disk, gate, uid, confirmed, url, polling,
                   transport, announced, top, faults, crashes>>

(* The detached blocking thread ends; nobody is waiting for it.            *)
JobEnds(c) ==
    /\ task[c] = IdleTask
    /\ job[c].st \in {"failed", "done"}
    /\ job' = [job EXCEPT ![c] = NoJob]
    /\ UNCHANGED <<published, disk, gate, pin, uid, confirmed, url, polling,
                   transport, lock, task, announced, top, faults, crashes>>

-----------------------------------------------------------------------------
Steps(t) ==
    \/ Acquire(t) \/ JobRead(t) \/ JobWrite(t) \/ Installed(t)
    \/ WritePin(t) \/ PinFails(t) \/ Confirm(t) \/ Swap(t) \/ Reconcile(t)
    \/ AnnounceSerial(t) \/ AnnounceBytes(t)

Next ==
    \/ Publish
    \/ \E c \in Clients, d \in Available, r \in MaybeRoot : RequestInstall(c, d, r)
    \/ \E h \in Handlers, d \in Available, e \in Docs : OnAnnounce(h, d, e.serial)
    \/ \E d \in Available : PollNewer(d) \/ PollEqual(d)
    \/ \E t \in Tasks : Steps(t)
    \/ \E c \in Clients, r \in Roots : OrgJoin(c, r)
    \/ \E c \in Clients : SetRosterUrl(c) \/ RespawnPollLoop(c)
    \/ Crash

(* Clients that stay connected until their verb is answered.               *)
Spec == Init /\ [][Next]_vars

Latest == Feed[Len(Feed)]

(* Blocking threads end, tasks are polled, reload_lock is granted in the   *)
(* order it was asked for, and a poll now and then finds the host serving  *)
(* the latest document.                                                    *)
Progress(t) ==
    JobRead(t) \/ JobWrite(t) \/ Installed(t) \/ WritePin(t) \/ Confirm(t)
        \/ Swap(t) \/ Reconcile(t) \/ AnnounceSerial(t) \/ AnnounceBytes(t)

Fairness ==
    /\ \A t \in Tasks : WF_vars(Progress(t))
    /\ \A c \in Clients : WF_vars(RespawnPollLoop(c))
    /\ SF_vars(Acquire(Poller))
    /\ SF_vars(published = Len(Feed) /\ PollNewer(Latest))

LiveSpec == Spec /\ Fairness

(* Clients that may go away at any await of a verb.                        *)
DisconnectSpec ==
    Init /\ [][Next \/ \E c \in Clients : Disconnect(c) \/ JobEnds(c)]_vars

-----------------------------------------------------------------------------
TaskPc == {"idle", "want", "install", "pin", "confirm", "swap", "reconcile",
           "announce", "seed", "url"}
MaybeDoc == Docs \cup {NoDoc}
TaskType == [pc : TaskPc, doc : MaybeDoc, claim : Nat, root : MaybeRoot]
JobSt == {"none", "read", "write", "failed", "done"}
JobType == [st : JobSt, doc : MaybeDoc, root : MaybeRoot]

(* Every variable keeps its type.                                          *)
TypeOK ==
    /\ published \in 1..Len(Feed)
    /\ disk \in MaybeDoc /\ gate \in MaybeDoc
    /\ pin \in MaybeRoot
    /\ uid \in {"none", "proposed", "rejoined", "assigned"}
    /\ confirmed \in Nat /\ top \in Nat
    /\ faults \in 0..MaxFaults /\ crashes \in 0..MaxCrashes
    /\ url \in BOOLEAN /\ polling \in BOOLEAN /\ transport \in BOOLEAN
    /\ lock \in Tasks \cup {None}
    /\ task \in [Tasks -> TaskType]
    /\ job \in [Tasks -> JobType]
    /\ announced \in Nat \X Nat

(* The node implements the register: whatever the channels race, the       *)
(* serial it enforces never goes back, across crashes too.                 *)
Register == INSTANCE RosterRegister WITH current <- gate, floor <- top
NeverRollsBack == Register!Spec

(* What the gate enforces was persisted first: a restart cannot forget a   *)
(* revocation that took effect, no announce promises a serial its document *)
(* does not have, and currency is only confirmed for what is held.         *)
Durable ==
    /\ Serial(disk) >= top
    /\ announced[1] <= announced[2]
    /\ confirmed <= Serial(disk)

(* Between installs the gate enforces the document on the disk, unless a   *)
(* boot refused it, and (a boot does not reconcile) a document that lists  *)
(* this device has replaced the user id the join proposed.                 *)
Settled ==
    lock = None /\ faults = 0 =>
        /\ gate \in {disk, NoDoc}
        /\ crashes = 0 /\ gate # NoDoc /\ gate.lists => uid \in {"assigned", "rejoined"}

(* At every await of an automatic install the pinned root vouches for the  *)
(* document on the disk, so a crash there does not empty the gate.         *)
CrashSafe ==
    \A t \in Handlers \cup {Poller} :
        task[t].pc \in {"pin", "confirm", "swap", "reconcile"} => Trusts(pin, disk)

(* Replacing the poll loop never cuts an install it is in the middle of.   *)
PollNeverCut ==
    job[Poller].st # "none" =>
        task[Poller].pc \in {"install", "pin", "confirm", "swap", "reconcile"}

(* Once the operator has stopped publishing, a node whose poll loop runs   *)
(* and whose pinned root vouches for the latest document enforces it,      *)
(* unless a config write failed under it, a boot refused what it had or    *)
(* set_roster_url keeps replacing the loop.                                *)
CanConverge ==
    /\ published = Len(Feed)
    /\ polling
    /\ Trusts(pin, Latest)
    /\ faults = 0
    /\ gate = NoDoc => disk = NoDoc
    /\ \A c \in Clients : task[c].pc # "url"
Converges == <>[]CanConverge => <>[](gate = Latest)
=============================================================================
