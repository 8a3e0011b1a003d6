------------------------------ MODULE OrgAuthor ------------------------------
(***************************************************************************)
(* The operator's side of roster mode: org_create, org_approve, org_revoke *)
(* and org_rotate each read the installed roster, change it, sign it with  *)
(* the key in org-root.key and hand it to this node's own roster install,  *)
(* which validates it, persists it, moves the pinned root and announces it.*)
(* Authoring is serialised by org_author_lock; config writes and persists  *)
(* may fail, and the daemon or the verb's client may go away between any   *)
(* two steps.  A verb whose client went away leaves its blocking job, if   *)
(* it was waiting for one, to finish on its own, holding no lock.          *)
(*                                                                         *)
(* Left out: clocks, the join code's own signature (a forged code is       *)
(* refused before anything is read) and display names.                     *)
(***************************************************************************)
EXTENDS Integers, FiniteSets

CONSTANTS Clients,   \* control requests that may be in flight
          Names,     \* the flat namespace of user ids and groups
          Keys,      \* user keys
          Devices,   \* device endpoints
          Roots,     \* root keys org_create and org_rotate may generate
          NoRoot, NoUser, NoDoc, None,
          MaxSerial, \* bound on authored documents
          MaxFaults, \* bound on failed writes
          MaxStops   \* bound on crashes and disconnects

ASSUME ConstAssumption ==
    /\ NoRoot \notin Roots
    /\ None \notin Clients
    /\ MaxSerial \in Nat /\ MaxFaults \in Nat /\ MaxStops \in Nat

MaybeRoot == Roots \cup {NoRoot}
User == [pk : Keys, groups : SUBSET Names, devs : SUBSET Devices]
Doc == [serial : Nat, groups : SUBSET Names, users : [Names -> User \cup {NoUser}],
        revoked : SUBSET Devices, signer : MaybeRoot, cross : MaybeRoot,
        succ : MaybeRoot]

ASSUME DocAssumption == NoUser \notin User /\ NoDoc \notin Doc

VARIABLES
    key,       \* org-root.key
    staged,    \* org_root_next.key
    disk,      \* roster.json
    pin,       \* [identity] org_root_pk
    author,    \* org_author_lock: its holder
    lock,      \* reload_lock: its holder
    task,      \* each request's place in its verb
    acked,     \* history: devices whose revocation a client was told of
    used,      \* root keys generated so far
    faults, stops,
    midway,    \* history: a rotation that left key and pin apart, none since
    orphans,   \* blocking jobs still running whose verb was stopped
    strayed,   \* history: one of them changed a file
    overrun    \* history: one replaced a roster it had not checked against

late == <<orphans, strayed, overrun>>

vars == <<key, staged, disk, pin, author, lock, task, acked, used, faults,
          stops, midway, late>>

(* root is the trust anchor a verb passes explicitly, to the one its       *)
(* install will pin.                                                       *)
IdleTask == [pc |-> "idle", doc |-> NoDoc, root |-> NoRoot, prior |-> NoRoot,
             cut |-> {}, to |-> NoRoot]

-----------------------------------------------------------------------------
(* Documents and their mutations.                                          *)
Listed(d) == {u \in Names : d.users[u] # NoUser}

EmptyRoster(r) ==
    [serial |-> 1, groups |-> {}, users |-> [u \in Names |-> NoUser],
     revoked |-> {}, signer |-> r, cross |-> NoRoot, succ |-> NoRoot]

(* Mutant: a group named like a listed user is let through.                *)
UpsertRefusedMutant(d, u, gs, dev) ==
    \/ u \in d.groups \cup gs
    \/ \E v \in Listed(d) \ {u} : dev \in d.users[v].devs
    \/ dev \in d.revoked

(* upsert_member: what it refuses, before anything is signed.              *)
UpsertRefused(d, u, gs, dev) ==
    \/ u \in d.groups \cup gs
    \/ \E g \in gs \ {u} : g \in Listed(d)
    \/ \E v \in Listed(d) \ {u} : dev \in d.users[v].devs
    \/ dev \in d.revoked

UpsertMember(d, u, k, gs, dev) ==
    LET old == d.users[u]
        new == IF u \in Listed(d) /\ old.pk = k
               THEN [pk |-> k, groups |-> old.groups \cup gs, devs |-> old.devs \cup {dev}]
               ELSE [pk |-> k, groups |-> gs, devs |-> {dev}]
    IN  [d EXCEPT !.serial = @ + 1, !.groups = @ \cup gs, !.users[u] = new]

RevokeDevice(d, u, dev) ==
    [d EXCEPT !.serial = @ + 1, !.users[u].devs = @ \ {dev}, !.revoked = @ \cup {dev}]

(* remove_user: departing revokes the devices, a key rotation does not.    *)
RemoveUser(d, u, departing) ==
    [d EXCEPT !.serial = @ + 1, !.users[u] = NoUser,
              !.revoked = @ \cup IF departing THEN d.users[u].devs ELSE {}]

(* build_view: the rules an installed document must satisfy.               *)
BuildsView(d) ==
    /\ \A u \in Listed(d) : u \notin d.groups /\ d.users[u].groups \subseteq d.groups
    /\ \A u, v \in Listed(d) :
         u # v => d.users[u].devs \cap d.users[v].devs \subseteq d.revoked

Resolves(d, dev) ==
    dev \notin d.revoked /\ \E u \in Listed(d) : dev \in d.users[u].devs

(* resolve_verifier and the serial rule of validate_for_install.           *)
Trusts(r, d) ==
    r # NoRoot /\ (d.signer = r \/ (d.cross = r /\ d.succ # NoRoot /\ d.signer = d.succ))

Serial(d) == IF d = NoDoc THEN 0 ELSE d.serial

(* Mutant: the installed serial is not compared.                           *)
AcceptsMutant(r, d) == Trusts(r, d) /\ BuildsView(d)

Accepts(r, d) == Trusts(r, d) /\ d.serial > Serial(disk) /\ BuildsView(d)

-----------------------------------------------------------------------------
Init ==
    /\ key = NoRoot /\ staged = NoRoot
    /\ disk = NoDoc /\ pin = NoRoot
    /\ author = None /\ lock = None
    /\ task = [c \in Clients |-> IdleTask]
    /\ acked = {} /\ used = {}
    /\ faults = 0 /\ stops = 0
    /\ midway = FALSE
    /\ orphans = {} /\ strayed = FALSE /\ overrun = FALSE

(* A verb hands its signed document to install_authored: r is the explicit *)
(* root it passes, if any.                                                 *)
Submit(c, d, r, cut) ==
    task' = [task EXCEPT ![c] = [pc |-> "persist", doc |-> d, root |-> r,
                                 prior |-> NoRoot, cut |-> cut, to |-> NoRoot]]

(* org_create: one time per node; the key is minted before the roster is.  *)
OrgCreate(c, r) ==
    /\ task[c] = IdleTask
    /\ key = NoRoot
    /\ r \notin used
    /\ key' = r
    /\ used' = used \cup {r}
    /\ Submit(c, EmptyRoster(r), r, {})
    /\ UNCHANGED <<staged, disk, pin, author, lock, acked, faults, stops, midway, late>>

(* load_operator_roster, under org_author_lock: no key or no roster is an  *)
(* error.                                                                  *)
Authoring(c) ==
    /\ task[c] = IdleTask
    /\ author = None
    /\ key # NoRoot /\ disk # NoDoc
    /\ disk.serial < MaxSerial

OrgApprove(c, u, k, gs, dev) ==
    /\ Authoring(c)
    /\ ~UpsertRefused(disk, u, gs, dev)
    /\ author' = c
    /\ Submit(c, [UpsertMember(disk, u, k, gs, dev) EXCEPT !.signer = key], NoRoot, {})
    /\ UNCHANGED <<key, staged, disk, pin, lock, acked, used, faults, stops, midway, late>>

OrgRevokeDevice(c, u, dev) ==
    /\ Authoring(c)
    /\ u \in Listed(disk) /\ dev \in disk.users[u].devs
    /\ author' = c
    /\ Submit(c, [RevokeDevice(disk, u, dev) EXCEPT !.signer = key], NoRoot, {dev})
    /\ UNCHANGED <<key, staged, disk, pin, lock, acked, used, faults, stops, midway, late>>

OrgRevokeUser(c, u, departing) ==
    /\ Authoring(c)
    /\ u \in Listed(disk)
    /\ author' = c
    /\ Submit(c, [RemoveUser(disk, u, departing) EXCEPT !.signer = key], NoRoot,
              IF departing THEN disk.users[u].devs ELSE {})
    /\ UNCHANGED <<key, staged, disk, pin, lock, acked, used, faults, stops, midway, late>>

(* org_rotate: the successor is generated or was staged; the document is   *)
(* cross-signed by the current key and signed by the successor.            *)
OrgRotate(c, r) ==
    /\ Authoring(c)
    /\ IF staged # NoRoot THEN r = staged ELSE r \notin used
    /\ r # key
    /\ author' = c
    /\ staged' = r
    /\ used' = used \cup {r}
    /\ task' = [task EXCEPT ![c] =
                  [pc |-> "promote",
                   doc |-> [disk EXCEPT !.serial = @ + 1, !.cross = key, !.succ = r,
                                        !.signer = r],
                   root |-> r, prior |-> key, cut |-> {}, to |-> NoRoot]]
    /\ UNCHANGED <<key, disk, pin, lock, acked, faults, stops, midway, late>>

(* The staged key becomes org-root.key before anything is published; what  *)
(* was there is kept for the rollback.                                     *)
Promote(c) ==
    /\ task[c].pc = "promote"
    /\ staged # NoRoot
    /\ key' = staged
    /\ staged' = NoRoot
    /\ task' = [task EXCEPT ![c].pc = "persist", ![c].prior = key]
    /\ UNCHANGED <<disk, pin, author, lock, acked, used, faults, stops, midway, late>>

-----------------------------------------------------------------------------
(* install_roster, as RosterInstall has it, under reload_lock.             *)
Anchor(c) == IF task[c].root # NoRoot THEN task[c].root ELSE pin

Release(c) ==
    /\ author' = IF author = c THEN None ELSE author
    /\ lock' = IF lock = c THEN None ELSE lock

(* The root an install pins: the successor it adopted, if the document was *)
(* verified through the bridge, else the one the verb passed.              *)
ToPin(c) ==
    IF task[c].doc.signer = Anchor(c) THEN task[c].root ELSE task[c].doc.succ

(* Mutant: a failed rotation leaves the successor in org-root.key.         *)
FailMutant(c) ==
    /\ key' = key
    /\ task' = [task EXCEPT ![c] = IdleTask]
    /\ Release(c)

(* The verb fails.  A rotation whose promotion went through first puts the *)
(* predecessor back.                                                       *)
Fail(c) ==
    /\ key' = IF task[c].prior # NoRoot /\ task[c].pc # "promote"
              THEN task[c].prior ELSE key
    /\ task' = [task EXCEPT ![c] = IdleTask]
    /\ Release(c)

(* A job left behind has renamed the staged key away.                      *)
PromoteRefused(c) ==
    /\ task[c].pc = "promote"
    /\ staged = NoRoot
    /\ Fail(c)
    /\ UNCHANGED <<staged, disk, pin, acked, used, faults, stops, midway, late>>

(* Check and write are one step: reload_lock keeps the other verbs out, and *)
(* what a job left behind writes between the two is overwritten.            *)
Persist(c) ==
    /\ task[c].pc = "persist"
    /\ lock = None
    /\ Accepts(Anchor(c), task[c].doc)
    /\ lock' = c
    /\ disk' = task[c].doc
    /\ task' = [task EXCEPT ![c].pc = "pin", ![c].to = ToPin(c)]
    /\ UNCHANGED <<key, staged, pin, author, acked, used, faults, stops, midway, late>>

PersistRefused(c) ==
    /\ task[c].pc = "persist"
    /\ lock = None
    /\ ~Accepts(Anchor(c), task[c].doc)
    /\ Fail(c)
    /\ UNCHANGED <<staged, disk, pin, acked, used, faults, stops, midway, late>>

(* A rotation at its pin that was not made from the pinned root: an earlier *)
(* one was stopped between its persist and its pin.                         *)
OnUnpinned(c) == task[c].pc = "pin" /\ task[c].prior # NoRoot /\ pin \notin {task[c].prior, NoRoot}

(* A write fails: of roster.json, of the pinned root, or of the promotion. *)
WriteFails(c) ==
    /\ \/ task[c].pc \in {"promote", "persist"}
       \/ task[c].pc = "pin" /\ task[c].to # NoRoot
    /\ faults < MaxFaults
    /\ faults' = faults + 1
    /\ midway' = (midway \/ OnUnpinned(c))
    /\ Fail(c)
    /\ UNCHANGED <<staged, disk, pin, acked, used, stops, late>>

Pin(c) ==
    /\ task[c].pc = "pin"
    /\ pin' = IF task[c].to # NoRoot THEN task[c].to ELSE pin
    /\ task' = [task EXCEPT ![c].pc = "announce"]
    /\ midway' = (midway /\ task[c].prior = NoRoot)
    /\ UNCHANGED <<key, staged, disk, author, lock, acked, used, faults, stops, late>>

(* The gate is swapped, the document on the disk announced and the client  *)
(* answered.                                                               *)
Announce(c) ==
    /\ task[c].pc = "announce"
    /\ acked' = acked \cup task[c].cut
    /\ task' = [task EXCEPT ![c] = IdleTask]
    /\ Release(c)
    /\ UNCHANGED <<key, staged, disk, pin, used, faults, stops, midway, late>>

-----------------------------------------------------------------------------
(* Where a stop leaves the operator signing with a key its node rejects:   *)
(* between the promotion of the successor and the install of the document  *)
(* that names it, and at the pin of a rotation made on an unpinned one.    *)
Midway(c) == (task[c].pc = "persist" /\ task[c].prior # NoRoot) \/ OnUnpinned(c)

(* The daemon stops; the files survive.                                    *)
Crash ==
    /\ stops < MaxStops
    /\ stops' = stops + 1
    /\ midway' = (midway \/ \E c \in Clients : Midway(c))
    /\ task' = [c \in Clients |-> IdleTask]
    /\ author' = None /\ lock' = None
    /\ orphans' = {}
    /\ UNCHANGED <<key, staged, disk, pin, acked, used, faults, strayed, overrun>>

Job(do, doc, root) == [do |-> do, doc |-> doc, root |-> root, over |-> NoDoc]

(* The blocking jobs a verb may be waiting for where it is: the promotion, *)
(* the install of a roster file already read, the pin, and, for a rotation *)
(* whose publication failed, the rollback.                                 *)
Running(c) ==
    LET t == task[c]
        rotated == t.prior # NoRoot
    IN  {j \in {Job("promote", NoDoc, NoRoot), Job("check", t.doc, Anchor(c)),
                Job("pin", NoDoc, t.to), Job("restore", NoDoc, t.prior)} :
           \/ j.do = "promote" /\ t.pc = "promote"
           \/ j.do = "check" /\ t.pc = "persist" /\ lock = None
           \/ j.do = "pin" /\ t.pc = "pin" /\ t.to # NoRoot
           \/ j.do = "restore" /\ t.pc \in {"persist", "pin"} /\ rotated}

(* The client goes away: the verb stops where it is and its locks are      *)
(* free.  A blocking job it waits for is not stopped.                      *)
Disconnect(c) ==
    /\ task[c] # IdleTask
    /\ stops < MaxStops
    /\ stops' = stops + 1
    /\ midway' = (midway \/ Midway(c))
    /\ \/ orphans' = orphans
       \/ \E j \in Running(c) : orphans' = orphans \cup {j}
    /\ task' = [task EXCEPT ![c] = IdleTask]
    /\ Release(c)
    /\ UNCHANGED <<key, staged, disk, pin, acked, used, faults, strayed, overrun>>

-----------------------------------------------------------------------------
(* The jobs left behind.  One that fails, or is never run, changes nothing. *)
LateCheck(j) ==
    /\ j.do = "check"
    /\ Accepts(j.root, j.doc)
    /\ orphans' = (orphans \ {j}) \cup {[j EXCEPT !.do = "write", !.over = disk]}
    /\ UNCHANGED <<key, staged, disk, pin, author, lock, task, acked, used, faults,
                   stops, midway, strayed, overrun>>

Land(j) ==
    /\ orphans' = orphans \ {j}
    /\ strayed' = TRUE
    /\ UNCHANGED <<author, lock, task, acked, used, faults, stops, midway>>

LateWrite(j) ==
    /\ j.do = "write"
    /\ disk' = j.doc
    /\ overrun' = (overrun \/ disk # j.over)
    /\ Land(j)
    /\ UNCHANGED <<key, staged, pin>>

LatePin(j) ==
    /\ j.do = "pin"
    /\ pin' = j.root
    /\ Land(j)
    /\ UNCHANGED <<key, staged, disk, overrun>>

LatePromote(j) ==
    /\ j.do = "promote"
    /\ staged # NoRoot
    /\ key' = staged
    /\ staged' = NoRoot
    /\ Land(j)
    /\ UNCHANGED <<disk, pin, overrun>>

LateRestore(j) ==
    /\ j.do = "restore"
    /\ key' = j.root
    /\ Land(j)
    /\ UNCHANGED <<staged, disk, pin, overrun>>

Next ==
    \/ \E c \in Clients, r \in Roots : OrgCreate(c, r) \/ OrgRotate(c, r)
    \/ \E c \in Clients, u \in Names, k \in Keys, gs \in SUBSET Names, dev \in Devices :
          OrgApprove(c, u, k, gs, dev)
    \/ \E c \in Clients, u \in Names, dev \in Devices : OrgRevokeDevice(c, u, dev)
    \/ \E c \in Clients, u \in Names, b \in BOOLEAN : OrgRevokeUser(c, u, b)
    \/ \E c \in Clients :
          \/ Promote(c) \/ Persist(c) \/ PersistRefused(c) \/ WriteFails(c)
          \/ PromoteRefused(c) \/ Pin(c) \/ Announce(c) \/ Disconnect(c)
    \/ \E j \in orphans :
          LateCheck(j) \/ LateWrite(j) \/ LatePin(j) \/ LatePromote(j) \/ LateRestore(j)
    \/ Crash

Spec == Init /\ [][Next]_vars

-----------------------------------------------------------------------------
TaskPc == {"idle", "promote", "persist", "pin", "announce"}

Jobs == [do : {"promote", "check", "write", "pin", "restore"},
         doc : Doc \cup {NoDoc}, root : MaybeRoot, over : Doc \cup {NoDoc}]

(* Every variable keeps its type.                                          *)
TypeOK ==
    /\ key \in MaybeRoot /\ staged \in MaybeRoot /\ pin \in MaybeRoot
    /\ disk \in Doc \cup {NoDoc}
    /\ author \in Clients \cup {None} /\ lock \in Clients \cup {None}
    /\ task \in [Clients -> [pc : TaskPc, doc : Doc \cup {NoDoc}, root : MaybeRoot,
                             prior : MaybeRoot, cut : SUBSET Devices, to : MaybeRoot]]
    /\ acked \subseteq Devices
    /\ used \subseteq Roots
    /\ faults \in 0..MaxFaults /\ stops \in 0..MaxStops
    /\ midway \in BOOLEAN
    /\ orphans \subseteq Jobs
    /\ strayed \in BOOLEAN /\ overrun \in BOOLEAN

(* What the operator signs, its own node accepts: the mutations check a    *)
(* complete pre-image of the validation rules, and the serial and the      *)
(* signing key fit, unless a rotation left key and pin apart or a job of a *)
(* verb whose client went away landed later.  (Without a pinned root,      *)
(* org_create having failed, every verb reports so.)                       *)
NeverRefused ==
    \A c \in Clients :
        task[c].pc = "persist" /\ lock = None /\ ~midway /\ ~strayed /\ Anchor(c) # NoRoot
            => Accepts(Anchor(c), task[c].doc)

(* The org can go on publishing: outside a verb, a document signed with    *)
(* the key this node holds would be accepted, so no failure leaves it      *)
(* pinned to one root and signing with another.  Excused, until a rotation *)
(* completes: one stopped before its document was installed, and one that  *)
(* failed or was stopped at its pin on top of another that was; and for    *)
(* good, a job of a verb whose client went away that landed later.         *)
CanPublish ==
    author = None /\ disk # NoDoc /\ pin # NoRoot /\ ~midway /\ ~strayed
        => Trusts(pin, [disk EXCEPT !.signer = key])

(* A revocation the operator was told of is in every later document, and   *)
(* the device never resolves again: no verb overwrites it with a roster it *)
(* read before, and no install job that outlives its verb does, the serial *)
(* being compared when the job runs.  Excused is the one case the code     *)
(* loses: between the check and the write of such a job another verb, the  *)
(* lock being free, installs a roster of its own.                          *)
RevocationSticks ==
    \A dev \in acked : overrun \/ (dev \in disk.revoked /\ ~Resolves(disk, dev))

(* The three without their exemptions for rotations and late jobs, which   *)
(* the code does not keep: what org_rotate's comment says of a rotation    *)
(* that does not complete, and what the locks are there for.               *)
RotationSafe ==
    author = None /\ disk # NoDoc /\ pin # NoRoot
        => Trusts(pin, [disk EXCEPT !.signer = key])

NeverStale ==
    \A c \in Clients :
        task[c].pc = "persist" /\ lock = None /\ ~midway /\ Anchor(c) # NoRoot
            => Accepts(Anchor(c), task[c].doc)

NeverOverrun == ~overrun
=============================================================================
