--------------------------- MODULE OrgAuthorProofs ---------------------------
(* Proofs about OrgAuthor, for any clients, names, keys, devices and roots   *)
(* and any number of failed writes, crashes and disconnects.                 *)
EXTENDS OrgAuthor, TLAPS

MaybeDoc == Doc \cup {NoDoc}

TaskType == [pc : TaskPc, doc : MaybeDoc, root : MaybeRoot, prior : MaybeRoot,
             cut : SUBSET Devices, to : MaybeRoot]

(* A job left behind that carries a document.                                *)
Carries(j) == j.do \in {"check", "write"}

(* What a request carries is what its place in the verb says: it holds       *)
(* reload_lock from the persist to the answer.                               *)
HoldInv ==
    /\ \A c \in Clients :
          /\ lock = c <=> task[c].pc \in {"pin", "announce"}
          /\ task[c].pc \in {"promote", "persist"} => task[c].doc \in Doc
          /\ task[c].pc \in {"pin", "announce"} => disk # NoDoc
    /\ \A j \in orphans : Carries(j) => j.doc \in Doc

(* A document that waits to be persisted is org_create's, the first one, or  *)
(* was made under org_author_lock from the one on the disk: it keeps every   *)
(* answered revocation and adds those the client will be told of, and no     *)
(* job left behind carries a newer one.                                      *)
MadeFrom(c) ==
    \/ task[c].doc.serial = 1 /\ task[c].cut = {}
    \/ /\ author = c
       /\ disk # NoDoc
       /\ acked \cup task[c].cut \subseteq task[c].doc.revoked
       /\ disk.serial <= task[c].doc.serial /\ task[c].doc.serial <= disk.serial + 1
       /\ \A j \in orphans : Carries(j) => j.doc.serial <= task[c].doc.serial

BaseInv ==
    \A c \in Clients : task[c].pc \in {"promote", "persist"} => MadeFrom(c)

(* A revocation that was answered or is about to be is on the disk, and what *)
(* the disk has no job left behind would replace.                            *)
CutInv ==
    /\ disk # NoDoc => disk.serial > 0 /\ acked \subseteq disk.revoked
    /\ disk = NoDoc => acked = {}
    /\ \A c \in Clients : task[c].pc \in {"pin", "announce"} =>
          /\ task[c].cut \subseteq disk.revoked
          /\ \/ task[c].cut = {}
             \/ /\ author = c
                /\ \A j \in orphans : Carries(j) => j.doc.serial <= disk.serial

(* A job left behind carries a document made from the disk or from an older  *)
(* one; if it is newer than the disk, it has every answered revocation.      *)
LateInv ==
    \A j \in orphans : Carries(j) =>
        /\ j.doc.serial <= Serial(disk) + 1
        /\ j.doc.serial > Serial(disk) => acked \subseteq j.doc.revoked
        /\ j.do = "write" => j.doc.serial > Serial(j.over)

RecordInv == BaseInv /\ CutInv /\ LateInv

IInv == TypeOK /\ HoldInv /\ (overrun \/ RecordInv)

-----------------------------------------------------------------------------
(* A task given to one request changes no other's.                           *)
LEMMA SetTask ==
  ASSUME TypeOK, NEW c \in Clients, NEW t \in TaskType,
         task' = [task EXCEPT ![c] = t]
  PROVE  /\ task' \in [Clients -> TaskType]
         /\ task'[c] = t
         /\ \A o \in Clients : o # c => task'[o] = task[o]
  BY DEF TypeOK, TaskType, MaybeDoc

LEMMA IdleTyped == IdleTask \in TaskType /\ IdleTask.pc = "idle"
  BY DEF IdleTask, TaskType, TaskPc, MaybeDoc, MaybeRoot

(* The documents the verbs make are documents, keep every revocation and     *)
(* have the next serial.                                                     *)
LEMMA EmptyTyped ==
  ASSUME NEW r \in Roots
  PROVE  EmptyRoster(r) \in Doc /\ EmptyRoster(r).serial = 1
  BY DEF EmptyRoster, Doc, MaybeRoot

LEMMA SerialTyped ==
  ASSUME NEW d \in Doc,
         NEW n, n = [d EXCEPT !.serial = @ + 1]
  PROVE  /\ n \in Doc /\ n.serial = d.serial + 1
         /\ n.revoked = d.revoked /\ n.users = d.users /\ n.groups = d.groups
         /\ n.cross = d.cross /\ n.succ = d.succ
  <1>1. d.serial + 1 \in Nat
    BY DEF Doc
  <1> QED
    BY <1>1 DEF Doc

(* The signatures a verb puts on the document it made.                       *)
Signed(d, r) == [d EXCEPT !.signer = r]
CrossSigned(d, k, r) == [d EXCEPT !.serial = @ + 1, !.cross = k, !.succ = r, !.signer = r]

LEMMA SignedTyped ==
  ASSUME NEW d \in Doc, NEW r \in MaybeRoot
  PROVE  /\ Signed(d, r) \in Doc
         /\ Signed(d, r).serial = d.serial /\ Signed(d, r).signer = r
         /\ Signed(d, r).revoked = d.revoked /\ Signed(d, r).users = d.users
         /\ Signed(d, r).groups = d.groups
         /\ Signed(d, r).cross = d.cross /\ Signed(d, r).succ = d.succ
  <1> DEFINE n == Signed(d, r)
  <1>1. n = [d EXCEPT !.signer = r]
    BY DEF Signed
  <1> HIDE DEF n
  <1>2. /\ n \in Doc /\ n.serial = d.serial /\ n.signer = r
        /\ n.revoked = d.revoked /\ n.users = d.users /\ n.groups = d.groups
        /\ n.cross = d.cross /\ n.succ = d.succ
    BY <1>1 DEF Doc
  <1> QED
    BY <1>2 DEF n

LEMMA GroupsTyped ==
  ASSUME NEW d \in Doc, NEW gs \in SUBSET Names,
         NEW n, n = [d EXCEPT !.groups = @ \cup gs]
  PROVE  /\ n \in Doc /\ n.serial = d.serial /\ n.groups = d.groups \cup gs
         /\ n.revoked = d.revoked /\ n.users = d.users
         /\ n.cross = d.cross /\ n.succ = d.succ
  BY DEF Doc

LEMMA UsersTyped ==
  ASSUME NEW d \in Doc, NEW us \in [Names -> User \cup {NoUser}],
         NEW n, n = [d EXCEPT !.users = us]
  PROVE  /\ n \in Doc /\ n.serial = d.serial /\ n.users = us
         /\ n.revoked = d.revoked /\ n.groups = d.groups
         /\ n.cross = d.cross /\ n.succ = d.succ
  BY DEF Doc

LEMMA RevokedTyped ==
  ASSUME NEW d \in Doc, NEW v \in SUBSET Devices,
         NEW n, n = [d EXCEPT !.revoked = @ \cup v]
  PROVE  /\ n \in Doc /\ n.serial = d.serial /\ n.revoked = d.revoked \cup v
         /\ n.users = d.users /\ n.groups = d.groups
         /\ n.cross = d.cross /\ n.succ = d.succ
  BY DEF Doc

(* Changing one user's entry.                                                *)
LEMMA EntryTyped ==
  ASSUME NEW d \in Doc, NEW u \in Names, NEW e \in User \cup {NoUser}
  PROVE  [d.users EXCEPT ![u] = e] \in [Names -> User \cup {NoUser}]
  BY DEF Doc

(* What upsert_member does to a document, seen from outside.                 *)
Upserted(d, n, u, gs, dev) ==
    /\ n.groups = d.groups \cup gs
    /\ \A v \in Names \ {u} : n.users[v] = d.users[v]
    /\ u \in Listed(d) => /\ n.users[u].groups \subseteq d.users[u].groups \cup gs
                          /\ n.users[u].devs \subseteq d.users[u].devs \cup {dev}
    /\ u \notin Listed(d) => n.users[u].groups \subseteq gs /\ n.users[u].devs \subseteq {dev}

LEMMA UpsertTyped ==
  ASSUME NEW d \in Doc, NEW u \in Names, NEW k \in Keys, NEW gs \in SUBSET Names,
         NEW dev \in Devices, NEW r \in MaybeRoot,
         NEW n, n = Signed(UpsertMember(d, u, k, gs, dev), r)
  PROVE  /\ n \in Doc /\ n.revoked = d.revoked /\ n.serial = d.serial + 1
         /\ n.signer = r /\ n.cross = d.cross /\ n.succ = d.succ
         /\ Upserted(d, n, u, gs, dev)
  <1> DEFINE new == IF u \in Listed(d) /\ d.users[u].pk = k
                    THEN [pk |-> k, groups |-> d.users[u].groups \cup gs,
                          devs |-> d.users[u].devs \cup {dev}]
                    ELSE [pk |-> k, groups |-> gs, devs |-> {dev}]
             a == [d EXCEPT !.serial = @ + 1]
             b == [a EXCEPT !.groups = @ \cup gs]
             us == [d.users EXCEPT ![u] = new]
             m == [b EXCEPT !.users = us]
  <1>1. new \in User
    <2>1. CASE u \in Listed(d) /\ d.users[u].pk = k
      <3>1. d.users[u] \in User
        BY <2>1 DEF Listed, Doc
      <3> QED
        BY <2>1, <3>1 DEF User
    <2>2. CASE ~(u \in Listed(d) /\ d.users[u].pk = k)
      BY <2>2 DEF User
    <2> QED
      BY <2>1, <2>2
  <1>n. /\ u \in Listed(d) => /\ new.groups \subseteq d.users[u].groups \cup gs
                               /\ new.devs \subseteq d.users[u].devs \cup {dev}
        /\ u \notin Listed(d) => new.groups \subseteq gs /\ new.devs \subseteq {dev}
    OBVIOUS
  <1>2. UpsertMember(d, u, k, gs, dev)
          = [d EXCEPT !.serial = @ + 1, !.groups = @ \cup gs, !.users[u] = new]
    BY DEF UpsertMember
  <1> HIDE DEF new
  <1>3. n = Signed(m, r)
    BY <1>2
  <1>u. us \in [Names -> User \cup {NoUser}]
    BY <1>1, EntryTyped
  <1>a. a = [d EXCEPT !.serial = @ + 1]
    OBVIOUS
  <1>b. b = [a EXCEPT !.groups = @ \cup gs]
    OBVIOUS
  <1>m. m = [b EXCEPT !.users = us]
    OBVIOUS
  <1>s. /\ \A v \in Names \ {u} : us[v] = d.users[v]
        /\ us[u] = new
    BY DEF Doc
  <1> HIDE DEF a, b, m, us
  <1>4. /\ a \in Doc /\ a.serial = d.serial + 1 /\ a.revoked = d.revoked
        /\ a.groups = d.groups /\ a.cross = d.cross /\ a.succ = d.succ
    BY <1>a, SerialTyped
  <1>5. /\ b \in Doc /\ b.serial = d.serial + 1 /\ b.revoked = d.revoked
        /\ b.groups = d.groups \cup gs /\ b.cross = d.cross /\ b.succ = d.succ
    BY <1>4, <1>b, GroupsTyped
  <1>6. /\ m \in Doc /\ m.serial = d.serial + 1 /\ m.revoked = d.revoked
        /\ m.groups = d.groups \cup gs /\ m.cross = d.cross /\ m.succ = d.succ
        /\ m.users = us
    BY <1>5, <1>m, <1>u, UsersTyped
  <1>7. /\ n \in Doc /\ n.serial = d.serial + 1 /\ n.revoked = d.revoked
        /\ n.groups = d.groups \cup gs /\ n.cross = d.cross /\ n.succ = d.succ
        /\ n.users = us /\ n.signer = r
    BY <1>3, <1>6, SignedTyped
  <1> QED
    BY <1>7, <1>n, <1>s DEF Upserted

LEMMA RevokeTyped ==
  ASSUME NEW d \in Doc, NEW u \in Listed(d), NEW dev \in Devices, NEW r \in MaybeRoot,
         NEW n, n = Signed(RevokeDevice(d, u, dev), r)
  PROVE  /\ n \in Doc /\ n.serial = d.serial + 1
         /\ n.revoked = d.revoked \cup {dev} /\ n.groups = d.groups
         /\ n.signer = r /\ n.cross = d.cross /\ n.succ = d.succ
         /\ \A v \in Names \ {u} : n.users[v] = d.users[v]
         /\ n.users[u].groups = d.users[u].groups /\ n.users[u].devs \subseteq d.users[u].devs
  <1> DEFINE new == [d.users[u] EXCEPT !.devs = @ \ {dev}]
             a == [d EXCEPT !.serial = @ + 1]
             us == [d.users EXCEPT ![u] = new]
             b == [a EXCEPT !.users = us]
             cut == {dev}
             m == [b EXCEPT !.revoked = @ \cup cut]
  <1>1. u \in Names /\ d.users[u] \in User
    BY DEF Listed, Doc
  <1>2. new \in User
    BY <1>1 DEF User
  <1>n. new.groups = d.users[u].groups /\ new.devs \subseteq d.users[u].devs
    BY <1>1 DEF User
  <1>3. n = Signed(m, r)
    BY <1>1 DEF RevokeDevice, Doc
  <1> HIDE DEF new
  <1>u. us \in [Names -> User \cup {NoUser}]
    BY <1>1, <1>2, EntryTyped
  <1>a. a = [d EXCEPT !.serial = @ + 1]
    OBVIOUS
  <1>b. b = [a EXCEPT !.users = us]
    OBVIOUS
  <1>m. m = [b EXCEPT !.revoked = @ \cup cut]
    OBVIOUS
  <1>c. cut \in SUBSET Devices /\ cut = {dev}
    OBVIOUS
  <1>s. /\ \A v \in Names \ {u} : us[v] = d.users[v]
        /\ us[u] = new
    BY <1>1 DEF Doc
  <1> HIDE DEF a, b, m, us, cut
  <1>4. /\ a \in Doc /\ a.serial = d.serial + 1 /\ a.revoked = d.revoked
        /\ a.groups = d.groups /\ a.cross = d.cross /\ a.succ = d.succ
    BY <1>a, SerialTyped
  <1>5. /\ b \in Doc /\ b.serial = d.serial + 1 /\ b.revoked = d.revoked
        /\ b.groups = d.groups /\ b.cross = d.cross /\ b.succ = d.succ
        /\ b.users = us
    BY <1>4, <1>b, <1>u, UsersTyped
  <1>6. /\ m \in Doc /\ m.serial = d.serial + 1 /\ m.revoked = d.revoked \cup cut
        /\ m.groups = d.groups /\ m.cross = d.cross /\ m.succ = d.succ
        /\ m.users = us
    BY <1>5, <1>c, <1>m, RevokedTyped
  <1>7. /\ n \in Doc /\ n.serial = d.serial + 1 /\ n.revoked = d.revoked \cup cut
        /\ n.groups = d.groups /\ n.cross = d.cross /\ n.succ = d.succ
        /\ n.users = us /\ n.signer = r
    BY <1>3, <1>6, SignedTyped
  <1> QED
    BY <1>7, <1>c, <1>n, <1>s

LEMMA RemoveTyped ==
  ASSUME NEW d \in Doc, NEW u \in Listed(d), NEW b \in BOOLEAN, NEW r \in MaybeRoot,
         NEW n, n = Signed(RemoveUser(d, u, b), r)
  PROVE  LET cut == IF b THEN d.users[u].devs ELSE {}
         IN  /\ n \in Doc /\ n.serial = d.serial + 1
             /\ cut \subseteq Devices
             /\ n.revoked = d.revoked \cup cut /\ n.groups = d.groups
             /\ n.signer = r /\ n.cross = d.cross /\ n.succ = d.succ
             /\ \A v \in Names \ {u} : n.users[v] = d.users[v]
             /\ n.users[u] = NoUser
  <1> DEFINE cut == IF b THEN d.users[u].devs ELSE {}
             a == [d EXCEPT !.serial = @ + 1]
             us == [d.users EXCEPT ![u] = NoUser]
             e == [a EXCEPT !.users = us]
             m == [e EXCEPT !.revoked = @ \cup cut]
  <1>1. u \in Names /\ d.users[u] \in User
    BY DEF Listed, Doc
  <1>2. cut \in SUBSET Devices
    BY <1>1 DEF User
  <1>3. n = Signed(m, r)
    BY DEF RemoveUser
  <1> HIDE DEF cut
  <1>u. us \in [Names -> User \cup {NoUser}]
    BY <1>1, EntryTyped
  <1>a. a = [d EXCEPT !.serial = @ + 1]
    OBVIOUS
  <1>e. e = [a EXCEPT !.users = us]
    OBVIOUS
  <1>m. m = [e EXCEPT !.revoked = @ \cup cut]
    OBVIOUS
  <1>s. /\ \A v \in Names \ {u} : us[v] = d.users[v]
        /\ us[u] = NoUser
    BY <1>1 DEF Doc
  <1> HIDE DEF a, e, m, us
  <1>4. /\ a \in Doc /\ a.serial = d.serial + 1 /\ a.revoked = d.revoked
        /\ a.groups = d.groups /\ a.cross = d.cross /\ a.succ = d.succ
    BY <1>a, SerialTyped
  <1>5. /\ e \in Doc /\ e.serial = d.serial + 1 /\ e.revoked = d.revoked
        /\ e.groups = d.groups /\ e.cross = d.cross /\ e.succ = d.succ
        /\ e.users = us
    BY <1>4, <1>e, <1>u, UsersTyped
  <1>6. /\ m \in Doc /\ m.serial = d.serial + 1 /\ m.revoked = d.revoked \cup cut
        /\ m.groups = d.groups /\ m.cross = d.cross /\ m.succ = d.succ
        /\ m.users = us
    BY <1>2, <1>5, <1>m, RevokedTyped
  <1>7. /\ n \in Doc /\ n.serial = d.serial + 1 /\ n.revoked = d.revoked \cup cut
        /\ n.groups = d.groups /\ n.cross = d.cross /\ n.succ = d.succ
        /\ n.users = us /\ n.signer = r
    BY <1>3, <1>6, SignedTyped
  <1> QED
    BY <1>2, <1>7, <1>s DEF cut

LEMMA RotateTyped ==
  ASSUME NEW d \in Doc, NEW k \in MaybeRoot, NEW r \in MaybeRoot,
         NEW n, n = CrossSigned(d, k, r)
  PROVE  /\ n \in Doc /\ n.serial = d.serial + 1 /\ n.revoked = d.revoked
         /\ n.groups = d.groups /\ n.users = d.users
         /\ n.signer = r /\ n.cross = k /\ n.succ = r
  <1> DEFINE a == [d EXCEPT !.serial = @ + 1]
  <1>1. n = [a EXCEPT !.cross = k, !.succ = r, !.signer = r]
    BY DEF CrossSigned
  <1>2. a = [d EXCEPT !.serial = @ + 1]
    OBVIOUS
  <1> HIDE DEF a
  <1>3. /\ a \in Doc /\ a.serial = d.serial + 1 /\ a.revoked = d.revoked
        /\ a.groups = d.groups /\ a.users = d.users
    BY <1>2, SerialTyped
  <1> QED
    BY <1>1, <1>3 DEF Doc

-----------------------------------------------------------------------------
(* The types of what only the jobs left behind change.                       *)
LateTyped == orphans \subseteq Jobs /\ strayed \in BOOLEAN /\ overrun \in BOOLEAN

LEMMA SameLate == ASSUME TypeOK, UNCHANGED late PROVE LateTyped'
  BY DEF TypeOK, late, LateTyped

(* Documents have numbers.                                                   *)
LEMMA Numbers ==
  ASSUME IInv
  PROVE  /\ Serial(disk) \in Nat
         /\ disk # NoDoc => disk \in Doc /\ disk.serial \in Nat /\ Serial(disk) = disk.serial
         /\ \A c \in Clients : task[c].pc \in {"promote", "persist"} =>
               task[c].doc \in Doc /\ task[c].doc.serial \in Nat
         /\ \A j \in orphans : Carries(j) => j.doc \in Doc /\ j.doc.serial \in Nat
  <1>1. \A d \in Doc : d.serial \in Nat
    BY DEF Doc
  <1> QED
    BY <1>1 DEF IInv, TypeOK, HoldInv, Serial

(* A request that ends.                                                      *)
LEMMA EndTask ==
  ASSUME IInv, NEW c \in Clients, task' = [task EXCEPT ![c] = IdleTask], Release(c),
         UNCHANGED <<disk, acked, orphans>>
  PROVE  /\ task' \in [Clients -> TaskType] /\ HoldInv' /\ (RecordInv => RecordInv')
         /\ author' \in Clients \cup {None} /\ lock' \in Clients \cup {None}
  <1> USE DEF IInv
  <1>1. /\ task' \in [Clients -> TaskType] /\ task'[c] = IdleTask
        /\ \A o \in Clients : o # c => task'[o] = task[o]
    BY SetTask, IdleTyped
  <1>2. author' \in Clients \cup {None} /\ lock' \in Clients \cup {None}
    BY DEF Release, TypeOK
  <1>3. /\ \A o \in Clients : o # c => (lock' = o <=> lock = o) /\ (author = o => author' = o)
        /\ lock' # c
    BY ConstAssumption DEF Release, TypeOK
  <1>4. HoldInv'
    BY <1>1, <1>3, IdleTyped DEF HoldInv
  <1>5. BaseInv => BaseInv'
    BY <1>1, <1>3, IdleTyped DEF BaseInv, MadeFrom
  <1>6. CutInv => CutInv'
    BY <1>1, <1>3, IdleTyped DEF CutInv
  <1>7. LateInv => LateInv'
    BY DEF LateInv, Serial
  <1> QED
    BY <1>1, <1>2, <1>4, <1>5, <1>6, <1>7 DEF RecordInv

(* A request that starts: its document is made from the disk under           *)
(* org_author_lock, or is the first.                                         *)
LEMMA StartTask ==
  ASSUME IInv, NEW c \in Clients, NEW t \in TaskType,
         task[c] = IdleTask, task' = [task EXCEPT ![c] = t],
         t.pc \in {"promote", "persist"}, t.doc \in Doc,
         UNCHANGED <<disk, lock, acked, late>>,
         \/ t.doc.serial = 1 /\ t.cut = {} /\ UNCHANGED author
         \/ /\ author = None /\ author' = c /\ disk # NoDoc
            /\ t.doc.serial = disk.serial + 1
            /\ disk.revoked \cup t.cut \subseteq t.doc.revoked
  PROVE  /\ task' \in [Clients -> TaskType] /\ HoldInv' /\ (overrun' \/ RecordInv')
         /\ LateTyped'
  <1> USE DEF IInv, late
  <1>1. /\ task' \in [Clients -> TaskType] /\ task'[c] = t
        /\ \A o \in Clients : o # c => task'[o] = task[o]
    BY SetTask
  <1>2. HoldInv'
    BY <1>1, IdleTyped DEF HoldInv
  <1>3. \A o \in Clients : author = o => author' = o
    BY ConstAssumption
  <1>4. ASSUME RecordInv PROVE RecordInv'
    <2> USE <1>4 DEF RecordInv
    <2>1. MadeFrom(c)'
      <3>1. CASE t.doc.serial = 1 /\ t.cut = {}
        BY <1>1, <3>1 DEF MadeFrom
      <3>2. CASE /\ author' = c /\ disk # NoDoc /\ t.doc.serial = disk.serial + 1
                 /\ disk.revoked \cup t.cut \subseteq t.doc.revoked
        <4>1. acked \cup t.cut \subseteq t.doc.revoked
          BY <3>2 DEF CutInv
        <4>2. disk.serial \in Nat /\ Serial(disk) = disk.serial
          BY <3>2, Numbers
        <4>3. \A j \in orphans : Carries(j) => j.doc.serial <= t.doc.serial
          BY <3>2, <4>2 DEF LateInv
        <4>4. disk.serial <= t.doc.serial /\ t.doc.serial <= disk.serial + 1
          BY <3>2, <4>2
        <4> QED
          BY <1>1, <3>2, <4>1, <4>3, <4>4 DEF MadeFrom, Carries
      <3> QED
        BY <3>1, <3>2
    <2>2. BaseInv'
      <3>1. ASSUME NEW o \in Clients, o # c, task'[o].pc \in {"promote", "persist"}
            PROVE  MadeFrom(o)'
        <4>1. MadeFrom(o) /\ task'[o] = task[o]
          BY <1>1, <3>1 DEF BaseInv
        <4> QED
          BY <1>3, <4>1 DEF MadeFrom, Carries
      <3> QED
        BY <2>1, <3>1 DEF BaseInv
    <2>3. CutInv'
      BY <1>1, <1>3 DEF CutInv, Carries
    <2>4. LateInv'
      BY DEF LateInv, Carries, Serial
    <2> QED
      BY <2>2, <2>3, <2>4
  <1> QED
    BY <1>1, <1>2, <1>4, SameLate

(* What the four verbs that read the roster have in common.                  *)
LEMMA AuthoringFacts ==
  ASSUME IInv, NEW c \in Clients, Authoring(c)
  PROVE  /\ task[c] = IdleTask /\ author = None /\ disk # NoDoc
         /\ disk \in Doc /\ key \in Roots /\ key \in MaybeRoot
  BY DEF Authoring, IInv, TypeOK, MaybeRoot

(* The task record a verb submits.                                           *)
LEMMA SubmitTyped ==
  ASSUME NEW p \in {"promote", "persist"}, NEW d \in Doc, NEW r \in MaybeRoot,
         NEW q \in MaybeRoot, NEW v \in SUBSET Devices
  PROVE  [pc |-> p, doc |-> d, root |-> r, prior |-> q, cut |-> v, to |-> NoRoot] \in TaskType
  BY DEF TaskType, TaskPc, MaybeDoc, MaybeRoot

LEMMA InitInv == Init => IInv
  <1> SUFFICES ASSUME Init PROVE IInv
    OBVIOUS
  <1> USE DEF Init
  <1>1. \A c \in Clients : task[c] = IdleTask
    OBVIOUS
  <1>2. task \in [Clients -> TaskType]
    BY IdleTyped
  <1>3. 0 \in 0..MaxFaults /\ 0 \in 0..MaxStops
    BY ConstAssumption
  <1>4. TypeOK
    BY <1>2, <1>3 DEF TypeOK, TaskType, MaybeDoc, MaybeRoot
  <1>5. HoldInv /\ RecordInv
    BY <1>1, IdleTyped, ConstAssumption DEF HoldInv, RecordInv, BaseInv, CutInv, LateInv
  <1> QED
    BY <1>4, <1>5 DEF IInv

LEMMA CreateInv ==
  ASSUME IInv, NEW c \in Clients, NEW r \in Roots, OrgCreate(c, r)
  PROVE  IInv'
  <1> DEFINE t == [pc |-> "persist", doc |-> EmptyRoster(r), root |-> r,
                   prior |-> NoRoot, cut |-> {}, to |-> NoRoot]
  <1> USE DEF OrgCreate
  <1>1. task' = [task EXCEPT ![c] = t]
    BY DEF Submit
  <1>2. r \in MaybeRoot /\ NoRoot \in MaybeRoot
    BY DEF MaybeRoot
  <1>3. t \in TaskType
    BY <1>2, EmptyTyped, SubmitTyped
  <1>4. t.doc \in Doc /\ t.doc.serial = 1 /\ t.pc = "persist" /\ t.cut = {}
    BY EmptyTyped
  <1> HIDE DEF t
  <1>5. /\ task' \in [Clients -> TaskType] /\ HoldInv' /\ (overrun' \/ RecordInv')
        /\ LateTyped'
    BY <1>1, <1>3, <1>4, StartTask
  <1>6. TypeOK'
    BY <1>2, <1>5 DEF IInv, TypeOK, TaskType, MaybeDoc, LateTyped
  <1> QED
    BY <1>5, <1>6 DEF IInv

LEMMA ApproveInv ==
  ASSUME IInv, NEW c \in Clients, NEW u \in Names, NEW k \in Keys,
         NEW gs \in SUBSET Names, NEW dev \in Devices, OrgApprove(c, u, k, gs, dev)
  PROVE  IInv'
  <1> DEFINE d == [UpsertMember(disk, u, k, gs, dev) EXCEPT !.signer = key]
             t == [pc |-> "persist", doc |-> d, root |-> NoRoot, prior |-> NoRoot,
                   cut |-> {}, to |-> NoRoot]
  <1> USE DEF OrgApprove
  <1>1. task' = [task EXCEPT ![c] = t]
    BY DEF Submit
  <1>d. d = Signed(UpsertMember(disk, u, k, gs, dev), key)
    BY DEF Signed
  <1> HIDE DEF d
  <1>2. d \in Doc /\ d.serial = disk.serial + 1 /\ d.revoked = disk.revoked
    BY <1>d, AuthoringFacts, UpsertTyped
  <1>3. t \in TaskType
    BY <1>2, SubmitTyped DEF MaybeRoot
  <1>4. t.doc = d /\ t.pc = "persist" /\ t.cut = {}
    OBVIOUS
  <1> HIDE DEF t
  <1>5. /\ task' \in [Clients -> TaskType] /\ HoldInv' /\ (overrun' \/ RecordInv')
        /\ LateTyped'
    BY <1>1, <1>2, <1>3, <1>4, AuthoringFacts, StartTask
  <1>6. TypeOK'
    BY <1>5 DEF IInv, TypeOK, TaskType, MaybeDoc, LateTyped
  <1> QED
    BY <1>5, <1>6 DEF IInv

LEMMA RevokeDeviceInv ==
  ASSUME IInv, NEW c \in Clients, NEW u \in Names, NEW dev \in Devices,
         OrgRevokeDevice(c, u, dev)
  PROVE  IInv'
  <1> DEFINE d == [RevokeDevice(disk, u, dev) EXCEPT !.signer = key]
             t == [pc |-> "persist", doc |-> d, root |-> NoRoot, prior |-> NoRoot,
                   cut |-> {dev}, to |-> NoRoot]
  <1> USE DEF OrgRevokeDevice
  <1>1. task' = [task EXCEPT ![c] = t]
    BY DEF Submit
  <1>d. d = Signed(RevokeDevice(disk, u, dev), key)
    BY DEF Signed
  <1> HIDE DEF d
  <1>2. d \in Doc /\ d.serial = disk.serial + 1 /\ d.revoked = disk.revoked \cup {dev}
    BY <1>d, AuthoringFacts, RevokeTyped
  <1>3. t \in TaskType
    BY <1>2, SubmitTyped DEF MaybeRoot
  <1>4. t.doc = d /\ t.pc = "persist" /\ t.cut = {dev}
    OBVIOUS
  <1> HIDE DEF t
  <1>5. /\ task' \in [Clients -> TaskType] /\ HoldInv' /\ (overrun' \/ RecordInv')
        /\ LateTyped'
    BY <1>1, <1>2, <1>3, <1>4, AuthoringFacts, StartTask
  <1>6. TypeOK'
    BY <1>5 DEF IInv, TypeOK, TaskType, MaybeDoc, LateTyped
  <1> QED
    BY <1>5, <1>6 DEF IInv

LEMMA RevokeUserInv ==
  ASSUME IInv, NEW c \in Clients, NEW u \in Names, NEW b \in BOOLEAN,
         OrgRevokeUser(c, u, b)
  PROVE  IInv'
  <1> DEFINE d == [RemoveUser(disk, u, b) EXCEPT !.signer = key]
             v == IF b THEN disk.users[u].devs ELSE {}
             t == [pc |-> "persist", doc |-> d, root |-> NoRoot, prior |-> NoRoot,
                   cut |-> v, to |-> NoRoot]
  <1> USE DEF OrgRevokeUser
  <1>1. task' = [task EXCEPT ![c] = t]
    BY DEF Submit
  <1>d. d = Signed(RemoveUser(disk, u, b), key)
    BY DEF Signed
  <1> HIDE DEF d
  <1>2. d \in Doc /\ d.serial = disk.serial + 1 /\ d.revoked = disk.revoked \cup v /\ v \in SUBSET Devices
    BY <1>d, AuthoringFacts, RemoveTyped
  <1> HIDE DEF v
  <1>3. t \in TaskType
    BY <1>2, SubmitTyped DEF MaybeRoot
  <1>4. t.doc = d /\ t.pc = "persist" /\ t.cut = v
    OBVIOUS
  <1> HIDE DEF t
  <1>5. /\ task' \in [Clients -> TaskType] /\ HoldInv' /\ (overrun' \/ RecordInv')
        /\ LateTyped'
    BY <1>1, <1>2, <1>3, <1>4, AuthoringFacts, StartTask
  <1>6. TypeOK'
    BY <1>5 DEF IInv, TypeOK, TaskType, MaybeDoc, LateTyped
  <1> QED
    BY <1>5, <1>6 DEF IInv

LEMMA RotateInv ==
  ASSUME IInv, NEW c \in Clients, NEW r \in Roots, OrgRotate(c, r)
  PROVE  IInv'
  <1> DEFINE d == [disk EXCEPT !.serial = @ + 1, !.cross = key, !.succ = r, !.signer = r]
             t == [pc |-> "promote", doc |-> d, root |-> r, prior |-> key, cut |-> {},
                   to |-> NoRoot]
  <1> USE DEF OrgRotate
  <1>1. task' = [task EXCEPT ![c] = t]
    OBVIOUS
  <1>2. r \in MaybeRoot
    BY DEF MaybeRoot
  <1>d. d = CrossSigned(disk, key, r)
    BY DEF CrossSigned
  <1> HIDE DEF d
  <1>3. d \in Doc /\ d.serial = disk.serial + 1 /\ d.revoked = disk.revoked
    BY <1>2, <1>d, AuthoringFacts, RotateTyped
  <1>4. t \in TaskType
    BY <1>2, <1>3, AuthoringFacts, SubmitTyped
  <1>5. t.doc = d /\ t.pc = "promote" /\ t.cut = {}
    OBVIOUS
  <1> HIDE DEF t
  <1>6. /\ task' \in [Clients -> TaskType] /\ HoldInv' /\ (overrun' \/ RecordInv')
        /\ LateTyped'
    BY <1>1, <1>3, <1>4, <1>5, AuthoringFacts, StartTask
  <1>7. TypeOK'
    BY <1>2, <1>6 DEF IInv, TypeOK, TaskType, MaybeDoc, LateTyped
  <1> QED
    BY <1>6, <1>7 DEF IInv

(* A request that goes on to its next place, with the key it replaces or the *)
(* root it will pin noted.                                                   *)
LEMMA MoveTask ==
  ASSUME TypeOK, NEW c \in Clients, NEW p \in TaskPc,
         task' = [task EXCEPT ![c].pc = p]
  PROVE  /\ task' \in [Clients -> TaskType]
         /\ task'[c].pc = p /\ task'[c].doc = task[c].doc /\ task'[c].cut = task[c].cut
         /\ task'[c].root = task[c].root /\ task'[c].prior = task[c].prior
         /\ \A o \in Clients : o # c => task'[o] = task[o]
  BY DEF TypeOK, TaskType, MaybeDoc

LEMMA MovePromoted ==
  ASSUME TypeOK, NEW c \in Clients, NEW p \in TaskPc, NEW q \in MaybeRoot,
         task' = [task EXCEPT ![c].pc = p, ![c].prior = q]
  PROVE  /\ task' \in [Clients -> TaskType]
         /\ task'[c].pc = p /\ task'[c].doc = task[c].doc /\ task'[c].cut = task[c].cut
         /\ task'[c].root = task[c].root /\ task'[c].prior = q
         /\ \A o \in Clients : o # c => task'[o] = task[o]
  BY DEF TypeOK, TaskType, MaybeDoc

LEMMA MovePersisted ==
  ASSUME TypeOK, NEW c \in Clients, NEW p \in TaskPc, NEW r \in MaybeRoot,
         task' = [task EXCEPT ![c].pc = p, ![c].to = r]
  PROVE  /\ task' \in [Clients -> TaskType]
         /\ task'[c].pc = p /\ task'[c].doc = task[c].doc /\ task'[c].cut = task[c].cut
         /\ task'[c].root = task[c].root /\ task'[c].prior = task[c].prior
         /\ task'[c].to = r
         /\ \A o \in Clients : o # c => task'[o] = task[o]
  BY DEF TypeOK, TaskType, MaybeDoc

LEMMA PriorTo ==
  ASSUME TypeOK, NEW c \in Clients
  PROVE  task[c].prior \in MaybeRoot /\ task[c].to \in MaybeRoot /\ task[c].root \in MaybeRoot
  BY DEF TypeOK

LEMMA PromoteInv ==
  ASSUME IInv, NEW c \in Clients, Promote(c)
  PROVE  IInv'
  <1> USE DEF Promote, IInv, late
  <1>0. /\ key \in MaybeRoot /\ task[c].to \in MaybeRoot /\ "persist" \in TaskPc
        /\ task' = [task EXCEPT ![c].pc = "persist", ![c].prior = key]
    BY PriorTo DEF TypeOK, TaskPc
  <1>1. /\ task' \in [Clients -> TaskType]
        /\ task'[c].pc = "persist" /\ task'[c].doc = task[c].doc
        /\ task'[c].cut = task[c].cut
        /\ \A o \in Clients : o # c => task'[o] = task[o]
    BY ONLY IInv, <1>0, MovePromoted DEF IInv
  <1>2. TypeOK'
    BY <1>1 DEF TypeOK, TaskType, MaybeDoc, MaybeRoot
  <1>3. HoldInv'
    BY <1>1 DEF HoldInv, Carries
  <1>4. BaseInv => BaseInv'
    BY <1>1 DEF BaseInv, MadeFrom, Carries
  <1>5. CutInv => CutInv'
    BY <1>1 DEF CutInv, Carries
  <1>6. LateInv => LateInv'
    BY DEF LateInv, Carries, Serial
  <1> QED
    BY <1>2, <1>3, <1>4, <1>5, <1>6 DEF RecordInv

(* The persist of a verb's document: newer than the disk, it keeps what the  *)
(* disk must.                                                                *)
LEMMA PersistRecord ==
  ASSUME IInv, RecordInv, NEW c \in Clients, Persist(c),
         task'[c].pc = "pin", task'[c].doc = task[c].doc, task'[c].cut = task[c].cut,
         \A o \in Clients : o # c => task'[o] = task[o],
         \A o \in Clients : task[o].pc \notin {"pin", "announce"}
  PROVE  RecordInv'
  <1> USE DEF RecordInv
  <1> DEFINE d == task[c].doc
  <1>1. d \in Doc /\ d.serial \in Nat /\ disk' = d /\ disk' # NoDoc
        /\ UNCHANGED <<author, acked, orphans>> /\ task[c].pc = "persist"
    BY Numbers, DocAssumption DEF Persist, late
  <1>2. Serial(disk) \in Nat /\ d.serial > Serial(disk) /\ Serial(disk') = d.serial
        /\ disk'.serial = d.serial
    BY <1>1, Numbers DEF Persist, Accepts, Serial
  <1>3. MadeFrom(c)
    BY <1>1 DEF BaseInv
  <1>4. disk # NoDoc => author = c /\ acked \cup task[c].cut \subseteq d.revoked
                        /\ \A j \in orphans : Carries(j) => j.doc.serial <= d.serial
    <2>1. disk # NoDoc => d.serial # 1
      BY <1>2, Numbers DEF CutInv
    <2> QED
      BY <1>3, <2>1 DEF MadeFrom
  <1>5. disk = NoDoc => task[c].cut = {} /\ acked = {} /\ Serial(disk) = 0
    BY <1>3 DEF MadeFrom, CutInv, Serial
  <1>n. \A j \in orphans : Carries(j) => j.doc.serial \in Nat
    BY Numbers
  <1> HIDE DEF d
  <1>6. BaseInv'
    <2>1. ASSUME NEW o \in Clients, task'[o].pc \in {"promote", "persist"}
          PROVE  MadeFrom(o)'
      <3>1. o # c /\ task'[o] = task[o] /\ MadeFrom(o)
        BY <2>1 DEF BaseInv
      <3>2. task[o].doc.serial = 1 /\ task[o].cut = {}
        BY <1>4, <3>1 DEF MadeFrom
      <3> QED
        BY <3>1, <3>2 DEF MadeFrom
    <2> QED
      BY <2>1 DEF BaseInv
  <1>7. LateInv'
    <2>1. ASSUME NEW j \in orphans, Carries(j)
          PROVE  /\ j.doc.serial <= d.serial + 1
                 /\ j.doc.serial > d.serial => acked \subseteq j.doc.revoked
                 /\ j.do = "write" => j.doc.serial > Serial(j.over)
      <3>1. /\ j.doc.serial <= Serial(disk) + 1
            /\ j.doc.serial > Serial(disk) => acked \subseteq j.doc.revoked
            /\ j.do = "write" => j.doc.serial > Serial(j.over)
        BY <2>1 DEF LateInv
      <3>2. j.doc.serial \in Nat
        BY <1>n, <2>1
      <3> QED
        BY <1>1, <1>2, <3>1, <3>2 DEF d
    <2> QED
      BY <1>1, <1>2, <2>1 DEF LateInv, Carries, Serial
  <1>8. CutInv'
    <2>1. disk'.serial > 0 /\ acked' \subseteq disk'.revoked
      <3>1. acked \subseteq d.revoked
        BY <1>4, <1>5
      <3>2. d.serial > 0
        BY <1>1, <1>2 DEF d
      <3> QED
        BY <1>1, <1>2, <3>1, <3>2 DEF d
    <2>2. task[c].cut \subseteq d.revoked
      BY <1>4, <1>5
    <2>3. \/ task[c].cut = {}
          \/ author = c /\ \A j \in orphans : Carries(j) => j.doc.serial <= d.serial
      BY <1>4, <1>5
    <2>4. disk' = d
      BY <1>1 DEF d
    <2>5. ASSUME NEW o \in Clients, task'[o].pc \in {"pin", "announce"}
          PROVE  o = c
      BY <2>5
    <2> QED
      BY <1>1, <2>1, <2>2, <2>3, <2>4, <2>5 DEF CutInv, Carries
  <1> QED
    BY <1>6, <1>7, <1>8

LEMMA ToPinTyped ==
  ASSUME IInv, NEW c \in Clients, task[c].pc = "persist"
  PROVE  ToPin(c) \in MaybeRoot
  BY Numbers, PriorTo DEF ToPin, IInv, Doc

LEMMA PersistInv ==
  ASSUME IInv, NEW c \in Clients, Persist(c)
  PROVE  IInv'
  <1> USE DEF IInv
  <1>0. ToPin(c) \in MaybeRoot /\ task[c].prior \in MaybeRoot
    BY ToPinTyped, PriorTo DEF Persist
  <1>1. /\ task' \in [Clients -> TaskType]
        /\ task'[c].pc = "pin" /\ task'[c].doc = task[c].doc
        /\ task'[c].cut = task[c].cut
        /\ \A o \in Clients : o # c => task'[o] = task[o]
    BY <1>0, MovePersisted DEF TaskPc, Persist
  <1>2. task[c].doc \in Doc /\ disk' = task[c].doc /\ disk' # NoDoc
    BY DocAssumption DEF HoldInv, Persist
  <1>4. TypeOK'
    BY <1>1, <1>2 DEF TypeOK, TaskType, MaybeDoc, Persist, late
  <1>5. \A o \in Clients : task[o].pc \notin {"pin", "announce"}
    BY ConstAssumption DEF HoldInv, Persist
  <1>6. HoldInv'
    BY <1>1, <1>2, <1>5 DEF HoldInv, Carries, Persist, late
  <1>7. overrun' = overrun
    BY DEF Persist, late
  <1>8. RecordInv => RecordInv'
    BY <1>1, <1>5, PersistRecord
  <1> QED
    BY <1>4, <1>6, <1>7, <1>8

LEMMA PinInv ==
  ASSUME IInv, NEW c \in Clients, Pin(c)
  PROVE  IInv'
  <1> USE DEF Pin, IInv, late
  <1>0. /\ task[c].prior \in MaybeRoot /\ task[c].to \in MaybeRoot /\ "announce" \in TaskPc
        /\ task' = [task EXCEPT ![c].pc = "announce"]
    BY PriorTo DEF TaskPc
  <1>1. /\ task' \in [Clients -> TaskType]
        /\ task'[c].pc = "announce" /\ task'[c].doc = task[c].doc
        /\ task'[c].cut = task[c].cut
        /\ \A o \in Clients : o # c => task'[o] = task[o]
    BY ONLY IInv, <1>0, MoveTask DEF IInv
  <1>2. pin' \in MaybeRoot /\ midway' \in BOOLEAN
    BY <1>0 DEF TypeOK
  <1>3. TypeOK'
    BY <1>1, <1>2 DEF TypeOK, TaskType, MaybeDoc
  <1>4. HoldInv'
    BY <1>1 DEF HoldInv, Carries
  <1>5. BaseInv => BaseInv'
    BY <1>1 DEF BaseInv, MadeFrom, Carries
  <1>6. CutInv => CutInv'
    BY <1>1 DEF CutInv, Carries
  <1>7. LateInv => LateInv'
    BY DEF LateInv, Carries, Serial
  <1> QED
    BY <1>3, <1>4, <1>5, <1>6, <1>7 DEF RecordInv

(* The answer: what the client is told of is on the disk, and no job left    *)
(* behind carries anything newer.                                            *)
LEMMA AnnounceInv ==
  ASSUME IInv, NEW c \in Clients, Announce(c)
  PROVE  IInv'
  <1> USE DEF IInv
  <1>0. /\ task[c].pc = "announce" /\ acked' = acked \cup task[c].cut
        /\ task' = [task EXCEPT ![c] = IdleTask] /\ Release(c)
        /\ UNCHANGED <<key, staged, disk, pin, used, faults, stops, midway, orphans, strayed,
                       overrun>>
    BY DEF Announce, late
  <1>1. /\ task' \in [Clients -> TaskType] /\ task'[c] = IdleTask
        /\ \A o \in Clients : o # c => task'[o] = task[o]
    BY <1>0, SetTask, IdleTyped
  <1>2. task[c].cut \subseteq Devices /\ acked \subseteq Devices
    BY DEF TypeOK
  <1>3. author' \in Clients \cup {None} /\ lock' \in Clients \cup {None}
    BY <1>0 DEF Release, TypeOK
  <1>4. TypeOK'
    BY <1>0, <1>1, <1>2, <1>3 DEF TypeOK, TaskType, MaybeDoc
  <1>5. /\ \A o \in Clients : o # c => (lock' = o <=> lock = o) /\ (author = o => author' = o)
        /\ lock' # c
    BY <1>0, ConstAssumption DEF Release, TypeOK
  <1>6. HoldInv'
    BY <1>0, <1>1, <1>5, IdleTyped DEF HoldInv, Carries
  <1>7. ASSUME RecordInv PROVE RecordInv'
    <2> USE <1>7 DEF RecordInv
    <2>1. /\ disk # NoDoc /\ disk.serial > 0 /\ acked \cup task[c].cut \subseteq disk.revoked
          /\ \/ task[c].cut = {}
             \/ author = c /\ \A j \in orphans : Carries(j) => j.doc.serial <= disk.serial
      BY <1>0 DEF HoldInv, CutInv
    <2>2. BaseInv'
      <3>1. ASSUME NEW o \in Clients, task'[o].pc \in {"promote", "persist"}
            PROVE  MadeFrom(o)'
        <4>1. o # c /\ task'[o] = task[o] /\ MadeFrom(o)
          BY <1>1, <3>1, IdleTyped DEF BaseInv
        <4>2. author = o => acked' = acked
          BY <1>0, <2>1, <4>1
        <4> QED
          BY <1>0, <1>5, <4>1, <4>2 DEF MadeFrom, Carries
      <3> QED
        BY <3>1 DEF BaseInv
    <2>3. CutInv'
      BY <1>0, <1>1, <1>5, <2>1, IdleTyped DEF CutInv, Carries
    <2>4. LateInv'
      <3>1. ASSUME NEW j \in orphans, Carries(j), j.doc.serial > Serial(disk)
            PROVE  acked' \subseteq j.doc.revoked
        <4>1. disk.serial \in Nat /\ Serial(disk) = disk.serial /\ j.doc.serial \in Nat
          BY <2>1, <3>1, Numbers
        <4>2. task[c].cut = {}
          BY <2>1, <3>1, <4>1
        <4> QED
          BY <1>0, <3>1, <4>2 DEF LateInv
      <3> QED
        BY <1>0, <3>1 DEF LateInv, Carries, Serial
    <2> QED
      BY <2>2, <2>3, <2>4
  <1> QED
    BY <1>0, <1>4, <1>6, <1>7

LEMMA FailInv ==
  ASSUME IInv, NEW c \in Clients, PersistRefused(c) \/ PromoteRefused(c) \/ WriteFails(c)
  PROVE  IInv'
  <1>1. Fail(c) /\ UNCHANGED <<staged, disk, pin, acked, used, stops, orphans, strayed, overrun>>
    BY DEF PersistRefused, PromoteRefused, WriteFails, late
  <1>2. faults' \in 0..MaxFaults /\ midway' \in BOOLEAN
    <2>1. CASE PersistRefused(c) \/ PromoteRefused(c)
      BY <2>1 DEF PersistRefused, PromoteRefused, IInv, TypeOK
    <2>2. CASE WriteFails(c)
      <3>1. faults' \in 0..MaxFaults
        BY <2>2, ConstAssumption DEF WriteFails, IInv, TypeOK
      <3>2. midway' \in BOOLEAN
        BY <2>2 DEF WriteFails
      <3> QED
        BY <3>1, <3>2
    <2> QED
      BY <2>1, <2>2
  <1>3. /\ task' \in [Clients -> TaskType] /\ HoldInv' /\ (RecordInv => RecordInv')
        /\ author' \in Clients \cup {None} /\ lock' \in Clients \cup {None}
    BY <1>1, EndTask DEF Fail
  <1>4. key' \in MaybeRoot
    BY <1>1 DEF Fail, IInv, TypeOK
  <1>5. TypeOK'
    BY <1>1, <1>2, <1>3, <1>4 DEF IInv, TypeOK, TaskType, MaybeDoc
  <1> QED
    BY <1>1, <1>3, <1>5 DEF IInv

(* The jobs a stopped verb may leave, and what they carry.                   *)
LEMMA RunningTyped ==
  ASSUME IInv, NEW c \in Clients, NEW j \in Running(c)
  PROVE  /\ j \in Jobs /\ j.do # "write"
         /\ Carries(j) => task[c].pc = "persist" /\ j.doc = task[c].doc /\ j.doc \in Doc
  <1>1. NoDoc \in MaybeDoc /\ NoRoot \in MaybeRoot /\ Anchor(c) \in MaybeRoot
        /\ task[c].to \in MaybeRoot /\ task[c].prior \in MaybeRoot
        /\ task[c].doc \in MaybeDoc
    BY PriorTo DEF Anchor, IInv, TypeOK, MaybeDoc, MaybeRoot
  <1>2. j \in Jobs
    BY <1>1 DEF Running, Job, Jobs, MaybeDoc
  <1>3. j.do # "write" /\ (Carries(j) => j.do = "check")
    BY DEF Running, Job, Carries
  <1>4. j.do = "check" => task[c].pc = "persist" /\ j.doc = task[c].doc
    BY DEF Running, Job
  <1>5. task[c].pc = "persist" => task[c].doc \in Doc
    BY Numbers
  <1> QED
    BY <1>2, <1>3, <1>4, <1>5

(* A job is left behind: what held of its verb's document holds of it.       *)
LEMMA LeaveJob ==
  ASSUME IInv, NEW c \in Clients, NEW j \in Running(c),
         task' = [task EXCEPT ![c] = IdleTask], Release(c), orphans' = orphans \cup {j},
         UNCHANGED <<disk, acked>>
  PROVE  HoldInv' /\ (RecordInv => RecordInv')
  <1> USE DEF IInv
  <1>1. /\ task'[c] = IdleTask
        /\ \A o \in Clients : o # c => task'[o] = task[o]
    BY SetTask, IdleTyped
  <1>3. /\ \A o \in Clients : o # c => (lock' = o <=> lock = o) /\ (author = o => author' = o)
        /\ lock' # c
    BY ConstAssumption DEF Release, TypeOK
  <1>j. /\ j.do # "write"
        /\ Carries(j) => task[c].pc = "persist" /\ j.doc = task[c].doc /\ j.doc \in Doc
                         /\ j.doc.serial \in Nat
    BY RunningTyped DEF Doc
  <1>4. HoldInv'
    BY <1>1, <1>3, <1>j, IdleTyped DEF HoldInv, Carries
  <1>5. ASSUME RecordInv PROVE RecordInv'
    <2> USE <1>5 DEF RecordInv
    <2>1. Carries(j) => MadeFrom(c)
      BY <1>j DEF BaseInv
    <2>2. ASSUME Carries(j), NEW o \in Clients, o # c, author = o
          PROVE  j.doc.serial = 1
      BY <1>j, <2>1, <2>2 DEF MadeFrom
    <2>3. BaseInv'
      <3>1. ASSUME NEW o \in Clients, task'[o].pc \in {"promote", "persist"}
            PROVE  MadeFrom(o)'
        <4>1. o # c /\ task'[o] = task[o] /\ MadeFrom(o)
          BY <1>1, <3>1, IdleTyped DEF BaseInv
        <4>2. CASE task[o].doc.serial = 1 /\ task[o].cut = {}
          BY <4>1, <4>2 DEF MadeFrom
        <4>3. CASE ~(task[o].doc.serial = 1 /\ task[o].cut = {})
          <5>1. author = o /\ disk # NoDoc /\ disk.serial <= task[o].doc.serial
            BY <4>1, <4>3 DEF MadeFrom
          <5>2. disk.serial > 0 /\ disk.serial \in Nat /\ task[o].doc.serial \in Nat
            BY <3>1, <4>1, <5>1, Numbers DEF CutInv
          <5>3. Carries(j) => j.doc.serial <= task[o].doc.serial
            BY <2>2, <4>1, <5>1, <5>2
          <5> QED
            BY <1>3, <4>1, <4>3, <5>3 DEF MadeFrom, Carries
        <4> QED
          BY <4>2, <4>3
      <3> QED
        BY <3>1 DEF BaseInv
    <2>4. CutInv'
      <3>1. ASSUME NEW o \in Clients, task'[o].pc \in {"pin", "announce"}
            PROVE  /\ task'[o].cut \subseteq disk.revoked
                   /\ \/ task'[o].cut = {}
                      \/ /\ author' = o
                         /\ \A i \in orphans' : Carries(i) => i.doc.serial <= disk.serial
        <4>1. o # c /\ task'[o] = task[o] /\ disk # NoDoc
          BY <1>1, <3>1, IdleTyped DEF HoldInv
        <4>2. disk.serial > 0 /\ disk.serial \in Nat
          BY <4>1, Numbers DEF CutInv
        <4>3. author = o /\ Carries(j) => j.doc.serial <= disk.serial
          BY <2>2, <4>1, <4>2
        <4> QED
          BY <1>3, <3>1, <4>1, <4>3 DEF CutInv, Carries
      <3> QED
        BY <3>1 DEF CutInv, Carries
    <2>5. LateInv'
      <3>1. ASSUME Carries(j)
            PROVE  /\ j.doc.serial <= Serial(disk) + 1
                   /\ j.doc.serial > Serial(disk) => acked \subseteq j.doc.revoked
        <4>1. Serial(disk) \in Nat /\ j.doc.serial \in Nat /\ j.doc = task[c].doc
              /\ (disk # NoDoc => Serial(disk) = disk.serial)
          BY <1>j, <3>1, Numbers
        <4>2. CASE j.doc.serial = 1
          <5>1. j.doc.serial > Serial(disk) => acked = {}
            BY <4>1, <4>2 DEF CutInv
          <5> QED
            BY <4>1, <4>2, <5>1
        <4>3. CASE j.doc.serial # 1
          BY <2>1, <3>1, <4>1, <4>3 DEF MadeFrom
        <4> QED
          BY <4>2, <4>3
      <3>2. \A i \in orphans : Carries(i) =>
               /\ i.doc.serial <= Serial(disk) + 1
               /\ i.doc.serial > Serial(disk) => acked \subseteq i.doc.revoked
               /\ i.do = "write" => i.doc.serial > Serial(i.over)
        BY DEF LateInv
      <3>3. \A i \in orphans' : i \in orphans \/ i = j
        OBVIOUS
      <3> QED
        BY <1>j, <3>1, <3>2, <3>3 DEF LateInv, Carries, Serial
    <2> QED
      BY <2>3, <2>4, <2>5
  <1> QED
    BY <1>4, <1>5

LEMMA DisconnectInv ==
  ASSUME IInv, NEW c \in Clients, Disconnect(c)
  PROVE  IInv'
  <1>0. /\ task' = [task EXCEPT ![c] = IdleTask] /\ Release(c)
        /\ UNCHANGED <<key, staged, disk, pin, acked, used, faults, strayed, overrun>>
        /\ orphans' = orphans \/ \E j \in Running(c) : orphans' = orphans \cup {j}
    BY DEF Disconnect
  <1>1. stops' \in 0..MaxStops /\ midway' \in BOOLEAN
    BY ConstAssumption DEF IInv, TypeOK, Disconnect
  <1>2. /\ task' \in [Clients -> TaskType]
        /\ author' \in Clients \cup {None} /\ lock' \in Clients \cup {None}
    BY <1>0, SetTask, IdleTyped DEF IInv, TypeOK, Release
  <1>3. HoldInv' /\ (RecordInv => RecordInv') /\ orphans' \subseteq Jobs
    <2>1. CASE orphans' = orphans
      BY <1>0, <2>1, EndTask DEF IInv, TypeOK
    <2>2. ASSUME NEW j \in Running(c), orphans' = orphans \cup {j}
          PROVE  HoldInv' /\ (RecordInv => RecordInv') /\ orphans' \subseteq Jobs
      <3>1. HoldInv' /\ (RecordInv => RecordInv')
        BY <1>0, <2>2, LeaveJob
      <3>2. j \in Jobs
        BY <2>2, RunningTyped
      <3> QED
        BY <2>2, <3>1, <3>2 DEF IInv, TypeOK
    <2> QED
      BY <1>0, <2>1, <2>2
  <1>4. TypeOK'
    BY <1>0, <1>1, <1>2, <1>3 DEF IInv, TypeOK, TaskType, MaybeDoc
  <1> QED
    BY <1>0, <1>3, <1>4 DEF IInv

LEMMA CrashInv ==
  ASSUME IInv, Crash
  PROVE  IInv'
  <1> USE DEF Crash, IInv
  <1>1. task' \in [Clients -> TaskType] /\ \A c \in Clients : task'[c] = IdleTask
    BY IdleTyped
  <1>2. stops' \in 0..MaxStops /\ midway' \in BOOLEAN
    BY ConstAssumption DEF TypeOK
  <1>3. TypeOK'
    BY <1>1, <1>2 DEF TypeOK, TaskType, MaybeDoc
  <1>4. HoldInv' /\ (RecordInv => RecordInv')
    BY <1>1, IdleTyped, ConstAssumption
       DEF HoldInv, RecordInv, BaseInv, CutInv, LateInv, Serial
  <1> QED
    BY <1>3, <1>4

-----------------------------------------------------------------------------
(* The jobs left behind.                                                     *)

(* One whose install checks its document against the disk: only one newer    *)
(* goes on.                                                                  *)
LEMMA LateCheckInv ==
  ASSUME IInv, NEW j \in orphans, LateCheck(j)
  PROVE  IInv'
  <1> USE DEF IInv
  <1> DEFINE w == [j EXCEPT !.do = "write", !.over = disk]
  <1>0. /\ j.do = "check" /\ Accepts(j.root, j.doc)
        /\ orphans' = (orphans \ {j}) \cup {w}
        /\ UNCHANGED <<key, staged, disk, pin, author, lock, task, acked, used, faults,
                       stops, midway, strayed, overrun>>
    BY DEF LateCheck
  <1>1. j \in Jobs /\ disk \in Doc \cup {NoDoc}
    BY DEF TypeOK
  <1>2. w \in Jobs /\ w.do = "write" /\ w.doc = j.doc /\ w.over = disk
    BY <1>1 DEF Jobs
  <1>3. Carries(j) /\ Carries(w) /\ j.doc.serial > Serial(disk) /\ j.doc \in Doc
    BY <1>0, <1>2 DEF Carries, Accepts, HoldInv
  <1> HIDE DEF w
  <1>4. TypeOK'
    BY <1>0, <1>2 DEF TypeOK
  <1>5. HoldInv'
    BY <1>0, <1>2, <1>3 DEF HoldInv, Carries
  <1>6. \A i \in orphans' : i \in orphans \/ i = w
    BY <1>0
  <1>7. BaseInv => BaseInv'
    BY <1>0, <1>2, <1>3, <1>6 DEF BaseInv, MadeFrom, Carries
  <1>8. CutInv => CutInv'
    BY <1>0, <1>2, <1>3, <1>6 DEF CutInv, Carries
  <1>9. LateInv => LateInv'
    BY <1>0, <1>2, <1>3, <1>6 DEF LateInv, Carries, Serial
  <1> QED
    BY <1>0, <1>4, <1>5, <1>7, <1>8, <1>9 DEF RecordInv

(* One that writes over the roster it checked against: it is newer than what *)
(* was answered, and than what a verb now announces.                         *)
LEMMA LateWriteInv ==
  ASSUME IInv, NEW j \in orphans, LateWrite(j)
  PROVE  IInv'
  <1> USE DEF IInv
  <1>0. /\ j.do = "write" /\ disk' = j.doc /\ orphans' = orphans \ {j}
        /\ strayed' = TRUE /\ overrun' = (overrun \/ disk # j.over)
        /\ UNCHANGED <<key, staged, pin, author, lock, task, acked, used, faults, stops, midway>>
    BY DEF LateWrite, Land
  <1>1. j.doc \in Doc /\ j.doc.serial \in Nat /\ Carries(j) /\ disk' # NoDoc
        /\ disk'.serial = j.doc.serial /\ Serial(disk') = j.doc.serial
    BY <1>0, Numbers, DocAssumption DEF Carries, Serial
  <1>2. TypeOK'
    BY <1>0, <1>1 DEF TypeOK
  <1>3. HoldInv'
    BY <1>0, <1>1 DEF HoldInv, Carries
  <1>4. ASSUME ~overrun' PROVE RecordInv'
    <2>1. RecordInv /\ disk = j.over
      BY <1>0, <1>4
    <2> USE <2>1 DEF RecordInv
    <2>2. Serial(disk) \in Nat /\ j.doc.serial > Serial(disk) /\ acked \subseteq j.doc.revoked
      BY <1>0, <1>1, Numbers DEF LateInv
    <2>n. disk # NoDoc => disk.serial \in Nat /\ Serial(disk) = disk.serial
      BY Numbers
    <2>3. BaseInv'
      <3>1. ASSUME NEW c \in Clients, task'[c].pc \in {"promote", "persist"}
            PROVE  MadeFrom(c)'
        <4>1. task'[c] = task[c] /\ MadeFrom(c) /\ task[c].doc.serial \in Nat
          BY <1>0, <3>1, Numbers DEF BaseInv
        <4>2. CASE task[c].doc.serial = 1 /\ task[c].cut = {}
          BY <4>1, <4>2 DEF MadeFrom
        <4>3. CASE ~(task[c].doc.serial = 1 /\ task[c].cut = {})
          <5>1. /\ author = c /\ disk # NoDoc
                /\ acked \cup task[c].cut \subseteq task[c].doc.revoked
                /\ task[c].doc.serial <= disk.serial + 1
                /\ \A i \in orphans : Carries(i) => i.doc.serial <= task[c].doc.serial
            BY <4>1, <4>3 DEF MadeFrom
          <5>2. /\ disk'.serial <= task[c].doc.serial
                /\ task[c].doc.serial <= disk'.serial + 1
            BY <1>1, <2>2, <2>n, <4>1, <5>1
          <5> QED
            BY <1>0, <1>1, <4>1, <5>1, <5>2 DEF MadeFrom, Carries
        <4> QED
          BY <4>2, <4>3
      <3> QED
        BY <3>1 DEF BaseInv
    <2>4. CutInv'
      <3>1. ASSUME NEW c \in Clients, task[c].pc \in {"pin", "announce"}
            PROVE  task[c].cut = {}
        <4>1. disk # NoDoc
          BY <3>1 DEF HoldInv
        <4> QED
          BY <1>1, <2>2, <2>n, <3>1, <4>1 DEF CutInv
      <3> QED
        BY <1>0, <1>1, <2>2, <3>1 DEF CutInv
    <2>5. LateInv'
      <3>1. ASSUME NEW i \in orphans, Carries(i)
            PROVE  /\ i.doc.serial <= j.doc.serial + 1
                   /\ i.doc.serial > j.doc.serial => acked \subseteq i.doc.revoked
                   /\ i.do = "write" => i.doc.serial > Serial(i.over)
        <4>1. i.doc.serial \in Nat
          BY <3>1, Numbers
        <4> QED
          BY <1>1, <2>2, <3>1, <4>1 DEF LateInv
      <3> QED
        BY <1>0, <1>1, <3>1 DEF LateInv, Carries, Serial
    <2> QED
      BY <2>3, <2>4, <2>5
  <1> QED
    BY <1>2, <1>3, <1>4

(* The others touch neither the roster nor what was answered.                *)
LEMMA LateKeyInv ==
  ASSUME IInv, NEW j \in orphans, LatePin(j) \/ LatePromote(j) \/ LateRestore(j)
  PROVE  IInv'
  <1> USE DEF IInv
  <1>0. /\ orphans' = orphans \ {j} /\ strayed' = TRUE
        /\ UNCHANGED <<disk, author, lock, task, acked, used, faults, stops, midway, overrun>>
    BY DEF LatePin, LatePromote, LateRestore, Land
  <1>1. j \in Jobs /\ j.root \in MaybeRoot /\ NoRoot \in MaybeRoot
    BY DEF TypeOK, Jobs, MaybeRoot
  <1>2. key' \in MaybeRoot /\ staged' \in MaybeRoot /\ pin' \in MaybeRoot
    BY <1>1 DEF LatePin, LatePromote, LateRestore, TypeOK
  <1>3. TypeOK'
    BY <1>0, <1>2 DEF TypeOK
  <1>4. HoldInv'
    BY <1>0 DEF HoldInv, Carries
  <1>5. BaseInv => BaseInv'
    BY <1>0 DEF BaseInv, MadeFrom, Carries
  <1>6. CutInv => CutInv'
    BY <1>0 DEF CutInv, Carries
  <1>7. LateInv => LateInv'
    BY <1>0 DEF LateInv, Carries, Serial
  <1> QED
    BY <1>0, <1>3, <1>4, <1>5, <1>6, <1>7 DEF RecordInv

THEOREM Inductive == Spec => []IInv
  <1>1. ASSUME IInv, [Next]_vars PROVE IInv'
    <2> USE <1>1
    <2>1. ASSUME NEW c \in Clients, NEW r \in Roots, OrgCreate(c, r) \/ OrgRotate(c, r)
          PROVE IInv'
      BY <2>1, CreateInv, RotateInv
    <2>2. ASSUME NEW c \in Clients, NEW u \in Names, NEW k \in Keys,
                 NEW gs \in SUBSET Names, NEW dev \in Devices,
                 OrgApprove(c, u, k, gs, dev)
          PROVE IInv'
      BY <2>2, ApproveInv
    <2>3. ASSUME NEW c \in Clients, NEW u \in Names, NEW dev \in Devices,
                 OrgRevokeDevice(c, u, dev)
          PROVE IInv'
      BY <2>3, RevokeDeviceInv
    <2>4. ASSUME NEW c \in Clients, NEW u \in Names, NEW b \in BOOLEAN,
                 OrgRevokeUser(c, u, b)
          PROVE IInv'
      BY <2>4, RevokeUserInv
    <2>5. ASSUME NEW c \in Clients, Promote(c) \/ Persist(c) \/ Pin(c) \/ Announce(c)
          PROVE IInv'
      BY <2>5, PromoteInv, PersistInv, PinInv, AnnounceInv
    <2>6. ASSUME NEW c \in Clients,
                 PersistRefused(c) \/ PromoteRefused(c) \/ WriteFails(c) \/ Disconnect(c)
          PROVE IInv'
      BY <2>6, FailInv, DisconnectInv
    <2>7. CASE Crash
      BY <2>7, CrashInv
    <2>8. ASSUME NEW j \in orphans,
                 LateCheck(j) \/ LateWrite(j) \/ LatePin(j) \/ LatePromote(j) \/ LateRestore(j)
          PROVE IInv'
      BY <2>8, LateCheckInv, LateWriteInv, LateKeyInv
    <2>9. CASE UNCHANGED vars
      <3>1. TypeOK' /\ HoldInv'
        BY <2>9 DEF vars, late, IInv, TypeOK, HoldInv, Carries
      <3>2. (BaseInv => BaseInv') /\ (CutInv => CutInv') /\ (LateInv => LateInv')
        BY <2>9 DEF vars, late, BaseInv, MadeFrom, CutInv, LateInv, Carries, Serial
      <3>3. overrun' = overrun
        BY <2>9 DEF vars, late
      <3> QED
        BY <3>1, <3>2, <3>3 DEF IInv, RecordInv
    <2> QED
      BY <2>1, <2>2, <2>3, <2>4, <2>5, <2>6, <2>7, <2>8, <2>9 DEF Next
  <1> QED
    BY <1>1, InitInv, PTL DEF Spec

-----------------------------------------------------------------------------
(* Keys, documents, locks and tasks keep their types, whatever fails.        *)
THEOREM TypeCorrect == Spec => []TypeOK
  <1>1. IInv => TypeOK
    BY DEF IInv
  <1> QED
    BY <1>1, Inductive, PTL

(* A revocation that org_revoke confirmed stays in the roster and the device *)
(* never resolves again, however many authors, failures, rotations, crashes, *)
(* disconnects and jobs left behind follow: org_author_lock makes each       *)
(* document from the last, and a job that comes late finds a serial as high  *)
(* as its own.  Only one overtaken between its check and its write gets by.  *)
THEOREM RevocationSticksHolds == Spec => []RevocationSticks
  <1>1. IInv => RevocationSticks
    BY DEF IInv, RecordInv, CutInv, RevocationSticks, Resolves
  <1> QED
    BY <1>1, Inductive, PTL
-----------------------------------------------------------------------------
(* The signing key, the pinned root and what they accept: what the proofs of *)
(* CanPublish and NeverRefused carry on top of IInv.                         *)

(* A request is a rotation, a creation, or another change to the roster.     *)
Rotating(c) == task[c].prior # NoRoot
Creating(c) == task[c].root # NoRoot /\ task[c].prior = NoRoot
Amending(c) == task[c].pc # "idle" /\ task[c].root = NoRoot

(* Rotations and changes are made under org_author_lock, from a roster.      *)
RoleInv ==
    /\ \A c \in Clients :
          /\ task[c].pc = "idle" => task[c] = IdleTask
          /\ task[c].pc = "promote" => Rotating(c)
          /\ Rotating(c) => task[c].root # NoRoot
          /\ author = c <=> Rotating(c) \/ Amending(c)
    /\ author # None => disk # NoDoc

(* A rotation hands out a document cross-signed by the key it replaces, and  *)
(* holds that key until the document is persisted or the key put back.       *)
RotateFacts ==
    \A c \in Clients : Rotating(c) =>
        /\ task[c].doc.signer = task[c].root
        /\ task[c].doc.succ = task[c].root
        /\ task[c].doc.cross = task[c].prior
        /\ task[c].pc = "promote" => key = task[c].prior /\ staged = task[c].root
        /\ task[c].pc \in {"persist", "pin"} => key = task[c].root
        /\ task[c].pc = "pin" => disk = task[c].doc /\ task[c].to = task[c].root

(* Has the rotation replaced org-root.key and not moved the pin yet?         *)
Promoted(c) == Rotating(c) /\ task[c].pc \in {"persist", "pin"}

(* The key the org publishes with: org-root.key, or the predecessor a        *)
(* rotation still would put back.                                            *)
InUse(k) ==
    \/ k = key /\ \A c \in Clients : ~Promoted(c)
    \/ \E c \in Clients : Promoted(c) /\ task[c].pc = "persist" /\ k = task[c].prior

(* org_create runs once, and nothing is pinned before it pins.               *)
CreateFacts ==
    /\ key = NoRoot => disk = NoDoc /\ pin = NoRoot /\ \A c \in Clients : task[c] = IdleTask
    /\ \A c, o \in Clients : Creating(c) /\ Creating(o) => c = o
    /\ \A c \in Clients : Creating(c) =>
          /\ task[c].doc = EmptyRoster(task[c].root)
          /\ task[c].pc = "persist" => disk = NoDoc /\ pin = NoRoot /\ key = task[c].root
          /\ task[c].pc = "pin" => /\ disk = task[c].doc /\ pin = NoRoot
                                   /\ task[c].to = task[c].root
                                   /\ ~midway => \A k \in MaybeRoot : InUse(k) => k = task[c].root

(* Another change keeps the cross-signature and is signed with the key; the  *)
(* root it adopts, if any, is that key.                                      *)
AmendFacts ==
    \A c \in Clients : Amending(c) =>
        /\ task[c].pc = "persist" =>
              /\ task[c].doc.signer = key
              /\ task[c].doc.cross = disk.cross /\ task[c].doc.succ = disk.succ
        /\ task[c].pc = "pin" => task[c].to \in {NoRoot, key}

(* Would the pinned root accept the roster on the disk signed with k?        *)
Fits(k) == k = pin \/ (disk.cross = pin /\ disk.succ # NoRoot /\ k = disk.succ)

SettledInv ==
    ~midway /\ disk # NoDoc /\ pin # NoRoot => \A k \in MaybeRoot : InUse(k) => Fits(k)

(* A waiting document is newer than the disk and passes the rules.           *)
ViewInv ==
    /\ disk # NoDoc => BuildsView(disk)
    /\ \A c \in Clients : task[c].pc \in {"promote", "persist"} =>
          /\ BuildsView(task[c].doc)
          /\ ~Creating(c) => task[c].doc.serial > disk.serial

KInv == RoleInv /\ RotateFacts /\ CreateFacts /\ AmendFacts /\ SettledInv /\ ViewInv

-----------------------------------------------------------------------------
(* The mutations keep the rules build_view checks.                           *)
LEMMA EmptyView == ASSUME NEW r \in Roots PROVE BuildsView(EmptyRoster(r))
  BY DEF BuildsView, EmptyRoster, Listed

(* A document whose members lost devices, or are gone.                       *)
LEMMA ShrinkView ==
  ASSUME NEW d \in Doc, NEW n \in Doc, BuildsView(d), n.groups = d.groups,
         d.revoked \subseteq n.revoked,
         \A v \in Names : n.users[v] # NoUser =>
             /\ d.users[v] # NoUser /\ n.users[v].groups = d.users[v].groups
             /\ n.users[v].devs \subseteq d.users[v].devs
  PROVE  BuildsView(n)
  <1>1. \A v \in Listed(n) : v \in Listed(d)
    BY DEF Listed
  <1>2. ASSUME NEW v \in Listed(n)
        PROVE  v \notin n.groups /\ n.users[v].groups \subseteq n.groups
    BY <1>1 DEF BuildsView, Listed
  <1>3. ASSUME NEW v \in Listed(n), NEW w \in Listed(n), v # w
        PROVE  n.users[v].devs \cap n.users[w].devs \subseteq n.revoked
    <2>1. d.users[v].devs \cap d.users[w].devs \subseteq d.revoked
      BY <1>1, <1>3 DEF BuildsView
    <2> QED
      BY <2>1 DEF Listed
  <1> QED
    BY <1>2, <1>3 DEF BuildsView

(* What upsert_member refuses is all that could break a rule.                *)
LEMMA UpsertView ==
  ASSUME NEW d \in Doc, BuildsView(d), NEW u \in Names, NEW k \in Keys,
         NEW gs \in SUBSET Names, NEW dev \in Devices, NEW r \in MaybeRoot,
         ~UpsertRefused(d, u, gs, dev),
         NEW n, n = Signed(UpsertMember(d, u, k, gs, dev), r)
  PROVE  BuildsView(n)
  <1>0. n \in Doc /\ n.revoked = d.revoked /\ Upserted(d, n, u, gs, dev)
    BY UpsertTyped
  <1>1. n.revoked = d.revoked /\ n.groups = d.groups \cup gs
    BY <1>0 DEF Upserted
  <1> DEFINE new == n.users[u]
  <1>2. /\ u \in Listed(d) => /\ new.groups \subseteq d.users[u].groups \cup gs
                              /\ new.devs \subseteq d.users[u].devs \cup {dev}
        /\ u \notin Listed(d) => new.groups \subseteq gs /\ new.devs \subseteq {dev}
    BY <1>0 DEF Upserted
  <1>3. \A v \in Names \ {u} : n.users[v] = d.users[v]
    BY <1>0 DEF Upserted
  <1>4. \A v \in Listed(n) : v \in Names /\ (v # u => v \in Listed(d) /\ n.users[v] = d.users[v])
    BY <1>3 DEF Listed
  <1>5. ASSUME NEW v \in Listed(n)
        PROVE  v \notin n.groups /\ n.users[v].groups \subseteq n.groups
    <2>1. CASE v = u
      <3>1. u \notin n.groups
        BY <1>1 DEF UpsertRefused
      <3>2. new.groups \subseteq n.groups
        BY <1>1, <1>2 DEF BuildsView
      <3> QED
        BY <1>3, <2>1, <3>1, <3>2
    <2>2. CASE v # u
      <3>1. v \in Listed(d) /\ n.users[v] = d.users[v]
        BY <1>4, <2>2
      <3>2. v \notin d.groups /\ d.users[v].groups \subseteq d.groups
        BY <3>1 DEF BuildsView
      <3>3. v \notin gs
        BY <2>2, <3>1 DEF UpsertRefused
      <3> QED
        BY <1>1, <3>1, <3>2, <3>3
    <2> QED
      BY <2>1, <2>2
  <1>6. ASSUME NEW v \in Listed(d), v # u
        PROVE  new.devs \cap d.users[v].devs \subseteq d.revoked
    <2>1. dev \notin d.users[v].devs
      BY <1>6 DEF UpsertRefused
    <2>2. u \in Listed(d) => d.users[u].devs \cap d.users[v].devs \subseteq d.revoked
      BY <1>6 DEF BuildsView
    <2> QED
      BY <1>2, <2>1, <2>2
  <1>7. ASSUME NEW v \in Listed(n), NEW w \in Listed(n), v # w
        PROVE  n.users[v].devs \cap n.users[w].devs \subseteq n.revoked
    <2>1. CASE v = u
      BY <1>1, <1>3, <1>4, <1>6, <1>7, <2>1
    <2>2. CASE w = u
      BY <1>1, <1>3, <1>4, <1>6, <1>7, <2>2
    <2>3. CASE v # u /\ w # u
      BY <1>1, <1>4, <1>7, <2>3 DEF BuildsView
    <2> QED
      BY <2>1, <2>2, <2>3
  <1> QED
    BY <1>5, <1>7 DEF BuildsView

-----------------------------------------------------------------------------
(* A request that has not begun or has ended plays no part.                  *)
LEMMA IdleRole ==
  ASSUME NEW c \in Clients, task[c] = IdleTask
  PROVE  ~Rotating(c) /\ ~Creating(c) /\ ~Amending(c) /\ ~Promoted(c)
  BY DEF Rotating, Creating, Amending, Promoted, IdleTask

LEMMA OneAuthor ==
  ASSUME RoleInv, NEW c \in Clients, Rotating(c) \/ Amending(c) \/ author = c,
         NEW o \in Clients, o # c
  PROVE  author = c /\ ~Rotating(o) /\ ~Amending(o) /\ ~Promoted(o)
  BY DEF RoleInv, Promoted

(* The parts of a request whose record the step leaves alone.                *)
LEMMA SameRole ==
  ASSUME NEW o \in Clients, task'[o] = task[o]
  PROVE  /\ Rotating(o)' <=> Rotating(o)
         /\ Creating(o)' <=> Creating(o)
         /\ Amending(o)' <=> Amending(o)
         /\ Promoted(o)' <=> Promoted(o)
  BY DEF Rotating, Creating, Amending, Promoted

LEMMA KeysInit == Init => KInv
  <1> SUFFICES ASSUME Init PROVE KInv
    OBVIOUS
  <1>1. \A c \in Clients : task[c] = IdleTask
    BY DEF Init
  <1>2. \A c \in Clients : ~Rotating(c) /\ ~Creating(c) /\ ~Amending(c) /\ ~Promoted(c)
    BY <1>1, IdleRole
  <1>3. disk = NoDoc /\ pin = NoRoot /\ author = None
    BY DEF Init
  <1> QED
    BY <1>1, <1>2, <1>3, IdleTyped, ConstAssumption
       DEF KInv, RoleInv, RotateFacts, CreateFacts, AmendFacts, SettledInv, ViewInv

(* A request that ends, by its answer, a failure or a disconnect.            *)
LEMMA EndKeys ==
  ASSUME IInv, KInv, NEW c \in Clients, task' = [task EXCEPT ![c] = IdleTask], Release(c),
         UNCHANGED <<disk, pin, staged>>,
         key' = key \/ (Rotating(c) /\ key' = task[c].prior),
         ~midway' => /\ ~midway
                     /\ \A k \in MaybeRoot : InUse(k)' =>
                           InUse(k) \/ (task[c].pc = "pin" /\ (pin # NoRoot => Fits(k)))
  PROVE  KInv'
  <1> USE DEF KInv
  <1>1. task'[c] = IdleTask /\ \A o \in Clients : o # c => task'[o] = task[o]
    BY SetTask, IdleTyped DEF IInv
  <1>2. ~Rotating(c)' /\ ~Creating(c)' /\ ~Amending(c)' /\ ~Promoted(c)'
    BY <1>1, IdleRole DEF Rotating, Creating, Amending, Promoted, IdleTask
  <1>3. \A o \in Clients : o # c => /\ Rotating(o)' <=> Rotating(o)
                                    /\ Creating(o)' <=> Creating(o)
                                    /\ Amending(o)' <=> Amending(o)
                                    /\ Promoted(o)' <=> Promoted(o)
    BY <1>1, SameRole
  <1>4. author' # c /\ \A o \in Clients : o # c => (author' = o <=> author = o)
    BY ConstAssumption DEF Release
  <1>5. author' # None => author # None
    BY DEF Release
  <1>6. RoleInv'
    BY <1>1, <1>2, <1>3, <1>4, <1>5, IdleTyped DEF RoleInv
  <1>7. \A o \in Clients : o # c /\ (Rotating(o) \/ Amending(o)) => key' = key
    BY OneAuthor
  <1>8. RotateFacts'
    BY <1>1, <1>2, <1>3, <1>7 DEF RotateFacts
  <1>9. AmendFacts'
    BY <1>1, <1>2, <1>3, <1>7 DEF AmendFacts
  <1>10. ViewInv'
    BY <1>1, <1>2, <1>3, IdleTyped DEF ViewInv
  <1>11. disk = NoDoc => key' = key
    BY ConstAssumption DEF RoleInv
  <1>12. CreateFacts'
    <2>1. key' = NoRoot => disk' = NoDoc /\ pin' = NoRoot /\ \A o \in Clients : task'[o] = IdleTask
      BY <1>1 DEF CreateFacts, Rotating
    <2>2. \A o, q \in Clients : Creating(o)' /\ Creating(q)' => o = q
      BY <1>2, <1>3 DEF CreateFacts
    <2>3. ASSUME NEW o \in Clients, Creating(o)', task'[o].pc = "pin", ~midway',
                 NEW k \in MaybeRoot, InUse(k)'
          PROVE  k = task'[o].root
      <3>1. o # c /\ Creating(o) /\ task[o].pc = "pin" /\ task[c].pc # "pin"
        BY <1>1, <1>2, <1>3, <2>3 DEF IInv, HoldInv
      <3> QED
        BY <1>1, <2>3, <3>1 DEF CreateFacts
    <2>4. ASSUME NEW o \in Clients, Creating(o)'
          PROVE  /\ task'[o].doc = EmptyRoster(task'[o].root)
                 /\ task'[o].pc = "persist" => disk' = NoDoc /\ pin' = NoRoot /\ key' = task'[o].root
                 /\ task'[o].pc = "pin" => /\ disk' = task'[o].doc /\ pin' = NoRoot
                                           /\ task'[o].to = task'[o].root
      BY <1>1, <1>2, <1>3, <1>11, <2>4 DEF CreateFacts
    <2> QED
      BY <2>1, <2>2, <2>3, <2>4 DEF CreateFacts
  <1>13. SettledInv'
    BY DEF SettledInv, Fits
  <1> QED
    BY <1>6, <1>8, <1>9, <1>10, <1>12, <1>13

(* What is in use once the only rotation has ended.                          *)
LEMMA EndInUse ==
  ASSUME IInv, KInv, NEW c \in Clients, task' = [task EXCEPT ![c] = IdleTask],
         NEW k, InUse(k)'
  PROVE  \/ k = key' /\ (Promoted(c) \/ \A o \in Clients : ~Promoted(o))
         \/ ~Promoted(c) /\ \E o \in Clients :
               Promoted(o) /\ task[o].pc = "persist" /\ k = task[o].prior
  <1>1. task'[c] = IdleTask /\ \A o \in Clients : o # c => task'[o] = task[o]
    BY SetTask, IdleTyped DEF IInv
  <1>2. ~Promoted(c)'
    BY <1>1, IdleTyped DEF Promoted
  <1>3. \A o \in Clients : o # c => (Promoted(o)' <=> Promoted(o))
    BY <1>1, SameRole
  <1>4. \A o \in Clients : o # c /\ Promoted(o) => ~Promoted(c)
    BY OneAuthor DEF KInv, Promoted
  <1> QED
    BY <1>1, <1>2, <1>3, <1>4 DEF InUse

LEMMA AnnounceKeys ==
  ASSUME IInv, KInv, NEW c \in Clients, Announce(c)
  PROVE  KInv'
  <1>1. /\ task[c].pc = "announce" /\ task' = [task EXCEPT ![c] = IdleTask] /\ Release(c)
        /\ UNCHANGED <<key, staged, disk, pin, midway>>
    BY DEF Announce
  <1>2. ~Promoted(c)
    BY <1>1 DEF Promoted
  <1>3. \A k \in MaybeRoot : InUse(k)' => InUse(k)
    BY <1>1, <1>2, EndInUse DEF InUse
  <1> QED
    BY <1>1, <1>3, EndKeys

(* A failed rotation puts its predecessor back.                              *)
LEMMA FailKeys ==
  ASSUME IInv, KInv, NEW c \in Clients,
         PersistRefused(c) \/ PromoteRefused(c) \/ WriteFails(c)
  PROVE  KInv'
  <1>1. /\ task' = [task EXCEPT ![c] = IdleTask] /\ Release(c)
        /\ UNCHANGED <<staged, disk, pin>>
        /\ key' = IF task[c].prior # NoRoot /\ task[c].pc # "promote"
                  THEN task[c].prior ELSE key
        /\ task[c].pc \in {"promote", "persist", "pin"}
        /\ ~midway' => ~midway /\ ~OnUnpinned(c)
    <2>1. CASE PersistRefused(c) \/ PromoteRefused(c)
      BY <2>1 DEF PersistRefused, PromoteRefused, Fail, OnUnpinned
    <2>2. CASE WriteFails(c)
      BY <2>2 DEF WriteFails, Fail
    <2> QED
      BY <2>1, <2>2
  <1>2. ASSUME ~midway', NEW k \in MaybeRoot, InUse(k)'
        PROVE  InUse(k) \/ (task[c].pc = "pin" /\ (pin # NoRoot => Fits(k)))
    <2>1. CASE ~Promoted(c)
      <3>1. key' = key
        BY <1>1, <2>1 DEF Promoted, Rotating
      <3> QED
        BY <1>1, <1>2, <2>1, <3>1, EndInUse DEF InUse
    <2>2. CASE Promoted(c) /\ task[c].pc = "persist"
      <3>1. k = key' /\ key' = task[c].prior
        BY <1>1, <1>2, <2>2, EndInUse DEF Promoted, Rotating
      <3> QED
        BY <2>2, <3>1 DEF InUse
    <2>3. CASE Promoted(c) /\ task[c].pc = "pin"
      <3>1. k = task[c].prior
        BY <1>1, <1>2, <2>3, EndInUse DEF Promoted, Rotating
      <3>2. pin \in {task[c].prior, NoRoot}
        BY <1>1, <1>2, <2>3 DEF OnUnpinned, Promoted, Rotating
      <3> QED
        BY <2>3, <3>1, <3>2 DEF Fits
    <2> QED
      BY <2>1, <2>2, <2>3 DEF Promoted
  <1>3. key' = key \/ (Rotating(c) /\ key' = task[c].prior)
    BY <1>1 DEF Rotating
  <1> QED
    BY <1>1, <1>2, <1>3, EndKeys

(* A rotation that is stopped at its pin leaves a document its predecessor   *)
(* cross-signed.                                                             *)
LEMMA DisconnectKeys ==
  ASSUME IInv, KInv, NEW c \in Clients, Disconnect(c)
  PROVE  KInv'
  <1>1. /\ task' = [task EXCEPT ![c] = IdleTask] /\ Release(c)
        /\ UNCHANGED <<key, staged, disk, pin>>
        /\ ~midway' => ~midway /\ ~Midway(c)
    BY DEF Disconnect
  <1>2. ASSUME ~midway', NEW k \in MaybeRoot, InUse(k)'
        PROVE  InUse(k) \/ (task[c].pc = "pin" /\ (pin # NoRoot => Fits(k)))
    <2>1. CASE ~Promoted(c)
      BY <1>1, <1>2, <2>1, EndInUse DEF InUse
    <2>2. CASE Promoted(c)
      <3>1. task[c].pc = "pin" /\ pin \in {task[c].prior, NoRoot}
        BY <1>1, <1>2, <2>2 DEF Midway, OnUnpinned, Promoted, Rotating
      <3>2. k = task[c].root /\ disk = task[c].doc /\ task[c].root # NoRoot
        BY <1>1, <1>2, <2>2, <3>1, EndInUse DEF KInv, RotateFacts, RoleInv, Promoted
      <3>3. disk.cross = task[c].prior /\ disk.succ = task[c].root
        BY <2>2, <3>2 DEF KInv, RotateFacts, Promoted
      <3> QED
        BY <3>1, <3>2, <3>3 DEF Fits
    <2> QED
      BY <2>1, <2>2
  <1> QED
    BY <1>1, <1>2, EndKeys

(* And so does one the daemon stops in.                                      *)
LEMMA CrashKeys ==
  ASSUME IInv, KInv, Crash
  PROVE  KInv'
  <1> USE DEF KInv
  <1>1. /\ \A c \in Clients : task'[c] = IdleTask
        /\ UNCHANGED <<key, staged, disk, pin>> /\ author' = None
        /\ ~midway' => ~midway /\ \A c \in Clients : ~Midway(c)
    BY DEF Crash
  <1>2. \A c \in Clients : ~Rotating(c)' /\ ~Creating(c)' /\ ~Amending(c)' /\ ~Promoted(c)'
    BY <1>1 DEF Rotating, Creating, Amending, Promoted, IdleTask
  <1>3. RoleInv' /\ RotateFacts' /\ CreateFacts' /\ AmendFacts' /\ ViewInv'
    BY <1>1, <1>2, IdleTyped, ConstAssumption
       DEF RoleInv, RotateFacts, CreateFacts, AmendFacts, ViewInv
  <1>4. ASSUME ~midway', disk # NoDoc, pin # NoRoot
        PROVE  Fits(key)
    <2>1. CASE \A c \in Clients : ~Promoted(c)
      <3>1. InUse(key) /\ key \in MaybeRoot
        BY <2>1 DEF InUse, IInv, TypeOK
      <3> QED
        BY <1>1, <1>4, <3>1 DEF SettledInv
    <2>2. ASSUME NEW c \in Clients, Promoted(c) PROVE Fits(key)
      <3>1. task[c].pc = "pin" /\ pin = task[c].prior
        BY <1>1, <1>4, <2>2 DEF Midway, OnUnpinned, Promoted, Rotating
      <3>2. key = task[c].root /\ disk = task[c].doc /\ task[c].root # NoRoot
        BY <2>2, <3>1 DEF RotateFacts, RoleInv, Promoted
      <3>3. disk.cross = task[c].prior /\ disk.succ = task[c].root
        BY <2>2, <3>2 DEF RotateFacts, Promoted
      <3> QED
        BY <3>1, <3>2, <3>3 DEF Fits
    <2> QED
      BY <2>1, <2>2
  <1>5. SettledInv'
    BY <1>1, <1>2, <1>4 DEF SettledInv, InUse, Fits
  <1> QED
    BY <1>3, <1>5

(* org_create runs before anything else exists.                              *)
LEMMA CreateKeys ==
  ASSUME IInv, KInv, NEW c \in Clients, NEW r \in Roots, OrgCreate(c, r)
  PROVE  KInv'
  <1> DEFINE t == [pc |-> "persist", doc |-> EmptyRoster(r), root |-> r,
                   prior |-> NoRoot, cut |-> {}, to |-> NoRoot]
  <1> USE DEF KInv
  <1>1. task' = [task EXCEPT ![c] = t] /\ key = NoRoot /\ key' = r
        /\ UNCHANGED <<staged, disk, pin, author, midway>>
    BY DEF OrgCreate, Submit
  <1>2. r \in MaybeRoot /\ NoRoot \in MaybeRoot /\ r # NoRoot
    BY ConstAssumption DEF MaybeRoot
  <1>3. t \in TaskType
    BY <1>2, EmptyTyped, SubmitTyped
  <1>4. t.doc = EmptyRoster(r) /\ t.root = r /\ t.prior = NoRoot /\ t.pc = "persist"
    OBVIOUS
  <1> HIDE DEF t
  <1>5. task'[c] = t /\ \A o \in Clients : o # c => task'[o] = task[o]
    BY <1>1, <1>3, SetTask DEF IInv
  <1>6. disk = NoDoc /\ pin = NoRoot /\ \A o \in Clients : task[o] = IdleTask
    BY <1>1 DEF CreateFacts
  <1>7. Creating(c)' /\ ~Rotating(c)' /\ ~Amending(c)' /\ ~Promoted(c)'
    BY <1>2, <1>4, <1>5 DEF Creating, Rotating, Amending, Promoted
  <1>8. \A o \in Clients : o # c =>
            task'[o] = IdleTask /\ ~Rotating(o)' /\ ~Creating(o)' /\ ~Amending(o)'
    BY <1>5, <1>6 DEF Creating, Rotating, Amending, IdleTask
  <1>9. author = None
    BY <1>6, IdleRole DEF IInv, TypeOK, RoleInv
  <1>10. RoleInv' /\ RotateFacts' /\ AmendFacts' /\ SettledInv'
    BY <1>1, <1>4, <1>5, <1>6, <1>7, <1>8, <1>9, IdleTyped, ConstAssumption
       DEF RoleInv, RotateFacts, AmendFacts, SettledInv
  <1>11. CreateFacts'
    BY <1>1, <1>2, <1>4, <1>5, <1>6, <1>7, <1>8 DEF CreateFacts
  <1>12. ViewInv'
    BY <1>1, <1>4, <1>5, <1>6, <1>7, <1>8, IdleTyped, EmptyView DEF ViewInv
  <1> QED
    BY <1>10, <1>11, <1>12

(* A verb that begins under org_author_lock changes no key and no pin.       *)
LEMMA StartKeys ==
  ASSUME IInv, KInv, NEW c \in Clients, NEW t \in TaskType, Authoring(c),
         task' = [task EXCEPT ![c] = t], author' = c,
         UNCHANGED <<key, disk, pin, midway>>,
         BuildsView(t.doc), t.doc.serial > disk.serial,
         \/ /\ t.pc = "persist" /\ t.root = NoRoot /\ t.prior = NoRoot
            /\ t.doc.signer = key /\ t.doc.cross = disk.cross /\ t.doc.succ = disk.succ
         \/ /\ t.pc = "promote" /\ t.root \in Roots /\ t.prior = key /\ staged' = t.root
            /\ t.doc.signer = t.root /\ t.doc.succ = t.root /\ t.doc.cross = key
  PROVE  KInv'
  <1> USE DEF KInv
  <1>1. task'[c] = t /\ \A o \in Clients : o # c => task'[o] = task[o]
    BY SetTask DEF IInv
  <1>2. /\ task[c] = IdleTask /\ author = None /\ disk # NoDoc /\ disk \in Doc
        /\ key \in Roots /\ key # NoRoot
    BY AuthoringFacts, ConstAssumption
  <1>3. \A o \in Clients : ~Rotating(o) /\ ~Amending(o) /\ ~Promoted(o)
    BY <1>2, ConstAssumption DEF RoleInv, Promoted
  <1>4. t.root \in Roots => t.root # NoRoot
    BY ConstAssumption
  <1>5. /\ ~Creating(c)' /\ ~Promoted(c)' /\ ~Creating(c)
        /\ Rotating(c)' <=> t.pc = "promote"
        /\ Amending(c)' <=> t.pc = "persist"
    BY <1>1, <1>2, <1>4, IdleRole DEF Creating, Rotating, Amending, Promoted
  <1>6. \A o \in Clients : o # c => /\ ~Rotating(o)' /\ ~Amending(o)' /\ ~Promoted(o)'
                                    /\ Creating(o)' <=> Creating(o)
    BY <1>1, <1>3, SameRole
  <1>7. RoleInv'
    BY <1>1, <1>2, <1>4, <1>5, <1>6 DEF RoleInv, Rotating
  <1>8. RotateFacts'
    BY <1>1, <1>5, <1>6 DEF RotateFacts
  <1>9. AmendFacts'
    BY <1>1, <1>5, <1>6 DEF AmendFacts
  <1>10. ViewInv'
    BY <1>1, <1>5, <1>6 DEF ViewInv
  <1>11. \A k \in MaybeRoot : InUse(k)' => InUse(k)
    BY <1>3, <1>5, <1>6 DEF InUse
  <1>12. CreateFacts'
    <2>1. key' # NoRoot
      BY <1>2
    <2>2. \A o \in Clients : Creating(o)' => o # c /\ Creating(o) /\ task'[o] = task[o]
      BY <1>1, <1>5, <1>6
    <2> QED
      BY <1>11, <2>1, <2>2 DEF CreateFacts
  <1>13. SettledInv'
    BY <1>11 DEF SettledInv, Fits
  <1> QED
    BY <1>7, <1>8, <1>9, <1>10, <1>12, <1>13

LEMMA ApproveKeys ==
  ASSUME IInv, KInv, NEW c \in Clients, NEW u \in Names, NEW k \in Keys,
         NEW gs \in SUBSET Names, NEW dev \in Devices, OrgApprove(c, u, k, gs, dev)
  PROVE  KInv'
  <1> DEFINE d == [UpsertMember(disk, u, k, gs, dev) EXCEPT !.signer = key]
             t == [pc |-> "persist", doc |-> d, root |-> NoRoot, prior |-> NoRoot,
                   cut |-> {}, to |-> NoRoot]
  <1>1. /\ task' = [task EXCEPT ![c] = t] /\ Authoring(c) /\ author' = c
        /\ UNCHANGED <<key, disk, pin, midway>> /\ ~UpsertRefused(disk, u, gs, dev)
    BY DEF OrgApprove, Submit
  <1>d. d = Signed(UpsertMember(disk, u, k, gs, dev), key)
    BY DEF Signed
  <1> HIDE DEF d
  <1>2. disk \in Doc /\ key \in MaybeRoot /\ disk # NoDoc
    BY <1>1, AuthoringFacts
  <1>3. /\ d \in Doc /\ d.serial = disk.serial + 1
        /\ d.signer = key /\ d.cross = disk.cross /\ d.succ = disk.succ
    BY <1>d, <1>2, UpsertTyped
  <1>4. BuildsView(d)
    BY <1>d, <1>1, <1>2, UpsertView DEF KInv, ViewInv
  <1>5. d.serial > disk.serial
    BY <1>2, <1>3 DEF Doc
  <1>6. t \in TaskType
    BY <1>3, SubmitTyped DEF MaybeRoot
  <1>7. t.doc = d /\ t.pc = "persist" /\ t.root = NoRoot /\ t.prior = NoRoot
    OBVIOUS
  <1> HIDE DEF t
  <1> QED
    BY <1>1, <1>3, <1>4, <1>5, <1>6, <1>7, StartKeys

LEMMA RevokeDeviceKeys ==
  ASSUME IInv, KInv, NEW c \in Clients, NEW u \in Names, NEW dev \in Devices,
         OrgRevokeDevice(c, u, dev)
  PROVE  KInv'
  <1> DEFINE d == [RevokeDevice(disk, u, dev) EXCEPT !.signer = key]
             t == [pc |-> "persist", doc |-> d, root |-> NoRoot, prior |-> NoRoot,
                   cut |-> {dev}, to |-> NoRoot]
  <1>1. /\ task' = [task EXCEPT ![c] = t] /\ Authoring(c) /\ author' = c
        /\ UNCHANGED <<key, disk, pin, midway>> /\ u \in Listed(disk)
    BY DEF OrgRevokeDevice, Submit
  <1>d. d = Signed(RevokeDevice(disk, u, dev), key)
    BY DEF Signed
  <1> HIDE DEF d
  <1>2. disk \in Doc /\ key \in MaybeRoot /\ disk # NoDoc
    BY <1>1, AuthoringFacts
  <1>3. /\ d \in Doc /\ d.serial = disk.serial + 1
        /\ d.revoked = disk.revoked \cup {dev} /\ d.groups = disk.groups
        /\ d.signer = key /\ d.cross = disk.cross /\ d.succ = disk.succ
        /\ \A v \in Names \ {u} : d.users[v] = disk.users[v]
        /\ d.users[u].groups = disk.users[u].groups
        /\ d.users[u].devs \subseteq disk.users[u].devs
    BY <1>d, <1>1, <1>2, RevokeTyped
  <1>4. \A v \in Names : d.users[v] # NoUser =>
            /\ disk.users[v] # NoUser /\ d.users[v].groups = disk.users[v].groups
            /\ d.users[v].devs \subseteq disk.users[v].devs
    BY <1>1, <1>3 DEF Listed
  <1>5. BuildsView(d)
    BY <1>2, <1>3, <1>4, ShrinkView DEF KInv, ViewInv
  <1>6. d.serial > disk.serial
    BY <1>2, <1>3 DEF Doc
  <1>7. t \in TaskType
    BY <1>3, SubmitTyped DEF MaybeRoot
  <1>8. t.doc = d /\ t.pc = "persist" /\ t.root = NoRoot /\ t.prior = NoRoot
    OBVIOUS
  <1> HIDE DEF t
  <1> QED
    BY <1>1, <1>3, <1>5, <1>6, <1>7, <1>8, StartKeys

LEMMA RevokeUserKeys ==
  ASSUME IInv, KInv, NEW c \in Clients, NEW u \in Names, NEW b \in BOOLEAN,
         OrgRevokeUser(c, u, b)
  PROVE  KInv'
  <1> DEFINE d == [RemoveUser(disk, u, b) EXCEPT !.signer = key]
             v == IF b THEN disk.users[u].devs ELSE {}
             t == [pc |-> "persist", doc |-> d, root |-> NoRoot, prior |-> NoRoot,
                   cut |-> v, to |-> NoRoot]
  <1>1. /\ task' = [task EXCEPT ![c] = t] /\ Authoring(c) /\ author' = c
        /\ UNCHANGED <<key, disk, pin, midway>> /\ u \in Listed(disk)
    BY DEF OrgRevokeUser, Submit
  <1>d. d = Signed(RemoveUser(disk, u, b), key)
    BY DEF Signed
  <1> HIDE DEF d
  <1>2. disk \in Doc /\ key \in MaybeRoot /\ disk # NoDoc
    BY <1>1, AuthoringFacts
  <1>3. /\ d \in Doc /\ d.serial = disk.serial + 1 /\ v \in SUBSET Devices
        /\ d.revoked = disk.revoked \cup v /\ d.groups = disk.groups
        /\ d.signer = key /\ d.cross = disk.cross /\ d.succ = disk.succ
        /\ \A w \in Names \ {u} : d.users[w] = disk.users[w]
        /\ d.users[u] = NoUser
    BY <1>d, <1>1, <1>2, RemoveTyped
  <1> HIDE DEF v
  <1>4. \A w \in Names : d.users[w] # NoUser => d.users[w] = disk.users[w]
    BY <1>3
  <1>5. BuildsView(d)
    BY <1>2, <1>3, <1>4, ShrinkView DEF KInv, ViewInv
  <1>6. d.serial > disk.serial
    BY <1>2, <1>3 DEF Doc
  <1>7. t \in TaskType
    BY <1>3, SubmitTyped DEF MaybeRoot
  <1>8. t.doc = d /\ t.pc = "persist" /\ t.root = NoRoot /\ t.prior = NoRoot
    OBVIOUS
  <1> HIDE DEF t
  <1> QED
    BY <1>1, <1>3, <1>5, <1>6, <1>7, <1>8, StartKeys

LEMMA RotateKeys ==
  ASSUME IInv, KInv, NEW c \in Clients, NEW r \in Roots, OrgRotate(c, r)
  PROVE  KInv'
  <1> DEFINE d == [disk EXCEPT !.serial = @ + 1, !.cross = key, !.succ = r, !.signer = r]
             t == [pc |-> "promote", doc |-> d, root |-> r, prior |-> key, cut |-> {}, to |-> NoRoot]
  <1>1. /\ task' = [task EXCEPT ![c] = t] /\ Authoring(c) /\ author' = c
        /\ UNCHANGED <<key, disk, pin, midway>> /\ staged' = r
    BY DEF OrgRotate
  <1>d. d = CrossSigned(disk, key, r)
    BY DEF CrossSigned
  <1> HIDE DEF d
  <1>2. disk \in Doc /\ key \in MaybeRoot /\ disk # NoDoc /\ r \in MaybeRoot
    BY <1>1, AuthoringFacts DEF MaybeRoot
  <1>3. /\ d \in Doc /\ d.serial = disk.serial + 1 /\ d.revoked = disk.revoked
        /\ d.groups = disk.groups /\ d.users = disk.users
        /\ d.signer = r /\ d.cross = key /\ d.succ = r
    BY <1>d, <1>2, RotateTyped
  <1>4. BuildsView(d)
    BY <1>2, <1>3, ShrinkView DEF KInv, ViewInv
  <1>5. d.serial > disk.serial
    BY <1>2, <1>3 DEF Doc
  <1>6. t \in TaskType
    BY <1>2, <1>3, SubmitTyped
  <1>7. t.doc = d /\ t.pc = "promote" /\ t.root = r /\ t.prior = key
    OBVIOUS
  <1> HIDE DEF t
  <1> QED
    BY <1>1, <1>3, <1>4, <1>5, <1>6, <1>7, StartKeys

(* The promotion changes org-root.key; the key in use stays the predecessor. *)
LEMMA PromoteKeys ==
  ASSUME IInv, KInv, NEW c \in Clients, Promote(c)
  PROVE  KInv'
  <1> USE DEF KInv
  <1>1. /\ task[c].pc = "promote" /\ key' = staged /\ UNCHANGED <<disk, pin, author, midway>>
    BY DEF Promote
  <1>m. task' = [task EXCEPT ![c].pc = "persist", ![c].prior = key]
    BY DEF Promote
  <1>0. TypeOK /\ key \in MaybeRoot /\ task[c].to \in MaybeRoot /\ "persist" \in TaskPc
        /\ key = task[c].prior
    BY <1>1, PriorTo DEF TaskPc, IInv, TypeOK, RoleInv, RotateFacts
  <1>2. /\ task'[c].pc = "persist" /\ task'[c].doc = task[c].doc
        /\ task'[c].root = task[c].root /\ task'[c].prior = task[c].prior
        /\ \A o \in Clients : o # c => task'[o] = task[o]
    BY ONLY <1>0, <1>m, MovePromoted
  <1>3. /\ Rotating(c) /\ author = c /\ disk # NoDoc /\ task[c].root # NoRoot
        /\ key = task[c].prior /\ key' = task[c].root /\ ~Promoted(c)
    BY <1>1, ConstAssumption DEF RoleInv, RotateFacts, Promoted
  <1>4. Rotating(c)' /\ ~Creating(c)' /\ ~Amending(c)' /\ Promoted(c)' /\ ~Creating(c)
    BY <1>2, <1>3 DEF Rotating, Creating, Amending, Promoted
  <1>5. \A o \in Clients : o # c => /\ ~Rotating(o) /\ ~Amending(o) /\ ~Promoted(o)
                                    /\ ~Rotating(o)' /\ ~Amending(o)' /\ ~Promoted(o)'
                                    /\ Creating(o)' <=> Creating(o)
    BY <1>2, <1>3, OneAuthor, SameRole
  <1>6. RoleInv'
    BY <1>1, <1>2, <1>3, <1>4, <1>5 DEF RoleInv
  <1>7. RotateFacts'
    BY <1>1, <1>2, <1>3, <1>4, <1>5 DEF RotateFacts
  <1>8. AmendFacts'
    BY <1>4, <1>5 DEF AmendFacts
  <1>9. ViewInv'
    BY <1>1, <1>2, <1>3, <1>4, <1>5 DEF ViewInv, Creating, Rotating
  <1>10. \A k \in MaybeRoot : InUse(k)' => InUse(k)
    <2>1. \A k \in MaybeRoot : InUse(k)' => k = key
      BY <1>2, <1>3, <1>4, <1>5 DEF InUse
    <2>2. \A o \in Clients : ~Promoted(o)
      BY <1>3, <1>5
    <2> QED
      BY <2>1, <2>2 DEF InUse
  <1>11. CreateFacts'
    <2>1. \A o \in Clients : Creating(o)' => o # c /\ Creating(o) /\ task'[o] = task[o]
      BY <1>2, <1>4, <1>5
    <2> QED
      BY <1>1, <1>3, <1>10, <2>1 DEF CreateFacts
  <1>12. SettledInv'
    BY <1>1, <1>10 DEF SettledInv, Fits
  <1> QED
    BY <1>6, <1>7, <1>8, <1>9, <1>11, <1>12

(* A request that may persist is the only one there is: a creation precedes  *)
(* the first roster, the other verbs hold org_author_lock, and none is at    *)
(* its pin or its announcement while reload_lock is free.                    *)
LEMMA PersistAlone ==
  ASSUME IInv, KInv, NEW c \in Clients, task[c].pc = "persist", lock = None,
         NEW o \in Clients, o # c
  PROVE  task[o] = IdleTask
  <1> USE DEF KInv
  <1>1. task[o].pc \in {"idle", "promote", "persist"}
    BY ConstAssumption DEF IInv, HoldInv, TypeOK, TaskPc
  <1>2. task[c].pc # "idle" /\ (Rotating(c) \/ Amending(c) \/ Creating(c))
    BY DEF Rotating, Amending, Creating
  <1>3. task[o].pc # "idle" => Rotating(o) \/ Amending(o) \/ Creating(o)
    BY DEF Rotating, Amending, Creating
  <1>4. CASE disk = NoDoc
    <2>1. author = None
      BY <1>4 DEF RoleInv
    <2>2. ~Rotating(c) /\ ~Amending(c) /\ ~Rotating(o) /\ ~Amending(o)
      BY <2>1, ConstAssumption DEF RoleInv
    <2> QED
      BY <1>1, <1>2, <1>3, <2>2 DEF CreateFacts, RoleInv
  <1>5. CASE disk # NoDoc
    <2>1. Rotating(c) \/ Amending(c)
      BY <1>2, <1>5 DEF CreateFacts
    <2>2. ~Rotating(o) /\ ~Amending(o)
      BY <2>1, OneAuthor
    <2>3. task[o].pc # "promote" /\ (task[o].pc = "persist" => ~Creating(o))
      BY <1>5, <2>2 DEF CreateFacts, RoleInv
    <2> QED
      BY <1>1, <1>3, <2>2, <2>3 DEF RoleInv
  <1> QED
    BY <1>4, <1>5

LEMMA PersistKeys ==
  ASSUME IInv, KInv, NEW c \in Clients, Persist(c)
  PROVE  KInv'
  <1> USE DEF KInv
  <1>1. /\ task[c].pc = "persist" /\ lock = None /\ disk' = task[c].doc
        /\ UNCHANGED <<key, staged, pin, author, midway>>
        /\ BuildsView(task[c].doc)
    BY DEF Persist, Accepts
  <1>m. task' = [task EXCEPT ![c].pc = "pin", ![c].to = ToPin(c)]
    BY DEF Persist
  <1>v. Trusts(Anchor(c), task[c].doc)
    BY DEF Persist, Accepts
  <1>0. TypeOK /\ ToPin(c) \in MaybeRoot /\ "pin" \in TaskPc
    BY <1>1, ToPinTyped DEF TaskPc, IInv
  <1>p. PICK r \in MaybeRoot : r = ToPin(c)
    BY <1>0
  <1>2. /\ task'[c].pc = "pin" /\ task'[c].doc = task[c].doc
        /\ task'[c].root = task[c].root /\ task'[c].prior = task[c].prior
        /\ task'[c].to = ToPin(c)
        /\ \A o \in Clients : o # c => task'[o] = task[o]
    <2>1. task' = [task EXCEPT ![c].pc = "pin", ![c].to = r] /\ TypeOK /\ "pin" \in TaskPc
      BY <1>0, <1>m, <1>p
    <2>2. /\ task'[c].pc = "pin" /\ task'[c].doc = task[c].doc
          /\ task'[c].root = task[c].root /\ task'[c].prior = task[c].prior
          /\ task'[c].to = r
          /\ \A o \in Clients : o # c => task'[o] = task[o]
      BY ONLY <2>1 DEF TypeOK
    <2> QED
      BY <1>p, <2>2
  <1>3. \A o \in Clients : o # c => /\ task[o] = IdleTask /\ task'[o] = IdleTask
                                    /\ ~Rotating(o) /\ ~Amending(o) /\ ~Creating(o)
                                    /\ ~Promoted(o)
                                    /\ ~Rotating(o)' /\ ~Amending(o)' /\ ~Creating(o)'
                                    /\ ~Promoted(o)'
    BY <1>1, <1>2, PersistAlone, IdleRole, SameRole
  <1>4. /\ Rotating(c)' <=> Rotating(c)
        /\ Creating(c)' <=> Creating(c)
        /\ Amending(c)' <=> Amending(c)
        /\ Promoted(c)' <=> Rotating(c)
    BY <1>1, <1>2 DEF Rotating, Creating, Amending, Promoted
  <1>5. Rotating(c) \/ Amending(c) \/ Creating(c)
    BY <1>1 DEF Rotating, Amending, Creating
  <1>6. disk' # NoDoc
    BY <1>1, DocAssumption DEF IInv, HoldInv
  <1>7. key # NoRoot
    BY <1>1, IdleTyped DEF CreateFacts
  <1>8. RoleInv'
    BY <1>1, <1>2, <1>3, <1>4, <1>6, IdleTyped DEF RoleInv
  <1>t. task[c].root # NoRoot /\ task[c].doc.signer = task[c].root => ToPin(c) = task[c].root
    BY DEF ToPin, Anchor
  <1>9. RotateFacts'
    <2>1. Rotating(c) => ToPin(c) = task[c].root
      BY <1>t DEF RotateFacts, RoleInv
    <2> QED
      BY <1>1, <1>2, <1>3, <1>4, <2>1 DEF RotateFacts
  <1>10. AmendFacts'
    <2>1. ASSUME Amending(c) PROVE ToPin(c) \in {NoRoot, key}
      <3>1. task[c].root = NoRoot /\ task[c].doc.signer = key
        BY <1>1, <2>1 DEF Amending, AmendFacts
      <3> QED
        BY <1>v, <3>1 DEF ToPin, Trusts
    <2> QED
      BY <1>1, <1>2, <1>3, <1>4, <2>1 DEF AmendFacts
  <1>11. ViewInv'
    BY <1>1, <1>2, <1>3, IdleTyped DEF ViewInv
  <1>12. CreateFacts'
    <2>1. ASSUME Creating(c), NEW k \in MaybeRoot, InUse(k)'
          PROVE  k = task'[c].root
      <3>1. key = task[c].root
        BY <1>1, <2>1 DEF CreateFacts
      <3>2. k = key
        BY <1>1, <1>2, <1>3, <2>1 DEF InUse
      <3> QED
        BY <1>2, <3>1, <3>2
    <2>2. Creating(c) => ToPin(c) = task[c].root
      <3>1. Creating(c) => task[c].root # NoRoot /\ task[c].doc = EmptyRoster(task[c].root)
        BY DEF CreateFacts, Creating
      <3>2. EmptyRoster(task[c].root).signer = task[c].root
        BY DEF EmptyRoster
      <3> QED
        BY <1>t, <3>1, <3>2
    <2> QED
      BY <1>1, <1>2, <1>3, <1>4, <1>7, <2>1, <2>2 DEF CreateFacts
  <1>13. SettledInv'
    <2>1. CASE Rotating(c)
      <3>1. \A k \in MaybeRoot : ~InUse(k)'
        BY <1>2, <1>3, <1>4, <2>1 DEF InUse
      <3> QED
        BY <3>1 DEF SettledInv
    <2>2. CASE Creating(c)
      BY <1>1, <2>2 DEF SettledInv, CreateFacts
    <2>3. CASE Amending(c)
      <3>1. ~Rotating(c) /\ ~Promoted(c) /\ disk # NoDoc
        BY <1>1, <2>3, ConstAssumption DEF RoleInv, Amending, Promoted
      <3>2. \A k \in MaybeRoot : InUse(k)' => InUse(k)
        BY <1>1, <1>2, <1>3, <1>4, <3>1 DEF InUse
      <3>3. disk'.cross = disk.cross /\ disk'.succ = disk.succ
        BY <1>1, <2>3 DEF AmendFacts
      <3> QED
        BY <1>1, <3>1, <3>2, <3>3 DEF SettledInv, Fits
    <2> QED
      BY <1>5, <2>1, <2>2, <2>3
  <1> QED
    BY <1>8, <1>9, <1>10, <1>11, <1>12, <1>13

(* The pin follows the key: after it the successor, or the first root, is    *)
(* the one in use and the one pinned.                                        *)
LEMMA PinKeys ==
  ASSUME IInv, KInv, NEW c \in Clients, Pin(c)
  PROVE  KInv'
  <1> USE DEF KInv
  <1>1. /\ task[c].pc = "pin" /\ UNCHANGED <<key, staged, disk, author>>
        /\ pin' = IF task[c].to # NoRoot THEN task[c].to ELSE pin
        /\ midway' <=> midway /\ task[c].prior = NoRoot
    BY DEF Pin
  <1>m. task' = [task EXCEPT ![c].pc = "announce"]
    BY DEF Pin
  <1>0. TypeOK /\ task[c].to \in MaybeRoot /\ task[c].prior \in MaybeRoot /\ "announce" \in TaskPc
    BY PriorTo DEF TaskPc, IInv
  <1>2. /\ task'[c].pc = "announce" /\ task'[c].doc = task[c].doc
        /\ task'[c].root = task[c].root /\ task'[c].prior = task[c].prior
        /\ \A o \in Clients : o # c => task'[o] = task[o]
    BY ONLY <1>0, <1>m, MoveTask
  <1>3. /\ disk # NoDoc /\ key # NoRoot
        /\ \A o \in Clients : o # c => task[o].pc # "pin"
    BY <1>1, IdleTyped DEF IInv, HoldInv, CreateFacts
  <1>4. \A o \in Clients : o # c => /\ Rotating(o)' <=> Rotating(o)
                                    /\ Creating(o)' <=> Creating(o)
                                    /\ Amending(o)' <=> Amending(o)
                                    /\ Promoted(o)' <=> Promoted(o)
    BY <1>2, SameRole
  <1>5. /\ Rotating(c)' <=> Rotating(c)
        /\ Creating(c)' <=> Creating(c)
        /\ Amending(c)' <=> Amending(c)
        /\ Promoted(c) <=> Rotating(c)
        /\ ~Promoted(c)'
    BY <1>1, <1>2 DEF Rotating, Creating, Amending, Promoted
  <1>6. RoleInv'
    BY <1>1, <1>2, <1>4, <1>5 DEF RoleInv
  <1>7. RotateFacts'
    BY <1>1, <1>2, <1>4, <1>5 DEF RotateFacts
  <1>8. AmendFacts'
    BY <1>1, <1>2, <1>4, <1>5 DEF AmendFacts
  <1>9. ViewInv'
    BY <1>1, <1>2, <1>4, <1>5 DEF ViewInv
  <1>10. CreateFacts'
    <2>1. \A o \in Clients : Creating(o)' => task'[o].pc # "pin" /\ task'[o].pc # "persist"
      BY <1>2, <1>3, <1>4 DEF CreateFacts
    <2>2. \A o \in Clients : Creating(o)' => task'[o].doc = EmptyRoster(task'[o].root)
      BY <1>2, <1>4, <1>5 DEF CreateFacts
    <2>3. \A o, q \in Clients : Creating(o)' /\ Creating(q)' => o = q
      BY <1>4, <1>5 DEF CreateFacts
    <2> QED
      BY <1>1, <1>3, <2>1, <2>2, <2>3 DEF CreateFacts
  <1>11. SettledInv'
    <2>1. CASE Rotating(c)
      <3>1. pin' = key
        BY <1>1, <2>1 DEF RoleInv, RotateFacts
      <3>2. \A o \in Clients : ~Promoted(o)'
        BY <1>4, <1>5, <2>1, OneAuthor
      <3>3. \A k \in MaybeRoot : InUse(k)' => k = pin'
        BY <1>1, <3>1, <3>2 DEF InUse
      <3> QED
        BY <3>3 DEF SettledInv, Fits
    <2>2. CASE ~Rotating(c)
      <3>1. midway' <=> midway
        BY <1>1, <2>2 DEF Rotating
      <3>2. \A k \in MaybeRoot : InUse(k)' => InUse(k)
        <4>1. \A o \in Clients : Promoted(o)' <=> Promoted(o)
          BY <1>4, <1>5, <2>2
        <4>2. ~Promoted(c)
          BY <1>5, <2>2
        <4> QED
          BY <1>1, <1>2, <4>1, <4>2 DEF InUse
      <3>3. CASE Creating(c)
        <4>1. pin' = task[c].root
          BY <1>1, <3>3 DEF Creating, CreateFacts
        <4>2. ~midway => \A k \in MaybeRoot : InUse(k) => k = task[c].root
          BY <1>1, <3>3 DEF CreateFacts
        <4> QED
          BY <3>1, <3>2, <4>1, <4>2 DEF SettledInv, Fits
      <3>4. CASE ~Creating(c) /\ task[c].to = NoRoot
        <4>1. pin' = pin
          BY <1>1, <3>4
        <4> QED
          BY <1>1, <3>1, <3>2, <4>1 DEF SettledInv, Fits
      <3>5. CASE ~Creating(c) /\ task[c].to # NoRoot
        <4>1. Amending(c)
          BY <1>1, <2>2, <3>5 DEF Amending, Creating, Rotating
        <4>2. pin' = key
          BY <1>1, <3>5, <4>1 DEF AmendFacts
        <4>3. \A o \in Clients : ~Promoted(o)'
          BY <1>4, <1>5, <2>2, <4>1, OneAuthor
        <4>4. \A k \in MaybeRoot : InUse(k)' => k = pin'
          BY <1>1, <4>2, <4>3 DEF InUse
        <4> QED
          BY <4>4 DEF SettledInv, Fits
      <3> QED
        BY <3>3, <3>4, <3>5
    <2> QED
      BY <2>1, <2>2
  <1> QED
    BY <1>6, <1>7, <1>8, <1>9, <1>10, <1>11

(* A step that concerns none of them.                                        *)
LEMMA SameKeys ==
  ASSUME KInv, UNCHANGED <<key, staged, disk, pin, author, task, midway>>
  PROVE  KInv'
  <1>1. \A c \in Clients : /\ Rotating(c)' <=> Rotating(c)
                           /\ Creating(c)' <=> Creating(c)
                           /\ Amending(c)' <=> Amending(c)
                           /\ Promoted(c)' <=> Promoted(c)
    BY SameRole
  <1>2. \A k \in MaybeRoot : /\ InUse(k)' <=> InUse(k)
                             /\ Fits(k)' <=> Fits(k)
    BY <1>1 DEF InUse, Fits
  <1>3. RoleInv' /\ RotateFacts' /\ AmendFacts' /\ ViewInv'
    BY <1>1 DEF KInv, RoleInv, RotateFacts, AmendFacts, ViewInv
  <1>4. CreateFacts' /\ SettledInv'
    BY <1>1, <1>2 DEF KInv, CreateFacts, SettledInv
  <1> QED
    BY <1>3, <1>4 DEF KInv

(* Every step keeps the key, the pin and the roster in step, until a job     *)
(* left behind changes one of them.                                          *)
THEOREM KeysInductive == Spec => [](strayed \/ KInv)
  <1>1. ASSUME IInv, strayed \/ KInv, [Next]_vars PROVE strayed' \/ KInv'
    <2>0. strayed => strayed'
      BY <1>1 DEF Next, vars, late, OrgCreate, OrgApprove, OrgRevokeDevice, OrgRevokeUser,
                  OrgRotate, Promote, Persist, Pin, Announce, PersistRefused, PromoteRefused,
                  WriteFails, Disconnect, Crash, LateCheck, LateWrite, LatePin, LatePromote,
                  LateRestore, Land
    <2> SUFFICES ASSUME KInv PROVE strayed' \/ KInv'
      BY <1>1, <2>0
    <2> USE <1>1
    <2>1. ASSUME NEW c \in Clients, NEW r \in Roots, OrgCreate(c, r) \/ OrgRotate(c, r)
          PROVE KInv'
      BY <2>1, CreateKeys, RotateKeys
    <2>2. ASSUME NEW c \in Clients, NEW u \in Names, NEW k \in Keys,
                 NEW gs \in SUBSET Names, NEW dev \in Devices,
                 OrgApprove(c, u, k, gs, dev)
          PROVE KInv'
      BY <2>2, ApproveKeys
    <2>3. ASSUME NEW c \in Clients, NEW u \in Names, NEW dev \in Devices,
                 OrgRevokeDevice(c, u, dev)
          PROVE KInv'
      BY <2>3, RevokeDeviceKeys
    <2>4. ASSUME NEW c \in Clients, NEW u \in Names, NEW b \in BOOLEAN,
                 OrgRevokeUser(c, u, b)
          PROVE KInv'
      BY <2>4, RevokeUserKeys
    <2>5. ASSUME NEW c \in Clients, Promote(c) \/ Persist(c) \/ Pin(c) \/ Announce(c)
          PROVE KInv'
      BY <2>5, PromoteKeys, PersistKeys, PinKeys, AnnounceKeys
    <2>6. ASSUME NEW c \in Clients,
                 PersistRefused(c) \/ PromoteRefused(c) \/ WriteFails(c) \/ Disconnect(c)
          PROVE KInv'
      BY <2>6, FailKeys, DisconnectKeys
    <2>7. CASE Crash
      BY <2>7, CrashKeys
    <2>8. ASSUME NEW j \in orphans, LateCheck(j) PROVE KInv'
      BY <2>8, SameKeys DEF LateCheck
    <2>9. ASSUME NEW j \in orphans,
                 LateWrite(j) \/ LatePin(j) \/ LatePromote(j) \/ LateRestore(j)
          PROVE strayed'
      BY <2>9 DEF LateWrite, LatePin, LatePromote, LateRestore, Land
    <2>10. CASE UNCHANGED vars
      BY <2>10, SameKeys DEF vars
    <2> QED
      BY <2>1, <2>2, <2>3, <2>4, <2>5, <2>6, <2>7, <2>8, <2>9, <2>10 DEF Next
  <1> QED
    BY <1>1, KeysInit, Inductive, PTL DEF Spec

-----------------------------------------------------------------------------
(* Outside a verb, what the operator's key signs this node accepts: no       *)
(* failure, crash or disconnect leaves it pinned to one root and signing     *)
(* with another, but the two org_rotate leaves (midway) and those a job left *)
(* behind brings about when it lands (strayed).                              *)
THEOREM CanPublishHolds == Spec => []CanPublish
  <1>1. ASSUME IInv, strayed \/ KInv PROVE CanPublish
    <2> SUFFICES ASSUME author = None, disk # NoDoc, pin # NoRoot, ~midway, KInv
                 PROVE  Trusts(pin, [disk EXCEPT !.signer = key])
      BY <1>1 DEF CanPublish
    <2>1. disk \in Doc /\ key \in MaybeRoot
      BY <1>1 DEF IInv, TypeOK
    <2>2. \A c \in Clients : ~Promoted(c)
      BY <1>1, ConstAssumption DEF KInv, RoleInv, Promoted
    <2>3. InUse(key)
      BY <2>2 DEF InUse
    <2>4. Fits(key)
      BY <1>1, <2>1, <2>3 DEF KInv, SettledInv
    <2> DEFINE n == Signed(disk, key)
    <2>5. n.signer = key /\ n.cross = disk.cross /\ n.succ = disk.succ
      BY <2>1, SignedTyped
    <2> HIDE DEF n
    <2>6. Trusts(pin, n)
      BY <2>4, <2>5 DEF Fits, Trusts
    <2> QED
      BY <2>6 DEF n, Signed
  <1> QED
    BY <1>1, Inductive, KeysInductive, PTL

(* The install of a document this operator signed refuses none: its serial   *)
(* is newer than the disk's, its signature fits and build_view takes it, as  *)
(* long as no rotation was cut short and no job landed after its verb.       *)
THEOREM NeverRefusedHolds == Spec => []NeverRefused
  <1>1. ASSUME IInv, strayed \/ KInv PROVE NeverRefused
    <2> SUFFICES ASSUME NEW c \in Clients, task[c].pc = "persist", lock = None, ~midway,
                        Anchor(c) # NoRoot, KInv
                 PROVE  Accepts(Anchor(c), task[c].doc)
      BY <1>1 DEF NeverRefused
    <2> USE <1>1 DEF KInv
    <2>1. BuildsView(task[c].doc)
      BY DEF ViewInv
    <2>2. Rotating(c) \/ Amending(c) \/ Creating(c)
      BY DEF Rotating, Amending, Creating
    <2>3. CASE Rotating(c)
      <3>1. disk # NoDoc /\ ~Creating(c) /\ Anchor(c) = task[c].root
        BY <2>3, ConstAssumption DEF RoleInv, Rotating, Creating, Anchor
      <3>2. task[c].doc.signer = Anchor(c)
        BY <2>3, <3>1 DEF RotateFacts
      <3>3. task[c].doc.serial > Serial(disk)
        BY <3>1 DEF ViewInv, Serial
      <3> QED
        BY <2>1, <3>2, <3>3 DEF Accepts, Trusts
    <2>4. CASE Creating(c)
      <3>1. disk = NoDoc /\ task[c].doc = EmptyRoster(task[c].root) /\ Anchor(c) = task[c].root
        BY <2>4 DEF CreateFacts, Creating, Anchor
      <3>2. task[c].doc.signer = Anchor(c) /\ task[c].doc.serial = 1
        BY <3>1 DEF EmptyRoster
      <3> QED
        BY <2>1, <3>1, <3>2 DEF Accepts, Trusts, Serial
    <2>5. CASE Amending(c)
      <3>1. /\ author = c /\ disk # NoDoc /\ ~Creating(c) /\ Anchor(c) = pin
            /\ task[c].doc.signer = key
            /\ task[c].doc.cross = disk.cross /\ task[c].doc.succ = disk.succ
        BY <2>5, ConstAssumption DEF RoleInv, AmendFacts, Amending, Creating, Anchor
      <3>2. ~Promoted(c) /\ \A o \in Clients : o # c => ~Promoted(o)
        BY <2>5, OneAuthor DEF RoleInv, Amending, Promoted
      <3>3. InUse(key) /\ key \in MaybeRoot
        BY <3>2 DEF InUse, IInv, TypeOK
      <3>4. Fits(key)
        BY <3>1, <3>3 DEF SettledInv
      <3>5. Trusts(pin, task[c].doc)
        BY <3>1, <3>4 DEF Fits, Trusts
      <3>6. task[c].doc.serial > Serial(disk)
        BY <3>1 DEF ViewInv, Serial
      <3> QED
        BY <2>1, <3>1, <3>5, <3>6 DEF Accepts
    <2> QED
      BY <2>2, <2>3, <2>4, <2>5
  <1> QED
    BY <1>1, Inductive, KeysInductive, PTL
=============================================================================
