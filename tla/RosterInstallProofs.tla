------------------------ MODULE RosterInstallProofs ------------------------
(* Proofs about RosterInstall, for any feed of documents, any clients and    *)
(* handlers and any number of crashes, of a node whose clients stay          *)
(* connected until their verb is answered.                                   *)
EXTENDS RosterInstall, TLAPS

(* The places of a handler between validating a document and swapping it in. *)
Working == {"install", "pin", "confirm", "swap", "reconcile"}

(* reload_lock is held by the task that works on a document.                 *)
LockInv ==
    \A t \in Tasks :
        /\ task[t].pc \in Working \cup {"url"} => lock = t
        /\ task[t].pc = "url" => t \in Clients
        /\ task[t].pc = "seed" => task[t].claim <= Serial(disk)
        /\ t \in Clients /\ task[t].pc \in {"announce", "seed"} => lock = t

(* What a task and its blocking job agree on.                                *)
JobInv ==
    \A t \in Tasks :
        /\ job[t].st = "none" <=> task[t].pc \notin Working
        /\ task[t].pc \in {"want"} \cup Working => task[t].doc \in Docs
        /\ t \notin Clients => task[t].root = NoRoot
        /\ task[t].pc \in Working \ {"install"} => job[t].st = "done"
        /\ task[t].pc \in Working => job[t].doc = task[t].doc

(* The job verifies against the task's root or the pin, neither of which     *)
(* moves before the pin is written.                                          *)
RootInv ==
    \A t \in Tasks :
        /\ task[t].pc \in {"install", "pin"} => job[t].root = Anchor(t)
        /\ task[t].pc = "install" => job[t].root # NoRoot
        /\ task[t].pc = "pin" => NewPin(t) # NoRoot
        /\ job[t].st \in {"write", "done"} => Trusts(job[t].root, job[t].doc)
        /\ t \notin Clients /\ task[t].pc \in {"pin", "confirm", "swap", "reconcile"} =>
               Trusts(pin, job[t].doc)

(* A validated document is newer than all that was enforced, until the swap. *)
SerialInv ==
    \A t \in Tasks :
        /\ job[t].st = "write" => job[t].doc.serial > Serial(disk)
        /\ job[t].st = "done" => disk = job[t].doc
        /\ job[t].st = "done" /\ task[t].pc # "reconcile" => job[t].doc.serial > top

(* The gate enforces the highest serial ever, or nothing.                    *)
GateInv == gate # NoDoc => gate.serial = top

(* The gate may differ from the disk, and the user id from the roster's,     *)
(* only while the holder of the lock is about to repair it.                  *)
SettleInv ==
    faults = 0 =>
        /\ gate \notin {disk, NoDoc} =>
               /\ lock \in Tasks
               /\ job[lock].st = "done"
               /\ task[lock].pc # "reconcile"
        /\ crashes = 0 /\ gate # NoDoc /\ gate.lists =>
               \/ uid \in {"assigned", "rejoined"}
               \/ lock \in Tasks /\ task[lock].pc = "reconcile"

IInv ==
    TypeOK /\ LockInv /\ JobInv /\ RootInv /\ SerialInv /\ GateInv /\ SettleInv /\ Durable

-----------------------------------------------------------------------------
(* A document has a positive serial and is not the absence of one.           *)
LEMMA DocFacts ==
  ASSUME NEW d \in Docs
  PROVE  /\ d # NoDoc /\ d.serial \in Nat /\ d.serial > 0 /\ Serial(d) = d.serial
         /\ d.signer \in MaybeRoot /\ d.succ \in MaybeRoot
  BY DocAssumption DEF DocType, Serial

LEMMA AvailableDocs ==
  ASSUME published \in 1..Len(Feed)
  PROVE  Available \subseteq Docs
  <1>1. DOMAIN Feed = 1..Len(Feed) /\ Len(Feed) \in Nat
    BY DocAssumption
  <1> QED
    BY <1>1 DEF Available, Docs, Signed

(* Serials are naturals, and the absence of a roster has serial 0.           *)
LEMMA SerialFacts ==
  /\ Serial(NoDoc) = 0
  /\ \A d \in MaybeDoc : Serial(d) \in Nat /\ (Serial(d) = 0 <=> d = NoDoc)
  BY DocFacts DEF Serial, MaybeDoc

LEMMA TaskFacts ==
  /\ Clients \subseteq Tasks /\ Handlers \subseteq Tasks /\ Poller \in Tasks
  /\ None \notin Tasks
  /\ \A h \in Handlers \cup {Poller} : h \notin Clients
  BY TaskAssumption DEF Tasks

(* Idle tasks and jobs are well typed, and an update keeps the type.          *)
LEMMA TaskTyped ==
  ASSUME NEW f \in [Tasks -> TaskType], NEW t \in Tasks
  PROVE  /\ IdleTask \in TaskType
         /\ [f EXCEPT ![t] = IdleTask] \in [Tasks -> TaskType]
         /\ \A p \in TaskPc : [f EXCEPT ![t].pc = p] \in [Tasks -> TaskType]
         /\ \A p \in TaskPc, n \in Nat :
               [f EXCEPT ![t].pc = p, ![t].claim = n] \in [Tasks -> TaskType]
  <1>1. IdleTask \in TaskType
    BY DEF IdleTask, TaskType, TaskPc, MaybeDoc, MaybeRoot
  <1>2. \A p \in TaskPc, n \in Nat :
          [f[t] EXCEPT !.pc = p] \in TaskType /\ [[f[t] EXCEPT !.pc = p] EXCEPT !.claim = n] \in TaskType
    BY DEF TaskType
  <1> QED
    BY <1>1, <1>2

LEMMA JobTyped ==
  ASSUME NEW f \in [Tasks -> JobType], NEW t \in Tasks
  PROVE  /\ NoJob \in JobType
         /\ [f EXCEPT ![t] = NoJob] \in [Tasks -> JobType]
         /\ \A p \in JobSt : [f EXCEPT ![t].st = p] \in [Tasks -> JobType]
  <1>1. NoJob \in JobType
    BY DEF NoJob, JobType, JobSt, MaybeDoc, MaybeRoot
  <1>2. \A p \in JobSt : [f[t] EXCEPT !.st = p] \in JobType
    BY DEF JobType
  <1> QED
    BY <1>1, <1>2

LEMMA IInvInit == Init => IInv
  <1> SUFFICES ASSUME Init PROVE IInv
    OBVIOUS
  <1> USE TaskFacts, SerialFacts DEF Init, IdleTask, NoJob, MaybeDoc
  <1>1. TypeOK
    <2>1. 1 \in 1..Len(Feed)
      BY DocAssumption
    <2>2. task \in [Tasks -> TaskType]
      BY DEF TaskType, TaskPc, MaybeRoot
    <2>3. job \in [Tasks -> JobType]
      BY DEF JobType, JobSt, MaybeRoot
    <2>4. url \in BOOLEAN /\ polling \in BOOLEAN /\ transport \in BOOLEAN
      BY Zenon
    <2> QED
      BY <2>1, <2>2, <2>3, <2>4, BoundAssumption DEF TypeOK, MaybeRoot
  <1>2. LockInv /\ JobInv /\ RootInv /\ SerialInv
    BY DEF LockInv, JobInv, RootInv, SerialInv, Working
  <1>3. GateInv /\ SettleInv /\ Durable
    BY DEF GateInv, SettleInv, Durable
  <1> QED
    BY <1>1, <1>2, <1>3 DEF IInv

(* Publish: no state of the node moves. *)
LEMMA PublishKeeps ==
  ASSUME IInv, Publish
  PROVE  IInv'
  <1> USE TaskFacts, SerialFacts, DocFacts DEF Publish, IInv, TypeOK, MaybeDoc, TaskPc, Working, IdleTask, NoJob
  <1>1. TypeOK'
    <2>1. task' \in [Tasks -> TaskType]
      OBVIOUS
    <2>2. job' \in [Tasks -> JobType]
      OBVIOUS
    <2> QED
      BY <2>1, <2>2, DocAssumption
  <1> USE DEF TaskType, JobType
  <1>2. LockInv'
    BY <1>1 DEF LockInv, JobInv, SerialInv, Durable, GateInv
  <1>3. JobInv'
    BY <1>1 DEF JobInv, LockInv
  <1>4. RootInv'
    BY <1>1 DEF RootInv, JobInv, LockInv, Trusts, Bridges, Anchor, NewPin, Adopted
  <1>5. SerialInv'
    BY <1>1 DEF SerialInv, JobInv, LockInv, Durable
  <1>6. GateInv'
    BY <1>1 DEF GateInv, SerialInv, JobInv, LockInv, Durable
  <1>7. SettleInv'
    BY <1>1 DEF SettleInv, SerialInv, JobInv, LockInv
  <1>8. Durable'
    BY <1>1 DEF Durable, SerialInv, JobInv, LockInv, GateInv
  <1> QED
    BY <1>1, <1>2, <1>3, <1>4, <1>5, <1>6, <1>7, <1>8

(* RequestInstall: the task starts with an available document. *)
LEMMA RequestInstallKeeps ==
  ASSUME IInv, NEW c \in Clients, NEW d \in Available, NEW r \in MaybeRoot, RequestInstall(c, d, r)
  PROVE  IInv'
  <1>a. d \in Docs
    BY AvailableDocs DEF IInv, TypeOK
  <1> USE <1>a, TaskFacts, SerialFacts, DocFacts DEF RequestInstall, Begin, IInv, TypeOK, MaybeDoc, TaskPc, Working, IdleTask, NoJob
  <1>1. TypeOK'
    <2>1. task' \in [Tasks -> TaskType]
      BY DEF TaskType, MaybeRoot
    <2>2. job' \in [Tasks -> JobType]
      OBVIOUS
    <2> QED
      BY <2>1, <2>2
  <1> USE DEF TaskType, JobType
  <1>2. LockInv'
    BY <1>1 DEF LockInv, JobInv, SerialInv, Durable, GateInv
  <1>3. JobInv'
    BY <1>1 DEF JobInv, LockInv
  <1>4. RootInv'
    BY <1>1 DEF RootInv, JobInv, LockInv, Trusts, Bridges, Anchor, NewPin, Adopted
  <1>5. SerialInv'
    BY <1>1 DEF SerialInv, JobInv, LockInv, Durable
  <1>6. GateInv'
    BY <1>1 DEF GateInv, SerialInv, JobInv, LockInv, Durable
  <1>7. SettleInv'
    BY <1>1 DEF SettleInv, SerialInv, JobInv, LockInv
  <1>8. Durable'
    BY <1>1 DEF Durable, SerialInv, JobInv, LockInv, GateInv
  <1> QED
    BY <1>1, <1>2, <1>3, <1>4, <1>5, <1>6, <1>7, <1>8

(* OnAnnounce: the task starts with an available document and no root of its own. *)
LEMMA OnAnnounceKeeps ==
  ASSUME IInv, NEW h \in Handlers, NEW d \in Available, NEW s \in Nat, OnAnnounce(h, d, s)
  PROVE  IInv'
  <1>a. d \in Docs
    BY AvailableDocs DEF IInv, TypeOK
  <1> USE <1>a, TaskFacts, SerialFacts, DocFacts DEF OnAnnounce, Begin, IInv, TypeOK, MaybeDoc, TaskPc, Working, IdleTask, NoJob
  <1>1. TypeOK'
    <2>1. task' \in [Tasks -> TaskType]
      BY DEF TaskType, MaybeRoot
    <2>2. job' \in [Tasks -> JobType]
      OBVIOUS
    <2> QED
      BY <2>1, <2>2
  <1> USE DEF TaskType, JobType
  <1>2. LockInv'
    BY <1>1 DEF LockInv, JobInv, SerialInv, Durable, GateInv
  <1>3. JobInv'
    BY <1>1 DEF JobInv, LockInv
  <1>4. RootInv'
    BY <1>1 DEF RootInv, JobInv, LockInv, Trusts, Bridges, Anchor, NewPin, Adopted
  <1>5. SerialInv'
    BY <1>1 DEF SerialInv, JobInv, LockInv, Durable
  <1>6. GateInv'
    BY <1>1 DEF GateInv, SerialInv, JobInv, LockInv, Durable
  <1>7. SettleInv'
    BY <1>1 DEF SettleInv, SerialInv, JobInv, LockInv
  <1>8. Durable'
    BY <1>1 DEF Durable, SerialInv, JobInv, LockInv, GateInv
  <1> QED
    BY <1>1, <1>2, <1>3, <1>4, <1>5, <1>6, <1>7, <1>8

(* PollNewer: the loop starts with an available document and no root of its own. *)
LEMMA PollNewerKeeps ==
  ASSUME IInv, NEW d \in Available, PollNewer(d)
  PROVE  IInv'
  <1>a. d \in Docs
    BY AvailableDocs DEF IInv, TypeOK
  <1> USE <1>a, TaskFacts, SerialFacts, DocFacts DEF PollNewer, Begin, IInv, TypeOK, MaybeDoc, TaskPc, Working, IdleTask, NoJob
  <1>1. TypeOK'
    <2>1. task' \in [Tasks -> TaskType]
      BY DEF TaskType, MaybeRoot
    <2>2. job' \in [Tasks -> JobType]
      OBVIOUS
    <2> QED
      BY <2>1, <2>2
  <1> USE DEF TaskType, JobType
  <1>2. LockInv'
    BY <1>1 DEF LockInv, JobInv, SerialInv, Durable, GateInv
  <1>3. JobInv'
    BY <1>1 DEF JobInv, LockInv
  <1>4. RootInv'
    BY <1>1 DEF RootInv, JobInv, LockInv, Trusts, Bridges, Anchor, NewPin, Adopted
  <1>5. SerialInv'
    BY <1>1 DEF SerialInv, JobInv, LockInv, Durable
  <1>6. GateInv'
    BY <1>1 DEF GateInv, SerialInv, JobInv, LockInv, Durable
  <1>7. SettleInv'
    BY <1>1 DEF SettleInv, SerialInv, JobInv, LockInv
  <1>8. Durable'
    BY <1>1 DEF Durable, SerialInv, JobInv, LockInv, GateInv
  <1> QED
    BY <1>1, <1>2, <1>3, <1>4, <1>5, <1>6, <1>7, <1>8

(* PollEqual: the confirmed serial is the gate's. *)
LEMMA PollEqualKeeps ==
  ASSUME IInv, NEW d \in Available, PollEqual(d)
  PROVE  IInv'
  <1>a. d \in Docs
    BY AvailableDocs DEF IInv, TypeOK
  <1> USE <1>a, TaskFacts, SerialFacts, DocFacts DEF PollEqual, IInv, TypeOK, MaybeDoc, TaskPc, Working, IdleTask, NoJob
  <1>1. TypeOK'
    <2>1. task' \in [Tasks -> TaskType]
      OBVIOUS
    <2>2. job' \in [Tasks -> JobType]
      OBVIOUS
    <2> QED
      BY <2>1, <2>2
  <1> USE DEF TaskType, JobType
  <1>2. LockInv'
    BY <1>1 DEF LockInv, JobInv, SerialInv, Durable, GateInv
  <1>3. JobInv'
    BY <1>1 DEF JobInv, LockInv
  <1>4. RootInv'
    BY <1>1 DEF RootInv, JobInv, LockInv, Trusts, Bridges, Anchor, NewPin, Adopted
  <1>5. SerialInv'
    BY <1>1 DEF SerialInv, JobInv, LockInv, Durable
  <1>6. GateInv'
    BY <1>1 DEF GateInv, SerialInv, JobInv, LockInv, Durable
  <1>7. SettleInv'
    BY <1>1 DEF SettleInv, SerialInv, JobInv, LockInv
  <1>8. Durable'
    BY <1>1 DEF Durable, SerialInv, JobInv, LockInv, GateInv
  <1> QED
    BY <1>1, <1>2, <1>3, <1>4, <1>5, <1>6, <1>7, <1>8

(* A task at work holds the lock, and no other task is at work.              *)
LEMMA AtWork ==
  ASSUME IInv, NEW t \in Tasks, job[t].st # "none" \/ task[t].pc \in Working
  PROVE  /\ task[t].pc \in Working /\ lock = t
         /\ job[t].doc = task[t].doc /\ job[t].doc \in Docs
         /\ \A u \in Tasks \ {t} : job[u].st = "none" /\ task[u].pc \notin Working \cup {"url"}
  BY DEF IInv, TypeOK, LockInv, JobInv, TaskType, JobType

(* Acquire: the lock was free, so no other install is under way. *)
LEMMA AcquireKeeps ==
  ASSUME IInv, NEW t \in Tasks, Acquire(t)
  PROVE  IInv'
  <1> USE TaskFacts, SerialFacts, DocFacts DEF Acquire, IInv, TypeOK, MaybeDoc, TaskPc, Working, IdleTask, NoJob
  <1>1. CASE Superseded(t) \/ Anchor(t) = NoRoot
    <2>0. task' = [task EXCEPT ![t] = IdleTask] /\ job' = job /\ lock' = lock
      BY <1>1
    <2>1. task' \in [Tasks -> TaskType]
      BY <1>1, <2>0, TaskTyped
    <2>2. job' \in [Tasks -> JobType]
      BY <2>0
    <2>3. TypeOK'
      BY <1>1, <2>0, <2>1, <2>2
    <2> USE DEF TaskType, JobType
    <2>4. LockInv'
      BY <1>1, <2>0, <2>3 DEF LockInv, JobInv, SerialInv, Durable, GateInv
    <2>5. JobInv'
      BY <1>1, <2>0, <2>3 DEF JobInv, LockInv
    <2>6. RootInv'
      BY <1>1, <2>0, <2>3 DEF RootInv, JobInv, LockInv, Trusts, Bridges, Anchor, NewPin, Adopted
    <2>7. SerialInv'
      BY <1>1, <2>0, <2>3 DEF SerialInv, JobInv, LockInv, Durable
    <2>8. GateInv'
      BY <1>1, <2>0, <2>3 DEF GateInv, SerialInv, JobInv, LockInv, Durable
    <2>9. SettleInv'
      BY <1>1, <2>0, <2>3 DEF SettleInv, SerialInv, JobInv, LockInv
    <2>10. Durable'
      BY <1>1, <2>0, <2>3 DEF Durable, SerialInv, JobInv, LockInv, GateInv
    <2> QED
      BY <2>3, <2>4, <2>5, <2>6, <2>7, <2>8, <2>9, <2>10
  <1>2. CASE ~(Superseded(t) \/ Anchor(t) = NoRoot)
    <2>0. /\ lock' = t
          /\ task' = [task EXCEPT ![t].pc = "install"]
          /\ job' = [job EXCEPT ![t] = [st |-> "read", doc |-> task[t].doc, root |-> Anchor(t)]]
      BY <1>2
    <2>1. task' \in [Tasks -> TaskType]
      BY <1>2, <2>0, TaskTyped
    <2>2. job' \in [Tasks -> JobType]
      BY <1>2, <2>0 DEF JobType, JobSt, TaskType, MaybeRoot, Anchor
    <2>3. TypeOK'
      BY <1>2, <2>0, <2>1, <2>2
    <2> USE DEF TaskType, JobType
    <2>4. LockInv'
      BY <1>2, <2>0, <2>3 DEF LockInv, JobInv, SerialInv, Durable, GateInv
    <2>5. JobInv'
      BY <1>2, <2>0, <2>3 DEF JobInv, LockInv
    <2>6. RootInv'
      BY <1>2, <2>0, <2>3 DEF RootInv, JobInv, LockInv, Trusts, Bridges, Anchor, NewPin, Adopted
    <2>7. SerialInv'
      BY <1>2, <2>0, <2>3 DEF SerialInv, JobInv, LockInv, Durable
    <2>8. GateInv'
      BY <1>2, <2>0, <2>3 DEF GateInv, SerialInv, JobInv, LockInv, Durable
    <2>9. SettleInv'
      BY <1>2, <2>0, <2>3 DEF SettleInv, SerialInv, JobInv, LockInv
    <2>10. Durable'
      BY <1>2, <2>0, <2>3 DEF Durable, SerialInv, JobInv, LockInv, GateInv
    <2> QED
      BY <2>3, <2>4, <2>5, <2>6, <2>7, <2>8, <2>9, <2>10
  <1> QED
    BY <1>1, <1>2

(* JobRead: validation compares with the disk under the lock. *)
LEMMA JobReadKeeps ==
  ASSUME IInv, NEW t \in Tasks, JobRead(t)
  PROVE  IInv'
  <1> USE TaskFacts, SerialFacts, DocFacts DEF JobRead, Validates, IInv, TypeOK, MaybeDoc, TaskPc, Working, IdleTask, NoJob
  <1>1. TypeOK'
    <2>1. task' \in [Tasks -> TaskType]
      OBVIOUS
    <2>2. job' \in [Tasks -> JobType]
      BY JobTyped DEF JobSt
    <2> QED
      BY <2>1, <2>2
  <1> USE DEF TaskType, JobType
  <1>2. LockInv'
    BY <1>1 DEF LockInv, JobInv, SerialInv, Durable, GateInv
  <1>3. JobInv'
    BY <1>1 DEF JobInv, LockInv
  <1>4. RootInv'
    BY <1>1 DEF RootInv, JobInv, LockInv, Trusts, Bridges, Anchor, NewPin, Adopted
  <1>5. SerialInv'
    BY <1>1 DEF SerialInv, JobInv, LockInv, Durable
  <1>6. GateInv'
    BY <1>1 DEF GateInv, SerialInv, JobInv, LockInv, Durable
  <1>7. SettleInv'
    BY <1>1 DEF SettleInv, SerialInv, JobInv, LockInv
  <1>8. Durable'
    BY <1>1 DEF Durable, SerialInv, JobInv, LockInv, GateInv
  <1> QED
    BY <1>1, <1>2, <1>3, <1>4, <1>5, <1>6, <1>7, <1>8

(* JobWrite: the document written was validated against what it replaces. *)
LEMMA JobWriteKeeps ==
  ASSUME IInv, NEW t \in Tasks, JobWrite(t)
  PROVE  IInv'
  <1> USE TaskFacts, SerialFacts, DocFacts DEF JobWrite, IInv, TypeOK, MaybeDoc, TaskPc, Working, IdleTask, NoJob
  <1>1. TypeOK'
    <2>1. task' \in [Tasks -> TaskType]
      OBVIOUS
    <2>2. job' \in [Tasks -> JobType]
      BY JobTyped DEF JobSt
    <2> QED
      BY <2>1, <2>2 DEF JobInv, TaskType, JobType
  <1>b. /\ task[t].pc \in Working /\ lock = t
        /\ job[t].doc = task[t].doc /\ job[t].doc \in Docs
        /\ \A u \in Tasks \ {t} : job[u].st = "none" /\ task[u].pc \notin Working \cup {"url"}
    BY AtWork
  <1> USE <1>b
  <1> USE DEF TaskType, JobType
  <1>2. LockInv'
    BY <1>1 DEF LockInv, JobInv, SerialInv, Durable, GateInv
  <1>3. JobInv'
    BY <1>1 DEF JobInv, LockInv
  <1>4. RootInv'
    BY <1>1 DEF RootInv, JobInv, LockInv, Trusts, Bridges, Anchor, NewPin, Adopted
  <1>5. SerialInv'
    BY <1>1 DEF SerialInv, JobInv, LockInv, Durable
  <1>6. GateInv'
    BY <1>1 DEF GateInv, SerialInv, JobInv, LockInv, Durable
  <1>7. SettleInv'
    BY <1>1 DEF SettleInv, SerialInv, JobInv, LockInv
  <1>8. Durable'
    BY <1>1 DEF Durable, SerialInv, JobInv, LockInv, GateInv
  <1> QED
    BY <1>1, <1>2, <1>3, <1>4, <1>5, <1>6, <1>7, <1>8

(* Installed: the pin is only written when it moves. *)
LEMMA InstalledKeeps ==
  ASSUME IInv, NEW t \in Tasks, Installed(t)
  PROVE  IInv'
  <1> USE TaskFacts, SerialFacts, DocFacts DEF Installed, IInv, TypeOK, MaybeDoc, TaskPc, Working, IdleTask, NoJob
  <1>b. /\ task[t].pc \in Working /\ lock = t
        /\ job[t].doc = task[t].doc /\ job[t].doc \in Docs
        /\ \A u \in Tasks \ {t} : job[u].st = "none" /\ task[u].pc \notin Working \cup {"url"}
    BY AtWork
  <1> USE <1>b
  <1>1. CASE job[t].st = "failed"
    <2>0. /\ lock' = None
          /\ task' = [task EXCEPT ![t] = IdleTask]
          /\ job' = [job EXCEPT ![t] = NoJob]
      BY <1>1 DEF Leave
    <2>1. task' \in [Tasks -> TaskType]
      BY <1>1, <2>0, TaskTyped
    <2>2. job' \in [Tasks -> JobType]
      BY <1>1, <2>0, JobTyped
    <2>3. TypeOK'
      BY <1>1, <2>0, <2>1, <2>2
    <2> USE DEF TaskType, JobType
    <2>4. LockInv'
      BY <1>1, <2>0, <2>3 DEF LockInv, JobInv, SerialInv, Durable, GateInv
    <2>5. JobInv'
      BY <1>1, <2>0, <2>3 DEF JobInv, LockInv
    <2>6. RootInv'
      BY <1>1, <2>0, <2>3 DEF RootInv, JobInv, LockInv, Trusts, Bridges, Anchor, NewPin, Adopted
    <2>7. SerialInv'
      BY <1>1, <2>0, <2>3 DEF SerialInv, JobInv, LockInv, Durable
    <2>8. GateInv'
      BY <1>1, <2>0, <2>3 DEF GateInv, SerialInv, JobInv, LockInv, Durable
    <2>9. SettleInv'
      BY <1>1, <2>0, <2>3 DEF SettleInv, SerialInv, JobInv, LockInv
    <2>10. Durable'
      BY <1>1, <2>0, <2>3 DEF Durable, SerialInv, JobInv, LockInv, GateInv
    <2> QED
      BY <2>3, <2>4, <2>5, <2>6, <2>7, <2>8, <2>9, <2>10
  <1>2. CASE job[t].st = "done"
    <2>a. \E q \in {"pin", "confirm"} :
            /\ q = "pin" <=> NewPin(t) # NoRoot
            /\ task' = [task EXCEPT ![t].pc = q] /\ job' = job /\ lock' = lock
      BY <1>2
    <2>0. PICK q \in {"pin", "confirm"} :
            /\ q = "pin" <=> NewPin(t) # NoRoot
            /\ task' = [task EXCEPT ![t].pc = q] /\ job' = job /\ lock' = lock
      BY <2>a
    <2>1. task' \in [Tasks -> TaskType]
      BY <1>2, <2>0, TaskTyped
    <2>2. job' \in [Tasks -> JobType]
      BY <2>0
    <2>3. TypeOK'
      BY <1>2, <2>0, <2>1, <2>2
    <2> USE DEF TaskType, JobType
    <2>4. LockInv'
      BY <1>2, <2>0, <2>3 DEF LockInv, JobInv, SerialInv, Durable, GateInv
    <2>5. JobInv'
      BY <1>2, <2>0, <2>3 DEF JobInv, LockInv
    <2>6. RootInv'
      BY <1>2, <2>0, <2>3 DEF RootInv, JobInv, LockInv, Trusts, Bridges, Anchor, NewPin, Adopted
    <2>7. SerialInv'
      BY <1>2, <2>0, <2>3 DEF SerialInv, JobInv, LockInv, Durable
    <2>8. GateInv'
      BY <1>2, <2>0, <2>3 DEF GateInv, SerialInv, JobInv, LockInv, Durable
    <2>9. SettleInv'
      BY <1>2, <2>0, <2>3 DEF SettleInv, SerialInv, JobInv, LockInv
    <2>10. Durable'
      BY <1>2, <2>0, <2>3 DEF Durable, SerialInv, JobInv, LockInv, GateInv
    <2> QED
      BY <2>3, <2>4, <2>5, <2>6, <2>7, <2>8, <2>9, <2>10
  <1> QED
    BY <1>1, <1>2

(* WritePin: the adopted successor signed the document. *)
LEMMA WritePinKeeps ==
  ASSUME IInv, NEW t \in Tasks, WritePin(t)
  PROVE  IInv'
  <1> USE TaskFacts, SerialFacts, DocFacts DEF WritePin, NewPin, Adopted, IInv, TypeOK, MaybeDoc, TaskPc, Working, IdleTask, NoJob
  <1>1. TypeOK'
    <2>1. task' \in [Tasks -> TaskType]
      BY TaskTyped
    <2>2. job' \in [Tasks -> JobType]
      OBVIOUS
    <2> QED
      BY <2>1, <2>2 DEF JobInv, RootInv, Trusts, Bridges, MaybeRoot, TaskType, JobType
  <1>b. /\ task[t].pc \in Working /\ lock = t
        /\ job[t].doc = task[t].doc /\ job[t].doc \in Docs
        /\ \A u \in Tasks \ {t} : job[u].st = "none" /\ task[u].pc \notin Working \cup {"url"}
    BY AtWork
  <1> USE <1>b
  <1> USE DEF TaskType, JobType
  <1>2. LockInv'
    BY <1>1 DEF LockInv, JobInv, SerialInv, Durable, GateInv
  <1>3. JobInv'
    BY <1>1 DEF JobInv, LockInv
  <1>4. RootInv'
    BY <1>1 DEF RootInv, JobInv, LockInv, Trusts, Bridges, Anchor, NewPin, Adopted
  <1>5. SerialInv'
    BY <1>1 DEF SerialInv, JobInv, LockInv, Durable
  <1>6. GateInv'
    BY <1>1 DEF GateInv, SerialInv, JobInv, LockInv, Durable
  <1>7. SettleInv'
    BY <1>1 DEF SettleInv, SerialInv, JobInv, LockInv
  <1>8. Durable'
    BY <1>1 DEF Durable, SerialInv, JobInv, LockInv, GateInv
  <1> QED
    BY <1>1, <1>2, <1>3, <1>4, <1>5, <1>6, <1>7, <1>8

(* PinFails: a fault is counted and the install given up. *)
LEMMA PinFailsKeeps ==
  ASSUME IInv, NEW t \in Tasks, PinFails(t)
  PROVE  IInv'
  <1> USE TaskFacts, SerialFacts, DocFacts DEF PinFails, Leave, IInv, TypeOK, MaybeDoc, TaskPc, Working, IdleTask, NoJob
  <1>1. TypeOK'
    <2>1. task' \in [Tasks -> TaskType]
      BY TaskTyped
    <2>2. job' \in [Tasks -> JobType]
      BY JobTyped
    <2> QED
      BY <2>1, <2>2, BoundAssumption
  <1> USE DEF TaskType, JobType
  <1>2. LockInv'
    BY <1>1 DEF LockInv, JobInv, SerialInv, Durable, GateInv
  <1>3. JobInv'
    BY <1>1 DEF JobInv, LockInv
  <1>4. RootInv'
    BY <1>1 DEF RootInv, JobInv, LockInv, Trusts, Bridges, Anchor, NewPin, Adopted
  <1>5. SerialInv'
    BY <1>1 DEF SerialInv, JobInv, LockInv, Durable
  <1>6. GateInv'
    BY <1>1 DEF GateInv, SerialInv, JobInv, LockInv, Durable
  <1>7. SettleInv'
    BY <1>1 DEF SettleInv, SerialInv, JobInv, LockInv
  <1>8. Durable'
    BY <1>1 DEF Durable, SerialInv, JobInv, LockInv, GateInv
  <1> QED
    BY <1>1, <1>2, <1>3, <1>4, <1>5, <1>6, <1>7, <1>8

(* Confirm: the document confirmed is the one on the disk. *)
LEMMA ConfirmKeeps ==
  ASSUME IInv, NEW t \in Tasks, Confirm(t)
  PROVE  IInv'
  <1> USE TaskFacts, SerialFacts, DocFacts DEF Confirm, IInv, TypeOK, MaybeDoc, TaskPc, Working, IdleTask, NoJob
  <1>1. TypeOK'
    <2>1. task' \in [Tasks -> TaskType]
      BY TaskTyped
    <2>2. job' \in [Tasks -> JobType]
      OBVIOUS
    <2> QED
      BY <2>1, <2>2 DEF JobInv
  <1>b. /\ task[t].pc \in Working /\ lock = t
        /\ job[t].doc = task[t].doc /\ job[t].doc \in Docs
        /\ \A u \in Tasks \ {t} : job[u].st = "none" /\ task[u].pc \notin Working \cup {"url"}
    BY AtWork
  <1> USE <1>b
  <1> USE DEF TaskType, JobType
  <1>2. LockInv'
    BY <1>1 DEF LockInv, JobInv, SerialInv, Durable, GateInv
  <1>3. JobInv'
    BY <1>1 DEF JobInv, LockInv
  <1>4. RootInv'
    BY <1>1 DEF RootInv, JobInv, LockInv, Trusts, Bridges, Anchor, NewPin, Adopted
  <1>5. SerialInv'
    BY <1>1 DEF SerialInv, JobInv, LockInv, Durable
  <1>6. GateInv'
    BY <1>1 DEF GateInv, SerialInv, JobInv, LockInv, Durable
  <1>7. SettleInv'
    BY <1>1 DEF SettleInv, SerialInv, JobInv, LockInv
  <1>8. Durable'
    BY <1>1 DEF Durable, SerialInv, JobInv, LockInv, GateInv
  <1> QED
    BY <1>1, <1>2, <1>3, <1>4, <1>5, <1>6, <1>7, <1>8

(* Swap: the document swapped in is newer than any enforced. *)
LEMMA SwapKeeps ==
  ASSUME IInv, NEW t \in Tasks, Swap(t)
  PROVE  IInv'
  <1> USE TaskFacts, SerialFacts, DocFacts DEF Swap, Highest, IInv, TypeOK, MaybeDoc, TaskPc, Working, IdleTask, NoJob
  <1>1. TypeOK'
    <2>1. task' \in [Tasks -> TaskType]
      BY TaskTyped
    <2>2. job' \in [Tasks -> JobType]
      OBVIOUS
    <2> QED
      BY <2>1, <2>2 DEF JobInv
  <1>b. /\ task[t].pc \in Working /\ lock = t
        /\ job[t].doc = task[t].doc /\ job[t].doc \in Docs
        /\ \A u \in Tasks \ {t} : job[u].st = "none" /\ task[u].pc \notin Working \cup {"url"}
    BY AtWork
  <1> USE <1>b
  <1> USE DEF TaskType, JobType
  <1>2. LockInv'
    BY <1>1 DEF LockInv, JobInv, SerialInv, Durable, GateInv
  <1>3. JobInv'
    BY <1>1 DEF JobInv, LockInv
  <1>4. RootInv'
    BY <1>1 DEF RootInv, JobInv, LockInv, Trusts, Bridges, Anchor, NewPin, Adopted
  <1>5. SerialInv'
    BY <1>1 DEF SerialInv, JobInv, LockInv, Durable
  <1>6. GateInv'
    BY <1>1 DEF GateInv, SerialInv, JobInv, LockInv, Durable
  <1>7. SettleInv'
    BY <1>1 DEF SettleInv, SerialInv, JobInv, LockInv
  <1>8. Durable'
    BY <1>1 DEF Durable, SerialInv, JobInv, LockInv, GateInv
  <1> QED
    BY <1>1, <1>2, <1>3, <1>4, <1>5, <1>6, <1>7, <1>8

(* Reconcile: the user id follows the gate. *)
LEMMA ReconcileKeeps ==
  ASSUME IInv, NEW t \in Tasks, Reconcile(t)
  PROVE  IInv'
  <1> USE TaskFacts, SerialFacts, DocFacts DEF Reconcile, IInv, TypeOK, MaybeDoc, TaskPc, Working, IdleTask, NoJob
  <1>1. TypeOK'
    <2>1. task' \in [Tasks -> TaskType]
      BY TaskTyped
    <2>2. job' \in [Tasks -> JobType]
      BY JobTyped
    <2> QED
      BY <2>1, <2>2, BoundAssumption
  <1> USE DEF TaskType, JobType
  <1>2. LockInv'
    BY <1>1 DEF LockInv, JobInv, SerialInv, Durable, GateInv
  <1>3. JobInv'
    BY <1>1 DEF JobInv, LockInv
  <1>4. RootInv'
    BY <1>1 DEF RootInv, JobInv, LockInv, Trusts, Bridges, Anchor, NewPin, Adopted
  <1>5. SerialInv'
    BY <1>1 DEF SerialInv, JobInv, LockInv, Durable
  <1>6. GateInv'
    BY <1>1 DEF GateInv, SerialInv, JobInv, LockInv, Durable
  <1>7. SettleInv'
    BY <1>1 DEF SettleInv, SerialInv, JobInv, LockInv
  <1>8. Durable'
    BY <1>1 DEF Durable, SerialInv, JobInv, LockInv, GateInv
  <1> QED
    BY <1>1, <1>2, <1>3, <1>4, <1>5, <1>6, <1>7, <1>8

(* AnnounceSerial: the serial announced is the gate's. *)
LEMMA AnnounceSerialKeeps ==
  ASSUME IInv, NEW t \in Tasks, AnnounceSerial(t)
  PROVE  IInv'
  <1> USE TaskFacts, SerialFacts, DocFacts DEF AnnounceSerial, IInv, TypeOK, MaybeDoc, TaskPc, Working, IdleTask, NoJob
  <1>1. TypeOK'
    <2>1. task' \in [Tasks -> TaskType]
      BY TaskTyped
    <2>2. job' \in [Tasks -> JobType]
      OBVIOUS
    <2> QED
      BY <2>1, <2>2
  <1> USE DEF TaskType, JobType
  <1>2. LockInv'
    BY <1>1 DEF LockInv, JobInv, SerialInv, Durable, GateInv
  <1>3. JobInv'
    BY <1>1 DEF JobInv, LockInv
  <1>4. RootInv'
    BY <1>1 DEF RootInv, JobInv, LockInv, Trusts, Bridges, Anchor, NewPin, Adopted
  <1>5. SerialInv'
    BY <1>1 DEF SerialInv, JobInv, LockInv, Durable
  <1>6. GateInv'
    BY <1>1 DEF GateInv, SerialInv, JobInv, LockInv, Durable
  <1>7. SettleInv'
    BY <1>1 DEF SettleInv, SerialInv, JobInv, LockInv
  <1>8. Durable'
    BY <1>1 DEF Durable, SerialInv, JobInv, LockInv, GateInv
  <1> QED
    BY <1>1, <1>2, <1>3, <1>4, <1>5, <1>6, <1>7, <1>8

(* AnnounceBytes: the disk has not gone back since. *)
LEMMA AnnounceBytesKeeps ==
  ASSUME IInv, NEW t \in Tasks, AnnounceBytes(t)
  PROVE  IInv'
  <1> USE TaskFacts, SerialFacts, DocFacts DEF AnnounceBytes, IInv, TypeOK, MaybeDoc, TaskPc, Working, IdleTask, NoJob
  <1>1. TypeOK'
    <2>1. task' \in [Tasks -> TaskType]
      BY TaskTyped
    <2>2. job' \in [Tasks -> JobType]
      OBVIOUS
    <2> QED
      BY <2>1, <2>2 DEF TaskType
  <1> USE DEF TaskType, JobType
  <1>2. LockInv'
    BY <1>1 DEF LockInv, JobInv, SerialInv, Durable, GateInv
  <1>3. JobInv'
    BY <1>1 DEF JobInv, LockInv
  <1>4. RootInv'
    BY <1>1 DEF RootInv, JobInv, LockInv, Trusts, Bridges, Anchor, NewPin, Adopted
  <1>5. SerialInv'
    BY <1>1 DEF SerialInv, JobInv, LockInv, Durable
  <1>6. GateInv'
    BY <1>1 DEF GateInv, SerialInv, JobInv, LockInv, Durable
  <1>7. SettleInv'
    BY <1>1 DEF SettleInv, SerialInv, JobInv, LockInv
  <1>8. Durable'
    BY <1>1 DEF Durable, SerialInv, JobInv, LockInv, GateInv
  <1> QED
    BY <1>1, <1>2, <1>3, <1>4, <1>5, <1>6, <1>7, <1>8

(* OrgJoin: the lock was free, so no install depends on the pin. *)
LEMMA OrgJoinKeeps ==
  ASSUME IInv, NEW c \in Clients, NEW r \in Roots, OrgJoin(c, r)
  PROVE  IInv'
  <1> USE TaskFacts, SerialFacts, DocFacts DEF OrgJoin, IInv, TypeOK, MaybeDoc, TaskPc, Working, IdleTask, NoJob
  <1>1. TypeOK'
    <2>1. task' \in [Tasks -> TaskType]
      OBVIOUS
    <2>2. job' \in [Tasks -> JobType]
      OBVIOUS
    <2> QED
      BY <2>1, <2>2 DEF MaybeRoot
  <1> USE DEF TaskType, JobType
  <1>2. LockInv'
    BY <1>1 DEF LockInv, JobInv, SerialInv, Durable, GateInv
  <1>3. JobInv'
    BY <1>1 DEF JobInv, LockInv
  <1>4. RootInv'
    BY <1>1 DEF RootInv, JobInv, LockInv, Trusts, Bridges, Anchor, NewPin, Adopted
  <1>5. SerialInv'
    BY <1>1 DEF SerialInv, JobInv, LockInv, Durable
  <1>6. GateInv'
    BY <1>1 DEF GateInv, SerialInv, JobInv, LockInv, Durable
  <1>7. SettleInv'
    BY <1>1 DEF SettleInv, SerialInv, JobInv, LockInv
  <1>8. Durable'
    BY <1>1 DEF Durable, SerialInv, JobInv, LockInv, GateInv
  <1> QED
    BY <1>1, <1>2, <1>3, <1>4, <1>5, <1>6, <1>7, <1>8

(* SetRosterUrl: the lock was free. *)
LEMMA SetRosterUrlKeeps ==
  ASSUME IInv, NEW c \in Clients, SetRosterUrl(c)
  PROVE  IInv'
  <1> USE TaskFacts, SerialFacts, DocFacts DEF SetRosterUrl, Begin, IInv, TypeOK, MaybeDoc, TaskPc, Working, IdleTask, NoJob
  <1>1. TypeOK'
    <2>1. task' \in [Tasks -> TaskType]
      BY DEF TaskType, MaybeRoot
    <2>2. job' \in [Tasks -> JobType]
      OBVIOUS
    <2> QED
      BY <2>1, <2>2
  <1> USE DEF TaskType, JobType
  <1>2. LockInv'
    BY <1>1 DEF LockInv, JobInv, SerialInv, Durable, GateInv
  <1>3. JobInv'
    BY <1>1 DEF JobInv, LockInv
  <1>4. RootInv'
    BY <1>1 DEF RootInv, JobInv, LockInv, Trusts, Bridges, Anchor, NewPin, Adopted
  <1>5. SerialInv'
    BY <1>1 DEF SerialInv, JobInv, LockInv, Durable
  <1>6. GateInv'
    BY <1>1 DEF GateInv, SerialInv, JobInv, LockInv, Durable
  <1>7. SettleInv'
    BY <1>1 DEF SettleInv, SerialInv, JobInv, LockInv
  <1>8. Durable'
    BY <1>1 DEF Durable, SerialInv, JobInv, LockInv, GateInv
  <1> QED
    BY <1>1, <1>2, <1>3, <1>4, <1>5, <1>6, <1>7, <1>8

(* RespawnPollLoop: the lock is held, so the loop is not installing. *)
LEMMA RespawnPollLoopKeeps ==
  ASSUME IInv, NEW c \in Clients, RespawnPollLoop(c)
  PROVE  IInv'
  <1> USE TaskFacts, SerialFacts, DocFacts DEF RespawnPollLoop, IInv, TypeOK, MaybeDoc, TaskPc, Working, IdleTask, NoJob
  <1>1. TypeOK'
    <2>1. task' \in [Tasks -> TaskType]
      BY TaskTyped
    <2>2. job' \in [Tasks -> JobType]
      OBVIOUS
    <2> QED
      BY <2>1, <2>2
  <1> USE DEF TaskType, JobType
  <1>2. LockInv'
    BY <1>1 DEF LockInv, JobInv, SerialInv, Durable, GateInv
  <1>3. JobInv'
    BY <1>1 DEF JobInv, LockInv
  <1>4. RootInv'
    BY <1>1 DEF RootInv, JobInv, LockInv, Trusts, Bridges, Anchor, NewPin, Adopted
  <1>5. SerialInv'
    BY <1>1 DEF SerialInv, JobInv, LockInv, Durable
  <1>6. GateInv'
    BY <1>1 DEF GateInv, SerialInv, JobInv, LockInv, Durable
  <1>7. SettleInv'
    BY <1>1 DEF SettleInv, SerialInv, JobInv, LockInv
  <1>8. Durable'
    BY <1>1 DEF Durable, SerialInv, JobInv, LockInv, GateInv
  <1> QED
    BY <1>1, <1>2, <1>3, <1>4, <1>5, <1>6, <1>7, <1>8

(* Crash: every task is gone and the gate is what the disk holds. *)
LEMMA CrashKeeps ==
  ASSUME IInv, Crash
  PROVE  IInv'
  <1> USE TaskFacts, SerialFacts, DocFacts DEF Crash, Highest, IInv, TypeOK, MaybeDoc, TaskPc, Working, IdleTask, NoJob
  <1>1. TypeOK'
    <2>1. task' \in [Tasks -> TaskType]
      BY TaskTyped
    <2>2. job' \in [Tasks -> JobType]
      BY JobTyped
    <2> QED
      BY <2>1, <2>2, BoundAssumption
  <1> USE DEF TaskType, JobType
  <1>2. LockInv'
    BY <1>1 DEF LockInv, JobInv, SerialInv, Durable, GateInv
  <1>3. JobInv'
    BY <1>1 DEF JobInv, LockInv
  <1>4. RootInv'
    BY <1>1 DEF RootInv, JobInv, LockInv, Trusts, Bridges, Anchor, NewPin, Adopted
  <1>5. SerialInv'
    BY <1>1 DEF SerialInv, JobInv, LockInv, Durable
  <1>6. GateInv'
    BY <1>1 DEF GateInv, SerialInv, JobInv, LockInv, Durable
  <1>7. SettleInv'
    BY <1>1 DEF SettleInv, SerialInv, JobInv, LockInv
  <1>8. Durable'
    BY <1>1 DEF Durable, SerialInv, JobInv, LockInv, GateInv
  <1> QED
    BY <1>1, <1>2, <1>3, <1>4, <1>5, <1>6, <1>7, <1>8


(* Every step keeps the inductive invariant. *)
LEMMA IInvStep == IInv /\ [Next]_vars => IInv'
  <1> SUFFICES ASSUME IInv, [Next]_vars PROVE IInv'
    OBVIOUS
  <1>1. CASE Publish
    BY <1>1, PublishKeeps
  <1>2. ASSUME NEW c \in Clients, NEW d \in Available, NEW r \in MaybeRoot, RequestInstall(c, d, r)
        PROVE  IInv'
    BY <1>2, RequestInstallKeeps
  <1>3. ASSUME NEW h \in Handlers, NEW d \in Available, NEW e \in Docs, OnAnnounce(h, d, e.serial)
        PROVE  IInv'
    BY <1>3, OnAnnounceKeeps, DocFacts
  <1>4. ASSUME NEW d \in Available, PollNewer(d) \/ PollEqual(d)
        PROVE  IInv'
    BY <1>4, PollNewerKeeps, PollEqualKeeps
  <1>5. ASSUME NEW t \in Tasks, Steps(t)
        PROVE  IInv'
    BY <1>5, AcquireKeeps, JobReadKeeps, JobWriteKeeps, InstalledKeeps, WritePinKeeps,
       PinFailsKeeps, ConfirmKeeps, SwapKeeps, ReconcileKeeps, AnnounceSerialKeeps,
       AnnounceBytesKeeps DEF Steps
  <1>6. ASSUME NEW c \in Clients, NEW r \in Roots, OrgJoin(c, r)
        PROVE  IInv'
    BY <1>6, OrgJoinKeeps
  <1>7. ASSUME NEW c \in Clients, SetRosterUrl(c) \/ RespawnPollLoop(c)
        PROVE  IInv'
    BY <1>7, SetRosterUrlKeeps, RespawnPollLoopKeeps
  <1>8. CASE Crash
    BY <1>8, CrashKeeps
  <1>9. CASE UNCHANGED vars
    BY <1>9 DEF vars, IInv, TypeOK, LockInv, JobInv, RootInv, SerialInv, GateInv, SettleInv,
       Durable, Anchor, NewPin
  <1> QED
    BY <1>1, <1>2, <1>3, <1>4, <1>5, <1>6, <1>7, <1>8, <1>9 DEF Next

(* The inductive invariant of the roster installation. *)
THEOREM Inductive == Spec => []IInv
  BY IInvInit, IInvStep, PTL DEF Spec

(* Every variable keeps its type. *)
THEOREM TypeCorrect == Spec => []TypeOK
  <1>1. IInv => TypeOK
    BY DEF IInv
  <1> QED
    BY <1>1, Inductive, PTL

(* What the gate enforces was persisted before: install_roster writes        *)
(* roster.json, then the pin, then swaps the gate.                           *)
THEOREM DurableHolds == Spec => []Durable
  <1>1. IInv => Durable
    BY DEF IInv
  <1> QED
    BY <1>1, Inductive, PTL

(* Between installs the gate enforces what the disk holds and the user id is *)
(* the roster's: every exit of the install but a failed write repairs both.  *)
THEOREM SettledHolds == Spec => []Settled
  <1>1. IInv => Settled
    BY TaskFacts DEF IInv, Settled, SettleInv
  <1> QED
    BY <1>1, Inductive, PTL

(* A crash inside an automatic install leaves a disk that boot accepts:      *)
(* adopt_successor_root moves the pin only to the key that signed it.        *)
THEOREM CrashSafeHolds == Spec => []CrashSafe
  <1>1. IInv => CrashSafe
    BY TaskFacts DEF IInv, CrashSafe, RootInv, JobInv, SerialInv, Working, Tasks
  <1> QED
    BY <1>1, Inductive, PTL

(* respawn_poll_loop aborts the loop under reload_lock, so never inside an   *)
(* install.                                                                  *)
THEOREM PollNeverCutHolds == Spec => []PollNeverCut
  <1>1. IInv => PollNeverCut
    BY TaskFacts DEF IInv, PollNeverCut, JobInv, Working
  <1> QED
    BY <1>1, Inductive, PTL

-----------------------------------------------------------------------------
(* A step of the node is a step of the register, or leaves it alone.         *)
LEMMA RegisterStep ==
  ASSUME IInv, IInv', [Next]_vars
  PROVE  [Register!Next]_(Register!regVars)
  <1> USE DEF Register!Next, Register!regVars, Register!Adopt, Register!Drop, Register!Restore
  <1>1. ASSUME NEW t \in Tasks, Swap(t)
        PROVE  Register!Next
    <2>1. task[t].doc \in Docs /\ task[t].doc.serial > top
      BY <1>1 DEF Swap, IInv, JobInv, SerialInv, Working
    <2>2. gate' = task[t].doc /\ top' = task[t].doc.serial
      BY <1>1, <2>1, DocFacts DEF Swap, Highest
    <2>3. Register!Adopt(task[t].doc)
      BY <2>1, <2>2
    <2> QED
      BY <2>1, <2>3
  <1>2. CASE Crash
    <2>1. CASE gate' = NoDoc
      <3>1. top' = top
        BY <1>2, <2>1, SerialFacts DEF Crash, Highest, IInv, TypeOK
      <3> QED
        BY <2>1, <3>1
    <2>2. CASE gate' # NoDoc
      <3>1. gate' = disk /\ disk \in Docs
        BY <1>2, <2>2 DEF Crash, IInv, TypeOK, MaybeDoc
      <3>2. top' = disk.serial /\ disk.serial >= top
        BY <1>2, <3>1, DocFacts DEF Crash, Highest, IInv, TypeOK, Durable
      <3>3. Register!Restore(disk)
        BY <3>1, <3>2
      <3> QED
        BY <3>1, <3>3
    <2> QED
      BY <2>1, <2>2
  <1>3. CASE UNCHANGED <<gate, top>>
    BY <1>3
  <1>4. \/ \E t \in Tasks : Swap(t)
        \/ Crash
        \/ UNCHANGED <<gate, top>>
    BY DEF Next, Steps, vars, Publish, RequestInstall, OnAnnounce, PollNewer, PollEqual, Acquire,
       JobRead, JobWrite, Installed, WritePin, PinFails, Confirm, Reconcile, AnnounceSerial,
       AnnounceBytes, OrgJoin, SetRosterUrl, RespawnPollLoop
  <1> QED
    BY <1>1, <1>2, <1>3, <1>4

(* Whatever gossip, polling and the verb race, and wherever the daemon       *)
(* crashes, the serial a node enforces never goes back: the installation     *)
(* implements the register.                                                  *)
THEOREM Refinement == Spec => NeverRollsBack
  <1>1. Init => Register!Init
    BY DEF Init, Register!Init
  <1>2. Spec => []IInv
    BY Inductive
  <1> QED
    BY <1>1, <1>2, RegisterStep, PTL DEF Spec, NeverRollsBack, Register!Spec
=============================================================================
