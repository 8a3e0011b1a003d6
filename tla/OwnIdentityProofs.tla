-------------------------- MODULE OwnIdentityProofs --------------------------
(* Proofs about OwnIdentity, for any keys, threads and bounds.               *)
EXTENDS OwnIdentity, TLAPS

(* The identity without an adoption, and the adoption a sidecar amounts to.  *)
Base == IF imported # None THEN imported ELSE boot
Eff(s) == IF s \in Key THEN s ELSE None

(* What holds at the place of each thread.                                   *)
At(t) ==
    /\ run[t].pc # "idle" => up
    /\ run[t].pc = "adopt" => run[t].arg \in Key
    /\ run[t].pc = "detach" => run[t].arg = adopted
    /\ run[t].pc \in {"unadopt", "write"} => run[t].arg \in Key /\ (run[t].replace \/ ~owned)
    /\ run[t].pc = "sign" => adopted = None
    /\ run[t].pc = "reply" => run[t].saved = run[t].arg
    /\ run[t].pc \in {"write", "restore"} /\ ~torn =>
          sidecar \notin Key /\ (blind \/ adopted = Eff(run[t].saved))
AtInv == \A t \in Thread : At(t)

(* The live identity is that of the files, but for a sidecar an import has   *)
(* removed and may restore, and for a file the start could not read.         *)
SyncInv ==
    up /\ ~torn =>
        /\ Base = key \/ (blind /\ Base = None)
        /\ (\A t \in Thread : run[t].pc \notin {"write", "restore"}) =>
              blind \/ adopted = Eff(sidecar)

(* A job outlives its verb only in a daemon recorded as torn.                *)
JobInv == \A j \in jobs : up /\ torn /\ (j.pc = "write" => j.arg \in Key)

(* A key worth keeping is there, and is not one the boot has minted.         *)
OwnInv == owned => key # None /\ ~minted

IInv == TypeOK /\ AtInv /\ SyncInv /\ JobInv /\ OwnInv

LEMMA WorkTyped ==
  /\ Idle \in Work /\ Idle.pc = "idle"
  BY DEF Idle, Work, Pcs

LEMMA Put ==
  ASSUME NEW f \in [Thread -> Work], NEW t \in Thread, NEW r \in Work
  PROVE  /\ [f EXCEPT ![t] = r] \in [Thread -> Work]
         /\ [f EXCEPT ![t] = r][t] = r
         /\ \A u \in Thread \ {t} : [f EXCEPT ![t] = r][u] = f[u]
  OBVIOUS

LEMMA IInvInit == Init => IInv
  <1> SUFFICES ASSUME Init PROVE IInv
    OBVIOUS
  <1> USE IdentityAssumption, WorkTyped DEF Init
  <1>1. {up, minted, owned, torn, blind} \subseteq BOOLEAN
    BY Zenon
  <1>a. MaxFaults \in Nat /\ MaxCuts \in Nat /\ MaxBoots \in Nat
    OBVIOUS
  <1>c. run \in [Thread -> Work] /\ \A t \in Thread : run[t].pc = "idle"
    OBVIOUS
  <1>2. TypeOK
    BY <1>1, <1>a, <1>c DEF TypeOK, Holds
  <1>3. AtInv /\ SyncInv /\ JobInv /\ OwnInv
    BY DEF AtInv, At, SyncInv, JobInv, OwnInv
  <1> QED
    BY <1>2, <1>3 DEF IInv

(* Boot: every thread is idle and no job is left. *)
LEMMA BootKeeps ==
  ASSUME IInv, Boot
  PROVE  IInv'
  <1>f. run' = run
    BY DEF Boot
  <1> USE IdentityAssumption, <1>f DEF Boot, LoadSidecar, IInv, TypeOK, Holds, Locked, disk, live, past, bounds
  <1>b. {up', minted', owned', torn', blind'} \subseteq BOOLEAN
    OBVIOUS
  <1>1. TypeOK'
    BY <1>b DEF AtInv, At
  <1>2. AtInv'
    <2> SUFFICES ASSUME NEW u \in Thread PROVE At(u)'
      BY DEF AtInv
    <2> QED
      BY DEF AtInv, At, OwnInv, JobInv, Eff
  <1>3. SyncInv'
    BY DEF SyncInv, AtInv, At, JobInv, Base, Eff
  <1>4. JobInv'
    BY DEF JobInv, AtInv, At
  <1>5. OwnInv'
    BY DEF OwnInv, AtInv, At, JobInv
  <1> QED
    BY <1>1, <1>2, <1>3, <1>4, <1>5

(* BootWithoutKey: that the key was not read is recorded. *)
LEMMA BootWithoutKeyKeeps ==
  ASSUME IInv, BootWithoutKey
  PROVE  IInv'
  <1>f. run' = run
    BY DEF BootWithoutKey
  <1> USE IdentityAssumption, <1>f DEF BootWithoutKey, LoadSidecar, IInv, TypeOK, Holds, Locked, disk, live, past, bounds
  <1>b. {up', minted', owned', torn', blind'} \subseteq BOOLEAN
    OBVIOUS
  <1>1. TypeOK'
    BY <1>b DEF AtInv, At, Work
  <1>2. AtInv'
    <2> SUFFICES ASSUME NEW u \in Thread PROVE At(u)'
      BY DEF AtInv
    <2> QED
      BY DEF AtInv, At, OwnInv, JobInv, Eff
  <1>3. SyncInv'
    BY DEF SyncInv, AtInv, At, JobInv, Base, Eff
  <1>4. JobInv'
    BY DEF JobInv, AtInv, At
  <1>5. OwnInv'
    BY DEF OwnInv, AtInv, At, JobInv
  <1> QED
    BY <1>1, <1>2, <1>3, <1>4, <1>5

(* Crash: nothing is left running. *)
LEMMA CrashKeeps ==
  ASSUME IInv, Crash
  PROVE  IInv'
  <1>f. run' \in [Thread -> Work] /\ \A u \in Thread : run'[u].pc = "idle"
    BY WorkTyped DEF Crash
  <1> USE IdentityAssumption, <1>f DEF Crash, IInv, TypeOK, Holds, Locked, disk, live, past, bounds
  <1>b. {up', minted', owned', torn', blind'} \subseteq BOOLEAN
    OBVIOUS
  <1>1. TypeOK'
    BY <1>b DEF AtInv, At, Work
  <1>2. AtInv'
    <2> SUFFICES ASSUME NEW u \in Thread PROVE At(u)'
      BY DEF AtInv
    <2> QED
      BY DEF AtInv, At, OwnInv, JobInv, Eff
  <1>3. SyncInv'
    BY DEF SyncInv, AtInv, At, JobInv, Base, Eff
  <1>4. JobInv'
    BY DEF JobInv, AtInv, At
  <1>5. OwnInv'
    BY DEF OwnInv, AtInv, At, JobInv
  <1> QED
    BY <1>1, <1>2, <1>3, <1>4, <1>5

(* EditKey: the edit is recorded. *)
LEMMA EditKeyKeeps ==
  ASSUME IInv, NEW k \in Key \cup {None}, EditKey(k)
  PROVE  IInv'
  <1>f. run' = run
    BY DEF EditKey
  <1> USE IdentityAssumption, <1>f DEF EditKey, Fault, IInv, TypeOK, Holds, Locked, disk, live, past, bounds
  <1>b. {up', minted', owned', torn', blind'} \subseteq BOOLEAN
    OBVIOUS
  <1>1. TypeOK'
    BY <1>b DEF AtInv, At, Work
  <1>2. AtInv'
    <2> SUFFICES ASSUME NEW u \in Thread PROVE At(u)'
      BY DEF AtInv
    <2> QED
      BY DEF AtInv, At, OwnInv, JobInv, Eff
  <1>3. SyncInv'
    BY DEF SyncInv, AtInv, At, JobInv, Base, Eff
  <1>4. JobInv'
    BY DEF JobInv, AtInv, At
  <1>5. OwnInv'
    BY DEF OwnInv, AtInv, At, JobInv
  <1> QED
    BY <1>1, <1>2, <1>3, <1>4, <1>5

(* PlantSidecar: the sidecar planted does not verify. *)
LEMMA PlantSidecarKeeps ==
  ASSUME IInv, PlantSidecar
  PROVE  IInv'
  <1>f. run' = run
    BY DEF PlantSidecar
  <1> USE IdentityAssumption, <1>f DEF PlantSidecar, Fault, IInv, TypeOK, Holds, Locked, disk, live, past, bounds
  <1>b. {up', minted', owned', torn', blind'} \subseteq BOOLEAN
    OBVIOUS
  <1>1. TypeOK'
    BY <1>b DEF AtInv, At, Work
  <1>2. AtInv'
    <2> SUFFICES ASSUME NEW u \in Thread PROVE At(u)'
      BY DEF AtInv
    <2> QED
      BY DEF AtInv, At, OwnInv, JobInv, Eff
  <1>3. SyncInv'
    BY DEF SyncInv, AtInv, At, JobInv, Base, Eff
  <1>4. JobInv'
    BY DEF JobInv, AtInv, At
  <1>5. OwnInv'
    BY DEF OwnInv, AtInv, At, JobInv
  <1> QED
    BY <1>1, <1>2, <1>3, <1>4, <1>5

(* AdoptBegin: the lock was free. *)
LEMMA AdoptBeginKeeps ==
  ASSUME IInv, NEW t \in Thread, NEW p \in Key, AdoptBegin(t, p)
  PROVE  IInv'
  <1>t. run \in [Thread -> Work] /\ run[t] \in Work
    BY DEF IInv, TypeOK
  <1> DEFINE r == [Idle EXCEPT !.pc = "adopt", !.arg = p]
  <1>r. run' = [run EXCEPT ![t] = r]
    BY DEF AdoptBegin
  <1>s. r \in Work /\ r.pc = "adopt" /\ r.arg = p
    BY <1>t DEF Idle, Work, Pcs, IInv, TypeOK
  <1> HIDE DEF r
  <1>f. /\ run' \in [Thread -> Work] /\ \A u \in Thread \ {t} : run'[u] = run[u]
        /\ run'[t].pc = "adopt" /\ run'[t].arg = p
    BY <1>t, <1>r, <1>s
  <1> USE IdentityAssumption, <1>f DEF AdoptBegin, IInv, TypeOK, Holds, Locked, disk, live, past, bounds
  <1>b. {up', minted', owned', torn', blind'} \subseteq BOOLEAN
    OBVIOUS
  <1>1. TypeOK'
    BY <1>b, <1>t DEF AtInv, At, Work
  <1>2. AtInv'
    <2> SUFFICES ASSUME NEW u \in Thread PROVE At(u)'
      BY DEF AtInv
    <2>1. At(t)'
      BY DEF AtInv, At, OwnInv, SyncInv, Eff
    <2>2. CASE u # t
      BY <2>2 DEF AtInv, At, OwnInv, Eff
    <2> QED
      BY <2>1, <2>2
  <1>3. SyncInv'
    BY DEF SyncInv, AtInv, At, JobInv, Base, Eff
  <1>4. JobInv'
    BY DEF JobInv, AtInv, At
  <1>5. OwnInv'
    BY DEF OwnInv, AtInv, At, JobInv
  <1> QED
    BY <1>1, <1>2, <1>3, <1>4, <1>5

(* AdoptWritten: the file and the live slot move together. *)
LEMMA AdoptWrittenKeeps ==
  ASSUME IInv, NEW t \in Thread, AdoptWritten(t)
  PROVE  IInv'
  <1>t. run \in [Thread -> Work] /\ run[t] \in Work
    BY DEF IInv, TypeOK
  <1> DEFINE r == Idle
  <1>r. run' = [run EXCEPT ![t] = r]
    BY DEF AdoptWritten, Fault, End
  <1>s. r \in Work /\ r.pc = "idle"
    BY <1>t DEF Idle, Work, Pcs, IInv, TypeOK
  <1> HIDE DEF r
  <1>f. /\ run' \in [Thread -> Work] /\ \A u \in Thread \ {t} : run'[u] = run[u]
        /\ run'[t].pc = "idle"
    BY <1>t, <1>r, <1>s
  <1> USE IdentityAssumption, <1>f DEF AdoptWritten, Fault, IInv, TypeOK, Holds, Locked, disk, live, past, bounds
  <1>b. {up', minted', owned', torn', blind'} \subseteq BOOLEAN
    OBVIOUS
  <1>1. TypeOK'
    BY <1>b, <1>t DEF AtInv, At, Work
  <1>2. AtInv'
    <2> SUFFICES ASSUME NEW u \in Thread PROVE At(u)'
      BY DEF AtInv
    <2>1. At(t)'
      BY DEF AtInv, At, OwnInv, SyncInv, Eff
    <2>2. CASE u # t
      BY <2>2 DEF AtInv, At, OwnInv, Eff
    <2> QED
      BY <2>1, <2>2
  <1>3. SyncInv'
    BY DEF SyncInv, AtInv, At, JobInv, Base, Eff
  <1>4. JobInv'
    BY DEF JobInv, AtInv, At
  <1>5. OwnInv'
    BY DEF OwnInv, AtInv, At, JobInv
  <1> QED
    BY <1>1, <1>2, <1>3, <1>4, <1>5

(* DetachBegin: the lock was free. *)
LEMMA DetachBeginKeeps ==
  ASSUME IInv, NEW t \in Thread, DetachBegin(t)
  PROVE  IInv'
  <1>t. run \in [Thread -> Work] /\ run[t] \in Work
    BY DEF IInv, TypeOK
  <1> DEFINE r == [Idle EXCEPT !.pc = "detach", !.arg = adopted]
  <1>r. run' = [run EXCEPT ![t] = r]
    BY DEF DetachBegin
  <1>s. r \in Work /\ r.pc = "detach" /\ r.arg = adopted
    BY <1>t DEF Idle, Work, Pcs, IInv, TypeOK
  <1> HIDE DEF r
  <1>f. /\ run' \in [Thread -> Work] /\ \A u \in Thread \ {t} : run'[u] = run[u]
        /\ run'[t].pc = "detach" /\ run'[t].arg = adopted
    BY <1>t, <1>r, <1>s
  <1> USE IdentityAssumption, <1>f DEF DetachBegin, IInv, TypeOK, Holds, Locked, disk, live, past, bounds
  <1>b. {up', minted', owned', torn', blind'} \subseteq BOOLEAN
    OBVIOUS
  <1>1. TypeOK'
    BY <1>b, <1>t DEF AtInv, At, Work
  <1>2. AtInv'
    <2> SUFFICES ASSUME NEW u \in Thread PROVE At(u)'
      BY DEF AtInv
    <2>1. At(t)'
      BY DEF AtInv, At, OwnInv, SyncInv, Eff
    <2>2. CASE u # t
      BY <2>2 DEF AtInv, At, OwnInv, Eff
    <2> QED
      BY <2>1, <2>2
  <1>3. SyncInv'
    BY DEF SyncInv, AtInv, At, JobInv, Base, Eff
  <1>4. JobInv'
    BY DEF JobInv, AtInv, At
  <1>5. OwnInv'
    BY DEF OwnInv, AtInv, At, JobInv
  <1> QED
    BY <1>1, <1>2, <1>3, <1>4, <1>5

(* Detached: the live slot goes only with the file. *)
LEMMA DetachedKeeps ==
  ASSUME IInv, NEW t \in Thread, Detached(t)
  PROVE  IInv'
  <1>t. run \in [Thread -> Work] /\ run[t] \in Work
    BY DEF IInv, TypeOK
  <1> DEFINE r == Idle
  <1>r. run' = [run EXCEPT ![t] = r]
    BY DEF Detached, Fault, End
  <1>s. r \in Work /\ r.pc = "idle"
    BY <1>t DEF Idle, Work, Pcs, IInv, TypeOK
  <1> HIDE DEF r
  <1>f. /\ run' \in [Thread -> Work] /\ \A u \in Thread \ {t} : run'[u] = run[u]
        /\ run'[t].pc = "idle"
    BY <1>t, <1>r, <1>s
  <1> USE IdentityAssumption, <1>f DEF Detached, Fault, IInv, TypeOK, Holds, Locked, disk, live, past, bounds
  <1>b. {up', minted', owned', torn', blind'} \subseteq BOOLEAN
    OBVIOUS
  <1>1. TypeOK'
    BY <1>b, <1>t DEF AtInv, At, Work
  <1>2. AtInv'
    <2> SUFFICES ASSUME NEW u \in Thread PROVE At(u)'
      BY DEF AtInv
    <2>1. At(t)'
      BY DEF AtInv, At, OwnInv, SyncInv, Eff
    <2>2. CASE u # t
      BY <2>2 DEF AtInv, At, OwnInv, Eff
    <2> QED
      BY <2>1, <2>2
  <1>3. SyncInv'
    BY DEF SyncInv, AtInv, At, JobInv, Base, Eff
  <1>4. JobInv'
    BY DEF JobInv, AtInv, At
  <1>5. OwnInv'
    BY DEF OwnInv, AtInv, At, JobInv
  <1> QED
    BY <1>1, <1>2, <1>3, <1>4, <1>5

(* ImportBegin: the guard defends an owned key. *)
LEMMA ImportBeginKeeps ==
  ASSUME IInv, NEW t \in Thread, NEW k \in Key, NEW replace \in BOOLEAN, ImportBegin(t, k, replace)
  PROVE  IInv'
  <1>t. run \in [Thread -> Work] /\ run[t] \in Work
    BY DEF IInv, TypeOK
  <1> DEFINE r == [pc |-> "unadopt", arg |-> k, saved |-> None, over |-> key # None, replace |-> replace]
  <1>r. run' = [run EXCEPT ![t] = r]
    BY DEF ImportBegin
  <1>o. (key # None) \in BOOLEAN
    BY Zenon
  <1>s. r \in Work
    BY <1>o DEF Work, Pcs
  <1>f. /\ run' \in [Thread -> Work] /\ \A u \in Thread \ {t} : run'[u] = run[u]
        /\ run'[t].pc = "unadopt" /\ run'[t].arg = k /\ (run'[t].replace <=> replace)
    BY <1>t, <1>r, <1>s, Put
  <1> USE IdentityAssumption, <1>f DEF ImportBegin, IInv, TypeOK, Holds, Locked, disk, live, past, bounds
  <1>b. {up', minted', owned', torn', blind'} \subseteq BOOLEAN
    OBVIOUS
  <1>1. TypeOK'
    BY <1>b, <1>t DEF AtInv, At, Work
  <1>2. AtInv'
    <2> SUFFICES ASSUME NEW u \in Thread PROVE At(u)'
      BY DEF AtInv
    <2>1. At(t)'
      BY DEF AtInv, At, OwnInv, SyncInv, Eff
    <2>2. CASE u # t
      BY <2>2 DEF AtInv, At, OwnInv, Eff
    <2> QED
      BY <2>1, <2>2
  <1>3. SyncInv'
    BY DEF SyncInv, AtInv, At, JobInv, Base, Eff
  <1>4. JobInv'
    BY DEF JobInv, AtInv, At
  <1>5. OwnInv'
    BY DEF OwnInv, AtInv, At, JobInv
  <1> QED
    BY <1>1, <1>2, <1>3, <1>4, <1>5

(* SidecarGone: the sidecar removed is kept for a restore. *)
LEMMA SidecarGoneKeeps ==
  ASSUME IInv, NEW t \in Thread, SidecarGone(t)
  PROVE  IInv'
  <1>t. run \in [Thread -> Work] /\ run[t] \in Work
    BY DEF IInv, TypeOK
  <1>f. /\ run' \in [Thread -> Work] /\ \A u \in Thread \ {t} : run'[u] = run[u]
        /\ \/ run'[t].pc = "idle" /\ sidecar' = sidecar
           \/ /\ run'[t].pc = "write" /\ run'[t].arg = run[t].arg /\ sidecar' = None
              /\ run'[t].saved = sidecar /\ (run'[t].replace <=> run[t].replace)
    <2>1. CASE End(t) /\ UNCHANGED sidecar
      BY <2>1, <1>t, WorkTyped DEF End
    <2>2. CASE sidecar' = None /\ run' = [run EXCEPT ![t].pc = "write", ![t].saved = sidecar]
      <3> DEFINE r == [run[t] EXCEPT !.pc = "write", !.saved = sidecar]
      <3>1. run' = [run EXCEPT ![t] = r]
        BY <2>2, <1>t
      <3>2. r \in Work /\ r.pc = "write" /\ r.arg = run[t].arg /\ r.saved = sidecar
        BY <1>t DEF Work, Pcs, IInv, TypeOK
      <3>3. r.replace = run[t].replace
        BY <1>t DEF Work
      <3> HIDE DEF r
      <3> QED
        BY <3>1, <3>2, <3>3, <2>2, <1>t, Put
    <2> QED
      BY <2>1, <2>2 DEF SidecarGone
  <1> USE IdentityAssumption, <1>f DEF SidecarGone, Fault, IInv, TypeOK, Holds, Locked, disk, live, past, bounds
  <1>b. {up', minted', owned', torn', blind'} \subseteq BOOLEAN
    OBVIOUS
  <1>1. TypeOK'
    BY <1>b, <1>t DEF Work
  <1>2. AtInv'
    <2> SUFFICES ASSUME NEW u \in Thread PROVE At(u)'
      BY DEF AtInv
    <2>1. At(t)'
      BY DEF AtInv, At, OwnInv, SyncInv, Eff
    <2>2. CASE u # t
      BY <2>2 DEF AtInv, At, OwnInv, Eff
    <2> QED
      BY <2>1, <2>2
  <1>3. SyncInv'
    BY DEF SyncInv, AtInv, At, JobInv, Base, Eff
  <1>4. JobInv'
    BY DEF JobInv, AtInv, At
  <1>5. OwnInv'
    BY DEF OwnInv, AtInv, At, JobInv
  <1> QED
    BY <1>1, <1>2, <1>3, <1>4, <1>5

(* KeyWritten: the key, the imported binding and the slot agree. *)
LEMMA KeyWrittenKeeps ==
  ASSUME IInv, NEW t \in Thread, KeyWritten(t)
  PROVE  IInv'
  <1>t. run \in [Thread -> Work] /\ run[t] \in Work
    BY DEF IInv, TypeOK
  <1> DEFINE r == Idle
  <1>r. run' = [run EXCEPT ![t] = r]
    BY DEF KeyWritten, End
  <1>s. r \in Work /\ r.pc = "idle"
    BY <1>t DEF Idle, Work, Pcs, IInv, TypeOK
  <1> HIDE DEF r
  <1>f. /\ run' \in [Thread -> Work] /\ \A u \in Thread \ {t} : run'[u] = run[u]
        /\ run'[t].pc = "idle"
    BY <1>t, <1>r, <1>s
  <1> USE IdentityAssumption, <1>f DEF KeyWritten, IInv, TypeOK, Holds, Locked, disk, live, past, bounds
  <1>b. {up', minted', owned', torn', blind'} \subseteq BOOLEAN
    OBVIOUS
  <1>1. TypeOK'
    BY <1>b, <1>t DEF AtInv, At, Work
  <1>2. AtInv'
    <2> SUFFICES ASSUME NEW u \in Thread PROVE At(u)'
      BY DEF AtInv
    <2>1. At(t)'
      BY DEF AtInv, At, OwnInv, SyncInv, Eff
    <2>2. CASE u # t
      BY <2>2 DEF AtInv, At, OwnInv, Eff
    <2> QED
      BY <2>1, <2>2
  <1>3. SyncInv'
    BY DEF SyncInv, AtInv, At, JobInv, Base, Eff
  <1>4. JobInv'
    BY DEF JobInv, AtInv, At
  <1>5. OwnInv'
    BY DEF OwnInv, AtInv, At, JobInv
  <1> QED
    BY <1>1, <1>2, <1>3, <1>4, <1>5

(* KeyNotWritten: what was removed is restored. *)
LEMMA KeyNotWrittenKeeps ==
  ASSUME IInv, NEW t \in Thread, KeyNotWritten(t)
  PROVE  IInv'
  <1>t. run \in [Thread -> Work] /\ run[t] \in Work
    BY DEF IInv, TypeOK
  <1>f. /\ run' \in [Thread -> Work] /\ \A u \in Thread \ {t} : run'[u] = run[u]
        /\ \/ run'[t].pc = "idle" /\ run[t].saved = None
           \/ run'[t].pc = "restore" /\ run'[t].saved = run[t].saved
    <2>1. CASE run[t].saved = None
      <3>1. run' = [run EXCEPT ![t] = Idle]
        BY <2>1 DEF KeyNotWritten, End
      <3> QED
        BY <2>1, <3>1, <1>t, WorkTyped
    <2>2. CASE run[t].saved # None
      BY <2>2, <1>t DEF KeyNotWritten, Goto, Work, Pcs
    <2> QED
      BY <2>1, <2>2
  <1> USE IdentityAssumption, <1>f DEF KeyNotWritten, Fault, IInv, TypeOK, Holds, Locked, disk, live, past, bounds
  <1>b. {up', minted', owned', torn', blind'} \subseteq BOOLEAN
    OBVIOUS
  <1>1. TypeOK'
    BY <1>b, <1>t DEF AtInv, At, Work
  <1>2. AtInv'
    <2> SUFFICES ASSUME NEW u \in Thread PROVE At(u)'
      BY DEF AtInv
    <2>1. At(t)'
      BY DEF AtInv, At, OwnInv, SyncInv, Eff
    <2>2. CASE u # t
      BY <2>2 DEF AtInv, At, OwnInv, Eff
    <2> QED
      BY <2>1, <2>2
  <1>3. SyncInv'
    BY DEF SyncInv, AtInv, At, JobInv, Base, Eff
  <1>4. JobInv'
    BY DEF JobInv, AtInv, At
  <1>5. OwnInv'
    BY DEF OwnInv, AtInv, At, JobInv
  <1> QED
    BY <1>1, <1>2, <1>3, <1>4, <1>5

(* Restored: either the file is back or the adoption is over. *)
LEMMA RestoredKeeps ==
  ASSUME IInv, NEW t \in Thread, Restored(t)
  PROVE  IInv'
  <1>t. run \in [Thread -> Work] /\ run[t] \in Work
    BY DEF IInv, TypeOK
  <1> DEFINE r == Idle
  <1>r. run' = [run EXCEPT ![t] = r]
    BY DEF Restored, Fault, End
  <1>s. r \in Work /\ r.pc = "idle"
    BY <1>t DEF Idle, Work, Pcs, IInv, TypeOK
  <1> HIDE DEF r
  <1>f. /\ run' \in [Thread -> Work] /\ \A u \in Thread \ {t} : run'[u] = run[u]
        /\ run'[t].pc = "idle"
    BY <1>t, <1>r, <1>s
  <1> USE IdentityAssumption, <1>f DEF Restored, Fault, IInv, TypeOK, Holds, Locked, disk, live, past, bounds
  <1>b. {up', minted', owned', torn', blind'} \subseteq BOOLEAN
    OBVIOUS
  <1>1. TypeOK'
    BY <1>b, <1>t DEF AtInv, At, Work
  <1>2. AtInv'
    <2> SUFFICES ASSUME NEW u \in Thread PROVE At(u)'
      BY DEF AtInv
    <2>1. At(t)'
      BY DEF AtInv, At, OwnInv, SyncInv, Eff
    <2>2. CASE u # t
      BY <2>2 DEF AtInv, At, OwnInv, Eff
    <2> QED
      BY <2>1, <2>2
  <1>3. SyncInv'
    BY DEF SyncInv, AtInv, At, JobInv, Base, Eff
  <1>4. JobInv'
    BY DEF JobInv, AtInv, At
  <1>5. OwnInv'
    BY DEF OwnInv, AtInv, At, JobInv
  <1> QED
    BY <1>1, <1>2, <1>3, <1>4, <1>5

(* SignBegin: the gate holds under the lock. *)
LEMMA SignBeginKeeps ==
  ASSUME IInv, NEW t \in Thread, SignBegin(t)
  PROVE  IInv'
  <1>t. run \in [Thread -> Work] /\ run[t] \in Work
    BY DEF IInv, TypeOK
  <1> DEFINE r == [Idle EXCEPT !.pc = "sign"]
  <1>r. run' = [run EXCEPT ![t] = r]
    BY DEF SignBegin
  <1>s. r \in Work /\ r.pc = "sign"
    BY <1>t DEF Idle, Work, Pcs, IInv, TypeOK
  <1> HIDE DEF r
  <1>f. /\ run' \in [Thread -> Work] /\ \A u \in Thread \ {t} : run'[u] = run[u]
        /\ run'[t].pc = "sign"
    BY <1>t, <1>r, <1>s
  <1> USE IdentityAssumption, <1>f DEF SignBegin, IInv, TypeOK, Holds, Locked, disk, live, past, bounds
  <1>b. {up', minted', owned', torn', blind'} \subseteq BOOLEAN
    OBVIOUS
  <1>1. TypeOK'
    BY <1>b, <1>t DEF AtInv, At, Work
  <1>2. AtInv'
    <2> SUFFICES ASSUME NEW u \in Thread PROVE At(u)'
      BY DEF AtInv
    <2>1. At(t)'
      BY DEF AtInv, At, OwnInv, SyncInv, Eff
    <2>2. CASE u # t
      BY <2>2 DEF AtInv, At, OwnInv, Eff
    <2> QED
      BY <2>1, <2>2
  <1>3. SyncInv'
    BY DEF SyncInv, AtInv, At, JobInv, Base, Eff
  <1>4. JobInv'
    BY DEF JobInv, AtInv, At
  <1>5. OwnInv'
    BY DEF OwnInv, AtInv, At, JobInv
  <1> QED
    BY <1>1, <1>2, <1>3, <1>4, <1>5

(* Sign: nothing moves. *)
LEMMA SignKeeps ==
  ASSUME IInv, NEW t \in Thread, Sign(t)
  PROVE  IInv'
  <1>t. run \in [Thread -> Work] /\ run[t] \in Work
    BY DEF IInv, TypeOK
  <1> DEFINE r == Idle
  <1>r. run' = [run EXCEPT ![t] = r]
    BY DEF Sign, End
  <1>s. r \in Work /\ r.pc = "idle"
    BY <1>t DEF Idle, Work, Pcs, IInv, TypeOK
  <1> HIDE DEF r
  <1>f. /\ run' \in [Thread -> Work] /\ \A u \in Thread \ {t} : run'[u] = run[u]
        /\ run'[t].pc = "idle"
    BY <1>t, <1>r, <1>s
  <1> USE IdentityAssumption, <1>f DEF Sign, IInv, TypeOK, Holds, Locked, disk, live, past, bounds
  <1>b. {up', minted', owned', torn', blind'} \subseteq BOOLEAN
    OBVIOUS
  <1>1. TypeOK'
    BY <1>b, <1>t DEF AtInv, At, Work
  <1>2. AtInv'
    <2> SUFFICES ASSUME NEW u \in Thread PROVE At(u)'
      BY DEF AtInv
    <2>1. At(t)'
      BY DEF AtInv, At, OwnInv, SyncInv, Eff
    <2>2. CASE u # t
      BY <2>2 DEF AtInv, At, OwnInv, Eff
    <2> QED
      BY <2>1, <2>2
  <1>3. SyncInv'
    BY DEF SyncInv, AtInv, At, JobInv, Base, Eff
  <1>4. JobInv'
    BY DEF JobInv, AtInv, At
  <1>5. OwnInv'
    BY DEF OwnInv, AtInv, At, JobInv
  <1> QED
    BY <1>1, <1>2, <1>3, <1>4, <1>5

(* CeremonyAccept: no lock is held. *)
LEMMA CeremonyAcceptKeeps ==
  ASSUME IInv, NEW t \in Thread, CeremonyAccept(t)
  PROVE  IInv'
  <1>t. run \in [Thread -> Work] /\ run[t] \in Work
    BY DEF IInv, TypeOK
  <1>p. Presented \in Key \cup {None}
    BY DEF Presented, IInv, TypeOK
  <1> DEFINE r == [Idle EXCEPT !.pc = "accepted", !.arg = Presented]
  <1>r. run' = [run EXCEPT ![t] = r]
    BY DEF CeremonyAccept
  <1>s. r \in Work /\ r.pc = "accepted"
    BY <1>p DEF Idle, Work, Pcs
  <1> HIDE DEF r
  <1>f. /\ run' \in [Thread -> Work] /\ \A u \in Thread \ {t} : run'[u] = run[u]
        /\ run'[t].pc = "accepted"
    BY <1>t, <1>r, <1>s
  <1> USE IdentityAssumption, <1>f DEF CeremonyAccept, IInv, TypeOK, Holds, Locked, disk, live, past, bounds
  <1>b. {up', minted', owned', torn', blind'} \subseteq BOOLEAN
    OBVIOUS
  <1>1. TypeOK'
    BY <1>b, <1>t DEF AtInv, At, Work
  <1>2. AtInv'
    <2> SUFFICES ASSUME NEW u \in Thread PROVE At(u)'
      BY DEF AtInv
    <2>1. At(t)'
      BY DEF AtInv, At, OwnInv, SyncInv, Eff
    <2>2. CASE u # t
      BY <2>2 DEF AtInv, At, OwnInv, Eff
    <2> QED
      BY <2>1, <2>2
  <1>3. SyncInv'
    BY DEF SyncInv, AtInv, At, JobInv, Base, Eff
  <1>4. JobInv'
    BY DEF JobInv, AtInv, At
  <1>5. OwnInv'
    BY DEF OwnInv, AtInv, At, JobInv
  <1> QED
    BY <1>1, <1>2, <1>3, <1>4, <1>5

(* CeremonyGate: the lock was free. *)
LEMMA CeremonyGateKeeps ==
  ASSUME IInv, NEW t \in Thread, CeremonyGate(t)
  PROVE  IInv'
  <1>t. run \in [Thread -> Work] /\ run[t] \in Work
    BY DEF IInv, TypeOK
  <1>f. /\ run' \in [Thread -> Work] /\ \A u \in Thread \ {t} : run'[u] = run[u]
        /\ run'[t].pc \in {"idle", "bind"}
    <2>1. CASE End(t)
      BY <2>1, <1>t, WorkTyped DEF End
    <2>2. CASE Goto(t, "bind")
      BY <2>2, <1>t DEF Goto, Work, Pcs
    <2> QED
      BY <2>1, <2>2 DEF CeremonyGate
  <1> USE IdentityAssumption, <1>f DEF CeremonyGate, IInv, TypeOK, Holds, Locked, disk, live, past, bounds
  <1>b. {up', minted', owned', torn', blind'} \subseteq BOOLEAN
    OBVIOUS
  <1>1. TypeOK'
    BY <1>b, <1>t DEF AtInv, At, Work
  <1>2. AtInv'
    <2> SUFFICES ASSUME NEW u \in Thread PROVE At(u)'
      BY DEF AtInv
    <2>1. At(t)'
      BY DEF AtInv, At, OwnInv, SyncInv, Eff
    <2>2. CASE u # t
      BY <2>2 DEF AtInv, At, OwnInv, Eff
    <2> QED
      BY <2>1, <2>2
  <1>3. SyncInv'
    BY DEF SyncInv, AtInv, At, JobInv, Base, Eff
  <1>4. JobInv'
    BY DEF JobInv, AtInv, At
  <1>5. OwnInv'
    BY DEF OwnInv, AtInv, At, JobInv
  <1> QED
    BY <1>1, <1>2, <1>3, <1>4, <1>5

(* CeremonyBind: the signature is by the key the snapshot names. *)
LEMMA CeremonyBindKeeps ==
  ASSUME IInv, NEW t \in Thread, CeremonyBind(t)
  PROVE  IInv'
  <1>t. run \in [Thread -> Work] /\ run[t] \in Work
    BY DEF IInv, TypeOK
  <1>f. /\ run' \in [Thread -> Work] /\ \A u \in Thread \ {t} : run'[u] = run[u]
        /\ \/ run'[t].pc = "idle"
           \/ run'[t].pc = "reply" /\ run'[t].saved = run'[t].arg
    <2>1. CASE End(t)
      BY <2>1, <1>t, WorkTyped DEF End
    <2>2. CASE key = run[t].arg
      <3> DEFINE r == [run[t] EXCEPT !.pc = "reply", !.saved = key]
      <3>1. run' = [run EXCEPT ![t] = r]
        BY <2>2, <1>t DEF CeremonyBind
      <3>2. r \in Work /\ r.pc = "reply" /\ r.saved = r.arg
        BY <2>2, <1>t DEF Work, Pcs, IInv, TypeOK
      <3> HIDE DEF r
      <3> QED
        BY <3>1, <3>2, <1>t, Put
    <2> QED
      BY <2>1, <2>2 DEF CeremonyBind
  <1> USE IdentityAssumption, <1>f DEF CeremonyBind, IInv, TypeOK, Holds, Locked, disk, live, past, bounds
  <1>b. {up', minted', owned', torn', blind'} \subseteq BOOLEAN
    OBVIOUS
  <1>1. TypeOK'
    BY <1>b, <1>t DEF AtInv, At, Work
  <1>2. AtInv'
    <2> SUFFICES ASSUME NEW u \in Thread PROVE At(u)'
      BY DEF AtInv
    <2>1. At(t)'
      BY DEF AtInv, At, OwnInv, SyncInv, Eff
    <2>2. CASE u # t
      BY <2>2 DEF AtInv, At, OwnInv, Eff
    <2> QED
      BY <2>1, <2>2
  <1>3. SyncInv'
    BY DEF SyncInv, AtInv, At, JobInv, Base, Eff
  <1>4. JobInv'
    BY DEF JobInv, AtInv, At
  <1>5. OwnInv'
    BY DEF OwnInv, AtInv, At, JobInv
  <1> QED
    BY <1>1, <1>2, <1>3, <1>4, <1>5

(* CeremonyReply: nothing moves. *)
LEMMA CeremonyReplyKeeps ==
  ASSUME IInv, NEW t \in Thread, CeremonyReply(t)
  PROVE  IInv'
  <1>t. run \in [Thread -> Work] /\ run[t] \in Work
    BY DEF IInv, TypeOK
  <1> DEFINE r == Idle
  <1>r. run' = [run EXCEPT ![t] = r]
    BY DEF CeremonyReply, End
  <1>s. r \in Work /\ r.pc = "idle"
    BY <1>t DEF Idle, Work, Pcs, IInv, TypeOK
  <1> HIDE DEF r
  <1>f. /\ run' \in [Thread -> Work] /\ \A u \in Thread \ {t} : run'[u] = run[u]
        /\ run'[t].pc = "idle"
    BY <1>t, <1>r, <1>s
  <1> USE IdentityAssumption, <1>f DEF CeremonyReply, IInv, TypeOK, Holds, Locked, disk, live, past, bounds
  <1>b. {up', minted', owned', torn', blind'} \subseteq BOOLEAN
    OBVIOUS
  <1>1. TypeOK'
    BY <1>b, <1>t DEF AtInv, At, Work
  <1>2. AtInv'
    <2> SUFFICES ASSUME NEW u \in Thread PROVE At(u)'
      BY DEF AtInv
    <2>1. At(t)'
      BY DEF AtInv, At, OwnInv, SyncInv, Eff
    <2>2. CASE u # t
      BY <2>2 DEF AtInv, At, OwnInv, Eff
    <2> QED
      BY <2>1, <2>2
  <1>3. SyncInv'
    BY DEF SyncInv, AtInv, At, JobInv, Base, Eff
  <1>4. JobInv'
    BY DEF JobInv, AtInv, At
  <1>5. OwnInv'
    BY DEF OwnInv, AtInv, At, JobInv
  <1> QED
    BY <1>1, <1>2, <1>3, <1>4, <1>5

(* Disconnect: the job left behind is recorded. *)
LEMMA DisconnectKeeps ==
  ASSUME IInv, NEW t \in Thread, Disconnect(t)
  PROVE  IInv'
  <1>t. run \in [Thread -> Work] /\ run[t] \in Work
    BY DEF IInv, TypeOK
  <1> DEFINE r == Idle
  <1>r. run' = [run EXCEPT ![t] = r]
    BY DEF Disconnect, End
  <1>s. r \in Work /\ r.pc = "idle"
    BY <1>t DEF Idle, Work, Pcs, IInv, TypeOK
  <1> HIDE DEF r
  <1>f. /\ run' \in [Thread -> Work] /\ \A u \in Thread \ {t} : run'[u] = run[u]
        /\ run'[t].pc = "idle"
    BY <1>t, <1>r, <1>s
  <1> USE IdentityAssumption, <1>f DEF Disconnect, IInv, TypeOK, Holds, Locked, disk, live, past, bounds
  <1>b. {up', minted', owned', torn', blind'} \subseteq BOOLEAN
    BY Zenon
  <1>1. TypeOK'
    BY <1>b, <1>t
  <1>2. AtInv'
    <2> SUFFICES ASSUME NEW u \in Thread PROVE At(u)'
      BY DEF AtInv
    <2>1. At(t)'
      BY DEF AtInv, At, OwnInv, SyncInv, Eff
    <2>2. CASE u # t
      BY <2>2 DEF AtInv, At, OwnInv, Eff
    <2> QED
      BY <2>1, <2>2
  <1>3. SyncInv'
    BY DEF SyncInv, AtInv, At, JobInv, Base, Eff
  <1>4. JobInv'
    BY DEF JobInv, AtInv, At
  <1>5. OwnInv'
    BY DEF OwnInv, AtInv, At, JobInv
  <1> QED
    BY <1>1, <1>2, <1>3, <1>4, <1>5

(* JobLands: a job that lands has been recorded. *)
LEMMA JobLandsKeeps ==
  ASSUME IInv, NEW j \in jobs, JobLands(j)
  PROVE  IInv'
  <1>f. run' = run
    BY DEF JobLands
  <1> USE IdentityAssumption, <1>f DEF JobLands, IInv, TypeOK, Holds, Locked, disk, live, past, bounds
  <1>b. {up', minted', owned', torn', blind'} \subseteq BOOLEAN
    OBVIOUS
  <1>1. TypeOK'
    BY <1>b DEF JobInv, Work
  <1>2. AtInv'
    <2> SUFFICES ASSUME NEW u \in Thread PROVE At(u)'
      BY DEF AtInv
    <2> QED
      BY DEF AtInv, At, OwnInv, JobInv, Eff
  <1>3. SyncInv'
    BY DEF SyncInv, AtInv, At, JobInv, Base, Eff
  <1>4. JobInv'
    BY DEF JobInv, AtInv, At
  <1>5. OwnInv'
    BY DEF OwnInv, AtInv, At, JobInv
  <1> QED
    BY <1>1, <1>2, <1>3, <1>4, <1>5

(* Every step keeps the inductive invariant. *)
LEMMA IInvStep == IInv /\ [Next]_vars => IInv'
  <1> SUFFICES ASSUME IInv, [Next]_vars PROVE IInv'
    OBVIOUS
  <1>1. CASE Boot \/ BootWithoutKey \/ Crash \/ PlantSidecar
    BY <1>1, BootKeeps, BootWithoutKeyKeeps, CrashKeeps, PlantSidecarKeeps
  <1>2. ASSUME NEW k \in Key \cup {None}, EditKey(k) PROVE IInv'
    BY <1>2, EditKeyKeeps
  <1>3. ASSUME NEW t \in Thread, NEW p \in Key, AdoptBegin(t, p) PROVE IInv'
    BY <1>3, AdoptBeginKeeps
  <1>4. ASSUME NEW t \in Thread, NEW k \in Key, NEW replace \in BOOLEAN, ImportBegin(t, k, replace)
        PROVE  IInv'
    BY <1>4, ImportBeginKeeps
  <1>5. ASSUME NEW t \in Thread,
               \/ AdoptWritten(t) \/ DetachBegin(t) \/ Detached(t)
               \/ SidecarGone(t) \/ KeyWritten(t) \/ KeyNotWritten(t) \/ Restored(t)
        PROVE  IInv'
    BY <1>5, AdoptWrittenKeeps, DetachBeginKeeps, DetachedKeeps, SidecarGoneKeeps,
       KeyWrittenKeeps, KeyNotWrittenKeeps, RestoredKeeps
  <1>6. ASSUME NEW t \in Thread,
               \/ SignBegin(t) \/ Sign(t) \/ CeremonyAccept(t) \/ CeremonyGate(t)
               \/ CeremonyBind(t) \/ CeremonyReply(t) \/ Disconnect(t)
        PROVE  IInv'
    BY <1>6, SignBeginKeeps, SignKeeps, CeremonyAcceptKeeps, CeremonyGateKeeps,
       CeremonyBindKeeps, CeremonyReplyKeeps, DisconnectKeeps
  <1>7. ASSUME NEW j \in jobs, JobLands(j) PROVE IInv'
    BY <1>7, JobLandsKeeps
  <1>8. CASE UNCHANGED vars
    BY <1>8 DEF vars, disk, live, past, bounds, IInv, TypeOK, Holds, AtInv, At, SyncInv, Base, Eff,
       JobInv, OwnInv
  <1> QED
    BY <1>1, <1>2, <1>3, <1>4, <1>5, <1>6, <1>7, <1>8 DEF Next

(* The inductive invariant of the node's identity. *)
THEOREM Inductive == Spec => []IInv
  BY IInvInit, IInvStep, PTL DEF Spec

(* Every variable keeps its type, and user_key_lock has one holder. *)
THEOREM TypeCorrect == Spec => []TypeOK
  <1>1. IInv => TypeOK
    BY DEF IInv
  <1> QED
    BY <1>1, Inductive, PTL

(* Between verbs the running daemon presents what a restart would: every     *)
(* verb moves the file and the live slot in the order its failures allow.    *)
(* Only a start that could not read its key or its sidecar is without it.    *)
THEOREM RestartPresentsTheSameHolds == Spec => []RestartPresentsTheSame
  <1>1. IInv => RestartPresentsTheSame
    <2> SUFFICES ASSUME IInv, up, ~Locked, ~torn, ~blind PROVE Presented = Boots(key, sidecar)
      BY DEF RestartPresentsTheSame
    <2>1. \A t \in Thread : run[t].pc \notin {"write", "restore"}
      BY DEF Locked, Holds
    <2>2. Base = key /\ adopted = Eff(sidecar)
      BY <2>1 DEF IInv, SyncInv
    <2> QED
      BY <2>2, IdentityAssumption DEF Presented, Boots, Base, Eff
  <1> QED
    BY <1>1, Inductive, PTL

(* Nothing is signed but under the identity presented, lock_own_user_key     *)
(* keeping the lock it checked the gate under; and a binding handed to       *)
(* another device verifies, sign_ceremony_binding comparing the key on disk  *)
(* with the snapshot.                                                        *)
THEOREM SignsAsPresentedHolds == Spec => []SignsAsPresented
  <1>1. IInv => SignsAsPresented
    BY IdentityAssumption DEF IInv, SignsAsPresented, AtInv, At, SyncInv, Base, Presented
  <1> QED
    BY <1>1, Inductive, PTL

(* A step that loses an owned key is an import told to replace it.           *)
LEMMA KeyStep ==
  ASSUME IInv, [Next]_vars
  PROVE  [owned /\ ~torn' /\ key' # key
             => \E t \in Thread : run[t].pc = "write" /\ run[t].replace]_vars
  <1> SUFFICES ASSUME Next, owned, ~torn', key' # key
               PROVE  \E t \in Thread : run[t].pc = "write" /\ run[t].replace
    OBVIOUS
  <1>1. ASSUME NEW t \in Thread, KeyWritten(t)
        PROVE  run[t].pc = "write" /\ run[t].replace
    BY <1>1 DEF KeyWritten, IInv, AtInv, At
  <1>2. CASE Boot
    BY <1>2 DEF Boot, LoadSidecar, IInv, OwnInv
  <1>3. ASSUME NEW j \in jobs, JobLands(j) PROVE FALSE
    BY <1>3 DEF JobLands, past, IInv, JobInv
  <1>4. ASSUME NEW k \in Key \cup {None}, EditKey(k) PROVE FALSE
    BY <1>4 DEF EditKey
  <1>5. \/ \E t \in Thread : KeyWritten(t)
        \/ Boot
        \/ \E j \in jobs : JobLands(j)
        \/ \E k \in Key \cup {None} : EditKey(k)
    BY DEF Next, BootWithoutKey, Crash, PlantSidecar, AdoptBegin, ImportBegin, AdoptWritten,
       DetachBegin, Detached, SidecarGone, KeyNotWritten, Restored, SignBegin, Sign,
       CeremonyAccept, CeremonyGate, CeremonyBind, CeremonyReply, Disconnect, disk
  <1> QED
    BY <1>1, <1>2, <1>3, <1>4, <1>5

(* A key loaded at boot or written by an import is only lost to an import    *)
(* told to replace it: user_key_still_boot_minted is cleared with the write. *)
THEOREM KeyIsKeptHolds == Spec => KeyIsKept
  BY Inductive, KeyStep, PTL DEF Spec, KeyIsKept
=============================================================================
