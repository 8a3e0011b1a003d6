----------------------------- MODULE OwnIdentity -----------------------------
(***************************************************************************)
(* The identity a node presents, and what it signs with: user.key and the  *)
(* adopted-binding sidecar on disk, the boot, imported and adopted bindings*)
(* in memory (node/src/daemon.rs), and the verbs that move them            *)
(* (node/src/daemon/handlers.rs), all serialised by user_key_lock.         *)
(*                                                                         *)
(* A verb's file operations run as blocking jobs.  A verb whose client has *)
(* gone is dropped at the await of its job: the lock is released and the   *)
(* job still lands, with nothing of the verb after it.                     *)
(*                                                                         *)
(* A key and the user id it proves are one value.  Left out: the phrase's  *)
(* encoding, the audit records, and what peers do with what is signed.     *)
(***************************************************************************)
EXTENDS Naturals

CONSTANTS Key,        \* user keys, and the user ids they prove
          Mint,       \* the keys a boot may mint
          Thread,     \* verbs and ceremonies at once
          None,
          Bad,        \* a sidecar that does not verify for this endpoint
          MaxFaults,  \* bound on failed file operations and hand-edited files
          MaxCuts,    \* bound on clients that go away during a verb
          MaxBoots    \* bound on starts of the daemon

ASSUME IdentityAssumption ==
    /\ Mint \subseteq Key
    /\ None \notin Key /\ Bad \notin Key /\ None # Bad
    /\ {MaxFaults, MaxCuts, MaxBoots} \subseteq Nat

VARIABLES
    key,      \* user.key
    sidecar,  \* user.adopted-binding.json
    up,
    boot, imported, adopted,  \* self_binding, imported_binding, adopted_binding
    minted,   \* user_key_still_boot_minted
    run,      \* what each thread is doing
    jobs,     \* blocking jobs whose verb is gone
    owned,    \* history: the key was loaded at boot or written by an import
    torn,     \* history: a file changed under the running daemon
    blind,    \* history: its start could not read a file, no import since
    faults, cuts, boots

disk == <<key, sidecar>>
live == <<boot, imported, adopted, minted>>
past == <<owned, torn, blind>>
bounds == <<faults, cuts, boots>>
vars == <<disk, live, past, bounds, up, run, jobs>>

Idle == [pc |-> "idle", arg |-> None, saved |-> None, over |-> FALSE,
         replace |-> FALSE]

\* self_binding(): the most recent explicit act wins.
Presented ==
    CASE adopted # None -> adopted
      [] adopted = None /\ imported # None -> imported
      [] OTHER -> boot

\* What a start from these files presents.
Boots(k, s) == IF s \in Key THEN s ELSE k

Holds(t) == run[t].pc \notin {"idle", "accepted", "reply"}

Locked == \E t \in Thread : Holds(t)

End(t) == run' = [run EXCEPT ![t] = Idle]

Goto(t, pc) == run' = [run EXCEPT ![t].pc = pc]

Fault == faults < MaxFaults /\ faults' = faults + 1 /\ UNCHANGED <<cuts, boots>>

-----------------------------------------------------------------------------
(* Start and stop.                                                         *)

\* The sidecar counts if it verifies for this endpoint.  One that cannot be
\* read stays where it is: the node presents its own identity meanwhile.
LoadSidecar(keyRead) ==
    \/ /\ adopted' = IF sidecar \in Key THEN sidecar ELSE None
       /\ blind' = ~keyRead
       /\ IF keyRead THEN UNCHANGED faults ELSE faults' = faults + 1
    \/ /\ sidecar \in Key
       /\ adopted' = None
       /\ blind' = TRUE
       /\ faults' = faults + (IF keyRead THEN 1 ELSE 2)

\* load_or_generate, then the sidecar.
Boot ==
    /\ ~up /\ boots < MaxBoots
    /\ IF key = None
       THEN \E k \in Mint : /\ key' = k /\ boot' = k
                            /\ minted' = TRUE /\ owned' = FALSE
       ELSE /\ boot' = key /\ minted' = FALSE /\ owned' = TRUE
            /\ UNCHANGED key
    /\ imported' = None
    /\ LoadSidecar(TRUE) /\ faults' <= MaxFaults
    /\ up' = TRUE /\ torn' = FALSE
    /\ boots' = boots + 1
    /\ UNCHANGED <<sidecar, run, jobs, cuts>>

\* The key can be neither read nor minted: no identity of the node's own.
BootWithoutKey ==
    /\ ~up /\ boots < MaxBoots
    /\ boot' = None /\ minted' = FALSE /\ imported' = None
    /\ owned' = (key # None)
    /\ LoadSidecar(FALSE) /\ faults' <= MaxFaults
    /\ up' = TRUE /\ torn' = FALSE
    /\ boots' = boots + 1
    /\ UNCHANGED <<disk, run, jobs, cuts>>

\* The daemon stops, at any point.
Crash ==
    /\ up /\ up' = FALSE
    /\ run' = [t \in Thread |-> Idle] /\ jobs' = {}
    /\ UNCHANGED <<disk, live, past, bounds>>

\* Someone edits the state root by hand while the daemon runs.
EditKey(k) ==
    /\ up /\ Fault /\ k # key
    /\ key' = k
    /\ torn' = TRUE /\ owned' = FALSE
    /\ UNCHANGED <<sidecar, live, blind, up, run, jobs>>

PlantSidecar ==
    /\ up /\ Fault /\ sidecar = None
    /\ sidecar' = Bad
    /\ UNCHANGED <<key, live, past, up, run, jobs>>

-----------------------------------------------------------------------------
(* adopt_hook: the last step of redeeming a self-enrolment.                *)
AdoptBegin(t, p) ==
    /\ up /\ ~Locked /\ run[t].pc = "idle"
    /\ run' = [run EXCEPT ![t] = [Idle EXCEPT !.pc = "adopt", !.arg = p]]
    /\ UNCHANGED <<disk, live, past, bounds, up, jobs>>

AdoptWritten(t) ==
    /\ run[t].pc = "adopt"
    /\ \/ /\ sidecar' = run[t].arg /\ adopted' = run[t].arg
          /\ UNCHANGED <<faults, cuts, boots>>
       \/ Fault /\ UNCHANGED <<sidecar, adopted>>
    /\ End(t)
    /\ UNCHANGED <<key, boot, imported, minted, past, up, jobs>>

-----------------------------------------------------------------------------
(* self_enroll_detach.                                                     *)
DetachBegin(t) ==
    /\ up /\ ~Locked /\ run[t].pc = "idle"
    /\ run' = [run EXCEPT ![t] = [Idle EXCEPT !.pc = "detach", !.arg = adopted]]
    /\ UNCHANGED <<disk, live, past, bounds, up, jobs>>

\* As if the exit only dropped the binding in memory.
DetachMutant(t) ==
    /\ run[t].pc = "detach"
    /\ adopted' = None
    /\ End(t)
    /\ UNCHANGED <<disk, boot, imported, minted, past, bounds, up, jobs>>

\* A sidecar with no live adoption is removed too; the live slot only goes
\* once the file has.
Detached(t) ==
    /\ run[t].pc = "detach"
    /\ \/ /\ sidecar' = None
          /\ adopted' = IF run[t].arg # None THEN None ELSE adopted
          /\ UNCHANGED <<faults, cuts, boots>>
       \/ sidecar # None /\ Fault /\ UNCHANGED <<sidecar, adopted>>
    /\ End(t)
    /\ UNCHANGED <<key, boot, imported, minted, past, up, jobs>>

-----------------------------------------------------------------------------
(* user_key_import.                                                        *)

\* A real key is defended unless the caller says replace.
ImportBegin(t, k, replace) ==
    /\ up /\ ~Locked /\ run[t].pc = "idle"
    /\ key = None \/ minted \/ replace
    /\ run' = [run EXCEPT ![t] = [pc |-> "unadopt", arg |-> k,
                                  saved |-> None, over |-> key # None,
                                  replace |-> replace]]
    /\ UNCHANGED <<disk, live, past, bounds, up, jobs>>

\* The sidecar goes first: a file that stays would outrank the key at boot.
SidecarGone(t) ==
    /\ run[t].pc = "unadopt"
    /\ \/ /\ sidecar' = None
          /\ run' = [run EXCEPT ![t].pc = "write", ![t].saved = sidecar]
          /\ UNCHANGED <<faults, cuts, boots>>
       \/ /\ sidecar # None /\ Fault
          /\ UNCHANGED sidecar /\ End(t)
    /\ UNCHANGED <<key, live, past, up, jobs>>

\* As if an import did not clear user_key_still_boot_minted.
KeyWrittenMutant(t) ==
    /\ run[t].pc = "write"
    /\ key' = run[t].arg
    /\ imported' = run[t].arg /\ adopted' = None /\ owned' = TRUE
    /\ End(t)
    /\ blind' = FALSE
    /\ UNCHANGED <<sidecar, boot, minted, torn, bounds, up, jobs>>

\* One rename over the old key, then the imported binding, live.
KeyWritten(t) ==
    /\ run[t].pc = "write" /\ (run[t].over \/ key = None)
    /\ key' = run[t].arg
    /\ imported' = run[t].arg /\ adopted' = None /\ minted' = FALSE
    /\ owned' = TRUE /\ blind' = FALSE
    /\ End(t)
    /\ UNCHANGED <<sidecar, boot, torn, bounds, up, jobs>>

\* The write fails, as it must where a file appeared meanwhile.
KeyNotWritten(t) ==
    /\ run[t].pc = "write"
    /\ \/ Fault
       \/ ~run[t].over /\ key # None /\ UNCHANGED bounds
    /\ IF run[t].saved = None THEN End(t) ELSE Goto(t, "restore")
    /\ UNCHANGED <<disk, live, past, up, jobs>>

\* The sidecar is written back; if that fails too, the enrolment is over.
Restored(t) ==
    /\ run[t].pc = "restore"
    /\ \/ /\ sidecar' = run[t].saved
          /\ UNCHANGED <<adopted, faults, cuts, boots>>
       \/ Fault /\ adopted' = None /\ UNCHANGED sidecar
    /\ End(t)
    /\ UNCHANGED <<key, boot, imported, minted, past, up, jobs>>

-----------------------------------------------------------------------------
(* peer_endorse, device_revoke and user_key_export.                        *)

\* As if the gate were looked at before the lock was taken.
SignBeginMutant(t) ==
    /\ up /\ ~Locked /\ run[t].pc = "idle"
    /\ run' = [run EXCEPT ![t] = [Idle EXCEPT !.pc = "sign"]]
    /\ UNCHANGED <<disk, live, past, bounds, up, jobs>>

\* lock_own_user_key: refused on an enrolled device, checked under the lock
\* that is kept to the signature.
SignBegin(t) ==
    /\ up /\ ~Locked /\ run[t].pc = "idle" /\ adopted = None
    /\ run' = [run EXCEPT ![t] = [Idle EXCEPT !.pc = "sign"]]
    /\ UNCHANGED <<disk, live, past, bounds, up, jobs>>

\* read_user_key, never minting one, and the signature or the phrase.
Sign(t) ==
    /\ run[t].pc = "sign"
    /\ End(t)
    /\ UNCHANGED <<disk, live, past, bounds, up, jobs>>

-----------------------------------------------------------------------------
(* The inviter's side of a self-enrolment.                                 *)

\* inviter_ctx: one snapshot of the identity, as the connection is accepted.
CeremonyAccept(t) ==
    /\ up /\ run[t].pc = "idle" /\ Presented # None
    /\ run' = [run EXCEPT ![t] = [Idle EXCEPT !.pc = "accepted", !.arg = Presented]]
    /\ UNCHANGED <<disk, live, past, bounds, up, jobs>>

\* sign_ceremony_binding: not enrolled, and the snapshot still current ...
CeremonyGate(t) ==
    /\ run[t].pc = "accepted" /\ ~Locked
    /\ IF adopted = None /\ Presented = run[t].arg THEN Goto(t, "bind") ELSE End(t)
    /\ UNCHANGED <<disk, live, past, bounds, up, jobs>>

\* ... and the key on disk the one behind it.
CeremonyBind(t) ==
    /\ run[t].pc = "bind"
    /\ IF key = run[t].arg THEN run' = [run EXCEPT ![t].pc = "reply", ![t].saved = key] ELSE End(t)
    /\ UNCHANGED <<disk, live, past, bounds, up, jobs>>

\* The reply names the snapshot and carries the signature, with no lock held.
CeremonyReply(t) ==
    /\ run[t].pc = "reply"
    /\ End(t)
    /\ UNCHANGED <<disk, live, past, bounds, up, jobs>>

-----------------------------------------------------------------------------
\* The client of a control verb goes away: what its job does still happens.
Disconnect(t) ==
    /\ run[t].pc \notin {"idle", "accepted", "bind", "reply"}
    /\ cuts < MaxCuts /\ cuts' = cuts + 1
    /\ jobs' = IF run[t].pc = "sign" THEN jobs ELSE jobs \cup {run[t]}
    /\ torn' = (torn \/ run[t].pc # "sign")
    /\ End(t)
    /\ UNCHANGED <<disk, live, owned, blind, faults, boots, up>>

\* The job of a dropped verb lands.
JobLands(j) ==
    /\ j \in jobs /\ jobs' = jobs \ {j}
    /\ key' = IF j.pc = "write" /\ (j.over \/ key = None) THEN j.arg ELSE key
    /\ sidecar' = CASE j.pc = "adopt" -> j.arg
                    [] j.pc = "restore" -> j.saved
                    [] j.pc \in {"detach", "unadopt"} -> None
                    [] OTHER -> sidecar
    /\ UNCHANGED <<live, past, bounds, up, run>>

-----------------------------------------------------------------------------
Init ==
    /\ key = None /\ sidecar = None /\ up = FALSE
    /\ boot = None /\ imported = None /\ adopted = None /\ minted = FALSE
    /\ run = [t \in Thread |-> Idle] /\ jobs = {}
    /\ owned = FALSE /\ torn = FALSE /\ blind = FALSE
    /\ faults = 0 /\ cuts = 0 /\ boots = 0

Next ==
    \/ Boot \/ BootWithoutKey \/ Crash \/ PlantSidecar
    \/ \E k \in Key \cup {None} : EditKey(k)
    \/ \E t \in Thread :
         \/ \E p \in Key : AdoptBegin(t, p)
         \/ \E k \in Key, replace \in BOOLEAN : ImportBegin(t, k, replace)
         \/ AdoptWritten(t) \/ DetachBegin(t) \/ Detached(t)
         \/ SidecarGone(t) \/ KeyWritten(t) \/ KeyNotWritten(t) \/ Restored(t)
         \/ SignBegin(t) \/ Sign(t) \/ CeremonyAccept(t) \/ CeremonyGate(t) \/ CeremonyBind(t)
         \/ CeremonyReply(t)
         \/ Disconnect(t)
    \/ \E j \in jobs : JobLands(j)

Spec == Init /\ [][Next]_vars

-----------------------------------------------------------------------------
Pcs == {"idle", "adopt", "detach", "unadopt", "write", "restore", "sign",
        "accepted", "bind", "reply"}

Work == [pc : Pcs, arg : Key \cup {None}, saved : Key \cup {None, Bad}, over : BOOLEAN,
         replace : BOOLEAN]

\* Every variable keeps its type; the lock has one holder.
TypeOK ==
    /\ key \in Key \cup {None} /\ sidecar \in Key \cup {None, Bad}
    /\ {boot, imported, adopted} \subseteq Key \cup {None}
    /\ {up, minted, owned, torn, blind} \subseteq BOOLEAN
    /\ run \in [Thread -> Work] /\ jobs \subseteq Work
    /\ \A t, u \in Thread : Holds(t) /\ Holds(u) => t = u
    /\ faults \in 0..MaxFaults /\ cuts \in 0..MaxCuts /\ boots \in 0..MaxBoots

\* Between verbs the running daemon presents what a restart would present,
\* whatever step of a verb failed: no recovery or exit is undone by a reboot.
\* Excused is a daemon under which a file changed, by hand or through the job
\* of a verb whose client went away, and one that could not read its key or
\* its sidecar as it started, until an import gives it an identity again.
RestartPresentsTheSame ==
    up /\ ~Locked /\ ~torn /\ ~blind => Presented = Boots(key, sidecar)

\* Nothing is signed and no phrase is shown but under the identity presented,
\* where one is: an adoption or an import never falls between the gate and
\* the signature, and neither does a start that missed its sidecar sign with
\* another key.  And a binding handed to another device verifies under the
\* identity the reply names, even if user.key was replaced under the daemon.
SignsAsPresented ==
    \A t \in Thread :
        /\ run[t].pc = "sign" /\ {key, Presented} \subseteq Key /\ ~torn =>
              key = Presented
        /\ run[t].pc = "reply" => run[t].saved = run[t].arg

\* A key that was loaded at boot or written by an import is only ever lost to
\* an import that was told to replace it, unless a file changed under the
\* daemon.
KeyIsKept ==
    [][owned /\ ~torn' /\ key' # key
          => \E t \in Thread : run[t].pc = "write" /\ run[t].replace]_vars
=============================================================================
