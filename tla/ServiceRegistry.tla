-------------------------- MODULE ServiceRegistry --------------------------
(* Which services a node offers, and to whom: the [services] table of the  *)
(* config file, the ephemeral registrations held in memory, the live       *)
(* registry the accept loop serves from, and the control verbs that change *)
(* them (node/src/daemon/handlers.rs, config_write.rs, daemon.rs) for      *)
(* clients that may hang up (node/src/control.rs).                         *)
(*                                                                         *)
(* Every verb holds reload_lock, edits the file on a blocking thread (read *)
(* the whole file, write the whole file) and rebuilds the live registry    *)
(* from it.  A client that hangs up has its request aborted: at the await  *)
(* it is in, or at the next one if it is being polled just then.  That     *)
(* releases the lock; an edit already handed to the blocking pool runs on. *)
EXTENDS Naturals

CONSTANTS
    Name,       \* service names
    Principal,  \* allow-list entries
    Client,     \* control connections, each used once, one request at a time
    Lists,      \* the allow lists a registration may carry
    Verbs,      \* the verbs in use, a subset of AllVerbs
    Aborts,     \* may a client hang up while its request runs?
    Faults,     \* may the file stop loading, or an edit of it fail?
    MaxHeld,    \* bound: registrations of one name on one connection
    Absent, NoName, NoClient

AllVerbs == {"register", "register_ephemeral", "unregister", "grant", "revoke"}

Registry == [Name -> {Absent} \cup (SUBSET Principal)]

ASSUME RegistryAssumption ==
    /\ Lists \subseteq SUBSET Principal
    /\ Verbs \subseteq AllVerbs
    /\ Aborts \in BOOLEAN /\ Faults \in BOOLEAN
    /\ MaxHeld \in Nat
    /\ \A l \in SUBSET Principal : l # Absent
    /\ NoName \notin Name
    /\ NoClient \notin Client

VARIABLES
    cfg,        \* [services] of the config file: the allow list of each name
    bad,        \* does Config::load refuse the file?
    eph,        \* MeshState::ephemeral_services
    live,       \* LiveServices, what sessions are admitted by
    sess,       \* <<name, principal>> of the sessions being served
    lock,       \* who holds reload_lock
    task,       \* each client's request
    orphans,    \* edits of the file still running for an aborted request
    open,       \* each connection: "open", "closing" or "closed"
    held,       \* each connection's teardown list, as counts
    dirty,      \* history: has a verb stopped between its edit and its reload?
    registered, \* history: names whose persistent registration was acknowledged
    revoked,    \* history: acknowledged revocations, and whether they moved anything
    own,        \* history: the ephemeral names each open connection registered
    leaked      \* history: ephemeral names inserted past their teardown list

stores == <<cfg, bad, eph, live, sess>>
history == <<dirty, registered, revoked, own, leaked>>
vars == <<stores, lock, task, orphans, open, held, history>>

IdleTask == [pc |-> "idle", verb |-> "none", name |-> NoName, arg |-> {},
             strip |-> FALSE, had |-> FALSE, moved |-> FALSE, base |-> [n \in Name |-> Absent]]

\* build_services_with_ephemeral: the file's services under the overlay.
Overlay(c, e) == [n \in Name |-> IF e[n] # Absent THEN e[n] ELSE c[n]]

\* What a verb's edit makes of the file: write_service_to_config merges the
\* lists, the others leave a name the file does not have alone.
Edit(t, base) ==
    LET old == IF base[t.name] = Absent THEN {} ELSE base[t.name] IN
    IF t.verb # "register" /\ base[t.name] = Absent
    THEN base
    ELSE [base EXCEPT ![t.name] = CASE t.verb = "register"   -> old \cup t.arg
                                    [] t.verb = "unregister" -> Absent
                                    [] t.verb = "grant"      -> old \cup t.arg
                                    [] t.verb = "revoke"     -> old \ t.arg]

Ends(c) == task' = [task EXCEPT ![c] = IdleTask]
Releases(c) == Ends(c) /\ lock' = NoClient

\* reload_services_from_disk, with the overlay e; an unloadable file is an
\* error that leaves the live registry as it was.
Reloads(e) ==
    /\ live' = IF bad THEN live ELSE Overlay(cfg, e)
    /\ dirty' = bad

\* The name is granted or registered again: earlier revocations of it by
\* those principals no longer stand.
Regranted(n, ps) == {r \in revoked : r.name # n \/ r.prin \notin ps}

-----------------------------------------------------------------------------
(* The control loop. *)

\* A request arrives; an ephemeral name is put on the teardown list first.
Request(c, verb, n, arg) ==
    /\ verb \in Verbs
    /\ open[c] = "open" /\ task[c].pc = "idle"
    /\ verb = "register_ephemeral" => held[c][n] < MaxHeld
    /\ task' = [task EXCEPT ![c] = [IdleTask EXCEPT !.pc = "waiting", !.verb = verb,
                                                    !.name = n, !.arg = arg]]
    /\ held' = IF verb = "register_ephemeral" THEN [held EXCEPT ![c][n] = @ + 1] ELSE held
    /\ UNCHANGED <<stores, lock, orphans, open, history>>

\* May c's request of this kind take reload_lock?
Turn(c, verb) == task[c].pc = "waiting" /\ task[c].verb = verb /\ lock = NoClient

\* As if a verb edited the file without reload_lock.
UnlockedMutant(c, t) ==
    /\ task' = [task EXCEPT ![c] = [t EXCEPT !.pc = "job"]]
    /\ UNCHANGED <<lock, orphans, dirty>>

\* Take the lock and hand the edit of the file to the blocking pool; a
\* request polled for the last time is dropped there.
StartEdit(c, t) ==
    LET job == [t EXCEPT !.pc = "job"] IN
    IF open[c] = "open"
    THEN /\ lock' = c
         /\ task' = [task EXCEPT ![c] = job]
         /\ UNCHANGED <<orphans, dirty>>
    ELSE /\ orphans' = orphans \cup {job}
         /\ dirty' = TRUE
         /\ Ends(c)
         /\ UNCHANGED lock

\* As if a failed register took every entry of the name off the list.
ClearedMutant(c, n) == [held EXCEPT ![c][n] = 0]

\* A failed register takes its own entry off the teardown list again, if the
\* teardown has not taken the list yet.
Unrecorded(c, n) == IF open[c] = "open" THEN [held EXCEPT ![c][n] = @ - 1] ELSE held

\* As if the name were not looked for in the file.
UnshadowedMutant(n) == ~bad

\* May the name be registered ephemerally?
NotPersistent(n) == ~bad /\ cfg[n] = Absent

\* register_service, ephemeral: refused, or inserted under the lock.  If the
\* connection is closed by then, nobody is left to take the name out again.
RegisterEphemeral(c) ==
    LET n == task[c].name IN
    /\ Turn(c, "register_ephemeral")
    /\ \/ /\ NotPersistent(n)
          /\ eph' = [eph EXCEPT ![n] = task[c].arg]
          /\ lock' = c
          /\ task' = [task EXCEPT ![c].pc = "inserted"]
          /\ revoked' = Regranted(n, task[c].arg)
          /\ leaked' = IF open[c] = "closed" THEN leaked \cup {n} ELSE leaked
          /\ UNCHANGED held
       \/ /\ ~NotPersistent(n)
          /\ held' = Unrecorded(c, n)
          /\ Ends(c)
          /\ UNCHANGED <<eph, lock, revoked, leaked>>
    /\ UNCHANGED <<cfg, bad, live, sess, orphans, open, dirty, registered, own>>

\* The rest of it, in the same poll: the file is loaded a second time.  When
\* that fails the answer is an error and the teardown entry goes, but the
\* registration stays.
FinishEphemeral(c) ==
    LET n == task[c].name IN
    /\ task[c].pc = "inserted"
    /\ Reloads(eph)
    /\ \/ /\ ~bad
          /\ own' = IF open[c] = "open" THEN [own EXCEPT ![c] = @ \cup {n}] ELSE own
          /\ leaked' = IF open[c] = "closed" THEN leaked ELSE leaked \ {n}
          /\ UNCHANGED held
       \/ /\ bad
          /\ held' = Unrecorded(c, n)
          /\ leaked' = IF open[c] = "open" THEN leaked \cup {n} ELSE leaked
          /\ UNCHANGED own
    /\ Releases(c)
    /\ UNCHANGED <<cfg, bad, eph, sess, orphans, open, registered, revoked>>

\* register_service, persistent: refused under an ephemeral registration.
StartRegister(c) ==
    /\ Turn(c, "register")
    /\ \/ /\ eph[task[c].name] # Absent
          /\ Ends(c)
          /\ UNCHANGED <<lock, orphans, dirty, revoked>>
       \/ /\ eph[task[c].name] = Absent
          /\ StartEdit(c, task[c])
          /\ revoked' = Regranted(task[c].name, task[c].arg)
    /\ UNCHANGED <<stores, open, held, registered, own, leaked>>

\* unregister_service: the ephemeral entry goes before the file is edited.
StartUnregister(c) ==
    LET n == task[c].name IN
    /\ Turn(c, "unregister")
    /\ eph' = [eph EXCEPT ![n] = Absent]
    /\ StartEdit(c, [task[c] EXCEPT !.strip = eph[n] # Absent])
    /\ registered' = registered \ {n}
    /\ own' = [d \in Client |-> own[d] \ {n}]
    /\ leaked' = leaked \ {n}
    /\ UNCHANGED <<cfg, bad, live, sess, open, held, revoked>>

\* service_allow_grant: the name must be registered one way or the other.
StartGrant(c) ==
    LET n == task[c].name IN
    /\ Turn(c, "grant")
    /\ \/ /\ eph[n] = Absent /\ (bad \/ cfg[n] = Absent)
          /\ Ends(c)
          /\ UNCHANGED <<lock, orphans, dirty, revoked>>
       \/ /\ eph[n] # Absent \/ (~bad /\ cfg[n] # Absent)
          /\ StartEdit(c, task[c])
          /\ revoked' = Regranted(n, task[c].arg)
    /\ UNCHANGED <<stores, open, held, registered, own, leaked>>

\* service_allow_revoke: the ephemeral list is stripped before the file is.
StartRevoke(c) ==
    LET n == task[c].name
        hit == eph[n] # Absent /\ eph[n] \cap task[c].arg # {} IN
    /\ Turn(c, "revoke")
    /\ eph' = IF hit THEN [eph EXCEPT ![n] = @ \ task[c].arg] ELSE eph
    /\ StartEdit(c, [task[c] EXCEPT !.strip = hit, !.had = eph[n] # Absent])
    /\ UNCHANGED <<cfg, bad, live, sess, open, held, registered, revoked, own, leaked>>

-----------------------------------------------------------------------------
(* The edit on the blocking thread. *)

\* The whole file is read ...
EditReads(c) ==
    /\ task[c].pc = "job"
    /\ task' = [task EXCEPT ![c].pc = "read", ![c].base = cfg]
    /\ UNCHANGED <<stores, lock, orphans, open, held, history>>

\* ... and written back, if the edit changes it.
EditWrites(c) ==
    /\ task[c].pc = "read"
    /\ LET new == Edit(task[c], task[c].base)
           moved == new # task[c].base \/ task[c].verb = "register" IN
       /\ cfg' = IF moved THEN new ELSE cfg
       /\ task' = [task EXCEPT ![c].pc = "wrote", ![c].moved = moved]
    /\ UNCHANGED <<bad, eph, live, sess, lock, orphans, open, held, history>>

\* It does not parse, or cannot be read or replaced: the verb answers with
\* an error, and what it did to the ephemeral lists stands.
EditFails(c) ==
    /\ Faults
    /\ task[c].pc \in {"job", "read"}
    /\ Releases(c)
    /\ dirty' = (dirty \/ task[c].strip)
    /\ UNCHANGED <<stores, orphans, open, held, registered, revoked, own, leaked>>

\* The rest of register_service.
FinishRegister(c) ==
    /\ task[c].pc = "wrote" /\ task[c].verb = "register"
    /\ Reloads(eph)
    /\ registered' = IF bad THEN registered ELSE registered \cup {task[c].name}
    /\ Releases(c)
    /\ UNCHANGED <<cfg, bad, eph, sess, orphans, open, held, revoked, own, leaked>>

\* The rest of unregister_service.
FinishUnregister(c) ==
    /\ task[c].pc = "wrote" /\ task[c].verb = "unregister"
    /\ IF task[c].strip \/ task[c].moved THEN Reloads(eph) ELSE UNCHANGED <<live, dirty>>
    /\ Releases(c)
    /\ UNCHANGED <<cfg, bad, eph, sess, orphans, open, held, registered, revoked, own, leaked>>

\* As if the shortcut forgot the live registry.
ForgottenMutant(n, e) ==
    IF live[n] # Absent THEN UNCHANGED <<live, dirty>> ELSE Reloads(e)

\* apply_ephemeral_allow: one list of the live registry is replaced, unless
\* the name is not in it yet.
AppliesEphemeral(n, e) ==
    IF live[n] # Absent
    THEN live' = [live EXCEPT ![n] = e[n]] /\ UNCHANGED dirty
    ELSE Reloads(e)

\* The rest of service_allow_grant; the ephemeral list is extended last.
FinishGrant(c) ==
    LET n == task[c].name
        moves == eph[n] # Absent /\ ~(task[c].arg \subseteq eph[n])
        e == IF moves THEN [eph EXCEPT ![n] = @ \cup task[c].arg] ELSE eph IN
    /\ task[c].pc = "wrote" /\ task[c].verb = "grant"
    /\ eph' = e
    /\ CASE task[c].moved          -> Reloads(e)
         [] ~task[c].moved /\ moves -> AppliesEphemeral(n, e)
         [] OTHER                  -> UNCHANGED <<live, dirty>>
    /\ Releases(c)
    /\ UNCHANGED <<cfg, bad, sess, orphans, open, held, registered, revoked, own, leaked>>

\* The revocations an acknowledgement of t stands for.
Acknowledged(t) ==
    {[name |-> t.name, prin |-> p, moved |-> t.moved \/ t.strip] : p \in t.arg}

\* The rest of service_allow_revoke: swap the registry, then sever - if this
\* call removed an entry.  A call that found none to remove acknowledges.
RevokeSwaps(c) ==
    LET t == task[c]
        moved == t.moved \/ t.strip
        swapped == (~t.moved /\ live[t.name] # Absent) \/ ~bad IN
    /\ t.pc = "wrote" /\ t.verb = "revoke"
    /\ IF t.moved THEN Reloads(eph)
       ELSE IF t.strip THEN AppliesEphemeral(t.name, eph) ELSE UNCHANGED <<live, dirty>>
    /\ \/ /\ moved /\ swapped
          /\ task' = [task EXCEPT ![c].pc = "sever"]
          /\ UNCHANGED <<lock, revoked>>
       \/ /\ moved /\ ~swapped
          /\ Releases(c)
          /\ UNCHANGED revoked
       \/ /\ ~moved
          /\ Releases(c)
          /\ revoked' = IF t.had \/ (~bad /\ cfg[t.name] # Absent)
                        THEN revoked \cup Acknowledged(t) ELSE revoked
    /\ UNCHANGED <<cfg, bad, eph, sess, orphans, open, held, registered, own, leaked>>

\* As if only new sessions were refused.
NoSeverMutant(c) ==
    /\ task[c].pc = "sever"
    /\ revoked' = revoked \cup Acknowledged(task[c])
    /\ Releases(c)
    /\ UNCHANGED <<stores, orphans, open, held, dirty, registered, own, leaked>>

\* sever_principal closes every connection of the principal.
RevokeSevers(c) ==
    /\ task[c].pc = "sever"
    /\ sess' = {x \in sess : x[2] \notin task[c].arg}
    /\ revoked' = revoked \cup Acknowledged(task[c])
    /\ Releases(c)
    /\ UNCHANGED <<cfg, bad, eph, live, orphans, open, held, dirty, registered, own, leaked>>

-----------------------------------------------------------------------------
(* Hanging up. *)

\* End of file on the connection, or its upgrade to a session: the request
\* in flight is aborted where it waits, and an edit it started runs on.  A
\* request that is being polled (`polled`) runs to its next await: one about
\* to ask for the lock may still get it, one past its insert finishes, and
\* one past its edit is taken to have finished before.  The teardown list is
\* taken as it is now.
Close(c, polled) ==
    LET t == task[c] IN
    /\ open[c] = "open"
    /\ t.pc = "idle" \/ Aborts
    /\ polled => t.pc \in {"waiting", "inserted"}
    /\ t.pc = "inserted" => polled
    /\ open' = [open EXCEPT ![c] = "closing"]
    /\ IF polled
       THEN UNCHANGED <<task, lock>>
       ELSE Ends(c) /\ lock' = IF lock = c THEN NoClient ELSE lock
    /\ orphans' = IF t.pc \in {"job", "read"} THEN orphans \cup {t} ELSE orphans
    /\ dirty' = (dirty \/ t.pc \in {"job", "read", "wrote", "sever"})
    /\ own' = [own EXCEPT ![c] = {}]
    /\ UNCHANGED <<stores, held, registered, revoked, leaked>>

\* unregister_ephemeral of the teardown list.
Teardown(c) ==
    LET names == {n \in Name : held[c][n] > 0}
        e == [n \in Name |-> IF n \in names THEN Absent ELSE eph[n]] IN
    /\ open[c] = "closing"
    /\ \/ names = {} /\ UNCHANGED <<eph, live, dirty>>
       \/ names # {} /\ lock = NoClient /\ eph' = e /\ Reloads(e)
    /\ open' = [open EXCEPT ![c] = "closed"]
    /\ held' = [held EXCEPT ![c] = [n \in Name |-> 0]]
    /\ leaked' = leaked \ names
    /\ UNCHANGED <<cfg, bad, sess, lock, task, orphans, registered, revoked, own>>

\* An edit nobody waits for reads, writes, or fails.
OrphanReads(t) ==
    /\ t.pc = "job"
    /\ orphans' = (orphans \ {t}) \cup {[t EXCEPT !.pc = "read", !.base = cfg]}
    /\ UNCHANGED <<stores, lock, task, open, held, history>>

OrphanWrites(t) ==
    /\ t.pc = "read"
    /\ cfg' = IF Edit(t, t.base) # t.base \/ t.verb = "register" THEN Edit(t, t.base) ELSE cfg
    /\ dirty' = TRUE
    /\ orphans' = orphans \ {t}
    /\ UNCHANGED <<bad, eph, live, sess, lock, task, open, held, registered, revoked, own, leaked>>

-----------------------------------------------------------------------------

\* A session is admitted by the live registry; or ends.
Admit(n, p) ==
    /\ live[n] # Absent /\ p \in live[n]
    /\ sess' = sess \cup {<<n, p>>}
    /\ UNCHANGED <<cfg, bad, eph, live, lock, task, orphans, open, held, history>>

EndSession(x) ==
    /\ sess' = sess \ {x}
    /\ UNCHANGED <<cfg, bad, eph, live, lock, task, orphans, open, held, history>>

\* The operator saves a file Config::load refuses, or mends it.
FileChanges ==
    /\ Faults
    /\ bad' = ~bad
    /\ UNCHANGED <<cfg, eph, live, sess, lock, task, orphans, open, held, history>>

Init ==
    /\ cfg \in [Name -> {Absent} \cup Lists]
    /\ bad = FALSE
    /\ eph = [n \in Name |-> Absent] /\ live = cfg /\ sess = {}
    /\ lock = NoClient /\ task = [c \in Client |-> IdleTask] /\ orphans = {}
    /\ open = [c \in Client |-> "open"]
    /\ held = [c \in Client |-> [n \in Name |-> 0]]
    /\ dirty = FALSE /\ registered = {} /\ revoked = {}
    /\ own = [c \in Client |-> {}] /\ leaked = {}

RequestStep(c) ==
    \/ \E n \in Name : \/ \E l \in Lists : \/ Request(c, "register", n, l)
                                           \/ Request(c, "register_ephemeral", n, l)
                       \/ \E p \in Principal : \/ Request(c, "grant", n, {p})
                                               \/ Request(c, "revoke", n, {p})
                       \/ Request(c, "unregister", n, {})
    \/ RegisterEphemeral(c) \/ FinishEphemeral(c) \/ StartRegister(c) \/ StartUnregister(c)
    \/ StartGrant(c) \/ StartRevoke(c)

EditStep(c) ==
    \/ EditReads(c) \/ EditWrites(c) \/ EditFails(c)
    \/ FinishRegister(c) \/ FinishUnregister(c) \/ FinishGrant(c)
    \/ RevokeSwaps(c) \/ RevokeSevers(c)

Next ==
    \/ \E c \in Client : RequestStep(c) \/ EditStep(c) \/ Teardown(c)
    \/ \E c \in Client, polled \in BOOLEAN : Close(c, polled)
    \/ \E t \in orphans : OrphanReads(t) \/ OrphanWrites(t)
    \/ \E n \in Name, p \in Principal : Admit(n, p)
    \/ \E x \in sess : EndSession(x)
    \/ FileChanges

Spec == Init /\ [][Next]_vars

-----------------------------------------------------------------------------
(* Correctness. *)

TaskType == [pc : {"idle", "waiting", "inserted", "job", "read", "wrote", "sever"},
             verb : AllVerbs \cup {"none"}, name : Name \cup {NoName},
             arg : SUBSET Principal, strip : BOOLEAN, had : BOOLEAN, moved : BOOLEAN,
             base : Registry]

\* Types; a teardown list never loses an entry it does not have.
TypeOK ==
    /\ cfg \in Registry /\ eph \in Registry /\ live \in Registry
    /\ bad \in BOOLEAN /\ dirty \in BOOLEAN
    /\ sess \subseteq Name \X Principal
    /\ lock \in Client \cup {NoClient}
    /\ task \in [Client -> TaskType] /\ orphans \subseteq TaskType
    /\ open \in [Client -> {"open", "closing", "closed"}]
    /\ held \in [Client -> [Name -> 0 .. MaxHeld]]
    /\ registered \subseteq Name /\ leaked \subseteq Name
    /\ revoked \subseteq [name : Name, prin : Principal, moved : BOOLEAN]
    /\ own \in [Client -> SUBSET Name]

\* An ephemeral entry never shadows a persistent one: the two guards of
\* register_service exclude each other under reload_lock.
NoShadow == \A n \in Name : cfg[n] = Absent \/ eph[n] = Absent

\* Between verbs the live registry is what the file and the overlay say,
\* unless a verb was stopped between its edit and its reload: in particular
\* apply_ephemeral_allow's shortcut never differs from a reload.
LiveCurrent == lock = NoClient /\ ~dirty => live = Overlay(cfg, eph)

\* A persistent registration that was acknowledged is in the file until it is
\* unregistered: concurrent verbs do not "read the same base config and
\* clobber each other's new service" (register_service).
RegisteredStays == \A n \in registered : cfg[n] # Absent

\* Is the principal kept out of the name?
KeptOut(n, p) == (live[n] = Absent \/ p \notin live[n]) /\ <<n, p>> \notin sess

\* A revocation that removed an entry is in force from its answer until the
\* principal is granted or registered again.
RevokeTakesEffect == \A r \in revoked : r.moved => KeptOut(r.name, r.prin)

\* Any acknowledged revocation is, the retry of one that failed included: the
\* verb is documented as idempotent and to "take effect now".
RevokeAckHolds == \A r \in revoked : KeptOut(r.name, r.prin)

\* Is an ephemeral registration of n on the list of a connection that will
\* still take it out?
Owned(n) == \E c \in Client : open[c] # "closed" /\ held[c][n] > 0

\* An ephemeral registration is on the teardown list of a connection that is
\* not closed yet, whenever clients hang up and whichever verbs fail - but for
\* the two the code leaves behind: one whose reload failed after the insert
\* (it is answered as an error, so its entry comes off the list), and one
\* inserted by a request still being polled after its connection's teardown.
EphemeralOwned == \A n \in Name : eph[n] # Absent => Owned(n) \/ n \in leaked

\* "Recorded up front it is torn down whatever happens" (control.rs).
EphemeralTornDown == \A n \in Name : eph[n] # Absent => Owned(n)

\* An ephemeral registration stays while the connection that made it does: a
\* connection "never tears down a name that belongs to another one" (control.rs).
EphemeralStays == \A c \in Client : \A n \in own[c] : eph[n] # Absent

-----------------------------------------------------------------------------
(* What the proofs carry along with the properties above. *)

FileVerbs == {"register", "unregister", "grant", "revoke"}
Editing == {"job", "read", "wrote", "sever"}
Holding == Editing \cup {"inserted"}

\* A request names a service, and only the verbs that edit the file get past
\* their start.
TaskFacts ==
    /\ \A c \in Client :
          /\ task[c].pc # "idle" => task[c].name \in Name /\ task[c].verb \in AllVerbs
          /\ task[c].pc \in Editing => task[c].verb \in FileVerbs
          /\ open[c] # "open" => task[c].pc \in {"idle", "waiting", "inserted"}
          /\ task[c].pc = "inserted" => task[c].verb = "register_ephemeral"
    /\ \A t \in orphans : t.name \in Name /\ t.verb \in FileVerbs

\* Is c's ephemeral registration of n still under way?
Pending(c, n) ==
    task[c].pc \in {"waiting", "inserted"} /\ task[c].verb = "register_ephemeral" /\ task[c].name = n

\* Is n on the list of c for good, or until c's answer?
Listed(c, n) ==
    \/ open[c] = "open" /\ n \in own[c]
    \/ open[c] = "open" /\ Pending(c, n) /\ task[c].pc = "inserted"
    \/ open[c] = "closing" /\ held[c][n] > 0

\* The teardown list of a connection has an entry for each name it registered
\* and one more for a registration under way; and a registration that is not
\* left behind has an open owner, or one about to tear it down.
OwnFacts ==
    /\ \A c \in Client, n \in Name :
          open[c] # "closed" =>
              /\ n \in own[c] \/ Pending(c, n) => held[c][n] >= 1
              /\ n \in own[c] /\ Pending(c, n) => held[c][n] >= 2
    /\ \A n \in Name : eph[n] # Absent => n \in leaked \/ \E c \in Client : Listed(c, n)

\* While clients stay connected, a request that edits holds the lock, and the
\* file is as it read it.
LockFacts ==
    /\ orphans = {}
    /\ \A c \in Client : open[c] = "open" \/ task[c].pc = "idle"
    /\ \A c \in Client : task[c].pc \in Holding => lock = c
    /\ \A c \in Client : task[c].pc = "read" => task[c].base = cfg

\* What the request under way has made sure of.
EditFacts ==
    \A c \in Client : task[c].pc \in Editing =>
        /\ task[c].verb = "register" => eph[task[c].name] = Absent
        /\ task[c].verb = "register" /\ task[c].pc = "wrote" => cfg[task[c].name] # Absent
        /\ task[c].verb = "unregister" => task[c].name \notin registered

\* A request holds the lock exactly while its edit or insert is under way, whether
\* clients hang up or not.
LockHeld == \A c \in Client : task[c].pc \in Holding <=> lock = c

\* What c's request has changed and not swapped into the live registry yet:
\* the file, or the ephemeral list of its name.
Behind(c, n) ==
    \/ task[c].pc = "wrote" /\ task[c].moved
    \/ task[c].pc \in {"job", "read", "wrote"} /\ task[c].strip /\ n = task[c].name
    \/ task[c].pc = "inserted" /\ n = task[c].name

\* Only these two take an ephemeral entry away at their start, and a
\* revocation leaves the name registered; the live registry is current but
\* for what the request that holds the lock still has to swap in.
LiveFacts ==
    /\ \A c \in Client : task[c].strip =>
          /\ task[c].pc \in Editing
          /\ task[c].verb \in {"unregister", "revoke"}
          /\ task[c].verb = "revoke" => eph[task[c].name] # Absent
    /\ ~dirty => \A n \in Name : \/ live[n] = Overlay(cfg, eph)[n]
                                 \/ \E c \in Client : lock = c /\ Behind(c, n)

\* Is p off the list of n?
Off(reg, n, p) == reg[n] = Absent \/ p \notin reg[n]

\* Is p kept out of n by every list there is?
Barred(n, p) == KeptOut(n, p) /\ Off(cfg, n, p) /\ Off(eph, n, p)

\* A revoked entry is in none of the registries and no request under way adds
\* it again; and what a revocation under way has taken its entries off so far.
RevokeFacts ==
    /\ \A r \in revoked : r.moved =>
          /\ Barred(r.name, r.prin)
          /\ \A c \in Client : lock = c /\ task[c].verb \in {"register", "grant"}
                                  /\ task[c].name = r.name => r.prin \notin task[c].arg
    /\ \A c \in Client : task[c].pc = "sever" => task[c].verb = "revoke"
    /\ \A c \in Client : task[c].pc \in Editing /\ task[c].verb = "revoke" =>
          \A p \in task[c].arg :
              /\ Off(eph, task[c].name, p)
              /\ task[c].pc \in {"wrote", "sever"} => Off(cfg, task[c].name, p)
              /\ task[c].pc = "sever" => Off(live, task[c].name, p)
=============================================================================
