------------------------ MODULE ServiceRegistryProofs ------------------------
(* Proofs about ServiceRegistry, for any services, principals and clients.    *)
EXTENDS ServiceRegistry, TLAPS

(* The invariant behind EphemeralOwned, which holds whenever clients hang up. *)
OwnInv == TypeOK /\ TaskFacts /\ OwnFacts

(* And the one behind NoShadow and RegisteredStays, while clients stay.       *)
NamesInv == LockFacts /\ EditFacts /\ NoShadow /\ RegisteredStays

-----------------------------------------------------------------------------
(* The operators the actions are built from. *)

(* What an edit makes of the file is a registry, differs from what it read in *)
(* one name, and drops or adds that name only for the verb that asks for it.  *)
LEMMA EditEffect ==
  ASSUME NEW t \in TaskType, t.name \in Name, t.verb \in FileVerbs, NEW base \in Registry
  PROVE  /\ Edit(t, base) \in Registry
         /\ t.verb = "register" => Edit(t, base)[t.name] # Absent
         /\ \A n \in Name : base[n] # Absent /\ Edit(t, base)[n] = Absent
                               => t.verb = "unregister" /\ n = t.name
         /\ \A n \in Name : base[n] = Absent /\ Edit(t, base)[n] # Absent
                               => t.verb = "register" /\ n = t.name
  <1> USE RegistryAssumption DEF Registry, FileVerbs
  <1>0. t.arg \in SUBSET Principal
    BY DEF TaskType
  <1> DEFINE old == IF base[t.name] = Absent THEN {} ELSE base[t.name]
  <1>1. old \in SUBSET Principal /\ (base[t.name] # Absent => old = base[t.name])
    OBVIOUS
  <1> HIDE DEF old
  <1>2. CASE t.verb # "register" /\ base[t.name] = Absent
    <2>1. Edit(t, base) = base
      BY <1>2 DEF Edit
    <2> QED
      BY <1>2, <2>1
  <1>3. CASE t.verb \in {"register", "grant"} /\ (t.verb = "grant" => base[t.name] # Absent)
    <2>1. Edit(t, base) = [base EXCEPT ![t.name] = old \cup t.arg]
      BY <1>3 DEF Edit, old
    <2>2. old \cup t.arg \in SUBSET Principal
      BY <1>0, <1>1
    <2> QED
      BY <1>1, <1>3, <2>1, <2>2
  <1>4. CASE t.verb = "revoke" /\ base[t.name] # Absent
    <2>1. Edit(t, base) = [base EXCEPT ![t.name] = old \ t.arg]
      BY <1>4 DEF Edit, old
    <2>2. old \ t.arg \in SUBSET Principal
      BY <1>0, <1>1
    <2> QED
      BY <1>1, <1>4, <2>1, <2>2
  <1>5. CASE t.verb = "unregister" /\ base[t.name] # Absent
    <2>1. Edit(t, base) = [base EXCEPT ![t.name] = Absent]
      BY <1>5 DEF Edit
    <2> QED
      BY <1>5, <2>1
  <1> QED
    BY <1>2, <1>3, <1>4, <1>5

LEMMA IdleTyped == IdleTask \in TaskType /\ IdleTask.pc = "idle"
  BY RegistryAssumption DEF IdleTask, TaskType, Registry

(* A request that ends, and one that starts its edit. *)
LEMMA EndsEffect ==
  ASSUME TypeOK, NEW c \in Client, Ends(c)
  PROVE  /\ task' \in [Client -> TaskType]
         /\ task'[c].pc = "idle"
         /\ \A d \in Client : d # c => task'[d] = task[d]
  BY IdleTyped DEF TypeOK, Ends

(* The edit starts under the lock, or runs on alone for a request that was    *)
(* polled for the last time.                                                  *)
LEMMA StartEffect ==
  ASSUME TypeOK, NEW c \in Client, NEW t \in TaskType, StartEdit(c, t)
  PROVE  /\ task' \in [Client -> TaskType]
         /\ \A d \in Client : d # c => task'[d] = task[d]
         /\ lock' \in {c, lock} /\ dirty' \in {dirty, TRUE}
         /\ open[c] = "open" =>
               /\ task'[c].pc = "job" /\ task'[c].name = t.name /\ task'[c].verb = t.verb
               /\ lock' = c /\ UNCHANGED <<orphans, dirty>>
         /\ open[c] # "open" =>
               /\ task'[c].pc = "idle" /\ lock' = lock
               /\ \E u \in TaskType : /\ u.name = t.name /\ u.verb = t.verb
                                      /\ orphans' = orphans \cup {u}
  <1> DEFINE u == [t EXCEPT !.pc = "job"]
  <1>1. u \in TaskType /\ u.pc = "job" /\ u.name = t.name /\ u.verb = t.verb
    BY DEF TaskType
  <1>2. \/ /\ open[c] = "open" /\ task' = [task EXCEPT ![c] = u] /\ lock' = c
           /\ UNCHANGED <<orphans, dirty>>
        \/ /\ open[c] # "open" /\ Ends(c) /\ lock' = lock /\ dirty' = TRUE
           /\ orphans' = orphans \cup {u}
    BY DEF StartEdit
  <1> HIDE DEF u
  <1>3. CASE open[c] = "open"
    BY <1>1, <1>2, <1>3 DEF TypeOK
  <1>4. CASE open[c] # "open"
    BY <1>1, <1>2, <1>4, EndsEffect
  <1> QED
    BY <1>3, <1>4

(* Marking what a request found keeps it a request of the same verb and name. *)
LEMMA MarkedTyped ==
  ASSUME NEW t \in TaskType, NEW b \in BOOLEAN, NEW h \in BOOLEAN
  PROVE  /\ [t EXCEPT !.strip = b] \in TaskType
         /\ [t EXCEPT !.strip = b].name = t.name /\ [t EXCEPT !.strip = b].verb = t.verb
         /\ [t EXCEPT !.strip = b, !.had = h] \in TaskType
         /\ [t EXCEPT !.strip = b, !.had = h].name = t.name
         /\ [t EXCEPT !.strip = b, !.had = h].verb = t.verb
  BY DEF TaskType

(* A reload leaves the live registry a registry, and so does the shortcut.    *)
LEMMA ReloadsTyped ==
  ASSUME TypeOK, NEW e \in Registry, Reloads(e)
  PROVE  live' \in Registry /\ dirty' \in BOOLEAN
  BY DEF TypeOK, Reloads, Overlay, Registry

LEMMA AppliesTyped ==
  ASSUME TypeOK, NEW n \in Name, NEW e \in Registry, AppliesEphemeral(n, e)
  PROVE  live' \in Registry /\ dirty' \in BOOLEAN
  <1>1. CASE live[n] # Absent
    BY <1>1 DEF TypeOK, AppliesEphemeral, Registry
  <1>2. CASE live[n] = Absent
    BY <1>2, ReloadsTyped DEF AppliesEphemeral
  <1> QED
    BY <1>1, <1>2

-----------------------------------------------------------------------------
(* Types and teardown lists, whenever clients hang up. *)

LEMMA OwnInit == Init => OwnInv
  <1> SUFFICES ASSUME Init PROVE OwnInv
    OBVIOUS
  <1> USE RegistryAssumption DEF Init, OwnInv
  <1>1. cfg \in Registry /\ eph \in Registry /\ live \in Registry
    BY DEF Registry
  <1>2. TypeOK
    <2>1. /\ task \in [Client -> TaskType]
          /\ held \in [Client -> [Name -> 0 .. MaxHeld]]
          /\ open \in [Client -> {"open", "closing", "closed"}]
          /\ own \in [Client -> SUBSET Name]
      BY IdleTyped
    <2> QED
      BY <1>1, <2>1 DEF TypeOK
  <1>3. TaskFacts /\ OwnFacts
    BY IdleTyped DEF TaskFacts, OwnFacts, Pending, Listed, Editing
  <1> QED
    BY <1>2, <1>3

(* The steps that leave the lists alone and are not an ephemeral registration. *)
LEMMA QuietOwned ==
  ASSUME OwnInv, NEW c \in Client, UNCHANGED <<open, held, own, leaked>>,
         \A d \in Client : d # c => task'[d] = task[d],
         task[c].pc # "inserted", task'[c].pc \notin {"waiting", "inserted"},
         \A m \in Name : eph'[m] # Absent => eph[m] # Absent
  PROVE  OwnFacts'
  <1>1. \A d \in Client, m \in Name : Pending(d, m)' => Pending(d, m)
    BY DEF Pending
  <1>2. \A d \in Client, m \in Name : Listed(d, m) => Listed(d, m)'
    BY DEF Listed, Pending
  <1> QED
    BY <1>1, <1>2 DEF OwnInv, OwnFacts

(* Request: a request arrives. *)
LEMMA RequestOwned ==
  ASSUME OwnInv, NEW c \in Client, NEW verb \in AllVerbs, NEW n \in Name, NEW arg \in SUBSET Principal, Request(c, verb, n, arg)
  PROVE  OwnInv'
  <1> USE RegistryAssumption DEF OwnInv
  <1>t. /\ task' \in [Client -> TaskType]
        /\ \A d \in Client : d # c => task'[d] = task[d]
        /\ task'[c].pc = "waiting" /\ task'[c].verb = verb /\ task'[c].name = n
    <2> DEFINE u == [IdleTask EXCEPT !.pc = "waiting", !.verb = verb, !.name = n, !.arg = arg]
    <2>1. u \in TaskType /\ u.pc = "waiting" /\ u.verb = verb /\ u.name = n
      BY IdleTyped DEF TaskType
    <2>2. task' = [task EXCEPT ![c] = u]
      BY DEF Request
    <2> HIDE DEF u
    <2> QED
      BY <2>1, <2>2 DEF TypeOK
  <1>1. TypeOK'
    <2>1. held' \in [Client -> [Name -> 0 .. MaxHeld]]
      BY DEF TypeOK, Request
    <2> QED
      BY <1>t, <2>1 DEF TypeOK, Request, stores, history
  <1>2. TaskFacts'
    BY <1>t DEF Request, stores, history, TaskFacts, Editing, FileVerbs, AllVerbs, Turn, TypeOK
  <1>3. OwnFacts'
    <2>1. /\ open[c] = "open" /\ task[c].pc = "idle"
          /\ UNCHANGED <<open, own, leaked, eph>>
          /\ \A d \in Client, m \in Name : held'[d][m] \in Nat /\ held[d][m] \in Nat
          /\ \A d \in Client, m \in Name : held'[d][m] >= held[d][m]
          /\ verb = "register_ephemeral" => held'[c][n] >= held[c][n] + 1
      BY <1>1 DEF Request, stores, history, TypeOK
    <2>2. \A d \in Client, m \in Name : Listed(d, m) => Listed(d, m)'
      BY <1>t, <2>1 DEF Listed, Pending
    <2>3. ASSUME NEW d \in Client, NEW m \in Name, open[d] # "closed"
          PROVE  /\ m \in own[d] \/ Pending(d, m)' => held'[d][m] >= 1
                 /\ m \in own[d] /\ Pending(d, m)' => held'[d][m] >= 2
      <3>1. CASE Pending(d, m)
        BY <2>1, <2>3, <3>1 DEF OwnFacts
      <3>2. CASE ~Pending(d, m) /\ Pending(d, m)'
        <4>1. d = c /\ m = n /\ verb = "register_ephemeral"
          BY <1>t, <3>2 DEF Pending
        <4> QED
          BY <2>1, <2>3, <4>1 DEF OwnFacts
      <3>3. CASE ~Pending(d, m) /\ ~Pending(d, m)'
        BY <2>1, <2>3, <3>3 DEF OwnFacts
      <3> QED
        BY <3>1, <3>2, <3>3
    <2> QED
      BY <2>1, <2>2, <2>3 DEF OwnFacts
  <1> QED
    BY <1>1, <1>2, <1>3

(* RegisterEphemeral: inserted, or refused. *)
LEMMA RegisterEphemeralOwned ==
  ASSUME OwnInv, NEW c \in Client, RegisterEphemeral(c)
  PROVE  OwnInv'
  <1> USE RegistryAssumption DEF OwnInv
  <1> DEFINE n == task[c].name
  <1>0. /\ n \in Name /\ task[c].arg \in SUBSET Principal /\ task[c] \in TaskType
        /\ Pending(c, n) /\ task[c].pc = "waiting" /\ task[c].verb = "register_ephemeral"
        /\ \A m \in Name : Pending(c, m) => m = n
        /\ UNCHANGED <<cfg, bad, live, sess, orphans, open, dirty, registered, own>>
    BY DEF RegisterEphemeral, Turn, TypeOK, TaskFacts, TaskType, Pending
  <1>o. open \in [Client -> {"open", "closing", "closed"}]
    BY DEF TypeOK
  <1>h. /\ held[c][n] \in 0 .. MaxHeld
        /\ open[c] # "closed" => held[c][n] >= 1
        /\ open[c] # "closed" /\ n \in own[c] => held[c][n] >= 2
    BY <1>0 DEF TypeOK, OwnFacts
  <1>4. CASE /\ eph' = [eph EXCEPT ![n] = task[c].arg] /\ lock' = c
             /\ task' = [task EXCEPT ![c].pc = "inserted"]
             /\ revoked' = Regranted(n, task[c].arg)
             /\ leaked' = IF open[c] = "closed" THEN leaked \cup {n} ELSE leaked
             /\ held' = held
    <2>1. /\ task' \in [Client -> TaskType]
          /\ \A d \in Client : d # c => task'[d] = task[d]
          /\ task'[c].pc = "inserted" /\ task'[c].name = n
          /\ task'[c].verb = "register_ephemeral"
      BY <1>0, <1>4 DEF TypeOK, TaskType
    <2>2. eph' \in Registry /\ \A m \in Name : m # n => eph'[m] = eph[m]
      BY <1>0, <1>4 DEF TypeOK, Registry
    <2>3. TypeOK'
      BY <1>0, <1>4, <2>1, <2>2 DEF TypeOK, Regranted
    <2>4. TaskFacts'
      BY <1>0, <2>1 DEF TaskFacts, Editing, AllVerbs
    <2>5. \A d \in Client, m \in Name : Pending(d, m)' <=> Pending(d, m)
      BY <1>0, <2>1 DEF Pending
    <2>6. \A d \in Client, m \in Name : Listed(d, m) => Listed(d, m)'
      BY <1>0, <1>4, <2>1, <2>5 DEF Listed
    <2>7. n \in leaked' \/ Listed(c, n)'
      BY <1>0, <1>4, <1>h, <1>o, <2>1, <2>5 DEF Listed
    <2>8. ASSUME NEW m \in Name, eph'[m] # Absent
          PROVE  m \in leaked' \/ \E d \in Client : Listed(d, m)'
      BY <1>4, <2>2, <2>6, <2>7, <2>8 DEF OwnFacts
    <2> QED
      BY <1>0, <1>4, <2>3, <2>4, <2>5, <2>8 DEF OwnFacts
  <1>5. CASE held' = Unrecorded(c, n) /\ Ends(c) /\ UNCHANGED <<eph, lock, revoked, leaked>>
    <2>t. /\ task' \in [Client -> TaskType]
          /\ \A d \in Client : d # c => task'[d] = task[d]
          /\ task'[c].pc = "idle"
      BY <1>5, EndsEffect
    <2>1. /\ held' \in [Client -> [Name -> 0 .. MaxHeld]]
          /\ open[c] = "open" => held'[c][n] = held[c][n] - 1
          /\ \A d \in Client, m \in Name :
                d # c \/ m # n \/ open[c] # "open" => held'[d][m] = held[d][m]
      BY <1>0, <1>5, <1>h DEF TypeOK, Unrecorded
    <2>2. TypeOK'
      BY <1>0, <1>5, <2>t, <2>1 DEF TypeOK
    <2>3. TaskFacts'
      BY <1>0, <2>t DEF TaskFacts, Editing
    <2>4. ASSUME NEW d \in Client, NEW m \in Name, open[d] # "closed"
          PROVE  /\ m \in own[d] \/ Pending(d, m)' => held'[d][m] >= 1
                 /\ m \in own[d] /\ Pending(d, m)' => held'[d][m] >= 2
      <3>1. held[d][m] \in Nat
        BY DEF TypeOK
      <3>2. CASE d = c
        BY <1>0, <1>h, <2>t, <2>1, <2>4, <3>1, <3>2 DEF OwnFacts, Pending
      <3>3. CASE d # c
        BY <2>t, <2>1, <2>4, <3>3 DEF OwnFacts, Pending
      <3> QED
        BY <3>2, <3>3
    <2>5. \A d \in Client, m \in Name : Listed(d, m) => Listed(d, m)'
      BY <1>0, <2>t, <2>1 DEF Listed, Pending
    <2> QED
      BY <1>0, <1>5, <2>2, <2>3, <2>4, <2>5 DEF OwnFacts
  <1> QED
    BY <1>4, <1>5 DEF RegisterEphemeral

(* FinishEphemeral: the second load succeeds, or the registration is left     *)
(* behind.                                                                    *)
LEMMA FinishEphemeralOwned ==
  ASSUME OwnInv, NEW c \in Client, FinishEphemeral(c)
  PROVE  OwnInv'
  <1> USE RegistryAssumption DEF OwnInv
  <1> DEFINE n == task[c].name
  <1>0. /\ n \in Name /\ Pending(c, n) /\ task[c].pc = "inserted"
        /\ \A m \in Name : Pending(c, m) => m = n
        /\ lock' = NoClient
        /\ UNCHANGED <<cfg, bad, eph, sess, orphans, open, registered, revoked>>
    BY DEF FinishEphemeral, Releases, TypeOK, TaskFacts, TaskType, Pending
  <1>o. open \in [Client -> {"open", "closing", "closed"}]
    BY DEF TypeOK
  <1>h. /\ held[c][n] \in 0 .. MaxHeld
        /\ open[c] # "closed" => held[c][n] >= 1
        /\ open[c] # "closed" /\ n \in own[c] => held[c][n] >= 2
    BY <1>0 DEF TypeOK, OwnFacts
  <1>t. /\ task' \in [Client -> TaskType]
        /\ \A d \in Client : d # c => task'[d] = task[d]
        /\ task'[c].pc = "idle"
    BY EndsEffect DEF FinishEphemeral, Releases
  <1>l. live' \in Registry /\ dirty' \in BOOLEAN
    BY ReloadsTyped DEF FinishEphemeral, TypeOK
  <1>2. TaskFacts'
    BY <1>0, <1>t DEF TaskFacts, Editing
  <1>p. \A d \in Client, m \in Name : Pending(d, m)' => d # c /\ Pending(d, m)
    BY <1>t DEF Pending
  <1>4. CASE /\ own' = IF open[c] = "open" THEN [own EXCEPT ![c] = @ \cup {n}] ELSE own
             /\ leaked' = IF open[c] = "closed" THEN leaked ELSE leaked \ {n}
             /\ held' = held
    <2>1. /\ own' \in [Client -> SUBSET Name]
          /\ \A d \in Client, m \in Name : m \in own'[d] =>
                m \in own[d] \/ (d = c /\ m = n)
          /\ \A d \in Client, m \in Name : m \in own[d] => m \in own'[d]
          /\ open[c] = "open" => n \in own'[c]
      BY <1>0, <1>4 DEF TypeOK
    <2>2. TypeOK'
      BY <1>0, <1>4, <1>l, <1>t, <2>1 DEF TypeOK
    <2>3. ASSUME NEW d \in Client, NEW m \in Name, open[d] # "closed"
          PROVE  /\ m \in own'[d] \/ Pending(d, m)' => held[d][m] >= 1
                 /\ m \in own'[d] /\ Pending(d, m)' => held[d][m] >= 2
      BY <1>0, <1>h, <1>p, <2>1, <2>3 DEF OwnFacts
    <2>4. ASSUME NEW m \in Name, eph[m] # Absent
          PROVE  m \in leaked' \/ \E d \in Client : Listed(d, m)'
      <3>1. CASE m = n
        <4>1. open[c] # "closed" => Listed(c, m)'
          BY <1>0, <1>4, <1>h, <1>o, <2>1, <3>1 DEF Listed
        <4>2. CASE open[c] = "closed" /\ n \notin leaked
          <5>1. PICK d \in Client : Listed(d, n)
            BY <1>0, <2>4, <3>1, <4>2 DEF OwnFacts
          <5>2. d # c
            BY <4>2, <5>1 DEF Listed
          <5> QED
            BY <1>0, <1>4, <1>t, <2>1, <3>1, <5>1, <5>2 DEF Listed, Pending
        <4> QED
          BY <1>4, <3>1, <4>1, <4>2
      <3>2. CASE m # n
        <4>1. \A d \in Client : Listed(d, m) => Listed(d, m)'
          BY <1>0, <1>4, <1>t, <2>1, <3>2 DEF Listed, Pending
        <4> QED
          BY <1>4, <2>4, <3>2, <4>1 DEF OwnFacts
      <3> QED
        BY <3>1, <3>2
    <2> QED
      BY <1>0, <1>2, <1>4, <2>2, <2>3, <2>4 DEF OwnFacts
  <1>5. CASE /\ held' = Unrecorded(c, n) /\ own' = own
             /\ leaked' = IF open[c] = "open" THEN leaked \cup {n} ELSE leaked
    <2>1. /\ held' \in [Client -> [Name -> 0 .. MaxHeld]]
          /\ open[c] = "open" => held'[c][n] = held[c][n] - 1
          /\ \A d \in Client, m \in Name :
                d # c \/ m # n \/ open[c] # "open" => held'[d][m] = held[d][m]
      BY <1>0, <1>5, <1>h DEF TypeOK, Unrecorded
    <2>2. TypeOK'
      BY <1>0, <1>5, <1>l, <1>t, <2>1 DEF TypeOK
    <2>3. ASSUME NEW d \in Client, NEW m \in Name, open[d] # "closed"
          PROVE  /\ m \in own[d] \/ Pending(d, m)' => held'[d][m] >= 1
                 /\ m \in own[d] /\ Pending(d, m)' => held'[d][m] >= 2
      <3>1. held[d][m] \in Nat
        BY DEF TypeOK
      <3>2. CASE d = c
        BY <1>0, <1>h, <1>p, <2>1, <2>3, <3>1, <3>2 DEF OwnFacts
      <3>3. CASE d # c
        BY <1>p, <2>1, <2>3, <3>3 DEF OwnFacts
      <3> QED
        BY <3>2, <3>3
    <2>4. ASSUME NEW m \in Name, NEW d \in Client, Listed(d, m)
          PROVE  m \in leaked' \/ Listed(d, m)'
      BY <1>0, <1>5, <1>t, <2>1, <2>4 DEF Listed, Pending
    <2> QED
      BY <1>0, <1>2, <1>5, <2>2, <2>3, <2>4 DEF OwnFacts
  <1> QED
    BY <1>4, <1>5 DEF FinishEphemeral

(* A verb is refused, or starts its edit; the lists stay as they are. *)
LEMMA EndsStep ==
  ASSUME OwnInv, NEW c \in Client, task[c].pc # "inserted", Ends(c),
         UNCHANGED <<cfg, bad, eph, live, sess, lock, orphans, open, held>>,
         UNCHANGED <<dirty, registered, own, leaked>>, revoked' \subseteq revoked
  PROVE  OwnInv'
  <1> USE DEF OwnInv
  <1>t. /\ task' \in [Client -> TaskType]
        /\ \A d \in Client : d # c => task'[d] = task[d]
        /\ task'[c].pc = "idle"
    BY EndsEffect
  <1>1. TypeOK'
    BY <1>t DEF TypeOK
  <1>2. TaskFacts'
    BY <1>t DEF TaskFacts, Editing
  <1>3. OwnFacts'
    BY <1>t, QuietOwned
  <1> QED
    BY <1>1, <1>2, <1>3

LEMMA StartTasks ==
  ASSUME OwnInv, NEW c \in Client, NEW t \in TaskType, StartEdit(c, t), open' = open,
         t.name \in Name, t.verb \in FileVerbs
  PROVE  /\ task' \in [Client -> TaskType] /\ orphans' \subseteq TaskType
         /\ lock' \in Client \cup {NoClient} /\ dirty' \in BOOLEAN
         /\ \A d \in Client : d # c => task'[d] = task[d]
         /\ task'[c].pc \notin {"waiting", "inserted"}
         /\ TaskFacts'
  <1> USE DEF OwnInv
  <1>1. CASE open[c] = "open"
    <2>1. /\ task' \in [Client -> TaskType] /\ lock' = c /\ UNCHANGED <<orphans, dirty>>
          /\ \A d \in Client : d # c => task'[d] = task[d]
          /\ task'[c].pc = "job" /\ task'[c].name = t.name /\ task'[c].verb = t.verb
      BY <1>1, StartEffect
    <2> QED
      BY <1>1, <2>1 DEF TypeOK, TaskFacts, Editing, FileVerbs, AllVerbs
  <1>2. CASE open[c] # "open"
    <2>1. /\ task' \in [Client -> TaskType] /\ lock' = lock /\ dirty' \in {dirty, TRUE}
          /\ \A d \in Client : d # c => task'[d] = task[d]
          /\ task'[c].pc = "idle"
      BY <1>2, StartEffect
    <2>2. PICK u \in TaskType : u.name = t.name /\ u.verb = t.verb /\ orphans' = orphans \cup {u}
      BY <1>2, StartEffect
    <2> QED
      BY <1>2, <2>1, <2>2 DEF TypeOK, TaskFacts, Editing
  <1> QED
    BY <1>1, <1>2

LEMMA StartStep ==
  ASSUME OwnInv, NEW c \in Client, NEW t \in TaskType, StartEdit(c, t),
         task[c].pc = "waiting", t.name \in Name, t.verb \in FileVerbs,
         UNCHANGED <<cfg, bad, live, sess, open, held, registered, own, leaked>>,
         eph' \in Registry, \A m \in Name : eph'[m] # Absent => eph[m] # Absent,
         revoked' \subseteq revoked
  PROVE  OwnInv'
  <1> USE DEF OwnInv
  <1>t. /\ task' \in [Client -> TaskType] /\ orphans' \subseteq TaskType
        /\ lock' \in Client \cup {NoClient} /\ dirty' \in BOOLEAN
        /\ \A d \in Client : d # c => task'[d] = task[d]
        /\ task'[c].pc \notin {"waiting", "inserted"}
        /\ TaskFacts'
    BY StartTasks
  <1>1. TypeOK'
    BY <1>t DEF TypeOK
  <1>2. OwnFacts'
    BY <1>t, QuietOwned
  <1> QED
    BY <1>t, <1>1, <1>2

(* StartRegister: refused, or the edit starts. *)
LEMMA StartRegisterOwned ==
  ASSUME OwnInv, NEW c \in Client, StartRegister(c)
  PROVE  OwnInv'
  <1> USE RegistryAssumption DEF OwnInv
  <1>0. /\ task[c] \in TaskType /\ task[c].name \in Name /\ task[c].verb \in FileVerbs
        /\ task[c].pc = "waiting" /\ revoked' \subseteq revoked
        /\ UNCHANGED <<cfg, bad, eph, live, sess, open, held, registered, own, leaked>>
    BY DEF StartRegister, Turn, TypeOK, TaskFacts, FileVerbs, Regranted, stores
  <1>1. CASE Ends(c) /\ UNCHANGED <<lock, orphans, dirty>>
    BY <1>0, <1>1, EndsStep
  <1>2. CASE StartEdit(c, task[c])
    BY <1>0, <1>2, StartStep DEF TypeOK
  <1> QED
    BY <1>1, <1>2 DEF StartRegister

(* StartUnregister: the ephemeral entry goes first. *)
LEMMA StartUnregisterOwned ==
  ASSUME OwnInv, NEW c \in Client, StartUnregister(c)
  PROVE  OwnInv'
  <1> USE RegistryAssumption DEF OwnInv
  <1> DEFINE n == task[c].name
             u == [task[c] EXCEPT !.strip = eph[n] # Absent]
  <1>0. /\ n \in Name /\ task[c].verb = "unregister" /\ task[c].pc = "waiting"
        /\ UNCHANGED <<cfg, bad, live, sess, open, held, revoked>>
        /\ own' = [d \in Client |-> own[d] \ {n}] /\ leaked' = leaked \ {n}
        /\ registered' \subseteq registered
    BY DEF StartUnregister, Turn, TaskFacts
  <1>c. task[c] \in TaskType
    BY DEF TypeOK
  <1>v. task[c].verb = "unregister"
    BY <1>0
  <1>u. u \in TaskType /\ u.name = n /\ u.verb = "unregister"
    BY <1>c, <1>v, MarkedTyped
  <1>s. StartEdit(c, u)
    BY DEF StartUnregister
  <1> HIDE DEF u
  <1>t. /\ task' \in [Client -> TaskType] /\ orphans' \subseteq TaskType
        /\ lock' \in Client \cup {NoClient} /\ dirty' \in BOOLEAN
        /\ \A d \in Client : d # c => task'[d] = task[d]
        /\ task'[c].pc \notin {"waiting", "inserted"}
        /\ TaskFacts'
    BY <1>0, <1>u, <1>s, StartTasks DEF FileVerbs
  <1>e. /\ eph' \in Registry /\ eph'[n] = Absent
        /\ \A m \in Name : m # n => eph'[m] = eph[m]
    BY <1>0 DEF TypeOK, StartUnregister, Registry
  <1>1. TypeOK'
    BY <1>0, <1>t, <1>e DEF TypeOK
  <1>3. OwnFacts'
    <2>1. \A d \in Client, m \in Name : Pending(d, m)' => Pending(d, m)
      BY <1>t DEF Pending
    <2>2. \A d \in Client, m \in Name : m # n /\ Listed(d, m) => Listed(d, m)'
      BY <1>0, <1>t DEF Listed, Pending, TypeOK
    <2> QED
      BY <1>0, <1>e, <2>1, <2>2 DEF TypeOK, OwnFacts
  <1> QED
    BY <1>t, <1>1, <1>3

(* StartGrant: refused, or the edit starts. *)
LEMMA StartGrantOwned ==
  ASSUME OwnInv, NEW c \in Client, StartGrant(c)
  PROVE  OwnInv'
  <1> USE RegistryAssumption DEF OwnInv
  <1>0. /\ task[c] \in TaskType /\ task[c].name \in Name /\ task[c].verb \in FileVerbs
        /\ task[c].pc = "waiting" /\ revoked' \subseteq revoked
        /\ UNCHANGED <<cfg, bad, eph, live, sess, open, held, registered, own, leaked>>
    BY DEF StartGrant, Turn, TypeOK, TaskFacts, FileVerbs, Regranted, stores
  <1>1. CASE Ends(c) /\ UNCHANGED <<lock, orphans, dirty>>
    BY <1>0, <1>1, EndsStep
  <1>2. CASE StartEdit(c, task[c])
    BY <1>0, <1>2, StartStep DEF TypeOK
  <1> QED
    BY <1>1, <1>2 DEF StartGrant

(* StartRevoke: the ephemeral list is stripped first. *)
LEMMA StartRevokeOwned ==
  ASSUME OwnInv, NEW c \in Client, StartRevoke(c)
  PROVE  OwnInv'
  <1> USE RegistryAssumption DEF OwnInv
  <1> DEFINE n == task[c].name
             u == [task[c] EXCEPT !.strip = (eph[n] # Absent /\ eph[n] \cap task[c].arg # {}), !.had = (eph[n] # Absent)]
  <1>0. /\ n \in Name /\ task[c].verb = "revoke" /\ task[c].pc = "waiting"
        /\ UNCHANGED <<cfg, bad, live, sess, open, held, registered, revoked, own, leaked>>
    BY DEF StartRevoke, Turn, TaskFacts
  <1>c. task[c] \in TaskType
    BY DEF TypeOK
  <1>v. task[c].verb = "revoke"
    BY <1>0
  <1>u. u \in TaskType /\ u.name = n /\ u.verb = "revoke"
    BY <1>c, <1>v, MarkedTyped
  <1>s. StartEdit(c, u)
    BY DEF StartRevoke
  <1> HIDE DEF u
  <1>e. eph' \in Registry /\ \A m \in Name : eph'[m] # Absent => eph[m] # Absent
    <2>1. CASE eph[n] # Absent /\ eph[n] \cap task[c].arg # {}
      BY <1>0, <2>1 DEF TypeOK, StartRevoke, Registry
    <2>2. CASE ~(eph[n] # Absent /\ eph[n] \cap task[c].arg # {})
      BY <2>2 DEF TypeOK, StartRevoke
    <2> QED
      BY <2>1, <2>2
  <1> QED
    BY <1>0, <1>u, <1>s, <1>e, StartStep DEF FileVerbs

(* EditReads: the file is read. *)
LEMMA EditReadsOwned ==
  ASSUME OwnInv, NEW c \in Client, EditReads(c)
  PROVE  OwnInv'
  <1> USE RegistryAssumption DEF OwnInv
  <1>0. task[c] \in TaskType /\ task[c].name \in Name /\ task[c].verb \in FileVerbs
    BY DEF EditReads, TypeOK, TaskFacts, Editing
  <1>t. /\ task' \in [Client -> TaskType]
        /\ \A d \in Client : d # c => task'[d] = task[d]
        /\ task'[c].pc = "read" /\ task'[c].name = task[c].name /\ task'[c].verb = task[c].verb
    <2> DEFINE u == [task[c] EXCEPT !.pc = "read", !.base = cfg]
    <2>1. u \in TaskType /\ u.pc = "read" /\ u.name = task[c].name /\ u.verb = task[c].verb
      BY <1>0 DEF TaskType, TypeOK
    <2>2. task' = [task EXCEPT ![c] = u]
      BY <1>0 DEF EditReads, TypeOK
    <2> HIDE DEF u
    <2> QED
      BY <2>1, <2>2 DEF TypeOK
  <1>1. TypeOK'
    BY <1>t DEF TypeOK, EditReads, stores, history
  <1>2. TaskFacts'
    BY <1>0, <1>t DEF EditReads, stores, history, TaskFacts, Editing, FileVerbs, AllVerbs
  <1>3. OwnFacts'
    BY <1>t, QuietOwned DEF EditReads, stores, history
  <1> QED
    BY <1>1, <1>2, <1>3

(* EditWrites: and written back. *)
LEMMA EditWritesOwned ==
  ASSUME OwnInv, NEW c \in Client, EditWrites(c)
  PROVE  OwnInv'
  <1> USE RegistryAssumption DEF OwnInv
  <1>0. task[c] \in TaskType /\ task[c].name \in Name /\ task[c].verb \in FileVerbs
    BY DEF EditWrites, TypeOK, TaskFacts, Editing
  <1>e. Edit(task[c], task[c].base) \in Registry
    BY <1>0, EditEffect DEF TaskType
  <1>t. /\ task' \in [Client -> TaskType]
        /\ \A d \in Client : d # c => task'[d] = task[d]
        /\ task'[c].pc = "wrote" /\ task'[c].name = task[c].name /\ task'[c].verb = task[c].verb
    <2> DEFINE u == [task[c] EXCEPT !.pc = "wrote", !.moved = (Edit(task[c], task[c].base) # task[c].base \/ task[c].verb = "register")]
    <2>1. u \in TaskType /\ u.pc = "wrote" /\ u.name = task[c].name /\ u.verb = task[c].verb
      BY <1>0, <1>e DEF TaskType, TypeOK
    <2>2. task' = [task EXCEPT ![c] = u]
      BY <1>0 DEF EditWrites, TypeOK
    <2> HIDE DEF u
    <2> QED
      BY <2>1, <2>2 DEF TypeOK
  <1>1. TypeOK'
    BY <1>t, <1>e DEF TypeOK, EditWrites, history
  <1>2. TaskFacts'
    BY <1>0, <1>t DEF EditWrites, history, TaskFacts, Editing, FileVerbs, AllVerbs
  <1>3. OwnFacts'
    BY <1>t, QuietOwned DEF EditWrites, history
  <1> QED
    BY <1>1, <1>2, <1>3

(* EditFails: the edit fails. *)
LEMMA EditFailsOwned ==
  ASSUME OwnInv, NEW c \in Client, EditFails(c)
  PROVE  OwnInv'
  <1> USE RegistryAssumption DEF OwnInv
  <1>0. task[c].name \in Name /\ task[c].arg \in SUBSET Principal
    BY DEF EditFails, TypeOK, TaskFacts, TaskType
  <1>t. /\ task' \in [Client -> TaskType]
        /\ \A d \in Client : d # c => task'[d] = task[d]
        /\ task'[c].pc = "idle" /\ lock' = NoClient
    BY EndsEffect DEF EditFails, Releases
  <1>1. TypeOK'
    BY <1>t DEF TypeOK, EditFails, stores
  <1>2. TaskFacts'
    BY <1>t DEF EditFails, stores, TaskFacts, Editing
  <1>3. OwnFacts'
    BY <1>t, QuietOwned DEF EditFails, stores
  <1> QED
    BY <1>1, <1>2, <1>3

(* FinishRegister: reload and answer. *)
LEMMA FinishRegisterOwned ==
  ASSUME OwnInv, NEW c \in Client, FinishRegister(c)
  PROVE  OwnInv'
  <1> USE RegistryAssumption DEF OwnInv
  <1>0. task[c].name \in Name /\ task[c].arg \in SUBSET Principal
    BY DEF FinishRegister, TypeOK, TaskFacts, TaskType
  <1>t. /\ task' \in [Client -> TaskType]
        /\ \A d \in Client : d # c => task'[d] = task[d]
        /\ task'[c].pc = "idle" /\ lock' = NoClient
    BY EndsEffect DEF FinishRegister, Releases
  <1>1. TypeOK'
    <2>1. live' \in Registry /\ dirty' \in BOOLEAN
      BY ReloadsTyped DEF FinishRegister, TypeOK
    <2> QED
      BY <1>0, <1>t, <2>1 DEF TypeOK, FinishRegister
  <1>2. TaskFacts'
    BY <1>t DEF FinishRegister, TaskFacts, Editing
  <1>3. OwnFacts'
    BY <1>t, QuietOwned DEF FinishRegister
  <1> QED
    BY <1>1, <1>2, <1>3

(* FinishUnregister: reload and answer. *)
LEMMA FinishUnregisterOwned ==
  ASSUME OwnInv, NEW c \in Client, FinishUnregister(c)
  PROVE  OwnInv'
  <1> USE RegistryAssumption DEF OwnInv
  <1>0. task[c].name \in Name /\ task[c].arg \in SUBSET Principal
    BY DEF FinishUnregister, TypeOK, TaskFacts, TaskType
  <1>t. /\ task' \in [Client -> TaskType]
        /\ \A d \in Client : d # c => task'[d] = task[d]
        /\ task'[c].pc = "idle" /\ lock' = NoClient
    BY EndsEffect DEF FinishUnregister, Releases
  <1>1. TypeOK'
    <2>1. live' \in Registry /\ dirty' \in BOOLEAN
      BY ReloadsTyped DEF FinishUnregister, TypeOK
    <2> QED
      BY <1>t, <2>1 DEF TypeOK, FinishUnregister
  <1>2. TaskFacts'
    BY <1>t DEF FinishUnregister, TaskFacts, Editing
  <1>3. OwnFacts'
    BY <1>t, QuietOwned DEF FinishUnregister
  <1> QED
    BY <1>1, <1>2, <1>3

(* FinishGrant: the ephemeral list is extended last. *)
LEMMA FinishGrantOwned ==
  ASSUME OwnInv, NEW c \in Client, FinishGrant(c)
  PROVE  OwnInv'
  <1> USE RegistryAssumption DEF OwnInv
  <1>0. task[c].name \in Name /\ task[c].arg \in SUBSET Principal
    BY DEF FinishGrant, TypeOK, TaskFacts, TaskType
  <1>t. /\ task' \in [Client -> TaskType]
        /\ \A d \in Client : d # c => task'[d] = task[d]
        /\ task'[c].pc = "idle" /\ lock' = NoClient
    BY EndsEffect DEF FinishGrant, Releases
  <1>e. eph' \in Registry /\ \A m \in Name : eph'[m] # Absent => eph[m] # Absent
    <2>1. CASE eph[task[c].name] # Absent /\ ~(task[c].arg \subseteq eph[task[c].name])
      BY <1>0, <2>1 DEF TypeOK, FinishGrant, Registry
    <2>2. CASE ~(eph[task[c].name] # Absent /\ ~(task[c].arg \subseteq eph[task[c].name]))
      BY <2>2 DEF TypeOK, FinishGrant
    <2> QED
      BY <2>1, <2>2
  <1>1. TypeOK'
    <2>1. \/ Reloads(eph') \/ AppliesEphemeral(task[c].name, eph') \/ UNCHANGED <<live, dirty>>
      BY DEF FinishGrant
    <2>2. live' \in Registry /\ dirty' \in BOOLEAN
      BY <1>0, <1>e, <2>1, ReloadsTyped, AppliesTyped DEF TypeOK
    <2> QED
      BY <1>t, <1>e, <2>2 DEF TypeOK, FinishGrant
  <1>2. TaskFacts'
    BY <1>t DEF FinishGrant, TaskFacts, Editing
  <1>3. OwnFacts'
    BY <1>e, <1>t, QuietOwned DEF FinishGrant
  <1> QED
    BY <1>1, <1>2, <1>3

(* RevokeSwaps: the live registry is swapped. *)
LEMMA RevokeSwapsOwned ==
  ASSUME OwnInv, NEW c \in Client, RevokeSwaps(c)
  PROVE  OwnInv'
  <1> USE RegistryAssumption DEF OwnInv
  <1>0. /\ task[c] \in TaskType /\ task[c].name \in Name /\ task[c].arg \in SUBSET Principal
        /\ task[c].verb = "revoke" /\ task[c].pc = "wrote"
    BY DEF RevokeSwaps, TypeOK, TaskFacts, TaskType
  <1>t. /\ task' \in [Client -> TaskType]
        /\ \A d \in Client : d # c => task'[d] = task[d]
        /\ task'[c].pc = "idle" \/ (task'[c].pc = "sever" /\ task'[c].name = task[c].name /\ task'[c].verb = "revoke")
    <2> DEFINE u == [task[c] EXCEPT !.pc = "sever"]
    <2>1. u \in TaskType /\ u.pc = "sever" /\ u.name = task[c].name /\ u.verb = "revoke"
      BY <1>0 DEF TaskType
    <2>2. Ends(c) \/ task' = [task EXCEPT ![c] = u]
      BY <1>0 DEF RevokeSwaps, Releases, TypeOK
    <2> HIDE DEF u
    <2> QED
      BY <2>1, <2>2, EndsEffect DEF TypeOK
  <1>1. TypeOK'
    <2>1. \/ Reloads(eph) \/ AppliesEphemeral(task[c].name, eph) \/ UNCHANGED <<live, dirty>>
      BY DEF RevokeSwaps
    <2>2. live' \in Registry /\ dirty' \in BOOLEAN
      BY <1>0, <2>1, ReloadsTyped, AppliesTyped DEF TypeOK
    <2>3. Acknowledged(task[c]) \subseteq [name : Name, prin : Principal, moved : BOOLEAN]
      BY <1>0 DEF Acknowledged, TaskType
    <2>4. revoked' \in {revoked, revoked \cup Acknowledged(task[c])}
      BY DEF RevokeSwaps
    <2>5. lock' \in {lock, NoClient}
      BY DEF RevokeSwaps, Releases
    <2>6. UNCHANGED <<cfg, bad, eph, sess, orphans, open, held, registered, own, leaked>>
      BY DEF RevokeSwaps
    <2> QED
      BY <1>t, <2>2, <2>3, <2>4, <2>5, <2>6 DEF TypeOK
  <1>o. UNCHANGED <<eph, orphans, open, held, own, leaked>>
    BY DEF RevokeSwaps
  <1>2. TaskFacts'
    BY <1>0, <1>t, <1>o DEF TaskFacts, Editing, FileVerbs, AllVerbs
  <1>3. OwnFacts'
    BY <1>0, <1>t, <1>o, QuietOwned
  <1> QED
    BY <1>1, <1>2, <1>3

(* RevokeSevers: sessions are severed. *)
LEMMA RevokeSeversOwned ==
  ASSUME OwnInv, NEW c \in Client, RevokeSevers(c)
  PROVE  OwnInv'
  <1> USE RegistryAssumption DEF OwnInv
  <1>0. task[c].name \in Name /\ task[c].arg \in SUBSET Principal
    BY DEF RevokeSevers, TypeOK, TaskFacts, TaskType
  <1>t. /\ task' \in [Client -> TaskType]
        /\ \A d \in Client : d # c => task'[d] = task[d]
        /\ task'[c].pc = "idle" /\ lock' = NoClient
    BY EndsEffect DEF RevokeSevers, Releases
  <1>1. TypeOK'
    <2>1. Acknowledged(task[c]) \subseteq [name : Name, prin : Principal, moved : BOOLEAN]
      BY <1>0 DEF Acknowledged, TypeOK, TaskType
    <2> QED
      BY <1>t, <2>1 DEF TypeOK, RevokeSevers
  <1>2. TaskFacts'
    BY <1>t DEF RevokeSevers, TaskFacts, Editing
  <1>3. OwnFacts'
    BY <1>t, QuietOwned DEF RevokeSevers
  <1> QED
    BY <1>1, <1>2, <1>3

(* Close: a client hangs up. *)
LEMMA CloseOwned ==
  ASSUME OwnInv, NEW c \in Client, NEW polled \in BOOLEAN, Close(c, polled)
  PROVE  OwnInv'
  <1> USE RegistryAssumption DEF OwnInv
  <1>0. /\ open[c] = "open" /\ open' = [open EXCEPT ![c] = "closing"]
        /\ own' = [own EXCEPT ![c] = {}]
        /\ UNCHANGED <<cfg, bad, eph, live, sess, held, registered, revoked, leaked>>
        /\ lock' \in {lock, NoClient} /\ dirty' \in BOOLEAN
    BY DEF Close, stores
  <1>t. /\ task' \in [Client -> TaskType]
        /\ \A d \in Client : d # c => task'[d] = task[d]
        /\ \/ task'[c].pc = "idle"
           \/ task'[c] = task[c] /\ task[c].pc \in {"waiting", "inserted"}
    BY EndsEffect DEF Close, TypeOK
  <1>o. /\ task[c] \in TaskType /\ orphans' \subseteq orphans \cup {task[c]}
        /\ task[c] \in orphans' => task[c] \in orphans \/ task[c].pc \in {"job", "read"}
    BY DEF TypeOK, Close
  <1>1. TypeOK'
    <2>1. /\ open' \in [Client -> {"open", "closing", "closed"}]
          /\ own' \in [Client -> SUBSET Name]
      BY <1>0 DEF TypeOK
    <2> QED
      BY <1>0, <1>o, <1>t, <2>1 DEF TypeOK
  <1>2. TaskFacts'
    BY <1>0, <1>o, <1>t DEF TypeOK, TaskFacts, Editing
  <1>p. \A d \in Client, m \in Name : Pending(d, m)' => Pending(d, m)
    BY <1>t DEF Pending
  <1>3. ASSUME NEW d \in Client, NEW m \in Name, open'[d] # "closed"
        PROVE  /\ m \in own'[d] \/ Pending(d, m)' => held'[d][m] >= 1
               /\ m \in own'[d] /\ Pending(d, m)' => held'[d][m] >= 2
    BY <1>0, <1>3, <1>p DEF TypeOK, OwnFacts
  <1>4. ASSUME NEW d \in Client, NEW m \in Name, Listed(d, m)
        PROVE  Listed(d, m)'
    <2>1. CASE d = c
      <3>1. m \in own[c] \/ Pending(c, m)
        BY <1>0, <1>4, <2>1 DEF Listed
      <3>2. held[c][m] >= 1 /\ held[c][m] \in Nat
        BY <1>0, <3>1 DEF OwnFacts, TypeOK
      <3> QED
        BY <1>0, <2>1, <3>2 DEF TypeOK, Listed
    <2>2. CASE d # c
      BY <1>0, <1>4, <1>t, <2>2 DEF TypeOK, Listed, Pending
    <2> QED
      BY <2>1, <2>2
  <1> QED
    BY <1>0, <1>1, <1>2, <1>3, <1>4 DEF OwnFacts

(* Teardown: its ephemeral names are dropped. *)
LEMMA TeardownOwned ==
  ASSUME OwnInv, NEW c \in Client, Teardown(c)
  PROVE  OwnInv'
  <1> USE RegistryAssumption DEF OwnInv
  <1> DEFINE names == {n \in Name : held[c][n] > 0}
  <1>0. /\ open[c] = "closing" /\ open' = [open EXCEPT ![c] = "closed"]
        /\ held' = [held EXCEPT ![c] = [n \in Name |-> 0]]
        /\ leaked' = leaked \ names
        /\ UNCHANGED <<cfg, bad, sess, lock, task, orphans, registered, revoked, own>>
    BY DEF Teardown
  <1>e. /\ eph' \in Registry
        /\ \A n \in Name : eph'[n] # Absent => eph[n] # Absent /\ n \notin names
    BY DEF Teardown, TypeOK, Registry
  <1>1. TypeOK'
    <2>1. \/ UNCHANGED <<live, dirty>>
          \/ Reloads(eph')
      BY DEF Teardown
    <2>2. live' \in Registry /\ dirty' \in BOOLEAN
      BY <1>e, <2>1, ReloadsTyped DEF TypeOK
    <2> QED
      BY <1>0, <1>e, <2>2 DEF TypeOK
  <1>2. TaskFacts'
    BY <1>0 DEF TypeOK, TaskFacts
  <1>3. OwnFacts'
    <2>1. ASSUME NEW d \in Client, NEW m \in Name, open'[d] # "closed"
          PROVE  /\ m \in own'[d] \/ Pending(d, m)' => held'[d][m] >= 1
                 /\ m \in own'[d] /\ Pending(d, m)' => held'[d][m] >= 2
      <3>1. d # c
        BY <1>0, <2>1 DEF TypeOK
      <3> QED
        BY <1>0, <2>1, <3>1 DEF TypeOK, OwnFacts, Pending
    <2>2. ASSUME NEW m \in Name, eph'[m] # Absent
          PROVE  m \in leaked' \/ \E d \in Client : Listed(d, m)'
      <3>1. CASE m \in leaked
        BY <1>0, <1>e, <2>2, <3>1
      <3>2. CASE m \notin leaked
        <4>1. PICK d \in Client : Listed(d, m)
          BY <1>e, <2>2, <3>2 DEF OwnFacts
        <4>2. d # c
          BY <1>0, <1>e, <2>2, <4>1 DEF Listed
        <4> QED
          BY <1>0, <4>1, <4>2 DEF TypeOK, Listed, Pending
      <3> QED
        BY <3>1, <3>2
    <2> QED
      BY <2>1, <2>2 DEF OwnFacts
  <1> QED
    BY <1>1, <1>2, <1>3

(* OrphanReads: an edit without a client reads. *)
LEMMA OrphanReadsOwned ==
  ASSUME OwnInv, NEW t \in orphans, OrphanReads(t)
  PROVE  OwnInv'
  <1> USE RegistryAssumption DEF OwnInv
  <1> DEFINE u == [t EXCEPT !.pc = "read", !.base = cfg]
  <1>0. u \in TaskType /\ u.name \in Name /\ u.verb \in FileVerbs
    <2>1. t \in TaskType /\ t.name \in Name /\ t.verb \in FileVerbs /\ cfg \in Registry
      BY DEF TypeOK, TaskFacts
    <2> QED
      BY <2>1 DEF TaskType
  <1>o. orphans' = (orphans \ {t}) \cup {u}
    BY DEF OrphanReads
  <1> HIDE DEF u
  <1>1. TypeOK'
    BY <1>0, <1>o DEF TypeOK, OrphanReads, stores, history
  <1>2. TaskFacts'
    BY <1>0, <1>o DEF TaskFacts, OrphanReads
  <1>3. OwnFacts'
    BY DEF OwnFacts, Pending, Listed, OrphanReads, stores, history
  <1> QED
    BY <1>1, <1>2, <1>3

(* OrphanWrites: and writes. *)
LEMMA OrphanWritesOwned ==
  ASSUME OwnInv, NEW t \in orphans, OrphanWrites(t)
  PROVE  OwnInv'
  <1> USE RegistryAssumption DEF OwnInv
  <1>e. Edit(t, t.base) \in Registry
    BY EditEffect DEF TypeOK, TaskFacts, TaskType
  <1>1. TypeOK'
    BY <1>e DEF TypeOK, OrphanWrites
  <1>2. TaskFacts'
    BY DEF TaskFacts, OrphanWrites
  <1>3. OwnFacts'
    BY DEF OwnFacts, Pending, Listed, OrphanWrites
  <1> QED
    BY <1>1, <1>2, <1>3

(* Sessions and the operator's edits touch nothing the lists depend on. *)
LEMMA WorldOwned ==
  ASSUME OwnInv,
         \/ \E n \in Name, p \in Principal : Admit(n, p)
         \/ \E x \in sess : EndSession(x)
         \/ FileChanges
  PROVE  OwnInv'
  <1> USE DEF OwnInv, Admit, EndSession, FileChanges, history
  <1>1. TypeOK'
    <2>1. sess' \subseteq Name \X Principal
      BY DEF TypeOK, stores
    <2>3. bad' \in BOOLEAN
      BY DEF TypeOK
    <2>2. UNCHANGED <<cfg, eph, live, lock, task, orphans, open, held, dirty, registered, revoked, own, leaked>>
      OBVIOUS
    <2> QED
      BY <2>1, <2>2, <2>3 DEF TypeOK
  <1>2. TaskFacts' /\ OwnFacts'
    BY DEF TaskFacts, OwnFacts, Pending, Listed
  <1> QED
    BY <1>1, <1>2

LEMMA OwnStep ==
  ASSUME OwnInv, [Next]_vars
  PROVE  OwnInv'
  <1>1. ASSUME NEW c \in Client, RequestStep(c) PROVE OwnInv'
    <2>1. ASSUME NEW n \in Name,
                 \/ \E l \in Lists : \/ Request(c, "register", n, l)
                                     \/ Request(c, "register_ephemeral", n, l)
                 \/ \E p \in Principal : \/ Request(c, "grant", n, {p})
                                         \/ Request(c, "revoke", n, {p})
                 \/ Request(c, "unregister", n, {})
          PROVE  OwnInv'
      <3>1. PICK verb \in AllVerbs, arg \in SUBSET Principal : Request(c, verb, n, arg)
        BY <2>1, RegistryAssumption DEF AllVerbs
      <3> QED
        BY <3>1, RequestOwned
    <2> QED
      BY <1>1, <2>1, RegisterEphemeralOwned, FinishEphemeralOwned, StartRegisterOwned,
         StartUnregisterOwned, StartGrantOwned, StartRevokeOwned DEF RequestStep
  <1>2. ASSUME NEW c \in Client, EditStep(c) PROVE OwnInv'
    BY <1>2, EditReadsOwned, EditWritesOwned, EditFailsOwned, FinishRegisterOwned,
       FinishUnregisterOwned, FinishGrantOwned, RevokeSwapsOwned, RevokeSeversOwned DEF EditStep
  <1>3. CASE UNCHANGED vars
    BY <1>3 DEF vars, stores, history, OwnInv, TypeOK, TaskFacts, OwnFacts, Pending, Listed
  <1> QED
    BY <1>1, <1>2, <1>3, CloseOwned, TeardownOwned, OrphanReadsOwned, OrphanWritesOwned,
       WorldOwned DEF Next

LEMMA OwnInvariance == Spec => []OwnInv
  BY OwnInit, OwnStep, PTL DEF Spec

(* Types of the service registry; a teardown list never loses an entry it    *)
(* does not have, whatever order failures and hang-ups come in.              *)
THEOREM RegistryTyped == Spec => []TypeOK
  <1>1. OwnInv => TypeOK
    BY DEF OwnInv
  <1> QED
    BY <1>1, OwnInvariance, PTL

(* No ephemeral service outlives its control connection but the ones the code *)
(* leaves behind: every other is on the teardown list of a connection that    *)
(* has not been torn down yet, whenever clients hang up, and although a       *)
(* failed registration takes its own entry off (control.rs).                  *)
THEOREM EphemeralNeverLeaks == Spec => []EphemeralOwned
  <1>1. OwnInv => EphemeralOwned
    <2> SUFFICES ASSUME OwnInv, NEW n \in Name, eph[n] # Absent, n \notin leaked
                 PROVE  \E c \in Client : open[c] # "closed" /\ held[c][n] > 0
      BY DEF EphemeralOwned, Owned
    <2>1. PICK c \in Client : Listed(c, n)
      BY DEF OwnInv, OwnFacts
    <2>2. held[c][n] \in Nat
      BY DEF OwnInv, TypeOK
    <2>3. open[c] # "closed" /\ (n \in own[c] \/ Pending(c, n) \/ held[c][n] > 0)
      BY <2>1 DEF Listed
    <2> QED
      BY <2>2, <2>3 DEF OwnInv, OwnFacts
  <1> QED
    BY <1>1, OwnInvariance, PTL

-----------------------------------------------------------------------------
(* One name, one registration, while clients stay connected. *)

LEMMA NamesInit == Init => NamesInv
  BY IdleTyped DEF Init, NamesInv, LockFacts, EditFacts, NoShadow, RegisteredStays, Editing, Holding

(* No request edits while the lock is free. *)
LEMMA FreeLock ==
  ASSUME LockFacts, lock = NoClient, NEW c \in Client
  PROVE  task[c].pc \notin Holding
  BY RegistryAssumption DEF LockFacts

(* The steps of a request that has not taken the lock or gives it back. *)
LEMMA QuietNames ==
  ASSUME OwnInv, OwnInv', NamesInv, NEW c \in Client,
         orphans' = orphans, cfg' = cfg,
         \A d \in Client : d # c => task'[d] = task[d],
         task'[c].pc \notin Holding,
         \A d \in Client : open'[d] = "open" \/ task'[d].pc = "idle",
         lock' = lock \/ task[c].pc \in Holding \/ lock = c,
         \A n \in Name : eph'[n] # Absent => eph[n] # Absent,
         \A n \in Name : n \in registered' /\ n \notin registered =>
             task[c].pc = "wrote" /\ task[c].verb = "register" /\ n = task[c].name
  PROVE  NamesInv'
  <1> USE RegistryAssumption DEF NamesInv
  <1>1. ASSUME NEW d \in Client, task'[d].pc \in Holding
        PROVE  d # c /\ task'[d] = task[d] /\ lock = d /\ lock' = d
    BY <1>1 DEF LockFacts
  <1>2. LockFacts'
    BY <1>1 DEF LockFacts, Editing, Holding
  <1>3. EditFacts'
    <2> SUFFICES ASSUME NEW d \in Client, task'[d].pc \in Editing
                 PROVE  /\ task'[d].verb = "register" => eph'[task'[d].name] = Absent
                        /\ task'[d].verb = "register" /\ task'[d].pc = "wrote"
                              => cfg'[task'[d].name] # Absent
                        /\ task'[d].verb = "unregister" => task'[d].name \notin registered'
      BY DEF EditFacts
    <2>1. task[d].name \in Name /\ task[c].pc \notin Editing
      BY <1>1 DEF OwnInv, TaskFacts, LockFacts, Editing, Holding
    <2> QED
      BY <1>1, <2>1 DEF EditFacts, Editing, Holding
  <1>4. NoShadow'
    BY DEF NoShadow
  <1>5. RegisteredStays'
    BY DEF RegisteredStays, EditFacts, Editing, OwnInv, TypeOK
  <1> QED
    BY <1>2, <1>3, <1>4, <1>5

(* A request that takes the lock and starts its edit. *)
LEMMA StartNames ==
  ASSUME OwnInv, NamesInv, NEW c \in Client, lock = NoClient, lock' = c,
         orphans' = orphans, cfg' = cfg, open' = open, open[c] = "open",
         \A d \in Client : d # c => task'[d] = task[d],
         task'[c].pc = "job",
         task'[c].verb = "register" => eph'[task'[c].name] = Absent,
         task'[c].verb = "unregister" => task'[c].name \notin registered',
         \A n \in Name : eph'[n] # Absent => eph[n] # Absent,
         registered' \subseteq registered
  PROVE  NamesInv'
  <1> USE RegistryAssumption DEF NamesInv
  <1>1. ASSUME NEW d \in Client, task'[d].pc \in Holding
        PROVE  d = c
    BY <1>1, FreeLock
  <1>2. LockFacts'
    BY <1>1 DEF LockFacts, Editing, Holding
  <1>3. EditFacts'
    BY <1>1 DEF EditFacts, Editing, Holding
  <1>4. NoShadow' /\ RegisteredStays'
    BY DEF NoShadow, RegisteredStays, OwnInv, TypeOK
  <1> QED
    BY <1>2, <1>3, <1>4

(* A request under way moves on, and leaves the names alone. *)
LEMMA MoveNames ==
  ASSUME OwnInv, NamesInv, NEW c \in Client, task[c].pc \in Editing,
         UNCHANGED <<lock, orphans, cfg, eph, registered, open>>,
         \A d \in Client : d # c => task'[d] = task[d],
         task'[c].pc \in {"read", "sever"},
         task'[c].pc = "read" => task'[c].base = cfg,
         task'[c].verb = task[c].verb, task'[c].name = task[c].name
  PROVE  NamesInv'
  <1> USE RegistryAssumption DEF NamesInv
  <1>1. LockFacts'
    BY DEF LockFacts, Editing, Holding
  <1>2. EditFacts'
    BY DEF EditFacts, Editing
  <1>3. NoShadow' /\ RegisteredStays'
    BY DEF NoShadow, RegisteredStays
  <1> QED
    BY <1>1, <1>2, <1>3

(* The write of an edit, which started from the file as it still is. *)
LEMMA EditWritesNames ==
  ASSUME OwnInv, NamesInv, NEW c \in Client, EditWrites(c)
  PROVE  NamesInv'
  <1> USE RegistryAssumption DEF NamesInv
  <1>0. /\ task[c] \in TaskType /\ task[c].name \in Name /\ task[c].verb \in FileVerbs
        /\ task[c].pc = "read" /\ task[c].base = cfg /\ cfg \in Registry
    BY DEF EditWrites, OwnInv, TypeOK, TaskFacts, Editing, LockFacts
  <1> DEFINE new == Edit(task[c], cfg)
  <1>1. /\ task[c].verb = "register" => new[task[c].name] # Absent
        /\ \A n \in Name : cfg[n] # Absent /\ new[n] = Absent
                               => task[c].verb = "unregister" /\ n = task[c].name
        /\ \A n \in Name : cfg[n] = Absent /\ new[n] # Absent
                               => task[c].verb = "register" /\ n = task[c].name
    BY <1>0, EditEffect
  <1>2. cfg' = IF new # cfg \/ task[c].verb = "register" THEN new ELSE cfg
    BY <1>0 DEF EditWrites
  <1> HIDE DEF new
  <1>3. /\ task'[c].pc = "wrote" /\ task'[c].verb = task[c].verb /\ task'[c].name = task[c].name
        /\ \A d \in Client : d # c => task'[d] = task[d]
    BY <1>0 DEF EditWrites, OwnInv, TypeOK, TaskType
  <1>4. UNCHANGED <<lock, orphans, eph, registered, open>>
    BY DEF EditWrites, history
  <1>5. LockFacts'
    BY <1>0, <1>3, <1>4 DEF LockFacts, Editing, Holding
  <1>6. EditFacts'
    BY <1>0, <1>1, <1>2, <1>3, <1>4 DEF EditFacts, LockFacts, Editing, Holding
  <1>7. NoShadow'
    BY <1>0, <1>1, <1>2, <1>4 DEF NoShadow, EditFacts, Editing
  <1>8. RegisteredStays'
    BY <1>0, <1>1, <1>2, <1>4 DEF RegisteredStays, EditFacts, Editing, OwnInv, TypeOK
  <1> QED
    BY <1>5, <1>6, <1>7, <1>8

(* An ephemeral registration finds the file without its name. *)
LEMMA RegisterEphemeralNames ==
  ASSUME OwnInv, OwnInv', NamesInv, NEW c \in Client, RegisterEphemeral(c)
  PROVE  NamesInv'
  <1> USE RegistryAssumption DEF NamesInv
  <1>0. /\ lock = NoClient /\ UNCHANGED <<cfg, orphans, registered, open>>
        /\ task[c].pc = "waiting" /\ open[c] = "open"
        /\ \A n \in Name : eph'[n] # Absent /\ eph[n] = Absent => cfg[n] = Absent
    BY DEF RegisterEphemeral, Turn, NotPersistent, OwnInv, TypeOK, Registry, LockFacts
  <1>1. /\ \A d \in Client : d # c => task'[d] = task[d]
        /\ task'[c].pc = "idle" \/ (task'[c].pc = "inserted" /\ lock' = c)
    <2>1. CASE Ends(c)
      BY <2>1, EndsEffect DEF OwnInv
    <2>2. CASE task' = [task EXCEPT ![c].pc = "inserted"] /\ lock' = c
      BY <2>2 DEF OwnInv, TypeOK, TaskType
    <2> QED
      BY <2>1, <2>2 DEF RegisterEphemeral
  <1>2. \A d \in Client : task[d].pc \notin Holding
    BY <1>0, FreeLock
  <1>3. LockFacts' /\ EditFacts'
    BY <1>0, <1>1, <1>2 DEF LockFacts, EditFacts, Editing, Holding
  <1>4. NoShadow' /\ RegisteredStays'
    BY <1>0 DEF NoShadow, RegisteredStays
  <1> QED
    BY <1>3, <1>4

(* And gives the lock back when it is done. *)
LEMMA FinishEphemeralNames ==
  ASSUME OwnInv, OwnInv', NamesInv, NEW c \in Client, FinishEphemeral(c)
  PROVE  NamesInv'
  <1>1. /\ task[c].pc \in Holding /\ UNCHANGED <<cfg, eph, orphans, registered, open>>
    BY DEF FinishEphemeral, Holding
  <1>2. task'[c].pc = "idle" /\ \A d \in Client : d # c => task'[d] = task[d]
    BY EndsEffect DEF FinishEphemeral, Releases, OwnInv
  <1> QED
    BY <1>1, <1>2, QuietNames DEF NamesInv, LockFacts, Editing, Holding

(* The steps of the control loop and the starts of the verbs. *)
LEMMA RequestNames ==
  ASSUME OwnInv, OwnInv', NamesInv, NEW c \in Client, RequestStep(c)
  PROVE  NamesInv'
  <1> USE RegistryAssumption
  <1>t. TypeOK /\ task[c] \in TaskType
    BY DEF OwnInv, TypeOK
  <1>o. /\ task[c].pc = "waiting" => open[c] = "open"
        /\ \A d \in Client : open[d] = "open" \/ task[d].pc = "idle"
    BY DEF NamesInv, LockFacts
  <1>1. ASSUME NEW verb, NEW n, NEW arg, Request(c, verb, n, arg)
        PROVE  NamesInv'
    <2>1. task'[c].pc = "waiting" /\ \A d \in Client : d # c => task'[d] = task[d]
      BY <1>1, IdleTyped DEF Request, OwnInv, TypeOK, TaskType
    <2>2. UNCHANGED <<lock, orphans, cfg, eph, registered, open>> /\ open[c] = "open"
      BY <1>1 DEF Request, stores, history
    <2> QED
      BY <2>1, <2>2, QuietNames DEF Editing, Holding, NamesInv, LockFacts
  <1>2. ASSUME StartRegister(c) \/ StartGrant(c)
        PROVE  NamesInv'
    <2>1. /\ UNCHANGED <<cfg, eph, registered, open>> /\ lock = NoClient /\ open[c] = "open"
      BY <1>2, <1>o DEF StartRegister, StartGrant, Turn, stores
    <2>2. CASE Ends(c) /\ UNCHANGED <<lock, orphans>>
      <3>1. task'[c].pc = "idle" /\ \A d \in Client : d # c => task'[d] = task[d]
        BY <2>2, <1>t, EndsEffect
      <3> QED
        BY <1>o, <2>1, <2>2, <3>1, QuietNames DEF Editing, Holding
    <2>3. CASE StartEdit(c, task[c]) /\ (task[c].verb = "register" => eph[task[c].name] = Absent)
               /\ task[c].verb # "unregister"
      <3>1. /\ task'[c].pc = "job" /\ task'[c].name = task[c].name /\ task'[c].verb = task[c].verb
            /\ \A d \in Client : d # c => task'[d] = task[d]
            /\ lock' = c /\ orphans' = orphans
        BY <1>t, <2>1, <2>3, StartEffect
      <3> QED
        BY <2>1, <2>3, <3>1, StartNames
    <2> QED
      BY <1>2, <2>2, <2>3 DEF StartRegister, StartGrant, Turn
  <1>3. ASSUME StartUnregister(c)
        PROVE  NamesInv'
    <2> DEFINE u == [task[c] EXCEPT !.strip = eph[task[c].name] # Absent]
    <2>1. u \in TaskType /\ u.name = task[c].name /\ u.verb = task[c].verb /\ StartEdit(c, u)
      BY <1>3, <1>t, MarkedTyped DEF StartUnregister
    <2> HIDE DEF u
    <2>2. /\ task'[c].pc = "job" /\ task'[c].name = task[c].name /\ task'[c].verb = task[c].verb
          /\ \A d \in Client : d # c => task'[d] = task[d]
          /\ lock' = c /\ orphans' = orphans /\ open[c] = "open"
      BY <1>3, <1>o, <1>t, <2>1, StartEffect DEF StartUnregister, Turn
    <2>3. /\ UNCHANGED <<open, cfg>> /\ lock = NoClient /\ task[c].verb = "unregister"
          /\ eph' = [eph EXCEPT ![task[c].name] = Absent]
          /\ registered' = registered \ {task[c].name}
      BY <1>3 DEF StartUnregister, Turn
    <2>4. \A n \in Name : eph'[n] # Absent => eph[n] # Absent
      BY <1>t, <2>3 DEF TypeOK, Registry
    <2> QED
      BY <2>2, <2>3, <2>4, StartNames
  <1>4. ASSUME StartRevoke(c)
        PROVE  NamesInv'
    <2> DEFINE n == task[c].name
               hit == eph[n] # Absent /\ eph[n] \cap task[c].arg # {}
               u == [task[c] EXCEPT !.strip = hit, !.had = eph[n] # Absent]
    <2>1. u \in TaskType /\ u.name = n /\ u.verb = task[c].verb /\ StartEdit(c, u)
      BY <1>4, <1>t, MarkedTyped DEF StartRevoke
    <2> HIDE DEF u
    <2>2. /\ task'[c].pc = "job" /\ task'[c].name = n /\ task'[c].verb = task[c].verb
          /\ \A d \in Client : d # c => task'[d] = task[d]
          /\ lock' = c /\ orphans' = orphans /\ open[c] = "open"
      BY <1>4, <1>o, <1>t, <2>1, StartEffect DEF StartRevoke, Turn
    <2>3. /\ UNCHANGED <<open, cfg, registered>> /\ lock = NoClient /\ task[c].verb = "revoke"
          /\ eph' = IF hit THEN [eph EXCEPT ![n] = @ \ task[c].arg] ELSE eph
      BY <1>4 DEF StartRevoke, Turn, history
    <2>4. \A m \in Name : eph'[m] # Absent => eph[m] # Absent
      BY <1>t, <2>3 DEF TypeOK, Registry
    <2> QED
      BY <2>2, <2>3, <2>4, StartNames
  <1> QED
    BY <1>1, <1>2, <1>3, <1>4, RegisterEphemeralNames, FinishEphemeralNames DEF RequestStep

(* The edits and what follows them. *)
LEMMA EditNames ==
  ASSUME OwnInv, OwnInv', NamesInv, NEW c \in Client, EditStep(c)
  PROVE  NamesInv'
  <1> USE RegistryAssumption
  <1>t. TypeOK /\ task[c] \in TaskType
    BY DEF OwnInv, TypeOK
  <1>1. ASSUME EditReads(c) PROVE NamesInv'
    <2>1. /\ task'[c].pc = "read" /\ task'[c].base = cfg
          /\ task'[c].verb = task[c].verb /\ task'[c].name = task[c].name
          /\ \A d \in Client : d # c => task'[d] = task[d]
          /\ task[c].pc \in Editing
      BY <1>1, <1>t DEF EditReads, TypeOK, TaskType, Editing
    <2>2. UNCHANGED <<lock, orphans, cfg, eph, registered, open>>
      BY <1>1 DEF EditReads, stores, history
    <2> QED
      BY <2>1, <2>2, MoveNames
  <1>2. ASSUME Ends(c), UNCHANGED <<cfg, orphans, open>>, task[c].pc \in Editing,
               \A n \in Name : eph'[n] # Absent => eph[n] # Absent,
               \A n \in Name : n \in registered' /\ n \notin registered =>
                   task[c].pc = "wrote" /\ task[c].verb = "register" /\ n = task[c].name
        PROVE  NamesInv'
    <2>1. task'[c].pc = "idle" /\ \A d \in Client : d # c => task'[d] = task[d]
      BY <1>2, <1>t, EndsEffect DEF Editing
    <2>2. task'[c].pc \notin Holding /\ task[c].pc \in Holding
      BY <1>2, <2>1 DEF Editing, Holding
    <2> QED
      BY <1>2, <2>1, <2>2, QuietNames DEF NamesInv, LockFacts
  <1>3. ASSUME EditFails(c) PROVE NamesInv'
    BY <1>2, <1>3 DEF EditFails, Releases, stores, Editing
  <1>4. ASSUME FinishRegister(c) PROVE NamesInv'
    BY <1>2, <1>4 DEF FinishRegister, Releases, Editing
  <1>5. ASSUME FinishUnregister(c) PROVE NamesInv'
    BY <1>2, <1>5 DEF FinishUnregister, Releases, Editing
  <1>6. ASSUME FinishGrant(c) PROVE NamesInv'
    <2>1. \A n \in Name : eph'[n] # Absent => eph[n] # Absent
      BY <1>6, <1>t DEF FinishGrant, TypeOK, Registry
    <2> QED
      BY <1>2, <1>6, <2>1 DEF FinishGrant, Releases, Editing
  <1>7. ASSUME RevokeSwaps(c) PROVE NamesInv'
    <2>1. /\ UNCHANGED <<cfg, eph, orphans, registered, open>>
          /\ task[c].pc = "wrote" /\ task[c].verb = "revoke"
          /\ \/ Releases(c)
             \/ task' = [task EXCEPT ![c].pc = "sever"] /\ lock' = lock
      BY <1>7 DEF RevokeSwaps
    <2>2. CASE Releases(c)
      BY <1>2, <2>1, <2>2 DEF Releases, Editing
    <2>3. CASE task' = [task EXCEPT ![c].pc = "sever"] /\ lock' = lock
      <3>1. /\ task'[c].pc = "sever"
            /\ task'[c].verb = task[c].verb /\ task'[c].name = task[c].name
            /\ \A d \in Client : d # c => task'[d] = task[d]
        BY <1>t, <2>3 DEF TypeOK, TaskType
      <3> QED
        BY <2>1, <2>3, <3>1, MoveNames DEF Editing
    <2> QED
      BY <2>1, <2>2, <2>3
  <1>8. ASSUME RevokeSevers(c) PROVE NamesInv'
    BY <1>2, <1>8 DEF RevokeSevers, Releases, Editing
  <1> QED
    BY <1>1, <1>3, <1>4, <1>5, <1>6, <1>7, <1>8, EditWritesNames DEF EditStep

(* A client leaves between its requests. *)
LEMMA LeaveNames ==
  ASSUME ~Aborts, OwnInv, OwnInv', NamesInv, NEW c \in Client,
         (\E polled \in BOOLEAN : Close(c, polled)) \/ Teardown(c)
  PROVE  NamesInv'
  <1> USE RegistryAssumption
  <1>1. ASSUME NEW polled \in BOOLEAN, Close(c, polled) PROVE NamesInv'
    <2>0. task[c].pc = "idle" /\ ~polled
      BY <1>1 DEF Close
    <2>1. task'[c].pc = "idle" /\ \A d \in Client : d # c => task'[d] = task[d]
      BY <1>1, <2>0, EndsEffect DEF Close, OwnInv
    <2>2. /\ UNCHANGED <<cfg, eph, orphans, registered>>
          /\ lock' = lock \/ lock = c
          /\ open' = [open EXCEPT ![c] = "closing"]
      BY <1>1, <2>0 DEF Close, stores
    <2>3. \A d \in Client : open'[d] = "open" \/ task'[d].pc = "idle"
      BY <2>1, <2>2 DEF NamesInv, LockFacts, OwnInv, TypeOK
    <2> QED
      BY <2>1, <2>2, <2>3, QuietNames DEF Editing, Holding
  <1>2. ASSUME Teardown(c) PROVE NamesInv'
    <2>1. /\ task[c].pc = "idle" /\ UNCHANGED <<task, lock, cfg, orphans, registered>>
          /\ open' = [open EXCEPT ![c] = "closed"]
      BY <1>2 DEF Teardown, NamesInv, LockFacts
    <2>2. \A n \in Name : eph'[n] # Absent => eph[n] # Absent
      BY <1>2 DEF Teardown
    <2>3. \A d \in Client : open'[d] = "open" \/ task'[d].pc = "idle"
      BY <2>1 DEF NamesInv, LockFacts, OwnInv, TypeOK
    <2> QED
      BY <2>1, <2>2, <2>3, QuietNames DEF Editing, Holding
  <1> QED
    BY <1>1, <1>2

LEMMA NamesStep ==
  ASSUME ~Aborts, OwnInv, OwnInv', NamesInv, [Next]_vars
  PROVE  NamesInv'
  <1>1. orphans = {}
    BY DEF NamesInv, LockFacts
  <1>2. ASSUME UNCHANGED <<cfg, eph, lock, task, orphans, registered, open>> PROVE NamesInv'
    BY <1>2 DEF NamesInv, LockFacts, EditFacts, NoShadow, RegisteredStays
  <1>3. CASE \/ \E n \in Name, p \in Principal : Admit(n, p)
             \/ \E x \in sess : EndSession(x)
             \/ FileChanges
    BY <1>2, <1>3 DEF Admit, EndSession, FileChanges, history
  <1>4. CASE UNCHANGED vars
    BY <1>2, <1>4 DEF vars, stores, history
  <1> QED
    BY <1>1, <1>3, <1>4, RequestNames, EditNames, LeaveNames DEF Next

LEMMA NamesInvariance == ASSUME ~Aborts PROVE Spec => []NamesInv
  BY NamesInit, NamesStep, OwnInvariance, PTL DEF Spec

(* While clients wait for their answers, an ephemeral registration and a     *)
(* persistent one of the same name never coexist: register_service's two     *)
(* checks exclude each other under reload_lock, through failed edits and an  *)
(* unloadable file.                                                          *)
THEOREM NeverShadowed == ASSUME ~Aborts PROVE Spec => []NoShadow
  <1>1. NamesInv => NoShadow
    BY DEF NamesInv
  <1> QED
    BY <1>1, NamesInvariance, PTL

(* And a persistent registration that was acknowledged stays in the file     *)
(* until it is unregistered: no verb's read-modify-write loses another's.    *)
THEOREM RegistrationsStay == ASSUME ~Aborts PROVE Spec => []RegisteredStays
  <1>1. NamesInv => RegisteredStays
    BY DEF NamesInv
  <1> QED
    BY <1>1, NamesInvariance, PTL
-----------------------------------------------------------------------------
(* The live registry, whenever clients hang up. *)

LEMMA IdleBlank ==
  /\ IdleTask.pc = "idle" /\ IdleTask.pc \notin Holding
  /\ IdleTask.strip = FALSE /\ IdleTask.moved = FALSE
  BY DEF IdleTask, Editing, Holding

(* What each step does to the request of its client: it ends, it arrives, or  *)
(* it goes on with some of its marks set.                                     *)
LEMMA EndsBlank ==
  ASSUME TypeOK, NEW c \in Client, Ends(c)
  PROVE  task'[c] = IdleTask /\ \A d \in Client : d # c => task'[d] = task[d]
  BY DEF TypeOK, Ends

LEMMA RequestBlank ==
  ASSUME TypeOK, NEW c \in Client, NEW verb, NEW n, NEW arg, Request(c, verb, n, arg)
  PROVE  /\ task'[c].pc = "waiting" /\ task'[c].strip = FALSE
         /\ \A d \in Client : d # c => task'[d] = task[d]
  <1> DEFINE u == [IdleTask EXCEPT !.pc = "waiting", !.verb = verb, !.name = n, !.arg = arg]
  <1>1. u.pc = "waiting" /\ u.strip = FALSE
    BY DEF IdleTask
  <1>2. task' = [task EXCEPT ![c] = u]
    BY DEF Request
  <1> HIDE DEF u
  <1> QED
    BY <1>1, <1>2 DEF TypeOK

LEMMA StartMarks ==
  ASSUME TypeOK, NEW c \in Client, NEW t \in TaskType, StartEdit(c, t), open[c] = "open"
  PROVE  /\ task'[c].pc = "job" /\ task'[c].name = t.name /\ task'[c].verb = t.verb
         /\ task'[c].arg = t.arg /\ (task'[c].strip <=> t.strip) /\ lock' = c
         /\ dirty' = dirty
         /\ \A d \in Client : d # c => task'[d] = task[d]
  <1> DEFINE u == [t EXCEPT !.pc = "job"]
  <1>1. /\ u.pc = "job" /\ u.name = t.name /\ u.verb = t.verb
        /\ u.arg = t.arg /\ u.strip = t.strip
    BY DEF TaskType
  <1>2. task' = [task EXCEPT ![c] = u] /\ lock' = c /\ dirty' = dirty
    BY DEF StartEdit
  <1> HIDE DEF u
  <1> QED
    BY <1>1, <1>2 DEF TypeOK

(* The start of an edit nobody waits for. *)
LEMMA StartDropped ==
  ASSUME TypeOK, NEW c \in Client, NEW t, StartEdit(c, t), open[c] # "open"
  PROVE  /\ task'[c] = IdleTask /\ lock' = lock /\ dirty'
         /\ \A d \in Client : d # c => task'[d] = task[d]
  BY EndsBlank DEF StartEdit

LEMMA RevokeMarks ==
  ASSUME TypeOK, NEW c \in Client, StartRevoke(c), open[c] = "open"
  PROVE  /\ task'[c].pc = "job" /\ task'[c].name = task[c].name /\ task'[c].verb = "revoke"
         /\ task'[c].arg = task[c].arg /\ lock' = c /\ dirty' = dirty
         /\ task'[c].strip <=> (eph[task[c].name] # Absent /\ eph[task[c].name] \cap task[c].arg # {})
         /\ \A d \in Client : d # c => task'[d] = task[d]
  <1> DEFINE n == task[c].name
             hit == eph[n] # Absent /\ eph[n] \cap task[c].arg # {}
             u == [task[c] EXCEPT !.strip = hit, !.had = eph[n] # Absent]
  <1>1. task[c] \in TaskType
    BY DEF TypeOK
  <1>2. /\ u \in TaskType /\ u.name = n /\ u.verb = task[c].verb
        /\ u.arg = task[c].arg /\ (u.strip <=> hit)
    BY <1>1 DEF TaskType
  <1>3. StartEdit(c, u) /\ task[c].verb = "revoke"
    BY DEF StartRevoke, Turn
  <1> HIDE DEF u
  <1> QED
    BY <1>2, <1>3, StartMarks

LEMMA UnregisterMarks ==
  ASSUME TypeOK, NEW c \in Client, StartUnregister(c), open[c] = "open"
  PROVE  /\ task'[c].pc = "job" /\ task'[c].name = task[c].name /\ task'[c].verb = "unregister"
         /\ task'[c].arg = task[c].arg /\ lock' = c /\ dirty' = dirty
         /\ task'[c].strip <=> (eph[task[c].name] # Absent)
         /\ \A d \in Client : d # c => task'[d] = task[d]
  <1> DEFINE n == task[c].name
             u == [task[c] EXCEPT !.strip = eph[n] # Absent]
  <1>1. task[c] \in TaskType
    BY DEF TypeOK
  <1>2. /\ u \in TaskType /\ u.name = n /\ u.verb = task[c].verb
        /\ u.arg = task[c].arg /\ (u.strip <=> eph[n] # Absent)
    BY <1>1 DEF TaskType
  <1>3. StartEdit(c, u) /\ task[c].verb = "unregister"
    BY DEF StartUnregister, Turn
  <1> HIDE DEF u
  <1> QED
    BY <1>2, <1>3, StartMarks

LEMMA ReadsMarks ==
  ASSUME TypeOK, NEW c \in Client, EditReads(c)
  PROVE  /\ task'[c].pc = "read" /\ task'[c].name = task[c].name /\ task'[c].verb = task[c].verb
         /\ task'[c].arg = task[c].arg /\ (task'[c].strip <=> task[c].strip)
         /\ \A d \in Client : d # c => task'[d] = task[d]
  BY DEF EditReads, TypeOK, TaskType

LEMMA WritesMarks ==
  ASSUME TypeOK, NEW c \in Client, EditWrites(c)
  PROVE  /\ task'[c].pc = "wrote" /\ task'[c].name = task[c].name /\ task'[c].verb = task[c].verb
         /\ task'[c].arg = task[c].arg /\ (task'[c].strip <=> task[c].strip)
         /\ task'[c].moved = (Edit(task[c], task[c].base) # task[c].base \/ task[c].verb = "register")
         /\ \A d \in Client : d # c => task'[d] = task[d]
  BY DEF EditWrites, TypeOK, TaskType

LEMMA SeverMarks ==
  ASSUME TypeOK, NEW c \in Client, task' = [task EXCEPT ![c].pc = "sever"]
  PROVE  /\ task'[c].pc = "sever" /\ task'[c].name = task[c].name /\ task'[c].verb = task[c].verb
         /\ task'[c].arg = task[c].arg /\ (task'[c].strip <=> task[c].strip)
         /\ \A d \in Client : d # c => task'[d] = task[d]
  BY DEF TypeOK, TaskType

(* reload_lock is held from the start of an edit to its answer. *)
LEMMA LockStep ==
  ASSUME OwnInv, LockHeld, [Next]_vars
  PROVE  LockHeld'
  <1> USE RegistryAssumption DEF Editing, Holding
  <1>t. TypeOK /\ \A c \in Client : task[c] \in TaskType
    BY DEF OwnInv, TypeOK
  <1>1. ASSUME NEW c \in Client, task'[c] = IdleTask \/ task'[c].pc = "waiting",
               \A d \in Client : d # c => task'[d] = task[d],
               \/ task[c].pc \notin Holding /\ lock' = lock
               \/ task[c].pc \in Holding /\ lock' = NoClient
        PROVE  LockHeld'
    BY <1>1, IdleBlank DEF LockHeld
  <1>2. ASSUME NEW c \in Client, lock = NoClient, lock' = c, task'[c].pc \in Holding,
               \A d \in Client : d # c => task'[d] = task[d]
        PROVE  LockHeld'
    BY <1>2 DEF LockHeld
  <1>3. ASSUME NEW c \in Client, task[c].pc \in Holding, task'[c].pc \in Holding, lock' = lock,
               \A d \in Client : d # c => task'[d] = task[d]
        PROVE  LockHeld'
    BY <1>3 DEF LockHeld
  <1>4. ASSUME UNCHANGED <<task, lock>> PROVE LockHeld'
    BY <1>4 DEF LockHeld
  <1>5. ASSUME NEW c \in Client, RequestStep(c) PROVE LockHeld'
    <2>1. ASSUME NEW verb, NEW n, NEW arg, Request(c, verb, n, arg) PROVE LockHeld'
      BY <1>1, <1>t, <2>1, RequestBlank DEF Request
    <2>2. ASSUME RegisterEphemeral(c) PROVE LockHeld'
      <3>1. CASE Ends(c) /\ lock' = lock
        BY <1>1, <1>t, <2>2, <3>1, EndsBlank DEF RegisterEphemeral, Turn
      <3>2. CASE task' = [task EXCEPT ![c].pc = "inserted"] /\ lock' = c
        <4>1. task'[c].pc = "inserted" /\ \A d \in Client : d # c => task'[d] = task[d]
          BY <1>t, <3>2 DEF TypeOK, TaskType
        <4> QED
          BY <1>2, <2>2, <3>2, <4>1 DEF RegisterEphemeral, Turn
      <3> QED
        BY <2>2, <3>1, <3>2 DEF RegisterEphemeral
    <2>f. ASSUME FinishEphemeral(c) PROVE LockHeld'
      BY <1>1, <1>t, <2>f, EndsBlank DEF FinishEphemeral, Releases
    <2>d. ASSUME NEW t, StartEdit(c, t), open[c] # "open", task[c].pc = "waiting" PROVE LockHeld'
      BY <1>1, <1>t, <2>d, StartDropped
    <2>3. ASSUME StartRegister(c) \/ StartGrant(c) PROVE LockHeld'
      BY <1>1, <1>2, <1>t, <2>3, <2>d, EndsBlank, StartMarks DEF StartRegister, StartGrant, Turn
    <2>4. ASSUME StartUnregister(c) PROVE LockHeld'
      <3>1. CASE open[c] = "open"
        BY <1>2, <1>t, <2>4, <3>1, UnregisterMarks DEF StartUnregister, Turn
      <3> QED
        BY <2>4, <2>d, <3>1 DEF StartUnregister, Turn
    <2>5. ASSUME StartRevoke(c) PROVE LockHeld'
      <3>1. CASE open[c] = "open"
        BY <1>2, <1>t, <2>5, <3>1, RevokeMarks DEF StartRevoke, Turn
      <3> QED
        BY <2>5, <2>d, <3>1 DEF StartRevoke, Turn
    <2> QED
      BY <1>5, <2>1, <2>2, <2>f, <2>3, <2>4, <2>5 DEF RequestStep
  <1>6. ASSUME NEW c \in Client, EditStep(c) PROVE LockHeld'
    <2>1. ASSUME EditReads(c) PROVE LockHeld'
      BY <1>3, <1>t, <2>1, ReadsMarks DEF EditReads
    <2>2. ASSUME EditWrites(c) PROVE LockHeld'
      BY <1>3, <1>t, <2>2, WritesMarks DEF EditWrites
    <2>3. ASSUME Releases(c), task[c].pc \in Editing PROVE LockHeld'
      BY <1>1, <1>t, <2>3, EndsBlank DEF Releases
    <2>4. ASSUME RevokeSwaps(c) PROVE LockHeld'
      <3>1. CASE task' = [task EXCEPT ![c].pc = "sever"] /\ lock' = lock
        BY <1>3, <1>t, <2>4, <3>1, SeverMarks DEF RevokeSwaps
      <3> QED
        BY <2>3, <2>4, <3>1 DEF RevokeSwaps
    <2> QED
      BY <1>6, <2>1, <2>2, <2>3, <2>4
         DEF EditStep, EditFails, FinishRegister, FinishUnregister, FinishGrant, RevokeSevers
  <1>7. ASSUME NEW c \in Client, NEW polled \in BOOLEAN, Close(c, polled) PROVE LockHeld'
    <2>1. CASE polled
      BY <1>4, <1>7, <2>1 DEF Close
    <2>2. CASE ~polled
      <3>1. task'[c] = IdleTask /\ \A d \in Client : d # c => task'[d] = task[d]
        BY <1>7, <1>t, <2>2, EndsBlank DEF Close
      <3>2. lock' = IF lock = c THEN NoClient ELSE lock
        BY <1>7, <2>2 DEF Close
      <3> QED
        BY <1>1, <3>1, <3>2 DEF LockHeld
    <2> QED
      BY <2>1, <2>2
  <1>8. ASSUME NEW c \in Client, Teardown(c) PROVE LockHeld'
    BY <1>4, <1>8 DEF Teardown
  <1>9. CASE \/ \E t \in orphans : OrphanReads(t) \/ OrphanWrites(t)
             \/ \E n \in Name, p \in Principal : Admit(n, p)
             \/ \E x \in sess : EndSession(x)
             \/ FileChanges
             \/ UNCHANGED vars
    BY <1>4, <1>9 DEF OrphanReads, OrphanWrites, Admit, EndSession, FileChanges, vars
  <1> QED
    BY <1>5, <1>6, <1>7, <1>8, <1>9 DEF Next

(* Only the request that holds the lock can have marked an ephemeral entry.   *)
LEMMA OthersUnmarked ==
  ASSUME LockHeld, LiveFacts, NEW c \in Client, lock = c \/ lock = NoClient,
         NEW d \in Client, d # c
  PROVE  ~task[d].strip
  BY RegistryAssumption DEF LockHeld, LiveFacts, Holding

(* The steps that touch neither the lock nor the registries. *)
LEMMA QuietLive ==
  ASSUME OwnInv, LockHeld, LiveFacts, NEW c \in Client,
         UNCHANGED <<lock, cfg, eph, live, dirty>>,
         task[c].pc \notin Holding, ~task'[c].strip,
         \A d \in Client : d # c => task'[d] = task[d]
  PROVE  LiveFacts'
  <1>1. \A d \in Client : lock = d => d # c
    BY DEF LockHeld
  <1> QED
    BY <1>1 DEF LiveFacts, Behind

(* The steps after which the registry is current, or known not to be. *)
LEMMA FreshLive ==
  ASSUME OwnInv, LockHeld, LiveFacts, NEW c \in Client, lock = c \/ lock = NoClient,
         ~task'[c].strip, \A d \in Client : d # c => task'[d] = task[d],
         dirty' \/ \A n \in Name : live'[n] = Overlay(cfg', eph')[n]
  PROVE  LiveFacts'
  <1>1. \A d \in Client : ~task'[d].strip
    BY OthersUnmarked
  <1> QED
    BY <1>1 DEF LiveFacts

(* With no request under way the live registry is current. *)
LEMMA FreeLive ==
  ASSUME LiveFacts, lock = NoClient, ~dirty, NEW n \in Name
  PROVE  live[n] = Overlay(cfg, eph)[n]
  BY RegistryAssumption DEF LiveFacts

(* A reload makes it current unless the file does not load. *)
LEMMA ReloadsLive ==
  ASSUME OwnInv, NEW e, eph' = e, cfg' = cfg, Reloads(e)
  PROVE  dirty' \/ \A n \in Name : live'[n] = Overlay(cfg', eph')[n]
  BY DEF OwnInv, TypeOK, Reloads

(* apply_ephemeral_allow does what a reload would have done, when nothing but *)
(* the list it replaces was behind.                                           *)
LEMMA AppliesLive ==
  ASSUME OwnInv, NEW n \in Name, NEW e \in Registry, e[n] # Absent,
         eph' = e, cfg' = cfg, AppliesEphemeral(n, e),
         ~dirty => \A m \in Name : m # n => live[m] = Overlay(cfg, e)[m]
  PROVE  dirty' \/ \A m \in Name : live'[m] = Overlay(cfg', eph')[m]
  <1>1. CASE live[n] # Absent
    <2>1. live' = [live EXCEPT ![n] = e[n]] /\ dirty' = dirty
      BY <1>1 DEF AppliesEphemeral
    <2>2. \A m \in Name : m # n => live'[m] = live[m]
      BY <2>1 DEF OwnInv, TypeOK, Registry
    <2>3. live'[n] = Overlay(cfg, e)[n]
      BY <2>1 DEF OwnInv, TypeOK, Registry, Overlay
    <2> QED
      BY <2>1, <2>2, <2>3
  <1>2. CASE live[n] = Absent
    BY <1>2, ReloadsLive DEF AppliesEphemeral
  <1> QED
    BY <1>1, <1>2

(* A request takes the lock, and marks or inserts at most its own name. *)
LEMMA StartLive ==
  ASSUME OwnInv, LockHeld, LiveFacts, NEW c \in Client, lock = NoClient, lock' = c,
         task'[c].pc = "job" \/ (task'[c].pc = "inserted" /\ ~task'[c].strip),
         task'[c].name \in Name, UNCHANGED <<cfg, live, dirty>>,
         \A d \in Client : d # c => task'[d] = task[d],
         task'[c].strip => /\ task'[c].verb \in {"unregister", "revoke"}
                           /\ task'[c].verb = "revoke" => eph'[task'[c].name] # Absent,
         task'[c].strip \/ task'[c].pc = "inserted" \/ eph' = eph,
         \A n \in Name : n # task'[c].name => eph'[n] = eph[n]
  PROVE  LiveFacts'
  <1>1. \A d \in Client : d # c => ~task'[d].strip
    BY OthersUnmarked
  <1>2. ASSUME NEW n \in Name, ~dirty'
        PROVE  \/ live'[n] = Overlay(cfg', eph')[n]
               \/ \E d \in Client : lock' = d /\ Behind(d, n)'
    <2>1. live[n] = Overlay(cfg, eph)[n]
      BY <1>2, FreeLive
    <2>2. CASE n = task'[c].name /\ (task'[c].strip \/ task'[c].pc = "inserted")
      BY <2>2 DEF Behind
    <2>3. CASE eph'[n] = eph[n]
      BY <2>1, <2>3 DEF Overlay
    <2> QED
      BY <2>2, <2>3
  <1> QED
    BY <1>1, <1>2 DEF LiveFacts, Editing

(* A request under way goes on; the registry is behind where it says so. *)
LEMMA MoveLive ==
  ASSUME OwnInv, LockHeld, LiveFacts, NEW c \in Client, task[c].pc \in Editing,
         UNCHANGED <<lock, eph>>, task'[c].pc \in Editing,
         task'[c].verb = task[c].verb, task'[c].name = task[c].name,
         (task'[c].strip <=> task[c].strip),
         \A d \in Client : d # c => task'[d] = task[d],
         dirty' \/ \A n \in Name : live'[n] = Overlay(cfg', eph')[n] \/ Behind(c, n)'
  PROVE  LiveFacts'
  <1>1. lock = c
    BY DEF LockHeld, Holding
  <1>2. \A d \in Client : task'[d].strip => d = c
    BY <1>1, OthersUnmarked
  <1> QED
    BY <1>1, <1>2 DEF LiveFacts

(* What the request under way has not swapped in, seen from the request. *)
LEMMA UnderWayLive ==
  ASSUME LockHeld, LiveFacts, NEW c \in Client, task[c].pc \in Editing, ~dirty, NEW n \in Name
  PROVE  live[n] = Overlay(cfg, eph)[n] \/ Behind(c, n)
  BY DEF LockHeld, LiveFacts, Holding

LEMMA RequestLive ==
  ASSUME OwnInv, LockHeld, LiveFacts, NEW c \in Client, RequestStep(c)
  PROVE  LiveFacts'
  <1> USE RegistryAssumption
  <1>t. TypeOK /\ task[c] \in TaskType
    BY DEF OwnInv, TypeOK
  <1>0. task[c].pc \in {"waiting", "idle"} => task[c].pc \notin Holding /\ ~task[c].strip
    BY <1>t DEF LiveFacts, Editing, Holding, TaskType
  <1>d. ASSUME NEW t, StartEdit(c, t), open[c] # "open", lock = NoClient PROVE LiveFacts'
    BY <1>d, <1>t, StartDropped, IdleBlank, FreshLive
  <1>1. ASSUME NEW verb, NEW n, NEW arg, Request(c, verb, n, arg) PROVE LiveFacts'
    BY <1>0, <1>1, <1>t, RequestBlank, QuietLive DEF Request, stores, history
  <1>2. ASSUME RegisterEphemeral(c) PROVE LiveFacts'
    <2>1. /\ lock = NoClient /\ UNCHANGED <<cfg, live, dirty>> /\ task[c].pc = "waiting"
          /\ task[c].name \in Name
      BY <1>2 DEF RegisterEphemeral, Turn, OwnInv, TaskFacts
    <2>2. CASE Ends(c) /\ UNCHANGED <<eph, lock>>
      BY <1>0, <1>t, <2>1, <2>2, EndsBlank, IdleBlank, QuietLive
    <2>3. CASE /\ eph' = [eph EXCEPT ![task[c].name] = task[c].arg] /\ lock' = c
               /\ task' = [task EXCEPT ![c].pc = "inserted"]
      <3>1. /\ task'[c].pc = "inserted" /\ task'[c].name = task[c].name
            /\ (task'[c].strip <=> task[c].strip)
            /\ \A d \in Client : d # c => task'[d] = task[d]
        BY <1>t, <2>3 DEF TypeOK, TaskType
      <3>2. \A n \in Name : n # task'[c].name => eph'[n] = eph[n]
        BY <1>t, <2>3, <3>1 DEF TypeOK, Registry
      <3> QED
        BY <1>0, <2>1, <2>3, <3>1, <3>2, StartLive
    <2> QED
      BY <1>2, <2>2, <2>3 DEF RegisterEphemeral
  <1>f. ASSUME FinishEphemeral(c) PROVE LiveFacts'
    <2>1. /\ task[c].pc = "inserted" /\ UNCHANGED <<cfg, eph>> /\ Reloads(eph) /\ Ends(c)
      BY <1>f DEF FinishEphemeral, Releases
    <2>2. lock = c
      BY <2>1 DEF LockHeld, Holding
    <2> QED
      BY <1>t, <2>1, <2>2, EndsBlank, IdleBlank, ReloadsLive, FreshLive
  <1>3. ASSUME StartRegister(c) \/ StartGrant(c) PROVE LiveFacts'
    <2>1. /\ task[c].pc = "waiting" /\ lock = NoClient /\ task[c].name \in Name
          /\ UNCHANGED <<cfg, eph, live>>
      BY <1>3 DEF StartRegister, StartGrant, Turn, stores, OwnInv, TaskFacts
    <2>2. CASE Ends(c) /\ UNCHANGED <<lock, dirty>>
      BY <1>0, <1>t, <2>1, <2>2, EndsBlank, IdleBlank, QuietLive
    <2>3. CASE StartEdit(c, task[c]) /\ open[c] = "open"
      <3>1. /\ task'[c].pc = "job" /\ task'[c].name = task[c].name /\ ~task'[c].strip
            /\ lock' = c /\ dirty' = dirty /\ \A d \in Client : d # c => task'[d] = task[d]
        BY <1>0, <1>t, <2>1, <2>3, StartMarks
      <3> QED
        BY <2>1, <3>1, StartLive
    <2> QED
      BY <1>3, <1>d, <2>1, <2>2, <2>3 DEF StartRegister, StartGrant
  <1>4. ASSUME StartUnregister(c) PROVE LiveFacts'
    <2>1. /\ task[c].pc = "waiting" /\ lock = NoClient /\ task[c].name \in Name
          /\ UNCHANGED <<cfg, live>> /\ eph' = [eph EXCEPT ![task[c].name] = Absent]
      BY <1>4 DEF StartUnregister, Turn, OwnInv, TaskFacts
    <2>2. /\ \A n \in Name : n # task[c].name => eph'[n] = eph[n]
          /\ eph[task[c].name] = Absent => eph' = eph
      BY <1>t, <2>1 DEF TypeOK, Registry
    <2>3. CASE open[c] = "open"
      <3>1. /\ task'[c].pc = "job" /\ task'[c].name = task[c].name
            /\ task'[c].verb = "unregister" /\ lock' = c /\ dirty' = dirty
            /\ task'[c].strip <=> (eph[task[c].name] # Absent)
            /\ \A d \in Client : d # c => task'[d] = task[d]
        BY <1>4, <1>t, <2>3, UnregisterMarks
      <3> QED
        BY <2>1, <2>2, <3>1, StartLive
    <2> QED
      BY <1>4, <1>d, <2>1, <2>3 DEF StartUnregister
  <1>5. ASSUME StartRevoke(c) PROVE LiveFacts'
    <2> DEFINE n == task[c].name
               hit == eph[n] # Absent /\ eph[n] \cap task[c].arg # {}
    <2>1. /\ task[c].pc = "waiting" /\ lock = NoClient /\ n \in Name
          /\ UNCHANGED <<cfg, live>>
          /\ eph' = IF hit THEN [eph EXCEPT ![n] = @ \ task[c].arg] ELSE eph
      BY <1>5 DEF StartRevoke, Turn, OwnInv, TaskFacts, history
    <2>2. /\ \A m \in Name : m # n => eph'[m] = eph[m]
          /\ ~hit => eph' = eph
      BY <1>t, <2>1 DEF TypeOK, Registry
    <2>3. hit => eph'[n] # Absent
      <3>1. eph[n] # Absent => eph[n] \ task[c].arg \in SUBSET Principal
        BY <1>t, <2>1 DEF TypeOK, Registry
      <3> QED
        BY <1>t, <2>1, <3>1 DEF TypeOK, Registry
    <2>4. CASE open[c] = "open"
      <3>1. /\ task'[c].pc = "job" /\ task'[c].name = n /\ task'[c].verb = "revoke"
            /\ lock' = c /\ dirty' = dirty
            /\ task'[c].strip <=> hit
            /\ \A d \in Client : d # c => task'[d] = task[d]
        BY <1>5, <1>t, <2>4, RevokeMarks
      <3> HIDE DEF hit
      <3> QED
        BY <2>1, <2>2, <2>3, <3>1, StartLive
    <2> QED
      BY <1>5, <1>d, <2>1, <2>4 DEF StartRevoke
  <1> QED
    BY <1>1, <1>2, <1>f, <1>3, <1>4, <1>5 DEF RequestStep

(* The rest of service_allow_revoke makes the registry current before it      *)
(* severs anybody.                                                            *)
LEMMA RevokeSwapsLive ==
  ASSUME OwnInv, LockHeld, LiveFacts, NEW c \in Client, RevokeSwaps(c)
  PROVE  LiveFacts'
  <1> USE RegistryAssumption
  <1>t. /\ TypeOK /\ task[c] \in TaskType /\ task[c].name \in Name
        /\ task[c].pc = "wrote" /\ task[c].verb = "revoke" /\ task[c].pc \in Editing
        /\ UNCHANGED <<cfg, eph>> /\ lock = c
    BY DEF OwnInv, TypeOK, TaskFacts, RevokeSwaps, Editing, Holding, LockHeld
  <1>1. dirty' \/ \A n \in Name : live'[n] = Overlay(cfg', eph')[n]
    <2>1. CASE task[c].moved
      BY <1>t, <2>1, ReloadsLive DEF RevokeSwaps
    <2>2. CASE ~task[c].moved /\ task[c].strip
      <3>1. eph[task[c].name] # Absent /\ AppliesEphemeral(task[c].name, eph) /\ eph \in Registry
        BY <1>t, <2>2 DEF LiveFacts, RevokeSwaps, TypeOK
      <3>2. ~dirty => \A m \in Name : m # task[c].name => live[m] = Overlay(cfg, eph)[m]
        BY <1>t, <2>2, UnderWayLive DEF Behind
      <3> QED
        BY <1>t, <3>1, <3>2, AppliesLive
    <2>3. CASE ~task[c].moved /\ ~task[c].strip
      <3>1. UNCHANGED <<live, dirty>>
        BY <2>3 DEF RevokeSwaps
      <3> QED
        BY <1>t, <2>3, <3>1, UnderWayLive DEF Behind
    <2> QED
      BY <2>1, <2>2, <2>3
  <1>2. CASE Releases(c)
    BY <1>1, <1>2, <1>t, EndsBlank, IdleBlank, FreshLive DEF Releases
  <1>3. CASE task' = [task EXCEPT ![c].pc = "sever"] /\ lock' = lock
    BY <1>1, <1>3, <1>t, SeverMarks, MoveLive DEF Editing
  <1> QED
    BY <1>2, <1>3 DEF RevokeSwaps

(* The rest of service_allow_grant: the shortcut is taken only when the file  *)
(* did not move.                                                              *)
LEMMA FinishGrantLive ==
  ASSUME OwnInv, LockHeld, LiveFacts, NEW c \in Client, FinishGrant(c)
  PROVE  LiveFacts'
  <1> USE RegistryAssumption
  <1> DEFINE n == task[c].name
             moves == eph[n] # Absent /\ ~(task[c].arg \subseteq eph[n])
             e == IF moves THEN [eph EXCEPT ![n] = @ \cup task[c].arg] ELSE eph
  <1>t. /\ TypeOK /\ task[c] \in TaskType /\ n \in Name /\ task[c].arg \in SUBSET Principal
        /\ task[c].pc = "wrote" /\ task[c].verb = "grant" /\ task[c].pc \in Editing
        /\ cfg' = cfg /\ eph' = e /\ lock = c /\ ~task[c].strip
    BY DEF OwnInv, TypeOK, TaskType, TaskFacts, FinishGrant, Editing, Holding, LockHeld, LiveFacts
  <1>e. e \in Registry /\ (moves => e[n] # Absent) /\ \A m \in Name : m # n => e[m] = eph[m]
    <2>1. CASE moves
      <3>1. eph[n] \cup task[c].arg \in SUBSET Principal
        BY <1>t, <2>1 DEF TypeOK, Registry
      <3> QED
        BY <1>t, <2>1, <3>1 DEF TypeOK, Registry
    <2>2. CASE ~moves
      BY <1>t, <2>2 DEF TypeOK
    <2> QED
      BY <2>1, <2>2
  <1>b. ~task[c].moved /\ ~dirty => \A m \in Name : live[m] = Overlay(cfg, eph)[m]
    BY <1>t, UnderWayLive DEF Behind
  <1>s. CASE task[c].moved
    <2>1. Reloads(e)
      BY <1>s DEF FinishGrant
    <2> HIDE DEF e
    <2> QED
      BY <2>1, <1>t, ReloadsLive, EndsBlank, IdleBlank, FreshLive DEF FinishGrant, Releases
  <1>a. CASE ~task[c].moved /\ moves
    <2>1. AppliesEphemeral(n, e)
      BY <1>a DEF FinishGrant
    <2> HIDE DEF e, moves
    <2>2. ~dirty => \A m \in Name : m # n => live[m] = Overlay(cfg, e)[m]
      BY <1>a, <1>b, <1>e DEF Overlay
    <2>3. dirty' \/ \A m \in Name : live'[m] = Overlay(cfg', eph')[m]
      BY <1>a, <1>e, <1>t, <2>1, <2>2, AppliesLive
    <2> QED
      BY <2>3, <1>t, EndsBlank, IdleBlank, FreshLive DEF FinishGrant, Releases
  <1>n. CASE ~task[c].moved /\ ~moves
    <2>1. UNCHANGED <<live, dirty>> /\ e = eph
      BY <1>n DEF FinishGrant
    <2> HIDE DEF e, moves
    <2>2. dirty' \/ \A m \in Name : live'[m] = Overlay(cfg', eph')[m]
      BY <1>n, <1>b, <1>t, <2>1
    <2> QED
      BY <2>2, <1>t, EndsBlank, IdleBlank, FreshLive DEF FinishGrant, Releases
  <1> QED
    BY <1>s, <1>a, <1>n

LEMMA EditLive ==
  ASSUME OwnInv, LockHeld, LiveFacts, NEW c \in Client, EditStep(c)
  PROVE  LiveFacts'
  <1> USE RegistryAssumption
  <1>t. TypeOK /\ task[c] \in TaskType
    BY DEF OwnInv, TypeOK
  <1>0. ASSUME task[c].pc \in Editing
        PROVE  /\ lock = c
               /\ ~dirty => \A n \in Name : live[n] = Overlay(cfg, eph)[n] \/ Behind(c, n)
    BY <1>0, UnderWayLive DEF LockHeld, Holding
  <1>1. ASSUME EditReads(c) PROVE LiveFacts'
    <2>1. /\ task[c].pc = "job" /\ task[c].pc \in Editing
          /\ UNCHANGED <<lock, cfg, eph, live, dirty>>
      BY <1>1 DEF EditReads, stores, history, Editing
    <2>2. /\ task'[c].pc = "read" /\ task'[c].name = task[c].name
          /\ task'[c].verb = task[c].verb /\ (task'[c].strip <=> task[c].strip)
          /\ \A d \in Client : d # c => task'[d] = task[d]
      BY <1>1, <1>t, ReadsMarks
    <2>3. \A n \in Name : Behind(c, n) => Behind(c, n)'
      BY <2>1, <2>2 DEF Behind
    <2> QED
      BY <1>0, <2>1, <2>2, <2>3, MoveLive DEF Editing
  <1>2. ASSUME EditWrites(c) PROVE LiveFacts'
    <2>1. /\ task[c].pc = "read" /\ task[c].pc \in Editing
          /\ UNCHANGED <<lock, eph, live, dirty>>
      BY <1>2 DEF EditWrites, history, Editing
    <2>2. /\ task'[c].pc = "wrote" /\ task'[c].name = task[c].name
          /\ task'[c].verb = task[c].verb /\ (task'[c].strip <=> task[c].strip)
          /\ \A d \in Client : d # c => task'[d] = task[d]
          /\ ~task'[c].moved => cfg' = cfg
      BY <1>2, <1>t, WritesMarks DEF EditWrites
    <2>3. \A n \in Name : Behind(c, n) => Behind(c, n)'
      BY <2>1, <2>2 DEF Behind
    <2>4. task'[c].moved => \A n \in Name : Behind(c, n)'
      BY <2>2 DEF Behind
    <2> QED
      BY <1>0, <2>1, <2>2, <2>3, <2>4, MoveLive DEF Editing
  <1>3. ASSUME Releases(c), task[c].pc \in Editing,
               dirty' \/ \A n \in Name : live'[n] = Overlay(cfg', eph')[n]
        PROVE  LiveFacts'
    BY <1>0, <1>3, <1>t, EndsBlank, IdleBlank, FreshLive DEF Releases
  <1>4. ASSUME EditFails(c) PROVE LiveFacts'
    <2>1. /\ task[c].pc \in {"job", "read"} /\ Releases(c) /\ UNCHANGED <<cfg, eph, live>>
          /\ dirty' = (dirty \/ task[c].strip)
      BY <1>4 DEF EditFails, stores
    <2>2. ~dirty' => \A n \in Name : ~Behind(c, n)
      BY <2>1 DEF Behind
    <2> QED
      BY <1>0, <1>3, <2>1, <2>2 DEF Editing
  <1>5. ASSUME FinishRegister(c) PROVE LiveFacts'
    BY <1>3, <1>5, ReloadsLive DEF FinishRegister, Editing
  <1>6. ASSUME FinishUnregister(c) PROVE LiveFacts'
    <2>1. /\ task[c].pc = "wrote" /\ task[c].pc \in Editing /\ Releases(c) /\ UNCHANGED <<cfg, eph>>
          /\ IF task[c].strip \/ task[c].moved THEN Reloads(eph) ELSE UNCHANGED <<live, dirty>>
      BY <1>6 DEF FinishUnregister, Editing
    <2>2. CASE task[c].strip \/ task[c].moved
      BY <1>3, <2>1, <2>2, ReloadsLive
    <2>3. CASE ~(task[c].strip \/ task[c].moved)
      BY <1>0, <1>3, <2>1, <2>3 DEF Behind
    <2> QED
      BY <2>2, <2>3
  <1>7. ASSUME RevokeSevers(c) PROVE LiveFacts'
    <2>1. task[c].pc = "sever" /\ Releases(c) /\ UNCHANGED <<cfg, eph, live, dirty>>
      BY <1>7 DEF RevokeSevers
    <2> QED
      BY <1>0, <1>3, <2>1 DEF Behind, Editing
  <1> QED
    BY <1>1, <1>2, <1>4, <1>5, <1>6, <1>7, FinishGrantLive, RevokeSwapsLive DEF EditStep

LEMMA LiveStep ==
  ASSUME OwnInv, LockHeld, LiveFacts, [Next]_vars
  PROVE  LiveFacts'
  <1> USE RegistryAssumption
  <1>t. TypeOK
    BY DEF OwnInv
  <1>4. ASSUME UNCHANGED <<cfg, eph, live, lock, task, dirty>> PROVE LiveFacts'
    BY <1>4 DEF LiveFacts, Behind
  <1>1. ASSUME NEW c \in Client, NEW polled \in BOOLEAN, Close(c, polled) PROVE LiveFacts'
    <2>0. CASE polled
      <3>1. UNCHANGED <<cfg, eph, live, lock, task>> /\ task[c].pc \in {"waiting", "inserted"}
        BY <1>1, <2>0 DEF Close, stores
      <3>2. dirty' = dirty
        BY <1>1, <1>t, <3>1 DEF Close, TypeOK
      <3> QED
        BY <1>4, <3>1, <3>2
    <2>1. CASE ~polled
      <3>1. /\ ~task'[c].strip /\ \A d \in Client : d # c => task'[d] = task[d]
            /\ UNCHANGED <<cfg, eph, live>> /\ lock' = IF lock = c THEN NoClient ELSE lock
            /\ task[c].pc # "inserted"
        BY <1>1, <1>t, <2>1, EndsBlank, IdleBlank DEF Close, stores
      <3>2. CASE task[c].pc \in Editing
        BY <1>1, <3>1, <3>2, FreshLive DEF Close, LockHeld, Editing, Holding
      <3>3. CASE task[c].pc \notin Editing
        <4>1. lock' = lock /\ task[c].pc \notin Holding
          BY <3>1, <3>3 DEF LockHeld, Holding
        <4>2. dirty' = dirty
          BY <1>1, <1>t, <3>3 DEF Close, Editing, TypeOK
        <4> QED
          BY <3>1, <4>1, <4>2, QuietLive
      <3> QED
        BY <3>2, <3>3
    <2> QED
      BY <2>0, <2>1
  <1>2. ASSUME NEW c \in Client, Teardown(c) PROVE LiveFacts'
    <2>1. UNCHANGED <<cfg, lock, task>> /\ task[c].pc \in {"idle", "waiting", "inserted"}
      BY <1>2 DEF Teardown, OwnInv, TaskFacts
    <2>2. ~task[c].strip
      BY <2>1 DEF LiveFacts, Editing
    <2>3. CASE UNCHANGED <<eph, live, dirty>>
      BY <1>4, <2>1, <2>3
    <2>4. CASE lock = NoClient /\ \E e : eph' = e /\ Reloads(e)
      BY <2>1, <2>2, <2>4, ReloadsLive, FreshLive
    <2> QED
      BY <1>2, <2>3, <2>4 DEF Teardown
  <1>3. ASSUME NEW t \in orphans, OrphanWrites(t) PROVE LiveFacts'
    BY <1>3 DEF OrphanWrites, LiveFacts
  <1>5. CASE \/ \E t \in orphans : OrphanReads(t)
             \/ \E n \in Name, p \in Principal : Admit(n, p)
             \/ \E x \in sess : EndSession(x)
             \/ FileChanges
             \/ UNCHANGED vars
    BY <1>4, <1>5 DEF OrphanReads, Admit, EndSession, FileChanges, vars, stores, history
  <1> QED
    BY <1>1, <1>2, <1>3, <1>5, RequestLive, EditLive DEF Next

(* Between verbs the live registry is what the file and the overlay say, or a *)
(* verb was stopped before its reload and `dirty' says so: the shortcut of    *)
(* apply_ephemeral_allow never differs from a reload, through hang-ups,       *)
(* orphaned edits and a file that does not load.                              *)
THEOREM RegistryCurrent == Spec => []LiveCurrent
  <1>1. Init => LockHeld /\ LiveFacts
    BY IdleBlank, RegistryAssumption DEF Init, LockHeld, LiveFacts, Overlay, Editing, Holding
  <1>2. OwnInv /\ LockHeld /\ LiveFacts => LiveCurrent
    <2> SUFFICES ASSUME OwnInv, LiveFacts, lock = NoClient, ~dirty
                 PROVE  live = Overlay(cfg, eph)
      BY DEF LiveCurrent
    <2>1. \A n \in Name : live[n] = Overlay(cfg, eph)[n]
      BY FreeLive
    <2>2. live \in [Name -> {Absent} \cup SUBSET Principal]
      BY DEF OwnInv, TypeOK, Registry
    <2> QED
      BY <2>1, <2>2 DEF Overlay
  <1> QED
    BY <1>1, <1>2, OwnInvariance, LockStep, LiveStep, PTL DEF Spec

-----------------------------------------------------------------------------
(* Revocations, while clients stay connected. *)

(* A revoked entry is off a list that has only lost entries, and off one that *)
(* gained others.                                                             *)
LEMMA OverlayOff ==
  ASSUME NEW c \in Registry, NEW e \in Registry, NEW n \in Name, NEW p,
         Off(c, n, p), Off(e, n, p)
  PROVE  Off(Overlay(c, e), n, p)
  BY DEF Off, Overlay

(* An edit puts an entry on a list only if it was asked to, and a revocation  *)
(* takes its own off.                                                         *)
LEMMA EditOff ==
  ASSUME NEW t \in TaskType, t.name \in Name, t.verb \in FileVerbs, NEW base \in Registry,
         NEW n \in Name, NEW p \in Principal
  PROVE  /\ Off(base, n, p) /\ ~(t.verb \in {"register", "grant"} /\ t.name = n /\ p \in t.arg)
               => Off(Edit(t, base), n, p)
         /\ t.verb = "revoke" /\ p \in t.arg => Off(Edit(t, base), t.name, p)
  <1> USE RegistryAssumption DEF Registry, FileVerbs, Off
  <1> DEFINE old == IF base[t.name] = Absent THEN {} ELSE base[t.name]
  <1>1. old \in SUBSET Principal /\ (base[t.name] # Absent => old = base[t.name])
    OBVIOUS
  <1> HIDE DEF old
  <1>2. CASE t.verb # "register" /\ base[t.name] = Absent
    BY <1>2 DEF Edit
  <1>3. CASE t.verb \in {"register", "grant"} /\ (t.verb = "grant" => base[t.name] # Absent)
    <2>1. Edit(t, base) = [base EXCEPT ![t.name] = old \cup t.arg]
      BY <1>3 DEF Edit, old
    <2>2. p \in old => base[t.name] # Absent /\ p \in base[t.name]
      BY DEF old
    <2> QED
      BY <1>3, <2>1, <2>2
  <1>4. CASE t.verb = "revoke" /\ base[t.name] # Absent
    <2>1. Edit(t, base) = [base EXCEPT ![t.name] = old \ t.arg]
      BY <1>4 DEF Edit, old
    <2> QED
      BY <1>1, <1>4, <2>1
  <1>5. CASE t.verb = "unregister" /\ base[t.name] # Absent
    <2>1. Edit(t, base) = [base EXCEPT ![t.name] = Absent]
      BY <1>5 DEF Edit
    <2> QED
      BY <1>5, <2>1
  <1> QED
    BY <1>2, <1>3, <1>4, <1>5

(* The steps that end the request of c, or take none: no request of another   *)
(* client is under way, and what stands revoked stays barred.                 *)
LEMMA EndedRevokes ==
  ASSUME OwnInv, LockHeld, RevokeFacts, LockHeld', NEW c \in Client,
         \A d \in Client : d # c => task'[d] = task[d],
         lock' = NoClient,
         \A r \in revoked' : r.moved => Barred(r.name, r.prin)'
  PROVE  RevokeFacts'
  <1> USE RegistryAssumption
  <1>1. \A d \in Client : task'[d].pc \notin Editing
    BY DEF LockHeld, Holding
  <1> QED
    BY <1>1 DEF RevokeFacts, Barred, Editing

(* The steps of a request that has not started, and of the control loop. *)
LEMMA QuietRevokes ==
  ASSUME OwnInv, LockHeld, RevokeFacts, NEW c \in Client,
         \A d \in Client : d # c => task'[d] = task[d],
         UNCHANGED <<lock, cfg, eph, live, sess, revoked>>,
         task[c].pc \notin Holding, task'[c].pc \notin Editing
  PROVE  RevokeFacts'
  <1> USE RegistryAssumption
  <1>1. \A d \in Client : lock = d => d # c
    BY DEF LockHeld
  <1> QED
    BY <1>1 DEF RevokeFacts, Barred, KeptOut, Off, Editing

(* A request takes the lock: what it was asked to add no longer stands        *)
(* revoked, and a revocation has cleared the ephemeral list.                  *)
LEMMA StartRevokes ==
  ASSUME OwnInv, LockHeld, RevokeFacts, NEW c \in Client, lock = NoClient, lock' = c,
         \A d \in Client : d # c => task'[d] = task[d],
         task'[c].pc = "job", UNCHANGED <<cfg, live, sess>>,
         revoked' \subseteq revoked,
         \A n \in Name, p \in Principal : Off(eph, n, p) => Off(eph', n, p),
         task'[c].verb \in {"register", "grant"} =>
             \A r \in revoked' : r.name # task'[c].name \/ r.prin \notin task'[c].arg,
         task'[c].verb = "revoke" => \A p \in task'[c].arg : Off(eph', task'[c].name, p)
  PROVE  RevokeFacts'
  <1> USE RegistryAssumption
  <1>1. \A d \in Client : d # c => task'[d].pc \notin Editing
    BY DEF LockHeld, Holding
  <1>2. \A r \in revoked : r.name \in Name /\ r.prin \in Principal
    BY DEF OwnInv, TypeOK
  <1> QED
    BY <1>1, <1>2 DEF RevokeFacts, Barred, KeptOut, Editing, Off

(* A reload, or the shortcut of apply_ephemeral_allow, keeps out whoever the  *)
(* file, the ephemeral lists and the live registry leave out.                 *)
LEMMA ReloadsOff ==
  ASSUME TypeOK, NEW e \in Registry, Reloads(e), NEW n \in Name, NEW p \in Principal,
         Off(cfg, n, p), Off(e, n, p)
  PROVE  (bad => Off(live, n, p)) => Off(live', n, p)
  <1>1. Off(Overlay(cfg, e), n, p)
    BY OverlayOff DEF TypeOK
  <1> QED
    BY <1>1 DEF Reloads, Off

LEMMA AppliesOff ==
  ASSUME TypeOK, NEW m \in Name, NEW e \in Registry, AppliesEphemeral(m, e),
         NEW n \in Name, NEW p \in Principal, Off(cfg, n, p), Off(e, n, p)
  PROVE  /\ Off(live, n, p) => Off(live', n, p)
         /\ m = n /\ (live[m] # Absent \/ ~bad) => Off(live', n, p)
  <1>1. CASE live[m] # Absent
    <2>1. live' = [live EXCEPT ![m] = e[m]]
      BY <1>1 DEF AppliesEphemeral
    <2> QED
      BY <1>1, <2>1 DEF TypeOK, Registry, Off
  <1>2. CASE live[m] = Absent
    BY <1>2, ReloadsOff DEF AppliesEphemeral
  <1> QED
    BY <1>1, <1>2

LEMMA RequestRevokes ==
  ASSUME OwnInv, LockFacts, LockHeld, LockHeld', RevokeFacts, NEW c \in Client, RequestStep(c)
  PROVE  RevokeFacts'
  <1> USE RegistryAssumption
  <1>t. TypeOK /\ task[c] \in TaskType /\ eph \in Registry
    BY DEF OwnInv, TypeOK
  <1>i. IdleTask.pc \notin Editing
    BY IdleBlank DEF Holding
  <1>r. \A r \in revoked : r.name \in Name /\ r.prin \in Principal
    BY <1>t DEF TypeOK
  <1>o. task[c].pc = "waiting" => open[c] = "open" /\ task[c].pc \notin Holding
    BY DEF LockFacts, Editing, Holding
  <1>1. ASSUME NEW verb, NEW n, NEW arg, Request(c, verb, n, arg) PROVE RevokeFacts'
    BY <1>1, <1>t, RequestBlank, QuietRevokes DEF Request, stores, history, Editing, Holding
  <1>2. ASSUME RegisterEphemeral(c) PROVE RevokeFacts'
    <2> DEFINE n == task[c].name
    <2>1. /\ lock = NoClient /\ UNCHANGED <<cfg, live, sess>> /\ task[c].pc = "waiting"
          /\ n \in Name /\ task[c].arg \in SUBSET Principal
          /\ task[c].verb = "register_ephemeral"
      BY <1>2, <1>t DEF RegisterEphemeral, Turn, OwnInv, TaskFacts, TaskType
    <2>2. CASE Ends(c) /\ UNCHANGED <<eph, lock, revoked>>
      <3>1. task'[c] = IdleTask /\ \A d \in Client : d # c => task'[d] = task[d]
        BY <1>t, <2>2, EndsBlank
      <3> QED
        BY <1>i, <1>o, <2>1, <2>2, <3>1, QuietRevokes
    <2>3. CASE /\ eph' = [eph EXCEPT ![n] = task[c].arg] /\ lock' = c
               /\ task' = [task EXCEPT ![c].pc = "inserted"]
               /\ revoked' = Regranted(n, task[c].arg)
      <3>1. /\ task'[c].pc = "inserted" /\ task'[c].verb = "register_ephemeral"
            /\ \A d \in Client : d # c => task'[d] = task[d]
        BY <1>t, <2>1, <2>3 DEF TypeOK, TaskType
      <3>2. ASSUME NEW r \in revoked', r.moved PROVE Barred(r.name, r.prin)'
        <4>1. /\ r \in revoked /\ r.name \in Name /\ r.prin \in Principal
              /\ r.name # n \/ r.prin \notin task[c].arg
          BY <1>r, <2>3 DEF Regranted
        <4>2. KeptOut(r.name, r.prin) /\ Off(cfg, r.name, r.prin) /\ Off(eph, r.name, r.prin)
          BY <3>2, <4>1 DEF RevokeFacts, Barred
        <4>3. Off(eph', r.name, r.prin)
          BY <1>t, <2>1, <2>3, <4>1, <4>2 DEF Off, Registry
        <4> QED
          BY <2>1, <4>2, <4>3 DEF Barred, KeptOut, Off
      <3>3. \A d \in Client : task'[d].pc \notin Editing
        BY <2>1, <3>1 DEF LockHeld, Editing, Holding
      <3> QED
        BY <2>3, <3>1, <3>2, <3>3 DEF RevokeFacts, Barred, Editing
    <2> QED
      BY <1>2, <2>2, <2>3 DEF RegisterEphemeral
  <1>f. ASSUME FinishEphemeral(c) PROVE RevokeFacts'
    <2>1. /\ Ends(c) /\ lock' = NoClient /\ UNCHANGED <<cfg, eph, sess, revoked>> /\ Reloads(eph)
      BY <1>f DEF FinishEphemeral, Releases
    <2>2. ASSUME NEW r \in revoked', r.moved PROVE Barred(r.name, r.prin)'
      <3>1. Barred(r.name, r.prin) /\ r.name \in Name /\ r.prin \in Principal
        BY <1>r, <2>1, <2>2 DEF RevokeFacts
      <3>2. Off(live', r.name, r.prin)
        BY <1>t, <2>1, <3>1, ReloadsOff DEF Barred, KeptOut, Off
      <3> QED
        BY <2>1, <3>1, <3>2 DEF Barred, KeptOut, Off
    <2>3. \A d \in Client : d # c => task'[d] = task[d]
      BY <1>t, <2>1, EndsBlank
    <2> QED
      BY <2>1, <2>2, <2>3, EndedRevokes
  <1>3. ASSUME StartRegister(c) \/ StartGrant(c) PROVE RevokeFacts'
    <2>1. task[c].pc = "waiting" /\ lock = NoClient /\ UNCHANGED <<cfg, eph, live, sess>>
      BY <1>3 DEF StartRegister, StartGrant, Turn, stores
    <2>2. CASE Ends(c) /\ lock' = lock /\ revoked' = revoked
      BY <1>i, <1>o, <1>t, <2>1, <2>2, EndsBlank, QuietRevokes DEF Editing
    <2>3. CASE StartEdit(c, task[c]) /\ revoked' = Regranted(task[c].name, task[c].arg)
               /\ task[c].verb # "revoke"
      <3>1. /\ task'[c].pc = "job" /\ task'[c].name = task[c].name /\ task'[c].arg = task[c].arg
            /\ task'[c].verb = task[c].verb
            /\ lock' = c /\ \A d \in Client : d # c => task'[d] = task[d]
        BY <1>o, <1>t, <2>1, <2>3, StartMarks
      <3> QED
        BY <2>1, <2>3, <3>1, StartRevokes DEF Regranted
    <2> QED
      BY <1>3, <2>2, <2>3 DEF StartRegister, StartGrant, Turn
  <1>4. ASSUME StartUnregister(c) PROVE RevokeFacts'
    <2>1. /\ lock = NoClient /\ task[c].name \in Name /\ UNCHANGED <<cfg, live, sess, revoked>>
          /\ eph' = [eph EXCEPT ![task[c].name] = Absent] /\ open[c] = "open"
      BY <1>4, <1>o DEF StartUnregister, Turn, OwnInv, TaskFacts
    <2>2. \A n \in Name, p \in Principal : Off(eph, n, p) => Off(eph', n, p)
      BY <1>t, <2>1 DEF TypeOK, Registry, Off
    <2> QED
      BY <1>4, <1>t, <2>1, <2>2, UnregisterMarks, StartRevokes
  <1>5. ASSUME StartRevoke(c) PROVE RevokeFacts'
    <2> DEFINE n == task[c].name
               hit == eph[n] # Absent /\ eph[n] \cap task[c].arg # {}
    <2>1. /\ lock = NoClient /\ n \in Name /\ UNCHANGED <<cfg, live, sess, revoked>>
          /\ eph' = (IF hit THEN [eph EXCEPT ![n] = @ \ task[c].arg] ELSE eph)
          /\ open[c] = "open"
      BY <1>5, <1>o DEF StartRevoke, Turn, OwnInv, TaskFacts
    <2>2. \A m \in Name, p \in Principal : Off(eph, m, p) => Off(eph', m, p)
      BY <1>t, <2>1 DEF TypeOK, Registry, Off
    <2>3. \A p \in task[c].arg : Off(eph', n, p)
      BY <1>t, <2>1 DEF TypeOK, Registry, Off
    <2>4. /\ task'[c].pc = "job" /\ task'[c].name = n /\ task'[c].verb = "revoke" /\ lock' = c
          /\ task'[c].arg = task[c].arg
          /\ \A d \in Client : d # c => task'[d] = task[d]
      BY <1>5, <1>t, <2>1, RevokeMarks
    <2> QED
      BY <2>1, <2>2, <2>3, <2>4, StartRevokes
  <1> QED
    BY <1>1, <1>2, <1>f, <1>3, <1>4, <1>5 DEF RequestStep

(* The write of an edit, which started from the file as it still is. *)
LEMMA EditWritesRevokes ==
  ASSUME OwnInv, LockFacts, LockHeld, RevokeFacts, NEW c \in Client, EditWrites(c)
  PROVE  RevokeFacts'
  <1> USE RegistryAssumption
  <1>0. /\ TypeOK /\ task[c] \in TaskType /\ task[c].name \in Name /\ task[c].verb \in FileVerbs
        /\ task[c].pc = "read" /\ task[c].base = cfg /\ cfg \in Registry /\ lock = c
    BY DEF EditWrites, OwnInv, TypeOK, TaskFacts, Editing, Holding, LockFacts
  <1>1. cfg' = cfg \/ cfg' = Edit(task[c], cfg)
    BY <1>0 DEF EditWrites
  <1>2. cfg' = Edit(task[c], cfg) \/ Edit(task[c], cfg) = cfg
    BY <1>0 DEF EditWrites
  <1>3. /\ task'[c].pc = "wrote" /\ task'[c].name = task[c].name /\ task'[c].verb = task[c].verb
        /\ task'[c].arg = task[c].arg /\ \A d \in Client : d # c => task'[d] = task[d]
    BY <1>0, WritesMarks
  <1>4. UNCHANGED <<lock, eph, live, sess, revoked>>
    BY DEF EditWrites, history
  <1>5. ASSUME NEW r \in revoked, r.moved
        PROVE  Barred(r.name, r.prin)'
    <2>1. /\ Barred(r.name, r.prin) /\ r.name \in Name /\ r.prin \in Principal
          /\ ~(task[c].verb \in {"register", "grant"} /\ task[c].name = r.name /\ r.prin \in task[c].arg)
      BY <1>0, <1>5 DEF RevokeFacts, TypeOK
    <2>2. Off(cfg', r.name, r.prin)
      BY <1>0, <1>1, <2>1, EditOff DEF Barred
    <2> QED
      BY <1>4, <2>1, <2>2 DEF Barred, KeptOut, Off
  <1>6. ASSUME task[c].verb = "revoke", NEW p \in task[c].arg
        PROVE  Off(cfg', task[c].name, p) /\ Off(eph', task[c].name, p)
    <2>1. p \in Principal
      BY <1>0 DEF TaskType
    <2>2. Off(Edit(task[c], cfg), task[c].name, p)
      BY <1>0, <1>6, <2>1, EditOff
    <2> QED
      BY <1>0, <1>1, <1>2, <1>4, <1>6, <2>2 DEF RevokeFacts, Editing
  <1>7. \A d \in Client : task[d].pc \in Editing => d = c
    BY <1>0 DEF LockHeld, Holding
  <1> QED
    BY <1>0, <1>3, <1>4, <1>5, <1>6, <1>7 DEF RevokeFacts, Editing

(* The rest of service_allow_revoke. *)
LEMMA RevokeSwapsRevokes ==
  ASSUME OwnInv, LockHeld, LockHeld', RevokeFacts, NEW c \in Client, RevokeSwaps(c)
  PROVE  RevokeFacts'
  <1> USE RegistryAssumption
  <1> DEFINE n == task[c].name
  <1>0. /\ TypeOK /\ task[c] \in TaskType /\ n \in Name /\ task[c].arg \in SUBSET Principal
        /\ task[c].pc = "wrote" /\ task[c].verb = "revoke" /\ lock = c /\ eph \in Registry
        /\ UNCHANGED <<cfg, eph, sess>>
    BY DEF RevokeSwaps, OwnInv, TypeOK, TaskFacts, TaskType, Editing, Holding, LockHeld
  <1>1. ASSUME NEW m \in Name, NEW p \in Principal, Barred(m, p)
        PROVE  Barred(m, p)'
    <2>1. Off(live, m, p) => Off(live', m, p)
      BY <1>0, <1>1, ReloadsOff, AppliesOff DEF RevokeSwaps, Barred
    <2> QED
      BY <1>0, <1>1, <2>1 DEF Barred, KeptOut, Off
  <1>2. \A p \in task[c].arg : Off(cfg, n, p) /\ Off(eph, n, p)
    BY <1>0 DEF RevokeFacts, Editing
  <1>3. CASE /\ task[c].moved \/ task[c].strip
             /\ (~task[c].moved /\ live[n] # Absent) \/ ~bad
             /\ task' = [task EXCEPT ![c].pc = "sever"]
             /\ UNCHANGED <<lock, revoked>>
    <2>1. /\ task'[c].pc = "sever" /\ task'[c].name = n /\ task'[c].verb = "revoke"
          /\ task'[c].arg = task[c].arg /\ \A d \in Client : d # c => task'[d] = task[d]
      BY <1>0, <1>3, SeverMarks
    <2>2. ASSUME NEW p \in task[c].arg PROVE Off(live', n, p)
      <3>1. p \in Principal /\ Off(cfg, n, p) /\ Off(eph, n, p)
        BY <1>0, <1>2
      <3>2. CASE task[c].moved
        BY <1>0, <1>3, <3>1, <3>2, ReloadsOff DEF RevokeSwaps
      <3>3. CASE ~task[c].moved
        <4>1. AppliesEphemeral(n, eph)
          BY <1>3, <3>3 DEF RevokeSwaps
        <4> QED
          BY <1>0, <1>3, <3>1, <3>3, <4>1, AppliesOff
      <3> QED
        BY <3>2, <3>3
    <2>3. \A d \in Client : task[d].pc \in Editing => d = c
      BY <1>0 DEF LockHeld, Holding
    <2>4. \A r \in revoked : r.name \in Name /\ r.prin \in Principal
      BY <1>0 DEF TypeOK
    <2>5. \A r \in revoked' : r.moved => Barred(r.name, r.prin)'
      BY <1>1, <1>3, <2>4 DEF RevokeFacts
    <2> QED
      BY <1>0, <1>2, <1>3, <2>1, <2>2, <2>3, <2>5 DEF RevokeFacts, Editing
  <1>4. CASE /\ Releases(c)
             /\ \A r \in revoked' : r \in revoked \/ ~r.moved
    <2>1. lock' = NoClient /\ \A d \in Client : d # c => task'[d] = task[d]
      BY <1>0, <1>4, EndsBlank DEF Releases
    <2>2. \A r \in revoked : r.name \in Name /\ r.prin \in Principal
      BY <1>0 DEF TypeOK
    <2>3. \A r \in revoked' : r.moved => Barred(r.name, r.prin)'
      BY <1>1, <1>4, <2>2 DEF RevokeFacts
    <2> QED
      BY <2>1, <2>3, EndedRevokes
  <1>5. CASE ~(task[c].moved \/ task[c].strip)
    <2>1. ASSUME NEW r \in Acknowledged(task[c]) PROVE ~r.moved
      <3>1. PICK p \in task[c].arg :
               r = [name |-> n, prin |-> p, moved |-> task[c].moved \/ task[c].strip]
        BY DEF Acknowledged
      <3>2. r.moved = (task[c].moved \/ task[c].strip)
        BY <3>1
      <3> QED
        BY <1>5, <3>2
    <2>2. Releases(c) /\ (revoked' = revoked \/ revoked' = revoked \cup Acknowledged(task[c]))
      BY <1>5 DEF RevokeSwaps
    <2>3. \A r \in revoked' : r \in revoked \/ ~r.moved
      BY <2>1, <2>2
    <2> QED
      BY <1>4, <2>2, <2>3
  <1>6. CASE (task[c].moved \/ task[c].strip) /\ Releases(c) /\ revoked' = revoked
    BY <1>4, <1>6
  <1> QED
    BY <1>3, <1>5, <1>6 DEF RevokeSwaps

(* And the severing that ends it. *)
LEMMA RevokeSeversRevokes ==
  ASSUME OwnInv, LockHeld, LockHeld', RevokeFacts, NEW c \in Client, RevokeSevers(c)
  PROVE  RevokeFacts'
  <1> USE RegistryAssumption
  <1>0. /\ TypeOK /\ task[c].name \in Name /\ task[c].arg \in SUBSET Principal
        /\ task[c].pc = "sever" /\ task[c].verb = "revoke" /\ UNCHANGED <<cfg, eph, live>>
        /\ sess' = {x \in sess : x[2] \notin task[c].arg}
        /\ revoked' = revoked \cup Acknowledged(task[c])
    BY DEF RevokeSevers, OwnInv, TypeOK, TaskFacts, TaskType, Editing, RevokeFacts
  <1>1. lock' = NoClient /\ \A d \in Client : d # c => task'[d] = task[d]
    BY <1>0, EndsBlank DEF RevokeSevers, Releases
  <1>2. ASSUME NEW r \in revoked', r.moved PROVE Barred(r.name, r.prin)'
    <2>1. CASE r \in revoked
      <3>1. Barred(r.name, r.prin)
        BY <1>2, <2>1 DEF RevokeFacts
      <3> QED
        BY <1>0, <3>1 DEF Barred, KeptOut, Off
    <2>2. CASE r \in Acknowledged(task[c])
      <3>1. r.name = task[c].name /\ r.prin \in task[c].arg
        BY <2>2 DEF Acknowledged
      <3>2. Off(cfg, r.name, r.prin) /\ Off(eph, r.name, r.prin) /\ Off(live, r.name, r.prin)
        BY <1>0, <3>1 DEF RevokeFacts, Editing
      <3>3. <<r.name, r.prin>> \notin sess'
        BY <1>0, <3>1
      <3> QED
        BY <1>0, <3>2, <3>3 DEF Barred, KeptOut, Off
    <2> QED
      BY <1>0, <2>1, <2>2
  <1> QED
    BY <1>1, <1>2, EndedRevokes

(* The rest of service_allow_grant: what it adds was regranted at its start. *)
LEMMA FinishGrantRevokes ==
  ASSUME OwnInv, LockHeld, LockHeld', RevokeFacts, NEW c \in Client, FinishGrant(c)
  PROVE  RevokeFacts'
  <1> USE RegistryAssumption
  <1> DEFINE n == task[c].name
             moves == eph[n] # Absent /\ ~(task[c].arg \subseteq eph[n])
             e == IF moves THEN [eph EXCEPT ![n] = @ \cup task[c].arg] ELSE eph
  <1>0. /\ TypeOK /\ task[c] \in TaskType /\ n \in Name /\ task[c].arg \in SUBSET Principal
        /\ task[c].pc = "wrote" /\ task[c].verb = "grant" /\ lock = c
        /\ UNCHANGED <<cfg, sess, revoked>> /\ eph' = e
    BY DEF FinishGrant, OwnInv, TypeOK, TaskFacts, TaskType, Editing, Holding, LockHeld
  <1>e. /\ e \in Registry
        /\ \A p \in Principal, m \in Name :
              Off(eph, m, p) /\ (m # n \/ p \notin task[c].arg) => Off(e, m, p)
    <2>1. CASE moves
      <3>1. eph[n] \cup task[c].arg \in SUBSET Principal
        BY <1>0, <2>1 DEF TypeOK, Registry
      <3> QED
        BY <1>0, <2>1, <3>1 DEF TypeOK, Registry, Off
    <2>2. CASE ~moves
      BY <1>0, <2>2 DEF TypeOK
    <2> QED
      BY <2>1, <2>2
  <1>l. Reloads(e) \/ AppliesEphemeral(n, e) \/ live' = live
    BY DEF FinishGrant
  <1> HIDE DEF e, moves
  <1>1. ASSUME NEW r \in revoked', r.moved PROVE Barred(r.name, r.prin)'
    <2>1. /\ r \in revoked /\ Barred(r.name, r.prin) /\ r.name \in Name /\ r.prin \in Principal
          /\ r.name # n \/ r.prin \notin task[c].arg
      BY <1>0, <1>1 DEF RevokeFacts, TypeOK
    <2>2. Off(e, r.name, r.prin) /\ Off(cfg, r.name, r.prin) /\ Off(live, r.name, r.prin)
      BY <1>e, <2>1 DEF Barred, KeptOut, Off
    <2>3. Off(live', r.name, r.prin)
      <3>1. CASE Reloads(e)
        BY <1>0, <1>e, <2>1, <2>2, <3>1, ReloadsOff
      <3>2. CASE AppliesEphemeral(n, e)
        BY <1>0, <1>e, <2>1, <2>2, <3>2, AppliesOff
      <3>3. CASE live' = live
        BY <2>2, <3>3 DEF Off
      <3> QED
        BY <1>l, <3>1, <3>2, <3>3
    <2> QED
      BY <1>0, <2>1, <2>2, <2>3 DEF Barred, KeptOut, Off
  <1>2. lock' = NoClient /\ \A d \in Client : d # c => task'[d] = task[d]
    BY <1>0, EndsBlank DEF FinishGrant, Releases
  <1> QED
    BY <1>1, <1>2, EndedRevokes

LEMMA EditRevokes ==
  ASSUME OwnInv, LockFacts, LockHeld, LockHeld', RevokeFacts, NEW c \in Client, EditStep(c)
  PROVE  RevokeFacts'
  <1> USE RegistryAssumption
  <1>t. TypeOK /\ task[c] \in TaskType /\ eph \in Registry
    BY DEF OwnInv, TypeOK
  <1>r. \A r \in revoked : r.name \in Name /\ r.prin \in Principal
    BY <1>t DEF TypeOK
  <1>1. ASSUME EditReads(c) PROVE RevokeFacts'
    <2>1. task[c].pc = "job" /\ UNCHANGED <<lock, cfg, eph, live, sess, revoked>>
      BY <1>1 DEF EditReads, stores, history
    <2>2. /\ task'[c].pc = "read" /\ task'[c].name = task[c].name /\ task'[c].arg = task[c].arg
          /\ task'[c].verb = task[c].verb /\ \A d \in Client : d # c => task'[d] = task[d]
      BY <1>1, <1>t, ReadsMarks
    <2> QED
      BY <2>1, <2>2 DEF RevokeFacts, Barred, KeptOut, Off, Editing
  <1>2. ASSUME Releases(c), UNCHANGED <<cfg, eph, sess, revoked>>, Reloads(eph) \/ live' = live
        PROVE  RevokeFacts'
    <2>1. ASSUME NEW r \in revoked', r.moved PROVE Barred(r.name, r.prin)'
      <3>1. Barred(r.name, r.prin) /\ r.name \in Name /\ r.prin \in Principal
        BY <1>2, <1>r, <2>1 DEF RevokeFacts
      <3>2. Off(live', r.name, r.prin)
        BY <1>2, <1>t, <3>1, ReloadsOff DEF Barred, KeptOut, Off
      <3> QED
        BY <1>2, <3>1, <3>2 DEF Barred, KeptOut, Off
    <2>2. lock' = NoClient /\ \A d \in Client : d # c => task'[d] = task[d]
      BY <1>2, <1>t, EndsBlank DEF Releases
    <2> QED
      BY <2>1, <2>2, EndedRevokes
  <1>3. ASSUME EditFails(c) PROVE RevokeFacts'
    BY <1>2, <1>3 DEF EditFails, stores
  <1>4. ASSUME FinishRegister(c) PROVE RevokeFacts'
    BY <1>2, <1>4 DEF FinishRegister
  <1>5. ASSUME FinishUnregister(c) PROVE RevokeFacts'
    BY <1>2, <1>5 DEF FinishUnregister
  <1> QED
    BY <1>1, <1>3, <1>4, <1>5, EditWritesRevokes, FinishGrantRevokes,
       RevokeSwapsRevokes, RevokeSeversRevokes DEF EditStep

LEMMA RevokeStep ==
  ASSUME ~Aborts, OwnInv, LockFacts, LockHeld, LockHeld', RevokeFacts, [Next]_vars
  PROVE  RevokeFacts'
  <1> USE RegistryAssumption
  <1>t. TypeOK /\ eph \in Registry
    BY DEF OwnInv, TypeOK
  <1>r. \A r \in revoked : r.name \in Name /\ r.prin \in Principal
    BY <1>t DEF TypeOK
  <1>1. ASSUME NEW c \in Client, NEW polled \in BOOLEAN, Close(c, polled) PROVE RevokeFacts'
    <2>0. task[c].pc = "idle" /\ ~polled /\ task[c].pc \notin Holding
      BY <1>1 DEF Close, Editing, Holding
    <2>1. /\ task'[c] = IdleTask /\ \A d \in Client : d # c => task'[d] = task[d]
          /\ UNCHANGED <<cfg, eph, live, sess, revoked>>
      BY <1>1, <1>t, <2>0, EndsBlank DEF Close, stores
    <2>2. lock' = lock
      BY <1>1, <2>0 DEF Close, LockHeld
    <2> QED
      BY <2>0, <2>1, <2>2, IdleBlank, QuietRevokes DEF Holding
  <1>2. ASSUME NEW c \in Client, Teardown(c) PROVE RevokeFacts'
    <2> DEFINE e == [n \in Name |-> IF n \in {m \in Name : held[c][m] > 0} THEN Absent ELSE eph[n]]
    <2>1. /\ UNCHANGED <<cfg, sess, lock, task, revoked>> /\ task[c].pc = "idle"
          /\ task[c].pc \notin Holding
      BY <1>2 DEF Teardown, LockFacts, Editing, Holding
    <2>2. CASE UNCHANGED <<eph, live>>
      BY <2>1, <2>2, QuietRevokes DEF Editing
    <2>3. CASE lock = NoClient /\ eph' = e /\ Reloads(e)
      <3>1. e \in Registry /\ \A n \in Name, p \in Principal : Off(eph, n, p) => Off(e, n, p)
        BY <1>t DEF Registry, Off
      <3> HIDE DEF e
      <3>2. ASSUME NEW r \in revoked', r.moved PROVE Barred(r.name, r.prin)'
        <4>1. Barred(r.name, r.prin) /\ r.name \in Name /\ r.prin \in Principal
          BY <1>r, <2>1, <3>2 DEF RevokeFacts
        <4>2. Off(e, r.name, r.prin) /\ Off(live', r.name, r.prin)
          BY <1>t, <2>3, <3>1, <4>1, ReloadsOff DEF Barred, KeptOut, Off
        <4> QED
          BY <2>1, <2>3, <4>1, <4>2 DEF Barred, KeptOut, Off
      <3> QED
        BY <2>1, <2>3, <3>2, EndedRevokes
    <2> QED
      BY <1>2, <2>2, <2>3 DEF Teardown
  <1>3. ASSUME NEW n \in Name, NEW p \in Principal, Admit(n, p) PROVE RevokeFacts'
    <2>1. /\ ~Off(live, n, p) /\ sess' = sess \cup {<<n, p>>}
          /\ UNCHANGED <<cfg, eph, live, lock, task, revoked>>
      BY <1>3 DEF Admit, history, Off
    <2>2. ASSUME NEW r \in revoked, r.moved PROVE Barred(r.name, r.prin)'
      <3>1. Barred(r.name, r.prin)
        BY <2>2 DEF RevokeFacts
      <3>2. r.name # n \/ r.prin # p
        BY <2>1, <3>1 DEF Barred, KeptOut, Off
      <3> QED
        BY <2>1, <3>1, <3>2 DEF Barred, KeptOut, Off
    <2> QED
      BY <2>1, <2>2 DEF RevokeFacts, Off
  <1>4. ASSUME UNCHANGED <<cfg, eph, live, lock, task, revoked>>, sess' \subseteq sess
        PROVE  RevokeFacts'
    BY <1>4 DEF RevokeFacts, Barred, KeptOut, Off
  <1>5. CASE \/ \E x \in sess : EndSession(x)
             \/ FileChanges
             \/ UNCHANGED vars
    BY <1>4, <1>5 DEF EndSession, FileChanges, vars, stores, history
  <1>6. orphans = {}
    BY DEF LockFacts
  <1> QED
    BY <1>1, <1>2, <1>3, <1>5, <1>6, RequestRevokes, EditRevokes DEF Next

(* While clients wait for their answers, a revocation that removed an entry   *)
(* is in force from its answer until the principal is granted or registered   *)
(* again: no session of it is left and none is admitted, whatever the other   *)
(* verbs, a reload, the shortcut or a teardown put into the registry after.   *)
THEOREM RevocationsHold == ASSUME ~Aborts PROVE Spec => []RevokeTakesEffect
  <1>1. Init => LockHeld /\ RevokeFacts
    BY IdleBlank, RegistryAssumption DEF Init, LockHeld, RevokeFacts, Editing, Holding
  <1>2. RevokeFacts => RevokeTakesEffect
    BY DEF RevokeFacts, RevokeTakesEffect, Barred
  <1>3. NamesInv => LockFacts
    BY DEF NamesInv
  <1> QED
    BY <1>1, <1>2, <1>3, OwnInvariance, NamesInvariance, LockStep, RevokeStep, PTL DEF Spec
=============================================================================
