----------------------------- MODULE DialProofs -----------------------------
(* Proofs about Dial, for any devices, callers and bounds.                   *)
EXTENDS Dial, TLAPS

(* PeerConns: what is up is registered, and what is registered had been      *)
(* handshaken.                                                               *)
RegInv ==
    \A k \in Conn : /\ conn[k] \in {"registered", "up"} => k \in reg
                    /\ k \in reg => conn[k] \in {"registered", "up", "gone"}

(* A close pass that has read the registry will find what is still up.       *)
PassInv ==
    \A d \in Device : verb[d].pc \in {"read", "close"} /\ d \in revoked =>
        \A k \in Conn : k[2] = d /\ conn[k] = "up" => d \in verb[d].ids

(* The slots of a lead's candidates name it.                                 *)
LeadAt(c) ==
    \A d \in Device : d \in call[c].holds => slot[d].kind = "dialing" /\ slot[d].by = c
LeadInv == \A c \in Caller : LeadAt(c)

(* A caller has connections of its own only once it dials, and what it was   *)
(* handed exists.                                                            *)
OwnAt(c) ==
    /\ call[c].pc \notin {"dial", "session", "done"} =>
          \A d \in Device : conn[<<c, d>>] = "none"
    /\ call[c].pc \in {"check", "open", "session"} =>
          conn[<<call[c].of, call[c].on>>] # "none"
OwnInv == \A c \in Caller : OwnAt(c)

(* Nothing a caller may still use leads to a device barred to it.            *)
BarAt(c) ==
    /\ barred[c] \subseteq revoked
    /\ call[c].pc = "open" => call[c].on \notin barred[c]
    /\ call[c].pc = "dial" =>
          \A d \in Device : conn[<<c, d>>] = "up" => d \notin barred[c]
BarInv == \A c \in Caller : BarAt(c)

(* A slot that is not free names the caller that leads or led its dial.      *)
LiveInv == \A d \in Device : slot[d].kind # "free" => slot[d].by \in Caller

IInv == TypeOK /\ LiveInv /\ RegInv /\ PassInv /\ RevokedCut /\ LeadInv /\ OwnInv /\ BarInv

LEMMA ConnFacts ==
  /\ \A c \in Caller, d \in Device : <<c, d>> \in Conn
  /\ \A k \in Conn : k[1] \in Caller /\ k[2] \in Device /\ k = <<k[1], k[2]>>
  BY DEF Conn

LEMMA CallTyped ==
  /\ Idle \in Calls /\ Finished \in Calls /\ Idle.holds = {} /\ Finished.holds = {}
  /\ Idle.pc = "idle" /\ Finished.pc = "done"
  BY DEF Idle, Finished, Calls

LEMMA SpendTyped ==
  ASSUME spent \in Bounds, NEW w \in {"revokes", "undos", "cuts", "losses"}, Spend(w)
  PROVE  spent' \in Bounds
  BY DEF Bounds, Spend

(* What a caller lets go of only closes connections.                         *)
LEMMA DroppedFacts ==
  ASSUME TypeOK, OwnInv, NEW c \in Caller
  PROVE  /\ Dropped(c) \in [Conn -> Phases]
         /\ \A k \in Conn : \/ Dropped(c)[k] = conn[k]
                            \/ conn[k] # "none" /\ Dropped(c)[k] = "gone"
  BY DEF TypeOK, OwnInv, OwnAt, Dropped, Phases

LEMMA IInvInit == Init => IInv
  <1> SUFFICES ASSUME Init PROVE IInv
    OBVIOUS
  <1> USE DialAssumption, ConnFacts, CallTyped DEF Init
  <1>1. TypeOK
    BY DEF TypeOK, Phases, Slots, Free, NoVerb, Bounds
  <1>2. LiveInv /\ RegInv /\ PassInv /\ RevokedCut /\ LeadInv /\ OwnInv /\ BarInv
    BY DEF RegInv, PassInv, RevokedCut, LeadInv, LeadAt, OwnInv, OwnAt, BarInv, BarAt, LiveInv,
       Free, NoVerb, Idle
  <1> QED
    BY <1>1, <1>2 DEF IInv

(* Open: the candidates are devices. *)
LEMMA OpenKeeps ==
  ASSUME IInv, NEW c \in Caller, NEW devices \in SUBSET Device, Open(c, devices)
  PROVE  IInv'
  <1> USE DialAssumption, ConnFacts, CallTyped DEF Open, IInv, TypeOK
  <1>1. TypeOK'
    <2>1. call' \in [Caller -> Calls]
      BY DEF Calls, Idle, Finished, Slots
    <2>2. conn' \in [Conn -> Phases]
      OBVIOUS
    <2>3. slot' \in [Device -> Slots]
      OBVIOUS
    <2>4. verb' \in [Device -> [pc : {"idle", "pass", "read", "close"}, ids : SUBSET Device]]
      OBVIOUS
    <2>5. spent' \in Bounds
      OBVIOUS
    <2>6. \A x \in Caller :
            /\ call'[x].holds # {} => call'[x].pc = "dial"
            /\ call'[x].pc = "wait" => call'[x].of \in Caller
            /\ call'[x].pc \in {"check", "open", "session"} => <<call'[x].of, call'[x].on>> \in Conn
      BY DEF Calls, Live, Slots, OwnInv, OwnAt, LeadInv, LeadAt, Idle
    <2> QED
      BY <2>1, <2>2, <2>3, <2>4, <2>5, <2>6
  <1> USE DEF Calls, Slots, Idle, Finished
  <1>2. RegInv'
    BY <1>1 DEF RegInv, OwnInv, OwnAt
  <1>3. PassInv'
    BY <1>1 DEF PassInv, RegInv, RevokedCut
  <1>4. RevokedCut'
    BY <1>1 DEF RevokedCut, PassInv, RegInv
  <1>5. LeadInv'
    BY <1>1 DEF LeadInv, LeadAt
  <1>6. OwnInv'
    BY <1>1 DEF OwnInv, OwnAt, RegInv, Live
  <1>7. BarInv'
    BY <1>1 DEF BarInv, BarAt, OwnInv, OwnAt, RegInv
  <1>8. LiveInv'
    BY <1>1 DEF LiveInv, Free
  <1> QED
    BY <1>1, <1>2, <1>3, <1>4, <1>5, <1>6, <1>7, <1>8

(* DialAlone: the caller had no connection yet. *)
LEMMA DialAloneKeeps ==
  ASSUME IInv, NEW c \in Caller, NEW d \in Device, NEW checked \in BOOLEAN, DialAlone(c, d, checked)
  PROVE  IInv'
  <1>t. call \in [Caller -> Calls] /\ call[c] \in Calls
    BY DEF IInv, TypeOK
  <1>u. /\ UNCHANGED <<conn, reg, slot, revoked, verb, cut, pardoned, spent>>
        /\ call[c].pc = "idle" /\ barred' = [barred EXCEPT ![c] = revoked]
    BY DEF DialAlone
  <1>a. PICK r \in {Finished, [Idle EXCEPT !.pc = "dial", !.want = {d}]} : call' = [call EXCEPT ![c] = r]
    BY DEF DialAlone
  <1>b. r \in Calls /\ r.pc \in {"done", "dial"} /\ r.holds = {}
    <2>1. CASE r = Finished
      BY <2>1, CallTyped
    <2>2. CASE r = [Idle EXCEPT !.pc = "dial", !.want = {d}]
      BY <2>2 DEF Idle, Calls
    <2> QED
      BY <1>a, <2>1, <2>2
  <1>0. /\ call' \in [Caller -> Calls] /\ \A x \in Caller \ {c} : call'[x] = call[x]
        /\ call'[c].pc \in {"done", "dial"} /\ call'[c].holds = {}
    BY <1>t, <1>a, <1>b
  <1> USE DialAssumption, ConnFacts DEF IInv, TypeOK
  <1>1. TypeOK'
    <2>1. \A x \in Caller :
            /\ call'[x].holds # {} => call'[x].pc = "dial"
            /\ call'[x].pc = "wait" => call'[x].of \in Caller
            /\ call'[x].pc \in {"check", "open", "session"} => <<call'[x].of, call'[x].on>> \in Conn
      BY <1>u, <1>0
    <2> QED
      BY <2>1, <1>u, <1>0 DEF Phases, Slots
  <1>2. RegInv'
    BY <1>u, <1>0, <1>1 DEF RegInv, OwnInv
  <1>3. PassInv'
    BY <1>u, <1>0, <1>1 DEF PassInv, RegInv, RevokedCut
  <1>4. RevokedCut'
    BY <1>u, <1>0, <1>1 DEF RevokedCut, PassInv, RegInv
  <1>5. LeadInv'
    <2> SUFFICES ASSUME NEW x \in Caller PROVE LeadAt(x)'
      BY DEF LeadInv
    <2>1. LeadAt(c)'
      BY <1>u, <1>0, <1>1 DEF LeadInv, LeadAt
    <2>2. CASE x # c
      BY <2>2, <1>u, <1>0, <1>1 DEF LeadInv, LeadAt
    <2> QED
      BY <2>1, <2>2
  <1>6. OwnInv'
    <2> SUFFICES ASSUME NEW x \in Caller PROVE OwnAt(x)'
      BY DEF OwnInv
    <2>1. OwnAt(c)'
      BY <1>u, <1>0, <1>1 DEF OwnInv, OwnAt
    <2>2. CASE x # c
      BY <2>2, <1>u, <1>0, <1>1 DEF OwnInv, OwnAt
    <2> QED
      BY <2>1, <2>2
  <1>7. BarInv'
    <2> SUFFICES ASSUME NEW x \in Caller PROVE BarAt(x)'
      BY DEF BarInv
    <2>1. BarAt(c)'
      BY <1>u, <1>0, <1>1 DEF BarInv, BarAt, OwnInv, OwnAt
    <2>2. CASE x # c
      BY <2>2, <1>u, <1>0, <1>1 DEF BarInv, BarAt, OwnInv, OwnAt
    <2> QED
      BY <2>1, <2>2
  <1>8. LiveInv'
    BY <1>u, <1>0, <1>1 DEF LiveInv, Free
  <1> QED
    BY <1>1, <1>2, <1>3, <1>4, <1>5, <1>6, <1>7, <1>8 DEF IInv

(* Claim: a lead only takes slots no lead holds. *)
LEMMA ClaimKeeps ==
  ASSUME IInv, NEW c \in Caller, Claim(c)
  PROVE  IInv'
  <1>t. call \in [Caller -> Calls] /\ call[c] \in Calls
    BY DEF IInv, TypeOK
  <1> DEFINE live == {d \in call[c].peers : Live(d)}
             busy == {d \in call[c].peers : slot[d].kind = "dialing"}
  <1>u. /\ UNCHANGED <<conn, reg, revoked, verb, cut, pardoned, spent>>
        /\ call[c].pc = "claim" /\ call[c].holds = {} /\ call[c].peers \subseteq Device
        /\ barred' = [barred EXCEPT ![c] = revoked]
    BY DEF Claim, Calls, IInv, TypeOK
  <1>n. \A e \in Device : conn[<<c, e>>] = "none"
    BY <1>u DEF IInv, OwnInv, OwnAt
  <1>1. ASSUME NEW d \in live, UNCHANGED slot,
               call' = [call EXCEPT ![c] = [@ EXCEPT !.pc = "check", !.of = slot[d].by, !.on = d]]
        PROVE  IInv'
    <2>a. d \in Device /\ slot[d].by \in Caller /\ conn[<<slot[d].by, d>>] = "up"
      BY <1>u DEF Live, LiveInv, IInv
    <2>0. /\ call' \in [Caller -> Calls] /\ \A x \in Caller \ {c} : call'[x] = call[x]
          /\ call'[c].pc = "check" /\ call'[c].of = slot[d].by /\ call'[c].on = d /\ call'[c].holds = {}
      BY <1>1, <1>t, <1>u, <2>a DEF Calls
    <2> USE DialAssumption, ConnFacts DEF IInv, TypeOK
    <2>1. TypeOK'
      <3>1. \A x \in Caller :
              /\ call'[x].holds # {} => call'[x].pc = "dial"
              /\ call'[x].pc = "wait" => call'[x].of \in Caller
              /\ call'[x].pc \in {"check", "open", "session"} => <<call'[x].of, call'[x].on>> \in Conn
        BY <1>1, <1>u, <1>n, <2>0, <2>a
      <3> QED
        BY <3>1, <1>1, <1>u, <1>n, <2>0, <2>a DEF Phases, Slots
    <2>2. RegInv'
      BY <1>1, <1>u, <1>n, <2>0, <2>a, <2>1 DEF RegInv, OwnInv
    <2>3. PassInv'
      BY <1>1, <1>u, <1>n, <2>0, <2>a, <2>1 DEF PassInv, RegInv, RevokedCut
    <2>4. RevokedCut'
      BY <1>1, <1>u, <1>n, <2>0, <2>a, <2>1 DEF RevokedCut, PassInv, RegInv
    <2>5. LeadInv'
      <3> SUFFICES ASSUME NEW x \in Caller PROVE LeadAt(x)'
        BY DEF LeadInv
      <3>1. LeadAt(c)'
        BY <1>1, <1>u, <1>n, <2>0, <2>a, <2>1 DEF LeadInv, LeadAt
      <3>2. CASE x # c
        BY <3>2, <1>1, <1>u, <1>n, <2>0, <2>a, <2>1 DEF LeadInv, LeadAt
      <3> QED
        BY <3>1, <3>2
    <2>6. OwnInv'
      <3> SUFFICES ASSUME NEW x \in Caller PROVE OwnAt(x)'
        BY DEF OwnInv
      <3>1. OwnAt(c)'
        BY <1>1, <1>u, <1>n, <2>0, <2>a, <2>1 DEF OwnInv, OwnAt
      <3>2. CASE x # c
        BY <3>2, <1>1, <1>u, <1>n, <2>0, <2>a, <2>1 DEF OwnInv, OwnAt
      <3> QED
        BY <3>1, <3>2
    <2>7. BarInv'
      <3> SUFFICES ASSUME NEW x \in Caller PROVE BarAt(x)'
        BY DEF BarInv
      <3>1. BarAt(c)'
        BY <1>1, <1>u, <1>n, <2>0, <2>a, <2>1 DEF BarInv, BarAt, OwnInv, OwnAt
      <3>2. CASE x # c
        BY <3>2, <1>1, <1>u, <1>n, <2>0, <2>a, <2>1 DEF BarInv, BarAt, OwnInv, OwnAt
      <3> QED
        BY <3>1, <3>2
    <2>8. LiveInv'
      BY <1>1, <1>u, <1>n, <2>0, <2>a, <2>1 DEF LiveInv, Free
    <2> QED
      BY <2>1, <2>2, <2>3, <2>4, <2>5, <2>6, <2>7, <2>8 DEF IInv
  <1>2. ASSUME NEW d \in busy, UNCHANGED slot,
               call' = [call EXCEPT ![c] = [@ EXCEPT !.pc = "wait", !.of = slot[d].by]]
        PROVE  IInv'
    <2>a. d \in Device /\ slot[d].by \in Caller
      BY <1>u DEF LiveInv, IInv
    <2>0. /\ call' \in [Caller -> Calls] /\ \A x \in Caller \ {c} : call'[x] = call[x]
          /\ call'[c].pc = "wait" /\ call'[c].of = slot[d].by /\ call'[c].holds = {}
      BY <1>2, <1>t, <1>u, <2>a DEF Calls
    <2> USE DialAssumption, ConnFacts DEF IInv, TypeOK
    <2>1. TypeOK'
      <3>1. \A x \in Caller :
              /\ call'[x].holds # {} => call'[x].pc = "dial"
              /\ call'[x].pc = "wait" => call'[x].of \in Caller
              /\ call'[x].pc \in {"check", "open", "session"} => <<call'[x].of, call'[x].on>> \in Conn
        BY <1>2, <1>u, <1>n, <2>0, <2>a
      <3> QED
        BY <3>1, <1>2, <1>u, <1>n, <2>0, <2>a DEF Phases, Slots
    <2>2. RegInv'
      BY <1>2, <1>u, <1>n, <2>0, <2>a, <2>1 DEF RegInv, OwnInv
    <2>3. PassInv'
      BY <1>2, <1>u, <1>n, <2>0, <2>a, <2>1 DEF PassInv, RegInv, RevokedCut
    <2>4. RevokedCut'
      BY <1>2, <1>u, <1>n, <2>0, <2>a, <2>1 DEF RevokedCut, PassInv, RegInv
    <2>5. LeadInv'
      <3> SUFFICES ASSUME NEW x \in Caller PROVE LeadAt(x)'
        BY DEF LeadInv
      <3>1. LeadAt(c)'
        BY <1>2, <1>u, <1>n, <2>0, <2>a, <2>1 DEF LeadInv, LeadAt
      <3>2. CASE x # c
        BY <3>2, <1>2, <1>u, <1>n, <2>0, <2>a, <2>1 DEF LeadInv, LeadAt
      <3> QED
        BY <3>1, <3>2
    <2>6. OwnInv'
      <3> SUFFICES ASSUME NEW x \in Caller PROVE OwnAt(x)'
        BY DEF OwnInv
      <3>1. OwnAt(c)'
        BY <1>2, <1>u, <1>n, <2>0, <2>a, <2>1 DEF OwnInv, OwnAt
      <3>2. CASE x # c
        BY <3>2, <1>2, <1>u, <1>n, <2>0, <2>a, <2>1 DEF OwnInv, OwnAt
      <3> QED
        BY <3>1, <3>2
    <2>7. BarInv'
      <3> SUFFICES ASSUME NEW x \in Caller PROVE BarAt(x)'
        BY DEF BarInv
      <3>1. BarAt(c)'
        BY <1>2, <1>u, <1>n, <2>0, <2>a, <2>1 DEF BarInv, BarAt, OwnInv, OwnAt
      <3>2. CASE x # c
        BY <3>2, <1>2, <1>u, <1>n, <2>0, <2>a, <2>1 DEF BarInv, BarAt, OwnInv, OwnAt
      <3> QED
        BY <3>1, <3>2
    <2>8. LiveInv'
      BY <1>2, <1>u, <1>n, <2>0, <2>a, <2>1 DEF LiveInv, Free
    <2> QED
      BY <2>1, <2>2, <2>3, <2>4, <2>5, <2>6, <2>7, <2>8 DEF IInv
  <1>3. ASSUME busy = {},
               call' = [call EXCEPT ![c] = [@ EXCEPT !.pc = "dial", !.holds = call[c].peers]],
               slot' = [d \in Device |-> IF d \in call[c].peers THEN [kind |-> "dialing", by |-> c]
                                                               ELSE slot[d]]
        PROVE  IInv'
    <2>0. /\ call' \in [Caller -> Calls] /\ \A x \in Caller \ {c} : call'[x] = call[x]
          /\ call'[c].pc = "dial" /\ call'[c].holds = call[c].peers
      BY <1>3, <1>t DEF Calls
    <2>a. /\ slot' \in [Device -> Slots]
          /\ \A d \in Device : \/ d \notin call[c].peers /\ slot'[d] = slot[d]
                              \/ /\ d \in call[c].peers /\ slot[d].kind # "dialing"
                                 /\ slot'[d].kind = "dialing" /\ slot'[d].by = c
      BY <1>3 DEF Slots, IInv, TypeOK
    <2> USE DialAssumption, ConnFacts DEF IInv, TypeOK
    <2>1. TypeOK'
      <3>1. \A x \in Caller :
              /\ call'[x].holds # {} => call'[x].pc = "dial"
              /\ call'[x].pc = "wait" => call'[x].of \in Caller
              /\ call'[x].pc \in {"check", "open", "session"} => <<call'[x].of, call'[x].on>> \in Conn
        BY <1>u, <1>n, <2>0, <2>a
      <3> QED
        BY <3>1, <1>u, <1>n, <2>0, <2>a DEF Phases, Slots
    <2>2. RegInv'
      BY <1>u, <1>n, <2>0, <2>a, <2>1 DEF RegInv, OwnInv
    <2>3. PassInv'
      BY <1>u, <1>n, <2>0, <2>a, <2>1 DEF PassInv, RegInv, RevokedCut
    <2>4. RevokedCut'
      BY <1>u, <1>n, <2>0, <2>a, <2>1 DEF RevokedCut, PassInv, RegInv
    <2>5. LeadInv'
      <3> SUFFICES ASSUME NEW x \in Caller PROVE LeadAt(x)'
        BY DEF LeadInv
      <3>1. LeadAt(c)'
        BY <1>u, <1>n, <2>0, <2>a, <2>1 DEF LeadInv, LeadAt
      <3>2. CASE x # c
        BY <3>2, <1>u, <1>n, <2>0, <2>a, <2>1 DEF LeadInv, LeadAt
      <3> QED
        BY <3>1, <3>2
    <2>6. OwnInv'
      <3> SUFFICES ASSUME NEW x \in Caller PROVE OwnAt(x)'
        BY DEF OwnInv
      <3>1. OwnAt(c)'
        BY <1>u, <1>n, <2>0, <2>a, <2>1 DEF OwnInv, OwnAt
      <3>2. CASE x # c
        BY <3>2, <1>u, <1>n, <2>0, <2>a, <2>1 DEF OwnInv, OwnAt
      <3> QED
        BY <3>1, <3>2
    <2>7. BarInv'
      <3> SUFFICES ASSUME NEW x \in Caller PROVE BarAt(x)'
        BY DEF BarInv
      <3>1. BarAt(c)'
        BY <1>u, <1>n, <2>0, <2>a, <2>1 DEF BarInv, BarAt, OwnInv, OwnAt
      <3>2. CASE x # c
        BY <3>2, <1>u, <1>n, <2>0, <2>a, <2>1 DEF BarInv, BarAt, OwnInv, OwnAt
      <3> QED
        BY <3>1, <3>2
    <2>8. LiveInv'
      BY <1>u, <1>n, <2>0, <2>a, <2>1 DEF LiveInv, Free
    <2> QED
      BY <2>1, <2>2, <2>3, <2>4, <2>5, <2>6, <2>7, <2>8 DEF IInv
  <1> QED
    BY <1>1, <1>2, <1>3 DEF Claim

(* Check: only a device that is not revoked passes. *)
LEMMA CheckKeeps ==
  ASSUME IInv, NEW c \in Caller, Check(c)
  PROVE  IInv'
  <1>t. call \in [Caller -> Calls] /\ call[c] \in Calls
    BY DEF IInv, TypeOK
  <1>u. /\ UNCHANGED <<reg, slot, revoked, verb, cut, barred, pardoned, spent>>
        /\ call[c].pc = "check" /\ call[c].holds = {}
    BY DEF Check, IInv, TypeOK
  <1>n. \A e \in Device : conn[<<c, e>>] = "none"
    BY <1>u DEF IInv, OwnInv, OwnAt
  <1>1. CASE call[c].on \notin revoked
    <2>a. call' = [call EXCEPT ![c].pc = "open"] /\ conn' = conn
      BY <1>1 DEF Check
    <2>0. /\ call' \in [Caller -> Calls] /\ \A x \in Caller \ {c} : call'[x] = call[x]
          /\ call'[c].pc = "open" /\ call'[c].of = call[c].of /\ call'[c].on = call[c].on
          /\ call'[c].holds = {}
      BY <2>a, <1>t, <1>u DEF Calls
    <2> USE DialAssumption, ConnFacts DEF IInv, TypeOK
    <2>1. TypeOK'
      <3>1. \A x \in Caller :
              /\ call'[x].holds # {} => call'[x].pc = "dial"
              /\ call'[x].pc = "wait" => call'[x].of \in Caller
              /\ call'[x].pc \in {"check", "open", "session"} => <<call'[x].of, call'[x].on>> \in Conn
        BY <1>1, <1>u, <2>0, <2>a
      <3> QED
        BY <3>1, <1>1, <1>u, <2>0, <2>a DEF Phases, Slots
    <2>2. RegInv'
      BY <1>1, <1>u, <2>0, <2>a, <2>1 DEF RegInv, OwnInv
    <2>3. PassInv'
      BY <1>1, <1>u, <2>0, <2>a, <2>1 DEF PassInv, RegInv, RevokedCut
    <2>4. RevokedCut'
      BY <1>1, <1>u, <2>0, <2>a, <2>1 DEF RevokedCut, PassInv, RegInv
    <2>5. LeadInv'
      <3> SUFFICES ASSUME NEW x \in Caller PROVE LeadAt(x)'
        BY DEF LeadInv
      <3>1. LeadAt(c)'
        BY <1>1, <1>u, <2>0, <2>a, <2>1 DEF LeadInv, LeadAt
      <3>2. CASE x # c
        BY <3>2, <1>1, <1>u, <2>0, <2>a, <2>1 DEF LeadInv, LeadAt
      <3> QED
        BY <3>1, <3>2
    <2>6. OwnInv'
      <3> SUFFICES ASSUME NEW x \in Caller PROVE OwnAt(x)'
        BY DEF OwnInv
      <3>1. OwnAt(c)'
        <4>1. OwnAt(c)
          BY DEF OwnInv
        <4> QED
          BY ONLY <4>1, <1>u, <1>n, <2>0, <2>a DEF OwnAt
      <3>2. CASE x # c
        BY <3>2, <1>1, <1>u, <2>0, <2>a, <2>1 DEF OwnInv, OwnAt
      <3> QED
        BY <3>1, <3>2
    <2>7. BarInv'
      <3> SUFFICES ASSUME NEW x \in Caller PROVE BarAt(x)'
        BY DEF BarInv
      <3>1. BarAt(c)'
        BY <1>1, <1>u, <2>0, <2>a, <2>1 DEF BarInv, BarAt, OwnInv, OwnAt
      <3>2. CASE x # c
        BY <3>2, <1>1, <1>u, <2>0, <2>a, <2>1 DEF BarInv, BarAt, OwnInv, OwnAt
      <3> QED
        BY <3>1, <3>2
    <2>8. LiveInv'
      BY <1>1, <1>u, <2>0, <2>a, <2>1 DEF LiveInv, Free
    <2> QED
      BY <2>1, <2>2, <2>3, <2>4, <2>5, <2>6, <2>7, <2>8 DEF IInv
  <1>2. CASE call[c].on \in revoked
    <2>a. conn' = Dropped(c)
      BY <1>2 DEF Check
    <2>b. /\ conn' \in [Conn -> Phases]
          /\ \A k \in Conn : conn'[k] = conn[k] \/ (conn[k] # "none" /\ conn'[k] = "gone")
      BY <2>a, DroppedFacts DEF IInv
    <2>c. PICK r \in {Finished, [call[c] EXCEPT !.pc = "claim", !.peers = call[c].peers \ {call[c].on},
                                               !.of = None, !.on = None]} :
            call' = [call EXCEPT ![c] = r]
      BY <1>2 DEF Check
    <2>d. r \in Calls /\ r.pc \in {"claim", "done"} /\ r.holds = {}
      <3>1. CASE r = Finished
        BY <3>1, CallTyped
      <3>2. CASE r # Finished
        <4>1. r = [call[c] EXCEPT !.pc = "claim", !.peers = call[c].peers \ {call[c].on},
                                  !.of = None, !.on = None]
          BY <3>2, <2>c
        <4>2. r.pc = "claim" /\ r.holds = {}
          BY <4>1, <1>t, <1>u DEF Calls
        <4>3. r \in Calls
          BY <4>1, <1>t DEF Calls
        <4> QED
          BY <4>2, <4>3
      <3> QED
        BY <3>1, <3>2
    <2>0. /\ call' \in [Caller -> Calls] /\ \A x \in Caller \ {c} : call'[x] = call[x]
          /\ call'[c].pc \in {"claim", "done"} /\ call'[c].holds = {}
      BY <2>c, <2>d, <1>t
    <2> USE DialAssumption, ConnFacts DEF IInv, TypeOK
    <2>1. TypeOK'
      <3>1. \A x \in Caller :
              /\ call'[x].holds # {} => call'[x].pc = "dial"
              /\ call'[x].pc = "wait" => call'[x].of \in Caller
              /\ call'[x].pc \in {"check", "open", "session"} => <<call'[x].of, call'[x].on>> \in Conn
        BY <1>u, <1>n, <2>0, <2>b
      <3> QED
        BY <3>1, <1>u, <1>n, <2>0, <2>b DEF Phases, Slots
    <2>2. RegInv'
      BY <1>u, <1>n, <2>0, <2>b, <2>1 DEF RegInv, OwnInv
    <2>3. PassInv'
      BY <1>u, <1>n, <2>0, <2>b, <2>1 DEF PassInv, RegInv, RevokedCut
    <2>4. RevokedCut'
      BY <1>u, <1>n, <2>0, <2>b, <2>1 DEF RevokedCut, PassInv, RegInv
    <2>5. LeadInv'
      <3> SUFFICES ASSUME NEW x \in Caller PROVE LeadAt(x)'
        BY DEF LeadInv
      <3>1. LeadAt(c)'
        BY <1>u, <1>n, <2>0, <2>b, <2>1 DEF LeadInv, LeadAt
      <3>2. CASE x # c
        BY <3>2, <1>u, <1>n, <2>0, <2>b, <2>1 DEF LeadInv, LeadAt
      <3> QED
        BY <3>1, <3>2
    <2>6. OwnInv'
      <3> SUFFICES ASSUME NEW x \in Caller PROVE OwnAt(x)'
        BY DEF OwnInv
      <3>1. OwnAt(c)'
        BY <1>u, <1>n, <2>0, <2>b, <2>1 DEF OwnInv, OwnAt
      <3>2. CASE x # c
        BY <3>2, <1>u, <1>n, <2>0, <2>b, <2>1 DEF OwnInv, OwnAt
      <3> QED
        BY <3>1, <3>2
    <2>7. BarInv'
      <3> SUFFICES ASSUME NEW x \in Caller PROVE BarAt(x)'
        BY DEF BarInv
      <3>1. BarAt(c)'
        BY <1>u, <1>n, <2>0, <2>b, <2>1 DEF BarInv, BarAt, OwnInv, OwnAt
      <3>2. CASE x # c
        BY <3>2, <1>u, <1>n, <2>0, <2>b, <2>1 DEF BarInv, BarAt, OwnInv, OwnAt
      <3> QED
        BY <3>1, <3>2
    <2>8. LiveInv'
      BY <1>u, <1>n, <2>0, <2>b, <2>1 DEF LiveInv, Free
    <2> QED
      BY <2>1, <2>2, <2>3, <2>4, <2>5, <2>6, <2>7, <2>8 DEF IInv
  <1> QED
    BY <1>1, <1>2

(* Reuse: the connection is up. *)
LEMMA ReuseKeeps ==
  ASSUME IInv, NEW c \in Caller, Reuse(c)
  PROVE  IInv'
  <1> USE DialAssumption, ConnFacts, CallTyped DEF Reuse, IInv, TypeOK
  <1>1. TypeOK'
    <2>1. call' \in [Caller -> Calls]
      BY DEF Calls, Idle, Finished, Slots
    <2>2. conn' \in [Conn -> Phases]
      OBVIOUS
    <2>3. slot' \in [Device -> Slots]
      OBVIOUS
    <2>4. verb' \in [Device -> [pc : {"idle", "pass", "read", "close"}, ids : SUBSET Device]]
      OBVIOUS
    <2>5. spent' \in Bounds
      OBVIOUS
    <2>6. \A x \in Caller :
            /\ call'[x].holds # {} => call'[x].pc = "dial"
            /\ call'[x].pc = "wait" => call'[x].of \in Caller
            /\ call'[x].pc \in {"check", "open", "session"} => <<call'[x].of, call'[x].on>> \in Conn
      BY DEF Calls, Live, Slots, OwnInv, OwnAt, LeadInv, LeadAt, Idle
    <2> QED
      BY <2>1, <2>2, <2>3, <2>4, <2>5, <2>6
  <1> USE DEF Calls, Slots, Idle, Finished
  <1>2. RegInv'
    BY <1>1 DEF RegInv, OwnInv, OwnAt
  <1>3. PassInv'
    BY <1>1 DEF PassInv, RegInv, RevokedCut
  <1>4. RevokedCut'
    BY <1>1 DEF RevokedCut, PassInv, RegInv
  <1>5. LeadInv'
    BY <1>1 DEF LeadInv, LeadAt
  <1>6. OwnInv'
    BY <1>1 DEF OwnInv, OwnAt, RegInv, Live
  <1>7. BarInv'
    BY <1>1 DEF BarInv, BarAt, OwnInv, OwnAt, RegInv
  <1>8. LiveInv'
    BY <1>1 DEF LiveInv, Free
  <1> QED
    BY <1>1, <1>2, <1>3, <1>4, <1>5, <1>6, <1>7, <1>8

(* Stale: no lead's slot is touched. *)
LEMMA StaleKeeps ==
  ASSUME IInv, NEW c \in Caller, Stale(c)
  PROVE  IInv'
  <1> USE DialAssumption, ConnFacts, CallTyped DEF Stale, IInv, TypeOK
  <1>1. TypeOK'
    <2>1. call' \in [Caller -> Calls]
      BY DEF Calls, Idle, Finished, Slots
    <2>2. conn' \in [Conn -> Phases]
      OBVIOUS
    <2>3. slot' \in [Device -> Slots]
      BY DEF Slots, Free
    <2>4. verb' \in [Device -> [pc : {"idle", "pass", "read", "close"}, ids : SUBSET Device]]
      OBVIOUS
    <2>5. spent' \in Bounds
      OBVIOUS
    <2>6. \A x \in Caller :
            /\ call'[x].holds # {} => call'[x].pc = "dial"
            /\ call'[x].pc = "wait" => call'[x].of \in Caller
            /\ call'[x].pc \in {"check", "open", "session"} => <<call'[x].of, call'[x].on>> \in Conn
      BY DEF Calls, Live, Slots, OwnInv, OwnAt, LeadInv, LeadAt, Idle
    <2> QED
      BY <2>1, <2>2, <2>3, <2>4, <2>5, <2>6
  <1> USE DEF Calls, Slots, Idle, Finished
  <1>2. RegInv'
    BY <1>1 DEF RegInv, OwnInv, OwnAt
  <1>3. PassInv'
    BY <1>1 DEF PassInv, RegInv, RevokedCut
  <1>4. RevokedCut'
    BY <1>1 DEF RevokedCut, PassInv, RegInv
  <1>5. LeadInv'
    BY <1>1 DEF LeadInv, LeadAt
  <1>6. OwnInv'
    BY <1>1 DEF OwnInv, OwnAt, RegInv, Live
  <1>7. BarInv'
    BY <1>1 DEF BarInv, BarAt, OwnInv, OwnAt, RegInv
  <1>8. LiveInv'
    BY <1>1 DEF LiveInv, Free
  <1> QED
    BY <1>1, <1>2, <1>3, <1>4, <1>5, <1>6, <1>7, <1>8

(* Saturated: the caller had no connection yet. *)
LEMMA SaturatedKeeps ==
  ASSUME IInv, NEW c \in Caller, Saturated(c)
  PROVE  IInv'
  <1>t. call \in [Caller -> Calls] /\ call[c] \in Calls
    BY DEF IInv, TypeOK
  <1>u. /\ UNCHANGED <<conn, reg, slot, revoked, verb, cut, barred, pardoned, spent>>
        /\ call[c].pc = "open" /\ call[c].holds = {}
    BY DEF Saturated, IInv, TypeOK
  <1>0. /\ call' \in [Caller -> Calls] /\ \A x \in Caller \ {c} : call'[x] = call[x]
        /\ call'[c].pc = "dial" /\ call'[c].holds = {}
    BY <1>t, <1>u DEF Saturated, Calls
  <1> USE DialAssumption, ConnFacts DEF IInv, TypeOK
  <1>1. TypeOK'
    <2>1. \A x \in Caller :
            /\ call'[x].holds # {} => call'[x].pc = "dial"
            /\ call'[x].pc = "wait" => call'[x].of \in Caller
            /\ call'[x].pc \in {"check", "open", "session"} => <<call'[x].of, call'[x].on>> \in Conn
      BY <1>u, <1>0
    <2> QED
      BY <2>1, <1>u, <1>0 DEF Phases, Slots
  <1>2. RegInv'
    BY <1>u, <1>0, <1>1 DEF RegInv, OwnInv
  <1>3. PassInv'
    BY <1>u, <1>0, <1>1 DEF PassInv, RegInv, RevokedCut
  <1>4. RevokedCut'
    BY <1>u, <1>0, <1>1 DEF RevokedCut, PassInv, RegInv
  <1>5. LeadInv'
    <2> SUFFICES ASSUME NEW x \in Caller PROVE LeadAt(x)'
      BY DEF LeadInv
    <2>1. LeadAt(c)'
      BY <1>u, <1>0, <1>1 DEF LeadInv, LeadAt
    <2>2. CASE x # c
      BY <2>2, <1>u, <1>0, <1>1 DEF LeadInv, LeadAt
    <2> QED
      BY <2>1, <2>2
  <1>6. OwnInv'
    <2> SUFFICES ASSUME NEW x \in Caller PROVE OwnAt(x)'
      BY DEF OwnInv
    <2>1. OwnAt(c)'
      BY <1>u, <1>0, <1>1 DEF OwnInv, OwnAt
    <2>2. CASE x # c
      BY <2>2, <1>u, <1>0, <1>1 DEF OwnInv, OwnAt
    <2> QED
      BY <2>1, <2>2
  <1>7. BarInv'
    <2> SUFFICES ASSUME NEW x \in Caller PROVE BarAt(x)'
      BY DEF BarInv
    <2>1. BarAt(c)'
      BY <1>u, <1>0, <1>1 DEF BarInv, BarAt, OwnInv, OwnAt
    <2>2. CASE x # c
      BY <2>2, <1>u, <1>0, <1>1 DEF BarInv, BarAt, OwnInv, OwnAt
    <2> QED
      BY <2>1, <2>2
  <1>8. LiveInv'
    BY <1>u, <1>0, <1>1 DEF LiveInv, Free
  <1> QED
    BY <1>1, <1>2, <1>3, <1>4, <1>5, <1>6, <1>7, <1>8 DEF IInv

(* Wake: the caller only looks again. *)
LEMMA WakeKeeps ==
  ASSUME IInv, NEW c \in Caller, Wake(c)
  PROVE  IInv'
  <1>t. call \in [Caller -> Calls] /\ call[c] \in Calls
    BY DEF IInv, TypeOK
  <1>u. /\ UNCHANGED <<conn, reg, slot, revoked, verb, cut, barred, pardoned, spent>>
        /\ call[c].pc = "wait" /\ call[c].holds = {}
    BY DEF Wake, IInv, TypeOK
  <1>0. /\ call' \in [Caller -> Calls] /\ \A x \in Caller \ {c} : call'[x] = call[x]
        /\ call'[c].pc = "claim" /\ call'[c].holds = {}
    BY <1>t, <1>u DEF Wake, Calls
  <1> USE DialAssumption, ConnFacts DEF IInv, TypeOK
  <1>1. TypeOK'
    <2>1. \A x \in Caller :
            /\ call'[x].holds # {} => call'[x].pc = "dial"
            /\ call'[x].pc = "wait" => call'[x].of \in Caller
            /\ call'[x].pc \in {"check", "open", "session"} => <<call'[x].of, call'[x].on>> \in Conn
      BY <1>u, <1>0
    <2> QED
      BY <2>1, <1>u, <1>0 DEF Phases, Slots
  <1>2. RegInv'
    BY <1>u, <1>0, <1>1 DEF RegInv, OwnInv
  <1>3. PassInv'
    BY <1>u, <1>0, <1>1 DEF PassInv, RegInv, RevokedCut
  <1>4. RevokedCut'
    BY <1>u, <1>0, <1>1 DEF RevokedCut, PassInv, RegInv
  <1>5. LeadInv'
    <2> SUFFICES ASSUME NEW x \in Caller PROVE LeadAt(x)'
      BY DEF LeadInv
    <2>1. LeadAt(c)'
      BY <1>u, <1>0, <1>1 DEF LeadInv, LeadAt
    <2>2. CASE x # c
      BY <2>2, <1>u, <1>0, <1>1 DEF LeadInv, LeadAt
    <2> QED
      BY <2>1, <2>2
  <1>6. OwnInv'
    <2> SUFFICES ASSUME NEW x \in Caller PROVE OwnAt(x)'
      BY DEF OwnInv
    <2>1. OwnAt(c)'
      BY <1>u, <1>0, <1>1 DEF OwnInv, OwnAt
    <2>2. CASE x # c
      BY <2>2, <1>u, <1>0, <1>1 DEF OwnInv, OwnAt
    <2> QED
      BY <2>1, <2>2
  <1>7. BarInv'
    <2> SUFFICES ASSUME NEW x \in Caller PROVE BarAt(x)'
      BY DEF BarInv
    <2>1. BarAt(c)'
      BY <1>u, <1>0, <1>1 DEF BarInv, BarAt, OwnInv, OwnAt
    <2>2. CASE x # c
      BY <2>2, <1>u, <1>0, <1>1 DEF BarInv, BarAt, OwnInv, OwnAt
    <2> QED
      BY <2>1, <2>2
  <1>8. LiveInv'
    BY <1>u, <1>0, <1>1 DEF LiveInv, Free
  <1> QED
    BY <1>1, <1>2, <1>3, <1>4, <1>5, <1>6, <1>7, <1>8 DEF IInv

(* DialFails: only this caller's slots are cleared. *)
LEMMA DialFailsKeeps ==
  ASSUME IInv, NEW c \in Caller, DialFails(c)
  PROVE  IInv'
  <1> USE DialAssumption, ConnFacts, CallTyped DEF DialFails, Cleared, IInv, TypeOK
  <1>1. TypeOK'
    <2>1. call' \in [Caller -> Calls]
      BY DEF Calls, Idle, Finished, Slots
    <2>2. conn' \in [Conn -> Phases]
      OBVIOUS
    <2>3. slot' \in [Device -> Slots]
      BY DEF Slots, Free
    <2>4. verb' \in [Device -> [pc : {"idle", "pass", "read", "close"}, ids : SUBSET Device]]
      OBVIOUS
    <2>5. spent' \in Bounds
      OBVIOUS
    <2>6. \A x \in Caller :
            /\ call'[x].holds # {} => call'[x].pc = "dial"
            /\ call'[x].pc = "wait" => call'[x].of \in Caller
            /\ call'[x].pc \in {"check", "open", "session"} => <<call'[x].of, call'[x].on>> \in Conn
      BY DEF Calls, Live, Slots, OwnInv, OwnAt, LeadInv, LeadAt, Idle
    <2> QED
      BY <2>1, <2>2, <2>3, <2>4, <2>5, <2>6
  <1> USE DEF Calls, Slots, Idle, Finished
  <1>2. RegInv'
    BY <1>1 DEF RegInv, OwnInv, OwnAt
  <1>3. PassInv'
    BY <1>1 DEF PassInv, RegInv, RevokedCut
  <1>4. RevokedCut'
    BY <1>1 DEF RevokedCut, PassInv, RegInv
  <1>5. LeadInv'
    BY <1>1 DEF LeadInv, LeadAt
  <1>6. OwnInv'
    BY <1>1 DEF OwnInv, OwnAt, RegInv, Live
  <1>7. BarInv'
    BY <1>1 DEF BarInv, BarAt, OwnInv, OwnAt, RegInv
  <1>8. LiveInv'
    BY <1>1 DEF LiveInv, Free
  <1> QED
    BY <1>1, <1>2, <1>3, <1>4, <1>5, <1>6, <1>7, <1>8

(* Timeout: only this caller's slots are cleared. *)
LEMMA TimeoutKeeps ==
  ASSUME IInv, NEW c \in Caller, Timeout(c)
  PROVE  IInv'
  <1> USE DialAssumption, ConnFacts, CallTyped DEF Timeout, Cleared, Abandoned, Dropped, Holders, Spend, IInv, TypeOK
  <1>1. TypeOK'
    <2>1. call' \in [Caller -> Calls]
      BY DEF Calls, Idle, Finished, Slots
    <2>2. conn' \in [Conn -> Phases]
      BY DEF Phases
    <2>3. slot' \in [Device -> Slots]
      BY DEF Slots, Free
    <2>4. verb' \in [Device -> [pc : {"idle", "pass", "read", "close"}, ids : SUBSET Device]]
      OBVIOUS
    <2>5. spent' \in Bounds
      BY SpendTyped
    <2>6. \A x \in Caller :
            /\ call'[x].holds # {} => call'[x].pc = "dial"
            /\ call'[x].pc = "wait" => call'[x].of \in Caller
            /\ call'[x].pc \in {"check", "open", "session"} => <<call'[x].of, call'[x].on>> \in Conn
      BY DEF Calls, Live, Slots, OwnInv, OwnAt, LeadInv, LeadAt, Idle
    <2> QED
      BY <2>1, <2>2, <2>3, <2>4, <2>5, <2>6
  <1> USE DEF Calls, Slots, Idle, Finished
  <1>2. RegInv'
    BY <1>1 DEF RegInv, OwnInv, OwnAt
  <1>3. PassInv'
    BY <1>1 DEF PassInv, RegInv, RevokedCut
  <1>4. RevokedCut'
    BY <1>1 DEF RevokedCut, PassInv, RegInv
  <1>5. LeadInv'
    BY <1>1 DEF LeadInv, LeadAt
  <1>6. OwnInv'
    BY <1>1 DEF OwnInv, OwnAt, RegInv, Live
  <1>7. BarInv'
    BY <1>1 DEF BarInv, BarAt, OwnInv, OwnAt, RegInv
  <1>8. LiveInv'
    BY <1>1 DEF LiveInv, Free
  <1> QED
    BY <1>1, <1>2, <1>3, <1>4, <1>5, <1>6, <1>7, <1>8

(* EndSession: connections only go. *)
LEMMA EndSessionKeeps ==
  ASSUME IInv, NEW c \in Caller, EndSession(c)
  PROVE  IInv'
  <1> USE DialAssumption, ConnFacts, CallTyped DEF EndSession, Dropped, Holders, IInv, TypeOK
  <1>1. TypeOK'
    <2>1. call' \in [Caller -> Calls]
      BY DEF Calls, Idle, Finished, Slots
    <2>2. conn' \in [Conn -> Phases]
      BY DEF Phases
    <2>3. slot' \in [Device -> Slots]
      OBVIOUS
    <2>4. verb' \in [Device -> [pc : {"idle", "pass", "read", "close"}, ids : SUBSET Device]]
      OBVIOUS
    <2>5. spent' \in Bounds
      OBVIOUS
    <2>6. \A x \in Caller :
            /\ call'[x].holds # {} => call'[x].pc = "dial"
            /\ call'[x].pc = "wait" => call'[x].of \in Caller
            /\ call'[x].pc \in {"check", "open", "session"} => <<call'[x].of, call'[x].on>> \in Conn
      BY DEF Calls, Live, Slots, OwnInv, OwnAt, LeadInv, LeadAt, Idle
    <2> QED
      BY <2>1, <2>2, <2>3, <2>4, <2>5, <2>6
  <1> USE DEF Calls, Slots, Idle, Finished
  <1>2. RegInv'
    BY <1>1 DEF RegInv, OwnInv, OwnAt
  <1>3. PassInv'
    BY <1>1 DEF PassInv, RegInv, RevokedCut
  <1>4. RevokedCut'
    BY <1>1 DEF RevokedCut, PassInv, RegInv
  <1>5. LeadInv'
    BY <1>1 DEF LeadInv, LeadAt
  <1>6. OwnInv'
    BY <1>1 DEF OwnInv, OwnAt, RegInv, Live
  <1>7. BarInv'
    BY <1>1 DEF BarInv, BarAt, OwnInv, OwnAt, RegInv
  <1>8. LiveInv'
    BY <1>1 DEF LiveInv, Free
  <1> QED
    BY <1>1, <1>2, <1>3, <1>4, <1>5, <1>6, <1>7, <1>8

(* BeforeConnect: the connection is not up yet. *)
LEMMA BeforeConnectKeeps ==
  ASSUME IInv, NEW c \in Caller, NEW d \in Device, BeforeConnect(c, d)
  PROVE  IInv'
  <1>u. /\ UNCHANGED <<call, reg, slot, revoked, verb, cut, barred, pardoned, spent>>
        /\ conn[<<c, d>>] = "none" /\ call[c].pc = "dial"
    BY DEF BeforeConnect
  <1>a. /\ conn' \in [Conn -> Phases] /\ conn'[<<c, d>>] \in {"gone", "handshake"}
        /\ \A k \in Conn \ {<<c, d>>} : conn'[k] = conn[k]
        /\ \A k \in Conn : conn'[k] = "none" => conn[k] = "none"
    BY ConnFacts DEF BeforeConnect, Phases, IInv, TypeOK
  <1>b. <<c, d>> \notin reg
    BY <1>u, ConnFacts DEF RegInv, IInv
  <1> USE DialAssumption, ConnFacts DEF IInv, TypeOK
  <1>1. TypeOK'
    <2>1. \A x \in Caller :
            /\ call'[x].holds # {} => call'[x].pc = "dial"
            /\ call'[x].pc = "wait" => call'[x].of \in Caller
            /\ call'[x].pc \in {"check", "open", "session"} => <<call'[x].of, call'[x].on>> \in Conn
      BY <1>u, <1>a, <1>b
    <2> QED
      BY <2>1, <1>u, <1>a, <1>b DEF Phases, Slots
  <1>2. RegInv'
    BY <1>u, <1>a, <1>b, <1>1 DEF RegInv, OwnInv
  <1>3. PassInv'
    BY <1>u, <1>a, <1>b, <1>1 DEF PassInv, RegInv, RevokedCut
  <1>4. RevokedCut'
    BY <1>u, <1>a, <1>b, <1>1 DEF RevokedCut, PassInv, RegInv
  <1>5. LeadInv'
    BY <1>u, <1>a, <1>b, <1>1 DEF LeadInv, LeadAt
  <1>6. OwnInv'
    BY <1>u, <1>a, <1>b, <1>1 DEF OwnInv, OwnAt
  <1>7. BarInv'
    BY <1>u, <1>a, <1>b, <1>1 DEF BarInv, BarAt, OwnInv, OwnAt
  <1>8. LiveInv'
    BY <1>u, <1>a, <1>b, <1>1 DEF LiveInv, Free
  <1> QED
    BY <1>1, <1>2, <1>3, <1>4, <1>5, <1>6, <1>7, <1>8 DEF IInv

(* Register: the connection is registered before it is up. *)
LEMMA RegisterKeeps ==
  ASSUME IInv, NEW c \in Caller, NEW d \in Device, Register(c, d)
  PROVE  IInv'
  <1> USE DialAssumption, ConnFacts, CallTyped DEF Register, IInv, TypeOK
  <1>1. TypeOK'
    <2>1. call' \in [Caller -> Calls]
      OBVIOUS
    <2>2. conn' \in [Conn -> Phases]
      BY DEF Phases
    <2>3. slot' \in [Device -> Slots]
      OBVIOUS
    <2>4. verb' \in [Device -> [pc : {"idle", "pass", "read", "close"}, ids : SUBSET Device]]
      OBVIOUS
    <2>5. spent' \in Bounds
      OBVIOUS
    <2>6. \A x \in Caller :
            /\ call'[x].holds # {} => call'[x].pc = "dial"
            /\ call'[x].pc = "wait" => call'[x].of \in Caller
            /\ call'[x].pc \in {"check", "open", "session"} => <<call'[x].of, call'[x].on>> \in Conn
      OBVIOUS
    <2> QED
      BY <2>1, <2>2, <2>3, <2>4, <2>5, <2>6
  <1> USE DEF Calls, Slots, Idle, Finished
  <1>2. RegInv'
    BY <1>1 DEF RegInv, OwnInv, OwnAt
  <1>3. PassInv'
    BY <1>1 DEF PassInv, RegInv, RevokedCut
  <1>4. RevokedCut'
    BY <1>1 DEF RevokedCut, PassInv, RegInv
  <1>5. LeadInv'
    BY <1>1 DEF LeadInv, LeadAt
  <1>6. OwnInv'
    BY <1>1 DEF OwnInv, OwnAt, RegInv, Live
  <1>7. BarInv'
    BY <1>1 DEF BarInv, BarAt, OwnInv, OwnAt, RegInv
  <1>8. LiveInv'
    BY <1>1 DEF LiveInv, Free
  <1> QED
    BY <1>1, <1>2, <1>3, <1>4, <1>5, <1>6, <1>7, <1>8

(* Recheck: a connection only comes up to a device that is not revoked. *)
LEMMA RecheckKeeps ==
  ASSUME IInv, NEW c \in Caller, NEW d \in Device, Recheck(c, d)
  PROVE  IInv'
  <1>t. conn \in [Conn -> Phases] /\ <<c, d>> \in Conn
    BY ConnFacts DEF IInv, TypeOK
  <1>u. /\ UNCHANGED <<call, slot, revoked, verb, cut, barred, pardoned, spent>>
        /\ conn[<<c, d>>] = "registered" /\ <<c, d>> \in reg
    BY <1>t DEF Recheck, RegInv, IInv
  <1>1. CASE d \in revoked
    <2>0. /\ conn' \in [Conn -> Phases]
          /\ \A k \in Conn : conn'[k] = "none" <=> conn[k] = "none"
          /\ conn'[<<c, d>>] = "gone" /\ \A k \in Conn \ {<<c, d>>} : conn'[k] = conn[k]
          /\ reg' = reg \ {<<c, d>>}
      BY <1>1, <1>t, <1>u DEF Recheck, Phases
    <2> USE DialAssumption, ConnFacts DEF IInv, TypeOK
    <2>1. TypeOK'
      <3>1. \A x \in Caller :
              /\ call'[x].holds # {} => call'[x].pc = "dial"
              /\ call'[x].pc = "wait" => call'[x].of \in Caller
              /\ call'[x].pc \in {"check", "open", "session"} => <<call'[x].of, call'[x].on>> \in Conn
        BY <1>u, <2>0
      <3> QED
        BY <3>1, <1>u, <2>0 DEF Phases, Slots
    <2>2. RegInv'
      BY <1>u, <2>0, <2>1 DEF RegInv, OwnInv
    <2>3. PassInv'
      BY <1>u, <2>0, <2>1 DEF PassInv, RegInv, RevokedCut
    <2>4. RevokedCut'
      BY <1>u, <2>0, <2>1 DEF RevokedCut, PassInv, RegInv
    <2>5. LeadInv'
      BY <1>u, <2>0, <2>1 DEF LeadInv, LeadAt
    <2>6. OwnInv'
      BY <1>u, <2>0, <2>1 DEF OwnInv, OwnAt
    <2>7. BarInv'
      BY <1>u, <2>0, <2>1 DEF BarInv, BarAt, OwnInv, OwnAt
    <2>8. LiveInv'
      BY <1>u, <2>0, <2>1 DEF LiveInv, Free
    <2> QED
      BY <2>1, <2>2, <2>3, <2>4, <2>5, <2>6, <2>7, <2>8 DEF IInv
  <1>2. CASE d \notin revoked
    <2>0. /\ conn' \in [Conn -> Phases]
          /\ \A k \in Conn : conn'[k] = "none" <=> conn[k] = "none"
          /\ conn'[<<c, d>>] = "up" /\ \A k \in Conn \ {<<c, d>>} : conn'[k] = conn[k]
          /\ reg' = reg
      BY <1>2, <1>t, <1>u DEF Recheck, Phases
    <2>a. \A k \in Conn : conn'[k] = "up" => conn[k] = "up" \/ k = <<c, d>>
      BY <2>0
    <2> USE DialAssumption, ConnFacts DEF IInv, TypeOK
    <2>1. TypeOK'
      <3>1. \A x \in Caller :
              /\ call'[x].holds # {} => call'[x].pc = "dial"
              /\ call'[x].pc = "wait" => call'[x].of \in Caller
              /\ call'[x].pc \in {"check", "open", "session"} => <<call'[x].of, call'[x].on>> \in Conn
        BY <1>2, <1>u, <2>0, <2>a
      <3> QED
        BY <3>1, <1>2, <1>u, <2>0, <2>a DEF Phases, Slots
    <2>2. RegInv'
      BY <1>2, <1>u, <2>0, <2>a, <2>1 DEF RegInv, OwnInv
    <2>3. PassInv'
      BY <1>2, <1>u, <2>0, <2>a, <2>1 DEF PassInv, RegInv, RevokedCut
    <2>4. RevokedCut'
      BY <1>2, <1>u, <2>0, <2>a, <2>1 DEF RevokedCut, PassInv, RegInv
    <2>5. LeadInv'
      BY <1>2, <1>u, <2>0, <2>a, <2>1 DEF LeadInv, LeadAt
    <2>6. OwnInv'
      BY <1>2, <1>u, <2>0, <2>a, <2>1 DEF OwnInv, OwnAt
    <2>7. BarInv'
      BY <1>2, <1>u, <2>0, <2>a, <2>1 DEF BarInv, BarAt, OwnInv, OwnAt
    <2>8. LiveInv'
      BY <1>2, <1>u, <2>0, <2>a, <2>1 DEF LiveInv, Free
    <2> QED
      BY <2>1, <2>2, <2>3, <2>4, <2>5, <2>6, <2>7, <2>8 DEF IInv
  <1> QED
    BY <1>1, <1>2

(* Win: the winner's slot was this caller's. *)
LEMMA WinKeeps ==
  ASSUME IInv, NEW c \in Caller, NEW d \in Device, Win(c, d)
  PROVE  IInv'
  <1>t. call \in [Caller -> Calls] /\ call[c] \in Calls
    BY DEF IInv, TypeOK
  <1>u. /\ UNCHANGED <<reg, revoked, verb, cut, barred, pardoned, spent>>
        /\ call[c].pc = "dial" /\ conn[<<c, d>>] = "up"
    BY DEF Win
  <1>0. /\ call' \in [Caller -> Calls] /\ \A x \in Caller \ {c} : call'[x] = call[x]
        /\ call'[c].pc = "session" /\ call'[c].holds = {} /\ call'[c].of = c /\ call'[c].on = d
    BY <1>t DEF Win, Calls
  <1>b. /\ conn' \in [Conn -> Phases] /\ conn'[<<c, d>>] = "up"
        /\ \A k \in Conn : conn'[k] = conn[k] \/ (conn[k] # "none" /\ conn'[k] = "gone")
    BY <1>u, ConnFacts DEF Win, Abandoned, Phases, IInv, TypeOK
  <1>c. \A e \in Device : slot'[e] \in {slot[e], Free, [kind |-> "live", by |-> c]}
    BY DEF Win, Cleared
  <1>d. slot' = [e \in Device |-> slot'[e]]
    BY DEF Win
  <1>e. /\ slot' \in [Device -> Slots]
        /\ \A e \in Device : slot'[e].kind # "free" => slot'[e] = slot[e] \/ slot'[e].by = c
    BY <1>c, <1>d DEF Slots, Free, IInv, TypeOK
  <1>f. ASSUME NEW e \in Device, slot[e].kind = "dialing", slot[e].by # c
        PROVE  slot'[e] = slot[e]
    <2>1. e \notin call[c].holds
      BY <1>f DEF IInv, LeadInv, LeadAt
    <2>2. slot[e] # [kind |-> "dialing", by |-> c]
      BY <1>f
    <2> QED
      BY <2>1, <2>2 DEF Win, Cleared
  <1> USE DialAssumption, ConnFacts DEF IInv, TypeOK
  <1>1. TypeOK'
    <2>1. \A x \in Caller :
            /\ call'[x].holds # {} => call'[x].pc = "dial"
            /\ call'[x].pc = "wait" => call'[x].of \in Caller
            /\ call'[x].pc \in {"check", "open", "session"} => <<call'[x].of, call'[x].on>> \in Conn
      BY <1>u, <1>0, <1>b, <1>e, <1>f
    <2> QED
      BY <2>1, <1>u, <1>0, <1>b, <1>e, <1>f DEF Phases, Slots
  <1>2. RegInv'
    BY <1>u, <1>0, <1>b, <1>e, <1>f, <1>1 DEF RegInv, OwnInv
  <1>3. PassInv'
    BY <1>u, <1>0, <1>b, <1>e, <1>f, <1>1 DEF PassInv, RegInv, RevokedCut
  <1>4. RevokedCut'
    BY <1>u, <1>0, <1>b, <1>e, <1>f, <1>1 DEF RevokedCut, PassInv, RegInv
  <1>5. LeadInv'
    <2> SUFFICES ASSUME NEW x \in Caller PROVE LeadAt(x)'
      BY DEF LeadInv
    <2>1. LeadAt(c)'
      BY <1>u, <1>0, <1>b, <1>e, <1>f, <1>1 DEF LeadInv, LeadAt
    <2>2. CASE x # c
      BY <2>2, <1>u, <1>0, <1>b, <1>e, <1>f, <1>1 DEF LeadInv, LeadAt
    <2> QED
      BY <2>1, <2>2
  <1>6. OwnInv'
    <2> SUFFICES ASSUME NEW x \in Caller PROVE OwnAt(x)'
      BY DEF OwnInv
    <2>1. OwnAt(c)'
      BY <1>u, <1>0, <1>b, <1>e, <1>f, <1>1 DEF OwnInv, OwnAt
    <2>2. CASE x # c
      BY <2>2, <1>u, <1>0, <1>b, <1>e, <1>f, <1>1 DEF OwnInv, OwnAt
    <2> QED
      BY <2>1, <2>2
  <1>7. BarInv'
    <2> SUFFICES ASSUME NEW x \in Caller PROVE BarAt(x)'
      BY DEF BarInv
    <2>1. BarAt(c)'
      BY <1>u, <1>0, <1>b, <1>e, <1>f, <1>1 DEF BarInv, BarAt, OwnInv, OwnAt
    <2>2. CASE x # c
      BY <2>2, <1>u, <1>0, <1>b, <1>e, <1>f, <1>1 DEF BarInv, BarAt, OwnInv, OwnAt
    <2> QED
      BY <2>1, <2>2
  <1>8. LiveInv'
    BY <1>u, <1>0, <1>b, <1>e, <1>f, <1>1 DEF LiveInv, Free
  <1> QED
    BY <1>1, <1>2, <1>3, <1>4, <1>5, <1>6, <1>7, <1>8 DEF IInv

(* Lost: connections only go. *)
LEMMA LostKeeps ==
  ASSUME IInv, NEW c \in Caller, NEW d \in Device, Lost(c, d)
  PROVE  IInv'
  <1> USE DialAssumption, ConnFacts, CallTyped DEF Lost, Spend, IInv, TypeOK
  <1>1. TypeOK'
    <2>1. call' \in [Caller -> Calls]
      OBVIOUS
    <2>2. conn' \in [Conn -> Phases]
      BY DEF Phases
    <2>3. slot' \in [Device -> Slots]
      OBVIOUS
    <2>4. verb' \in [Device -> [pc : {"idle", "pass", "read", "close"}, ids : SUBSET Device]]
      OBVIOUS
    <2>5. spent' \in Bounds
      BY SpendTyped
    <2>6. \A x \in Caller :
            /\ call'[x].holds # {} => call'[x].pc = "dial"
            /\ call'[x].pc = "wait" => call'[x].of \in Caller
            /\ call'[x].pc \in {"check", "open", "session"} => <<call'[x].of, call'[x].on>> \in Conn
      OBVIOUS
    <2> QED
      BY <2>1, <2>2, <2>3, <2>4, <2>5, <2>6
  <1> USE DEF Calls, Slots, Idle, Finished
  <1>2. RegInv'
    BY <1>1 DEF RegInv, OwnInv, OwnAt
  <1>3. PassInv'
    BY <1>1 DEF PassInv, RegInv, RevokedCut
  <1>4. RevokedCut'
    BY <1>1 DEF RevokedCut, PassInv, RegInv
  <1>5. LeadInv'
    BY <1>1 DEF LeadInv, LeadAt
  <1>6. OwnInv'
    BY <1>1 DEF OwnInv, OwnAt, RegInv, Live
  <1>7. BarInv'
    BY <1>1 DEF BarInv, BarAt, OwnInv, OwnAt, RegInv
  <1>8. LiveInv'
    BY <1>1 DEF LiveInv, Free
  <1> QED
    BY <1>1, <1>2, <1>3, <1>4, <1>5, <1>6, <1>7, <1>8

(* Unregister: the connection is gone. *)
LEMMA UnregisterKeeps ==
  ASSUME IInv, NEW c \in Caller, NEW d \in Device, Unregister(c, d)
  PROVE  IInv'
  <1> USE DialAssumption, ConnFacts, CallTyped DEF Unregister, IInv, TypeOK
  <1>1. TypeOK'
    <2>1. call' \in [Caller -> Calls]
      OBVIOUS
    <2>2. conn' \in [Conn -> Phases]
      OBVIOUS
    <2>3. slot' \in [Device -> Slots]
      OBVIOUS
    <2>4. verb' \in [Device -> [pc : {"idle", "pass", "read", "close"}, ids : SUBSET Device]]
      OBVIOUS
    <2>5. spent' \in Bounds
      OBVIOUS
    <2>6. \A x \in Caller :
            /\ call'[x].holds # {} => call'[x].pc = "dial"
            /\ call'[x].pc = "wait" => call'[x].of \in Caller
            /\ call'[x].pc \in {"check", "open", "session"} => <<call'[x].of, call'[x].on>> \in Conn
      OBVIOUS
    <2> QED
      BY <2>1, <2>2, <2>3, <2>4, <2>5, <2>6
  <1> USE DEF Calls, Slots, Idle, Finished
  <1>2. RegInv'
    BY <1>1 DEF RegInv, OwnInv, OwnAt
  <1>3. PassInv'
    BY <1>1 DEF PassInv, RegInv, RevokedCut
  <1>4. RevokedCut'
    BY <1>1 DEF RevokedCut, PassInv, RegInv
  <1>5. LeadInv'
    BY <1>1 DEF LeadInv, LeadAt
  <1>6. OwnInv'
    BY <1>1 DEF OwnInv, OwnAt, RegInv, Live
  <1>7. BarInv'
    BY <1>1 DEF BarInv, BarAt, OwnInv, OwnAt, RegInv
  <1>8. LiveInv'
    BY <1>1 DEF LiveInv, Free
  <1> QED
    BY <1>1, <1>2, <1>3, <1>4, <1>5, <1>6, <1>7, <1>8

(* Revoke: no pass for the device is under way. *)
LEMMA RevokeKeeps ==
  ASSUME IInv, NEW d \in Device, Revoke(d)
  PROVE  IInv'
  <1> USE DialAssumption, ConnFacts, CallTyped DEF Revoke, Spend, IInv, TypeOK
  <1>1. TypeOK'
    <2>1. call' \in [Caller -> Calls]
      OBVIOUS
    <2>2. conn' \in [Conn -> Phases]
      OBVIOUS
    <2>3. slot' \in [Device -> Slots]
      OBVIOUS
    <2>4. verb' \in [Device -> [pc : {"idle", "pass", "read", "close"}, ids : SUBSET Device]]
      OBVIOUS
    <2>5. spent' \in Bounds
      BY SpendTyped
    <2>6. \A x \in Caller :
            /\ call'[x].holds # {} => call'[x].pc = "dial"
            /\ call'[x].pc = "wait" => call'[x].of \in Caller
            /\ call'[x].pc \in {"check", "open", "session"} => <<call'[x].of, call'[x].on>> \in Conn
      OBVIOUS
    <2> QED
      BY <2>1, <2>2, <2>3, <2>4, <2>5, <2>6
  <1> USE DEF Calls, Slots, Idle, Finished
  <1>2. RegInv'
    BY <1>1 DEF RegInv, OwnInv, OwnAt
  <1>3. PassInv'
    BY <1>1 DEF PassInv, RegInv, RevokedCut
  <1>4. RevokedCut'
    BY <1>1 DEF RevokedCut, PassInv, RegInv
  <1>5. LeadInv'
    BY <1>1 DEF LeadInv, LeadAt
  <1>6. OwnInv'
    BY <1>1 DEF OwnInv, OwnAt, RegInv, Live
  <1>7. BarInv'
    BY <1>1 DEF BarInv, BarAt, OwnInv, OwnAt, RegInv
  <1>8. LiveInv'
    BY <1>1 DEF LiveInv, Free
  <1> QED
    BY <1>1, <1>2, <1>3, <1>4, <1>5, <1>6, <1>7, <1>8

(* Unrevoke: what holds of revoked devices no longer concerns it. *)
LEMMA UnrevokeKeeps ==
  ASSUME IInv, NEW d \in Device, Unrevoke(d)
  PROVE  IInv'
  <1> USE DialAssumption, ConnFacts, CallTyped DEF Unrevoke, Spend, IInv, TypeOK
  <1>1. TypeOK'
    <2>1. call' \in [Caller -> Calls]
      OBVIOUS
    <2>2. conn' \in [Conn -> Phases]
      OBVIOUS
    <2>3. slot' \in [Device -> Slots]
      OBVIOUS
    <2>4. verb' \in [Device -> [pc : {"idle", "pass", "read", "close"}, ids : SUBSET Device]]
      OBVIOUS
    <2>5. spent' \in Bounds
      BY SpendTyped
    <2>6. \A x \in Caller :
            /\ call'[x].holds # {} => call'[x].pc = "dial"
            /\ call'[x].pc = "wait" => call'[x].of \in Caller
            /\ call'[x].pc \in {"check", "open", "session"} => <<call'[x].of, call'[x].on>> \in Conn
      OBVIOUS
    <2> QED
      BY <2>1, <2>2, <2>3, <2>4, <2>5, <2>6
  <1> USE DEF Calls, Slots, Idle, Finished
  <1>2. RegInv'
    BY <1>1 DEF RegInv, OwnInv, OwnAt
  <1>3. PassInv'
    BY <1>1 DEF PassInv, RegInv, RevokedCut
  <1>4. RevokedCut'
    BY <1>1 DEF RevokedCut, PassInv, RegInv
  <1>5. LeadInv'
    BY <1>1 DEF LeadInv, LeadAt
  <1>6. OwnInv'
    BY <1>1 DEF OwnInv, OwnAt, RegInv, Live
  <1>7. BarInv'
    BY <1>1 DEF BarInv, BarAt, OwnInv, OwnAt, RegInv
  <1>8. LiveInv'
    BY <1>1 DEF LiveInv, Free
  <1> QED
    BY <1>1, <1>2, <1>3, <1>4, <1>5, <1>6, <1>7, <1>8

(* RemoteIds: every connection that is up is registered. *)
LEMMA RemoteIdsKeeps ==
  ASSUME IInv, NEW d \in Device, RemoteIds(d)
  PROVE  IInv'
  <1> USE DialAssumption, ConnFacts, CallTyped DEF RemoteIds, IInv, TypeOK
  <1>1. TypeOK'
    <2>1. call' \in [Caller -> Calls]
      OBVIOUS
    <2>2. conn' \in [Conn -> Phases]
      OBVIOUS
    <2>3. slot' \in [Device -> Slots]
      OBVIOUS
    <2>4. verb' \in [Device -> [pc : {"idle", "pass", "read", "close"}, ids : SUBSET Device]]
      OBVIOUS
    <2>5. spent' \in Bounds
      OBVIOUS
    <2>6. \A x \in Caller :
            /\ call'[x].holds # {} => call'[x].pc = "dial"
            /\ call'[x].pc = "wait" => call'[x].of \in Caller
            /\ call'[x].pc \in {"check", "open", "session"} => <<call'[x].of, call'[x].on>> \in Conn
      OBVIOUS
    <2> QED
      BY <2>1, <2>2, <2>3, <2>4, <2>5, <2>6
  <1> USE DEF Calls, Slots, Idle, Finished
  <1>2. RegInv'
    BY <1>1 DEF RegInv, OwnInv, OwnAt
  <1>3. PassInv'
    BY <1>1 DEF PassInv, RegInv, RevokedCut
  <1>4. RevokedCut'
    BY <1>1 DEF RevokedCut, PassInv, RegInv
  <1>5. LeadInv'
    BY <1>1 DEF LeadInv, LeadAt
  <1>6. OwnInv'
    BY <1>1 DEF OwnInv, OwnAt, RegInv, Live
  <1>7. BarInv'
    BY <1>1 DEF BarInv, BarAt, OwnInv, OwnAt, RegInv
  <1>8. LiveInv'
    BY <1>1 DEF LiveInv, Free
  <1> QED
    BY <1>1, <1>2, <1>3, <1>4, <1>5, <1>6, <1>7, <1>8

(* RefusedIds: a revoked device stays in the pass. *)
LEMMA RefusedIdsKeeps ==
  ASSUME IInv, NEW d \in Device, RefusedIds(d)
  PROVE  IInv'
  <1> USE DialAssumption, ConnFacts, CallTyped DEF RefusedIds, IInv, TypeOK
  <1>1. TypeOK'
    <2>1. call' \in [Caller -> Calls]
      OBVIOUS
    <2>2. conn' \in [Conn -> Phases]
      OBVIOUS
    <2>3. slot' \in [Device -> Slots]
      OBVIOUS
    <2>4. verb' \in [Device -> [pc : {"idle", "pass", "read", "close"}, ids : SUBSET Device]]
      OBVIOUS
    <2>5. spent' \in Bounds
      OBVIOUS
    <2>6. \A x \in Caller :
            /\ call'[x].holds # {} => call'[x].pc = "dial"
            /\ call'[x].pc = "wait" => call'[x].of \in Caller
            /\ call'[x].pc \in {"check", "open", "session"} => <<call'[x].of, call'[x].on>> \in Conn
      OBVIOUS
    <2> QED
      BY <2>1, <2>2, <2>3, <2>4, <2>5, <2>6
  <1> USE DEF Calls, Slots, Idle, Finished
  <1>2. RegInv'
    BY <1>1 DEF RegInv, OwnInv, OwnAt
  <1>3. PassInv'
    BY <1>1 DEF PassInv, RegInv, RevokedCut
  <1>4. RevokedCut'
    BY <1>1 DEF RevokedCut, PassInv, RegInv
  <1>5. LeadInv'
    BY <1>1 DEF LeadInv, LeadAt
  <1>6. OwnInv'
    BY <1>1 DEF OwnInv, OwnAt, RegInv, Live
  <1>7. BarInv'
    BY <1>1 DEF BarInv, BarAt, OwnInv, OwnAt, RegInv
  <1>8. LiveInv'
    BY <1>1 DEF LiveInv, Free
  <1> QED
    BY <1>1, <1>2, <1>3, <1>4, <1>5, <1>6, <1>7, <1>8

(* CloseIds: every connection up to the device is closed. *)
LEMMA CloseIdsKeeps ==
  ASSUME IInv, NEW d \in Device, CloseIds(d)
  PROVE  IInv'
  <1>u. /\ UNCHANGED <<call, reg, slot, revoked, barred, pardoned, spent>>
        /\ verb[d].pc = "close" /\ cut' = cut \cup ({d} \cap revoked)
    BY DEF CloseIds
  <1>a. /\ verb' \in [Device -> [pc : {"idle", "pass", "read", "close"}, ids : SUBSET Device]]
        /\ verb'[d].pc = "idle" /\ \A e \in Device \ {d} : verb'[e] = verb[e]
    BY DEF CloseIds, NoVerb, IInv, TypeOK
  <1>b. /\ conn' \in [Conn -> Phases]
        /\ \A k \in Conn : conn'[k] = conn[k] \/ (conn[k] # "none" /\ conn'[k] = "gone")
        /\ \A k \in Conn : k \in reg /\ k[2] \in verb[d].ids => conn'[k] = "gone"
    BY DEF CloseIds, RegInv, Phases, IInv, TypeOK
  <1> USE DialAssumption, ConnFacts DEF IInv, TypeOK
  <1>1. TypeOK'
    <2>1. \A x \in Caller :
            /\ call'[x].holds # {} => call'[x].pc = "dial"
            /\ call'[x].pc = "wait" => call'[x].of \in Caller
            /\ call'[x].pc \in {"check", "open", "session"} => <<call'[x].of, call'[x].on>> \in Conn
      BY <1>u, <1>a, <1>b
    <2> QED
      BY <2>1, <1>u, <1>a, <1>b DEF Phases, Slots
  <1>2. RegInv'
    BY <1>u, <1>a, <1>b, <1>1 DEF RegInv, OwnInv
  <1>3. PassInv'
    BY <1>u, <1>a, <1>b, <1>1 DEF PassInv, RegInv, RevokedCut
  <1>4. RevokedCut'
    BY <1>u, <1>a, <1>b, <1>1 DEF RevokedCut, PassInv, RegInv
  <1>5. LeadInv'
    BY <1>u, <1>a, <1>b, <1>1 DEF LeadInv, LeadAt
  <1>6. OwnInv'
    BY <1>u, <1>a, <1>b, <1>1 DEF OwnInv, OwnAt
  <1>7. BarInv'
    BY <1>u, <1>a, <1>b, <1>1 DEF BarInv, BarAt, OwnInv, OwnAt
  <1>8. LiveInv'
    BY <1>u, <1>a, <1>b, <1>1 DEF LiveInv, Free
  <1> QED
    BY <1>1, <1>2, <1>3, <1>4, <1>5, <1>6, <1>7, <1>8 DEF IInv

(* PassDropped: nothing is recorded as closed. *)
LEMMA PassDroppedKeeps ==
  ASSUME IInv, NEW d \in Device, PassDropped(d)
  PROVE  IInv'
  <1> USE DialAssumption, ConnFacts, CallTyped DEF PassDropped, NoVerb, Spend, IInv, TypeOK
  <1>1. TypeOK'
    <2>1. call' \in [Caller -> Calls]
      OBVIOUS
    <2>2. conn' \in [Conn -> Phases]
      OBVIOUS
    <2>3. slot' \in [Device -> Slots]
      OBVIOUS
    <2>4. verb' \in [Device -> [pc : {"idle", "pass", "read", "close"}, ids : SUBSET Device]]
      OBVIOUS
    <2>5. spent' \in Bounds
      BY SpendTyped
    <2>6. \A x \in Caller :
            /\ call'[x].holds # {} => call'[x].pc = "dial"
            /\ call'[x].pc = "wait" => call'[x].of \in Caller
            /\ call'[x].pc \in {"check", "open", "session"} => <<call'[x].of, call'[x].on>> \in Conn
      OBVIOUS
    <2> QED
      BY <2>1, <2>2, <2>3, <2>4, <2>5, <2>6
  <1> USE DEF Calls, Slots, Idle, Finished
  <1>2. RegInv'
    BY <1>1 DEF RegInv, OwnInv, OwnAt
  <1>3. PassInv'
    BY <1>1 DEF PassInv, RegInv, RevokedCut
  <1>4. RevokedCut'
    BY <1>1 DEF RevokedCut, PassInv, RegInv
  <1>5. LeadInv'
    BY <1>1 DEF LeadInv, LeadAt
  <1>6. OwnInv'
    BY <1>1 DEF OwnInv, OwnAt, RegInv, Live
  <1>7. BarInv'
    BY <1>1 DEF BarInv, BarAt, OwnInv, OwnAt, RegInv
  <1>8. LiveInv'
    BY <1>1 DEF LiveInv, Free
  <1> QED
    BY <1>1, <1>2, <1>3, <1>4, <1>5, <1>6, <1>7, <1>8

(* Every step keeps the inductive invariant. *)
LEMMA IInvStep == IInv /\ [Next]_vars => IInv'
  <1> SUFFICES ASSUME IInv, [Next]_vars PROVE IInv'
    OBVIOUS
  <1>1. ASSUME NEW c \in Caller, NEW devices \in SUBSET Device, Open(c, devices)
        PROVE  IInv'
    BY <1>1, OpenKeeps
  <1>2. ASSUME NEW c \in Caller, NEW d \in Device, NEW checked \in BOOLEAN, DialAlone(c, d, checked)
        PROVE  IInv'
    BY <1>2, DialAloneKeeps
  <1>3. ASSUME NEW c \in Caller,
               \/ Claim(c) \/ Check(c) \/ Reuse(c) \/ Stale(c) \/ Saturated(c) \/ Wake(c)
               \/ DialFails(c) \/ Timeout(c) \/ EndSession(c)
        PROVE  IInv'
    BY <1>3, ClaimKeeps, CheckKeeps, ReuseKeeps, StaleKeeps, SaturatedKeeps, WakeKeeps,
       DialFailsKeeps, TimeoutKeeps, EndSessionKeeps
  <1>4. ASSUME NEW c \in Caller, NEW d \in Device,
               \/ BeforeConnect(c, d) \/ Register(c, d) \/ Recheck(c, d) \/ Win(c, d)
               \/ Lost(c, d) \/ Unregister(c, d)
        PROVE  IInv'
    BY <1>4, BeforeConnectKeeps, RegisterKeeps, RecheckKeeps, WinKeeps, LostKeeps, UnregisterKeeps
  <1>5. ASSUME NEW d \in Device,
               \/ Revoke(d) \/ Unrevoke(d)
               \/ RemoteIds(d) \/ RefusedIds(d) \/ CloseIds(d) \/ PassDropped(d)
        PROVE  IInv'
    BY <1>5, RevokeKeeps, UnrevokeKeeps, RemoteIdsKeeps, RefusedIdsKeeps, CloseIdsKeeps,
       PassDroppedKeeps
  <1>6. CASE UNCHANGED vars
    BY <1>6 DEF vars, IInv, TypeOK, LiveInv, RegInv, PassInv, RevokedCut, LeadInv, LeadAt, OwnInv, OwnAt,
       BarInv, BarAt
  <1> QED
    BY <1>1, <1>2, <1>3, <1>4, <1>5, <1>6 DEF Next

(* The inductive invariant of the dial paths. *)
THEOREM Inductive == Spec => []IInv
  BY IInvInit, IInvStep, PTL DEF Spec

(* Every variable keeps its type. *)
THEOREM TypeCorrect == Spec => []TypeOK
  <1>1. IInv => TypeOK
    BY DEF IInv
  <1> QED
    BY <1>1, Inductive, PTL

(* Once a revocation's close pass has run no outbound connection to the      *)
(* device is up: after_handshake registers before it asks again, and         *)
(* close_refused reads the registry after the write.                         *)
THEOREM RevokedCutHolds == Spec => []RevokedCut
  <1>1. IInv => RevokedCut
    BY DEF IInv
  <1> QED
    BY <1>1, Inductive, PTL

(* A dial has connections to its candidates only; a lead holds the slots of  *)
(* all it has not given up; and what a caller has given up stays revoked, so *)
(* that before_connect refuses it, unless it has been pardoned.              *)
GiveAt(c) ==
    /\ call[c].pc = "dial" =>
          \A d \in Device : conn[<<c, d>>] # "none" => d \in call[c].want
    /\ call[c].holds # {} => call[c].holds = call[c].peers
    /\ call[c].pc \in {"claim", "check", "open", "wait", "dial"} =>
          \A d \in GivenUp(c) : d \notin pardoned[c] =>
              d \in revoked /\ conn[<<c, d>>] \in {"none", "gone"}
GiveInv == \A c \in Caller : GiveAt(c)

(* A step that leaves a caller's own record and connections alone.           *)
LEMMA GiveSame ==
  ASSUME TypeOK, NEW x \in Caller, GiveAt(x), call'[x] = call[x], revoked' = revoked, pardoned' = pardoned,
         \A d \in Device : conn'[<<x, d>>] \in {conn[<<x, d>>], "gone"},
         \A d \in Device : conn[<<x, d>>] = "none" => conn'[<<x, d>>] = "none"
  PROVE  GiveAt(x)'
  <1>1. GivenUp(x)' = GivenUp(x)
    BY DEF GivenUp
  <1>2. GivenUp(x) \subseteq Device
    BY DEF GivenUp, Calls, TypeOK
  <1> QED
    BY <1>1, <1>2 DEF GiveAt

(* A step of a caller that has not dialled yet, and keeps its candidates.    *)
LEMMA GiveMoved ==
  ASSUME TypeOK, NEW x \in Caller, GiveAt(x), OwnAt(x),
         call[x].pc \in {"claim", "check", "open", "wait"},
         call'[x].want = call[x].want, call'[x].peers = call[x].peers,
         call'[x].holds \in {{}, call[x].peers},
         revoked' = revoked, pardoned' = pardoned, conn' = conn
  PROVE  GiveAt(x)'
  <1>1. GivenUp(x)' = GivenUp(x) /\ GivenUp(x) \subseteq Device
    BY DEF GivenUp, Calls, TypeOK
  <1>2. \A d \in Device : conn[<<x, d>>] = "none"
    BY DEF OwnAt
  <1> QED
    BY <1>1, <1>2 DEF GiveAt

(* The steps of one caller: what it does to itself, and to the others.       *)
LEMMA GiveCall ==
  ASSUME IInv, GiveInv, NEW c \in Caller, NEW x \in Caller,
         \/ \E devices \in SUBSET Device : Open(c, devices)
         \/ \E d \in Device, checked \in BOOLEAN : DialAlone(c, d, checked)
         \/ Claim(c) \/ Check(c) \/ Reuse(c) \/ Stale(c) \/ Saturated(c) \/ Wake(c)
         \/ DialFails(c) \/ Timeout(c) \/ EndSession(c)
  PROVE  GiveAt(x)'
  <1>t. /\ call \in [Caller -> Calls] /\ conn \in [Conn -> Phases] /\ GiveAt(x) /\ OwnAt(x)
        /\ call[x] \in Calls /\ (call[x].holds # {} => call[x].pc = "dial")
    BY DEF IInv, TypeOK, GiveInv, OwnInv
  <1>d. \A k \in Conn : Dropped(c)[k] = conn[k] \/ (conn[k] # "none" /\ Dropped(c)[k] = "gone")
    BY DroppedFacts DEF IInv
  <1>a. \A k \in Conn : k[1] # c => Abandoned(c)[k] = conn[k]
    BY <1>t DEF Abandoned
  <1>o. CASE x # c
    <2>1. call'[x] = call[x] /\ revoked' = revoked /\ pardoned' = pardoned
      BY <1>o, <1>t DEF Open, DialAlone, Claim, Check, Reuse, Stale, Saturated, Wake, DialFails,
         Timeout, EndSession
    <2>2. conn' = conn \/ conn' = Dropped(c) \/ conn' = Abandoned(c)
      BY DEF Open, DialAlone, Claim, Check, Reuse, Stale, Saturated, Wake, DialFails,
         Timeout, EndSession
    <2>3. \A d \in Device : /\ conn'[<<x, d>>] \in {conn[<<x, d>>], "gone"}
                            /\ conn[<<x, d>>] = "none" => conn'[<<x, d>>] = "none"
      BY <1>o, <1>d, <1>a, <2>2, ConnFacts
    <2> QED
      BY <1>t, <2>1, <2>3, GiveSame DEF IInv
  <1>s. CASE x = c
    <2> USE <1>s, <1>t
    <2>1. ASSUME NEW devices \in SUBSET Device, Open(c, devices) PROVE GiveAt(c)'
      BY <2>1 DEF Open, GiveAt, GivenUp, Idle, Finished
    <2>2. ASSUME NEW d \in Device, NEW checked \in BOOLEAN, DialAlone(c, d, checked)
          PROVE  GiveAt(c)'
      BY <2>2, ConnFacts DEF DialAlone, GiveAt, GivenUp, Idle, Finished, OwnAt
    <2>3. CASE Claim(c)
      <3>1. /\ call'[c].want = call[c].want /\ call'[c].peers = call[c].peers
            /\ call'[c].holds \in {{}, call[c].peers} /\ call[c].pc = "claim"
            /\ UNCHANGED <<revoked, pardoned, conn>>
        <4>0. call[c].pc = "claim" /\ UNCHANGED <<revoked, pardoned, conn>> /\ call[c].holds = {}
          BY <2>3 DEF Claim
        <4>1. ASSUME NEW d \in Device,
                     call' = [call EXCEPT ![c] = [@ EXCEPT !.pc = "check", !.of = slot[d].by, !.on = d]]
              PROVE  call'[c].want = call[c].want /\ call'[c].peers = call[c].peers /\ call'[c].holds = {}
          BY <4>0, <4>1 DEF Calls
        <4>2. ASSUME NEW d \in Device,
                     call' = [call EXCEPT ![c] = [@ EXCEPT !.pc = "wait", !.of = slot[d].by]]
              PROVE  call'[c].want = call[c].want /\ call'[c].peers = call[c].peers /\ call'[c].holds = {}
          BY <4>0, <4>2 DEF Calls
        <4>3. ASSUME call' = [call EXCEPT ![c] = [@ EXCEPT !.pc = "dial", !.holds = call[c].peers]]
              PROVE  /\ call'[c].want = call[c].want /\ call'[c].peers = call[c].peers
                     /\ call'[c].holds = call[c].peers
          BY <4>3 DEF Calls
        <4>4. call[c].peers \subseteq Device
          BY DEF Calls
        <4> QED
          BY <2>3, <4>0, <4>1, <4>2, <4>3, <4>4 DEF Claim
      <3> QED
        BY <3>1, GiveMoved DEF IInv
    <2>4. CASE Check(c) /\ call[c].on \in revoked
      <3> DEFINE rest == call[c].peers \ {call[c].on}
      <3>1. \A d \in Device : conn[<<c, d>>] = "none" /\ conn'[<<c, d>>] = "none"
        BY <2>4, <1>d, ConnFacts DEF Check, OwnAt
      <3>2. CASE rest = {}
        BY <2>4, <3>1, <3>2 DEF Check, GiveAt, GivenUp, Finished, Idle
      <3>3. CASE rest # {}
        <4>1. /\ call'[c].want = call[c].want /\ call'[c].peers = rest /\ call'[c].pc = "claim"
              /\ call'[c].holds = {} /\ UNCHANGED <<revoked, pardoned>>
          <5>1. call' = [call EXCEPT ![c] = [call[c] EXCEPT !.pc = "claim", !.peers = rest,
                                                            !.of = None, !.on = None]]
            BY <2>4, <3>3 DEF Check
          <5>2. call[c].holds = {} /\ UNCHANGED <<revoked, pardoned>>
            BY <2>4 DEF Check
          <5> HIDE DEF rest
          <5> QED
            BY <5>1, <5>2 DEF Calls
        <4>2. GivenUp(c)' \subseteq GivenUp(c) \cup {call[c].on} /\ GivenUp(c)' \subseteq Device
          BY <4>1, <3>3 DEF GivenUp, Calls
        <4>3. \A d \in GivenUp(c) : d \notin pardoned[c] => d \in revoked
          BY <2>4 DEF GiveAt, Check
        <4> QED
          BY <4>1, <4>2, <4>3, <3>1, <2>4 DEF GiveAt
      <3> QED
        BY <3>2, <3>3
    <2>5. CASE \/ Reuse(c) \/ Stale(c) \/ Wake(c) \/ Saturated(c)
               \/ Check(c) /\ call[c].on \notin revoked
      <3>1. /\ call'[c].want = call[c].want /\ call'[c].peers = call[c].peers
            /\ call'[c].holds = {} /\ call[c].pc \in {"check", "open", "wait"}
            /\ UNCHANGED <<revoked, pardoned, conn>>
        <4>1. /\ call[c].holds = {} /\ call[c].pc \in {"check", "open", "wait"}
              /\ UNCHANGED <<revoked, pardoned, conn>>
          BY <2>5 DEF Reuse, Stale, Wake, Saturated, Check
        <4>2. CASE Reuse(c) \/ Check(c)
          <5>1. call' = [call EXCEPT ![c].pc = "session"] \/ call' = [call EXCEPT ![c].pc = "open"]
            BY <2>5, <4>2 DEF Reuse, Check, Stale, Wake, Saturated
          <5> QED
            BY <4>1, <5>1 DEF Calls
        <4>3. CASE Stale(c)
          BY <4>3 DEF Stale, Calls
        <4>4. CASE Wake(c)
          BY <4>4 DEF Wake, Calls
        <4>5. CASE Saturated(c)
          BY <4>5 DEF Saturated, Calls
        <4> QED
          BY <2>5, <4>1, <4>2, <4>3, <4>4, <4>5
      <3> QED
        BY <3>1, GiveMoved DEF IInv
    <2>6. CASE DialFails(c) \/ Timeout(c) \/ EndSession(c)
      BY <2>6 DEF DialFails, Timeout, EndSession, GiveAt, GivenUp, Finished, Idle
    <2> QED
      BY <2>1, <2>2, <2>3, <2>4, <2>5, <2>6
  <1> QED
    BY <1>o, <1>s

LEMMA GiveStep == IInv /\ GiveInv /\ [Next]_vars => GiveInv'
  <1> SUFFICES ASSUME IInv, GiveInv, [Next]_vars, NEW x \in Caller PROVE GiveAt(x)'
    BY DEF GiveInv
  <1>t. /\ call \in [Caller -> Calls] /\ conn \in [Conn -> Phases] /\ GiveAt(x) /\ OwnAt(x)
        /\ call[x] \in Calls /\ pardoned \in [Caller -> SUBSET Device]
    BY DEF IInv, TypeOK, GiveInv, OwnInv
  <1>1. ASSUME NEW c \in Caller,
               \/ \E devices \in SUBSET Device : Open(c, devices)
               \/ \E d \in Device, checked \in BOOLEAN : DialAlone(c, d, checked)
               \/ Claim(c) \/ Check(c) \/ Reuse(c) \/ Stale(c) \/ Saturated(c) \/ Wake(c)
               \/ DialFails(c) \/ Timeout(c) \/ EndSession(c)
        PROVE  GiveAt(x)'
    BY <1>1, GiveCall
  <1>2. ASSUME NEW c \in Caller, NEW d \in Device, BeforeConnect(c, d) PROVE GiveAt(x)'
    BY <1>2, <1>t, ConnFacts DEF BeforeConnect, GiveAt, GivenUp
  <1>3. ASSUME NEW c \in Caller, NEW d \in Device,
               Register(c, d) \/ Recheck(c, d) \/ Lost(c, d)
        PROVE  GiveAt(x)'
    <2>1. /\ GivenUp(x)' = GivenUp(x) /\ GivenUp(x) \subseteq Device
          /\ UNCHANGED <<call, revoked, pardoned>>
      BY <1>3, <1>t DEF Register, Recheck, Lost, GivenUp, Calls
    <2>2. \A e \in Device :
             /\ conn[<<x, e>>] \in {"none", "gone"} => conn'[<<x, e>>] = conn[<<x, e>>]
             /\ conn'[<<x, e>>] # "none" => conn[<<x, e>>] # "none"
      BY <1>3, <1>t, ConnFacts DEF Register, Recheck, Lost
    <2> QED
      BY <1>t, <2>1, <2>2 DEF GiveAt
  <1>4. ASSUME NEW c \in Caller, NEW d \in Device, Win(c, d) PROVE GiveAt(x)'
    <2>1. CASE x = c
      BY <1>4, <1>t, <2>1 DEF Win, GiveAt, GivenUp, Calls
    <2>2. CASE x # c
      <3>1. \A e \in Device : conn'[<<x, e>>] = conn[<<x, e>>]
        BY <1>4, <1>t, <2>2, ConnFacts DEF Win, Abandoned
      <3> QED
        BY <1>4, <1>t, <2>2, <3>1, GiveSame DEF Win, IInv
    <2> QED
      BY <2>1, <2>2
  <1>5. ASSUME NEW c \in Caller, NEW d \in Device, Unregister(c, d) PROVE GiveAt(x)'
    BY <1>5, <1>t DEF Unregister, GiveAt, GivenUp
  <1>6. ASSUME NEW d \in Device, Unrevoke(d) PROVE GiveAt(x)'
    BY <1>6, <1>t DEF Unrevoke, GiveAt, GivenUp
  <1>7. ASSUME NEW d \in Device,
               Revoke(d) \/ RemoteIds(d) \/ RefusedIds(d) \/ PassDropped(d)
        PROVE  GiveAt(x)'
    BY <1>7, <1>t DEF Revoke, RemoteIds, RefusedIds, PassDropped, GiveAt, GivenUp
  <1>8. ASSUME NEW d \in Device, CloseIds(d) PROVE GiveAt(x)'
    <2>1. \A e \in Device : /\ conn'[<<x, e>>] \in {conn[<<x, e>>], "gone"}
                            /\ conn[<<x, e>>] = "none" => conn'[<<x, e>>] = "none"
      BY <1>8, <1>t, ConnFacts DEF CloseIds, IInv, RegInv
    <2> QED
      BY <1>8, <1>t, <2>1, GiveSame DEF CloseIds, IInv
  <1>9. CASE UNCHANGED vars
    BY <1>9, <1>t DEF vars, GiveAt, GivenUp
  <1> QED
    BY <1>1, <1>2, <1>3, <1>4, <1>5, <1>6, <1>7, <1>8, <1>9 DEF Next

THEOREM GiveInductive == Spec => []GiveInv
  <1>1. Init => GiveInv
    BY ConnFacts DEF Init, GiveInv, GiveAt, GivenUp, Idle
  <1> QED
    BY <1>1, GiveStep, Inductive, PTL DEF Spec

(* However many callers share the cache, two leads never dial one device     *)
(* side by side: claim takes the slots of all a lead's candidates under the  *)
(* map's lock, and before_connect refuses a candidate it has given up.  Only *)
(* one that was un-revoked after it was given up escapes both.               *)
THEOREM OneDialPerDeviceHolds == Spec => []OneDialPerDevice
  <1>1. IInv /\ GiveInv => OneDialPerDevice
    <2> SUFFICES ASSUME IInv, GiveInv, NEW c \in Caller, Leads(c),
                        NEW d \in Dialling(c) \ pardoned[c]
                 PROVE  /\ ~Live(d)
                        /\ \A o \in Caller \ {c} : Leads(o) => d \notin Dialling(o) \ pardoned[o]
      BY DEF OneDialPerDevice
    <2>1. ASSUME NEW o \in Caller, Leads(o), d \in Dialling(o) \ pardoned[o]
          PROVE  slot[d].kind = "dialing" /\ slot[d].by = o
      <3>1. GiveAt(o) /\ LeadAt(o) /\ call[o].holds = call[o].peers /\ call[o].holds # {}
        BY <2>1 DEF GiveInv, GiveAt, Leads, IInv, LeadInv
      <3>2. d \in Device /\ d \in call[o].want /\ d \notin GivenUp(o)
        BY <2>1, <3>1 DEF GiveAt, Leads, Dialling
      <3> QED
        BY <3>1, <3>2 DEF GivenUp, LeadAt
    <2> QED
      BY <2>1 DEF Live
  <1> QED
    BY <1>1, Inductive, GiveInductive, PTL

(* A step that hands out a session does not reach a barred device.           *)
LEMMA HandOutStep ==
  ASSUME IInv, [Next]_vars
  PROVE  [\A c \in Caller : call'[c].pc = "session" /\ call[c].pc # "session"
              => call'[c].on \notin barred[c]]_vars
  <1> SUFFICES ASSUME Next, NEW x \in Caller, call'[x].pc = "session", call[x].pc # "session"
               PROVE  call'[x].on \notin barred[x]
    OBVIOUS
  <1>t. call \in [Caller -> Calls]
    BY DEF IInv, TypeOK
  <1>1. CASE Reuse(x)
    BY <1>1, <1>t DEF Reuse, BarInv, BarAt, IInv, Calls
  <1>2. ASSUME NEW d \in Device, Win(x, d) PROVE call'[x].on \notin barred[x]
    BY <1>2, <1>t DEF Win, BarInv, BarAt, IInv, Calls
  <1>3. Reuse(x) \/ \E d \in Device : Win(x, d)
    <2>1. ASSUME NEW c \in Caller, NEW devices \in SUBSET Device, Open(c, devices) PROVE FALSE
      BY <2>1, <1>t, CallTyped DEF Open, Idle
    <2>2. ASSUME NEW c \in Caller, NEW d \in Device, NEW checked \in BOOLEAN, DialAlone(c, d, checked)
          PROVE  FALSE
      BY <2>2, <1>t, CallTyped DEF DialAlone, Idle
    <2>3. ASSUME NEW c \in Caller, Claim(c) PROVE FALSE
      <3>1. PICK r : /\ call' = [call EXCEPT ![c] = r]
                     /\ r.pc \in {"check", "wait", "dial"}
        BY <2>3, <1>t DEF Claim, Calls
      <3> QED
        BY <3>1, <1>t
    <2>4. ASSUME NEW c \in Caller, Check(c) PROVE FALSE
      <3>1. PICK r : /\ call' = [call EXCEPT ![c] = r]
                     /\ r.pc \in {"done", "claim", "open"}
        <4>1. CASE call[c].on \in revoked
          <5> DEFINE rest == call[c].peers \ {call[c].on}
                     again == [call[c] EXCEPT !.pc = "claim", !.peers = rest, !.of = None, !.on = None]
          <5>1. call' = [call EXCEPT ![c] = Finished] \/ call' = [call EXCEPT ![c] = again]
            BY <2>4, <4>1 DEF Check
          <5>2. again.pc = "claim"
            BY <1>t DEF Calls
          <5> HIDE DEF again
          <5> QED
            BY <5>1, <5>2, CallTyped
        <4>2. CASE call[c].on \notin revoked
          BY <2>4, <4>2, <1>t DEF Check, Calls
        <4> QED
          BY <4>1, <4>2
      <3> QED
        BY <3>1, <1>t
    <2>5. ASSUME NEW c \in Caller, Stale(c) \/ Saturated(c) \/ Wake(c) PROVE FALSE
      <3>1. PICK r : /\ call' = [call EXCEPT ![c] = r]
                     /\ r.pc \in {"claim", "dial"}
        BY <2>5, <1>t DEF Stale, Saturated, Wake, Calls
      <3> QED
        BY <3>1, <1>t
    <2>6. ASSUME NEW c \in Caller, DialFails(c) \/ Timeout(c) \/ EndSession(c)
          PROVE  FALSE
      BY <2>6, <1>t, CallTyped DEF DialFails, Timeout, EndSession
    <2>7. ASSUME NEW c \in Caller, NEW d \in Device,
                 \/ BeforeConnect(c, d) \/ Register(c, d) \/ Recheck(c, d)
                 \/ Lost(c, d) \/ Unregister(c, d)
          PROVE  FALSE
      BY <2>7 DEF BeforeConnect, Register, Recheck, Lost, Unregister
    <2>8. ASSUME NEW d \in Device,
                 \/ Revoke(d) \/ Unrevoke(d)
                 \/ RemoteIds(d) \/ RefusedIds(d) \/ CloseIds(d) \/ PassDropped(d)
          PROVE  FALSE
      BY <2>8 DEF Revoke, Unrevoke, RemoteIds, RefusedIds, CloseIds, PassDropped
    <2>9. ASSUME NEW c \in Caller, Reuse(c) PROVE c = x
      BY <2>9, <1>t DEF Reuse
    <2>10. ASSUME NEW c \in Caller, NEW d \in Device, Win(c, d) PROVE c = x
      BY <2>10, <1>t DEF Win
    <2> QED
      BY <2>1, <2>2, <2>3, <2>4, <2>5, <2>6, <2>7, <2>8, <2>9, <2>10 DEF Next
  <1> QED
    BY <1>1, <1>2, <1>3

(* No session is handed out to a device revoked since before the caller last *)
(* looked: both the cache's hand-out check and the hooks' re-check refuse.   *)
THEOREM NeverHandedOutHolds == Spec => NeverHandedOut
  BY Inductive, HandOutStep, PTL DEF Spec, NeverHandedOut
=============================================================================
