--------------------------- MODULE AdmissionProofs ---------------------------
(* Proofs about Admission, for every set of devices, connections, sessions,  *)
(* verbs and inputs the assumptions admit.                                   *)
EXTENDS Admission, FiniteSetTheorems, TLAPS

-----------------------------------------------------------------------------
(* Types. *)

\* The resting records have their types.
LEMMA IdleTypes ==
    /\ IdleSession \in SessType
    /\ IdleSession.pc = "idle"
    /\ IdleStrip \in StripType
    /\ IdleRev \in RevType
    /\ NoCounts \in [Principal -> Int]
    /\ NoRoster \in ViewType
  BY ConstantsAssumption
  DEF IdleSession, SessType, IdleStrip, StripType, IdleRev, RevType,
      NoCounts, NoRoster, ViewType, AnyUser

\* Whatever is installed is a view.
LEMMA ViewTypes ==
    ASSUME GateTypeOK PROVE view \in ViewType
  BY IdleTypes, InputsAssumption DEF GateTypeOK

\* What the gate answers for a device.
LEMMA GateTypes ==
    ASSUME GateTypeOK, StoreTypeOK, NEW d \in Device
    PROVE  /\ RosterUser(d) \in AnyUser
           /\ ViewUser(d) \in AnyUser
           /\ \A u \in AnyUser : Vouched(u) \in AnyUser /\ (Vouched(u) # NoUser => Vouched(u) = u)
           /\ PairPrincipals(d) \in SUBSET Principal
           /\ ViewUser(d) # NoUser => RosterPrincipals(d) \in SUBSET Principal
  BY ViewTypes, InputsAssumption
  DEF RosterUser, ViewUser, Vouched, PairPrincipals, RosterPrincipals, StoreTypeOK, ViewType, RowType,
      AnyUser, Principal

\* Replacing one session by a well-typed one keeps the session types.
LEMMA AdvanceType ==
    ASSUME SessTypeOK, NEW s \in Stream, NEW r \in SessType, Advance(s, r),
           r.pc # "idle" => r.conn \in Conn,
           grandfathered' \subseteq Stream
    PROVE  SessTypeOK'
  BY DEF SessTypeOK, Advance

\* So does refusing or ending one.
LEMMA RefuseType ==
    ASSUME SessTypeOK, NEW s \in Stream, Refuse(s), UNCHANGED grandfathered
    PROVE  SessTypeOK'
  BY AdvanceType, IdleTypes DEF SessTypeOK, Refuse

\* A change of the view or of its staleness, as sessions note it.
Flips == \E by \in {1, 2} : Flip(by)

\* So does recording that the roster's answer may have changed.
LEMMA FlipType ==
    ASSUME SessTypeOK, Flips, UNCHANGED grandfathered
    PROVE  SessTypeOK'
<1>0. PICK by \in {1, 2} : Flip(by) BY DEF Flips
<1>1. ASSUME NEW s \in Stream
      PROVE  [sess[s] EXCEPT !.flips = IF @ + by < 2 THEN @ + by ELSE 2] \in SessType
  BY <1>1 DEF SessTypeOK, SessType
<1> QED BY <1>0, <1>1 DEF SessTypeOK, Flip, SessType

\* Types hold initially.
LEMMA TypeInit == Init => TypeOK
<1> SUFFICES ASSUME Init PROVE TypeOK
  OBVIOUS
<1>1. GateTypeOK BY DEF Init, GateTypeOK
<1>2. StoreTypeOK BY InputsAssumption DEF Init, StoreTypeOK
<1>3. ConnTypeOK BY IdleTypes DEF Init, ConnTypeOK, AnyUser
<1>4. SessTypeOK BY IdleTypes DEF Init, SessTypeOK
<1>5. OpTypeOK BY IdleTypes DEF Init, OpTypeOK
<1> QED BY <1>1, <1>2, <1>3, <1>4, <1>5 DEF TypeOK

\* A connection's steps keep the types.
LEMMA TypeConn ==
    ASSUME TypeOK, NEW c \in Conn, ConnStep(c) PROVE TypeOK'
<1> USE DEF TypeOK, gateVars, storeVars, opVars
<1>a. ConnTypeOK'
  <2>1. CASE Accept(c) BY <2>1 DEF Accept, ConnTypeOK
  <2>2. CASE ReadRosterUser(c)
    <3>1. ViewUser(Remote[c]) \in AnyUser BY GateTypes, ConstantsAssumption
    <3> QED BY <2>2, <3>1 DEF ReadRosterUser, ConnTypeOK
  <2>6. CASE TagRosterUser(c)
    BY <2>6 DEF TagRosterUser, Vouched, ConnTypeOK, AnyUser
  <2>3. CASE RegisterChecked(c) BY <2>3 DEF RegisterChecked, ConnTypeOK
  <2>4. CASE PeerCloses(c) BY <2>4 DEF PeerCloses, ConnTypeOK
  <2>5. CASE Deregister(c) BY <2>5, IdleTypes DEF Deregister, ConnTypeOK
  <2> QED BY <2>1, <2>2, <2>3, <2>4, <2>5, <2>6 DEF ConnStep
<1>b. UNCHANGED <<gateVars, storeVars, allow, sess, opVars, grandfathered>>
  BY DEF ConnStep, Accept, ReadRosterUser, TagRosterUser, RegisterChecked, PeerCloses, Deregister
<1> QED BY <1>a, <1>b DEF GateTypeOK, StoreTypeOK, SessTypeOK, OpTypeOK

\* A session's steps keep the types.
LEMMA TypeSession ==
    ASSUME TypeOK, NEW s \in Stream, SessionStep(s) PROVE TypeOK'
<1> USE DEF TypeOK
<1>t. sess[s] \in SessType /\ (sess[s].pc # "idle" => sess[s].conn \in Conn)
  BY DEF SessTypeOK
<1>d. sess[s].pc # "idle" => Remote[sess[s].conn] \in Device
  BY <1>t, ConstantsAssumption
<1>0. UNCHANGED <<gateVars, storeVars, allow, conn, opVars>>
  BY DEF SessionStep, Initialize, AskBefore, ReadBefore, ReadRevoked, ReadPair, ReadView, ReadRoster,
           CheckRosterIdentity, AskAfter, AdmitRosterUser,
         AdmitSession, RefuseSession, EndSession, connVars
<1>1. CASE \E c \in Conn : Initialize(s, c)
  <2> PICK c \in Conn : Initialize(s, c) BY <1>1
  <2> DEFINE r == NewSession(c)
  <2>1. r \in SessType /\ r.conn \in Conn
    BY IdleTypes DEF NewSession, IdleSession, SessType, StoreTypeOK
  <2>2. SessTypeOK'
    BY <2>1, AdvanceType DEF Initialize, SessTypeOK
  <2> QED BY <1>0, <2>2 DEF Initialize, GateTypeOK, StoreTypeOK, OpTypeOK, ConnTypeOK, gateVars, storeVars, opVars, connVars
<1>2. CASE AskBefore(s)
  <2> DEFINE r == [sess[s] EXCEPT !.pc = "asked", !.before = ViewUser(Remote[sess[s].conn])]
  <2>1. r \in SessType /\ r.conn \in Conn
    BY <1>2, <1>t, <1>d, GateTypes DEF AskBefore, SessType, Resolving
  <2>2. UNCHANGED grandfathered /\ (Advance(s, r) \/ Refuse(s))
    BY <1>2 DEF AskBefore
  <2>3. SessTypeOK'
    BY <2>1, <2>2, AdvanceType, RefuseType DEF SessTypeOK
  <2> QED BY <1>0, <1>2, <2>3 DEF AskBefore, GateTypeOK, StoreTypeOK, OpTypeOK, ConnTypeOK, gateVars, storeVars, opVars, connVars
<1>3. CASE ReadBefore(s)
  <2> DEFINE r == [sess[s] EXCEPT !.pc = "before", !.before = Vouched(sess[s].before)]
  <2>1. r \in SessType /\ r.conn \in Conn
    BY <1>3, <1>t, <1>d, GateTypes DEF ReadBefore, SessType, Resolving
  <2>2. UNCHANGED grandfathered /\ (Advance(s, r) \/ Refuse(s))
    BY <1>3 DEF ReadBefore
  <2>3. SessTypeOK'
    BY <2>1, <2>2, AdvanceType, RefuseType DEF SessTypeOK
  <2> QED BY <1>0, <1>3, <2>3 DEF ReadBefore, GateTypeOK, StoreTypeOK, OpTypeOK, ConnTypeOK, gateVars, storeVars, opVars, connVars
<1>9. CASE ReadRevoked(s)
  <2> DEFINE r == [sess[s] EXCEPT !.pc = "cleared"]
  <2>1. r \in SessType /\ r.conn \in Conn
    BY <1>9, <1>t DEF ReadRevoked, SessType, Resolving
  <2>2. UNCHANGED grandfathered /\ (Advance(s, r) \/ Refuse(s))
    BY <1>9 DEF ReadRevoked
  <2>3. SessTypeOK'
    BY <2>1, <2>2, AdvanceType, RefuseType DEF SessTypeOK
  <2> QED BY <1>0, <1>9, <2>3 DEF ReadRevoked, GateTypeOK, StoreTypeOK, OpTypeOK, ConnTypeOK, gateVars, storeVars, opVars, connVars
<1>10. CASE ReadPair(s)
  <2> DEFINE r == [sess[s] EXCEPT !.pc = "paired", !.pair = PairPrincipals(Remote[sess[s].conn])]
  <2>1. r \in SessType /\ r.conn \in Conn
    BY <1>10, <1>t, <1>d, GateTypes DEF ReadPair, SessType, Resolving
  <2>2. UNCHANGED grandfathered /\ (Advance(s, r) \/ Refuse(s))
    BY <1>10 DEF ReadPair
  <2>3. SessTypeOK'
    BY <2>1, <2>2, AdvanceType, RefuseType DEF SessTypeOK
  <2> QED BY <1>0, <1>10, <2>3 DEF ReadPair, GateTypeOK, StoreTypeOK, OpTypeOK, ConnTypeOK, gateVars, storeVars, opVars, connVars
<1>11. CASE ReadView(s)
  <2> DEFINE r == [sess[s] EXCEPT !.pc = "named", !.seen = ViewUser(Remote[sess[s].conn]),
                       !.ids = IF ViewUser(Remote[sess[s].conn]) = NoUser THEN {} ELSE RosterPrincipals(Remote[sess[s].conn])]
  <2>1. r \in SessType /\ r.conn \in Conn
    BY <1>11, <1>t, <1>d, GateTypes DEF ReadView, SessType, Resolving
  <2>2. UNCHANGED grandfathered /\ (Advance(s, r) \/ Refuse(s))
    BY <1>11 DEF ReadView
  <2>3. SessTypeOK'
    BY <2>1, <2>2, AdvanceType, RefuseType DEF SessTypeOK
  <2> QED BY <1>0, <1>11, <2>3 DEF ReadView, GateTypeOK, StoreTypeOK, OpTypeOK, ConnTypeOK, gateVars, storeVars, opVars, connVars
<1>4. CASE ReadRoster(s)
  <2> DEFINE r == [sess[s] EXCEPT !.pc = "vouched"]
             q == [sess[s] EXCEPT !.pc = "resolved", !.ids = sess[s].pair]
  <2>1. r \in SessType /\ r.conn \in Conn /\ q \in SessType /\ q.conn \in Conn
    BY <1>4, <1>t DEF ReadRoster, SessType, Resolving
  <2>3. UNCHANGED grandfathered /\ (Advance(s, r) \/ Advance(s, q) \/ Refuse(s))
    BY <1>4 DEF ReadRoster
  <2>4. SessTypeOK'
    BY <2>1, <2>3, AdvanceType, RefuseType DEF SessTypeOK
  <2> QED BY <1>0, <1>4, <2>4 DEF ReadRoster, GateTypeOK, StoreTypeOK, OpTypeOK, ConnTypeOK, gateVars, storeVars, opVars, connVars
<1>12. CASE CheckRosterIdentity(s)
  <2> DEFINE r == [sess[s] EXCEPT !.pc = "resolved", !.roster = TRUE]
  <2>1. r \in SessType /\ r.conn \in Conn
    BY <1>12, <1>t DEF CheckRosterIdentity, SessType, Resolving
  <2>2. UNCHANGED grandfathered /\ (Advance(s, r) \/ Refuse(s))
    BY <1>12 DEF CheckRosterIdentity
  <2>3. SessTypeOK'
    BY <2>1, <2>2, AdvanceType, RefuseType DEF SessTypeOK
  <2> QED BY <1>0, <1>12, <2>3 DEF CheckRosterIdentity, GateTypeOK, StoreTypeOK, OpTypeOK, ConnTypeOK, gateVars, storeVars, opVars, connVars
<1>13. CASE AskAfter(s)
  <2> DEFINE r == [sess[s] EXCEPT !.pc = "after", !.seen = ViewUser(Remote[sess[s].conn])]
  <2>1. r \in SessType /\ r.conn \in Conn
    BY <1>13, <1>t, <1>d, GateTypes DEF AskAfter, SessType, Resolving
  <2>2. UNCHANGED grandfathered /\ (Advance(s, r) \/ Refuse(s))
    BY <1>13 DEF AskAfter
  <2>3. SessTypeOK'
    BY <2>1, <2>2, AdvanceType, RefuseType DEF SessTypeOK
  <2> QED BY <1>0, <1>13, <2>3 DEF AskAfter, GateTypeOK, StoreTypeOK, OpTypeOK, ConnTypeOK, gateVars, storeVars, opVars, connVars
<1>5. CASE AdmitRosterUser(s)
  <2> DEFINE c == sess[s].conn
             r == [sess[s] EXCEPT !.pc = "promoted"]
             ru == Discriminator(s)
  <2>0. c \in Conn /\ ru \in AnyUser
    BY <1>5, <1>t, <1>d, GateTypes DEF AdmitRosterUser, Discriminator, SessType
  <2>1. r \in SessType /\ r.conn \in Conn
    BY <2>0, <1>t DEF SessType
  <2>2. UNCHANGED grandfathered /\ (Advance(s, r) \/ Refuse(s))
    BY <1>5 DEF AdmitRosterUser
  <2>3. SessTypeOK'
    BY <2>1, <2>2, AdvanceType, RefuseType DEF SessTypeOK
  <2>4. (UNCHANGED cuser \/ cuser' = [cuser EXCEPT ![c] = ru]) /\ UNCHANGED admitted
    BY <1>5 DEF AdmitRosterUser
  <2>5. ConnTypeOK'
    BY <1>0, <2>0, <2>4 DEF ConnTypeOK
  <2> QED BY <1>0, <2>3, <2>5 DEF GateTypeOK, StoreTypeOK, OpTypeOK, gateVars, storeVars, opVars
<1>6. CASE \E v \in Service : AdmitSession(s, v)
  <2> PICK v \in Service : AdmitSession(s, v) BY <1>6
  <2> DEFINE c == sess[s].conn
             r == [sess[s] EXCEPT !.pc = "serving", !.svc = v]
             n == [p \in Principal |-> IF p \in sess[s].ids THEN admitted[c][p] + 1 ELSE admitted[c][p]]
  <2>1. c \in Conn BY <1>t DEF AdmitSession
  <2>2. r \in SessType /\ r.conn \in Conn
    BY <2>1, <1>t DEF SessType
  <2>3. SessTypeOK'
    BY <2>2, AdvanceType DEF AdmitSession, SessTypeOK
  <2>4. n \in [Principal -> Int]
    BY <2>1 DEF ConnTypeOK
  <2>5. admitted' = [admitted EXCEPT ![c] = n] /\ UNCHANGED cuser
    BY <2>1 DEF AdmitSession, Recorded, ConnTypeOK
  <2>6. ConnTypeOK'
    BY <1>0, <2>1, <2>4, <2>5 DEF ConnTypeOK
  <2> QED BY <1>0, <2>3, <2>6 DEF GateTypeOK, StoreTypeOK, OpTypeOK, gateVars, storeVars, opVars
<1>7. CASE RefuseSession(s)
  <2>1. SessTypeOK' BY <1>7, RefuseType DEF RefuseSession
  <2> QED BY <1>0, <1>7, <2>1 DEF RefuseSession, GateTypeOK, StoreTypeOK, OpTypeOK, ConnTypeOK, gateVars, storeVars, opVars, connVars
<1>8. CASE EndSession(s)
  <2> DEFINE c == sess[s].conn
             n == [p \in Principal |-> IF p \in sess[s].ids THEN admitted[c][p] + (-1) ELSE admitted[c][p]]
  <2>1. c \in Conn BY <1>8, <1>t DEF EndSession, Serving
  <2>2. SessTypeOK' BY <1>8, RefuseType DEF EndSession
  <2>3. n \in [Principal -> Int]
    BY <2>1 DEF ConnTypeOK
  <2>4. (UNCHANGED admitted \/ admitted' = [admitted EXCEPT ![c] = n]) /\ UNCHANGED cuser
    BY <1>8, <2>1 DEF EndSession, Recorded, ConnTypeOK
  <2>5. ConnTypeOK'
    BY <1>0, <2>1, <2>3, <2>4 DEF ConnTypeOK
  <2> QED BY <1>0, <2>2, <2>5 DEF GateTypeOK, StoreTypeOK, OpTypeOK, gateVars, storeVars, opVars
<1> QED BY <1>1, <1>2, <1>3, <1>4, <1>5, <1>6, <1>7, <1>8, <1>9, <1>10, <1>11, <1>12, <1>13
        DEF SessionStep

\* What a verb names and finds.
LEMMA NamedTypes ==
    ASSUME GateTypeOK, StoreTypeOK
    PROVE  /\ \A n : UnpairPrincipals(n) \in SUBSET Principal
           /\ \A p : RevocationTargets(p) \in SUBSET Device
           /\ \A P : UNION {EndpointsFor(p) : p \in P} \in SUBSET Device
           /\ \A p : NamedUser(p) \in AnyUser
<1>1. \A n : UnpairPrincipals(n) \in SUBSET Principal
  BY InputsAssumption DEF UnpairPrincipals, StoreTypeOK, RowType, AnyUser, Principal
<1> QED
  BY <1>1, ConstantsAssumption DEF RevocationTargets, EndpointsFor, NamedUser, AnyUser

\* The steps of the verbs that hold reload_lock keep the types.
LEMMA TypeLocked ==
    ASSUME TypeOK, LockedStep PROVE TypeOK'
<1> USE DEF TypeOK, gateVars, storeVars, connVars
<1>1. CASE \E v \in Views : SwapView(v)
  <2>1. SessTypeOK' BY <1>1, FlipType DEF SwapView, Flips
  <2> QED BY <1>1, <2>1 DEF SwapView, GateTypeOK, StoreTypeOK, ConnTypeOK, OpTypeOK
<1>2. CASE SeverRoster
  <2>1. ConnTypeOK' BY <1>2 DEF SeverRoster, Sever, ConnTypeOK
  <2> QED BY <1>2, <2>1 DEF SeverRoster, GateTypeOK, StoreTypeOK, SessTypeOK, OpTypeOK
<1>3. ASSUME NEW v \in Service, NEW p \in Names \cap Principal, RevokeServiceAllow(v, p)
      PROVE  TypeOK'
  <2>1. strip' \in StripType
    BY <1>3, IdleTypes DEF RevokeServiceAllow, IdleStrip, StripType
  <2>2. allow' \in [Service -> SUBSET Principal]
    BY <1>3 DEF RevokeServiceAllow, StoreTypeOK
  <2> QED BY <1>3, <2>1, <2>2 DEF RevokeServiceAllow, GateTypeOK, StoreTypeOK, ConnTypeOK, SessTypeOK, OpTypeOK
<1>4. ASSUME NEW v \in Service, NEW p \in Names \cap Principal, GrantServiceAllow(v, p)
      PROVE  TypeOK'
  BY <1>4 DEF GrantServiceAllow, opVars, GateTypeOK, StoreTypeOK, ConnTypeOK, SessTypeOK, OpTypeOK
<1>5. ASSUME NEW n \in Nick, UnpairNames(n) PROVE TypeOK'
  <2> DEFINE r == [IdleStrip EXCEPT !.pc = "named", !.prins = UnpairPrincipals(n), !.nick = n]
  <2>0. r \in StripType
    BY <1>5, NamedTypes, IdleTypes DEF IdleStrip, StripType
  <2>1. strip' \in StripType /\ removing' \subseteq Nick
    BY <1>5, <2>0 DEF UnpairNames, OpTypeOK
  <2> QED BY <1>5, <2>1 DEF UnpairNames, GateTypeOK, StoreTypeOK, ConnTypeOK, SessTypeOK, OpTypeOK
<1>6. CASE UnpairStrips
  <2>1. strip' \in StripType
    BY <1>6 DEF UnpairStrips, OpTypeOK, StripType
  <2>2. allow' \in [Service -> SUBSET Principal]
    BY <1>6 DEF UnpairStrips, StoreTypeOK
  <2> QED BY <1>6, <2>1, <2>2 DEF UnpairStrips, GateTypeOK, StoreTypeOK, ConnTypeOK, SessTypeOK, OpTypeOK
<1>7. CASE StripTargets
  <2>1. strip' \in StripType
    BY <1>7, NamedTypes DEF StripTargets, OpTypeOK, StripType
  <2> QED BY <1>7, <2>1 DEF StripTargets, GateTypeOK, StoreTypeOK, ConnTypeOK, SessTypeOK, OpTypeOK
<1>8. CASE StripSevers
  <2>1. ConnTypeOK' BY <1>8 DEF StripSevers, Sever, ConnTypeOK
  <2>2. removing' \subseteq Nick BY <1>8 DEF StripSevers, OpTypeOK, StripType
  <2> QED BY <1>8, <2>1, <2>2, IdleTypes DEF StripSevers, GateTypeOK, StoreTypeOK, SessTypeOK, OpTypeOK
<1>9. ASSUME NEW v \in Service, NEW list \in Lists \cup {{}}, ReplaceService(v, list)
      PROVE  TypeOK'
  <2>1. allow' \in [Service -> SUBSET Principal]
    BY <1>9, InputsAssumption DEF ReplaceService, StoreTypeOK
  <2> QED BY <1>9, <2>1 DEF ReplaceService, opVars, GateTypeOK, StoreTypeOK, ConnTypeOK, SessTypeOK, OpTypeOK
<1> QED BY <1>1, <1>2, <1>3, <1>4, <1>5, <1>6, <1>7, <1>8, <1>9 DEF LockedStep

\* The steps of pairing, unpairing and revocation keep the types.
LEMMA TypeStore ==
    ASSUME TypeOK, StoreStep PROVE TypeOK'
<1> USE DEF TypeOK, gateVars, storeVars, connVars, GateTypeOK, ConnTypeOK, SessTypeOK
<1>1. ASSUME NEW n \in Nick, UnpairDeletes(n) PROVE TypeOK'
  BY <1>1 DEF UnpairDeletes, StoreTypeOK, OpTypeOK
<1>2. ASSUME NEW d \in Device, NEW row \in Rows, WriteRow(d, row) PROVE TypeOK'
  BY <1>2 DEF WriteRow, opVars, StoreTypeOK, OpTypeOK
<1>3. ASSUME NEW o \in Op, NEW p \in Names, PeerRevoke(o, p) PROVE TypeOK'
  <2> DEFINE r == [IdleRev EXCEPT !.pc = "user", !.devs = RevocationTargets(p) \cup ({p} \cap Device),
                                  !.user = NamedUser(p)]
  <2>1. r \in RevType BY NamedTypes, IdleTypes DEF RevType, IdleRev
  <2> QED BY <1>3, <2>1 DEF PeerRevoke, StoreTypeOK, OpTypeOK
<1>4. ASSUME NEW o \in Op, NEW p \in Names, PeerUnrevoke(o, p) PROVE TypeOK'
  <2> DEFINE r == [IdleRev EXCEPT !.pc = "lift", !.devs = RevocationTargets(p) \cup ({p} \cap Device)]
  <2>1. r \in RevType BY NamedTypes, IdleTypes DEF RevType, IdleRev
  <2> QED BY <1>4, <2>1 DEF PeerUnrevoke, StoreTypeOK, OpTypeOK
<1>5. ASSUME NEW o \in Op, RevokeWritesUser(o) PROVE TypeOK'
  BY <1>5 DEF RevokeWritesUser, StoreTypeOK, OpTypeOK, RevType, AnyUser
<1>6. ASSUME NEW o \in Op, RevokeWritesDevices(o) PROVE TypeOK'
  BY <1>6 DEF RevokeWritesDevices, StoreTypeOK, OpTypeOK, RevType
<1>7. ASSUME NEW o \in Op, RevokeTargets(o) PROVE TypeOK'
  <2> DEFINE T == UNION {EndpointsFor(p) : p \in RevPrincipals(o)}
             r == [rev[o] EXCEPT !.pc = "sever", !.targets = T]
  <2>1. T \in SUBSET Device BY NamedTypes
  <2> HIDE DEF T
  <2>2. r \in RevType BY <2>1 DEF T, OpTypeOK, RevType
  <2>3. rev' = [rev EXCEPT ![o] = r] BY <1>7 DEF RevokeTargets, OpTypeOK, RevType, T
  <2>4. rev' \in [Op -> RevType] BY <2>2, <2>3 DEF OpTypeOK
  <2> QED BY <1>7, <2>4 DEF RevokeTargets, StoreTypeOK, OpTypeOK
<1>8. ASSUME NEW o \in Op, RevokeSevers(o) PROVE TypeOK'
  <2>1. ConnTypeOK' BY <1>8 DEF RevokeSevers, Sever
  <2> QED BY <1>8, <2>1, IdleTypes DEF RevokeSevers, StoreTypeOK, OpTypeOK
<1>9. ASSUME NEW o \in Op, UnrevokeDevices(o) PROVE TypeOK'
  BY <1>9, IdleTypes DEF UnrevokeDevices, StoreTypeOK, OpTypeOK
<1> QED BY <1>1, <1>2, <1>3, <1>4, <1>5, <1>6, <1>7, <1>8, <1>9 DEF StoreStep

\* The roster's ageing keeps the types.
LEMMA TypeAges ==
    ASSUME TypeOK, RosterAges PROVE TypeOK'
<1> USE DEF TypeOK, gateVars, storeVars, connVars, opVars, GateTypeOK, StoreTypeOK, OpTypeOK
<1>1. CASE GoStale \/ ConfirmCurrent
  <2>1. SessTypeOK' BY <1>1, FlipType DEF GoStale, ConfirmCurrent, Flips
  <2> QED BY <1>1, <2>1 DEF GoStale, ConfirmCurrent, ConnTypeOK
<1>2. CASE StalenessSweep
  <2>1. ConnTypeOK' BY <1>2 DEF StalenessSweep, Sever, ConnTypeOK
  <2> QED BY <1>2, <2>1 DEF StalenessSweep, SessTypeOK
<1> QED BY <1>1, <1>2 DEF RosterAges

\* The type invariant: no interleaving of connections, sessions and verbs takes
\* a variable out of its type.
THEOREM TypeCorrect == Spec => []TypeOK
<1>1. Init => TypeOK BY TypeInit
<1>2. TypeOK /\ [Next]_vars => TypeOK'
  <2> SUFFICES ASSUME TypeOK, [Next]_vars PROVE TypeOK'
    OBVIOUS
  <2>1. CASE UNCHANGED vars
    BY <2>1 DEF vars, gateVars, storeVars, connVars, opVars, TypeOK, GateTypeOK, StoreTypeOK,
                ConnTypeOK, SessTypeOK, OpTypeOK
  <2> QED BY <2>1, TypeConn, TypeSession, TypeLocked, TypeStore, TypeAges DEF Next
<1> QED BY <1>1, <1>2, PTL DEF Spec
-----------------------------------------------------------------------------
(* Roster installs. *)

\* No connection is left open that a roster install has decided to cut: the
\* install swaps the view before it severs, and a connection or a session that
\* reads the discriminator around it is refused by the recheck under the
\* registry lock or found by the sever.
LEMMA RosterCutStep ==
    ASSUME TypeOK, RosterCut, [Next]_vars PROVE RosterCut'
<1> USE DEF gateVars, storeVars, connVars, opVars
<1>a. ASSUME UNCHANGED <<view, install, cuser>>,
             \A c \in Conn : conn'[c] = "open" => conn[c] = "open"
      PROVE  RosterCut'
  BY <1>a DEF RosterCut, ShouldSever
<1>1. ASSUME NEW c \in Conn, ConnStep(c) PROVE RosterCut'
  <2>1. CASE Accept(c)
    BY <2>1 DEF Accept, RosterCut, ShouldSever, TypeOK, ConnTypeOK
  <2>2. CASE ReadRosterUser(c)
    BY <2>2 DEF ReadRosterUser, RosterCut, ShouldSever, TypeOK, ConnTypeOK
  <2>6. CASE TagRosterUser(c)
    BY <2>6 DEF TagRosterUser, RosterCut, ShouldSever, TypeOK, ConnTypeOK
  <2>3. CASE RegisterChecked(c)
    BY <2>3 DEF RegisterChecked, RosterCut, ShouldSever, ShouldSeverNow, TypeOK, ConnTypeOK
  <2>4. CASE PeerCloses(c)
    BY <2>4, <1>a DEF PeerCloses, TypeOK, ConnTypeOK
  <2>5. CASE Deregister(c)
    BY <2>5, <1>a DEF Deregister, TypeOK, ConnTypeOK
  <2> QED BY <1>1, <2>1, <2>2, <2>3, <2>4, <2>5, <2>6 DEF ConnStep
<1>2. ASSUME NEW s \in Stream, SessionStep(s) PROVE RosterCut'
  <2>1. CASE AdmitRosterUser(s)
    BY <2>1 DEF AdmitRosterUser, RosterCut, ShouldSever, ShouldSeverNow, TypeOK, ConnTypeOK
  <2>2. CASE ~AdmitRosterUser(s)
    <3>1. UNCHANGED <<view, install, cuser, conn>>
      BY <1>2, <2>2 DEF SessionStep, Initialize, AskBefore, ReadBefore, ReadRevoked, ReadPair, ReadView, ReadRoster,
           CheckRosterIdentity, AskAfter, AdmitSession,
                        RefuseSession, EndSession
    <3> QED BY <1>a, <3>1
  <2> QED BY <2>1, <2>2
<1>3. CASE LockedStep
  <2>1. CASE \E v \in Views : SwapView(v)
    BY <2>1 DEF SwapView, RosterCut
  <2>2. CASE SeverRoster
    BY <2>2 DEF SeverRoster, Sever, RosterCut, TypeOK, ConnTypeOK
  <2>3. CASE StripSevers
    BY <2>3, <1>a DEF StripSevers, Sever
  <2>4. CASE UNCHANGED <<view, install, cuser, conn>>
    BY <2>4, <1>a
  <2> QED
    BY <1>3, <2>1, <2>2, <2>3, <2>4
    DEF LockedStep, RevokeServiceAllow, GrantServiceAllow, UnpairNames, UnpairStrips, StripTargets,
        ReplaceService
<1>4. CASE StoreStep
  <2>1. ASSUME NEW o \in Op, RevokeSevers(o) PROVE RosterCut'
    BY <2>1, <1>a DEF RevokeSevers, Sever
  <2>2. CASE UNCHANGED <<view, install, cuser, conn>>
    BY <2>2, <1>a
  <2> QED
    BY <1>4, <2>1, <2>2
    DEF StoreStep, UnpairDeletes, WriteRow, PeerRevoke, PeerUnrevoke, RevokeWritesUser,
        RevokeWritesDevices, RevokeTargets, UnrevokeDevices
<1>5. CASE RosterAges
  <2>1. CASE StalenessSweep
    BY <2>1, <1>a DEF StalenessSweep, Sever
  <2>2. CASE GoStale \/ ConfirmCurrent
    BY <2>2, <1>a DEF GoStale, ConfirmCurrent
  <2> QED BY <1>5, <2>1, <2>2 DEF RosterAges
<1>6. CASE UNCHANGED vars
  BY <1>6, <1>a DEF vars
<1> QED BY <1>1, <1>2, <1>3, <1>4, <1>5, <1>6 DEF Next

\* Every roster install cuts what it drops: net/src/registry.rs's promise that
\* a registration racing the swap either refuses itself or is severed.
THEOREM RosterInstallCuts == Spec => []RosterCut
<1>1. Init => RosterCut BY DEF Init, RosterCut
<1>2. TypeOK /\ RosterCut /\ [Next]_vars => RosterCut' BY RosterCutStep
<1> QED BY <1>1, <1>2, TypeCorrect, PTL DEF Spec
-----------------------------------------------------------------------------
(* What the steps of sessions and of verbs have in common. *)

\* A session's step leaves the gate, the stores and the connections alone, as
\* it does every other session, and never takes a discriminator back.
LEMMA SessionFrame ==
    ASSUME TypeOK, NEW s \in Stream, SessionStep(s)
    PROVE  /\ UNCHANGED <<view, stale, peers, revokedDev, revokedUser, allow, conn, install, strip,
                          removing, rev>>
           /\ \A t \in Stream : t # s => sess'[t] = sess[t]
           /\ \A c \in Conn : cuser[c] # NoUser => cuser'[c] # NoUser
<1> USE DEF gateVars, storeVars, connVars, opVars
<1>1. UNCHANGED <<view, stale, peers, revokedDev, revokedUser, allow, conn, install, strip,
                  removing, rev>>
  BY DEF SessionStep, Initialize, AskBefore, ReadBefore, ReadRevoked, ReadPair, ReadView, ReadRoster,
           CheckRosterIdentity, AskAfter, AdmitRosterUser,
         AdmitSession, RefuseSession, EndSession
<1>2. \E r : Advance(s, r)
  BY DEF SessionStep, Initialize, AskBefore, ReadBefore, ReadRevoked, ReadPair, ReadView, ReadRoster,
           CheckRosterIdentity, AskAfter, AdmitRosterUser,
         AdmitSession, RefuseSession, EndSession, Refuse
<1>3. \A t \in Stream : t # s => sess'[t] = sess[t]
  BY <1>2 DEF Advance, TypeOK, SessTypeOK
<1>4. \A c \in Conn : cuser[c] # NoUser => cuser'[c] # NoUser
  <2>1. UNCHANGED cuser \/ (\E d, u : cuser' = [cuser EXCEPT ![d] = u] /\ u # NoUser)
    BY DEF SessionStep, Initialize, AskBefore, ReadBefore, ReadRevoked, ReadPair, ReadView, ReadRoster,
           CheckRosterIdentity, AskAfter, AdmitRosterUser,
           AdmitSession, RefuseSession, EndSession
  <2> QED BY <2>1 DEF TypeOK, ConnTypeOK
<1> QED BY <1>1, <1>3, <1>4

\* A step of a verb or of the clock.
Background == LockedStep \/ StoreStep \/ RosterAges \/ UNCHANGED vars

\* Verbs and clock do no more to a connection than close it, and no more to a
\* session than note that the roster's answer may have changed.
LEMMA BackgroundFrame ==
    ASSUME TypeOK, Background
    PROVE  /\ UNCHANGED <<cuser, admitted>>
           /\ \A c \in Conn : conn'[c] = conn[c] \/ (conn[c] = "open" /\ conn'[c] = "closed")
           /\ (UNCHANGED <<view, stale, sess>>) \/ Flips
<1> USE DEF gateVars, storeVars, connVars, opVars
<1>1. UNCHANGED <<cuser, admitted>>
  BY DEF Background, vars, LockedStep, SwapView, SeverRoster, RevokeServiceAllow, GrantServiceAllow,
         UnpairNames, UnpairStrips, StripTargets, StripSevers, ReplaceService, StoreStep,
         UnpairDeletes, WriteRow, PeerRevoke, PeerUnrevoke, RevokeWritesUser, RevokeWritesDevices,
         RevokeTargets, RevokeSevers, UnrevokeDevices, RosterAges, GoStale, ConfirmCurrent,
         StalenessSweep
<1>2. (UNCHANGED <<view, stale, sess>>) \/ Flips
  BY DEF Flips, Background, vars, LockedStep, SwapView, SeverRoster, RevokeServiceAllow, GrantServiceAllow,
         UnpairNames, UnpairStrips, StripTargets, StripSevers, ReplaceService, StoreStep,
         UnpairDeletes, WriteRow, PeerRevoke, PeerUnrevoke, RevokeWritesUser, RevokeWritesDevices,
         RevokeTargets, RevokeSevers, UnrevokeDevices, RosterAges, GoStale, ConfirmCurrent,
         StalenessSweep
<1>3. (UNCHANGED conn) \/ SeverRoster \/ StripSevers \/ (\E o \in Op : RevokeSevers(o)) \/ StalenessSweep
  BY DEF Background, vars, LockedStep, SwapView, RevokeServiceAllow, GrantServiceAllow,
         UnpairNames, UnpairStrips, StripTargets, ReplaceService, StoreStep,
         UnpairDeletes, WriteRow, PeerRevoke, PeerUnrevoke, RevokeWritesUser, RevokeWritesDevices,
         RevokeTargets, UnrevokeDevices, RosterAges, GoStale, ConfirmCurrent
<1>4. \A c \in Conn : conn'[c] = conn[c] \/ (conn[c] = "open" /\ conn'[c] = "closed")
  <2>1. CASE UNCHANGED conn BY <2>1
  <2>2. CASE SeverRoster BY <2>2 DEF SeverRoster, Sever
  <2>3. CASE StripSevers BY <2>3 DEF StripSevers, Sever
  <2>4. ASSUME NEW o \in Op, RevokeSevers(o)
        PROVE  \A c \in Conn : conn'[c] = conn[c] \/ (conn[c] = "open" /\ conn'[c] = "closed")
    BY <2>4 DEF RevokeSevers, Sever
  <2>5. CASE StalenessSweep BY <2>5 DEF StalenessSweep, Sever
  <2> QED BY <1>3, <2>1, <2>2, <2>3, <2>4, <2>5
<1> QED BY <1>1, <1>2, <1>4

\* Noting a change of the roster's answer changes only the note.
LEMMA FlipFrame ==
    ASSUME TypeOK, NEW by \in {1, 2}, Flip(by), NEW s \in Stream
    PROVE  /\ sess'[s].pc = sess[s].pc /\ sess'[s].conn = sess[s].conn
           /\ sess'[s].ids = sess[s].ids /\ sess'[s].svc = sess[s].svc
           /\ sess'[s].before = sess[s].before /\ sess'[s].roster = sess[s].roster
           /\ sess'[s].pair = sess[s].pair /\ sess'[s].seen = sess[s].seen
           /\ sess[s].pc \notin Resolving => sess'[s].flips = sess[s].flips
           /\ sess[s].pc \in Resolving => sess'[s].flips = IF sess[s].flips + by < 2
                                                         THEN sess[s].flips + by ELSE 2
<1>1. sess[s] \in SessType BY DEF TypeOK, SessTypeOK
<1>2. sess'[s] = IF sess[s].pc \notin Resolving THEN sess[s]
                 ELSE [sess[s] EXCEPT !.flips = IF @ + by < 2 THEN @ + by ELSE 2]
  BY DEF Flip
<1> QED BY <1>1, <1>2 DEF SessType

\* Every step is one of three kinds.
LEMMA Kinds ==
    ASSUME [Next]_vars
    PROVE  \/ \E c \in Conn : ConnStep(c)
           \/ \E s \in Stream : SessionStep(s)
           \/ Background
  BY DEF Next, Background
\* The roster's identity is taken, or the pair row's, or nobody's.
LEMMA ReadRosterShape ==
    ASSUME TypeOK, NEW s \in Stream, ReadRoster(s)
    PROVE  /\ sess[s].pc = "named"
           /\ \/ sess'[s] = IdleSession
              \/ /\ sess'[s].conn = sess[s].conn /\ sess'[s].before = sess[s].before
                 /\ sess'[s].pair = sess[s].pair /\ sess'[s].flips = sess[s].flips
                 /\ sess'[s].roster = sess[s].roster /\ sess'[s].seen = sess[s].seen
                 /\ \/ sess'[s].pc = "vouched" /\ Vouched(sess[s].seen) # NoUser
                    \/ sess'[s].pc = "resolved" /\ sess[s].pair # {}
<1> DEFINE r == [sess[s] EXCEPT !.pc = "vouched"]
           q == [sess[s] EXCEPT !.pc = "resolved", !.ids = sess[s].pair]
<1>t. sess \in [Stream -> SessType] /\ sess[s] \in SessType BY DEF TypeOK, SessTypeOK
<1>1. /\ sess[s].pc = "named"
      /\ \/ Advance(s, r) /\ Vouched(sess[s].seen) # NoUser
         \/ Advance(s, q) /\ sess[s].pair # {}
         \/ Refuse(s)
  BY DEF ReadRoster
<1>2. CASE Advance(s, r) /\ Vouched(sess[s].seen) # NoUser
  BY <1>1, <1>2, <1>t DEF Advance, SessType
<1>3. CASE Advance(s, q) /\ sess[s].pair # {}
  BY <1>1, <1>3, <1>t DEF Advance, SessType
<1>4. CASE Refuse(s)
  BY <1>1, <1>4, <1>t DEF Refuse, Advance
<1> QED BY <1>1, <1>2, <1>3, <1>4

\* A session goes on from the promotion unchanged, or is refused.
LEMMA AdmitRosterUserShape ==
    ASSUME TypeOK, NEW s \in Stream, AdmitRosterUser(s)
    PROVE  /\ sess[s].pc = "after"
           /\ \/ sess'[s] = IdleSession
              \/ /\ sess'[s].pc = "promoted"
                 /\ sess'[s].conn = sess[s].conn /\ sess'[s].pair = sess[s].pair
                 /\ sess'[s].flips = sess[s].flips /\ sess'[s].roster = sess[s].roster
<1>t. sess \in [Stream -> SessType] /\ sess[s] \in SessType BY DEF TypeOK, SessTypeOK
<1>1. /\ sess[s].pc = "after"
      /\ sess'[s] = IdleSession \/ sess'[s] = [sess[s] EXCEPT !.pc = "promoted"]
  BY <1>t DEF AdmitRosterUser, Advance, Refuse
<1>2. CASE sess'[s] = [sess[s] EXCEPT !.pc = "promoted"]
  BY <1>t, <1>1, <1>2 DEF SessType
<1> QED BY <1>1, <1>2

\* The first read of the discriminator: the view ...
LEMMA AskBeforeShape ==
    ASSUME TypeOK, NEW s \in Stream, AskBefore(s)
    PROVE  /\ sess[s].pc = "init"
           /\ \/ sess'[s] = IdleSession
              \/ /\ sess'[s].pc = "asked"
                 /\ sess'[s].conn = sess[s].conn /\ sess'[s].before = ViewUser(Remote[sess[s].conn])
                 /\ sess'[s].pair = sess[s].pair /\ sess'[s].seen = sess[s].seen
                 /\ sess'[s].roster = sess[s].roster /\ sess'[s].flips = sess[s].flips
<1> DEFINE r == [sess[s] EXCEPT !.pc = "asked", !.before = ViewUser(Remote[sess[s].conn])]
<1>t. sess \in [Stream -> SessType] /\ sess[s] \in SessType BY DEF TypeOK, SessTypeOK
<1>1. /\ sess[s].pc = "init"
      /\ sess'[s] = IdleSession \/ (sess'[s] = r)
  BY <1>t DEF AskBefore, Advance, Refuse
<1>2. CASE sess'[s] = r
  BY <1>t, <1>1, <1>2 DEF SessType
<1> QED BY <1>1, <1>2

\* ... and its staleness.
LEMMA ReadBeforeShape ==
    ASSUME TypeOK, NEW s \in Stream, ReadBefore(s)
    PROVE  /\ sess[s].pc = "asked"
           /\ \/ sess'[s] = IdleSession
              \/ /\ sess'[s].pc = "before"
                 /\ sess'[s].conn = sess[s].conn /\ sess'[s].before = Vouched(sess[s].before)
                 /\ sess'[s].pair = sess[s].pair /\ sess'[s].seen = sess[s].seen
                 /\ sess'[s].roster = sess[s].roster /\ sess'[s].flips = sess[s].flips
<1> DEFINE r == [sess[s] EXCEPT !.pc = "before", !.before = Vouched(sess[s].before)]
<1>t. sess \in [Stream -> SessType] /\ sess[s] \in SessType BY DEF TypeOK, SessTypeOK
<1>1. /\ sess[s].pc = "asked"
      /\ sess'[s] = IdleSession \/ (sess'[s] = r)
  BY <1>t DEF ReadBefore, Advance, Refuse
<1>2. CASE sess'[s] = r
  BY <1>t, <1>1, <1>2 DEF SessType
<1> QED BY <1>1, <1>2

\* The roster's revocations change nothing, or refuse the session.
LEMMA ReadRevokedShape ==
    ASSUME TypeOK, NEW s \in Stream, ReadRevoked(s)
    PROVE  /\ sess[s].pc = "before"
           /\ \/ sess'[s] = IdleSession
              \/ /\ sess'[s].pc = "cleared"
                 /\ sess'[s].conn = sess[s].conn /\ sess'[s].before = sess[s].before
                 /\ sess'[s].pair = sess[s].pair /\ sess'[s].seen = sess[s].seen
                 /\ sess'[s].roster = sess[s].roster /\ sess'[s].flips = sess[s].flips
<1> DEFINE r == [sess[s] EXCEPT !.pc = "cleared"]
<1>t. sess \in [Stream -> SessType] /\ sess[s] \in SessType BY DEF TypeOK, SessTypeOK
<1>1. /\ sess[s].pc = "before"
      /\ sess'[s] = IdleSession \/ (sess'[s] = r)
  BY <1>t DEF ReadRevoked, Advance, Refuse
<1>2. CASE sess'[s] = r
  BY <1>t, <1>1, <1>2 DEF SessType
<1> QED BY <1>1, <1>2

\* The pair store's answer is kept, or refuses the session.
LEMMA ReadPairShape ==
    ASSUME TypeOK, NEW s \in Stream, ReadPair(s)
    PROVE  /\ sess[s].pc = "cleared"
           /\ \/ sess'[s] = IdleSession
              \/ /\ sess'[s].pc = "paired" /\ ~Refused(Remote[sess[s].conn])
                 /\ sess'[s].conn = sess[s].conn /\ sess'[s].before = sess[s].before
                 /\ sess'[s].pair = PairPrincipals(Remote[sess[s].conn]) /\ sess'[s].seen = sess[s].seen
                 /\ sess'[s].roster = sess[s].roster /\ sess'[s].flips = sess[s].flips
<1> DEFINE r == [sess[s] EXCEPT !.pc = "paired", !.pair = PairPrincipals(Remote[sess[s].conn])]
<1>t. sess \in [Stream -> SessType] /\ sess[s] \in SessType BY DEF TypeOK, SessTypeOK
<1>1. /\ sess[s].pc = "cleared"
      /\ sess'[s] = IdleSession \/ (sess'[s] = r /\ ~Refused(Remote[sess[s].conn]))
  BY <1>t DEF ReadPair, Advance, Refuse
<1>2. CASE sess'[s] = r /\ ~Refused(Remote[sess[s].conn])
  BY <1>t, <1>1, <1>2 DEF SessType
<1> QED BY <1>1, <1>2

\* The view's identity for the device.
LEMMA ReadViewShape ==
    ASSUME TypeOK, NEW s \in Stream, ReadView(s)
    PROVE  /\ sess[s].pc = "paired"
           /\ \/ sess'[s] = IdleSession
              \/ /\ sess'[s].pc = "named"
                 /\ sess'[s].conn = sess[s].conn /\ sess'[s].before = sess[s].before
                 /\ sess'[s].pair = sess[s].pair /\ sess'[s].seen = ViewUser(Remote[sess[s].conn])
                 /\ sess'[s].roster = sess[s].roster /\ sess'[s].flips = sess[s].flips
<1> DEFINE r == [sess[s] EXCEPT !.pc = "named", !.seen = ViewUser(Remote[sess[s].conn]),
                     !.ids = IF ViewUser(Remote[sess[s].conn]) = NoUser THEN {} ELSE RosterPrincipals(Remote[sess[s].conn])]
<1>t. sess \in [Stream -> SessType] /\ sess[s] \in SessType BY DEF TypeOK, SessTypeOK
<1>1. /\ sess[s].pc = "paired"
      /\ sess'[s] = IdleSession \/ (sess'[s] = r)
  BY <1>t DEF ReadView, Advance, Refuse
<1>2. CASE sess'[s] = r
  BY <1>t, <1>1, <1>2 DEF SessType
<1> QED BY <1>1, <1>2

\* A roster identity is the session's, or is revoked here.
LEMMA CheckRosterIdentityShape ==
    ASSUME TypeOK, NEW s \in Stream, CheckRosterIdentity(s)
    PROVE  /\ sess[s].pc = "vouched"
           /\ \/ sess'[s] = IdleSession
              \/ /\ sess'[s].pc = "resolved"
                 /\ sess'[s].conn = sess[s].conn /\ sess'[s].before = sess[s].before
                 /\ sess'[s].pair = sess[s].pair /\ sess'[s].seen = sess[s].seen
                 /\ sess'[s].roster /\ sess'[s].flips = sess[s].flips
<1> DEFINE r == [sess[s] EXCEPT !.pc = "resolved", !.roster = TRUE]
<1>t. sess \in [Stream -> SessType] /\ sess[s] \in SessType BY DEF TypeOK, SessTypeOK
<1>1. /\ sess[s].pc = "vouched"
      /\ sess'[s] = IdleSession \/ (sess'[s] = r)
  BY <1>t DEF CheckRosterIdentity, Advance, Refuse
<1>2. CASE sess'[s] = r
  BY <1>t, <1>1, <1>2 DEF SessType
<1> QED BY <1>1, <1>2

\* The second read of the discriminator.
LEMMA AskAfterShape ==
    ASSUME TypeOK, NEW s \in Stream, AskAfter(s)
    PROVE  /\ sess[s].pc = "resolved"
           /\ \/ sess'[s] = IdleSession
              \/ /\ sess'[s].pc = "after"
                 /\ sess'[s].conn = sess[s].conn /\ sess'[s].before = sess[s].before
                 /\ sess'[s].pair = sess[s].pair /\ sess'[s].seen = ViewUser(Remote[sess[s].conn])
                 /\ sess'[s].roster = sess[s].roster /\ sess'[s].flips = sess[s].flips
<1> DEFINE r == [sess[s] EXCEPT !.pc = "after", !.seen = ViewUser(Remote[sess[s].conn])]
<1>t. sess \in [Stream -> SessType] /\ sess[s] \in SessType BY DEF TypeOK, SessTypeOK
<1>1. /\ sess[s].pc = "resolved"
      /\ sess'[s] = IdleSession \/ (sess'[s] = r)
  BY <1>t DEF AskAfter, Advance, Refuse
<1>2. CASE sess'[s] = r
  BY <1>t, <1>1, <1>2 DEF SessType
<1> QED BY <1>1, <1>2

\* An admitted session keeps what it was resolved as.
LEMMA AdmitSessionShape ==
    ASSUME TypeOK, NEW s \in Stream, NEW v \in Service, AdmitSession(s, v)
    PROVE  /\ sess[s].pc = "promoted" /\ sess'[s].pc = "serving" /\ sess'[s].svc = v
           /\ sess'[s].conn = sess[s].conn /\ sess'[s].ids = sess[s].ids
           /\ sess'[s].pair = sess[s].pair
           /\ sess'[s].roster = sess[s].roster /\ sess'[s].flips = sess[s].flips
<1>t. sess \in [Stream -> SessType] /\ sess[s] \in SessType BY DEF TypeOK, SessTypeOK
<1> QED BY <1>t DEF AdmitSession, Advance, SessType

\* How a session begins and ends.
LEMMA EndsShape ==
    ASSUME TypeOK, NEW s \in Stream
    PROVE  /\ \A c \in Conn : Initialize(s, c) => sess[s].pc = "idle" /\ sess'[s] = NewSession(c)
           /\ RefuseSession(s) => sess[s].pc = "promoted" /\ sess'[s] = IdleSession
           /\ EndSession(s) => sess[s].pc = "serving" /\ sess'[s] = IdleSession
           /\ IdleSession.pc = "idle"
           /\ \A c \in Conn : /\ NewSession(c).pc = "init" /\ NewSession(c).conn = c
                              /\ NewSession(c).flips = 0 /\ ~NewSession(c).roster
  BY DEF Initialize, RefuseSession, EndSession, Refuse, Advance, Serving, NewSession, IdleSession,
         TypeOK, SessTypeOK

-----------------------------------------------------------------------------
(* Sessions and their connections. *)

\* Sessions live on opened connections only, and an entry counts nothing before
\* it is registered.
LEMMA ConnFactsStep ==
    ASSUME TypeOK, ConnFacts, [Next]_vars PROVE ConnFacts'
<1> USE DEF gateVars, storeVars, connVars, opVars
<1>1. ASSUME NEW c \in Conn, ConnStep(c) PROVE ConnFacts'
  <2>1. UNCHANGED sess /\ (admitted' = admitted \/ Deregister(c))
    BY <1>1 DEF ConnStep, Accept, ReadRosterUser, TagRosterUser, RegisterChecked, PeerCloses, Deregister
  <2>2. \A e \in Conn : /\ e # c => conn'[e] = conn[e]
                        /\ conn[e] \in {"open", "closed", "gone"} => conn'[e] \in {"open", "closed", "gone"}
    BY <1>1 DEF ConnStep, Accept, ReadRosterUser, TagRosterUser, RegisterChecked, PeerCloses, Deregister, TypeOK, ConnTypeOK
  <2>3. ASSUME NEW e \in Conn, conn'[e] \in {"idle", "accepted", "viewed", "tagged"}
        PROVE  admitted'[e] = NoCounts
    <3>1. conn[e] \in {"idle", "accepted", "viewed", "tagged"}
      BY <2>2, <2>3 DEF TypeOK, ConnTypeOK
    <3>2. admitted'[e] = admitted[e]
      BY <2>1, <3>1 DEF Deregister, TypeOK, ConnTypeOK
    <3> QED BY <3>1, <3>2 DEF ConnFacts
  <2> QED BY <2>1, <2>2, <2>3 DEF ConnFacts, TypeOK, SessTypeOK, Serving
<1>2. ASSUME NEW s \in Stream, SessionStep(s) PROVE ConnFacts'
  <2>1. /\ UNCHANGED conn
        /\ \A t \in Stream : t # s => sess'[t] = sess[t]
    BY <1>2, SessionFrame
  <2>0. sess \in [Stream -> SessType] /\ sess[s] \in SessType BY DEF TypeOK, SessTypeOK
  <2>2. sess'[s].pc # "idle" => conn[sess'[s].conn] \in {"open", "closed", "gone"}
    <3>1. ASSUME NEW c \in Conn, Initialize(s, c)
          PROVE  conn[sess'[s].conn] \in {"open", "closed", "gone"}
      BY <3>1, EndsShape DEF Initialize
    <3>2. sess'[s].pc # "idle" /\ sess[s].pc # "idle" /\ sess'[s].conn = sess[s].conn
            => conn[sess'[s].conn] \in {"open", "closed", "gone"}
      BY DEF ConnFacts
    <3>3. CASE AskBefore(s) \/ ReadBefore(s) \/ ReadRevoked(s) \/ ReadPair(s) \/ ReadView(s)
      BY <3>2, <3>3, AskBeforeShape, ReadBeforeShape, ReadRevokedShape, ReadPairShape, ReadViewShape,
         EndsShape
    <3>4. CASE ReadRoster(s) \/ CheckRosterIdentity(s)
      BY <3>2, <3>4, ReadRosterShape, CheckRosterIdentityShape, EndsShape
    <3>5. CASE AskAfter(s) \/ AdmitRosterUser(s)
      BY <3>2, <3>5, AskAfterShape, AdmitRosterUserShape, EndsShape
    <3>6. ASSUME NEW v \in Service, AdmitSession(s, v)
          PROVE  conn[sess'[s].conn] \in {"open", "closed", "gone"}
      BY <3>6, AdmitSessionShape DEF ConnFacts
    <3>7. CASE RefuseSession(s) \/ EndSession(s) BY <3>7, EndsShape
    <3> QED BY <1>2, <3>1, <3>2, <3>3, <3>4, <3>5, <3>6, <3>7 DEF SessionStep
  <2>3. sess'[s].pc = "serving" => sess'[s].svc \in Service
    BY <1>2, AskBeforeShape, ReadBeforeShape, ReadRevokedShape, ReadPairShape,
         ReadViewShape, ReadRosterShape, CheckRosterIdentityShape, AskAfterShape, AdmitRosterUserShape,
       AdmitSessionShape, EndsShape
    DEF SessionStep
  <2>4. ASSUME NEW c \in Conn, conn[c] \in {"idle", "accepted", "viewed", "tagged"}
        PROVE  admitted'[c] = admitted[c]
    <3>1. (UNCHANGED admitted) \/ (\E e, ids, by : Registered(e) /\ admitted' = Recorded(e, ids, by))
      BY <1>2 DEF SessionStep, Initialize, AskBefore, ReadBefore, ReadRevoked, ReadPair, ReadView, ReadRoster,
           CheckRosterIdentity, AskAfter, AdmitRosterUser,
                  AdmitSession, RefuseSession, EndSession
    <3> QED BY <2>4, <3>1 DEF Registered, Recorded, TypeOK, ConnTypeOK
  <2> QED BY <2>1, <2>2, <2>3, <2>4 DEF ConnFacts, Serving
<1>3. CASE Background
  <2>1. /\ UNCHANGED admitted
        /\ \A c \in Conn : conn'[c] = conn[c] \/ (conn[c] = "open" /\ conn'[c] = "closed")
        /\ (UNCHANGED <<view, stale, sess>>) \/ Flips
    BY <1>3, BackgroundFrame
  <2>2. \A s \in Stream : /\ sess'[s].pc = sess[s].pc /\ sess'[s].conn = sess[s].conn
                          /\ sess'[s].svc = sess[s].svc
    BY <2>1, FlipFrame DEF Flips
  <2> QED BY <2>1, <2>2 DEF ConnFacts, TypeOK, SessTypeOK, Serving
<1> QED BY <1>1, <1>2, <1>3, Kinds

\* The sets the registry counts are finite.
LEMMA ServedFinite ==
    ASSUME NEW c, NEW p
    PROVE  IsFiniteSet(Served(c, p)) /\ Cardinality(Served(c, p)) \in Nat
  BY ConstantsAssumption, FS_Subset, FS_CardinalityType DEF Served

\* Admission and the guard's drop keep the counts exact.
LEMMA CountsStep ==
    ASSUME TypeOK, ConnFacts, CountsMatch, [Next]_vars PROVE CountsMatch'
<1> USE DEF gateVars, storeVars, connVars, opVars
<1>f. ASSUME NEW c \in Conn, NEW p \in Principal, Registered(c), admitted'[c] = admitted[c],
             \A s \in Stream : /\ sess'[s].pc = "serving" <=> sess[s].pc = "serving"
                               /\ sess[s].pc = "serving" => /\ sess'[s].conn = sess[s].conn
                                                            /\ sess'[s].ids = sess[s].ids
      PROVE  admitted'[c][p] = Cardinality(Served(c, p)')
  <2>1. Served(c, p)' = Served(c, p) BY <1>f DEF Served, Serving
  <2> QED BY <1>f, <2>1 DEF CountsMatch
<1>1. ASSUME NEW c \in Conn, ConnStep(c) PROVE CountsMatch'
  <2> SUFFICES ASSUME NEW e \in Conn, NEW p \in Principal, Registered(e)'
               PROVE  admitted'[e][p] = Cardinality(Served(e, p)')
    BY DEF CountsMatch
  <2>1. UNCHANGED sess
    BY <1>1 DEF ConnStep, Accept, ReadRosterUser, TagRosterUser, RegisterChecked, PeerCloses, Deregister
  <2>2. admitted'[e] = admitted[e]
    BY <1>1 DEF ConnStep, Accept, ReadRosterUser, TagRosterUser, RegisterChecked, PeerCloses, Deregister,
                Registered, TypeOK, ConnTypeOK
  <2>3. CASE Registered(e) BY <1>f, <2>1, <2>2, <2>3
  <2>4. CASE ~Registered(e)
    <3>1. conn[e] = "tagged"
      BY <1>1, <2>4 DEF ConnStep, Accept, ReadRosterUser, TagRosterUser, RegisterChecked, PeerCloses, Deregister,
                Registered, TypeOK, ConnTypeOK
    <3>2. Served(e, p)' = {}
      BY <2>1, <3>1 DEF Served, Serving, ConnFacts
    <3>3. Cardinality(Served(e, p)') = 0 BY <3>2, FS_EmptySet
    <3>4. admitted[e][p] = 0 BY <3>1 DEF ConnFacts, NoCounts
    <3> QED BY <2>2, <3>3, <3>4
  <2> QED BY <2>3, <2>4
<1>2. ASSUME NEW s \in Stream, SessionStep(s) PROVE CountsMatch'
  <2>0. /\ UNCHANGED conn
        /\ \A t \in Stream : t # s => sess'[t] = sess[t]
    BY <1>2, SessionFrame
  <2>t. sess \in [Stream -> SessType] /\ sess[s] \in SessType BY DEF TypeOK, SessTypeOK
  <2> SUFFICES ASSUME NEW e \in Conn, NEW p \in Principal, Registered(e)
               PROVE  admitted'[e][p] = Cardinality(Served(e, p)')
    BY <2>0 DEF CountsMatch, Registered
  <2>a. admitted[e][p] \in Int /\ admitted[e][p] = Cardinality(Served(e, p))
    BY DEF TypeOK, ConnTypeOK, CountsMatch
  <2>1. ASSUME NEW v \in Service, AdmitSession(s, v)
        PROVE  admitted'[e][p] = Cardinality(Served(e, p)')
    <3>1. /\ sess'[s].pc = "serving" /\ sess'[s].conn = sess[s].conn /\ sess'[s].ids = sess[s].ids
          /\ sess[s].pc = "promoted"
      BY <2>1, <2>t DEF AdmitSession, Advance, SessType
    <3>2. s \notin Served(e, p) BY <3>1 DEF Served, Serving
    <3>3. CASE e = sess[s].conn /\ p \in sess[s].ids
      <4>1. Served(e, p)' = Served(e, p) \cup {s}
        BY <2>0, <3>1, <3>3 DEF Served, Serving
      <4>2. Cardinality(Served(e, p)') = Cardinality(Served(e, p)) + 1
        BY <3>2, <4>1, ServedFinite, FS_AddElement
      <4>3. admitted'[e][p] = admitted[e][p] + 1
        BY <2>1, <3>3 DEF AdmitSession, Recorded, TypeOK, ConnTypeOK
      <4> QED BY <2>a, <4>2, <4>3
    <3>4. CASE ~(e = sess[s].conn /\ p \in sess[s].ids)
      <4>1. Served(e, p)' = Served(e, p)
        BY <2>0, <3>1, <3>4 DEF Served, Serving
      <4>2. admitted'[e][p] = admitted[e][p]
        BY <2>1, <3>4 DEF AdmitSession, Recorded, TypeOK, ConnTypeOK
      <4> QED BY <2>a, <4>1, <4>2
    <3> QED BY <3>3, <3>4
  <2>2. CASE EndSession(s)
    <3>1. sess'[s].pc = "idle" /\ sess[s].pc = "serving"
      BY <2>2, <2>t DEF EndSession, Refuse, Advance, IdleSession, Serving
    <3>3. CASE e = sess[s].conn /\ p \in sess[s].ids
      <4>1. Served(e, p)' = Served(e, p) \ {s} /\ s \in Served(e, p)
        BY <2>0, <3>1, <3>3 DEF Served, Serving
      <4>2. Cardinality(Served(e, p)') = Cardinality(Served(e, p)) - 1
        BY <4>1, ServedFinite, FS_RemoveElement
      <4>3. admitted'[e][p] = admitted[e][p] + (-1)
        BY <2>2, <3>3 DEF EndSession, Recorded, TypeOK, ConnTypeOK
      <4> QED BY <2>a, <4>2, <4>3, ServedFinite
    <3>4. CASE ~(e = sess[s].conn /\ p \in sess[s].ids)
      <4>1. Served(e, p)' = Served(e, p)
        BY <2>0, <3>1, <3>4 DEF Served, Serving
      <4>2. admitted'[e][p] = admitted[e][p]
        BY <2>2, <3>4 DEF EndSession, Recorded, TypeOK, ConnTypeOK
      <4> QED BY <2>a, <4>1, <4>2
    <3> QED BY <3>3, <3>4
  <2>3. CASE ~EndSession(s) /\ ~\E v \in Service : AdmitSession(s, v)
    <3>a. UNCHANGED admitted
      BY <1>2, <2>3
      DEF SessionStep, Initialize, AskBefore, ReadBefore, ReadRevoked, ReadPair, ReadView, ReadRoster,
           CheckRosterIdentity, AskAfter, AdmitRosterUser, RefuseSession
    <3>1. sess'[s].pc # "serving" /\ sess[s].pc # "serving" /\ UNCHANGED admitted
      BY <1>2, <2>3, <3>a, AskBeforeShape, ReadBeforeShape, ReadRevokedShape, ReadPairShape,
         ReadViewShape, ReadRosterShape, CheckRosterIdentityShape, AskAfterShape, AdmitRosterUserShape,
         EndsShape
      DEF SessionStep
    <3> QED BY <1>f, <2>0, <3>1
  <2> QED BY <2>1, <2>2, <2>3
<1>3. CASE Background
  <2>1. /\ UNCHANGED admitted
        /\ \A c \in Conn : conn'[c] = conn[c] \/ (conn[c] = "open" /\ conn'[c] = "closed")
        /\ (UNCHANGED <<view, stale, sess>>) \/ Flips
    BY <1>3, BackgroundFrame
  <2>2. \A s \in Stream : /\ sess'[s].pc = sess[s].pc /\ sess'[s].conn = sess[s].conn
                          /\ sess'[s].ids = sess[s].ids
    BY <2>1, FlipFrame DEF Flips
  <2> QED BY <1>f, <2>1, <2>2 DEF CountsMatch, Registered
<1> QED BY <1>1, <1>2, <1>3, Kinds

\* The registry's counts are exact, whatever order sessions, connections and
\* severs end in.
THEOREM CountsExact == Spec => [](ConnFacts /\ CountsMatch)
<1>1. Init => ConnFacts /\ CountsMatch
  BY DEF Init, ConnFacts, CountsMatch, IdleSession, Serving, Registered
<1>2. TypeOK /\ (ConnFacts /\ CountsMatch) /\ [Next]_vars => (ConnFacts /\ CountsMatch)'
  BY ConnFactsStep, CountsStep
<1> QED BY <1>1, <1>2, TypeCorrect, PTL DEF Spec
-----------------------------------------------------------------------------
(* Sessions of roster members. *)

\* The two reads around the resolve make a roster session's entry roster-tagged
\* unless the view and its staleness changed twice in between.
LEMMA SessFactsStep ==
    ASSUME TypeOK, ConnFacts, SessFacts, [Next]_vars PROVE SessFacts'
<1> USE DEF gateVars, storeVars, connVars, opVars
<1>0. \A s \in Stream : SessionFacts(s) BY DEF SessFacts
<1> SUFFICES \A s \in Stream : SessionFacts(s)'
  BY DEF SessFacts
<1>t. \A s \in Stream : /\ sess[s].flips \in 0..2
                        /\ sess[s].pc # "idle" => sess[s].conn \in Conn
  BY DEF TypeOK, SessTypeOK, SessType
<1>1. ASSUME NEW c \in Conn, ConnStep(c), NEW s \in Stream PROVE SessionFacts(s)'
  <2>1. UNCHANGED <<sess, view, stale>>
    BY <1>1 DEF ConnStep, Accept, ReadRosterUser, TagRosterUser, RegisterChecked, PeerCloses, Deregister
  <2>2. sess[s].pc # "idle" => cuser'[sess[s].conn] = cuser[sess[s].conn]
    <3>1. (UNCHANGED cuser) \/ (conn[c] \in {"accepted", "viewed"} /\ \E u : cuser' = [cuser EXCEPT ![c] = u])
      BY <1>1 DEF ConnStep, Accept, ReadRosterUser, TagRosterUser, RegisterChecked, PeerCloses, Deregister
    <3>2. conn[c] \in {"accepted", "viewed"} /\ sess[s].pc # "idle" => sess[s].conn # c
      BY DEF ConnFacts
    <3> QED BY <1>t, <3>1, <3>2 DEF TypeOK, ConnTypeOK
  <2> QED BY <1>0, <2>1, <2>2 DEF SessionFacts, Turned, RosterUser, ViewUser, Vouched
<1>2. ASSUME NEW t \in Stream, SessionStep(t), NEW s \in Stream PROVE SessionFacts(s)'
  <2>1. /\ UNCHANGED <<view, stale>>
        /\ \A r \in Stream : r # t => sess'[r] = sess[r]
        /\ \A c \in Conn : cuser[c] # NoUser => cuser'[c] # NoUser
    BY <1>2, SessionFrame
  <2>u. \A d : RosterUser(d)' = RosterUser(d) /\ ViewUser(d)' = ViewUser(d) /\ Vouched(d)' = Vouched(d)
    BY <2>1 DEF RosterUser, ViewUser, Vouched
  <2>2. CASE s # t
    BY <1>0, <1>t, <2>1, <2>2, <2>u DEF SessionFacts, Turned
  <2>3. CASE s = t
    <3>i. sess'[s] = IdleSession => SessionFacts(s)'
      BY EndsShape DEF SessionFacts
    <3>1. ASSUME NEW c \in Conn, Initialize(s, c) PROVE SessionFacts(s)'
      BY <3>1, EndsShape DEF SessionFacts
    <3>2. CASE AskBefore(s)
      BY <3>2, <1>0, <1>t, <2>u, <3>i, AskBeforeShape DEF SessionFacts, Turned, RosterUser, Vouched
    <3>3. CASE ReadBefore(s)
      BY <3>3, <1>0, <1>t, <2>u, <3>i, ReadBeforeShape DEF SessionFacts, Turned, RosterUser, Vouched
    <3>4. CASE ReadRevoked(s)
      BY <3>4, <1>0, <1>t, <2>u, <3>i, ReadRevokedShape DEF SessionFacts, Turned, RosterUser, Vouched
    <3>8. CASE ReadPair(s)
      BY <3>8, <1>0, <1>t, <2>u, <3>i, ReadPairShape DEF SessionFacts, Turned, RosterUser, Vouched
    <3>9. CASE ReadView(s)
      BY <3>9, <1>0, <1>t, <2>u, <3>i, ReadViewShape DEF SessionFacts, Turned, RosterUser, Vouched
    <3>10. CASE ReadRoster(s)
      BY <3>10, <1>0, <1>t, <2>u, <3>i, ReadRosterShape DEF SessionFacts, Turned, RosterUser, Vouched
    <3>11. CASE CheckRosterIdentity(s)
      BY <3>11, <1>0, <1>t, <2>u, <3>i, CheckRosterIdentityShape DEF SessionFacts, Turned, RosterUser, Vouched
    <3>12. CASE AskAfter(s)
      BY <3>12, <1>0, <1>t, <2>u, <3>i, AskAfterShape DEF SessionFacts, Turned, RosterUser, Vouched
    <3>5. CASE AdmitRosterUser(s)
      <4>1. CASE sess'[s] # IdleSession
        <5>1. /\ sess[s].pc = "after" /\ sess'[s].pc = "promoted"
              /\ sess'[s].conn = sess[s].conn /\ sess'[s].pair = sess[s].pair
              /\ sess'[s].flips = sess[s].flips /\ sess'[s].roster = sess[s].roster
          BY <3>5, <4>1, AdmitRosterUserShape
        <5>2. sess[s].roster /\ sess[s].flips < 2 => Discriminator(s) # NoUser
          BY <1>0, <1>t, <5>1 DEF SessionFacts, Turned, Discriminator, RosterUser, Vouched
        <5>3. Discriminator(s) # NoUser => cuser'[sess[s].conn] # NoUser
          <6>1. Advance(s, IdleSession) => sess'[s] = IdleSession
            BY DEF Advance, TypeOK, SessTypeOK
          <6>2. sess[s].conn \in Conn BY <1>t, <5>1
          <6> QED BY <3>5, <4>1, <6>1, <6>2 DEF AdmitRosterUser, Refuse, TypeOK, ConnTypeOK
        <5> QED BY <1>0, <5>1, <5>2, <5>3 DEF SessionFacts
      <4> QED BY <4>1, <3>i
    <3>6. ASSUME NEW v \in Service, AdmitSession(s, v) PROVE SessionFacts(s)'
      BY <3>6, <1>0, <1>t, <2>1, AdmitSessionShape DEF SessionFacts
    <3>7. CASE RefuseSession(s) \/ EndSession(s)
      BY <3>7, <3>i, EndsShape
    <3> QED BY <1>2, <2>3, <3>1, <3>2, <3>3, <3>4, <3>5, <3>6, <3>7, <3>8, <3>9, <3>10, <3>11, <3>12
            DEF SessionStep
  <2> QED BY <2>2, <2>3
<1>3. ASSUME Background, NEW s \in Stream PROVE SessionFacts(s)'
  <2>1. UNCHANGED cuser /\ ((UNCHANGED <<view, stale, sess>>) \/ Flips)
    BY <1>3, BackgroundFrame
  <2>2. CASE UNCHANGED <<view, stale, sess>>
    BY <1>0, <2>1, <2>2 DEF SessionFacts, Turned, RosterUser, ViewUser, Vouched
  <2>3. CASE Flips
    <3>0. (UNCHANGED <<view, stale, sess>>) \/ (Flip(1) /\ UNCHANGED view) \/ Flip(IF stale THEN 2 ELSE 1)
      BY <1>3 DEF Background, vars, LockedStep, SwapView, SeverRoster, RevokeServiceAllow,
         GrantServiceAllow, UnpairNames, UnpairStrips, StripTargets, StripSevers, ReplaceService,
         StoreStep, UnpairDeletes, WriteRow, PeerRevoke, PeerUnrevoke, RevokeWritesUser,
         RevokeWritesDevices, RevokeTargets, RevokeSevers, UnrevokeDevices, RosterAges, GoStale,
         ConfirmCurrent, StalenessSweep
    <3>1. ASSUME NEW by \in {1, 2}, Flip(by),
                 by = 1 => \A d : ViewUser(d)' = ViewUser(d) \/ ~stale
          PROVE  SessionFacts(s)'
      <4> DEFINE d == Remote[sess[s].conn]
      <4>1. /\ sess'[s].pc = sess[s].pc /\ sess'[s].conn = sess[s].conn
            /\ sess'[s].before = sess[s].before /\ sess'[s].roster = sess[s].roster
            /\ sess'[s].pair = sess[s].pair /\ sess'[s].seen = sess[s].seen
            /\ sess[s].pc \notin Resolving => sess'[s].flips = sess[s].flips
            /\ sess[s].pc \in Resolving =>
                  /\ sess'[s].flips > 0
                  /\ sess'[s].flips < 2 => by = 1 /\ sess[s].flips = 0 /\ sess'[s].flips = 1
        BY <1>t, <3>1, FlipFrame
      <4>2. \A e : ~stale => RosterUser(e) = ViewUser(e) BY DEF RosterUser, Vouched
      <4>3. SessionFacts(s) BY <1>0
      <4>4. sess[s].pc = "named" /\ sess[s].before = NoUser /\ sess'[s].flips < 2
              => sess[s].seen \in {NoUser, ViewUser(d)'}
        BY <3>1, <4>1, <4>2, <4>3 DEF SessionFacts, Resolving
      <4> QED BY <1>t, <2>1, <4>1, <4>3, <4>4 DEF SessionFacts, Turned, Resolving
    <3>2. CASE Flip(1) /\ UNCHANGED view
      BY <3>1, <3>2 DEF ViewUser
    <3>3. CASE Flip(IF stale THEN 2 ELSE 1)
      BY <3>1, <3>3
    <3> QED BY <2>2, <3>0, <3>2, <3>3
  <2> QED BY <2>1, <2>2, <2>3
<1> QED BY <1>1, <1>2, <1>3, Kinds

\* A session served as a roster member is cut when the roster drops its
\* device, unless what its gate reads changed twice while it resolved.
THEOREM RosterSessionsCut == Spec => [](SessFacts /\ RosterSessionCut)
<1>1. Init => SessFacts
  BY DEF Init, SessFacts, SessionFacts, IdleSession
<1>2. TypeOK /\ ConnFacts /\ SessFacts /\ [Next]_vars => SessFacts'
  BY SessFactsStep
<1>3. TypeOK /\ SessFacts /\ RosterCut => RosterSessionCut
  <2> SUFFICES ASSUME TypeOK, SessFacts, RosterCut, NEW s \in Stream,
                      Live(s), sess[s].roster, sess[s].flips < 2,
                      view.user[Remote[sess[s].conn]] = NoUser
               PROVE  install
    BY DEF RosterSessionCut
  <2>1. cuser[sess[s].conn] # NoUser BY DEF SessFacts, SessionFacts, Live, Serving
  <2>2. sess[s].conn \in Conn BY DEF TypeOK, SessTypeOK, Live, Serving
  <2> QED BY <2>1, <2>2 DEF RosterCut, ShouldSever, Live
<1> QED BY <1>1, <1>2, <1>3, TypeCorrect, CountsExact, RosterInstallCuts, PTL DEF Spec

-----------------------------------------------------------------------------
(* Withdrawn access. *)

\* The verbs that strip an allow list swap the live registry before they sever,
\* and the sever finds every session by what it was admitted as.
LEMMA AllowRevokeStep ==
    ASSUME TypeOK, ConnFacts, CountsMatch, AllowRevokeCut, [Next]_vars PROVE AllowRevokeCut'
<1> USE DEF gateVars, storeVars, connVars, opVars
<1> DEFINE Pending(s) == strip.pc \in {"swapped", "resolved"} /\ sess[s].ids \cap strip.prins # {}
           Ok(s) == Live(s) /\ s \notin grandfathered => StillAdmits(s, sess[s].svc) \/ Pending(s)
<1>0. \A s \in Stream : Ok(s) BY DEF AllowRevokeCut, StillAdmits
<1> SUFFICES ASSUME NEW s \in Stream PROVE Ok(s)'
  BY DEF AllowRevokeCut, StillAdmits
<1>t. Serving(s) => sess[s].conn \in Conn /\ sess[s].ids \subseteq Principal /\ sess[s].svc \in Service
  BY DEF TypeOK, SessTypeOK, SessType, Serving, ConnFacts
<1>1. ASSUME NEW c \in Conn, ConnStep(c) PROVE Ok(s)'
  <2>1. UNCHANGED <<sess, allow, strip, grandfathered>>
    BY <1>1 DEF ConnStep, Accept, ReadRosterUser, TagRosterUser, RegisterChecked, PeerCloses, Deregister
  <2>2. Serving(s) /\ conn'[sess[s].conn] = "open" => conn[sess[s].conn] = "open"
    BY <1>1, <1>t DEF ConnStep, Accept, ReadRosterUser, TagRosterUser, RegisterChecked, PeerCloses, Deregister,
                      TypeOK, ConnTypeOK, ConnFacts, Serving
  <2>3. Live(s)' => Live(s) BY <2>1, <2>2 DEF Live, Serving
  <2> QED BY <1>0, <2>1, <2>3 DEF StillAdmits
<1>2. ASSUME NEW t \in Stream, SessionStep(t) PROVE Ok(s)'
  <2>1. /\ UNCHANGED <<allow, conn, strip>>
        /\ \A r \in Stream : r # t => sess'[r] = sess[r]
    BY <1>2, SessionFrame
  <2>2. CASE s # t
    <3>1. s \in grandfathered => s \in grandfathered'
      BY <1>2, <2>2 DEF SessionStep, Initialize, AskBefore, ReadBefore, ReadRevoked, ReadPair, ReadView, ReadRoster,
           CheckRosterIdentity, AskAfter, AdmitRosterUser,
                        AdmitSession, RefuseSession, EndSession
    <3> QED BY <1>0, <2>1, <2>2, <3>1 DEF Live, Serving, StillAdmits
  <2>3. ASSUME NEW v \in Service, AdmitSession(s, v) PROVE Ok(s)'
    <3>1. StillAdmits(s, v)' BY <2>1, <2>3, AdmitSessionShape DEF AdmitSession, StillAdmits
    <3> QED BY <2>3, <3>1, AdmitSessionShape
  <2>4. CASE s = t /\ ~\E v \in Service : AdmitSession(s, v)
    <3>1. sess'[s].pc # "serving"
      BY <1>2, <2>4, AskBeforeShape, ReadBeforeShape, ReadRevokedShape, ReadPairShape,
         ReadViewShape, ReadRosterShape, CheckRosterIdentityShape, AskAfterShape, AdmitRosterUserShape, EndsShape
      DEF SessionStep
    <3> QED BY <3>1 DEF Live, Serving
  <2> QED BY <2>2, <2>3, <2>4
<1>3. CASE Background
  <2>1. /\ \A c \in Conn : conn'[c] = conn[c] \/ (conn[c] = "open" /\ conn'[c] = "closed")
        /\ (UNCHANGED <<view, stale, sess>>) \/ Flips
    BY <1>3, BackgroundFrame
  <2>2. sess'[s].pc = sess[s].pc /\ sess'[s].conn = sess[s].conn /\ sess'[s].ids = sess[s].ids
        /\ sess'[s].svc = sess[s].svc
    BY <2>1, FlipFrame DEF Flips
  <2>3. Live(s)' => Live(s)
    BY <1>t, <2>1, <2>2 DEF Live, Serving
  <2>4. CASE UNCHANGED <<allow, strip, grandfathered>>
    BY <1>0, <2>2, <2>3, <2>4 DEF StillAdmits
  <2>5. ASSUME NEW v \in Service, NEW p, RevokeServiceAllow(v, p) PROVE Ok(s)'
    <3>1. /\ strip.pc = "idle" /\ strip'.pc = "swapped" /\ strip'.prins = {p}
          /\ allow' = [allow EXCEPT ![v] = @ \ {p}] /\ UNCHANGED grandfathered
      BY <2>5 DEF RevokeServiceAllow, LockFree, IdleStrip
    <3> QED BY <1>0, <1>t, <2>2, <2>3, <3>1 DEF StillAdmits, CallerAdmits, Live, TypeOK, StoreTypeOK
  <2>6. ASSUME NEW v \in Service, NEW p, GrantServiceAllow(v, p) PROVE Ok(s)'
    BY <1>0, <1>t, <2>2, <2>3, <2>6
    DEF GrantServiceAllow, StillAdmits, CallerAdmits, Live, TypeOK, StoreTypeOK
  <2>7. ASSUME NEW n, UnpairNames(n) PROVE Ok(s)'
    <3>1. strip.pc = "idle" /\ UNCHANGED <<allow, grandfathered>>
      BY <2>7 DEF UnpairNames, LockFree
    <3> QED BY <1>0, <2>2, <2>3, <3>1 DEF StillAdmits
  <2>8. CASE UnpairStrips
    <3>1. /\ strip.pc = "named" /\ strip'.pc = "swapped" /\ strip'.prins = strip.prins
          /\ UNCHANGED grandfathered
      BY <2>8 DEF UnpairStrips, TypeOK, OpTypeOK, StripType
    <3>2. \A v \in Service : allow'[v] = allow[v] \/ allow'[v] = allow[v] \ strip.prins
      BY <2>8 DEF UnpairStrips
    <3> QED BY <1>0, <1>t, <2>2, <2>3, <3>1, <3>2 DEF StillAdmits, CallerAdmits, Live
  <2>9. CASE StripTargets
    <3>1. /\ strip.pc = "swapped" /\ strip'.pc = "resolved" /\ strip'.prins = strip.prins
          /\ UNCHANGED <<allow, grandfathered>>
      BY <2>9 DEF StripTargets, TypeOK, OpTypeOK, StripType
    <3> QED BY <1>0, <2>2, <2>3, <3>1 DEF StillAdmits
  <2>10. CASE StripSevers
    <3>1. ASSUME Live(s), NEW p \in sess[s].ids \cap strip.prins
          PROVE  conn'[sess[s].conn] = "closed"
      <4>1. s \in Served(sess[s].conn, p) BY <3>1 DEF Served, Live
      <4>2. Cardinality(Served(sess[s].conn, p)) # 0
        BY <4>1, ServedFinite, FS_EmptySet
      <4>3. sess[s].conn \in Conn /\ p \in Principal BY <1>t, <3>1 DEF Live
      <4>4. admitted[sess[s].conn][p] > 0
        BY <3>1, <4>2, <4>3, ServedFinite DEF CountsMatch, Live, Registered
      <4>5. NamedBy(sess[s].conn, strip.targets, strip.prins)
        BY <3>1, <4>3, <4>4 DEF NamedBy
      <4> QED BY <2>10, <3>1, <4>3, <4>5 DEF StripSevers, Sever, Live
    <3>2. UNCHANGED <<allow, grandfathered>> BY <2>10 DEF StripSevers
    <3> QED BY <1>0, <2>2, <2>3, <3>1, <3>2 DEF StillAdmits, Live
  <2>11. ASSUME NEW v \in Service, NEW list, ReplaceService(v, list) PROVE Ok(s)'
    <3>1. /\ UNCHANGED <<strip, sess>> /\ \A w \in Service : w # v => allow'[w] = allow[w]
          /\ grandfathered' = grandfathered \cup {r \in Stream : Serving(r) /\ sess[r].svc = v}
      BY <2>11 DEF ReplaceService, TypeOK, StoreTypeOK
    <3> QED BY <1>0, <1>t, <2>3, <3>1 DEF StillAdmits, Live
  <2> QED
    BY <1>3, <2>4, <2>5, <2>6, <2>7, <2>8, <2>9, <2>10, <2>11
    DEF Background, vars, LockedStep, SwapView, SeverRoster, StoreStep, UnpairDeletes, WriteRow,
        PeerRevoke, PeerUnrevoke, RevokeWritesUser, RevokeWritesDevices, RevokeTargets,
        RevokeSevers, UnrevokeDevices, RosterAges, GoStale, ConfirmCurrent, StalenessSweep
<1> QED BY <1>1, <1>2, <1>3, Kinds

\* service_allow_revoke and peer_remove cut what they withdraw: a live session
\* that its service's list no longer admits is about to be severed.
THEOREM WithdrawnAccessCut == Spec => []AllowRevokeCut
<1>1. Init => AllowRevokeCut
  BY DEF Init, AllowRevokeCut, Live, Serving, IdleSession
<1>2. TypeOK /\ (ConnFacts /\ CountsMatch) /\ AllowRevokeCut /\ [Next]_vars => AllowRevokeCut'
  BY AllowRevokeStep
<1> QED BY <1>1, <1>2, TypeCorrect, CountsExact, PTL DEF Spec
-----------------------------------------------------------------------------
(* Revoked devices. *)

\* A revocation on its way stays on its way until it severs the device, or
\* finds that nothing here names it any more.
LEMMA WillSeverStep ==
    ASSUME TypeOK, [Next]_vars, NEW d \in Device, WillSever(d)
    PROVE  \/ WillSever(d)'
           \/ d \notin EndpointsFor(d) /\ UNCHANGED <<view, conn, cuser>>
           \/ \E o \in Op : RevokeSevers(o) /\ d \in rev[o].targets
<1> USE DEF gateVars, storeVars, connVars, opVars
<1>p. PICK o \in Op : /\ d \in rev[o].devs
                      /\ \/ rev[o].pc = "written"
                         \/ rev[o].pc = "sever" /\ d \in rev[o].targets
  BY DEF WillSever
<1>t. rev \in [Op -> RevType] BY DEF TypeOK, OpTypeOK
<1>1. CASE rev'[o] = rev[o]
  BY <1>p, <1>1 DEF WillSever
<1>2. CASE RevokeTargets(o)
  <2>1. d \in EndpointsFor(d) => d \in UNION {EndpointsFor(p) : p \in RevPrincipals(o)}
    BY <1>p DEF RevPrincipals
  <2>2. /\ rev'[o].pc = "sever" /\ rev'[o].devs = rev[o].devs
        /\ rev'[o].targets = UNION {EndpointsFor(p) : p \in RevPrincipals(o)}
    BY <1>2, <1>t DEF RevokeTargets, RevType
  <2>3. UNCHANGED <<view, conn, cuser>> BY <1>2 DEF RevokeTargets
  <2> QED BY <1>p, <2>1, <2>2, <2>3 DEF WillSever
<1>3. CASE RevokeSevers(o)
  BY <1>p, <1>3 DEF RevokeSevers
<1>4. rev'[o] = rev[o] \/ RevokeTargets(o) \/ RevokeSevers(o)
  <2>1. CASE \E c \in Conn : ConnStep(c)
    BY <2>1 DEF ConnStep, Accept, ReadRosterUser, TagRosterUser, RegisterChecked, PeerCloses, Deregister
  <2>2. CASE \E s \in Stream : SessionStep(s)
    BY <2>2, SessionFrame
  <2>3. CASE LockedStep
    BY <2>3 DEF LockedStep, SwapView, SeverRoster, RevokeServiceAllow, GrantServiceAllow,
                UnpairNames, UnpairStrips, StripTargets, StripSevers, ReplaceService
  <2>4. CASE StoreStep
    <3>1. ASSUME NEW q \in Op, NEW p, PeerRevoke(q, p) \/ PeerUnrevoke(q, p)
          PROVE  rev'[o] = rev[o]
      BY <1>p, <1>t, <3>1 DEF PeerRevoke, PeerUnrevoke
    <3>2. ASSUME NEW q \in Op, RevokeWritesUser(q) \/ RevokeWritesDevices(q) \/ UnrevokeDevices(q)
          PROVE  rev'[o] = rev[o]
      BY <1>p, <1>t, <3>2 DEF RevokeWritesUser, RevokeWritesDevices, UnrevokeDevices
    <3>3. ASSUME NEW q \in Op, RevokeTargets(q) \/ RevokeSevers(q), q # o
          PROVE  rev'[o] = rev[o]
      BY <1>t, <3>3 DEF RevokeTargets, RevokeSevers
    <3> QED BY <2>4, <3>1, <3>2, <3>3 DEF StoreStep, UnpairDeletes, WriteRow
  <2>5. CASE RosterAges \/ UNCHANGED vars
    BY <2>5 DEF RosterAges, GoStale, ConfirmCurrent, StalenessSweep, vars
  <2> QED BY <2>1, <2>2, <2>3, <2>4, <2>5 DEF Next
<1> QED BY <1>1, <1>2, <1>3, <1>4

\* A device becomes revoked by a revocation that is then on its way.
LEMMA NewlyRevoked ==
    ASSUME TypeOK, [Next]_vars, NEW d \in Device, d \notin revokedDev, d \in revokedDev'
    PROVE  WillSever(d)'
<1> USE DEF gateVars, storeVars, connVars, opVars
<1>1. \E o \in Op : RevokeWritesDevices(o)
  <2>1. CASE \E c \in Conn : ConnStep(c)
    BY <2>1 DEF ConnStep, Accept, ReadRosterUser, TagRosterUser, RegisterChecked, PeerCloses, Deregister
  <2>2. CASE \E s \in Stream : SessionStep(s)
    BY <2>2, SessionFrame
  <2>3. CASE LockedStep
    BY <2>3 DEF LockedStep, SwapView, SeverRoster, RevokeServiceAllow, GrantServiceAllow,
                UnpairNames, UnpairStrips, StripTargets, StripSevers, ReplaceService
  <2>4. CASE StoreStep
    BY <2>4 DEF StoreStep, UnpairDeletes, WriteRow, PeerRevoke, PeerUnrevoke, RevokeWritesUser,
                RevokeTargets, RevokeSevers, UnrevokeDevices
  <2>5. CASE RosterAges \/ UNCHANGED vars
    BY <2>5 DEF RosterAges, GoStale, ConfirmCurrent, StalenessSweep, vars
  <2> QED BY <2>1, <2>2, <2>3, <2>4, <2>5 DEF Next
<1>2. PICK o \in Op : RevokeWritesDevices(o) BY <1>1
<1>3. d \in rev[o].devs BY <1>2 DEF RevokeWritesDevices
<1>4. rev'[o].pc = "written" /\ rev'[o].devs = rev[o].devs
  BY <1>2 DEF RevokeWritesDevices, TypeOK, OpTypeOK, RevType
<1> QED BY <1>3, <1>4 DEF WillSever

\* A revocation's sever closes every open connection of its targets.
LEMMA TargetsClosed ==
    ASSUME TypeOK, NEW o \in Op, RevokeSevers(o), NEW c \in Conn, Remote[c] \in rev[o].targets
    PROVE  conn'[c] # "open"
  BY DEF RevokeSevers, Sever, NamedBy, TypeOK, ConnTypeOK

\* A roster connection of a revoked device is about to be closed, by the
\* revocation that found it or by the roster install that dropped it.
LEMMA RevokedConnStep ==
    ASSUME TypeOK, RosterCut, RevokedConnFacts, [Next]_vars PROVE RevokedConnFacts'
<1> USE DEF gateVars, storeVars, connVars, opVars
<1> SUFFICES ASSUME NEW c \in Conn, conn'[c] = "open", cuser'[c] # NoUser, Remote[c] \in revokedDev'
             PROVE  WillSever(Remote[c])' \/ ShouldSever(Remote[c], cuser'[c], view')
  BY DEF RevokedConnFacts, ShouldSever, WillSever
<1>r. Remote[c] \in Device BY ConstantsAssumption
<1>n. CASE Remote[c] \notin revokedDev BY <1>n, <1>r, NewlyRevoked
<1>1. CASE conn[c] = "open" /\ cuser[c] # NoUser /\ Remote[c] \in revokedDev
  <2>1. WillSever(Remote[c]) \/ ShouldSever(Remote[c], cuser[c], view)
    BY <1>1 DEF RevokedConnFacts
  <2>2. CASE WillSever(Remote[c])
    <3>1. CASE Remote[c] \notin EndpointsFor(Remote[c]) /\ UNCHANGED <<view, conn, cuser>>
      BY <1>1, <1>r, <3>1 DEF EndpointsFor, RosterPrincipals, ShouldSever
    <3> QED BY <1>r, <2>2, <3>1, WillSeverStep, TargetsClosed
  <2>3. CASE ShouldSever(Remote[c], cuser[c], view)
    <3>1. install BY <1>1, <2>3 DEF RosterCut
    <3>2. CASE SeverRoster
      BY <2>3, <3>2 DEF SeverRoster, Sever, TypeOK, ConnTypeOK
    <3>3. CASE ~SeverRoster
      <4>1. UNCHANGED view
        BY <3>1, <3>3 DEF Next, vars, ConnStep, Accept, ReadRosterUser, TagRosterUser, RegisterChecked, PeerCloses,
           Deregister, SessionStep, Initialize, AskBefore, ReadBefore, ReadRevoked, ReadPair, ReadView, ReadRoster,
           CheckRosterIdentity, AskAfter, AdmitRosterUser,
           AdmitSession, RefuseSession, EndSession, LockedStep, SwapView, LockFree,
           RevokeServiceAllow, GrantServiceAllow, UnpairNames, UnpairStrips, StripTargets,
           StripSevers, ReplaceService, StoreStep, UnpairDeletes, WriteRow, PeerRevoke,
           PeerUnrevoke, RevokeWritesUser, RevokeWritesDevices, RevokeTargets, RevokeSevers,
           UnrevokeDevices, RosterAges, GoStale, ConfirmCurrent, StalenessSweep
      <4> QED BY <1>1, <2>3, <4>1 DEF ShouldSever
    <3> QED BY <3>2, <3>3
  <2> QED BY <2>1, <2>2, <2>3
<1>2. CASE Remote[c] \in revokedDev /\ ~(conn[c] = "open" /\ cuser[c] # NoUser)
  \* The connection was opened, or its entry promoted, past a recheck that
  \* would have refused a revoked device.
  <2>1. ASSUME NEW e \in Conn, ConnStep(e) PROVE FALSE
    BY <1>2, <2>1 DEF ConnStep, Accept, ReadRosterUser, TagRosterUser, RegisterChecked, PeerCloses, Deregister,
                      ShouldSeverNow, Refused, TypeOK, ConnTypeOK
  <2>2. ASSUME NEW s \in Stream, SessionStep(s) PROVE FALSE
    <3>1. UNCHANGED conn BY <2>2, SessionFrame
    <3>2. CASE AdmitRosterUser(s)
      BY <1>2, <3>1, <3>2 DEF AdmitRosterUser, ShouldSeverNow, Refused, TypeOK, ConnTypeOK
    <3>3. CASE ~AdmitRosterUser(s)
      <4>1. UNCHANGED cuser
        BY <2>2, <3>3 DEF SessionStep, Initialize, AskBefore, ReadBefore, ReadRevoked, ReadPair, ReadView, ReadRoster,
           CheckRosterIdentity, AskAfter, AdmitSession,
                          RefuseSession, EndSession
      <4> QED BY <1>2, <3>1, <4>1
    <3> QED BY <3>2, <3>3
  <2>3. CASE Background
    BY <1>2, <2>3, BackgroundFrame
  <2> QED BY <2>1, <2>2, <2>3, Kinds
<1> QED BY <1>n, <1>1, <1>2
\* While pairs are not removed, the row a session was resolved by stays, and a
\* revocation of its device is on its way to close its connection.
LEMMA RowFactsStep ==
    ASSUME "peer_remove" \notin Verbs, TypeOK, ConnFacts, RowFacts, [Next]_vars PROVE RowFacts'
<1> USE DEF gateVars, storeVars, connVars, opVars
<1>1. strip'.nick = NoNick /\ removing' = {}
  <2>0. strip.nick = NoNick /\ removing = {} BY DEF RowFacts
  <2>1. CASE LockedStep
    <3>1. ASSUME NEW v, NEW p, RevokeServiceAllow(v, p) PROVE strip'.nick = NoNick /\ removing' = {}
      BY <2>0, <3>1 DEF RevokeServiceAllow, IdleStrip
    <3>2. CASE StripTargets \/ UnpairStrips
      BY <2>0, <3>2 DEF StripTargets, UnpairStrips, TypeOK, OpTypeOK, StripType
    <3>3. CASE StripSevers BY <2>0, <3>3 DEF StripSevers, IdleStrip
    <3> QED BY <2>0, <2>1, <3>1, <3>2, <3>3
            DEF LockedStep, SwapView, SeverRoster, GrantServiceAllow, UnpairNames, ReplaceService
  <2>2. CASE StoreStep
    BY <2>0, <2>2 DEF StoreStep, UnpairDeletes, WriteRow, PeerRevoke, PeerUnrevoke,
        RevokeWritesUser, RevokeWritesDevices, RevokeTargets, RevokeSevers, UnrevokeDevices
  <2>3. CASE \E s \in Stream : SessionStep(s) BY <2>0, <2>3, SessionFrame
  <2> QED BY <2>0, <2>1, <2>2, <2>3
          DEF Next, vars, ConnStep, Accept, ReadRosterUser, TagRosterUser, RegisterChecked, PeerCloses, Deregister,
              RosterAges, GoStale, ConfirmCurrent, StalenessSweep
<1>2. \A d \in Device : peers[d] # NoRow => peers'[d] # NoRow
  <2>0. removing = {} BY DEF RowFacts
  <2>1. (UNCHANGED peers) \/ (\E d \in Device, row \in Rows : WriteRow(d, row))
    BY <2>0, SessionFrame
       DEF Next, vars, ConnStep, Accept, ReadRosterUser, TagRosterUser, RegisterChecked, PeerCloses, Deregister,
           LockedStep, SwapView, SeverRoster, RevokeServiceAllow, GrantServiceAllow, UnpairNames,
           UnpairStrips, StripTargets, StripSevers, ReplaceService, StoreStep, UnpairDeletes,
           PeerRevoke, PeerUnrevoke, RevokeWritesUser, RevokeWritesDevices, RevokeTargets,
           RevokeSevers, UnrevokeDevices, RosterAges, GoStale, ConfirmCurrent, StalenessSweep
  <2> QED BY <2>1, InputsAssumption, ConstantsAssumption DEF WriteRow, TypeOK, StoreTypeOK
<1> DEFINE Resolved(s) == sess[s].pc \in {"paired", "named", "vouched", "resolved", "after", "promoted", "serving"} /\ sess[s].pair # {}
           Row(s) == peers[Remote[sess[s].conn]] # NoRow
           Cut(s) == conn[sess[s].conn] = "open" /\ Remote[sess[s].conn] \in revokedDev
                        => WillSever(Remote[sess[s].conn])
<1>0. \A s \in Stream : Resolved(s) => Row(s) /\ Cut(s) BY DEF RowFacts
<1>3. ASSUME NEW s \in Stream, Resolved(s), sess'[s].conn = sess[s].conn PROVE (Row(s) /\ Cut(s))'
  <2>1. sess[s].conn \in Conn /\ Remote[sess[s].conn] \in Device
    BY <1>3, ConstantsAssumption DEF TypeOK, SessTypeOK
  <2>2. Row(s)' BY <1>0, <1>2, <1>3, <2>1
  <2>3. conn'[sess[s].conn] = "open" => conn[sess[s].conn] = "open"
    <3>1. conn[sess[s].conn] \in {"open", "closed", "gone"} BY <1>3 DEF ConnFacts
    <3>2. ASSUME NEW c \in Conn, ConnStep(c)
          PROVE  conn'[sess[s].conn] = "open" => conn[sess[s].conn] = "open"
      BY <2>1, <3>1, <3>2 DEF ConnStep, Accept, ReadRosterUser, TagRosterUser, RegisterChecked, PeerCloses,
                              Deregister, TypeOK, ConnTypeOK
    <3> QED BY <2>1, <3>2, Kinds, SessionFrame, BackgroundFrame
  <2>4. Cut(s)'
    <3>1. CASE Remote[sess[s].conn] \notin revokedDev
      BY <1>3, <2>1, <3>1, NewlyRevoked DEF WillSever
    <3>2. CASE Remote[sess[s].conn] \in revokedDev /\ conn[sess[s].conn] = "open"
      <4>1. WillSever(Remote[sess[s].conn]) /\ Row(s) BY <1>0, <1>3, <3>2
      <4>2. Remote[sess[s].conn] \in EndpointsFor(Remote[sess[s].conn])
        BY <2>1, <4>1 DEF EndpointsFor
      <4> PICK d \in Device : d = Remote[sess[s].conn] BY <2>1
      <4>3. WillSever(d)' \/ (\E o \in Op : RevokeSevers(o) /\ d \in rev[o].targets)
        BY <4>1, <4>2, WillSeverStep
      <4>4. d = Remote[sess'[s].conn] BY <1>3
      <4>5. conn'[sess'[s].conn] = "open" => WillSever(d)'
        BY <1>3, <2>1, <4>3, TargetsClosed
      <4> QED BY <4>4, <4>5 DEF WillSever
    <3> QED BY <1>3, <2>3, <3>1, <3>2
  <2> QED BY <2>2, <2>4
<1>4. ASSUME NEW s \in Stream, Resolved(s)' PROVE (Row(s) /\ Cut(s))'
  <2>1. CASE Resolved(s) /\ sess'[s].conn = sess[s].conn BY <1>3, <2>1
  <2>2. CASE ~(Resolved(s) /\ sess'[s].conn = sess[s].conn)
    <3>1. ReadPair(s)
      <4>1. ASSUME NEW t \in Stream, SessionStep(t) PROVE ReadPair(s)
        <5>1. s = t BY <1>4, <2>2, <4>1, SessionFrame
        <5> QED BY <1>4, <2>2, <4>1, <5>1, AskBeforeShape, ReadBeforeShape, ReadRevokedShape, ReadViewShape, ReadRosterShape,
                   CheckRosterIdentityShape, AskAfterShape, AdmitRosterUserShape,
                   AdmitSessionShape, EndsShape DEF SessionStep
      <4>2. CASE Background
        <5>1. sess'[s].pc = sess[s].pc /\ sess'[s].conn = sess[s].conn /\ sess'[s].pair = sess[s].pair
          BY <4>2, BackgroundFrame, FlipFrame DEF Flips
        <5> QED BY <1>4, <2>2, <5>1
      <4>3. ASSUME NEW c \in Conn, ConnStep(c) PROVE UNCHANGED sess
        BY <4>3 DEF ConnStep, Accept, ReadRosterUser, TagRosterUser, RegisterChecked, PeerCloses, Deregister
      <4> QED BY <1>4, <2>2, <4>1, <4>2, <4>3, Kinds
    <3>2. /\ sess'[s].conn = sess[s].conn /\ ~Refused(Remote[sess[s].conn])
          /\ sess'[s].pair = PairPrincipals(Remote[sess[s].conn])
      BY <1>4, <3>1, ReadPairShape, EndsShape
    <3>3. peers[Remote[sess[s].conn]] # NoRow
      BY <1>4, <3>2 DEF PairPrincipals
    <3>4. UNCHANGED <<peers, revokedDev>> BY <3>1 DEF ReadPair
    <3> QED BY <3>2, <3>3, <3>4 DEF Refused
  <2> QED BY <2>1, <2>2
<1> QED BY <1>1, <1>4 DEF RowFacts, WillSever

\* While no pair is removed, a device that peer_revoke has revoked is not
\* served: every session of it is cut, those already past their gate read too.
THEOREM RevokedDevicesCut ==
    ASSUME "peer_remove" \notin Verbs PROVE Spec => []RevokedDeviceCut
<1>1. Init => RevokedConnFacts /\ RowFacts
  BY DEF Init, RevokedConnFacts, RowFacts, IdleStrip, IdleSession
<1>2. TypeOK /\ RosterCut /\ RevokedConnFacts /\ [Next]_vars => RevokedConnFacts'
  BY RevokedConnStep
<1>3. TypeOK /\ (ConnFacts /\ CountsMatch) /\ RowFacts /\ [Next]_vars => RowFacts'
  BY RowFactsStep
<1>4. TypeOK /\ RosterCut /\ (SessFacts /\ RosterSessionCut) /\ RevokedConnFacts /\ RowFacts
        => RevokedDeviceCut
  <2> SUFFICES ASSUME TypeOK, RosterCut, SessFacts, RevokedConnFacts, RowFacts, NEW s \in Stream,
                      Live(s), sess[s].flips < 2, Remote[sess[s].conn] \in revokedDev
               PROVE  RevocationPending(Remote[sess[s].conn]) \/ install
    BY DEF RevokedDeviceCut
  <2>1. sess[s].conn \in Conn /\ sess[s].roster \in BOOLEAN
    BY DEF TypeOK, SessTypeOK, SessType, Live, Serving
  <2>2. CASE sess[s].roster
    <3>1. cuser[sess[s].conn] # NoUser BY <2>2 DEF SessFacts, SessionFacts, Live, Serving
    <3> QED BY <2>1, <3>1 DEF RevokedConnFacts, RosterCut, Live, WillSever, RevocationPending
  <2>3. CASE ~sess[s].roster
    <3>1. sess[s].pair # {} BY <2>3 DEF SessFacts, SessionFacts, Live, Serving
    <3> QED BY <3>1 DEF RowFacts, Live, Serving, WillSever, RevocationPending
  <2> QED BY <2>1, <2>2, <2>3
<1> QED BY <1>1, <1>2, <1>3, <1>4, TypeCorrect, CountsExact, RosterInstallCuts, RosterSessionsCut, PTL
        DEF Spec
=============================================================================
