--------------------------- MODULE PairingProofs ---------------------------
(***************************************************************************)
(* Proofs about pairing: the registry of invites (Invites), for any        *)
(* secrets, uses and redeemers, of a registry whose minting clients stay   *)
(* connected; and the ceremonies between nodes (Pairing), for any nodes,   *)
(* names, services and offers and any number of ceremonies, verbs and      *)
(* crashes.                                                                *)
(*                                                                         *)
(* The ceremonies' invariant FullInv has three parts beside the types.     *)
(* ShapeInv says what the record of each thread holds at each point of the *)
(* code.  FreshInv says what a thread may rely on: one that is not stale,  *)
(* for no other thread has written its node's store since it read, still   *)
(* finds the name free, the row as it merged it, the grants stripped.      *)
(* NodeInv says what the store, the allow list and the answers given have  *)
(* to do with each other on a node where no stale thread has written.  A   *)
(* step leaves a node quiet, or marks its other threads stale: so each     *)
(* action need only be looked at for the thread and the node that step     *)
(* (StepKeeps, PutKeeps).                                                  *)
(***************************************************************************)
EXTENDS Invites, Pairing, TLAPS

-----------------------------------------------------------------------------
(* The registry of invites.                                                  *)

LEMMA InvInit == Init => Inv
  <1> SUFFICES ASSUME Init PROVE Inv
    OBVIOUS
  <1> USE InviteAssumption DEF Init, Inv, Empty, Idle, Free
  <1>1. TypeOK
    BY DEF TypeOK, WriterType, ReqType, Snapshot
  <1>2. LockFacts /\ ClockFacts /\ DiskFacts
    BY DEF LockFacts, ClockFacts, DiskFacts, Before
  <1>3. FreshFacts /\ LeftFacts /\ UsesAccounted /\ DownAccounted
    BY DEF FreshFacts, LeftFacts, UsesAccounted, DownAccounted, Taking, Minting
  <1> QED
    BY <1>1, <1>2, <1>3

(* MintInvite: the verb reads the clock. *)
LEMMA MintInviteKeeps ==
  ASSUME Inv, NEW s \in Secret, MintInvite(s)
  PROVE  Inv'
  <1> USE InviteAssumption DEF Inv, MintInvite, TypeOK, WriterType, ReqType, Snapshot
  <1>1. TypeOK'
    BY DEF LockFacts, ClockFacts
  <1>2. LockFacts'
    BY DEF LockFacts, ClockFacts
  <1>3. ClockFacts'
    BY DEF ClockFacts, LockFacts
  <1>4. DiskFacts'
    BY DEF DiskFacts, Before, LockFacts, ClockFacts, FreshFacts, Minting
  <1>5. FreshFacts'
    BY DEF FreshFacts, Minting, LockFacts, ClockFacts
  <1>6. LeftFacts'
    BY DEF LeftFacts, Taking, LockFacts, FreshFacts, Minting
  <1>7. UsesAccounted'
    BY DEF UsesAccounted, Taking, LockFacts, ClockFacts, FreshFacts, DownAccounted
  <1>8. DownAccounted'
    BY DEF DownAccounted, Taking, LockFacts, DiskFacts, Before, UsesAccounted, FreshFacts
  <1> QED
    BY <1>1, <1>2, <1>3, <1>4, <1>5, <1>6, <1>7, <1>8

(* RemoveExpired: only expired secrets are reaped. *)
LEMMA RemoveExpiredKeeps ==
  ASSUME Inv, NEW s \in Secret, RemoveExpired(s)
  PROVE  Inv'
  <1> USE InviteAssumption DEF Inv, RemoveExpired, WriteThrough, Without, Known, Free, Empty, TypeOK, WriterType, ReqType, Snapshot
  <1>1. TypeOK'
    BY DEF LockFacts, ClockFacts
  <1>2. LockFacts'
    BY DEF LockFacts, ClockFacts
  <1>3. ClockFacts'
    BY DEF ClockFacts, LockFacts
  <1>4. DiskFacts'
    BY DEF DiskFacts, Before, LockFacts, ClockFacts, FreshFacts, Minting
  <1>5. FreshFacts'
    BY DEF FreshFacts, Minting, LockFacts, ClockFacts
  <1>6. LeftFacts'
    <2> SUFFICES ASSUME NEW t \in Secret
                 PROVE  /\ ram'[t] + granted[t] <= Uses[t]
                        /\ disk[t] + granted[t] <= Uses[t]
                        /\ ~Taking(t)'
      BY DEF LeftFacts
    <2>1. ~Taking(t) /\ ~Taking(t)'
      BY DEF LockFacts, Taking
    <2>2. ram'[t] <= ram[t] /\ ram'[t] \in Nat
      OBVIOUS
    <2> QED
      BY <2>1, <2>2 DEF LeftFacts
  <1>7. UsesAccounted'
    BY DEF UsesAccounted, Taking, LockFacts, ClockFacts, FreshFacts, DownAccounted
  <1>8. DownAccounted'
    BY DEF DownAccounted, Taking, LockFacts, DiskFacts, Before, UsesAccounted, FreshFacts
  <1> QED
    BY <1>1, <1>2, <1>3, <1>4, <1>5, <1>6, <1>7, <1>8

(* FinishReap: a reap ends. *)
LEMMA FinishReapKeeps ==
  ASSUME Inv, FinishReap
  PROVE  Inv'
  <1> USE InviteAssumption DEF Inv, FinishReap, Free, Empty, TypeOK, WriterType, ReqType, Snapshot
  <1>1. TypeOK'
    BY DEF LockFacts, ClockFacts
  <1>2. LockFacts'
    BY DEF LockFacts, ClockFacts
  <1>3. ClockFacts'
    BY DEF ClockFacts, LockFacts
  <1>4. DiskFacts'
    BY DEF DiskFacts, Before, LockFacts, ClockFacts, FreshFacts, Minting
  <1>5. FreshFacts'
    BY DEF FreshFacts, Minting, LockFacts, ClockFacts
  <1>6. LeftFacts'
    BY DEF LeftFacts, Taking, LockFacts, FreshFacts, Minting
  <1>7. UsesAccounted'
    BY DEF UsesAccounted, Taking, LockFacts, ClockFacts, FreshFacts, DownAccounted
  <1>8. DownAccounted'
    BY DEF DownAccounted, Taking, LockFacts, DiskFacts, Before, UsesAccounted, FreshFacts
  <1> QED
    BY <1>1, <1>2, <1>3, <1>4, <1>5, <1>6, <1>7, <1>8

(* Mint: the insert is of an unused secret. *)
LEMMA MintKeeps ==
  ASSUME Inv, NEW s \in Secret, Mint(s)
  PROVE  Inv'
  <1> USE InviteAssumption DEF Inv, Mint, WriteThrough, Free, Empty, TypeOK, WriterType, ReqType, Snapshot
  <1>1. TypeOK'
    BY DEF LockFacts, ClockFacts
  <1>2. LockFacts'
    BY DEF LockFacts, ClockFacts
  <1>3. ClockFacts'
    BY DEF ClockFacts, LockFacts
  <1>4. DiskFacts'
    BY DEF DiskFacts, Before, LockFacts, ClockFacts, FreshFacts, Minting
  <1>5. FreshFacts'
    BY DEF FreshFacts, Minting, LockFacts, ClockFacts
  <1>6. LeftFacts'
    <2>0. ram \in [Secret -> Nat] /\ Uses \in [Secret -> Nat]
      OBVIOUS
    <2>1. \A t \in Secret : ~Taking(t) /\ ~Taking(t)'
      BY DEF LockFacts, Taking
    <2>2. ~Minting(s)
      BY DEF LockFacts, Minting
    <2>3. granted[s] = 0 /\ disk[s] = 0
      BY <2>2 DEF FreshFacts
    <2>4. ram' = [ram EXCEPT ![s] = Uses[s]] /\ disk' = disk /\ granted' = granted
      OBVIOUS
    <2>5. \A t \in Secret : ram'[t] + granted[t] <= Uses[t] /\ disk[t] + granted[t] <= Uses[t]
      <3> SUFFICES ASSUME NEW t \in Secret
                   PROVE  ram'[t] + granted[t] <= Uses[t] /\ disk[t] + granted[t] <= Uses[t]
        OBVIOUS
      <3>1. CASE t = s
        <4>1. ram'[s] = Uses[s] /\ Uses[s] \in Nat
          BY <2>0, <2>4
        <4> QED
          BY <2>3, <3>1, <4>1
      <3>2. CASE t # s
        BY <2>1, <2>4, <3>2 DEF LeftFacts
      <3> QED
        BY <3>1, <3>2
    <2>6. ram' \in [Secret -> Nat] /\ granted \in [Secret -> Nat] /\ disk \in [Secret -> Nat]
      BY <1>1
    <2> HIDE DEF Inv, Mint, WriteThrough, TypeOK, WriterType, ReqType, Free
    <2> QED
      BY <2>1, <2>4, <2>5, <2>6 DEF LeftFacts
  <1>7. UsesAccounted'
    BY DEF UsesAccounted, Taking, LockFacts, ClockFacts, FreshFacts, DownAccounted
  <1>8. DownAccounted'
    BY DEF DownAccounted, Taking, LockFacts, DiskFacts, Before, UsesAccounted, FreshFacts
  <1> QED
    BY <1>1, <1>2, <1>3, <1>4, <1>5, <1>6, <1>7, <1>8

(* FinishMint: the line is handed out, or the insert undone. *)
LEMMA FinishMintKeeps ==
  ASSUME Inv, FinishMint
  PROVE  Inv'
  <1> USE InviteAssumption DEF Inv, FinishMint, Free, Empty, TypeOK, WriterType, ReqType, Snapshot
  <1>1. TypeOK'
    BY DEF LockFacts, ClockFacts
  <1>2. LockFacts'
    BY DEF LockFacts, ClockFacts
  <1>3. ClockFacts'
    BY DEF ClockFacts, LockFacts
  <1>4. DiskFacts'
    BY DEF DiskFacts, Before, LockFacts, ClockFacts, FreshFacts, Minting
  <1>5. FreshFacts'
    BY DEF FreshFacts, Minting, LockFacts, ClockFacts
  <1>6. LeftFacts'
    BY DEF LeftFacts, Taking, LockFacts, FreshFacts, Minting
  <1>7. UsesAccounted'
    BY DEF UsesAccounted, Taking, LockFacts, ClockFacts, FreshFacts, DownAccounted
  <1>8. DownAccounted'
    BY DEF DownAccounted, Taking, LockFacts, DiskFacts, Before, UsesAccounted, FreshFacts
  <1> QED
    BY <1>1, <1>2, <1>3, <1>4, <1>5, <1>6, <1>7, <1>8

(* Hello: a secret is presented. *)
LEMMA HelloKeeps ==
  ASSUME Inv, NEW r \in Redeemer, NEW s \in Secret, Hello(r, s)
  PROVE  Inv'
  <1> USE InviteAssumption DEF Inv, Hello, TypeOK, WriterType, ReqType, Snapshot
  <1>1. TypeOK'
    BY DEF LockFacts, ClockFacts
  <1>2. LockFacts'
    BY DEF LockFacts, ClockFacts
  <1>3. ClockFacts'
    BY DEF ClockFacts, LockFacts
  <1>4. DiskFacts'
    BY DEF DiskFacts, Before, LockFacts, ClockFacts, FreshFacts, Minting
  <1>5. FreshFacts'
    BY DEF FreshFacts, Minting, LockFacts, ClockFacts
  <1>6. LeftFacts'
    BY DEF LeftFacts, Taking, LockFacts, FreshFacts, Minting
  <1>7. UsesAccounted'
    BY DEF UsesAccounted, Taking, LockFacts, ClockFacts, FreshFacts, DownAccounted
  <1>8. DownAccounted'
    BY DEF DownAccounted, Taking, LockFacts, DiskFacts, Before, UsesAccounted, FreshFacts
  <1> QED
    BY <1>1, <1>2, <1>3, <1>4, <1>5, <1>6, <1>7, <1>8

(* RedeemUnknown: nothing changes. *)
LEMMA RedeemUnknownKeeps ==
  ASSUME Inv, NEW r \in Redeemer, RedeemUnknown(r)
  PROVE  Inv'
  <1> USE InviteAssumption DEF Inv, RedeemUnknown, Known, Idle, TypeOK, WriterType, ReqType, Snapshot
  <1>1. TypeOK'
    BY DEF LockFacts, ClockFacts
  <1>2. LockFacts'
    BY DEF LockFacts, ClockFacts
  <1>3. ClockFacts'
    BY DEF ClockFacts, LockFacts
  <1>4. DiskFacts'
    BY DEF DiskFacts, Before, LockFacts, ClockFacts, FreshFacts, Minting
  <1>5. FreshFacts'
    BY DEF FreshFacts, Minting, LockFacts, ClockFacts
  <1>6. LeftFacts'
    BY DEF LeftFacts, Taking, LockFacts, FreshFacts, Minting
  <1>7. UsesAccounted'
    BY DEF UsesAccounted, Taking, LockFacts, ClockFacts, FreshFacts, DownAccounted
  <1>8. DownAccounted'
    BY DEF DownAccounted, Taking, LockFacts, DiskFacts, Before, UsesAccounted, FreshFacts
  <1> QED
    BY <1>1, <1>2, <1>3, <1>4, <1>5, <1>6, <1>7, <1>8

(* TryRedeem: a use is taken, or an expired entry dropped. *)
LEMMA TryRedeemKeeps ==
  ASSUME Inv, NEW r \in Redeemer, TryRedeem(r)
  PROVE  Inv'
  <1> USE InviteAssumption DEF Inv, TryRedeem, WriteThrough, Without, Known, Free, Empty, TypeOK, WriterType, ReqType, Snapshot
  <1>1. TypeOK'
    BY DEF LockFacts, ClockFacts
  <1>2. LockFacts'
    BY DEF LockFacts, ClockFacts
  <1>3. ClockFacts'
    BY DEF ClockFacts, LockFacts
  <1>4. DiskFacts'
    BY DEF DiskFacts, Before, LockFacts, ClockFacts, FreshFacts, Minting
  <1>5. FreshFacts'
    BY DEF FreshFacts, Minting, LockFacts, ClockFacts
  <1>6. LeftFacts'
    BY DEF LeftFacts, Taking, LockFacts, FreshFacts, Minting
  <1>7. UsesAccounted'
    BY DEF UsesAccounted, Taking, LockFacts, ClockFacts, FreshFacts, DownAccounted
  <1>8. DownAccounted'
    BY DEF DownAccounted, Taking, LockFacts, DiskFacts, Before, UsesAccounted, FreshFacts
  <1> QED
    BY <1>1, <1>2, <1>3, <1>4, <1>5, <1>6, <1>7, <1>8

(* FinishExpired: an expired secret is refused. *)
LEMMA FinishExpiredKeeps ==
  ASSUME Inv, FinishExpired
  PROVE  Inv'
  <1> USE InviteAssumption DEF Inv, FinishExpired, Free, Empty, Idle, TypeOK, WriterType, ReqType, Snapshot
  <1>1. TypeOK'
    BY DEF LockFacts, ClockFacts
  <1>2. LockFacts'
    BY DEF LockFacts, ClockFacts
  <1>3. ClockFacts'
    BY DEF ClockFacts, LockFacts
  <1>4. DiskFacts'
    BY DEF DiskFacts, Before, LockFacts, ClockFacts, FreshFacts, Minting
  <1>5. FreshFacts'
    BY DEF FreshFacts, Minting, LockFacts, ClockFacts
  <1>6. LeftFacts'
    BY DEF LeftFacts, Taking, LockFacts, FreshFacts, Minting
  <1>7. UsesAccounted'
    BY DEF UsesAccounted, Taking, LockFacts, ClockFacts, FreshFacts, DownAccounted
  <1>8. DownAccounted'
    BY DEF DownAccounted, Taking, LockFacts, DiskFacts, Before, UsesAccounted, FreshFacts
  <1> QED
    BY <1>1, <1>2, <1>3, <1>4, <1>5, <1>6, <1>7, <1>8

(* FinishRedeem: the use is granted, or put back. *)
LEMMA FinishRedeemKeeps ==
  ASSUME Inv, FinishRedeem
  PROVE  Inv'
  <1> USE InviteAssumption DEF Inv, FinishRedeem, Free, Empty, Idle, TypeOK, WriterType, ReqType, Snapshot
  <1>1. TypeOK'
    <2>1. ram' \in Snapshot /\ granted' \in Snapshot
      BY DEF LockFacts
    <2>2. req' \in [Redeemer -> ReqType]
      BY DEF LockFacts
    <2>3. writer' \in WriterType
      OBVIOUS
    <2> QED
      BY <2>1, <2>2, <2>3
  <1>2. LockFacts'
    BY DEF LockFacts, ClockFacts
  <1>3. ClockFacts'
    BY DEF ClockFacts, LockFacts
  <1>4. DiskFacts'
    BY DEF DiskFacts, Before, LockFacts, ClockFacts, FreshFacts, Minting
  <1>5. FreshFacts'
    BY DEF FreshFacts, Minting, LockFacts, ClockFacts
  <1>6. LeftFacts'
    BY DEF LeftFacts, Taking, LockFacts, FreshFacts, Minting
  <1>7. UsesAccounted'
    <2> SUFFICES ASSUME up, NEW t \in Secret \ dead, issue[t] = "told"
                 PROVE  ram'[t] + granted'[t] + inDoubt[t] = Uses[t]
      BY DEF UsesAccounted, Taking
    <2>1. ram[t] + granted[t] + inDoubt[t] + (IF Taking(t) THEN 1 ELSE 0) = Uses[t]
      BY DEF UsesAccounted
    <2>2. /\ writer.secret \in Secret
          /\ Taking(t) <=> t = writer.secret
          /\ ram[t] \in Nat /\ granted[t] \in Nat /\ inDoubt[t] \in Nat
      BY DEF LockFacts, Taking
    <2>3. CASE t = writer.secret
      BY <2>1, <2>2, <2>3
    <2>4. CASE t # writer.secret
      BY <2>1, <2>2, <2>4
    <2> QED
      BY <2>3, <2>4
  <1>8. DownAccounted'
    BY DEF DownAccounted, Taking, LockFacts, DiskFacts, Before, UsesAccounted, FreshFacts
  <1> QED
    BY <1>1, <1>2, <1>3, <1>4, <1>5, <1>6, <1>7, <1>8

(* StoreEnds: the file is replaced, or not. *)
LEMMA StoreEndsKeeps ==
  ASSUME Inv, StoreEnds
  PROVE  Inv'
  <1> USE InviteAssumption DEF Inv, StoreEnds, TypeOK, WriterType, ReqType, Snapshot
  <1>1. TypeOK'
    BY DEF LockFacts, ClockFacts
  <1>2. LockFacts'
    BY DEF LockFacts, ClockFacts
  <1>3. ClockFacts'
    BY DEF ClockFacts, LockFacts
  <1>4. DiskFacts'
    BY DEF DiskFacts, Before, LockFacts, ClockFacts, FreshFacts, Minting
  <1>5. FreshFacts'
    BY DEF FreshFacts, Minting, LockFacts, ClockFacts
  <1>6. LeftFacts'
    BY DEF LeftFacts, Taking, LockFacts, FreshFacts, Minting
  <1>7. UsesAccounted'
    BY DEF UsesAccounted, Taking, LockFacts, ClockFacts, FreshFacts, DownAccounted
  <1>8. DownAccounted'
    BY DEF DownAccounted, Taking, LockFacts, DiskFacts, Before, UsesAccounted, FreshFacts
  <1> QED
    BY <1>1, <1>2, <1>3, <1>4, <1>5, <1>6, <1>7, <1>8

(* Expire: fewer secrets to account for. *)
LEMMA ExpireKeeps ==
  ASSUME Inv, NEW s \in Secret, Expire(s)
  PROVE  Inv'
  <1> USE InviteAssumption DEF Inv, Expire, TypeOK, WriterType, ReqType, Snapshot
  <1>1. TypeOK'
    BY DEF LockFacts, ClockFacts
  <1>2. LockFacts'
    BY DEF LockFacts, ClockFacts
  <1>3. ClockFacts'
    BY DEF ClockFacts, LockFacts
  <1>4. DiskFacts'
    BY DEF DiskFacts, Before, LockFacts, ClockFacts, FreshFacts, Minting
  <1>5. FreshFacts'
    BY DEF FreshFacts, Minting, LockFacts, ClockFacts
  <1>6. LeftFacts'
    BY DEF LeftFacts, Taking, LockFacts, FreshFacts, Minting
  <1>7. UsesAccounted'
    BY DEF UsesAccounted, Taking, LockFacts, ClockFacts, FreshFacts, DownAccounted
  <1>8. DownAccounted'
    BY DEF DownAccounted, Taking, LockFacts, DiskFacts, Before, UsesAccounted, FreshFacts
  <1> QED
    BY <1>1, <1>2, <1>3, <1>4, <1>5, <1>6, <1>7, <1>8

(* Crash: what was on disk is what is left. *)
LEMMA CrashKeeps ==
  ASSUME Inv, Crash
  PROVE  Inv'
  <1> USE InviteAssumption DEF Inv, Crash, Free, Empty, Idle, TypeOK, WriterType, ReqType, Snapshot
  <1>1. TypeOK'
    <2>1. inDoubt' \in Snapshot /\ ram' \in Snapshot
      OBVIOUS
    <2>2. req' \in [Redeemer -> ReqType]
      OBVIOUS
    <2>3. writer' \in WriterType
      OBVIOUS
    <2>4. issue' \in [Secret -> {"new", "reap", "mint", "told", "failed"}]
      OBVIOUS
    <2> QED
      BY <2>1, <2>2, <2>3, <2>4
  <1>2. LockFacts'
    BY DEF LockFacts, ClockFacts
  <1>3. ClockFacts'
    BY DEF ClockFacts, LockFacts
  <1>4. DiskFacts'
    BY DEF DiskFacts, Before, LockFacts, ClockFacts, FreshFacts, Minting
  <1>5. FreshFacts'
    BY DEF FreshFacts, Minting, LockFacts, ClockFacts
  <1>6. LeftFacts'
    BY DEF LeftFacts, Taking, LockFacts, FreshFacts, Minting
  <1>7. UsesAccounted'
    BY DEF UsesAccounted, Taking, LockFacts, ClockFacts, FreshFacts, DownAccounted
  <1>8. DownAccounted'
    BY DEF DownAccounted, Taking, LockFacts, DiskFacts, Before, UsesAccounted, FreshFacts
  <1> QED
    BY <1>1, <1>2, <1>3, <1>4, <1>5, <1>6, <1>7, <1>8

(* Restart: the map is what was live on disk. *)
LEMMA RestartKeeps ==
  ASSUME Inv, Restart
  PROVE  Inv'
  <1> USE InviteAssumption DEF Inv, Restart, Without, Free, Empty, TypeOK, WriterType, ReqType, Snapshot
  <1>1. TypeOK'
    BY DEF LockFacts, ClockFacts
  <1>2. LockFacts'
    BY DEF LockFacts, ClockFacts
  <1>3. ClockFacts'
    BY DEF ClockFacts, LockFacts
  <1>4. DiskFacts'
    BY DEF DiskFacts, Before, LockFacts, ClockFacts, FreshFacts, Minting
  <1>5. FreshFacts'
    BY DEF FreshFacts, Minting, LockFacts, ClockFacts
  <1>6. LeftFacts'
    BY DEF LeftFacts, Taking, LockFacts, FreshFacts, Minting
  <1>7. UsesAccounted'
    BY DEF UsesAccounted, Taking, LockFacts, ClockFacts, FreshFacts, DownAccounted
  <1>8. DownAccounted'
    BY DEF DownAccounted, Taking, LockFacts, DiskFacts, Before, UsesAccounted, FreshFacts
  <1> QED
    BY <1>1, <1>2, <1>3, <1>4, <1>5, <1>6, <1>7, <1>8

(* The invariant is inductive. *)
LEMMA InvStep ==
  ASSUME Inv, [Next]_vars
  PROVE  Inv'
  <1>1. CASE MintStep
    BY <1>1, MintInviteKeeps, RemoveExpiredKeeps, MintKeeps, FinishReapKeeps,
       FinishMintKeeps DEF MintStep
  <1>2. CASE RedeemStep
    BY <1>2, HelloKeeps, RedeemUnknownKeeps, TryRedeemKeeps, FinishExpiredKeeps,
       FinishRedeemKeeps DEF RedeemStep
  <1>3. CASE WorldStep
    BY <1>3, StoreEndsKeeps, ExpireKeeps, CrashKeeps, RestartKeeps DEF WorldStep
  <1>4. CASE UNCHANGED vars
    BY <1>4 DEF vars, Inv, TypeOK, LockFacts, ClockFacts, DiskFacts, Before, FreshFacts,
                Minting, LeftFacts, Taking, UsesAccounted, DownAccounted
  <1> QED
    BY <1>1, <1>2, <1>3, <1>4 DEF Next

LEMMA Invariance == Spec => []Inv
  BY InvInit, InvStep, PTL DEF Spec

(* Types, and no count below zero: try_redeem never takes a use that is not  *)
(* there, whatever order writes, failures and restarts come in.              *)
THEOREM InvitesTyped == Spec => []TypeOK
  <1>1. Inv => TypeOK
    BY DEF Inv
  <1> QED
    BY <1>1, Invariance, PTL

(* An invite is redeemed at most as often as it was minted for, across any   *)
(* number of crashes, restarts and failed writes of the invite file.         *)
THEOREM NeverOverIssued == Spec => []RedeemedAtMost
  <1>1. Inv => RedeemedAtMost
    <2> SUFFICES ASSUME Inv, NEW s \in Secret PROVE granted[s] <= Uses[s]
      BY DEF RedeemedAtMost
    <2>1. granted[s] \in Nat /\ ram[s] \in Nat /\ Uses[s] \in Nat
      BY InviteAssumption DEF Inv, TypeOK, Snapshot
    <2> QED
      BY <2>1 DEF Inv, LeftFacts
  <1> QED
    BY <1>1, Invariance, PTL

(* No use of a live invite is lost: what try_redeem refuses as Unavailable   *)
(* it puts back.                                                             *)
THEOREM NoUseLost == Spec => []UsesAccounted
  <1>1. Inv => UsesAccounted
    BY DEF Inv
  <1> QED
    BY <1>1, Invariance, PTL

(* Between writes the invite file and the map agree on what is live.         *)
THEOREM FileIsCurrent == Spec => []DiskAgrees
  <1>1. Inv => DiskAgrees
    BY DEF Inv, DiskFacts, DiskAgrees
  <1> QED
    BY <1>1, Invariance, PTL

-----------------------------------------------------------------------------
(* The ceremonies: the parts of the invariant.                               *)

(* No other thread has written this thread's store since it last read. *)
Fresh(kind, n) == <<kind, n>> \notin stale

(* A row for m carries the identity m can prove, or none. *)
RowOf(m, row) == row # NoRow =>
    /\ row.user \in {Person[m], NoPerson}
    /\ ~row.paired => row.dials = {}

RowFacts == \A n, m \in Node : RowOf(m, store[n][m]) /\ RowOf(m, op[n].rows[m])

(* What a pair verb, a handler and an operator's verb hold at each point. *)
PairShape(n) ==
    pair[n].pc # "idle" =>
        /\ pair[n].offer \in Offer /\ By[pair[n].offer] # n /\ pair[n].name \in Name
        /\ pair[n].pc = "wait" => srv[n].pc # "idle" /\ srv[n].offer = pair[n].offer
        /\ pair[n].pc = "save" => Kind[pair[n].offer] # "self"
        /\ pair[n].pc = "back" => Kind[pair[n].offer] = "pair"

SrvShape(n) ==
    srv[n].pc # "idle" =>
        /\ srv[n].offer \in Offer /\ By[srv[n].offer] # n
        /\ srv[n].user \in {Person[n], NoPerson}
        /\ srv[n].pc = "burn" => Kind[srv[n].offer] # "attest"
        /\ srv[n].pc \in {"check", "save", "grant"} => Kind[srv[n].offer] = "pair"
        /\ srv[n].pc \in {"save", "grant"} =>
              srv[n].entry # NoRow /\ srv[n].entry.paired /\ RowOf(n, srv[n].entry)

OpShape(n) ==
    /\ op[n].pc \in {"rename", "remove"} => op[n].name \in Name
    /\ op[n].pc = "rename" => \A m \in Node : op[n].rows[m] # NoRow => op[n].rows[m].nick = op[n].name
    /\ op[n].pc = "introduce" => \A m, k \in Node :
         op[n].rows[m] # NoRow /\ op[n].rows[k] # NoRow => m = k

(* The history flag of a handler whose redeemer's identity was revoked. *)
LateShape(n) ==
    srv[n].late => /\ srv[n].pc # "idle" /\ srv[n].user = Person[n]
                   /\ Person[n] \in revoked[By[srv[n].offer]]

(* A thread that is not stale may still rely on what it read. *)
PairFresh(n) ==
    LET i == By[pair[n].offer] IN
    Fresh("pair", n) =>
        /\ pair[n].pc \in {"wait", "save"} /\ Kind[pair[n].offer] = "pair"
              => ~Taken(n, pair[n].name, i)
        /\ pair[n].pc = "back" =>
              store[n][i] # NoRow /\ (Person[i] # NoPerson => store[n][i].user = Person[i])

SrvFresh(n) ==
    LET i == By[srv[n].offer]  e == srv[n].entry  old == store[i][n] IN
    Fresh("srv", n) =>
        /\ srv[n].pc = "save" /\ old = NoRow => ~Taken(i, e.nick, n)
        /\ srv[n].pc = "save" /\ old # NoRow =>
             /\ e.nick = old.nick /\ (e.checked => old.checked) /\ e.dials = old.dials
             /\ old.user # NoPerson => e.user = old.user
        /\ srv[n].pc = "grant" => old = e

(* The answer "paired" that m has had from n, or is about to have.           *)
Promised(m, n) ==
    /\ pair[m].pc # "idle" /\ ~pair[m].cut
    /\ Kind[pair[m].offer] = "pair" /\ By[pair[m].offer] = n
    /\ pair[m].pc = "wait" => srv[m].pc = "ok"

Owes(n, m) == <<m, n>> \in told \/ Promised(m, n)

(* What a rename, an introduction and a removal rely on. *)
RenameFresh(n) ==
    /\ \A m \in Node : op[n].rows[m] # NoRow =>
         /\ store[n][m] # NoRow /\ op[n].rows[m].user = store[n][m].user
         /\ (op[n].rows[m].paired <=> store[n][m].paired)
         /\ op[n].rows[m].dials = store[n][m].dials
    /\ n \notin raced => \A m, k \in Node :
         m # k /\ op[n].rows[m] # NoRow /\ op[n].rows[k] # NoRow
               /\ op[n].rows[m].checked /\ op[n].rows[k].checked
            => op[n].rows[m].user = op[n].rows[k].user /\ op[n].rows[m].user # NoPerson
    /\ \A k \in Node : store[n][k] # NoRow /\ op[n].rows[k] = NoRow => store[n][k].nick # op[n].name

IntroduceFresh(n) ==
    \A m \in Node : op[n].rows[m] # NoRow =>
       /\ ~Taken(n, op[n].rows[m].nick, m)
       /\ store[n][m] # NoRow => ~store[n][m].paired

RemoveFresh(n) ==
    /\ Stripped(n, op[n].name) \cap allow[n] = {}
    /\ \A m \in Node : store[n][m] # NoRow /\ store[n][m].nick = op[n].name => ~Owes(n, m)

OpFresh(n) ==
    Fresh("op", n) =>
        /\ op[n].pc = "rename" => RenameFresh(n)
        /\ op[n].pc = "introduce" => IntroduceFresh(n)
        /\ op[n].pc = "remove" => RemoveFresh(n)

(* Node n's services admit m: a row a ceremony proved, and a grant to it. *)
Admits(n, m) ==
    /\ store[n][m] # NoRow /\ store[n][m].paired
    /\ m \in allow[n] \/ store[n][m].user \in allow[n]

(* What holds of a node where nothing raced.                                 *)
OrphanAt(n) == \A p \in allow[n] : \E m \in Node : store[n][m] # NoRow /\ (p = m \/ p = store[n][m].user)

NamesAt(n) ==
    \A m, k \in Node :
        /\ m # k /\ store[n][m] # NoRow /\ store[n][k] # NoRow
        /\ store[n][m].nick = store[n][k].nick /\ store[n][m].checked /\ store[n][k].checked
        => store[n][m].user = store[n][k].user /\ store[n][m].user # NoPerson

AdmitsAt(n) == \A m \in Node : Owes(n, m) => Admits(n, m)

BackAt(n) == \A m \in Node : <<n, m>> \in told => store[n][m] # NoRow

NodeInv(n) == n \notin raced => OrphanAt(n) /\ NamesAt(n) /\ AdmitsAt(n) /\ BackAt(n)

FreshInv == \A n \in Node : PairFresh(n) /\ SrvFresh(n) /\ OpFresh(n)

-----------------------------------------------------------------------------
(* Types.                                                                    *)

LEMMA PairingTyped ==
  /\ IdlePair \in Pairs /\ IdlePair.pc = "idle"
  /\ IdleSrv \in Srvs /\ IdleSrv.pc = "idle" /\ ~IdleSrv.late
  /\ IdleOp \in Ops /\ IdleOp.pc = "idle" /\ \A m \in Node : IdleOp.rows[m] = NoRow
  /\ \A r \in Row : /\ r.nick \in Name /\ r.user \in People \cup {NoPerson}
                    /\ r.paired \in BOOLEAN /\ r.dials \in SUBSET Service
                    /\ r.checked \in BOOLEAN
  BY PairingAssumption DEF IdlePair, IdleSrv, IdleOp, Pairs, Srvs, Ops, Row

LEMMA PairingFields ==
  ASSUME PairTypeOK, NEW n \in Node
  PROVE  /\ pair[n] \in Pairs /\ pair[n].pc \in {"idle", "wait", "save", "back"}
         /\ pair[n].offer \in Offer \cup {NoOffer} /\ pair[n].name \in Name \cup {NoName}
         /\ pair[n].cut \in BOOLEAN
         /\ srv[n] \in Srvs /\ srv[n].offer \in Offer \cup {NoOffer}
         /\ srv[n].pc \in {"idle", "hello", "burn", "check", "save", "grant", "ok", "no"}
         /\ srv[n].user \in People \cup {NoPerson} /\ srv[n].late \in BOOLEAN
         /\ srv[n].entry \in Row \cup {NoRow}
         /\ op[n] \in Ops /\ op[n].pc \in {"idle", "rename", "introduce", "remove"}
         /\ op[n].rows \in [Node -> Row \cup {NoRow}] /\ op[n].name \in Name \cup {NoName}
         /\ \A m \in Node : store[n][m] \in Row \cup {NoRow} /\ op[n].rows[m] \in Row \cup {NoRow}
         /\ store[n] \in [Node -> Row \cup {NoRow}]
         /\ allow[n] \subseteq Node \cup People /\ revoked[n] \subseteq Node \cup People
  BY DEF PairTypeOK, Pairs, Srvs, Ops

LEMMA PairTypeInit == PairInit => PairTypeOK
  <1> SUFFICES ASSUME PairInit PROVE PairTypeOK
    OBVIOUS
  <1> QED
    BY PairingAssumption, PairingTyped DEF PairInit, PairTypeOK

(* A store holds rows whatever row is put into it. *)
LEMMA PutTyped ==
  ASSUME PairTypeOK, NEW n \in Node, NEW m \in Node, NEW r \in Row, Put(n, m, r)
  PROVE  store' \in [Node -> [Node -> Row \cup {NoRow}]]
  BY DEF PairTypeOK, Put

LEMMA RowsWrittenTyped ==
  ASSUME PairTypeOK, NEW n \in Node
  PROVE  RowsWritten(n) \in [Node -> [Node -> Row \cup {NoRow}]]
  <1>1. [m \in Node |-> IF op[n].rows[m] = NoRow THEN store[n][m] ELSE op[n].rows[m]]
            \in [Node -> Row \cup {NoRow}]
    BY PairingFields
  <1> QED
    BY <1>1 DEF PairTypeOK, RowsWritten

LEMMA ExcusedTyped ==
  ASSUME PairTypeOK, NEW n \in Node, NEW why \in BOOLEAN, Excused(n, why)
  PROVE  raced' \subseteq Node /\ raced \subseteq raced'
  BY DEF PairTypeOK, Excused

LEMMA WritesTyped ==
  ASSUME PairTypeOK, NEW n \in Node, NEW t, Writes(n, t)
  PROVE  raced' \subseteq Node /\ raced \subseteq raced'
  BY DEF PairTypeOK, Writes, Excused

(* A verb's own record at another point of the code. *)
LEMMA MovedTyped ==
  /\ \A r \in Pairs : \A pc \in {"idle", "wait", "save", "back"} : [r EXCEPT !.pc = pc] \in Pairs
  /\ \A r \in Pairs : [r EXCEPT !.cut = TRUE] \in Pairs
  /\ \A r \in Srvs : \A pc \in {"idle", "hello", "burn", "check", "save", "grant", "ok", "no"} :
        [r EXCEPT !.pc = pc] \in Srvs
  /\ \A r \in Srvs : [r EXCEPT !.late = FALSE] \in Srvs
  /\ \A r \in Srvs : \A e \in Row : [r EXCEPT !.pc = "save", !.entry = e] \in Srvs
  BY DEF Pairs, Srvs

(* The bounds are kept. *)
LEMMA SpentTyped ==
  ASSUME PairTypeOK
  PROVE  LET S == [dials : 0..MaxDials, ops : 0..MaxOps, stops : 0..MaxStops] IN
         /\ spent.dials < MaxDials => [spent EXCEPT !.dials = @ + 1] \in S
         /\ spent.ops < MaxOps => [spent EXCEPT !.ops = @ + 1] \in S
         /\ spent.stops < MaxStops => [spent EXCEPT !.stops = @ + 1] \in S
  <1>1. MaxDials \in Nat /\ MaxOps \in Nat /\ MaxStops \in Nat
    BY PairingAssumption
  <1>2. spent \in [dials : 0..MaxDials, ops : 0..MaxOps, stops : 0..MaxStops]
    BY DEF PairTypeOK
  <1> QED
    BY <1>1, <1>2

LEMMA DialTyped ==
  ASSUME PairTypeOK, NEW n \in Node, NEW o \in Offer, NEW binds \in BOOLEAN,
         Dial(n, o, Nick[By[o]], binds)
  PROVE  PairTypeOK'
  <1> USE PairingAssumption, PairingTyped
  <1> DEFINE p == [pc |-> "wait", offer |-> o, name |-> Nick[By[o]], cut |-> FALSE]
             s == [IdleSrv EXCEPT !.pc = "hello", !.offer = o,
                                  !.user = IF binds THEN Person[n] ELSE NoPerson,
                                  !.late = binds /\ Person[n] \in revoked[By[o]]]
  <1>1. p \in Pairs
    BY DEF Pairs
  <1>2. (IF binds THEN Person[n] ELSE NoPerson) \in People \cup {NoPerson}
    BY DEF People
  <1>3. s \in Srvs
    BY <1>2 DEF Srvs, IdleSrv
  <1>4. pair' = [pair EXCEPT ![n] = p] /\ srv' = [srv EXCEPT ![n] = s]
    BY DEF Dial
  <1> HIDE DEF p, s
  <1>5. spent' \in [dials : 0..MaxDials, ops : 0..MaxOps, stops : 0..MaxStops]
    BY SpentTyped DEF Dial
  <1>6. UNCHANGED <<store, allow, revoked, left, op, told, raced>>
    BY DEF Dial
  <1>7. pair' \in [Node -> Pairs] /\ srv' \in [Node -> Srvs]
    BY <1>1, <1>3, <1>4 DEF PairTypeOK
  <1> QED
    BY <1>5, <1>6, <1>7 DEF PairTypeOK

LEMMA HearTyped ==
  ASSUME PairTypeOK, NEW n \in Node, Hear(n)
  PROVE  PairTypeOK'
  BY PairingTyped, MovedTyped DEF Hear, PairTypeOK

LEMMA SaveBackTyped ==
  ASSUME PairTypeOK, NEW n \in Node, SaveBack(n), PairShape(n)
  PROVE  PairTypeOK'
  <1> DEFINE o == pair[n].offer
             i == By[o]
             old == store[n][i]
             r == [nick    |-> IF Kind[o] = "attest" /\ old # NoRow THEN old.nick ELSE pair[n].name,
                   user    |-> IF Person[i] = NoPerson /\ old # NoRow THEN old.user ELSE Person[i],
                   paired  |-> TRUE,
                   dials   |-> (IF old # NoRow THEN old.dials ELSE {})
                               \cup (IF Kind[o] = "pair" THEN Grants[o] ELSE {}),
                   checked |-> Kind[o] = "pair" \/ (old # NoRow /\ old.checked)]
  <1>1. o \in Offer /\ i \in Node /\ pair[n].name \in Name
    BY PairingAssumption DEF SaveBack, PairShape
  <1>2. old \in Row \cup {NoRow}
    BY <1>1, PairingFields
  <1>3. r \in Row
    <2>1. Person[i] \in People \cup {NoPerson}
      BY <1>1 DEF People
    <2> HIDE DEF o, i, old
    <2>2. old # NoRow => /\ old.nick \in Name /\ old.user \in People \cup {NoPerson}
                         /\ old.dials \in SUBSET Service /\ old.checked \in BOOLEAN
      BY <1>2, PairingTyped
    <2>3. Grants[o] \in SUBSET Service
      BY <1>1, PairingAssumption
    <2> QED
      BY <1>1, <2>1, <2>2, <2>3 DEF Row
  <1>4. Put(n, i, r)
    BY DEF SaveBack
  <1>5. store' \in [Node -> [Node -> Row \cup {NoRow}]]
    <2> HIDE DEF r, i
    <2> QED
      BY <1>1, <1>3, <1>4, PutTyped
  <1>6. raced' \subseteq Node
    BY WritesTyped DEF SaveBack
  <1>7. pair' \in [Node -> Pairs]
    BY MovedTyped, PairingTyped DEF SaveBack, PairTypeOK
  <1> QED
    BY <1>5, <1>6, <1>7 DEF SaveBack, PairTypeOK

LEMMA PrincipalTyped ==
  ASSUME NEW m \in Node, NEW user \in People \cup {NoPerson}
  PROVE  /\ Principal(m, user) \in Node \cup People
         /\ Principal(m, user) = m \/ Principal(m, user) = user
  BY DEF Principal

LEMMA GrantBackTyped ==
  ASSUME PairTypeOK, NEW n \in Node, GrantBack(n), PairShape(n)
  PROVE  PairTypeOK'
  <1> DEFINE i == By[pair[n].offer]
  <1>1. i \in Node
    BY PairingAssumption DEF GrantBack, PairShape
  <1>2. Person[i] \in People \cup {NoPerson}
    BY <1>1 DEF People
  <1>3. Principal(i, Person[i]) \in Node \cup People
    BY <1>1, <1>2, PrincipalTyped
  <1>4. allow' \in [Node -> SUBSET (Node \cup People)]
    BY <1>3 DEF GrantBack, PairTypeOK
  <1>5. raced' \subseteq Node
    BY WritesTyped DEF GrantBack
  <1>6. told' \subseteq Node \X Node
    BY <1>1 DEF GrantBack, PairTypeOK
  <1>7. pair' \in [Node -> Pairs]
    BY PairingTyped DEF GrantBack, PairTypeOK
  <1> QED
    BY <1>4, <1>5, <1>6, <1>7 DEF GrantBack, PairTypeOK

LEMMA LostTyped ==
  ASSUME PairTypeOK, NEW n \in Node, Lost(n)
  PROVE  PairTypeOK'
  BY PairingTyped DEF Lost, PairTypeOK

LEMMA AnswerTyped ==
  ASSUME PairTypeOK, NEW n \in Node,
         NEW pc \in {"idle", "hello", "burn", "check", "save", "grant", "ok", "no"}, Answer(n, pc)
  PROVE  srv' \in [Node -> Srvs]
  BY MovedTyped DEF Answer, PairTypeOK

LEMMA PreCheckTyped ==
  ASSUME PairTypeOK, NEW n \in Node, PreCheck(n)
  PROVE  PairTypeOK'
  <1>1. srv' \in [Node -> Srvs]
    BY AnswerTyped DEF PreCheck
  <1> QED
    BY <1>1 DEF PreCheck, PairTypeOK

LEMMA BurnTyped ==
  ASSUME PairTypeOK, NEW n \in Node, Burn(n), SrvShape(n)
  PROVE  PairTypeOK'
  <1> DEFINE o == srv[n].offer
  <1>1. o \in Offer /\ left[o] \in Nat
    BY DEF SrvShape, Burn, PairTypeOK
  <1>2. srv' \in [Node -> Srvs]
    BY <1>1, AnswerTyped DEF Burn
  <1>3. left' \in [Offer -> Nat]
    BY <1>1 DEF Burn, PairTypeOK
  <1> QED
    BY <1>2, <1>3 DEF Burn, PairTypeOK

LEMMA EntryTyped ==
  ASSUME PairTypeOK, NEW n \in Node, SrvShape(n), srv[n].pc # "idle"
  PROVE  Entry(n) \in Row
  <1> DEFINE i == By[srv[n].offer]
             old == store[i][n]
  <1>1. i \in Node /\ srv[n].offer \in Offer
    BY PairingAssumption DEF SrvShape
  <1>2. old \in Row \cup {NoRow}
    BY <1>1, PairingFields
  <1>3. Claimed(n) \in Name
    BY <1>1, PairingAssumption DEF Claimed
  <1>4. srv[n].user \in People \cup {NoPerson}
    BY PairingFields
  <1> HIDE DEF i, old
  <1>5. old # NoRow => /\ old.nick \in Name /\ old.user \in People \cup {NoPerson}
                       /\ old.dials \in SUBSET Service /\ old.checked \in BOOLEAN
    BY <1>2, PairingTyped
  <1>6. Entry(n) = [nick    |-> IF old # NoRow THEN old.nick ELSE Claimed(n),
                    user    |-> IF srv[n].user = NoPerson /\ old # NoRow THEN old.user
                                ELSE srv[n].user,
                    paired  |-> TRUE,
                    dials   |-> IF old # NoRow THEN old.dials ELSE {},
                    checked |-> ~(old # NoRow) \/ old.checked]
    BY DEF Entry, old, i
  <1> QED
    BY <1>3, <1>4, <1>5, <1>6 DEF Row

LEMMA CheckTyped ==
  ASSUME PairTypeOK, NEW n \in Node, Check(n), SrvShape(n)
  PROVE  PairTypeOK'
  <1>1. Entry(n) \in Row
    BY EntryTyped DEF Check
  <1>2. [srv[n] EXCEPT !.pc = "save", !.entry = Entry(n)] \in Srvs
    BY <1>1, MovedTyped DEF PairTypeOK
  <1>3. srv' \in [Node -> Srvs]
    BY <1>2, MovedTyped DEF Check, PairTypeOK
  <1> QED
    BY <1>3 DEF Check, PairTypeOK

LEMMA SaveTyped ==
  ASSUME PairTypeOK, NEW n \in Node, Save(n), SrvShape(n)
  PROVE  PairTypeOK'
  <1>1. By[srv[n].offer] \in Node /\ srv[n].entry \in Row
    BY PairingAssumption, PairingFields DEF Save, SrvShape
  <1>2. store' \in [Node -> [Node -> Row \cup {NoRow}]]
    BY <1>1, PutTyped DEF Save
  <1>3. raced' \subseteq Node
    BY <1>1, WritesTyped DEF Save
  <1>4. srv' \in [Node -> Srvs]
    BY AnswerTyped DEF Save
  <1> QED
    BY <1>2, <1>3, <1>4 DEF Save, PairTypeOK

LEMMA GrantTyped ==
  ASSUME PairTypeOK, NEW n \in Node, Grant(n), SrvShape(n)
  PROVE  PairTypeOK'
  <1>1. By[srv[n].offer] \in Node /\ srv[n].entry \in Row
    BY PairingAssumption, PairingFields DEF Grant, SrvShape
  <1>2. srv[n].entry.user \in People \cup {NoPerson}
    BY <1>1, PairingTyped
  <1>3. Principal(n, srv[n].entry.user) \in Node \cup People
    BY <1>2, PrincipalTyped
  <1>4. allow' \in [Node -> SUBSET (Node \cup People)]
    BY <1>1, <1>3 DEF Grant, PairTypeOK
  <1>5. raced' \subseteq Node
    BY <1>1, WritesTyped DEF Grant
  <1>6. srv' \in [Node -> Srvs]
    BY AnswerTyped DEF Grant
  <1> QED
    BY <1>4, <1>5, <1>6 DEF Grant, PairTypeOK

LEMMA GrantFailsTyped ==
  ASSUME PairTypeOK, NEW n \in Node, GrantFails(n)
  PROVE  PairTypeOK'
  <1>1. srv' \in [Node -> Srvs]
    BY AnswerTyped DEF GrantFails
  <1>2. spent' \in [dials : 0..MaxDials, ops : 0..MaxOps, stops : 0..MaxStops]
    BY SpentTyped DEF GrantFails
  <1> QED
    BY <1>1, <1>2 DEF GrantFails, PairTypeOK

LEMMA ClosedTyped ==
  ASSUME PairTypeOK, NEW n \in Node, Closed(n)
  PROVE  PairTypeOK'
  BY PairingTyped DEF Closed, PairTypeOK

(* The rows of one person, one of which is the first found. *)
SamePerson(n) == LET i == By[srv[n].offer] IN {m \in Rows(i) : store[i][m].user = srv[n].user}

AttestedRow(n, first) ==
    LET i == By[srv[n].offer] IN
    [nick    |-> store[i][first].nick,
     user    |-> srv[n].user,
     paired  |-> TRUE,
     dials   |-> {s \in Service : \A m \in SamePerson(n) : s \in store[i][m].dials},
     checked |-> store[i][first].checked]

(* What Attest does, of the two it may do. *)
LEMMA AttestCases ==
  ASSUME NEW n \in Node, Attest(n)
  PROVE  /\ srv[n].pc = "hello" /\ Kind[srv[n].offer] = "attest"
         /\ UNCHANGED <<allow, revoked, left, pair, op, told, spent>>
         /\ \/ Answer(n, "no") /\ UNCHANGED <<store, stale, raced>>
            \/ /\ srv[n].user # NoPerson
               /\ \E first \in SamePerson(n) : Put(By[srv[n].offer], n, AttestedRow(n, first))
               /\ Writes(By[srv[n].offer], <<"srv", n>>) /\ Answer(n, "ok")
  BY DEF Attest, SamePerson, AttestedRow

LEMMA AttestTyped ==
  ASSUME PairTypeOK, NEW n \in Node, Attest(n), SrvShape(n)
  PROVE  PairTypeOK'
  <1> DEFINE i == By[srv[n].offer]
  <1>1. i \in Node
    BY AttestCases, PairingAssumption DEF SrvShape
  <1>2. CASE Answer(n, "no") /\ UNCHANGED <<store, stale, raced>>
    BY <1>2, AttestCases, AnswerTyped DEF PairTypeOK
  <1>3. ASSUME NEW first \in SamePerson(n), Put(i, n, AttestedRow(n, first)),
               Writes(i, <<"srv", n>>), Answer(n, "ok")
        PROVE  PairTypeOK'
    <2>1. first \in Node /\ store[i][first] \in Row
      BY <1>1, PairingFields DEF SamePerson, Rows
    <2>2. store[i][first].nick \in Name /\ store[i][first].checked \in BOOLEAN
      BY <2>1, PairingTyped
    <2>3. srv[n].user \in People \cup {NoPerson}
      BY PairingFields
    <2>4. AttestedRow(n, first) \in Row
      BY <2>2, <2>3 DEF AttestedRow, Row
    <2>5. store' \in [Node -> [Node -> Row \cup {NoRow}]]
      BY <1>1, <1>3, <2>4, PutTyped
    <2>6. raced' \subseteq Node /\ srv' \in [Node -> Srvs]
      BY <1>1, <1>3, WritesTyped, AnswerTyped
    <2> QED
      BY <2>5, <2>6, AttestCases DEF PairTypeOK
  <1> QED
    BY <1>2, <1>3, AttestCases

LEMMA CanTyped ==
  ASSUME PairTypeOK, NEW n \in Node, NEW verb, Can(n, verb)
  PROVE  spent' \in [dials : 0..MaxDials, ops : 0..MaxOps, stops : 0..MaxStops]
  BY SpentTyped DEF Can

(* The rows a rename means to write. *)
Named(n, who) == {m \in Rows(n) : IF who \in People THEN store[n][m].user = who
                                  ELSE store[n][m].nick = who}

Renamed(n, who, to) ==
    [m \in Node |-> IF m \notin Named(n, who) THEN NoRow ELSE
       [store[n][m] EXCEPT !.nick = to,
                           !.checked = @ \/ who \in People \/ Named(n, who) = {m}]]

LEMMA RenameCases ==
  ASSUME NEW n \in Node, NEW who, NEW to \in Name, PeerRename(n, who, to)
  PROVE  /\ op[n].pc = "idle" /\ Can(n, "peer_rename") /\ Reads(<<"op", n>>)
         /\ ~\E m \in Rows(n) \ Named(n, who) : store[n][m].nick = to
         /\ op' = [op EXCEPT ![n] = [pc |-> "rename", name |-> to, rows |-> Renamed(n, who, to)]]
         /\ UNCHANGED <<store, allow, revoked, left, pair, srv, told, raced>>
  BY DEF PeerRename, Named, Renamed, Can

(* A renamed row is the row under the new name. *)
LEMMA RenamedRow ==
  ASSUME PairTypeOK, NEW n \in Node, NEW who, NEW to \in Name, NEW m \in Node
  PROVE  LET r == Renamed(n, who, to)[m]  s == store[n][m] IN
         /\ m \notin Named(n, who) => r = NoRow
         /\ m \in Named(n, who) =>
              /\ r \in Row /\ r # NoRow /\ s \in Row /\ s # NoRow
              /\ r.nick = to /\ r.user = s.user /\ r.dials = s.dials
              /\ (r.paired <=> s.paired)
              /\ r.checked => s.checked \/ who \in People \/ Named(n, who) = {m}
  <1> DEFINE s == store[n][m]
             c == s.checked \/ who \in People \/ Named(n, who) = {m}
             r == [s EXCEPT !.nick = to, !.checked = c]
  <1>1. m \in Named(n, who) => s \in Row
    BY PairingFields DEF Named, Rows
  <1>2. s \in Row => r \in Row /\ r.nick = to /\ r.user = s.user /\ r.dials = s.dials
                     /\ r.paired = s.paired /\ r.checked = c
    <2> c \in BOOLEAN
      OBVIOUS
    <2> HIDE DEF s, c
    <2> QED
      BY DEF Row
  <1>3. m \in Named(n, who) => Renamed(n, who, to)[m] = r
    BY DEF Renamed
  <1>4. m \notin Named(n, who) => Renamed(n, who, to)[m] = NoRow
    BY DEF Renamed
  <1>5. m \in Named(n, who) => r # NoRow /\ s # NoRow
    BY <1>1, <1>2, PairingAssumption
  <1> HIDE DEF r
  <1> QED
    BY <1>1, <1>2, <1>3, <1>4, <1>5

LEMMA PeerRenameTyped ==
  ASSUME PairTypeOK, NEW n \in Node, NEW who, NEW to \in Name, PeerRename(n, who, to)
  PROVE  PairTypeOK'
  <1>1. \A m \in Node : Renamed(n, who, to)[m] \in Row \cup {NoRow}
    BY RenamedRow
  <1>2. Renamed(n, who, to) \in [Node -> Row \cup {NoRow}]
    BY <1>1 DEF Renamed
  <1>3. op' \in [Node -> Ops]
    <2> DEFINE x == [pc |-> "rename", name |-> to, rows |-> Renamed(n, who, to)]
    <2>1. x \in Ops
      BY <1>2 DEF Ops
    <2>2. op' = [op EXCEPT ![n] = x]
      BY RenameCases
    <2> HIDE DEF x
    <2> QED
      BY <2>1, <2>2 DEF PairTypeOK
  <1>4. spent' \in [dials : 0..MaxDials, ops : 0..MaxOps, stops : 0..MaxStops]
    BY RenameCases, CanTyped
  <1> QED
    BY <1>3, <1>4, RenameCases DEF PairTypeOK

LEMMA RenameWriteTyped ==
  ASSUME PairTypeOK, NEW n \in Node, RenameWrite(n)
  PROVE  PairTypeOK'
  <1>1. store' \in [Node -> [Node -> Row \cup {NoRow}]]
    BY RowsWrittenTyped DEF RenameWrite
  <1>2. raced' \subseteq Node
    BY WritesTyped DEF RenameWrite
  <1>3. op' \in [Node -> Ops]
    BY PairingTyped DEF RenameWrite, PairTypeOK
  <1> QED
    BY <1>1, <1>2, <1>3 DEF RenameWrite, PairTypeOK

(* The row an introduction means to write. *)
IntroducedRow(m, name, binds) ==
    [nick |-> name, user |-> IF binds THEN Person[m] ELSE NoPerson,
     paired |-> FALSE, dials |-> {}, checked |-> TRUE]

LEMMA IntroducedRowIs ==
  ASSUME NEW m \in Node, NEW name \in Name, NEW binds \in BOOLEAN
  PROVE  LET r == IntroducedRow(m, name, binds) IN
         /\ r \in Row /\ r # NoRow /\ r.nick = name /\ r.user \in {Person[m], NoPerson}
         /\ ~r.paired /\ r.dials = {}
  <1>1. (IF binds THEN Person[m] ELSE NoPerson) \in People \cup {NoPerson}
    BY DEF People
  <1>2. IntroducedRow(m, name, binds) \in Row
    BY <1>1 DEF IntroducedRow, Row
  <1>3. IntroducedRow(m, name, binds) # NoRow
    BY <1>2, PairingAssumption
  <1> QED
    BY <1>2, <1>3 DEF IntroducedRow

LEMMA IntroduceCases ==
  ASSUME NEW n \in Node, NEW m \in Node, NEW name \in Name, NEW binds \in BOOLEAN,
         PeerIntroduce(n, m, name, binds)
  PROVE  /\ op[n].pc = "idle" /\ Can(n, "peer_introduce") /\ Reads(<<"op", n>>)
         /\ ~Taken(n, name, m)
         /\ m \in Rows(n) => ~store[n][m].paired
         /\ op' = [op EXCEPT ![n] = [pc |-> "introduce", name |-> NoName,
                     rows |-> [k \in Node |-> IF k # m THEN NoRow
                                              ELSE IntroducedRow(m, name, binds)]]]
         /\ UNCHANGED <<store, allow, revoked, left, pair, srv, told, raced>>
  BY DEF PeerIntroduce, IntroducedRow, Can

LEMMA PeerIntroduceTyped ==
  ASSUME PairTypeOK, NEW n \in Node, NEW m \in Node, NEW name \in Name, NEW binds \in BOOLEAN,
         PeerIntroduce(n, m, name, binds)
  PROVE  PairTypeOK'
  <1> DEFINE r == IntroducedRow(m, name, binds)
             rows == [k \in Node |-> IF k # m THEN NoRow ELSE r]
  <1>1. r \in Row
    BY IntroducedRowIs
  <1>2. /\ Can(n, "peer_introduce")
        /\ op' = [op EXCEPT ![n] = [pc |-> "introduce", name |-> NoName, rows |-> rows]]
        /\ UNCHANGED <<store, allow, revoked, left, pair, srv, told, raced>>
    BY DEF PeerIntroduce, IntroducedRow
  <1> HIDE DEF r
  <1>3. rows \in [Node -> Row \cup {NoRow}]
    BY <1>1
  <1>4. op' \in [Node -> Ops]
    <2> HIDE DEF rows
    <2>1. [pc |-> "introduce", name |-> NoName, rows |-> rows] \in Ops
      BY <1>3 DEF Ops
    <2> QED
      BY <1>2, <2>1 DEF PairTypeOK
  <1>5. spent' \in [dials : 0..MaxDials, ops : 0..MaxOps, stops : 0..MaxStops]
    BY <1>2, CanTyped
  <1> QED
    BY <1>2, <1>4, <1>5 DEF PairTypeOK

LEMMA IntroduceWriteTyped ==
  ASSUME PairTypeOK, NEW n \in Node, IntroduceWrite(n)
  PROVE  PairTypeOK'
  <1>1. store' \in [Node -> [Node -> Row \cup {NoRow}]]
    BY RowsWrittenTyped DEF IntroduceWrite
  <1>2. raced' \subseteq Node
    BY DEF IntroduceWrite, Excused, PairTypeOK
  <1>3. op' \in [Node -> Ops]
    BY PairingTyped DEF IntroduceWrite, PairTypeOK
  <1> QED
    BY <1>1, <1>2, <1>3 DEF IntroduceWrite, PairTypeOK

AddedRow(name) ==
    [nick |-> name, user |-> NoPerson, paired |-> FALSE, dials |-> {}, checked |-> FALSE]

LEMMA AddedRowIs ==
  ASSUME NEW name \in Name
  PROVE  /\ AddedRow(name) \in Row /\ AddedRow(name) # NoRow /\ ~AddedRow(name).checked
         /\ AddedRow(name).user = NoPerson /\ AddedRow(name).dials = {}
         /\ AddedRow(name).nick = name /\ ~AddedRow(name).paired
  <1>1. AddedRow(name) \in Row
    BY DEF AddedRow, Row
  <1>2. AddedRow(name) # NoRow
    BY <1>1, PairingAssumption
  <1> QED
    BY <1>1, <1>2 DEF AddedRow

LEMMA PeerAddTyped ==
  ASSUME PairTypeOK, NEW n \in Node, NEW m \in Node, NEW name \in Name, PeerAdd(n, m, name)
  PROVE  PairTypeOK'
  <1>1. Put(n, m, AddedRow(name))
    BY DEF PeerAdd, AddedRow
  <1>2. store' \in [Node -> [Node -> Row \cup {NoRow}]]
    BY <1>1, AddedRowIs, PutTyped
  <1>3. raced' \subseteq Node
    BY DEF PeerAdd, Excused, PairTypeOK
  <1>4. spent' \in [dials : 0..MaxDials, ops : 0..MaxOps, stops : 0..MaxStops]
    BY CanTyped DEF PeerAdd
  <1> QED
    BY <1>2, <1>3, <1>4 DEF PeerAdd, PairTypeOK

(* What Unpairs leaves of each pairing. *)
LEMMA UnpairsIs ==
  ASSUME PairTypeOK, NEW n \in Node, NEW peers, Unpairs(n, peers)
  PROVE  /\ pair' \in [Node -> Pairs] /\ told' \subseteq told
         /\ \A m \in Node :
              /\ pair'[m].pc = pair[m].pc /\ pair'[m].offer = pair[m].offer
              /\ pair'[m].name = pair[m].name /\ (pair[m].cut => pair'[m].cut)
              /\ m \in peers /\ pair[m].pc # "idle" /\ By[pair[m].offer] = n => pair'[m].cut
              /\ m \in peers => <<m, n>> \notin told'
  <1>1. \A m \in Node : pair[m] \in Pairs /\ [pair[m] EXCEPT !.cut = TRUE] \in Pairs
    BY MovedTyped DEF PairTypeOK
  <1>2. \A m \in Node : pair'[m] = IF m \in peers /\ pair[m].pc # "idle" /\ By[pair[m].offer] = n
                                   THEN [pair[m] EXCEPT !.cut = TRUE] ELSE pair[m]
    BY DEF Unpairs
  <1>3. pair' \in [Node -> Pairs]
    BY <1>1 DEF Unpairs
  <1>4. told' = {t \in told : ~(t[2] = n /\ t[1] \in peers)}
    BY DEF Unpairs
  <1>5. \A r \in Pairs : LET c == [r EXCEPT !.cut = TRUE] IN
          c.pc = r.pc /\ c.offer = r.offer /\ c.name = r.name /\ c.cut
    BY DEF Pairs
  <1>6. \A m \in Node : m \in peers => <<m, n>> \notin told'
    BY <1>4
  <1> QED
    BY <1>1, <1>2, <1>3, <1>4, <1>5, <1>6

LEMMA PeerRemoveTyped ==
  ASSUME PairTypeOK, NEW n \in Node, NEW name \in Name, PeerRemove(n, name)
  PROVE  PairTypeOK'
  <1> DEFINE x == [IdleOp EXCEPT !.pc = "remove", !.name = name]
  <1>1. x \in Ops
    BY PairingTyped DEF Ops, IdleOp
  <1>2. op' = [op EXCEPT ![n] = x]
    BY DEF PeerRemove
  <1> HIDE DEF x
  <1>3. op' \in [Node -> Ops]
    BY <1>1, <1>2 DEF PairTypeOK
  <1>4. pair' \in [Node -> Pairs] /\ told' \subseteq told
    BY UnpairsIs DEF PeerRemove
  <1>5. allow' \in [Node -> SUBSET (Node \cup People)]
    BY DEF PeerRemove, PairTypeOK
  <1>6. spent' \in [dials : 0..MaxDials, ops : 0..MaxOps, stops : 0..MaxStops]
    BY CanTyped DEF PeerRemove
  <1>7. UNCHANGED <<store, revoked, left, srv, raced>>
    BY DEF PeerRemove
  <1> QED
    BY <1>3, <1>4, <1>5, <1>6, <1>7 DEF PairTypeOK

LEMMA RemoveRowsTyped ==
  ASSUME PairTypeOK, NEW n \in Node, RemoveRows(n)
  PROVE  PairTypeOK'
  <1> DEFINE f == [m \in Node |-> IF store[n][m] # NoRow /\ store[n][m].nick = op[n].name
                                  THEN NoRow ELSE store[n][m]]
  <1>1. f \in [Node -> Row \cup {NoRow}]
    BY PairingFields
  <1>2. store' = [store EXCEPT ![n] = f]
    BY DEF RemoveRows
  <1> HIDE DEF f
  <1>3. store' \in [Node -> [Node -> Row \cup {NoRow}]]
    BY <1>1, <1>2 DEF PairTypeOK
  <1>4. raced' \subseteq Node
    BY WritesTyped DEF RemoveRows
  <1>5. op' \in [Node -> Ops]
    BY PairingTyped DEF RemoveRows, PairTypeOK
  <1>6. told' \subseteq told
    BY DEF RemoveRows
  <1>7. UNCHANGED <<allow, revoked, left, pair, srv, spent>>
    BY DEF RemoveRows
  <1> QED
    BY <1>3, <1>4, <1>5, <1>6, <1>7 DEF PairTypeOK

LEMMA OpAbortedTyped ==
  ASSUME PairTypeOK, NEW n \in Node, OpAborted(n)
  PROVE  PairTypeOK'
  BY PairingTyped DEF OpAborted, PairTypeOK

LEMMA PeerRevokeTyped ==
  ASSUME PairTypeOK, NEW n \in Node, NEW p \in Node \cup People, PeerRevoke(n, p)
  PROVE  PairTypeOK'
  <1>1. spent' \in [dials : 0..MaxDials, ops : 0..MaxOps, stops : 0..MaxStops]
    BY CanTyped DEF PeerRevoke
  <1> QED
    BY <1>1 DEF PeerRevoke, PairTypeOK

(* What an unrevocation leaves of each handler. *)
LEMMA UnrevokeIs ==
  ASSUME PairTypeOK, NEW n \in Node, NEW p, PeerUnrevoke(n, p)
  PROVE  /\ srv' \in [Node -> Srvs]
         /\ \A m \in Node :
              /\ srv'[m].pc = srv[m].pc /\ srv'[m].offer = srv[m].offer
              /\ srv'[m].user = srv[m].user /\ srv'[m].entry = srv[m].entry
              /\ srv'[m].late => srv[m].late
              /\ srv[m].pc # "idle" /\ By[srv[m].offer] = n => ~srv'[m].late
  <1>1. \A m \in Node : srv[m] \in Srvs /\ [srv[m] EXCEPT !.late = FALSE] \in Srvs
    BY MovedTyped DEF PairTypeOK
  <1>2. \A m \in Node : srv'[m] = IF srv[m].pc # "idle" /\ By[srv[m].offer] = n
                                  THEN [srv[m] EXCEPT !.late = FALSE] ELSE srv[m]
    BY DEF PeerUnrevoke
  <1>3. srv' \in [Node -> Srvs]
    BY <1>1 DEF PeerUnrevoke
  <1>4. \A r \in Srvs : LET c == [r EXCEPT !.late = FALSE] IN
          c.pc = r.pc /\ c.offer = r.offer /\ c.user = r.user /\ c.entry = r.entry /\ ~c.late
    BY DEF Srvs
  <1> QED
    BY <1>1, <1>2, <1>3, <1>4

LEMMA PeerUnrevokeTyped ==
  ASSUME PairTypeOK, NEW n \in Node, NEW p \in Node \cup People, PeerUnrevoke(n, p)
  PROVE  PairTypeOK'
  <1>1. srv' \in [Node -> Srvs]
    BY UnrevokeIs
  <1> QED
    BY <1>1 DEF PeerUnrevoke, PairTypeOK

LEMMA StopTyped ==
  ASSUME PairTypeOK, NEW n \in Node, Stop(n)
  PROVE  PairTypeOK'
  <1>1. srv' \in [Node -> Srvs] /\ pair' \in [Node -> Pairs] /\ op' \in [Node -> Ops]
    BY PairingTyped DEF Stop, PairTypeOK
  <1>2. spent' \in [dials : 0..MaxDials, ops : 0..MaxOps, stops : 0..MaxStops]
    BY SpentTyped DEF Stop
  <1> QED
    BY <1>1, <1>2 DEF Stop, PairTypeOK

-----------------------------------------------------------------------------
(* Shapes: where each thread is, it has what it needs there.                 *)

ShapeInv ==
    /\ RowFacts
    /\ \A n \in Node : PairShape(n)
    /\ \A n \in Node : SrvShape(n)
    /\ \A n \in Node : OpShape(n)
    /\ \A n \in Node : LateShape(n)

LEMMA AnswerIs ==
  ASSUME PairTypeOK, NEW n \in Node, NEW pc, Answer(n, pc)
  PROVE  /\ \A m \in Node : m # n => srv'[m] = srv[m]
         /\ srv'[n].pc = pc /\ srv'[n].offer = srv[n].offer /\ srv'[n].user = srv[n].user
         /\ (srv'[n].late <=> srv[n].late) /\ srv'[n].entry = srv[n].entry
  <1> DEFINE r == srv[n]
             x == [r EXCEPT !.pc = pc]
  <1>1. r \in Srvs /\ srv' = [srv EXCEPT ![n] = x]
    BY DEF Answer, PairTypeOK
  <1>2. /\ x.pc = pc /\ x.offer = r.offer /\ x.user = r.user /\ x.entry = r.entry
        /\ x.late <=> r.late
    <2> HIDE DEF r
    <2> QED
      BY <1>1 DEF Srvs
  <1> HIDE DEF x
  <1>3. srv'[n] = x /\ \A m \in Node : m # n => srv'[m] = srv[m]
    BY <1>1 DEF PairTypeOK
  <1> QED
    BY <1>2, <1>3

LEMMA PutIs ==
  ASSUME PairTypeOK, NEW n \in Node, NEW m \in Node, NEW r, Put(n, m, r)
  PROVE  \A k, j \in Node : store'[k][j] = IF k = n /\ j = m THEN r ELSE store[k][j]
  BY DEF Put, PairTypeOK

LEMMA RowsWrittenIs ==
  ASSUME PairTypeOK, NEW n \in Node, store' = RowsWritten(n)
  PROVE  \A k, j \in Node :
           store'[k][j] = IF k = n /\ op[n].rows[j] # NoRow THEN op[n].rows[j] ELSE store[k][j]
  BY DEF RowsWritten, PairTypeOK

(* What a step leaves alone keeps its shape. *)
LEMMA ShapeFrame ==
  ASSUME ShapeInv
  PROVE  /\ UNCHANGED <<store, op>> => RowFacts'
         /\ UNCHANGED op => \A n \in Node : OpShape(n)'
         /\ \A n \in Node : pair'[n] = pair[n] /\ srv'[n] = srv[n] => PairShape(n)'
         /\ \A n \in Node : srv'[n] = srv[n] => SrvShape(n)'
         /\ \A n \in Node : srv'[n] = srv[n] /\ revoked' = revoked => LateShape(n)'
  BY DEF ShapeInv, RowFacts, RowOf, OpShape, PairShape, SrvShape, LateShape

(* A handler that moves on, with what it has. *)
LEMMA MovedShape ==
  ASSUME PairTypeOK, ShapeInv, NEW n \in Node, srv[n].pc # "idle",
         srv'[n].offer = srv[n].offer, srv'[n].user = srv[n].user,
         srv'[n].late <=> srv[n].late, srv'[n].pc # "idle",
         UNCHANGED <<pair, revoked>>,
         \A m \in Node : m # n => srv'[m] = srv[m]
  PROVE  /\ \A m \in Node : PairShape(m)'
         /\ \A m \in Node : LateShape(m)'
         /\ \A m \in Node : m # n => SrvShape(m)'
  BY DEF ShapeInv, PairShape, LateShape, SrvShape, RowOf

LEMMA DialShape ==
  ASSUME PairTypeOK, ShapeInv, NEW n \in Node, NEW o \in Offer, NEW binds \in BOOLEAN,
         Dial(n, o, Nick[By[o]], binds)
  PROVE  ShapeInv'
  <1> DEFINE p == [pc |-> "wait", offer |-> o, name |-> Nick[By[o]], cut |-> FALSE]
             s == [IdleSrv EXCEPT !.pc = "hello", !.offer = o,
                                  !.user = IF binds THEN Person[n] ELSE NoPerson,
                                  !.late = binds /\ Person[n] \in revoked[By[o]]]
  <1>1. /\ pair' = [pair EXCEPT ![n] = p] /\ srv' = [srv EXCEPT ![n] = s]
        /\ UNCHANGED <<store, op, revoked>> /\ By[o] # n
    BY DEF Dial
  <1>2. p.pc = "wait" /\ p.offer = o /\ p.name \in Name
    BY PairingAssumption
  <1>3. /\ s.pc = "hello" /\ s.offer = o /\ s.user \in {Person[n], NoPerson}
        /\ s.late => s.user = Person[n] /\ Person[n] \in revoked[By[o]]
    BY DEF IdleSrv
  <1> HIDE DEF p, s
  <1>4. pair'[n] = p /\ srv'[n] = s /\ \A m \in Node : m # n => pair'[m] = pair[m] /\ srv'[m] = srv[m]
    BY <1>1 DEF PairTypeOK
  <1>5. PairShape(n)' /\ SrvShape(n)' /\ LateShape(n)'
    BY <1>1, <1>2, <1>3, <1>4 DEF PairShape, SrvShape, LateShape
  <1> QED
    BY <1>1, <1>4, <1>5, ShapeFrame DEF ShapeInv

(* The dialler or its handler goes idle, the other's offer unchanged. *)
LEMMA IdleShape ==
  ASSUME PairTypeOK, ShapeInv, UNCHANGED <<store, op, revoked>>,
         \A m \in Node : /\ srv'[m] = srv[m] \/ srv'[m] = IdleSrv
                         /\ \/ pair'[m] = IdlePair
                            \/ pair'[m] = pair[m] /\ (pair[m].pc = "wait" => srv'[m] = srv[m])
  PROVE  ShapeInv'
  BY PairingTyped, ShapeFrame DEF ShapeInv, PairShape, SrvShape, LateShape

LEMMA HearShape ==
  ASSUME PairTypeOK, ShapeInv, NEW n \in Node, Hear(n)
  PROVE  ShapeInv'
  <1> DEFINE x == [pair[n] EXCEPT !.pc = "save"]
  <1>1. x.pc = "save" /\ x.offer = pair[n].offer /\ x.name = pair[n].name
    BY DEF PairTypeOK, Pairs
  <1>2. /\ pair[n].pc = "wait" /\ UNCHANGED <<store, op, revoked>>
        /\ \E y \in {x, IdlePair} : /\ pair' = [pair EXCEPT ![n] = y]
                                    /\ Kind[pair[n].offer] = "self" => y = IdlePair
        /\ srv' = [srv EXCEPT ![n] = IdleSrv]
    BY DEF Hear
  <1> HIDE DEF x
  <1>3. /\ srv'[n] = IdleSrv /\ pair'[n] \in {x, IdlePair}
        /\ Kind[pair[n].offer] = "self" => pair'[n] = IdlePair
        /\ \A m \in Node : m # n => pair'[m] = pair[m] /\ srv'[m] = srv[m]
    BY <1>2 DEF PairTypeOK
  <1>4. PairShape(n)'
    BY <1>1, <1>2, <1>3, PairingTyped DEF ShapeInv, PairShape
  <1>5. SrvShape(n)' /\ LateShape(n)'
    BY <1>3, PairingTyped DEF SrvShape, LateShape
  <1> QED
    BY <1>2, <1>3, <1>4, <1>5, ShapeFrame DEF ShapeInv

LEMMA LostShape ==
  ASSUME PairTypeOK, ShapeInv, NEW n \in Node, Lost(n)
  PROVE  ShapeInv'
  <1>1. /\ UNCHANGED <<store, op, revoked, srv>>
        /\ \A m \in Node : pair'[m] = IdlePair \/ pair'[m] = pair[m]
    BY DEF Lost, PairTypeOK
  <1> QED
    BY <1>1, IdleShape

LEMMA ClosedShape ==
  ASSUME PairTypeOK, ShapeInv, NEW n \in Node, Closed(n)
  PROVE  ShapeInv'
  <1>1. /\ UNCHANGED <<store, op, revoked>> /\ srv' = [srv EXCEPT ![n] = IdleSrv]
        /\ pair' = [pair EXCEPT ![n] = IF pair[n].pc = "wait" THEN IdlePair ELSE pair[n]]
    BY DEF Closed
  <1> DEFINE y == IF pair[n].pc = "wait" THEN IdlePair ELSE pair[n]
  <1>2. y = IdlePair \/ (y = pair[n] /\ pair[n].pc # "wait")
    OBVIOUS
  <1> HIDE DEF y
  <1>3. /\ \A m \in Node : m # n => pair'[m] = pair[m] /\ srv'[m] = srv[m]
        /\ srv'[n] = IdleSrv /\ pair'[n] = y
    BY <1>1 DEF PairTypeOK, y
  <1> QED
    BY <1>1, <1>2, <1>3, IdleShape

LEMMA PreCheckShape ==
  ASSUME PairTypeOK, ShapeInv, NEW n \in Node, PreCheck(n)
  PROVE  ShapeInv'
  <1>1. /\ srv[n].pc = "hello" /\ Kind[srv[n].offer] # "attest"
        /\ UNCHANGED <<store, op, revoked, pair>>
        /\ Answer(n, "no") \/ Answer(n, "burn")
    BY DEF PreCheck
  <1>2. /\ \A m \in Node : m # n => srv'[m] = srv[m]
        /\ srv'[n].pc \in {"no", "burn"} /\ srv'[n].offer = srv[n].offer
        /\ srv'[n].user = srv[n].user /\ (srv'[n].late <=> srv[n].late)
    BY <1>1, AnswerIs
  <1>3. SrvShape(n)'
    BY <1>1, <1>2 DEF ShapeInv, SrvShape
  <1> QED
    BY <1>1, <1>2, <1>3, ShapeFrame, MovedShape DEF ShapeInv

LEMMA BurnShape ==
  ASSUME PairTypeOK, ShapeInv, NEW n \in Node, Burn(n)
  PROVE  ShapeInv'
  <1>1. /\ srv[n].pc = "burn" /\ UNCHANGED <<store, op, revoked, pair>>
    BY DEF Burn
  <1>a. PICK pc \in {"no", "ok", "check"} : Answer(n, pc) /\ (pc = "check" => Kind[srv[n].offer] = "pair")
    BY DEF Burn
  <1>2. /\ \A m \in Node : m # n => srv'[m] = srv[m]
        /\ srv'[n].pc = pc /\ srv'[n].offer = srv[n].offer
        /\ srv'[n].user = srv[n].user /\ (srv'[n].late <=> srv[n].late)
    BY <1>a, AnswerIs
  <1>3. SrvShape(n)'
    BY <1>1, <1>a, <1>2 DEF ShapeInv, SrvShape
  <1> QED
    BY <1>1, <1>2, <1>3, ShapeFrame, MovedShape DEF ShapeInv

(* What Check leaves. *)
LEMMA CheckIs ==
  ASSUME PairTypeOK, NEW n \in Node, Check(n)
  PROVE  /\ srv[n].pc = "check" /\ UNCHANGED <<store, op, revoked, pair, allow, told, raced>>
         /\ \A m \in Node : m # n => srv'[m] = srv[m]
         /\ srv'[n].offer = srv[n].offer /\ srv'[n].user = srv[n].user
         /\ srv'[n].late <=> srv[n].late
         /\ \/ srv'[n].pc = "no"
            \/ /\ srv'[n].pc = "save" /\ srv'[n].entry = Entry(n) /\ ~Collides(n)
               /\ Entry(n).user \notin revoked[By[srv[n].offer]]
  <1> DEFINE r == srv[n]
             x == [r EXCEPT !.pc = "no"]
             y == [r EXCEPT !.pc = "save", !.entry = Entry(n)]
  <1>1. r \in Srvs
    BY DEF PairTypeOK
  <1>2. /\ x.pc = "no" /\ x.offer = r.offer /\ x.user = r.user /\ x.late = r.late
        /\ y.pc = "save" /\ y.offer = r.offer /\ y.user = r.user /\ y.late = r.late
        /\ y.entry = Entry(n)
    <2> HIDE DEF r
    <2> QED
      BY <1>1 DEF Srvs
  <1>3. /\ srv[n].pc = "check" /\ UNCHANGED <<store, op, revoked, pair, allow, told, raced>>
        /\ \/ srv' = [srv EXCEPT ![n] = x]
           \/ /\ srv' = [srv EXCEPT ![n] = y] /\ ~Collides(n)
              /\ Entry(n).user \notin revoked[By[srv[n].offer]]
    BY DEF Check
  <1> HIDE DEF x, y
  <1>4. /\ \A m \in Node : m # n => srv'[m] = srv[m]
        /\ \/ srv'[n] = x
           \/ /\ srv'[n] = y /\ ~Collides(n)
              /\ Entry(n).user \notin revoked[By[srv[n].offer]]
    BY <1>3 DEF PairTypeOK
  <1> QED
    BY <1>2, <1>3, <1>4

(* The row the inviter means to write, beside the one there. *)
LEMMA EntryIs ==
  ASSUME PairTypeOK, ShapeInv, NEW n \in Node, srv[n].pc # "idle"
  PROVE  LET i == By[srv[n].offer]  old == store[i][n]  e == Entry(n) IN
         /\ i \in Node /\ e \in Row /\ e # NoRow /\ e.paired
         /\ e.user \in {Person[n], NoPerson}
         /\ srv[n].user # NoPerson => e.user = srv[n].user
         /\ old = NoRow => e.nick = Claimed(n)
         /\ old # NoRow =>
              /\ e.nick = old.nick /\ (e.checked => old.checked) /\ e.dials = old.dials
              /\ old.user # NoPerson => e.user = old.user
  <1> DEFINE i == By[srv[n].offer]
             old == store[i][n]
  <1>1. i \in Node
    BY PairingAssumption DEF ShapeInv, SrvShape
  <1>2. Entry(n) \in Row
    BY EntryTyped DEF ShapeInv
  <1>3. Entry(n) # NoRow
    BY <1>2, PairingAssumption
  <1>4. old # NoRow => old.user \in {Person[n], NoPerson} /\ old.checked \in BOOLEAN
    BY <1>1, PairingFields, PairingTyped DEF ShapeInv, RowFacts, RowOf
  <1>5. srv[n].user \in {Person[n], NoPerson}
    BY DEF ShapeInv, SrvShape
  <1>6. Entry(n) = [nick    |-> IF old # NoRow THEN old.nick ELSE Claimed(n),
                    user    |-> IF srv[n].user = NoPerson /\ old # NoRow THEN old.user
                                ELSE srv[n].user,
                    paired  |-> TRUE,
                    dials   |-> IF old # NoRow THEN old.dials ELSE {},
                    checked |-> ~(old # NoRow) \/ old.checked]
    BY DEF Entry
  <1> HIDE DEF old
  <1>8. Entry(n).checked => old = NoRow \/ old.checked
    BY <1>4, <1>6
  <1>7. /\ Entry(n).paired
        /\ Entry(n).nick = IF old # NoRow THEN old.nick ELSE Claimed(n)
        /\ Entry(n).user = IF srv[n].user = NoPerson /\ old # NoRow THEN old.user ELSE srv[n].user
        /\ Entry(n).dials = IF old # NoRow THEN old.dials ELSE {}
    BY <1>6
  <1> QED
    BY <1>1, <1>2, <1>3, <1>4, <1>5, <1>7, <1>8 DEF old

LEMMA CheckShape ==
  ASSUME PairTypeOK, ShapeInv, NEW n \in Node, Check(n)
  PROVE  ShapeInv'
  <1>1. SrvShape(n)'
    BY CheckIs, EntryIs DEF ShapeInv, SrvShape, RowOf
  <1> QED
    BY <1>1, CheckIs, ShapeFrame, MovedShape DEF ShapeInv

LEMMA SaveShape ==
  ASSUME PairTypeOK, ShapeInv, NEW n \in Node, Save(n)
  PROVE  ShapeInv'
  <1> DEFINE i == By[srv[n].offer]
  <1>1. /\ srv[n].pc = "save" /\ UNCHANGED <<op, revoked, pair>> /\ Answer(n, "grant")
        /\ Put(i, n, srv[n].entry)
    BY DEF Save
  <1>2. i \in Node /\ RowOf(n, srv[n].entry)
    BY <1>1, PairingAssumption DEF ShapeInv, SrvShape
  <1>3. \A k, j \in Node : store'[k][j] = IF k = i /\ j = n THEN srv[n].entry ELSE store[k][j]
    BY <1>1, <1>2, PutIs
  <1>4. RowFacts'
    BY <1>1, <1>2, <1>3 DEF ShapeInv, RowFacts, RowOf
  <1>5. /\ \A m \in Node : m # n => srv'[m] = srv[m]
        /\ srv'[n].pc = "grant" /\ srv'[n].offer = srv[n].offer /\ srv'[n].user = srv[n].user
        /\ (srv'[n].late <=> srv[n].late) /\ srv'[n].entry = srv[n].entry
    BY <1>1, AnswerIs
  <1>6. SrvShape(n)'
    BY <1>1, <1>5 DEF ShapeInv, SrvShape, RowOf
  <1> QED
    BY <1>1, <1>4, <1>5, <1>6, ShapeFrame, MovedShape DEF ShapeInv

LEMMA GrantShape ==
  ASSUME PairTypeOK, ShapeInv, NEW n \in Node, Grant(n) \/ GrantFails(n)
  PROVE  ShapeInv'
  <1>1. /\ srv[n].pc = "grant" /\ UNCHANGED <<store, op, revoked, pair>>
        /\ Answer(n, "ok") \/ Answer(n, "no")
    BY DEF Grant, GrantFails
  <1>2. /\ \A m \in Node : m # n => srv'[m] = srv[m]
        /\ srv'[n].pc \in {"ok", "no"} /\ srv'[n].offer = srv[n].offer
        /\ srv'[n].user = srv[n].user /\ (srv'[n].late <=> srv[n].late)
    BY <1>1, AnswerIs
  <1>3. SrvShape(n)'
    BY <1>1, <1>2 DEF ShapeInv, SrvShape
  <1> QED
    BY <1>1, <1>2, <1>3, ShapeFrame, MovedShape DEF ShapeInv

LEMMA AttestShape ==
  ASSUME PairTypeOK, ShapeInv, NEW n \in Node, Attest(n)
  PROVE  ShapeInv'
  <1> DEFINE i == By[srv[n].offer]
  <1>1. /\ srv[n].pc = "hello" /\ UNCHANGED <<op, revoked, pair>>
        /\ Answer(n, "ok") \/ Answer(n, "no")
    BY AttestCases
  <1>2. /\ \A m \in Node : m # n => srv'[m] = srv[m]
        /\ srv'[n].pc \in {"ok", "no"} /\ srv'[n].offer = srv[n].offer
        /\ srv'[n].user = srv[n].user /\ (srv'[n].late <=> srv[n].late)
    BY <1>1, AnswerIs
  <1>3. SrvShape(n)'
    BY <1>1, <1>2 DEF ShapeInv, SrvShape
  <1>4. RowFacts'
    <2>1. CASE UNCHANGED store
      BY <2>1, <1>1, ShapeFrame
    <2>2. ASSUME NEW first \in SamePerson(n), Put(i, n, AttestedRow(n, first))
          PROVE  RowFacts'
      <3>1. i \in Node /\ srv[n].user \in {Person[n], NoPerson}
        BY <1>1, PairingAssumption DEF ShapeInv, SrvShape
      <3>2. AttestedRow(n, first).user = srv[n].user /\ AttestedRow(n, first).paired
        BY DEF AttestedRow
      <3>3. \A k, j \in Node :
              store'[k][j] = IF k = i /\ j = n THEN AttestedRow(n, first) ELSE store[k][j]
        BY <2>2, <3>1, PutIs
      <3> QED
        BY <1>1, <3>1, <3>2, <3>3 DEF ShapeInv, RowFacts, RowOf
    <2> QED
      BY <2>1, <2>2, AttestCases
  <1> QED
    BY <1>1, <1>2, <1>3, <1>4, ShapeFrame, MovedShape DEF ShapeInv

(* The row a redeemer writes, beside the one there. *)
BackRow(n) ==
    LET o == pair[n].offer   i == By[o]   old == store[n][i]   had == old # NoRow IN
    [nick    |-> IF Kind[o] = "attest" /\ had THEN old.nick ELSE pair[n].name,
     user    |-> IF Person[i] = NoPerson /\ had THEN old.user ELSE Person[i],
     paired  |-> TRUE,
     dials   |-> (IF had THEN old.dials ELSE {})
                 \cup (IF Kind[o] = "pair" THEN Grants[o] ELSE {}),
     checked |-> Kind[o] = "pair" \/ (had /\ old.checked)]

LEMMA BackRowIs ==
  ASSUME PairTypeOK, ShapeInv, NEW n \in Node, pair[n].pc # "idle"
  PROVE  LET o == pair[n].offer   i == By[o]   old == store[n][i]   r == BackRow(n) IN
         /\ o \in Offer /\ i \in Node /\ i # n
         /\ r \in Row /\ r # NoRow /\ r.paired
         /\ r.user \in {Person[i], NoPerson}
         /\ Person[i] # NoPerson => r.user = Person[i]
         /\ Kind[o] = "pair" \/ old = NoRow => r.nick = pair[n].name
         /\ Kind[o] # "pair" /\ old = NoRow => ~r.checked
         /\ old # NoRow => old.dials \subseteq r.dials
         /\ old # NoRow /\ Kind[o] = "attest" => r.nick = old.nick
         /\ old # NoRow /\ Kind[o] # "pair" => (r.checked => old.checked)
         /\ old # NoRow /\ old.user # NoPerson => r.user = old.user
  <1> DEFINE o == pair[n].offer
             i == By[o]
             old == store[n][i]
  <1>1. o \in Offer /\ i \in Node /\ i # n /\ pair[n].name \in Name
    BY PairingAssumption DEF ShapeInv, PairShape
  <1>2. old # NoRow => /\ old \in Row /\ old.user \in {Person[i], NoPerson}
                       /\ old.nick \in Name /\ old.checked \in BOOLEAN /\ old.dials \in SUBSET Service
    BY <1>1, PairingFields, PairingTyped DEF ShapeInv, RowFacts, RowOf
  <1>3. Person[i] \in People \cup {NoPerson} /\ Grants[o] \in SUBSET Service
    BY <1>1, PairingAssumption DEF People
  <1>4. BackRow(n) = [nick    |-> IF Kind[o] = "attest" /\ old # NoRow THEN old.nick ELSE pair[n].name,
                      user    |-> IF Person[i] = NoPerson /\ old # NoRow THEN old.user ELSE Person[i],
                      paired  |-> TRUE,
                      dials   |-> (IF old # NoRow THEN old.dials ELSE {})
                                  \cup (IF Kind[o] = "pair" THEN Grants[o] ELSE {}),
                      checked |-> Kind[o] = "pair" \/ (old # NoRow /\ old.checked)]
    BY DEF BackRow
  <1> HIDE DEF o, i, old
  <1>5. BackRow(n) \in Row
    BY <1>1, <1>2, <1>3, <1>4 DEF Row
  <1>6. BackRow(n) # NoRow
    BY <1>5, PairingAssumption
  <1>7. BackRow(n).checked => Kind[o] = "pair" \/ (old # NoRow /\ old.checked)
    <2> DEFINE c == Kind[o] = "pair" \/ (old # NoRow /\ old.checked)
    <2> SUFFICES BackRow(n).checked = c
      OBVIOUS
    <2> HIDE DEF c
    <2> QED
      BY <1>4 DEF c
  <1>8. /\ BackRow(n).paired
        /\ BackRow(n).nick = IF Kind[o] = "attest" /\ old # NoRow THEN old.nick ELSE pair[n].name
        /\ BackRow(n).user = IF Person[i] = NoPerson /\ old # NoRow THEN old.user ELSE Person[i]
        /\ old # NoRow => old.dials \subseteq BackRow(n).dials
    BY <1>4
  <1>9. "pair" # "attest"
    OBVIOUS
  <1> QED
    BY <1>1, <1>2, <1>5, <1>6, <1>7, <1>8, <1>9 DEF o, i, old

LEMMA SaveBackIs ==
  ASSUME PairTypeOK, ShapeInv, NEW n \in Node, SaveBack(n)
  PROVE  LET i == By[pair[n].offer] IN
         /\ pair[n].pc = "save" /\ UNCHANGED <<allow, revoked, left, srv, op, told, spent>>
         /\ Writes(n, <<"pair", n>>)
         /\ \A k, j \in Node : store'[k][j] = IF k = n /\ j = i THEN BackRow(n) ELSE store[k][j]
         /\ \A m \in Node : m # n => pair'[m] = pair[m]
         /\ IF Kind[pair[n].offer] = "pair"
            THEN /\ pair'[n].pc = "back" /\ pair'[n].offer = pair[n].offer
                 /\ pair'[n].name = pair[n].name /\ (pair'[n].cut <=> pair[n].cut)
            ELSE pair'[n] = IdlePair
  <1> DEFINE r == pair[n]
             x == [r EXCEPT !.pc = "back"]
             y == IF Kind[pair[n].offer] = "pair" THEN x ELSE IdlePair
  <1>1. r \in Pairs
    BY DEF PairTypeOK
  <1>2. x.pc = "back" /\ x.offer = r.offer /\ x.name = r.name /\ (x.cut <=> r.cut)
    <2> HIDE DEF r
    <2> QED
      BY <1>1 DEF Pairs
  <1>3. /\ pair[n].pc = "save" /\ UNCHANGED <<allow, revoked, left, srv, op, told, spent>>
        /\ Writes(n, <<"pair", n>>) /\ Put(n, By[pair[n].offer], BackRow(n))
        /\ pair' = [pair EXCEPT ![n] = y]
    BY DEF SaveBack, BackRow
  <1>4. By[pair[n].offer] \in Node
    BY <1>3, BackRowIs
  <1>5. \A k, j \in Node : store'[k][j] = IF k = n /\ j = By[pair[n].offer] THEN BackRow(n)
                                          ELSE store[k][j]
    BY <1>3, <1>4, PutIs
  <1> HIDE DEF x
  <1>6. pair'[n] = y /\ \A m \in Node : m # n => pair'[m] = pair[m]
    <2> HIDE DEF y
    <2> QED
      BY <1>3 DEF PairTypeOK
  <1> QED
    BY <1>2, <1>3, <1>5, <1>6

LEMMA SaveBackShape ==
  ASSUME PairTypeOK, ShapeInv, NEW n \in Node, SaveBack(n)
  PROVE  ShapeInv'
  <1> DEFINE i == By[pair[n].offer]
  <1>1. /\ i \in Node /\ BackRow(n).paired /\ BackRow(n).user \in {Person[i], NoPerson}
    BY SaveBackIs, BackRowIs
  <1>2. \A k, j \in Node : store'[k][j] = IF k = n /\ j = i THEN BackRow(n) ELSE store[k][j]
    BY SaveBackIs
  <1>3. /\ pair[n].pc = "save" /\ UNCHANGED <<srv, op, revoked>>
        /\ \A m \in Node : m # n => pair'[m] = pair[m]
    BY SaveBackIs
  <1>4. \/ /\ Kind[pair[n].offer] = "pair" /\ pair'[n].pc = "back"
           /\ pair'[n].offer = pair[n].offer /\ pair'[n].name = pair[n].name
        \/ pair'[n].pc = "idle"
    BY SaveBackIs, PairingTyped
  <1>5. RowFacts'
    <2> HIDE DEF i
    <2> QED
      BY <1>1, <1>2, <1>3 DEF ShapeInv, RowFacts, RowOf
  <1>6. PairShape(n)'
    BY <1>3, <1>4 DEF ShapeInv, PairShape
  <1> QED
    BY <1>3, <1>5, <1>6, ShapeFrame DEF ShapeInv

LEMMA GrantBackShape ==
  ASSUME PairTypeOK, ShapeInv, NEW n \in Node, GrantBack(n)
  PROVE  ShapeInv'
  <1>1. /\ UNCHANGED <<store, op, revoked, srv>>
        /\ \A m \in Node : pair'[m] = IdlePair \/ pair'[m] = pair[m]
    BY DEF GrantBack, PairTypeOK
  <1> QED
    BY <1>1, IdleShape

(* Steps of the operator leave the ceremonies alone. *)
LEMMA VerbShape ==
  ASSUME PairTypeOK, ShapeInv, NEW n \in Node, UNCHANGED <<srv, pair, revoked>>,
         \A k \in Node : k # n => op'[k] = op[k], OpShape(n)',
         \A k, j \in Node : /\ store'[k][j] \in {store[k][j], op[k].rows[j], NoRow} \/ RowOf(j, store'[k][j])
                            /\ k = n => RowOf(j, op'[k].rows[j])
  PROVE  ShapeInv'
  <1>1. RowFacts'
    BY DEF ShapeInv, RowFacts, RowOf
  <1>2. \A k \in Node : OpShape(k)'
    BY DEF ShapeInv, OpShape
  <1> QED
    BY <1>1, <1>2, ShapeFrame DEF ShapeInv

LEMMA OpIdle ==
  ASSUME PairTypeOK, NEW n \in Node, op' = [op EXCEPT ![n] = IdleOp]
  PROVE  /\ \A k \in Node : k # n => op'[k] = op[k]
         /\ OpShape(n)' /\ op'[n].pc = "idle" /\ \A j \in Node : op'[n].rows[j] = NoRow
         /\ \A j \in Node : RowOf(j, op'[n].rows[j])
  <1>1. op'[n] = IdleOp /\ \A k \in Node : k # n => op'[k] = op[k]
    BY DEF PairTypeOK
  <1> QED
    BY <1>1, PairingTyped DEF OpShape, RowOf

LEMMA PeerRenameIs ==
  ASSUME PairTypeOK, NEW n \in Node, NEW who, NEW to \in Name, PeerRename(n, who, to)
  PROVE  /\ \A k \in Node : k # n => op'[k] = op[k]
         /\ op[n].pc = "idle" /\ op'[n].pc = "rename" /\ op'[n].name = to
         /\ \A m \in Node :
              LET r == op'[n].rows[m]  s == store[n][m] IN
              /\ m \notin Named(n, who) => r = NoRow
              /\ m \in Named(n, who) =>
                   /\ r \in Row /\ r # NoRow /\ s \in Row /\ s # NoRow
                   /\ r.nick = to /\ r.user = s.user /\ r.dials = s.dials
                   /\ (r.paired <=> s.paired)
                   /\ r.checked => s.checked \/ who \in People \/ Named(n, who) = {m}
  <1> DEFINE x == [pc |-> "rename", name |-> to, rows |-> Renamed(n, who, to)]
  <1>1. op' = [op EXCEPT ![n] = x] /\ op[n].pc = "idle"
    BY RenameCases
  <1>2. x.pc = "rename" /\ x.name = to /\ x.rows = Renamed(n, who, to)
    OBVIOUS
  <1> HIDE DEF x
  <1>3. op'[n] = x /\ \A k \in Node : k # n => op'[k] = op[k]
    BY <1>1 DEF PairTypeOK
  <1> QED
    BY <1>1, <1>2, <1>3, RenamedRow

LEMMA PeerRenameShape ==
  ASSUME PairTypeOK, ShapeInv, NEW n \in Node, NEW who, NEW to \in Name, PeerRename(n, who, to)
  PROVE  ShapeInv'
  <1>1. OpShape(n)'
    BY PeerRenameIs DEF OpShape
  <1>2. \A j \in Node : RowOf(j, op'[n].rows[j])
    BY PeerRenameIs DEF ShapeInv, RowFacts, RowOf
  <1>3. UNCHANGED <<store, srv, pair, revoked>>
    BY RenameCases
  <1> QED
    BY <1>1, <1>2, <1>3, PeerRenameIs, VerbShape

LEMMA RowsWriteShape ==
  ASSUME PairTypeOK, ShapeInv, NEW n \in Node, RenameWrite(n) \/ IntroduceWrite(n)
  PROVE  ShapeInv'
  <1>1. /\ UNCHANGED <<srv, pair, revoked>> /\ store' = RowsWritten(n)
        /\ op' = [op EXCEPT ![n] = IdleOp]
    BY DEF RenameWrite, IntroduceWrite
  <1>2. \A k, j \in Node : store'[k][j] \in {store[k][j], op[k].rows[j], NoRow}
    BY <1>1, RowsWrittenIs
  <1> QED
    BY <1>1, <1>2, OpIdle, VerbShape

Introduces(n, m, name) == \E binds \in BOOLEAN : PeerIntroduce(n, m, name, binds)

IntroducedAs(r, m, name) ==
    /\ r \in Row /\ r.nick = name /\ r.user \in {Person[m], NoPerson}
    /\ ~r.paired /\ r.dials = {}

LEMMA PeerIntroduceIs ==
  ASSUME PairTypeOK, NEW n \in Node, NEW m \in Node, NEW name \in Name,
         Introduces(n, m, name)
  PROVE  /\ \A k \in Node : k # n => op'[k] = op[k]
         /\ op[n].pc = "idle" /\ op'[n].pc = "introduce"
         /\ UNCHANGED <<store, allow, revoked, left, pair, srv, told, raced>>
         /\ Reads(<<"op", n>>) /\ ~Taken(n, name, m)
         /\ store[n][m] # NoRow => ~store[n][m].paired
         /\ \A k \in Node : op'[n].rows[k] # NoRow => k = m /\ IntroducedAs(op'[n].rows[k], m, name)
  <1>0. PICK binds \in BOOLEAN : PeerIntroduce(n, m, name, binds)
    BY DEF Introduces
  <1> DEFINE r == IntroducedRow(m, name, binds)
             rows == [k \in Node |-> IF k # m THEN NoRow ELSE r]
             x == [pc |-> "introduce", name |-> NoName, rows |-> rows]
  <1>1. /\ op' = [op EXCEPT ![n] = x] /\ op[n].pc = "idle"
        /\ UNCHANGED <<store, allow, revoked, left, pair, srv, told, raced>>
        /\ Reads(<<"op", n>>) /\ ~Taken(n, name, m)
    BY <1>0 DEF PeerIntroduce, IntroducedRow, Can
  <1>2. store[n][m] # NoRow => ~store[n][m].paired
    BY <1>0 DEF PeerIntroduce, Rows
  <1>3. IntroducedAs(r, m, name)
    BY IntroducedRowIs DEF IntroducedAs
  <1> HIDE DEF r
  <1>4. x.pc = "introduce" /\ x.rows = rows
    OBVIOUS
  <1> HIDE DEF x
  <1>5. op'[n] = x /\ \A k \in Node : k # n => op'[k] = op[k]
    BY <1>1 DEF PairTypeOK
  <1>6. \A k \in Node : rows[k] # NoRow => k = m /\ rows[k] = r
    OBVIOUS
  <1> HIDE DEF rows
  <1> QED
    BY <1>1, <1>2, <1>3, <1>4, <1>5, <1>6

LEMMA PeerIntroduceShape ==
  ASSUME PairTypeOK, ShapeInv, NEW n \in Node, NEW m \in Node, NEW name \in Name,
         Introduces(n, m, name)
  PROVE  ShapeInv'
  <1>1. /\ \A k \in Node : k # n => op'[k] = op[k]
        /\ op'[n].pc = "introduce" /\ UNCHANGED <<store, srv, pair, revoked>>
    BY PeerIntroduceIs
  <1>2. ASSUME NEW k \in Node, op'[n].rows[k] # NoRow
        PROVE  k = m /\ IntroducedAs(op'[n].rows[k], m, name)
    BY <1>2, PeerIntroduceIs
  <1>3. OpShape(n)'
    BY <1>1, <1>2 DEF OpShape
  <1>4. \A j \in Node : RowOf(j, op'[n].rows[j])
    BY <1>2 DEF RowOf, IntroducedAs
  <1> QED
    BY <1>1, <1>3, <1>4, VerbShape

LEMMA PeerAddIs ==
  ASSUME PairTypeOK, NEW n \in Node, NEW m \in Node, NEW name \in Name, PeerAdd(n, m, name)
  PROVE  /\ \A k, j \in Node : store'[k][j] = IF k = n /\ j = m THEN AddedRow(name) ELSE store[k][j]
         /\ UNCHANGED <<allow, revoked, left, pair, srv, op, told>>
         /\ raced' = IF m \in Rows(n) THEN raced \cup {n} ELSE raced
         /\ stale' = stale \cup Busy(n)
  <1>1. Put(n, m, AddedRow(name))
    BY DEF PeerAdd, AddedRow
  <1> QED
    BY <1>1, PutIs DEF PeerAdd, Excused

LEMMA PeerAddShape ==
  ASSUME PairTypeOK, ShapeInv, NEW n \in Node, NEW m \in Node, NEW name \in Name,
         PeerAdd(n, m, name)
  PROVE  ShapeInv'
  <1>1. RowOf(m, AddedRow(name))
    BY AddedRowIs DEF RowOf
  <1>2. RowFacts'
    BY <1>1, PeerAddIs DEF ShapeInv, RowFacts, RowOf
  <1> QED
    BY <1>2, PeerAddIs, ShapeFrame DEF ShapeInv

LEMMA PeerRemoveIs ==
  ASSUME PairTypeOK, NEW n \in Node, NEW name \in Name, PeerRemove(n, name)
  PROVE  /\ \A k \in Node : k # n => op'[k] = op[k]
         /\ op[n].pc = "idle" /\ op'[n].pc = "remove" /\ op'[n].name = name
         /\ \A j \in Node : op'[n].rows[j] = NoRow
         /\ UNCHANGED <<store, revoked, left, srv, raced>>
         /\ stale' = (stale \cup Busy(n)) \ {<<"op", n>>}
         /\ allow'[n] = allow[n] \ Stripped(n, name)
         /\ \A k \in Node : k # n => allow'[k] = allow[k]
  <1> DEFINE x == [IdleOp EXCEPT !.pc = "remove", !.name = name]
  <1>1. x.pc = "remove" /\ x.name = name /\ \A j \in Node : x.rows[j] = NoRow
    BY DEF IdleOp
  <1>2. op' = [op EXCEPT ![n] = x] /\ op[n].pc = "idle"
    BY DEF PeerRemove, Can
  <1> HIDE DEF x
  <1>3. op'[n] = x /\ \A k \in Node : k # n => op'[k] = op[k]
    BY <1>2 DEF PairTypeOK
  <1>4. allow'[n] = allow[n] \ Stripped(n, name) /\ \A k \in Node : k # n => allow'[k] = allow[k]
    BY DEF PeerRemove, PairTypeOK
  <1>5. /\ UNCHANGED <<store, revoked, left, srv, raced>>
        /\ stale' = (stale \cup Busy(n)) \ {<<"op", n>>}
    BY DEF PeerRemove
  <1> QED
    BY <1>1, <1>2, <1>3, <1>4, <1>5

(* ... and what it leaves of the pairings. *)
LEMMA PeerRemoveUnpairs ==
  ASSUME PairTypeOK, NEW n \in Node, NEW name \in Name, PeerRemove(n, name)
  PROVE  /\ told' \subseteq told
         /\ \A m \in Node :
              /\ pair'[m].pc = pair[m].pc /\ pair'[m].offer = pair[m].offer
              /\ pair'[m].name = pair[m].name /\ (pair[m].cut => pair'[m].cut)
              /\ m \in Rows(n) /\ store[n][m].nick = name =>
                   /\ pair[m].pc # "idle" /\ By[pair[m].offer] = n => pair'[m].cut
                   /\ <<m, n>> \notin told'
  <1> DEFINE peers == {m \in Rows(n) : store[n][m].nick = name}
  <1>1. Unpairs(n, peers)
    BY DEF PeerRemove
  <1>2. \A m \in Node : m \in Rows(n) /\ store[n][m].nick = name => m \in peers
    OBVIOUS
  <1> HIDE DEF peers
  <1> QED
    BY <1>1, <1>2, UnpairsIs

LEMMA PeerRemoveShape ==
  ASSUME PairTypeOK, ShapeInv, NEW n \in Node, NEW name \in Name, PeerRemove(n, name)
  PROVE  ShapeInv'
  <1>0. UNCHANGED <<store, revoked, srv>>
    BY PeerRemoveIs
  <1>a. /\ \A k \in Node : k # n => op'[k] = op[k]
        /\ op'[n].pc = "remove" /\ op'[n].name = name /\ \A j \in Node : op'[n].rows[j] = NoRow
    BY PeerRemoveIs
  <1>1. RowFacts' /\ \A k \in Node : OpShape(k)'
    BY <1>0, <1>a DEF ShapeInv, RowFacts, RowOf, OpShape
  <1>2. \A k \in Node : /\ pair'[k].pc = pair[k].pc /\ pair'[k].offer = pair[k].offer
                        /\ pair'[k].name = pair[k].name
    BY PeerRemoveUnpairs
  <1>3. \A k \in Node : PairShape(k)'
    BY <1>0, <1>2 DEF ShapeInv, PairShape
  <1> QED
    BY <1>0, <1>1, <1>3, ShapeFrame DEF ShapeInv

LEMMA RemoveRowsIs ==
  ASSUME PairTypeOK, NEW n \in Node, RemoveRows(n)
  PROVE  /\ \A k, j \in Node :
              store'[k][j] = IF k = n /\ store[n][j] # NoRow /\ store[n][j].nick = op[n].name
                             THEN NoRow ELSE store[k][j]
         /\ op[n].pc = "remove" /\ op' = [op EXCEPT ![n] = IdleOp]
         /\ Writes(n, <<"op", n>>)
         /\ told' = {t \in told : t[1] # n \/ store'[n][t[2]] # NoRow}
         /\ UNCHANGED <<allow, revoked, left, pair, srv, spent>>
  <1> DEFINE f == [m \in Node |-> IF store[n][m] # NoRow /\ store[n][m].nick = op[n].name
                                  THEN NoRow ELSE store[n][m]]
  <1>1. store' = [store EXCEPT ![n] = f]
    BY DEF RemoveRows
  <1>2. \A j \in Node : f[j] = IF store[n][j] # NoRow /\ store[n][j].nick = op[n].name
                               THEN NoRow ELSE store[n][j]
    OBVIOUS
  <1> HIDE DEF f
  <1>3. store'[n] = f /\ \A k \in Node : k # n => store'[k] = store[k]
    BY <1>1 DEF PairTypeOK
  <1>4. \A k, j \in Node :
              store'[k][j] = IF k = n /\ store[n][j] # NoRow /\ store[n][j].nick = op[n].name
                             THEN NoRow ELSE store[k][j]
    BY <1>2, <1>3
  <1> QED
    BY <1>4 DEF RemoveRows

LEMMA RemoveRowsShape ==
  ASSUME PairTypeOK, ShapeInv, NEW n \in Node, RemoveRows(n)
  PROVE  ShapeInv'
  <1>1. \A k, j \in Node : store'[k][j] \in {store[k][j], op[k].rows[j], NoRow}
    BY RemoveRowsIs
  <1> QED
    BY <1>1, RemoveRowsIs, OpIdle, VerbShape

LEMMA OpAbortedShape ==
  ASSUME PairTypeOK, ShapeInv, NEW n \in Node, OpAborted(n)
  PROVE  ShapeInv'
  BY OpIdle, VerbShape DEF OpAborted

LEMMA PeerRevokeShape ==
  ASSUME PairTypeOK, ShapeInv, NEW n \in Node, NEW p, PeerRevoke(n, p)
  PROVE  ShapeInv'
  <1>1. UNCHANGED <<store, op, pair, srv>> /\ \A k \in Node : revoked[k] \subseteq revoked'[k]
    BY DEF PeerRevoke, PairTypeOK
  <1>2. \A k \in Node : LateShape(k)'
    BY <1>1, PairingAssumption DEF ShapeInv, LateShape, SrvShape
  <1> QED
    BY <1>1, <1>2, ShapeFrame DEF ShapeInv

LEMMA PeerUnrevokeShape ==
  ASSUME PairTypeOK, ShapeInv, NEW n \in Node, NEW p, PeerUnrevoke(n, p)
  PROVE  ShapeInv'
  <1>1. UNCHANGED <<store, op, pair>> /\ \A k \in Node : k # n => revoked'[k] = revoked[k]
    BY DEF PeerUnrevoke, PairTypeOK
  <1>2. \A m \in Node :
              /\ srv'[m].pc = srv[m].pc /\ srv'[m].offer = srv[m].offer
              /\ srv'[m].user = srv[m].user /\ srv'[m].entry = srv[m].entry
              /\ srv'[m].late => srv[m].late
              /\ srv[m].pc # "idle" /\ By[srv[m].offer] = n => ~srv'[m].late
    BY UnrevokeIs
  <1>3. \A k \in Node : PairShape(k)' /\ SrvShape(k)'
    BY <1>1, <1>2 DEF ShapeInv, PairShape, SrvShape, RowOf
  <1>4. \A k \in Node : LateShape(k)'
    BY <1>1, <1>2, PairingAssumption DEF ShapeInv, LateShape, SrvShape
  <1> QED
    BY <1>1, <1>3, <1>4, ShapeFrame DEF ShapeInv

LEMMA StopIs ==
  ASSUME PairTypeOK, NEW n \in Node, Stop(n)
  PROVE  /\ UNCHANGED <<store, allow, revoked, left, told, stale, raced>>
         /\ op' = [op EXCEPT ![n] = IdleOp]
         /\ \A m \in Node : /\ srv'[m] = srv[m] \/ srv'[m] = IdleSrv
                            /\ \/ pair'[m] = IdlePair
                               \/ pair'[m] = pair[m] /\ (pair[m].pc = "wait" => srv'[m] = srv[m])
  BY DEF Stop

LEMMA StopShape ==
  ASSUME PairTypeOK, ShapeInv, NEW n \in Node, Stop(n)
  PROVE  ShapeInv'
  <1>1. UNCHANGED <<store, revoked>> /\ op' = [op EXCEPT ![n] = IdleOp]
    BY StopIs
  <1>a. /\ \A k \in Node : k # n => op'[k] = op[k]
        /\ OpShape(n)' /\ \A j \in Node : op'[n].rows[j] = NoRow
    BY <1>1, OpIdle
  <1>2. RowFacts'
    BY <1>1, <1>a DEF ShapeInv, RowFacts, RowOf
  <1>3. \A k \in Node : OpShape(k)'
    BY <1>a DEF ShapeInv, OpShape
  <1>4. ASSUME NEW k \in Node
        PROVE  PairShape(k)' /\ SrvShape(k)' /\ LateShape(k)'
    <2>1. /\ srv'[k] = srv[k] \/ (srv'[k].pc = "idle" /\ ~srv'[k].late)
          /\ \/ pair'[k].pc = "idle"
             \/ pair'[k] = pair[k] /\ (pair[k].pc = "wait" => srv'[k] = srv[k])
      BY StopIs, PairingTyped
    <2>2. SrvShape(k)'
      BY <2>1, ShapeFrame DEF SrvShape
    <2>3. LateShape(k)'
      BY <1>1, <2>1, ShapeFrame DEF LateShape
    <2>4. PairShape(k)'
      BY <2>1 DEF ShapeInv, PairShape
    <2> QED
      BY <2>2, <2>3, <2>4
  <1> QED
    BY <1>2, <1>3, <1>4 DEF ShapeInv

-----------------------------------------------------------------------------
(* Threads that are not stale, and nodes where nothing raced.                *)

(* A step that leaves node k's store, grants and answers as they are. *)
QuietAt(k) ==
    /\ \A j \in Node : store'[k][j] = store[k][j]
    /\ allow'[k] = allow[k]
    /\ \A m \in Node : Owes(k, m)' => Owes(k, m)
    /\ \A m \in Node : <<k, m>> \in told' => <<k, m>> \in told

(* The threads of node k, but for those that step, are stale from now on. *)
Marked(k, T) ==
    /\ pair[k].pc # "idle" /\ <<"pair", k>> \notin T => <<"pair", k>> \in stale'
    /\ op[k].pc # "idle" /\ <<"op", k>> \notin T => <<"op", k>> \in stale'
    /\ \A m \in Node : srv[m].pc # "idle" /\ By[srv[m].offer] = k /\ <<"srv", m>> \notin T
                          => <<"srv", m>> \in stale'

LEMMA BusyMarked ==
  ASSUME NEW k \in Node, NEW T, Busy(k) \ T \subseteq stale'
  PROVE  Marked(k, T)
  BY DEF Busy, Marked

LEMMA WritesMarks ==
  ASSUME NEW k \in Node, NEW t, Writes(k, t)
  PROVE  /\ Marked(k, {t}) /\ stale \subseteq stale' /\ raced \subseteq raced'
         /\ t \in stale => k \in raced'
         /\ \A th : th \in stale' => th \in stale \/ th # t
  <1>1. Busy(k) \ {t} \subseteq stale'
    BY DEF Writes
  <1> QED
    BY <1>1, BusyMarked DEF Writes, Excused

LEMMA TakenFrame ==
  ASSUME NEW k \in Node, \A j \in Node : store'[k][j] = store[k][j], NEW name, NEW m
  PROVE  Taken(k, name, m)' <=> Taken(k, name, m)
  BY DEF Taken, Rows

LEMMA StrippedFrame ==
  ASSUME NEW k \in Node, \A j \in Node : store'[k][j] = store[k][j], NEW name
  PROVE  \A x : x \in Stripped(k, name)' <=> x \in Stripped(k, name)
  BY DEF Stripped, Rows

(* A thread that did not step keeps what it relies on, or is stale. *)
LEMMA PairFrame ==
  ASSUME FreshInv, NEW n \in Node, NEW T, <<"pair", n>> \notin T,
         stale \ T \subseteq stale',
         QuietAt(n) \/ Marked(n, T),
         pair'[n].pc = pair[n].pc, pair'[n].offer = pair[n].offer, pair'[n].name = pair[n].name,
         ShapeInv
  PROVE  PairFresh(n)'
  <1> SUFFICES ASSUME Fresh("pair", n)', pair[n].pc # "idle"
               PROVE  PairFresh(n)'
    BY DEF PairFresh
  <1>1. QuietAt(n) /\ Fresh("pair", n)
    BY DEF Fresh, Marked
  <1>2. /\ \A j \in Node : store'[n][j] = store[n][j]
        /\ By[pair[n].offer] \in Node
    BY <1>1, PairingAssumption DEF QuietAt, ShapeInv, PairShape
  <1>3. \A name, m : Taken(n, name, m)' <=> Taken(n, name, m)
    BY <1>2, TakenFrame
  <1> QED
    BY <1>1, <1>2, <1>3 DEF FreshInv, PairFresh

LEMMA SrvFrame ==
  ASSUME FreshInv, NEW n \in Node, NEW T, <<"srv", n>> \notin T,
         stale \ T \subseteq stale',
         srv[n].pc # "idle" => QuietAt(By[srv[n].offer]) \/ Marked(By[srv[n].offer], T),
         srv'[n].pc = srv[n].pc, srv'[n].offer = srv[n].offer, srv'[n].entry = srv[n].entry,
         ShapeInv
  PROVE  SrvFresh(n)'
  <1> SUFFICES ASSUME Fresh("srv", n)', srv[n].pc # "idle"
               PROVE  SrvFresh(n)'
    BY DEF SrvFresh
  <1> DEFINE i == By[srv[n].offer]
  <1>1. QuietAt(i) /\ Fresh("srv", n)
    BY DEF Fresh, Marked
  <1>2. i \in Node
    BY PairingAssumption DEF ShapeInv, SrvShape
  <1>3. \A j \in Node : store'[i][j] = store[i][j]
    BY <1>1 DEF QuietAt
  <1>4. \A name, m : Taken(i, name, m)' <=> Taken(i, name, m)
    BY <1>2, <1>3, TakenFrame
  <1> QED
    BY <1>1, <1>3, <1>4 DEF FreshInv, SrvFresh

LEMMA OpFrame ==
  ASSUME FreshInv, NEW n \in Node, NEW T, <<"op", n>> \notin T,
         stale \ T \subseteq stale', raced \subseteq raced',
         QuietAt(n) \/ Marked(n, T), op'[n] = op[n]
  PROVE  OpFresh(n)'
  <1> SUFFICES ASSUME Fresh("op", n)', op[n].pc # "idle"
               PROVE  OpFresh(n)'
    BY DEF OpFresh
  <1>1. QuietAt(n) /\ Fresh("op", n)
    BY DEF Fresh, Marked
  <1>2. \A j \in Node : store'[n][j] = store[n][j]
    BY <1>1 DEF QuietAt
  <1>3. \A name, m : Taken(n, name, m)' <=> Taken(n, name, m)
    BY <1>2, TakenFrame
  <1>4. RenameFresh(n) => RenameFresh(n)'
    BY <1>2 DEF RenameFresh
  <1>5. IntroduceFresh(n) => IntroduceFresh(n)'
    BY <1>2, <1>3 DEF IntroduceFresh
  <1>6. RemoveFresh(n) => RemoveFresh(n)'
    <2>1. \A name, x : x \in Stripped(n, name)' <=> x \in Stripped(n, name)
      BY <1>2, StrippedFrame
    <2> QED
      BY <1>1, <1>2, <2>1 DEF RemoveFresh, QuietAt
  <1> QED
    BY <1>1, <1>4, <1>5, <1>6 DEF FreshInv, OpFresh

LEMMA NodeFrame ==
  ASSUME NEW k \in Node, NodeInv(k), QuietAt(k), raced \subseteq raced'
  PROVE  NodeInv(k)'
  <1> SUFFICES ASSUME k \notin raced'
               PROVE  OrphanAt(k)' /\ NamesAt(k)' /\ AdmitsAt(k)' /\ BackAt(k)'
    BY DEF NodeInv
  <1>1. OrphanAt(k) /\ NamesAt(k) /\ AdmitsAt(k) /\ BackAt(k)
    BY DEF NodeInv
  <1>2. OrphanAt(k)' /\ NamesAt(k)'
    BY <1>1 DEF QuietAt, OrphanAt, NamesAt
  <1>3. AdmitsAt(k)' /\ BackAt(k)'
    BY <1>1 DEF QuietAt, AdmitsAt, Admits, BackAt
  <1> QED
    BY <1>2, <1>3

(* The inductive invariant. *)
FullInv ==
    /\ PairTypeOK /\ ShapeInv /\ FreshInv
    /\ \A n \in Node : NodeInv(n)
    /\ RevokedNeverPairs

(* Only the threads that step, and a node that is written, need looking at. *)
LEMMA StepKeeps ==
  ASSUME FullInv, NEW T, stale \ T \subseteq stale', raced \subseteq raced',
         \A k \in Node : QuietAt(k) \/ (Marked(k, T) /\ NodeInv(k)'),
         \A n \in Node : <<"pair", n>> \in T \/ pair'[n].pc = "idle"
                         \/ (pair'[n].pc = pair[n].pc /\ pair'[n].offer = pair[n].offer /\ pair'[n].name = pair[n].name),
         \A n \in Node : <<"srv", n>> \in T \/ srv'[n].pc \notin {"save", "grant"}
                         \/ (srv'[n].pc = srv[n].pc /\ srv'[n].offer = srv[n].offer /\ srv'[n].entry = srv[n].entry),
         \A n \in Node : <<"op", n>> \in T \/ op'[n].pc = "idle" \/ op'[n] = op[n],
         \A n \in Node : /\ <<"pair", n>> \in T => PairFresh(n)'
                         /\ <<"srv", n>> \in T => SrvFresh(n)'
                         /\ <<"op", n>> \in T => OpFresh(n)'
  PROVE  FreshInv' /\ \A n \in Node : NodeInv(n)'
  <1>1. \A n \in Node : NodeInv(n)'
    BY NodeFrame DEF FullInv
  <1>2. ASSUME NEW n \in Node PROVE PairFresh(n)'
    <2>1. CASE pair'[n].pc = "idle"
      BY <2>1 DEF PairFresh
    <2>2. CASE pair'[n].pc = pair[n].pc /\ pair'[n].offer = pair[n].offer /\ pair'[n].name = pair[n].name
      BY <2>2, PairFrame DEF FullInv
    <2> QED
      BY <2>1, <2>2
  <1>3. ASSUME NEW n \in Node PROVE SrvFresh(n)'
    <2>1. CASE srv'[n].pc \notin {"save", "grant"}
      BY <2>1 DEF SrvFresh
    <2>2. CASE /\ srv'[n].pc = srv[n].pc /\ srv'[n].offer = srv[n].offer /\ srv'[n].entry = srv[n].entry
               /\ srv[n].pc # "idle"
      <3>1. By[srv[n].offer] \in Node
        BY <2>2, PairingAssumption DEF FullInv, ShapeInv, SrvShape
      <3> QED
        BY <2>2, <3>1, SrvFrame DEF FullInv
    <2> QED
      BY <2>1, <2>2
  <1>4. ASSUME NEW n \in Node PROVE OpFresh(n)'
    <2>1. CASE op'[n].pc = "idle"
      BY <2>1 DEF OpFresh
    <2>2. CASE op'[n] = op[n]
      BY <2>2, OpFrame DEF FullInv
    <2> QED
      BY <2>1, <2>2
  <1> QED
    BY <1>1, <1>2, <1>3, <1>4 DEF FreshInv

(* No answer is promised that was not before. *)
NoneNew ==
    /\ told' \subseteq told
    /\ \A m \in Node :
         \/ pair'[m].pc = "idle" \/ Kind[pair'[m].offer] # "pair"
         \/ pair'[m].pc = "wait" /\ srv'[m].pc # "ok"
         \/ /\ pair'[m].offer = pair[m].offer /\ (pair[m].cut => pair'[m].cut) /\ pair[m].pc # "idle"
            /\ pair[m].pc = "wait" => srv[m].pc = "ok"

LEMMA OwesFrame ==
  ASSUME NoneNew
  PROVE  \A k, m \in Node : Owes(k, m)' => Owes(k, m)
  BY DEF NoneNew, Owes, Promised

LEMMA AllQuiet ==
  ASSUME NoneNew, UNCHANGED <<store, allow>>
  PROVE  \A k \in Node : QuietAt(k)
  <1>1. told' \subseteq told
    BY DEF NoneNew
  <1> QED
    BY <1>1, OwesFrame DEF QuietAt

LEMMA RevokedFrame ==
  ASSUME RevokedNeverPairs,
         \A n \in Node : srv'[n].late /\ srv'[n].pc \in {"save", "grant"}
                           => srv[n].late /\ srv[n].pc \in {"save", "grant"}
  PROVE  RevokedNeverPairs'
  BY DEF RevokedNeverPairs

LEMMA DialKeeps ==
  ASSUME FullInv, NEW n \in Node, NEW o \in Offer, NEW binds \in BOOLEAN,
         Dial(n, o, Nick[By[o]], binds)
  PROVE  FullInv'
  <1> DEFINE name == Nick[By[o]]
             p == [pc |-> "wait", offer |-> o, name |-> name, cut |-> FALSE]
             s == [IdleSrv EXCEPT !.pc = "hello", !.offer = o,
                                  !.user = IF binds THEN Person[n] ELSE NoPerson,
                                  !.late = binds /\ Person[n] \in revoked[By[o]]]
             T == {<<"pair", n>>, <<"srv", n>>}
  <1>0. PairTypeOK /\ ShapeInv /\ RevokedNeverPairs
    BY DEF FullInv
  <1>1. PairTypeOK' /\ ShapeInv'
    BY <1>0, DialTyped, DialShape, Zenon
  <1>2. /\ pair' = [pair EXCEPT ![n] = p] /\ srv' = [srv EXCEPT ![n] = s]
        /\ UNCHANGED <<store, allow, op, told, raced>> /\ stale' = stale \ T
        /\ Kind[o] = "pair" => ~Taken(n, name, By[o])
    BY DEF Dial
  <1>3. p.pc = "wait" /\ p.offer = o /\ p.name = name /\ s.pc = "hello" /\ s.offer = o
    BY DEF IdleSrv
  <1> HIDE DEF p, s
  <1>4. /\ pair'[n] = p /\ srv'[n] = s
        /\ \A m \in Node : m # n => pair'[m] = pair[m] /\ srv'[m] = srv[m]
    BY <1>0, <1>2 DEF PairTypeOK
  <1>5. NoneNew
    BY <1>2, <1>3, <1>4 DEF NoneNew
  <1>6. \A k \in Node : QuietAt(k)
    BY <1>2, <1>5, AllQuiet
  <1>7. PairFresh(n)'
    BY <1>2, <1>3, <1>4, TakenFrame DEF PairFresh
  <1>8. SrvFresh(n)'
    BY <1>3, <1>4 DEF SrvFresh
  <1>9. FreshInv' /\ \A m \in Node : NodeInv(m)'
    <2>1. \A m \in Node : /\ <<"pair", m>> \in T <=> m = n
                          /\ <<"srv", m>> \in T <=> m = n
                          /\ <<"op", m>> \notin T
      OBVIOUS
    <2> HIDE DEF T
    <2> QED
      BY <1>2, <1>4, <1>6, <1>7, <1>8, <2>1, StepKeeps
  <1>10. RevokedNeverPairs'
    BY <1>0, <1>3, <1>4, RevokedFrame
  <1> QED
    BY <1>1, <1>9, <1>10 DEF FullInv

(* Steps in which a thread goes idle, and no other moves. *)
LEMMA IdleKeeps ==
  ASSUME FullInv, PairTypeOK', ShapeInv', UNCHANGED <<store, allow, told, stale, raced>>,
         \A k \in Node : op'[k].pc = "idle" \/ op'[k] = op[k],
         \A m \in Node : /\ srv'[m] = srv[m] \/ srv'[m] = IdleSrv
                         /\ \/ pair'[m] = IdlePair
                            \/ pair'[m] = pair[m] /\ (pair[m].pc = "wait" => srv'[m] = srv[m])
  PROVE  FullInv'
  <1>0. RevokedNeverPairs
    BY DEF FullInv
  <1>1. NoneNew
    BY PairingTyped DEF NoneNew
  <1>2. \A k \in Node : QuietAt(k)
    BY <1>1, AllQuiet
  <1>3. FreshInv' /\ \A m \in Node : NodeInv(m)'
    <2> DEFINE T == {}
    <2>1. \A x : x \notin T
      OBVIOUS
    <2> HIDE DEF T
    <2>2. \A m \in Node : pair'[m].pc = "idle" \/ pair'[m] = pair[m]
      BY PairingTyped
    <2>3. \A m \in Node : srv'[m].pc = "idle" \/ srv'[m] = srv[m]
      BY PairingTyped
    <2> QED
      BY <1>2, <2>1, <2>2, <2>3, StepKeeps
  <1>4. RevokedNeverPairs'
    BY <1>0, PairingTyped, RevokedFrame
  <1> QED
    BY <1>3, <1>4 DEF FullInv

LEMMA LostKeeps ==
  ASSUME FullInv, NEW n \in Node, Lost(n)
  PROVE  FullInv'
  <1>1. PairTypeOK' /\ ShapeInv'
    BY LostTyped, LostShape DEF FullInv
  <1>2. /\ UNCHANGED <<store, allow, told, stale, raced, op, srv>>
        /\ \A m \in Node : pair'[m] = IdlePair \/ pair'[m] = pair[m]
    BY DEF Lost, FullInv, PairTypeOK
  <1> QED
    BY <1>1, <1>2, IdleKeeps

LEMMA ClosedKeeps ==
  ASSUME FullInv, NEW n \in Node, Closed(n)
  PROVE  FullInv'
  <1>1. PairTypeOK' /\ ShapeInv'
    BY ClosedTyped, ClosedShape DEF FullInv
  <1> DEFINE y == IF pair[n].pc = "wait" THEN IdlePair ELSE pair[n]
  <1>2. /\ UNCHANGED <<store, allow, told, stale, raced, op>> /\ srv' = [srv EXCEPT ![n] = IdleSrv]
        /\ pair' = [pair EXCEPT ![n] = y]
    BY DEF Closed
  <1>3. y = IdlePair \/ (y = pair[n] /\ pair[n].pc # "wait")
    OBVIOUS
  <1> HIDE DEF y
  <1>4. /\ \A m \in Node : m # n => pair'[m] = pair[m] /\ srv'[m] = srv[m]
        /\ srv'[n] = IdleSrv /\ pair'[n] = y
    BY <1>2 DEF FullInv, PairTypeOK
  <1> QED
    BY <1>1, <1>2, <1>3, <1>4, IdleKeeps

LEMMA OpAbortedKeeps ==
  ASSUME FullInv, NEW n \in Node, OpAborted(n)
  PROVE  FullInv'
  <1>1. PairTypeOK' /\ ShapeInv'
    BY OpAbortedTyped, OpAbortedShape DEF FullInv
  <1>2. UNCHANGED <<store, allow, told, stale, raced, pair, srv>> /\ op' = [op EXCEPT ![n] = IdleOp]
    BY DEF OpAborted
  <1>3. \A k \in Node : op'[k].pc = "idle" \/ op'[k] = op[k]
    BY <1>2, OpIdle DEF FullInv
  <1> QED
    BY <1>1, <1>2, <1>3, IdleKeeps

LEMMA StopKeeps ==
  ASSUME FullInv, NEW n \in Node, Stop(n)
  PROVE  FullInv'
  <1>0. PairTypeOK /\ ShapeInv
    BY DEF FullInv
  <1>1. PairTypeOK' /\ ShapeInv'
    BY <1>0, StopTyped, StopShape
  <1>2. \A k \in Node : op'[k].pc = "idle" \/ op'[k] = op[k]
    BY <1>0, StopIs, OpIdle
  <1> QED
    BY <1>0, <1>1, <1>2, StopIs, IdleKeeps

LEMMA HearKeeps ==
  ASSUME FullInv, NEW n \in Node, Hear(n)
  PROVE  FullInv'
  <1> DEFINE r == pair[n]
             x == [r EXCEPT !.pc = "save"]
             T == {<<"pair", n>>}
  <1>0. PairTypeOK /\ ShapeInv /\ RevokedNeverPairs /\ PairFresh(n)
    BY DEF FullInv, FreshInv
  <1>1. PairTypeOK' /\ ShapeInv'
    BY <1>0, HearTyped, HearShape
  <1>2. /\ x.pc = "save" /\ x.offer = r.offer /\ x.name = r.name /\ (x.cut <=> r.cut)
    <2>1. r \in Pairs
      BY <1>0 DEF PairTypeOK
    <2> HIDE DEF r
    <2> QED
      BY <2>1 DEF Pairs
  <1>3. /\ pair[n].pc = "wait" /\ srv[n].pc = "ok" /\ srv' = [srv EXCEPT ![n] = IdleSrv]
        /\ \E y \in {x, IdlePair} : pair' = [pair EXCEPT ![n] = y]
        /\ UNCHANGED <<store, allow, op, told, stale, raced>>
    BY DEF Hear
  <1> HIDE DEF x
  <1>4. /\ srv'[n] = IdleSrv /\ pair'[n] \in {x, IdlePair}
        /\ \A m \in Node : m # n => pair'[m] = pair[m] /\ srv'[m] = srv[m]
    BY <1>0, <1>3 DEF PairTypeOK
  <1>5. NoneNew
    BY <1>2, <1>3, <1>4, PairingTyped DEF NoneNew
  <1>6. \A k \in Node : QuietAt(k)
    BY <1>3, <1>5, AllQuiet
  <1>7. PairFresh(n)'
    BY <1>0, <1>2, <1>3, <1>4, PairingTyped, TakenFrame DEF PairFresh, Fresh
  <1>8. FreshInv' /\ \A m \in Node : NodeInv(m)'
    <2>1. \A m \in Node : /\ <<"pair", m>> \in T <=> m = n
                          /\ <<"srv", m>> \notin T /\ <<"op", m>> \notin T
      OBVIOUS
    <2> HIDE DEF T
    <2> QED
      BY <1>3, <1>4, <1>6, <1>7, <2>1, PairingTyped, StepKeeps
  <1>9. RevokedNeverPairs'
    BY <1>0, <1>4, PairingTyped, RevokedFrame
  <1> QED
    BY <1>1, <1>8, <1>9 DEF FullInv

(* Steps of a handler that neither promise nor write anything. *)
LEMMA HandlerKeeps ==
  ASSUME FullInv, PairTypeOK', ShapeInv', UNCHANGED <<store, allow, told, stale, raced, pair, op>>,
         NEW n \in Node, \A m \in Node : m # n => srv'[m] = srv[m],
         srv'[n].pc \notin {"save", "grant"},
         srv'[n].pc = "ok" => Kind[srv[n].offer] # "pair"
  PROVE  FullInv'
  <1>0. ShapeInv /\ RevokedNeverPairs
    BY DEF FullInv
  <1>1. NoneNew
    BY <1>0 DEF NoneNew, ShapeInv, PairShape
  <1>2. \A k \in Node : QuietAt(k)
    BY <1>1, AllQuiet
  <1>3. FreshInv' /\ \A m \in Node : NodeInv(m)'
    <2> DEFINE T == {}
    <2>1. \A x : x \notin T
      OBVIOUS
    <2> HIDE DEF T
    <2> QED
      BY <1>2, <2>1, StepKeeps
  <1>4. RevokedNeverPairs'
    BY <1>0, RevokedFrame
  <1> QED
    BY <1>3, <1>4 DEF FullInv

LEMMA PreCheckKeeps ==
  ASSUME FullInv, NEW n \in Node, PreCheck(n)
  PROVE  FullInv'
  <1>0. PairTypeOK /\ ShapeInv
    BY DEF FullInv
  <1>1. PairTypeOK' /\ ShapeInv'
    BY <1>0, PreCheckTyped, PreCheckShape
  <1>2. PICK pc \in {"no", "burn"} : Answer(n, pc)
    BY DEF PreCheck
  <1>3. srv'[n].pc = pc /\ \A m \in Node : m # n => srv'[m] = srv[m]
    BY <1>0, <1>2, AnswerIs
  <1>4. UNCHANGED <<store, allow, told, stale, raced, pair, op>>
    BY DEF PreCheck
  <1> QED
    BY <1>1, <1>3, <1>4, HandlerKeeps

LEMMA BurnKeeps ==
  ASSUME FullInv, NEW n \in Node, Burn(n)
  PROVE  FullInv'
  <1>0. PairTypeOK /\ ShapeInv /\ SrvShape(n)
    BY DEF FullInv, ShapeInv
  <1>1. PairTypeOK' /\ ShapeInv'
    BY <1>0, BurnTyped, BurnShape
  <1>a. left[srv[n].offer] \in Nat
    BY <1>0 DEF SrvShape, Burn, PairTypeOK
  <1>2. PICK pc \in {"no", "ok", "check"} : Answer(n, pc) /\ (pc = "ok" => Kind[srv[n].offer] # "pair")
    BY <1>a DEF Burn
  <1>3. srv'[n].pc = pc /\ \A m \in Node : m # n => srv'[m] = srv[m]
    BY <1>0, <1>2, AnswerIs
  <1>4. UNCHANGED <<store, allow, told, stale, raced, pair, op>>
    BY DEF Burn
  <1> QED
    BY <1>1, <1>2, <1>3, <1>4, HandlerKeeps

LEMMA GrantFailsKeeps ==
  ASSUME FullInv, NEW n \in Node, GrantFails(n)
  PROVE  FullInv'
  <1>0. PairTypeOK /\ ShapeInv
    BY DEF FullInv
  <1>1. PairTypeOK' /\ ShapeInv'
    BY <1>0, GrantFailsTyped, GrantShape
  <1>2. Answer(n, "no") /\ UNCHANGED <<store, allow, told, stale, raced, pair, op>>
    BY DEF GrantFails
  <1>3. srv'[n].pc = "no" /\ \A m \in Node : m # n => srv'[m] = srv[m]
    BY <1>0, <1>2, AnswerIs
  <1> QED
    BY <1>1, <1>2, <1>3, HandlerKeeps

(* Check: the name is free, or the row there; a revoked identity ends here. *)
LEMMA CheckKeeps ==
  ASSUME FullInv, NEW n \in Node, Check(n)
  PROVE  FullInv'
  <1> DEFINE i == By[srv[n].offer]
             T == {<<"srv", n>>}
  <1>0. PairTypeOK /\ ShapeInv /\ RevokedNeverPairs /\ LateShape(n) /\ srv[n].pc = "check"
    BY CheckIs DEF FullInv, ShapeInv
  <1>1. PairTypeOK' /\ ShapeInv'
    BY <1>0, CheckTyped, CheckShape DEF ShapeInv
  <1>2. /\ UNCHANGED <<store, allow, told, raced, pair, op, revoked>>
        /\ \A m \in Node : m # n => srv'[m] = srv[m]
        /\ srv'[n].pc \in {"no", "save"} /\ srv'[n].offer = srv[n].offer
        /\ srv'[n].late <=> srv[n].late
    BY <1>0, CheckIs
  <1>3. stale' = stale \ T
    BY DEF Check, Reads
  <1>4. srv'[n].pc = "save" => /\ srv'[n].entry = Entry(n) /\ ~Collides(n)
                               /\ Entry(n).user \notin revoked[i]
    BY <1>0, CheckIs
  <1>5. NoneNew
    BY <1>2 DEF NoneNew
  <1>6. \A k \in Node : QuietAt(k)
    BY <1>2, <1>5, AllQuiet
  <1>7. SrvFresh(n)'
    <2> SUFFICES ASSUME srv'[n].pc = "save"
                 PROVE  SrvFresh(n)'
      BY <1>2 DEF SrvFresh
    <2>1. /\ i \in Node
          /\ store[i][n] = NoRow => Entry(n).nick = Claimed(n)
          /\ store[i][n] # NoRow =>
              /\ Entry(n).nick = store[i][n].nick /\ (Entry(n).checked => store[i][n].checked)
              /\ Entry(n).dials = store[i][n].dials
              /\ store[i][n].user # NoPerson => Entry(n).user = store[i][n].user
      BY <1>0, EntryIs
    <2>2. store[i][n] = NoRow => ~Taken(i, Claimed(n), n)
      BY <1>4 DEF Collides, Rows
    <2>3. \A name : Taken(i, name, n)' <=> Taken(i, name, n)
      BY <1>2, <2>1, TakenFrame
    <2> QED
      BY <1>2, <1>4, <2>1, <2>2, <2>3 DEF SrvFresh
  <1>8. FreshInv' /\ \A m \in Node : NodeInv(m)'
    <2>1. \A m \in Node : /\ <<"srv", m>> \in T <=> m = n
                          /\ <<"pair", m>> \notin T /\ <<"op", m>> \notin T
      OBVIOUS
    <2> HIDE DEF T
    <2> QED
      BY <1>2, <1>3, <1>6, <1>7, <2>1, StepKeeps
  <1>9. RevokedNeverPairs'
    <2>1. srv[n].late => srv'[n].pc # "save"
      <3> SUFFICES ASSUME srv[n].late, srv'[n].pc = "save" PROVE FALSE
        OBVIOUS
      <3>1. i \in Node /\ revoked[i] \subseteq Node \cup People
        BY <1>0, EntryIs, PairingFields
      <3>2. srv[n].user \in revoked[i] /\ srv[n].user # NoPerson
        BY <1>0, <3>1, PairingAssumption DEF LateShape, People
      <3>3. Entry(n).user = srv[n].user
        BY <1>0, <3>2, EntryIs
      <3> QED
        BY <1>4, <3>2, <3>3
    <2> QED
      BY <1>0, <1>2, <2>1, RevokedFrame
  <1> QED
    BY <1>1, <1>8, <1>9 DEF FullInv

LEMMA PeerRevokeKeeps ==
  ASSUME FullInv, NEW n \in Node, NEW p \in Node \cup People, PeerRevoke(n, p)
  PROVE  FullInv'
  <1>1. PairTypeOK' /\ ShapeInv'
    BY PeerRevokeTyped, PeerRevokeShape DEF FullInv
  <1>2. UNCHANGED <<store, allow, told, stale, raced, pair, op, srv>>
    BY DEF PeerRevoke
  <1> QED
    BY <1>1, <1>2, IdleKeeps

LEMMA PeerUnrevokeKeeps ==
  ASSUME FullInv, NEW n \in Node, NEW p \in Node \cup People, PeerUnrevoke(n, p)
  PROVE  FullInv'
  <1>0. PairTypeOK /\ ShapeInv /\ RevokedNeverPairs
    BY DEF FullInv
  <1>1. PairTypeOK' /\ ShapeInv'
    BY <1>0, PeerUnrevokeTyped, PeerUnrevokeShape
  <1>2. UNCHANGED <<store, allow, told, stale, raced, pair, op>>
    BY DEF PeerUnrevoke
  <1>3. \A m \in Node : /\ srv'[m].pc = srv[m].pc /\ srv'[m].offer = srv[m].offer
                        /\ srv'[m].entry = srv[m].entry /\ (srv'[m].late => srv[m].late)
    BY <1>0, UnrevokeIs
  <1>4. NoneNew
    BY <1>2, <1>3 DEF NoneNew
  <1>5. \A k \in Node : QuietAt(k)
    BY <1>2, <1>4, AllQuiet
  <1>6. FreshInv' /\ \A m \in Node : NodeInv(m)'
    <2> DEFINE T == {}
    <2>1. \A x : x \notin T
      OBVIOUS
    <2> HIDE DEF T
    <2> QED
      BY <1>2, <1>3, <1>5, <2>1, StepKeeps
  <1>7. RevokedNeverPairs'
    BY <1>0, <1>3, RevokedFrame
  <1> QED
    BY <1>1, <1>6, <1>7 DEF FullInv

(* The first half of a verb: it reads the store and writes nothing. *)
LEMMA VerbKeeps ==
  ASSUME FullInv, PairTypeOK', ShapeInv', NEW n \in Node,
         UNCHANGED <<store, allow, told, raced, pair, srv>>, Reads(<<"op", n>>),
         \A k \in Node : k # n => op'[k] = op[k], OpFresh(n)'
  PROVE  FullInv'
  <1> DEFINE T == {<<"op", n>>}
  <1>0. RevokedNeverPairs
    BY DEF FullInv
  <1>1. NoneNew
    BY DEF NoneNew
  <1>2. \A k \in Node : QuietAt(k)
    BY <1>1, AllQuiet
  <1>3. stale' = stale \ T
    BY DEF Reads
  <1>4. FreshInv' /\ \A m \in Node : NodeInv(m)'
    <2>1. \A m \in Node : /\ <<"op", m>> \in T <=> m = n
                          /\ <<"pair", m>> \notin T /\ <<"srv", m>> \notin T
      OBVIOUS
    <2> HIDE DEF T
    <2> QED
      BY <1>2, <1>3, <2>1, StepKeeps
  <1>5. RevokedNeverPairs'
    BY <1>0, RevokedFrame
  <1> QED
    BY <1>4, <1>5 DEF FullInv

LEMMA PeerRenameKeeps ==
  ASSUME FullInv, NEW n \in Node, NEW who, NEW to \in Name, PeerRename(n, who, to)
  PROVE  FullInv'
  <1>0. PairTypeOK /\ ShapeInv /\ NodeInv(n)
    BY DEF FullInv
  <1>1. PairTypeOK' /\ ShapeInv'
    BY <1>0, PeerRenameTyped, PeerRenameShape
  <1>2. /\ UNCHANGED <<store, allow, told, raced, pair, srv>> /\ Reads(<<"op", n>>)
        /\ \A m \in Node : store[n][m] # NoRow /\ m \notin Named(n, who) => store[n][m].nick # to
    BY RenameCases DEF Rows
  <1>3. /\ \A k \in Node : k # n => op'[k] = op[k]
        /\ op'[n].pc = "rename" /\ op'[n].name = to
    BY <1>0, PeerRenameIs
  <1>4. ASSUME NEW m \in Node, op'[n].rows[m] # NoRow
        PROVE  /\ m \in Named(n, who) /\ store[n][m] # NoRow
               /\ op'[n].rows[m].user = store[n][m].user
               /\ (op'[n].rows[m].paired <=> store[n][m].paired)
               /\ op'[n].rows[m].dials = store[n][m].dials
               /\ op'[n].rows[m].checked => store[n][m].checked \/ who \in People \/ Named(n, who) = {m}
    BY <1>0, <1>4, PeerRenameIs
  <1>5. \A m \in Node : m \in Named(n, who) => op'[n].rows[m] # NoRow
    BY <1>0, PeerRenameIs
  <1>6. ASSUME n \notin raced, NEW m \in Node, NEW k \in Node, m # k,
               op'[n].rows[m] # NoRow, op'[n].rows[k] # NoRow,
               op'[n].rows[m].checked, op'[n].rows[k].checked
        PROVE  op'[n].rows[m].user = op'[n].rows[k].user /\ op'[n].rows[m].user # NoPerson
    <2>1. m \in Named(n, who) /\ k \in Named(n, who)
      BY <1>4, <1>6
    <2>2. Named(n, who) # {m} /\ Named(n, who) # {k}
      BY <2>1, <1>6
    <2>3. CASE who \in People
      <3>1. store[n][m].user = who /\ store[n][k].user = who /\ who # NoPerson
        BY <2>1, <2>3 DEF Named, People
      <3> QED
        BY <1>4, <1>6, <3>1
    <2>4. CASE who \notin People
      <3>1. store[n][m].nick = who /\ store[n][k].nick = who
        BY <2>1, <2>4 DEF Named
      <3>2. store[n][m].checked /\ store[n][k].checked
        BY <1>4, <1>6, <2>2, <2>4
      <3> QED
        BY <1>0, <1>4, <1>6, <3>1, <3>2 DEF NodeInv, NamesAt
    <2> QED
      BY <2>3, <2>4
  <1>7. RenameFresh(n)'
    BY <1>2, <1>3, <1>4, <1>5, <1>6 DEF RenameFresh
  <1>8. OpFresh(n)'
    BY <1>3, <1>7 DEF OpFresh
  <1> QED
    BY <1>1, <1>2, <1>3, <1>8, VerbKeeps

LEMMA PeerIntroduceKeeps ==
  ASSUME FullInv, NEW n \in Node, NEW m \in Node, NEW name \in Name, Introduces(n, m, name)
  PROVE  FullInv'
  <1>0. PairTypeOK /\ ShapeInv
    BY DEF FullInv
  <1>1. PairTypeOK' /\ ShapeInv'
    <2>1. PICK binds \in BOOLEAN : PeerIntroduce(n, m, name, binds)
      BY DEF Introduces
    <2>2. PairTypeOK'
      BY <1>0, <2>1, PeerIntroduceTyped, Zenon
    <2> QED
      BY <1>0, <2>2, PeerIntroduceShape
  <1>2. /\ UNCHANGED <<store, allow, told, raced, pair, srv>> /\ Reads(<<"op", n>>)
        /\ \A k \in Node : k # n => op'[k] = op[k]
        /\ op'[n].pc = "introduce" /\ ~Taken(n, name, m)
        /\ store[n][m] # NoRow => ~store[n][m].paired
    BY <1>0, PeerIntroduceIs
  <1>3. \A k \in Node : op'[n].rows[k] # NoRow => k = m /\ IntroducedAs(op'[n].rows[k], m, name)
    BY <1>0, PeerIntroduceIs
  <1>4. ~Taken(n, name, m)'
    BY <1>2, TakenFrame
  <1>5. IntroduceFresh(n)'
    BY <1>2, <1>3, <1>4 DEF IntroduceFresh, IntroducedAs
  <1>6. OpFresh(n)'
    BY <1>2, <1>5 DEF OpFresh
  <1> QED
    BY <1>1, <1>2, <1>6, VerbKeeps

-----------------------------------------------------------------------------
(* Writes of rows.                                                           *)

(* A row that takes nothing from the one it replaces, nor another's name. *)
Upholds(w, i, r) ==
    /\ store[w][i] # NoRow => /\ store[w][i].user # NoPerson => r.user = store[w][i].user
                              /\ store[w][i].paired => r.paired
    /\ \A k \in Node : /\ k # i /\ store[w][k] # NoRow /\ store[w][k].nick = r.nick
                       /\ r.checked /\ store[w][k].checked
                       => r.user = store[w][k].user /\ r.user # NoPerson

LEMMA NodePut ==
  ASSUME PairTypeOK, NEW w \in Node, NEW i \in Node, NEW r, r # NoRow,
         NodeInv(w), raced \subseteq raced',
         \A j \in Node : store'[w][j] = IF j = i THEN r ELSE store[w][j],
         allow'[w] = allow[w],
         \A m \in Node : Owes(w, m)' => Owes(w, m),
         \A m \in Node : <<w, m>> \in told' => <<w, m>> \in told,
         w \notin raced' => Upholds(w, i, r)
  PROVE  NodeInv(w)'
  <1> SUFFICES ASSUME w \notin raced'
               PROVE  OrphanAt(w)' /\ NamesAt(w)' /\ AdmitsAt(w)' /\ BackAt(w)'
    BY DEF NodeInv
  <1>1. OrphanAt(w) /\ NamesAt(w) /\ AdmitsAt(w) /\ BackAt(w) /\ Upholds(w, i, r)
    BY DEF NodeInv
  <1>2. NoPerson \notin allow[w]
    BY PairingAssumption DEF PairTypeOK, People
  <1>3. OrphanAt(w)'
    <2> SUFFICES ASSUME NEW p \in allow[w]
                 PROVE  \E m \in Node : store'[w][m] # NoRow /\ (p = m \/ p = store'[w][m].user)
      BY DEF OrphanAt
    <2>1. PICK m \in Node : store[w][m] # NoRow /\ (p = m \/ p = store[w][m].user)
      BY <1>1 DEF OrphanAt
    <2>2. store'[w][m] # NoRow /\ (p = m \/ p = store'[w][m].user)
      BY <1>1, <1>2, <2>1 DEF Upholds
    <2> QED
      BY <2>2
  <1>4. NamesAt(w)'
    <2> SUFFICES ASSUME NEW m \in Node, NEW k \in Node, m # k, store'[w][m] # NoRow, store'[w][k] # NoRow,
                        store'[w][m].nick = store'[w][k].nick, store'[w][m].checked, store'[w][k].checked
                 PROVE  store'[w][m].user = store'[w][k].user /\ store'[w][m].user # NoPerson
      BY DEF NamesAt
    <2>1. CASE m # i /\ k # i
      BY <2>1, <1>1 DEF NamesAt
    <2>2. CASE m = i
      BY <2>2, <1>1 DEF Upholds
    <2>3. CASE k = i
      BY <2>3, <1>1 DEF Upholds
    <2> QED
      BY <2>1, <2>2, <2>3
  <1>5. AdmitsAt(w)'
    <2> SUFFICES ASSUME NEW m \in Node, Owes(w, m)' PROVE Admits(w, m)'
      BY DEF AdmitsAt
    <2>1. Admits(w, m)
      BY <1>1 DEF AdmitsAt
    <2> QED
      BY <1>1, <1>2, <2>1 DEF Admits, Upholds
  <1>6. BackAt(w)'
    BY <1>1 DEF BackAt
  <1> QED
    BY <1>3, <1>4, <1>5, <1>6

LEMMA QuietElsewhere ==
  ASSUME NoneNew, NEW k \in Node, \A j \in Node : store'[k][j] = store[k][j], allow'[k] = allow[k]
  PROVE  QuietAt(k)
  <1>1. told' \subseteq told
    BY DEF NoneNew
  <1> QED
    BY <1>1, OwesFrame DEF QuietAt

(* One row of one node is written, by thread t. *)
LEMMA PutKeeps ==
  ASSUME FullInv, PairTypeOK', ShapeInv', NEW w \in Node, NEW i \in Node, NEW r, r # NoRow,
         NEW T, Marked(w, T), stale \subseteq stale', raced \subseteq raced', NoneNew,
         \A k, j \in Node : store'[k][j] = IF k = w /\ j = i THEN r ELSE store[k][j],
         UNCHANGED allow,
         w \notin raced' => Upholds(w, i, r),
         \A n \in Node : <<"pair", n>> \in T \/ pair'[n] = pair[n],
         \A n \in Node : <<"srv", n>> \in T \/ srv'[n] = srv[n],
         \A n \in Node : <<"op", n>> \in T \/ op'[n] = op[n],
         \A n \in Node : /\ <<"pair", n>> \in T => PairFresh(n)'
                         /\ <<"srv", n>> \in T => SrvFresh(n)'
                         /\ <<"op", n>> \in T => OpFresh(n)',
         \A n \in Node : srv'[n].late /\ srv'[n].pc \in {"save", "grant"}
                           => srv[n].late /\ srv[n].pc \in {"save", "grant"}
  PROVE  FullInv'
  <1>1. \A m \in Node : Owes(w, m)' => Owes(w, m)
    BY OwesFrame
  <1>2. NodeInv(w)'
    <2>1. PairTypeOK /\ NodeInv(w) /\ told' \subseteq told
      BY DEF FullInv, NoneNew
    <2>2. \A j \in Node : store'[w][j] = IF j = i THEN r ELSE store[w][j]
      OBVIOUS
    <2> QED
      BY <1>1, <2>1, <2>2, NodePut
  <1>3. \A k \in Node : k # w => QuietAt(k)
    BY QuietElsewhere
  <1>4. \A k \in Node : QuietAt(k) \/ (Marked(k, T) /\ NodeInv(k)')
    BY <1>2, <1>3
  <1>5. FreshInv' /\ \A n \in Node : NodeInv(n)'
    BY <1>4, StepKeeps
  <1>6. RevokedNeverPairs'
    BY RevokedFrame DEF FullInv
  <1> QED
    BY <1>5, <1>6 DEF FullInv

(* The redeemer's row: a name the dial found free, or the row's own. *)
LEMMA SaveBackUpholds ==
  ASSUME FullInv, NEW n \in Node, SaveBack(n), n \notin raced'
  PROVE  LET i == By[pair[n].offer] IN
         /\ Upholds(n, i, BackRow(n))
         /\ store[n][i] # NoRow => store[n][i].dials \subseteq BackRow(n).dials
  <1> DEFINE o == pair[n].offer
             i == By[o]
             old == store[n][i]
             r == BackRow(n)
  <1>0. PairTypeOK /\ ShapeInv /\ NodeInv(n) /\ PairFresh(n) /\ PairShape(n)
    BY DEF FullInv, FreshInv, ShapeInv
  <1>1. pair[n].pc = "save" /\ Writes(n, <<"pair", n>>)
    BY <1>0, SaveBackIs
  <1>2. Fresh("pair", n) /\ n \notin raced
    BY <1>1, WritesMarks DEF Fresh
  <1>3. /\ o \in Offer /\ i \in Node /\ r.paired
        /\ Kind[o] = "pair" \/ old = NoRow => r.nick = pair[n].name
        /\ Kind[o] # "pair" /\ old = NoRow => ~r.checked
        /\ old # NoRow => old.dials \subseteq r.dials
        /\ old # NoRow /\ Kind[o] = "attest" => r.nick = old.nick
        /\ old # NoRow /\ Kind[o] # "pair" => (r.checked => old.checked)
        /\ old # NoRow /\ old.user # NoPerson => r.user = old.user
    BY <1>0, <1>1, BackRowIs
  <1>4. Kind[o] \in {"pair", "attest"}
    BY <1>0, <1>1, <1>3, PairingAssumption DEF PairShape
  <1>5. Kind[o] = "pair" => \A k \in Node : k # i /\ store[n][k] # NoRow => store[n][k].nick # r.nick
    BY <1>0, <1>1, <1>2, <1>3 DEF PairFresh, Taken, Rows
  <1>6. NamesAt(n)
    BY <1>0, <1>2 DEF NodeInv
  <1>7. ASSUME NEW k \in Node, k # i, store[n][k] # NoRow, store[n][k].nick = r.nick,
               r.checked, store[n][k].checked
        PROVE  r.user = store[n][k].user /\ r.user # NoPerson
    <2>1. Kind[o] = "attest" /\ old # NoRow
      BY <1>3, <1>4, <1>5, <1>7
    <2>2. r.nick = old.nick /\ old.checked
      BY <1>3, <1>7, <2>1
    <2>3. old.user = store[n][k].user /\ old.user # NoPerson
      BY <1>3, <1>6, <1>7, <2>1, <2>2 DEF NamesAt
    <2> QED
      BY <1>3, <2>1, <2>3
  <1> HIDE DEF r
  <1> QED
    BY <1>3, <1>7 DEF Upholds, r

LEMMA SaveBackKeeps ==
  ASSUME FullInv, NEW n \in Node, SaveBack(n)
  PROVE  FullInv'
  <1> DEFINE i == By[pair[n].offer]
             T == {<<"pair", n>>}
  <1>0. PairTypeOK /\ ShapeInv /\ PairShape(n)
    BY DEF FullInv, ShapeInv
  <1>1. PairTypeOK' /\ ShapeInv'
    BY <1>0, SaveBackTyped, SaveBackShape
  <1>2. /\ pair[n].pc = "save" /\ UNCHANGED <<allow, srv, op, told>> /\ Writes(n, <<"pair", n>>)
        /\ \A m \in Node : m # n => pair'[m] = pair[m]
    BY <1>0, SaveBackIs
  <1>3. \A k, j \in Node : store'[k][j] = IF k = n /\ j = i THEN BackRow(n) ELSE store[k][j]
    BY <1>0, SaveBackIs
  <1>4. \/ /\ pair'[n].pc = "back" /\ pair'[n].offer = pair[n].offer /\ (pair'[n].cut <=> pair[n].cut)
        \/ pair'[n].pc = "idle"
    BY <1>0, SaveBackIs, PairingTyped
  <1>5. /\ i \in Node /\ BackRow(n) # NoRow
        /\ Person[i] # NoPerson => BackRow(n).user = Person[i]
    BY <1>0, <1>2, BackRowIs
  <1>6. NoneNew
    BY <1>2, <1>4 DEF NoneNew
  <1>7. PairFresh(n)'
    BY <1>3, <1>4, <1>5 DEF PairFresh
  <1>8. Marked(n, T) /\ stale \subseteq stale' /\ raced \subseteq raced'
    BY <1>2, WritesMarks
  <1>9. n \notin raced' => Upholds(n, i, BackRow(n))
    BY SaveBackUpholds
  <1>10. \A m \in Node : /\ <<"pair", m>> \in T <=> m = n
                         /\ <<"srv", m>> \notin T /\ <<"op", m>> \notin T
    OBVIOUS
  <1> DEFINE r == BackRow(n)
  <1> HIDE DEF T, i, r
  <1>11. /\ \A m \in Node : <<"pair", m>> \in T \/ pair'[m] = pair[m]
         /\ \A m \in Node : <<"srv", m>> \in T \/ srv'[m] = srv[m]
         /\ \A m \in Node : <<"op", m>> \in T \/ op'[m] = op[m]
    BY <1>2, <1>10
  <1>12. \A m \in Node : /\ <<"pair", m>> \in T => PairFresh(m)'
                         /\ <<"srv", m>> \in T => SrvFresh(m)'
                         /\ <<"op", m>> \in T => OpFresh(m)'
    BY <1>7, <1>10
  <1>13. \A m \in Node : srv'[m].late /\ srv'[m].pc \in {"save", "grant"}
                           => srv[m].late /\ srv[m].pc \in {"save", "grant"}
    BY <1>2
  <1>14. /\ r # NoRow /\ (n \notin raced' => Upholds(n, i, r)) /\ UNCHANGED allow /\ i \in Node
         /\ \A k, j \in Node : store'[k][j] = IF k = n /\ j = i THEN r ELSE store[k][j]
    BY <1>2, <1>3, <1>5, <1>9 DEF r
  <1> QED
    BY <1>1, <1>6, <1>8, <1>11, <1>12, <1>13, <1>14, PutKeeps

(* The inviter's row: as Check found it, for the store has not changed since. *)
LEMMA SaveUpholds ==
  ASSUME FullInv, NEW n \in Node, Save(n), By[srv[n].offer] \notin raced'
  PROVE  Upholds(By[srv[n].offer], n, srv[n].entry)
  <1> DEFINE i == By[srv[n].offer]
             e == srv[n].entry
             old == store[i][n]
  <1>0. PairTypeOK /\ ShapeInv /\ SrvFresh(n) /\ SrvShape(n) /\ srv[n].pc = "save"
    BY DEF FullInv, FreshInv, ShapeInv, Save
  <1>1. i \in Node /\ e.paired
    BY <1>0, PairingAssumption DEF SrvShape
  <1>2. Writes(i, <<"srv", n>>)
    BY DEF Save
  <1>3. Fresh("srv", n) /\ i \notin raced
    BY <1>1, <1>2, WritesMarks DEF Fresh
  <1>4. /\ old = NoRow => ~Taken(i, e.nick, n)
        /\ old # NoRow =>
             /\ e.nick = old.nick /\ (e.checked => old.checked)
             /\ old.user # NoPerson => e.user = old.user
    BY <1>0, <1>3 DEF SrvFresh
  <1>5. NamesAt(i)
    BY <1>1, <1>3 DEF FullInv, NodeInv
  <1> HIDE DEF i, e
  <1>6. ASSUME NEW k \in Node, k # n, store[i][k] # NoRow, store[i][k].nick = e.nick,
               e.checked, store[i][k].checked
        PROVE  e.user = store[i][k].user /\ e.user # NoPerson
    <2>1. old # NoRow
      BY <1>4, <1>6 DEF Taken, Rows
    <2> QED
      BY <1>4, <1>5, <1>6, <2>1 DEF NamesAt
  <1>7. Upholds(i, n, e)
    BY <1>1, <1>4, <1>6 DEF Upholds
  <1> QED
    BY <1>7 DEF i, e

LEMMA SaveKeeps ==
  ASSUME FullInv, NEW n \in Node, Save(n)
  PROVE  FullInv'
  <1> DEFINE i == By[srv[n].offer]
             T == {<<"srv", n>>}
  <1>0. PairTypeOK /\ ShapeInv /\ SrvShape(n) /\ srv[n].pc = "save"
    BY DEF FullInv, ShapeInv, Save
  <1>1. PairTypeOK' /\ ShapeInv'
    BY <1>0, SaveTyped, SaveShape
  <1>2. i \in Node /\ srv[n].entry # NoRow
    BY <1>0, PairingAssumption DEF SrvShape
  <1>3. /\ UNCHANGED <<allow, pair, op, told>> /\ Writes(i, <<"srv", n>>)
        /\ Put(i, n, srv[n].entry) /\ Answer(n, "grant")
    BY DEF Save
  <1>4. \A k, j \in Node : store'[k][j] = IF k = i /\ j = n THEN srv[n].entry ELSE store[k][j]
    BY <1>0, <1>2, <1>3, PutIs
  <1>5. /\ \A m \in Node : m # n => srv'[m] = srv[m]
        /\ srv'[n].pc = "grant" /\ srv'[n].offer = srv[n].offer
        /\ (srv'[n].late <=> srv[n].late) /\ srv'[n].entry = srv[n].entry
    BY <1>0, <1>3, AnswerIs
  <1>6. NoneNew
    BY <1>3, <1>5 DEF NoneNew
  <1>7. SrvFresh(n)'
    BY <1>2, <1>4, <1>5 DEF SrvFresh
  <1>8. Marked(i, T) /\ stale \subseteq stale' /\ raced \subseteq raced'
    BY <1>2, <1>3, WritesMarks
  <1>9. i \notin raced' => Upholds(i, n, srv[n].entry)
    BY SaveUpholds
  <1>10. \A m \in Node : /\ <<"srv", m>> \in T <=> m = n
                         /\ <<"pair", m>> \notin T /\ <<"op", m>> \notin T
    OBVIOUS
  <1>11. \A m \in Node : srv'[m].late /\ srv'[m].pc \in {"save", "grant"}
                           => srv[m].late /\ srv[m].pc \in {"save", "grant"}
    BY <1>0, <1>5
  <1> DEFINE r == srv[n].entry
  <1> HIDE DEF T, i, r
  <1>12. /\ \A m \in Node : <<"pair", m>> \in T \/ pair'[m] = pair[m]
         /\ \A m \in Node : <<"srv", m>> \in T \/ srv'[m] = srv[m]
         /\ \A m \in Node : <<"op", m>> \in T \/ op'[m] = op[m]
    BY <1>3, <1>5, <1>10
  <1>13. \A m \in Node : /\ <<"pair", m>> \in T => PairFresh(m)'
                         /\ <<"srv", m>> \in T => SrvFresh(m)'
                         /\ <<"op", m>> \in T => OpFresh(m)'
    BY <1>7, <1>10
  <1>14. /\ r # NoRow /\ (i \notin raced' => Upholds(i, n, r)) /\ UNCHANGED allow /\ i \in Node
         /\ \A k, j \in Node : store'[k][j] = IF k = i /\ j = n THEN r ELSE store[k][j]
    BY <1>2, <1>3, <1>4, <1>9 DEF r
  <1> QED
    BY <1>1, <1>6, <1>8, <1>11, <1>12, <1>13, <1>14, PutKeeps

(* An attestation's row carries the name and the identity of a row there. *)
LEMMA AttestUpholds ==
  ASSUME FullInv, NEW n \in Node, srv[n].pc # "idle", srv[n].user # NoPerson,
         NEW first \in SamePerson(n), By[srv[n].offer] \notin raced
  PROVE  Upholds(By[srv[n].offer], n, AttestedRow(n, first))
  <1> DEFINE i == By[srv[n].offer]
             r == AttestedRow(n, first)
  <1>0. PairTypeOK /\ ShapeInv /\ SrvShape(n)
    BY DEF FullInv, ShapeInv
  <1>1. i \in Node /\ srv[n].user = Person[n]
    BY <1>0, PairingAssumption DEF SrvShape
  <1>2. first \in Node /\ store[i][first] # NoRow /\ store[i][first].user = srv[n].user
    BY DEF SamePerson, Rows
  <1>3. r.nick = store[i][first].nick /\ r.user = srv[n].user /\ r.paired
    BY DEF AttestedRow
  <1>4. r.checked = store[i][first].checked
    BY DEF AttestedRow
  <1>5. NamesAt(i)
    BY <1>1 DEF FullInv, NodeInv
  <1>6. store[i][n] # NoRow => store[i][n].user \in {Person[n], NoPerson}
    BY <1>0, <1>1 DEF ShapeInv, RowFacts, RowOf
  <1> HIDE DEF i, r
  <1>7. ASSUME NEW k \in Node, k # n, store[i][k] # NoRow, store[i][k].nick = r.nick,
               r.checked, store[i][k].checked
        PROVE  r.user = store[i][k].user /\ r.user # NoPerson
    <2>1. CASE k = first
      BY <1>2, <1>3, <2>1
    <2>2. CASE k # first
      BY <1>2, <1>3, <1>4, <1>5, <1>7, <2>2 DEF NamesAt
    <2> QED
      BY <2>1, <2>2
  <1>8. Upholds(i, n, r)
    BY <1>1, <1>3, <1>6, <1>7 DEF Upholds
  <1> QED
    BY <1>8 DEF i, r

LEMMA AttestKeeps ==
  ASSUME FullInv, NEW n \in Node, Attest(n)
  PROVE  FullInv'
  <1> DEFINE i == By[srv[n].offer]
             T == {<<"srv", n>>}
  <1>0. PairTypeOK /\ ShapeInv /\ SrvShape(n) /\ PairShape(n)
    BY DEF FullInv, ShapeInv
  <1>1. PairTypeOK' /\ ShapeInv'
    BY <1>0, AttestTyped, AttestShape
  <1>2. /\ srv[n].pc = "hello" /\ Kind[srv[n].offer] = "attest"
        /\ UNCHANGED <<allow, pair, op, told>>
    BY AttestCases
  <1>3. i \in Node
    BY <1>0, <1>2, PairingAssumption DEF SrvShape
  <1>4. CASE Answer(n, "no") /\ UNCHANGED <<store, stale, raced>>
    <2>1. srv'[n].pc = "no" /\ \A m \in Node : m # n => srv'[m] = srv[m]
      BY <1>0, <1>4, AnswerIs
    <2> QED
      BY <1>1, <1>2, <1>4, <2>1, HandlerKeeps
  <1>5. ASSUME srv[n].user # NoPerson, NEW first \in SamePerson(n), Put(i, n, AttestedRow(n, first)),
               Writes(i, <<"srv", n>>), Answer(n, "ok")
        PROVE  FullInv'
    <2> DEFINE r == AttestedRow(n, first)
    <2>1. \A k, j \in Node : store'[k][j] = IF k = i /\ j = n THEN r ELSE store[k][j]
      BY <1>0, <1>3, <1>5, PutIs
    <2>2. r # NoRow
      <3>1. first \in Node /\ store[i][first] \in Row
        BY <1>0, <1>3, PairingFields DEF SamePerson, Rows
      <3>2. store[i][first].nick \in Name /\ store[i][first].checked \in BOOLEAN
        BY <3>1, PairingTyped
      <3>3. srv[n].user \in People \cup {NoPerson}
        BY <1>0, PairingFields
      <3>4. r \in Row
        BY <3>2, <3>3 DEF AttestedRow, Row
      <3> HIDE DEF r
      <3> QED
        BY <3>4, PairingAssumption
    <2>3. srv'[n].pc = "ok" /\ \A m \in Node : m # n => srv'[m] = srv[m]
      BY <1>0, <1>5, AnswerIs
    <2>4. NoneNew
      BY <1>0, <1>2, <2>3 DEF NoneNew, PairShape
    <2>5. Marked(i, T) /\ stale \subseteq stale' /\ raced \subseteq raced'
      BY <1>3, <1>5, WritesMarks
    <2>6. i \notin raced' => Upholds(i, n, r)
      BY <1>2, <1>5, <2>5, AttestUpholds
    <2>7. \A m \in Node : /\ <<"srv", m>> \in T <=> m = n
                          /\ <<"pair", m>> \notin T /\ <<"op", m>> \notin T
      OBVIOUS
    <2> HIDE DEF T, i, r
    <2>8. /\ \A m \in Node : <<"pair", m>> \in T \/ pair'[m] = pair[m]
          /\ \A m \in Node : <<"srv", m>> \in T \/ srv'[m] = srv[m]
          /\ \A m \in Node : <<"op", m>> \in T \/ op'[m] = op[m]
      BY <1>2, <2>3, <2>7
    <2>9. \A m \in Node : /\ <<"pair", m>> \in T => PairFresh(m)'
                          /\ <<"srv", m>> \in T => SrvFresh(m)'
                          /\ <<"op", m>> \in T => OpFresh(m)'
      BY <2>3, <2>7 DEF SrvFresh
    <2>10. \A m \in Node : srv'[m].late /\ srv'[m].pc \in {"save", "grant"}
                             => srv[m].late /\ srv[m].pc \in {"save", "grant"}
      BY <2>3
    <2> QED
      BY <1>1, <1>2, <1>3, <2>1, <2>2, <2>4, <2>5, <2>6, <2>8, <2>9, <2>10, PutKeeps
  <1> QED
    BY <1>4, <1>5, AttestCases

LEMMA PeerAddKeeps ==
  ASSUME FullInv, NEW n \in Node, NEW m \in Node, NEW name \in Name, PeerAdd(n, m, name)
  PROVE  FullInv'
  <1> DEFINE r == AddedRow(name)
             T == {}
  <1>0. PairTypeOK /\ ShapeInv
    BY DEF FullInv
  <1>1. PairTypeOK' /\ ShapeInv'
    BY <1>0, PeerAddTyped, PeerAddShape
  <1>2. /\ \A k, j \in Node : store'[k][j] = IF k = n /\ j = m THEN r ELSE store[k][j]
        /\ UNCHANGED <<allow, pair, srv, op, told>>
        /\ stale' = stale \cup Busy(n)
    BY <1>0, PeerAddIs
  <1>3. raced' = IF store[n][m] # NoRow THEN raced \cup {n} ELSE raced
    BY <1>0, PeerAddIs DEF Rows
  <1>4. r # NoRow /\ ~r.checked
    BY AddedRowIs
  <1> HIDE DEF r
  <1>5. NoneNew
    BY <1>2 DEF NoneNew
  <1>6. Marked(n, T)
    BY <1>2, BusyMarked
  <1>7. stale \subseteq stale' /\ raced \subseteq raced'
    BY <1>2, <1>3
  <1>8. n \notin raced' => Upholds(n, m, r)
    BY <1>3, <1>4 DEF Upholds
  <1>9. \A x : x \notin T
    OBVIOUS
  <1> HIDE DEF T
  <1>10. /\ \A k \in Node : <<"pair", k>> \in T \/ pair'[k] = pair[k]
         /\ \A k \in Node : <<"srv", k>> \in T \/ srv'[k] = srv[k]
         /\ \A k \in Node : <<"op", k>> \in T \/ op'[k] = op[k]
    BY <1>2
  <1>11. \A k \in Node : /\ <<"pair", k>> \in T => PairFresh(k)'
                         /\ <<"srv", k>> \in T => SrvFresh(k)'
                         /\ <<"op", k>> \in T => OpFresh(k)'
    BY <1>9
  <1>12. \A k \in Node : srv'[k].late /\ srv'[k].pc \in {"save", "grant"}
                           => srv[k].late /\ srv[k].pc \in {"save", "grant"}
    BY <1>2
  <1> QED
    BY <1>1, <1>2, <1>4, <1>5, <1>6, <1>7, <1>8, <1>10, <1>11, <1>12, PutKeeps

(* An introduction's row: over none, or over one that was itself introduced. *)
LEMMA IntroduceUpholds ==
  ASSUME FullInv, NEW n \in Node, IntroduceWrite(n), n \notin raced',
         NEW m \in Node, op[n].rows[m] # NoRow
  PROVE  /\ Upholds(n, m, op[n].rows[m])
         /\ store[n][m] # NoRow => store[n][m].dials = {}
  <1> DEFINE r == op[n].rows[m]
             old == store[n][m]
  <1>1. op[n].pc = "introduce" /\ Excused(n, <<"op", n>> \in stale \/ Reintroduced(n))
    BY DEF IntroduceWrite
  <1>2. Fresh("op", n) /\ ~Reintroduced(n)
    BY <1>1 DEF Excused, Fresh
  <1>3. IntroduceFresh(n) /\ RowOf(m, old) /\ RowOf(m, r)
    BY <1>1, <1>2 DEF FullInv, FreshInv, OpFresh, ShapeInv, RowFacts
  <1>4. ~Taken(n, r.nick, m) /\ (old # NoRow => ~old.paired)
    BY <1>3 DEF IntroduceFresh
  <1>5. old # NoRow /\ old.user # NoPerson => r.user # NoPerson
    BY <1>2, <1>4 DEF Reintroduced, Rows
  <1>6. \A k \in Node : k # m /\ store[n][k] # NoRow => store[n][k].nick # r.nick
    BY <1>4 DEF Taken, Rows
  <1>7. /\ old # NoRow => old.user \in {Person[m], NoPerson} /\ (~old.paired => old.dials = {})
        /\ r.user \in {Person[m], NoPerson}
    BY <1>3 DEF RowOf
  <1> HIDE DEF r
  <1>8. Upholds(n, m, r)
    BY <1>4, <1>5, <1>6, <1>7 DEF Upholds
  <1> QED
    BY <1>4, <1>7, <1>8 DEF r

LEMMA IntroduceWriteKeeps ==
  ASSUME FullInv, NEW n \in Node, IntroduceWrite(n)
  PROVE  FullInv'
  <1> DEFINE T == {<<"op", n>>}
  <1>0. PairTypeOK /\ ShapeInv /\ OpShape(n) /\ RevokedNeverPairs
    BY DEF FullInv, ShapeInv
  <1>1. PairTypeOK' /\ ShapeInv'
    BY <1>0, IntroduceWriteTyped, RowsWriteShape
  <1>2. /\ op[n].pc = "introduce" /\ UNCHANGED <<allow, pair, srv, told>>
        /\ stale' = stale \cup (Busy(n) \ T) /\ raced \subseteq raced'
        /\ op' = [op EXCEPT ![n] = IdleOp] /\ store' = RowsWritten(n)
    BY DEF IntroduceWrite, Excused
  <1>3. \A k, j \in Node :
           store'[k][j] = IF k = n /\ op[n].rows[j] # NoRow THEN op[n].rows[j] ELSE store[k][j]
    BY <1>0, <1>2, RowsWrittenIs
  <1>4. op'[n].pc = "idle" /\ \A k \in Node : k # n => op'[k] = op[k]
    BY <1>0, <1>2, OpIdle
  <1>5. NoneNew
    BY <1>2 DEF NoneNew
  <1>6. Marked(n, T) /\ stale \subseteq stale'
    BY <1>2, BusyMarked
  <1>7. \A k \in Node : /\ <<"op", k>> \in T <=> k = n
                        /\ <<"pair", k>> \notin T /\ <<"srv", k>> \notin T
    OBVIOUS
  <1> HIDE DEF T
  <1>8. /\ \A k \in Node : <<"pair", k>> \in T \/ pair'[k] = pair[k]
        /\ \A k \in Node : <<"srv", k>> \in T \/ srv'[k] = srv[k]
        /\ \A k \in Node : <<"op", k>> \in T \/ op'[k] = op[k]
    BY <1>2, <1>4, <1>7
  <1>9. \A k \in Node : /\ <<"pair", k>> \in T => PairFresh(k)'
                        /\ <<"srv", k>> \in T => SrvFresh(k)'
                        /\ <<"op", k>> \in T => OpFresh(k)'
    BY <1>4, <1>7 DEF OpFresh
  <1>10. \A k \in Node : srv'[k].late /\ srv'[k].pc \in {"save", "grant"}
                           => srv[k].late /\ srv[k].pc \in {"save", "grant"}
    BY <1>2
  <1>11. ASSUME NEW m \in Node, op[n].rows[m] # NoRow
         PROVE  FullInv'
    <2> DEFINE r == op[n].rows[m]
    <2>1. \A k \in Node : op[n].rows[k] # NoRow => k = m
      BY <1>0, <1>2, <1>11 DEF OpShape
    <2>2. n \notin raced' => Upholds(n, m, r)
      BY <1>11, IntroduceUpholds
    <2>3. r # NoRow
      BY <1>11
    <2>4. \A k, j \in Node : store'[k][j] = IF k = n /\ j = m THEN r ELSE store[k][j]
      BY <1>3, <1>11, <2>1
    <2> HIDE DEF r
    <2> QED
      BY <1>1, <1>2, <1>5, <1>6, <1>8, <1>9, <1>10, <2>2, <2>3, <2>4, PutKeeps
  <1>12. CASE \A m \in Node : op[n].rows[m] = NoRow
    <2>1. \A k \in Node : QuietAt(k)
      BY <1>2, <1>3, <1>5, <1>12, QuietElsewhere
    <2>2. FreshInv' /\ \A m \in Node : NodeInv(m)'
      BY <1>2, <1>6, <1>8, <1>9, <2>1, StepKeeps
    <2>3. RevokedNeverPairs'
      BY <1>0, <1>10, RevokedFrame
    <2> QED
      BY <1>1, <2>2, <2>3 DEF FullInv
  <1> QED
    BY <1>11, <1>12

(* A rename's rows are those of the store under the new name: the lock has kept
   grants out, and any other write has made the rename stale. *)
LEMMA RenameRelies ==
  ASSUME FullInv, NEW n \in Node, RenameWrite(n), n \notin raced'
  PROVE  RenameFresh(n) /\ n \notin raced
  <1>1. op[n].pc = "rename" /\ Writes(n, <<"op", n>>)
    BY DEF RenameWrite
  <1>2. Fresh("op", n) /\ n \notin raced
    BY <1>1, WritesMarks DEF Fresh
  <1> QED
    BY <1>1, <1>2 DEF FullInv, FreshInv, OpFresh

LEMMA RenameWriteKeeps ==
  ASSUME FullInv, NEW n \in Node, RenameWrite(n)
  PROVE  FullInv'
  <1> DEFINE T == {<<"op", n>>}
  <1>0. PairTypeOK /\ ShapeInv /\ OpShape(n) /\ RevokedNeverPairs
    BY DEF FullInv, ShapeInv
  <1>1. PairTypeOK' /\ ShapeInv'
    BY <1>0, RenameWriteTyped, RowsWriteShape
  <1>2. /\ op[n].pc = "rename" /\ UNCHANGED <<allow, pair, srv, told>>
        /\ Writes(n, <<"op", n>>) /\ op' = [op EXCEPT ![n] = IdleOp] /\ store' = RowsWritten(n)
    BY DEF RenameWrite
  <1>3. \A k, j \in Node :
           store'[k][j] = IF k = n /\ op[n].rows[j] # NoRow THEN op[n].rows[j] ELSE store[k][j]
    BY <1>0, <1>2, RowsWrittenIs
  <1>4. op'[n].pc = "idle" /\ \A k \in Node : k # n => op'[k] = op[k]
    BY <1>0, <1>2, OpIdle
  <1>5. NoneNew
    BY <1>2 DEF NoneNew
  <1>6. Marked(n, T) /\ stale \subseteq stale' /\ raced \subseteq raced'
    BY <1>2, WritesMarks
  <1>7. \A k \in Node : /\ <<"op", k>> \in T <=> k = n
                        /\ <<"pair", k>> \notin T /\ <<"srv", k>> \notin T
    OBVIOUS
  <1> HIDE DEF T
  <1>8. NodeInv(n)'
    <2> SUFFICES ASSUME n \notin raced'
                 PROVE  OrphanAt(n)' /\ NamesAt(n)' /\ AdmitsAt(n)' /\ BackAt(n)'
      BY DEF NodeInv
    <2>1. RenameFresh(n) /\ n \notin raced
      BY RenameRelies
    <2>2. OrphanAt(n) /\ NamesAt(n) /\ AdmitsAt(n) /\ BackAt(n)
      BY <2>1 DEF FullInv, NodeInv
    <2>3. \A m \in Node : /\ store'[n][m] # NoRow <=> store[n][m] # NoRow
                          /\ store[n][m] # NoRow =>
                               /\ store'[n][m].user = store[n][m].user
                               /\ (store'[n][m].paired <=> store[n][m].paired)
      BY <1>3, <2>1 DEF RenameFresh
    <2>4. OrphanAt(n)'
      BY <1>2, <2>2, <2>3 DEF OrphanAt
    <2>5. AdmitsAt(n)' /\ BackAt(n)'
      <3>1. \A m \in Node : Owes(n, m)' => Owes(n, m)
        BY <1>5, OwesFrame
      <3> QED
        BY <1>2, <2>2, <2>3, <3>1 DEF AdmitsAt, Admits, BackAt
    <2>6. NamesAt(n)'
      <3> SUFFICES ASSUME NEW m \in Node, NEW k \in Node, m # k, store'[n][m] # NoRow,
                          store'[n][k] # NoRow, store'[n][m].nick = store'[n][k].nick,
                          store'[n][m].checked, store'[n][k].checked
                   PROVE  store'[n][m].user = store'[n][k].user /\ store'[n][m].user # NoPerson
        BY DEF NamesAt
      <3>1. \A j \in Node : op[n].rows[j] # NoRow => op[n].rows[j].nick = op[n].name
        BY <1>0, <1>2 DEF OpShape
      <3>2. CASE op[n].rows[m] # NoRow /\ op[n].rows[k] # NoRow
        BY <1>3, <2>1, <3>2 DEF RenameFresh
      <3>3. CASE op[n].rows[m] = NoRow /\ op[n].rows[k] = NoRow
        BY <1>3, <2>2, <3>3 DEF NamesAt
      <3>4. CASE op[n].rows[m] # NoRow /\ op[n].rows[k] = NoRow
        BY <1>3, <2>1, <3>1, <3>4 DEF RenameFresh
      <3>5. CASE op[n].rows[m] = NoRow /\ op[n].rows[k] # NoRow
        BY <1>3, <2>1, <3>1, <3>5 DEF RenameFresh
      <3> QED
        BY <3>2, <3>3, <3>4, <3>5
    <2> QED
      BY <2>4, <2>5, <2>6
  <1>9. \A k \in Node : k # n => QuietAt(k)
    BY <1>2, <1>3, <1>5, QuietElsewhere
  <1>10. FreshInv' /\ \A m \in Node : NodeInv(m)'
    <2>1. \A k \in Node : QuietAt(k) \/ (Marked(k, T) /\ NodeInv(k)')
      BY <1>6, <1>8, <1>9
    <2>2. OpFresh(n)'
      BY <1>4 DEF OpFresh
    <2> QED
      BY <1>2, <1>4, <1>6, <1>7, <2>1, <2>2, StepKeeps
  <1>11. RevokedNeverPairs'
    BY <1>0, <1>2, RevokedFrame
  <1> QED
    BY <1>1, <1>10, <1>11 DEF FullInv

-----------------------------------------------------------------------------
(* Grants.                                                                   *)

(* A node whose allow list grows by the principal of a row it holds, and that
   comes to owe an admission only to a peer it now admits. *)
LEMMA NodeGrants ==
  ASSUME NEW w \in Node, NodeInv(w), raced \subseteq raced', NEW p,
         \A j \in Node : store'[w][j] = store[w][j],
         allow'[w] \in {allow[w], allow[w] \cup {p}},
         w \notin raced' => \E m \in Node : store[w][m] # NoRow /\ (p = m \/ p = store[w][m].user),
         w \notin raced' => \A m \in Node : Owes(w, m)' => Owes(w, m) \/ Admits(w, m)',
         w \notin raced' => \A m \in Node : <<w, m>> \in told' => <<w, m>> \in told \/ store[w][m] # NoRow
  PROVE  NodeInv(w)'
  <1> SUFFICES ASSUME w \notin raced'
               PROVE  OrphanAt(w)' /\ NamesAt(w)' /\ AdmitsAt(w)' /\ BackAt(w)'
    BY DEF NodeInv
  <1>1. OrphanAt(w) /\ NamesAt(w) /\ AdmitsAt(w) /\ BackAt(w)
    BY DEF NodeInv
  <1>2. OrphanAt(w)'
    BY <1>1 DEF OrphanAt
  <1>3. NamesAt(w)' /\ BackAt(w)'
    BY <1>1 DEF NamesAt, BackAt
  <1>4. \A m \in Node : Admits(w, m) => Admits(w, m)'
    BY DEF Admits
  <1>5. AdmitsAt(w)'
    BY <1>1, <1>4 DEF AdmitsAt
  <1> QED
    BY <1>2, <1>3, <1>5

LEMMA GrantBackKeeps ==
  ASSUME FullInv, NEW n \in Node, GrantBack(n)
  PROVE  FullInv'
  <1> DEFINE i == By[pair[n].offer]
             p == Principal(i, Person[i])
             T == {<<"pair", n>>}
  <1>0. PairTypeOK /\ ShapeInv /\ PairShape(n) /\ RevokedNeverPairs /\ PairFresh(n) /\ NodeInv(n)
    BY DEF FullInv, ShapeInv, FreshInv
  <1>1. PairTypeOK' /\ ShapeInv'
    BY <1>0, GrantBackTyped, GrantBackShape
  <1>2. /\ pair[n].pc = "back" /\ UNCHANGED <<store, srv, op>> /\ Writes(n, <<"pair", n>>)
        /\ told' = IF pair[n].cut THEN told ELSE told \cup {<<n, i>>}
        /\ pair' = [pair EXCEPT ![n] = IdlePair]
    BY DEF GrantBack
  <1>3. /\ allow'[n] \in {allow[n], allow[n] \cup {p}}
        /\ \A k \in Node : k # n => allow'[k] = allow[k]
    BY <1>0 DEF GrantBack, PairTypeOK
  <1>4. i \in Node /\ i # n /\ Kind[pair[n].offer] = "pair"
    BY <1>0, <1>2, PairingAssumption DEF PairShape
  <1>5. pair'[n].pc = "idle" /\ \A m \in Node : m # n => pair'[m] = pair[m]
    <2>1. pair'[n] = IdlePair /\ \A m \in Node : m # n => pair'[m] = pair[m]
      BY <1>0, <1>2 DEF PairTypeOK
    <2> QED
      BY <2>1, PairingTyped
  <1>6. Marked(n, T) /\ stale \subseteq stale' /\ raced \subseteq raced'
    BY <1>2, WritesMarks
  <1>7. ASSUME n \notin raced'
        PROVE  store[n][i] # NoRow /\ (p = i \/ p = store[n][i].user)
    <2>1. Fresh("pair", n)
      BY <1>2, <1>7, WritesMarks DEF Fresh
    <2>2. store[n][i] # NoRow /\ (Person[i] # NoPerson => store[n][i].user = Person[i])
      BY <1>0, <1>2, <2>1 DEF PairFresh
    <2> QED
      BY <2>2 DEF Principal
  <1>8. Promised(n, i) \/ told' = told
    BY <1>2, <1>4 DEF Promised
  <1>9. \A m \in Node : \A k \in Node : Promised(m, k)' => Promised(m, k)
    BY <1>2, <1>5 DEF Promised
  <1> HIDE DEF i, p
  <1>10. \A k, m \in Node : Owes(k, m)' => Owes(k, m)
    <2> SUFFICES ASSUME NEW k \in Node, NEW m \in Node, <<m, k>> \in told', <<m, k>> \notin told
                 PROVE  Promised(m, k)
      BY <1>9 DEF Owes
    <2>1. m = n /\ k = i
      BY <1>2
    <2> QED
      BY <1>8, <2>1
  <1>11. \A k, m \in Node : <<k, m>> \in told' => <<k, m>> \in told \/ (k = n /\ m = i)
    BY <1>2
  <1>12. NodeInv(n)'
    <2>1. \A j \in Node : store'[n][j] = store[n][j]
      BY <1>2
    <2> QED
      BY <1>0, <1>3, <1>4, <1>6, <1>7, <1>10, <1>11, <2>1, NodeGrants
  <1>13. \A k \in Node : k # n => QuietAt(k)
    BY <1>2, <1>3, <1>10, <1>11 DEF QuietAt
  <1>14. FreshInv' /\ \A m \in Node : NodeInv(m)'
    <2>1. \A m \in Node : /\ <<"pair", m>> \in T <=> m = n
                          /\ <<"srv", m>> \notin T /\ <<"op", m>> \notin T
      OBVIOUS
    <2> HIDE DEF T
    <2>2. PairFresh(n)'
      BY <1>5 DEF PairFresh
    <2>3. \A k \in Node : QuietAt(k) \/ (Marked(k, T) /\ NodeInv(k)')
      BY <1>6, <1>12, <1>13
    <2> QED
      BY <1>2, <1>5, <1>6, <2>1, <2>2, <2>3, StepKeeps
  <1>15. RevokedNeverPairs'
    BY <1>0, <1>2, RevokedFrame
  <1> QED
    BY <1>1, <1>14, <1>15 DEF FullInv

LEMMA GrantKeeps ==
  ASSUME FullInv, NEW n \in Node, Grant(n)
  PROVE  FullInv'
  <1> DEFINE e == srv[n].entry
             p == Principal(n, e.user)
             T == {<<"srv", n>>}
  <1>0. PairTypeOK /\ ShapeInv /\ SrvShape(n) /\ PairShape(n) /\ RevokedNeverPairs /\ SrvFresh(n)
    BY DEF FullInv, ShapeInv, FreshInv
  <1>1. PairTypeOK' /\ ShapeInv'
    BY <1>0, GrantTyped, GrantShape
  <1>a. PICK i \in Node : i = By[srv[n].offer]
    BY <1>0, PairingAssumption DEF SrvShape, Grant
  <1>2. /\ srv[n].pc = "grant" /\ UNCHANGED <<store, pair, op, told>> /\ Writes(i, <<"srv", n>>)
        /\ Answer(n, "ok") /\ allow' = [allow EXCEPT ![i] = @ \cup {p}]
    BY <1>a DEF Grant
  <1>3. i \in Node /\ e # NoRow /\ e.paired
    BY <1>0, <1>2 DEF SrvShape
  <1>4. allow'[i] = allow[i] \cup {p} /\ \A k \in Node : k # i => allow'[k] = allow[k]
    BY <1>0, <1>2, <1>3 DEF PairTypeOK
  <1>5. /\ \A m \in Node : m # n => srv'[m] = srv[m]
        /\ srv'[n].pc = "ok"
    BY <1>0, <1>2, AnswerIs
  <1>6. Marked(i, T) /\ stale \subseteq stale' /\ raced \subseteq raced'
    BY <1>2, <1>3, WritesMarks
  <1>7. ASSUME i \notin raced'
        PROVE  store[i][n] = e
    <2>1. Fresh("srv", n)
      BY <1>2, <1>3, <1>7, WritesMarks DEF Fresh
    <2> QED
      BY <1>0, <1>2, <1>a, <2>1 DEF SrvFresh
  <1>8. \A k, m \in Node : Owes(k, m)' => Owes(k, m) \/ (k = i /\ m = n)
    BY <1>0, <1>2, <1>5, <1>a DEF Owes, Promised, PairShape
  <1>9. p = n \/ p = e.user
    BY DEF Principal
  <1> HIDE DEF p, e
  <1>10. i \notin raced' => Admits(i, n)'
    BY <1>2, <1>3, <1>4, <1>7, <1>9 DEF Admits
  <1>11. NodeInv(i)'
    <2>1. \A j \in Node : store'[i][j] = store[i][j]
      BY <1>2
    <2>2. NodeInv(i)
      BY <1>3 DEF FullInv
    <2>3. i \notin raced' => \E m \in Node : store[i][m] # NoRow /\ (p = m \/ p = store[i][m].user)
      BY <1>3, <1>7, <1>9
    <2>4. \A m \in Node : <<i, m>> \in told' => <<i, m>> \in told
      BY <1>2
    <2>5. i \notin raced' => \A m \in Node : Owes(i, m)' => Owes(i, m) \/ Admits(i, m)'
      BY <1>3, <1>8, <1>10
    <2>6. allow'[i] \in {allow[i], allow[i] \cup {p}}
      BY <1>4
    <2> QED
      BY <1>3, <1>6, <2>1, <2>2, <2>3, <2>4, <2>5, <2>6, NodeGrants
  <1>12. \A k \in Node : k # i => QuietAt(k)
    BY <1>2, <1>4, <1>8 DEF QuietAt
  <1>13. FreshInv' /\ \A m \in Node : NodeInv(m)'
    <2>1. \A m \in Node : /\ <<"srv", m>> \in T <=> m = n
                          /\ <<"pair", m>> \notin T /\ <<"op", m>> \notin T
      OBVIOUS
    <2> HIDE DEF T
    <2>2. SrvFresh(n)'
      BY <1>5 DEF SrvFresh
    <2>3. \A k \in Node : QuietAt(k) \/ (Marked(k, T) /\ NodeInv(k)')
      BY <1>6, <1>11, <1>12
    <2> QED
      BY <1>2, <1>5, <1>6, <2>1, <2>2, <2>3, StepKeeps
  <1>14. RevokedNeverPairs'
    BY <1>0, <1>5, RevokedFrame
  <1> QED
    BY <1>1, <1>13, <1>14 DEF FullInv

-----------------------------------------------------------------------------
(* Removal.                                                                  *)

(* What a removal strips: what names the rows removed and no row that is kept. *)
LEMMA StrippedIs ==
  ASSUME PairTypeOK, NEW n \in Node, NEW name, NEW m \in Node, store[n][m] # NoRow
  PROVE  /\ store[n][m].nick = name =>
              /\ m \in Stripped(n, name)
              /\ \/ store[n][m].user = NoPerson \/ store[n][m].user \in Stripped(n, name)
                 \/ \E k \in Node : /\ store[n][k] # NoRow /\ store[n][k].nick # name
                                    /\ store[n][k].user = store[n][m].user
         /\ store[n][m].nick # name =>
              m \notin Stripped(n, name) /\ store[n][m].user \notin Stripped(n, name)
  <1> DEFINE named == {k \in Rows(n) : store[n][k].nick = name}
             kept == {store[n][k].user : k \in Rows(n) \ named}
             lost == {store[n][k].user : k \in named} \ (kept \cup {NoPerson})
  <1>1. Stripped(n, name) = named \cup lost
    BY DEF Stripped
  <1>2. \A k \in Node : store[n][k] # NoRow => store[n][k].user \in People \cup {NoPerson}
    BY PairingFields, PairingTyped
  <1>3. lost \subseteq People /\ named \subseteq Node
    BY <1>2 DEF Rows
  <1>4. Node \cap People = {} /\ NoPerson \notin Node
    BY PairingAssumption
  <1>5. ASSUME store[n][m].nick = name
        PROVE  /\ m \in named
               /\ \/ store[n][m].user = NoPerson \/ store[n][m].user \in lost
                  \/ \E k \in Node : /\ store[n][k] # NoRow /\ store[n][k].nick # name
                                     /\ store[n][k].user = store[n][m].user
    BY <1>5 DEF Rows
  <1>6. ASSUME store[n][m].nick # name
        PROVE  m \notin named /\ store[n][m].user \in kept
    BY <1>6 DEF Rows
  <1>7. store[n][m].user \in kept => store[n][m].user \notin lost /\ store[n][m].user \notin named
    BY <1>2, <1>3, <1>4
  <1>8. m \notin lost
    BY <1>3, <1>4
  <1> HIDE DEF named, lost, kept
  <1> QED
    BY <1>1, <1>5, <1>6, <1>7, <1>8

LEMMA PeerRemoveKeeps ==
  ASSUME FullInv, NEW n \in Node, NEW name \in Name, PeerRemove(n, name)
  PROVE  FullInv'
  <1> DEFINE T == {<<"op", n>>}
  <1>0. PairTypeOK /\ ShapeInv /\ RevokedNeverPairs /\ NodeInv(n)
    BY DEF FullInv
  <1>1. PairTypeOK' /\ ShapeInv'
    BY <1>0, PeerRemoveTyped, PeerRemoveShape
  <1>2. /\ \A k \in Node : k # n => op'[k] = op[k] /\ allow'[k] = allow[k]
        /\ op'[n].pc = "remove" /\ op'[n].name = name /\ UNCHANGED <<store, srv, raced>>
        /\ stale' = (stale \cup Busy(n)) \ {<<"op", n>>}
        /\ allow'[n] = allow[n] \ Stripped(n, name)
    BY <1>0, PeerRemoveIs
  <1>3. /\ told' \subseteq told
        /\ \A m \in Node : /\ pair'[m].pc = pair[m].pc /\ pair'[m].offer = pair[m].offer
                           /\ pair'[m].name = pair[m].name /\ (pair[m].cut => pair'[m].cut)
    BY <1>0, PeerRemoveUnpairs
  <1>4. \A m \in Node : store[n][m] # NoRow /\ store[n][m].nick = name => ~Owes(n, m)'
    BY <1>0, <1>3, PeerRemoveUnpairs DEF Owes, Promised, Rows
  <1>5. NoneNew
    BY <1>2, <1>3 DEF NoneNew
  <1>6. \A k, m \in Node : Owes(k, m)' => Owes(k, m)
    BY <1>5, OwesFrame
  <1>7. NodeInv(n)'
    <2> SUFFICES ASSUME n \notin raced
                 PROVE  OrphanAt(n)' /\ NamesAt(n)' /\ AdmitsAt(n)' /\ BackAt(n)'
      BY <1>2 DEF NodeInv
    <2>1. OrphanAt(n) /\ NamesAt(n) /\ AdmitsAt(n) /\ BackAt(n)
      BY <1>0 DEF NodeInv
    <2>2. OrphanAt(n)' /\ NamesAt(n)' /\ BackAt(n)'
      BY <1>2, <1>3, <2>1 DEF OrphanAt, NamesAt, BackAt
    <2>3. ASSUME NEW m \in Node, Owes(n, m)'
          PROVE  Admits(n, m)'
      <3>1. Admits(n, m)
        BY <1>6, <2>1, <2>3 DEF AdmitsAt
      <3>2. store[n][m] # NoRow /\ store[n][m].nick # name
        BY <1>4, <2>3, <3>1 DEF Admits
      <3>3. m \notin Stripped(n, name) /\ store[n][m].user \notin Stripped(n, name)
        BY <1>0, <3>2, StrippedIs
      <3> QED
        BY <1>2, <3>1, <3>3 DEF Admits
    <2> QED
      BY <2>2, <2>3 DEF AdmitsAt
  <1>8. RemoveFresh(n)'
    <2>1. \A x : x \in Stripped(n, name)' <=> x \in Stripped(n, name)
      BY <1>2, StrippedFrame
    <2> QED
      BY <1>2, <1>4, <2>1 DEF RemoveFresh
  <1>9. Marked(n, T)
    BY <1>2, BusyMarked
  <1>10. \A k \in Node : k # n => QuietAt(k)
    BY <1>2, <1>5, QuietElsewhere
  <1>11. FreshInv' /\ \A m \in Node : NodeInv(m)'
    <2>1. \A k \in Node : QuietAt(k) \/ (Marked(k, T) /\ NodeInv(k)')
      BY <1>7, <1>9, <1>10
    <2>2. OpFresh(n)'
      BY <1>2, <1>8 DEF OpFresh
    <2>3. stale \ T \subseteq stale'
      BY <1>2
    <2>4. \A k \in Node : /\ <<"op", k>> \in T <=> k = n
                          /\ <<"pair", k>> \notin T /\ <<"srv", k>> \notin T
      OBVIOUS
    <2> HIDE DEF T
    <2> QED
      BY <1>2, <1>3, <2>1, <2>2, <2>3, <2>4, StepKeeps
  <1>12. RevokedNeverPairs'
    BY <1>0, <1>2, RevokedFrame
  <1> QED
    BY <1>1, <1>11, <1>12 DEF FullInv

LEMMA RemoveRowsKeeps ==
  ASSUME FullInv, NEW n \in Node, RemoveRows(n)
  PROVE  FullInv'
  <1> DEFINE T == {<<"op", n>>}
  <1>0. PairTypeOK /\ ShapeInv /\ RevokedNeverPairs /\ NodeInv(n) /\ OpFresh(n)
    BY DEF FullInv, FreshInv
  <1>1. PairTypeOK' /\ ShapeInv'
    BY <1>0, RemoveRowsTyped, RemoveRowsShape
  <1>2. /\ op[n].pc = "remove" /\ op' = [op EXCEPT ![n] = IdleOp]
        /\ Writes(n, <<"op", n>>) /\ UNCHANGED <<allow, pair, srv>>
        /\ told' = {t \in told : t[1] # n \/ store'[n][t[2]] # NoRow}
    BY <1>0, RemoveRowsIs
  <1>3. \A k, j \in Node :
              store'[k][j] = IF k = n /\ store[n][j] # NoRow /\ store[n][j].nick = op[n].name
                             THEN NoRow ELSE store[k][j]
    BY <1>0, RemoveRowsIs
  <1>4. op'[n].pc = "idle" /\ \A k \in Node : k # n => op'[k] = op[k]
    BY <1>0, <1>2, OpIdle
  <1>5. NoneNew
    BY <1>2 DEF NoneNew
  <1>6. Marked(n, T) /\ stale \subseteq stale' /\ raced \subseteq raced'
    BY <1>2, WritesMarks
  <1>7. NodeInv(n)'
    <2> SUFFICES ASSUME n \notin raced'
                 PROVE  OrphanAt(n)' /\ NamesAt(n)' /\ AdmitsAt(n)' /\ BackAt(n)'
      BY DEF NodeInv
    <2>1. Fresh("op", n) /\ n \notin raced
      BY <1>2, WritesMarks DEF Fresh
    <2>2. RemoveFresh(n)
      BY <1>0, <1>2, <2>1 DEF OpFresh
    <2>3. OrphanAt(n) /\ NamesAt(n) /\ AdmitsAt(n) /\ BackAt(n)
      BY <1>0, <2>1 DEF NodeInv
    <2>4. OrphanAt(n)'
      <3> SUFFICES ASSUME NEW p \in allow[n]
                   PROVE  \E m \in Node : store'[n][m] # NoRow /\ (p = m \/ p = store'[n][m].user)
        BY <1>2 DEF OrphanAt
      <3>1. PICK m \in Node : store[n][m] # NoRow /\ (p = m \/ p = store[n][m].user)
        BY <2>3 DEF OrphanAt
      <3>2. CASE store[n][m].nick # op[n].name
        BY <1>3, <3>1, <3>2
      <3>3. CASE store[n][m].nick = op[n].name
        <4>1. p \notin Stripped(n, op[n].name) /\ p # NoPerson
          BY <1>0, <2>2, PairingAssumption DEF RemoveFresh, PairTypeOK, People
        <4>2. PICK k \in Node : /\ store[n][k] # NoRow /\ store[n][k].nick # op[n].name
                                /\ store[n][k].user = p
          BY <1>0, <3>1, <3>3, <4>1, StrippedIs
        <4> QED
          BY <1>3, <4>2
      <3> QED
        BY <3>2, <3>3
    <2>5. NamesAt(n)'
      BY <1>3, <2>3 DEF NamesAt
    <2>6. AdmitsAt(n)'
      <3> SUFFICES ASSUME NEW m \in Node, Owes(n, m)' PROVE Admits(n, m)'
        BY DEF AdmitsAt
      <3>1. Owes(n, m) /\ Admits(n, m)
        BY <1>5, <2>3, OwesFrame DEF AdmitsAt
      <3>2. store[n][m].nick # op[n].name
        BY <2>2, <3>1 DEF RemoveFresh, Admits
      <3>3. store'[n][m] = store[n][m]
        BY <1>3, <3>2
      <3> QED
        BY <1>2, <3>1, <3>3 DEF Admits
    <2>7. BackAt(n)'
      BY <1>2 DEF BackAt
    <2> QED
      BY <2>4, <2>5, <2>6, <2>7
  <1>8. \A k \in Node : k # n => QuietAt(k)
    BY <1>2, <1>3, <1>5, QuietElsewhere
  <1>9. FreshInv' /\ \A m \in Node : NodeInv(m)'
    <2>1. \A k \in Node : QuietAt(k) \/ (Marked(k, T) /\ NodeInv(k)')
      BY <1>6, <1>7, <1>8
    <2>2. OpFresh(n)'
      BY <1>4 DEF OpFresh
    <2>3. \A k \in Node : /\ <<"op", k>> \in T <=> k = n
                          /\ <<"pair", k>> \notin T /\ <<"srv", k>> \notin T
      OBVIOUS
    <2> HIDE DEF T
    <2> QED
      BY <1>2, <1>4, <1>6, <2>1, <2>2, <2>3, StepKeeps
  <1>10. RevokedNeverPairs'
    BY <1>0, <1>2, RevokedFrame
  <1> QED
    BY <1>1, <1>9, <1>10 DEF FullInv

-----------------------------------------------------------------------------
(* The inductive invariant, and what follows from it.                        *)

LEMMA PairFullInit == PairInit => FullInv
  <1> SUFFICES ASSUME PairInit PROVE FullInv
    OBVIOUS
  <1>1. PairTypeOK
    BY PairTypeInit
  <1>2. \A n \in Node : /\ pair[n].pc = "idle" /\ srv[n].pc = "idle" /\ ~srv[n].late
                        /\ op[n].pc = "idle" /\ allow[n] = {}
                        /\ \A m \in Node : store[n][m] = NoRow /\ op[n].rows[m] = NoRow
    BY PairingTyped DEF PairInit
  <1>3. told = {}
    BY DEF PairInit
  <1>4. ShapeInv
    BY <1>2 DEF ShapeInv, RowFacts, RowOf, PairShape, SrvShape, OpShape, LateShape
  <1>5. FreshInv
    BY <1>2 DEF FreshInv, PairFresh, SrvFresh, OpFresh
  <1>6. \A n \in Node : NodeInv(n)
    BY <1>2, <1>3 DEF NodeInv, OrphanAt, NamesAt, AdmitsAt, BackAt, Owes, Promised
  <1>7. RevokedNeverPairs
    BY <1>2 DEF RevokedNeverPairs
  <1> QED
    BY <1>1, <1>4, <1>5, <1>6, <1>7 DEF FullInv

LEMMA CeremonyKeeps ==
  ASSUME FullInv, CeremonyStep
  PROVE  FullInv'
  <1>1. PICK n \in Node :
            \/ \E o \in Offer, binds \in BOOLEAN : Dial(n, o, Nick[By[o]], binds)
            \/ Hear(n) \/ SaveBack(n) \/ GrantBack(n) \/ Lost(n)
            \/ PreCheck(n) \/ Burn(n) \/ Check(n) \/ Save(n) \/ Grant(n) \/ GrantFails(n)
            \/ Attest(n) \/ Closed(n)
    BY DEF CeremonyStep
  <1>2. ASSUME NEW o \in Offer, NEW binds \in BOOLEAN, Dial(n, o, Nick[By[o]], binds)
        PROVE  FullInv'
    BY <1>2, DialKeeps, Zenon
  <1>3. CASE Hear(n) \/ SaveBack(n) \/ GrantBack(n) \/ Lost(n) \/ Closed(n)
    BY <1>3, HearKeeps, SaveBackKeeps, GrantBackKeeps, LostKeeps, ClosedKeeps
  <1>4. CASE \/ PreCheck(n) \/ Burn(n) \/ Check(n) \/ Save(n) \/ Grant(n) \/ GrantFails(n)
             \/ Attest(n)
    BY <1>4, PreCheckKeeps, BurnKeeps, CheckKeeps, SaveKeeps, GrantKeeps, GrantFailsKeeps,
       AttestKeeps
  <1> QED
    BY <1>1, <1>2, <1>3, <1>4

LEMMA OperatorKeeps ==
  ASSUME FullInv, OperatorStep
  PROVE  FullInv'
  <1>1. PICK n \in Node :
            \/ \E who \in Name \cup People, to \in Name : PeerRename(n, who, to)
            \/ \E m \in Node, name \in Name, binds \in BOOLEAN : PeerIntroduce(n, m, name, binds)
            \/ \E m \in Node, name \in Name : PeerAdd(n, m, name)
            \/ \E name \in Name : PeerRemove(n, name)
            \/ \E p \in Node \cup People : PeerRevoke(n, p) \/ PeerUnrevoke(n, p)
            \/ RenameWrite(n) \/ IntroduceWrite(n) \/ RemoveRows(n) \/ OpAborted(n)
    BY DEF OperatorStep
  <1>2. CASE \E who \in Name \cup People, to \in Name : PeerRename(n, who, to)
    BY <1>2, PeerRenameKeeps
  <1>3. CASE \E m \in Node, name \in Name, binds \in BOOLEAN : PeerIntroduce(n, m, name, binds)
    <2>1. PICK m \in Node, name \in Name : Introduces(n, m, name)
      BY <1>3, Zenon DEF Introduces
    <2> QED
      BY <2>1, PeerIntroduceKeeps
  <1>4. CASE \E m \in Node, name \in Name : PeerAdd(n, m, name)
    BY <1>4, PeerAddKeeps
  <1>5. CASE \E name \in Name : PeerRemove(n, name)
    BY <1>5, PeerRemoveKeeps
  <1>6. CASE \E p \in Node \cup People : PeerRevoke(n, p) \/ PeerUnrevoke(n, p)
    BY <1>6, PeerRevokeKeeps, PeerUnrevokeKeeps
  <1>7. CASE RenameWrite(n) \/ IntroduceWrite(n) \/ RemoveRows(n) \/ OpAborted(n)
    BY <1>7, RenameWriteKeeps, IntroduceWriteKeeps, RemoveRowsKeeps, OpAbortedKeeps
  <1> QED
    BY <1>1, <1>2, <1>3, <1>4, <1>5, <1>6, <1>7

LEMMA FullInductive == FullInv /\ [PairNext]_pairVars => FullInv'
  <1> SUFFICES ASSUME FullInv, [PairNext]_pairVars PROVE FullInv'
    OBVIOUS
  <1>1. CASE UNCHANGED pairVars
    <2>1. UNCHANGED <<store, allow, revoked, left, pair, srv, op, told, stale, raced, spent>>
      BY <1>1 DEF pairVars
    <2>2. PairTypeOK'
      BY <2>1 DEF FullInv, PairTypeOK
    <2>3. ShapeInv'
      BY <2>1, ShapeFrame DEF FullInv, ShapeInv
    <2> QED
      BY <2>1, <2>2, <2>3, IdleKeeps
  <1>2. CASE PairNext
    BY <1>2, CeremonyKeeps, OperatorKeeps, StopKeeps DEF PairNext
  <1> QED
    BY <1>1, <1>2

LEMMA PairInvariant == PairSpec => []FullInv
  BY PairFullInit, FullInductive, PTL DEF PairSpec

(* Every variable of the pairing model keeps its type. *)
THEOREM PairTypeCorrect == PairSpec => []PairTypeOK
  <1>1. FullInv => PairTypeOK
    BY DEF FullInv
  <1> QED
    BY <1>1, PairInvariant, PTL

(* A node whose pair verb answered "paired" is a row of the inviter's that the
   inviter's services admit, and holds the inviter's row, whatever redemptions,
   attestations, verbs and crashes interleave with the two writes on either side. *)
THEOREM PairedBothWaysHolds == PairSpec => []PairedBothWays
  <1>1. FullInv => PairedBothWays
    <2> SUFFICES ASSUME FullInv, NEW t \in told, raced \cap {t[1], t[2]} = {}
                 PROVE  /\ t[1] \in Rows(t[2]) /\ t[2] \in Rows(t[1])
                        /\ {t[1], store[t[2]][t[1]].user} \cap allow[t[2]] # {}
      BY DEF PairedBothWays
    <2> DEFINE n == t[1]
               m == t[2]
    <2>0. t \in Node \X Node
      BY DEF FullInv, PairTypeOK
    <2>1. n \in Node /\ m \in Node /\ <<n, m>> \in told
      <3>1. PICK a \in Node, b \in Node : t = <<a, b>>
        BY <2>0
      <3> QED
        BY <3>1
    <2>2. NodeInv(n) /\ NodeInv(m) /\ n \notin raced /\ m \notin raced
      BY <2>1 DEF FullInv
    <2> HIDE DEF n, m
    <2>3. Owes(m, n)
      BY <2>1 DEF Owes
    <2>4. Admits(m, n)
      BY <2>1, <2>2, <2>3 DEF NodeInv, AdmitsAt
    <2>5. store[n][m] # NoRow
      BY <2>1, <2>2 DEF NodeInv, BackAt
    <2>6. n \in Rows(m) /\ m \in Rows(n) /\ {n, store[m][n].user} \cap allow[m] # {}
      BY <2>1, <2>4, <2>5 DEF Admits, Rows
    <2> QED
      BY <2>6 DEF n, m
  <1> QED
    BY <1>1, PairInvariant, PTL

(* No allow list names a principal without a row, at any point of a pairing, a
   removal or a crash within either. *)
THEOREM NoOrphanGrantHolds == PairSpec => []NoOrphanGrant
  <1>1. FullInv => NoOrphanGrant
    BY DEF FullInv, NodeInv, OrphanAt, NoOrphanGrant, Rows
  <1> QED
    BY <1>1, PairInvariant, PTL

(* Checked names are unique but for the devices of one person. *)
THEOREM NamesUniqueHolds == PairSpec => []NamesUnique
  <1>1. FullInv => NamesUnique
    BY DEF FullInv, NodeInv, NamesAt, NamesUnique, Rows
  <1> QED
    BY <1>1, PairInvariant, PTL

(* An identity revoked before the hello gets neither row nor grant. *)
THEOREM RevokedNeverPairsHolds == PairSpec => []RevokedNeverPairs
  <1>1. FullInv => RevokedNeverPairs
    BY DEF FullInv
  <1> QED
    BY <1>1, PairInvariant, PTL

(* The rows that stay keep what they prove. *)
KeepsProof(n, m) ==
    LET old == store[n][m]   new == store'[n][m] IN
    /\ old.user # NoPerson => new.user # NoPerson
    /\ old.paired => new.paired
    /\ old.dials \subseteq new.dials \/ srv'[m] # srv[m]

LEMMA CeremonyKeepsProof ==
  ASSUME FullInv, CeremonyStep, NEW n \in Node, NEW m \in Node,
         store[n][m] # NoRow, n \notin raced'
  PROVE  KeepsProof(n, m)
  <1>0. PairTypeOK /\ ShapeInv
    BY DEF FullInv
  <1>1. PICK k \in Node :
            \/ \E o \in Offer, binds \in BOOLEAN : Dial(k, o, Nick[By[o]], binds)
            \/ Hear(k) \/ SaveBack(k) \/ GrantBack(k) \/ Lost(k)
            \/ PreCheck(k) \/ Burn(k) \/ Check(k) \/ Save(k) \/ Grant(k) \/ GrantFails(k)
            \/ Attest(k) \/ Closed(k)
    BY DEF CeremonyStep
  <1>2. CASE store'[n][m] = store[n][m]
    BY <1>2 DEF KeepsProof
  <1>3. CASE SaveBack(k)
    <2>1. /\ \A j, l \in Node : store'[j][l] = IF j = k /\ l = By[pair[k].offer] THEN BackRow(k)
                                               ELSE store[j][l]
      BY <1>0, <1>3, SaveBackIs
    <2>2. CASE n = k /\ m = By[pair[k].offer]
      <3>1. Upholds(n, m, BackRow(k)) /\ store[n][m].dials \subseteq BackRow(k).dials
        BY <1>3, <2>2, SaveBackUpholds
      <3> QED
        BY <2>1, <2>2, <3>1 DEF Upholds, KeepsProof
    <2> QED
      BY <1>2, <2>1, <2>2
  <1>4. CASE Save(k)
    <2>1. /\ Put(By[srv[k].offer], k, srv[k].entry) /\ Answer(k, "grant") /\ srv[k].pc = "save"
      BY <1>4 DEF Save
    <2>2. By[srv[k].offer] \in Node
      BY <1>0, <2>1, PairingAssumption DEF ShapeInv, SrvShape
    <2>3. \A j, l \in Node : store'[j][l] = IF j = By[srv[k].offer] /\ l = k THEN srv[k].entry
                                            ELSE store[j][l]
      BY <1>0, <2>1, <2>2, PutIs
    <2>4. srv'[k] # srv[k]
      BY <1>0, <2>1, AnswerIs
    <2>5. CASE n = By[srv[k].offer] /\ m = k
      <3>1. Upholds(n, m, srv[k].entry)
        BY <1>4, <2>5, SaveUpholds
      <3> QED
        BY <2>3, <2>4, <2>5, <3>1 DEF Upholds, KeepsProof
    <2> QED
      BY <1>2, <2>3, <2>5
  <1>5. CASE Attest(k)
    <2>1. srv[k].pc = "hello"
      BY <1>5, AttestCases
    <2>2. By[srv[k].offer] \in Node
      BY <1>0, <2>1, PairingAssumption DEF ShapeInv, SrvShape
    <2>3. CASE UNCHANGED store
      BY <1>2, <2>3
    <2>4. ASSUME srv[k].user # NoPerson, NEW first \in SamePerson(k),
                 Put(By[srv[k].offer], k, AttestedRow(k, first)),
                 Writes(By[srv[k].offer], <<"srv", k>>), Answer(k, "ok")
          PROVE  KeepsProof(n, m)
      <3>1. \A j, l \in Node : store'[j][l] = IF j = By[srv[k].offer] /\ l = k
                                              THEN AttestedRow(k, first) ELSE store[j][l]
        BY <1>0, <2>2, <2>4, PutIs
      <3>2. srv'[k] # srv[k]
        BY <1>0, <2>1, <2>4, AnswerIs
      <3>3. CASE n = By[srv[k].offer] /\ m = k
        <4>1. n \notin raced
          BY <2>2, <2>4, <3>3, WritesMarks
        <4>2. Upholds(n, m, AttestedRow(k, first))
          BY <2>1, <2>4, <3>3, <4>1, AttestUpholds
        <4> QED
          BY <3>1, <3>2, <3>3, <4>2 DEF Upholds, KeepsProof
      <3> QED
        BY <1>2, <3>1, <3>3
    <2> QED
      BY <1>5, <2>3, <2>4, AttestCases
  <1>6. CASE \/ \E o \in Offer, binds \in BOOLEAN : Dial(k, o, Nick[By[o]], binds)
             \/ Hear(k) \/ GrantBack(k) \/ Lost(k) \/ PreCheck(k) \/ Burn(k) \/ Check(k)
             \/ Grant(k) \/ GrantFails(k) \/ Closed(k)
    <2>1. UNCHANGED store
      BY <1>6 DEF Dial, Hear, GrantBack, Lost, PreCheck, Burn, Check, Grant, GrantFails, Closed
    <2> QED
      BY <1>2, <2>1
  <1> QED
    BY <1>1, <1>3, <1>4, <1>5, <1>6

LEMMA OperatorKeepsProof ==
  ASSUME FullInv, OperatorStep, NEW n \in Node, NEW m \in Node,
         store[n][m] # NoRow, store'[n][m] # NoRow, n \notin raced'
  PROVE  KeepsProof(n, m)
  <1>0. PairTypeOK /\ ShapeInv
    BY DEF FullInv
  <1>1. PICK k \in Node :
            \/ \E who \in Name \cup People, to \in Name : PeerRename(k, who, to)
            \/ \E j \in Node, name \in Name, binds \in BOOLEAN : PeerIntroduce(k, j, name, binds)
            \/ \E j \in Node, name \in Name : PeerAdd(k, j, name)
            \/ \E name \in Name : PeerRemove(k, name)
            \/ \E p \in Node \cup People : PeerRevoke(k, p) \/ PeerUnrevoke(k, p)
            \/ RenameWrite(k) \/ IntroduceWrite(k) \/ RemoveRows(k) \/ OpAborted(k)
    BY DEF OperatorStep
  <1>2. CASE store'[n][m] = store[n][m]
    BY <1>2 DEF KeepsProof
  <1>3. ASSUME NEW j \in Node, NEW name \in Name, PeerAdd(k, j, name)
        PROVE  KeepsProof(n, m)
    <2>1. \A a, l \in Node : store'[a][l] = IF a = k /\ l = j THEN AddedRow(name) ELSE store[a][l]
      BY <1>0, <1>3, PeerAddIs
    <2>2. raced' = IF j \in Rows(k) THEN raced \cup {k} ELSE raced
      BY <1>0, <1>3, PeerAddIs
    <2>3. ~(n = k /\ m = j)
      BY <2>2 DEF Rows
    <2> QED
      BY <1>2, <2>1, <2>3
  <1>4. CASE RenameWrite(k)
    <2>1. \A a, l \in Node : store'[a][l] = IF a = k /\ op[k].rows[l] # NoRow THEN op[k].rows[l]
                                            ELSE store[a][l]
      BY <1>0, <1>4, RowsWrittenIs DEF RenameWrite
    <2>2. CASE n = k /\ op[k].rows[m] # NoRow
      <3>1. RenameFresh(n)
        BY <1>4, <2>2, RenameRelies
      <3>2. /\ store'[n][m].user = store[n][m].user /\ (store'[n][m].paired <=> store[n][m].paired)
            /\ store'[n][m].dials = store[n][m].dials
        BY <2>1, <2>2, <3>1 DEF RenameFresh
      <3> QED
        BY <3>2 DEF KeepsProof
    <2> QED
      BY <1>2, <2>1, <2>2
  <1>5. CASE IntroduceWrite(k)
    <2>1. \A a, l \in Node : store'[a][l] = IF a = k /\ op[k].rows[l] # NoRow THEN op[k].rows[l]
                                            ELSE store[a][l]
      BY <1>0, <1>5, RowsWrittenIs DEF IntroduceWrite
    <2>2. CASE n = k /\ op[k].rows[m] # NoRow
      <3>1. Upholds(n, m, op[n].rows[m]) /\ store[n][m].dials = {}
        BY <1>5, <2>2, IntroduceUpholds
      <3> QED
        BY <2>1, <2>2, <3>1 DEF Upholds, KeepsProof
    <2> QED
      BY <1>2, <2>1, <2>2
  <1>6. CASE RemoveRows(k)
    <2>1. store'[n][m] = store[n][m]
      BY <1>0, <1>6, RemoveRowsIs
    <2> QED
      BY <1>2, <2>1
  <1>7. CASE \/ \E who \in Name \cup People, to \in Name : PeerRename(k, who, to)
             \/ \E name \in Name : PeerRemove(k, name)
             \/ \E p \in Node \cup People : PeerRevoke(k, p) \/ PeerUnrevoke(k, p)
             \/ OpAborted(k)
    <2>1. UNCHANGED store
      BY <1>7 DEF PeerRename, PeerRemove, PeerRevoke, PeerUnrevoke, OpAborted
    <2> QED
      BY <1>2, <2>1
  <1>8. CASE \E j \in Node, name \in Name, binds \in BOOLEAN : PeerIntroduce(k, j, name, binds)
    <2>1. UNCHANGED store
      BY <1>8 DEF PeerIntroduce
    <2> QED
      BY <1>2, <2>1
  <1> QED
    BY <1>1, <1>3, <1>4, <1>5, <1>6, <1>7, <1>8

(* No step of a ceremony or of a verb weakens a row in place: a proven identity
   and a ceremony stamp go only with the row, to a race, or to a verb that
   replaces the row. *)
THEOREM NeverWeakenedHolds == PairSpec => NeverWeakened
  <1> DEFINE Kept == \A n, m \in Node :
                       LET old == store[n][m]   new == store'[n][m] IN
                       old # NoRow /\ new # NoRow /\ n \notin raced' =>
                           /\ old.user # NoPerson => new.user # NoPerson
                           /\ old.paired => new.paired
                           /\ old.dials \subseteq new.dials \/ srv'[m] # srv[m]
  <1>1. ASSUME FullInv, PairNext
        PROVE  Kept
    <2> SUFFICES ASSUME NEW n \in Node, NEW m \in Node,
                        store[n][m] # NoRow, store'[n][m] # NoRow, n \notin raced'
                 PROVE  KeepsProof(n, m)
      BY DEF KeepsProof
    <2>1. CASE \E k \in Node : Stop(k)
      BY <2>1 DEF Stop, KeepsProof
    <2> QED
      BY <1>1, <2>1, CeremonyKeepsProof, OperatorKeepsProof DEF PairNext
  <1>2. FullInv /\ [PairNext]_pairVars => [Kept]_pairVars
    BY <1>1
  <1> QED
    BY <1>2, PairInvariant, PTL DEF PairSpec, NeverWeakened
=============================================================================
