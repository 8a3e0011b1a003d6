------------------------------ MODULE Invites ------------------------------
(* The registry of outstanding pairing invites: LiveInvites                *)
(* (node/src/pairing/mod.rs), its file (node/src/pairing/persist.rs) and   *)
(* the verb that mints (mint_invite in node/src/daemon/handlers.rs).       *)
(*                                                                         *)
(* An invite is a bearer secret good for a counted number of pairings.     *)
(* Every mutation changes the map in memory, then writes a snapshot of the *)
(* whole map through to disk under the `writes` lock; a restart reloads    *)
(* the file.  A store is one atomic rename, so it lands whole or not at    *)
(* all.  An entry is represented by its remaining uses, 0 for no entry:    *)
(* the registry burns an entry when its count reaches 0.                   *)
EXTENDS Naturals

CONSTANTS
    Secret,      \* invite secrets, each minted at most once
    Uses,        \* the number of uses each is minted with
    Redeemer,    \* pair connections that present a secret, reused
    NoSecret, NoRedeemer

ASSUME InviteAssumption ==
    /\ Uses \in [Secret -> Nat \ {0}]
    /\ NoSecret \notin Secret
    /\ NoRedeemer \notin Redeemer

VARIABLES
    up,       \* is the daemon running?
    ram,      \* LiveInvites::inner, the uses left of each secret
    disk,     \* the invite file, likewise
    writer,   \* who holds `writes`, and how far its store is
    orphans,  \* stores still running for a mint that was dropped
    issue,    \* how far the minting of each secret is
    mintNow,  \* the secrets expired by the clock a minting read
    req,      \* each redemption: what it presents, by the clock it read
    dead,     \* the secrets whose expiry has passed
    granted,  \* history: the redemptions of each secret answered Ok
    inDoubt   \* history: the uses recorded whose answer a crash swallowed

vars == <<up, ram, disk, writer, orphans, issue, mintNow, req, dead, granted, inDoubt>>

Snapshot == [Secret -> Nat]
Empty == [s \in Secret |-> 0]
Idle == [pc |-> "idle", secret |-> NoSecret, seen |-> {}]
Free == [pc |-> "free", kind |-> "none", secret |-> NoSecret, by |-> NoRedeemer, snap |-> Empty]

\* The map without the secrets in gone.
Without(m, gone) == [s \in Secret |-> IF s \in gone THEN 0 ELSE m[s]]

\* Has the map an entry for s?
Known(s) == ram[s] > 0

\* Take the lock, leave m in memory and start storing a snapshot of it.
WriteThrough(m, kind, s, r) ==
    /\ writer.pc = "free"
    /\ ram' = m
    /\ writer' = [pc |-> "storing", kind |-> kind, secret |-> s, by |-> r, snap |-> m]

-----------------------------------------------------------------------------
(* mint_invite *)

\* The verb draws a secret and reads the clock.
MintInvite(s) ==
    /\ up
    /\ issue[s] = "new"
    /\ issue' = [issue EXCEPT ![s] = "reap"]
    /\ mintNow' = [mintNow EXCEPT ![s] = dead]
    /\ UNCHANGED <<up, ram, disk, writer, orphans, req, dead, granted, inDoubt>>

\* remove_expired: reap by that clock; nothing reaped, nothing written.
RemoveExpired(s) ==
    LET gone == {t \in mintNow[s] : Known(t)} IN
    /\ up
    /\ issue[s] = "reap"
    /\ \/ /\ gone = {}
          /\ writer.pc = "free"
          /\ issue' = [issue EXCEPT ![s] = "mint"]
          /\ UNCHANGED <<ram, writer>>
       \/ /\ gone # {}
          /\ WriteThrough(Without(ram, gone), "reap", s, NoRedeemer)
          /\ UNCHANGED issue
    /\ UNCHANGED <<up, disk, orphans, mintNow, req, dead, granted, inDoubt>>

\* inv_persist_burn only warns: the mint goes on either way.
FinishReap ==
    /\ writer.pc \in {"stored", "failed"} /\ writer.kind = "reap"
    /\ issue' = [issue EXCEPT ![writer.secret] = "mint"]
    /\ writer' = Free
    /\ UNCHANGED <<up, ram, disk, orphans, mintNow, req, dead, granted, inDoubt>>

\* LiveInvites::mint: the insert.
Mint(s) ==
    /\ up
    /\ issue[s] = "mint"
    /\ WriteThrough([ram EXCEPT ![s] = Uses[s]], "mint", s, NoRedeemer)
    /\ UNCHANGED <<up, disk, orphans, issue, mintNow, req, dead, granted, inDoubt>>

\* Its answer: the invite line, or an error and the insert rolled back.
FinishMint ==
    /\ writer.pc \in {"stored", "failed"} /\ writer.kind = "mint"
    /\ \/ /\ writer.pc = "stored"
          /\ issue' = [issue EXCEPT ![writer.secret] = "told"]
          /\ UNCHANGED ram
       \/ /\ writer.pc = "failed"
          /\ issue' = [issue EXCEPT ![writer.secret] = "failed"]
          /\ ram' = [ram EXCEPT ![writer.secret] = 0]
    /\ writer' = Free
    /\ UNCHANGED <<up, disk, orphans, mintNow, req, dead, granted, inDoubt>>

\* The control client hangs up: serving its connection ends and the tasks of
\* its requests are aborted where they wait.  The lock is released; a store
\* already handed to the blocking pool runs on.
ClientGone(s) ==
    LET holds == writer.kind \in {"reap", "mint"} /\ writer.secret = s IN
    /\ up
    /\ issue[s] \in {"reap", "mint"}
    /\ issue' = [issue EXCEPT ![s] = "failed"]
    /\ writer' = IF holds THEN Free ELSE writer
    /\ orphans' = IF holds /\ writer.pc = "storing" THEN orphans \cup {writer.snap} ELSE orphans
    /\ UNCHANGED <<up, ram, disk, mintNow, req, dead, granted, inDoubt>>

\* Such a store lands, or fails with nobody to roll its mint back.
OrphanEnds(m) ==
    /\ up
    /\ m \in orphans
    /\ orphans' = orphans \ {m}
    /\ disk' \in {disk, m}
    /\ UNCHANGED <<up, ram, writer, issue, mintNow, req, dead, granted, inDoubt>>

-----------------------------------------------------------------------------
(* try_redeem, called by handle_inviter_side *)

\* A hello presents a secret from an invite line that was handed out (any
\* other is unknown); the clock is read before the lock is awaited.
Hello(r, s) ==
    /\ up
    /\ issue[s] = "told"
    /\ req[r].pc = "idle"
    /\ req' = [req EXCEPT ![r] = [pc |-> "waiting", secret |-> s, seen |-> dead]]
    /\ UNCHANGED <<up, ram, disk, writer, orphans, issue, mintNow, dead, granted, inDoubt>>

\* An unknown secret changes nothing and writes nothing.
RedeemUnknown(r) ==
    /\ up
    /\ req[r].pc = "waiting" /\ writer.pc = "free"
    /\ ~Known(req[r].secret)
    /\ req' = [req EXCEPT ![r] = Idle]
    /\ UNCHANGED <<up, ram, disk, writer, orphans, issue, mintNow, dead, granted, inDoubt>>

\* A known secret: dropped if it has expired, else one use is taken.
TryRedeem(r) ==
    LET s == req[r].secret IN
    /\ up
    /\ req[r].pc = "waiting"
    /\ Known(s)
    /\ \/ s \in req[r].seen /\ WriteThrough(Without(ram, {s}), "expired", s, r)
       \/ s \notin req[r].seen /\ WriteThrough([ram EXCEPT ![s] = @ - 1], "redeem", s, r)
    /\ UNCHANGED <<up, disk, orphans, issue, mintNow, req, dead, granted, inDoubt>>

\* An expired secret is refused whether or not its removal was written.
FinishExpired ==
    /\ writer.pc \in {"stored", "failed"} /\ writer.kind = "expired"
    /\ writer' = Free
    /\ req' = [req EXCEPT ![writer.by] = Idle]
    /\ UNCHANGED <<up, ram, disk, orphans, issue, mintNow, dead, granted, inDoubt>>

\* As if a redemption that could not be recorded were only warned about.
WarnedMutant ==
    /\ writer.pc \in {"stored", "failed"} /\ writer.kind = "redeem"
    /\ granted' = [granted EXCEPT ![writer.secret] = @ + 1]
    /\ writer' = Free
    /\ req' = [req EXCEPT ![writer.by] = Idle]
    /\ UNCHANGED <<up, ram, disk, orphans, issue, mintNow, dead, inDoubt>>

\* As if a refused redemption did not give its use back.
SpentMutant ==
    /\ writer.pc \in {"stored", "failed"} /\ writer.kind = "redeem"
    /\ granted' = [granted EXCEPT ![writer.secret] = IF writer.pc = "stored" THEN @ + 1 ELSE @]
    /\ writer' = Free
    /\ req' = [req EXCEPT ![writer.by] = Idle]
    /\ UNCHANGED <<up, ram, disk, orphans, issue, mintNow, dead, inDoubt>>

\* Redeem::Ok once the use is recorded; Unavailable, and the use put back,
\* when it could not be.
FinishRedeem ==
    LET s == writer.secret IN
    /\ writer.pc \in {"stored", "failed"} /\ writer.kind = "redeem"
    /\ \/ /\ writer.pc = "stored"
          /\ granted' = [granted EXCEPT ![s] = @ + 1]
          /\ UNCHANGED ram
       \/ /\ writer.pc = "failed"
          /\ ram' = [ram EXCEPT ![s] = @ + 1]
          /\ UNCHANGED granted
    /\ writer' = Free
    /\ req' = [req EXCEPT ![writer.by] = Idle]
    /\ UNCHANGED <<up, disk, orphans, issue, mintNow, dead, inDoubt>>

-----------------------------------------------------------------------------
(* InviteFile and the process *)

\* InviteFile::store ends: the rename happened, or something before it failed
\* and the file is as it was.
StoreEnds ==
    /\ writer.pc = "storing"
    /\ \/ disk' = writer.snap /\ writer' = [writer EXCEPT !.pc = "stored"]
       \/ disk' = disk /\ writer' = [writer EXCEPT !.pc = "failed"]
    /\ UNCHANGED <<up, ram, orphans, issue, mintNow, req, dead, granted, inDoubt>>

\* An invite's expiry passes.
Expire(s) ==
    /\ issue[s] # "new"
    /\ dead' = dead \cup {s}
    /\ UNCHANGED <<up, ram, disk, writer, orphans, issue, mintNow, req, granted, inDoubt>>

\* The daemon dies: the map, the lock and the running stores are gone.
Crash ==
    /\ up
    /\ up' = FALSE
    /\ ram' = Empty /\ writer' = Free /\ orphans' = {}
    /\ issue' = [s \in Secret |-> IF issue[s] \in {"reap", "mint"} THEN "failed" ELSE issue[s]]
    /\ req' = [r \in Redeemer |-> Idle]
    /\ inDoubt' = [s \in Secret |->
                      IF writer.pc = "stored" /\ writer.kind = "redeem" /\ writer.secret = s
                      THEN inDoubt[s] + 1 ELSE inDoubt[s]]
    /\ UNCHANGED <<disk, mintNow, dead, granted>>

\* LiveInvites::load: what is live on disk; the file is rewritten without the
\* rest, or, if that fails, left as it was.
Restart ==
    /\ ~up
    /\ up' = TRUE
    /\ ram' = Without(disk, dead)
    /\ disk' \in {disk, ram'}
    /\ UNCHANGED <<writer, orphans, issue, mintNow, req, dead, granted, inDoubt>>

-----------------------------------------------------------------------------

Init ==
    /\ up = TRUE
    /\ ram = Empty /\ disk = Empty /\ writer = Free /\ orphans = {}
    /\ issue = [s \in Secret |-> "new"]
    /\ mintNow = [s \in Secret |-> {}]
    /\ req = [r \in Redeemer |-> Idle]
    /\ dead = {}
    /\ granted = Empty /\ inDoubt = Empty

MintStep ==
    \/ \E s \in Secret : MintInvite(s) \/ RemoveExpired(s) \/ Mint(s)
    \/ FinishReap \/ FinishMint

DisconnectStep ==
    \/ \E s \in Secret : ClientGone(s)
    \/ \E m \in orphans : OrphanEnds(m)

RedeemStep ==
    \/ \E r \in Redeemer : RedeemUnknown(r) \/ TryRedeem(r)
    \/ \E r \in Redeemer, s \in Secret : Hello(r, s)
    \/ FinishExpired \/ FinishRedeem

WorldStep == StoreEnds \/ Crash \/ Restart \/ \E s \in Secret : Expire(s)

Next == MintStep \/ RedeemStep \/ WorldStep

\* Minting clients stay connected until they are answered ...
Spec == Init /\ [][Next]_vars

\* ... or may hang up at any moment.
DisconnectSpec == Init /\ [][Next \/ DisconnectStep]_vars

-----------------------------------------------------------------------------
(* Correctness. *)

WriterType == [pc     : {"free", "storing", "stored", "failed"},
               kind   : {"none", "reap", "mint", "expired", "redeem"},
               secret : Secret \cup {NoSecret},
               by     : Redeemer \cup {NoRedeemer},
               snap   : Snapshot]

ReqType == [pc : {"idle", "waiting"}, secret : Secret \cup {NoSecret}, seen : SUBSET Secret]

\* Types; no count ever goes below zero.
TypeOK ==
    /\ up \in BOOLEAN
    /\ ram \in Snapshot /\ disk \in Snapshot
    /\ writer \in WriterType
    /\ orphans \subseteq Snapshot
    /\ issue \in [Secret -> {"new", "reap", "mint", "told", "failed"}]
    /\ mintNow \in [Secret -> SUBSET Secret]
    /\ req \in [Redeemer -> ReqType]
    /\ dead \subseteq Secret
    /\ granted \in Snapshot /\ inDoubt \in Snapshot

\* An invite admits at most the pairings it was minted for, whatever crashes,
\* restarts and failed writes come between ("the count is written here
\* precisely so it cannot be reset by a restart", pairing/persist.rs).
RedeemedAtMost == \A s \in Secret : granted[s] <= Uses[s]

\* Is a redemption of s between taking its use and its answer?
Taking(s) == writer.kind = "redeem" /\ writer.secret = s

\* And no use is lost either: while the daemon runs, each use of an unexpired
\* invite whose line was handed out is in the map, being redeemed, redeemed,
\* or was recorded just before a crash kept its answer back.  A redemption
\* refused as Unavailable costs nothing.
UsesAccounted ==
    up => \A s \in Secret \ dead :
              issue[s] = "told" =>
                  ram[s] + granted[s] + inDoubt[s] + (IF Taking(s) THEN 1 ELSE 0) = Uses[s]

\* Between writes the file holds what the map holds, expired secrets aside: a
\* restart at any idle moment changes nothing (the registry never holds an
\* invite its minter was told it does not have).
DiskAgrees ==
    up /\ writer.pc = "free" => \A s \in Secret \ dead : disk[s] = ram[s]

-----------------------------------------------------------------------------
(* What the proofs carry along with the properties above, for a registry     *)
(* whose minting clients stay connected.                                     *)

\* Who holds the lock, and that nobody else changes the map meanwhile.
LockFacts ==
    /\ orphans = {}
    /\ writer.pc = "free" => writer = Free
    /\ writer.pc # "free" => /\ up
                             /\ writer.kind # "none"
                             /\ writer.secret \in Secret
                             /\ writer.snap = ram
    /\ writer.kind \in {"reap", "mint"} => issue[writer.secret] = writer.kind
    /\ writer.kind = "expired" => writer.secret \in dead
    /\ writer.kind \in {"expired", "redeem"} =>
          /\ writer.by \in Redeemer
          /\ issue[writer.secret] \notin {"new", "reap", "mint"}

\* The clocks read are in the past, and secrets presented were handed out.
ClockFacts ==
    /\ \A s \in Secret : mintNow[s] \subseteq dead
    /\ \A r \in Redeemer :
          /\ req[r].seen \subseteq dead
          /\ req[r].pc = "waiting" => req[r].secret \in Secret /\ issue[req[r].secret] = "told"

\* What the map said of s before the write in progress.
Before(s) ==
    IF writer.kind = "redeem" /\ writer.secret = s THEN ram[s] + 1
    ELSE IF writer.kind = "mint" /\ writer.secret = s THEN 0
    ELSE ram[s]

\* The file holds the map as it is, or as it was before an unfinished write.
DiskFacts ==
    up => \A s \in Secret \ dead :
              disk[s] = IF writer.pc \in {"storing", "failed"} THEN Before(s) ELSE ram[s]

\* Is s being inserted?
Minting(s) == writer.kind = "mint" /\ writer.secret = s

\* Nothing is known of a secret before its insert, and then it is unused.
FreshFacts ==
    /\ \A s \in Secret :
          issue[s] \in {"new", "reap", "mint"} =>
              /\ granted[s] = 0 /\ inDoubt[s] = 0
              /\ ~Minting(s) => ram[s] = 0 /\ disk[s] = 0
    /\ writer.kind = "mint" => ram[writer.secret] = Uses[writer.secret]

\* Neither the map nor the file ever holds more uses than are left.
LeftFacts ==
    \A s \in Secret :
        /\ ram[s] + granted[s] + (IF Taking(s) THEN 1 ELSE 0) <= Uses[s]
        /\ disk[s] + granted[s] + (IF Taking(s) /\ writer.pc = "stored" THEN 1 ELSE 0) <= Uses[s]

\* The ledger of UsesAccounted, and of the file while the daemon is down.
DownAccounted ==
    ~up => \A s \in Secret \ dead :
               issue[s] = "told" => disk[s] + granted[s] + inDoubt[s] = Uses[s]

Inv == /\ TypeOK /\ LockFacts /\ ClockFacts /\ DiskFacts /\ FreshFacts
       /\ LeftFacts /\ UsesAccounted /\ DownAccounted
=============================================================================
