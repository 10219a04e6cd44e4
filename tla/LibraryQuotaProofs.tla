----------------------- MODULE LibraryQuotaProofs -----------------------
(***************************************************************************)
(* Proofs that the quota columns of Library agree with the records users   *)
(* hold, on top of KeptInv of LibraryRecordsProofs (nothing is gifted): a  *)
(* user is never charged more places than it holds records, however many   *)
(* requests it sends at a time, and exactly as many for each visibility    *)
(* when it sends them one after the other.                                 *)
(*                                                                         *)
(* Four steps change a record, an association or a count (Changes); each   *)
(* charges what it changes because it runs under the row lock of its user, *)
(* a deletion too (DeleteLocked).                                          *)
(***************************************************************************)
EXTENDS LibraryRecordsProofs

\* The records that user u holds as normal.
Normal(u) == {s \in Ids : assoc[u][s] = "normal"}

\* The transaction of a deletion holds the row lock of its user.
DeleteLocked ==
  \A p \in Procs :
    req[p].op = "delete" /\ pc[p] \in {"dropAssoc", "countRefs", "commitDrop"}
      => lock[req[p].user] = p

--------------------------------------------------------------------------

LEMMA Changes ==
  ASSUME KeptInv, NEW p \in Procs, Arrive(p) \/ Step(p) \/ CutOff(p)
  PROVE  \/ UNCHANGED <<skin, assoc, used>>
         \/ InsertSkin(p) \/ UpdateSkin(p) \/ CommitDelete(p) \/ CountPrivate(p)
  <1> DEFINE c == req[p]
  <1>1. c \in Requests /\ Shape(c, pc[p]) /\ RecordKnown(p) /\ KeptKnown(p)
    BY KnownRequest DEF KeptInv, RecordInv
  <1>2. CASE Arrive(p)
    BY <1>2 DEF Arrive, Upload, StartUpdate, StartDelete, StartGift, StartRevoke,
       StartRecalculate, tables
  <1>3. CASE QuotaStep(p)
    BY <1>3 DEF QuotaStep, LockQuota, QuotaRefused, QuotaMissing, InsertQuota,
       InsertQuotaFails, Acquire, Rollback, tables
  <1>4. CASE CreateStep(p)
    <2>1. CASE AssocFound(p)
      <3>1. c.user \in Users /\ c.op = "create" /\ lock[c.user] = p
        BY <1>1, <2>1 DEF AssocFound, At, Shape, KeptInv, RecordInv, Inv, Locked, NeedsLock
      <3> QED
        BY <2>1, <3>1, WriteSeen DEF AssocFound, KeptInv, RecordInv
    <2>2. ~InsertAssoc(p)
      <3> SUFFICES ASSUME InsertAssoc(p) PROVE FALSE
        OBVIOUS
      <3>1. c.user \in Users /\ c.skin \in Ids /\ c.op = "create" /\ Live(c.skin)
        BY <1>1 DEF InsertAssoc, At, Shape
      <3>2. skin[c.skin].owner = c.user /\ c.user # None
        BY <1>1, <3>1, NoneAssumption DEF RecordKnown
      <3> QED
        BY <3>1, <3>2 DEF InsertAssoc, Associated, KeptInv, OwnerHolds
    <2> QED
      BY <1>4, <2>1, <2>2 DEF CreateStep, HashUnknown, HashOfOther, HashOfOwn,
         AssocMissing, InsertAssocFails, InsertSkinFails, VerifyFile, Rollback, tables
  <1>5. CASE UpdateStep(p)
    BY <1>5 DEF UpdateStep, ReadSkinForUpdate, UpdateRefused, CheckAssocForUpdate,
       UpdateDenied, UpdateSkinFails, Rollback, tables
  <1>6. CASE DeleteStep(p)
    <2>1. ~CommitRevoke(p)
      BY <1>1 DEF CommitRevoke, KeptKnown
    <2> QED
      BY <1>6, <2>1 DEF DeleteStep, ReadSkinForDelete, DeleteRefused, CheckAssocForDelete,
         DeleteDenied, ReadOwnSkin, OwnSkinGone, DropAssoc, CountRefs, DeleteFile,
         Rollback, tables
  <1>7. CASE AdminStep(p)
    <2>1. pc[p] \notin {"checkGift", "insertGift"}
      BY <1>1 DEF Shape, KeptKnown
    <2> QED
      BY <1>7, <2>1 DEF AdminStep, CheckGift, GiftDenied, InsertGift, InsertGiftFails,
         CountPublic, At, tables
  <1> QED
    BY <1>2, <1>3, <1>4, <1>5, <1>6, <1>7 DEF Step, CutOff, Rollback, tables

\* Reading the quota makes a row and changes no count.
LEMMA GetQuotaReads ==
  ASSUME Inv, NEW u \in Users, GetQuota(u)
  PROVE  UNCHANGED <<skin, assoc, lock, file, pc, req, used>>
  <1>1. used[u] = ZeroUsed
    BY DEF GetQuota, Inv, RowZero
  <1> QED
    BY <1>1 DEF GetQuota, WriteQuota, Inv, TypeOK

\* What an upload's commit does: it charges the place of the record it makes.
LEMMA InsertSkinDoes ==
  ASSUME KeptInv, NEW p \in Procs, InsertSkin(p)
  PROVE  LET c == req[p] IN
         /\ c.user \in Users /\ c.file \in Ids /\ c.vis \in Vis
         /\ lock[c.user] = p
         /\ skin[c.file] = None /\ \A u \in Users : assoc[u][c.file] = "none"
         /\ skin'[c.file] # None /\ skin'[c.file].vis = c.vis
         /\ \A s \in Ids \ {c.file} : skin'[s] = skin[s]
         /\ \A u \in Users, s \in Ids :
              assoc'[u][s] = IF u = c.user /\ s = c.file THEN "normal" ELSE assoc[u][s]
         /\ \A u \in Users, v \in Vis :
              used'[u][v] = IF u = c.user /\ v = c.vis THEN used[u][v] + 1 ELSE used[u][v]
  <1> DEFINE c == req[p]
             new == [owner |-> c.user, hash |-> c.hash, vis |-> c.vis]
  <1>1. c \in Requests /\ Shape(c, pc[p]) /\ pc[p] = "insertSkin"
    BY KnownRequest DEF KeptInv, RecordInv, InsertSkin, At
  <1>2. /\ c.user \in Users /\ c.file \in Ids /\ c.vis \in Vis /\ c.hash \in Hashes
        /\ c.op = "create" /\ Uploading(p) /\ lock[c.user] = p
    BY <1>1 DEF Shape, Uploading, KeptInv, RecordInv, Inv, Locked, NeedsLock
  <1>3. skin[c.file] = None /\ \A u \in Users : assoc[u][c.file] = "none"
    BY <1>2 DEF KeptInv, RecordInv, Fresh, Untouched
  <1>4. /\ skin' = [skin EXCEPT ![c.file] = new]
        /\ assoc' = [assoc EXCEPT ![c.user][c.file] = "normal"]
        /\ used' = [used EXCEPT ![c.user] = NewUsed(c)]
    BY DEF InsertSkin, WriteQuota
  <1>5. new # None /\ new.vis = c.vis
    <2>1. new \in Records
      BY <1>2 DEF Records
    <2> QED
      BY <2>1, RecordsAssumption
  <1>6. c.seen = used[c.user]
    BY <1>2 DEF KeptInv, RecordInv, Inv, LockKnows, Knows
  <1>7. \A v \in Vis : NewUsed(c)[v] = IF v = c.vis THEN used[c.user][v] + 1 ELSE used[c.user][v]
    BY <1>2, <1>6 DEF NewUsed
  <1> HIDE DEF new
  <1> QED
    BY <1>2, <1>3, <1>4, <1>5, <1>7 DEF KeptInv, RecordInv, Inv, TypeOK

\* What an update does: it moves a place when the visibility differs from the
\* one that was read.
LEMMA UpdateSkinDoes ==
  ASSUME KeptInv, NEW p \in Procs, UpdateSkin(p)
  PROVE  LET c == req[p] IN
         /\ c.user \in Users /\ c.skin \in Ids /\ c.vis \in Vis /\ c.old \in Vis
         /\ c.op = "update" /\ pc[p] = "updateSkin"
         /\ skin[c.skin] # None /\ skin[c.skin].owner = c.user
         /\ assoc[c.user][c.skin] = "normal"
         /\ skin'[c.skin] # None /\ skin'[c.skin].vis = c.vis
         /\ skin'[c.skin].owner = c.user
         /\ \A s \in Ids \ {c.skin} : skin'[s] = skin[s]
         /\ assoc' = assoc
         /\ c.old = c.vis => used' = used
         /\ c.old # c.vis =>
              /\ lock[c.user] = p
              /\ used[c.user][c.old] > 0
              /\ \A u \in Users, v \in Vis :
                   used'[u][v] = IF u # c.user THEN used[u][v]
                                 ELSE IF v = c.vis THEN used[u][v] + 1 ELSE used[u][v] - 1
  <1> DEFINE c == req[p]
  <1>1. c \in Requests /\ Shape(c, pc[p]) /\ pc[p] = "updateSkin" /\ RecordKnown(p)
    BY KnownRequest DEF KeptInv, RecordInv, UpdateSkin, At
  <1>2. /\ c.user \in Users /\ c.skin \in Ids /\ c.vis \in Vis /\ c.old \in Vis
        /\ c.op = "update" /\ skin[c.skin] # None /\ skin[c.skin].owner = c.user
    BY <1>1 DEF Shape, RecordKnown, UpdateSkin, Live
  <1>3. assoc[c.user][c.skin] = "normal"
    BY <1>2, NoneAssumption DEF KeptInv, OwnerHolds, Live
  <1>4. skin' = [skin EXCEPT ![c.skin].vis = c.vis] /\ assoc' = assoc
    BY DEF UpdateSkin
  <1>5. skin[c.skin] \in Records
    BY <1>2 DEF KeptInv, RecordInv, Inv, TypeOK
  <1>6. /\ skin'[c.skin] # None /\ skin'[c.skin].vis = c.vis
        /\ skin'[c.skin].owner = c.user
    <2>1. skin'[c.skin] = [skin[c.skin] EXCEPT !.vis = c.vis]
      BY <1>2, <1>4 DEF KeptInv, RecordInv, Inv, TypeOK
    <2>2. skin'[c.skin] \in Records
      BY <1>2, <1>5, <2>1 DEF Records
    <2> QED
      BY <1>2, <1>5, <2>1, <2>2, RecordsAssumption DEF Records
  <1>7. \A s \in Ids \ {c.skin} : skin'[s] = skin[s]
    BY <1>4 DEF KeptInv, RecordInv, Inv, TypeOK
  <1>8. c.old = c.vis => used' = used
    BY DEF UpdateSkin
  <1>9. ASSUME c.old # c.vis
        PROVE  /\ lock[c.user] = p
               /\ used[c.user][c.old] > 0
               /\ \A u \in Users, v \in Vis :
                    used'[u][v] = IF u # c.user THEN used[u][v]
                                  ELSE IF v = c.vis THEN used[u][v] + 1 ELSE used[u][v] - 1
    <2>1. lock[c.user] = p
      BY <1>1, <1>9 DEF KeptInv, RecordInv, Inv, Locked, NeedsLock
    <2>2. c.seen = used[c.user] /\ used[c.user][c.old] > 0
      BY <1>2, <2>1 DEF KeptInv, RecordInv, Inv, LockKnows, Knows, Admits
    <2>3. used' = [used EXCEPT ![c.user] = NewUsed(c)]
      BY <1>9 DEF UpdateSkin, WriteQuota
    <2>4. \A v \in Vis : v # c.vis => v = c.old
      BY <1>2, <1>9 DEF Vis
    <2>5. \A v \in Vis : NewUsed(c)[v] = IF v = c.vis THEN used[c.user][v] + 1
                                                     ELSE used[c.user][v] - 1
      BY <1>2, <1>9, <2>2, <2>4 DEF NewUsed
    <2> QED
      BY <1>2, <2>1, <2>2, <2>3, <2>5 DEF KeptInv, RecordInv, Inv, TypeOK
  <1> QED
    BY <1>1, <1>2, <1>3, <1>4, <1>6, <1>7, <1>8, <1>9

\* What a deletion's commit does: it gives back the place that was read.
LEMMA CommitDeleteDoes ==
  ASSUME KeptInv, DeleteLocked, NEW p \in Procs, CommitDelete(p)
  PROVE  LET c == req[p] IN
         /\ c.user \in Users /\ c.skin \in Ids /\ c.old \in Vis
         /\ c.op = "delete" /\ pc[p] = "commitDrop"
         /\ lock[c.user] = p
         /\ c.last => Live(c.skin) /\ assoc[c.user][c.skin] = "normal"
         /\ ~c.last => ~Live(c.skin)
         /\ \A s \in Ids : skin'[s] = IF c.last /\ s = c.skin THEN None ELSE skin[s]
         /\ \A u \in Users, s \in Ids :
              assoc'[u][s] = IF c.last /\ u = c.user /\ s = c.skin THEN "none" ELSE assoc[u][s]
         /\ used[c.user][c.old] > 0
         /\ \A u \in Users, v \in Vis :
              used'[u][v] = IF u = c.user /\ v = c.old THEN used[u][v] - 1 ELSE used[u][v]
  <1> DEFINE c == req[p]
  <1>1. CommitDrop(p) /\ pc[p] = "commitDrop" /\ c.op = "delete"
    BY DEF CommitDelete, CommitDrop, At
  <1>2. /\ c.user \in Users /\ c.skin \in Ids
        /\ c.last => Live(c.skin) /\ assoc[c.user][c.skin] = "normal"
        /\ ~c.last => ~Live(c.skin)
        /\ \A s \in Ids : skin'[s] = IF c.last /\ s = c.skin THEN None ELSE skin[s]
        /\ \A u \in Users, s \in Ids :
             assoc'[u][s] = IF c.last /\ u = c.user /\ s = c.skin THEN "none" ELSE assoc[u][s]
    BY <1>1, DropKept
  <1>3. lock[c.user] = p
    BY <1>1 DEF DeleteLocked
  <1>4. c.old \in Vis /\ c.seen = used[c.user] /\ used[c.user][c.old] > 0
    BY <1>1, <1>2, <1>3 DEF KeptInv, RecordInv, Inv, LockKnows, Knows, Admits
  <1>5. used' = [used EXCEPT ![c.user] = NewUsed(c)]
    BY <1>1, <1>2, <1>3 DEF CommitDrop, Holds, WriteQuota
  <1>6. \A v \in Vis : NewUsed(c)[v] = IF v = c.old THEN used[c.user][v] - 1 ELSE used[c.user][v]
    BY <1>1, <1>4 DEF NewUsed
  <1>7. \A u \in Users, v \in Vis :
          used'[u][v] = IF u = c.user /\ v = c.old THEN used[u][v] - 1 ELSE used[u][v]
    BY <1>2, <1>5, <1>6 DEF KeptInv, RecordInv, Inv, TypeOK
  <1> QED
    BY <1>1, <1>2, <1>3, <1>4, <1>7

--------------------------------------------------------------------------
\* A step of slot p leaves the locks of the others.
LEMMA LockAlone ==
  ASSUME Inv, NEW p \in Procs, Arrive(p) \/ Step(p) \/ CutOff(p),
         NEW u \in Users, NEW q \in Procs \ {p}
  PROVE  lock'[u] = q <=> lock[u] = q
  <1>1. ASSUME Release(p) PROVE lock'[u] = q <=> lock[u] = q
    BY <1>1, NoneAssumption DEF Release, Inv, TypeOK
  <1>2. ASSUME lock' = lock PROVE lock'[u] = q <=> lock[u] = q
    BY <1>2
  <1>3. CASE Arrive(p)
    BY <1>2, <1>3 DEF Arrive, Upload, StartUpdate, StartDelete, StartGift, StartRevoke,
       StartRecalculate
  <1>4. CASE QuotaStep(p)
    <2>1. ASSUME LockQuota(p) \/ InsertQuota(p) PROVE lock'[u] = q <=> lock[u] = q
      <3>1. lock[req[p].user] = None /\ lock' = [lock EXCEPT ![req[p].user] = p]
        BY <2>1 DEF LockQuota, InsertQuota, Acquire
      <3> QED
        BY <3>1, NoneAssumption DEF Inv, TypeOK
    <2> QED
      BY <1>1, <1>2, <1>4, <2>1 DEF QuotaStep, QuotaRefused, QuotaMissing,
         InsertQuotaFails, Rollback, Finish
  <1>5. CASE CreateStep(p)
    BY <1>1, <1>2, <1>5 DEF CreateStep, HashUnknown, HashOfOther, HashOfOwn, AssocFound,
       AssocMissing, InsertAssoc, InsertAssocFails, InsertSkin, InsertSkinFails, VerifyFile,
       CommitCreate, Rollback, Finish
  <1>6. CASE UpdateStep(p)
    BY <1>1, <1>2, <1>6 DEF UpdateStep, ReadSkinForUpdate, UpdateRefused, CheckAssocForUpdate,
       UpdateDenied, UpdateSkin, UpdateSkinFails, Rollback, Finish
  <1>7. CASE DeleteStep(p)
    BY <1>1, <1>2, <1>7 DEF DeleteStep, ReadSkinForDelete, DeleteRefused, CheckAssocForDelete,
       DeleteDenied, ReadOwnSkin, OwnSkinGone, DropAssoc, CountRefs, CommitDelete,
       CommitRevoke, DeleteFile, Rollback, Finish
  <1>8. CASE AdminStep(p)
    BY <1>1, <1>2, <1>8 DEF AdminStep, CheckGift, GiftDenied, InsertGift, InsertGiftFails,
       CountPublic, CountPrivate, Rollback, Finish
  <1> QED
    BY <1>1, <1>3, <1>4, <1>5, <1>6, <1>7, <1>8 DEF Step, CutOff, Rollback, Finish

LEMMA DeleteLockedKept ==
  ASSUME KeptInv, DeleteLocked, NEW p \in Procs, Arrive(p) \/ Step(p) \/ CutOff(p)
  PROVE  DeleteLocked'
  <1> DEFINE c == req[p]
             L == {"dropAssoc", "countRefs", "commitDrop"}
  <1>1. c \in Requests /\ Shape(c, pc[p]) /\ KeptKnown(p)
    BY KnownRequest DEF KeptInv, RecordInv
  <1>2. ASSUME NEW q \in Procs \ {p}, req'[q].op = "delete", pc'[q] \in L
        PROVE  lock'[req'[q].user] = q
    <2>1. pc'[q] = pc[q] /\ req'[q] = req[q]
      BY StepAlone DEF Alone, KeptInv, RecordInv
    <2>2. lock[req[q].user] = q /\ req[q].user \in Users
      BY <1>2, <2>1, KnownRequest DEF DeleteLocked, KeptInv, RecordInv, Shape
    <2> QED
      BY <2>1, <2>2, LockAlone DEF KeptInv, RecordInv
  <1>3. ASSUME req'[p].op = "delete", pc'[p] \in L
        PROVE  lock'[req'[p].user] = p
    <2>1. ASSUME NEW l, pc' = [pc EXCEPT ![p] = l] PROVE l \in L
      BY <1>3, <2>1 DEF KeptInv, RecordInv, Inv, TypeOK
    <2>2. ~Finish(p)
      BY <2>1 DEF Finish, Goto
    <2>3. ~Arrive(p)
      <3>1. ASSUME NEW u \in Users, NEW s \in Ids, StartRevoke(p, u, s) PROVE FALSE
        BY <3>1 DEF StartRevoke, KeptInv, OnlyNormal
      <3> QED
        BY <2>1, <3>1 DEF Arrive, Upload, StartUpdate, StartDelete, StartGift,
           StartRecalculate, Goto
    <2>4. CASE QuotaStep(p)
      <3>1. PICK q : Acquire(p, q) /\ pc[p] \in {"lockQuota", "insertQuota"}
        BY <2>1, <2>2, <2>4 DEF QuotaStep, LockQuota, InsertQuota, QuotaRefused, QuotaMissing,
           InsertQuotaFails, Rollback, Goto, At
      <3>2. c.user \in Users
        BY <1>1, <3>1 DEF Shape
      <3>3. req'[p].user = c.user
        BY <1>1, <3>1 DEF Acquire, Requests, KeptInv, RecordInv, Inv, TypeOK
      <3> QED
        BY <3>1, <3>2, <3>3 DEF Acquire, KeptInv, RecordInv, Inv, TypeOK
    <2>5. ~CreateStep(p) /\ ~UpdateStep(p) /\ ~AdminStep(p)
      <3>1. ~CreateStep(p)
        BY <2>1, <2>2 DEF CreateStep, HashUnknown, HashOfOther, HashOfOwn, AssocFound,
           AssocMissing, InsertAssoc, InsertAssocFails, InsertSkin, InsertSkinFails,
           VerifyFile, CommitCreate, Rollback, Goto
      <3>2. ~UpdateStep(p)
        <4>1. ~CheckAssocForUpdate(p)
          BY <2>1 DEF CheckAssocForUpdate, Goto
        <4> QED
          BY <2>1, <2>2, <4>1 DEF UpdateStep, ReadSkinForUpdate, UpdateRefused,
             UpdateDenied, UpdateSkin, UpdateSkinFails, Rollback, Goto
      <3>3. ~AdminStep(p)
        BY <2>1, <2>2 DEF AdminStep, CheckGift, GiftDenied, InsertGift, InsertGiftFails,
           CountPublic, CountPrivate, Rollback, Goto
      <3> QED
        BY <3>1, <3>2, <3>3
    <2>6. CASE DeleteStep(p)
      <3>1. ~CheckAssocForDelete(p)
        <4> SUFFICES ASSUME CheckAssocForDelete(p) PROVE FALSE
          OBVIOUS
        <4>1. c.user \in Users /\ c.skin \in Ids /\ Associated(c.user, c.skin)
          BY <1>1 DEF CheckAssocForDelete, At, Shape
        <4>2. assoc[c.user][c.skin] = "normal"
          BY <4>1 DEF KeptInv, OnlyNormal, Associated
        <4>3. pc'[p] = "readOwnSkin"
          BY <4>2 DEF CheckAssocForDelete, Goto, KeptInv, RecordInv, Inv, TypeOK
        <4> QED
          BY <1>3, <4>3
      <3>2. DropAssoc(p) \/ CountRefs(p)
        BY <2>1, <2>2, <2>6, <3>1 DEF DeleteStep, ReadSkinForDelete, DeleteRefused,
           DeleteDenied, ReadOwnSkin, OwnSkinGone, CommitDelete, CommitRevoke, DeleteFile,
           Rollback, Goto
      <3>3. pc[p] \in L /\ c.op = "delete" /\ lock' = lock
        BY <1>1, <3>2 DEF DropAssoc, CountRefs, At, Shape, KeptKnown
      <3>4. req'[p].user = c.user
        BY <1>1, <3>2 DEF DropAssoc, CountRefs, Requests, KeptInv, RecordInv, Inv, TypeOK
      <3> QED
        BY <3>3, <3>4 DEF DeleteLocked
    <2> QED
      BY <2>2, <2>3, <2>4, <2>5, <2>6 DEF Step, CutOff, Rollback
  <1> QED
    BY <1>2, <1>3 DEF DeleteLocked

--------------------------------------------------------------------------
(***************************************************************************)
(* No user is overcharged.                                                 *)
(***************************************************************************)

NoRecalculations == \A p \in Procs, u \in Users : <<"recalculate", u>> \notin Work[p]

ChargeInv == KeptInv /\ DeleteLocked /\ NeverOvercharged

LEMMA NormalFinite ==
  ASSUME NEW u
  PROVE  IsFiniteSet(Normal(u)) /\ Cardinality(Normal(u)) \in Nat
  <1>1. Normal(u) \in SUBSET Ids
    BY DEF Normal
  <1> QED
    BY <1>1, IdsAssumption, FS_Subset, FS_CardinalityType

\* Places are charged and given back together with records.
LEMMA StepCharge ==
  ASSUME NoRecalculations, ChargeInv, NEW p \in Procs, Arrive(p) \/ Step(p) \/ CutOff(p)
  PROVE  NeverOvercharged'
  <1> DEFINE c == req[p]
  <1>1. \A u \in Users :
          /\ used[u]["public"] + used[u]["private"] <= Cardinality(Normal(u))
          /\ used[u]["public"] \in Nat /\ used[u]["private"] \in Nat
    BY DEF ChargeInv, NeverOvercharged, Normal, KeptInv, RecordInv, Inv, TypeOK, Vis
  <1> SUFFICES ASSUME NEW u \in Users
               PROVE  used'[u]["public"] + used'[u]["private"] <= Cardinality(Normal(u)')
    BY DEF NeverOvercharged, Normal
  <1>2. CASE UNCHANGED <<skin, assoc, used>>
    BY <1>1, <1>2 DEF Normal
  <1>3. CASE InsertSkin(p)
    <2>1. /\ c.user \in Users /\ c.file \in Ids /\ c.vis \in Vis
          /\ assoc[c.user][c.file] = "none"
          /\ \A w \in Users, s \in Ids :
               assoc'[w][s] = IF w = c.user /\ s = c.file THEN "normal" ELSE assoc[w][s]
          /\ \A w \in Users, v \in Vis :
               used'[w][v] = IF w = c.user /\ v = c.vis THEN used[w][v] + 1 ELSE used[w][v]
      BY <1>3, InsertSkinDoes DEF ChargeInv
    <2>2. CASE u = c.user
      <3>1. Normal(u)' = Normal(u) \cup {c.file} /\ c.file \notin Normal(u)
        BY <2>1, <2>2 DEF Normal
      <3>2. Cardinality(Normal(u)') = Cardinality(Normal(u)) + 1
        BY <3>1, NormalFinite, FS_AddElement
      <3>3. used'[u]["public"] + used'[u]["private"] = used[u]["public"] + used[u]["private"] + 1
        BY <1>1, <2>1, <2>2 DEF Vis
      <3> QED
        BY <1>1, <3>2, <3>3, NormalFinite
    <2>3. CASE u # c.user
      <3>1. Normal(u)' = Normal(u)
        BY <2>1, <2>3 DEF Normal
      <3> QED
        BY <1>1, <2>1, <2>3, <3>1 DEF Vis
    <2> QED
      BY <2>2, <2>3
  <1>4. CASE UpdateSkin(p)
    <2>1. /\ c.user \in Users /\ c.vis \in Vis /\ c.old \in Vis /\ assoc' = assoc
          /\ c.old = c.vis => used' = used
          /\ c.old # c.vis =>
               \A w \in Users, v \in Vis :
                 used'[w][v] = IF w # c.user THEN used[w][v]
                               ELSE IF v = c.vis THEN used[w][v] + 1 ELSE used[w][v] - 1
      BY <1>4, UpdateSkinDoes DEF ChargeInv
    <2>2. used'[u]["public"] + used'[u]["private"] = used[u]["public"] + used[u]["private"]
      BY <1>1, <2>1 DEF Vis
    <2>3. Normal(u)' = Normal(u)
      BY <2>1 DEF Normal
    <2> QED
      BY <1>1, <2>2, <2>3
  <1>5. CASE CommitDelete(p)
    <2>1. /\ c.user \in Users /\ c.skin \in Ids /\ c.old \in Vis
          /\ c.last => assoc[c.user][c.skin] = "normal"
          /\ \A w \in Users, s \in Ids :
               assoc'[w][s] = IF c.last /\ w = c.user /\ s = c.skin THEN "none" ELSE assoc[w][s]
          /\ \A w \in Users, v \in Vis :
               used'[w][v] = IF w = c.user /\ v = c.old THEN used[w][v] - 1 ELSE used[w][v]
      BY <1>5, CommitDeleteDoes DEF ChargeInv
    <2>2. CASE u = c.user
      <3>1. used'[u]["public"] + used'[u]["private"] = used[u]["public"] + used[u]["private"] - 1
        BY <1>1, <2>1, <2>2 DEF Vis
      <3>2. Cardinality(Normal(u)') >= Cardinality(Normal(u)) - 1
        <4>1. CASE c.last
          <5>1. Normal(u)' = Normal(u) \ {c.skin}
            BY <2>1, <2>2, <4>1 DEF Normal
          <5>2. Cardinality(Normal(u) \ {c.skin}) \in
                  {Cardinality(Normal(u)) - 1, Cardinality(Normal(u))}
            BY NormalFinite, FS_RemoveElement
          <5> QED
            BY <5>1, <5>2, NormalFinite
        <4>2. CASE ~c.last
          <5>1. Normal(u)' = Normal(u)
            BY <2>1, <4>2 DEF Normal
          <5> QED
            BY <5>1, NormalFinite
        <4> QED
          BY <4>1, <4>2
      <3>3. Cardinality(Normal(u)') \in Nat
        <4>1. Normal(u)' \in SUBSET Ids
          BY DEF Normal
        <4> QED
          BY <4>1, IdsAssumption, FS_Subset, FS_CardinalityType
      <3> QED
        BY <1>1, <3>1, <3>2, <3>3, NormalFinite
    <2>3. CASE u # c.user
      <3>1. Normal(u)' = Normal(u)
        BY <2>1, <2>3 DEF Normal
      <3> QED
        BY <1>1, <2>1, <2>3, <3>1 DEF Vis
    <2> QED
      BY <2>2, <2>3
  <1>6. ~CountPrivate(p)
    <2> SUFFICES ASSUME CountPrivate(p) PROVE FALSE
      OBVIOUS
    <2>1. c.op = "recalculate" /\ c.user \in Users
      BY KnownRequest DEF ChargeInv, KeptInv, RecordInv, CountPrivate, At, Shape
    <2> QED
      BY <2>1, NoneAssumption DEF ChargeInv, KeptInv, Served, NoRecalculations
  <1> QED
    BY <1>2, <1>3, <1>4, <1>5, <1>6, Changes DEF ChargeInv

LEMMA InitCharge == Init => ChargeInv
  <1> SUFFICES ASSUME Init PROVE ChargeInv
    OBVIOUS
  <1>1. KeptInv /\ DeleteLocked
    BY InitKept DEF Init, DeleteLocked
  <1>2. ASSUME NEW u \in Users
        PROVE  used[u]["public"] + used[u]["private"] <= Cardinality(Normal(u))
    <2>1. used[u]["public"] = 0 /\ used[u]["private"] = 0
      BY DEF Init, ZeroUsed, Vis
    <2> QED
      BY <2>1, NormalFinite
  <1> QED
    BY <1>1, <1>2 DEF ChargeInv, NeverOvercharged, Normal

LEMMA NextCharge ==
  ASSUME NoGifts, NoRecalculations, ChargeInv, [Next]_vars
  PROVE  ChargeInv'
  <1>1. KeptInv'
    BY NextKept DEF ChargeInv
  <1>2. ASSUME NEW p \in Procs, Arrive(p) \/ Step(p) \/ CutOff(p) PROVE ChargeInv'
    BY <1>1, <1>2, DeleteLockedKept, StepCharge DEF ChargeInv
  <1>3. ASSUME UNCHANGED <<assoc, used, lock, pc, req>> PROVE ChargeInv'
    BY <1>1, <1>3 DEF ChargeInv, DeleteLocked, NeverOvercharged
  <1>4. ASSUME NEW u \in Users, GetQuota(u) PROVE ChargeInv'
    BY <1>3, <1>4, GetQuotaReads DEF ChargeInv, KeptInv, RecordInv
  <1> QED
    BY <1>2, <1>3, <1>4 DEF Next, vars

\* The drift of the quota under concurrent requests is never to the user's
\* loss: no more places are charged than records are held.
THEOREM NotOvercharged ==
  ASSUME NoGifts, NoRecalculations
  PROVE  Spec => []NeverOvercharged
  <1>1. ChargeInv /\ [Next]_vars => ChargeInv'
    BY NextCharge
  <1>2. ChargeInv => NeverOvercharged
    BY DEF ChargeInv
  <1> QED
    BY <1>1, <1>2, InitCharge, PTL DEF Spec

--------------------------------------------------------------------------
(***************************************************************************)
(* The quota is exact when users send their requests one after the other.  *)
(***************************************************************************)

\* One slot serves the requests of a user; recalculations may run in any.
Serial ==
  \A u \in Users, p, q \in Procs, a, b \in {"create", "update", "delete"} :
    <<a, u>> \in Work[p] /\ <<b, u>> \in Work[q] => p = q

\* What a request has read is still so: the visibility of the record it changes
\* and, between its two counts, what a recalculation has counted.
ExactKnown(p) ==
  /\ req[p].op = "update" /\ pc[p] # "readSkin" /\ Live(req[p].skin) =>
       skin[req[p].skin].vis = req[p].old
  /\ req[p].op = "delete" /\ pc[p] \notin {"readSkin", "checkAssoc", "deleteFile"} =>
       /\ Associated(req[p].user, req[p].skin)
       /\ pc[p] # "readOwnSkin" => skin[req[p].skin].vis = req[p].old
  /\ pc[p] = "countPrivate" =>
       req[p].seen["public"] = Cardinality(Counted(req[p].user, "public"))

ExactInv ==
  /\ KeptInv
  /\ DeleteLocked
  /\ QuotaExact
  /\ \A p \in Procs : ExactKnown(p)

LEMMA CountedFinite ==
  ASSUME NEW u, NEW v
  PROVE  IsFiniteSet(Counted(u, v))
  <1>1. Counted(u, v) \in SUBSET Ids
    BY DEF Counted
  <1> QED
    BY <1>1, IdsAssumption, FS_Subset

\* A step changes what counts for a user only under the user's row lock, and
\* then charges the difference.
LEMMA StepExact ==
  ASSUME ExactInv, NEW p \in Procs, Arrive(p) \/ Step(p) \/ CutOff(p), NEW u \in Users,
         NEW v \in Vis
  PROVE  /\ used'[u][v] = Cardinality(Counted(u, v)')
         /\ lock[u] # p => Counted(u, v)' = Counted(u, v)
  <1> DEFINE c == req[p]
  <1>1. used[u][v] = Cardinality(Counted(u, v)) /\ used[u][v] \in Nat
    BY DEF ExactInv, QuotaExact, KeptInv, RecordInv, Inv, TypeOK
  <1>2. ASSUME UNCHANGED <<skin, assoc>> PROVE Counted(u, v)' = Counted(u, v)
    BY <1>2 DEF Counted, Live
  <1>3. CASE UNCHANGED <<skin, assoc, used>>
    BY <1>1, <1>2, <1>3
  <1>4. CASE InsertSkin(p)
    <2>1. /\ c.user \in Users /\ c.file \in Ids /\ c.vis \in Vis /\ lock[c.user] = p
          /\ skin[c.file] = None /\ \A w \in Users : assoc[w][c.file] = "none"
          /\ skin'[c.file] # None /\ skin'[c.file].vis = c.vis
          /\ \A s \in Ids \ {c.file} : skin'[s] = skin[s]
          /\ \A w \in Users, s \in Ids :
               assoc'[w][s] = IF w = c.user /\ s = c.file THEN "normal" ELSE assoc[w][s]
          /\ used'[u][v] = IF u = c.user /\ v = c.vis THEN used[u][v] + 1 ELSE used[u][v]
      BY <1>4, InsertSkinDoes DEF ExactInv
    <2>2. CASE u = c.user /\ v = c.vis
      <3>1. Counted(u, v)' = Counted(u, v) \cup {c.file} /\ c.file \notin Counted(u, v)
        BY <2>1, <2>2 DEF Counted, Live
      <3>2. Cardinality(Counted(u, v)') = Cardinality(Counted(u, v)) + 1
        BY <3>1, CountedFinite, FS_AddElement
      <3> QED
        BY <1>1, <2>1, <2>2, <3>2
    <2>3. CASE ~(u = c.user /\ v = c.vis)
      <3>1. Counted(u, v)' = Counted(u, v)
        BY <2>1, <2>3 DEF Counted, Live
      <3> QED
        BY <1>1, <2>1, <2>3, <3>1
    <2> QED
      BY <2>2, <2>3
  <1>5. CASE UpdateSkin(p)
    <2>1. /\ c.user \in Users /\ c.skin \in Ids /\ c.vis \in Vis /\ c.old \in Vis
          /\ c.op = "update" /\ pc[p] = "updateSkin"
          /\ skin[c.skin] # None /\ skin[c.skin].owner = c.user
          /\ assoc[c.user][c.skin] = "normal"
          /\ skin'[c.skin] # None /\ skin'[c.skin].vis = c.vis
          /\ \A s \in Ids \ {c.skin} : skin'[s] = skin[s]
          /\ assoc' = assoc
          /\ c.old = c.vis => used' = used
          /\ c.old # c.vis =>
               /\ lock[c.user] = p
               /\ used'[u][v] = IF u # c.user THEN used[u][v]
                                ELSE IF v = c.vis THEN used[u][v] + 1 ELSE used[u][v] - 1
      BY <1>5, UpdateSkinDoes DEF ExactInv
    <2>2. skin[c.skin].vis = c.old
      BY <2>1 DEF ExactInv, ExactKnown, Live
    <2>3. CASE c.old = c.vis \/ u # c.user
      <3>1. u # c.user => assoc[u][c.skin] # "normal"
        BY <2>1 DEF ExactInv, KeptInv, RecordInv, NormalOnlyByOwner
      <3>2. Counted(u, v)' = Counted(u, v)
        BY <2>1, <2>2, <2>3, <3>1 DEF Counted, Live
      <3> QED
        BY <1>1, <2>1, <2>3, <3>2
    <2>4. CASE c.old # c.vis /\ u = c.user /\ v = c.vis
      <3>1. Counted(u, v)' = Counted(u, v) \cup {c.skin} /\ c.skin \notin Counted(u, v)
        BY <2>1, <2>2, <2>4 DEF Counted, Live
      <3>2. Cardinality(Counted(u, v)') = Cardinality(Counted(u, v)) + 1
        BY <3>1, CountedFinite, FS_AddElement
      <3> QED
        BY <1>1, <2>1, <2>4, <3>2
    <2>5. CASE c.old # c.vis /\ u = c.user /\ v # c.vis
      <3>1. v = c.old
        BY <2>1, <2>5 DEF Vis
      <3>2. Counted(u, v)' = Counted(u, v) \ {c.skin} /\ c.skin \in Counted(u, v)
        BY <2>1, <2>2, <2>5, <3>1 DEF Counted, Live
      <3>3. Cardinality(Counted(u, v)') = Cardinality(Counted(u, v)) - 1
        BY <3>2, CountedFinite, FS_RemoveElement
      <3> QED
        BY <1>1, <2>1, <2>5, <3>3
    <2> QED
      BY <2>3, <2>4, <2>5
  <1>6. CASE CommitDelete(p)
    <2>1. /\ c.user \in Users /\ c.skin \in Ids /\ c.old \in Vis
          /\ c.op = "delete" /\ pc[p] = "commitDrop" /\ lock[c.user] = p
          /\ ~c.last => ~Live(c.skin)
          /\ \A s \in Ids : skin'[s] = IF c.last /\ s = c.skin THEN None ELSE skin[s]
          /\ \A w \in Users, s \in Ids :
               assoc'[w][s] = IF c.last /\ w = c.user /\ s = c.skin THEN "none" ELSE assoc[w][s]
          /\ used'[u][v] = IF u = c.user /\ v = c.old THEN used[u][v] - 1 ELSE used[u][v]
      BY <1>6, CommitDeleteDoes DEF ExactInv
    <2>2. skin[c.skin].vis = c.old /\ Associated(c.user, c.skin)
      BY <2>1 DEF ExactInv, ExactKnown
    <2>3. c.last /\ Live(c.skin) /\ assoc[c.user][c.skin] = "normal"
      BY <2>1, <2>2 DEF ExactInv, KeptInv, OnlyNormal, RecordInv, AssocLive, Associated
    <2>4. CASE u = c.user /\ v = c.old
      <3>1. Counted(u, v)' = Counted(u, v) \ {c.skin} /\ c.skin \in Counted(u, v)
        BY <2>1, <2>2, <2>3, <2>4 DEF Counted, Live
      <3>2. Cardinality(Counted(u, v)') = Cardinality(Counted(u, v)) - 1
        BY <3>1, CountedFinite, FS_RemoveElement
      <3> QED
        BY <1>1, <2>1, <2>4, <3>2
    <2>5. CASE ~(u = c.user /\ v = c.old)
      <3>1. u # c.user => assoc[u][c.skin] # "normal"
        BY <2>1, <2>3 DEF ExactInv, KeptInv, RecordInv, NormalOnlyByOwner
      <3>2. Counted(u, v)' = Counted(u, v)
        BY <2>1, <2>2, <2>3, <2>5, <3>1 DEF Counted, Live
      <3> QED
        BY <1>1, <2>1, <2>5, <3>2
    <2> QED
      BY <2>4, <2>5
  <1>7. CASE CountPrivate(p)
    <2>1. /\ c.user \in Users /\ pc[p] = "countPrivate" /\ UNCHANGED <<skin, assoc>>
          /\ c.seen \in [Vis -> Nat]
      BY <1>7, KnownRequest
      DEF CountPrivate, At, Shape, Requests, ExactInv, KeptInv, RecordInv
    <2>2. used' = [used EXCEPT ![c.user] =
                     [c.seen EXCEPT !["private"] = Cardinality(Counted(c.user, "private"))]]
      BY <1>7 DEF CountPrivate, WriteQuota
    <2>3. c.seen["public"] = Cardinality(Counted(c.user, "public"))
      BY <2>1 DEF ExactInv, ExactKnown
    <2>4. used'[u][v] = Cardinality(Counted(u, v))
      BY <1>1, <2>1, <2>2, <2>3 DEF Vis, ExactInv, KeptInv, RecordInv, Inv, TypeOK
    <2> QED
      BY <1>2, <2>1, <2>4
  <1> QED
    BY <1>3, <1>4, <1>5, <1>6, <1>7, Changes DEF ExactInv

\* The record that a request changes stays as it is while others run, or is gone.
LEMMA RecordStays ==
  ASSUME Serial, ExactInv, NEW p \in Procs, Arrive(p) \/ Step(p) \/ CutOff(p),
         NEW q \in Procs \ {p}, req[q].user \in Users, NEW s \in Ids, s = req[q].skin,
         req[q].op = "delete" \/ (req[q].op = "update" /\ pc[q] # "readSkin")
  PROVE  /\ ~Live(s) => ~Live(s)'
         /\ Live(s) => skin'[s] = skin[s] /\ \A u \in Users : assoc'[u][s] = assoc[u][s]
  <1> DEFINE c == req[p]
  <1>1. /\ RecordKnown(q) /\ KeptKnown(q) /\ Served(q)
        /\ Served(p) /\ KeptKnown(p) /\ Shape(c, pc[p])
    BY KnownRequest DEF ExactInv, KeptInv, RecordInv
  <1>2. Live(s) => skin[s].owner = req[q].user
    BY <1>1 DEF RecordKnown, KeptKnown
  <1>3. ASSUME c.op \in {"update", "delete"} PROVE c.user # req[q].user
    <2>1. <<req[q].op, req[q].user>> \in Work[q]
      BY <1>1, NoneAssumption DEF Served
    <2>2. c.user = req[q].user => <<c.op, req[q].user>> \in Work[p]
      BY <1>1, NoneAssumption DEF Served
    <2> QED
      BY <1>3, <2>1, <2>2 DEF Serial
  <1>4. CASE UNCHANGED <<skin, assoc, used>> \/ CountPrivate(p)
    BY <1>4 DEF CountPrivate, Live
  <1>5. CASE InsertSkin(p)
    <2>1. /\ \A w \in Ids \ {c.file} : skin'[w] = skin[w]
          /\ \A u \in Users, w \in Ids :
               assoc'[u][w] = IF u = c.user /\ w = c.file THEN "normal" ELSE assoc[u][w]
      BY <1>5, InsertSkinDoes DEF ExactInv
    <2>2. Uploading(p)
      BY <1>1, <1>5 DEF InsertSkin, At, Shape, Uploading
    <2>3. s # c.file
      BY <2>2 DEF ExactInv, KeptInv, RecordInv, Fresh, Untouched
    <2> QED
      BY <2>1, <2>3 DEF Live
  <1>6. CASE UpdateSkin(p)
    <2>1. /\ c.op = "update" /\ skin[c.skin] # None /\ skin[c.skin].owner = c.user
          /\ c.skin \in Ids /\ assoc' = assoc
          /\ \A w \in Ids \ {c.skin} : skin'[w] = skin[w]
      BY <1>6, UpdateSkinDoes DEF ExactInv
    <2>2. s # c.skin
      BY <1>2, <1>3, <2>1 DEF Live
    <2> QED
      BY <2>1, <2>2 DEF Live
  <1>7. CASE CommitDelete(p)
    <2>1. /\ c.op = "delete" /\ c.skin \in Ids
          /\ c.last => Live(c.skin)
          /\ \A w \in Ids : skin'[w] = IF c.last /\ w = c.skin THEN None ELSE skin[w]
          /\ \A u \in Users, w \in Ids :
               assoc'[u][w] = IF c.last /\ u = c.user /\ w = c.skin THEN "none" ELSE assoc[u][w]
      BY <1>7, CommitDeleteDoes DEF ExactInv
    <2>2. c.last => s # c.skin
      BY <1>1, <1>2, <1>3, <2>1 DEF KeptKnown
    <2> QED
      BY <2>1, <2>2 DEF Live
  <1> QED
    BY <1>4, <1>5, <1>6, <1>7, Changes DEF ExactInv

\* The other slots keep what they know.
LEMMA OthersExact ==
  ASSUME Serial, ExactInv, NEW p \in Procs, Arrive(p) \/ Step(p) \/ CutOff(p),
         NEW q \in Procs \ {p}
  PROVE  ExactKnown(q)'
  <1>1. pc'[q] = pc[q] /\ req'[q] = req[q] /\ ExactKnown(q) /\ Shape(req[q], pc[q])
    BY StepAlone, KnownRequest DEF Alone, ExactInv, KeptInv, RecordInv
  <1>2. ASSUME NEW s \in Ids, s = req[q].skin, req[q].op = "update", pc[q] # "readSkin", Live(s)'
        PROVE  skin'[s].vis = req[q].old
    <2>1. req[q].user \in Users
      <3>1. pc[q] \notin {"idle", "verifyFile", "deleteFile"}
        BY <1>1, <1>2 DEF Shape, ExactInv, KeptInv, RecordInv, RecordKnown, NoRequest
      <3> QED
        BY <1>1, <3>1 DEF Shape
    <2>2. Live(s) /\ skin'[s] = skin[s]
      BY <1>2, <2>1, RecordStays
    <2> QED
      BY <1>1, <1>2, <2>2 DEF ExactKnown, Live
  <1>3. ASSUME NEW s \in Ids, s = req[q].skin,
               req[q].op = "delete", pc[q] \notin {"readSkin", "checkAssoc", "deleteFile"}
        PROVE  /\ assoc'[req[q].user][s] # "none"
               /\ pc[q] # "readOwnSkin" => skin'[s].vis = req[q].old
    <2>1. req[q].user \in Users
      <3>1. pc[q] \notin {"idle", "verifyFile"}
        BY <1>1, <1>3 DEF Shape, ExactInv, KeptInv, RecordInv, RecordKnown, NoRequest
      <3> QED
        BY <1>1, <1>3, <3>1 DEF Shape
    <2>2. Associated(req[q].user, s) /\ Live(s)
      BY <1>1, <1>3, <2>1 DEF ExactKnown, ExactInv, KeptInv, RecordInv, AssocLive
    <2>3. skin'[s] = skin[s] /\ assoc'[req[q].user][s] = assoc[req[q].user][s]
      BY <1>3, <2>1, <2>2, RecordStays
    <2> QED
      BY <1>1, <1>3, <2>2, <2>3 DEF ExactKnown, Associated
  <1>4. ASSUME pc[q] = "countPrivate"
        PROVE  req[q].seen["public"] = Cardinality(Counted(req[q].user, "public")')
    <2>1. req[q].user \in Users /\ lock[req[q].user] = q
      BY <1>1, <1>4 DEF Shape, ExactInv, KeptInv, RecordInv, Inv, Locked, NeedsLock
    <2>2. PICK u \in Users : u = req[q].user
      BY <2>1
    <2>3. Counted(u, "public")' = Counted(u, "public")
      BY <2>1, <2>2, StepExact DEF Vis
    <2>4. Counted(req[q].user, "public")' = Counted(u, "public")'
      BY <1>1, <2>2 DEF Counted
    <2> QED
      BY <1>1, <1>4, <2>2, <2>3, <2>4 DEF ExactKnown
  <1>5. req[q].op = "delete" => req[q].skin \in Ids
    BY <1>1 DEF Shape
  <1> QED
    BY <1>1, <1>2, <1>3, <1>4, <1>5 DEF ExactKnown, Associated, Live, Counted

\* A request that goes on and has read nothing new.
LEMMA SameExact ==
  ASSUME ExactInv, NEW p \in Procs, NEW l, NEW r, pc' = [pc EXCEPT ![p] = l],
         req' = [req EXCEPT ![p] = r], UNCHANGED <<skin, assoc>>,
         r.op = req[p].op, r.user = req[p].user, r.old = req[p].old,
         r.op = "create" \/ r.skin = req[p].skin,
         l # "countPrivate",
         r.op = "update" => pc[p] # "readSkin",
         r.op = "delete" => \/ l \in {"readSkin", "checkAssoc", "deleteFile"}
                            \/ pc[p] \notin {"readSkin", "checkAssoc", "readOwnSkin", "deleteFile"}
  PROVE  ExactKnown(p)'
  <1>1. pc'[p] = l /\ req'[p] = r /\ ExactKnown(p)
    BY DEF ExactInv, KeptInv, RecordInv, Inv, TypeOK
  <1> QED
    BY <1>1 DEF ExactKnown, Associated, Live

\* A request that ends or starts, or whose transaction is over, knows nothing.
LEMMA NoneExact ==
  ASSUME Inv, NEW p \in Procs, NEW l, NEW r, pc' = [pc EXCEPT ![p] = l],
         req' = [req EXCEPT ![p] = r], l # "countPrivate",
         r.op \in {"update", "delete"} => l \in {"readSkin", "deleteFile"},
         r.op = "update" => l = "readSkin"
  PROVE  ExactKnown(p)'
  <1>1. pc'[p] = l /\ req'[p] = r
    BY DEF Inv, TypeOK
  <1> QED
    BY <1>1 DEF ExactKnown

LEMMA FinishExact ==
  ASSUME Inv, NEW p \in Procs, Finish(p)
  PROVE  ExactKnown(p)'
  <1>1. NoRequest.op = "none"
    BY DEF NoRequest
  <1> QED
    BY <1>1, NoneExact DEF Finish, Goto

LEMMA ArriveExact ==
  ASSUME Inv, NEW p \in Procs, Arrive(p)
  PROVE  ExactKnown(p)'
  <1>1. ASSUME NEW u \in Users, NEW f \in Ids, NEW h \in Hashes, NEW v \in Vis,
               Upload(p, u, f, h, v)
        PROVE  ExactKnown(p)'
    <2> DEFINE r == [NoRequest EXCEPT
                       !.op = "create", !.user = u, !.file = f, !.hash = h, !.vis = v]
    <2>1. r.op = "create"
      BY DEF NoRequest
    <2>2. req' = [req EXCEPT ![p] = r] /\ pc' = [pc EXCEPT ![p] = "lockQuota"]
      BY <1>1 DEF Upload, Goto
    <2> HIDE DEF r
    <2> QED
      BY <2>1, <2>2, NoneExact
  <1>2. ASSUME NEW u \in Users, NEW s \in Ids, NEW op \in {"update", "delete", "gift", "revoke"},
               NEW l \in {"readSkin", "checkGift", "dropAssoc"},
               op \in {"update", "delete"} => l = "readSkin",
               pc' = [pc EXCEPT ![p] = l],
               req' = [req EXCEPT ![p] = [NoRequest EXCEPT !.op = op, !.user = u, !.skin = s]]
        PROVE  ExactKnown(p)'
    <2> DEFINE r == [NoRequest EXCEPT !.op = op, !.user = u, !.skin = s]
    <2>1. r.op = op
      BY DEF NoRequest
    <2>2. req' = [req EXCEPT ![p] = r]
      BY <1>2
    <2> HIDE DEF r
    <2> QED
      BY <1>2, <2>1, <2>2, NoneExact
  <1>3. ASSUME NEW u \in Users, NEW s \in Ids,
               StartUpdate(p, u, s) \/ StartDelete(p, u, s) \/ StartGift(p, u, s) \/ StartRevoke(p, u, s)
        PROVE  ExactKnown(p)'
    BY <1>2, <1>3 DEF StartUpdate, StartDelete, StartGift, StartRevoke, Goto
  <1>4. ASSUME NEW u \in Users, StartRecalculate(p, u)
        PROVE  ExactKnown(p)'
    <2> DEFINE r == [NoRequest EXCEPT !.op = "recalculate", !.user = u]
    <2>1. r.op = "recalculate"
      BY DEF NoRequest
    <2>2. req' = [req EXCEPT ![p] = r] /\ pc' = [pc EXCEPT ![p] = "lockQuota"]
      BY <1>4 DEF StartRecalculate, Goto
    <2> HIDE DEF r
    <2> QED
      BY <2>1, <2>2, NoneExact
  <1> QED
    BY <1>1, <1>3, <1>4 DEF Arrive

\* The request that takes the step knows what it has read.
LEMMA OwnExact ==
  ASSUME ExactInv, NEW p \in Procs, Step(p)
  PROVE  ExactKnown(p)'
  <1> DEFINE c == req[p]
  <1>1. c \in Requests /\ Shape(c, pc[p]) /\ KeptKnown(p) /\ Inv
    BY KnownRequest DEF ExactInv, KeptInv, RecordInv
  <1>2. req \in [Procs -> Requests] /\ pc \in [Procs -> Statements]
    BY <1>1 DEF Inv, TypeOK
  <1>3. ASSUME req' = req, UNCHANGED <<skin, assoc>>, NEW l, Goto(p, l), l # "countPrivate",
               c.op = "update" => pc[p] # "readSkin",
               c.op = "delete" => l = "checkAssoc"
        PROVE  ExactKnown(p)'
    <2>1. req' = [req EXCEPT ![p] = c]
      BY <1>2, <1>3
    <2> QED
      BY <1>3, <2>1, SameExact DEF Goto
  <1>4. CASE QuotaStep(p)
    <2>1. ASSUME NEW q, pc[p] \in {"lockQuota", "insertQuota"}, Acquire(p, q)
          PROVE  ExactKnown(p)'
      <3> DEFINE r == [c EXCEPT !.seen = q]
                 l == AfterLock[c.op]
      <3>1. l # "countPrivate"
        BY <1>1, <2>1 DEF AfterLock, Shape, Ops
      <3>2. req' = [req EXCEPT ![p] = r] /\ pc' = [pc EXCEPT ![p] = l] /\ UNCHANGED <<skin, assoc>>
        BY <1>2, <2>1 DEF Acquire, Goto, tables
      <3>3. r.op = c.op /\ r.user = c.user /\ r.skin = c.skin /\ r.old = c.old
        BY <1>1 DEF Requests
      <3> HIDE DEF r, l
      <3> QED
        BY <2>1, <3>1, <3>2, <3>3, SameExact
    <2>2. CASE QuotaMissing(p)
      <3>1. /\ req' = [req EXCEPT ![p] = c] /\ pc' = [pc EXCEPT ![p] = "insertQuota"]
            /\ pc[p] = "lockQuota" /\ UNCHANGED <<skin, assoc>>
        BY <1>2, <2>2 DEF QuotaMissing, Goto, At, tables
      <3> QED
        BY <3>1, SameExact
    <2> QED
      BY <1>1, <1>4, <2>1, <2>2, FinishExact DEF QuotaStep, LockQuota, InsertQuota,
         QuotaRefused, InsertQuotaFails, Rollback, At
  <1>5. CASE CreateStep(p)
    <2>1. ASSUME CommitCreate(p) PROVE ExactKnown(p)'
      <3> DEFINE r == [NoRequest EXCEPT !.op = "create", !.file = c.file]
      <3>1. r.op = "create"
        BY DEF NoRequest
      <3>2. req' = [req EXCEPT ![p] = r] /\ pc' = [pc EXCEPT ![p] = "verifyFile"]
        BY <2>1 DEF CommitCreate, Goto
      <3> HIDE DEF r
      <3> QED
        BY <1>1, <3>1, <3>2, NoneExact
    <2>2. CASE HashUnknown(p) \/ AssocMissing(p)
      <3>1. PICK l \in {"insertSkin", "insertAssoc"} : Goto(p, l)
        BY <2>2 DEF HashUnknown, AssocMissing
      <3>2. req' = req /\ UNCHANGED <<skin, assoc>> /\ c.op = "create"
        BY <1>1, <2>2 DEF HashUnknown, AssocMissing, At, Shape, tables
      <3> QED
        BY <1>3, <3>1, <3>2
    <2>3. CASE HashOfOwn(p)
      <3>1. PICK s \in WithHash(c.hash) : req' = [req EXCEPT ![p].skin = s]
        BY <2>3 DEF HashOfOwn
      <3> DEFINE r == [c EXCEPT !.skin = s]
      <3>2. /\ req' = [req EXCEPT ![p] = r] /\ pc' = [pc EXCEPT ![p] = "findAssoc"]
            /\ UNCHANGED <<skin, assoc>> /\ c.op = "create"
        BY <1>1, <1>2, <2>3, <3>1 DEF HashOfOwn, At, Shape, Goto, tables
      <3>3. r.op = c.op /\ r.user = c.user /\ r.old = c.old
        BY <1>1 DEF Requests
      <3> HIDE DEF r
      <3> QED
        BY <3>2, <3>3, SameExact
    <2> QED
      BY <1>1, <1>5, <2>1, <2>2, <2>3, FinishExact DEF CreateStep, HashOfOther, AssocFound,
         InsertAssoc, InsertAssocFails, InsertSkin, InsertSkinFails, VerifyFile, Rollback
  <1>6. CASE UpdateStep(p)
    <2>1. ASSUME NEW v \in Vis, ReadSkinForUpdate(p, v) PROVE ExactKnown(p)'
      <3> DEFINE r == [c EXCEPT !.vis = v, !.old = skin[c.skin].vis]
      <3>1. /\ req'[p] = r /\ pc'[p] = "checkAssoc" /\ UNCHANGED <<skin, assoc>>
            /\ c.op = "update"
        BY <1>2, <2>1 DEF ReadSkinForUpdate, Goto, tables
      <3>2. r.op = c.op /\ r.skin = c.skin /\ r.old = skin[c.skin].vis
        BY <1>1 DEF Requests
      <3> HIDE DEF r
      <3> QED
        BY <3>1, <3>2 DEF ExactKnown
    <2>2. CASE CheckAssocForUpdate(p)
      <3>1. PICK l \in {"updateSkin", "lockQuota"} : Goto(p, l)
        BY <2>2 DEF CheckAssocForUpdate
      <3> QED
        BY <1>3, <2>2, <3>1 DEF CheckAssocForUpdate, At, tables
    <2> QED
      BY <1>1, <1>6, <2>1, <2>2, FinishExact DEF UpdateStep, UpdateRefused, UpdateDenied,
         UpdateSkin, UpdateSkinFails, Rollback
  <1>7. CASE DeleteStep(p)
    <2>1. CASE ReadSkinForDelete(p)
      BY <1>3, <2>1 DEF ReadSkinForDelete, tables
    <2>2. CASE CheckAssocForDelete(p)
      <3>1. /\ c.op = "delete" /\ c.user \in Users /\ c.skin \in Ids
            /\ Associated(c.user, c.skin) /\ UNCHANGED <<skin, assoc, req>>
        BY <1>1, <2>2 DEF CheckAssocForDelete, At, Shape, tables
      <3>2. pc'[p] = "readOwnSkin"
        BY <1>2, <2>2, <3>1
        DEF CheckAssocForDelete, Goto, ExactInv, KeptInv, OnlyNormal, Associated
      <3> QED
        BY <3>1, <3>2 DEF ExactKnown, Associated
    <2>3. CASE ReadOwnSkin(p)
      <3> DEFINE r == [c EXCEPT !.old = skin[c.skin].vis]
      <3>1. /\ req'[p] = r /\ pc'[p] = "lockQuota" /\ UNCHANGED <<skin, assoc>>
            /\ c.op = "delete" /\ pc[p] = "readOwnSkin"
        BY <1>1, <1>2, <2>3 DEF ReadOwnSkin, At, Shape, Goto, tables
      <3>2. /\ r.op = c.op /\ r.user = c.user /\ r.skin = c.skin
            /\ r.old = skin[c.skin].vis
        BY <1>1 DEF Requests
      <3>3. Associated(c.user, c.skin)
        BY <3>1 DEF ExactInv, ExactKnown
      <3> HIDE DEF r
      <3> QED
        BY <3>1, <3>2, <3>3 DEF ExactKnown, Associated
    <2>4. CASE DropAssoc(p)
      <3> DEFINE r == [c EXCEPT !.dropped = Associated(c.user, c.skin)]
      <3>1. /\ req' = [req EXCEPT ![p] = r] /\ pc' = [pc EXCEPT ![p] = "countRefs"]
            /\ UNCHANGED <<skin, assoc>> /\ pc[p] = "dropAssoc"
        BY <1>2, <2>4 DEF DropAssoc, At, Goto, tables
      <3>2. r.op = c.op /\ r.user = c.user /\ r.skin = c.skin /\ r.old = c.old
        BY <1>1 DEF Requests
      <3> HIDE DEF r
      <3> QED
        BY <3>1, <3>2, SameExact
    <2>5. CASE CountRefs(p)
      <3> DEFINE r == [c EXCEPT !.last =
                         References(c) = {} /\ Live(c.skin) /\ skin[c.skin].owner = c.user]
      <3>1. /\ req' = [req EXCEPT ![p] = r] /\ pc' = [pc EXCEPT ![p] = "commitDrop"]
            /\ UNCHANGED <<skin, assoc>> /\ pc[p] = "countRefs"
        BY <1>2, <2>5 DEF CountRefs, At, Goto, tables
      <3>2. r.op = c.op /\ r.user = c.user /\ r.skin = c.skin /\ r.old = c.old
        BY <1>1 DEF Requests
      <3> HIDE DEF r
      <3> QED
        BY <3>1, <3>2, SameExact
    <2>6. CASE CommitDelete(p)
      <3> DEFINE r == [NoRequest EXCEPT !.op = "delete", !.skin = c.skin]
      <3>1. r.op = "delete"
        BY DEF NoRequest
      <3>2. req' = [req EXCEPT ![p] = r] /\ pc' = [pc EXCEPT ![p] = "deleteFile"]
        BY <2>6 DEF CommitDelete, Goto
      <3> HIDE DEF r
      <3> QED
        BY <1>1, <3>1, <3>2, NoneExact
    <2> QED
      BY <1>1, <1>7, <2>1, <2>2, <2>3, <2>4, <2>5, <2>6, FinishExact DEF DeleteStep,
         DeleteRefused, DeleteDenied, OwnSkinGone, CommitRevoke, DeleteFile, Rollback
  <1>8. CASE AdminStep(p)
    <2>1. CASE CheckGift(p)
      BY <1>1, <2>1 DEF CheckGift, At, Shape, KeptKnown
    <2>2. CASE CountPublic(p)
      <3> DEFINE n == Cardinality(Counted(c.user, "public"))
                 r == [c EXCEPT !.seen["public"] = n]
      <3>1. /\ req'[p] = r /\ pc'[p] = "countPrivate" /\ UNCHANGED <<skin, assoc>>
            /\ c.op = "recalculate"
        BY <1>1, <1>2, <2>2 DEF CountPublic, At, Shape, Goto, tables
      <3>2. r.op = c.op /\ r.user = c.user /\ r.seen["public"] = n
        BY <1>1 DEF Requests, Vis
      <3>3. Counted(req[p].user, "public")' = Counted(c.user, "public")
        BY <3>1, <3>2 DEF Counted, Live
      <3>4. req'[p].op = "recalculate" /\ req'[p].seen["public"] = n
        BY <3>1, <3>2
      <3> HIDE DEF r, n
      <3>5. n = Cardinality(Counted(req[p].user, "public")')
        BY <3>3 DEF n
      <3> QED
        BY <3>1, <3>4, <3>5 DEF ExactKnown
    <2> QED
      BY <1>1, <1>8, <2>1, <2>2, FinishExact DEF AdminStep, GiftDenied, InsertGift,
         InsertGiftFails, CountPrivate, Rollback
  <1> QED
    BY <1>4, <1>5, <1>6, <1>7, <1>8 DEF Step

LEMMA InitExact == Init => ExactInv
  <1> SUFFICES ASSUME Init PROVE ExactInv
    OBVIOUS
  <1>1. KeptInv /\ DeleteLocked
    BY InitKept DEF Init, DeleteLocked
  <1>2. \A u \in Users, v \in Vis : used[u][v] = 0 /\ Counted(u, v) = {}
    BY DEF Init, ZeroUsed, Counted
  <1>3. QuotaExact
    BY <1>2, FS_EmptySet DEF QuotaExact
  <1>4. NoRequest.op = "none"
    BY DEF NoRequest
  <1>5. \A p \in Procs : ExactKnown(p)
    BY <1>4 DEF Init, ExactKnown
  <1> QED
    BY <1>1, <1>3, <1>5 DEF ExactInv

LEMMA NextExact ==
  ASSUME NoGifts, Serial, ExactInv, [Next]_vars
  PROVE  ExactInv'
  <1>1. KeptInv'
    BY NextKept DEF ExactInv
  <1>2. ASSUME NEW p \in Procs, Arrive(p) \/ Step(p) \/ CutOff(p) PROVE ExactInv'
    <2>1. DeleteLocked'
      BY <1>2, DeleteLockedKept DEF ExactInv
    <2>2. QuotaExact'
      BY <1>2, StepExact DEF QuotaExact
    <2>3. ExactKnown(p)'
      BY <1>2, ArriveExact, OwnExact, FinishExact
      DEF CutOff, Rollback, ExactInv, KeptInv, RecordInv
    <2>4. \A q \in Procs \ {p} : ExactKnown(q)'
      BY <1>2, OthersExact
    <2> QED
      BY <1>1, <2>1, <2>2, <2>3, <2>4 DEF ExactInv
  <1>3. ASSUME UNCHANGED <<skin, assoc, used, lock, pc, req>> PROVE ExactInv'
    <2>1. \A u \in Users, v \in Vis : Counted(u, v)' = Counted(u, v)
      BY <1>3 DEF Counted, Live
    <2>2. DeleteLocked' /\ QuotaExact'
      BY <1>3, <2>1 DEF ExactInv, DeleteLocked, QuotaExact
    <2>3. \A p \in Procs : ExactKnown(p)'
      BY <1>3 DEF ExactInv, ExactKnown, Associated, Live, Counted
    <2> QED
      BY <1>1, <2>2, <2>3 DEF ExactInv
  <1>4. ASSUME NEW u \in Users, GetQuota(u) PROVE ExactInv'
    BY <1>3, <1>4, GetQuotaReads DEF ExactInv, KeptInv, RecordInv
  <1> QED
    BY <1>2, <1>3, <1>4 DEF Next, vars

\* The used columns count the normal associations by visibility, when nothing
\* is gifted and each user's requests run one after the other, whatever others
\* do, whenever the quota is recalculated and wherever requests are cut off.
THEOREM QuotaIsExact ==
  ASSUME NoGifts, Serial
  PROVE  Spec => []QuotaExact
  <1>1. ExactInv /\ [Next]_vars => ExactInv'
    BY NextExact
  <1>2. ExactInv => QuotaExact
    BY DEF ExactInv
  <1> QED
    BY <1>1, <1>2, InitExact, PTL DEF Spec
=============================================================================
