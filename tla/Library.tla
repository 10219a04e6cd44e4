----------------------------- MODULE Library -----------------------------
(***************************************************************************)
(* The resource library: skin (or cape) records, the associations of users *)
(* with them, the per-user quota row, the texture files in the bucket, and *)
(* the requests that change them.                                          *)
(*                                                                         *)
(* Requests run in slots.  Every database statement or bucket call is a    *)
(* step; pc[p] names the statement slot p executes next and req[p] holds   *)
(* what the request has read.  PostgreSQL runs the transactions at READ    *)
(* COMMITTED: a statement sees committed rows, so the tables below hold    *)
(* committed rows only and a transaction's writes appear in the step that  *)
(* commits it, where unique and foreign keys are decided.  What other      *)
(* transactions can feel earlier is modelled: the row lock (or uncommitted *)
(* insert) of a quota row, lock, and the uncommitted deletion of an        *)
(* association, req[p].dropped.                                            *)
(*                                                                         *)
(* Skins and capes run the same code with other columns; they differ in    *)
(* UpdateHookRejects only.                                                 *)
(***************************************************************************)
EXTENDS Integers, FiniteSets

CONSTANTS
  Users,             \* user ids
  Ids,               \* ids of texture files; a record has the id of its file
  Hashes,            \* texture hashes
  Procs,             \* slots in which requests run
  Work,              \* Work[p]: the <<operation, user>> pairs slot p may run
  PublicTotal,       \* places for public records (the default row: 1)
  PrivateTotal,      \* places for private records (the default row: 2)
  UpdateHookRejects, \* TRUE for skins: the BeforeUpdate hook refuses the update
  Faults,            \* TRUE when a request may be cut off between two steps
  Seeds,             \* built-in records: a function from some Ids to hashes
  None               \* no user, record, slot or hash

Vis == {"public", "private"}

Ops == {"create", "update", "delete", "gift", "revoke", "recalculate"}

Total == [v \in Vis |-> IF v = "public" THEN PublicTotal ELSE PrivateTotal]

ASSUME TotalsAssumption == PublicTotal \in Nat /\ PrivateTotal \in Nat
ASSUME IdsAssumption == IsFiniteSet(Ids)
ASSUME WorkAssumption == Work \in [Procs -> SUBSET (Ops \X Users)]
ASSUME FlagsAssumption == UpdateHookRejects \in BOOLEAN /\ Faults \in BOOLEAN
ASSUME SeedsAssumption ==
  /\ DOMAIN Seeds \subseteq Ids
  /\ \A s \in DOMAIN Seeds : Seeds[s] \in Hashes
  /\ \A s, t \in DOMAIN Seeds : Seeds[s] = Seeds[t] => s = t
ASSUME NoneAssumption == None \notin Users \cup Ids \cup Procs \cup Hashes

VARIABLES
  skin,   \* skin[s]: the record with id s, or None
  assoc,  \* assoc[u][s]: how user u is associated with record s
  row,    \* users whose quota row exists
  used,   \* used[u][v]: the used columns of u's quota row
  lock,   \* lock[u]: the slot whose transaction locks u's quota row, or None
  file,   \* file[s]: the state of the texture file with id s
  pc,     \* pc[p]: the next statement of slot p
  req     \* req[p]: the request of slot p and what it has read

vars == <<skin, assoc, row, used, lock, file, pc, req>>

\* Normal is the only type that counts toward the quota; gift stands for the
\* types Gift and Admin, which no statement tells apart.
AssignmentTypes == {"normal", "gift"}

Records == [owner : Users \cup {None}, hash : Hashes, vis : Vis]

ASSUME RecordsAssumption == None \notin Records

FileStates == {"unused", "cached", "permanent", "deleted"}

Statements ==
  {"idle", "lockQuota", "insertQuota",
   "lookupHash", "findAssoc", "insertSkin", "insertAssoc", "verifyFile",
   "readSkin", "checkAssoc", "updateSkin",
   "readOwnSkin", "dropAssoc", "countRefs", "commitDrop", "deleteFile",
   "checkGift", "insertGift", "countPublic", "countPrivate"}

ZeroUsed == [v \in Vis |-> 0]

NoRequest ==
  [op |-> "none", user |-> None, skin |-> None, file |-> None, hash |-> None,
   vis |-> "none", old |-> "none", seen |-> ZeroUsed,
   dropped |-> FALSE, last |-> FALSE]

Requests ==
  [op : Ops \cup {"none"}, user : Users \cup {None}, skin : Ids \cup {None},
   file : Ids \cup {None}, hash : Hashes \cup {None},
   vis : Vis \cup {"none"}, old : Vis \cup {"none"}, seen : [Vis -> Nat],
   dropped : BOOLEAN, last : BOOLEAN]

TypeOK ==
  /\ skin \in [Ids -> Records \cup {None}]
  /\ assoc \in [Users -> [Ids -> AssignmentTypes \cup {"none"}]]
  /\ row \subseteq Users
  /\ used \in [Users -> [Vis -> Nat]]
  /\ lock \in [Users -> Procs \cup {None}]
  /\ file \in [Ids -> FileStates]
  /\ pc \in [Procs -> Statements]
  /\ req \in [Procs -> Requests]

Init ==
  /\ skin = [s \in Ids |->
       IF s \in DOMAIN Seeds
         THEN [owner |-> None, hash |-> Seeds[s], vis |-> "public"]
         ELSE None]
  /\ assoc = [u \in Users |-> [s \in Ids |-> "none"]]
  /\ row = {}
  /\ used = [u \in Users |-> ZeroUsed]
  /\ lock = [u \in Users |-> None]
  /\ file = [s \in Ids |-> IF s \in DOMAIN Seeds THEN "permanent" ELSE "unused"]
  /\ pc = [p \in Procs |-> "idle"]
  /\ req = [p \in Procs |-> NoRequest]

--------------------------------------------------------------------------
\* Helpers: control flow of a slot, the quota row, the tables.

Live(s) == s \in Ids /\ skin[s] # None

Associated(u, s) == assoc[u][s] # "none"

tables == <<skin, assoc, row, used>>

At(p, statement) == pc[p] = statement

Goto(p, statement) == pc' = [pc EXCEPT ![p] = statement]

\* Mutant: a transaction ends without giving its row lock back.
KeepLock(p) == UNCHANGED lock

Release(p) == lock' = [u \in Users |-> IF lock[u] = p THEN None ELSE lock[u]]

\* The request ends: its transaction, if it is in one, commits or rolls back.
Finish(p) ==
  /\ Goto(p, "idle")
  /\ req' = [req EXCEPT ![p] = NoRequest]
  /\ Release(p)

\* The request ends without effect: an early return or a rollback.
Rollback(p) == Finish(p) /\ UNCHANGED <<tables, file>>

Receive(p, op, u) ==
  /\ At(p, "idle")
  /\ <<op, u>> \in Work[p]

Holds(p) == \E u \in Users : lock[u] = p

\* Mutant: a count may go below zero.
AdmitsBelowZero(r, q) == r.op \in {"create", "update"} => q[r.vis] < Total[r.vis]

\* The checks made on the locked quota row before anything is written.
Admits(r, q) ==
  /\ r.op \in {"create", "update"} => q[r.vis] < Total[r.vis]
  /\ r.op \in {"update", "delete"} => q[r.old] > 0

\* Mutant: an update takes the new place and keeps the old one.
NewUsedKeepsOld(r) ==
  [v \in Vis |->
    CASE r.op \in {"create", "update"} /\ v = r.vis -> r.seen[v] + 1
      [] r.op = "delete" /\ v = r.old -> r.seen[v] - 1
      [] OTHER -> r.seen[v]]

\* The used columns the transaction of r writes, from those it has locked.
NewUsed(r) ==
  [v \in Vis |->
    CASE r.op \in {"create", "update"} /\ v = r.vis -> r.seen[v] + 1
      [] r.op \in {"update", "delete"} /\ v = r.old -> r.seen[v] - 1
      [] OTHER -> r.seen[v]]

WriteQuota(u, q) ==
  /\ row' = row \cup {u}
  /\ used' = [used EXCEPT ![u] = q]

\* Some other transaction has deleted the association and not committed yet.
BeingDropped(p, u, s) ==
  \E q \in Procs \ {p} : req[q].dropped /\ req[q].user = u /\ req[q].skin = s

--------------------------------------------------------------------------
\* The quota row: SELECT ... FOR UPDATE, or INSERT of the default row when the
\* SELECT finds none.

AfterLock ==
  [op \in Ops |->
    CASE op = "create" -> "lookupHash"
      [] op = "update" -> "updateSkin"
      [] op = "delete" -> "dropAssoc"
      [] OTHER -> "countPublic"]

\* The row is locked, or about to be inserted, by p and passes the checks.
Acquire(p, q) ==
  /\ Admits(req[p], q)
  /\ lock' = [lock EXCEPT ![req[p].user] = p]
  /\ req' = [req EXCEPT ![p].seen = q]
  /\ Goto(p, AfterLock[req[p].op])
  /\ UNCHANGED <<tables, file>>

\* Mutant: SELECT without FOR UPDATE.
LockQuotaUnlocked(p) ==
  LET u == req[p].user IN
  /\ At(p, "lockQuota")
  /\ u \in row
  /\ Acquire(p, used[u])

LockQuota(p) ==
  LET u == req[p].user IN
  /\ At(p, "lockQuota")
  /\ u \in row
  /\ lock[u] = None
  /\ Acquire(p, used[u])

QuotaRefused(p) ==
  LET u == req[p].user IN
  /\ At(p, "lockQuota")
  /\ u \in row
  /\ lock[u] = None
  /\ ~Admits(req[p], used[u])
  /\ Rollback(p)

\* An uncommitted row is not seen and not waited for by the SELECT.
QuotaMissing(p) ==
  /\ At(p, "lockQuota")
  /\ req[p].user \notin row
  /\ Goto(p, "insertQuota")
  /\ UNCHANGED <<tables, file, lock, req>>

InsertQuota(p) ==
  LET u == req[p].user IN
  /\ At(p, "insertQuota")
  /\ lock[u] = None
  /\ u \notin row
  /\ Acquire(p, ZeroUsed)

\* The unique key finds the row another transaction inserted meanwhile, or the
\* checks on the default row fail.
InsertQuotaFails(p) ==
  LET u == req[p].user IN
  /\ At(p, "insertQuota")
  /\ lock[u] = None
  /\ u \in row \/ ~Admits(req[p], ZeroUsed)
  /\ Rollback(p)

\* Reading the quota outside a transaction creates the missing row.
GetQuota(u) ==
  /\ u \notin row
  /\ lock[u] = None
  /\ WriteQuota(u, ZeroUsed)
  /\ UNCHANGED <<skin, assoc, lock, file, pc, req>>

--------------------------------------------------------------------------
\* Create: upload, then one transaction, then verification of the upload.

Upload(p, u, f, h, v) ==
  /\ Receive(p, "create", u)
  /\ file[f] = "unused"
  /\ file' = [file EXCEPT ![f] = "cached"]
  /\ req' = [req EXCEPT ![p] = [NoRequest EXCEPT
       !.op = "create", !.user = u, !.file = f, !.hash = h, !.vis = v]]
  /\ Goto(p, "lockQuota")
  /\ UNCHANGED <<tables, lock>>

WithHash(h) == {s \in Ids : Live(s) /\ skin[s].hash = h}

HashUnknown(p) ==
  /\ At(p, "lookupHash")
  /\ WithHash(req[p].hash) = {}
  /\ Goto(p, "insertSkin")
  /\ UNCHANGED <<tables, file, lock, req>>

HashOfOther(p) ==
  /\ At(p, "lookupHash")
  /\ \E s \in WithHash(req[p].hash) : skin[s].owner # req[p].user
  /\ Rollback(p)

\* Mutant: the record's owner is not compared with the user.
HashOfAnyone(p) ==
  /\ At(p, "lookupHash")
  /\ \E s \in WithHash(req[p].hash) : req' = [req EXCEPT ![p].skin = s]
  /\ Goto(p, "findAssoc")
  /\ UNCHANGED <<tables, file, lock>>

HashOfOwn(p) ==
  /\ At(p, "lookupHash")
  /\ \E s \in WithHash(req[p].hash) :
       /\ skin[s].owner = req[p].user
       /\ req' = [req EXCEPT ![p].skin = s]
  /\ Goto(p, "findAssoc")
  /\ UNCHANGED <<tables, file, lock>>

\* Mutant: the upload is not verified.
CommitUnverified(p) == Finish(p) /\ UNCHANGED file

\* The transaction commits and the upload is verified next.
CommitCreate(p) ==
  /\ Goto(p, "verifyFile")
  /\ req' = [req EXCEPT ![p] = [NoRequest EXCEPT !.op = "create", !.file = req[p].file]]
  /\ Release(p)
  /\ UNCHANGED file

AssocFound(p) ==
  LET r == req[p] IN
  /\ At(p, "findAssoc")
  /\ Associated(r.user, r.skin)
  /\ WriteQuota(r.user, r.seen)
  /\ CommitCreate(p)
  /\ UNCHANGED <<skin, assoc>>

AssocMissing(p) ==
  /\ At(p, "findAssoc")
  /\ ~Associated(req[p].user, req[p].skin)
  /\ Goto(p, "insertAssoc")
  /\ UNCHANGED <<tables, file, lock, req>>

\* The association is created again; the quota is not charged.
InsertAssoc(p) ==
  LET r == req[p] IN
  /\ At(p, "insertAssoc")
  /\ ~BeingDropped(p, r.user, r.skin)
  /\ Live(r.skin)
  /\ ~Associated(r.user, r.skin)
  /\ assoc' = [assoc EXCEPT ![r.user][r.skin] = "normal"]
  /\ WriteQuota(r.user, r.seen)
  /\ CommitCreate(p)
  /\ UNCHANGED skin

\* Foreign key or unique key violated.
InsertAssocFails(p) ==
  LET r == req[p] IN
  /\ At(p, "insertAssoc")
  /\ ~BeingDropped(p, r.user, r.skin)
  /\ ~Live(r.skin) \/ Associated(r.user, r.skin)
  /\ Rollback(p)

\* Record, association and quota are written together.
InsertSkin(p) ==
  LET r == req[p] IN
  /\ At(p, "insertSkin")
  /\ WithHash(r.hash) = {}
  /\ skin' = [skin EXCEPT ![r.file] = [owner |-> r.user, hash |-> r.hash, vis |-> r.vis]]
  /\ assoc' = [assoc EXCEPT ![r.user][r.file] = "normal"]
  /\ WriteQuota(r.user, NewUsed(r))
  /\ CommitCreate(p)

\* The unique key on the hash finds a record inserted meanwhile.
InsertSkinFails(p) ==
  /\ At(p, "insertSkin")
  /\ WithHash(req[p].hash) # {}
  /\ Rollback(p)

VerifyFile(p) ==
  LET f == req[p].file IN
  /\ At(p, "verifyFile")
  /\ file' = [file EXCEPT ![f] = IF @ = "cached" THEN "permanent" ELSE @]
  /\ Finish(p)
  /\ UNCHANGED tables

--------------------------------------------------------------------------
\* Update: association and record are read outside the transaction, the
\* association again inside it; the quota moves when the visibility read
\* outside differs from the new one.

StartUpdate(p, u, s) ==
  /\ Receive(p, "update", u)
  /\ Associated(u, s)
  /\ req' = [req EXCEPT ![p] = [NoRequest EXCEPT !.op = "update", !.user = u, !.skin = s]]
  /\ Goto(p, "readSkin")
  /\ UNCHANGED <<tables, file, lock>>

\* v = vis read: the name changes only.  (Nothing changes: the request returns.)
ReadSkinForUpdate(p, v) ==
  LET s == req[p].skin IN
  /\ At(p, "readSkin")
  /\ req[p].op = "update"
  /\ Live(s)
  /\ skin[s].owner = req[p].user
  /\ req' = [req EXCEPT ![p].vis = v, ![p].old = skin[s].vis]
  /\ Goto(p, "checkAssoc")
  /\ UNCHANGED <<tables, file, lock>>

UpdateRefused(p) ==
  LET s == req[p].skin IN
  /\ At(p, "readSkin")
  /\ req[p].op = "update"
  /\ ~(Live(s) /\ skin[s].owner = req[p].user)
  /\ Rollback(p)

CheckAssocForUpdate(p) ==
  LET r == req[p] IN
  /\ At(p, "checkAssoc")
  /\ r.op = "update"
  /\ assoc[r.user][r.skin] = "normal"
  /\ Goto(p, IF r.old = r.vis THEN "updateSkin" ELSE "lockQuota")
  /\ UNCHANGED <<tables, file, lock, req>>

UpdateDenied(p) ==
  LET r == req[p] IN
  /\ At(p, "checkAssoc")
  /\ r.op = "update"
  /\ assoc[r.user][r.skin] # "normal"
  /\ Rollback(p)

UpdateSkin(p) ==
  LET r == req[p] IN
  /\ At(p, "updateSkin")
  /\ ~UpdateHookRejects
  /\ Live(r.skin)
  /\ skin' = [skin EXCEPT ![r.skin].vis = r.vis]
  /\ IF r.old = r.vis THEN UNCHANGED <<row, used>>
                      ELSE WriteQuota(r.user, NewUsed(r))
  /\ Finish(p)
  /\ UNCHANGED <<assoc, file>>

\* The hook refuses, or the record read back after the update is gone.
UpdateSkinFails(p) ==
  /\ At(p, "updateSkin")
  /\ UpdateHookRejects \/ ~Live(req[p].skin)
  /\ Rollback(p)

--------------------------------------------------------------------------
\* Delete: association and record are read outside the transaction, then the
\* association, and for type normal the record and the quota row, inside it.

StartDelete(p, u, s) ==
  /\ Receive(p, "delete", u)
  /\ Associated(u, s)
  /\ req' = [req EXCEPT ![p] = [NoRequest EXCEPT !.op = "delete", !.user = u, !.skin = s]]
  /\ Goto(p, "readSkin")
  /\ UNCHANGED <<tables, file, lock>>

\* Mutant: built-in records are not refused.
ReadAnySkinForDelete(p) ==
  /\ At(p, "readSkin")
  /\ req[p].op = "delete"
  /\ Live(req[p].skin)
  /\ Goto(p, "checkAssoc")
  /\ UNCHANGED <<tables, file, lock, req>>

ReadSkinForDelete(p) ==
  LET s == req[p].skin IN
  /\ At(p, "readSkin")
  /\ req[p].op = "delete"
  /\ Live(s)
  /\ skin[s].owner # None
  /\ Goto(p, "checkAssoc")
  /\ UNCHANGED <<tables, file, lock, req>>

DeleteRefused(p) ==
  LET s == req[p].skin IN
  /\ At(p, "readSkin")
  /\ req[p].op = "delete"
  /\ ~(Live(s) /\ skin[s].owner # None)
  /\ Rollback(p)

CheckAssocForDelete(p) ==
  LET r == req[p] IN
  /\ At(p, "checkAssoc")
  /\ r.op = "delete"
  /\ Associated(r.user, r.skin)
  /\ Goto(p, IF assoc[r.user][r.skin] = "normal" THEN "readOwnSkin" ELSE "dropAssoc")
  /\ UNCHANGED <<tables, file, lock, req>>

DeleteDenied(p) ==
  LET r == req[p] IN
  /\ At(p, "checkAssoc")
  /\ r.op = "delete"
  /\ ~Associated(r.user, r.skin)
  /\ Rollback(p)

\* The visibility is read in the transaction, before the quota row is locked.
ReadOwnSkin(p) ==
  LET s == req[p].skin IN
  /\ At(p, "readOwnSkin")
  /\ Live(s)
  /\ req' = [req EXCEPT ![p].old = skin[s].vis]
  /\ Goto(p, "lockQuota")
  /\ UNCHANGED <<tables, file, lock>>

OwnSkinGone(p) ==
  /\ At(p, "readOwnSkin")
  /\ ~Live(req[p].skin)
  /\ Rollback(p)

\* DELETE of the association; that no row matches is not noticed.
DropAssoc(p) ==
  LET r == req[p] IN
  /\ At(p, "dropAssoc")
  /\ ~BeingDropped(p, r.user, r.skin)
  /\ req' = [req EXCEPT ![p].dropped = Associated(r.user, r.skin)]
  /\ Goto(p, "countRefs")
  /\ UNCHANGED <<tables, file, lock>>

\* Mutant: references are counted as if the association were still there.
ReferencesBefore(r) == {u \in Users : Associated(u, r.skin)}

\* The associations with the record the transaction of r sees.
References(r) ==
  {u \in Users : Associated(u, r.skin) /\ ~(r.dropped /\ u = r.user)}

\* An unreferenced record goes with the last association if the user owns it.
CountRefs(p) ==
  LET r == req[p] IN
  /\ At(p, "countRefs")
  /\ req' = [req EXCEPT ![p].last =
       /\ References(r) = {}
       /\ Live(r.skin)
       /\ skin[r.skin].owner = r.user]
  /\ Goto(p, "commitDrop")
  /\ UNCHANGED <<tables, file, lock>>

\* DELETE of the record, whose associations go with it (ON DELETE CASCADE); it
\* waits for other transactions that are deleting one of them.
RemoveRecord(p) ==
  LET s == req[p].skin IN
  /\ \A u \in Users : ~BeingDropped(p, u, s)
  /\ skin' = [skin EXCEPT ![s] = None]
  /\ assoc' = [u \in Users |-> [assoc[u] EXCEPT ![s] = "none"]]

RemoveAssoc(p) ==
  LET r == req[p] IN
  /\ assoc' = IF r.dropped THEN [assoc EXCEPT ![r.user][r.skin] = "none"] ELSE assoc
  /\ UNCHANGED skin

\* Mutant: the place of a deleted association is not given back.
CommitDropKeepsQuota(p) ==
  LET r == req[p] IN
  /\ At(p, "commitDrop")
  /\ IF r.last THEN RemoveRecord(p) ELSE RemoveAssoc(p)
  /\ UNCHANGED <<row, used, file>>

CommitDrop(p) ==
  LET r == req[p] IN
  /\ At(p, "commitDrop")
  /\ IF r.last THEN RemoveRecord(p) ELSE RemoveAssoc(p)
  /\ IF Holds(p) THEN WriteQuota(r.user, NewUsed(r)) ELSE UNCHANGED <<row, used>>
  /\ UNCHANGED file

\* A user's deletion goes on to delete the texture file ...
CommitDelete(p) ==
  /\ req[p].op = "delete"
  /\ CommitDrop(p)
  /\ Release(p)
  /\ Goto(p, "deleteFile")
  /\ req' = [req EXCEPT ![p] = [NoRequest EXCEPT !.op = "delete", !.skin = req[p].skin]]

\* ... an administrator's revocation does not.
CommitRevoke(p) ==
  /\ req[p].op = "revoke"
  /\ CommitDrop(p)
  /\ Finish(p)

DeleteFile(p) ==
  /\ At(p, "deleteFile")
  /\ file' = [file EXCEPT ![req[p].skin] = "deleted"]
  /\ Finish(p)
  /\ UNCHANGED tables

--------------------------------------------------------------------------
\* Administrators: gift, revoke, recalculate.

StartGift(p, u, s) ==
  /\ Receive(p, "gift", u)
  /\ Live(s)
  /\ req' = [req EXCEPT ![p] = [NoRequest EXCEPT !.op = "gift", !.user = u, !.skin = s]]
  /\ Goto(p, "checkGift")
  /\ UNCHANGED <<tables, file, lock>>

CheckGift(p) ==
  /\ At(p, "checkGift")
  /\ ~Associated(req[p].user, req[p].skin)
  /\ Goto(p, "insertGift")
  /\ UNCHANGED <<tables, file, lock, req>>

GiftDenied(p) ==
  /\ At(p, "checkGift")
  /\ Associated(req[p].user, req[p].skin)
  /\ Rollback(p)

InsertGift(p) ==
  LET r == req[p] IN
  /\ At(p, "insertGift")
  /\ ~BeingDropped(p, r.user, r.skin)
  /\ Live(r.skin)
  /\ ~Associated(r.user, r.skin)
  /\ assoc' = [assoc EXCEPT ![r.user][r.skin] = "gift"]
  /\ Finish(p)
  /\ UNCHANGED <<skin, row, used, file>>

InsertGiftFails(p) ==
  LET r == req[p] IN
  /\ At(p, "insertGift")
  /\ ~BeingDropped(p, r.user, r.skin)
  /\ ~Live(r.skin) \/ Associated(r.user, r.skin)
  /\ Rollback(p)

StartRevoke(p, u, s) ==
  /\ Receive(p, "revoke", u)
  /\ assoc[u][s] \notin {"none", "normal"}
  /\ req' = [req EXCEPT ![p] = [NoRequest EXCEPT !.op = "revoke", !.user = u, !.skin = s]]
  /\ Goto(p, "dropAssoc")
  /\ UNCHANGED <<tables, file, lock>>

StartRecalculate(p, u) ==
  /\ Receive(p, "recalculate", u)
  /\ req' = [req EXCEPT ![p] = [NoRequest EXCEPT !.op = "recalculate", !.user = u]]
  /\ Goto(p, "lockQuota")
  /\ UNCHANGED <<tables, file, lock>>

\* The records of u that count toward its quota for v.
Counted(u, v) == {s \in Ids : Live(s) /\ assoc[u][s] = "normal" /\ skin[s].vis = v}

CountPublic(p) ==
  LET u == req[p].user IN
  /\ At(p, "countPublic")
  /\ req' = [req EXCEPT ![p].seen["public"] = Cardinality(Counted(u, "public"))]
  /\ Goto(p, "countPrivate")
  /\ UNCHANGED <<tables, file, lock>>

\* The second count, the write of both and the commit.
CountPrivate(p) ==
  LET u == req[p].user IN
  /\ At(p, "countPrivate")
  /\ WriteQuota(u, [req[p].seen EXCEPT !["private"] = Cardinality(Counted(u, "private"))])
  /\ Finish(p)
  /\ UNCHANGED <<skin, assoc, file>>

--------------------------------------------------------------------------
\* The client leaves, the connection breaks or the server stops: the open
\* transaction rolls back; a bucket call that was due is never made (a bucket
\* call that fails looks the same).
CutOff(p) ==
  /\ Faults
  /\ ~At(p, "idle")
  /\ Rollback(p)

CreateStep(p) ==
  \/ HashUnknown(p) \/ HashOfOther(p) \/ HashOfOwn(p)
  \/ AssocFound(p) \/ AssocMissing(p)
  \/ InsertAssoc(p) \/ InsertAssocFails(p)
  \/ InsertSkin(p) \/ InsertSkinFails(p)
  \/ VerifyFile(p)

UpdateStep(p) ==
  \/ \E v \in Vis : ReadSkinForUpdate(p, v)
  \/ UpdateRefused(p)
  \/ CheckAssocForUpdate(p) \/ UpdateDenied(p)
  \/ UpdateSkin(p) \/ UpdateSkinFails(p)

DeleteStep(p) ==
  \/ ReadSkinForDelete(p) \/ DeleteRefused(p)
  \/ CheckAssocForDelete(p) \/ DeleteDenied(p)
  \/ ReadOwnSkin(p) \/ OwnSkinGone(p)
  \/ DropAssoc(p) \/ CountRefs(p)
  \/ CommitDelete(p) \/ CommitRevoke(p)
  \/ DeleteFile(p)

AdminStep(p) ==
  \/ CheckGift(p) \/ GiftDenied(p)
  \/ InsertGift(p) \/ InsertGiftFails(p)
  \/ CountPublic(p) \/ CountPrivate(p)

QuotaStep(p) ==
  \/ LockQuota(p) \/ QuotaRefused(p) \/ QuotaMissing(p)
  \/ InsertQuota(p) \/ InsertQuotaFails(p)

\* A step of the request that runs in slot p.
Step(p) ==
  QuotaStep(p) \/ CreateStep(p) \/ UpdateStep(p) \/ DeleteStep(p) \/ AdminStep(p)

\* A request arrives in slot p.
Arrive(p) ==
  \E u \in Users :
    \/ \E f \in Ids, h \in Hashes, v \in Vis : Upload(p, u, f, h, v)
    \/ \E s \in Ids : StartUpdate(p, u, s)
    \/ \E s \in Ids : StartDelete(p, u, s)
    \/ \E s \in Ids : StartGift(p, u, s)
    \/ \E s \in Ids : StartRevoke(p, u, s)
    \/ StartRecalculate(p, u)

Next ==
  \/ \E p \in Procs : Arrive(p) \/ Step(p) \/ CutOff(p)
  \/ \E u \in Users : GetQuota(u)

Spec == Init /\ [][Next]_vars

\* A slot goes on whenever its statement can run.  Strong fairness, because a
\* statement that waits for a row lock may find it free and taken again:
\* PostgreSQL grants a row lock in the order of its queue.
FairSpec == Spec /\ \A p \in Procs : SF_vars(Step(p))

--------------------------------------------------------------------------
(***************************************************************************)
(* Properties.                                                             *)
(***************************************************************************)

\* What the ledger sees of a slot: the request, until its transaction is over.
doing ==
  [p \in Procs |->
    IF req[p].user = None THEN <<"none", None>> ELSE <<req[p].op, req[p].user>>]

\* The quota columns behave as the ledger: a request whose transaction writes
\* them, on values it read before others ran, takes effect once, as one step of
\* its kind on the current values.
Ledger ==
  INSTANCE QuotaLedger WITH
    Users <- Users, Procs <- Procs, Total <- Total, None <- None, used <- used, doing <- doing
LedgerSpec == Ledger!Spec

\* The row lock makes the quota read current: what a transaction saw of the
\* locked row is what the row still holds when the transaction writes it, and
\* only a slot with a running transaction holds a lock.  A recalculation
\* overwrites what it saw with its counts.
LockedReadCurrent ==
  \A u \in Users, p \in Procs :
    lock[u] = p =>
      /\ req[p].user = u
      /\ req[p].op # "recalculate" => req[p].seen = used[u]
      /\ Admits(req[p], used[u])

\* Only the uploader of a record holds it as normal: no interleaving of gifts,
\* revocations, deletions and repeated uploads makes a gift count toward the
\* quota or lets a user other than the owner change a record.
NormalOnlyByOwner ==
  \A u \in Users, s \in Ids :
    assoc[u][s] = "normal" => Live(s) /\ skin[s].owner = u

\* The used columns count the normal associations by the visibility of their
\* records (the rule of the design document and of RecalculateQuota).
QuotaExact ==
  \A u \in Users, v \in Vis : used[u][v] = Cardinality(Counted(u, v))

\* The drift of the quota is never to the user's loss: over both visibilities
\* no more places are charged than the user holds normal associations.
NeverOvercharged ==
  \A u \in Users :
    used[u]["public"] + used[u]["private"]
      <= Cardinality({s \in Ids : assoc[u][s] = "normal"})

\* Built-in records stay, with their files, whoever is given them.
BuiltInKept ==
  \A s \in DOMAIN Seeds : Live(s) /\ skin[s].owner = None /\ file[s] = "permanent"

\* No record loses its texture: the file of a live record is not deleted.
LiveFileKept == \A s \in Ids : Live(s) => file[s] # "deleted"

\* No upload is orphaned: its owner still holds it, so it can be deleted.
OwnerHolds ==
  \A s \in Ids : Live(s) /\ skin[s].owner # None => assoc[skin[s].owner][s] = "normal"

\* Unless requests are cut off, the bucket will not discard the file of a live
\* record: it leaves the cache with the request that uploaded it.
LiveFileVerified ==
  \A s \in Ids :
    Live(s) /\ file[s] = "cached" => \E p \in Procs : req[p].file = s

\* An update that has passed every check takes effect.
UpdateTakesEffect ==
  [][\A p \in Procs :
       At(p, "updateSkin") /\ pc'[p] # pc[p] /\ Live(req[p].skin)
         => skin'[req[p].skin] = [skin[req[p].skin] EXCEPT !.vis = req[p].vis]]_vars

\* Every request ends, whatever row locks it waits for.
RequestsEnd == \A p \in Procs : ~At(p, "idle") ~> At(p, "idle")
==========================================================================
