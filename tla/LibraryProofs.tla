-------------------------- MODULE LibraryProofs --------------------------
(***************************************************************************)
(* Proofs about Library for every set of users, ids, hashes and slots, all *)
(* totals and every workload.                                              *)
(*                                                                         *)
(* The inductive invariant Inv says what a slot knows at each statement    *)
(* (Shape), that the statements which write the quota are reached with the *)
(* row lock held (Locked), what the holder of a lock knows of the row      *)
(* (LockKnows), and that a missing row has no places used (RowZero).       *)
(***************************************************************************)
EXTENDS Library, FiniteSetTheorems, TLAPS

LockedStatements ==
  {"lookupHash", "findAssoc", "insertSkin", "insertAssoc", "updateSkin",
   "dropAssoc", "countRefs", "commitDrop", "countPublic", "countPrivate"}

\* What request r holds when statement l is next.
Shape(r, l) ==
  /\ l \notin {"idle", "verifyFile", "deleteFile"} => r.user \in Users
  /\ l \in {"idle", "verifyFile", "deleteFile"} => r.user = None
  /\ r.op = "none" => r.user = None
  /\ l \in {"lookupHash", "findAssoc", "insertSkin", "insertAssoc"} => r.op = "create"
  /\ l \in {"lockQuota", "insertQuota"} =>
       r.op \in {"create", "update", "delete", "recalculate"}
  /\ l = "updateSkin" => r.op = "update"
  /\ l \in {"countPublic", "countPrivate"} => r.op = "recalculate"
  /\ l \in {"dropAssoc", "countRefs", "commitDrop"} =>
       r.op \in {"delete", "revoke"}
  /\ l \in {"checkGift", "insertGift"} => r.op = "gift"
  /\ l \in {"readSkin", "checkAssoc"} => r.op \in {"update", "delete"}
  /\ l \in {"readOwnSkin", "deleteFile"} => r.op = "delete"
  /\ l = "verifyFile" => r.op = "create"
  /\ r.op = "create" => r.file \in Ids
  /\ r.op = "create" /\ l # "verifyFile" => r.hash \in Hashes /\ r.vis \in Vis
  /\ l \in {"findAssoc", "insertAssoc"} => r.skin \in Ids
  /\ r.op \in {"update", "delete", "gift", "revoke"} => r.skin \in Ids
  /\ r.op = "update" /\ l # "readSkin" => r.vis \in Vis /\ r.old \in Vis
  /\ r.op = "update" /\ l \in {"lockQuota", "insertQuota"} => r.old # r.vis
  /\ r.op = "delete" /\ l \in {"lockQuota", "insertQuota"} => r.old \in Vis

Shapes == \A p \in Procs : Shape(req[p], pc[p])

\* These statements run under the row lock of the request's user.
NeedsLock(r, l) ==
  \/ l \in {"lookupHash", "findAssoc", "insertSkin", "insertAssoc",
            "countPublic", "countPrivate"}
  \/ l = "updateSkin" /\ r.old # r.vis

Locked == \A p \in Procs : NeedsLock(req[p], pc[p]) => lock[req[p].user] = p

\* A request that holds the lock of u, whose row has the counts q.
Knows(r, l, u, q) ==
  /\ r.user = u
  /\ l \in LockedStatements
  /\ r.op \in {"create", "update", "delete", "recalculate"}
  /\ r.op = "update" => r.old # r.vis
  /\ r.op = "delete" => r.old \in Vis
  /\ r.op # "recalculate" => r.seen = q
  /\ Admits(r, q)

LockKnows ==
  \A u \in Users, p \in Procs : lock[u] = p => Knows(req[p], pc[p], u, used[u])

RowZero == \A u \in Users \ row : used[u] = ZeroUsed

Inv == TypeOK /\ Shapes /\ Locked /\ LockKnows /\ RowZero

--------------------------------------------------------------------------

\* The initial states satisfy the invariant.
LEMMA InitInv == Init => Inv
  <1> SUFFICES ASSUME Init PROVE Inv
    OBVIOUS
  <1>1. TypeOK
    BY SeedsAssumption DEF Init, TypeOK, Records, Vis, FileStates, Statements,
       NoRequest, Requests, ZeroUsed, AssignmentTypes
  <1>2. Shapes
    BY DEF Init, Shapes, Shape, NoRequest
  <1>3. Locked /\ LockKnows
    BY NoneAssumption DEF Init, Locked, NeedsLock, LockKnows
  <1>4. RowZero
    BY DEF Init, RowZero
  <1> QED
    BY <1>1, <1>2, <1>3, <1>4 DEF Inv

\* A request past its first statement and before its bucket call has a user.
LEMMA UserKnown ==
  ASSUME Shapes, NEW p \in Procs, pc[p] \notin {"idle", "verifyFile", "deleteFile"}
  PROVE  req[p].user \in Users
  BY DEF Shapes, Shape

\* A step of slot p keeps the invariant if it leaves the locks of the others and
\* the rows they lock alone, and leaves p with what its next statement needs.
LEMMA StepInv ==
  ASSUME Inv, NEW p \in Procs, NEW l \in Statements, NEW r \in Requests,
         TypeOK', RowZero', Shape(r, l),
         pc' = [pc EXCEPT ![p] = l], req' = [req EXCEPT ![p] = r],
         \A q \in Procs \ {p}, u \in Users :
           /\ lock'[u] = q <=> lock[u] = q
           /\ lock[u] = q => used'[u] = used[u],
         NeedsLock(r, l) => lock'[r.user] = p,
         \A u \in Users : lock'[u] = p => Knows(r, l, u, used'[u])
  PROVE  Inv'
  <1>1. pc'[p] = l /\ req'[p] = r
    BY DEF Inv, TypeOK
  <1>2. \A q \in Procs \ {p} : pc'[q] = pc[q] /\ req'[q] = req[q]
    BY DEF Inv, TypeOK
  <1>3. Shapes'
    BY <1>1, <1>2 DEF Inv, Shapes
  <1>4. Locked'
    <2> SUFFICES ASSUME NEW q \in Procs, NeedsLock(req'[q], pc'[q])
                 PROVE  lock'[req'[q].user] = q
      BY DEF Locked
    <2>1. CASE q = p
      BY <2>1, <1>1
    <2>2. CASE q # p
      <3>1. req[q].user \in Users
        BY <2>2, <1>2, UserKnown DEF Inv, NeedsLock
      <3> QED
        BY <2>2, <3>1, <1>2 DEF Inv, Locked
    <2> QED
      BY <2>1, <2>2
  <1>5. LockKnows'
    <2> SUFFICES ASSUME NEW u \in Users, NEW q \in Procs, lock'[u] = q
                 PROVE  Knows(req'[q], pc'[q], u, used'[u])
      BY DEF LockKnows
    <2>1. CASE q = p
      BY <2>1, <1>1
    <2>2. CASE q # p
      BY <2>2, <1>2 DEF Inv, LockKnows
    <2> QED
      BY <2>1, <2>2
  <1> QED
    BY <1>3, <1>4, <1>5 DEF Inv

\* A step that only reads: tables and locks stay as they are.
LEMMA ReadInv ==
  ASSUME Inv, NEW p \in Procs, NEW l \in Statements, NEW r \in Requests,
         Shape(r, l), file' \in [Ids -> FileStates], UNCHANGED <<tables, lock>>,
         pc' = [pc EXCEPT ![p] = l], req' = [req EXCEPT ![p] = r],
         NeedsLock(r, l) => lock[r.user] = p,
         \A u \in Users : lock[u] = p => Knows(r, l, u, used[u])
  PROVE  Inv'
  <1>1. TypeOK'
    BY DEF Inv, TypeOK, tables
  <1>2. RowZero'
    BY DEF Inv, RowZero, tables
  <1> QED
    BY <1>1, <1>2, StepInv DEF tables

\* A step that ends the transaction: p's locks go, and p writes no row but one
\* it has locked.
LEMMA ReleaseInv ==
  ASSUME Inv, NEW p \in Procs, NEW l \in {"idle", "verifyFile", "deleteFile"},
         NEW r \in Requests, Shape(r, l), Release(p), TypeOK', RowZero',
         pc' = [pc EXCEPT ![p] = l], req' = [req EXCEPT ![p] = r],
         \A u \in Users : lock[u] # p => used'[u] = used[u]
  PROVE  Inv'
  <1>1. l \in Statements /\ ~NeedsLock(r, l)
    BY DEF Statements, NeedsLock
  <1>2. \A u \in Users : lock'[u] = IF lock[u] = p THEN None ELSE lock[u]
    BY DEF Release
  <1>3. \A u \in Users : lock'[u] # p
    BY <1>2, NoneAssumption
  <1>4. \A q \in Procs \ {p}, u \in Users :
          /\ lock'[u] = q <=> lock[u] = q
          /\ lock[u] = q => used'[u] = used[u]
    BY <1>2, NoneAssumption
  <1> QED
    BY <1>1, <1>3, <1>4, StepInv

\* A request that ends without writing a table keeps the invariant.
LEMMA FinishInv ==
  ASSUME Inv, NEW p \in Procs, Finish(p), UNCHANGED tables,
         file' \in [Ids -> FileStates]
  PROVE  Inv'
  <1>1. NoRequest \in Requests /\ Shape(NoRequest, "idle")
    BY DEF NoRequest, Requests, ZeroUsed, Vis, Shape
  <1>2. TypeOK'
    BY <1>1 DEF Inv, TypeOK, Finish, Goto, Release, tables, Statements
  <1>3. RowZero'
    BY DEF Inv, RowZero, tables
  <1> QED
    BY <1>1, <1>2, <1>3, ReleaseInv DEF Finish, Goto, tables

LEMMA RollbackInv ==
  ASSUME Inv, NEW p \in Procs, Rollback(p)
  PROVE  Inv'
  BY FinishInv DEF Rollback, Inv, TypeOK
\* Outside the locked statements a slot holds no lock.
LEMMA NoLock ==
  ASSUME Inv, NEW p \in Procs, pc[p] \notin LockedStatements
  PROVE  \A u \in Users : lock[u] # p
  BY DEF Inv, LockKnows, Knows

\* At each statement p's request is well-typed and has its shape.
LEMMA KnownRequest ==
  ASSUME Inv, NEW p \in Procs
  PROVE  req[p] \in Requests /\ pc[p] \in Statements /\ Shape(req[p], pc[p])
  BY DEF Inv, TypeOK, Shapes

--------------------------------------------------------------------------
\* The arrival of a request.
LEMMA ArriveInv ==
  ASSUME Inv, NEW p \in Procs, Arrive(p)
  PROVE  Inv'
  <1> USE DEF Receive, At, Goto
  <1>1. PICK u \in Users :
          \/ \E f \in Ids, h \in Hashes, v \in Vis : Upload(p, u, f, h, v)
          \/ \E s \in Ids : StartUpdate(p, u, s)
          \/ \E s \in Ids : StartDelete(p, u, s)
          \/ \E s \in Ids : StartGift(p, u, s)
          \/ \E s \in Ids : StartRevoke(p, u, s)
          \/ StartRecalculate(p, u)
    BY DEF Arrive
  <1>2. ASSUME pc[p] = "idle" PROVE \A w \in Users : lock[w] # p
    BY <1>2, NoLock DEF LockedStatements
  <1>3. ASSUME NEW f \in Ids, NEW h \in Hashes, NEW v \in Vis, Upload(p, u, f, h, v)
        PROVE  Inv'
    <2> DEFINE r == [NoRequest EXCEPT
                       !.op = "create", !.user = u, !.file = f, !.hash = h, !.vis = v]
    <2>1. r \in Requests /\ Shape(r, "lockQuota") /\ ~NeedsLock(r, "lockQuota")
      BY DEF NoRequest, Requests, ZeroUsed, Vis, Ops, Shape, NeedsLock
    <2>2. file' \in [Ids -> FileStates]
      BY <1>3 DEF Upload, Inv, TypeOK, FileStates
    <2>3. UNCHANGED <<tables, lock>> /\ pc[p] = "idle"
            /\ pc' = [pc EXCEPT ![p] = "lockQuota"] /\ req' = [req EXCEPT ![p] = r]
      BY <1>3 DEF Upload
    <2> QED
      BY <2>1, <2>2, <2>3, <1>2, ReadInv DEF Statements
  <1>4. ASSUME NEW s \in Ids, NEW o \in {"update", "delete", "gift", "revoke"},
               NEW l \in {"readSkin", "checkGift", "dropAssoc"}, pc[p] = "idle",
               <<o, l>> \in {<<"update", "readSkin">>, <<"delete", "readSkin">>,
                             <<"gift", "checkGift">>, <<"revoke", "dropAssoc">>},
               req' = [req EXCEPT ![p] =
                        [NoRequest EXCEPT !.op = o, !.user = u, !.skin = s]],
               pc' = [pc EXCEPT ![p] = l], UNCHANGED <<tables, file, lock>>
        PROVE  Inv'
    <2> DEFINE r == [NoRequest EXCEPT !.op = o, !.user = u, !.skin = s]
    <2>1. r \in Requests /\ Shape(r, l) /\ ~NeedsLock(r, l) /\ l \in Statements
      BY <1>4 DEF NoRequest, Requests, ZeroUsed, Vis, Ops, Shape, NeedsLock, Statements
    <2> QED
      BY <1>2, <1>4, <2>1, ReadInv DEF Inv, TypeOK
  <1>5. ASSUME StartRecalculate(p, u)
        PROVE  Inv'
    <2> DEFINE r == [NoRequest EXCEPT !.op = "recalculate", !.user = u]
    <2>1. r \in Requests /\ Shape(r, "lockQuota") /\ ~NeedsLock(r, "lockQuota")
      BY DEF NoRequest, Requests, ZeroUsed, Vis, Ops, Shape, NeedsLock
    <2>2. UNCHANGED <<tables, file, lock>> /\ pc[p] = "idle"
            /\ pc' = [pc EXCEPT ![p] = "lockQuota"] /\ req' = [req EXCEPT ![p] = r]
      BY <1>5 DEF StartRecalculate
    <2> QED
      BY <2>1, <2>2, <1>2, ReadInv DEF Statements, Inv, TypeOK
  <1> QED
    BY <1>1, <1>3, <1>4, <1>5 DEF StartUpdate, StartDelete, StartGift, StartRevoke

\* The statements on the quota row.
LEMMA QuotaStepInv ==
  ASSUME Inv, NEW p \in Procs, QuotaStep(p)
  PROVE  Inv'
  <1> DEFINE u == req[p].user
  <1>1. CASE QuotaMissing(p)
    <2>1. Shape(req[p], "insertQuota") /\ ~NeedsLock(req[p], "insertQuota")
      BY <1>1, KnownRequest DEF QuotaMissing, At, Shape, NeedsLock
    <2>2. \A w \in Users : lock[w] # p
      BY <1>1, NoLock DEF QuotaMissing, At, LockedStatements
    <2>3. req' = [req EXCEPT ![p] = req[p]] /\ pc' = [pc EXCEPT ![p] = "insertQuota"]
            /\ UNCHANGED <<tables, file, lock>>
      BY <1>1 DEF QuotaMissing, Goto, Inv, TypeOK
    <2> QED
      BY <2>1, <2>2, <2>3, KnownRequest, ReadInv DEF Statements, Inv, TypeOK
  <1>2. CASE QuotaRefused(p) \/ InsertQuotaFails(p)
    BY <1>2, RollbackInv DEF QuotaRefused, InsertQuotaFails
  <1>3. ASSUME NEW q \in [Vis -> Nat], pc[p] \in {"lockQuota", "insertQuota"},
               lock[u] = None, used[u] = q, Acquire(p, q)
        PROVE  Inv'
    <2> DEFINE r == [req[p] EXCEPT !.seen = q]
               l == AfterLock[r.op]
    <2>1. /\ req[p] \in Requests
          /\ Shape(req[p], pc[p])
          /\ u \in Users
          /\ req[p].op \in {"create", "update", "delete", "recalculate"}
          /\ req[p].op = "update" => req[p].old # req[p].vis
          /\ req[p].op = "delete" => req[p].old \in Vis
      BY <1>3, KnownRequest DEF Shape
    <2>2. r \in Requests
      BY <2>1 DEF Requests
    <2>3. /\ l \in LockedStatements
          /\ l \in Statements
          /\ r.op = "create" => l = "lookupHash"
          /\ r.op = "update" => l = "updateSkin"
          /\ r.op = "delete" => l = "dropAssoc"
          /\ r.op = "recalculate" => l = "countPublic"
      BY <2>1 DEF AfterLock, LockedStatements, Ops, Statements, Requests
    <2>4. Shape(r, l)
      BY <2>1, <2>3, <1>3 DEF Shape, Requests
    <2>5. Knows(r, l, u, q)
      BY <2>1, <2>3, <1>3 DEF Knows, Acquire, Admits, Requests
    <2>6. /\ req' = [req EXCEPT ![p] = r]
          /\ pc' = [pc EXCEPT ![p] = l]
          /\ lock' = [lock EXCEPT ![u] = p]
          /\ UNCHANGED <<tables, file>>
      BY <1>3 DEF Acquire, Goto, Inv, TypeOK, Requests
    <2>7. TypeOK' /\ RowZero'
      BY <2>2, <2>3, <2>6 DEF Inv, TypeOK, RowZero, tables
    <2>8. \A w \in Users : lock[w] # p
      BY <1>3, NoLock DEF LockedStatements
    <2>9. \A x \in Procs \ {p}, w \in Users :
            /\ lock'[w] = x <=> lock[w] = x
            /\ lock[w] = x => used'[w] = used[w]
      BY <2>6, <1>3, NoneAssumption DEF Inv, TypeOK, tables
    <2>10. \A w \in Users : lock'[w] = p => w = u /\ used'[w] = q
      BY <2>6, <2>8, <1>3 DEF Inv, TypeOK, tables
    <2>11. lock'[r.user] = p
      BY <2>6, <2>1 DEF Inv, TypeOK, Requests
    <2>12. \A w \in Users : lock'[w] = p => Knows(r, l, w, used'[w])
      BY <2>5, <2>10
    <2> HIDE DEF r, l
    <2> QED
      BY <2>2, <2>3, <2>4, <2>6, <2>7, <2>9, <2>11, <2>12, StepInv
  <1>4. CASE LockQuota(p)
    <2>1. u \in Users
      BY <1>4, KnownRequest DEF LockQuota, At, Shape
    <2> QED
      BY <1>3, <1>4, <2>1 DEF LockQuota, At, Inv, TypeOK
  <1>5. CASE InsertQuota(p)
    <2>1. u \in Users
      BY <1>5, KnownRequest DEF InsertQuota, At, Shape
    <2>2. used[u] = ZeroUsed /\ ZeroUsed \in [Vis -> Nat]
      BY <1>5, <2>1 DEF InsertQuota, Inv, RowZero, ZeroUsed
    <2> QED
      BY <1>3, <1>5, <2>2 DEF InsertQuota, At
  <1> QED
    BY <1>1, <1>2, <1>4, <1>5, QuotaStep(p) DEF QuotaStep
\* A commit that writes the locked quota row keeps the invariant.
LEMMA CommitInv ==
  ASSUME Inv, NEW p \in Procs, NEW u \in Users, lock[u] = p,
         NEW q \in [Vis -> Nat], WriteQuota(u, q), Release(p),
         NEW l \in {"idle", "verifyFile", "deleteFile"}, NEW r \in Requests,
         Shape(r, l), pc' = [pc EXCEPT ![p] = l], req' = [req EXCEPT ![p] = r],
         skin' \in [Ids -> Records \cup {None}],
         assoc' \in [Users -> [Ids -> AssignmentTypes \cup {"none"}]],
         file' \in [Ids -> FileStates]
  PROVE  Inv'
  <1>1. TypeOK'
    BY DEF Inv, TypeOK, WriteQuota, Release, Statements
  <1>2. RowZero'
    BY DEF Inv, TypeOK, RowZero, WriteQuota
  <1>3. \A w \in Users : lock[w] # p => used'[w] = used[w]
    BY DEF Inv, TypeOK, WriteQuota
  <1> QED
    BY <1>1, <1>2, <1>3, ReleaseInv

\* What a transaction writes to the row it holds are natural numbers.
LEMMA NewUsedNat ==
  ASSUME Inv, NEW p \in Procs, NEW u \in Users, lock[u] = p,
         req[p].op \in {"create", "update", "delete"}
  PROVE  NewUsed(req[p]) \in [Vis -> Nat]
  <1>1. Knows(req[p], pc[p], u, used[u]) /\ used[u] \in [Vis -> Nat]
    BY DEF Inv, LockKnows, TypeOK
  <1>2. req[p].seen = used[u] /\ req[p] \in Requests
    BY <1>1, KnownRequest DEF Knows
  <1>3. \A v \in Vis : NewUsed(req[p])[v] \in Nat
    <2> SUFFICES ASSUME NEW v \in Vis PROVE NewUsed(req[p])[v] \in Nat
      OBVIOUS
    <2>1. used[u][v] \in Nat
      BY <1>1
    <2>2. req[p].op \in {"update", "delete"} /\ v = req[p].old => used[u][v] > 0
      BY <1>1 DEF Knows, Admits
    <2> QED
      BY <1>2, <2>1, <2>2 DEF NewUsed
  <1> QED
    BY <1>3 DEF NewUsed

LEMMA CreateStepInv ==
  ASSUME Inv, NEW p \in Procs, CreateStep(p)
  PROVE  Inv'
  <1> DEFINE c == req[p]
  <1> USE DEF At, Goto
  <1>1. c \in Requests /\ Shape(c, pc[p])
    BY KnownRequest
  \* A read on the way: the lock stays, and the request may learn the record.
  <1>2. ASSUME NEW l \in {"insertSkin", "findAssoc", "insertAssoc"},
               NEW s \in Ids \cup {None}, s \in Ids \/ l = "insertSkin",
               pc[p] \in {"lookupHash", "findAssoc"},
               pc' = [pc EXCEPT ![p] = l], req' = [req EXCEPT ![p].skin = s],
               UNCHANGED <<tables, file, lock>>
        PROVE  Inv'
    <2> DEFINE r == [c EXCEPT !.skin = s]
    <2>1. r \in Requests /\ Shape(r, l) /\ l \in Statements
      BY <1>1, <1>2 DEF Requests, Shape, Statements
    <2>2. lock[c.user] = p /\ r.user = c.user /\ req' = [req EXCEPT ![p] = r]
      BY <1>1, <1>2 DEF Inv, Locked, NeedsLock, Requests, TypeOK
    <2>3. \A w \in Users : lock[w] = p => Knows(r, l, w, used[w])
      BY <1>1, <1>2 DEF Inv, LockKnows, Knows, LockedStatements, Admits, Requests
    <2>4. file' \in [Ids -> FileStates] /\ UNCHANGED <<tables, lock>>
      BY <1>2 DEF Inv, TypeOK
    <2>5. NeedsLock(r, l) => lock[r.user] = p
      BY <2>2
    <2>6. pc' = [pc EXCEPT ![p] = l] /\ req' = [req EXCEPT ![p] = r]
      BY <1>2, <2>2
    <2> HIDE DEF r, c
    <2> QED
      BY <2>1, <2>3, <2>4, <2>5, <2>6, ReadInv
  <1>3. CASE HashUnknown(p) \/ AssocMissing(p)
    <2>1. req' = [req EXCEPT ![p].skin = c.skin] /\ c.skin \in Ids \cup {None}
      BY <1>1, <1>3 DEF HashUnknown, AssocMissing, Inv, TypeOK, Requests
    <2>2. AssocMissing(p) => c.skin \in Ids
      BY <1>1 DEF AssocMissing, Shape
    <2> QED
      BY <1>2, <1>3, <2>1, <2>2 DEF HashUnknown, AssocMissing
  <1>4. CASE HashOfOwn(p)
    BY <1>2, <1>4 DEF HashOfOwn, WithHash
  <1>5. CASE HashOfOther(p) \/ InsertAssocFails(p) \/ InsertSkinFails(p)
    BY <1>5, RollbackInv DEF HashOfOther, InsertAssocFails, InsertSkinFails
  <1>6. ASSUME pc[p] \in {"findAssoc", "insertAssoc", "insertSkin"}, CommitCreate(p),
               NEW q \in [Vis -> Nat], WriteQuota(c.user, q),
               skin' \in [Ids -> Records \cup {None}],
               assoc' \in [Users -> [Ids -> AssignmentTypes \cup {"none"}]]
        PROVE  Inv'
    <2> DEFINE r == [NoRequest EXCEPT !.op = "create", !.file = c.file]
    <2>1. c.user \in Users /\ c.file \in Ids
      BY <1>1, <1>6 DEF Shape
    <2>2. r \in Requests /\ Shape(r, "verifyFile")
      BY <2>1 DEF NoRequest, Requests, ZeroUsed, Vis, Ops, Shape
    <2>3. lock[c.user] = p
      BY <1>6 DEF Inv, Locked, NeedsLock
    <2>4. /\ req' = [req EXCEPT ![p] = r]
          /\ pc' = [pc EXCEPT ![p] = "verifyFile"]
          /\ Release(p)
          /\ file' \in [Ids -> FileStates]
      BY <1>6 DEF CommitCreate, Inv, TypeOK
    <2> HIDE DEF r
    <2> QED
      BY <1>6, <2>1, <2>2, <2>3, <2>4, CommitInv
  <1>7. CASE AssocFound(p)
    BY <1>1, <1>6, <1>7 DEF AssocFound, Inv, TypeOK, Requests
  <1>8. CASE InsertAssoc(p)
    <2>1. c.user \in Users /\ c.skin \in Ids /\ c.seen \in [Vis -> Nat]
      BY <1>1, <1>8 DEF InsertAssoc, Shape, Requests
    <2> QED
      BY <1>6, <1>8, <2>1 DEF InsertAssoc, Inv, TypeOK, AssignmentTypes
  <1>9. CASE InsertSkin(p)
    <2>1. c.user \in Users /\ c.file \in Ids /\ c.hash \in Hashes /\ c.vis \in Vis
            /\ c.op = "create"
      BY <1>1, <1>9 DEF InsertSkin, Shape
    <2>2. lock[c.user] = p
      BY <1>9 DEF InsertSkin, Inv, Locked, NeedsLock
    <2>3. NewUsed(c) \in [Vis -> Nat]
      BY <2>1, <2>2, NewUsedNat
    <2>4. /\ skin' \in [Ids -> Records \cup {None}]
          /\ assoc' \in [Users -> [Ids -> AssignmentTypes \cup {"none"}]]
      BY <1>9, <2>1 DEF InsertSkin, Inv, TypeOK, AssignmentTypes, Records
    <2> QED
      BY <1>6, <1>9, <2>3, <2>4 DEF InsertSkin
  <1>10. CASE VerifyFile(p)
    <2>1. file' \in [Ids -> FileStates]
      BY <1>10 DEF VerifyFile, Inv, TypeOK, FileStates
    <2> QED
      BY <1>10, <2>1, FinishInv DEF VerifyFile
  <1> QED
    BY <1>3, <1>4, <1>5, <1>7, <1>8, <1>9, <1>10 DEF CreateStep
LEMMA UpdateStepInv ==
  ASSUME Inv, NEW p \in Procs, UpdateStep(p)
  PROVE  Inv'
  <1> DEFINE c == req[p]
  <1> USE DEF At, Goto
  <1>1. c \in Requests /\ Shape(c, pc[p])
    BY KnownRequest
  <1>2. CASE UpdateRefused(p) \/ UpdateDenied(p) \/ UpdateSkinFails(p)
    BY <1>2, RollbackInv DEF UpdateRefused, UpdateDenied, UpdateSkinFails
  <1>3. ASSUME NEW v \in Vis, ReadSkinForUpdate(p, v)
        PROVE  Inv'
    <2> DEFINE r == [c EXCEPT !.vis = v, !.old = skin[c.skin].vis]
    <2>1. c.skin \in Ids /\ skin[c.skin].vis \in Vis /\ c.op = "update"
      BY <1>1, <1>3 DEF ReadSkinForUpdate, Live, Inv, TypeOK, Records, Shape
    <2>2. r \in Requests /\ Shape(r, "checkAssoc") /\ ~NeedsLock(r, "checkAssoc")
      BY <1>1, <1>3, <2>1 DEF ReadSkinForUpdate, Requests, Shape, NeedsLock
    <2>3. \A w \in Users : lock[w] # p
      BY <1>3, NoLock DEF ReadSkinForUpdate, LockedStatements
    <2>4. /\ pc' = [pc EXCEPT ![p] = "checkAssoc"]
          /\ req' = [req EXCEPT ![p] = r]
          /\ UNCHANGED <<tables, lock>>
          /\ file' \in [Ids -> FileStates]
      BY <1>1, <1>3 DEF ReadSkinForUpdate, Inv, TypeOK, Requests
    <2> HIDE DEF r
    <2> QED
      BY <2>2, <2>3, <2>4, ReadInv DEF Statements
  <1>4. CASE CheckAssocForUpdate(p)
    <2> DEFINE l == IF c.old = c.vis THEN "updateSkin" ELSE "lockQuota"
    <2>1. Shape(c, l) /\ ~NeedsLock(c, l) /\ l \in Statements
      BY <1>1, <1>4 DEF CheckAssocForUpdate, Shape, NeedsLock, Statements
    <2>2. \A w \in Users : lock[w] # p
      BY <1>4, NoLock DEF CheckAssocForUpdate, LockedStatements
    <2>3. /\ pc' = [pc EXCEPT ![p] = l]
          /\ req' = [req EXCEPT ![p] = c]
          /\ UNCHANGED <<tables, lock>>
          /\ file' \in [Ids -> FileStates]
      BY <1>4 DEF CheckAssocForUpdate, Inv, TypeOK
    <2> HIDE DEF l, c
    <2> QED
      BY <1>1, <2>1, <2>2, <2>3, ReadInv
  <1>5. CASE UpdateSkin(p)
    <2>1. c.op = "update" /\ c.user \in Users /\ c.skin \in Ids /\ c.vis \in Vis
      BY <1>1, <1>5 DEF UpdateSkin, Shape
    <2>2. /\ skin' \in [Ids -> Records \cup {None}]
          /\ assoc' \in [Users -> [Ids -> AssignmentTypes \cup {"none"}]]
          /\ file' \in [Ids -> FileStates]
      <3>1. skin[c.skin] \in Records
        BY <1>5, <2>1 DEF UpdateSkin, Live, Inv, TypeOK
      <3>2. [skin[c.skin] EXCEPT !.vis = c.vis] \in Records
        BY <2>1, <3>1 DEF Records
      <3> QED
        BY <1>5, <2>1, <3>2 DEF UpdateSkin, Inv, TypeOK
    <2>3. NoRequest \in Requests /\ Shape(NoRequest, "idle")
      BY DEF NoRequest, Requests, ZeroUsed, Vis, Shape
    <2>4. /\ pc' = [pc EXCEPT ![p] = "idle"]
          /\ req' = [req EXCEPT ![p] = NoRequest]
          /\ Release(p)
      BY <1>5 DEF UpdateSkin, Finish
    <2>5. CASE c.old = c.vis
      <3>1. UNCHANGED <<row, used>>
        BY <1>5, <2>5 DEF UpdateSkin
      <3>2. TypeOK' /\ RowZero'
        BY <2>2, <2>3, <2>4, <3>1 DEF Inv, TypeOK, RowZero, Release, Statements
      <3> QED
        BY <2>3, <2>4, <3>1, <3>2, ReleaseInv
    <2>6. CASE c.old # c.vis
      <3>1. lock[c.user] = p
        BY <1>5, <2>6 DEF UpdateSkin, Inv, Locked, NeedsLock
      <3>2. NewUsed(c) \in [Vis -> Nat]
        BY <2>1, <3>1, NewUsedNat
      <3>3. WriteQuota(c.user, NewUsed(c))
        BY <1>5, <2>6 DEF UpdateSkin
      <3> QED
        BY <2>1, <2>2, <2>3, <2>4, <3>1, <3>2, <3>3, CommitInv
    <2> QED
      BY <2>5, <2>6
  <1> QED
    BY <1>2, <1>3, <1>4, <1>5 DEF UpdateStep
LEMMA DeleteStepInv ==
  ASSUME Inv, NEW p \in Procs, DeleteStep(p)
  PROVE  Inv'
  <1> DEFINE c == req[p]
  <1> USE DEF At, Goto
  <1>1. c \in Requests /\ Shape(c, pc[p])
    BY KnownRequest
  <1>2. CASE DeleteRefused(p) \/ DeleteDenied(p) \/ OwnSkinGone(p)
    BY <1>2, RollbackInv DEF DeleteRefused, DeleteDenied, OwnSkinGone
  \* Before the quota row is locked.
  <1>3. ASSUME pc[p] \in {"readSkin", "checkAssoc", "readOwnSkin"}, c.op = "delete",
               NEW l \in {"checkAssoc", "readOwnSkin", "dropAssoc", "lockQuota"},
               NEW v \in Vis \cup {"none"}, v \in Vis \/ l # "lockQuota",
               pc' = [pc EXCEPT ![p] = l], req' = [req EXCEPT ![p].old = v],
               UNCHANGED <<tables, file, lock>>
        PROVE  Inv'
    <2> DEFINE r == [c EXCEPT !.old = v]
    <2>1. r \in Requests /\ Shape(r, l) /\ ~NeedsLock(r, l) /\ l \in Statements
      BY <1>1, <1>3 DEF Requests, Shape, NeedsLock, Statements
    <2>2. \A w \in Users : lock[w] # p
      BY <1>3, NoLock DEF LockedStatements
    <2>3. /\ req' = [req EXCEPT ![p] = r]
          /\ UNCHANGED <<tables, lock>>
          /\ file' \in [Ids -> FileStates]
      BY <1>3 DEF Inv, TypeOK, Requests
    <2> HIDE DEF r
    <2> QED
      BY <1>3, <2>1, <2>2, <2>3, ReadInv
  <1>4. CASE ReadSkinForDelete(p) \/ CheckAssocForDelete(p)
    <2>1. req' = [req EXCEPT ![p].old = c.old] /\ c.old \in Vis \cup {"none"}
      BY <1>1, <1>4 DEF ReadSkinForDelete, CheckAssocForDelete, Inv, TypeOK, Requests
    <2> QED
      BY <1>3, <1>4, <2>1 DEF ReadSkinForDelete, CheckAssocForDelete
  <1>5. CASE ReadOwnSkin(p)
    <2>1. c.op = "delete" /\ skin[c.skin].vis \in Vis
      BY <1>1, <1>5 DEF ReadOwnSkin, Live, Shape, Inv, TypeOK, Records
    <2> QED
      BY <1>3, <1>5, <2>1 DEF ReadOwnSkin
  \* Between the deletion of the association and the commit.
  <1>6. ASSUME pc[p] \in {"dropAssoc", "countRefs"},
               NEW l \in {"countRefs", "commitDrop"},
               NEW d \in BOOLEAN, NEW e \in BOOLEAN, pc' = [pc EXCEPT ![p] = l],
               req' = [req EXCEPT ![p].dropped = d, ![p].last = e],
               UNCHANGED <<tables, file, lock>>
        PROVE  Inv'
    <2> DEFINE r == [c EXCEPT !.dropped = d, !.last = e]
    <2>0. c.user \in Users /\ c.op \in {"delete", "revoke"} /\ c.skin \in Ids
      BY <1>1, <1>6 DEF Shape
    <2>1. /\ r \in Requests
          /\ r.user = c.user /\ r.op = c.op /\ r.skin = c.skin
          /\ l \in Statements
          /\ ~NeedsLock(r, l)
      BY <1>1, <1>6 DEF Requests, NeedsLock, Statements
    <2>4. Shape(r, l)
      BY <1>6, <2>0, <2>1 DEF Shape
    <2>2. \A w \in Users : lock[w] = p => Knows(r, l, w, used[w])
      BY <1>1, <1>6 DEF Inv, LockKnows, Knows, LockedStatements, Admits, Requests
    <2>3. /\ req' = [req EXCEPT ![p] = r]
          /\ UNCHANGED <<tables, lock>>
          /\ file' \in [Ids -> FileStates]
      BY <1>1, <1>6 DEF Inv, TypeOK, Requests
    <2> HIDE DEF r
    <2> QED
      BY <1>6, <2>1, <2>2, <2>3, <2>4, ReadInv
  <1>7. CASE DropAssoc(p)
    <2>1. Associated(c.user, c.skin) \in BOOLEAN /\ c.last \in BOOLEAN
      BY <1>1 DEF Associated, Requests
    <2>2. req' = [req EXCEPT ![p].dropped = Associated(c.user, c.skin), ![p].last = c.last]
      BY <1>1, <1>7 DEF DropAssoc, Inv, TypeOK, Requests
    <2> QED
      BY <1>6, <1>7, <2>1, <2>2 DEF DropAssoc
  <1>8. CASE CountRefs(p)
    <2> DEFINE e == References(c) = {} /\ Live(c.skin) /\ skin[c.skin].owner = c.user
    <2>1. e \in BOOLEAN /\ c.dropped \in BOOLEAN
      BY <1>1 DEF Requests
    <2>2. req' = [req EXCEPT ![p].dropped = c.dropped, ![p].last = e]
      BY <1>1, <1>8 DEF CountRefs, Inv, TypeOK, Requests
    <2>3. pc[p] = "countRefs" /\ pc' = [pc EXCEPT ![p] = "commitDrop"]
            /\ UNCHANGED <<tables, file, lock>>
      BY <1>8 DEF CountRefs
    <2> HIDE DEF e, c
    <2> QED
      BY <1>6, <2>1, <2>2, <2>3
  <1>9. ASSUME CommitDrop(p), Release(p), NEW l \in {"idle", "deleteFile"},
               NEW r \in Requests, Shape(r, l),
               pc' = [pc EXCEPT ![p] = l], req' = [req EXCEPT ![p] = r]
        PROVE  Inv'
    <2>1. c.user \in Users /\ c.skin \in Ids /\ c.op \in {"delete", "revoke"}
      BY <1>1, <1>9 DEF CommitDrop, Shape
    <2>2. /\ skin' \in [Ids -> Records \cup {None}]
          /\ assoc' \in [Users -> [Ids -> AssignmentTypes \cup {"none"}]]
          /\ file' \in [Ids -> FileStates]
      <3>1. file' \in [Ids -> FileStates]
        BY <1>9 DEF CommitDrop, Inv, TypeOK
      <3>2. CASE c.last
        <4>1. /\ skin' = [skin EXCEPT ![c.skin] = None]
              /\ assoc' = [u \in Users |-> [assoc[u] EXCEPT ![c.skin] = "none"]]
          BY <1>9, <3>2 DEF CommitDrop, RemoveRecord
        <4>2. \A u \in Users : assoc'[u] \in [Ids -> AssignmentTypes \cup {"none"}]
          BY <4>1 DEF Inv, TypeOK
        <4> QED
          BY <2>1, <3>1, <4>1, <4>2 DEF Inv, TypeOK
      <3>3. CASE ~c.last
        <4>1. /\ skin' = skin
              /\ assoc' = IF c.dropped
                            THEN [assoc EXCEPT ![c.user][c.skin] = "none"] ELSE assoc
          BY <1>9, <3>3 DEF CommitDrop, RemoveAssoc
        <4>2. [assoc EXCEPT ![c.user][c.skin] = "none"]
                \in [Users -> [Ids -> AssignmentTypes \cup {"none"}]]
          BY <2>1 DEF Inv, TypeOK
        <4> QED
          BY <3>1, <4>1, <4>2 DEF Inv, TypeOK
      <3> QED
        BY <3>2, <3>3
    <2>3. CASE Holds(p)
      <3>1. PICK u \in Users : lock[u] = p
        BY <2>3 DEF Holds
      <3>2. c.user = u /\ c.op \in {"create", "update", "delete", "recalculate"}
        BY <3>1 DEF Inv, LockKnows, Knows
      <3>3. NewUsed(c) \in [Vis -> Nat]
        BY <2>1, <3>1, <3>2, NewUsedNat
      <3>4. WriteQuota(u, NewUsed(c))
        BY <1>9, <2>3, <3>2 DEF CommitDrop
      <3> QED
        BY <1>9, <2>2, <3>1, <3>3, <3>4, CommitInv
    <2>4. CASE ~Holds(p)
      <3>1. UNCHANGED <<row, used>>
        BY <1>9, <2>4 DEF CommitDrop
      <3>2. TypeOK' /\ RowZero'
        BY <1>9, <2>2, <3>1 DEF Inv, TypeOK, RowZero, Release, Statements
      <3> QED
        BY <1>9, <3>1, <3>2, ReleaseInv
    <2> QED
      BY <2>3, <2>4
  <1>10. CASE CommitDelete(p)
    <2> DEFINE r == [NoRequest EXCEPT !.op = "delete", !.skin = c.skin]
    <2>1. c.skin \in Ids
      BY <1>1, <1>10 DEF CommitDelete, CommitDrop, Shape
    <2>2. r \in Requests /\ Shape(r, "deleteFile")
      BY <2>1 DEF NoRequest, Requests, ZeroUsed, Vis, Ops, Shape
    <2>3. /\ CommitDrop(p)
          /\ Release(p)
          /\ pc' = [pc EXCEPT ![p] = "deleteFile"]
          /\ req' = [req EXCEPT ![p] = r]
      BY <1>10 DEF CommitDelete
    <2> HIDE DEF r
    <2> QED
      BY <1>9, <2>2, <2>3
  <1>11. CASE CommitRevoke(p)
    <2>1. NoRequest \in Requests /\ Shape(NoRequest, "idle")
      BY DEF NoRequest, Requests, ZeroUsed, Vis, Shape
    <2> QED
      BY <1>9, <1>11, <2>1 DEF CommitRevoke, Finish
  <1>12. CASE DeleteFile(p)
    <2>1. file' \in [Ids -> FileStates]
      BY <1>12 DEF DeleteFile, Inv, TypeOK, FileStates
    <2> QED
      BY <1>12, <2>1, FinishInv DEF DeleteFile
  <1> QED
    BY <1>2, <1>4, <1>5, <1>7, <1>8, <1>10, <1>11, <1>12 DEF DeleteStep
\* A count of records is a natural number.
LEMMA CountedNat ==
  ASSUME NEW u, NEW v
  PROVE  Cardinality(Counted(u, v)) \in Nat
  <1>1. Counted(u, v) \subseteq Ids
    BY DEF Counted
  <1>2. IsFiniteSet(Counted(u, v))
    BY <1>1, IdsAssumption, FS_Subset
  <1> QED
    BY <1>2, FS_CardinalityType

LEMMA AdminStepInv ==
  ASSUME Inv, NEW p \in Procs, AdminStep(p)
  PROVE  Inv'
  <1> DEFINE c == req[p]
  <1> USE DEF At, Goto
  <1>1. c \in Requests /\ Shape(c, pc[p])
    BY KnownRequest
  <1>2. CASE GiftDenied(p) \/ InsertGiftFails(p)
    BY <1>2, RollbackInv DEF GiftDenied, InsertGiftFails
  <1>3. CASE CheckGift(p)
    <2>1. Shape(c, "insertGift") /\ ~NeedsLock(c, "insertGift")
      BY <1>1, <1>3 DEF CheckGift, Shape, NeedsLock
    <2>2. \A w \in Users : lock[w] # p
      BY <1>3, NoLock DEF CheckGift, LockedStatements
    <2>3. /\ pc' = [pc EXCEPT ![p] = "insertGift"]
          /\ req' = [req EXCEPT ![p] = c]
          /\ UNCHANGED <<tables, lock>>
          /\ file' \in [Ids -> FileStates]
      BY <1>3 DEF CheckGift, Inv, TypeOK
    <2> HIDE DEF c
    <2> QED
      BY <1>1, <2>1, <2>2, <2>3, ReadInv DEF Statements
  <1>4. CASE InsertGift(p)
    <2>1. c.user \in Users /\ c.skin \in Ids
      BY <1>1, <1>4 DEF InsertGift, Shape
    <2>2. NoRequest \in Requests /\ Shape(NoRequest, "idle")
      BY DEF NoRequest, Requests, ZeroUsed, Vis, Shape
    <2>3. TypeOK' /\ RowZero'
      BY <1>4, <2>1, <2>2
         DEF InsertGift, Finish, Release, Inv, TypeOK, RowZero, Statements, AssignmentTypes
    <2> QED
      BY <1>4, <2>2, <2>3, ReleaseInv DEF InsertGift, Finish
  <1>5. CASE CountPublic(p)
    <2> DEFINE n == Cardinality(Counted(c.user, "public"))
               r == [c EXCEPT !.seen["public"] = n]
    <2>1. c.user \in Users /\ c.op = "recalculate" /\ c.seen \in [Vis -> Nat]
      BY <1>1, <1>5 DEF CountPublic, Shape, Requests
    <2>2. n \in Nat
      BY CountedNat
    <2>3. /\ r \in Requests
          /\ r.user = c.user /\ r.op = c.op /\ r.hash = c.hash /\ r.vis = c.vis
          /\ r.file = c.file /\ r.skin = c.skin /\ r.old = c.old
      BY <1>1, <2>1, <2>2 DEF Requests
    <2>4. Shape(r, "countPrivate")
      BY <2>1, <2>3 DEF Shape
    <2>5. NeedsLock(r, "countPrivate") => lock[r.user] = p
      BY <1>5, <2>3 DEF CountPublic, Inv, Locked, NeedsLock
    <2>6. \A w \in Users : lock[w] = p => Knows(r, "countPrivate", w, used[w])
      BY <1>5, <2>1, <2>3 DEF Inv, LockKnows, Knows, LockedStatements, Admits
    <2>7. /\ pc' = [pc EXCEPT ![p] = "countPrivate"]
          /\ req' = [req EXCEPT ![p] = r]
          /\ UNCHANGED <<tables, lock>>
          /\ file' \in [Ids -> FileStates]
      BY <1>1, <1>5 DEF CountPublic, Inv, TypeOK, Requests
    <2> HIDE DEF r
    <2> QED
      BY <2>3, <2>4, <2>5, <2>6, <2>7, ReadInv DEF Statements
  <1>6. CASE CountPrivate(p)
    <2> DEFINE n == Cardinality(Counted(c.user, "private"))
               q == [c.seen EXCEPT !["private"] = n]
    <2>1. c.user \in Users /\ c.seen \in [Vis -> Nat]
      BY <1>1, <1>6 DEF CountPrivate, Shape, Requests
    <2>2. n \in Nat
      BY CountedNat
    <2>3. q \in [Vis -> Nat]
      BY <2>1, <2>2
    <2>4. lock[c.user] = p
      BY <1>6 DEF CountPrivate, Inv, Locked, NeedsLock
    <2>5. NoRequest \in Requests /\ Shape(NoRequest, "idle")
      BY DEF NoRequest, Requests, ZeroUsed, Vis, Shape
    <2>6. /\ WriteQuota(c.user, q)
          /\ Finish(p)
          /\ skin' \in [Ids -> Records \cup {None}]
          /\ assoc' \in [Users -> [Ids -> AssignmentTypes \cup {"none"}]]
          /\ file' \in [Ids -> FileStates]
      BY <1>6 DEF CountPrivate, Inv, TypeOK
    <2> HIDE DEF q
    <2> QED
      BY <2>1, <2>3, <2>4, <2>5, <2>6, CommitInv DEF Finish
  <1> QED
    BY <1>2, <1>3, <1>4, <1>5, <1>6 DEF AdminStep

\* A default row inserted outside a transaction.
LEMMA GetQuotaInv ==
  ASSUME Inv, NEW u \in Users, GetQuota(u)
  PROVE  Inv'
  <1>1. used' = used
    BY DEF GetQuota, WriteQuota, Inv, RowZero, TypeOK
  <1>2. TypeOK' /\ RowZero'
    BY <1>1 DEF GetQuota, WriteQuota, Inv, TypeOK, RowZero
  <1>3. Shapes' /\ Locked' /\ LockKnows'
    BY <1>1 DEF GetQuota, Inv, Shapes, Locked, LockKnows
  <1> QED
    BY <1>2, <1>3 DEF Inv

\* Every step keeps the invariant.
LEMMA NextInv == Inv /\ [Next]_vars => Inv'
  <1> SUFFICES ASSUME Inv, [Next]_vars PROVE Inv'
    OBVIOUS
  <1>1. CASE UNCHANGED vars
    BY <1>1 DEF vars, Inv, TypeOK, Shapes, Locked, LockKnows, RowZero
  <1>2. ASSUME NEW p \in Procs, Step(p) PROVE Inv'
    BY <1>2, QuotaStepInv, CreateStepInv, UpdateStepInv, DeleteStepInv, AdminStepInv
       DEF Step
  <1>3. ASSUME NEW p \in Procs, CutOff(p) PROVE Inv'
    BY <1>3, RollbackInv DEF CutOff
  <1> QED
    BY <1>1, <1>2, <1>3, ArriveInv, GetQuotaInv DEF Next

\* The invariant holds throughout.
THEOREM Invariance == Spec => []Inv
  BY InitInv, NextInv, PTL DEF Spec

--------------------------------------------------------------------------
\* Every variable keeps its type; in particular no used count goes negative.
THEOREM TypeCorrect == Spec => []TypeOK
  <1>1. Inv => TypeOK
    BY DEF Inv
  <1> QED
    BY <1>1, Invariance, PTL

\* The row lock of the quota makes what a transaction has seen of the row stay
\* current until the transaction ends (GetByUserID with forUpdate).
THEOREM LockSafety == Spec => []LockedReadCurrent
  <1>1. Inv => LockedReadCurrent
    BY DEF Inv, LockKnows, Knows, LockedReadCurrent
  <1> QED
    BY <1>1, Invariance, PTL

--------------------------------------------------------------------------
(***************************************************************************)
(* Refinement: a request changes used at most once, when its transaction   *)
(* commits, under the row lock and from counts that are still current      *)
(* (LockKnows).  Every other step leaves the ledger alone, begins a        *)
(* request or ends one without effect.                                     *)
(***************************************************************************)

LedgerStep == Ledger!Next \/ UNCHANGED <<used, doing>>

\* An act of a slot for a user is a step of the ledger.
LEMMA Acts ==
  ASSUME NEW p \in Procs, NEW u \in Users, Ledger!Act(p, u)
  PROVE  LedgerStep
  BY DEF LedgerStep, Ledger!Next

\* A slot that goes on with its request leaves the ledger alone.
LEMMA GoesOn ==
  ASSUME NEW p \in Procs, used' = used,
         \A q \in Procs : req'[q].user = req[q].user /\ req'[q].op = req[q].op
  PROVE  LedgerStep
  BY DEF LedgerStep, doing

\* A slot whose transaction is over has ended its request.
LEMMA Ends ==
  ASSUME NEW p \in Procs, NEW r, req \in [Procs -> Requests],
         req' = [req EXCEPT ![p] = r], r.user = None, req[p].user \in Users
  PROVE  Ledger!End(p, req[p].op, req[p].user)
  <1>1. req'[p].user = None /\ \A q \in Procs \ {p} : req'[q] = req[q]
    OBVIOUS
  <1>2. doing[p] = <<req[p].op, req[p].user>>
    BY NoneAssumption DEF doing
  <1>3. doing' = [doing EXCEPT ![p] = Ledger!Idle]
    BY <1>1 DEF doing, Ledger!Idle
  <1> QED
    BY <1>2, <1>3 DEF Ledger!End

\* A request that ends, or has ended before, leaves the counts as they are.
LEMMA Leaves ==
  ASSUME Inv, NEW p \in Procs, NEW r, req' = [req EXCEPT ![p] = r],
         r.user = None, used' = used
  PROVE  LedgerStep
  <1>1. req \in [Procs -> Requests]
    BY DEF Inv, TypeOK
  <1>2. CASE req[p].user = None
    <2>1. doing' = doing
      BY <1>1, <1>2 DEF doing
    <2> QED
      BY <2>1 DEF LedgerStep
  <1>3. CASE req[p].user # None
    <2>1. req[p].user \in Users /\ req[p].op \in Ledger!Ops
      BY <1>1, <1>3 DEF Requests, Ops, Ledger!Ops, Inv, Shapes, Shape
    <2>2. Ledger!Leave(p, req[p].op, req[p].user)
      BY <1>1, <2>1, Ends DEF Ledger!Leave
    <2>3. Ledger!Act(p, req[p].user)
      BY <2>1, <2>2 DEF Ledger!Act
    <2> QED
      BY <2>1, <2>3, Acts
  <1> QED
    BY <1>2, <1>3

\* A slot that is idle and takes request r begins it.
LEMMA Begun ==
  ASSUME Inv, NEW p \in Procs, NEW u \in Users, NEW r, pc[p] = "idle",
         req' = [req EXCEPT ![p] = r], r.user = u, r.op \in Ops, used' = used
  PROVE  LedgerStep
  <1>1. req'[p] = r /\ \A q \in Procs \ {p} : req'[q] = req[q]
    BY DEF Inv, TypeOK
  <1>2. req[p].user = None /\ u # None
    BY NoneAssumption DEF Inv, Shapes, Shape
  <1>3. doing[p] = Ledger!Idle
    BY <1>2 DEF doing, Ledger!Idle
  <1>4. doing' = [doing EXCEPT ![p] = <<r.op, u>>]
    <2>1. \A q \in Procs : doing'[q] = IF q = p THEN <<r.op, u>> ELSE doing[q]
      BY <1>1, <1>2 DEF doing
    <2> QED
      BY <2>1 DEF doing
  <1>5. Ledger!Begin(p, r.op, u)
    BY <1>3, <1>4 DEF Ledger!Begin
  <1>6. Ledger!Act(p, u)
    BY <1>5 DEF Ledger!Act, Ledger!Ops, Ops
  <1> QED
    BY <1>6, Acts

\* A request that arrives begins.
LEMMA Begins ==
  ASSUME Inv, NEW p \in Procs, Arrive(p)
  PROVE  LedgerStep
  <1>1. PICK u \in Users :
          \/ \E f \in Ids, h \in Hashes, v \in Vis : Upload(p, u, f, h, v)
          \/ \E s \in Ids : StartUpdate(p, u, s)
          \/ \E s \in Ids : StartDelete(p, u, s)
          \/ \E s \in Ids : StartGift(p, u, s)
          \/ \E s \in Ids : StartRevoke(p, u, s)
          \/ StartRecalculate(p, u)
    BY DEF Arrive
  <1>2. ASSUME NEW f \in Ids, NEW h \in Hashes, NEW v \in Vis, Upload(p, u, f, h, v)
        PROVE  LedgerStep
    <2> DEFINE r == [NoRequest EXCEPT
                       !.op = "create", !.user = u, !.file = f, !.hash = h, !.vis = v]
    <2>1. pc[p] = "idle" /\ used' = used /\ req' = [req EXCEPT ![p] = r]
      BY <1>2 DEF Upload, Receive, At, tables
    <2>2. r.user = u /\ r.op \in Ops
      BY DEF NoRequest, Ops
    <2> QED
      BY <2>1, <2>2, Begun
  <1>3. ASSUME NEW s \in Ids, NEW op \in {"update", "delete", "gift", "revoke"},
               pc[p] = "idle", used' = used,
               req' = [req EXCEPT ![p] =
                         [NoRequest EXCEPT !.op = op, !.user = u, !.skin = s]]
        PROVE  LedgerStep
    <2> DEFINE r == [NoRequest EXCEPT !.op = op, !.user = u, !.skin = s]
    <2>1. r.user = u /\ r.op \in Ops
      BY DEF NoRequest, Ops
    <2> QED
      BY <1>3, <2>1, Begun
  <1>4. CASE \/ \E s \in Ids : StartUpdate(p, u, s)
             \/ \E s \in Ids : StartDelete(p, u, s)
             \/ \E s \in Ids : StartGift(p, u, s)
             \/ \E s \in Ids : StartRevoke(p, u, s)
    BY <1>3, <1>4 DEF StartUpdate, StartDelete, StartGift, StartRevoke, Receive, At, tables
  <1>5. CASE StartRecalculate(p, u)
    <2> DEFINE r == [NoRequest EXCEPT !.op = "recalculate", !.user = u]
    <2>1. pc[p] = "idle" /\ used' = used /\ req' = [req EXCEPT ![p] = r]
      BY <1>5 DEF StartRecalculate, Receive, At, tables
    <2>2. r.user = u /\ r.op \in Ops
      BY DEF NoRequest, Ops
    <2> QED
      BY <2>1, <2>2, Begun
  <1> QED
    BY <1>1, <1>2, <1>4, <1>5

\* What is left of an upload after its commit.
Committed(p) == [NoRequest EXCEPT !.op = "create", !.file = req[p].file]

\* The holder of the lock writes the counts back as it has seen them.
LEMMA WriteSeen ==
  ASSUME Inv, NEW p \in Procs, lock[req[p].user] = p, req[p].user \in Users,
         req[p].op = "create", WriteQuota(req[p].user, req[p].seen)
  PROVE  used' = used
  <1>1. req[p].seen = used[req[p].user]
    BY DEF Inv, LockKnows, Knows
  <1> QED
    BY <1>1 DEF WriteQuota, Inv, TypeOK

\* An upload that finds its record there commits without effect.
LEMMA CommitSeen ==
  ASSUME Inv, NEW p \in Procs, AssocFound(p) \/ InsertAssoc(p)
  PROVE  LedgerStep
  <1>1. /\ pc[p] \in {"findAssoc", "insertAssoc"}
        /\ WriteQuota(req[p].user, req[p].seen)
        /\ CommitCreate(p)
    BY DEF AssocFound, InsertAssoc, At
  <1>2. req[p].user \in Users /\ req[p].op = "create" /\ lock[req[p].user] = p
    BY <1>1, KnownRequest DEF Shape, Inv, Locked, NeedsLock
  <1>3. used' = used
    BY <1>1, <1>2, WriteSeen
  <1>4. req' = [req EXCEPT ![p] = Committed(p)] /\ Committed(p).user = None
    BY <1>1 DEF CommitCreate, Committed, NoRequest
  <1> QED
    BY <1>3, <1>4, Leaves

\* A new record takes one place.
LEMMA InsertSkinCharges ==
  ASSUME Inv, NEW p \in Procs, InsertSkin(p)
  PROVE  LedgerStep
  <1> DEFINE c == req[p]
  <1>1. c.op = "create" /\ c.user \in Users /\ c.vis \in Vis /\ lock[c.user] = p
    BY KnownRequest DEF InsertSkin, At, Shape, Inv, Locked, NeedsLock
  <1>2. c.seen = used[c.user] /\ used[c.user][c.vis] < Total[c.vis]
    BY <1>1 DEF Inv, LockKnows, Knows, Admits
  <1>3. used' = [used EXCEPT ![c.user] = NewUsed(c)]
    BY DEF InsertSkin, WriteQuota
  <1>4. NewUsed(c) = [used[c.user] EXCEPT ![c.vis] = @ + 1]
    BY <1>1, <1>2 DEF NewUsed, Inv, TypeOK
  <1>5. req' = [req EXCEPT ![p] = Committed(p)] /\ Committed(p).user = None
    BY DEF InsertSkin, CommitCreate, Committed, NoRequest
  <1>6. Ledger!End(p, "create", c.user)
    BY <1>1, <1>5, Ends DEF Inv, TypeOK
  <1>7. Ledger!Charge(p, c.user, c.vis)
    BY <1>2, <1>3, <1>4, <1>6 DEF Ledger!Charge
  <1>8. Ledger!Act(p, c.user)
    BY <1>1, <1>7 DEF Ledger!Act, Ledger!Vis, Vis
  <1> QED
    BY <1>1, <1>8, Acts

\* A change of visibility moves one place.
LEMMA UpdateSkinMoves ==
  ASSUME Inv, NEW p \in Procs, UpdateSkin(p)
  PROVE  LedgerStep
  <1> DEFINE c == req[p]
  <1>1. req' = [req EXCEPT ![p] = NoRequest] /\ NoRequest.user = None
    BY DEF UpdateSkin, Finish, NoRequest
  <1>2. CASE c.old = c.vis
    <2>1. used' = used
      BY <1>2 DEF UpdateSkin
    <2> QED
      BY <1>1, <2>1, Leaves
  <1>3. CASE c.old # c.vis
    <2>1. c.op = "update" /\ c.user \in Users /\ c.vis \in Vis /\ c.old \in Vis
            /\ lock[c.user] = p
      BY <1>3, KnownRequest DEF UpdateSkin, At, Shape, Inv, Locked, NeedsLock
    <2>2. /\ c.seen = used[c.user]
          /\ used[c.user][c.vis] < Total[c.vis]
          /\ used[c.user][c.old] > 0
      BY <2>1 DEF Inv, LockKnows, Knows, Admits
    <2>3. used' = [used EXCEPT ![c.user] = NewUsed(c)]
      BY <1>3 DEF UpdateSkin, WriteQuota
    <2>4. NewUsed(c) = [x \in Vis |-> IF x = c.old THEN used[c.user][c.old] - 1
                                                  ELSE used[c.user][c.vis] + 1]
      BY <1>3, <2>1, <2>2 DEF NewUsed, Vis
    <2>5. Ledger!End(p, "update", c.user)
      BY <1>1, <2>1, Ends DEF Inv, TypeOK
    <2>6. Ledger!Move(p, c.user, c.old, c.vis)
      BY <1>3, <2>1, <2>2, <2>3, <2>4, <2>5 DEF Ledger!Move, Ledger!Vis, Vis, Inv, TypeOK
    <2>7. Ledger!Act(p, c.user)
      BY <2>1, <2>6 DEF Ledger!Act, Ledger!Vis, Vis
    <2> QED
      BY <2>1, <2>7, Acts
  <1> QED
    BY <1>2, <1>3

\* A deletion gives one place back, or none if it has not locked the row.
LEMMA CommitDropDischarges ==
  ASSUME Inv, NEW p \in Procs, CommitDrop(p),
         NEW r, req' = [req EXCEPT ![p] = r], r.user = None
  PROVE  LedgerStep
  <1> DEFINE c == req[p]
  <1>1. CASE ~Holds(p)
    <2>1. used' = used
      BY <1>1 DEF CommitDrop
    <2> QED
      BY <2>1, Leaves
  <1>2. CASE Holds(p)
    <2>1. PICK u \in Users : lock[u] = p
      BY <1>2 DEF Holds
    <2>2. Knows(c, pc[p], u, used[u])
      BY <2>1 DEF Inv, LockKnows
    <2>3. c.op = "delete" /\ c.user = u
      BY <2>2, KnownRequest DEF CommitDrop, At, Shape, Knows
    <2>4. c.old \in Vis /\ c.seen = used[u] /\ used[u][c.old] > 0
      BY <2>2, <2>3 DEF Knows, Admits
    <2>5. used' = [used EXCEPT ![u] = NewUsed(c)]
      BY <1>2, <2>3 DEF CommitDrop, WriteQuota
    <2>6. NewUsed(c) = [used[u] EXCEPT ![c.old] = @ - 1]
      BY <2>3, <2>4 DEF NewUsed, Inv, TypeOK
    <2>7. Ledger!End(p, "delete", u)
      BY <2>3, Ends DEF Inv, TypeOK
    <2>8. Ledger!Discharge(p, u, c.old)
      BY <2>4, <2>5, <2>6, <2>7 DEF Ledger!Discharge
    <2>9. Ledger!Act(p, u)
      BY <2>4, <2>8 DEF Ledger!Act, Ledger!Vis, Vis
    <2> QED
      BY <2>9, Acts
  <1> QED
    BY <1>1, <1>2

\* A recalculation counts the places anew.
LEMMA CountPrivateRecounts ==
  ASSUME Inv, NEW p \in Procs, CountPrivate(p)
  PROVE  LedgerStep
  <1> DEFINE c == req[p]
             q == [c.seen EXCEPT !["private"] = Cardinality(Counted(c.user, "private"))]
  <1>1. c.op = "recalculate" /\ c.user \in Users /\ c.seen \in [Vis -> Nat]
    BY KnownRequest DEF CountPrivate, At, Shape, Requests
  <1>2. q \in [Vis -> Nat]
    BY <1>1, CountedNat
  <1>3. used' = [used EXCEPT ![c.user] = q]
    BY DEF CountPrivate, WriteQuota
  <1>4. used'[c.user] = q
    BY <1>1, <1>3 DEF Inv, TypeOK
  <1> HIDE DEF q
  <1>5. used'[c.user] \in [Ledger!Vis -> Nat]
    BY <1>2, <1>4 DEF Ledger!Vis, Vis
  <1>6. req' = [req EXCEPT ![p] = NoRequest] /\ NoRequest.user = None
    BY DEF CountPrivate, Finish, NoRequest
  <1>7. Ledger!End(p, "recalculate", c.user)
    BY <1>1, <1>6, Ends DEF Inv, TypeOK
  <1>8. Ledger!Recount(p, c.user)
    BY <1>3, <1>4, <1>5, <1>7 DEF Ledger!Recount
  <1>9. Ledger!Act(p, c.user)
    BY <1>8 DEF Ledger!Act
  <1> QED
    BY <1>1, <1>9, Acts

\* Every step is a step of the ledger or leaves it alone.
LEMMA NextLedger == Inv /\ [Next]_vars => LedgerStep
  <1> SUFFICES ASSUME Inv, [Next]_vars PROVE LedgerStep
    OBVIOUS
  <1>1. CASE UNCHANGED vars
    BY <1>1 DEF vars, doing, LedgerStep
  <1>2. ASSUME NEW p \in Procs, Rollback(p) \/ (Finish(p) /\ UNCHANGED tables)
        PROVE  LedgerStep
    <2>1. req' = [req EXCEPT ![p] = NoRequest] /\ NoRequest.user = None /\ used' = used
      BY <1>2 DEF Rollback, Finish, NoRequest, tables
    <2> QED
      BY <2>1, Leaves
  <1>3. ASSUME UNCHANGED <<tables, req>> PROVE LedgerStep
    BY <1>3 DEF tables, doing, LedgerStep
  <1>4. ASSUME NEW p \in Procs, QuotaStep(p) PROVE LedgerStep
    <2>1. CASE LockQuota(p) \/ InsertQuota(p)
      <3>1. PICK q : Acquire(p, q)
        BY <2>1 DEF LockQuota, InsertQuota
      <3> QED
        BY <3>1, GoesOn DEF Acquire, tables, Inv, TypeOK, Requests
    <2>2. CASE QuotaMissing(p)
      BY <2>2, <1>3 DEF QuotaMissing
    <2>3. CASE QuotaRefused(p) \/ InsertQuotaFails(p)
      BY <2>3, <1>2 DEF QuotaRefused, InsertQuotaFails
    <2> QED
      BY <1>4, <2>1, <2>2, <2>3 DEF QuotaStep
  <1>5. ASSUME NEW p \in Procs, CreateStep(p) PROVE LedgerStep
    <2>1. CASE HashOfOther(p) \/ InsertAssocFails(p) \/ InsertSkinFails(p) \/ VerifyFile(p)
      BY <2>1, <1>2 DEF HashOfOther, InsertAssocFails, InsertSkinFails, VerifyFile
    <2>2. CASE HashUnknown(p) \/ AssocMissing(p)
      BY <2>2, <1>3 DEF HashUnknown, AssocMissing
    <2>3. CASE HashOfOwn(p)
      BY <2>3, GoesOn DEF HashOfOwn, tables, Inv, TypeOK, Requests
    <2> QED
      BY <1>5, <2>1, <2>2, <2>3, CommitSeen, InsertSkinCharges DEF CreateStep
  <1>6. ASSUME NEW p \in Procs, UpdateStep(p) PROVE LedgerStep
    <2>1. CASE UpdateRefused(p) \/ UpdateDenied(p) \/ UpdateSkinFails(p)
      BY <2>1, <1>2 DEF UpdateRefused, UpdateDenied, UpdateSkinFails
    <2>2. CASE CheckAssocForUpdate(p)
      BY <2>2, <1>3 DEF CheckAssocForUpdate
    <2>3. ASSUME NEW v \in Vis, ReadSkinForUpdate(p, v) PROVE LedgerStep
      <3> DEFINE w == skin[req[p].skin].vis
      <3>1. req' = [req EXCEPT ![p].vis = v, ![p].old = w] /\ used' = used
        BY <2>3 DEF ReadSkinForUpdate, tables
      <3> HIDE DEF w
      <3> QED
        BY <3>1, GoesOn DEF Inv, TypeOK, Requests
    <2> QED
      BY <1>6, <2>1, <2>2, <2>3, UpdateSkinMoves DEF UpdateStep
  <1>7. ASSUME NEW p \in Procs, DeleteStep(p) PROVE LedgerStep
    <2>1. CASE CommitDelete(p) \/ CommitRevoke(p)
      <3> DEFINE r == IF req[p].op = "delete"
                        THEN [NoRequest EXCEPT !.op = "delete", !.skin = req[p].skin]
                        ELSE NoRequest
      <3>1. req' = [req EXCEPT ![p] = r] /\ CommitDrop(p)
        BY <2>1 DEF CommitDelete, CommitRevoke, Finish
      <3>2. r.user = None
        BY DEF NoRequest
      <3> QED
        BY <3>1, <3>2, CommitDropDischarges
    <2>2. CASE DeleteRefused(p) \/ DeleteDenied(p) \/ OwnSkinGone(p) \/ DeleteFile(p)
      BY <2>2, <1>2 DEF DeleteRefused, DeleteDenied, OwnSkinGone, DeleteFile
    <2>3. CASE ReadSkinForDelete(p) \/ CheckAssocForDelete(p)
      BY <2>3, <1>3 DEF ReadSkinForDelete, CheckAssocForDelete
    <2>4. CASE ReadOwnSkin(p)
      BY <2>4, GoesOn DEF ReadOwnSkin, tables, Inv, TypeOK, Requests
    <2>5. CASE DropAssoc(p)
      <3> DEFINE d == Associated(req[p].user, req[p].skin)
      <3>1. req' = [req EXCEPT ![p].dropped = d] /\ used' = used
        BY <2>5 DEF DropAssoc, tables
      <3> HIDE DEF d
      <3> QED
        BY <3>1, GoesOn DEF Inv, TypeOK, Requests
    <2>6. CASE CountRefs(p)
      <3> DEFINE d == /\ References(req[p]) = {}
                      /\ Live(req[p].skin)
                      /\ skin[req[p].skin].owner = req[p].user
      <3>1. req' = [req EXCEPT ![p].last = d] /\ used' = used
        BY <2>6 DEF CountRefs, tables
      <3> HIDE DEF d
      <3> QED
        BY <3>1, GoesOn DEF Inv, TypeOK, Requests
    <2> QED
      BY <1>7, <2>1, <2>2, <2>3, <2>4, <2>5, <2>6 DEF DeleteStep
  <1>8. ASSUME NEW p \in Procs, AdminStep(p) PROVE LedgerStep
    <2>1. CASE GiftDenied(p) \/ InsertGiftFails(p)
      BY <2>1, <1>2 DEF GiftDenied, InsertGiftFails
    <2>2. CASE InsertGift(p)
      <3>1. req' = [req EXCEPT ![p] = NoRequest] /\ NoRequest.user = None /\ used' = used
        BY <2>2 DEF InsertGift, Finish, NoRequest
      <3> QED
        BY <3>1, Leaves
    <2>3. CASE CheckGift(p)
      BY <2>3, <1>3 DEF CheckGift
    <2>4. CASE CountPublic(p)
      BY <2>4, GoesOn DEF CountPublic, tables, Inv, TypeOK, Requests
    <2> QED
      BY <1>8, <2>1, <2>2, <2>3, <2>4, CountPrivateRecounts DEF AdminStep
  <1>9. ASSUME NEW p \in Procs, CutOff(p) PROVE LedgerStep
    BY <1>2, <1>9 DEF CutOff
  <1>10. ASSUME NEW u \in Users, GetQuota(u) PROVE LedgerStep
    <2>1. used' = used /\ doing' = doing
      BY <1>10 DEF GetQuota, WriteQuota, doing, Inv, TypeOK, RowZero
    <2> QED
      BY <2>1 DEF LedgerStep
  <1> QED
    BY <1>1, <1>4, <1>5, <1>6, <1>7, <1>8, <1>9, <1>10, Begins DEF Next, Step

\* The library's quota columns implement the ledger: in every interleaving each
\* request takes effect on them at most once, by the step of its kind on the
\* counts of that instant, within the totals and never below zero.
THEOREM Refinement == Spec => LedgerSpec
  <1>1. Init => Ledger!Init
    BY DEF Init, Ledger!Init, ZeroUsed, Vis, Ledger!Vis, doing, NoRequest, Ledger!Idle
  <1>2. Inv /\ [Next]_vars => [Ledger!Next]_<<used, doing>>
    BY NextLedger DEF LedgerStep
  <1> QED
    BY <1>1, <1>2, Invariance, PTL DEF Spec, LedgerSpec, Ledger!Spec
==========================================================================
