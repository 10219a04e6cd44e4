---------------------- MODULE LibraryRecordsProofs ----------------------
(***************************************************************************)
(* Proofs about the records, associations and files of Library, on top of  *)
(* the invariant Inv of LibraryProofs: who may hold a record as its own,   *)
(* that built-in records stay and that every live record's file is         *)
(* verified, for every workload; and, when nothing is gifted, that a       *)
(* record's owner holds it and that its file is not deleted.               *)
(*                                                                         *)
(* The argument rests on ids being used once (Fresh): what a request has   *)
(* learned of a record stays true of it for as long as it is there, as no  *)
(* other record can ever take its place.                                   *)
(***************************************************************************)
EXTENDS LibraryProofs

\* Slot p has uploaded a file of which its transaction has made no record yet.
Uploading(p) == req[p].op = "create" /\ pc[p] # "verifyFile"

\* No record, association or request has the id s.
Untouched(s) ==
  /\ skin[s] = None
  /\ \A u \in Users : assoc[u][s] = "none"
  /\ \A p \in Procs : req[p].skin # s

\* An id that no file has yet is untouched, and an uploaded file is known to the
\* slot that uploaded it only.
Fresh ==
  /\ \A s \in Ids : file[s] = "unused" => Untouched(s) /\ \A p \in Procs : req[p].file # s
  /\ \A p \in Procs : Uploading(p) =>
       /\ file[req[p].file] = "cached"
       /\ Untouched(req[p].file)
       /\ \A q \in Procs \ {p} : req[q].file # req[p].file

\* What the request of slot p knows of the records at its next statement.
RecordKnown(p) ==
  /\ pc[p] = "idle" => req[p] = NoRequest
  /\ req[p].op # "create" => req[p].file = None
  /\ req[p].dropped =>
       pc[p] \in {"countRefs", "commitDrop"} /\ Associated(req[p].user, req[p].skin)
  /\ req[p].op = "create" \/ (req[p].op = "update" /\ pc[p] # "readSkin") =>
       (Live(req[p].skin) => skin[req[p].skin].owner = req[p].user)
  /\ req[p].last \/ (req[p].op = "delete" /\ pc[p] # "readSkin") =>
       req[p].skin \notin DOMAIN Seeds

\* One transaction at a time deletes an association.
DropsApart ==
  \A p \in Procs : req[p].dropped => ~BeingDropped(p, req[p].user, req[p].skin)

\* The foreign key of the associations.
AssocLive == \A u \in Users, s \in Ids : Associated(u, s) => Live(s)

RecordInv ==
  /\ Inv
  /\ Fresh
  /\ \A p \in Procs : RecordKnown(p)
  /\ DropsApart
  /\ AssocLive
  /\ NormalOnlyByOwner
  /\ BuiltInKept

--------------------------------------------------------------------------
\* A step of slot p leaves the requests of the others alone.
Alone(p) == \A q \in Procs \ {p} : pc'[q] = pc[q] /\ req'[q] = req[q]

\* What a step of slot p leaves of the tables and files: a record keeps its
\* owner, new is at most the record of p's upload, associations are made with
\* records that are there, those that another transaction has deleted stay
\* until it commits, and the files that others have uploaded are not touched.
Frame(p) ==
  /\ Alone(p)
  /\ \A s \in Ids :
       Live(s)' => \/ Live(s) /\ skin'[s].owner = skin[s].owner
                   \/ Uploading(p) /\ s = req[p].file
  /\ \A u \in Users, s \in Ids :
       Associated(u, s)' => Live(s) \/ (Uploading(p) /\ s = req[p].file)
  /\ \A u \in Users, s \in Ids :
       Associated(u, s) /\ BeingDropped(p, u, s) => Associated(u, s)'
  /\ \A s \in Ids : file'[s] = "unused" <=> file[s] = "unused"
  /\ \A q \in Procs \ {p} : Uploading(q) => file'[req[q].file] = file[req[q].file]

\* What the request of slot p may refer to after a step: what it referred to
\* before, or a record that is there.
Refers(p) ==
  /\ req'[p].skin \in {None, req[p].skin} \/ Live(req'[p].skin)
  /\ req'[p].file \in {None, req[p].file}
  /\ Uploading(p)' =>
       Uploading(p) /\ req'[p].file = req[p].file /\ UNCHANGED <<skin, assoc, file>>
  /\ req'[p].dropped => ~BeingDropped(p, req'[p].user, req'[p].skin)

\* What the request of an upload has at its statements.
LEMMA UploadFile ==
  ASSUME Inv, NEW p \in Procs, Uploading(p)
  PROVE  req[p].file \in Ids
  BY KnownRequest DEF Uploading, Shape

LEMMA FreshKept ==
  ASSUME RecordInv, NEW p \in Procs, Frame(p), Refers(p)
  PROVE  Fresh'
  <1>1. ASSUME NEW s \in Ids, file'[s] = "unused"
        PROVE  Untouched(s)' /\ \A q \in Procs : req'[q].file # s
    <2>1. Untouched(s) /\ \A q \in Procs : req[q].file # s
      BY <1>1 DEF RecordInv, Fresh, Frame
    <2>2. skin'[s] = None /\ \A u \in Users : assoc'[u][s] = "none"
      BY <2>1 DEF Frame, Live, Associated, Untouched
    <2>3. \A q \in Procs : req'[q].skin # s /\ req'[q].file # s
      BY <2>1, NoneAssumption DEF Frame, Alone, Refers, Live, Untouched
    <2> QED
      BY <2>2, <2>3 DEF Untouched
  <1>2. ASSUME NEW q \in Procs, Uploading(q)', q # p
        PROVE  /\ file'[req'[q].file] = "cached"
               /\ Untouched(req[q].file)'
               /\ \A z \in Procs \ {q} : req'[z].file # req'[q].file
    <2>1. Uploading(q) /\ req'[q] = req[q]
      BY <1>2 DEF Frame, Alone, Uploading
    <2>2. PICK s \in Ids : s = req[q].file
      BY <2>1, UploadFile DEF RecordInv
    <2>3. file[s] = "cached" /\ Untouched(s) /\ \A z \in Procs \ {q} : req[z].file # s
      BY <2>1, <2>2 DEF RecordInv, Fresh
    <2>4. file'[s] = "cached"
      BY <1>2, <2>1, <2>2, <2>3 DEF Frame
    <2>5. skin'[s] = None /\ \A u \in Users : assoc'[u][s] = "none"
      BY <1>2, <2>3 DEF Frame, Live, Associated, Untouched
    <2>6. \A z \in Procs \ {q} : req'[z].file # s
      BY <2>3, NoneAssumption DEF Frame, Alone, Refers
    <2>7. \A z \in Procs : req'[z].skin # s
      BY <2>3, NoneAssumption DEF Frame, Alone, Refers, Live, Untouched
    <2>8. Untouched(s)'
      BY <2>5, <2>7 DEF Untouched
    <2> QED
      BY <2>1, <2>2, <2>4, <2>5, <2>6, <2>7 DEF Untouched
  <1>3. ASSUME Uploading(p)'
        PROVE  /\ file'[req'[p].file] = "cached"
               /\ Untouched(req[p].file)'
               /\ \A z \in Procs \ {p} : req'[z].file # req'[p].file
    <2>1. Uploading(p) /\ req'[p].file = req[p].file /\ UNCHANGED <<skin, assoc, file>>
      BY <1>3 DEF Refers
    <2>2. PICK s \in Ids : s = req[p].file
      BY <2>1, UploadFile DEF RecordInv
    <2>3. file[s] = "cached" /\ Untouched(s) /\ \A z \in Procs \ {p} : req[z].file # s
      BY <2>1, <2>2 DEF RecordInv, Fresh
    <2>4. \A z \in Procs : req'[z].skin # s
      BY <2>3, NoneAssumption DEF Frame, Alone, Refers, Live, Untouched
    <2> QED
      BY <2>1, <2>2, <2>3, <2>4 DEF Frame, Alone, Untouched
  <1> QED
    BY <1>1, <1>2, <1>3 DEF Fresh

\* The other slots keep what they know.
LEMMA OthersKnow ==
  ASSUME RecordInv, NEW p \in Procs, Frame(p), NEW q \in Procs \ {p}
  PROVE  RecordKnown(q)'
  <1>1. pc'[q] = pc[q] /\ req'[q] = req[q] /\ RecordKnown(q)
    BY DEF RecordInv, Frame, Alone
  <1>2. req[q] \in Requests /\ Shape(req[q], pc[q])
    BY KnownRequest DEF RecordInv
  <1>3. req[q].dropped => Associated(req[q].user, req[q].skin)'
    <2> SUFFICES ASSUME req[q].dropped PROVE Associated(req[q].user, req[q].skin)'
      OBVIOUS
    <2>1. req[q].user \in Users /\ req[q].skin \in Ids
      BY <1>1, <1>2 DEF RecordKnown, Shape
    <2>2. BeingDropped(p, req[q].user, req[q].skin) /\ Associated(req[q].user, req[q].skin)
      BY <1>1 DEF RecordKnown, BeingDropped
    <2>3. PICK u \in Users, s \in Ids : u = req[q].user /\ s = req[q].skin
      BY <2>1
    <2>4. Associated(u, s)'
      BY <2>2, <2>3 DEF Frame
    <2> QED
      BY <1>1, <2>3, <2>4 DEF Associated
  <1>4. Live(req[q].skin)' =>
          Live(req[q].skin) /\ skin'[req[q].skin].owner = skin[req[q].skin].owner
    <2> SUFFICES ASSUME Live(req[q].skin)'
                 PROVE  Live(req[q].skin) /\ skin'[req[q].skin].owner = skin[req[q].skin].owner
      OBVIOUS
    <2>1. req[q].skin \in Ids /\ skin'[req[q].skin] # None
      BY <1>1 DEF Live
    <2>2. Uploading(p) => req[q].skin # req[p].file
      BY DEF RecordInv, Fresh, Untouched
    <2> QED
      BY <2>1, <2>2 DEF Frame, Live
  <1> QED
    BY <1>1, <1>3, <1>4 DEF RecordKnown, Associated, Live

\* A step keeps the invariant if it leaves the others their part and the tables
\* and its own request what they have to be.
LEMMA StepRecord ==
  ASSUME RecordInv, NEW p \in Procs, Frame(p), Refers(p), Inv', RecordKnown(p)',
         AssocLive', NormalOnlyByOwner', BuiltInKept'
  PROVE  RecordInv'
  <1>1. Fresh'
    BY FreshKept
  <1>2. \A q \in Procs : RecordKnown(q)'
    BY OthersKnow
  <1>3. ASSUME NEW q \in Procs, req'[q].dropped, NEW z \in Procs \ {q}, req'[z].dropped,
               req'[z].user = req'[q].user, req'[z].skin = req'[q].skin
        PROVE  FALSE
    <2>1. CASE q = p
      BY <1>3, <2>1 DEF Frame, Alone, Refers, BeingDropped
    <2>2. CASE z = p
      BY <1>3, <2>2 DEF Frame, Alone, Refers, BeingDropped
    <2>3. CASE q # p /\ z # p
      BY <1>3, <2>3 DEF Frame, Alone, RecordInv, DropsApart, BeingDropped
    <2> QED
      BY <2>1, <2>2, <2>3
  <1>4. DropsApart'
    BY <1>3 DEF DropsApart, BeingDropped
  <1> QED
    BY <1>1, <1>2, <1>4 DEF RecordInv

\* A step that leaves records, associations and files as they are.
LEMMA QuietRecord ==
  ASSUME RecordInv, NEW p \in Procs, Alone(p), Refers(p), Inv', RecordKnown(p)',
         UNCHANGED <<skin, assoc, file>>
  PROVE  RecordInv'
  <1>1. Frame(p)
    BY DEF Frame, Live, Associated, RecordInv, AssocLive
  <1>2. AssocLive' /\ NormalOnlyByOwner' /\ BuiltInKept'
    BY DEF RecordInv, AssocLive, NormalOnlyByOwner, BuiltInKept, Live, Associated
  <1> QED
    BY <1>1, <1>2, StepRecord

\* Slot p goes on at statement l with request r.
LEMMA Moves ==
  ASSUME Inv, NEW p \in Procs, NEW l, NEW r,
         pc' = [pc EXCEPT ![p] = l], req' = [req EXCEPT ![p] = r]
  PROVE  pc'[p] = l /\ req'[p] = r /\ Alone(p)
  BY DEF Inv, TypeOK, Alone

\* A request that ends and leaves the three as they are.
LEMMA FinishRecord ==
  ASSUME RecordInv, Inv', NEW p \in Procs, Finish(p), UNCHANGED <<skin, assoc, file>>
  PROVE  RecordInv'
  <1>1. pc'[p] = "idle" /\ req'[p] = NoRequest /\ Alone(p)
    BY Moves DEF Finish, Goto, RecordInv
  <1>2. Refers(p) /\ RecordKnown(p)'
    BY <1>1 DEF Refers, RecordKnown, NoRequest, Uploading
  <1> QED
    BY <1>1, <1>2, QuietRecord

LEMMA RollbackRecord ==
  ASSUME RecordInv, Inv', NEW p \in Procs, Rollback(p)
  PROVE  RecordInv'
  BY FinishRecord DEF Rollback, tables

\* A request that goes on and refers to what it referred to before.
LEMMA SameRecord ==
  ASSUME RecordInv, Inv', NEW p \in Procs, NEW l, NEW r, Goto(p, l),
         req' = [req EXCEPT ![p] = r], UNCHANGED <<skin, assoc, file>>,
         pc[p] \notin {"idle", "verifyFile", "deleteFile", "countRefs", "commitDrop"}, l # "idle",
         r.op = req[p].op, r.user = req[p].user, r.skin = req[p].skin, r.file = req[p].file,
         r.dropped = req[p].dropped, r.last = req[p].last,
         pc[p] = "readSkin" =>
           /\ Live(r.skin)
           /\ skin[r.skin].owner # None
           /\ r.op = "update" => skin[r.skin].owner = r.user
  PROVE  RecordInv'
  <1>1. pc'[p] = l /\ req'[p] = r /\ Alone(p)
    BY Moves DEF Goto, RecordInv
  <1>2. RecordKnown(p) /\ ~r.dropped
    BY DEF RecordInv, RecordKnown
  <1>3. Refers(p)
    BY <1>1, <1>2 DEF Refers, Uploading
  <1>4. r.op = "delete" => r.skin \notin DOMAIN Seeds
    BY <1>2, SeedsAssumption, KnownRequest, NoneAssumption
    DEF RecordKnown, RecordInv, BuiltInKept, Shape
  <1>5. RecordKnown(p)'
    BY <1>1, <1>2, <1>4 DEF RecordKnown, Live
  <1> QED
    BY <1>1, <1>3, <1>5, QuietRecord

\* The statements on the quota row read no record.
LEMMA QuotaRecord ==
  ASSUME RecordInv, Inv', NEW p \in Procs, QuotaStep(p)
  PROVE  RecordInv'
  <1>1. ASSUME NEW q, pc[p] \in {"lockQuota", "insertQuota"}, Acquire(p, q)
        PROVE  RecordInv'
    <2> DEFINE r == [req[p] EXCEPT !.seen = q]
               l == AfterLock[req[p].op]
    <2>1. req[p] \in Requests /\ Shape(req[p], pc[p])
      BY KnownRequest DEF RecordInv
    <2>2. l # "idle"
      BY <1>1, <2>1 DEF AfterLock, Shape, Ops
    <2>3. req' = [req EXCEPT ![p] = r] /\ Goto(p, l) /\ UNCHANGED <<skin, assoc, file>>
      BY <1>1 DEF Acquire, tables, RecordInv, Inv, TypeOK
    <2>4. /\ r.op = req[p].op /\ r.user = req[p].user /\ r.skin = req[p].skin
          /\ r.file = req[p].file /\ r.dropped = req[p].dropped /\ r.last = req[p].last
      BY <2>1 DEF Requests
    <2> HIDE DEF r, l
    <2> QED
      BY <1>1, <2>2, <2>3, <2>4, SameRecord
  <1>2. CASE QuotaMissing(p)
    <2>1. req' = [req EXCEPT ![p] = req[p]]
      BY <1>2 DEF QuotaMissing, RecordInv, Inv, TypeOK
    <2> QED
      BY <1>2, <2>1, SameRecord DEF QuotaMissing, At, tables
  <1> QED
    BY <1>1, <1>2, RollbackRecord, QuotaStep(p)
    DEF QuotaStep, LockQuota, InsertQuota, QuotaRefused, InsertQuotaFails, At

\* An upload takes an id that nothing refers to.
LEMMA UploadRecord ==
  ASSUME RecordInv, Inv', NEW p \in Procs, NEW u \in Users, NEW f \in Ids,
         NEW h \in Hashes, NEW v \in Vis, Upload(p, u, f, h, v)
  PROVE  RecordInv'
  <1> DEFINE r == [NoRequest EXCEPT
                     !.op = "create", !.user = u, !.file = f, !.hash = h, !.vis = v]
  <1>1. /\ pc[p] = "idle" /\ file[f] = "unused" /\ UNCHANGED <<skin, assoc>>
        /\ file' = [file EXCEPT ![f] = "cached"] /\ req' = [req EXCEPT ![p] = r]
        /\ pc' = [pc EXCEPT ![p] = "lockQuota"]
    BY DEF Upload, Receive, At, Goto, tables
  <1>2. r.skin = None /\ r.file = f /\ r.op = "create" /\ ~r.dropped /\ ~r.last
    BY DEF NoRequest
  <1> HIDE DEF r
  <1>3. pc'[p] = "lockQuota" /\ req'[p] = r /\ Alone(p)
    BY <1>1, Moves DEF RecordInv
  <1>4. Untouched(f) /\ \A q \in Procs : req[q].file # f
    BY <1>1 DEF RecordInv, Fresh
  <1>5. \A q \in Procs : req'[q].skin \in {None, req[q].skin}
    BY <1>2, <1>3 DEF Alone
  <1>6. ASSUME NEW s \in Ids, file'[s] = "unused"
        PROVE  Untouched(s)' /\ \A q \in Procs : req'[q].file # s
    <2>1. file[s] = "unused" /\ s # f
      BY <1>1, <1>6 DEF RecordInv, Inv, TypeOK
    <2>2. Untouched(s) /\ \A q \in Procs : req[q].file # s
      BY <2>1 DEF RecordInv, Fresh
    <2> QED
      BY <1>1, <1>2, <1>3, <1>5, <2>1, <2>2, NoneAssumption DEF Untouched, Alone
  <1>7. ASSUME NEW q \in Procs, Uploading(q)'
        PROVE  /\ file'[req'[q].file] = "cached"
               /\ skin'[req'[q].file] = None
               /\ \A w \in Users : assoc'[w][req'[q].file] = "none"
               /\ \A z \in Procs : req'[z].skin # req'[q].file
               /\ \A z \in Procs \ {q} : req'[z].file # req'[q].file
    <2>1. CASE q = p
      BY <1>1, <1>2, <1>3, <1>4, <1>5, <2>1, NoneAssumption
      DEF Untouched, Alone, RecordInv, Inv, TypeOK
    <2>2. CASE q # p
      <3>1. Uploading(q) /\ req'[q] = req[q]
        BY <1>3, <1>7, <2>2 DEF Alone, Uploading
      <3>2. req[q].file \in Ids \ {f}
        BY <1>4, <3>1, UploadFile DEF RecordInv
      <3>3. /\ file[req[q].file] = "cached" /\ Untouched(req[q].file)
            /\ \A z \in Procs \ {q} : req[z].file # req[q].file
        BY <3>1 DEF RecordInv, Fresh
      <3> QED
        BY <1>1, <1>2, <1>3, <1>5, <3>1, <3>2, <3>3, NoneAssumption
        DEF Untouched, Alone, RecordInv, Inv, TypeOK
    <2> QED
      BY <2>1, <2>2
  <1>8. Fresh'
    BY <1>6, <1>7 DEF Fresh, Untouched
  <1>9. \A q \in Procs : RecordKnown(q)'
    BY <1>1, <1>2, <1>3, NoneAssumption DEF RecordInv, RecordKnown, Alone, Associated, Live
  <1>10. DropsApart' /\ AssocLive' /\ NormalOnlyByOwner' 
    BY <1>1, <1>2, <1>3
    DEF RecordInv, DropsApart, BeingDropped, AssocLive, NormalOnlyByOwner, Associated, Live, Alone
  <1>11. BuiltInKept'
    BY <1>1 DEF RecordInv, BuiltInKept, Live, Inv, TypeOK
  <1> QED
    BY <1>8, <1>9, <1>10, <1>11 DEF RecordInv

\* A request that arrives about a record, if any, that is there.
LEMMA ArriveRecord ==
  ASSUME RecordInv, Inv', NEW p \in Procs, Arrive(p)
  PROVE  RecordInv'
  <1>1. ASSUME NEW r, NEW l \in {"readSkin", "checkGift", "dropAssoc", "lockQuota"},
               pc' = [pc EXCEPT ![p] = l], req' = [req EXCEPT ![p] = r],
               r.op \in {"update", "delete", "gift", "revoke", "recalculate"},
               r.op \in {"update", "delete"} => l = "readSkin",
               r.skin = None \/ Live(r.skin), r.file = None, ~r.dropped, ~r.last,
               UNCHANGED <<skin, assoc, file>>
        PROVE  RecordInv'
    <2>1. pc'[p] = l /\ req'[p] = r /\ Alone(p)
      BY <1>1, Moves DEF RecordInv
    <2>2. Refers(p) /\ RecordKnown(p)'
      BY <1>1, <2>1 DEF Refers, RecordKnown, Uploading, Live
    <2> QED
      BY <1>1, <2>1, <2>2, QuietRecord
  <1>2. ASSUME NEW u \in Users, NEW s \in Ids, NEW op \in {"update", "delete", "gift", "revoke"},
               NEW l \in {"readSkin", "checkGift", "dropAssoc"},
               op \in {"update", "delete"} => l = "readSkin", Live(s),
               pc' = [pc EXCEPT ![p] = l],
               req' = [req EXCEPT ![p] = [NoRequest EXCEPT !.op = op, !.user = u, !.skin = s]],
               UNCHANGED <<skin, assoc, file>>
        PROVE  RecordInv'
    <2> DEFINE r == [NoRequest EXCEPT !.op = op, !.user = u, !.skin = s]
    <2>1. r.op = op /\ r.skin = s /\ r.file = None /\ ~r.dropped /\ ~r.last
      BY DEF NoRequest
    <2>2. req' = [req EXCEPT ![p] = r]
      BY <1>2
    <2> HIDE DEF r
    <2> QED
      BY <1>1, <1>2, <2>1, <2>2
  <1>3. ASSUME NEW u \in Users, NEW s \in Ids, StartUpdate(p, u, s) \/ StartDelete(p, u, s)
        PROVE  RecordInv'
    BY <1>2, <1>3 DEF StartUpdate, StartDelete, Goto, tables, RecordInv, AssocLive
  <1>4. ASSUME NEW u \in Users, NEW s \in Ids, StartGift(p, u, s) \/ StartRevoke(p, u, s)
        PROVE  RecordInv'
    BY <1>2, <1>4 DEF StartGift, StartRevoke, Goto, tables, RecordInv, AssocLive, Associated
  <1>5. ASSUME NEW u \in Users, StartRecalculate(p, u)
        PROVE  RecordInv'
    <2> DEFINE r == [NoRequest EXCEPT !.op = "recalculate", !.user = u]
    <2>1. r.op = "recalculate" /\ r.skin = None /\ r.file = None /\ ~r.dropped /\ ~r.last
      BY DEF NoRequest
    <2>2. /\ req' = [req EXCEPT ![p] = r] /\ pc' = [pc EXCEPT ![p] = "lockQuota"]
          /\ UNCHANGED <<skin, assoc, file>>
      BY <1>5 DEF StartRecalculate, Goto, tables
    <2> HIDE DEF r
    <2> QED
      BY <1>1, <2>1, <2>2
  <1> QED
    BY <1>3, <1>4, <1>5, UploadRecord DEF Arrive

\* The transaction of a create request commits what Frame allows.
LEMMA CommitCreateRecord ==
  ASSUME RecordInv, Inv', NEW p \in Procs, CommitCreate(p), Frame(p),
         pc[p] \in {"findAssoc", "insertAssoc", "insertSkin"},
         AssocLive', NormalOnlyByOwner', BuiltInKept'
  PROVE  RecordInv'
  <1> DEFINE r == [NoRequest EXCEPT !.op = "create", !.file = req[p].file]
  <1>1. r.op = "create" /\ r.file = req[p].file /\ r.skin = None /\ ~r.dropped /\ ~r.last
    BY DEF NoRequest
  <1>2. req' = [req EXCEPT ![p] = r] /\ pc' = [pc EXCEPT ![p] = "verifyFile"]
    BY DEF CommitCreate, Goto
  <1> HIDE DEF r
  <1>3. pc'[p] = "verifyFile" /\ req'[p] = r
    BY <1>2, Moves DEF RecordInv
  <1>4. Refers(p) /\ RecordKnown(p)'
    BY <1>1, <1>3, NoneAssumption DEF Refers, RecordKnown, Uploading, Live
  <1> QED
    BY <1>4, StepRecord

LEMMA CreateRecord ==
  ASSUME RecordInv, Inv', NEW p \in Procs, CreateStep(p)
  PROVE  RecordInv'
  <1> DEFINE c == req[p]
  <1>1. c \in Requests /\ Shape(c, pc[p]) /\ RecordKnown(p)
    BY KnownRequest DEF RecordInv
  <1>2. ASSUME CommitCreate(p) PROVE Alone(p)
    BY <1>2, Moves DEF CommitCreate, Goto, RecordInv
  <1>3. CASE HashUnknown(p) \/ AssocMissing(p)
    <2>1. req' = [req EXCEPT ![p] = c]
      BY <1>3 DEF HashUnknown, AssocMissing, RecordInv, Inv, TypeOK
    <2> QED
      BY <1>3, <2>1, SameRecord DEF HashUnknown, AssocMissing, At, tables
  <1>4. CASE HashOfOwn(p)
    <2>1. PICK s \in WithHash(c.hash) :
            skin[s].owner = c.user /\ req' = [req EXCEPT ![p].skin = s]
      BY <1>4 DEF HashOfOwn
    <2> DEFINE r == [c EXCEPT !.skin = s]
    <2>2. /\ pc[p] = "lookupHash" /\ pc' = [pc EXCEPT ![p] = "findAssoc"]
          /\ req' = [req EXCEPT ![p] = r] /\ UNCHANGED <<skin, assoc, file>>
      BY <1>4, <2>1 DEF HashOfOwn, At, Goto, tables, RecordInv, Inv, TypeOK
    <2>3. /\ r.op = c.op /\ r.user = c.user /\ r.skin = s
          /\ r.file = c.file /\ r.dropped = c.dropped /\ r.last = c.last
      BY <1>1 DEF Requests
    <2> HIDE DEF r
    <2>4. pc'[p] = "findAssoc" /\ req'[p] = r /\ Alone(p)
      BY <2>2, Moves DEF RecordInv
    <2>5. /\ Live(s) /\ c.op = "create" /\ c.user \in Users /\ ~c.dropped
          /\ skin[s].owner = c.user
      BY <1>1, <2>1, <2>2 DEF Shape, RecordKnown, WithHash
    <2>6. s \notin DOMAIN Seeds
      BY <2>5, NoneAssumption DEF RecordInv, BuiltInKept
    <2>7. Refers(p) /\ RecordKnown(p)'
      BY <1>1, <2>2, <2>3, <2>4, <2>5, <2>6 DEF Refers, RecordKnown, Uploading, Live
    <2> QED
      BY <2>2, <2>4, <2>7, QuietRecord
  <1>5. CASE AssocFound(p)
    <2>1. UNCHANGED <<skin, assoc, file>> /\ pc[p] = "findAssoc" /\ CommitCreate(p)
      BY <1>5 DEF AssocFound, CommitCreate, At
    <2>2. Frame(p)
      BY <1>2, <2>1 DEF Frame, Live, Associated, RecordInv, AssocLive
    <2>3. AssocLive' /\ NormalOnlyByOwner' /\ BuiltInKept'
      BY <2>1 DEF RecordInv, AssocLive, NormalOnlyByOwner, BuiltInKept, Live, Associated
    <2> QED
      BY <2>1, <2>2, <2>3, CommitCreateRecord
  <1>6. CASE InsertAssoc(p)
    <2>1. /\ pc[p] = "insertAssoc" /\ CommitCreate(p) /\ UNCHANGED <<skin, file>>
          /\ Live(c.skin) /\ assoc' = [assoc EXCEPT ![c.user][c.skin] = "normal"]
      BY <1>6 DEF InsertAssoc, CommitCreate, At
    <2>2. c.user \in Users /\ c.skin \in Ids /\ skin[c.skin].owner = c.user
      BY <1>1, <2>1 DEF Shape, RecordKnown, Live
    <2>3. \A u \in Users, s \in Ids :
            assoc'[u][s] = IF u = c.user /\ s = c.skin THEN "normal" ELSE assoc[u][s]
      BY <2>1, <2>2 DEF RecordInv, Inv, TypeOK
    <2>4. Frame(p)
      BY <1>2, <2>1, <2>3 DEF Frame, Live, Associated, RecordInv, AssocLive
    <2>5. AssocLive' /\ NormalOnlyByOwner' /\ BuiltInKept'
      BY <2>1, <2>2, <2>3
      DEF RecordInv, AssocLive, NormalOnlyByOwner, BuiltInKept, Live, Associated
    <2> QED
      BY <2>1, <2>4, <2>5, CommitCreateRecord
  <1>7. CASE InsertSkin(p)
    <2> DEFINE f == c.file
               rec == [owner |-> c.user, hash |-> c.hash, vis |-> c.vis]
    <2>1. /\ pc[p] = "insertSkin" /\ CommitCreate(p) /\ UNCHANGED file
          /\ skin' = [skin EXCEPT ![f] = rec]
          /\ assoc' = [assoc EXCEPT ![c.user][f] = "normal"]
      BY <1>7 DEF InsertSkin, CommitCreate, At
    <2>2. c.user \in Users /\ f \in Ids /\ Uploading(p)
      BY <1>1, <2>1 DEF Shape, Uploading
    <2>3. skin[f] = None /\ \A u \in Users : assoc[u][f] = "none"
      BY <2>2 DEF RecordInv, Fresh, Untouched
    <2>4. rec # None /\ rec.owner = c.user
      <3>1. rec \in Records
        BY <2>1, <1>1 DEF Shape, Records
      <3> QED
        BY <3>1, RecordsAssumption
    <2> HIDE DEF rec
    <2>5. \A s \in Ids : skin'[s] = IF s = f THEN rec ELSE skin[s]
      BY <2>1, <2>2 DEF RecordInv, Inv, TypeOK
    <2>6. \A u \in Users, s \in Ids :
            assoc'[u][s] = IF u = c.user /\ s = f THEN "normal" ELSE assoc[u][s]
      BY <2>1, <2>2 DEF RecordInv, Inv, TypeOK
    <2>7. Frame(p)
      BY <1>2, <2>1, <2>2, <2>3, <2>5, <2>6 DEF Frame, Live, Associated, RecordInv, AssocLive
    <2>8. AssocLive' /\ NormalOnlyByOwner' /\ BuiltInKept'
      BY <2>1, <2>2, <2>3, <2>4, <2>5, <2>6
      DEF RecordInv, AssocLive, NormalOnlyByOwner, BuiltInKept, Live, Associated
    <2> QED
      BY <2>1, <2>7, <2>8, CommitCreateRecord
  <1>8. CASE VerifyFile(p)
    <2>1. /\ pc[p] = "verifyFile" /\ Finish(p) /\ UNCHANGED <<skin, assoc>>
          /\ file' = [file EXCEPT ![c.file] = IF @ = "cached" THEN "permanent" ELSE @]
      BY <1>8 DEF VerifyFile, At, tables
    <2>2. c.file \in Ids
      BY <1>1, <2>1 DEF Shape
    <2>3. pc'[p] = "idle" /\ req'[p] = NoRequest /\ Alone(p)
      BY <2>1, Moves DEF Finish, Goto, RecordInv
    <2>4. Refers(p) /\ RecordKnown(p)'
      BY <2>3 DEF Refers, RecordKnown, NoRequest, Uploading
    <2>5. \A s \in Ids :
            file'[s] = IF s = c.file /\ file[s] = "cached" THEN "permanent" ELSE file[s]
      BY <2>1, <2>2 DEF RecordInv, Inv, TypeOK
    <2>6. ASSUME NEW q \in Procs \ {p}, Uploading(q) PROVE file'[req[q].file] = file[req[q].file]
      BY <2>5, <2>6, UploadFile DEF RecordInv, Fresh
    <2>7. Frame(p)
      BY <2>1, <2>3, <2>5, <2>6 DEF Frame, Live, Associated, RecordInv, AssocLive
    <2>8. AssocLive' /\ NormalOnlyByOwner' /\ BuiltInKept'
      BY <2>1, <2>5, SeedsAssumption
      DEF RecordInv, AssocLive, NormalOnlyByOwner, BuiltInKept, Live, Associated
    <2> QED
      BY <2>4, <2>7, <2>8, StepRecord
  <1> QED
    BY <1>3, <1>4, <1>5, <1>6, <1>7, <1>8, RollbackRecord
    DEF CreateStep, HashOfOther, InsertAssocFails, InsertSkinFails

LEMMA UpdateRecord ==
  ASSUME RecordInv, Inv', NEW p \in Procs, UpdateStep(p)
  PROVE  RecordInv'
  <1> DEFINE c == req[p]
  <1>1. c \in Requests /\ Shape(c, pc[p]) /\ RecordKnown(p)
    BY KnownRequest DEF RecordInv
  <1>2. ASSUME NEW v \in Vis, ReadSkinForUpdate(p, v) PROVE RecordInv'
    <2> DEFINE r == [c EXCEPT !.vis = v, !.old = skin[c.skin].vis]
    <2>1. /\ pc[p] = "readSkin" /\ Goto(p, "checkAssoc") /\ UNCHANGED <<skin, assoc, file>>
          /\ Live(c.skin) /\ skin[c.skin].owner = c.user /\ req' = [req EXCEPT ![p] = r]
      BY <1>2 DEF ReadSkinForUpdate, At, tables, RecordInv, Inv, TypeOK
    <2>2. /\ r.op = c.op /\ r.user = c.user /\ r.skin = c.skin
          /\ r.file = c.file /\ r.dropped = c.dropped /\ r.last = c.last
      BY <1>1 DEF Requests
    <2>3. c.user # None
      BY <1>1, <2>1, NoneAssumption DEF Shape
    <2> HIDE DEF r
    <2> QED
      BY <2>1, <2>2, <2>3, SameRecord
  <1>3. CASE CheckAssocForUpdate(p)
    <2>1. req' = [req EXCEPT ![p] = c]
      BY <1>3 DEF CheckAssocForUpdate, RecordInv, Inv, TypeOK
    <2>2. PICK l \in {"updateSkin", "lockQuota"} : Goto(p, l)
      BY <1>3 DEF CheckAssocForUpdate
    <2> QED
      BY <1>3, <2>1, <2>2, SameRecord DEF CheckAssocForUpdate, At, tables
  <1>4. CASE UpdateSkin(p)
    <2>1. /\ pc[p] = "updateSkin" /\ Finish(p) /\ UNCHANGED <<assoc, file>>
          /\ Live(c.skin) /\ skin' = [skin EXCEPT ![c.skin].vis = c.vis]
      BY <1>4 DEF UpdateSkin, At
    <2>2. pc'[p] = "idle" /\ req'[p] = NoRequest /\ Alone(p)
      BY <2>1, Moves DEF Finish, Goto, RecordInv
    <2>3. Refers(p) /\ RecordKnown(p)'
      BY <2>2 DEF Refers, RecordKnown, NoRequest, Uploading
    <2>4. \A s \in Ids : (Live(s)' <=> Live(s)) /\ (Live(s) => skin'[s].owner = skin[s].owner)
      <3>1. skin[c.skin] \in Records /\ skin'[c.skin] = [skin[c.skin] EXCEPT !.vis = c.vis]
        BY <2>1 DEF Live, RecordInv, Inv, TypeOK
      <3>2. /\ skin'[c.skin].owner = skin[c.skin].owner
            /\ skin'[c.skin] \in Records
        BY <1>1, <2>1, <3>1 DEF Records, Requests, Shape
      <3>3. \A s \in Ids \ {c.skin} : skin'[s] = skin[s]
        BY <2>1 DEF RecordInv, Inv, TypeOK
      <3> QED
        BY <3>1, <3>2, <3>3, RecordsAssumption DEF Live
    <2>5. Frame(p)
      BY <2>1, <2>2, <2>4 DEF Frame, Associated, RecordInv, AssocLive
    <2>6. AssocLive' /\ NormalOnlyByOwner' /\ BuiltInKept'
      BY <2>1, <2>4, SeedsAssumption
      DEF RecordInv, AssocLive, NormalOnlyByOwner, BuiltInKept, Associated
    <2> QED
      BY <2>3, <2>5, <2>6, StepRecord
  <1> QED
    BY <1>2, <1>3, <1>4, RollbackRecord DEF UpdateStep, UpdateRefused, UpdateDenied, UpdateSkinFails

\* What the transaction of a deletion or revocation commits.
LEMMA DropRecord ==
  ASSUME RecordInv, NEW p \in Procs, CommitDrop(p), Alone(p)
  PROVE  Frame(p) /\ AssocLive' /\ NormalOnlyByOwner' /\ BuiltInKept'
  <1> DEFINE c == req[p]
  <1>1. c \in Requests /\ Shape(c, pc[p]) /\ RecordKnown(p)
    BY KnownRequest DEF RecordInv
  <1>2. c.user \in Users /\ c.skin \in Ids /\ UNCHANGED file
    BY <1>1 DEF CommitDrop, At, Shape
  <1>3. CASE c.last
    <2>1. /\ c.skin \notin DOMAIN Seeds /\ (\A u \in Users : ~BeingDropped(p, u, c.skin))
          /\ skin' = [skin EXCEPT ![c.skin] = None]
          /\ assoc' = [u \in Users |-> [assoc[u] EXCEPT ![c.skin] = "none"]]
      BY <1>1, <1>3 DEF CommitDrop, RemoveRecord, RecordKnown
    <2>2. \A s \in Ids : skin'[s] = IF s = c.skin THEN None ELSE skin[s]
      BY <1>2, <2>1 DEF RecordInv, Inv, TypeOK
    <2>3. \A u \in Users, s \in Ids :
            assoc'[u][s] = IF s = c.skin THEN "none" ELSE assoc[u][s]
      BY <1>2, <2>1 DEF RecordInv, Inv, TypeOK
    <2>4. Frame(p)
      BY <1>2, <2>1, <2>2, <2>3 DEF Frame, Live, Associated, RecordInv, AssocLive
    <2> QED
      BY <1>2, <2>1, <2>2, <2>3, <2>4, SeedsAssumption
      DEF RecordInv, AssocLive, NormalOnlyByOwner, BuiltInKept, Live, Associated
  <1>4. CASE ~c.last
    <2>1. /\ skin' = skin
          /\ assoc' = IF c.dropped THEN [assoc EXCEPT ![c.user][c.skin] = "none"] ELSE assoc
      BY <1>4 DEF CommitDrop, RemoveAssoc
    <2>2. \A u \in Users, s \in Ids :
            assoc'[u][s] = IF c.dropped /\ u = c.user /\ s = c.skin THEN "none" ELSE assoc[u][s]
      BY <1>2, <2>1 DEF RecordInv, Inv, TypeOK
    <2>3. c.dropped => ~BeingDropped(p, c.user, c.skin)
      BY DEF RecordInv, DropsApart
    <2>4. Frame(p)
      BY <1>2, <2>1, <2>2, <2>3 DEF Frame, Live, Associated, RecordInv, AssocLive
    <2> QED
      BY <1>2, <2>1, <2>2, <2>4
      DEF RecordInv, AssocLive, NormalOnlyByOwner, BuiltInKept, Live, Associated
  <1> QED
    BY <1>3, <1>4

LEMMA DeleteRecord ==
  ASSUME RecordInv, Inv', NEW p \in Procs, DeleteStep(p)
  PROVE  RecordInv'
  <1> DEFINE c == req[p]
  <1>1. c \in Requests /\ Shape(c, pc[p]) /\ RecordKnown(p)
    BY KnownRequest DEF RecordInv
  <1>2. CASE ReadSkinForDelete(p)
    <2>1. req' = [req EXCEPT ![p] = c]
      BY <1>2 DEF ReadSkinForDelete, RecordInv, Inv, TypeOK
    <2> QED
      BY <1>2, <2>1, SameRecord DEF ReadSkinForDelete, At, tables
  <1>3. CASE CheckAssocForDelete(p)
    <2>1. req' = [req EXCEPT ![p] = c]
      BY <1>3 DEF CheckAssocForDelete, RecordInv, Inv, TypeOK
    <2>2. PICK l \in {"readOwnSkin", "dropAssoc"} : Goto(p, l)
      BY <1>3 DEF CheckAssocForDelete
    <2> QED
      BY <1>3, <2>1, <2>2, SameRecord DEF CheckAssocForDelete, At, tables
  <1>4. CASE ReadOwnSkin(p)
    <2> DEFINE r == [c EXCEPT !.old = skin[c.skin].vis]
    <2>1. /\ pc[p] = "readOwnSkin" /\ Goto(p, "lockQuota") /\ UNCHANGED <<skin, assoc, file>>
          /\ req' = [req EXCEPT ![p] = r]
      BY <1>4 DEF ReadOwnSkin, At, tables, RecordInv, Inv, TypeOK
    <2>2. /\ r.op = c.op /\ r.user = c.user /\ r.skin = c.skin
          /\ r.file = c.file /\ r.dropped = c.dropped /\ r.last = c.last
      BY <1>1 DEF Requests
    <2> HIDE DEF r
    <2> QED
      BY <2>1, <2>2, SameRecord
  <1>5. CASE DropAssoc(p)
    <2> DEFINE r == [c EXCEPT !.dropped = Associated(c.user, c.skin)]
    <2>1. /\ pc[p] = "dropAssoc" /\ pc' = [pc EXCEPT ![p] = "countRefs"]
          /\ UNCHANGED <<skin, assoc, file>> /\ req' = [req EXCEPT ![p] = r]
          /\ ~BeingDropped(p, c.user, c.skin)
      BY <1>5 DEF DropAssoc, At, Goto, tables, RecordInv, Inv, TypeOK
    <2>2. /\ r.op = c.op /\ r.user = c.user /\ r.skin = c.skin
          /\ r.file = c.file /\ r.dropped = Associated(c.user, c.skin) /\ r.last = c.last
      BY <1>1 DEF Requests
    <2> HIDE DEF r
    <2>3. pc'[p] = "countRefs" /\ req'[p] = r /\ Alone(p)
      BY <2>1, Moves DEF RecordInv
    <2>4. c.op \in {"delete", "revoke"}
      BY <1>1, <2>1 DEF Shape
    <2>5. Refers(p) /\ RecordKnown(p)'
      BY <1>1, <2>1, <2>2, <2>3, <2>4 DEF Refers, RecordKnown, Uploading, Live, Associated
    <2> QED
      BY <2>1, <2>3, <2>5, QuietRecord
  <1>6. CASE CountRefs(p)
    <2> DEFINE last == References(c) = {} /\ Live(c.skin) /\ skin[c.skin].owner = c.user
               r == [c EXCEPT !.last = last]
    <2>1. /\ pc[p] = "countRefs" /\ pc' = [pc EXCEPT ![p] = "commitDrop"]
          /\ UNCHANGED <<skin, assoc, file>> /\ req' = [req EXCEPT ![p] = r]
      BY <1>6 DEF CountRefs, At, Goto, tables, RecordInv, Inv, TypeOK
    <2>2. /\ r.op = c.op /\ r.user = c.user /\ r.skin = c.skin
          /\ r.file = c.file /\ r.dropped = c.dropped /\ r.last = last
      BY <1>1 DEF Requests
    <2>3. last => c.skin \notin DOMAIN Seeds
      BY <1>1, <2>1, NoneAssumption DEF Shape, RecordInv, BuiltInKept
    <2> HIDE DEF r, last
    <2>4. pc'[p] = "commitDrop" /\ req'[p] = r /\ Alone(p)
      BY <2>1, Moves DEF RecordInv
    <2>5. c.op \in {"delete", "revoke"}
      BY <1>1, <2>1 DEF Shape
    <2>6. c.dropped => ~BeingDropped(p, c.user, c.skin)
      BY DEF RecordInv, DropsApart
    <2>7. Refers(p) /\ RecordKnown(p)'
      BY <1>1, <2>1, <2>2, <2>3, <2>4, <2>5, <2>6
      DEF Refers, RecordKnown, Uploading, Live, Associated
    <2> QED
      BY <2>1, <2>4, <2>7, QuietRecord
  <1>7. CASE CommitDelete(p)
    <2> DEFINE r == [NoRequest EXCEPT !.op = "delete", !.skin = c.skin]
    <2>1. /\ CommitDrop(p) /\ pc[p] = "commitDrop" /\ c.op = "delete"
          /\ pc' = [pc EXCEPT ![p] = "deleteFile"] /\ req' = [req EXCEPT ![p] = r]
      BY <1>7 DEF CommitDelete, CommitDrop, At, Goto
    <2>2. r.op = "delete" /\ r.skin = c.skin /\ r.file = None /\ ~r.dropped /\ ~r.last
      BY DEF NoRequest
    <2> HIDE DEF r
    <2>3. pc'[p] = "deleteFile" /\ req'[p] = r /\ Alone(p)
      BY <2>1, Moves DEF RecordInv
    <2>4. Refers(p) /\ RecordKnown(p)'
      BY <1>1, <2>1, <2>2, <2>3 DEF Refers, RecordKnown, Uploading
    <2> QED
      BY <2>1, <2>3, <2>4, DropRecord, StepRecord
  <1>8. CASE CommitRevoke(p)
    <2>1. CommitDrop(p) /\ pc'[p] = "idle" /\ req'[p] = NoRequest /\ Alone(p)
      BY <1>8, Moves DEF CommitRevoke, Finish, Goto, RecordInv
    <2>2. Refers(p) /\ RecordKnown(p)'
      BY <2>1 DEF Refers, RecordKnown, NoRequest, Uploading
    <2> QED
      BY <2>1, <2>2, DropRecord, StepRecord
  <1>9. CASE DeleteFile(p)
    <2>1. /\ pc[p] = "deleteFile" /\ Finish(p) /\ UNCHANGED <<skin, assoc>>
          /\ file' = [file EXCEPT ![c.skin] = "deleted"]
      BY <1>9 DEF DeleteFile, At, tables
    <2>2. c.skin \in Ids \ DOMAIN Seeds
      BY <1>1, <2>1 DEF Shape, RecordKnown
    <2>3. pc'[p] = "idle" /\ req'[p] = NoRequest /\ Alone(p)
      BY <2>1, Moves DEF Finish, Goto, RecordInv
    <2>4. Refers(p) /\ RecordKnown(p)'
      BY <2>3 DEF Refers, RecordKnown, NoRequest, Uploading
    <2>5. file[c.skin] # "unused" /\ \A q \in Procs : Uploading(q) => req[q].file # c.skin
      BY <2>2 DEF RecordInv, Fresh, Untouched
    <2>6. \A s \in Ids : file'[s] = IF s = c.skin THEN "deleted" ELSE file[s]
      BY <2>1 DEF RecordInv, Inv, TypeOK
    <2>7. ASSUME NEW q \in Procs \ {p}, Uploading(q) PROVE file'[req[q].file] = file[req[q].file]
      BY <2>5, <2>6, <2>7, UploadFile DEF RecordInv
    <2>8. Frame(p)
      BY <2>1, <2>3, <2>5, <2>6, <2>7 DEF Frame, Live, Associated, RecordInv, AssocLive
    <2>9. AssocLive' /\ NormalOnlyByOwner' /\ BuiltInKept'
      BY <2>1, <2>2, <2>6, SeedsAssumption
      DEF RecordInv, AssocLive, NormalOnlyByOwner, BuiltInKept, Live, Associated
    <2> QED
      BY <2>4, <2>8, <2>9, StepRecord
  <1> QED
    BY <1>2, <1>3, <1>4, <1>5, <1>6, <1>7, <1>8, <1>9, RollbackRecord
    DEF DeleteStep, DeleteRefused, DeleteDenied, OwnSkinGone

LEMMA AdminRecord ==
  ASSUME RecordInv, Inv', NEW p \in Procs, AdminStep(p)
  PROVE  RecordInv'
  <1> DEFINE c == req[p]
  <1>1. c \in Requests /\ Shape(c, pc[p]) /\ RecordKnown(p)
    BY KnownRequest DEF RecordInv
  <1>2. CASE CheckGift(p)
    <2>1. req' = [req EXCEPT ![p] = c]
      BY <1>2 DEF CheckGift, RecordInv, Inv, TypeOK
    <2> QED
      BY <1>2, <2>1, SameRecord DEF CheckGift, At, tables
  <1>3. CASE InsertGift(p)
    <2>1. /\ pc[p] = "insertGift" /\ Finish(p) /\ UNCHANGED <<skin, file>>
          /\ Live(c.skin) /\ assoc' = [assoc EXCEPT ![c.user][c.skin] = "gift"]
      BY <1>3 DEF InsertGift, At
    <2>2. c.user \in Users /\ c.skin \in Ids
      BY <1>1, <2>1 DEF Shape
    <2>3. pc'[p] = "idle" /\ req'[p] = NoRequest /\ Alone(p)
      BY <2>1, Moves DEF Finish, Goto, RecordInv
    <2>4. Refers(p) /\ RecordKnown(p)'
      BY <2>3 DEF Refers, RecordKnown, NoRequest, Uploading
    <2>5. \A u \in Users, s \in Ids :
            assoc'[u][s] = IF u = c.user /\ s = c.skin THEN "gift" ELSE assoc[u][s]
      BY <2>1, <2>2 DEF RecordInv, Inv, TypeOK
    <2>6. Frame(p)
      BY <2>1, <2>3, <2>5 DEF Frame, Live, Associated, RecordInv, AssocLive
    <2>7. AssocLive' /\ NormalOnlyByOwner' /\ BuiltInKept'
      BY <2>1, <2>5
      DEF RecordInv, AssocLive, NormalOnlyByOwner, BuiltInKept, Live, Associated
    <2> QED
      BY <2>4, <2>6, <2>7, StepRecord
  <1>4. CASE CountPublic(p)
    <2> DEFINE r == [c EXCEPT !.seen["public"] = Cardinality(Counted(c.user, "public"))]
    <2>1. /\ pc[p] = "countPublic" /\ Goto(p, "countPrivate") /\ UNCHANGED <<skin, assoc, file>>
          /\ req' = [req EXCEPT ![p] = r]
      BY <1>4 DEF CountPublic, At, tables, RecordInv, Inv, TypeOK
    <2>2. /\ r.op = c.op /\ r.user = c.user /\ r.skin = c.skin
          /\ r.file = c.file /\ r.dropped = c.dropped /\ r.last = c.last
      BY <1>1 DEF Requests
    <2> HIDE DEF r
    <2> QED
      BY <2>1, <2>2, SameRecord
  <1>5. CASE CountPrivate(p)
    BY <1>5, FinishRecord DEF CountPrivate
  <1> QED
    BY <1>2, <1>3, <1>4, <1>5, RollbackRecord DEF AdminStep, GiftDenied, InsertGiftFails

--------------------------------------------------------------------------
\* The initial states satisfy the invariant.
LEMMA InitRecord == Init => RecordInv
  <1> SUFFICES ASSUME Init PROVE RecordInv
    OBVIOUS
  <1>1. Inv
    BY InitInv
  <1>2. \A p \in Procs : req[p] = NoRequest /\ pc[p] = "idle"
    BY DEF Init
  <1>3. Fresh
    BY <1>2, NoneAssumption DEF Init, Fresh, Untouched, Uploading, NoRequest
  <1>4. \A p \in Procs :
          req[p].op = "none" /\ req[p].file = None /\ ~req[p].dropped /\ ~req[p].last
    BY <1>2 DEF NoRequest
  <1>5. (\A p \in Procs : RecordKnown(p)) /\ DropsApart
    BY <1>2, <1>4 DEF RecordKnown, DropsApart
  <1>6. AssocLive /\ NormalOnlyByOwner
    BY DEF Init, AssocLive, NormalOnlyByOwner, Associated
  <1>7. ASSUME NEW s \in DOMAIN Seeds
        PROVE  Live(s) /\ skin[s].owner = None /\ file[s] = "permanent"
    <2>1. s \in Ids /\ skin[s] = [owner |-> None, hash |-> Seeds[s], vis |-> "public"]
      BY SeedsAssumption DEF Init
    <2>2. skin[s] \in Records
      BY <2>1, SeedsAssumption DEF Records, Vis
    <2> QED
      BY <2>1, <2>2, RecordsAssumption DEF Init, Live
  <1> QED
    BY <1>1, <1>3, <1>5, <1>6, <1>7 DEF RecordInv, BuiltInKept

LEMMA NextRecord == RecordInv /\ [Next]_vars => RecordInv'
  <1> SUFFICES ASSUME RecordInv, [Next]_vars PROVE RecordInv'
    OBVIOUS
  <1>1. Inv'
    BY NextInv DEF RecordInv
  <1>2. ASSUME UNCHANGED <<skin, assoc, file, pc, req>> PROVE RecordInv'
    <2>1. Fresh'
      BY <1>2 DEF RecordInv, Fresh, Untouched, Uploading
    <2>2. \A p \in Procs : RecordKnown(p)'
      BY <1>2 DEF RecordInv, RecordKnown, Live, Associated
    <2>3. DropsApart' /\ AssocLive' /\ NormalOnlyByOwner' /\ BuiltInKept'
      BY <1>2 DEF RecordInv, DropsApart, BeingDropped, AssocLive, NormalOnlyByOwner,
         BuiltInKept, Live, Associated
    <2> QED
      BY <1>1, <2>1, <2>2, <2>3 DEF RecordInv
  <1>3. ASSUME NEW p \in Procs, Step(p) PROVE RecordInv'
    BY <1>1, <1>3, QuotaRecord, CreateRecord, UpdateRecord, DeleteRecord, AdminRecord DEF Step
  <1>4. ASSUME NEW p \in Procs, CutOff(p) PROVE RecordInv'
    BY <1>1, <1>4, RollbackRecord DEF CutOff
  <1> QED
    BY <1>1, <1>2, <1>3, <1>4, ArriveRecord DEF Next, GetQuota, vars

\* RecordInv holds in every reachable state.
THEOREM RecordInvariance == Spec => []RecordInv
  BY InitRecord, NextRecord, PTL DEF Spec

\* Only the uploader of a record holds it as normal, whatever is gifted,
\* revoked, deleted, uploaded again or cut off.
THEOREM NormalByOwner == Spec => []NormalOnlyByOwner
  <1>1. RecordInv => NormalOnlyByOwner
    BY DEF RecordInv
  <1> QED
    BY <1>1, RecordInvariance, PTL

\* Built-in records stay, with their files.
THEOREM BuiltInStays == Spec => []BuiltInKept
  <1>1. RecordInv => BuiltInKept
    BY DEF RecordInv
  <1> QED
    BY <1>1, RecordInvariance, PTL

--------------------------------------------------------------------------
(***************************************************************************)
(* The file of a live record leaves the cache with the request that        *)
(* uploaded it, when no request is cut off.                                *)
(***************************************************************************)

LEMMA StepAlone ==
  ASSUME Inv, NEW p \in Procs, Arrive(p) \/ Step(p) \/ CutOff(p)
  PROVE  Alone(p)
  <1>1. ASSUME Finish(p) PROVE Alone(p)
    BY <1>1 DEF Finish, Goto, Inv, TypeOK, Alone
  <1>2. CASE Arrive(p)
    BY <1>2 DEF Arrive, Upload, StartUpdate, StartDelete, StartGift, StartRevoke,
       StartRecalculate, Goto, Inv, TypeOK, Alone
  <1>3. CASE QuotaStep(p)
    BY <1>1, <1>3 DEF QuotaStep, LockQuota, QuotaRefused, QuotaMissing, InsertQuota,
       InsertQuotaFails, Acquire, Rollback, Goto, Inv, TypeOK, Alone
  <1>4. CASE CreateStep(p)
    BY <1>1, <1>4 DEF CreateStep, HashUnknown, HashOfOther, HashOfOwn, AssocFound,
       AssocMissing, InsertAssoc, InsertAssocFails, InsertSkin, InsertSkinFails, VerifyFile,
       CommitCreate, Rollback, Goto, Inv, TypeOK, Alone
  <1>5. CASE UpdateStep(p)
    BY <1>1, <1>5 DEF UpdateStep, ReadSkinForUpdate, UpdateRefused, CheckAssocForUpdate,
       UpdateDenied, UpdateSkin, UpdateSkinFails, Rollback, Goto, Inv, TypeOK, Alone
  <1>6. CASE DeleteStep(p)
    BY <1>1, <1>6 DEF DeleteStep, ReadSkinForDelete, DeleteRefused, CheckAssocForDelete,
       DeleteDenied, ReadOwnSkin, OwnSkinGone, DropAssoc, CountRefs, CommitDelete,
       CommitRevoke, DeleteFile, Rollback, Goto, Inv, TypeOK, Alone
  <1>7. CASE AdminStep(p)
    BY <1>1, <1>7 DEF AdminStep, CheckGift, GiftDenied, InsertGift, InsertGiftFails,
       CountPublic, CountPrivate, Rollback, Goto, Inv, TypeOK, Alone
  <1> QED
    BY <1>1, <1>2, <1>3, <1>4, <1>5, <1>6, <1>7 DEF Step, CutOff, Rollback

\* Only an upload puts a file in the cache and only the commit of an upload
\* makes a record, and the slot that does either has the file in hand.
LEMMA CachedKnown ==
  ASSUME RecordInv, NEW p \in Procs, Arrive(p) \/ Step(p), NEW s \in Ids, Live(s)',
         file'[s] = "cached"
  PROVE  (Live(s) /\ file[s] = "cached") \/ req'[p].file = s
  <1> DEFINE c == req[p]
  <1>1. c \in Requests /\ Shape(c, pc[p])
    BY KnownRequest DEF RecordInv
  <1>2. ASSUME UNCHANGED <<skin, file>> PROVE Live(s) /\ file[s] = "cached"
    BY <1>2 DEF Live
  <1>3. CASE Arrive(p)
    <2>1. ASSUME NEW u \in Users, NEW f \in Ids, NEW h \in Hashes, NEW v \in Vis,
                 Upload(p, u, f, h, v)
          PROVE  (Live(s) /\ file[s] = "cached") \/ req'[p].file = s
      <3>1. /\ skin' = skin /\ file' = [file EXCEPT ![f] = "cached"] /\ file[f] = "unused"
        BY <2>1 DEF Upload, tables
      <3>2. skin[f] = None
        BY <3>1 DEF RecordInv, Fresh, Untouched
      <3> QED
        BY <3>1, <3>2 DEF Live, RecordInv, Inv, TypeOK
    <2> QED
      BY <1>2, <1>3, <2>1 DEF Arrive, StartUpdate, StartDelete, StartGift, StartRevoke,
         StartRecalculate, tables
  <1>4. CASE QuotaStep(p)
    BY <1>2, <1>4 DEF QuotaStep, LockQuota, QuotaRefused, QuotaMissing, InsertQuota,
       InsertQuotaFails, Acquire, Rollback, tables
  <1>5. CASE CreateStep(p)
    <2>1. CASE InsertSkin(p)
      <3> DEFINE r == [NoRequest EXCEPT !.op = "create", !.file = c.file]
                 new == [owner |-> c.user, hash |-> c.hash, vis |-> c.vis]
      <3>1. /\ skin' = [skin EXCEPT ![c.file] = new] /\ file' = file
            /\ req' = [req EXCEPT ![p] = r]
        BY <2>1 DEF InsertSkin, CommitCreate
      <3>2. r.file = c.file
        BY DEF NoRequest
      <3> HIDE DEF r, new
      <3>3. s # c.file => skin'[s] = skin[s]
        BY <3>1 DEF RecordInv, Inv, TypeOK
      <3>4. req'[p].file = c.file
        BY <3>1, <3>2 DEF RecordInv, Inv, TypeOK
      <3> QED
        BY <3>1, <3>3, <3>4 DEF Live
    <2>2. CASE VerifyFile(p)
      <3>1. \/ file'[s] = file[s]
            \/ file'[s] = "permanent"
        BY <2>2 DEF VerifyFile, RecordInv, Inv, TypeOK
      <3> QED
        BY <2>2, <3>1 DEF VerifyFile, tables, Live
    <2> QED
      BY <1>2, <1>5, <2>1, <2>2 DEF CreateStep, HashUnknown, HashOfOther, HashOfOwn,
         AssocFound, AssocMissing, InsertAssoc, InsertAssocFails, InsertSkinFails,
         CommitCreate, Rollback, tables
  <1>6. CASE UpdateStep(p)
    <2>1. CASE UpdateSkin(p)
      <3>1. Live(c.skin) /\ skin' = [skin EXCEPT ![c.skin].vis = c.vis] /\ file' = file
        BY <2>1 DEF UpdateSkin
      <3> QED
        BY <3>1 DEF Live, RecordInv, Inv, TypeOK
    <2> QED
      BY <1>2, <1>6, <2>1 DEF UpdateStep, ReadSkinForUpdate, UpdateRefused,
         CheckAssocForUpdate, UpdateDenied, UpdateSkinFails, Rollback, tables
  <1>7. CASE DeleteStep(p)
    <2>1. CASE CommitDrop(p)
      <3>1. (skin' = skin \/ skin' = [skin EXCEPT ![c.skin] = None]) /\ file' = file
        BY <2>1 DEF CommitDrop, RemoveRecord, RemoveAssoc
      <3> QED
        BY <3>1 DEF Live, RecordInv, Inv, TypeOK
    <2>2. CASE DeleteFile(p)
      <3>1. skin' = skin /\ file' = [file EXCEPT ![c.skin] = "deleted"]
        BY <2>2 DEF DeleteFile, tables
      <3> QED
        BY <3>1 DEF Live, RecordInv, Inv, TypeOK
    <2> QED
      BY <1>2, <1>7, <2>1, <2>2 DEF DeleteStep, ReadSkinForDelete, DeleteRefused,
         CheckAssocForDelete, DeleteDenied, ReadOwnSkin, OwnSkinGone, DropAssoc, CountRefs,
         CommitDelete, CommitRevoke, Rollback, tables
  <1>8. CASE AdminStep(p)
    BY <1>2, <1>8 DEF AdminStep, CheckGift, GiftDenied, InsertGift, InsertGiftFails,
       CountPublic, CountPrivate, Rollback, tables
  <1> QED
    BY <1>3, <1>4, <1>5, <1>6, <1>7, <1>8 DEF Step

LEMMA NextVerified ==
  ASSUME ~Faults, RecordInv, LiveFileVerified, [Next]_vars
  PROVE  LiveFileVerified'
  <1>1. ASSUME UNCHANGED <<skin, file, req>> PROVE LiveFileVerified'
    BY <1>1 DEF LiveFileVerified, Live
  <1>2. ASSUME NEW p \in Procs, Arrive(p) \/ Step(p) PROVE LiveFileVerified'
    <2> SUFFICES ASSUME NEW s \in Ids, Live(s)', file'[s] = "cached"
                 PROVE  \E q \in Procs : req'[q].file = s
      BY DEF LiveFileVerified
    <2>1. CASE req'[p].file = s
      BY <2>1
    <2>2. CASE req'[p].file # s
      <3>1. Live(s) /\ file[s] = "cached"
        BY <1>2, <2>2, CachedKnown
      <3>2. PICK q \in Procs : req[q].file = s
        BY <3>1 DEF LiveFileVerified
      <3>3. ~Uploading(q)
        BY <3>1, <3>2 DEF RecordInv, Fresh, Untouched, Live
      <3>4. pc[q] = "verifyFile"
        BY <3>2, <3>3, NoneAssumption DEF RecordInv, RecordKnown, Uploading
      <3>5. q # p
        <4> SUFFICES ASSUME q = p PROVE FALSE
          OBVIOUS
        <4>1. VerifyFile(p)
          BY <1>2, <3>4 DEF Arrive, Upload, StartUpdate, StartDelete, StartGift,
             StartRevoke, StartRecalculate, Receive, Step, QuotaStep, LockQuota, QuotaRefused,
             QuotaMissing, InsertQuota, InsertQuotaFails, CreateStep, HashUnknown,
             HashOfOther, HashOfOwn, AssocFound, AssocMissing, InsertAssoc, InsertAssocFails,
             InsertSkin, InsertSkinFails, UpdateStep, ReadSkinForUpdate, UpdateRefused,
             CheckAssocForUpdate, UpdateDenied, UpdateSkin, UpdateSkinFails, DeleteStep,
             ReadSkinForDelete, DeleteRefused, CheckAssocForDelete, DeleteDenied,
             ReadOwnSkin, OwnSkinGone, DropAssoc, CountRefs, CommitDelete, CommitRevoke,
             CommitDrop, DeleteFile, AdminStep, CheckGift, GiftDenied, InsertGift,
             InsertGiftFails, CountPublic, CountPrivate, At
        <4> QED
          BY <3>1, <3>2, <4>1 DEF VerifyFile, RecordInv, Inv, TypeOK
      <3> QED
        BY <1>2, <3>2, <3>5, StepAlone DEF Alone, RecordInv
    <2> QED
      BY <2>1, <2>2
  <1> QED
    BY <1>1, <1>2 DEF Next, CutOff, GetQuota, vars

\* Unless requests are cut off, the file of a live record does not stay in the
\* cache, where the bucket would discard it.
THEOREM LiveVerified == ASSUME ~Faults PROVE Spec => []LiveFileVerified
  <1>1. Init => LiveFileVerified
    BY DEF Init, LiveFileVerified, Live
  <1>2. RecordInv /\ LiveFileVerified /\ [Next]_vars => LiveFileVerified'
    BY NextVerified
  <1> QED
    BY <1>1, <1>2, RecordInvariance, PTL DEF Spec

--------------------------------------------------------------------------
(***************************************************************************)
(* When nothing is gifted, owners keep their records, and records their    *)
(* files.  Then the owner is the only user a record is associated with     *)
(* (OnlyNormal, with NormalOnlyByOwner), so that the deletion of the       *)
(* association always finds the record unreferenced and takes it along     *)
(* (KeptKnown).  A gift makes both properties fail: the owner's deletion   *)
(* leaves the record, which the other user still holds, and its file goes. *)
(***************************************************************************)

NoGifts == \A p \in Procs, u \in Users : <<"gift", u>> \notin Work[p]

\* A request is one its slot may run.
Served(p) == req[p].user # None => <<req[p].op, req[p].user>> \in Work[p]

OnlyNormal == \A u \in Users, s \in Ids : assoc[u][s] \in {"none", "normal"}

\* A deletion is the owner's as long as the record is there, and once it has
\* dropped the association the record goes with it.
KeptKnown(p) ==
  /\ req[p].op \notin {"gift", "revoke"}
  /\ req[p].last => req[p].dropped
  /\ req[p].op = "delete" /\ Live(req[p].skin) =>
       /\ pc[p] # "deleteFile"
       /\ skin[req[p].skin].owner = req[p].user
       /\ pc[p] \in {"countRefs", "commitDrop"} => req[p].dropped
       /\ pc[p] = "commitDrop" => req[p].last

KeptInv ==
  /\ RecordInv
  /\ OnlyNormal
  /\ OwnerHolds
  /\ LiveFileKept
  /\ \A p \in Procs : Served(p) /\ KeptKnown(p)

\* A record keeps its owner; new is at most the record of p's upload.
OwnersKept(p) ==
  \A s \in Ids :
    Live(s)' => \/ Live(s) /\ skin'[s].owner = skin[s].owner
                \/ Uploading(p) /\ s = req[p].file

LEMMA StepKept ==
  ASSUME KeptInv, RecordInv', NEW p \in Procs, Alone(p), OwnersKept(p), Served(p)',
         KeptKnown(p)', OnlyNormal', OwnerHolds', LiveFileKept'
  PROVE  KeptInv'
  <1>1. ASSUME NEW q \in Procs \ {p} PROVE Served(q)' /\ KeptKnown(q)'
    <2>1. pc'[q] = pc[q] /\ req'[q] = req[q] /\ Served(q) /\ KeptKnown(q)
      BY DEF KeptInv, Alone
    <2>2. Live(req[q].skin)' =>
            Live(req[q].skin) /\ skin'[req[q].skin].owner = skin[req[q].skin].owner
      <3> SUFFICES ASSUME Live(req[q].skin)'
                   PROVE  Live(req[q].skin) /\ skin'[req[q].skin].owner = skin[req[q].skin].owner
        OBVIOUS
      <3>1. req[q].skin \in Ids /\ skin'[req[q].skin] # None
        BY <2>1 DEF Live
      <3>2. Uploading(p) => req[q].skin # req[p].file
        BY DEF KeptInv, RecordInv, Fresh, Untouched
      <3> QED
        BY <3>1, <3>2 DEF OwnersKept, Live
    <2> QED
      BY <2>1, <2>2 DEF Served, KeptKnown, Live
  <1> QED
    BY <1>1 DEF KeptInv

\* A step that leaves records and associations, and the files of records.
LEMMA QuietKept ==
  ASSUME KeptInv, RecordInv', NEW p \in Procs, Alone(p), Served(p)', KeptKnown(p)',
         UNCHANGED <<skin, assoc>>,
         \A s \in Ids : Live(s) /\ file'[s] = "deleted" => file[s] = "deleted"
  PROVE  KeptInv'
  <1>1. OwnersKept(p) /\ OnlyNormal' /\ OwnerHolds' /\ LiveFileKept'
    BY DEF KeptInv, OwnersKept, OnlyNormal, OwnerHolds, LiveFileKept, Live
  <1> QED
    BY <1>1, StepKept

LEMMA FinishKept ==
  ASSUME KeptInv, RecordInv', NEW p \in Procs, Finish(p), UNCHANGED <<skin, assoc>>,
         \A s \in Ids : Live(s) /\ file'[s] = "deleted" => file[s] = "deleted"
  PROVE  KeptInv'
  <1>1. pc'[p] = "idle" /\ req'[p] = NoRequest /\ Alone(p)
    BY Moves DEF Finish, Goto, KeptInv, RecordInv
  <1>2. NoRequest.user = None /\ NoRequest.op = "none" /\ ~NoRequest.last
    BY DEF NoRequest
  <1>3. Served(p)' /\ KeptKnown(p)'
    BY <1>1, <1>2 DEF Served, KeptKnown
  <1> QED
    BY <1>1, <1>3, QuietKept

LEMMA RollbackKept ==
  ASSUME KeptInv, RecordInv', NEW p \in Procs, Rollback(p)
  PROVE  KeptInv'
  BY FinishKept DEF Rollback, tables

\* A request that goes on, before its transaction has deleted anything.
LEMMA SameKept ==
  ASSUME KeptInv, RecordInv', NEW p \in Procs, NEW l, NEW r, Goto(p, l),
         req' = [req EXCEPT ![p] = r], UNCHANGED <<skin, assoc, file>>,
         l \notin {"countRefs", "commitDrop", "deleteFile"},
         r.op = req[p].op, r.user = req[p].user,
         r.op = "create" \/ r.skin = req[p].skin,
         r.dropped = req[p].dropped, r.last = req[p].last
  PROVE  KeptInv'
  <1>1. pc'[p] = l /\ req'[p] = r /\ Alone(p)
    BY Moves DEF Goto, KeptInv, RecordInv
  <1>2. Served(p)' /\ KeptKnown(p)'
    BY <1>1 DEF KeptInv, Served, KeptKnown, Live
  <1> QED
    BY <1>1, <1>2, QuietKept

LEMMA ArriveKept ==
  ASSUME NoGifts, KeptInv, RecordInv', NEW p \in Procs, Arrive(p)
  PROVE  KeptInv'
  <1>1. Alone(p)
    BY StepAlone DEF KeptInv, RecordInv
  <1>2. ASSUME NEW u \in Users, NEW r, r.user = u, r.op \in {"create", "update", "delete", "recalculate"},
               req' = [req EXCEPT ![p] = r], pc'[p] \in {"lockQuota", "readSkin"},
               <<r.op, u>> \in Work[p], ~r.last,
               r.op = "delete" => r.skin \in Ids /\ Associated(u, r.skin),
               UNCHANGED <<skin, assoc>>,
               \A s \in Ids : Live(s) /\ file'[s] = "deleted" => file[s] = "deleted"
        PROVE  KeptInv'
    <2>1. req'[p] = r
      BY <1>2 DEF KeptInv, RecordInv, Inv, TypeOK
    <2>2. r.op = "delete" => Live(r.skin) /\ skin[r.skin].owner = u
      BY <1>2 DEF KeptInv, OnlyNormal, RecordInv, NormalOnlyByOwner, Associated
    <2>3. Served(p)' /\ KeptKnown(p)'
      BY <1>2, <2>1, <2>2 DEF Served, KeptKnown, Live
    <2> QED
      BY <1>1, <1>2, <2>3, QuietKept
  <1>3. ASSUME NEW u \in Users, NEW f \in Ids, NEW h \in Hashes, NEW v \in Vis,
               Upload(p, u, f, h, v)
        PROVE  KeptInv'
    <2> DEFINE r == [NoRequest EXCEPT
                       !.op = "create", !.user = u, !.file = f, !.hash = h, !.vis = v]
    <2>1. r.user = u /\ r.op = "create" /\ ~r.last
      BY DEF NoRequest
    <2>2. /\ req' = [req EXCEPT ![p] = r] /\ pc'[p] = "lockQuota"
          /\ <<"create", u>> \in Work[p] /\ UNCHANGED <<skin, assoc>>
          /\ \A s \in Ids : file'[s] = "deleted" => file[s] = "deleted"
      BY <1>3 DEF Upload, Receive, Goto, tables, KeptInv, RecordInv, Inv, TypeOK
    <2> HIDE DEF r
    <2> QED
      BY <1>2, <2>1, <2>2
  <1>4. ASSUME NEW u \in Users, NEW s \in Ids, NEW op \in {"update", "delete"},
               pc' = [pc EXCEPT ![p] = "readSkin"], Receive(p, op, u), Associated(u, s),
               req' = [req EXCEPT ![p] = [NoRequest EXCEPT !.op = op, !.user = u, !.skin = s]],
               UNCHANGED <<skin, assoc, file>>
        PROVE  KeptInv'
    <2> DEFINE r == [NoRequest EXCEPT !.op = op, !.user = u, !.skin = s]
    <2>1. r.user = u /\ r.op = op /\ ~r.last /\ r.skin = s
      BY DEF NoRequest
    <2>2. req' = [req EXCEPT ![p] = r] /\ pc'[p] = "readSkin" /\ <<op, u>> \in Work[p]
      BY <1>4 DEF Receive, KeptInv, RecordInv, Inv, TypeOK
    <2> HIDE DEF r
    <2> QED
      BY <1>2, <1>4, <2>1, <2>2
  <1>5. ASSUME NEW u \in Users, NEW s \in Ids, StartUpdate(p, u, s) \/ StartDelete(p, u, s)
        PROVE  KeptInv'
    BY <1>4, <1>5 DEF StartUpdate, StartDelete, Goto, tables
  <1>6. ASSUME NEW u \in Users, NEW s \in Ids, StartGift(p, u, s) \/ StartRevoke(p, u, s)
        PROVE  KeptInv'
    BY <1>6 DEF StartGift, StartRevoke, Receive, NoGifts, KeptInv, OnlyNormal
  <1>7. ASSUME NEW u \in Users, StartRecalculate(p, u)
        PROVE  KeptInv'
    <2> DEFINE r == [NoRequest EXCEPT !.op = "recalculate", !.user = u]
    <2>1. r.user = u /\ r.op = "recalculate" /\ ~r.last
      BY DEF NoRequest
    <2>2. /\ req' = [req EXCEPT ![p] = r] /\ pc'[p] = "lockQuota"
          /\ <<"recalculate", u>> \in Work[p] /\ UNCHANGED <<skin, assoc, file>>
      BY <1>7 DEF StartRecalculate, Receive, Goto, tables, KeptInv, RecordInv, Inv, TypeOK
    <2> HIDE DEF r
    <2> QED
      BY <1>2, <2>1, <2>2
  <1> QED
    BY <1>3, <1>5, <1>6, <1>7 DEF Arrive

LEMMA QuotaKept ==
  ASSUME KeptInv, RecordInv', NEW p \in Procs, QuotaStep(p)
  PROVE  KeptInv'
  <1>1. ASSUME NEW q, pc[p] \in {"lockQuota", "insertQuota"}, Acquire(p, q)
        PROVE  KeptInv'
    <2> DEFINE r == [req[p] EXCEPT !.seen = q]
               l == AfterLock[req[p].op]
    <2>1. req[p] \in Requests /\ Shape(req[p], pc[p])
      BY KnownRequest DEF KeptInv, RecordInv
    <2>2. l \notin {"countRefs", "commitDrop", "deleteFile"}
      BY <1>1, <2>1 DEF AfterLock, Shape, Ops
    <2>3. req' = [req EXCEPT ![p] = r] /\ Goto(p, l) /\ UNCHANGED <<skin, assoc, file>>
      BY <1>1 DEF Acquire, tables, KeptInv, RecordInv, Inv, TypeOK
    <2>4. /\ r.op = req[p].op /\ r.user = req[p].user /\ r.skin = req[p].skin
          /\ r.dropped = req[p].dropped /\ r.last = req[p].last
      BY <2>1 DEF Requests
    <2> HIDE DEF r, l
    <2> QED
      BY <2>2, <2>3, <2>4, SameKept
  <1>2. CASE QuotaMissing(p)
    <2>1. req' = [req EXCEPT ![p] = req[p]]
      BY <1>2 DEF QuotaMissing, KeptInv, RecordInv, Inv, TypeOK
    <2> QED
      BY <1>2, <2>1, SameKept DEF QuotaMissing, tables
  <1> QED
    BY <1>1, <1>2, RollbackKept
    DEF QuotaStep, LockQuota, InsertQuota, QuotaRefused, InsertQuotaFails, At

\* The upload's transaction has committed; records and associations are as new.
LEMMA CommitCreateKept ==
  ASSUME KeptInv, RecordInv', NEW p \in Procs, CommitCreate(p), OwnersKept(p),
         OnlyNormal', OwnerHolds', LiveFileKept'
  PROVE  KeptInv'
  <1> DEFINE r == [NoRequest EXCEPT !.op = "create", !.file = req[p].file]
  <1>1. r.op = "create" /\ r.user = None /\ ~r.last
    BY DEF NoRequest
  <1>2. req' = [req EXCEPT ![p] = r] /\ pc' = [pc EXCEPT ![p] = "verifyFile"]
    BY DEF CommitCreate, Goto
  <1> HIDE DEF r
  <1>3. req'[p] = r /\ Alone(p)
    BY <1>2, Moves DEF KeptInv, RecordInv
  <1>4. Served(p)' /\ KeptKnown(p)'
    BY <1>1, <1>3 DEF Served, KeptKnown
  <1> QED
    BY <1>3, <1>4, StepKept

LEMMA CreateKept ==
  ASSUME KeptInv, RecordInv', NEW p \in Procs, CreateStep(p)
  PROVE  KeptInv'
  <1> DEFINE c == req[p]
  <1>1. c \in Requests /\ Shape(c, pc[p]) /\ RecordKnown(p)
    BY KnownRequest DEF KeptInv, RecordInv
  <1>2. CASE HashUnknown(p) \/ AssocMissing(p)
    <2>1. req' = [req EXCEPT ![p] = c]
      BY <1>2 DEF HashUnknown, AssocMissing, KeptInv, RecordInv, Inv, TypeOK
    <2> QED
      BY <1>2, <2>1, SameKept DEF HashUnknown, AssocMissing, tables
  <1>3. CASE HashOfOwn(p)
    <2>1. PICK s \in WithHash(c.hash) : req' = [req EXCEPT ![p].skin = s]
      BY <1>3 DEF HashOfOwn
    <2> DEFINE r == [c EXCEPT !.skin = s]
    <2>2. req' = [req EXCEPT ![p] = r] /\ pc[p] = "lookupHash"
      BY <1>3, <2>1 DEF HashOfOwn, At, KeptInv, RecordInv, Inv, TypeOK
    <2>3. /\ r.op = c.op /\ r.op = "create" /\ r.user = c.user
          /\ r.dropped = c.dropped /\ r.last = c.last
      BY <1>1, <2>2 DEF Requests, Shape
    <2> HIDE DEF r
    <2> QED
      BY <1>3, <2>2, <2>3, SameKept DEF HashOfOwn, tables
  <1>4. CASE AssocFound(p)
    <2>1. UNCHANGED <<skin, assoc, file>> /\ CommitCreate(p)
      BY <1>4 DEF AssocFound, CommitCreate
    <2>2. OwnersKept(p) /\ OnlyNormal' /\ OwnerHolds' /\ LiveFileKept'
      BY <2>1 DEF KeptInv, OwnersKept, OnlyNormal, OwnerHolds, LiveFileKept, Live
    <2> QED
      BY <2>1, <2>2, CommitCreateKept
  <1>5. CASE InsertAssoc(p)
    <2>1. /\ pc[p] = "insertAssoc" /\ CommitCreate(p) /\ UNCHANGED <<skin, file>>
          /\ Live(c.skin) /\ assoc' = [assoc EXCEPT ![c.user][c.skin] = "normal"]
      BY <1>5 DEF InsertAssoc, CommitCreate, At
    <2>2. c.user \in Users /\ c.skin \in Ids
      BY <1>1, <2>1 DEF Shape
    <2>3. \A u \in Users, s \in Ids :
            assoc'[u][s] = IF u = c.user /\ s = c.skin THEN "normal" ELSE assoc[u][s]
      BY <2>1, <2>2 DEF KeptInv, RecordInv, Inv, TypeOK
    <2>4. \A s \in Ids : Live(s) => skin[s].owner \in Users \cup {None}
      BY DEF KeptInv, RecordInv, Inv, TypeOK, Live, Records
    <2>5. OwnersKept(p) /\ OnlyNormal' /\ OwnerHolds' /\ LiveFileKept'
      BY <2>1, <2>3, <2>4 DEF KeptInv, OwnersKept, OnlyNormal, OwnerHolds, LiveFileKept, Live
    <2> QED
      BY <2>1, <2>5, CommitCreateKept
  <1>6. CASE InsertSkin(p)
    <2> DEFINE f == c.file
               new == [owner |-> c.user, hash |-> c.hash, vis |-> c.vis]
    <2>1. /\ pc[p] = "insertSkin" /\ CommitCreate(p) /\ UNCHANGED file
          /\ skin' = [skin EXCEPT ![f] = new]
          /\ assoc' = [assoc EXCEPT ![c.user][f] = "normal"]
      BY <1>6 DEF InsertSkin, CommitCreate, At
    <2>2. c.user \in Users /\ f \in Ids /\ Uploading(p) /\ new.owner = c.user
      BY <1>1, <2>1 DEF Shape, Uploading
    <2>3. file[f] = "cached" /\ skin[f] = None
      BY <2>2 DEF KeptInv, RecordInv, Fresh, Untouched
    <2> HIDE DEF new
    <2>4. \A s \in Ids : skin'[s] = IF s = f THEN new ELSE skin[s]
      BY <2>1, <2>2 DEF KeptInv, RecordInv, Inv, TypeOK
    <2>5. \A u \in Users, s \in Ids :
            assoc'[u][s] = IF u = c.user /\ s = f THEN "normal" ELSE assoc[u][s]
      BY <2>1, <2>2 DEF KeptInv, RecordInv, Inv, TypeOK
    <2>6. OwnersKept(p)
      BY <2>2, <2>4 DEF OwnersKept, Live
    <2>7. \A s \in Ids : Live(s) => skin[s].owner \in Users \cup {None}
      BY DEF KeptInv, RecordInv, Inv, TypeOK, Live, Records
    <2>8. OnlyNormal' /\ LiveFileKept'
      BY <2>1, <2>3, <2>4, <2>5 DEF KeptInv, OnlyNormal, LiveFileKept, Live
    <2>9. OwnerHolds'
      BY <2>2, <2>4, <2>5, <2>7 DEF KeptInv, OwnerHolds, Live
    <2> QED
      BY <2>1, <2>6, <2>8, <2>9, CommitCreateKept
  <1>7. CASE VerifyFile(p)
    <2>1. /\ pc[p] = "verifyFile" /\ Finish(p) /\ UNCHANGED <<skin, assoc>>
          /\ file' = [file EXCEPT ![c.file] = IF @ = "cached" THEN "permanent" ELSE @]
      BY <1>7 DEF VerifyFile, At, tables
    <2>2. \A s \in Ids : file'[s] = "deleted" => file[s] = "deleted"
      BY <2>1 DEF KeptInv, RecordInv, Inv, TypeOK
    <2> QED
      BY <2>1, <2>2, FinishKept
  <1> QED
    BY <1>2, <1>3, <1>4, <1>5, <1>6, <1>7, RollbackKept
    DEF CreateStep, HashOfOther, InsertAssocFails, InsertSkinFails

LEMMA UpdateKept ==
  ASSUME KeptInv, RecordInv', NEW p \in Procs, UpdateStep(p)
  PROVE  KeptInv'
  <1> DEFINE c == req[p]
  <1>1. c \in Requests /\ Shape(c, pc[p])
    BY KnownRequest DEF KeptInv, RecordInv
  <1>2. ASSUME NEW v \in Vis, ReadSkinForUpdate(p, v) PROVE KeptInv'
    <2> DEFINE r == [c EXCEPT !.vis = v, !.old = skin[c.skin].vis]
    <2>1. req' = [req EXCEPT ![p] = r]
      BY <1>2 DEF ReadSkinForUpdate, KeptInv, RecordInv, Inv, TypeOK
    <2>2. /\ r.op = c.op /\ r.user = c.user /\ r.skin = c.skin
          /\ r.dropped = c.dropped /\ r.last = c.last
      BY <1>1 DEF Requests
    <2> HIDE DEF r
    <2> QED
      BY <1>2, <2>1, <2>2, SameKept DEF ReadSkinForUpdate, tables
  <1>3. CASE CheckAssocForUpdate(p)
    <2>1. req' = [req EXCEPT ![p] = c]
      BY <1>3 DEF CheckAssocForUpdate, KeptInv, RecordInv, Inv, TypeOK
    <2>2. PICK l \in {"updateSkin", "lockQuota"} : Goto(p, l)
      BY <1>3 DEF CheckAssocForUpdate
    <2> QED
      BY <1>3, <2>1, <2>2, SameKept DEF CheckAssocForUpdate, tables
  <1>4. CASE UpdateSkin(p)
    <2>1. /\ pc[p] = "updateSkin" /\ Finish(p) /\ UNCHANGED <<assoc, file>>
          /\ Live(c.skin) /\ skin' = [skin EXCEPT ![c.skin].vis = c.vis]
      BY <1>4 DEF UpdateSkin, At
    <2>2. pc'[p] = "idle" /\ req'[p] = NoRequest /\ Alone(p)
      BY <2>1, Moves DEF Finish, Goto, KeptInv, RecordInv
    <2>3. NoRequest.user = None /\ NoRequest.op = "none" /\ ~NoRequest.last
      BY DEF NoRequest
    <2>4. Served(p)' /\ KeptKnown(p)'
      BY <2>2, <2>3 DEF Served, KeptKnown
    <2>5. \A s \in Ids : Live(s)' => Live(s) /\ skin'[s].owner = skin[s].owner
      <3>1. skin[c.skin] \in Records /\ skin'[c.skin] = [skin[c.skin] EXCEPT !.vis = c.vis]
        BY <2>1 DEF Live, KeptInv, RecordInv, Inv, TypeOK
      <3>2. skin'[c.skin].owner = skin[c.skin].owner
        BY <3>1 DEF Records
      <3>3. \A s \in Ids \ {c.skin} : skin'[s] = skin[s]
        BY <2>1 DEF KeptInv, RecordInv, Inv, TypeOK
      <3> QED
        BY <2>1, <3>2, <3>3 DEF Live
    <2>6. OwnersKept(p) /\ OnlyNormal' /\ OwnerHolds' /\ LiveFileKept'
      BY <2>1, <2>5 DEF KeptInv, OwnersKept, OnlyNormal, OwnerHolds, LiveFileKept
    <2> QED
      BY <2>2, <2>4, <2>6, StepKept
  <1> QED
    BY <1>2, <1>3, <1>4, RollbackKept DEF UpdateStep, UpdateRefused, UpdateDenied, UpdateSkinFails

\* A deletion takes the record along, if it is still there.
LEMMA DropKept ==
  ASSUME KeptInv, NEW p \in Procs, CommitDrop(p)
  PROVE  LET c == req[p] IN
         /\ c.user \in Users /\ c.skin \in Ids
         /\ c.last => Live(c.skin) /\ assoc[c.user][c.skin] = "normal"
         /\ ~c.last => ~Live(c.skin)
         /\ \A s \in Ids : skin'[s] = IF c.last /\ s = c.skin THEN None ELSE skin[s]
         /\ \A u \in Users, s \in Ids :
              assoc'[u][s] = IF c.last /\ u = c.user /\ s = c.skin THEN "none" ELSE assoc[u][s]
  <1> DEFINE c == req[p]
  <1>1. c \in Requests /\ Shape(c, pc[p]) /\ RecordKnown(p) /\ KeptKnown(p) /\ pc[p] = "commitDrop"
    BY KnownRequest DEF KeptInv, RecordInv, CommitDrop, At
  <1>2. c.user \in Users /\ c.skin \in Ids /\ c.op = "delete"
    BY <1>1 DEF Shape, KeptKnown
  <1>3. c.dropped => Live(c.skin) /\ assoc[c.user][c.skin] = "normal"
    BY <1>1, <1>2 DEF RecordKnown, KeptInv, OnlyNormal, RecordInv, AssocLive, Associated
  <1>4. (Live(c.skin) => c.last) /\ (c.last => c.dropped)
    BY <1>1, <1>2 DEF KeptKnown
  <1>5. CASE c.last
    <2>1. /\ skin' = [skin EXCEPT ![c.skin] = None]
          /\ assoc' = [u \in Users |-> [assoc[u] EXCEPT ![c.skin] = "none"]]
      BY <1>5 DEF CommitDrop, RemoveRecord
    <2>2. \A u \in Users : u # c.user => assoc[u][c.skin] = "none"
      BY <1>2, <1>3, <1>4, <1>5 DEF KeptInv, OnlyNormal, RecordInv, NormalOnlyByOwner
    <2> QED
      BY <1>2, <1>3, <1>4, <1>5, <2>1, <2>2 DEF KeptInv, RecordInv, Inv, TypeOK
  <1>6. CASE ~c.last
    <2>1. skin' = skin /\ assoc' = assoc
      BY <1>3, <1>4, <1>6 DEF CommitDrop, RemoveAssoc
    <2> QED
      BY <1>2, <1>4, <1>6, <2>1
  <1> QED
    BY <1>5, <1>6

LEMMA DeleteKept ==
  ASSUME KeptInv, RecordInv', NEW p \in Procs, DeleteStep(p)
  PROVE  KeptInv'
  <1> DEFINE c == req[p]
  <1>1. c \in Requests /\ Shape(c, pc[p]) /\ RecordKnown(p) /\ KeptKnown(p) /\ Served(p)
    BY KnownRequest DEF KeptInv, RecordInv
  <1>2. CASE ReadSkinForDelete(p)
    <2>1. req' = [req EXCEPT ![p] = c]
      BY <1>2 DEF ReadSkinForDelete, KeptInv, RecordInv, Inv, TypeOK
    <2> QED
      BY <1>2, <2>1, SameKept DEF ReadSkinForDelete, tables
  <1>3. CASE CheckAssocForDelete(p)
    <2>1. req' = [req EXCEPT ![p] = c]
      BY <1>3 DEF CheckAssocForDelete, KeptInv, RecordInv, Inv, TypeOK
    <2>2. PICK l \in {"readOwnSkin", "dropAssoc"} : Goto(p, l)
      BY <1>3 DEF CheckAssocForDelete
    <2> QED
      BY <1>3, <2>1, <2>2, SameKept DEF CheckAssocForDelete, tables
  <1>4. CASE ReadOwnSkin(p)
    <2> DEFINE r == [c EXCEPT !.old = skin[c.skin].vis]
    <2>1. req' = [req EXCEPT ![p] = r]
      BY <1>4 DEF ReadOwnSkin, KeptInv, RecordInv, Inv, TypeOK
    <2>2. /\ r.op = c.op /\ r.user = c.user /\ r.skin = c.skin
          /\ r.dropped = c.dropped /\ r.last = c.last
      BY <1>1 DEF Requests
    <2> HIDE DEF r
    <2> QED
      BY <1>4, <2>1, <2>2, SameKept DEF ReadOwnSkin, tables
  <1>5. CASE DropAssoc(p)
    <2> DEFINE r == [c EXCEPT !.dropped = Associated(c.user, c.skin)]
    <2>1. /\ pc[p] = "dropAssoc" /\ pc' = [pc EXCEPT ![p] = "countRefs"]
          /\ UNCHANGED <<skin, assoc, file>> /\ req' = [req EXCEPT ![p] = r]
      BY <1>5 DEF DropAssoc, At, Goto, tables, KeptInv, RecordInv, Inv, TypeOK
    <2>2. /\ r.op = c.op /\ r.user = c.user /\ r.skin = c.skin
          /\ r.dropped = Associated(c.user, c.skin) /\ r.last = c.last
      BY <1>1 DEF Requests
    <2> HIDE DEF r
    <2>3. pc'[p] = "countRefs" /\ req'[p] = r /\ Alone(p)
      BY <2>1, Moves DEF KeptInv, RecordInv
    <2>4. c.op = "delete" /\ c.user \in Users /\ c.skin \in Ids /\ ~c.last
      BY <1>1, <2>1 DEF Shape, KeptKnown, RecordKnown
    <2>5. Live(c.skin) => Associated(c.user, c.skin)
      BY <1>1, <2>4, NoneAssumption DEF KeptKnown, KeptInv, OwnerHolds, Associated
    <2>6. Served(p)' /\ KeptKnown(p)'
      BY <1>1, <2>1, <2>2, <2>3, <2>4, <2>5 DEF Served, KeptKnown, Live
    <2> QED
      BY <2>1, <2>3, <2>6, QuietKept
  <1>6. CASE CountRefs(p)
    <2> DEFINE last == References(c) = {} /\ Live(c.skin) /\ skin[c.skin].owner = c.user
               r == [c EXCEPT !.last = last]
    <2>1. /\ pc[p] = "countRefs" /\ pc' = [pc EXCEPT ![p] = "commitDrop"]
          /\ UNCHANGED <<skin, assoc, file>> /\ req' = [req EXCEPT ![p] = r]
      BY <1>6 DEF CountRefs, At, Goto, tables, KeptInv, RecordInv, Inv, TypeOK
    <2>2. /\ r.op = c.op /\ r.user = c.user /\ r.skin = c.skin
          /\ r.dropped = c.dropped /\ r.last = last
      BY <1>1 DEF Requests
    <2>3. c.op = "delete" /\ c.user \in Users /\ c.skin \in Ids
      BY <1>1, <2>1 DEF Shape, KeptKnown
    <2>4. Live(c.skin) => skin[c.skin].owner = c.user /\ c.dropped
      BY <1>1, <2>1, <2>3 DEF KeptKnown
    <2>5. Live(c.skin) => References(c) = {}
      BY <2>3, <2>4 DEF References, Associated, KeptInv, OnlyNormal, RecordInv, NormalOnlyByOwner
    <2>6. (Live(c.skin) => last) /\ (last => c.dropped)
      BY <2>4, <2>5
    <2> HIDE DEF r, last
    <2>7. pc'[p] = "commitDrop" /\ req'[p] = r /\ Alone(p)
      BY <2>1, Moves DEF KeptInv, RecordInv
    <2>8. Served(p)' /\ KeptKnown(p)'
      BY <1>1, <2>1, <2>2, <2>3, <2>4, <2>6, <2>7 DEF Served, KeptKnown, Live
    <2> QED
      BY <2>1, <2>7, <2>8, QuietKept
  <1>7. CASE CommitDelete(p)
    <2> DEFINE r == [NoRequest EXCEPT !.op = "delete", !.skin = c.skin]
    <2>1. /\ CommitDrop(p) /\ UNCHANGED file
          /\ pc' = [pc EXCEPT ![p] = "deleteFile"] /\ req' = [req EXCEPT ![p] = r]
      BY <1>7 DEF CommitDelete, CommitDrop, Goto
    <2>2. r.op = "delete" /\ r.user = None /\ r.skin = c.skin /\ ~r.last
      BY DEF NoRequest
    <2> HIDE DEF r
    <2>3. pc'[p] = "deleteFile" /\ req'[p] = r /\ Alone(p)
      BY <2>1, Moves DEF KeptInv, RecordInv
    <2>4. /\ c.skin \in Ids
          /\ ~c.last => ~Live(c.skin)
          /\ \A s \in Ids : skin'[s] = IF c.last /\ s = c.skin THEN None ELSE skin[s]
          /\ \A u \in Users, s \in Ids :
               assoc'[u][s] = IF c.last /\ u = c.user /\ s = c.skin THEN "none" ELSE assoc[u][s]
      BY <2>1, DropKept
    <2>5. Served(p)' /\ KeptKnown(p)'
      BY <2>2, <2>3, <2>4 DEF Served, KeptKnown, Live
    <2>6. OwnersKept(p) /\ OnlyNormal' /\ LiveFileKept'
      BY <2>1, <2>4 DEF KeptInv, OwnersKept, OnlyNormal, LiveFileKept, Live
    <2>7. \A s \in Ids : Live(s) => skin[s].owner \in Users \cup {None}
      BY DEF KeptInv, RecordInv, Inv, TypeOK, Live, Records
    <2>8. OwnerHolds'
      BY <2>4, <2>7 DEF KeptInv, OwnerHolds, Live
    <2> QED
      BY <2>3, <2>5, <2>6, <2>8, StepKept
  <1>8. CASE CommitRevoke(p)
    BY <1>1, <1>8 DEF CommitRevoke, KeptKnown
  <1>9. CASE DeleteFile(p)
    <2>1. /\ pc[p] = "deleteFile" /\ Finish(p) /\ UNCHANGED <<skin, assoc>>
          /\ file' = [file EXCEPT ![c.skin] = "deleted"]
      BY <1>9 DEF DeleteFile, At, tables
    <2>2. ~Live(c.skin)
      BY <1>1, <2>1 DEF Shape, KeptKnown
    <2>3. \A s \in Ids : Live(s) /\ file'[s] = "deleted" => file[s] = "deleted"
      BY <2>1, <2>2 DEF KeptInv, RecordInv, Inv, TypeOK
    <2> QED
      BY <2>1, <2>3, FinishKept
  <1> QED
    BY <1>2, <1>3, <1>4, <1>5, <1>6, <1>7, <1>8, <1>9, RollbackKept
    DEF DeleteStep, DeleteRefused, DeleteDenied, OwnSkinGone

LEMMA AdminKept ==
  ASSUME KeptInv, RecordInv', NEW p \in Procs, AdminStep(p)
  PROVE  KeptInv'
  <1> DEFINE c == req[p]
  <1>1. c \in Requests /\ Shape(c, pc[p]) /\ KeptKnown(p)
    BY KnownRequest DEF KeptInv, RecordInv
  <1>2. pc[p] \notin {"checkGift", "insertGift"}
    BY <1>1 DEF Shape, KeptKnown
  <1>3. CASE CountPublic(p)
    <2> DEFINE r == [c EXCEPT !.seen["public"] = Cardinality(Counted(c.user, "public"))]
    <2>1. req' = [req EXCEPT ![p] = r]
      BY <1>3 DEF CountPublic, KeptInv, RecordInv, Inv, TypeOK
    <2>2. /\ r.op = c.op /\ r.user = c.user /\ r.skin = c.skin
          /\ r.dropped = c.dropped /\ r.last = c.last
      BY <1>1 DEF Requests
    <2> HIDE DEF r
    <2> QED
      BY <1>3, <2>1, <2>2, SameKept DEF CountPublic, tables
  <1>4. CASE CountPrivate(p)
    BY <1>4, FinishKept DEF CountPrivate
  <1> QED
    BY <1>2, <1>3, <1>4 DEF AdminStep, CheckGift, GiftDenied, InsertGift, InsertGiftFails, At

LEMMA InitKept == Init => KeptInv
  <1> SUFFICES ASSUME Init PROVE KeptInv
    OBVIOUS
  <1>1. RecordInv
    BY InitRecord
  <1>2. OnlyNormal /\ LiveFileKept
    BY DEF Init, OnlyNormal, LiveFileKept
  <1>3. OwnerHolds
    BY <1>1 DEF Init, OwnerHolds, Live, RecordInv, BuiltInKept
  <1>4. NoRequest.user = None /\ NoRequest.op = "none" /\ ~NoRequest.last
    BY DEF NoRequest
  <1>5. \A p \in Procs : Served(p) /\ KeptKnown(p)
    BY <1>4 DEF Init, Served, KeptKnown
  <1> QED
    BY <1>1, <1>2, <1>3, <1>5 DEF KeptInv

LEMMA NextKept ==
  ASSUME NoGifts, KeptInv, [Next]_vars
  PROVE  KeptInv'
  <1>1. RecordInv'
    BY NextRecord DEF KeptInv
  <1>2. ASSUME UNCHANGED <<skin, assoc, file, pc, req>> PROVE KeptInv'
    BY <1>1, <1>2 DEF KeptInv, OnlyNormal, OwnerHolds, LiveFileKept, Served, KeptKnown, Live
  <1>3. ASSUME NEW p \in Procs, Step(p) PROVE KeptInv'
    BY <1>1, <1>3, QuotaKept, CreateKept, UpdateKept, DeleteKept, AdminKept DEF Step
  <1>4. ASSUME NEW p \in Procs, CutOff(p) PROVE KeptInv'
    BY <1>1, <1>4, RollbackKept DEF CutOff
  <1> QED
    BY <1>1, <1>2, <1>3, <1>4, ArriveKept DEF Next, GetQuota, vars

\* KeptInv holds in every reachable state when no slot may gift.
THEOREM KeptInvariance == ASSUME NoGifts PROVE Spec => []KeptInv
  <1>1. KeptInv /\ [Next]_vars => KeptInv'
    BY NextKept
  <1> QED
    BY <1>1, InitKept, PTL DEF Spec

\* The uploader of a record holds it as normal until the record is deleted: no
\* upload is orphaned by a deletion, whatever else runs or is cut off.
THEOREM OwnersHold == ASSUME NoGifts PROVE Spec => []OwnerHolds
  <1>1. KeptInv => OwnerHolds
    BY DEF KeptInv
  <1> QED
    BY <1>1, KeptInvariance, PTL

\* No live record loses its file to a deletion.
THEOREM LiveFilesStay == ASSUME NoGifts PROVE Spec => []LiveFileKept
  <1>1. KeptInv => LiveFileKept
    BY DEF KeptInv
  <1> QED
    BY <1>1, KeptInvariance, PTL
=============================================================================
