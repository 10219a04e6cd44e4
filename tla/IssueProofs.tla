---------------------------- MODULE IssueProofs ----------------------------
(***************************************************************************)
(* Proofs about Issue, for every set of issues, types, files and slots.    *)
(*                                                                         *)
(* The invariant comes in layers, each of which uses the first: TypeInv    *)
(* says what a slot knows at its step, FileInv ties the rows of the        *)
(* attachments to their files, BoundInv counts the attachments with those  *)
(* under way, and StatusInv is about one slot that changes statuses.       *)
(***************************************************************************)
EXTENDS Issue, FiniteSetTheorems, TLAPS

\* The steps that have an issue, those that have one that is in the database,
\* and those that have a file.
IssueSteps == Statements \ {"idle", "saveType"}
LiveSteps == IssueSteps \ {"insertIssue"}
FileSteps == {"insertAttachment", "verify", "deleteAttachment", "deleteFile"}

\* What slot p knows at its step.
Knows(p) ==
  /\ pc[p] \in IssueSteps => req[p].issue \in Issues
  /\ pc[p] \in LiveSteps => Live(req[p].issue)
  /\ pc[p] \in FileSteps => req[p].file \in Files
  /\ pc[p] = "insertIssue" => req[p].type \in Types
  /\ pc[p] = "fill" => req[p].row \in Rows
  /\ pc[p] = "updateStatus" => req[p].status \in Statuses

TypeInv ==
  /\ TypeOK
  /\ \A p \in Procs : Knows(p)
  /\ \A f \in Files : attachment[f] # None => Live(attachment[f])

LEMMA NoRequestTyped == NoRequest \in Requests
  BY DEF NoRequest, Requests

LEMMA InitType == Init => TypeInv
  BY NoRequestTyped
  DEF Init, TypeInv, TypeOK, Knows, Statements, FileStates, IssueSteps, LiveSteps, FileSteps

\* What slot p does when it goes on.
LEMMA GoesOn ==
  ASSUME TypeInv, NEW p \in Procs, NEW l \in Statements, NEW r \in Requests, Goes(p, l, r)
  PROVE  /\ pc' \in [Procs -> Statements] /\ req' \in [Procs -> Requests]
         /\ pc'[p] = l /\ req'[p] = r
         /\ \A q \in Procs \ {p} : pc'[q] = pc[q] /\ req'[q] = req[q]
  BY DEF Goes, TypeInv, TypeOK

\* A step of slot p; no issue goes away.
LEMMA StepKeeps ==
  ASSUME TypeInv, NEW p \in Procs, NEW l \in Statements, NEW r \in Requests, Goes(p, l, r),
         issue' \in [Issues -> Rows \cup {None}],
         type' \in [Types -> {"unused", "enabled", "disabled", "deleted"}],
         attachment' \in [Files -> Issues \cup {None}], file' \in [Files -> FileStates],
         cache' \in [Issues -> Entries \cup {None}], mails' \subseteq Issues \X Statuses,
         been' \in [Issues -> SUBSET Statuses],
         \A i \in Issues : issue[i] # None => issue'[i] # None,
         \A f \in Files : attachment'[f] = attachment[f] \/ attachment'[f] = None
                               \/ issue'[attachment'[f]] # None,
         l \in IssueSteps => r.issue \in Issues,
         l \in LiveSteps => issue'[r.issue] # None,
         l \in FileSteps => r.file \in Files,
         l = "insertIssue" => r.type \in Types, l = "fill" => r.row \in Rows,
         l = "updateStatus" => r.status \in Statuses
  PROVE  TypeInv'
  <1>1. /\ pc' \in [Procs -> Statements] /\ req' \in [Procs -> Requests]
        /\ pc'[p] = l /\ req'[p] = r
        /\ \A q \in Procs \ {p} : pc'[q] = pc[q] /\ req'[q] = req[q]
    BY GoesOn
  <1>2. TypeOK'
    BY <1>1 DEF TypeInv, TypeOK
  <1>3. Knows(p)'
    BY <1>1 DEF Knows, Live
  <1>4. ASSUME NEW q \in Procs \ {p} PROVE Knows(q)'
    <2>1. pc'[q] = pc[q] /\ req'[q] = req[q] /\ Knows(q)
      BY <1>1 DEF TypeInv
    <2>2. pc[q] \in LiveSteps => req[q].issue \in Issues /\ issue[req[q].issue] # None
      BY <2>1 DEF Knows, Live, LiveSteps
    <2> QED
      BY <2>1, <2>2 DEF Knows, Live
  <1>5. ASSUME NEW f \in Files, attachment'[f] # None PROVE issue'[attachment'[f]] # None
    <2>1. attachment[f] # None => issue[attachment[f]] # None /\ attachment[f] \in Issues
      BY DEF TypeInv, TypeOK, Live
    <2> QED
      BY <1>5, <2>1 DEF Live
  <1> QED
    BY <1>2, <1>3, <1>4, <1>5 DEF TypeInv, Live

LEMMA EndsKeeps ==
  ASSUME TypeInv, NEW p \in Procs, Ends(p), UNCHANGED <<issue, mails, been>>,
         type' \in [Types -> {"unused", "enabled", "disabled", "deleted"}],
         attachment' = attachment, file' \in [Files -> FileStates],
         cache' \in [Issues -> Entries \cup {None}]
  PROVE  TypeInv'
  BY NoRequestTyped, StepKeeps
  DEF Ends, TypeInv, TypeOK, Statements, IssueSteps, LiveSteps, FileSteps

\* A step that changes the requests only.
LEMMA ReadKeeps ==
  ASSUME TypeInv, NEW p \in Procs, NEW l \in Statements, NEW r \in Requests, Goes(p, l, r),
         UNCHANGED <<issue, type, attachment, file, cache, mails, been>>,
         l \in IssueSteps => r.issue \in Issues,
         l \in LiveSteps => issue[r.issue] # None,
         l \in FileSteps => r.file \in Files,
         l = "insertIssue" => r.type \in Types, l = "fill" => r.row \in Rows,
         l = "updateStatus" => r.status \in Statuses
  PROVE  TypeInv'
  BY StepKeeps DEF TypeInv, TypeOK

\* The request of a slot.
LEMMA Request ==
  ASSUME TypeInv, NEW p \in Procs
  PROVE  /\ req[p] \in Requests
         /\ pc[p] \in IssueSteps => req[p].issue \in Issues
         /\ pc[p] \in LiveSteps => issue[req[p].issue] # None /\ issue[req[p].issue] \in Rows
         /\ pc[p] \in FileSteps => req[p].file \in Files
  BY DEF TypeInv, TypeOK, Knows, Live, LiveSteps

-----------------------------------------------------------------------------
(* Requests that arrive. *)

LEMMA ArriveType ==
  ASSUME TypeInv, NEW p \in Procs, ArriveUser(p) \/ ArriveAdmin(p)
  PROVE  TypeInv'
  <1>1. ASSUME NEW i \in Issues, CacheMiss(p, i) PROVE TypeInv'
    <2> DEFINE r == [NoRequest EXCEPT !.issue = i]
    <2>1. r \in Requests /\ r.issue = i
      BY DEF NoRequest, Requests
    <2>2. /\ Goes(p, "readIssue", r) /\ issue[i] # None
          /\ UNCHANGED <<issue, type, attachment, file, cache, mails, been>>
      BY <1>1 DEF CacheMiss, Live
    <2> HIDE DEF r
    <2> QED
      BY <2>1, <2>2, ReadKeeps DEF Statements, FileSteps
  <1>2. ASSUME NEW i \in Issues, StartReply(p, i) PROVE TypeInv'
    <2> DEFINE r == [NoRequest EXCEPT !.issue = i]
    <2>1. r \in Requests /\ r.issue = i
      BY DEF NoRequest, Requests
    <2>2. /\ Goes(p, "insertReply", r) /\ issue[i] # None
          /\ UNCHANGED <<issue, type, attachment, file, cache, mails, been>>
      BY <1>2 DEF StartReply, Live
    <2> HIDE DEF r
    <2> QED
      BY <2>1, <2>2, ReadKeeps DEF Statements, FileSteps
  <1>3. ASSUME NEW i \in Issues, StartAttach(p, i) PROVE TypeInv'
    <2> DEFINE r == [NoRequest EXCEPT !.issue = i]
    <2>1. r \in Requests /\ r.issue = i
      BY DEF NoRequest, Requests
    <2>2. /\ Goes(p, "upload", r) /\ issue[i] # None
          /\ UNCHANGED <<issue, type, attachment, file, cache, mails, been>>
      BY <1>3 DEF StartAttach, Live
    <2> HIDE DEF r
    <2> QED
      BY <2>1, <2>2, ReadKeeps DEF Statements, FileSteps
  <1>4. ASSUME NEW i \in Issues, NEW t \in Types, StartCreate(p, i, t) PROVE TypeInv'
    <2> DEFINE r == [NoRequest EXCEPT !.issue = i, !.type = t]
    <2>1. r \in Requests /\ r.issue = i /\ r.type = t
      BY DEF NoRequest, Requests
    <2>2. /\ Goes(p, "insertIssue", r)
          /\ UNCHANGED <<issue, type, attachment, file, cache, mails, been>>
      BY <1>4 DEF StartCreate
    <2> HIDE DEF r
    <2> QED
      BY <2>1, <2>2, ReadKeeps DEF Statements, FileSteps, LiveSteps
  <1>5. ASSUME NEW f \in Files, StartDetach(p, f) PROVE TypeInv'
    <2> DEFINE i == attachment[f]
               r == [NoRequest EXCEPT !.issue = i, !.file = f]
    <2>1. i \in Issues /\ issue[i] # None
      BY <1>5 DEF StartDetach, TypeInv, TypeOK, Live
    <2>2. r \in Requests /\ r.issue = i /\ r.file = f
      BY <2>1 DEF NoRequest, Requests
    <2>3. /\ Goes(p, "deleteAttachment", r)
          /\ UNCHANGED <<issue, type, attachment, file, cache, mails, been>>
      BY <1>5 DEF StartDetach
    <2> HIDE DEF i, r
    <2> QED
      BY <2>1, <2>2, <2>3, ReadKeeps DEF Statements
  <1>6. ASSUME NEW i \in Issues, NEW s \in Statuses, StartStatus(p, i, s) PROVE TypeInv'
    <2> DEFINE r == [NoRequest EXCEPT !.issue = i, !.row = issue[i], !.status = s]
    <2>1. issue[i] # None
      BY <1>6 DEF StartStatus, Live
    <2>2. r \in Requests /\ r.issue = i /\ r.status = s
      BY <2>1 DEF NoRequest, Requests, TypeInv, TypeOK
    <2>3. /\ Goes(p, "updateStatus", r)
          /\ UNCHANGED <<issue, type, attachment, file, cache, mails, been>>
      BY <1>6 DEF StartStatus
    <2> HIDE DEF r
    <2> QED
      BY <2>1, <2>2, <2>3, ReadKeeps DEF Statements, FileSteps
  <1>7. ASSUME NEW i \in Issues, StartEdit(p, i) PROVE TypeInv'
    <2> DEFINE r == [NoRequest EXCEPT !.issue = i, !.row = issue[i]]
    <2>1. issue[i] # None
      BY <1>7 DEF StartEdit, Live
    <2>2. r \in Requests /\ r.issue = i
      BY <2>1 DEF NoRequest, Requests, TypeInv, TypeOK
    <2>3. /\ Goes(p, "updateColumn", r)
          /\ UNCHANGED <<issue, type, attachment, file, cache, mails, been>>
      BY <1>7 DEF StartEdit
    <2> HIDE DEF r
    <2> QED
      BY <2>1, <2>2, <2>3, ReadKeeps DEF Statements, FileSteps
  <1>8. ASSUME NEW i \in Issues, NEW t \in Types \cup {None}, StartInfo(p, i, t) PROVE TypeInv'
    <2> DEFINE r == [NoRequest EXCEPT !.issue = i, !.type = t]
    <2>1. r \in Requests /\ r.issue = i
      BY DEF NoRequest, Requests
    <2>2. /\ Goes(p, "updateInfo", r) /\ issue[i] # None
          /\ UNCHANGED <<issue, type, attachment, file, cache, mails, been>>
      BY <1>8 DEF StartInfo, Live
    <2> HIDE DEF r
    <2> QED
      BY <2>1, <2>2, ReadKeeps DEF Statements, FileSteps
  <1>9. ASSUME NEW t \in Types, NEW e \in {"unused", "enabled", "disabled"}, StartEditType(p, t, e)
        PROVE  TypeInv'
    <2> DEFINE x == IF e = "unused" THEN type[t] ELSE e
               r == [NoRequest EXCEPT !.type = t, !.save = x]
    <2>1. x \in {"unused", "enabled", "disabled"}
      BY <1>9 DEF StartEditType, Exists
    <2>2. /\ Goes(p, "saveType", r)
          /\ UNCHANGED <<issue, type, attachment, file, cache, mails, been>>
      BY <1>9 DEF StartEditType
    <2> HIDE DEF x
    <2>3. r \in Requests
      BY <2>1 DEF NoRequest, Requests
    <2> HIDE DEF r
    <2> QED
      BY <2>2, <2>3, ReadKeeps DEF Statements, IssueSteps, LiveSteps, FileSteps
  <1> QED
    BY <1>1, <1>2, <1>3, <1>4, <1>5, <1>6, <1>7, <1>8, <1>9 DEF ArriveUser, ArriveAdmin

-----------------------------------------------------------------------------
(* Steps of requests. *)

\* An UPDATE of issue i keeps the others.
LEMMA UpdateTyped ==
  ASSUME TypeInv, NEW i \in Issues, NEW r \in Rows, Update(i, r), issue[i] # None
  PROVE  /\ issue' \in [Issues -> Rows \cup {None}]
         /\ issue'[i] \in Rows /\ issue'[i].status = r.status /\ issue'[i].closed = r.closed
         /\ \A j \in Issues \ {i} : issue'[j] = issue[j]
         /\ \A j \in Issues : issue[j] # None => issue'[j] # None
         /\ been' \in [Issues -> SUBSET Statuses] /\ been'[i] = been[i] \cup {r.status}
         /\ \A j \in Issues \ {i} : been'[j] = been[j]
  <1>1. PICK x \in Texts : issue' = [issue EXCEPT ![i] = [r EXCEPT !.text = x]]
    BY DEF Update
  <1> DEFINE w == [r EXCEPT !.text = x]
  <1>2. w \in Rows /\ w.status = r.status /\ w.closed = r.closed
    BY DEF Rows
  <1>3. issue' = [issue EXCEPT ![i] = w]
    BY <1>1
  <1> HIDE DEF w
  <1>4. issue' \in [Issues -> Rows \cup {None}] /\ issue'[i] = w
        /\ \A j \in Issues \ {i} : issue'[j] = issue[j]
    BY <1>2, <1>3 DEF TypeInv, TypeOK
  <1>5. been' = [been EXCEPT ![i] = been[i] \cup {r.status}] /\ r.status \in Statuses
    BY DEF Update, Rows
  <1>6. /\ been' \in [Issues -> SUBSET Statuses] /\ been'[i] = been[i] \cup {r.status}
        /\ \A j \in Issues \ {i} : been'[j] = been[j]
    BY <1>5 DEF TypeInv, TypeOK
  <1> QED
    BY <1>2, <1>4, <1>6, RowAssumption

LEMMA InsertIssueType ==
  ASSUME TypeInv, NEW p \in Procs, NEW x \in Texts, InsertIssue(p, x)
  PROVE  TypeInv'
  <1> DEFINE i == req[p].issue
             row == [type |-> req[p].type, status |-> "registered", closed |-> FALSE, text |-> x]
             r == [NoRequest EXCEPT !.issue = i, !.row = row]
  <1>1. /\ pc[p] = "insertIssue" /\ issue' = [issue EXCEPT ![i] = row] /\ Goes(p, "fill", r)
        /\ been' = [been EXCEPT ![i] = been[i] \cup {row.status}]
        /\ UNCHANGED <<type, attachment, file, cache, mails>>
    BY DEF InsertIssue, At
  <1>2. i \in Issues /\ req[p].type \in Types
    BY <1>1 DEF TypeInv, Knows, IssueSteps, Statements
  <1>3. row \in Rows /\ row.status \in Statuses
    BY <1>2 DEF Rows, Statuses
  <1> HIDE DEF row
  <1>4. r \in Requests /\ r.issue = i /\ r.row = row
    BY <1>2, <1>3 DEF NoRequest, Requests
  <1> HIDE DEF r
  <1>5. issue' \in [Issues -> Rows \cup {None}] /\ issue'[i] = row
        /\ \A j \in Issues \ {i} : issue'[j] = issue[j]
    BY <1>1, <1>2, <1>3 DEF TypeInv, TypeOK
  <1>6. \A j \in Issues : issue[j] # None => issue'[j] # None
    BY <1>3, <1>5, RowAssumption
  <1>7. been' \in [Issues -> SUBSET Statuses]
    BY <1>1, <1>2, <1>3 DEF TypeInv, TypeOK
  <1> QED
    BY <1>1, <1>2, <1>3, <1>4, <1>5, <1>6, <1>7, RowAssumption, StepKeeps
    DEF TypeInv, TypeOK, Statements, FileSteps

LEMMA CacheType ==
  ASSUME TypeInv, NEW p \in Procs, ReadIssue(p) \/ Fill(p) \/ Invalidate(p)
  PROVE  TypeInv'
  <1>1. CASE ReadIssue(p)
    <2> DEFINE r == [req[p] EXCEPT !.row = issue[req[p].issue]]
    <2>1. /\ pc[p] = "readIssue" /\ Goes(p, "fill", r)
          /\ UNCHANGED <<issue, type, attachment, file, cache, mails, been>>
      BY <1>1 DEF ReadIssue, At
    <2>2. /\ req[p] \in Requests /\ req[p].issue \in Issues
          /\ issue[req[p].issue] # None /\ issue[req[p].issue] \in Rows
      BY <2>1, Request DEF IssueSteps, LiveSteps, Statements
    <2>3. r \in Requests /\ r.issue = req[p].issue /\ r.row \in Rows
      BY <2>2 DEF Requests
    <2> HIDE DEF r
    <2> QED
      BY <2>1, <2>2, <2>3, ReadKeeps DEF Statements, FileSteps
  <1>2. CASE Fill(p)
    <2> DEFINE e == [row |-> req[p].row, ttl |-> TRUE]
    <2>1. /\ pc[p] = "fill" /\ cache' = [cache EXCEPT ![req[p].issue] = e] /\ Ends(p)
          /\ UNCHANGED <<issue, type, attachment, file, mails, been>>
      BY <1>2 DEF Fill, Put, At
    <2>2. e \in Entries
      BY <2>1 DEF Entries, TypeInv, Knows
    <2> HIDE DEF e
    <2> QED
      BY <2>1, <2>2, EndsKeeps DEF TypeInv, TypeOK
  <1>3. CASE Invalidate(p)
    BY <1>3, EndsKeeps DEF Invalidate, TypeInv, TypeOK
  <1> QED
    BY <1>1, <1>2, <1>3

\* A change of the issue, after which the cached copy is deleted.
LEMMA UpdateType ==
  ASSUME TypeInv, NEW p \in Procs, pc[p] \in LiveSteps, NEW i \in Issues, req[p].issue = i,
         NEW r \in Rows, Update(i, r), mails' \subseteq Issues \X Statuses,
         Goes(p, "invalidate", req[p]), UNCHANGED <<type, attachment, file, cache>>
  PROVE  TypeInv'
  <1>1. req[p] \in Requests /\ issue[i] # None
    BY Request
  <1>2. /\ issue' \in [Issues -> Rows \cup {None}] /\ been' \in [Issues -> SUBSET Statuses]
        /\ \A j \in Issues : issue[j] # None => issue'[j] # None
    BY <1>1, UpdateTyped
  <1>3. "invalidate" \in Statements /\ "invalidate" \notin FileSteps
    BY DEF Statements, FileSteps
  <1> QED
    BY <1>1, <1>2, <1>3, StepKeeps DEF TypeInv, TypeOK

LEMMA ChangeType ==
  ASSUME TypeInv, NEW p \in Procs,
         InsertReply(p) \/ UpdateStatus(p) \/ UpdateColumn(p) \/ UpdateInfo(p)
  PROVE  TypeInv'
  <1>1. PICK i : i = req[p].issue
    OBVIOUS
  <1>2. pc[p] \in {"insertReply", "updateStatus", "updateColumn", "updateInfo"}
    BY DEF InsertReply, UpdateStatus, UpdateColumn, UpdateInfo, At
  <1>3. pc[p] \in LiveSteps
    BY <1>2 DEF LiveSteps, IssueSteps, Statements
  <1>4. i \in Issues /\ issue[i] \in Rows /\ req[p] \in Requests
    BY <1>1, <1>3, Request DEF LiveSteps
  <1>5. CASE InsertReply(p) \/ UpdateColumn(p)
    <2>1. /\ Update(i, issue[i]) /\ Goes(p, "invalidate", req[p])
          /\ UNCHANGED <<type, attachment, file, cache, mails>>
      BY <1>1, <1>5 DEF InsertReply, UpdateColumn
    <2> QED
      BY <1>1, <1>3, <1>4, <2>1, UpdateType DEF TypeInv, TypeOK
  <1>6. CASE UpdateStatus(p)
    <2> DEFINE s == req[p].status
               b == Stamped(issue[i], s)
               r == [issue[i] EXCEPT !.status = s, !.closed = b]
    <2>1. /\ Update(i, r) /\ mails' = mails \cup {<<i, s>>} /\ Goes(p, "invalidate", req[p])
          /\ UNCHANGED <<type, attachment, file, cache>>
      BY <1>1, <1>6 DEF UpdateStatus, Notify
    <2>2. s \in Statuses
      BY <1>6 DEF UpdateStatus, At, TypeInv, Knows
    <2>3. b \in BOOLEAN
      BY <1>4 DEF Stamped, Rows
    <2>4. r \in Rows
      BY <1>4, <2>2, <2>3 DEF Rows
    <2> HIDE DEF r
    <2> QED
      BY <1>1, <1>3, <1>4, <2>1, <2>2, <2>4, UpdateType DEF TypeInv, TypeOK
  <1>7. CASE UpdateInfo(p)
    <2> DEFINE t == req[p].type
               u == IF t = None THEN issue[i].type ELSE t
               r == [issue[i] EXCEPT !.type = u]
    <2>1. /\ Update(i, r) /\ Goes(p, "invalidate", req[p])
          /\ UNCHANGED <<type, attachment, file, cache, mails>>
      BY <1>1, <1>7 DEF UpdateInfo
    <2>2. u \in Types
      BY <1>4 DEF Rows, Requests
    <2>3. r \in Rows
      BY <1>4, <2>2 DEF Rows
    <2> HIDE DEF r
    <2> QED
      BY <1>1, <1>3, <1>4, <2>1, <2>3, UpdateType DEF TypeInv, TypeOK
  <1> QED
    BY <1>5, <1>6, <1>7

LEMMA FilesType ==
  ASSUME TypeInv, NEW p \in Procs,
         \/ \E f \in Files : Upload(p, f)
         \/ InsertAttachment(p) \/ Verify(p) \/ DeleteAttachment(p) \/ DeleteFile(p)
  PROVE  TypeInv'
  <1>1. pc[p] \in {"upload", "insertAttachment", "verify", "deleteAttachment", "deleteFile"}
    BY DEF Upload, InsertAttachment, Verify, DeleteAttachment, DeleteFile, At
  <1>2. /\ req[p] \in Requests /\ req[p].issue \in Issues /\ issue[req[p].issue] # None
        /\ pc[p] # "upload" => req[p].file \in Files
    BY <1>1, Request DEF LiveSteps, IssueSteps, FileSteps, Statements
  <1>3. ASSUME NEW f \in Files, Upload(p, f) PROVE TypeInv'
    <2> DEFINE r == [req[p] EXCEPT !.file = f]
    <2>1. r \in Requests /\ r.issue = req[p].issue /\ r.file = f
      BY <1>2 DEF Requests
    <2>2. /\ Goes(p, "insertAttachment", r) /\ file' \in [Files -> FileStates]
          /\ UNCHANGED <<issue, type, attachment, cache, mails, been>>
      BY <1>3 DEF Upload, TypeInv, TypeOK, FileStates
    <2> HIDE DEF r
    <2> QED
      BY <1>2, <2>1, <2>2, StepKeeps DEF Statements, TypeInv, TypeOK
  <1>4. CASE InsertAttachment(p)
    <2>1. PICK i, f : i = req[p].issue /\ f = req[p].file
      OBVIOUS
    <2>2. /\ pc[p] = "insertAttachment" /\ attachment' = [attachment EXCEPT ![f] = i]
          /\ Goes(p, "verify", req[p]) /\ UNCHANGED <<issue, type, file, cache, mails, been>>
      BY <1>4, <2>1 DEF InsertAttachment, At
    <2>3. attachment' \in [Files -> Issues \cup {None}]
          /\ \A g \in Files : attachment'[g] = attachment[g] \/ attachment'[g] = i
      BY <1>2, <2>1, <2>2 DEF TypeInv, TypeOK
    <2>4. Live(i)'
      BY <1>2, <2>1, <2>2 DEF Live
    <2>5. \A g \in Files : attachment'[g] = attachment[g] \/ issue'[attachment'[g]] # None
      BY <2>3, <2>4 DEF Live
    <2> QED
      BY <1>2, <2>2, <2>3, <2>5, StepKeeps DEF Statements, TypeInv, TypeOK
  <1>5. CASE Verify(p)
    BY <1>5, EndsKeeps DEF Verify, TypeInv, TypeOK, FileStates
  <1>6. CASE DeleteAttachment(p)
    <2>1. /\ pc[p] = "deleteAttachment" /\ attachment' = [attachment EXCEPT ![req[p].file] = None]
          /\ Goes(p, "deleteFile", req[p]) /\ UNCHANGED <<issue, type, file, cache, mails, been>>
      BY <1>6 DEF DeleteAttachment, At
    <2>2. attachment' \in [Files -> Issues \cup {None}]
          /\ \A g \in Files : attachment'[g] = attachment[g] \/ attachment'[g] = None
      BY <2>1 DEF TypeInv, TypeOK
    <2> QED
      BY <1>2, <2>1, <2>2, StepKeeps DEF Statements, TypeInv, TypeOK
  <1>7. CASE DeleteFile(p)
    <2>1. /\ file' \in [Files -> FileStates] /\ Goes(p, "invalidate", req[p])
          /\ UNCHANGED <<issue, type, attachment, cache, mails, been>>
      BY <1>7 DEF DeleteFile, TypeInv, TypeOK, FileStates
    <2> QED
      BY <1>2, <2>1, StepKeeps DEF Statements, FileSteps, TypeInv, TypeOK
  <1> QED
    BY <1>3, <1>4, <1>5, <1>6, <1>7

LEMMA NextType == TypeInv /\ [Next]_vars => TypeInv'
  <1> SUFFICES ASSUME TypeInv, [Next]_vars PROVE TypeInv'
    OBVIOUS
  <1>1. ASSUME NEW p \in Procs, InsertIssueFails(p) \/ UpdateInfoFails(p) \/ CutOff(p) PROVE TypeInv'
    BY <1>1, EndsKeeps DEF InsertIssueFails, UpdateInfoFails, CutOff, TypeInv, TypeOK
  <1>2. ASSUME NEW p \in Procs, SaveType(p) PROVE TypeInv'
    <2> DEFINE x == IF Exists(req[p].type) THEN req[p].save ELSE "enabled"
    <2>1. x \in {"unused", "enabled", "disabled"}
      BY Request DEF Requests
    <2>2. type' = [type EXCEPT ![req[p].type] = x]
      BY <1>2 DEF SaveType
    <2> HIDE DEF x
    <2> QED
      BY <1>2, <2>1, <2>2, EndsKeeps DEF SaveType, TypeInv, TypeOK
  <1>3. ASSUME UNCHANGED <<issue, attachment, file, mails, been, pc, req>>,
               type' \in [Types -> {"unused", "enabled", "disabled", "deleted"}],
               cache' \in [Issues -> Entries \cup {None}]
        PROVE  TypeInv'
    BY <1>3 DEF TypeInv, TypeOK, Knows, Live
  <1>4. ASSUME NEW i \in Issues, Expire(i) PROVE TypeInv'
    BY <1>3, <1>4 DEF Expire, TypeInv, TypeOK
  <1>5. ASSUME NEW t \in Types, CreateType(t) \/ DeleteType(t) PROVE TypeInv'
    BY <1>3, <1>5 DEF CreateType, DeleteType, TypeInv, TypeOK
  <1>6. CASE UNCHANGED vars
    BY <1>3, <1>6 DEF vars, TypeInv, TypeOK
  <1> QED
    BY <1>1, <1>2, <1>4, <1>5, <1>6, ArriveType, InsertIssueType, CacheType, ChangeType, FilesType
    DEF Next, Step

LEMMA TypeInvariance == Spec => []TypeInv
  BY InitType, NextType, PTL DEF Spec

\* Every variable has its type.
THEOREM TypeCorrect == Spec => []TypeOK
  <1>1. TypeInv => TypeOK
    BY DEF TypeInv
  <1> QED
    BY <1>1, TypeInvariance, PTL
-----------------------------------------------------------------------------
(* Attachments and their files. *)

\* A slot that has uploaded a file is the only one that knows it; whoever is
\* about to delete a file has deleted its row.
FileKnows(p) ==
  LET f == req[p].file IN
  /\ pc[p] \in FileSteps => file[f] # "unused"
  /\ pc[p] = "insertAttachment" =>
       /\ file[f] = "cached" /\ attachment[f] = None
       /\ \A q \in Procs \ {p} : pc[q] \in FileSteps => req[q].file # f
  /\ pc[p] = "deleteFile" => attachment[f] = None

\* The slots that will make a row for f or delete it.
Minding(f) == {p \in Procs : pc[p] \in {"insertAttachment", "deleteFile"} /\ req[p].file = f}

FileInv ==
  /\ \A p \in Procs : FileKnows(p)
  /\ \A f \in Files :
       /\ attachment[f] # None => file[f] \in {"cached", "permanent"}
       /\ ~Faults /\ attachment[f] = None /\ file[f] \in {"cached", "permanent"} => Minding(f) # {}

LEMMA FileInit == Init => FileInv
  BY DEF Init, FileInv, FileKnows, FileSteps

\* What a slot does elsewhere.
Elsewhere(p) ==
  /\ pc'[p] \notin FileSteps
  /\ pc'[p] # "upload" \/ \E i \in Issues : StartAttach(p, i)
  /\ Faults \/ pc[p] \notin {"insertAttachment", "deleteFile"}

\* The steps that have nothing to do with files or their rows.
LEMMA OtherSteps ==
  ASSUME TypeInv, [Next]_vars
  PROVE  \/ /\ UNCHANGED <<attachment, file>>
            /\ \A p \in Procs : (pc'[p] = pc[p] /\ req'[p] = req[p]) \/ Elsewhere(p)
         \/ \E p \in Procs :
              \/ \E f \in Files : Upload(p, f) \/ StartDetach(p, f)
              \/ InsertAttachment(p) \/ Verify(p) \/ DeleteAttachment(p) \/ DeleteFile(p)
  <1> DEFINE Other == /\ UNCHANGED <<attachment, file>>
                      /\ \A p \in Procs : (pc'[p] = pc[p] /\ req'[p] = req[p]) \/ Elsewhere(p)
  <1>1. ASSUME NEW p \in Procs, NEW l, NEW r, Goes(p, l, r), l \notin FileSteps,
               l # "upload" \/ \E i \in Issues : StartAttach(p, i),
               Faults \/ pc[p] \notin {"insertAttachment", "deleteFile"},
               UNCHANGED <<attachment, file>>
        PROVE  Other
    BY <1>1 DEF Goes, Elsewhere, TypeInv, TypeOK
  <1> HIDE DEF Other
  <1>2. ASSUME NEW p \in Procs, ArriveAdmin(p) PROVE Other
    <2>1. ASSUME NEW i \in Issues, NEW s \in Statuses, StartStatus(p, i, s) PROVE Other
      BY <1>1, <2>1 DEF StartStatus, Receive, At, FileSteps
    <2>2. ASSUME NEW i \in Issues, StartEdit(p, i) PROVE Other
      BY <1>1, <2>2 DEF StartEdit, Receive, At, FileSteps
    <2>3. ASSUME NEW i \in Issues, NEW t \in Types \cup {None}, StartInfo(p, i, t) PROVE Other
      BY <1>1, <2>3 DEF StartInfo, Receive, At, FileSteps
    <2>4. ASSUME NEW t \in Types, NEW e \in {"unused", "enabled", "disabled"}, StartEditType(p, t, e)
          PROVE  Other
      BY <1>1, <2>4 DEF StartEditType, Receive, At, FileSteps
    <2> QED
      BY <1>2, <2>1, <2>2, <2>3, <2>4 DEF ArriveAdmin
  <1>3. ASSUME NEW p \in Procs, ArriveUser(p), \A f \in Files : ~StartDetach(p, f) PROVE Other
    <2>1. ASSUME NEW i \in Issues, CacheMiss(p, i) PROVE Other
      BY <1>1, <2>1 DEF CacheMiss, Receive, At, FileSteps
    <2>2. ASSUME NEW i \in Issues, StartReply(p, i) PROVE Other
      BY <1>1, <2>2 DEF StartReply, Receive, At, FileSteps
    <2>3. ASSUME NEW i \in Issues, StartAttach(p, i) PROVE Other
      BY <1>1, <2>3 DEF StartAttach, Receive, At, FileSteps
    <2>4. ASSUME NEW i \in Issues, NEW t \in Types, StartCreate(p, i, t) PROVE Other
      BY <1>1, <2>4 DEF StartCreate, Receive, At, FileSteps
    <2> QED
      BY <1>3, <2>1, <2>2, <2>3, <2>4 DEF ArriveUser
  <1>4. ASSUME NEW p \in Procs, NEW x \in Texts, InsertIssue(p, x) PROVE Other
    BY <1>1, <1>4 DEF InsertIssue, At, FileSteps
  <1>5. ASSUME NEW p \in Procs, InsertIssueFails(p) \/ Fill(p) \/ Invalidate(p) \/ UpdateInfoFails(p)
                 \/ SaveType(p)
        PROVE  Other
    BY <1>1, <1>5 DEF InsertIssueFails, Fill, Invalidate, UpdateInfoFails, SaveType, Ends, At,
       FileSteps
  <1>6. ASSUME NEW p \in Procs, ReadIssue(p) \/ InsertReply(p) \/ UpdateStatus(p) \/ UpdateColumn(p)
                 \/ UpdateInfo(p)
        PROVE  Other
    BY <1>1, <1>6 DEF ReadIssue, InsertReply, UpdateStatus, UpdateColumn, UpdateInfo, At, FileSteps
  <1>7. ASSUME NEW p \in Procs, CutOff(p) PROVE Other
    BY <1>1, <1>7 DEF CutOff, Ends, FileSteps
  <1>8. ASSUME UNCHANGED <<attachment, file, pc, req>> PROVE Other
    BY <1>8 DEF Other
  <1>9. ASSUME \/ \E i \in Issues : Expire(i)
               \/ \E t \in Types : CreateType(t) \/ DeleteType(t)
               \/ UNCHANGED vars
        PROVE  Other
    BY <1>8, <1>9 DEF Expire, CreateType, DeleteType, vars
  <1>10. CASE Other
    BY <1>10 DEF Other
  <1> QED
    BY <1>2, <1>3, <1>4, <1>5, <1>6, <1>7, <1>9, <1>10 DEF Next, Step, ArriveUser

\* A step of slot p there that leaves the file of another slot alone.
LEMMA FileStep ==
  ASSUME TypeInv, FileInv, NEW p \in Procs, NEW l \in Statements, NEW r \in Requests, Goes(p, l, r),
         NEW f \in Files,
         \A g \in Files \ {f} : attachment'[g] = attachment[g] /\ file'[g] = file[g],
         l \in FileSteps => r.file = f,
         pc[p] \in {"insertAttachment", "deleteFile"} => req[p].file = f,
         FileKnows(p)',
         \A q \in Procs \ {p} : pc[q] \in FileSteps /\ req[q].file = f => FileKnows(q)',
         attachment'[f] # None => file'[f] \in {"cached", "permanent"},
         ~Faults /\ attachment'[f] = None /\ file'[f] \in {"cached", "permanent"} => Minding(f)' # {}
  PROVE  FileInv'
  <1>1. /\ pc'[p] = l /\ req'[p] = r
        /\ \A q \in Procs \ {p} : pc'[q] = pc[q] /\ req'[q] = req[q]
    BY GoesOn
  <1>2. ASSUME NEW q \in Procs PROVE FileKnows(q)'
    <2>1. CASE q = p
      BY <2>1
    <2>2. CASE q # p /\ pc[q] \in FileSteps /\ req[q].file = f
      BY <2>2
    <2>3. CASE q # p /\ pc[q] \in FileSteps /\ req[q].file # f
      <3>1. req[q].file \in Files \ {f}
        BY <2>3, Request
      <3>2. pc'[q] = pc[q] /\ req'[q] = req[q] /\ FileKnows(q)
        BY <1>1, <2>3 DEF FileInv
      <3>3. attachment'[req[q].file] = attachment[req[q].file] /\ file'[req[q].file] = file[req[q].file]
        BY <3>1
      <3>4. \A z \in Procs \ {q} : pc'[z] \in FileSteps => req'[z].file # req[q].file
              \/ pc[q] # "insertAttachment"
        BY <1>1, <2>3, <3>2 DEF FileKnows
      <3> QED
        BY <3>2, <3>3, <3>4 DEF FileKnows
    <2>4. CASE q # p /\ pc[q] \notin FileSteps
      BY <1>1, <2>4 DEF FileKnows, FileSteps
    <2> QED
      BY <2>1, <2>2, <2>3, <2>4
  <1>3. ASSUME NEW g \in Files
        PROVE  /\ attachment'[g] # None => file'[g] \in {"cached", "permanent"}
               /\ ~Faults /\ attachment'[g] = None /\ file'[g] \in {"cached", "permanent"}
                    => Minding(g)' # {}
    <2>1. CASE g = f
      BY <2>1 DEF Minding
    <2>2. CASE g # f
      <3>1. \A q \in Minding(g) : q \in Minding(g)'
        BY <1>1, <2>2 DEF Minding
      <3> QED
        BY <2>2, <3>1 DEF FileInv
    <2> QED
      BY <2>1, <2>2
  <1> QED
    BY <1>2, <1>3 DEF FileInv
\* A file that is uploaded is new, so no slot knows it.
LEMMA UploadFile ==
  ASSUME TypeInv, FileInv, NEW p \in Procs, NEW f \in Files, Upload(p, f)
  PROVE  FileInv'
  <1> DEFINE r == [req[p] EXCEPT !.file = f]
  <1>1. /\ pc[p] = "upload" /\ file[f] = "unused" /\ file' = [file EXCEPT ![f] = "cached"]
        /\ Goes(p, "insertAttachment", r) /\ attachment' = attachment
        /\ "insertAttachment" \in Statements
    BY DEF Upload, At, Statements
  <1>2. r \in Requests /\ r.file = f
    BY Request DEF Requests
  <1> HIDE DEF r
  <1>3. /\ pc'[p] = "insertAttachment" /\ req'[p] = r
        /\ \A q \in Procs \ {p} : pc'[q] = pc[q] /\ req'[q] = req[q]
    BY <1>1, <1>2, GoesOn
  <1>4. attachment[f] = None /\ \A q \in Procs : pc[q] \in FileSteps => req[q].file # f
    BY <1>1 DEF FileInv, FileKnows
  <1>5. file'[f] = "cached" /\ \A g \in Files \ {f} : file'[g] = file[g]
    BY <1>1 DEF TypeInv, TypeOK
  <1>6. FileKnows(p)' /\ p \in Minding(f)'
    BY <1>1, <1>2, <1>3, <1>4, <1>5 DEF FileKnows, Minding
  <1> QED
    BY <1>1, <1>2, <1>4, <1>5, <1>6, FileStep

\* Whoever deletes an attachment has seen its row, so nobody is about to make it.
LEMMA DetachFile ==
  ASSUME TypeInv, FileInv, NEW p \in Procs, NEW f \in Files, StartDetach(p, f)
  PROVE  FileInv'
  <1> DEFINE r == [NoRequest EXCEPT !.issue = attachment[f], !.file = f]
  <1>1. /\ pc[p] = "idle" /\ attachment[f] # None /\ Goes(p, "deleteAttachment", r)
        /\ UNCHANGED <<attachment, file>> /\ "deleteAttachment" \in Statements
    BY DEF StartDetach, Receive, At, Statements
  <1>2. r \in Requests /\ r.file = f
    BY <1>1 DEF NoRequest, Requests, TypeInv, TypeOK
  <1> HIDE DEF r
  <1>3. /\ pc'[p] = "deleteAttachment" /\ req'[p] = r
        /\ \A q \in Procs \ {p} : pc'[q] = pc[q] /\ req'[q] = req[q]
    BY <1>1, <1>2, GoesOn
  <1>4. file[f] \in {"cached", "permanent"}
        /\ \A q \in Procs : pc[q] \in {"insertAttachment", "deleteFile"} => req[q].file # f
    BY <1>1 DEF FileInv, FileKnows
  <1>5. FileKnows(p)'
    BY <1>1, <1>2, <1>3, <1>4 DEF FileKnows
  <1>6. \A q \in Procs \ {p} : pc[q] \in FileSteps /\ req[q].file = f => FileKnows(q)'
    BY <1>1, <1>3, <1>4 DEF FileKnows, FileInv
  <1> QED
    BY <1>1, <1>2, <1>4, <1>5, <1>6, FileStep

\* While a slot works on a file at another step, none is about to make its row.
LEMMA NobodyInserts ==
  ASSUME TypeInv, FileInv, NEW p \in Procs, pc[p] \in FileSteps, NEW q \in Procs \ {p},
         pc[q] \in FileSteps, req[q].file = req[p].file
  PROVE  pc[q] # "insertAttachment" /\ pc[p] # "insertAttachment"
  BY DEF FileInv, FileKnows

LEMMA RowFile ==
  ASSUME TypeInv, FileInv, NEW p \in Procs, InsertAttachment(p) \/ DeleteAttachment(p)
  PROVE  FileInv'
  <1>1. PICK f : f = req[p].file
    OBVIOUS
  <1>2. pc[p] \in {"insertAttachment", "deleteAttachment"} /\ pc[p] \in FileSteps /\ file' = file
    BY DEF InsertAttachment, DeleteAttachment, At, FileSteps
  <1>3. f \in Files /\ req[p] \in Requests /\ req[p].issue \in Issues /\ file[f] # "unused"
    BY <1>1, <1>2, Request DEF FileInv, FileKnows, IssueSteps, Statements
  <1>4. CASE InsertAttachment(p)
    <2>1. /\ pc[p] = "insertAttachment" /\ attachment' = [attachment EXCEPT ![f] = req[p].issue]
          /\ Goes(p, "verify", req[p]) /\ "verify" \in Statements
      BY <1>1, <1>4 DEF InsertAttachment, At, Statements
    <2>2. attachment'[f] # None /\ \A g \in Files \ {f} : attachment'[g] = attachment[g]
      BY <1>3, <2>1, NoneAssumption DEF TypeInv, TypeOK
    <2>3. file'[f] = "cached"
      BY <1>1, <1>2, <2>1 DEF FileInv, FileKnows
    <2>4. pc'[p] = "verify" /\ req'[p] = req[p]
      BY <1>3, <2>1, GoesOn
    <2>5. FileKnows(p)'
      BY <1>1, <2>3, <2>4 DEF FileKnows
    <2>6. \A q \in Procs \ {p} : pc[q] \in FileSteps => req[q].file # f
      BY <1>1, <2>1 DEF FileInv, FileKnows
    <2> QED
      BY <1>1, <1>2, <1>3, <2>1, <2>2, <2>3, <2>5, <2>6, FileStep
  <1>5. CASE DeleteAttachment(p)
    <2>1. /\ pc[p] = "deleteAttachment" /\ attachment' = [attachment EXCEPT ![f] = None]
          /\ Goes(p, "deleteFile", req[p]) /\ "deleteFile" \in Statements
      BY <1>1, <1>5 DEF DeleteAttachment, At, Statements
    <2>2. attachment'[f] = None /\ \A g \in Files \ {f} : attachment'[g] = attachment[g]
      BY <1>3, <2>1 DEF TypeInv, TypeOK
    <2>3. /\ pc'[p] = "deleteFile" /\ req'[p] = req[p]
          /\ \A q \in Procs \ {p} : pc'[q] = pc[q] /\ req'[q] = req[q]
      BY <1>3, <2>1, GoesOn
    <2>4. FileKnows(p)' /\ p \in Minding(f)'
      BY <1>1, <1>2, <1>3, <2>2, <2>3 DEF FileKnows, Minding
    <2>5. ASSUME NEW q \in Procs \ {p}, pc[q] \in FileSteps, req[q].file = f PROVE FileKnows(q)'
      <3>1. pc[q] # "insertAttachment"
        BY <1>1, <1>2, <2>5, NobodyInserts
      <3> QED
        BY <1>2, <1>3, <2>2, <2>3, <2>5, <3>1 DEF FileKnows
    <2> QED
      BY <1>1, <1>2, <1>3, <2>1, <2>2, <2>4, <2>5, FileStep
  <1> QED
    BY <1>4, <1>5

\* The bucket changes the state of a file.
LEMMA BucketFile ==
  ASSUME TypeInv, FileInv, NEW p \in Procs, Verify(p) \/ DeleteFile(p)
  PROVE  FileInv'
  <1>1. PICK f : f = req[p].file
    OBVIOUS
  <1>2. pc[p] \in {"verify", "deleteFile"} /\ pc[p] \in FileSteps /\ attachment' = attachment
    BY DEF Verify, DeleteFile, At, FileSteps
  <1>3. f \in Files /\ req[p] \in Requests /\ file[f] # "unused"
    BY <1>1, <1>2, Request DEF FileInv, FileKnows
  <1>4. PICK l \in {"idle", "invalidate"}, r \in Requests : Goes(p, l, r)
    BY <1>3, NoRequestTyped DEF Verify, DeleteFile, Ends
  <1>5. l \in Statements /\ l \notin FileSteps
    BY <1>4 DEF Statements, FileSteps
  <1>6. /\ pc'[p] = l /\ req'[p] = r
        /\ \A q \in Procs \ {p} : pc'[q] = pc[q] /\ req'[q] = req[q]
    BY <1>4, <1>5, GoesOn
  <1>7. /\ \A g \in Files \ {f} : file'[g] = file[g]
        /\ pc[p] = "verify" => file'[f] = IF file[f] = "cached" THEN "permanent" ELSE file[f]
        /\ pc[p] = "deleteFile" => file'[f] = "deleted" \/ (Faults /\ file'[f] = file[f])
    <2>1. CASE Verify(p)
      BY <1>1, <1>3, <2>1 DEF Verify, At, TypeInv, TypeOK
    <2>2. CASE pc[p] = "deleteFile" /\ file' = [file EXCEPT ![f] = "deleted"]
      BY <1>3, <2>2 DEF TypeInv, TypeOK
    <2>3. CASE pc[p] = "deleteFile" /\ Faults /\ file' = file
      BY <2>3
    <2> QED
      BY <1>1, <2>1, <2>2, <2>3 DEF DeleteFile, At
  <1>8. FileKnows(p)'
    BY <1>5, <1>6 DEF FileKnows, FileSteps
  <1>9. ASSUME NEW q \in Procs \ {p}, pc[q] \in FileSteps, req[q].file = f PROVE FileKnows(q)'
    <2>1. pc[q] # "insertAttachment" /\ FileKnows(q)
      BY <1>1, <1>2, <1>9, NobodyInserts DEF FileInv
    <2>2. file'[f] # "unused"
      BY <1>2, <1>3, <1>7
    <2> QED
      BY <1>2, <1>6, <1>9, <2>1, <2>2 DEF FileKnows
  <1>10. attachment[f] # None => file'[f] \in {"cached", "permanent"}
    BY <1>1, <1>2, <1>3, <1>7 DEF FileInv, FileKnows
  <1>11. ASSUME ~Faults, attachment[f] = None, file'[f] \in {"cached", "permanent"}
         PROVE  Minding(f)' # {}
    <2>1. pc[p] = "verify" /\ file[f] \in {"cached", "permanent"}
      BY <1>2, <1>3, <1>7, <1>11
    <2>2. PICK q \in Minding(f) : TRUE
      BY <1>3, <1>11, <2>1 DEF FileInv
    <2>3. q \in Minding(f)'
      BY <1>6, <2>1, <2>2 DEF Minding
    <2> QED
      BY <2>3
  <1> QED
    BY <1>1, <1>2, <1>3, <1>4, <1>5, <1>7, <1>8, <1>9, <1>10, <1>11, FileStep

LEMMA FileNext == TypeInv /\ FileInv /\ [Next]_vars => FileInv'
  <1> SUFFICES ASSUME TypeInv, FileInv, [Next]_vars PROVE FileInv'
    OBVIOUS
  <1>1. ASSUME UNCHANGED <<attachment, file>>,
               \A p \in Procs : (pc'[p] = pc[p] /\ req'[p] = req[p]) \/ Elsewhere(p)
        PROVE  FileInv'
    <2>1. ASSUME NEW p \in Procs PROVE FileKnows(p)'
      <3>1. CASE Elsewhere(p)
        BY <3>1 DEF Elsewhere, FileKnows, FileSteps
      <3>2. CASE pc'[p] = pc[p] /\ req'[p] = req[p]
        <4>1. \A q \in Procs : pc'[q] \in FileSteps => pc'[q] = pc[q] /\ req'[q] = req[q]
          BY <1>1 DEF Elsewhere
        <4> QED
          BY <1>1, <3>2, <4>1 DEF FileInv, FileKnows
      <3> QED
        BY <1>1, <3>1, <3>2
    <2>2. ASSUME NEW f \in Files, ~Faults, attachment[f] = None, file[f] \in {"cached", "permanent"}
          PROVE  Minding(f)' # {}
      <3>1. PICK q \in Minding(f) : TRUE
        BY <2>2 DEF FileInv
      <3>2. q \in Minding(f)'
        BY <1>1, <2>2, <3>1 DEF Minding, Elsewhere
      <3> QED
        BY <3>2
    <2> QED
      BY <1>1, <2>1, <2>2 DEF FileInv
  <1> QED
    BY <1>1, OtherSteps, UploadFile, DetachFile, RowFile, BucketFile

LEMMA FileInvariance == Spec => []FileInv
  BY InitType, NextType, FileInit, FileNext, PTL DEF Spec

\* If nothing fails, rows and files stay together: the file of a row is there,
\* and a permanent file without a row is about to be deleted.
THEOREM RowsHaveFiles == ASSUME ~Faults PROVE Spec => []FilesMatchRows
  <1>1. FileInv => FilesMatchRows
    <2> SUFFICES ASSUME FileInv, NEW f \in Files, file[f] = "permanent", attachment[f] = None
                 PROVE  \E p \in Procs : At(p, "deleteFile") /\ req[p].file = f
      BY DEF FileInv, FilesMatchRows
    <2>1. PICK p \in Minding(f) : TRUE
      BY DEF FileInv
    <2>2. pc[p] # "insertAttachment"
      BY <2>1 DEF FileInv, FileKnows, Minding
    <2> QED
      BY <2>1, <2>2 DEF Minding, At
  <1> QED
    BY <1>1, FileInvariance, PTL
-----------------------------------------------------------------------------
(* The limit of attachments. *)

\* The slots that will add an attachment to issue i.
Coming(i) == {p \in Procs : pc[p] \in {"upload", "insertAttachment"} /\ req[p].issue = i}

BoundInv ==
  \A i \in Issues :
    Cardinality(AttachmentsOf(i)) + Cardinality(Coming(i)) < Max + Cardinality(Procs)

LEMMA Counts ==
  ASSUME NEW i \in Issues
  PROVE  /\ IsFiniteSet(AttachmentsOf(i)) /\ Cardinality(AttachmentsOf(i)) \in Nat
         /\ IsFiniteSet(Coming(i)) /\ Cardinality(Coming(i)) \in Nat
         /\ Cardinality(Coming(i)) <= Cardinality(Procs) /\ Cardinality(Procs) \in Nat
  BY FiniteAssumption, FS_Subset, FS_CardinalityType DEF AttachmentsOf, Coming

\* The next values of both sets, which are finite as well.
LEMMA CountsNext ==
  ASSUME NEW i \in Issues
  PROVE  /\ IsFiniteSet(AttachmentsOf(i)') /\ Cardinality(AttachmentsOf(i)') \in Nat
         /\ IsFiniteSet(Coming(i)') /\ Cardinality(Coming(i)') \in Nat
         /\ Cardinality(Coming(i)') <= Cardinality(Procs)
  BY FiniteAssumption, FS_Subset, FS_CardinalityType DEF AttachmentsOf, Coming

LEMMA BoundInit == ASSUME Procs # {} PROVE Init => BoundInv
  <1> SUFFICES ASSUME Init, NEW i \in Issues
               PROVE  Cardinality(AttachmentsOf(i)) + Cardinality(Coming(i)) < Max + Cardinality(Procs)
    BY DEF BoundInv
  <1>1. AttachmentsOf(i) = {} /\ Coming(i) = {}
    BY NoneAssumption DEF Init, AttachmentsOf, Coming
  <1>2. Cardinality(Procs) \in Nat /\ Cardinality(Procs) # 0
    BY FiniteAssumption, FS_EmptySet, FS_CardinalityType
  <1> QED
    BY <1>1, <1>2, FS_EmptySet, MaxAssumption

\* The bound of issue i is kept when nothing is added to it.
LEMMA Fewer ==
  ASSUME BoundInv, NEW i \in Issues, AttachmentsOf(i)' \subseteq AttachmentsOf(i),
         Coming(i)' \subseteq Coming(i)
  PROVE  Cardinality(AttachmentsOf(i)') + Cardinality(Coming(i)') < Max + Cardinality(Procs)
  <1>1. /\ Cardinality(AttachmentsOf(i)') <= Cardinality(AttachmentsOf(i))
        /\ Cardinality(Coming(i)') <= Cardinality(Coming(i))
    BY Counts, FS_Subset
  <1> QED
    BY <1>1, Counts, CountsNext, MaxAssumption DEF BoundInv

LEMMA BoundNext == TypeInv /\ FileInv /\ BoundInv /\ [Next]_vars => BoundInv'
  <1> SUFFICES ASSUME TypeInv, FileInv, BoundInv, [Next]_vars, NEW i \in Issues
               PROVE  Cardinality(AttachmentsOf(i)') + Cardinality(Coming(i)') < Max + Cardinality(Procs)
    BY DEF BoundInv
  <1>1. ASSUME UNCHANGED <<attachment, file>>,
               \A p \in Procs : (pc'[p] = pc[p] /\ req'[p] = req[p]) \/ Elsewhere(p)
        PROVE  Cardinality(AttachmentsOf(i)') + Cardinality(Coming(i)') < Max + Cardinality(Procs)
    <2>1. AttachmentsOf(i)' = AttachmentsOf(i)
      BY <1>1 DEF AttachmentsOf
    <2>2. CASE \E p \in Procs : StartAttach(p, i)
      <3>1. Cardinality(AttachmentsOf(i)) < Max
        BY <2>2 DEF StartAttach
      <3> QED
        BY <2>1, <3>1, Counts, CountsNext, MaxAssumption
    <2>3. CASE \A p \in Procs : ~StartAttach(p, i)
      <3>1. ASSUME NEW p \in Procs, NEW j \in Issues, StartAttach(p, j), req'[p].issue = i
            PROVE  FALSE
        <4> DEFINE r == [NoRequest EXCEPT !.issue = j]
        <4>1. r \in Requests /\ r.issue = j
          BY DEF NoRequest, Requests
        <4>2. Goes(p, "upload", r)
          BY <3>1 DEF StartAttach
        <4> HIDE DEF r
        <4>3. req'[p] = r
          BY <4>1, <4>2, GoesOn DEF Statements
        <4> QED
          BY <2>3, <3>1, <4>1, <4>3
      <3>2. Coming(i)' \subseteq Coming(i)
        BY <1>1, <3>1 DEF Coming, Elsewhere, FileSteps
      <3> QED
        BY <2>1, <3>2, Fewer
    <2> QED
      BY <2>2, <2>3
  <1>2. ASSUME NEW p \in Procs, NEW f \in Files, Upload(p, f)
        PROVE  Cardinality(AttachmentsOf(i)') + Cardinality(Coming(i)') < Max + Cardinality(Procs)
    <2> DEFINE r == [req[p] EXCEPT !.file = f]
    <2>1. r \in Requests /\ r.issue = req[p].issue
      BY Request DEF Requests
    <2>2. pc[p] = "upload" /\ Goes(p, "insertAttachment", r) /\ attachment' = attachment
      BY <1>2 DEF Upload, At
    <2> HIDE DEF r
    <2>3. Coming(i)' \subseteq Coming(i)
      BY <2>1, <2>2, GoesOn DEF Statements, Coming
    <2> QED
      BY <2>2, <2>3, Fewer DEF AttachmentsOf
  <1>3. ASSUME NEW p \in Procs, NEW f \in Files, StartDetach(p, f)
        PROVE  Cardinality(AttachmentsOf(i)') + Cardinality(Coming(i)') < Max + Cardinality(Procs)
    <2>1. /\ attachment' = attachment /\ pc'[p] = "deleteAttachment"
          /\ \A q \in Procs \ {p} : pc'[q] = pc[q] /\ req'[q] = req[q]
      BY <1>3 DEF StartDetach, Goes, TypeInv, TypeOK
    <2>2. Coming(i)' \subseteq Coming(i)
      BY <2>1 DEF Coming
    <2> QED
      BY <2>1, <2>2, Fewer DEF AttachmentsOf
  <1>4. ASSUME NEW p \in Procs, Verify(p) \/ DeleteFile(p) \/ DeleteAttachment(p)
        PROVE  Cardinality(AttachmentsOf(i)') + Cardinality(Coming(i)') < Max + Cardinality(Procs)
    <2>1. /\ pc'[p] \in {"idle", "invalidate", "deleteFile"}
          /\ \A q \in Procs \ {p} : pc'[q] = pc[q] /\ req'[q] = req[q]
      BY <1>4 DEF Verify, DeleteFile, DeleteAttachment, Ends, Goes, TypeInv, TypeOK
    <2>2. \A g \in Files : attachment'[g] = attachment[g] \/ attachment'[g] = None
      BY <1>4 DEF Verify, DeleteFile, DeleteAttachment, TypeInv, TypeOK
    <2>3. Coming(i)' \subseteq Coming(i) /\ AttachmentsOf(i)' \subseteq AttachmentsOf(i)
      BY <2>1, <2>2, NoneAssumption DEF Coming, AttachmentsOf
    <2> QED
      BY <2>3, Fewer
  <1>5. ASSUME NEW p \in Procs, InsertAttachment(p)
        PROVE  Cardinality(AttachmentsOf(i)') + Cardinality(Coming(i)') < Max + Cardinality(Procs)
    <2>1. PICK f, j : f = req[p].file /\ j = req[p].issue
      OBVIOUS
    <2>2. /\ pc[p] = "insertAttachment" /\ attachment' = [attachment EXCEPT ![f] = j]
          /\ Goes(p, "verify", req[p])
      BY <1>5, <2>1 DEF InsertAttachment, At
    <2>3. /\ f \in Files /\ j \in Issues /\ req[p] \in Requests /\ attachment[f] = None
      BY <2>1, <2>2, Request DEF FileSteps, IssueSteps, Statements, FileInv, FileKnows
    <2>4. /\ pc'[p] = "verify" /\ \A q \in Procs \ {p} : pc'[q] = pc[q] /\ req'[q] = req[q]
      BY <2>2, <2>3, GoesOn DEF Statements
    <2>5. \A g \in Files : attachment'[g] = IF g = f THEN j ELSE attachment[g]
      BY <2>2, <2>3 DEF TypeInv, TypeOK
    <2>6. CASE j # i
      <3>1. Coming(i)' \subseteq Coming(i) /\ AttachmentsOf(i)' \subseteq AttachmentsOf(i)
        BY <2>4, <2>5, <2>6 DEF Coming, AttachmentsOf
      <3> QED
        BY <3>1, Fewer
    <2>7. CASE j = i
      <3>1. AttachmentsOf(i)' = AttachmentsOf(i) \cup {f} /\ f \notin AttachmentsOf(i)
        BY <2>3, <2>5, <2>7, NoneAssumption DEF AttachmentsOf
      <3>2. Coming(i)' = Coming(i) \ {p} /\ p \in Coming(i)
        BY <2>1, <2>2, <2>4, <2>7 DEF Coming
      <3>3. Cardinality(AttachmentsOf(i)') = Cardinality(AttachmentsOf(i)) + 1
        BY <3>1, Counts, FS_AddElement
      <3>4. Cardinality(Coming(i)') = Cardinality(Coming(i)) - 1
        BY <3>2, Counts, FS_RemoveElement
      <3> QED
        BY <3>3, <3>4, Counts, MaxAssumption DEF BoundInv
    <2> QED
      BY <2>6, <2>7
  <1> QED
    BY <1>1, <1>2, <1>3, <1>4, <1>5, OtherSteps

\* Uploads that overlap exceed the limit by less than the number of slots.
THEOREM FewAttachments == ASSUME Procs # {} PROVE Spec => []AttachmentOvershoot
  <1>1. BoundInv => AttachmentOvershoot
    <2> SUFFICES ASSUME BoundInv, NEW i \in Issues
                 PROVE  Cardinality(AttachmentsOf(i)) < Max + Cardinality(Procs)
      BY DEF AttachmentOvershoot
    <2> QED
      BY Counts, MaxAssumption DEF BoundInv
  <1>2. Init => BoundInv
    BY BoundInit
  <1> QED
    BY <1>1, <1>2, BoundNext, InitType, NextType, FileInit, FileNext, PTL DEF Spec
-----------------------------------------------------------------------------
(* One slot changes statuses. *)

OneStatus == \A p, q \in Procs : "status" \in Work[p] /\ "status" \in Work[q] => p = q

\* A slot that creates an issue is the only one, and the issue is not there.
Creates(p) ==
  pc[p] = "insertIssue" =>
    /\ ~Live(req[p].issue)
    /\ \A q \in Procs \ {p} : pc[q] = "insertIssue" => req[q].issue # req[p].issue

\* A slot about to change a status still may.
Changes(p) ==
  pc[p] = "updateStatus" =>
    "status" \in Work[p] /\ req[p].status \in Transitions[issue[req[p].issue].status]

StatusInv ==
  /\ \A p \in Procs : Creates(p) /\ Changes(p)
  /\ ClosedStamped

LEMMA StatusInit == Init => StatusInv
  BY DEF Init, StatusInv, Creates, Changes, ClosedStamped, Live

\* Issues keep their statuses.
SameStatus ==
  \A i \in Issues :
    /\ Live(i)' <=> Live(i)
    /\ Live(i) => issue'[i].status = issue[i].status /\ issue'[i].closed = issue[i].closed

\* What a slot does meanwhile.
Aside(p) ==
  \/ pc'[p] = pc[p] /\ req'[p] = req[p]
  \/ pc'[p] \notin {"insertIssue", "updateStatus"}
  \/ \E i \in Issues, t \in Types : StartCreate(p, i, t)
  \/ \E i \in Issues, s \in Statuses : StartStatus(p, i, s)

\* An UPDATE of other columns.
LEMMA OtherColumns ==
  ASSUME TypeInv, NEW p \in Procs, InsertReply(p) \/ UpdateColumn(p) \/ UpdateInfo(p)
  PROVE  SameStatus
  <1>1. PICK i : i = req[p].issue
    OBVIOUS
  <1>2. pc[p] \in {"insertReply", "updateColumn", "updateInfo"}
    BY DEF InsertReply, UpdateColumn, UpdateInfo, At
  <1>3. i \in Issues /\ issue[i] \in Rows /\ issue[i] # None /\ req[p] \in Requests
    BY <1>1, <1>2, Request DEF LiveSteps, IssueSteps, Statements
  <1>4. PICK r \in Rows : Update(i, r) /\ r.status = issue[i].status /\ r.closed = issue[i].closed
    <2>1. CASE InsertReply(p) \/ UpdateColumn(p)
      BY <1>1, <1>3, <2>1 DEF InsertReply, UpdateColumn
    <2>2. CASE UpdateInfo(p)
      <3> DEFINE u == IF req[p].type = None THEN issue[i].type ELSE req[p].type
                 r == [issue[i] EXCEPT !.type = u]
      <3>1. Update(i, r) /\ u \in Types
        BY <1>1, <1>3, <2>2 DEF UpdateInfo, Rows, Requests
      <3> HIDE DEF u
      <3>2. r \in Rows /\ r.status = issue[i].status /\ r.closed = issue[i].closed
        BY <1>3, <3>1 DEF Rows
      <3> QED
        BY <3>1, <3>2
    <2> QED
      BY <2>1, <2>2
  <1>5. /\ issue'[i] \in Rows /\ issue'[i].status = r.status /\ issue'[i].closed = r.closed
        /\ \A j \in Issues \ {i} : issue'[j] = issue[j]
    BY <1>3, <1>4, UpdateTyped
  <1> QED
    BY <1>3, <1>4, <1>5, RowAssumption DEF SameStatus, Live

LEMMA StatusSteps ==
  ASSUME TypeInv, [Next]_vars
  PROVE  \/ SameStatus /\ \A p \in Procs : Aside(p)
         \/ \E p \in Procs : UpdateStatus(p) \/ \E x \in Texts : InsertIssue(p, x)
  <1>1. ASSUME NEW p \in Procs, NEW l, NEW r, Goes(p, l, r), l \notin {"insertIssue", "updateStatus"}
        PROVE  \A q \in Procs : Aside(q)
    BY <1>1 DEF Goes, Aside, TypeInv, TypeOK
  <1>2. issue' = issue => SameStatus
    BY DEF SameStatus, Live
  <1>3. ASSUME NEW p \in Procs, NEW i \in Issues, NEW t \in Types, StartCreate(p, i, t)
        PROVE  SameStatus /\ \A q \in Procs : Aside(q)
    BY <1>2, <1>3 DEF StartCreate, Goes, Aside, TypeInv, TypeOK
  <1>4. ASSUME NEW p \in Procs, NEW i \in Issues, NEW s \in Statuses, StartStatus(p, i, s)
        PROVE  SameStatus /\ \A q \in Procs : Aside(q)
    BY <1>2, <1>4 DEF StartStatus, Goes, Aside, TypeInv, TypeOK
  <1>5. ASSUME NEW p \in Procs, NEW i \in Issues, CacheMiss(p, i) \/ StartReply(p, i)
                 \/ StartAttach(p, i) \/ StartEdit(p, i)
        PROVE  SameStatus /\ \A q \in Procs : Aside(q)
    BY <1>1, <1>2, <1>5 DEF CacheMiss, StartReply, StartAttach, StartEdit
  <1>6. ASSUME NEW p \in Procs, NEW i \in Issues, NEW t \in Types \cup {None}, StartInfo(p, i, t)
        PROVE  SameStatus /\ \A q \in Procs : Aside(q)
    BY <1>1, <1>2, <1>6 DEF StartInfo
  <1>7. ASSUME NEW p \in Procs, NEW t \in Types, NEW e, StartEditType(p, t, e)
        PROVE  SameStatus /\ \A q \in Procs : Aside(q)
    BY <1>1, <1>2, <1>7 DEF StartEditType
  <1>8. ASSUME NEW p \in Procs, NEW f \in Files, StartDetach(p, f) \/ Upload(p, f)
        PROVE  SameStatus /\ \A q \in Procs : Aside(q)
    BY <1>1, <1>2, <1>8 DEF StartDetach, Upload
  <1>9. ASSUME NEW p \in Procs, InsertIssueFails(p) \/ ReadIssue(p) \/ Fill(p) \/ Invalidate(p)
                 \/ UpdateInfoFails(p) \/ InsertAttachment(p) \/ Verify(p) \/ DeleteAttachment(p)
                 \/ DeleteFile(p) \/ SaveType(p) \/ CutOff(p)
        PROVE  SameStatus /\ \A q \in Procs : Aside(q)
    BY <1>1, <1>2, <1>9 DEF InsertIssueFails, ReadIssue, Fill, Invalidate, UpdateInfoFails,
       InsertAttachment, Verify, DeleteAttachment, DeleteFile, SaveType, CutOff, Ends
  <1>10. ASSUME NEW p \in Procs, InsertReply(p) \/ UpdateColumn(p) \/ UpdateInfo(p)
         PROVE  SameStatus /\ \A q \in Procs : Aside(q)
    <2>1. \A q \in Procs : Aside(q)
      BY <1>1, <1>10 DEF InsertReply, UpdateColumn, UpdateInfo
    <2> QED
      BY <1>10, <2>1, OtherColumns
  <1>11. ASSUME \/ \E i \in Issues : Expire(i)
                \/ \E t \in Types : CreateType(t) \/ DeleteType(t)
                \/ UNCHANGED vars
         PROVE  SameStatus /\ \A q \in Procs : Aside(q)
    BY <1>2, <1>11 DEF Expire, CreateType, DeleteType, vars, Aside
  <1>12. ASSUME NEW p \in Procs, ArriveUser(p) PROVE SameStatus /\ \A q \in Procs : Aside(q)
    BY <1>3, <1>5, <1>8, <1>12 DEF ArriveUser
  <1>13. ASSUME NEW p \in Procs, ArriveAdmin(p) PROVE SameStatus /\ \A q \in Procs : Aside(q)
    BY <1>4, <1>5, <1>6, <1>7, <1>13 DEF ArriveAdmin
  <1> QED
    BY <1>8, <1>9, <1>10, <1>11, <1>12, <1>13 DEF Next, Step

\* A status changes as it may, whatever the others do meanwhile.
LEMMA UpdateStatusStep ==
  ASSUME OneStatus, TypeInv, StatusInv, NEW p \in Procs, UpdateStatus(p)
  PROVE  /\ StatusInv'
         /\ \A i \in Issues : Live(i) /\ issue'[i].status # issue[i].status
              => issue'[i].status \in Transitions[issue[i].status]
  <1>1. PICK i, s : i = req[p].issue /\ s = req[p].status
    OBVIOUS
  <1> DEFINE b == Stamped(issue[i], s)
             r == [issue[i] EXCEPT !.status = s, !.closed = b]
  <1>2. pc[p] = "updateStatus" /\ Update(i, r) /\ Goes(p, "invalidate", req[p])
    BY <1>1 DEF UpdateStatus, At
  <1>3. /\ req[p] \in Requests /\ i \in Issues /\ issue[i] \in Rows /\ issue[i] # None
        /\ s \in Statuses
    BY <1>1, <1>2, Request DEF LiveSteps, IssueSteps, Statements, TypeInv, Knows
  <1>4. b \in BOOLEAN /\ (b <=> issue[i].closed \/ s = "closed")
    BY <1>3 DEF Stamped, Rows
  <1> HIDE DEF b
  <1>5. r \in Rows /\ r.status = s /\ r.closed = b
    BY <1>3, <1>4 DEF Rows
  <1> HIDE DEF r
  <1>6. /\ issue'[i] \in Rows /\ issue'[i].status = s /\ issue'[i].closed = b
        /\ \A j \in Issues \ {i} : issue'[j] = issue[j]
    BY <1>2, <1>3, <1>5, UpdateTyped
  <1>7. /\ pc'[p] = "invalidate" /\ \A q \in Procs \ {p} : pc'[q] = pc[q] /\ req'[q] = req[q]
    BY <1>2, <1>3, GoesOn DEF Statements
  <1>8. "status" \in Work[p] /\ s \in Transitions[issue[i].status]
    BY <1>1, <1>2 DEF StatusInv, Changes
  <1>9. \A q \in Procs \ {p} : pc'[q] # "updateStatus"
    BY <1>7, <1>8 DEF StatusInv, Changes, OneStatus
  <1>10. ASSUME NEW q \in Procs PROVE Creates(q)' /\ Changes(q)'
    <2>1. pc'[q] = "insertIssue" => issue[req[q].issue] = None /\ req[q].issue \in Issues
      BY <1>7, Request DEF StatusInv, Creates, Live, IssueSteps, Statements
    <2>2. pc'[q] = "insertIssue" => issue'[req[q].issue] = None
      BY <1>3, <1>6, <2>1
    <2>3. Creates(q)'
      BY <1>7, <2>2 DEF StatusInv, Creates, Live
    <2>4. Changes(q)'
      BY <1>7, <1>9 DEF Changes
    <2> QED
      BY <2>3, <2>4
  <1>11. issue[i].status # "closed" /\ (issue[i].closed <=> issue[i].status = "closed")
    <2>1. issue[i].status \in Statuses
      BY <1>3 DEF Rows
    <2> QED
      BY <1>3, <1>8, <2>1 DEF StatusInv, ClosedStamped, Live, Transitions
  <1>12. ClosedStamped'
    BY <1>3, <1>4, <1>6, <1>11 DEF StatusInv, ClosedStamped, Live
  <1> QED
    BY <1>6, <1>8, <1>10, <1>12 DEF StatusInv

\* A new issue, which nobody can have read yet.
LEMMA InsertIssueStep ==
  ASSUME TypeInv, StatusInv, NEW p \in Procs, NEW x \in Texts, InsertIssue(p, x)
  PROVE  /\ StatusInv'
         /\ \A i \in Issues : Live(i) /\ issue'[i].status # issue[i].status
              => issue'[i].status \in Transitions[issue[i].status]
  <1>1. PICK i : i = req[p].issue
    OBVIOUS
  <1> DEFINE row == [type |-> req[p].type, status |-> "registered", closed |-> FALSE, text |-> x]
             r == [NoRequest EXCEPT !.issue = i, !.row = row]
  <1>2. pc[p] = "insertIssue" /\ issue' = [issue EXCEPT ![i] = row] /\ Goes(p, "fill", r)
    BY <1>1 DEF InsertIssue, At
  <1>3. i \in Issues /\ ~Live(i)
    BY <1>1, <1>2, Request DEF IssueSteps, Statements, StatusInv, Creates
  <1>4. /\ issue'[i].status = "registered" /\ issue'[i].closed = FALSE
        /\ \A j \in Issues \ {i} : issue'[j] = issue[j]
    BY <1>2, <1>3 DEF TypeInv, TypeOK
  <1>5. /\ pc'[p] = "fill" /\ \A q \in Procs \ {p} : pc'[q] = pc[q] /\ req'[q] = req[q]
    BY <1>2 DEF Goes, TypeInv, TypeOK
  <1>6. ASSUME NEW q \in Procs \ {p} PROVE Creates(q)' /\ Changes(q)'
    <2>1. pc[q] = "insertIssue" => req[q].issue \in Issues \ {i}
      BY <1>1, <1>2, Request DEF StatusInv, Creates, IssueSteps, Statements
    <2>2. pc[q] = "updateStatus" => req[q].issue \in Issues \ {i}
      BY <1>3, Request DEF TypeInv, Knows, IssueSteps, LiveSteps, Statements
    <2>3. Creates(q)'
      BY <1>4, <1>5, <2>1 DEF StatusInv, Creates, Live
    <2>4. Changes(q)'
      BY <1>4, <1>5, <2>2 DEF StatusInv, Changes
    <2> QED
      BY <2>3, <2>4
  <1>7. Creates(p)' /\ Changes(p)'
    BY <1>5 DEF Creates, Changes
  <1>8. ClosedStamped'
    BY <1>3, <1>4 DEF StatusInv, ClosedStamped, Live
  <1> QED
    BY <1>3, <1>4, <1>6, <1>7, <1>8 DEF StatusInv

\* Every other step.
LEMMA AsideStep ==
  ASSUME TypeInv, StatusInv, SameStatus, \A p \in Procs : Aside(p)
  PROVE  StatusInv'
  <1>1. ASSUME NEW p \in Procs, NEW i \in Issues, NEW t \in Types, StartCreate(p, i, t)
        PROVE  /\ pc'[p] = "insertIssue" /\ req'[p].issue = i /\ ~Live(i)
               /\ \A q \in Procs \ {p} : pc'[q] = pc[q] /\ req'[q] = req[q] /\ req[q].issue # i
    <2> DEFINE r == [NoRequest EXCEPT !.issue = i, !.type = t]
    <2>1. r \in Requests /\ r.issue = i /\ Goes(p, "insertIssue", r)
      BY <1>1 DEF StartCreate, NoRequest, Requests
    <2> HIDE DEF r
    <2>2. /\ pc'[p] = "insertIssue" /\ req'[p] = r
          /\ \A q \in Procs \ {p} : pc'[q] = pc[q] /\ req'[q] = req[q]
      BY <2>1, GoesOn DEF Statements
    <2> QED
      BY <1>1, <2>1, <2>2 DEF StartCreate
  <1>2. ASSUME NEW p \in Procs, NEW i \in Issues, NEW s \in Statuses, StartStatus(p, i, s)
        PROVE  /\ pc'[p] = "updateStatus" /\ req'[p].issue = i /\ req'[p].status = s
               /\ Live(i) /\ s \in Transitions[issue[i].status] /\ "status" \in Work[p]
    <2> DEFINE r == [NoRequest EXCEPT !.issue = i, !.row = issue[i], !.status = s]
    <2>1. Goes(p, "updateStatus", r) /\ r.issue = i /\ r.status = s
      BY <1>2 DEF StartStatus, NoRequest
    <2> HIDE DEF r
    <2>2. pc'[p] = "updateStatus" /\ req'[p] = r
      BY <2>1 DEF Goes, TypeInv, TypeOK
    <2> QED
      BY <1>2, <2>1, <2>2 DEF StartStatus, Receive
  <1>3. ASSUME NEW q \in Procs, pc'[q] = "insertIssue"
        PROVE  /\ ~Live(req'[q].issue)
               /\ \A z \in Procs \ {q} : pc'[z] = "insertIssue" => req'[z].issue # req'[q].issue
    <2>1. CASE \E i \in Issues, t \in Types : StartCreate(q, i, t)
      BY <1>1, <2>1
    <2>2. CASE pc[q] = "insertIssue" /\ req'[q] = req[q]
      <3>1. ~Live(req[q].issue)
        BY <2>2 DEF StatusInv, Creates
      <3>2. ASSUME NEW z \in Procs \ {q}, pc'[z] = "insertIssue" PROVE req'[z].issue # req[q].issue
        <4>1. CASE \E i \in Issues, t \in Types : StartCreate(z, i, t)
          BY <1>1, <2>2, <4>1
        <4>2. CASE pc[z] = "insertIssue" /\ req'[z] = req[z]
          BY <2>2, <4>2 DEF StatusInv, Creates
        <4> QED
          BY <1>2, <3>2, <4>1, <4>2 DEF Aside
      <3> QED
        BY <2>2, <3>1, <3>2
    <2> QED
      BY <1>2, <1>3, <2>1, <2>2 DEF Aside
  <1>4. ASSUME NEW q \in Procs PROVE Creates(q)'
    <2>1. PICK i : i = req'[q].issue
      OBVIOUS
    <2>2. CASE pc'[q] = "insertIssue"
      <3>1. ~Live(i) /\ \A z \in Procs \ {q} : pc'[z] = "insertIssue" => req'[z].issue # i
        BY <1>3, <2>1, <2>2
      <3>2. i \in Issues
        BY <1>1, <2>1, <2>2, <1>2, Request DEF Aside, IssueSteps, Statements
      <3>3. issue'[i] = None
        BY <3>1, <3>2 DEF SameStatus, Live
      <3> QED
        BY <2>1, <3>1, <3>3 DEF Creates, Live
    <2> QED
      BY <2>2 DEF Creates
  <1>5. ASSUME NEW q \in Procs PROVE Changes(q)'
    <2>1. CASE \E i \in Issues, s \in Statuses : StartStatus(q, i, s)
      <3>1. PICK i \in Issues, s \in Statuses : StartStatus(q, i, s)
        BY <2>1
      <3>2. /\ req'[q].issue = i /\ req'[q].status = s /\ "status" \in Work[q]
            /\ issue'[i].status = issue[i].status /\ s \in Transitions[issue[i].status]
        BY <1>2, <3>1 DEF SameStatus
      <3> QED
        BY <3>2 DEF Changes
    <2>2. CASE pc'[q] = "updateStatus" /\ pc[q] = "updateStatus" /\ req'[q] = req[q]
      <3>1. /\ req[q].issue \in Issues /\ Live(req[q].issue)
            /\ "status" \in Work[q] /\ req[q].status \in Transitions[issue[req[q].issue].status]
        BY <2>2, Request DEF StatusInv, Changes, TypeInv, Knows, IssueSteps, LiveSteps, Statements
      <3>2. issue'[req[q].issue].status = issue[req[q].issue].status
        BY <3>1 DEF SameStatus
      <3> QED
        BY <2>2, <3>1, <3>2 DEF Changes
    <2>3. CASE pc'[q] # "updateStatus"
      BY <2>3 DEF Changes
    <2> QED
      BY <1>1, <2>1, <2>2, <2>3 DEF Aside
  <1>6. ClosedStamped'
    BY DEF StatusInv, ClosedStamped, SameStatus, Live
  <1> QED
    BY <1>4, <1>5, <1>6 DEF StatusInv

LEMMA StatusNext == ASSUME OneStatus PROVE TypeInv /\ StatusInv /\ [Next]_vars => StatusInv'
  BY StatusSteps, AsideStep, UpdateStatusStep, InsertIssueStep

LEMMA StatusInvariance == ASSUME OneStatus PROVE Spec => [](TypeInv /\ StatusInv)
  <1>1. TypeInv /\ StatusInv /\ [Next]_vars => StatusInv'
    BY StatusNext
  <1> QED
    BY <1>1, InitType, NextType, StatusInit, PTL DEF Spec

\* closed_at is set exactly for the issues that are closed, if one administrator
\* at a time changes statuses.
THEOREM ClosedIsStamped == ASSUME OneStatus PROVE Spec => []ClosedStamped
  <1>1. StatusInv => ClosedStamped
    BY DEF StatusInv
  <1>2. Spec => [](TypeInv /\ StatusInv)
    BY StatusInvariance
  <1> QED
    BY <1>1, <1>2, PTL

\* Under the same condition every change of a status is one that is allowed,
\* whatever edits, replies and attachments overlap.
THEOREM OnlyTransitions == ASSUME OneStatus PROVE Spec => StatusFollowsTransitions
  <1> DEFINE Follows == \A i \in Issues :
               Live(i) /\ issue'[i].status # issue[i].status
                 => issue'[i].status \in Transitions[issue[i].status]
  <1>1. TypeInv /\ StatusInv /\ [Next]_vars => [Follows]_vars
    <2>1. SameStatus => Follows
      BY DEF SameStatus
    <2> QED
      BY <2>1, StatusSteps, UpdateStatusStep, InsertIssueStep
  <1>2. Spec => [](TypeInv /\ StatusInv)
    BY StatusInvariance
  <1> QED
    BY <1>1, <1>2, PTL DEF Spec, StatusFollowsTransitions

-----------------------------------------------------------------------------
(***************************************************************************)
(* Nothing is ahead of the row.  The history of an issue only grows and    *)
(* takes in every status its row gets, so what a slot has read for the     *)
(* cache stays in it until the slot fills the cache.                       *)
(***************************************************************************)

AheadInv ==
  /\ NothingAhead
  /\ \A i \in Issues : Live(i) => issue[i].status \in been[i]
  /\ \A p \in Procs : pc[p] = "fill" => req[p].row.status \in been[req[p].issue]

\* The history grows, by the status of the row when that changes.
LEMMA Recorded ==
  ASSUME TypeInv, [Next]_vars, NEW i \in Issues
  PROVE  /\ been[i] \subseteq been'[i]
         /\ issue'[i] = issue[i] \/ issue'[i].status \in been'[i]
  <1>1. ASSUME NEW p \in Procs, pc[p] \in LiveSteps, NEW r \in Rows, Update(req[p].issue, r)
        PROVE  /\ been[i] \subseteq been'[i]
               /\ issue'[i] = issue[i] \/ issue'[i].status \in been'[i]
    <2>1. PICK j : j = req[p].issue
      OBVIOUS
    <2>2. j \in Issues /\ issue[j] # None
      BY <1>1, <2>1, Request DEF LiveSteps
    <2>3. /\ issue'[j].status = r.status /\ been'[j] = been[j] \cup {r.status}
          /\ \A k \in Issues \ {j} : issue'[k] = issue[k] /\ been'[k] = been[k]
      BY <1>1, <2>1, <2>2, UpdateTyped
    <2> QED
      BY <2>3
  <1>2. ASSUME NEW p \in Procs,
               InsertReply(p) \/ UpdateStatus(p) \/ UpdateColumn(p) \/ UpdateInfo(p)
        PROVE  \E r \in Rows : pc[p] \in LiveSteps /\ Update(req[p].issue, r)
    <2>1. PICK j : j = req[p].issue
      OBVIOUS
    <2>2. pc[p] \in {"insertReply", "updateStatus", "updateColumn", "updateInfo"}
      BY <1>2 DEF InsertReply, UpdateStatus, UpdateColumn, UpdateInfo, At
    <2>3. pc[p] \in LiveSteps
      BY <2>2 DEF LiveSteps, IssueSteps, Statements
    <2>4. issue[j] \in Rows /\ req[p] \in Requests
      BY <2>1, <2>3, Request DEF LiveSteps
    <2>5. CASE InsertReply(p) \/ UpdateColumn(p)
      BY <2>1, <2>3, <2>4, <2>5 DEF InsertReply, UpdateColumn
    <2>6. CASE UpdateStatus(p)
      <3> DEFINE s == req[p].status
                 b == Stamped(issue[j], s)
                 r == [issue[j] EXCEPT !.status = s, !.closed = b]
      <3>1. Update(j, r) /\ s \in Statuses
        BY <2>1, <2>6 DEF UpdateStatus, At, TypeInv, Knows
      <3>2. b \in BOOLEAN
        BY <2>4 DEF Stamped, Rows
      <3> HIDE DEF b
      <3>3. r \in Rows
        BY <2>4, <3>1, <3>2 DEF Rows
      <3> QED
        BY <2>1, <2>3, <3>1, <3>3
    <2>7. CASE UpdateInfo(p)
      <3> DEFINE u == IF req[p].type = None THEN issue[j].type ELSE req[p].type
                 r == [issue[j] EXCEPT !.type = u]
      <3>1. Update(j, r) /\ u \in Types
        BY <2>1, <2>4, <2>7 DEF UpdateInfo, Rows, Requests
      <3> HIDE DEF u
      <3>2. r \in Rows
        BY <2>4, <3>1 DEF Rows
      <3> QED
        BY <2>1, <2>3, <3>1, <3>2
    <2> QED
      BY <1>2, <2>5, <2>6, <2>7
  <1>3. ASSUME NEW p \in Procs, NEW x \in Texts, InsertIssue(p, x)
        PROVE  /\ been[i] \subseteq been'[i]
               /\ issue'[i] = issue[i] \/ issue'[i].status \in been'[i]
    <2> DEFINE row == [type |-> req[p].type, status |-> "registered", closed |-> FALSE, text |-> x]
    <2>1. /\ issue' = [issue EXCEPT ![req[p].issue] = row]
          /\ been' = [been EXCEPT ![req[p].issue] = been[req[p].issue] \cup {row.status}]
      BY <1>3 DEF InsertIssue
    <2> HIDE DEF row
    <2> QED
      BY <2>1 DEF TypeInv, TypeOK
  <1>4. CASE UNCHANGED <<issue, been>>
    BY <1>4
  <1>5. ASSUME NEW p \in Procs, ArriveUser(p) \/ ArriveAdmin(p) PROVE UNCHANGED <<issue, been>>
    BY <1>5 DEF ArriveUser, ArriveAdmin, CacheMiss, StartReply, StartAttach, StartCreate,
       StartDetach, StartStatus, StartEdit, StartInfo, StartEditType
  <1>6. ASSUME NEW p \in Procs,
               \/ InsertIssueFails(p) \/ ReadIssue(p) \/ Fill(p) \/ Invalidate(p)
               \/ UpdateInfoFails(p) \/ (\E f \in Files : Upload(p, f)) \/ InsertAttachment(p)
               \/ Verify(p) \/ DeleteAttachment(p) \/ DeleteFile(p) \/ SaveType(p) \/ CutOff(p)
        PROVE  UNCHANGED <<issue, been>>
    BY <1>6 DEF InsertIssueFails, ReadIssue, Fill, Invalidate, UpdateInfoFails, Upload,
       InsertAttachment, Verify, DeleteAttachment, DeleteFile, SaveType, CutOff
  <1>7. ASSUME \/ \E j \in Issues : Expire(j)
               \/ \E t \in Types : CreateType(t) \/ DeleteType(t)
               \/ UNCHANGED vars
        PROVE  UNCHANGED <<issue, been>>
    BY <1>7 DEF Expire, CreateType, DeleteType, vars
  <1> QED
    BY <1>1, <1>2, <1>3, <1>4, <1>5, <1>6, <1>7 DEF Next, Step

\* Where a new entry of the cache, a new mail and the row of a slot that is to
\* fill the cache come from.
Sources ==
  /\ \A i \in Issues :
       \/ cache'[i] = cache[i]
       \/ cache'[i] = None
       \/ \E p \in Procs : pc[p] = "fill" /\ req[p].issue = i /\ cache'[i].row = req[p].row
  /\ mails' \subseteq mails \cup {<<req[p].issue, req[p].status>> : p \in {z \in Procs : UpdateStatus(z)}}
  /\ \A p \in Procs : pc'[p] = "fill" =>
       \/ pc[p] = "fill" /\ req'[p] = req[p]
       \/ ReadIssue(p)
       \/ \E x \in Texts : InsertIssue(p, x)

LEMMA StepSources == ASSUME TypeInv, [Next]_vars PROVE Sources
  <1> DEFINE KeptCache == UNCHANGED <<cache, mails>>
             NoFill == \A q \in Procs : pc'[q] = "fill" => pc[q] = "fill" /\ req'[q] = req[q]
  <1>1. ASSUME NEW p \in Procs, NEW l, NEW r, Goes(p, l, r), l # "fill"
        PROVE  NoFill
    BY <1>1 DEF Goes, TypeInv, TypeOK
  <1>2. KeptCache /\ NoFill => Sources
    BY DEF Sources
  <1>3. ASSUME NEW p \in Procs, ArriveUser(p) PROVE Sources
    <2>1. ASSUME NEW i \in Issues, CacheMiss(p, i) \/ StartReply(p, i) \/ StartAttach(p, i)
          PROVE  KeptCache /\ NoFill
      BY <1>1, <2>1 DEF CacheMiss, StartReply, StartAttach
    <2>2. ASSUME NEW i \in Issues, NEW t \in Types, StartCreate(p, i, t) PROVE KeptCache /\ NoFill
      BY <1>1, <2>2 DEF StartCreate
    <2>3. ASSUME NEW f \in Files, StartDetach(p, f) PROVE KeptCache /\ NoFill
      BY <1>1, <2>3 DEF StartDetach
    <2> QED
      BY <1>2, <1>3, <2>1, <2>2, <2>3 DEF ArriveUser
  <1>4. ASSUME NEW p \in Procs, ArriveAdmin(p) PROVE Sources
    <2>1. ASSUME NEW i \in Issues, NEW s \in Statuses, StartStatus(p, i, s) PROVE KeptCache /\ NoFill
      BY <1>1, <2>1 DEF StartStatus
    <2>2. ASSUME NEW i \in Issues, StartEdit(p, i) PROVE KeptCache /\ NoFill
      BY <1>1, <2>2 DEF StartEdit
    <2>3. ASSUME NEW i \in Issues, NEW t \in Types \cup {None}, StartInfo(p, i, t)
          PROVE  KeptCache /\ NoFill
      BY <1>1, <2>3 DEF StartInfo
    <2>4. ASSUME NEW t \in Types, NEW e, StartEditType(p, t, e) PROVE KeptCache /\ NoFill
      BY <1>1, <2>4 DEF StartEditType
    <2> QED
      BY <1>2, <1>4, <2>1, <2>2, <2>3, <2>4 DEF ArriveAdmin
  <1>5. ASSUME NEW p \in Procs, NEW x \in Texts, InsertIssue(p, x) PROVE Sources
    <2>1. KeptCache /\ \A q \in Procs \ {p} : pc'[q] = "fill" => pc[q] = "fill" /\ req'[q] = req[q]
      BY <1>5 DEF InsertIssue, Goes, TypeInv, TypeOK
    <2> QED
      BY <1>5, <2>1 DEF Sources
  <1>6. ASSUME NEW p \in Procs, ReadIssue(p) PROVE Sources
    <2>1. KeptCache /\ \A q \in Procs \ {p} : pc'[q] = "fill" => pc[q] = "fill" /\ req'[q] = req[q]
      BY <1>6 DEF ReadIssue, Goes, TypeInv, TypeOK
    <2> QED
      BY <1>6, <2>1 DEF Sources
  <1>7. ASSUME NEW p \in Procs, Fill(p) PROVE Sources
    <2> DEFINE e == [row |-> req[p].row, ttl |-> TRUE]
    <2>1. /\ pc[p] = "fill" /\ cache' = [cache EXCEPT ![req[p].issue] = e]
          /\ e.row = req[p].row /\ UNCHANGED mails
      BY <1>7 DEF Fill, Put, At
    <2> HIDE DEF e
    <2>2. \A i \in Issues : cache'[i] = cache[i] \/ (req[p].issue = i /\ cache'[i].row = req[p].row)
      BY <2>1 DEF TypeInv, TypeOK
    <2>3. NoFill
      BY <1>1, <1>7 DEF Fill, Ends
    <2> QED
      BY <2>1, <2>2, <2>3 DEF Sources
  <1>8. ASSUME NEW p \in Procs, Invalidate(p) PROVE Sources
    <2>1. NoFill
      BY <1>1, <1>8 DEF Invalidate, Ends
    <2>2. \A i \in Issues : cache'[i] = cache[i] \/ cache'[i] = None
      BY <1>8 DEF Invalidate, TypeInv, TypeOK
    <2> QED
      BY <1>8, <2>1, <2>2 DEF Sources, Invalidate
  <1>9. ASSUME NEW p \in Procs, UpdateStatus(p) PROVE Sources
    <2>1. NoFill /\ UNCHANGED cache /\ mails' = mails \cup {<<req[p].issue, req[p].status>>}
      BY <1>1, <1>9 DEF UpdateStatus, Notify
    <2> QED
      BY <1>9, <2>1 DEF Sources
  <1>10. ASSUME NEW p \in Procs, InsertReply(p) \/ UpdateColumn(p) \/ UpdateInfo(p) PROVE Sources
    BY <1>1, <1>2, <1>10 DEF InsertReply, UpdateColumn, UpdateInfo
  <1>11. ASSUME NEW p \in Procs, InsertIssueFails(p) \/ UpdateInfoFails(p) \/ InsertAttachment(p)
                  \/ Verify(p) \/ DeleteAttachment(p) \/ DeleteFile(p) \/ SaveType(p) \/ CutOff(p)
         PROVE  Sources
    BY <1>1, <1>2, <1>11 DEF InsertIssueFails, UpdateInfoFails, InsertAttachment, Verify,
       DeleteAttachment, DeleteFile, SaveType, CutOff, Ends
  <1>12. ASSUME NEW p \in Procs, NEW f \in Files, Upload(p, f) PROVE Sources
    BY <1>1, <1>2, <1>12 DEF Upload
  <1>13. ASSUME NEW i \in Issues, Expire(i) PROVE Sources
    <2>1. \A j \in Issues : cache'[j] = cache[j] \/ cache'[j] = None
      BY <1>13 DEF Expire, TypeInv, TypeOK
    <2> QED
      BY <1>13, <2>1 DEF Sources, Expire
  <1>14. ASSUME (\E t \in Types : CreateType(t) \/ DeleteType(t)) \/ UNCHANGED vars PROVE Sources
    BY <1>2, <1>14 DEF CreateType, DeleteType, vars
  <1>15. ASSUME NEW p \in Procs, Step(p) PROVE Sources
    BY <1>5, <1>6, <1>7, <1>8, <1>9, <1>10, <1>11, <1>12, <1>15 DEF Step
  <1> QED
    BY <1>3, <1>4, <1>11, <1>13, <1>14, <1>15 DEF Next

\* The row that is read is the issue's, and the row that is inserted becomes it.
LEMMA FillsBeen ==
  ASSUME TypeInv, AheadInv, NEW p \in Procs, ReadIssue(p) \/ \E x \in Texts : InsertIssue(p, x)
  PROVE  req'[p].row.status \in been'[req'[p].issue]
  <1>1. CASE ReadIssue(p)
    <2> DEFINE r == [req[p] EXCEPT !.row = issue[req[p].issue]]
    <2>1. pc[p] = "readIssue" /\ Goes(p, "fill", r) /\ UNCHANGED been
      BY <1>1 DEF ReadIssue, At
    <2>2. req[p] \in Requests /\ req[p].issue \in Issues /\ Live(req[p].issue)
      BY <2>1, Request DEF LiveSteps, IssueSteps, Statements, Live
    <2>3. req'[p] = r
      BY <2>1 DEF Goes, TypeInv, TypeOK
    <2>4. r.issue = req[p].issue /\ r.row = issue[req[p].issue]
      BY <2>2 DEF Requests
    <2> HIDE DEF r
    <2> QED
      BY <2>1, <2>2, <2>3, <2>4 DEF AheadInv
  <1>2. ASSUME NEW x \in Texts, InsertIssue(p, x) PROVE req'[p].row.status \in been'[req'[p].issue]
    <2> DEFINE i == req[p].issue
               row == [type |-> req[p].type, status |-> "registered", closed |-> FALSE, text |-> x]
               r == [NoRequest EXCEPT !.issue = i, !.row = row]
    <2>1. /\ pc[p] = "insertIssue" /\ Goes(p, "fill", r)
          /\ been' = [been EXCEPT ![i] = been[i] \cup {row.status}]
      BY <1>2 DEF InsertIssue, At
    <2>2. i \in Issues
      BY <2>1, Request DEF IssueSteps, Statements
    <2>3. r.issue = i /\ r.row = row
      BY DEF NoRequest
    <2>4. req'[p] = r
      BY <2>1 DEF Goes, TypeInv, TypeOK
    <2> HIDE DEF r, row, i
    <2> QED
      BY <2>1, <2>2, <2>3, <2>4 DEF TypeInv, TypeOK
  <1> QED
    BY <1>1, <1>2

LEMMA AheadInit == Init => AheadInv
  BY DEF Init, AheadInv, NothingAhead, Live

LEMMA AheadNext == TypeInv /\ AheadInv /\ [Next]_vars => AheadInv'
  <1> SUFFICES ASSUME TypeInv, AheadInv, [Next]_vars PROVE AheadInv'
    OBVIOUS
  <1>1. Sources
    BY StepSources
  <1>2. \A i \in Issues : been[i] \subseteq been'[i]
    BY Recorded
  <1>3. ASSUME NEW i \in Issues, cache'[i] # None PROVE cache'[i].row.status \in been'[i]
    <2>1. CASE cache'[i] = cache[i]
      BY <1>2, <1>3, <2>1 DEF AheadInv, NothingAhead
    <2>2. ASSUME NEW p \in Procs, pc[p] = "fill", req[p].issue = i, cache'[i].row = req[p].row
          PROVE  cache'[i].row.status \in been'[i]
      BY <1>2, <2>2 DEF AheadInv
    <2> QED
      BY <1>1, <1>3, <2>1, <2>2 DEF Sources
  <1>4. ASSUME NEW i \in Issues, NEW s \in Statuses, <<i, s>> \in mails' PROVE s \in been'[i]
    <2>1. CASE <<i, s>> \in mails
      BY <1>2, <2>1 DEF AheadInv, NothingAhead
    <2>2. CASE <<i, s>> \notin mails
      <3>1. PICK p \in Procs : UpdateStatus(p) /\ i = req[p].issue /\ s = req[p].status
        BY <1>1, <1>4, <2>2 DEF Sources
      <3> DEFINE b == Stamped(issue[i], s)
                 r == [issue[i] EXCEPT !.status = s, !.closed = b]
      <3>2. pc[p] = "updateStatus" /\ Update(i, r)
        BY <3>1 DEF UpdateStatus, At
      <3>3. issue[i] \in Rows /\ issue[i] # None
        BY <3>1, <3>2, Request DEF LiveSteps, IssueSteps, Statements
      <3>4. b \in BOOLEAN
        BY <3>3 DEF Stamped, Rows
      <3> HIDE DEF b
      <3>5. r \in Rows /\ r.status = s
        BY <3>3, <3>4 DEF Rows
      <3> HIDE DEF r
      <3> QED
        BY <3>2, <3>3, <3>5, UpdateTyped
    <2> QED
      BY <2>1, <2>2
  <1>5. ASSUME NEW i \in Issues, Live(i)' PROVE issue'[i].status \in been'[i]
    BY <1>2, <1>5, Recorded DEF AheadInv, Live
  <1>6. ASSUME NEW p \in Procs, pc'[p] = "fill" PROVE req'[p].row.status \in been'[req'[p].issue]
    <2>1. CASE pc[p] = "fill" /\ req'[p] = req[p]
      <3>1. req[p].issue \in Issues
        BY <2>1, Request DEF IssueSteps, Statements
      <3> QED
        BY <1>2, <2>1, <3>1 DEF AheadInv
    <2>2. CASE ReadIssue(p) \/ \E x \in Texts : InsertIssue(p, x)
      BY <2>2, FillsBeen
    <2> QED
      BY <1>1, <1>6, <2>1, <2>2 DEF Sources
  <1>7. NothingAhead'
    BY <1>3, <1>4 DEF NothingAhead
  <1> QED
    BY <1>5, <1>6, <1>7 DEF AheadInv, Live

\* Neither the cached copy nor a mail says a status the issue has not had,
\* whatever requests overlap and however many administrators change statuses:
\* GetIssueDetail fills the cache with a row that was read, UpdateStatus mails once
\* its UPDATE is done.
THEOREM NeverAhead == Spec => []NothingAhead
  <1>1. AheadInv => NothingAhead
    BY DEF AheadInv
  <1> QED
    BY <1>1, InitType, NextType, AheadInit, AheadNext, PTL DEF Spec
=============================================================================
