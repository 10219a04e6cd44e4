------------------------------- MODULE Issue -------------------------------
(***************************************************************************)
(* Issues: their status machine, the copy of the row in Redis, the types,  *)
(* the attachments with their files in the bucket, and the mails about     *)
(* changes of status (logic/issue.go, repository/txn/issue.go,             *)
(* repository/issue*.go, repository/cache/issue.go).                       *)
(*                                                                         *)
(* Requests run in slots.  A step is one SQL statement or transaction, one *)
(* Redis command or one call of the bucket; pc[p] names the next one of    *)
(* slot p and req[p] holds what its request has read.  Nothing deletes an  *)
(* issue, so the test that it exists is part of the request's arrival.     *)
(***************************************************************************)
EXTENDS Integers, FiniteSets

CONSTANTS
  Issues,  \* ids of issues
  Types,   \* ids of issue types
  Files,   \* ids of files; an attachment has the id of its file
  Texts,   \* what title, content, priority, note and updated_at may say
  Procs,   \* slots in which requests run
  Work,    \* Work[p]: the operations slot p may run
  Max,     \* maxAttachments
  Faults,  \* requests may be cut off, and Redis and the bucket may fail
  None     \* no issue, type or file

Ops == {"create", "detail", "reply", "status", "edit", "info", "attach", "detach", "types"}

ASSUME WorkAssumption == Work \in [Procs -> SUBSET Ops]
ASSUME MaxAssumption == Max \in Nat
ASSUME FaultsAssumption == Faults \in BOOLEAN
ASSUME FiniteAssumption == IsFiniteSet(Files) /\ IsFiniteSet(Procs)
ASSUME NoneAssumption == None \notin Issues \cup Types \cup Files

VARIABLES
  issue,       \* issue[i]: the row of issue i, or None
  type,        \* type[t]: "unused", "enabled", "disabled" or "deleted"
  attachment,  \* attachment[f]: the issue the attachment f belongs to, or None
  file,        \* file[f]: the state of the file f in the bucket
  cache,       \* cache[i]: the entry of issue i in Redis, or None
  mails,       \* <<i, s>>: the author of i was sent a mail that says status s
  been,        \* been[i]: the statuses issue i has had (a history variable)
  pc,          \* the next statement of each slot
  req          \* what its request has read

vars == <<issue, type, attachment, file, cache, mails, been, pc, req>>

Statuses == {"registered", "pending", "processing", "resolved", "unplanned", "closed"}

\* IsValidTransition: the statuses a status may change to.
Transitions ==
  [s \in Statuses |->
    CASE s = "registered" -> {"pending", "processing", "unplanned", "closed"}
      [] s = "pending" -> {"processing", "resolved", "closed"}
      [] s = "processing" -> {"pending", "resolved", "closed"}
      [] OTHER -> {}]

FileStates == {"unused", "cached", "permanent", "deleted"}

Rows == [type : Types, status : Statuses, closed : BOOLEAN, text : Texts]

ASSUME RowAssumption == None \notin Rows

\* ttl says whether the entry will expire.
Entries == [row : Rows, ttl : BOOLEAN]

Statements ==
  {"idle", "insertIssue", "fill", "readIssue", "insertReply", "updateStatus", "updateColumn",
   "updateInfo", "upload", "insertAttachment", "verify", "deleteAttachment", "deleteFile",
   "invalidate", "saveType"}

NoRequest == [issue |-> None, row |-> None, status |-> "nothing", type |-> None,
              file |-> None, save |-> "unused"]

Requests ==
  [issue : Issues \cup {None}, row : Rows \cup {None}, status : Statuses \cup {"nothing"},
   type : Types \cup {None}, file : Files \cup {None},
   save : {"unused", "enabled", "disabled"}]

TypeOK ==
  /\ issue \in [Issues -> Rows \cup {None}]
  /\ type \in [Types -> {"unused", "enabled", "disabled", "deleted"}]
  /\ attachment \in [Files -> Issues \cup {None}]
  /\ file \in [Files -> FileStates]
  /\ cache \in [Issues -> Entries \cup {None}]
  /\ mails \subseteq Issues \X Statuses
  /\ been \in [Issues -> SUBSET Statuses]
  /\ pc \in [Procs -> Statements]
  /\ req \in [Procs -> Requests]

Init ==
  /\ issue = [i \in Issues |-> None]
  /\ type = [t \in Types |-> "unused"]
  /\ attachment = [f \in Files |-> None]
  /\ file = [f \in Files |-> "unused"]
  /\ cache = [i \in Issues |-> None]
  /\ mails = {}
  /\ been = [i \in Issues |-> {}]
  /\ pc = [p \in Procs |-> "idle"]
  /\ req = [p \in Procs |-> NoRequest]

-----------------------------------------------------------------------------
(* Helpers. *)

Live(i) == issue[i] # None

Exists(t) == type[t] \in {"enabled", "disabled"}

AttachmentsOf(i) == {f \in Files : attachment[f] = i}

At(p, statement) == pc[p] = statement

Goes(p, statement, r) ==
  /\ pc' = [pc EXCEPT ![p] = statement]
  /\ req' = [req EXCEPT ![p] = r]

Ends(p) == Goes(p, "idle", NoRequest)

\* A request for op arrives in slot p.
Receive(p, op) == At(p, "idle") /\ op \in Work[p]

\* Mutant: SET without an expiry.
PutForGood(i, row) == cache' = [cache EXCEPT ![i] = [row |-> row, ttl |-> FALSE]]

\* SET with the expiry in one command.
Put(i, row) == cache' = [cache EXCEPT ![i] = [row |-> row, ttl |-> TRUE]]

\* UPDATE of the columns of issue i to those of r, and of updated_at.
Update(i, r) ==
  /\ \E x \in Texts \ {issue[i].text} : issue' = [issue EXCEPT ![i] = [r EXCEPT !.text = x]]
  /\ been' = [been EXCEPT ![i] = @ \cup {r.status}]

-----------------------------------------------------------------------------
(* Issues and their cached copies. *)

\* The type exists and is enabled.
StartCreate(p, i, t) ==
  /\ Receive(p, "create")
  /\ ~Live(i) /\ \A q \in Procs : req[q].issue # i
  /\ type[t] = "enabled"
  /\ Goes(p, "insertIssue", [NoRequest EXCEPT !.issue = i, !.type = t])
  /\ UNCHANGED <<issue, type, attachment, file, cache, mails, been>>

InsertIssue(p, x) ==
  LET r == req[p]
      row == [type |-> r.type, status |-> "registered", closed |-> FALSE, text |-> x]
  IN
  /\ At(p, "insertIssue")
  /\ Exists(r.type)
  /\ issue' = [issue EXCEPT ![r.issue] = row]
  /\ been' = [been EXCEPT ![r.issue] = @ \cup {row.status}]
  /\ Goes(p, "fill", [NoRequest EXCEPT !.issue = r.issue, !.row = row])
  /\ UNCHANGED <<type, attachment, file, cache, mails>>

\* The foreign key does not find the type any more.
InsertIssueFails(p) ==
  /\ At(p, "insertIssue")
  /\ ~Exists(req[p].type)
  /\ Ends(p)
  /\ UNCHANGED <<issue, type, attachment, file, cache, mails, been>>

\* A detail was asked for and is not in the cache.
CacheMiss(p, i) ==
  /\ Receive(p, "detail")
  /\ Live(i)
  /\ cache[i] = None
  /\ Goes(p, "readIssue", [NoRequest EXCEPT !.issue = i])
  /\ UNCHANGED <<issue, type, attachment, file, cache, mails, been>>

ReadIssue(p) ==
  /\ At(p, "readIssue")
  /\ Goes(p, "fill", [req[p] EXCEPT !.row = issue[req[p].issue]])
  /\ UNCHANGED <<issue, type, attachment, file, cache, mails, been>>

\* The row that was inserted or read is put into the cache.
Fill(p) ==
  /\ At(p, "fill")
  /\ Put(req[p].issue, req[p].row)
  /\ Ends(p)
  /\ UNCHANGED <<issue, type, attachment, file, mails, been>>

\* Whatever changed the issue deletes its cached copy last.
Invalidate(p) ==
  /\ At(p, "invalidate")
  /\ cache' = [cache EXCEPT ![req[p].issue] = None]
  /\ Ends(p)
  /\ UNCHANGED <<issue, type, attachment, file, mails, been>>

\* Redis drops the entry when its time is over.
Expire(i) ==
  /\ cache[i] # None
  /\ cache[i].ttl
  /\ cache' = [cache EXCEPT ![i] = None]
  /\ UNCHANGED <<issue, type, attachment, file, mails, been, pc, req>>

-----------------------------------------------------------------------------
(* Replies and changes of an issue. *)

StartReply(p, i) ==
  /\ Receive(p, "reply")
  /\ Live(i)
  /\ Goes(p, "insertReply", [NoRequest EXCEPT !.issue = i])
  /\ UNCHANGED <<issue, type, attachment, file, cache, mails, been>>

\* The reply (read from its table only) and updated_at of the issue.
InsertReply(p) ==
  LET i == req[p].issue IN
  /\ At(p, "insertReply")
  /\ Update(i, issue[i])
  /\ Goes(p, "invalidate", req[p])
  /\ UNCHANGED <<type, attachment, file, cache, mails>>

\* A mail to the author of i: its status is s.
Notify(i, s) == mails' = mails \cup {<<i, s>>}

\* Mutant: the mail goes out whatever the UPDATE is going to say.
StartStatusMails(p, i, s) ==
  /\ Receive(p, "status")
  /\ Live(i)
  /\ s \in Transitions[issue[i].status]
  /\ Notify(i, s)
  /\ Goes(p, "updateStatus", [NoRequest EXCEPT !.issue = i, !.row = issue[i], !.status = s])
  /\ UNCHANGED <<issue, type, attachment, file, cache, been>>

\* The transition is checked on the row read here ...
StartStatus(p, i, s) ==
  /\ Receive(p, "status")
  /\ Live(i)
  /\ s \in Transitions[issue[i].status]
  /\ Goes(p, "updateStatus", [NoRequest EXCEPT !.issue = i, !.row = issue[i], !.status = s])
  /\ UNCHANGED <<issue, type, attachment, file, cache, mails, been>>

\* Mutant: every final status is stamped.
StampedFinal(row, s) == row.closed \/ Transitions[s] = {}

\* closed_at is written when the new status is closed and left alone otherwise.
Stamped(row, s) == row.closed \/ s = "closed"

\* ... and the status is updated by id, whatever it is by now.
UpdateStatus(p) ==
  LET i == req[p].issue  s == req[p].status IN
  /\ At(p, "updateStatus")
  /\ Update(i, [issue[i] EXCEPT !.status = s, !.closed = Stamped(issue[i], s)])
  /\ Notify(i, s)
  /\ Goes(p, "invalidate", req[p])
  /\ UNCHANGED <<type, attachment, file, cache>>

\* Priority, note or content.
StartEdit(p, i) ==
  /\ Receive(p, "edit")
  /\ Live(i)
  /\ Goes(p, "updateColumn", [NoRequest EXCEPT !.issue = i, !.row = issue[i]])
  /\ UNCHANGED <<issue, type, attachment, file, cache, mails, been>>

\* Mutant: the whole row that was read is saved.
SaveWholeRow(p) ==
  LET i == req[p].issue IN
  /\ At(p, "updateColumn")
  /\ Update(i, req[p].row)
  /\ Goes(p, "invalidate", req[p])
  /\ UNCHANGED <<type, attachment, file, cache, mails>>

UpdateColumn(p) ==
  LET i == req[p].issue IN
  /\ At(p, "updateColumn")
  /\ Update(i, issue[i])
  /\ Goes(p, "invalidate", req[p])
  /\ UNCHANGED <<type, attachment, file, cache, mails>>

\* Title alone (t = None), or the type, which exists and is enabled.
StartInfo(p, i, t) ==
  /\ Receive(p, "info")
  /\ Live(i)
  /\ t # None => type[t] = "enabled"
  /\ Goes(p, "updateInfo", [NoRequest EXCEPT !.issue = i, !.type = t])
  /\ UNCHANGED <<issue, type, attachment, file, cache, mails, been>>

\* Mutant: a title alone clears the type.
UpdateInfoUnset(p) ==
  LET i == req[p].issue  t == req[p].type IN
  /\ At(p, "updateInfo")
  /\ t # None => Exists(t)
  /\ Update(i, [issue[i] EXCEPT !.type = t])
  /\ Goes(p, "invalidate", req[p])
  /\ UNCHANGED <<type, attachment, file, cache, mails>>

UpdateInfo(p) ==
  LET i == req[p].issue  t == req[p].type IN
  /\ At(p, "updateInfo")
  /\ t # None => Exists(t)
  /\ Update(i, [issue[i] EXCEPT !.type = IF t = None THEN @ ELSE t])
  /\ Goes(p, "invalidate", req[p])
  /\ UNCHANGED <<type, attachment, file, cache, mails>>

UpdateInfoFails(p) ==
  /\ At(p, "updateInfo")
  /\ req[p].type # None /\ ~Exists(req[p].type)
  /\ Ends(p)
  /\ UNCHANGED <<issue, type, attachment, file, cache, mails, been>>

-----------------------------------------------------------------------------
(* Attachments. *)

\* Mutant: the limit is compared with > instead of >=.
StartAttachAbove(p, i) ==
  /\ Receive(p, "attach")
  /\ Live(i)
  /\ Cardinality(AttachmentsOf(i)) <= Max
  /\ Goes(p, "upload", [NoRequest EXCEPT !.issue = i])
  /\ UNCHANGED <<issue, type, attachment, file, cache, mails, been>>

\* The attachments are counted without a lock.
StartAttach(p, i) ==
  /\ Receive(p, "attach")
  /\ Live(i)
  /\ Cardinality(AttachmentsOf(i)) < Max
  /\ Goes(p, "upload", [NoRequest EXCEPT !.issue = i])
  /\ UNCHANGED <<issue, type, attachment, file, cache, mails, been>>

Upload(p, f) ==
  /\ At(p, "upload")
  /\ file[f] = "unused"
  /\ file' = [file EXCEPT ![f] = "cached"]
  /\ Goes(p, "insertAttachment", [req[p] EXCEPT !.file = f])
  /\ UNCHANGED <<issue, type, attachment, cache, mails, been>>

InsertAttachment(p) ==
  /\ At(p, "insertAttachment")
  /\ attachment' = [attachment EXCEPT ![req[p].file] = req[p].issue]
  /\ Goes(p, "verify", req[p])
  /\ UNCHANGED <<issue, type, file, cache, mails, been>>

\* The file leaves the bucket's cache, in which it would not stay.
Verify(p) ==
  /\ At(p, "verify")
  /\ file' = [file EXCEPT ![req[p].file] = IF @ = "cached" THEN "permanent" ELSE @]
  /\ Ends(p)
  /\ UNCHANGED <<issue, type, attachment, cache, mails, been>>

StartDetach(p, f) ==
  /\ Receive(p, "detach")
  /\ attachment[f] # None
  /\ Goes(p, "deleteAttachment", [NoRequest EXCEPT !.issue = attachment[f], !.file = f])
  /\ UNCHANGED <<issue, type, attachment, file, cache, mails, been>>

\* Mutant: the file goes first.
DeleteFileFirst(p) ==
  /\ At(p, "deleteAttachment")
  /\ file' = [file EXCEPT ![req[p].file] = "deleted"]
  /\ Goes(p, "deleteFile", req[p])
  /\ UNCHANGED <<issue, type, attachment, cache, mails, been>>

\* That the row is gone already is not noticed.
DeleteAttachment(p) ==
  /\ At(p, "deleteAttachment")
  /\ attachment' = [attachment EXCEPT ![req[p].file] = None]
  /\ Goes(p, "deleteFile", req[p])
  /\ UNCHANGED <<issue, type, file, cache, mails, been>>

\* A failure of the bucket is logged and passed over.
DeleteFile(p) ==
  /\ At(p, "deleteFile")
  /\ \/ file' = [file EXCEPT ![req[p].file] = "deleted"]
     \/ Faults /\ UNCHANGED file
  /\ Goes(p, "invalidate", req[p])
  /\ UNCHANGED <<issue, type, attachment, cache, mails, been>>

-----------------------------------------------------------------------------
(* Types. *)

CreateType(t) ==
  /\ type[t] = "unused"
  /\ type' = [type EXCEPT ![t] = "enabled"]
  /\ UNCHANGED <<issue, attachment, file, cache, mails, been, pc, req>>

\* The row is read; is_enabled is set to that of e unless e leaves it alone.
StartEditType(p, t, e) ==
  /\ Receive(p, "types")
  /\ Exists(t)
  /\ Goes(p, "saveType", [NoRequest EXCEPT !.type = t, !.save = IF e = "unused" THEN type[t] ELSE e])
  /\ UNCHANGED <<issue, type, attachment, file, cache, mails, been>>

\* Save: UPDATE of all columns.  When the row is gone it is inserted again, and
\* then a FALSE gives way to the column's default TRUE.
SaveType(p) ==
  LET t == req[p].type IN
  /\ At(p, "saveType")
  /\ type' = [type EXCEPT ![t] = IF Exists(t) THEN req[p].save ELSE "enabled"]
  /\ Ends(p)
  /\ UNCHANGED <<issue, attachment, file, cache, mails, been>>

\* The foreign key of the issues restricts it.
DeleteType(t) ==
  /\ Exists(t)
  /\ \A i \in Issues : Live(i) => issue[i].type # t
  /\ type' = [type EXCEPT ![t] = "deleted"]
  /\ UNCHANGED <<issue, attachment, file, cache, mails, been, pc, req>>

-----------------------------------------------------------------------------
\* The request is cut off, or a statement or Redis command of it fails.
CutOff(p) ==
  /\ Faults
  /\ ~At(p, "idle")
  /\ Ends(p)
  /\ UNCHANGED <<issue, type, attachment, file, cache, mails, been>>

\* Requests of players.
ArriveUser(p) ==
  \/ \E i \in Issues : CacheMiss(p, i) \/ StartReply(p, i) \/ StartAttach(p, i)
  \/ \E i \in Issues, t \in Types : StartCreate(p, i, t)
  \/ \E f \in Files : StartDetach(p, f)

\* Requests of administrators.
ArriveAdmin(p) ==
  \/ \E i \in Issues, s \in Statuses : StartStatus(p, i, s)
  \/ \E i \in Issues : StartEdit(p, i)
  \/ \E i \in Issues, t \in Types \cup {None} : StartInfo(p, i, t)
  \/ \E t \in Types, e \in {"unused", "enabled", "disabled"} : StartEditType(p, t, e)

\* A step of the request in slot p.
Step(p) ==
  \/ \E x \in Texts : InsertIssue(p, x)
  \/ InsertIssueFails(p) \/ ReadIssue(p) \/ Fill(p) \/ Invalidate(p)
  \/ InsertReply(p) \/ UpdateStatus(p) \/ UpdateColumn(p)
  \/ UpdateInfo(p) \/ UpdateInfoFails(p)
  \/ \E f \in Files : Upload(p, f)
  \/ InsertAttachment(p) \/ Verify(p) \/ DeleteAttachment(p) \/ DeleteFile(p)
  \/ SaveType(p)

Next ==
  \/ \E p \in Procs : ArriveUser(p) \/ ArriveAdmin(p) \/ Step(p) \/ CutOff(p)
  \/ \E i \in Issues : Expire(i)
  \/ \E t \in Types : CreateType(t) \/ DeleteType(t)

Spec == Init /\ [][Next]_vars

\* Redis drops every entry that has an expiry in the end: an entry that is
\* there is not set again, as only requests that have missed it set it.
FairSpec == Spec /\ \A i \in Issues : WF_vars(Expire(i))

-----------------------------------------------------------------------------
(***************************************************************************)
(* Properties.                                                             *)
(***************************************************************************)

\* Every change of a status is one IsValidTransition allows, so a final status
\* stays.  The check is made on a row read before; requests that change
\* statuses must not overlap, all others may.
StatusFollowsTransitions ==
  [][\A i \in Issues :
       Live(i) /\ issue'[i].status # issue[i].status
         => issue'[i].status \in Transitions[issue[i].status]]_vars

\* closed_at is set exactly when the issue is closed, under the same condition.
ClosedStamped == \A i \in Issues : Live(i) => (issue[i].closed <=> issue[i].status = "closed")

\* Neither the cached copy nor a mail is ahead of the row, however requests
\* overlap: what they say, the issue has been.  They may be behind for a while.
NothingAhead ==
  \A i \in Issues :
    /\ cache[i] # None => cache[i].row.status \in been[i]
    /\ \A s \in Statuses : <<i, s>> \in mails => s \in been[i]

\* Uploads that overlap may exceed the limit of attachments, but by less than
\* the number of slots.
AttachmentOvershoot ==
  \A i \in Issues :
    Cardinality(AttachmentsOf(i)) < Max + Cardinality(Procs)

\* Rows and files stay together, whatever uploads and deletions overlap: the
\* file of a row is not deleted; and unless something fails, a file that is
\* there for good belongs to a row, or the request that deleted the row is about
\* to delete the file.
FilesMatchRows ==
  \A f \in Files :
    /\ attachment[f] # None => file[f] \in {"cached", "permanent"}
    /\ file[f] = "permanent" /\ attachment[f] = None
         => \E p \in Procs : At(p, "deleteFile") /\ req[p].file = f

Stale(i) == cache[i] # None /\ cache[i].row # issue[i]

\* A copy that is stale does not stay: not when a read overtook a write, and
\* not when the deletion of the entry failed.
StaleCopyGoes == \A i \in Issues : Stale(i) ~> ~Stale(i)
=============================================================================
