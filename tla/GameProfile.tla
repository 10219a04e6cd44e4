---------------------------- MODULE GameProfile ----------------------------
(***************************************************************************)
(* Game profiles: the quota and its log, the names, and the textures a     *)
(* profile wears (logic/game_profile.go, repository/txn/game_profile.go,   *)
(* repository/game_profile*.go).                                           *)
(*                                                                         *)
(* Requests run in slots.  A step is one SQL statement; what a transaction *)
(* writes after its checks nobody sees before the commit, so the writes    *)
(* and the commit are one step.  A profile stands for its id and its UUID. *)
(***************************************************************************)
EXTENDS Integers, FiniteSets

CONSTANTS
  Users,
  Profiles,  \* ids of profiles
  Names,     \* the well-formed names
  Skins,     \* ids of skins of the library
  Capes,     \* ids of capes of the library
  Procs,     \* slots in which requests run
  Work,      \* Work[p]: the operations slot p may run
  Largest,   \* the largest integer of the quota's width; the least is -Largest-1
  Deltas,    \* what administrators add to a total
  Faults,    \* statements and requests may fail
  None       \* no user, profile, name or texture

Ops == {"add", "rename", "wear", "quota", "adjust"}

ASSUME WorkAssumption == Work \in [Procs -> SUBSET Ops]
ASSUME WidthAssumption == Largest \in Nat \ {0}
ASSUME DeltasAssumption == Deltas \subseteq -Largest - 1 .. Largest
ASSUME FaultsAssumption == Faults \in BOOLEAN
ASSUME FiniteAssumption == IsFiniteSet(Profiles) /\ IsFiniteSet(Procs)
ASSUME NoneAssumption == None \notin Users \cup Profiles \cup Names \cup Skins \cup Capes \cup Procs

VARIABLES
  profile,  \* profile[x]: the row of profile x, or None
  quota,    \* quota[u]: the committed quota row of u, or None
  lock,     \* lock[u]: the slot whose transaction has locked or inserted that row
  log,      \* log[u]: the last entry of the quota log of u, or None
  held,     \* held[u][s]: user u has texture s of the library: "never", "now" or "before"
  library,  \* the textures of the library
  pc,       \* the next statement of each slot
  req       \* what its request has read

vars == <<profile, quota, lock, log, held, library, pc, req>>

Textures == Skins \cup Capes

Integer == -Largest - 1 .. Largest

\* int32 addition.
Wrap(n) == ((n + Largest + 1) % (2 * Largest + 2)) - Largest - 1

Quotas == [total : 0 .. Largest, used : 0 .. Largest]

\* The row a user gets on first use.
DefaultQuota == [total |-> 1, used |-> 0]

Entries == [beforeUsed : 0 .. Largest, afterUsed : 0 .. Largest,
            beforeTotal : 0 .. Largest, afterTotal : 0 .. Largest]

Rows == [owner : Users, name : Names, skin : Skins \cup {None}, cape : Capes \cup {None}]

ASSUME RowAssumption == None \notin Rows /\ None \notin Quotas

Statements ==
  {"idle", "lock", "insertQuota", "checkName", "commitAdd", "updateName", "checkHeld",
   "updateWorn", "commitAdjust"}

NoRequest == [op |-> "none", user |-> None, profile |-> None, name |-> None, kind |-> "skin",
              texture |-> None, delta |-> 0, quota |-> DefaultQuota]

Requests ==
  [op : Ops \cup {"none"}, user : Users \cup {None}, profile : Profiles \cup {None},
   name : Names \cup {None}, kind : {"skin", "cape"}, texture : Textures \cup {None},
   delta : Integer, quota : Quotas]

TypeOK ==
  /\ profile \in [Profiles -> Rows \cup {None}]
  /\ quota \in [Users -> Quotas \cup {None}]
  /\ lock \in [Users -> Procs \cup {None}]
  /\ log \in [Users -> Entries \cup {None}]
  /\ held \in [Users -> [Textures -> {"never", "now", "before"}]]
  /\ library \subseteq Textures
  /\ pc \in [Procs -> Statements]
  /\ req \in [Procs -> Requests]

Init ==
  /\ profile = [x \in Profiles |-> None]
  /\ quota = [u \in Users |-> None]
  /\ lock = [u \in Users |-> None]
  /\ log = [u \in Users |-> None]
  /\ held = [u \in Users |-> [s \in Textures |-> "never"]]
  /\ library = Textures
  /\ pc = [p \in Procs |-> "idle"]
  /\ req = [p \in Procs |-> NoRequest]

-----------------------------------------------------------------------------
(* Helpers. *)

Exists(x) == profile[x] # None

ProfilesOf(u) == {x \in Profiles : Exists(x) /\ profile[x].owner = u}

Named(n) == {x \in Profiles : Exists(x) /\ profile[x].name = n}

Owns(u, x) == Exists(x) /\ profile[x].owner = u

KindOf(s) == IF s \in Skins THEN "skin" ELSE "cape"

At(p, statement) == pc[p] = statement

Goes(p, statement, r) ==
  /\ pc' = [pc EXCEPT ![p] = statement]
  /\ req' = [req EXCEPT ![p] = r]

Ends(p) == Goes(p, "idle", NoRequest)

\* A request for op arrives in slot p.
Receive(p, op) == At(p, "idle") /\ op \in Work[p]

\* Mutant: what a refusal returns does not end the transaction.
Keeps(p) == UNCHANGED lock

\* A transaction ends, whether it commits or rolls back.
Releases(p) == lock' = [u \in Users |-> IF lock[u] = p THEN None ELSE lock[u]]

\* The transaction of slot p rolls back and the request ends.
Refuses(p) ==
  /\ Releases(p)
  /\ Ends(p)
  /\ UNCHANGED <<profile, quota, log, held, library>>

-----------------------------------------------------------------------------
(* The quota row. *)

\* GetQuota inserts the row when it is missing, outside a transaction.
StartQuota(p, u) ==
  /\ Receive(p, "quota")
  /\ quota[u] = None
  /\ Goes(p, "insertQuota", [NoRequest EXCEPT !.op = "quota", !.user = u])
  /\ UNCHANGED <<profile, quota, lock, log, held, library>>

\* Mutant: the new total is not compared with what is used.
NextStatementAdjust(r, q) ==
  IF r.op = "add" /\ q.used >= q.total THEN "idle"
  ELSE IF r.op = "add" THEN "checkName"
  ELSE "commitAdjust"

\* What the transaction of request r does with the row q it has locked: the
\* statement that follows, or "idle" when it refuses.
NextStatement(r, q) ==
  IF r.op = "add"
    THEN IF q.used < q.total THEN "checkName" ELSE "idle"
    ELSE IF Wrap(q.total + r.delta) >= q.used THEN "commitAdjust" ELSE "idle"

\* The transaction of slot p holds the row q of user u.
Locked(p, u, q) ==
  LET r == req[p]
      next == NextStatement(r, q)
  IN
  IF next = "idle"
    THEN Ends(p) /\ UNCHANGED lock
    ELSE /\ lock' = [lock EXCEPT ![u] = p]
         /\ Goes(p, next, [r EXCEPT !.quota = q])

\* Mutant: a plain SELECT.
Read(p) ==
  LET u == req[p].user IN
  /\ At(p, "lock")
  /\ IF quota[u] = None
       THEN Goes(p, "insertQuota", req[p]) /\ UNCHANGED lock
       ELSE Locked(p, u, quota[u])
  /\ UNCHANGED <<profile, quota, log, held, library>>

\* SELECT FOR UPDATE waits for the transaction that has locked the row; a row
\* that is not committed it does not find.
Lock(p) ==
  LET u == req[p].user IN
  /\ At(p, "lock")
  /\ IF quota[u] = None
       THEN Goes(p, "insertQuota", req[p]) /\ UNCHANGED lock
       ELSE lock[u] = None /\ Locked(p, u, quota[u])
  /\ UNCHANGED <<profile, quota, log, held, library>>

\* INSERT waits for the transaction that has inserted a row of this user, and
\* fails if that has committed.
InsertQuota(p) ==
  LET u == req[p].user IN
  /\ At(p, "insertQuota")
  /\ lock[u] = None
  /\ CASE quota[u] # None -> Ends(p) /\ UNCHANGED <<quota, lock>>
       [] quota[u] = None /\ req[p].op = "quota" ->
            quota' = [quota EXCEPT ![u] = DefaultQuota] /\ Ends(p) /\ UNCHANGED lock
       [] OTHER -> Locked(p, u, DefaultQuota) /\ UNCHANGED quota
  /\ UNCHANGED <<profile, log, held, library>>

\* The row an UPDATE of slot p changes: the committed one or that it inserted.
QuotaRow(p) == IF quota[req[p].user] = None THEN req[p].quota ELSE quota[req[p].user]

-----------------------------------------------------------------------------
(* Adding a profile. *)

StartAdd(p, u, x, n) ==
  /\ Receive(p, "add")
  /\ Goes(p, "lock", [NoRequest EXCEPT !.op = "add", !.user = u, !.profile = x, !.name = n])
  /\ UNCHANGED <<profile, quota, lock, log, held, library>>

\* ExistsByUUID.
UuidTaken(r) == r.op = "add" /\ Exists(r.profile)

\* Mutant: the name is not looked up.
NameTakenNever(r) == FALSE

\* ExistsByNameExceptID; no profile is excepted when one is added.
NameTaken(r) == Named(r.name) \ (IF r.op = "rename" THEN {r.profile} ELSE {}) # {}

CheckName(p) ==
  /\ At(p, "checkName")
  /\ ~UuidTaken(req[p]) /\ ~NameTaken(req[p])
  /\ Goes(p, IF req[p].op = "add" THEN "commitAdd" ELSE "updateName", req[p])
  /\ UNCHANGED <<profile, quota, lock, log, held, library>>

NameConflict(p) ==
  /\ At(p, "checkName")
  /\ UuidTaken(req[p]) \/ NameTaken(req[p])
  /\ Refuses(p)

\* The log entry of a transaction that has read the row q.
EntryOfAdd(q) ==
  [beforeUsed |-> q.used, afterUsed |-> q.used + 1, beforeTotal |-> q.total, afterTotal |-> q.total]

\* The profile, the quota and the log are written; the UUID is unique.
CommitAdd(p) ==
  LET r == req[p] IN
  /\ At(p, "commitAdd")
  /\ ~Exists(r.profile)
  /\ profile' = [profile EXCEPT ![r.profile] =
                   [owner |-> r.user, name |-> r.name, skin |-> None, cape |-> None]]
  /\ quota' = [quota EXCEPT ![r.user] = [QuotaRow(p) EXCEPT !.used = r.quota.used + 1]]
  /\ log' = [log EXCEPT ![r.user] = EntryOfAdd(r.quota)]
  /\ Releases(p)
  /\ Ends(p)
  /\ UNCHANGED <<held, library>>

CommitAddFails(p) == At(p, "commitAdd") /\ Exists(req[p].profile) /\ Refuses(p)

-----------------------------------------------------------------------------
(* Adjusting the total. *)

StartAdjust(p, u, delta) ==
  /\ Receive(p, "adjust")
  /\ delta # 0
  /\ Goes(p, "lock", [NoRequest EXCEPT !.op = "adjust", !.user = u, !.delta = delta])
  /\ UNCHANGED <<profile, quota, lock, log, held, library>>

\* The total before is computed back from the new one.
EntryOfAdjust(q, delta) ==
  LET new == Wrap(q.total + delta) IN
  [beforeUsed |-> q.used, afterUsed |-> q.used,
   beforeTotal |-> Wrap(new - delta), afterTotal |-> new]

CommitAdjust(p) ==
  LET r == req[p] IN
  /\ At(p, "commitAdjust")
  /\ quota' = [quota EXCEPT ![r.user] = [QuotaRow(p) EXCEPT !.total = Wrap(r.quota.total + r.delta)]]
  /\ log' = [log EXCEPT ![r.user] = EntryOfAdjust(r.quota, r.delta)]
  /\ Releases(p)
  /\ Ends(p)
  /\ UNCHANGED <<profile, held, library>>

-----------------------------------------------------------------------------
(* Changing a name, and what is worn. *)

\* The profile is read; its own name is no change.
StartRename(p, u, x, n) ==
  /\ Receive(p, "rename")
  /\ Owns(u, x) /\ profile[x].name # n
  /\ Goes(p, "checkName", [NoRequest EXCEPT !.op = "rename", !.user = u, !.profile = x, !.name = n])
  /\ UNCHANGED <<profile, quota, lock, log, held, library>>

UpdateName(p) ==
  LET r == req[p] IN
  /\ At(p, "updateName")
  /\ profile' = [profile EXCEPT ![r.profile].name = r.name]
  /\ Ends(p)
  /\ UNCHANGED <<quota, lock, log, held, library>>

\* Mutant: whether the user has the texture is not looked up.
StartWearUnchecked(p, u, x, s) ==
  /\ Receive(p, "wear")
  /\ Owns(u, x)
  /\ Goes(p, "updateWorn", [NoRequest EXCEPT !.op = "wear", !.user = u, !.profile = x,
                                             !.texture = s, !.kind = KindOf(s)])
  /\ UNCHANGED <<profile, quota, lock, log, held, library>>

\* EquipSkin, EquipCape.
StartWear(p, u, x, s) ==
  /\ Receive(p, "wear")
  /\ Owns(u, x)
  /\ Goes(p, "checkHeld", [NoRequest EXCEPT !.op = "wear", !.user = u, !.profile = x,
                                            !.texture = s, !.kind = KindOf(s)])
  /\ UNCHANGED <<profile, quota, lock, log, held, library>>

\* UnequipSkin, UnequipCape.
StartTakeOff(p, u, x, kind) ==
  /\ Receive(p, "wear")
  /\ Owns(u, x)
  /\ Goes(p, "updateWorn", [NoRequest EXCEPT !.op = "wear", !.user = u, !.profile = x, !.kind = kind])
  /\ UNCHANGED <<profile, quota, lock, log, held, library>>

\* ExistsByUserAndSkin, ExistsByUserAndCape.
CheckHeld(p) ==
  /\ At(p, "checkHeld")
  /\ IF held[req[p].user][req[p].texture] = "now" THEN Goes(p, "updateWorn", req[p]) ELSE Ends(p)
  /\ UNCHANGED <<profile, quota, lock, log, held, library>>

\* The column refers to the library.
UpdateWorn(p) ==
  LET r == req[p] IN
  /\ At(p, "updateWorn")
  /\ IF r.texture \in library \cup {None}
       THEN profile' = [profile EXCEPT ![r.profile][r.kind] = r.texture]
       ELSE UNCHANGED profile
  /\ Ends(p)
  /\ UNCHANGED <<quota, lock, log, held, library>>

-----------------------------------------------------------------------------
(* The library, as profiles see it. *)

Associate(u, s) ==
  /\ s \in library
  /\ held' = [held EXCEPT ![u][s] = "now"]
  /\ UNCHANGED <<profile, quota, lock, log, library, pc, req>>

Revoke(u, s) ==
  /\ held[u][s] = "now"
  /\ held' = [held EXCEPT ![u][s] = "before"]
  /\ UNCHANGED <<profile, quota, lock, log, library, pc, req>>

\* What refers to the record is set to NULL, its associations go.
DeleteTexture(s) ==
  LET off(t) == IF t = s THEN None ELSE t IN
  /\ s \in library
  /\ library' = library \ {s}
  /\ held' = [u \in Users |-> [held[u] EXCEPT ![s] = IF @ = "now" THEN "before" ELSE @]]
  /\ profile' = [x \in Profiles |->
       IF Exists(x) THEN [profile[x] EXCEPT !.skin = off(@), !.cape = off(@)] ELSE None]
  /\ UNCHANGED <<quota, lock, log, pc, req>>

-----------------------------------------------------------------------------
\* A statement of the request fails, or the request is cut off.
Fail(p) == Faults /\ ~At(p, "idle") /\ Refuses(p)

Arrive(p) ==
  \E u \in Users :
    \/ StartQuota(p, u)
    \/ \E x \in Profiles, n \in Names : StartAdd(p, u, x, n) \/ StartRename(p, u, x, n)
    \/ \E x \in Profiles, s \in Textures : StartWear(p, u, x, s)
    \/ \E x \in Profiles, kind \in {"skin", "cape"} : StartTakeOff(p, u, x, kind)
    \/ \E delta \in Deltas : StartAdjust(p, u, delta)

\* A step of the request in slot p.
Step(p) ==
  \/ Lock(p) \/ InsertQuota(p)
  \/ CheckName(p) \/ NameConflict(p) \/ CommitAdd(p) \/ CommitAddFails(p)
  \/ CommitAdjust(p)
  \/ UpdateName(p) \/ CheckHeld(p) \/ UpdateWorn(p)

Library ==
  \/ \E u \in Users, s \in Textures : Associate(u, s) \/ Revoke(u, s)
  \/ \E s \in Textures : DeleteTexture(s)

Next == Library \/ \E p \in Procs : Arrive(p) \/ Step(p) \/ Fail(p)

Spec == Init /\ [][Next]_vars

\* Statements are executed, and those that wait for a row queue for it.
FairSpec == Spec /\ \A p \in Procs : SF_vars(Step(p))

-----------------------------------------------------------------------------
(***************************************************************************)
(* Properties.                                                             *)
(***************************************************************************)

\* The counter says how many profiles the user has, whatever additions,
\* adjustments and first uses of the row overlap or fail.
UsedCounted ==
  \A u \in Users :
    Cardinality(ProfilesOf(u)) = IF quota[u] = None THEN 0 ELSE quota[u].used

\* The slots that give names.
Namers == {p \in Procs : Work[p] \cap {"add", "rename"} # {}}

\* Names are looked up, not locked: requests that overlap may give the same
\* name, but no more profiles get it than slots give names, and only one does
\* when these requests follow one another.
NameOvershoot == \A n \in Names : Cardinality(Named(n)) <= Cardinality(Namers)

\* What a profile wears is in the library and is or was its owner's, though the
\* check and the update are two statements and the library changes in between.
WornWasHeld ==
  \A x \in Profiles :
    Exists(x) =>
      \A s \in {profile[x].skin, profile[x].cape} \ {None} :
        s \in library /\ held[profile[x].owner][s] # "never"

\* The quota is an account: a missing row is a new account, used is the number
\* of profiles that exist.
account ==
  [u \in Users |->
    [used |-> Cardinality(ProfilesOf(u)),
     total |-> IF quota[u] = None THEN DefaultQuota.total ELSE quota[u].total,
     last |-> log[u]]]

Account == INSTANCE ProfileAccount WITH account <- account

\* Every change of profiles, quota and log is one step of that account: it is
\* within the total of that moment, and the log entry tells exactly what it did.
AccountKept == Account!Spec

\* Every request ends, so no lock is kept: also one that waits for a row that
\* others lock again and again, or whose transaction is refused.
RequestsEnd == \A p \in Procs : ~At(p, "idle") ~> At(p, "idle")
=============================================================================
