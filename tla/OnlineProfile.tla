--------------------------- MODULE OnlineProfile ---------------------------
(***************************************************************************)
(* Textures of the Mojang account that has the name of a profile, cached   *)
(* in the database for half an hour (logic/yggdrasil/mojang.go,            *)
(* repository/game_online_profile.go).  One mutex per name keeps requests  *)
(* from asking Mojang for the same name at a time.                         *)
(*                                                                         *)
(* Requests run in slots, a step is one statement, one call of Mojang or   *)
(* one operation on the mutex.  Sessions continues these slots.            *)
(***************************************************************************)
EXTENDS Integers, FiniteSets

CONSTANTS
  Profiles,  \* ids of profiles
  Names,     \* names of profiles
  Procs,     \* slots in which requests run
  None       \* no profile, name, slot or record

ASSUME NoneAssumption == None \notin Profiles \cup Names \cup Procs
ASSUME ProcsAssumption == IsFiniteSet(Procs)

VARIABLES
  name,    \* name[x]: the name of profile x
  record,  \* record[x]: what is cached for profile x, or None
  holder,  \* holder[n]: the slot that has locked the mutex of name n, or None
  pc,      \* the next step of each slot
  asks     \* asks[p]: the profile, as slot p has read it

onlineVars == <<name, record, holder>>

\* valid: expires_at is in the future.  of: the name Mojang was asked for.
Records == [of : Names, online : BOOLEAN, textures : BOOLEAN, valid : BOOLEAN]

OnlineSteps == {"read", "lock", "readAgain", "lookup", "fetch", "upsert", "unlock"}

NoQuestion == [profile |-> None, name |-> None, record |-> None]

Questions ==
  [profile : Profiles \cup {None}, name : Names \cup {None}, record : Records \cup {None}]

OnlineTypeOK ==
  /\ name \in [Profiles -> Names]
  /\ record \in [Profiles -> Records \cup {None}]
  /\ holder \in [Names -> Procs \cup {None}]
  /\ asks \in [Procs -> Questions]

OnlineInit ==
  /\ name \in [Profiles -> Names]
  /\ record = [x \in Profiles |-> None]
  /\ holder = [n \in Names |-> None]
  /\ asks = [p \in Procs |-> NoQuestion]

-----------------------------------------------------------------------------
At(p, step) == pc[p] = step

Continue(p, step, q) ==
  /\ pc' = [pc EXCEPT ![p] = step]
  /\ asks' = [asks EXCEPT ![p] = q]

Done(p) == Continue(p, "idle", NoQuestion)

Valid(x) == record[x] # None /\ record[x].valid

\* BuildProfileResponse lacks a texture of profile x.
AskFor(p, x) == Continue(p, "read", [NoQuestion EXCEPT !.profile = x, !.name = name[x]])

\* A cached record is the answer, whether the account exists or not; an error
\* of the database ends the request as well.
Read(p) ==
  LET q == asks[p] IN
  /\ At(p, "read")
  /\ \/ ~Valid(q.profile) /\ Continue(p, "lock", q)
     \/ Done(p)
  /\ UNCHANGED onlineVars

\* Mutant: a mutex of its own for every request.
LockOwn(p) ==
  /\ At(p, "lock")
  /\ Continue(p, "readAgain", asks[p])
  /\ UNCHANGED onlineVars

Lock(p) ==
  LET n == asks[p].name IN
  /\ At(p, "lock")
  /\ holder[n] = None
  /\ holder' = [holder EXCEPT ![n] = p]
  /\ Continue(p, "readAgain", asks[p])
  /\ UNCHANGED <<name, record>>

\* Another request may have filled it while this one waited.
ReadAgain(p) ==
  LET q == asks[p] IN
  /\ At(p, "readAgain")
  /\ \/ ~Valid(q.profile) /\ Continue(p, "lookup", q)
     \/ Continue(p, "unlock", q)
  /\ UNCHANGED onlineVars

\* The record slot p will store.
Stores(p, step, online, textures) ==
  Continue(p, step, [asks[p] EXCEPT !.record =
    [of |-> asks[p].name, online |-> online, textures |-> textures, valid |-> TRUE]])

\* Any failure counts as an account that does not exist.
Lookup(p) ==
  /\ At(p, "lookup")
  /\ \/ Stores(p, "fetch", TRUE, FALSE)
     \/ Stores(p, "upsert", FALSE, FALSE)
  /\ UNCHANGED onlineVars

\* Mutant: after a failure the textures are not set.
FetchUnset(p) ==
  /\ At(p, "fetch")
  /\ \E textures \in BOOLEAN \cup {None} : Stores(p, "upsert", TRUE, textures)
  /\ UNCHANGED onlineVars

\* Any failure counts as an account without textures.
Fetch(p) ==
  /\ At(p, "fetch")
  /\ \E textures \in BOOLEAN : Stores(p, "upsert", TRUE, textures)
  /\ UNCHANGED onlineVars

\* Mutant: a failure to store returns before the mutex is unlocked.
UpsertReturns(p) ==
  LET q == asks[p] IN
  /\ At(p, "upsert")
  /\ \/ record' = [record EXCEPT ![q.profile] = q.record] /\ Continue(p, "unlock", q)
     \/ UNCHANGED record /\ Done(p)
  /\ UNCHANGED <<name, holder>>

\* A failure to store is logged.
Upsert(p) ==
  LET q == asks[p] IN
  /\ At(p, "upsert")
  /\ \/ record' = [record EXCEPT ![q.profile] = q.record]
     \/ UNCHANGED record
  /\ Continue(p, "unlock", q)
  /\ UNCHANGED <<name, holder>>

\* The deferred Unlock.
Unlock(p) ==
  /\ At(p, "unlock")
  /\ holder' = [holder EXCEPT ![asks[p].name] = None]
  /\ Done(p)
  /\ UNCHANGED <<name, record>>

OnlineStep(p) ==
  \/ Read(p) \/ Lock(p) \/ ReadAgain(p) \/ Lookup(p) \/ Fetch(p) \/ Upsert(p) \/ Unlock(p)

\* Half an hour is over.
ExpireRecord(x) ==
  /\ Valid(x)
  /\ record' = [record EXCEPT ![x].valid = FALSE]
  /\ UNCHANGED <<name, holder, pc, asks>>

\* ChangeUsername: the record stays.
Rename(x, n) ==
  /\ name[x] # n
  /\ name' = [name EXCEPT ![x] = n]
  /\ UNCHANGED <<record, holder, pc, asks>>

OnlineOutside ==
  \E x \in Profiles : ExpireRecord(x) \/ \E n \in Names : Rename(x, n)

-----------------------------------------------------------------------------
\* Mojang is asked for a name and a profile only while nothing valid is cached
\* for them: not by two requests at a time, and not by one that waited for
\* another's answer.  Only under another name may a record have come meanwhile.
AskedOnlyWhenMissing ==
  \A p \in Procs :
    pc[p] \in {"lookup", "fetch", "upsert"} =>
      /\ Valid(asks[p].profile) => record[asks[p].profile].of # asks[p].name
      /\ \A q \in Procs \ {p} :
           pc[q] \in {"lookup", "fetch", "upsert"} => asks[q].name # asks[p].name
=============================================================================
