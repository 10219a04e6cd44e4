------------------------- MODULE GameProfileProofs -------------------------
(***************************************************************************)
(* Proofs about GameProfile for every set of users, profiles, names,       *)
(* textures and slots, every workload and every width of the quota.        *)
(*                                                                         *)
(* The inductive invariant Inv says what a slot knows at each statement    *)
(* (Shape): above all, that a transaction past its first statement holds   *)
(* the lock of its user's quota, which is still the row it has read.  The  *)
(* count of profiles (UsedCounted) and the textures worn (WornWasHeld)     *)
(* are inductive with it; so is a bound on the profiles that have a name   *)
(* or are about to get it (NamesBounded).                                  *)
(***************************************************************************)
EXTENDS GameProfile, FiniteSetTheorems, TLAPS

\* The quota a transaction of u works with.
Row(u) == IF quota[u] = None THEN DefaultQuota ELSE quota[u]

\* Slot p is past the first statement of a transaction on the quota.
InTransaction(p) ==
  pc[p] \in {"commitAdd", "commitAdjust"} \/ (pc[p] = "checkName" /\ req[p].op = "add")

Shape(p) ==
  LET r == req[p] IN
  /\ pc[p] # "idle" => r.user \in Users
  /\ pc[p] = "lock" => r.op \in {"add", "adjust"}
  /\ pc[p] = "insertQuota" => r.op \in {"add", "adjust", "quota"}
  /\ pc[p] = "checkName" => r.op \in {"add", "rename"}
  /\ pc[p] = "commitAdd" => r.op = "add"
  /\ pc[p] = "commitAdjust" => r.op = "adjust"
  /\ pc[p] = "updateName" => r.op = "rename"
  /\ pc[p] \in {"checkHeld", "updateWorn"} => r.op = "wear"
  /\ pc[p] = "checkHeld" => r.texture \in Textures
  /\ pc[p] = "updateWorn" /\ r.texture # None => held[r.user][r.texture] # "never"
  /\ r.op # "none" => r.op \in Work[p]
  /\ r.op \in {"add", "rename"} => r.profile \in Profiles /\ r.name \in Names
  /\ r.op \in {"rename", "wear"} => r.profile \in Profiles /\ Owns(r.user, r.profile)
  /\ r.op = "wear" =>
       r.texture \in (IF r.kind = "skin" THEN Skins ELSE Capes) \cup {None}
  /\ InTransaction(p) =>
       /\ lock[r.user] = p
       /\ r.quota = Row(r.user)
       /\ r.op = "add" => r.quota.used < r.quota.total
       /\ r.op = "adjust" => Wrap(r.quota.total + r.delta) >= r.quota.used

Shapes == \A p \in Procs : Shape(p)

Inv == TypeOK /\ Shapes /\ UsedCounted /\ WornWasHeld

\* The slots that are about to give the name n.
Pending(n) ==
  {p \in Procs : pc[p] \in {"commitAdd", "updateName"} /\ req[p].name = n}

\* The profiles that have the name n or are about to get it.
NamedSoon(n) == Named(n) \cup {req[p].profile : p \in Pending(n)}

NamesBounded == \A n \in Names : Cardinality(NamedSoon(n)) <= Cardinality(Namers)
--------------------------------------------------------------------------
(* Arithmetic of the quota. *)

\* Adding to a total wraps around at most once, and can be undone.
LEMMA WrapAdds ==
  ASSUME NEW t \in 0 .. Largest, NEW d \in Integer
  PROVE  /\ Wrap(t + d) \in Integer
         /\ Wrap(Wrap(t + d) - d) = t
  <1>1. Wrap(t + d) = IF t + d <= Largest THEN t + d ELSE t + d - (2 * Largest + 2)
    BY WidthAssumption DEF Wrap, Integer
  <1>2. Wrap(t + d) \in Integer
    BY <1>1, WidthAssumption DEF Integer
  <1>3. Wrap(Wrap(t + d) - d) = t
    BY <1>1, WidthAssumption DEF Integer, Wrap
  <1> QED
    BY <1>2, <1>3

--------------------------------------------------------------------------
(* What a step of one slot leaves to the others. *)

\* The tables.
tables == <<profile, quota, log, held, library>>

LEMMA InitInv == Init => Inv
  <1> SUFFICES ASSUME Init PROVE Inv
    OBVIOUS
  <1>1. NoRequest \in Requests
    BY WidthAssumption DEF NoRequest, Requests, DefaultQuota, Quotas, Integer
  <1>2. TypeOK
    BY <1>1 DEF Init, TypeOK, Statements
  <1>3. Shapes
    BY DEF Init, Shapes, Shape, NoRequest, InTransaction
  <1>4. UsedCounted
    <2>1. \A u \in Users : ProfilesOf(u) = {}
      BY DEF Init, ProfilesOf, Exists
    <2> QED
      BY <2>1, FS_EmptySet DEF UsedCounted, Init
  <1>5. WornWasHeld
    BY DEF Init, WornWasHeld, Exists
  <1> QED
    BY <1>2, <1>3, <1>4, <1>5 DEF Inv

\* A slot keeps its shape while another one steps, if that leaves alone the
\* quota rows it has locked, who owns a profile and what has been held.
LEMMA OtherShape ==
  ASSUME TypeOK, NEW q \in Procs, Shape(q), pc'[q] = pc[q], req'[q] = req[q],
         \A u \in Users : lock[u] = q => lock'[u] = q /\ quota'[u] = quota[u],
         \A u \in Users, x \in Profiles : Owns(u, x) => Owns(u, x)',
         \A u \in Users, s \in Textures : held[u][s] # "never" => held'[u][s] # "never"
  PROVE  Shape(q)'
  <1> DEFINE r == req[q]
  <1>1. r \in Requests
    BY DEF TypeOK
  <1>2. InTransaction(q)' = InTransaction(q)
    BY DEF InTransaction
  <1>3. InTransaction(q) => lock[r.user] = q /\ r.user \in Users
    BY DEF Shape, InTransaction
  <1>4. InTransaction(q) => lock'[r.user] = q /\ Row(r.user)' = Row(r.user)
    BY <1>3 DEF Row
  <1>5. pc[q] = "updateWorn" /\ r.texture # None => held'[r.user][r.texture] # "never"
    BY <1>1 DEF Shape, Requests
  <1>6. r.op \in {"rename", "wear"} => Owns(r.user, r.profile)'
    <2>1. r.op \in {"rename", "wear"} =>
            r.profile \in Profiles /\ Owns(r.user, r.profile) /\ r.user \in Users
      BY DEF Shape, Owns, Exists, TypeOK, Rows
    <2> QED
      BY <2>1
  <1> QED
    BY <1>2, <1>4, <1>5, <1>6 DEF Shape

\* A step of slot p, given what p's next statement needs.
LEMMA StepShapes ==
  ASSUME Inv, NEW p \in Procs, NEW l, NEW r, Shape(p)',
         pc' = [pc EXCEPT ![p] = l], req' = [req EXCEPT ![p] = r],
         \A q \in Procs \ {p}, u \in Users : lock[u] = q => lock'[u] = q /\ quota'[u] = quota[u],
         \A u \in Users, x \in Profiles : Owns(u, x) => Owns(u, x)',
         held' = held
  PROVE  Shapes'
  <1> SUFFICES ASSUME NEW q \in Procs PROVE Shape(q)'
    BY DEF Shapes
  <1>1. CASE q # p
    <2>1. pc'[q] = pc[q] /\ req'[q] = req[q]
      BY <1>1 DEF Inv, TypeOK
    <2> QED
      BY <1>1, <2>1, OtherShape DEF Inv, Shapes
  <1> QED
    BY <1>1

\* A step of slot p that writes no table.
LEMMA TableStepInv ==
  ASSUME Inv, NEW p \in Procs, NEW l \in Statements, NEW r \in Requests, Shape(p)',
         pc' = [pc EXCEPT ![p] = l], req' = [req EXCEPT ![p] = r],
         lock' \in [Users -> Procs \cup {None}],
         \A q \in Procs \ {p}, u \in Users : lock[u] = q => lock'[u] = q,
         UNCHANGED tables
  PROVE  Inv'
  <1>1. \A u \in Users, x \in Profiles : Owns(u, x)' = Owns(u, x)
    BY DEF Owns, Exists, tables
  <1>2. Shapes'
    BY <1>1, StepShapes DEF tables
  <1>3. TypeOK'
    BY DEF Inv, TypeOK, tables
  <1>4. UsedCounted' /\ WornWasHeld'
    BY DEF Inv, UsedCounted, WornWasHeld, ProfilesOf, Exists, tables
  <1> QED
    BY <1>2, <1>3, <1>4 DEF Inv

\* A step of slot p that writes no table and takes no lock.
LEMMA ReadInv ==
  ASSUME Inv, NEW p \in Procs, NEW l \in Statements, NEW r \in Requests, Shape(p)',
         Goes(p, l, r), UNCHANGED <<profile, quota, lock, log, held, library>>
  PROVE  Inv'
  BY TableStepInv DEF Goes, tables, Inv, TypeOK

\* The request of a slot that has ended knows nothing.
LEMMA EndShape ==
  ASSUME TypeOK, NEW p \in Procs, Ends(p)
  PROVE  /\ Shape(p)'
         /\ NoRequest \in Requests
         /\ "idle" \in Statements
  <1>1. NoRequest \in Requests
    BY WidthAssumption DEF NoRequest, Requests, DefaultQuota, Quotas, Integer
  <1>2. pc'[p] = "idle" /\ req'[p] = NoRequest
    BY DEF Ends, Goes, TypeOK
  <1> QED
    BY <1>1, <1>2 DEF Shape, NoRequest, InTransaction, Statements

\* A request ends; its transaction, if it has one, is rolled back.
LEMMA EndInv ==
  ASSUME Inv, NEW p \in Procs, Ends(p), Releases(p) \/ lock' = lock, UNCHANGED tables
  PROVE  Inv'
  <1>1. lock' \in [Users -> Procs \cup {None}]
    BY DEF Releases, Inv, TypeOK
  <1>2. \A q \in Procs \ {p}, u \in Users : lock[u] = q => lock'[u] = q
    BY DEF Releases
  <1> QED
    BY <1>1, <1>2, EndShape, TableStepInv DEF Ends, Goes, Inv

LEMMA RefuseInv ==
  ASSUME Inv, NEW p \in Procs, Refuses(p)
  PROVE  Inv'
  BY EndInv DEF Refuses, tables
--------------------------------------------------------------------------
(* The quota row. *)

\* The transaction of slot p takes the row of its user, which nobody holds.
LEMMA LockedInv ==
  ASSUME Inv, NEW p \in Procs, pc[p] \in {"lock", "insertQuota"},
         req[p].op \in {"add", "adjust"}, lock[req[p].user] = None,
         Locked(p, req[p].user, Row(req[p].user)), UNCHANGED tables
  PROVE  Inv'
  <1> DEFINE r == req[p]
             u == r.user
             q == Row(u)
             next == NextStatement(r, q)
             s == [r EXCEPT !.quota = q]
  <1>1. r \in Requests /\ u \in Users /\ q \in Quotas /\ Shape(p)
    BY WidthAssumption DEF Inv, TypeOK, Shapes, Shape, Row, DefaultQuota, Quotas
  <1>2. CASE next = "idle"
    BY <1>2, EndInv DEF Locked
  <1>3. CASE next # "idle"
    <2>1. /\ lock' = [lock EXCEPT ![u] = p]
          /\ pc' = [pc EXCEPT ![p] = next] /\ req' = [req EXCEPT ![p] = s]
      BY <1>3 DEF Locked, Goes
    <2>2. \/ next = "checkName" /\ r.op = "add" /\ q.used < q.total
          \/ next = "commitAdjust" /\ r.op = "adjust" /\ Wrap(q.total + r.delta) >= q.used
      BY <1>1, <1>3 DEF NextStatement
    <2>3. s \in Requests /\ next \in Statements
      BY <1>1, <2>2 DEF Requests, Statements
    <2>4. pc'[p] = next /\ req'[p] = s /\ lock'[u] = p /\ Row(u)' = q
      BY <1>1, <2>1 DEF Inv, TypeOK, tables, Row
    <2>5. /\ s.op = r.op /\ s.user = u /\ s.quota = q /\ s.delta = r.delta
          /\ s.profile = r.profile /\ s.name = r.name
      BY <1>1 DEF Requests
    <2>6. Shape(p)'
      BY <1>1, <2>2, <2>4, <2>5 DEF Shape, InTransaction
    <2>7. lock' \in [Users -> Procs \cup {None}]
      BY <2>1 DEF Inv, TypeOK
    <2>8. \A z \in Procs \ {p}, v \in Users : lock[v] = z => lock'[v] = z
      BY <2>1, NoneAssumption DEF Inv, TypeOK
    <2> QED
      BY <2>1, <2>3, <2>6, <2>7, <2>8, TableStepInv
  <1> QED
    BY <1>2, <1>3

\* A request that has no quota row yet goes on to insert it.
LEMMA GoesInsert ==
  ASSUME Inv, NEW p \in Procs, pc[p] = "lock", Goes(p, "insertQuota", req[p]),
         UNCHANGED <<profile, quota, lock, log, held, library>>
  PROVE  Inv'
  <1>1. pc'[p] = "insertQuota" /\ req'[p] = req[p] /\ req[p] \in Requests
    BY DEF Goes, Inv, TypeOK
  <1>2. Shape(p)'
    BY <1>1 DEF Inv, Shapes, Shape, InTransaction
  <1> QED
    BY <1>1, <1>2, ReadInv DEF Statements

LEMMA LockInv ==
  ASSUME Inv, NEW p \in Procs, Lock(p)
  PROVE  Inv'
  <1>1. pc[p] = "lock" /\ req[p].op \in {"add", "adjust"} /\ UNCHANGED tables
    BY DEF Lock, At, Inv, Shapes, Shape, tables
  <1>2. CASE quota[req[p].user] = None
    BY <1>1, <1>2, GoesInsert DEF Lock, tables
  <1>3. CASE quota[req[p].user] # None
    BY <1>1, <1>3, LockedInv DEF Lock, Row
  <1> QED
    BY <1>2, <1>3

LEMMA InsertQuotaInv ==
  ASSUME Inv, NEW p \in Procs, InsertQuota(p)
  PROVE  Inv'
  <1> DEFINE u == req[p].user
  <1>1. /\ pc[p] = "insertQuota" /\ req[p].op \in {"add", "adjust", "quota"} /\ u \in Users
        /\ lock[u] = None /\ UNCHANGED <<profile, log, held, library>>
    BY DEF InsertQuota, At, Inv, Shapes, Shape
  <1>2. CASE quota[u] # None
    BY <1>1, <1>2, EndInv DEF InsertQuota, tables
  <1>3. CASE quota[u] = None /\ req[p].op # "quota"
    BY <1>1, <1>3, LockedInv DEF InsertQuota, tables, Row
  <1>4. CASE quota[u] = None /\ req[p].op = "quota"
    <2>1. quota' = [quota EXCEPT ![u] = DefaultQuota] /\ Ends(p) /\ lock' = lock
      BY <1>4 DEF InsertQuota
    <2>2. Shape(p)' /\ NoRequest \in Requests /\ "idle" \in Statements
      BY <2>1, EndShape DEF Inv
    <2>3. \A q \in Procs \ {p}, v \in Users : lock[v] = q => lock'[v] = q /\ quota'[v] = quota[v]
      BY <1>1, <2>1, NoneAssumption DEF Inv, TypeOK
    <2>4. Shapes'
      <3>1. \A v \in Users, x \in Profiles : Owns(v, x)' = Owns(v, x)
        BY <1>1 DEF Owns, Exists
      <3> QED
        BY <1>1, <2>1, <2>2, <2>3, <3>1, StepShapes DEF Ends, Goes
    <2>5. TypeOK'
      BY <1>1, <2>1, <2>2, WidthAssumption DEF Inv, TypeOK, DefaultQuota, Quotas, Ends, Goes
    <2>6. UsedCounted'
      <3>1. \A v \in Users : ProfilesOf(v)' = ProfilesOf(v)
        BY <1>1 DEF ProfilesOf, Exists
      <3>2. DefaultQuota # None /\ DefaultQuota.used = 0
        BY RowAssumption, WidthAssumption DEF DefaultQuota, Quotas
      <3> QED
        BY <1>4, <2>1, <3>1, <3>2 DEF Inv, UsedCounted, TypeOK
    <2>7. WornWasHeld'
      BY <1>1 DEF Inv, WornWasHeld, Exists
    <2> QED
      BY <2>4, <2>5, <2>6, <2>7 DEF Inv
  <1> QED
    BY <1>2, <1>3, <1>4

--------------------------------------------------------------------------
(* Requests that arrive. *)

\* A request arrives: it has a user and what its operation needs.
LEMMA ArriveInv ==
  ASSUME Inv, NEW p \in Procs, Arrive(p)
  PROVE  Inv'
  <1>1. PICK u \in Users :
          \/ StartQuota(p, u)
          \/ \E x \in Profiles, n \in Names : StartAdd(p, u, x, n) \/ StartRename(p, u, x, n)
          \/ \E x \in Profiles, s \in Textures : StartWear(p, u, x, s)
          \/ \E x \in Profiles, kind \in {"skin", "cape"} : StartTakeOff(p, u, x, kind)
          \/ \E delta \in Deltas : StartAdjust(p, u, delta)
    BY DEF Arrive
  <1>2. NoRequest \in Requests
    BY WidthAssumption DEF NoRequest, Requests, DefaultQuota, Quotas, Integer
  <1>3. CASE StartQuota(p, u)
    <2> DEFINE r == [NoRequest EXCEPT !.op = "quota", !.user = u]
    <2>1. /\ Goes(p, "insertQuota", r) /\ "quota" \in Work[p]
          /\ UNCHANGED <<profile, quota, lock, log, held, library>>
      BY <1>3 DEF StartQuota, Receive
    <2>2. r \in Requests /\ r.op = "quota" /\ r.user = u
      BY <1>2 DEF Requests, NoRequest, Ops
    <2>3. Shape(p)'
      <3>1. pc'[p] = "insertQuota" /\ req'[p] = r
        BY <2>1 DEF Goes, Inv, TypeOK
      <3> HIDE DEF r
      <3> QED
        BY <3>1, <2>1, <2>2 DEF Shape, InTransaction
    <2> QED
      BY <2>1, <2>2, <2>3, ReadInv DEF Statements
  <1>4. ASSUME NEW x \in Profiles, NEW n \in Names, StartAdd(p, u, x, n)
        PROVE  Inv'
    <2> DEFINE r == [NoRequest EXCEPT !.op = "add", !.user = u, !.profile = x, !.name = n]
    <2>1. /\ Goes(p, "lock", r) /\ "add" \in Work[p]
          /\ UNCHANGED <<profile, quota, lock, log, held, library>>
      BY <1>4 DEF StartAdd, Receive
    <2>2. r \in Requests /\ r.op = "add" /\ r.user = u /\ r.profile = x /\ r.name = n
      BY <1>2 DEF Requests, NoRequest, Ops
    <2>3. Shape(p)'
      <3>1. pc'[p] = "lock" /\ req'[p] = r
        BY <2>1 DEF Goes, Inv, TypeOK
      <3> HIDE DEF r
      <3> QED
        BY <3>1, <2>1, <2>2 DEF Shape, InTransaction
    <2> QED
      BY <2>1, <2>2, <2>3, ReadInv DEF Statements
  <1>5. ASSUME NEW x \in Profiles, NEW n \in Names, StartRename(p, u, x, n)
        PROVE  Inv'
    <2> DEFINE r == [NoRequest EXCEPT !.op = "rename", !.user = u, !.profile = x, !.name = n]
    <2>1. /\ Goes(p, "checkName", r) /\ "rename" \in Work[p] /\ Owns(u, x)
          /\ UNCHANGED <<profile, quota, lock, log, held, library>>
      BY <1>5 DEF StartRename, Receive
    <2>2. r \in Requests /\ r.op = "rename" /\ r.user = u /\ r.profile = x /\ r.name = n
      BY <1>2 DEF Requests, NoRequest, Ops
    <2>3. Owns(u, x)'
      BY <2>1 DEF Owns, Exists
    <2>4. Shape(p)'
      <3>1. pc'[p] = "checkName" /\ req'[p] = r
        BY <2>1 DEF Goes, Inv, TypeOK
      <3> HIDE DEF r
      <3> QED
        BY <3>1, <2>1, <2>2, <2>3 DEF Shape, InTransaction
    <2> QED
      BY <2>1, <2>2, <2>4, ReadInv DEF Statements
  <1>6. ASSUME NEW x \in Profiles, NEW s \in Textures, StartWear(p, u, x, s)
        PROVE  Inv'
    <2> DEFINE r == [NoRequest EXCEPT !.op = "wear", !.user = u, !.profile = x,
                                      !.texture = s, !.kind = KindOf(s)]
    <2>1. /\ Goes(p, "checkHeld", r) /\ "wear" \in Work[p] /\ Owns(u, x)
          /\ UNCHANGED <<profile, quota, lock, log, held, library>>
      BY <1>6 DEF StartWear, Receive
    <2>2. /\ r \in Requests /\ r.op = "wear" /\ r.user = u /\ r.profile = x
          /\ r.texture = s /\ r.kind = KindOf(s)
      BY <1>2 DEF Requests, NoRequest, Ops, KindOf
    <2>3. Owns(u, x)' /\ s \in (IF KindOf(s) = "skin" THEN Skins ELSE Capes)
      BY <2>1 DEF Owns, Exists, KindOf, Textures
    <2>4. Shape(p)'
      <3>1. pc'[p] = "checkHeld" /\ req'[p] = r
        BY <2>1 DEF Goes, Inv, TypeOK
      <3> HIDE DEF r
      <3> QED
        BY <3>1, <2>1, <2>2, <2>3 DEF Shape, InTransaction
    <2> QED
      BY <2>1, <2>2, <2>4, ReadInv DEF Statements
  <1>7. ASSUME NEW x \in Profiles, NEW kind \in {"skin", "cape"}, StartTakeOff(p, u, x, kind)
        PROVE  Inv'
    <2> DEFINE r == [NoRequest EXCEPT !.op = "wear", !.user = u, !.profile = x, !.kind = kind]
    <2>1. /\ Goes(p, "updateWorn", r) /\ "wear" \in Work[p] /\ Owns(u, x)
          /\ UNCHANGED <<profile, quota, lock, log, held, library>>
      BY <1>7 DEF StartTakeOff, Receive
    <2>2. /\ r \in Requests /\ r.op = "wear" /\ r.user = u /\ r.profile = x
          /\ r.texture = None /\ r.kind = kind
      BY <1>2 DEF Requests, NoRequest, Ops
    <2>3. Owns(u, x)'
      BY <2>1 DEF Owns, Exists
    <2>4. Shape(p)'
      <3>1. pc'[p] = "updateWorn" /\ req'[p] = r
        BY <2>1 DEF Goes, Inv, TypeOK
      <3> HIDE DEF r
      <3> QED
        BY <3>1, <2>1, <2>2, <2>3 DEF Shape, InTransaction
    <2> QED
      BY <2>1, <2>2, <2>4, ReadInv DEF Statements
  <1>8. ASSUME NEW delta \in Deltas, StartAdjust(p, u, delta)
        PROVE  Inv'
    <2> DEFINE r == [NoRequest EXCEPT !.op = "adjust", !.user = u, !.delta = delta]
    <2>1. /\ Goes(p, "lock", r) /\ "adjust" \in Work[p]
          /\ UNCHANGED <<profile, quota, lock, log, held, library>>
      BY <1>8 DEF StartAdjust, Receive
    <2>2. r \in Requests /\ r.op = "adjust" /\ r.user = u
      BY <1>2, DeltasAssumption DEF Requests, NoRequest, Ops, Integer
    <2>3. Shape(p)'
      <3>1. pc'[p] = "lock" /\ req'[p] = r
        BY <2>1 DEF Goes, Inv, TypeOK
      <3> HIDE DEF r
      <3> QED
        BY <3>1, <2>1, <2>2 DEF Shape, InTransaction
    <2> QED
      BY <2>1, <2>2, <2>3, ReadInv DEF Statements
  <1> QED
    BY <1>1, <1>3, <1>4, <1>5, <1>6, <1>7, <1>8
--------------------------------------------------------------------------
(* The statements that follow. *)

LEMMA CheckNameInv ==
  ASSUME Inv, NEW p \in Procs, CheckName(p)
  PROVE  Inv'
  <1> DEFINE l == IF req[p].op = "add" THEN "commitAdd" ELSE "updateName"
  <1>1. /\ pc[p] = "checkName" /\ Goes(p, l, req[p]) /\ req[p] \in Requests
        /\ UNCHANGED <<profile, quota, lock, log, held, library>>
    BY DEF CheckName, At, Inv, TypeOK
  <1>2. pc'[p] = l /\ req'[p] = req[p]
    BY <1>1 DEF Goes, Inv, TypeOK
  <1>3. /\ Row(req[p].user)' = Row(req[p].user)
        /\ Owns(req[p].user, req[p].profile)' = Owns(req[p].user, req[p].profile)
    BY <1>1, <1>2 DEF Row, Owns, Exists
  <1>4. Shape(p)'
    BY <1>1, <1>2, <1>3 DEF Inv, Shapes, Shape, InTransaction
  <1> QED
    BY <1>1, <1>4, ReadInv DEF Statements

LEMMA CheckHeldInv ==
  ASSUME Inv, NEW p \in Procs, CheckHeld(p)
  PROVE  Inv'
  <1>1. /\ pc[p] = "checkHeld" /\ req[p] \in Requests
        /\ UNCHANGED <<profile, quota, lock, log, held, library>>
    BY DEF CheckHeld, At, Inv, TypeOK
  <1>2. CASE held[req[p].user][req[p].texture] = "now"
    <2>1. Goes(p, "updateWorn", req[p])
      BY <1>2 DEF CheckHeld
    <2>2. pc'[p] = "updateWorn" /\ req'[p] = req[p]
      BY <2>1 DEF Goes, Inv, TypeOK
    <2>3. Owns(req[p].user, req[p].profile)' = Owns(req[p].user, req[p].profile)
      BY <1>1, <2>2 DEF Owns, Exists
    <2>4. Shape(p)'
      BY <1>1, <1>2, <2>2, <2>3 DEF Inv, Shapes, Shape, InTransaction
    <2> QED
      BY <1>1, <2>1, <2>4, ReadInv DEF Statements
  <1>3. CASE held[req[p].user][req[p].texture] # "now"
    BY <1>1, <1>3, EndInv DEF CheckHeld, tables
  <1> QED
    BY <1>2, <1>3

\* A step of slot p that writes profiles and ends the request: nobody loses a
\* profile, and slot p only writes quota rows it has locked.
LEMMA WriteInv ==
  ASSUME Inv, NEW p \in Procs, Ends(p), Releases(p) \/ lock' = lock,
         profile' \in [Profiles -> Rows \cup {None}],
         quota' \in [Users -> Quotas \cup {None}],
         log' \in [Users -> Entries \cup {None}],
         \A u \in Users : quota'[u] # quota[u] => lock[u] = p,
         \A u \in Users, x \in Profiles : Owns(u, x) => Owns(u, x)',
         UNCHANGED <<held, library>>, UsedCounted', WornWasHeld'
  PROVE  Inv'
  <1>1. Shape(p)' /\ NoRequest \in Requests /\ "idle" \in Statements
    BY EndShape DEF Inv
  <1>2. \A q \in Procs \ {p}, u \in Users : lock[u] = q => lock'[u] = q /\ quota'[u] = quota[u]
    BY DEF Releases
  <1>3. Shapes'
    BY <1>1, <1>2, StepShapes DEF Ends, Goes
  <1>4. lock' \in [Users -> Procs \cup {None}]
    BY DEF Releases, Inv, TypeOK
  <1>5. TypeOK'
    BY <1>1, <1>4 DEF Inv, TypeOK, Ends, Goes
  <1> QED
    BY <1>3, <1>5 DEF Inv

\* What the transaction of an addition knows when it writes.
LEMMA AddKnows ==
  ASSUME Inv, NEW p \in Procs, CommitAdd(p)
  PROVE  LET r == req[p] IN
         /\ r.user \in Users /\ r.profile \in Profiles /\ r.name \in Names
         /\ lock[r.user] = p /\ QuotaRow(p) = r.quota /\ r.quota = Row(r.user)
         /\ r.quota \in Quotas /\ r.quota.used < r.quota.total
         /\ ~Exists(r.profile)
  BY DEF CommitAdd, At, Inv, TypeOK, Shapes, Shape, InTransaction, Requests, QuotaRow, Row

\* Adding a profile adds one to what is counted.
LEMMA ProfilesAdded ==
  ASSUME Inv, NEW p \in Procs, CommitAdd(p), NEW u \in Users
  PROVE  Cardinality(ProfilesOf(u))' =
           Cardinality(ProfilesOf(u)) + (IF u = req[p].user THEN 1 ELSE 0)
  <1> DEFINE r == req[p]
             row == [owner |-> r.user, name |-> r.name, skin |-> None, cape |-> None]
  <1>1. r.user \in Users /\ r.profile \in Profiles /\ r.name \in Names /\ ~Exists(r.profile)
    BY AddKnows
  <1>2. PICK x \in Profiles : x = r.profile
    BY <1>1
  <1>3. profile' = [profile EXCEPT ![x] = row] /\ row \in Rows
    BY <1>1, <1>2 DEF CommitAdd, Rows
  <1>4. profile'[x] = row /\ row # None /\ row.owner = r.user
    BY <1>3, RowAssumption DEF Inv, TypeOK
  <1>5. \A y \in Profiles \ {x} : profile'[y] = profile[y]
    BY <1>3 DEF Inv, TypeOK
  <1>6. x \notin ProfilesOf(u) /\ IsFiniteSet(ProfilesOf(u))
    BY <1>1, <1>2, FiniteAssumption, FS_Subset DEF ProfilesOf
  <1>7. CASE u = r.user
    <2>1. ProfilesOf(u)' = ProfilesOf(u) \cup {x}
      BY <1>4, <1>5, <1>7 DEF ProfilesOf, Exists
    <2> QED
      BY <1>6, <1>7, <2>1, FS_AddElement
  <1>8. CASE u # r.user
    <2>1. ProfilesOf(u)' = ProfilesOf(u)
      BY <1>1, <1>2, <1>4, <1>5, <1>8 DEF ProfilesOf, Exists
    <2> QED
      BY <1>6, <1>8, <2>1, FS_CardinalityType
  <1> QED
    BY <1>7, <1>8

\* The account of a user as the tables tell it.
LEMMA CountedRow ==
  ASSUME Inv, NEW u \in Users
  PROVE  Cardinality(ProfilesOf(u)) = Row(u).used
  BY DEF Inv, UsedCounted, Row, DefaultQuota

LEMMA CommitAddInv ==
  ASSUME Inv, NEW p \in Procs, CommitAdd(p)
  PROVE  Inv'
  <1> DEFINE r == req[p]
             u == r.user
             row == [owner |-> u, name |-> r.name, skin |-> None, cape |-> None]
             q == [r.quota EXCEPT !.used = r.quota.used + 1]
  <1>1. /\ u \in Users /\ r.profile \in Profiles /\ r.name \in Names
        /\ lock[u] = p /\ QuotaRow(p) = r.quota /\ r.quota = Row(u)
        /\ r.quota \in Quotas /\ r.quota.used < r.quota.total
        /\ ~Exists(r.profile)
    BY AddKnows
  <1>2. /\ profile' = [profile EXCEPT ![r.profile] = row]
        /\ quota' = [quota EXCEPT ![u] = q]
        /\ log' = [log EXCEPT ![u] = EntryOfAdd(r.quota)]
        /\ Releases(p) /\ Ends(p) /\ UNCHANGED <<held, library>>
    BY <1>1 DEF CommitAdd
  <1>3. row \in Rows /\ row # None /\ row.owner = u /\ row.skin = None /\ row.cape = None
    BY <1>1, RowAssumption DEF Rows
  <1>4. q \in Quotas /\ q # None /\ q.used = r.quota.used + 1
    BY <1>1, WidthAssumption, RowAssumption DEF Quotas
  <1>5. EntryOfAdd(r.quota) \in Entries
    BY <1>1, WidthAssumption DEF EntryOfAdd, Entries, Quotas
  <1> HIDE DEF row, q
  <1>6. /\ profile' \in [Profiles -> Rows \cup {None}]
        /\ quota' \in [Users -> Quotas \cup {None}]
        /\ log' \in [Users -> Entries \cup {None}]
    BY <1>2, <1>3, <1>4, <1>5 DEF Inv, TypeOK
  <1>7. \A v \in Users : quota'[v] # quota[v] => lock[v] = p
    BY <1>1, <1>2 DEF Inv, TypeOK
  <1>8. \A x \in Profiles \ {r.profile} : profile'[x] = profile[x]
    BY <1>2 DEF Inv, TypeOK
  <1>9. \A v \in Users, x \in Profiles : Owns(v, x) => Owns(v, x)'
    BY <1>1, <1>8 DEF Owns, Exists
  <1>10. UsedCounted'
    <2> SUFFICES ASSUME NEW v \in Users
                 PROVE  Cardinality(ProfilesOf(v))' = (IF quota[v] = None THEN 0 ELSE quota[v].used)'
      BY DEF UsedCounted
    <2>1. CASE v = u
      <3>1. Cardinality(ProfilesOf(v))' = r.quota.used + 1
        BY <1>1, <2>1, ProfilesAdded, CountedRow
      <3>2. quota'[v] = q
        BY <1>1, <1>2, <2>1 DEF Inv, TypeOK
      <3> QED
        BY <1>4, <3>1, <3>2
    <2>2. CASE v # u
      <3>1. Cardinality(ProfilesOf(v))' = Cardinality(ProfilesOf(v)) + 0
        BY <2>2, ProfilesAdded
      <3>2. quota'[v] = quota[v]
        BY <1>1, <1>2, <2>2 DEF Inv, TypeOK
      <3>3. Cardinality(ProfilesOf(v)) \in Nat
        BY FiniteAssumption, FS_Subset, FS_CardinalityType DEF ProfilesOf
      <3> QED
        BY <3>1, <3>2, <3>3 DEF Inv, UsedCounted
    <2> QED
      BY <2>1, <2>2
  <1>11. WornWasHeld'
    <2>1. profile'[r.profile] = row
      BY <1>1, <1>2 DEF Inv, TypeOK
    <2> QED
      BY <1>2, <1>3, <1>8, <2>1 DEF Inv, WornWasHeld, Exists
  <1> QED
    BY <1>2, <1>6, <1>7, <1>9, <1>10, <1>11, WriteInv

\* What the transaction of an adjustment knows when it writes.
LEMMA AdjustKnows ==
  ASSUME Inv, NEW p \in Procs, CommitAdjust(p)
  PROVE  LET r == req[p]
             new == Wrap(r.quota.total + r.delta)
         IN
         /\ r.user \in Users /\ lock[r.user] = p
         /\ QuotaRow(p) = r.quota /\ r.quota = Row(r.user) /\ r.quota \in Quotas
         /\ new \in r.quota.used .. Largest /\ Wrap(new - r.delta) = r.quota.total
  <1> DEFINE r == req[p]
  <1>1. /\ r.user \in Users /\ lock[r.user] = p
        /\ QuotaRow(p) = r.quota /\ r.quota = Row(r.user) /\ r.quota \in Quotas
        /\ r.delta \in Integer /\ Wrap(r.quota.total + r.delta) >= r.quota.used
    BY DEF CommitAdjust, At, Inv, TypeOK, Shapes, Shape, InTransaction, Requests, QuotaRow, Row
  <1>2. /\ Wrap(r.quota.total + r.delta) \in Integer
        /\ Wrap(Wrap(r.quota.total + r.delta) - r.delta) = r.quota.total
    BY <1>1, WrapAdds DEF Quotas
  <1> QED
    BY <1>1, <1>2, WidthAssumption DEF Integer, Quotas

LEMMA CommitAdjustInv ==
  ASSUME Inv, NEW p \in Procs, CommitAdjust(p)
  PROVE  Inv'
  <1> DEFINE r == req[p]
             u == r.user
             new == Wrap(r.quota.total + r.delta)
             q == [r.quota EXCEPT !.total = new]
             e == EntryOfAdjust(r.quota, r.delta)
  <1>1. /\ u \in Users /\ lock[u] = p
        /\ QuotaRow(p) = r.quota /\ r.quota = Row(u) /\ r.quota \in Quotas
        /\ new \in r.quota.used .. Largest /\ Wrap(new - r.delta) = r.quota.total
    BY AdjustKnows
  <1>2. /\ quota' = [quota EXCEPT ![u] = q]
        /\ log' = [log EXCEPT ![u] = e]
        /\ Releases(p) /\ Ends(p) /\ UNCHANGED <<profile, held, library>>
    BY <1>1 DEF CommitAdjust
  <1>3. e \in Entries
    BY <1>1, WidthAssumption DEF EntryOfAdjust, Entries, Quotas
  <1> HIDE DEF new, e
  <1>4. q \in Quotas /\ q # None /\ q.used = r.quota.used
    BY <1>1, WidthAssumption, RowAssumption DEF Quotas
  <1> HIDE DEF q
  <1>5. /\ profile' \in [Profiles -> Rows \cup {None}]
        /\ quota' \in [Users -> Quotas \cup {None}]
        /\ log' \in [Users -> Entries \cup {None}]
    BY <1>2, <1>3, <1>4 DEF Inv, TypeOK
  <1>6. \A v \in Users : quota'[v] # quota[v] => lock[v] = p
    BY <1>1, <1>2 DEF Inv, TypeOK
  <1>7. \A v \in Users, x \in Profiles : Owns(v, x)' = Owns(v, x)
    BY <1>2 DEF Owns, Exists
  <1>8. UsedCounted'
    <2>1. \A v \in Users : ProfilesOf(v)' = ProfilesOf(v)
      BY <1>2 DEF ProfilesOf, Exists
    <2>2. quota'[u] = q /\ \A v \in Users \ {u} : quota'[v] = quota[v]
      BY <1>1, <1>2 DEF Inv, TypeOK
    <2> QED
      BY <1>1, <1>4, <2>1, <2>2, CountedRow DEF Inv, UsedCounted
  <1>9. WornWasHeld'
    BY <1>2 DEF Inv, WornWasHeld, Exists
  <1> QED
    BY <1>2, <1>5, <1>6, <1>7, <1>8, <1>9, WriteInv
LEMMA UpdateNameInv ==
  ASSUME Inv, NEW p \in Procs, UpdateName(p)
  PROVE  Inv'
  <1> DEFINE r == req[p]
  <1>1. PICK x \in Profiles : x = r.profile
    BY DEF UpdateName, At, Inv, Shapes, Shape
  <1>2. r.name \in Names /\ Exists(x) /\ profile[x] \in Rows
    BY <1>1 DEF UpdateName, At, Inv, Shapes, Shape, Owns, Exists, TypeOK
  <1>3. /\ profile' = [profile EXCEPT ![x].name = r.name] /\ Ends(p)
        /\ UNCHANGED <<quota, lock, log, held, library>>
    BY <1>1 DEF UpdateName
  <1>4. /\ profile'[x] = [profile[x] EXCEPT !.name = r.name]
        /\ \A y \in Profiles \ {x} : profile'[y] = profile[y]
    BY <1>3 DEF Inv, TypeOK
  <1>5. /\ profile'[x] \in Rows /\ profile'[x] # None
        /\ profile'[x].owner = profile[x].owner
        /\ profile'[x].skin = profile[x].skin /\ profile'[x].cape = profile[x].cape
    BY <1>2, <1>4, RowAssumption DEF Rows
  <1>6. profile' \in [Profiles -> Rows \cup {None}]
    BY <1>3, <1>4, <1>5 DEF Inv, TypeOK
  <1>7. \A v \in Users, y \in Profiles : Owns(v, y)' = Owns(v, y)
    BY <1>2, <1>4, <1>5 DEF Owns, Exists
  <1>8. UsedCounted'
    <2>1. \A v \in Users : ProfilesOf(v)' = ProfilesOf(v)
      BY <1>7 DEF ProfilesOf, Owns
    <2> QED
      BY <1>3, <2>1 DEF Inv, UsedCounted
  <1>9. WornWasHeld'
    BY <1>2, <1>3, <1>4, <1>5 DEF Inv, WornWasHeld, Exists
  <1> QED
    BY <1>3, <1>6, <1>7, <1>8, <1>9, WriteInv DEF Inv, TypeOK

\* The texture that is put on is in the library and was held when that was
\* checked; what is taken off is nothing.
LEMMA UpdateWornInv ==
  ASSUME Inv, NEW p \in Procs, UpdateWorn(p)
  PROVE  Inv'
  <1> DEFINE r == req[p]
  <1>1. PICK x \in Profiles : x = r.profile
    BY DEF UpdateWorn, At, Inv, Shapes, Shape
  <1>2. /\ r.user \in Users /\ Exists(x) /\ profile[x] \in Rows /\ profile[x].owner = r.user
        /\ r.kind \in {"skin", "cape"}
        /\ r.texture \in (IF r.kind = "skin" THEN Skins ELSE Capes) \cup {None}
        /\ r.texture # None => held[r.user][r.texture] # "never"
    BY <1>1 DEF UpdateWorn, At, Inv, Shapes, Shape, Owns, Exists, TypeOK, Requests
  <1>3. Ends(p) /\ UNCHANGED <<quota, lock, log, held, library>>
    BY DEF UpdateWorn
  <1>4. CASE r.texture \notin library \cup {None}
    BY <1>3, <1>4, EndInv DEF UpdateWorn, tables
  <1>5. CASE r.texture \in library \cup {None}
    <2>1. profile' = [profile EXCEPT ![x][r.kind] = r.texture]
      BY <1>1, <1>5 DEF UpdateWorn
    <2>2. /\ profile'[x] = [profile[x] EXCEPT ![r.kind] = r.texture]
          /\ \A y \in Profiles \ {x} : profile'[y] = profile[y]
      BY <2>1 DEF Inv, TypeOK
    <2>3. profile'[x] \in Rows /\ profile'[x].owner = profile[x].owner
      <3>1. CASE r.kind = "skin"
        BY <1>2, <2>2, <3>1 DEF Rows
      <3>2. CASE r.kind = "cape"
        BY <1>2, <2>2, <3>2 DEF Rows
      <3> QED
        BY <1>2, <3>1, <3>2
    <2>4. profile'[x] # None
      BY <2>3, RowAssumption
    <2>5. {profile'[x].skin, profile'[x].cape}
            \subseteq {profile[x].skin, profile[x].cape, r.texture}
      <3>1. CASE r.kind = "skin"
        BY <1>2, <2>2, <3>1 DEF Rows
      <3>2. CASE r.kind = "cape"
        BY <1>2, <2>2, <3>2 DEF Rows
      <3> QED
        BY <1>2, <3>1, <3>2
    <2>6. profile' \in [Profiles -> Rows \cup {None}]
      BY <2>1, <2>2, <2>3 DEF Inv, TypeOK
    <2>7. \A v \in Users, y \in Profiles : Owns(v, y)' = Owns(v, y)
      BY <1>2, <2>2, <2>3, <2>4 DEF Owns, Exists
    <2>8. UsedCounted'
      <3>1. \A v \in Users : ProfilesOf(v)' = ProfilesOf(v)
        BY <2>7 DEF ProfilesOf, Owns
      <3> QED
        BY <1>3, <3>1 DEF Inv, UsedCounted
    <2>9. WornWasHeld'
      <3> SUFFICES ASSUME NEW y \in Profiles, Exists(y)',
                          NEW s \in {profile'[y].skin, profile'[y].cape} \ {None}
                   PROVE  s \in library' /\ held'[profile'[y].owner][s] # "never"
        BY DEF WornWasHeld
      <3>1. CASE y # x
        BY <1>3, <2>2, <3>1 DEF Inv, WornWasHeld, Exists
      <3>2. CASE y = x /\ s = r.texture
        BY <1>2, <1>3, <1>5, <2>3, <3>2
      <3>3. CASE y = x /\ s \in {profile[x].skin, profile[x].cape}
        BY <1>2, <1>3, <2>3, <3>3 DEF Inv, WornWasHeld
      <3> QED
        BY <2>5, <3>1, <3>2, <3>3
    <2> QED
      BY <1>3, <2>6, <2>7, <2>8, <2>9, WriteInv DEF Inv, TypeOK
  <1> QED
    BY <1>4, <1>5

--------------------------------------------------------------------------
(* The library. *)

\* No step of the library makes a texture one that was never held, and what
\* it deletes nobody wears any more.
LEMMA LibraryInv ==
  ASSUME Inv, Library
  PROVE  Inv'
  <1>1. ASSUME NEW u \in Users, NEW s \in Textures, Associate(u, s) \/ Revoke(u, s)
        PROVE  Inv'
    <2>1. UNCHANGED <<profile, quota, lock, log, library, pc, req>>
      BY <1>1 DEF Associate, Revoke
    <2>2. /\ held' \in [Users -> [Textures -> {"never", "now", "before"}]]
          /\ \A v \in Users, t \in Textures : held[v][t] # "never" => held'[v][t] # "never"
      <3> DEFINE now == [held EXCEPT ![u][s] = "now"]
                 before == [held EXCEPT ![u][s] = "before"]
      <3>1. held' = now \/ held' = before
        BY <1>1 DEF Associate, Revoke
      <3>2. CASE held' = now
        BY <3>2 DEF Inv, TypeOK
      <3>3. CASE held' = before
        BY <3>3 DEF Inv, TypeOK
      <3> QED
        BY <3>1, <3>2, <3>3
    <2>3. Shapes'
      <3>1. \A v \in Users, x \in Profiles : Owns(v, x)' = Owns(v, x)
        BY <2>1 DEF Owns, Exists
      <3> QED
        BY <2>1, <2>2, <3>1, OtherShape DEF Shapes, Inv
    <2>4. TypeOK'
      BY <2>1, <2>2 DEF Inv, TypeOK
    <2>5. UsedCounted'
      BY <2>1 DEF Inv, UsedCounted, ProfilesOf, Exists
    <2>6. WornWasHeld'
      BY <2>1, <2>2 DEF Inv, TypeOK, WornWasHeld, Exists, Rows, Textures
    <2> QED
      BY <2>3, <2>4, <2>5, <2>6 DEF Inv
  <1>2. ASSUME NEW s \in Textures, DeleteTexture(s)
        PROVE  Inv'
    <2> DEFINE off(t) == IF t = s THEN None ELSE t
    <2>1. /\ library' = library \ {s}
          /\ held' = [u \in Users |-> [held[u] EXCEPT ![s] = IF @ = "now" THEN "before" ELSE @]]
          /\ profile' = [x \in Profiles |->
               IF Exists(x) THEN [profile[x] EXCEPT !.skin = off(@), !.cape = off(@)] ELSE None]
          /\ UNCHANGED <<quota, lock, log, pc, req>>
      BY <1>2 DEF DeleteTexture
    <2>2. /\ held' \in [Users -> [Textures -> {"never", "now", "before"}]]
          /\ \A v \in Users, t \in Textures : held[v][t] # "never" => held'[v][t] # "never"
      BY <2>1 DEF Inv, TypeOK
    <2>3. ASSUME NEW x \in Profiles
          PROVE  /\ Exists(x)' = Exists(x)
                 /\ Exists(x) => /\ profile'[x] \in Rows
                                 /\ profile'[x].owner = profile[x].owner
                                 /\ profile'[x].skin = off(profile[x].skin)
                                 /\ profile'[x].cape = off(profile[x].cape)
      <3>1. CASE Exists(x)
        <4>1. profile[x] \in Rows
          BY <3>1 DEF Exists, Inv, TypeOK
        <4>2. profile'[x] = [profile[x] EXCEPT !.skin = off(profile[x].skin),
                                               !.cape = off(profile[x].cape)]
          BY <2>1, <3>1, <4>1 DEF Rows
        <4>3. /\ profile'[x] \in Rows
              /\ profile'[x].owner = profile[x].owner
              /\ profile'[x].skin = off(profile[x].skin)
              /\ profile'[x].cape = off(profile[x].cape)
          BY <4>1, <4>2 DEF Rows
        <4> QED
          BY <3>1, <4>3, RowAssumption DEF Exists
      <3>2. CASE ~Exists(x)
        BY <2>1, <3>2 DEF Exists
      <3> QED
        BY <3>1, <3>2
    <2>4. \A v \in Users, x \in Profiles : Owns(v, x)' = Owns(v, x)
      BY <2>3 DEF Owns
    <2>5. Shapes'
      BY <2>1, <2>2, <2>4, OtherShape DEF Shapes, Inv
    <2>6. TypeOK'
      <3>1. profile' \in [Profiles -> Rows \cup {None}]
        BY <2>1, <2>3 DEF Exists
      <3> QED
        BY <2>1, <2>2, <3>1 DEF Inv, TypeOK
    <2>7. UsedCounted'
      <3>1. \A v \in Users : ProfilesOf(v)' = ProfilesOf(v)
        BY <2>4 DEF ProfilesOf, Owns
      <3> QED
        BY <2>1, <3>1 DEF Inv, UsedCounted
    <2>8. WornWasHeld'
      <3> SUFFICES ASSUME NEW x \in Profiles, Exists(x)',
                          NEW t \in {profile'[x].skin, profile'[x].cape} \ {None}
                   PROVE  t \in library' /\ held'[profile'[x].owner][t] # "never"
        BY DEF WornWasHeld
      <3>1. Exists(x) /\ profile'[x].owner = profile[x].owner
        BY <2>3
      <3>2. t # s /\ t \in {profile[x].skin, profile[x].cape}
        BY <2>3, <3>1
      <3>3. t \in library /\ held[profile[x].owner][t] # "never"
        BY <3>1, <3>2 DEF Inv, WornWasHeld
      <3>4. profile[x].owner \in Users /\ t \in Textures
        BY <3>1, <3>2 DEF Exists, Inv, TypeOK, Rows, Textures
      <3> QED
        BY <2>1, <2>2, <3>1, <3>2, <3>3, <3>4
    <2> QED
      BY <2>5, <2>6, <2>7, <2>8 DEF Inv
  <1> QED
    BY <1>1, <1>2 DEF Library

--------------------------------------------------------------------------
(* The specification. *)

LEMMA NextInv == Inv /\ [Next]_vars => Inv'
  <1> SUFFICES ASSUME Inv, [Next]_vars PROVE Inv'
    OBVIOUS
  <1>1. CASE UNCHANGED vars
    <2>1. \A v \in Users, x \in Profiles : Owns(v, x)' = Owns(v, x)
      BY <1>1 DEF vars, Owns, Exists
    <2>2. Shapes'
      BY <1>1, <2>1, OtherShape DEF vars, Shapes, Inv
    <2>3. TypeOK' /\ UsedCounted' /\ WornWasHeld'
      BY <1>1 DEF vars, Inv, TypeOK, UsedCounted, WornWasHeld, ProfilesOf, Exists
    <2> QED
      BY <2>2, <2>3 DEF Inv
  <1>2. ASSUME NEW p \in Procs, Step(p) PROVE Inv'
    <2>1. CASE NameConflict(p) \/ CommitAddFails(p)
      BY <2>1, RefuseInv DEF NameConflict, CommitAddFails
    <2> QED
      BY <1>2, <2>1, LockInv, InsertQuotaInv, CheckNameInv, CommitAddInv, CommitAdjustInv,
         UpdateNameInv, CheckHeldInv, UpdateWornInv DEF Step
  <1>3. ASSUME NEW p \in Procs, Fail(p) PROVE Inv'
    BY <1>3, RefuseInv DEF Fail
  <1> QED
    BY <1>1, <1>2, <1>3, ArriveInv, LibraryInv DEF Next

LEMMA Invariance == Spec => []Inv
  BY InitInv, NextInv, PTL DEF Spec

\* Every variable keeps its type: the counters never leave 0 .. Largest,
\* whatever administrators add to the totals.
THEOREM TypeCorrect == Spec => []TypeOK
  BY Invariance, PTL DEF Inv

\* The counter of the quota says how many profiles the user has, whatever
\* additions, adjustments and first uses of the row overlap or fail.
THEOREM Counted == Spec => []UsedCounted
  BY Invariance, PTL DEF Inv

\* What a profile wears is in the library and is or was its owner's, whatever
\* the library does between the check and the update.
THEOREM Worn == Spec => []WornWasHeld
  BY Invariance, PTL DEF Inv
(***************************************************************************)
(* Names.  Who is about to give the name n found that nobody else had it;  *)
(* what is named n soon is therefore, at that instant, what such slots     *)
(* name, and later only less.                                              *)
(***************************************************************************)

LEMMA InitNames == Init => NamesBounded
  <1> SUFFICES ASSUME Init, NEW n \in Names
               PROVE  Cardinality(NamedSoon(n)) <= Cardinality(Namers)
    BY DEF NamesBounded
  <1>1. NamedSoon(n) = {}
    BY DEF Init, NamedSoon, Named, Pending, Exists
  <1>2. Cardinality(Namers) \in Nat
    BY FiniteAssumption, FS_Subset, FS_CardinalityType DEF Namers
  <1> QED
    BY <1>1, <1>2, FS_EmptySet

\* The profiles named soon are finitely many.
LEMMA NamesFinite ==
  ASSUME Inv, NEW n \in Names
  PROVE  NamedSoon(n) \subseteq Profiles /\ IsFiniteSet(NamedSoon(n))
  <1>1. NamedSoon(n) \subseteq Profiles
    BY DEF NamedSoon, Named, Pending, Inv, Shapes, Shape
  <1> QED
    BY <1>1, FiniteAssumption, FS_Subset

LEMMA NamesKept ==
  ASSUME Inv, NamesBounded, \A n \in Names : NamedSoon(n)' \subseteq NamedSoon(n)
  PROVE  NamesBounded'
  <1> SUFFICES ASSUME NEW n \in Names
               PROVE  Cardinality(NamedSoon(n)') <= Cardinality(Namers)
    BY DEF NamesBounded
  <1> DEFINE S == NamedSoon(n)
             T == NamedSoon(n)'
  <1>1. IsFiniteSet(S) /\ T \subseteq S /\ Cardinality(S) <= Cardinality(Namers)
    BY NamesFinite DEF NamesBounded
  <1>2. Cardinality(Namers) \in Nat
    BY FiniteAssumption, FS_Subset, FS_CardinalityType DEF Namers
  <1> HIDE DEF S, T
  <1>3. Cardinality(T) <= Cardinality(S) /\ Cardinality(T) \in Nat /\ Cardinality(S) \in Nat
    BY <1>1, FS_Subset, FS_CardinalityType
  <1>4. Cardinality(T) <= Cardinality(Namers)
    BY <1>1, <1>2, <1>3
  <1> QED
    BY <1>4 DEF T

\* A step after which slot p is not about to give a name names nothing that was
\* not named soon.
LEMMA NamesStep ==
  ASSUME Inv, NamesBounded, NEW p \in Procs, NEW l, NEW r, l \notin {"commitAdd", "updateName"},
         Goes(p, l, r), \A n \in Names : Named(n)' \subseteq NamedSoon(n)
  PROVE  NamesBounded'
  <1>1. pc'[p] = l /\ \A q \in Procs \ {p} : pc'[q] = pc[q] /\ req'[q] = req[q]
    BY DEF Goes, Inv, TypeOK
  <1>2. ASSUME NEW n \in Names
        PROVE  NamedSoon(n)' \subseteq NamedSoon(n)
    BY <1>1 DEF NamedSoon, Pending
  <1> QED
    BY <1>2, NamesKept

LEMMA NamesRead ==
  ASSUME Inv, NamesBounded, NEW p \in Procs, NEW l, NEW r, l \notin {"commitAdd", "updateName"},
         Goes(p, l, r), profile' = profile
  PROVE  NamesBounded'
  <1>1. \A n \in Names : Named(n)' = Named(n)
    BY DEF Named, Exists
  <1> QED
    BY <1>1, NamesStep DEF NamedSoon

LEMMA NamesRefuse ==
  ASSUME Inv, NamesBounded, NEW p \in Procs, Refuses(p)
  PROVE  NamesBounded'
  BY NamesRead DEF Refuses, Ends

\* The profile that is written was named soon.
LEMMA NamesWritten ==
  ASSUME Inv, NamesBounded, NEW p \in Procs, CommitAdd(p) \/ UpdateName(p)
  PROVE  NamesBounded'
  <1> DEFINE r == req[p]
  <1>1. PICK x \in Profiles : x = r.profile
    BY DEF CommitAdd, UpdateName, At, Inv, Shapes, Shape
  <1>2. pc[p] \in {"commitAdd", "updateName"} /\ r.name \in Names /\ Ends(p)
    BY DEF CommitAdd, UpdateName, At, Inv, Shapes, Shape
  <1>3. x \in NamedSoon(r.name)
    BY <1>1, <1>2 DEF NamedSoon, Pending
  <1>4. \A y \in Profiles \ {x} : profile'[y] = profile[y]
    BY <1>1 DEF CommitAdd, UpdateName, Inv, TypeOK
  <1>5. profile'[x].name = r.name
    <2>1. CASE CommitAdd(p)
      BY <1>1, <2>1 DEF CommitAdd, Inv, TypeOK
    <2>2. CASE UpdateName(p)
      <3>1. profile[x] \in Rows
        BY <1>1, <2>2 DEF UpdateName, At, Inv, Shapes, Shape, Owns, Exists, TypeOK
      <3> QED
        BY <1>1, <2>2, <3>1 DEF UpdateName, Inv, TypeOK, Rows
    <2> QED
      BY <2>1, <2>2
  <1>6. \A n \in Names : Named(n)' \subseteq NamedSoon(n)
    BY <1>3, <1>4, <1>5 DEF Named, NamedSoon, Exists
  <1> QED
    BY <1>2, <1>6, NamesStep DEF Ends

\* A slot that finds the name free is one of as many as give the name next.
LEMMA NamesChecked ==
  ASSUME Inv, Inv', NamesBounded, NEW p \in Procs, CheckName(p)
  PROVE  NamesBounded'
  <1> SUFFICES ASSUME NEW n \in Names
               PROVE  Cardinality(NamedSoon(n)') <= Cardinality(Namers)
    BY DEF NamesBounded
  <1>1. /\ pc[p] = "checkName" /\ pc'[p] \in {"commitAdd", "updateName"}
        /\ req' = req /\ profile' = profile /\ ~UuidTaken(req[p]) /\ ~NameTaken(req[p])
        /\ \A q \in Procs \ {p} : pc'[q] = pc[q]
    BY DEF CheckName, At, Goes, Inv, TypeOK
  <1>2. CASE n # req[p].name
    <2>1. NamedSoon(n)' = NamedSoon(n)
      BY <1>1, <1>2 DEF NamedSoon, Pending, Named, Exists
    <2> QED
      BY <2>1 DEF NamesBounded
  <1>3. CASE n = req[p].name
    <2> DEFINE S == Pending(n)'
               T == NamedSoon(n)'
               f == [q \in S |-> req[q].profile]
    <2>1. p \in S
      BY <1>1, <1>3 DEF Pending
    <2>2. Named(n)' \subseteq {req[p].profile}
      BY <1>1, <1>3 DEF NameTaken, Named, Exists
    <2>3. T = {req[q].profile : q \in S}
      BY <1>1, <2>1, <2>2 DEF NamedSoon
    <2>4. S \subseteq Namers
      BY DEF Pending, Namers, Inv, Shapes, Shape
    <2>5. IsFiniteSet(Namers) /\ Cardinality(Namers) \in Nat
      BY FiniteAssumption, FS_Subset, FS_CardinalityType DEF Namers
    <2> HIDE DEF S, T
    <2>6. f \in Surjection(S, T)
      BY <2>3 DEF Surjection
    <2>7. IsFiniteSet(S) /\ Cardinality(S) <= Cardinality(Namers) /\ Cardinality(S) \in Nat
      BY <2>4, <2>5, FS_Subset, FS_CardinalityType
    <2> HIDE DEF f
    <2>8. Cardinality(T) <= Cardinality(S) /\ Cardinality(T) \in Nat
      BY <2>6, <2>7, FS_Surjection, FS_CardinalityType
    <2>9. Cardinality(T) <= Cardinality(Namers)
      BY <2>5, <2>7, <2>8
    <2> QED
      BY <2>9 DEF T
  <1> QED
    BY <1>2, <1>3

\* The library renames nothing.
LEMMA NamesLibrary ==
  ASSUME Inv, NamesBounded, Library
  PROVE  NamesBounded'
  <1>1. UNCHANGED <<pc, req>>
    BY DEF Library, Associate, Revoke, DeleteTexture
  <1>2. ASSUME NEW x \in Profiles, Exists(x)'
        PROVE  Exists(x) /\ profile'[x].name = profile[x].name
    <2>1. CASE profile' = profile
      BY <1>2, <2>1 DEF Exists
    <2>2. CASE \E s \in Textures : DeleteTexture(s)
      <3>1. PICK s \in Textures : DeleteTexture(s)
        BY <2>2
      <3>2. Exists(x)
        BY <1>2, <3>1 DEF DeleteTexture, Exists
      <3>3. profile[x] \in Rows
        BY <3>2 DEF Inv, TypeOK, Exists
      <3> QED
        BY <3>1, <3>2, <3>3 DEF DeleteTexture, Rows
    <2> QED
      BY <2>1, <2>2 DEF Library, Associate, Revoke
  <1>3. ASSUME NEW n \in Names
        PROVE  NamedSoon(n)' \subseteq NamedSoon(n)
    BY <1>1, <1>2 DEF NamedSoon, Pending, Named
  <1> QED
    BY <1>3, NamesKept

LEMMA NextNames == Inv /\ NamesBounded /\ [Next]_vars => NamesBounded'
  <1> SUFFICES ASSUME Inv, NamesBounded, [Next]_vars PROVE NamesBounded'
    OBVIOUS
  <1>1. CASE UNCHANGED vars
    BY <1>1 DEF vars, NamesBounded, NamedSoon, Named, Pending, Exists
  <1>2. ASSUME NEW p \in Procs, Arrive(p) PROVE NamesBounded'
    <2>1. profile' = profile
      BY <1>2 DEF Arrive, StartQuota, StartAdd, StartRename, StartWear, StartTakeOff, StartAdjust
    <2>2. \E l \in {"insertQuota", "lock", "checkName", "checkHeld", "updateWorn"} : \E r : Goes(p, l, r)
      BY <1>2, Zenon DEF Arrive, StartQuota, StartAdd, StartRename, StartWear, StartTakeOff, StartAdjust
    <2> QED
      BY <2>1, <2>2, NamesRead
  <1>3. ASSUME NEW p \in Procs, Step(p) PROVE NamesBounded'
    <2>1. CASE Lock(p) \/ InsertQuota(p)
      <3>1. profile' = profile
        BY <2>1 DEF Lock, InsertQuota
      <3>2. PICK l, r : Goes(p, l, r) /\ l \notin {"commitAdd", "updateName"}
        <4>1. CASE Goes(p, "insertQuota", req[p])
          BY <4>1
        <4>2. CASE Ends(p)
          BY <4>2 DEF Ends
        <4>3. ASSUME NEW q, Locked(p, req[p].user, q), ~Ends(p)
              PROVE  \E l, r : Goes(p, l, r) /\ l \notin {"commitAdd", "updateName"}
          <5> DEFINE l == NextStatement(req[p], q)
                     r == [req[p] EXCEPT !.quota = q]
          <5>1. Goes(p, l, r)
            BY <4>3 DEF Locked
          <5>2. l \notin {"commitAdd", "updateName"}
            BY DEF NextStatement
          <5> QED
            BY <5>1, <5>2
        <4> QED
          BY <2>1, <4>1, <4>2, <4>3 DEF Lock, InsertQuota
      <3> QED
        BY <3>1, <3>2, NamesRead
    <2>2. CASE CheckHeld(p)
      BY <2>2, NamesRead DEF CheckHeld, Ends
    <2>3. CASE CommitAdjust(p)
      BY <2>3, NamesRead DEF CommitAdjust, Ends
    <2>4. CASE UpdateWorn(p)
      <3>1. ASSUME NEW x \in Profiles, Exists(x)'
            PROVE  Exists(x) /\ profile'[x].name = profile[x].name
        <4>1. CASE profile' = profile
          BY <3>1, <4>1 DEF Exists
        <4>2. CASE profile' # profile
          <5>1. /\ profile' = [profile EXCEPT ![req[p].profile][req[p].kind] = req[p].texture]
                /\ Exists(req[p].profile) /\ req[p].kind \in {"skin", "cape"}
            BY <2>4, <4>2 DEF UpdateWorn, At, Inv, Shapes, Shape, Owns, TypeOK, Requests
          <5>2. Exists(x)
            BY <3>1, <5>1 DEF Exists, Inv, TypeOK
          <5>3. profile[x] \in Rows
            BY <5>2 DEF Exists, Inv, TypeOK
          <5> QED
            BY <5>1, <5>2, <5>3 DEF Inv, TypeOK, Rows
        <4> QED
          BY <4>1, <4>2
      <3>2. \A n \in Names : Named(n)' \subseteq NamedSoon(n)
        BY <3>1 DEF Named, NamedSoon
      <3>3. Goes(p, "idle", NoRequest)
        BY <2>4 DEF UpdateWorn, Ends
      <3> QED
        BY <3>2, <3>3, NamesStep
    <2>5. CASE NameConflict(p) \/ CommitAddFails(p)
      BY <2>5, NamesRefuse DEF NameConflict, CommitAddFails
    <2>6. Inv'
      BY NextInv
    <2> QED
      BY <1>3, <2>1, <2>2, <2>3, <2>4, <2>5, <2>6, NamesChecked, NamesWritten DEF Step
  <1>4. ASSUME NEW p \in Procs, Fail(p) PROVE NamesBounded'
    BY <1>4, NamesRefuse DEF Fail
  <1> QED
    BY <1>1, <1>2, <1>3, <1>4, NamesLibrary DEF Next

\* However requests that look up and give names overlap, no more profiles have
\* one name than slots give names.
THEOREM FewNamesakes == Spec => []NameOvershoot
  <1>1. Inv /\ NamesBounded => NameOvershoot
    <2> SUFFICES ASSUME Inv, NamesBounded, NEW n \in Names
                 PROVE  Cardinality(Named(n)) <= Cardinality(Namers)
      BY DEF NameOvershoot
    <2>1. /\ Named(n) \subseteq NamedSoon(n) /\ IsFiniteSet(NamedSoon(n))
          /\ Cardinality(NamedSoon(n)) <= Cardinality(Namers)
      BY NamesFinite DEF NamedSoon, NamesBounded
    <2>2. Cardinality(Namers) \in Nat
      BY FiniteAssumption, FS_Subset, FS_CardinalityType DEF Namers
    <2>3. /\ Cardinality(Named(n)) <= Cardinality(NamedSoon(n))
          /\ Cardinality(Named(n)) \in Nat /\ Cardinality(NamedSoon(n)) \in Nat
      BY <2>1, FS_Subset, FS_CardinalityType
    <2> QED
      BY <2>1, <2>2, <2>3
  <1> QED
    BY <1>1, InitNames, NextNames, Invariance, PTL DEF Spec
(***************************************************************************)
(* The account.  A transaction that writes has locked the row and still    *)
(* knows it (Shape), and the row counts the profiles (UsedCounted): what   *)
(* it commits is one posting on the account of that moment.  Every other   *)
(* step leaves the accounts alone.                                         *)
(***************************************************************************)

\* The account of a user is what a transaction reads of the quota.
LEMMA AccountRow ==
  ASSUME Inv, NEW u \in Users
  PROVE  /\ account[u] = [used |-> Row(u).used, total |-> Row(u).total, last |-> log[u]]
         /\ account[u].used = Row(u).used
         /\ account[u].total = Row(u).total
  <1>1. account[u] = [used |-> Row(u).used, total |-> Row(u).total, last |-> log[u]]
    BY CountedRow DEF account, Row
  <1> QED
    BY <1>1

LEMMA AccountRowNext ==
  ASSUME Inv', NEW u \in Users
  PROVE  account'[u] = [used |-> Row(u)'.used, total |-> Row(u)'.total, last |-> log'[u]]
  <1>1. Cardinality(ProfilesOf(u)') = Row(u)'.used
    BY DEF Inv, UsedCounted, Row, DefaultQuota
  <1> QED
    BY <1>1 DEF account, Row

\* The accounts are as they were when rows, counts and log are.
LEMMA AccountSame ==
  ASSUME Inv, UNCHANGED <<quota, log>>,
         \A u \in Users, x \in Profiles : Owns(u, x)' = Owns(u, x)
  PROVE  account' = account
  <1>1. \A u \in Users : ProfilesOf(u)' = ProfilesOf(u)
    BY DEF ProfilesOf, Owns
  <1> QED
    BY <1>1 DEF account

LEMMA AccountUntouched ==
  ASSUME Inv, UNCHANGED <<profile, quota, log>>
  PROVE  account' = account
  BY AccountSame DEF Owns, Exists

\* The row of u becomes one of used and total, and the entry says so.
LEMMA Posts ==
  ASSUME Inv, Inv', NEW u \in Users, NEW e, log' = [log EXCEPT ![u] = e],
         NEW used, NEW total, Row(u)'.used = used, Row(u)'.total = total,
         \A v \in Users \ {u} : Row(v)' = Row(v),
         e = [beforeUsed |-> Row(u).used, afterUsed |-> used,
              beforeTotal |-> Row(u).total, afterTotal |-> total]
  PROVE  account' = [account EXCEPT ![u] =
           [used |-> used, total |-> total,
            last |-> [beforeUsed |-> account[u].used, afterUsed |-> used,
                      beforeTotal |-> account[u].total, afterTotal |-> total]]]
  <1> DEFINE b == [used |-> used, total |-> total,
                   last |-> [beforeUsed |-> account[u].used, afterUsed |-> used,
                             beforeTotal |-> account[u].total, afterTotal |-> total]]
  <1>1. account'[u] = [used |-> used, total |-> total, last |-> log'[u]]
    BY AccountRowNext
  <1>2. log'[u] = e /\ \A v \in Users \ {u} : log'[v] = log[v]
    BY DEF Inv, TypeOK
  <1>3. account'[u] = b
    <2>1. account[u].used = Row(u).used /\ account[u].total = Row(u).total
      BY AccountRow
    <2> QED
      BY <1>1, <1>2, <2>1
  <1>4. ASSUME NEW v \in Users \ {u} PROVE account'[v] = account[v]
    <2>1. account'[v] = [used |-> Row(v)'.used, total |-> Row(v)'.total, last |-> log'[v]]
      BY AccountRowNext
    <2> QED
      BY <1>2, <2>1, AccountRow
  <1>5. account' = [account EXCEPT ![u] = b]
    <2> HIDE DEF b
    <2>1. account' = [v \in Users |-> account'[v]] /\ account = [v \in Users |-> account[v]]
      BY DEF account
    <2> QED
      BY <1>3, <1>4, <2>1
  <1> QED
    BY <1>5
\* The commit of an addition takes a place of the account.
LEMMA AddTakes ==
  ASSUME Inv, Inv', NEW p \in Procs, CommitAdd(p)
  PROVE  Account!Next
  <1> DEFINE r == req[p]
             q == [r.quota EXCEPT !.used = r.quota.used + 1]
  <1>1. PICK u \in Users : u = r.user
    BY AddKnows
  <1>2. /\ QuotaRow(p) = r.quota /\ r.quota = Row(u) /\ r.quota \in Quotas
        /\ r.quota.used < r.quota.total
    BY <1>1, AddKnows
  <1>3. quota' = [quota EXCEPT ![u] = q] /\ log' = [log EXCEPT ![u] = EntryOfAdd(r.quota)]
    BY <1>1, <1>2 DEF CommitAdd
  <1>4. q \in Quotas /\ q.used = r.quota.used + 1 /\ q.total = r.quota.total /\ q # None
    BY <1>2, RowAssumption, WidthAssumption DEF Quotas
  <1> HIDE DEF q
  <1>5. Row(u)' = q /\ \A v \in Users \ {u} : Row(v)' = Row(v)
    BY <1>3, <1>4 DEF Row, Inv, TypeOK
  <1>6. PICK used, total : used = q.used /\ total = q.total
    OBVIOUS
  <1>7. EntryOfAdd(r.quota) = [beforeUsed |-> Row(u).used, afterUsed |-> used,
                               beforeTotal |-> Row(u).total, afterTotal |-> total]
    BY <1>2, <1>4, <1>6 DEF EntryOfAdd
  <1>8. account' = [account EXCEPT ![u] =
           [used |-> used, total |-> total,
            last |-> [beforeUsed |-> account[u].used, afterUsed |-> used,
                      beforeTotal |-> account[u].total, afterTotal |-> total]]]
    BY <1>3, <1>5, <1>6, <1>7, Posts
  <1>9. /\ account[u].used < account[u].total
        /\ used = account[u].used + 1 /\ total = account[u].total
    BY <1>2, <1>4, <1>6, AccountRow
  <1>10. Account!Take(u)
    BY <1>8, <1>9 DEF Account!Take, Account!Post
  <1> QED
    BY <1>10 DEF Account!Next

\* The commit of an adjustment sets the total, to no less than what is used.
LEMMA AdjustAdjusts ==
  ASSUME Inv, Inv', NEW p \in Procs, CommitAdjust(p)
  PROVE  Account!Next
  <1> DEFINE r == req[p]
             new == Wrap(r.quota.total + r.delta)
             q == [r.quota EXCEPT !.total = new]
  <1>1. PICK u \in Users : u = r.user
    BY AdjustKnows
  <1>2. /\ QuotaRow(p) = r.quota /\ r.quota = Row(u) /\ r.quota \in Quotas
        /\ new \in r.quota.used .. Largest /\ Wrap(new - r.delta) = r.quota.total
    BY <1>1, AdjustKnows
  <1>3. quota' = [quota EXCEPT ![u] = q] /\ log' = [log EXCEPT ![u] = EntryOfAdjust(r.quota, r.delta)]
    BY <1>1, <1>2 DEF CommitAdjust
  <1>4. EntryOfAdjust(r.quota, r.delta) =
          [beforeUsed |-> r.quota.used, afterUsed |-> r.quota.used,
           beforeTotal |-> r.quota.total, afterTotal |-> new]
    BY <1>2 DEF EntryOfAdjust
  <1> HIDE DEF new
  <1>5. q \in Quotas /\ q.used = r.quota.used /\ q.total = new /\ q # None
    BY <1>2, RowAssumption, WidthAssumption DEF Quotas
  <1> HIDE DEF q
  <1>6. Row(u)' = q /\ \A v \in Users \ {u} : Row(v)' = Row(v)
    BY <1>3, <1>5 DEF Row, Inv, TypeOK
  <1>7. PICK used, total : used = r.quota.used /\ total = new
    OBVIOUS
  <1>8. account' = [account EXCEPT ![u] =
           [used |-> used, total |-> total,
            last |-> [beforeUsed |-> account[u].used, afterUsed |-> used,
                      beforeTotal |-> account[u].total, afterTotal |-> total]]]
    BY <1>2, <1>3, <1>4, <1>5, <1>6, <1>7, Posts
  <1>9. used = account[u].used /\ total \in account[u].used .. Largest
    BY <1>2, <1>7, AccountRow
  <1>10. Account!Adjust(u)
    BY <1>8, <1>9 DEF Account!Adjust, Account!Post
  <1> QED
    BY <1>10 DEF Account!Next

\* Only the two commits touch the accounts.
LEMMA NextSteps ==
  ASSUME Inv, Inv', [Next]_vars
  PROVE  account' = account \/ \E p \in Procs : CommitAdd(p) \/ CommitAdjust(p)
  <1>1. CASE UNCHANGED vars
    BY <1>1, AccountUntouched DEF vars
  <1>2. ASSUME NEW p \in Procs, Arrive(p) PROVE account' = account
    BY <1>2, AccountUntouched DEF Arrive, StartQuota, StartAdd, StartRename, StartWear,
       StartTakeOff, StartAdjust
  <1>3. ASSUME NEW p \in Procs, Refuses(p) PROVE account' = account
    BY <1>3, AccountUntouched DEF Refuses
  <1>4. ASSUME NEW p \in Procs, Step(p), ~CommitAdd(p), ~CommitAdjust(p) PROVE account' = account
    <2>1. CASE Lock(p) \/ CheckName(p) \/ CheckHeld(p)
      BY <2>1, AccountUntouched DEF Lock, CheckName, CheckHeld
    <2>2. CASE NameConflict(p) \/ CommitAddFails(p)
      BY <2>2, <1>3 DEF NameConflict, CommitAddFails
    <2>3. CASE InsertQuota(p)
      <3>1. \A u \in Users : Row(u)' = Row(u)
        BY <2>3 DEF InsertQuota, Row, Inv, TypeOK
      <3>2. log' = log
        BY <2>3 DEF InsertQuota
      <3>3. \A u \in Users : account'[u] = account[u]
        BY <3>1, <3>2, AccountRow, AccountRowNext
      <3>4. account' = [u \in Users |-> account'[u]] /\ account = [u \in Users |-> account[u]]
        BY DEF account
      <3> QED
        BY <3>3, <3>4
    <2>4. CASE UpdateName(p) \/ UpdateWorn(p)
      <3>1. UNCHANGED <<quota, log>>
        BY <2>4 DEF UpdateName, UpdateWorn
      <3>2. \A u \in Users : account'[u] = account[u]
        BY <3>1, AccountRow, AccountRowNext DEF Row
      <3>3. account' = [u \in Users |-> account'[u]] /\ account = [u \in Users |-> account[u]]
        BY DEF account
      <3> QED
        BY <3>2, <3>3
    <2> QED
      BY <1>4, <2>1, <2>2, <2>3, <2>4 DEF Step
  <1>5. CASE Library
    <2>1. UNCHANGED <<quota, log>>
      BY <1>5 DEF Library, Associate, Revoke, DeleteTexture
    <2>2. \A u \in Users : account'[u] = account[u]
      BY <2>1, AccountRow, AccountRowNext DEF Row
    <2>3. account' = [u \in Users |-> account'[u]] /\ account = [u \in Users |-> account[u]]
      BY DEF account
    <2> QED
      BY <2>2, <2>3
  <1> QED
    BY <1>1, <1>2, <1>3, <1>4, <1>5 DEF Next, Fail

LEMMA NextAccount ==
  ASSUME Inv, Inv', [Next]_vars
  PROVE  [Account!Next]_account
  BY NextSteps, AddTakes, AdjustAdjusts

\* Profiles, quota and log implement the account: each addition and each
\* adjustment, whatever runs next to it, is one posting within the account of
\* the moment it commits, and the log entry written with it says exactly what
\* it did, also when the sum of the total wraps around.
THEOREM AccountRefined == Spec => AccountKept
  <1>1. Init => Account!Init
    <2> SUFFICES ASSUME Init PROVE Account!Init
      OBVIOUS
    <2>1. \A u \in Users : ProfilesOf(u) = {}
      BY DEF Init, ProfilesOf, Exists
    <2> QED
      BY <2>1, FS_EmptySet DEF Init, account, Account!Init, Account!NewAccount, DefaultQuota
  <1>2. Inv /\ Inv' /\ [Next]_vars => [Account!Next]_account
    BY NextAccount
  <1> QED
    BY <1>1, <1>2, Invariance, PTL DEF Spec, AccountKept, Account!Spec
\* No user ever has more profiles than the total of the quota allows: neither
\* additions that overlap nor adjustments that lower or overflow it do that.
THEOREM Within == Spec => []Account!WithinTotal
  <1> DEFINE Safe == \A u \in Users : Row(u).used <= Row(u).total
  <1>1. Init => Safe
    BY DEF Init, Row, DefaultQuota
  <1>2. Inv /\ Inv' /\ Safe /\ [Next]_vars => Safe'
    <2> SUFFICES ASSUME Inv, Inv', Safe, [Next]_vars PROVE Safe'
      OBVIOUS
    <2>1. CASE account' = account
      <3>1. ASSUME NEW u \in Users
            PROVE  Row(u)'.used = Row(u).used /\ Row(u)'.total = Row(u).total
        <4>1. account'[u] = account[u]
          BY <2>1
        <4>2. account'[u] = [used |-> Row(u)'.used, total |-> Row(u)'.total, last |-> log'[u]]
          BY AccountRowNext
        <4>3. account'[u].used = Row(u)'.used /\ account'[u].total = Row(u)'.total
          BY <4>2
        <4>4. account[u].used = Row(u).used /\ account[u].total = Row(u).total
          BY AccountRow
        <4> QED
          BY <4>1, <4>3, <4>4
      <3> QED
        BY <3>1
    <2>2. ASSUME NEW p \in Procs, CommitAdd(p) PROVE Safe'
      <3> DEFINE r == req[p]
                 q == [r.quota EXCEPT !.used = r.quota.used + 1]
      <3>1. PICK u \in Users : u = r.user
        BY <2>2, AddKnows
      <3>2. /\ QuotaRow(p) = r.quota /\ r.quota = Row(u) /\ r.quota \in Quotas
            /\ r.quota.used < r.quota.total
        BY <2>2, <3>1, AddKnows
      <3>3. quota' = [quota EXCEPT ![u] = q]
        BY <2>2, <3>1, <3>2 DEF CommitAdd
      <3>4. q \in Quotas /\ q.used <= q.total /\ q # None
        BY <3>2, RowAssumption, WidthAssumption DEF Quotas
      <3> HIDE DEF q
      <3> QED
        BY <3>3, <3>4 DEF Row, Inv, TypeOK
    <2>3. ASSUME NEW p \in Procs, CommitAdjust(p) PROVE Safe'
      <3> DEFINE r == req[p]
                 new == Wrap(r.quota.total + r.delta)
                 q == [r.quota EXCEPT !.total = new]
      <3>1. PICK u \in Users : u = r.user
        BY <2>3, AdjustKnows
      <3>2. QuotaRow(p) = r.quota /\ r.quota \in Quotas /\ new \in r.quota.used .. Largest
        BY <2>3, <3>1, AdjustKnows
      <3>3. quota' = [quota EXCEPT ![u] = q]
        BY <2>3, <3>1, <3>2 DEF CommitAdjust
      <3> HIDE DEF new
      <3>4. q \in Quotas /\ q.used <= q.total /\ q # None
        BY <3>2, RowAssumption, WidthAssumption DEF Quotas
      <3> HIDE DEF q
      <3> QED
        BY <3>3, <3>4 DEF Row, Inv, TypeOK
    <2> QED
      BY <2>1, <2>2, <2>3, NextSteps
  <1>3. Inv /\ Safe => Account!WithinTotal
    BY AccountRow DEF Account!WithinTotal
  <1> HIDE DEF Safe
  <1> QED
    BY <1>1, <1>2, <1>3, Invariance, PTL DEF Spec
============================================================================
