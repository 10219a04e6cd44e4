-------------------------- MODULE SessionsProofs --------------------------
(***************************************************************************)
(* Proofs about Sessions and the part of it that is OnlineProfile, for     *)
(* every set of profiles, names, tokens, servers and slots.                *)
(*                                                                         *)
(* The inductive invariant Inv has one part per concern: what a slot knows *)
(* (Knows), that a slot past the lock holds the mutex of its name          *)
(* (Exclusive), what it may find cached while it asks (Missing), and that  *)
(* the answers given and still to be given for a session are no more than  *)
(* there are slots (Answers).                                              *)
(***************************************************************************)
EXTENDS Sessions, FiniteSetTheorems, TLAPS

\* What slot p knows at its step.
Knows(p) ==
  /\ pc[p] \in OnlineSteps => asks[p].profile \in Profiles /\ asks[p].name \in Names
  /\ pc[p] = "upsert" => asks[p].record \in Records /\ asks[p].record.of = asks[p].name
  /\ pc[p] \in {"setSession", "getSession", "getProfile", "deleteSession"} =>
       req[p].server \in Servers
  /\ pc[p] \in {"setSession", "getProfile", "deleteSession", "build"} =>
       req[p].data \in SessionData
  /\ pc[p] \in {"getSession", "getProfile", "deleteSession", "build"} =>
       req[p].username \in Names

Locked == {"readAgain", "lookup", "fetch", "upsert", "unlock"}

Asking == {"lookup", "fetch", "upsert"}

\* The mutex of the name is held by the slot that asks.
Exclusive(p) == pc[p] \in Locked => holder[asks[p].name] = p

\* What is cached, if it is valid, is not the answer slot p asks for.
Missing(p) ==
  pc[p] \in Asking /\ Valid(asks[p].profile) => record[asks[p].profile].of # asks[p].name

\* The slots that have read the session of s and may answer with it.
Pending(s) == {p \in Procs : pc[p] \in {"getProfile", "deleteSession"} /\ req[p].server = s}

Answers(s) ==
  /\ session[s] # None => yes[s] = 0
  /\ yes[s] + Cardinality(Pending(s)) <= Cardinality(Procs)

Inv ==
  /\ TypeOK
  /\ \A p \in Procs : Knows(p) /\ Exclusive(p) /\ Missing(p)
  /\ \A s \in Servers : Answers(s)

-----------------------------------------------------------------------------

LEMMA PendingFinite ==
  ASSUME NEW s \in Servers
  PROVE  /\ IsFiniteSet(Pending(s)) /\ Cardinality(Pending(s)) \in Nat
         /\ Cardinality(Procs) \in Nat /\ Cardinality(Pending(s)) <= Cardinality(Procs)
  BY ProcsAssumption, FS_Subset, FS_CardinalityType DEF Pending

LEMMA InitInv == Init => Inv
  <1> SUFFICES ASSUME Init PROVE Inv
    OBVIOUS
  <1>1. TypeOK
    BY DEF Init, OnlineInit, TypeOK, OnlineTypeOK, Questions, NoQuestion, Requests, NoRequest,
       SessionSteps
  <1>2. \A p \in Procs : Knows(p) /\ Exclusive(p) /\ Missing(p)
    BY DEF Init, Knows, Exclusive, Missing, OnlineSteps, Locked, Asking
  <1>3. ASSUME NEW s \in Servers PROVE Answers(s)
    <2>1. Pending(s) = {}
      BY DEF Init, Pending
    <2> QED
      BY <2>1, PendingFinite, FS_EmptySet DEF Answers, Init
  <1> QED
    BY <1>1, <1>2, <1>3 DEF Inv

\* Another slot keeps what it knows when its mutex stays its own and nothing
\* comes into the cache but what some slot upserts under its mutex.
LEMMA OtherKeeps ==
  ASSUME Inv, NEW q \in Procs, pc'[q] = pc[q], asks'[q] = asks[q], req'[q] = req[q],
         \A n \in Names : holder[n] = q => holder'[n] = q,
         pc[q] \in Asking =>
           \/ record'[asks[q].profile] = record[asks[q].profile]
           \/ ~Valid(asks[q].profile)'
           \/ record'[asks[q].profile].of # asks[q].name
  PROVE  (Knows(q) /\ Exclusive(q) /\ Missing(q))'
  <1>1. Knows(q)'
    BY DEF Inv, Knows
  <1>2. Exclusive(q)'
    BY DEF Inv, Knows, Exclusive, Locked, OnlineSteps
  <1>3. Missing(q)'
    BY DEF Inv, Missing, Valid
  <1> QED
    BY <1>1, <1>2, <1>3

\* The answers for s stay as few when no slot starts to answer.
LEMMA AnswersKept ==
  ASSUME Inv, NEW s \in Servers, Pending(s)' \subseteq Pending(s),
         session'[s] \in {session[s], None}, yes'[s] = yes[s]
  PROVE  Answers(s)'
  <1> DEFINE S == Pending(s)
             T == Pending(s)'
  <1>1. IsFiniteSet(S) /\ T \subseteq S /\ Cardinality(S) \in Nat /\ Cardinality(Procs) \in Nat
    BY PendingFinite
  <1>2. yes[s] + Cardinality(S) <= Cardinality(Procs) /\ yes[s] \in Nat
    BY DEF Inv, Answers, TypeOK
  <1> HIDE DEF S, T
  <1>3. Cardinality(T) \in Nat /\ Cardinality(T) <= Cardinality(S)
    BY <1>1, FS_Subset, FS_CardinalityType
  <1>4. yes[s] + Cardinality(T) <= Cardinality(Procs)
    BY <1>1, <1>2, <1>3
  <1>5. session'[s] # None => yes'[s] = 0
    BY DEF Inv, Answers
  <1> QED
    BY <1>4, <1>5 DEF Answers, T

-----------------------------------------------------------------------------
(* Steps of OnlineProfile. *)

\* A step of slot p there: it neither starts to answer nor touches sessions.
LEMMA OnlineInv ==
  ASSUME Inv, NEW p \in Procs, NEW l \in OnlineSteps \cup {"idle"}, NEW q \in Questions,
         Continue(p, l, q), UNCHANGED <<sessionVars, name>>,
         req' = req \/ req' = [req EXCEPT ![p] = NoRequest],
         record' \in [Profiles -> Records \cup {None}],
         holder' \in [Names -> Procs \cup {None}],
         (Knows(p) /\ Exclusive(p) /\ Missing(p))',
         \A z \in Procs \ {p}, n \in Names : holder[n] = z => holder'[n] = z,
         \A z \in Procs \ {p} : pc[z] \in Asking =>
           \/ record'[asks[z].profile] = record[asks[z].profile]
           \/ record'[asks[z].profile].of # asks[z].name
  PROVE  Inv'
  <1>1. /\ pc' = [pc EXCEPT ![p] = l] /\ asks' = [asks EXCEPT ![p] = q]
        /\ \A z \in Procs \ {p} : pc'[z] = pc[z] /\ asks'[z] = asks[z] /\ req'[z] = req[z]
        /\ pc'[p] = l
    BY DEF Continue, Inv, TypeOK, OnlineTypeOK
  <1>2. TypeOK'
    <2>1. req' \in [Procs -> Requests]
      BY DEF Inv, TypeOK, NoRequest, Requests
    <2> QED
      BY <1>1, <2>1 DEF Inv, TypeOK, OnlineTypeOK, sessionVars, SessionSteps
  <1>3. \A z \in Procs : (Knows(z) /\ Exclusive(z) /\ Missing(z))'
    <2> SUFFICES ASSUME NEW z \in Procs \ {p} PROVE (Knows(z) /\ Exclusive(z) /\ Missing(z))'
      OBVIOUS
    <2> QED
      BY <1>1, OtherKeeps
  <1>4. ASSUME NEW s \in Servers PROVE Answers(s)'
    <2>1. Pending(s)' \subseteq Pending(s)
      BY <1>1 DEF Pending, OnlineSteps
    <2> QED
      BY <2>1, AnswersKept DEF sessionVars
  <1> QED
    BY <1>2, <1>3, <1>4 DEF Inv
\* A step there that writes neither the cache nor a mutex.
LEMMA OnlineReadInv ==
  ASSUME Inv, NEW p \in Procs, NEW l \in OnlineSteps \cup {"idle"}, NEW q \in Questions,
         Continue(p, l, q), UNCHANGED <<sessionVars, onlineVars>>,
         req' = req \/ req' = [req EXCEPT ![p] = NoRequest],
         (Knows(p) /\ Exclusive(p) /\ Missing(p))'
  PROVE  Inv'
  BY OnlineInv DEF Inv, TypeOK, OnlineTypeOK, onlineVars

LEMMA DoneKnows ==
  ASSUME Inv, NEW p \in Procs, Done(p)
  PROVE  NoQuestion \in Questions /\ (Knows(p) /\ Exclusive(p) /\ Missing(p))'
  <1>1. pc'[p] = "idle"
    BY DEF Done, Continue, Inv, TypeOK
  <1>2. NoQuestion \in Questions
    BY DEF NoQuestion, Questions
  <1> QED
    BY <1>1, <1>2 DEF Knows, Exclusive, Missing, OnlineSteps, Locked, Asking

LEMMA DoneInv ==
  ASSUME Inv, NEW p \in Procs, Done(p), UNCHANGED <<sessionVars, onlineVars>>,
         req' = req \/ req' = [req EXCEPT ![p] = NoRequest]
  PROVE  Inv'
  BY DoneKnows, OnlineReadInv DEF Done

\* The question a slot asks.
LEMMA Question ==
  ASSUME Inv, NEW p \in Procs, pc[p] \in OnlineSteps
  PROVE  /\ asks[p] \in Questions /\ asks[p].profile \in Profiles /\ asks[p].name \in Names
         /\ pc[p] \in Locked => holder[asks[p].name] = p
  BY DEF Inv, TypeOK, OnlineTypeOK, Knows, Exclusive

\* Going on with the same question.
LEMMA SameQuestion ==
  ASSUME Inv, NEW p \in Procs, NEW l \in OnlineSteps, pc[p] \in OnlineSteps,
         Continue(p, l, asks[p]), req' = req
  PROVE  pc'[p] = l /\ asks'[p] = asks[p] /\ (l # "upsert" => Knows(p)')
  <1>1. pc'[p] = l /\ asks'[p] = asks[p]
    BY DEF Continue, Inv, TypeOK, OnlineTypeOK
  <1> QED
    BY <1>1, Question DEF Knows, OnlineSteps

LEMMA ReadInv ==
  ASSUME Inv, NEW p \in Procs, Read(p), UNCHANGED <<sessionVars, req>>
  PROVE  Inv'
  <1>1. pc[p] = "read" /\ UNCHANGED onlineVars
    BY DEF Read, At
  <1>2. CASE Continue(p, "lock", asks[p])
    <2>1. (Knows(p) /\ Exclusive(p) /\ Missing(p))'
      BY <1>1, <1>2, SameQuestion DEF OnlineSteps, Exclusive, Missing, Locked, Asking
    <2> QED
      BY <1>1, <1>2, <2>1, Question, OnlineReadInv DEF OnlineSteps
  <1>3. CASE Done(p)
    BY <1>1, <1>3, DoneInv
  <1> QED
    BY <1>2, <1>3 DEF Read

LEMMA LockInv ==
  ASSUME Inv, NEW p \in Procs, Lock(p), UNCHANGED <<sessionVars, req>>
  PROVE  Inv'
  <1> DEFINE n == asks[p].name
  <1>1. /\ pc[p] = "lock" /\ holder[n] = None /\ holder' = [holder EXCEPT ![n] = p]
        /\ Continue(p, "readAgain", asks[p]) /\ UNCHANGED <<name, record>>
    BY DEF Lock, At
  <1>2. asks[p] \in Questions /\ n \in Names
    BY <1>1, Question DEF OnlineSteps
  <1>3. holder' \in [Names -> Procs \cup {None}] /\ holder'[n] = p
    BY <1>1, <1>2 DEF Inv, TypeOK, OnlineTypeOK
  <1>4. \A z \in Procs \ {p}, m \in Names : holder[m] = z => holder'[m] = z
    BY <1>1, <1>2, NoneAssumption DEF Inv, TypeOK, OnlineTypeOK
  <1>5. (Knows(p) /\ Exclusive(p) /\ Missing(p))'
    BY <1>1, <1>3, SameQuestion DEF OnlineSteps, Exclusive, Missing, Asking
  <1> QED
    BY <1>1, <1>2, <1>3, <1>4, <1>5, OnlineInv DEF Inv, TypeOK, OnlineTypeOK, OnlineSteps

LEMMA ReadAgainInv ==
  ASSUME Inv, NEW p \in Procs, ReadAgain(p), UNCHANGED <<sessionVars, req>>
  PROVE  Inv'
  <1>1. pc[p] = "readAgain" /\ UNCHANGED onlineVars /\ holder[asks[p].name] = p
    BY Question DEF ReadAgain, At, Locked, OnlineSteps
  <1>2. CASE ~Valid(asks[p].profile) /\ Continue(p, "lookup", asks[p])
    <2>1. pc'[p] = "lookup" /\ asks'[p] = asks[p] /\ Knows(p)'
      BY <1>1, <1>2, SameQuestion DEF OnlineSteps
    <2>2. Exclusive(p)' /\ Missing(p)'
      BY <1>1, <1>2, <2>1 DEF Exclusive, Missing, Valid, onlineVars
    <2> QED
      BY <1>1, <1>2, <2>1, <2>2, Question, OnlineReadInv DEF OnlineSteps
  <1>3. CASE Continue(p, "unlock", asks[p])
    <2>1. pc'[p] = "unlock" /\ asks'[p] = asks[p] /\ Knows(p)'
      BY <1>1, <1>3, SameQuestion DEF OnlineSteps
    <2>2. Exclusive(p)' /\ Missing(p)'
      BY <1>1, <2>1 DEF Exclusive, Missing, Asking, onlineVars
    <2> QED
      BY <1>1, <1>3, <2>1, <2>2, Question, OnlineReadInv DEF OnlineSteps
  <1> QED
    BY <1>2, <1>3 DEF ReadAgain

\* Mojang has answered or failed; the mutex stays, the cache is as it was.
LEMMA StoresInv ==
  ASSUME Inv, NEW p \in Procs, NEW l \in {"fetch", "upsert"}, NEW b \in BOOLEAN, NEW c \in BOOLEAN,
         pc[p] \in {"lookup", "fetch"}, Stores(p, l, b, c), UNCHANGED <<onlineVars, sessionVars, req>>
  PROVE  Inv'
  <1> DEFINE r == [of |-> asks[p].name, online |-> b, textures |-> c, valid |-> TRUE]
             q == [asks[p] EXCEPT !.record = r]
  <1>1. /\ asks[p] \in Questions /\ asks[p].profile \in Profiles /\ asks[p].name \in Names
        /\ holder[asks[p].name] = p
    BY Question DEF OnlineSteps, Locked
  <1>2. r \in Records /\ r.of = asks[p].name
    BY <1>1 DEF Records
  <1> HIDE DEF r
  <1>3. q \in Questions /\ q.profile = asks[p].profile /\ q.name = asks[p].name /\ q.record = r
    BY <1>1, <1>2 DEF Questions
  <1>4. Continue(p, l, q)
    BY DEF Stores, r
  <1> HIDE DEF q
  <1>5. pc'[p] = l /\ asks'[p] = q
    BY <1>4 DEF Continue, Inv, TypeOK, OnlineTypeOK
  <1>6. Knows(p)'
    BY <1>1, <1>2, <1>3, <1>5 DEF Knows, OnlineSteps
  <1>7. Exclusive(p)'
    BY <1>1, <1>3, <1>5 DEF Exclusive, onlineVars
  <1>8. Missing(p)'
    BY <1>3, <1>5 DEF Inv, Missing, Asking, Valid, onlineVars
  <1> QED
    BY <1>3, <1>4, <1>6, <1>7, <1>8, OnlineReadInv DEF OnlineSteps

LEMMA UpsertInv ==
  ASSUME Inv, NEW p \in Procs, Upsert(p), UNCHANGED <<sessionVars, req>>
  PROVE  Inv'
  <1> DEFINE q == asks[p]
  <1>1. /\ pc[p] = "upsert" /\ Continue(p, "unlock", q) /\ UNCHANGED <<name, holder>>
        /\ record' = [record EXCEPT ![q.profile] = q.record] \/ record' = record
    BY DEF Upsert, At
  <1>2. /\ q \in Questions /\ q.profile \in Profiles /\ q.name \in Names /\ holder[q.name] = p
        /\ q.record \in Records /\ q.record.of = q.name
    BY <1>1, Question DEF OnlineSteps, Locked, Inv, Knows
  <1>3. record' \in [Profiles -> Records \cup {None}]
    BY <1>1, <1>2 DEF Inv, TypeOK, OnlineTypeOK
  <1>4. pc'[p] = "unlock" /\ asks'[p] = q /\ Knows(p)'
    BY <1>1, SameQuestion DEF OnlineSteps
  <1>5. Exclusive(p)' /\ Missing(p)'
    BY <1>1, <1>2, <1>4 DEF Exclusive, Missing, Asking
  <1>6. ASSUME NEW z \in Procs \ {p}, pc[z] \in Asking
        PROVE  \/ record'[asks[z].profile] = record[asks[z].profile]
               \/ record'[asks[z].profile].of # asks[z].name
    <2>1. asks[z].profile \in Profiles /\ asks[z].name \in Names /\ holder[asks[z].name] = z
      BY <1>6, Question DEF OnlineSteps, Asking, Locked
    <2>2. asks[z].name # q.name
      BY <1>2, <2>1
    <2> QED
      BY <1>1, <1>2, <2>1, <2>2 DEF Inv, TypeOK, OnlineTypeOK
  <1> QED
    BY <1>1, <1>2, <1>3, <1>4, <1>5, <1>6, OnlineInv DEF Inv, TypeOK, OnlineTypeOK, OnlineSteps

LEMMA UnlockInv ==
  ASSUME Inv, NEW p \in Procs, Unlock(p), UNCHANGED <<sessionVars, req>>
  PROVE  Inv'
  <1>1. /\ pc[p] = "unlock" /\ Done(p) /\ UNCHANGED <<name, record>>
        /\ holder' = [holder EXCEPT ![asks[p].name] = None]
    BY DEF Unlock, At
  <1>2. asks[p].name \in Names /\ holder[asks[p].name] = p
    BY <1>1, Question DEF OnlineSteps, Locked
  <1>3. holder' \in [Names -> Procs \cup {None}]
    BY <1>1 DEF Inv, TypeOK, OnlineTypeOK
  <1>4. \A z \in Procs \ {p}, m \in Names : holder[m] = z => holder'[m] = z
    BY <1>1, <1>2 DEF Inv, TypeOK, OnlineTypeOK
  <1> QED
    BY <1>1, <1>3, <1>4, DoneKnows, OnlineInv DEF Done, Inv, TypeOK, OnlineTypeOK

LEMMA OnlineStepInv ==
  ASSUME Inv, NEW p \in Procs, OnlineStep(p), UNCHANGED <<sessionVars, req>>
  PROVE  Inv'
  <1>1. CASE Lookup(p)
    BY <1>1, StoresInv DEF Lookup, At
  <1>2. CASE Fetch(p)
    BY <1>2, StoresInv DEF Fetch, At
  <1> QED
    BY <1>1, <1>2, ReadInv, LockInv, ReadAgainInv, UpsertInv, UnlockInv DEF OnlineStep
-----------------------------------------------------------------------------
(* Steps of Sessions. *)

\* A request goes on to a step of Sessions: the cache and the mutexes stay.
LEMMA GoesInv ==
  ASSUME Inv, NEW p \in Procs, NEW l \in SessionSteps, NEW r \in Requests, Goes(p, l, r),
         valid' \subseteq Tokens, session' \in [Servers -> Keys \cup {None}],
         yes' \in [Servers -> Nat], Knows(p)', \A s \in Servers : Answers(s)'
  PROVE  Inv'
  <1>1. /\ pc' = [pc EXCEPT ![p] = l] /\ req' = [req EXCEPT ![p] = r]
        /\ UNCHANGED <<name, record, holder, asks>> /\ pc'[p] = l
        /\ \A z \in Procs \ {p} : pc'[z] = pc[z] /\ asks'[z] = asks[z] /\ req'[z] = req[z]
    BY DEF Goes, onlineVars, Inv, TypeOK
  <1>2. TypeOK'
    BY <1>1 DEF Inv, TypeOK, OnlineTypeOK
  <1>3. Exclusive(p)' /\ Missing(p)'
    BY <1>1 DEF Exclusive, Missing, Locked, Asking, SessionSteps
  <1>4. \A z \in Procs \ {p} : (Knows(z) /\ Exclusive(z) /\ Missing(z))'
    <2> SUFFICES ASSUME NEW z \in Procs \ {p} PROVE (Knows(z) /\ Exclusive(z) /\ Missing(z))'
      OBVIOUS
    <2> QED
      BY <1>1, OtherKeeps
  <1> QED
    BY <1>2, <1>3, <1>4 DEF Inv

\* What slot p knows after it went on.
LEMMA GoesKnows ==
  ASSUME Inv, NEW p \in Procs, NEW l \in SessionSteps, NEW r, Goes(p, l, r)
  PROVE  /\ pc'[p] = l /\ req'[p] = r
         /\ \A z \in Procs \ {p} : pc'[z] = pc[z] /\ req'[z] = req[z]
         /\ l = "idle" => Knows(p)'
  <1>1. /\ pc'[p] = l /\ req'[p] = r
        /\ \A z \in Procs \ {p} : pc'[z] = pc[z] /\ req'[z] = req[z]
    BY DEF Goes, Inv, TypeOK
  <1> QED
    BY <1>1 DEF Knows, OnlineSteps

LEMMA NoRequestTyped == NoRequest \in Requests /\ NoRequest.server = None
  BY DEF NoRequest, Requests

\* A request that ends, or goes on without a session, answers nothing.
LEMMA QuietInv ==
  ASSUME Inv, NEW p \in Procs, NEW l \in SessionSteps, NEW r \in Requests, Goes(p, l, r),
         UNCHANGED sessionVars, Knows(p)',
         l \in {"getProfile", "deleteSession"} =>
           pc[p] \in {"getProfile", "deleteSession"} /\ r.server = req[p].server
  PROVE  Inv'
  <1>1. /\ pc'[p] = l /\ req'[p] = r
        /\ \A z \in Procs \ {p} : pc'[z] = pc[z] /\ req'[z] = req[z]
    BY GoesKnows
  <1>2. ASSUME NEW s \in Servers PROVE Answers(s)'
    <2>1. Pending(s)' \subseteq Pending(s)
      BY <1>1 DEF Pending
    <2> QED
      BY <2>1, AnswersKept DEF sessionVars
  <1> QED
    BY <1>2, GoesInv DEF sessionVars, Inv, TypeOK

LEMMA EndsInv ==
  ASSUME Inv, NEW p \in Procs, Ends(p), UNCHANGED sessionVars
  PROVE  Inv'
  BY GoesKnows, NoRequestTyped, QuietInv DEF Ends, SessionSteps

LEMMA StartJoinInv ==
  ASSUME Inv, NEW p \in Procs, NEW t \in Tokens, NEW x \in Profiles, NEW s \in Servers,
         StartJoin(p, t, x, s)
  PROVE  Inv'
  <1> DEFINE d == [token |-> t, profile |-> x]
             r == [NoRequest EXCEPT !.server = s, !.data = d]
  <1>1. d \in SessionData
    BY DEF SessionData
  <1> HIDE DEF d
  <1>2. r \in Requests /\ r.server = s /\ r.data = d
    BY <1>1 DEF NoRequest, Requests
  <1>3. Goes(p, "setSession", r) /\ UNCHANGED sessionVars
    BY DEF StartJoin, d
  <1> HIDE DEF r
  <1>4. Knows(p)'
    BY <1>1, <1>2, <1>3, GoesKnows DEF Knows, OnlineSteps, SessionSteps
  <1> QED
    BY <1>2, <1>3, <1>4, QuietInv DEF SessionSteps

LEMMA StartHasJoinedInv ==
  ASSUME Inv, NEW p \in Procs, NEW s \in Servers, NEW n \in Names, StartHasJoined(p, s, n)
  PROVE  Inv'
  <1> DEFINE r == [NoRequest EXCEPT !.server = s, !.username = n]
  <1>1. r \in Requests /\ r.server = s /\ r.username = n
    BY DEF NoRequest, Requests
  <1>2. Goes(p, "getSession", r) /\ UNCHANGED sessionVars
    BY DEF StartHasJoined
  <1> HIDE DEF r
  <1>3. Knows(p)'
    BY <1>1, <1>2, GoesKnows DEF Knows, OnlineSteps, SessionSteps
  <1> QED
    BY <1>1, <1>2, <1>3, QuietInv DEF SessionSteps

\* A session is recorded, and no answer has been given for it; or the command
\* fails, and a slot less has something to do.
LEMMA SetSessionInv ==
  ASSUME Inv, NEW p \in Procs, SetSession(p)
  PROVE  Inv'
  <1> DEFINE s == req[p].server
             k == Set(req[p].data)
  <1>1. CASE UNCHANGED <<session, yes>>
    BY <1>1, EndsInv DEF SetSession, At, sessionVars
  <1>2. CASE session' = [session EXCEPT ![s] = k] /\ yes' = [yes EXCEPT ![s] = 0]
    <2>1. pc[p] = "setSession" /\ Ends(p) /\ UNCHANGED valid
      BY DEF SetSession, At
    <2>2. s \in Servers /\ k \in Keys
      BY <2>1 DEF Inv, Knows, Set, Keys
    <2>3. session' \in [Servers -> Keys \cup {None}] /\ yes' \in [Servers -> Nat]
      BY <1>2, <2>2 DEF Inv, TypeOK
    <2>4. /\ pc'[p] = "idle" /\ Knows(p)'
          /\ \A z \in Procs \ {p} : pc'[z] = pc[z] /\ req'[z] = req[z]
      BY <2>1, GoesKnows DEF Ends, SessionSteps
    <2>5. ASSUME NEW u \in Servers PROVE Answers(u)'
      <3>1. Pending(u)' \subseteq Pending(u)
        BY <2>4 DEF Pending
      <3>2. CASE u = s
        <4> DEFINE S == Pending(u)
                   T == Pending(u)'
        <4>1. IsFiniteSet(S) /\ T \subseteq S /\ Cardinality(S) \in Nat
              /\ Cardinality(Procs) \in Nat /\ Cardinality(S) <= Cardinality(Procs)
          BY <3>1, PendingFinite
        <4> HIDE DEF S, T
        <4>2. Cardinality(T) \in Nat /\ Cardinality(T) <= Cardinality(S)
          BY <4>1, FS_Subset, FS_CardinalityType
        <4>3. yes'[u] = 0
          BY <1>2, <2>2, <3>2 DEF Inv, TypeOK
        <4>4. yes'[u] + Cardinality(T) <= Cardinality(Procs)
          BY <4>1, <4>2, <4>3
        <4> QED
          BY <4>3, <4>4 DEF Answers, T
      <3>3. CASE u # s
        <4>1. session'[u] = session[u] /\ yes'[u] = yes[u]
          BY <1>2, <2>2, <3>3 DEF Inv, TypeOK
        <4> QED
          BY <3>1, <4>1, AnswersKept
      <3> QED
        BY <3>2, <3>3
    <2> QED
      BY <2>1, <2>3, <2>4, <2>5, NoRequestTyped, GoesInv DEF Ends, SessionSteps, Inv, TypeOK
  <1> QED
    BY <1>1, <1>2 DEF SetSession

\* One more slot may answer, for a session nobody has been answered for yet.
LEMMA GetSessionInv ==
  ASSUME Inv, NEW p \in Procs, GetSession(p)
  PROVE  Inv'
  <1> DEFINE s == req[p].server
             d == session[s].data
             r == [req[p] EXCEPT !.data = d]
  <1>1. pc[p] = "getSession" /\ UNCHANGED sessionVars
    BY DEF GetSession, At
  <1>2. req[p] \in Requests /\ s \in Servers /\ req[p].username \in Names
    BY <1>1 DEF Inv, Knows, TypeOK
  <1>3. CASE session[s] = None
    BY <1>1, <1>3, EndsInv DEF GetSession
  <1>4. CASE session[s] # None
    <2>1. d \in SessionData /\ yes[s] = 0
      BY <1>2, <1>4 DEF Inv, TypeOK, Keys, Answers
    <2>2. Goes(p, "getProfile", r)
      BY <1>4 DEF GetSession
    <2> HIDE DEF d
    <2>3. r \in Requests /\ r.server = s /\ r.username = req[p].username /\ r.data = d
      BY <1>2, <2>1 DEF Requests
    <2> HIDE DEF r
    <2>4. /\ pc'[p] = "getProfile" /\ req'[p] = r
          /\ \A z \in Procs \ {p} : pc'[z] = pc[z] /\ req'[z] = req[z]
      BY <2>2, GoesKnows DEF SessionSteps
    <2>5. Knows(p)'
      BY <1>2, <2>1, <2>3, <2>4 DEF Knows, OnlineSteps
    <2>6. ASSUME NEW u \in Servers PROVE Answers(u)'
      <3>1. CASE u = s
        <4> DEFINE T == Pending(u)'
        <4>1. T \subseteq Procs
          BY DEF Pending
        <4> HIDE DEF T
        <4>2. Cardinality(T) <= Cardinality(Procs) /\ Cardinality(T) \in Nat
          BY <4>1, ProcsAssumption, FS_Subset, FS_CardinalityType
        <4>3. yes'[u] = 0
          BY <1>1, <2>1, <3>1 DEF sessionVars
        <4>4. yes'[u] + Cardinality(T) <= Cardinality(Procs)
          BY <4>2, <4>3
        <4> QED
          BY <4>3, <4>4 DEF Answers, T
      <3>2. CASE u # s
        <4>1. Pending(u)' \subseteq Pending(u)
          BY <2>3, <2>4, <3>2 DEF Pending
        <4> QED
          BY <1>1, <4>1, AnswersKept DEF sessionVars
      <3> QED
        BY <3>1, <3>2
    <2> QED
      BY <1>1, <2>2, <2>3, <2>5, <2>6, GoesInv DEF sessionVars, SessionSteps, Inv, TypeOK
  <1> QED
    BY <1>3, <1>4

LEMMA CheckProfileInv ==
  ASSUME Inv, NEW p \in Procs, CheckProfile(p)
  PROVE  Inv'
  <1> DEFINE r == req[p]
  <1>1. pc[p] = "getProfile" /\ UNCHANGED sessionVars
    BY DEF CheckProfile, At
  <1>2. /\ r \in Requests /\ r.server \in Servers /\ r.username \in Names
        /\ r.data \in SessionData
    BY <1>1 DEF Inv, Knows, TypeOK
  <1>3. CASE Goes(p, "deleteSession", r)
    <2>1. Knows(p)'
      BY <1>2, <1>3, GoesKnows DEF Knows, OnlineSteps, SessionSteps
    <2> QED
      BY <1>1, <1>2, <1>3, <2>1, QuietInv DEF SessionSteps
  <1>4. CASE Ends(p)
    BY <1>1, <1>4, EndsInv
  <1> QED
    BY <1>3, <1>4 DEF CheckProfile

\* The slot has answered: it is no longer among those that may.
LEMMA DeleteSessionInv ==
  ASSUME Inv, NEW p \in Procs, DeleteSession(p)
  PROVE  Inv'
  <1> DEFINE r == req[p]
             s == r.server
  <1>1. /\ pc[p] = "deleteSession" /\ Goes(p, "build", r) /\ UNCHANGED valid
        /\ \/ session' = [session EXCEPT ![s] = None] /\ yes' = [yes EXCEPT ![s] = @ + 1]
           \/ session' = session /\ yes' = [yes EXCEPT ![s] = 0]
    BY DEF DeleteSession, At
  <1>2. /\ r \in Requests /\ s \in Servers /\ r.username \in Names /\ r.data \in SessionData
    BY <1>1 DEF Inv, Knows, TypeOK
  <1>3. session' \in [Servers -> Keys \cup {None}] /\ yes' \in [Servers -> Nat]
    BY <1>1, <1>2 DEF Inv, TypeOK
  <1>4. /\ pc'[p] = "build" /\ req'[p] = r
        /\ \A z \in Procs \ {p} : pc'[z] = pc[z] /\ req'[z] = req[z]
    BY <1>1, GoesKnows DEF SessionSteps
  <1>5. Knows(p)'
    BY <1>2, <1>4 DEF Knows, OnlineSteps
  <1>6. ASSUME NEW u \in Servers PROVE Answers(u)'
    <2>1. Pending(u)' \subseteq Pending(u)
      BY <1>4 DEF Pending
    <2>2. CASE u # s
      <3>1. session'[u] = session[u] /\ yes'[u] = yes[u]
        BY <1>1, <1>2, <2>2 DEF Inv, TypeOK
      <3> QED
        BY <2>1, <3>1, AnswersKept
    <2>3. CASE u = s
      <3> DEFINE S == Pending(u)
                 T == Pending(u)'
                 y == yes[u]
      <3>1. /\ IsFiniteSet(S) /\ Cardinality(S) \in Nat /\ Cardinality(Procs) \in Nat
            /\ y + Cardinality(S) <= Cardinality(Procs) /\ y \in Nat
        BY PendingFinite DEF Inv, Answers, TypeOK
      <3>2. T \subseteq S \ {p} /\ p \in S
        BY <1>1, <1>4, <2>1, <2>3 DEF Pending
      <3>3. Answers(u)' <=> /\ session'[u] # None => yes'[u] = 0
                            /\ yes'[u] + Cardinality(T) <= Cardinality(Procs)
        BY DEF Answers
      <3> HIDE DEF S, T
      <3>4. Cardinality(T) \in Nat /\ Cardinality(T) <= Cardinality(S) - 1
        <4>1. IsFiniteSet(S \ {p}) /\ Cardinality(S \ {p}) = Cardinality(S) - 1
          BY <3>1, <3>2, FS_RemoveElement
        <4> QED
          BY <3>1, <3>2, <4>1, FS_Subset, FS_CardinalityType
      <3>5. \/ session'[u] = None /\ yes'[u] = y + 1
            \/ yes'[u] = 0
        BY <1>1, <1>2, <2>3 DEF Inv, TypeOK
      <3> QED
        BY <3>1, <3>3, <3>4, <3>5
    <2> QED
      BY <2>2, <2>3
  <1> QED
    BY <1>1, <1>2, <1>3, <1>5, <1>6, GoesInv DEF SessionSteps, Inv, TypeOK

\* Asking for the textures of profile x under the name n.
LEMMA AskInv ==
  ASSUME Inv, NEW p \in Procs, NEW x \in Profiles, NEW n \in Names,
         Continue(p, "read", [NoQuestion EXCEPT !.profile = x, !.name = n]),
         UNCHANGED <<onlineVars, sessionVars>>,
         req' = req \/ req' = [req EXCEPT ![p] = NoRequest]
  PROVE  Inv'
  <1> DEFINE q == [NoQuestion EXCEPT !.profile = x, !.name = n]
  <1>1. q \in Questions /\ q.profile = x /\ q.name = n
    BY DEF NoQuestion, Questions
  <1> HIDE DEF q
  <1>2. Continue(p, "read", q)
    BY DEF q
  <1>3. pc'[p] = "read" /\ asks'[p] = q
    BY <1>2 DEF Continue, Inv, TypeOK, OnlineTypeOK
  <1>4. (Knows(p) /\ Exclusive(p) /\ Missing(p))'
    BY <1>1, <1>3 DEF Knows, Exclusive, Missing, OnlineSteps, Locked, Asking
  <1> QED
    BY <1>1, <1>2, <1>4, OnlineReadInv DEF OnlineSteps

LEMMA BuildInv ==
  ASSUME Inv, NEW p \in Procs, Build(p)
  PROVE  Inv'
  <1>1. pc[p] = "build" /\ UNCHANGED <<onlineVars, sessionVars>> /\ req' = [req EXCEPT ![p] = NoRequest]
    BY DEF Build, At
  <1>2. req[p].data.profile \in Profiles /\ req[p].username \in Names
    BY <1>1 DEF Inv, Knows, SessionData
  <1>3. CASE Done(p)
    BY <1>1, <1>3, DoneInv
  <1>4. CASE Continue(p, "read", [NoQuestion EXCEPT !.profile = req[p].data.profile,
                                                    !.name = req[p].username])
    BY <1>1, <1>2, <1>4, AskInv
  <1> QED
    BY <1>3, <1>4 DEF Build

LEMMA StartQueryInv ==
  ASSUME Inv, NEW p \in Procs, NEW x \in Profiles, StartQuery(p, x)
  PROVE  Inv'
  <1>1. name[x] \in Names
    BY DEF Inv, TypeOK, OnlineTypeOK
  <1> QED
    BY <1>1, AskInv DEF StartQuery, AskFor

-----------------------------------------------------------------------------
(* What happens without a request. *)

\* No slot moves, no mutex changes hands, and the answers stay.
LEMMA OutsideInv ==
  ASSUME Inv, UNCHANGED <<pc, asks, req, holder, yes>>, valid' \subseteq Tokens,
         name' \in [Profiles -> Names], record' \in [Profiles -> Records \cup {None}],
         \A x \in Profiles : record'[x] = record[x] \/ ~Valid(x)',
         session' \in [Servers -> Keys \cup {None}],
         \A s \in Servers : session'[s] \in {session[s], None}
  PROVE  Inv'
  <1>1. TypeOK'
    BY DEF Inv, TypeOK, OnlineTypeOK
  <1>2. ASSUME NEW z \in Procs PROVE (Knows(z) /\ Exclusive(z) /\ Missing(z))'
    <2>1. pc[z] \in Asking => asks[z].profile \in Profiles
      BY DEF Inv, Knows, Asking, OnlineSteps
    <2> QED
      BY <2>1, OtherKeeps
  <1>3. ASSUME NEW s \in Servers PROVE Answers(s)'
    <2>1. Pending(s)' \subseteq Pending(s)
      BY DEF Pending
    <2> QED
      BY <2>1, AnswersKept
  <1> QED
    BY <1>1, <1>2, <1>3 DEF Inv

LEMMA ExpireRecordInv ==
  ASSUME Inv, NEW x \in Profiles, ExpireRecord(x), UNCHANGED <<sessionVars, req>>
  PROVE  Inv'
  <1>1. record[x] \in Records
    BY DEF ExpireRecord, Valid, Inv, TypeOK, OnlineTypeOK
  <1>2. /\ record' \in [Profiles -> Records \cup {None}] /\ record'[x].valid = FALSE
        /\ \A y \in Profiles \ {x} : record'[y] = record[y]
    BY <1>1 DEF ExpireRecord, Inv, TypeOK, OnlineTypeOK, Records
  <1>3. \A y \in Profiles : record'[y] = record[y] \/ ~Valid(y)'
    BY <1>2 DEF Valid
  <1> QED
    BY <1>2, <1>3, OutsideInv DEF ExpireRecord, sessionVars, Inv, TypeOK, OnlineTypeOK

LEMMA OutsideStepInv == ASSUME Inv, Outside PROVE Inv'
  <1>1. ASSUME NEW x \in Profiles, NEW n \in Names, Rename(x, n), UNCHANGED <<sessionVars, req>>
        PROVE Inv'
    BY <1>1, OutsideInv DEF Rename, sessionVars, Inv, TypeOK, OnlineTypeOK
  <1>2. ASSUME NEW t \in Tokens, Invalidate(t) PROVE Inv'
    BY <1>2, OutsideInv DEF Invalidate, onlineVars, Inv, TypeOK, OnlineTypeOK
  <1>3. ASSUME NEW s \in Servers, ExpireSession(s) PROVE Inv'
    BY <1>3, OutsideInv DEF ExpireSession, onlineVars, Inv, TypeOK, OnlineTypeOK
  <1> QED
    BY <1>1, <1>2, <1>3, ExpireRecordInv DEF Outside, OnlineOutside

-----------------------------------------------------------------------------

LEMMA NextInv == Inv /\ [Next]_vars => Inv'
  <1> SUFFICES ASSUME Inv, [Next]_vars PROVE Inv'
    OBVIOUS
  <1>1. ASSUME NEW p \in Procs, Arrive(p) PROVE Inv'
    BY <1>1, StartJoinInv, StartHasJoinedInv, StartQueryInv DEF Arrive
  <1>2. ASSUME NEW p \in Procs, Step(p) PROVE Inv'
    BY <1>2, SetSessionInv, GetSessionInv, CheckProfileInv, DeleteSessionInv, BuildInv,
       OnlineStepInv DEF Step
  <1>3. CASE UNCHANGED vars
    BY <1>3, OutsideInv DEF vars, onlineVars, Inv, TypeOK, OnlineTypeOK
  <1> QED
    BY <1>1, <1>2, <1>3, OutsideStepInv DEF Next

LEMMA Invariance == Spec => []Inv
  BY InitInv, NextInv, PTL DEF Spec

\* Every variable has its type.
THEOREM TypeCorrect == Spec => []TypeOK
  <1>1. Inv => TypeOK
    BY DEF Inv
  <1> QED
    BY <1>1, Invariance, PTL

\* Mojang is asked for a name by one request at a time, and never for what is
\* cached: a request that waited for the mutex looks into the cache again, and
\* what another one stores meanwhile was asked for under another name.
THEOREM AskedOnce == Spec => []AskedOnlyWhenMissing
  <1>1. Inv => AskedOnlyWhenMissing
    <2> SUFFICES ASSUME Inv, NEW p \in Procs, pc[p] \in Asking
                 PROVE  /\ Valid(asks[p].profile) => record[asks[p].profile].of # asks[p].name
                        /\ \A q \in Procs \ {p} : pc[q] \in Asking => asks[q].name # asks[p].name
      BY DEF AskedOnlyWhenMissing, Asking
    <2>1. Valid(asks[p].profile) => record[asks[p].profile].of # asks[p].name
      BY DEF Inv, Missing
    <2>2. \A q \in Procs : pc[q] \in Asking => holder[asks[q].name] = q
      BY DEF Inv, Exclusive, Locked, Asking
    <2> QED
      BY <2>1, <2>2
  <1> QED
    BY <1>1, Invariance, PTL

\* However many servers ask for a session at a time, no more get it than there
\* are requests that can have read it before the first of them deleted it.
THEOREM FewAnswers == Spec => []YesOvershoot
  <1>1. Inv => YesOvershoot
    <2> SUFFICES ASSUME Inv, NEW s \in Servers PROVE yes[s] <= Cardinality(Procs)
      BY DEF YesOvershoot
    <2> QED
      BY PendingFinite DEF Inv, Answers, TypeOK
  <1> QED
    BY <1>1, Invariance, PTL
===========================================================================
