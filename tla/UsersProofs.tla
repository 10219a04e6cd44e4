---------------------------- MODULE UsersProofs ----------------------------
(***************************************************************************)
(* Proofs about Users, for every set of users, tokens, data and slots.     *)
(*                                                                         *)
(* Inv says what a slot knows at its step (Knows) and that whoever is      *)
(* cached has a row.  Requests of one user that do not overlap and do not  *)
(* fail keep more: SerialInv adds that the copy of a user agrees with the  *)
(* row except between the UPDATE and the HSET of the one request that      *)
(* serves the user, and what that request is about to write (Fresh).       *)
(***************************************************************************)
EXTENDS Users, TLAPS

\* The steps at which a request has a row in its hands.
WithRow == {"save", "hset", "expire", "hsetToken", "expireToken"}

\* The steps at which that row is in the database.
AfterRow == {"hset", "expire", "hsetToken", "expireToken"}

\* What slot p knows at its step.
Knows(p) ==
  /\ pc[p] # "idle" =>
       /\ req[p].user \in Accounts /\ req[p].op \in Ops
       /\ req[p].op = "password" => req[p].password \in Passwords
       /\ req[p].op \in {"visit", "info"} => req[p].info \in Infos
  /\ pc[p] \in WithRow => req[p].row \in Rows
  /\ pc[p] \in AfterRow => row[req[p].user] # None
  /\ req[p].token # None => req[p].user = Owner[req[p].token]
  /\ pc[p] \in {"hsetToken", "expireToken"} => req[p].token # None

Inv ==
  /\ TypeOK
  /\ CopyHasRow
  /\ \A p \in Procs : Knows(p)

-----------------------------------------------------------------------------
(* Lemmas about the operators. *)

LEMMA MergeTyped ==
  ASSUME NEW h \in Hashes \cup {None}, NEW r \in Rows
  PROVE  /\ Merge(h, r) \in Hashes /\ Merge(h, r).info = r.info
         /\ r.password # None => Merge(h, r).password = r.password
         /\ r.password = None => Merge(h, r).password = IF h = None THEN None ELSE h.password
  BY DEF Merge, Fields, Rows, Hashes

LEMMA LastingTyped ==
  ASSUME NEW h \in Hashes \cup {None}
  PROVE  /\ Lasting(h) \in Hashes \cup {None} /\ LastingToken(h) \in Hashes \cup {None}
         /\ Lasting(h) # None => h # None /\ Parse(Lasting(h)) = Parse(h)
         /\ LastingToken(h) # None => h # None
  BY DEF Lasting, LastingToken, Hashes, Parse

LEMMA ParseTyped ==
  ASSUME NEW h \in Hashes
  PROVE  Parse(h) \in Rows
  BY DEF Parse, Hashes, Rows

LEMMA NoRequestTyped ==
  /\ NoRequest \in Requests /\ NoRequest.user = None /\ NoRequest.token = None
  /\ NoRequest.info = None /\ NoRequest.password = None
  BY DEF NoRequest, Requests

\* What slot p does when it goes on.
LEMMA GoesOn ==
  ASSUME Inv, NEW p \in Procs, NEW l \in Statements, NEW r \in Requests, Goes(p, l, r)
  PROVE  /\ pc' \in [Procs -> Statements] /\ req' \in [Procs -> Requests]
         /\ pc'[p] = l /\ req'[p] = r
         /\ \A q \in Procs \ {p} : pc'[q] = pc[q] /\ req'[q] = req[q]
  BY DEF Goes, Inv, TypeOK

\* What a slot that serves a request has.
LEMMA Request ==
  ASSUME Inv, NEW p \in Procs
  PROVE  /\ req[p] \in Requests
         /\ req[p].token # None => req[p].token \in Tokens /\ req[p].user = Owner[req[p].token]
         /\ pc[p] # "idle" =>
              /\ req[p].user \in Accounts /\ req[p].op \in Ops
              /\ req[p].op = "password" => req[p].password \in Passwords
              /\ req[p].op \in {"visit", "info"} => req[p].info \in Infos
  BY DEF Inv, Knows, TypeOK, Requests

\* Where a request goes that has got the row x of its user.
LEMMA GotGoes ==
  ASSUME Inv, NEW p \in Procs, pc[p] # "idle", NEW x \in Rows, Got(p, x)
  PROVE  \/ Ends(p)
         \/ \E r \in Requests :
              /\ r.user = req[p].user /\ r.op = req[p].op /\ r.token = req[p].token
              /\ r.info = req[p].info /\ r.password = req[p].password /\ r.row \in Rows
              /\ \/ Goes(p, "hsetToken", r) /\ r.token # None
                 \/ /\ Goes(p, "save", r)
                    /\ r.op = "password" => r.row.password = r.password
                    /\ r.op # "password" => r.row.password = x.password
  <1> DEFINE r == [req[p] EXCEPT !.row = x]
             w == [r EXCEPT !.row.password = r.password]
             i == [r EXCEPT !.row.info = r.info]
  <1>1. req[p] \in Requests
    BY Request
  <1>2. /\ r \in Requests /\ r.user = req[p].user /\ r.op = req[p].op /\ r.token = req[p].token
        /\ r.info = req[p].info /\ r.password = req[p].password /\ r.row = x
    BY <1>1 DEF Requests
  <1>3. CASE r.op = "look"
    BY <1>3 DEF Got
  <1>4. CASE r.op = "password"
    <2>1. Goes(p, "save", w)
      BY <1>4 DEF Got
    <2>2. r.password \in Passwords
      BY <1>2, <1>4, Request
    <2> HIDE DEF r
    <2>3. /\ w \in Requests /\ w.user = req[p].user /\ w.op = req[p].op /\ w.token = req[p].token
          /\ w.info = req[p].info /\ w.password = req[p].password /\ w.row \in Rows
          /\ w.row.password = w.password
      BY <1>2, <2>2 DEF Requests, Rows
    <2> QED
      BY <1>2, <1>4, <2>1, <2>3
  <1>5. CASE r.op \notin {"look", "password"}
    <2>1. IF x.info = r.info THEN Answers(p, r) ELSE Goes(p, "save", i)
      BY <1>5 DEF Got
    <2>2. r.info \in Infos
      BY <1>2, <1>5, Request DEF Ops
    <2> HIDE DEF r
    <2>3. /\ i \in Requests /\ i.user = req[p].user /\ i.op = req[p].op /\ i.token = req[p].token
          /\ i.info = req[p].info /\ i.password = req[p].password /\ i.row \in Rows
          /\ i.row.password = x.password
      BY <1>2, <2>2 DEF Requests, Rows
    <2> HIDE DEF i
    <2>4. CASE Answers(p, r)
      BY <1>2, <2>4 DEF Answers
    <2> QED
      BY <1>2, <1>5, <2>1, <2>3, <2>4
  <1> QED
    BY <1>3, <1>4, <1>5

-----------------------------------------------------------------------------
(* Inv: every step of a slot. *)

LEMMA InitInv == Init => Inv
  BY NoRequestTyped
  DEF Init, Inv, TypeOK, CopyHasRow, Knows, Statements, WithRow, AfterRow, NoRequest

\* A slot takes a step; rows are only added or changed.
LEMMA StepKeeps ==
  ASSUME Inv, NEW p \in Procs, NEW l \in Statements, NEW r \in Requests, Goes(p, l, r), sso' = sso,
         row' \in [Accounts -> Rows \cup {None}], entry' \in [Accounts -> Hashes \cup {None}],
         token' \in [Tokens -> Hashes \cup {None}],
         \A u \in Accounts : row[u] # None => row'[u] # None,
         \A u \in Accounts : entry'[u] # None => entry[u] # None \/ row'[u] # None,
         \A k \in Tokens : token'[k] # None => token[k] # None \/ row'[Owner[k]] # None,
         Knows(p)'
  PROVE  Inv'
  <1>1. /\ pc' \in [Procs -> Statements] /\ req' \in [Procs -> Requests]
        /\ \A q \in Procs \ {p} : pc'[q] = pc[q] /\ req'[q] = req[q]
    BY GoesOn
  <1>2. TypeOK'
    BY <1>1 DEF Inv, TypeOK
  <1>3. CopyHasRow'
    BY OwnerAssumption DEF Inv, CopyHasRow
  <1>4. \A q \in Procs \ {p} : Knows(q)'
    <2> SUFFICES ASSUME NEW q \in Procs \ {p} PROVE Knows(q)'
      OBVIOUS
    <2>1. pc'[q] = pc[q] /\ req'[q] = req[q] /\ Knows(q)
      BY <1>1 DEF Inv
    <2>2. pc[q] \in AfterRow => row'[req[q].user] # None
      BY <2>1 DEF Knows, AfterRow
    <2> QED
      BY <2>1, <2>2 DEF Knows
  <1> QED
    BY <1>2, <1>3, <1>4 DEF Inv

\* A step that writes nothing but what the slot knows.
LEMMA ReadKeeps ==
  ASSUME Inv, NEW p \in Procs, NEW l \in Statements, NEW r \in Requests, Goes(p, l, r),
         UNCHANGED <<sso, row, entry, token>>, Knows(p)'
  PROVE  Inv'
  BY StepKeeps DEF Inv, TypeOK

LEMMA EndsKnows ==
  ASSUME Inv, NEW p \in Procs, Ends(p)
  PROVE  Knows(p)' /\ "idle" \in Statements /\ NoRequest \in Requests /\ Goes(p, "idle", NoRequest)
  <1>1. "idle" \in Statements /\ NoRequest \in Requests /\ Goes(p, "idle", NoRequest)
    BY NoRequestTyped DEF Ends, Statements
  <1>2. pc'[p] = "idle" /\ req'[p] = NoRequest
    BY <1>1, GoesOn
  <1> QED
    BY <1>1, <1>2, NoRequestTyped DEF Knows, WithRow, AfterRow

LEMMA EndsInv ==
  ASSUME Inv, NEW p \in Procs, Ends(p), UNCHANGED <<sso, row, entry, token>>
  PROVE  Inv'
  BY EndsKnows, ReadKeeps

\* The slot knows as much as before, of the same request.
LEMMA SameRequest ==
  ASSUME Inv, NEW p \in Procs, pc[p] # "idle", NEW l \in Statements, NEW r \in Requests,
         Goes(p, l, r), r.user = req[p].user, r.op = req[p].op, r.token = req[p].token,
         r.info = req[p].info, r.password = req[p].password,
         l \in WithRow => r.row \in Rows, l \in AfterRow => row'[r.user] # None,
         l \in {"hsetToken", "expireToken"} => r.token # None
  PROVE  Knows(p)'
  BY GoesOn, Request DEF Knows

LEMMA StartVisitInv ==
  ASSUME Inv, NEW p \in Procs, NEW k \in Tokens, StartVisit(p, k)
  PROVE  Inv'
  <1> DEFINE r == [NoRequest EXCEPT !.op = "visit", !.user = Owner[k], !.token = k,
                                    !.info = sso[Owner[k]]]
  <1>1. Owner[k] \in Accounts /\ sso[Owner[k]] \in Infos
    BY OwnerAssumption DEF Inv, TypeOK
  <1>2. r \in Requests /\ r.op = "visit" /\ r.user = Owner[k] /\ r.token = k /\ r.info \in Infos
    BY <1>1 DEF NoRequest, Requests, Ops
  <1>3. Goes(p, "get", r) /\ UNCHANGED <<sso, row, entry, token>>
    BY DEF StartVisit
  <1> HIDE DEF r
  <1>4. "get" \in Statements
    BY DEF Statements
  <1>5. pc'[p] = "get" /\ req'[p] = r
    BY <1>2, <1>3, <1>4, GoesOn
  <1>6. Knows(p)'
    BY <1>1, <1>2, <1>5 DEF Knows, WithRow, AfterRow, Ops
  <1> QED
    BY <1>2, <1>3, <1>4, <1>6, ReadKeeps

\* The other requests arrive without a token.
LEMMA ArriveKeeps ==
  ASSUME Inv, NEW p \in Procs, NEW r \in Requests, Goes(p, "get", r),
         UNCHANGED <<sso, row, entry, token>>, r.user \in Accounts, r.op \in Ops, r.token = None,
         r.op = "password" => r.password \in Passwords,
         r.op \in {"visit", "info"} => r.info \in Infos
  PROVE  Inv'
  <1>1. "get" \in Statements
    BY DEF Statements
  <1>2. pc'[p] = "get" /\ req'[p] = r
    BY <1>1, GoesOn
  <1>3. Knows(p)'
    BY <1>2 DEF Knows, WithRow, AfterRow
  <1> QED
    BY <1>1, <1>3, ReadKeeps

LEMMA ArriveInv ==
  ASSUME Inv, NEW p \in Procs, Arrive(p)
  PROVE  Inv'
  <1>1. ASSUME NEW u \in Accounts, StartInfo(p, u) PROVE Inv'
    <2> DEFINE r == [NoRequest EXCEPT !.op = "info", !.user = u, !.info = sso[u]]
    <2>1. r \in Requests /\ r.user = u /\ r.op = "info" /\ r.token = None /\ r.info \in Infos
      BY DEF NoRequest, Requests, Ops, Inv, TypeOK
    <2>2. Goes(p, "get", r) /\ UNCHANGED <<sso, row, entry, token>>
      BY <1>1 DEF StartInfo
    <2> HIDE DEF r
    <2> QED
      BY <2>1, <2>2, ArriveKeeps DEF Ops
  <1>2. ASSUME NEW u \in Accounts, NEW w \in Passwords, StartPassword(p, u, w) PROVE Inv'
    <2> DEFINE r == [NoRequest EXCEPT !.op = "password", !.user = u, !.password = w]
    <2>1. r \in Requests /\ r.user = u /\ r.op = "password" /\ r.token = None /\ r.password = w
      BY DEF NoRequest, Requests, Ops
    <2>2. Goes(p, "get", r) /\ UNCHANGED <<sso, row, entry, token>>
      BY <1>2 DEF StartPassword
    <2> HIDE DEF r
    <2> QED
      BY <2>1, <2>2, ArriveKeeps DEF Ops
  <1>3. ASSUME NEW u \in Accounts, StartLook(p, u) PROVE Inv'
    <2> DEFINE r == [NoRequest EXCEPT !.op = "look", !.user = u]
    <2>1. r \in Requests /\ r.user = u /\ r.op = "look" /\ r.token = None
      BY DEF NoRequest, Requests, Ops
    <2>2. Goes(p, "get", r) /\ UNCHANGED <<sso, row, entry, token>>
      BY <1>3 DEF StartLook
    <2> HIDE DEF r
    <2> QED
      BY <2>1, <2>2, ArriveKeeps DEF Ops
  <1> QED
    BY <1>1, <1>2, <1>3, StartVisitInv DEF Arrive

\* A request that has got its user's row, which is in the database.
LEMMA GotInv ==
  ASSUME Inv, NEW p \in Procs, pc[p] # "idle", NEW x \in Rows, Got(p, x), sso' = sso, row' = row,
         token' = token, entry' \in [Accounts -> Hashes \cup {None}],
         \A u \in Accounts : entry'[u] # None => entry[u] # None, row[req[p].user] # None
  PROVE  Inv'
  <1>1. CASE Ends(p)
    BY <1>1, EndsKnows, StepKeeps DEF Inv, TypeOK
  <1>2. ASSUME NEW r \in Requests, NEW l \in {"hsetToken", "save"}, Goes(p, l, r),
               r.user = req[p].user, r.op = req[p].op, r.token = req[p].token,
               r.info = req[p].info, r.password = req[p].password, r.row \in Rows,
               l = "hsetToken" => r.token # None
        PROVE  Inv'
    <2>1. l \in Statements
      BY DEF Statements
    <2>2. Knows(p)'
      BY <1>2, <2>1, SameRequest
    <2> QED
      BY <1>2, <2>1, <2>2, StepKeeps DEF Inv, TypeOK
  <1> QED
    BY <1>1, <1>2, GotGoes
\* A request that has written its user's copy or row answers: with a token, the
\* copy for the token is next.
LEMMA AnswersInv ==
  ASSUME Inv, NEW p \in Procs, pc[p] \in {"hset", "expire"}, Answers(p, req[p]),
         sso' = sso, row' = row, token' = token, entry' \in [Accounts -> Hashes \cup {None}],
         \A u \in Accounts : entry'[u] # None => entry[u] # None
  PROVE  Inv'
  <1>1. req[p] \in Requests /\ req[p].row \in Rows /\ row[req[p].user] # None /\ pc[p] # "idle"
    BY DEF Inv, TypeOK, Knows, WithRow, AfterRow
  <1>2. CASE Ends(p)
    BY <1>2, EndsKnows, StepKeeps DEF Inv, TypeOK
  <1>3. CASE req[p].token # None /\ Goes(p, "hsetToken", req[p])
    <2>1. "hsetToken" \in Statements
      BY DEF Statements
    <2>2. Knows(p)'
      BY <1>1, <1>3, <2>1, SameRequest
    <2> QED
      BY <1>1, <1>3, <2>1, <2>2, StepKeeps DEF Inv, TypeOK
  <1> QED
    BY <1>2, <1>3 DEF Answers

LEMMA CachedInv ==
  ASSUME Inv, NEW p \in Procs, pc[p] \in {"hset", "expire"}, Cached(p),
         sso' = sso, row' = row, token' = token, entry' \in [Accounts -> Hashes \cup {None}],
         \A u \in Accounts : entry'[u] # None => entry[u] # None
  PROVE  Inv'
  <1>1. req[p].row \in Rows /\ row[req[p].user] # None /\ pc[p] # "idle"
    BY DEF Inv, Knows, WithRow, AfterRow
  <1> QED
    BY <1>1, AnswersInv, GotInv DEF Cached

LEMMA GetInv ==
  ASSUME Inv, NEW p \in Procs, Get(p)
  PROVE  Inv'
  <1> DEFINE u == req[p].user
  <1>1. /\ pc[p] = "get" /\ UNCHANGED <<sso, row, entry, token>>
        /\ IF entry[u] # None THEN Got(p, Parse(entry[u])) ELSE Goes(p, "load", req[p])
    BY DEF Get, At
  <1>2. req[p] \in Requests /\ u \in Accounts
    BY <1>1, Request
  <1>3. CASE entry[u] # None
    <2>1. Parse(entry[u]) \in Rows /\ row[u] # None
      BY <1>2, <1>3, ParseTyped DEF Inv, TypeOK, CopyHasRow
    <2> QED
      BY <1>1, <1>3, <2>1, GotInv DEF Inv, TypeOK
  <1>4. CASE entry[u] = None
    <2>1. "load" \in Statements /\ Goes(p, "load", req[p])
      BY <1>1, <1>4 DEF Statements
    <2>2. Knows(p)'
      BY <1>1, <1>2, <2>1, SameRequest DEF WithRow, AfterRow
    <2> QED
      BY <1>1, <1>2, <2>1, <2>2, ReadKeeps
  <1> QED
    BY <1>3, <1>4

LEMMA LoadInv ==
  ASSUME Inv, NEW p \in Procs, Load(p)
  PROVE  Inv'
  <1> DEFINE r == req[p]
  <1>1. pc[p] = "load" /\ UNCHANGED <<sso, row, entry, token>>
    BY DEF Load, At
  <1>2. r \in Requests /\ r.user \in Accounts
    BY <1>1, Request
  <1>3. CASE row[r.user] # None
    <2> DEFINE w == [r EXCEPT !.row = row[r.user]]
    <2>1. Goes(p, "hset", w) /\ "hset" \in Statements
      BY <1>3 DEF Load, Statements
    <2>2. row[r.user] \in Rows
      BY <1>2, <1>3 DEF Inv, TypeOK
    <2>3. /\ w \in Requests /\ w.user = r.user /\ w.op = r.op /\ w.token = r.token
          /\ w.info = r.info /\ w.password = r.password /\ w.row \in Rows
      BY <1>2, <2>2 DEF Requests
    <2> HIDE DEF w
    <2>4. Knows(p)'
      BY <1>1, <1>3, <2>1, <2>3, SameRequest
    <2> QED
      BY <1>1, <2>1, <2>3, <2>4, ReadKeeps
  <1>4. CASE row[r.user] = None /\ r.info # None
    <2> DEFINE x == [info |-> r.info, password |-> None]
               w == [r EXCEPT !.row = x]
    <2>1. Goes(p, "save", w) /\ "save" \in Statements
      BY <1>4 DEF Load, Statements
    <2>2. x \in Rows
      BY <1>2, <1>4 DEF Requests, Rows
    <2> HIDE DEF x
    <2>3. /\ w \in Requests /\ w.user = r.user /\ w.op = r.op /\ w.token = r.token
          /\ w.info = r.info /\ w.password = r.password /\ w.row \in Rows
      BY <1>2, <2>2 DEF Requests
    <2> HIDE DEF w
    <2>4. Knows(p)'
      BY <1>1, <2>1, <2>3, SameRequest DEF AfterRow
    <2> QED
      BY <1>1, <2>1, <2>3, <2>4, ReadKeeps
  <1>5. CASE row[r.user] = None /\ r.info = None
    BY <1>1, <1>5, EndsInv DEF Load
  <1> QED
    BY <1>3, <1>4, <1>5

\* The row of a user is written, and only then copied.
LEMMA SaveInv ==
  ASSUME Inv, NEW p \in Procs, Save(p)
  PROVE  Inv'
  <1> DEFINE r == req[p]
             w == [r EXCEPT !.saved = TRUE]
  <1>1. /\ pc[p] = "save" /\ row' = [row EXCEPT ![r.user] = r.row] /\ Goes(p, "hset", w)
        /\ UNCHANGED <<sso, entry, token>> /\ "hset" \in Statements
    BY DEF Save, At, Statements
  <1>2. r \in Requests /\ r.user \in Accounts /\ r.row \in Rows
    BY <1>1, Request DEF Inv, Knows, WithRow
  <1>3. /\ w \in Requests /\ w.user = r.user /\ w.op = r.op /\ w.token = r.token
        /\ w.info = r.info /\ w.password = r.password /\ w.row = r.row
    BY <1>2 DEF Requests
  <1>4. /\ row' \in [Accounts -> Rows \cup {None}] /\ row'[r.user] = r.row
        /\ \A u \in Accounts \ {r.user} : row'[u] = row[u]
    BY <1>1, <1>2 DEF Inv, TypeOK
  <1> HIDE DEF w
  <1>5. row'[w.user] # None
    BY <1>2, <1>3, <1>4, RowAssumption
  <1>6. Knows(p)'
    BY <1>1, <1>2, <1>3, <1>5, SameRequest
  <1>7. \A u \in Accounts : row[u] # None => row'[u] # None
    BY <1>2, <1>4, RowAssumption
  <1> QED
    BY <1>1, <1>3, <1>4, <1>6, <1>7, StepKeeps DEF Inv, TypeOK

LEMMA HsetInv ==
  ASSUME Inv, NEW p \in Procs, Hset(p)
  PROVE  Inv'
  <1> DEFINE r == req[p]
             h == Merge(entry[r.user], r.row)
  <1>1. /\ pc[p] = "hset" /\ entry' = [entry EXCEPT ![r.user] = h] /\ Goes(p, "expire", r)
        /\ UNCHANGED <<sso, row, token>> /\ "expire" \in Statements
    BY DEF Hset, At, Statements
  <1>2. r \in Requests /\ r.user \in Accounts /\ r.row \in Rows /\ row[r.user] # None
    BY <1>1, Request DEF Inv, Knows, WithRow, AfterRow
  <1>3. h \in Hashes
    BY <1>2, MergeTyped DEF Inv, TypeOK
  <1> HIDE DEF h
  <1>4. /\ entry' \in [Accounts -> Hashes \cup {None}]
        /\ \A u \in Accounts \ {r.user} : entry'[u] = entry[u]
    BY <1>1, <1>2, <1>3 DEF Inv, TypeOK
  <1>5. Knows(p)'
    BY <1>1, <1>2, SameRequest
  <1>6. \A u \in Accounts : entry'[u] # None => entry[u] # None \/ row'[u] # None
    BY <1>1, <1>2, <1>4
  <1> QED
    BY <1>1, <1>2, <1>4, <1>5, <1>6, StepKeeps DEF Inv, TypeOK

LEMMA SetExpiryInv ==
  ASSUME Inv, NEW p \in Procs, SetExpiry(p)
  PROVE  Inv'
  <1> DEFINE u == req[p].user
             h == Lasting(entry[u])
  <1>1. /\ pc[p] = "expire" /\ entry' = [entry EXCEPT ![u] = h] /\ Cached(p)
        /\ UNCHANGED <<sso, row, token>>
    BY DEF SetExpiry, At
  <1>2. u \in Accounts
    BY <1>1, Request
  <1>3. h \in Hashes \cup {None} /\ (h # None => entry[u] # None)
    BY <1>2, LastingTyped DEF Inv, TypeOK
  <1> HIDE DEF h
  <1>4. /\ entry' \in [Accounts -> Hashes \cup {None}]
        /\ \A v \in Accounts : entry'[v] # None => entry[v] # None
    BY <1>1, <1>2, <1>3 DEF Inv, TypeOK
  <1> QED
    BY <1>1, <1>4, CachedInv

LEMMA HsetTokenInv ==
  ASSUME Inv, NEW p \in Procs, HsetToken(p)
  PROVE  Inv'
  <1> DEFINE r == req[p]
             h == Merge(token[r.token], r.row)
  <1>1. /\ pc[p] = "hsetToken" /\ token' = [token EXCEPT ![r.token] = h] /\ Goes(p, "expireToken", r)
        /\ UNCHANGED <<sso, row, entry>> /\ "expireToken" \in Statements
    BY DEF HsetToken, At, Statements
  <1>2. /\ r \in Requests /\ r.row \in Rows /\ row[r.user] # None
        /\ r.token \in Tokens /\ r.user = Owner[r.token]
    BY <1>1, Request DEF Inv, Knows, WithRow, AfterRow
  <1>3. h \in Hashes
    BY <1>2, MergeTyped DEF Inv, TypeOK
  <1> HIDE DEF h
  <1>4. /\ token' \in [Tokens -> Hashes \cup {None}]
        /\ \A k \in Tokens : token'[k] # None => token[k] # None \/ row'[Owner[k]] # None
    BY <1>1, <1>2, <1>3 DEF Inv, TypeOK
  <1>5. Knows(p)'
    BY <1>1, <1>2, NoneAssumption, SameRequest DEF Inv, Knows
  <1> QED
    BY <1>1, <1>2, <1>4, <1>5, StepKeeps DEF Inv, TypeOK

LEMMA SetExpiryTokenInv ==
  ASSUME Inv, NEW p \in Procs, SetExpiryToken(p)
  PROVE  Inv'
  <1> DEFINE k == req[p].token
             h == LastingToken(token[k])
  <1>1. /\ pc[p] = "expireToken" /\ token' = [token EXCEPT ![k] = h] /\ Ends(p)
        /\ UNCHANGED <<sso, row, entry>>
    BY DEF SetExpiryToken, At
  <1>2. k \in Tokens
    BY <1>1, Request DEF Inv, Knows
  <1>3. h \in Hashes \cup {None} /\ (h # None => token[k] # None)
    BY <1>2, LastingTyped DEF Inv, TypeOK
  <1> HIDE DEF h
  <1>4. /\ token' \in [Tokens -> Hashes \cup {None}]
        /\ \A t \in Tokens : token'[t] # None => token[t] # None
    BY <1>1, <1>2, <1>3 DEF Inv, TypeOK
  <1> QED
    BY <1>1, <1>4, EndsKnows, StepKeeps DEF Inv, TypeOK

LEMMA FailInv ==
  ASSUME Inv, NEW p \in Procs, CacheFails(p) \/ CutOff(p)
  PROVE  Inv'
  <1>1. CASE CutOff(p)
    BY <1>1, EndsInv DEF CutOff
  <1>2. CASE CacheFails(p)
    <2>1. UNCHANGED <<sso, row, entry, token>>
      BY <1>2 DEF CacheFails
    <2>2. CASE Ends(p)
      BY <2>1, <2>2, EndsInv
    <2>3. CASE pc[p] \in {"hset", "expire"} /\ Cached(p)
      BY <2>1, <2>3, CachedInv DEF Inv, TypeOK
    <2> QED
      BY <1>2, <2>2, <2>3 DEF CacheFails
  <1> QED
    BY <1>1, <1>2

\* What happens outside the requests takes copies away or changes what the
\* provider says.
LEMMA OutsideKeeps ==
  ASSUME Inv, UNCHANGED <<row, pc, req>>, sso' \in [Accounts -> Infos],
         entry' \in [Accounts -> Hashes \cup {None}], token' \in [Tokens -> Hashes \cup {None}],
         \A u \in Accounts : entry'[u] \in {entry[u], None},
         \A k \in Tokens : token'[k] \in {token[k], None}
  PROVE  Inv'
  <1>1. TypeOK' /\ CopyHasRow'
    BY DEF Inv, TypeOK, CopyHasRow
  <1>2. \A p \in Procs : Knows(p)'
    BY DEF Inv, Knows
  <1> QED
    BY <1>1, <1>2 DEF Inv

LEMMA NextInv == Inv /\ [Next]_vars => Inv'
  <1> SUFFICES ASSUME Inv, [Next]_vars PROVE Inv'
    OBVIOUS
  <1>1. ASSUME NEW p \in Procs, Step(p) PROVE Inv'
    BY <1>1, GetInv, LoadInv, SaveInv, HsetInv, SetExpiryInv, HsetTokenInv, SetExpiryTokenInv
    DEF Step
  <1>2. ASSUME NEW u \in Accounts, NEW x \in Infos, Change(u, x) PROVE Inv'
    BY <1>2, OutsideKeeps DEF Change, Inv, TypeOK
  <1>3. ASSUME NEW u \in Accounts, ExpireEntry(u) PROVE Inv'
    BY <1>3, OutsideKeeps DEF ExpireEntry, Inv, TypeOK
  <1>4. ASSUME NEW k \in Tokens, ExpireToken(k) PROVE Inv'
    BY <1>4, OutsideKeeps DEF ExpireToken, Inv, TypeOK
  <1>5. CASE UNCHANGED vars
    BY <1>5, OutsideKeeps DEF vars, Inv, TypeOK
  <1> QED
    BY <1>1, <1>2, <1>3, <1>4, <1>5, ArriveInv, FailInv DEF Next

LEMMA Invariance == Spec => []Inv
  BY InitInv, NextInv, PTL DEF Spec

\* Every variable has its type.
THEOREM TypeCorrect == Spec => []TypeOK
  <1>1. Inv => TypeOK
    BY DEF Inv
  <1> QED
    BY <1>1, Invariance, PTL

\* Whoever is cached, under the user or under an access token, has a row,
\* however requests overlap, fail and are cut off.
THEOREM CachedAfterRow == Spec => []CopyHasRow
  <1>1. Inv => CopyHasRow
    BY DEF Inv
  <1> QED
    BY <1>1, Invariance, PTL
-----------------------------------------------------------------------------
(* Requests of one user that do not overlap, and do not fail. *)

\* The copy of u, if there is one, agrees with the row.
Agrees(u) == entry[u] # None => row[u] # None /\ Parse(entry[u]) = row[u]

\* The steps at which the copy agrees with the row.
AgreeSteps == {"get", "load", "save", "expire", "hsetToken", "expireToken"}

\* What the request in slot p has done and is about to do.  What it saves
\* differs from the row in the password only when it changes the password; the
\* HSET that follows leaves no password in the copy that the row does not have.
Fresh(p) ==
  LET r == req[p]  u == req[p].user IN
  /\ pc[p] \in AgreeSteps => Agrees(u)
  /\ pc[p] = "save" /\ row[u] # None =>
       r.row.password = IF r.op = "password" THEN r.password ELSE row[u].password
  /\ pc[p] \in {"hset", "expire"} => r.row = row[u]
  /\ pc[p] = "hset" /\ entry[u] # None /\ entry[u].password # None => row[u].password # None

SerialInv ==
  /\ \A p \in Procs : pc[p] = "idle" => req[p].user = None
  /\ \A p, q \in Procs : req[p].user # None /\ req[q].user = req[p].user => q = p
  /\ \A u \in Accounts : ~Served(u) => Agrees(u)
  /\ \A p \in Procs : Fresh(p)

LEMMA SerialInit == Init => SerialInv
  BY NoRequestTyped, NoneAssumption DEF Init, SerialInv, Agrees, Served, Fresh, AgreeSteps

\* Who else is served.
LEMMA Others ==
  ASSUME Inv, SerialInv, NEW p \in Procs, pc[p] # "idle", NEW q \in Procs \ {p}
  PROVE  req[p].user \in Accounts /\ req[q].user # req[p].user
  BY Request, NoneAssumption DEF SerialInv

\* A step of the request of slot p writes the row and the copy of its user only.
LEMMA SerialStep ==
  ASSUME Inv, SerialInv, NEW p \in Procs, pc[p] # "idle", NEW v, req[p].user = v,
         NEW l \in Statements, NEW r \in Requests, Goes(p, l, r),
         IF l = "idle" THEN r.user = None ELSE r.user = v,
         \A u \in Accounts \ {v} : row'[u] = row[u] /\ entry'[u] = entry[u],
         Fresh(p)', l = "idle" => Agrees(v)'
  PROVE  SerialInv'
  <1>1. /\ pc'[p] = l /\ req'[p] = r
        /\ \A q \in Procs \ {p} : pc'[q] = pc[q] /\ req'[q] = req[q]
    BY GoesOn
  <1>2. v \in Accounts /\ \A q \in Procs \ {p} : req[q].user # v
    BY Others, Request
  <1>3. \A q \in Procs : pc'[q] = "idle" => req'[q].user = None
    BY <1>1 DEF SerialInv
  <1>4. \A q, z \in Procs : req'[q].user # None /\ req'[z].user = req'[q].user => z = q
    BY <1>1, <1>2 DEF SerialInv
  <1>5. ASSUME NEW u \in Accounts, ~Served(u)' PROVE Agrees(u)'
    <2>1. CASE u = v
      <3>1. l = "idle"
        BY <1>1, <1>5, <2>1 DEF Served
      <3> QED
        BY <2>1, <3>1 DEF Agrees
    <2>2. CASE u # v
      <3>1. ~Served(u)
        BY <1>1, <1>5, <2>2 DEF Served
      <3> QED
        BY <2>2, <3>1 DEF SerialInv, Agrees
    <2> QED
      BY <2>1, <2>2
  <1>6. ASSUME NEW q \in Procs \ {p} PROVE Fresh(q)'
    <2>1. pc'[q] = pc[q] /\ req'[q] = req[q] /\ req[q].user # v
      BY <1>1, <1>2
    <2>2. pc[q] # "idle" => req[q].user \in Accounts
      BY Request
    <2>3. pc[q] # "idle" => row'[req[q].user] = row[req[q].user] /\ entry'[req[q].user] = entry[req[q].user]
      BY <2>1, <2>2
    <2> QED
      BY <2>1, <2>3 DEF SerialInv, Fresh, Agrees, AgreeSteps
  <1> QED
    BY <1>3, <1>4, <1>5, <1>6 DEF SerialInv

\* A request of a user whom none is serving arrives.
LEMMA SerialArrive ==
  ASSUME Inv, SerialInv, NEW p \in Procs, pc[p] = "idle", NEW r \in Requests, Goes(p, "get", r),
         r.user \in Accounts, ~Served(r.user), UNCHANGED <<row, entry>>
  PROVE  SerialInv'
  <1>1. /\ pc'[p] = "get" /\ req'[p] = r
        /\ \A q \in Procs \ {p} : pc'[q] = pc[q] /\ req'[q] = req[q]
    BY GoesOn DEF Statements
  <1>2. \A q \in Procs : req[q].user # r.user
    BY DEF Served
  <1>3. \A q \in Procs : pc'[q] = "idle" => req'[q].user = None
    BY <1>1 DEF SerialInv
  <1>4. \A q, z \in Procs : req'[q].user # None /\ req'[z].user = req'[q].user => z = q
    BY <1>1, <1>2 DEF SerialInv
  <1>5. ASSUME NEW u \in Accounts, ~Served(u)' PROVE Agrees(u)'
    <2>1. ~Served(u)
      BY <1>1, <1>5, NoneAssumption DEF Served, SerialInv
    <2> QED
      BY <2>1 DEF SerialInv, Agrees
  <1>6. ASSUME NEW q \in Procs \ {p} PROVE Fresh(q)'
    BY <1>1 DEF SerialInv, Fresh, Agrees, AgreeSteps
  <1>7. Fresh(p)'
    <2>1. Agrees(r.user)
      BY DEF SerialInv
    <2> QED
      BY <1>1, <2>1 DEF Fresh, Agrees, AgreeSteps
  <1> QED
    BY <1>3, <1>4, <1>5, <1>6, <1>7 DEF SerialInv

LEMMA SerialArriveInv ==
  ASSUME Serial, Inv, SerialInv, NEW p \in Procs, Arrive(p)
  PROVE  SerialInv'
  <1>1. ASSUME NEW k \in Tokens, StartVisit(p, k) PROVE SerialInv'
    <2> DEFINE r == [NoRequest EXCEPT !.op = "visit", !.user = Owner[k], !.token = k,
                                      !.info = sso[Owner[k]]]
    <2>1. r \in Requests /\ r.user = Owner[k] /\ Owner[k] \in Accounts
      BY OwnerAssumption DEF NoRequest, Requests, Ops, Inv, TypeOK
    <2>2. Goes(p, "get", r) /\ UNCHANGED <<row, entry>> /\ pc[p] = "idle" /\ ~Served(Owner[k])
      BY <1>1 DEF StartVisit, Receive, At
    <2> HIDE DEF r
    <2> QED
      BY <2>1, <2>2, SerialArrive
  <1>2. ASSUME NEW u \in Accounts, StartInfo(p, u) PROVE SerialInv'
    <2> DEFINE r == [NoRequest EXCEPT !.op = "info", !.user = u, !.info = sso[u]]
    <2>1. r \in Requests /\ r.user = u
      BY DEF NoRequest, Requests, Ops, Inv, TypeOK
    <2>2. Goes(p, "get", r) /\ UNCHANGED <<row, entry>> /\ pc[p] = "idle" /\ ~Served(u)
      BY <1>2 DEF StartInfo, Receive, At
    <2> HIDE DEF r
    <2> QED
      BY <2>1, <2>2, SerialArrive
  <1>3. ASSUME NEW u \in Accounts, NEW w \in Passwords, StartPassword(p, u, w) PROVE SerialInv'
    <2> DEFINE r == [NoRequest EXCEPT !.op = "password", !.user = u, !.password = w]
    <2>1. r \in Requests /\ r.user = u
      BY DEF NoRequest, Requests, Ops
    <2>2. Goes(p, "get", r) /\ UNCHANGED <<row, entry>> /\ pc[p] = "idle" /\ ~Served(u)
      BY <1>3 DEF StartPassword, Receive, At
    <2> HIDE DEF r
    <2> QED
      BY <2>1, <2>2, SerialArrive
  <1>4. ASSUME NEW u \in Accounts, StartLook(p, u) PROVE SerialInv'
    <2> DEFINE r == [NoRequest EXCEPT !.op = "look", !.user = u]
    <2>1. r \in Requests /\ r.user = u
      BY DEF NoRequest, Requests, Ops
    <2>2. Goes(p, "get", r) /\ UNCHANGED <<row, entry>> /\ pc[p] = "idle" /\ ~Served(u)
      BY <1>4 DEF StartLook, Receive, At
    <2> HIDE DEF r
    <2> QED
      BY <2>1, <2>2, SerialArrive
  <1> QED
    BY <1>1, <1>2, <1>3, <1>4 DEF Arrive

\* The request ends while the copy agrees with the row.
LEMMA SerialEnds ==
  ASSUME Inv, SerialInv, NEW p \in Procs, pc[p] # "idle", NEW v, req[p].user = v, Ends(p),
         \A u \in Accounts \ {v} : row'[u] = row[u] /\ entry'[u] = entry[u], Agrees(v)'
  PROVE  SerialInv'
  <1>1. "idle" \in Statements /\ NoRequest \in Requests /\ Goes(p, "idle", NoRequest)
    BY EndsKnows
  <1>2. pc'[p] = "idle" /\ req'[p] = NoRequest
    BY <1>1, GoesOn
  <1>3. Fresh(p)'
    BY <1>2 DEF Fresh, AgreeSteps
  <1> QED
    BY <1>1, <1>3, NoRequestTyped, SerialStep

\* It goes on to a step at which the copy agrees with the row.
LEMMA SerialGoes ==
  ASSUME Inv, SerialInv, NEW p \in Procs, pc[p] # "idle", NEW v, req[p].user = v,
         NEW l \in {"load", "save", "hsetToken", "expireToken"}, NEW r \in Requests, Goes(p, l, r),
         r.user = v, UNCHANGED row,
         \A u \in Accounts \ {v} : entry'[u] = entry[u], Agrees(v)',
         l = "save" /\ row[v] # None =>
           r.row.password = IF r.op = "password" THEN r.password ELSE row[v].password
  PROVE  SerialInv'
  <1>1. l \in Statements
    BY DEF Statements
  <1>2. pc'[p] = l /\ req'[p] = r
    BY <1>1, GoesOn
  <1>3. Fresh(p)'
    BY <1>2 DEF Fresh, Agrees
  <1> QED
    BY <1>1, <1>3, SerialStep

\* It has got the row.
LEMMA SerialGot ==
  ASSUME Inv, SerialInv, NEW p \in Procs, pc[p] # "idle", NEW v, req[p].user = v,
         NEW x \in Rows, row[v] = x, Got(p, x), UNCHANGED row,
         \A u \in Accounts \ {v} : entry'[u] = entry[u], Agrees(v)'
  PROVE  SerialInv'
  <1>1. CASE Ends(p)
    BY <1>1, SerialEnds
  <1>2. ASSUME NEW r \in Requests, Goes(p, "hsetToken", r), r.user = v PROVE SerialInv'
    BY <1>2, SerialGoes
  <1>3. ASSUME NEW r \in Requests, Goes(p, "save", r), r.user = v,
               r.op = "password" => r.row.password = r.password,
               r.op # "password" => r.row.password = x.password
        PROVE  SerialInv'
    BY <1>3, SerialGoes
  <1> QED
    BY <1>1, <1>2, <1>3, GotGoes

LEMMA SerialGetInv ==
  ASSUME Inv, SerialInv, NEW p \in Procs, Get(p)
  PROVE  SerialInv'
  <1>1. PICK v : v = req[p].user
    OBVIOUS
  <1>2. /\ pc[p] = "get" /\ UNCHANGED <<row, entry>>
        /\ IF entry[v] # None THEN Got(p, Parse(entry[v])) ELSE Goes(p, "load", req[p])
    BY <1>1 DEF Get, At
  <1>3. req[p] \in Requests /\ v \in Accounts /\ Agrees(v)
    BY <1>1, <1>2, Request DEF SerialInv, Fresh, AgreeSteps
  <1>4. Agrees(v)'
    BY <1>2, <1>3 DEF Agrees
  <1>5. CASE entry[v] # None
    <2>1. row[v] = Parse(entry[v]) /\ Parse(entry[v]) \in Rows
      BY <1>3, <1>5, ParseTyped DEF Agrees, Inv, TypeOK
    <2> QED
      BY <1>1, <1>2, <1>4, <1>5, <2>1, SerialGot
  <1>6. CASE entry[v] = None
    BY <1>1, <1>2, <1>3, <1>4, <1>6, SerialGoes
  <1> QED
    BY <1>5, <1>6

LEMMA SerialLoadInv ==
  ASSUME Inv, SerialInv, NEW p \in Procs, Load(p)
  PROVE  SerialInv'
  <1> DEFINE r == req[p]
  <1>1. PICK v : v = r.user
    OBVIOUS
  <1>2. pc[p] = "load" /\ UNCHANGED <<row, entry>>
    BY DEF Load, At
  <1>3. r \in Requests /\ v \in Accounts /\ Agrees(v)
    BY <1>1, <1>2, Request DEF SerialInv, Fresh, AgreeSteps
  <1>4. Agrees(v)'
    BY <1>2, <1>3 DEF Agrees
  <1>5. CASE row[v] # None
    <2> DEFINE w == [r EXCEPT !.row = row[v]]
    <2>1. Goes(p, "hset", w) /\ "hset" \in Statements
      BY <1>1, <1>5 DEF Load, Statements
    <2>2. row[v] \in Rows
      BY <1>3, <1>5 DEF Inv, TypeOK
    <2>3. w \in Requests /\ w.user = v /\ w.row = row[v]
      BY <1>1, <1>3, <2>2 DEF Requests
    <2> HIDE DEF w
    <2>4. pc'[p] = "hset" /\ req'[p] = w
      BY <2>1, <2>3, GoesOn
    <2>5. entry[v] # None /\ entry[v].password # None => row[v].password # None
      BY <1>3 DEF Agrees, Parse
    <2>6. Fresh(p)'
      BY <1>2, <2>3, <2>4, <2>5 DEF Fresh, AgreeSteps
    <2> QED
      BY <1>1, <1>2, <2>1, <2>3, <2>6, SerialStep
  <1>6. CASE row[v] = None /\ r.info # None
    <2> DEFINE x == [info |-> r.info, password |-> None]
               w == [r EXCEPT !.row = x]
    <2>1. Goes(p, "save", w)
      BY <1>1, <1>6 DEF Load
    <2>2. x \in Rows
      BY <1>3, <1>6 DEF Requests, Rows
    <2> HIDE DEF x
    <2>3. w \in Requests /\ w.user = v
      BY <1>1, <1>3, <2>2 DEF Requests
    <2> HIDE DEF w
    <2> QED
      BY <1>1, <1>2, <1>4, <1>6, <2>1, <2>3, SerialGoes
  <1>7. CASE row[v] = None /\ r.info = None
    BY <1>1, <1>2, <1>4, <1>7, SerialEnds DEF Load
  <1> QED
    BY <1>5, <1>6, <1>7

\* The row is written; the copy, which agreed with the row before, has no
\* password the row has not.
LEMMA SerialSaveInv ==
  ASSUME Inv, SerialInv, NEW p \in Procs, Save(p)
  PROVE  SerialInv'
  <1> DEFINE r == req[p]
             w == [r EXCEPT !.saved = TRUE]
  <1>1. PICK v : v = r.user
    OBVIOUS
  <1>2. /\ pc[p] = "save" /\ row' = [row EXCEPT ![v] = r.row] /\ Goes(p, "hset", w)
        /\ UNCHANGED entry /\ "hset" \in Statements
    BY <1>1 DEF Save, At, Statements
  <1>3. /\ r \in Requests /\ v \in Accounts /\ r.row \in Rows /\ Agrees(v)
        /\ r.op = "password" => r.password \in Passwords
        /\ row[v] # None => r.row.password = IF r.op = "password" THEN r.password ELSE row[v].password
    BY <1>1, <1>2, Request DEF SerialInv, Fresh, AgreeSteps, Inv, Knows, WithRow
  <1>4. w \in Requests /\ w.user = v /\ w.row = r.row
    BY <1>1, <1>3 DEF Requests
  <1> HIDE DEF w
  <1>5. pc'[p] = "hset" /\ req'[p] = w
    BY <1>2, <1>4, GoesOn
  <1>6. row'[v] = r.row /\ \A u \in Accounts \ {v} : row'[u] = row[u]
    BY <1>2, <1>3 DEF Inv, TypeOK
  <1>7. entry[v] # None /\ entry[v].password # None => r.row.password # None
    BY <1>3, NoneAssumption DEF Agrees, Parse
  <1>8. Fresh(p)'
    BY <1>2, <1>4, <1>5, <1>6, <1>7 DEF Fresh, AgreeSteps
  <1> QED
    BY <1>1, <1>2, <1>4, <1>6, <1>8, SerialStep

\* HSET of the row makes the copy agree with it: fields it does not write are
\* not there.
LEMMA SerialHsetInv ==
  ASSUME Inv, SerialInv, NEW p \in Procs, Hset(p)
  PROVE  SerialInv'
  <1> DEFINE r == req[p]
  <1>1. PICK v : v = r.user
    OBVIOUS
  <1> DEFINE h == Merge(entry[v], r.row)
  <1>2. /\ pc[p] = "hset" /\ entry' = [entry EXCEPT ![v] = h] /\ Goes(p, "expire", r)
        /\ UNCHANGED row /\ "expire" \in Statements
    BY <1>1 DEF Hset, At, Statements
  <1>3. /\ r \in Requests /\ v \in Accounts /\ r.row \in Rows /\ r.row = row[v]
        /\ entry[v] # None /\ entry[v].password # None => row[v].password # None
    BY <1>1, <1>2, Request DEF SerialInv, Fresh, Inv, Knows, WithRow
  <1>4. h \in Hashes /\ Parse(h) = r.row
    <2>1. /\ h \in Hashes /\ h.info = r.row.info
          /\ r.row.password # None => h.password = r.row.password
          /\ r.row.password = None => h.password = IF entry[v] = None THEN None ELSE entry[v].password
      BY <1>3, MergeTyped DEF Inv, TypeOK
    <2> HIDE DEF h
    <2>2. h.password = r.row.password
      BY <1>3, <2>1
    <2> QED
      BY <1>3, <2>1, <2>2 DEF Parse, Rows
  <1> HIDE DEF h
  <1>5. entry'[v] = h /\ \A u \in Accounts \ {v} : entry'[u] = entry[u]
    BY <1>2, <1>3 DEF Inv, TypeOK
  <1>6. pc'[p] = "expire" /\ req'[p] = r
    BY <1>2, <1>3, GoesOn
  <1>7. row[v] # None
    BY <1>3, RowAssumption
  <1>8. Agrees(v)'
    BY <1>2, <1>3, <1>4, <1>5, <1>7 DEF Agrees
  <1>9. Fresh(p)'
    BY <1>1, <1>2, <1>3, <1>6, <1>8 DEF Fresh, Agrees
  <1> QED
    BY <1>1, <1>2, <1>3, <1>5, <1>9, SerialStep

LEMMA SerialSetExpiryInv ==
  ASSUME Inv, SerialInv, NEW p \in Procs, SetExpiry(p)
  PROVE  SerialInv'
  <1> DEFINE r == req[p]
  <1>1. PICK v : v = r.user
    OBVIOUS
  <1> DEFINE h == Lasting(entry[v])
  <1>2. pc[p] = "expire" /\ entry' = [entry EXCEPT ![v] = h] /\ Cached(p) /\ UNCHANGED row
    BY <1>1 DEF SetExpiry, At
  <1>3. r \in Requests /\ v \in Accounts /\ r.row \in Rows /\ r.row = row[v] /\ Agrees(v)
    BY <1>1, <1>2, Request DEF SerialInv, Fresh, AgreeSteps, Inv, Knows, WithRow
  <1>4. h # None => entry[v] # None /\ Parse(h) = Parse(entry[v])
    BY <1>3, LastingTyped DEF Inv, TypeOK
  <1> HIDE DEF h
  <1>5. entry'[v] = h /\ \A u \in Accounts \ {v} : entry'[u] = entry[u]
    BY <1>2, <1>3 DEF Inv, TypeOK
  <1>6. Agrees(v)'
    BY <1>2, <1>3, <1>4, <1>5 DEF Agrees
  <1>7. CASE r.saved /\ Ends(p)
    BY <1>1, <1>2, <1>5, <1>6, <1>7, SerialEnds
  <1>8. CASE r.saved /\ Goes(p, "hsetToken", r)
    BY <1>1, <1>2, <1>3, <1>5, <1>6, <1>8, SerialGoes
  <1>9. CASE ~r.saved /\ Got(p, r.row)
    BY <1>1, <1>2, <1>3, <1>5, <1>6, <1>9, SerialGot
  <1> QED
    BY <1>2, <1>7, <1>8, <1>9 DEF Cached, Answers

LEMMA SerialTokenInv ==
  ASSUME Inv, SerialInv, NEW p \in Procs, HsetToken(p) \/ SetExpiryToken(p)
  PROVE  SerialInv'
  <1>1. PICK v : v = req[p].user
    OBVIOUS
  <1>2. pc[p] \in {"hsetToken", "expireToken"} /\ UNCHANGED <<row, entry>>
    BY DEF HsetToken, SetExpiryToken, At
  <1>3. req[p] \in Requests /\ v \in Accounts /\ Agrees(v)
    BY <1>1, <1>2, Request DEF SerialInv, Fresh, AgreeSteps
  <1>4. Agrees(v)'
    BY <1>2, <1>3 DEF Agrees
  <1>5. CASE HsetToken(p)
    BY <1>1, <1>2, <1>3, <1>4, <1>5, SerialGoes DEF HsetToken
  <1>6. CASE SetExpiryToken(p)
    BY <1>1, <1>2, <1>4, <1>6, SerialEnds DEF SetExpiryToken
  <1> QED
    BY <1>5, <1>6

\* Copies expire, and the provider changes its mind.
LEMMA SerialOutside ==
  ASSUME SerialInv, UNCHANGED <<row, pc, req>>, \A u \in Accounts : entry'[u] \in {entry[u], None},
         Inv
  PROVE  SerialInv'
  <1>1. ASSUME NEW u \in Accounts, ~Served(u)' PROVE Agrees(u)'
    BY <1>1 DEF SerialInv, Served, Agrees
  <1>2. ASSUME NEW q \in Procs PROVE Fresh(q)'
    <2>1. pc[q] # "idle" => req[q].user \in Accounts
      BY Request
    <2> QED
      BY <2>1 DEF SerialInv, Fresh, Agrees, AgreeSteps
  <1> QED
    BY <1>1, <1>2 DEF SerialInv

LEMMA SerialNext == ASSUME Serial, ~Faults PROVE Inv /\ SerialInv /\ [Next]_vars => SerialInv'
  <1> SUFFICES ASSUME Inv, SerialInv, [Next]_vars PROVE SerialInv'
    OBVIOUS
  <1>1. ASSUME NEW p \in Procs, Step(p) PROVE SerialInv'
    BY <1>1, SerialGetInv, SerialLoadInv, SerialSaveInv, SerialHsetInv, SerialSetExpiryInv,
       SerialTokenInv DEF Step
  <1>2. ASSUME NEW p \in Procs, CacheFails(p) \/ CutOff(p) PROVE SerialInv'
    BY <1>2 DEF CacheFails, CutOff
  <1>3. ASSUME NEW u \in Accounts, NEW x \in Infos, Change(u, x) PROVE SerialInv'
    BY <1>3, SerialOutside DEF Change
  <1>4. ASSUME NEW u \in Accounts, ExpireEntry(u) PROVE SerialInv'
    BY <1>4, SerialOutside DEF ExpireEntry, Inv, TypeOK
  <1>5. ASSUME NEW k \in Tokens, ExpireToken(k) PROVE SerialInv'
    BY <1>5, SerialOutside DEF ExpireToken
  <1>6. CASE UNCHANGED vars
    BY <1>6, SerialOutside DEF vars
  <1> QED
    BY <1>1, <1>2, <1>3, <1>4, <1>5, <1>6, SerialArriveInv DEF Next

LEMMA SerialInvariance == ASSUME Serial, ~Faults PROVE Spec => [](Inv /\ SerialInv)
  <1>1. Inv /\ SerialInv /\ [Next]_vars => SerialInv'
    BY SerialNext
  <1> QED
    BY <1>1, InitInv, NextInv, SerialInit, PTL DEF Spec

\* The copy of a user in Redis agrees with the row while no request serves the
\* user, if the requests of a user do not overlap and none fails half-way.
THEOREM CopyAgrees == ASSUME Serial, ~Faults PROVE Spec => []Coherent
  <1>1. SerialInv => Coherent
    BY DEF SerialInv, Coherent, Agrees
  <1>2. Spec => [](Inv /\ SerialInv)
    BY SerialInvariance
  <1> QED
    BY <1>1, <1>2, PTL

\* Under the same condition the password of a user changes only to the one a
\* request to change it was given, although every save writes the whole row.
THEOREM PasswordOnlyChanged == ASSUME Serial, ~Faults PROVE Spec => PasswordKept
  <1> DEFINE Kept == \A u \in Accounts :
               row[u] # None /\ row'[u].password # row[u].password
                 => \E p \in Procs : req[p].op = "password" /\ req[p].user = u
                                       /\ req[p].password = row'[u].password
  <1>1. Inv /\ SerialInv /\ [Next]_vars => [Kept]_vars
    <2> SUFFICES ASSUME Inv, SerialInv, Next, NEW u \in Accounts, row[u] # None,
                        row'[u].password # row[u].password
                 PROVE  \E p \in Procs : req[p].op = "password" /\ req[p].user = u
                                           /\ req[p].password = row'[u].password
      OBVIOUS
    <2>1. PICK p \in Procs : Save(p)
      BY DEF Next, Arrive, StartVisit, StartInfo, StartLook, StartPassword, Step, Get, Load, Hset,
         SetExpiry, HsetToken, SetExpiryToken, CacheFails, CutOff, Change, ExpireEntry, ExpireToken
    <2>2. pc[p] = "save" /\ row' = [row EXCEPT ![req[p].user] = req[p].row]
      BY <2>1 DEF Save, At
    <2>3. u = req[p].user /\ row'[u] = req[p].row
      BY <2>2 DEF Inv, TypeOK
    <2>4. req[p].row.password = IF req[p].op = "password" THEN req[p].password ELSE row[u].password
      BY <2>2, <2>3 DEF SerialInv, Fresh
    <2> QED
      BY <2>3, <2>4
  <1>2. Spec => [](Inv /\ SerialInv)
    BY SerialInvariance
  <1> QED
    BY <1>1, <1>2, PTL DEF Spec, PasswordKept
============================================================================
