------------------------- MODULE GameTokensProofs -------------------------
(***************************************************************************)
(* Proofs about GameTokens for every set of users, profiles, tokens and    *)
(* slots, and every limit.                                                 *)
(*                                                                         *)
(* The inductive invariant Inv says what each slot knows at its next       *)
(* statement (SlotOK), that two slots never work on one new token nor hold *)
(* the lock of one row (Apart), and what the rows say of each other        *)
(* (Lineage).                                                              *)
(***************************************************************************)
EXTENDS GameTokens, FiniteSetTheorems, TLAPS

\* Slot p has created a token that has not been handed out.
Carries(p) == pc[p] \in {"bind", "undo", "answer"}

SlotOK(p) ==
  /\ pc[p] # "idle" => req[p].user \in Users
  /\ Carries(p) => req[p].tok \in Tokens /\ status[req[p].tok] # "unused" /\ req[p].tok \notin issued
  /\ pc[p] \in {"bind", "undo"} => user[req[p].tok] = req[p].user /\ from[req[p].tok] = None
  /\ pc[p] \in {"revokeOld", "replace"} =>
       /\ req[p].old \in issued
       /\ req[p].user = user[req[p].old]
       /\ req[p].bind # None => Owner[req[p].bind] = req[p].user
       /\ bound[req[p].old] # None => req[p].bind = bound[req[p].old]
  /\ pc[p] = "replace" => req[p].seen = {req[p].old} /\ status[req[p].old] \in Refreshable
  /\ pc[p] = "count" => req[p].seen = {}
  /\ pc[p] = "create" => \A t \in req[p].seen : status[t] # "unused"
  /\ pc[p] \in {"scan", "invalidateAll", "recount", "scanLeft", "invalidateLeft"} =>
       req[p].before \subseteq issued
  /\ pc[p] = "invalidateAll" => req[p].before \cap Usable(req[p].user) \subseteq req[p].seen
  /\ pc[p] \in {"recount", "scanLeft", "invalidateLeft"} =>
       req[p].before \cap Usable(req[p].user) = {}

Apart(p, q) ==
  /\ Carries(p) /\ Carries(q) => req[p].tok # req[q].tok
  /\ Locks(p) \cap Locks(q) = {}

Lineage ==
  /\ RefreshReplaces
  /\ BindingKept
  /\ \A t \in Tokens : from[t] # None => from[t] \in issued
  /\ \A t \in Tokens : status[t] = "unused" => bound[t] = None /\ from[t] = None

Inv ==
  /\ TypeOK
  /\ \A p \in Procs : SlotOK(p)
  /\ \A p, q \in Procs : p # q => Apart(p, q)
  /\ Lineage

-----------------------------------------------------------------------------

\* What a step of the slots in M leaves to the others: it creates rows, or
\* revokes rows no other slot has locked; it neither moves a row to another
\* user nor binds a token that was handed out.
Frame(M) ==
  /\ \A q \in Procs \ M : pc'[q] = pc[q] /\ req'[q] = req[q]
  /\ \A t \in Tokens :
       \/ status'[t] = status[t]
       \/ status[t] = "unused" /\ status'[t] = "Valid"
       \/ status[t] # "unused" /\ status'[t] = "Invalid" /\ \A q \in Procs \ M : t \notin Locks(q)
  /\ \A t \in Tokens : status[t] # "unused" => user'[t] = user[t] /\ from'[t] = from[t]
  /\ \A t \in issued : bound'[t] = bound[t]
  /\ \A t \in issued' \ issued : \E p \in M : Carries(p) /\ t = req[p].tok
  /\ issued \subseteq issued'
  /\ expired \subseteq expired'

\* A slot that does not step keeps what it knows.
LEMMA OthersKeep ==
  ASSUME Inv, NEW M \in SUBSET Procs, Frame(M), NEW q \in Procs \ M
  PROVE  SlotOK(q)'
  <1>1. pc'[q] = pc[q] /\ req'[q] = req[q] /\ SlotOK(q)
    BY DEF Inv, Frame
  <1>2. issued \subseteq Tokens /\ \A t \in issued : status[t] # "unused"
    BY DEF Inv, TypeOK
  <1>3. req[q] \in Requests /\ pc[q] \in Labels
    BY DEF Inv, TypeOK
  <1>4. pc[q] # "idle" => req[q].user \in Users
    BY <1>1 DEF SlotOK
  <1>5. Carries(q) =>
          req[q].tok \in Tokens /\ status'[req[q].tok] # "unused" /\ req[q].tok \notin issued'
    <2> SUFFICES ASSUME Carries(q)
                 PROVE  req[q].tok \in Tokens /\ status'[req[q].tok] # "unused" /\ req[q].tok \notin issued'
      OBVIOUS
    <2>1. req[q].tok \in Tokens /\ status[req[q].tok] # "unused" /\ req[q].tok \notin issued
      BY <1>1 DEF SlotOK
    <2>2. \A p \in M : Carries(p) => req[p].tok # req[q].tok
      BY DEF Inv, Apart
    <2> QED
      BY <2>1, <2>2 DEF Frame
  <1>6. pc[q] \in {"bind", "undo"} => user'[req[q].tok] = req[q].user /\ from'[req[q].tok] = None
    BY <1>1 DEF SlotOK, Frame, Carries
  <1>7. pc[q] \in {"revokeOld", "replace"} =>
          /\ req[q].old \in issued'
          /\ req[q].user = user'[req[q].old]
          /\ req[q].bind # None => Owner[req[q].bind] = req[q].user
          /\ bound'[req[q].old] # None => req[q].bind = bound'[req[q].old]
    BY <1>1, <1>2 DEF SlotOK, Frame
  <1>8. pc[q] = "replace" => req[q].seen = {req[q].old} /\ status'[req[q].old] \in Refreshable
    <2> SUFFICES ASSUME pc[q] = "replace"
                 PROVE  req[q].seen = {req[q].old} /\ status'[req[q].old] \in Refreshable
      OBVIOUS
    <2>1. req[q].seen = {req[q].old} /\ status[req[q].old] \in Refreshable /\ req[q].old \in Tokens
      BY <1>1, <1>2 DEF SlotOK
    <2>2. req[q].old \in Locks(q)
      BY <2>1 DEF Locks
    <2> QED
      BY <2>1, <2>2 DEF Frame, Refreshable
  <1>9. pc[q] = "create" => \A t \in req[q].seen : status'[t] # "unused"
    BY <1>1, <1>3 DEF SlotOK, Frame, Requests
  <1>10. \A u \in Users : \A t \in issued : t \in Usable(u)' => t \in Usable(u)
    BY <1>2 DEF Usable, Frame
  <1>11. pc[q] \in {"scan", "invalidateAll", "recount", "scanLeft", "invalidateLeft"} =>
           req[q].before \subseteq issued /\ req[q].before \subseteq issued'
    BY <1>1 DEF SlotOK, Frame
  <1>12. pc[q] = "invalidateAll" => req[q].before \cap Usable(req[q].user)' \subseteq req[q].seen
    BY <1>1, <1>4, <1>10, <1>11 DEF SlotOK
  <1>13. pc[q] \in {"recount", "scanLeft", "invalidateLeft"} =>
           req[q].before \cap Usable(req[q].user)' = {}
    BY <1>1, <1>4, <1>10, <1>11 DEF SlotOK
  <1>14. Usable(req[q].user)' = {t \in Tokens : user'[t] = req'[q].user /\ status'[t] = "Valid" /\ t \notin expired'}
    BY DEF Usable
  <1> QED
    BY <1>1, <1>4, <1>5, <1>6, <1>7, <1>8, <1>9, <1>11, <1>12, <1>13, <1>14 DEF SlotOK, Carries, Usable

\* The lineage outlives a step that changes no user, binding or predecessor.
LEMMA LineageKept ==
  ASSUME Inv, NEW M \in SUBSET Procs, Frame(M), UNCHANGED <<user, bound, from>>
  PROVE  Lineage'
  <1>1. RefreshReplaces'
    BY DEF Inv, Lineage, RefreshReplaces, Frame
  <1>2. BindingKept'
    BY DEF Inv, Lineage, BindingKept
  <1>3. \A t \in Tokens : from'[t] # None => from'[t] \in issued'
    BY DEF Inv, Lineage, Frame
  <1>4. \A t \in Tokens : status'[t] = "unused" => bound'[t] = None /\ from'[t] = None
    BY DEF Inv, Lineage, Frame
  <1> QED
    BY <1>1, <1>2, <1>3, <1>4 DEF Lineage

\* A step of slot p keeps the invariant if the token it carries is its own or
\* new and it locks no row that another slot has locked.
LEMMA StepInv ==
  ASSUME Inv, NEW p \in Procs, Frame({p}), TypeOK', Lineage', SlotOK(p)',
         Carries(p)' => \/ Carries(p) /\ req'[p].tok = req[p].tok
                        \/ status[req'[p].tok] = "unused",
         \A q \in Procs \ {p} : Locks(p)' \cap Locks(q) = {}
  PROVE  Inv'
  <1>1. \A q \in Procs : SlotOK(q)'
    BY OthersKeep
  <1>2. \A q \in Procs \ {p} : pc'[q] = pc[q] /\ req'[q] = req[q]
    BY DEF Frame
  <1>3. \A q \in Procs \ {p} : Locks(q)' = Locks(q) /\ (Carries(q)' <=> Carries(q))
    BY <1>2 DEF Locks, Carries
  <1>4. \A q, r \in Procs \ {p} : q # r => Apart(q, r)'
    BY <1>2, <1>3 DEF Inv, Apart
  <1>5. \A q \in Procs \ {p} : Apart(p, q)' /\ Apart(q, p)'
    <2> SUFFICES ASSUME NEW q \in Procs \ {p} PROVE Apart(p, q)' /\ Apart(q, p)'
      OBVIOUS
    <2>1. Locks(p)' \cap Locks(q)' = {}
      BY <1>3
    <2>2. Carries(p)' /\ Carries(q)' => req'[p].tok # req'[q].tok
      BY <1>2, <1>3 DEF Inv, Apart, SlotOK
    <2> QED
      BY <2>1, <2>2 DEF Apart
  <1>6. \A q, r \in Procs : q # r => Apart(q, r)'
    BY <1>4, <1>5
  <1> QED
    BY <1>1, <1>6 DEF Inv

\* The slot a step moves, and the others.
LEMMA Moves ==
  ASSUME TypeOK, NEW p \in Procs, NEW l \in Labels, NEW r \in Requests, Goes(p, l, r)
  PROVE  /\ pc'[p] = l /\ req'[p] = r
         /\ \A q \in Procs \ {p} : pc'[q] = pc[q] /\ req'[q] = req[q]
         /\ pc' \in [Procs -> Labels] /\ req' \in [Procs -> Requests]
  BY DEF TypeOK, Goes

\* A step of slot p that changes no row keeps the invariant if p knows what its
\* next statement needs, carries nothing new and locks nothing another has
\* locked.
LEMMA LocalInv ==
  ASSUME Inv, NEW p \in Procs, NEW l \in Labels, NEW r \in Requests,
         Goes(p, l, r), UNCHANGED <<rows, expired, issued>>, SlotOK(p)',
         l \in {"bind", "undo", "answer"} => Carries(p) /\ r.tok = req[p].tok,
         l \in {"create", "replace"} => \A q \in Procs \ {p} : r.seen \cap Locks(q) = {}
  PROVE  Inv'
  <1>1. /\ pc'[p] = l /\ req'[p] = r
        /\ \A q \in Procs \ {p} : pc'[q] = pc[q] /\ req'[q] = req[q]
        /\ pc' \in [Procs -> Labels] /\ req' \in [Procs -> Requests]
    BY Moves DEF Inv
  <1>2. TypeOK'
    BY <1>1 DEF Inv, TypeOK, rows
  <1>3. Frame({p})
    BY <1>1 DEF Frame, rows
  <1>4. Lineage'
    BY <1>3, LineageKept DEF rows
  <1>5. Carries(p)' => Carries(p) /\ req'[p].tok = req[p].tok
    BY <1>1 DEF Carries
  <1>6. \A q \in Procs \ {p} : Locks(p)' \cap Locks(q) = {}
    BY <1>1 DEF Locks
  <1> QED
    BY <1>2, <1>3, <1>4, <1>5, <1>6, StepInv

\* A token that was handed out is a row, of a user.
LEMMA IssuedKnown ==
  ASSUME TypeOK, NEW t \in issued
  PROVE  t \in Tokens /\ user[t] \in Users /\ status[t] # "unused"
  BY DEF TypeOK

-----------------------------------------------------------------------------
(* Steps that change no row. *)

LEMMA AuthenticateInv ==
  ASSUME Inv, NEW p \in Procs, NEW u \in Users, Authenticate(p, u)
  PROVE  Inv'
  <1> DEFINE r == [NoRequest EXCEPT !.user = u]
  <1>1. r \in Requests /\ "count" \in Labels
    BY DEF NoRequest, Requests, Labels
  <1>2. Goes(p, "count", r) /\ UNCHANGED <<rows, expired, issued>>
    BY DEF Authenticate
  <1>3. SlotOK(p)'
    BY <1>1, <1>2, Moves DEF Inv, SlotOK, Carries, NoRequest
  <1> QED
    BY <1>1, <1>2, <1>3, LocalInv

LEMMA CountValidInv ==
  ASSUME Inv, NEW p \in Procs, CountValid(p)
  PROVE  Inv'
  <1>1. PICK l \in {"scanOldest", "create"} : Goes(p, l, req[p])
    BY DEF CountValid
  <1>2. /\ l \in Labels /\ req[p] \in Requests /\ pc[p] = "count" /\ req[p].seen = {}
        /\ UNCHANGED <<rows, expired, issued>>
    BY DEF Inv, TypeOK, Labels, CountValid, SlotOK
  <1>3. SlotOK(p)'
    BY <1>1, <1>2, Moves DEF Inv, SlotOK, Carries
  <1> QED
    BY <1>1, <1>2, <1>3, LocalInv

LEMMA ScanOldestInv ==
  ASSUME Inv, NEW p \in Procs, ScanOldest(p)
  PROVE  Inv'
  <1> DEFINE r == [req[p] EXCEPT !.seen = Usable(req[p].user)]
  <1>1. r \in Requests /\ "revokeOldest" \in Labels
    BY DEF Inv, TypeOK, Requests, Labels, Usable
  <1>2. pc[p] = "scanOldest" /\ Goes(p, "revokeOldest", r) /\ UNCHANGED <<rows, expired, issued>>
    BY DEF ScanOldest
  <1>3. r.user = req[p].user
    BY DEF Inv, TypeOK, Requests
  <1>4. pc'[p] = "revokeOldest" /\ req'[p] = r
    BY <1>1, <1>2, Moves DEF Inv
  <1>5. SlotOK(p)'
    BY <1>2, <1>3, <1>4 DEF Inv, SlotOK, Carries
  <1> QED
    BY <1>1, <1>2, <1>5, LocalInv

LEMMA RevokeOldestInv ==
  ASSUME Inv, NEW p \in Procs, RevokeOldest(p)
  PROVE  Inv'
  <1> DEFINE r == [req[p] EXCEPT !.seen = @ \cap Usable(req[p].user)]
  <1>1. r \in Requests /\ "create" \in Labels
    BY DEF Inv, TypeOK, Requests, Labels, Usable
  <1>2. /\ pc[p] = "revokeOldest" /\ Goes(p, "create", r) /\ UNCHANGED <<rows, expired, issued>>
        /\ Free(p, req[p].seen)
    BY DEF RevokeOldest
  <1>3. r.user = req[p].user /\ r.seen = req[p].seen \cap Usable(req[p].user)
    BY DEF Inv, TypeOK, Requests
  <1>4. pc'[p] = "create" /\ req'[p] = r
    BY <1>1, <1>2, Moves DEF Inv
  <1>5. \A t \in r.seen : status'[t] # "unused"
    BY <1>2, <1>3 DEF Usable, rows
  <1>6. SlotOK(p)'
    BY <1>2, <1>3, <1>4, <1>5 DEF Inv, SlotOK, Carries
  <1>7. \A q \in Procs \ {p} : r.seen \cap Locks(q) = {}
    BY <1>2, <1>3 DEF Free
  <1> QED
    BY <1>1, <1>2, <1>6, <1>7, LocalInv

LEMMA UndoFailsInv ==
  ASSUME Inv, NEW p \in Procs, UndoFails(p)
  PROVE  Inv'
  <1>1. /\ req[p] \in Requests /\ "answer" \in Labels /\ pc[p] = "undo"
        /\ Goes(p, "answer", req[p]) /\ UNCHANGED <<rows, expired, issued>>
    BY DEF Inv, TypeOK, Labels, UndoFails
  <1>2. SlotOK(p)'
    BY <1>1, Moves DEF Inv, SlotOK, Carries, rows
  <1> QED
    BY <1>1, <1>2, LocalInv DEF Carries

LEMMA ReadTokenInv ==
  ASSUME Inv, NEW p \in Procs, NEW t \in Tokens, ReadToken(p, t)
  PROVE  Inv'
  <1>1. PICK f \in Choices(t) :
          Goes(p, "revokeOld", [NoRequest EXCEPT !.user = user[t], !.old = t, !.bind = f])
    BY DEF ReadToken
  <1> DEFINE r == [NoRequest EXCEPT !.user = user[t], !.old = t, !.bind = f]
  <1>2. t \in issued /\ UNCHANGED <<rows, expired, issued>>
    BY DEF ReadToken
  <1>3. user[t] \in Users /\ bound[t] \in Profiles \cup {None}
    BY <1>2, IssuedKnown DEF Inv, TypeOK
  <1>4. /\ f \in Profiles \cup {None}
        /\ f # None => Owner[f] = user[t]
        /\ bound[t] # None => f = bound[t]
    BY <1>3 DEF Choices, ProfilesOf, Inv, Lineage, BindingKept
  <1>5. r \in Requests /\ "revokeOld" \in Labels
    BY <1>3, <1>4 DEF NoRequest, Requests, Labels
  <1>6. r.user = user[t] /\ r.old = t /\ r.bind = f
    BY DEF NoRequest
  <1>7. pc'[p] = "revokeOld" /\ req'[p] = r
    BY <1>1, <1>5, Moves DEF Inv
  <1>8. SlotOK(p)'
    BY <1>2, <1>3, <1>4, <1>6, <1>7 DEF SlotOK, Carries, rows
  <1> QED
    BY <1>1, <1>2, <1>5, <1>8, LocalInv

LEMMA RevokeOldInv ==
  ASSUME Inv, NEW p \in Procs, RevokeOld(p)
  PROVE  Inv'
  <1> DEFINE r == [req[p] EXCEPT !.seen = {req[p].old}]
  <1>1. /\ pc[p] = "revokeOld" /\ Goes(p, "replace", r) /\ UNCHANGED <<rows, expired, issued>>
        /\ Free(p, {req[p].old}) /\ CanRefresh(req[p].old)
    BY DEF RevokeOld
  <1>2. req[p].old \in Tokens /\ SlotOK(p)
    BY <1>1, IssuedKnown DEF Inv, SlotOK
  <1>3. r \in Requests /\ "replace" \in Labels
    BY <1>2 DEF Inv, TypeOK, Requests, Labels
  <1>4. /\ r.user = req[p].user /\ r.old = req[p].old /\ r.bind = req[p].bind
        /\ r.seen = {req[p].old}
    BY DEF Inv, TypeOK, Requests
  <1>5. pc'[p] = "replace" /\ req'[p] = r
    BY <1>1, <1>3, Moves DEF Inv
  <1>6. SlotOK(p)'
    BY <1>1, <1>2, <1>4, <1>5 DEF SlotOK, Carries, rows, CanRefresh
  <1>7. \A q \in Procs \ {p} : r.seen \cap Locks(q) = {}
    BY <1>1, <1>4 DEF Free
  <1> QED
    BY <1>1, <1>3, <1>6, <1>7, LocalInv

\* A request that ends without writing.
LEMMA EndsInv ==
  ASSUME Inv, NEW p \in Procs, Ends(p), UNCHANGED <<rows, expired, issued>>
  PROVE  Inv'
  <1>1. NoRequest \in Requests /\ "idle" \in Labels /\ Goes(p, "idle", NoRequest)
    BY DEF NoRequest, Requests, Labels, Ends
  <1>2. SlotOK(p)'
    BY <1>1, Moves DEF Inv, SlotOK, Carries
  <1> QED
    BY <1>1, <1>2, LocalInv

LEMMA SignOutInv ==
  ASSUME Inv, NEW p \in Procs, NEW u \in Users, SignOut(p, u)
  PROVE  Inv'
  <1> DEFINE r == [NoRequest EXCEPT !.user = u, !.before = {t \in issued : user[t] = u}]
  <1>1. Goes(p, "scan", r) /\ UNCHANGED <<rows, expired, issued>>
    BY DEF SignOut
  <1>2. r \in Requests /\ "scan" \in Labels
    BY DEF Inv, TypeOK, NoRequest, Requests, Labels
  <1>3. r.user = u /\ r.before \subseteq issued
    BY DEF NoRequest
  <1>4. pc'[p] = "scan" /\ req'[p] = r
    BY <1>1, <1>2, Moves DEF Inv
  <1>5. SlotOK(p)'
    BY <1>1, <1>3, <1>4 DEF SlotOK, Carries
  <1> QED
    BY <1>1, <1>2, <1>5, LocalInv

LEMMA ScanValidInv ==
  ASSUME Inv, NEW p \in Procs, ScanValid(p)
  PROVE  Inv'
  <1> DEFINE r == [req[p] EXCEPT !.seen = Usable(req[p].user)]
             l == IF pc[p] = "scan" THEN "invalidateAll" ELSE "invalidateLeft"
  <1>1. pc[p] \in {"scan", "scanLeft"} /\ Goes(p, l, r) /\ UNCHANGED <<rows, expired, issued>>
    BY DEF ScanValid
  <1>2. r \in Requests /\ l \in Labels
    BY DEF Inv, TypeOK, Requests, Labels, Usable
  <1>3. r.user = req[p].user /\ r.before = req[p].before /\ r.seen = Usable(req[p].user)
    BY DEF Inv, TypeOK, Requests
  <1>4. pc'[p] = l /\ req'[p] = r
    BY <1>1, <1>2, Moves DEF Inv
  <1>5. Usable(req[p].user)' = {t \in Tokens : user'[t] = req'[p].user /\ status'[t] = "Valid" /\ t \notin expired'}
    BY DEF Usable
  <1>6. Usable(req[p].user)' = Usable(req[p].user)
    BY <1>1, <1>3, <1>4, <1>5 DEF Usable, rows
  <1>7. SlotOK(p)'
    BY <1>1, <1>3, <1>4, <1>6 DEF Inv, SlotOK, Carries
  <1> QED
    BY <1>1, <1>2, <1>7, LocalInv

LEMMA RecountInv ==
  ASSUME Inv, NEW p \in Procs, Recount(p)
  PROVE  Inv'
  <1>1. CASE Usable(req[p].user) = {}
    BY <1>1, EndsInv DEF Recount
  <1>2. CASE Usable(req[p].user) # {}
    <2>1. /\ pc[p] = "recount" /\ Goes(p, "scanLeft", req[p]) /\ UNCHANGED <<rows, expired, issued>>
      BY <1>2 DEF Recount
    <2>2. req[p] \in Requests /\ "scanLeft" \in Labels
      BY DEF Inv, TypeOK, Labels
    <2>3. pc'[p] = "scanLeft" /\ req'[p] = req[p]
      BY <2>1, <2>2, Moves DEF Inv
    <2>4. SlotOK(p)'
      BY <2>1, <2>3 DEF Inv, SlotOK, Carries, Usable, rows
    <2> QED
      BY <2>1, <2>2, <2>4, LocalInv
  <1> QED
    BY <1>1, <1>2

-----------------------------------------------------------------------------
(* Steps that change rows. *)

\* The statuses after a commit that revokes what p has locked and inserts t.
LEMMA CommitFrame ==
  ASSUME Inv, NEW p \in Procs, NEW t \in Tokens, status[t] = "unused",
         pc[p] \in {"create", "replace"}, status' = Committed(req[p].seen, t)
  PROVE  /\ status' \in [Tokens -> Statuses \cup {"unused"}]
         /\ status'[t] = "Valid"
         /\ \A s \in Tokens \ {t} :
              status'[s] = IF s \in req[p].seen THEN "Invalid" ELSE status[s]
         /\ \A s \in Tokens :
              \/ status'[s] = status[s]
              \/ status[s] = "unused" /\ status'[s] = "Valid"
              \/ /\ status[s] # "unused" /\ status'[s] = "Invalid"
                 /\ \A q \in Procs \ {p} : s \notin Locks(q)
  <1>1. status'[t] = "Valid" /\ status' \in [Tokens -> Statuses \cup {"unused"}]
    BY DEF Inv, TypeOK, Committed, Revoked, Statuses
  <1>2. \A s \in Tokens \ {t} :
          status'[s] = IF s \in req[p].seen THEN "Invalid" ELSE status[s]
    BY DEF Inv, TypeOK, Committed, Revoked, Statuses
  <1>3. \A s \in req[p].seen : status[s] # "unused"
    <2>1. CASE pc[p] = "create"
      BY <2>1 DEF Inv, SlotOK
    <2>2. CASE pc[p] = "replace"
      BY <2>2, IssuedKnown DEF Inv, SlotOK
    <2> QED
      BY <2>1, <2>2
  <1>4. \A q \in Procs \ {p} : req[p].seen \cap Locks(q) = {}
    BY DEF Inv, Apart, Locks
  <1> QED
    BY <1>1, <1>2, <1>3, <1>4

LEMMA CreateTokenInv ==
  ASSUME Inv, NEW p \in Procs, CreateToken(p)
  PROVE  Inv'
  <1>1. PICK t \in Tokens, l \in {"bind", "answer"} :
          /\ status[t] = "unused"
          /\ status' = Committed(req[p].seen, t)
          /\ user' = [user EXCEPT ![t] = req[p].user]
          /\ Goes(p, l, [req[p] EXCEPT !.tok = t, !.seen = {}])
    BY DEF CreateToken
  <1> DEFINE r == [req[p] EXCEPT !.tok = t, !.seen = {}]
  <1>2. pc[p] = "create" /\ UNCHANGED <<bound, from, expired, issued>>
    BY DEF CreateToken
  <1>3. r \in Requests /\ l \in Labels /\ r.user = req[p].user /\ r.tok = t
    BY DEF Inv, TypeOK, Requests, Labels
  <1>4. /\ pc'[p] = l /\ req'[p] = r
        /\ \A q \in Procs \ {p} : pc'[q] = pc[q] /\ req'[q] = req[q]
        /\ pc' \in [Procs -> Labels] /\ req' \in [Procs -> Requests]
    BY <1>1, <1>3, Moves DEF Inv
  <1>5. /\ status' \in [Tokens -> Statuses \cup {"unused"}]
        /\ status'[t] = "Valid"
        /\ \A s \in Tokens \ {t} :
             status'[s] = IF s \in req[p].seen THEN "Invalid" ELSE status[s]
        /\ \A s \in Tokens :
             \/ status'[s] = status[s]
             \/ status[s] = "unused" /\ status'[s] = "Valid"
             \/ /\ status[s] # "unused" /\ status'[s] = "Invalid"
                /\ \A q \in Procs \ {p} : s \notin Locks(q)
    BY <1>1, <1>2, CommitFrame
  <1>6. req[p].user \in Users /\ user'[t] = req[p].user /\ t \notin issued
    BY <1>1, <1>2 DEF Inv, SlotOK, TypeOK
  <1>7. \A s \in Tokens \ {t} : user'[s] = user[s]
    BY <1>1 DEF Inv, TypeOK
  <1>8. \A s \in Tokens : status'[s] = "unused" <=> status[s] = "unused" /\ s # t
    BY <1>5
  <1>9. TypeOK'
    <2>1. \A s \in Tokens : user'[s] = None <=> status'[s] = "unused"
      BY <1>6, <1>7, <1>8, NoneAssumption DEF Inv, TypeOK
    <2>2. user' \in [Tokens -> Users \cup {None}]
      BY <1>1, <1>6 DEF Inv, TypeOK
    <2>3. issued' \subseteq {s \in Tokens : status'[s] # "unused"}
      BY <1>2, <1>6, <1>8 DEF Inv, TypeOK
    <2> QED
      BY <1>2, <1>4, <1>5, <2>1, <2>2, <2>3 DEF Inv, TypeOK
  <1>10. Frame({p})
    BY <1>1, <1>2, <1>4, <1>5, <1>7 DEF Frame
  <1>11. Lineage'
    <2>1. RefreshReplaces'
      BY <1>2, <1>10 DEF Inv, Lineage, RefreshReplaces, Frame
    <2>2. BindingKept'
      <3> SUFFICES ASSUME NEW s \in Tokens
                   PROVE  /\ bound'[s] # None => Owner[bound'[s]] = user'[s]
                          /\ from'[s] # None =>
                               /\ user'[s] = user'[from'[s]]
                               /\ bound'[from'[s]] # None => bound'[s] = bound'[from'[s]]
        BY DEF BindingKept
      <3>1. bound[t] = None /\ from[t] = None
        BY <1>1 DEF Inv, Lineage
      <3>2. from[s] # None => from[s] \in Tokens \ {t} /\ s # t
        BY <1>6, <3>1 DEF Inv, Lineage, TypeOK
      <3> QED
        BY <1>2, <1>7, <3>1, <3>2 DEF Inv, Lineage, BindingKept
    <2>3. \A s \in Tokens : from'[s] # None => from'[s] \in issued'
      BY <1>2 DEF Inv, Lineage
    <2>4. \A s \in Tokens : status'[s] = "unused" => bound'[s] = None /\ from'[s] = None
      BY <1>2, <1>8 DEF Inv, Lineage
    <2> QED
      BY <2>1, <2>2, <2>3, <2>4 DEF Lineage
  <1>12. SlotOK(p)'
    BY <1>1, <1>2, <1>3, <1>4, <1>5, <1>6 DEF Inv, Lineage, SlotOK, Carries
  <1>13. \A q \in Procs \ {p} : Locks(p)' \cap Locks(q) = {}
    BY <1>4 DEF Locks
  <1>14. status[req'[p].tok] = "unused"
    BY <1>1, <1>3, <1>4
  <1> QED
    BY <1>9, <1>10, <1>11, <1>12, <1>13, <1>14, StepInv

\* Binding the token a login carries, which no client has seen.
LEMMA BindInv ==
  ASSUME Inv, NEW p \in Procs, NEW l \in {"answer", "undo"}, pc[p] = "bind",
         Bind(p) \/ UNCHANGED bound, Goes(p, l, req[p]),
         UNCHANGED <<status, user, from, expired, issued>>
  PROVE  Inv'
  <1> DEFINE t == req[p].tok
  <1>1. /\ t \in Tokens /\ t \notin issued /\ status[t] # "unused"
        /\ user[t] = req[p].user /\ from[t] = None /\ req[p].user \in Users
    BY DEF Inv, SlotOK, Carries
  <1>2. req[p] \in Requests /\ l \in Labels
    BY DEF Inv, TypeOK, Labels
  <1>3. /\ pc'[p] = l /\ req'[p] = req[p]
        /\ \A q \in Procs \ {p} : pc'[q] = pc[q] /\ req'[q] = req[q]
        /\ pc' \in [Procs -> Labels] /\ req' \in [Procs -> Requests]
    BY <1>2, Moves DEF Inv
  <1>4. /\ bound' \in [Tokens -> Profiles \cup {None}]
        /\ \A s \in Tokens \ {t} : bound'[s] = bound[s]
        /\ bound'[t] = bound[t] \/ (bound'[t] \in Profiles /\ Owner[bound'[t]] = user[t])
    <2>1. CASE UNCHANGED bound
      BY <2>1 DEF Inv, TypeOK
    <2>2. CASE Bind(p)
      <3>1. PICK f \in Profiles : Owner[f] = req[p].user /\ bound' = [bound EXCEPT ![t] = f]
        BY <2>2 DEF Bind, ProfilesOf
      <3> QED
        BY <3>1, <1>1 DEF Inv, TypeOK
    <2> QED
      BY <2>1, <2>2
  <1>5. TypeOK'
    BY <1>3, <1>4 DEF Inv, TypeOK
  <1>6. Frame({p})
    BY <1>1, <1>3, <1>4 DEF Frame, Inv, TypeOK
  <1>7. Lineage'
    <2>1. RefreshReplaces'
      BY DEF Inv, Lineage, RefreshReplaces
    <2>2. BindingKept'
      <3> SUFFICES ASSUME NEW s \in Tokens
                   PROVE  /\ bound'[s] # None => Owner[bound'[s]] = user'[s]
                          /\ from'[s] # None =>
                               /\ user'[s] = user'[from'[s]]
                               /\ bound'[from'[s]] # None => bound'[s] = bound'[from'[s]]
        BY DEF BindingKept
      <3>1. from[s] # None => from[s] \in Tokens \ {t} /\ s # t
        BY <1>1 DEF Inv, Lineage, TypeOK
      <3> QED
        BY <1>4, <3>1 DEF Inv, Lineage, BindingKept
    <2>3. \A s \in Tokens : status'[s] = "unused" => bound'[s] = None /\ from'[s] = None
      BY <1>1, <1>4 DEF Inv, Lineage
    <2> QED
      BY <2>1, <2>2, <2>3 DEF Inv, Lineage
  <1>8. SlotOK(p)'
    BY <1>1, <1>3 DEF SlotOK, Carries
  <1>9. Carries(p) /\ req'[p].tok = req[p].tok
    BY <1>3 DEF Carries
  <1>10. \A q \in Procs \ {p} : Locks(p)' \cap Locks(q) = {}
    BY <1>3 DEF Locks
  <1> QED
    BY <1>5, <1>6, <1>7, <1>8, <1>9, <1>10, StepInv

\* What revoking valid rows that no other slot has locked leaves alone.
LEMMA RevokeFrame ==
  ASSUME Inv, NEW M \in SUBSET Procs, NEW S \in SUBSET Tokens,
         \A t \in S : status[t] = "Valid" /\ \A q \in Procs \ M : t \notin Locks(q),
         \A q \in Procs \ M : pc'[q] = pc[q] /\ req'[q] = req[q],
         status' = Revoked(S), UNCHANGED <<user, bound, from, expired, issued>>
  PROVE  /\ status' \in [Tokens -> Statuses \cup {"unused"}]
         /\ \A t \in Tokens : status'[t] = IF t \in S THEN "Invalid" ELSE status[t]
         /\ \A t \in Tokens : status'[t] = "unused" <=> status[t] = "unused"
         /\ Frame(M)
         /\ Lineage'
  <1>1. /\ status' \in [Tokens -> Statuses \cup {"unused"}]
        /\ \A t \in Tokens : status'[t] = IF t \in S THEN "Invalid" ELSE status[t]
        /\ \A t \in Tokens : status'[t] = "unused" <=> status[t] = "unused"
    BY DEF Inv, TypeOK, Revoked, Statuses
  <1>2. Frame(M)
    BY <1>1 DEF Frame, Inv, TypeOK
  <1>3. Lineage'
    BY <1>2, LineageKept
  <1> QED
    BY <1>1, <1>2, <1>3

LEMMA UndoLoginInv ==
  ASSUME Inv, NEW p \in Procs, UndoLogin(p)
  PROVE  Inv'
  <1> DEFINE S == {req[p].tok} \cap Usable(req[p].user)
  <1>1. /\ pc[p] = "undo" /\ Free(p, {req[p].tok}) /\ status' = Revoked(S)
        /\ Goes(p, "answer", req[p]) /\ UNCHANGED <<user, bound, from, expired, issued>>
    BY DEF UndoLogin
  <1>2. req[p] \in Requests /\ "answer" \in Labels
    BY DEF Inv, TypeOK, Labels
  <1>3. /\ pc'[p] = "answer" /\ req'[p] = req[p]
        /\ \A q \in Procs \ {p} : pc'[q] = pc[q] /\ req'[q] = req[q]
        /\ pc' \in [Procs -> Labels] /\ req' \in [Procs -> Requests]
    BY <1>1, <1>2, Moves DEF Inv
  <1>4. /\ S \in SUBSET Tokens
        /\ \A t \in S : status[t] = "Valid" /\ \A q \in Procs \ {p} : t \notin Locks(q)
    BY <1>1 DEF Usable, Free
  <1>5. /\ status' \in [Tokens -> Statuses \cup {"unused"}]
        /\ \A t \in Tokens : status'[t] = "unused" <=> status[t] = "unused"
        /\ Frame({p}) /\ Lineage'
    <2> {p} \in SUBSET Procs
      OBVIOUS
    <2> HIDE DEF S
    <2> QED
      BY <1>1, <1>3, <1>4, RevokeFrame
  <1>6. TypeOK'
    BY <1>1, <1>3, <1>5 DEF Inv, TypeOK
  <1>7. SlotOK(p)'
    <2>1. /\ req[p].user \in Users /\ req[p].tok \in Tokens
          /\ status[req[p].tok] # "unused" /\ req[p].tok \notin issued
      BY <1>1 DEF Inv, SlotOK, Carries
    <2> QED
      BY <1>1, <1>3, <1>5, <2>1 DEF SlotOK, Carries
  <1>8. Carries(p) /\ req'[p].tok = req[p].tok
    BY <1>1, <1>3 DEF Carries
  <1>9. \A q \in Procs \ {p} : Locks(p)' \cap Locks(q) = {}
    BY <1>3 DEF Locks
  <1> QED
    BY <1>5, <1>6, <1>7, <1>8, <1>9, StepInv

LEMMA InvalidateAllInv ==
  ASSUME Inv, NEW p \in Procs, InvalidateAll(p)
  PROVE  Inv'
  <1> DEFINE S == req[p].seen \cap Usable(req[p].user)
  <1>1. /\ pc[p] \in {"invalidateAll", "invalidateLeft"} /\ Free(p, req[p].seen)
        /\ status' = Revoked(S) /\ UNCHANGED <<user, bound, from, expired, issued>>
    BY DEF InvalidateAll
  <1>2. PICK l \in {"recount", "idle"}, r \in Requests :
          /\ Goes(p, l, r)
          /\ l = "recount" => /\ pc[p] = "invalidateAll"
                              /\ r.user = req[p].user /\ r.before = req[p].before
    <2>1. CASE pc[p] = "invalidateAll"
      <3>1. Goes(p, "recount", [req[p] EXCEPT !.seen = {}])
        BY <2>1 DEF InvalidateAll
      <3>2. [req[p] EXCEPT !.seen = {}] \in Requests
        BY DEF Inv, TypeOK, Requests
      <3>3. /\ [req[p] EXCEPT !.seen = {}].user = req[p].user
            /\ [req[p] EXCEPT !.seen = {}].before = req[p].before
        BY DEF Inv, TypeOK, Requests
      <3> QED
        BY <2>1, <3>1, <3>2, <3>3
    <2>2. CASE pc[p] = "invalidateLeft"
      <3>1. Goes(p, "idle", NoRequest)
        BY <2>2 DEF InvalidateAll, Ends
      <3>2. NoRequest \in Requests
        BY DEF NoRequest, Requests
      <3> QED
        BY <3>1, <3>2
    <2> QED
      BY <1>1, <2>1, <2>2
  <1>3. /\ pc'[p] = l /\ req'[p] = r
        /\ \A q \in Procs \ {p} : pc'[q] = pc[q] /\ req'[q] = req[q]
        /\ pc' \in [Procs -> Labels] /\ req' \in [Procs -> Requests]
    BY <1>2, Moves DEF Inv, Labels
  <1>4. /\ S \in SUBSET Tokens
        /\ \A t \in S : status[t] = "Valid" /\ \A q \in Procs \ {p} : t \notin Locks(q)
    BY <1>1 DEF Usable, Free
  <1>5. /\ status' \in [Tokens -> Statuses \cup {"unused"}]
        /\ \A t \in Tokens : status'[t] = IF t \in S THEN "Invalid" ELSE status[t]
        /\ \A t \in Tokens : status'[t] = "unused" <=> status[t] = "unused"
        /\ Frame({p}) /\ Lineage'
    <2> {p} \in SUBSET Procs
      OBVIOUS
    <2> HIDE DEF S
    <2> QED
      BY <1>1, <1>3, <1>4, RevokeFrame
  <1>6. TypeOK'
    BY <1>1, <1>3, <1>5 DEF Inv, TypeOK
  <1>7. SlotOK(p)'
    <2>1. CASE l = "recount"
      <3>1. /\ req[p].user \in Users /\ req[p].before \subseteq issued
            /\ req[p].before \cap Usable(req[p].user) \subseteq req[p].seen
        BY <1>2, <2>1 DEF Inv, SlotOK
      <3>2. req[p].before \cap {t \in Tokens : /\ user'[t] = req[p].user
                                               /\ status'[t] = "Valid"
                                               /\ t \notin expired'} = {}
        BY <1>1, <1>5, <3>1 DEF Usable
      <3> QED
        BY <1>1, <1>2, <1>3, <2>1, <3>1, <3>2 DEF SlotOK, Carries, Usable
    <2>2. CASE l = "idle"
      BY <1>3, <2>2 DEF SlotOK, Carries
    <2> QED
      BY <1>2, <2>1, <2>2
  <1>8. ~ Carries(p)' /\ Locks(p)' = {}
    BY <1>3 DEF Carries, Locks
  <1> QED
    BY <1>5, <1>6, <1>7, <1>8, StepInv

LEMMA AnswerInv ==
  ASSUME Inv, NEW p \in Procs, Answer(p)
  PROVE  Inv'
  <1>1. /\ pc[p] = "answer" /\ issued' = issued \cup {req[p].tok}
        /\ Goes(p, "idle", NoRequest) /\ UNCHANGED <<status, user, bound, from, expired>>
    BY DEF Answer, Ends, rows
  <1>2. NoRequest \in Requests /\ "idle" \in Labels
    BY DEF NoRequest, Requests, Labels
  <1>3. /\ pc'[p] = "idle" /\ req'[p] = NoRequest
        /\ \A q \in Procs \ {p} : pc'[q] = pc[q] /\ req'[q] = req[q]
        /\ pc' \in [Procs -> Labels] /\ req' \in [Procs -> Requests]
    BY <1>1, <1>2, Moves DEF Inv
  <1>4. Carries(p) /\ req[p].tok \in Tokens /\ status[req[p].tok] # "unused"
    BY <1>1 DEF Inv, SlotOK, Carries
  <1>5. TypeOK'
    BY <1>1, <1>3, <1>4 DEF Inv, TypeOK
  <1>6. Frame({p})
    BY <1>1, <1>3, <1>4 DEF Frame
  <1>7. Lineage'
    BY <1>1, <1>6, LineageKept
  <1>8. SlotOK(p)' /\ ~ Carries(p)' /\ Locks(p)' = {}
    BY <1>3 DEF SlotOK, Carries, Locks
  <1> QED
    BY <1>5, <1>6, <1>7, <1>8, StepInv

LEMMA ReplaceInv ==
  ASSUME Inv, NEW p \in Procs, Replace(p)
  PROVE  Inv'
  <1>1. PICK t \in Tokens :
          /\ status[t] = "unused"
          /\ status' = Committed(req[p].seen, t)
          /\ user' = [user EXCEPT ![t] = req[p].user]
          /\ bound' = [bound EXCEPT ![t] = req[p].bind]
          /\ from' = [from EXCEPT ![t] = req[p].old]
          /\ Goes(p, "answer", [req[p] EXCEPT !.tok = t, !.seen = {}])
    BY DEF Replace
  <1> DEFINE r == [req[p] EXCEPT !.tok = t, !.seen = {}]
             o == req[p].old
  <1>2. pc[p] = "replace" /\ UNCHANGED <<expired, issued>>
    BY DEF Replace
  <1>3. r \in Requests /\ "answer" \in Labels /\ r.user = req[p].user /\ r.tok = t
    BY DEF Inv, TypeOK, Requests, Labels
  <1>4. /\ pc'[p] = "answer" /\ req'[p] = r
        /\ \A q \in Procs \ {p} : pc'[q] = pc[q] /\ req'[q] = req[q]
        /\ pc' \in [Procs -> Labels] /\ req' \in [Procs -> Requests]
    BY <1>1, <1>3, Moves DEF Inv
  <1>5. /\ status' \in [Tokens -> Statuses \cup {"unused"}]
        /\ status'[t] = "Valid"
        /\ \A s \in Tokens \ {t} :
             status'[s] = IF s \in req[p].seen THEN "Invalid" ELSE status[s]
        /\ \A s \in Tokens :
             \/ status'[s] = status[s]
             \/ status[s] = "unused" /\ status'[s] = "Valid"
             \/ /\ status[s] # "unused" /\ status'[s] = "Invalid"
                /\ \A q \in Procs \ {p} : s \notin Locks(q)
    BY <1>1, <1>2, CommitFrame
  <1>6. /\ req[p].user \in Users /\ o \in issued /\ o \in Tokens \ {t}
        /\ req[p].user = user[o] /\ req[p].seen = {o} /\ status[o] \in Refreshable
        /\ req[p].bind # None => Owner[req[p].bind] = req[p].user
        /\ bound[o] # None => req[p].bind = bound[o]
        /\ t \notin issued
    BY <1>1, <1>2, IssuedKnown DEF Inv, SlotOK, TypeOK
  <1>7. /\ user'[t] = req[p].user /\ bound'[t] = req[p].bind /\ from'[t] = o
        /\ \A s \in Tokens \ {t} : user'[s] = user[s] /\ bound'[s] = bound[s] /\ from'[s] = from[s]
    BY <1>1 DEF Inv, TypeOK
  <1>8. \A s \in Tokens : status'[s] = "unused" <=> status[s] = "unused" /\ s # t
    BY <1>5
  <1>9. TypeOK'
    <2>1. \A s \in Tokens : user'[s] = None <=> status'[s] = "unused"
      BY <1>6, <1>7, <1>8, NoneAssumption DEF Inv, TypeOK
    <2>2. /\ user' \in [Tokens -> Users \cup {None}]
          /\ bound' \in [Tokens -> Profiles \cup {None}]
          /\ from' \in [Tokens -> Tokens \cup {None}]
      BY <1>1, <1>6 DEF Inv, TypeOK, Requests
    <2>3. issued' \subseteq {s \in Tokens : status'[s] # "unused"}
      BY <1>2, <1>6, <1>8 DEF Inv, TypeOK
    <2> QED
      BY <1>2, <1>4, <1>5, <2>1, <2>2, <2>3 DEF Inv, TypeOK
  <1>10. Frame({p})
    BY <1>1, <1>2, <1>4, <1>5, <1>6, <1>7 DEF Frame, Inv, TypeOK
  <1>11. \A s \in Tokens : from[s] # t /\ from[s] # o
    <2>1. \A s \in Tokens : from[s] # t
      BY <1>6, NoneAssumption DEF Inv, Lineage
    <2>2. status[o] # "Invalid"
      BY <1>6 DEF Refreshable
    <2> QED
      BY <1>6, <2>1, <2>2 DEF Inv, Lineage, RefreshReplaces
  <1>12. Lineage'
    <2>1. RefreshReplaces'
      <3> SUFFICES ASSUME NEW s \in Tokens, NEW x \in Tokens, from'[x] = s
                   PROVE  status'[s] = "Invalid" /\ \A y \in Tokens : from'[y] = s => y = x
        BY DEF RefreshReplaces
      <3>1. CASE x = t
        BY <3>1, <1>5, <1>6, <1>7, <1>11
      <3>2. CASE x # t
        <4>1. from[x] = s /\ s # o /\ s # t
          BY <3>2, <1>7, <1>11
        <4>2. status[s] = "Invalid" /\ \A y \in Tokens : from[y] = s => y = x
          BY <4>1 DEF Inv, Lineage, RefreshReplaces
        <4> QED
          BY <4>1, <4>2, <1>5, <1>6, <1>7
      <3> QED
        BY <3>1, <3>2
    <2>2. BindingKept'
      <3> SUFFICES ASSUME NEW s \in Tokens
                   PROVE  /\ bound'[s] # None => Owner[bound'[s]] = user'[s]
                          /\ from'[s] # None =>
                               /\ user'[s] = user'[from'[s]]
                               /\ bound'[from'[s]] # None => bound'[s] = bound'[from'[s]]
        BY DEF BindingKept
      <3>1. CASE s = t
        BY <3>1, <1>6, <1>7
      <3>2. CASE s # t
        <4>1. from[s] # None => from[s] \in Tokens \ {t}
          BY <1>11 DEF Inv, TypeOK
        <4> QED
          BY <3>2, <4>1, <1>7 DEF Inv, Lineage, BindingKept
      <3> QED
        BY <3>1, <3>2
    <2>3. \A s \in Tokens : from'[s] # None => from'[s] \in issued'
      BY <1>2, <1>6, <1>7 DEF Inv, Lineage
    <2>4. \A s \in Tokens : status'[s] = "unused" => bound'[s] = None /\ from'[s] = None
      BY <1>7, <1>8 DEF Inv, Lineage
    <2> QED
      BY <2>1, <2>2, <2>3, <2>4 DEF Lineage
  <1>13. SlotOK(p)'
    BY <1>2, <1>3, <1>4, <1>5, <1>6 DEF SlotOK, Carries
  <1>14. \A q \in Procs \ {p} : Locks(p)' \cap Locks(q) = {}
    BY <1>4 DEF Locks
  <1>15. status[req'[p].tok] = "unused"
    BY <1>1, <1>3, <1>4
  <1> QED
    BY <1>9, <1>10, <1>12, <1>13, <1>14, <1>15, StepInv

\* Steps that no slot takes.
LEMMA OutsideInv ==
  ASSUME Inv, Frame({}), TypeOK', Lineage', UNCHANGED <<pc, req>>
  PROVE  Inv'
  <1>1. \A q \in Procs : SlotOK(q)'
    BY OthersKeep
  <1>2. \A q, r \in Procs : q # r => Apart(q, r)'
    BY DEF Inv, Apart, Carries, Locks
  <1> QED
    BY <1>1, <1>2 DEF Inv

LEMMA InvalidateInv ==
  ASSUME Inv, NEW t \in Tokens, Invalidate(t)
  PROVE  Inv'
  <1>1. /\ status[t] = "Valid" /\ \A q \in Procs : t \notin Locks(q)
        /\ status' = Revoked({t}) /\ UNCHANGED <<user, bound, from, expired, issued, pc, req>>
    BY DEF Invalidate, Usable
  <1>2. /\ status' \in [Tokens -> Statuses \cup {"unused"}]
        /\ \A s \in Tokens : status'[s] = "unused" <=> status[s] = "unused"
        /\ Frame({}) /\ Lineage'
    <2> DEFINE S == {t}
    <2>1. /\ {} \in SUBSET Procs /\ S \in SUBSET Tokens /\ status' = Revoked(S)
          /\ \A s \in S : status[s] = "Valid" /\ \A q \in Procs \ {} : s \notin Locks(q)
          /\ \A q \in Procs \ {} : pc'[q] = pc[q] /\ req'[q] = req[q]
      BY <1>1
    <2> HIDE DEF S
    <2> QED
      BY <1>1, <2>1, RevokeFrame
  <1>3. TypeOK'
    BY <1>1, <1>2 DEF Inv, TypeOK
  <1> QED
    BY <1>1, <1>2, <1>3, OutsideInv

LEMMA ExpireInv ==
  ASSUME Inv, NEW t \in Tokens, Expire(t)
  PROVE  Inv'
  <1>1. expired' = expired \cup {t} /\ UNCHANGED <<status, user, bound, from, issued, pc, req>>
    BY DEF Expire, rows
  <1>2. Frame({})
    BY <1>1 DEF Frame
  <1>3. TypeOK'
    BY <1>1 DEF Inv, TypeOK
  <1>4. Lineage'
    BY <1>1, <1>2, LineageKept
  <1> QED
    BY <1>1, <1>2, <1>3, <1>4, OutsideInv

-----------------------------------------------------------------------------

LEMMA InitInv == Init => Inv
  <1> SUFFICES ASSUME Init PROVE Inv
    OBVIOUS
  <1>1. TypeOK
    BY DEF Init, TypeOK, Labels, Requests, NoRequest
  <1>2. \A p \in Procs : SlotOK(p)
    BY DEF Init, SlotOK, Carries
  <1>3. \A p, q \in Procs : p # q => Apart(p, q)
    BY DEF Init, Apart, Carries, Locks
  <1>4. Lineage
    BY NoneAssumption DEF Init, Lineage, RefreshReplaces, BindingKept
  <1> QED
    BY <1>1, <1>2, <1>3, <1>4 DEF Inv

\* A step that changes nothing.
LEMMA StutterInv == Inv /\ UNCHANGED vars => Inv'
  BY DEF vars, Inv, TypeOK, SlotOK, Apart, Lineage, RefreshReplaces, BindingKept, Carries, Locks, Usable

\* Every step keeps the invariant.
LEMMA NextInv == Inv /\ [Next]_vars => Inv'
  <1> SUFFICES ASSUME Inv, Next PROVE Inv'
    BY StutterInv
  <1>1. ASSUME NEW p \in Procs, Login(p) PROVE Inv'
    <2>1. ASSUME NEW u \in Users, Authenticate(p, u) PROVE Inv'
      BY <2>1, AuthenticateInv
    <2>2. CASE CountValid(p)
      BY <2>2, CountValidInv
    <2>3. CASE ScanOldest(p)
      BY <2>3, ScanOldestInv
    <2>4. CASE RevokeOldest(p)
      BY <2>4, RevokeOldestInv
    <2>5. CASE CreateToken(p)
      BY <2>5, CreateTokenInv
    <2>6. CASE BindProfile(p)
      BY <2>6, BindInv DEF BindProfile
    <2>7. CASE BindFails(p)
      BY <2>7, BindInv DEF BindFails
    <2>8. CASE UndoLogin(p)
      BY <2>8, UndoLoginInv
    <2>9. CASE UndoFails(p)
      BY <2>9, UndoFailsInv
    <2>10. CASE Answer(p)
      BY <2>10, AnswerInv
    <2> QED
      BY <1>1, <2>1, <2>2, <2>3, <2>4, <2>5, <2>6, <2>7, <2>8, <2>9, <2>10 DEF Login
  <1>2. ASSUME NEW p \in Procs, Refresh(p) PROVE Inv'
    <2>1. ASSUME NEW t \in Tokens, ReadToken(p, t) PROVE Inv'
      BY <2>1, ReadTokenInv
    <2>2. CASE RevokeOld(p)
      BY <2>2, RevokeOldInv
    <2>3. CASE RefreshRefused(p)
      BY <2>3, EndsInv DEF RefreshRefused
    <2>4. CASE Replace(p)
      BY <2>4, ReplaceInv
    <2> QED
      BY <1>2, <2>1, <2>2, <2>3, <2>4 DEF Refresh
  <1>3. ASSUME NEW p \in Procs, SigningOut(p) PROVE Inv'
    <2>1. ASSUME NEW u \in Users, SignOut(p, u) PROVE Inv'
      BY <2>1, SignOutInv
    <2>2. CASE ScanValid(p)
      BY <2>2, ScanValidInv
    <2>3. CASE InvalidateAll(p)
      BY <2>3, InvalidateAllInv
    <2>4. CASE Recount(p)
      BY <2>4, RecountInv
    <2> QED
      BY <1>3, <2>1, <2>2, <2>3, <2>4 DEF SigningOut
  <1>4. ASSUME NEW p \in Procs, CutOff(p) PROVE Inv'
    BY <1>4, EndsInv DEF CutOff
  <1>5. ASSUME NEW t \in Tokens, Invalidate(t) \/ Expire(t) PROVE Inv'
    BY <1>5, InvalidateInv, ExpireInv
  <1> QED
    BY <1>1, <1>2, <1>3, <1>4, <1>5 DEF Next

-----------------------------------------------------------------------------

\* The inductive invariant holds in every behaviour.
THEOREM Invariance == Spec => []Inv
  BY InitInv, NextInv, PTL DEF Spec

\* Every column and every request keeps its type; rows have a user exactly when
\* they exist, and only rows that exist were handed out.
THEOREM TypeCorrect == Spec => []TypeOK
  <1>1. Inv => TypeOK
    BY DEF Inv
  <1> QED
    BY <1>1, Invariance, PTL

\* RevokeAndCreate: however requests overlap, a token is refreshed at most once
\* and is invalid from then on.
THEOREM RefreshedOnce == Spec => []RefreshReplaces
  <1>1. Inv => RefreshReplaces
    BY DEF Inv, Lineage
  <1> QED
    BY <1>1, Invariance, PTL

\* RefreshToken: a token belongs to a profile of its user, and refreshing it
\* keeps user and profile.
THEOREM BindingSafe == Spec => []BindingKept
  <1>1. Inv => BindingKept
    BY DEF Inv, Lineage
  <1> QED
    BY <1>1, Invariance, PTL

\* SignoutUser: what clients held when the sign-out arrived cannot be used once
\* its first UPDATE is done.
THEOREM SignOutSafe == Spec => []SignOutEffective
  <1>1. Inv => SignOutEffective
    BY DEF Inv, SlotOK, SignOutEffective
  <1> QED
    BY <1>1, Invariance, PTL

\* No statement brings an invalid token back.
LEMMA NextKeepsInvalid ==
  ASSUME Inv, [Next]_vars, NEW t \in Tokens, status[t] = "Invalid"
  PROVE  status'[t] = "Invalid"
  <1>1. \A S \in SUBSET Tokens : Revoked(S)[t] = "Invalid"
    BY DEF Revoked
  <1>2. \A S \in SUBSET Tokens, n \in Tokens : n # t => Committed(S, n)[t] = "Invalid"
    BY DEF Committed, Revoked
  <1>3. \A p \in Procs : req[p].seen \in SUBSET Tokens
    BY DEF Inv, TypeOK, Requests
  <1>4. ASSUME NEW p \in Procs, Login(p) PROVE status'[t] = "Invalid"
    <2>1. CASE CreateToken(p)
      <3>1. PICK n \in Tokens : status[n] = "unused" /\ status' = Committed(req[p].seen, n)
        BY <2>1 DEF CreateToken
      <3> QED
        BY <3>1, <1>2, <1>3
    <2>2. CASE UndoLogin(p)
      BY <2>2, <1>1 DEF UndoLogin, Usable
    <2>3. CASE ~ CreateToken(p) /\ ~ UndoLogin(p)
      BY <1>4, <2>3 DEF Login, Authenticate, CountValid, ScanOldest, RevokeOldest, BindProfile,
         BindFails, UndoFails, Answer, rows
    <2> QED
      BY <2>1, <2>2, <2>3
  <1>5. ASSUME NEW p \in Procs, Refresh(p) PROVE status'[t] = "Invalid"
    <2>1. CASE Replace(p)
      <3>1. PICK n \in Tokens : status[n] = "unused" /\ status' = Committed(req[p].seen, n)
        BY <2>1 DEF Replace
      <3> QED
        BY <3>1, <1>2, <1>3
    <2>2. CASE ~ Replace(p)
      BY <1>5, <2>2 DEF Refresh, ReadToken, RevokeOld, RefreshRefused, rows
    <2> QED
      BY <2>1, <2>2
  <1>6. ASSUME NEW p \in Procs, SigningOut(p) PROVE status'[t] = "Invalid"
    <2>1. CASE InvalidateAll(p)
      BY <2>1, <1>1 DEF InvalidateAll, Usable
    <2>2. CASE ~ InvalidateAll(p)
      BY <1>6, <2>2 DEF SigningOut, SignOut, ScanValid, Recount, rows
    <2> QED
      BY <2>1, <2>2
  <1>7. ASSUME NEW n \in Tokens, Invalidate(n) \/ Expire(n) PROVE status'[t] = "Invalid"
    BY <1>7, <1>1 DEF Invalidate, Expire, rows
  <1>8. ASSUME NEW p \in Procs, CutOff(p) PROVE status'[t] = "Invalid"
    BY <1>8 DEF CutOff, rows
  <1>9. CASE UNCHANGED vars
    BY <1>9 DEF vars
  <1> QED
    BY <1>4, <1>5, <1>6, <1>7, <1>8, <1>9 DEF Next

\* GameTokenStatusInvalid is final: no step of any request, also none that was
\* overtaken by the invalidation, makes an invalid token usable again.
THEOREM InvalidForever == Spec => InvalidFinal
  <1>1. Inv /\ [Next]_vars =>
          [\A t \in Tokens : status[t] = "Invalid" => status'[t] = "Invalid"]_vars
    BY NextKeepsInvalid
  <1> QED
    BY <1>1, Invariance, PTL DEF Spec, InvalidFinal

-----------------------------------------------------------------------------
(***************************************************************************)
(* The limit.  A login that found room, or is about to revoke what it saw, *)
(* is pending: it may still add a token.  Setting any set W of tokens      *)
(* aside, the others and the pending logins that will revoke nothing       *)
(* outside W are together less than Max plus the number of slots: a login  *)
(* that counts less than Max may join them, one that counted Max or more   *)
(* joins only when W holds all the tokens it saw.                          *)
(***************************************************************************)

Pending(p, u) == pc[p] \in {"revokeOldest", "create"} /\ req[p].user = u

\* The pending logins of u that revoke no token outside W.
Covered(u, W) == {p \in Procs : Pending(p, u) /\ req[p].seen \cap LoggedIn(u) \subseteq W}

Bounded(u) ==
  \A W \in SUBSET Tokens :
    Cardinality(LoggedIn(u) \ W) + Cardinality(Covered(u, W)) < Max + Cardinality(Procs)

LimitInv == \A u \in Users : Bounded(u)

\* What is counted is finite.
LEMMA LimitCounts ==
  ASSUME NEW u \in Users, NEW W \in SUBSET Tokens
  PROVE  /\ IsFiniteSet(Usable(u)) /\ IsFiniteSet(LoggedIn(u)) /\ IsFiniteSet(LoggedIn(u) \ W)
         /\ IsFiniteSet(Covered(u, W))
         /\ Cardinality(Usable(u)) \in Nat /\ Cardinality(LoggedIn(u)) \in Nat
         /\ Cardinality(LoggedIn(u) \ W) \in Nat
         /\ Cardinality(LoggedIn(u) \ W) <= Cardinality(Usable(u))
         /\ Cardinality(Covered(u, W)) \in Nat /\ Cardinality(Procs) \in Nat
         /\ Cardinality(Covered(u, W)) <= Cardinality(Procs)
  <1>1. IsFiniteSet(Tokens) /\ IsFiniteSet(Procs)
    BY FiniteAssumption, ProcsAssumption
  <1>2. Usable(u) \subseteq Tokens /\ LoggedIn(u) \ W \subseteq Usable(u)
        /\ LoggedIn(u) \subseteq Usable(u) /\ Covered(u, W) \subseteq Procs
    BY DEF Usable, LoggedIn, Covered
  <1>3. IsFiniteSet(Usable(u))
    BY <1>1, <1>2, FS_Subset
  <1>4. IsFiniteSet(LoggedIn(u) \ W) /\ Cardinality(LoggedIn(u) \ W) <= Cardinality(Usable(u))
    BY <1>2, <1>3, FS_Subset
  <1>5. IsFiniteSet(Covered(u, W)) /\ Cardinality(Covered(u, W)) <= Cardinality(Procs)
    BY <1>1, <1>2, FS_Subset
  <1>6. IsFiniteSet(LoggedIn(u))
    BY <1>2, <1>3, FS_Subset
  <1> QED
    BY <1>1, <1>3, <1>4, <1>5, <1>6, FS_CardinalityType

\* The bound outlives a step that adds no token of a login and lets no login
\* begin or give up rows it is to revoke.
LEMMA BoundedKept ==
  ASSUME NEW u \in Users, Bounded(u), LoggedIn(u)' \subseteq LoggedIn(u),
         \A q \in Procs : Pending(q, u)' =>
           Pending(q, u) /\ LoggedIn(u)' \cap req[q].seen \subseteq req'[q].seen
  PROVE  Bounded(u)'
  <1> SUFFICES ASSUME NEW W \in SUBSET Tokens
               PROVE  (Cardinality(LoggedIn(u) \ W) + Cardinality(Covered(u, W)) < Max + Cardinality(Procs))'
    BY DEF Bounded
  <1> DEFINE L == LoggedIn(u)
             M == LoggedIn(u)'
             Z == W \cup (L \ M)
  <1>1. L \subseteq Tokens /\ Z \in SUBSET Tokens
    BY DEF LoggedIn, Usable
  <1>2. M \ W = L \ Z
    OBVIOUS
  <1>3. Covered(u, W)' \subseteq Covered(u, Z)
    <2> SUFFICES ASSUME NEW q \in Procs, Pending(q, u)', req'[q].seen \cap M \subseteq W
                 PROVE  q \in Covered(u, Z)
      BY DEF Covered
    <2>1. Pending(q, u) /\ M \cap req[q].seen \subseteq req'[q].seen
      OBVIOUS
    <2>2. req[q].seen \cap L \subseteq Z
      BY <2>1
    <2> QED
      BY <2>1, <2>2 DEF Covered
  <1>4. Cardinality(L \ Z) + Cardinality(Covered(u, Z)) < Max + Cardinality(Procs)
    BY <1>1 DEF Bounded
  <1>5. IsFiniteSet(Covered(u, Z)) /\ Cardinality(L \ Z) \in Nat
        /\ Cardinality(Covered(u, Z)) \in Nat /\ Cardinality(Procs) \in Nat
    BY <1>1, LimitCounts
  <1>6. /\ IsFiniteSet(Covered(u, W)') /\ Cardinality(Covered(u, W)') \in Nat
        /\ Cardinality(Covered(u, W)') <= Cardinality(Covered(u, Z))
    BY <1>3, <1>5, FS_Subset, FS_CardinalityType
  <1>7. Cardinality(M \ W) + Cardinality(Covered(u, W)') < Max + Cardinality(Procs)
    <2>1. Cardinality(M \ W) = Cardinality(L \ Z)
      BY <1>2
    <2> DEFINE a == Cardinality(L \ Z)
               b == Cardinality(Covered(u, Z))
               c == Cardinality(Covered(u, W)')
               d == Cardinality(Procs)
    <2>2. a \in Nat /\ b \in Nat /\ c \in Nat /\ d \in Nat /\ Max \in Nat /\ c <= b /\ a + b < Max + d
      BY <1>4, <1>5, <1>6, MaxAssumption
    <2>3. a + c < Max + d
      <3> HIDE DEF a, b, c, d
      <3> QED
        BY <2>2
    <2> QED
      BY <2>1, <2>3
  <1> QED
    BY <1>7

\* So does it outlive a step that revokes rows and lets slots only leave.
LEMMA LimitKept ==
  ASSUME LimitInv,
         \A t \in Tokens : from'[t] = None /\ status'[t] = "Valid" /\ t \notin expired' =>
           from[t] = None /\ status[t] = "Valid" /\ t \notin expired /\ user'[t] = user[t],
         \A q \in Procs : pc'[q] \in {"revokeOldest", "create"} => pc'[q] = pc[q] /\ req'[q] = req[q]
  PROVE  LimitInv'
  <1> SUFFICES ASSUME NEW u \in Users PROVE Bounded(u)'
    BY DEF LimitInv
  <1>1. LoggedIn(u)' \subseteq LoggedIn(u)
    BY DEF LoggedIn, Usable
  <1>2. \A q \in Procs : Pending(q, u)' =>
          Pending(q, u) /\ LoggedIn(u)' \cap req[q].seen \subseteq req'[q].seen
    BY DEF Pending
  <1> QED
    BY <1>1, <1>2, BoundedKept DEF LimitInv

\* The count and the snapshot of a login: a login that found room counts less
\* than Max, and one at the limit leaves none of the tokens of logins unseen.
LEMMA JoinsBounded ==
  ASSUME NEW u \in Users, LoggedIn(u)' = LoggedIn(u), NEW W \in SUBSET Tokens,
         Cardinality(LoggedIn(u) \ W) < Max
  PROVE  (Cardinality(LoggedIn(u) \ W) + Cardinality(Covered(u, W)) < Max + Cardinality(Procs))'
  <1>1. Covered(u, W)' \subseteq Procs
    BY DEF Covered
  <1>2. /\ Cardinality(Covered(u, W)') \in Nat
        /\ Cardinality(Covered(u, W)') <= Cardinality(Procs)
        /\ Cardinality(Procs) \in Nat
    BY <1>1, ProcsAssumption, FS_Subset, FS_CardinalityType
  <1>3. Cardinality(LoggedIn(u) \ W) \in Nat
    BY LimitCounts
  <1> DEFINE a == Cardinality(LoggedIn(u) \ W)
             c == Cardinality(Covered(u, W)')
             d == Cardinality(Procs)
  <1>4. a + c < Max + d
    <2>1. a \in Nat /\ c \in Nat /\ d \in Nat /\ Max \in Nat /\ a < Max /\ c <= d
      BY <1>2, <1>3, MaxAssumption
    <2> HIDE DEF a, c, d
    <2> QED
      BY <2>1
  <1>5. Cardinality(LoggedIn(u)' \ W) = a
    OBVIOUS
  <1> QED
    BY <1>4, <1>5

LEMMA CountValidLimit ==
  ASSUME Inv, LimitInv, NEW p \in Procs, CountValid(p)
  PROVE  LimitInv'
  <1> SUFFICES ASSUME NEW u \in Users PROVE Bounded(u)'
    BY DEF LimitInv
  <1> DEFINE n == Cardinality(Usable(req[p].user))
  <1>1. /\ pc[p] = "count" /\ pc' = [pc EXCEPT ![p] = IF n >= Max THEN "scanOldest" ELSE "create"]
        /\ req' = [req EXCEPT ![p] = req[p]] /\ UNCHANGED <<status, user, from, expired>>
    BY DEF CountValid, Goes, rows
  <1>2. pc \in [Procs -> Labels] /\ req \in [Procs -> Requests]
    BY DEF Inv, TypeOK
  <1>3. LoggedIn(u)' = LoggedIn(u)
    BY <1>1 DEF LoggedIn, Usable
  <1>4. \A q \in Procs : req'[q] = req[q] /\ (q # p => pc'[q] = pc[q])
    BY <1>1, <1>2
  <1>5. CASE u = req[p].user /\ n < Max
    <2>1. \A W \in SUBSET Tokens : Cardinality(LoggedIn(u) \ W) < Max
      <3> SUFFICES ASSUME NEW W \in SUBSET Tokens PROVE Cardinality(LoggedIn(u) \ W) < Max
        OBVIOUS
      <3>1. /\ Cardinality(LoggedIn(u) \ W) <= Cardinality(Usable(u))
            /\ Cardinality(LoggedIn(u) \ W) \in Nat /\ Cardinality(Usable(u)) \in Nat
        BY LimitCounts
      <3>2. Cardinality(Usable(u)) < Max /\ Max \in Nat
        BY <1>5, MaxAssumption
      <3> DEFINE a == Cardinality(LoggedIn(u) \ W)
                 b == Cardinality(Usable(u))
      <3> HIDE DEF a, b
      <3>3. a < Max
        BY <3>1, <3>2 DEF a, b
      <3> QED
        BY <3>3 DEF a
    <2> QED
      BY <1>3, <2>1, JoinsBounded DEF Bounded
  <1>6. CASE ~ (u = req[p].user /\ n < Max)
    <2>1. ~ Pending(p, u)'
      <3>1. CASE u # req[p].user
        BY <3>1, <1>4 DEF Pending
      <3>2. CASE ~ (n < Max)
        <4>1. Cardinality(Usable(req[p].user)) \in Nat
          <5>1. req[p].user \in Users
            BY <1>1 DEF Inv, SlotOK
          <5> QED
            BY <5>1, LimitCounts
        <4>2. n >= Max
          <5> HIDE DEF n
          <5>1. n \in Nat
            BY <4>1 DEF n
          <5> QED
            BY <5>1, <3>2, MaxAssumption
        <4>3. pc'[p] = "scanOldest"
          BY <1>1, <1>2, <4>2
        <4> QED
          BY <4>3 DEF Pending
      <3> QED
        BY <1>6, <3>1, <3>2
    <2>2. \A q \in Procs : Pending(q, u)' =>
            Pending(q, u) /\ LoggedIn(u)' \cap req[q].seen \subseteq req'[q].seen
      BY <1>4, <2>1 DEF Pending
    <2> QED
      BY <1>3, <2>2, BoundedKept DEF LimitInv
  <1> QED
    BY <1>5, <1>6

LEMMA ScanOldestLimit ==
  ASSUME Inv, LimitInv, NEW p \in Procs, ScanOldest(p)
  PROVE  LimitInv'
  <1> SUFFICES ASSUME NEW u \in Users PROVE Bounded(u)'
    BY DEF LimitInv
  <1> DEFINE r == [req[p] EXCEPT !.seen = Usable(req[p].user)]
  <1>1. /\ pc[p] = "scanOldest" /\ pc' = [pc EXCEPT ![p] = "revokeOldest"]
        /\ req' = [req EXCEPT ![p] = r] /\ UNCHANGED <<status, user, from, expired>>
    BY DEF ScanOldest, Goes, rows
  <1>2. pc \in [Procs -> Labels] /\ req \in [Procs -> Requests]
    BY DEF Inv, TypeOK
  <1>3. LoggedIn(u)' = LoggedIn(u)
    BY <1>1 DEF LoggedIn, Usable
  <1>4. \A q \in Procs \ {p} : pc'[q] = pc[q] /\ req'[q] = req[q]
    BY <1>1, <1>2
  <1>5. req'[p].user = req[p].user /\ req'[p].seen = Usable(req[p].user)
    BY <1>1, <1>2 DEF Requests
  <1>6. CASE u # req[p].user
    <2>1. \A q \in Procs : Pending(q, u)' =>
            Pending(q, u) /\ LoggedIn(u)' \cap req[q].seen \subseteq req'[q].seen
      BY <1>4, <1>5, <1>6 DEF Pending
    <2> QED
      BY <1>3, <2>1, BoundedKept DEF LimitInv
  <1>7. CASE u = req[p].user
    <2> SUFFICES ASSUME NEW W \in SUBSET Tokens
                 PROVE  (Cardinality(LoggedIn(u) \ W) + Cardinality(Covered(u, W)) < Max + Cardinality(Procs))'
      BY DEF Bounded
    <2>1. LoggedIn(u) \subseteq req'[p].seen
      BY <1>5, <1>7 DEF LoggedIn
    <2>2. CASE LoggedIn(u) \subseteq W
      <3>1. LoggedIn(u) \ W = {}
        BY <2>2
      <3>2. Cardinality(LoggedIn(u) \ W) < Max
        BY <3>1, FS_EmptySet, MaxAssumption
      <3> QED
        BY <1>3, <3>2, JoinsBounded
    <2>3. CASE ~ (LoggedIn(u) \subseteq W)
      <3>1. Covered(u, W)' = Covered(u, W)
        <4>1. p \notin Covered(u, W)'
          BY <1>3, <2>1, <2>3 DEF Covered
        <4>2. p \notin Covered(u, W)
          BY <1>1 DEF Covered, Pending
        <4>3. \A q \in Procs \ {p} : q \in Covered(u, W)' <=> q \in Covered(u, W)
          BY <1>3, <1>4 DEF Covered, Pending
        <4>4. Covered(u, W) \subseteq Procs /\ Covered(u, W)' \subseteq Procs
          BY DEF Covered
        <4> QED
          BY <4>1, <4>2, <4>3, <4>4
      <3>2. Cardinality(LoggedIn(u) \ W) + Cardinality(Covered(u, W)) < Max + Cardinality(Procs)
        BY DEF LimitInv, Bounded
      <3> QED
        BY <1>3, <3>1, <3>2
    <2> QED
      BY <2>2, <2>3
  <1> QED
    BY <1>6, <1>7

LEMMA RevokeOldestLimit ==
  ASSUME Inv, LimitInv, NEW p \in Procs, RevokeOldest(p)
  PROVE  LimitInv'
  <1> SUFFICES ASSUME NEW u \in Users PROVE Bounded(u)'
    BY DEF LimitInv
  <1> DEFINE r == [req[p] EXCEPT !.seen = @ \cap Usable(req[p].user)]
  <1>1. /\ pc[p] = "revokeOldest" /\ pc' = [pc EXCEPT ![p] = "create"]
        /\ req' = [req EXCEPT ![p] = r] /\ UNCHANGED <<status, user, from, expired>>
    BY DEF RevokeOldest, Goes, rows
  <1>2. pc \in [Procs -> Labels] /\ req \in [Procs -> Requests]
    BY DEF Inv, TypeOK
  <1>3. LoggedIn(u)' = LoggedIn(u)
    BY <1>1 DEF LoggedIn, Usable
  <1>4. \A q \in Procs \ {p} : pc'[q] = pc[q] /\ req'[q] = req[q]
    BY <1>1, <1>2
  <1>5. req'[p].user = req[p].user /\ req'[p].seen = req[p].seen \cap Usable(req[p].user)
    BY <1>1, <1>2 DEF Requests
  <1>6. \A q \in Procs : Pending(q, u)' =>
          Pending(q, u) /\ LoggedIn(u)' \cap req[q].seen \subseteq req'[q].seen
    <2>1. Pending(p, u)' => Pending(p, u) /\ LoggedIn(u) \cap req[p].seen \subseteq req'[p].seen
      BY <1>1, <1>5 DEF Pending, LoggedIn
    <2> QED
      BY <1>3, <1>4, <2>1 DEF Pending
  <1> QED
    BY <1>3, <1>6, BoundedKept DEF LimitInv

\* The token of a login takes the place of the login itself; what it revokes
\* joins the tokens set aside.
LEMMA CreateTokenLimit ==
  ASSUME Inv, LimitInv, NEW p \in Procs, CreateToken(p)
  PROVE  LimitInv'
  <1> SUFFICES ASSUME NEW u \in Users PROVE Bounded(u)'
    BY DEF LimitInv
  <1>1. PICK n \in Tokens :
          /\ status[n] = "unused" /\ status' = Committed(req[p].seen, n)
          /\ user' = [user EXCEPT ![n] = req[p].user]
          /\ Goes(p, IF Cardinality(ProfilesOf(req[p].user)) = 1 THEN "bind" ELSE "answer",
                  [req[p] EXCEPT !.tok = n, !.seen = {}])
    BY DEF CreateToken
  <1>2. pc[p] = "create" /\ UNCHANGED <<from, expired>>
    BY DEF CreateToken
  <1>3. /\ pc \in [Procs -> Labels] /\ req \in [Procs -> Requests]
        /\ status \in [Tokens -> Statuses \cup {"unused"}] /\ user \in [Tokens -> Users \cup {None}]
    BY DEF Inv, TypeOK
  <1>4. \A q \in Procs \ {p} : pc'[q] = pc[q] /\ req'[q] = req[q]
    BY <1>1, <1>3 DEF Goes
  <1>5. pc'[p] \notin {"revokeOldest", "create"}
    BY <1>1, <1>3 DEF Goes
  <1> DEFINE s == req[p].seen
             L == LoggedIn(u)
  <1>6. \A t \in Tokens \ {n} :
          user'[t] = user[t] /\ status'[t] = IF t \in s THEN "Invalid" ELSE status[t]
    BY <1>1, <1>3 DEF Committed, Revoked
  <1>7. user'[n] = req[p].user
    BY <1>1, <1>3
  <1>8. L \subseteq Tokens /\ n \notin L /\ s \subseteq Tokens
    BY <1>1, <1>3 DEF LoggedIn, Usable, Requests
  <1>9. CASE u # req[p].user
    <2>1. LoggedIn(u)' \subseteq L
      BY <1>2, <1>6, <1>7, <1>9 DEF LoggedIn, Usable
    <2>2. \A q \in Procs : Pending(q, u)' =>
            Pending(q, u) /\ LoggedIn(u)' \cap req[q].seen \subseteq req'[q].seen
      BY <1>4, <1>5 DEF Pending
    <2> QED
      BY <2>1, <2>2, BoundedKept DEF LimitInv
  <1>10. CASE u = req[p].user
    <2>1. L \ s \subseteq LoggedIn(u)' /\ LoggedIn(u)' \subseteq (L \ s) \cup {n}
      <3>1. \A t \in Tokens \ {n} : t \in LoggedIn(u)' <=> t \in L \ s
        BY <1>2, <1>6 DEF LoggedIn, Usable
      <3>2. LoggedIn(u)' \subseteq Tokens
        BY DEF LoggedIn, Usable
      <3> QED
        BY <1>8, <3>1, <3>2
    <2> SUFFICES ASSUME NEW W \in SUBSET Tokens
                 PROVE  (Cardinality(LoggedIn(u) \ W) + Cardinality(Covered(u, W)) < Max + Cardinality(Procs))'
      BY DEF Bounded
    <2> DEFINE M == LoggedIn(u)'
               Z == W \cup (L \cap s)
               C == Covered(u, W)'
               D == Covered(u, Z)
    <2>2. Z \in SUBSET Tokens
      BY <1>8
    <2>3. /\ Cardinality(L \ Z) + Cardinality(D) < Max + Cardinality(Procs)
          /\ IsFiniteSet(L \ Z) /\ IsFiniteSet(D) /\ Cardinality(L \ Z) \in Nat
          /\ Cardinality(D) \in Nat /\ Cardinality(Procs) \in Nat
      BY <2>2, LimitCounts DEF LimitInv, Bounded
    <2>4. M \ W \subseteq (L \ Z) \cup {n}
      BY <2>1
    <2>5. Cardinality(M \ W) \in Nat /\ Cardinality(M \ W) <= Cardinality(L \ Z) + 1
      <3>1. /\ IsFiniteSet((L \ Z) \cup {n})
            /\ Cardinality((L \ Z) \cup {n}) = Cardinality(L \ Z) + 1
        BY <1>8, <2>3, FS_AddElement
      <3>2. /\ IsFiniteSet(M \ W) /\ Cardinality(M \ W) <= Cardinality((L \ Z) \cup {n})
        BY <2>4, <3>1, FS_Subset
      <3> QED
        BY <3>1, <3>2, FS_CardinalityType
    <2>6. p \in D /\ C \subseteq D \ {p}
      <3>1. p \in D
        BY <1>2, <1>10 DEF Covered, Pending
      <3>2. p \notin C /\ C \subseteq Procs
        BY <1>5 DEF Covered, Pending
      <3>3. ASSUME NEW q \in Procs \ {p}, q \in C PROVE q \in D
        <4>1. Pending(q, u) /\ req[q].seen \cap M \subseteq W
          BY <3>3, <1>4 DEF Covered, Pending
        <4>2. req[q].seen \cap L \subseteq Z
          BY <2>1, <4>1
        <4> QED
          BY <4>1, <4>2 DEF Covered
      <3> QED
        BY <3>1, <3>2, <3>3
    <2>7. Cardinality(C) \in Nat /\ Cardinality(C) <= Cardinality(D) - 1
      <3>1. IsFiniteSet(D \ {p}) /\ Cardinality(D \ {p}) = Cardinality(D) - 1
        BY <2>3, <2>6, FS_RemoveElement
      <3>2. IsFiniteSet(C) /\ Cardinality(C) <= Cardinality(D \ {p})
        BY <2>6, <3>1, FS_Subset
      <3> QED
        BY <3>1, <3>2, FS_CardinalityType
    <2>8. Cardinality(M \ W) + Cardinality(C) < Max + Cardinality(Procs)
      <3> DEFINE a == Cardinality(M \ W)
                 b == Cardinality(L \ Z)
                 c == Cardinality(C)
                 d == Cardinality(D)
                 e == Cardinality(Procs)
      <3>1. /\ a \in Nat /\ b \in Nat /\ c \in Nat /\ d \in Nat /\ e \in Nat /\ Max \in Nat
            /\ a <= b + 1 /\ c <= d - 1 /\ b + d < Max + e
        BY <2>3, <2>5, <2>7, MaxAssumption
      <3>2. a + c < Max + e
        <4> HIDE DEF a, b, c, d, e
        <4> QED
          BY <3>1
      <3> QED
        BY <3>2
    <2> QED
      BY <2>8
  <1> QED
    BY <1>9, <1>10

\* The other statements make no token of a login.
LEMMA OtherStepsLimit ==
  ASSUME Inv, LimitInv, [Next]_vars,
         ~ \E p \in Procs : CountValid(p) \/ ScanOldest(p) \/ RevokeOldest(p) \/ CreateToken(p)
  PROVE  LimitInv'
  <1> DEFINE NoneMade ==
               \A t \in Tokens : from'[t] = None /\ status'[t] = "Valid" /\ t \notin expired' =>
                 from[t] = None /\ status[t] = "Valid" /\ t \notin expired /\ user'[t] = user[t]
             NoneBegun ==
               \A q \in Procs : pc'[q] \in {"revokeOldest", "create"} =>
                 pc'[q] = pc[q] /\ req'[q] = req[q]
  <1>1. /\ pc \in [Procs -> Labels] /\ req \in [Procs -> Requests]
        /\ status \in [Tokens -> Statuses \cup {"unused"}] /\ user \in [Tokens -> Users \cup {None}]
        /\ from \in [Tokens -> Tokens \cup {None}]
    BY DEF Inv, TypeOK
  <1>2. \A S \in SUBSET Tokens : \A t \in Tokens : Revoked(S)[t] = "Valid" => status[t] = "Valid"
    BY DEF Revoked
  <1>3. ASSUME NEW p \in Procs, NEW l, NEW r, Goes(p, l, r), l \notin {"revokeOldest", "create"}
        PROVE  NoneBegun
    BY <1>1, <1>3 DEF Goes
  <1>4. ASSUME NEW p \in Procs, Login(p) PROVE NoneMade /\ NoneBegun
    <2>1. CASE \E u \in Users : Authenticate(p, u)
      BY <2>1, <1>3 DEF Authenticate, rows
    <2>2. CASE BindProfile(p) \/ BindFails(p)
      BY <2>2, <1>3 DEF BindProfile, BindFails
    <2>3. CASE UndoLogin(p)
      <3>1. {req[p].tok} \cap Usable(req[p].user) \in SUBSET Tokens
        BY DEF Usable
      <3> QED
        BY <2>3, <3>1, <1>2, <1>3 DEF UndoLogin
    <2>4. CASE UndoFails(p) \/ Answer(p)
      BY <2>4, <1>3 DEF UndoFails, Answer, Ends, rows
    <2> QED
      BY <1>4, <2>1, <2>2, <2>3, <2>4 DEF Login
  <1>5. ASSUME NEW p \in Procs, Refresh(p) PROVE NoneMade /\ NoneBegun
    <2>1. CASE Replace(p)
      <3>1. PICK n \in Tokens :
              /\ status[n] = "unused" /\ status' = Committed(req[p].seen, n)
              /\ user' = [user EXCEPT ![n] = req[p].user]
              /\ from' = [from EXCEPT ![n] = req[p].old]
              /\ Goes(p, "answer", [req[p] EXCEPT !.tok = n, !.seen = {}])
        BY <2>1 DEF Replace
      <3>2. req[p].old # None
        <4>1. req[p].old \in issued /\ issued \subseteq Tokens
          BY <2>1 DEF Replace, Inv, SlotOK, TypeOK
        <4> QED
          BY <4>1, NoneAssumption
      <3>3. NoneMade
        BY <2>1, <3>1, <3>2, <1>1 DEF Replace, Committed, Revoked
      <3> QED
        BY <3>1, <3>3, <1>3
    <2>2. CASE ~ Replace(p)
      <3>1. CASE \E t \in Tokens : ReadToken(p, t)
        <4>1. PICK t \in Tokens : ReadToken(p, t)
          BY <3>1
        <4>2. PICK f \in Choices(t) :
                Goes(p, "revokeOld", [NoRequest EXCEPT !.user = user[t], !.old = t, !.bind = f])
          BY <4>1 DEF ReadToken
        <4>3. NoneBegun
          BY <4>2, <1>3
        <4> QED
          BY <4>1, <4>3 DEF ReadToken, rows
      <3>2. CASE RevokeOld(p)
        BY <3>2, <1>3 DEF RevokeOld, rows
      <3>3. CASE RefreshRefused(p)
        BY <3>3, <1>3 DEF RefreshRefused, Ends, rows
      <3> QED
        BY <1>5, <2>2, <3>1, <3>2, <3>3 DEF Refresh
    <2> QED
      BY <2>1, <2>2
  <1>6. ASSUME NEW p \in Procs, SigningOut(p) PROVE NoneMade /\ NoneBegun
    <2>1. CASE InvalidateAll(p)
      <3>1. req[p].seen \cap Usable(req[p].user) \in SUBSET Tokens
        BY DEF Usable
      <3>2. NoneMade
        BY <2>1, <3>1, <1>2 DEF InvalidateAll
      <3>3. NoneBegun
        BY <2>1, <1>3 DEF InvalidateAll, Ends
      <3> QED
        BY <3>2, <3>3
    <2>2. CASE \E u \in Users : SignOut(p, u)
      BY <2>2, <1>3 DEF SignOut, rows
    <2>3. CASE ScanValid(p)
      BY <2>3, <1>3 DEF ScanValid, rows
    <2>4. CASE Recount(p)
      BY <2>4, <1>3 DEF Recount, Ends, rows
    <2> QED
      BY <1>6, <2>1, <2>2, <2>3, <2>4 DEF SigningOut
  <1>7. ASSUME NEW n \in Tokens, Invalidate(n) \/ Expire(n) PROVE NoneMade /\ NoneBegun
    BY <1>7, <1>2 DEF Invalidate, Expire, rows
  <1>8. ASSUME NEW p \in Procs, CutOff(p) PROVE NoneMade /\ NoneBegun
    BY <1>8, <1>3 DEF CutOff, Ends, rows
  <1>9. ASSUME UNCHANGED vars PROVE NoneMade /\ NoneBegun
    BY <1>9 DEF vars
  <1>10. NoneMade /\ NoneBegun
    BY <1>4, <1>5, <1>6, <1>7, <1>8, <1>9 DEF Next
  <1> QED
    BY <1>10, LimitKept

LEMMA InitLimit == Init => LimitInv
  <1> SUFFICES ASSUME Init, NEW u \in Users, NEW W \in SUBSET Tokens
               PROVE  Cardinality(LoggedIn(u) \ W) + Cardinality(Covered(u, W)) < Max + Cardinality(Procs)
    BY DEF LimitInv, Bounded
  <1>1. LoggedIn(u) \ W = {} /\ Covered(u, W) = {}
    BY DEF Init, LoggedIn, Usable, Covered, Pending
  <1>2. Cardinality(Procs) \in Nat
    BY LimitCounts
  <1> QED
    BY <1>1, <1>2, FS_EmptySet, MaxAssumption

LEMMA NextLimit == Inv /\ LimitInv /\ [Next]_vars => LimitInv'
  BY CountValidLimit, ScanOldestLimit, RevokeOldestLimit, CreateTokenLimit, OtherStepsLimit

\* Create counts the valid tokens without a lock: logins that overlap exceed
\* the limit by less than their number, whatever requests are cut off, wait for
\* locks, refresh or sign out meanwhile.
THEOREM LimitBound == Spec => []LimitOvershoot
  <1>1. LimitInv => LimitOvershoot
    <2> SUFFICES ASSUME LimitInv, NEW u \in Users
                 PROVE  Cardinality(LoggedIn(u)) < Max + Cardinality(Procs)
      BY DEF LimitOvershoot
    <2>1. LoggedIn(u) \ {} = LoggedIn(u)
      OBVIOUS
    <2>2. Cardinality(LoggedIn(u)) + Cardinality(Covered(u, {})) < Max + Cardinality(Procs)
      BY <2>1 DEF LimitInv, Bounded
    <2>3. /\ Cardinality(LoggedIn(u)) \in Nat /\ Cardinality(Covered(u, {})) \in Nat
          /\ Cardinality(Procs) \in Nat
      BY LimitCounts
    <2> QED
      BY <2>2, <2>3, MaxAssumption
  <1>2. Spec => []LimitInv
    BY InitLimit, NextLimit, Invariance, PTL DEF Spec
  <1> QED
    BY <1>1, <1>2, PTL
=============================================================================
