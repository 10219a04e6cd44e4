------------------------------ MODULE Sessions ------------------------------
(***************************************************************************)
(* Joining a server: the client records a session in Redis, the server     *)
(* asks for it and gets the profile with its textures                      *)
(* (handler/yggdrasil/client/client.go, handler/yggdrasil/server/server.go,*)
(* logic/yggdrasil/session.go, repository/cache/session.go).  Game tokens  *)
(* are seen as the requests here see them: bound to a profile or not, and  *)
(* valid until they are not.  The textures are those of OnlineProfile.     *)
(***************************************************************************)
EXTENDS OnlineProfile

CONSTANTS
  Tokens,   \* access tokens
  Bound,    \* Bound[t]: the profile the token t is bound to, or None
  Servers   \* server ids

ASSUME BoundAssumption == Bound \in [Tokens -> Profiles \cup {None}]

VARIABLES
  valid,    \* the tokens that are valid
  session,  \* session[s]: the session of server id s in Redis, or None
  req,      \* what the request of each slot knows
  yes       \* yes[s]: positive answers for s since a session was recorded, or
            \* its deletion failed

sessionVars == <<valid, session, yes>>

vars == <<onlineVars, pc, asks, valid, session, req, yes>>

SessionData == [token : Tokens, profile : Profiles]

\* ttl says whether the key expires.
Keys == [data : SessionData, ttl : BOOLEAN]

SessionSteps == {"idle", "setSession", "getSession", "getProfile", "deleteSession", "build"}

NoRequest == [server |-> None, username |-> None, data |-> None]

Requests ==
  [server : Servers \cup {None}, username : Names \cup {None}, data : SessionData \cup {None}]

TypeOK ==
  /\ OnlineTypeOK
  /\ pc \in [Procs -> SessionSteps \cup OnlineSteps]
  /\ valid \subseteq Tokens
  /\ session \in [Servers -> Keys \cup {None}]
  /\ req \in [Procs -> Requests]
  /\ yes \in [Servers -> Nat]

Init ==
  /\ OnlineInit
  /\ pc = [p \in Procs |-> "idle"]
  /\ valid = Tokens
  /\ session = [s \in Servers |-> None]
  /\ req = [p \in Procs |-> NoRequest]
  /\ yes = [s \in Servers |-> 0]

-----------------------------------------------------------------------------
Goes(p, step, r) ==
  /\ pc' = [pc EXCEPT ![p] = step]
  /\ req' = [req EXCEPT ![p] = r]
  /\ UNCHANGED <<onlineVars, asks>>

Ends(p) == Goes(p, "idle", NoRequest)

\* The token is valid and bound to the profile that is selected.
MayJoin(t, x) == t \in valid /\ Bound[t] = x

\* JoinServer of the client: what follows a request that may not is a refusal.
StartJoin(p, t, x, s) ==
  /\ At(p, "idle")
  /\ MayJoin(t, x)
  /\ Goes(p, "setSession", [NoRequest EXCEPT !.server = s, !.data = [token |-> t, profile |-> x]])
  /\ UNCHANGED sessionVars

\* Mutant: SET without an expiry.
SetForGood(d) == [data |-> d, ttl |-> FALSE]

\* SET with an expiry, in one command.
Set(d) == [data |-> d, ttl |-> TRUE]

\* The session is recorded, or the command fails and the client gets an error.
SetSession(p) ==
  LET r == req[p] IN
  /\ At(p, "setSession")
  /\ \/ /\ session' = [session EXCEPT ![r.server] = Set(r.data)]
        /\ yes' = [yes EXCEPT ![r.server] = 0]
     \/ UNCHANGED <<session, yes>>
  /\ Ends(p)
  /\ UNCHANGED valid

\* HasJoined of the server.
StartHasJoined(p, s, n) ==
  /\ At(p, "idle")
  /\ Goes(p, "getSession", [NoRequest EXCEPT !.server = s, !.username = n])
  /\ UNCHANGED sessionVars

GetSession(p) ==
  LET r == req[p] IN
  /\ At(p, "getSession")
  /\ IF session[r.server] = None
       THEN Ends(p)
       ELSE Goes(p, "getProfile", [r EXCEPT !.data = session[r.server].data])
  /\ UNCHANGED sessionVars

\* The name of the profile is the one asked for; the address may differ.
CheckProfile(p) ==
  LET r == req[p] IN
  /\ At(p, "getProfile")
  /\ \/ name[r.data.profile] = r.username /\ Goes(p, "deleteSession", r)
     \/ Ends(p)
  /\ UNCHANGED sessionVars

\* Mutant: the session stays.
DeleteSessionLater(p) ==
  LET s == req[p].server IN
  /\ At(p, "deleteSession")
  /\ yes' = [yes EXCEPT ![s] = @ + 1]
  /\ Goes(p, "build", req[p])
  /\ UNCHANGED <<valid, session>>

\* The answer is yes, whether the session can be deleted or not.
DeleteSession(p) ==
  LET s == req[p].server IN
  /\ At(p, "deleteSession")
  /\ \/ session' = [session EXCEPT ![s] = None] /\ yes' = [yes EXCEPT ![s] = @ + 1]
     \/ UNCHANGED session /\ yes' = [yes EXCEPT ![s] = 0]
  /\ Goes(p, "build", req[p])
  /\ UNCHANGED valid

\* BuildProfileResponse with the profile read before: both textures are there,
\* or Mojang's are asked for.
Build(p) ==
  LET x == req[p].data.profile IN
  /\ At(p, "build")
  /\ Done(p) \/ Continue(p, "read", [NoQuestion EXCEPT !.profile = x, !.name = req[p].username])
  /\ req' = [req EXCEPT ![p] = NoRequest]
  /\ UNCHANGED <<onlineVars, sessionVars>>

\* QueryProfile.
StartQuery(p, x) ==
  /\ At(p, "idle")
  /\ AskFor(p, x)
  /\ UNCHANGED <<onlineVars, sessionVars, req>>

-----------------------------------------------------------------------------
\* A token expires, is replaced or invalidated.
Invalidate(t) ==
  /\ t \in valid
  /\ valid' = valid \ {t}
  /\ UNCHANGED <<onlineVars, pc, asks, session, req, yes>>

\* Half a minute is over.
ExpireSession(s) ==
  /\ session[s] # None /\ session[s].ttl
  /\ session' = [session EXCEPT ![s] = None]
  /\ UNCHANGED <<onlineVars, pc, asks, valid, req, yes>>

Arrive(p) ==
  \/ \E t \in Tokens, x \in Profiles, s \in Servers : StartJoin(p, t, x, s)
  \/ \E s \in Servers, n \in Names : StartHasJoined(p, s, n)
  \/ \E x \in Profiles : StartQuery(p, x)

\* A step of the request in slot p.
Step(p) ==
  \/ SetSession(p) \/ GetSession(p) \/ CheckProfile(p) \/ DeleteSession(p) \/ Build(p)
  \/ OnlineStep(p) /\ UNCHANGED <<sessionVars, req>>

Outside ==
  \/ OnlineOutside /\ UNCHANGED <<sessionVars, req>>
  \/ \E t \in Tokens : Invalidate(t)
  \/ \E s \in Servers : ExpireSession(s)

Next == Outside \/ \E p \in Procs : Arrive(p) \/ Step(p)

Spec == Init /\ [][Next]_vars

\* Requests run on: calls of Mojang have a timeout, and a mutex is handed over
\* in the end.  Sessions expire.
FairSpec ==
  /\ Spec
  /\ \A p \in Procs : SF_vars(Step(p))
  /\ \A s \in Servers : WF_vars(ExpireSession(s))

-----------------------------------------------------------------------------
(***************************************************************************)
(* Properties.                                                             *)
(***************************************************************************)

\* A session is good for one positive answer; servers that ask at the same time
\* may all get it, none that asks after its deletion does.
YesOvershoot == \A s \in Servers : yes[s] <= Cardinality(Procs)

SignedOut(s) == session[s] # None /\ session[s].data.token \notin valid

\* A session recorded with a token does not outlive the token for long, not even
\* one that was validated before the token was invalidated and recorded after.
SignedOutGoes == \A s \in Servers : SignedOut(s) ~> ~SignedOut(s)

\* Every request gets its answer: nobody keeps the mutex of a name, however the
\* calls of Mojang and the statements end.
RequestsEnd == \A p \in Procs : ~At(p, "idle") ~> At(p, "idle")
=============================================================================
