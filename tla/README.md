# Verification of frontleaves-yggleaf

TLA+ models, TLC runs and TLAPS proofs for the yggleaf server: a Go service
that keeps Minecraft skins, capes and game profiles for its users, takes their
issues, and answers the Yggdrasil protocol (login, tokens, joining servers) for
game clients and servers. It runs many requests at a time over PostgreSQL,
Redis, a bucket service for files, an identity provider and the Mojang API.

Contents: 1 inventory, 2 the hard behaviours, 3 the modules, 4 library,
5 game tokens, 6 game profiles, 7 join sessions and Mojang profiles, 8 users,
9 issues (how each module corresponds to the code), 10 runs, 11 proofs, 12 what
does not hold, 13 what is not modelled.

## 1. Inventory

Paths are under `src/internal/`.

| component | state | operations | what makes it correct | module |
|---|---|---|---|---|
| Resource library (`logic/library.go`, `repository/txn/library.go`, `repository/*library*.go`) | skin and cape records, associations user-record (Normal, Gift, Admin), one quota row per user, texture files in the bucket | create, update, delete, gift, revoke, recalculate, read quota | used columns count the Normal associations and stay in `0..total`; a record lives as long as someone holds it, with its file; only the owner changes or is charged for it | `Library` |
| Game profiles (`logic/game_profile.go`, `repository/txn/game_profile.go`) | profiles (UUID, name, worn skin and cape), profile quota and its log | add, rename, wear, take off, read quota, adjust the quota | profiles within the quota, each change logged as it was; few namesakes; worn textures are held | `GameProfile` |
| Game tokens (`logic/yggdrasil/auth.go`, `repository/txn/game_token.go`, `repository/game_token.go`) | tokens Valid / Invalid with expiry and bound profile | authenticate, refresh, validate, invalidate, sign out | at most ten valid tokens a user; a refresh replaces one token by one; an invalid token stays invalid | `GameTokens` |
| Join sessions (`logic/yggdrasil/session.go`, `handler/yggdrasil/client`, `repository/cache/session.go`) | Redis: server id to token, profile, IP; 30 s | join, hasJoined, query profile | few positive answers per session; none for a token long gone | `Sessions` |
| Mojang profiles (`logic/yggdrasil/mojang.go`) | stored answers of the Mojang API, half an hour; a mutex per name | fill in textures a profile lacks | Mojang is asked only for what is missing, once at a time; no mutex is kept | `OnlineProfile` |
| Users and caches (`logic/user.go`, `repository/user.go`, `repository/cache/user.go`, `logic/access_user.go`) | user rows, a Redis hash per user and one per access token | synchronise with the provider, change the game password, read | the copies agree with the row or come to; a synchronisation leaves the password alone | `Users` |
| Issues (`logic/issue.go`, `repository/txn/issue.go`, `repository/cache/issue.go`, `constant/issue.go`) | issues with a status machine, types, replies, attachments with bucket files, a cached copy | create, read, reply, change status / priority / note / content, attach, detach, edit types | only allowed transitions; attachments within the limit and with their files; a stale copy goes | `Issue` |
| Rate limiter (`app/middleware/yggdrasil_ratelimit.go`) | Redis counter per user name, 60 s | count a request | a refused user is let in again | - |
| Request layer, signing, start-up, mod file synchronisation | none, or files written once | - | - | - |

Interaction: handlers call logic, logic calls repositories and transactions. The
components share PostgreSQL tables (a profile's skin refers to a library record,
tokens refer to profiles, everything to users) and meet only there and in Redis.
No component calls back another. Requests run concurrently; transactions run at
READ COMMITTED, and `SELECT ... FOR UPDATE` on the two quota tables is the only
explicit lock in the database.

## 2. What is hard here

* Read-check-write over several statements at READ COMMITTED. Where the lock of
  the quota row covers all three (a new texture, a new profile) the count is
  safe; where the check is before the lock, or there is no lock (names, statuses,
  attachments, tokens), it may be stale.
* An effect outside the database (the bucket file) before or after the commit.
* Cut-off requests: a cancelled request rolls back its transaction, but the
  calls after the commit never happen.
* Cache-aside copies that a reader fills while a writer changes the row, and
  HSET and EXPIRE as two commands.
* Implicit locks: unique keys and foreign keys, `ON DELETE CASCADE`, and
  uncommitted deletes that later statements wait for.
* int32 totals to which administrators add anything.
* Long sequences of legal calls (upload, gift, delete, upload again).

`PROJECT.json` lists them all under `hazards`, each at its line with the
properties that would catch it.

## 3. The modules

| component | abstract | detailed | instances | proofs |
|---|---|---|---|---|
| library | `QuotaLedger` | `Library` | `MCLibrary` | `LibraryProofs`, `LibraryRecordsProofs` (records and files), `LibraryQuotaProofs` (the used columns) |
| tokens | | `GameTokens` | `MCGameTokens` | `GameTokensProofs` |
| profiles | `ProfileAccount` | `GameProfile` | `MCGameProfile` | `GameProfileProofs` |
| sessions, Mojang profiles | | `Sessions`, which extends `OnlineProfile` | `MCSessions` | `SessionsProofs` |
| users | | `Users` | `MCUsers` | `UsersProofs` |
| issues | | `Issue` | `MCIssue` | `IssueProofs` |

All are written alike. Requests run in slots (`Procs`); `pc[p]` is what slot `p`
executes next and `req[p]` what its request has read so far. An action is one
SQL statement, Redis command or call of another service, with the code up to
the next one; its guards are the code's conditions, and a refusal or failure
ends the request (`Refuses`, `Ends`). `Arrive` lets requests in, `Step` continues
them, and what happens by itself (expiry, the bucket, other services) is apart.
`Faults` lets commands fail and cuts requests off. What reads and changes
nothing, and refusals that change nothing, are left out. Definitions that a
comment calls a mutant are not part of any specification: each is a definition
of the model changed the way a bug would change it, and `PROJECT.json` says
which property notices it.

Every safety property of the passing runs is proved (section 11). What is left of
the plan: a composition of `Sessions` with `GameTokens` in place of the tokens as
`Sessions` sees them.

## 4. Library: correspondence with the code

State: `skin[s]` is the row of `skin_library` (or `cape_library`) with its
owner, hash and visibility; `assoc[u][s]` the row of `user_skin_library`;
`row`, `used[u]` the quota row of `u`; `lock[u]` who holds its row lock;
`file[s]` what the bucket does with the texture. `pc[p]` is the statement slot
`p` executes next, `req[p]` what its request has read so far.

One action is one SQL statement (or bucket call) with the code up to the next
one. A statement with two outcomes is two actions with complementary guards,
e.g. `ReadOwnSkin` and `OwnSkinGone`. Transactions:

| operation | statements in order |
|---|---|
| create | `Upload`; lock quota; `HashUnknown` then `InsertSkin`, or `HashOfOwn` then `AssocFound` or `AssocMissing`, `InsertAssoc`; `VerifyFile` |
| update | `StartUpdate`, `ReadSkinForUpdate`, `CheckAssocForUpdate`, lock quota when the visibility changes, `UpdateSkin` |
| delete | `StartDelete`, `ReadSkinForDelete`, `CheckAssocForDelete`, for Normal `ReadOwnSkin` and lock quota; `DropAssoc`, `CountRefs`, `CommitDelete`, `DeleteFile` |
| gift | `StartGift`, `CheckGift`, `InsertGift` |
| revoke | `StartRevoke`, `DropAssoc`, `CountRefs`, `CommitRevoke` |
| recalculate | `StartRecalculate`, lock quota, `CountPublic`, `CountPrivate` |
| lock quota | `LockQuota`, or `QuotaMissing` then `InsertQuota` |

Abstractions, and why they lose nothing the properties tell apart:

* Writes of a transaction appear at its commit (READ COMMITTED hides them until
  then). What others do feel earlier is modelled: the lock on the quota row,
  and a deleted association row (`BeingDropped`), on which inserts of the same
  row, deletes of it and deletes of its record wait. Unique keys and foreign
  keys are decided in the committing step.
* A file and the record made from it share one id (the bucket gives each upload
  a new one). `Gift` and `Admin` associations are one value: every statement
  treats them alike. Names are left out; an update that changes the name only
  is an update whose new visibility is the old one.
* The first read of the association of update, delete and revoke is merged
  with the request's arrival, the check of the locked row with taking the lock,
  the last count of a recalculation with its write and commit. The first is the
  first statement of its request; the others read only what the lock protects,
  or (the second count) are followed by a write to the locked row only.
* The owner test in `CountRefs` reads the record in the same step as the count;
  a record's owner never changes.
* Skins and capes run the same code on other columns of one quota row. The
  model has one kind; `UpdateHookRejects` makes it skins (the `BeforeUpdate`
  hook refuses updates) or capes. What is lost is contention for the row lock
  between the two kinds, which two slots of one user provide as well.
* External: how built-in records come into the table (`Seeds`), the bucket's
  file states, that it may discard files never verified, and that a cancelled
  request rolls back (`CutOff`).

`QuotaLedger` is what the quota promises: each request takes effect on its
user's counts at most once, at one instant, by the step of its operation.
`Library!Ledger` instantiates it with `used` as it is and `doing` read off
`req`: a request counts as running until its transaction is over.

The runs of the library set `UpdateHookRejects = FALSE` (capes) except the one
about the hook: for a safety property a skin's refused update is one of the
rollbacks that the cape's behaviours with faults contain.

## 5. Game tokens: correspondence with the code

State: `status[t]`, `user[t]`, `bound[t]` are the columns of the row `t` of the
token table, `expired` the rows past their `expires_at`. `issued` are the access
tokens that have been sent to some client: they are random UUIDs, so a request
can only carry one of those. `from[t]` is history: the token `t` was made from.

| operation | statements in order |
|---|---|
| authenticate | `Authenticate`, `CountValid`, at the limit `ScanOldest` and `RevokeOldest`, `CreateToken` (commit); with one profile `BindProfile`, or `BindFails` and `UndoLogin`; `Answer` |
| refresh | `ReadToken`, `RevokeOld` or `RefreshRefused`, `Replace` (commit), `Answer` |
| invalidate | `Invalidate` |
| sign out | `SignOut`, `ScanValid`, `InvalidateAll`, `Recount`, and when tokens are left `ScanValid`, `InvalidateAll` again |

An UPDATE of several rows is two actions, because at READ COMMITTED it picks its
rows from a snapshot, waits for those other transactions have updated (`Locks`),
tests its condition on them again, and does not see rows that were inserted
while it waited: that is what the second scan of a sign-out is for. An UPDATE of
one row needs no snapshot. Abstractions:

* A multi-row UPDATE takes its locks in one step. Two of them that take the same
  rows in different orders may deadlock in PostgreSQL, which fails one: `CutOff`.
* `RevokeOldest` picks all valid rows: neither `ORDER BY` nor `LIMIT` gets into
  the statement (external: GORM and PostgreSQL).
* Credentials, client tokens and their refusals are left out: a refused request
  changes nothing. Who owns which profile does not change. The INSERT of a
  transaction and the binding of the inserted row are part of its commit.
* Tokens expire in any order, a superset of what the clock does.

## 6. Game profiles: correspondence with the code

State: `profile[x]` is the row of a profile (owner, name, skin, cape), `quota[u]`
and `log[u]` the quota row and its last log entry, `lock[u]` who holds the row.
`held[u][s]` and `library` are what the library module would say: whether `u`
never held, holds or held texture `s`, and which textures exist.

| operation | steps in order |
|---|---|
| add | `StartAdd`, then `Lock` or `InsertQuota` when there is no row, `CheckName` or `NameConflict`, `CommitAdd` (profile, quota and log entry) or `CommitAddFails` |
| rename | `StartRename`, `CheckName`, `UpdateName` |
| wear | `StartWear` (for skins and capes), `CheckHeld`, `UpdateWorn`; taking off, `StartTakeOff`, has no check |
| quota | `StartQuota`, and without a row `InsertQuota` |
| adjust | `StartAdjust`, `Lock` or `InsertQuota`, `CommitAdjust` |
| the library | `Associate`, `Revoke`, `DeleteTexture` (with what `ON DELETE SET NULL` does to profiles) |

* A profile's id stands for its UUID too. The writes of a transaction come after
  its checks, and nobody sees them before the commit: they are one step with it.
* Integers are those of the code with a smaller width: `Wrap` adds as int32 does,
  for any `Largest`. The check of the new total and the log entry, which computes
  the old total back from the new one, work on the wrapped value, as in the code.
* `SetSkin` and `SetCape` choose between wearing and taking off.

`ProfileAccount` is what the quota promises: each change takes effect at one
instant, within the account, and the last log entry says what it was.
`GameProfile!Account` instantiates it with the number of profiles that *exist*
as `used`, not the column, and with a missing row as a new account; that the
column counts them (`UsedCounted`) is part of the proof.

## 7. Join sessions and Mojang profiles: correspondence with the code

`OnlineProfile`: `record[x]` is the cached answer for profile `x` (the name it was
asked for, whether there is an account, whether it has textures, whether it is
still valid), `holder[n]` the mutex of a name. `Read`, `Lock`, `ReadAgain`,
`Lookup` and `Fetch` (the two calls of Mojang), `Upsert`, `Unlock` are the steps
of a lookup; each may fail as the code lets it, and a failed call is stored as a
missing account or missing textures, as the comment at
`logic/yggdrasil/mojang.go:106` intends. `Rename` is the renaming of a profile,
which leaves the record as it is.

`Sessions` extends it and continues its slots: `session[s]` is the Redis key,
`valid` the valid tokens, `Bound` the profiles they are bound to.

| operation | steps in order |
|---|---|
| join | `StartJoin` (token and profile agree), `SetSession` |
| hasJoined | `StartHasJoined`, `GetSession`, `CheckProfile`, `DeleteSession`, `Build`, and when a texture is missing the steps of `OnlineProfile` |
| query profile | `StartQuery`, then as above |

* `SetSession` may fail: the client gets an error and no session is recorded.
* An IP that does not match is a refusal `CheckProfile` may choose. The details of
  a profile outside the protocol read the cached record and never ask Mojang.
* `yes[s]` is history: the positive answers since a session for `s` was recorded.
  A deletion that fails is logged only, and resets it: until the expiry the
  session then answers again, which the code accepts.
* A token is created and bound elsewhere; here it is valid until `Invalidate`.
* The mutex is that of one process, as is the model.

## 8. Users: correspondence with the code

State: `sso[u]` what the provider says of `u`, `row[u]` the database row,
`entry[u]` the Redis hash of the user, `token[k]` the one of an access token.
Hashes may lack the password and have an expiry or not.

| operation | steps in order |
|---|---|
| visit (a request whose token is not cached), info | `StartVisit` / `StartInfo`; `Get`, on a miss `Load`, `Hset`, `SetExpiry`; when the provider says something else, or the user is new, `Save`, `Hset`, `SetExpiry`; a visit ends with `HsetToken`, `SetExpiryToken` |
| password | `StartPassword`, `Get` as above, `Save`, `Hset`, `SetExpiry` |
| look (anything that reads a user) | `StartLook`, `Get` as above |

* `Infos` stands for nickname, e-mail and phone. Role, ban and jail flags are
  only read by what is modelled. What `Merge` shows on the password, a field that
  HSET leaves out keeps its old value, holds of e-mail and phone too.
* A new user also gets a library quota: that is `Library`'s action, which
  touches nothing here.
* `CacheFails` ends a request at a Redis command with an error, `CutOff` anywhere.

## 9. Issues: correspondence with the code

State: `issue[i]` is the row (`text` stands for title, content, priority, note
and `updated_at`, `closed` for a `closed_at` that is set), `type[t]`,
`attachment[f]`, `file[f]` the bucket's state of the file, `cache[i]` the copy in
Redis, `mails` the status mails that have been sent. `been[i]` is a history
variable: the statuses the row of `i` has had, extended where the row is written
and read by no action. `NothingAhead` compares the copy and the mails with it.

| operation | steps in order |
|---|---|
| create | `StartCreate`, `InsertIssue` or `InsertIssueFails` (the type is gone), `Fill` |
| read | `CacheMiss`, `ReadIssue`, `Fill`; a hit changes nothing |
| reply | `StartReply`, `InsertReply`, `Invalidate` |
| status | `StartStatus`, `UpdateStatus` (with the mail), `Invalidate` |
| priority, note, content | `StartEdit`, `UpdateColumn`, `Invalidate` |
| title, type | `StartInfo`, `UpdateInfo` or `UpdateInfoFails`, `Invalidate` |
| attach | `StartAttach` (count), `Upload`, `InsertAttachment`, `Verify` |
| detach | `StartDetach`, `DeleteAttachment`, `DeleteFile`, `Invalidate` |
| types | `CreateType`, `StartEditType`, `SaveType`, `DeleteType` |

* Nothing deletes an issue, so the test that it exists is part of the arrival,
  and so is the count of attachments, the first thing the upload decides on.
* Requests of strangers are refused and change nothing. Replies are read from
  the database directly. Mails are sent by goroutines after the commit; those
  about a status are recorded at it, a superset of what can be ahead.
* `SaveType` is gorm's Save: when the type was deleted meanwhile it inserts the
  row again, and a disabled type comes back enabled, as the column's default
  replaces a FALSE in an INSERT (`entity/issue_type.go:15`).
* Files that were uploaded and never verified are the bucket's to discard.

## 10. Runs

| run | workload and bounds | shows |
|---|---|---|
| `LibraryAdmin` | a user whose uploads overlap with its other requests, another user, an administrator gifting to both and revoking, a built-in record; 2 ids, 2 hashes; no faults (a cut-off would hide a deadlock), fair | `TypeOK`, `LockedReadCurrent`, `NormalOnlyByOwner`, `BuiltInKept`, `LiveFileVerified`, refinement of the ledger (`LedgerSpec`), `RequestsEnd` |
| `LibrarySerial` | one slot per user, recalculation of the other user meanwhile; 3 ids, 2 hashes, faults; deadlock checked | `QuotaExact`: without overlapping requests of one user and without gifts the counts are exact |
| `LibraryConcurrent` | users overlap with themselves; no gifts, no recalculation; 2 ids, 2 hashes, faults | `NeverOvercharged`, `OwnerHolds`, `LiveFileKept`: the drift is never to the user's loss, nothing is orphaned |
| `GameTokens` | every request of two users in two slots, a limit of one, three rows, expiry and faults; one user has one profile, the other two | `TypeOK`, `RefreshReplaces`, `BindingKept`, `LimitOvershoot`, `SignOutEffective`, `InvalidFinal` |
| `GameProfile` | one user, 3 profiles, 2 names, a skin; two slots that add, one renames and changes what is worn, the other adjusts; integers up to 3, faults, fair; deadlock checked | `TypeOK`, `WornWasHeld`, refinement of the account (`AccountKept`), `RequestsEnd` |
| `GameProfileNames` | three users, 3 profiles, 2 names; both slots add and rename, faults; deadlock checked | `NameOvershoot` |
| `Sessions` | one profile with two names, a bound and an unbound token, one server id, two slots, every failure; fair; deadlock checked | `TypeOK`, `AskedOnlyWhenMissing`, `YesOvershoot`, `SignedOutGoes`, `RequestsEnd` |
| `Users` | one user and token; visits and looks next to password changes and synchronisations; faults, fair; deadlock checked | `TypeOK`, `CopyHasRow`, `StaleEntryGoes` |
| `UsersSerial` | one user with two tokens, every request, one at a time, no faults, fair; deadlock checked | `Coherent`, `PasswordKept`, `TokenCopyGoes` |
| `Issue` | one issue; one administrator changes statuses next to every other request; faults, fair expiry | `ClosedStamped`, `NothingAhead`, `StatusFollowsTransitions`, `StaleCopyGoes` |
| `IssueFiles` | every slot creates, attaches, detaches, edits types; 3 files, 2 types, a limit of one, no faults | `TypeOK`, `AttachmentOvershoot`, `FilesMatchRows` |
| `LibrarySkinUpdate` | a user with skins; **violation expected** | `UpdateTakesEffect`: no update of a skin ever succeeds (section 12) |

`Work` says which slot may run which operations. Two slots are enough for every
hazard listed: each is a race of two requests. Of the data, each run has enough
for its case to happen:

* Library: default totals of 1 public and 2 private places. Two uploads of one
  texture need two ids; three ids fill the private places and leave one over
  (`LibrarySerial`). In `LibraryAdmin` the hash of the built-in record is what an
  upload might wrongly find.
* `GameTokens`: with a limit of one the second login is at the limit, and three
  rows are two too many, and enough for a chain of two refreshes. What does *not*
  hold is that a sign-out leaves no valid token: two refreshes in a row may slip
  through both of its scans, so `SignOutEffective` is about the tokens held when
  it arrived, not about what they are refreshed to meanwhile. For the same
  reason `LimitOvershoot` counts the tokens that logins made. Let a login at the
  limit pick its rows (`ScanOldest`), and let each of them be refreshed before it
  gets their locks: it finds nothing left to revoke, does not see the rows that
  replace them, and adds one. With more rows than this run has, the valid tokens
  of one user, all counted, grow past any bound that way.
* `GameProfile`: adding 2 and -2 to totals up to 3 goes to the largest total and
  back, overflows, falls below zero and below what is used. Three profiles of
  one user use up the largest total. Users meet in names and UUIDs only, which
  the lock of one user's quota row keeps apart: `GameProfileNames` has three
  users with a place each, so that two slots race for a name a third profile may
  have, and for a UUID.
* `Sessions`: two servers that ask for one session at a time, one join next to
  one that asks, and two names so that a rename comes in between. A second
  profile would only add a mutex that nobody contends for.
* `Users`: two values of the provider and two passwords tell old from new; the
  second token is where a copy falls behind through a request with the first.
* `Issue`: two texts tell an old row from a new one, and every status is there.
  `IssueFiles` lets two uploads meet one at the limit of one.

`OwnerHolds`, `LiveFileKept` and `QuotaExact` are checked without gifts, and
`NeverOvercharged` without recalculation: section 12 says what gifts do, and a
recalculation counts associations that a concurrent deletion is about to take
away. `StatusFollowsTransitions`, `ClosedStamped` need that one administrator at
a time changes statuses, `Coherent` and `PasswordKept` that the requests of a
user follow one another and nothing fails. `StaleEntryGoes` is about entries that
have an expiry: when EXPIRE is lost, an entry stays until someone saves its user.
`FilesMatchRows` is checked without faults: a failure between the bucket's call
and the statement leaves a file without a row.

`CHECK_DEADLOCK FALSE` stands where the system may really stop: fresh ids of
files, issues or tokens run out, all slots are idle and the workload has nothing
else.

### Fairness

Arrivals are never fair: nobody has to send a request.

* `Library`, `GameProfile`, `Sessions`: strong fairness of each slot's next step.
  A request's goroutine goes on by itself; a statement that waits for a row waits
  in PostgreSQL's queue, which is served in order; a Go mutex hands over to a
  waiter that starves; calls of Mojang have a timeout. `RequestsEnd` would fail
  if two requests waited for each other, or if one ended without giving its lock
  or mutex back. The library's is checked without `CutOff`.
* `Users`: weak fairness of steps when nothing is cut off, and of expiry.
* `Issue`, `Sessions`: weak fairness of the expiry of what has one. In `Issue`
  it is the only one: `StaleCopyGoes` also holds when requests stop anywhere.

## 11. Proofs

The theorems hold for any sets of users, records, slots and so on, any workloads
and limits; the assumptions on constants are the `ASSUME`s of the modules: sets
that are counted are finite, limits are naturals, `None` is none of the values.
Each module's `TypeCorrect` is `Spec => []TypeOK`; it is never a formality,
because the shapes of requests at each step are part of its invariant.

`LibraryProofs`: `LockSafety` (`LockedReadCurrent`), `Refinement`
(`Spec => LedgerSpec`) and `Invariance`, which they rest on. `Inv` adds `Shapes`
(which operation and which fields a request has at each statement, and that it
has no user once its transaction is over), `Locked` (the statements that write
the quota are reached holding the lock), `LockKnows` (whoever holds the lock is
at one of them, has read what the row says and has passed the checks on it) and
`RowZero` (a missing row has no places used). `StepInv` reduces each action to
what it does to its own slot. The refinement goes by operation: every commit that
writes `used` is one ledger step because `LockKnows` makes the values it was
computed from current; everything else begins a request, ends one, or leaves the
ledger alone.

`LibraryRecordsProofs`: `NormalByOwner` (`NormalOnlyByOwner`) and `BuiltInStays`
(`BuiltInKept`) for every workload, `LiveVerified` (`LiveFileVerified`, assuming
`~Faults`: a request that is cut off never verifies its file), and, assuming
`NoGifts` (no slot may gift), `OwnersHold` (`OwnerHolds`) and `LiveFilesStay`
(`LiveFileKept`). None of them is inductive. `RecordInv` adds that an id is used
once (`Fresh`: an uploaded file is known to its slot alone until the record is
made), so that what a request has learned of a record stays true of it as long
as the record is there (`RecordKnown`); that of two transactions only one deletes
an association (`DropsApart`); and that associations have records (`AssocLive`).
`KeptInv` adds, for a library without gifts, that a record has no holder but its
owner, so that the deletion of the association takes the record along, and only
what has been taken along loses its file. With gifts both properties fail in the
code (section 12), which is why they are assumed away rather than the invariant
weakened. One more assumption on a constant is needed, `RecordsAssumption`: `None`
is not a record.

`LibraryQuotaProofs`: `NotOvercharged` (`NeverOvercharged`, assuming `NoGifts` and
`NoRecalculations`) and `QuotaIsExact` (`QuotaExact`, assuming `NoGifts` and
`Serial`: the uploads, updates and deletions of a user go through one slot;
recalculations may run anywhere). `Changes` says that four statements only write
records, associations or used columns (`InsertSkin`, `UpdateSkin`,
`CommitDelete`, `CountPrivate`), and a lemma for each says what it writes, from
`LockKnows`: the columns it computed from are current. For the first theorem a
deletion must hold the quota row while it drops the association (`DeleteLocked`):
a place is given back with the record or after another deletion of it gave one
back. For the second, `ExactKnown` says that the visibility a request read
before it took the lock is still the record's, and that the first count of a
recalculation is still right at the second; `Serial` is what makes both true, and
without it the drifts of section 12 are real.

`GameTokensProofs`: `RefreshedOnce` (`RefreshReplaces`), `BindingSafe`
(`BindingKept`), `SignOutSafe` (`SignOutEffective`), `InvalidForever`
(`InvalidFinal`). The invariant adds what each slot knows (`SlotOK`: a refresh
that has revoked its token holds its lock; a login's new token has not been handed
out, so nobody refreshes it before it is bound; the rows of a sign-out include
every token held at its arrival that is still usable), that no two slots carry
the same new token or hold the lock of one row (`Apart`), and that predecessors
were handed out (`Lineage`). `Frame` is what a step leaves to the other slots.
`LimitBound` (`LimitOvershoot`) has an invariant of its own, `LimitInv`. Counting
the valid tokens and the logins about to add one is not enough: a login that
holds the locks of tokens to be revoked may commit, and take them along, or be
cut off, and leave them. So the bound is stated for every set `W` of tokens put
aside: the tokens outside `W`, and the pending logins that will revoke nothing
outside `W`, are together less than the limit plus the slots. A login that found
room has counted less than the limit; one that did not saw all there was, and
is counted only when `W` holds all of it; whatever is revoked joins `W`.

`GameProfileProofs`: `AccountRefined` (`Spec => AccountKept`), `Within` (no user
has more profiles than the account allows, by the abstract invariant), `Counted`
(`UsedCounted`), `Worn` (`WornWasHeld`), `FewNamesakes` (`NameOvershoot`). `Shape`
says what a transaction knows while it holds the row: that what it read is what
the row says. `CountedRow` then turns the column into the number of profiles, and
`WrapAdds` shows that adding wraps around at most once and is undone by
subtracting, so that the log entry, computed backwards, is right although the
sum may overflow. For the names, `NamesBounded` counts the profiles that have a
name *or are about to get it*: a slot that finds a name free is one of as many as
give the name next, and those slots are all there are.

`SessionsProofs`: `AskedOnce` (`AskedOnlyWhenMissing`) and `FewAnswers`
(`YesOvershoot`). The invariant says that a slot between `Lock` and `Unlock` is the
holder of its name's mutex, and that from the second look into the cache on
nothing valid under its name is there, since whoever stores under that name would
hold the mutex; and that the answers given for a session and the slots that may
still answer with it are together at most the slots.

`UsersProofs`: `CachedAfterRow` (`CopyHasRow`); and, assuming `Serial` and
`~Faults`, `CopyAgrees` (`Coherent`) and `PasswordOnlyChanged` (`PasswordKept`).
`Fresh` says for each step of the one request that serves a user how row, copy
and what it is about to save relate: HSET makes the copy agree although it
deletes no field, as the copy has no password the row has not.

`IssueProofs`: `RowsHaveFiles` (`FilesMatchRows`, assuming `~Faults`),
`FewAttachments` (`AttachmentOvershoot`, for a set of slots that is not empty),
`NeverAhead` (`NothingAhead`), and, when at most one slot changes statuses
(`OneStatus`), `ClosedIsStamped` and `OnlyTransitions`
(`StatusFollowsTransitions`). `FileKnows`: a slot that has uploaded a file is the only one
that knows it, and one that deletes a file has deleted its row. `BoundInv`
counts the attachments together with the slots about to add one. `Changes`: the
row a status request has checked is still the row. `AheadInv` adds to
`NothingAhead` that the history holds the status of the row and what the slots
that are to fill the cache have read; since the history only grows (`Recorded`)
what they have read stays in it, whoever changes the row meanwhile.

Only model-checked: every liveness property (`RequestsEnd`, `StaleEntryGoes`,
`TokenCopyGoes`, `SignedOutGoes`, `StaleCopyGoes`): fairness and ENABLED are out of
TLAPS's reach here. All invariants, action properties and refinements of the
passing runs are proved. Nothing in the modules is recursive, so no proof needs
induction over data.

## 12. What does not hold

One run expects a violation: `LibrarySkinUpdate` finds that no update of a skin
ever succeeds. The hook `entity/skin_library.go:48` validates a model that a map
update does not carry (see `findings` in `PROJECT.json`).

Other disagreements with comments and documents, met while modelling; the
conditions of the properties above are there because of them:

* Upload, gift, delete, upload again leaves a Normal association without a
  charge: the idempotent branch at `repository/txn/library.go:112` creates it.
* Two overlapping deletions of one record give back two places
  (`repository/txn/library.go:304`). A deletion reads the visibility before it
  waits for the quota row and may give back a place of the wrong kind; a rename
  may write back a visibility read before another update
  (`logic/library.go:873`). A revocation checks that an association is a gift and
  deletes it by user and record, and may delete a Normal one in its place.
* The owner's deletion removes the file of a record that others keep
  (`logic/library.go:671`).
* `repository/game_token.go:213` says that the oldest token is revoked: one login
  at the limit revokes every valid token, as PostgreSQL's UPDATE has neither
  ORDER BY nor LIMIT. `repository/txn/game_token.go:120` says that the limit
  holds under concurrency; line 146 counts without a lock, so logins that overlap
  exceed it, and what is refreshed while a login waits for its locks escapes the
  revocation (section 10). A login whose binding fails hands out a
  token it has invalidated (`logic/yggdrasil/auth.go:135`).
* Two administrators who change a status at a time can reopen a closed issue
  (`logic/issue.go:629`).
* `logic/user.go:87` says that a synchronisation leaves the local columns as they
  are; it saves the whole row it read before (`logic/user.go:111`,
  `repository/user.go:108`), and undoes a change of password in between.

## 13. Not modelled

* Reading operations (lists, details, URL resolution, batch lookup of names),
  formatting, validation of names and images, signing, mails about replies.
* The request layer: handlers, routes, middleware and gRPC parse, dispatch and
  check roles, and keep no state. What they let through is `Arrive` in the
  modules; those lines of handlers are in the map.
* The rate limiter: one counter per user name and no state but Redis's. Its
  hazard (EXPIRE lost after INCR) is listed without a property: no check in the
  code excludes it.
* Start-up (migration, roles, the RSA key files): I/O before any request. A crash
  between truncating and writing a key file is listed as a hazard.
* The texture upload of the Yggdrasil API answers 501; the synchronisation of mod
  files (`logic/sync.go`) walks a directory; generated code (`docs`, `proto`).
* Several processes of the server: they would share the database and Redis,
  which the slots do too, but not the mutex of the Mojang lookups.
* A hazard of the library without a property: two users who drop the last two
  associations of a record at a time leave an orphan record, which no document
  rules out.
