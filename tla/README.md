# finance-track-back: specifications, model checking and proofs

`finance-track-back` is the back end of a personal-finance tracker: a NestJS
application over PostgreSQL (Prisma) with accounts, device sessions, groups that
share their members' categories, invitations, categories, operations and
statistics. Its processes keep no state; everything is in the database, and the
handlers of concurrent requests meet only there. Most handlers read, check and
write in separate statements without a transaction (PostgreSQL's default, READ
COMMITTED), so what a handler checked may be false when it writes. That is what
the tests, which send one request at a time, do not reach and these
specifications are about.

## Inventory

| Component | State it keeps | Operations | What is hard | Module |
|---|---|---|---|---|
| Device sessions (`auth.service.ts`, `auth.repository.ts`, `lib/refresh-token-hash.ts`, JWT strategies) | `RefreshToken`: one row per (account, device), the hash of the last refresh JWT | register, login, refresh, updateProfile, logout, revokeSession, resetPassword, deleteAccount | delete-then-create in two statements; the same token rotated twice; sessions ended while a rotation is in progress; lost replies; failures half-way | `Sessions` |
| Cookies (`auth.controller.ts`, `lib/auth-session-cookies.ts`, cookie extractors of the strategies) | the browser's two cookies | set by what mints tokens, cleared by logout and deleteAccount | tabs share them; answers arrive in any order | `Browsers` |
| Registration, credentials, email tokens (`auth.service.ts`, `email-token.service.ts`, `user.service.ts`) | `User`, `EmailToken` | register, verify, resend, forgot, reset, change password, change email, delete the account | five writes of registration without a transaction; one link used twice; two links alive; links for two addresses | `Credentials` |
| Groups, members, invitations (`user-group.service.ts`, `user.service.ts`, their repositories, `AuthService.deleteAccount`) | `UserRelationGroup` (creator), `UserRelationGroupUser`, `Invitation` | create, invite, answer, remove a member, rename and remove the group, hand over on account deletion | permissions and statuses checked on rows read earlier; groups and accounts deleted meanwhile; acceptance in two writes | `Membership` |
| Group categories and maps (`user-group.service.ts` 264-421) | `GroupCategory`, `PersonalCategoryMap` | create, update, delete a group category, connect, the founder's first categories | two unique constraints per map row; connect racing removals; types checked before the write | `Ledger` |
| Categories (`category.service.ts`) and operations (`operation.service.ts`) | `Category`, `Operation` | create, update, delete | the type of a category changes after an operation or a map relied on it; foreign keys that restrict or cascade | `Ledger` |
| Statistics and lists (`getStatCategories`, `getUserGroupStat`, `getOperations`, `getUserGroupOperations`, `getOperationById`) | none | sums and shares, lists by days, who sees what | amounts at and below zero; joins that count twice; two queries that must agree | `Reports` |
| Backup scripts (`scripts/`) | dump files | dump, rotate, check freshness, restore, verify | a failed dump under `pipefail`; rotation when dumps keep failing; files named by a local time, which two runs may share; dumps cut short that restore without an error | `Backup` |
| Rate limits, other controllers, DTOs, mail, i18n, swagger, health, deployment, seeds | none of their own | | | |

How they interact: controllers call services, services call repositories or
Prisma. `UserService.updateInvitation` calls `UserGroupService.addToGroup`;
`UserGroupService.create` and `connect...` read `CategoryService`;
`AuthService.deleteAccount` writes the tables of every component in one
transaction; registration writes accounts, categories, email tokens and sessions.
All other interaction is through shared rows, their foreign keys and unique
constraints.

What makes each correct: a device has at most one session, loses it only by an
act that ends it, and no ended session comes back; a browser that waits for its
answers holds the token stored for it; an email token works once, and an address
counts as verified only after a link sent there was used; a group has a creator
who is a member, members were invited and joined, an answer to an invitation
follows the transition table, no row refers to one that is gone; a map and an
operation belong with their category to one account and agree with its type, and
nothing is counted twice; statistics and lists show the same sums; unless two
runs take one name, rotation leaves the last good dump or a newer one, and a
verified dump brings back every row of the application's tables.

`PROJECT.json` lists the hazards behind these sentences, each at its line with the
properties that would notice it.

## Modules

| Module | What it is |
|---|---|
| `SessionSlots` | abstract: what the `RefreshToken` table promises (one session per device, opened in an empty slot under a fresh token, ended alone or with all of the account's) |
| `Sessions` | the handlers that write `RefreshToken`, one action per statement; the refinement mapping to `SessionSlots` |
| `Browsers` | `Sessions` composed with browsers: cookies, tabs, answers received in any order |
| `Credentials` | the handlers that write `User` and `EmailToken`, one action per statement; links that expire |
| `Membership` | the handlers that write groups, memberships and invitations, one action per statement or transaction |
| `Books` | abstract: what the tables of categories, group categories, links and operations promise, whichever handler writes them |
| `Ledger` | the handlers that write those tables, one action per statement or transaction, with their stale checks; implements `Books` |
| `Reports` | the queries that read those tables, as pure operators over every state of `Books` |
| `Backup` | the four shell scripts, dump files and the loss of the database |
| `MCSessions`, `MCBrowsers`, `MCCredentials`, `MCMembership`, `MCLedger`, `MCReports`, `MCBackup` | instances for TLC |
| `SessionsProofs`, `BrowsersProofs`, `CredentialsProofs`, `MembershipProofs`, `BooksProofs`, `LedgerProofs`, `ReportsProofs`, `BackupProofs` | the theorems about each, with their proofs |

`Browsers` extends `Sessions`; `Ledger` instantiates `Books` on its own tables and
`Reports` extends it; `Sessions` instantiates `SessionSlots`. A module of proofs extends
the module it is about; `BrowsersProofs` also extends `SessionsProofs`, whose theorems
it uses. `Sessions`,
`Credentials`, `Membership` and `Ledger` each show the others' part of a shared
handler as one step or leave it out: `deleteAccount` deletes sessions in
`Sessions`, links in `Credentials`, groups in `Membership`; registration's
session in `Sessions`, its account, categories and link in `Credentials`.

### Time and atomicity

A request `r` is served once. Its arrival (`Send`, `Ask`) includes the first
statement of its handler, or all the reads before the first write when only the
last of them matters; every later statement is an action of its own that moves
`pc[r]` on. Between two statements any other request may run. A single SQL
statement is atomic, a `$transaction` whose statements only write is one action,
because nobody sees what it has not committed and the rows it writes are locked:
a concurrent insert that would violate its foreign keys makes one of the two fail,
which `Abort` includes. The one transaction that reads before it writes,
`deleteAccount`, is two actions in `Membership` (`DeletePlan`, `DeleteCommit`),
as what others commit between its statements is visible to the later ones. Reads
that follow one another before a write are one action, at the point of the read
the write depends on. Deadlocks and write conflicts between two transactions are
an `Abort`.

`Abort` may stop a request between any two statements: a statement that fails, a
lost connection, a killed process. `Save` may end in `lost`: the row is there,
the client never got its token. `before[r]`, the requests answered when `r` was
sent, is a history variable; it lets the properties say "sent after" and
"overlapping", and no guard reads it. The same holds of `owed`, `seen`, `opBy`,
`linkBy` and `verified`.

### Sessions

`slot[<<u, d>>]` is the row of device `d` of account `u`: the token whose hash it
stores. A refresh JWT contains a random `jti`, so the token that request `r` mints
is unlike any other and is named `r`; the row's random id is named by it too
(`RefreshDelete` deletes by the id read earlier, so a row written since survives).
Hashing is equality of tokens. A client can show the token of any request whose
reply it received (`Holds`), old ones included. Access JWTs are the same cookies:
`Profile`, `Logout`, `Revoke` and `DeleteAccount` are authorised without looking
anything up, as in `jwt.strategy.ts`. JWT expiry is left out: an expired token is
refused by the guard and an expired row is never deleted, so time adds only
refusals. Password, names and email are left out: requests refused for them
change nothing. A name taken concurrently is the refusal in `ProfileUpdate`.

### Membership

`group`, `creator`, `members`, `status` are the rows of the three tables,
`maps[g]` the users with at least one `PersonalCategoryMap` row in `g`. An
invitation is named by the request that wrote it and its recipient. `Sees` is the
filter of `getUserGroupById`, on which every permission rests. The unique indexes,
the partial one on unanswered invitations, foreign keys and cascades appear as
guards and effects of the write actions. `plan[r]` is what `deleteAccount` read
inside its transaction. The groups in the initial state may have any members: they
stand for histories before the model starts.

### Browsers

`jar[d]` names the request whose two JWTs browser `d` holds. `Ask` sends a request
with the cookies of that moment, `Serve` is any step of `Sessions`, `Receive` is
the arrival of an answer: cookies are set when the service returned tokens and
cleared by logout and deleteAccount, and an exception leaves them alone, even the
401 of a refused refresh. A reply that `Sessions` lost is never received. The
bearer header carries the same access token and adds nothing; the cookies' ages
are left out as the JWTs' are.

### Credentials

`user[u]`, `token[r]` and `session[r]` are the rows of `User`, `EmailToken` and
`RefreshToken`; account, link, session and password are named after the request
that wrote them. `mailed[r]` is the address the link went to: mail is sent without
being awaited, so the link may be used from the moment its row exists (or never),
by anybody, any number of times, after it expired (`Expire`, at any moment).
`Known` is `findValidToken`, which looks up the row whose JWT verifies; an expired
one is deleted on use. The effect of a link (`UseWrite`), its deletion
(`DropToken`, a `delete` that raises when the row is gone) and the purge of the
sessions (`PurgeSessions`) are three statements. Registration is five. Names are
left out: they are unique and checked exactly as addresses are.

### Books and Ledger

`Books` has a step per row-changing statement, guarded by nothing but the schema
(unique indexes, foreign keys that restrict or cascade) and the `where` clauses of
the repositories. `Ledger` has the handlers: a check on what was read, then the
write, whatever is true by then, with the outcome the code gives it: `done`,
`rejected` (404, 400 or 403), `conflict` (409) or `failed` (an exception nobody
maps, a 500). The insert or the update meets the unique indexes again; a delete of
a category meets the operations that refer to it. `createGroup` is three
statements (the group, the read of the founder's categories, one transaction that
copies and links them). `connect` is one transaction that first deletes the links
to be cut, those of every category in the payload included, and then upserts.
`to[k]` is its payload. Names matter only by equality and by `toLowerCase`.
Group names, colours, icons, comments are left out, amounts and dates are in
`Reports`. A behaviour may start from any of the states `Start` lists that the
program can be in: the tables agree (`B!Init`), groups that are gone left nothing
(`GroupsOK`), and no type has been changed yet (`TypesAgree`).

### Reports

The state is that of `Books`; amounts and dates stay with an operation's id. The
operators are the queries: `PersonalStat`, `GroupStat` with its joins, the lists
with their filters, `ByDate`, which splits an ordered list into days, and
`Visible`, which decides who may read one operation. Shares are rounded down
where the code has decimals.

### Backup

A run `r` of `backup-db.sh` writes to the file named `stamp[r]`, a local time in
seconds. Two runs have one name when they begin in the same second or in the hour
that comes twice when the clock is set back: `Start` may take a name whose other
runs began at most `Repeat` ticks ago, and cuts their file to nothing, as the
shell does. `file[n].by` are the runs that wrote to the file since it was made,
`last` is the one that wrote last; what a run writes after its file was deleted is
lost, and `Check` looks at the file that has the name by then. The pipeline grows
the file (`WriteBlock`) and ends well or not (`Dump`, `DumpFails`). A file that two
runs wrote at once is a mixture, which `gzip -t` refuses (`torn`), or holds what
the last of them wrote; `DoneIsKept` and `VerifiedHoldsRows` name it as their
exception (`Shared`).

`FilePart` says how far a dump goes, in the order `pg_dump` writes it: to the end;
over the rows of the application's tables and at least one of `_prisma_migrations`,
the last table by name; less; or the file is too small, or its gzip stream
damaged. `Restored` is what `psql` may leave of it in an empty database: it ends a
`COPY` at the end of its input, so a cut file restores without an error unless the
cut splits a row. `MigrationsCounted` therefore holds of every dump that reached
`_prisma_migrations`. `Migrate` is the service of `docker-compose.yml` that writes
a row there even when the tables exist. Time is in ticks, `Day` of them to a day.

## Runs

`CHECK_DEADLOCK FALSE` wherever requests (or runs of a script) are used up: when
every one is answered the model, not the system, is over. Sets whose members are
only compared for equality are symmetric; the run with a liveness property uses
no symmetry. The number of requests bounds every behaviour. Some runs have a
`CONSTRAINT` that lets a further request in only where the behaviours are few; it
cuts behaviours at their end and hides none of the shorter ones.

| Run | Instance | Shows |
|---|---|---|
| `sessions_all` | 2 accounts, 2 devices, all operations; 3 requests, 4 when they are about one account and no other exists (`Few`) | `TypeOK`, `SessionNotLost`, `ConflictNeedsOverlap`, `RowsHaveOwners`, `NoRefreshAcrossEnd`, `NoReplayAfterRotation`, the refinement `TableSpec`. Four requests are a session, a rotation, an end and a replay, or a login between two rotations; two accounts, so that a deletion can hit the wrong rows |
| `sessions_live` | 1 account, 2 devices, 3 requests, without the resets and deletions | `GapCloses` |
| `browsers_all` | 2 accounts, 2 browsers, all operations but registration; 3 requests, 4 from the tabs of one browser (`Few`) | `NoFalseAlarm`, `CookiesRefresh`, `GoneAfterLogout` |
| `credentials_all` | 2 addresses, an account registered before, with its link and session, and 3 more requests, all operations | `TypeOK`, `TokenSucceedsOnce`, `ResetEndsSessions`, `TwoTokensByOverlap`, `FailsByOverlap`, `VerifiedEmailWasProven`, `IncompleteByFault`. Three more requests are the verification, a change of address and its confirmation, or a link, its use and its second use |
| `membership_all` | 3 users, 1 group, 3 requests; the operations of one of three kinds (`Mixed`): invite, answer, remove a member; invite, answer, remove the group, delete an account; create, remove a member, connect, delete an account | `TypeOK`, `CreatorLostByOverlap`, `StrayMapsByOverlap`, `AcceptedHaveJoined`, `AnswersFollowTable`, `ReferencesHold`, `JoinNeedsInvitation`, `GroupsOutliveCreators`. The group may start with any members, so no request is spent on a history; three users are a creator, an heir and a stranger. Longer histories, such as an invitation answered three times, are left to the theorems, which cover all eight properties |
| `ledger_all` | a household of two with a group, links and an operation, a spare id of every kind; any 2 requests of all 14 operations | `TypeOK`, `CreatedGroupIsFilled`, the refinement `BooksSpec` |
| `ledger_links` | the same household; 3 requests that draw, retype and undo links and references | `TypesDifferByRetype`, `FailsByOverlap`. Three, because a stale link needs two drawings of it and a change, and a 500 two requests and what they meet |
| `reports` | 2 accounts, 2 groups, 2 categories of each kind, 3 operations of amounts 5, 2 and -3 on two days, from empty tables on | `RowsAgree`, `StatMatchesList`, `GroupSumsItsMembers`, `StatGap`, `DaysPartition`, `SameVisibility`, in every reachable state of the tables |
| `backup_all` | 2 runs and the loss, migration, verification and restoring of the database, and a third run while none of these happened (`Mixed`); 3 names, taken again within a tick; 5 ticks, 2 to a day, files kept a day | `DoneIsKept`, `FooledByFailureOnly`, `VerifiedHoldsRows`. The clock reaches the age at which a dump is deleted behind a younger one, and three names let every run have its own |

Each property has a mutant in `PROJECT.json`: a plausible bug in a definition,
written above it in the module, that breaks the property in the same instance.

Disagreements between the repository and its code are runs expected to fail, each
with a shortest counterexample:

| Run | What the repository says | What happens |
|---|---|---|
| `membership_creator` (`CreatorIsMember`) | controller: "Cannot remove the group creator" | the member becomes the creator between the check and the removal |
| `credentials_group` (`RegistrationTakesGroup`) | DTO: a registration may have a group id | the categories have no such column: a 500 after the account was stored, and the address is taken |
| `backup_failed` (`FailedDumpDeleted`) | `BACKUP_GUIDE.md`: a failed dump is deleted | `pipefail` ends the script before the lines that delete it |

Further sentences of the repository hold only up to a race or a history that the
passing properties name; the model has the behaviours that break them:

| What the repository says | What happens | What does hold |
|---|---|---|
| e2e test "rejects reused refresh token" | two refreshes that overlap can both succeed with one token | `NoReplayAfterRotation`: not with one sent after the other was answered |
| e2e test: no refresh token is left after a reset; `docs/TECH_DEBT.md`: logout and revoke delete the refresh token | a login or refresh in progress stores its row afterwards | `NoRefreshAcrossEnd`, `ResetEndsSessions` |
| `docs/TECH_DEBT.md` and an e2e test: removing a member deletes the maps | a connect checked before the removal writes after it | `StrayMapsByOverlap` |
| error text "Operation type must match the category type" | `updateCategory` changes the type and looks at no operation | `TypesDifferByRetype`: by the change that gave the category the type it has, made later or at the same time |
| `backup-db.sh`: "Done" | a second run takes the same name, cuts the dump to nothing and fails | `DoneIsKept`: until two runs take one name |
| `verify-backup-restore.sh`: "OK: restore verified" | a dump cut after the first row of `_prisma_migrations` is verified, without the rest of that table and the indexes and keys after it | `VerifiedHoldsRows`: the rows of all other tables are there |
| unit test "deletes existing tokens of the same type before creating" | two requests both delete before either creates | `TwoTokensByOverlap`: only then are two links of a kind alive |
| controller: 409 "Category already exists" | default categories keep their capitals, so `food` can be created beside `Food` | no property; `Lower` and the unique index are in `Ledger` |

### Fairness

Only `GapCloses` needs fairness. `FairSpec` says that a request whose handler is
running eventually takes its next step or aborts: the database answers or the
driver raises. Nothing is assumed about clients: a request never sent, and a login
never retried, are behaviours of `FairSpec`.

## Proofs

Every invariant and refinement of a passing run is also a theorem, for every set of
accounts, devices, groups, requests, categories, operations, files and amounts. The
theorems assume what the modules assume of their constants, and nothing else:

| Assumption | What it says |
|---|---|
| `OpsAssumption`, `FirstAssumption`, `OldAssumption` | the operations are among those the module names, registrations before the start are requests, rows before the start are named unlike requests |
| `NoneAssumption`, `NoRowAssumption`, `RowAssumption`, `FilterAssumption` | `None` is no id, row, file, run, name or value of a filter |
| `IdsAssumption` | an id (a UUID) is of one table only |
| `LowerAssumption` | `toLowerCase` twice is `toLowerCase` |
| `FiniteAssumption` | tables are finite: of `Ledger`, there are finitely many group categories to copy to; of `Reports`, finitely many rows to sum |
| `MemberAssumption`, `AmountAssumption`, `DateAssumption`, `ClockAssumption` | types of the constants; a day has a length above zero, and a local time may come again after any time |

How the proofs about handlers are built: handlers have many statements that do few
different things, so a first lemma (`StepEffects`, `StepCases`, or one lemma per write)
shows that every step of a request has one of a few named effects (a session is opened,
sessions go; a link is inserted, a group is founded, an answer is written, ...) and every
invariant is then proved of the effects. `Basic` is what all of them need: `TypeOK`, the
shape of a request at each of its statements (`ShapeOK`: what it still knows of the rows
it checked, whatever became of them) and that histories contain answered requests only
(`BeforeOK`).

| Theorem | Property | What the property needs to become inductive |
|---|---|---|
| `TypeCorrect` | `TypeOK` of `Sessions` | `ShapeOK`: without it a statement could run for a request of another kind |
| `OwnersAlways` | `RowsHaveOwners` | `Basic` |
| `RefreshNeverCrossesEnd` | `NoRefreshAcrossEnd` | a session stored before the request that ended it was sent has no row any more (`EndedRowsGone`), so a refresh that passed its comparison does not show such a token (`ComparedIsCurrent`) |
| `ReplayIsRefused` | `NoReplayAfterRotation` | a token being rotated is out of the table from the delete on (`RotatedGone`), so no later refresh passes its comparison with it (`ComparedIsNew`) |
| `SessionNeverLost` | `SessionNotLost` | accounts of owed devices live (`OwedLive`) |
| `LoneRequestNeverConflicts` | `ConflictNeedsOverlap` | the row a handler may find in its way was stored by a request not yet answered when the handler was sent (`Contended`) |
| `ImplementsTable` | `TableSpec` | `RowsHaveOwners`: initial states map to initial states, every step to a step of `SessionSlots` or a stutter |
| `TypesHold` | `TypeOK` of `Membership` | `ShapeOK`, and that an invitation was written by a request to invite (`WrittenOK`) |
| `ReferencesAlways` | `ReferencesHold` | a deletion that found its groups has not found the account itself as heir (`PlanOK`) |
| `AtMostOneUnanswered` | `OneUnanswered` | `Basic` |
| `CreatorLostOnlyByOverlap` | `CreatorLostByOverlap` | what a removal (`KickingOK`) and a deletion (`HeirOK`) in progress still know of the group, or which request made it untrue |
| `StrayMapsOnlyByOverlap` | `StrayMapsByOverlap` | who connects is a member or was removed meanwhile (`ConnectingOK`) |
| `AcceptedJoined` | `AcceptedHaveJoined` | the acceptance in progress has joined (`AcceptingOK`), the one written was given by a request (`AcceptedOK`) |
| `AnswersFollow` | `AnswersFollowTable` | an answer that no other overlapped is still there, or cancelled, and who answers later has read it (`AnsweredOK`) |
| `NobodyJoinsUninvited` | `JoinNeedsInvitation` | `ShapeOK` |
| `GroupsOutlive` | `GroupsOutliveCreators` | the members of a group found without heir joined since (`LatecomersOK`), and `PlanOK` |
| `ImplementsSessions` | that `BrowsersSpec` implies `Spec` of `Sessions`; in no run | `BrowserTypeOK`; what browsers do is a step of `Sessions` or leaves its variables alone |
| `GoneAfterLogoutAlways` | `GoneAfterLogout` | cookies were set by a request sent no earlier than any answer received since that changed them (`LatestCookies`) |
| `NoFalseAlarmAlways` | `NoFalseAlarm` | a row that took the place of another was stored by a request not yet answered when the other was sent (`LatestRow`); a token taken for a stolen one was shown by a browser with two requests on their way (`Alarmed`) |
| `CookiesRefreshAlways` | `CookiesRefresh` | the same two, and `OwedInv` of `SessionsProofs` |
| `TypeCorrect` of `CredentialsProofs` | `TypeOK` of `Credentials` | `ShapeOK`: what a link belongs to and where it was mailed does not change |
| `IncompleteByFaultAlways` | `IncompleteByFault` | an account exists from its registration's first write on, and is complete from its second on (`Registered`) |
| `TokenSucceedsOnceAlways` | `TokenSucceedsOnce` | a link whose deletion succeeded is gone for good (`SpentOnce`) |
| `ResetEndsSessionsAlways` | `ResetEndsSessions` | `Basic` |
| `TwoTokensByOverlapAlways` | `TwoTokensByOverlap` | who is past the statement that deletes older links left none of the requests answered before (`Cleared`) |
| `VerifiedEmailWasProvenAlways` | `VerifiedEmailWasProven` | an account that is not verified still has the address it was registered under, and a link sent again was sent there (`Unproven`, `ResentThere` in `Addressed`), so the link that verifies it was mailed to its address |
| `FailsByOverlapAlways` of `CredentialsProofs` | `FailsByOverlap` of `Credentials` | a request whose account or link is gone was overlapped (`FaultsMeet`) |
| `RowsAgreeAlways` | `RowsAgree` of `Books` | `TypeOK` (together `Consistent`, `ConsistentAlways`): an operation's or a link's owner is an account, so a row that keeps its owner keeps what refers to it |
| `TypeCorrect` of `LedgerProofs` | `TypeOK` of `Ledger` | `B!RowsAgree`, `ShapeOK` (rows a request checked keep their owner, their group and the id nobody else is given) and `HistoryOK` |
| `ImplementsBooks` | `BooksSpec` | the same: every write maps to a step of `Books` or a stutter, also when the row checked is gone |
| `FailsByOverlapAlways` of `LedgerProofs` | `FailsByOverlap` of `Ledger` | what could make the write of a running request raise is absent, or another request ran meanwhile (`RunsClear`) |
| `CreatedGroupIsFilledAlways` | `CreatedGroupIsFilled` | a one-to-one map from the categories read to those of the group (`Filled`) |
| `TypesDifferByRetypeAlways` | `TypesDifferByRetype` | a request yet to write compared the types, so if they differ now one was changed since, by a change to the type it has now (`TypesChecked`) |
| `StatMatchesListAlways`, `GroupSumsItsMembersAlways`, `StatGapAlways`, `SameVisibilityAlways`, `DaysPartitionAlways` | the properties of `Reports` of these names | `Consistent` of `Books`; the last two hold of any tables |
| `DoneIsKeptAlways`, `FooledByFailureOnlyAlways`, `VerifiedHoldsRowsAlways` | the properties of `Backup` of these names | `Safe`: who wrote to a file bears its name, and times agree with the clock (`NamesOK`); what a file can hold by where the runs are that wrote to it (`PartsOK`); what was verified would be found good again unless its name is shared (`VerifiedOK`) |

`BooksProofs` has one lemma per step of `Books`, each of which preserves
`Consistent`; `LedgerProofs` uses them through `ImplementsBooks`'s mapping, and
`RowsAgreeAlways` there says of the handlers what `BooksProofs` says of `Books`.

Sums, shares and lists by days are folds over sets and sequences. `ReportsProofs` proves
what they compute by induction over finite sets: the induction theorems of the library
take an operator, but that set inclusion is well founded on the subsets of a finite set,
and that every set has a minimal element then, are first-order facts, from which
`SetInduction` follows: a set of sets that has `T` whenever it has every `T \ {x}` has
every finite set. With it the recursion behind a fold is shown to have exactly one
solution (`AddsExists`, `AddsUnique`; `PutsExists`, `PutsUnique`). From there sums are
taken apart (`SumTake`), renamed along a one-to-one map (`SumRename`) and split along
disjoint sets (`SumUnion`, `SumParts`), and a list by days is followed one operation at a
time (`SplitNext`). A category is linked to one category of a group at most and an
operation's category is one account's, which makes the joins one-to-one (`JoinedOnce`).

The inductive invariants were checked by TLC on small instances before they were
proved. `OneUnanswered` is in no run: the theorem covers every instance.

What an overlap is in these proofs: a request in progress is in nobody's history
(`BeforeOK`), so two requests in progress at one time overlap for good. This is
what turns "stale when written" into "some request overlapped".

Only model-checked: `GapCloses`, because liveness under fairness is out of the
prover's reach. The runs expected to fail have nothing to prove. That the models have
the behaviours the theorems speak of, failures and overlaps included, is what the runs
show: every action is taken, and every property has a mutant that breaks it.

## Not modelled, and the plan

Left out for good: the other controllers, DTO validation, guards, swagger, health,
i18n, mail (stateless, or output nobody waits for), rate limits (a library's),
seeds and deployment files. Reading queries without a rule of their own (lists of
groups, categories, invitations, sessions) change nothing and are left out, and
so is the mark that an invitation was viewed, which nothing reads.

Without a property, because the repository does not say what is intended: a reset
link mailed to an address stays valid after the account changed its address
(`Credentials` has both steps); a dump of a database that was emptied counts as
good, and a week later those with data are rotated away (`Backup` has both); the
shares of the statistics (`Reports` computes them from the sums, and the code says
nothing of what they add up to when amounts are not all positive).

Next, in this order:

1. An abstract life cycle of an invitation (pending, answered, answered again or
   cancelled) that `Membership` implements, as `Sessions` implements `SessionSlots`.
2. `Reports` read off the tables of `Ledger` instead of `Books`: the theorems already
   hold of every consistent state, and `LedgerProofs` shows every state consistent; a
   module that composes the two, with the members of a group as a variable of
   `Reports` too, would say it in one theorem.
