# A verification project for shorthair

shorthair runs *spars*, practice debates of a debating society: members sign up, a draw is
generated by an integer program, an organiser edits, confirms and releases it, judges receive
links by e-mail and submit ballots, and the ballots feed the ratings that the next draw uses.
It is a Rocket server over one SQLite database. The modules in this directory model the life of
a spar, the accounts and members around it, the transactions and connections it is built on, and
the model-based test that the repository tests itself with. TLC checks them on small instances,
and TLAPS proves the properties that matter most for every size.

## 1. The system

### Components, their state and their operations

| Component | Source (below `src/crates/`) | State | Operations |
|---|---|---|---|
| Sessions of a series | `main/src/spar_generation/spar_series/admin_routes.rs`, `individual_spars/{admin_overview,complete_spar}.rs`, `draw_management/release.rs` | table `spars`: `is_open`, `release_draw`, `is_complete` | start, open or close sign-ups, release or withdraw the draw, mark complete |
| Sign-ups | `individual_spars/signup_routes.rs` | table `spar_signups` | insert or update one's row |
| Draw generation | `draw_management/generate.rs` | table `draft_draws`, a blocking task, an async task | request; solve; store |
| Speaker allocation | `allocation_problem/solve_allocation.rs` | none | the integer program and the rooms read off its solution |
| Draft edits | `db/src/draft_draw.rs`, `draw_management/draft_management.rs` | `draft_draws.data` (JSON) | `swap a b`, `remove a` |
| Confirmation | `draw_management/confirm_draft.rs` | `spar_rooms`, `spar_adjudicators`, `spar_teams`, `spar_speakers`, `spar_adjudicator_ballot_links` | delete the rooms of the spar (everything below cascades), insert those of the draft |
| Ballots | `spar_generation/ballots.rs`, `db/src/{room,spar,ballot}.rs` | `adjudicator_ballots`, `..._entries` | submit; two queries for the canonical ballot |
| Mail | `email/src/lib.rs` | tasks in memory, `emails` (a log) | send in the background |
| Transactions | `main/src/util.rs`, `db/src/lib.rs` | the database, ten pooled connections | deferred transaction per handler |
| Ratings and results | `allocation_problem/{ratings,results}.rs` | none, computed from ballots | `compute_scores` inside every `generate_draw`; a page |
| Connections | `main/src/lib.rs` (`make_rocket`), `db/src/{lib,user}.rs` | the pool, its queue | request guards `DbConn` and `User`, leases, a timeout of five seconds |
| Members, join requests | `spar_series/admin_routes.rs` | `spar_series_members`, `spar_series_join_requests` | add, request, approve, set e-mail |
| Accounts | `main/src/auth`, `main/src/admin`, `db/src/user.rs` | `users`, `magic_links`, `account_invites`, `config`, the login cookies | set up, register, log in with a password or a link, log out, change password, switch registration, invite, accept |
| Groups, permissions | `main/src/{groups,permissions}.rs` | `groups`, `group_members`, `spar_series` | create a group, create a series; `has_permission` guards every handler |
| Model-based test | `main/src/model/{mod,model}.rs` | the vectors of `State`, the test database | eleven actions, each taken by the model and by the application; comparison; reset; beside them the draws that the application goes on solving and storing |
| Slides, UI, tracing | `slides`, `ui`, `trace-request` | none | rendering, logging |

### How they interact, and what is hard

* Handlers share nothing but the database. Each runs in one *deferred* SQLite transaction
  (`conn.transaction`), so two handlers may read the same snapshot and the second to write fails.
  That handlers are atomic is a fact about this protocol and not an assumption: section
  4.1 checks and proves it.
* `generate_draw` is split: the request reads the sign-ups and inserts a draft without data; a
  blocking thread solves; a third transaction stores the result. Anything may happen in between,
  the process may end, and a panic is noticed by nobody.
* A draft outlives the sign-ups it was made from, the edits made to it, and the release of the
  draw. Confirming one again deletes rooms with their links and ballots.
* Links are mailed by detached tasks before the transaction commits. Mail is late, lost or
  repeated, and a judge may use an old one.
* Two judges of a room submit independently. Timestamps are whole seconds; one query takes the
  oldest ballot and another the newest.
* Set-up, registration and invitations are three ways to an account, open at the same time, and each
  looks for the address in another column or spelling. A change of password compares with an account
  that was read before the transaction began.
* Connections are few. Rocket runs the guards of a handler in the order of its arguments, `DbConn`
  keeps its connection until the answer, and mails and solver tasks keep it for longer.
* The model-based test names rows by clamped indexes into vectors that it keeps beside the database,
  and compares only some of the columns. It takes one action after the other, but a draw it has asked
  for is solved and stored while it goes on, and the requests beside it may fail for that.

`PROJECT.json` lists each hazard at its line with the properties that cover it.

### What makes each part correct

* Sessions: one spar under way at a time; a released draw and open sign-ups exclude each other;
  sign-ups change only while they are open; completion is final.
* Drafts: nobody is drawn twice; everybody drawn has a sign-up; the solver's late answer does not
  overwrite an edit; what was asked for is drawn.
* Confirmed draws: rooms, links and ballots belong to the same confirmation; a mail never leads
  somebody to another judge's ballot; every ballot is for a full room.
* Ballots: what the ratings and the results read agrees unless a judge forced a ballot.
* Allocation: what the program allows is a legal draw, and the checks before it are sufficient.
* Transactions: the handlers are serialisable, and busy errors do not stop everybody.
* Connections: none is lost, only some handlers can wait for each other, and every request ends.
* Accounts: nobody shares a name or an address; closing registration closes it for the uninvited;
  nobody becomes a superuser later.
* Members: nobody shares a name or an address; approving one request does not spoil another.
* Model-based test: the model and the application do the same unless there is a reason for them to part,
  and what differs then, unnoticed, makes no later comparison wrong.

## 2. The modules

| Module | Models |
|---|---|
| `DraftDraw` | the data of a draft, the edits (`apply`, `find_loc`, `generate_map`, `lookup_idx`) |
| `SpeakerAllocation` | sign-up tables, the checks of `generate_draw`, the constraints of `solve_lp` as the set `PossibleDraws`, and the conditions in numbers under which it is not empty |
| `SparState` | the tables and background tasks as variables, row types, what handlers read |
| `SparRound` | one action per handler and per background step, and their properties; at the top, a faulty version of some handlers for mutation testing |
| `Sessions` | abstract: the phases of a session and its entry list |
| `SparClaims` | `SparRound` implements `Sessions`; progress; statements of comments, assertions and pages that the code does not keep |
| `DeferredTx` | transactions of SQLite as diesel uses them, for any handlers (`Effects`) |
| `SerialStore` | abstract: a store that serves one request at a time |
| `ConnectionPool` | the pool: request guards, leases, the queue, timeouts, tasks that outlive the answer |
| `Accounts` | set-up, registration, invitations, configuration, logins, links, passwords, groups |
| `Membership` | members of the series and requests to join, over the unique indexes |
| `Site` | `Accounts` and `Membership` composed: series are created in groups, and permissions decide who acts on members |
| `Handlers` | the nine handlers that the model-based test posts to, over the tables they write |
| `ModelTest` | the test: its own model of these handlers, clamped indexes, comparison, `sync`, reset, and the draws in progress beside it |
| `DrawProofs`, `AllocationProofs`, `SparRoundProofs`, `SparBallotProofs`, `DeferredTxProofs`, `ConnectionPoolProofs`, `SiteProofs`, `ModelTestProofs` | theorems |
| `MCSparRound`, `MCSpeakerAllocation`, `MCDeferredTx`, `MCSite`, `MCModelTest` | instances for TLC |

```
DraftDraw <- SpeakerAllocation <- SparState <- SparRound <- SparClaims <- MCSparRound
                    ^                                      |
                    +-- MCSpeakerAllocation             implements Sessions
DeferredTx <- MCDeferredTx          implements SerialStore
ConnectionPool                      (its cfg gives all constants)
Accounts, Membership <- Site <- MCSite
Handlers <- ModelTest <- MCModelTest
```

The modules meet where the components do. `SparRound`, `Site` and `Handlers` take each handler as
one step, which `DeferredTx` justifies; the effects of `DeferredTx` are arbitrary, so any of them
may be meant. `ConnectionPool` stands below both: a handler runs when it has its connection.
`Handlers` is a second, coarser view of some handlers of `Accounts`, `Site` and `SparRound`, over the
rows and columns that the test can see.

### Correspondence with the code

* **Tables are functions.** `spars[s]` is the row of spar `s` or `NoRow`; `signups[s][m]` the row
  of member `m` or `NoSignup`; `drafts[d]` a draft, whose `data` is `Null` until the solver has
  finished. `rooms[s]` is the confirmed draw of `s`, the content of `spar_rooms` and the tables
  below it, in order of insertion. `ballots[s]` are its ballots, in order of their ids.
* **Tasks are in memory.** `tasks[d]` is what runs for draft `d` (solving on a copy of the
  sign-ups, or holding rooms to store); `outbox` the mails handed to a task. `Restart` empties
  both and keeps the rest.
* **A handler is one action.** Its guard are the early returns of the handler and the `unwrap`s
  and assertions that end it. A request that is refused, or that panics, changes nothing and has
  no step, with one exception: `ReleasePanics`, whose mails are out before the roll-back.
* **Permission checks** hold for whoever acts: organisers act on spars and drafts, the holder of a
  mailed link on ballots (`SubmitBallot` takes its key from `inbox`; links are shown nowhere else).
* **A debate has `Teams`**, four in the code (`Og`, `Oo`, `Cg`, `Co`). The numbers 4 and 8
  of `generate_draw` and `solve_lp` are `Cardinality(Teams)` and `SpeakersPerRoom`, so that TLC can
  take smaller debates and the proofs hold for all of them. `RatedTeams` is the one definition that
  names a team, `"co"`, because `compute_scores` treats it differently.
* **The solver** returns any legal allocation. Its objective ranks them, and it may stop
  within 1.2% of the optimum, so no property may depend on which one comes out.
* **Short numbers** of the edit commands are names of members; `id_map` is the set of members that
  have one. It is not shrunk by `remove`,
  so a later swap of the removed member panics in `find_loc`; `EditPanics` is that case.
* **A uuid** of a link is `<<n, i, m>>`: the n-th confirmation, room and judge. It is fresh as long
  as confirmations are counted, which `confirms` does.
* **Time** is in whole seconds as `created_at` is: a ballot falls in the second of the last one or
  later. The five hours of a link are `LinksExpire`, for all links of one confirmation at once, as
  they are inserted together.
* **Members** and requests are the people themselves (series, name, e-mail), since both tables
  keep them apart by these columns. Inside `SparRound` members are given and do not change, as none
  is ever deleted and only their identity matters there. `Site` adds who may act: organisers of a
  series are those with signing power in its group, of which only the creator ever is one. An
  approval looks the request up by its id alone, while the permission is on the series of the URL,
  so the two need not be of the same series.
* **Accounts** are rows in order of their ids. Addresses are kept as they were typed and compared
  so; invitations keep them trimmed and in lower case (`Lower`). An invitation is known by its
  address, because a second one for it repeats the code and the rights of the first; a magic link is
  the account it logs in, and stays valid until it expires (`already_used` is never set). Browsers
  differ by their cookie.
* **A change of password** is two actions: the request guard loads the account (`LoadUser`), and the
  handler compares and writes later (`DoSetPassword`). Every other handler of `Accounts` compares
  within its transaction and is one action.
* **A request in `ConnectionPool`** is the sequence of its guards, in the order of the handler's
  arguments: `<<"db", "user">>` for those of `DbFirst` and `<<"user", "db">>` for others. `User` gives
  its connection back when the account is loaded, `DbConn` when the handler has answered and its tasks
  have ended. `TimesOut` fails a guard, or makes an `Option<User>` `None`.
* **The model-based test** takes each action on both sides in one step (`State::run`). An action that
  does nothing on either side has no effect: `SubmitBallot` is one, as no action confirms a draw and
  there are no rooms. The clamping is the code's own, also where it uses the length of another
  vector: the index of a spar is clamped to the number of sign-ups, and that of the series of a new
  member to the number of members.
* **Draws beside the test.** `generate_draw` answers while its draw is still being solved, and the task
  that stores it (`generate.rs:234-261`) keeps the connection of the request. `drawing` counts these
  tasks; `DrawEnds` is the end of one, stored or panicked, between any two actions, also of the next
  sequence. While there is one, any request that writes may be lost (`IsLost`): the store holds the write
  lock, or has committed between the first read and the first write of the request, which then fails as
  busy and panics at an `unwrap` (`DeferredTx` has the interleavings). The application changes nothing,
  nobody looks at the response, and `step_model` steps all the same. Logging in only reads; it is lost
  only if draws have all connections (`TimesOut`). `reset_db` runs on a connection without a
  `busy_timeout` and may fail too (`ResetFails`). The solver and the store themselves are actions of
  `SparRound`; here only their effect on the test's requests matters, and that a store needs the lock at
  some moment of the task's life, so a loss is possible as long as the task lives.
* **Scoresheets** are values that can only be compared; sheets that `do_submit_ballot` refuses
  (equal team totals) are not among them.

Left out of these handlers: in `SparRound`, members of another series (the code looks the member of a
sign-up up by public id only, and the forms offer members of the series; `Handlers` has it as it is in
the code); the forms and pages; hashing; wording.

## 3. What TLC checks

All runs finish within about two and a half minutes each. `CHECK_DEADLOCK FALSE` appears only in
`MCSpeakerAllocation`, where a behaviour is one solved table. `MCModelTest` has a `VIEW`:
once an assertion has failed only the draws in progress matter, because no action but a reset
follows and a reset looks at no row; and the last uuid is read only by the step that generates it, or by
one that fails.

| Run | Shows | Bounds and why they are enough |
|---|---|---|
| `sessions` | `OneCurrentSpar`, `ReleasedIsClosed`, `KeepsSessionPromise`: the flags implement `Sessions`; `RoledDraftsAreDrawn` (liveness) | two spars (a second one to start too early), one draft, confirmed once; sign-ups for which the checks pass and fail, and one in neither role, for which the solver panics |
| `redraw` | `TypeOK`, `NobodyIsDoubleBooked`, `PlacedAreSignedUp`, `DraftChangesByEditsOnly`; `LinksMatchPanels`, `BallotsComeFromThePanel`, `BallotedRoomsAreFull`, `MailGoesToItsJudge` | two drafts and two confirmations, so that one replaces the other while its mails are out and its ballots are in; three members who go on changing their sign-ups, one with a partner and one in neither role; an edit that exchanges judge and speaker, one that swaps somebody with themselves, one that empties a team; drafts are symmetric |
| `ballots` | `UnforcedReadingsAgree` | two judges, two sheets, three ballots: a first, one that agrees or conflicts, and one after; ties and later seconds |
| `allocation` | `FeasibleExactlyByCounting`, `ChecksAlwaysSuffice` | all tables of five members for debates of one team, so that up to three rooms are needed; every legal draw of each. `AllocationProofs` has every size |
| `serial` | `LockIsHeld`, `WriteIsOfLatest`, `IsSerial`, `BusyMeansProgress` (liveness) | two connections, two spars, handlers that read first and one that writes first, panics and restarts at every point |
| `site` | `SuperuserIsFirst`, `AccountsAreDistinct`, `ClosedMeansInvited`; `MembersAreDistinct`, `ApprovalsDoNotBlock`, `RequestsAreAnswered` | one address in two spellings, which is what the ways to an account disagree about, two accounts, one of them the first; two series, two names of which one fails `validate_username` (`do_add_member` refuses it, a request does not), three addresses, so that a request may share its name with one person and its address with another; names, addresses and series are symmetric. `SiteProofs` has every size |
| `model_test` | `DriftIsConfined`, `EveryFailureHasAReason` | two rows of each table and three sign-ups (the second spar can be named only once there are two sign-ups), valid and invalid input, two indexes; a debate of one team, so that two sign-ups are enough for a draw; a pool of two connections, so that one draw or all connections are in use; names and addresses are symmetric. `ModelTestProofs` has every size |
| `pool` | `NothingLeaks`, `OnlyDbFirstBlock`, `EveryRequestEnds` (liveness) | five visitors for three connections: three whose handlers name `db` first, one of them with an `Option<User>`, and two others; so the connections can all be held by requests that wait for another one, all by tasks, or by both kinds |

Bounds that cap counters: `MaxConfirms` (confirmations in a behaviour), `MaxBallots` (ballots held
for one spar), `MaxUsers` (accounts) and `MaxRows` (rows of a table in the test database). They appear
in the guards of `ConfirmDraw`, `SubmitBallot`, `NewUser` and `Compare`; the theorems hold for every value.

Every property of a passing run has a mutant in `PROJECT.json`: a plausible mistake in one handler
under which TLC finds that property violated in the same run.

**Fairness.** `SteadySpec` of `SparClaims` assumes that a spawned task goes on to run (`WF` on the
solver's end, in one way or the other, and on the store) and that nothing fails: tokio and its
blocking pool run what is spawned on them. No request of a person is fair. `FairSpec` of
`DeferredTx` assumes that a transaction that has written goes on to `COMMIT` unless it fails: no
handler waits for anything between its first write and its end. The `Spec` of `ConnectionPool` assumes
that the pool serves its queue (`Lease`) and that every request goes on (`Proceed`): queries and tasks
end, and a guard that waits is answered or times out. Nobody has to come (`Arrive` is not fair), and a
mail or a solver that never ended would be an exception to it.

### What the code does not keep

Four runs expect a violation. Each states what a comment, an assertion, a message or a page says.

| Run | Said | Happens |
|---|---|---|
| `assertion` | `complete_spar.rs:84`, rooms with ballots do not exceed rooms | one is counted per ballot, so two judges of one room make the handler panic unless it is forced, and two ballots in one room hide a room without one |
| `rated` | `ratings.rs:28`, scores are computed for each player | the update for closing opposition (`ratings.rs:206`) reads and writes `teams[2]`, which is closing government: a debate never changes the rating of whoever spoke in closing opposition |
| `ready` | `draft_management.rs:450`, the page refreshes when the draw is ready | after a panic of the solver the draft never gets data; the run reaches it through a sign-up in neither role, which the checks let through and the assertion at `solve_allocation.rs:81` rejects |
| `password` | `change_password.rs:115`, the old password has to be "your actual, current, password" | it is compared with the account that the request guard loaded: two changes at the same moment are both accepted with the password before the first, and the later one stays |

Seen while modelling, and not worth a run each:

* Drafts and ballots: a draft may be confirmed after the draw was released, although `up.sql:174`
  says that a released draw cannot be edited; the ratings and the conflict check read the oldest ballot,
  although `up.sql:252` says that more recent ballots override, which is visible once a ballot is
  forced; a room is rated once for each of its ballots (`ratings.rs:36`).
* Allocation: a room takes at most a hundred judges (`solve_allocation.rs:152`), and the checks of
  `generate_draw` do not count that way. They suffice for societies of up to a hundred members, and in
  larger ones as long as there are no more than a hundred judges for each room that is needed
  (`ChecksOfSmallSocietiesSuffice`, `ChecksAreEnough`); otherwise there need not be a draw
  (`JudgesMayBeTooMany`), and the solver task fails.
* Members: an organiser who adds by hand somebody whose request is waiting leaves a request that
  can neither be approved (the insert meets the unique index) nor denied (no handler does); names and
  addresses are compared across all series although the message says "in this spar series"; the
  message of `do_add_member` speaks of at least 3 characters where `validate_username` wants more than
  3 letters.
* Accounts: if the first visitor registers instead of completing the set-up, the site has no
  superuser for ever, so nobody can invite or configure; a value of `disable_signups` that is no number
  makes registration panic; an invitation is checked against accounts by its lower-case spelling only,
  so who registered as `Ada@` can be invited as `ada@` (`invite.rs:229` says that users who already exist
  cannot be); a later invitation keeps the rights of the first; a magic link works until it expires,
  although the message of a refusal says that it may have been used already.
* Connections: handlers that name `db` before `user` hold one connection while they wait for
  another. Enough of them at once all wait, until the pool times out after five seconds
  (`OnlyDbFirstBlock`: no others do).
* The model-based test: it fails on an application that is right, as soon as it adds a member
  whose name or address is taken, and sometimes when a request or the next reset meets the store of a
  draw it has asked for; and of the second spar it sees sign-ups only when there are two sign-ups already.
  `model.rs:159` says that the comparison checks whether the application matches the model, but
  `check_spars` does not look at `release_draw`: a release of a closed spar that is lost to a draw leaves
  it different, and nothing fails. TLC refutes `~ failed => model = db` in this way; `DriftIsConfined`
  says how far the two can part.

## 4. What is proved

`tlapm` checks the eight proof modules. The constants are arbitrary up to the assumptions named in
the modules: markers such as `Panel`, `NoRow` or `Null` differ from the values they stand beside,
forms and edits have their types, there are finitely many members, a debate has teams, finitely many,
and the bounds are natural numbers.

### 4.1 Transactions (`DeferredTxProofs`)

`SerialRefinement`: `Spec => IsSerial`, for any number of connections and any handlers. The
inductive invariant `TxInv` says that the owner of the lock is the one connection that writes,
that a snapshot that is not stale *is* the database, and that what is pending is an effect of its
request on the current database. The middle part is the one that is needed and not visible in the
result: it is why the first write after a read may use what was read. `OneWriterAtATime` and
`WritesAreOfTheLatest` state the other two.

### 4.2 Connections (`ConnectionPoolProofs`)

`NothingEverLeaks` and `OnlyDbFirstEverBlock`, for any number of visitors and any size of the pool.
`PoolInv` adds what a lease and a place in the queue say about the guards a request has still to pass:
who waits holds nothing for the guard it waits for, and a lease for `DbConn` means that this guard has
passed. From it, a request that waits while it holds one must name `db` first.

### 4.3 Draws (`DrawProofs`, `SparRoundProofs`)

* `SolverPlacesEverybodyOnce`: any draw the constraints allow is a draw of the right type in which
  exactly the members that signed up are placed, each once. Whether there is one: section 4.4.
* `EditsKeepDraw`: a swap or removal keeps type and single booking and places nobody new. The swap
  is the interesting case: `find_loc` answers with *some* place of a member, so the step is right
  only if there is one.
* `TypeCorrect` and `NobodyIsEverDoubleBooked`: neither is inductive alone. An edit keeps the type
  because nobody is double booked, and `StoreDraw` writes a row because a task belongs to a draft
  without data (`TasksMatchDrafts`). `BookingInv` is the conjunction of the three.
* `PlacedStaySignedUp`: everyone in a draft or a confirmed draw has a sign-up. The property speaks
  of finished drafts; `SignedInv` says the same of the sign-ups a task was given and of the rooms it
  is about to store. It holds because no handler deletes a sign-up and no edit places anybody new.
* `DraftsChangeByEditsAlone`: the action property `DraftChangesByEditsOnly`, from `BookingInv`: the
  task of `generate_draw` finds its own draft without data, and only edits touch one that has data.

### 4.4 Whether there is a draw (`AllocationProofs`)

* `FeasibilityIsCounting`, and `AlwaysFeasibleByCounting` for the property of the run: if everyone
  who signed up has a role, the integer program has a solution exactly if the numbers fit for some
  number of rooms up to `r_max` (`CountsFit`), for any members, sign-ups and number of teams. One lemma
  in two directions carries it: a set can be spread over places so that each gets somebody and none
  more than `k` (`SpreadsOver`) exactly if it is at least as large as the set of places and at most
  `k` times as large (`SpreadExists` deals it out, `SpreadCounts` gives everyone a turn at their place).
  It is used for judges over rooms (`k` is 100) and for speakers over teams (`k` is 2).
  `DrawOfDivision` and `DivisionOfDraw` go between draws and divisions of the sign-ups into judges
  and speakers, `CountsOfDivision` between divisions and numbers.
* `ChecksAreEnough`: if the checks of `generate_draw` pass and everyone has a role, there is a draw,
  provided that the judges are not more than `MaxJudges` for each room that those who only speak
  need. All who would judge do, the others speak; `RoomsForSpeakers` is the arithmetic: rounded up, the
  rooms are not more than `r_max`, nor than the judges, nor too many for every team to have a speaker.
* `ChecksOfSmallSocietiesSuffice`: hence the property of the run in any society of up to `MaxJudges`
  members. The proviso is needed: `JudgesMayBeTooMany` says that with more judge-only sign-ups than
  a hundred for each room up to `r_max` there is no draw, whatever the checks say.

### 4.5 Sessions (`SparRoundProofs`)

* `OneSparIsCurrent` and `ReleasedStaysClosed`: at most one spar is not complete, and a released spar
  is closed.
* `SessionPromiseIsKept`: `SparRound` implements `Sessions`, with the two flags mapped to a phase
  (`RowPhase`), completion to `over`, sign-ups to entries. Releases need `ReleasedIsClosed` in the
  next state, because the abstract phases have none that is both.

### 4.6 Links and ballots (`SparBallotProofs`)

* `LinksAlwaysMatchPanels`, `MailsReachTheirJudge`: the invariant adds that a key names the
  confirmation it was made in, and that no link, mail or key in a judge's hand is of a confirmation to
  come. A key of an earlier confirmation therefore matches no link, or the one of its own judge.
* `BallotsStayWithTheirPanel`, `BallotsAreOfFullRooms`: ballots go with the rooms they are for. That
  a balloted room has one or two speakers in each team needs that no team ever has more, which holds
  of the solver's draws, is kept by edits (`SmallTeams`, `DrawsAreSmall`), and has to hold of what a
  task is about to store as well; that none is empty is what `do_submit_ballot` looks at.
* `ReadingsAgreeUnlessForced`: the oldest and the newest ballot of a room agree. The invariant is
  stronger: as long as none is forced, *all* ballots of a room carry one scoresheet
  (`UnforcedBallotsAgree`), since each agreed with the oldest when it came.

### 4.7 Accounts and members (`SiteProofs`)

`SiteIsBoth`: a behaviour of `Site` is one of `Accounts` and one of `Membership`, so what is proved of
each holds of the composition (`SiteIsCorrect`).

* `AccountsStayDistinct`, `NobodyBecomesSuperuser`, `RegistrationStaysClosed`. The invariant
  `AccountsInv` types the tables, and adds that registration is not configured before there is an account:
  otherwise the set-up could create an account while registration is disabled, without an invitation.
* `MembersStayDistinct`, `ApprovalsAreIndependent`, `NobodyIsForgotten`. The invariant adds
  `RequestsAreDistinct`, that no two requests share data, to `MembersAreDistinct`: without it an
  approval could take the place another request needs.

### 4.8 The model-based test (`ModelTestProofs`)

* `DriftStaysConfined`: until an assertion fails, the model of the test *is* the database, with the user
  of the login cookie, but for two differences that a lost request may leave and the comparison does not
  see: a release of a closed spar (`SparAgrees`), and the first login while there are no groups. That is
  not inductive alone, because it rests on what the test takes for granted of the application. `DbInv`
  says it: a public id names its table and row (`RowsAreNumbered`), so an index and an id reach the same
  row; there is one user at most, and only that one is ever logged in (`OneUser`), so it does not matter
  which user an index names or that a second login is ignored; an open spar is not released
  (`NoneOpenAndReleased`), so the assertion in the `Signup` arm holds; and a member has one sign-up for
  a spar (`SignupsAreUnique`), so the arm that updates the first it finds updates what the handler does.
  Every handler keeps `DbInv` whatever it is sent (`...KeepsDb`), and `TestInv` is `DbInv` with the
  confined drift (`Near`).
* `FailuresHaveReasons`: the action property `EveryFailureHasAReason`. For each action, one lemma
  (`...Outcome`) says what becomes of two sides that are near each other: they are near again, or the
  comparison fails for one of the reasons. A served request makes both sides do the same
  (`ServedOutcome`). A lost one is noticed when a row is missing (`PushIsNoticed`) or a spar is open
  on one side only, and stays confined otherwise. That the drift is harmless later needs the invariant: a
  closed spar that is released in the model only becomes the same on both sides as soon as it is opened.

### 4.9 Model-checked only

Liveness (`RoledDraftsAreDrawn`, `BusyMeansProgress`, `EveryRequestEnds`) is out of the prover's
reach and is checked by TLC on its instances. Every other property of a passing run is stated by a
theorem. The four statements that do not hold are refuted by TLC.

## 5. Not modelled, and why

* The *values* of the ratings: which rooms and members `compute_scores` rates, and when it panics,
  is in `SparState`; the numbers are floating point, weigh the objective of the solver, and the solver
  may return any legal draw here.
* Results, overview and home pages, slides, styles, tracing: they read and render. The ballot that the
  results page picks is `SparCanonical`.
* The form of a ballot (four teams, speaker scores, `do_submit_ballot`'s check of totals): sheets are
  values that can be compared.
* The full-text index of members, kept by triggers of the schema; the log of e-mails.
* Approval by itself (`auto_approve_join_requests`): a series is created without it, and nothing
  changes that.
* What a restart, a lost store or a panic of the solver leaves behind: a draft without data that nothing
  takes up again. The actions are there (`Restart`, `StoreFails`, `SolverPanics`) and the safety
  properties hold across them; that such a draft is drawn later is nowhere claimed.
* In the model-based test, the arm `SubmitBallot` beyond its first lines, which it cannot reach; the
  scripted sequence `basic_test_sequence.rs`, one fixed behaviour; the generators of test data.

What could follow: the composition of `ConnectionPool` with `DeferredTx`, in which a handler that waits
for a connection holds a snapshot; and ratings as ranks, so that the order in which debates are rated
matters.
