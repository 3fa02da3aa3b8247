# A TLA+ model of VoteCount

VoteCount is a platform for online elections: organisations publish elections, the
public votes, free or against payment, and organisations withdraw what they earned.
`VoteCountProject3/` is the server (Laravel, PostgreSQL, a Redis cache and queue, a
websocket server), `frontendVoteCount/` the React client. The server is many PHP
workers over one database: a request runs sequentially, and everything hard about the
system is in what requests, queue jobs and scheduled commands see of one another.
PostgreSQL runs at READ COMMITTED; most operations open no transaction at all, and the
few locks are in `WithdrawalService` and `CalculateElectionResults`.

This directory models that core, and the web client around it. In a module of the server
one step is one database statement, cache call or provider call (or a group of them that
nothing else can observe in between). In a module of the client one step is a click, an
answer heard, a timer, or the server taking a call: between two of them JavaScript runs
undisturbed. No module declares a recursive operator, so that each can be proved about as
well as checked.

## The system

Paths are relative to `VoteCountProject3/app`; `Api` is `Http/Controllers/Api/V1`.

| Component | State | Operations | Interacts with | What is hard | What makes it correct |
|---|---|---|---|---|---|
| Public ballot: `Api/Votes/VoteController::submitPublic`, `VoterFingerprintService`, `CreateVoteAction`, `VotingService`, `Elector`, `Vote` | `electors`, `votes`, counters of `elections` and `candidates`; cache `vote_count_fp_*` | submit, complete, flag | election's status; payments complete its votes; a fraud job flags them | counts read without a lock, `firstOrCreate`, `max(vote_sequence)`, cache get-then-put, retries with one idempotency key, rollbacks and crashes | one vote per key, exact numbering and totals, limit per voter, every request answered |
| Vote payment: `Api/Payments/PaymentController`, `PaymentService`, `PaymentTransaction`, providers | `payment_transactions`, `payment_webhooks`, vote status and counters | initiate, verify (polled), webhook | the provider; `Vote::markAsCompleted` | verification and webhook overlap, webhook before the reference is saved, HTTP errors, no transaction, crashes | only paid votes count, paid votes count once, final statuses stay |
| Results: `Jobs/CalculateElectionResults`, `ResultService`, `ResultController` | `results`, the lock `results_calculation_*`, the queue | dispatch, calculate | closure of the election; late votes | 60 s lock and 90 s reservation against a job of up to an hour, retries, crashes | requested results appear, never regress, count every vote |
| Election lifecycle: `ElectionService`, `ElectionController`, `Console/Commands/ProcessElectionLifecycle`, `Jobs/CleanStaleDrafts` | `elections.status`, dates, `total_votes`, `deleted_at` | publish, start, end, pause, resume, update, destroy, the scheduled command | ballot, results, trash, plan | each process saves what it decided on a copy | closed is final, elections stop, quota, no deletion of votes |
| Withdrawals: `WithdrawalService`, `RevenueService` | `withdrawal_requests`, row locks | create, approve, reject, mark paid, cancel | KYC, payments | races of requests and reviewers, two queries for one balance | one outstanding, never overdrawn, KYC, final decisions |
| Trash: `TrashService`, `TrashRecord`, `TrashController`, `PurgeExpiredTrash`, `CleanStaleDrafts` | `trash_records`, `deleted_at` | delete, restore, force delete, purge, clean up old drafts | elections, candidates | statements in no transaction, several records of one entity, a deletion without a record | what is in use is not purged, what a request trashed can be found |
| Private ballot and OTP: `VoteController::verifyAccess*`, `requestOtp`, `submitPrivate`; the pages of `pages/VotePrivate`, `VoterSessionProvider` | cache entries of one elector; sessionStorage, the page | access, confirmation code, submit, resend, sign out | votes of the elector | entries read, checked and put back; calls given up and repeated; the choice is not named by the vote | a vote is for the page's candidate, a code is used once, another code can be asked |
| Session: `AuthProvider`, `ProtectedRoute`, the auth pages, `AuthController`, `OTPCode` | cookie session, codes, reset tokens; the tab's user, page and form | sign in, up, out, verify, resend, reset, profile | every dashboard | answers in any order, time-outs, expiry, reload | the tab agrees with the server, dashboards admit, forms come back |
| Public ballot pages: `PortailVote`, category, candidate, ranked, multiple, `VotePayment*` | the page, its form, timers | choose, vote, pay, poll, retry | ballot, payment | late and lost answers, timers, double clicks | one vote a visit, paid means paid, polling ends |
| List pages: the dashboards of organisation and administrator, the public lists | query, rows, spinner, selection, pager | filter, search, page, act on rows, import, recalculate | every list of the server | answers in any order, stale closures, effects that load twice or not at all | rows are those asked for, spinners end, selections are visible |
| Election wizard: `CreateScrutin`, its steps, drafts, imports | the draft, sessionStorage, the step's rows | next, back, create, import, publish, save, leave, reload | lifecycle, candidates, electors, other managers | partial failures, polling, remembered drafts | what the summary shows exists, no double draft, no draft edited again |
| Candidates, electors, jury, users, organisations, subscriptions, audit, notifications | rows of their own | create, approve, import, verify, suspend... | list pages, wizard | double approval, queued imports | modelled as those pages use them |
| Instant-runoff tabulation: `IrvTabulationService` | none (pure) | tabulate | results | ties, exhausted ballots | not modelled |
| Organisation KYC | `organizations.kyc_*` | submit, review | withdrawals | review of a file that changed | only its effect on withdrawals |

## Modules

The server:

* `VoteLedger`: what the public ballot promises, as an atomic ledger of votes.
* `Voting`, with `VotingProofs`: the public ballot, which implements `VoteLedger`.
* `VotePayment`: the payment of the votes of a paid election.
* `Results`: the calculation of the results of one election. It extends
  `PublishedResults`, the rows as their readers see them and what is promised of them.
* `ElectionLifecycle`: the elections of one organisation.
* `Withdrawal`: the withdrawals of one organisation. It extends `Payouts`, the requests as an
  administrator sees them and what is promised of them.
* `Trash`: one election (or candidate) and its trash records. It extends `TrashBin`, what
  an organiser sees of them and is promised.
* `ElectionProofs` is about the life, the results and the trash of elections: it extends
  `ElectionLifecycle`, `PublishedResults` and `TrashBin`, and has `Results` and `Trash` as
  the instances `Tally` and `Bin`, with the names that they share with the lifecycle
  (`Worker`, `pc`, `of`) replaced.
* `MoneyProofs` is about payments and withdrawals: it extends `VotePayment` and `Payouts`,
  and has `Withdrawal` as the instance `Bank`, with its `pc` replaced.

The web client, each with the server's side of its calls:

* `Routes`: roles, dashboards and where a sign-in leads. Operators only.
* `ClientSession`, which extends `Routes`: one tab's sign-in, sign-up, verification, reset.
  `ClientSessionProofs` is about both.
* `PrivateVote`, with `PrivateVoteProofs`: the private ballot, its tab and the server's
  cache.
* `PublicVote`, with `PublicVoteProofs`: the pages of a public ballot and of its payment.
* `ListView` (what lists have in common), `OrgLists` and `AdminLists` (the pages, as
  operators), `ListPage` (the tab and the server, which extends both), `ListPageProofs`.
* `ElectionWizard`, with `ElectionWizardProofs`: the creation of an election.

`MC<Module>` holds the symmetry sets and constants that TLC needs for each of them.

An operator named `Definition_Suffix` is a *mutant* of `Definition`: the same
definition with a plausible bug. No specification uses it. Each property of a passing
run has one, and TLC finds the property violated once the mutant replaces the
definition: this is how we know that a property is about the code. `PROJECT.json`
lists the pairs, and for each definition the source lines it stands for. `VoteLedger`
stands for no lines: it is a promise, not a program.

### Voting

A request is a process; `pc[r]` is its next statement and `loc[r]` its PHP variables.
A row is named after the request that inserted it. `Receive` is the request's
validation (with the check of the idempotency key and `is_votable`); `CheckCache`,
`CheckDatabase` and `PutCache` are `hasAlreadyVoted`, which is called before and after
`FindElector`/`CreateElector` (`firstOrCreate`); `StartSession` is `CreateVoteAction`;
`CountVotes`, `ReadSequence`, `InsertVote`, `CompleteVote`, `Commit` and `Rollback` are
the transaction of `submitVote`; `ReadMark` and `PutMark` are the cache's
`markAsVoted`. A row is "inserted" while its transaction is open: other requests do not
see it, but an INSERT with an equal entry of a unique index waits for it. `Crash` ends
the worker and rolls its transaction back.

The rest of the platform is actions of its own: `Expire` (a cache entry),
`ConfirmPayment` and `MarkElector` (`Vote::markAsCompleted` called by a payment, which
is outside any transaction), `FlagFraud`, `Organise`, `EndPasses`. Whether the election
is paid is a variable that no step changes, so that one run covers both. `total` is
kept for free elections only: the counters of paid ones are those of `VotePayment`.

Left out: the content of a ballot and its validation (candidates, weights, scores),
receipts, broadcasts, and the private ballot.

### VotePayment

A worker holds the transaction it loaded in `mem[w]`, as Eloquent does: `NewState` and
`SaveTransaction` decide on that copy and write only if the status differs from the one
*in memory*. `Initiate`, `CallProvider`, `SaveReference` and `FailInitiation` are
`initiateForVote`; `StartVerify` and `StartWebhook` lead to the same `Ask`,
`SaveTransaction`, `LoadVote`, `CompleteVote` and the three increments, each a step
since none of them is in a transaction; `RecordWebhook` is the `payment_webhooks` row.
The provider is `charge`, `Settle` and two constants: what `checkStatus` answers of an
unsettled payment and on an HTTP error, which is where the providers differ. Revenue is
counted in units of the vote's price, and the candidates' counts as their sum.

Left out: `refund()`, which nothing calls; `ProcessVotePayment`, which nothing
dispatches; signatures; subscription payments.

### Results

`End`, `DispatchAtEnd`, `CrashAtEnd` and `Calculate` put jobs on the queue. `Take` is
the queue worker's reservation (with the limit on attempts), `Lock` the job's
`Cache::lock()->get(callback)`: a job that finds the lock held *succeeds* without
calculating. `DeleteRows`, `CountVotes`, `InsertRows` and `Commit` are the transaction
of `calculateResults` at READ COMMITTED, with the unique index on (election, candidate)
as what makes the loser of two overlapping calculations fail. `ExpireLock` and
`Redeliver` are the clocks of Redis: the lock lives 60 seconds, a reservation 90, so
the reservation of an attempt is given up only after its lock expired. With `Slow`, a
running calculation may outlast both.

Left out: the arithmetic of scores, rankings and rounds; `rows.of` is the set of votes
(with their status) that the rows count, which is what ordering properties need.

### ElectionLifecycle

A process (an organiser's request or the scheduler's command) holds the model it
loaded; every transition tests that copy and overwrites the row's status. The scheduler
lists elections once, then handles that list. `AtOnce` bounds how many processes
overlap. Votes are abstracted to `BeginVote` and `CountVote`. Publishing may be refused
whatever the state: the subscription and the candidates it also needs are not modelled.
"draft" stands for "pending" too.

Left out: create, createDraft, managers, statistics.

### Withdrawal

`LockOrganization` to `Insert` are the statements of `createRequest` under
`lockForUpdate`; `ReceiveReview`, `LockRow` and `Decide` those of the reviews.
`Revenue` is what `RevenueService` sums: what was `earned` less what was `reversed` (a
completed transaction that fails later, or whose election is deleted). The sum is over
all transactions of the organisation, subscription payments included, as in the code.

### Trash

The record and the entity are written by separate statements; `Purge` is the loop body
of the daily command. `ListStale` and `CleanStaleDraft` are the daily job that deletes old
drafts: it has the entity in its list (`cleaning`), then deletes it, and writes no record.
`entity` therefore tells "trashed", by a request, from "swept", by that job.
`faults` is a history variable, written and never read by the actions: which of "overlap",
"crash" and "stale page" have disturbed the requests so far. Two properties use it to say
under what conditions the code keeps its promise.

### VoteLedger

`ledger[b]` is the committed row of ballot `b`. `Cast` adds one, whole: the next number of
its elector, a key that no entry has, and the total (in a free election). `Pay` and `Flag`
change its status. `Voting!LedgerEntry` is the refinement mapping: a row that is still in
an open transaction is not in the ledger, so the transaction's Commit is the Cast and
every other statement of the request is a stutter.

### ClientSession and Routes

`Routes` is `roleRoutes.js`, `useRole.js` and the rules of `ProtectedRoute`. In
`ClientSession`, a call has an operation, the answer the server gives when it takes the
call (`Serve`), and two flags: `mounted` (the component that sent it is still there) and
`heard` (its answer is not given up on). `Serve...` are the handlers of `AuthController`
with `OTPCode`; `Hear...` the continuations of the pages; `Submit...`, `Ask...`, `Typed`
and `Click...` the user. `ProtectedRoute`, `HearLogin` and `Unmount` are what makes the
navigation. `Fault` is a time-out, a reload, a session that expires or that another tab
changed. `orderly` is a history variable: nothing of that sort happened, and no answer
overtook another.

Left out: Google sign-in, the content of forms and their validation, the
permissions of single routes, and the pages behind the dashboards.

### PrivateVote

`access`, `live`, `temp` and `requests` are cache entries of one elector; verifyAccessOtp
and submitPrivate read them, decide, and put them back or forget them in separate steps
(`PutAccess`, `PutTemp`, `ForgetTemp`), and createVote and CountRemaining come after.
`requestOtp` reads how many codes were sent, `PutChoice` stores the choice with a new code,
`SendOtpCode` queues the mail (`mailed`: only these codes can be typed) and
`IncrementAttempts` counts it. The tab's page, form and sessionStorage are `page`, `form`,
`stored`; the 30-second timer of a resend runs on when the page is left. `ordered` and
`overlap` are history variables: the first says that the server began the calls in the order
of the clicks, and none for a code while another call was about to write a choice.

Left out: expiry by time of single entries (`Expire` ends the whole session), the
categories and weights of a vote, and the mail itself.

### PublicVote

`page` carries its location.state. `HearElection` and its like are the loads of the pages,
`handleVote`, `submitRankedVote`, `continueMultipleToPayment`, `handleCategoryVote` and
`handleDetailsVote` the ways to vote, `pollPaymentStatus` and `PollTimer` the loop of the
payment pages. The server is one step per call: what happens inside is `Voting` and
`VotePayment`. `visit` numbers the pages shown; a vote remembers the visit it comes from.
The polling runs in the closure of the click that confirmed the payment, so a call carries
the total that this render knew (`total_amount`): the page of several candidates adds up its
items, that of one takes the total of `form.voteData`, the vote created by an earlier click.

Left out: the content of results, the websocket's messages, images and texts.

### ListView, OrgLists, AdminLists, ListPage

A page is a query (`view.q`), the rows of the last answer kept, and what its buttons
offer. The pages differ in how a change of the controls becomes loads (`Dual`, `Effects`,
`Batched`, `Given`, `GoTo`, each named after what the React effects do), in what an error
does to the rows (`Kept`, `Cleared`, `Emptied`), and in what an action reloads: `On` takes
the query of the render the handler was made in, which may no longer be the current one.
`ListPage` dispatches on the page, so that one run covers the twenty-two of them. `calm`
is a history variable: answers came in order, none was lost, no control was touched while
an action was in flight, no job ended unseen, and no "not ready" was heard while later
results were on their way. On Resultats a load is two calls, the election ("load") and, if
it is closed, its results ("final"); a calculation leaves the status of the election as it
is and adds one to `results`. A candidate has an address, which approvals take from the
application, forms and files bring, and the unique index compares (`Taken`); `edited` tells
whether it was changed since.

Left out: the lists that only fill a select, sorting on the client, the totals and the
charts above a list, the texts.

### ElectionWizard

`wiz` is the state of `CreateScrutin`, `step` that of the step shown, forgotten when the
step changes. The server's drafts carry the form, candidates, electors and criteria. Calls
go on when their step is gone, and their continuation still moves the wizard or only the
step, as in the code (`Matters`, `Here`). When the draft is dropped the intervals that poll
its imports end (`HearCheck` takes those that may not ask again, `HearPoll` and `HearImport`
do not go on). `late` has the drafts whose publication was answered to a wizard left before:
they stay in sessionStorage. `Work` is the queue: `ImportCandidatesJob` and
`ProcessElectorImport`. `Other` is another manager who publishes or deletes, and
`CleanStaleDrafts`. Candidates are an address, a category or not, and whether the wizard
believes them on the server.

Left out: photos, dates and prices of the form, the content of files, and updates of a
candidate that exists.

## What is checked

| Run | Question | Bounds |
|---|---|---|
| `MCVoting_ballot` | Does the ballot behave as an atomic ledger, and are `has_voted` and the limits right, under any interleaving? | 3 requests, 2 at once, 1 voter, 3 keys, limit 1, free and paid |
| `MCVotePayment_faults` | Can an unpaid vote be counted, a vote be counted more often than there are workers, or a completed transaction change? | 2 votes, 2 transactions, 2 workers, errors, crashes |
| `MCVotePayment_delivered` | Does a payment end in a counted vote, and do the counters agree? | 1 vote of 2 voices, 2 transactions, 2 workers, no errors |
| `MCResults_delivered` | Do requested results appear, and never regress? | 1 vote, 2 jobs, 2 workers, 1 crash, 2 attempts |
| `MCElectionLifecycle_concurrent` | What survives of the lifecycle when copies are stale? | 1 election, organiser and scheduler, 4 instants |
| `MCWithdrawal_races` | Do the locks keep withdrawals single, covered, verified and final? | 3 requests, 2 reviewers, amounts 1 and 2, earnings up to 3 |
| `MCTrash_faults` | What may the trash lose or destroy, and when? | 4 requests, the purge and the clean-up of drafts, 2 at once |
| `MCClientSession_tab` | Does a tab know who is signed in, and let in whom it should? | 2 accounts, with and without a second factor; 2 moves or faults (redirections, timers and first loads are free), 2 codes, 1 wrong code |
| `MCPrivateVote_tab` | Is a private vote the one that was confirmed, once? | 2 candidates (symmetric), 2 votes, 5 moves, 1 and 2 wrong codes, 3 codes |
| `MCPublicVote_tab` | Is what the pages of a ballot report what happened? | 2 candidates, 5 kinds of elections, 4 moves, 2 polls |
| `MCListPage_tabs` | Does a list show what was asked, and an application become one candidate? | 22 pages, 1 row a page, 4 ids, 2 addresses (symmetric), 2 or 3 moves (5 for an approval), 1 lost answer, 2 or 3 calls at once, 2 polls |
| `MCElectionWizard_tab` | Is the election that is published the one that was entered? | 2 forms, 2 files, 2 drafts, 6 moves, 1 fault, 2 candidates a page |

The properties, by module; the modules state each one in full.

* `Voting`: `TypeOK`; `HasVotedExact` (never set early; in a free election set in time),
  `OvershootBounded` (what the unlocked counts do guarantee), `ImplementsLedger`.
* `VotePayment`: `CountedIsPaid`, `OvercountBounded` (how far the counters can exceed the
  votes, crashes included), `CompletedIsFinal`, `CountersAgree`, `FailedIsFree`,
  `PaidIsCounted`.
* `Results`: `ResultsNeverRegress`, `RequestedGetsResults`.
* `ElectionLifecycle`: `ClosedIsQueued`, `ReopenedByStaleCopy` (only a copy older than
  the closure reopens an election), `EveryElectionStops`.
* `Withdrawal`: `OneOutstanding`, `NeverOverdrawn`, `CreatedIfVerified`, `FinalIsFinal`; its
  `TypeOK` is proved.
* `Trash`: `ForcedIsGone`, `TrashedIsListed`, `PurgeKeepsLive`.
* `ClientSession`: `TabFollowsSession`, `DashboardsAdmit`, `WaitsForACall`.
* `PrivateVote`: `VoteIsForThePage`, `CodeUsedOnce`, `SuccessMeansDone`, `ResendComesBack`.
* `PublicVote`: `PaidPageIsPaid`, `OneVotePerVisit`, `PollingEnds`.
* `ListPage`: `RowsAreCurrent`, `SpinnersHaveCalls`, `SelectionIsShown`, `SecondNeedsEdit`.
* `ElectionWizard`: `RecapIsOnServer`, `NeverReedited`, `OneDraft`, `BusyHasCalls`.

**Bounds of the server.** Every race in this code is between two processes, with at most
one more to set the scene (an elector that exists, a vote that was completed, results that
are there); the instances have both. Three requests with three keys make a retry and a
different ballot, and one vote more than the overshoot that `OvershootBounded` allows;
two at once with a limit of one is the smallest race on the limit.
Two transactions on one vote are a payment and its retry. A queue job is attempted
twice rather than the three times of `supervisord.conf`: the second attempt already
meets every state that the first one left. Earnings of three and amounts up to two let
two withdrawals be refused, and covered, in every combination. Four instants are before
the start, between the dates (twice) and after the end. Requests, rows and jobs are
finite and each is used once, which is why the finite instances come to rest:
`CHECK_DEADLOCK FALSE` is said for them, and not for `ElectionLifecycle` and
`Withdrawal`, which can always go on. Symmetry is used only where no liveness is
checked, and over sets whose members nothing distinguishes (votes of different
quantities are not exchangeable).

**Bounds of the client.** `MaxMoves` bounds what a user clicks (and, where the module
says so, what goes wrong): the continuations of these clicks, the timers, the loads of
the pages they lead to and every order of the answers come on top of them. The races
between two calls need two moves; a partial failure needs a third; the private ballot
takes five, from a list of candidates to two codes and two votes, and the wizard six
from the first step to the summary and back (leaving the wizard is not counted). An
application approved, edited and approved again takes five: on Candidats `MCGoesOn` lets
a fourth and a fifth move be made where an approval of the application is under way and
nothing was lost, imported or filtered, and `MCOneAddress` keeps to one address where
something was. The edit is then reached before the second approval is served. `MaxLost`
and `MaxFaults` are one, since a second lost answer meets the same states. `MaxCalls` is
how many calls a user leaves unanswered on a list before waiting. Real limits are scaled
down where only their being reached matters (`MaxPoll` 30, `MaxPolls` 45, `PerPage` 15,
`Threshold` 20, wrong codes 5 and 3): the small number is reached in the instance and
the large one would not be. A user who has made all moves stops, hence `CHECK_DEADLOCK
FALSE`.

**Fairness.** A worker that holds a request goes on with it (weak fairness of its
steps), unless it crashes. Payment: a provider repeats a webhook until it is
acknowledged (strong fairness of `Deliver`), and `VotePayment.jsx` polls a transaction
that is "processing" every four seconds for two minutes, so once more after a webhook
that came before the reference was known (`Poll`). Results: the workers, and the clocks
that expire a lock and a reservation. Lifecycle: time passes and cron runs the command
every minute. `PublicVote`: the browser fires its timers and a call is answered or fails
(weak fairness of `Poll`, which is nothing a user does). Organisers, voters and customers
are never obliged to act.

## What was found

Some statements of the documentation do not hold of the code. The models show them all,
and the properties above are what remains true.

* "un fingerprint = un vote max" (`VoterFingerprintService.php:16`): `submitVote` counts
  completed votes, and a paid vote is returned as pending, so a voter submits several and
  pays them all. In a free election two simultaneous requests do it too, by no more than
  `OvershootBounded` allows; and two first requests create two electors.
* A verification and a webhook that both loaded the pending vote both pass the guard of
  `markAsCompleted` (`Vote.php:155`), and increment the counters twice. `CountersAgree` is
  what remains true: voices and revenue stay equal and no vote is missed. With workers that
  die between two statements the counters can also fall short; what then remains is
  `OvercountBounded`: a vote is counted by those who confirmed it together, never by a
  later one, and no candidate has voices that the revenue does not count.
* A vote in flight at the closure, or paid after it, is completed after the results were
  calculated, and nothing recalculates them (`VotingService.php:160`).
* A paused election whose end passes stays paused (`ProcessElectionLifecycle.php:98`): the
  command lists published and ongoing elections only, and `resume` refuses it.
* A user whose reset code was accepted by `ForgotPasswordPage.jsx:264` is asked for it
  again by `Resetpasswordpage.jsx:399-408`.
* The category page reports a vote as done in a paid election too
  (`ElectionCategoryVotePage.jsx:38`): `VoteSuccess.jsx:60` is shown while the vote is
  pending and was never charged.
* The comment of `CreateScrutin.jsx:141-146` says that publishing checks the categories;
  `ElectionService::publish` does not. The branch that would say that a draft has expired
  (`CreateScrutin.jsx:256-264`) is not reached, and `toast.info` (178) does not exist in
  `react-hot-toast`.
* `VoterSessionProvider.jsx:11` says a session lasts 30 minutes; line 26 keeps it for 60.
* `TrashService.php:10-13` says that a snapshot is taken just before a soft deletion, without
  which nothing can be listed, restored or purged. `CleanStaleDrafts.php:48` deletes drafts
  with none: they are in the database for ever, and nobody can find them.
* "Redirection vers la page de succès avec les vraies données" (`VotePayment.jsx:21`): the
  amount (108) is that of the closure that was clicked, where `voteData` is still null; after
  a charge that was refused, it is the total of the vote created before it.
* The comment of `Resultats.jsx:236` says that the button is for closed elections, and "completed" is
  asked for next to it (91): no code gives an election that status, so the button stays and results
  can be calculated any number of times. A job that finds the lock held does not, and the page
  shows the old results.

Of the client, the models also show: a list that goes back to page 1 is not reloaded on
Candidats and Electeurs (`Candidats.jsx:145`); an import shows page 1 under any number;
chips of Scrutins on page 2 show page 1 without a load; an electors' selection survives a
failed load; choosing a role in Users drops the text being typed. A refused sign-in that is
heard after a verification signed in clears the user. A wrong private code, answered 401,
signs out a user signed in to a dashboard. The cards of `PortailVote` are not disabled
while a vote is in flight, and a payment page that gave up makes a second vote and charge
when asked again, while the first may still be paid. A draft whose creation was not
heard, or that was left in flight, is created again; a draft cleaned meanwhile refuses every
change until a reload; a private election reaches the summary without electors through two
pending clicks on Next (`Step3Votants.jsx:311`); a candidate removed after its creation
stays on the server; a second import's poll may be ended by the first one's late answer.
A publication answered after the wizard was left leaves its draft in sessionStorage, and the
next wizard opens with the published election until its status check is answered. An import
whose draft the check dropped is shown as going on until the step is left, since its interval
was cleared. On Resultats, the "not ready" of an election still going on, heard while the next
election is being loaded, hides that one's results: only the start of a load resets it
(`Resultats.jsx:84`).

Of the server, the models show as well: `end` and a stale `start`, `pause` or `resume` reopen a closed election. `resume`
does not count against the plan's limit. `destroy` deletes an election that received a
vote after its check. A request that moves only one date may put the end before the
start. With MTN or Orange (`ErrorStatus` "failed"), a late verification turns a
completed transaction into a failed one; with Stripe (`WaitingStatus` "failed"), an
unsettled payment is shown as failed. A webhook that arrives before the reference is
saved is acknowledged without effect, and only the polling page repairs it. A worker
that dies between the increments leaves the counters short. A purge destroys an entity
in use after an overlap, a crash between snapshot and deletion, or a second restore of
one record. Two overlapping requests for a code may store their choices in the other order,
and a submission with a wrong code may put an older choice back: the newest code then votes
for the candidate chosen before. The approval of an application checks no status: a second
one, after the address of the candidate was edited, makes a second candidate.

## What is proved

`VotingProofs` proves, for every set of requests, voters and keys, every limit, and
every number of workers, of `Voting`:

* `TypeCorrect`: the type invariant;
* `NumberingIsContiguous`, `KeysAreSpentOnce`, `TotalIsExact`, `CompletedVotesAreKept`:
  numbers 1, 2, 3... per elector, one vote per key, an exact total in a free election, and
  no completed vote un-cast, renumbered or given to another elector;
* `MarksAreExact` (`HasVotedExact`): an elector is marked as having voted only when its
  votes are used, and in a free election as soon as they are;
* `OvershootIsBounded` (`OvershootBounded`): a fingerprint gets no more electors than the
  pool has workers, and an elector of a free election no more votes beyond its limit than
  the other workers can cast;
* `BallotIsALedger`: the ballot implements `VoteLedger`, which has the first four at once.

Contiguity is not inductive. The number of a vote is read long before the vote is
committed, while other votes commit, roll back or are flagged. The invariant `IInv`
adds what makes it so: `OpenRowsOK` (an uncommitted row belongs to the transaction its
request is in, with the elector, number and key that request holds), `IndexesOK` (the
unique indexes hold of open and committed rows together), `NumbersOK` (every number
below one that was *read* belongs to a committed vote) and `LocalsOK`. The heart is that
committed rows never go away (`KeepsTaken`), so a number that was read stays the next
one or is taken, and then the index refuses it. The steps that touch no row are treated
once (`ServeQuiet`, `QuietStep`). `TotalIsExact` adds the cardinality of the counted
votes, one step at a time (`CountedStep`).

`MarksAreExact` is about a count that is taken inside a transaction, which cannot see the
other ones, and that is committed later. It is still good then because an elector has at
most one open transaction that has inserted its vote (`OneOpenVote`): a second one would
hold the same number and the index would have refused it. So what a transaction about to
commit knows, whether its vote is the last, is true of the votes that are committed by then
(`CommittingOK`), and only a free vote, completed as it is cast, can find that it is the
last (`FullOK`). `OvershootIsBounded` rests on the size of the pool: no more requests execute
than there are workers, and one that has found no elector, or has counted its elector's
votes and not yet committed its own, is itself counted among the electors and the ballots
to come (`PoolOK`). When a test lets a request through, what is already committed is below
the limit, so all that can be beyond it is what the other workers hold.

The refinement needs no further invariant. A row that joins the ledger does so at its
Commit, and there `NumbersOK` says that every number below its own belongs to a committed
vote, `IndexesOK` that its number and its key belong to no other (`CommitCasts`). Payments
and fraud flags are the ledger's two changes of status (`RestateRestates`); every other
step of every worker, its crashes and rollbacks included, leaves the committed rows and the
total alone (`LedgerStutters`).

`MoneyProofs` proves, for any number of requests and reviewers and any amounts, of
`Withdrawal`: `WithdrawalsTypeCorrect`, `AtMostOneOutstanding`, `KycHoldsAtCreation` and
`DecisionsAreFinal` (the properties `OneOutstanding`, `CreatedIfVerified` and
`FinalIsFinal`). The invariant says what the lock is for: a request is inside its
transaction exactly while it holds it, and what it has tested there, the KYC and the
absence of outstanding withdrawals, stays true until it ends. `ReservedIsEarned` proves
`NeverOverdrawn`, whatever the revenues: the amounts of all the withdrawals that were not
refused stay within what was earned. Revenues only grow, so what was read of them is still
there; and since the lock was taken nobody else has reserved anything, so the amount that
passed the test still fits (`Funded`).

It proves, for any votes, transactions and workers, of `VotePayment`:
`CountedVotesArePaid` (the property `CountedIsPaid`, with any provider, lost answers and
workers that die), `CompletedStaysCompleted` (`CompletedIsFinal`) and
`FailedTransactionsAreFree` (`FailedIsFree`). The last two assume a `Patient` provider,
one that answers "pending" of a payment it cannot see or that is not made yet, as CamPay
does, and the last that no answer is lost; they say nothing of a provider that answers
"failed" on an error or while it waits. The workers share rows without a lock, so the
invariant says what each of them may still rely on: a worker that initiates a
transaction is the only one to do so, and nobody verifies it before the provider knows
it (`InitiationOK`); a worker that verifies saw a reference that stays, and a
"completed" that it holds stays true (`VerificationOK`), as does a "failed" of a patient
provider (`RefusalOK`); and a row is completed only with a reference and the money taken
(`RowsOK`). From this follows that an old answer, saved late, agrees with what a faster
worker saved before it.

`CountersMatch` proves `CountersAgree` of the same module, unless a worker dies between two
statements: once every worker is idle, the totals of the election and of its candidates
are those of the completed votes. The invariant is an account (`CountingOK`). What the
counters lack of the completed votes is, vote by vote, in the hands of the one worker that
completed it (`Untotalled`, `Unearned`, `Untallied`), which it alone could do, the row being
saved as completed from another status only once. That account is a sum over votes and
workers, and each step changes one term of it.

`OvercountIsBounded` proves `OvercountBounded`, workers that die included. Its account
(`OvercountOK`) adds to what the counters have what they may still be given: by the workers
between two statements, and by those who passed the guard before the vote was completed
(`Late`). Nobody joins the latter, since whoever loads the vote now finds it completed; so
when a vote is completed there are at most as many as there are workers, and a worker that
dies only takes its part with it.

The two sums rest on the first part of `MoneyProofs`: what the sum of a function over a finite
set does when an element joins, leaves or changes its value, and by how much a larger function's
exceeds it. Its `SubsetInduction` states induction over the subsets of a finite set with a *set*
of good subsets where one would expect an operator: the provers here instantiate the one and not
the other.

`ElectionProofs` proves, for any number of workers, with a lock that expires or not, of
`Results`: `PublishedNeverRegress` (`ResultsNeverRegress`). No part of the invariant is
about the lock: what orders two calculations is the unique index on the results. A
worker counts after it has deleted the rows in place, so not less than they said
(`DeletedOK`); whoever inserts has deleted the latest rows there are, and is alone
(`InsertedOK`).

It proves, for any elections and any processes that read a copy, wait and save it, of
`ElectionLifecycle`: `ClosedGetsResults` (`ClosedIsQueued`) and
`OnlyStaleCopiesReopen` (`ReopenedByStaleCopy`). The invariant needs only that a process
at work has a copy, and the one about to publish, the copy of a draft (`CopiesOK`): an
election that is closed over and over always has one process that dispatches, or a job
in the queue.

And, for any finite set of requests, of `Trash`: `DestroyedIsGone`
(`ForcedIsGone`), `TrashIsComplete` (`TrashedIsListed`) and `PurgeSparesTheLive`
(`PurgeKeepsLive`). The invariant has one part for each level of faults: what holds
whatever happens (`ForcedOK`), while requests do not overlap, with one another, the purge or
the clean-up (`AloneOK`), while the only faults are crashes (`TrashedOK`), and without any
fault (`LiveOK`). None of them promises a record of what the clean-up deleted.

`ClientSessionProofs` proves `LoginLandsInside`: whatever a user record says, the page a sign-in
leads to admits the user and is not the sign-in page again. It is what breaks the loop
between `ProtectedRoute` and `LoginPage`.

`ClientSessionProofs` proves, for any accounts, entry pages and links, of
`ClientSession`: `DashboardsAreGuarded` (`DashboardsAdmit`). Every step that shows a
page does so through the router, and whatever page is asked for, the router lands on one
that is for the user, or waits behind the spinner (`LandingAdmits`, which rests on
`LoginLandsInside`). The invariant adds that a user the server will send, in an answer
not heard yet, is a record of an account, and that only dashboards send to that page.

`TabIsUpToDate` proves `TabFollowsSession`: a tab that is `orderly`, with nothing given up,
nothing answered out of turn and no second sign-in or sign-out under way, shows the
account of its cookie once its calls have ended. Before they have, `Follows` says what the
tab *will* show: answers come in the order of the questions (`InOrder`), at most one call
at a time changes the session (`OneAtATime`), and the last answer under way about the
session carries the user that the cookie names now (`WillFollow`, `SigningIn`,
`SignedOut`). `WaitsAreAnswered` proves `WaitsForACall`: whatever the page shows as in
progress, the router's spinner, a form's or a code being sent, waits for a call in flight
that was made by this page and will be heard by it (`Waits`, `OfItsPage`, `Addressed`);
hence no answer, late, lost or given up, leaves a form that cannot be used again. What a
step does to other calls than its own is said once (`LandsElsewhere`, `StillWaits`,
`HearWaits`).

`PrivateVoteProofs` proves, for any candidates, limits and number of faults, the four
properties of `PrivateVote`. The invariant is in three parts, and each step is first shown
to be one of a few kinds, after which only the kinds matter: the tab turns to a page or
stays on it (`TabStep`: `Turns`, `Stays`), the server declines a call, sends a code,
examines a submission, counts a wrong code, spends a right one, records the vote or
confirms it (`ServerStep`). `BooksOK` holds whatever happens: a code that anybody holds has
been sent (`CodesOK`), a confirmed last vote was the last (`DoneOK`), and the page that
waits for its first code has made the youngest of the calls that ask for one (`FirstOK`).
It gives `SuccessIsTheEnd` (`SuccessMeansDone`) and `ResendIsOffered` (`ResendComesBack`).
`OrderOK` holds while `ordered`, and is about the choice that waits in the cache rather than
about codes: once the page has been sent one, that choice is the page's (`Holds`), and no call
made before will write another's (`Clear`), be it a request for a code that has not stored
its choice or a submission that will put one back (`PageOK`). The same is true of the first
code while its request goes on (`FirstSentOK`); so a submission finds the choice of its page
(`SubmittedOK`), and what is recorded is for that page (`RecordedOK`). It gives
`VotesAreForTheirPage` (`VoteIsForThePage`). `SpentOK` holds while no two submissions are
examined at once: a code that the cache or a submission holds has no vote yet, and one on
its way to a vote is held by nobody else. It gives `CodesAreSpent` (`CodeUsedOnce`).

`PublicVoteProofs` proves, for any kind of election, candidates and amounts, and behaviours
of any length, two properties of `PublicVote`. The invariant follows a vote from the click
to the page that reports it. A call carries what its page was about, and what it refers to
on the server, the vote or the charge, was made for the same items by the same visit
(`CallOK`); a charge is of a vote made by a payment page, and counted once it is completed
(`TxOK`). From these two follows `PaidPagesArePaid` (`PaidPageIsPaid`), lost answers and
polls given up included; and from a second invariant, `TotalsOK` (`TotalsAreCreated`), its
part on the amount: the vote that a payment page remembers, and the one whose total a call or
the page of success carries, were created by the same visit, the latter before the vote paid
for. `VisitsVoteOnce` (`OneVotePerVisit`) needs to know what a visit is
waiting for. On a page that guards its button, a submission under way or a vote recorded
keeps the button disabled until the visit ends (`OneVote`). On a payment page, the
submission, the charge and the polling are one chain of calls, and while a charge may still
be paid the chain, if it goes on, is about that charge (`OneCharge`): hence "pay again" is
offered only after a failure, or after the page gave up. The second promise is beyond the
reach of the run in one respect: four moves never make two charges on different pages, and
of these only the proof speaks.

`ElectionWizardProofs` proves, for any forms and files, number of drafts, quota, page size
and threshold, and any number of clicks, losses and deeds of others, the four properties of
`ElectionWizard`. A component of the page forgets its state when the step changes while its
calls go on, so the invariant is mostly about calls. `BooksOK` is what a call in flight
claims of the drafts: a creation that was answered names a draft that exists and that no
other call is about, the candidates that an answer lists or has made are in the draft it
names, and a "no longer a draft" is true for good. It is inductive because drafts only
*grow* (`Grow`): they lose no candidate and do not come back from "published" or "deleted".
`WizardOK` ties the wizard to `sessionStorage`: the draft it is about is the one stored, and
not one that was closed, which with a second invariant gives `ClosedIsLeft`
(`NeverReedited`). That one, `LateOK` (`LateIsGone`), is about a publication answered to a
wizard that was left: its draft is one no more, and a wizard that takes it up has a check
under way that will say so, unless an answer is lost. `TurnsOK` says who
will be heard: at most one submission and one check of the visit are under way, about the
wizard's own draft. With it `DraftsOK` gives `DraftIsOne` (`OneDraft`): as long as every
creation is heard, one under way belongs to the visit, which then has nothing stored, and
every draft left is the stored one or that of this creation. `RecapOK` follows a candidate
from the list of a step to the summary: what is marked as being on the server, in the step,
in the wizard or in a batch still being created, is in the wizard's draft, unless somebody
took it away; it gives `RecapIsKept` (`RecapIsOnServer`). `BusyOK` names the call that each
disabled button waits for, among those made by the component shown, an import whose draft was
dropped excepted, and gives
`BusyIsFreed` (`BusyHasCalls`). The steps are first reduced to a few kinds: an answer of the
server (`ReplyStep`), a deed of the server that answers nothing (`QuietStep`), a step's
component that asks or hears (`HeardStep`), and a turn of the wizard that keeps the
component or mounts another (`BecomesFacts`, `TurnHeard`); after that only the kinds matter.

`ListPageProofs` proves, for every list page, any elections, filters and bounds, the four
properties of `ListPage`. Its first half is about the pages' operators, one case to a page: a
control changes the query, the text or the selection (`BarOnly`), its effects ask for two lists
at most (`EffectAsked`), an answer ends the spinner (`AnswerLoads`), and what is offered is one
call (`OfferedOffers`). The steps of the tab then need these facts only, and one invariant
(`ListInv`): the spinner has a load or the elections in flight, each disabled button a call of
its own, and on Resultats the elections are heard once, while none is chosen, since choosing the
one already chosen would load nothing and leave the spinner. It gives `SpinnersEnd`
(`SpinnersHaveCalls`) and `SelectedAreShown` (`SelectionIsShown`). `NoSecondCandidate`
(`SecondNeedsEdit`) adds that the rows are numbered up to their count (`Numbered`), deleted
ones included, and that the unique index holds (`Indexed`): the candidates of an election have
different addresses, and one made of an application has the application's or was edited. So
of two that were not edited, made of one application, the second was refused.

`RowsAreRight` proves `RowsAreCurrent`: in a `calm` tab (answers heard in order, none lost, no
control touched during an action), once nothing is in flight, the rows are what the server has
for the query shown. Of this nothing is visible while calls are in flight, so its invariant
`RowsInv` says, of a calm tab, who will put the rows right. Of the loads in flight the latest
is `Good`: its answer is, or will be, what the server has for the query shown, and on Resultats
nothing says "not ready" of a list that is. When no load is
in flight the rows are `Current`. Or else a call `Will` end with a load: an action or an
import that is done, or the list of elections (`WillShow`). For each step to keep this, the
reload that an action carries must be that of the query still shown (`Reloads`), and a running
import must be awaited by some call (`Owned`). What makes the latest load the right one is that
a control's last query is that of the view it leaves (`Follows`) and that calls are numbered as
they are sent (`SentLast`). Whether the tab is calm or not, `Rest` adds what the calls, the jobs
and the pages without a search box may be (`Bounded`, `Queued`, `Served`, `Settled`).

The proofs assume only what the modules' `ASSUME`s say of the constants: finitely many
requests, votes and workers, bounds that are natural numbers (at least one for limits and
pools), entry pages and links that are pages, no election that has the name of "none is
chosen" and no address that has that of "none", a scheduler that is no worker, and a `None`
that is none of the values it stands in for, a user's record among them.

Model-checked only: liveness (`PaidIsCounted`, `RequestedGetsResults`,
`EveryElectionStops`, `PollingEnds`), which is beyond the prover. Every other property of the
runs is a theorem.

## Not modelled

The arithmetic of scores, ranks and instant-runoff rounds: pure functions of the ballots,
with no state and no race. The payment, renewal and expiry of a plan, and the review of an
organisation's KYC while it is submitted again: both are single-row protocols of their own,
named as hazards or components but without a module. Numbering of candidates. Jury scores
are upserts. Fraud scoring is heuristic; its one effect, the flag, is an action of
`Voting` and of `Results`. Analytics, exports, documents, certificates and settings read the
state or write files and messages; no other component reads what they write. Of the web
client: settings, subscription, profile pictures, score sheets, the candidate's dashboard,
charts and everything that is presentation. The composition of `Voting`, `VotePayment` and
`Results` into one module was not made: they meet in the status of a vote, which each of
them changes in the same two steps.
