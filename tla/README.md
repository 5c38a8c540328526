# PennySpy in TLA+

PennySpy drives a real browser to sign in to a bank (National Bank of Canada, "nbc", or
Wealthsimple, "ws"), answers its code prompt, downloads its transactions and serves the
files. This directory holds a TLA+ model of the service's own logic: the job manager, the
bank sessions, the way a page follows its job, the retained export files, the saved logins,
the wait for downloads, and for each bank the sign-in, the export and what is computed from
it. TLC checks the model on small instances; TLAPS proves the safety properties of the job
manager, the job feed, the bank sessions, the wait for downloads, the retained exports, the
saved logins and of a session with either bank for all instances. Paths below are relative to
the repository's `pennyspy/` unless they start with `frontend/`.

## 1. Inventory

| Component | State it keeps | Operations | Talks to | What makes it correct |
|---|---|---|---|---|
| Job manager (`jobs/manager.py`) | `_jobs`, the executor's queue and worker, `_running_by_thread`, each job's fields and its `_done` event | `submit` (with `_prune`), `get`, `_run`, `_finish`, `_update`, the log relay, `close` | called by every bank endpoint; its worker runs their work | one job at a time, in order; every job ends once and truly; no unfinished job is forgotten |
| Job endpoints (`jobs/router.py`) | one generator per event stream, with its `sent_version` | `GET /jobs/{id}`, `/jobs/{id}/events`, `/exports/{id}/file` | read jobs without the lock; read the retained files | followers learn the end; files are served whole, for as long as promised |
| Bank endpoints and jobs (`scrapers/router.py`) | nothing of their own | login, verify, export, each as a job or waited for (`_wait`) | session manager, job manager, retention, saved logins | a job drives only its own live browser; a blocked caller is told the truth |
| Session manager (`scrapers/session.py`) | `_sessions` | `create`, `get`, `remove`, `close_all`, `_cleanup_stale` | owns scrapers | one browser; none lost, none stopped twice |
| Browser engine (`scrapers/zen_scraper.py`, `scraper.py`, `base.py`) | browser, event loop thread, profile directory, download directory | start, `quit`, element access, `_wait_for_downloads` | Chrome | profile goes with the browser; a download is complete when it is reported |
| National Bank scraper (`scrapers/nbc/`) | the sign-in step reached | `start_auth`, `continue_auth`, `download_transaction_files` | the bank's pages | loads the history back to the asked date, ends, signs out |
| Wealthsimple scraper (`scrapers/wealthsimple/wealthsimple.py`) | the sign-in step reached, notes | the same | the bank's pages, its GraphQL service | picks the right export, waits for the right file |
| Wealthsimple data (`account_earnings.py`, `split_by_account_type.py`, `export_period.py`) | none (pure, or files in one directory) | earnings rows, split by account, export period | | sums and months right at their boundaries; no row lost in a split |
| Wealthsimple request headers (`graph_client.py`) | reads the ring of recent requests of `zen_scraper.py` | `select_graph_headers` | browser | headers of a signed-in request, of the right host |
| Export retention (`scrapers/export_store.py`) | directories of copies on disk | `retain_exports`, `prune_exports` | `run_export`, `export_file` | see job endpoints; old copies go |
| Saved logins (`credentials/`) | `credentials.json`, `secret.key`, one lock per process | list, create, update, delete, resolve; `resolve_login` | the login endpoints | nothing saved is lost, everything saved can be decrypted, a sign-in picks the right login |
| Job client of the page (`frontend/jobs.js`) | the last snapshot accepted, stream or poll | `start`, `follow`, `receive`, `poll` | the job endpoints | always learns the end, never a false one |
| Other pages (`frontend/*.js`) | form state, the session id in use | login, code, export, login picker, logs | all endpoints | |
| Web application (`pennyspy_api.py`, `request_log.py`, `version_check.py`) | version cache, request log | routes, static pages | | |
| Logging, output formats, bot-detection tool, packaging | | | | not concurrent, or no logic of the service |

**How they interact.** A page posts a request; the endpoint checks the session or picks the
login on the request thread and submits a job; the one worker thread runs the job's work,
which uses the session manager and the browser; the page follows the job by server-sent
events and falls back to polling. The blocking endpoints wait for the same jobs instead.

**What is hard.** Request threads, the worker, the event loop and the page interleave
freely. `submit` is several lock sections; `snapshot` reads fields one by one with no lock
while `_update` writes them one by one; a session checked by a request may be closed by a job
queued ahead of it; streams drop, and a restart forgets all jobs; two independent prunings
race with downloads; several processes may share the directory of saved logins and any of
them may die between two writes. The banks' pages move by themselves: what a scraper saw has
changed when it acts, an old error still shows when the next answer is awaited, a table grows
while it is read, and the end of a download or of a list is only inferred from silence.
`PROJECT.json` lists these hazards by line.

## 2. Modules

| Module | Models | State and actions |
|---|---|---|
| `JobLifecycle` | the abstract promise of the job service | `life`, `listed`, `told`; Accept, Start, End, Forget, Tell |
| `JobQueue` | `JobManager` and `_wait` | one action for each lock section or unlocked step: Prune, Insert, SetStage, Enqueue (`submit`); Take, Begin, Progress, Finish, SetEvent, Release (`_run`, `_finish`); Wake, GiveUp (`_wait`); Close; Age (time) |
| `JobQueueProofs` | theorems about `JobQueue` | |
| `JobFeed` | `_update`, `Job.snapshot`, the event stream, `frontend/jobs.js` | every field write and every field read is a step; the stream's generator, the wire, the page, polls, Drop, Restart |
| `BankSessions` | login, verify and export jobs over `ScraperSessionManager` and `ZenScraper`'s start and quit | request-time check, queue, and the steps of each job's work |
| `ExportRetention` | `run_export` after the sign-in, `export_store.py`, `_prune`'s directories, `export_file` | copies are made and removed file by file; the request looks at the path and opens it in two steps |
| `CredentialStore` | `credentials/store.py`, `resolve.py` | each read, key access and file replacement of a call is a step; several processes, Crash, LoseKey |
| `Downloads` | `_wait_for_downloads`, `_scan_download_dir` of `scrapers/zen_scraper.py` | a directory that Chrome writes between any two looks: List, one Visit for each entry, Decide |
| `NbcSignIn` | `start_auth`, `continue_auth` of `scrapers/nbc/nbc.py` | one step for each wait, read or click; the bank's page and the user are actions of their own |
| `NbcHistory` | `download_transaction_files` of `nbc.py`, `transactions.py` | filter, load-more loop, reading, files by account, the note |
| `NationalBank` | a National Bank session | `NbcSignIn` and, once signed in, `NbcHistory` |
| `WsSignIn` | `start_auth`, `continue_auth` of `scrapers/wealthsimple/wealthsimple.py` | passkey, code, trusted device or nothing; a poll looks for one thing after the other (`Looks`), each look and each click is a step, and the page moves in between |
| `WsActivity` | the activity export, its fallback to the feed, `split_by_account_type.py` | account rows that render one by one, ticking, the split file by file with writes that fail; a feed with rows that name no day, whose "Load more" may be missed |
| `WsGraph` | `download_account_earnings`, `graph_client.py`, `RequestLog` of `zen_scraper.py` | the browser's recorder runs beside the scraper's looks at the ring; exceptions that nobody catches (`Escape`) |
| `Wealthsimple` | a Wealthsimple session | `WsSignIn`, then `WsActivity` and `WsGraph` |
| `WsPeriods` | `export_period.py`, `buildDateOptions` of `frontend/ws.js` | operators on days |
| `WsEarnings` | `account_earnings.py` | operators from graph points to lines |
| `WsFeed` | `parse_row_header` and its kin, `normalize_financial_data.py` | operators from a row's header to a line |
| `WsData` | the three above | one task of each kind, and reference definitions |
| `JobFeedProofs`, `BankSessionsProofs`, `ExportRetentionProofs`, `CredentialStoreProofs`, `DownloadsProofs`, `NationalBankProofs`, `WealthsimpleProofs` | theorems about the module of that name, the last one about `WsData` too | |

The components are composed where they interact in ways that matter: `BankSessions` has the
job queue's order and single worker inside it (`JobQueue` proves that this is what the
manager gives it), `ExportRetention` has `submit`'s pruning and the job's end, and `JobFeed`
the manager's field writes. `JobQueue` implements `JobLifecycle` under the refinement mapping
at its end (an inserted job's life is its state; a blocked caller's answer is what it was
told). Definitions whose comment begins "Mutant of" are deliberately wrong variants of the
definition below them; no specification uses them. They are there to show that each property
would notice such a bug. The `MC*` modules give the constants their values.

Abstractions: ids are model values or numbers; of an error only whether its text is empty
matters; a file's contents are none, partial or whole; times are a small clock or "older than
its TTL"; a record of a saved login is its id, its revision and the key it was encrypted
with. In `BankSessions` a scraper's call returns or raises, at any time; the modules of the
banks open it. There the bank's site is an actor that the code cannot see into: it renders,
reloads, refuses, lets in or does nothing, at any time, and every wait of the scraper may find
it at any stage or give up. The user may act on the page or the phone too. Waits are counted
in polls. `NationalBank` and `Wealthsimple` extend their parts, which share the page, and say
what each step leaves alone: the calls of a session are jobs of the one worker and never
overlap, while site and recorder go on. The name of a file is the tuple of its parts, so that
a prefix or a number added to it makes another name and may still meet a third.

## 3. Runs

| Run | Instance | Shows |
|---|---|---|
| `job_queue` | 2 jobs, one of them waited for; 1 progress update each | jobs run one at a time and in order, callers are told the truth, what was accepted ends, and the refinement of `JobLifecycle` |
| `job_feed` | 1 job (login or export), 1 page, 1 progress update | what the page settles on is how the job ended, with the very files it ended with (`SettledIsTrue`); the page learns the end |
| `bank_sessions` | 2 banks, 2 logins, a verify, an export | one browser; none lost, reused, or told to stop twice; every job ends |
| `export_retention` | 2 exports of 2 files, TTL 1, clock to 2 | files are whole and available for the TTL; temporary and old copies go (`NothingPilesUp`) |
| `credential_store` | 3 threads in 2 processes, 2 banks, 3 calls | saves survive, keys fit, the right login is used |
| `downloads` | 2 files, any expected number, deadline 5 | what is reported as settled has been quiet for as long as asked and lacks nothing a poll saw; the wait ends |
| `national_bank` | 2 sign-in attempts, 2 codes, waits of 3 polls; 3 tables of 3 to 5 rows, 3 accounts | the scraper says of the sign-in what the bank said; an export that holds a posted row and carries no note leaves no row out (of one with pending rows only, see `nbc_shortfall`); every call ends |
| `wealthsimple` | 2 attempts, 2 codes, waits of 2 polls; 2 accounts, a feed of 5 rows, one of them without a day, 2 earnings accounts, a ring of 2 | the same of its sign-in; every row downloaded is served once; the hash sent is a graph query's; a graph that fails costs its own file; every call ends |
| `ws_data` | windows on 268 days of 3 years, graphs of up to 3 points, feeds of up to 3 rows | the window fits the choice, lines add up, rows are read as what they are about, with one wrong payee (`ToUnlisted`) |

Why these bounds are enough: the hazards are races between two submissions, a writer and a
reader, a job and the one queued before it, two prunings and a download, or two savers and a
sign-in, and each instance holds both sides and one more step of whatever can come between
(a restart, a crash, a close, time passing a TTL). In `export_retention` the clock reaches one
moment past the TTL of a directory made at 0. In `credential_store` three calls are a pair
of writes and a reader, or a save, a loss of the key and a save. In the banks' runs a wait has
a poll that finds nothing, one that finds the old page and one that finds the new; a second
code meets the error of the first; the tables have several rows of a day, pending and
unreadable rows and accounts whose file names collide; the ring is smaller than what the page
sends. A graph of three points has a reported day, a gap and another day. Jobs' progress
updates (`MaxProgress`), the clock (`MaxClock`), calls (`MaxCalls`), rewrites of a file
(`MaxSize`), sign-in attempts (`MaxAttempts`), codes (`MaxTries`) and polls (`Patience`) are the
bounded counters; `MaxRows` bounds the rows of a feed that is read. Deadlock is not checked because each system may come to rest: all requests
made and answered.

Three runs show a statement of the repository that the code does not keep:

| Run | Statement | What happens |
|---|---|---|
| `export_retention_safety_net` | `scrapers/export_store.py:62` "a failure here must never take down a scrape that otherwise succeeded" | the directory is prepared before the `try` (line 69); only a `PermissionError` is handled |
| `credential_store_loser` | `credentials/store.py:286` "Another process won the race; use its key" | the winner's file is visible before its key is in it; `Fernet(b"")` raises `ValueError`, which becomes a 400 |
| `nbc_shortfall` | `scrapers/base.py:74` the notes are "What the caller should know about the files the last download produced, such as that they cover less than was asked for." | `coverage_note` (`nbc/transactions.py:149`) says nothing when only pending rows were loaded, nor when the table stopped within the first day asked for |

Other things the models show, short of contradicting a statement:

- A login that a second process removed can come back: the first process had read the file
  before the removal and writes all of what it read. If in addition the key was lost before,
  the removal empties the file, so the look for orphans passes, a new key is made, and the
  login that comes back is encrypted with a key that is gone. `KeyFits` and `SavesSurvive` are
  stated of what was not undone in this way; the store's lock is per process (its
  docstring promises safety across request threads only).
- A crash, or a full disk, between creating `secret.key` and writing it leaves an empty file
  that every later call refuses. No login is lost by it, since none was saved yet.
- A browser that fails to start leaves its profile directory (`NoLostBrowser` names this one
  exception).
- `_finish` decides how a job ended by the truth of its error text (`jobs/manager.py:177`): a
  `JobFailed` with an empty text, which `str(e)` of an exception without one is, ends as done: a
  login without a session, an export without files, of which the page says that it finished
  without any. `SettledIsTrue` asks for the files that the job has, here none.
- What `prune_exports` or `mkdtemp` raises ends an export before the `try` whose `finally` gives
  the session up (`scrapers/router.py:204`): the session stays listed and its browser up, which
  `NoLostBrowser` excepts (the job's end is "unready").
- `quit` swallows a browser that will not stop (`scrapers/zen_scraper.py:351`): "quit" in
  `BankSessions` is a browser that was told to stop, and `OneBrowser` is about those that were not.
- Wealthsimple's locators are tried one after another (`scrapers/zen_scraper.py:441`), and the
  label of the passkey page's button is on the trusted-device page too. A trusted-device page
  that is drawn after the look for it and before the look for the label is therefore clicked
  away for a code (`wealthsimple.py:1108`). `SignInIsTrue` is stated of a page that stood when
  the poll began.
- A refused code may stay in the field, and the button may be found and clicked although the
  page sends the code in between (`wealthsimple.py:1040`): the model has both. It assumes that
  the page takes its button away when it sends by itself, as the comment there says, so that the
  click on the button it found then goes nowhere.
- The fallback feed is read no further than a last row whose header names no day, such as
  "Scheduled activities", or than the moment at which no "Load more" is found
  (`wealthsimple.py:1226`): rows after the asked date may be left out. `RowsServedOnce` excepts
  both, and a feed in which no row was seen.
- The event stream may end without having sent the end, since its generator sends one version
  and tests another (`jobs/router.py:46`); the page recovers by polling (`PageLearnsTheEnd`).
- A snapshot of a login may say done and lack its session id, since `result` is copied before
  `state` is (`jobs/manager.py:84`). The page settles on the first snapshot that is finished and
  looks no further, so it would be left without the session id that the repository's
  `README.md:75` promises. `SettledIsTrue` excepts the snapshots that were begun before the job
  was over; a model's copy knows whether it was (`early`).
- Stale sessions are cleaned up by `create` only, which a login reaches after `close_all`: an
  abandoned browser stays until somebody logs in (`scrapers/session.py:59`).
- An account whose row renders after the dialog was read, in a dialog without its box for all
  accounts, is left out of a Wealthsimple export (`RowsServedOnce` is stated of what arrived).
- In a Wealthsimple export a start date after today costs the activity files too, and so does
  whatever is raised while the earnings are fetched that is neither a `ScraperError` nor an
  `EarningsDataError`: the disk's errors, the browser's own (`zen_scraper.py:369`, 837), an
  `AttributeError` of a payload of an odd shape (`account_earnings.py:318`).
  `_earnings_alongside_activity` handles none of them (`FailureCostsOnlyItself` names them).
- `_load_more_until` stops at the first row of the asked day, so the fallback is complete only
  for the days after it.
- `ws.js` sends the UTC date of a local moment: east of UTC in the morning, it is a day early
  and the server takes the next longer window (`WindowFitsChoice`); never a shorter one.
- No line of an earnings file ever says that its day was not reported: a day carried forward
  has no change and therefore no line.
- A "Cash back" row is read with payee and type swapped when no other row of the window names
  the account it came from: `ReadAsMeant` assumes that one does.
- A transfer from one of one's own accounts, shown with its two legs, to another that is not in
  `INTERNAL_ACCOUNTS` ("From: TFSA, To: RRSP") is read with the latter as both account and payee.
  `ReadAsMeant` says so (`ToUnlisted`), and that nothing else is wrong with such a row.
- Copies retained in the fallback directory are never pruned, since `prune_exports` looks in
  the preferred directory only, and a copy that failed halfway stays until it is pruned.

## 4. Fairness

Safety is checked and proved without fairness. Liveness assumes only what the runtime gives:

- `JobQueue`: weak fairness of the worker (an executor thread is never abandoned, and work
  returns or raises: the waits have timeouts, but a single call to the browser has none,
  `zen_scraper.py:101`, so that it answers is assumed here and in the banks' modules), of a
  request thread that is inside
  `submit`, and of the timed `_wait` (it times out after an hour). Nobody has to submit, and
  `close` need not happen.
- `JobFeed`: weak fairness of the worker, the generator, the page and the request threads.
  Strong fairness of `PollReceive` only: a poll that is sent again and again is answered in
  the end. Streams may drop at once, always.
- `BankSessions`: weak fairness of the worker, of submitting after the check, and of time (`Age`).
- `Downloads`: weak fairness of the waiting loop; Chrome need do nothing.
- `NationalBank`, `Wealthsimple`: weak fairness of a call in progress (the worker's thread). The
  bank, the user and the recorder of requests need do nothing, for ever, and nothing need fail
  (`Break`).
- `ExportRetention`, `CredentialStore` and `WsData` state safety only and assume none.

## 5. Proofs

**The job manager.** `JobQueueProofs` proves, for every set `Job`, every `Blocking \subseteq Job` and every
`MaxProgress \in Nat` (the assumption `JobAssumption`; `NoJob` is not a job):

| Theorem | Statement |
|---|---|
| `TypeCorrect` | `Spec => [](TypeOK /\ WorkerSlot)` |
| `Invariant` | `Spec => []Inv` |
| `OneRuns`, `Listed`, `Crashes` | `[]OneAtATime`, `[]UnfinishedIsListed`, `[]CrashIsFailure` |
| `Answered`, `OneFindsItIdle` | `[]AnswersAreTrue`, `[]OnlyOneFindsItIdle` |
| `Final` | `FinishedIsFinal`, an action property |
| `InOrder` | `[]RunsInOrder` |
| `Implements` | `ImplementsLifecycle`: `JobQueue` refines `JobLifecycle` |

The argument. None of the properties is inductive alone: that one job runs at a time says
nothing of a job that is in the queue twice. `Inv` adds what the code relies on. `WorkerSlot`
ties the worker's place in `_run` to its entry in `_running_by_thread`. `WorkerInv` ties that
place to the state of the job it holds and says that every running job is held. `QueueInv` says
that a job is handed over once: queued jobs are in state queued, distinct, and not held, and
nothing happens to a job before its hand-over. `OutcomeInv` ties the end a job shows to how
its work ended, and the event and the callers to jobs that ended. `ListInv` says that pruning
spared the unfinished. `Inv` is preserved by each action; the other safety properties then
follow from it, or from it and themselves. Order needs one more fact, `OrderInv`: whatever was
handed over before job `j` began its submission has begun, or stands before `j` in the queue,
or was cancelled by `close`. The refinement takes each action to a lifecycle action or to a
stutter: Insert to Accept, Begin to Start, Finish to End, Prune to Forget, Wake and GiveUp to
Tell; Begin needs the single worker and `WorkerInv`, Prune the definition of a stale job, Wake
`OutcomeInv`.

**The bank sessions.** `BankSessionsProofs` proves, for any sets of banks, logins, verifies and
exports that are disjoint (`SessionAssumption`): `TypeCorrect`, `OneIsUp` (`OneBrowser`),
`UsesOwn` (`UsesOwnLiveBrowser`) and `NoneIsLost` (`NoLostBrowser`). The invariant's core is
`Phase`: which browsers are up at each step of the worker. They are exactly the listed
sessions' while the worker is idle or serves a session, exactly those `close_all` has yet to
quit while it runs, none when a login is about to start its own, and that one until it is
listed. Around it `Waiting` says that a request stands in the queue once, `Untouched` that a
login has nothing to its name before it runs (so its browser is started once), `Named` that a
verify or export names a login that is done and of its own bank (so a session that is given up
does not come back), and `Counted` that a browser was quit once or never.

**The wait for downloads.** `DownloadsProofs` proves `ReportSettled` (`ReportIsSettled`) for any
finite set of files and any settling times and deadline (`DownloadAssumption`). A scan is true
of no single moment, so the invariant says what its readings are worth: a size that was read
is the file's, or the file has changed since (`Fresh` in this poll, `Kept` through the
silence); a file of the last listing is finished while silence lasts (`Quiet`), is read by this
poll (`Read`), and one that a scan passed over has become a finished one (`Accounted`). That
as many readings are as many files (`AsMany`) takes the library's theorem on injections.

**The job feed.** `JobFeedProofs` proves `TypeCorrect` and `Settled` (`SettledIsTrue`) for any
number of progress updates. A snapshot is of no single moment, so the argument is one of
order. `Over` says that a state that is an end is the worker's last write but for the version,
so that result and files are then what they stay, and `Due` and `Counted` which writes it still
has ahead and how far the version may go. `Reading` says of a copy that is
being made that the end it shows, if it shows one, is the job's, that it has the job's files once all fields are
read, as the state is read before them and stored after them, and its result if the job was over
when that was read. `Sent` and
`Shown` carry this along the wire to the page, `Shown` with the one exception of a failure that
the page made up because a restart lost the job.

**The retained exports.** `ExportRetentionProofs` proves `TypeCorrect`, `Whole` (`ServedIsWhole`),
`Available` (`AvailableForTtl`) and `Tidy` (`NothingPilesUp`) for any sets of exports and
of files, any TTL and any bound on the clock (`RetentionAssumption`). `Kept` says where the
files of a finished export are until their time is up: a copy whole in its directory with the
time it was made at, or the scratch directory. What could take them away must have seen that
the time is up: `Doomed` for the submission that forgets a job, `Forgotten` for a job that is
no longer listed, `Removing` for `prune_exports`; as the clock only goes forward, it still is
when the removal comes. `Asked` says the same of a request between its two looks. `Swept` says
what the pruning passed over is not too old, `Working` and `Temps` whose a directory is.

**The saved logins.** `CredentialStoreProofs` proves `TypeCorrect`, `Survive` (`SavesSurvive`),
`Fit` (`KeyFits`) and the action property `RightLogin` (`LoginIsRight`) for any sets of
threads, processes and banks and any number of calls (`StoreAssumption`). What a thread has
read may be out of date, and the invariant says how much. `Own`: while no other process has
written it is not, since the lock is held (`Locked`). `Sealed` and `Open`: across processes the
records may be stale, but as long as there is no key nothing can be added, so that whoever has
read has all the wanted logins that are on disk, and who makes the key has seen that there are
none; once there is a key, every wanted login has it, on disk and in whatever was read. `Keyed`
says that one thread makes the key and that who encrypts has the one on disk, `Numbered` that
a new login's id is nobody else's, and `Witnessed` that what a thread decides by was the state
of the store at some moment of its call.

**The National Bank session.** `NationalBankProofs` proves `TypeCorrect` (`BankTypeOK`),
`SaysWhatTheBankSaid` (`SignInIsTrue`) and `NotedOrWhole` (`NoSilentGap`, of exports that hold a
posted row) for any waits, numbers
of attempts, codes and rounds, and any tables and accounts, assuming that the page takes an old
error back before the grace that `nbc.py` gives it is over and that a table's posted rows stand
newest first, as `_load_more_until`'s stopping rule does (`SignInAssumption`,
`HistoryAssumption`). Of the sign-in, `Entered` says that only the bank's consent leads into its
app, `Sending` that what is on its way to the bank was sent from the page that shows, and a
code is the last one typed; `Errors` that an error on the code's page is the answer to this
code, or an old one that is gone before the grace ends; `Counted` that who waits for an answer
has typed a code. Of the export, `Reached` says that the rows in hand go past the asked day if
the loop says so, which in a sorted table is that nothing of it is left; `Noted` that without
either of these and without a note the rows in hand have one of that day; `Sorted` that the
files written so far hold the rows of the accounts they were written for, each file one
account's. For that `write_account_csvs` must find a name that is not taken (`NameIsFree`), by
the library's pigeonhole principle.

**The Wealthsimple session.** `WealthsimpleProofs` proves `TypeCorrect` (`WsTypeOK`),
`SaysWhatTheBankSaid` (`SignInIsTrue`), `EachAccountOnce` (`RowsServedOnce`), `HashIsOfItsQuery`
(`HashFitsQuery`) and `EarningsCostNoMore` (`FailureCostsOnlyItself`) for any waits and codes,
any accounts, types and names of files, and any limit of the ring, assuming that the dated
rows of the activity feed stand newest first, as `_load_more_until` does (`SignInAssumption`, `ActivityAssumption`,
`GraphAssumption`). Of the sign-in, `Coming` says what may be on its way to the bank at each
step, `Standing` that a poll which began with the trusted-device page finds it with its next
look, and `SentOnce` that a code that is in the field and not on its way was not sent: what the
page sends by itself takes the button with it. Of the split, `Splitting` says that the files served and those to come
have each account once between them, and that the parts of the file at hand are other files,
disjoint, inside it, and hold all rows of their types; so the original can go when they cover
it and can be served whole when anything fails before. It needs `UnusedIsFree`: `_unused_path`
finds a name that is no file's, again by the pigeonhole principle. `Served` keeps the result
while the earnings are read. Of these, `Even` says that what was answered is written but for
the account at hand, `Chosen` that the hash goes with the request that was chosen, and
`RingStaysBounded` and `BestIsRequest` what `RequestLog` and `select_graph_headers` do.

The same module proves `WindowFits` (`WindowFitsChoice`) on every day of the calendar, where
the run `ws_data` tries 268. Its one assumption is that today is such a day (`DataAssumption`).
The lemma `Reaches` turns the server's comparison of dates into a count of months and a
comparison of days of the month, month ends being alike; `OptionIsNear` says that the page's
date is at most a month off the window picked, and reached by it unless UTC is a day behind;
`WindowIsRight` puts the two together.

`RowsRead` (`ReadAsMeant`) is proved for feeds of any length. `FieldsRead` says how the fields of
each shape of header are told apart, `AccountFound` that the account is found without knowing
any, so that the first pass gathers exactly the accounts that the feed names, `HeaderParsed`
that with these every header is parsed into what it is about, and `LineMeant` that normalising
makes the line of it. `MeaningsAssumption` says which rows there are: accounts and types have
names, and different ones, and securities are the rows with a security's type. The premise of
the property is that the feed names, as the account of some row, each account that money moved
from; its one exception are the rows of `ToUnlisted`: `parse_row_header` takes the leg "To" for
the row's account, so that of a transfer from one of `INTERNAL_ACCOUNTS` to an account that is
not in that list the latter becomes payee and account both.

`AddUp` (`LinesAddUp`) is proved for graphs of any length over any days and amounts, of which
`GraphsAssumption` says no more than that they are integers. The argument: the last point of a
day exists (`LastOfDay`), so the closes are numbers (`ClosesOf`); `fill_missing_days` gives every
day the last close up to it (`Held`, `FillsOnce`), by induction over the days; so the lines of
a file are the halves of what its reported days changed and no others (`Lines`); those of a day
come to its rounded change (`DayAddsUp`), since the earning is what the deposit leaves of it;
and as rounding is half a cent off at most (`Rounded`), so is the file for each of its days
(`ErrorOfDays`). The sums are those of the library (`SumFunction`), which adds in an order of
its own choosing: `SumIs`, `AddsSomething` and `SumOpens` say that it does add, and `SumWithout`
that any term may come first. Induction is stated over sets, which the library's theorem on
well-founded orders allows: `Climb` over the numbers, `Grow` over the subsets of a finite set.

Every safety property that a passing run checks is thus a theorem. Left to TLC is all liveness,
since fairness and ENABLED are out of the prover's reach.

## 6. Not modelled

- `JobManager.close` is in `JobQueue`, although only the tests call it: the service never
  closes its manager.
- Reading errors of `credentials.json` and `rmtree` failures while pruning
  (`ignore_errors=True`): `NothingPilesUp` holds where removal succeeds.
  An update of one secret only, of a login whose key does not fit: `KeyFits` shows there is none.
- `POST /scrape`'s reading of its files: it follows the job's end at once, on the same files.
- Masking of user names, logging, response bodies, QFX and CSV layout, page markup, packaging,
  the static pages with their request log and version number (`pennyspy_api.py`): no property
  depends on them.
- Selectors, page scripts and pixels of the bank sites: not code of this system's own. What the
  site may do is modelled; how an element is found and clicked is not.
- Wealthsimple's endpoint that serves earnings alone: it runs the same queries as the export.
- What a GraphQL response says: an error is a graph that did not answer, an odd shape that too
  or an exception that costs the export (`Escape`).
- A browser call that never returns (`zen_scraper.py:101`): liveness assumes that it does.
- A day that ends between the page's choice of a window and the export, or a server in another
  zone than the page: both have one "today" in `WsPeriods`.
- The bot-detection checker: nothing in the service calls it.

## 7. Plan

What is left, in order of importance:

1. `BankPage`: the flow of a bank page over `JobFeed`'s outcomes, such as a session that the
   page forgets when an old verify fails after a new login.
2. The application's own state in `pennyspy_api.py` (the version cache).
