# A verification project for Polariscope 2

Polariscope is a Rails application in which users write browser tests, compile
them into runs, and have an external service, the *Web Action API*, execute
them.  This directory holds TLA+ models of the parts of it in which several
actors, failures or long sequences of legal calls meet, the TLC configurations
that check them on small instances, and TLAPS proofs of the results that matter
most for every instance.

The program is written in Ruby; the models are translated from its models,
controllers, validators and rake tasks.  The JavaScript under `public/assets` is
compiled from the gems it uses (jQuery, Bootstrap, Active Admin) and holds no
logic of the program.

## The system

| component | code | state it keeps | operations | what is hard |
|---|---|---|---|---|
| order submission and polling | `lib/tasks/queue_run.rb` | `test_statuses`, `action_statuses` (`api_id`, `success`), the API's orders | a pass: poll test statuses, poll action statuses, submit new ones, requeue | a chain of dependent requests any of which may fail, lose its answer or be cut short by a crash; sibling browsers; age limits; query limits |
| job chains | `lib/tasks/*_sync.rb`, `prune.rb`, `backup.rb`, their rake tasks, `all.rake`, delayed_job | `delayed_jobs` | each job queues its successor; rake starts a chain once | retry of a job that has already queued its successor; a crash between the two; guards that look at the table and then act |
| scheduled tests | `app/models/scheduled_test.rb`, `lib/tasks/schedule_scheduled_tests.rb` | `scheduled_tests.next_test`, queued `pop_off` jobs, runs | create, edit, destroy, pop off, restart | a job queued for an old date; retries; restart repairs |
| catalogues | `lib/tasks/*_sync.rb`, `concerns/in_api.rb` | `archived` rows of activities, browsers, selectors, ... | sync | rows hidden by a default scope that a name lookup cannot find |
| tests and pointers | `app/models/test_action.rb`, `testset.rb`, `test_actions_controller.rb` | test actions in order, pointers from a test action to another testset | create, edit, copy, reorder, sort, destroy | cycles through several testsets; a reorder made of one transaction per step, any of which may be refused |
| run compilation | `app/models/run.rb`, `run_test.rb`, `run_test_action.rb`, `run_object_identifier.rb` | `runs`, `run_tests`, `run_test_actions`, their snapshots | compile a run, prune, derive a verdict | what a pointer expands to; which steps are dropped |
| variables | `app/models/data_element*.rb`, `test_action_datum.rb` | keys and values per user and environment | create, edit, copy, use in a run | uniqueness checked without a lock; a copied step brings a variable along |
| verdict of a run | `app/models/run.rb` | none | `falsey_test_status` | it reads what passes at different times have written |

The rows of `test_statuses` and `action_statuses` are the only connection
between a run and its execution: compiling a run creates them without an id,
`QueueRun` finds those without an id and submits them, then finds those with an
id and without a verdict and polls them.  The catalogue sync interferes because
an archived browser disappears from the association `test_status.browser_type`.

### What makes each component correct

- **Order submission and polling.**  The API executes an order only if it is
  complete and the database knows it; a row is submitted once; a verdict is the
  API's or the effect of age; every row is submitted and every verdict recorded
  in the end.
- **Job chains.**  A job is executed by one worker at a time; a chain ends only
  where delayed_job gives its job up, and not at all if the job queues its
  successor in an `ensure`; a queue has no more chains than rake tasks, crashes
  and, where the successor is ensured, failures account for.
- **Scheduled tests.**  A schedule has one loop of jobs, whatever its users do,
  and no more than rake and crashes account for otherwise; runs keep the
  distance of the recurrence; a due job is run; a destroyed schedule is
  forgotten; restarting with rake leaves no schedule behind.
- **Catalogues.**  What readers see is what the API listed; no name is seen
  more often than there are syncs at once.
- **Tests and pointers.**  No test leads back to itself over up to three
  pointers, a pointed-to test is kept, the steps of a test are numbered 1 to n
  when no reorder of it is under way, unless two requests race or a reorder met
  a step whose activity is archived; a reorder ends in the order asked for; what
  a request does in several statements amounts to edits of lists of steps.
- **Run compilation.**  A run is the expansion of its tests in the order
  chosen, less what cannot be executed; the run of a checked request has its
  objects.
- **Variables.**  The value a user has entered is the one his runs find.
- **Verdict of a run.**  A run is shown as passed only if all of it was executed
  and passed on every browser.

## Modules and the code they model

| module | role |
|---|---|
| `OrderSync` | `QueueRun`, the rows it reads and writes, the API, the calendar, crashes; implements `TestLifecycle` |
| `TestLifecycle` | abstract: what the submission promises each test of a run |
| `JobChains` | `delayed_jobs`, its workers, the self-queueing jobs, the guards of rake |
| `ScheduledTests` | schedules, their users, the `pop_off` loop, `rake schedule_scheduled_tests` |
| `CatalogueMirror` | abstract: what a catalogue promises its readers |
| `CatalogueSync` | the `parse` of the six catalogue syncs; implements `CatalogueMirror` |
| `TestOutline` | abstract: tests as lists of steps, edited by one change at a time |
| `TestSteps` | collections, tests, steps and pointers under the requests of several users; implements `TestOutline` |
| `Variables` | the variables of users and whether they have a value |
| `RunCompile` | extends `Variables`: the check of a request to run, and `Run#compile` |
| `MC*` | model values and constant expressions for TLC |
| `OrderSyncProofs`, `LifecycleProofs`, `JobChainsProofs`, `ScheduledTestsProofs`, `CatalogueProofs`, `TestStepsProofs`, `RunCompileProofs` | theorems |
| `Counting` | lemmas on naturals and finite sets that several of these use |

The components meet at few places, and each module keeps the side it needs:
`OrderSync` has the one chain of passes (`chain`, `attempts`) that `JobChains`
describes for every queue, and the archiving of a browser that `CatalogueSync`
describes; `CreateRun` of `ScheduledTests` is one source of the `CreateRun` of
`OrderSync`, and so is `CompileRun` of `RunCompile`, which gives a test the
steps whose statuses `OrderSync` starts from; `RunCompile` in turn has the edits
of tests that matter to a compilation, without the races that `TestSteps` is
about.  Definitions named *Mutant* are deliberate faults, used to show
that a property can be broken; no behaviour contains them.

### OrderSync

| code | state or action |
|---|---|
| `test_statuses.api_id`, `success`, `created_at` | `tsApi`, `tsSuccess`, `born` (per run test: its statuses are saved together) |
| `action_statuses.api_id`, `success` | `asApi`, `asSuccess` |
| default scope of `browser_types` | `archived` |
| the Web Action API's orders (external) | `orders`: steps and objects received, lock, results, verdict, gone |
| `get_outstanding_tests` | `Poll`, `PollTest`, `PollTestSteps` |
| `get_outstanding_actions` | `LoadActions`, `PollActions` |
| `give_up_on_old_statuses` | `AgedOut`, `FailOld`, `GivesUp`, `GiveUp` |
| `post_new`, `post_run_test`, `post_run_test_action`, `post_run_object_identifier`, `unlock_run_test` | `LoadPosts`, `PostOrder`, `SaveOrder`, `PostStep`, `SaveStep`, `PostObject`, `Unlock` |
| `queue_next`, an exception out of `work`, rake | `Requeue`, `Fail`, `StartRake`, `BeginPass` |
| `Run#falsey_test_status` | `falsey_test_status`, over any set of run tests |
| the constants `STATUS_*_WINDOW` | `loadedAt`: evaluated when a process boots |

Every POST or PUT has three outcomes beside success: refused, lost before it
took effect, lost after.  A GET and the saves of its answer are one step, which
is sound because only the one pass writes those columns.  The id the API gives
a step is represented by the id of its order: steps of different orders have
different ids, and an `action_status` is found by id in the code as here.
The object, its data and its siblings are posted by several requests that have
the same effect on the pass when one fails; they are one `PostObject`.
Two assumptions: an answer below 400 to a POST carries the id, and one chain of
passes runs at a time.  The latter can fail (see *JobChains*, `QueueProtected`,
and the hazard at `queue_run.rb:31`).

`TestLifecycle` has what the user of a run may rely on, whatever orders, passes
and crashes it takes: a row is executed at most once and by a whole order, its
verdict is the execution's and is shown once, and only age replaces it by a
failure.  The refinement mapping takes `shown` to `tsSuccess`, `old` to the rows
that have reached the age (`Old`), and `execution` to what the released orders
posted for the row say (`Execution`): waiting without one, the verdict of the
only one, and a value the abstract specification does not have when there are
two or when one was released before it was complete.

### JobChains

A row of `delayed_jobs` has a queue, its attempts and a lock.  `Reserve`,
`Destroy`, `Retry` are delayed_job's; `Succeed` and `Raise` are the execution of
`work`, whose successor is queued at the end (`prune.rb`, `backup.rb`,
`queue_run.rb`) or in an `ensure` (`Ensured`: the `*_sync.rb`).  The backup
rescues every error of its work (`Rescued`).  `Guard` and `RakeWork` are the
prerequisite task and the first execution, which runs inside rake.  A worker
may die at any time between taking a job and its row being destroyed; the lock
then expires, which the model does at once.  The times of the jobs are left
out: any waiting job may be next.  Three things give a queue a second chain: two
rake tasks that pass their guards at once, a worker that dies between queueing
the successor and the destruction of its own row, and, for an ensured job, a
failure, which is retried though its successor is queued.  `ForksAreCounted`
says that nothing else does, and that each does so once.

### ScheduledTests

The clock counts days; the hour by which `valid_test_date` tolerates a past
date is `Slack`, the months ahead it allows `Horizon`, and the 0.01 day of
`reset_run_time` is later on the same day.  `Create` saves the row and queues
its job in one transaction (`after_create`); `Edit` saves the row only;
`Destroy` leaves the job.  A worker that starts a job loads the row
(deserialization of the delayed receiver; a missing row destroys the job) and
then takes the steps `CreateRun`, `SetWhenToRun`, `ScheduleNextTest`, each of
which may fail or be cut off.  `update_column` writes the date of a row that may
have been edited since, and nothing for one that was destroyed.  The rake task
is `Guard`, the two corrections (`ResetRunTime` over rows queried before),
`LoadOutstanding` and `Schedule`.  Time does not pass while dates are corrected:
the 0.01 day (a quarter of an hour) is taken to be long enough for that.
`Loops(s)` are the jobs of a schedule that have not queued their successor yet:
what goes on for ever as long as there is one.  `LoopsAreCounted` says how many
there may be: one, and one for each rake task and each worker that died.

### CatalogueSync and CatalogueMirror

The syncs of activities, event types, browser types, selectors, object types,
sibling relationships and did-you-mean types run the same algorithm over another table;
`Unique` tells the one that validates its key (`BrowserType`) from the others.
`Find` is `find_or_initialize_by` with the validation of `save!`, `Insert` the
`INSERT` that follows; a row that is found is already unarchived and keeps its
name, so saving it changes nothing the model holds.  `LoadInvalids` and
`Archive` are the second half of `parse`.

`CatalogueMirror` has only what a reader sees and what each sync was told last:
a name appears only if some sync's list holds it and disappears only if some
sync's list does not.  The refinement mapping takes the abstract `names` to
`SeenNames`, the names of the rows that the default scope lets through.

### TestSteps and TestOutline

| code | state or action |
|---|---|
| `collections`, `testsets.collection_id` | `collections`, `home` |
| `test_actions.testset_id`, `position`, `pointer` | `test`, `pos`, `pointer` |
| default scope of `activities`, seen from a step | `hidden`: its activity reads as nil |
| the validations of a step, `manage_identifiers` | `Valid` |
| `prevent_infinite_pointing`, `has_pointers` | `LeadsBack`, `HasPointers` |
| `TestsetsController` create, destroy, update | `NewTest`, `DropTest`, `RenameTest` |
| `change_order` and the sort after it | `ChangeOrder`, `MoveStep`, `SkipStep`, `SortSteps` |
| `after_save :sort_test_actions_order` | `SortTest` |
| `ActionSync` archives an activity | `ArchiveActivity` |
| `TestActionsController` create, copy, update, destroy | `NewStep`, `Repoint`, `DeleteStep` |
| `CollectionsController#destroy` | `DropCollection` |

A save runs in a transaction that validates against what it read and then
writes.  The schema has no foreign key and no unique index on these tables, so
nothing stops a commit that another one has made illegal.  Every edit is
therefore two steps: the request reads and validates (`Begin`), and its
transaction commits (`Commit`).  `stale` are the sessions whose reading is out
of date, `raced` records that one of them has committed; the properties speak of
behaviours where none has.

A reorder takes whatever was typed next to each step, in the order the page
shows them: a rearrangement, the same number twice, one beyond the last, or a
blank, which `to_i` makes 0.  `change_order` loads each step when its turn comes
and moves it by `insert_at`, a transaction of its own; then it loads all steps
and moves each to its place by where it was when it was loaded.  Other requests
may come in between any two of these.  An update of a test sorts its steps as
well, but in `after_save`, within the one transaction that the update runs in:
all of it is committed, or none.

`insert_at` shifts the other steps before it saves the one it moves.  A step
whose activity was archived in the meantime cannot be saved: the activity must be
present, and `manage_identifiers` asks it what it requires.  The shift is then
committed, the request ends, and the sort is not reached.  `halted` has the tests
this happened to, for good: no property claims an order of theirs again, though a
later sort may well restore it.

Sorting is safe as long as no step is found above its place, that is, unless a
blank put one at 0.  Then it shifts steps by positions that it has changed itself
since it loaded them, and two steps may share one until it has gone through all
(`Unfolding`).

`acts_as_list` is a gem: `Bottom`, the shifts of `insert_at` and the closing of
a gap are modelled from how the code uses them.  The moment between the save of
a copied step and its `move_to_bottom` is left to it.  A collection destroys
its tests one by one; a test that `has_pointers` refuses rolls all of it back.

`TestOutline` has no rows, positions or requests: a test is a list of steps, and
an edit adds, removes, points or moves one of them, or adds or removes tests, at
a moment at which it is allowed.  The refinement mapping takes `steps[t]` to
`Listing(t)`, the steps of `t` by position.  Only commits change the lists: each
is one edit, an `insert_at` being a `MoveStep`, and all else is a stutter.  Where
steps share a position a page shows them in any order, so the outline leaves the
order of the steps of such a test open (`unsettled`: the `halted` tests and those
that are `Unfolding`), but never which steps it has; `Unsettle` opens an order or
finds it again.  Once requests have raced, the outline promises nothing.

### Variables and RunCompile

A step names a variable by its row, but the run looks up the value by the key
among the rows of the user who runs.  `BeginSave` and `EndSave` are a save of a
`data_element` with the validation `unique_key_per_user`, in two steps for the
same reason as above.  A value is `own`, or `ownerless` when `CopyStep` made it:
`duplicate_action` gives it no user.

`CheckRun` is `check_owners_have_variables`, which looks at the steps the chosen
tests list; `CompileRun` is `Run#compile` in a later transaction, with up to
`MaxWrites` writes in between.  `ScheduledRun` compiles without a check and with
the user nil.  Rows that are not valid are dropped without an error, for they
are saved through `has_one` and `has_many`: a step whose activity is archived, a
pointer inside a pointed-to test, an object whose variable the user has no value
of.  Nothing that happens to a run later matters to a compilation, so a
behaviour ends with the compiled run.

## What is checked

Bounds are constants of the modules and are named there.  Small as they are,
each run reaches the case it is about, which its mutant confirms: every
property of a passing run is violated, under that run's bounds, once one
definition is replaced by the fault named in `PROJECT.json`.

| run | bounds that matter | shows |
|---|---|---|
| `order_safety` | 1 run test, 2 browsers that may both be archived, 1 step with an object, windows of 0 and 1 day, 3 days, 2 attempts, query limit 1, and at most one trouble (`MaxTroubles`): a lost or refused request, a crash, or an order that vanishes | types; only complete and tracked orders are released; ids are written once; passed verdicts are real, failed ones real or old, recorded ones final but for age; a passed run was executed whole; the life cycle is implemented |
| `order_progress` | 2 run tests, 1 browser, post limit 1, 1 fault, 1 crash, 2 attempts | every row is submitted, every verdict recorded |
| `chain_survival` | a sync and the run queue, 2 workers that both serve both queues, 2 failures, 1 crash, 2 attempts | rows and locks; how chains end; how many there are |
| `schedule_edits` | 1 schedule, 2 recurrences, 2 workers, 4 days, 2 edits, 2 failures | one loop per schedule; spacing of runs |
| `schedule_progress` | rake, 1 edit, 1 crash, 2 days, 2 attempts | due jobs run; destroyed schedules die out; how a loop ends; rake leaves none behind but a date of the last hour; how many loops there are |
| `catalogue_one` | 3 names, 2 changes of the list, 2 aborted passes | no name seen twice; a pass mirrors its list; the list is mirrored in the end |
| `catalogue_unique` | 2 names, 2 syncs at once, 2 changes, an aborted pass, a validated key | the mirror is implemented; a key has no more rows than there are syncs |
| `test_steps` | 1 collection, 3 tests, 3 steps, 2 sessions, 1 archived activity at a time, 1 request that begins while another is under way, after a race or after a reorder that met an archived activity (`MaxOverlaps`); typed are a rearrangement, a number beyond the last with a blank, or blanks only | pointers close no short circle; nothing dangles; positions are a numbering; a reorder ends as asked; the outline is implemented |
| `run_compile` | 2 users, 2 keys, 2 variables, 2 tests, 1 activity, up to 2 steps each and 3 in all, 1 write between check and compilation | values are found; checked runs keep objects; runs are the expansion of their tests, in the order chosen |

One run test or schedule is enough where rows do not interact, three tests are
the longest circle the code looks for and three steps the least that close it;
two browsers are
the least that makes siblings, two attempts the least that distinguishes a
retry from the last attempt, two names the least that lets one be saved and the
next fail.  The table of jobs has a place for every job the other bounds can
produce, so no step waits for one.

The lists of numbers in `test_steps` are one of each kind that `insert_at` tells
apart: the rearrangement moves every step; 4 is beyond the last of two steps and
leaves a gap until the sort, 0 is above the first; three blanks make the sort
begin with steps above their places.  The theorems of `TestStepsProofs` are about
all lists.  With one step hidden at a time a reorder can fail at its first, second
or third step, and in the sort that follows.  The run has 645,336 distinct states.

One trouble is enough for `order_safety` because each is followed by every
continuation, retries and restarts included; the theorems of `OrderSyncProofs`
lift the bound.  `order_safety` uses symmetry over the browsers, which are both
archivable or both not, `test_steps` over tests, steps and sessions,
`run_compile` over users, keys and tests: none of these is ordered by the code
nor told apart by a configuration, and the three runs check no liveness.

Three kinds of configurations do not check deadlock: in `Schedule*` the system
rests when the clock has reached its bound and nothing is due, in `TestSteps`
the ids of tests and steps run out, and `RunCompile` ends with a compiled run.

### Disagreements with the repository's own words

| run | what the repository says | what the code does |
|---|---|---|
| `order_vanished` | orders not in the API are auto-failed after a window (`queue_run.rb:3`) | a worker that has run longer than the window never does it |
| `chain_fork` | the job queue is protected (`sync_actions.rake:5`) | a sync that raises is queued by its `ensure` and retried as well |
| `catalogue_return` | any new are added, or modified (`browser_sync.rb:28`) | a browser that returns is rejected because of its archived row, and the pass with it |

Others were met while modelling.  They are behaviours of the models, which the
passing properties admit, and have no run of their own:

- a passed test status is failed by age when one of its steps is still pending
  (`queue_run.rb:183`; `VerdictChangesOnlyByAge` says exactly that much);
- an archived browser makes every pass raise at its first row, until the job is
  destroyed (`queue_run.rb:50`), and a sibling without an order makes the poll
  raise (`queue_run.rb:179`); this is why `order_progress` has one browser and
  archives none;
- the "infinite loop" of a schedule ends when `Run.create!` fails as often as a
  job may (`scheduled_test.rb:107`; `LoopEndsOnlyByAttempts`);
- a schedule created while rake looks at the table is queued twice
  (`schedule_scheduled_tests.rake:7`): the rake task that `LoopsAreCounted`
  counts;
- a date within the last hour counts as one after now
  (`valid_test_date_validator.rb:3`), so a schedule that a user moves there while
  rake is at work is left out of rake's query (`RakeLeavesNoneBehind`);
- an activity the API lists again becomes a second row (`action_sync.rb:60`);
- of the reorders of four steps one, to the order 3, 4, 2, 1, does not end as
  asked, for each `insert_at` shifts steps that were placed before
  (`testsets_controller.rb:39`); of up to three steps all do (`ReorderHonoured`);
- an activity archived after its step was written ends a reorder half way: the
  other steps have been shifted, the step is not saved and the sort is not
  reached, so that two steps share a position (`testsets_controller.rb:39`;
  `halted` in `OrderIsTotal`), and the step cannot be moved until it is given
  another activity;
- a blank in the reorder form is taken for 0, and two steps may share a position
  while the sort that follows makes up for it (`testset.rb:18`; `Unfolding`);
- two requests at once can close a circle of pointers, or leave a pointer to a
  test that is destroyed (`test_action.rb:95`, `testset.rb:24`; `raced`), and
  no one looks for a circle of four;
- the value that a copied step brings along names no user: the copier's runs do
  not find it, and it keeps him from entering one of his own
  (`test_action.rb:147`; `ownerless` in `ValueIsFound`);
- a scheduled run has no user, so each of its steps that uses a variable is
  compiled without its object (`run_object_identifier.rb:24`), and so are, for
  a user without the value, steps that come through a pointer, which the check
  does not follow (`runs_controller.rb:100`; `CheckedStepsKeepObjects`);
- a schedule whose loop has ended cannot be queued again by rake while any
  other has a job (`schedule_scheduled_tests.rake:8`);
- no worker of `all.rake:20` serves the queue `did_you_mean_types`, so that sync
  runs once.

### Fairness

Liveness is checked under `FairSpec` only.  The worker's own steps are weakly
fair: a process that is up executes its next statement.  In `ScheduledTests`
taking a job is strongly fair, for each worker and row: delayed_job polls for
ever and orders due rows by priority and `run_at`, so a job that is due again
and again while the worker is busy elsewhere is taken in the end.  The sync of
`CatalogueSync` is run for ever because its chain never ends
(`EnsuredChainsLive`) and its queue is served.  Users, the calendar, crashes
and the API's list are not fair; the API deciding an order is not assumed
either (`VerdictRecorded` starts from a verdict it reached).  The faults of
`order_progress` are fewer than the attempts of a job, and it has no more rows
than its limits let the passes finish in turn, for SQL promises no order among
rows under `limit`.

## What is proved

The theorems hold for every value of the constants that satisfies the named
`ASSUME`s (bounds are naturals, null values are not records, the failure window
is not longer than the age window, ...), so for any number of run tests,
browsers, steps, workers, queues, schedules, users, names, faults and crashes.

**OrderSync** (`OrderSyncProofs`).  `TypeSafety`: `TypeOK` with `PhaseOK`, which
ties the pass's locals to its phase, is inductive.  `CompleteOrders`,
`TrackedOrders` and `WriteOnce` rest on `IInv == TypeInv /\ BuildInv`.  The two
properties alone are not inductive, for a step may unlock an order about which
nothing is known; `BuildInv` adds that rows still to be posted have no order
(`UnpostedOK`), that the order just posted is the last one and empty
(`SavingOK`), and how many steps and objects of the current order are in the API
and in the rows (`BuildingOK`).  `FailuresAreRealOrOld` and
`VerdictsAreFinalButForAge` add `AgeInv`: processes read the clock in the past
and a row polled for a verdict has none.  `PassesAreReal` adds `OwnOrder`, that
the order a row holds is the one posted for it.  `PassedRunsWereExecuted`
combines them with `DecidedOK`, that the API decides released orders only: a run
shown as passed has, for each test and browser, a released and therefore
complete order of its own that passed.

`LifecycleImplemented` (`LifecycleProofs`) proves that every behaviour is one of
`TestLifecycle`, from `LifeInv`, the conjunction of all these invariants: an
unlocking that takes effect is a `Release`, the API's decision a `Decide`, a poll
of a test a `Show` or a `GiveUp`, a day an `Age`, and everything else a stutter.
That a `Release` finds its row waiting rests on `ReleasedOrderIsTracked`: a
released order is the one its row holds, so a row whose order is still locked
has been executed by none.

**JobChains** (`JobChainsProofs`).  `TableTypes` and `ExclusiveJobs` rest on
`WorkInv` (locks and workers agree).  `EnsuredChainsLive` needs `ChainInv`:
each chain has a job that has not yet queued its successor, or a successor;
that some row exists is not inductive, because the only row may be about to be
destroyed.  `ChainsEndByAttempts` needs `OriginInv`: only chains that rake began
have jobs, and a rescued job never raises.  `ForksCounted` assumes that
the rake tasks are finitely many, so that there is a number of them, and rests
on `ForkInv`: the chains of a queue *and* the rake tasks that have passed its
guard and not queued their job yet are no more than the rake tasks, the crashes
and the failures that count.  Chains alone are not inductive, for two tasks past
their guards start one each.  A guard is passed only when the queue is empty, a
successor takes the place of the job that queued it, and each crash or failure
leaves one more chain than it found.

**ScheduledTests** (`ScheduledTestsProofs`).  `TypesKept` rests on `WorkInv`: a
worker that is not idle holds a locked job that no other holds.
`LoopsEndByAttempts` follows from it step by step, whatever rake, users and
crashes do.  So does `NoneLeftBehind`, with `CorrectedInv`: once rake has gone
through the missed schedules, each recurring one is still on its list or has a
date that the query will find, or one of the last hour.

`LoopsCounted`, for finitely many rake tasks, rests on `CountInv`: the loops of
a schedule and the rake tasks that may still queue it are no more than one, if
it has been created, the rake tasks and the crashes; and a task queues a
schedule once, for its query lists each row once.  `RunsSpaced` alone assumes
that there is no rake and no crash, either of which gives a schedule a second
job, whose date is not counted from the run of the first.  `LoopInv` is
what is then true: one loop, and neither job nor run before the schedule is
created.  `SpaceInv` adds to `RunsAreSpaced` what holds between the run and the
queueing of the next job: the date the worker computes from the row it loaded is
a recurrence after the last run, because no other job of the schedule has run
meanwhile.

**CatalogueSync** (`CatalogueProofs`).  `PassInv` (types, and the locals of a
pass agree with the list it was told) gives `PassTypes` and, step by step,
`MirrorImplemented`: each insert is an `Appear`, each archiving is a
`Disappear` or, when another row of that name is still seen, a stutter.
`ScarceNames`, for finitely many syncs, adds `ScarceInv`: the rows that a lookup
of the name finds and the syncs that found none and are about to insert one are
together no more than the syncs.  For one sync that is a name seen once, and for
a validated key the archived rows count as well.  `PassMirrors`, for one
sync, adds `SavedInv`: what a pass has saved is seen, and when it
archives, whatever is seen and not listed is among the rows it will archive.

**TestSteps** (`TestStepsProofs`).  `StepsTyped` is inductive by itself.
`ShortCirclesPrevented` and `PointersKept` rest on `EditInv`: as long as nothing
has raced, the two hold together and what a session that is not stale has read is
still so (`Fresh`).  Neither is inductive alone: nothing is known of a commit
without `Fresh`.

`OrderKept` rests on `EditInv` and `OrderInv`.  The numbering needs the absence
of circles and of dangling pointers, and the activity to be there: a reorder that
meets a step that is not valid has shifted the others already when it ends.
`EditInv` excludes the first two reasons, so `halted` is the only one left.  That
a reorder under way keeps positions distinct follows move by move
(`InsertedDistinct`), whatever was typed.  Sorting does not, for it works on
positions it read before; `OrderInv` says instead that a sort is `SortsFrom` its
listing: the first `d` steps are in their places and each of the others is where
it was found, unless it was found above `d + 1` (`Half`).  `HalfMoves` is the
step from `d` to `d + 1`, in which a step found above its place shifts only the
one that comes next.  When no step left is above its place, positions are
distinct (`HalfDistinct`); when all are in theirs, they are numbered
(`HalfNumbers`).  The sort in one transaction is the recursive function `Sorted`;
that its values follow each other move by move (`SortedIsChain`) is proved by a
least counterexample (`LeastNat`), without induction over data.

What a page shows is a `CHOOSE` among listings.  That there is a listing for any
positions at all (`SortExists`), that it has each step once (`SortOnto`), that it
is the only one if positions differ (`SortUnique`), and that a set of n positions
without tie within 1 to n is all of 1 to n (`NumbersFill`) is proved once, by
counting and least counterexamples.

`ReordersLand` rests on `OrderInv` for a request that sorts, and otherwise on
`LandInv`: for a session that is not stale, the moves that are left, applied to
the positions as they are (`Landed`), end in the order asked for.  What has been moved so far cannot be the invariant, since each
`insert_at` may shift steps away from where an earlier one put them.  That the
moves a reorder begins with end as asked is decided by cases over the orders of
up to three steps (`ThreeMovesLand`); nothing is assumed of the number of tests,
steps elsewhere or sessions.  For four steps the statement is false.

`OutlineImplemented` takes every commit to an edit of lists.  A list in the order
of positions, no two of them the same, is the listing (`ListedThen`); the shifts
of `acts_as_list` are then shown to be `Append`, `RemoveAt` and `InsertAt` of the
listing, for lists of any length and moves to any number (`AppendedSorts`,
`RemovedSorts`, `MovedSorts`).  A sort that finds no step above its place moves
none past another (`HalfSorts`), so it changes no list.  Where the order is open,
the list still has the same steps (`SameSteps`).  That the edit is still allowed
when the transaction commits is `Fresh`: what was read of the target of a pointer,
of the tests to destroy and of the bottom of a list is still so.

**RunCompile** (`RunCompileProofs`).  `CompileTypes` and `ValuesAreFound` rest
on `KeysInv`: a user has one row per key, and a save that is not out of date
would still find its key free.  `CheckedObjectsAreKept` rests on `CheckInv`:
what was checked holds as long as nothing has been written since.

`RunsFollowTests` says what `Compile` makes of any tests of any length, so it is
about sequences filtered and flattened, for which there is no induction here.
`FlattenSeq` is unfolded as what it is, a recursive function over the number of
parts, and its result shown to be the union of the parts at their offsets by a
least counterexample (`FlattenJoins`, `FlattenLists`).  A step of a compiled
test is then found by the rank of its place, (i, 0) for the i-th own step or
(i, j) for the j-th of the test it points to: ranks are a bijection onto 1 to
the number of places (`RankOrders`, `RankCovers`), and `Only`, which picks the
elements at a set of places, is the sequence with those ranks (`OnlyPicks`).

All invariants and action properties that the passing runs check, and the three
refinements, are proved.  Only model-checked is what is temporal under fairness
(`EventuallySubmitted`, `VerdictRecorded`, `DueIsRun`, `DestroyedIsForgotten`,
`EventuallyMirrored`): liveness and `ENABLED` are out of the prover's reach.

## What is not modelled

- Suggestions (`XDidYouMean`), screenshots, notes and logs of verdicts, and the
  contents of orders: payload that no later step of a pass depends on.
- Two passes of `QueueRun` at once, and therefore the rows that both submit.
- `all:clear`, by which an operator empties the table of jobs.
- Pruning: it destroys the rows of runs, never those of their statuses, which
  `QueueRun` goes on to poll and post by their own columns.
- The siblings of an object, which are copied and compiled unconditionally.
- The value of a variable, its encryption (a gem), its edit, and environments
  other than one.
- Negative numbers typed into the reorder form (positions are naturals here).
  The `min` and `max` of its fields do not keep larger ones out, since the click
  handler sends whatever is in them.
- A page that is out of date when its reorder is sent: showing the page and
  reading its form are one step.
- Moving a step to another test or a test to another collection: the controllers
  permit `testset_id` and `collection_id` in an update
  (`test_actions_controller.rb:107`, `testsets_controller.rb:128`), but the forms
  send back the ones the row has.
- A `queue_next` that itself fails in the `ensure` of a sync (`action_sync.rb:17`),
  after which the chain depends on the retry alone.
- Causes for which creating the run of a schedule fails every time, other than a
  destroyed environment: all its tests deleted, all its browsers archived.
- The filtering of deleted tests and browsers from schedules, the parsing of
  dates and the bounds of accepted dates within a day.
- Views, accounts (a gem), administration and the backup's shell commands.

`PROJECT.json` lists each component and each hazard with what covers it or why
nothing does.

## Plan

1. Two passes of `QueueRun` at once: the chain of `JobChains` composed with
   `OrderSync`, and which of its properties survive.
2. Siblings and environments in the copies of `RunCompile`.
