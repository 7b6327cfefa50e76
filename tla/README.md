# TestVisor in TLA+

TestVisor runs batches of tests in VirtualBox machines. A user writes *test
plans* (JavaScript) in a web page, starts them, and looks at the results. This
directory holds TLA+ models of the parts of it that keep state and meet each
other, configurations that check them with TLC, and proofs checked by TLAPS.
Paths below are relative to `src/`.

## 1. The system

| component | state | operations | talks to |
|---|---|---|---|
| **Run queue and worker** `TestVisorService/Impl/TestInvocationManager.cs` | a list of delegates under its lock, one worker thread, the published `SystemStatus` | `EnqueueTestPlan`, `WaitForAction`, `Run`, `UpdateStatus`, `GetCurrentStatus` | the result store (ids of runs), the plan store, the plan runner |
| **Plan store** `TestPlanRepository.cs`, `Storage/RedisTestRepository.cs`, `Visor/Plans.cs` | an index in Redis, a file per plan | `SetSource`, `GetSource`, `Delete`, `Create`, `CheckIndex` at start | written by web threads, read by the worker |
| **Plan execution** `VMTestLib/JS/*.cs` | machines used, snapshots taken | what a script may call: tests, `Snapshot()`, `Restore()`; `CleanUp` | the VirtualBox driver, test drivers, result bins |
| **VirtualBox driver** `VMLib/VM/Virtualbox/*.cs` | a dictionary of snapshots per machine, `lock(driver)` | `Start`, `Shutdown`, `TakeSnapshot`, `RestoreSnapshot`, `DeleteSnapshot` | VBoxManage, whose exit codes nobody reads |
| **Standalone tests** `TestPlans.cs: RunStandaloneTest` | a thread per call | start, test, no clean-up | the same machines as the worker |
| **VM agent** `VMAgent/*.cs`, `Machine.cs: RunProgram` | results by process id, under a lock; one HTTP thread; one `Exited` callback per process | `StartProgram`, `GetResult`, files, properties | the operating system of the machine |
| **Result store** `Storage/RedisResultCollection.cs` | in Redis: list of runs, key set, results, counters, infos, locks; on disk: a directory per key | `CreateRun`, `CreateResultBin`, `PutArtifact`, `SetResult`, `GetArtifacts`, `ReadArtifact`, `DeleteRun`, `ForceUnlock` | worker, web threads |
| **Remote calls** `WebLib/*.cs`, `ajax.js` | counter of keys, dictionary of tasks, a thread per call, one HTTP thread | the generated `GenRPC` functions, polling | everything the pages do |
| **Uploads** `WebLib/Utils.cs` | a ring buffer | `ExtractMultipartFileData` | `Streams` |
| **Tests and drivers** `RedisTestRepository.cs`, `TestDrivers/*.cs`, `TestDriverManager.cs` | index, a JSON blob per driver, files; the list in memory | `InstallTest`, `RemoveTest`, `CreateResource`, `DeleteResource`, `CheckIndex`, `RefreshTests` | the server's thread, worker, the command line |
| **Results page** `Visor/WebStatic/results.js`, `divList.js` | per opening of the view: page of runs, selected run and result, what was last drawn | an interval every second, answers, clicks | `GetStatus`, `GetTestRuns`, `GetResults`, artifacts |
| **Plan editor page** `testPlans.js`, `views.js` | per opening: the plan in the editor; the heading; the list of plans | clicks, answers | plan store, run queue, editor |
| **Source editor** `edit_area/*.js` (vendored, part of the plan editor page) | a textarea and the iframe that replaces it; the text highlighted last; undo and redo; open files | keys, mouse, timers, the API the page calls | the page, the scripts of its syntaxes |

What is hard here: web threads, the worker, standalone tests and callbacks run
concurrently and share files, machines and Redis; the queue lives in memory while
what it is about is stored; Redis locks outlive the process that took them;
VBoxManage commands fail silently; process ids and call keys are used again. In
the browser there is one thread, but views are opened again while answers to the
earlier opening are under way, and the editor works with timers: every three
seconds for undo, ten milliseconds after a key, until a script is there.
Every hazard found is in PROJECT.json, `hazards`, at its line and with the
properties that would catch it going wrong, or a note.

What makes each part correct: a run asked for is executed once, in order, or known
to be lost; the published status is a coherent one; a run sees nothing of earlier
runs on its machines and leaves nothing; a program's result is its own and final;
what is listed is what is downloaded, wherever the process ends; a run can be
deleted, entirely; a remote call is answered with its own result; the page shows,
saves and deletes the thing its heading names; what the user typed is what the
page reads, what is coloured and what undo brings back.

## 2. The modules

| module | models | abstract spec / proofs |
|---|---|---|
| `TestInvocation` | queue, worker, status, plan files against the web threads, end and restart of the process | refines `RunService`; proofs in `TestInvocationProofs` |
| `RunService` | what the service promises about runs, without list, lock or thread | |
| `PlanRunner` | JSTestRunner, CallableTest, SnapshotFunction over VirtualboxMachine and SnapshotManager, beside standalone tests | `PlanRunnerProofs` |
| `AgentProgram` | StartProgram, GetResult, the Exited callback, RunProgram | `AgentProgramProofs` |
| `ResultStore` | one run in Redis and on disk: worker, viewer, DeleteRun, crash, ForceUnlock | `ResultStoreProofs` |
| `AjaxRpc` | GenRPC, HTTPServer's thread, AjaxHandler, TaskRunner | `AjaxRpcProofs` |
| `TestRepository` | index, files, lists of tests and their copies in memory, two programs on one Redis | `TestRepositoryProofs` |
| `UploadReader` | the multipart parser an uploaded test goes through | |
| `ResultsView` | results.js and divList.js over a queue of runs: every opening of the view, paging, what is redrawn, answers that overtake each other | `ResultsViewProofs` |
| `PlanEditor` | testPlans.js over the plan store: list, heading, source, calls answered in any order | composed with `EditorLoader`; `EditorProofs`, about both |
| `EditorLoader` | edit_area_loader.js: how an iframe replaces the textarea, and where the text is meanwhile | |
| `EditorText` | the text, where it changed, its highlighted copy, replacing | |
| `EditorFiles` | undo, redo, tabs, syntaxes and the timers between them | `EditorProofs` too |
| `MC*` | the instances TLC checks | |

How to read them: an action is a step of one thread between two points where
another thread, a reader or the end of the process can tell the difference. A
Redis command, a dictionary operation under its lock and a VBoxManage command are
each one step. Next to some definitions stands a variant marked *mutant*: the
same code with a plausible slip, used to confirm that the properties notice.

**TestInvocation.** `CreateRun` and `Enqueue` are the two halves of
`EnqueueTestPlan` (the id is drawn at line 51, the lock taken at 53); the worker
goes through `Dequeue` (`WaitForAction`), `BeginRun` ... `EndRun` (the delegate,
lines 57-111). `stat` is the delegate's own status object and `status` the clone
that readers get; `ClearField` changes the first and not the second. `Uncaught`
lists what throws outside the delegate's `try`: the exception reaches the top of
the worker's thread and ends the process (`WorkerDies`). `EmptyForWrite`,
`OpenForWrite`, `CloseWritten` are the three steps of a save, `UnindexPlan`,
`DeletePlanFile` the two of a deletion, each interleaved with `LookupPlan` and
`OpenPlan` of the worker.

**PlanRunner.** A script is any sequence of calls (`CallTest`, `CallSnapshot`,
`CallRestore`) and may end or throw after any of them; it, and any test it runs, may
also go on for ever. Each thread of `Testers` runs standalone tests. `EnterStart`, `StopFirst`,
`RestoreSnapshot`, `Boot` are `VirtualboxMachine.Start` under `lock(driver)`. Any
VBoxManage command may fail, and then has no effect that the program notices
(`MaxUpsets` bounds failing commands and standalone tests together). The disk of a machine is
the set of runs that wrote to it.
`listed` is the SnapshotManager's dictionary, which a failed reload leaves empty.

**AgentProgram.** A call of `RunProgram` is `CallStart`, then `CallResult` until
an answer has `Complete`. `Launch` ... `Subscribe` are `StartProgramHandler`,
`Fetch` ... `ReadComplete` the answer of `GetResult`, whose object is serialised
after the lock is released, field by field in the order of declaration. The
callback is `RaiseExited`, `TakeLock`, `ReadOutput`, `SetCode`, `SetComplete`.
Process ids are handed out again after an exit.

**ResultStore.** The steps of `PutArtifact` (`LockBin` ... `CopyArtifact`), of
`SetResult` and of `DeleteRun` (`LockRun` ... `RemoveKeys`) are single Redis or
file operations; the process may end between any two, which turns every lock held
into one held by nobody alive, and `Restart` frees what `ForceUnlock` can find.
Artifacts are numbered as they are made, so a property can say *which* artifact
is listed, and which is downloaded. The user's thread holds the bin's lock while it
reads the list or opens the file (`AskList`, `AskArtifact`, then `Reading` step by step),
so it too can leave a lock behind. `Listed` is the loop of `GetArtifactInfos`, which
leaves out the infos that are missing and so shifts the positions after them.

**AjaxRpc.** `TakeCall` starts a TaskRunner; `AnswerDone` and `AnswerBusy` are
the two outcomes of `CheckDone` after at most half a second; `Poll` is the page's
timer. The same thread serves streams and uploads to their end (`TakeStream`,
`EndStream`), which may never come. A result that cannot be written is answered with
status 500, for which the page has no callback (`Unwritable`). `GoDown` clears what is
in memory; sleeping pages keep their keys.

**TestRepository.** The web server and the command line (`Program.cs`, a program of
its own with its own `TestVisorService`) use the same Redis. `LockForCheck` ...
`EndCheck` are `CheckIndex` at a start, `LockIndex` ... `Refresh` are `CreateTest`:
the steps of `CreateResource` and `Write`, then the driver's list, read and stored
by two commands. `latest`, `broken` and `clashed` are history: the version last written
in full, the names whose upload was broken off or found by a start without its file,
and the names that both programs have uploaded at a time. A file is found by the name
each time it is opened (`RedisTestRepository.cs:24`, `There`), so both then write the
file of the later entry. Files are numbered by Redis' counter and never given out twice.
A test that is run while its new version has been created but not yet opened for
writing is run *empty*; nothing in the repository says otherwise, so no property
does, and `NoTornTest` is about files half written.

**UploadReader.** One action per byte read: `NoMatch`, or what the caller does when
the search ends (`LineRead`, `HeaderRead`, `PartSkipped`, `PartGrabbed`,
`EndOfStream`). `Streams.cs` ignores what `ExtractMultipartFileData` returns, so what
was written until the end is what is installed, also when the browser went away
(`Cut`). The page's form has a field after the file's, so there the file is exact.

**ResultsView.** `Tick` is the page's interval, `Answer` takes any request that is
under way, oldest or not. Each opening of the view has its own closure, `closure[g]`;
they share `dom`, and the handlers of a row are those of the opening that drew it
(`dom.gen`; `dom.resultsGen` for the list of results, whose clicks refresh *that*
opening). `RefreshRunList`, `RefreshRun`, `RefreshDetails` are the nested redraws
and take and return a pair of closure and document, because each draws only when its
token differs. Ids are compared as strings (`GreaterEqual`: "9" is after "10"), for ids of up to
seven digits (`Powers`, a bound that `DigitsAssumption` states). The service's part is `TestInvocation`'s queue reduced to what
`GetStatus`, `GetTestRuns` and `GetResults` tell: runs are created, queued, begun, get
a result and end, or are lost in the queue or half done when the process ends
(`Crash`), after which it may be started again or not.

**PlanEditor and EditorLoader.** `EditorLoader` is the state of one textarea:
`editor.area` is `editAreas[id]["displayed"]`, `editor.frames` the iframes in the order
in which the loader finds them (two, when the view is opened twice before the scripts
are there), `starts` the pending timers. `PlanEditor` EXTENDS it and calls
`delete_instance`, `getValue`, `setValue` where the page does; a call on an iframe that
is not ready throws, and the rest of the page's handler does not happen. A text is a
record of the plan it was loaded of, the opening that loaded it and whether it was
edited; `source[p]` has the text and who saved it. What a textarea holds before
anything was loaded is the empty text of no plan (`TextAssumption`).

**EditorText.** A text is a sequence of characters of which the code tells apart line
breaks, blanks, quotes and others. `checkTextEvolution` finds the changed part from
both ends in halving steps (`Evolution`, `Ends`, with the `substr` that counts a negative start from
the end), `colorize_text` is what highlighting all would give, and `maj_highlight` what
is really done: a part of the lines, the rest kept. Typing, tabulation, indentation,
replacing (with and without case), the page's API and undo are the edits; selection
and modes change at any time. `scroll_page` knows the line the caret gets to and not the
column, which no property needs.

**EditorFiles.** `history` is the editor's, `files[id].history` that of a file not shown.
`check_undo`, `check_redo`, `check_file_changes`, `SyntaxTimer` and `SyntaxLoaded` are
timers and callbacks and may run at any time after they were set. `order` is the order
of the object's properties: a name is added at its end (`open_file`), and `Without` takes
one out, at its `Place`. `keyDown` starts timers; `Mouse` (paste, drag, the page) does not. The plan editor of this system has
one file and one syntax: tabs and other syntaxes are features of the vendored editor
that the page does not switch on, and are modelled because they share undo, timers
and text with what it does.

Outside `src/` and modelled from their use: Redis and its locks, the operating
system's processes, the `Process.Exited` event, the browser, the end of the
process.

## 3. The runs

| run | instance | shows |
|---|---|---|
| `TestInvocation` | 2 callers, 2 runs, 2 plans of which one hangs, 1 crash from outside and any by the worker's own death; 225 521 states | `TypeOK`, `CallOrder`, `Accounted`, `StatusNamesJob`, `WholeSource`, `StatusEndsWithRun`, `ServiceSpec` (refinement), `EveryRunServed` |
| `PlanRunner` | 2 machines, 2 runs of 2 calls, 2 threads of standalone tests, 2 of: standalone tests and failing commands; 382 097 states | `Isolation`, `CleanBetweenRuns`, `RestoredWhileOff`, `EveryCleanUpEnds` |
| `AgentProgram` | 2 programs, 2 ids, one program leaving a child; 45 078 states | `ResultIsOwn`, `EveryExitReported` |
| `ResultStore` | 2 keys, 3 of: tests and (at most 2) artifacts, 3 reads of a user, 1 DeleteRun, 1 crash; 682 348 states | `ArtifactAsListed`, `Reachable`, `NobodyWaitsForever` |
| `AjaxRpc` | 2 calls, one hanging or not to be written, 2 streams, 2 crashes; 96 030 states | `AnswerIsOwn`, `EveryCallAnswered` |
| `TestRepository` | 2 programs, 2 tests of which both upload one, 2 uploads, 1 test run, 2 crashes; 229 875 states | `ListedHasLatest`, `NoTornTest`, `InstalledStaysListed`, `EveryoneProceeds` |
| `UploadReader` | every form of 1 or 2 parts, 3 kinds of header, 3 bytes of contents, cut anywhere; 252 107 states | `StoredWhole`, `EveryUploadEnds` |
| `ResultsView` | runs 9 and 10, 2 pages of 2 rows, 2 openings, 4 acts (ends of the process included, a next page counts as two), 2 requests under way; 2 498 243 states | `ArtifactsAsShown`, `TickMeansOver`, `RowsOfPage`, `DrawnAsTold` |
| `PlanEditor` | a plan with a source, one without, one to create; 2 openings, 5 acts, 2 calls under way; 1 371 003 states | `SaveIntoOwn`, `ShownIsCurrent`, `TextKept`, `EditorAppears` |
| `EditorText` | texts of up to 4 characters of 4 kinds, 2 changes after the opening, 3 needles; 62 842 states | `HighlightRight`, `ChangeLocated`, `ReplacedOnce` |
| `EditorFiles` | 2 files, 3 texts, 2 syntaxes, an undo list of 1, 4 steps; 1 800 106 states, up to symmetry of files and texts | `TabsKeepText`, `OwnHistory`, `RedoFollowsUndo`, `EditedTold` |

One run, `ResultStore_undeletable`, shows what the code does not do (PROJECT.json,
`findings`): "Delete a run and everything associated" (`RedisResultCollection.cs:294`,
`DeleteWorks`). The code breaks it in two ways:

* a run whose script threw cannot be deleted, since the key `Error` has no directory and
  `DeleteRun` throws: the trace that TLC gives, which is the shorter one;
* a `DeleteRun` that returns leaves the info of each bin's last artifact in Redis, since
  infos are numbered from 1 and removed from 0: the trace that TLC gives, eighteen states long,
  once `~threw` is left out of the property.

Other weaknesses of the code are named as exceptions in the properties, so that each
property is true of the code and says exactly how far it goes:

* `ResultIsOwn`: the answer of `GetResult` is torn (`VMAgentServer.cs:205`), and pairs
  `Complete` with the old exit code 0; an id is given out again.
* `EveryExitReported`: the exit was announced before the subscription, or a callback
  keeps the lock behind a lingering child's pipe.
* `Isolation`: two machines share host port 9002 (`Machine.cs:32`); one failed
  `snapshot list` empties the dictionary (`Snapshot.cs:23`), and the machine is never
  reverted again.
* `RestoredWhileOff`: VBoxManage failed to say that the machine is on, or to stop it.
* `AnswerIsOwn`: keys begin at 0 after a restart (`AjaxHandler.cs:42`), so a page that
  slept through it can be answered for another call.
* `EveryCallAnswered`: the page left, the process ended, the result cannot be written, or
  a stream holds the server's only thread for ever.
* `NobodyWaitsForever`: a key that a `DeleteRun` has taken out of the set is read from an
  older list, and the process ends while its lock is held: `ForceUnlock` does not find it.
* `Reachable`, `ArtifactAsListed`: a `DeleteRun` of a run that is not over (`early`), whose
  script goes on storing. `Reachable` also lets pass that info, as the second half of
  `DeleteWorks` is about it.
* `ListedHasLatest`, `NoTornTest`: two programs that upload one name at a time write into
  one file (`RedisTestRepository.cs:24`), whose content may be either's, or cut.
  `InstalledStaysListed`: of two that change a list at a time one is forgotten.
* `RowsOfPage`: the list is not drawn again when only a run was added; a click before
  the next page has come draws the old page as the new one; a page without runs while
  one is executed is an exception in the page. `TickMeansOver`: a run that was lost with
  the process has the tick of one that is done, which the name says; the order of ids is
  that of the queue, and none has more digits than the one executed.
* `ArtifactsAsShown`: after an answer to an earlier opening has drawn over details that
  a newer one had drawn, the artifacts may be those of another run (`overdrawn`). That
  takes six acts of the user, more than the run has: reaching it was checked apart.
* `DrawnAsTold`: what the page draws as going on is what it was told last, which the
  property compares in the opening that drew. When that is an earlier one, no interval asks for
  it any more, and what it drew stays until the newer one finds a change of its own. A test
  that never gets a result, since its script threw or the process ended, stays drawn
  as running for ever (`results.js:80`): the answers say so.
* `TextKept`, `ShownIsCurrent`, `SaveIntoOwn` say nothing once the view has been opened
  while a start of the editor was pending (`hurried`): there are two iframes then.
  `SaveIntoOwn` excepts a text that another opening loaded: an answer to the earlier
  opening puts one plan's text into the editor, and the newer one's Save writes it into its own
  plan. `ShownIsCurrent` demands the heading only when the answer that came last is the
  last click's, to the newest opening (`settled`): overtaken, the heading is another's.
* `HighlightRight`: a quote left open, a reload put off, a misplaced change.
  `ChangeLocated`: the search for the end ran past the start. `ReplacedOnce`: two matches
  in the text overlap.
* `TabsKeepText`: closing another tab is refused, or a syntax arrives after the switch.
  `RedoFollowsUndo`, `EditedTold`: edits without a key start no timer.

A relative of the leftover info is excluded from `ArtifactAsListed` by name: a
`DeleteRun` that the end of the process cuts after the infos are removed leaves the last
info alone in the list, at the position of the first file.

**Why the bounds are enough.** Two callers give overlapping and successive calls;
two runs give a queue with a head and a tail, and a run after a run that hung,
died or was lost. Two machines are needed for a snapshot of one to be dropped
while the other is cleaned; two calls for a snapshot and
what is done after it (a standalone test adds a second user of the machine); one failing
command already breaks whatever can break, and two runs show whether it heals; the two upsets
of the run are two standalone tests at a time, one with a failing command, or two failures.
Two process ids allow a reuse while the other program runs. Two artifacts tell
"first" from "last", two keys show what a lock does not cover; three of tests and artifacts are
a test with both artifacts, or two with one or none each. Three reads are a list, a reader who takes
the lock as the process ends, and one who waits for it after the restart. Of the two calls
one may hang, and each could be given the other's key after a restart; two streams and two
ends of the process give one of each before and after one (three calls, with one stream
and one end, were checked for `AnswerIsOwn`: 3 909 237 states). The crash bound of one
suffices for the properties of `TestInvocation` and `ResultStore`: each speaks of one stay of
the process and the next. `TestRepository` has two programs and an end for each; three uploads
and one end were checked too (about 700 000 states, three minutes). In `UploadReader` the
boundary is `CR LF - - b CR LF`, so three bytes of contents can begin it, or a
header's end, and be broken by the real one; the forms the page sends differ in
length only.

In `ResultsView` the ids 9 and 10 are the case where order as strings and as numbers
part; two runs on pages of two give a full page and an empty one, two openings an
answer to the earlier one, two requests an answer that overtakes. Four acts are an
opening, a run, a result and a second selection once details are drawn; or two openings and two
clicks, among them on what the earlier one drew; or an opening, the next page, and a click on
it or the way back; or the process ends between them (an instance in which a next page counts
once was checked too: 6 355 109 states). In `PlanEditor`
five acts allow opening, clicking, writing, clicking another plan and saving, with
the answers in any order. In `EditorText` the constant 200 of the search is 6: it is halved
several times, and is longer than the text at first, as 200 is for a short plan; two
changes give a change after a change that was coloured partly; four characters
hold a line break, both ends of a quote and one between, or a needle of two characters
twice. In `EditorFiles` an undo list
of one is full at once, and four steps are: open, edit, switch, undo.

**Deadlock.** Every configuration says `CHECK_DEADLOCK FALSE`: the system really
stops when the bounds are used up or when the process is down and nobody starts
it.

## 4. Fairness

* Threads of the program are scheduled: the worker, callers inside `EnqueueTestPlan`,
  callbacks, HTTP threads and TaskRunners have weak fairness. No strong fairness is used.
* A specification without liveness properties has no fairness (`Spec`); where a run needs
  it, it is `FairSpec`, `Spec` with what follows.
* In `PlanRunner` the steps inside `Start` and of the clean-up, which are the program's
  own and VBoxManage's. Not `RunTest`, `TakeSnapshot` or `EndScript`: a script or a test may
  go on for ever, and `AgentProgram` shows that one can.
* In `ResultStore` the worker inside `PutArtifact` and `SetResult` (`Putting`), `Deleter`
  and the reader inside a call (`Reading`). Redis' `AcquireLock` polls until it gets the
  lock; weak fairness suffices, since with the bounds given nobody takes a lock infinitely
  often.
* In `AjaxRpc` the server's thread (`Server`), as far as it is not in a stream: a page
  sends all of its request. The stream's end is not assumed, nor that a function in
  `Hanging` returns.
* In `PlanEditor` the loader (`Loader`): its timers fire and scripts and iframes load in
  the end. `EditorText`, `EditorFiles` and `ResultsView` need no fairness: runs may go on
  for ever, answers stay out, and the process end and stay down.
* In `TestRepository` the threads of both programs (`Thread`), in `UploadReader` the
  loop of the server's thread (`Read`).
* Not assumed: that a script returns, that a program exits, that a page or user
  does anything, that a dead process is started again.

`EveryRunServed`, `EveryExitReported` and `EveryCallAnswered` therefore name
their exceptions: a script that hangs holds the only worker; an exit announced
before the subscription (`VMAgentServer.cs:165-178`), a reused id, or a callback
stuck behind a lingering child's pipe is never reported; the server's thread is held
by a stream. `EditorAppears` excepts a user who switches the editor off.

## 5. The proofs

Each theorem holds for every value of the constants: any sets of callers, machines,
programs, calls, keys, names, texts or plans, and any bounds. The proofs of a component
are in `<component>Proofs`, those of `PlanEditor` and `EditorFiles`, two machines that do
not meet, both in `EditorProofs`. Apart from `TestInvocationProofs`, which takes its properties one
after the other, each defines an inductive invariant `IInv`, proves `Init => IInv` and
`IInv /\ [Next]_vars => IInv'` with a lemma or a step per action, concludes
`Spec => []IInv`, and has one short theorem per property (the invariant of
`EditorFiles` is called `FilesInv`, as its specification is `FilesSpec`). Every one
was checked by TLC on the instances of section 3 (those of `ResultStore` and `AjaxRpc` on
larger ones too) before it was proved.

| module | theorems |
|---|---|
| `TestInvocationProofs` | `TypeCorrect`, `CallOrderHolds`, `AccountedHolds`, `AtMostOnceHolds`, `StatusNamesJobHolds`, `StatusEndsWithRunHolds`, `WholeSourceHolds`, `ImplementsService` |
| `PlanRunnerProofs` | `RestoredWhileOffHolds`, `CleanBetweenRunsHolds`, `IsolationHolds` |
| `AgentProgramProofs` | `ResultIsOwnHolds` |
| `ResultStoreProofs` | `ReachableHolds`, `ArtifactAsListedHolds` |
| `AjaxRpcProofs` | `AnswerIsOwnHolds` |
| `TestRepositoryProofs` | `ListedHasLatestHolds`, `NoTornTestHolds`, `InstalledStaysListedHolds` |
| `ResultsViewProofs` | `ArtifactsAsShownHolds`, `TickMeansOverHolds`, `RowsOfPageHolds`, `DrawnAsToldHolds` |
| `EditorProofs` | `TabsKeepTextHolds`, `OwnHistoryHolds`, `RedoFollowsUndoHolds`, `EditedToldHolds`; `SaveIntoOwnHolds`, `ShownIsCurrentHolds`, `TextKeptHolds` |

Why the properties need more than themselves:

* **TestInvocation.** `CallOrder` speaks of runs that have begun; nothing in it keeps a
  later run from standing before an earlier one in the queue. `OrderInv` adds what the
  queue, the callers and the begun runs have to do with `before`, and the FIFO list gives
  the step. `PlaceInv` joins `Accounted` with the fact that begun runs do not repeat and
  are those in hand, finished or lost. `StatusInv` relates the delegate's own status,
  while it is being cleared, to the published one. `TornInv` follows a save that was
  broken off from the plan's file to the source the worker has read. `ImplementsService`:
  initial states map to initial states of `RunService` and every step to one of its steps
  or a stutter.
* **PlanRunner.** `RestoredWhileOff` is about the driver's lock: at most one thread is
  inside `Start` (`LockHeld`), and the machine it has found or made off stays so
  (`StaysOff`). `CleanBetweenRuns` needs that whatever is on, and whatever snapshot there
  is, will still be come to by the clean-up (`LeftBehind`), and that TEST_INIT survives
  (`InitKept`). `Isolation` needs that the disk, every snapshot taken and the snapshot
  about to be restored hold this run's writes only (`OfThisRun`), and which machine has
  the port (`OnThePort`).
* **AgentProgram.** A program is launched by one request (`OneRequest`, `LaunchedOnce`),
  its id is handed out again only after its exit (`ReusedAfterExit`), the callback fills
  the record in an order (`RecordInOrder`), and what the server has read of it so far is
  right unless the callback came between (`ReadUntorn`): the order output, code,
  `Complete` in the callback against code, output, `Complete` in the reader.
* **AjaxRpc.** A call has one request under way with the key the page has (`OneRequest`);
  keys given out in this life of the process lead to the call they were given to
  (`KeysOfLife`); the thread that answers is at that call's runner (`ServerAtOwn`); and a
  page that was told has a runner that is done (`Settled`).
* **ResultStore.** `Reachable` needs what the worker has stored so far (`KeyKnown`,
  `Leftover`) and how far a DeleteRun is, bin by bin (`Progress`); `ArtifactAsListed` that
  every number up to the counter has its info and its file, but for the last (`Numbered`),
  and that a list shown leads to files which can only have gone away since (`Viewed`).
* **TestRepository.** The index's lock (`LockHeld`), an owner for every file (`Owned`), one
  upload per name unless noted (`OneUploader`), which goes into the file the index names
  (`IntoOwn`); a start removes only entries that were never written (`RemovesNothing`);
  and of the uploads that change one list at most one is not noted (`ListsInOrder`).
* **PlanEditor** (with `EditorLoader`). `One(editor, content)` says that there is one
  editor at most and where in it the text written last is; a lemma for each of `start`,
  `toggle`, `delete_instance`, `init` and `setValue` says that it stays there. `Calls` says
  that an answer under way holds a text of its own plan, `Loads` that a closure that has
  loaded the text in the editor has it for a text of its plan. `SaveIntoOwn` follows from
  the two at the time of a save, and stays true however late the save is served.
  `ShownIsCurrent` is `Loads` for the openings there are, with what a settled answer has
  set (`Settled`).
* **EditorFiles.** The four properties are about the file shown, and each is broken by
  what another file brings when it is shown next. `OthersSaved` says of every file that is
  not shown what will be needed then: its text is what the user left in it, its history's
  entries are its own, its mark is right unless the file is one of `unmarked`, its syntax
  is the one asked for unless a timer or another file interfered (`strayed`). `InEditor`
  says the same of the editor's own copy, and how a syntax that waits for its script
  relates to the one asked for (`SyntaxRight`). `DisplayKeeps` shows once, for opening,
  switching and closing alike, that showing a file exchanges the two; `SavedOne` that
  `save_file` makes one of the other. `OrderOK` (every file is in the list of names once)
  is what closing a file needs: its `Follower` is another file that is open, or none is left.
* **ResultsView.** `ArtifactsAsShown` needs that the token of the opening that drew the
  details is the one of the details shown, and that newer openings, which drew none, have
  none yet (`TokensAsShown`). `TickMeansOver` needs the whole service: the queue, the run
  executed and the runs done or lost are in the order of the ids with none between them
  left out (`InOrder`), so that whatever is older than the run executed is over, and stays
  so while closures and the document still hold that run's id as the status
  (`OverBefore`), also after the process has ended; and that comparing ids as strings is comparing
  numbers when the first has no more digits (`RowsOK`). `RowsOfPage` needs which page an
  answer holds (`PageOf`, by its offset and the number of runs there were), and that the
  rows are those of the page of the opening that drew them (`RowsOfLast`). `DrawnAsTold` needs
  that, while there are rows, what their opening drew last, what it was told last and what the
  document shows as executed are one (`CurrentOfLast`), and that an opening's
  token is that of its selected run whichever opening drew the list (`ResultsOfLast`).

Assumed are only the `ASSUME`s of the modules, which TLC evaluates in every run: the
bounds are natural numbers, and ids have at most seven digits (`ResultsView`); a value
that stands for none is not one of the values (`NoRun` and 0 for ids, `NoKey`,
`NoMachine`, `NoName`, `NoPid`, `NoPlan`, `NoFile`, "nobody" and "dead" for holders of a
lock); what is named (`Hanging`, `Lingering`, `Reverting`, `Stored`, `Uploads`, `Empty`,
`Shipped`) is of its kind; and the textarea is empty at first.

Only model-checked:

* liveness (`EveryRunServed`, `EveryCleanUpEnds`, `EveryExitReported`, `NobodyWaitsForever`,
  `EveryCallAnswered`, `EveryoneProceeds`, `EveryUploadEnds`, `EditorAppears`):
  fairness and ENABLED are out of this prover's reach;
* what is computed over texts and bytes of every length, which needs induction over data,
  also out of reach: `StoredWhole` of `UploadReader` (the ring against a body that is the
  encoding of any form), and of `EditorText` `HighlightRight` (colouring some lines against
  colouring all), `ChangeLocated` (the search in halving steps) and `ReplacedOnce` (the
  loop of replacements);
* `DeleteWorks`, which does not hold.

Every other property that a run checks is a theorem.

## 6. Not modelled, and what is left

Left of the plan is one composition: `TestInvocation` with `ResultStore` (what is stored
of a run whose process ended) over the list of runs; `ResultsView` has the two only as
far as the page can tell.

Not modelled, in parts that are: `SetInfo` of plans, which no page calls, and plan ids,
which are drawn from the clock; `RemoveTest` and `DeleteTest`, which only a
demonstration calls; sessions (an empty class); single-call file transfers of the
agent; VirtualBox guest properties; results of standalone tests, which are what was
handed in. Of the source editor: layout, fonts, resizing, full screen, the
matching bracket, plugins, autocompletion, and hiding and submitting in forms, which
the page does not use.

Left out for good: the main program (wiring only), the command line but for its start
and `AddTest`, listing of machines and tests (read-only conversions), `tests.js` and the
widgets of the pages, jQuery, and code that is not compiled or not used
(`FileBasedResultBin`, `RedisResultBin`, `FileBasedTestRepository`, `PersistentStore`,
`OSDriver`, `VMTestLib/TestPlan.cs`, `TestTest.cs`). The Redis client shared by several
threads and pipes filled before anyone reads them are hazards outside the models: they
are properties of libraries and of the operating system.
