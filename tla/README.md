# A specification of the CVitae agent runtime

The runtime is a local agent harness: one Node process over one SQLite file.
A host (an app over stdio, the CLI, a browser bridge) asks it to read CVs,
search offers, draft applications and answer questions.  It plans each request
as a run of steps, calls language models and other services on the way, and
keeps everything it must not lose in the database.

This directory holds TLA+ modules for the parts of it whose behaviour depends on
order (walks of a run that suspend, overlap and crash; calls that queue for a
model; mails that must go out once; an index built of a text that changes), and
for the parts that decide something a person relies on (what is masked, what is
left out of a prompt, which address is strong enough to write to, what of a CV an
edit that did not see all of it may replace).  TLC checks them on small instances
and TLAPS proves the most important results for every instance.

Paths below are relative to `src/src/` unless they begin with `scripts/` or `docs/`.

## Reading the modules

| module | what it is |
| --- | --- |
| `RunLifecycle` | what the status of a run promises to its readers (abstract) |
| `RunEngine`, `RunEngineProofs` | one run: plan walk, pool, checkpoints, approvals, cancel, resume, deadline, crash, recovery; theorems about it, some of them where nobody is asked or where steps go on one at a time |
| `FrontDoor` | the stdio host: requests, the pump over the log, shutdown |
| `ModelGateway`, `ModelGatewayProofs` | calls to models: consent, slots, queue, tool loops, changing settings; theorems about it |
| `ModelCall` | one step's call: attempts, streams, what is logged and what the step makes of the answer |
| `MaskVault`, `Detect` | placeholders of a masked call; identifiers found by their shape |
| `ProviderChoice` | which model, key and client a call gets while settings change |
| `AttemptGuard` | one outward call per piece of work |
| `CvIndex` | the search index of a CV |
| `ServicesProofs` | theorems about `CvIndex`, about the gateway that `MCServices` runs beside it, and about `WebReader`, `WebSearch` and `OfferFacts` |
| `CvLifecycle` | CVs as they are kept: revisions, generations, proposals, receipts |
| `CvEdit`, `JsonChanges` | a CV's text as edits, imports and a person change it; the list of changes a proposal is |
| `CvReading` | what a chat reads of its CV behind exclusions, and the record of it |
| `Translate`, `Claims` | a CV in another language; a summary and the facts it cites |
| `ConversationMemory` | what a run is told of its conversation; folds |
| `Grounding` | one message: needs, plan, preview, approval, prompt |
| `OfferQuery`, `OfferQueryProofs` | queries over offers: queue, captures, processes, datasets, collection, deletion, close, crash; theorems about it |
| `OfferDetails`, `DiscoveryProofs` | reads and analyses of offers and their background queue; theorems about them, and about what `MCDiscovery` runs beside them |
| `OfferFacts`, `Salary` | what is known of an offer and who said it; a salary line as numbers |
| `DiscoverySession`, `SessionProofs` | sessions over job boards, their ledger and members; theorems about them |
| `Board`, `ApplicationAgent` | a board entry's preparation; the agent that fills in forms (it extends `Board`) |
| `WorkProofs` | theorems about `Board`, `ApplicationAgent`, `ConversationMemory` and `CvLifecycle` |
| `Recipient`, `Draft` | whom an application goes to; the email itself |
| `WebReader`, `WebSearch` | reads of pages; queries to a search engine |
| `Upgrade` | opening the database: migrations, backups, crashes |
| `EdgeProofs` | theorems about `AttemptGuard`, `Upgrade` and `FrontDoor`, and about what `MCWorkspace` runs |
| `MC...` | values of the constants for TLC; a `.cfg` per question |

`MCParts`, `MCServices`, `MCWorkspace`, `MCDiscovery` and `MCOfferQuery` hold
several instances at a time.  `focus` is chosen by `Init`, never changes, and says
which of them moves; the variables of the others keep an idle value.  A property
of such a module is a conjunction with one conjunct `focus = ... => ...` per
instance that has something to say about it, named for what the conjuncts have in common.

A definition whose name begins with `Slip` is a mistake somebody could make in
the definition that follows it.  No behaviour uses one.  Put in the place of
the right definition, each makes TLC find the property it is listed with in
`PROJECT.json` violated; that is how we know the property looks at the code it
is about.  Where a property has several conjuncts, each has a mistake of its own.

## Inventory

What the system consists of, with the state each part keeps, what changes it,
what is hard about it and what makes it right.

**Run engine** (`RunEngine`) — `runtime/run.ts`, `resume.ts`, `recover.ts`,
`core/*`, `runs/*`, `storage/sqlite/run-store.ts`, `approvals.ts`.
State: rows of `runs`, `steps`, `events`, `approvals`; in the process the walk
of `executePlan` with its signals and pool, and the `inFlight` table of the
dispatch.  Hard: several sources fire one signal; siblings of a stopped step go on
for a while; a run may be resumed while its last walk still has a step in flight;
the process may end between any two transactions.  Right when: the status moves
along `runs/state.ts`; what ended stays; recorded outcomes are kept; a stage starts
over finished stages; the answer is what the rows say; no run is left that nothing will end.

**Front doors and events** (`FrontDoor`) — `adapters/stdio/*`,
`adapters/ipc/dispatch.ts`, `adapters/cli/main.ts`, `adapters/browser/bridge.ts`,
`events/*`.  State: `inFlight`, the runs a host has told its client of, a cursor
into the log of each, the pump's timer, the requests still waiting.  Hard: a run that
is parked, resumed and ends within one tick; a client that leaves.  Right when: every
event is sent once, in order, after the id; what goes on is watched.

**Model gateway and calls** (`ModelGateway`, `ModelCall`) — `effects/ai.ts`,
`consent.ts`, `core/executor.ts`.  State: a semaphore per provider, the slots held by
an async context, attempts and fragments of one call.  Hard: reentrancy of tool
loops, a wake-up a cancelled waiter gets, settings that change between the check and
the call, a stream that breaks off.  Right when: slots add up, no wake-up is lost, what
leaves the machine is masked and agreed to, a step is taken to be answered only by a whole answer.

**Masking** (`MaskVault`, `Detect`) — `effects/mask.ts`, `masking.ts`, `detect.ts`.
State: the vault of one call.  Hard: text that itself reads like a placeholder,
placeholders cut by fragments, tools in between.  Right when: nothing that is
seeded or has the shape of an identifier is sent, and restoring undoes masking.

**Providers, secrets, settings** (`ProviderChoice`) — `providers/*`,
`secrets/env.ts`, settings in `runtime/create.ts`.  State: stored settings, variables,
a cache of clients.  Hard: keys and settings change while a client is built for two
calls.  Right when: a kept client is of the key in force, a failed build does not
stick, a model stays with its provider.

**Attempt guard and mail** (`AttemptGuard`) — `effects/attempts.ts`, `mail.ts`,
`storage/sqlite/attempts.ts`.  State: a row per idempotency key.  Hard: answers
lost or late, a crash on either side of the call, a commit the disk never saw.
Right when: one piece of work goes out once, and no settled row is a guess.

**Documents and retrieval index** (`CvIndex`) — `storage/sqlite/document-store.ts`,
`chunk-index.ts`, `index-recovery.ts`, `runtime/index-recovery.ts`.  State: a
revision per document, chunks that carry the revision they were made of, a job
per stale document with a lease, attempts and backoff.  Hard: an index built of
text that has been edited meanwhile; two builders; a lease that runs out; a process
that closes.  Right when: no reader sees chunks of another revision, and a document
whose vectors are missing has a job or somebody building them.

**CVs** (`CvLifecycle`, `CvEdit`, `JsonChanges`, `Translate`, `Claims`, `CvReading`) —
`storage/sqlite/cv-*.ts`, `runtime/cv-scope.ts`, `walls.ts`, `capabilities/cv/*`.
State: contexts with a document under a revision, a generation, proposals with a
base, receipts; the sections an edit was shown and what was cut of them.  Hard: a
proposal of a run that began before the content was cleared; a request repeated
after its answer was lost; a section edited by a model that did not see all of it; a
revision between a read and the record of it.  Right when: nothing of an earlier
generation comes back, a receipt replays exactly what happened, what was excluded
is neither shown nor lost, and what is said of a CV rests on it.

**Conversations and grounding** (`ConversationMemory`, `Grounding`, `CvReading`) —
`storage/sqlite/conversations.ts`, `grounding-*.ts`, `runtime/history.ts`,
`compaction.ts`, `grounding.ts`, `preview.ts`, `needs.ts`, `stale.ts`, `grounding/*`,
`capabilities/askProfile.ts`.  State: messages, a note, folds under way, exclusions
and pins, a record per run of what it was given.  Hard: a summary that lands after
more was written; a piece excluded after an answer was made of it; what was
previewed changes before it is sent.  Right when: no text handed out derives from
what is excluded, a prompt holds what was approved and is still true, each piece
once, and the record says what was handed over.

**Offer queries** (`OfferQuery`) — `runtime/offer-query.ts`,
`storage/sqlite/offer-query-*.ts`.  State: a row per execution, snapshots, pins and
applied results in the database; a queue, jobs, captures and dataset files in the
process; child processes.  Hard: a job may be cancelled in each of its states;
captures, datasets and answers are shared; everything kept is bounded; a search is
deleted under its jobs.  Right when: rows and jobs agree, every job settles once, an
answer is of the snapshot its row names and of the revision its client had read, what
is retained stays readable, and the cache stays within its bound.

**Offers** (`OfferDetails`, `OfferFacts`, `Salary`) — `runtime/offer-details.ts`,
`enrichment.ts`, `detail-queue.ts` with their stores, `capabilities/analyzeOffer.ts`,
`capabilities/offers/salary.ts`, `storage/sqlite/offers.ts`, `core/aggregator.ts`.
State: queued and running reads with the consumers that share them, analyses with
the hash of the text they are of, facts with their provenance.  Hard: stop, clear,
cancel and refetch while a read is in flight; list pages, readings, analyses and a
person writing one row in any order.  Right when: a row reads running exactly while
somebody waits, no wake-up is lost, a stored analysis is of its text, a decision
stands, and who said a thing is said truly.

**Discovery** (`DiscoverySession`) — `runtime/discovery.ts`,
`storage/sqlite/discovery-searches.ts`, `discovery.ts`.  State: sessions over boards
with budgets, a ledger of requests and members per saved search, what a person hid.
Hard: pages that come after a halt, a cancellation or a deletion; sessions that share a
ledger.  Right when: the ledger covers what boards may have been asked, what changes
moves the revision, what is deleted stays out.

**Board and agent** (`Board`, `ApplicationAgent`) — `runtime/board.ts`,
`runtime/application-agent.ts`, `storage/sqlite/board.ts`.  State: an entry with a
preparation under a generation; a session over form pages.  Hard: work of an older
generation that finishes late.  Right when: it writes nothing, a step that reads
complete is of what the entry holds, and the agent acts on what it sees.

**Applications** (`Recipient`, `Draft`) — `capabilities/recipient/*`,
`capabilities/apply/*`.  State: pages gathered by steps beside each other, a trust in
the employer's site; a letter through review.  Hard: a domain that corroborates
itself.  Right when: an address is only as strong as the site it was read on, and a
letter keeps what was written.

**The web** (`WebReader`, `WebSearch`) — `effects/offers.ts`, `effects/search.ts`.
State: a queue and a time per host; a queue, a time and a cache per engine.  Hard:
redirects, private addresses, a cancellation at any await.  Right when: only public
hosts are asked, spaced, and nobody waits for nobody.

**Database open** (`Upgrade`) — `storage/sqlite/open.ts`, `migrate.ts`, `backup.ts`.
State: the file, its version, the copies beside it.  Hard: a crash anywhere between
copy, move, prune and steps; builds of several versions.  Right when: a backup is
what its name says and a start can be undone.

**Not modelled** — integration providers (one request, one schema each), routing
(a look-up), rendering, prompts, extraction of text from files.

`PROJECT.json` lists these components with their files and says of each what is
modelled.  Its `hazards` give the lines where each difficulty bites.

## How the modules correspond to the code

Node runs a callback to its end, and what runs without a timer or an answer to wait
for in between is one step in every module.  An action is named for the function or
the moment it is; `PROJECT.json` maps each definition to its lines.

### RunEngine

A *walk* is one execution of `executePlan`: walk 1 is `beginRun`, each later one
a `beginResume`.  `phase[w]` says where it stands (`created` after `runCreate`,
`planning` inside `plan()`, `stages` in the loop of `executePlan`, `pool` inside
`runPooled`, `closing` between the end of the plan and `settleFailure` or the
commit).  `slot[w][s]` is what the walk knows of step `s`, which is not what the
row `step[s]` says once two walks share a run.  `why[w]` is the reason of the
composed signal, and the reason of the first source that fired stays;
`cancelled` and `expired` are the two sources the code asks about by name.

| code | action |
| --- | --- |
| `beginRun`: `runCreate`, `checkpoint.started` | `Create`, `Start` |
| `plan()` returns, throws, or asks a person | `Planned`, `PlanFails`, `PlanSuspends` |
| the stage loop, with and without a fired signal | `OpenPool`, `SkipStage`, `EndOfPlan` |
| a worker of `runPooled`, the executor's ways out | `Claim`, `Succeed`, `Degrade`, `Fail`, `Stop`, `Ask` |
| the task's `catch` of a suspension; a sibling that rejects with it | `Park`, `Echo` |
| all workers are back; skipping; `classify` | `StageEnds`, `StageFails` |
| `settleFailure` or the commit; leaving `inFlight` | `Settle` |
| `run.cancel`, of a driven and of a parked run | `Cancel`, `Abandon` |
| `approval.decide`, `run.resume`, the deadline timer | `Decide`, `Resume`, `Expire` |
| the end of the process, `recoverInterruptedRuns` | `Crash`, `Restart` |

A request of a host or a timer is served only when no walk has a synchronous
continuation left (`Quiet`), while the transactions of two walks, and a crash,
may interleave anywhere.  A step's body is an await of unknown length.

### ModelGateway

Between the check of consent and the check of the semaphore a call does not
await, so `BeginInside`, `BeginNow` and `BeginQueued` are one step each.  A
slot that is given back is counted down at once and counted up by the woken
waiter a microtask later; `Woken` is that gap.  No other event is looked at
before the microtasks are through (`Drained`), except that one abort ends
several calls of one run in the same turn.  `choice` is what a call was
described with, `reached` where it went; `Held` is the `AsyncLocalStorage`.

### AttemptGuard

A caller is one call of the guard, a repeat is another caller with the same key.
`row` is the table as the process sees it, `disk` as of the last sync:
WAL with `synchronous = NORMAL`.  `wire` is the request as it is out there and
`delivered` counts messages; both live on when the caller gives up or the
process ends.  A row is settled only by an answer that says the message went
out or by a refusal that says it did not (`NOTHING_SENT`); every other end
leaves it open, and a repeat is then told `unknown`.  An error before anything
left (no service configured, signal already fired) leaves it open too: that is
what the code does, and the price is a refusal that a person has to clear.

### CvIndex

One CV.  `rev` is the revision of its document and `prose` whether its text has
anything to index.  `index` is what `chunks` holds: `stamp` is `source_revision`,
`of` the revision the rows were really made of, which no column stores.  `job` is
the row of `cv_index_jobs`; instead of a token it says whose token is in it
(`active`: the claim of this process, `gone`: one of a process that ended).  Every
write that checks a revision, a token or a lease is one transaction in the code
and one action here; embedding lies between two actions.  `Edit` stands for
`replaceContext`, an accepted proposal and `clearContent`, which do the same to
document, job and rows.  `Ask` is `settings.write` or the Rebuild button, `SaveKey`
is `settings.secret`.  A rebuild uses the key it had when it began.  Imports are
runs of `extract_cv`: the engine's view of them is `RunEngine`, here they are what
they read and write, and a cut one still reads as running until the app opens
again, which is what keeps `Claimable` false.

### OfferQuery

An execution is named by its request id.  `db` is what the database holds:
`row` is `state`, `used` the snapshot a row names, `rows` the snapshot its stored
pages were computed from (which no column stores), `pinned` the client's pins,
`kept` those of chat turns, `applied` the applied result of a search.
`Gc`, `Completed` and `SearchDeleted` are functions from one content of the
database to the next, because `complete` runs `gc` inside its transaction and
most handlers run it after theirs.  `phase[e]` says where the job of `e` is:
`queued`, in a `capture`, with the snapshot (`captured`) or an error
(`rejected`) at hand and its continuation due, `loading` a dataset, or `running`
the SQL.  `kill` is why it was stopped and `asked` whether its own
`AbortController` fired.

| code | action |
| --- | --- |
| `context`, `start`, `cancel`, `release` | `Context`, `Start`, `Cancel`, `Release` |
| `pin` by a chat turn | `Pin` |
| `deleteSearch`, then `discovery.searches.delete` | `DeleteAsk`, `DeleteCancels`, `DeleteDone` |
| `pump` and `run` to its first await; the look-up that throws | `RunHead`, `RunThrows` |
| `store.capture` returns or throws | `CaptureDone`, `CaptureFails` |
| `run` after the capture: error, refusal, cached answer, child | `Rejected`, `ProceedRefused`, `ProceedCached`, `ProceedChild` |
| the child reports, is stopped by a limit, answers, is gone | `ChildRuns`, `ChildLimit`, `ChildAnswers`, `ChildFails` |
| `catch` and `finally` of `run`, with `gc` and `clean` | `Ends` |
| `close`, the end of the process, the next store | `Close`, `Crash`, `Restart` |

Time is left out: whenever `gc` runs, any settled result and any snapshot no job
works on may be old enough to go.  A snapshot that a job works on is not, since
work takes seconds (`captureMs`, `executionMs`) and the age is `ttlMs`.  The
offers a search lists are a version number.  An event waits until the
continuations of the last one have run (`Quiet`).

### FrontDoor

`status` and `log` are a run as the database has it, `going` says that the promise of
whoever drives it is open, `active` is `inFlight`.  `Start`, `Approve`, `Previewed`,
`Resume`, `Await`, `Cancel` are requests; `Step`, `Straggler`, `Rests`, `Orphaned`
what runs do by themselves, `Elsewhere` one that a service of the runtime begins; `Tick` is
the pump: it reads behind `cursor` and writes frames.  `Quit`, `PipeCloses` and
`Finish` are `shutdown` begun, with its output gone, and at its end, where `gaveUp`
is the time limit and `cut` a pipe that went away.

### ModelCall, MaskVault, Detect, ProviderChoice

`ModelCall` follows one step: `Begin` is `runStep`, `Call` and `Guarded` the gateway's
two ways in, `AttemptFails` an attempt the SDK retries or gives up, `Generated`,
`StreamBegins`, `Fragment`, `StreamFails`, `StreamEnds` what comes back, `Taken` what
the step makes of it and `Settle` what the run makes of the step.  A text is as many
fragments as were written.  In `MaskVault`, `CallGoes` masks a prompt and its history,
`ToolAnswers` and `ToolEchoes` a result, `Delta` is the filter of a stream and
`CallReturns` its end; a text is a sequence of marks, which may spell a placeholder.
`Detect` runs one detector after the other over one text, `Match` at the leftmost
match that begins at `lastIndex`; what a check refuses is not used up (`Skip`).
`ProviderChoice` has `Resolve` and `Test` for the two who ask for a client,
`BuildEnds` and `Answered` for what they wait for, `Write` and `Secret` for what
changes meanwhile.

### CvLifecycle, CvEdit, JsonChanges, CvReading, Translate, Claims

`CvLifecycle` writes texts as sets of the generations their words come from (`era` is the
generation of a CV, `job` a run that works on it).  `Ask`
is a host that sends a request, maybe again; `Replayed`, `Clear`, `Replace`, `Copy` and
their refusals what it comes to; `CvRunStarts` to `Discard` the runs that write
through their scope.  `CvEdit` has the text itself: `Aim` is `targetSection` and the
cut by the walls, `Revise` a model's answer with the restoring of what was cut, the
diff and the proposal; `Accept` applies its changes to the document as it is then;
`Import` merges, `Write` is a person.  A string is a word and its case.  The diff
(`align`, `diffJson`, `applyChanges`) is `JsonChanges`, over any values.
`CvReading` has a person's `Edit` and `Select`, the index's `Publish`, and the chat's
tools `ReadCv`, `SearchBegins`, `SearchAnswers`, which write the book and its rows;
`handed` is what the model was really given.  `Translate` cuts, asks section by
section, holds each answer against its source field by field (`Check`) and puts back.
`Claims` catalogues a CV as facts, takes a draft's lines one at a time and reviews
them; `Store` is an edit of the CV between catalogue and review.

### ConversationMemory and Grounding

A piece of the CV is a set of atoms, so that one covers or touches another.  `reached`
and the atoms of a note are what a text really derives from; no table stores them, and
the properties compare them with what `taint.ts` computes from the record.  That is the
least set of answers that are clear (`Clears`, `IsClear`): one is when no piece on its
record is touched by an exclusion and every answer it carried is clear, so that what is
met again on the way down is withheld, as it is in the code.  `Start`,
`Assemble`, `Read`, `Send`, `Suspend`, `ResumeRun`, `End` are a run; `Plan`, `Summarise`
and `ClearNote` a fold, `Select` the exclusions.  `Grounding` follows one message:
`Approve` is the preview agreed to, `Start` the plan with its needs, `Ground`,
`FitStep` and `Call` the steps that assemble the prompt, `Park` and `Resume` a run
that waited, the rest what a person does meanwhile.

### OfferDetails, OfferFacts, Salary

One read serves everybody who waits for it (`wants`); an aborted read may still return
(`late`).  `row` is the queue's, `enr` the analysis', `hashAt`/`ofText`/`ahash` which
version of the text an analysis took the hash of, was given and says it is of,
`stored` which it really is of.  `OfferFacts` has the rows' columns: `Ingest` is a
page of a list, `ReadPage` a read, `Analyse` and `Complete` the five extractions with
the board's figures laid over them (`Disposition`), `Decide` a person.  `Salary`
reads tokens; what digits and grouping make a token is not in it.

### DiscoverySession, Board, ApplicationAgent

`pump` starts fetches one at a time and no other event happens while it is due
(`PumpStops`, `PumpRests`, `PumpSkips`, `Fetch`); pages come back as `PageOk`,
`PageFails` or, of a session that is over, `PageLate`.  In `Board`, everything a
person asks is an action that begins a generation; `StepBegins`, the `...Done`
actions and `StepFails` are the preparation, `ProcSettles` its end.
`ApplicationAgent` extends it by a session: what the browser reports, drafts under
way with the run that is registered for them, pause, take-over, resume.

### Recipient, Draft, WebReader, WebSearch, Upgrade

`Recipient` has one action per step of `verify_recipient`; steps of its pages stage
go on beside each other (`...Begin`, `Open...`, `...End`).  A page is its url, the
domain it is on and the addresses it prints.  `Draft` has `Gather`, `Write`, `Review`,
`FindRecipient` and `Aggregate`, and the failures that degrade.  `WebReader` takes a
read from `ReadBegins` through its turn at a host, the address check before each hop
(`Guard`) and the answer; `WebSearch` takes a search through the line and the cache.
`Upgrade` takes the migrations one by one (`MigrationStep`) and has an action per crash point of `migrate` and `backup`; `Killed` is
possible between any two, `PutBack` is a person who restores a copy.

## Runs

| run | question | answer |
| --- | --- | --- |
| `serial` | one step at a time, a step that asks, two resumes, crashes: are answers, results and ends kept, and does every run settle? | yes |
| `overlap` | a whole stage beside each other, and two walks of one run: does the status implement `RunLifecycle`, are stages in order, does only a deadline leave gaps, does a cancelled walk cancel the run? | yes |
| `services` | is what is found in a CV current, what is missing owed, and does it come to an end; do slots add up and queued calls end; is the end of a watched run shown? | yes |
| `queries` | do rows and jobs of offer queries agree, verdicts stand, the cache keep its bound and a job end; is every answer of its snapshot and of the revision asked for, and whole? | yes |
| `discovery` | do rows, reads and analyses of offers tell the same (`ReadsAreAccounted`), do ledgers cover what boards were asked (`LedgerCovers`), does a reader learn of every change (`RevisionTells`), is what was cancelled left alone (`CancelStands`)? | yes |
| `workspace` | does superseded work write nothing, is no text that derives from an excluded piece handed out, does a repeated request happen once, does cleared text stay cleared? | yes |
| `parts` | eighteen parts, each on its own instance: see below | yes |
| `two_walks` | do results survive two walks? | no: the slower one writes over |
| `dead_host` | can no request end the process? | no: a query of a deleted search |
| `last_word` | does a client that asks to stop learn how each run ended? | no: nothing waits for the runs |
| `cited` | is nothing of a piece cut to fit? | no: the numbers to cite by are not measured |
| `contact` | do the contact details go out of reach with the personal details? | no: an answer made of them does not |

What `parts` asks, by property:

| property | what it says | of |
| --- | --- | --- |
| `NothingGoesWhereItMayNot` | nothing that identifies goes to a hosted model and restoring undoes masking; what is excluded is not shown to a chat and survives an edit that did not see it; a prompt holds what was approved and is current; only public hosts are asked, and a refusal is final; kept clients are of the key in force | `mask`, `edit`, `reading`, `message`, `reader`, `providers` |
| `WhatIsKeptIsTrue` | a backup is a whole file of its version and a start can be undone; a proposal makes the document it shows or is refused | `edit`, `upgrade` |
| `WhatIsSaidHasItsGround` | an address is as strong as its site, a claim rests on its facts, a translation keeps them, a salary has the posted figures, provenance is true, a letter keeps what was written, an identifier is found whole | `recipient`, `claims`, `translate`, `salary`, `offer`, `letter`, `detect` |
| `ModelsAreHeardWhole` | a stream is the answer, a prompt has each piece once and as many as fit, a step is answered only by a whole answer and the log says what happened, the record is what was handed over | `mask`, `message`, `call`, `reading` |
| `TurnsAreTaken` | hosts and engines are spaced and nobody waits for nobody; a client gets every event once, in order, after the id, while anything is left to watch for | `reader`, `search`, `door` |
| `AtMostOnce`, `SettledIsKnown`, `ToldSentIsSent` | one piece of work goes out once, no settled row is a guess, nobody is told of what was not sent | `guard` |
| `NothingIsUndone` | a cancelled read asks nobody, an import only adds, a decision and a reading stand | `reader`, `edit`, `offer` |

The same property may hold in one instance and fail in another, and that is the
point: `ResultsAreKept`, `ParkedWaitsForAPerson` and `CancelledMeansAsked` hold
while steps run one at a time (`serial`), which is what a local provider gives, and
fail with a stage of two (`two_walks`; the others are named below).

Deadlock is checked in `queries` only: elsewhere a run that ended or is parked, a call
that ended, a form that is filled in and an instance at its bounds are places where
the system may stop.  That nothing stops anywhere else is what `RunSettles`,
`IndexCatchesUp`, `WhatWaitsIsServed`, `FirstJobEnds`, `RunningHasDriver`,
`NobodyWaitsForNobody` and `TheLineMoves` say.

### Bounds

- Run engine: three steps in two stages suffice for a sibling, a barrier and a step
  nobody reaches; three walks for a result that survives two resumes, two for every
  overlap that a single suspension allows.
- Index (`services`): two imports, three revisions (`MaxRev`), one rebuild asked for
  (`MaxAsks`) and one end of the process (`MaxStops`) let each writer be overtaken by
  each other and a claim be lost; they also keep edits, saved settings and crashes from
  starving `IndexCatchesUp`, which is claimed of their ends only.
- Gateway: five calls, two runs and two providers with one slot each give a loop with
  two tools in the queue of somebody else, a hosted and a local provider that are
  exchanged, and a call cancelled in each place it can wait.
- Host: two runs, one parked and resumed between two ticks (`parts`), one with five and two requests
  waiting (`services`): parked, answered and ended within a tick, beside a sibling.
- What is alike begins in one order, which leaves out only renamings of what is
  checked: two imports, two tools of a loop, two requests to the CV library, two runs of
  a CV, two callers of a provider (`FirstComesFirst` and a line of `PartsNext`).
- Queries: three executions over one search on one process give two editors' results,
  one of which replaces the other, beside a chat's, a queue, and a search deleted under
  all of them; two on two processes (whose search is not deleted, which keeps the run short), two snapshots, two versions and two dataset files
  give captures, datasets and answers that are shared, evicted and out of date.
  Numbers of dead snapshots are used again, and `RoomForCapture` and `RoomForOrphan`
  keep the model from running out of them.
- Discovery: two offers that compete for one read (`OnlyQueued`), one that is opened, queued,
  analysed and imported at once (`OnlyFirst`); one session over two boards; two sessions of one search.
- Workspace: three generations, three versions of the CV and two postings of an entry;
  two generations of an agent over five kinds of page; a conversation of four messages
  and one fold, and one of six and two, in which a third run is begun when the second is over and
  goes no further (`OnlyBegun`); two CVs, two requests and four revisions.
- Parts: the tables of `MCParts`.  In short: a masked call of four marks and three
  tools; two CVs that are edited, five exclusion lists and one more document stored; builds of heads 1 to 4,
  two backups kept, two put back; two reads over three hosts and one redirect; three
  searches and a cache of one; one application with two postings, two hit lists and
  one posting elsewhere; three providers, two calls, two builds; drafts of three lines
  over three CVs; one message over five pieces and three offers, with one change
  before and one after its start; three calls of the guard for two mails; three CVs
  translated with one answer that is not as asked; every salary line of up to four
  tokens; an offer on two pages, with two reads, one analysis and one decision; four
  requests for a letter, three letters; five kinds of step, three attempts and answers of two
  fragments; some 280 texts of one or two pieces for the detectors; two CVs, two
  revisions, four exclusion lists, two tool calls and one failed write for a chat that reads.

A bound of the model is named where it stands in a guard (`Max...`); a limit of the
code has the code's name or is said to be the code's in the module.

### Fairness

`RunEngine`: weak fairness of every walk's `Advance` (steps return or throw: each
effect has a timeout or is given up with the signal; the event loop gives continuations
their turn) and of `Restart` (the app is opened again).  Not of `Cancel`, `Decide`,
`Resume`, `Expire`, `Crash`.  `RunSettles` therefore says that a run ends or comes to
wait for a person, and no more.
`ModelGateway`: weak fairness of each call's `Progress`: microtasks run, and a request
is answered, fails or times out.
`CvIndex`: weak fairness of the timer (`Claim`), of time (`Due`, `LeaseEnds`), of each
import, of the host that opens and declares its terms, and of an attempt's end; strong
fairness of `Answered`: an embedder that is asked for ever answers at last, with vectors
or a refusal.  Without it a network that is always down keeps the job waiting for ever,
which is what the code means it to do.
`FrontDoor`: weak fairness of `Tick`, the timer of the pump.
`OfferQuery`: weak fairness of `pump`, of each job, of each capture and of a deletion
under way: microtasks run, a capture gives up after `captureMs`, and a child answers or
is killed by the timer.  Not of requests, of changes, of `Crash` or of `Restart`: a crash
ends a job as well.  `FirstJobEnds` follows one editor's job beside two others.
The other modules state no fairness.  What must go on in them is stated of states:
whoever waits has somebody in front of it that moves.

## What the runs found

Each is listed under `findings` with the lines it contradicts.

1. `two_walks`, `runtime/resume.ts:62`.  A run can be resumed while a sibling of
   the asking step is still in flight; both walks then run that sibling.
2. `dead_host`, `runtime/offer-query.ts:76`.  `run` looks up its row before its
   `try`.  A query that is started while `deleteSearch` waits for others is still
   queued when the search goes; its `run` then rejects with nobody listening.
3. `last_word`, `adapters/stdio/host.ts:220`.  A shutdown tells runs to stop and waits
   for the requests that are pending, which does not include the runs.
4. `cited`, `capabilities/cv/fit.ts:377`.  Pieces are measured without the numbers they
   are given to be cited by, and their section is clipped at the measure.
5. `contact`, `grounding/taint.ts:78`.  A wall on the personal details neither covers nor
   lies inside the contact details, so an answer made of those is still history.

Seen in the code while modelling, without a run of their own.  Where a name is given, it
is stated in the module, listed for no run, and TLC refutes it on the run's instance.

Run engine and host:

- A deadline that fires while the last step in flight still succeeds leaves later stages
  out of a run filed `succeeded`, with no gap named (`core/orchestrator.ts:320`): the
  exception that `OnlyTheDeadlineLeavesGaps` makes.
- The first rejection by position decides how a stage ended
  (`core/orchestrator.ts:296`): a parked run is failed by a sibling its question stopped,
  and a critical failure behind a stopped sibling is filed `cancelled` (`:183`).
  `ParkedWaitsForAPerson` and `CancelledMeansAsked` fail with `Width <- WholeStage`.
- A step that asks after `run.cancel` was acknowledged parks the run
  (`core/orchestrator.ts:169`); `CancelEndsTheRun` speaks of runs in which nobody was asked.
- A sibling that rejects with the suspension after the run has parked throws from
  `assertTransition` (`:241`), and its row stays `running` in a parked run.
- `cancelSuspended` (`runtime/create.ts:781`) leaves steps of the abandoned run
  `pending`, and is announced to nobody.
- A `plan()` that asks through the run-level gate leaves the row `running` with no walk
  (`runtime/run.ts:368`, `:389`).  No plan in `capabilities/` does so; `PlanAsks` turns it
  on, and the theorem `Driven` assumes it off.
- A run that was suspended before its CV's revision moved cannot be resumed
  (`runtime/cv-scope.ts`); a refused resume has already aborted the agent's draft.
- A recovered start of a finished run, or an event of a sibling after the last one of its
  run, keeps the pump watching for ever (`TimerHasReason`).  Input that ends during a
  shutdown closes the database under the pump, whose next tick throws (`NoTickOnClosed`).
  An approved start whose preview was in flight when the quit came is begun all the same.

Calls, masks, guard, index, queries:

- Tools of one turn go past the semaphore together (`effects/ai.ts:381`), so a local
  server may get two requests where its limit is one (`ServerWithinLimit`).
- Loops that hold every slot of one provider and wait for another, whose holders wait for
  the first, wait for ever, since a queued call does not listen to its signal
  (`effects/ai.ts:99`).  It takes a loop per slot on either side and a change of settings;
  the instance has one loop.
- A `tool_loop` completion that was cut at `length` is accepted, and so is an empty one
  (`TruncationIsFailure`; `core/executor.ts:28`).  A call stopped because a sibling failed
  or asks is logged with that sibling's code instead of `aborted` (`effects/ai.ts`).
- A seed's match that a shape begins before and ends within is dropped whole
  (`effects/mask.ts`), and `+48 600 700 8001` is trimmed to its first nine digits inside a
  longer run (`effects/detect.ts`).
- A commit under WAL with `synchronous = NORMAL` (`storage/sqlite/open.ts:62`) can be lost
  with the machine, so an attempt row may be gone although its call was made;
  `storage/sqlite/attempts.ts:5` calls it durable.  `AtMostOnce` and `SettledIsKnown` are
  claimed until a commit is lost (`lost`).
- A key that is saved while the refusal of the old one is on its way does not start the
  rebuild that this refusal parks (`runtime/create.ts:884`; `ParkedIsHopeless`).
- An import that began to embed before the embedding model was changed publishes vectors
  of the old model and deletes the job the change had queued
  (`storage/sqlite/chunk-index.ts:167`).  `NothingIsForgotten` states what was asked for of
  rebuilds, which the token protects; of imports it does not hold.
- Settings are stored before the rebuilds they make necessary are queued
  (`runtime/create.ts:875`); a crash between queues none.  `Ask` is one step here.
- A capture whose last consumer left is aborted but stays in the map until its promise
  settles (`runtime/offer-query.ts:38`, `:47`); a query that joins it meanwhile ends
  `cancelled` though nobody cancelled it (`CancelledWasAsked`).
- Under pressure `gc` drops rows without bytes too, the failed ones with their errors
  among them (`storage/sqlite/offer-query-store.ts:213`).

CVs and conversations:

- An edit behind an exclusion may add an entry with the company and title of the excluded
  one before it, which takes its derived key (`capabilities/cv/walls.ts`).  An entry that is
  renamed and then excluded does not withhold answers recorded under its old key.
- The legacy `profile.update` writes unconditionally.
- `translated` names a whole section though excluded entries in it stay as they were;
  swapped entries with equal numbers, and an answer in the source language, are not
  noticed (`capabilities/cv/translate.ts`).
- A claim's numbers are looked for with their units only where the unit follows at once,
  and as substrings (`UnitsAreSupported`; `capabilities/cv/claims.ts:224`).
- Two folds stored out of order lose the exchanges of the later one; the row and the record
  of a run that goes on while its conversation is deleted stay; history the client sends
  itself is outside what `taint.ts` covers; appends to a closed record are dropped silently.
- A piece that is pinned while a run waits may be in the prompt twice after the resume, and
  the limit may be exceeded; no shipped step of `ask_profile` asks a person, so such a run is
  only reachable through the engine.

Offers, applications, web, database:

- `next` on a halted or cancelled session sets an errored board back to `ready` for good,
  and `next` after every board came to its end resumes a session without its deadline
  (`runtime/discovery.ts`).
- A board entry reads `ready` after `updateSummary` though earlier steps are pending, and a
  crash during the third attempt of a step allows a fourth (`runtime/board.ts`).  A late,
  aborted draft with a changed CV revives a cancelled session as `needsInput`
  (`runtime/application-agent.ts:100` comes before `:101`).
- Provenance `ai` can be put on a value of the board that the run's overlay brought in
  (`ProvenanceIsTrue`; `storage/sqlite/enrichment.ts:80`).  A whole listing after an analysis
  replaces columns but not the analysis (`ReadingIsOfOneLine`; `storage/sqlite/offers.ts:219`).
  `ABSENT` lacks words its comment speaks of (`capabilities/analyzeOffer.ts:156`).
- Figures are glued across a blanked word (`20 b2b 20`), and `12,5%` leaves `12`
  (`capabilities/offers/salary.ts`).  A figure with both a multiplier and a currency before
  the join, `20k PLN - 25k PLN` or `20 tys. zl - 25 tys. zl`, is no range to `RANGE_JOIN`
  (`salary.ts:172`), which has room for one unit: both bounds are read as 25 000, or the
  floor as open where the join is `do`.  `IsJoin` has it so, and `SaidAsRange`, the ranges of
  which `ReadAsPosted` says that both figures are kept, leaves these lines out.
- Evidence that a board states an address is dropped where the posting at the same URL also
  prints it (`capabilities/recipient/ranking.ts:296`).  A `how_to_apply` that a model
  wrote is parsed for recipients (`SuggestedByTheOffer`; `capabilities/apply/draft.ts:138`).
- A redirect leaves the queue of its host; an abort while the scraper's body is read comes
  out as `unavailable` and the direct read is begun with a signal that has fired
  (`effects/offers.ts`).  A refused key is cached for a minute, and two identical searches at
  once both go out (`effects/search.ts`).
- Two processes that start on one file: the second backs up after the first migrated, in
  the place of the copy of the old version; its own step then fails and rolls back.

## Proofs

All theorems are of the form `Spec => []P` (or of an action property) for every
value of the constants that meets the `ASSUME`s of the module: any finite plan
with any stages, any concurrency, any number of walks; any number of callers
and keys; any number of imports and revisions; any number of queries and snapshots;
any number of offers, sessions, boards, runs, pieces and CVs.  Where a module that is
instantiated writes what it asks of its constants as a definition (`BoardAssumption`,
`DetailsAssumption`, ...), the theorem has it for a hypothesis, and the run that
instantiates the module asserts it of its own values.

Three proof modules also speak of the instances a run checks.  `ServicesProofs`,
`DiscoveryProofs` and `EdgeProofs` extend `MCServices`, `MCDiscovery` and `MCWorkspace` and
take the proofs of a part as an instance beside the run's (`Gate`, `GB`, `GS`, `GP`, `GA`).
Two instances of one module have the same definitions under two names; a lemma per
definition says that they agree (`...Steps` for what may happen, `...Same` for what is
claimed, `...First` for how it begins, `...Bounded` for the constants), and from there the
general invariant is the run's own.

`RunEngineProofs`

- `TypeCorrect`: `TypeOK` is inductive as it stands.  `Cases` splits `Next`
  into its actions once; each invariant then has one step per action.
- `LifecycleRefined`: `RunEngine` implements `RunLifecycle` with
  `status <- run`.  Each write of `run` is guarded by an edge or is a stutter;
  nothing else is needed, and two walks make no difference.
- `NoGaps`: `OnlyTheDeadlineLeavesGaps`.  Not inductive: one has to know that a
  walk nobody stopped has every step of the stages behind it, and a walk about
  to commit has them all.  `GapInv` says so; to keep it one has to know which
  source can have fired a signal and that steps are in flight only inside a
  pool, which is `WalkShape`.  The lemma `FirstIsOne` (a finite, ordered set of steps has a
  first) is what makes a claim well defined.
- `Driven`: `RunningHasDriver` where no `plan()` asks.  `DriverInv` strengthens
  it: the walk in question holds no suspension, so it cannot end as `parked`.
- `InOrder` and `CancelHeeded`: `StagesInOrder` and `CancelEndsTheRun`, of runs nobody is
  asked about.  Neither is inductive.  `UnaskedInv` adds to `GapInv` what it means that
  nobody was asked: no walk but the first ever begins, since only a suspended run is
  resumed (`OneWalk`); before there is a plan there are no rows (`Unplanned`); after that
  the rows are those of the walk's own slots, a pool has work of its own stage only and
  every slot of the stages behind it is done (`RowOfTheWalk`); and a walk that was told to
  stop and is about to close has `cancelled` for its verdict (`Obeyed`).  That a question
  stays on the record (`AskedBefore`) is why the hypothesis holds of the past as well.
- Of any plan whose stages are `Serial` (one step in flight, which is what
  `resolveConcurrency` answers for a provider on this machine):
  `AnswersAreRight`, `CancelledWhenAsked`, `RestsHonestly`, `FinishedIsFrozen`, `ResultsKept`
  and `WaitsForAPerson` prove `AnswerMatchesRows`, `CancelledMeansAsked`, `RestIsHonest`,
  `FinishedRunIsFrozen`, `ResultsAreKept` and `ParkedWaitsForAPerson` for any number of
  stages, steps and resumes.  All rest on `OneAtATime`, that `SerialInv` is inductive:
  `Alone` (one walk at a time: a run is parked by the only step in play, so its walk has
  nothing left before a person can resume it), `OneStep` (the first step to throw is the
  last, so `classify` has one rejection to ask about), `Parked` (a parked run has its
  question, and the walk that parked it can only leave it parked), `Rows` (walk and rows
  agree on what is done) and `Asked`.  The hypothesis is needed: under
  the constants of `two_walks`, where a stage of two is one pool, TLC finds a behaviour
  against each of the five parts and against each of these properties.

`EdgeProofs`: `AttemptGuard` (of any calls that meet `KeysBelong`, which the runs of `MCParts` assert)

- `TypeCorrect`, `OnceAtMost`, `SettledKnown`, `ToldTheTruth` from
  `GuardInv == Truthful /\ (lost \/ OneHolder)`.  Counting deliveries needs that
  a key has one *holder*, the caller that opened its row, and that before the
  request of the holder arrives nothing went out.  That is false once a commit
  was lost, so it is claimed only until then; `Truthful` does not depend on it.

`ServicesProofs`: `CvIndex`

- `TypeCorrect`, `NeverStale`, `NeverForgotten` and `OnlyBetter` from
  `IndexInv`.  `RowsFit` bounds the stamp by the revision, so that a later revision
  cannot make old rows current by catching up with them; `JobFits` says that a job
  is for the text as it is and that the claim whose token is still in the row was
  made over this text, after the last rebuild asked for.  That is what allows
  `complete` to delete the job.  `IndexStep` proves the invariant and the action
  property together, one case per action.

`ModelGatewayProofs` (of any calls that meet `CallsBelong` and `ToolsAreCalledByLoops`, which the run of `MCServices` asserts)

- `SlotsAreExact`: `SlotsAddUp`, from `GatewayInv == Basics /\ Accounts /\ CoveredShape`.
  `Pinned` comes first: no step changes the provider, the loop's provider or the mask of a
  call that began.  A step then changes who holds a slot and who is woken for one by one
  call, or by one call and the first in line, and one lemma about cardinalities per case
  (`SlotTaken`, `TurnTaken`, `Returned`, `NotTaken`, `HandedOn`, `PassedOn`, `Queues`) keeps
  the account of that provider.  `QueueShape` is needed for the first in line: it has
  queued, for this provider, and is in the queue once.
- `Covered`: `HostedIsCovered`.  A call goes where `choice` says and `choice` was checked
  for consent and masked for; `Pinned` is why a change of the settings does no harm.
- `GatewayExact` (in `ServicesProofs`, which extends `MCServices`) brings both to the instance
  the run checks: `Gate` is an INSTANCE of `ModelGatewayProofs` with the constants of the
  run, every step of `ServicesSpec` is one of its steps or leaves it alone, and its
  theorems then give `GatewayIsExact`.

`ServicesProofs`: `WebReader` (under `ReaderBounds`)

- `OnlyWhatMayBeReadIsAsked` and `HostsAreReadInTurn`: `OnlyPublicIsAsked`, `ARefusalIsFinal`,
  `HostsAreSpaced` and `NobodyWaitsForNobody` from `ReaderInv`.  That requests are spaced is
  about two reads and the time between them, while the code writes the time down only
  when a read leaves the line; so `AskedInv` says of a request at a read's first hop that its
  time is written down or that the read still holds the line, and `LinesAreReads` that a
  line holds each read once and that only its first is past its turn.  A read that goes to
  another host by a redirect keeps the line of the host it began with, which is why the
  spacing speaks of first hops.  `LineIsJoined`, `LineIsLeft` and `LineStays` say once what a
  step does to a line.
- `CancelledReadsSendNothing`: `CancelledAsksNothing`, of single steps; `Guard` looks at the
  signal before it sends.

`ServicesProofs`: `WebSearch` (under `SearchBounds`)

- `TheEngineIsAskedInTurn` and `WhatIsKeptOfQueriesIsBounded`: `EngineIsSpaced`, `TheLineMoves`,
  `CacheIsBounded` from `SearchInv`, on the same plan: a call is in the past of `lastCallAt`
  or its search is the one that asks.  The oldest answer makes room
  and a query that has one keeps its place (`WhatIsRemembered`).

`ServicesProofs`: `OfferFacts` (under `FactsAreStated`)

- `OffersAreKept` and `TheBoardIsQuoted`: `DecisionStands`, `ReadingsStand`, `BoardIsHeard`
  and `ProvenanceIsTrueOfMost` from `OfferInv`.  A field that is said to be the board's is
  marked so by a later step than the one that stated it, and may have been read by a model
  in between, so `BoardsAreQuoted` is about the row: what it states of a field is absent or
  something some page or list said of that field, in one of the spellings a board may use.
  `AnalysedIsTheBoards` is the heart of the rest: laid over any answer at all, the board's
  words are what comes out, and where nothing is laid over, the words that stand there
  are the board's already.  The place is the exception both make: where a model read one and
  the board states another, the reading stays and is marked the board's (`Analysed`), so the
  property is of the other fields.

`EdgeProofs`: `FrontDoor`

- `EventsComeOnce`, `IdIsFirst` and `Watched` from `DoorInv`.  `RowShape` says that what
  runs has not said its last word, so the pump that lets go of what went quiet lets go of
  nothing that goes on; `ToldShape` is what the client has.  `TellsOrLogs` splits the
  steps: one writes to the logs and leaves what was told, or is a page of the pump.

`EdgeProofs`: `Upgrade` (under `UpgradeAssumption`)

- `BackupsAreTrue` and `NothingIsLost` (`BackupsAreWhatTheySay`, `UpgradesCanBeUndone`) from
  `UpgradeInv`.  `StartShape` says how far a start is: until the copy is in place the file
  is as it was found, and no step is taken on a file with content before that is set aside.

`WorkProofs`: `Board` and `ApplicationAgent` (under `BoardAssumption`, `AgentAssumption`)

- `PreparedOfWhatItHolds`: `CompleteIsCurrent` and `OldWorkWritesNothing`.  That a step which
  reads complete is of what the entry holds is not inductive, since the entry also names
  runs whose answers are still to come: `RunsAreCurrent` says that what a step asked about is
  what the entry holds for as long as the steps before it read complete, and
  `WorkIsOfTheEntry` that a preparation nobody outdated finds the entry queued or running
  and waits only for a step that is not complete, after the steps it rests on.  Everything
  a person asks outdates the preparation under way or forgets the steps that follow
  (`AskedStep`), everything a preparation writes is checked against that (`WorkStep`).
  `OldWorkStep` follows: whoever writes into the entry works under its generation.
- `OneDraftWorks`: `OneDraft` and `ActsOnWhatItSees`.  `OneWorks` says that a draft which was
  not aborted is the one that is registered, and of the page the session saw last, so what
  it plans when it returns is of that page.  `BoardBeside` is that the agent leaves the
  preparation alone.

`WorkProofs`: `ConversationMemory` (under `MemoryAssumption`)

- `NothingExcludedIsHandedOut`: what a run or a fold is handed derives from nothing that is
  excluded by then, and a note from the answers it names.  Atoms are followed through
  answers that were built on answers and notes that were folded of notes, while exclusions
  come and go, so the invariant is about where text comes from and not about what is
  excluded: `DerivesFromAnswers` (a note and a fold derive from the answers up to the one
  they name, what a run was given from those its row names) and `ReachedIsOnRecord` (what a
  run that keeps a record sent is of the pieces and answers on that record).  `ClearIsClean`
  is the heart of it: the answers whose text meets nothing that is excluded are a set of
  which `Clears` makes what it clears a member, and `IsClear` is in every such set, so no
  induction over the chain of answers is needed.  `ShownIsClean`, `SuppliedIsClean` and
  `FoldedIsClean` carry it to what is handed out.

`WorkProofs`: `CvLifecycle` (under `CvAssumption`)

- `Cleared`: `ClearedStaysCleared`, with the types.  Not inductive: what may still be written has to be of
  the CV's generation too (`StillOfIt`).  A legacy run has no generation to check and is
  harmless because `LegacyRunUnderWay` keeps its CV from being cleared; an edit may read a
  later text than its own generation, and then its proposal is refused.
- `OneAnswer`: `RepliesAgree` and `RepeatsTheAnswer`: whoever was told it is done has a receipt.
  `WithinBounds` is what keeps revisions within `MaxRev`, which only the types speak of.

`EdgeProofs`: `MCWorkspace`

- `EverythingIsAccounted`, `OldIsSilent`, `WallsHold`: `WorkIsAccounted`, `SupersededIsSilent` and
  `NothingExcludedIsHandedOut` of the run, from `WorkInv`, the invariants above on the
  instances `GP` (of `P`, `T` and `C`) and `GA` (of `A` and `M`).  The two states the run begins with
  that are not the modules' own, an entry prepared and a conversation answered, satisfy them
  (`PreparedHolds`, `AnsweredHolds`).

`DiscoveryProofs`: `OfferDetails` (under `DetailsAssumption`)

- `DetailsInv`.  A queued read is written down three times: in its row, in the line the pump
  takes from, and among those who wait for the read.  `RowsFit` says how they tell each other
  (the line is the queued rows, each once; while the process runs, the running rows are those the queue
  waits for), `SlotsFit` counts reads against the limits, `WorkFits` says that what is on
  record of details and analyses is what is under way, and that a process that ended has
  nothing under way, `TextFits` that an analysis is given the text whose hash it took.
  With them `QueueGoesOn` (while wanted rows wait, the pump is due or a read will make it so)
  and `BudgetIsKept` are kept.  `Lined...` are the lemmas about lines, `Cases` splits `Next`,
  and each action has a lemma of its own for the parts it can disturb.
- `ReadsAreKept`, `LedgerIsKept`, `ReadersAreTold`, `CancelIsKept`: the four properties of
  the run, from `RunInv`, which is `DetailsInv` and `SessionInv` of the instances `GB` and `GS`.

`SessionProofs`: `DiscoverySession` (under `DiscoveryAssumption`)

- `BudgetsHold`: `LedgerCovers`, `BoundsHold`, `SessionGoesOn`, `DeletedStaysOut`.  A page is
  charged before it is asked for and gives back what it did not use, so the ledger covers what
  was sent only as long as nothing is given back twice or after the session ended: `LedgerFits`
  counts the units that may still come back (`Units`), one by one, as a set.  Candidates are
  bounded by the parts of the boards until every board had a first page and by the whole
  after that (`CandidatesFit`), which needs `FirstPages`.
- `ReadersAreTold`: `RevisionMoves` and `EndedStays`, from the same invariant.

`OfferQueryProofs` (under `QueryAssumption`; any number of queries, searches, processes,
snapshots, versions and dataset files)

- `QueriesAreSound`: `Inv` always.  What an editor reads depends on every structure of the
  service at once, so the invariant has a part for each: `Types`; `QueueFits` (the queue is
  jobs that wait, each once); `JobsFit` (a job's row is open or went with its search, an
  open row has a job, and no answered one has); `CapturesFit` (a shared
  capture has a snapshot of its own, which is unfinished and in nobody's hands, and is known
  to exactly those who wait for it); `GotFits` (the snapshot a job has in hand is finished and of its search and,
  once it has a process, the one its row names, of the revision that was asked for); `RowsFit` (a row names a
  finished snapshot of its search, an answer is of that snapshot, and what is cited or
  applied is answered); `FilesFit` (a dataset in the cache is whole, and a file that is
  being built is one job's and nobody's dataset).  First come the operators on the database (`GcCollects` says
  all one has to know of `Gc`, whatever it picks; likewise `Completed`, `Clean`,
  `SearchDeleted`), then one lemma per action, which also proves the two action properties
  below, and the theorems cite the lemmas.
- `EverythingServedIsThere`, `EveryAnswerIsAsked`, `EveryVerdictStands` follow, and
  `ServedIsKept`, `AnswersAreAsked`, `VerdictsAreKept` state them as the run does, of the
  instance it checks.
- `RowsAndJobs`: `RowsFollowJobs`.  It needs `SlotsFit` too: the jobs a process works on are
  no more than the processes, and every queued job is in the queue.
- The guards that name a bound (`MaxSnaps`, `MaxVersion`, `Paths` in `RoomForCapture` and
  `RoomForOrphan`) are part of the steps, so the theorems say what they say for every value
  of the bounds, and nothing of a service that has no bound at all.

Only model-checked, and why:

- Liveness (`RunSettles`, `IndexCatchesUp`, `WhatWaitsIsServed`, `FirstJobEnds`): temporal
  proofs under fairness are beyond the provers used here.
- What a recursive function or a fold computes for every input: the diff, the pool of
  pieces, the detectors, salaries, and the bytes of the cache (`TransientIsBounded`, a sum over
  a set, and with it `RowsAreBoundedAndFollowJobs`, whose other half is `RowsAndJobs`).
- The conjunctions of `MCParts`: that module reaches RECURSIVE operators (those of `JsonChanges`),
  for which the provers have no backend.  What it states of `AttemptGuard`, `FrontDoor`,
  `Upgrade`, `WebReader`, `WebSearch` and `OfferFacts` is proved in those modules' own words
  (`OnceAtMost`, `EventsComeOnce`, `BackupsAreTrue`, `HostsAreReadInTurn`, `OffersAreKept`,
  ...), so that of `TurnsAreTaken` every conjunct but types is; what it states of its other
  parts is checked.
- The parts named in no heading above.

## What is not modelled

`PROJECT.json` says of each component what is left out.  Across them:

- The content of plans, prompts, answers and events, rendering, the wording of reasons
  and errors beyond what decides a branch, photographs.
- The ownership checks of `runCreate` and the refusal to resume over an unsettled attempt;
  the CLI and the browser bridge, which forward to the same dispatch.
- Parsing of pages, feeds and files into text or fields, and the scores that rank
  passages, pieces and offers: every order is possible where one decides.
- Validation jobs, drafts, paging and grouping of offer queries, the projection of offers
  and the limit of two captures at once; turns and scopes of the discovery chat; the event
  cap of a session.
- What a second process could do to the file where a module says it is one process's:
  `CvReading` takes the answer of a search and its entry in the record as one step, `Upgrade`
  has one build at a time.  `OfferQuery`, `RunEngine`, `CvIndex` and `AttemptGuard` have
  crashes and restarts, not two processes at once.
- Time is a number of ticks where spacing is the point (`WebReader`, `WebSearch`) and a
  choice elsewhere.
- Integration providers, browser recipes, routing, the status report of providers.

## Plan

What is left, the most valuable first.

1. Proofs of parts that are only checked: `KeptIsOfTheKeyInForce` of `ProviderChoice` and
   `AnswersAreWhole` of `ModelCall` come first, as they rest on no recursion.
2. The discovery chat: its turns, their scopes, and the captures they freeze.
3. Validation jobs and drafts of offer queries; the identity of offers across boards.
4. A refinement of the conversation's record: what `taint.ts` computes implements
   "derives from", with atoms as the abstract state.
