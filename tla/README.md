# A TLA+ model of the Lybra task gate

Lybra runs task cards through a fixed loop. A card is a Markdown file that lies
in one of the queue directories `pending`, `claimed`, `blocked`, `completed`,
`withdrawn`. An executor claims it, works on a git branch of its own and returns
it; the gate derives an audit card from the return; an auditor gives a verdict;
an advisor finalizes (merges) and closes. Everything is files: the card's
directory and frontmatter, append-only records under `5_tasks/records/`, and a
git repository. No database and, for the queue, no lock.

This project states what that loop promises, checks it with TLC on small
instances and proves the central invariants with TLAPS for all values of the
constants.

| file | what it is |
| --- | --- |
| `CardLifecycle.tla` | abstract: one card, its directory, rounds and closures |
| `BaseLedger.tla` | abstract: the base branch as a ledger of merges |
| `CardLoop.tla` | the gate verbs of one card and its audit rounds, each atomic |
| `QueueMove.tla` | how a move is made of file writes, with several processes and stops |
| `GateSteps.tla` | how return, dispatch, verdict, close and reopen are made of file writes, with stops |
| `Finalize.tla` | finalize runs of several cards on one repository, with kills and failures |
| `LoopRuns.tla` | loop runs, their records, the exclusive resource and the stop command |
| `Landing.tla` | landings of governance files in one shared checkout |
| `CardLoop_proofs.tla`, `QueueMove_proofs.tla`, `GateSteps_proofs.tla`, `Finalize_proofs.tla`, `LoopRuns_proofs.tla`, `Landing_proofs.tla` | proofs about these modules, for all values of their constants |
| `MC*.tla` | the same for TLC |
| `*.cfg` | the runs, listed below |
| `PROJECT.json` | components, runs, mutants, source map, findings, hazards, theorems |

`CardLoop` is the middle: it says what the verbs decide when each is
undisturbed, and implements `CardLifecycle`. The other modules each look inside
something that `CardLoop` takes as one step: `QueueMove` inside a move between
queue directories, `GateSteps` inside a verb that writes several files,
`Finalize` inside the step of that name; it implements `BaseLedger`. `LoopRuns` is the driver that calls the
verbs, `Landing` is what happens to the files the verbs wrote.

## The parts of the system

All Python sources named here are under `src/tools/aipos_cli/` unless a path is
given.

| part | state it keeps | operations | what must be right |
| --- | --- | --- | --- |
| queue and transition engine (`queue_mutation.py`, `transition_engine.py`) | directory of the card, frontmatter, round boundaries, rework rounds | claim, block, reopen, complete, withdraw, rework, adopt | one directory per card; legal moves only; nothing lost when a move is cut short |
| gate verbs (`board_adapter.py`) | returns, dispatches, verdicts, closures | return, audit dispatch, audit verdict, close, withdraw, mark-concluded, supersede, amend | order of the loop; records agree with the card |
| audit derivation (`audit_derivation.py`, `audit_helpers.py`) | audit cards `R`, `R2`, …, what each supersedes | derive, replace, supplementary audits | every delivery is audited, once, on the current commit |
| next-step derivation (`next_resolver.py`) | none (reads) | staleness, round floor, next command | its readings are the gate's |
| finalize (`finalize.py`, `deployment_authorization.py`) | the base branch, merge lock, finalization records | check, merge, push, record, resume | only audited commits are merged |
| confirmation (`controlled_execute.py`) | dry-run tokens, in memory and on disk | register, look up, expire | a confirmation does what was previewed |
| loader and validator (`task_loader.py`, `validator.py`) | lookup memo | find a card by id or path | a duplicated card is refused |
| records (`record_writer.py`, `records.py`) | the records | write all or none, index | append-only |
| loop driver and run record (`loop_driver.py`, `loop_run_record.py`, `harness_launch.py`) | the run record, a launched process | drive a card to completed | bounded, ends in a known exit |
| artifact ingest (`artifact_ingest.py`) | accepted artifacts | preview, accept | nothing outside the declared paths; no report of a replaced round |
| governance commit (`governance_commit.py`) | the governance repository | check, commit, push | what a verb wrote is committed |
| enrollment and tokens (`enrollment.py`, `token_rotation.py`) | codes, credentials | mint, exchange, revoke | a code is used once |
| autonomy policy (`autonomy_policy.py`) | signed envelopes | match, count uses | no more uses than granted |
| owner inbox (`owner_inbox.py`) | decisions | list, decide | a decision is about the item as shown |
| MCP server (`src/tools/mcp_server/`) | none | one thread per request | (source of the concurrency) |
| relay (`src/relay/`) | queued messages | send, retry | no message lost |
| board, terminal interface, sandbox, distribution, onboarding, roadmap | views and files | | not part of the loop |

The parts meet in the files. The server's threads and the command line call the
same `mutate_queue_task`; the verbs call the derivation, the derivation writes
audit cards into the queue; finalize reads what the verdict verb wrote; the
resolver and the driver read everything and call the verbs.

What is hard: the queue is moved with a write and an unlink that other threads
may interleave with; records come after the move; several verbs read "the
latest" of something without regard to the round it belongs to, while others
restrict themselves to the round; audit rounds are replaced when the branch
moves on; tokens are not consumed. `PROJECT.json` lists these hazards at their
lines with the property for each, or why there is none yet.

## CardLoop

State and code:

| variable | in the repository |
| --- | --- |
| `place` | queue directory, equal to the frontmatter `status` |
| `round` | 1 + the round-boundary events of the card (`round_floor`) |
| `ready` | `executor_status: completed` and `audit_readiness: ready`, set by a return, never reset by a reopen |
| `auditRef` | `related_audit_task_ref` |
| `tip`, `merged` | commits along the card branch; the last one in the base branch |
| `checked` | a finalize has looked at the branch and is about to merge it |
| `returns` | `records/returns`, each bound to a tip, with its outcome |
| `audits` | audit cards in order of their round, with the return reviewed, the round superseded, the round of the card, and the HEAD of the forensic work tree |
| `verdicts` | `records/audit_verdicts`, by time |
| `reworks` | `rework_rounds` of the card |
| `closures` | `records/closures`, with the return and verdict that were the latest ones |
| `reported` | audit cards a withdrawal said it could not withdraw |

Actions are the verbs: `Claim`, `FileReturn` (card, return record, derivation of
the audit round and its dispatch record, back reference), `RegisterRework`,
`AuditDispatch`, `ClaimAudit`, `WithdrawAudit`, `AuditVerdict` (with the
automatic close of the audit card), `CheckBranch` and `Finalize` (the tip is
compared with the verdict, and later the branch is merged by its name, so that
anything may happen in between), `Block`, `Reopen`, `Close` (with
the first audit card), `Withdraw` (with the open audit cards, any of which may
fail). `Commit` is a commit made by the executor in the card's work tree.

Abstractions, each a simplification of data and not of control:

* one card; executor and auditors are fixed and distinct, so that the identity
  checks pass;
* PASS stands for `PASS` and `PASS_WITH_NOTES`; FAIL for the values that release
  a dispatch (`FAIL`, `BLOCK`, `WARN`);
* commits are numbered along the card branch; a merge takes the tip into the
  base branch (rebase and conflicts are not modelled);
* the auditor names the dispatch record of the round judged; what happens when
  that is left to the default, which may name another round's and get the verdict
  refused, is in `GateSteps`;
* a verdict may name any commit up to the tip, because the gate checks only its
  format; the audit worktree's HEAD is the tip at the time of the claim;
* records are ordered as they were written (the code orders by time stamps with
  one-second resolution; ties are not modelled);
* each verb is one step (`GateSteps` takes them apart).

A hand-made dispatch stores its record under the source card, where neither
`superseding_round` nor `return_staleness` looks; so a dispatched round
supersedes nothing and `ReturnStale` is about derived rounds only. This module
dispatches the next unused round id. In the code a dispatch may also name an id
that exists and write that card into `pending` again (`board_adapter.py:4504`),
which is in `GateSteps`.

### Properties

* `MergedHoldsPassed`: what is merged includes a commit that has a PASS naming
  exactly it. Note what it does not say: finalize compares with the *latest*
  verdict, so the PASS may come from a replaced round; and commits made between
  the check and the merge come in with the one that was passed (the finding
  `doc_exact_commit`).
* `CompletedWasAudited`: a completed card has a closure of its current round and,
  where the audit is required, one written while the latest verdict was a PASS.
* `NoSilentOrphan`: after a withdrawal every audit round still open was reported.
* `OneDerivedRoundInFlight`: returns do not leave two rounds open, unreplaced and
  without a verdict, except in one way: a person dispatches a round by hand while
  a derived one is in flight, which the FAIL of an earlier round releases. The next
  return then supersedes the last round, the one dispatched by hand, and derives
  another. "At most one", without the exception, is true within the bounds of the
  run and false beyond them (four audit rounds, three returns, a rework and a
  second commit): it was the attempt to prove it that showed the case. It is where
  `InFlightBlocksDispatch` below leads to if the loop goes on.
* `DeliveryIsReviewed`: after a return, the round in flight looks at the commit
  that was just returned.
* `LifecycleSpec`: under the mapping `delivered` = "this round has a return" and
  `closed` = rounds with a closure record, the loop implements `CardLifecycle`.
  The interesting parts are that a completed round is never completed again, and
  that a reopen starts a round exactly when there was a return.

The sentences of documents and comments that the loop does not keep are in
"What the documents say and the code does not" below.

## QueueMove

One card, and for each directory the claim id on the copy there. A move is a
list of steps that a process has still to do: `write` the target, `unlink` the
source, and for a claim `rewrite` the target (work-tree fields) and `record`.
The gate claim starts with a `plan` step, the second reading of the card by the
executor; the command-line claim writes its records first. A `Stop` may drop the
rest of a move anywhere: a kill, or an exception. Tokens are sets of claim ids
that stay until they expire; confirming one runs the preview again.

* `NeverLost` (one process): there is always a copy, wherever a move stops.
* `StrandedByOneMove` (one process): two copies are the source and target of one
  legal move.
* `ClaimIsRecorded`: without a stop, a card at rest in `claimed` has its claim
  record.
* `RecordedClaimNotReplayed`: a token confirmed a second time, even after a
  restart and a reopen, never executes a claim that already has its records.
* `NotLostByRace` (two processes, no reopen) and `OneRecordPerPending`: of racing
  gate claims only the one whose unlink succeeds gets its records.

With two processes *and* a reopen the card can be lost: a claim stalls between
its write and its unlink, another claim, a block and a reopen put the card back
in `pending`, and the stalled unlink removes it. While the first claim's copy has
been moved on, no copy is left. `NotLostByRace` excludes this case by its
premise; it is not claimed.

With two copies every command that names the card by its id refuses; that this
freezes the card (`validator.py:304`) is not claimed, because a command line that
names it by `--path` moves one of the copies (`StrandedIsFrozen`, below).

The fields of the card other than the claim id, audit cards and round boundaries
are left out here.

## GateSteps

One card and its audit rounds; a verb is planned in one step, from what the files
hold, and then executed write by write. `Stop` drops the rest of it. The writes,
in the order of the code:

| verb | writes |
| --- | --- |
| return | card ready; return record; audit card; its publish record; its dispatch record; link on the card |
| dispatch | link on the card; audit card, in `pending`; dispatch record |
| verdict | card marked with the verdict; verdict record; audit card completed |
| close | card completed; closure record; audit card completed |
| reopen | round boundary; report archived; card in `pending` (only the last if nothing was delivered) |

`report` is the file at the return location, with the round it was written in.
Whether the branch moved, which decides whether a verdict or a return is stale,
is a free choice in `DeriveCard`: the properties hold for either.

* `EveryRoundDelivered`: a round boundary closes off a round with a return record,
  however often a reopen is cut short and made again.
* `OneClosurePerRound`: a close cut short between the move and its record can be
  reopened and closed again, without a second closure of a round.
* `ReviewedReturnExists`: no audit card is about a return without a record.
* `StandstillHasCause`: wherever a verb was cut short, the audit of a delivered
  card is passed, in flight, or may be dispatched again, but for three causes: a
  *dispatch* cut after the link leaves a link to a card that does not exist, which
  counts as in flight for ever; a *verdict* cut after the mark leaves
  `dependency_audit_status: PASS` without a verdict, and if its audit card is then
  withdrawn, `board_adapter.py:4105` refuses every further dispatch; a dispatch
  that *names an existing audit card* leaves two copies, neither of which can be
  judged. All need an edit by hand. Nothing else is a cause: no return, closure or
  reopen cut short.
* `DerivedCardOnce`: the card that a return derives has one copy, however often a
  return is filed again or cut short. For a card dispatched by hand this is not
  so (`AuditCardOnce`, below): the dispatcher may name any id, also one in use, and
  the card is written into `pending` although it is claimed or completed.
* `FreshReport`: a return delivers a report of its own round; a reopen cut between
  boundary and archive is the exception in its premise.

## Finalize

State: the branch tips, verdicts and finalization records of each card; `trunk`,
the first-parent commits of the base branch; how many of them are pushed, and how
many were in each version deployed; the merge lock; and for each run where it is
and what it has read. A run goes through these steps, between which other runs,
executors, auditors and people who commit on the base branch come in:

| step | action | code |
| --- | --- | --- |
| compare the verdict with the tip | `Start` | `finalize.py:1953` |
| take the lock, without waiting | `TakeLock` | |
| are the commits since the deployed version covered? | `CheckInterval` | `deployment_authorization.py:724` |
| merge *the branch by its name*; read HEAD | `Merge`, `ReadMerge` | `finalize.py:1435` |
| regression; if it fails, look at HEAD, then reset behind the merge | `RegressionFails`, `Undo` | `post_merge_regression.py:834-837` |
| read HEAD again, push | `Settle`, `Push` | `finalize.py:2416` |
| is what would be deployed covered? deploy | `CheckDeploy`, `Deploy` | `deploy_gate` of `lybra-deploy` |
| write the record | `Record` | |

`Resume` is a run that finds the branch merged. `Stop` kills a run anywhere; the
lock is a file lock and goes with its process. Two facts of older repositories are
in the initial states: a card may have a PASS that names no commit
(`artifact_subject` is missing), which is let through for any commit of the card;
and there may be no deployed version yet: then nothing is asked of the commits so
far, and the first deployment asks about HEAD only.

* `LedgerSpec`: `Finalize` implements `BaseLedger`, which has no runs, no lock and no
  failures: merges are added at the end and bring in something new of their card,
  after a PASS for that or for less; only a last merge that nobody relies on (not
  pushed, not deployed, named in no record) is taken back, with what people
  committed on it; what a deployment adds was passed, and only what is pushed is
  recorded. The ledger forgets the verdict a merge names and the status of a
  record, which only a resumed run reads.
* `RecordedIsPushed`: kills, refusals and repetitions record nothing that is not
  pushed.
* `RecordNamesDelivery`: what a record names is the merge of its card or a commit
  that people made upon it while the run was under way, never one of another card.
  (That it is the merge itself is `RecordNamesOwnMerge`, below, and false.)
* `DeployedWasAudited`: every merge that is deployed, from the head of the first
  version on, has a PASS for exactly that commit or one of the old kind, although
  the merge itself may take a commit that has none.
* `UndoTakesOwnMerge`: an undo takes back no merge but that of its own card, under
  the lock. It may take back what a person commits between its look at HEAD and its
  reset (`UndoKeepsPeople`, below).
* `PassedIsRecorded` (liveness): a card whose tip stays passed, with nothing
  uncovered on the base branch, gets its record.

The version that a deployment builds is the base branch at one moment (`Deploy` is
one step); pushes and deployments by hand, `dev_override` among them, are left out.

A deployment that fails while a further commit of the card is merged leaves the
older merge uncovered for good: the interval check then refuses every finalize
until a person intervenes. `PassedIsRecorded` has this in its premise.
`finalize.py:1342` says conflicts are never resolved automatically; lines
1450-1460 merge JSON files key by key. That is data the model leaves out.

## LoopRuns

Each run keeps one record that only its process writes; all else is derived from
the records of others and from whether the process they name is alive. A run starts (writes
its record, *then* looks for another run of its card), asks for the exclusive
resource (writes the request, judges, marks the resource held, judges again),
launches a body, collects it, ends. `Kill` leaves record and body as they are;
`Reexec` ends the record of a run and goes on in a new deployment as another run
*of the same process* (`os.execve` keeps the process; `proc` numbers it by its first
run), so that the process an ended record names may be alive. The end of the old
record and the start of the new program are one step. The stop
command (`Stop`, `StopOverrun`, `StopTimesOut`) asks a living run and cleans up
after a dead one; it may report a residue other than a body of the run, such as a
process of a validation run on a host that cannot be reached. Seconds are explicit, because records are compared by
second-resolution stamps.

* `OlderRunWins`, `NoOvertaking`, `HolderIsUndisturbed`: as long as two stamps are
  not of the same second, two loops never drive one card, no request is
  overtaken, and a holder is not joined.
* `ResidueKeepsOut`: a body that could not be stopped keeps others out.
* `StoppedIsGone`: what is reported stopped has no body left and no process, except
  that of a run which a new deployment replaced before it saw the request: that
  process drives on as another run (`StoppedHasNoProcess`, below).
* `QueueMoves`, `RequestIsHeeded` (liveness): no one waits for ever for the
  resource; who is asked to stop ends, or was replaced.

Within one second the first three fail. `loop_driver.py:3397` says that two
simultaneous requests never both hold; TLC violates `NeverBothHold`: of two
requests of the same second the later key judges, holds and judges again before
the earlier one, which has judged too, marks its hold; the second judgements pass
over each other. Two loops of a card started in the same second both go on if the
smaller key writes its record after the other has looked
(`live_run_conflict`, `loop_run_record.py:1080`). Other observations made while
modelling: a loop killed with SIGKILL leaves its body running and nothing keeps
others out; `_latest_meta` may take a newer refused run for the one to stop.
Processes that a run starts besides its body are taken to end with it.

## Landing

The shared checkout as git sees it: work tree, index, branch, remote branch and
what the last fetch saw of it. A file is its version number, a commit the patch
`[file -> version]`, a branch the sequence of its patches; so the hash of a commit
is the history up to it and a cherry-picked commit has a new one. A landing checks
its scope (`AlreadyLanded`, `RefuseUnpushed` if only commits of others wait to be
pushed, `RefuseOverlap`, `RetryPush`, `Plan`), stages, commits
`--only` its manifest, verifies HEAD, fetches, and either pushes HEAD or picks the
local commits onto the remote tip in a work tree of its own; then the branch
follows the remote by `git reset --keep`. Several landings, writers, people who
stage and pushes from elsewhere interleave with these steps; `HookRefuses`,
`LoseConnection` and `Kill` are the faults.

* `PassIsPublished`: success is not reported for a commit that is only local,
  although HEAD is read again after the commit and pushed as it is then.
* `WorkKept`: no landing overwrites a version that has not been committed.
* `PublishedInTheEnd` (liveness): again and again everything on the branch is at
  the remote, unless a conflict or somebody's staging needs a person.

Cases the properties leave out, each found by TLC or while writing them: a landing
killed between its push and the move of the branch is refused on each rerun ("not
found among local-only commits", `governance_commit.py:1489`) until something else
is committed, though its content is at the remote; a commit dropped by
`reset --keep` (the finding `doc_landing_commit`) reads as "already landed"
afterwards; HEAD is compared by file names only, so with a shared chronicle the
verification may speak for another landing's commit; what others stage between
the snapshot of the index and the reset is lost from the index; what a killed
`git add` staged, followed by another write, is refused as somebody's staging
until it is unstaged by hand.

## What the documents say and the code does not

Four runs are expected to fail; each checks one sentence of a document or comment.

* `doc_round_closure`: the round-boundary declaration
  (`schema/transitions.schema.json:1579`) says that closing reads only records of
  the round; `close_task` reads all rounds. A reopened card can be closed at once.
* `doc_derived_verdict`: the origin of a derived audit round is its publish record,
  which can always be resolved (`board_adapter.py:5367`); the reference left by an
  older hand-made dispatch is taken instead, and the verdict is refused.
* `doc_exact_commit`: the verdict must cover exactly the commit
  (`finalize.py:955`); the branch is merged by name after its tip was compared.
* `doc_landing_commit`: following the remote only touches what remote commits
  changed (`governance_commit.py:1543`); a commit made meanwhile is dropped.

Further disagreements are stated as formulas beside the model and are violated by
TLC, but are not runs of the project: put the name in place of the property of the
configuration named.

| formula | configuration | sentence | what the code does |
| --- | --- | --- | --- |
| `RereviewReleased` | `MCLoopStaleClose` | a PASS for another commit releases a re-review (`board_adapter.py:4097`) | the chain check below refuses it |
| `InFlightBlocksDispatch` | `MCLoopStaleClose` (PROPERTY), `MaxReworks = 1`, `MaxAudits = 3` | an audit in flight blocks a dispatch (`audit_helpers.py:389`) | after an earlier FAIL it does not |
| `SupersededIsNotHeard` | `MCLoopStaleClose` (PROPERTY) | the report of a replaced round does not enter the gate (`transitions.schema.json:335`) | the ingest refuses it, the verb does not look |
| `SupersededCloseWithCard` | `MCLoopStaleClose` | replaced rounds are completed with the card (same line) | only the first round, only if claimed |
| `NewRoundIsAudited` | `MCLoopStaleClose` (PROPERTY) | records of an old round do not stop the new one (line 1579) | a fresh verdict of the old round stops the derivation |
| `NotClaimedTwice` | `MCQueueMoveRace` | a task cannot be claimed twice (line 148) | two threads that read `pending` overwrite each other |
| `RecordNamesOwnMerge` | `MCFinalizeExact`, `Outside = 1` | the record never takes another commit for the evidence (`finalize.py:2439`) | HEAD is read again after the regression; a commit a person made meanwhile is recorded as the merge |
| `UndoKeepsPeople` | `MCFinalizeExact` (PROPERTY), `Outside = 1` | the reset is refused rather than touch the commits of others (`post_merge_regression.py:836`) | HEAD is read at 834 and reset at 837; a commit in between is lost |
| `StoppedHasNoProcess` | `MCLoopRuns` | a loop stops when it finds a request before a step, and "stopped" means cleaned up (`schema/verbs.schema.json:2853`, `stop`) | a loop that finds a new deployment looks at that first (`loop_driver.py:2247`); its record ends, which is reported as stopped (`loop_run_record.py:1934-1937`), and its process drives on |
| `NeverBothHold` | `MCLoopRuns` | simultaneous requests never both hold (`loop_driver.py:3397`) | see above |
| `DispatchSupplements` | `MCGateSteps` | a repeated dispatch supplements what is missing (`board_adapter.py:4172`) | a link to a card that was not written blocks it |
| `AuditCardOnce` | `MCGateSteps` | if the audit card exists, the dispatch supplements the record (`board_adapter.py:4183-4185`) | it writes the card into `pending` once more (line 4504) |
| `StrandedIsFrozen` | `MCQueueMove` (PROPERTY), `ByPath = TRUE` | a card with two copies requires manual repair (`validator.py:304-305`) | a command that names it by `--path` moves one copy |

The comment at `audit_derivation.py:497` says that a dead
chain lets a return derive again; it never does, because the audit card `R` exists.

## Runs

| run | bounds | states | shows |
| --- | --- | --- | --- |
| `card_loop` | audit required; 2 commits, 2 returns, 2 audit rounds, 2 rounds, 1 rework | 3.9 million | all properties of the loop and the refinement of `CardLifecycle` |
| `queue_move` | 1 process, 3 claim ids, 2 reopens, with CLI claims | 19 thousand | stops and replayed tokens |
| `queue_move_race` | 2 interchangeable processes, 3 claim ids, 1 reopen | 0.55 million | races |
| `gate_steps` | 2 returns, 2 audit rounds, 1 dispatch, 3 rounds, 2 reopens, 2 verbs cut short | 0.86 million | what a verb cut short anywhere leaves to the later ones |
| `finalize` | 2 cards, 2 interchangeable runs, 1 commit and 1 verdict each (in some initial states the old PASS), 1 commit of a person, 1 fault, 1 rerun by hand | 0.67 million | merge, undo, push, deployment, record, resumption; the refinement of `BaseLedger` |
| `finalize_live` | 1 card, 2 runs, 2 verdicts, 2 faults, 1 commit of a person | 0.77 million | liveness |
| `loop_runs` | 2 cards, 2 runs, 2 seconds, 1 kill, 2 stops, 1 new deployment | 0.23 million | single instance, exclusive resource, stops, liveness |
| `landing` | 2 landings with a shared file, 3 files, 2 writes, 1 push from elsewhere, 1 staging, 1 fault | 0.37 million | safety and liveness of publishing |
| `doc_...` | smaller | until the violation | the findings above |

Why these bounds are enough: a re-audit needs two commits and two returns; a
replaced round needs two audit rounds; everything about an old and a new round
needs two rounds; a FAIL that is answered needs one rework. A replay of a token
after a reopen needs two claims and one reopen, the third claim id lets another
claim come between. A verb cut short needs one stop, the second cuts the verb
that repairs it; three rounds let a round pass that was closed off by a reopen
made twice. Two finalize runs are the one that merged and the one that resumes;
two cards are needed for the lock and for the interval of another card. Two
seconds distinguish "earlier" from "in the same second". A landing that was
overtaken needs one other landing or one push from elsewhere; the second write
dirties a file another landing is at. Races of three processes add no new pair of
steps on the same file. The theorems below hold for every bound.

Bounds are guards: a return that would derive an audit round past `MaxAudits`
is not taken, a reopen that would start a round past `MaxRounds` is not taken,
and so on. The only other restriction is in `loop_runs`: the cards are alike, so it is
enough that run 1, if it starts, is about the first of them (`FirstAboutFirst`). `CHECK_DEADLOCK FALSE` everywhere: a card may be withdrawn, or
completed and finalized, and then nothing more happens; the bounds also end
behaviours.

Every property of a passing run has a mutant: a plausible slip in one definition
(a dropped guard, a set too small, a swapped order) under which the same run
finds it violated. The mutants stand beside the definitions they change.

### Fairness

`CardLoop`, `QueueMove` and `GateSteps` assume none: the gate answers commands and
schedules nothing.

* `Finalize`: a run that is not killed goes on (`WF` of its own steps: no step
  waits for another process, the lock is not waited for), and the driver of a
  card calls `finalize --push` again until there is a record (`WF` of that start:
  the loop's next step is derived anew in each of its turns). Verdicts, commits
  and reruns by hand have no fairness. `finalize_live` has one card, because a run
  that finds the lock taken gives up: with two cards nothing in the code keeps one
  driver from always finding the other's run at it.
* `LoopRuns`: `WF` of each run's own steps, which wait only by polling; `SF` of the
  end of a card's work, which a run reaches between waits. Kills, stop commands and
  starts have none.
* `Landing`: `WF` of the steps of each landing. A landing that did not report
  success is called again, by the loop, whose next step it stays, or by the
  command its report prints. Writers, pushes and faults have none.

## Proofs

Each theorem states a property of the runs for every value of the constants;
where it needs a premise on them, the premise is part of the theorem.

### CardLoop_proofs

* `TypeCorrect`: `Spec => []TypeOK`. `TypeOK` is not inductive: that there are no
  more verdicts than audit rounds follows from the verdicts being about
  different, existing rounds. The inductive invariant `TypeInv` adds
  `VerdictsDistinct`; the bound follows from it by counting (`DistinctBound`, an
  injection between intervals).
* `CompletedIsAudited`, `OrphansAreReported`: the invariants `CompletedWasAudited` and
  `NoSilentOrphan`, each inductive relative to `TypeInv`, with one step per action
  that touches their variables. `MergedIsAudited`: `MergedHoldsPassed`, by `PassInv`,
  which adds `CheckedWasPassed`: what a finalize has looked at and not merged yet
  includes a commit that was passed.
* `LoopImplementsLifecycle`: `Spec => LifecycleSpec`. The mapping needs
  `ReturnsOfPast` (no return is of a later round than the current one): without
  it the reopened round could already look delivered.

* `FlightsAreDispatched`: `OneDerivedRoundInFlight`. `FlightInv` says more about the
  rounds: every derived round but the first replaces the one right before it, and
  the link on the card names the last round. Two derived rounds in flight are then
  not neighbours, so there is a dispatch after the first, and the guard of a
  dispatch (`DispatchReleased`) leaves no other reason than a FAIL of an earlier
  round.
* `DeliveriesAreReviewed`: the action property `DeliveryIsReviewed`; besides types it needs of the
  states before only that the return a round names exists (`RetsExist`).

### QueueMove_proofs

A move is the list of writes it has left; `Shape` says what matters about their
order (no write twice, the unlink right after the write, the record last) and
holds for what is left as well. `IInv` is `TypeOK` with `Shape` of every process
and the claim ids on the files.

* `NotLostByStops`, `StrandedTellMove`, `ClaimsHaveRecords`, `NoReplay` are about one
  process (`Process = {p}`), which may be stopped and go on as often as it likes.
  `OneInv` says how the files stand to the move in execution; `Stranded`,
  `Recorded` and `Replay` add what each theorem needs. `StrandedTellMove` is for
  cards named by id.
* `NotLostByRaces`, `OneWinsEachTime` hold for any number of processes. Without a reopen a copy only moves on in the order of
  the queue (`RaceInv`, by the rank of the directories), so that whoever is about
  to unlink leaves a copy further on. The claims that have their records, or may still get
  them, are collected in `Chances`: a gate claim enters it only by unlinking the
  pending card, and a `pending` card itself counts as one chance; so there are
  never more than times the card became pending.

### GateSteps_proofs

One verb runs at a time. `JobInv` says, by the number of writes it has left, what
was checked at its planning and still holds; a verb cut short leaves nothing
behind that `JobInv` speaks of, so a stop keeps it trivially and the work is in
the writes.

* `TypeCorrect`, `RoundsAreDelivered`, `ClosedOnce`, `ReviewsAreOfRecords` are
  conjuncts of the inductive invariant.
* `ReportsAreFresh` adds `NowFresh`: unless a reopen was cut short between boundary
  and archive, what is at the place of the report is of the round now.
* `OneCopyPerDerivation` (`DerivedCardOnce`) is a conjunct as well: a derivation writes
  only a round that does not exist, and a dispatch that writes over a derived card
  makes it one dispatched by hand.
* `StandstillsHaveCauses` (`StandstillHasCause`), without any premise on the constants,
  adds two invariants: `LinkFound`, the link on the card names an audit card that
  exists, unless a dispatch was cut short before writing it; and `MarkFound`, a
  card marked as passed has a verdict, unless a verdict was cut short after the mark.

### Finalize_proofs

The merge lock makes everything inductive: whoever is past it holds it (`Held`), so
between the merge of a run and its record no other run merges, pushes, deploys or
records. People commit at any time. `IInv` is `RunInv` (`Held`, and for each run what
it relies on where it is: a PASS of its card; until its undo `OnTop`, its merge
followed only by commits of people and relied on by nobody; and so on), `WorldInv`
(types of the rest, `MergedOnce`, `RecordNamesDelivery`, ...) and the bounds.

* `TypeCorrect`, `CommitMergedOnce`, `DeployedIsAudited`, `RecordsArePushed`,
  `RecordsNameDelivery` and `UndoTakesOwn` hold for any cards, runs, faults and
  commits of people, with or without a version deployed before and PASS verdicts of
  the old kind. `DeployedIsAudited` rests on `Clear`: what the version about to be
  built adds has its PASS, from the check of the deployment to the build.
* `FinalizeImplementsLedger`: every step is a step of `BaseLedger` or leaves the
  ledger alone. The undo is the step that needs `OnTop`; the deployment needs `Clear`,
  the merge the PASS that the run has read, the record that its run has pushed.
* `SettledStays` says what the ledger is for: whatever was pushed, is deployed or is
  named in a record stays where it is on the base branch (`SettledIsKept`, stated
  beside the proof). It says nothing of commits of people that are none of these,
  which an undo may take off. `CommitMergedOnce` states the other half, `MergedOnce`,
  which the ledger contains: its `Merge` asks for it.

### LoopRuns_proofs

`Effects` says once what a step does to one run (it starts, records, asks, ...,
or stays as it is while another run takes the step); the invariants of one run
are proved from it alone, without looking at the actions again.

* `TypeCorrect`, `StoppedRunsAreGone`: with `RunInv` (what is on disk at each line of
  a run, and where its body may be) and `TimeInv` (of two stamps the one the code
  writes first is not later), which the others use as well. `StoppedRunsAreGone`
  needs `ProcInv` besides: of the runs of one process at most one goes on, and all
  others were replaced.
* `OlderRunsWin`, `NobodyIsOvertaken`, `HoldersAreUndisturbed`, `ResiduesKeepOut`
  relate two runs. Each has an invariant about everything *past* a judgement
  (`ElderInv`, `QueueInv`, `OwnerInv`): the judgement establishes it, because it
  reads the record the other wrote a second before, and nothing in the life of
  either run can take it away, because a request never gets an earlier stamp.
* `OneRunIsNext`: `OneIsNext`, a property of every state rather than of a history
  (it needs only the types). The rule of `resource_conflict` always leaves exactly
  one living run unopposed, so the runs never all wait for one another. This is
  the part of `QueueMoves` that is a safety property. It is also why `NeverBothHold`
  fails only by judgements made in *different* states.

### Landing_proofs

* `PassesArePublished` (`PassIsPublished`) and `WorkIsKept` (`WorkKept`) rest on what
  is ever `Known`: the versions committed here or at the remote. It only grows, and
  everything a branch, a landing under way or a report speaks of is in it
  (`KnownInv`); the numbers still to be given are not (`NumberInv`). A file in the
  work tree is as on the branch or in a version not known yet (`TreeInv`), so
  that a commit, whoever makes it between two steps of a landing, brings in
  nothing that an earlier report has spoken for (`StaysPublished`). A version last
  written here is known only by a commit made here (`LatestInv`), hence following
  the remote does not take it away.
* `AlreadyLanded` reads the index, the branch and `origin/<branch>`, not the remote;
  that its report is true all the same (`CleanIsPublished`) is because the commit
  the version comes from is one the branches share.
* The lemmas about branches are of use beyond this module: `LastVersion`,
  `AppendedCommit`, `SharedOrBeyond`, and `UnpickedIs` (cherry-picking what
  `rev-list --cherry-pick` lists loses no patch), which rests on `EntriesAre`, a
  count of the places in a list.
* `TypeCorrect`: `TypeOK`.

Assumptions: `AuditAssumption` and `BoundsAssumption` of `CardLoop`, and the
assumptions of the other modules on the types of their constants
(`QueueMoveAssumption`, `GateStepsAssumption`, `FinalizeAssumption`,
`LoopRunsAssumption`, `LandingAssumption`); TLC evaluates them in the runs. None
asks for finitely many cards, runs or files.

Only model-checked is liveness (`PassedIsRecorded`, `QueueMoves`, `RequestIsHeeded`,
`PublishedInTheEnd`), which is out of reach of the proof system used. Every
invariant, every action property and both refinements that a run checks are proved.

## Not modelled

In the parts modelled: same-round rejection and mark-concluded
(`board_adapter.py:7248-7747`), converge, supersede and amend of a card,
adoption, supplementary audits, repair cards derived from a FAIL, audit cards that
are blocked or reopened, the in-transit guard of a withdrawal, owner rulings,
extensions of the rework budget, time stamps that tie (except in `LoopRuns`).
Verbs of one card that run at the same time are modelled for the moves
(`QueueMove`), not for the writes of `GateSteps`. Withdrawals cut short are in
`CardLoop` only as audit cards that fail to be withdrawn. Finalize leaves out dirty
work trees and repair cards that inherit verdicts; the loop driver leaves out the
derivation of its next step (a read of the same files), half-done deliveries and
other hosts; finalize leaves out pushes and deployments by hand; landing leaves out whole-root commits, the choice of the paths and
the contents of the guardrails.

Other parts and the reasons are in `PROJECT.json`: one-time codes and tokens, the
uses of an autonomy envelope, the owner inbox, the relay, state lint and recovery
have state of their own and could be modelled in the same way; they do not touch
the loop of a card. Rendering, wording, i18n, configuration, views, distribution
and transport are left out because no property is about them; they are most of the
source.

## What could come next

1. `Enrollment` (one-time codes) and `AutonomyGrant` (uses of an envelope under
   concurrent claims).
2. Extension of `CardLoop`: same-round rejection, mark-concluded, supplementary
   audits, repair cards.
3. Two verbs of one card interleaved in `GateSteps`.
4. An abstract specification of `GateSteps`, the verbs as atomic steps, and a proof
   that it is implemented.
