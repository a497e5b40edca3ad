# Veeam AIops: specifications, model checks and proofs

TLA+ modules for `veeam_aiops`, the governed client of Veeam Backup & Replication (VBR).
Paths are relative to `src/veeam_aiops/` unless they start with `src/` or name a document.
`PROJECT.json` maps every definition to the lines it models and lists runs, mutants,
findings, hazards and theorems.

## The system

An operator (CLI) or an agent (MCP server) calls a *tool*. Every tool is wrapped twice:
`@tool_errors` turns exceptions into error payloads, and `@governed_tool` around it applies the
budget, commits an audit intent for a real write, runs the body, records an inverse, and
finalizes the audit row. The body talks to a VBR server through one connection per target.

| component | state it keeps | operations | talks to |
|---|---|---|---|
| audit engine, `governance/audit.py` | SQLite `audit.db` + WAL, archives, `_ok`, `_write_blocked`; lock file | `log`, `begin_write`, `finish_write`, `reconcile_pending`, rotation, archive clean-up | the harness; other processes through the file |
| harness, `governance/decorators.py`, `governance/outcome.py`, `mcp_server/_shared.py` | `_CallState` per call | pre-check, begin, body, annotate, finalize | audit, budget, patterns, undo store, telemetry |
| undo tokens, `governance/undo.py`, `mcp_server/tools/undo.py`, `cli/undo.py` | `undo.db` | `record`, `get`, `mark`, `undo_apply` | the harness; the inverse tool, governed in its turn |
| connection, `connection.py` | bearer token in the client's header, `_expires_at`, `_auth_lock`; cache of connections | login, refresh, renew, request | the VBR server |
| budget, `governance/budget.py` | counters and one deque of admission times per fingerprint | `check_and_record`, `add_duration` | the harness |
| paging, `ops/_paging.py` | one read: items collected, skip, page | `fetch_all`, `fetch_first` | the connection, every list and sum |
| remediation patterns, `governance/patterns.py` | loaded patterns, arming counters, cooldowns | match, report, hot reload | the harness |
| secret store, `secretstore.py`, `cli/secret.py` | `secrets.enc`, its temporary file, a legacy `.env` | unlock, get, set, delete, change password, migrate | config, CLI; other processes through the files |
| ranking and footprint, `ops/ranking.py`, `ops/footprint.py`, `ops/_backup_files.py`, `ops/_revision.py` | one scan or one usage | negotiate, select, parallel scan, tally, lookup; points, verdict per file | paging, the connection's shared token |
| restore guard, `ops/restore.py` | none | preview, confirm, start | the connection, jobs' sessions |
| jobs, `ops/jobs.py`, `mcp_server/tools/jobs.py` | none of its own; the job on the server | start, stop, retry, enable, disable, each with a declared inverse | the harness, the undo store |
| sessions and diagnostics, `ops/sessions.py`, `ops/overview.py`, `ops/diagnostics.py` | none; several requests to a server that moves on | window, unfinished sessions, failure analysis, stop | paging, connection |
| other reads | none | one request each | paging, connection |
| config, doctor, init, risk tiers, sanitizing, CLI wiring | files and text | parsing, printing, prompting | all |

What is hard:

* *Audit*: several processes and threads append to, rotate, resolve and reconcile one file;
  resolution does not take the guard that rotation takes; any step can fail or be the last of a
  process. Correct means: no change without a committed intent, no intent lost or carried away,
  one resolution per row, and no further write after a lost finalization.
* *Harness*: what the row, the breaker, telemetry and the undo token say must agree with what
  happened, also when the response is lost, the storage fails or Ctrl-C arrives.
* *Undo*: read, inverse and mark are three steps; applies overlap, crash and lose responses.
* *Connection*: threads meet an expired or revoked token together; a retry must not apply a
  write twice and a failed login must not strand the others.
* *Budget*: exact ceilings and window edges under races and a moving clock.
* *Patterns*: caps and circuit per pattern and target hold while threads race and files change;
  a reload is several steps outside the lock.
* *Paging*: no duplicate and no silent partial result from a server that cannot be trusted.
* *Secret store*: every command writes back the whole store it read, through one temporary file;
  a migration is many such writes and a rename. Any of them may be the last step of a process.
* *Ranking and footprint*: workers fail and finish in any order, servers ignore filters and leave
  out owners; no byte may get lost, be counted twice, or be charged to the wrong machine.
* *Sessions*: nine queries and one log per failure are read of a server that moves on meanwhile.
* *Restore*: the machine may be renamed, and its point be unreadable, between preview and start.
* *Jobs*: an inverse is a fixed tool and no saved state; chains of writes must come apart in order.

## Modules

`WriteLedger` is the abstract promise about writes (SECURITY.md:74-78): a ledger entry and a body
per write, no database, lock, rotation or process.

`AuditLog` is the engine. `pc[c]` is where call `c` is: `ready`, `waiting` for the guard, in it
(`check`, `checkpoint`, `rename`, `init`, `insert`), `running` its body, or over. `log` is the
live file with what is still in the write-ahead log, `main` the part a checkpoint moved to the
main file, which is all a rename carries into `archives`. One action per step between which
another process can act; `Restart` kills a process at any point and builds a new engine.
`LedgerSpec` maps it onto `WriteLedger`: a write's entry is its row in the live file or an
archive.

`GovernedCall` is the harness: one action per stage of the wrapper (`Begin`, `PreCheck`,
`BeginWrite`, `Read`, `Send`, `Annotate`, and of the finalization `Judge`, `Record` or
`RecordFails`, and `Emit`), the exceptions (`Raise`, `Interrupt`) and, in `effect` and `failed`,
the truth the code never reads. A tool is four flags. An exception passes the client, which
translates those of httpx (`Translate`), and then `tool_errors` (`Flattened`).

`UndoTokens` is the store, `undo_apply` and the exit status of the command. The inverse tool is
one step with the outcomes `GovernedCall` gives it: success, an error payload, an exception, each
with the change live or not. `seen` records which applies were over when a row was read.

`JobUndo` extends it with what the tokens are about: a job per server, the five job tools, the
inverse each declares (`Inverse`) and what both do to the job. `trail` is the history of writes
that nothing but their inverses has disturbed; `Elsewhere` is the job ending or somebody else's
change. `InverseTool` and `InverseRetried` are the two halves of `Inverse`. A write and its token
are one step, and tokens recorded by inverses are left out.

`TokenRenewal` is one connection shared by threads. The header and `_expires_at` are read without
the lock, so every read is a step of its own. Tokens are numbered; the server may revoke any.

`Budget` is the tracker. A call reads the clock (`Arrive`), is answered under the lock (`Admit`,
`Refuse`) and adds its duration when it ends. The clock moves between these steps and may be set
back. `seconds` saturates at `MaxSeconds`: the code compares it with nothing else.

`Paging` is `_collect()`: one `Fetch` per request, the server's answer chosen by `honours`, the
collection changing between pages. `Items` are the items a server can have.

`Subsequences` is the Python list comprehension that keeps some items of a list in their order:
`Picked(s, S)`, the items of `s` at the places `S`. `Paging` drops duplicates with it and `Ranking`
puts its payload in order. It is written without recursion, so that it can be reasoned about.

`Patterns` is the engine and its use by the harness: a call compares modification times (`Check`),
reloads in the steps of `_load()` (`Stat`, `Parse`, `Install`, `Stamp`), selects without the lock,
decides under it and reports when it ends. States of the directory are numbered by its edits, so
distinct edits have distinct modification times; a state of the directory has at most one pattern
per id, since a later file replaces an earlier one. `arms` and `outcomes` are the history the
properties are about, the list of armings that a key keeps is the set of their places in `arms`, and
`overlapped` is whether two reloads ever were under way at once.

`SecretStore` has a process per command. `store`, `tmp`, `env` and `backup` are the four files,
`Absent`, `Empty`, `Garbled` or a password with a map of secrets; `fd` is which of them a process
has open, so that a rename carries the open file along. `ledger` is what the completed changes
amount to, `overlap` and `collided` whether two commands, or two holders of the temporary file,
ever were under way at once.

`BackupFiles` holds the pure parts of `_revision.py` and `_backup_files.py`: which revision a
negotiation may end with, whom a file names, and `Classify`. `Ranking` is the scan: the caller
selects, a pool of workers reads objects and then files, the caller collects in any order, aborts
or folds in scan order, and looks up owners that no listing knows. A worker's look at the stop event
and the beginning of the read it guards are two steps, with `late` as the history of the reads that
began after the event. `Footprint` extends it with one
usage of the same server, so that the two can be compared. A server is a record of its objects,
points and files and of what it heeds; `Stored` is the truth that the code cannot ask for, and
`Consistent` what is assumed of every server: its ids are unique, a point is in the backup of its
file, a file in one of the backups, the one owner that an old revision names is among the owners.

`Sessions` is the server's sessions and the two calls that read them one request after the other.
`Restore` extends it with previews, the two questions of the command, the guard and the request;
a posted restore is one more session. `slipped`, `hidden` and `named` are histories.

`MC_*` modules give the constants their values. Definitions marked "Fault" are the mutants: the
forms plausible bugs would take. They are not part of the specifications.

## Runs

| run | instance | shows |
|---|---|---|
| `audit` | 2 processes, 3 writes (2 in one process), rotation from 1 row on, 1 archive, 1 restart | `NoPendingArchived`, `IntentHeld`, `PendingAccounted`, `RotationKeepsRows`, `ResolvedIsFinal`, `LossStopsWrites`, the refinement `LedgerSpec`, and that every call ends |
| `governed` | 2 calls on 2 threads; a write with an undo and one without, a preview, a read and a list; interrupts | `FailureFromBody`, `SuccessTruthful`, `ReportsAgree`, `InverseSound`, `IntentPrecedesEffect` |
| `undo_apply` | 2 applies, 2 tokens, 2 servers with a job each, a changing default, retry and stop; symmetric | `AppliedMeansLanded`, `LateApplyRefused`, `UndoneInReverse` |
| `renewal` | 3 threads, 1 revocation, 1 lifetime, answers with and without `expires_in` | `RenewedOncePerCause`, `AppliedAtMostOnce`, `EveryRequestEnds` |
| `budget` | 2 threads, 2 fingerprints, ceilings 2 and 3, 2 calls per window of 2, clock to 3, set back once; symmetric threads and fingerprints | `CallCeiling`, `WindowExact` |
| `paging` | collections of up to 4 items, pages of 2, 3 pages, one change, one item without id | `CompleteOrError`, `HonestRead`, `ReadEnds` |
| `patterns` | 2 symmetric threads, 2 patterns on 1 target, 3 states of the directory, windows 1 and 2, clock to 2, 3 armings | `RateCapped`, `CircuitExact`, `ArmedAsCurrentSerially` |
| `secrets` | 3 symmetric processes, each with any of five commands; no store or one with one secret, a `.env` with two; a process may die before any step | `StoreIsLedger`, `MigrationKeeps`, `AbsenceIsReal` |
| `storage` | 3 backups, 2 workers, 1 lookup, servers of every revision that filter or not, list points or not, forget owners, rename machines | `Conserved`, `PayloadInOrder`, `AbortBoundsReads`, `ChargedBytesAreOwn`, `NoDrift` |
| `restore` | 3 symmetric sessions, 4 of the 9 unfinished states, 2 causes, a window of 2, 5 moves; names that are the host, its first label, neither or blank | `ActiveFound`, `FailuresExplained`, `NeverOverItself`, `PreviewAgrees` |

Where the code departs from what the repository says of it (quotes under "findings"). The first
two are listed runs; the other configurations give a counterexample when run by hand with the `MC`
module named:

| configuration | property | what happens |
|---|---|---|
| `governed_lost` (run) | `NoFalseFailure` | the client translates the httpx error, so a lost response is audited `error` though the change is live |
| `undo_twice` (run) | `AppliedOnce` | two overlapping applies both run the inverse |
| `governed_list`, `MC_GovernedCall` | `NoFalseSuccess` | a failure flattened into a list is audited `ok` |
| `undo_exit`, `MC_UndoTokens` | `ExitTruth` | the command exits 0 although the inverse failed |
| `undo_restores`, `MC_UndoTokens` | `RestoresBefore` | undoing the enable of an enabled job disables it |
| `patterns_torn`, `MC_Patterns` | `ArmedAsCurrent` | two overlapping reloads leave the older patterns with the newer modification times: the edit stays unseen until the next one, and what it removed is armed |
| `sessions_active`, `MC_Restore` | `EveryActiveFound` | a session moves between two queries from a state not yet asked for to one already asked for and is in no answer |

Four more follow from conditions of the properties below, each of which TLC refutes without it:
a file of two objects of one machine and a machine with two names (both `NoDrift`), a server that ignores the point filter
(`ChargedBytesAreOwn`), and an unreadable store that passes for a missing secret (`AbsenceIsReal`).

*Bounds.* Rotation needs one row over the threshold and one process that appends while another is
between steps; two writers in one process are needed for `LossStopsWrites`, a third elsewhere for
the flock. Calls of the harness meet only in `blocked`, which a lost finalization sets under the
other's intent: two on two threads. A stampede needs two threads at the lock and a third that reads the header in between. The
window's edge needs a clock that reaches one past it. The page budget (3 pages of 2 for 4 items)
is reached by a server with short pages. Counters that the code leaves unbounded are bounded by
`MaxRestarts`, `MaxRevoked`, `MaxElapsed`, `MaxTime`, `MaxArms`, `MaxSetBacks` and `MaxChanges`.
`MaxMoves` bounds the sessions' moves and renames together, and `MaxLookups` is the code's own
budget. Two writes and two applies are what reverse order needs; with tools that only start and stop
the job a second dimension of it would only repeat the first. Three commands are two that overlap
and one that sees what they left. One of three
backups may fail while another is read and a third is queued. Three states of the directory are what a torn reload needs: one loaded at the start, one in the
slow reload, one in the fast. Three armings are two failures with a success between or before them.

*Deadlock* is not checked: in every instance the calls, or the armings, are finitely many and the system stops when
they are over. That nobody is stranded is the liveness property of each run that has a lock.

*Fairness.* `WF(Step(c))` for calls in the engine: its locks are released in `finally` blocks and
SQLite waits at most its busy timeout. `WF(Request(t))` for requests: httpx has a timeout; no
thread takes the lock more than twice, so weak fairness is enough. `WF(Fetch)` for a read.
Nothing is assumed of operators, restarts, revocations or the clock.

*Conditions in properties.* `SuccessTruthful` excludes calls cut off by Ctrl-C, which the code does
audit as `ok`, and failures flattened into a list (`governed_list`). `FailureFromBody` allows the
row of a lost response, which calls a live change an error (`governed_lost`). `WindowExact` holds for a `steady` clock, never
set back and not advancing between a call's reading of it and the lock. `CompleteOrError` and
`HonestRead` hold for a server that always reports a total and a collection that stands still, and
a page has no item twice, which `_paging.py:95` does not look for;
`ArmedAsCurrentSerially` excludes reloads that overlap; `RenewedOncePerCause` excludes, for the
retry, the renewal between the look at the header and the send. `AppliedMeansLanded` asks for
the server of the write only where the write named it and the caller of the apply named none: with
neither, the code takes the current default. `UndoneInReverse` speaks of writes that changed something. `StoreIsLedger` and
`MigrationKeeps` are about commands that do not overlap, as the code has no lock; for those that
do, a store that is whole is promised as long as no two have the temporary file at once, and so is
`AbsenceIsReal`. `ActiveFound` lets go the sessions whose query was refused, which is reported, and
those that slip past the read. `FailuresExplained` needs a server that counts log records and whose
records fit in the 200 and 400 characters that `sessions.py:157-164` keeps of a title and a
description: what is cut off may be the cause, and nothing tells. `NeverOverItself` is about the
names up to the request, also if its response is lost; the request carries no name, so a rename
after the read is not caught. `LossStopsWrites` lets go a write that waits for the guard when the
loss happens: the code looks at the flag before.
`ChargedBytesAreOwn` needs one that filters and is honest about what is in a file, and leaves out
the case the payload warns of; `NoDrift` needs an honest one, no file of two objects of a machine, and
no machine with two names: a usage is of a name and a ranking of an inventory id, so of a renamed
machine the two are different things. The attempt to prove `NoDrift` found that last condition; the
instance has such a machine since, and TLC refutes `NoDrift` without the condition.

*Types.* `TypeOK` of `AuditLog`, `GovernedCall`, `Restore` (with `Sessions`), `UndoTokens`,
`TokenRenewal`, `Budget`, `Patterns` and `SecretStore` and `PagingTypeOK` of `Paging` are proved and
in no run's configuration. The types of `JobUndo`, `Ranking` and `Footprint` that matter are parts
of the invariants below.

## Proofs

TLAPS checks these for all values of the constants: every invariant and every action property
of a passing run, and that the engine implements the ledger. Each rests on the named assumptions of
the modules and on nothing else unless it is said. An invariant is proved as a conjunct of an
inductive one, whose name is given; the types are a conjunct of each.

`AuditLogProofs`: `TypeCorrect`; `RotationSafe` and `RotationLosesNothing`, assuming `Flock` (the
guard spans processes: POSIX); `IntentAlwaysHeld` and `PendingAlwaysAccounted`, assuming also
`OperatorChecksFirst` (the docstring of `reconcile_pending`); `ResolutionIsFinal` and
`LossStopsEveryWrite` with no assumption. `NoPendingArchived` is not inductive: `RotationInv` adds
that at most one call is in the guard, that no pending row exists while a rotation is under way,
and that after a checkpoint `main` is the whole log until the rename. `IntentHeld` needs
`IntentInv`, which ties the id of every running or undecided write to its own row and no other to
it. `LossStopsWrites` needs `LossBlocks`: a process with an unresolved write is blocked, and a
strict call of it past the guard's door was there before.

`KeepsThePromise` is the refinement of `WriteLedger`, under both assumptions. The ledger's entry of
a call is the one row that the call has, wherever it is, so the mapping is a function only because
no call ever has two: `RowInv`. Then each action is a step of the ledger or a stutter; a rename is
a stutter because `RotationInv` makes the archive of `main` the whole live file, a clean-up of
archives is the ledger's forgetting of resolved entries.

`GovernedCallProofs`: `TypeCorrect`, `IntentComesFirst`, `FailuresAreTheBodys`,
`SuccessesAreTrue`, `ReportsTrue` and `InversesSound`. The invariant is phase by phase: `Early`
(before the body answers), `ResultTrue` (the result against the truth), `ReportTrue` (what is
reported and when) and `TokenInv`. A frame
lemma says that a step of one call leaves the facts about the others alone, so each action is
proved for its own call only.

`RestoreProofs`: `TypeCorrect`, `ActiveAlwaysFound`, `FailuresAccounted`, `NeverOverTheServer` and
`PreviewJudgesAlike`, for any number of sessions, unfinished states and names. `ActiveFound` is
inductive together with the types, because `Asked` grows only where the query for the new state
either finds or hides what is in it. `FailuresExplained` needs `WindowInv`, that whoever began
after a session of the window is in it unless it is said to be cut, and `LogInv`, that every finding
has the cause of the log it was given or is on the list of the unreadable or incomplete. The guard
needs `GuardInv`: what was read while a call is judged is among the names the machine had since the
call, so a read that passed, of a machine that bore only the server's names, was no read.

`UndoProofs`: `TypeCorrect`, `UsedUpMeansLanded` and `LateIsRefused` for `UndoTokens`; and
`JobsAreTokens`, by which they hold in `JobUndo` too: with the jobs every step is a step of the
tokens. `AppliedMeansLanded` needs `LandInv`: an apply about to mark has a landing of its own, where
the write was. `LateApplyRefused` needs `ReadInv`: of the applies that were over when one passed its
checks, none had used up its token, which stays so because a call that is over never becomes a
success. `ReverseRestores` is about any number of writes and jobs: `TrailInv` says that each write
of a trail began with what the one before it left and that the last left the job as it is, and
`InverseReverts` that a job tool that changed a job is taken back by its inverse.

`BudgetProofs`: `TypeCorrect`, `CeilingHolds` and `GuardExact`, for any number of threads and
calls. For the ceiling the counter is the number of admissions, and no limit is ever lowered.
For `WindowExact` the deque must be compared with the history of admissions, which the code does not
keep: `WindowInv` says that, as long as the clock is steady, a deque is in order and has as many
entries from any moment of the window on as the history has. That dropping the old entries from the
left keeps exactly the young ones is `RecentSuffix`, by the least-number principle.

`PatternsProofs`: `TypeCorrect`, `RateHolds`, `CircuitHolds` and `ArmsCurrent`, for every set of
patterns, directories and threads. `RateInv` says that the armings a key keeps include all of its
own that are younger than a day. `CircuitInv` says that a key's counter is the length of the run of
failures that its reports end with, and its cooldown that of the last report that broke it; both
survive a reload that changes the limits. `AloneInv` orders the editions of a reload in
every step of it: looked at, parsed, installed, stamped, and none newer than the directory. It is
claimed as long as no reloads overlapped, and the configuration `patterns_torn` shows that more
would be false.

`SecretStoreProofs`: `TypeCorrect`, `StoreExact`, `MigrationLosesNothing` and `AnswersReal`, for any
number of processes, secrets and lines. `FileInv`: while no two processes have the temporary
file in hand at once, it holds what its writer is writing, and the store, always an earlier
temporary file, is whole. `SerialInv`: while commands do not overlap, a command's view is what it
started from and then what the ledger is to become, and a migration that is about to retire the
`.env` finds every line of it in the store. `AskInv` carries what an `ask` unlocked to its answer.

`ReadProofs` has the three modules whose requests make up a read: the token they are sent with,
the pages, and the storage reads. It begins with the lemmas of `Subsequences` that the last two
share: the items at a set of places are those items, once and in their order
(`PickedProperties`), all of them if it is all places (`PickedAll`), and a later place adds its item
at the end (`PickedGrows`).

* *Renewal*: `TypeCorrect`, `NothingTwice` and `OneLoginPerCause` for any number of threads,
  revocations and lifetimes. `NoStampede` is a balance: every login is for a distinct token that was
  revoked (`Replaced`), or for a lifetime that ran out, and one that ran out without a login yet
  (`Overdue`) is still to come. The balance needs `HeaderInv`, what a thread knows of the header
  from its look to its retry, and `LockInv`.
* *Paging*: `PagingTypes`, `NeverPartial` and `HonestIsRead`, for any collection, page size and
  budget. `CompleteOrError` is a count: `CompleteInv` says that what was read has no item twice, all
  of them from a collection that stood still, and at least as many as it; hence every one.
  `HonestInv` says that an honest server was asked for its next item, and gave the first ones.
* *Storage*: `FewReadsBegin`, `NothingLost`, `OrderOfTheScan`, `NobodyElsesBytes` and
  `RankingMeetsUsage`, for any number of backups, workers, objects, points and files. `ScanInv`:
  the reads are of different backups, what is folded was delivered, and what is delivered stays
  as it is. `LateInv`: at the event no more jobs are at work than there are workers, and from then
  on a read that begins late is one that was between the look and its beginning then, so that the
  late reads and those that can still become late never grow. `SumInv`: every file of the results folded so far is in the one place that its owners
  call for, and the lookups move a file from one place to another. `OrderInv` and `RowInv`: the
  unreadable backups are those of the results folded so far, in order, and the object that names
  a row is in a backup not behind that of any other in it. `UseInv`: the points that a usage kept and
  the verdicts it gave follow from what the server holds. `ChargedBytesAreOwn` then follows
  from `Classify` alone, and `NoDrift` by comparing the two attributions of one file: `SumInv` for
  the ranking, `UseInv` for the usage.

Only model-checked: the liveness properties `EveryCallEnds`, `EveryRequestEnds` and `ReadEnds`, as
liveness under fairness is beyond the prover; and the counterexamples above. In `Ranking` the order of the
lookups, by bytes, is opaque to the proofs: they hold for any order.

## Not modelled

Text, redaction, sanitizing, risk labels, reading the configuration, doctor, prompts, printing and
argument parsing hold no state that the properties see. The cryptography of the secret store is a
library. Reads of one request (job and session details, backups, repositories, infrastructure) give
one answer and keep nothing. Of ranking and footprint the sums, change rates and retention are
arithmetic over what `Ranking` and `Footprint` decide. The half of `governance/outcome.py` that keeps a
before-state for an undetermined write is dead code: no tool calls `capture_prior_state`, so
`_record_undo` never finds one. The async wrapper has the stages of the other and no tool uses it.
The cache of connections is planned.

## Plan

1. `Guards`: `Budget` and `Patterns` composed as the pre-check of a call, since the budget's
   verdict decides whether a pattern is matched.
2. `Connections`: the cache filled without a lock, over `TokenRenewal`.
3. The token an inverse records for itself, in `JobUndo`.
4. Proofs: with these parts, that `Budget` and `Patterns` keep what is proved of them under the
   pre-check, as `JobsAreTokens` does for `JobUndo`. Every safety property of a passing run as it
   stands is proved.
