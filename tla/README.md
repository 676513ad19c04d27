# Sharly Chess: a TLA+ verification project

Sharly Chess runs chess tournaments: a web server (Litestar, asyncio) that the
arbiters' and the players' browsers talk to, a SQLite file per event, and a
window (Toga) around both.  This directory holds TLA+ specifications of the
parts of it whose correctness depends on the *order* in which things happen,
the TLC configurations that check them on small instances, and TLAPS proofs of
the properties that matter most, for every size.

All paths below are those of the repository; the program is under
`src/src/`.

## 1. Inventory

### The processes and what they share

| Runs in | What | Shares |
|---|---|---|
| the event loop's thread | every request handler, one at a time between two `await`s | the event files, the scheduler's state |
| worker threads of asyncio | `await SnapshotScheduler.snapshot_before_async` | the same |
| one `threading.Timer` thread per pending change | `SnapshotScheduler._on_idle` | `_state`, under `_state.lock` |
| the snapshot worker thread | `SnapshotScheduler._work` | the queue, `_state`, the event files (read) |
| uploader and background threads (plugins, `common/background.py`) | scan and read the events, send results | `EventLoader`'s sets of ids, under a lock |
| `atexit` | `SnapshotScheduler.stop` | `_state`, the queue |

A handler loads the whole event into objects, decides on those objects, and
writes through `EventDatabase`, a transaction.  Nothing compares, when it
writes, what it decided on with what the file holds by then: a handler that
does not `await` cannot be overtaken, one that does can.

### The components

| Component (sources) | State | Operations | What is hard | What makes it correct | Here |
|---|---|---|---|---|---|
| Snapshot scheduler (`data/snapshot_worker.py`, the calls in `database/sqlite/event/event_database.py`) | pending changes, timers, queue, worker, statuses | `notify_changed`, `_on_idle`, `_work`, `_write`, `snapshot_now`, `forget`, `forget_statuses`, `start`, `stop` | threads and timers that race, retries, deferral, stop | no committed change slips away, none waits for ever, no worker is leaked | modelled |
| Boards of a round (`data/board_operations.py`, `data/pairings/engines.py`, `data/pairing.py`, the pairings controller) | board rows and pairing rows, tied by a foreign key and a trigger | draw, complete, pair, unpair, byes, results, colours | views out of date after an `await`, two pages open, long sequences of manual changes | rows and boards agree, one table per board, one bye | modelled (individual Swiss) |
| Snapshot files and retention (`data/snapshot.py`) | a directory of files per event | write, list, archive, rename, prune | ranking of reasons, age limits, lists out of date | the newest and the better ranked are kept | writing and pruning modelled |
| Restoration (`data/snapshot.py`, `database/sqlite/`) | the event file, `_restoring` | `restore_in_place`, `restore_as_copy` | transactions open while the file is replaced; failure half way | no write is lost without a word; a failure leaves the old event | `restore_in_place` modelled |
| Event loader (`data/loader.py`) | valid, invalid, inaccessible, corrupted ids | scan, check, unload | scanned by several threads, files replaced or locked for a moment | a replaced file is checked again, none is trusted or refused wrongly | modelled for one event |
| Board numbers (`data/board.py`) | none | `compute_round_board_numbers` | fixed numbers that clash, holes | no number twice in compact mode | modelled |
| Double elimination (`data/pairings/double_elimination.py`, `data/pairings/knockout_helpers/`) | none: the bracket is worked out from the boards | draw, result, designate, unpair | byes that collapse, results changed, the reset | out at the second loss, never stuck, boards and bracket agree | modelled (individual, one game) |
| Manual pairing (`data/pairings/manual_pairing.py`, `data/tournament.py`) | the round being edited, the pairings it had | start, validate, cancel | restoring over boards that changed | the pairings restored are those there were | no: see *Not modelled* |
| Other engines (`data/pairings/`) | resources, an external executable | Swiss (bbpPairings), round robin, Keizer, Molter, Scheveningen, single knock-out | long tables | every pair meets once | what a Swiss draw may produce is in `RoundBoards` |
| Teams (`data/teams/`) | matches, line-ups | pair, unpair, line up | envelopes around boards | boards and matches agree | no: see *Not modelled* |
| Migrations (`database/sqlite/event/migrations/`) | the version of the file | upgrade | a failure half way | a file is of one version | one step of `EventRestore` |
| Plugins (`plugins/`) | what was sent outside | upload, restore hooks | services that fail | nothing older overwrites newer | no: they talk to services the repository does not contain |
| Tie-breaks, norms, prizes, standings (`data/tie_breaks/`, `data/norms/`, `data/prize/`) | none | pure computations | arithmetic of regulations | agree with published tables | no: sequential, and the repository's tests hold the published cases |
| Import and export (`data/input_output/`) | none | TRF, CSV, Papi | formats | round trip | no: conversions |
| Web server (`web/`) | sessions, channels | routes, rendering | access rights | | no, but for the pairings tab: reading and rendering |
| Common, utilities, GUI (`common/`, `utils/`, `gui/`) | settings, lock of the instance | start-up, update, data directory | run once, by one process | | no |

`PROJECT.json` lists under "hazards" what is hard to test in this code, each
at its line, with the property that covers it or why none does yet.

## 2. The snapshot scheduler

`SnapshotScheduler.tla` models `data/snapshot_worker.py`.

**State.** `pending`, `queue`, `worker`, `stopping` and `status` are the fields
of `_State`; `timer` holds the `threading.Timer` objects alive (`armed`: started,
counting; `fired`: its thread waits for the lock; `handing`: it released the
lock and is about to put the event on the queue); `proc` says where each request
thread and each worker thread stands; `exit` where the `atexit` call stands.
`unsaved`, `holds` and `lost` are not the program's: they follow one change of
each event from its commit to the snapshot that holds it.

**Steps.** Whatever the code does under `_state.lock` is one action, what it does
between two such regions another.

| Actions | Code |
|---|---|
| `Commit`, `NotifyStart`, `NotifyChanged` | `EventDatabase.__exit__`, then `notify_changed`: the worker is started, then the timer replaced |
| `Fire`, `OnIdle`, `HandOver` | a timer's thread: it wakes, takes the lock, and puts the event on the queue after it let go of the lock |
| `Take`, `BeginCopy`, `WriteSucceeds`, `WriteFails`, `Retry` | `_work`, `_write` and its transient retries |
| `Mishap` | an exception that is no `SnapshotException`: the worker logs it and drops the item, a request fails of it |
| `Direct`, `BeginCopy`, `DirectSucceeds`, `DirectFails` | `snapshot_now`, called by restorations and before draws and corrections |
| `Remove`, `Forget`, `Create` | `EventDatabase.delete` and `rename`, `forget` |
| `Toggle` | the setting, and `forget_statuses` |
| `Boot`, `Stop` | `start`, `stop` in its three regions |
| `Tick` | time: what is left of every delay is counted down |

Time is relative (what is left of each delay), so that runs of any length have
finitely many states.

**Properties.**
`NoStrandedPending`: a pending change has a timer of its own event that has yet
to reach `_on_idle`.  `ChangeCovered`: a change that no snapshot holds is on its
way, or reported, or was dropped by a step known to drop it (`lost`).
`WorkersAccounted`: at most one worker more than the scheduler knows of for each
`None` still owed.  `ChangeIsSaved` and `PendingIsServed`: what must eventually
happen.  `ChangeNeverForsaken` leaves the `lost` clause out: it holds when
events only change by commits, and fails when requests copy events themselves.

What sets `lost`, and is therefore *not* promised: a commit while the backups are
off or the scheduler stops; `snapshot_now` that fails (it calls the pending
change off before it copies); the success of a copy begun before a failure was
recorded, which clears it; `forget`; `forget_statuses`; `stop`; an exception
nobody expects, of which the worker asks only to outlive it (`Mishap`).  The run and
the theorem of `ChangeNeverForsaken`, and the run of the liveness properties, are of
commits alone, without such an exception.

**Left out.** `force` (nothing calls it), `suppress_snapshots` (the commits of a
migration), a thread that the system refuses to start, the retention and the
sweep the worker also runs, the messages to the browsers.  An unreadable source
is a persistent failure; the copy that is put in place and the success that is
recorded are one step.  An exception of the sweep that a full disk starts is that of
the copy (`Mishap`).  `Stop` happens once, at the end of the program, and cancels the
timers in the region of the lock that comes before.

**Fairness** (`FairSpec`). Weak fairness of each thread: requests end, the worker
serves its queue, a timer whose delay is over fires and gets the lock, time
passes.  The threads are the operating system's and `_state.lock` is held for a
few statements, never during a copy.  Nothing is assumed of how often requests
arrive: a data entry that never pauses is one of the behaviours.

## 3. The boards of a round

`RoundBoards.tla` models what the requests of the pairings tab do to one round of
an individual Swiss in FIDE mode.

**State.** `db` is the event file: the `board` rows (by identifier: who sits
white, who black, the index of the table) and the `pairing` rows of the round (by
player: result, board).  `stage` says whether the round is the current one or has
a following one.  `req` is, for each request that may be served at once, what it
awaits with: its operation, its player or board, and its *view*, the event as it
loaded it.

**Operations** are functions from a view and the file to the files they may
leave: `DrawOutcomes`, `PairOutcomes`, `UnpairOutcomes`, `RowsOutcomes` (byes and
results), `PermuteOutcomes`.  They read the view, as the handler reads its
objects, and write the file, as SQLite would: an `UPDATE` of a row that is gone
does nothing, an `INSERT` of one that is there fails (`Writable`), deleting a
pairing deletes its board (a trigger) and deleting a board the pairings that
mention it (a foreign key), an identifier is never given twice (`AUTOINCREMENT`).

**Requests.** `Handle` is a handler: when its operation takes a snapshot first
(`Awaited`) it stops with its view, and `Resume` writes later, or `Broken` ends it
if the write is refused, or `Refused` if the engine finds no pairing; otherwise it
loads and writes in one step, nothing being awaited in between.  What is offered
depends on the stage (`Offered`, the permissions of the Swiss systems).

**What it promises.** `RoundSeating.tla` says it in terms of tables and of players
who are away: draw, wait, face, rise, leave, return.  `SeatingSpec` is that
specification under the mapping `tables <- {Seats(db.board[b]) : b \in
BoardsOf(db)}`, `away <- {p : result "bye"}`.

**Abstracted.** The engine may draw any boards its contract allows (every player
who needs a pairing, in pairs, one bye at most) or none; when a round is completed,
an empty file is no error (`NothingDrawn`).  All results of a game
are `"played"`, all byes a player asks for `"bye"`.

**Left out.** Team and Molter boards, knock-out winners, point adjustments, the
published round, unpairing several rounds at once, the
warnings shown before an action, the replacement of a player.  In FIDE mode
pairing and unpairing by hand opens a manual pairing, to be validated: here it is
validated as it stands, so that what comes next is allowed.  Of the stages, a round two or
more behind is not modelled: nothing of it may be changed in FIDE mode.

**The numbers of the boards.** `BoardNumbers.tla` is `compute_round_board_numbers`:
each board asks for a fixed number or none and has a place; `Numbers` gives the
number it is shown under.  The code walks the places with a counter that skips the
numbers taken; the model says which free number each gets (`NthFree`).
`RoundNumbers.tla` applies it to `RoundBoards`, as `Tournament._round_board_numbers`
does, for *every* choice of fixed tables, so that each round the requests reach is
numbered.  `NumbersDistinct` ("neither gaps nor duplicates") and `NumbersKept` ("the
other boards keep their numbers") are two sentences of the docstring.  The second is
true so long as the tables given because they were asked for are the same: taking
out a board that had the number it asked for frees that number, and the boards
after it may then take it.  A number is fixed when the board is paired, which is
why one assignment per identifier stands for all of them.  The branch that leaves
holes is written and not exercised.

## 4. Double elimination

`DoubleElimination.tla` models an individual double elimination with one game per
match.  Nothing of the bracket is stored in the code: `schedule` builds the graph of
its matches from the number of participants, and the engine resolves it against the
boards every time it is asked.

**State.** `field` and `reset` (the setting, frozen when the first round is drawn)
never change; `boards` is the boards of each round: who sits, the result, the
winner the arbiter designated and the place among the boards of the round, which
decides which board `find_knockout_board` falls back on.  `waiting` is the requests
that await their snapshot, each with the boards it has read.  `outdated` is not the
program's: a request has written from boards that were no longer those.

| Definitions | Code |
|---|---|
| `SeedOrder`, `Matches`, `AppRound`, `Sources`, `Schedule` | `bracket.py`, `double_elimination.schedule`: the matches, the round of each, where its two participants come from |
| `Resolve`, `Absent`, `Outcome`, `Resolved` | `_resolve_source`, `_source_absent`, `_match_winner`, `_match_loser`, `_match_empty`, `_match_lacks_loser`: recursive and memoised there, round after round here |
| `WinnerOfBoard`, `BoardWinner` | `find_knockout_board`, `_played_match_winner` |
| `ResetNeeded`, `Over`, `Played`, `Pairs`, `Gate`, `Placements` | `_reset_needed`, `tournament_is_over`, `_round_match_pairs`, `_double_elimination_gate`, `knockout_placement_values` |
| `AskDraw`, `AskUnpair` | the handlers of a draw and of an unpairing up to their `await` of a snapshot |
| `Draw`, `Unpair` | what they write after it, from the boards they had read: `Drawn` refuses a player already paired (the primary key of the pairings), `Unpaired` takes along whatever boards the players sit at by then |
| `Result`, `Designate` | the other handlers, which await nothing for a round no other was drawn from (`snapshot_before_breach`) |

`Result` is the whole of `add_result` and `delete_result`, with the designations it
forgets (`Forgotten`, a transaction of its own in the code).  `Designate` is offered
for a level game.  A round is read-only once the next is drawn (`Locked`).

**Overtaken requests.** Nothing reads the boards again after the `await` of a draw or
of an unpairing, so that a result corrected meanwhile, from a page that is up to date,
leaves a round the bracket does not ask for.  Three players, for instance: round 1 is
2-3, won by 3; the draw of round 2 is asked for, and the result corrected to 2 while it
awaits its snapshot; what is written is 1-3 and a bye for 2, which the results
of before asked for.  1 beats 3, who has then lost twice; the match 1-2 the bracket
now expects is read by the board that seats one of the two, and round 3 seats 3 once
more, against 2, who has lost nothing.  `SeatedOnce` holds whatever overtakes what, because the pairings of
a round have the player for key.  What the bracket promises is said until a request has
written from boards that had changed (`~outdated`): without that proviso TLC violates
`OutAfterTwoLosses`, `BoardsMatchBracket`, `NeverStuck`, `FinishedSettled` and
`PlacedAreOut` within seconds (not `NoQuickRematch`, in the fields of the run).  The
provisos do not hide the requests that wait: results are entered, corrected and
designated, and other requests asked for and answered, while they do.  The repository
has no sentence that says such a draw is refused, so that this is a hazard and not
a finding.

**Properties.** The bracket is a graph of sources and the players count their
losses; most properties relate the two.  `SeatedOnce`: no two boards of a round seat
the same player, even when two draws of different brackets, or a draw and an unpairing,
overtake each other.  `OutAfterTwoLosses`: who is seated has lost
once at most, counted on the boards without the bracket.  `BoardsMatchBracket`: what
the results of today make of the bracket is what was drawn, whatever was corrected
since.  `NeverStuck`: when every board has a winner the next round can be drawn or
the tournament is finished, whatever byes the field makes.  `FinishedSettled`: with
the reset, finished means that all but one have lost twice, unless the last game is
level.  `PlacedAreOut`,
`PlacementsStand`: the standings of a round hold those who were out by then, at the
round of their second loss, whatever is played later.  `NoQuickRematch`: what the
reversed order of the dropouts is for; it is claimed of the first major round only,
since in a bracket of sixteen the reversals of two major rounds cancel.
`DesignatedAnew`: a designation does not come back with a level result.

**Left out.** Teams, two-game matches, groups, colours, players added or deleted
once the bracket is drawn, and the advancement tie-breaks that are computed: a
level game is decided by the arbiter.  Of two boards at one
place, left by draws that overtook each other, the one found first is a `CHOOSE`.  The lock of a round is in the templates
(`tab.html`, `pairing_row.html`) and not in the handlers: a result sent from a page
out of date still changes a round the next was drawn from, and
`find_knockout_board` then falls back on a board that seats one of the two players.
What the bracket should hold in that case is written nowhere; pages are taken as up
to date when they are sent, and the hazard is listed without a property.

## 5. Restoring an event

`SnapshotRetention.tla` and `EventRestore.tla` model one event whose file is put
back to a snapshot while everything else goes on.

**State.** `file` is the event database: the set of changes committed to it and its
schema (`current`; `old`, which a check upgrades; `broken`, which no upgrade makes
valid; `damaged`, not a database any more).  `writer` is the transactions: one open
when the file is replaced by a rename keeps the file that was (`stale`).  `known` is
`_valid_event_ids` and `_invalid_uniq_ids` for that event, `scan` a scan that has
checked the file and not yet recorded what it found (under `_ids_lock`); `mistaken`,
which is not the program's, that it is among the invalid ones by a fault of the moment.  `snaps`
are the snapshots on the disk, `doomed` those listed for removal and not yet
removed, `run` where `restore_in_place` stands.  `excused` is not the program's.

| Actions | Code |
|---|---|
| `Begin`, `Save`, `Replace`, `UnloadReplaced`, `Check`, `Finish` | `restore_in_place`, in the order of its statements |
| `PutBack`, `UnloadUndone` | its undoing, when the check of the file put in place fails |
| `Open`, `Commit`, `Abort` | `EventDatabase.__enter__` and `__exit__` |
| `ScanBegin`, `ScanEnd`, `Demote`, `Unload` | `EventLoader`: the scan; a valid event that cannot be read any more, or is missing for a moment; `unload_event` |
| `Clean` | `_clean_not_existing_event_database_files`, when the file is missing at a scan |
| `Checked` | `check_event_database`, with the upgrade and the snapshot taken before it |
| `Take`, `List`, `Unlink` | `write_snapshot`, `snapshots_to_prune` on a list, `_prune` one file at a time: a list may be out of date, and the worker's and the start-up sweep's may both be under way |
| `Damage` | the disk, or another program (external) |

Time is counted in snapshots: the name of a file carries the microsecond, and no two
are of one time.  The age limit is in days, so that nothing taken since the program
started is too old: `Aged` is a time before `Began`.

**Properties.** `CommittedKept`: a change whose transaction reported success is in
the file or in a snapshot of a state that was replaced or upgraded (tier 0), which
the retention never counts.  `ReplacedKept`: the snapshot a restoration may have to
put back is on the disk for as long as it may need it, although the retention works
from lists of before it was taken.  `AllOrNothing`: a restoration ends with the
snapshot, upgraded, or with no less than there was.  `LoaderAgrees`: but between a
replacement and the scan that follows it, the loader does not trust a file it has
not checked, nor refuse one that is right, but for the exception named below.  `KeptEnough`: what the retention removes
leaves a newer one, and as many of its tier as the settings keep.

**What the comments say and the code does not.** Two statements could not be given
a run of their own and are written into the model instead:

1. *A late commit.* `_restoring_event` ("the writes of the other threads are refused
   instead") and `EventDatabase.__enter__` ask as a transaction *opens*.  One opened
   just before the restoration commits into the file on its way out, after it was
   copied, or into the file that was replaced, and is lost without a word.
   `CommittedKept` excuses exactly those (`excused` in `Commit`).
2. *A fault of the moment.* "Inaccessible and corrupted ids are deliberately excluded
   so they are retried: a locked file may become readable again once the lock is
   released" (`data/loader.py`, lines 101-103).  But a migration that meets such a lock,
   or is refused because another thread restores, ends in the plain exception of a
   migration that is wrong ("Migration failed"), and a file that is missing for a
   moment in one that is as plain: the event is put in the one set of invalid ids,
   which are not checked again until the event is unloaded or its file is missing
   at a scan.  That is the outcome `mishap`, and `LoaderAgrees` names it
   (`mistaken`): every *other* invalid event is one that could not be loaded.  A
   restoration that succeeds may leave such an event behind, when its first check
   meets the lock and its second does not.

Besides: an automatic snapshot that arrives may push out the oldest milestone,
since the most recent snapshot is not counted and the milestone that was is
counted from then on; and a snapshot chosen may be removed before it is put in
place, which refuses the restoration and leaves the file as it was.

**Left out.** `restore_as_copy`, the plugins' data carried over (whose failure
changes nothing), the message to the browsers, a second restoration of the same
event (refused), the journal a crash may leave beside the file (`Damage` stands for
what it does), the limit on the total size of the snapshots (which may remove those
of tier 0), the archived directories, leftovers and orphans.

## 6. What the runs check

| Run | Instance | Shows |
|---|---|---|
| `SnapshotSchedulerRequests` | 1 event, 2 clients, 1 worker, 2 timers, every delay 1, 2 attempts, queue of 1; commits, direct copies, deletions, mishaps | `TypeOK`, `NoStrandedPending`, `ChangeCovered` |
| `SnapshotSchedulerStop` | 1 event, 1 client, 2 workers, 1 timer, queue of 2; commits, the switch, stop, mishaps | `ChangeCovered`, `WorkersAccounted` |
| `SnapshotSchedulerLive` | 1 event, 1 client, cap of 2 and floor of 2; commits; `FairSpec` | `ChangeNeverForsaken`, `ChangeIsSaved`, `PendingIsServed` |
| `SnapshotSchedulerForsaken` | as Requests, commits and direct copies | **violated**: `ChangeNeverForsaken` |
| `SnapshotSchedulerForgotten` | commits, deletions | **violated**: `ForgottenStaysQuiet` |
| `RoundBoardsSerial` | 6 players, 4 identifiers, 1 request, every operation | `TypeOK`, `SeatHasRow`, `DistinctTables`, `ByeIsAlone`, `SeatingSpec`, `NumbersDistinct`, `NumbersKept` |
| `RoundBoardsConcurrent` | 2 players, 2 identifiers, 2 requests that await, pages out of date | `BoardsKeepPlayers`, `RowSeated` |
| `RoundBoardsSelfPairing` | 2 players, pages out of date | **violated**: `NobodyFacesThemself` |
| `RoundBoardsSecondDraw` | 2 players, 2 requests that draw | **violated**: `DrawAnsweredPlainly` |
| `DoubleElimination` | fields of 3 to 7, with and without the reset, level games in that of 4, requests that overtake one another in those of 3 and 5 | `TypeOK`, `SeatedOnce`, `OutAfterTwoLosses`, `BoardsMatchBracket`, `NeverStuck`, `FinishedSettled`, `NoQuickRematch`, `PlacedAreOut`, `PlacementsStand`, `DesignatedAnew` |
| `DoubleEliminationOfTwo` | a field of 2, with the reset | **violated**: `FinishedSettled` |
| `EventRestore` | 2 transactions, a stock of 2 snapshots (one to upgrade, one broken), 2 more at most, one of each tier kept | `TypeOK`, `CommittedKept`, `ReplacedKept`, `LoaderAgrees`, `AllOrNothing`, `KeptEnough` |

**Bounds, and why they are enough.** Scheduler: nothing in the code relates two
events but the queue, so one event with a queue that may hold it twice shows what
a second would; two clients are enough for one to overtake the other; two timers
for one that fires late while another is armed (a third only repeats it; where the
scheduler stops, one is enough); two
attempts for a retry that is counted; a cap above the idle delay, in the run of
the liveness properties, for a change that is put off more than once before it is
cut short.  Boards: six players give three games, or games with a hole between
them and a bye after, the smallest round where a table is freed below others and
the bye moves; four identifiers are one more than boards at once, and an
identifier nothing mentions may serve again in the model, which `FreshIds` says no
view can tell.  Two players and two requests are enough for one request to
destroy and make again what the other saw.  The queue is bounded by a guard
(`QueueBound`), the timers and the workers by their sets.
Double elimination: the bracket of eight slots, that of the fields of 5, 6 and 7, is
the first whose losers' bracket has a minor round after a major one, and 3, 5, 6 and
7 make every kind of bye (an absent seed, a match nobody loses, one nobody plays);
every result of every game is explored, and corrected, in each.  In the field of 3, the
smallest, two requests may wait at once while any result is entered, and one that has
become out of date still writes; in that of 5 one waits; in the others a request is
served before the next is answered (`Overlapping`).  After a request out of date has
written they are served one by one: what is checked then, `SeatedOnce` and the action
properties, is proved of any overlap.  Larger brackets
are what the theorems of section 7 are for.  Restoration: two transactions are enough for one
to straddle the restoration and another to open after it; two more snapshots
(up to `MaxSnaps`) for the state replaced and one that arrives beside it; the settings keep
one of each tier so that each snapshot can push another out.

Players, identifiers, requests, workers, timers and transactions are interchangeable, and the
runs use that (`Symmetry`), but for `SnapshotSchedulerLive`, whose properties are
liveness; `SeatingSpec` and `DrawAnsweredPlainly` are safety, for which it is
sound.  The choice `AnyOf` makes among identifiers nothing mentions is one of
those permutations.

**Deadlock** is checked in every run.

**What fails.** Five statements of the repository do not hold of the code; each is
a run and a finding:

1. *Forsaken.* `snapshot_now` cancels the pending change (line 244) and then copies.
   After one momentary failure (a locked file) no timer is armed again: the change is
   saved only if another one follows.  The caller is told (the exception goes on, line
   249) and `snapshot_before` writes a warning to the log (274), but the draw goes on
   and `_report` stays silent below `TRANSIENT_RETRIES` failures.
2. *Forgotten.* An event deleted or renamed while its name is in the queue or in
   the worker's hands gets a failure recorded after `forget`.
3. *Self-pairing.* Pairing the player who waits, again, from a page that was not
   refreshed, seats them in front of themself: `pair` refuses players who have an
   opponent, and one who waits has none.
4. *Second draw.* The round is looked at before the snapshot is awaited, not
   after; a draw submitted twice fails in the database when the first still
   awaits.  Nothing is written, but it is not the plain answer of the comment.
5. *A field of two.* `_reset_needed` asks whether the winner of the grand final is
   the winner of the match its second seat comes from.  With two participants that
   match is the only one of the winners' bracket and the seat its *loser's*: a
   champion who wins both games is asked for a reset, and one who loses the second,
   one loss each, is not given one and the tournament is over.

Besides, for requests that overtake one another `SeatHasRow` does not hold, and
is not claimed: a bye written out of date may take from a player the mention of
the board they have been given meanwhile.

## 7. What is proved

| Theorem | Module | For every |
|---|---|---|
| `TypeCorrect`: `Spec => []TypeOK` | `SnapshotScheduler_proofs` | event, client, worker, timer set, delay, bound |
| `NothingStranded`: `Spec => []NoStrandedPending` | `SnapshotScheduler_proofs` | the same |
| `NothingForgotten`: `Spec => []ChangeCovered` | `SnapshotCover_proofs` | the same |
| `CommitsNeverForsaken`: commits only, `Spec => []ChangeNeverForsaken` | `SnapshotCover_proofs` | the same |
| `BoardsTypeCorrect`: `Spec => []TypeOK` | `RoundBoards_proofs` | finite set of players, identifiers, requests |
| `PairingsSeated`: `Spec => []RowSeated` | `RoundBoards_proofs` | the same |
| `PlayersKept`: `Spec => []BoardsKeepPlayers` | `RoundBoards_proofs` | the same |
| `SeatsHaveRows`: serial, `Spec => []SeatHasRow` | `RoundSerial_proofs` | the same |
| `TablesDistinct`: serial, `Spec => []DistinctTables` | `RoundSerial_proofs` | the same |
| `ByesAreAlone`: serial, `Spec => []ByeIsAlone` | `RoundSerial_proofs` | the same |
| `SeatingImplemented`: serial, `Spec => SeatingSpec` | `RoundSerial_proofs` | the same |
| `SeatedSeemly`: serial, `Spec => []Seating!Seemly` | `RoundSerial_proofs` | the same |
| `WorkersAnswered`: `Spec => []WorkersAccounted` | `SnapshotScheduler_proofs` | as the scheduler's others |
| `NumbersApart`, `NumbersFirst`, `NumberDependsOn`: of `compute_round_board_numbers` | `RoundSerial_proofs` | finite round, fixed numbers |
| `NumbersAlwaysDistinct`: serial, `Spec => []NumbersDistinct` | `RoundSerial_proofs` | as the boards' others |
| `NumbersAlwaysKept`: serial, `Spec => NumbersKept` | `RoundSerial_proofs` | the same |
| `BracketTypes`: `Spec => []TypeOK` | `DoubleElimination_proofs` | set of fields |
| `SeatedOnceAtMost`: `Spec => []SeatedOnce` | `DoubleElimination_proofs` | set of fields, requests, overlaps |
| `BoardsAlwaysMatch`: `Spec => []BoardsMatchBracket` | `DoubleElimination_proofs` | the same |
| `LosersAreOut`: `Spec => []OutAfterTwoLosses` | `DoubleElimination_proofs` | the same, 2 not among them |
| `NeverHangs`: `Spec => []NeverStuck` | `DoubleElimination_proofs` | set of fields |
| `LockedRoundsSettled`: `Spec => []LockedSettled` | `DoubleElimination_proofs` | the same |
| `PlacedLostTwice`: `Spec => []PlacedAreOut` | `DoubleElimination_proofs` | the same, 2 not among them |
| `SettledWhenFinished`: `Spec => []FinishedSettled` | `DoubleElimination_proofs` | the same, 2 not among them |
| `NeverRematchedAtOnce`: `Spec => []NoQuickRematch` | `DoubleElimination_proofs` | set of fields |
| `PlacementsAlwaysStand`: `Spec => PlacementsStand` | `DoubleElimination_proofs` | the same |
| `DesignationsAnew`: `Spec => DesignatedAnew` | `DoubleElimination_proofs` | the same |
| `TypeCorrect`: `Spec => []TypeOK` | `EventRestore_proofs` | set of transactions, finite stock, settings, times |
| `NoCommitLost`: `Spec => []CommittedKept` | `EventRestore_proofs` | the same |
| `WayBackKept`: `Spec => []ReplacedKept` | `EventRestore_proofs` | the same |
| `LoaderFollows`: `Spec => []LoaderAgrees` | `EventRestore_proofs` | the same |
| `RestoresAllOrNothing`: `Spec => AllOrNothing` | `EventRestore_proofs` | the same |
| `MostRecentKept`: what is removed leaves a newer one | `EventRestore_proofs` | the same |
| `EnoughKept`: `Spec => KeptEnough` | `EventRestore_proofs` | the same |

**Assumptions.** Only those of the constants, named in the modules
(`ConstantsAssumption`, `NoneAssumption`, `KeepAssumption`, `StockAssumption`), which
TLC evaluates in every run; *serial* theorems assume `~Concurrent` and `FreshPages`,
as `RoundBoardsSerial` does, and *commits only* that `Ops \subseteq {"commit"}`, as
`SnapshotSchedulerLive` does: neither direct copies nor exceptions nobody expects.  The
bracket's properties carry their proviso (`~outdated`) in their definitions; the theorems
but `BracketTypes`, `SeatedOnceAtMost`, `PlacementsAlwaysStand` and `DesignationsAnew`
therefore promise nothing once a request has written from boards that had changed.

**Arguments.** *Scheduler.* Two timers never serve one event unless one of them is
done with it: the invariant ties each live timer to the pending change that owns
it, and says of a timer that fired late that its change is pending under another
one or gone.  `NothingForgotten` follows the change through the hands it is in:
every step either keeps it covered, saves it, reports it, or sets `lost`.
With commits alone `lost` is never set against a change that is not saved
(`CommitsInv`): there is one worker; the failures of its attempts are all counted,
so the last one is reported; and a change its copy does not hold came after the
copy began, and is covered by something that goes on covering it until the copy
ends.

*Boards.* `RowSeated` is not inductive: a request that resumes writes what it saw
long ago.  `Inv` therefore also says of every *view* that it is sound and that it
agrees with the file (`ViewsAgree`): a board it saw is gone, or seats whom it saw
and at most the opponent of one who waited.  Each operator a transaction is made
of leads from a sound file to one that is `Good` for it: sound, and keeping the
players of every board that is not new.  The boards a view mentions are never
new, because identifiers are not given twice: that is where `AUTOINCREMENT` is
needed, and the mutant `FreeIds` shows what happens without.  `PairingsSeated`
then rests on two facts of the schema, the trigger and the foreign key, and one of
the code, that a board never changes its players but for an empty seat.

*Boards, one request at a time.* What a request loads is then the database itself,
because each board is mentioned by the pairings of those it seats (`NeatLoaded`).
`Neat` says that, that one player at most waits, and that no two boards share a
table.  A table is free for whoever is to wait (`TableAvailable`): two players sit
at each of the other boards, so the boards are fewer than the tables.  Each
operation leads from a neat database to a neat one and is read off as a step of
`RoundSeating`: a draw as its `Draw`, a pairing by hand as a `Wait` or a `Face`, an
unpairing as a `Rise`, a bye as a `Leave` or a `Return`; results and colours change
no table.  `SeatedSeemly` says of the boards of the code what `RoundSeating` calls
`Seemly`: nobody away is seated, nobody at two tables, one waits at most.

*Workers.* `WorkersAccounted` counts, so the invariant adds that finitely many
threads are alive and the proof follows the count: a start adds a thread and the
worker it is; `stop` trades the worker for a `None` to come, then for one in the
queue; a thread that takes a `None` ends.  `NonesTail` and `NonesAppend` say what the
queue's two operations do to the number of `None`s it holds.

*Restoration.* `IInv` says where each change may be.  `Times`: what is old enough to
be removed for its age holds none of the changes, and no snapshot of a replaced
state (tier 0) is listed for removal but for its age.  `RunOK`: the state a
restoration saved is on the disk, of tier 0 and newer than the start, so the retention
cannot take it; and once the file is swapped no transaction is open.  `Held`: once the
file was copied it can be done without, every change in it is in a snapshot that is
kept.  `Contents` says what the file holds at each step of a restoration, which is
what `AllOrNothing` needs at its end; `LoaderInv`, that what the loader has recorded,
or is about to, is true of the file except between a replacement and the scan that
follows.  `MostRecentKept` rests on an invariant of its own, `LastStays`: the most
recent snapshot is never among those listed, for the list was made of snapshots that
each had a newer one, and time only grows.  `EnoughKept` rests on another, `CountStays`:
what is listed for another reason than its age is not of tier 0 and has on the disk,
listed or not, as many newer snapshots of its tier as the settings keep.  A removal takes
one of these from an older snapshot only if the one removed had as many after it itself,
and the older one has those too: the count never falls below.

*Designations.* `DesignatedAnew` needs that a board with a designated winner is level
(`PickedLevel`): a correction that makes another game level then finds none.

*The numbers.* The n-th free number is the least one with n free numbers up to it; it
exists because infinitely many are free, and two boards that differ in rank differ in
their n, so that `Numbers` is injective on the boards without a fixed number and
disjoint from the fixed ones it honours (`NumbersApart`).  When no place is missing
the free numbers of a round are those the fixed ones leave, hence `1..n`
(`NumbersFirst`).  What a board is given depends on the tables given for having been
asked for and on its own place (`NumberDependsOn`), not on the boards that came or
left.  `NumbersAlwaysDistinct` and `NumbersAlwaysKept` apply that to the rounds a neat
database has.

*The bracket.* Nothing of it is stored, so the proof is about what `Resolved` makes of
the boards.  Its seeds: `SeedOrder` gives each seed of the bracket one slot
(`SeedOrderApart`).  Its graph: the sources of a match are seeds or matches of earlier
rounds (`SourcesEarlier`).  Its resolution: the outcomes, worked out round after
round, are a solution of the equations of the matches (`Worked`, `ResolvedFixpoint`),
and two solutions for boards that agree up to a round agree up to it too
(`OutcomesStand`): the outcomes of a round depend on the boards of that round and of
those before it.  That is also the whole of `PlacementsAlwaysStand`.

Requests that await keep the boards they have read for any length of time, so the
invariant has two layers.  `SeatedInv`, the types and at most one board for each
player of a round, is inductive by itself, whatever is written from whatever was read:
that is `SeatedOnceAtMost`.  The other is `outdated \/ BracketInv`: as long as
what a request writes comes from the boards that are (`~outdated'`), a draw or an
unpairing changes them as one that had awaited nothing.

`BracketInv`: the rounds are drawn in order without a gap, no two boards
of a round seat the same players, and the boards of each round are those the
outcomes ask for (`Asked`).  Every handler changes one round, the last one drawn or
the next (`StepChanges`); those before it keep their outcomes, and the round itself
keeps the pairs it was drawn for, since its participants come from before
(`PairsStand`, `ChangeKeepsInv`).  Without the lock of a round (`Locked`) this is
where the proof fails, as the mutant `LockedNever` does.

*Two losses.* The way of a player is followed round after round, on any solution.
Whoever plays in a round of the winners' bracket sits at one match of it and won a
match of each round before (`WinnersOnce`): they have lost nothing (`NoLossBefore`), and
are dropped once (`DroppedOnce`).  Whoever plays in a round of the losers' bracket sits
at one match of it, was dropped before, and lost no match of this bracket
(`LosersOnce`); a player comes there by one way only, as the one who wins there was
dropped earlier than those who are dropped next (`NotDroppedAgain`).  The champions are
then two players, one with no loss and one with a loss of the winners' bracket
(`Finalists`), and the reset is played when the first has lost the grand final.  So
two losses before one match are the same match (`LossesApart`).  A loss counted on the
boards is one of the bracket (`LostMatch`), because nobody ever comes from where
nobody will (`AbsentAreNobody`): an absence never turns a game that was played into a
walkover.  With a field of two the loser of the only match of the winners' bracket
comes to the grand final at once, the fields of this theorem are the others; that
field is the finding above.

*Never stuck.* A field is more than half of its bracket, so that every first match
has a player and one of them has two (`FirstRoundSeeds`); hence somebody comes from
every match of the winners' bracket, from every later one of the losers' bracket and
to both seats of the final (`WinnersCome`, `LosersCome`, `FinalistsCome`), so that
every round has a match somebody comes to (`SomebodyPlays`).  A match of two of a round that is drawn
has its board (`BoardOfMatch`): when all boards are won, every match up to that round
is settled (`WonBoardsSettle`), the gate of the next round is open, and what comes to
it is known (`SettledFull`).  The grand final alone may finish the tournament before
the last round (`BeforeReset`).

*The gate.* `NeverStuck` speaks of the boards of today; that the rounds before the last
one drawn are settled at every moment is an invariant of its own (`GateInv`), inductive
with `BracketInv`: a round had no board before its draw, which passed the gate
(`DrawnThroughGate`, `GateSettles`), and whatever changes the last round leaves the
outcomes of those before it as they were (`SettledStands`, `ChangeKeepsGate`).

*The end.* With those rounds settled, a player can be followed forward: the one who
plays in a round of the winners' bracket goes on there or is dropped (`WinnersGoOn`,
`LosersDrop`), the one who plays in the losers' bracket goes on or loses there
(`LosersGoOn`).  So everybody ends as a champion or with a loss in the losers' bracket
(`EveryoneEnds`), and that loss is the second one (`DroppedFirst`).  The losses at the
boards and the matches lost are as many (`LossesCount`): besides `LostMatch`, a match that has
a loser had two players and therefore its board (`LostBoard`), and no two matches one
player loses are of the same round.  A second loss is either one in the losers' bracket
or that of the last game (`SecondPutsOut`), which are the two ways `Placements` puts
somebody out (`PlacedBy`): that is `PlacedLostTwice`.  For `SettledWhenFinished`: a
tournament that is finished either has its last round level, or a last game that has a
loser (`FinalWon`, `ResetPlayed`).  That loser had lost before (`OutLostBefore`,
`ChampionsLost`), all but the two champions are out, and one player is left
(`OneIsLeft`): when the champion of the losers' bracket wins the grand final, the last
game is the reset, and the tournament is not finished without it.

*No rematch.* A dropout of the second winners' round comes to the slot opposite to
its own half, where nobody of their first match is: both ways back to the first round
lead to different matches, in a bracket of three levels or more.

*Induction.* No installed prover can instantiate an operator, so induction over a
number is stated of a *set* of numbers (`InductionUpTo`, `InductionOver`), from the
naturals being well founded; `Recursion` gives the recursive functions (`Pow2`,
`SeedOrder`) and the resolution of the rounds their equations the same way.

**Only model-checked.** The liveness properties: fairness, and what an action may do
next, are out of the prover's reach.  Every invariant and every action property of the
passing runs is stated by a theorem above.
The theorems about the boards and their numbers are of requests one at a time where
the table says *serial*.

## 8. Not modelled

- *Manual pairing* (`data/pairings/manual_pairing.py`): validation asks an engine the
  repository does not contain whether the round is one it could have drawn.
- *Teams*: their boards are those of `RoundBoards` with an envelope around each match;
  six players and their boards already take the whole of a run.
- *The other engines*: an external executable, or published tables the repository's
  tests compare with their source.
- *Migrations*: conversions of a schema, each one transaction or a few; as a step that
  ends or fails they are in `EventRestore`.
- *Plugins, import and export, tie-breaks, norms, prizes, user interfaces, utilities*:
  services outside the repository, conversions, computations and presentation, with
  no interleaving of their own.

Three hazards of the modelled parts have no property, because nothing says what should
happen: the success of a copy begun before a failure was recorded, which clears it
(see *lost* in section 2); a bye written out of date over a pairing made meanwhile
(`SeatHasRow` in section 6); and a result sent from a page out of date once the next
round of a bracket is drawn (section 4).  Three others are covered but for an exception
their property names: a transaction that straddles a restoration, and an event put
among the invalid ones by a fault of the moment (section 5); and a draw or an
unpairing of a bracket that is overtaken while it awaits its snapshot (section 4).
