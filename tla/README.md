# Verification of pare-hardware-mcp

TLA+ models of the worker that holds a hardware bench's UART console: what its
threads do to one serial port, one capture, one slot and one relay, checked with
TLC on small instances and, for the safety properties that matter most, proved
with TLAPS for all of them. Paths below are those of the repository; line
numbers of every modelled definition are in `PROJECT.json` under `map`.

## The system

| component | state | operations | modelled in |
|---|---|---|---|
| capture ring buffer (`ringbuffer.py`, `_LockedCaptureBuffer`) | physical ring, `head` | `append`, `read(cursor, limit)` | `CaptureBuffer`, against `CaptureLog` |
| console session (`session.py`, `ConsoleSession`) | fd and its rate, `_write_lock`, `_closing`, `_stop`, `_closed`, `_scan_pause`, `_scan_parked`, `_alive` and the death reason, `baud`, the gap ledger | the reader thread, `write`, `scan_baud`, `scan_baud_cycling`, `_shutdown`, the drain thread | `ConsoleSession`, against `SessionLease` |
| session manager (`session.py`, `SessionManager`) | `_current`, `_lock`, `last_close_warning` | `open`, `close`, `get`, `status` | `SessionManager` |
| relay (`relay.py`, power tools of `tools.py`) | none of its own: the channel, the relay's tty | `set_power`, `power_cycle`, `status` | `Relay` |
| console tools (`tools.py`) | the locals of each call between two awaits | `console_open`, `_read`, `_capture`, `_status`, `_close` | `ConsoleTools` |
| baud detection (`tools.py`, the sweeps of `session.py`) | candidates, samples, refusals, the time spent | `console_detect_baud`, `console_detect_baud_cycling` | `BaudScan` |
| baud scoring (`baud.py`) | none | scoring, ranking, what rates and budgets are accepted | `BaudScore` |
| devices, config, contract, server, deployment | none | input parsing, tables, installation | not modelled; `resolve_device` appears as success or refusal of an open |

**How they interact.** Every tool call runs on a thread (`asyncio.to_thread`), so
any two of them overlap. They reach the session through the manager's slot, and
then share the session's fd with the reader thread. `_write_lock` orders writes,
scans and the release of the port; a scan takes the reader off the port with a
two-flag handshake (`_scan_pause`, `_scan_parked`) instead of a lock. `close`
frees the slot under the manager's lock and shuts the session down outside it,
so a new `open` runs beside a shutdown; what a shutdown cannot finish in time it
leaves to a drain thread. A cycling scan calls the relay, which is another tty
with no lock at all. The adapter may leave the bus at any moment, and udev
removes its by-id link some time later.

**What is hard.** Stale handshake flags between two scans; a close during a
scan; a drain timeout beside the write it waits for; short counts from a
cancelled write; a chip that refuses a rate, first or later, on the way out or
back; an exception in any phase of a scan; failure versus close as the cause of
a failed read; wrap-around arithmetic; one note for many closes; replies of
concurrent relay commands in one input queue; handlers that look at the session in
two steps while the reader, a scan and a close go on; a verdict drawn from a scan that
was refused, cut or overtaken at any candidate of any sweep. `PROJECT.json` lists these under
`hazards`, each at its line and with the properties that cover it.

## The modules

- `CaptureLog`: an unbounded log and a client that reads it through a window.
  `CaptureBuffer`: the ring, with `_write_at`, `_read_at`, the tail of an oversized
  chunk and the window arithmetic of `read`. `log` is a history variable. The lock of
  `_LockedCaptureBuffer` makes `append` and `read` one action each.
- `ConsoleSession`: the session. `reader`, `closer` and `drainer` are the program
  counters of the three threads, `pc[c]` that of each call; `scan` holds the locals of
  the scan that owns `_write_lock`. A byte is known by the rate it was framed at
  (`rxq`, `chunk`), which is what tells evidence, capture and leftovers apart.
  `scan_baud` and `scan_baud_cycling` share their actions, as their code is the same
  up to the loop; a cycling scan makes one pass and goes through the relay.
  `samples`, `rejected`, `applied`, `final` and `winner` are the variables of those names.
  Every `finally` clause is a sequence of places (`restore`, `settle`,
  `resume`, `finish`, `release`) which every way out of a scan goes through.
  A write is the loop of pyserial it runs in: the kernel takes some of the payload
  (`taken`), which is counted (`count`) only once there is room for more, so that a
  cancel, which is looked at first, leaves the last chunk out of the count.
- `SessionLease`: what a manager may rely on of a session: it is ended once, released
  once and only by a close, and over only if released or warned about.
- `SessionManager`: `open` from slot check to publication, `close` with its shutdown
  outside the lock, and the exclusive lock of each tty (`flock`). A session's own life
  is its lease only, which is what `ConsoleSession` is shown to implement.
- `Relay`: one AT command is open-and-discard, write, read; commands and replies are
  two queues between the calls and the relay (`todo`, `rx`).
- `ConsoleTools`: the handlers as several steps each over one session: the byte read and
  the gap lookup of `console_read`, the check and the read of `console_capture`, the head
  and the gap count of `describe`, the publication and the cursor of `console_open`. The
  capture is what `CaptureLog` promises (a byte is its offset, `Capacity` of them are
  retained), a suspension is the hole in time that `ConsoleSession` leaves, and `holes`
  is the history of where they really are. `follower` is a client that reads on from
  `next_cursor`; `call` is the one other call under way.
- `BaudScore`: the pure functions of `baud.py`. A sample is the seven counts its score is
  made of; a ratio is a fraction, compared by cross-multiplication, where the code has
  floats; a dict is a function with the order of its keys.
- `BaudScan`: one detection from the request to the reply: `sanitize_rates` and the budget
  checks, the sweeps or the cycling pass candidate by candidate with the time they take,
  `pick_winner`, the restore, and the verdict and the wiring hint of the handler. The
  locks, the reader and the port of the same scan are `ConsoleSession`'s.
- `CaptureBufferProofs`, `ConsoleSessionProofs`, `ConsoleScanProofs` (what a scan leaves on
  record and on the line; it uses the former's invariants), `SessionManagerProofs`,
  `RelayProofs`, `ConsoleToolsProofs`, `BaudScoreProofs`, `BaudScanProofs`: theorems and
  proofs, each about the module of that name.
- `MC*`: small values for TLC; each `.cfg` says which calls run.

Definitions named `... Mutant of X` in their comment are plausible mistakes in `X`;
they are used nowhere, and replacing `X` by them breaks the property `PROJECT.json` names.

### Environment and abstractions

- The by-id link disappears only after the unplug. An adapter that was unplugged does
  not come back to the same fd.
- An assignment of a rate succeeds or raises. A refused one may leave the UART at a rate
  nobody asked for (`Odd`): pyserial sets the termios struct before the custom rate.
  `Refusable` are the candidates a chip may refuse, at any visit. `Fickle` are rates
  it may refuse when it has left them; it is empty except in `MCFickleChip`.
- The assignment of a rate and `tcflush` may raise `termios.error`, which no `except`
  clause of a scan names: `RateFails` therefore has an outcome that leaves the session alive.
- `taken` is what the kernel's tty queue has taken of a write. Nobody flushes it, so
  nothing here says what is on the wire: under `rtscts` a short command may be answered as
  sent while the target asserts no CTS.
- In `ConsoleSession` timed waits may expire whenever what they wait for has not happened.
  Durations, dwell lengths and the budget are left out; the first sweep visits every
  candidate, later visits are at most `MaxRevisits`. `decide` may name any sampled rate,
  none, or raise, `early_exit` ends a sweep at any point where the loop tests it, and the
  contents of samples are left out. `BaudScan` has these and leaves out the threads.
- In `BaudScan` the clock counts from the park of the reader. A visit takes its window and
  at most `Overshoot` more (the read that is under way when the deadline passes returns
  within `READ_TIMEOUT`), a cycling visit its clamped off time and at most `Trips` before
  it; computing takes no time. Every visit may hear every kind of noise in `Chunks`.
  The session may still die between the restore and the reply: the lock is free and the
  reader at work before the result, with its death reason, is put together.
- `BaudScan` starts from any positive rate (`Original`): `console_open` does not hold it
  against the ceiling of the candidates, so it may lie above.
- List comprehensions and the loops of `pick_winner` are recursive functions over the
  positions of a list (`KeepOnly`, `Best`), which the provers can reason about;
  `SelectSeq` and the folds are out of their reach.
- A candidate list that is left out by the caller (`DEFAULT_RATES`) is one of the lists;
  `NoRate` in a list stands for an entry that is not an integer.
- In `ConsoleTools` the session opens and closes once, a reader that dies just
  appends nothing more, and the calls beside the follower are made one at a time. None of
  them writes what another reads, so more of them at once would meet the same states.
- The relay answers within its read timeout or not at all. A cycle may be interrupted in its
  off time, which its `finally` is also there for. Two concurrent readers of
  its tty may take each other's replies or tear one.

## The runs

| run | instance | what it shows | size |
|---|---|---|---|
| `console_tools` | capacity 2, 4 bytes, 2 scans, cursors -1, 0, 2, 5, limits none, -1, 1, 5 | suspensions are told, captures are whole, an open that a close overtakes is told as what it was | 1.3 M, 25 s |
| `baud_scan` | 9 requests over 6 rates, 4 kinds of noise, budget of 5 dwells, cycling with clamped and negative times | the verdict has its evidence, the sweeps keep their time | 840 k, 22 s |
| `capture_buffer` | capacity 3, 7 bytes, chunks of 1, 2, 4 and 5 bytes, cursors -1..4 | the ring implements the log | 39 k states, 7 s |
| `session_sends` | 3 writes of 2 bytes, close, drain thread, unplug | fd never closed under a write, replies true of the kernel's queue and of the session, at most one late write, the lease | 2.1 M, 85 s |
| `session_scans` | a passive and a cycling scan, a refusable candidate with one revisit, close, unplug | sole reader, framing, rate and winner as reported, gaps, causes of death | 2.4 M, 75 s |
| `session_live` | one passive scan, close, unplug, fairness | closes complete, capture resumes, unplugs are noticed, scans are answered | 105 k, 60 s |
| `session_manager` | 2 opens, 2 closes, 2 adapters, other processes, fairness | slot, port locks, notes, no open waits for a shutdown | 22 k, 7 s |
| `relay` | 2 power cycles, 1 query, fairness | nothing but a lost command strands a target; a lone call tells the truth | 227 k, 86 s |
| `fickle_chip` | one scan, `Fickle = {ra}` | **violates** `BaudIsLive` | |
| `manager_note` | 3 opens, 2 closes, 2 adapters | **violates** `OpenFailureExplained` | |
| `relay_status` | a set and a query | **violates** `StatusIsTrue` | |
| `relay_strands` | one cycle | **violates** `CycleLeavesPower` | |

**Why the bounds are enough.** The ring holds three bytes and sees seven: it wraps
twice and takes chunks below, above and beyond its capacity. Three writers are the
least with one in the port, one queued past it and one to be refused. A payload of two
bytes is the least whose count can be none, short and full, and below what was
taken; where nothing is sent it is one. Two scans are the
least that reuse the park flags; one of each kind covers both loops, and a refusable
candidate with a revisit is sampled and then refused. The target speaks once
(`MaxHead = 1`): the reader's chunk and the driver's queue then hold bytes of at most the
rates in question, and every later byte would meet the same places. Of `console_tools`
two scans are the least that put a suspension on each side of a read, and four bytes in
a capture of two evict what a client or a captured window still wants, also by a chunk
larger than the capture. In `baud_scan` the budget of 20 holds five dwells of 4: two
candidates get three sweeps, three get two, six are refused; the noise is silence,
console text, garbage, and text that outscores the console's but is torn by unprintable
bytes, so that a clear sample need not be the best one. Every verdict of the handler,
with and without its hint, is reached. The theorems hold without any of these bounds.

**Symmetry** is used over writers in `session_sends` and over all names in
`manager_note`, neither of which checks liveness under fairness.

**Fairness.** `ConsoleSession`: each thread runs (the interpreter schedules them all),
every dwell comes to its deadline, and udev handles the removal. A write in the port
returns, because pyserial's `write_timeout` is set. Weak fairness is enough
everywhere except for the lock: nobody is promised `_write_lock`, so
`CallsAreAnswered` speaks of calls that have it, and `session_live` has one scan to
compete with and no sends: that a close or a scan gets the lock past queued writers is not
shown there (what is shown, by `OneLateWrite`, is that a close finds at most one writer
that may still start). Nobody has to call `close`.
`SessionManager`: only opens are scheduled, so `OpensAreAnswered` holds with a
shutdown that never ends; `PortsAreFreed` states its own assumption on shutdowns.
`Relay`: a command reaches the relay or is lost, and threads run. That a send returns is
slightly more than the code guarantees: `_at` flushes with `tcdrain`, which has no timeout
(`relay.py:161`), so `CallsComeBack` holds of a relay whose tty drains.

**Where a property stops.** `GapCoversSuspension` exempts the offset of a gap once the
capture is discarded, and then holds its state only. `EndIsExplained` says nothing of a
failure during a close. `SendRepliesAreTrue` bounds an aborted send from below only, as
its message does.

## The findings

1. `fickle_chip`: the restore of a scan gives up after two refused rates and sets
   `self.baud` to the last rate a candidate was accepted at; the docstring promises a
   known rate unless the device is gone.
2. `manager_note`: `last_close_warning` is one note for all sessions, written outside the
   lock; an open beside two closes is told about the wrong session or nothing.
3. `relay_status`: with two relay commands at once, `power_status` may read the other's `OK`
   and report a power state the target was never in.
4. `relay_strands`: the restore of `power_cycle` is one attempt; "power is ALWAYS
   restored" fails with it.

Remarks that no run is about:

- `_shutdown` returns its warning "so the caller can surface it", and `console_close`
  does not; only a later failed `open` shows it.
- `stop` wakes a parked reader during a scan, which is sound only because the
  reader then ends without another read: `SolePortReader` covers it.
- `early_exit` is "whether the scan stopped on a clear winner" (`tools.py:488-489`), but the
  sweep stops on any clear sample while `pick_winner` judges only the best one: a scan
  may stop early and answer `no_clear_winner`, with a note that no rate looked like a
  console. `baud_scan` reaches it. The same note is given when a clear winner was
  refused at the restore.
- `all_candidate_rates_rejected` says "before any sample could be taken"; a rate that was
  sampled in one sweep and refused in the next gets there too.
- `reset_input_buffer` may raise `termios.error`. The scan restores the port on the way
  out, but no `except` of the detect handlers names it (the verdict `escaped`
  of `BaudScan`).
- `check_budget` compares the sampling budget with the deadline; the wait for the write lock
  (6 s) and for the reader to park (1 s) come on top of it. The cycling budget "never
  under-counts" only if `CYCLE_MARGIN_S` (0.5 s) covers the relay's round trips, each of
  which may take its read timeout of 2 s: the second half of `ScanEndsInTime` says so.
- A close during the last candidate's dwell is not reported as an aborted scan, and a dwell
  it cut short counts as listened to.
- `console_read` reads `alive` after the bytes, so `alive: false` with nothing remaining may
  come before the last bytes were read. A captured artifact says nothing of the gaps
  inside it, as its contract entry admits.

## The proofs

Every invariant and every action property of the passing runs, and both refinements, are
theorems. They hold for any sets of calls, rates, adapters, requests and times
that satisfy the named `ASSUME`s of the modules, without the bounds of the runs. One
hypothesis goes beyond them and is written in the theorems that have it: `Fickle = {}`.

**The capture.** `CaptureBufferProofs`. `BufferInv` is `TypeOK` with `RingHoldsTail`:
neither is inductive alone, because a read returns bytes only as far as the slots it copies
are those of the log. Two lemmas carry it: a slot `i` places on is reached with
at most one wrap (`SlotAhead`), and two offsets less than a turn apart have different slots.
From it: `TypeCorrect`, `TailRetained`, and `ReadsAreTheLog` (`RefinesLog`), the refinement of
`CaptureLog`: an append maps to an append, a read, wrapped or cut by the limit, to the
log's read, a refused cursor to a refusal.

**The session.** `ConsoleSessionProofs`. `Base` is `TypeOK` with two facts about
`_write_lock`: a call is at a place under the lock exactly when it holds it
(`LockHeld`), and the scan locals belong to the holder (`ScanFits`). `TypeOK` alone
is not inductive: that `gaps[scan.gap]` exists and that a restored rate is a rate both
come from `ScanFits`. On `Base` rest:

- `TypeCorrect`.
- `PortHeldOpen` (`PortOpenWhileUsed`): adds that the port is open until the closer or the
  drain thread has had the lock, and that a call at the port was admitted
  before; a call admitted later is refused, because `_closing` is set before the lock
  is asked for.
- `ReaderExcluded` (`SolePortReader`): adds that the pause flag is up while a scan
  holds its places and that a set `_scan_parked` means a reader inside the park, which
  cannot leave it while the pause is up except to end. This is the argument that a
  stale flag of an earlier scan is harmless.
- `DeathExplained`, `DeathKept`: a dead session has its cause, and only a close ends one
  without.
- `LateWriteBounded`: of all writers only the one that was admitted when
  `_closing` was set can still start, and it holds the lock.
- `SendTruthful` (`SendRepliesAreTrue`): adds how a write stands with the kernel's queue at
  each of its places (`Stands`: all is counted at the next write, no more than was taken while
  it waits for room), and that a cancel comes only from a close (`SendInv`). Only the call itself
  answers a sender (`OwnAnswer`), `closing` stays set, and a dead session stays dead with
  its reason (`DeathStep`), so an answer stays true after it was given.
- `CloseTruthful`, `SessionIsLease`: the refinement of `SessionLease`; each step of a
  session is one of the lease's or a stutter, with `_release_port` its only release.

**The scan.** `ConsoleScanProofs` adds three invariants, each about the line or the record
between the places of the scan that holds the lock:

- `LedgerInv`: an open suspension is the one of the scan at a place from its record to
  its end, the pause is up only for a scan, and the offset on record is still the head,
  because the reader is parked (`ReaderExcluded`). From it `GapCovers` and `SuspensionEnds`.
- `EvidenceInv`: from an accepted assignment to the end of its window the port is at
  the candidate, and after the flush so is every byte in the queue. From it
  `EvidenceFramed`. Without the flush it is false, since the bytes of the previous rate would
  be scored for this one.
- `BaudInv`: with no scan at work the port is at `self.baud` and so are the queue and the
  reader's chunk; `RestoredRate` says of each place of the restore what the port was left at.
  From it `BaudKept`, `WinnerKeptLive` and `CaptureFramed`, under `Fickle = {}`. The
  hypothesis is used at one step, `RestoreSettles`: the restore tries the winner and then
  the rate the scan found the port at. A winner may be refused there, like any candidate in
  `Refusable`; the other rate, at which the chip has run, only if it is `Fickle`. After
  two refusals the restore settles on the rate a candidate was last accepted at without
  assigning it, while the refusals may have left the UART anywhere. `fickle_chip` shows
  that `BaudIsLive` is then false.

**The manager.** `SessionManagerProofs`. One invariant with five parts (types, the
manager's lock, port ownership, session lives, closes) is inductive; the central part
says of every held tty who owns it. From it: `ManagerTypes`, `SlotSound`, `NothingStranded`,
`ClosedOnce`. `LoneCloseExplained` adds `NoteInv`: while only one session was ever
closed, the note names it as long as its close or its drain thread is under
way. It needs that a close that ends clean leaves no drain thread (`CloseInv`).

**The relay.** `RelayProofs`. `RelayTypes`; then two invariants about the line.

- `StrandInv` for `OnlyRelayStrands`: as long as no command of a cycle was lost and nobody
  asked for off, if the commands on the wire end without power and a cycle has sent its
  restoring command already, another cycle is still before its own. The last command that
  takes power (`HeadsOff`) is thus always followed by one that gives it.
- `LoneInv` for `LoneAnswersAreTrue`: a call that has the relay to itself finds on its line
  its own command, and then the reply to that, whatever the tty held before the discard.

**The tools.** `ConsoleToolsProofs`. The invariant adds to the types four things. The
ledger: a hole below the head has its entry, at its own offset; this is because `head`
stands still from the park to the record, and a record made after the capture is gone (at
offset 0) is of a hole at the last head, which nobody can read past (`LedgerInv`). The slot:
a session in it has its capture, and a status keeps it there (`SlotInv`). The follower: what
it read lies below the head, so a hole that appears later is not inside it
(`FollowerInv`). And a call knows no head above the head (`CallInv`), which is why the second
read of `console_capture` cannot raise the `CursorError` its handler does not name
(part of `CaptureIsWhole`). An open in progress has been through the slot, so a capture that it
does not find was discarded by a close that freed the slot first: that gives `OpensTold`.
From the invariant: `ToolTypes`, `SuspensionsReported`, `CapturesWhole`, `OpensTold`.

**Scores and rankings.** `BaudScoreProofs` is about the operators, for lists and samples of
any length. The loops are recursive functions over `0 .. n`; induction over `n` is
done on a set instead of a predicate (`SetInduction`: a set with 0 that is closed under
successor holds every natural number, from the pigeonhole principle), which also gives that
the functions exist (`LoopExists`). `sort_key` is a strict weak order over
fractions (`RankOrder`), although two ratios are compared by products. The theorems:

- `SanitizedRates`: `sanitize_rates` returns the usable rates and no other, each once, in
  the order they first occur in.
- `RankingIsStableSort`: `rank_candidates` is a permutation, best first, equals in the order
  they were sampled in.
- `WinnerHeadsRanking`: `pick_winner` folds over the samples that were heard, with its
  thresholds applied at the end, `rank_candidates` sorts all of them, silent ones too. They
  agree: the winner is the head of the ranking if that is clear, and there is none
  otherwise. The point of the proof is that a clear sample outranks every silent one.

**Detection.** `BaudScanProofs`. `BaseInv` has the types and the lists: no rate is listed
twice, what is pending are candidates, `order` lists the samples, a rate is sampled or
refused and not both, and a refused one does not come again. `ScanTypes` needs all of
it. `ScanInv` adds, for `VerdictEarned`: the first sweep works through its list in order, and
after a whole sweep there is an answer about every candidate (`SweepInv`); a sample was heard
for a dwell unless its visit was cut (`HeardInv`); what the restore left live decides the
winner (`DecisionInv`). The handler only compares two numbers to tell an aborted scan; that
these count distinct candidates is `Counting`, and that a candidate is every usable rate of
the request is `SanitizedRates`. `TimeInv`, for `ScanInTime`: the first pass takes one
`Turn` per candidate, a later one starts no visit once the budget is spent, and a turn of a
cycling pass is at most what its arithmetic allows for if `Margin` covers the rest.

**Only model-checked:** the liveness properties (`CloseCompletes`, `CaptureResumes`,
`UnplugIsNoticed`, `CallsAreAnswered`, `OpensAreAnswered`, `PortsAreFreed`, `CallsComeBack`):
fairness and `ENABLED` are out of the prover's reach. The four properties of the runs
that expect a violation are false.

## The plan

Done: all the modules above and every safety property as a theorem. What is left:

1. More of what the operators promise: the scores lie between 0 and 1, and a
   sample is clear only with line ends and spaces; `check_budget` against the time of the
   first sweep.
2. How far the three theorems under `Fickle = {}` can be carried without it: the rate is
   wrong only after a restore in which the original rate and the fallback were both refused.
3. The hazards without a proof: which of the liveness arguments have a safety core (a
   measure that falls with each step) that can be proved.

## Not modelled

Pure input and output without state of its own: by-id name parsing, configuration from
the environment, the tool contract and the server that registers it, the listing of devices
and `bench_status`, which only report, the deployment scripts and the service unit.
`console_send` decodes its payload and is then `ConsoleSession`'s write. Floating point:
`BaudScore` compares exact fractions, so rounding at a threshold is not seen. What bytes a
target sends and how a wrong rate distorts them is an input. The artifact store is external:
`console_capture` writes through it, and it answers or names what it could not do. DTR,
RTS and flow control are set once before `open` and never change.
