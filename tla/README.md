# holon-lab-trading: TLA+ models, checks and proofs

The repository is a trading laboratory written in *wat* (a Lisp that compiles to Rust):
candles are streamed from a parquet file, an indicator bank turns each into an enriched
record, a phase labeler and a paper simulator turn those into hypothetical trades, and a
treasury program decides which broker has earned real capital. The live code is
`src/wat/**/*.wat` with the two Rust files `src/src/main.rs` and `src/src/shims.rs`.
The wat runtime (channels, `select`, handle pools, the LRU and hologram caches,
the evaluator, the telemetry and console services) lives in another repository and is modelled
only through its use, and marked external.

`src/archived/` holds earlier implementations. One of them is more than history:
`archived/pre-wat-native/`, the multi-threaded Rust program `wat-vm`, is what the wat code is
being translated from. `docs/rewrite-backlog.md:5` calls it the "source of truth for the rewrite"
and line 14 "the authoritative reference", and the proof of program 001 was made with the
"archived Rust as the spec" (`docs/proofs/2026/04/001-the-machine-runs/PROOF.md:134`). It is also
where most of the repository's concurrency is. This development models it as the *reference
machine*, in the modules whose names begin with `Vm`. The other directories of `archived/` are
older still, no document treats them as a reference, and nothing here models them. They hold
most of the repository's Rust lines, which is why only a small part of those is covered.

## 1. The system

| part | source | state | operations |
|---|---|---|---|
| treasury bank | `treasury/types.wat`, `treasury/treasury.wat` | papers, reals, proposer records, balances, two id counters | issue-paper, issue-real, resolve-grace, check-deadlines |
| treasury service | `services/treasury.wat` | driver loop with three parallel vectors (receivers, slots, broker numbers) over one Treasury value; N+1 bounded(1) queues, N response queues | Tick, SubmitPaper, SubmitReal, SubmitExit, BatchGetPaperStates, disconnect, peer death, shutdown |
| phase labeler | `encoding/phase-state.wat`, `types/pivot.wat` | tracker and extreme, label and direction, running statistics, history of phase records | step, close-phase, begin-phase, trim-front |
| paper simulator | `sim/paper.wat`, `sim/types.wat` | optional open paper with its trail, last generation seen, outcomes, aggregate, window of candles | tick (open, hold, Grace, Violence), run |
| candle stream | `src/shims.rs`, `io/CandleStream.wat` | batch, position in it, remaining budget, row count | open, open_bounded, next, len |
| window primitives | `encoding/indicator-bank/primitives.wat`, `encoding/atr.wat`, `encoding/atr-window.wat` | ring buffer, running sums, Wilder and exponential averages | push, get, update |
| indicator bank | `encoding/indicator-bank/*.wat` | one record of sub-states per indicator | tick |
| reference machine: stdlib | `archived/pre-wat-native/src/programs/stdlib/*.rs`, `services/*.rs` | the database, cache and console threads, a bounded(1) queue per client and direction; an LRU map; a transaction; counters behind a rate gate | batch_send, batch_get, batch_set, out and err, drop, the drivers' passes |
| reference machine: encoding | `.../encoding/encode.rs` | an L1 map per thread over the cache program | encode |
| reference machine: pipeline | `.../bin/wat-vm.rs`, `programs/app/*_program.rs`, `services/topic.rs`, `services/mailbox.rs` | main, N market observers with a topic each, M regime observers, N*M brokers, a mailbox, a treasury | feed, tick, fan out, take, send, ask, answer, join, panic |
| reference machine: bank and brokers | `.../domain/treasury.rs`, `programs/app/treasury_program.rs`, `broker_program.rs` | papers, records, the last tick; a broker's receipts | submit, exit, batch states, tick, learn |
| encoding cache | `sim/encoding-cache.wat` | LRU map from forms to vectors, hits, misses | encode |
| thought cache | `cache/*.wat` | two LRU stores, coordinate to next form and to terminal | lookup, record-coordinate, resolve, reporter |
| programs | `main.wat`, `programs/*.wat`, `telemetry/Sqlite.wat`, `src/main.rs` | console and sqlite driver threads, their handle pools | spawn, walk, log, drop, join |
| labels and thinkers | `sim/labels.wat`, `sim/v1.wat` | none | similarity of vectors |
| scalar encoders, vocabulary | `encoding/*.wat`, `vocab/**` | a running scale | encode a candle as an AST |

**How they interact.** In the simulator, one call chain: the stream's candle goes to the bank,
the bank steps the phase labeler, the simulator's tick reads the bank's candle and the labeler's
*generation* counter, infers a trigger from a generation that moved, and resolves the open paper.
Only the labeler keeps history, and the simulator sees it one candle at a time. In the treasury
program, threads: the main loop and each broker own one sender; the driver `select`s over all
receivers, calls one bank helper per event and answers on the response queue at the same vector
position. Nothing in a message names its sender. The program bodies spawn a console and a sqlite
driver the same way and join both at the end.

In the reference machine everything is a thread. Main sends each candle to every market observer
and then a tick to the treasury. An observer's chain goes through its topic to every regime
observer, which takes one chain per market observer in turn and sends each on to that pair's
broker; a broker calls the treasury through a mailbox, which main's ticks share. All of them
encode through one cache thread and report to one database thread; the cache reports to the
database too, from a closure called inside its loop. Shutdown is a cascade: main drops its candle
senders and joins the layers from the top, then the drivers.

**What is hard.** (a) Identity by position in three vectors that shrink together, with
disconnects in any order. (b) `select` is not arrival order: a tick races the exit it would
make void. (c) A reply that panics the driver before the new value is returned. (d) Bounded
queues in both directions between driver and brokers, and a shutdown that relies on every sender
having been dropped. (e) Incremental counters (track records, aggregates, running statistics,
rolling sums) that are trusted and never recomputed. (f) A step whose four labels are updated in
two places, and a consumer that sees only a counter. (g) Off-by-one: deadlines, history age,
ring indices, batch boundaries, budgets. (h) In the reference machine, a candle and its tick that
take different ways through bounded queues, so that the treasury judges a broker by a clock of
its own; rounds that must stay about one candle when a thread upstream dies; an acknowledgement
that must mean "committed" and not "received"; a driver that is itself another driver's client,
which fixes the order in which they may be joined. `PROJECT.json` lists each at its line under `hazards`.

## 2. Modules

Composition: `TreasuryService` EXTENDS `Treasury`, and `Treasury` instantiates `TrustLedger`
under a refinement mapping; `Pulse` EXTENDS `CandleStream`; `PaperSim`, `PhaseWindows` and
`IndicatorBank` EXTEND `PhaseState`; `IndicatorBank` also EXTENDS `Indicators`, which EXTENDS
`WindowPrimitives`. `ThoughtCache` stands alone. `VmStdlib` composes `VmDatabase`, `VmCache`,
`VmConsole` and `VmEncode`, of which the cache and the encoder share `VmLru`; `VmBooks` EXTENDS `VmTreasury`;
`VmPipeline` is the same machine one level up, with the work of each thread left out. A definition named like a step with a suffix
(`IssueRealTakesCap`, `PruneLastSlot`, `SmaUpdateFirst`...) and commented *Variant* is a wrong
version of it: `PROJECT.json` pairs each property with a variant that breaks it.

| module | code | state and actions |
|---|---|---|
| `TrustLedger` | the promise of `treasury/types.wat`, `treasury/treasury.wat` | abstract: the life of each paper (open until a deadline, survived, expired), grants, funds; Submit, Survive, Tick, Fund. No counters, no prices, no records. |
| `Treasury` | `treasury/treasury.wat` | the Treasury record's maps, balances and two id counters; `IssuePaper`, `IssueReal` (or `DenyReal`), `ResolveGrace` (or `DenyExit`), `CheckDeadlines`. Money is integer, a rate is in basis points. |
| `TreasuryService` | `services/treasury.wat` | the queues and reply queues, the three parallel vectors, the driver's loop, main and every broker. `Serve(c)` is one iteration: `Handle` (one handler to its reply), `PanicOnReply`, `Prune`, `PeerDied`; `BrokerSend` and `BrokerRecv` are the two halves of a client helper; `BrokerDrop`, `BrokerDies`, `DropTicks`, `Join` end things. |
| `PhaseState` | `encoding/phase-state.wat` | the fields of the record; `Seed`, `Extend`, `Boundary` are the branches of `step`, with `Track` common to the last two. |
| `PhaseWindows` | the same | `PhaseState` beside the closes it was fed and the records it ever closed, to say what the incremental state should be. |
| `PaperSim` | `sim/paper.wat` | window, open paper with trail, outcomes, aggregate, last generation; `Tick` steps the labeler and then takes one of `StayOut`, `OpenNewPaper`, `ResolveViolence`, `ResolveGrace`, `ContinueHolding`. The thinker and predictor are any sequence of raw actions. |
| `CandleStream` | `src/shims.rs` | reader position, batch, budget, rows handed out; `NextBuffered`, `NextRefilled` (over empty batches), `NextNone`, `NextOverBudget`, `NextPanics`. A file is the sequence of its batch ends. |
| `Pulse` | `programs/pulse.wat`, `telemetry/Sqlite.wat`, `main.wat` | main's program counter through its nested scopes, two driver threads with their queues, the acknowledgement, the `.out` file and the database. |
| `WindowPrimitives`, `Indicators` | `indicator-bank/*.wat`, `atr.wat`, `atr-window.wat` | operators: each indicator's fresh state, its update and what it reads. |
| `IndicatorBank` | `indicator-bank/bank.wat` | the bank as one record; `Tick` advances all of it, makes the reading and steps the labeler with twice the ATR. |
| `ThoughtCache` | `cache/L1.wat`, `cache/walker.wat` | both stores, the coordinate reached, the answer; `Ask`, the outcomes of `lookup`, and the outcomes of a walk's visitor. Which forms are coincident is a parameter of the run, so a hit may be a near one. |
| `VmDatabase` | `programs/stdlib/database.rs` | per client, what it sent, what came back and what is in the table, as numbers; `DbSend`, `DbReturn`, `DbDrop` for the handle; `DbPass` (drain and commit), `DbAcknowledge`, `DbPanic`, `DbExit` for the driver. |
| `VmLru`, `VmCache` | `programs/stdlib/cache.rs` | the map in order of use; `CacheAsk`, `CacheReturn`, `CacheDrop`; `CachePassShut`, `CachePassEmit` (sets before gets, then the rate gate), `CacheLast`, `CacheExit`. |
| `VmConsole` | `programs/stdlib/console.rs`, `services/mailbox.rs` | producers' queues, the fan-in thread with the line it holds, what was printed; `Say`, `ConsoleFanIn`, `PrintLine`. |
| `VmEncode` | `encoding/encode.rs` | recursive functions over numbered nodes, children first: the walk for L1 misses, what L2's answer does to L1, the local composition with what it computed. |
| `VmStdlib` | those together, `bin/wat-vm.rs` (joins) | entities that take inputs, encode, install, flush and print; the cache thread and its emit closure; main's joins. |
| `VmPipeline` | `bin/wat-vm.rs`, `programs/app/*_program.rs`, `services/*.rs` | every queue of the topology as a cell with a candle's number, every thread's control state; one action per blocking operation, and `*Dies` for a panic at work. |
| `VmTreasury` | `domain/treasury.rs` | papers, records, clock, volatility; `IssuePaper`, `ResolveGrace`, `HandleTick` with `CheckDeadlines`. |
| `VmBooks` | `treasury_program.rs`, `broker_program.rs` | main's candles and ticks, the mail, the treasury's handlers, and each broker from its candle through submit, exits and the batch of states to what it learns. |

`MC*` modules give the constants their values. `*_proofs` hold the theorems.

**Abstractions.** A price is an integer number of ticks. A quotient is rounded down, as are the
averages; sums are exact. In the bank, a typical price is kept times three, a midpoint times
two, and ratios are percentages or thousandths, so exactness claims are made for sums, ranges
and counts, not for the last digit of an `f64`. Bank capital is whole dollars. A candle is its
number wherever its contents do not matter (`Pulse`, the simulator's window). Telemetry rows of
the treasury service, and volume averages of a phase, have no effect on a branch and are left
out. The variables that exist for properties only are commented *history*.

**External.** Channels are bounded queues; `select` returns any ready receiver and not the one
that became ready first; a receiver whose senders are gone is ready with `None`; a dead peer may
or may not be reported (`PeerDeathVisible`); a thread that ends drops what it owns; `join` waits.
The caches drop any entry when full. The console and sqlite drivers work in queue order until
their last sender is dropped. Each of these is what the code in `src/` relies on, and nothing
more is assumed.

## 3. Runs

`tlc -config <cfg> <module>`, all under three minutes. The "violation" run shows where the code
departs from what its own comments and documents say.

| run | instance | what it shows |
|---|---|---|
| `treasury` (`MCTreasury`) | 2 interchangeable brokers, one funded asset and one the ledger lacks, prices 100 and 110, candles 0 and 1, term 1, gate at 2, 3 papers, 2 reals | the counters stay true to the papers (`CountersMatchPapers`) and capital adds up (`CapitalConserved`); a resolved position never changes (`ResolvedIsFinal`); the bank implements `TrustLedger` (`TrustKept`) |
| `treasury_service` (`MCTreasuryService.cfg`) | 2 brokers, ticks 0–2, term 2, gate at 1, 2 papers, 1 real, nobody dies | positions in the three vectors (`RoutingAligned`), true replies (`ReplyIsTrue`), nothing thrown away at exit (`NothingLostAtExit`), the driver implements `Treasury` (`TreasuryServed`) |
| `treasury_faults` (`...Faults.cfg`) | broker 1 may die anywhere, select may report it, under fairness | receipts match positions (`ReceiptsMatchPositions`), helpers return (`HelpersReturn`) |
| `phases` (`MCPhaseWindows`) | prices 1–4, smoothing 0 or 2 chosen at every candle, 7 candles, history of 2 | four labels that tell one story (`LabelsAgree`), a turn that closes its phase (`TurnClosesPhase`), and statistics, extreme, records and trimming against the closes themselves (`HistoryTrue`) |
| `paper_sim` (`MCPaperSim.cfg`) | prices 10–12, smoothing 1, 7 candles, deadline 3, floor 10%, fee 35 bps, window 3 | papers end by the rules of `paper.wat` only (`ResolvedRightly`), a trail is the turns of its paper's life (`TrailFollowsPhases`), the aggregate is the fold of the outcomes (`AggregateIsFold`) |
| `pulse` | every file of up to 3 batches of 0–3 rows, any batch unreadable; budgets −1 to 4 and none | order and completeness of rows (`RowsInOrder`), "Stopped" only after both rows are stored (`RunRecorded`), the program ends (`PulseEnds`) |
| `thought_cache` | every program of 3 forms with every coincidence in which a step leads away, stores of 1 and 3 | answers are the form's own (`AnswersTrue`), no form is walked twice while it is kept (`WalkedOnce`), resolve returns (`ResolveReturns`) |
| `thought_cache_near` | every coincidence, stores of 1, no failing step | **violation** of `ResolveReturns` |
| `indicator_bank` (`MCIndicatorBank.cfg`) | six candle shapes (rise, fall, flat, wide, gap), 6 candles, periods 2–5 | rolling sums against their windows (`RollingSumsTrue`), ranges of what is read (`ReadOutsInRange`), a smoothing that never hides a swing from the labeler (`NoSwingMissed`) |
| `vm_stdlib` (`MCVmStdlib`) | 2 entities with 2 and 1 inputs over 2 thoughts that share a part, a database that may fail, one emission each, both cache tiers with room for all | committed before confirmed (`ConfirmedIsCommitted`), what was put is found (`AnswersShared`), `encode` returns the thought's own vector (`EncodesTrue`), no counter (`TelemetryWhole`) or line (`ConsoleFaithful`) lost at shutdown, main ends (`MainEnds`) |
| `vm_pipeline` (`MCVmPipeline`) | 2 market observers, 1 regime observer, 2 brokers, 3 candles, mailbox of 1, one call per candle; any one thread panics at its first candle | rounds about one candle (`RoundsAligned`), no candle lost where a living way leads (`NoneLost`), the treasury's clock close to the brokers' (`ClocksClose`), the machine ends (`MachineEnds`) |
| `vm_books` (`MCVmBooks`) | 2 interchangeable brokers, up to 3 candles, each cheap and volatile or dear and calm, fees of 10 % on 100, a treasury that may die | records tell the papers (`BooksTrue`), no paper outlives its deadline (`DeadlinesKept`), each outcome learned once (`OutcomesLearned`), nobody leaves untaught (`TaughtByFailure`), a Grace is earned (`GraceIsEarned`) |

**Why these bounds are enough.** In `treasury`, fees are 35 bps each way on 100, so a price of
110 makes an exit valid and 100 does not; three papers let one broker reach the gate while the
other has one, and expiry, survival and refusal meet; a real takes 50 of 80 dollars, so a second
takes the 30 that remain and a third finds nothing. In the service, two brokers and the main loop
are enough for every relative order of disconnects, and for a vector position to shift; the
queues' own bound of 1 is the code's. Two candles let an exit race the tick that voids it.
In `phases` seven candles hold a rise, a turn, a fall and a second turn, with a history full and
trimmed; a smoothing of 2 has a half of 1, so that Transition lies strictly between extreme and
turn. In `paper_sim` a deadline of 3 within 7 candles lets a second paper open after the first
ends either way. In `pulse` three batches have a first, a middle and a last, each possibly empty
or unreadable, and budgets below, at and above what they hold. In `thought_cache` three forms
make a chain with a middle; a store of one evicts all the time and one of three never. In
`indicator_bank` each window fills and rolls twice, each smoother leaves its warm-up, and the
shapes include a gap over the previous range, the one case in which a candle's own range is not
its true range.

In `vm_stdlib` thought 3 holds thought 2 twice and two entities want both, so a part is found in
neither tier, in one, or computed by two threads at once; neither tier evicts, because eviction
makes `AnswersShared` false by design and costs `encode` nothing but work. `MaxEmits` and
`MaxDbEmits` bound how often each rate gate is let open, `SayEvery` of 2 lets the first entity
print and the second not. In `vm_pipeline` two observers meet at one regime observer, so a round
has two slots that can come apart, and a death at the first candle leaves later ones to be fed to
whoever is left (`PanicBy`, `MaxDeaths`). Three candles fill the cells on the longest way; the
treasury lags by two there, which is the bound `ClocksClose` states, while its lead of seven needs
more candles than a run affords and rests on the proof. A fan-out to two regime observers is not
in the run either and is covered by the proofs. In `vm_books` a cheap candle followed by a dear
one pays off, the other way round it does not, and with a base of one candle the two volatilities
give deadlines of zero, one and several candles; three candles let a paper be issued, expire or be
left, and be learned of.

`CHECK_DEADLOCK FALSE` stands only where a run of the system really ends: the stream is over,
the program has returned, or the bound on candles is reached.

## 4. Fairness

Safety is checked without fairness. The liveness properties assume:
- *treasury service*: weak fairness of `Serve(c)` for every channel (the driver is a loop, and
  `select` does not leave a ready receiver out for ever), of `Exit`, of main's `Join`, and of a
  broker's blocked `recv`. Brokers and main may stop asking at any time, and die if `MayDie`.
- *pulse*: weak fairness of each of the three threads: each runs to its end or blocks.
- *reference machine*: weak fairness of every thread's own steps, and none of a panic. In
  `VmStdlib` the entities and the cache thread compute much in a step, and weak fairness of them
  is written out over their guards (`EntityCan`, `CacheCan`). The rate gates need not open, and
  the code's polling loops make no progress a step here would have to stand for.
- *thought cache*: weak fairness of the thinker's own steps, `Lookup` or a walk: it is one
  thread inside one call. It need not ask again.

## 5. Findings

One disagreement is shown by a run and listed in `PROJECT.json` with its quotes:
`cache/L1.wat:130`: a form coincident with its own next form sends `lookup` round for ever once
the latter's terminal is gone (`thought_cache_near`).

Seen while modelling, each following from one place in the code, with no run of its own:
- `services/treasury.wat:215` passes the literal 0 as entry candle, so every paper is due at
  candle 288 and not a term after its entry.
- `sim/paper.wat:4-5` says the simulator drives "the four-gate Grace/Violence lifecycle from
  Proposal 055". That proposal's `RESOLUTION.md:47` puts the triggers at "valleys for longs, peaks
  for shorts"; lines 118-134 take a Peak to be against an Up paper and a Valley against a Down
  one. Gate 2 there asks what the market predicts (`:50`), here only the label that has
  just fired. "Gate 4 can override gate 2" (`:54-55`): here all four are required
  (`evaluate-grace-eligible?`, 271-293), so the predictor can veto an exit, which is the proposal's
  own example (`PROPOSAL.md:600-603`), and never force one. Gate 3 asks for a profit after fees
  there, for `min-residue` beyond them here. The model and `ResolvedRightly` follow the code and
  not the proposal. (What a resolved trail is labelled, `:61-65`, agrees.)
- `sim/paper.wat:205` adds a profit at the deadline to `total-loss`; the comment on line 204
  calls it a loss.
- `indicator-bank/bank.wat:140`: a window of 12 never holds the 13 closes that a 12-candle rate
  of change needs (`rate.wat:13`, `:32`).
- `services/treasury.wat:172`: handle-tick computes the verdicts of expiry and drops them;
  `treasury/types.wat:152-153` says brokers receive them.
- `treasury/treasury.wat:255`: issue-real leaves a record's `real-*` counters at 0.
- `services/treasury.wat:281`: select is not arrival order, though experiment 008's
  `EXPERIMENT.md:81` says it "serializes Tick events with broker requests in arrival order": a
  tick may void an exit that was sent before it. The model lets it, and no property forbids it: `ResolvedIsFinal` and
  `ReplyIsTrue` say that the paper stays expired and its owner is not told otherwise.
- `encoding/phase-state.wat:343`: a phase ends whenever the label differs, which is any swing,
  not only a turn as the header (14-15) may be read. The model follows the code.
- `sim/paper.wat:411` and `:545`: a trail's first entry is the first trigger and not the entry
  surface; a trigger's decision always reads NotEvaluated.
- `encoding/atr-window.wat`'s header says the smoothing is twice the *median* of the ATR; the
  bank passes twice the *current* one. The model follows the bank.
- `compute-choppiness` sums 14 ATR values over the range of a 12-candle window.
- RSI reads 100 until a first loss, and those readings enter the window that divergence is
  looked for in.
- `volume.wat:140` documents a slope of 0 below three points, and line 45 returns 0 below two;
  tf-agreement is documented in [-1, +1] and never goes below -1/3.
- The scale tracker's rate is 1/max(count, 100): slow from the start, where its comment says
  fast at initialization.
- 059-001's `DESIGN.md:172` says an error in a walk falls back to `eval-ast!`; `walker.wat:71`
  answers None, and the model does.
- In the reference machine: the cache counts an eviction for every put into a full map, also of a
  key it holds; the database's flush before it leaves never has a row to flush; once one client
  has closed, its queue is ready for ever and a driver polls without waiting.
- `batch_send` (`database.rs:50`, "Confirmed batch send") returns like any other time when the
  database's thread has died, and the rows are nowhere. `ConfirmedIsCommitted` is about the
  acknowledgement, and lets it.
- `encode_local` says "with L1 memoization" and reads L1 only: what it computes gets there in the
  next phase, and a part that occurs twice is composed twice. The `l1_hits` metric is overwritten
  with the cache's length (`encode.rs:132`).
- The treasury checks of an exit neither who asks nor whose price it is; a broker that gets no
  answer drops all its receipts and nobody is told; a volatility more than twice the base times
  the reference makes a paper due at the tick it is issued after.
- A second `--stream` (`BOOK.md:11226` calls the flag repeatable) starts the treasury's clock
  again at 1 (`wat-vm.rs:680`).

## 6. Proofs

Each theorem holds for every value of the constants that satisfies the named ASSUMEs of the
module (non-negative rates, deadlines and bounds; finite sets where a cardinality is taken; a
file with a batch per end; ...). TLC evaluates those in every run.

| module | theorems | argument |
|---|---|---|
| `SumLemmas` | (lemmas) | What the library's `SumFunctionOnSet` and `FoldFunction` return, by induction over finite sets: a sum does not depend on the order of its terms (`SumTakesAny`), a term added, changed or taken away changes it by as much (`SumGains`, `SumChanges`, `SumUnion`), and of a sequence the sum gains what is appended (`SeqSumAppends`) and loses what falls out in front (`SeqSumTail`). |
| `Programs_proofs` (bank) | `TypeCorrect`, `CountersCorrect`, `ResolvedCorrect`, `EarnedCorrect`, `CapitalCorrect`, `CapitalIsConserved`, `TreasuryKeepsTrust` | Type correctness first. The counters are cardinalities of sets of papers; each action adds or moves known papers between disjoint sets, `CheckDeadlines` a whole set at once. That a real was earned needs the counters to be true when the gate reads them. `CapitalConserved` is inductive beside the types: a grant takes from one balance the amount of the one position it adds, and a Grace adds to one record the residue of the one paper it resolves. Each operation is a step or a stutter of `TrustLedger` under `LifeOf`, `GrantsOf`; the gate is the ledger's `Proven` because the counters are true. |
| `Programs_proofs` (service) | `ServedCorrect`, `ServiceCounts`, `ServiceConserves`, `RoutingCorrect`, `ReceiptsCorrect`, `RepliesCorrect`, `OutstandingCorrect`, `ExitCorrect` | For any number of brokers. `Inv1` types the queues, keeps the three vectors equal and injective with every live channel in them, and ties each handle to its owner; `Outstanding` says where a request or its answer is; `Told` that an answer is true and stays so, because resolved papers are final, and that receipts and positions correspond. With these every step is a step of `Treasury` or none, so the bank's theorems are the program's (`ServiceCounts`, `ServiceConserves`). `OutstandingCorrect` and `ExitCorrect` assume `MayDie = {}`: a death may leave a request behind, and a reply to the dead panics the driver. |
| `PaperSim_proofs` (labeler) | `PhaseTypeCorrect`, `LabelsCorrect`, `ExtremeCorrect`, `HistoryCorrect`, `TurnsCorrect`, `HistoryIsTrue` | `LabelInv` ties label, direction and tracker; `HistoryInv` adds that records chain up to the current start and that trimming leaves a suffix. For the statistics, `PhaseBooksInv` says that the running count, sum, extremes and first close are those of the closes since the current phase began; they are frozen into the record the step that closes it. |
| `PaperSim_proofs` (simulator) | `SimTypeCorrect`, `ResolutionCorrect`, `ApartCorrect`, `AggregateCorrect`, `TrailCorrect` | `SimInv` is `CountInv` (candles ticked), `WindowInv` (the window ends with this candle) and `PaperInv` (the open paper is younger than every outcome); the outcomes already there do not change. The aggregate is a fold over the outcomes, and exactly one outcome is appended per resolution, in either of the two places. A trail follows the phases (`TrailInv`) because a generation moves exactly when a record is closed, and the paper was opened after the first close was seen. |
| `IndicatorBank_proofs` | `RollingSumsCorrect`, `NoSwingIsMissed`, `ReadOutsCorrect` | `BankInv` ties every sub-state to the candles it was fed: a window holds the last of them, its sum is theirs (`Rolls`), and the ATR averages true ranges of which one at least is no wider than the smoothing (`AtrTrue`). `ReadInv` adds what keeps a read-out in its range: the averages lie below the widest range of the stream, a smoothed gain and loss are not negative, the plus and minus movements stay within the true range (`DmiTrue`), and the stochastic's numerators within their windows. |
| `Programs_proofs` (pulse) | `StreamCorrect`, `RecordedCorrect` | `StreamInv`: what is in the buffer is the batch before the reader, rows handed out are the numbers up to the position; skipping empty batches uses the least readable one. `PulseInv`: for each value of main's program counter, where each row is: queued, stored, or not sent. |
| `ThoughtCache_proofs` | `TypesCorrect`, `AnswersCorrect`, `WalksCorrect` | `Inv1` says each entry is one the program makes, `Inv2` that the coordinate drifts from what was asked, `Inv3` that a walked form's chain is in the stores until something is dropped. |
| `VmStdlib_proofs` (database, console) | `CommitsCorrect`, `LinesComeOut` | Database: `DbInv` says of each client where its one batch in flight is: in its queue with the table a batch behind, committed and marked for acknowledgement, or acknowledged; and what a panic leaves behind. Console: `ConInv` says that every line said is on the screen, in the mailbox or in its producer's queue and no other line is (`AllThere`), and that of one stream these three stand in that order (`InOrder`). Each program is proved beside clients that may call anything (`DbSpec`, `ConsoleSpec`). |
| `VmStdlib_proofs` (cache, encoder, library) | `EncodingIsTrue`, `WorkIsShared`, `NothingUntold`, `ProgramsAreKept`, `StdlibCommits`, `StdlibPrints` | A pass of the cache's driver is two folds over the clients, followed through their intermediate states (`Folds`, `StepsCarry`): what one client's sets or gets preserve, the pass preserves. `CacheInv` then says where each set is (`Queued`), that without evictions what anyone may count on is in the map or among the sets being served (`Kept`), and that the counters are what was done since the last emit (`Counted`); `DbTold` does the last for the database, whose work is the sum of the tables' lengths. The walk of `encode` is a recursive function, shown to satisfy its equation (`RecursionExists`, `EncodeIs`) because a child's number is below its parent's; by that order, an entry of L1, L2 or an answer in flight that is its key's own vector (`Own`) is only ever joined by such entries. Finally every step of the library is a step, or none, of the database and of the console beside any clients (`ProgramsAreKept`), so their theorems hold in it. |
| `VmPipeline_proofs` | `TypesCorrect`, `RoundsAreAligned`, `ClocksStayClose`, `NoCandleIsLost` | For any topology. `Flow` says what each thread has passed on (`Fed`, `Observed`, `Fanned`, `Taken`, `Chained`) and that a queue is empty or holds the last of it, so that the number at its far end is the same or one less, as long as the taker lives. Rounds are aligned because what is taken from a slot is the number of rounds it was taken in; the clock's lead is the number of places between main and a broker, its lag the tick main is at and the one on its way. |
| `VmBooks_proofs` | `InvariantHolds`, `DeadlinesAreKept`, `FailureTeaches`, `GraceIsAlwaysEarned`, `OutcomesAreLearned`, `BooksAreTrue` | `Inv` types the books and the mail. A broker's receipts are papers of its own (`BrokersTrue`); a request in the mailbox is the one its sender waits for, and no sender has two there (`MailTrue`), so what an exit names is the asker's; and a proposer that has not failed has nothing but open papers and has learned nothing (`Untaught`). That an outcome is learned once: an answer moves the papers it tells of out of the receipts, so what has been learned and what is still held are disjoint parts of the broker's resolved papers, and their cardinalities add up. A record is true of its owner (`BookTrue`) when its three counters are cardinalities and its residue the sum over the survivors; a tick expires a whole set of papers, of several owners. |

**What a proof found.** Proving the ranges of the read-outs showed that `ReadOutsInRange` as first
stated fails for an Aroon window of one candle, which always reads 0: the code asks for a full
window only, and its own window of 25 is never that short. The property says `w > 1` since.

**What a proof changed.** The walk of `VmEncode` was a RECURSIVE operator, which the prover does
not read. It is a recursive function over numbered nodes now, children before parents
(`Kids[n][i] < n`): a `ThoughtAST` is built from children that exist already, so every one can
be numbered so, and shared subtrees are one node.

**Model-checked only.** Liveness (`HelpersReturn`, `PulseEnds`, `ResolveReturns`, `MainEnds`,
`MachineEnds`) is outside what the prover handles; every invariant and action property that a
run checks is proved. `thought_cache` restricts `ResolveReturns` to programs in which a step leads
away from what is coincident with it; the violation run lifts that.

## 7. Not modelled

- *Encoding cache* (`sim/encoding-cache.wat`): an LRU map with a hit and a miss counter, called by
  one thread; planned, after what it caches.
- *L2 and the cache service, reporters, L1's telemetry* (`cache/*.wat` beside L1 and walker):
  planned; no live program starts the L2 services yet.
- *Bank read-outs by root, logarithm or regression* (Bollinger width and position, Hurst, DFA,
  variance ratio, fractal dimension, entropy, squeeze, choppiness), the ratios of ATR and range, and the time of day: pure
  functions of windows whose contents are modelled and checked. KAMA efficiency, slopes and divergence,
  which are rational, are modelled.
- *Labels and thinkers, scalar encoders, vocabulary*: pure functions over high-dimensional
  vectors and ASTs. The simulator model lets the thinker say anything.
- *The other programs* (`bare-walk.wat`, `smoke.wat`, `run.wat`): pulse without the database or
  without the walk; the rest loads files and names paths.
- *Telemetry rows of the treasury and paper programs*: written, never read back.
- *Reference machine, real positions*: the machine starts its bank without a balance, so every
  request for one is refused, and no broker sends any. *Reference machine, what the observers
  learn and predict*: reckoners and subspaces from a library outside the repository; a broker's
  reckoner is kept as "has been taught". *A second stream*: see the findings.
- *The rest of `src/archived/`*: the reference machine's own indicator bank and vocabulary, which
  the wat modules covered above replace, and the older implementations. No document
  treats those as a reference for the code that runs.

## 8. Plan

1. L2 and the cache service of the live code, once a program starts them, over the channel model
   of the treasury's service and with `VmCache` as the abstract promise.
2. The scale tracker, and the read-outs of the bank that remain.
