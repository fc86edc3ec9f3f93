# Verification of the Nedbank medallion pipeline

TLA+ models of the three-stage PySpark/Delta pipeline in `src/pipeline`, checked
with TLC on small instances, with theorems about every part of it checked by the
TLA+ proof system. `PROJECT.json` maps every definition to the lines it
models, and lists runs, mutants, hazards, findings and theorems.

## 1. Inventory

`run_all.py` runs one Python process: ingestion, transformation, provisioning
and, when `/data/stream` holds a `*.jsonl` file, the streaming stage. An
exception anywhere is logged as `pipeline.failed` and the process exits with 1.
There are no threads. What makes the system hard is that its state is spread
over several Delta tables and files, each committed on its own, and that the
process may raise, be killed and be run again between any two commits.

| Component | State | Operations | Hard behaviour | Correct when |
|---|---|---|---|---|
| Bronze (`ingest.py`) | three Delta tables, a schema each | overwrite each from one input file, stamp all rows with one `ingestion_timestamp` | overwrite cannot add columns; stop between two tables | nothing of an earlier run survives in a completed one |
| Silver (`transform.py`) | three Delta tables | filter keys, parse, normalise, flag, deduplicate | constant sort key, NULL ordering, flag precedence, flag before deduplication | flags say what is wrong, one row per key |
| Gold (`provision.py`) | three Delta tables, `dq_report.json` | dimensions, two inner joins, report, Q1–Q3 | join fan-out, stop between dimensions, swallowed read errors, two resolutions of the run timestamp | star schema closed, fact exact, report adds up, reruns identical |
| Stream loop (`stream_ingest.py`) | two Delta tables, two files in `/tmp`, four variables in memory | glob, process each new file, record, retry up to three times, give up, sleep, quiesce | kill between two MERGEs, retry of a half-applied file, `/tmp` lost and tables kept, late files | bounded repetition, nothing forgotten, everything settled, loop ends |
| Stream tables (`stream_ingest.py`) | `current_balances`, `recent_transactions` | MERGE of net deltas, MERGE of events, delete beyond the last 50 | NULL keys, times and amounts, DECIMAL overflow, ambiguous MERGE, ties | balances are the ledger of what was committed; newest rows kept |
| Entry point (`run_all.py`) | exit code | order of stages, one look at the stream directory, the except clause | exit 1 after everything has been written; files that arrive before or after the look; a look that raises is taken for no files; kill anywhere | exit 0 is earned, exit 1 names the stage, streaming comes last, every process ends |
| Stage timers (`logging_config.py`) | open timers, the log of the process | enter, leave with or without an exception | nested timers, an exception between two of them | each opened stage closed once; an ended layer is really there |
| Configuration, run timestamp (`spark_session.py`) | three possible files | first existing path, `resolve_run_timestamp` | no file; no `paths.stream`; timestamp resolved several times in a run | a configuration error touches nothing, or nothing but what was complete |
| Age bands (`provision.py`) | the column `age_band` | `derive_age_band` on the day of each run | calendar arithmetic by 365.25 | never early, late at most by one day, never taken back |
| DQ rule file, OPTIMIZE, tests, image | – | – | – | not modelled (section 7) |

The components share no memory but the tables: bronze is read only by silver,
silver only by gold, and the streaming stage reads only its own tables. The process
memory of the streaming stage (`processed`, `retry_counts`) is fed back from
`/tmp/stream_processed.txt` when the process is started again.

## 2. Modules

    StreamTables ── StreamIngest ── StreamProperties ── MCStream      (TLC)
                                     │      └ INSTANCE MicroBatchFeed
                                     └─ StreamProofs ── StreamTableProofs (TLAPS)
                    FiniteSums ───────┤
    BatchRules ── Medallion ── BatchProperties ── MCBatch             (TLC)
                      │              │   └ INSTANCE GoldRun
                      │              └─ BatchProofs ── GoldRunProofs  (TLAPS)
                    FiniteSums ───────┘
    PipelineRun ── PipelineProperties ── MCPipeline                   (TLC)
      │             │    └─ PipelineProofs ── PipelineExitProofs      (TLAPS)
      │             │                           └ INSTANCE StreamTableProofs, GoldRunProofs
      │             └ INSTANCE PipelineJob (which has INSTANCE GoldRun, MicroBatchFeed)
      ├ INSTANCE Medallion
      └ INSTANCE StreamIngest
    AgeBand ── MCAgeBand (TLC)
       └─ AgeBandProofs  (TLAPS)

**StreamTables** – rows, conversions and statements of `stream_ingest.py` as
functions: `ParseLine` is `parse_stream_events`, `MergeBalances` the MERGE of
`upsert_current_balances`, `MergeRecent`, `PastLimit` and `DeleteKeys` the
MERGE, window and delete of `upsert_recent_transactions`. A DECIMAL out of range
is NULL; comparisons with NULL are not true; rows with equal timestamps are
numbered in any order. A timestamp is the instant a date and a time denote,
together with whether the text can be read.

**StreamIngest** – the loop. `pc` is the point of the program between two
places where it can stop:

| action | code |
|---|---|
| `Start(kind, look)` | a process reaches the stage, in the same container (keeps `/tmp`) or a new one; `look` is what `_stream_files_exist` came to: files found (then the loop begins, or its preamble raises), none, or an exception that counts as none |
| `Poll`, `EndOfPass`, `Sleep` | glob and test for idleness; `last_activity` refreshed after a pass; `time.sleep` |
| `ParseStreamEvents` | analysis of the select: a missing column raises |
| `UpsertCurrentBalances`, `UpsertRecentTransactions`, `Retention` | the commits of `process_file` |
| `RecordProcessed`, `RecordProcessedRaises` | `processed.add` and the append to the state file |
| `RetryLater`, `GiveUp`, `RecordFailed`, `HandlerRaises` | the except clause and its two appends |
| `StatementRaises` | Spark, Delta or the disk raises in `process_file`: before a commit, or after the last one |
| `PollRaises` | the glob of the loop raises; it is in no `try`, so the process ends |
| `Crash`, `Arrive(f)` | the process is killed; a producer adds a file |

The volume (tables, input files) survives everything, `/tmp` survives a restart
of the same container, memory survives nothing. `applied`, `merged` and
`failures` are history variables: no guard reads them.

**MicroBatchFeed** – the abstract specification: an at-least-once feed of files
into two tables. A settled file is left alone until settled files are forgotten;
a file is settled once it is in both tables or after `MAX_RETRIES + 1` strikes.
`StreamProperties` instantiates it (`effect <- applied`, `settled <- processed`,
`strikes <- retry_counts`); `FeedContract` is the refinement, checked by TLC and
proved.

**BatchRules**, **Medallion** – the batch stages. `BatchRules` has the row
functions (date parsing, currency, the flag chain, deduplication, the joins, the
counts of the report). `Medallion` has one action per commit (three bronze,
three silver, three gold tables, the report in two steps because `open(path,
"w")` truncates first, the contract assertions), with `Raise` and `Crash`
between any two, `ReplaceInput` between runs, and a clock. Deduplication
is any set with one row per key that is minimal under the code's ordering;
for customers and accounts that ordering is a constant column, so any row may
survive. `outcomes` records the input and the gold tables of every run that
wrote all of gold.

**GoldRun** – the abstract specification of the batch stages: a run that writes
all of gold is one step, and its tables are ones the input allows (`IsGoldOf`: the
survivors of the deduplications and the run date are the only choices).
`RunsAreAtomic` is the refinement, checked and proved.

**PipelineRun** – `run_all.py`: one process that composes instances of `Medallion`
and `StreamIngest`. `Start(kind)` starts a container, the same one or a new one;
`BatchStep` is a step of the batch stages and needs the timers of that statement
open; `EnterTimer` and `LeaveTimer` are `__enter__` and `__exit__`, with
`X.failed` when an exception is on its way out; `StreamStage` is the one look at
the directory (`run_all.py:33-62`), and the loop or the skip that follows. `look`
remembers what it came to: files were found, there were none, or it raised, which
`_stream_files_exist` answers with `False` as well. `present` remembers the files
that were there at that look, those that arrived under the batch stages included.
`Exit` is `sys.exit`; `Kill` takes the memory of both components.
`LoadedConfig` is the search of `_resolve_config_path`; a process without a
configuration ends before it touches anything (`StartUnconfigured`), one without
`paths.stream` falls back to `/data/stream` in `run_all` but raises in
`run_stream_ingestion` (`StreamUnconfigured`). A container that was started and
killed before it reached the streaming stage still counts: `container`
remembers that `/tmp` is a new one.

**PipelineJob** – the abstract specification of the whole: what somebody who starts
the container and reads the exit code is promised. Gold tables that the input allows
are published in one step (a `Run` of `GoldRun`), then verified against the
contracts, then kept while stream files are looked for, once (`Look`), and fed
(`MicroBatchFeed`), if the look found any; a job breaks or is killed at any moment,
and vouches then only for tables it had verified; it succeeds only from there, with
every file settled that was there at the look. A look that failed is the one
exception: the job still succeeds, with the files as they are.
`PipelineProperties` gives the refinement mapping: `Phase` reads from the point of
the program how far the tables have come, `Vouched` is gold once it is whole, and
no table before. `IsAJob` is the refinement, checked and proved.

**AgeBand** – `derive_age_band` over the proleptic calendar: a date is a year and
a place in it, `Age` is `floor(datediff / 365.25)` in whole numbers, and
`dim_customers` is rebuilt on later days. `TrueAge` is the reference definition.

**StreamProperties**, **BatchProperties**, **PipelineProperties** – the properties
(those of `AgeBand` are in its module); **MCStream**, **MCBatch**, **MCPipeline**,
**MCAgeBand** – pools of lines, inputs and dates from which TLC draws every case.
`<Definition>_<fault>` is a faulty variant used only by the mutants of
`PROJECT.json`: each property is shown to fail when the fault is put in.

## 3. Runs

Passing:

| run | question | instance |
|---|---|---|
| `stream_tables` | are the tables right over well-formed files: `BalanceIsLedger`, `RecentIsNewest` | 2 files, any subset of 4 lines in each, `MAX_RECENT` 1, a fault, kills, a rerun of either kind |
| `stream_dirty` | the same over malformed lines and files: `TypeOK`, `BalanceIsLedger`, `LastTsIsNewest`, `KeyedRowsBounded`; and with new containers only, is every file the loop saw in both tables or in the failed list: `QuiescedIsAccounted` | 2 files, any subset of 5 bad lines or a missing column, `DecMax` 3 so that sums overflow |
| `stream_loop` | the loop: `ExtraApplicationsExplained`, `RetriesStop`, `SkippedOnlyForCause`, `OvertakenOnlyAfterFailure`, `LoopInv`, `FeedContract`; under `FairSpec`, does it end and settle what it saw: `Quiesces`, `SeenIsSettled` | good and bad files in every position, an arrival with the *earlier* name, 2 faults, 2 process starts, `MAX_RETRIES` 2 |
| `batch_data` | every input drawn from pools of 4 + 4 + 6 lines (16 384): `TypeOK`, `StarSchemaClosed`, `FactIsExact`, `FlagsAreExact` | one run |
| `batch_rerun` | three runs with an error, kills and the input replaced and put back: `RunsAreAtomic`, `RerunIsIdentical`, `ReportAddsUp`, `Q2NeverFails` | 4 inputs that differ in customers, optional columns and ties |
| `pipeline` | whole processes: `ExitZeroIsEarned`, `FailureIsNamed`, `LogTellsLayers`, `StreamAfterContracts`, `IsAJob`, `Terminates`, `TypeOK` | 2 inputs (one breaks Q3 and has a further column), a good or broken stream file that arrives at any time, 3 configurations, 2 process starts, an error, at the look too, kills |
| `age_band` | who is in which band on which day: `NeverTooOld`, `LateOnlyOnBirthday`, `BandsNeverFall`, `TypeOK` | everybody born in four years, from the day before to the day after each of the six birthdays |

Expected violations; each is a statement of the repository that the code does not
keep, and each has a finding with the quotation:

| run | what TLC shows |
|---|---|
| `stream_twice` | an error after the balances MERGE: the retry adds the file's deltas again |
| `stream_lost` | a stop between the two appends of a given-up file: the rerun skips it and no list names it |
| `stream_null_ts` | a first batch without a readable timestamp leaves `last_transaction_timestamp` NULL for ever |
| `batch_q2` | a run stopped between the two dimensions leaves orphans in gold |
| `batch_ties` | with repeated accounts, reruns write different gold tables |

Further statements of the repository that the code does not keep; the model shows
each of them, but no run is kept for it:

- *retain only the last MAX_RECENT per account_id* (`stream_ingest.py:172`): rows
  without a `transaction_id` are never deleted, since the delete is by key.
- *processes them in lexicographic (chronological) filename order*
  (`stream_ingest.py:5`): a failed file is applied after the later ones at the
  next poll; `OvertakenOnlyAfterFailure` is what holds.
- *raw Bronze table row counts* (`provision.py:305`): a read that raises is
  reported as zero; `ReportAddsUp` is what holds.
- *Return True if there are any JSONL files* (`run_all.py:34`) and the logged reason
  *no jsonl files in stream dir* (`run_all.py:61`): any exception of the look counts
  as no files, so a process can exit 0 and leave every stream file unsettled
  (`ExitZeroIsEarned` exempts this one case, `look = "failed"`; `StreamAfterContracts`
  and `IsAJob` say that the stream tables then stay as they were).
- *timestamp of pipeline start* (`provision.py:303`): without `RUN_TIMESTAMP` the
  clock is read again when the report is written.
- *Always "ZAR"* (`README.md:216`): `normalise_currency` leaves an unknown
  currency as it is.
- *reruns differ in those two columns* (`README.md:166`): `age_band` depends on the
  run date too.
- optional fields *should NOT cause a hard failure* (`ingest.py:18`): an overwrite
  adds no columns, so they fail the run once the table exists without them.

### Bounds

`MaxRuns`, `MaxFaults`, `MaxChanges` and `MaxClock` bound process starts,
transient errors, replaced inputs and days; they are guards of the actions they
count and nothing else. They are large enough for the cases that matter: two
faults with `MAX_RETRIES` 2 let a file fail for a while and recover, and broken
files fail without any fault until they are given up; a rerun meets a table
left in every intermediate state. Kills are not counted, only starts are. In
`batch_rerun` three runs and two replacements allow input A, then B, then A again
over what B left. In `pipeline` `MAX_RETRIES` is 0, `QUIESCE_POLLS` 1, one file and
two starts: the loop itself has been checked on its own, what matters there is
where it stands in the process. `age_band` takes years of both kinds, and the days
around the only birthdays at which a band can change. `MAX_RECENT` is 1, so that
the second row of an account is already past the limit; two files are enough for
overtaking, for a key that recurs in a later file and for the ambiguous MERGE.
`QUIESCE_POLLS` is 3, as 60 s by 20 s in the code. Deadlock is not checked:
a program that has exited and is not started again is at rest.

### Fairness

`FairSpec` of `StreamIngest` and of `PipelineRun` adds `WF_vars(Step)`: a single
thread that waits for nothing but a sleep of fixed length takes its next step. Nothing says that the process is
started, that files arrive, that errors happen or that they stop happening.
Arrivals end because files are finitely many; that is also what the code needs,
since a producer that never pauses keeps the loop busy by design.

## 4. Theorems

All are stated for every value of the constants: every set of files and content of
them, every input, every `MAX_RETRIES`, `MAX_RECENT`, `DecMax`, `MinTypes`, and any
number of errors, kills, reruns and replaced inputs.

Assumptions: file names are naturals (their order is the name order) and a
deployment has finitely many of them, a row is not the model value `NoRow`, the
quiescence time is at least one poll interval; an input file has finitely many
lines; `NULL` is not a number, a transaction type, a transaction_id or a dq flag;
dates are of the years 1901 to 2099. Without a finite set of files "the sum of all
committed batches" would mean nothing; without the assumption on `NULL` a missing
amount could be an amount. `NewContainersAccount`, `LogIsTrue` and
`ExitZeroMeansDone` state one more hypothesis each.

*The loop* (`StreamProofs`). `SkippedOnlyForCause`, `RetriesStop`,
`ExtraApplicationsExplained` and `OvertakenOnlyAfterFailure` are not inductive:
each says nothing of the file in flight. `LoopInv` is the strengthening:

- `MemoryInv`: outside the except clause no remaining file is processed. Inside it
  the current one may be, when it was the append to the state file that raised.
  An unprocessed file has tries left; `processed_state` never runs ahead of
  `processed`.
- `EvidenceInv`: what each step stands on – after the first MERGE the file is
  applied, after the second it is merged, and a processed file is merged or has
  failed more than `MAX_RETRIES` times.
- `TallyInv`: an unprocessed file has one application in reserve under its bound,
  except between the first MERGE and the recording; and its failures in *this* process
  are what `retry_counts` says.
- `OrderInv`: a file a pass has left behind is processed or has failed.

`LoopInit` and `LoopNext` prove it inductive, one case per action; the theorems
`LoopInvariant`, `ExtraApplicationsBounded`, `AttemptsBounded`, `NoFileForgotten`
and `NameOrderKept` follow. `NewContainersAccount` proves `QuiescedIsAccounted` from
`ListedInv`, under the hypothesis that every rerun is a new container: in the same
one a stop between the two appends of a given-up file takes the file out of the
list for good (run `stream_lost`). `FeedNext` maps each step under `LoopInv` to a step of
`MicroBatchFeed` or a stutter, which gives `ImplementsFeed`: `GiveUp` needs that
`retry_counts` is exactly `MAX_RETRIES`, `Settle` that the file is merged.

*The tables* (`StreamTableProofs`). `TypeCorrect` is `Spec => []TypeOK`: what the
MERGEs return is in range, rows stay finite in number.
`RetentionEffective` proves `KeyedRowsBounded`: the rows the window numbers up to
the limit are all that can survive among those the delete can match.
`NewestTimestampKept` proves `LastTsIsNewest` from `NewestInv`, which adds that an
account without a row has no applied event.

`BalancesAddUp` proves `BalanceIsLedger`. `BalanceIsLedger` is itself inductive
(`LedgerInv` is the same with the sums as `LedgerOf` and `VolumeOf`); the work is in
what a MERGE does to the sums. The ledger grows by the batch's delta
(`LedgerGrows`), and it stays between minus and plus the volume of what was applied
(`LedgerBounded`), so that a delta or a new balance out of DECIMAL range shows that
the volume is beyond `DecMax`. Once a balance is NULL it stays NULL, and the volume
never shrinks (`MergedBalanceAdds`).

`NewestTransactionsKept` proves `RecentIsNewest`, which speaks of one point of the
program only. `RecentInv` is what holds between passes: no key has two rows, every
row is an event of a merged file, and a merged event without a row is
*dispensable*: `MAX_RECENT` rows of its account stand before it in the order
of the window. That is what makes trimming batch by batch as good as trimming once:
a MERGE only inserts (`MergeOnlyInserts`: with immutable transactions an update
writes what is there), so what stood before an event still does; and a retention pass
leaves `MAX_RECENT` rows before each it drops, and, since the order is transitive
(`NotOlderTransitive`), before each that was dispensable already
(`RetentionKeepsNewest`). `RecentInvSuffices` counts: with at most `MAX_RECENT` rows
left, the dispensable events are exactly those that are not among the newest.

*Sums* (`FiniteSums`, lemmas only). The balances and the report are sums over sets, which the
community modules define by recursion on the set. The recursion has one solution
(`SumUnfold`, `SumRemove`), and the laws the proofs need follow from it:
`SumBounds`, `SumCong`, `SumUpdate` (a sum changes by the change of its one term) and
`SumOfSizes` (sizes of disjoint sets add up). They go by induction on a finite set,
with the subsets for which a law holds collected in a *set* (`SubsetInduction`),
which is what the provers can instantiate.

*The batch stages* (`BatchProofs`). `StarSchemaClosed`, `FlagsAreExact` and
`Q2NeverFails` speak of finished runs or of one assertion and are not inductive.
`BatchInv` says what each statement has established by the time the next one
reads it: keys are unique in silver once the deduplication has run, flags are
right against the silver accounts, every account of gold has its customer from
`gold.fact_transactions` on. Because each clause begins at the statement that
writes its table *in this run*, what a killed run left behind never matters.
`GoldIsAStar`, `FactFlagsExact` and `Q2Unreachable` follow. `TypeCorrect` is
`Spec => []TypeOK`, from `TypeInv`: a table that a statement reads is one that this
run has written, so it is there, has its type and is finite (`WrittenInv`). The
conversions stay in range (`SilverCustomerTyped`, `SilverTxnTyped`), joins of finite
tables are finite (`GoldFinite`), and a report's counts are numbers (`ReportTyped`).
`ReportTotals` proves `ReportAddsUp` from `ReportInv`, which says the same of the
draft before it is dumped: the flags found split the flagged rows of silver
(`IssuesAddUp`), and where a count is 0 because a read raised, an error has been
counted (`DraftAddsUp`).

*A run as one step* (`GoldRunProofs`). `GoldRunInv` traces each table to the input:
bronze holds the input as long as a later statement reads it, each silver table is
a deduplication of it, and each dimension comes from those. `RunAdds` puts this
together at the last overwrite, which gives `RunIsOneStep` (the refinement of
`GoldRun`). `KeptIsEarliest` shows that what a deduplication keeps is one of the
lines "keep earliest" allows, NULL timestamps included; `FactLosesNothing` and,
with `GoldDetermined` (without ties nothing is left to choose), `RerunsAgree`
follow.

*The process* (`PipelineProofs`). `RunsMedallion` and `RunsStreamIngest` show that
every step of `PipelineRun` is a step of each component or leaves it alone, so
that the theorems on the components hold of the whole program; the second needs
`ShellInv`, that a process knows its kind of start. `StreamingIsLast` rests on
`ContractInv`: batch stages that have completed leave the contracts kept, and
streaming runs only behind completed ones; and on `LookInv`: a process looks once,
behind its batch stages, and its loop runs only when the look found files.

*The log* (`PipelineProofs`). `LogInv` is the invariant behind `ProcessTyped` and
`LogNamesFailure`. `TimersInv` says which stacks of timers there are: none, a
layer, a layer and one of its statements. `BookInv` says that a stage is in the
log as started exactly when it is ended, failed or open, and only one of these.
`PlaceInv` orders the stages: what has started ends before the statement that is
next, or is open around it; a process that has raised has only one statement and
its layer open or failed. Without the order nothing excludes that a stage is
opened twice, or that a statement raises under a timer that is not its own.
`PlaceInv` says nothing of a killed process, whose log is cut off anywhere.

*What the log and exit code 0 mean* (`PipelineExitProofs`). `LogIsTrue` and
`ExitZeroMeansDone` join invariants of the components. `BronzeInv` and `SilverInv`
trace the tables of *this* run from the statement that writes them, so that
what an earlier run left never counts; `WholeInv` says that past the fact table the
gold tables are those of one run and that draft and report are of them;
`SettledInv` says that every file the loop skips is merged or has failed more than
`MAX_RETRIES` times. `LogTellsInv` and `ExitInv` tie them to the process, and
`PlaceInv` turns "the log says bronze has ended" into a point of the program.
Both theorems assume `NoTableIsNothing`: the marker for a table that is not there
is not itself a table or a report, which holds of any model value.

*The theorems on the components, of the process* (`PipelineExitProofs`).
`PipelineRun` has its own instances of the two components, the proofs are about
others with the same constants and variables. `SameSteps` and `SameBatchSteps`
show, operator by operator, that both take the same steps, and
`SameStreamAssumptions` and `SameBatchAssumptions` that they assume the same of the
constants. With `RunsStreamIngest` and `RunsMedallion` the theorems above hold of
whole processes: `StreamTablesOfProcess`, `GoldTablesOfProcess`,
`ProcessImplementsFeed` and `ProcessRunsAreAtomic`. `ExitZeroMeansRight` puts them
together with `ExitInv` and `WholeInv`: what a process that exits with 0 leaves on
the volume are gold tables that the input of one run allows, a closed star schema
with exact flags, and a report that adds up to the tables.

*A process as a job* (`PipelineExitProofs`). `ProcessIsAJob` is the refinement of
`PipelineJob`. Step simulation is not true of every state, only of those of `JobInv`,
which adds nothing new: it joins the invariants of the components, lifted to the
process, with those of the process. Each is needed at one place. `FactPublishes`
takes the last overwrite of gold to `Publish`, by `GoldRunInv`: only the trace of each
table to *this* input shows that the tables are allowed. `ContractsAreKept` takes
the contract assertions to `Verify`: `Kept` states the star schema as README.md does,
while the code queries it with an anti-join, so the closure in `BatchInv` joins in.
`FeedMoves` takes every streaming step to one of the feed or a stutter, by
`LoopInv`; `LoopDelivers` adds, by `ContractInv`, that the phase is "verified" when it
happens and, by `LookInv`, that files were found. `StageIsLook` takes `StreamStage` to
`Look`, which may forget settled files, since the container may be a new one. An exit needs `PhaseAtRest` (nothing is being written when a process
is over or streams, by `LogTellsInv` and `ContractInv`), and exit 0 needs `ExitInv`:
unless the look failed, every file that was there at it is settled. `JobNext` has one case per action of the process;
timers, configuration, state files, the report and every overwrite but the last
are stutters. `SameAllowed` and `FeedMoves` bridge the instances, as above.

*Age bands* (`AgeBandProofs`). The days up to a year are counted in quarters
(1461 a year, `QuartersOfYears`), which turns the floor of a division by 365.25
into linear arithmetic (`AgeAlmostTrue`, `AgeRises`). `AgeInv` says that a row holds
the band of its run date and that the clock is not behind it. `NeverInABandTooEarly`,
`OneDayLateAtMost`, `NoBandTakenBack` and `TypeCorrect` follow. The lateness is
real: who was born on 1 March 2001 is 6574 days old on the 18th birthday, and
6574 / 365.25 is below 18, so a run on that day leaves `age_band` NULL.

## 5. Only model-checked

- Liveness (`Quiesces`, `SeenIsSettled`, `Terminates`): what holds under fairness is
  out of the provers' reach. Every other property of a passing run is a theorem.
- That the sums and counts TLC computes are those of the definitions: the proofs
  unfold `MapThenSumSet` and `Cardinality` as the modules define them. No module
  here declares a `RECURSIVE` operator.

## 6. Plan

Done: the stream component with its abstract feed, the batch component with its
abstract run, the process that composes them with the abstract job above it, and
the age bands; every safety and action property and every refinement that a run
checks is proved, and the theorems on the components are lifted to the process.
What would come next is outside this source: a model of Delta's commit
protocol, which the code relies on, and of a producer that writes a file in place.

## 7. Not modelled

- The format of a log line and its fields (`logging_config.py`): nothing reads them
  back. The fallback of `delta_write_row_count` to a scan: it is a number for the
  log; that it may raise after the commit is in the model.
- `dq_rules.yaml`: loaded and passed on; no statement reads it. The paths and Spark
  sizes of `pipeline_config.yaml`: fixed for a deployment.
- `OPTIMIZE`/`ZORDER`: layout of files, not rows; off by default.
- A configuration that changes while a process runs, although it is read five times.
- Columns that are copied and never looked at; `updated_at`; surrogate keys are
  represented by the natural key they are a hash of, so hash collisions are out.
  A malformed CSV line is a line with NULL fields.
- What `glob` does with a directory it cannot read: CPython answers with an empty list,
  without raising. At the look of `run_all` that comes to the failed look of the model
  (the files are there and the stage is skipped); in the loop
  (`stream_ingest.py:259`) it would be an idle poll, which the model leaves out.
- A file that changes while Spark reads it, and the inside of Delta and Spark:
  a commit is atomic, as Delta promises.
