# OntoForge in TLA+

OntoForge (`src/src/ontoforge`) turns raw tables and documents into a governed
knowledge graph and answers questions over it. This directory holds TLA+
models of the parts of it that keep state, the TLC configurations that check
them on small instances, and theorems about them proved with TLAPS. Paths below
are relative to `src/src/ontoforge/`.

- [1. The system](#1-the-system): inventory, state, interactions, what is hard
- [2. The modules](#2-the-modules) and how they correspond to the code
- [3. The runs](#3-the-runs): what each asks, its bounds, and why they suffice
- [4. Fairness](#4-fairness)
- [5. What is proved](#5-what-is-proved), and what is only model-checked
- [6. Findings](#6-findings)
- [7. What is not modelled](#7-what-is-not-modelled) and known limits
- [8. Plan](#8-plan)

To check a module: `tlc -workers 2 -config HearthShard.cfg MCHearthShard` (the run
table names the module of each cfg); to check proofs, say those about HearthShard: `tlapm
HearthShard_proofs.tla`.

## 1. The system

The pipeline is ingest -> profile -> induce -> resolve -> materialize -> ask and
serve. Eight parts carry names of their own: STRATA (ontology induction), TEMPER
(ontology evolution), HEARTH (bi-temporal store), ANVIL (transform synthesis),
WARDEN (drift), LODESTONE (questions), VISTA (dashboards), AMBER (snapshots).
Everything runs in one Python process; concurrency exists in one place, the
server's playground builds. Elsewhere the hard part is long sequences of
calls, files that are written without a transaction around them, derived state
that is kept up by deltas, and caches.

### Parts that keep state

| Part | State | Operations | Talks to | What makes it correct |
|---|---|---|---|---|
| HEARTH value shards (`hearth/store.py`, `read.py`) | append-only cells with valid and system time, `open_by_key`, `current`, the clock, one Parquet file per shard | commit, Action, save, rebuild_indexes, discover | ledger (provenance refs), links (clock) | open cells never overlap; indexes equal a rebuild; audits of the past never change; human edits outrank the pipeline, also on disk |
| HEARTH links (`hearth/links.py`, `portability.py`) | link rows per (class, predicate), the adjacency counts over all of them | commit, unlink, neighbors, traverse, export, import | value shards (the clock) | counts equal a rebuild; no row is lost on unlink; stamps never run backwards |
| HEARTH Actions (`hearth/actions.py`) | none of its own | SetProperty, CreateObject, Link, Unlink | ledger first, then the shards | evidence and write agree |
| CDC tabular (`cdc/tabular.py`, `largecsv.py`, `ingest.py`) | connector state (cycle, rows), RAW mirror files, `manifest.jsonl` | pull, register, write_snapshot | ledger (atoms), the command line (persists the state) | the deltas rebuild the snapshot; superseded ids are exact; the mirror agrees with the state |
| Playground (`pipeline/playground*.py`, `server/world.py`) | job status, bounded event log, worker threads, active world, open handles, answer cache | start a build, poll, flip the world, ask, edit, reload, restart | worker threads, event loop, polling clients | the world read is a complete one; caches are of it; watchers see the end |
| STRATA lattice (`strata/context.py`, `lattice.py`, `incremental.py`) | formal context, concepts with extent, intent, stability | induce, insert_delta | admission, spine | inserting equals inducing from all |
| STRATA admission (`strata/admission.py`) | decided concepts, cache by features, name memo | process, diff_admissions | lattice, spine, ledger | no admission flips silently; merge targets are the nearest admitted; what is admitted adds something |
| Ledger (`ledger/sqlite_ledger.py`) | atoms, interned provenance terms, artifacts, decisions, cost | register, intern, append, invalidate | all | append-only; invalidation is exact |
| Spine (`spine/spine.py`) | calibrators, rules, tokens spent | decide, recalibrate | models, ledger | escalation order; fail-closed budget |
| Transforms (`transforms/orchestrator.py`) | registry, memo, materialised outputs, run records | register, plan, run full, run delta | DuckDB, ledger | a delta run equals a full run; failures stay isolated; the plan tells what the run does |
| TEMPER (`temper/apply.py`, `morphism.py`) and engineer (`engineer/operators.py`) | ontology, snapshots, rewriter chain, morphism records, undo tokens | apply, invert, replay, preview, undo | HEARTH, spine, ledger, world | data, ontology and records move together; replay rebuilds; undo is exact |
| ER (`er/cascade.py`, `incremental.py`, `blocking.py`, `clustering.py`) | blocking index, decided pairs, accepted edges, clusters, mention to URI | run, add_mentions | spine | a mention has one URI; URIs are stable; incremental blocking misses no pair |
| LODESTONE (`lodestone/__init__.py`, `execute.py`, `lower.py`) and its flywheel (`lodestone/flywheel.py`, `discovery/cached_work.py`) | versioned work objects, one pending clarification | ask, answer_clarification, consult, write_back | HEARTH, ledger | a cached answer is what recomputing gives; what is offered holds data |
| Criticality (`criticality/recompute.py`, `usage.py`) | usage log, watermark, scores | record, update | server | lazy scores equal full ones |
| Tenant priors, decision gate, WARDEN charts | counts, weights, control charts | observe, update | spine, ledger | real-valued |

### Parts that are functions

Profiling, relationship inference and join validation, grounding and planning of questions,
ANVIL, VISTA, RDF export, the anonymizer, AMBER, the model router, estates, the
read views of the server, and the drawing of the web client compute a result
from their input and keep nothing between calls that another step could see half
done. They are listed in `PROJECT.json` with the reason each was left out.

### What is hard, and where

- *Derived state kept by deltas*: shard indexes, link counts, the lattice, delta
  runs, lazy scores.
- *Memory ahead of the file*: a commit applies its cells and then saves; the save
  may raise (`hearth/store.py:528`).
- *Writes that are not atomic*: mirror files and manifest (`cdc/ingest.py:65`),
  shard metadata, imports, the state file of an ingest (`cli.py:494`).
- *Two clocks in one store*: the floor of a reopened store comes from values only
  (`hearth/links.py:138`).
- *Threads*: workers flip the world while handlers hold caches of the old one.
- *Caches*: the answer cache, the flywheel, stability, the memo, decisions by features.
- *Several steps of which one raises*: the evidence of an Action and its write, the
  batches of a migration, the pairs of a resolution, the candidates of a delta.
- *Composition of steps that are right one by one*: evolution operators and their
  backward views, local re-clustering, proposals of successive deltas.

Every hazard, at its line, with the properties that cover it or the reason none
does, is in `PROJECT.json`.

## 2. The modules

```
Temporal -- HearthShard -- MCHearthShard            BeliefMap (what HearthShard implements)
        |              \-- HearthShard_proofs
        |-- HearthLinks -- MCHearthLinks
        |              \-- HearthLinks_proofs
        \-- HumanActions -- MCHumanActions
                       \--- Asks -- MCAsks
                                \-- Asks_proofs
Subsequences (of HearthLinks, HumanActions, Playground, Temper)
             \-- Subsequences_proofs (of every *_proofs)
CdcTabular -- MCCdcTabular
Playground -- Playground_proofs
StrataLattice -- StrataEnumeration -- MCStrataLattice
             \-- StrataAdmission -- MCStrataAdmission
Temper -- MCTemper
Ontology_proofs (of StrataAdmission, StrataEnumeration and Temper)
TransformRuns -- MCTransformRuns
Dataflow_proofs (of CdcTabular and TransformRuns)
IncrementalER -- MCIncrementalER
             \-- IncrementalER_proofs
```

**Temporal** holds the half-open intervals of `contracts/temporal.py`. FOREVER is
a constant above every instant that a model uses, as the sentinel is in the code.

**Subsequences** has the list comprehensions of the code: `[c for c in cells if ...]` is
`Where(cells, LAMBDA c : ...)`, the elements `At` the positions that pass. It is defined by
position, so that what it returns can be proved; `SelectSeq` recurs over its list, and about
that there is no induction to cite.

**HearthShard** is one `ValueShard`. `cells` is the row list as a set whose members
carry their `seq`; `openSeqs` and `current` are `open_by_key` and `current`;
`clock` is `Hearth._clock`. A commit is as many steps as in the code: `Commit` (the
pipeline's path, rank 0 refused) or `Act` (a human SetProperty) stamps it, each cell
is applied by `ApplyWinning` or, when a row of higher precedence covers part of its
window, by `ApplyDeadOnArrival`; then `Save` or `SaveFails`. `Reopen` may come at
any point and rebuilds everything from the file. Residual rows get their
numbers in the order the code appends them (`SeqOfSlot`). Reads (`AsOf`, `Audit`,
`Winner`) are those of `hearth/read.py`. A commit that raises before it changes
anything is no step.

**BeliefMap** is what a shard promises, without rows, intervals or files: a map from
key and point of world time to at most one believed fact, overridden by a write that
nothing on its window beats, and a durable copy. `HearthShard!ImplementsBeliefMap`
is the refinement; dead-on-arrival writes, index rebuilds and failed saves are
stutters of it.

**HearthLinks** has several `LinkShard`s of one predicate, because the adjacency index
is shared: its count is kept by +1/-1 and must survive two shards that assert the
same triple. `Rewrite` is what happens to the rows and the open list, `Recount` to the
count: a link takes out what it closes and puts in what it appends (`ApplyLink`), an unlink
takes one out and never puts in what it re-asserts. Of the value shards it keeps what links see of them, the clock and the
newest stamp in their file. `Reopen` loads the links but takes the clock from the
values only, as `discover` does; `Migrate` is export and import, whose floor ranges
over both. `Traverse` is the breadth-first search of `traverse`, over the index and
over the rows.

**CdcTabular** is one source through its ingests: `Pull` reads a table and diffs it,
`Register` adds its atoms, `OpenFile`/`FillFile`/`KeepFile` write the mirror file under
the hash of its content, `AppendLine` the manifest, `Persist` the connector state, and
`Stop` ends the process between any two of these. An atom is content-addressed and so
is the triple it is the address of. A table has a key column and, in some cycles, a
value column, and `Tables` are those that the source may hold. The suffix of a repeated row
is written after its key (`Numbered`), so a key text can be what another key's second row is
called (`Clash`); the index of rows then keeps the last of the two, as the dict does. The
streaming connector's diff is a second operator, compared with the first.

**Playground** has a worker thread per build, the handlers of the server, and a client
per build. Handlers are `async def` without an await inside, so they run one at a time;
workers move between any two of their steps. Only the poll is more than one step: the
job's lock is taken for the status, then the log's for the events (`PollStatus`,
`PollEvents`, and `Receive` in the client). `Report` stands for every event of
a stage; `Edit` for engineer_apply and engineer_undo; `Restart` ends the process, loses
the job store and comes back on the base project. The client is the page of `datamap.js`:
`pollBuild` asks for all events every time and queues those above the highest number it has
got (`Receive`, `Queued`); an animation frame draws the first few of the queue and asks for
the next one (`Draw`); 400 ms after a reply that says the build is over, or on an error,
`finishBuild` drops what is still queued (`Leave`, `PollGone`); and the 8-second watchdog does
the same while the poll goes on (`Watchdog`). `finishBuild` cancels the frame but does not
reset `revealRaf`, so that no other frame is asked for: the frame is "lost". `got`, `drawn`
and `queue` keep these apart.

**StrataLattice** is the formal context and the concepts. `Induce` builds the lattice from
a context, `Insert` adds one candidate with the update of `insert_object`: touched
concepts grow, and new ones appear at intersections of intents. Attributes are numbered
in the order of their names; hubs are the candidates with `bypass_sigma`. Candidates that
the hub review discards do not reach the lattice. `induce` runs once: a second
call replaces everything and reaches the same states.

**StrataEnumeration** is how the closed extents are found: clarified and reduced
attributes, and Close-by-One with its pruning and canonicity test.

**StrataAdmission** adds the pass of `AdmissionEngine.process`: concepts are decided one
by one, supersets first (`AdmitNext`), each from its features, which include what is
admitted above it in this pass. The T0 rule refuses weak concepts that are not
protected; above T0 any outcome is possible, the same for the same features, which is
what the cache of the engine relies on. `InsertDelta`, `InsertOne`, `Inserted` and
`Admitted` are `Strata.insert_delta`; `InsertRefused` is the call that meets a known
candidate id and leaves the lattice ahead of the admission. `Proposals` is
`diff_admissions`.

**Temper** is the evolution engine over one populated world. An operator of
`temper/ops.py` with its parameters is a record (`IsOperator` says which), and for each of
the seventeen there is a definition that gives the rewritten ontology, the
batches of cells its migration commits, and its inverse. Every rewriting adds or replaces
classes (`Plus`), removes them (`Minus`), or is the move of a property (`MovedProp`). `Effect` is
`TemperEngine.apply`: all of it (`Applied`), or an application that raises after any of
its batches (`Raised`) or when it is recorded (`Unrecorded`), whose committed cells
stay. `View` is `op_rewriter`, `Rewritten` composes the chain for a query of an
older snapshot, and `Execute` answers it from the cells, with hops, branches and
regrouping. `Propose` and `Undo` are the engineer service with its tokens. `said`
remembers what each version answered while it was live.

**TransformRuns** is the registry and the orchestrator. `Start` fixes the order, the
cone of a delta run and the plan, or refuses a clash of outputs or a cycle; then one
step visits each node (`ReuseOutput`, `SkipBlocked`, `MissingInput`, `ReuseMemo`,
`Execute`), and one more is taken by each failed attempt. `Execute` may fail after
its output is installed, when the ledger refuses the record (`Abort`, `Record`).
Contents of tables are terms over what a body reads, so two tables are equal when the
code's fingerprints are. The passes of `topo_order` and the loop of `plan` are functions
over stages (`TopoOrder`, `Planned`); the worklist of `affected_transforms` ends with the
least set that has all consumers of its own outputs, and `Affected` is that set.

**IncrementalER** is one kind of entity, operators or aircraft: the batch run, then
`AddMentions`, which groups mentions into nodes (those of operators by name, while every
aircraft mention is a node: `NodeOf`), lists them for the sorted neighbourhood (`snmKeys`: an
operator's name once, an aircraft at every call that is given its mention), asks the blocking passes for the pairs they bring
up (`CandidatePairsFor`), judges them one by one (`Judge`, or `JudgeRaises`, which ends
the call with the blocker already ahead) and re-clusters the touched clusters
(`Settle`: `KwikCluster`, then the anchor protocol in `Assigned`). `Stages` is the pivot
loop, a function from how many nodes of the pivot order have been visited to the clusters
so far. The judgement on a pair is any outcome and made once.

**HumanActions** is the write path of people next to that of the pipeline. An Action is
`Begin` (its atom is registered), `AppendEvidence`, and `Write` or `Refuse`. It keeps
the system-open rows in the order in which they were appended, because that order
decides between equal rows when a question gives no point in time (`Ever`).

**Asks** puts LODESTONE over HumanActions: `Ask` consults the flywheel, which serves an
earlier answer if the atoms its plan cites are the same (`Hit`), and otherwise executes
the candidates as `Lodestone.ask` does: abstention, soft coverage, the ambiguous
case with the readings that hold data (`Viable`), or the ranking with repair. An answer
with a hop or an aggregate is written back. `Choose` settles the one clarification
that may be pending.

### How the components meet

- The store's clock and rows are shared by values and links (`HearthLinks` keeps the
  stamps of value files; `HumanActions` has values and links under one clock).
- `HumanActions` is instantiated inside `Asks` by EXTENDS: the data of a question moves
  under the cache by every step of the write path.
- `StrataAdmission` extends `StrataLattice` and uses its induction and insertion as they are.
- `Playground` has the flips, caches and edits of the world; what an edit does to the
  ontology is `Temper`.

## 3. The runs

| Run | Question | Bounds and why they suffice | States |
|---|---|---|---|
| `HearthShard` | Do indexes, disjointness, settled and frozen beliefs and human precedence hold under every interleaving of writes, failed saves and crashes? | one key, as keys do not interact within a shard; five windows that nest, overlap on both sides, touch and stay open; ranks 0 and 1 with two confidences so that all three survivorship rules decide; commits are admitted up to three rows, and the last may add more, so residuals of residuals occur | 286 k |
| `HearthShardRefinement` | Does the shard implement BeliefMap? | two keys, two values and commits of two cells, of one key or two | 36 k |
| `HearthLinks` | Do counts, open lists and disjointness survive two shards of one predicate, is the past frozen, do both traversals reach what they should? | two shards, the chain a -> b -> c so that an edge may be in both and a path crosses shards; for each edge an open window and another, of one instant or from the last instant on (FOREVER is 4, the bounds are below it); unlinks, failed saves, reopening, import | 435 k |
| `CdcTabular` | Do delta stream, ledger and mirror agree over cycles and interrupted ingests, and the two connectors with each other? | tables of up to two rows with repeated and keyless rows and a column that comes and goes, and of three in which the key text "a~2" stands before, between and after two rows "a"; two cycles, one interruption at any step | 376 k |
| `Playground` | Is the world that is read one that was built, what is a watcher given, what does it draw and what does it skip, and does everything end? | two builds that race, one watched; a log of two events below the number a build emits, so that it drops; one event drawn per frame, so that a queue is left over; one edit | 319 k |
| `StrataLattice` | Is the lattice always the iceberg of its context, and is the enumeration complete? | every context of up to four candidates over three attributes, both thresholds, any hubs, induced at once, inserted one by one, or both; with three attributes every shape of reduction occurs (equal extents, an extent that is an intersection of two) | 10.8 k (modulo symmetry) |
| `StrataAdmission` | Are merge targets current and nearest, does what is admitted add something, and do the proposals add up? | three candidates; deltas that close an intersection, bring a new attribute, repeat a known id in the middle, or take a concept over the threshold; any outcome above T0 | 70 k |
| `Temper` | Does any sequence of operators and undo tokens leave a closed ontology, keep old queries answered, and undo exactly, with one application that raises? | two base worlds, one with a parent and two children that share a property name, one flat; three operators, so that a view is composed with two others or with an undo of its own; 31 operators on the menu, and their inverses by token | 170 k |
| `TransformRuns` | Are results exact, materialisations settled after exact runs, failures isolated and the plan honoured? | a chain of three transforms with a join, a second version that ignores its input, a version that closes a cycle or clashes; three registrations and three runs, full or delta, without and with one retry; one edit of a source between runs and one fault at any node | 309 k |
| `IncrementalER` | Do clusters stay a partition with stable URIs, does blocking miss no pair, are other clusters left alone? | five mentions, of five aircraft or of four operator names, with shared tail numbers and a bucket; a batch and three calls with new and known mentions, one of which may raise; three pivot orders; window 3, so that a new node, or an old one that is listed again, may separate two neighbours | 996 k |
| `Asks` | Is every row backed by evidence, is every hit current, and does what is offered hold data? | a plane, two airports, three questions: a hop that needs repair, an ambiguous count, one softly covered; two writes of pipeline or people, with refusals, failed saves and restarts at any point | 93 k |
| `LastEdit` | Is the last human edit what a question without a point in time is answered with? *Violated.* | three writes of one property at instants up to 2 | - |

Each property is checked together with a mutant: a version of one definition, marked
"(a bug: ...)" where it stands, that a plausible slip in the code would give and
for which the property fails.

Symmetry is used where the modelled operators treat the set alike: values of a shard
are compared only for identity, link shards are symmetric, and candidates of the
lattice are only ever compared for equality. Attributes are not symmetric: their order
matters to the enumeration. No run with a liveness property uses symmetry. Deadlock
is checked in HEARTH, CDC, the playground and Asks. It is not in StrataLattice,
StrataAdmission, Temper, TransformRuns, IncrementalER and LastEdit, whose behaviours end
when the bounds on calls are reached.

Bounds in guards: `MaxTime`, `MaxRows`, `MaxBatch`, `MaxWrites` (HEARTH, Asks), `Tables`,
`MaxCycle`, `MaxStops` (CDC), `MaxFinds`, `MaxEdits` (playground), `MaxOps`, `MaxFailures`
(Temper), `MaxRegistrations`, `MaxRuns`, `MaxEdits`, `MaxFaults` (TransformRuns), `MaxCycles`,
`MaxFailures` (IncrementalER). `MaxDatasets`, `MaxEvents`, `RevealPerFrame` and `Window` are
limits of the code, made small.

## 4. Fairness

Only Playground states fairness. Worker threads run (`WF` of their steps, except that
nothing forces a build to fail), a handler that has started returns (`WF` of `PollEvents`),
its reply arrives (`WF` of `Receive`), and the timer of a page that leaves fires (`WF` of
`Leave`). Frames and the watchdog are owed to nobody: a hidden tab gets none. A client's poll is enabled only while the event
loop is free, again and again, so its fairness is strong (`SF` of `Watch`): the loop takes
requests in turn and does not pass over one for ever. Starting builds, asking, editing,
reloading and restarting are never forced. The other components are sequential
libraries whose caller may stop calling at any point; their models have no fairness
and claim no liveness.

## 5. What is proved

TLC checks every property on the instances of section 3. The theorems below hold for
every value of the constants that satisfies the named assumptions of the modules. Each
safety theorem has one shape: an invariant `XInv` with `Init => XInv`,
`XInv /\ [Next]_vars => XInv'` (a lemma for each action), and `XInv => property`. The
invariants say more than the properties do, and why they must is said here.

**HearthShard** (`HearthShard_proofs`), for any keys, values, windows, ranks and bounds.
`IInv` is about the rows of one state:

- `TypeCorrect`, `SeqStaysDense` (rows are numbered 0 .. n-1, so `load` never refuses what
  `save` wrote), `OpenCellsStayDisjoint`, `IndexesStayDerived`.
  No part is inductive alone. Disjointness needs the open index to be exact, because
  `Overlapping` is looked up there; the index needs numbers to be unique, because rows are
  found by number; numbering needs residuals to be counted (`RankBijection`: the k-th slot
  gets the k-th number); types need stamps to be bounded, because a row closed at the
  instant it was written ends one instant later. The central lemma is `WinningStep`:
  closing the overlapped rows and re-asserting their left and right pieces leaves the open
  rows of a key disjoint.

`HInv` adds how the rows came about. No row is stamped after the clock; the rows in memory
are those of the file, some of them closed since, and others no older than any of the file
(`Grown`); a human belief of the file is one in memory (`HumanHeld`).

- `ShardImplementsBeliefMap`: the refinement. The initial states map to the initial state of
  BeliefMap, and every step to `Assert`, `Persist`, `Restart` or a stutter.
- `BeliefIsSettled`, under the hypothesis `MaxTime + 2 < FOREVER`: one instant after the last
  stamp must still be an instant for an audit at it to be asked.
- `PastStaysFrozen` and `HumanEditsAlwaysStand`, action properties.

**HearthLinks** (`HearthLinks_proofs`), for any finite set of shards, any edges and windows.
`LInv` (`LinkInvariance`) joins typed rows with bounded stamps, disjoint open rows, in memory and
in the files, open lists that are exact, and counts that are but for the case below (`Counts`).

- `IndexStaysDerived`: an application bumps the count by what it closes and appends; that this is
  the change of the rebuilt count needs the hit list to name each open row once (`CountRewritten`).
  An unlink lowers the count by one and re-asserts the row up to now, or one instant after its start.
  A row from FOREVER - 1 on cannot end earlier than it did: it stays open, and the count is below
  a rebuild from then on. `HeldAtTheEnd` names the pairs that have such a row; of all others the
  count is exact, and of none is it ever above.
- `OpenLinksStayDisjoint`, `LinkPastStaysFrozen`.
- `TraverseAlwaysReaches`, for any finite set of nodes: the search visits what a walk of at most
  `depth` edges reaches. `Searched` is an explicit function for what each round has seen and its
  frontier; a round needs the neighbours of the frontier only, as those of older nodes have been seen.
  What the index links is what the rows link (`IndexedIsCurrent`), unless a pair is held at the end.

**CdcTabular** (`Dataflow_proofs`), for any keys, values, columns and bounds. `CInv`
(`CaptureInvariance`) says, for each place where an ingest may stop, how far ledger, files and manifest
have come.

- `StateStaysRegistered`, `MirrorStaysCurrent`. The second is the reason for `InFlight`: lines of
  the cycle in progress are ahead of the state until `Persist`, and may be repeated after a stop.
- `PullsAreExact`: `DeltasComplete` (the deltas turn the old snapshot into the new one) and
  `SupersessionExact`, for any pair of snapshots.
- `StreamingAlwaysAgrees`: the streaming connector reports all that the indexing one does, on any
  tables: the row that the index keeps is one that was streamed. If no two rows of different keys
  share a row key (`~Clash`), both report the same and no row is lost. Rows of one key are
  numbered apart (`RowsApart`), since a row is counted among those before it and different
  numbers are written differently (`NumbersAssumption`, which TLC evaluates).

**TransformRuns** (`Dataflow_proofs`), for any definitions whose bodies read inputs they declare, any
source tables and bounds. `TInv` (`TransformInvariant`) holds for runs that fail, are cut off by the
ledger or refused, and for any definitions and edits between them.

- `FailureStaysIsolated`: `NodeStatus` says of each node that it is skipped when a direct producer of
  an input failed or was skipped; the nearest failure is found by induction on the place in the
  order. That `topo_order` has each node behind those it needs, and all of them unless there is a
  cycle, is `OrderSorted`.
- `OutputsStaySettled` and `ResultsAlwaysExact`. A full run is the limit of applying all transforms to
  all tables (`Evaluated`); that it satisfies the equation of each transform is `FullRunEquations`: after n
  applications the first n nodes of the order have reached their value. A visited node computes that
  value because its inputs have theirs (`VisitExact`), the memo because its key has the contents of
  the inputs (`MemoSound`). A node outside the cone has the value of the last exact run; it is the
  value of this run too because what it depends on has not changed, is not dirty and was made by
  the same definition (`OutsideExact`, which needs the cone to be closed under consumers). Between exact
  runs every table that a run visits is dirty until the next exact run (`SettledInv`).
- `PlanAlwaysHonoured`, under the hypothesis `NoSourceMade`: no transform makes a table of a name the
  caller passes. The plan knows tables by name. A node it could not foresee may then replace a table that
  it has counted on, and a node planned from the memo is executed: TLC finds this when "d" is passed as a
  source in the instance of the run. The other three theorems need no such hypothesis. The invariant
  carries the tables as the plan foresaw them, and as long as they are right the memo still has the
  keys, because it only grows (`PlanOnward`).

**Playground** (`Playground_proofs`), for any number of builds and watchers and any bounds.
`PInv` (`BuildInvariance`) ties the place of a worker to the status shown and to the disk (`Stage`),
says that a log holds the last numbers given out (`LogShape`), and that a client has no gap
below what it has got or been sent, as far as the log still goes back (`ClientSound`), and that
what it has drawn and queues is of what it got, in order (`PageSound`).

- `AlwaysReadsBuiltWorld`, `WatcherAlwaysServed`. The second says what a watcher is given, the
  whole tail of the log when it leaves a finished build, and what it makes of it: nothing twice or
  out of order, and nothing skipped until a frame is cancelled. That everything is drawn before the
  page leaves is not so (section 6, `QueueDrained`). A poll reads the status before the events: the
  invariant must hold between these two steps, where the worker may emit and conclude
  (`PollSound`).

**STRATA** (`Ontology_proofs`), for any finite set of candidates, any attributes, starts and deltas, and
the thresholds 1 and 2.

- `LatticeStaysIceberg` and `TypeCorrect`: what the header of `strata/incremental.py` calls provably
  complete. The invariant is split into `Sound` (every concept is a kept closed extent with its
  intent) and `Complete` (every kept closed extent has a concept). A kept concept of the grown
  context without the new object g was kept before. One with g has the extent S + g. If S alone
  reached the threshold or was a hub's, its closure was a concept, and the new intent is that
  intent cut down to the attributes of g; otherwise S has at most one object, and the intent is the
  attributes of g or of g and that one object. All are among the candidate intents. This is
  where the thresholds enter (`KeptNonempty`, `BelowThreshold`).
- `EnumerationAlwaysComplete`: Close-by-One over the reduced attributes finds exactly the closed
  extents above the threshold. Dropping an attribute is harmless because every extent is still an
  intersection of those that are left (`ReducedSeparate`, by a largest extent that avoids an
  object). A closed extent A inside E is found by the first attribute that A has and E lacks
  (`EnumerationFinds`): cutting E by it passes pruning, since A does, and the canonicity test, since
  what newly appears belongs to A.
- `FacadeRefinesLattice` (`AdmissionSpec => Spec`) and with it `LatticeHolds` at every step of a pass.
- `TargetsStayNearest`, `AdmittedAlwaysAdds`, `ProposalsAlwaysReplay`, from `AInv`
  (`AdmissionInvariance`). What is decided in a pass stays justified because larger
  concepts are decided first and the lattice stands still until the pass ends.

**TEMPER** (`Ontology_proofs`), for any menu of operators, any populated ontologies to begin with,
and any bounds. `BasesAssumption` asks of a base only what the theorems then keep: it is an
ontology and is closed, the names of a class are apart, and its cells are well formed.
`MenuAssumption` gives every operator the fields of its kind with any texts in them.
`TextsAssumption` is there because the prover does not see that a literal is a string.

- `TemperInvariant`: `TemperSpec => []TemperInv`. The invariant speaks of every retained version,
  and of the undo tokens in the log: a token is applied like any operator of the menu, and
  must have the fields of one. One lemma for each operator says what it rewrites an
  ontology to, from any that fits (`AddClassRewrites` to `MergeRewrites`); one for each says
  that its migration commits well-formed cells and that its inverse is an operator
  (`AddClassKeeps` to `MergeClassesKeeps`). `EffectKeeps` and `AppliedKeeps` carry this
  through the engine once for all operators.
- `OntologyStaysClosed`: no parent and no range dangles in any version. The preconditions
  about children and inbound ranges are what this rests on; a demotion removes the only
  range that pointed to its class together with it. That names stay apart is stated but for
  `Collided`: see `Temper!AlwaysUndone` below.
- `UndoRestoresOntology`, the half of `UndoRestores` about the ontology: a token used at once brings
  back the version it was given out over, after any history. `Took` says of each operator, in terms
  of ontologies alone, what its two versions and its inverse have to do with each other; `LogTook`,
  a part of `TemperInv`, says that every entry of the log is one of these. One lemma for each
  operator (`AddClassUndone` to `DemoteUndone`, joined in `TakenBack`) then takes an operator and
  its inverse together, down to the order of properties and facets (`PutAndTaken`, `TakenAndPut`).
  `Irreversible` names what no inverse brings back (section 7, *Temper*).
- `FailureStaysInvisible`, the action property: an application that raises between two of its
  batches leaves every answer as it was. Eleven operators commit nothing. Split, merge and the
  first batch of a promotion write to classes that the ontology does not have yet, and
  `Specialize` adds a mark to entities that are there already and stay there (`Harmless`,
  `SameAnswers`). Conversions in place, and an application that is cut off after its view is
  registered, are the exceptions the property states (`torn`).

**Asks and HumanActions** (`Asks_proofs`), for any facts, links, operations, questions and bounds.

- `RowsStayEvidenced`, from `EInv` (`EditInvariance`): in memory and in the files every atom a row
  cites is registered, and that of a human edit has its artifact in the ledger. Of the Action in
  progress only the atom is registered while its artifact may still be missing, and so no row may
  cite it yet. Neither a restart nor a refusal leaves a row without evidence.
- `QuestionsOnlyRead` (`Spec` of Asks implies `EditSpec`, the write path alone) and with it
  `AnswersStayEvidenced`.
- `OptionsAlwaysHold`.
- `HitsStayCurrent`: what the cache serves is what its plan would yield now, under the hypothesis
  `ReadsApart`. No history is needed: every row holds what its atom tells (`Tells`, part of
  `EInv`), so the rows of an answer can be computed from the atoms it cites and its plan
  (`Told`, `ExecutedTold`), whatever the level of repair; a version keeps its rows and its
  atoms, and equal atoms then mean equal rows. `FactsAssumption` (a property is no entity) and
  `ObjectsAssumption` (an object is written for one entity) say that an atom tells facts of one
  entity, or one pair. The hypothesis is that no Action writes at once what a plan selects an
  entity by and what it shows of it, which a plan can only read where a link leads back into the
  class it started from. Without it the claim is false (section 7, *Asks*).

**IncrementalER** (`IncrementalER_proofs`), for either kind, any mentions, names, windows, pivot orders and inputs,
any judgements and any calls that raise. `RInv` (`ResolutionInvariance`) says that groups belong to
one node each, what the lookup tables say of every cluster, and where a mention without
a cluster or a pair without a judgement may come from: the call in progress, or one that
raised and was not repeated.

- `ClustersAlwaysPartition`, `PivotAlwaysJoinsAll`, and the action properties `OthersStayUntouched`
  and `UrisStayHeld`. Clusters that are taken up and those that are left share no mention, because
  their nodes differ and a mention is of one node; without that, one URI might be given twice.
- `BlockingAlwaysCovers`: the delta passes miss no pair that the blocker, asked as it stands,
  would put before a batch. A later entry in the sorted keys may part two neighbours but never
  bring two together (`FewerBetween`), so a pair that an earlier call had no reason to judge has
  none now unless this call touches one of the two. The pairs of a batch over the same mentions
  are those if every node is listed once: always for operators, and for aircraft while no mention
  is given twice (`AsTheBatchWould`, section 6, is what fails then).

Recursion is no obstacle where it is written as a function over numbers or sets: the function is shown
to exist by a witness, and a property of it by its least counterexample. `StagesOf` and
`StageInduction` in `Subsequences_proofs` say this once for every loop with a number of rounds
(`EvaluatedStages`, `ProcessIs`, `TraverseSees` are uses of the same idea). Modules with theorems use no RECURSIVE operator.

Only model-checked:

- liveness: `BuiltTakesOver` and `WatchersLeave`. Fairness and ENABLED are beyond the prover.
- `SnapshotQueryable` of Temper, and the half of `UndoRestores` about answers. They hold for the menus
  of section 7: an operator outside them reaches a known limit, a property that shares the storage
  key of another, an alignment of two properties to one. A theorem would need
  these conditions as a hypothesis about all histories of the cells.

Slips that came to light while proving, and were corrected: `UNION S \ T` is
`UNION (S \ T)`, so that the breadth-first frontier of `Widen` kept what had been seen; the
calls of TransformRuns, meant to leave out the empty set of changed tables, had it (the code
accepts it). `NamesApart` of Temper was no invariant: a rename followed by a `Specialize` gives
a class two properties of one name. The model's menu had left that out; it has it now.
`UndoRestores` of Temper was false beyond the menu, for facets that name an inherited property
and for a class that has come to hold more than its value before it is demoted; the exceptions are
now part of the property (`Irreversible`), and the menu has such a facet.

## 6. Findings

| Run | What the code does | What is said |
|---|---|---|
| `LastEdit` | the left piece of a row that an edit closes is appended after the new row, with the same stamp; a question without a point in time counts every system-open row and takes the later one at equal rank, confidence and stamp, so after two edits at different instants it answers with the old value (`hearth/store.py:334`, `lodestone/lower.py:111-128`) | `hearth/README.md:111-112`: "a later human action supersedes an earlier one" |

Further claims of the repository that the models refute. Each is a definition at the end
of its module, and TLC shows a counterexample when it is added to the INVARIANTS of the
configuration named:

| Claim | Configuration | What the code does | What is said |
|---|---|---|---|
| `HearthLinks!IndexDisposable` | `HearthLinks` | an unlink takes a link out of the count and never puts in the row it re-asserts (`hearth/links.py:304`); a row from the last instant on is still open then, and a rebuild counts it | `hearth/links.py:196`: "the proof the index is derived and disposable" |
| `CdcTabular!EveryRowKept` | `CdcTabular` | "~" is not quoted in a key (`cdc/tabular.py:170`), so a key text "a~2" is what the second row of key "a" is called (`cdc/tabular.py:180`), and one of the two rows is lost | `cdc/tabular.py:23`: duplicate rows "are disambiguated"; `cdc/tabular.py:194`: "failing loudly beats silent data loss" |
| `CdcTabular!ManifestReadable` | `CdcTabular` | a mirror file cut off while it is written keeps its final name and is never rewritten (`cdc/ingest.py:64`) | `cdc/ingest.py:18`: "content-addressed Parquet" |
| `Playground!SelectionIsBuilt` | `Playground` | the selection is recorded when a build is requested; after one that fails, an "add" build starts from what was never built | `server/world.py:555`: "unions against everything actually built" |
| `Playground!AnswersReflectEdits` | `Playground` | an edit drops the ontology, engine and search index but not the answer cache | `server/world.py:702`: "so the next read reflects the edit" |
| `Playground!QueueDrained` | `Playground` | the page turns to the finished map 400 ms after the last reply, drawn or not: `finishBuild` empties the queue (`datamap.js:317`) | `datamap.js:303`: "drain the queue, then resolve to the final interactive map" |
| `StrataLattice!StabilityIsFresh` | `StrataLattice` | a concept whose extent did not grow keeps a stability that counted the empty subset under fewer attributes | `strata/incremental.py:118`: "stability depends on the extent" |
| `Temper!AlwaysQueryable` | `Temper` | the views are blind to some operators, listed under known limits and named by `Blind` | `temper/README.md`: "100% snapshot-queryability preservation" |
| `Temper!AlwaysUndone` | `Temper` | `Specialize` does not look whether the child has a property of that name (`temper/ops.py:668`; `AddProperty` and `Generalize` look), and a rename may have put one there; the undo then removes both (`temper/ops.py:647`) | `engineer/operators.py:832`: "exact TEMPER undo"; `temper/README.md:60`: "Generalize↔Specialize (retained positions)" |
| `IncrementalER!AsTheBatchWould` | `IncrementalER` | an aircraft whose mention is given again is listed again in the sorted keys (`er/blocking.py:236-239`, 258), and two nodes around it fall out of the window that a batch over the same mentions would have compared them in | `er/incremental.py:5-7`: "the SAME blocking structures the batch run built" |
| `IncrementalER!ChurnGate` | `IncrementalER` | a re-clustering may give several mentions of one entity another URI in one cycle | `er/incremental.py:15`: "the gate is <= 1 URI change per affected entity per cycle" |

## 7. What is not modelled

- Values, names, typing, formatting and statistics: they are model values, or absent.
- Rejected calls that change nothing.
- Two processes on one store: the code has no protocol for it.
- In HEARTH: typed mirror columns, the creation of a shard's directory, more than one class
  per value store (shards share nothing but the clock, which HearthLinks has), the SHACL
  checks that refuse an Action before anything is done.
- In CDC: one key column, up to two columns; documents, SQL and object stores.
- In the playground: pure reads, exports and the drawing; a second build watched in the
  same view; parsing of commands and previews.
- In STRATA: candidate generation, synonym clustering, the review of hubs, naming and
  emission; the cover links, which are recomputed from the extents every time; the bypass
  flag of a concept, which nothing reads; the sampled stability of extents above twelve
  objects.
- In TEMPER: filters of queries, datatype casts, the replay of the ledger into a new engine.
- In the transforms: SQL validation and lineage, adapters to the store.
- In ER: similarity, EM weights and their bootstrap: a pair is judged in any way.
- In LODESTONE: grounding, planning and typing, given as the candidates of a question.
- Of the ledger: interned provenance terms, invalidation, cost.

The larger part of the repository by lines is not state at all: estates and fixtures, the
pure stages of the pipeline and of profiling, response schemas and read views of the server,
drawing code, prompts. A model of it would restate it, with no step in it that could go
wrong between two others; this is why the share of source lines that the modules stand for
is low (about a tenth) although the parts above that keep state are covered, except for the
decision spine, criticality, the decision gate and the tenant priors, whose state is
real-valued.

### Known limits

States or inputs that a model leaves out because the code does not keep its promise there,
or where the promise had to be stated with an exception.

*HearthLinks.* The clock floor of a reopened store ranges over value rows only
(`hearth/links.py:138`), so links may be stamped before links already on disk, against
`hearth/README.md:54`, "`now` may never run backwards". The model reopens as the code does,
and its properties do not assume monotone stamps. `AdjacencyIsDerived` and `TraverseReaches`
except pairs with a row from the last instant on (`HeldAtTheEnd`; section 6, `IndexDisposable`).

*CdcTabular.* A key text that ends like a disambiguated row key shares a row key with a row of
another key (`Clash`; section 6, `EveryRowKept`). `StreamingAgrees` promises less then: the
streaming connector, which reports both rows under one key, reports more than the other.

*Playground.* Every build has a page of its own. The real page is shared by the builds that are
started from it one after the other: it counts the events from anew, but `revealRaf` stays set when
a frame was cancelled, and the next build then draws nothing at all. An event
without a number counts as new each time; those of the model all have one, as the log's do.

*StrataLattice.* With a threshold above 2 insertion is incomplete, as
`strata/incremental.py` says; `SigmasAssumption` excludes it.

*StrataAdmission.* `admission.process` applies outcomes that the spine has quarantined or
deferred: it never looks at `auto_decided`, as `er/cascade.py:254`, `temper/apply.py:163`,
`anvil/acceptance.py:112` and `warden/routing.py:189` do. One of the features is support over
the number of objects, so every insertion decides every concept again, although the docstring
says only those whose evidence changed. A merge whose target changes gives no proposal.

*Temper.* `Blind` names where a view cannot say what an operator did: a conversion or
promotion below the class that is asked, a regrouped view after which the owner is converted,
split or merged, a merge into or out of an extent above the class, a link read raw after a
demotion. `Irreversible` names what an undo does not bring back. The inverse of a merge gives both
parts the properties and parents of the first, and so restores only classes that were alike. A
property specialized onto another of its name takes it along (`Collides`). A facet may
constrain an inherited property: a property renamed to that name takes the facet with it
when it is renamed back (`temper/ops.py:355-359`), one that is added takes it when it is dropped, a facet
of a name that has one already is not told from it when it is retired, and one whose property the class
does not have is doubled when the class is split and merged. A class that is demoted
returns with its name and its value only (`temper/ops.py:920-929`), and the link without its unit.
`CleanShards` leaves out classes
made under a URI whose shard still has cells of an earlier class. `torn` excepts states after
a conversion that raised between two of its batches: a retry converts the first batch twice.
The menu leaves out: renaming a property and adding one with the old name (they share a storage
key); alignments that map two properties to one; conversions that lose precision (`linear` on
INTEGER, `float_to_int`). A record that the ledger refuses leaves its view on the chain, which
the model has (`Unrecorded`).

*TransformRuns.* A delta run after a transform outside its cone was registered anew keeps the
output of the old version; a changed table that is itself the output of a transform is
overwritten by the old materialisation. `run.covers` and `OutputsSettled` are stated for callers
that name every difference. A plan may promise memo hits that do not come when the caller passes a
table that a transform makes (section 5, `NoSourceMade`).

*IncrementalER.* Local re-clustering may leave two clusters with an accepted edge between
them. After a call that raised, the repeated call does not look again at pairs it has decided,
so an accepted edge may not lead to a merge. A mention corrected to a new name stays in the node
of the old one as well (`NameOf` is constant, and so is `TailOf`). What an aircraft given again adds to
the tail blocks and buckets is what they hold; only in the sorted keys does a second entry count,
and there `BlockingCovers` speaks of the entries as they are. A URI that was retired may be minted again.

*Asks and HumanActions.* A hit may be out of date where a link leads back into the class that is
asked: the atom of a CreateObject is of all its properties (`hearth/actions.py:254`), and the
fingerprint is the set of atoms (`discovery/cached_work.py:209`). Let e be linked to itself, and a
plan select it by one property and show another. Two CreateObjects of e, at 1 and at 3, write
both; then edits of one past or future window each bring the older or the newer row of one
property to the front. The answer cites both atoms when selected by the older and shown from the newer,
and still does after the two have changed places. TLC finds this with that instance
and those five Actions, against `discovery/cached_work.py:29`; the run `Asks` has no link back
into a class, and `HitsStayCurrent` has the hypothesis `ReadsApart`. An answer that was given because ambiguous readings agreed is served
from the cache after they have come to disagree (`lodestone/__init__.py:113-115`). A retracted
link stays visible to a question without a point in time. `normalize_question` gives "from A to
B" and "from B to A" one key; the model's questions have keys of their own. `world.clarify`
asks the question again, so after a write the index of a choice may name another option. The
answer cache of the server is not invalidated by edits of the store. Evidence of an Action that
was refused or not saved stays in the ledger; `Evidenced` states the other direction.

*Not modelled, met on the way.* Criticality keeps the graph of the old world under a key that
a rebuild does not change, and its lazy scores of untouched elements go stale when the busiest
element moves (`criticality/recompute.py:132`).

## 8. Plan

The components that keep discrete state are modelled, and of most the safety properties are
proved. What is left:

- Temper: `SnapshotQueryable` and the answers of `UndoRestores`, once the conditions under which
  they hold are stated for a menu as a whole and no longer by leaving operators out.
- Asks: atoms that tell the fact they were read from would make `HitIsCurrent` hold without a
  hypothesis. That is a change of the code, not of the model.
