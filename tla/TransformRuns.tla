---------------------------- MODULE TransformRuns ----------------------------
(***************************************************************************)
(* The transform registry and the orchestrator that runs its DAG           *)
(* (transforms/registry.py, orchestrator.py, delta.py, fingerprints.py).   *)
(*                                                                         *)
(* A transform is its definition: a name, its input tables, its output     *)
(* table, a body, and the inputs the body really reads.  The definition    *)
(* without `reads' (which the body fixes) is its fingerprint.  A           *)
(* table's content is a value of the source, or the body applied to the    *)
(* contents it reads: content is compared, as fingerprint_dataframe does,  *)
(* and not identity, so an input the body ignores does not change it.      *)
(* A run is one step for each node of the order, and one for each attempt  *)
(* that fails.                                                             *)
(***************************************************************************)
EXTENDS Naturals, Sequences, FiniteSets, Functions

CONSTANTS
  Transforms,    \* the definitions that may be registered
  Sources,       \* the tables the caller passes to run
  Retries,       \* values of the argument `retries'
  MaxRegistrations,  \* calls of register
  MaxRuns,       \* calls of run
  MaxEdits,      \* changes of a source table between runs
  MaxFaults      \* attempts that fail, records the ledger refuses

ASSUME TransformsAssumption == \A d \in Transforms : d.reads \subseteq d.inputs
ASSUME RetriesAssumption == Retries \subseteq Nat
ASSUME BoundsAssumption == {MaxRegistrations, MaxRuns, MaxEdits, MaxFaults} \subseteq Nat

VARIABLES
  known,      \* TransformRegistry._by_fp
  active,     \* _latest_fp_by_name: the latest definition of each name, in order
  memo,       \* Orchestrator._memo
  outputs,    \* Orchestrator._outputs
  source,     \* the caller's tables
  run,        \* the call of run in progress or the one that ended last
  registrations, starts, edits, faults,   \* counters for the bounds
  settled,    \* history: the tables and definitions of the last exact run
  dirty       \* history: transforms visited by runs since

transformVars == <<known, active, memo, outputs, source, run, registrations, starts, edits, faults, settled, dirty>>
registry == <<known, active, registrations>>
history == <<settled, dirty>>

\* changed_tables: none for a full run, or the set a delta run is given.
FullRun == <<>>
TableNames == Sources \cup {d.output : d \in Transforms}

\* A table by that name is put into the dictionary.
With(tables, name, content) ==
  [t \in DOMAIN tables \cup {name} |-> IF t = name THEN content ELSE tables[t]]

\* What the body of d computes from the tables.
Applied(d, tables) == <<d.body, Restrict(tables, d.reads)>>
Idle == [state |-> "idle"]

-----------------------------------------------------------------------------
(* The DAG of the active transforms.                                       *)

Active == Range(active)
Upstream(d) == {e \in Active : e.output \in d.inputs}

\* dag: no two active transforms have one output.
OutputsClash == \E d, e \in Active : d # e /\ d.output = e.output

\* topo_order comes to d: it joins the order once all that it needs has.
Joined(order, d) ==
  IF d \notin Range(order) /\ Upstream(d) \subseteq Range(order) THEN Append(order, d) ELSE order
\* One pass over the pending transforms, in registration order.
TopoPass(order) ==
  LET passed[i \in 0..Len(active)] == IF i = 0 THEN order ELSE Joined(passed[i - 1], active[i])
  IN passed[Len(active)]
\* All of the passes; a cycle leaves some transform out.
TopoOrder ==
  LET after[n \in 0..Len(active)] == IF n = 0 THEN <<>> ELSE TopoPass(after[n - 1])
  IN after[Len(active)]
Cyclic == Len(TopoOrder) < Len(active)

\* (a bug: only the direct consumers of a changed table)
AffectedDirectly(changed) == {d \in Active : d.inputs \cap changed # {}}
\* A set of transforms that has all consumers of the changed tables and of the
\* outputs of its own.
ClosedCone(S, changed) ==
  \A d \in Active : d.inputs \cap (changed \cup {e.output : e \in S}) # {} => d \in S
\* affected_transforms: the closure of the consumers of the changed tables.
Affected(changed) ==
  {d \in Active : \A S \in SUBSET Active : ClosedCone(S, changed) => d \in S}

\* (a bug: the key is the fingerprint and the names of the inputs)
MemoKeyByBody(d, tables) == <<d, d.inputs>>
\* memo_key: the transform's fingerprint and its inputs' contents.
MemoKey(d, tables) == <<d, Restrict(tables, d.inputs)>>

-----------------------------------------------------------------------------
(* The registry.                                                           *)

\* _latest_fp_by_name[name] = fp, which keeps the place of a known name.
Latest(d) ==
  IF \E i \in DOMAIN active : active[i].name = d.name
  THEN [i \in DOMAIN active |-> IF active[i].name = d.name THEN d ELSE active[i]]
  ELSE Append(active, d)

\* register, which keeps every definition it has seen; a known one only becomes
\* the latest of its name again.
RegisterTransform(d) ==
  /\ run.state # "running" /\ registrations < MaxRegistrations
  /\ registrations' = registrations + 1
  /\ active' = Latest(d)
  /\ known' = known \cup {d}
  /\ run' = Idle
  /\ UNCHANGED <<memo, outputs, source, starts, edits, faults, history>>

-----------------------------------------------------------------------------
(* plan: what run will do, as far as it is known before any node has run.  *)

\* (a bug: a node whose upstream must still run is looked up as it stands)
PlannedStale(order, tables, cone) ==
  LET stale == [t \in DOMAIN tables \cup DOMAIN outputs |->
                  IF t \in DOMAIN tables THEN tables[t] ELSE outputs[t]]
  IN [i \in DOMAIN order |->
        IF order[i] \notin cone THEN "outside-delta"
        ELSE IF order[i].inputs \subseteq DOMAIN stale /\ MemoKey(order[i], stale) \in DOMAIN memo
        THEN "memo" ELSE "execute"]
\* The inputs of d are known, and so is what it makes of them.
Provable(d, tables) == d.inputs \subseteq DOMAIN tables /\ MemoKey(d, tables) \in DOMAIN memo
Planned(order, tables, cone) ==
  LET foreseen[i \in 0..Len(order)] ==
        IF i = 0 THEN tables
        ELSE LET d == order[i]
                 before == foreseen[i - 1]
             IN IF d \in cone /\ Provable(d, before)
                THEN With(before, d.output, memo[MemoKey(d, before)]) ELSE before
  IN [i \in 1..Len(order) |->
        IF order[i] \notin cone THEN "outside-delta"
        ELSE IF Provable(order[i], foreseen[i - 1]) THEN "memo" ELSE "execute"]

-----------------------------------------------------------------------------
(* What the caller of a delta run must see to: every difference from the   *)
(* last exact run, and everything visited since, is in the cone.           *)

Covers(changed, cone) ==
  \/ changed = FullRun
  \/ /\ settled # <<>>
     /\ {t \in Sources : source[t] # settled[1].given[t]} \subseteq changed[1]
     /\ Active \ settled[1].active \subseteq cone
     /\ {d.output : d \in settled[1].active \ Active} \cup dirty \subseteq {d.output : d \in cone}

-----------------------------------------------------------------------------
(* run.                                                                    *)

\* The call, up to its loop. An invalid DAG is refused.
Start(changed, retries) ==
  /\ run.state # "running"
  /\ starts < MaxRuns
  /\ starts' = starts + 1
  /\ LET cone == IF changed = FullRun THEN Active ELSE Affected(changed[1])
     IN run' = IF OutputsClash \/ Cyclic
               THEN [state |-> "refused"]
               ELSE [state |-> "running", order |-> TopoOrder, delta |-> changed # FullRun,
                     changed |-> changed, cone |-> cone, given |-> source, tables |-> source,
                     retries |-> retries, attempt |-> 0,
                     failed |-> {}, outs |-> <<>>, status |-> <<>>,
                     plan |-> Planned(TopoOrder, source, cone),
                     covers |-> Covers(changed, cone)]
  /\ dirty' = IF run'.state = "refused" THEN dirty ELSE dirty \cup {d.output : d \in run'.cone}
  /\ UNCHANGED <<registry, memo, outputs, source, edits, faults, settled>>

Running == run.state = "running" /\ Len(run.status) < Len(run.order)
Node == run.order[Len(run.status) + 1]
\* The node has its turn: it is in the cone, and so is every attempt at it.
Visiting == Running /\ Node \in run.cone
Blocked == Node.inputs \cap run.failed # {}
Complete == Node.inputs \subseteq DOMAIN run.tables
Key == MemoKey(Node, run.tables)

Abort == run' = [state |-> "aborted"]

\* A node outside the cone keeps its last materialization, and the run stops
\* when there is none.
ReuseOutput ==
  /\ Running /\ Node \notin run.cone
  /\ IF Node.output \in DOMAIN outputs
     THEN run' = [run EXCEPT !.tables = With(@, Node.output, outputs[Node.output]),
                             !.status = Append(@, "outside-delta")]
     ELSE Abort
  /\ UNCHANGED <<registry, memo, outputs, starts, source, edits, faults, history>>

\* _record: the run's record is appended after the tables are changed, and a
\* ledger that raises ends the run there.
Record(after) ==
  \/ run' = after /\ UNCHANGED faults
  \/ faults < MaxFaults /\ faults' = faults + 1 /\ Abort

\* (a bug: the node's last output stands in for it, and its consumers run)
MarkedFailedStale(status) ==
  [run EXCEPT !.tables = IF Node.output \in DOMAIN outputs THEN With(@, Node.output, outputs[Node.output]) ELSE @,
              !.status = Append(@, status), !.attempt = 0]
MarkedFailed(status) ==
  [run EXCEPT !.failed = @ \cup {Node.output}, !.status = Append(@, status), !.attempt = 0]

SkipBlocked ==
  /\ Visiting /\ Blocked
  /\ Record(MarkedFailed("upstream_failed"))
  /\ UNCHANGED <<registry, memo, outputs, starts, source, edits, history>>

MissingInput ==
  /\ Visiting /\ ~Blocked /\ ~Complete
  /\ Abort
  /\ UNCHANGED <<registry, memo, outputs, starts, source, edits, faults, history>>

\* _install: the materialization is swapped, then recorded.
Install(content, status) ==
  /\ outputs' = With(outputs, Node.output, content)
  /\ Record([run EXCEPT !.tables = With(@, Node.output, content),
                        !.outs = With(@, Node.output, content),
                        !.status = Append(@, status), !.attempt = 0])

ReuseMemo ==
  /\ Visiting /\ ~Blocked /\ Complete /\ Key \in DOMAIN memo
  /\ Install(memo[Key], "memo")
  /\ UNCHANGED <<registry, memo, starts, source, edits, history>>

Executable == Visiting /\ ~Blocked /\ Complete /\ Key \notin DOMAIN memo

Execute ==
  /\ Executable
  /\ memo' = With(memo, Key, Applied(Node, run.tables))
  /\ Install(Applied(Node, run.tables), "success")
  /\ UNCHANGED <<registry, starts, source, edits, history>>

\* An attempt fails; after the last one the node has failed.
AttemptFails ==
  /\ Executable /\ faults < MaxFaults /\ run.attempt < run.retries
  /\ faults' = faults + 1
  /\ run' = [run EXCEPT !.attempt = @ + 1]
  /\ UNCHANGED <<registry, memo, outputs, starts, source, edits, history>>
LastAttemptFails ==
  /\ Executable /\ faults < MaxFaults /\ run.attempt = run.retries
  /\ faults' = faults + 1
  /\ run' = MarkedFailed("failed")
  /\ UNCHANGED <<registry, memo, outputs, starts, source, edits, history>>

\* run returns.  An exact one leaves every materialization as a full run of the
\* same tables would.
Finish ==
  /\ run.state = "running" /\ Len(run.status) = Len(run.order)
  /\ run' = [run EXCEPT !.state = "done"]
  /\ IF run.covers /\ run.failed = {}
     THEN settled' = <<[given |-> run.given, active |-> Active]>> /\ dirty' = {}
     ELSE UNCHANGED history
  /\ UNCHANGED <<registry, memo, outputs, starts, source, edits, faults>>

\* The caller's tables change between runs.
Edit(t) ==
  /\ run.state # "running" /\ edits < MaxEdits
  /\ edits' = edits + 1
  /\ source' = [source EXCEPT ![t] = <<"source", t, 1 - @[3]>>]
  /\ run' = Idle
  /\ UNCHANGED <<registry, memo, outputs, starts, faults, history>>

TransformInit ==
  /\ known = {} /\ active = <<>>
  /\ memo = <<>> /\ outputs = <<>> /\ run = Idle
  /\ source = [t \in Sources |-> <<"source", t, 0>>]
  /\ registrations = 0 /\ starts = 0 /\ edits = 0 /\ faults = 0
  /\ settled = <<>> /\ dirty = {}

Calls == {FullRun} \cup {<<changed>> : changed \in SUBSET Sources}

TransformNext ==
  \/ \E d \in Transforms : RegisterTransform(d)
  \/ \E changed \in Calls, retries \in Retries : Start(changed, retries)
  \/ ReuseOutput \/ SkipBlocked \/ MissingInput \/ ReuseMemo \/ Execute
  \/ AttemptFails \/ LastAttemptFails \/ Finish
  \/ \E t \in Sources : Edit(t)

TransformSpec == TransformInit /\ [][TransformNext]_transformVars

-----------------------------------------------------------------------------
(* Properties.                                                             *)

\* What a full run computes: the transforms applied to the tables over and over,
\* as many times as there are transforms.
\* One step: each definition whose inputs are there is applied to them.
Evaluation(defs, given, before) ==
  LET ready == {d \in defs : d.inputs \subseteq DOMAIN before}
      made == {d.output : d \in ready}
  IN [t \in made \cup DOMAIN given |->
        IF t \in made THEN Applied(CHOOSE d \in ready : d.output = t, before) ELSE given[t]]
Evaluated(defs, given) ==
  LET after[n \in 0..Cardinality(defs)] ==
        IF n = 0 THEN given ELSE Evaluation(defs, given, after[n - 1])
  IN after[Cardinality(defs)]

\* The transforms a failure of d reaches, and d.
Downstream(d) ==
  {e \in Active : \A S \in SUBSET Active :
     d \in S /\ (\A x \in Active : Upstream(x) \cap S # {} => x \in S) => e \in S}

Ended == run.state = "done"

\* Registered definitions are known, the names of the active ones
\* are distinct, and a run's results are for the nodes it has come to.
TransformTypeOK ==
  /\ known \subseteq Transforms /\ Active \subseteq known
  /\ \A i, j \in DOMAIN active : i # j => active[i].name # active[j].name
  /\ DOMAIN outputs \subseteq TableNames /\ dirty \subseteq TableNames
  /\ starts \in 0..MaxRuns /\ faults \in 0..MaxFaults
  /\ run.state \in {"idle", "running", "done", "refused", "aborted"}
  /\ run.state \in {"running", "done"} =>
       /\ Len(run.status) <= Len(run.order) /\ DOMAIN run.plan = DOMAIN run.order
       /\ DOMAIN run.outs \subseteq {run.order[i].output : i \in DOMAIN run.status}

\* A full run, and a delta run whose caller named every difference since the
\* last exact run, returns what the active transforms compute from the tables
\* it was given: exactly for the nodes it visited that neither failed nor were
\* skipped, whatever the memo and the materializations held before.
ResultsExact ==
  /\ TransformTypeOK
  /\ Ended /\ run.covers =>
       run.outs = Restrict(Evaluated(Active, run.given),
                           {d.output : d \in run.cone} \ run.failed)

\* While nothing has been visited since the last exact run, the materializations
\* are those of a full run over the same tables and definitions: delta runs
\* that retry after a failure repair everything the failed run had touched.
OutputsSettled ==
  settled # <<>> /\ dirty = {} =>
    \A d \in settled[1].active :
      outputs[d.output] = Evaluated(settled[1].active, settled[1].given)[d.output]

\* A node is skipped because of a failure exactly when a node upstream of it, at
\* any distance, failed; all other nodes of the cone have their result.
FailureIsolated ==
  Ended =>
    LET StatusOf(d) == run.status[CHOOSE i \in DOMAIN run.order : run.order[i] = d]
        failing == {d \in Active : StatusOf(d) = "failed"}
    IN \A d \in Active :
         StatusOf(d) = "upstream_failed" <=>
           d \notin failing /\ \E e \in failing : d \in Downstream(e)

\* What plan says is not executed is not executed by the run: a node planned
\* from the memo comes from the memo, and only the nodes outside the cone leave
\* no record.
PlanHonoured ==
  Ended =>
    \A i \in DOMAIN run.plan :
      /\ run.plan[i] = "memo" => run.status[i] = "memo"
      /\ run.plan[i] = "outside-delta" <=> run.status[i] = "outside-delta"

=============================================================================
