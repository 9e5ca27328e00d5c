-------------------------------- MODULE Asks --------------------------------
(***************************************************************************)
(* Questions over the store (lodestone/__init__.py): the Ask flywheel      *)
(* (lodestone/flywheel.py, discovery/cached_work.py), which serves an      *)
(* answer again as long as its plan cites the same atoms, the execution of *)
(* plans with repair (lodestone/execute.py, lower.py) and the one          *)
(* clarification that may be pending, while people and the pipeline write  *)
(* (HumanActions).                                                         *)
(*                                                                         *)
(* Grounding and planning are pure functions of the question over an index *)
(* that is built once per engine: a question comes with the candidate      *)
(* plans they yield, the best first.  Every plan here has the stance EVER. *)
(***************************************************************************)
EXTENDS HumanActions

Funcs == INSTANCE Functions

CONSTANTS
  Questions,  \* the questions that are asked
  Asked,      \* question -> what grounding and planning make of it
  NoProp      \* a plan without a condition

ASSUME AskedAssumption ==
  \A q \in Questions : LET cands == Asked[q].candidates
                        IN  cands \in Seq(Funcs!Range(cands)) /\ Asked[q].gamma \in 0 .. Len(cands)

VARIABLES
  work,     \* CachedWorkStore: key -> the latest version of its answer
  pending   \* the options of the clarification that waits for a choice

engine == <<work, pending>>
vars == <<data, engine>>

\* A plan: select the entities of a class by a condition, follow a link to
\* another class or not, and list a property or count.  `accept` is what the
\* condition accepts at each level of repair; `sig` is what a clarification
\* can tell it from another plan by.
-----------------------------------------------------------------------------
(* Execution.                                                              *)

Has(e, prop) == <<e, prop>> \in Facts /\ rows[<<e, prop>>] # <<>>
Scanned(class) == {e \in class : \E f \in Facts : f[1] = e /\ rows[f] # <<>>}

Selected(p, level) ==
  {e \in Scanned(p.class) :
     \/ p.where = NoProp
     \/ Has(e, p.where) /\ Ever(<<e, p.where>>).value \in p.accept[level]}

\* The atoms of the cells that a condition looked at.
ConditionRefs(p, e) == IF p.where = NoProp THEN {} ELSE {Ever(<<e, p.where>>).atom}

\* link_adj: every system-open link counts, a retracted one too.
LinkRefs(e, n) == IF <<e, n>> \in Pairs THEN {l.atom : l \in Funcs!Range(links[<<e, n>>])} ELSE {}

\* The entities a plan arrives at, each with the atoms that led there.
Frame(p, level) ==
  IF p.to = {}
  THEN [e \in Selected(p, level) |-> ConditionRefs(p, e)]
  ELSE LET from(n) == {e \in Selected(p, level) : LinkRefs(e, n) # {}}
       IN  [n \in {m \in Scanned(p.to) : from(m) # {}} |->
              UNION {ConditionRefs(p, e) \cup LinkRefs(e, n) : e \in from(n)}]

\* A count over an unfiltered scan cites the first property of each entity.
FirstCell(e) == Ever(CHOOSE f \in Facts : f[1] = e /\ rows[f] # <<>>).atom

\* The result: each row with the atoms it cites; equal rows are one.
Table(p, frame) ==
  IF p.count
  THEN [n \in {Cardinality(DOMAIN frame)} \ {0} |->
          UNION {IF frame[e] = {} THEN {FirstCell(e)} ELSE frame[e] : e \in DOMAIN frame}]
  ELSE LET shows(e, v) == Has(e, p.show) /\ Ever(<<e, p.show>>).value = v
       IN  [v \in {Ever(<<e, p.show>>).value : e \in {d \in DOMAIN frame : Has(d, p.show)}} |->
              UNION {{Ever(<<e, p.show>>).atom} \cup frame[e] : e \in {d \in DOMAIN frame : shows(d, v)}}]

\* execute_candidate: the first level of repair that yields a row.
Executed(p) ==
  LET exact == Table(p, Frame(p, 0))
      caseless == Table(p, Frame(p, 1))
      normalized == Table(p, Frame(p, 2))
  IN  CASE DOMAIN exact # {} -> exact
        [] DOMAIN exact = {} /\ DOMAIN caseless # {} -> caseless
        [] OTHER -> normalized

HoldsData(p) == DOMAIN Executed(p) # {}
RowsOf(p) == DOMAIN Executed(p)

-----------------------------------------------------------------------------
(* The engine.                                                             *)

\* (a bug: as many atoms as before are taken for the same atoms)
FingerprintOfCount(table) == Cardinality(UNION Funcs!Range(table))
\* answer_fingerprint: the set of the atoms cited.
Fingerprint(table) == UNION Funcs!Range(table)

\* consult: the cached plan still holds data, and cites what it cited.
Hit(q) ==
  LET version == work[Asked[q].key]
      live == Executed(version.plan)
  IN  version # None /\ DOMAIN live # {} /\ Fingerprint(live) = version.fingerprint

\* The readings of a question that the scores cannot tell apart.
Gamma(q) == SubSeq(Asked[q].candidates, 1, Asked[q].gamma)

\* (a bug: readings without data are offered too)
ViableWhetherOrNot(q) == Gamma(q)
Viable(q) == Where(Gamma(q), HoldsData)

\* structural_diff: the first candidate of each signature, if there are two.
Options(cands) ==
  LET first(i) == \A j \in DOMAIN cands : cands[j].sig = cands[i].sig => i <= j
      options == {cands[i] : i \in {k \in DOMAIN cands : first(k)}}
  IN  IF Cardinality(options) > 1 THEN options ELSE {}

Disagree(cands) ==
  \E i, j \in DOMAIN cands :
    <<cands[i].show, cands[i].count, RowsOf(cands[i])>> # <<cands[j].show, cands[j].count, RowsOf(cands[j])>>

Answer(p) == [kind |-> "answer", plan |-> p, rows |-> RowsOf(p)]
Abstention == [kind |-> "abstain"]
Clarification(options) == [kind |-> "clarify", options |-> options]

\* _execute_ranked: the first candidate that holds data.
Ranked(cands) ==
  LET holding == Where(cands, HoldsData)
  IN  IF holding = <<>> THEN Abstention ELSE Answer(holding[1])

First4(cands) == SubSeq(cands, 1, IF Len(cands) < 4 THEN Len(cands) ELSE 4)

\* A token or two short of the floor: ask back if a plan would hold data.
Soft(q) ==
  LET holding == Where(First4(Asked[q].candidates), HoldsData)
  IN  IF Asked[q].anchored /\ holding # <<>> THEN Clarification({holding[1]}) ELSE Abstention

\* Lodestone.ask after a miss: what is shown for the question.
Considered(q) ==
  CASE Asked[q].coverage = "none" \/ Asked[q].candidates = <<>> -> Abstention
    [] Asked[q].coverage = "soft" -> Soft(q)
    [] Asked[q].weak /\ Asked[q].gamma = 1 -> Abstention
    [] Asked[q].gamma > 1 /\ Disagree(Viable(q)) /\ Options(Viable(q)) # {} -> Clarification(Options(Viable(q)))
    [] Asked[q].gamma > 1 /\ Viable(q) # <<>> -> Answer(Viable(q)[1])
    [] OTHER -> Ranked(Asked[q].candidates)

\* requires_live_composition: a hop, or an aggregate.
Composed(p) == p.to # {} \/ p.count

\* write_back: a new version under the key of the question.
WrittenBack(q, answer) ==
  IF answer.kind = "answer" /\ Composed(answer.plan)
  THEN [work EXCEPT ![Asked[q].key] =
          [plan |-> answer.plan, rows |-> answer.rows, fingerprint |-> Fingerprint(Executed(answer.plan))]]
  ELSE work

\* What an ask after a hit shows is the version itself, marked cached.
Ask(q) ==
  LET answer == Considered(q) IN
  /\ doing = None
  /\ work' = IF Hit(q) THEN work ELSE WrittenBack(q, answer)
  /\ pending' = IF ~Hit(q) /\ answer.kind = "clarify" THEN answer.options ELSE {}
  /\ UNCHANGED data

\* answer_clarification: the choice is executed as it is now, and not kept.
Choose ==
  /\ doing = None
  /\ pending # {} /\ pending' = {}
  /\ UNCHANGED <<data, work>>

\* The process, and with it the engine, starts anew.
Restart ==
  /\ Reopen
  /\ work' = [k \in DOMAIN work |-> None]
  /\ pending' = {}

Init ==
  /\ InitData
  /\ work = [k \in {Asked[q].key : q \in Questions} |-> None]
  /\ pending = {}

Next ==
  \/ Change /\ UNCHANGED engine
  \/ \E q \in Questions : Ask(q)
  \/ Choose
  \/ Restart

Spec == Init /\ [][Next]_vars

-----------------------------------------------------------------------------
(* Properties.                                                             *)

\* "a cached answer is NEVER served once its provenance has moved underneath
\* it" (discovery/cached_work.py:29): whatever was written since, what a hit
\* serves is what its plan would yield now.  (So it is for plans that read no
\* two facts of one entity which an Action may write together: ReadsApart in
\* Asks_proofs.)
HitIsCurrent ==
  \A q \in Questions : Hit(q) => work[Asked[q].key].rows = RowsOf(work[Asked[q].key].plan)

\* The options of a clarification hold data when they are offered: whoever
\* chooses at once gets an answer.
OptionsHoldData ==
  [][pending' # pending => \A p \in pending' : HoldsData(p)]_vars

=============================================================================
