------------------------------ MODULE Playground ------------------------------
(***************************************************************************)
(* The live playground build (pipeline/playground.py), its event log       *)
(* (pipeline/playground_events.py) and the world the server reads from     *)
(* (server/world.py).                                                      *)
(*                                                                         *)
(* Every build has a worker thread.  The request handlers are coroutines   *)
(* that run to their end once they have started, one after another on the  *)
(* event-loop thread, but a worker moves between any two steps of one: a   *)
(* poll takes the job's lock first and the log's lock afterwards.          *)
(*                                                                         *)
(* The client of a build is a page of its own (apps/datamap.js): it polls, *)
(* queues what is new in a reply, and draws a few queued events per frame. *)
(***************************************************************************)
EXTENDS Naturals, Sequences, FiniteSets, Functions, Subsequences

CONSTANTS
  Jobs,         \* builds that may be started
  Watched,      \* the builds a client polls to their end
  Datasets,     \* catalog entries
  MaxDatasets,  \* MAX_DATASETS
  MaxEvents,    \* JobEventLog.max_events
  MaxFinds,     \* bound: events of a build before its last one
  MaxEdits,     \* bound: ontology edits of a world
  RevealPerFrame, \* REVEAL_PER_FRAME: events drawn in one animation frame
  Demo, None

ASSUME JobsAssumption == Watched \subseteq Jobs /\ {Demo, None} \cap Jobs = {}
ASSUME BoundAssumption ==
  /\ {MaxEvents, RevealPerFrame} \subseteq Nat \ {0}
  /\ {MaxDatasets, MaxFinds, MaxEdits} \subseteq Nat

Worlds == Jobs \cup {Demo}

VARIABLES
  worker,   \* where each worker thread is
  status,   \* PlaygroundJob.status, "none" before the build is requested
  log,      \* JobEventLog: the retained sequence numbers and the next one
  onDisk,   \* the builds whose project directory is complete
  chosen,   \* the datasets each build was started with
  active,   \* ProjectWorld.active_project
  selected, \* ProjectWorld._selected_datasets
  handle,   \* the world the open ledger, hearth and ontology belong to
  edition,  \* how often the ontology of each world was edited
  answers,  \* answer_cache: the world and edition each answer was computed from
  poll,     \* the poll the event loop is in the middle of, or None
  client    \* the page of each build: its poll, what it got, drew and queues

worldVars == <<active, selected, handle, edition, answers>>
buildVars == <<worker, status, log, onDisk, chosen>>
vars == <<buildVars, worldVars, poll, client>>

-----------------------------------------------------------------------------
(* The event log.                                                          *)

EmptyLog == [kept |-> <<>>, next |-> 1]

\* emit(): the last MaxEvents events survive.
Emitted(l) ==
  LET all == Append(l.kept, l.next)
      drop == IF Len(all) > MaxEvents THEN Len(all) - MaxEvents ELSE 0
  IN  [kept |-> SubSeq(all, drop + 1, Len(all)), next |-> l.next + 1]

EventsSince(l, seq) == Where(l.kept, LAMBDA e : e > seq)

Emit(j) == log' = [log EXCEPT ![j] = Emitted(@)]
Goes(j, at) == worker' = [worker EXCEPT ![j] = at]

-----------------------------------------------------------------------------
(* The worker.                                                             *)

Init ==
  /\ worker = [j \in Jobs |-> "unborn"]
  /\ status = [j \in Jobs |-> "none"]
  /\ log = [j \in Jobs |-> EmptyLog]
  /\ onDisk = {}
  /\ chosen = [j \in Jobs |-> {}]
  /\ active = Demo /\ selected = {} /\ handle = None
  /\ edition = [w \in Worlds |-> 0] /\ answers = {}
  /\ poll = None
  /\ client = [j \in Jobs |-> [at |-> "idle", shown |-> "none", events |-> <<>>, got |-> <<>>,
                            drawn |-> <<>>, queue |-> <<>>, frame |-> "none"]]

\* A stage begins, or reports a table, a join, a type or a silo it found.
Report(j) ==
  /\ worker[j] = "build" /\ log[j].next <= MaxFinds
  /\ Emit(j)
  /\ UNCHANGED <<worker, status, onDisk, chosen, worldVars, poll, client>>

\* The project shell is written, then the last event goes out.
Conclude(j) ==
  /\ worker[j] = "build"
  /\ onDisk' = onDisk \cup {j}
  /\ Emit(j)
  /\ Goes(j, "concluded")
  /\ UNCHANGED <<status, chosen, worldVars, poll, client>>

\* (a bug: the worker stops without calling on_done)
FinishAndStop(j) ==
  /\ worker[j] = "concluded"
  /\ status' = [status EXCEPT ![j] = "done"]
  /\ Goes(j, "over")
  /\ UNCHANGED <<log, onDisk, chosen, worldVars, poll, client>>
\* (a bug: the status says done before the last event is out)
FinishEarly(j) ==
  /\ worker[j] \in {"build", "concluded"}
  /\ status' = [status EXCEPT ![j] = "done"]
  /\ Goes(j, IF worker[j] = "build" THEN "build" ELSE "done")
  /\ UNCHANGED <<log, onDisk, chosen, worldVars, poll, client>>
\* build_playground has returned.
Finish(j) ==
  /\ worker[j] = "concluded"
  /\ status' = [status EXCEPT ![j] = "done"]
  /\ Goes(j, "done")
  /\ UNCHANGED <<log, onDisk, chosen, worldVars, poll, client>>

\* (a bug: the answers of the last world are kept)
DropHandlesOnly == handle' = None /\ UNCHANGED answers
\* _drop_handles.
DropHandles == handle' = None /\ answers' = {}

\* on_done -> activate_world.
Activate(j) ==
  /\ worker[j] = "done"
  /\ active' = j
  /\ DropHandles
  /\ Goes(j, "over")
  /\ UNCHANGED <<status, log, onDisk, chosen, selected, edition, poll, client>>

\* Any step of the build may raise: the status is set, then the event emitted.
Fail(j) ==
  /\ worker[j] = "build"
  /\ status' = [status EXCEPT ![j] = "error"]
  /\ Goes(j, "failed")
  /\ UNCHANGED <<log, onDisk, chosen, worldVars, poll, client>>

TellFailure(j) ==
  /\ worker[j] = "failed"
  /\ Emit(j)
  /\ Goes(j, "over")
  /\ UNCHANGED <<status, onDisk, chosen, worldVars, poll, client>>

-----------------------------------------------------------------------------
(* Handlers that run as one step.                                          *)

LoopFree == poll = None

\* What a build in mode "add" starts from.
Kept(mode) == IF mode = "add" /\ active # Demo THEN selected ELSE {}

\* POST /api/workspace/build.
StartBuild(j, ids, mode) ==
  /\ LoopFree /\ status[j] = "none"
  /\ ids # {} /\ Cardinality(ids \cup Kept(mode)) <= MaxDatasets
  /\ selected' = ids \cup Kept(mode)
  /\ chosen' = [chosen EXCEPT ![j] = selected']
  /\ status' = [status EXCEPT ![j] = "running"]
  /\ Goes(j, "build")
  /\ client' = IF j \in Watched THEN [client EXCEPT ![j].at = "polling"] ELSE client
  /\ UNCHANGED <<log, onDisk, active, handle, edition, answers, poll>>

\* The lazy properties open the active world.
Open == handle' = IF handle = None THEN active ELSE handle

\* ask(): what the open handles answer is cached.
Ask ==
  /\ LoopFree
  /\ Open
  /\ answers' = answers \cup {[world |-> handle', edition |-> edition[handle']]}
  /\ UNCHANGED <<buildVars, active, selected, edition, poll, client>>

\* engineer_apply() and engineer_undo(): the ontology of the active world is
\* written and the objects built from it are dropped, the answers are not.
Edit ==
  /\ LoopFree /\ edition[active] < MaxEdits
  /\ Open
  /\ edition' = [edition EXCEPT ![active] = @ + 1]
  /\ UNCHANGED <<buildVars, active, selected, answers, poll, client>>

Reload ==
  /\ LoopFree
  /\ DropHandles
  /\ UNCHANGED <<buildVars, active, selected, edition, poll, client>>

-----------------------------------------------------------------------------
(* A poll: GET /api/workspace/build/{job_id}, and the client's loop.       *)

\* snapshot() reads the status under the job's lock, ...
PollStatus(j) ==
  /\ LoopFree /\ client[j].at = "polling" /\ status[j] # "gone"
  /\ poll' = [job |-> j, shown |-> status[j]]
  /\ UNCHANGED <<buildVars, worldVars, client>>

\* ... then the events (the client asks for all of them); the reply is sent.
PollEvents ==
  /\ ~LoopFree
  /\ client' = [client EXCEPT ![poll.job] =
       [@ EXCEPT !.at = "replied", !.shown = poll.shown,
                 !.events = EventsSince(log[poll.job], 0)]]
  /\ poll' = None
  /\ UNCHANGED <<buildVars, worldVars>>

\* finishBuild drops what is queued and cancels the frame, but does not reset
\* revealRaf: a frame that was asked for is lost, and no other is asked for.
FinishBuild(c) == [c EXCEPT !.queue = <<>>, !.frame = IF @ = "asked" THEN "lost" ELSE @]
Over(c) == [FinishBuild(c) EXCEPT !.at = "over"]

\* The restarted server answers 404.
PollGone(j) ==
  /\ LoopFree /\ client[j].at = "polling" /\ status[j] = "gone"
  /\ client' = [client EXCEPT ![j] = Over(@)]
  /\ UNCHANGED <<buildVars, worldVars, poll>>

LastSeen(c) == IF c.got = <<>> THEN 0 ELSE c.got[Len(c.got)]

\* The client takes what is above the highest number it has got.
Fresh(c) == Where(c.events, LAMBDA e : e > LastSeen(c))

\* queueEvents: a frame is asked for unless one is.
Queued(c) ==
  [c EXCEPT !.got = @ \o Fresh(c), !.queue = @ \o Fresh(c),
            !.frame = IF @ = "none" /\ Fresh(c) # <<>> THEN "asked" ELSE @]

Terminal == {"done", "error"}

Receive(j) ==
  /\ client[j].at = "replied"
  /\ client' = [client EXCEPT ![j] =
       [Queued(@) EXCEPT !.events = <<>>,
                         !.at = IF client[j].shown \in Terminal THEN "leaving" ELSE "polling"]]
  /\ UNCHANGED <<buildVars, worldVars, poll>>

\* pumpEvents draws the first of the queue, and asks for the next frame.
Drawn(c) ==
  LET n == IF Len(c.queue) < RevealPerFrame THEN Len(c.queue) ELSE RevealPerFrame
  IN  [c EXCEPT !.drawn = @ \o SubSeq(c.queue, 1, n),
                !.queue = SubSeq(@, n + 1, Len(@)),
                !.frame = IF n < Len(c.queue) THEN "asked" ELSE "none"]

\* A frame comes, or not: a hidden tab gets none.
Draw(j) ==
  /\ client[j].frame = "asked"
  /\ client' = [client EXCEPT ![j] = Drawn(@)]
  /\ UNCHANGED <<buildVars, worldVars, poll>>

\* No reply for a while: the watchdog finishes the page, the poll that is out
\* goes on.  (With an empty queue there is nothing for it to drop.)
Watchdog(j) ==
  /\ client[j].at \in {"polling", "replied"} /\ client[j].queue # <<>>
  /\ client' = [client EXCEPT ![j] = FinishBuild(@)]
  /\ UNCHANGED <<buildVars, worldVars, poll>>

\* (a bug: the page waits until its queue is drawn)
LeaveDrained(j) ==
  /\ client[j].at = "leaving" /\ client[j].queue = <<>>
  /\ client' = [client EXCEPT ![j] = Over(@)]
  /\ UNCHANGED <<buildVars, worldVars, poll>>
\* A little after the last reply the page turns to the finished map.
Leave(j) ==
  /\ client[j].at = "leaving"
  /\ client' = [client EXCEPT ![j] = Over(@)]
  /\ UNCHANGED <<buildVars, worldVars, poll>>

\* The server process ends with its workers and job store, and is started again
\* on the base project.  A client in the middle of a poll gives up.
Restart ==
  /\ worker' = [j \in Jobs |-> IF status[j] = "none" THEN "unborn" ELSE "over"]
  /\ status' = [j \in Jobs |-> IF status[j] = "none" THEN "none" ELSE "gone"]
  /\ log' = [j \in Jobs |-> EmptyLog]
  /\ active' = Demo /\ selected' = {} /\ handle' = None /\ answers' = {}
  /\ poll' = None
  /\ client' = [j \in Jobs |-> IF poll # None /\ poll.job = j
                               THEN Over(client[j]) ELSE client[j]]
  /\ UNCHANGED <<onDisk, chosen, edition>>

-----------------------------------------------------------------------------
Worker(j) == Report(j) \/ Conclude(j) \/ Finish(j) \/ Activate(j) \/ TellFailure(j)

Watch(j) == PollStatus(j) \/ PollGone(j)

Page(j) == Receive(j) \/ Leave(j) \/ Draw(j) \/ Watchdog(j)

Next ==
  \/ \E j \in Jobs : Worker(j) \/ Fail(j) \/ Watch(j) \/ Page(j)
  \/ \E j \in Jobs, ids \in SUBSET Datasets, mode \in {"replace", "add"} :
       StartBuild(j, ids, mode)
  \/ Ask \/ Edit \/ Reload
  \/ PollEvents
  \/ Restart

\* Threads run, a handler that has started returns, its reply arrives, the timer
\* of a page that leaves fires, and the event loop does not pass over the next
\* poll of a client for ever.  Frames and the watchdog are owed to nobody.
Fairness ==
  /\ \A j \in Jobs : WF_vars(Worker(j)) /\ SF_vars(Watch(j))
                 /\ WF_vars(Receive(j)) /\ WF_vars(Leave(j))
  /\ WF_vars(PollEvents)

Spec == Init /\ [][Next]_vars /\ Fairness

-----------------------------------------------------------------------------
(* Properties.                                                             *)

\* Type invariant of the jobs, their logs and the world.
TypeOK ==
  /\ \A j \in Jobs :
       /\ worker[j] \in {"unborn", "build", "concluded", "done", "failed", "over"}
       /\ status[j] \in {"none", "running", "done", "error", "gone"}
       /\ log[j].next \in 1 .. MaxFinds + 2
       /\ log[j].kept \in Seq(1 .. log[j].next - 1) /\ Len(log[j].kept) <= MaxEvents
       /\ client[j].at \in {"idle", "polling", "replied", "leaving", "over"}
       /\ client[j].frame \in {"none", "asked", "lost"}
       /\ chosen[j] \subseteq Datasets
  /\ onDisk \subseteq Jobs /\ selected \subseteq Datasets
  /\ active \in Worlds /\ edition \in [Worlds -> 0 .. MaxEdits]

\* The world that is read is the demo or a build that succeeded and is wholly on
\* disk, whatever builds fail or finish in whatever order (start, activate_world).
ActiveIsBuilt == active # Demo => active \in onDisk /\ status[active] = "done"

\* Open handles and cached answers are never of a world that is no longer read
\* from, though workers flip the world between requests (_drop_handles).
CachesOfActiveWorld ==
  /\ handle \in {None, active}
  /\ \A given \in answers : given.world = active

\* What requests read: a built world, and nothing opened or cached of another.
ReadsBuiltWorld == TypeOK /\ ActiveIsBuilt /\ CachesOfActiveWorld

\* A client that leaves because the build is done was given every event the log
\* still holds: the status is read before the events (PlaygroundJob.snapshot).
DoneSeesTail ==
  \A j \in Watched :
    client[j].at \in {"leaving", "over"} /\ client[j].shown = "done" /\ status[j] # "gone" =>
      Range(log[j].kept) \subseteq Range(client[j].got)

Comes(c) == c.drawn \o c.queue

\* No client draws an event twice or out of order, or has one twice in its queue,
\* though every reply repeats the events of the one before, across whatever the
\* watchdog dropped in between (JobEventLog.since, pollBuild, queueEvents).
DrawnInOrder ==
  \A j \in Watched : \A m, n \in DOMAIN Comes(client[j]) :
    m < n => Comes(client[j])[m] < Comes(client[j])[n]

\* Until a frame is lost a client skips nothing it got, and a frame is coming
\* whenever something waits for one (pumpEvents, queueEvents, finishBuild).
NothingSkipped ==
  \A j \in Watched : client[j].frame # "lost" =>
    /\ Comes(client[j]) = client[j].got
    /\ client[j].queue # <<>> <=> client[j].frame = "asked"

\* What the watcher of a build gets: the whole tail of the log, and of that each
\* event at most once, in order, and all of them while no frame is cancelled.
WatcherServed == DoneSeesTail /\ DrawnInOrder /\ NothingSkipped

\* A build whose world is complete takes over as the world that is read, unless
\* the server is restarted first (run, on_done).
BuiltTakesOver ==
  \A j \in Jobs : worker[j] = "concluded" ~> (active = j \/ status[j] = "gone")

\* Every client that watches a build is told how it ended, also across a restart
\* (pollBuild).
WatchersLeave == \A j \in Watched : client[j].at = "polling" ~> client[j].at = "over"

-----------------------------------------------------------------------------
(* Three claims of the repository that the code does not meet: TLC refutes   *)
(* them when they are added to the module's configuration (README, known     *)
(* limits).                                                                  *)

\* Nothing is building and a build is read from: the selection is what that build
\* was made of (world.py: "so a subsequent add unions against everything
\* actually built").
SelectionIsBuilt ==
  active # Demo /\ (\A j \in Jobs : worker[j] \in {"unborn", "over"}) => selected = chosen[active]

\* A cached answer is the one a new question would get: the ontology it was
\* computed from is still the world's (world.py: "drop cached ontology/atlas so
\* the next read reflects the edit").
AnswersReflectEdits ==
  \A given \in answers : given.edition = edition[given.world]

\* A page that leaves because the build is done has drawn what it got
\* (datamap.js: "drain the queue, then resolve to the final interactive map").
QueueDrained ==
  \A j \in Watched :
    client[j].at = "over" /\ client[j].shown = "done" => client[j].drawn = client[j].got
=============================================================================
