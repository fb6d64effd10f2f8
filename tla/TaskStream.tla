----------------------------- MODULE TaskStream ------------------------------
(* The events of one task on their way to the browsers that watch it: the     *)
(* worker thread that runs the agent, the publisher its events go through,    *)
(* the event loop that runs the publisher's coroutines, and the streams       *)
(* (ui/routers/tasks_v2.py, ui/routers/streaming_v2.py, core/streaming.py).   *)
EXTENDS StreamTickets, SequencesExt

CONSTANTS
  Streams,        \* the requests that stream the task's events
  Workers,        \* how a worker's run may end: "announcing" or "quiet"
  QueueMaxes,     \* the capacities of a stream's queue to consider (1000)
  MaxEvents,      \* bound: when the worker stops reporting progress
  MaxLaunches     \* bound: how often an agent is set to work on the task

ASSUME StreamAssumption ==
  /\ Workers \subseteq {"announcing", "quiet"}
  /\ QueueMaxes \subseteq Nat \ {0}
  /\ MaxEvents \in Nat /\ MaxLaunches \in Nat

VARIABLES
  run,          \* the status in the row of the task's latest run
  worker,       \* where the worker thread is
  verdict,      \* what the agent returned, before the row says so
  launches,     \* how often an agent was set to work
  events,       \* how many events the worker has handed to the publisher
  pending,      \* the event for which the worker looks for an open stream, if any
  cursor,       \* the place in the list of subscribers it looks at next
  scheduled,    \* the publisher's coroutines the event loop has yet to run
  subscribers,  \* the streams registered with the publisher, oldest first
  closing,      \* those complete_task has yet to reach: it holds the lock
  active,       \* the streams complete_task has not reached
  at,           \* stream -> where its generator is
  queue,        \* stream -> its queue
  queueMax,     \* the capacity of every queue
  owed,         \* stream -> the next event its client is to be sent (history)
  overlooked,   \* the streams the worker's look has stepped over (history)
  dropped       \* the streams that an event did not reach (history)

workerVars == <<run, worker, verdict, launches>>
lookVars   == <<pending, cursor, overlooked>>
loopVars   == <<scheduled, subscribers, closing, active>>
queueVars  == <<at, queue, queueMax, owed>>
streamVarsButAt == <<workerVars, lookVars, loopVars, events, queue, queueMax, owed, dropped>>
streamVars == <<streamVarsButAt, at>>

Verdicts == {"COMPLETED", "FAILED", "BLOCKED"}

\* An event is its number, and whether it is the completion.
Event(kind) == [kind |-> kind, n |-> events]
EndOfStream == [kind |-> "end", n |-> 0]

-----------------------------------------------------------------------------
(* The worker thread. Its calls of the publisher leave a coroutine on the     *)
(* loop if somebody is subscribed as it looks, and nothing at all if not. It   *)
(* looks at one subscription after the other, in the list the loop changes     *)
(* meanwhile: where one it has passed is removed, the next one is overlooked;  *)
(* and a list that becomes empty is thrown away and replaced, but not for it.  *)

\* complete_task marks a subscription before it waits for room in its queue.
Open(s) == s \in active /\ (closing # <<>> => s # Head(closing))

PublishSync(kind) ==
  /\ pending = <<>>
  /\ events' = events + 1
  /\ IF subscribers = <<>>
     THEN UNCHANGED <<pending, cursor>>
     ELSE pending' = <<Event(kind)>> /\ cursor' = 1
  /\ UNCHANGED <<overlooked, loopVars, queueVars, dropped>>

lookRest == <<workerVars, events, subscribers, closing, active, queueVars>>

HandOver ==
  /\ pending # <<>> /\ cursor \in DOMAIN subscribers
  /\ Open(subscribers[cursor])
  /\ scheduled' = Append(scheduled, Head(pending))
  /\ pending' = <<>> /\ cursor' = 0 /\ overlooked' = {}
  /\ UNCHANGED <<dropped, lookRest>>

\* Mutant: only the oldest subscription is looked at.
LookOn_Oldest ==
  /\ pending # <<>> /\ cursor \in DOMAIN subscribers
  /\ ~Open(subscribers[cursor])
  /\ cursor' = Len(subscribers) + 1
  /\ UNCHANGED <<pending, overlooked, scheduled, dropped, lookRest>>

LookOn ==
  /\ pending # <<>> /\ cursor \in DOMAIN subscribers
  /\ ~Open(subscribers[cursor])
  /\ cursor' = cursor + 1
  /\ UNCHANGED <<pending, overlooked, scheduled, dropped, lookRest>>

GiveUp ==
  /\ pending # <<>> /\ cursor \notin DOMAIN subscribers
  /\ pending' = <<>> /\ cursor' = 0 /\ overlooked' = {}
  /\ dropped' = dropped \cup (overlooked \cap active)
  /\ UNCHANGED <<scheduled, lookRest>>

workerRest == <<lookVars, loopVars, queueVars, dropped>>

\* start_task_run or resume_run, then the thread. One worker at a time is
\* modelled: the run's own guards see to it that there is one (TaskRuns).
Launch ==
  /\ worker = "idle" /\ run # "RUNNING"
  /\ launches < MaxLaunches
  /\ run' = "RUNNING"
  /\ launches' = launches + 1
  /\ worker' \in Workers \cup {"raising"}
  /\ UNCHANGED <<verdict, events, workerRest>>

\* A step, some output, an error, a question.
Progress ==
  /\ worker \in Workers /\ events < MaxEvents
  /\ PublishSync("progress")
  /\ UNCHANGED workerVars

\* The agent is through. A built-in engine announces it: a completion if it
\* completed, an error if not (the plan engine: a completion that says so). A
\* delegated engine, and a run that gives up over its stalls, announces nothing.
Announce ==
  /\ worker = "announcing"
  /\ \E v \in Verdicts, kind \in {"completion", "progress"} :
        /\ v = "COMPLETED" => kind = "completion"
        /\ verdict' = v
        /\ PublishSync(kind)
  /\ worker' = "announced"
  /\ UNCHANGED <<run, launches>>

EndQuietly ==
  /\ worker = "quiet" /\ pending = <<>>
  /\ verdict' \in Verdicts
  /\ worker' = "returned"
  /\ UNCHANGED <<run, launches, events, workerRest>>

\* execute_agent raised up front, before it sets the agent to work (what is raised
\* later it records itself): the thread fails the run, and announces it afterwards.
FailRun ==
  /\ worker = "raising"
  /\ verdict' = "FAILED" /\ run' = "FAILED"
  /\ worker' = "failed"
  /\ UNCHANGED <<launches, events, workerRest>>

AnnounceFailure ==
  /\ worker = "failed"
  /\ PublishSync("progress")
  /\ worker' = "announced"
  /\ UNCHANGED <<run, verdict, launches>>

\* complete_task_sync: if there are subscribers, ...
CloseStreams ==
  /\ worker = "announced" /\ pending = <<>>
  /\ IF subscribers = <<>>
     THEN worker' = "returned" /\ UNCHANGED cursor
     ELSE worker' = "closing" /\ cursor' = 1
  /\ UNCHANGED <<run, verdict, launches, events, pending, overlooked, loopVars,
                 queueVars, dropped>>

\* ... the first one's loop is to close them all. When the list has become empty
\* there is no first one: an IndexError, and its callers go on without.
CompleteSync ==
  /\ worker = "closing" /\ pending = <<>>
  /\ scheduled' = IF cursor = 0 THEN scheduled ELSE Append(scheduled, EndOfStream)
  /\ cursor' = 0
  /\ worker' = "returned"
  /\ UNCHANGED <<run, verdict, launches, events, pending, overlooked, subscribers,
                 closing, active, queueVars, dropped>>

\* The adapter has another agent take over (a recovery, an answered question),
\* or runtime writes the outcome: complete_run, fail_run, block_run.
RunAgain ==
  /\ worker = "returned" /\ run = "RUNNING" /\ verdict # "COMPLETED"
  /\ launches < MaxLaunches
  /\ launches' = launches + 1
  /\ worker' = "announcing" /\ verdict' = "NONE"
  /\ UNCHANGED <<run, events, workerRest>>

Record ==
  /\ worker = "returned"
  /\ run' = verdict /\ verdict' = "NONE"
  /\ worker' = "idle"
  /\ UNCHANGED <<launches, events, workerRest>>

-----------------------------------------------------------------------------
(* The event loop. A stream's reads of the database do not yield to it.       *)

LoopFree == \A s \in Streams : at[s] \notin {"registered", "checked"}
LockFree == closing = <<>>

Full(s) == Len(queue[s]) >= queueMax

\* publish: into every active queue that has room.
RunPublish ==
  /\ LoopFree /\ LockFree
  /\ scheduled # <<>> /\ Head(scheduled).kind # "end"
  /\ LET told == Range(subscribers) \cap active IN
       /\ queue' = [s \in Streams |-> IF s \in told /\ ~Full(s)
                                      THEN Append(queue[s], Head(scheduled))
                                      ELSE queue[s]]
       /\ dropped' = dropped \cup {s \in told : Full(s)}
  /\ scheduled' = Tail(scheduled)
  /\ UNCHANGED <<workerVars, lookVars, events, subscribers, closing, active, at, queueMax, owed>>

\* complete_task takes the lock and goes from subscriber to subscriber; it
\* waits, with the lock, for room in each queue.
RunComplete ==
  /\ LoopFree /\ LockFree
  /\ scheduled # <<>> /\ Head(scheduled).kind = "end"
  /\ closing' = subscribers
  /\ scheduled' = Tail(scheduled)
  /\ UNCHANGED <<workerVars, lookVars, events, subscribers, active, at, queue, queueMax, owed,
                 dropped>>

\* Mutant: the end of the stream is dropped where there is no room for it.
PutSentinel_NoWait ==
  /\ LoopFree
  /\ closing # <<>>
  /\ LET s == Head(closing) IN
       /\ queue' = [queue EXCEPT ![s] = IF Full(s) THEN @ ELSE Append(@, EndOfStream)]
       /\ active' = active \ {s}
  /\ closing' = Tail(closing)
  /\ UNCHANGED <<workerVars, lookVars, events, scheduled, subscribers, at, queueMax, owed, dropped>>

PutSentinel ==
  /\ LoopFree
  /\ closing # <<>>
  /\ LET s == Head(closing) IN
       /\ ~Full(s)
       /\ queue' = [queue EXCEPT ![s] = Append(@, EndOfStream)]
       /\ active' = active \ {s}
  /\ closing' = Tail(closing)
  /\ UNCHANGED <<workerVars, lookVars, events, scheduled, subscribers, at, queueMax, owed, dropped>>

-----------------------------------------------------------------------------
(* A stream. Once its client has gone, or has been told that it is over, all  *)
(* that is left is to take the lock and unsubscribe.                          *)

Connect(s) ==
  /\ at[s] = "away"
  /\ \E t \in Tickets : Redeem(t)
  /\ at' = [at EXCEPT ![s] = "connected"]
  /\ UNCHANGED streamVarsButAt

Register(s) ==
  /\ at[s] = "connected" /\ LoopFree /\ LockFree
  /\ subscribers' = Append(subscribers, s)
  /\ active' = active \cup {s}
  /\ at' = [at EXCEPT ![s] = "registered"]
  /\ queue' = [queue EXCEPT ![s] = <<>>]
  /\ owed' = [owed EXCEPT ![s] = events]
  /\ dropped' = dropped \ {s} /\ overlooked' = overlooked \ {s}
  /\ UNCHANGED <<workerVars, pending, cursor, events, scheduled, closing, queueMax>>

\* _terminal_completion: no news if there is an active run, ...
CheckActive(s) ==
  /\ at[s] = "registered"
  /\ at' = [at EXCEPT ![s] = IF run \in {"RUNNING", "BLOCKED"} THEN "open" ELSE "checked"]
  /\ UNCHANGED streamVarsButAt

\* ... and a completion made up on the spot if the latest run is over.
CheckLatest(s) ==
  /\ at[s] = "checked"
  /\ at' = [at EXCEPT ![s] = IF run \in Verdicts THEN "leaving" ELSE "open"]
  /\ UNCHANGED streamVarsButAt

Take(s) ==
  /\ at[s] = "open" /\ LoopFree
  /\ queue[s] # <<>>
  /\ LET item == Head(queue[s]) IN
       /\ owed' = [owed EXCEPT ![s] = IF item.kind # "end" /\ item.n >= @ THEN item.n + 1 ELSE @]
       /\ at' = [at EXCEPT ![s] = IF item.kind = "progress" THEN "open" ELSE "leaving"]
  /\ queue' = [queue EXCEPT ![s] = Tail(@)]
  /\ UNCHANGED <<workerVars, lookVars, loopVars, events, queueMax, dropped>>

\* The client goes away: noticed between two events, or by a cancellation.
Disconnect(s) ==
  /\ at[s] = "open" /\ LoopFree
  /\ at' = [at EXCEPT ![s] = "leaving"]
  /\ UNCHANGED streamVarsButAt

\* Those whom a look in progress misses once the i-th of the list is removed.
SteppedOver(i) ==
  overlooked \cup { subscribers[j] : j \in { k \in DOMAIN subscribers :
                                            pending # <<>> /\ k = cursor /\ i < k } }

Unsubscribe(s) ==
  /\ at[s] = "leaving" /\ LoopFree /\ LockFree
  /\ \E i \in DOMAIN subscribers :
        /\ subscribers[i] = s /\ subscribers' = RemoveAt(subscribers, i)
        /\ overlooked' = SteppedOver(i) \ {s}
  /\ cursor' = IF Len(subscribers) = 1 THEN 0 ELSE cursor
  /\ active' = active \ {s}
  /\ at' = [at EXCEPT ![s] = "away"]
  /\ queue' = [queue EXCEPT ![s] = <<>>]
  /\ owed' = [owed EXCEPT ![s] = 0] /\ dropped' = dropped \ {s}
  /\ UNCHANGED <<workerVars, pending, events, scheduled, closing, queueMax>>

-----------------------------------------------------------------------------
WorkerNext ==
  \/ Launch \/ Progress \/ Announce \/ EndQuietly
  \/ HandOver \/ LookOn \/ GiveUp
  \/ FailRun \/ AnnounceFailure \/ CloseStreams \/ CompleteSync \/ RunAgain \/ Record

LoopNext == RunPublish \/ RunComplete \/ PutSentinel

StreamStep(s) ==
  \/ Register(s) \/ CheckActive(s) \/ CheckLatest(s)
  \/ Take(s) \/ Disconnect(s) \/ Unsubscribe(s)

\* Everything of the stream side that touches no ticket.
StreamNext == WorkerNext \/ LoopNext \/ \E s \in Streams : StreamStep(s)

StreamInit ==
  /\ run = "NONE" /\ worker = "idle" /\ verdict = "NONE" /\ launches = 0
  /\ pending = <<>> /\ cursor = 0 /\ overlooked = {}
  /\ events = 0 /\ scheduled = <<>> /\ subscribers = <<>> /\ closing = <<>> /\ active = {}
  /\ at = [s \in Streams |-> "away"]
  /\ queue = [s \in Streams |-> <<>>]
  /\ owed = [s \in Streams |-> 0]
  /\ queueMax \in QueueMaxes
  /\ dropped = {}

\* The loop keeps running, and clients that stay take what they are sent.
StreamFairness ==
  /\ WF_streamVars(LoopNext)
  /\ \A s \in Streams :
        /\ WF_streamVars(CheckActive(s) \/ CheckLatest(s) \/ Take(s))
        /\ SF_streamVars(Unsubscribe(s))

-----------------------------------------------------------------------------
Items == [kind : {"progress", "completion", "end"}, n : Nat]

StreamTypeOK ==
  /\ run \in Verdicts \cup {"NONE", "RUNNING"}
  /\ worker \in {"idle", "announcing", "quiet", "raising", "failed", "announced", "closing", "returned"}
  /\ verdict \in Verdicts \cup {"NONE"} /\ launches \in 0 .. MaxLaunches
  /\ pending \in Seq(Items) /\ Len(pending) <= 1 /\ cursor \in Nat
  /\ overlooked \subseteq Streams
  /\ events \in Nat /\ scheduled \in Seq(Items)
  /\ subscribers \in Seq(Streams) /\ closing \in Seq(Streams) /\ active \subseteq Streams
  /\ at \in [Streams -> {"away", "connected", "registered", "checked", "open", "leaving"}]
  /\ queue \in [Streams -> Seq(Items)] /\ queueMax \in QueueMaxes
  /\ \A s \in Streams : Len(queue[s]) <= queueMax
  /\ owed \in [Streams -> Nat] /\ dropped \subseteq Streams

\* The events on their way to the loop: those it has yet to run, and the one for
\* which the worker is still looking for an open stream.
Due == scheduled \o pending

\* What is on its way to a stream: what is in its queue, and what
\* the loop will put there, up to the end of the stream.
Coming(s) ==
  queue[s] \o IF s \notin active THEN <<>>
              ELSE IF s \in Range(closing) THEN <<EndOfStream>> ELSE Due

\* The positions of a flow of events before the end of the stream.
Ahead(flow) == { i \in DOMAIN flow : \A j \in 1 .. i : flow[j].kind # "end" }

\* Up to the end of the stream, a flow is a number of old events, from before n,
\* and then n, n + 1 and so on.
Carries(flow, old, n) ==
  \A i \in Ahead(flow) : IF i <= old THEN flow[i].n < n ELSE flow[i].n = n + (i - old) - 1

Watching(s) == at[s] \in {"registered", "checked", "open"}

\* A client that watches misses nothing but what a full queue costs it, or a look
\* that stepped over it because an older stream left in the middle of it: else the
\* events published since it registered and not yet sent to it are all on their
\* way, each once and in order, up to the end of the stream, and what is older
\* comes before them, however the worker thread's looks, the loop and the other
\* streams' comings and goings interleave (core/streaming.py publish_sync,
\* publish, complete_task).
NothingSkipped ==
  \A s \in Streams \ dropped :
    Watching(s) =>
      LET flow == Coming(s) IN
      \E old \in 0 .. Len(flow) :
        /\ Carries(flow, old, owed[s])
        /\ (s \in active /\ Ahead(flow) = DOMAIN flow) => Len(flow) - old = events - owed[s]

\* The publisher is wedged when complete_task waits, with the lock, for room in
\* the queue of a stream whose client has left: nobody empties it any more, and
\* the stream cannot unsubscribe without the lock.
Wedged == closing # <<>> /\ Full(Head(closing)) /\ at[Head(closing)] = "leaving"

\* Once the loop has the end of the task to tell, a stream that is subscribed ends,
\* unless the publisher is wedged
\* (ui/routers/streaming_v2.py event_stream_generator).
ToldIsOver(s) ==
  (Open(s) /\ \E i \in DOMAIN scheduled : scheduled[i] = EndOfStream)
    ~> (at[s] = "away" \/ Wedged)

\* A browser never waits for a run that is over: when the task's latest run has
\* ended and nothing is on its way, no stream sits there with an empty queue
\* (ui/routers/tasks_v2.py _terminal_completion, "isn't left hanging on
\* heartbeats").
NobodyLeftHanging ==
  (run \in Verdicts /\ worker = "idle" /\ scheduled = <<>> /\ closing = <<>>) =>
    \A s \in Streams : at[s] = "open" => queue[s] # <<>>
=============================================================================
