-------------------------- MODULE SnapshotScheduler --------------------------
(***************************************************************************)
(* The scheduling of the event snapshots: data/snapshot_worker.py.         *)
(*                                                                         *)
(* Committing a change to an event arms a debounce timer; the timer's      *)
(* thread hands the event to a queue; one worker thread copies what the    *)
(* queue holds.  Request threads may also copy an event themselves         *)
(* (snapshot_now), delete or rename it, and the backups may be turned off. *)
(* Every region the code runs under _state.lock is one action; whatever    *)
(* the code does between two of them is a step of its own.                 *)
(*                                                                         *)
(* Time is relative: what is left of each delay is counted down by Tick,   *)
(* so that runs of any length have finitely many states.                   *)
(*                                                                         *)
(* unsaved, holds and lost are not the program's: they follow one change   *)
(* of each event, any one, from its commit to the snapshot that holds it.  *)
(***************************************************************************)
EXTENDS Naturals, Sequences, FiniteSets

CONSTANTS
  Event,      \* the unique IDs of the events
  Client,     \* the threads that serve requests
  Worker,     \* the worker threads start() may create (bounds the restarts)
  Timer,      \* the debounce timers alive at once (bound)
  None,       \* Python's None
  Idle,       \* IDLE_SECONDS, in ticks
  MaxLatency, \* MAX_LATENCY_SECONDS
  MinAuto,    \* MIN_AUTO_INTERVAL_SECONDS
  Retries,    \* TRANSIENT_RETRIES
  QueueBound, \* the longest queue the model follows (bound)
  Ops         \* what the requests do and what may happen: a subset of Operations

Operations == {"commit", "direct", "remove", "toggle", "stop", "mishap"}

ASSUME ConstantsAssumption ==
  /\ Idle \in Nat /\ MaxLatency \in Nat /\ MinAuto \in Nat
  /\ Retries \in Nat /\ Retries > 0
  /\ QueueBound \in Nat
  /\ Ops \subseteq Operations
  /\ Client \cap Worker = {}
  /\ None \notin Event \cup Worker

VARIABLES
  exists,   \* whether an event file answers for the unique ID
  enabled,  \* SharlyChessConfig().snapshot_enabled
  pending,  \* _state.pending
  timer,    \* the threading.Timer objects and their threads
  queue,    \* _state.queue: unique IDs (AUTO items) and the None that stops
  worker,   \* _state.worker
  stopping, \* _state.stopping
  status,   \* _state.statuses; NoStatus when the ID has none
  proc,     \* where each request thread and each worker thread stands
  exit,     \* where the atexit call of stop() stands
  unsaved,  \* the change followed is in no snapshot
  lost      \* the scheduler gave the change up: see ChangeCovered below

vars == <<exists, enabled, pending, timer, queue, worker, stopping, status,
          proc, exit, unsaved, lost>>

Failures == {"transient", "disk_full", "persistent"}
Outcomes == Failures \cup {"ok"}

NoStatus == [floor |-> 0, failure |-> None, count |-> 0]
Statuses == [floor : 0..MinAuto, failure : Failures \cup {None}, count : 0..Retries]

FreeTimer == [state |-> "free", event |-> None, left |-> 0]
Delays == 0..(IF Idle > MinAuto THEN Idle ELSE MinAuto)
Timers == [state : {"free", "armed", "fired", "handing"},
           event : Event \cup {None}, left : Delays]

PendingChanges == [waited : 0..MaxLatency, timer : Timer]

\* Python's None is neither a _PendingChange nor a kind of failure.
ASSUME NoneAssumption == None \notin PendingChanges \cup Failures

Proc == Client \cup Worker
Idler(s) == [pc |-> s, event |-> None, attempt |-> 1, holds |-> FALSE]
ProcStates == {"idle", "committed", "asking", "gone", "popped"}   \* of a client
         \cup {"absent", "get", "retry"}                           \* of a worker
         \cup {"copy", "copying", "unread"}                        \* of either
Procs == [pc : ProcStates, event : Event \cup {None}, attempt : 1..Retries, holds : BOOLEAN]

\* A thread at work is at work on an event, and retries while it may.
AtWork ==
  /\ \A t \in Timer : timer[t].state # "free" => timer[t].event \in Event
  /\ \A p \in Proc :
       /\ proc[p].pc \notin {"idle", "absent", "get"} => proc[p].event \in Event
       /\ proc[p].pc = "retry" => proc[p].attempt < Retries

TypeOK ==
  /\ exists \in [Event -> BOOLEAN]
  /\ enabled \in BOOLEAN
  /\ pending \in [Event -> PendingChanges \cup {None}]
  /\ timer \in [Timer -> Timers]
  /\ queue \in Seq(Event \cup {None})
  /\ worker \in Worker \cup {None}
  /\ stopping \in BOOLEAN
  /\ status \in [Event -> Statuses]
  /\ proc \in [Proc -> Procs]
  /\ exit \in {"running", "set", "cleared", "done"}
  /\ unsaved \in [Event -> BOOLEAN]
  /\ lost \in [Event -> BOOLEAN]
  /\ AtWork

-----------------------------------------------------------------------------
\* A process imports the module: nothing pending, no worker thread yet.
Init ==
  /\ exists = [e \in Event |-> TRUE]
  /\ enabled = TRUE
  /\ pending = [e \in Event |-> None]
  /\ timer = [t \in Timer |-> FreeTimer]
  /\ queue = <<>>
  /\ worker = None
  /\ stopping = FALSE
  /\ status = [e \in Event |-> NoStatus]
  /\ proc = [p \in Proc |-> Idler(IF p \in Client THEN "idle" ELSE "absent")]
  /\ exit = "running"
  /\ unsaved = [e \in Event |-> FALSE]
  /\ lost = [e \in Event |-> FALSE]

-----------------------------------------------------------------------------
(* The helpers the handlers share.                                         *)

\* Mutant: one momentary problem more before it is reported.
IsFailingLate(e) == status[e].failure # None /\
  (status[e].failure = "transient" => status[e].count > Retries)

\* SnapshotStatus.is_failing
IsFailing(e) ==
  /\ status[e].failure # None
  /\ status[e].failure = "transient" => status[e].count >= Retries

\* _auto_floor_left: counted down in the status itself.
FloorLeft(e) == status[e].floor

AtLeast(a, b) == IF a > b THEN a ELSE b
\* Mutant: a delay that is over goes on being subtracted from.
LessUnbounded(n) == n - 1
Less(n) == IF n = 0 THEN 0 ELSE n - 1

\* The timers once that of a pending change of e has been cancelled, which
\* does nothing to a timer whose thread is already past its wait.
TimersCancelled(e) ==
  IF pending[e] # None /\ timer[pending[e].timer].state = "armed"
  THEN [timer EXCEPT ![pending[e].timer] = FreeTimer]
  ELSE timer

\* Mutant: the timer is created and never started.
ArmedUnstarted(e, delay) == [state |-> "free", event |-> e, left |-> delay]

\* timer.start()
Armed(e, delay) == [state |-> "armed", event |-> e, left |-> delay]

\* Mutant: what is put while no worker runs is dropped.
PutToWorker(item) ==
  Len(queue) < QueueBound /\ queue' = IF worker = None THEN queue ELSE Append(queue, item)

\* _state.queue.put, which never blocks: QueueBound is the model's.
Put(item) == Len(queue) < QueueBound /\ queue' = Append(queue, item)

\* _record_success
SuccessRecorded(e) ==
  status' = [status EXCEPT ![e] = [floor |-> MinAuto, failure |-> None, count |-> 0]]

\* Mutant: the failures in a row are not counted.
FailureRecordedUncounted(e, failure) ==
  status' = [status EXCEPT ![e].failure = failure]

\* _record_failure; consecutive_failures matters up to TRANSIENT_RETRIES.
FailureRecorded(e, failure) ==
  status' = [status EXCEPT ![e].failure = failure,
                           ![e].count = IF @ < Retries THEN @ + 1 ELSE Retries]

\* Mutant: start() does not look whether a worker is running.
StartedAgain ==
  \E w \in Worker : proc[w].pc = "absent" /\ worker' = w /\ stopping' = FALSE

\* SnapshotScheduler.start: creates a worker unless there is one.
Started ==
  \/ worker # None /\ UNCHANGED <<worker, stopping>>
  \/ /\ worker = None
     /\ \E w \in Worker :
          /\ proc[w].pc = "absent"
          /\ worker' = w
          /\ stopping' = FALSE

\* The thread started, when one was.
WithWorker(ps) ==
  IF worker' # worker THEN [ps EXCEPT ![worker'] = Idler("get")] ELSE ps

\* A thread is copying e, or about to, and the copy will hold the change.
Carries(p, e) ==
  /\ proc[p].event = e
  /\ \/ proc[p].pc \in {"copy", "retry", "unread"}
     \/ proc[p].pc = "copying" /\ proc[p].holds

\* Something still on its way will put the change of e in a snapshot.
Covered(e) ==
  \/ pending[e] # None
  \/ \E t \in Timer : timer[t].state = "handing" /\ timer[t].event = e
  \/ \E i \in DOMAIN queue : queue[i] = e
  \/ \E c \in Client : proc[c].pc \in {"committed", "asking"} /\ proc[c].event = e
  \/ \E p \in Proc : Carries(p, e)

Goto(p, s) == proc' = [proc EXCEPT ![p].pc = s]
Done(p, s) == proc' = [proc EXCEPT ![p] = Idler(s)]

-----------------------------------------------------------------------------
(* A request that commits: the commit, then notify_changed.                *)

\* EventDatabase.__exit__ up to the call of notify_changed.  The change may be
\* the one followed, provided none is: no copy under way holds it.
Commit(c, e) ==
  /\ "commit" \in Ops /\ proc[c].pc = "idle" /\ exists[e]
  /\ \/ /\ ~unsaved[e]
        /\ unsaved' = [unsaved EXCEPT ![e] = TRUE]
        /\ lost' = [lost EXCEPT ![e] = FALSE]
        /\ proc' = [p \in Proc |->
             IF p = c THEN [proc[c] EXCEPT !.pc = "committed", !.event = e]
             ELSE IF proc[p].event = e THEN [proc[p] EXCEPT !.holds = FALSE]
             ELSE proc[p]]
     \/ /\ proc' = [proc EXCEPT ![c].pc = "committed", ![c].event = e]
        /\ UNCHANGED <<unsaved, lost>>
  /\ UNCHANGED <<exists, enabled, pending, timer, queue, worker, stopping, status, exit>>

\* notify_changed: the setting, then start().
NotifyStart(c) ==
  /\ proc[c].pc = "committed"
  /\ \/ /\ ~enabled
        /\ lost' = [lost EXCEPT ![proc[c].event] = TRUE]
        /\ Done(c, "idle")
        /\ UNCHANGED <<worker, stopping>>
     \/ /\ enabled
        /\ Started
        /\ proc' = WithWorker([proc EXCEPT ![c].pc = "asking"])
        /\ UNCHANGED lost
  /\ UNCHANGED <<exists, enabled, pending, timer, queue, status, exit, unsaved>>

Waited(e) == IF pending[e] = None THEN 0 ELSE pending[e].waited

\* Mutant: every change restarts the debounce, with no cap.
CutShortNever(e) == FALSE

\* The changes do not pause and have waited long enough.
CutShort(e) == Waited(e) >= MaxLatency /\ FloorLeft(e) = 0

\* notify_changed, under the lock: the debounce restarts, or is cut short.
NotifyChanged(c) ==
  LET e == proc[c].event IN
  /\ proc[c].pc = "asking"
  /\ \/ /\ CutShort(e)
        /\ pending' = [pending EXCEPT ![e] = None]
        /\ timer' = TimersCancelled(e)
        /\ Put(e)
     \/ /\ ~CutShort(e)
        /\ \E t \in Timer :
             /\ TimersCancelled(e)[t].state = "free"
             /\ timer' = [TimersCancelled(e) EXCEPT
                            ![t] = Armed(e, AtLeast(Idle, FloorLeft(e)))]
             /\ pending' = [pending EXCEPT ![e] = [waited |-> Waited(e), timer |-> t]]
        /\ UNCHANGED queue
  /\ lost' = [lost EXCEPT ![e] = FALSE]
  /\ Done(c, "idle")
  /\ UNCHANGED <<exists, enabled, worker, stopping, status, exit, unsaved>>

-----------------------------------------------------------------------------
(* The debounce timers: each is a thread of its own once it fires.         *)

Fire(t) ==
  /\ timer[t].state = "armed" /\ timer[t].left = 0
  /\ timer' = [timer EXCEPT ![t].state = "fired"]
  /\ UNCHANGED <<exists, enabled, pending, queue, worker, stopping, status, proc,
                 exit, unsaved, lost>>

\* _on_idle, under the lock.  It never checks that the pending change is still
\* the one its timer was armed for.
OnIdle(t) ==
  LET e == timer[t].event IN
  /\ timer[t].state = "fired"
  /\ \/ /\ pending[e] = None
        /\ timer' = [timer EXCEPT ![t] = FreeTimer]
        /\ UNCHANGED pending
     \/ /\ pending[e] # None /\ FloorLeft(e) > 0
        /\ timer' = [timer EXCEPT ![t] = Armed(e, FloorLeft(e))]
        /\ pending' = [pending EXCEPT ![e].timer = t]
     \/ /\ pending[e] # None /\ FloorLeft(e) = 0
        /\ timer' = [timer EXCEPT ![t].state = "handing"]
        /\ pending' = [pending EXCEPT ![e] = None]
  /\ UNCHANGED <<exists, enabled, queue, worker, stopping, status, proc, exit, unsaved, lost>>

\* _on_idle, its last line: the put, once the lock is released.
HandOver(t) ==
  /\ timer[t].state = "handing"
  /\ Put(timer[t].event)
  /\ timer' = [timer EXCEPT ![t] = FreeTimer]
  /\ UNCHANGED <<exists, enabled, pending, worker, stopping, status, proc, exit, unsaved, lost>>

\* A unit of time: every delay and every wait comes closer to its end.
Tick ==
  /\ timer' = [t \in Timer |-> [timer[t] EXCEPT !.left = Less(@)]]
  /\ pending' = [e \in Event |->
       IF pending[e] = None THEN None
       ELSE [pending[e] EXCEPT !.waited = IF @ < MaxLatency THEN @ + 1 ELSE @]]
  /\ status' = [e \in Event |-> [status[e] EXCEPT !.floor = Less(@)]]
  /\ UNCHANGED <<exists, enabled, queue, worker, stopping, proc, exit, unsaved, lost>>

-----------------------------------------------------------------------------
(* Copying an event: write_snapshot, by a worker or by a request.          *)

\* The event is read: the copy holds every change committed so far.
BeginCopy(p) ==
  LET e == proc[p].event IN
  /\ proc[p].pc = "copy"
  /\ proc' = [proc EXCEPT ![p].pc = IF exists[e] THEN "copying" ELSE "unread",
                          ![p].holds = exists[e] /\ unsaved[e]]
  /\ UNCHANGED <<exists, enabled, pending, timer, queue, worker, stopping, status,
                 exit, unsaved, lost>>

\* What may come of the copy: a file that is not there cannot be read.
Ends(p, out) ==
  \/ proc[p].pc = "copying" /\ out \in Outcomes
  \/ proc[p].pc = "unread" /\ out = "persistent"

Saved(p) ==
  unsaved' = [unsaved EXCEPT ![proc[p].event] = @ /\ ~proc[p].holds]

\* A success forgets the failures, one met by a more recent copy included: the
\* change that copy should have saved is then given up without a word.
Forgotten(p) ==
  LET e == proc[p].event IN
  lost' = [lost EXCEPT ![e] =
             @ \/ (status[e].failure # None /\ ~proc[p].holds /\ ~Covered(e))]

\* write_snapshot raises what is no SnapshotException (a temporary file it cannot
\* remove once the copy has failed): _work logs it, a request fails of it, and no
\* failure is recorded.
Mishap(p) ==
  /\ "mishap" \in Ops /\ proc[p].pc = "copying"
  /\ lost' = [lost EXCEPT ![proc[p].event] = TRUE]
  /\ Done(p, IF p \in Client THEN "idle" ELSE "get")
  /\ UNCHANGED <<exists, enabled, pending, timer, queue, worker, stopping, status,
                 exit, unsaved>>

\* _work: the next item, or the None that ends the thread.
Take(w) ==
  /\ proc[w].pc = "get" /\ queue # <<>>
  /\ queue' = Tail(queue)
  /\ proc' = [proc EXCEPT ![w] =
       IF Head(queue) = None THEN Idler("absent")
       ELSE [Idler("copy") EXCEPT !.event = Head(queue)]]
  /\ UNCHANGED <<exists, enabled, pending, timer, worker, stopping, status, exit,
                 unsaved, lost>>

\* _write, one attempt, once write_snapshot has returned.
WriteSucceeds(w) ==
  /\ Ends(w, "ok")
  /\ SuccessRecorded(proc[w].event)
  /\ Saved(w) /\ Forgotten(w)
  /\ Done(w, "get")
  /\ UNCHANGED <<exists, enabled, pending, timer, queue, worker, stopping, exit>>

\* _write, one attempt, once write_snapshot has raised: a momentary problem is
\* waited out, a full disk is swept and retried, anything else is reported -
\* unless the count of the failures was reset while the worker was retrying.
WriteFails(w, failure) ==
  LET e == proc[w].event IN
  /\ Ends(w, failure)
  /\ FailureRecorded(e, failure)
  /\ \/ /\ failure = "transient" /\ proc[w].attempt < Retries
        /\ Goto(w, "retry")
        /\ UNCHANGED lost
     \/ /\ failure = "disk_full" /\ proc[w].attempt < Retries
        /\ proc' = [proc EXCEPT ![w].pc = "copy", ![w].attempt = @ + 1]
        /\ UNCHANGED lost
     \/ /\ failure = "persistent" \/ proc[w].attempt = Retries
        /\ lost' = [lost EXCEPT ![e] =
                      @ \/ (failure = "transient" /\ status[e].count + 1 < Retries)]
        /\ Done(w, "get")
  /\ UNCHANGED <<exists, enabled, pending, timer, queue, worker, stopping, exit, unsaved>>

\* _write, the wait between two attempts: stopping cuts it short.
Retry(w) ==
  /\ proc[w].pc = "retry"
  /\ \/ /\ stopping
        /\ lost' = [lost EXCEPT ![proc[w].event] = TRUE]
        /\ Done(w, "get")
     \/ /\ proc' = [proc EXCEPT ![w].pc = "copy", ![w].attempt = @ + 1]
        /\ ~stopping
        /\ UNCHANGED lost
  /\ UNCHANGED <<exists, enabled, pending, timer, queue, worker, stopping, status,
                 exit, unsaved>>

-----------------------------------------------------------------------------
(* snapshot_now: a request copies the event itself, once.                  *)

\* _cancel_pending: what is pending is given up, whatever comes of the copy.
Direct(c, e) ==
  /\ "direct" \in Ops /\ proc[c].pc = "idle"
  /\ timer' = TimersCancelled(e)
  /\ pending' = [pending EXCEPT ![e] = None]
  /\ proc' = [proc EXCEPT ![c].pc = "copy", ![c].event = e]
  /\ UNCHANGED <<exists, enabled, queue, worker, stopping, status, exit, unsaved, lost>>

DirectSucceeds(c) ==
  /\ Ends(c, "ok")
  /\ SuccessRecorded(proc[c].event)
  /\ Saved(c) /\ Forgotten(c)
  /\ Done(c, "idle")
  /\ UNCHANGED <<exists, enabled, pending, timer, queue, worker, stopping, exit>>

DirectFails(c, failure) ==
  /\ Ends(c, failure)
  /\ FailureRecorded(proc[c].event, failure)
  /\ lost' = [lost EXCEPT ![proc[c].event] = TRUE]
  /\ Done(c, "idle")
  /\ UNCHANGED <<exists, enabled, pending, timer, queue, worker, stopping, exit, unsaved>>

-----------------------------------------------------------------------------
(* The events come and go, the backups are turned off and on.              *)

\* EventDatabase.delete or rename: the file goes, its changes with it.
Remove(c, e) ==
  /\ "remove" \in Ops /\ proc[c].pc = "idle" /\ exists[e]
  /\ exists' = [exists EXCEPT ![e] = FALSE]
  /\ unsaved' = [unsaved EXCEPT ![e] = FALSE]
  /\ proc' = [proc EXCEPT ![c].pc = "gone", ![c].event = e]
  /\ UNCHANGED <<enabled, pending, timer, queue, worker, stopping, status, exit, lost>>

\* forget: what is pending is cancelled, then the status is dropped.
Forget(c) ==
  LET e == proc[c].event IN
  \/ /\ proc[c].pc = "gone"
     /\ timer' = TimersCancelled(e)
     /\ pending' = [pending EXCEPT ![e] = None]
     /\ Goto(c, "popped")
     /\ lost' = [lost EXCEPT ![e] = TRUE]
     /\ UNCHANGED <<exists, enabled, queue, worker, stopping, status, exit, unsaved>>
  \/ /\ proc[c].pc = "popped"
     /\ status' = [status EXCEPT ![e] = NoStatus]
     /\ lost' = [lost EXCEPT ![e] = TRUE]
     /\ Done(c, "idle")
     /\ UNCHANGED <<exists, enabled, pending, timer, queue, worker, stopping, exit, unsaved>>

\* An event is created under the unique ID, or renamed to it.
Create(e) ==
  /\ "remove" \in Ops /\ ~exists[e]
  /\ exists' = [exists EXCEPT ![e] = TRUE]
  /\ UNCHANGED <<enabled, pending, timer, queue, worker, stopping, status, proc,
                 exit, unsaved, lost>>

\* The settings: turning the backups off forgets the statuses.
Toggle ==
  /\ "toggle" \in Ops
  /\ enabled' = ~enabled
  /\ IF enabled
     THEN /\ status' = [e \in Event |-> NoStatus]
          /\ lost' = [e \in Event |-> lost[e] \/ status[e].failure # None]
     ELSE UNCHANGED <<status, lost>>
  /\ UNCHANGED <<exists, pending, timer, queue, worker, stopping, proc, exit, unsaved>>

-----------------------------------------------------------------------------
(* The server: start() when it comes up, stop() registered with atexit.    *)

Boot ==
  /\ exit = "running"
  /\ Started
  /\ proc' = WithWorker(proc)
  /\ UNCHANGED <<exists, enabled, pending, timer, queue, status, exit, unsaved, lost>>

\* stop: the flag, then under the lock the worker and what is pending, then
\* the None the worker ends at.
Stop ==
  /\ "stop" \in Ops
  /\ \/ /\ exit = "running"
        /\ stopping' = TRUE
        /\ exit' = "set"
        /\ UNCHANGED <<pending, timer, queue, worker, lost>>
     \/ /\ exit = "set"
        /\ timer' = [t \in Timer |->
             IF /\ timer[t].state = "armed"
                /\ \E e \in Event : pending[e] # None /\ pending[e].timer = t
             THEN FreeTimer ELSE timer[t]]
        /\ pending' = [e \in Event |-> None]
        /\ lost' = [e \in Event |-> lost[e] \/ pending[e] # None]
        /\ worker' = None
        /\ exit' = IF worker = None THEN "done" ELSE "cleared"
        /\ UNCHANGED <<queue, stopping>>
     \/ /\ exit = "cleared"
        /\ Put(None)
        /\ exit' = "done"
        /\ UNCHANGED <<pending, timer, worker, stopping, lost>>
  /\ UNCHANGED <<exists, enabled, status, proc, unsaved>>

-----------------------------------------------------------------------------
ClientStep(c) ==
  \/ NotifyStart(c) \/ NotifyChanged(c)
  \/ BeginCopy(c) \/ Mishap(c) \/ DirectSucceeds(c) \/ \E f \in Failures : DirectFails(c, f)
  \/ Forget(c)

Request(c) == \E e \in Event : Commit(c, e) \/ Direct(c, e) \/ Remove(c, e)

WorkerStep(w) ==
  \/ Take(w) \/ BeginCopy(w) \/ Mishap(w) \/ Retry(w)
  \/ WriteSucceeds(w) \/ \E f \in Failures : WriteFails(w, f)

TimerStep(t) == Fire(t) \/ OnIdle(t) \/ HandOver(t)

Next ==
  \/ \E c \in Client : Request(c) \/ ClientStep(c)
  \/ \E w \in Worker : WorkerStep(w)
  \/ \E t \in Timer : TimerStep(t)
  \/ \E e \in Event : Create(e)
  \/ Tick \/ Toggle \/ Boot \/ Stop

Spec == Init /\ [][Next]_vars

\* Every thread that can run does: a request ends, a timer whose delay is over
\* fires, the worker serves its queue, and time passes.  Nothing is assumed of
\* how often requests arrive.
FairSpec ==
  /\ Spec
  /\ \A c \in Client : WF_vars(ClientStep(c))
  /\ \A w \in Worker : WF_vars(WorkerStep(w))
  /\ \A t \in Timer : WF_vars(TimerStep(t))
  /\ WF_vars(Tick)

-----------------------------------------------------------------------------
(* Safety.                                                                 *)

\* A pending change always has a timer of its event that has yet to reach
\* _on_idle: stale timers that fire late, restarts of the debounce and the
\* floor never leave a change waiting for a wake-up that will not come.
NoStrandedPending ==
  \A e \in Event : pending[e] # None =>
    /\ timer[pending[e].timer].event = e
    /\ timer[pending[e].timer].state \in {"armed", "fired"}

\* A committed change that no snapshot holds is on its way to one, or its
\* failure is reported, or the scheduler gave it up in one of the ways that set
\* lost: the backups were off when it was committed, a request's own copy
\* failed or forgot the failure, the event was forgotten, a stop, an exception
\* nobody expects.
ChangeCovered ==
  \A e \in Event : unsaved[e] => Covered(e) \/ IsFailing(e) \/ lost[e]

\* stop and a start that overtakes it may leave two worker threads, but never
\* one that is neither the current worker nor owed a None to end at.
WorkersAccounted ==
  Cardinality({w \in Worker : proc[w].pc # "absent"}) <=
    (IF worker = None THEN 0 ELSE 1)
    + (IF exit = "cleared" THEN 1 ELSE 0)
    + Cardinality({i \in DOMAIN queue : queue[i] = None})

-----------------------------------------------------------------------------
(* What the comments of the module say.                                    *)

\* "Committing a change to an event asks for a snapshot ... debounced into a
\* single snapshot once the data entry pauses": a change is saved or said not
\* to be.  A request's own copy that meets one momentary problem breaks it.
ChangeNeverForsaken == \A e \in Event : unsaved[e] => Covered(e) \/ IsFailing(e)

\* forget: no failure is recorded against a unique ID nothing answers for.
ForgottenStaysQuiet ==
  \A e \in Event :
    ~exists[e] /\ (\A c \in Client : proc[c].event # e) => ~IsFailing(e)

-----------------------------------------------------------------------------
(* Liveness.                                                               *)

\* However long the data entry goes on, a change is saved, or its failure is
\* reported, or it is one of those the scheduler gives up.
ChangeIsSaved ==
  \A e \in Event : unsaved[e] ~> (~unsaved[e] \/ IsFailing(e) \/ lost[e])

\* A pending change does not wait for ever, however often it is put off.
PendingIsServed == \A e \in Event : pending[e] # None ~> pending[e] = None
=============================================================================
