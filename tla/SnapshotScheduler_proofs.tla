---------------------- MODULE SnapshotScheduler_proofs ----------------------
(***************************************************************************)
(* What is proved of SnapshotScheduler for any set of events, threads and  *)
(* timers and any delays.                                                  *)
(***************************************************************************)
EXTENDS SnapshotScheduler, FiniteSetTheorems, TLAPS

-----------------------------------------------------------------------------
(* The operators the actions are built from keep their types.              *)

LEMMA CancelledType ==
  ASSUME TypeOK, NEW e \in Event
  PROVE  /\ TimersCancelled(e) \in [Timer -> Timers]
         /\ \A t \in Timer : TimersCancelled(e)[t] \in {timer[t], FreeTimer}
  <1>1. FreeTimer \in Timers
    BY ConstantsAssumption DEF FreeTimer, Timers, Delays
  <1>2. timer \in [Timer -> Timers]
    BY DEF TypeOK
  <1>3. CASE pending[e] # None /\ timer[pending[e].timer].state = "armed"
    <2>1. pending[e].timer \in Timer
      BY <1>3 DEF TypeOK, PendingChanges
    <2>2. TimersCancelled(e) = [timer EXCEPT ![pending[e].timer] = FreeTimer]
      BY <1>3 DEF TimersCancelled
    <2>3. QED
      BY <1>1, <1>2, <2>1, <2>2
  <1>4. CASE ~(pending[e] # None /\ timer[pending[e].timer].state = "armed")
    <2>1. TimersCancelled(e) = timer
      BY <1>4 DEF TimersCancelled
    <2>2. QED
      BY <1>2, <2>1
  <1>5. QED
    BY <1>3, <1>4

LEMMA ArmedType ==
  ASSUME NEW e \in Event, NEW d \in Delays
  PROVE  Armed(e, d) \in Timers
  BY DEF Armed, Timers

LEMMA SuccessType ==
  ASSUME TypeOK, NEW e \in Event, SuccessRecorded(e)
  PROVE  status' \in [Event -> Statuses]
  <1>1. [floor |-> MinAuto, failure |-> None, count |-> 0] \in Statuses
    BY ConstantsAssumption DEF Statuses
  <1>2. QED
    BY <1>1 DEF SuccessRecorded, TypeOK

LEMMA FailureType ==
  ASSUME TypeOK, NEW e \in Event, NEW f \in Failures, FailureRecorded(e, f)
  PROVE  status' \in [Event -> Statuses]
  <1> DEFINE counted == IF status[e].count < Retries THEN status[e].count + 1 ELSE Retries
  <1>1. status[e] \in Statuses
    BY DEF TypeOK
  <1>2. counted \in 0..Retries
    BY <1>1, ConstantsAssumption DEF Statuses
  <1>3. [status[e] EXCEPT !.failure = f, !.count = counted] \in Statuses
    BY <1>1, <1>2 DEF Statuses
  <1>4. QED
    BY <1>3 DEF FailureRecorded, TypeOK

LEMMA IdlerType ==
  ASSUME NEW s \in ProcStates
  PROVE  Idler(s) \in Procs
  BY ConstantsAssumption DEF Idler, Procs

\* What DoneType and GotoType establish of the threads.
Threads(ps) ==
  /\ ps \in [Proc -> Procs]
  /\ \A p \in Proc :
       /\ ps[p].pc \notin {"idle", "absent", "get"} => ps[p].event \in Event
       /\ ps[p].pc = "retry" => ps[p].attempt < Retries

LEMMA DoneType ==
  ASSUME TypeOK, NEW p \in Proc, NEW s \in {"idle", "absent", "get"}, Done(p, s)
  PROVE  Threads(proc')
  <1>1. Idler(s) \in Procs
    BY IdlerType DEF ProcStates
  <1>2. Idler(s).pc = s
    BY DEF Idler
  <1>3. QED
    BY <1>1, <1>2 DEF Done, TypeOK, AtWork, Threads

\* A thread at work on e may move to any step but a retry it is not owed.
LEMMA MoveType ==
  ASSUME TypeOK, NEW p \in Proc, NEW r \in Procs, r.event \in Event,
         r.pc = "retry" => r.attempt < Retries,
         proc' = [proc EXCEPT ![p] = r]
  PROVE  Threads(proc')
  BY DEF TypeOK, AtWork, Threads

\* The timers once one of them is armed, fires, hands over or is freed.
TimersOK(ts) ==
  /\ ts \in [Timer -> Timers]
  /\ \A t \in Timer : ts[t].state # "free" => ts[t].event \in Event

LEMMA CancelledOK ==
  ASSUME TypeOK, NEW e \in Event
  PROVE  TimersOK(TimersCancelled(e))
  <1>1. \A t \in Timer : FreeTimer.state = "free"
    BY DEF FreeTimer
  <1>2. QED
    BY <1>1, CancelledType DEF TimersOK, TypeOK, AtWork

LEMMA SetTimerOK ==
  ASSUME NEW ts, TimersOK(ts), NEW t \in Timer, NEW r \in Timers,
         r.state # "free" => r.event \in Event
  PROVE  TimersOK([ts EXCEPT ![t] = r])
  BY DEF TimersOK

-----------------------------------------------------------------------------
(* Every step keeps the types: one lemma per group of actions.             *)

LEMMA InitType == Init => TypeOK
  <1> SUFFICES ASSUME Init PROVE TypeOK
    OBVIOUS
  <1>1. FreeTimer \in Timers /\ FreeTimer.state = "free"
    BY ConstantsAssumption DEF FreeTimer, Timers, Delays
  <1>2. NoStatus \in Statuses
    BY ConstantsAssumption DEF NoStatus, Statuses
  <1>3. Idler("idle") \in Procs /\ Idler("absent") \in Procs
    BY IdlerType DEF ProcStates
  <1>4. Idler("idle").pc = "idle" /\ Idler("absent").pc = "absent"
    BY DEF Idler
  <1>5. proc \in [Proc -> Procs]
    BY <1>3 DEF Init
  <1>6. AtWork
    BY <1>1, <1>4 DEF Init, AtWork
  <1>7. timer \in [Timer -> Timers] /\ status \in [Event -> Statuses]
    BY <1>1, <1>2 DEF Init
  <1>8. pending \in [Event -> PendingChanges \cup {None}] /\ queue \in Seq(Event \cup {None})
    BY DEF Init
  <1>9. QED
    BY <1>5, <1>6, <1>7, <1>8 DEF Init, TypeOK

LEMMA CommitType ==
  ASSUME TypeOK, NEW c \in Client, NEW e \in Event, Commit(c, e)
  PROVE  TypeOK'
  <1>1. c \in Proc
    BY DEF Proc
  <1> DEFINE asked == [proc[c] EXCEPT !.pc = "committed", !.event = e]
             stale(p) == [proc[p] EXCEPT !.holds = FALSE]
  <1>2. /\ asked \in Procs /\ asked.pc = "committed" /\ asked.event = e
        /\ asked.attempt = proc[c].attempt
    BY <1>1 DEF TypeOK, Procs, ProcStates
  <1>3. \A p \in Proc : /\ stale(p) \in Procs /\ stale(p).pc = proc[p].pc
                        /\ stale(p).event = proc[p].event
                        /\ stale(p).attempt = proc[p].attempt
    BY DEF TypeOK, Procs
  <1>a. \/ proc' = [p \in Proc |->
             IF p = c THEN asked ELSE IF proc[p].event = e THEN stale(p) ELSE proc[p]]
        \/ proc' = [proc EXCEPT ![c] = asked]
    <2>1. [proc EXCEPT ![c].pc = "committed", ![c].event = e] = [proc EXCEPT ![c] = asked]
      BY <1>1 DEF TypeOK, Procs
    <2>2. QED
      BY <2>1 DEF Commit
  <1>b. proc' \in [Proc -> Procs]
    BY <1>1, <1>2, <1>3, <1>a DEF TypeOK
  <1>c. \A p \in Proc : /\ proc'[p].pc = IF p = c THEN "committed" ELSE proc[p].pc
                        /\ proc'[p].event = IF p = c THEN e ELSE proc[p].event
                        /\ proc'[p].attempt = proc[p].attempt
    BY <1>1, <1>2, <1>3, <1>a DEF TypeOK
  <1>4. AtWork'
    BY <1>c DEF Commit, TypeOK, AtWork
  <1>5. lost' \in [Event -> BOOLEAN] /\ unsaved' \in [Event -> BOOLEAN]
    BY DEF Commit, TypeOK
  <1>6. QED
    BY <1>b, <1>4, <1>5 DEF Commit, TypeOK

LEMMA StartedType ==
  ASSUME TypeOK, Started
  PROVE  /\ worker' \in Worker \cup {None} /\ stopping' \in BOOLEAN
         /\ worker' # worker => worker' \in Proc
  BY DEF Started, TypeOK, Proc

LEMMA WithWorkerType ==
  ASSUME TypeOK, Started, NEW ps, Threads(ps)
  PROVE  Threads(WithWorker(ps))
  <1>1. Idler("get") \in Procs /\ Idler("get").pc = "get"
    BY IdlerType DEF ProcStates, Idler
  <1>2. CASE worker' # worker
    BY <1>1, <1>2, StartedType DEF WithWorker, Threads
  <1>3. CASE worker' = worker
    BY <1>3 DEF WithWorker
  <1>4. QED
    BY <1>2, <1>3

LEMMA NotifyStartType ==
  ASSUME TypeOK, NEW c \in Client, NotifyStart(c)
  PROVE  TypeOK'
  <1>1. c \in Proc /\ proc[c] \in Procs /\ proc[c].event \in Event
    BY DEF Proc, TypeOK, AtWork, NotifyStart
  <1>2. CASE ~enabled
    <2>1. Done(c, "idle")
      BY <1>2 DEF NotifyStart
    <2>2. Threads(proc')
      BY <1>1, <2>1, DoneType
    <2>3. QED
      BY <1>2, <2>2 DEF NotifyStart, TypeOK, AtWork, Threads
  <1>3. CASE enabled
    <2> DEFINE ps == [proc EXCEPT ![c].pc = "asking"]
    <2>1. Started /\ proc' = WithWorker(ps)
      BY <1>3 DEF NotifyStart
    <2>2. Threads(ps)
      BY <1>1 DEF TypeOK, AtWork, Threads, Procs, ProcStates
    <2>3. Threads(proc')
      BY <2>1, <2>2, WithWorkerType
    <2>4. QED
      BY <1>3, <2>1, <2>3, StartedType DEF NotifyStart, TypeOK, AtWork, Threads
  <1>4. QED
    BY <1>2, <1>3 DEF NotifyStart

LEMMA NotifyChangedType ==
  ASSUME TypeOK, NEW c \in Client, NotifyChanged(c)
  PROVE  TypeOK'
  <1> DEFINE e == proc[c].event
  <1>1. c \in Proc /\ e \in Event /\ Done(c, "idle")
    BY DEF Proc, TypeOK, AtWork, NotifyChanged
  <1>2. Threads(proc')
    BY <1>1, DoneType
  <1>3. lost' \in [Event -> BOOLEAN]
    BY DEF NotifyChanged, TypeOK
  <1>4. FloorLeft(e) \in 0..MinAuto
    BY <1>1 DEF FloorLeft, TypeOK, Statuses
  <1>5. Waited(e) \in 0..MaxLatency
    BY <1>1, ConstantsAssumption DEF Waited, TypeOK, PendingChanges
  <1>6. TimersOK(timer') /\ pending' \in [Event -> PendingChanges \cup {None}]
                         /\ queue' \in Seq(Event \cup {None})
    <2>1. CASE CutShort(e)
      <3>1. timer' = TimersCancelled(e) /\ pending' = [pending EXCEPT ![e] = None] /\ Put(e)
        BY <2>1 DEF NotifyChanged
      <3>2. TimersOK(timer')
        BY <1>1, <3>1, CancelledOK
      <3>3. QED
        BY <1>1, <3>1, <3>2 DEF Put, TypeOK
    <2>2. CASE ~CutShort(e)
      <3>1. PICK t \in Timer :
              /\ timer' = [TimersCancelled(e) EXCEPT ![t] = Armed(e, AtLeast(Idle, FloorLeft(e)))]
              /\ pending' = [pending EXCEPT ![e] = [waited |-> Waited(e), timer |-> t]]
        BY <2>2 DEF NotifyChanged
      <3>2. AtLeast(Idle, FloorLeft(e)) \in Delays
        BY <1>4, ConstantsAssumption DEF AtLeast, Delays
      <3>3. Armed(e, AtLeast(Idle, FloorLeft(e))) \in Timers
        BY <1>1, <3>2, ArmedType
      <3>4. TimersOK(timer')
        BY <1>1, <3>1, <3>3, CancelledOK, SetTimerOK DEF Armed
      <3>5. [waited |-> Waited(e), timer |-> t] \in PendingChanges
        BY <1>5 DEF PendingChanges
      <3>6. QED
        BY <2>2, <3>1, <3>4, <3>5 DEF NotifyChanged, TypeOK
    <2>3. QED
      BY <2>1, <2>2
  <1>7. QED
    BY <1>2, <1>3, <1>6 DEF NotifyChanged, TypeOK, AtWork, Threads, TimersOK

LEMMA TimerStepType ==
  ASSUME TypeOK, NEW t \in Timer, TimerStep(t)
  PROVE  TypeOK'
  <1> DEFINE e == timer[t].event
  <1>0. timer[t] \in Timers /\ TimersOK(timer)
    BY DEF TypeOK, AtWork, TimersOK
  <1>1. FreeTimer \in Timers /\ FreeTimer.state = "free"
    BY ConstantsAssumption DEF FreeTimer, Timers, Delays
  <1>2. CASE Fire(t)
    <2>1. [timer[t] EXCEPT !.state = "fired"] \in Timers
      BY <1>0 DEF Timers
    <2>2. e \in Event
      BY <1>2 DEF Fire, TypeOK, AtWork
    <2>3. TimersOK(timer')
      BY <1>0, <1>2, <2>1, <2>2 DEF Fire, TimersOK, Timers
    <2>4. QED
      BY <1>2, <2>3 DEF Fire, TypeOK, AtWork, TimersOK
  <1>3. CASE OnIdle(t)
    <2>1. e \in Event
      BY <1>3 DEF OnIdle, TypeOK, AtWork
    <2>2. CASE pending[e] = None
      BY <1>0, <1>1, <1>3, <2>2, SetTimerOK DEF OnIdle, TypeOK, AtWork, TimersOK
    <2>3. CASE pending[e] # None /\ FloorLeft(e) > 0
      <3>1. FloorLeft(e) \in Delays
        BY <2>1, ConstantsAssumption DEF FloorLeft, TypeOK, Statuses, Delays
      <3>2. Armed(e, FloorLeft(e)) \in Timers
        BY <2>1, <3>1, ArmedType
      <3>3. TimersOK(timer')
        BY <1>0, <1>3, <2>1, <2>3, <3>2, SetTimerOK DEF OnIdle, Armed
      <3>4. pending' \in [Event -> PendingChanges \cup {None}]
        <4>1. pending[e] \in PendingChanges
          BY <2>1, <2>3 DEF TypeOK
        <4>2. [pending[e] EXCEPT !.timer = t] \in PendingChanges
          BY <4>1 DEF PendingChanges
        <4>3. pending' = [pending EXCEPT ![e] = [pending[e] EXCEPT !.timer = t]]
          BY <1>3, <2>1, <2>3 DEF OnIdle
        <4>4. QED
          BY <2>1, <4>2, <4>3 DEF TypeOK
      <3>5. QED
        BY <1>3, <2>3, <3>3, <3>4 DEF OnIdle, TypeOK, AtWork, TimersOK
    <2>4. CASE pending[e] # None /\ FloorLeft(e) = 0
      <3>1. [timer[t] EXCEPT !.state = "handing"] \in Timers
        BY <1>0 DEF Timers
      <3>2. TimersOK(timer')
        BY <1>0, <1>3, <2>1, <2>4, <3>1 DEF OnIdle, TimersOK, Timers
      <3>3. QED
        BY <1>3, <2>1, <2>4, <3>2 DEF OnIdle, TypeOK, AtWork, TimersOK
    <2>5. QED
      BY <1>3, <2>2, <2>3, <2>4 DEF OnIdle
  <1>4. CASE HandOver(t)
    <2>1. e \in Event
      BY <1>4 DEF HandOver, TypeOK, AtWork
    <2>2. queue' \in Seq(Event \cup {None})
      BY <1>4, <2>1 DEF HandOver, Put, TypeOK
    <2>3. TimersOK(timer')
      BY <1>0, <1>1, <1>4, SetTimerOK DEF HandOver
    <2>4. QED
      BY <1>4, <2>2, <2>3 DEF HandOver, TypeOK, AtWork, TimersOK
  <1>5. QED
    BY <1>2, <1>3, <1>4 DEF TimerStep

LEMMA TickType ==
  ASSUME TypeOK, Tick
  PROVE  TypeOK'
  <1>1. \A t \in Timer : /\ [timer[t] EXCEPT !.left = Less(timer[t].left)] \in Timers
                         /\ timer'[t].state = timer[t].state
                         /\ timer'[t].event = timer[t].event
    BY ConstantsAssumption DEF TypeOK, Timers, Less, Delays, Tick
  <1>2. timer' \in [Timer -> Timers]
    BY <1>1 DEF Tick
  <1>3. \A e \in Event : pending[e] # None => pending'[e] \in PendingChanges
    BY ConstantsAssumption, SMTT(60) DEF TypeOK, PendingChanges, Tick
  <1>4. pending' \in [Event -> PendingChanges \cup {None}]
    BY <1>3 DEF Tick
  <1>5. \A e \in Event : [status[e] EXCEPT !.floor = Less(status[e].floor)] \in Statuses
    <2> SUFFICES ASSUME NEW e \in Event
                 PROVE  [status[e] EXCEPT !.floor = Less(status[e].floor)] \in Statuses
      OBVIOUS
    <2>1. status[e] \in Statuses /\ status[e].floor \in 0..MinAuto
      BY DEF TypeOK, Statuses
    <2>2. Less(status[e].floor) \in 0..MinAuto
      BY <2>1, ConstantsAssumption DEF Less
    <2>3. QED
      BY <2>1, <2>2 DEF Statuses
  <1>6. status' \in [Event -> Statuses]
    BY <1>5 DEF Tick
  <1>7. AtWork'
    BY <1>1 DEF Tick, TypeOK, AtWork
  <1>8. QED
    BY <1>2, <1>4, <1>6, <1>7 DEF Tick, TypeOK

LEMMA BeginCopyType ==
  ASSUME TypeOK, NEW p \in Proc, BeginCopy(p)
  PROVE  TypeOK'
  <1> DEFINE e == proc[p].event
             s == IF exists[e] THEN "copying" ELSE "unread"
             r == [proc[p] EXCEPT !.pc = s, !.holds = exists[e] /\ unsaved[e]]
  <1>1. e \in Event
    BY DEF BeginCopy, TypeOK, AtWork
  <1>2. (exists[e] /\ unsaved[e]) \in BOOLEAN
    BY <1>1 DEF TypeOK
  <1>3. r \in Procs /\ r.event = e /\ r.pc # "retry"
    BY <1>1, <1>2 DEF TypeOK, Procs, ProcStates
  <1>4. proc' = [proc EXCEPT ![p] = r]
    BY DEF BeginCopy, TypeOK, Procs
  <1>5. Threads(proc')
    BY <1>1, <1>3, <1>4, MoveType
  <1>6. QED
    BY <1>5 DEF BeginCopy, TypeOK, AtWork, Threads

LEMMA TakeType ==
  ASSUME TypeOK, NEW w \in Worker, Take(w)
  PROVE  TypeOK'
  <1>1. w \in Proc /\ queue # <<>> /\ queue \in Seq(Event \cup {None})
    BY DEF Proc, Take, TypeOK
  <1>2. Head(queue) \in Event \cup {None} /\ queue' \in Seq(Event \cup {None})
    BY <1>1 DEF Take
  <1>3. Threads(proc')
    <2>1. CASE Head(queue) = None
      <3>1. Idler("absent") \in Procs /\ Idler("absent").pc = "absent"
        BY IdlerType DEF ProcStates, Idler
      <3>2. proc' = [proc EXCEPT ![w] = Idler("absent")]
        BY <2>1 DEF Take
      <3>3. QED
        BY <1>1, <3>1, <3>2 DEF Threads, TypeOK, AtWork
    <2>2. CASE Head(queue) # None
      <3> DEFINE r == [Idler("copy") EXCEPT !.event = Head(queue)]
      <3>1. r \in Procs /\ r.pc = "copy" /\ r.event = Head(queue)
        <4>1. Idler("copy") \in Procs /\ Idler("copy").pc = "copy"
          BY IdlerType DEF ProcStates, Idler
        <4>2. QED
          BY <1>2, <4>1 DEF Procs
      <3>2. proc' = [proc EXCEPT ![w] = r]
        BY <2>2 DEF Take
      <3>3. QED
        BY <1>1, <1>2, <2>2, <3>1, <3>2, MoveType
    <2>3. QED
      BY <2>1, <2>2
  <1>4. QED
    BY <1>2, <1>3 DEF Take, TypeOK, AtWork, Threads

\* What a copy that ends tells of the thread that made it.
LEMMA EndsType ==
  ASSUME TypeOK, NEW p \in Proc, NEW out, Ends(p, out)
  PROVE  /\ proc[p] \in Procs /\ proc[p].event \in Event
         /\ proc[p].attempt \in 1..Retries
  BY DEF Ends, TypeOK, AtWork, Procs

LEMMA LostType ==
  ASSUME TypeOK, NEW e \in Event, NEW b \in BOOLEAN
  PROVE  [lost EXCEPT ![e] = @ \/ b] \in [Event -> BOOLEAN]
  <1>1. (lost[e] \/ b) \in BOOLEAN
    BY DEF TypeOK
  <1>2. QED
    BY <1>1 DEF TypeOK

LEMMA CopiedType ==
  ASSUME TypeOK, NEW p \in Proc, Ends(p, "ok"), Saved(p), Forgotten(p),
         SuccessRecorded(proc[p].event)
  PROVE  /\ status' \in [Event -> Statuses]
         /\ unsaved' \in [Event -> BOOLEAN] /\ lost' \in [Event -> BOOLEAN]
  <1> DEFINE e == proc[p].event
             b == status[e].failure # None /\ ~proc[p].holds /\ ~Covered(e)
  <1>1. e \in Event /\ proc[p] \in Procs
    BY EndsType
  <1>2. status' \in [Event -> Statuses]
    BY <1>1, SuccessType
  <1>3. unsaved' \in [Event -> BOOLEAN]
    BY <1>1 DEF Saved, TypeOK
  <1>4. lost' = [lost EXCEPT ![e] = @ \/ b] /\ b \in BOOLEAN
    BY DEF Forgotten
  <1>5. QED
    BY <1>1, <1>2, <1>3, <1>4, LostType

LEMMA WriteSucceedsType ==
  ASSUME TypeOK, NEW w \in Worker, WriteSucceeds(w)
  PROVE  TypeOK'
  <1>1. w \in Proc /\ Threads(proc')
    BY DoneType DEF Proc, WriteSucceeds
  <1>2. QED
    BY <1>1, CopiedType DEF WriteSucceeds, TypeOK, AtWork, Threads

LEMMA DirectSucceedsType ==
  ASSUME TypeOK, NEW c \in Client, DirectSucceeds(c)
  PROVE  TypeOK'
  <1>1. c \in Proc /\ Threads(proc')
    BY DoneType DEF Proc, DirectSucceeds
  <1>2. QED
    BY <1>1, CopiedType DEF DirectSucceeds, TypeOK, AtWork, Threads

LEMMA DirectFailsType ==
  ASSUME TypeOK, NEW c \in Client, NEW f \in Failures, DirectFails(c, f)
  PROVE  TypeOK'
  <1>1. c \in Proc /\ Threads(proc')
    BY DoneType DEF Proc, DirectFails
  <1>2. proc[c].event \in Event
    BY <1>1, EndsType DEF DirectFails
  <1>3. status' \in [Event -> Statuses]
    BY <1>2, FailureType DEF DirectFails
  <1>4. QED
    BY <1>1, <1>2, <1>3 DEF DirectFails, TypeOK, AtWork, Threads

LEMMA WriteFailsType ==
  ASSUME TypeOK, NEW w \in Worker, NEW f \in Failures, WriteFails(w, f)
  PROVE  TypeOK'
  <1> DEFINE e == proc[w].event
  <1>1. w \in Proc /\ e \in Event /\ proc[w] \in Procs /\ proc[w].attempt \in 1..Retries
    BY EndsType DEF Proc, WriteFails
  <1>2. status' \in [Event -> Statuses]
    BY <1>1, FailureType DEF WriteFails
  <1>3. Threads(proc') /\ lost' \in [Event -> BOOLEAN]
    <2>1. CASE f = "transient" /\ proc[w].attempt < Retries /\ Goto(w, "retry")
               /\ UNCHANGED lost
      <3> DEFINE r == [proc[w] EXCEPT !.pc = "retry"]
      <3>1. r \in Procs /\ r.event = e /\ r.attempt = proc[w].attempt
        BY <1>1 DEF Procs, ProcStates
      <3>2. proc' = [proc EXCEPT ![w] = r]
        BY <2>1 DEF Goto
      <3>3. QED
        BY <1>1, <2>1, <3>1, <3>2, MoveType DEF TypeOK
    <2>2. CASE /\ proc[w].attempt < Retries /\ UNCHANGED lost
               /\ proc' = [proc EXCEPT ![w].pc = "copy", ![w].attempt = @ + 1]
      <3> DEFINE r == [proc[w] EXCEPT !.pc = "copy", !.attempt = @ + 1]
      <3>1. r \in Procs /\ r.event = e /\ r.pc = "copy"
        <4>1. proc[w].attempt + 1 \in 1..Retries
          BY <1>1, <2>2, ConstantsAssumption
        <4>2. QED
          BY <1>1, <4>1 DEF Procs, ProcStates
      <3>2. proc' = [proc EXCEPT ![w] = r]
        BY <1>1, <2>2 DEF TypeOK, Procs
      <3>3. QED
        BY <1>1, <2>2, <3>1, <3>2, MoveType DEF TypeOK
    <2>3. CASE /\ Done(w, "get")
               /\ lost' = [lost EXCEPT ![e] =
                             @ \/ (f = "transient" /\ status[e].count + 1 < Retries)]
      <3>1. (f = "transient" /\ status[e].count + 1 < Retries) \in BOOLEAN
        OBVIOUS
      <3>2. lost' \in [Event -> BOOLEAN]
        BY <1>1, <2>3, <3>1, LostType
      <3>3. QED
        BY <1>1, <2>3, <3>2, DoneType
    <2>4. QED
      BY <2>1, <2>2, <2>3 DEF WriteFails
  <1>4. QED
    BY <1>2, <1>3 DEF WriteFails, TypeOK, AtWork, Threads

LEMMA RetryType ==
  ASSUME TypeOK, NEW w \in Worker, Retry(w)
  PROVE  TypeOK'
  <1>1. /\ w \in Proc /\ proc[w] \in Procs /\ proc[w].event \in Event
        /\ proc[w].attempt < Retries /\ proc[w].attempt \in 1..Retries
    BY DEF Proc, Retry, TypeOK, AtWork, Procs
  <1>2. CASE stopping
    <2>1. Threads(proc')
      BY <1>1, <1>2, DoneType DEF Retry
    <2>2. QED
      BY <1>2, <2>1 DEF Retry, TypeOK, AtWork, Threads
  <1>3. CASE ~stopping
    <2> DEFINE r == [proc[w] EXCEPT !.pc = "copy", !.attempt = @ + 1]
    <2>1. r \in Procs /\ r.event = proc[w].event /\ r.pc = "copy"
      <3>1. proc[w].attempt + 1 \in 1..Retries
        BY <1>1, ConstantsAssumption
      <3>2. QED
        BY <1>1, <3>1 DEF Procs, ProcStates
    <2>2. proc' = [proc EXCEPT ![w] = r]
      BY <1>1, <1>3 DEF Retry, TypeOK, Procs
    <2>3. Threads(proc')
      BY <1>1, <2>1, <2>2, MoveType
    <2>4. QED
      BY <1>3, <2>3 DEF Retry, TypeOK, AtWork, Threads
  <1>4. QED
    BY <1>2, <1>3

LEMMA MishapType ==
  ASSUME TypeOK, NEW p \in Proc, Mishap(p)
  PROVE  TypeOK'
  <1>1. proc[p].event \in Event
    BY DEF Mishap, TypeOK, AtWork
  <1>2. Threads(proc')
    <2>1. CASE p \in Client
      BY <2>1, DoneType DEF Mishap
    <2>2. CASE p \notin Client
      BY <2>2, DoneType DEF Mishap, Proc
    <2>3. QED
      BY <2>1, <2>2
  <1>3. QED
    BY <1>1, <1>2 DEF Mishap, TypeOK, AtWork, Threads

LEMMA RequestType ==
  ASSUME TypeOK, NEW c \in Client, NEW e \in Event, Direct(c, e) \/ Remove(c, e)
  PROVE  TypeOK'
  <1>1. c \in Proc /\ proc[c] \in Procs
    BY DEF Proc, TypeOK
  <1>2. CASE Direct(c, e)
    <2> DEFINE r == [proc[c] EXCEPT !.pc = "copy", !.event = e]
    <2>1. r \in Procs /\ r.event = e /\ r.pc = "copy"
      BY <1>1 DEF Procs, ProcStates
    <2>2. proc' = [proc EXCEPT ![c] = r]
      BY <1>1, <1>2 DEF Direct, TypeOK, Procs
    <2>3. Threads(proc')
      BY <1>1, <2>1, <2>2, MoveType
    <2>4. TimersOK(timer')
      BY <1>2, CancelledOK DEF Direct
    <2>5. QED
      BY <1>2, <2>3, <2>4 DEF Direct, TypeOK, AtWork, Threads, TimersOK
  <1>3. CASE Remove(c, e)
    <2> DEFINE r == [proc[c] EXCEPT !.pc = "gone", !.event = e]
    <2>1. r \in Procs /\ r.event = e /\ r.pc = "gone"
      BY <1>1 DEF Procs, ProcStates
    <2>2. proc' = [proc EXCEPT ![c] = r]
      BY <1>1, <1>3 DEF Remove, TypeOK, Procs
    <2>3. Threads(proc')
      BY <1>1, <2>1, <2>2, MoveType
    <2>4. QED
      BY <1>3, <2>3 DEF Remove, TypeOK, AtWork, Threads
  <1>4. QED
    BY <1>2, <1>3

LEMMA ForgetType ==
  ASSUME TypeOK, NEW c \in Client, Forget(c)
  PROVE  TypeOK'
  <1> DEFINE e == proc[c].event
  <1>1. c \in Proc /\ proc[c] \in Procs /\ e \in Event
    BY DEF Proc, TypeOK, AtWork, Forget
  <1>2. CASE proc[c].pc = "gone"
    <2> DEFINE r == [proc[c] EXCEPT !.pc = "popped"]
    <2>1. r \in Procs /\ r.event = e /\ r.pc = "popped"
      BY <1>1 DEF Procs, ProcStates
    <2>2. proc' = [proc EXCEPT ![c] = r]
      BY <1>2 DEF Forget, Goto
    <2>3. Threads(proc')
      BY <1>1, <2>1, <2>2, MoveType
    <2>4. TimersOK(timer')
      BY <1>1, <1>2, CancelledOK DEF Forget
    <2>5. QED
      BY <1>2, <2>3, <2>4 DEF Forget, TypeOK, AtWork, Threads, TimersOK
  <1>3. CASE proc[c].pc = "popped"
    <2>1. Threads(proc')
      BY <1>1, <1>3, DoneType DEF Forget
    <2>2. NoStatus \in Statuses
      BY ConstantsAssumption DEF NoStatus, Statuses
    <2>3. QED
      BY <1>3, <2>1, <2>2 DEF Forget, TypeOK, AtWork, Threads
  <1>4. QED
    BY <1>2, <1>3 DEF Forget

LEMMA ServerType ==
  ASSUME TypeOK, Toggle \/ Boot \/ Stop \/ \E e \in Event : Create(e)
  PROVE  TypeOK'
  <1>1. CASE Toggle
    <2>1. NoStatus \in Statuses
      BY ConstantsAssumption DEF NoStatus, Statuses
    <2>2. \A e \in Event : (lost[e] \/ status[e].failure # None) \in BOOLEAN
      BY DEF TypeOK
    <2>3. QED
      BY <1>1, <2>1, <2>2 DEF Toggle, TypeOK, AtWork
  <1>2. CASE Boot
    <2>1. Threads(proc')
      BY <1>2, WithWorkerType DEF Boot, TypeOK, AtWork, Threads
    <2>2. QED
      BY <1>2, <2>1, StartedType DEF Boot, TypeOK, AtWork, Threads
  <1>3. CASE Stop
    <2>1. FreeTimer \in Timers /\ FreeTimer.state = "free"
      BY ConstantsAssumption DEF FreeTimer, Timers, Delays
    <2>2. CASE exit = "set"
      <3>1. TimersOK(timer')
        BY <1>3, <2>1, <2>2 DEF Stop, TypeOK, AtWork, TimersOK
      <3>2. \A e \in Event : (lost[e] \/ pending[e] # None) \in BOOLEAN
        BY DEF TypeOK
      <3>3. lost' \in [Event -> BOOLEAN] /\ pending' \in [Event -> PendingChanges \cup {None}]
        BY <1>3, <2>2, <3>2 DEF Stop
      <3>4. QED
        BY <1>3, <2>2, <3>1, <3>3 DEF Stop, TypeOK, AtWork, TimersOK
    <2>3. CASE exit # "set"
      <3>1. queue' \in Seq(Event \cup {None}) /\ UNCHANGED <<pending, timer, worker, lost>>
        BY <1>3, <2>3 DEF Stop, Put, TypeOK
      <3>2. stopping' \in BOOLEAN /\ exit' \in {"running", "set", "cleared", "done"}
        BY <1>3, <2>3 DEF Stop, TypeOK
      <3>3. QED
        BY <1>3, <3>1, <3>2 DEF Stop, TypeOK, AtWork
    <2>4. QED
      BY <2>2, <2>3
  <1>4. CASE \E e \in Event : Create(e)
    BY <1>4 DEF Create, TypeOK, AtWork
  <1>5. QED
    BY <1>1, <1>2, <1>3, <1>4

-----------------------------------------------------------------------------
(* Type correctness, with what each thread knows of its event.             *)
THEOREM TypeCorrect == Spec => []TypeOK
  <1>1. Init => TypeOK
    BY InitType
  <1>2. TypeOK /\ [Next]_vars => TypeOK'
    <2> SUFFICES ASSUME TypeOK, [Next]_vars PROVE TypeOK'
      OBVIOUS
    <2>1. ASSUME NEW c \in Client, Request(c) PROVE TypeOK'
      BY <2>1, CommitType, RequestType DEF Request
    <2>2. ASSUME NEW c \in Client, ClientStep(c) PROVE TypeOK'
      <3>1. c \in Proc
        BY DEF Proc
      <3>2. QED
        BY <2>2, <3>1, NotifyStartType, NotifyChangedType, BeginCopyType, MishapType,
           DirectSucceedsType, DirectFailsType, ForgetType DEF ClientStep
    <2>3. ASSUME NEW w \in Worker, WorkerStep(w) PROVE TypeOK'
      <3>1. w \in Proc
        BY DEF Proc
      <3>2. QED
        BY <2>3, <3>1, TakeType, BeginCopyType, MishapType, RetryType, WriteSucceedsType,
           WriteFailsType DEF WorkerStep
    <2>4. CASE UNCHANGED vars
      BY <2>4 DEF vars, TypeOK, AtWork
    <2>5. QED
      BY <2>1, <2>2, <2>3, <2>4, TimerStepType, TickType, ServerType DEF Next
  <1>3. QED
    BY <1>1, <1>2, PTL DEF Spec

-----------------------------------------------------------------------------
(* No pending change is stranded.  The types and the property itself are   *)
(* inductive: a timer belongs to one event for as long as it is armed or   *)
(* fired, so cancelling the timer of one event never takes another's.      *)

LEMMA CancelledElsewhere ==
  ASSUME TypeOK, NoStrandedPending, NEW e \in Event, NEW f \in Event, f # e,
         pending[f] # None
  PROVE  TimersCancelled(e)[pending[f].timer] = timer[pending[f].timer]
  <1>1. CASE pending[e] # None /\ timer[pending[e].timer].state = "armed"
    <2>1. pending[e].timer # pending[f].timer
      BY <1>1 DEF NoStrandedPending
    <2>2. QED
      BY <1>1, <2>1 DEF TimersCancelled, TypeOK
  <1>2. CASE ~(pending[e] # None /\ timer[pending[e].timer].state = "armed")
    BY <1>2 DEF TimersCancelled
  <1>3. QED
    BY <1>1, <1>2

LEMMA GivenUpKeeps ==
  ASSUME TypeOK, NoStrandedPending, NEW e \in Event,
         timer' = TimersCancelled(e), pending' = [pending EXCEPT ![e] = None]
  PROVE  NoStrandedPending'
  BY CancelledElsewhere DEF NoStrandedPending, TypeOK

LEMMA NotifyKeeps ==
  ASSUME TypeOK, NoStrandedPending, NEW c \in Client, NotifyChanged(c)
  PROVE  NoStrandedPending'
  <1> DEFINE e == proc[c].event
  <1>1. e \in Event
    BY DEF Proc, TypeOK, AtWork, NotifyChanged
  <1>2. CASE CutShort(e)
    BY <1>1, <1>2, GivenUpKeeps DEF NotifyChanged
  <1>3. CASE ~CutShort(e)
    <2> DEFINE armed == Armed(e, AtLeast(Idle, FloorLeft(e)))
    <2>1. PICK t \in Timer :
            /\ TimersCancelled(e)[t].state = "free"
            /\ timer' = [TimersCancelled(e) EXCEPT ![t] = armed]
            /\ pending' = [pending EXCEPT ![e] = [waited |-> Waited(e), timer |-> t]]
      BY <1>3 DEF NotifyChanged
    <2>2. TimersCancelled(e) \in [Timer -> Timers]
      BY <1>1, CancelledType
    <2>3. armed.event = e /\ armed.state = "armed"
      BY DEF Armed
    <2>4. ASSUME NEW f \in Event, pending'[f] # None
          PROVE  /\ timer'[pending'[f].timer].event = f
                 /\ timer'[pending'[f].timer].state \in {"armed", "fired"}
      <3>1. CASE f = e
        BY <1>1, <2>1, <2>2, <2>3, <3>1 DEF TypeOK
      <3>2. CASE f # e
        <4>1. pending'[f] = pending[f] /\ pending[f].timer \in Timer
          BY <1>1, <2>1, <2>4, <3>2 DEF TypeOK, PendingChanges
        <4>2. TimersCancelled(e)[pending[f].timer] = timer[pending[f].timer]
          BY <1>1, <2>4, <3>2, <4>1, CancelledElsewhere
        <4>3. pending[f].timer # t
          BY <2>1, <2>4, <4>1, <4>2 DEF NoStrandedPending
        <4>4. QED
          BY <2>1, <2>2, <2>4, <4>1, <4>2, <4>3 DEF NoStrandedPending
      <3>3. QED
        BY <3>1, <3>2
    <2>5. QED
      BY <2>4 DEF NoStrandedPending
  <1>4. QED
    BY <1>2, <1>3

LEMMA TimerStepKeeps ==
  ASSUME TypeOK, NoStrandedPending, NEW t \in Timer, TimerStep(t)
  PROVE  NoStrandedPending'
  <1> DEFINE e == timer[t].event
  <1>1. CASE Fire(t)
    <2>1. /\ timer' \in [Timer -> Timers] /\ pending' = pending
          /\ \A u \in Timer : timer'[u].event = timer[u].event
          /\ \A u \in Timer : timer'[u].state = IF u = t THEN "fired" ELSE timer[u].state
      BY <1>1 DEF Fire, TypeOK, Timers
    <2>2. QED
      BY <2>1 DEF NoStrandedPending, TypeOK, PendingChanges
  <1>2. CASE OnIdle(t)
    <2>1. e \in Event
      BY <1>2 DEF OnIdle, TypeOK, AtWork
    <2>2. \A f \in Event : pending[f] # None => pending[f].timer \in Timer
      BY DEF TypeOK, PendingChanges
    <2>3. \A f \in Event : pending[f] # None /\ pending[f].timer = t => f = e
      BY DEF NoStrandedPending
    <2>4. CASE pending[e] = None
      BY <1>2, <2>1, <2>2, <2>3, <2>4 DEF OnIdle, NoStrandedPending, TypeOK
    <2>5. CASE pending[e] # None /\ FloorLeft(e) > 0
      <3>1. timer' = [timer EXCEPT ![t] = Armed(e, FloorLeft(e))]
        BY <1>2, <2>5 DEF OnIdle
      <3>2. Armed(e, FloorLeft(e)).event = e /\ Armed(e, FloorLeft(e)).state = "armed"
        BY DEF Armed
      <3>3. /\ \A f \in Event : f # e => pending'[f] = pending[f]
            /\ pending'[e].timer = t
        <4>1. pending[e] \in PendingChanges /\ pending' = [pending EXCEPT ![e].timer = t]
          BY <1>2, <2>1, <2>5 DEF OnIdle, TypeOK
        <4>2. QED
          BY <2>1, <4>1 DEF TypeOK, PendingChanges
      <3>4. QED
        BY <2>1, <2>2, <2>3, <3>1, <3>2, <3>3 DEF NoStrandedPending, TypeOK
    <2>6. CASE pending[e] # None /\ FloorLeft(e) = 0
      <3>1. pending' = [pending EXCEPT ![e] = None]
            /\ timer' = [timer EXCEPT ![t].state = "handing"]
        BY <1>2, <2>6, <2>1, ConstantsAssumption DEF OnIdle
      <3>2. QED
        BY <2>1, <2>2, <2>3, <3>1 DEF NoStrandedPending, TypeOK
    <2>7. QED
      BY <1>2, <2>4, <2>5, <2>6 DEF OnIdle
  <1>3. CASE HandOver(t)
    BY <1>3 DEF HandOver, NoStrandedPending, TypeOK, PendingChanges
  <1>4. QED
    BY <1>1, <1>2, <1>3 DEF TimerStep

LEMMA TickKeeps ==
  ASSUME TypeOK, NoStrandedPending, Tick
  PROVE  NoStrandedPending'
  <1>1. \A t \in Timer : timer'[t].state = timer[t].state /\ timer'[t].event = timer[t].event
    BY DEF Tick, TypeOK, Timers
  <1>2. \A e \in Event : /\ pending'[e] # None => pending[e] # None
                         /\ pending[e] # None => pending'[e].timer = pending[e].timer
    BY DEF Tick, TypeOK, PendingChanges
  <1>3. QED
    BY <1>1, <1>2 DEF NoStrandedPending, TypeOK, PendingChanges

\* Every change that waits to be snapshotted has a timer that will wake it up.
THEOREM NothingStranded == Spec => []NoStrandedPending
  <1>1. Init => NoStrandedPending
    BY DEF Init, NoStrandedPending
  <1>2. TypeOK /\ NoStrandedPending /\ [Next]_vars => NoStrandedPending'
    <2> SUFFICES ASSUME TypeOK, NoStrandedPending, [Next]_vars PROVE NoStrandedPending'
      OBVIOUS
    <2>1. CASE UNCHANGED <<pending, timer>>
      BY <2>1 DEF NoStrandedPending
    <2>2. ASSUME NEW c \in Client, Request(c) PROVE NoStrandedPending'
      <3>1. ASSUME NEW e \in Event, Direct(c, e) PROVE NoStrandedPending'
        BY <3>1, GivenUpKeeps DEF Direct
      <3>2. ASSUME NEW e \in Event, Commit(c, e) \/ Remove(c, e) PROVE NoStrandedPending'
        BY <2>1, <3>2 DEF Commit, Remove
      <3>3. QED
        BY <2>2, <3>1, <3>2 DEF Request
    <2>3. ASSUME NEW c \in Client, ClientStep(c) PROVE NoStrandedPending'
      <3>1. CASE NotifyChanged(c)
        BY <3>1, NotifyKeeps
      <3>2. CASE Forget(c)
        <4>1. CASE proc[c].pc = "gone"
          <5>1. proc[c].event \in Event
            BY <4>1 DEF TypeOK, AtWork, Proc
          <5>2. QED
            BY <3>2, <4>1, <5>1, GivenUpKeeps DEF Forget
        <4>2. CASE proc[c].pc = "popped"
          BY <2>1, <3>2, <4>2 DEF Forget
        <4>3. QED
          BY <3>2, <4>1, <4>2 DEF Forget
      <3>3. CASE NotifyStart(c) \/ BeginCopy(c) \/ Mishap(c) \/ DirectSucceeds(c)
                 \/ \E f \in Failures : DirectFails(c, f)
        BY <2>1, <3>3 DEF NotifyStart, BeginCopy, Mishap, DirectSucceeds, DirectFails
      <3>4. QED
        BY <2>3, <3>1, <3>2, <3>3 DEF ClientStep
    <2>4. ASSUME NEW w \in Worker, WorkerStep(w) PROVE NoStrandedPending'
      BY <2>1, <2>4 DEF WorkerStep, Take, BeginCopy, Mishap, Retry, WriteSucceeds, WriteFails
    <2>5. CASE Stop
      BY <2>1, <2>5 DEF Stop, NoStrandedPending, TypeOK
    <2>6. CASE Toggle \/ Boot \/ \E e \in Event : Create(e)
      BY <2>1, <2>6 DEF Toggle, Boot, Create
    <2>7. QED
      BY <2>1, <2>2, <2>3, <2>4, <2>5, <2>6, TimerStepKeeps, TickKeeps DEF Next, vars
  <1>3. QED
    BY <1>1, <1>2, TypeCorrect, PTL DEF Spec

-----------------------------------------------------------------------------
(* No worker thread is forgotten.  WorkersAccounted is inductive given the *)
(* types and that finitely many threads are alive: a start adds a thread   *)
(* and the worker it is, a stop trades the worker for a None to come and   *)
(* then for one in the queue, and a thread that takes a None ends.         *)

Alive == {w \in Worker : proc[w].pc # "absent"}
Nones(q) == {i \in DOMAIN q : q[i] = None}

Owed ==
  (IF worker = None THEN 0 ELSE 1) + (IF exit = "cleared" THEN 1 ELSE 0)
  + Cardinality(Nones(queue))

Accounted == IsFiniteSet(Alive) /\ Cardinality(Alive) <= Owed
-----------------------------------------------------------------------------
(* The Nones of a queue.                                                   *)

LEMMA NonesFinite ==
  ASSUME NEW S, NEW q \in Seq(S)
  PROVE  IsFiniteSet(Nones(q)) /\ Cardinality(Nones(q)) \in Nat
  <1>1. IsFiniteSet(1..Len(q))
    BY FS_Interval
  <1>2. Nones(q) \in SUBSET (1..Len(q))
    BY DEF Nones
  <1>3. QED
    BY <1>1, <1>2, FS_Subset, FS_CardinalityType

LEMMA NonesAppend ==
  ASSUME NEW S, NEW q \in Seq(S), NEW x \in S
  PROVE  Cardinality(Nones(Append(q, x))) =
           Cardinality(Nones(q)) + (IF x = None THEN 1 ELSE 0)
  <1>1. /\ DOMAIN Append(q, x) = 1..(Len(q) + 1)
        /\ DOMAIN q = 1..Len(q) /\ Len(q) \in Nat
        /\ Append(q, x)[Len(q) + 1] = x
        /\ \A i \in 1..Len(q) : Append(q, x)[i] = q[i]
    OBVIOUS
  <1>2. CASE x = None
    <2>1. Nones(Append(q, x)) = Nones(q) \cup {Len(q) + 1}
      BY <1>1, <1>2 DEF Nones
    <2>2. Len(q) + 1 \notin Nones(q)
      BY <1>1 DEF Nones
    <2>3. QED
      BY <1>2, <2>1, <2>2, NonesFinite, FS_AddElement
  <1>3. CASE x # None
    <2>1. Nones(Append(q, x)) = Nones(q)
      BY <1>1, <1>3 DEF Nones
    <2>2. QED
      BY <1>3, <2>1, NonesFinite
  <1>4. QED
    BY <1>2, <1>3

LEMMA NonesTail ==
  ASSUME NEW S, NEW q \in Seq(S), q # <<>>
  PROVE  Cardinality(Nones(q)) =
           Cardinality(Nones(Tail(q))) + (IF Head(q) = None THEN 1 ELSE 0)
  <1> DEFINE rest == Nones(q) \ {1}
  <1>1. /\ Tail(q) \in Seq(S) /\ Len(q) \in Nat /\ Len(q) > 0
        /\ DOMAIN q = 1..Len(q) /\ DOMAIN Tail(q) = 1..(Len(q) - 1)
        /\ \A i \in 1..(Len(q) - 1) : Tail(q)[i] = q[i + 1]
        /\ Head(q) = q[1]
    OBVIOUS
  <1>2. PICK f : f = [i \in Nones(Tail(q)) |-> i + 1]
    OBVIOUS
  <1>3. f \in Bijection(Nones(Tail(q)), rest)
    <2>1. f \in [Nones(Tail(q)) -> rest]
      BY <1>1, <1>2 DEF Nones
    <2>2. \A i, j \in Nones(Tail(q)) : f[i] = f[j] => i = j
      BY <1>1, <1>2 DEF Nones
    <2>3. \A j \in rest : \E i \in Nones(Tail(q)) : f[i] = j
      <3> SUFFICES ASSUME NEW j \in rest PROVE j - 1 \in Nones(Tail(q)) /\ f[j - 1] = j
        OBVIOUS
      <3>1. j \in 2..Len(q) /\ q[j] = None
        BY <1>1 DEF Nones
      <3>2. j - 1 \in Nones(Tail(q))
        BY <1>1, <3>1 DEF Nones
      <3>3. QED
        BY <1>2, <3>1, <3>2
    <2>4. QED
      BY <2>1, <2>2, <2>3 DEF Bijection, Injection, Surjection, IsInjective
  <1>4. Cardinality(rest) = Cardinality(Nones(Tail(q)))
    <2>1. ExistsBijection(Nones(Tail(q)), rest)
      BY <1>3 DEF ExistsBijection
    <2>2. IsFiniteSet(Nones(Tail(q)))
      BY <1>1, NonesFinite
    <2>3. QED
      BY <2>1, <2>2, FS_Bijection
  <1>5. Cardinality(rest) = IF 1 \in Nones(q) THEN Cardinality(Nones(q)) - 1
                                              ELSE Cardinality(Nones(q))
    BY NonesFinite, FS_RemoveElement
  <1>6. 1 \in Nones(q) <=> Head(q) = None
    BY <1>1 DEF Nones
  <1>7. Cardinality(Nones(q)) \in Nat /\ Cardinality(Nones(Tail(q))) \in Nat
    BY <1>1, NonesFinite
  <1>8. QED
    BY <1>4, <1>5, <1>6, <1>7

-----------------------------------------------------------------------------
(* The steps.                                                              *)

\* What the steps that neither start, stop nor end a thread have in common.
Quiet ==
  /\ \A w \in Worker : proc'[w].pc = "absent" <=> proc[w].pc = "absent"
  /\ UNCHANGED <<worker, exit>>
  /\ queue' = queue \/ \E e \in Event : Put(e)

LEMMA QuietKeeps ==
  ASSUME TypeOK, Accounted, Quiet
  PROVE  Accounted'
  <1>1. Alive' = Alive
    BY DEF Quiet, Alive
  <1>2. Cardinality(Nones(queue')) = Cardinality(Nones(queue))
    <2>1. CASE queue' = queue
      BY <2>1
    <2>2. ASSUME NEW e \in Event, Put(e)
          PROVE  Cardinality(Nones(queue')) = Cardinality(Nones(queue))
      <3>1. e # None /\ queue' = Append(queue, e)
        BY <2>2, ConstantsAssumption DEF Put
      <3>2. queue \in Seq(Event \cup {None})
        BY DEF TypeOK
      <3>3. Cardinality(Nones(queue)) \in Nat
        BY <3>2, NonesFinite
      <3>4. QED
        BY <3>1, <3>2, <3>3, NonesAppend
    <2>3. QED
      BY <2>1, <2>2 DEF Quiet
  <1>3. Owed' = Owed
    BY <1>2 DEF Quiet, Owed
  <1>4. QED
    BY <1>1, <1>3 DEF Accounted

LEMMA OwedNat == ASSUME TypeOK PROVE Owed \in Nat /\ Cardinality(Nones(queue)) \in Nat
  <1>1. queue \in Seq(Event \cup {None})
    BY DEF TypeOK
  <1>2. QED
    BY <1>1, NonesFinite DEF Owed

\* start() adds a thread, which is the worker.
LEMMA StartKeeps ==
  ASSUME TypeOK, Accounted, NEW ps, Started, proc' = WithWorker(ps),
         ps \in [Proc -> Procs],
         \A w \in Worker : ps[w].pc = proc[w].pc, UNCHANGED <<queue, exit>>
  PROVE  Accounted'
  <1>1. CASE worker' = worker
    <2>1. \A w \in Worker : proc'[w].pc = proc[w].pc
      BY <1>1 DEF WithWorker
    <2>2. QED
      BY <1>1, <2>1, QuietKeeps DEF Quiet
  <1>2. CASE worker' # worker
    <2>1. worker = None /\ worker' \in Worker /\ proc[worker'].pc = "absent"
      BY <1>2 DEF Started
    <2>2. proc' = [ps EXCEPT ![worker'] = Idler("get")] /\ Idler("get").pc = "get"
      BY <1>2 DEF WithWorker, Idler
    <2>3. Alive' = Alive \cup {worker'} /\ worker' \notin Alive
      <3>1. \A w \in Worker : w \in Proc
        BY DEF Proc
      <3>2. QED
        BY <2>1, <2>2, <3>1 DEF Alive
    <2>4. IsFiniteSet(Alive') /\ Cardinality(Alive') = Cardinality(Alive) + 1
      BY <2>3, FS_AddElement DEF Accounted
    <2>5. worker' # None
      BY <2>1, ConstantsAssumption
    <2>6. Owed' = Owed + 1
      BY <2>1, <2>5, OwedNat DEF Owed
    <2>7. QED
      BY <2>4, <2>6, OwedNat, FS_CardinalityType DEF Accounted
  <1>3. QED
    BY <1>1, <1>2

LEMMA TakeKeeps ==
  ASSUME TypeOK, Accounted, NEW w \in Worker, Take(w)
  PROVE  Accounted'
  <1>1. queue \in Seq(Event \cup {None}) /\ queue # <<>> /\ queue' = Tail(queue)
    BY DEF Take, TypeOK
  <1>2. Cardinality(Nones(queue)) =
          Cardinality(Nones(queue')) + (IF Head(queue) = None THEN 1 ELSE 0)
    BY <1>1, NonesTail
  <1>3. queue' \in Seq(Event \cup {None})
    BY <1>1
  <1>4. Cardinality(Nones(queue')) \in Nat /\ Cardinality(Nones(queue)) \in Nat
    BY <1>1, <1>3, NonesFinite
  <1>5. Owed = Owed' + (IF Head(queue) = None THEN 1 ELSE 0)
    BY <1>2, <1>4 DEF Take, Owed
  <1>6. w \in Alive /\ w \in Proc /\ \A v \in Worker : v \in Proc
    BY DEF Take, Alive, Proc
  <1>7. CASE Head(queue) = None
    <2>1. Alive' = Alive \ {w}
      BY <1>6, <1>7 DEF Take, Alive, Idler, TypeOK
    <2>2. IsFiniteSet(Alive') /\ Cardinality(Alive') = Cardinality(Alive) - 1
      BY <1>6, <2>1, FS_RemoveElement DEF Accounted
    <2>3. Cardinality(Alive) \in Nat /\ Cardinality(Alive) <= Owed
      BY FS_CardinalityType DEF Accounted
    <2>4. Owed' \in Nat
      BY <1>4 DEF Owed
    <2>5. Cardinality(Alive') <= Owed'
      BY <1>5, <1>7, <2>2, <2>3, <2>4
    <2>6. QED
      BY <2>2, <2>5 DEF Accounted
  <1>8. CASE Head(queue) # None
    <2>1. Alive' = Alive
      BY <1>6, <1>8 DEF Take, Alive, Idler, TypeOK
    <2>2. QED
      BY <1>4, <1>5, <1>8, <2>1 DEF Accounted, Owed
  <1>9. QED
    BY <1>7, <1>8

LEMMA StopKeeps ==
  ASSUME TypeOK, Accounted, Stop
  PROVE  Accounted'
  <1>1. Alive' = Alive
    BY DEF Stop, Alive
  <1>2. queue \in Seq(Event \cup {None}) /\ Cardinality(Nones(queue)) \in Nat
    BY OwedNat DEF TypeOK
  <1>3. CASE exit = "running"
    BY <1>1, <1>3 DEF Stop, Accounted, Owed
  <1>4. CASE exit = "set"
    BY <1>1, <1>2, <1>4 DEF Stop, Accounted, Owed
  <1>5. CASE exit = "cleared"
    <2>1. Put(None) /\ exit' = "done" /\ worker' = worker
      BY <1>5 DEF Stop
    <2>2. Cardinality(Nones(queue')) = Cardinality(Nones(queue)) + 1
      BY <1>2, <2>1, NonesAppend DEF Put
    <2>3. Owed' = Owed
      BY <1>2, <1>5, <2>1, <2>2 DEF Owed
    <2>4. QED
      BY <1>1, <2>3 DEF Accounted
  <1>6. QED
    BY <1>3, <1>4, <1>5 DEF Stop

LEMMA ClientQuiet ==
  ASSUME TypeOK, NEW c \in Client, ClientStep(c) \/ Request(c), ~NotifyStart(c)
  PROVE  Quiet
  <1>1. c \notin Worker /\ \A w \in Worker : w \in Proc /\ proc[w] \in Procs
    BY ConstantsAssumption DEF Proc, TypeOK
  <1>2. ASSUME NEW e \in Event, Commit(c, e) PROVE Quiet
    <2>1. proc \in [Proc -> Procs] /\ c \in Proc
      BY DEF TypeOK, Proc
    <2>2. \A w \in Worker : proc'[w].pc = proc[w].pc
      <3>1. CASE proc' = [p \in Proc |->
                   IF p = c THEN [proc[c] EXCEPT !.pc = "committed", !.event = e]
                   ELSE IF proc[p].event = e THEN [proc[p] EXCEPT !.holds = FALSE]
                   ELSE proc[p]]
        BY <1>1, <2>1, <3>1 DEF Procs
      <3>2. CASE proc' = [proc EXCEPT ![c].pc = "committed", ![c].event = e]
        BY <1>1, <2>1, <3>2
      <3>3. QED
        BY <1>2, <3>1, <3>2 DEF Commit
    <2>3. UNCHANGED <<worker, exit, queue>>
      BY <1>2 DEF Commit
    <2>4. QED
      BY <2>2, <2>3 DEF Quiet
  <1>3. ASSUME NEW e \in Event, Direct(c, e) \/ Remove(c, e) PROVE Quiet
    BY <1>1, <1>3 DEF Direct, Remove, Quiet, TypeOK
  <1>4. CASE NotifyChanged(c)
    <2>1. proc[c].event \in Event
      BY <1>4 DEF NotifyChanged, TypeOK, AtWork, Proc
    <2>2. queue' = queue \/ Put(proc[c].event)
      BY <1>4 DEF NotifyChanged
    <2>3. QED
      BY <1>1, <1>4, <2>1, <2>2 DEF NotifyChanged, Done, Quiet, TypeOK
  <1>5. CASE \/ BeginCopy(c) \/ Mishap(c) \/ DirectSucceeds(c)
             \/ \E f \in Failures : DirectFails(c, f)
    BY <1>1, <1>5 DEF BeginCopy, Mishap, DirectSucceeds, DirectFails, Done, Quiet, TypeOK
  <1>6. CASE Forget(c)
    BY <1>1, <1>6 DEF Forget, Goto, Done, Quiet, TypeOK
  <1>7. QED
    BY <1>2, <1>3, <1>4, <1>5, <1>6 DEF ClientStep, Request

LEMMA WorkerQuiet ==
  ASSUME TypeOK, NEW w \in Worker, WorkerStep(w), ~Take(w)
  PROVE  Quiet
  <1>1. \A v \in Worker : v \in Proc /\ proc[v] \in Procs
    BY DEF Proc, TypeOK
  <1>2. UNCHANGED <<worker, exit, queue>>
    BY DEF WorkerStep, BeginCopy, Mishap, Retry, WriteSucceeds, WriteFails
  <1>3. \A v \in Worker : proc'[v].pc = "absent" <=> proc[v].pc = "absent"
    <2>1. CASE BeginCopy(w)
      BY <1>1, <2>1 DEF BeginCopy, TypeOK, Procs
    <2>2. CASE Retry(w)
      BY <1>1, <2>2 DEF Retry, Done, Idler, TypeOK, Procs
    <2>m. CASE Mishap(w)
      BY <1>1, <2>m, ConstantsAssumption DEF Mishap, Done, Idler, TypeOK, Procs
    <2>3. CASE WriteSucceeds(w)
      BY <1>1, <2>3 DEF WriteSucceeds, Ends, Done, Idler, TypeOK, Procs
    <2>4. ASSUME NEW f \in Failures, WriteFails(w, f)
          PROVE  \A v \in Worker : proc'[v].pc = "absent" <=> proc[v].pc = "absent"
      <3>1. proc \in [Proc -> Procs] /\ w \in Proc
        BY DEF TypeOK, Proc
      <3>2. proc[w].pc # "absent"
        BY <2>4 DEF WriteFails, Ends
      <3>3. proc'[w].pc # "absent" /\ \A v \in Proc \ {w} : proc'[v] = proc[v]
        <4>1. CASE Goto(w, "retry")
          BY <3>1, <4>1 DEF Goto, Procs
        <4>2. CASE proc' = [proc EXCEPT ![w].pc = "copy", ![w].attempt = @ + 1]
          BY <3>1, <4>2 DEF Procs
        <4>3. CASE Done(w, "get")
          BY <3>1, <4>3 DEF Done, Idler
        <4>4. QED
          BY <2>4, <4>1, <4>2, <4>3 DEF WriteFails
      <3>4. QED
        BY <1>1, <3>2, <3>3
    <2>5. QED
      BY <2>1, <2>2, <2>m, <2>3, <2>4 DEF WorkerStep
  <1>4. QED
    BY <1>2, <1>3 DEF Quiet

LEMMA TimerQuiet ==
  ASSUME TypeOK, NEW t \in Timer, TimerStep(t)
  PROVE  Quiet
  <1>1. CASE HandOver(t)
    <2>1. timer[t].event \in Event
      BY <1>1 DEF HandOver, TypeOK, AtWork
    <2>2. QED
      BY <1>1, <2>1 DEF HandOver, Quiet
  <1>2. CASE Fire(t) \/ OnIdle(t)
    BY <1>2 DEF Fire, OnIdle, Quiet
  <1>3. QED
    BY <1>1, <1>2 DEF TimerStep

\* Every worker thread there is is the scheduler's, or will be told to end
\* (SnapshotScheduler.start, stop and _work).
THEOREM WorkersAnswered == Spec => []WorkersAccounted
  <1>1. Init => Accounted
    <2> SUFFICES ASSUME Init PROVE Accounted
      OBVIOUS
    <2>1. \A w \in Worker : w \in Proc /\ w \notin Client
      BY ConstantsAssumption DEF Proc
    <2>2. Alive = {} /\ Nones(queue) = {}
      BY <2>1 DEF Init, Alive, Nones, Idler
    <2>3. IsFiniteSet(Alive) /\ Cardinality(Alive) = 0 /\ Cardinality(Nones(queue)) = 0
      BY <2>2, FS_EmptySet
    <2>4. worker = None /\ exit = "running"
      BY DEF Init
    <2>5. Owed = 0
      BY <2>3, <2>4 DEF Owed
    <2>6. QED
      BY <2>3, <2>5 DEF Accounted
  <1>2. TypeOK /\ Accounted /\ [Next]_vars => Accounted'
    <2> SUFFICES ASSUME TypeOK, Accounted, [Next]_vars PROVE Accounted'
      OBVIOUS
    <2>1. ASSUME NEW c \in Client, Request(c) \/ ClientStep(c) PROVE Accounted'
      <3>1. CASE NotifyStart(c)
        <4>1. CASE ~enabled
          <5>1. Quiet
            BY <3>1, <4>1, ConstantsAssumption DEF NotifyStart, Done, Quiet, TypeOK, Proc
          <5>2. QED
            BY <5>1, QuietKeeps
        <4>2. CASE enabled
          <5>1. PICK ps : ps = [proc EXCEPT ![c].pc = "asking"]
            OBVIOUS
          <5>2. ps \in [Proc -> Procs] /\ \A w \in Worker : ps[w].pc = proc[w].pc
            BY <5>1, ConstantsAssumption, ZenonT(60) DEF TypeOK, Procs, ProcStates, Proc
          <5>3. Started /\ proc' = WithWorker(ps) /\ UNCHANGED <<queue, exit>>
            BY <3>1, <4>2, <5>1 DEF NotifyStart
          <5>4. QED
            BY <5>2, <5>3, StartKeeps
        <4>3. QED
          BY <4>1, <4>2
      <3>2. CASE ~NotifyStart(c)
        BY <2>1, <3>2, ClientQuiet, QuietKeeps
      <3>3. QED
        BY <3>1, <3>2
    <2>2. ASSUME NEW w \in Worker, WorkerStep(w) PROVE Accounted'
      BY <2>2, TakeKeeps, WorkerQuiet, QuietKeeps
    <2>3. ASSUME NEW t \in Timer, TimerStep(t) PROVE Accounted'
      BY <2>3, TimerQuiet, QuietKeeps
    <2>4. CASE Tick \/ Toggle \/ UNCHANGED vars \/ \E e \in Event : Create(e)
      <3>1. Quiet
        BY <2>4 DEF Tick, Toggle, vars, Create, Quiet
      <3>2. QED
        BY <3>1, QuietKeeps
    <2>5. CASE Boot
      <3>1. proc \in [Proc -> Procs]
        BY DEF TypeOK
      <3>2. Started /\ proc' = WithWorker(proc) /\ UNCHANGED <<queue, exit>>
        BY <2>5 DEF Boot
      <3>3. QED
        BY <3>1, <3>2, StartKeeps
    <2>6. CASE Stop
      BY <2>6, StopKeeps
    <2>7. QED
      BY <2>1, <2>2, <2>3, <2>4, <2>5, <2>6 DEF Next
  <1>3. Accounted => WorkersAccounted
    BY DEF Accounted, Alive, Owed, Nones, WorkersAccounted
  <1>4. QED
    BY <1>1, <1>2, <1>3, TypeCorrect, PTL DEF Spec
=============================================================================
