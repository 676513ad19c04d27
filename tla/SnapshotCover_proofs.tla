------------------------ MODULE SnapshotCover_proofs ------------------------
(***************************************************************************)
(* A committed change is never forgotten without a trace: the proof that   *)
(* ChangeCovered is an invariant of SnapshotScheduler, for any number of   *)
(* events, requests, workers, timers and restarts.                         *)
(*                                                                         *)
(* ChangeCovered is inductive given the types.  What covers a change is    *)
(* split in two: what waits for a thread (a pending change, a timer that   *)
(* hands over, the queue) and the threads at work on it.  Each action      *)
(* passes the change from one to the other, or from one thread to itself.  *)
(*                                                                         *)
(* Of the lemmas, those named ...Passes say that what covers a change goes *)
(* on covering it.  They also serve the second theorem, of the events that *)
(* only change by commits: nothing is then given up at all.                *)
(***************************************************************************)
EXTENDS SnapshotScheduler_proofs

Waits(e) ==
  \/ pending[e] # None
  \/ \E t \in Timer : timer[t].state = "handing" /\ timer[t].event = e
  \/ \E i \in DOMAIN queue : queue[i] = e

Works(p, e) ==
  \/ p \in Client /\ proc[p].pc \in {"committed", "asking"} /\ proc[p].event = e
  \/ Carries(p, e)

LEMMA CoveredSplit ==
  ASSUME NEW e \in Event
  PROVE  /\ Covered(e) <=> Waits(e) \/ \E p \in Proc : Works(p, e)
         /\ Covered(e)' <=> Waits(e)' \/ \E p \in Proc : Works(p, e)'
  BY DEF Covered, Waits, Works, Proc

-----------------------------------------------------------------------------
(* What a step leaves alone.                                               *)

LEMMA WorksElsewhere ==
  ASSUME TypeOK, NEW p \in Proc, NEW r, proc' = [proc EXCEPT ![p] = r],
         NEW q \in Proc, q # p, NEW e \in Event, Works(q, e)
  PROVE  Works(q, e)'
  BY DEF TypeOK, Works, Carries

\* A thread that does not work on e may do as it likes.
LEMMA CoverFrame ==
  ASSUME TypeOK, NEW p \in Proc, NEW r, proc' = [proc EXCEPT ![p] = r],
         NEW e \in Event, ~Works(p, e), Waits(e) => Waits(e)', Covered(e)
  PROVE  Covered(e)'
  <1>1. CASE Waits(e)
    BY <1>1, CoveredSplit
  <1>2. CASE \E q \in Proc : Works(q, e)
    BY <1>2, WorksElsewhere, CoveredSplit
  <1>3. QED
    BY <1>1, <1>2, CoveredSplit

LEMMA WaitsSame ==
  ASSUME UNCHANGED <<pending, timer, queue>>, NEW e \in Event
  PROVE  Waits(e)' <=> Waits(e)
  BY DEF Waits

LEMMA NotAtWork ==
  ASSUME NEW p \in Proc, NEW e \in Event,
         proc[p].pc \in {"idle", "absent", "get", "gone", "popped"} \/ proc[p].event # e
  PROVE  ~Works(p, e)
  BY DEF Works, Carries

\* Cancelling a timer takes nothing that has been handed over.
LEMMA CancelledWaits ==
  ASSUME TypeOK, NEW e \in Event, NEW f \in Event, f # e, Waits(f),
         pending'[f] = pending[f],
         \A t \in Timer : TimersCancelled(e)[t].state = "handing" =>
                             timer'[t] = TimersCancelled(e)[t],
         \A i \in DOMAIN queue : i \in DOMAIN queue' /\ queue'[i] = queue[i]
  PROVE  Waits(f)'
  <1>1. \A t \in Timer : timer[t].state = "handing" => TimersCancelled(e)[t] = timer[t]
    BY DEF TimersCancelled, TypeOK
  <1>2. \A t \in Timer : timer[t].state = "handing" => timer'[t] = timer[t]
    BY <1>1
  <1>3. QED
    BY <1>2 DEF Waits

\* A pending change is a record, which None is not.
LEMMA NoneIsNoChange ==
  ASSUME NEW t \in Timer, NEW n \in 0..MaxLatency
  PROVE  [waited |-> n, timer |-> t] # None
  BY NoneAssumption DEF PendingChanges

LEMMA PutKeeps ==
  ASSUME TypeOK, NEW item \in Event \cup {None}, Put(item)
  PROVE  /\ \A i \in DOMAIN queue : i \in DOMAIN queue' /\ queue'[i] = queue[i]
         /\ \E i \in DOMAIN queue' : queue'[i] = item
  <1>1. queue \in Seq(Event \cup {None}) /\ queue' = Append(queue, item)
    BY DEF Put, TypeOK
  <1>2. Len(queue) + 1 \in DOMAIN queue' /\ queue'[Len(queue) + 1] = item
    BY <1>1
  <1>3. QED
    BY <1>1, <1>2

-----------------------------------------------------------------------------
(* The requests.                                                           *)

LEMMA CommitPasses ==
  ASSUME TypeOK, NEW c \in Client, NEW e \in Event, Commit(c, e),
         NEW f \in Event, Covered(f) \/ f = e
  PROVE  Covered(f)'
  <1>1. c \in Proc /\ proc[c].pc = "idle"
    BY DEF Proc, Commit
  <1>2. CASE f = e
    <2>1. proc'[c].pc = "committed" /\ proc'[c].event = e
      <3> DEFINE asked == [proc[c] EXCEPT !.pc = "committed", !.event = e]
      <3>1. asked.pc = "committed" /\ asked.event = e
        BY <1>1 DEF TypeOK, Procs
      <3>2. [proc EXCEPT ![c].pc = "committed", ![c].event = e] = [proc EXCEPT ![c] = asked]
        BY <1>1 DEF TypeOK, Procs
      <3>3. proc'[c] = asked
        BY <1>1, <3>2 DEF Commit, TypeOK
      <3>4. QED
        BY <3>1, <3>3
    <2>2. QED
      BY <1>2, <2>1 DEF Covered
  <1>3. CASE f # e
    <2>1. ASSUME NEW q \in Proc, Works(q, f) PROVE Works(q, f)'
      <3>1. q # c /\ proc[q].event = f
        BY <1>1, <2>1 DEF Works, Carries
      <3>2. proc'[q] = proc[q]
        BY <1>3, <3>1 DEF Commit, TypeOK
      <3>3. QED
        BY <2>1, <3>2 DEF Works, Carries
    <2>2. QED
      BY <1>3, <2>1, CoveredSplit, WaitsSame DEF Commit
  <1>4. QED
    BY <1>2, <1>3

LEMMA CommitKeeps ==
  ASSUME TypeOK, ChangeCovered, NEW c \in Client, NEW e \in Event, Commit(c, e)
  PROVE  ChangeCovered'
  <1> SUFFICES ASSUME NEW f \in Event, f # e, unsaved'[f]
               PROVE  (Covered(f) \/ IsFailing(f) \/ lost[f])'
    BY CommitPasses DEF ChangeCovered
  <1>1. unsaved[f] /\ (lost[f] => lost'[f]) /\ (IsFailing(f) => IsFailing(f)')
    BY DEF Commit, TypeOK, IsFailing
  <1>2. QED
    BY <1>1, CommitPasses DEF ChangeCovered

LEMMA StartPasses ==
  ASSUME TypeOK, NEW c \in Client, NotifyStart(c), enabled, NEW f \in Event, Covered(f)
  PROVE  Covered(f)'
  <1> DEFINE e == proc[c].event
             asked == [proc EXCEPT ![c].pc = "asking"]
  <1>1. c \in Proc
    BY DEF Proc
  <1>2. Started /\ proc' = WithWorker(asked)
    BY DEF NotifyStart
  <1>3. \A q \in Proc : \/ asked[q] = proc[q]
                        \/ q = c /\ asked[q].pc = "asking" /\ asked[q].event = e
    BY <1>1 DEF TypeOK, Procs
  <1>4. \A q \in Proc : \/ proc'[q] = asked[q]
                        \/ worker' # worker /\ q = worker' /\ proc[q].pc = "absent"
    BY <1>1, <1>2 DEF Started, WithWorker, TypeOK
  <1>5. ASSUME NEW q \in Proc, Works(q, f) PROVE Works(q, f)'
    <2>1. proc[q].pc # "absent" /\ proc[q].event = f
      BY <1>5 DEF Works, Carries
    <2>2. proc'[q] = asked[q]
      BY <1>4, <2>1
    <2>3. CASE q = c
      BY <1>1, <1>3, <1>5, <2>1, <2>2, <2>3 DEF Works, Carries, NotifyStart
    <2>4. CASE q # c
      BY <1>3, <1>5, <2>2, <2>4 DEF Works, Carries
    <2>5. QED
      BY <2>3, <2>4
  <1>6. QED
    BY <1>5, CoveredSplit, WaitsSame DEF NotifyStart

LEMMA NotifyStartKeeps ==
  ASSUME TypeOK, ChangeCovered, NEW c \in Client, NotifyStart(c)
  PROVE  ChangeCovered'
  <1> DEFINE e == proc[c].event
  <1> SUFFICES ASSUME NEW f \in Event, unsaved'[f]
               PROVE  (Covered(f) \/ IsFailing(f) \/ lost[f])'
    BY DEF ChangeCovered
  <1>1. c \in Proc /\ e \in Event /\ unsaved[f] /\ (lost[f] => lost'[f])
        /\ (IsFailing(f) => IsFailing(f)')
    BY DEF Proc, NotifyStart, TypeOK, AtWork, IsFailing
  <1>2. CASE ~enabled
    <2>1. CASE f = e
      BY <1>1, <1>2, <2>1 DEF NotifyStart, TypeOK
    <2>2. CASE f # e
      <3>1. Covered(f) => Covered(f)'
        BY <1>1, <1>2, <2>2, NotAtWork, WaitsSame, CoverFrame DEF NotifyStart, Done
      <3>2. QED
        BY <1>1, <3>1 DEF ChangeCovered
    <2>3. QED
      BY <2>1, <2>2
  <1>3. CASE enabled
    BY <1>1, <1>3, StartPasses DEF ChangeCovered
  <1>4. QED
    BY <1>2, <1>3

LEMMA ChangedPasses ==
  ASSUME TypeOK, NEW c \in Client, NotifyChanged(c),
         NEW f \in Event, Covered(f) \/ f = proc[c].event
  PROVE  Covered(f)'
  <1> DEFINE e == proc[c].event
  <1>1. c \in Proc /\ e \in Event /\ Done(c, "idle")
    BY DEF Proc, NotifyChanged, TypeOK, AtWork
  <1>2. CASE f = e
    <2>1. CASE CutShort(e)
      <3>1. \E i \in DOMAIN queue' : queue'[i] = e
        BY <1>1, <2>1, PutKeeps DEF NotifyChanged
      <3>2. QED
        BY <1>2, <3>1 DEF Covered
    <2>2. CASE ~CutShort(e)
      <3>1. \E t \in Timer : pending'[e] = [waited |-> Waited(e), timer |-> t]
        BY <1>1, <2>2 DEF NotifyChanged, TypeOK
      <3>2. pending'[e] # None
        <4>1. Waited(e) \in 0..MaxLatency
          BY <1>1, ConstantsAssumption DEF Waited, TypeOK, PendingChanges
        <4>2. QED
          BY <3>1, <4>1, NoneIsNoChange
      <3>3. QED
        BY <1>2, <3>2 DEF Covered
    <2>3. QED
      BY <2>1, <2>2
  <1>3. CASE f # e
    <2>1. Waits(f) => Waits(f)'
      <3>1. CASE CutShort(e)
        BY <1>1, <1>3, <3>1, CancelledWaits, PutKeeps DEF NotifyChanged, TypeOK
      <3>2. CASE ~CutShort(e)
        <4>1. PICK t \in Timer :
                /\ TimersCancelled(e)[t].state = "free"
                /\ timer' = [TimersCancelled(e) EXCEPT
                               ![t] = Armed(e, AtLeast(Idle, FloorLeft(e)))]
                /\ pending' = [pending EXCEPT ![e] = [waited |-> Waited(e), timer |-> t]]
          BY <3>2 DEF NotifyChanged
        <4>2. queue' = queue
          BY <3>2 DEF NotifyChanged
        <4>3. pending'[f] = pending[f]
          BY <1>3, <4>1 DEF TypeOK
        <4>4. \A u \in Timer : u # t => timer'[u] = TimersCancelled(e)[u]
          BY <1>1, <4>1, CancelledType
        <4>5. QED
          BY <1>1, <1>3, <4>1, <4>2, <4>3, <4>4, CancelledWaits
      <3>3. QED
        BY <3>1, <3>2
    <2>2. QED
      BY <1>1, <1>3, <2>1, NotAtWork, CoverFrame DEF Done
  <1>4. QED
    BY <1>2, <1>3

LEMMA NotifyChangedKeeps ==
  ASSUME TypeOK, ChangeCovered, NEW c \in Client, NotifyChanged(c)
  PROVE  ChangeCovered'
  <1> DEFINE e == proc[c].event
  <1> SUFFICES ASSUME NEW f \in Event, f # e, unsaved'[f]
               PROVE  (Covered(f) \/ IsFailing(f) \/ lost[f])'
    BY ChangedPasses DEF ChangeCovered
  <1>1. e \in Event
    BY DEF NotifyChanged, TypeOK, AtWork, Proc
  <1>2. unsaved[f] /\ (lost[f] => lost'[f]) /\ (IsFailing(f) => IsFailing(f)')
    BY <1>1 DEF NotifyChanged, TypeOK, IsFailing
  <1>3. QED
    BY <1>2, ChangedPasses DEF ChangeCovered

-----------------------------------------------------------------------------
(* The timers.                                                             *)

LEMMA WaitPasses ==
  ASSUME UNCHANGED proc, NEW f \in Event, Waits(f) => Waits(f)', Covered(f)
  PROVE  Covered(f)'
  <1>1. \A q \in Proc : Works(q, f) => Works(q, f)'
    BY DEF Works, Carries
  <1>2. QED
    BY <1>1, CoveredSplit

\* What a step that leaves the threads alone has to show.
LEMMA WaitsEnough ==
  ASSUME TypeOK, ChangeCovered, UNCHANGED <<proc, unsaved, lost>>,
         \A e \in Event : (Waits(e) => Waits(e)') /\ (IsFailing(e) => IsFailing(e)')
  PROVE  ChangeCovered'
  <1> SUFFICES ASSUME NEW f \in Event, unsaved'[f]
               PROVE  (Covered(f) \/ IsFailing(f) \/ lost[f])'
    BY DEF ChangeCovered
  <1>1. Covered(f) => Covered(f)'
    BY WaitPasses
  <1>2. QED
    BY <1>1 DEF ChangeCovered

LEMMA TimerPasses ==
  ASSUME TypeOK, NEW t \in Timer, TimerStep(t), NEW f \in Event, Waits(f)
  PROVE  Waits(f)'
  <1> DEFINE e == timer[t].event
  <1>1. CASE Fire(t)
    <2>1. \A u \in Timer : u # t => timer'[u] = timer[u]
      BY <1>1 DEF Fire, TypeOK
    <2>2. pending' = pending /\ queue' = queue /\ timer[t].state # "handing"
      BY <1>1 DEF Fire
    <2>3. QED
      BY <2>1, <2>2 DEF Waits
  <1>2. CASE OnIdle(t)
    <2>1. e \in Event /\ queue' = queue /\ timer[t].state # "handing"
      BY <1>2 DEF OnIdle, TypeOK, AtWork
    <2>2. \A u \in Timer : u # t => timer'[u] = timer[u]
      BY <1>2 DEF OnIdle, TypeOK
    <2>3. f # e => pending'[f] = pending[f]
      BY <1>2, <2>1 DEF OnIdle, TypeOK
    <2>4. CASE f = e /\ pending[e] # None
      <3>1. CASE FloorLeft(e) > 0
        <4>1. pending[e] \in PendingChanges
          BY <2>1, <2>4 DEF TypeOK
        <4>2. pending'[e] = [pending[e] EXCEPT !.timer = t]
          BY <1>2, <2>1, <2>4, <3>1 DEF OnIdle, TypeOK
        <4>3. pending'[e] \in PendingChanges
          BY <4>1, <4>2 DEF PendingChanges
        <4>4. QED
          BY <2>4, <4>3, NoneAssumption DEF Waits
      <3>2. CASE FloorLeft(e) = 0
        <4>1. timer'[t] = [timer[t] EXCEPT !.state = "handing"]
          BY <1>2, <2>4, <3>2 DEF OnIdle, TypeOK
        <4>2. timer'[t].state = "handing" /\ timer'[t].event = e
          BY <4>1 DEF TypeOK, Timers
        <4>3. QED
          BY <2>4, <4>2 DEF Waits
      <3>3. QED
        BY <1>2, <2>4, <3>1, <3>2 DEF OnIdle
    <2>5. CASE f # e
      BY <2>1, <2>2, <2>3, <2>5 DEF Waits
    <2>6. CASE f = e /\ pending[e] = None
      BY <2>1, <2>2, <2>6 DEF Waits
    <2>7. QED
      BY <2>4, <2>5, <2>6
  <1>3. CASE HandOver(t)
    <2>1. e \in Event \cup {None} /\ pending' = pending
      BY <1>3 DEF HandOver, TypeOK, AtWork
    <2>2. \A u \in Timer : u # t => timer'[u] = timer[u]
      BY <1>3 DEF HandOver, TypeOK
    <2>3. /\ \A i \in DOMAIN queue : i \in DOMAIN queue' /\ queue'[i] = queue[i]
          /\ \E i \in DOMAIN queue' : queue'[i] = e
      BY <1>3, <2>1, PutKeeps DEF HandOver
    <2>4. QED
      BY <2>1, <2>2, <2>3 DEF Waits
  <1>4. QED
    BY <1>1, <1>2, <1>3 DEF TimerStep

LEMMA TimerStepCovers ==
  ASSUME TypeOK, ChangeCovered, NEW t \in Timer, TimerStep(t)
  PROVE  ChangeCovered'
  <1>1. UNCHANGED <<proc, unsaved, lost, status>>
    BY DEF TimerStep, Fire, OnIdle, HandOver
  <1>2. QED
    BY <1>1, TimerPasses, WaitsEnough DEF IsFailing

LEMMA TickPasses ==
  ASSUME TypeOK, Tick
  PROVE  \A e \in Event : /\ Waits(e) => Waits(e)'
                          /\ status'[e].failure = status[e].failure
                          /\ status'[e].count = status[e].count
  <1>1. \A t \in Timer : timer'[t].state = timer[t].state /\ timer'[t].event = timer[t].event
    BY DEF Tick, TypeOK, Timers
  <1>2. \A e \in Event : pending[e] # None => pending'[e] # None
    <2> SUFFICES ASSUME NEW e \in Event, pending[e] # None PROVE pending'[e] # None
      OBVIOUS
    <2>1. pending[e] \in PendingChanges /\ pending[e].waited \in 0..MaxLatency
      BY DEF TypeOK, PendingChanges
    <2> DEFINE n == IF pending[e].waited < MaxLatency THEN pending[e].waited + 1
                    ELSE pending[e].waited
    <2>2. n \in 0..MaxLatency
      BY <2>1, ConstantsAssumption
    <2>3. pending'[e] = [pending[e] EXCEPT !.waited = n]
      BY DEF Tick
    <2>4. pending'[e] \in PendingChanges
      BY <2>1, <2>2, <2>3 DEF PendingChanges
    <2>5. QED
      BY <2>4, NoneAssumption
  <1>3. \A e \in Event : Waits(e) => Waits(e)'
    BY <1>1, <1>2 DEF Waits, Tick
  <1>4. \A e \in Event : /\ status'[e].failure = status[e].failure
                         /\ status'[e].count = status[e].count
    BY DEF Tick, TypeOK, Statuses
  <1>5. QED
    BY <1>3, <1>4

LEMMA TickCovers ==
  ASSUME TypeOK, ChangeCovered, Tick
  PROVE  ChangeCovered'
  <1>1. \A e \in Event : IsFailing(e) => IsFailing(e)'
    BY TickPasses DEF IsFailing
  <1>2. QED
    BY <1>1, TickPasses, WaitsEnough DEF Tick

-----------------------------------------------------------------------------
(* The copies.                                                             *)

\* A thread at work on e moves on: what has to be shown is what becomes of e.
LEMMA MoveCovers ==
  ASSUME TypeOK, ChangeCovered, NEW p \in Proc, NEW r, NEW e \in Event,
         proc' = [proc EXCEPT ![p] = r], proc[p].event = e \/ proc[p].pc \in {"idle", "get"},
         \A f \in Event : f # e => /\ Waits(f) => Waits(f)'
                                   /\ unsaved'[f] = unsaved[f]
                                   /\ lost[f] => lost'[f]
                                   /\ IsFailing(f) => IsFailing(f)',
         unsaved'[e] => (Covered(e) \/ IsFailing(e) \/ lost[e])'
  PROVE  ChangeCovered'
  <1> SUFFICES ASSUME NEW f \in Event, unsaved'[f], f # e
               PROVE  (Covered(f) \/ IsFailing(f) \/ lost[f])'
    BY DEF ChangeCovered
  <1>1. Covered(f) => Covered(f)'
    BY NotAtWork, CoverFrame
  <1>2. QED
    BY <1>1 DEF ChangeCovered

LEMMA BeginCopyCovers ==
  ASSUME TypeOK, ChangeCovered, NEW p \in Proc, BeginCopy(p)
  PROVE  ChangeCovered'
  <1>0. PICK e \in Event : e = proc[p].event
    BY DEF BeginCopy, TypeOK, AtWork
  <1> DEFINE s == IF exists[e] THEN "copying" ELSE "unread"
             r == [proc[p] EXCEPT !.pc = s, !.holds = exists[e] /\ unsaved[e]]
  <1>1. proc' = [proc EXCEPT ![p] = r]
    BY <1>0 DEF BeginCopy, TypeOK, Procs
  <1>2. r.pc = s /\ r.event = e /\ r.holds = (exists[e] /\ unsaved[e])
    BY <1>0 DEF TypeOK, Procs
  <1>3. unsaved'[e] => Carries(p, e)'
    BY <1>1, <1>2 DEF Carries, BeginCopy, TypeOK
  <1>4. unsaved'[e] => Covered(e)'
    BY <1>3 DEF Covered
  <1>5. \A f \in Event : IsFailing(f) => IsFailing(f)'
    BY DEF BeginCopy, IsFailing
  <1>6. UNCHANGED <<unsaved, lost>> /\ \A f \in Event : Waits(f) => Waits(f)'
    BY WaitsSame DEF BeginCopy
  <1>7. QED
    BY <1>0, <1>1, <1>4, <1>5, <1>6, MoveCovers

LEMMA TakeCovers ==
  ASSUME TypeOK, ChangeCovered, NEW w \in Worker, Take(w)
  PROVE  ChangeCovered'
  <1> SUFFICES ASSUME NEW f \in Event, unsaved'[f]
               PROVE  (Covered(f) \/ IsFailing(f) \/ lost[f])'
    BY DEF ChangeCovered
  <1>1. w \in Proc /\ queue \in Seq(Event \cup {None}) /\ queue # <<>>
        /\ queue' = Tail(queue) /\ proc[w].pc = "get" /\ UNCHANGED <<pending, timer>>
    BY DEF Take, TypeOK, Proc
  <1>2. UNCHANGED <<unsaved, lost, status>> /\ (IsFailing(f) => IsFailing(f)')
    BY DEF Take, IsFailing
  <1>3. CASE Head(queue) = f
    <2> DEFINE r == [Idler("copy") EXCEPT !.event = Head(queue)]
    <2>1. r.pc = "copy" /\ r.event = f
      BY <1>3 DEF Idler
    <2>2. proc' = [proc EXCEPT ![w] = r]
      BY <1>3, ConstantsAssumption DEF Take
    <2>3. Carries(w, f)'
      BY <1>1, <2>1, <2>2 DEF Carries, TypeOK
    <2>4. QED
      BY <1>1, <2>3 DEF Covered
  <1>4. CASE Head(queue) # f
    <2>1. ASSUME NEW i \in DOMAIN queue, queue[i] = f
          PROVE  \E j \in DOMAIN queue' : queue'[j] = f
      <3>1. i \in 1..Len(queue) /\ i # 1
        BY <1>1, <1>4, <2>1
      <3>2. i - 1 \in DOMAIN Tail(queue) /\ Tail(queue)[i - 1] = queue[i]
        BY <1>1, <3>1
      <3>3. QED
        BY <1>1, <2>1, <3>2
    <2>2. Waits(f) => Waits(f)'
      BY <1>1, <2>1 DEF Waits
    <2>3. ~Works(w, f)
      BY <1>1, NotAtWork
    <2>4. \E r : proc' = [proc EXCEPT ![w] = r]
      BY DEF Take
    <2>5. Covered(f) => Covered(f)'
      BY <1>1, <2>2, <2>3, <2>4, CoverFrame
    <2>6. QED
      BY <1>2, <2>5 DEF ChangeCovered
  <1>5. QED
    BY <1>3, <1>4

\* A copy that has been written: what it holds is saved, what it does not hold
\* is covered by something else than its thread.
LEMMA CopiedCovers ==
  ASSUME TypeOK, ChangeCovered, NEW p \in Proc, NEW s \in {"idle", "get"},
         Ends(p, "ok"), SuccessRecorded(proc[p].event), Saved(p), Forgotten(p),
         Done(p, s), UNCHANGED <<pending, timer, queue>>
  PROVE  ChangeCovered'
  <1>1. proc[p].pc = "copying" /\ proc[p].event \in Event
    BY DEF Ends, TypeOK, AtWork
  <1>e. PICK e \in Event : e = proc[p].event
    BY <1>1
  <1>2. \A f \in Event : Waits(f) => Waits(f)'
    BY WaitsSame
  <1>3. \A f \in Event : f # e => /\ unsaved'[f] = unsaved[f]
                                  /\ lost'[f] = lost[f]
                                  /\ IsFailing(f) => IsFailing(f)'
    BY <1>1, <1>e, <1>e DEF Saved, Forgotten, SuccessRecorded, IsFailing, TypeOK
  <1>4. ASSUME unsaved'[e] PROVE (Covered(e) \/ IsFailing(e) \/ lost[e])'
    <2>1. unsaved[e] /\ ~proc[p].holds
      BY <1>1, <1>e, <1>4 DEF Saved, TypeOK
    <2>2. ~Works(p, e)
      BY <1>1, <1>e, <2>1 DEF Works, Carries
    <2>3. Covered(e) => Covered(e)'
      BY <1>1, <1>e, <1>2, <2>2, CoverFrame DEF Done
    <2>4. lost'[e] = (lost[e] \/ (status[e].failure # None /\ ~proc[p].holds /\ ~Covered(e)))
      BY <1>1, <1>e, <1>e DEF Forgotten, TypeOK
    <2>5. IsFailing(e) /\ ~Covered(e) => lost'[e]
      BY <2>1, <2>4 DEF IsFailing
    <2>6. QED
      BY <1>1, <1>e, <2>1, <2>3, <2>4, <2>5 DEF ChangeCovered
  <1>5. QED
    BY <1>1, <1>e, <1>2, <1>3, <1>4, MoveCovers DEF Done

LEMMA WriteFailsCovers ==
  ASSUME TypeOK, ChangeCovered, NEW w \in Worker, NEW x \in Failures, WriteFails(w, x)
  PROVE  ChangeCovered'
  <1>0. w \in Proc /\ proc[w].event \in Event /\ proc[w] \in Procs
    BY EndsType DEF Proc, WriteFails
  <1>1. PICK e \in Event : e = proc[w].event
    BY <1>0
  <1>2. UNCHANGED unsaved /\ \A f \in Event : Waits(f) => Waits(f)'
    BY WaitsSame DEF WriteFails
  <1>3. \A f \in Event : f # e => status'[f] = status[f]
    BY <1>0, <1>1 DEF WriteFails, FailureRecorded, TypeOK
  <1>4. \A f \in Event : f # e => (IsFailing(f) => IsFailing(f)')
    BY <1>3 DEF IsFailing
  <1>5. \A f \in Event : f # e => lost'[f] = lost[f]
    BY <1>0, <1>1 DEF WriteFails, TypeOK
  <1>6. (\E r : proc' = [proc EXCEPT ![w] = r])
        /\ (Covered(e) \/ IsFailing(e) \/ lost[e])'
    <2>1. CASE Goto(w, "retry") \/ proc' = [proc EXCEPT ![w].pc = "copy", ![w].attempt = @ + 1]
      <3>1. PICK s \in {"retry", "copy"}, n \in {proc[w].attempt, proc[w].attempt + 1} :
              proc' = [proc EXCEPT ![w] = [proc[w] EXCEPT !.pc = s, !.attempt = n]]
        BY <1>0, <1>1, <2>1 DEF Goto, TypeOK, Procs
      <3>2. proc'[w].pc = s /\ proc'[w].event = e
        BY <1>0, <1>1, <3>1 DEF TypeOK, Procs
      <3>3. Carries(w, e)'
        BY <3>2 DEF Carries
      <3>4. QED
        BY <1>0, <1>1, <3>1, <3>3 DEF Covered
    <2>2. CASE /\ Done(w, "get")
               /\ x = "persistent" \/ proc[w].attempt = Retries
               /\ lost' = [lost EXCEPT ![e] =
                             @ \/ (x = "transient" /\ status[e].count + 1 < Retries)]
      <3>1. status[e] \in Statuses /\ status[e].count \in 0..Retries
        BY <1>0, <1>1 DEF TypeOK, Statuses
      <3>2. /\ status'[e].failure = x
            /\ status'[e].count = IF status[e].count < Retries THEN status[e].count + 1 ELSE Retries
        BY <1>0, <1>1, <3>1 DEF WriteFails, FailureRecorded, TypeOK, Statuses
      <3>3. x # None
        BY NoneAssumption
      <3>4. CASE x = "transient" /\ status[e].count + 1 < Retries
        <4>1. lost'[e]
          BY <1>0, <1>1, <2>2, <3>4 DEF TypeOK
        <4>2. QED
          BY <2>2, <4>1 DEF Done
      <3>5. CASE ~(x = "transient" /\ status[e].count + 1 < Retries)
        <4>1. x = "transient" => status'[e].count >= Retries
          BY <3>1, <3>2, <3>5, ConstantsAssumption
        <4>2. IsFailing(e)'
          BY <3>2, <3>3, <4>1 DEF IsFailing
        <4>3. QED
          BY <2>2, <4>2 DEF Done
      <3>6. QED
        BY <3>4, <3>5
    <2>3. QED
      BY <1>1, <2>1, <2>2 DEF WriteFails
  <1>7. QED
    BY <1>0, <1>1, <1>2, <1>4, <1>5, <1>6, MoveCovers

LEMMA RetryCovers ==
  ASSUME TypeOK, ChangeCovered, NEW w \in Worker, Retry(w)
  PROVE  ChangeCovered'
  <1>0. w \in Proc /\ proc[w].event \in Event /\ proc[w] \in Procs
    BY DEF Proc, Retry, TypeOK, AtWork
  <1>1. PICK e \in Event : e = proc[w].event
    BY <1>0
  <1>2. UNCHANGED unsaved /\ \A f \in Event : Waits(f) => Waits(f)'
    BY WaitsSame DEF Retry
  <1>3. \A f \in Event : /\ IsFailing(f) => IsFailing(f)'
                         /\ f # e => lost'[f] = lost[f]
    BY <1>0, <1>1 DEF Retry, IsFailing, TypeOK
  <1>4. CASE stopping
    <2>1. lost'[e] /\ Done(w, "get")
      BY <1>0, <1>1, <1>4 DEF Retry, TypeOK
    <2>2. QED
      BY <1>0, <1>1, <1>2, <1>3, <2>1, MoveCovers DEF Done
  <1>5. CASE ~stopping
    <2> DEFINE r == [proc[w] EXCEPT !.pc = "copy", !.attempt = @ + 1]
    <2>1. proc' = [proc EXCEPT ![w] = r]
      BY <1>0, <1>5 DEF Retry, TypeOK, Procs
    <2>2. proc'[w].pc = "copy" /\ proc'[w].event = e
      BY <1>0, <1>1, <2>1 DEF TypeOK, Procs
    <2>3. Covered(e)'
      BY <1>0, <2>2 DEF Covered, Carries
    <2>4. QED
      BY <1>0, <1>1, <1>2, <1>3, <2>1, <2>3, MoveCovers
  <1>6. QED
    BY <1>4, <1>5

LEMMA MishapCovers ==
  ASSUME TypeOK, ChangeCovered, NEW p \in Proc, Mishap(p)
  PROVE  ChangeCovered'
  <1>0. proc[p].event \in Event
    BY DEF Mishap, TypeOK, AtWork
  <1>1. PICK e \in Event : e = proc[p].event
    BY <1>0
  <1>2. UNCHANGED <<unsaved, status>> /\ \A f \in Event : Waits(f) => Waits(f)'
    BY WaitsSame DEF Mishap
  <1>3. \A f \in Event : /\ IsFailing(f) => IsFailing(f)'
                         /\ f # e => lost'[f] = lost[f]
    BY <1>1, <1>2 DEF Mishap, IsFailing, TypeOK
  <1>4. lost'[e] /\ \E s : Done(p, s)
    BY <1>1 DEF Mishap, TypeOK
  <1>5. QED
    BY <1>1, <1>2, <1>3, <1>4, MoveCovers DEF Done

LEMMA DirectFailsCovers ==
  ASSUME TypeOK, ChangeCovered, NEW c \in Client, NEW x \in Failures, DirectFails(c, x)
  PROVE  ChangeCovered'
  <1>0. c \in Proc /\ proc[c].event \in Event
    BY EndsType DEF Proc, DirectFails
  <1>1. PICK e \in Event : e = proc[c].event
    BY <1>0
  <1>2. UNCHANGED unsaved /\ \A f \in Event : Waits(f) => Waits(f)'
    BY WaitsSame DEF DirectFails
  <1>3. \A f \in Event : f # e => status'[f] = status[f] /\ lost'[f] = lost[f]
    BY <1>0, <1>1 DEF DirectFails, FailureRecorded, TypeOK
  <1>4. \A f \in Event : f # e => (IsFailing(f) => IsFailing(f)')
    BY <1>3 DEF IsFailing
  <1>5. lost'[e] /\ Done(c, "idle")
    BY <1>0, <1>1 DEF DirectFails, TypeOK
  <1>6. QED
    BY <1>0, <1>1, <1>2, <1>3, <1>4, <1>5, MoveCovers DEF Done

LEMMA DirectCovers ==
  ASSUME TypeOK, ChangeCovered, NEW c \in Client, NEW e \in Event, Direct(c, e)
  PROVE  ChangeCovered'
  <1>1. c \in Proc /\ proc[c] \in Procs /\ proc[c].pc = "idle" /\ UNCHANGED <<unsaved, lost, status>>
    BY DEF Proc, Direct, TypeOK
  <1>2. \A f \in Event : f # e => (Waits(f) => Waits(f)')
    BY CancelledWaits DEF Direct, TypeOK
  <1>3. \A f \in Event : IsFailing(f) => IsFailing(f)'
    BY <1>1 DEF IsFailing
  <1> DEFINE r == [proc[c] EXCEPT !.pc = "copy", !.event = e]
  <1>4. proc' = [proc EXCEPT ![c] = r]
    BY <1>1 DEF Direct, TypeOK, Procs
  <1>5. proc'[c].pc = "copy" /\ proc'[c].event = e
    BY <1>1, <1>4 DEF TypeOK, Procs
  <1>6. Covered(e)'
    BY <1>1, <1>5 DEF Covered, Carries
  <1>7. QED
    BY <1>1, <1>2, <1>3, <1>4, <1>6, MoveCovers

LEMMA RemoveCovers ==
  ASSUME TypeOK, ChangeCovered, NEW c \in Client, NEW e \in Event, Remove(c, e)
  PROVE  ChangeCovered'
  <1>1. c \in Proc /\ proc[c] \in Procs /\ proc[c].pc = "idle" /\ UNCHANGED <<lost, status>>
    BY DEF Proc, Remove, TypeOK
  <1>2. \A f \in Event : (Waits(f) => Waits(f)') /\ (IsFailing(f) => IsFailing(f)')
    BY <1>1, WaitsSame DEF Remove, IsFailing
  <1>3. ~unsaved'[e] /\ \A f \in Event : f # e => unsaved'[f] = unsaved[f]
    BY DEF Remove, TypeOK
  <1> DEFINE r == [proc[c] EXCEPT !.pc = "gone", !.event = e]
  <1>4. proc' = [proc EXCEPT ![c] = r]
    BY <1>1 DEF Remove, TypeOK, Procs
  <1>5. QED
    BY <1>1, <1>2, <1>3, <1>4, MoveCovers

LEMMA ForgetCovers ==
  ASSUME TypeOK, ChangeCovered, NEW c \in Client, Forget(c)
  PROVE  ChangeCovered'
  <1>0. c \in Proc /\ proc[c].event \in Event
    BY DEF Proc, Forget, TypeOK, AtWork
  <1>1. PICK e \in Event : e = proc[c].event
    BY <1>0
  <1>2. UNCHANGED unsaved /\ lost'[e] /\ \A f \in Event : f # e => lost'[f] = lost[f]
    BY <1>0, <1>1 DEF Forget, TypeOK
  <1>3. \E r : proc' = [proc EXCEPT ![c] = r]
    BY DEF Forget, Goto, Done
  <1>4. \A f \in Event : f # e => status'[f] = status[f]
    BY <1>0, <1>1 DEF Forget, TypeOK
  <1>5. \A f \in Event : f # e => (IsFailing(f) => IsFailing(f)')
    BY <1>4 DEF IsFailing
  <1>6. \A f \in Event : f # e => (Waits(f) => Waits(f)')
    <2>1. CASE proc[c].pc = "gone"
      BY <1>1, <2>1, CancelledWaits DEF Forget, TypeOK
    <2>2. CASE proc[c].pc = "popped"
      BY <2>2, WaitsSame DEF Forget
    <2>3. QED
      BY <2>1, <2>2 DEF Forget
  <1>7. QED
    BY <1>0, <1>1, <1>2, <1>3, <1>5, <1>6, MoveCovers

-----------------------------------------------------------------------------
(* The server.                                                             *)

LEMMA BootPasses ==
  ASSUME TypeOK, Boot, NEW f \in Event, Covered(f)
  PROVE  Covered(f)'
  <1>1. \A q \in Proc : \/ proc'[q] = proc[q]
                        \/ worker' # worker /\ q = worker' /\ proc[q].pc = "absent"
    BY DEF Boot, Started, WithWorker, TypeOK
  <1>2. \A q \in Proc : Works(q, f) => Works(q, f)'
    BY <1>1 DEF Works, Carries
  <1>3. QED
    BY <1>2, CoveredSplit, WaitsSame DEF Boot

LEMMA BootCovers ==
  ASSUME TypeOK, ChangeCovered, Boot
  PROVE  ChangeCovered'
  BY BootPasses DEF Boot, IsFailing, ChangeCovered

\* Turning the backups off or stopping gives up what it takes away.
LEMMA TakenCovers ==
  ASSUME TypeOK, ChangeCovered, UNCHANGED <<proc, unsaved>>,
         \A e \in Event : /\ Waits(e) => Waits(e)' \/ lost'[e]
                          /\ IsFailing(e) => IsFailing(e)' \/ lost'[e]
                          /\ lost[e] => lost'[e]
  PROVE  ChangeCovered'
  <1> SUFFICES ASSUME NEW f \in Event, unsaved'[f], ~lost'[f]
               PROVE  (Covered(f) \/ IsFailing(f))'
    BY DEF ChangeCovered
  <1>1. Covered(f) => Covered(f)'
    BY WaitPasses
  <1>2. QED
    BY <1>1 DEF ChangeCovered

LEMMA ToggleCovers ==
  ASSUME TypeOK, ChangeCovered, Toggle
  PROVE  ChangeCovered'
  <1>1. \A e \in Event : /\ Waits(e) => Waits(e)'
                         /\ IsFailing(e) => IsFailing(e)' \/ lost'[e]
                         /\ lost[e] => lost'[e]
    BY WaitsSame DEF Toggle, IsFailing
  <1>2. QED
    BY <1>1, TakenCovers DEF Toggle

LEMMA StopCovers ==
  ASSUME TypeOK, ChangeCovered, Stop
  PROVE  ChangeCovered'
  <1>1. UNCHANGED <<proc, unsaved, status>>
    BY DEF Stop
  <1>2. \A e \in Event : IsFailing(e) => IsFailing(e)'
    BY <1>1 DEF IsFailing
  <1>3. \A e \in Event : lost[e] => lost'[e]
    BY DEF Stop
  <1>4. ASSUME NEW e \in Event, Waits(e) PROVE Waits(e)' \/ lost'[e]
    <2>1. CASE exit = "running"
      BY <1>4, <2>1, WaitsSame DEF Stop
    <2>2. CASE exit = "set"
      <3>1. lost'[e] = (lost[e] \/ pending[e] # None) /\ queue' = queue
        BY <2>2 DEF Stop
      <3>2. \A t \in Timer : timer[t].state = "handing" => timer'[t] = timer[t]
        BY <2>2 DEF Stop
      <3>3. QED
        BY <1>4, <3>1, <3>2 DEF Waits
    <2>3. CASE exit = "cleared"
      <3>1. \A i \in DOMAIN queue : i \in DOMAIN queue' /\ queue'[i] = queue[i]
        BY <2>3, PutKeeps DEF Stop
      <3>2. UNCHANGED <<pending, timer>>
        BY <2>3 DEF Stop
      <3>3. QED
        BY <1>4, <3>1, <3>2 DEF Waits
    <2>4. QED
      BY <2>1, <2>2, <2>3 DEF Stop
  <1>5. QED
    BY <1>1, <1>2, <1>3, <1>4, TakenCovers

-----------------------------------------------------------------------------
\* No committed change is forgotten without a trace: it is on its way to a
\* snapshot, its failure is shown, or it is one of those given up for a reason
\* the model names.
THEOREM NothingForgotten == Spec => []ChangeCovered
  <1>1. Init => ChangeCovered
    BY DEF Init, ChangeCovered
  <1>2. TypeOK /\ ChangeCovered /\ [Next]_vars => ChangeCovered'
    <2> SUFFICES ASSUME TypeOK, ChangeCovered, [Next]_vars PROVE ChangeCovered'
      OBVIOUS
    <2>1. ASSUME NEW c \in Client, Request(c) PROVE ChangeCovered'
      BY <2>1, CommitKeeps, DirectCovers, RemoveCovers DEF Request
    <2>2. ASSUME NEW c \in Client, ClientStep(c) PROVE ChangeCovered'
      <3>1. c \in Proc
        BY DEF Proc
      <3>2. CASE DirectSucceeds(c)
        BY <3>1, <3>2, CopiedCovers DEF DirectSucceeds
      <3>3. QED
        BY <2>2, <3>1, <3>2, NotifyStartKeeps, NotifyChangedKeeps, BeginCopyCovers,
           MishapCovers, DirectFailsCovers, ForgetCovers DEF ClientStep
    <2>3. ASSUME NEW w \in Worker, WorkerStep(w) PROVE ChangeCovered'
      <3>1. w \in Proc
        BY DEF Proc
      <3>2. CASE WriteSucceeds(w)
        BY <3>1, <3>2, CopiedCovers DEF WriteSucceeds
      <3>3. QED
        BY <2>3, <3>1, <3>2, TakeCovers, BeginCopyCovers, MishapCovers, RetryCovers,
           WriteFailsCovers DEF WorkerStep
    <2>4. ASSUME NEW e \in Event, Create(e) PROVE ChangeCovered'
      BY <2>4, WaitsSame, WaitsEnough DEF Create, IsFailing
    <2>5. CASE UNCHANGED vars
      BY <2>5, WaitsSame, WaitsEnough DEF vars, IsFailing
    <2>6. QED
      BY <2>1, <2>2, <2>3, <2>4, <2>5, TimerStepCovers, TickCovers, ToggleCovers,
         BootCovers, StopCovers DEF Next
  <1>3. QED
    BY <1>1, <1>2, TypeCorrect, PTL DEF Spec

-----------------------------------------------------------------------------
(* Events that only change by commits.                                     *)

\* The backups are on, requests only commit, and there is one worker at most.
CommitsAlone ==
  /\ enabled /\ ~stopping
  /\ \A c \in Client : proc[c].pc \in {"idle", "committed", "asking"}
  /\ \A w \in Worker : proc[w].pc # "absent" => w = worker

\* The failures of the attempts a worker has made are counted.
Counted(w) ==
  LET tried == status[proc[w].event].count IN
  /\ proc[w].pc \in {"copy", "copying", "unread"} => tried + 1 >= proc[w].attempt
  /\ proc[w].pc = "retry" => tried >= proc[w].attempt

\* A change that the copy under way does not hold will be in another.
Followed(w) ==
  \A e \in Event :
    /\ proc[w].pc = "copying" /\ proc[w].event = e
    /\ ~proc[w].holds /\ unsaved[e]
    => Covered(e)

\* So nothing is given up.
CommitsInv ==
  /\ CommitsAlone
  /\ \A w \in Worker : Counted(w) /\ Followed(w)
  /\ \A e \in Event : unsaved[e] => ~lost[e]

\* A step that leaves the workers at what they do, or starts the first one.
LEMMA OthersKeep ==
  ASSUME TypeOK, CommitsInv, enabled', ~stopping',
         worker' = worker \/ worker = None,
         \A w \in Worker : proc'[w] = proc[w] \/ (w = worker' /\ proc'[w].pc = "get"),
         \A c \in Client : proc'[c].pc \in {"idle", "committed", "asking"},
         \A e \in Event : /\ status'[e].count = status[e].count
                          /\ Covered(e) => Covered(e)'
                          /\ unsaved'[e] => unsaved[e] /\ (lost'[e] => lost[e])
  PROVE  CommitsInv'
  <1>1. \A w \in Worker : proc'[w].pc # "absent" => w = worker'
    BY ConstantsAssumption DEF CommitsInv, CommitsAlone
  <1>2. ASSUME NEW w \in Worker PROVE (Counted(w) /\ Followed(w))'
    <2>1. CASE proc'[w].pc \in {"copy", "copying", "unread", "retry"}
      <3>1. proc'[w] = proc[w] /\ proc[w].event \in Event
        BY <2>1 DEF TypeOK, AtWork, Proc
      <3>2. status'[proc[w].event].count = status[proc[w].event].count
        BY <3>1
      <3>3. QED
        BY <3>1, <3>2 DEF CommitsInv, Counted, Followed
    <2>2. CASE proc'[w].pc \notin {"copy", "copying", "unread", "retry"}
      BY <2>2 DEF Counted, Followed
    <2>3. QED
      BY <2>1, <2>2
  <1>3. QED
    BY <1>1, <1>2 DEF CommitsInv, CommitsAlone

\* A step of the worker: there is no other.
LEMMA OwnKeeps ==
  ASSUME TypeOK, CommitsInv, NEW w \in Worker, NEW r, proc' = [proc EXCEPT ![w] = r],
         proc[w].pc # "absent", UNCHANGED <<enabled, worker, stopping>>,
         (Counted(w) /\ Followed(w))',
         \A e \in Event : unsaved'[e] => unsaved[e] /\ ~lost'[e]
  PROVE  CommitsInv'
  <1>1. w \in Proc /\ w \notin Client
    BY ConstantsAssumption DEF Proc
  <1>2. \A v \in Proc : v # w => proc'[v] = proc[v]
    BY DEF TypeOK
  <1>3. \A v \in Worker : v # w => proc'[v].pc = "absent"
    BY <1>2 DEF CommitsInv, CommitsAlone, Proc
  <1>4. \A v \in Worker : v # w => (Counted(v) /\ Followed(v))'
    BY <1>3 DEF Counted, Followed
  <1>5. CommitsAlone'
    BY <1>1, <1>2, <1>3 DEF CommitsInv, CommitsAlone, Proc
  <1>6. QED
    BY <1>4, <1>5 DEF CommitsInv

LEMMA CommitAlone ==
  ASSUME TypeOK, CommitsInv, NEW c \in Client, NEW e \in Event, Commit(c, e)
  PROVE  CommitsInv'
  <1>1. c \in Proc /\ c \notin Worker /\ proc[c] \in Procs
    BY ConstantsAssumption DEF Proc, TypeOK
  <1>2. \A p \in Proc : p # c => /\ proc'[p].pc = proc[p].pc
                                 /\ proc'[p].event = proc[p].event
                                 /\ proc'[p].attempt = proc[p].attempt
                                 /\ proc[p].event # e => proc'[p] = proc[p]
    BY DEF Commit, TypeOK, Procs
  <1>3. proc'[c].pc = "committed"
    <2> DEFINE asked == [proc[c] EXCEPT !.pc = "committed", !.event = e]
    <2>1. [proc EXCEPT ![c].pc = "committed", ![c].event = e] = [proc EXCEPT ![c] = asked]
      BY <1>1 DEF TypeOK, Procs
    <2>2. proc'[c] = asked
      BY <1>1, <2>1 DEF Commit, TypeOK
    <2>3. QED
      BY <1>1, <2>2 DEF Procs
  <1>4. \A f \in Event : f # e => unsaved'[f] = unsaved[f] /\ lost'[f] = lost[f]
    BY DEF Commit, TypeOK
  <1>5. unsaved'[e] => ~lost'[e]
    BY DEF Commit, TypeOK, CommitsInv
  <1>6. ASSUME NEW w \in Worker PROVE (Counted(w) /\ Followed(w))'
    <2>1. w \in Proc /\ w # c
      BY <1>1 DEF Proc
    <2>2. Counted(w)'
      BY <1>2, <2>1 DEF CommitsInv, Counted, Commit
    <2>3. Followed(w)'
      <3> SUFFICES ASSUME NEW f \in Event, proc'[w].pc = "copying", proc'[w].event = f,
                          ~proc'[w].holds, unsaved'[f], f # e
                   PROVE  Covered(f)'
        BY CommitPasses DEF Followed
      <3>1. proc'[w] = proc[w] /\ unsaved[f]
        BY <1>2, <1>4, <2>1
      <3>2. Covered(f)
        BY <3>1 DEF CommitsInv, Followed
      <3>3. QED
        BY <3>2, CommitPasses
    <2>4. QED
      BY <2>2, <2>3
  <1>7. CommitsAlone'
    BY <1>1, <1>2, <1>3 DEF CommitsInv, CommitsAlone, Commit, Proc
  <1>8. QED
    BY <1>4, <1>5, <1>6, <1>7 DEF CommitsInv

LEMMA NotifyAlone ==
  ASSUME TypeOK, CommitsInv, NEW c \in Client, NotifyStart(c) \/ NotifyChanged(c)
  PROVE  CommitsInv'
  <1>1. c \in Proc /\ c \notin Worker /\ proc[c].event \in Event /\ enabled /\ ~stopping
    BY ConstantsAssumption
    DEF Proc, TypeOK, AtWork, NotifyStart, NotifyChanged, CommitsInv, CommitsAlone
  <1>2. \A d \in Client : d \in Proc /\ d \notin Worker
    BY ConstantsAssumption DEF Proc
  <1>3. CASE NotifyStart(c)
    <2> DEFINE asked == [proc EXCEPT ![c].pc = "asking"]
    <2>1. Started /\ proc' = WithWorker(asked) /\ UNCHANGED <<enabled, unsaved, lost, status>>
      BY <1>1, <1>3 DEF NotifyStart
    <2>2. \A q \in Proc : asked[q] = proc[q] \/ (q = c /\ asked[q].pc = "asking")
      BY <1>1 DEF TypeOK, Procs
    <2>3. \A q \in Proc : \/ proc'[q] = asked[q]
                          \/ q = worker' /\ q \in Worker /\ proc'[q].pc = "get"
      BY <1>1, <2>1 DEF Started, WithWorker, TypeOK, Idler
    <2>4. \A w \in Worker : proc'[w] = proc[w] \/ (w = worker' /\ proc'[w].pc = "get")
      BY <1>1, <2>2, <2>3 DEF Proc
    <2>5. \A d \in Client : proc'[d].pc \in {"idle", "committed", "asking"}
      BY <1>2, <2>2, <2>3 DEF CommitsInv, CommitsAlone
    <2>6. ~stopping' /\ (worker' = worker \/ worker = None)
      BY <1>1, <2>1 DEF Started
    <2>7. QED
      BY <1>1, <1>3, <2>1, <2>4, <2>5, <2>6, StartPasses, OthersKeep
  <1>4. CASE NotifyChanged(c)
    <2>1. Done(c, "idle") /\ UNCHANGED <<enabled, worker, stopping, unsaved, status>>
      BY <1>4 DEF NotifyChanged
    <2>2. \A q \in Proc : proc'[q] = proc[q] \/ (q = c /\ proc'[q].pc = "idle")
      BY <1>1, <2>1 DEF Done, TypeOK, Idler
    <2>3. \A w \in Worker : proc'[w] = proc[w]
      BY <1>1, <2>2 DEF Proc
    <2>4. \A d \in Client : proc'[d].pc \in {"idle", "committed", "asking"}
      BY <1>2, <2>2 DEF CommitsInv, CommitsAlone
    <2>5. \A e \in Event : lost'[e] => lost[e]
      BY <1>1, <1>4 DEF NotifyChanged, TypeOK
    <2>6. QED
      BY <1>1, <1>4, <2>1, <2>3, <2>4, <2>5, ChangedPasses, OthersKeep
  <1>5. QED
    BY <1>3, <1>4

LEMMA QuietAlone ==
  ASSUME TypeOK, CommitsInv,
         (\E t \in Timer : TimerStep(t)) \/ Tick \/ Boot \/ UNCHANGED vars
  PROVE  CommitsInv'
  <1>1. UNCHANGED <<enabled, unsaved, lost>> /\ enabled /\ ~stopping
    BY DEF TimerStep, Fire, OnIdle, HandOver, Tick, Boot, vars, CommitsInv, CommitsAlone
  <1>2. CASE Boot
    <2>1. Started /\ proc' = WithWorker(proc) /\ UNCHANGED status
      BY <1>2 DEF Boot
    <2>2. \A q \in Proc : \/ proc'[q] = proc[q]
                          \/ q = worker' /\ q \in Worker /\ proc'[q].pc = "get"
      BY <2>1 DEF Started, WithWorker, TypeOK, Idler
    <2>3. \A w \in Worker : proc'[w] = proc[w] \/ (w = worker' /\ proc'[w].pc = "get")
      BY <2>2 DEF Proc
    <2>4. \A d \in Client : proc'[d].pc \in {"idle", "committed", "asking"}
      BY <2>2, ConstantsAssumption DEF CommitsInv, CommitsAlone, Proc
    <2>5. ~stopping' /\ (worker' = worker \/ worker = None)
      BY <1>1, <2>1 DEF Started
    <2>6. QED
      BY <1>1, <1>2, <2>1, <2>3, <2>4, <2>5, BootPasses, OthersKeep
  <1>3. CASE ~Boot
    <2>1. UNCHANGED <<proc, worker, stopping>>
      BY <1>3 DEF TimerStep, Fire, OnIdle, HandOver, Tick, vars
    <2>2. \A e \in Event : Waits(e) => Waits(e)'
      BY <1>3, TimerPasses, TickPasses, WaitsSame DEF vars
    <2>3. \A e \in Event : status'[e].count = status[e].count
      BY <1>3, TickPasses DEF TimerStep, Fire, OnIdle, HandOver, vars
    <2>4. \A e \in Event : Covered(e) => Covered(e)'
      BY <2>1, <2>2, WaitPasses
    <2>5. \A d \in Client : proc[d].pc \in {"idle", "committed", "asking"}
      BY DEF CommitsInv, CommitsAlone
    <2>6. QED
      BY <1>1, <2>1, <2>3, <2>4, <2>5, OthersKeep
  <1>4. QED
    BY <1>2, <1>3

LEMMA WorkerAlone ==
  ASSUME TypeOK, CommitsInv, NEW w \in Worker, WorkerStep(w), "mishap" \notin Ops
  PROVE  CommitsInv'
  <1>1. w \in Proc /\ proc[w] \in Procs /\ Counted(w) /\ Followed(w) /\ ~stopping
        /\ \A e \in Event : unsaved[e] => ~lost[e]
    BY DEF Proc, TypeOK, CommitsInv, CommitsAlone
  <1> DEFINE e == proc[w].event
  <1>2. CASE Take(w)
    <2> DEFINE r == IF Head(queue) = None THEN Idler("absent")
                    ELSE [Idler("copy") EXCEPT !.event = Head(queue)]
    <2>1. proc' = [proc EXCEPT ![w] = r] /\ proc[w].pc = "get"
          /\ UNCHANGED <<enabled, worker, stopping, unsaved, lost, status>>
      BY <1>2 DEF Take
    <2>2. r.pc = "absent" \/ (r.pc = "copy" /\ r.attempt = 1 /\ r.event = Head(queue))
      BY DEF Idler
    <2>3. r.event \in Event \/ r.pc = "absent"
      BY <1>2, <2>2 DEF Take, TypeOK, Idler
    <2>4. (Counted(w) /\ Followed(w))'
      <3>1. proc'[w] = r
        BY <1>1, <2>1 DEF TypeOK
      <3>2. r.pc # "absent" => status[r.event].count \in Nat
        BY <2>3 DEF TypeOK, Statuses
      <3>3. QED
        BY <2>1, <2>2, <3>1, <3>2 DEF Counted, Followed
    <2>5. QED
      BY <1>1, <2>1, <2>4, OwnKeeps
  <1>3. CASE BeginCopy(w)
    <2> DEFINE r == [proc[w] EXCEPT !.pc = IF exists[e] THEN "copying" ELSE "unread",
                                    !.holds = exists[e] /\ unsaved[e]]
    <2>1. proc' = [proc EXCEPT ![w] = r] /\ proc[w].pc = "copy"
          /\ UNCHANGED <<enabled, worker, stopping, unsaved, lost, status>>
      BY <1>1, <1>3 DEF BeginCopy, TypeOK, Procs
    <2>2. proc'[w] = r /\ r.event = e /\ r.attempt = proc[w].attempt
          /\ r.pc = (IF exists[e] THEN "copying" ELSE "unread")
          /\ r.holds = (exists[e] /\ unsaved[e])
      BY <1>1, <2>1 DEF TypeOK, Procs
    <2> HIDE DEF r
    <2>3. Counted(w)'
      <3>1. status[e].count + 1 >= proc[w].attempt
        BY <1>1, <2>1 DEF Counted
      <3>2. QED
        BY <2>1, <2>2, <3>1 DEF Counted
    <2>4. Followed(w)'
      <3>1. proc'[w].pc = "copying" => exists[e]
        BY <2>2
      <3>2. proc'[w].pc = "copying" /\ ~proc'[w].holds => ~unsaved[e]
        BY <2>2, <3>1
      <3>3. QED
        BY <2>1, <2>2, <3>2 DEF Followed
    <2>5. QED
      BY <1>1, <2>1, <2>3, <2>4, OwnKeeps
  <1>4. CASE Retry(w)
    <2> DEFINE r == [proc[w] EXCEPT !.pc = "copy", !.attempt = @ + 1]
    <2>1. proc' = [proc EXCEPT ![w] = r] /\ proc[w].pc = "retry"
          /\ UNCHANGED <<enabled, worker, stopping, unsaved, lost, status>>
      BY <1>1, <1>4 DEF Retry, TypeOK, Procs
    <2>2. proc'[w] = r /\ r.event = e /\ r.attempt = proc[w].attempt + 1 /\ r.pc = "copy"
      BY <1>1, <2>1 DEF TypeOK, Procs
    <2>3. e \in Event /\ status[e].count \in Nat /\ proc[w].attempt \in Nat
      <3>1. e \in Event /\ proc[w].attempt \in 1..Retries
        BY <1>1, <2>1 DEF TypeOK, AtWork, Procs
      <3>2. status[e] \in Statuses
        BY <3>1 DEF TypeOK
      <3>3. QED
        BY <3>1, <3>2 DEF Statuses
    <2>4. (Counted(w) /\ Followed(w))'
      BY <1>1, <2>1, <2>2, <2>3 DEF Counted, Followed
    <2>5. QED
      BY <1>1, <2>1, <2>4, OwnKeeps
  <1>5. CASE WriteSucceeds(w)
    <2>1. Done(w, "get") /\ proc[w].pc = "copying" /\ e \in Event
          /\ UNCHANGED <<enabled, worker, stopping>>
      BY <1>1, <1>5, EndsType DEF WriteSucceeds, Ends
    <2>2. proc'[w].pc = "get"
      BY <1>1, <2>1 DEF Done, TypeOK, Idler
    <2>3. ASSUME NEW f \in Event, unsaved'[f] PROVE unsaved[f] /\ ~lost'[f]
      <3>1. CASE f # e
        BY <1>1, <1>5, <2>1, <2>3, <3>1 DEF WriteSucceeds, Saved, Forgotten, TypeOK
      <3>2. CASE f = e
        <4>1. unsaved[e] /\ ~proc[w].holds
          BY <1>5, <2>1, <2>3, <3>2 DEF WriteSucceeds, Saved, TypeOK
        <4>2. Covered(e)
          BY <1>1, <2>1, <4>1 DEF Followed
        <4>3. lost'[e] = lost[e]
          BY <1>5, <2>1, <4>2 DEF WriteSucceeds, Forgotten, TypeOK
        <4>4. QED
          BY <1>1, <2>1, <3>2, <4>1, <4>3
      <3>3. QED
        BY <3>1, <3>2
    <2>4. (Counted(w) /\ Followed(w))'
      BY <2>2 DEF Counted, Followed
    <2>5. QED
      BY <2>1, <2>3, <2>4, OwnKeeps DEF Done
  <1>6. ASSUME NEW x \in Failures, WriteFails(w, x) PROVE CommitsInv'
    <2>1. /\ e \in Event /\ proc[w].pc \in {"copying", "unread"}
          /\ proc[w].attempt \in 1..Retries /\ status[e] \in Statuses
          /\ UNCHANGED <<enabled, worker, stopping, unsaved>>
      BY <1>1, <1>6, EndsType DEF WriteFails, Ends, TypeOK
    <2>2. status[e].count \in 0..Retries /\ status[e].count + 1 >= proc[w].attempt
      BY <1>1, <2>1 DEF Counted, Statuses
    <2>3. status'[e].count = IF status[e].count < Retries THEN status[e].count + 1 ELSE Retries
      BY <1>6, <2>1 DEF WriteFails, FailureRecorded, TypeOK, Statuses
    <2>4. status'[e].count \in Nat /\ status'[e].count >= proc[w].attempt
      BY <2>1, <2>2, <2>3, ConstantsAssumption
    <2>5. CASE /\ UNCHANGED lost
               /\ Goto(w, "retry") \/ proc' = [proc EXCEPT ![w].pc = "copy", ![w].attempt = @ + 1]
      <3>1. PICK s \in {"retry", "copy"} :
              proc' = [proc EXCEPT ![w] =
                         [proc[w] EXCEPT !.pc = s,
                                         !.attempt = IF s = "retry" THEN @ ELSE @ + 1]]
        BY <1>1, <2>5 DEF Goto, TypeOK, Procs
      <3>2. proc'[w].pc = s /\ proc'[w].event = e
            /\ proc'[w].attempt = IF s = "retry" THEN proc[w].attempt ELSE proc[w].attempt + 1
        BY <1>1, <3>1 DEF TypeOK, Procs
      <3>3. (Counted(w) /\ Followed(w))'
        BY <2>1, <2>4, <3>2 DEF Counted, Followed
      <3>4. QED
        BY <1>1, <2>1, <2>5, <3>1, <3>3, OwnKeeps
    <2>6. CASE /\ Done(w, "get")
               /\ x = "persistent" \/ proc[w].attempt = Retries
               /\ lost' = [lost EXCEPT ![e] =
                             @ \/ (x = "transient" /\ status[e].count + 1 < Retries)]
      <3>1. ~(x = "transient" /\ status[e].count + 1 < Retries)
        BY <2>1, <2>2, <2>6, ConstantsAssumption
      <3>2. \A f \in Event : lost'[f] = lost[f]
        BY <2>1, <2>6, <3>1 DEF TypeOK
      <3>3. proc'[w].pc = "get"
        BY <1>1, <2>6 DEF Done, TypeOK, Idler
      <3>4. (Counted(w) /\ Followed(w))'
        BY <3>3 DEF Counted, Followed
      <3>5. QED
        BY <1>1, <2>1, <2>6, <3>2, <3>4, OwnKeeps DEF Done
    <2>7. QED
      BY <1>6, <2>5, <2>6 DEF WriteFails
  <1>7. QED
    BY <1>2, <1>3, <1>4, <1>5, <1>6 DEF WorkerStep, Mishap

\* When events only change by commits, a change that no snapshot holds is on its
\* way to one or its failure is shown: neither the debounce, nor the retries, nor a
\* copy that ends after a failure was recorded gives one up.
THEOREM CommitsNeverForsaken ==
  ASSUME Ops \subseteq {"commit"}
  PROVE  Spec => []ChangeNeverForsaken
  <1>1. Init => CommitsInv
    <2> SUFFICES ASSUME Init PROVE CommitsInv
      OBVIOUS
    <2>1. \A p \in Proc : proc[p].pc = IF p \in Client THEN "idle" ELSE "absent"
      BY DEF Init, Idler
    <2>2. /\ \A c \in Client : proc[c].pc = "idle"
          /\ \A w \in Worker : proc[w].pc = "absent"
      BY <2>1, ConstantsAssumption DEF Proc
    <2>3. QED
      BY <2>2 DEF Init, CommitsInv, CommitsAlone, Counted, Followed
  <1>2. TypeOK /\ CommitsInv /\ [Next]_vars => CommitsInv'
    <2> SUFFICES ASSUME TypeOK, CommitsInv, [Next]_vars PROVE CommitsInv'
      OBVIOUS
    <2>1. ASSUME NEW c \in Client, Request(c) PROVE CommitsInv'
      BY <2>1, CommitAlone DEF Request, Direct, Remove
    <2>2. ASSUME NEW c \in Client, ClientStep(c) PROVE CommitsInv'
      <3>1. proc[c].pc \in {"idle", "committed", "asking"}
        BY DEF CommitsInv, CommitsAlone
      <3>2. NotifyStart(c) \/ NotifyChanged(c)
        BY <2>2, <3>1 DEF ClientStep, BeginCopy, Mishap, DirectSucceeds, DirectFails, Ends, Forget
      <3>3. QED
        BY <3>2, NotifyAlone
    <2>3. QED
      BY <2>1, <2>2, WorkerAlone, QuietAlone DEF Next, Create, Toggle, Stop
  <1>3. ChangeCovered /\ CommitsInv => ChangeNeverForsaken
    BY DEF ChangeCovered, CommitsInv, ChangeNeverForsaken
  <1>4. QED
    BY <1>1, <1>2, <1>3, TypeCorrect, NothingForgotten, PTL DEF Spec
=============================================================================
