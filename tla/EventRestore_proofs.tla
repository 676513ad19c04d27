------------------------ MODULE EventRestore_proofs ------------------------
(***************************************************************************)
(* What holds of EventRestore for every stock of snapshots, every number   *)
(* of transactions and whatever the retention keeps.                       *)
(***************************************************************************)
EXTENDS EventRestore, FiniteSetTheorems, TLAPS

\* The file of the event is another than the one the restoration found.
Swapped == {"replaced", "unloaded", "checked", "putback", "undone"}

\* What is too old holds none of the changes, and the retention has listed
\* no other snapshot of a state that was replaced or upgraded.
Times ==
    /\ Began <= clock
    /\ \A s \in snaps : s.at <= Began => s.changes = {}
    /\ \A s \in doomed : s.tier = 0 => s.at <= Aged

\* A restoration has saved the state it replaces if it has to put it back,
\* and no transaction is open on a file it has put in place.
RunOK ==
    /\ run.pc = "idle" => run = Idle
    /\ run.pc # "idle" => run.chosen \in Snapshot
    /\ run.pc = "begun" => run.replaced = None
    /\ run.pc \in {"putback", "undone"} => run.replaced # None
    /\ run.replaced # None =>
        /\ run.replaced \in snaps
        /\ run.replaced.tier = 0
        /\ run.replaced.at > Began
    /\ run.pc \in Swapped => \A w \in Writer : writer[w] # "live"

\* Once the file has been copied it can be done without.
Held ==
    /\ file.schema = "damaged" => file.changes = {}
    /\ run.pc = "saved" => file.changes \ excused \subseteq Protected
    /\ run.pc \in Swapped => Committed \ excused \subseteq Protected
    /\ CommittedKept

Agrees(mark) ==
    /\ mark = "valid" => file.schema \in {"current", "damaged"}
    /\ mark = "invalid" => file.schema \in {"broken", "damaged"}

\* What is known otherwise than by a fault of the moment
Trusted == IF mistaken THEN known \ {"invalid"} ELSE known

\* What a scan is about to record is as true as what is recorded.
LoaderInv ==
    run.pc \notin {"replaced", "undone"} => \A mark \in Trusted \cup {scan} : Agrees(mark)

\* What the file holds at each step of a restoration, damage aside
Contents ==
    file.schema # "damaged" =>
        /\ run.pc = "saved" /\ run.replaced # None =>
            /\ run.replaced.changes \subseteq file.changes
            /\ file.schema \in {"current", run.replaced.schema}
        /\ run.pc \in {"replaced", "unloaded", "checked"} =>
            file.changes = run.chosen.changes
        /\ run.pc = "checked" => file.schema = "current"
        /\ run.pc = "undone" =>
            /\ file.changes = run.replaced.changes
            /\ file.schema \in {"current", run.replaced.schema}

IInv == TypeOK /\ Times /\ RunOK /\ Held /\ LoaderInv /\ Contents

\* A step that takes a snapshot or none
Copied ==
    \/ snaps' = snaps /\ clock' = clock
    \/ \E tier \in Tier : Written(tier)
-----------------------------------------------------------------------------
(* The retention.                                                          *)

\* What the retention gives up of a list is never the most recent snapshot,
\* and a snapshot of the state before a restoration or an upgrade only for
\* its age (snapshots_to_prune).
LEMMA PrunedHasNewer ==
    ASSUME NEW S, NEW old, NEW s \in ToPrune(S, old)
    PROVE  /\ s \in S
           /\ \E t \in S : t.at > s.at
           /\ s.tier = 0 => s.at <= old
<1>1. s \in Older(S)
  BY DEF ToPrune, OverCount
<1>2. s \in S /\ \E t \in S : t.at > s.at
  BY <1>1 DEF Older, Newer
<1>3. s.tier = 0 => s \notin OverCount(Older(S))
  BY DEF OverCount
<1>4. s.tier = 0 => s.at <= old
  BY <1>3 DEF ToPrune
<1> QED
  BY <1>2, <1>4
-----------------------------------------------------------------------------
(* What the steps of several actions have in common.                       *)

LEMMA WrittenIsNew ==
    ASSUME TypeOK, NEW tier \in Tier, Written(tier)
    PROVE  /\ New(tier) \in Snapshot
           /\ New(tier).at = clock + 1
           /\ New(tier).tier = tier
           /\ New(tier).changes = file.changes
           /\ New(tier).schema = file.schema
           /\ clock' = clock + 1
           /\ snaps' = snaps \cup {New(tier)}
<1>1. file.changes \subseteq Writer /\ file.schema \in {"current", "old", "broken"}
  BY DEF TypeOK, Written, Schema
<1>2. clock + 1 \in Nat
  BY DEF TypeOK
<1> QED
  BY <1>1, <1>2 DEF Written, New, Snapshot

LEMMA CopiedKeeps ==
    ASSUME IInv, Copied, doomed' = doomed
    PROVE  /\ snaps \subseteq snaps'
           /\ snaps' \subseteq Snapshot
           /\ clock' \in Nat
           /\ \A s, t \in snaps' \cup doomed' : s.at <= clock' /\ (s.at = t.at => s = t)
           /\ Times'
           /\ Protected \subseteq Protected'
<1> SUFFICES ASSUME NEW tier \in Tier, Written(tier)
    PROVE  /\ snaps \subseteq snaps'
           /\ snaps' \subseteq Snapshot
           /\ clock' \in Nat
           /\ \A s, t \in snaps' \cup doomed' : s.at <= clock' /\ (s.at = t.at => s = t)
           /\ Times'
           /\ Protected \subseteq Protected'
  <2>1. CASE snaps' = snaps /\ clock' = clock
    BY <2>1 DEF IInv, TypeOK, Times, Protected
  <2> QED
    BY <2>1 DEF Copied
<1>1. /\ New(tier) \in Snapshot
      /\ New(tier).at = clock + 1
      /\ clock' = clock + 1
      /\ snaps' = snaps \cup {New(tier)}
  BY WrittenIsNew DEF IInv
<1> HIDE DEF New
<1>2. clock \in Nat /\ Began \in Nat /\ Began <= clock
  BY StockAssumption DEF IInv, TypeOK, Times
<1>3. snaps \subseteq snaps' /\ snaps' \subseteq Snapshot /\ clock' \in Nat
  BY <1>1, <1>2 DEF IInv, TypeOK
<1>4. \A s \in snaps \cup doomed : s.at \in Nat /\ s.at <= clock
  BY DEF IInv, TypeOK, Snapshot
<1>5. \A s, t \in snaps' \cup doomed' : s.at <= clock' /\ (s.at = t.at => s = t)
  <2> SUFFICES ASSUME NEW s \in snaps' \cup doomed', NEW t \in snaps' \cup doomed'
      PROVE  s.at <= clock' /\ (s.at = t.at => s = t)
    OBVIOUS
  <2>1. s = New(tier) \/ s \in snaps \cup doomed
    BY <1>1
  <2>2. t = New(tier) \/ t \in snaps \cup doomed
    BY <1>1
  <2> QED
    BY <2>1, <2>2, <1>1, <1>2, <1>4 DEF IInv, TypeOK
<1>6. Times'
  BY <1>1, <1>2 DEF IInv, Times
<1>7. Protected \subseteq Protected'
  BY <1>3 DEF Protected
<1> QED
  BY <1>3, <1>5, <1>6, <1>7

\* check_event_database leaves the changes alone, and the schema unless it
\* upgrades it.
LEMMA CheckedKeeps ==
    ASSUME IInv, NEW o \in Mark \X Schema, NEW mayWrite \in BOOLEAN, Checked(o, mayWrite)
    PROVE  /\ Copied
           /\ file' \in [schema : Schema, changes : SUBSET Writer]
           /\ file'.changes = file.changes
           /\ file'.schema = o[2]
           /\ o[2] = file.schema \/ (o[2] = "current" /\ file.schema = "old" /\ mayWrite)
           /\ o[1] = "valid" => o[2] = "current"
           /\ o[1] = "invalid" => o[2] = "broken"
<1>1. file \in [schema : Schema, changes : SUBSET Writer]
  BY DEF IInv, TypeOK
<1>2. o[2] \in Schema /\ file' = [file EXCEPT !.schema = o[2]]
  BY DEF Checked
<1>3. /\ file' \in [schema : Schema, changes : SUBSET Writer]
      /\ file'.changes = file.changes
      /\ file'.schema = o[2]
  BY <1>1, <1>2
<1>4. Copied
  BY DEF Checked, Copied, Tier
<1>5. o \in Outcomes(file.schema, mayWrite)
  BY DEF Checked
<1>6. \/ o[1] \in {"unreadable", "mishap"} /\ o[2] = file.schema
      \/ o[1] = "valid" /\ o[2] = "current" /\ file.schema = "current"
      \/ o[1] = "invalid" /\ o[2] = "broken" /\ file.schema = "broken"
      \/ /\ o[1] \in {"valid", "unreadable", "mishap"} /\ o[2] = "current"
         /\ file.schema = "old" /\ mayWrite
  <2>1. \/ o \in {<<"unreadable", file.schema>>, <<"mishap", file.schema>>}
        \/ o \in {<<"valid", "current">>} /\ file.schema = "current"
        \/ o \in {<<"invalid", "broken">>} /\ file.schema = "broken"
        \/ o \in {"valid", "unreadable", "mishap"} \X {"current"} /\ file.schema = "old" /\ mayWrite
    BY <1>5 DEF Outcomes
  <2> QED
    BY <2>1
<1>7. /\ o[2] = file.schema \/ (o[2] = "current" /\ file.schema = "old" /\ mayWrite)
      /\ o[1] = "valid" => o[2] = "current"
      /\ o[1] = "invalid" => o[2] = "broken"
  BY <1>6
<1> QED
  BY <1>3, <1>4, <1>7

\* The rescan after a file was put in place records what it has just seen.
LEMMA UnloadKeeps ==
    ASSUME IInv, Unload
    PROVE  /\ Copied
           /\ file' \in [schema : Schema, changes : SUBSET Writer]
           /\ file'.changes = file.changes
           /\ file'.schema = file.schema \/ (file'.schema = "current" /\ file.schema = "old")
           /\ known' \subseteq Known
           /\ scan' = "none"
           /\ mistaken' \in BOOLEAN
           /\ \A mark \in Trusted' \cup {scan'} : Agrees(mark)'
<1>1. PICK o \in Mark \X Schema :
        Checked(o, TRUE) /\ known' = Record({}, o[1]) /\ mistaken' = (o[1] = "mishap")
  BY DEF Unload, Forgotten
<1>2. /\ Copied
      /\ file' \in [schema : Schema, changes : SUBSET Writer]
      /\ file'.changes = file.changes
      /\ file'.schema = o[2]
      /\ o[2] = file.schema \/ (o[2] = "current" /\ file.schema = "old")
      /\ o[1] = "valid" => o[2] = "current"
      /\ o[1] = "invalid" => o[2] = "broken"
  BY <1>1, CheckedKeeps
<1>3. known' \subseteq Known /\ Trusted' \subseteq {o[1]} /\ mistaken' \in BOOLEAN
  BY <1>1 DEF Record, Trusted
<1>4. scan' = "none"
  BY DEF Unload
<1>5. \A mark \in Trusted' \cup {scan'} : Agrees(mark)'
  BY <1>2, <1>3, <1>4 DEF Agrees
<1> QED
  BY <1>2, <1>3, <1>4, <1>5
-----------------------------------------------------------------------------
(* Each part of the invariant is kept by every step.                       *)

LEMMA TypeStep == IInv /\ [Next]_vars => TypeOK'
<1> SUFFICES ASSUME IInv, [Next]_vars PROVE TypeOK'
  OBVIOUS
<1> USE DEF IInv
<1>1. CASE UNCHANGED vars
  BY <1>1 DEF TypeOK, vars
<1>2. CASE Take
  <2>1. Copied /\ doomed' = doomed
    BY <1>2 DEF Take, Copied, Tier
  <2> QED
    BY <2>1, <1>2, CopiedKeeps DEF Take, TypeOK
<1>3. CASE List
  <2>1. PICK old \in {0, Aged} : doomed' = doomed \cup ToPrune(snaps, old)
    BY <1>3 DEF List
  <2>2. doomed' \subseteq snaps \cup doomed
    BY <2>1, PrunedHasNewer
  <2> QED
    BY <2>2, <1>3 DEF List, TypeOK
<1>4. CASE Unlink
  <2>1. doomed' \subseteq doomed /\ snaps' \subseteq snaps
    BY <1>4 DEF Unlink
  <2> QED
    BY <2>1, <1>4 DEF Unlink, TypeOK
<1>5. CASE \E w \in Writer : Open(w) \/ Abort(w)
  BY <1>5 DEF Open, Abort, TypeOK
<1>6. ASSUME NEW w \in Writer, Commit(w) PROVE TypeOK'
  <2>1. file' \in [schema : Schema, changes : SUBSET Writer]
    BY <1>6 DEF Commit, TypeOK
  <2>2. excused' \subseteq Writer
    BY <1>6 DEF Commit, TypeOK
  <2> QED
    BY <2>1, <2>2, <1>6 DEF Commit, TypeOK
<1>7. CASE Damage
  BY <1>7 DEF Damage, TypeOK, Schema
<1>8. CASE ScanBegin
  <2>1. PICK o \in Mark \X Schema : Checked(o, run.pc = "idle") /\ scan' = o[1]
    BY <1>8 DEF ScanBegin
  <2>2. Copied /\ file' \in [schema : Schema, changes : SUBSET Writer]
    BY <2>1, CheckedKeeps
  <2>3. doomed' = doomed
    BY <1>8 DEF ScanBegin
  <2> QED
    BY <2>1, <2>2, <2>3, <1>8, CopiedKeeps DEF ScanBegin, TypeOK
<1>9. CASE ScanEnd
  BY <1>9 DEF ScanEnd, Record, Known, TypeOK
<1>10. CASE Demote \/ Clean
  <2>1. known' \subseteq Known /\ mistaken' \in BOOLEAN
    <3>1. known \subseteq Known /\ mistaken \in BOOLEAN
      BY DEF TypeOK
    <3> QED
      BY <3>1, <1>10 DEF Demote, Clean, Record, Known
  <2> QED
    BY <2>1, <1>10 DEF Demote, Clean, TypeOK
<1>11. CASE Begin
  BY <1>11 DEF Begin, TypeOK, PC
<1>12. CASE Save
  <2>1. Copied /\ doomed' = doomed
    BY <1>12 DEF Save, Copied, Tier
  <2>2. run' \in [pc : PC, chosen : Snapshot \cup {None}, replaced : Snapshot \cup {None}]
    <3>1. CASE Written(0) /\ run' = [run EXCEPT !.pc = "saved", !.replaced = New(0)]
      <4>1. New(0) \in Snapshot
        BY <3>1, WrittenIsNew DEF Tier
      <4> QED
        BY <3>1, <4>1 DEF TypeOK, PC
    <3>2. CASE Goes("saved")
      BY <3>2 DEF Goes, TypeOK, PC
    <3>3. CASE run' = Idle
      BY <3>3 DEF Idle, PC
    <3> QED
      BY <3>1, <3>2, <3>3, <1>12 DEF Save
  <2> QED
    BY <2>1, <2>2, <1>12, CopiedKeeps DEF Save, TypeOK
<1>13. CASE Replace \/ PutBack
  <2>1. run' \in [pc : PC, chosen : Snapshot \cup {None}, replaced : Snapshot \cup {None}]
    BY <1>13 DEF Replace, PutBack, Goes, Idle, PC, TypeOK
  <2>2. /\ file' \in [schema : Schema, changes : SUBSET Writer]
        /\ writer' \in [Writer -> {"out", "live", "stale", "done"}]
    <3>1. CASE UNCHANGED <<file, writer>>
      BY <3>1 DEF TypeOK
    <3>2. ASSUME NEW s \in snaps, PutInPlace(s)
          PROVE  /\ file' \in [schema : Schema, changes : SUBSET Writer]
                 /\ writer' \in [Writer -> {"out", "live", "stale", "done"}]
      BY <3>2 DEF PutInPlace, TypeOK, Snapshot, Schema
    <3> QED
      BY <3>1, <3>2, <1>13 DEF Replace, PutBack, PutInPlace
  <2> QED
    BY <2>1, <2>2, <1>13 DEF Replace, PutBack, TypeOK
<1>14. CASE UnloadReplaced \/ UnloadUndone
  <2>1. Unload /\ doomed' = doomed
    BY <1>14 DEF UnloadReplaced, UnloadUndone
  <2>2. run' \in [pc : PC, chosen : Snapshot \cup {None}, replaced : Snapshot \cup {None}]
    BY <1>14 DEF UnloadReplaced, UnloadUndone, Goes, Idle, PC, TypeOK
  <2> QED
    BY <2>1, <2>2, <1>14, UnloadKeeps, CopiedKeeps DEF UnloadReplaced, UnloadUndone, TypeOK
<1>15. CASE Check
  <2>1. PICK o \in Mark \X Schema :
          /\ Checked(o, TRUE)
          /\ IF o[1] = "valid" THEN Goes("checked") ELSE run' = Undoing
    BY <1>15 DEF Check
  <2>2. Copied /\ file' \in [schema : Schema, changes : SUBSET Writer]
    BY <2>1, CheckedKeeps
  <2>3. run' \in [pc : PC, chosen : Snapshot \cup {None}, replaced : Snapshot \cup {None}]
    BY <2>1 DEF Goes, Undoing, Idle, PC, TypeOK
  <2>4. doomed' = doomed
    BY <1>15 DEF Check
  <2> QED
    BY <2>2, <2>3, <2>4, <1>15, CopiedKeeps DEF Check, TypeOK
<1>16. CASE Finish
  BY <1>16 DEF Finish, Idle, PC, TypeOK
<1> QED
  BY <1>1, <1>2, <1>3, <1>4, <1>5, <1>6, <1>7, <1>8, <1>9, <1>10, <1>11, <1>12,
     <1>13, <1>14, <1>15, <1>16 DEF Next

LEMMA TimesStep == IInv /\ [Next]_vars => Times'
<1> SUFFICES ASSUME IInv, [Next]_vars PROVE Times'
  OBVIOUS
<1> USE DEF IInv
<1>1. CASE UNCHANGED <<snaps, clock, doomed>>
  BY <1>1 DEF Times
<1>2. CASE Copied /\ doomed' = doomed
  BY <1>2, CopiedKeeps
<1>3. CASE List
  <2>1. PICK old \in {0, Aged} : doomed' = doomed \cup ToPrune(snaps, old)
    BY <1>3 DEF List
  <2>2. old <= Aged
    BY StockAssumption
  <2>3. \A s \in ToPrune(snaps, old) : s.tier = 0 => s.at <= Aged
    <3> SUFFICES ASSUME NEW s \in ToPrune(snaps, old), s.tier = 0 PROVE s.at <= Aged
      OBVIOUS
    <3>1. s.at <= old /\ s \in snaps
      BY PrunedHasNewer
    <3>2. s.at \in Nat
      BY <3>1 DEF TypeOK, Snapshot
    <3> QED
      BY <3>1, <3>2, <2>2, StockAssumption
  <2> QED
    BY <2>1, <2>3, <1>3 DEF List, Times
<1>4. CASE Unlink
  BY <1>4 DEF Unlink, Times
<1>5. CASE ScanBegin \/ Check
  <2>1. PICK o \in Mark \X Schema, mayWrite \in BOOLEAN : Checked(o, mayWrite)
    BY <1>5 DEF ScanBegin, Check
  <2> QED
    BY <2>1, <1>2, <1>5, CheckedKeeps DEF ScanBegin, Check
<1>6. CASE UnloadReplaced \/ UnloadUndone
  BY <1>2, <1>6, UnloadKeeps DEF UnloadReplaced, UnloadUndone
<1>7. CASE Take \/ Save
  BY <1>2, <1>7 DEF Take, Save, Copied, Tier
<1> QED
  BY <1>1, <1>3, <1>4, <1>5, <1>6, <1>7
  DEF Next, vars, Open, Commit, Abort, Damage, ScanEnd, Demote, Clean, Begin, Replace, PutBack,
      Finish

\* What the retention removes is not what a restoration would put back, nor
\* a state that holds changes.
LEMMA UnlinkSpares ==
    ASSUME IInv, Unlink
    PROVE  /\ snaps' \subseteq snaps
           /\ run.replaced # None => run.replaced \in snaps'
           /\ Protected \subseteq Protected'
<1>1. PICK s \in doomed : snaps' \in {snaps, snaps \ {s}}
  BY DEF Unlink
<1>2. Aged <= Began /\ Aged \in Int /\ Began \in Nat
  BY StockAssumption
<1>3. s.at \in Nat
  BY DEF IInv, TypeOK, Snapshot
<1>4. s.tier = 0 => s.at <= Began
  BY <1>2, <1>3 DEF IInv, Times
<1>5. run.replaced # None => run.replaced \in snaps'
  <2> SUFFICES ASSUME run.replaced # None PROVE run.replaced # s
    BY <1>1 DEF IInv, RunOK
  <2>1. run.replaced.tier = 0 /\ run.replaced.at > Began
    BY DEF IInv, RunOK
  <2> QED
    BY <2>1, <1>2, <1>3, <1>4
<1>6. Protected \subseteq Protected'
  <2> SUFFICES ASSUME NEW c \in Protected PROVE c \in Protected'
    OBVIOUS
  <2>1. PICK t \in snaps : t.tier = 0 /\ c \in t.changes
    BY DEF Protected
  <2>2. t # s
    BY <2>1, <1>4 DEF IInv, Times
  <2>3. t \in snaps'
    BY <1>1, <2>2
  <2> QED
    BY <2>1, <2>3 DEF Protected
<1> QED
  BY <1>1, <1>5, <1>6

LEMMA RunStep == IInv /\ [Next]_vars => RunOK'
<1> SUFFICES ASSUME IInv, [Next]_vars PROVE RunOK'
  OBVIOUS
<1> USE DEF IInv
<1>1. CASE UNCHANGED <<snaps, writer, run>>
  BY <1>1 DEF RunOK
<1>2. CASE run' = run /\ writer' = writer /\ snaps \subseteq snaps'
  BY <1>2 DEF RunOK
<1>3. CASE Unlink
  <2>1. run' = run /\ writer' = writer
    BY <1>3 DEF Unlink
  <2> QED
    BY <2>1, <1>3, UnlinkSpares DEF RunOK
<1>4. ASSUME NEW w \in Writer, Open(w) PROVE RunOK'
  BY <1>4 DEF Open, MayOpen, RunOK, Idle, Swapped
<1>5. ASSUME NEW w \in Writer, Commit(w) \/ Abort(w) PROVE RunOK'
  BY <1>5 DEF Commit, Abort, RunOK, TypeOK
<1>6. CASE run' = Idle
  BY <1>6, NoneAssumption DEF Idle, RunOK, Swapped
<1>7. CASE Begin
  BY <1>7 DEF Begin, RunOK, TypeOK, Swapped
<1>8. CASE Save /\ run' # Idle
  <2>1. CASE Written(0) /\ run' = [run EXCEPT !.pc = "saved", !.replaced = New(0)]
    <3>1. /\ New(0).at = clock + 1 /\ New(0).tier = 0
          /\ snaps' = snaps \cup {New(0)}
      BY <2>1, WrittenIsNew DEF Tier
    <3>2. clock + 1 > Began
      BY StockAssumption DEF TypeOK, Times
    <3>3. run'.replaced = New(0) /\ run'.pc = "saved" /\ run'.chosen = run.chosen
      BY <2>1 DEF TypeOK
    <3>4. run.chosen \in Snapshot
      BY <1>8 DEF Save, RunOK
    <3> QED
      BY <3>1, <3>2, <3>3, <3>4, <1>8 DEF RunOK, Swapped
  <2>2. CASE Goes("saved") /\ snaps' = snaps
    BY <2>2, <1>8 DEF Goes, Save, RunOK, TypeOK, Swapped
  <2> QED
    BY <2>1, <2>2, <1>8 DEF Save
<1>9. CASE (Replace \/ PutBack) /\ run' # Idle
  <2>1. PICK s \in snaps : PutInPlace(s)
    BY <1>9 DEF Replace, PutBack, PutInPlace
  <2>2. \A w \in Writer : writer'[w] # "live"
    BY <2>1 DEF PutInPlace, TypeOK
  <2> QED
    BY <2>2, <1>9 DEF Replace, PutBack, Goes, RunOK, TypeOK
<1>10. CASE UnloadReplaced
  <2>1. snaps \subseteq snaps'
    BY <1>10, UnloadKeeps, CopiedKeeps DEF UnloadReplaced
  <2> QED
    BY <2>1, <1>10 DEF UnloadReplaced, Goes, RunOK, TypeOK, Swapped
<1>11. CASE Check /\ run' # Idle
  <2>1. PICK o \in Mark \X Schema :
          /\ Checked(o, TRUE)
          /\ IF o[1] = "valid" THEN Goes("checked") ELSE run' = Undoing
    BY <1>11 DEF Check
  <2>2. snaps \subseteq snaps'
    BY <2>1, <1>11, CheckedKeeps, CopiedKeeps DEF Check
  <2> QED
    BY <2>1, <2>2, <1>11 DEF Check, Goes, Undoing, RunOK, TypeOK, Swapped
<1>12. CASE ScanBegin
  <2>1. PICK o \in Mark \X Schema : Checked(o, run.pc = "idle")
    BY <1>12 DEF ScanBegin
  <2> QED
    BY <2>1, <1>2, <1>12, CheckedKeeps, CopiedKeeps DEF ScanBegin
<1>13. CASE Take
  BY <1>2, <1>13, CopiedKeeps DEF Take, Copied, Tier
<1> QED
  BY <1>1, <1>3, <1>4, <1>5, <1>6, <1>7, <1>8, <1>9, <1>10, <1>11, <1>12, <1>13
  DEF Next, vars, List, Damage, ScanEnd, Demote, Clean, UnloadUndone, Finish

LEMMA LoaderStep == IInv /\ [Next]_vars => LoaderInv'
<1> SUFFICES ASSUME IInv, [Next]_vars PROVE LoaderInv'
  OBVIOUS
<1> USE DEF IInv
<1>1. CASE Trusted' \cup {scan'} \subseteq Trusted \cup {scan, "none"} /\ run'.pc = run.pc
           /\ (file' = file \/ file'.schema \in {file.schema, "damaged"})
  BY <1>1 DEF LoaderInv, Agrees
<1>2. CASE UNCHANGED <<known, mistaken, scan, run>>
           /\ file'.schema \in {file.schema, "damaged"}
  BY <1>2 DEF LoaderInv, Trusted, Agrees
<1>3. ASSUME NEW w \in Writer, Commit(w) PROVE LoaderInv'
  <2>1. file'.schema = file.schema
    BY <1>3 DEF Commit, TypeOK
  <2> QED
    BY <2>1, <1>2, <1>3 DEF Commit
<1>4. CASE Damage
  BY <1>4, <1>2 DEF Damage
<1>5. CASE ScanBegin
  <2>1. PICK o \in Mark \X Schema : Checked(o, run.pc = "idle") /\ scan' = o[1]
    BY <1>5 DEF ScanBegin
  <2>2. /\ file'.schema = o[2]
        /\ o[1] = "valid" => o[2] = "current"
        /\ o[1] = "invalid" => o[2] = "broken"
    BY <2>1, CheckedKeeps
  <2>3. known' = {} /\ run' = run
    BY <1>5 DEF ScanBegin
  <2> QED
    BY <2>1, <2>2, <2>3 DEF LoaderInv, Trusted, Agrees
<1>6. CASE ScanEnd
  <2>1. Trusted' \subseteq Trusted \cup {scan}
    BY <1>6 DEF ScanEnd, Record, Trusted
  <2> QED
    BY <2>1, <1>6, <1>1 DEF ScanEnd
<1>7. CASE Demote \/ Clean
  <2>1. Trusted' \subseteq Trusted
    BY <1>7 DEF Demote, Clean, Record, Known, Trusted
  <2> QED
    BY <2>1, <1>7, <1>1 DEF Demote, Clean
<1>8. CASE Begin \/ Save \/ Finish
  <2>1. run.pc \notin {"replaced", "undone"}
    BY <1>8 DEF Begin, Save, Finish
  <2> QED
    BY <2>1, <1>8 DEF Begin, Save, Finish, LoaderInv, Trusted, Agrees
<1>9. CASE Replace \/ PutBack
  <2>1. CASE run' = Idle /\ UNCHANGED file
    <3>1. run.pc \notin {"replaced", "undone"}
      BY <1>9 DEF Replace, PutBack
    <3> QED
      BY <2>1, <3>1, <1>9 DEF Replace, PutBack, LoaderInv, Trusted, Agrees
  <2>2. CASE Goes("replaced") \/ Goes("undone")
    <3>1. run'.pc \in {"replaced", "undone"}
      BY <2>2 DEF Goes, TypeOK
    <3> QED
      BY <3>1 DEF LoaderInv
  <2> QED
    BY <2>1, <2>2, <1>9 DEF Replace, PutBack
<1>10. CASE UnloadReplaced \/ UnloadUndone
  BY <1>10, UnloadKeeps DEF UnloadReplaced, UnloadUndone, LoaderInv
<1>11. CASE Check
  <2>1. PICK o \in Mark \X Schema : Checked(o, TRUE)
    BY <1>11 DEF Check
  <2>2. /\ file'.schema = o[2]
        /\ o[2] = file.schema \/ (o[2] = "current" /\ file.schema = "old")
    BY <2>1, CheckedKeeps
  <2>3. run.pc = "unloaded" /\ UNCHANGED <<known, mistaken, scan>>
    BY <1>11 DEF Check
  <2> QED
    BY <2>2, <2>3 DEF LoaderInv, Trusted, Agrees
<1>12. CASE UNCHANGED <<file, known, mistaken, scan, run>>
  BY <1>12 DEF LoaderInv, Trusted, Agrees
<1> QED
  BY <1>3, <1>4, <1>5, <1>6, <1>7, <1>8, <1>9, <1>10, <1>11, <1>12
  DEF Next, vars, Take, List, Unlink, Open, Abort

LEMMA HeldStep == IInv /\ [Next]_vars => Held'
<1> SUFFICES ASSUME IInv, [Next]_vars PROVE Held'
  OBVIOUS
<1> USE DEF IInv
<1>1. CASE /\ file'.changes = file.changes
           /\ file'.schema = "damaged" => file.schema = "damaged"
           /\ Committed' = Committed /\ excused' = excused
           /\ Protected \subseteq Protected'
           /\ run'.pc = "saved" => run.pc = "saved"
           /\ run'.pc \in Swapped => run.pc \in Swapped
  BY <1>1 DEF Held, CommittedKept
<1>2. (snaps' = snaps => Protected' = Protected) /\ (writer' = writer => Committed' = Committed)
  BY DEF Protected, Committed
<1>3. CASE Take
  <2>1. Protected \subseteq Protected'
    BY <1>3, CopiedKeeps DEF Take, Copied, Tier
  <2> QED
    BY <2>1, <1>1, <1>2, <1>3 DEF Take
<1>4. CASE Unlink
  BY <1>1, <1>2, <1>4, UnlinkSpares DEF Unlink
<1>5. ASSUME NEW w \in Writer, Open(w) \/ Abort(w) PROVE Held'
  <2>1. Committed' = Committed
    BY <1>5 DEF Open, Abort, TypeOK, Committed
  <2> QED
    BY <2>1, <1>1, <1>2, <1>5 DEF Open, Abort
<1>6. ASSUME NEW w \in Writer, Commit(w) PROVE Held'
  <2>1. Committed' = Committed \cup {w}
    BY <1>6 DEF Commit, TypeOK, Committed
  <2>2. Protected' = Protected /\ run' = run
    BY <1>6 DEF Commit, Protected
  <2>3. CASE writer[w] = "live"
    <3>1. run.pc \notin Swapped
      BY <2>3 DEF RunOK
    <3>2. /\ file'.changes = file.changes \cup {w}
          /\ file'.schema = file.schema
          /\ file.schema # "damaged"
          /\ excused' = IF run.pc = "saved" THEN excused \cup {w} ELSE excused
      BY <1>6, <2>3 DEF Commit, TypeOK
    <3> QED
      BY <2>1, <2>2, <3>1, <3>2 DEF Held, CommittedKept
  <2>4. CASE writer[w] = "stale"
    <3>1. file' = file /\ excused' = excused \cup {w}
      BY <1>6, <2>4 DEF Commit
    <3> QED
      BY <2>1, <2>2, <3>1 DEF Held, CommittedKept
  <2> QED
    BY <2>3, <2>4, <1>6 DEF Commit
<1>7. CASE Damage
  <2>1. /\ Committed' = Committed /\ Protected' = Protected /\ run' = run
        /\ excused' = excused \cup file.changes
        /\ file'.changes = {}
    BY <1>7 DEF Damage, Committed, Protected
  <2> QED
    BY <2>1 DEF Held, CommittedKept
<1>8. CASE ScanBegin \/ Check
  <2>1. PICK o \in Mark \X Schema, mayWrite \in BOOLEAN : Checked(o, mayWrite)
    BY <1>8 DEF ScanBegin, Check
  <2>2. /\ file'.changes = file.changes
        /\ file'.schema = "damaged" => file.schema = "damaged"
        /\ Copied
    BY <2>1, CheckedKeeps
  <2>3. UNCHANGED <<doomed, writer, excused>>
    BY <1>8 DEF ScanBegin, Check
  <2>4. Protected \subseteq Protected'
    BY <2>2, <2>3, CopiedKeeps
  <2>5. run'.pc # "saved" \/ run' = run
    <3>1. CASE ScanBegin
      BY <3>1 DEF ScanBegin
    <3>2. CASE Check
      <4>1. Goes("checked") \/ run' = Undoing
        BY <3>2 DEF Check
      <4>2. Goes("checked") => run'.pc # "saved"
        BY DEF Goes, TypeOK
      <4>3. run' = Undoing => run'.pc # "saved"
        BY DEF Undoing, Idle, TypeOK
      <4> QED
        BY <4>1, <4>2, <4>3
    <3> QED
      BY <1>8, <3>1, <3>2
  <2>6. run'.pc \in Swapped => run.pc \in Swapped
    BY <1>8 DEF ScanBegin, Check, Swapped
  <2> QED
    BY <2>2, <2>3, <2>4, <2>5, <2>6, <1>1, <1>2
<1>9. CASE UnloadReplaced \/ UnloadUndone
  <2>1. Unload /\ UNCHANGED <<doomed, writer, excused>>
    BY <1>9 DEF UnloadReplaced, UnloadUndone
  <2>2. /\ file'.changes = file.changes
        /\ file'.schema = "damaged" => file.schema = "damaged"
        /\ Protected \subseteq Protected'
    BY <2>1, UnloadKeeps, CopiedKeeps
  <2>3. run'.pc # "saved" /\ run.pc \in Swapped
    BY <1>9 DEF UnloadReplaced, UnloadUndone, Goes, Idle, TypeOK, Swapped
  <2> QED
    BY <2>1, <2>2, <2>3, <1>1, <1>2
<1>10. CASE run' = Idle /\ UNCHANGED <<file, writer, snaps, excused>>
  BY <1>1, <1>2, <1>10 DEF Idle, Swapped
<1>11. CASE Begin
  BY <1>1, <1>2, <1>11 DEF Begin, Swapped
<1>12. CASE Save
  <2>1. UNCHANGED <<file, writer, excused>>
    BY <1>12 DEF Save
  <2>2. CASE Written(0) /\ run' = [run EXCEPT !.pc = "saved", !.replaced = New(0)]
    <3>1. /\ New(0).tier = 0 /\ New(0).changes = file.changes
          /\ snaps' = snaps \cup {New(0)}
      BY <2>2, WrittenIsNew DEF Tier
    <3>2. file.changes \subseteq Protected' /\ Protected \subseteq Protected'
      BY <3>1 DEF Protected
    <3>3. run'.pc = "saved"
      BY <2>2 DEF TypeOK
    <3> QED
      BY <2>1, <3>2, <3>3, <1>2 DEF Held, CommittedKept, Swapped
  <2>3. CASE file.schema = "damaged" /\ Goes("saved") /\ snaps' = snaps
    <3>1. run'.pc = "saved"
      BY <2>3 DEF Goes, TypeOK
    <3> QED
      BY <2>1, <2>3, <3>1, <1>2 DEF Held, CommittedKept, Swapped
  <2>4. CASE run' = Idle /\ snaps' = snaps
    BY <2>1, <2>4, <1>10
  <2> QED
    BY <2>2, <2>3, <2>4, <1>12 DEF Save
<1>13. CASE (Replace \/ PutBack) /\ run' # Idle
  <2>1. PICK s \in snaps : PutInPlace(s)
    BY <1>13 DEF Replace, PutBack, PutInPlace
  <2>2. file'.schema # "damaged"
    BY <2>1 DEF PutInPlace, TypeOK, Snapshot
  <2>3. Committed' = Committed
    BY <2>1 DEF PutInPlace, TypeOK, Committed
  <2>4. UNCHANGED <<snaps, excused>> /\ run'.pc # "saved"
    BY <1>13 DEF Replace, PutBack, Goes, TypeOK
  <2>5. Committed \ excused \subseteq Protected
    BY <1>13 DEF Replace, PutBack, Held, CommittedKept, Swapped
  <2> QED
    BY <2>2, <2>3, <2>4, <2>5, <1>2 DEF Held, CommittedKept
<1>14. CASE List \/ ScanEnd \/ Demote \/ Clean \/ UNCHANGED vars
  BY <1>1, <1>2, <1>14 DEF List, ScanEnd, Demote, Clean, vars
<1>15. CASE (Replace \/ PutBack \/ Finish) /\ run' = Idle
  <2>1. ~Goes("replaced") /\ ~Goes("undone")
    BY <1>15 DEF Goes, Idle, TypeOK
  <2> QED
    BY <2>1, <1>10, <1>15 DEF Replace, PutBack, Finish
<1>16. CASE Finish
  BY <1>15, <1>16 DEF Finish
<1> QED
  BY <1>3, <1>4, <1>5, <1>6, <1>7, <1>8, <1>9, <1>11, <1>12, <1>13, <1>14, <1>15, <1>16
  DEF Next

LEMMA ContentsStep == IInv /\ [Next]_vars => Contents'
<1> SUFFICES ASSUME IInv, [Next]_vars, file'.schema # "damaged" PROVE Contents'
  BY DEF Contents
<1> USE DEF IInv
<1>1. CASE UNCHANGED <<file, run>>
  BY <1>1 DEF Contents
<1>2. CASE run' = Idle
  BY <1>2 DEF Idle, Contents
<1>3. ASSUME NEW w \in Writer, Commit(w) PROVE Contents'
  <2>1. CASE writer[w] = "live"
    <3>1. run.pc \notin Swapped
      BY <2>1 DEF RunOK
    <3>2. /\ file'.changes = file.changes \cup {w}
          /\ file'.schema = file.schema
          /\ run' = run
      BY <1>3, <2>1 DEF Commit, TypeOK
    <3> QED
      BY <3>1, <3>2 DEF Contents, Swapped
  <2> QED
    BY <2>1, <1>1, <1>3 DEF Commit
<1>4. CASE ScanBegin
  <2>1. PICK o \in Mark \X Schema : Checked(o, run.pc = "idle")
    BY <1>4 DEF ScanBegin
  <2>2. /\ file'.changes = file.changes
        /\ file'.schema = file.schema \/ run.pc = "idle"
    BY <2>1, CheckedKeeps
  <2>3. file.schema # "damaged"
    BY <2>1, CheckedKeeps DEF Schema
  <2> QED
    BY <2>2, <2>3, <1>4 DEF ScanBegin, Contents
<1>5. CASE Begin
  BY <1>5 DEF Begin, Contents
<1>6. CASE Save /\ run' # Idle
  <2>1. run'.pc = "saved" /\ file' = file
    BY <1>6 DEF Save, Goes, TypeOK
  <2>2. CASE Written(0) /\ run' = [run EXCEPT !.pc = "saved", !.replaced = New(0)]
    <3>1. New(0).changes = file.changes /\ New(0).schema = file.schema
      BY <2>2, WrittenIsNew DEF Tier
    <3>2. run'.replaced = New(0)
      BY <2>2 DEF TypeOK
    <3> QED
      BY <2>1, <3>1, <3>2 DEF Contents
  <2> QED
    BY <2>1, <2>2, <1>6 DEF Save
<1>7. CASE Replace /\ run' # Idle
  <2>1. run'.pc = "replaced" /\ run'.chosen = run.chosen
    BY <1>7 DEF Replace, Goes, TypeOK
  <2>2. file'.changes = run.chosen.changes
    BY <1>7 DEF Replace, PutInPlace
  <2> QED
    BY <2>1, <2>2 DEF Contents
<1>8. CASE PutBack /\ run' # Idle
  <2>1. run'.pc = "undone" /\ run'.replaced = run.replaced
    BY <1>8 DEF PutBack, Goes, TypeOK
  <2>2. file'.changes = run.replaced.changes /\ file'.schema = run.replaced.schema
    BY <1>8 DEF PutBack, PutInPlace
  <2> QED
    BY <2>1, <2>2 DEF Contents
<1>9. CASE UnloadReplaced
  <2>1. file'.changes = file.changes /\ file.schema # "damaged"
    BY <1>9, UnloadKeeps DEF UnloadReplaced
  <2>2. run.pc = "replaced" /\ run'.pc = "unloaded" /\ run'.chosen = run.chosen
    BY <1>9 DEF UnloadReplaced, Goes, TypeOK
  <2> QED
    BY <2>1, <2>2 DEF Contents
<1>10. CASE Check /\ run' # Idle
  <2>1. PICK o \in Mark \X Schema :
          /\ Checked(o, TRUE)
          /\ IF o[1] = "valid" THEN Goes("checked") ELSE run' = Undoing
    BY <1>10 DEF Check
  <2>2. /\ file'.changes = file.changes /\ file'.schema = o[2]
        /\ o[2] = file.schema \/ (o[2] = "current" /\ file.schema = "old")
        /\ o[1] = "valid" => o[2] = "current"
    BY <2>1, CheckedKeeps
  <2>3. CASE o[1] = "valid"
    <3>1. run.pc = "unloaded" /\ run'.pc = "checked" /\ run'.chosen = run.chosen
      BY <2>1, <2>3, <1>10 DEF Check, Goes, TypeOK
    <3> QED
      BY <2>2, <2>3, <3>1 DEF Contents
  <2>4. CASE run'.pc = "putback"
    BY <2>4 DEF Contents
  <2> QED
    BY <2>1, <2>3, <2>4, <1>10 DEF Undoing, TypeOK
<1> QED
  BY <1>1, <1>2, <1>3, <1>4, <1>5, <1>6, <1>7, <1>8, <1>9, <1>10
  DEF Next, vars, Take, List, Unlink, Open, Abort, Damage, ScanEnd, Demote, Clean, Replace,
      PutBack, UnloadUndone, Finish
-----------------------------------------------------------------------------
(* The invariant, and what it gives.                                       *)

LEMMA InitIInv == Init => IInv
<1> SUFFICES ASSUME Init PROVE IInv
  OBVIOUS
<1> USE DEF Init
<1>1. TypeOK
  <2>1. Stock \subseteq Snapshot /\ Began \in Nat
    BY StockAssumption
  <2>2. \A s, t \in Stock : s.at <= Began /\ (s.at = t.at => s = t)
    BY StockAssumption
  <2>3. run \in [pc : PC, chosen : Snapshot \cup {None}, replaced : Snapshot \cup {None}]
    BY DEF Idle, PC
  <2> QED
    BY <2>1, <2>2, <2>3 DEF TypeOK, Schema, Known
<1>2. Times
  BY StockAssumption DEF Times
<1>3. RunOK
  BY DEF RunOK, Idle, Swapped
<1>4. Held
  BY DEF Held, CommittedKept, Committed, Idle, Swapped
<1>5. LoaderInv
  BY DEF LoaderInv, Trusted, Agrees
<1>6. Contents
  BY DEF Contents, Idle
<1> QED
  BY <1>1, <1>2, <1>3, <1>4, <1>5, <1>6 DEF IInv

LEMMA Inductive == Spec => []IInv
<1>1. Init => IInv
  BY InitIInv
<1>2. IInv /\ [Next]_vars => IInv'
  BY TypeStep, TimesStep, RunStep, HeldStep, LoaderStep, ContentsStep DEF IInv
<1> QED
  BY <1>1, <1>2, PTL DEF Spec

\* The types, that no two snapshots are taken at the same time included.
THEOREM TypeCorrect == Spec => []TypeOK
<1>1. IInv => TypeOK
  BY DEF IInv
<1> QED
  BY <1>1, Inductive, PTL

\* No change that was committed is lost to a restoration, to one that fails,
\* or to the retention, late transactions aside (restore_in_place,
\* EventDatabase.__enter__, snapshots_to_prune).
THEOREM NoCommitLost == Spec => []CommittedKept
<1>1. IInv => CommittedKept
  BY DEF IInv, Held
<1> QED
  BY <1>1, Inductive, PTL

\* What a restoration has to put back is there when it comes to it, whatever
\* the retention removes meanwhile.
THEOREM WayBackKept == Spec => []ReplacedKept
<1>1. IInv => ReplacedKept
  BY DEF IInv, RunOK, ReplacedKept
<1> QED
  BY <1>1, Inductive, PTL

\* The loader never takes a file that was put in place for what it knew of
\* the one before (EventLoader.unload_event), a scan under way included: it
\* holds none to upgrade or broken for valid, and none for invalid that it
\* could load, but by a fault of the moment met when the file was last looked
\* at.
THEOREM LoaderFollows == Spec => []LoaderAgrees
<1>1. IInv => LoaderAgrees
  BY DEF IInv, LoaderInv, Trusted, Agrees, LoaderAgrees
<1> QED
  BY <1>1, Inductive, PTL

\* How a restoration that ends leaves the file.
Settled ==
    run.pc # "idle" /\ run'.pc = "idle" /\ run.replaced # None =>
        \/ run.pc = "putback"
        \/ file'.schema = "damaged"
        \/ file'.schema = "current" /\ file'.changes = run.chosen.changes
        \/ /\ file'.schema \in {"current", run.replaced.schema}
           /\ run.replaced.changes \subseteq file'.changes

LEMMA EndsSettled == IInv /\ [Next]_vars => Settled
<1> SUFFICES ASSUME IInv, [Next]_vars,
        run.pc # "idle", run'.pc = "idle", run.replaced # None, run.pc # "putback",
        file'.schema # "damaged"
    PROVE  \/ file'.schema = "current" /\ file'.changes = run.chosen.changes
           \/ /\ file'.schema \in {"current", run.replaced.schema}
              /\ run.replaced.changes \subseteq file'.changes
  BY DEF Settled
<1> USE DEF IInv
<1>1. Save \/ Replace \/ Check \/ UnloadUndone \/ Finish
  <2>1. run' # run
    OBVIOUS
  <2>2. ~Begin /\ ~UnloadReplaced /\ ~PutBack
    BY DEF Begin, UnloadReplaced, Goes, PutBack, TypeOK
  <2> QED
    BY <2>1, <2>2 DEF Next, vars, Take, List, Unlink, Open, Commit, Abort, Damage, ScanBegin,
       ScanEnd, Demote, Clean
<1>2. CASE Save
  BY <1>2 DEF Save, RunOK
<1>3. CASE Replace
  <2>1. run.pc = "saved" /\ file' = file
    BY <1>3 DEF Replace, Goes, TypeOK
  <2> QED
    BY <2>1 DEF Contents
<1>4. CASE Check
  <2>1. ~Goes("checked")
    BY DEF Goes, TypeOK
  <2>2. run' # Undoing
    BY DEF Undoing, TypeOK
  <2> QED
    BY <2>1, <2>2, <1>4 DEF Check
<1>5. CASE UnloadUndone
  <2>1. /\ file'.changes = file.changes
        /\ file'.schema = file.schema \/ (file'.schema = "current" /\ file.schema = "old")
    BY <1>5, UnloadKeeps DEF UnloadUndone
  <2>2. run.pc = "undone" /\ file.schema # "damaged"
    BY <2>1, <1>5 DEF UnloadUndone
  <2> QED
    BY <2>1, <2>2 DEF Contents
<1>6. CASE Finish
  BY <1>6 DEF Finish, Contents
<1> QED
  BY <1>1, <1>2, <1>3, <1>4, <1>5, <1>6

\* A restoration ends with the snapshot in place or with what it replaced
\* (restore_in_place), whatever happens between its steps.
THEOREM RestoresAllOrNothing == Spec => AllOrNothing
<1>1. IInv /\ [Next]_vars => [Settled]_vars
  BY EndsSettled
<1> QED
  BY <1>1, Inductive, PTL DEF Spec, AllOrNothing, Settled
-----------------------------------------------------------------------------
(* The most recent snapshot.                                               *)

\* The last snapshot taken is on the disk and on no list of the retention.
LastStays == snaps # {} => \E t \in snaps \ doomed : t.at = clock

LEMMA InitLastStays == Init => LastStays
  BY StockAssumption DEF Init, LastStays

LEMMA CopiedLast ==
    ASSUME IInv, LastStays, Copied, doomed' = doomed
    PROVE  LastStays'
<1>1. CASE snaps' = snaps /\ clock' = clock
  BY <1>1 DEF LastStays
<1>2. ASSUME NEW tier \in Tier, Written(tier) PROVE LastStays'
  <2>1. /\ New(tier).at = clock + 1
        /\ clock' = clock + 1
        /\ snaps' = snaps \cup {New(tier)}
    BY <1>2, WrittenIsNew DEF IInv
  <2>2. New(tier) \notin doomed
    BY <2>1 DEF IInv, TypeOK
  <2> QED
    BY <2>1, <2>2 DEF LastStays
<1> QED
  BY <1>1, <1>2 DEF Copied

LEMMA LastStep == IInv /\ LastStays /\ [Next]_vars => LastStays'
<1> SUFFICES ASSUME IInv, LastStays, [Next]_vars PROVE LastStays'
  OBVIOUS
<1>1. CASE Copied /\ doomed' = doomed
  BY <1>1, CopiedLast
<1>2. CASE List
  <2>1. PICK old \in {0, Aged} : doomed' = doomed \cup ToPrune(snaps, old)
    BY <1>2 DEF List
  <2>2. SUFFICES ASSUME snaps # {} PROVE \E t \in snaps \ doomed' : t.at = clock
    BY <1>2 DEF List, LastStays
  <2>3. PICK t \in snaps \ doomed : t.at = clock
    BY <2>2 DEF LastStays
  <2>4. t \notin ToPrune(snaps, old)
    <3>1. \A u \in snaps : u.at \in Nat /\ u.at <= clock
      BY DEF IInv, TypeOK, Snapshot
    <3>2. ~ \E u \in snaps : u.at > t.at
      BY <3>1, <2>3 DEF IInv, TypeOK
    <3> QED
      BY <3>2, PrunedHasNewer
  <2> QED
    BY <2>1, <2>3, <2>4
<1>3. CASE Unlink
  <2>1. PICK s \in doomed : doomed' = doomed \ {s} /\ snaps' \in {snaps, snaps \ {s}}
    BY <1>3 DEF Unlink
  <2> QED
    BY <2>1, <1>3 DEF Unlink, LastStays
<1>4. CASE ScanBegin \/ Check
  <2>1. PICK o \in Mark \X Schema, mayWrite \in BOOLEAN : Checked(o, mayWrite)
    BY <1>4 DEF ScanBegin, Check
  <2> QED
    BY <2>1, <1>1, <1>4, CheckedKeeps DEF ScanBegin, Check
<1>5. CASE UnloadReplaced \/ UnloadUndone
  BY <1>1, <1>5, UnloadKeeps DEF UnloadReplaced, UnloadUndone
<1>6. CASE Take \/ Save
  BY <1>1, <1>6 DEF Take, Save, Copied, Tier
<1>7. CASE UNCHANGED <<snaps, clock, doomed>>
  BY <1>7 DEF LastStays
<1> QED
  BY <1>2, <1>3, <1>4, <1>5, <1>6, <1>7
  DEF Next, vars, Open, Commit, Abort, Damage, ScanEnd, Demote, Clean, Begin, Replace, PutBack,
      Finish

\* What a step removes was listed, and is all it removes.
LEMMA RemovedWasListed ==
    ASSUME IInv, [Next]_vars, NEW s \in snaps, s \notin snaps'
    PROVE  s \in doomed /\ snaps' = snaps \ {s}
<1>1. CASE Unlink
  BY <1>1 DEF Unlink
<1>2. CASE Copied /\ doomed' = doomed
  BY <1>2, CopiedKeeps
<1>3. CASE ScanBegin \/ Check
  <2>1. PICK o \in Mark \X Schema, mayWrite \in BOOLEAN : Checked(o, mayWrite)
    BY <1>3 DEF ScanBegin, Check
  <2> QED
    BY <2>1, <1>2, <1>3, CheckedKeeps DEF ScanBegin, Check
<1>4. CASE UnloadReplaced \/ UnloadUndone
  BY <1>2, <1>4, UnloadKeeps DEF UnloadReplaced, UnloadUndone
<1>5. CASE Take \/ Save
  BY <1>2, <1>5 DEF Take, Save, Copied, Tier
<1> QED
  BY <1>1, <1>3, <1>4, <1>5
  DEF Next, vars, List, Open, Commit, Abort, Damage, ScanEnd, Demote, Clean, Begin, Replace, PutBack,
      Finish

\* What a step removes, it removes for a more recent one that stays.
Outlived == \A s \in snaps \ snaps' : Newer(s, snaps') # {}

LEMMA RemovedOutlived == IInv /\ LastStays /\ [Next]_vars => Outlived
<1> SUFFICES ASSUME IInv, LastStays, [Next]_vars, NEW s \in snaps, s \notin snaps'
             PROVE  Newer(s, snaps') # {}
  BY DEF Outlived
<1>1. s \in doomed /\ snaps' = snaps \ {s}
  BY RemovedWasListed
<1>2. PICK t \in snaps \ doomed : t.at = clock
  BY DEF LastStays
<1>3. t \in snaps' /\ t # s
  BY <1>1, <1>2
<1>4. s.at \in Nat /\ clock \in Nat /\ s.at <= clock /\ s.at # t.at
  BY <1>2, <1>3 DEF IInv, TypeOK, Snapshot
<1>5. t.at > s.at
  BY <1>2, <1>4
<1> QED
  BY <1>3, <1>5 DEF Newer

\* The most recent snapshot is never removed, however many lists of the
\* retention are worked through and out of date (snapshots_to_prune, _prune).
THEOREM MostRecentKept == Spec => [][Outlived]_vars
<1>1. IInv /\ LastStays /\ [Next]_vars => [Outlived]_vars
  BY RemovedOutlived
<1>2. Init => LastStays
  BY InitLastStays
<1>3. IInv /\ LastStays /\ [Next]_vars => LastStays'
  BY LastStep
<1> QED
  BY <1>1, <1>2, <1>3, Inductive, PTL DEF Spec
-----------------------------------------------------------------------------
(* As many as the settings keep.                                           *)

\* The snapshots of a set that come after s and are of its tier.
Successors(s, S) == {t \in Newer(s, S) : t.tier = s.tier}

\* What is listed for another reason than its age has, on the disk, as many
\* snapshots of its tier after it as the settings keep, be they listed or not.
CountStays ==
    /\ IsFiniteSet(snaps)
    /\ \A s \in doomed : s.at > Aged =>
        /\ s.tier # 0
        /\ Cardinality(Successors(s, snaps)) >= Keep(s.tier)

LEMMA KeepNat == \A tier : Keep(tier) \in Nat
  BY KeepAssumption DEF Keep

LEMMA SuccessorsCount ==
    ASSUME NEW S, IsFiniteSet(S), NEW T, T \subseteq S, NEW s
    PROVE  /\ IsFiniteSet(Successors(s, S)) /\ Cardinality(Successors(s, S)) \in Nat
           /\ Cardinality(Successors(s, T)) \in Nat
           /\ Cardinality(Successors(s, T)) <= Cardinality(Successors(s, S))
<1>1. Successors(s, S) \in SUBSET S /\ Successors(s, T) \in SUBSET Successors(s, S)
  BY DEF Successors, Newer
<1>2. IsFiniteSet(Successors(s, S))
  BY <1>1, FS_Subset
<1>3. IsFiniteSet(Successors(s, T))
  BY <1>1, <1>2, FS_Subset
<1> QED
  BY <1>1, <1>2, <1>3, FS_Subset, FS_CardinalityType

\* A snapshot the retention lists, but for its age, has enough after it.
LEMMA PrunedCount ==
    ASSUME NEW S, IsFiniteSet(S), S \subseteq Snapshot, NEW old \in {0, Aged},
           NEW s \in ToPrune(S, old), s.at > Aged
    PROVE  s.tier # 0 /\ Cardinality(Successors(s, S)) >= Keep(s.tier)
<1>1. s \in S /\ s.at \in Nat /\ Aged \in Nat
  BY PrunedHasNewer, StockAssumption DEF Snapshot
<1>2. ~(s.at <= old)
  BY <1>1
<1>3. s \in OverCount(Older(S))
  BY <1>2 DEF ToPrune
<1>4. s.tier # 0 /\ Cardinality(Counted(s, Older(S))) >= Keep(s.tier)
  BY <1>3 DEF OverCount
<1>5. Counted(s, Older(S)) = Successors(s, Older(S)) /\ Older(S) \subseteq S
  BY DEF Counted, Successors, Older
<1> QED
  BY <1>4, <1>5, SuccessorsCount, KeepNat

\* Removing a listed snapshot leaves enough after the listed ones before it.
LEMMA RemovedCount ==
    ASSUME IInv, CountStays, NEW x \in doomed, NEW s \in doomed, s # x, s.at > Aged
    PROVE  Cardinality(Successors(s, snaps \ {x})) >= Keep(s.tier)
<1>1. /\ s.at \in Nat /\ x.at \in Nat /\ Aged \in Nat
      /\ \A t \in snaps : t.at \in Nat
  BY StockAssumption DEF IInv, TypeOK, Snapshot
<1>2. Cardinality(Successors(s, snaps)) >= Keep(s.tier)
  BY DEF CountStays
<1>3. CASE x \notin Successors(s, snaps)
  <2>1. Successors(s, snaps \ {x}) = Successors(s, snaps)
    BY <1>3 DEF Successors, Newer
  <2> QED
    BY <1>2, <2>1
<1>4. CASE x \in Successors(s, snaps)
  <2>1. x.at > s.at /\ x.tier = s.tier /\ x \in snaps
    BY <1>4 DEF Successors, Newer
  <2>2. Cardinality(Successors(x, snaps)) >= Keep(s.tier)
    BY <1>1, <2>1 DEF CountStays
  <2>3. Successors(x, snaps) \subseteq Successors(s, snaps \ {x})
    BY <1>1, <2>1 DEF Successors, Newer
  <2>4. IsFiniteSet(snaps \ {x})
    BY FS_RemoveElement DEF CountStays
  <2>5. Cardinality(Successors(x, snaps)) <= Cardinality(Successors(s, snaps \ {x}))
    BY <2>3, <2>4, SuccessorsCount, FS_Subset
  <2>6. Cardinality(Successors(x, snaps)) \in Nat
        /\ Cardinality(Successors(s, snaps \ {x})) \in Nat
    BY <2>4, SuccessorsCount DEF CountStays
  <2> QED
    BY <2>2, <2>5, <2>6, KeepNat
<1> QED
  BY <1>3, <1>4

LEMMA CopiedCount ==
    ASSUME IInv, CountStays, Copied, doomed' = doomed
    PROVE  CountStays'
<1>1. IsFiniteSet(snaps')
  <2>1. CASE snaps' = snaps
    BY <2>1 DEF CountStays
  <2>2. ASSUME NEW tier \in Tier, Written(tier) PROVE IsFiniteSet(snaps')
    BY <2>2, FS_AddElement DEF CountStays, Written
  <2> QED
    BY <2>1, <2>2 DEF Copied
<1>2. snaps \subseteq snaps'
  BY CopiedKeeps
<1>3. ASSUME NEW s \in doomed, s.at > Aged
      PROVE  s.tier # 0 /\ Cardinality(Successors(s, snaps')) >= Keep(s.tier)
  BY <1>1, <1>2, <1>3, SuccessorsCount, KeepNat DEF CountStays
<1> QED
  BY <1>1, <1>3 DEF CountStays

LEMMA CountStep == IInv /\ CountStays /\ [Next]_vars => CountStays'
<1> SUFFICES ASSUME IInv, CountStays, [Next]_vars PROVE CountStays'
  OBVIOUS
<1>1. CASE Copied /\ doomed' = doomed
  BY <1>1, CopiedCount
<1>2. CASE List
  <2>1. PICK old \in {0, Aged} : doomed' = doomed \cup ToPrune(snaps, old)
    BY <1>2 DEF List
  <2>2. snaps' = snaps
    BY <1>2 DEF List
  <2>3. \A s \in ToPrune(snaps, old) : s.at > Aged =>
          s.tier # 0 /\ Cardinality(Successors(s, snaps)) >= Keep(s.tier)
    BY PrunedCount DEF IInv, TypeOK, CountStays
  <2> QED
    BY <2>1, <2>2, <2>3 DEF CountStays
<1>3. CASE Unlink
  <2>1. PICK x \in doomed : doomed' = doomed \ {x} /\ snaps' \in {snaps, snaps \ {x}}
    BY <1>3 DEF Unlink
  <2>2. IsFiniteSet(snaps')
    BY <2>1, FS_RemoveElement DEF CountStays
  <2>3. ASSUME NEW s \in doomed', s.at > Aged
        PROVE  s.tier # 0 /\ Cardinality(Successors(s, snaps')) >= Keep(s.tier)
    <3>1. s \in doomed /\ s # x
      BY <2>1
    <3>2. s.tier # 0 /\ Cardinality(Successors(s, snaps)) >= Keep(s.tier)
      BY <2>3, <3>1 DEF CountStays
    <3>3. Cardinality(Successors(s, snaps \ {x})) >= Keep(s.tier)
      BY <2>3, <3>1, RemovedCount
    <3> QED
      BY <2>1, <3>2, <3>3
  <2> QED
    BY <2>2, <2>3 DEF CountStays
<1>4. CASE ScanBegin \/ Check
  <2>1. PICK o \in Mark \X Schema, mayWrite \in BOOLEAN : Checked(o, mayWrite)
    BY <1>4 DEF ScanBegin, Check
  <2> QED
    BY <2>1, <1>1, <1>4, CheckedKeeps DEF ScanBegin, Check
<1>5. CASE UnloadReplaced \/ UnloadUndone
  BY <1>1, <1>5, UnloadKeeps DEF UnloadReplaced, UnloadUndone
<1>6. CASE Take \/ Save
  BY <1>1, <1>6 DEF Take, Save, Copied, Tier
<1>7. CASE UNCHANGED <<snaps, clock, doomed>>
  BY <1>7 DEF CountStays
<1> QED
  BY <1>2, <1>3, <1>4, <1>5, <1>6, <1>7
  DEF Next, vars, Open, Commit, Abort, Damage, ScanEnd, Demote, Clean, Begin, Replace, PutBack,
      Finish

\* What the retention removes, from however many lists and however out of date
\* they are, it removes for newer snapshots that stay: as many of the same tier
\* as the settings keep unless it is for its age, and never for its count if it
\* is of the state before a restoration or an upgrade (snapshots_to_prune,
\* _prune).
THEOREM EnoughKept == Spec => KeptEnough
<1>1. ASSUME IInv, LastStays, CountStays, [Next]_vars
      PROVE  \A s \in snaps \ snaps' :
               /\ Newer(s, snaps') # {}
               /\ s.at > Aged =>
                   /\ s.tier # 0
                   /\ Cardinality({t \in Newer(s, snaps') : t.tier = s.tier}) >= Keep(s.tier)
  <2> SUFFICES ASSUME NEW s \in snaps, s \notin snaps'
               PROVE  /\ Newer(s, snaps') # {}
                      /\ s.at > Aged =>
                          /\ s.tier # 0
                          /\ Cardinality(Successors(s, snaps')) >= Keep(s.tier)
    BY DEF Successors
  <2>1. Newer(s, snaps') # {}
    BY <1>1, RemovedOutlived DEF Outlived
  <2>2. s \in doomed /\ snaps' = snaps \ {s}
    BY <1>1, RemovedWasListed
  <2>3. s.at \in Nat
    BY <1>1 DEF IInv, TypeOK, Snapshot
  <2>4. Successors(s, snaps') = Successors(s, snaps)
    BY <2>2, <2>3 DEF Successors, Newer
  <2> QED
    BY <1>1, <2>1, <2>2, <2>4 DEF CountStays
<1>2. IInv /\ LastStays /\ CountStays /\ [Next]_vars =>
        [\A s \in snaps \ snaps' :
            /\ Newer(s, snaps') # {}
            /\ s.at > Aged =>
                /\ s.tier # 0
                /\ Cardinality({t \in Newer(s, snaps') : t.tier = s.tier}) >= Keep(s.tier)]_vars
  BY <1>1
<1>3. Init => LastStays /\ CountStays
  BY InitLastStays, StockAssumption DEF Init, CountStays
<1>4. IInv /\ LastStays /\ CountStays /\ [Next]_vars => LastStays' /\ CountStays'
  BY LastStep, CountStep
<1> QED
  BY <1>2, <1>3, <1>4, Inductive, PTL DEF Spec, KeptEnough
=============================================================================
