--------------------------- MODULE EventRestore ---------------------------
(***************************************************************************)
(* One event whose file is put back to a snapshot (`restore_in_place`)     *)
(* while other threads write to it, scan it, copy it, and give up old      *)
(* snapshots.  What the file holds is the set of changes committed to it   *)
(* and a schema: "current"; "old", which a scan upgrades; "broken", which  *)
(* no upgrade makes valid; "damaged", which cannot be read at all.         *)
(***************************************************************************)
EXTENDS SnapshotRetention

CONSTANTS
    Writer,     \* transactions; each commits at most one change, its own
    Stock,      \* the snapshots there are when the program starts
    Began,      \* when it starts
    Aged,       \* the time by which those too old were taken
    MaxSnaps,   \* bound on the time, which is counted in snapshots
    None        \* no snapshot

Snapshot ==
    [at : Nat, tier : Tier, changes : SUBSET Writer,
     schema : {"current", "old", "broken"}]

ASSUME StockAssumption ==
    /\ Began \in Nat
    /\ Aged \in 0..Began
    /\ MaxSnaps \in Nat
    /\ Stock \subseteq Snapshot
    /\ IsFiniteSet(Stock)
    /\ \A s \in Stock : s.at <= Began /\ s.changes = {}
    /\ \A s, t \in Stock : s.at = t.at => s = t
    /\ Stock # {} => \E s \in Stock : s.at = Began

ASSUME NoneAssumption == None \notin Snapshot

VARIABLES
    file,       \* what the event database holds
    writer,     \* a transaction: "out", open on the file of the event
                \* ("live") or on one replaced since ("stale"), or "done"
    known,      \* the sets of the loader the event is in
    mistaken,   \* it is among the invalid ones by a fault of the moment (never read)
    scan,       \* what a scan has found and not yet recorded, or "none"
    snaps,      \* the snapshots on the disk
    clock,      \* the time of the last one
    doomed,     \* listed by the retention, not yet unlinked
    run,        \* the restoration, `_restoring` unless its pc is "idle"
    excused     \* those no snapshot could hold: see Commit and Damage

vars == <<file, writer, known, mistaken, scan, snaps, clock, doomed, run, excused>>

Schema == {"current", "old", "broken", "damaged"}

\* `_valid_event_ids` and `_invalid_uniq_ids`: the events that are not checked
\* again
Known == {"valid", "invalid"}

\* What a check concludes.  An event found inaccessible or corrupted is checked
\* again at every scan, and one that met a mishap -- a file that was missing for
\* a moment, a migration that was refused the file -- is taken for invalid.
Mark == Known \cup {"unreadable", "mishap"}

PC == {"idle", "begun", "saved", "replaced", "unloaded", "checked", "putback", "undone"}

Idle == [pc |-> "idle", chosen |-> None, replaced |-> None]

Init ==
    /\ file \in [schema : {"current", "old"}, changes : {{}}]
    /\ writer = [w \in Writer |-> "out"]
    /\ known = {}
    /\ mistaken = FALSE
    /\ scan = "none"
    /\ snaps = Stock
    /\ clock = Began
    /\ doomed = {}
    /\ run = Idle
    /\ excused = {}
-----------------------------------------------------------------------------
(* Snapshots and their retention.                                          *)

\* Mutant: the name of the file is cut to a time that is not its own.
NewLate(tier) ==
    [at |-> clock, tier |-> tier, changes |-> file.changes, schema |-> file.schema]

\* snapshot_file names it after the time, to the microsecond.
New(tier) ==
    [at |-> clock + 1, tier |-> tier, changes |-> file.changes, schema |-> file.schema]

\* write_snapshot: one read of the file, renamed into place when it is whole
Written(tier) ==
    /\ clock < MaxSnaps
    /\ file.schema # "damaged"
    /\ clock' = clock + 1
    /\ snaps' = snaps \cup {New(tier)}

\* The worker, or a step of the event, takes a snapshot.
Take ==
    /\ \E tier \in {1, 2} : Written(tier)
    /\ UNCHANGED <<file, writer, known, mistaken, scan, doomed, run, excused>>

\* apply_to_event lists without an age, sweep with one, in days: nothing
\* taken since the program started is too old.
List ==
    /\ \E old \in {0, Aged} : doomed' = doomed \cup ToPrune(snaps, old)
    /\ UNCHANGED <<file, writer, known, mistaken, scan, snaps, clock, run, excused>>

\* _prune, one snapshot at a time, from a list that may be out of date;
\* removing may fail
Unlink ==
    /\ \E s \in doomed :
        /\ doomed' = doomed \ {s}
        /\ snaps' \in {snaps, snaps \ {s}}
    /\ UNCHANGED <<file, writer, known, mistaken, scan, clock, run, excused>>
-----------------------------------------------------------------------------
(* Transactions on the event.                                              *)

\* Mutant: the write is not refused.
MayOpenAlways == TRUE

\* EventDatabase.__enter__ refuses a write while another thread restores
MayOpen == run.pc = "idle"

Open(w) ==
    /\ writer[w] = "out"
    /\ MayOpen
    /\ file.schema = "current"
    /\ \A v \in Writer : writer[v] # "live"    \* BEGIN IMMEDIATE
    /\ writer' = [writer EXCEPT ![w] = "live"]
    /\ UNCHANGED <<file, known, mistaken, scan, snaps, clock, doomed, run, excused>>

\* Nothing is asked again as the transaction commits: one opened before the
\* restoration lands in the file on its way out, after the copy of it was
\* taken, or in the file that was replaced.
Commit(w) ==
    /\ \/ /\ writer[w] = "live"
          /\ file.schema # "damaged"
          /\ file' = [file EXCEPT !.changes = @ \cup {w}]
          /\ excused' = IF run.pc = "saved" THEN excused \cup {w} ELSE excused
       \/ /\ writer[w] = "stale"
          /\ excused' = excused \cup {w}
          /\ UNCHANGED file
    /\ writer' = [writer EXCEPT ![w] = "done"]
    /\ UNCHANGED <<known, mistaken, scan, snaps, clock, doomed, run>>

Abort(w) ==
    /\ writer[w] \in {"live", "stale"}
    /\ writer' = [writer EXCEPT ![w] = "out"]
    /\ UNCHANGED <<file, known, mistaken, scan, snaps, clock, doomed, run, excused>>

\* Another program, or the disk, damages the file.
Damage ==
    /\ file.schema # "damaged"
    /\ file' = [schema |-> "damaged", changes |-> {}]
    /\ excused' = excused \cup file.changes
    /\ UNCHANGED <<writer, known, mistaken, scan, snaps, clock, doomed, run>>
-----------------------------------------------------------------------------
(* The loader.                                                             *)

\* check_event_database on a file: what it concludes and the schema it
\* leaves.  The file may be found locked by another program at any time; a
\* migration that is refused the file fails as one that is wrong would.
Outcomes(schema, mayWrite) ==
    {<<"unreadable", schema>>, <<"mishap", schema>>}
    \cup {o \in {<<"valid", "current">>} : schema = "current"}
    \cup {o \in {<<"invalid", "broken">>} : schema = "broken"}
    \cup {o \in {"valid", "unreadable", "mishap"} \X {"current"} : schema = "old" /\ mayWrite}

\* The check and the upgrade it may contain, which takes a snapshot of the
\* event first when it can.
Checked(o, mayWrite) ==
    /\ o \in Outcomes(file.schema, mayWrite)
    /\ file' = [file EXCEPT !.schema = o[2]]
    /\ \/ UNCHANGED <<snaps, clock>>
       \/ /\ file.schema = "old"
          /\ o # <<"unreadable", "old">>
          /\ Written(0)

Record(ids, mark) ==
    ids \cup ({IF mark = "mishap" THEN "invalid" ELSE mark} \cap Known)

\* _load_event_ids, under `_ids_lock`, by a thread that is not restoring
ScanBegin ==
    /\ scan = "none"
    /\ known = {}
    /\ \E o \in Mark \X Schema : Checked(o, run.pc = "idle") /\ scan' = o[1]
    /\ UNCHANGED <<writer, known, mistaken, doomed, run, excused>>

ScanEnd ==
    /\ scan # "none"
    /\ known' = Record(known, scan)
    /\ mistaken' = (mistaken \/ scan = "mishap")
    /\ scan' = "none"
    /\ UNCHANGED <<file, writer, snaps, clock, doomed, run, excused>>

\* _filter_events_metadata: a valid event whose file cannot be read any more, or
\* is missing for a moment
Demote ==
    /\ scan = "none"
    /\ "valid" \in known
    /\ \E mark \in {"unreadable", "mishap"} :
        /\ known' = Record(known \ {"valid"}, mark)
        /\ mistaken' = (mistaken \/ mark = "mishap")
    /\ UNCHANGED <<file, writer, scan, snaps, clock, doomed, run, excused>>

\* _clean_not_existing_event_database_files: a scan during which the file is
\* missing forgets the event.
Clean ==
    /\ scan = "none"
    /\ known' = {} /\ mistaken' = FALSE
    /\ UNCHANGED <<file, writer, scan, snaps, clock, doomed, run, excused>>

\* Mutant: only the valid ids are told to forget the event.
ForgottenIfValid == known \ {"valid"}

\* unload_event: forgets what is known and scans again, by the thread that
\* restores; it waits for a scan under way
Forgotten == {}

\* The rescan checks the event again unless it is still known.
Unload ==
    /\ scan = "none"
    /\ UNCHANGED scan
    /\ \E o \in Mark \X Schema :
        /\ Checked(o, TRUE)
        /\ known' = IF Forgotten = {} THEN Record({}, o[1]) ELSE Forgotten
        /\ mistaken' = IF Forgotten = {} THEN o[1] = "mishap" ELSE mistaken
-----------------------------------------------------------------------------
(* The restoration, a step of restore_in_place each.                       *)

Goes(pc) == run' = [run EXCEPT !.pc = pc]

Begin ==
    /\ run.pc = "idle"
    /\ \E s \in snaps : run' = [pc |-> "begun", chosen |-> s, replaced |-> None]
    /\ UNCHANGED <<file, writer, known, mistaken, scan, snaps, clock, doomed, excused>>

\* snapshot_now(BEFORE_RESTORE): a damaged event has none, any other
\* failure ends the restoration before it starts
Save ==
    /\ run.pc = "begun"
    /\ \/ /\ Written(0)
          /\ run' = [run EXCEPT !.pc = "saved", !.replaced = New(0)]
       \/ /\ file.schema = "damaged"
          /\ Goes("saved")
          /\ UNCHANGED <<snaps, clock>>
       \/ run' = Idle /\ UNCHANGED <<snaps, clock>>
    /\ UNCHANGED <<file, writer, known, mistaken, scan, doomed, excused>>

\* _replace_event_file: renamed onto the file, the transactions open on it
\* keep what it was
PutInPlace(s) ==
    /\ s \in snaps
    /\ file' = [schema |-> s.schema, changes |-> s.changes]
    /\ writer' = [w \in Writer |-> IF writer[w] = "live" THEN "stale" ELSE writer[w]]

\* The snapshot may have been given up since it was chosen, and the file may
\* be refused.
Replace ==
    /\ run.pc = "saved"
    /\ \/ PutInPlace(run.chosen) /\ Goes("replaced")
       \/ run' = Idle /\ UNCHANGED <<file, writer>>
    /\ UNCHANGED <<known, mistaken, scan, snaps, clock, doomed, excused>>

UnloadReplaced ==
    /\ run.pc = "replaced"
    /\ Unload
    /\ Goes("unloaded")
    /\ UNCHANGED <<writer, doomed, excused>>

\* Mutant: a file that fails the check is left in place.
UndoingNever == Idle

\* What a check that fails leads to
Undoing == IF run.replaced = None THEN Idle ELSE [run EXCEPT !.pc = "putback"]

Check ==
    /\ run.pc = "unloaded"
    /\ \E o \in Mark \X Schema :
        /\ Checked(o, TRUE)
        /\ IF o[1] = "valid" THEN Goes("checked") ELSE run' = Undoing
    /\ UNCHANGED <<writer, known, mistaken, scan, doomed, excused>>

PutBack ==
    /\ run.pc = "putback"
    /\ \/ PutInPlace(run.replaced) /\ Goes("undone")
       \/ run' = Idle /\ UNCHANGED <<file, writer>>
    /\ UNCHANGED <<known, mistaken, scan, snaps, clock, doomed, excused>>

UnloadUndone ==
    /\ run.pc = "undone"
    /\ Unload
    /\ run' = Idle
    /\ UNCHANGED <<writer, doomed, excused>>

\* The plugins are handed what the event held, and the event is loaded.
Finish ==
    /\ run.pc = "checked"
    /\ run' = Idle
    /\ UNCHANGED <<file, writer, known, mistaken, scan, snaps, clock, doomed, excused>>

Next ==
    \/ Take \/ List \/ Unlink
    \/ \E w \in Writer : Open(w) \/ Commit(w) \/ Abort(w)
    \/ Damage
    \/ ScanBegin \/ ScanEnd \/ Demote \/ Clean
    \/ Begin \/ Save \/ Replace \/ UnloadReplaced \/ Check
    \/ PutBack \/ UnloadUndone \/ Finish

Spec == Init /\ [][Next]_vars
-----------------------------------------------------------------------------
(* Properties.                                                             *)

TypeOK ==
    /\ file \in [schema : Schema, changes : SUBSET Writer]
    /\ writer \in [Writer -> {"out", "live", "stale", "done"}]
    /\ known \subseteq Known
    /\ mistaken \in BOOLEAN
    /\ scan \in Mark \cup {"none"}
    /\ snaps \subseteq Snapshot
    /\ clock \in Nat
    /\ doomed \subseteq Snapshot
    /\ run \in [pc : PC, chosen : Snapshot \cup {None}, replaced : Snapshot \cup {None}]
    /\ excused \subseteq Writer
    /\ \A s, t \in snaps \cup doomed : s.at <= clock /\ (s.at = t.at => s = t)

\* The changes whose transaction reported success
Committed == {w \in Writer : writer[w] = "done"}

\* What the retention must never lose: the states replaced or upgraded
Protected == UNION {s.changes : s \in {t \in snaps : t.tier = 0}}

\* A change that was committed is in the file of the event or in a snapshot
\* of a state a restoration replaced, whatever the restoration, its failures
\* and the retention did meanwhile; a transaction that was already open when
\* the restoration copied the file is the exception (see Commit).
CommittedKept == Committed \ excused \subseteq file.changes \cup Protected

\* As long as a restoration may need it, the state it replaced is there.
ReplacedKept == run.replaced # None => run.replaced \in snaps

\* Except between a replacement and the scan that follows, the loader does
\* not hold a file that must be upgraded or that is broken for valid, nor one
\* that it could load for invalid.  The exception is a file taken for invalid
\* by a fault of the moment: "Inaccessible and corrupted ids are deliberately
\* excluded so they are retried", but not that one, which stays among the
\* invalid ones until the event is unloaded or its file is missing at a scan.
LoaderAgrees ==
    run.pc \notin {"replaced", "undone"} =>
        /\ "valid" \in known => file.schema \in {"current", "damaged"}
        /\ "invalid" \in known /\ ~mistaken => file.schema \in {"broken", "damaged"}

\* A restoration ends with the event as the snapshot has it, upgraded, or
\* with no less than it held before, unless the disk refuses to take it back.
AllOrNothing ==
    [][run.pc # "idle" /\ run'.pc = "idle" /\ run.replaced # None =>
        \/ run.pc = "putback"
        \/ file'.schema = "damaged"
        \/ file'.schema = "current" /\ file'.changes = run.chosen.changes
        \/ /\ file'.schema \in {"current", run.replaced.schema}
           /\ run.replaced.changes \subseteq file'.changes]_vars

\* What the retention removes, it removes for newer ones that stay: as many
\* of the same tier as the settings keep, and a snapshot of the state before
\* a restoration or an upgrade only for its age.
KeptEnough ==
    [][\A s \in snaps \ snaps' :
        /\ Newer(s, snaps') # {}
        /\ s.at > Aged =>
            /\ s.tier # 0
            /\ Cardinality({t \in Newer(s, snaps') : t.tier = s.tier}) >= Keep(s.tier)]_vars
=============================================================================
