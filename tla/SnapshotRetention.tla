------------------------ MODULE SnapshotRetention ------------------------
(***************************************************************************)
(* Which snapshots of one event the retention gives up                     *)
(* (`snapshots_to_prune`).  A snapshot is a record with the time `at` it   *)
(* was taken and the `tier` of its reason: 0 before a restoration or an    *)
(* upgrade, 1 a milestone, 2 automatic.  No two are taken at the same      *)
(* time: the name of the file carries microseconds.                        *)
(***************************************************************************)
EXTENDS Integers, FiniteSets

CONSTANTS KeepMilestones, KeepAuto    \* how many of each the settings keep

ASSUME KeepAssumption == KeepMilestones \in Nat /\ KeepAuto \in Nat

Tier == 0..2

Keep(tier) == IF tier = 1 THEN KeepMilestones ELSE KeepAuto

Newer(s, S) == {t \in S : t.at > s.at}

\* `older`: every snapshot but the most recent one
Older(S) == {s \in S : Newer(s, S) # {}}

\* Mutant: the milestones and the automatic snapshots share one count.
CountedTogether(s, older) == {t \in Newer(s, older) : t.tier > 0}

\* The snapshots counted before s, from the most recent back.
Counted(s, older) == {t \in Newer(s, older) : t.tier = s.tier}

\* Mutant: the tiers are ranked the wrong way, and what came before a
\* restoration or an upgrade makes room first.
OverCountUnranked(older) ==
    {s \in older : s.tier = 0 \/ Cardinality(Counted(s, older)) >= Keep(s.tier)}

OverCount(older) ==
    {s \in older : s.tier # 0 /\ Cardinality(Counted(s, older)) >= Keep(s.tier)}

\* `kept_milestones`: the last two steps among the snapshots not given up,
\* the most recent snapshot included
LastSteps(S) ==
    LET steps == {s \in S : s.tier <= 1}
    IN  {s \in steps : Cardinality(Newer(s, steps)) < 2}

\* The most recent snapshot is never given up; of the others, those over
\* the count of their tier, then those taken at `old` or before.
ToPrune(S, old) ==
    LET older == Older(S)
        over == OverCount(older)
        spared == LastSteps(S \ over)
    IN  over \cup {s \in older \ spared : s.at <= old}
=============================================================================
