---------------------------- MODULE RoundSeating ----------------------------
(***************************************************************************)
(* What the boards of a round promise: who sits with whom, and who is away *)
(* with a bye they asked for.  A table seats two players, or one who waits *)
(* for an opponent and has the bye of the round unless one comes; nobody   *)
(* is at two tables, nobody away is at one, and one player at most waits.  *)
(***************************************************************************)
CONSTANT Player

VARIABLES
  tables, \* the set of the players of each table
  away    \* the players who asked for a bye

seating == <<tables, away>>

Seated(ts) == UNION ts
Waiting(ts) == {t \in ts : \E p \in Player : t = {p}}
Free == Player \ Seated(tables)

\* Tables of one or two players, none of them at another table.
IsSeating(ts) ==
  /\ \A t \in ts : \E p, q \in Player : t = {p, q}
  /\ \A t, u \in ts : t # u => t \cap u = {}
  /\ \A t, u \in Waiting(ts) : t = u

Init == tables = {} /\ away = {}

\* Everyone who is neither seated nor away is, except that one may be left out
\* when somebody is waiting (an odd one: the new tables then seat two each); the
\* tables there were stay.
Draw ==
  LET players == Free \ away IN
  \E left \in {{}} \cup {{p} : p \in players} :
    /\ tables \subseteq tables'
    /\ Seated(tables' \ tables) = players \ left
    /\ IsSeating(tables')
    /\ left # {} => Waiting(tables) # {}
    /\ UNCHANGED away

\* A player sits down and waits, nobody else waiting.
Wait(p) ==
  /\ p \in Free /\ Waiting(tables) = {}
  /\ tables' = tables \cup {{p}}
  /\ away' = away \ {p}

\* A player sits in front of the one who waits.
Face(p) ==
  /\ p \in Free
  /\ \E t \in Waiting(tables) : tables' = (tables \ {t}) \cup {t \cup {p}}
  /\ away' = away \ {p}

\* The players of some tables rise; none of them is away.
Rise ==
  /\ tables' \subseteq tables
  /\ UNCHANGED away

\* A player asks for a bye, or is back.
Leave(p) == p \in Free /\ away' = away \cup {p} /\ UNCHANGED tables
Return(p) == away' = away \ {p} /\ UNCHANGED tables

Next ==
  \/ Draw \/ Rise
  \/ \E p \in Player : Wait(p) \/ Face(p) \/ Leave(p) \/ Return(p)

Spec == Init /\ [][Next]_seating

\* Nobody is at two tables or away and seated, and one player at most waits.
Seemly == IsSeating(tables) /\ away \cap Seated(tables) = {}
=============================================================================
