-------------------------- MODULE DoubleElimination --------------------------
(***************************************************************************)
(* An individual double-elimination knock-out: the graph of its matches    *)
(* (data/pairings/double_elimination.py), what the engine makes of it from *)
(* the boards (data/pairings/knockout_helpers/double.py and engines.py),   *)
(* and what the arbiter does round after round.                            *)
(*                                                                         *)
(* A participant is a seed.  Nothing of the bracket is stored: who plays   *)
(* whom is worked out from the results each time it is asked.  The only    *)
(* advancement tie-break is the manual one: the arbiter designates who     *)
(* advances from a level game.  Pages are up to date, so that the results  *)
(* of a round are read-only once the next one is drawn.                    *)
(*                                                                         *)
(* Drawing a round and unpairing it await a snapshot between reading the   *)
(* boards and writing: other requests may be answered meanwhile, and what  *)
(* is written then comes from boards that no longer are.                   *)
(***************************************************************************)
EXTENDS Integers, FiniteSets

CONSTANTS
  Fields,      \* the numbers of participants (bound)
  Resets,      \* whether the grand final may be reset: a subset of BOOLEAN
  Drawish,     \* the fields whose games may also end level (bound)
  Requests,    \* the requests that may await their snapshot at once (bound)
  Overlapping  \* what is answered while others wait: see Answers (bound)

ASSUME ConstantsAssumption ==
  Fields \subseteq Nat \ {0, 1} /\ Resets \subseteq BOOLEAN /\ Drawish \subseteq Fields

VARIABLES
  field,   \* the number of participants
  reset,   \* the setting KNOCKOUT_GRAND_FINAL_RESET, frozen once the first round is drawn
  boards,  \* the boards of each round; none until it is drawn
  waiting, \* what each request awaits its snapshot for, with the boards it has read
  outdated \* a request has written from boards that were no longer those (never read)

vars == <<field, reset, boards, waiting, outdated>>

\* No participant: a virtual seed, or one that is not known yet.
Nobody == 0

Pow2[k \in Nat] == IF k = 0 THEN 1 ELSE 2 * Pow2[k - 1]

\* bracket.round_count: the rounds it takes to reduce n participants to one.
Levels ==
  [n \in Fields |-> CHOOSE k \in 1..n : Pow2[k] >= n /\ \A j \in 0..k - 1 : Pow2[j] < n]

\* bracket.seed_order, of a bracket of 2 ^ k.
SeedOrder[k \in Nat] ==
  IF k = 0 THEN <<1>>
  ELSE [i \in 1..Pow2[k] |->
          IF i % 2 = 1 THEN SeedOrder[k - 1][(i + 1) \div 2]
          ELSE Pow2[k] + 1 - SeedOrder[k - 1][i \div 2]]

-----------------------------------------------------------------------------
(* The matches, of a bracket of k levels: a winners' bracket, a losers'    *)
(* one, the grand final and its reset.                                     *)

W(r, i) == <<"W", r, i>>
L(j, i) == <<"L", j, i>>
GF == <<"GF", 1, 0>>
GFR == <<"GFR", 1, 0>>

Matches(k, with_reset) ==
  (UNION {{W(r, i) : i \in 0..Pow2[k - r] - 1} : r \in 1..k})
    \cup (UNION {{L(j, i) : i \in 0..Pow2[k - 1 - (j + 1) \div 2] - 1} : j \in 1..2 * (k - 1)})
    \cup {GF} \cup (IF with_reset THEN {GFR} ELSE {})

\* The round of the tournament a match is played in.
AppRound(k, m) ==
  CASE m[1] = "W" -> IF m[2] = 1 THEN 1 ELSE 2 * (m[2] - 1)
    [] m[1] = "L" -> m[2] + 1
    [] m[1] = "GF" -> 2 * k
    [] OTHER -> 2 * k + 1

Seed(s) == [kind |-> "seed", seed |-> s]
WinnerOf(m) == [kind |-> "winner", of |-> m]
LoserOf(m) == [kind |-> "loser", of |-> m]

\* Mutant: the dropouts enter in the order of their slots.
DropoutInOrder(k, j, i) == W(j \div 2 + 1, i)

\* The match whose loser enters the losers' bracket at the i-th match of its
\* major round j: the slots are reversed.
Dropout(k, j, i) == W(j \div 2 + 1, Pow2[k - (j \div 2 + 1)] - 1 - i)

Champions(k) ==
  <<WinnerOf(W(k, 0)), IF k = 1 THEN LoserOf(W(1, 0)) ELSE WinnerOf(L(2 * (k - 1), 0))>>

\* The two sources of a match.
Sources(k, m) ==
  LET r == m[2]  i == m[3] IN
  CASE m[1] = "W" /\ r = 1 ->
         LET x == SeedOrder[k][2 * i + 1]  y == SeedOrder[k][2 * i + 2] IN
         IF x < y THEN <<Seed(x), Seed(y)>> ELSE <<Seed(y), Seed(x)>>
    [] m[1] = "W" /\ r > 1 -> <<WinnerOf(W(r - 1, 2 * i)), WinnerOf(W(r - 1, 2 * i + 1))>>
    [] m[1] = "L" /\ r = 1 -> <<LoserOf(W(1, 2 * i)), LoserOf(W(1, 2 * i + 1))>>
    [] m[1] = "L" /\ r > 1 /\ r % 2 = 1 ->
         <<WinnerOf(L(r - 1, 2 * i)), WinnerOf(L(r - 1, 2 * i + 1))>>
    [] m[1] = "L" /\ r % 2 = 0 -> <<WinnerOf(L(r - 1, i)), LoserOf(Dropout(k, r, i))>>
    [] OTHER -> Champions(k)

\* schedule, for each field and setting: the matches of each round, with their
\* sources.
Schedule ==
  [n \in Fields |-> [with_reset \in BOOLEAN |->
     [r \in 1..2 * Levels[n] + 1 |->
        [m \in {x \in Matches(Levels[n], with_reset) : AppRound(Levels[n], x) = r} |->
           Sources(Levels[n], m)]]]]

\* double_elimination.round_count
Rounds == 2 * Levels[field] + (IF reset THEN 1 ELSE 0)

MatchesForRound(r) == Schedule[field][reset][r]

\* schedule, of all rounds
AllMatches == UNION {DOMAIN MatchesForRound(r) : r \in 1..Rounds}

-----------------------------------------------------------------------------
(* The boards.                                                             *)

Players == 1..field

Results == {"none", "white", "black"} \cup (IF field \in Drawish THEN {"level"} ELSE {})

\* Nobody is in black for a bye; pick is the designation of the arbiter; table
\* is the place among the boards of the round.
Boards == [white : Players, black : Players \cup {Nobody}, result : Results,
           pick : Players \cup {Nobody}, table : Nat]

Seats(b) == {b.white, b.black} \ {Nobody}

Contested(b) == b.black # Nobody

\* board_winner_player_id, or the advancement of a level game
BoardWinner(b) ==
  CASE ~Contested(b) \/ b.result = "white" -> b.white
    [] Contested(b) /\ b.result = "black" -> b.black
    [] Contested(b) /\ b.result = "level" -> b.pick
    [] OTHER -> Nobody

\* find_knockout_board: the first board that seats the pair, or else the first
\* that seats one of the two; none has no winner.
WinnerOfBoard(bs, r, a, b) ==
  LET contested == {x \in bs[r] : Contested(x)}
      both == {x \in contested : {a, b} \subseteq Seats(x)}
      either == {x \in contested : Seats(x) \cap {a, b} # {}}
      found == IF both # {} THEN both ELSE either IN
  IF found = {} THEN Nobody
  ELSE BoardWinner(CHOOSE x \in found : \A y \in found : x.table <= y.table)

\* last_paired_round, which is the current round
LastPairedOf(bs) ==
  IF \A r \in 1..Rounds : bs[r] = {} THEN 0
  ELSE CHOOSE r \in 1..Rounds : bs[r] # {} /\ \A q \in r + 1..Rounds : bs[q] = {}

LastPaired == LastPairedOf(boards)

-----------------------------------------------------------------------------
(* What the engine makes of the boards bs.                                 *)

\* Mutant: the virtual seeds play too.
ResolveVirtual(before, s) ==
  CASE s.kind = "seed" -> s.seed
    [] s.kind = "winner" -> before[s.of].winner
    [] s.kind = "loser" -> before[s.of].loser

\* _resolve_source, from the outcomes of the earlier matches
Resolve(before, s) ==
  CASE s.kind = "seed" -> IF s.seed <= field THEN s.seed ELSE Nobody
    [] s.kind = "winner" -> before[s.of].winner
    [] s.kind = "loser" -> before[s.of].loser

\* Mutant: a match nobody plays counts as one whose winner is to come.
AbsentUnlessSeed(before, s) ==
  CASE s.kind = "seed" -> s.seed > field
    [] s.kind = "winner" -> FALSE
    [] s.kind = "loser" -> before[s.of].lacks_loser

\* _source_absent: nobody will ever come from there.
Absent(before, s) ==
  CASE s.kind = "seed" -> s.seed > field
    [] s.kind = "winner" -> before[s.of].empty
    [] s.kind = "loser" -> before[s.of].lacks_loser

\* _match_participants, _match_empty, _match_lacks_loser, _match_winner, _match_loser
Outcome(bs, r, before, sources) ==
  LET a == Resolve(before, sources[1])
      b == Resolve(before, sources[2])
      a_absent == Absent(before, sources[1])
      b_absent == Absent(before, sources[2])
      played == a # Nobody /\ b # Nobody
      winner ==
        CASE a_absent -> b
          [] ~a_absent /\ b_absent -> a
          [] ~a_absent /\ ~b_absent /\ played -> WinnerOfBoard(bs, r, a, b)
          [] OTHER -> Nobody IN
  [a |-> a, b |-> b, winner |-> winner,
   loser |-> IF ~played \/ winner = Nobody THEN Nobody ELSE IF winner = b THEN a ELSE b,
   empty |-> a_absent /\ b_absent, lacks_loser |-> a_absent \/ b_absent]

\* Nothing is known of a match before its round is worked out.
Undecided ==
  [a |-> Nobody, b |-> Nobody, winner |-> Nobody, loser |-> Nobody,
   empty |-> FALSE, lacks_loser |-> FALSE]

\* _resolved: the outcome of every match, each round from those before it.  (The
\* comparison of after and before changes nothing: a round is worked out once.)
Resolved(bs) ==
  LET upTo[r \in 0..Rounds] ==
        IF r = 0 THEN [m \in AllMatches |-> Undecided]
        ELSE LET before == upTo[r - 1]
                 after == [m \in DOMAIN before |->
                             IF m \in DOMAIN MatchesForRound(r)
                             THEN Outcome(bs, r, before, MatchesForRound(r)[m])
                             ELSE before[m]] IN
             IF after = before THEN before ELSE after IN
  upTo[Rounds]

\* Mutant: the grand final is always played twice.
ResetAlways(o) == o[GF].winner # Nobody

\* Mutant: the champion of the winners' bracket is the one who has to win twice.
ResetSwapped(o) ==
  o[GF].winner # Nobody /\ o[GF].winner = o[Champions(Levels[field])[1].of].winner

\* _reset_needed: the match the second finalist comes from (by_id[GF].b.match_id)
\* and the grand final have the same winner.
ResetNeeded(o) ==
  /\ o[GF].winner # Nobody
  /\ o[GF].winner = o[Champions(Levels[field])[2].of].winner

\* tournament_is_over
Over(o) == o[GF].winner # Nobody /\ ~ResetNeeded(o)

\* _round_match_pairs: the matches of a round that somebody plays, and who does
Played(o, r) ==
  {m \in DOMAIN MatchesForRound(r) :
     /\ {o[m].a, o[m].b} # {Nobody}
     /\ m = GFR => ResetNeeded(o)}

Pair(o, m) == {o[m].a, o[m].b} \ {Nobody}

Pairs(o, r) == {Pair(o, m) : m \in Played(o, r)}

\* Tournament.is_round_finished
RoundFinished(bs, r) == \A b \in bs[r] : Contested(b) => b.result # "none"

\* _double_elimination_gate lets round at be drawn.
Gate(bs, o, at) ==
  /\ \A r \in 1..at - 1 :
       /\ RoundFinished(bs, r)
       /\ \A m \in DOMAIN MatchesForRound(r) :
            o[m].a # Nobody /\ o[m].b # Nobody => o[m].winner # Nobody
  /\ reset /\ at = Rounds => ResetNeeded(o)

\* Mutant: later rounds count too.
DecidedAny(r, after) == TRUE

\* Only the rounds up to after count.
Decided(r, after) == r <= after

\* Whom the matches of the losers' bracket put out.
PutOut(o, after) ==
  [m \in {x \in DOMAIN o : x[1] = "L" /\ o[x].loser # Nobody /\ Decided(x[2] + 1, after)} |->
     o[m].loser]

\* The round they are out at, the first one.
RoundOut(out) ==
  [p \in {out[m] : m \in DOMAIN out} |->
     CHOOSE r \in {m[2] + 1 : m \in {x \in DOMAIN out : out[x] = p}} :
       \A m \in DOMAIN out : out[m] = p => r <= m[2] + 1]

\* knockout_placement_values: the round that put each of those who are out, out.
Placements(o, after) ==
  LET byRound == RoundOut(PutOut(o, after))
      final == IF reset /\ ResetNeeded(o) THEN GFR ELSE GF IN
  IF Decided(AppRound(Levels[field], final), after) /\ o[final].loser # Nobody
  THEN [p \in DOMAIN byRound \cup {o[final].loser} |->
          IF p = o[final].loser THEN Rounds ELSE byRound[p]]
  ELSE byRound

\* Tournament.finished
Finished(bs, o) == (LastPaired = Rounds /\ RoundFinished(bs, Rounds)) \/ Over(o)

-----------------------------------------------------------------------------
(* What the arbiter does.                                                  *)

NoRequest == [op |-> "none"]

Init ==
  /\ field \in Fields /\ reset \in Resets
  /\ boards = [r \in 1..Rounds |-> {}]
  /\ waiting = [q \in Requests |-> NoRequest]
  /\ outdated = FALSE

\* The bound on what overlaps: in a field, "ask" or "result" is answered while so
\* many requests wait, before or after one out of date has written.
Answers(what) ==
  LET some == {q \in Requests : waiting[q] # NoRequest} IN
  some = {} \/ <<field, what, Cardinality(some), outdated>> \in Overlapping

\* A request reads the boards and awaits its snapshot.
Asks(q, op) ==
  /\ waiting[q] = NoRequest
  /\ Answers("ask")
  /\ waiting' = [waiting EXCEPT ![q] = [op |-> op, view |-> boards]]
  /\ UNCHANGED <<field, reset, boards, outdated>>

\* The snapshot is taken: the request writes the boards bs, and is answered.
Writes(q, bs) ==
  /\ boards' = bs
  /\ outdated' = (outdated \/ (bs # boards /\ waiting[q].view # boards))
  /\ waiting' = [waiting EXCEPT ![q] = NoRequest]
  /\ UNCHANGED <<field, reset>>

\* _boards_from_pairs: the contested boards in the order of their matches, the
\* winners' bracket first (the table of a bye tells nothing).
Table(m) == IF m[1] = "L" THEN field + m[3] ELSE m[3]

\* A pair, the stronger seed in white: colours change nothing here.
NewBoard(pair, table) ==
  LET white == CHOOSE p \in pair : \A q \in pair : p <= q IN
  [white |-> white, result |-> "none", pick |-> Nobody, table |-> table,
   black |-> IF pair = {white} THEN Nobody ELSE CHOOSE q \in pair : q # white]

\* Mutant: a player may be paired again in the round.
SeatedTwiceNever(o, r, there) == FALSE

\* The pairings of a round have the player for key: a player of two matches, or
\* of a match and of a board that is there, fails the whole transaction.
SeatedTwice(o, r, there) ==
  \E m \in Played(o, r) :
    \/ o[m].a = o[m].b
    \/ \E n \in Played(o, r) \ {m} : Pair(o, m) \cap Pair(o, n) # {}
    \/ \E b \in there : Pair(o, m) \cap Seats(b) # {}

\* generate_pairings draws a round from the bracket of the boards that were read.
Drawable(view) ==
  LET o == Resolved(view)  next == LastPairedOf(view) + 1 IN
  next <= Rounds /\ Gate(view, o, next) /\ Pairs(o, next) # {}

\* create, into the boards of now
Drawn(view) ==
  LET o == Resolved(view)  r == LastPairedOf(view) + 1 IN
  IF ~Drawable(view) \/ SeatedTwice(o, r, boards[r]) THEN boards
  ELSE [boards EXCEPT ![r] = @ \cup {NewBoard(Pair(o, m), Table(m)) : m \in Played(o, r)}]

\* htmx_generate_round_pairings, offered for the next round
AskDraw(q) == LastPaired < Rounds /\ Asks(q, "draw")

\* _generate_round_pairings, after the await
Draw(q) == waiting[q].op = "draw" /\ Writes(q, Drawn(waiting[q].view))

\* BoardOperations.unpair: a pairing deleted takes its board along, whichever
\* it has become.
Unpaired(view) ==
  LET r == LastPairedOf(view)
      players == UNION {Seats(b) : b \in view[r]} IN
  [boards EXCEPT ![r] = {b \in @ : Seats(b) \cap players = {}}]

\* admin_pairings_unpair, offered for the current round
AskUnpair(q) == LastPaired > 0 /\ Asks(q, "unpair")

\* admin_pairings_unpair, after the await
Unpair(q) == waiting[q].op = "unpair" /\ Writes(q, Unpaired(waiting[q].view))

\* Mutant: the results of the rounds before can be changed too.
LockedNever(r) == FALSE

\* round_is_locked
Locked(r) == r < Rounds /\ boards[r + 1] # {}

\* Mutant: a designation stays when the game is no longer level.
ForgottenNever(bs) == bs

\* forget_settled_winners, of the boards of a round
Forgotten(bs) == {IF b.result = "level" THEN b ELSE [b EXCEPT !.pick = Nobody] : b \in bs}

\* add_result, delete_result
Result(r) ==
  /\ ~Locked(r) /\ Answers("result")
  /\ \E b \in boards[r], x \in Results :
       /\ Contested(b) /\ x # b.result
       /\ boards' = [boards EXCEPT ![r] =
                       Forgotten((boards[r] \ {b}) \cup {[b EXCEPT !.result = x]})]
  /\ UNCHANGED <<field, reset, waiting, outdated>>

\* htmx_admin_set_knockout_player_winner, offered for a level game
Designate(r) ==
  /\ ~Locked(r) /\ Answers("result")
  /\ \E b \in boards[r] : \E p \in Seats(b) \cup {Nobody} :
       /\ b.result = "level" /\ p # b.pick
       /\ boards' = [boards EXCEPT ![r] = (boards[r] \ {b}) \cup {[b EXCEPT !.pick = p]}]
  /\ UNCHANGED <<field, reset, waiting, outdated>>

Next ==
  \/ \E q \in Requests : AskDraw(q) \/ Draw(q) \/ AskUnpair(q) \/ Unpair(q)
  \/ \E r \in 1..Rounds : Result(r) \/ Designate(r)

Spec == Init /\ [][Next]_vars

-----------------------------------------------------------------------------
(* Properties.  A request that was overtaken may draw or unpair what the   *)
(* results no longer ask for: the code does not read them again after the  *)
(* await.  What the bracket promises is said as long as none has done so,  *)
(* ~outdated; the others hold whatever the requests do.                    *)

TypeOK ==
  /\ field \in Fields /\ reset \in Resets
  /\ boards \in [1..Rounds -> SUBSET Boards]
  /\ waiting \in [Requests -> {NoRequest} \cup
                     [op : {"draw", "unpair"}, view : [1..Rounds -> SUBSET Boards]]]
  /\ outdated \in BOOLEAN

\* Nobody sits at two boards of a round, even when two requests draw it from
\* different brackets, or draw it while another unpairs it.
SeatedOnce ==
  \A r \in 1..Rounds : \A b, c \in boards[r] : b = c \/ Seats(b) \cap Seats(c) = {}

\* The boards are counted without the bracket: those a player lost.
Losses(p, upTo) ==
  Cardinality({r \in 1..upTo :
    \E b \in boards[r] : p \in Seats(b) /\ BoardWinner(b) \notin {Nobody, p}})

\* "a second loss -- there or in the winners' bracket -- knocks them out": unless
\* a request out of date has written, whoever is seated has lost once at most
\* before.
OutAfterTwoLosses ==
  ~outdated =>
    \A r \in 1..LastPaired : \A b \in boards[r] : \A p \in Seats(b) : Losses(p, r - 1) < 2

\* The boards of the rounds drawn are those the bracket asks for now, unless a
\* request out of date has written: results entered, changed, cleared and
\* designated since, while others await their snapshots, never contradict them.
BoardsMatchBracket ==
  ~outdated =>
    LET o == Resolved(boards) IN
    \A r \in 1..LastPaired : {Seats(b) : b \in boards[r]} = Pairs(o, r)

\* "the downstream match collapses to a walkover instead of hanging undecided
\* forever": when every board has a winner, the tournament is finished or its
\* next round can be drawn, whatever byes the field makes, unless a request out
\* of date has written.
NeverStuck ==
  ~outdated /\ (\A r \in 1..LastPaired : \A b \in boards[r] : BoardWinner(b) # Nobody) =>
    Finished(boards, Resolved(boards)) \/ Drawn(boards) # boards

\* "if the losers'-bracket champion beats them there the score is one loss each:
\* an optional reset game is then played to settle it": a tournament with the
\* reset is not finished while two players have lost less than twice (unless its
\* last game is level, or a request out of date has written).
FinishedSettled ==
  LET o == Resolved(boards)
      in == {p \in Players : Losses(p, LastPaired) < 2} IN
  ~outdated /\ reset /\ Cardinality(in) >= 2 /\ Finished(boards, o) =>
    LastPaired = Rounds /\ \E b \in boards[Rounds] : BoardWinner(b) = Nobody

\* "two players who just met in the winners' bracket do not immediately meet
\* again": the dropouts of the second winners' round do not meet there the
\* players they beat in the first, unless a request out of date has written.
NoQuickRematch ==
  ~outdated /\ Levels[field] >= 3 =>
    \A b \in boards[1], c \in boards[3] : Contested(b) => Seats(b) # Seats(c)

\* "Each eliminated participant's placement: the bracket round that put them
\* out": those placed are those who lost twice, at the round of their second
\* loss, and the last one out comes after all, unless a request out of date has
\* written.
PlacedAreOut ==
  LET placed == Placements(Resolved(boards), LastPaired) IN
  ~outdated /\ reset =>
    /\ DOMAIN placed = {p \in Players : Losses(p, LastPaired) = 2}
    /\ \A p \in DOMAIN placed :
         Losses(p, placed[p]) = 2 /\ (placed[p] < Rounds => Losses(p, placed[p] - 1) = 1)

\* "a designation kept either way would come back the next time the match fell
\* level": a level game that has a designated winner was level before.
DesignatedAnew ==
  [][\A r \in 1..Rounds : \A b \in boards'[r] :
       b.result = "level" /\ b.pick # Nobody =>
         \E c \in boards[r] : Seats(c) = Seats(b) /\ c.result = "level"]_vars

\* "matches played later have not happened yet": the placements after a round
\* stay what they were while that round and those before it do.
PlacementsStand ==
  [][\A before \in {Resolved(boards)}, later \in {Resolved(boards')}, r \in 1..Rounds :
       (\A q \in 1..r : boards'[q] = boards[q]) =>
         Placements(later, r) = Placements(before, r)]_vars
=============================================================================
