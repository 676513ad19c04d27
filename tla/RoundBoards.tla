----------------------------- MODULE RoundBoards -----------------------------
(***************************************************************************)
(* The boards of one round of an individual Swiss tournament: what the     *)
(* requests of the arbiters do to them, data/board_operations.py and the   *)
(* handlers of web/controllers/admin/pairings_admin_controller.py.         *)
(*                                                                         *)
(* The event file keeps a row per board and a row per player's pairing.    *)
(* Every request loads them, decides on what it loaded (its view), and     *)
(* writes what it decided in one transaction.  Most handlers do all of     *)
(* that without giving way to another request; some await a snapshot in    *)
(* between, and resume with a view that may be out of date.                *)
(***************************************************************************)
EXTENDS Naturals, FiniteSets

CONSTANTS
  Player,    \* the players of the tournament
  BoardId,   \* the identifiers boards are given (bound: one forgotten by the
             \* rows, the boards and the views may serve again)
  Client,    \* the requests that may be served at once
  None,      \* Python's None, SQL's NULL
  Ops,       \* what the requests do: a subset of Operations
  Concurrent,\* whether other requests are served while a snapshot is awaited
  FreshPages \* whether players are paired from a page that is up to date

Operations == {"draw", "complete", "pair", "unpair", "unpair_round",
               "bye", "result", "permute"}

ASSUME ConstantsAssumption ==
  /\ IsFiniteSet(Player)
  /\ Ops \subseteq Operations
  /\ Concurrent \in BOOLEAN
  /\ FreshPages \in BOOLEAN
  /\ None \notin Player \cup BoardId

VARIABLES
  db,    \* the event file: its board rows and its pairing rows of the round
  stage, \* the round is "current" (or next), or "previous": one follows
  req    \* each request under way: what it does, to whom, and its view

vars == <<db, stage, req>>

\* swiss_style_permission_handler, in FIDE mode: what may be done to the round.
Offered ==
  IF stage = "current" THEN Operations
  ELSE {"pair", "unpair", "bye", "result", "permute"}

\* The operations whose handler takes a snapshot first: of a round that is
\* wiped or drawn, and before the correction of a round others were paired from.
Awaited ==
  IF stage = "current" THEN {"draw", "unpair_round"} ELSE {"bye", "result", "permute"}

Results == {"none", "bye", "pab", "played"}

\* max_board_count
Tables == (Cardinality(Player) + 1) \div 2

\* No index reaches Tables, but that of a bye put after the last game.
StoredBoards == [white : Player, black : Player \cup {None}, index : 0..Tables]
StoredPairings == [result : Results, board : BoardId \cup {None}]
Databases == [board : [BoardId -> StoredBoards \cup {None}],
              pairing : [Player -> StoredPairings \cup {None}]]

Nothing == [board |-> [b \in BoardId |-> None], pairing |-> [p \in Player |-> None]]

Requests == [op : Operations \cup {"idle"}, player : Player \cup {None},
             board : BoardId \cup {None}, view : Databases]

Idle == [op |-> "idle", player |-> None, board |-> None, view |-> Nothing]

\* None is no row of a table.
ASSUME NoneAssumption == None \notin StoredBoards \cup StoredPairings

TypeOK ==
  /\ db \in Databases
  /\ stage \in {"current", "previous"}
  /\ req \in [Client -> Requests]

\* The players are entered, the round is not paired.
Init == db = Nothing /\ stage = "current" /\ req = [c \in Client |-> Idle]

-----------------------------------------------------------------------------
(* What a request sees of a database d, or of the view v it loaded.        *)

\* The row a player has, or the one they are given until it is written.
PairingOf(d, p) ==
  IF d.pairing[p] = None THEN [result |-> "none", board |-> None] ELSE d.pairing[p]

\* A board no pairing mentions is not loaded.
Loaded(d) ==
  [d EXCEPT !.board = [b \in BoardId |->
     IF \E p \in Player : PairingOf(d, p).board = b THEN d.board[b] ELSE None]]

BoardsOf(v) == {b \in BoardId : v.board[b] # None}
Seats(board) == {board.white, board.black} \ {None}

\* Board.exempt: nobody sits in front.
Exempt(v, b) == v.board[b].black = None

\* Pairing.opponent_id
Opponent(v, p) ==
  LET b == PairingOf(v, p).board IN
  IF b = None THEN None
  ELSE IF v.board[b].white = p THEN v.board[b].black ELSE v.board[b].white

NeedsPairing(v) ==
  {p \in Player : PairingOf(v, p).result = "none" /\ Opponent(v, p) = None}

RoundHasPab(v) == \E p \in Player : PairingOf(v, p).result = "pab"

RoundHasPairings(v) == RoundHasPab(v) \/ \E p \in Player : Opponent(v, p) # None

\* The boards pab_board may return: a player seated alone and waiting.
PabBoards(v) ==
  {b \in BoardsOf(v) : Exempt(v, b) /\ PairingOf(v, v.board[b].white).result = "pab"}

GameIndexes(v) == {v.board[b].index : b \in {x \in BoardsOf(v) : ~Exempt(v, x)}}

\* Mutant: the tables of the byes are not free either, the games' are.
AvailableIndexesSwapped(v) ==
  (0..Tables - 1) \ {v.board[b].index : b \in {x \in BoardsOf(v) : Exempt(v, x)}}

AvailableIndexes(v) == (0..Tables - 1) \ GameIndexes(v)

First(S) == {i \in S : \A j \in S : i <= j}
Last(S) == {i \in S : \A j \in S : j <= i}

\* Mutant: the tables are counted from 1.
PabIndexFromOne(indexes) == IF indexes = {} THEN {1} ELSE {i + 2 : i \in Last(indexes)}

\* pab_index: the table a bye goes to once the games are at the indexes given,
\* the one after theirs.
PabIndex(indexes) == IF indexes = {} THEN {0} ELSE {i + 1 : i \in Last(indexes)}

-----------------------------------------------------------------------------
(* What a request writes, in d, from its view v.                           *)

\* Pairing.update inserts the row of a player who had none in the view, which
\* fails if there is one by now, and updates the others, which does nothing if
\* there is none any more; a row may not mention a board that is gone.
Writable(v, d, new) ==
  \A p \in DOMAIN new :
    /\ v.pairing[p] = None => d.pairing[p] = None
    /\ (v.pairing[p] = None \/ d.pairing[p] # None) /\ new[p].board # None
         => d.board[new[p].board] # None

\* The pairings given in new, a function on some of the players.
Written(v, d, new) ==
  [d EXCEPT !.pairing = [p \in Player |->
     IF p \in DOMAIN new /\ (v.pairing[p] = None \/ d.pairing[p] # None)
     THEN new[p] ELSE d.pairing[p]]]

\* update_stored_board: nothing if the board is gone.
BoardUpdated(d, b, board) ==
  [d EXCEPT !.board = [x \in BoardId |->
     IF x = b /\ d.board[b] # None THEN board ELSE d.board[x]]]

\* create: the boards are inserted, and the pairings of those they seat reset.
BoardsInserted(d, new) ==
  [d EXCEPT !.board = [b \in BoardId |-> IF b \in DOMAIN new THEN new[b] ELSE d.board[b]]]

SeatedAt(new, p) == CHOOSE b \in DOMAIN new : p \in Seats(new[b])
PairingsFor(new) ==
  [p \in UNION {Seats(new[b]) : b \in DOMAIN new} |->
     [result |-> IF new[SeatedAt(new, p)].black = None THEN "pab" ELSE "none",
      board |-> SeatedAt(new, p)]]

\* Mutant: the pairings go and the trigger that deletes their boards is lost.
BoardsDeletedNoCascade(d, players, boards) ==
  [board |-> [b \in BoardId |-> IF b \in boards THEN None ELSE d.board[b]],
   pairing |-> [p \in Player |-> IF p \in players THEN None ELSE d.pairing[p]]]

\* The pairings of the players go, the boards too: the trigger
\* delete_board_on_pairing_delete takes the board each of these pairings
\* mentions, and the foreign key every pairing that mentions one of the boards.
BoardsDeleted(d, players, boards) ==
  LET gone == boards \cup {PairingOf(d, p).board : p \in players} IN
  [board |-> [b \in BoardId |-> IF b \in gone THEN None ELSE d.board[b]],
   pairing |-> [p \in Player |->
     IF p \in players \/ PairingOf(d, p).board \in gone \cap BoardId
     THEN None ELSE d.pairing[p]]]

\* The bye is moved after the games, as it stands in the view.
PabMoved(v, d, games) ==
  IF PabBoards(v) = {} THEN {d}
  ELSE {BoardUpdated(d, b, [v.board[b] EXCEPT !.index = index]) :
          b \in PabBoards(v), index \in PabIndex(games)}

Mentioned(d) ==
  BoardsOf(d) \cup {PairingOf(d, p).board : p \in Player}

\* Mutant: without AUTOINCREMENT, an identifier serves again once it is free.
FreeIds == BoardId \ Mentioned(db)

\* Identifiers no row and no view mentions: those a board may be given.
FreshIds == BoardId \ (Mentioned(db) \cup UNION {Mentioned(req[c].view) : c \in Client})

-----------------------------------------------------------------------------
(* The operations: the databases r may leave, from d, with the view v.     *)

Injective(f) == \A i, j \in DOMAIN f : f[i] = f[j] => i = j

\* The orders the engine may seat the players in: one against the next.
Orders(players) ==
  {f \in [1..Cardinality(players) -> players] : Injective(f)}

\* Mutant: a partial draw gives a bye although the round has one.
BoardCountTwoByes(v, players) == (Cardinality(players) + 1) \div 2

\* _boards_from_file: at most one bye in the round.
BoardCount(v, players) ==
  IF RoundHasPab(v) THEN Cardinality(players) \div 2 ELSE (Cardinality(players) + 1) \div 2

\* The first n available indexes, in order.
FirstIndexes(v, n) ==
  {f \in [1..n -> AvailableIndexes(v)] :
     \A i \in 1..n : Cardinality({x \in AvailableIndexes(v) : x < f[i]}) = i - 1}

\* Identifiers not in use are all alike: one choice of them is enough.
AnyOf(S) == IF S = {} THEN {} ELSE {CHOOSE x \in S : TRUE}

\* Each board drawn, under its identifier: the i-th one sits the players at
\* 2i-1 and 2i; the last of an odd number has nobody in front.
Drawn(order, index, id) ==
  [b \in {id[i] : i \in DOMAIN id} |->
     LET i == CHOOSE k \in DOMAIN id : id[k] = b IN
     [white |-> order[2 * i - 1],
      black |-> IF 2 * i \in DOMAIN order THEN order[2 * i] ELSE None,
      index |-> index[i]]]

\* A partial run that finds no pairing leaves an empty file, which is no error.
NothingDrawn == [b \in {} |-> None]

\* generate_pairings, full or partial, of the players left without a game: any
\* boards the engine may draw.
Draws(v) ==
  LET players == NeedsPairing(v)
      n == BoardCount(v, players) IN
  {Drawn(order, index, id) :
     order \in Orders(players),
     index \in FirstIndexes(v, n),
     id \in AnyOf({f \in [1..n -> FreshIds] : Injective(f)})}
  \cup {new \in {NothingDrawn} : RoundHasPairings(v)}

DrawOutcomes(v, d) ==
  UNION {{Written(v, BoardsInserted(e, new), PairingsFor(new)) :
            e \in PabMoved(v, d, GameIndexes(v) \cup {new[b].index : b \in DOMAIN new})} :
         new \in {x \in Draws(v) : Writable(v, BoardsInserted(d, x), PairingsFor(x))}}

\* pair, with a player who waits at board b: they face each other.
FacingOutcomes(v, d, p, b) ==
  LET rows == [q \in {v.board[b].white, p} |-> [result |-> "none", board |-> b]] IN
  {Written(v, BoardUpdated(d, b, [white |-> v.board[b].white, black |-> p,
                                  index |-> index]), rows) :
     index \in First(AvailableIndexes(v))}

\* Where a player whom nobody waits for may wait: a new board, at the first
\* table available.
WaitingBoards(v, p) ==
  {[b \in {id} |-> [white |-> p, black |-> None, index |-> index]] :
     id \in AnyOf(FreshIds),
     index \in IF AvailableIndexes(v) = {} THEN {0} ELSE First(AvailableIndexes(v))}

\* pair, with nobody waiting.
WaitingOutcomes(v, d, p) ==
  {Written(v, BoardsInserted(d, new), PairingsFor(new)) : new \in WaitingBoards(v, p)}

\* pair_player: the player faces the one who waits, or waits.
PairOutcomes(v, d, p) ==
  IF PabBoards(v) = {} THEN WaitingOutcomes(v, d, p)
  ELSE UNION {FacingOutcomes(v, d, p, b) : b \in PabBoards(v)}

\* unpair: the boards go, and the bye that remains moves after the games.
UnpairOutcomes(v, d, boards) ==
  LET players == UNION {Seats(v.board[b]) : b \in boards}
      left == BoardsDeleted(v, players, boards) IN
  PabMoved(left, BoardsDeleted(d, players, boards), GameIndexes(left))

\* set_player_byes: the pairing keeps the board it has in the view.
ByeRows(v, p, result) == [q \in {p} |-> [PairingOf(v, p) EXCEPT !.result = result]]

\* add_result and delete_result: so do both pairings.
ResultRows(v, b, result) ==
  [q \in Seats(v.board[b]) |-> [PairingOf(v, q) EXCEPT !.result = result]]

RowsOutcomes(v, d, rows) == IF Writable(v, d, rows) THEN {Written(v, d, rows)} ELSE {}

\* Board.permute_colors
PermuteOutcomes(v, d, b) ==
  {BoardUpdated(d, b, [v.board[b] EXCEPT !.white = v.board[b].black,
                                         !.black = v.board[b].white])}

-----------------------------------------------------------------------------
(* The requests.                                                           *)

\* A handler that awaits keeps its view until it resumes; another one writes
\* at once.
Handle(c, op, p, b, outcomes) ==
  /\ op \in Ops \cap Offered /\ req[c] = Idle
  /\ IF Concurrent /\ op \in Awaited
     THEN /\ req' = [req EXCEPT ![c] =
                       [op |-> op, player |-> p, board |-> b, view |-> Loaded(db)]]
          /\ UNCHANGED db
     ELSE db' \in outcomes /\ UNCHANGED req
  /\ UNCHANGED stage

\* The view the request is served from when nothing is awaited.
View == Loaded(db)

\* htmx_generate_round_pairings: the round is not paired.
Draw(c) == ~RoundHasPairings(View) /\ Handle(c, "draw", None, None, DrawOutcomes(View, db))

\* htmx_generate_round_partial_pairings: the round is paired in part.
Complete(c) ==
  RoundHasPairings(View) /\ Handle(c, "complete", None, None, DrawOutcomes(View, db))

\* Mutant: nothing tells whether the player already has an opponent.
CanPairAnyone(v, p) == TRUE

\* The page offers the players who are not at a board; pair refuses the others
\* only if they have an opponent.
CanPair(v, p) == Opponent(v, p) = None /\ (FreshPages => PairingOf(v, p).board = None)

\* htmx_admin_pair_player
Pair(c, p) == CanPair(View, p) /\ Handle(c, "pair", p, None, PairOutcomes(View, db, p))

\* htmx_admin_unpair
Unpair(c, b) ==
  b \in BoardsOf(View) /\ Handle(c, "unpair", None, b, UnpairOutcomes(View, db, {b}))

\* admin_pairings_unpair: every board of the round.
UnpairRound(c) ==
  /\ RoundHasPairings(View)
  /\ Handle(c, "unpair_round", None, None, UnpairOutcomes(View, db, BoardsOf(View)))

\* Mutant: a bye is given to whoever asks.
UnpairedWhatever(v, p) == TRUE

\* Pairing.unpaired
Unpaired(v, p) == PairingOf(v, p).board = None

\* htmx_set_player_zpb, htmx_set_player_hpb, htmx_cancel_bye
Bye(c, p) ==
  /\ Unpaired(View, p)
  /\ \E result \in {"bye", "none"} :
       Handle(c, "bye", p, None, RowsOutcomes(View, db, ByeRows(View, p, result)))

\* admin_pairings_set_result, delete_result
Result(c, b) ==
  /\ b \in BoardsOf(View) /\ ~Exempt(View, b)
  /\ \E result \in {"played", "none"} :
       Handle(c, "result", None, b, RowsOutcomes(View, db, ResultRows(View, b, result)))

\* htmx_admin_permute
Permute(c, b) ==
  /\ b \in BoardsOf(View) /\ ~Exempt(View, b)
  /\ Handle(c, "permute", None, b, PermuteOutcomes(View, db, b))

\* What a request that awaited writes, from the view it kept.
Resumed(r, d) ==
  CASE r.op = "draw" -> DrawOutcomes(r.view, d)
    [] r.op = "unpair_round" -> UnpairOutcomes(r.view, d, BoardsOf(r.view))
    [] r.op = "bye" -> UNION {RowsOutcomes(r.view, d, ByeRows(r.view, r.player, x)) :
                                x \in {"bye", "none"}}
    [] r.op = "result" -> UNION {RowsOutcomes(r.view, d, ResultRows(r.view, r.board, x)) :
                                   x \in {"played", "none"}}
    [] r.op = "permute" -> PermuteOutcomes(r.view, d, r.board)
    [] OTHER -> {}

Resume(c) ==
  /\ db' \in Resumed(req[c], db)
  /\ req' = [req EXCEPT ![c] = Idle]
  /\ UNCHANGED stage

\* The pairings a request that awaited is about to write; {} for those that
\* cannot fail.
AboutToWrite(r) ==
  CASE r.op = "draw" -> [p \in NeedsPairing(r.view) |-> PairingOf(r.view, p)]
    [] r.op = "bye" -> ByeRows(r.view, r.player, "bye")
    [] r.op = "result" -> ResultRows(r.view, r.board, "played")
    [] OTHER -> [p \in {} |-> None]

\* A row was inserted meanwhile, or a board deleted: SQLite refuses the write,
\* and nothing of the transaction remains.
Broken(c) ==
  /\ ~Writable(req[c].view, db, AboutToWrite(req[c]))
  /\ req' = [req EXCEPT ![c] = Idle]
  /\ UNCHANGED <<db, stage>>

\* The engine finds no pairing.
Refused(c) ==
  /\ req[c].op = "draw"
  /\ req' = [req EXCEPT ![c] = Idle]
  /\ UNCHANGED <<db, stage>>

\* The next round is drawn, or unpaired.
FollowOn ==
  /\ RoundHasPairings(View)
  /\ stage' = IF stage = "current" THEN "previous" ELSE "current"
  /\ UNCHANGED <<db, req>>

Next ==
  \/ FollowOn
  \/ \E c \in Client :
       \/ Draw(c) \/ Complete(c) \/ UnpairRound(c)
       \/ \E p \in Player : Pair(c, p) \/ Bye(c, p)
       \/ \E b \in BoardId : Unpair(c, b) \/ Result(c, b) \/ Permute(c, b)
       \/ Resume(c) \/ Broken(c) \/ Refused(c)

Spec == Init /\ [][Next]_vars

-----------------------------------------------------------------------------
(* Properties.                                                             *)

\* A pairing that mentions a board mentions one that exists and seats the
\* player, whatever requests overtake one another: loading the round looks the
\* board up and takes whoever is across it for the opponent.
RowsSeated(d) ==
  \A p \in Player :
    LET b == PairingOf(d, p).board IN
    b # None => d.board[b] # None /\ p \in Seats(d.board[b])

RowSeated == RowsSeated(db)

\* The players board x seats are those y seats, or one of them still waits.
SameSeats(x, y) ==
  \/ x.white = y.white /\ x.black \in {None, y.black}
  \/ x.white = y.black /\ x.black \in {None, y.white}

\* A board that a request saw and that is still there seats whom it saw, and at
\* most the opponent of a player who waited: no write out of date can seat
\* anyone in the place of another.
ViewsAgree(v, d) ==
  \A b \in BoardsOf(v) : d.board[b] # None => SameSeats(v.board[b], d.board[b])

BoardsKeepPlayers == \A c \in Client : ViewsAgree(req[c].view, db)

\* Conversely the players a board seats have their pairing at it, so that nobody
\* is at two boards and no board is lost from sight.  Of requests served one
\* after the other only: one that awaited may bring back a view out of date.
SeatHasRow ==
  \A b \in BoardsOf(db) : \A p \in Seats(db.board[b]) : PairingOf(db, p).board = b

\* No two boards are at the same table, and games are at the tables there are,
\* whatever sequence of draws and of manual pairings and unpairings led there.
DistinctTables ==
  /\ \A a, b \in BoardsOf(db) : db.board[a].index = db.board[b].index => a = b
  /\ GameIndexes(db) \subseteq 0..Tables - 1

\* A player seated alone has the pairing-allocated bye, a player with the bye is
\* seated alone, and there is one at most.
ByeIsAlone ==
  /\ \A b \in BoardsOf(db) : Exempt(db, b) => b \in PabBoards(db)
  /\ \A p \in Player : PairingOf(db, p).result = "pab" =>
       PairingOf(db, p).board # None /\ Exempt(db, PairingOf(db, p).board)
  /\ Cardinality(PabBoards(db)) <= 1

\* The players at the boards and those who asked for a bye: what a round is to
\* the rest of the program.  With pages up to date and requests served one after
\* the other, the operations are those of RoundSeating.
Seating ==
  INSTANCE RoundSeating WITH
    tables <- {Seats(db.board[b]) : b \in BoardsOf(db)},
    away <- {p \in Player : PairingOf(db, p).result = "bye"}

SeatingSpec == Seating!Spec

\* "a pairing seats two players at a table": nobody is their own opponent.  A
\* second request to pair the same player, from a page that is out of date,
\* finds that player waiting for an opponent.
NobodyFacesThemself == \A b \in BoardsOf(db) : db.board[b].white # db.board[b].black

\* "a second submission of the same draw arrives once the round is paired, and
\* the pairing engine answers it plainly": a draw never fails in the database.
\* The second one may arrive while the first awaits its snapshot.
DrawAnsweredPlainly == [][\A c \in Client : Broken(c) => req[c].op # "draw"]_vars
=============================================================================
