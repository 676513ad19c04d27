------------------------- MODULE RoundBoards_proofs -------------------------
(***************************************************************************)
(* The boards of a round, for any number of players and of requests: the   *)
(* types, that a pairing mentions a board that seats its player, and that  *)
(* no request sees a board reseated.                                       *)
(*                                                                         *)
(* A write out of date is harmless because of what the views keep true:    *)
(* Inv relates each view to the database, and each of the operators a      *)
(* transaction is made of leads from a database d to one that is Good for  *)
(* d.                                                                      *)
(***************************************************************************)
EXTENDS RoundBoards, FiniteSetTheorems, TLAPS

\* A game is at one of the tables there are; a bye may come after them.
InTables(d) == \A b \in BoardsOf(d) : d.board[b].black # None => d.board[b].index < Tables

\* From d to e, boards are deleted, reseated as SameSeats allows, or new.
Keeps(d, e) ==
  \A b \in BoardsOf(e) : b \in FreshIds \/ (d.board[b] # None /\ SameSeats(d.board[b], e.board[b]))

Sound(d) == d \in Databases /\ RowsSeated(d) /\ InTables(d)
Good(d, e) == Sound(e) /\ Keeps(d, e)

\* What a request that awaits relies on when it resumes.
Underway(r) ==
  /\ r.op = "draw" => PabBoards(r.view) = {}
  /\ r.op = "bye" => r.player \in Player
  /\ r.op \in {"result", "permute"} =>
       r.board \in BoardsOf(r.view) /\ ~Exempt(r.view, r.board)

Inv ==
  /\ TypeOK
  /\ Sound(db)
  /\ \A c \in Client :
       Sound(req[c].view) /\ ViewsAgree(req[c].view, db) /\ Underway(req[c])

-----------------------------------------------------------------------------
(* Databases.                                                              *)

LEMMA TablesNat == Tables \in Nat
  BY ConstantsAssumption, FS_CardinalityType DEF Tables

LEMMA PairingOfType ==
  ASSUME NEW d \in Databases, NEW p \in Player
  PROVE  PairingOf(d, p) \in StoredPairings
  BY DEF PairingOf, Databases, StoredPairings, Results

LEMMA BoardType ==
  ASSUME NEW d \in Databases, NEW b \in BoardsOf(d)
  PROVE  /\ b \in BoardId /\ d.board[b] \in StoredBoards
         /\ d.board[b].white \in Player /\ d.board[b].black \in Player \cup {None}
         /\ d.board[b].index \in 0..Tables
         /\ Seats(d.board[b]) \subseteq Player
  BY DEF BoardsOf, Databases, StoredBoards, Seats

LEMMA SameSeatsTrans ==
  ASSUME NEW x \in StoredBoards, NEW y \in StoredBoards, NEW z \in StoredBoards,
         SameSeats(x, y), SameSeats(y, z)
  PROVE  SameSeats(x, z)
  BY ConstantsAssumption DEF SameSeats, StoredBoards

LEMMA SameSeatsKeeps ==
  ASSUME NEW x \in StoredBoards, NEW y \in StoredBoards, SameSeats(x, y)
  PROVE  Seats(x) \subseteq Seats(y)
  BY DEF SameSeats, StoredBoards, Seats

LEMMA KeepsTrans ==
  ASSUME NEW d \in Databases, NEW e \in Databases, NEW f \in Databases,
         Keeps(d, e), Keeps(e, f)
  PROVE  Keeps(d, f)
<1> SUFFICES ASSUME NEW b \in BoardsOf(f), b \notin FreshIds
             PROVE  d.board[b] # None /\ SameSeats(d.board[b], f.board[b])
  BY DEF Keeps
<1>1. e.board[b] # None /\ SameSeats(e.board[b], f.board[b])
  BY DEF Keeps
<1>2. b \in BoardsOf(e)
  BY <1>1 DEF BoardsOf
<1>3. d.board[b] # None /\ SameSeats(d.board[b], e.board[b])
  BY <1>2 DEF Keeps
<1>4. b \in BoardsOf(d)
  BY <1>3, BoardType, <1>2 DEF BoardsOf
<1> QED
  BY <1>1, <1>2, <1>3, <1>4, BoardType, SameSeatsTrans

LEMMA KeepsRefl == ASSUME NEW d \in Databases PROVE Keeps(d, d)
  BY BoardType DEF Keeps, BoardsOf, SameSeats, StoredBoards

\* A view goes on agreeing with the database: no new board has an identifier a
\* view mentions.
LEMMA AgreesStill ==
  ASSUME NEW v \in Databases, NEW d \in Databases, NEW e \in Databases,
         ViewsAgree(v, d), Keeps(d, e), FreshIds \cap BoardsOf(v) = {}
  PROVE  ViewsAgree(v, e)
<1> SUFFICES ASSUME NEW b \in BoardsOf(v), e.board[b] # None
             PROVE  SameSeats(v.board[b], e.board[b])
  BY DEF ViewsAgree
<1>1. b \in BoardsOf(e)
  BY BoardType DEF BoardsOf
<1>2. d.board[b] # None /\ SameSeats(d.board[b], e.board[b])
  BY <1>1 DEF Keeps
<1>3. SameSeats(v.board[b], d.board[b])
  BY <1>2 DEF ViewsAgree
<1>4. b \in BoardsOf(d)
  BY <1>2, BoardType DEF BoardsOf
<1> QED
  BY <1>1, <1>2, <1>3, <1>4, BoardType, SameSeatsTrans

LEMMA LoadedSound ==
  ASSUME NEW d, Sound(d)
  PROVE  /\ Sound(Loaded(d)) /\ ViewsAgree(Loaded(d), d)
         /\ Loaded(d).pairing = d.pairing
         /\ \A b \in BoardsOf(Loaded(d)) : Loaded(d).board[b] = d.board[b]
<1>0. d \in Databases
  BY DEF Sound
<1>1. Loaded(d) \in Databases /\ Loaded(d).pairing = d.pairing
  BY <1>0 DEF Loaded, Databases
<1>2. \A p \in Player : PairingOf(Loaded(d), p) = PairingOf(d, p)
  BY <1>1 DEF PairingOf
<1>3. \A b \in BoardId : \/ Loaded(d).board[b] = None
                         \/ Loaded(d).board[b] = d.board[b]
  BY <1>0 DEF Loaded, Databases
<1>4. \A b \in BoardsOf(Loaded(d)) : b \in BoardsOf(d) /\ Loaded(d).board[b] = d.board[b]
  BY <1>3 DEF BoardsOf
<1>5. InTables(Loaded(d))
  BY <1>4 DEF InTables, Sound
<1>6. RowsSeated(Loaded(d))
  <2> SUFFICES ASSUME NEW p \in Player, PairingOf(d, p).board # None
               PROVE  LET b == PairingOf(d, p).board IN
                      Loaded(d).board[b] = d.board[b]
    BY <1>2 DEF RowsSeated, Sound
  <2>1. PairingOf(d, p).board \in BoardId
    BY <1>0, PairingOfType DEF StoredPairings
  <2> QED
    BY <2>1, <1>0 DEF Loaded, Databases
<1>7. ViewsAgree(Loaded(d), d)
  BY <1>4, <1>0, BoardType DEF ViewsAgree, SameSeats
<1> QED
  BY <1>1, <1>4, <1>5, <1>6, <1>7 DEF Sound

-----------------------------------------------------------------------------
(* What a transaction is made of.                                          *)

LEMMA FreshFacts ==
  /\ FreshIds \subseteq BoardId
  /\ FreshIds \cap BoardsOf(db) = {}
  /\ \A p \in Player : PairingOf(db, p).board \notin FreshIds
  /\ \A c \in Client : FreshIds \cap BoardsOf(req[c].view) = {}
  BY DEF FreshIds, Mentioned

\* Pairings are written: each mentions a board that seats the player, if it is
\* there, and the foreign key makes sure it is.
LEMMA WrittenSound ==
  ASSUME NEW v \in Databases, NEW d, Sound(d), NEW new,
         DOMAIN new \subseteq Player, Writable(v, d, new),
         \A p \in DOMAIN new :
           /\ new[p] \in StoredPairings
           /\ new[p].board # None /\ d.board[new[p].board] # None
                => p \in Seats(d.board[new[p].board])
  PROVE  /\ Sound(Written(v, d, new))
         /\ Written(v, d, new).board = d.board
<1> DEFINE e == Written(v, d, new)
           Changes(p) == p \in DOMAIN new /\ (v.pairing[p] = None \/ d.pairing[p] # None)
<1>0. d \in Databases
  BY DEF Sound
<1>1. /\ e.board = d.board
      /\ e.pairing = [p \in Player |-> IF Changes(p) THEN new[p] ELSE d.pairing[p]]
  BY <1>0 DEF Written, Databases
<1>2. e \in Databases
  <2>1. e = [board |-> d.board, pairing |-> e.pairing]
    BY <1>0 DEF Written, Databases
  <2>2. e.pairing \in [Player -> StoredPairings \cup {None}]
    BY <1>1, <1>0 DEF Databases
  <2> QED
    BY <2>1, <2>2, <1>0 DEF Databases
<1>3. RowsSeated(e)
  <2> SUFFICES ASSUME NEW p \in Player, PairingOf(e, p).board # None
               PROVE  /\ e.board[PairingOf(e, p).board] # None
                      /\ p \in Seats(e.board[PairingOf(e, p).board])
    BY DEF RowsSeated
  <2>1. CASE Changes(p)
    <3>1. PairingOf(e, p) = new[p]
      BY <2>1, <1>1, NoneAssumption DEF PairingOf
    <3>2. d.board[new[p].board] # None
      BY <2>1, <3>1 DEF Writable
    <3> QED
      BY <3>1, <3>2, <1>1, <2>1
  <2>2. CASE ~Changes(p)
    <3>1. PairingOf(e, p) = PairingOf(d, p)
      BY <2>2, <1>1 DEF PairingOf
    <3> QED
      BY <3>1, <1>1 DEF Sound, RowsSeated
  <2> QED
    BY <2>1, <2>2
<1>4. InTables(e)
  BY <1>1 DEF Sound, InTables, BoardsOf
<1> QED
  BY <1>1, <1>2, <1>3, <1>4 DEF Sound

\* A board is written: it seats those it seated.
LEMMA UpdatedGood ==
  ASSUME NEW d, Sound(d), NEW b \in BoardId, NEW board \in StoredBoards,
         board.black # None => board.index < Tables,
         d.board[b] # None => SameSeats(d.board[b], board)
  PROVE  /\ Good(d, BoardUpdated(d, b, board))
         /\ BoardUpdated(d, b, board).pairing = d.pairing
         /\ BoardsOf(BoardUpdated(d, b, board)) = BoardsOf(d)
<1> DEFINE e == BoardUpdated(d, b, board)
<1>0. d \in Databases
  BY DEF Sound
<1>1. /\ e.pairing = d.pairing
      /\ \A x \in BoardId : e.board[x] = IF x = b /\ d.board[b] # None THEN board ELSE d.board[x]
  BY <1>0 DEF BoardUpdated, Databases
<1>2. e \in Databases
  BY <1>0 DEF BoardUpdated, Databases
<1>a. board # None
  BY NoneAssumption
<1>3. BoardsOf(e) = BoardsOf(d)
  BY <1>1, <1>a DEF BoardsOf
<1>4. \A x \in BoardsOf(d) : SameSeats(d.board[x], e.board[x])
  <2> SUFFICES ASSUME NEW x \in BoardsOf(d) PROVE SameSeats(d.board[x], e.board[x])
    OBVIOUS
  <2>1. CASE x = b
    BY <2>1, <1>1 DEF BoardsOf
  <2>2. CASE x # b
    BY <2>2, <1>1 DEF BoardsOf, SameSeats
  <2> QED
    BY <2>1, <2>2
<1>5. Keeps(d, e)
  BY <1>3, <1>4 DEF Keeps, BoardsOf
<1>6. InTables(e)
  BY <1>1, <1>3 DEF InTables, Sound, BoardsOf
<1>7. RowsSeated(e)
  <2> SUFFICES ASSUME NEW p \in Player, PairingOf(e, p).board # None
               PROVE  /\ e.board[PairingOf(e, p).board] # None
                      /\ p \in Seats(e.board[PairingOf(e, p).board])
    BY DEF RowsSeated
  <2> DEFINE x == PairingOf(d, p).board
  <2>1. PairingOf(e, p).board = x
    BY <1>1 DEF PairingOf
  <2>2. d.board[x] # None /\ p \in Seats(d.board[x])
    BY <2>1 DEF Sound, RowsSeated
  <2>3. x \in BoardId
    BY <2>1, <1>0, PairingOfType DEF StoredPairings
  <2>4. x \in BoardsOf(d)
    BY <2>2, <2>3 DEF BoardsOf
  <2>5. d.board[x] \in StoredBoards /\ e.board[x] \in StoredBoards /\ e.board[x] # None
    BY <2>4, <1>3, <1>0, <1>2, BoardType DEF BoardsOf
  <2> QED
    BY <2>1, <2>2, <2>4, <2>5, <1>4, SameSeatsKeeps
<1> QED
  BY <1>1, <1>2, <1>3, <1>5, <1>6, <1>7 DEF Good, Sound

\* Boards are inserted under new identifiers.
LEMMA InsertedGood ==
  ASSUME NEW d, Sound(d), NEW new, DOMAIN new \subseteq FreshIds,
         \A p \in Player : PairingOf(d, p).board \notin FreshIds,
         \A b \in DOMAIN new :
           /\ new[b] \in StoredBoards
           /\ new[b].black # None => new[b].index < Tables
  PROVE  /\ Good(d, BoardsInserted(d, new))
         /\ BoardsInserted(d, new).pairing = d.pairing
         /\ \A b \in DOMAIN new : BoardsInserted(d, new).board[b] = new[b]
<1> DEFINE e == BoardsInserted(d, new)
<1>0. d \in Databases /\ DOMAIN new \subseteq BoardId
  BY FreshFacts DEF Sound
<1>1. /\ e.pairing = d.pairing
      /\ \A b \in BoardId : e.board[b] = IF b \in DOMAIN new THEN new[b] ELSE d.board[b]
  BY <1>0 DEF BoardsInserted, Databases
<1>2. e \in Databases
  BY <1>0 DEF BoardsInserted, Databases
<1>3. Keeps(d, e)
  <2> SUFFICES ASSUME NEW b \in BoardsOf(e), b \notin FreshIds
               PROVE  d.board[b] # None /\ SameSeats(d.board[b], e.board[b])
    BY DEF Keeps
  <2>1. e.board[b] = d.board[b] /\ e.board[b] # None
    BY <1>1 DEF BoardsOf
  <2> QED
    BY <2>1, <1>2, BoardType DEF SameSeats
<1>4. InTables(e)
  BY <1>1 DEF InTables, Sound, BoardsOf
<1>5. RowsSeated(e)
  <2> SUFFICES ASSUME NEW p \in Player, PairingOf(e, p).board # None
               PROVE  /\ e.board[PairingOf(e, p).board] # None
                      /\ p \in Seats(e.board[PairingOf(e, p).board])
    BY DEF RowsSeated
  <2> DEFINE x == PairingOf(d, p).board
  <2>1. PairingOf(e, p).board = x
    BY <1>1 DEF PairingOf
  <2>2. d.board[x] # None /\ p \in Seats(d.board[x])
    BY <2>1 DEF Sound, RowsSeated
  <2>3. x \in BoardId /\ x \notin DOMAIN new
    BY <2>1, <1>0, PairingOfType DEF StoredPairings
  <2> QED
    BY <2>1, <2>2, <2>3, <1>1
<1> QED
  BY <1>0, <1>1, <1>2, <1>3, <1>4, <1>5 DEF Good, Sound

\* Boards are deleted, with every pairing that mentions one of them.
LEMMA DeletedGood ==
  ASSUME NEW d, Sound(d), NEW players \in SUBSET Player, NEW boards \in SUBSET BoardId
  PROVE  /\ Good(d, BoardsDeleted(d, players, boards))
         /\ \A b \in BoardsOf(BoardsDeleted(d, players, boards)) :
              /\ b \in BoardsOf(d) \ boards
              /\ BoardsDeleted(d, players, boards).board[b] = d.board[b]
<1> DEFINE gone == boards \cup {PairingOf(d, p).board : p \in players}
           e == BoardsDeleted(d, players, boards)
<1>0. d \in Databases
  BY DEF Sound
<1>1. /\ \A b \in BoardId : e.board[b] = IF b \in gone THEN None ELSE d.board[b]
      /\ \A p \in Player :
           e.pairing[p] = IF p \in players \/ PairingOf(d, p).board \in gone \cap BoardId
                          THEN None ELSE d.pairing[p]
  BY DEF BoardsDeleted
<1>2. e \in Databases
  BY <1>0 DEF BoardsDeleted, Databases
<1>3. \A b \in BoardsOf(e) : b \in BoardsOf(d) \ boards /\ e.board[b] = d.board[b]
  BY <1>1 DEF BoardsOf
<1>4. Keeps(d, e)
  BY <1>3, <1>0, BoardType DEF Keeps, BoardsOf, SameSeats
<1>5. InTables(e)
  BY <1>3 DEF InTables, Sound
<1>6. RowsSeated(e)
  <2> SUFFICES ASSUME NEW p \in Player, PairingOf(e, p).board # None
               PROVE  /\ e.board[PairingOf(e, p).board] # None
                      /\ p \in Seats(e.board[PairingOf(e, p).board])
    BY DEF RowsSeated
  <2>1. e.pairing[p] # None
    BY DEF PairingOf
  <2>2. /\ PairingOf(e, p) = PairingOf(d, p)
        /\ PairingOf(d, p).board \notin gone \cap BoardId
    BY <2>1, <1>1 DEF PairingOf
  <2>3. PairingOf(d, p).board \in BoardId
    BY <2>2, <1>0, PairingOfType DEF StoredPairings
  <2>4. e.board[PairingOf(d, p).board] = d.board[PairingOf(d, p).board]
    BY <2>2, <2>3, <1>1
  <2> QED
    BY <2>2, <2>4 DEF Sound, RowsSeated
<1> QED
  BY <1>2, <1>3, <1>4, <1>5, <1>6 DEF Good, Sound

-----------------------------------------------------------------------------
(* The operations.                                                         *)

LEMMA GamesInTables ==
  ASSUME NEW v, Sound(v)
  PROVE  GameIndexes(v) \subseteq 0..Tables - 1
<1> SUFFICES ASSUME NEW b \in BoardsOf(v), ~Exempt(v, b)
             PROVE  v.board[b].index \in 0..Tables - 1
  BY DEF GameIndexes
<1>1. v.board[b].index \in 0..Tables /\ v.board[b].index < Tables
  BY BoardType DEF Sound, InTables, Exempt
<1> QED
  BY <1>1, TablesNat

LEMMA PabIndexType ==
  ASSUME NEW games \in SUBSET (0..Tables - 1)
  PROVE  PabIndex(games) \subseteq 0..Tables
<1>1. CASE games = {}
  BY <1>1, TablesNat DEF PabIndex
<1>2. CASE games # {}
  <2> SUFFICES ASSUME NEW i \in games PROVE i + 1 \in 0..Tables
    BY <1>2 DEF PabIndex, Last
  <2>1. i \in 0..Tables - 1
    OBVIOUS
  <2> QED
    BY <2>1, TablesNat
<1> QED
  BY <1>1, <1>2

LEMMA PabMovedGood ==
  ASSUME NEW v \in Databases, NEW d, Sound(d), NEW games \in SUBSET (0..Tables - 1),
         \A b \in PabBoards(v) : d.board[b] # None => SameSeats(d.board[b], v.board[b]),
         NEW e \in PabMoved(v, d, games)
  PROVE  Good(d, e) /\ e.pairing = d.pairing /\ BoardsOf(e) = BoardsOf(d)
<1>1. CASE PabBoards(v) = {}
  BY <1>1, KeepsRefl DEF PabMoved, Good, Sound
<1>2. CASE PabBoards(v) # {}
  <2>1. PICK b \in PabBoards(v), index \in PabIndex(games) :
          e = BoardUpdated(d, b, [v.board[b] EXCEPT !.index = index])
    BY <1>2 DEF PabMoved
  <2> DEFINE board == [v.board[b] EXCEPT !.index = index]
  <2>2. b \in BoardId /\ v.board[b] \in StoredBoards /\ v.board[b].black = None
    BY BoardType DEF PabBoards, Exempt
  <2>3. index \in 0..Tables
    BY PabIndexType
  <2>4. /\ board \in StoredBoards
        /\ board.black = None /\ board.white = v.board[b].white
    BY <2>2, <2>3 DEF StoredBoards
  <2>5. d.board[b] # None => SameSeats(d.board[b], board)
    BY <2>2, <2>4 DEF SameSeats
  <2> QED
    BY <2>1, <2>2, <2>4, <2>5, UpdatedGood
<1> QED
  BY <1>1, <1>2

LEMMA DrawsType ==
  ASSUME NEW v \in Databases, NEW new \in Draws(v)
  PROVE  /\ DOMAIN new \subseteq FreshIds
         /\ \A b \in DOMAIN new :
              /\ new[b] \in StoredBoards
              /\ new[b].index \in 0..Tables - 1
<1> DEFINE players == NeedsPairing(v)
           n == BoardCount(v, players)
           good(b) == new[b] \in StoredBoards /\ new[b].index \in 0..Tables - 1
<1> SUFFICES ASSUME DOMAIN new # {}
             PROVE  DOMAIN new \subseteq FreshIds /\ \A b \in DOMAIN new : good(b)
  <2>1. ASSUME DOMAIN new = {}
        PROVE  DOMAIN new \subseteq FreshIds /\ \A b \in DOMAIN new : good(b)
    <3> HIDE DEF good
    <3> QED
      BY <2>1
  <2> QED
    BY <2>1
<1>1. PICK order \in Orders(players), index \in FirstIndexes(v, n),
           id \in AnyOf({f \in [1..n -> FreshIds] : Injective(f)}) :
        new = Drawn(order, index, id)
  BY SMTT(60) DEF Draws, NothingDrawn
<1>2. IsFiniteSet(players) /\ Cardinality(players) \in Nat
  BY ConstantsAssumption, FS_Subset, FS_CardinalityType DEF NeedsPairing
<1>3. order \in [1..Cardinality(players) -> Player]
  BY DEF Orders, NeedsPairing
<1>4. index \in [1..n -> 0..Tables - 1]
  BY DEF FirstIndexes, AvailableIndexes
<1>5. id \in [1..n -> FreshIds]
  BY DEF AnyOf
<1>6. n \in Nat /\ \A i \in 1..n : 2 * i - 1 \in 1..Cardinality(players)
  BY <1>2 DEF BoardCount
<1>7. DOMAIN new \subseteq FreshIds
  BY <1>1, <1>5 DEF Drawn
<1>8. ASSUME NEW b \in DOMAIN new
      PROVE  new[b] \in StoredBoards /\ new[b].index \in 0..Tables - 1
  <2> DEFINE i == CHOOSE k \in DOMAIN id : id[k] = b
  <2>1. i \in 1..n
    BY <1>1, <1>5 DEF Drawn
  <2>2. new[b] = [white |-> order[2 * i - 1],
                  black |-> IF 2 * i \in DOMAIN order THEN order[2 * i] ELSE None,
                  index |-> index[i]]
    BY <1>1 DEF Drawn
  <2>3. order[2 * i - 1] \in Player
    BY <2>1, <1>3, <1>6
  <2>4. 2 * i \in DOMAIN order => order[2 * i] \in Player
    BY <1>3
  <2>5. index[i] \in 0..Tables - 1 /\ index[i] \in 0..Tables
    BY <2>1, <1>4, TablesNat
  <2> QED
    BY <2>2, <2>3, <2>4, <2>5 DEF StoredBoards
<1> QED
  BY <1>7, <1>8

\* The pairings of the players of new boards are at the boards that seat them.
LEMMA PairingsForType ==
  ASSUME NEW new, DOMAIN new \subseteq BoardId,
         \A b \in DOMAIN new : new[b] \in StoredBoards
  PROVE  /\ DOMAIN PairingsFor(new) \subseteq Player
         /\ \A p \in DOMAIN PairingsFor(new) :
              /\ PairingsFor(new)[p] \in StoredPairings
              /\ PairingsFor(new)[p].board \in DOMAIN new
              /\ p \in Seats(new[PairingsFor(new)[p].board])
<1>1. DOMAIN PairingsFor(new) = UNION {Seats(new[b]) : b \in DOMAIN new}
  BY DEF PairingsFor
<1>2. \A b \in DOMAIN new : Seats(new[b]) \subseteq Player
  BY DEF Seats, StoredBoards
<1>3. ASSUME NEW p \in DOMAIN PairingsFor(new)
      PROVE  SeatedAt(new, p) \in DOMAIN new /\ p \in Seats(new[SeatedAt(new, p)])
  BY <1>1 DEF SeatedAt
<1>4. ASSUME NEW p \in DOMAIN PairingsFor(new)
      PROVE  /\ PairingsFor(new)[p] \in StoredPairings
             /\ PairingsFor(new)[p].board = SeatedAt(new, p)
  BY <1>1, <1>3 DEF PairingsFor, StoredPairings, Results
<1> QED
  BY <1>1, <1>2, <1>3, <1>4

\* Boards are inserted, and the pairings of their players written.
LEMMA AddedGood ==
  ASSUME NEW v \in Databases, NEW d, Sound(d), NEW new, DOMAIN new \subseteq FreshIds,
         \A p \in Player : PairingOf(d, p).board \notin FreshIds,
         \A b \in DOMAIN new :
           /\ new[b] \in StoredBoards
           /\ new[b].black # None => new[b].index < Tables,
         \A p \in DOMAIN PairingsFor(new) : v.pairing[p] = None => d.pairing[p] = None
  PROVE  Good(d, Written(v, BoardsInserted(d, new), PairingsFor(new)))
<1> DEFINE i == BoardsInserted(d, new)
           e == Written(v, i, PairingsFor(new))
<1>1. /\ Good(d, i) /\ i.pairing = d.pairing
      /\ \A b \in DOMAIN new : i.board[b] = new[b]
  BY InsertedGood
<1>2. /\ DOMAIN PairingsFor(new) \subseteq Player
      /\ \A p \in DOMAIN PairingsFor(new) :
           /\ PairingsFor(new)[p] \in StoredPairings
           /\ PairingsFor(new)[p].board \in DOMAIN new
           /\ p \in Seats(new[PairingsFor(new)[p].board])
  BY PairingsForType, FreshFacts
<1>3. Writable(v, i, PairingsFor(new))
  BY <1>1, <1>2, NoneAssumption DEF Writable
<1>4. Sound(e) /\ e.board = i.board
  <2>1. Sound(i)
    BY <1>1 DEF Good
  <2>2. \A p \in DOMAIN PairingsFor(new) :
          p \in Seats(i.board[PairingsFor(new)[p].board])
    BY <1>1, <1>2
  <2> QED
    BY <1>2, <1>3, <2>1, <2>2, WrittenSound
<1>5. Keeps(d, e)
  BY <1>1, <1>4 DEF Good, Keeps, BoardsOf
<1> QED
  BY <1>4, <1>5 DEF Good

LEMMA DrawGood ==
  ASSUME NEW v, Sound(v), NEW d, Sound(d),
         \A p \in Player : PairingOf(d, p).board \notin FreshIds,
         \A b \in PabBoards(v) : d.board[b] # None => SameSeats(d.board[b], v.board[b]),
         NEW e \in DrawOutcomes(v, d)
  PROVE  Good(d, e)
<1>0. v \in Databases /\ d \in Databases
  BY DEF Sound
<1>1. PICK new \in Draws(v) :
        /\ Writable(v, BoardsInserted(d, new), PairingsFor(new))
        /\ \E m \in PabMoved(v, d, GameIndexes(v) \cup {new[b].index : b \in DOMAIN new}) :
             e = Written(v, BoardsInserted(m, new), PairingsFor(new))
  BY DEF DrawOutcomes
<1> DEFINE games == GameIndexes(v) \cup {new[b].index : b \in DOMAIN new}
<1>2. PICK m \in PabMoved(v, d, games) :
        e = Written(v, BoardsInserted(m, new), PairingsFor(new))
  BY <1>1
<1>3. /\ DOMAIN new \subseteq FreshIds
      /\ \A b \in DOMAIN new :
           new[b] \in StoredBoards /\ new[b].index \in 0..Tables - 1
  BY <1>0, DrawsType
<1>4. games \in SUBSET (0..Tables - 1)
  BY <1>3, GamesInTables
<1>5. Good(d, m) /\ m.pairing = d.pairing
  BY <1>0, <1>4, PabMovedGood
<1>6. \A p \in Player : PairingOf(m, p).board \notin FreshIds
  BY <1>5 DEF PairingOf
<1>7. \A b \in DOMAIN new : new[b].black # None => new[b].index < Tables
  BY <1>3, TablesNat
<1>8. \A p \in DOMAIN PairingsFor(new) : v.pairing[p] = None => m.pairing[p] = None
  <2>1. BoardsInserted(d, new).pairing = d.pairing
    BY <1>0 DEF BoardsInserted, Databases
  <2> QED
    BY <2>1, <1>1, <1>5 DEF Writable
<1>9. Good(m, e)
  BY <1>0, <1>2, <1>3, <1>5, <1>6, <1>7, <1>8, AddedGood DEF Good
<1> QED
  BY <1>0, <1>5, <1>9, KeepsTrans DEF Good, Sound

LEMMA PairGood ==
  ASSUME NEW d, Sound(d), NEW p \in Player,
         \A q \in Player : PairingOf(d, q).board \notin FreshIds,
         NEW e \in PairOutcomes(Loaded(d), d, p)
  PROVE  Good(d, e)
<1> DEFINE v == Loaded(d)
<1>0. d \in Databases
  BY DEF Sound
<1>1. /\ Sound(v) /\ v \in Databases /\ v.pairing = d.pairing
      /\ \A b \in BoardsOf(v) : v.board[b] = d.board[b]
  BY LoadedSound DEF Sound
<1>2. CASE PabBoards(v) = {}
  <2>a. e \in WaitingOutcomes(v, d, p)
    BY <1>2 DEF PairOutcomes
  <2>b. PICK new \in WaitingBoards(v, p) :
          e = Written(v, BoardsInserted(d, new), PairingsFor(new))
    BY <2>a DEF WaitingOutcomes
  <2> DEFINE indexes == IF AvailableIndexes(v) = {} THEN {0} ELSE First(AvailableIndexes(v))
  <2>1. PICK id \in FreshIds, index \in indexes :
          new = [b \in {id} |-> [white |-> p, black |-> None, index |-> index]]
    BY <2>b DEF AnyOf, WaitingBoards
  <2>2. index \in 0..Tables
    BY TablesNat DEF First, AvailableIndexes
  <2>3. /\ DOMAIN new \subseteq FreshIds
        /\ \A b \in DOMAIN new : new[b] \in StoredBoards /\ new[b].black = None
    BY <2>1, <2>2 DEF StoredBoards
  <2> QED
    BY <1>1, <2>3, <2>b, AddedGood
<1>3. CASE PabBoards(v) # {}
  <2>1. PICK b \in PabBoards(v) : e \in FacingOutcomes(v, d, p, b)
    BY <1>3 DEF PairOutcomes
  <2> DEFINE w == v.board[b].white
             rows == [q \in {w, p} |-> [result |-> "none", board |-> b]]
  <2>2. PICK index \in First(AvailableIndexes(v)) :
          e = Written(v, BoardUpdated(d, b, [white |-> w, black |-> p, index |-> index]), rows)
    BY <2>1 DEF FacingOutcomes
  <2> DEFINE board == [white |-> w, black |-> p, index |-> index]
             u == BoardUpdated(d, b, board)
  <2>3. /\ b \in BoardId /\ b # None /\ w \in Player
        /\ v.board[b] = d.board[b] /\ d.board[b] # None /\ d.board[b].black = None
    BY <1>1, BoardType, ConstantsAssumption DEF PabBoards, Exempt, BoardsOf
  <2>4. index \in 0..Tables - 1
    BY DEF First, AvailableIndexes
  <2>5. board \in StoredBoards /\ board.index < Tables
    BY <2>3, <2>4, TablesNat DEF StoredBoards
  <2>6. SameSeats(d.board[b], board)
    BY <2>3 DEF SameSeats
  <2>7. Good(d, u) /\ u.pairing = d.pairing
    BY <2>3, <2>5, <2>6, UpdatedGood
  <2>8. u.board[b] = board /\ board # None
    BY <2>3, <2>5, <1>0, NoneAssumption DEF BoardUpdated, Databases
  <2>9. \A q \in DOMAIN rows :
          /\ q \in Player /\ rows[q] \in StoredPairings /\ rows[q].board = b
          /\ q \in Seats(board)
    BY <2>3, ConstantsAssumption DEF StoredPairings, Results, Seats
  <2>10. Writable(v, u, rows)
    BY <2>7, <2>8, <2>9, <1>1 DEF Writable
  <2>11. Sound(e) /\ e.board = u.board
    BY <1>1, <2>2, <2>7, <2>8, <2>9, <2>10, WrittenSound DEF Good
  <2> QED
    BY <2>7, <2>11 DEF Good, Keeps, BoardsOf
<1> QED
  BY <1>2, <1>3

\* Every board of the view, or some of those of a view that is up to date.
LEMMA UnpairGood ==
  ASSUME NEW v, Sound(v), NEW d, Sound(d), NEW boards \in SUBSET BoardsOf(v),
         v = Loaded(d) \/ boards = BoardsOf(v),
         NEW e \in UnpairOutcomes(v, d, boards)
  PROVE  Good(d, e)
<1> DEFINE players == UNION {Seats(v.board[b]) : b \in boards}
           left == BoardsDeleted(v, players, boards)
           u == BoardsDeleted(d, players, boards)
<1>0. v \in Databases /\ d \in Databases
  BY DEF Sound
<1>1. players \in SUBSET Player /\ boards \in SUBSET BoardId
  BY <1>0, BoardType
<1>2. /\ Sound(left)
      /\ \A b \in BoardsOf(left) : b \in BoardsOf(v) \ boards /\ left.board[b] = v.board[b]
  BY <1>1, DeletedGood DEF Good
<1>3. /\ Good(d, u)
      /\ \A b \in BoardsOf(u) : u.board[b] = d.board[b]
  <2> HIDE DEF players
  <2>1. Good(d, u)
    BY <1>1, DeletedGood
  <2>2. \A b \in BoardsOf(u) : u.board[b] = d.board[b]
    BY <1>1, DeletedGood
  <2> QED
    BY <2>1, <2>2
<1>4. e \in PabMoved(left, u, GameIndexes(left))
  BY DEF UnpairOutcomes
<1>5. ASSUME NEW b \in PabBoards(left), u.board[b] # None
      PROVE  SameSeats(u.board[b], left.board[b])
  <2>1. b \in BoardsOf(left) /\ b \in BoardId
    BY DEF PabBoards, BoardsOf
  <2>2. b \in BoardsOf(v) /\ left.board[b] = v.board[b] /\ v = Loaded(d)
    BY <2>1, <1>2
  <2>3. v.board[b] = d.board[b]
    BY <2>2, LoadedSound
  <2>4. b \in BoardsOf(u)
    BY <2>1, <1>5 DEF BoardsOf
  <2> QED
    BY <1>3, <2>2, <2>3, <2>4 DEF SameSeats
<1> HIDE DEF left, u
<1>6. Good(u, e)
  BY <1>2, <1>3, <1>4, <1>5, GamesInTables, PabMovedGood DEF Good, Sound
<1> QED
  BY <1>0, <1>3, <1>6, KeepsTrans DEF Good, Sound

\* Pairings are written with the board they have in the view.
LEMMA RowsGood ==
  ASSUME NEW v, Sound(v), NEW d, Sound(d), ViewsAgree(v, d), NEW new,
         DOMAIN new \subseteq Player,
         \A p \in DOMAIN new :
           new[p] \in StoredPairings /\ new[p].board = PairingOf(v, p).board,
         NEW e \in RowsOutcomes(v, d, new)
  PROVE  Good(d, e)
<1>0. v \in Databases /\ d \in Databases
  BY DEF Sound
<1>1. Writable(v, d, new) /\ e = Written(v, d, new)
  BY DEF RowsOutcomes
<1>2. ASSUME NEW p \in DOMAIN new, new[p].board # None, d.board[new[p].board] # None
      PROVE  p \in Seats(d.board[new[p].board])
  <2> DEFINE b == new[p].board
  <2>1. v.board[b] # None /\ p \in Seats(v.board[b])
    BY <1>2 DEF Sound, RowsSeated
  <2>2. b \in BoardsOf(v) /\ b \in BoardsOf(d)
    BY <2>1, <1>2 DEF BoardsOf, StoredPairings
  <2>3. SameSeats(v.board[b], d.board[b])
    BY <2>2, <1>2 DEF ViewsAgree
  <2> QED
    BY <1>0, <2>1, <2>2, <2>3, BoardType, SameSeatsKeeps
<1>3. Sound(e) /\ e.board = d.board
  BY <1>0, <1>1, <1>2, WrittenSound
<1> QED
  BY <1>0, <1>3, KeepsRefl DEF Good, Keeps, BoardsOf

LEMMA PermuteGood ==
  ASSUME NEW v, Sound(v), NEW d, Sound(d), ViewsAgree(v, d),
         NEW b \in BoardsOf(v), ~Exempt(v, b), NEW e \in PermuteOutcomes(v, d, b)
  PROVE  Good(d, e)
<1> DEFINE board == [v.board[b] EXCEPT !.white = v.board[b].black, !.black = v.board[b].white]
<1>1. /\ b \in BoardId /\ v.board[b] \in StoredBoards
      /\ v.board[b].white \in Player /\ v.board[b].black \in Player
      /\ v.board[b].index < Tables
  BY BoardType DEF Sound, InTables, Exempt
<1>2. /\ board \in StoredBoards /\ board.index = v.board[b].index
      /\ board.white = v.board[b].black /\ board.black = v.board[b].white
  BY <1>1 DEF StoredBoards
<1>3. ASSUME d.board[b] # None PROVE SameSeats(d.board[b], board)
  <2>1. SameSeats(v.board[b], d.board[b])
    BY <1>3 DEF ViewsAgree
  <2> QED
    BY <1>1, <1>2, <2>1, ConstantsAssumption DEF SameSeats
<1>4. e = BoardUpdated(d, b, board)
  BY DEF PermuteOutcomes
<1> QED
  BY <1>1, <1>2, <1>3, <1>4, UpdatedGood

-----------------------------------------------------------------------------
(* The requests.                                                           *)

LEMMA NothingSound ==
  /\ Sound(Nothing) /\ BoardsOf(Nothing) = {}
  /\ Idle \in Requests /\ Underway(Idle)
<1>1. Nothing \in Databases
  BY DEF Nothing, Databases
<1>2. BoardsOf(Nothing) = {}
  BY DEF Nothing, BoardsOf
<1>3. RowsSeated(Nothing)
  BY DEF RowsSeated, PairingOf, Nothing
<1>4. Idle \in Requests /\ Underway(Idle)
  BY <1>1 DEF Idle, Requests, Underway
<1> QED
  BY <1>1, <1>2, <1>3, <1>4 DEF Sound, InTables

LEMMA InitInv == Init => Inv
<1> SUFFICES ASSUME Init PROVE Inv
  OBVIOUS
<1>1. TypeOK /\ Sound(db)
  BY NothingSound DEF Init, TypeOK, Sound
<1>2. ASSUME NEW c \in Client
      PROVE  Sound(req[c].view) /\ ViewsAgree(req[c].view, db) /\ Underway(req[c])
  <2>1. req[c] = Idle /\ req[c].view = Nothing
    BY DEF Init, Idle
  <2> QED
    BY <2>1, NothingSound DEF ViewsAgree
<1> QED
  BY <1>1, <1>2 DEF Inv

\* A transaction is written, or none: the other requests keep their views.
LEMMA WriteStep ==
  ASSUME Inv, Good(db, db'), stage' \in {"current", "previous"},
         req' = req \/ \E c \in Client : req' = [req EXCEPT ![c] = Idle]
  PROVE  Inv'
<1>1. Sound(db') /\ db' \in Databases /\ db \in Databases
  BY DEF Good, Sound, Inv
<1>2. TypeOK'
  BY <1>1, NothingSound DEF TypeOK, Inv
<1>3. ASSUME NEW c \in Client
      PROVE  Sound(req[c].view)' /\ ViewsAgree(req[c].view, db)' /\ Underway(req[c])'
  <2>1. CASE req'[c] = Idle
    <3>1. req'[c].view = Nothing
      BY <2>1 DEF Idle
    <3> QED
      BY <2>1, <3>1, NothingSound DEF ViewsAgree
  <2>2. CASE req'[c] = req[c]
    <3>1. Sound(req[c].view) /\ ViewsAgree(req[c].view, db) /\ Underway(req[c])
      BY DEF Inv
    <3>2. req[c].view \in Databases
      BY <3>1 DEF Sound
    <3>3. ViewsAgree(req[c].view, db')
      BY <1>1, <3>1, <3>2, FreshFacts, AgreesStill DEF Good
    <3> QED
      BY <2>2, <3>1, <3>3
  <2>3. req'[c] = Idle \/ req'[c] = req[c]
    BY DEF Inv, TypeOK
  <2> QED
    BY <2>1, <2>2, <2>3
<1> QED
  BY <1>1, <1>2, <1>3 DEF Inv

\* A request goes off to await, with the view it has just loaded.
LEMMA AwaitStep ==
  ASSUME Inv, UNCHANGED <<db, stage>>, NEW c \in Client, NEW op \in Operations,
         NEW p \in Player \cup {None}, NEW b \in BoardId \cup {None},
         req' = [req EXCEPT ![c] = [op |-> op, player |-> p, board |-> b, view |-> Loaded(db)]],
         Underway([op |-> op, player |-> p, board |-> b, view |-> Loaded(db)])
  PROVE  Inv'
<1>1. Sound(db) /\ db' = db
  BY DEF Inv
<1>2. Sound(Loaded(db)) /\ ViewsAgree(Loaded(db), db) /\ Loaded(db) \in Databases
  BY <1>1, LoadedSound DEF Sound
<1>3. TypeOK'
  BY <1>2 DEF TypeOK, Inv, Requests
<1>4. ASSUME NEW x \in Client
      PROVE  Sound(req'[x].view) /\ ViewsAgree(req'[x].view, db') /\ Underway(req'[x])
  <2>1. CASE x = c
    BY <2>1, <1>1, <1>2 DEF Inv, TypeOK
  <2>2. CASE x # c
    BY <2>2, <1>1 DEF Inv, TypeOK
  <2> QED
    BY <2>1, <2>2
<1> QED
  BY <1>1, <1>3, <1>4 DEF Inv

\* A handler, whether it awaits or not.
LEMMA HandleStep ==
  ASSUME Inv, NEW c \in Client, NEW op \in Operations,
         NEW p \in Player \cup {None}, NEW b \in BoardId \cup {None},
         NEW STATE outcomes, Handle(c, op, p, b, outcomes),
         \A e \in outcomes : Good(db, e),
         Underway([op |-> op, player |-> p, board |-> b, view |-> Loaded(db)])
  PROVE  Inv'
<1>1. stage' \in {"current", "previous"} /\ stage' = stage
  BY DEF Handle, Inv, TypeOK
<1>2. CASE Concurrent /\ op \in Awaited
  BY <1>1, <1>2, AwaitStep DEF Handle
<1>3. CASE ~(Concurrent /\ op \in Awaited)
  <2>1. db' \in outcomes /\ req' = req
    BY <1>3 DEF Handle
  <2> QED
    BY <1>1, <2>1, WriteStep
<1> QED
  BY <1>2, <1>3

\* What Inv says of the database and of the view just loaded.
LEMMA LoadedNow ==
  ASSUME Inv
  PROVE  /\ Sound(db) /\ db \in Databases
         /\ Sound(Loaded(db)) /\ Loaded(db) \in Databases /\ ViewsAgree(Loaded(db), db)
         /\ \A b \in PabBoards(Loaded(db)) : SameSeats(db.board[b], Loaded(db).board[b])
         /\ \A p \in Player : PairingOf(db, p).board \notin FreshIds
<1>1. Sound(db) /\ db \in Databases
  BY DEF Inv, Sound
<1>2. /\ Sound(Loaded(db)) /\ Loaded(db) \in Databases /\ ViewsAgree(Loaded(db), db)
      /\ \A b \in BoardsOf(Loaded(db)) : Loaded(db).board[b] = db.board[b]
  BY <1>1, LoadedSound DEF Sound
<1>3. \A b \in PabBoards(Loaded(db)) : SameSeats(db.board[b], Loaded(db).board[b])
  BY <1>2 DEF PabBoards, SameSeats
<1> QED
  BY <1>1, <1>2, <1>3, FreshFacts

\* The pairings of a bye or of a result are those of the view but for the result.
LEMMA RowsType ==
  ASSUME NEW v \in Databases, NEW result \in Results
  PROVE  /\ \A p \in Player :
              /\ DOMAIN ByeRows(v, p, result) \subseteq Player
              /\ \A q \in DOMAIN ByeRows(v, p, result) :
                   /\ ByeRows(v, p, result)[q] \in StoredPairings
                   /\ ByeRows(v, p, result)[q].board = PairingOf(v, q).board
         /\ \A b \in BoardsOf(v) :
              /\ DOMAIN ResultRows(v, b, result) \subseteq Player
              /\ \A q \in DOMAIN ResultRows(v, b, result) :
                   /\ ResultRows(v, b, result)[q] \in StoredPairings
                   /\ ResultRows(v, b, result)[q].board = PairingOf(v, q).board
<1>1. ASSUME NEW q \in Player
      PROVE  /\ [PairingOf(v, q) EXCEPT !.result = result] \in StoredPairings
             /\ [PairingOf(v, q) EXCEPT !.result = result].board = PairingOf(v, q).board
  BY PairingOfType DEF StoredPairings
<1>2. \A b \in BoardsOf(v) : Seats(v.board[b]) \subseteq Player
  BY BoardType
<1> QED
  BY <1>1, <1>2 DEF ByeRows, ResultRows

LEMMA ByeGood ==
  ASSUME NEW v, Sound(v), NEW d, Sound(d), ViewsAgree(v, d), NEW p \in Player,
         NEW result \in Results, NEW e \in RowsOutcomes(v, d, ByeRows(v, p, result))
  PROVE  Good(d, e)
<1>1. v \in Databases
  BY DEF Sound
<1> QED
  BY <1>1, RowsType, RowsGood

LEMMA ResultGood ==
  ASSUME NEW v, Sound(v), NEW d, Sound(d), ViewsAgree(v, d), NEW b \in BoardsOf(v),
         NEW result \in Results, NEW e \in RowsOutcomes(v, d, ResultRows(v, b, result))
  PROVE  Good(d, e)
<1>1. v \in Databases
  BY DEF Sound
<1> QED
  BY <1>1, RowsType, RowsGood

\* A request resumes: it writes from a view that may be out of date.
LEMMA ResumeStep ==
  ASSUME Inv, NEW c \in Client, Resume(c)
  PROVE  Inv'
<1>1. PICK v \in Databases : v = req[c].view
  BY DEF Inv, TypeOK, Requests
<1>2. /\ Sound(v) /\ ViewsAgree(v, db) /\ Underway(req[c])
      /\ Sound(db) /\ \A p \in Player : PairingOf(db, p).board \notin FreshIds
  BY <1>1, LoadedNow DEF Inv
<1>3. PICK r \in Requests : r = req[c]
  BY DEF Inv, TypeOK
<1>4. db' \in Resumed(r, db) /\ r.view = v /\ Underway(r)
  BY <1>1, <1>2, <1>3 DEF Resume
<1>5. Good(db, db')
  <2>1. CASE r.op = "draw"
    <3>1. db' \in DrawOutcomes(v, db) /\ PabBoards(v) = {}
      BY <2>1, <1>4 DEF Resumed, Underway
    <3> QED
      BY <3>1, <1>2, DrawGood
  <2>2. CASE r.op = "unpair_round"
    <3>1. db' \in UnpairOutcomes(v, db, BoardsOf(v))
      BY <2>2, <1>4 DEF Resumed
    <3> QED
      BY <3>1, <1>2, UnpairGood
  <2>3. CASE r.op = "bye"
    <3>1. r.player \in Player
      BY <2>3, <1>4 DEF Underway
    <3>2. PICK x \in {"bye", "none"} : db' \in RowsOutcomes(v, db, ByeRows(v, r.player, x))
      BY <2>3, <1>4 DEF Resumed
    <3> QED
      BY <3>1, <3>2, <1>2, ByeGood DEF Results
  <2>4. CASE r.op = "result"
    <3>1. r.board \in BoardsOf(v)
      BY <2>4, <1>4 DEF Underway
    <3>2. PICK x \in {"played", "none"} : db' \in RowsOutcomes(v, db, ResultRows(v, r.board, x))
      BY <2>4, <1>4 DEF Resumed
    <3> QED
      BY <3>1, <3>2, <1>2, ResultGood DEF Results
  <2>5. CASE r.op = "permute"
    <3>1. r.board \in BoardsOf(v) /\ ~Exempt(v, r.board)
      BY <2>5, <1>4 DEF Underway
    <3>2. db' \in PermuteOutcomes(v, db, r.board)
      BY <2>5, <1>4 DEF Resumed
    <3> QED
      BY <3>1, <3>2, <1>2, PermuteGood
  <2>6. CASE r.op \notin {"draw", "unpair_round", "bye", "result", "permute"}
    BY <2>6, <1>4 DEF Resumed
  <2> QED
    BY <2>1, <2>2, <2>3, <2>4, <2>5, <2>6
<1>6. stage' \in {"current", "previous"} /\ \E x \in Client : req' = [req EXCEPT ![x] = Idle]
  BY DEF Resume, Inv, TypeOK
<1> QED
  BY <1>5, <1>6, WriteStep

LEMMA NextInv == Inv /\ [Next]_vars => Inv'
<1> SUFFICES ASSUME Inv, [Next]_vars PROVE Inv'
  OBVIOUS
<1>0. /\ None \in Player \cup {None} /\ None \in BoardId \cup {None}
      /\ Sound(db) /\ Good(db, db)
  BY LoadedNow, KeepsRefl DEF Good
<1>1. CASE FollowOn
  BY <1>0, <1>1, WriteStep DEF FollowOn
<1>2. CASE UNCHANGED vars
  <2>1. db' = db /\ req' = req /\ stage' \in {"current", "previous"}
    BY <1>2 DEF vars, Inv, TypeOK
  <2> QED
    BY <2>1, <1>0, WriteStep
<1>3. ASSUME NEW c \in Client, Draw(c) PROVE Inv'
  <2>1. PabBoards(View) = {}
    BY <1>3, LoadedNow, BoardType DEF Draw, RoundHasPairings, RoundHasPab, PabBoards, View
  <2>2. \A e \in DrawOutcomes(View, db) : Good(db, e)
    BY LoadedNow, DrawGood DEF View
  <2>3. Underway([op |-> "draw", player |-> None, board |-> None, view |-> Loaded(db)])
    BY <2>1 DEF Underway, View
  <2> QED
    BY <1>0, <1>3, <2>2, <2>3, HandleStep DEF Draw, Operations
<1>4. ASSUME NEW c \in Client, Complete(c) PROVE Inv'
  <2>1. \A e \in DrawOutcomes(View, db) : Good(db, e)
    BY LoadedNow, DrawGood DEF View
  <2>2. Underway([op |-> "complete", player |-> None, board |-> None, view |-> Loaded(db)])
    BY DEF Underway
  <2> QED
    BY <1>0, <1>4, <2>1, <2>2, HandleStep DEF Complete, Operations
<1>5. ASSUME NEW c \in Client, NEW p \in Player, Pair(c, p) PROVE Inv'
  <2>1. \A e \in PairOutcomes(View, db, p) : Good(db, e)
    BY LoadedNow, PairGood DEF View
  <2>2. Underway([op |-> "pair", player |-> p, board |-> None, view |-> Loaded(db)])
    BY DEF Underway
  <2> QED
    BY <1>0, <1>5, <2>1, <2>2, HandleStep DEF Pair, Operations
<1>6. ASSUME NEW c \in Client, NEW b \in BoardId, Unpair(c, b) PROVE Inv'
  <2>1. {b} \in SUBSET BoardsOf(Loaded(db))
    BY <1>6 DEF Unpair, View
  <2>2. \A e \in UnpairOutcomes(View, db, {b}) : Good(db, e)
    BY <2>1, LoadedNow, UnpairGood DEF View
  <2>3. Underway([op |-> "unpair", player |-> None, board |-> b, view |-> Loaded(db)])
    BY DEF Underway
  <2> QED
    BY <1>0, <1>6, <2>2, <2>3, HandleStep DEF Unpair, Operations
<1>7. ASSUME NEW c \in Client, UnpairRound(c) PROVE Inv'
  <2>1. \A e \in UnpairOutcomes(View, db, BoardsOf(View)) : Good(db, e)
    BY LoadedNow, UnpairGood DEF View
  <2>2. Underway([op |-> "unpair_round", player |-> None, board |-> None, view |-> Loaded(db)])
    BY DEF Underway
  <2> QED
    BY <1>0, <1>7, <2>1, <2>2, HandleStep DEF UnpairRound, Operations
<1>8. ASSUME NEW c \in Client, NEW p \in Player, Bye(c, p) PROVE Inv'
  <2>1. PICK x \in {"bye", "none"} :
          Handle(c, "bye", p, None, RowsOutcomes(View, db, ByeRows(View, p, x)))
    BY <1>8 DEF Bye
  <2>2. \A e \in RowsOutcomes(View, db, ByeRows(View, p, x)) : Good(db, e)
    BY LoadedNow, ByeGood DEF View, Results
  <2>3. Underway([op |-> "bye", player |-> p, board |-> None, view |-> Loaded(db)])
    BY DEF Underway
  <2> QED
    BY <1>0, <2>1, <2>2, <2>3, HandleStep DEF Operations
<1>9. ASSUME NEW c \in Client, NEW b \in BoardId, Result(c, b) PROVE Inv'
  <2>1. PICK x \in {"played", "none"} :
          Handle(c, "result", None, b, RowsOutcomes(View, db, ResultRows(View, b, x)))
    BY <1>9 DEF Result
  <2>2. \A e \in RowsOutcomes(View, db, ResultRows(View, b, x)) : Good(db, e)
    BY <1>9, LoadedNow, ResultGood DEF View, Results, Result
  <2>3. Underway([op |-> "result", player |-> None, board |-> b, view |-> Loaded(db)])
    BY <1>9 DEF Underway, Result, View
  <2> QED
    BY <1>0, <2>1, <2>2, <2>3, HandleStep DEF Operations
<1>10. ASSUME NEW c \in Client, NEW b \in BoardId, Permute(c, b) PROVE Inv'
  <2>1. b \in BoardsOf(Loaded(db)) /\ ~Exempt(Loaded(db), b)
    BY <1>10 DEF Permute, View
  <2>2. \A e \in PermuteOutcomes(View, db, b) : Good(db, e)
    BY <2>1, LoadedNow, PermuteGood DEF View
  <2>3. Underway([op |-> "permute", player |-> None, board |-> b, view |-> Loaded(db)])
    BY <2>1 DEF Underway
  <2> QED
    BY <1>0, <1>10, <2>2, <2>3, HandleStep DEF Permute, Operations
<1>11. ASSUME NEW c \in Client, Resume(c) PROVE Inv'
  BY <1>11, ResumeStep
<1>12. ASSUME NEW c \in Client, Broken(c) PROVE Inv'
  <2>1. db' = db /\ stage' \in {"current", "previous"} /\ req' = [req EXCEPT ![c] = Idle]
    BY <1>12 DEF Broken, Inv, TypeOK
  <2> QED
    BY <1>0, <2>1, WriteStep
<1>13. ASSUME NEW c \in Client, Refused(c) PROVE Inv'
  <2>1. db' = db /\ stage' \in {"current", "previous"} /\ req' = [req EXCEPT ![c] = Idle]
    BY <1>13 DEF Refused, Inv, TypeOK
  <2> QED
    BY <1>0, <2>1, WriteStep
<1> QED
  BY <1>1, <1>2, <1>3, <1>4, <1>5, <1>6, <1>7, <1>8, <1>9, <1>10, <1>11, <1>12, <1>13
     DEF Next

LEMMA SpecInv == Spec => []Inv
  BY InitInv, NextInv, PTL DEF Spec

\* The event file, the stage of the round and the requests keep their types: an
\* index never exceeds the tables by more than the bye's, whatever the draws,
\* the manual pairings and the unpairings, and whatever views they write from.
THEOREM BoardsTypeCorrect == Spec => []TypeOK
<1>1. Inv => TypeOK
  BY DEF Inv
<1> QED
  BY <1>1, SpecInv, PTL

\* A pairing that mentions a board mentions one that exists and seats the
\* player, for any number of players and of requests, however out of date the
\* views are that they write from.
THEOREM PairingsSeated == Spec => []RowSeated
<1>1. Inv => RowSeated
  BY DEF Inv, Sound, RowSeated
<1> QED
  BY <1>1, SpecInv, PTL

\* No request sees a board reseated: as long as identifiers are not given twice,
\* a write out of date finds the players it saw or no board at all.
THEOREM PlayersKept == Spec => []BoardsKeepPlayers
<1>1. Inv => BoardsKeepPlayers
  BY DEF Inv, BoardsKeepPlayers
<1> QED
  BY <1>1, SpecInv, PTL
=============================================================================
