------------------------- MODULE RoundSerial_proofs -------------------------
(***************************************************************************)
(* The boards of a round when requests are served one after the other and  *)
(* from pages that are up to date, for any number of players: nobody is    *)
(* lost from sight, no table is given twice and one player at most waits,  *)
(* and the operations are those of RoundSeating.                           *)
(*                                                                         *)
(* Every view is then the database itself, since each board is mentioned   *)
(* by the pairings of those it seats (NeatLoaded).  Each operation is      *)
(* shown to lead from a neat database to a neat one, and what it does to   *)
(* the tables and to those away is read off the same lemmas.               *)
(***************************************************************************)
EXTENDS RoundBoards_proofs, RoundNumbers, Induction_proofs

\* Those a board seats are two, or one with the bye, and have their pairing at it.
SeatsHeld(d) ==
  \A b \in BoardsOf(d) :
    /\ d.board[b].white # d.board[b].black
    /\ \A p \in Seats(d.board[b]) :
         /\ PairingOf(d, p).board = b
         /\ PairingOf(d, p).result = "pab" <=> d.board[b].black = None

\* Those at no board play no part or have a bye they asked for, those at one have
\* no such bye, and one of them at most waits.
OneWaits(d) ==
  /\ \A p \in Player : PairingOf(d, p).result \in
       IF PairingOf(d, p).board = None THEN {"none", "bye"} ELSE {"none", "pab", "played"}
  /\ \A a, b \in BoardsOf(d) : Exempt(d, a) /\ Exempt(d, b) => a = b

Apart(d) == \A a, b \in BoardsOf(d) : d.board[a].index = d.board[b].index => a = b

Neat(d) == Sound(d) /\ SeatsHeld(d) /\ OneWaits(d) /\ Apart(d)

\* What RoundSeating calls the tables and those away.
TablesOf(d) == {Seats(d.board[b]) : b \in BoardsOf(d)}
AwayOf(d) == {p \in Player : PairingOf(d, p).result = "bye"}

\* Requests never wait, and what they find is neat.
SerialInv == Inv /\ Neat(db) /\ \A c \in Client : req[c] = Idle

-----------------------------------------------------------------------------
(* Neat databases.                                                         *)

\* Every board is mentioned: what a request loads is all there is.
LEMMA NeatLoaded ==
  ASSUME NEW d, Neat(d)
  PROVE  Loaded(d) = d
<1>0. d \in Databases
  BY DEF Neat, Sound
<1>1. ASSUME NEW b \in BoardId, d.board[b] # None
      PROVE  \E p \in Player : PairingOf(d, p).board = b
  <2>1. b \in BoardsOf(d)
    BY <1>1 DEF BoardsOf
  <2>2. d.board[b].white \in Player /\ d.board[b].white \in Seats(d.board[b])
    BY <2>1, <1>0, BoardType, ConstantsAssumption DEF Seats
  <2> QED
    BY <2>1, <2>2 DEF Neat, SeatsHeld
<1>2. \A b \in BoardId :
        (IF \E p \in Player : PairingOf(d, p).board = b THEN d.board[b] ELSE None) = d.board[b]
  BY <1>1
<1>3. PICK x \in [BoardId -> StoredBoards \cup {None}],
           y \in [Player -> StoredPairings \cup {None}] : d = [board |-> x, pairing |-> y]
  BY <1>0 DEF Databases
<1>4. [b \in BoardId |->
         IF \E p \in Player : PairingOf(d, p).board = b THEN d.board[b] ELSE None] = x
  BY <1>2, <1>3
<1> QED
  BY <1>3, <1>4 DEF Loaded

\* A player with no board is at none.
LEMMA Unseated ==
  ASSUME NEW d, Neat(d), NEW p \in Player, PairingOf(d, p).board = None
  PROVE  \A b \in BoardsOf(d) : p \notin Seats(d.board[b])
  BY ConstantsAssumption DEF Neat, SeatsHeld, BoardsOf

\* The exempt boards are those of the bye.
LEMMA PabIsExempt ==
  ASSUME NEW d, Neat(d)
  PROVE  /\ PabBoards(d) = {b \in BoardsOf(d) : Exempt(d, b)}
         /\ RoundHasPab(d) => PabBoards(d) # {}
<1>0. d \in Databases
  BY DEF Neat, Sound
<1>1. ASSUME NEW b \in BoardsOf(d), Exempt(d, b)
      PROVE  PairingOf(d, d.board[b].white).result = "pab"
  <2>1. d.board[b].white \in Seats(d.board[b])
    BY <1>0, BoardType, ConstantsAssumption DEF Seats
  <2> QED
    BY <1>1, <2>1 DEF Neat, SeatsHeld, Exempt
<1>2. ASSUME NEW p \in Player, PairingOf(d, p).result = "pab"
      PROVE  \E b \in BoardsOf(d) : Exempt(d, b)
  <2> DEFINE b == PairingOf(d, p).board
  <2>1. b # None
    BY <1>2 DEF Neat, OneWaits
  <2>2. d.board[b] # None /\ p \in Seats(d.board[b])
    BY <2>1 DEF Neat, Sound, RowsSeated
  <2>3. b \in BoardsOf(d)
    BY <2>1, <2>2, <1>0, PairingOfType DEF BoardsOf, StoredPairings
  <2> QED
    BY <1>2, <2>2, <2>3 DEF Neat, SeatsHeld, Exempt
<1> QED
  BY <1>1, <1>2 DEF PabBoards, RoundHasPab

\* Players who need a pairing are at no board.
LEMMA NeedyUnseated ==
  ASSUME NEW d, Neat(d), NEW p \in NeedsPairing(d)
  PROVE  p \in Player /\ PairingOf(d, p).board = None
<1>0. d \in Databases
  BY DEF Neat, Sound
<1> DEFINE b == PairingOf(d, p).board
<1>1. p \in Player /\ PairingOf(d, p).result = "none" /\ Opponent(d, p) = None
  BY DEF NeedsPairing
<1> SUFFICES ASSUME b # None PROVE FALSE
  BY <1>1
<1>2. d.board[b] # None /\ p \in Seats(d.board[b])
  BY <1>1 DEF Neat, Sound, RowsSeated
<1>3. b \in BoardsOf(d)
  BY <1>0, <1>1, <1>2, PairingOfType DEF BoardsOf, StoredPairings
<1>4. d.board[b].black # None /\ d.board[b].white \in Player
  BY <1>0, <1>1, <1>2, <1>3, BoardType DEF Neat, SeatsHeld
<1>5. Opponent(d, p) = IF d.board[b].white = p THEN d.board[b].black ELSE d.board[b].white
  BY DEF Opponent
<1> QED
  BY <1>1, <1>4, <1>5, ConstantsAssumption

\* Pairings written by a request that knows which rows there are.
LEMMA WrittenNow ==
  ASSUME NEW v, NEW d \in Databases, v.pairing = d.pairing, NEW new,
         DOMAIN new \subseteq Player, \A p \in DOMAIN new : new[p] \in StoredPairings
  PROVE  /\ Written(v, d, new).board = d.board
         /\ BoardsOf(Written(v, d, new)) = BoardsOf(d)
         /\ \A p \in Player : PairingOf(Written(v, d, new), p) =
              IF p \in DOMAIN new THEN new[p] ELSE PairingOf(d, p)
<1> DEFINE e == Written(v, d, new)
<1>1. /\ e.board = d.board
      /\ e.pairing = [p \in Player |-> IF p \in DOMAIN new THEN new[p] ELSE d.pairing[p]]
  BY DEF Written, Databases
<1>2. \A p \in Player : PairingOf(e, p) =
              IF p \in DOMAIN new THEN new[p] ELSE PairingOf(d, p)
  BY <1>1, NoneAssumption DEF PairingOf
<1> QED
  BY <1>1, <1>2 DEF BoardsOf

\* The bye moves after the games, and after the tables of any to come.
LEMMA MovedNeat ==
  ASSUME NEW d, Neat(d), NEW games \in SUBSET (0..Tables - 1), GameIndexes(d) \subseteq games,
         NEW e \in PabMoved(d, d, games)
  PROVE  /\ Neat(e)
         /\ e.pairing = d.pairing /\ BoardsOf(e) = BoardsOf(d)
         /\ \A b \in BoardsOf(d) : /\ e.board[b].white = d.board[b].white
                                   /\ e.board[b].black = d.board[b].black
                                   /\ Exempt(e, b) => e.board[b].index \notin games
                                   /\ ~Exempt(e, b) => e.board[b] = d.board[b]
         /\ TablesOf(e) = TablesOf(d) /\ AwayOf(e) = AwayOf(d)
<1>0. d \in Databases /\ Sound(d)
  BY DEF Neat, Sound
<1>1. Sound(e) /\ e.pairing = d.pairing /\ BoardsOf(e) = BoardsOf(d)
  BY <1>0, PabMovedGood DEF Good, SameSeats
<1>2. \A b \in PabBoards(d) : b \in BoardsOf(d) /\ Exempt(d, b)
  BY PabIsExempt
<1>3. \A b \in BoardsOf(d) : /\ e.board[b].white = d.board[b].white
                             /\ e.board[b].black = d.board[b].black
                             /\ Exempt(e, b) => e.board[b].index \notin games
                             /\ ~Exempt(e, b) => e.board[b] = d.board[b]
  <2>1. CASE PabBoards(d) = {}
    <3>1. e = d
      BY <2>1 DEF PabMoved
    <3> QED
      BY <2>1, <3>1, PabIsExempt
  <2>2. CASE PabBoards(d) # {}
    <3>1. PICK b \in PabBoards(d), index \in PabIndex(games) :
            e = BoardUpdated(d, b, [d.board[b] EXCEPT !.index = index])
      BY <2>2 DEF PabMoved
    <3> DEFINE board == [d.board[b] EXCEPT !.index = index]
    <3>2. b \in BoardsOf(d) /\ Exempt(d, b) /\ d.board[b] \in StoredBoards /\ d.board[b] # None
      BY <1>0, <1>2, BoardType DEF BoardsOf
    <3>3. /\ board.white = d.board[b].white
          /\ board.black = d.board[b].black
          /\ board.index = index
      BY <3>2 DEF StoredBoards
    <3>4. \A x \in BoardsOf(d) : e.board[x] = IF x = b THEN board ELSE d.board[x]
      BY <3>1, <3>2, <1>0 DEF BoardUpdated, BoardsOf, Databases
    <3>5. index \notin games
      <4>1. CASE games = {}
        BY <4>1
      <4>2. CASE games # {}
        <5>1. PICK i \in games : index = i + 1 /\ \A j \in games : j <= i
          BY <4>2 DEF PabIndex, Last
        <5>2. games \subseteq Nat
          BY TablesNat
        <5> QED
          BY <5>1, <5>2
      <4> QED
        BY <4>1, <4>2
    <3>6. \A x \in BoardsOf(d) : Exempt(d, x) => x = b
      BY <3>2 DEF Neat, OneWaits
    <3> QED
      BY <3>2, <3>3, <3>4, <3>5, <3>6 DEF Exempt
  <2> QED
    BY <2>1, <2>2
<1>4. \A p \in Player : PairingOf(e, p) = PairingOf(d, p)
  BY <1>1 DEF PairingOf
<1>5. \A b \in BoardsOf(d) : Seats(e.board[b]) = Seats(d.board[b])
  BY <1>3 DEF Seats
<1>6. SeatsHeld(e)
  <2> SUFFICES ASSUME NEW b \in BoardsOf(d)
      PROVE  /\ e.board[b].white # e.board[b].black
             /\ \A p \in Seats(d.board[b]) :
                  /\ PairingOf(e, p).board = b
                  /\ PairingOf(e, p).result = "pab" <=> e.board[b].black = None
    BY <1>1, <1>5 DEF SeatsHeld
  <2>1. Seats(d.board[b]) \subseteq Player
    BY <1>0, BoardType
  <2> QED
    BY <2>1, <1>3, <1>4 DEF Neat, SeatsHeld
<1>7. OneWaits(e)
  BY <1>1, <1>3, <1>4 DEF Neat, OneWaits, Exempt
<1>8. Apart(e)
  <2> SUFFICES ASSUME NEW a \in BoardsOf(d), NEW b \in BoardsOf(d),
                      e.board[a].index = e.board[b].index
               PROVE  a = b
    BY <1>1 DEF Apart
  <2>1. \A x \in BoardsOf(d) : ~Exempt(e, x) => e.board[x].index \in games
    <3> SUFFICES ASSUME NEW x \in BoardsOf(d), ~Exempt(e, x)
                 PROVE  e.board[x].index \in games
      OBVIOUS
    <3>1. ~Exempt(d, x) /\ e.board[x] = d.board[x]
      BY <1>3 DEF Exempt
    <3> QED
      BY <3>1 DEF GameIndexes
  <2>2. CASE Exempt(e, a) /\ Exempt(e, b)
    BY <2>2, <1>1, <1>7 DEF OneWaits
  <2>3. CASE ~Exempt(e, a) /\ ~Exempt(e, b)
    BY <2>3, <1>3 DEF Neat, Apart
  <2> QED
    BY <2>1, <2>2, <2>3, <1>3
<1>9. TablesOf(e) = TablesOf(d) /\ AwayOf(e) = AwayOf(d)
  BY <1>1, <1>4, <1>5 DEF TablesOf, AwayOf
<1> QED
  BY <1>1, <1>3, <1>6, <1>7, <1>8, <1>9 DEF Neat

-----------------------------------------------------------------------------
(* The draw.                                                               *)

\* Boards that may be added to d: of players who have none, at free tables.
Fits(d, new) ==
  /\ DOMAIN new \subseteq BoardId \ BoardsOf(d)
  /\ \A b \in DOMAIN new :
       /\ new[b] \in StoredBoards /\ new[b].white # new[b].black
       /\ \A p \in Seats(new[b]) : PairingOf(d, p).board = None
       /\ \A a \in BoardsOf(d) : d.board[a].index # new[b].index
       /\ new[b].black = None => \A a \in BoardsOf(d) : ~Exempt(d, a)
  /\ \A a, b \in DOMAIN new :
       \/ a = b
       \/ /\ Seats(new[a]) \cap Seats(new[b]) = {}
          /\ new[a].index # new[b].index
          /\ new[a].black # None \/ new[b].black # None

LEMMA AddedNeat ==
  ASSUME NEW d, Neat(d), NEW v, v.pairing = d.pairing, NEW new, Fits(d, new),
         NEW e, e = Written(v, BoardsInserted(d, new), PairingsFor(new)), Sound(e)
  PROVE  /\ Neat(e)
         /\ TablesOf(e) = TablesOf(d) \cup {Seats(new[b]) : b \in DOMAIN new}
         /\ AwayOf(e) = AwayOf(d) \ UNION {Seats(new[b]) : b \in DOMAIN new}
<1> DEFINE i == BoardsInserted(d, new)
           rows == PairingsFor(new)
<1>0. d \in Databases /\ DOMAIN new \subseteq BoardId
  BY DEF Neat, Sound, Fits
<1>1. /\ i.pairing = d.pairing
      /\ \A b \in BoardId : i.board[b] = IF b \in DOMAIN new THEN new[b] ELSE d.board[b]
  BY <1>0 DEF BoardsInserted, Databases
<1>2. i \in Databases
  BY <1>0 DEF BoardsInserted, Databases, Fits
<1>3. /\ DOMAIN rows \subseteq Player
      /\ \A p \in DOMAIN rows : rows[p] \in StoredPairings
  BY <1>0, PairingsForType DEF Fits
<1>4. /\ e.board = i.board
      /\ \A p \in Player : PairingOf(e, p) = IF p \in DOMAIN rows THEN rows[p] ELSE PairingOf(d, p)
  <2>1. \A p \in Player : PairingOf(i, p) = PairingOf(d, p)
    BY <1>1 DEF PairingOf
  <2> HIDE DEF i, rows
  <2> QED
    BY <2>1, <1>1, <1>2, <1>3, WrittenNow DEF i, rows
<1>5. BoardsOf(e) = BoardsOf(d) \cup DOMAIN new
  BY <1>0, <1>1, <1>4, NoneAssumption DEF BoardsOf, Fits
<1>6. /\ \A b \in DOMAIN new : e.board[b] = new[b]
      /\ \A b \in BoardsOf(d) : e.board[b] = d.board[b]
  BY <1>0, <1>1, <1>4 DEF BoardsOf, Fits
<1>7. \A b \in DOMAIN new : \A p \in Seats(new[b]) :
        p \in DOMAIN rows /\ rows[p].board = b /\ (rows[p].result = "pab" <=> new[b].black = None)
  <2> SUFFICES ASSUME NEW b \in DOMAIN new, NEW p \in Seats(new[b])
      PROVE  p \in DOMAIN rows /\ rows[p].board = b /\ (rows[p].result = "pab" <=> new[b].black = None)
    OBVIOUS
  <2>1. SeatedAt(new, p) = b
    BY DEF SeatedAt, Fits
  <2> QED
    BY <2>1 DEF PairingsFor
<1>8. ASSUME NEW b \in BoardsOf(d), NEW p \in Seats(d.board[b])
      PROVE  p \in Player /\ PairingOf(e, p) = PairingOf(d, p)
  <2>1. p \in Player
    BY <1>0, <1>8, BoardType
  <2>2. PairingOf(d, p).board # None
    BY <1>8, ConstantsAssumption DEF Neat, SeatsHeld, BoardsOf
  <2>3. p \notin DOMAIN rows
    BY <2>2 DEF PairingsFor, Fits
  <2> QED
    BY <2>1, <2>3, <1>4
<1>9. SeatsHeld(e)
  <2> SUFFICES ASSUME NEW b \in BoardsOf(e)
      PROVE  /\ e.board[b].white # e.board[b].black
             /\ \A p \in Seats(e.board[b]) :
                  /\ PairingOf(e, p).board = b
                  /\ PairingOf(e, p).result = "pab" <=> e.board[b].black = None
    BY DEF SeatsHeld
  <2>1. CASE b \in DOMAIN new
    BY <2>1, <1>3, <1>4, <1>6, <1>7 DEF Fits
  <2>2. CASE b \in BoardsOf(d)
    BY <2>2, <1>6, <1>8 DEF Neat, SeatsHeld
  <2> QED
    BY <2>1, <2>2, <1>5
<1>10. OneWaits(e)
  <2>1. ASSUME NEW p \in Player
        PROVE  PairingOf(e, p).result \in
                 IF PairingOf(e, p).board = None THEN {"none", "bye"} ELSE {"none", "pab", "played"}
    <3>1. CASE p \in DOMAIN rows
      <4>1. rows[p].board # None
        BY <3>1, <1>0, PairingsForType, ConstantsAssumption DEF Fits
      <4>2. rows[p].result \in {"none", "pab"}
        BY <3>1 DEF PairingsFor
      <4> QED
        BY <3>1, <4>1, <4>2, <1>4
    <3>2. CASE p \notin DOMAIN rows
      BY <3>2, <1>4 DEF Neat, OneWaits
    <3> QED
      BY <3>1, <3>2
  <2>2. ASSUME NEW a \in BoardsOf(e), NEW b \in BoardsOf(e), Exempt(e, a), Exempt(e, b)
        PROVE  a = b
    <3>1. CASE a \in BoardsOf(d) /\ b \in BoardsOf(d)
      BY <3>1, <2>2, <1>6 DEF Neat, OneWaits, Exempt
    <3>2. CASE a \in DOMAIN new \/ b \in DOMAIN new
      BY <3>2, <2>2, <1>5, <1>6 DEF Fits, Exempt
    <3> QED
      BY <3>1, <3>2, <1>5
  <2> QED
    BY <2>1, <2>2 DEF OneWaits
<1>11. Apart(e)
  BY <1>5, <1>6 DEF Apart, Neat, Fits
<1>12. TablesOf(e) = TablesOf(d) \cup {Seats(new[b]) : b \in DOMAIN new}
  BY <1>5, <1>6 DEF TablesOf
<1>13. AwayOf(e) = AwayOf(d) \ UNION {Seats(new[b]) : b \in DOMAIN new}
  <2>1. \A p \in DOMAIN rows : rows[p].result # "bye"
    BY DEF PairingsFor
  <2>2. DOMAIN rows = UNION {Seats(new[b]) : b \in DOMAIN new}
    BY DEF PairingsFor
  <2> QED
    BY <2>1, <2>2, <1>4 DEF AwayOf
<1> QED
  BY <1>9, <1>10, <1>11, <1>12, <1>13 DEF Neat

\* What the engine may draw of those left without a game.
LEMMA DrawsFit ==
  ASSUME NEW d, Neat(d), FreshIds \cap BoardsOf(d) = {}, NEW new \in Draws(d)
  PROVE  /\ DOMAIN new \subseteq BoardId \ BoardsOf(d)
         /\ \A b \in DOMAIN new :
              /\ new[b] \in StoredBoards /\ new[b].white # new[b].black
              /\ \A p \in Seats(new[b]) : PairingOf(d, p).board = None
              /\ new[b].index \in AvailableIndexes(d)
              /\ new[b].black = None => ~RoundHasPab(d)
         /\ \A a, b \in DOMAIN new :
              \/ a = b
              \/ /\ Seats(new[a]) \cap Seats(new[b]) = {}
                 /\ new[a].index # new[b].index
                 /\ new[a].black # None \/ new[b].black # None
<1> DEFINE players == NeedsPairing(d)
           N == Cardinality(players)
           n == BoardCount(d, players)
<1> SUFFICES ASSUME DOMAIN new # {}
             PROVE  /\ DOMAIN new \subseteq BoardId \ BoardsOf(d)
                    /\ \A b \in DOMAIN new :
                         /\ new[b] \in StoredBoards /\ new[b].white # new[b].black
                         /\ \A p \in Seats(new[b]) : PairingOf(d, p).board = None
                         /\ new[b].index \in AvailableIndexes(d)
                         /\ new[b].black = None => ~RoundHasPab(d)
                    /\ \A a, b \in DOMAIN new :
                         \/ a = b
                         \/ /\ Seats(new[a]) \cap Seats(new[b]) = {}
                            /\ new[a].index # new[b].index
                            /\ new[a].black # None \/ new[b].black # None
  OBVIOUS
<1>0. d \in Databases
  BY DEF Neat, Sound
<1>1. PICK order \in Orders(players), index \in FirstIndexes(d, n),
           id \in AnyOf({f \in [1..n -> FreshIds] : Injective(f)}) :
        new = Drawn(order, index, id)
  BY DEF Draws, NothingDrawn
<1>2. N \in Nat
  BY ConstantsAssumption, FS_Subset, FS_CardinalityType DEF NeedsPairing
<1>3. order \in [1..N -> players] /\ \A i, j \in 1..N : order[i] = order[j] => i = j
  BY DEF Orders, Injective
<1>4. /\ index \in [1..n -> AvailableIndexes(d)]
      /\ \A i \in 1..n : Cardinality({x \in AvailableIndexes(d) : x < index[i]}) = i - 1
  BY DEF FirstIndexes
<1>5. /\ id \in [1..n -> FreshIds]
      /\ \A i, j \in 1..n : id[i] = id[j] => i = j
  BY DEF AnyOf, Injective
<1>6. /\ n \in Nat
      /\ \A i \in 1..n : 2 * i - 1 \in 1..N
      /\ \A i \in 1..n : 2 * i > N => i = n /\ ~RoundHasPab(d)
  BY <1>2 DEF BoardCount
<1>7. \A i, j \in 1..n : index[i] = index[j] => i = j
  <2> SUFFICES ASSUME NEW i \in 1..n, NEW j \in 1..n, index[i] = index[j] PROVE i = j
    OBVIOUS
  <2>1. i - 1 = j - 1
    BY <1>4
  <2> QED
    BY <2>1, <1>6
<1> DEFINE Place(b) == CHOOSE k \in DOMAIN id : id[k] = b
<1>8. ASSUME NEW b \in DOMAIN new
      PROVE  /\ Place(b) \in 1..n /\ id[Place(b)] = b
             /\ new[b] = [white |-> order[2 * Place(b) - 1],
                          black |-> IF 2 * Place(b) \in 1..N THEN order[2 * Place(b)] ELSE None,
                          index |-> index[Place(b)]]
  <2>1. Place(b) \in DOMAIN id /\ id[Place(b)] = b
    BY <1>1 DEF Drawn
  <2>2. new[b] = [white |-> order[2 * Place(b) - 1],
                  black |-> IF 2 * Place(b) \in DOMAIN order THEN order[2 * Place(b)] ELSE None,
                  index |-> index[Place(b)]]
    BY <1>1 DEF Drawn
  <2> QED
    BY <2>1, <2>2, <1>3, <1>5
<1> HIDE DEF Place, n, N, players
<1>9. ASSUME NEW b \in DOMAIN new
      PROVE  /\ new[b].white \in players
             /\ new[b].black \in players \cup {None}
             /\ new[b].white # new[b].black
             /\ new[b].black = None <=> 2 * Place(b) > N
             /\ new[b].index = index[Place(b)]
  <2> DEFINE i == Place(b)
  <2>1. i \in 1..n /\ 2 * i - 1 \in 1..N /\ i \in Nat
    BY <1>6, <1>8
  <2>2. /\ new[b].white = order[2 * i - 1]
        /\ new[b].black = IF 2 * i \in 1..N THEN order[2 * i] ELSE None
        /\ new[b].index = index[i]
    BY <1>8
  <2>3. order[2 * i - 1] \in players /\ None \notin players
    BY <2>1, <1>3, ConstantsAssumption DEF players, NeedsPairing
  <2>4. 2 * i \in 1..N <=> ~(2 * i > N)
    BY <2>1, <1>2 DEF N
  <2>5. 2 * i \in 1..N => order[2 * i] \in players /\ order[2 * i] # order[2 * i - 1]
    <3> HIDE DEF i
    <3>1. 2 * i # 2 * i - 1
      BY <2>1
    <3> QED
      BY <2>1, <3>1, <1>3
  <2> HIDE DEF i
  <2> QED
    BY <2>2, <2>3, <2>4, <2>5 DEF i
<1>10. ASSUME NEW a \in DOMAIN new, NEW b \in DOMAIN new, a # b
       PROVE  /\ Seats(new[a]) \cap Seats(new[b]) = {}
              /\ new[a].index # new[b].index
              /\ new[a].black # None \/ new[b].black # None
  <2>1. PICK i \in 1..n, j \in 1..n : i = Place(a) /\ j = Place(b)
    BY <1>8
  <2>2. i # j
    BY <2>1, <1>8, <1>10
  <2>3. new[a].index # new[b].index
    BY <2>1, <2>2, <1>7, <1>9
  <2>4. new[a].black # None \/ new[b].black # None
    BY <2>1, <2>2, <1>6, <1>9
  <2>5. ASSUME NEW p \in Seats(new[a]), p \in Seats(new[b]) PROVE FALSE
    <3>1. \E k \in {2 * i - 1, 2 * i} : k \in 1..N /\ p = order[k]
      BY <2>1, <2>5, <1>6, <1>8 DEF Seats
    <3>2. \E k \in {2 * j - 1, 2 * j} : k \in 1..N /\ p = order[k]
      BY <2>1, <2>5, <1>6, <1>8 DEF Seats
    <3>3. PICK k \in {2 * i - 1, 2 * i}, l \in {2 * j - 1, 2 * j} :
            k \in 1..N /\ l \in 1..N /\ order[k] = order[l]
      BY <3>1, <3>2
    <3>4. k = l
      BY <3>3, <1>3
    <3> QED
      BY <3>4, <2>2, <1>6
  <2> QED
    BY <2>3, <2>4, <2>5
<1>11. ASSUME NEW b \in DOMAIN new
       PROVE  /\ new[b] \in StoredBoards
              /\ \A p \in Seats(new[b]) : PairingOf(d, p).board = None
              /\ new[b].index \in AvailableIndexes(d)
              /\ new[b].black = None => ~RoundHasPab(d)
  <2>1. new[b] \in StoredBoards
    BY <1>0, DrawsType
  <2>2. Seats(new[b]) \subseteq players
    BY <1>9 DEF Seats
  <2>3. \A p \in Seats(new[b]) : PairingOf(d, p).board = None
    BY <2>2, NeedyUnseated DEF players
  <2>4. new[b].index \in AvailableIndexes(d)
    BY <1>4, <1>8, <1>9
  <2>5. new[b].black = None => ~RoundHasPab(d)
    BY <1>6, <1>8, <1>9
  <2> QED
    BY <2>1, <2>3, <2>4, <2>5
<1>12. DOMAIN new \subseteq BoardId \ BoardsOf(d)
  BY <1>0, DrawsType, FreshFacts
<1> QED
  BY <1>9, <1>10, <1>11, <1>12

\* Whoever needs a pairing has one, or all but one when somebody waits already,
\* unless nothing is drawn.
LEMMA DrawsSeat ==
  ASSUME NEW d, Neat(d), FreshIds \cap BoardsOf(d) = {}, NEW new \in Draws(d),
         DOMAIN new # {}
  PROVE  \E left \in {{}} \cup {{p} : p \in NeedsPairing(d)} :
           /\ UNION {Seats(new[b]) : b \in DOMAIN new} = NeedsPairing(d) \ left
           /\ left # {} => RoundHasPab(d)
<1> DEFINE players == NeedsPairing(d)
           N == Cardinality(players)
           n == BoardCount(d, players)
<1>1. PICK order \in Orders(players), index \in FirstIndexes(d, n),
           id \in AnyOf({f \in [1..n -> FreshIds] : Injective(f)}) :
        new = Drawn(order, index, id)
  BY DEF Draws, NothingDrawn
<1>2. N \in Nat /\ IsFiniteSet(players)
  BY ConstantsAssumption, FS_Subset, FS_CardinalityType DEF NeedsPairing
<1>3. order \in [1..N -> players] /\ \A i, j \in 1..N : order[i] = order[j] => i = j
  BY DEF Orders, Injective
<1>4. /\ id \in [1..n -> FreshIds]
      /\ \A i, j \in 1..n : id[i] = id[j] => i = j
  BY DEF AnyOf, Injective
<1>5. /\ n \in Nat
      /\ \A i \in 1..n : 2 * i - 1 \in 1..N
      /\ 2 * n < N => N = 2 * n + 1 /\ RoundHasPab(d)
  BY <1>2 DEF BoardCount
<1> HIDE DEF n, N, players
<1>6. \A p \in players : \E k \in 1..N : order[k] = p
  <2>1. order \in Injection(1..N, players)
    BY <1>3 DEF Injection, IsInjective
  <2>2. Cardinality(1..N) = Cardinality(players)
    BY <1>2, FS_Interval DEF N
  <2>3. order \in Surjection(1..N, players)
    BY <1>2, <2>1, <2>2, FS_Injection
  <2> QED
    BY <2>3 DEF Surjection
<1>7. ASSUME NEW i \in 1..n
      PROVE  /\ id[i] \in DOMAIN new
             /\ None \notin players
             /\ Seats(new[id[i]]) = {order[k] : k \in {2 * i - 1, 2 * i} \cap 1..N}
  <2>1. id[i] \in DOMAIN new
    BY <1>1, <1>4 DEF Drawn
  <2>2. (CHOOSE k \in DOMAIN id : id[k] = id[i]) = i
    BY <1>4
  <2>3. new[id[i]] = [white |-> order[2 * i - 1],
                      black |-> IF 2 * i \in DOMAIN order THEN order[2 * i] ELSE None,
                      index |-> index[i]]
    BY <2>1, <2>2, <1>1 DEF Drawn
  <2>4. None \notin players
    BY ConstantsAssumption DEF players, NeedsPairing
  <2>5. 2 * i - 1 \in 1..N /\ order[2 * i - 1] \in players
    BY <1>3, <1>5
  <2>6. CASE 2 * i \in 1..N
    <3>1. /\ new[id[i]].white = order[2 * i - 1] /\ new[id[i]].black = order[2 * i]
          /\ order[2 * i] \in players
      BY <2>3, <2>6, <1>3
    <3>2. {2 * i - 1, 2 * i} \cap 1..N = {2 * i - 1, 2 * i}
      BY <2>5, <2>6
    <3> QED
      BY <2>1, <2>4, <2>5, <3>1, <3>2 DEF Seats
  <2>7. CASE 2 * i \notin 1..N
    <3>1. new[id[i]].white = order[2 * i - 1] /\ new[id[i]].black = None
      BY <2>3, <2>7, <1>3
    <3>2. {2 * i - 1, 2 * i} \cap 1..N = {2 * i - 1}
      BY <2>5, <2>7
    <3> QED
      BY <2>1, <2>4, <2>5, <3>1, <3>2 DEF Seats
  <2> QED
    BY <2>6, <2>7
<1>8. DOMAIN new = {id[i] : i \in 1..n}
  BY <1>1, <1>4 DEF Drawn
<1>9. UNION {Seats(new[b]) : b \in DOMAIN new} = {order[k] : k \in 1..2 * n \cap 1..N}
  <2>1. ASSUME NEW i \in 1..n, NEW k \in {2 * i - 1, 2 * i} PROVE k \in 1..2 * n
    BY <2>1, <1>5
  <2>2. ASSUME NEW k \in 1..2 * n PROVE \E i \in 1..n : k \in {2 * i - 1, 2 * i}
    <3>1. (k + 1) \div 2 \in 1..n
      BY <1>5
    <3>2. k = 2 * ((k + 1) \div 2) - 1 \/ k = 2 * ((k + 1) \div 2)
      BY <1>5
    <3> QED
      BY <3>1, <3>2
  <2>3. ASSUME NEW b \in DOMAIN new, NEW p \in Seats(new[b])
        PROVE  p \in {order[k] : k \in 1..2 * n \cap 1..N}
    <3>1. PICK i \in 1..n : b = id[i]
      BY <1>8
    <3>a. p \in {order[k] : k \in {2 * i - 1, 2 * i} \cap 1..N}
      BY <3>1, <1>7
    <3>2. PICK k \in {2 * i - 1, 2 * i} \cap 1..N : p = order[k]
      BY <3>a
    <3> QED
      BY <3>2, <2>1
  <2>4. ASSUME NEW k \in 1..2 * n \cap 1..N
        PROVE  \E b \in DOMAIN new : order[k] \in Seats(new[b])
    <3>1. PICK i \in 1..n : k \in {2 * i - 1, 2 * i}
      BY <2>2
    <3> QED
      BY <3>1, <1>7
  <2> QED
    BY <2>3, <2>4
<1>10. CASE 2 * n < N
  <2> DEFINE last == order[N]
  <2>1. N \in 1..N /\ last \in players /\ N = 2 * n + 1
    BY <1>2, <1>3, <1>5, <1>10
  <2>2. \A k \in 1..N : k \in 1..2 * n <=> k # N
    BY <1>5, <2>1
  <2>3. {order[k] : k \in 1..2 * n \cap 1..N} = players \ {last}
    BY <1>3, <1>6, <2>1, <2>2
  <2> QED
    BY <1>5, <1>9, <1>10, <2>1, <2>3 DEF players, N
<1>11. CASE ~(2 * n < N)
  <2>1. \A k \in 1..N : k \in 1..2 * n
    BY <1>2, <1>5, <1>11
  <2>2. {order[k] : k \in 1..2 * n \cap 1..N} = players \ {}
    BY <1>3, <1>6, <2>1
  <2> QED
    BY <1>9, <2>2 DEF players
<1> QED
  BY <1>10, <1>11

LEMMA DrawNeat ==
  ASSUME NEW d, Neat(d), FreshIds \cap BoardsOf(d) = {},
         NEW e \in DrawOutcomes(d, d), Sound(e)
  PROVE  /\ Neat(e)
         /\ \E new \in Draws(d) :
              /\ TablesOf(e) = TablesOf(d) \cup {Seats(new[b]) : b \in DOMAIN new}
              /\ AwayOf(e) = AwayOf(d) \ UNION {Seats(new[b]) : b \in DOMAIN new}
<1>0. d \in Databases /\ Sound(d)
  BY DEF Neat, Sound
<1>1. PICK new \in Draws(d) :
        \E m \in PabMoved(d, d, GameIndexes(d) \cup {new[b].index : b \in DOMAIN new}) :
          e = Written(d, BoardsInserted(m, new), PairingsFor(new))
  BY DEF DrawOutcomes
<1> DEFINE games == GameIndexes(d) \cup {new[b].index : b \in DOMAIN new}
<1>2. PICK m \in PabMoved(d, d, games) :
        e = Written(d, BoardsInserted(m, new), PairingsFor(new))
  BY <1>1
<1>3. games \in SUBSET (0..Tables - 1) /\ GameIndexes(d) \subseteq games
  BY <1>0, DrawsType, GamesInTables
<1>4. /\ Neat(m)
      /\ m.pairing = d.pairing /\ BoardsOf(m) = BoardsOf(d)
      /\ \A b \in BoardsOf(d) : /\ m.board[b].black = d.board[b].black
                                /\ Exempt(m, b) => m.board[b].index \notin games
                                /\ ~Exempt(m, b) => m.board[b] = d.board[b]
      /\ TablesOf(m) = TablesOf(d) /\ AwayOf(m) = AwayOf(d)
  <2> HIDE DEF games
  <2> QED
    BY <1>3, MovedNeat
<1>5. Fits(m, new)
  <2>1. ASSUME NEW b \in DOMAIN new, NEW a \in BoardsOf(d) PROVE m.board[a].index # new[b].index
    <3>1. CASE Exempt(m, a)
      BY <3>1, <1>4
    <3>2. CASE ~Exempt(m, a)
      <4>1. m.board[a].index \in GameIndexes(d)
        BY <3>2, <1>4 DEF GameIndexes, Exempt
      <4> QED
        BY <4>1, DrawsFit DEF AvailableIndexes
    <3> QED
      BY <3>1, <3>2
  <2>2. ASSUME ~RoundHasPab(d), NEW a \in BoardsOf(d) PROVE ~Exempt(m, a)
    BY <2>2, <1>0, <1>4, PabIsExempt, BoardType DEF Exempt, RoundHasPab, PabBoards
  <2>3. \A p \in Player : PairingOf(m, p) = PairingOf(d, p)
    BY <1>4 DEF PairingOf
  <2>4. \A b \in DOMAIN new : \A p \in Seats(new[b]) : p \in Player /\ PairingOf(d, p).board = None
    BY DrawsFit DEF Seats, StoredBoards
  <2> QED
    BY <2>1, <2>2, <2>3, <2>4, <1>4, DrawsFit DEF Fits
<1> QED
  BY <1>2, <1>4, <1>5, AddedNeat

-----------------------------------------------------------------------------
(* A player paired by hand.                                                *)

\* When nobody waits and somebody is at no board, a table is available: the
\* boards seat two players each.
LEMMA TableAvailable ==
  ASSUME NEW d, Neat(d), PabBoards(d) = {}, NEW p \in Player, PairingOf(d, p).board = None
  PROVE  AvailableIndexes(d) # {}
<1> SUFFICES ASSUME AvailableIndexes(d) = {} PROVE FALSE
  OBVIOUS
<1> DEFINE N == Cardinality(Player)
           At(i) == CHOOSE b \in BoardsOf(d) : d.board[b].index = i
           sits == [k \in 1..2 * Tables |->
                      IF k <= Tables THEN d.board[At(k - 1)].white
                      ELSE d.board[At(k - 1 - Tables)].black]
<1>0. d \in Databases
  BY DEF Neat, Sound
<1>1. N \in Nat /\ Tables \in Nat /\ N <= 2 * Tables
  BY ConstantsAssumption, FS_CardinalityType DEF Tables
<1>2. ASSUME NEW i \in 0..Tables - 1
      PROVE  /\ At(i) \in BoardsOf(d) /\ d.board[At(i)].index = i
             /\ d.board[At(i)].white \in Player \ {p}
             /\ d.board[At(i)].black \in Player \ {p}
             /\ d.board[At(i)].white # d.board[At(i)].black
             /\ PairingOf(d, d.board[At(i)].white).board = At(i)
             /\ PairingOf(d, d.board[At(i)].black).board = At(i)
  <2>1. i \in GameIndexes(d)
    BY DEF AvailableIndexes
  <2>2. At(i) \in BoardsOf(d) /\ d.board[At(i)].index = i
    BY <2>1 DEF GameIndexes
  <2> HIDE DEF At
  <2>3. ~Exempt(d, At(i))
    BY <2>2, PabIsExempt
  <2>4. d.board[At(i)].white \in Player /\ d.board[At(i)].black \in Player
    BY <1>0, <2>2, <2>3, BoardType DEF Exempt
  <2>5. /\ d.board[At(i)].white \in Seats(d.board[At(i)])
        /\ d.board[At(i)].black \in Seats(d.board[At(i)])
    BY <2>4, ConstantsAssumption DEF Seats
  <2> QED
    BY <2>2, <2>4, <2>5, Unseated DEF Neat, SeatsHeld
<1> HIDE DEF At
<1>3. ASSUME NEW k \in 1..2 * Tables
      PROVE  \E i \in 0..Tables - 1 :
               \/ k <= Tables /\ i = k - 1 /\ sits[k] = d.board[At(i)].white
               \/ ~(k <= Tables) /\ i = k - 1 - Tables /\ sits[k] = d.board[At(i)].black
  <2>1. CASE k <= Tables
    <3>1. k - 1 \in 0..Tables - 1
      BY <2>1, <1>1
    <3> QED
      BY <2>1, <3>1
  <2>2. CASE ~(k <= Tables)
    <3>1. k - 1 - Tables \in 0..Tables - 1
      BY <2>2, <1>1
    <3> QED
      BY <2>2, <3>1
  <2> QED
    BY <2>1, <2>2
<1> HIDE DEF sits
<1>4. sits \in [1..2 * Tables -> Player \ {p}]
  <2>1. \A k \in 1..2 * Tables : sits[k] \in Player \ {p}
    BY <1>2, <1>3
  <2> QED
    BY <2>1 DEF sits
<1>5. IsFiniteSet(Player \ {p}) /\ Cardinality(Player \ {p}) = N - 1
  BY ConstantsAssumption, FS_RemoveElement
<1>6. IsFiniteSet(1..2 * Tables) /\ Cardinality(1..2 * Tables) = 2 * Tables
  <2>1. 1 \in Int /\ 2 * Tables \in Int /\ (1 > 2 * Tables => 2 * Tables = 0)
    BY <1>1
  <2> QED
    BY <1>1, <2>1, FS_Interval
<1>7. PICK k, l \in 1..2 * Tables : k # l /\ sits[k] = sits[l]
  <2> DEFINE S == 1..2 * Tables
             T == Player \ {p}
  <2>1. Cardinality(T) < Cardinality(S)
    BY <1>1, <1>5, <1>6
  <2>2. IsFiniteSet(S) /\ IsFiniteSet(T) /\ sits \in [S -> T]
    BY <1>4, <1>5, <1>6
  <2> HIDE DEF S, T
  <2>3. \E k, l \in S : k # l /\ sits[k] = sits[l]
    BY <2>1, <2>2, FS_PigeonHole
  <2> QED
    BY <2>3 DEF S
<1>8. PICK i \in 0..Tables - 1 :
        \/ k <= Tables /\ i = k - 1 /\ sits[k] = d.board[At(i)].white
        \/ ~(k <= Tables) /\ i = k - 1 - Tables /\ sits[k] = d.board[At(i)].black
  BY <1>3
<1>9. PICK j \in 0..Tables - 1 :
        \/ l <= Tables /\ j = l - 1 /\ sits[l] = d.board[At(j)].white
        \/ ~(l <= Tables) /\ j = l - 1 - Tables /\ sits[l] = d.board[At(j)].black
  BY <1>3
<1>10. At(i) = At(j)
  BY <1>2, <1>7, <1>8, <1>9
<1>11. i = j
  BY <1>2, <1>10
<1> QED
  BY <1>1, <1>2, <1>7, <1>8, <1>9, <1>11

LEMMA PairNeat ==
  ASSUME NEW d, Neat(d), FreshIds \cap BoardsOf(d) = {},
         NEW p \in Player, PairingOf(d, p).board = None,
         NEW e \in PairOutcomes(d, d, p), Sound(e)
  PROVE  /\ Neat(e) /\ AwayOf(e) = AwayOf(d) \ {p}
         /\ \/ PabBoards(d) = {} /\ TablesOf(e) = TablesOf(d) \cup {{p}}
            \/ \E b \in PabBoards(d) :
                 TablesOf(e) = {Seats(d.board[x]) : x \in BoardsOf(d) \ {b}}
                                 \cup {{d.board[b].white, p}}
<1>0. d \in Databases /\ e \in Databases
  BY DEF Neat, Sound
<1>1. CASE PabBoards(d) = {}
  <2>1. AvailableIndexes(d) # {}
    BY <1>1, TableAvailable
  <2>a. PICK new \in WaitingBoards(d, p) :
          e = Written(d, BoardsInserted(d, new), PairingsFor(new))
    BY <1>1 DEF PairOutcomes, WaitingOutcomes
  <2>b. AnyOf(FreshIds) \subseteq FreshIds
    BY DEF AnyOf
  <2>2. PICK id \in FreshIds, index \in First(AvailableIndexes(d)) :
          new = [b \in {id} |-> [white |-> p, black |-> None, index |-> index]]
    BY <2>1, <2>b DEF WaitingBoards
  <2>3. index \in AvailableIndexes(d) /\ index \in 0..Tables
    BY TablesNat DEF First, AvailableIndexes
  <2>4. /\ DOMAIN new = {id} /\ new[id] \in StoredBoards
        /\ new[id].white = p /\ new[id].black = None /\ new[id].index = index
        /\ Seats(new[id]) = {p}
    BY <2>2, <2>3, ConstantsAssumption DEF StoredBoards, Seats
  <2>5. \A a \in BoardsOf(d) : ~Exempt(d, a) /\ d.board[a].index # index
    BY <1>1, <2>3, PabIsExempt DEF AvailableIndexes, GameIndexes
  <2>6. Fits(d, new)
    BY <2>4, <2>5, FreshFacts, ConstantsAssumption DEF Fits
  <2> DEFINE added == {Seats(new[b]) : b \in DOMAIN new}
  <2>7. added = {{p}} /\ UNION added = {p}
    BY <2>4
  <2>8. Neat(e) /\ TablesOf(e) = TablesOf(d) \cup added /\ AwayOf(e) = AwayOf(d) \ UNION added
    BY <2>a, <2>6, AddedNeat
  <2> HIDE DEF added
  <2> QED
    BY <1>1, <2>7, <2>8
<1>2. CASE PabBoards(d) # {}
  <2>1. PICK b \in PabBoards(d), index \in First(AvailableIndexes(d)) :
          e = Written(d, BoardUpdated(d, b, [white |-> d.board[b].white, black |-> p,
                                             index |-> index]),
                      [q \in {d.board[b].white, p} |-> [result |-> "none", board |-> b]])
    BY <1>2 DEF PairOutcomes, FacingOutcomes
  <2> DEFINE w == d.board[b].white
             rows == [q \in {w, p} |-> [result |-> "none", board |-> b]]
             board == [white |-> w, black |-> p, index |-> index]
             u == BoardUpdated(d, b, board)
  <2>2. /\ b \in BoardsOf(d) /\ b \in BoardId /\ Exempt(d, b) /\ w \in Player
        /\ w \in Seats(d.board[b]) /\ w # p
    BY <1>0, BoardType, Unseated, ConstantsAssumption DEF PabBoards, Seats
  <2>3. index \in AvailableIndexes(d) /\ index \in 0..Tables
    BY TablesNat DEF First, AvailableIndexes
  <2>4. board \in StoredBoards /\ board # None
    BY <2>2, <2>3, NoneAssumption DEF StoredBoards
  <2>5. /\ u.pairing = d.pairing
        /\ \A x \in BoardId : u.board[x] = IF x = b THEN board ELSE d.board[x]
    BY <1>0, <2>2 DEF BoardUpdated, BoardsOf, Databases
  <2>6. u \in Databases
    BY <1>0, <2>4 DEF BoardUpdated, Databases
  <2>7. /\ DOMAIN rows \subseteq Player
        /\ \A q \in DOMAIN rows :
             rows[q] \in StoredPairings /\ rows[q].board = b /\ rows[q].result = "none"
    BY <2>2 DEF StoredPairings, Results
  <2> HIDE DEF u, rows
  <2>8. /\ e.board = u.board
        /\ \A q \in Player : PairingOf(e, q) = IF q \in {w, p} THEN rows[q] ELSE PairingOf(d, q)
    <3>1. \A q \in Player : PairingOf(u, q) = PairingOf(d, q)
      BY <2>5 DEF PairingOf
    <3>2. DOMAIN rows = {w, p}
      BY DEF rows
    <3>3. e = Written(d, u, rows)
      BY <2>1 DEF u, rows
    <3> QED
      BY <2>5, <2>6, <2>7, <3>1, <3>2, <3>3, WrittenNow
  <2>9. BoardsOf(e) = BoardsOf(d) /\ \A x \in BoardsOf(d) \ {b} : e.board[x] = d.board[x]
    BY <2>2, <2>4, <2>5, <2>8 DEF BoardsOf
  <2>10. e.board[b] = board /\ Seats(board) = {w, p} /\ board.black # None /\ b # None
    BY <2>2, <2>5, <2>8, ConstantsAssumption DEF Seats
  <2>11. ASSUME NEW x \in BoardsOf(d) \ {b}, NEW q \in Seats(d.board[x])
         PROVE  q \in Player /\ PairingOf(e, q) = PairingOf(d, q)
    <3>1. q \in Player /\ PairingOf(d, q).board = x /\ x # None
      BY <1>0, BoardType, ConstantsAssumption DEF Neat, SeatsHeld
    <3>2. q # p /\ q # w
      BY <3>1, <2>2 DEF Neat, SeatsHeld
    <3> QED
      BY <3>1, <3>2, <2>8
  <2>12. SeatsHeld(e)
    <3> SUFFICES ASSUME NEW x \in BoardsOf(e)
        PROVE  /\ e.board[x].white # e.board[x].black
               /\ \A q \in Seats(e.board[x]) :
                    /\ PairingOf(e, q).board = x
                    /\ PairingOf(e, q).result = "pab" <=> e.board[x].black = None
      BY DEF SeatsHeld
    <3>1. CASE x = b
      BY <3>1, <2>2, <2>7, <2>8, <2>10 DEF rows
    <3>2. CASE x # b
      BY <3>2, <2>9, <2>11 DEF Neat, SeatsHeld
    <3> QED
      BY <3>1, <3>2
  <2>13. \A x \in BoardsOf(e) : ~Exempt(e, x)
    <3>1. \A x \in BoardsOf(d) : Exempt(d, x) => x = b
      BY <2>2 DEF Neat, OneWaits
    <3> QED
      BY <3>1, <2>9, <2>10 DEF Exempt
  <2>14. OneWaits(e)
    <3>1. ASSUME NEW q \in Player
          PROVE  PairingOf(e, q).result \in
                   IF PairingOf(e, q).board = None THEN {"none", "bye"} ELSE {"none", "pab", "played"}
      BY <2>7, <2>8, <2>10 DEF Neat, OneWaits, rows
    <3> QED
      BY <3>1, <2>13 DEF OneWaits
  <2>15. Apart(e)
    <3>1. ASSUME NEW x \in BoardsOf(d) \ {b} PROVE e.board[x].index # index
      <4>1. ~Exempt(d, x)
        BY <3>1, <2>2 DEF Neat, OneWaits
      <4> QED
        BY <4>1, <2>3, <2>9 DEF AvailableIndexes, GameIndexes
    <3>2. e.board[b].index = index
      BY <2>10
    <3> QED
      BY <3>1, <3>2, <2>9 DEF Apart, Neat
  <2>16. AwayOf(e) = AwayOf(d) \ {p}
    <3>1. PairingOf(d, w).result # "bye"
      BY <2>2 DEF Neat, SeatsHeld, Exempt
    <3> QED
      BY <3>1, <2>2, <2>7, <2>8 DEF AwayOf, rows
  <2>17. TablesOf(e) = {Seats(d.board[x]) : x \in BoardsOf(d) \ {b}} \cup {{w, p}}
    BY <2>2, <2>9, <2>10 DEF TablesOf
  <2> QED
    BY <2>12, <2>14, <2>15, <2>16, <2>17 DEF Neat
<1> QED
  BY <1>1, <1>2

-----------------------------------------------------------------------------
(* Boards taken out, and what is written of those that stay.               *)

LEMMA UnpairNeat ==
  ASSUME NEW d, Neat(d), NEW boards \in SUBSET BoardsOf(d),
         NEW e \in UnpairOutcomes(d, d, boards)
  PROVE  Neat(e) /\ TablesOf(e) \subseteq TablesOf(d) /\ AwayOf(e) = AwayOf(d)
<1> DEFINE players == UNION {Seats(d.board[b]) : b \in boards}
           u == BoardsDeleted(d, players, boards)
<1>0. d \in Databases /\ Sound(d)
  BY DEF Neat, Sound
<1>1. players \in SUBSET Player /\ boards \in SUBSET BoardId
  BY <1>0, BoardType
<1>2. boards \cup {PairingOf(d, p).board : p \in players} = boards
  BY DEF Neat, SeatsHeld
<1> HIDE DEF players
<1>3. /\ \A b \in BoardId : u.board[b] = IF b \in boards THEN None ELSE d.board[b]
      /\ \A p \in Player : u.pairing[p] =
           IF p \in players \/ PairingOf(d, p).board \in boards \cap BoardId
           THEN None ELSE d.pairing[p]
  BY <1>2 DEF BoardsDeleted
<1>4. Sound(u)
  BY <1>0, <1>1, DeletedGood DEF Good
<1>5. /\ BoardsOf(u) = BoardsOf(d) \ boards
      /\ \A b \in BoardsOf(u) : u.board[b] = d.board[b]
  BY <1>3 DEF BoardsOf
<1>6. ASSUME NEW b \in BoardsOf(u), NEW p \in Seats(d.board[b])
      PROVE  PairingOf(u, p) = PairingOf(d, p)
  <2>1. p \in Player /\ PairingOf(d, p).board = b
    BY <1>0, <1>5, BoardType DEF Neat, SeatsHeld
  <2>2. p \notin players
    BY <2>1, <1>5 DEF players, Neat, SeatsHeld
  <2>3. u.pairing[p] = d.pairing[p]
    BY <2>1, <2>2, <1>3, <1>5
  <2> QED
    BY <2>3 DEF PairingOf
<1>7. SeatsHeld(u)
  BY <1>5, <1>6 DEF Neat, SeatsHeld
<1>8. OneWaits(u)
  <2>1. \A p \in Player : u.pairing[p] = None \/ u.pairing[p] = d.pairing[p]
    BY <1>3
  <2>2. \A p \in Player : \/ PairingOf(u, p) = PairingOf(d, p)
                          \/ PairingOf(u, p) = [result |-> "none", board |-> None]
    BY <2>1 DEF PairingOf
  <2>3. \A p \in Player : PairingOf(u, p).result \in
          IF PairingOf(u, p).board = None THEN {"none", "bye"} ELSE {"none", "pab", "played"}
    BY <2>2 DEF Neat, OneWaits
  <2> QED
    BY <2>3, <1>5 DEF Neat, OneWaits, Exempt
<1>9. Apart(u)
  BY <1>5 DEF Neat, Apart
<1>10. Neat(u)
  BY <1>4, <1>7, <1>8, <1>9 DEF Neat
<1>11. e \in PabMoved(u, u, GameIndexes(u))
  BY DEF UnpairOutcomes, players
<1>12. GameIndexes(u) \in SUBSET (0..Tables - 1)
  BY <1>4, GamesInTables
<1>13. TablesOf(u) \subseteq TablesOf(d)
  BY <1>5 DEF TablesOf
<1>14. AwayOf(u) = AwayOf(d)
  <2> SUFFICES ASSUME NEW p \in Player
               PROVE  PairingOf(u, p).result = "bye" <=> PairingOf(d, p).result = "bye"
    BY DEF AwayOf
  <2>1. CASE p \in players \/ PairingOf(d, p).board \in boards \cap BoardId
    <3>1. PairingOf(d, p).board # None
      BY <2>1, <1>1, ConstantsAssumption DEF players, Neat, SeatsHeld
    <3>2. PairingOf(d, p).result # "bye"
      BY <3>1 DEF Neat, OneWaits
    <3>3. PairingOf(u, p).result = "none"
      BY <2>1, <1>3 DEF PairingOf
    <3> QED
      BY <3>2, <3>3
  <2>2. CASE ~(p \in players \/ PairingOf(d, p).board \in boards \cap BoardId)
    BY <2>2, <1>3 DEF PairingOf
  <2> QED
    BY <2>1, <2>2
<1> HIDE DEF u
<1> QED
  BY <1>10, <1>11, <1>12, <1>13, <1>14, MovedNeat

\* Pairings that keep their boards are written, and nobody waits or stops waiting.
LEMMA RowsNeat ==
  ASSUME NEW d, Neat(d), NEW new, DOMAIN new \subseteq Player,
         \A p \in DOMAIN new :
           /\ new[p] \in StoredPairings /\ new[p].board = PairingOf(d, p).board
           /\ new[p].result \in IF new[p].board = None THEN {"none", "bye"} ELSE {"none", "played"}
           /\ PairingOf(d, p).result # "pab",
         NEW e \in RowsOutcomes(d, d, new), Sound(e)
  PROVE  /\ Neat(e) /\ TablesOf(e) = TablesOf(d)
         /\ \A p \in Player : PairingOf(e, p) = IF p \in DOMAIN new THEN new[p] ELSE PairingOf(d, p)
<1>0. d \in Databases
  BY DEF Neat, Sound
<1>1. e = Written(d, d, new)
  BY DEF RowsOutcomes
<1>2. /\ e.board = d.board /\ BoardsOf(e) = BoardsOf(d)
      /\ \A p \in Player : PairingOf(e, p) = IF p \in DOMAIN new THEN new[p] ELSE PairingOf(d, p)
  BY <1>0, <1>1, WrittenNow
<1>3. \A p \in Player :
        /\ PairingOf(e, p).board = PairingOf(d, p).board
        /\ PairingOf(e, p).result = "pab" <=> PairingOf(d, p).result = "pab"
        /\ PairingOf(e, p).result \in
             IF PairingOf(e, p).board = None THEN {"none", "bye"} ELSE {"none", "pab", "played"}
  BY <1>2 DEF Neat, OneWaits
<1>4. \A b \in BoardsOf(d) : Seats(d.board[b]) \subseteq Player
  BY <1>0, BoardType
<1>5. SeatsHeld(e) /\ OneWaits(e) /\ Apart(e)
  BY <1>2, <1>3, <1>4 DEF Neat, SeatsHeld, OneWaits, Apart, Exempt
<1> QED
  BY <1>2, <1>5 DEF Neat, TablesOf

LEMMA PermuteNeat ==
  ASSUME NEW d, Neat(d), NEW b \in BoardsOf(d), ~Exempt(d, b),
         NEW e \in PermuteOutcomes(d, d, b), Sound(e)
  PROVE  Neat(e) /\ TablesOf(e) = TablesOf(d) /\ AwayOf(e) = AwayOf(d)
<1> DEFINE board == [d.board[b] EXCEPT !.white = d.board[b].black, !.black = d.board[b].white]
<1>0. d \in Databases
  BY DEF Neat, Sound
<1>1. /\ b \in BoardId /\ d.board[b] \in StoredBoards /\ d.board[b] # None
      /\ d.board[b].white \in Player /\ d.board[b].black # None
  BY <1>0, BoardType DEF Exempt, BoardsOf
<1>2. /\ board \in StoredBoards /\ board.index = d.board[b].index
      /\ board.white = d.board[b].black /\ board.black = d.board[b].white
      /\ Seats(board) = Seats(d.board[b]) /\ board.black # None
  BY <1>1, ConstantsAssumption DEF StoredBoards, Seats
<1>3. e = BoardUpdated(d, b, board)
  BY DEF PermuteOutcomes
<1> HIDE DEF board
<1>4. /\ e.pairing = d.pairing
      /\ \A x \in BoardId : e.board[x] = IF x = b THEN board ELSE d.board[x]
  BY <1>0, <1>1, <1>3 DEF BoardUpdated, Databases
<1>5. BoardsOf(e) = BoardsOf(d)
  BY <1>1, <1>2, <1>4, NoneAssumption DEF BoardsOf
<1>6. \A x \in BoardsOf(d) :
        /\ Seats(e.board[x]) = Seats(d.board[x]) /\ e.board[x].index = d.board[x].index
        /\ e.board[x].black = None <=> d.board[x].black = None
        /\ e.board[x].white # e.board[x].black
  BY <1>1, <1>2, <1>4 DEF BoardsOf, Neat, SeatsHeld
<1>7. \A p \in Player : PairingOf(e, p) = PairingOf(d, p)
  BY <1>4 DEF PairingOf
<1>8. \A x \in BoardsOf(d) : Seats(d.board[x]) \subseteq Player
  BY <1>0, BoardType
<1>9. SeatsHeld(e)
  BY <1>5, <1>6, <1>7, <1>8 DEF Neat, SeatsHeld
<1>10. OneWaits(e)
  BY <1>5, <1>6, <1>7 DEF Neat, OneWaits, Exempt
<1>11. Apart(e)
  BY <1>5, <1>6 DEF Neat, Apart
<1>12. TablesOf(e) = TablesOf(d) /\ AwayOf(e) = AwayOf(d)
  BY <1>5, <1>6, <1>7 DEF TablesOf, AwayOf
<1> QED
  BY <1>9, <1>10, <1>11, <1>12 DEF Neat

-----------------------------------------------------------------------------
(* What the operations are to RoundSeating.                                *)

\* A neat database is a seating: its byes are those who wait, those free are at
\* no board, and those who need a pairing are free and not away.
LEMMA NeatSeating ==
  ASSUME NEW d, Neat(d)
  PROVE  /\ Seating!IsSeating(TablesOf(d))
         /\ \A b \in PabBoards(d) : /\ b \in BoardsOf(d)
                                    /\ d.board[b].white \in Player
                                    /\ Seats(d.board[b]) = {d.board[b].white}
                                    /\ Seats(d.board[b]) \in Seating!Waiting(TablesOf(d))
         /\ PabBoards(d) = {} => Seating!Waiting(TablesOf(d)) = {}
         /\ \A p \in Player : p \in UNION TablesOf(d) <=> PairingOf(d, p).board # None
         /\ NeedsPairing(d) = (Player \ UNION TablesOf(d)) \ AwayOf(d)
<1>0. d \in Databases
  BY DEF Neat, Sound
<1>1. \A b \in BoardsOf(d) : /\ d.board[b].white \in Player
                             /\ d.board[b].black \in Player \cup {None}
                             /\ d.board[b].white # d.board[b].black
                             /\ Seats(d.board[b]) = IF Exempt(d, b) THEN {d.board[b].white}
                                                    ELSE {d.board[b].white, d.board[b].black}
  BY <1>0, BoardType, ConstantsAssumption DEF Neat, SeatsHeld, Seats, Exempt
<1>2. PabBoards(d) = {b \in BoardsOf(d) : Exempt(d, b)}
  BY PabIsExempt
<1>3. \A a, b \in BoardsOf(d) : a = b \/ Seats(d.board[a]) \cap Seats(d.board[b]) = {}
  BY DEF Neat, SeatsHeld
<1>4. ASSUME NEW t \in Seating!Waiting(TablesOf(d))
      PROVE  \E b \in PabBoards(d) : t = Seats(d.board[b])
  <2>1. PICK b \in BoardsOf(d) : t = Seats(d.board[b])
    BY DEF Seating!Waiting, TablesOf
  <2>2. PICK p \in Player : t = {p}
    BY DEF Seating!Waiting
  <2>3. ASSUME ~Exempt(d, b) PROVE FALSE
    <3>1. d.board[b].white \in t /\ d.board[b].black \in t
      BY <2>1, <2>3, <1>1
    <3> QED
      BY <3>1, <2>2, <1>1
  <2> QED
    BY <2>1, <2>3, <1>2
<1>5. Seating!IsSeating(TablesOf(d))
  <2>1. \A t \in TablesOf(d) : \E p, q \in Player : t = {p, q}
    <3> SUFFICES ASSUME NEW b \in BoardsOf(d)
                 PROVE  \E p, q \in Player : Seats(d.board[b]) = {p, q}
      BY DEF TablesOf
    <3>1. CASE Exempt(d, b)
      <4>1. Seats(d.board[b]) = {d.board[b].white, d.board[b].white}
        BY <3>1, <1>1
      <4> QED
        BY <4>1, <1>1
    <3>2. CASE ~Exempt(d, b)
      BY <3>2, <1>1 DEF Exempt
    <3> QED
      BY <3>1, <3>2
  <2>2. \A t, u \in TablesOf(d) : t # u => t \cap u = {}
    BY <1>3 DEF TablesOf
  <2>3. \A t, u \in Seating!Waiting(TablesOf(d)) : t = u
    BY <1>2, <1>4 DEF Neat, OneWaits
  <2> QED
    BY <2>1, <2>2, <2>3 DEF Seating!IsSeating
<1>6. ASSUME NEW b \in PabBoards(d)
      PROVE  /\ b \in BoardsOf(d) /\ d.board[b].white \in Player
             /\ Seats(d.board[b]) = {d.board[b].white}
             /\ Seats(d.board[b]) \in Seating!Waiting(TablesOf(d))
  BY <1>1, <1>2 DEF Seating!Waiting, TablesOf
<1>7. ASSUME NEW p \in Player
      PROVE  p \in UNION TablesOf(d) <=> PairingOf(d, p).board # None
  <2>1. ASSUME p \in UNION TablesOf(d) PROVE PairingOf(d, p).board # None
    BY <2>1, Unseated DEF TablesOf
  <2>2. ASSUME PairingOf(d, p).board # None PROVE p \in UNION TablesOf(d)
    <3>1. PairingOf(d, p).board \in BoardsOf(d)
      BY <2>2, <1>0, PairingOfType DEF Neat, Sound, RowsSeated, BoardsOf, StoredPairings
    <3>2. p \in Seats(d.board[PairingOf(d, p).board])
      BY <2>2 DEF Neat, Sound, RowsSeated
    <3> QED
      BY <3>1, <3>2 DEF TablesOf
  <2> QED
    BY <2>1, <2>2
<1>8. ASSUME NEW p \in Player
      PROVE  p \in NeedsPairing(d) <=> p \notin UNION TablesOf(d) /\ p \notin AwayOf(d)
  <2>1. ASSUME p \in NeedsPairing(d) PROVE p \notin UNION TablesOf(d) /\ p \notin AwayOf(d)
    BY <2>1, <1>7, NeedyUnseated DEF NeedsPairing, AwayOf
  <2>2. ASSUME p \notin UNION TablesOf(d), p \notin AwayOf(d) PROVE p \in NeedsPairing(d)
    BY <2>2, <1>7 DEF NeedsPairing, AwayOf, Opponent, Neat, OneWaits
  <2> QED
    BY <2>1, <2>2
<1>9. NeedsPairing(d) \subseteq Player
  BY DEF NeedsPairing
<1> QED
  BY <1>4, <1>5, <1>6, <1>7, <1>8, <1>9

\* What an operation does to the tables and to those away.
Moves(ts, as) == TablesOf(db') = ts /\ AwayOf(db') = as

LEMMA Stays ==
  ASSUME Moves(TablesOf(db), AwayOf(db))
  PROVE  UNCHANGED Seating!seating
  BY DEF Moves, Seating!seating, TablesOf, AwayOf

LEMMA DrawMoves ==
  ASSUME Neat(db), Neat(db'), FreshIds \cap BoardsOf(db) = {}, NEW new \in Draws(db),
         Moves(TablesOf(db) \cup {Seats(new[b]) : b \in DOMAIN new},
               AwayOf(db) \ UNION {Seats(new[b]) : b \in DOMAIN new})
  PROVE  Seating!Draw \/ UNCHANGED Seating!seating
<1> DEFINE added == {Seats(new[b]) : b \in DOMAIN new}
           players == NeedsPairing(db)
<1>0. ASSUME DOMAIN new = {} PROVE UNCHANGED Seating!seating
  <2>1. added = {} /\ UNION added = {}
    BY <1>0
  <2>2. Moves(TablesOf(db), AwayOf(db))
    BY <2>1
  <2> QED
    BY <2>2, Stays
<1> SUFFICES ASSUME DOMAIN new # {} PROVE Seating!Draw
  BY <1>0
<1>1. PICK left \in {{}} \cup {{p} : p \in players} :
        /\ UNION added = players \ left
        /\ left # {} => RoundHasPab(db)
  BY DrawsSeat
<1>2. players = (Player \ UNION TablesOf(db)) \ AwayOf(db)
  BY NeatSeating
<1>3. UNION (TablesOf(db') \ TablesOf(db)) = players \ left
  <2>1. \A t \in added : t # {} /\ t \cap UNION TablesOf(db) = {}
    <3>1. \A b \in DOMAIN new : new[b].white \in Seats(new[b])
      BY DrawsFit, ConstantsAssumption DEF Seats, StoredBoards
    <3>2. \A t \in added : t # {} /\ t \subseteq players
      BY <3>1, <1>1
    <3> QED
      BY <3>2, <1>2
  <2>2. added \cap TablesOf(db) = {}
    BY <2>1
  <2>3. TablesOf(db') \ TablesOf(db) = added
    BY <2>2 DEF Moves
  <2> QED
    BY <2>3, <1>1
<1>4. AwayOf(db') = AwayOf(db)
  BY <1>1, <1>2 DEF Moves
<1>5. TablesOf(db) \subseteq TablesOf(db')
  BY DEF Moves
<1>6. Seating!IsSeating(TablesOf(db'))
  BY NeatSeating
<1>7. RoundHasPab(db) => Seating!Waiting(TablesOf(db)) # {}
  BY PabIsExempt, NeatSeating
<1> HIDE DEF added, players
<1> QED
  BY <1>1, <1>2, <1>3, <1>4, <1>5, <1>6, <1>7
     DEF Seating!Draw, Seating!Free, Seating!Seated, TablesOf, AwayOf

LEMMA PairMoves ==
  ASSUME Neat(db), NEW p \in Player, PairingOf(db, p).board = None,
         \/ /\ PabBoards(db) = {}
            /\ Moves(TablesOf(db) \cup {{p}}, AwayOf(db) \ {p})
         \/ \E b \in PabBoards(db) :
              Moves({Seats(db.board[x]) : x \in BoardsOf(db) \ {b}} \cup {{db.board[b].white, p}},
                    AwayOf(db) \ {p})
  PROVE  Seating!Next
<1>1. p \in Player \ UNION TablesOf(db)
  BY NeatSeating
<1>2. CASE PabBoards(db) = {} /\ Moves(TablesOf(db) \cup {{p}}, AwayOf(db) \ {p})
  <2>1. Seating!Waiting(TablesOf(db)) = {}
    BY <1>2, NeatSeating
  <2>2. Seating!Wait(p)
    BY <1>1, <1>2, <2>1
       DEF Moves, Seating!Wait, Seating!Free, Seating!Seated, TablesOf, AwayOf
  <2> QED
    BY <2>2 DEF Seating!Next
<1>3. ASSUME NEW b \in PabBoards(db),
             Moves({Seats(db.board[x]) : x \in BoardsOf(db) \ {b}} \cup {{db.board[b].white, p}},
                   AwayOf(db) \ {p})
      PROVE  Seating!Next
  <2> DEFINE t == Seats(db.board[b])
  <2>1. /\ b \in BoardsOf(db) /\ t = {db.board[b].white}
        /\ t \in Seating!Waiting(TablesOf(db))
    BY NeatSeating
  <2>a. \A x \in BoardsOf(db) \ {b} : Seats(db.board[x]) # t
    BY <2>1 DEF Neat, SeatsHeld
  <2>2. {Seats(db.board[x]) : x \in BoardsOf(db) \ {b}} = TablesOf(db) \ {t}
    BY <2>a DEF TablesOf
  <2>3. {db.board[b].white, p} = t \cup {p}
    BY <2>1
  <2> HIDE DEF t
  <2>4. TablesOf(db') = (TablesOf(db) \ {t}) \cup {t \cup {p}} /\ AwayOf(db') = AwayOf(db) \ {p}
    BY <1>3, <2>2, <2>3 DEF Moves
  <2>5. Seating!Face(p)
    BY <1>1, <2>1, <2>4
       DEF Seating!Face, Seating!Free, Seating!Seated, TablesOf, AwayOf
  <2> QED
    BY <2>5 DEF Seating!Next
<1> QED
  BY <1>2, <1>3

LEMMA UnpairMoves ==
  ASSUME TablesOf(db') \subseteq TablesOf(db), AwayOf(db') = AwayOf(db)
  PROVE  Seating!Next
<1>1. Seating!Rise
  BY DEF Seating!Rise, TablesOf, AwayOf
<1> QED
  BY <1>1 DEF Seating!Next

LEMMA ByeMoves ==
  ASSUME Neat(db), NEW p \in Player, PairingOf(db, p).board = None,
         \/ Moves(TablesOf(db), AwayOf(db) \cup {p})
         \/ Moves(TablesOf(db), AwayOf(db) \ {p})
  PROVE  Seating!Next
<1>1. p \in Player \ UNION TablesOf(db)
  BY NeatSeating
<1>2. Seating!Leave(p) \/ Seating!Return(p)
  BY <1>1 DEF Moves, Seating!Leave, Seating!Return, Seating!Free, Seating!Seated, TablesOf, AwayOf
<1> QED
  BY <1>2 DEF Seating!Next

-----------------------------------------------------------------------------
(* The requests.                                                           *)

LEMMA InitSerial == Init => SerialInv
<1> SUFFICES ASSUME Init PROVE SerialInv
  OBVIOUS
<1>1. Inv /\ Sound(db) /\ db = Nothing /\ BoardsOf(db) = {}
  BY InitInv, NothingSound DEF Init
<1>2. OneWaits(Nothing)
  BY NothingSound DEF OneWaits, PairingOf, Nothing
<1> QED
  BY <1>1, <1>2 DEF Init, SerialInv, Neat, SeatsHeld, OneWaits, Apart

\* A handler that does not await writes one of the outcomes, or nothing happens.
LEMMA SerialHandle ==
  ASSUME ~Concurrent, SerialInv, Inv', NEW c \in Client, NEW op \in Operations,
         NEW p \in Player \cup {None}, NEW b \in BoardId \cup {None},
         NEW STATE outcomes, Handle(c, op, p, b, outcomes),
         \A e \in outcomes : Sound(e) => Neat(e)
  PROVE  SerialInv' /\ db' \in outcomes /\ Sound(db') /\ Neat(db')
<1>1. db' \in outcomes /\ req' = req
  BY DEF Handle
<1>2. Sound(db') /\ Neat(db')
  BY <1>1 DEF Inv
<1> QED
  BY <1>1, <1>2 DEF SerialInv

LEMMA SerialNext ==
  ASSUME ~Concurrent, FreshPages, SerialInv, [Next]_vars
  PROVE  SerialInv' /\ [Seating!Next]_(Seating!seating)
<1>0. /\ Inv' /\ Neat(db) /\ View = db /\ FreshIds \cap BoardsOf(db) = {}
      /\ None \in Player \cup {None} /\ None \in BoardId \cup {None}
      /\ db \in Databases
  BY NextInv, NeatLoaded, FreshFacts DEF SerialInv, View, Neat, Sound
<1>1. CASE FollowOn
  BY <1>0, <1>1, Stays DEF FollowOn, SerialInv, Moves
<1>2. CASE UNCHANGED vars
  BY <1>0, <1>2, Stays DEF vars, SerialInv, Moves
<1>3. ASSUME NEW c \in Client, Draw(c) PROVE SerialInv' /\ [Seating!Next]_(Seating!seating)
  <2>1. \A e \in DrawOutcomes(View, db) : Sound(e) => Neat(e)
    BY <1>0, DrawNeat
  <2>2. SerialInv' /\ db' \in DrawOutcomes(db, db) /\ Sound(db') /\ Neat(db')
    BY <1>0, <1>3, <2>1, SerialHandle DEF Draw, Operations
  <2>3. \E new \in Draws(db) :
          Moves(TablesOf(db) \cup {Seats(new[b]) : b \in DOMAIN new},
                AwayOf(db) \ UNION {Seats(new[b]) : b \in DOMAIN new})
    BY <1>0, <2>2, DrawNeat DEF Moves
  <2>4. Seating!Draw \/ UNCHANGED Seating!seating
    BY <1>0, <2>2, <2>3, DrawMoves
  <2> QED
    BY <2>2, <2>4 DEF Seating!Next
<1>4. ASSUME NEW c \in Client, Complete(c) PROVE SerialInv' /\ [Seating!Next]_(Seating!seating)
  <2>1. \A e \in DrawOutcomes(View, db) : Sound(e) => Neat(e)
    BY <1>0, DrawNeat
  <2>2. SerialInv' /\ db' \in DrawOutcomes(db, db) /\ Sound(db') /\ Neat(db')
    BY <1>0, <1>4, <2>1, SerialHandle DEF Complete, Operations
  <2>3. \E new \in Draws(db) :
          Moves(TablesOf(db) \cup {Seats(new[b]) : b \in DOMAIN new},
                AwayOf(db) \ UNION {Seats(new[b]) : b \in DOMAIN new})
    BY <1>0, <2>2, DrawNeat DEF Moves
  <2>4. Seating!Draw \/ UNCHANGED Seating!seating
    BY <1>0, <2>2, <2>3, DrawMoves
  <2> QED
    BY <2>2, <2>4 DEF Seating!Next
<1>5. ASSUME NEW c \in Client, NEW p \in Player, Pair(c, p) PROVE SerialInv' /\ [Seating!Next]_(Seating!seating)
  <2>1. PairingOf(db, p).board = None
    BY <1>0, <1>5 DEF Pair, CanPair
  <2>2. \A e \in PairOutcomes(View, db, p) : Sound(e) => Neat(e)
    BY <1>0, <2>1, PairNeat
  <2>3. SerialInv' /\ db' \in PairOutcomes(db, db, p) /\ Sound(db')
    BY <1>0, <1>5, <2>2, SerialHandle DEF Pair, Operations
  <2>4. \/ /\ PabBoards(db) = {}
           /\ Moves(TablesOf(db) \cup {{p}}, AwayOf(db) \ {p})
        \/ \E b \in PabBoards(db) :
             Moves({Seats(db.board[x]) : x \in BoardsOf(db) \ {b}} \cup {{db.board[b].white, p}},
                   AwayOf(db) \ {p})
    BY <1>0, <2>1, <2>3, PairNeat DEF Moves
  <2>5. Seating!Next
    BY <1>0, <2>1, <2>4, PairMoves
  <2> QED
    BY <2>3, <2>5
<1>6. ASSUME NEW c \in Client, NEW b \in BoardId, Unpair(c, b) PROVE SerialInv' /\ [Seating!Next]_(Seating!seating)
  <2>1. {b} \in SUBSET BoardsOf(db)
    BY <1>0, <1>6 DEF Unpair
  <2>2. \A e \in UnpairOutcomes(View, db, {b}) : Sound(e) => Neat(e)
    BY <1>0, <2>1, UnpairNeat
  <2>3. SerialInv' /\ db' \in UnpairOutcomes(db, db, {b})
    BY <1>0, <1>6, <2>2, SerialHandle DEF Unpair, Operations
  <2>4. Seating!Next
    BY <1>0, <2>1, <2>3, UnpairNeat, UnpairMoves
  <2> QED
    BY <2>3, <2>4
<1>7. ASSUME NEW c \in Client, UnpairRound(c) PROVE SerialInv' /\ [Seating!Next]_(Seating!seating)
  <2>1. \A e \in UnpairOutcomes(View, db, BoardsOf(View)) : Sound(e) => Neat(e)
    BY <1>0, UnpairNeat
  <2>2. SerialInv' /\ db' \in UnpairOutcomes(db, db, BoardsOf(db))
    BY <1>0, <1>7, <2>1, SerialHandle DEF UnpairRound, Operations
  <2>3. Seating!Next
    BY <1>0, <2>2, UnpairNeat, UnpairMoves
  <2> QED
    BY <2>2, <2>3
<1>8. ASSUME NEW c \in Client, NEW p \in Player, Bye(c, p) PROVE SerialInv' /\ [Seating!Next]_(Seating!seating)
  <2>1. PICK x \in {"bye", "none"} :
          Handle(c, "bye", p, None, RowsOutcomes(View, db, ByeRows(View, p, x)))
    BY <1>8 DEF Bye
  <2>2. PairingOf(db, p).result # "pab" /\ PairingOf(db, p).board = None
    BY <1>0, <1>8 DEF Bye, Unpaired, Neat, OneWaits
  <2>3. /\ DOMAIN ByeRows(db, p, x) = {p}
        /\ ByeRows(db, p, x)[p] \in StoredPairings
        /\ ByeRows(db, p, x)[p].board = None
        /\ ByeRows(db, p, x)[p].result = x
    BY <1>0, <2>2, PairingOfType DEF ByeRows, StoredPairings, Results
  <2>4. \A e \in RowsOutcomes(View, db, ByeRows(View, p, x)) : Sound(e) => Neat(e)
    BY <1>0, <2>2, <2>3, RowsNeat
  <2>5. SerialInv' /\ db' \in RowsOutcomes(db, db, ByeRows(db, p, x)) /\ Sound(db')
    BY <1>0, <2>1, <2>4, SerialHandle DEF Operations
  <2>6. /\ TablesOf(db') = TablesOf(db)
        /\ \A q \in Player : PairingOf(db', q) =
             IF q = p THEN ByeRows(db, p, x)[p] ELSE PairingOf(db, q)
    BY <1>0, <2>2, <2>3, <2>5, RowsNeat
  <2>7. AwayOf(db') = IF x = "bye" THEN AwayOf(db) \cup {p} ELSE AwayOf(db) \ {p}
    BY <2>3, <2>6 DEF AwayOf
  <2>8. Seating!Next
    BY <1>0, <2>2, <2>6, <2>7, ByeMoves DEF Moves
  <2> QED
    BY <2>5, <2>8
<1>9. ASSUME NEW c \in Client, NEW b \in BoardId, Result(c, b) PROVE SerialInv' /\ [Seating!Next]_(Seating!seating)
  <2>1. PICK x \in {"played", "none"} :
          Handle(c, "result", None, b, RowsOutcomes(View, db, ResultRows(View, b, x)))
    BY <1>9 DEF Result
  <2>2. b \in BoardsOf(db) /\ Seats(db.board[b]) \subseteq Player
    BY <1>0, <1>9, BoardType DEF Result
  <2>3. \A q \in Seats(db.board[b]) :
          PairingOf(db, q).result # "pab" /\ PairingOf(db, q).board # None
    BY <1>0, <1>9, <2>2, ConstantsAssumption DEF Result, Neat, SeatsHeld, Exempt
  <2>4. /\ DOMAIN ResultRows(db, b, x) = Seats(db.board[b])
        /\ \A q \in Seats(db.board[b]) :
             /\ ResultRows(db, b, x)[q] \in StoredPairings
             /\ ResultRows(db, b, x)[q].board = PairingOf(db, q).board
             /\ ResultRows(db, b, x)[q].result = x
    BY <1>0, <2>2, PairingOfType DEF ResultRows, StoredPairings, Results
  <2>5. \A e \in RowsOutcomes(View, db, ResultRows(View, b, x)) : Sound(e) => Neat(e)
    BY <1>0, <2>2, <2>3, <2>4, RowsNeat
  <2>6. SerialInv' /\ db' \in RowsOutcomes(db, db, ResultRows(db, b, x)) /\ Sound(db')
    BY <1>0, <2>1, <2>5, SerialHandle DEF Operations
  <2>7. /\ TablesOf(db') = TablesOf(db)
        /\ \A q \in Player : PairingOf(db', q) =
             IF q \in Seats(db.board[b]) THEN ResultRows(db, b, x)[q] ELSE PairingOf(db, q)
    BY <1>0, <2>2, <2>3, <2>4, <2>6, RowsNeat
  <2>8. \A q \in Seats(db.board[b]) : PairingOf(db, q).result # "bye"
    BY <1>0, <2>2, <2>3 DEF Neat, OneWaits
  <2>9. AwayOf(db') = AwayOf(db)
    BY <2>4, <2>7, <2>8 DEF AwayOf
  <2> QED
    BY <2>6, <2>7, <2>9, Stays DEF Moves
<1>10. ASSUME NEW c \in Client, NEW b \in BoardId, Permute(c, b) PROVE SerialInv' /\ [Seating!Next]_(Seating!seating)
  <2>1. b \in BoardsOf(db) /\ ~Exempt(db, b)
    BY <1>0, <1>10 DEF Permute
  <2>2. \A e \in PermuteOutcomes(View, db, b) : Sound(e) => Neat(e)
    BY <1>0, <2>1, PermuteNeat
  <2>3. SerialInv' /\ db' \in PermuteOutcomes(db, db, b) /\ Sound(db')
    BY <1>0, <1>10, <2>2, SerialHandle DEF Permute, Operations
  <2>4. Moves(TablesOf(db), AwayOf(db))
    BY <1>0, <2>1, <2>3, PermuteNeat DEF Moves
  <2> QED
    BY <2>3, <2>4, Stays
<1>11. ASSUME NEW c \in Client, Resume(c) \/ Broken(c) \/ Refused(c) PROVE SerialInv' /\ [Seating!Next]_(Seating!seating)
  <2>1. req[c] = Idle /\ req[c].op = "idle"
    BY DEF SerialInv, Idle
  <2>2. Resumed(req[c], db) = {} /\ DOMAIN AboutToWrite(req[c]) = {}
    BY <2>1 DEF Resumed, AboutToWrite
  <2> QED
    BY <1>11, <2>1, <2>2 DEF Resume, Broken, Refused, Writable
<1> QED
  BY <1>1, <1>2, <1>3, <1>4, <1>5, <1>6, <1>7, <1>8, <1>9, <1>10, <1>11 DEF Next

LEMMA SerialAlways ==
  ASSUME ~Concurrent, FreshPages
  PROVE  Spec => []SerialInv
<1>1. SerialInv /\ [Next]_vars => SerialInv'
  BY SerialNext
<1> QED
  BY <1>1, InitSerial, PTL DEF Spec

\* One request after the other and pages up to date: whoever a board seats has
\* their pairing at it, so that nobody is at two boards and no board is lost from
\* sight, whatever is drawn, paired, unpaired and corrected, for any number of
\* players.
THEOREM SeatsHaveRows ==
  ASSUME ~Concurrent, FreshPages
  PROVE  Spec => []SeatHasRow
<1>1. SerialInv => SeatHasRow
  BY DEF SerialInv, Neat, SeatsHeld, SeatHasRow
<1> QED
  BY <1>1, SerialAlways, PTL

\* Then no table is given twice, and the games are at the tables there are: a
\* table is found for whoever waits, since two players sit at each of the others.
THEOREM TablesDistinct ==
  ASSUME ~Concurrent, FreshPages
  PROVE  Spec => []DistinctTables
<1>1. SerialInv => DistinctTables
  BY GamesInTables DEF SerialInv, Neat, Apart, DistinctTables
<1> QED
  BY <1>1, SerialAlways, PTL

\* And whoever is alone at a board has the bye of the round, whoever has it is
\* alone at a board, and that is one player at most.
THEOREM ByesAreAlone ==
  ASSUME ~Concurrent, FreshPages
  PROVE  Spec => []ByeIsAlone
<1>1. ASSUME SerialInv PROVE ByeIsAlone
  <2>1. Neat(db) /\ db \in Databases
    BY <1>1 DEF SerialInv, Neat, Sound
  <2>2. PabBoards(db) = {b \in BoardsOf(db) : Exempt(db, b)}
    BY <2>1, PabIsExempt
  <2>3. ASSUME NEW p \in Player, PairingOf(db, p).result = "pab"
        PROVE  PairingOf(db, p).board # None /\ Exempt(db, PairingOf(db, p).board)
    <3> DEFINE b == PairingOf(db, p).board
    <3>1. b # None
      BY <2>1, <2>3 DEF Neat, OneWaits
    <3>2. b \in BoardsOf(db) /\ p \in Seats(db.board[b])
      BY <2>1, <3>1, PairingOfType DEF Neat, Sound, RowsSeated, BoardsOf, StoredPairings
    <3> QED
      BY <2>1, <2>3, <3>1, <3>2 DEF Neat, SeatsHeld, Exempt
  <2>4. Cardinality(PabBoards(db)) <= 1
    <3>1. CASE PabBoards(db) = {}
      BY <3>1, FS_EmptySet
    <3>2. ASSUME NEW b \in PabBoards(db) PROVE Cardinality(PabBoards(db)) <= 1
      <4>1. PabBoards(db) = {b}
        BY <2>1, <2>2 DEF Neat, OneWaits
      <4> QED
        BY <4>1, FS_Singleton
    <3> QED
      BY <3>1, <3>2
  <2> QED
    BY <2>2, <2>3, <2>4 DEF ByeIsAlone
<1> QED
  BY <1>1, SerialAlways, PTL

\* One request after the other and pages up to date: every operation of the code,
\* with the rows, the tables and the identifiers it handles, is one of RoundSeating
\* on who sits with whom, or leaves that as it is.
THEOREM SeatingImplemented ==
  ASSUME ~Concurrent, FreshPages
  PROVE  Spec => SeatingSpec
<1>1. Init => Seating!Init
  <2> SUFFICES ASSUME Init PROVE Seating!Init
    OBVIOUS
  <2>1. db = Nothing /\ BoardsOf(db) = {}
    BY NothingSound DEF Init
  <2>2. \A p \in Player : PairingOf(db, p).result = "none"
    BY <2>1 DEF PairingOf, Nothing
  <2> QED
    BY <2>1, <2>2 DEF Seating!Init
<1>2. SerialInv /\ [Next]_vars => [Seating!Next]_(Seating!seating)
  BY SerialNext
<1> QED
  BY <1>1, <1>2, SerialAlways, PTL DEF Spec, SeatingSpec, Seating!Spec

\* The boards, the byes asked for and the pairings of the code thus stay seemly:
\* nobody is at two tables, nobody who asked for a bye is at one, and one player
\* at most waits for an opponent, whatever draws, manual pairings, unpairings and
\* byes follow one another.
THEOREM SeatedSeemly ==
  ASSUME ~Concurrent, FreshPages
  PROVE  Spec => []Seating!Seemly
<1>1. ASSUME SerialInv PROVE Seating!Seemly
  <2>1. Neat(db)
    BY <1>1 DEF SerialInv
  <2>2. Seating!IsSeating(TablesOf(db))
    BY <2>1, NeatSeating
  <2>3. \A p \in AwayOf(db) : p \notin UNION TablesOf(db)
    <3>1. \A p \in AwayOf(db) : PairingOf(db, p).board = None
      BY <2>1 DEF AwayOf, Neat, OneWaits
    <3> QED
      BY <2>1, <3>1, NeatSeating DEF AwayOf
  <2> QED
    BY <2>2, <2>3 DEF Seating!Seemly, Seating!Seated, TablesOf, AwayOf
<1> QED
  BY <1>1, SerialAlways, PTL

-----------------------------------------------------------------------------
(* The numbers of the boards, for any round.                               *)

\* A round compute_round_board_numbers may be given: no two boards have one
\* place, none comes before the first number, and tables are numbers.
IsRound(round, first) ==
  /\ \A b \in DOMAIN round :
       round[b].standard \in Nat /\ round[b].standard >= first /\ round[b].fixed \in Nat
  /\ \A a, b \in DOMAIN round : round[a].standard = round[b].standard => a = b

\* How many numbers before x are not taken, from the first one.
FreeBefore(T, first, x) == Cardinality((first..x - 1) \ T)

LEMMA FreeNat ==
  ASSUME NEW T, NEW first \in Nat, NEW x \in Nat
  PROVE  FreeBefore(T, first, x) \in Nat /\ IsFiniteSet((first..x - 1) \ T)
<1>1. IsFiniteSet(first..x - 1)
  BY FS_Interval
<1>2. IsFiniteSet((first..x - 1) \ T)
  BY <1>1, FS_Difference
<1> QED
  BY <1>2, FS_CardinalityType DEF FreeBefore

LEMMA FreeNext ==
  ASSUME NEW T, NEW first \in Nat, NEW x \in Nat, x >= first
  PROVE  FreeBefore(T, first, x + 1) =
           FreeBefore(T, first, x) + (IF x \in T THEN 0 ELSE 1)
<1> DEFINE S == (first..x - 1) \ T
<1>0. IsFiniteSet(S) /\ Cardinality(S) \in Nat
  BY FreeNat DEF FreeBefore
<1>1. IsFiniteSet(S) /\ Cardinality(S) \in Nat /\ x \notin S
  BY <1>0
<1>2. CASE x \in T
  <2>1. (first..(x + 1) - 1) \ T = S
    BY <1>2
  <2> QED
    BY <1>1, <1>2, <2>1 DEF FreeBefore
<1>3. CASE x \notin T
  <2>1. (first..(x + 1) - 1) \ T = S \cup {x}
    BY <1>3
  <2>2. Cardinality(S \cup {x}) = Cardinality(S) + 1
    BY <1>1, FS_AddElement
  <2> QED
    BY <1>3, <2>1, <2>2 DEF FreeBefore
<1> QED
  BY <1>2, <1>3

LEMMA FreeMonotone ==
  ASSUME NEW T, NEW first \in Nat, NEW x \in Nat, NEW y \in Nat, x <= y
  PROVE  FreeBefore(T, first, x) <= FreeBefore(T, first, y)
<1>1. IsFiniteSet((first..y - 1) \ T) /\ (first..x - 1) \ T \subseteq (first..y - 1) \ T
  BY FreeNat
<1> QED
  BY <1>1, FS_Subset DEF FreeBefore

\* Of the numbers before x, those taken are missing at most.
LEMMA FreeEnough ==
  ASSUME NEW T, IsFiniteSet(T), NEW first \in Nat, NEW n \in Nat
  PROVE  FreeBefore(T, first, first + n + Cardinality(T)) >= n
<1>1. Cardinality(T) \in Nat
  BY FS_CardinalityType
<1>2. PICK x \in Nat : x = first + n + Cardinality(T)
  BY <1>1
<1>3. PICK I : I = first..x - 1
  OBVIOUS
<1>4. IsFiniteSet(I) /\ Cardinality(I) = n + Cardinality(T)
  <2>1. PICK y \in Int : y = x - 1
    OBVIOUS
  <2>0. first \in Int
    OBVIOUS
  <2>2. /\ IsFiniteSet(first..y)
        /\ Cardinality(first..y) = IF first > y THEN 0 ELSE y - first + 1
    BY <2>0, FS_Interval, Zenon
  <2>3. first > y => n + Cardinality(T) = 0
    BY <1>1, <1>2, <2>1
  <2> QED
    BY <1>1, <1>2, <1>3, <2>1, <2>2, <2>3
<1>5. Cardinality(I \ T) = Cardinality(I) - Cardinality(I \cap T)
  BY <1>4, FS_Difference
<1>6. Cardinality(I \cap T) <= Cardinality(T) /\ Cardinality(I \cap T) \in Nat
  <2>1. I \cap T \in SUBSET T
    OBVIOUS
  <2> QED
    BY <2>1, FS_Subset, FS_CardinalityType
<1>7. Cardinality(I \ T) >= n
  BY <1>1, <1>4, <1>5, <1>6
<1> QED
  BY <1>2, <1>3, <1>7 DEF FreeBefore

\* There is an n-th number that is not taken, within the bound NthFree looks in.
LEMMA NthFreeExists ==
  ASSUME NEW round, NEW first \in Nat, NEW n \in Nat, IsFiniteSet(Taken(round)),
         NEW x, x = NthFree(round, first, n)
  PROVE  /\ x \in Nat /\ x >= first /\ x \notin Taken(round)
         /\ FreeBefore(Taken(round), first, x) = n
<1>0. PICK T : T = Taken(round) /\ IsFiniteSet(T)
  OBVIOUS
<1>1. Cardinality(T) \in Nat
  BY <1>0, FS_CardinalityType
<1>2. PICK last \in Nat : last = first + n + Cardinality(T)
  BY <1>1
<1> DEFINE Many == {y \in Nat : y >= first /\ FreeBefore(T, first, y) >= n + 1}
<1>3. last + 1 \in Many
  <2>1. last + 1 = first + (n + 1) + Cardinality(T) /\ n + 1 \in Nat
    BY <1>1, <1>2
  <2>2. FreeBefore(T, first, last + 1) >= n + 1
    BY <1>0, <2>1, FreeEnough
  <2> QED
    BY <1>1, <1>2, <2>2
<1>4. Many \in SUBSET Nat /\ Many # {}
  BY <1>3
<1> HIDE DEF Many
<1>5. PICK z \in Many : \A y \in Many : z <= y
  BY <1>4, LeastNatural, Zenon
<1>6. z \in Nat /\ z >= first /\ FreeBefore(T, first, z) >= n + 1
  BY DEF Many
<1>7. z # first
  <2>1. (first..first - 1) \ T = {}
    BY Z3
  <2>2. FreeBefore(T, first, first) = 0
    BY <2>1, FS_EmptySet DEF FreeBefore
  <2> QED
    BY <1>6, <2>2
<1>8. PICK w \in Nat : w = z - 1 /\ w >= first /\ z = w + 1
  BY <1>6, <1>7
<1>9. FreeBefore(T, first, w) \in Nat
  BY FreeNat
<1>10. FreeBefore(T, first, w) <= n
  <2>1. w \notin Many
    BY <1>4, <1>5, <1>8
  <2>2. ~(FreeBefore(T, first, w) >= n + 1)
    BY <1>8, <2>1 DEF Many
  <2> QED
    BY <1>9, <2>2
<1>11. FreeBefore(T, first, z) = FreeBefore(T, first, w) + (IF w \in T THEN 0 ELSE 1)
  BY <1>8, FreeNext
<1>12. w \notin T /\ FreeBefore(T, first, w) = n
  BY <1>6, <1>9, <1>10, <1>11
<1>13. w \in first..first + n + Cardinality(T)
  BY <1>1, <1>2, <1>3, <1>4, <1>5, <1>8
<1>14. \E y \in first..first + n + Cardinality(T) :
         y \notin T /\ Cardinality((first..y - 1) \ T) = n
  BY <1>12, <1>13 DEF FreeBefore
<1>15. /\ x \in first..first + n + Cardinality(T) /\ x \notin T
       /\ Cardinality((first..x - 1) \ T) = n
  BY <1>0, <1>14 DEF NthFree
<1> QED
  BY <1>0, <1>1, <1>15 DEF FreeBefore

\* How many places are open before that of board b.
Rank(round, first, b) == Cardinality({s \in Open(round, first) : s < round[b].standard})

\* A place comes before another when fewer places are open before it.
LEMMA RankBefore ==
  ASSUME NEW round, NEW first \in Nat, IsRound(round, first),
         NEW a \in DOMAIN round, NEW b \in DOMAIN round
  PROVE  /\ Rank(round, first, b) \in Nat
         /\ b \notin Honoured(round) /\ round[b].standard < round[a].standard =>
              Rank(round, first, b) < Rank(round, first, a)
<1> DEFINE below(c) == {s \in Open(round, first) : s < round[c].standard}
<1>1. Open(round, first) \subseteq Nat
  BY DEF Open, Holes, Places, IsRound
<1>2. \A c \in DOMAIN round : below(c) \subseteq 0..round[c].standard
  BY <1>1 DEF IsRound
<1>3. \A c \in DOMAIN round : IsFiniteSet(below(c)) /\ Cardinality(below(c)) \in Nat
  <2> SUFFICES ASSUME NEW c \in DOMAIN round
               PROVE  IsFiniteSet(below(c)) /\ Cardinality(below(c)) \in Nat
    OBVIOUS
  <2>1. IsFiniteSet(0..round[c].standard)
    BY FS_Interval DEF IsRound
  <2> QED
    BY <1>2, <2>1, FS_Subset, FS_CardinalityType
<1>4. ASSUME b \notin Honoured(round), round[b].standard < round[a].standard
      PROVE  Cardinality(below(b)) < Cardinality(below(a))
  <2>1. round[b].standard \in Open(round, first)
    BY <1>4 DEF Open
  <2>2. round[b].standard \in below(a) \ below(b) /\ below(b) \subseteq below(a)
    BY <1>1, <1>4, <2>1 DEF IsRound
  <2> HIDE DEF below
  <2>3. below(b) # below(a)
    BY <2>2
  <2> QED
    BY <1>3, <2>2, <2>3, FS_Subset
<1>5. Rank(round, first, a) = Cardinality(below(a)) /\ Rank(round, first, b) = Cardinality(below(b))
  BY DEF Rank
<1> HIDE DEF below
<1> QED
  BY <1>3, <1>4, <1>5

\* As many images as elements, when no two have the same.
LEMMA ImageCount ==
  ASSUME NEW S, IsFiniteSet(S), NEW f, NEW T, T = {f[x] : x \in S}
  PROVE  /\ IsFiniteSet(T) /\ Cardinality(T) \in Nat
         /\ (\A x, y \in S : f[x] = f[y] => x = y) => Cardinality(T) = Cardinality(S)
<1>1. PICK g : g = [x \in S |-> f[x]]
  OBVIOUS
<1>2. g \in Surjection(S, T)
  BY <1>1 DEF Surjection
<1>3. IsFiniteSet(T) /\ (Cardinality(T) = Cardinality(S) <=> g \in Injection(S, T))
  BY <1>2, FS_Surjection
<1>4. (\A x, y \in S : f[x] = f[y] => x = y) => g \in Injection(S, T)
  BY <1>1 DEF Injection, IsInjective
<1> QED
  BY <1>3, <1>4, FS_CardinalityType

\* No two boards have the table they asked for, and finitely many have it.
LEMMA HonouredApart ==
  ASSUME NEW round, NEW first \in Nat, IsRound(round, first), IsFiniteSet(DOMAIN round)
  PROVE  /\ IsFiniteSet(Honoured(round)) /\ IsFiniteSet(Taken(round))
         /\ Cardinality(Taken(round)) = Cardinality(Honoured(round))
         /\ \A a, b \in Honoured(round) : round[a].fixed = round[b].fixed => a = b
<1>1. IsFiniteSet(Honoured(round))
  <2>1. Honoured(round) \in SUBSET DOMAIN round
    BY DEF Honoured
  <2> QED
    BY <2>1, FS_Subset
<1>2. ASSUME NEW a \in Honoured(round), NEW b \in Honoured(round),
             round[a].fixed = round[b].fixed
      PROVE  a = b
  <2>1. a \in DOMAIN round /\ b \in DOMAIN round
    BY DEF Honoured
  <2>2. ~Before(round, a, b) /\ ~Before(round, b, a)
    BY <1>2, <2>1 DEF Honoured
  <2> QED
    BY <2>1, <2>2 DEF Before, IsRound
<1>3. PICK f : f = [b \in Honoured(round) |-> round[b].fixed]
  OBVIOUS
<1>4. Taken(round) = {f[b] : b \in Honoured(round)}
  BY <1>3 DEF Taken
<1>5. \A a, b \in Honoured(round) : f[a] = f[b] => a = b
  BY <1>2, <1>3
<1>6. IsFiniteSet(Taken(round)) /\ Cardinality(Taken(round)) = Cardinality(Honoured(round))
  BY <1>1, <1>4, <1>5, ImageCount
<1> QED
  BY <1>1, <1>2, <1>6

\* The numbers when holes are not left.
Shown(round, first) == Numbers(round, first, FALSE)

\* The number of a board: the one it asked for, or the one that is left to it.
LEMMA NumberOf ==
  ASSUME NEW round, NEW first \in Nat, IsRound(round, first), IsFiniteSet(DOMAIN round),
         NEW b \in DOMAIN round, NEW number, number = Shown(round, first)
  PROVE  /\ b \in Honoured(round) => number[b] = round[b].fixed /\ number[b] \in Taken(round)
         /\ b \notin Honoured(round) =>
              /\ number[b] \in Nat /\ number[b] >= first /\ number[b] \notin Taken(round)
              /\ FreeBefore(Taken(round), first, number[b]) = Rank(round, first, b)
<1>1. CASE b \in Honoured(round)
  BY <1>1 DEF Shown, Numbers, Taken
<1>2. CASE b \notin Honoured(round)
  <2>1. PICK n \in Nat : n = Rank(round, first, b)
    BY RankBefore
  <2>2. number[b] = NthFree(round, first, n)
    BY <1>2, <2>1 DEF Shown, Numbers, Rank
  <2>3. IsFiniteSet(Taken(round))
    BY HonouredApart
  <2>4. PICK x : x = number[b]
    OBVIOUS
  <2>5. x \in Nat /\ x >= first /\ x \notin Taken(round) /\ FreeBefore(Taken(round), first, x) = n
    BY <2>2, <2>3, <2>4, NthFreeExists
  <2> QED
    BY <1>2, <2>1, <2>4, <2>5
<1> QED
  BY <1>1, <1>2

\* compute_round_board_numbers never shows two boards under one number, whatever
\* their players asked for and whatever was taken out of the round.
THEOREM NumbersApart ==
  ASSUME NEW round, NEW first \in Nat, IsRound(round, first), IsFiniteSet(DOMAIN round),
         NEW number, number = Shown(round, first),
         NEW a \in DOMAIN round, NEW b \in DOMAIN round, number[a] = number[b]
  PROVE  a = b
<1>1. \A c \in DOMAIN round :
        /\ c \in Honoured(round) => number[c] = round[c].fixed /\ number[c] \in Taken(round)
        /\ c \notin Honoured(round) =>
             /\ number[c] \notin Taken(round)
             /\ FreeBefore(Taken(round), first, number[c]) = Rank(round, first, c)
  BY NumberOf
<1>2. CASE a \in Honoured(round) /\ b \in Honoured(round)
  BY <1>1, <1>2, HonouredApart
<1>3. CASE a \notin Honoured(round) /\ b \notin Honoured(round)
  <2>1. Rank(round, first, a) = Rank(round, first, b)
    BY <1>1, <1>3
  <2>2. Rank(round, first, a) \in Nat /\ Rank(round, first, b) \in Nat
    BY RankBefore
  <2>3. ~(round[a].standard < round[b].standard) /\ ~(round[b].standard < round[a].standard)
    BY <1>3, <2>1, <2>2, RankBefore
  <2> QED
    BY <2>3 DEF IsRound
<1> QED
  BY <1>1, <1>2, <1>3

LEMMA NumbersCount ==
  ASSUME NEW round, NEW first \in Nat, IsRound(round, first), IsFiniteSet(DOMAIN round),
         NEW number, number = Shown(round, first),
         NEW shown, shown = {number[b] : b \in DOMAIN round}
  PROVE  IsFiniteSet(shown) /\ Cardinality(shown) = Cardinality(DOMAIN round)
<1>1. \A a, b \in DOMAIN round : number[a] = number[b] => a = b
  BY NumbersApart
<1> QED
  BY <1>1, ImageCount, SMTT(60)

LEMMA PlacesCount ==
  ASSUME NEW round, NEW first \in Nat, IsRound(round, first), IsFiniteSet(DOMAIN round)
  PROVE  /\ IsFiniteSet(Places(round))
         /\ Cardinality(Places(round)) = Cardinality(DOMAIN round)
<1>1. PICK f : f = [b \in DOMAIN round |-> round[b].standard]
  OBVIOUS
<1>2. Places(round) = {f[b] : b \in DOMAIN round}
  BY <1>1 DEF Places
<1>3. \A a, b \in DOMAIN round : f[a] = f[b] => a = b
  BY <1>1 DEF IsRound
<1>4. PICK T : T = Places(round)
  OBVIOUS
<1>5. IsFiniteSet(T) /\ Cardinality(T) = Cardinality(DOMAIN round)
  BY <1>2, <1>3, <1>4, ImageCount
<1> QED
  BY <1>4, <1>5

\* And the numbers are the first ones when nothing was taken out of the round and
\* the tables asked for are among those of the round.
THEOREM NumbersFirst ==
  ASSUME NEW round, NEW first \in Nat, IsRound(round, first), IsFiniteSet(DOMAIN round),
         NEW last \in Nat, Places(round) = first..last,
         \A b \in DOMAIN round : round[b].fixed # 0 => round[b].fixed \in first..last,
         NEW number, number = Shown(round, first)
  PROVE  {number[b] : b \in DOMAIN round} = first..last
<1>1. PICK shown : shown = {number[b] : b \in DOMAIN round}
  OBVIOUS
<1>2. IsFiniteSet(shown) /\ Cardinality(shown) = Cardinality(DOMAIN round)
  BY <1>1, NumbersCount
<1>3. /\ IsFiniteSet(first..last) /\ Cardinality(first..last) = Cardinality(DOMAIN round)
      /\ Cardinality(DOMAIN round) \in Nat
  BY PlacesCount, FS_CardinalityType
<1>4. Taken(round) \subseteq first..last
  BY DEF Taken, Honoured
<1>5. PICK standing : standing = DOMAIN round \ Honoured(round)
  OBVIOUS
<1>6. /\ IsFiniteSet(Open(round, first))
      /\ Cardinality(Open(round, first)) = Cardinality(DOMAIN round) - Cardinality(Honoured(round))
  <2>1. Holes(round, first) = {}
    BY DEF Holes
  <2>2. PICK f : f = [b \in standing |-> round[b].standard]
    OBVIOUS
  <2>3. Open(round, first) = {f[b] : b \in standing}
    BY <1>5, <2>1, <2>2 DEF Open
  <2>4. \A a, b \in standing : f[a] = f[b] => a = b
    BY <1>5, <2>2 DEF IsRound
  <2>5. /\ IsFiniteSet(standing)
        /\ Cardinality(standing) = Cardinality(DOMAIN round) - Cardinality(DOMAIN round \cap Honoured(round))
    BY <1>5, FS_Difference
  <2>6. DOMAIN round \cap Honoured(round) = Honoured(round)
    BY DEF Honoured
  <2>7. PICK free : free = Open(round, first) /\ free = {f[b] : b \in standing}
    BY <2>3
  <2>8. IsFiniteSet(free) /\ Cardinality(free) = Cardinality(standing)
    <3>1. free = {f[b] : b \in standing} /\ IsFiniteSet(standing)
      BY <2>5, <2>7
    <3> QED
      BY <2>4, <3>1, ImageCount
  <2>9. Cardinality(free) = Cardinality(DOMAIN round) - Cardinality(Honoured(round))
    BY <2>5, <2>6, <2>8
  <2> QED
    BY <2>7, <2>8, <2>9
<1>7. FreeBefore(Taken(round), first, last + 1) = Cardinality(Open(round, first))
  <2>1. Cardinality((first..last) \ Taken(round)) =
          Cardinality(first..last) - Cardinality((first..last) \cap Taken(round))
    BY <1>3, FS_Difference
  <2>2. (first..last) \cap Taken(round) = Taken(round)
    BY <1>4
  <2>3. Cardinality(Taken(round)) = Cardinality(Honoured(round))
    BY HonouredApart
  <2>4. FreeBefore(Taken(round), first, last + 1) = Cardinality((first..last) \ Taken(round))
    <3>1. (last + 1) - 1 = last
      OBVIOUS
    <3> QED
      BY <3>1 DEF FreeBefore
  <2> QED
    BY <1>3, <1>6, <2>1, <2>2, <2>3, <2>4
<1>8. ASSUME NEW b \in DOMAIN round
      PROVE  number[b] \in first..last
  <2>1. CASE b \in Honoured(round)
    BY <1>4, <2>1, NumberOf
  <2>2. CASE b \notin Honoured(round)
    <3>1. /\ number[b] \in Nat /\ number[b] >= first
          /\ FreeBefore(Taken(round), first, number[b]) = Rank(round, first, b)
      BY <2>2, NumberOf
    <3>2. Rank(round, first, b) < Cardinality(Open(round, first))
      <4>1. PICK below : below = {s \in Open(round, first) : s < round[b].standard}
        OBVIOUS
      <4>2. round[b].standard \in Open(round, first) /\ round[b].standard \notin below
        BY <2>2, <4>1 DEF Open, IsRound
      <4>3. below \in SUBSET Open(round, first) /\ below # Open(round, first)
        BY <4>1, <4>2
      <4>4. Cardinality(below) < Cardinality(Open(round, first))
        BY <1>6, <4>3, FS_Subset, FS_CardinalityType
      <4> QED
        BY <4>1, <4>4 DEF Rank
    <3>3. ~(last + 1 <= number[b])
      <4>1. /\ FreeBefore(Taken(round), first, last + 1) \in Nat
            /\ FreeBefore(Taken(round), first, number[b]) \in Nat
        <5>1. last + 1 \in Nat
          OBVIOUS
        <5> QED
          BY <3>1, <5>1, FreeNat
      <4>2. ASSUME last + 1 <= number[b] PROVE FALSE
        <5>1. FreeBefore(Taken(round), first, last + 1) <= FreeBefore(Taken(round), first, number[b])
          BY <3>1, <4>2, FreeMonotone
        <5> QED
          BY <1>7, <3>1, <3>2, <4>1, <5>1
      <4> QED
        BY <4>2
    <3> QED
      BY <3>1, <3>3
  <2> QED
    BY <2>1, <2>2
<1>9. shown \in SUBSET (first..last)
  BY <1>1, <1>8
<1> QED
  BY <1>1, <1>2, <1>3, <1>9, FS_Subset

-----------------------------------------------------------------------------
(* The numbers of the boards of the model.                                 *)

\* The boards of a neat database are a round to number.
LEMMA RoundOfNeat ==
  ASSUME NEW d, Neat(d), NEW fixed, \A b \in BoardsOf(d) : fixed[b] \in Nat,
         NEW round, round = RoundOf(d, fixed)
  PROVE  /\ IsRound(round, FirstNumber) /\ DOMAIN round = BoardsOf(d)
         /\ IsFiniteSet(BoardsOf(d))
         /\ \A b \in BoardsOf(d) : round[b].fixed = fixed[b]
                                   /\ round[b].standard = FirstNumber + d.board[b].index
<1>1. d \in Databases /\ Apart(d)
  BY DEF Neat, Sound
<1>2. \A b \in BoardsOf(d) : d.board[b].index \in 0..Tables
  BY <1>1, BoardType
<1>3. /\ DOMAIN round = BoardsOf(d)
      /\ \A b \in BoardsOf(d) : round[b].fixed = fixed[b]
                                /\ round[b].standard = FirstNumber + d.board[b].index
  BY DEF RoundOf
<1>4. IsRound(round, FirstNumber)
  BY <1>1, <1>2, <1>3, TablesNat DEF IsRound, FirstNumber, Apart
<1>5. IsFiniteSet(BoardsOf(d))
  <2>1. PICK f : f = [b \in BoardsOf(d) |-> d.board[b].index]
    OBVIOUS
  <2>2. f \in Injection(BoardsOf(d), 0..Tables)
    BY <1>1, <1>2, <2>1 DEF Injection, IsInjective, Apart
  <2>3. IsFiniteSet(0..Tables)
    BY TablesNat, FS_Interval
  <2> QED
    BY <2>2, <2>3, FS_Injection
<1> QED
  BY <1>3, <1>4, <1>5

\* One request after the other and pages up to date: no two boards are shown under
\* one number, whatever their players asked for and whatever was taken out.
THEOREM NumbersAlwaysDistinct ==
  ASSUME ~Concurrent, FreshPages
  PROVE  Spec => []NumbersDistinct
<1>1. ASSUME SerialInv, NEW fixed \in [BoardsOf(db) -> Asked]
      PROVE  LET number == RoundBoardNumbers(db, fixed)
                 shown == {number[b] : b \in BoardsOf(db)}
                 n == Cardinality(BoardsOf(db)) IN
             /\ Cardinality(shown) = n
             /\ Places(RoundOf(db, fixed)) = 1..n /\ (\A b \in BoardsOf(db) : fixed[b] <= n)
                  => shown = 1..n
  <2>1. PICK round, number : round = RoundOf(db, fixed) /\ number = Shown(round, FirstNumber)
    OBVIOUS
  <2>2. PICK shown, n : shown = {number[b] : b \in BoardsOf(db)} /\ n = Cardinality(BoardsOf(db))
    OBVIOUS
  <2>3. Neat(db) /\ \A b \in BoardsOf(db) : fixed[b] \in Nat
    BY <1>1, <2>1, <2>2 DEF SerialInv, Asked
  <2>4. /\ IsRound(round, FirstNumber) /\ DOMAIN round = BoardsOf(db)
        /\ IsFiniteSet(DOMAIN round) /\ n \in Nat
        /\ \A b \in BoardsOf(db) : round[b].fixed = fixed[b]
    BY <1>1, <2>1, <2>2, <2>3, RoundOfNeat, FS_CardinalityType
  <2>5. FirstNumber \in Nat /\ FirstNumber = 1
    BY DEF FirstNumber
  <2>6. Cardinality(shown) = n
    BY <1>1, <2>1, <2>2, <2>4, <2>5, NumbersCount
  <2>7. ASSUME Places(round) = 1..n, \A b \in BoardsOf(db) : fixed[b] <= n
        PROVE  shown = 1..n
    <3>1. \A b \in DOMAIN round : round[b].fixed # 0 => round[b].fixed \in 1..n
      BY <2>3, <2>4, <2>7
    <3> QED
      BY <1>1, <2>1, <2>2, <2>4, <2>5, <2>7, <3>1, NumbersFirst
  <2>8. number = RoundBoardNumbers(db, fixed)
    BY <2>1 DEF RoundBoardNumbers, Shown
  <2> QED
    BY <2>1, <2>2, <2>8, <2>6, <2>7
<1>2. SerialInv => NumbersDistinct
  BY <1>1 DEF NumbersDistinct
<1> QED
  BY <1>2, SerialAlways, PTL

-----------------------------------------------------------------------------
(* What the numbers of a board depend on.                                  *)

\* The places open before a board are all those before its own, but for the
\* places of the boards that have the number they asked for.
LEMMA OpenBelow ==
  ASSUME NEW round, NEW first \in Nat, IsRound(round, first), NEW b \in DOMAIN round
  PROVE  {s \in Open(round, first) : s < round[b].standard} =
           {s \in first..round[b].standard - 1 : \A g \in Given(round) : g[1] # s}
<1>1. \A c \in DOMAIN round : round[c].standard \in Nat /\ round[c].standard >= first
  BY DEF IsRound
<1>2. ASSUME NEW s \in Open(round, first), s < round[b].standard
      PROVE  s \in first..round[b].standard - 1 /\ \A g \in Given(round) : g[1] # s
  <2>1. CASE s \in Holes(round, first)
    <3>1. s \notin Places(round) /\ s \in Nat /\ s >= first
      BY <1>1, <2>1 DEF Holes, Places
    <3> QED
      BY <1>1, <1>2, <3>1 DEF Given, Places, Honoured
  <2>2. CASE s \notin Holes(round, first)
    <3>1. PICK c \in DOMAIN round \ Honoured(round) : s = round[c].standard
      BY <2>2 DEF Open
    <3>2. \A a \in Honoured(round) : round[a].standard # s
      BY <3>1 DEF IsRound, Honoured
    <3> QED
      BY <1>1, <1>2, <3>1, <3>2 DEF Given
  <2> QED
    BY <2>1, <2>2
<1>3. ASSUME NEW s \in first..round[b].standard - 1, \A g \in Given(round) : g[1] # s
      PROVE  s \in Open(round, first) /\ s < round[b].standard
  <2>1. s < round[b].standard /\ s \in first..round[b].standard
    BY <1>1
  <2>2. \A a \in Honoured(round) : round[a].standard # s
    <3> SUFFICES ASSUME NEW a \in Honoured(round) PROVE round[a].standard # s
      OBVIOUS
    <3>1. <<round[a].standard, round[a].fixed>> \in Given(round)
      BY DEF Given
    <3> QED
      BY <1>3, <3>1
  <2>3. CASE s \in Places(round)
    <3>1. PICK c \in DOMAIN round : s = round[c].standard
      BY <2>3 DEF Places
    <3> QED
      BY <2>1, <2>2, <3>1 DEF Open
  <2>4. CASE s \notin Places(round)
    <3>1. first..round[b].standard \in {first..p : p \in Places(round)}
      BY DEF Places
    <3> QED
      BY <2>1, <2>4, <3>1 DEF Open, Holes
  <2> QED
    BY <2>1, <2>3, <2>4
<1> QED
  BY <1>2, <1>3

\* "A board taken out of the round (unpaired) still holds its place": a board has
\* the same number in two rounds where it has the same place and asks for the same
\* table, so long as the tables given are the same.
THEOREM NumberDependsOn ==
  ASSUME NEW x, NEW y, NEW first \in Nat, IsRound(x, first), IsRound(y, first),
         Given(x) = Given(y), NEW b \in DOMAIN x \cap DOMAIN y, x[b] = y[b]
  PROVE  Shown(x, first)[b] = Shown(y, first)[b]
<1>1. ASSUME NEW u, NEW v, IsRound(v, first), Given(u) = Given(v),
             b \in Honoured(u), b \in DOMAIN v, u[b] = v[b]
      PROVE  b \in Honoured(v)
  <2>1. <<u[b].standard, u[b].fixed>> \in Given(v)
    BY <1>1 DEF Given
  <2>2. PICK c \in Honoured(v) : <<u[b].standard, u[b].fixed>> = <<v[c].standard, v[c].fixed>>
    BY <2>1 DEF Given
  <2>3. v[c].standard = v[b].standard /\ c \in DOMAIN v
    BY <1>1, <2>2 DEF Honoured
  <2> QED
    BY <1>1, <2>2, <2>3 DEF IsRound
<1>2. b \in Honoured(x) <=> b \in Honoured(y)
  BY <1>1
<1>3. Taken(x) = Taken(y)
  <2>1. ASSUME NEW u, NEW v, Given(u) = Given(v), NEW t \in Taken(u) PROVE t \in Taken(v)
    <3>1. PICK a \in Honoured(u) : t = u[a].fixed
      BY DEF Taken
    <3>2. <<u[a].standard, u[a].fixed>> \in Given(v)
      BY <2>1 DEF Given
    <3>3. PICK c \in Honoured(v) : <<u[a].standard, u[a].fixed>> = <<v[c].standard, v[c].fixed>>
      BY <3>2 DEF Given
    <3> QED
      BY <3>1, <3>3 DEF Taken
  <2>2. Taken(x) \subseteq Taken(y) /\ Taken(y) \subseteq Taken(x)
    BY <2>1
  <2> QED
    BY <2>2
<1>4. {s \in Open(x, first) : s < x[b].standard} = {s \in Open(y, first) : s < y[b].standard}
  <2>1. {s \in Open(x, first) : s < x[b].standard} =
           {s \in first..x[b].standard - 1 : \A g \in Given(x) : g[1] # s}
    BY OpenBelow
  <2>2. {s \in Open(y, first) : s < y[b].standard} =
           {s \in first..y[b].standard - 1 : \A g \in Given(y) : g[1] # s}
    BY OpenBelow
  <2> QED
    BY <2>1, <2>2
<1>5. \A n : NthFree(x, first, n) = NthFree(y, first, n)
  BY <1>3 DEF NthFree
<1>6. Rank(x, first, b) = Rank(y, first, b)
  BY <1>4 DEF Rank
<1>7. /\ Shown(x, first)[b] =
           IF b \in Honoured(x) THEN x[b].fixed ELSE NthFree(x, first, Rank(x, first, b))
      /\ Shown(y, first)[b] =
           IF b \in Honoured(y) THEN y[b].fixed ELSE NthFree(y, first, Rank(y, first, b))
  BY DEF Shown, Numbers, Rank
<1> QED
  BY <1>2, <1>5, <1>6, <1>7

\* One request after the other and pages up to date: a board that stays at its
\* table keeps its number, whatever is paired, unpaired, drawn or moved, so long
\* as the tables given because they were asked for are the same.
THEOREM NumbersAlwaysKept ==
  ASSUME ~Concurrent, FreshPages
  PROVE  Spec => NumbersKept
<1>1. ASSUME SerialInv, SerialInv'
      PROVE  \A fixed \in [BoardsOf(db) \cup BoardsOf(db') -> Asked] :
               Given(RoundOf(db, fixed)) = Given(RoundOf(db', fixed)) =>
                 \A b \in BoardsOf(db) \cap BoardsOf(db') :
                   db.board[b].index = db'.board[b].index =>
                     RoundBoardNumbers(db, fixed)[b] = RoundBoardNumbers(db', fixed)[b]
  <2>1. PICK d, e : d = db /\ e = db'
    OBVIOUS
  <2>2. Neat(d) /\ Neat(e)
    BY <1>1, <2>1 DEF SerialInv
  <2>3. ASSUME NEW fixed \in [BoardsOf(d) \cup BoardsOf(e) -> Asked],
               Given(RoundOf(d, fixed)) = Given(RoundOf(e, fixed)),
               NEW b \in BoardsOf(d) \cap BoardsOf(e), d.board[b].index = e.board[b].index
        PROVE  RoundBoardNumbers(d, fixed)[b] = RoundBoardNumbers(e, fixed)[b]
    <3>1. PICK x, y : x = RoundOf(d, fixed) /\ y = RoundOf(e, fixed)
      OBVIOUS
    <3>2. \A c \in BoardsOf(d) \cup BoardsOf(e) : fixed[c] \in Nat
      BY DEF Asked
    <3>3. IsRound(x, FirstNumber) /\ DOMAIN x = BoardsOf(d)
      BY <2>2, <3>1, <3>2, RoundOfNeat
    <3>4. IsRound(y, FirstNumber) /\ DOMAIN y = BoardsOf(e)
      BY <2>2, <3>1, <3>2, RoundOfNeat
    <3>5. x[b] = y[b]
      BY <2>3, <3>1 DEF RoundOf
    <3>6. Given(x) = Given(y)
      BY <2>3, <3>1
    <3>7. FirstNumber \in Nat
      BY DEF FirstNumber
    <3>8. Shown(x, FirstNumber)[b] = Shown(y, FirstNumber)[b]
      BY <3>3, <3>4, <3>5, <3>6, <3>7, NumberDependsOn
    <3> QED
      BY <3>1, <3>8 DEF RoundBoardNumbers, Shown
  <2> QED
    BY <2>1, <2>3
<1>2. SerialInv /\ SerialInv' =>
        [\A fixed \in [BoardsOf(db) \cup BoardsOf(db') -> Asked] :
               Given(RoundOf(db, fixed)) = Given(RoundOf(db', fixed)) =>
                 \A b \in BoardsOf(db) \cap BoardsOf(db') :
                   db.board[b].index = db'.board[b].index =>
                     RoundBoardNumbers(db, fixed)[b] = RoundBoardNumbers(db', fixed)[b]]_vars
  BY <1>1
<1> QED
  BY <1>2, SerialAlways, PTL DEF NumbersKept
=============================================================================
