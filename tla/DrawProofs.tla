----------------------------- MODULE DrawProofs -----------------------------
(****************************************************************************)
(* What every draw that the solver may return has in common, and what the   *)
(* edits of a draft draw preserve.                                          *)
(****************************************************************************)
EXTENDS SpeakerAllocation, SequenceTheorems, FiniteSetTheorems, TLAPS

-----------------------------------------------------------------------------
(* Edits.                                                                   *)

Draw == Seq(DraftDrawRoom)

LEMMA RoomsOfDraw ==
  ASSUME NEW rooms \in Draw
  PROVE  /\ DOMAIN rooms = 1..Len(rooms)
         /\ Len(rooms) \in Nat
         /\ \A i \in DOMAIN rooms : rooms[i] \in DraftDrawRoom
         /\ \A p \in Positions(rooms) :
              /\ p[1] \in DOMAIN rooms /\ p[2] \in Locs
              /\ p = <<p[1], p[2]>>
              /\ At(rooms, p) \subseteq Members
BY DEF Draw, Positions, At, DraftDrawRoom

LEMMA DrawOfRooms ==
  ASSUME NEW n \in Nat, NEW rooms \in [1..n -> DraftDrawRoom]
  PROVE  rooms \in Draw
BY SeqDef DEF Draw

LEMMA ReplaceAt ==
  ASSUME NEW rooms \in Draw, NEW pos \in Positions(rooms),
         NEW old \in Members, NEW new \in Members
  PROVE  LET after == Replace(rooms, pos, old, new)
         IN  /\ after \in Draw
             /\ Positions(after) = Positions(rooms)
             /\ \A p \in Positions(rooms) :
                  At(after, p) = IF p = pos THEN (At(rooms, p) \ {old}) \cup {new}
                                 ELSE At(rooms, p)
<1> DEFINE after == Replace(rooms, pos, old, new)
<1>1. after \in [1..Len(rooms) -> DraftDrawRoom]
  BY RoomsOfDraw DEF Replace, DraftDrawRoom, At
<1>2. after \in Draw
  BY <1>1, DrawOfRooms, RoomsOfDraw
<1>3. Positions(after) = Positions(rooms)
  BY <1>1, RoomsOfDraw DEF Positions
<1>4. ASSUME NEW p \in Positions(rooms)
      PROVE  At(after, p) = IF p = pos THEN (At(rooms, p) \ {old}) \cup {new}
                            ELSE At(rooms, p)
  <2>1. /\ p = <<p[1], p[2]>> /\ pos = <<pos[1], pos[2]>>
        /\ p[1] \in DOMAIN rooms /\ p[2] \in Locs
        /\ pos[1] \in DOMAIN rooms /\ pos[2] \in Locs
        /\ rooms[p[1]] \in [Locs -> SUBSET Members]
    BY RoomsOfDraw DEF DraftDrawRoom
  <2>2. CASE p[1] # pos[1]
    <3>1. after[p[1]] = rooms[p[1]]
      BY <2>1, <2>2 DEF Replace
    <3> QED
      BY <3>1, <2>2 DEF At
  <2>3. CASE p[1] = pos[1]
    <3>1. after[p[1]] = [rooms[p[1]] EXCEPT ![pos[2]] = (@ \ {old}) \cup {new}]
      BY <2>1, <2>3 DEF Replace
    <3>2. CASE p[2] = pos[2]
      <4>1. after[p[1]][p[2]] = (rooms[p[1]][p[2]] \ {old}) \cup {new}
        BY <2>1, <3>1, <3>2
      <4> QED
        BY <2>1, <2>3, <3>2, <4>1 DEF At
    <3>3. CASE p[2] # pos[2]
      <4>1. after[p[1]][p[2]] = rooms[p[1]][p[2]]
        BY <2>1, <3>1, <3>3
      <4> QED
        BY <2>1, <3>3, <4>1 DEF At
    <3> QED
      BY <3>2, <3>3
  <2> QED
    BY <2>2, <2>3
<1> QED
  BY <1>2, <1>3, <1>4

\* In a draw without double booking a member's place is the one FindLoc finds.
LEMMA FindLocFinds ==
  ASSUME NEW rooms \in Draw, NoDoubleBooking(rooms), NEW m \in Placed(rooms)
  PROVE  /\ FindLoc(rooms, m) \in Positions(rooms)
         /\ m \in At(rooms, FindLoc(rooms, m))
         /\ \A p \in Positions(rooms) : m \in At(rooms, p) => p = FindLoc(rooms, m)
<1>1. PICK pos \in Positions(rooms) : m \in At(rooms, pos)
  BY DEF Placed, PositionsOf
<1>2. \A p \in Positions(rooms) : m \in At(rooms, p) => p = pos
  BY <1>1 DEF NoDoubleBooking
<1>3. PositionsOf(rooms, m) = {pos}
  BY <1>1, <1>2 DEF PositionsOf
<1>4. pos[1] \in Int
  BY RoomsOfDraw
<1>5. FindLoc(rooms, m) = pos
  BY <1>3, <1>4 DEF FindLoc
<1> QED
  BY <1>1, <1>2, <1>5

\* A swap puts each of the two in the other's place, and touches nobody else.
LEMMA SwapAt ==
  ASSUME NEW rooms \in Draw, NoDoubleBooking(rooms),
         NEW a \in Placed(rooms), NEW b \in Placed(rooms), a # b
  PROVE  LET pa == FindLoc(rooms, a)
             pb == FindLoc(rooms, b)
             after == Swap(rooms, a, b)
         IN  /\ after \in Draw
             /\ Positions(after) = Positions(rooms)
             /\ \A p \in Positions(rooms) :
                  At(after, p) = IF p = pa /\ p # pb THEN (At(rooms, p) \ {a}) \cup {b}
                                 ELSE IF p # pa /\ p = pb THEN (At(rooms, p) \ {b}) \cup {a}
                                 ELSE At(rooms, p)
<1> DEFINE pa == FindLoc(rooms, a)
           pb == FindLoc(rooms, b)
           half == Replace(rooms, pa, a, b)
           after == Replace(half, pb, b, a)
<1>1. /\ a \in Members /\ b \in Members
      /\ pa \in Positions(rooms) /\ pb \in Positions(rooms)
  BY FindLocFinds DEF Placed
<1>2. CASE pa = pb
  BY <1>2 DEF Swap
<1>3. CASE pa # pb
  <2>1. Swap(rooms, a, b) = after
    BY <1>3 DEF Swap
  <2>2. /\ half \in Draw /\ Positions(half) = Positions(rooms)
        /\ \A p \in Positions(rooms) :
             At(half, p) = IF p = pa THEN (At(rooms, p) \ {a}) \cup {b}
                           ELSE At(rooms, p)
    BY <1>1, ReplaceAt
  <2>3. /\ after \in Draw /\ Positions(after) = Positions(rooms)
        /\ \A p \in Positions(rooms) :
             At(after, p) = IF p = pb THEN (At(half, p) \ {b}) \cup {a}
                            ELSE At(half, p)
    BY <1>1, <2>2, ReplaceAt
  <2> HIDE DEF pa, pb, half, after
  <2>4. \A p \in Positions(rooms) :
          At(after, p) = IF p = pa /\ p # pb THEN (At(rooms, p) \ {a}) \cup {b}
                         ELSE IF p # pa /\ p = pb THEN (At(rooms, p) \ {b}) \cup {a}
                         ELSE At(rooms, p)
    BY <1>3, <2>2, <2>3
  <2> QED
    BY <2>1, <2>3, <2>4 DEF pa, pb
<1> QED
  BY <1>2, <1>3

LEMMA SwapKeepsDraw ==
  ASSUME NEW rooms \in Draw, NoDoubleBooking(rooms),
         NEW a \in Placed(rooms), NEW b \in Placed(rooms), a # b
  PROVE  /\ Swap(rooms, a, b) \in Draw
         /\ NoDoubleBooking(Swap(rooms, a, b))
         /\ Placed(Swap(rooms, a, b)) = Placed(rooms)
<1> DEFINE pa == FindLoc(rooms, a)
           pb == FindLoc(rooms, b)
           after == Swap(rooms, a, b)
<1>1. a \in Members /\ b \in Members
  BY DEF Placed
<1>2. /\ pa \in Positions(rooms) /\ a \in At(rooms, pa)
      /\ \A p \in Positions(rooms) : a \in At(rooms, p) => p = pa
  BY FindLocFinds
<1>3. /\ pb \in Positions(rooms) /\ b \in At(rooms, pb)
      /\ \A p \in Positions(rooms) : b \in At(rooms, p) => p = pb
  BY FindLocFinds
<1>4. /\ after \in Draw /\ Positions(after) = Positions(rooms)
      /\ \A p \in Positions(rooms) :
           At(after, p) = IF p = pa /\ p # pb THEN (At(rooms, p) \ {a}) \cup {b}
                          ELSE IF p # pa /\ p = pb THEN (At(rooms, p) \ {b}) \cup {a}
                          ELSE At(rooms, p)
  BY SwapAt
<1> HIDE DEF pa, pb, after
<1>5. \A p \in Positions(rooms) : \A m :
        m \in At(after, p) <=>
          \/ m = a /\ p = pb
          \/ m = b /\ p = pa
          \/ m \notin {a, b} /\ m \in At(rooms, p)
  BY <1>2, <1>3, <1>4
<1>6. NoDoubleBooking(after)
  <2> SUFFICES ASSUME NEW p \in Positions(rooms), NEW q \in Positions(rooms),
                      NEW m, m \in At(after, p), m \in At(after, q)
               PROVE  p = q
    BY <1>4 DEF NoDoubleBooking
  <2>1. CASE m \in {a, b}
    BY <2>1, <1>5, <1>1
  <2>2. CASE m \notin {a, b}
    BY <2>2, <1>5 DEF NoDoubleBooking
  <2> QED
    BY <2>1, <2>2
<1>7. Placed(after) = Placed(rooms)
  <2>1. \A m \in Members : (\E p \in Positions(rooms) : m \in At(after, p)) <=>
                           (\E p \in Positions(rooms) : m \in At(rooms, p))
    BY <1>5, <1>2, <1>3
  <2> QED
    BY <2>1, <1>4 DEF Placed, PositionsOf
<1> QED
  BY <1>4, <1>6, <1>7 DEF after

\* Removing a member leaves the others where they are.
LEMMA RemoveKeepsDraw ==
  ASSUME NEW rooms \in Draw, NoDoubleBooking(rooms), NEW m \in Members
  PROVE  /\ Remove(rooms, m) \in Draw
         /\ NoDoubleBooking(Remove(rooms, m))
         /\ Placed(Remove(rooms, m)) = Placed(rooms) \ {m}
<1> DEFINE after == Remove(rooms, m)
<1>1. after \in [1..Len(rooms) -> DraftDrawRoom]
  BY RoomsOfDraw DEF Remove, DraftDrawRoom
<1>2. after \in Draw
  BY <1>1, DrawOfRooms, RoomsOfDraw
<1>3. Positions(after) = Positions(rooms)
  BY <1>1, RoomsOfDraw DEF Positions
<1>4. \A p \in Positions(rooms) : At(after, p) = At(rooms, p) \ {m}
  BY RoomsOfDraw DEF Remove, At
<1> HIDE DEF after
<1>5. NoDoubleBooking(after)
  BY <1>3, <1>4 DEF NoDoubleBooking
<1>6. Placed(after) = Placed(rooms) \ {m}
  BY <1>3, <1>4 DEF Placed, PositionsOf
<1> QED
  BY <1>2, <1>5, <1>6 DEF after

\* Whatever is edited, nobody ends in two places and nobody new gets in.
THEOREM EditsKeepDraw ==
  ASSUME NEW data \in DraftDrawData, NEW action \in EditActions,
         NoDoubleBooking(data.rooms), ~ EditPanics(data, action)
  PROVE  /\ Apply(data, action) \in DraftDrawData
         /\ NoDoubleBooking(Apply(data, action).rooms)
         /\ Placed(Apply(data, action).rooms) \subseteq Placed(data.rooms)
<1>1. data.rooms \in Draw
  BY DEF DraftDrawData, Draw
<1>2. CASE action.kind = "remove"
  <2>1. action.a \in Members
    BY <1>2 DEF EditActions
  <2>2. Apply(data, action) = [data EXCEPT !.rooms = Remove(data.rooms, action.a)]
    BY <1>2 DEF Apply, DraftDrawData
  <2> QED
    BY <1>1, <2>1, <2>2, RemoveKeepsDraw DEF DraftDrawData, Draw
<1>3. CASE action.kind # "remove" /\ action.a = action.b
  <2>1. Apply(data, action) = data
    BY <1>3 DEF Apply, DraftDrawData
  <2> QED
    BY <2>1
<1>4. CASE action.kind # "remove" /\ action.a # action.b
  <2>1. action.a \in Placed(data.rooms) /\ action.b \in Placed(data.rooms)
    BY <1>4 DEF EditPanics, EditActions
  <2>2. Apply(data, action) = [data EXCEPT !.rooms = Swap(data.rooms, action.a, action.b)]
    BY <1>4 DEF Apply, DraftDrawData
  <2>3. /\ Swap(data.rooms, action.a, action.b) \in Draw
        /\ NoDoubleBooking(Swap(data.rooms, action.a, action.b))
        /\ Placed(Swap(data.rooms, action.a, action.b)) = Placed(data.rooms)
    BY <1>1, <1>4, <2>1, SwapKeepsDraw
  <2> QED
    BY <2>2, <2>3 DEF DraftDrawData, Draw
<1> QED
  BY <1>2, <1>3, <1>4

-----------------------------------------------------------------------------
(* The size of teams.                                                       *)

\* No team has more than two speakers, as Room::speakers_of and compute_scores
\* expect.
SmallTeams(rooms) ==
  \A p \in Positions(rooms) : p[2] \in Teams => Cardinality(At(rooms, p)) <= 2

LEMMA FinitePlaces ==
  ASSUME NEW rooms \in Draw, NEW p \in Positions(rooms)
  PROVE  IsFiniteSet(At(rooms, p)) /\ Cardinality(At(rooms, p)) \in Nat
BY RoomsOfDraw, MembersAssumption, FS_Subset, FS_CardinalityType

LEMMA ExchangeKeepsCardinality ==
  ASSUME NEW S, IsFiniteSet(S), NEW a \in S, NEW b, b \notin S
  PROVE  Cardinality((S \ {a}) \cup {b}) = Cardinality(S)
<1>1. /\ IsFiniteSet(S \ {a}) /\ Cardinality(S \ {a}) = Cardinality(S) - 1
      /\ Cardinality(S) \in Nat /\ Cardinality(S \ {a}) \in Nat
  BY FS_RemoveElement, FS_CardinalityType
<1>2. Cardinality((S \ {a}) \cup {b}) = Cardinality(S \ {a}) + 1
  BY <1>1, FS_AddElement
<1> QED
  BY <1>1, <1>2

\* An edit makes no team larger: a swap exchanges one speaker for another, and a
\* removal only takes one away.
LEMMA EditsKeepTeamsSmall ==
  ASSUME NEW data \in DraftDrawData, NEW action \in EditActions,
         NoDoubleBooking(data.rooms), ~ EditPanics(data, action),
         SmallTeams(data.rooms)
  PROVE  SmallTeams(Apply(data, action).rooms)
<1> DEFINE rooms == data.rooms
           a == action.a
           b == action.b
<1>1. rooms \in Draw
  BY DEF DraftDrawData, Draw
<1>2. CASE action.kind = "remove"
  <2> DEFINE after == Remove(rooms, a)
  <2>1. Apply(data, action).rooms = after
    BY <1>2 DEF Apply, DraftDrawData
  <2>2. DOMAIN after = DOMAIN rooms
    BY DEF Remove
  <2>3. Positions(after) = Positions(rooms)
    BY <2>2 DEF Positions
  <2>4. \A p \in Positions(rooms) : At(after, p) = At(rooms, p) \ {a}
    BY <1>1, RoomsOfDraw DEF Remove, At
  <2> HIDE DEF after
  <2> SUFFICES ASSUME NEW p \in Positions(rooms), p[2] \in Teams
               PROVE  Cardinality(At(after, p)) <= 2
    BY <2>1, <2>3 DEF SmallTeams
  <2>5. Cardinality(At(rooms, p)) <= 2 /\ At(after, p) \subseteq At(rooms, p)
    BY <2>4 DEF SmallTeams
  <2> QED
    BY <1>1, <2>5, FinitePlaces, FS_Subset, FS_CardinalityType
<1>3. CASE action.kind # "remove" /\ a = b
  <2>1. Apply(data, action).rooms = rooms
    BY <1>3 DEF Apply, DraftDrawData
  <2> QED
    BY <2>1
<1>4. CASE action.kind # "remove" /\ a # b
  <2> DEFINE after == Swap(rooms, a, b)
             pa == FindLoc(rooms, a)
             pb == FindLoc(rooms, b)
  <2>1. Apply(data, action).rooms = after
    BY <1>4 DEF Apply, DraftDrawData
  <2>2. a \in Placed(rooms) /\ b \in Placed(rooms)
    BY <1>4 DEF EditPanics, EditActions
  <2>3. /\ pa \in Positions(rooms) /\ a \in At(rooms, pa)
        /\ \A p \in Positions(rooms) : a \in At(rooms, p) => p = pa
        /\ pb \in Positions(rooms) /\ b \in At(rooms, pb)
        /\ \A p \in Positions(rooms) : b \in At(rooms, p) => p = pb
    BY <1>1, <2>2, FindLocFinds
  <2>4. /\ Positions(after) = Positions(rooms)
        /\ \A p \in Positions(rooms) :
             At(after, p) = IF p = pa /\ p # pb THEN (At(rooms, p) \ {a}) \cup {b}
                            ELSE IF p # pa /\ p = pb THEN (At(rooms, p) \ {b}) \cup {a}
                            ELSE At(rooms, p)
    BY <1>1, <1>4, <2>2, SwapAt
  <2> HIDE DEF after, pa, pb
  <2> SUFFICES ASSUME NEW p \in Positions(rooms), p[2] \in Teams
               PROVE  Cardinality(At(after, p)) = Cardinality(At(rooms, p))
    BY <2>1, <2>4 DEF SmallTeams
  <2>5. CASE p = pa /\ p # pb
    <3>1. a \in At(rooms, p) /\ b \notin At(rooms, p)
      BY <2>3, <2>5
    <3>2. At(after, p) = (At(rooms, p) \ {a}) \cup {b}
      BY <2>4, <2>5
    <3> QED
      BY <1>1, <3>1, <3>2, FinitePlaces, ExchangeKeepsCardinality
  <2>6. CASE p # pa /\ p = pb
    <3>1. b \in At(rooms, p) /\ a \notin At(rooms, p)
      BY <2>3, <2>6
    <3>2. At(after, p) = (At(rooms, p) \ {b}) \cup {a}
      BY <2>4, <2>6
    <3> QED
      BY <1>1, <3>1, <3>2, FinitePlaces, ExchangeKeepsCardinality
  <2>7. CASE ~ (p = pa /\ p # pb) /\ ~ (p # pa /\ p = pb)
    BY <2>4, <2>7
  <2> QED
    BY <2>5, <2>6, <2>7
<1> QED
  BY <1>2, <1>3, <1>4

-----------------------------------------------------------------------------
(* The solver.                                                              *)

LEMMA RoomsOfAllocation ==
  ASSUME NEW table \in SignupTable, NEW n \in Nat, NEW f \in Allocations(table, n)
  PROVE  /\ RoomsOf(f, n) \in Draw
         /\ NoDoubleBooking(RoomsOf(f, n))
         /\ Placed(RoomsOf(f, n)) = SignedUp(table)
<1> DEFINE rooms == RoomsOf(f, n)
<1>1. /\ f \in [SignedUp(table) -> (1..n) \X Locs]
      /\ DOMAIN f = SignedUp(table)
      /\ SignedUp(table) \subseteq Members
  BY DEF Allocations, SignedUp
<1>2. rooms \in [1..n -> DraftDrawRoom]
  BY <1>1 DEF RoomsOf, DraftDrawRoom
<1>3. rooms \in Draw
  BY <1>2, DrawOfRooms
<1>4. Positions(rooms) = (1..n) \X Locs
  BY <1>2 DEF Positions
<1>5. \A p \in Positions(rooms) : At(rooms, p) = {m \in SignedUp(table) : f[m] = p}
  <2> SUFFICES ASSUME NEW p \in Positions(rooms)
               PROVE  At(rooms, p) = {m \in SignedUp(table) : f[m] = p}
    OBVIOUS
  <2>1. p = <<p[1], p[2]>> /\ p[1] \in 1..n /\ p[2] \in Locs
    BY <1>4
  <2>2. rooms[p[1]][p[2]] = {m \in SignedUp(table) : f[m] = <<p[1], p[2]>>}
    BY <1>1, <2>1 DEF RoomsOf
  <2> QED
    BY <2>1, <2>2 DEF At
<1> HIDE DEF rooms
<1>6. NoDoubleBooking(rooms)
  BY <1>5 DEF NoDoubleBooking
<1>7. Placed(rooms) = SignedUp(table)
  <2>1. \A m \in SignedUp(table) : f[m] \in Positions(rooms) /\ m \in At(rooms, f[m])
    BY <1>1, <1>4, <1>5
  <2>2. \A m \in Members :
          (\E p \in Positions(rooms) : m \in At(rooms, p)) => m \in SignedUp(table)
    BY <1>5
  <2> QED
    BY <1>1, <2>1, <2>2 DEF Placed, PositionsOf
<1> QED
  BY <1>3, <1>6, <1>7 DEF rooms

\* Whichever draw the solver returns, everyone who signed up is in it, once, and
\* nobody else is.
THEOREM SolverPlacesEverybodyOnce ==
  ASSUME NEW table \in SignupTable, NEW rooms \in PossibleDraws(table)
  PROVE  /\ rooms \in Draw
         /\ NoDoubleBooking(rooms)
         /\ Placed(rooms) = SignedUp(table)
<1>1. PICK n \in 0..RMax(table) :
        rooms \in {draw \in {RoomsOf(f, n) : f \in Allocations(table, n)} :
                     \A i \in 1..n : RoomIsLegal(draw[i])}
  BY DEF PossibleDraws
<1>2. PICK f \in Allocations(table, n) : rooms = RoomsOf(f, n)
  BY <1>1
<1>3. n \in Nat
  OBVIOUS
<1> QED
  BY <1>2, <1>3, RoomsOfAllocation

\* The constraints on teams hold of every room of such a draw.
LEMMA SolverKeepsTeamsSmall ==
  ASSUME NEW table \in SignupTable, NEW rooms \in PossibleDraws(table)
  PROVE  SmallTeams(rooms)
<1>1. PICK n \in 0..RMax(table) :
        rooms \in {draw \in {RoomsOf(f, n) : f \in Allocations(table, n)} :
                     \A i \in 1..n : RoomIsLegal(draw[i])}
  BY DEF PossibleDraws
<1>2. DOMAIN rooms = 1..n /\ \A i \in 1..n : RoomIsLegal(rooms[i])
  BY <1>1 DEF RoomsOf
<1> QED
  BY <1>2 DEF SmallTeams, Positions, At, RoomIsLegal
=============================================================================
