------------------------------ MODULE DraftDraw ------------------------------
(****************************************************************************)
(* The data of a draft draw and the edits an organiser may make to it.      *)
(*                                                                          *)
(* A draft draw is stored as JSON in one column (draft_draws.data).  Its    *)
(* content is a list of rooms, each with a panel of judges and one set of   *)
(* speakers per team, and a map from members to the short numbers that the  *)
(* edit commands name them by.  A short number is only a name for a member, *)
(* so the map is kept as the set of members that have one.                  *)
(****************************************************************************)
EXTENDS Integers, Sequences, FiniteSets

CONSTANTS
  Members,   \* the members of the spar series
  Teams,     \* the teams of a debate (Og, Oo, Cg and Co in the code)
  Panel      \* the place of a judge in a room, DrawLoc::Panel

ASSUME PanelAssumption == Panel \notin Teams
ASSUME MembersAssumption == IsFiniteSet(Members)

\* DrawLoc: where in a room a member may be.
Locs == Teams \cup {Panel}

DraftDrawRoom == [Locs -> SUBSET Members]

\* id_map is the set of members that a short number stands for.
DraftDrawData == [rooms : Seq(DraftDrawRoom), id_map : SUBSET Members]

-----------------------------------------------------------------------------
(* Reading a draw.                                                          *)

\* A position is a room index together with a location in that room.
Positions(rooms) == (DOMAIN rooms) \X Locs

At(rooms, pos) == rooms[pos[1]][pos[2]]

PositionsOf(rooms, m) == {pos \in Positions(rooms) : m \in At(rooms, pos)}

Placed(rooms) == {m \in Members : PositionsOf(rooms, m) # {}}

\* The first room that holds m, its panel before its teams.  (The teams are
\* a hash map, whose order is arbitrary.)
FindLoc(rooms, m) ==
  CHOOSE pos \in PositionsOf(rooms, m) :
    \A other \in PositionsOf(rooms, m) :
      /\ pos[1] <= other[1]
      /\ pos[1] = other[1] /\ other[2] = Panel => pos[2] = Panel

\* No member appears at two positions of one draw.
NoDoubleBooking(rooms) ==
  \A p, q \in Positions(rooms) : At(rooms, p) \cap At(rooms, q) # {} => p = q

-----------------------------------------------------------------------------
(* Building and editing a draw.                                             *)

\* generate_map gives every member of the draw a short number.
WithIdMap(rooms) == [rooms |-> rooms, id_map |-> Placed(rooms)]

EditActions ==
  [kind : {"swap"}, a : Members, b : Members] \cup
  [kind : {"remove"}, a : Members]

Replace(rooms, pos, old, new) ==
  [rooms EXCEPT ![pos[1]][pos[2]] = (@ \ {old}) \cup {new}]

Swap(rooms, a, b) ==
  LET pa == FindLoc(rooms, a)
      pb == FindLoc(rooms, b)
  IN  IF pa = pb THEN rooms
      ELSE Replace(Replace(rooms, pa, a, b), pb, b, a)

Remove(rooms, m) ==
  [i \in DOMAIN rooms |-> [loc \in Locs |-> rooms[i][loc] \ {m}]]

\* lookup_idx finds a member for every number in the command; a swap of a
\* number with itself is accepted without looking it up.
Recognised(data, action) ==
  IF action.kind = "swap"
  THEN action.a = action.b \/ {action.a, action.b} \subseteq data.id_map
  ELSE action.a \in data.id_map

\* find_loc reaches unreachable!() for a member that has a short number and
\* no position.
EditPanics(data, action) ==
  /\ action.kind = "swap"
  /\ action.a # action.b
  /\ ~ {action.a, action.b} \subseteq Placed(data.rooms)

Apply(data, action) ==
  [data EXCEPT !.rooms =
     IF action.kind = "remove" THEN Remove(@, action.a)
     ELSE IF action.a = action.b THEN @
     ELSE Swap(@, action.a, action.b)]
==============================================================================
