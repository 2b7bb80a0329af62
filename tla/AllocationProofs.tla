-------------------------- MODULE AllocationProofs ---------------------------
(****************************************************************************)
(* When the integer program has a solution, for any members, roles and      *)
(* teams: it has one exactly if the numbers of judges and speakers fit, and *)
(* the checks of generate_draw see to that as long as the judges do not     *)
(* outnumber the hundred of each room.                                      *)
(****************************************************************************)
EXTENDS MCSpeakerAllocation, FiniteSetTheorems, TLAPS

-----------------------------------------------------------------------------
(* Spreading a set over places.                                             *)

\* Those that f puts at one place.
Share(f, S, place) == {s \in S : f[s] = place}

\* Every place gets somebody and nobody more than k.
SpreadsOver(f, S, T, k) ==
  f \in [S -> T] /\ \A t \in T : Cardinality(Share(f, S, t)) \in 1..k

LEMMA Counted ==
  ASSUME NEW S, IsFiniteSet(S)
  PROVE  /\ Cardinality(S) \in Nat
         /\ \E g \in [1..Cardinality(S) -> S] :
              /\ \A s \in S : \E k \in 1..Cardinality(S) : g[k] = s
              /\ \A j, k \in 1..Cardinality(S) : g[j] = g[k] => j = k
<1>1. PICK n \in Nat : ExistsBijection(1..n, S)
  BY FS_NatBijection
<1>2. Cardinality(S) = n
  BY <1>1, FS_CountingElements
<1> QED
  BY <1>1, <1>2 DEF ExistsBijection, Bijection, Injection, Surjection, IsInjective

\* Dealing out one after the other: number m goes to place m % q in round m \div q.
LEMMA Dealing ==
  ASSUME NEW q \in Nat \ {0}, NEW m \in Nat
  PROVE  /\ m \div q \in Nat /\ m % q \in 0..(q - 1)
         /\ m = q * (m \div q) + (m % q)
         /\ \A k \in Nat : m < k * q => m \div q < k
<1>1. m \div q \in Int /\ m % q \in 0..(q - 1) /\ m = q * (m \div q) + (m % q)
  OBVIOUS
<1> DEFINE d == m \div q
<1> HIDE DEF d
<1>2. d \in Int /\ q * d <= m /\ m < q * d + q
  BY <1>1 DEF d
<1>3. \A a, b \in Int : a <= b => q * a <= q * b
  OBVIOUS
<1>4. d >= 0
  <2>1. d <= -1 => q * d <= q * (-1)
    BY <1>2, <1>3
  <2> QED
    BY <1>2, <2>1
<1>5. ASSUME NEW k \in Nat, m < k * q
      PROVE  d < k
  <2>1. k <= d => q * k <= q * d
    BY <1>2, <1>3
  <2> QED
    BY <1>2, <1>5, <2>1
<1> QED
  BY <1>1, <1>2, <1>4, <1>5 DEF d

\* A set can be spread over places if it is as large, and at most k times.
LEMMA SpreadExists ==
  ASSUME NEW S, IsFiniteSet(S), NEW T, IsFiniteSet(T), NEW k \in Nat,
         Cardinality(T) <= Cardinality(S), Cardinality(S) <= k * Cardinality(T)
  PROVE  \E f : SpreadsOver(f, S, T, k)
<1> DEFINE p == Cardinality(S)
           q == Cardinality(T)
<1>1. p \in Nat /\ q \in Nat /\ q <= p /\ p <= k * q
  BY FS_CardinalityType
<1>2. PICK g \in [1..p -> S] : /\ \A s \in S : \E j \in 1..p : g[j] = s
                               /\ \A i, j \in 1..p : g[i] = g[j] => i = j
  BY Counted
<1>3. PICK h \in [1..q -> T] : /\ \A t \in T : \E j \in 1..q : h[j] = t
                               /\ \A i, j \in 1..q : h[i] = h[j] => i = j
  BY Counted
<1>4. q = 0 => T = {} /\ S = {}
  <2>1. q = 0 => p = 0
    BY <1>1
  <2> QED
    BY <2>1, FS_EmptySet
<1> HIDE DEF p, q
<1>5. CASE q = 0
  <2>1. SpreadsOver([s \in S |-> s], S, T, k)
    BY <1>4, <1>5 DEF SpreadsOver
  <2> QED
    BY <2>1
<1>6. CASE q # 0
  <2> DEFINE num(s) == CHOOSE j \in 1..p : g[j] = s
             place(s) == h[1 + ((num(s) - 1) % q)]
             round(s) == (num(s) - 1) \div q
             f == [s \in S |-> place(s)]
  <2>1. \A s \in S : num(s) \in 1..p /\ g[num(s)] = s
    BY <1>2
  <2>2. \A j \in 1..p : g[j] \in S /\ num(g[j]) = j
    BY <1>2, <2>1
  <2> HIDE DEF num
  <2>3. \A s \in S : /\ num(s) - 1 \in Nat /\ (num(s) - 1) % q \in Int
                     /\ 1 + ((num(s) - 1) % q) \in 1..q
                     /\ round(s) \in 0..(k - 1)
                     /\ num(s) - 1 = q * round(s) + ((num(s) - 1) % q)
    <3> SUFFICES ASSUME NEW s \in S
                 PROVE  /\ num(s) - 1 \in Nat /\ (num(s) - 1) % q \in Int
                        /\ 1 + ((num(s) - 1) % q) \in 1..q
                        /\ round(s) \in 0..(k - 1)
                        /\ num(s) - 1 = q * round(s) + ((num(s) - 1) % q)
      OBVIOUS
    <3>1. num(s) \in 1..p
      BY <2>1
    <3> DEFINE m == num(s) - 1
    <3>2. m \in Nat /\ m < p
      BY <1>1, <3>1
    <3> HIDE DEF m
    <3>3. k * q \in Nat /\ m < k * q
      BY <1>1, <3>2
    <3>4. /\ m \div q \in Nat /\ m % q \in 0..(q - 1)
          /\ m = q * (m \div q) + (m % q) /\ m \div q < k
      BY <1>1, <1>6, <3>2, <3>3, Dealing
    <3>5. /\ \A x \in 0..(q - 1) : x \in Int /\ 1 + x \in 1..q
          /\ \A x \in Nat : x < k => x \in 0..(k - 1)
      BY <1>1
    <3>6. m % q \in Int /\ 1 + (m % q) \in 1..q /\ m \div q \in 0..(k - 1)
      BY <3>4, <3>5
    <3> QED
      BY <3>2, <3>4, <3>6 DEF m
  <2>4. f \in [S -> T]
    BY <2>3
  <2>5. ASSUME NEW t \in T
        PROVE  Cardinality(Share(f, S, t)) \in 1..k
    <3> DEFINE F == Share(f, S, t)
               r == [s \in F |-> round(s)]
    <3>1. PICK c \in 1..q : h[c] = t
      BY <1>3
    <3>2. \A s \in F : s \in S /\ 1 + ((num(s) - 1) % q) = c
      BY <1>3, <2>3, <3>1 DEF Share
    <3>3. r \in Injection(F, 0..(k - 1))
      <4>1. r \in [F -> 0..(k - 1)]
        BY <2>3, <3>2
      <4>2. ASSUME NEW a \in F, NEW b \in F, r[a] = r[b]
            PROVE  a = b
        <5>1. round(a) = round(b)
          BY <4>2
        <5>2. (num(a) - 1) % q = (num(b) - 1) % q
          <6>1. (num(a) - 1) % q \in Int /\ (num(b) - 1) % q \in Int
            BY <2>3, <3>2
          <6> QED
            BY <3>2, <6>1
        <5>3. num(a) - 1 = num(b) - 1
          BY <2>3, <3>2, <5>1, <5>2
        <5>4. num(a) = num(b)
          BY <1>1, <2>1, <3>2, <5>3
        <5> QED
          BY <2>1, <3>2, <5>4
      <4> QED
        BY <4>1, <4>2 DEF Injection, IsInjective
    <3>4. F # {}
      <4>1. c \in 1..p /\ c - 1 \in 0..(q - 1)
        BY <1>1
      <4>2. (c - 1) % q = c - 1
        BY <1>1, <1>6, <4>1
      <4>3. g[c] \in S /\ num(g[c]) = c
        BY <2>2, <4>1
      <4>4. f[g[c]] = t
        BY <3>1, <4>2, <4>3
      <4> QED
        BY <4>3, <4>4 DEF Share
    <3> HIDE DEF F, r
    <3>5. IsFiniteSet(0..(k - 1)) /\ Cardinality(0..(k - 1)) = k
      BY FS_Interval
    <3>6. IsFiniteSet(F) /\ Cardinality(F) <= k
      BY <3>3, <3>5, FS_Injection
    <3>7. Cardinality(F) \in Nat /\ Cardinality(F) # 0
      BY <3>4, <3>6, FS_CardinalityType, FS_EmptySet
    <3> QED
      BY <3>6, <3>7 DEF F
  <2> QED
    BY <2>4, <2>5 DEF SpreadsOver
<1> QED
  BY <1>5, <1>6

\* Those who are spread are at least as many as the places, and at most k times.
LEMMA SpreadCounts ==
  ASSUME NEW S, IsFiniteSet(S), NEW T, IsFiniteSet(T), NEW k \in Nat,
         NEW f, SpreadsOver(f, S, T, k)
  PROVE  Cardinality(T) <= Cardinality(S) /\ Cardinality(S) <= k * Cardinality(T)
<1>1. f \in [S -> T] /\ \A t \in T : Cardinality(Share(f, S, t)) \in 1..k
  BY DEF SpreadsOver
<1>2. \A t \in T : IsFiniteSet(Share(f, S, t)) /\ Share(f, S, t) \subseteq S
  BY FS_Subset DEF Share
<1>3. Cardinality(T) <= Cardinality(S)
  <2>1. \A t \in T : Share(f, S, t) # {}
    BY <1>1, FS_EmptySet
  <2>2. \A t \in T : \E s \in S : f[s] = t
    BY <2>1 DEF Share
  <2>3. f \in Surjection(S, T)
    BY <1>1, <2>2 DEF Surjection
  <2> QED
    BY <2>3, FS_Surjection
<1>4. \A t \in T : \E g \in [1..k -> S] : \A s \in Share(f, S, t) : \E j \in 1..k : g[j] = s
  <2> SUFFICES ASSUME NEW t \in T
               PROVE  \E g \in [1..k -> S] :
                        \A s \in Share(f, S, t) : \E j \in 1..k : g[j] = s
    OBVIOUS
  <2> DEFINE F == Share(f, S, t)
             c == Cardinality(F)
  <2>1. IsFiniteSet(F) /\ F \subseteq S /\ c \in 1..k
    BY <1>1, <1>2
  <2> HIDE DEF F
  <2>2. PICK h \in [1..c -> F] : \A s \in F : \E j \in 1..c : h[j] = s
    BY <2>1, Counted
  <2> HIDE DEF c
  <2>3. \A j \in 1..c : j \in 1..k
    BY <2>1
  <2> DEFINE g == [j \in 1..k |-> IF j \in 1..c THEN h[j] ELSE h[1]]
  <2>4. g \in [1..k -> S]
    BY <2>1, <2>2
  <2>5. \A s \in F : \E j \in 1..k : g[j] = s
    BY <2>2, <2>3
  <2> QED
    BY <2>4, <2>5 DEF F
<1> DEFINE Deals(t, g) == /\ g \in [1..k -> S]
                          /\ \A s \in Share(f, S, t) : \E j \in 1..k : g[j] = s
           deal == [t \in T |-> CHOOSE g : Deals(t, g)]
           turn(s) == CHOOSE j \in 1..k : deal[f[s]][j] = s
           F == [s \in S |-> <<f[s], turn(s)>>]
<1>5. \A t \in T : Deals(t, deal[t])
  <2> SUFFICES ASSUME NEW t \in T PROVE Deals(t, deal[t])
    OBVIOUS
  <2>1. \E g : Deals(t, g)
    BY <1>4
  <2> HIDE DEF Deals
  <2> QED
    BY <2>1
<1> HIDE DEF deal
<1>6. \A s \in S : f[s] \in T /\ s \in Share(f, S, f[s])
  BY <1>1 DEF Share
<1>7. \A s \in S : turn(s) \in 1..k /\ deal[f[s]][turn(s)] = s
  BY <1>5, <1>6
<1> HIDE DEF turn
<1>8. F \in Injection(S, T \X (1..k))
  <2>1. F \in [S -> T \X (1..k)]
    BY <1>6, <1>7
  <2>2. \A a, b \in S : F[a] = F[b] => a = b
    BY <1>7
  <2> QED
    BY <2>1, <2>2 DEF Injection, IsInjective
<1>9. IsFiniteSet(1..k) /\ Cardinality(1..k) = k
  BY FS_Interval
<1>10. IsFiniteSet(T \X (1..k)) /\ Cardinality(T \X (1..k)) = Cardinality(T) * k
  BY <1>9, FS_Product
<1>11. Cardinality(S) <= Cardinality(T) * k
  BY <1>8, <1>10, FS_Injection
<1>12. Cardinality(T) \in Nat
  BY FS_CardinalityType
<1> QED
  BY <1>3, <1>11, <1>12

\* A set has subsets of every smaller size.
LEMMA SubsetOfSize ==
  ASSUME NEW S, IsFiniteSet(S), NEW b \in 0..Cardinality(S)
  PROVE  \E B \in SUBSET S : Cardinality(B) = b
<1> DEFINE p == Cardinality(S)
<1>1. p \in Nat
  BY FS_CardinalityType
<1>2. PICK g \in [1..p -> S] : /\ \A s \in S : \E j \in 1..p : g[j] = s
                               /\ \A i, j \in 1..p : g[i] = g[j] => i = j
  BY Counted
<1> HIDE DEF p
<1>3. b \in Nat /\ \A j \in 1..b : j \in 1..p
  BY <1>1 DEF p
<1> DEFINE B == {g[j] : j \in 1..b}
           h == [j \in 1..b |-> g[j]]
<1>4. B \in SUBSET S
  BY <1>3
<1>5. h \in Bijection(1..b, B)
  BY <1>2, <1>3 DEF Bijection, Injection, Surjection, IsInjective
<1>6. IsFiniteSet(1..b) /\ Cardinality(1..b) = b
  BY <1>3, FS_Interval
<1>7. Cardinality(B) = b
  BY <1>5, <1>6, FS_Bijection DEF ExistsBijection
<1> QED
  BY <1>4, <1>7

-----------------------------------------------------------------------------
(* Draws and divisions of the sign-ups into judges and speakers.            *)

\* n rooms have judges, and their teams speakers, in the numbers allowed.
Divided(P, W, n) ==
  /\ n <= Cardinality(P) /\ Cardinality(P) <= MaxJudges * n
  /\ n * Cardinality(Teams) <= Cardinality(W)
  /\ Cardinality(W) <= n * SpeakersPerRoom

\* Those who sign up may be divided into willing judges and willing speakers.
Division(t, P, W) ==
  /\ P \cup W = SignedUp(t) /\ P \cap W = {}
  /\ P \subseteq Judges(t) /\ W \subseteq Speakers(t)

LEMMA FiniteTable ==
  ASSUME NEW t
  PROVE  /\ IsFiniteSet(SignedUp(t)) /\ IsFiniteSet(Judges(t)) /\ IsFiniteSet(Speakers(t))
         /\ Judges(t) \subseteq SignedUp(t) /\ Speakers(t) \subseteq SignedUp(t)
BY MembersAssumption, FS_Subset DEF SignedUp, Judges, Speakers

LEMMA RoomCount ==
  ASSUME NEW n \in Nat
  PROVE  /\ Cardinality(Teams) \in Nat \ {0}
         /\ IsFiniteSet(1..n) /\ Cardinality(1..n) = n
         /\ IsFiniteSet((1..n) \X Teams)
         /\ Cardinality((1..n) \X Teams) = n * Cardinality(Teams)
         /\ 2 * Cardinality((1..n) \X Teams) = n * SpeakersPerRoom
<1>1. Cardinality(Teams) \in Nat \ {0}
  BY TeamsAssumption, FS_CardinalityType, FS_EmptySet
<1>2. IsFiniteSet(1..n) /\ Cardinality(1..n) = n
  BY FS_Interval
<1>3. /\ IsFiniteSet((1..n) \X Teams)
      /\ Cardinality((1..n) \X Teams) = n * Cardinality(Teams)
  BY <1>2, TeamsAssumption, FS_Product
<1>4. 2 * (n * Cardinality(Teams)) = n * (2 * Cardinality(Teams))
  BY <1>1
<1> QED
  BY <1>1, <1>2, <1>3, <1>4 DEF SpeakersPerRoom

\* The judges are spread over the rooms, the speakers over their teams.
LEMMA DrawOfDivision ==
  ASSUME NEW t, NEW n \in 0..RMax(t), n \in Nat,
         NEW P, NEW W, Division(t, P, W), Divided(P, W, n)
  PROVE  PossibleDraws(t) # {}
<1> DEFINE Places == (1..n) \X Teams
<1>1. IsFiniteSet(P) /\ IsFiniteSet(W)
  BY FiniteTable, FS_Subset DEF Division
<1>2. PICK u : SpreadsOver(u, P, 1..n, MaxJudges)
  <2>1. Cardinality(1..n) <= Cardinality(P) /\ Cardinality(P) <= MaxJudges * Cardinality(1..n)
    BY RoomCount DEF Divided
  <2> QED
    BY <1>1, <2>1, RoomCount, SpreadExists DEF MaxJudges
<1>3. PICK w : SpreadsOver(w, W, Places, 2)
  <2>1. Cardinality(Places) <= Cardinality(W) /\ Cardinality(W) <= 2 * Cardinality(Places)
    BY RoomCount DEF Divided
  <2> QED
    BY <1>1, <2>1, RoomCount, SpreadExists
<1> DEFINE f == [m \in SignedUp(t) |-> IF m \in P THEN <<u[m], Panel>> ELSE w[m]]
<1>4. /\ \A m \in P : m \in SignedUp(t) /\ f[m] = <<u[m], Panel>> /\ u[m] \in 1..n
      /\ \A m \in W : m \in SignedUp(t) /\ f[m] = w[m] /\ w[m] \in Places
      /\ \A m \in SignedUp(t) : m \in P \/ m \in W
  BY <1>2, <1>3 DEF Division, SpreadsOver
<1>5. \A m \in W : w[m][2] \in Teams /\ w[m][2] # Panel /\ w[m] \in (1..n) \X Locs
  BY <1>4, PanelAssumption DEF Locs
<1>6. f \in Allocations(t, n)
  <2>1. \A m \in SignedUp(t) :
          /\ f[m] \in (1..n) \X Locs
          /\ m \in IF f[m][2] = Panel THEN Judges(t) ELSE Speakers(t)
    <3>1. \A m \in P : f[m] \in (1..n) \X Locs /\ f[m][2] = Panel /\ m \in Judges(t)
      BY <1>4 DEF Division, Locs
    <3>2. \A m \in W : f[m] \in (1..n) \X Locs /\ f[m][2] # Panel /\ m \in Speakers(t)
      BY <1>4, <1>5 DEF Division
    <3> QED
      BY <1>4, <3>1, <3>2
  <2>2. f = [m \in SignedUp(t) |-> f[m]]
    OBVIOUS
  <2> HIDE DEF f
  <2> QED
    BY <2>1, <2>2 DEF Allocations
<1>7. DOMAIN f = SignedUp(t)
  OBVIOUS
<1> HIDE DEF f
<1>8. ASSUME NEW i \in 1..n
      PROVE  RoomIsLegal(RoomsOf(f, n)[i])
  <2> DEFINE room == RoomsOf(f, n)[i]
  <2>1. /\ Panel \in Locs /\ Teams \subseteq Locs
        /\ \A loc \in Locs : room[loc] = {m \in SignedUp(t) : f[m] = <<i, loc>>}
    BY <1>7 DEF RoomsOf, Locs
  <2>2. room[Panel] = Share(u, P, i)
    BY <1>4, <1>5, <2>1 DEF Share
  <2>3. \A team \in Teams : room[team] = Share(w, W, <<i, team>>)
    <3> SUFFICES ASSUME NEW team \in Teams
                 PROVE  room[team] = Share(w, W, <<i, team>>)
      OBVIOUS
    <3>1. \A m \in P : f[m] # <<i, team>>
      BY <1>4, PanelAssumption
    <3> QED
      BY <1>4, <2>1, <3>1 DEF Share
  <2>4. \A team \in Teams : <<i, team>> \in Places
    OBVIOUS
  <2> HIDE DEF room, Places
  <2> QED
    BY <1>2, <1>3, <2>2, <2>3, <2>4 DEF RoomIsLegal, SpreadsOver, room
<1> QED
  BY <1>6, <1>8 DEF PossibleDraws

\* The judges of a draw and its speakers.
LEMMA DivisionOfDraw ==
  ASSUME NEW t, PossibleDraws(t) # {}
  PROVE  \E n \in 0..RMax(t) : n \in Nat /\ \E P, W : Division(t, P, W) /\ Divided(P, W, n)
<1>1. PICK n \in 0..RMax(t) : \E f \in Allocations(t, n) :
             \A i \in 1..n : RoomIsLegal(RoomsOf(f, n)[i])
  BY DEF PossibleDraws
<1>2. n \in Nat
  OBVIOUS
<1>3. PICK f \in Allocations(t, n) : \A i \in 1..n : RoomIsLegal(RoomsOf(f, n)[i])
  BY <1>1
<1>4. /\ f \in [SignedUp(t) -> (1..n) \X Locs] /\ DOMAIN f = SignedUp(t)
      /\ \A m \in SignedUp(t) : m \in IF f[m][2] = Panel THEN Judges(t) ELSE Speakers(t)
  BY DEF Allocations
<1> DEFINE Places == (1..n) \X Teams
           P == {m \in SignedUp(t) : f[m][2] = Panel}
           W == {m \in SignedUp(t) : f[m][2] # Panel}
           u == [m \in P |-> f[m][1]]
           w == [m \in W |-> f[m]]
<1>5. Division(t, P, W)
  BY <1>4 DEF Division
<1>6. IsFiniteSet(P) /\ IsFiniteSet(W)
  BY <1>5, FiniteTable, FS_Subset DEF Division
<1>7. \A m \in SignedUp(t) : /\ f[m] = <<f[m][1], f[m][2]>> /\ f[m][1] \in 1..n
                             /\ f[m][2] \in Locs
  BY <1>4
<1>8. \A i \in 1..n, loc \in Locs :
        RoomsOf(f, n)[i][loc] = {m \in SignedUp(t) : f[m] = <<i, loc>>}
  BY <1>4 DEF RoomsOf
<1>9. SpreadsOver(u, P, 1..n, MaxJudges)
  <2>1. u \in [P -> 1..n]
    BY <1>7
  <2>2. ASSUME NEW i \in 1..n
        PROVE  Cardinality(Share(u, P, i)) \in 1..MaxJudges
    <3>1. Share(u, P, i) = RoomsOf(f, n)[i][Panel]
      BY <1>7, <1>8 DEF Share, Locs
    <3> QED
      BY <1>3, <3>1 DEF RoomIsLegal
  <2> QED
    BY <2>1, <2>2 DEF SpreadsOver
<1>10. SpreadsOver(w, W, Places, 2)
  <2>1. w \in [W -> Places]
    BY <1>4, <1>7 DEF Locs
  <2>2. ASSUME NEW place \in Places
        PROVE  Cardinality(Share(w, W, place)) \in 1..2
    <3>1. PICK i \in 1..n, team \in Teams : place = <<i, team>>
      OBVIOUS
    <3>2. team # Panel /\ team \in Locs
      BY PanelAssumption DEF Locs
    <3>3. Share(w, W, place) = RoomsOf(f, n)[i][team]
      <4>1. \A m \in SignedUp(t) : f[m] = <<i, team>> => m \in W
        BY <3>2
      <4>2. Share(w, W, place) = {m \in W : f[m] = <<i, team>>}
        BY <3>1 DEF Share
      <4>3. W \subseteq SignedUp(t)
        OBVIOUS
      <4> HIDE DEF w, W
      <4> QED
        BY <1>8, <3>2, <4>1, <4>2, <4>3
    <3> QED
      BY <1>3, <3>1, <3>3 DEF RoomIsLegal
  <2> HIDE DEF w, W, Places
  <2> QED
    BY <2>1, <2>2 DEF SpreadsOver
<1> HIDE DEF P, W, u, w, Places
<1>11. Cardinality(1..n) <= Cardinality(P) /\ Cardinality(P) <= MaxJudges * Cardinality(1..n)
  BY <1>2, <1>6, <1>9, RoomCount, SpreadCounts DEF MaxJudges
<1>12. Cardinality(Places) <= Cardinality(W) /\ Cardinality(W) <= 2 * Cardinality(Places)
  BY <1>2, <1>6, <1>10, RoomCount, SpreadCounts DEF Places
<1>13. Divided(P, W, n)
  BY <1>2, <1>11, <1>12, RoomCount DEF Divided, Places
<1> QED
  BY <1>2, <1>5, <1>13

-----------------------------------------------------------------------------
(* Divisions and numbers.                                                   *)

\* Once it is settled who of those willing to do both judges, all roles are.
LEMMA DivisionOfChoice ==
  ASSUME NEW t, EveryoneHasARole(t), NEW B \in SUBSET (Judges(t) \cap Speakers(t))
  PROVE  LET P == (Judges(t) \ Speakers(t)) \cup B
             W == SignedUp(t) \ P
         IN  /\ Division(t, P, W)
             /\ Cardinality(P) = Cardinality(Judges(t) \ Speakers(t)) + Cardinality(B)
             /\ Cardinality(W) = Cardinality(Speakers(t) \ Judges(t))
                                   + (Cardinality(Judges(t) \cap Speakers(t)) - Cardinality(B))
<1> DEFINE J == Judges(t)
           O == Speakers(t)
           P == (J \ O) \cup B
           W == SignedUp(t) \ P
           R == (J \cap O) \ B
<1>1. /\ SignedUp(t) = J \cup O /\ B \subseteq J \cap O
      /\ W = (O \ J) \cup R /\ (O \ J) \cap R = {} /\ (J \ O) \cap B = {}
      /\ (J \cap O) \cap B = B
  BY DEF EveryoneHasARole
<1>2. Division(t, P, W)
  BY <1>1 DEF Division
<1>3. /\ IsFiniteSet(J \ O) /\ IsFiniteSet(B) /\ IsFiniteSet(O \ J) /\ IsFiniteSet(R)
      /\ IsFiniteSet(J \cap O)
  <2>1. IsFiniteSet(J) /\ IsFiniteSet(O)
    BY FiniteTable
  <2> HIDE DEF J, O
  <2> QED
    BY <1>1, <2>1, FS_Subset
<1> HIDE DEF J, O, R
<1>4. /\ Cardinality(P) = Cardinality(J \ O) + Cardinality(B)
      /\ Cardinality(J \ O) \in Nat /\ Cardinality(B) \in Nat
  <2>1. Cardinality(P) = Cardinality(J \ O) + Cardinality(B) - Cardinality({})
    BY <1>1, <1>3, FS_Union
  <2> QED
    BY <1>3, <2>1, FS_EmptySet, FS_CardinalityType
<1>5. /\ Cardinality(W) = Cardinality(O \ J) + Cardinality(R)
      /\ Cardinality(O \ J) \in Nat /\ Cardinality(R) \in Nat
  <2>1. Cardinality((O \ J) \cup R) = Cardinality(O \ J) + Cardinality(R) - Cardinality({})
    BY <1>1, <1>3, FS_Union
  <2>2. Cardinality(W) = Cardinality((O \ J) \cup R)
    BY <1>1
  <2> HIDE DEF W
  <2> QED
    BY <1>3, <2>1, <2>2, FS_EmptySet, FS_CardinalityType
<1>6. Cardinality(R) = Cardinality(J \cap O) - Cardinality(B)
  BY <1>1, <1>3, FS_Difference DEF R
<1> QED
  BY <1>2, <1>4, <1>5, <1>6 DEF J, O

LEMMA CountsOfDivision ==
  ASSUME NEW t, EveryoneHasARole(t), NEW n \in Nat
  PROVE  CountsFit(t, n) <=> \E P, W : Division(t, P, W) /\ Divided(P, W, n)
<1> DEFINE J == Judges(t)
           O == Speakers(t)
           judge_only == Cardinality(J \ O)
           speak_only == Cardinality(O \ J)
           both == Cardinality(J \cap O)
           Fit(b) == /\ n <= judge_only + b /\ judge_only + b <= MaxJudges * n
                     /\ n * Cardinality(Teams) <= speak_only + (both - b)
                     /\ speak_only + (both - b) <= n * SpeakersPerRoom
<1>1. CountsFit(t, n) <=> \E b \in 0..both : Fit(b)
  BY DEF CountsFit
<1>2. IsFiniteSet(J \cap O)
  <2>1. IsFiniteSet(J)
    BY FiniteTable
  <2> HIDE DEF J, O
  <2> QED
    BY <2>1, FS_Subset
<1>3. ASSUME NEW b \in 0..both, Fit(b)
      PROVE  \E P, W : Division(t, P, W) /\ Divided(P, W, n)
  <2>1. PICK B \in SUBSET (J \cap O) : Cardinality(B) = b
    <3> HIDE DEF J, O
    <3> QED
      BY <1>2, SubsetOfSize
  <2> DEFINE P == (J \ O) \cup B
             W == SignedUp(t) \ P
  <2>2. /\ Division(t, P, W) /\ Cardinality(P) = judge_only + b
        /\ Cardinality(W) = speak_only + (both - b)
    BY <2>1, DivisionOfChoice
  <2> HIDE DEF P, W
  <2>3. Divided(P, W, n)
    BY <1>3, <2>2 DEF Divided
  <2> QED
    BY <2>2, <2>3
<1>4. ASSUME NEW P, NEW W, Division(t, P, W), Divided(P, W, n)
      PROVE  \E b \in 0..both : Fit(b)
  <2> DEFINE B == P \cap (J \cap O)
             b == Cardinality(B)
  <2>1. P = (J \ O) \cup B /\ W = SignedUp(t) \ P
    BY <1>4 DEF Division, EveryoneHasARole
  <2>2. Cardinality(P) = judge_only + b /\ Cardinality(W) = speak_only + (both - b)
    BY <2>1, DivisionOfChoice
  <2>3. b \in 0..both
    <3>1. B \subseteq J \cap O
      OBVIOUS
    <3> HIDE DEF B, J, O
    <3>2. IsFiniteSet(B) /\ Cardinality(B) <= both
      BY <1>2, <3>1, FS_Subset
    <3> QED
      BY <1>2, <3>2, FS_CardinalityType
  <2>4. Fit(b)
    BY <1>4, <2>2 DEF Divided
  <2> HIDE DEF b, Fit
  <2> QED
    BY <2>3, <2>4
<1> HIDE DEF Fit, both
<1> QED
  BY <1>1, <1>3, <1>4

-----------------------------------------------------------------------------

\* The integer program of solve_lp has a solution exactly if, for some number of
\* rooms up to r_max and some number of those willing to do both, there are
\* enough judges and not too many, and the speakers fill the teams and fit them:
\* whatever the members are, and whoever wants what.
THEOREM FeasibilityIsCounting ==
  ASSUME NEW t
  PROVE  FeasibleByCounting(t)
<1> SUFFICES ASSUME EveryoneHasARole(t)
             PROVE  (PossibleDraws(t) # {}) <=> \E n \in 0..RMax(t) : CountsFit(t, n)
  BY DEF FeasibleByCounting
<1>1. ASSUME PossibleDraws(t) # {}
      PROVE  \E n \in 0..RMax(t) : CountsFit(t, n)
  BY <1>1, DivisionOfDraw, CountsOfDivision
<1>2. ASSUME NEW n \in 0..RMax(t), CountsFit(t, n)
      PROVE  PossibleDraws(t) # {}
  <2>1. n \in Nat
    OBVIOUS
  <2> QED
    BY <1>2, <2>1, CountsOfDivision, DrawOfDivision
<1> QED
  BY <1>1, <1>2

\* The same of every sign-up table that solve_lp is given.
THEOREM AlwaysFeasibleByCounting == Spec => []FeasibleExactlyByCounting
<1>1. FeasibleExactlyByCounting /\ FeasibleExactlyByCounting'
  BY FeasibilityIsCounting DEF FeasibleExactlyByCounting
<1> QED
  BY <1>1, PTL

-----------------------------------------------------------------------------
(* What the checks of generate_draw are worth.                              *)

\* As many rooms as o speakers need, rounded up: they are not more than r_max or
\* the judges, every team gets a speaker, and no team more than two.
LEMMA RoomsForSpeakers ==
  ASSUME NEW T \in Nat \ {0}, NEW o \in Nat, NEW s \in Nat, NEW j \in Nat,
         T <= o, o <= s, o <= j * (2 * T)
  PROVE  LET n == CeilDiv(o, 2 * T)
         IN  /\ n \in Nat \ {0} /\ n <= CeilDiv(s, 2 * T) /\ n <= j
             /\ n * T <= o /\ o <= 2 * (n * T)
<1> DEFINE d == 2 * T
           n == CeilDiv(o, d)
           r == CeilDiv(s, d)
<1>1. d \in Nat \ {0} /\ d = T + T
  OBVIOUS
<1> HIDE DEF d
<1>2. \A k \in Nat : /\ CeilDiv(k, d) \in Int
                     /\ CeilDiv(k, d) * d <= k + d - 1
                     /\ k <= CeilDiv(k, d) * d
  BY <1>1 DEF CeilDiv
<1> HIDE DEF n, r
<1>3. n \in Int /\ r \in Int /\ n * d <= o + d - 1 /\ o <= n * d /\ s <= r * d
  BY <1>2 DEF n, r
<1>4. n > 0
  <2>1. \A k \in Int : k <= 0 => k * d <= 0
    BY <1>1
  <2> QED
    BY <1>1, <1>3, <2>1
<1>5. \A a, b \in Int : a > b => a * d >= b * d + d
  BY <1>1
<1>6. n <= r /\ n <= j
  <2>1. j * d \in Int /\ r * d \in Int /\ n * d \in Int
    BY <1>1, <1>3
  <2>2. ~ (n > r)
    BY <1>1, <1>3, <1>5, <2>1
  <2>3. ~ (n > j)
    BY <1>1, <1>3, <1>5, <2>1 DEF d
  <2> QED
    BY <1>3, <2>2, <2>3
<1>7. n * d = n * T + n * T
  BY <1>1, <1>3
<1>8. n * T \in Int /\ (n = 1 => n * T = T) /\ (n > 1 => n * T >= T + T)
  BY <1>3
<1>9. n * T <= o
  BY <1>1, <1>3, <1>4, <1>7, <1>8
<1> QED
  BY <1>3, <1>4, <1>6, <1>7, <1>8, <1>9 DEF n, r, d

\* The checks of generate_draw are enough: if they pass, everyone has a role, and
\* the judges are not more than a hundred for each room that those who only speak
\* need, then the program has a solution, however many are willing to do both
\* (_check_valid_solution_exists).  All of them can judge.
THEOREM ChecksAreEnough ==
  ASSUME NEW t,
         Cardinality(Judges(t)) <=
           MaxJudges * CeilDiv(Cardinality(Speakers(t) \ Judges(t)), SpeakersPerRoom)
  PROVE  ChecksSuffice(t)
<1> SUFFICES ASSUME BasicChecks(t), EveryoneHasARole(t)
             PROVE  PossibleDraws(t) # {}
  BY DEF ChecksSuffice
<1> DEFINE J == Judges(t)
           O == Speakers(t)
           T == Cardinality(Teams)
           j == Cardinality(J)
           o == Cardinality(O \ J)
           s == Cardinality(O)
           n == CeilDiv(o, 2 * T)
<1>1. IsFiniteSet(J) /\ IsFiniteSet(O) /\ T \in Nat \ {0}
  BY FiniteTable, TeamsAssumption, FS_CardinalityType, FS_EmptySet
<1> HIDE DEF J, O
<1>2. IsFiniteSet(O \ J) /\ o <= s
  BY <1>1, FS_Subset
<1>3. j \in Nat /\ o \in Nat /\ s \in Nat
  BY <1>1, <1>2, FS_CardinalityType
<1>4. j = Cardinality(J \ O) + Cardinality(J \cap O) /\ Cardinality(J \cap O) \in Nat
  <2>1. IsFiniteSet(J \ O) /\ IsFiniteSet(J \cap O)
    BY <1>1, FS_Subset
  <2>2. Cardinality(J \ O) = Cardinality(J) - Cardinality(J \cap O)
    BY <1>1, FS_Difference
  <2> QED
    BY <1>3, <2>1, <2>2, FS_CardinalityType
<1>5. T <= o /\ o <= j * (2 * T)
  BY <1>3 DEF BasicChecks, SpeakersPerRoom, J, O
<1>6. j <= MaxJudges * n
  BY DEF SpeakersPerRoom, J, O
<1>7. RMax(t) = CeilDiv(s, 2 * T)
  BY DEF RMax, SpeakersPerRoom, O
<1> HIDE DEF j, o, s, T
<1>8. /\ n \in Nat \ {0} /\ n <= CeilDiv(s, 2 * T) /\ n <= j
      /\ n * T <= o /\ o <= 2 * (n * T)
  BY <1>1, <1>2, <1>3, <1>5, RoomsForSpeakers
<1>9. n \in 0..RMax(t)
  <2>1. CeilDiv(s, 2 * T) \in Int
    BY <1>1, <1>3 DEF CeilDiv
  <2> QED
    BY <1>7, <1>8, <2>1
<1>10. CountsFit(t, n)
  <2> HIDE DEF n
  <2>1. n * SpeakersPerRoom = 2 * (n * T)
    BY <1>1, <1>8 DEF SpeakersPerRoom, T
  <2> DEFINE both == Cardinality(J \cap O)
  <2>2. /\ n <= Cardinality(J \ O) + both /\ Cardinality(J \ O) + both <= MaxJudges * n
        /\ both \in 0..both
    BY <1>4, <1>6, <1>8
  <2>3. o + (both - both) = o
    BY <1>3, <1>4
  <2> HIDE DEF both
  <2> QED
    BY <1>8, <2>1, <2>2, <2>3 DEF CountsFit, both, o, T, J, O
<1> QED
  BY <1>9, <1>10, FeasibilityIsCounting DEF FeasibleByCounting

\* In a society of at most a hundred members the checks are always enough, for
\* every sign-up table that solve_lp is given.
THEOREM ChecksOfSmallSocietiesSuffice ==
  ASSUME Cardinality(Members) <= MaxJudges
  PROVE  Spec => []ChecksAlwaysSuffice
<1>1. ASSUME NEW t
      PROVE  ChecksSuffice(t)
  <2> SUFFICES ASSUME BasicChecks(t)
               PROVE  ChecksSuffice(t)
    BY DEF ChecksSuffice
  <2> DEFINE O == Speakers(t) \ Judges(t)
             o == Cardinality(O)
             j == Cardinality(Judges(t))
             T == Cardinality(Teams)
  <2>1. T \in Nat \ {0} /\ IsFiniteSet(O)
    BY FiniteTable, TeamsAssumption, FS_CardinalityType, FS_EmptySet, FS_Subset
  <2>2. o \in Nat /\ j \in Nat /\ Cardinality(Members) \in Nat
    BY <2>1, FiniteTable, MembersAssumption, FS_CardinalityType
  <2>3. j <= Cardinality(Members)
    <3>1. Judges(t) \subseteq Members
      BY DEF Judges, SignedUp
    <3> QED
      BY <3>1, MembersAssumption, FS_Subset
  <2>4. T <= o /\ o <= o /\ o <= j * (2 * T)
    BY <2>2 DEF BasicChecks, SpeakersPerRoom
  <2> HIDE DEF o, j, T
  <2>5. CeilDiv(o, 2 * T) \in Nat \ {0}
    BY <2>1, <2>2, <2>4, RoomsForSpeakers
  <2>6. j <= MaxJudges * CeilDiv(o, 2 * T)
    BY <2>2, <2>3, <2>5 DEF MaxJudges
  <2> QED
    BY <2>6, ChecksAreEnough DEF o, j, T, SpeakersPerRoom
<1>2. ChecksAlwaysSuffice /\ ChecksAlwaysSuffice'
  BY <1>1 DEF ChecksAlwaysSuffice
<1> QED
  BY <1>2, PTL

\* In a larger one they are not: those who only judge have nowhere to go beyond a
\* hundred for each room up to r_max, which no check counts.
THEOREM JudgesMayBeTooMany ==
  ASSUME NEW t, EveryoneHasARole(t),
         Cardinality(Judges(t) \ Speakers(t)) > MaxJudges * RMax(t)
  PROVE  PossibleDraws(t) = {}
<1> SUFFICES ASSUME NEW n \in 0..RMax(t), CountsFit(t, n)
             PROVE  FALSE
  BY FeasibilityIsCounting DEF FeasibleByCounting
<1> DEFINE j == Cardinality(Judges(t) \ Speakers(t))
<1>1. PICK b \in Nat : j + b <= MaxJudges * n
  BY DEF CountsFit
<1>2. j \in Nat
  BY FiniteTable, FS_Subset, FS_CardinalityType
<1>3. RMax(t) \in Int
  <2>1. Cardinality(Teams) \in Nat \ {0} /\ Cardinality(Speakers(t)) \in Nat
    BY FiniteTable, TeamsAssumption, FS_CardinalityType, FS_EmptySet
  <2> QED
    BY <2>1 DEF RMax, CeilDiv, SpeakersPerRoom
<1> QED
  BY <1>1, <1>2, <1>3 DEF MaxJudges
==============================================================================
