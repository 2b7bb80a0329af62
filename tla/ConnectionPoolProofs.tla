------------------------- MODULE ConnectionPoolProofs -------------------------
(* The pool, for any number of visitors and connections. *)
EXTENDS ConnectionPool, SequenceTheorems, FiniteSetTheorems, TLAPS

-----------------------------------------------------------------------------
(* What a request has still to pass.                                        *)

GuardLists == {<<>>, <<"db">>, <<"user">>, <<"db", "user">>, <<"user", "db">>}

LEMMA GuardsDiffer ==
  /\ <<>> # <<"db">> /\ <<>> # <<"user">>
  /\ <<>> # <<"db", "user">> /\ <<>> # <<"user", "db">>
  /\ <<"db">> # <<"user">> /\ <<"db">> # <<"db", "user">> /\ <<"db">> # <<"user", "db">>
  /\ <<"user">> # <<"db", "user">> /\ <<"user">> # <<"user", "db">>
  /\ <<"db", "user">> # <<"user", "db">>
OBVIOUS

LEMMA GuardCases ==
  ASSUME NEW g \in GuardLists
  PROVE  /\ g # <<>> => Head(g) \in {"db", "user"} /\ Tail(g) \in GuardLists
         /\ g = <<"db", "user">> => Head(g) = "db" /\ Tail(g) = <<"user">>
         /\ g = <<"user", "db">> => Head(g) = "user" /\ Tail(g) = <<"db">>
         /\ g = <<"db">> => Head(g) = "db" /\ Tail(g) = <<>>
         /\ g = <<"user">> => Head(g) = "user" /\ Tail(g) = <<>>
<1>1. /\ Head(<<"db", "user">>) = "db" /\ Head(<<"user", "db">>) = "user"
      /\ Head(<<"db">>) = "db" /\ Head(<<"user">>) = "user"
  OBVIOUS
<1>2. Tail(<<"db", "user">>) = <<"user">> /\ Tail(<<"user", "db">>) = <<"db">>
  OBVIOUS
<1>3. Tail(<<"db">>) = <<>> /\ Tail(<<"user">>) = <<>>
  OBVIOUS
<1> QED
  BY <1>1, <1>2, <1>3 DEF GuardLists

-----------------------------------------------------------------------------
(* The invariant.                                                           *)

PoolTypeOK ==
  /\ phase \in [Requests -> {"away", "guards", "tasks"}]
  /\ guards \in [Requests -> GuardLists]
  /\ leases \subseteq Requests \X {"db", "user"}
  /\ IsFiniteSet(leases) /\ Cardinality(leases) <= Size
  /\ waiting \in Seq(Requests)

WaitsOnce == \A i, j \in DOMAIN waiting : waiting[i] = waiting[j] => i = j

\* A request waits only for a connection that its next guard does not have yet.
WaitsForTheNext ==
  \A r \in Requests :
    Waits(r) => guards[r] # <<>> /\ <<r, Head(guards[r])>> \notin leases

\* Which leases go with which guards still to pass: the account is being loaded,
\* the handler's connection is there, or the request is over and has neither.
LeasesMatchGuards ==
  \A r \in Requests :
    /\ phase[r] # "guards" => guards[r] = <<>>
    /\ phase[r] = "away" => \A l \in leases : l[1] # r
    /\ <<r, "user">> \in leases => guards[r] # <<>> /\ Head(guards[r]) = "user"
    /\ <<r, "db">> \in leases => guards[r] \in {<<>>, <<"user">>}
    /\ guards[r] \in {<<"user">>, <<"db", "user">>} => r \in DbFirst

PoolInv == PoolTypeOK /\ WaitsOnce /\ WaitsForTheNext /\ LeasesMatchGuards

LEMMA PoolInit == Init => PoolInv
BY FS_EmptySet, PoolAssumption
   DEF Init, PoolInv, PoolTypeOK, GuardLists, WaitsOnce, WaitsForTheNext,
       LeasesMatchGuards, Waits

-----------------------------------------------------------------------------
(* The queue.                                                               *)

LEMMA AskedLast ==
  ASSUME PoolInv, NEW r \in Requests, ~ Waits(r), waiting' = Append(waiting, r)
  PROVE  /\ waiting' \in Seq(Requests)
         /\ WaitsOnce'
         /\ \A q : Waits(q)' <=> Waits(q) \/ q = r
<1>1. /\ waiting \in Seq(Requests) /\ waiting' \in Seq(Requests)
      /\ Len(waiting') = Len(waiting) + 1
      /\ \A i \in 1..Len(waiting) : waiting'[i] = waiting[i]
      /\ waiting'[Len(waiting) + 1] = r
  BY AppendProperties DEF PoolInv, PoolTypeOK
<1>2. /\ Len(waiting) \in Nat /\ DOMAIN waiting = 1..Len(waiting)
      /\ DOMAIN waiting' = 1..Len(waiting')
  BY <1>1, LenProperties
<1>3. DOMAIN waiting' = (DOMAIN waiting) \cup {Len(waiting) + 1}
  BY <1>1, <1>2
<1> QED
  BY <1>1, <1>2, <1>3 DEF PoolInv, WaitsOnce, Waits

LEMMA HeadLeaves ==
  ASSUME PoolInv, waiting # <<>>, waiting' = Tail(waiting)
  PROVE  /\ Head(waiting) \in Requests /\ Waits(Head(waiting))
         /\ waiting' \in Seq(Requests)
         /\ WaitsOnce'
         /\ \A q : Waits(q)' => Waits(q) /\ q # Head(waiting)
<1>1. /\ waiting \in Seq(Requests) /\ waiting' \in Seq(Requests)
      /\ Head(waiting) \in Requests
      /\ Len(waiting') = Len(waiting) - 1
      /\ \A i \in 1..Len(waiting') : waiting'[i] = waiting[i + 1]
  BY HeadTailProperties DEF PoolInv, PoolTypeOK
<1>2. /\ Len(waiting) \in Nat \ {0} /\ DOMAIN waiting = 1..Len(waiting)
      /\ DOMAIN waiting' = 1..Len(waiting')
      /\ Head(waiting) = waiting[1]
  BY <1>1, LenProperties, EmptySeq
<1>3. \A i \in DOMAIN waiting' : i \in Int /\ i + 1 \in DOMAIN waiting /\ i + 1 # 1
                                 /\ waiting'[i] = waiting[i + 1]
  BY <1>1, <1>2
<1>4. 1 \in DOMAIN waiting
  BY <1>2
<1> QED
  BY <1>1, <1>2, <1>3, <1>4 DEF PoolInv, WaitsOnce, Waits

LEMMA OneLeaves ==
  ASSUME PoolInv, NEW n \in DOMAIN waiting, waiting' = RemoveAt(waiting, n)
  PROVE  /\ waiting[n] \in Requests /\ Waits(waiting[n])
         /\ waiting' \in Seq(Requests)
         /\ WaitsOnce'
         /\ \A q : Waits(q)' => Waits(q) /\ q # waiting[n]
<1> DEFINE before == SubSeq(waiting, 1, n - 1)
           after == SubSeq(waiting, n + 1, Len(waiting))
<1>1. /\ waiting \in Seq(Requests) /\ Len(waiting) \in Nat
      /\ DOMAIN waiting = 1..Len(waiting) /\ n \in 1..Len(waiting)
      /\ \A i \in 1..Len(waiting) : waiting[i] \in Requests
  BY LenProperties, ElementOfSeq DEF PoolInv, PoolTypeOK
<1>2. /\ before \in Seq(Requests) /\ Len(before) = n - 1
      /\ \A i \in 1..n - 1 : before[i] = waiting[i]
  BY <1>1, SubSeqProperties
<1>3. /\ after \in Seq(Requests) /\ Len(after) = Len(waiting) - n
      /\ \A i \in 1..Len(waiting) - n : after[i] = waiting[n + i]
  BY <1>1, SubSeqProperties
<1>4. waiting' = before \o after
  BY DEF RemoveAt
<1> HIDE DEF before, after
<1>5. /\ waiting' \in Seq(Requests) /\ Len(waiting') = Len(waiting) - 1
      /\ \A i \in 1..Len(waiting) - 1 :
           waiting'[i] = IF i <= n - 1 THEN before[i] ELSE after[i - (n - 1)]
  <2>1. Len(before) + Len(after) = Len(waiting) - 1
    BY <1>1, <1>2, <1>3
  <2>2. /\ before \o after \in Seq(Requests)
        /\ Len(before \o after) = Len(before) + Len(after)
        /\ \A i \in 1..Len(before) + Len(after) : (before \o after)[i] =
             IF i <= Len(before) THEN before[i] ELSE after[i - Len(before)]
    BY <1>2, <1>3, ConcatProperties
  <2> QED
    BY <1>2, <1>4, <2>1, <2>2
<1>6. DOMAIN waiting' = 1..Len(waiting) - 1
  BY <1>5, LenProperties
<1>7. \A i \in DOMAIN waiting' :
        waiting'[i] = IF i < n THEN waiting[i] ELSE waiting[i + 1]
  <2> SUFFICES ASSUME NEW i \in 1..Len(waiting) - 1
               PROVE  waiting'[i] = IF i < n THEN waiting[i] ELSE waiting[i + 1]
    BY <1>6
  <2>1. CASE i < n
    BY <1>1, <1>2, <1>5, <2>1
  <2>2. CASE i >= n
    <3>1. i - (n - 1) \in 1..Len(waiting) - n /\ n + (i - (n - 1)) = i + 1
      BY <1>1, <2>2
    <3>2. ~ (i <= n - 1) /\ i \in 1..Len(waiting) - 1
      BY <1>1, <2>2
    <3>3. waiting'[i] = after[i - (n - 1)]
      BY <1>5, <3>2
    <3>4. after[i - (n - 1)] = waiting[i + 1]
      BY <1>3, <3>1
    <3> QED
      BY <1>1, <2>2, <3>3, <3>4
  <2> QED
    BY <1>1, <2>1, <2>2
<1>8. \A i, j \in DOMAIN waiting' : waiting'[i] = waiting'[j] => i = j
  BY <1>1, <1>6, <1>7 DEF PoolInv, WaitsOnce
<1>9. \A i \in DOMAIN waiting' : waiting'[i] # waiting[n]
                                 /\ \E j \in DOMAIN waiting : waiting'[i] = waiting[j]
  BY <1>1, <1>6, <1>7 DEF PoolInv, WaitsOnce
<1> QED
  BY <1>1, <1>5, <1>8, <1>9 DEF WaitsOnce, Waits

-----------------------------------------------------------------------------
(* The steps.                                                               *)

\* A request may end when it waits no longer: its leases go with it.
LEMMA EndKeepsPoolInv ==
  ASSUME PoolInv, NEW r \in Requests, EndOf(r),
         waiting' \in Seq(Requests), WaitsOnce',
         \A q : Waits(q)' => Waits(q) /\ q # r
  PROVE  PoolInv'
<1>1. /\ leases' \subseteq leases /\ IsFiniteSet(leases')
      /\ Cardinality(leases') <= Size
  <2>1. IsFiniteSet(leases) /\ Cardinality(leases) <= Size /\ leases' \subseteq leases
    BY DEF EndOf, PoolInv, PoolTypeOK
  <2>2. /\ IsFiniteSet(leases') /\ Cardinality(leases') <= Cardinality(leases)
        /\ Cardinality(leases') \in Nat /\ Cardinality(leases) \in Nat
    BY <2>1, FS_Subset, FS_CardinalityType
  <2> QED
    BY <2>1, <2>2, PoolAssumption
<1>2. /\ phase'[r] = "away" /\ guards'[r] = <<>> /\ \A l \in leases' : l[1] # r
      /\ \A q \in Requests : q # r => phase'[q] = phase[q] /\ guards'[q] = guards[q]
  BY DEF EndOf, PoolInv, PoolTypeOK
<1>3. PoolTypeOK'
  BY <1>1 DEF EndOf, PoolInv, PoolTypeOK, GuardLists
<1>4. WaitsForTheNext'
  BY <1>1, <1>2 DEF PoolInv, WaitsForTheNext
<1>5. LeasesMatchGuards'
  <2>1. <<r, "user">> \notin leases' /\ <<r, "db">> \notin leases'
    BY DEF EndOf
  <2> QED
    BY <1>1, <1>2, <2>1, GuardsDiffer DEF PoolInv, LeasesMatchGuards
<1> QED
  BY <1>3, <1>4, <1>5 DEF PoolInv

\* Nobody waits who has no guard left to pass or loads an account.
LEMMA WhoDoesNotWait ==
  ASSUME PoolInv, NEW r \in Requests, guards[r] = <<>> \/ <<r, "user">> \in leases
  PROVE  ~ Waits(r)
BY DEF PoolInv, WaitsForTheNext, LeasesMatchGuards

LEMMA LeaseKeepsPoolInv ==
  ASSUME PoolInv, Lease
  PROVE  PoolInv'
<1> DEFINE r == Head(waiting)
           l == <<r, Head(guards[r])>>
<1>1. /\ r \in Requests /\ Waits(r) /\ waiting' \in Seq(Requests) /\ WaitsOnce'
      /\ \A q : Waits(q)' => Waits(q) /\ q # r
  BY HeadLeaves DEF Lease
<1>2. leases' = leases \cup {l} /\ UNCHANGED phase /\ Cardinality(leases) # Size
  BY DEF Lease, Pass, Exhausted
<1>3. \/ Head(guards[r]) = "db" /\ guards' = [guards EXCEPT ![r] = Tail(@)]
      \/ Head(guards[r]) # "db" /\ guards' = guards
  BY DEF Lease, Pass
<1> HIDE DEF r
<1>4. /\ guards[r] # <<>> /\ l \notin leases /\ guards[r] \in GuardLists
      /\ phase[r] = "guards" /\ Head(guards[r]) \in {"db", "user"}
  BY <1>1, GuardCases DEF PoolInv, WaitsForTheNext, LeasesMatchGuards, PoolTypeOK
<1>5. IsFiniteSet(leases') /\ Cardinality(leases') <= Size
  <2>1. IsFiniteSet(leases) /\ Cardinality(leases) <= Size
    BY DEF PoolInv, PoolTypeOK
  <2>2. /\ IsFiniteSet(leases \cup {l})
        /\ Cardinality(leases \cup {l}) = Cardinality(leases) + 1
        /\ Cardinality(leases) \in Nat
    BY <1>4, <2>1, FS_AddElement, FS_CardinalityType
  <2> QED
    BY <1>2, <2>1, <2>2, PoolAssumption
<1>6. PoolTypeOK'
  <2>1. guards' \in [Requests -> GuardLists]
    BY <1>3, <1>4, GuardCases DEF PoolInv, PoolTypeOK
  <2>2. leases' \subseteq Requests \X {"db", "user"}
    BY <1>1, <1>2, <1>4 DEF PoolInv, PoolTypeOK
  <2> QED
    BY <1>1, <1>2, <1>5, <2>1, <2>2 DEF PoolInv, PoolTypeOK
<1>7. /\ guards'[r] = IF Head(guards[r]) = "db" THEN Tail(guards[r]) ELSE guards[r]
      /\ \A q \in Requests : q # r => guards'[q] = guards[q]
      /\ \A q \in Requests, k \in {"db", "user"} : q # r =>
           (<<q, k>> \in leases' <=> <<q, k>> \in leases)
  BY <1>1, <1>2, <1>3 DEF PoolInv, PoolTypeOK
<1>8. WaitsForTheNext'
  BY <1>1, <1>2, <1>7, GuardCases DEF PoolInv, WaitsForTheNext, PoolTypeOK
<1>9. LeasesMatchGuards'
  <2> SUFFICES ASSUME NEW q \in Requests
               PROVE  /\ phase'[q] # "guards" => guards'[q] = <<>>
                      /\ phase'[q] = "away" => \A k \in leases' : k[1] # q
                      /\ <<q, "user">> \in leases' =>
                           guards'[q] # <<>> /\ Head(guards'[q]) = "user"
                      /\ <<q, "db">> \in leases' => guards'[q] \in {<<>>, <<"user">>}
                      /\ guards'[q] \in {<<"user">>, <<"db", "user">>} => q \in DbFirst
    BY DEF LeasesMatchGuards
  <2>1. CASE q # r
    BY <1>2, <1>7, <2>1 DEF PoolInv, LeasesMatchGuards
  <2>2. CASE q = r /\ Head(guards[r]) = "db"
    <3>1. guards[r] \in {<<"db">>, <<"db", "user">>}
      BY <1>4, <2>2, GuardCases DEF GuardLists
    <3>2. <<r, "user">> \notin leases
      BY <2>2, <1>1 DEF PoolInv, LeasesMatchGuards
    <3>3. <<r, "user">> \notin leases'
      BY <1>2, <2>2, <3>2
    <3>4. guards'[r] \in {<<>>, <<"user">>}
      BY <1>7, <2>2, <3>1, <1>4, GuardCases
    <3>5. guards'[r] = <<"user">> => r \in DbFirst
      BY <1>1, <1>4, <1>7, <2>2, <3>1, GuardCases, GuardsDiffer
         DEF PoolInv, LeasesMatchGuards
    <3> QED
      BY <1>2, <1>4, <2>2, <3>3, <3>4, <3>5, GuardsDiffer
  <2>3. CASE q = r /\ Head(guards[r]) = "user"
    <3>1. guards'[r] = guards[r] /\ (<<r, "db">> \in leases' <=> <<r, "db">> \in leases)
      BY <1>2, <1>7, <2>3
    <3> QED
      BY <1>1, <1>2, <1>4, <2>3, <3>1 DEF PoolInv, LeasesMatchGuards
  <2> QED
    BY <1>4, <2>1, <2>2, <2>3
<1> QED
  BY <1>1, <1>6, <1>8, <1>9 DEF PoolInv

\* The guard User succeeds, or an Option<User> gives up: either way the account
\* is passed and no connection is kept for it.
LEMMA PassKeepsPoolInv ==
  ASSUME PoolInv, NEW r \in Requests, Pass(r), guards[r] # <<>>,
         Head(guards[r]) = "user", leases' = leases \ {<<r, "user">>},
         waiting' \in Seq(Requests), WaitsOnce',
         \A q : Waits(q)' => Waits(q) /\ q # r
  PROVE  PoolInv'
<1>1. /\ guards'[r] = Tail(guards[r]) /\ UNCHANGED phase
      /\ \A q \in Requests : q # r => guards'[q] = guards[q]
      /\ guards[r] \in {<<"user">>, <<"user", "db">>}
      /\ guards'[r] \in {<<>>, <<"db">>}
      /\ guards[r] = <<"user">> => guards'[r] = <<>>
  BY GuardCases DEF Pass, PoolInv, PoolTypeOK, GuardLists
<1>2. /\ leases' \subseteq leases /\ <<r, "user">> \notin leases'
      /\ IsFiniteSet(leases') /\ Cardinality(leases') <= Size
  <2>1. IsFiniteSet(leases) /\ Cardinality(leases) <= Size /\ leases' \subseteq leases
    BY DEF PoolInv, PoolTypeOK
  <2>2. /\ IsFiniteSet(leases') /\ Cardinality(leases') <= Cardinality(leases)
        /\ Cardinality(leases') \in Nat /\ Cardinality(leases) \in Nat
    BY <2>1, FS_Subset, FS_CardinalityType
  <2> QED
    BY <2>1, <2>2, PoolAssumption
<1>3. PoolTypeOK'
  BY <1>1, <1>2 DEF Pass, PoolInv, PoolTypeOK, GuardLists
<1>4. WaitsForTheNext'
  BY <1>1, <1>2 DEF PoolInv, WaitsForTheNext
<1>5. LeasesMatchGuards'
  <2> SUFFICES ASSUME NEW q \in Requests
               PROVE  /\ phase'[q] # "guards" => guards'[q] = <<>>
                      /\ phase'[q] = "away" => \A k \in leases' : k[1] # q
                      /\ <<q, "user">> \in leases' =>
                           guards'[q] # <<>> /\ Head(guards'[q]) = "user"
                      /\ <<q, "db">> \in leases' => guards'[q] \in {<<>>, <<"user">>}
                      /\ guards'[q] \in {<<"user">>, <<"db", "user">>} => q \in DbFirst
    BY DEF LeasesMatchGuards
  <2>1. CASE q # r
    BY <1>1, <1>2, <2>1 DEF PoolInv, LeasesMatchGuards
  <2>2. CASE q = r
    <3>1. phase[r] = "guards"
      BY DEF PoolInv, PoolTypeOK, LeasesMatchGuards
    <3>2. <<r, "db">> \in leases' => guards'[r] = <<>>
      BY <1>1, <1>2 DEF PoolInv, LeasesMatchGuards
    <3> QED
      BY <1>1, <1>2, <2>2, <3>1, <3>2, GuardsDiffer
  <2> QED
    BY <2>1, <2>2
<1> QED
  BY <1>3, <1>4, <1>5 DEF PoolInv

LEMMA PoolStep == PoolInv /\ [Next]_vars => PoolInv'
<1> SUFFICES ASSUME PoolInv, [Next]_vars PROVE PoolInv'
  OBVIOUS
<1>1. \A q : waiting' = waiting => (Waits(q)' <=> Waits(q))
  BY DEF Waits
<1>2. waiting \in Seq(Requests) /\ WaitsOnce
  BY DEF PoolInv, PoolTypeOK
<1>3. waiting' = waiting => WaitsOnce'
  BY <1>2 DEF WaitsOnce
<1>4. ASSUME NEW r \in Requests, Arrive(r) PROVE PoolInv'
  <2>1. /\ phase'[r] = "guards" /\ guards'[r] = Guards(r) /\ guards[r] = <<>>
        /\ \A q \in Requests : q # r => phase'[q] = phase[q] /\ guards'[q] = guards[q]
        /\ UNCHANGED <<leases, waiting>> /\ \A l \in leases : l[1] # r
    BY <1>4 DEF Arrive, PoolInv, PoolTypeOK, LeasesMatchGuards
  <2>2. ~ Waits(r)
    BY <2>1, WhoDoesNotWait
  <2>3. PoolTypeOK'
    BY <1>4, <2>1 DEF Arrive, Guards, PoolInv, PoolTypeOK, GuardLists
  <2>4. WaitsForTheNext'
    BY <1>1, <2>1, <2>2 DEF PoolInv, WaitsForTheNext
  <2>5. LeasesMatchGuards'
    <3>1. guards'[r] \in {<<"user">>, <<"db", "user">>} => r \in DbFirst
      BY <2>1 DEF Guards
    <3>2. <<r, "user">> \notin leases /\ <<r, "db">> \notin leases
      BY <2>1
    <3> QED
      BY <2>1, <3>1, <3>2 DEF PoolInv, LeasesMatchGuards
  <2> QED
    BY <1>3, <2>1, <2>3, <2>4, <2>5 DEF PoolInv
<1>5. ASSUME NEW r \in Requests, Ask(r) PROVE PoolInv'
  <2>1. /\ waiting' \in Seq(Requests) /\ WaitsOnce'
        /\ \A q : Waits(q)' <=> Waits(q) \/ q = r
    BY <1>5, AskedLast DEF Ask
  <2>2. PoolTypeOK' /\ LeasesMatchGuards'
    BY <1>5, <2>1 DEF Ask, PoolInv, PoolTypeOK, LeasesMatchGuards
  <2>3. WaitsForTheNext'
    BY <1>5, <2>1 DEF Ask, PoolInv, WaitsForTheNext
  <2> QED
    BY <2>1, <2>2, <2>3 DEF PoolInv
<1>6. ASSUME NEW r \in Requests, UserIsLoaded(r) PROVE PoolInv'
  <2>1. ~ Waits(r) /\ guards[r] # <<>> /\ Head(guards[r]) = "user"
    BY <1>6, WhoDoesNotWait DEF UserIsLoaded, PoolInv, LeasesMatchGuards
  <2>2. waiting' = waiting
    BY <1>6 DEF UserIsLoaded
  <2>3. \A q : Waits(q)' => Waits(q) /\ q # r
    BY <1>1, <2>1, <2>2
  <2> QED
    BY <1>2, <1>3, <1>6, <2>1, <2>2, <2>3, PassKeepsPoolInv DEF UserIsLoaded
<1>7. ASSUME NEW r \in Requests, UserIsUnknown(r) \/ TasksEnd(r) PROVE PoolInv'
  <2>1. ~ Waits(r) /\ EndOf(r) /\ waiting' = waiting
    BY <1>7, WhoDoesNotWait DEF UserIsUnknown, TasksEnd, PoolInv, LeasesMatchGuards
  <2>2. \A q : Waits(q)' => Waits(q) /\ q # r
    BY <1>1, <2>1
  <2> QED
    BY <1>2, <1>3, <2>1, <2>2, EndKeepsPoolInv
<1>8. ASSUME NEW r \in Requests, Answer(r) PROVE PoolInv'
  <2>1. ~ Waits(r) /\ waiting' = waiting
    BY <1>8, WhoDoesNotWait DEF Answer
  <2>2. \A q : Waits(q)' => Waits(q) /\ q # r
    BY <1>1, <2>1
  <2>3. CASE EndOf(r)
    BY <1>2, <1>3, <2>1, <2>2, <2>3, EndKeepsPoolInv
  <2>4. CASE phase' = [phase EXCEPT ![r] = "tasks"] /\ UNCHANGED <<guards, leases>>
    <3>1. PoolTypeOK' /\ LeasesMatchGuards'
      BY <1>8, <2>1, <2>4 DEF Answer, PoolInv, PoolTypeOK, LeasesMatchGuards
    <3>2. WaitsForTheNext'
      BY <2>2, <2>4 DEF PoolInv, WaitsForTheNext
    <3> QED
      BY <1>3, <2>1, <3>1, <3>2 DEF PoolInv
  <2> QED
    BY <1>8, <2>3, <2>4 DEF Answer
<1>9. ASSUME NEW r \in Requests, TimesOut(r) PROVE PoolInv'
  <2>1. PICK n \in DOMAIN waiting : waiting[n] = r /\ waiting' = RemoveAt(waiting, n)
    BY <1>9 DEF TimesOut
  <2>2. /\ Waits(r) /\ waiting' \in Seq(Requests) /\ WaitsOnce'
        /\ \A q : Waits(q)' => Waits(q) /\ q # r
    BY <2>1, OneLeaves
  <2>3. CASE EndOf(r)
    BY <2>2, <2>3, EndKeepsPoolInv
  <2>4. CASE Head(guards[r]) = "user" /\ Pass(r) /\ UNCHANGED leases
    <3>1. guards[r] # <<>> /\ <<r, "user">> \notin leases
      BY <2>2, <2>4 DEF PoolInv, WaitsForTheNext
    <3>2. leases' = leases \ {<<r, "user">>}
      BY <2>4, <3>1
    <3> QED
      BY <2>2, <2>4, <3>1, <3>2, PassKeepsPoolInv
  <2> QED
    BY <1>9, <2>3, <2>4 DEF TimesOut
<1>10. CASE UNCHANGED vars
  BY <1>1, <1>3, <1>10 DEF vars, PoolInv, PoolTypeOK, WaitsForTheNext, LeasesMatchGuards
<1> QED
  BY <1>4, <1>5, <1>6, <1>7, <1>8, <1>9, <1>10, LeaseKeepsPoolInv DEF Next, Proceed

LEMMA PoolInvariant == Spec => []PoolInv
BY PoolInit, PoolStep, PTL DEF Spec

\* Whichever guard fails, and whatever tasks are left behind, a connection in use
\* has a request, and the pool never hands out more than it has.
THEOREM NothingEverLeaks == Spec => []NothingLeaks
<1>1. PoolInv => NothingLeaks
  BY DEF PoolInv, PoolTypeOK, LeasesMatchGuards, NothingLeaks
<1> QED
  BY <1>1, PoolInvariant, PTL

\* A circle of requests that hold one connection and wait for another consists of
\* handlers that name db before user: those who load an account hold nothing
\* while they wait.
THEOREM OnlyDbFirstEverBlock == Spec => []OnlyDbFirstBlock
<1>1. PoolInv => OnlyDbFirstBlock
  <2> SUFFICES ASSUME PoolInv, NEW l \in leases, Waits(l[1])
               PROVE  l[1] \in DbFirst /\ l[2] = "db"
    BY DEF OnlyDbFirstBlock
  <2>1. /\ l = <<l[1], l[2]>> /\ l[1] \in Requests /\ l[2] \in {"db", "user"}
    BY DEF PoolInv, PoolTypeOK
  <2>2. guards[l[1]] # <<>> /\ l[2] = "db"
    BY <2>1, WhoDoesNotWait DEF PoolInv, WaitsForTheNext
  <2>3. guards[l[1]] = <<"user">>
    BY <2>1, <2>2 DEF PoolInv, LeasesMatchGuards
  <2> QED
    BY <2>1, <2>2, <2>3 DEF PoolInv, LeasesMatchGuards
<1> QED
  BY <1>1, PoolInvariant, PTL
==============================================================================
