--------------------------- MODULE ConnectionPool ---------------------------
(****************************************************************************)
(* The pool of database connections (make_rocket: ten, and five seconds to  *)
(* wait for one).  A request needs one for its handler, the guard DbConn,   *)
(* and one of its own to load the account, the guard User.  Rocket runs the *)
(* guards in the order of the handler's arguments: whoever names db first   *)
(* keeps a connection while waiting for the other.  Background tasks (mails,*)
(* the solver) share the handler's connection and outlive the answer.       *)
(****************************************************************************)
EXTENDS Sequences, SequencesExt, Integers, FiniteSets

CONSTANTS
  Requests,   \* visitors, each with one request at a time
  DbFirst,    \* those whose handlers name db before user
  Optional,   \* those whose handlers take an Option<User>
  Size        \* pool_size

ASSUME PoolAssumption ==
  DbFirst \subseteq Requests /\ Optional \subseteq Requests /\ Size \in Nat \ {0}

VARIABLES
  phase,      \* of a request: away, in its guards and handler, in its tasks
  guards,     \* the guards that a request has still to pass
  leases,     \* connections in use, each with its request and what it is for
  waiting     \* requests that wait for a connection, first come first served

vars == <<phase, guards, leases, waiting>>

Guards(r) == IF r \in DbFirst THEN <<"db", "user">> ELSE <<"user", "db">>

Waits(r) == \E i \in DOMAIN waiting : waiting[i] = r

Exhausted == Cardinality(leases) = Size

\* A request is over, and whatever it holds goes back to the pool.
EndOf(r) ==
  /\ phase' = [phase EXCEPT ![r] = "away"]
  /\ guards' = [guards EXCEPT ![r] = <<>>]
  /\ leases' = {l \in leases : l[1] # r}

\* The next guard has succeeded.
Pass(r) == guards' = [guards EXCEPT ![r] = Tail(@)] /\ UNCHANGED phase

Init ==
  /\ phase = [r \in Requests |-> "away"]
  /\ guards = [r \in Requests |-> <<>>]
  /\ leases = {}
  /\ waiting = <<>>

-----------------------------------------------------------------------------
(* Steps with a plausible mistake in each, for mutation testing.            *)

\* A guard User that keeps its connection for the handler.
UserIsLoadedAndKeeps(r) ==
  /\ <<r, "user">> \in leases
  /\ Pass(r)
  /\ leases' = (leases \ {<<r, "user">>}) \cup {<<r, "kept">>}
  /\ UNCHANGED waiting

\* A guard that asks again instead of failing.
TimesOutAndRetries(r) ==
  /\ Exhausted
  /\ \E i \in DOMAIN waiting :
       waiting[i] = r /\ waiting' = Append(RemoveAt(waiting, i), r)
  /\ UNCHANGED <<phase, guards, leases>>

\* Tasks that are forgotten with the connection they share.
TasksEndUnnoticed(r) ==
  /\ phase[r] = "tasks"
  /\ phase' = [phase EXCEPT ![r] = "away"]
  /\ UNCHANGED <<guards, leases, waiting>>

-----------------------------------------------------------------------------
(* The model.                                                               *)

Arrive(r) ==
  /\ phase[r] = "away"
  /\ phase' = [phase EXCEPT ![r] = "guards"]
  /\ guards' = [guards EXCEPT ![r] = Guards(r)]
  /\ UNCHANGED <<leases, waiting>>

\* A guard asks the pool.
Ask(r) ==
  /\ guards[r] # <<>> /\ ~ Waits(r)
  /\ <<r, Head(guards[r])>> \notin leases
  /\ waiting' = Append(waiting, r)
  /\ UNCHANGED <<phase, guards, leases>>

\* DbConn has succeeded with its connection; User has a query to make.
Lease ==
  /\ waiting # <<>> /\ ~ Exhausted
  /\ LET r == Head(waiting)
     IN /\ leases' = leases \cup {<<r, Head(guards[r])>>}
        /\ IF Head(guards[r]) = "db" THEN Pass(r) ELSE UNCHANGED <<phase, guards>>
  /\ waiting' = Tail(waiting)

\* User::from_request has the account, and gives its connection back.
UserIsLoaded(r) ==
  /\ <<r, "user">> \in leases
  /\ Pass(r)
  /\ leases' = leases \ {<<r, "user">>}
  /\ UNCHANGED waiting

\* There is no cookie, or no such account, and the handler needs one.
UserIsUnknown(r) ==
  /\ <<r, "user">> \in leases /\ r \notin Optional
  /\ EndOf(r)
  /\ UNCHANGED waiting

\* Five seconds without a connection: the guard fails, and an Option<User> is
\* None.
TimesOut(r) ==
  /\ Exhausted
  /\ \E i \in DOMAIN waiting :
       waiting[i] = r /\ waiting' = RemoveAt(waiting, i)
  /\ IF r \in Optional /\ Head(guards[r]) = "user"
       THEN Pass(r) /\ UNCHANGED leases
       ELSE EndOf(r)

\* The handler has answered, with or without tasks that still hold its Arc.
Answer(r) ==
  /\ phase[r] = "guards" /\ guards[r] = <<>>
  /\ \/ EndOf(r)
     \/ phase' = [phase EXCEPT ![r] = "tasks"] /\ UNCHANGED <<guards, leases>>
  /\ UNCHANGED waiting

\* The mail is delivered, the draw is stored, or the task has panicked.
TasksEnd(r) ==
  /\ phase[r] = "tasks"
  /\ EndOf(r)
  /\ UNCHANGED waiting

Proceed(r) ==
  \/ Ask(r) \/ UserIsLoaded(r) \/ UserIsUnknown(r)
  \/ TimesOut(r) \/ Answer(r) \/ TasksEnd(r)

Next == Lease \/ \E r \in Requests : Arrive(r) \/ Proceed(r)

\* Queries, timers and tasks come to an end, and the pool serves its queue;
\* nobody has to come.
Spec ==
  /\ Init /\ [][Next]_vars
  /\ WF_vars(Lease)
  /\ \A r \in Requests : WF_vars(Proceed(r))

-----------------------------------------------------------------------------

\* Every connection in use belongs to a request in progress or to its tasks,
\* and there are never more than the pool holds: whichever guard fails, and
\* however tasks end, nothing is lost to the pool.
NothingLeaks ==
  /\ \A l \in leases : phase[l[1]] # "away"
  /\ Cardinality(leases) <= Size

\* If all connections are held by requests that wait for another one, all of
\* them are for handlers that name db before user: neither handlers that name
\* user first nor background tasks ever block each other.
OnlyDbFirstBlock ==
  Exhausted /\ (\A l \in leases : Waits(l[1])) =>
    \A l \in leases : l[1] \in DbFirst /\ l[2] = "db"

\* Every request ends, answered or refused: handlers that name db first can
\* wait for each other in a circle, and the timeout of the pool breaks it.
EveryRequestEnds ==
  \A r \in Requests : phase[r] = "guards" ~> phase[r] # "guards"
==============================================================================
