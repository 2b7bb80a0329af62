----------------------------- MODULE SerialStore -----------------------------
(****************************************************************************)
(* What the handlers may take the database for: a store that serves one     *)
(* request at a time.                                                       *)
(****************************************************************************)

CONSTANTS
  Requests,      \* the requests that handlers serve
  InitStore,     \* the database when the server is first started
  Effects(_, _)  \* Effects(r, s): the stores that serving r in s may leave

VARIABLE store

Init == store = InitStore

Next == \E r \in Requests : store' \in Effects(r, store)

Spec == Init /\ [][Next]_store
==============================================================================
