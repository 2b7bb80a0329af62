------------------------------- MODULE MCSite --------------------------------
(* Constants for model-checking Site. *)
EXTENDS Site, TLC

\* One address in two spellings.
LowerCase == [a \in Addresses |-> "ada@"]

OneGroup == [s \in Series |-> CHOOSE g \in Groups : TRUE]

\* User names, and the addresses of members, differ in their names only, and so
\* do series: all belong to one group.
Alike == Permutations(Usernames) \cup Permutations(Emails) \cup Permutations(Series)
==============================================================================
