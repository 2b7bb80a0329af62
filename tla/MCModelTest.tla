---------------------------- MODULE MCModelTest -----------------------------
(* Constants for model-checking ModelTest. *)
EXTENDS ModelTest, TLC

\* Names and addresses differ in nothing but whether they are accepted.
Spellings == Permutations(ValidGroupNames) \cup Permutations(ValidMemberNames)
             \cup Permutations(ValidMemberEmails)

JudgeOrSpeaker == {[as_judge |-> b, as_speaker |-> ~ b] : b \in BOOLEAN}
\* Indexes of spars are clamped to the number of sign-ups, so the second spar is
\* named only once there are two of them.
TwoOrThree == [t \in Tables |-> IF t = "signups" THEN 3 ELSE 2]

\* After an assertion has failed, all that matters is how many draws are left:
\* the test takes no other action, and a reset does not read the rows.  The uuid
\* of `last' is read by a step that fails, if it does not generate one itself.
WhatMatters == IF failed THEN <<drawing>> ELSE <<drawing, db, model>>
==============================================================================
