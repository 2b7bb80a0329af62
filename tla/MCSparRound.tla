----------------------------- MODULE MCSparRound -----------------------------
(* Constants for model-checking SparRound. *)
EXTENDS SparClaims, TLC

Form(m, judge, speaker, partner) ==
  [member |-> m, signup |-> [as_judge |-> judge, as_speaker |-> speaker,
                             partner_preference |-> partner]]

Judge(m)    == Form(m, TRUE, FALSE, NoPartner)
Speak(m)    == Form(m, FALSE, TRUE, NoPartner)
Either(m)   == Form(m, TRUE, TRUE, NoPartner)
Neither(m)  == Form(m, FALSE, FALSE, NoPartner)
With(m, p)  == Form(m, FALSE, TRUE, p)

SwapOf(a, b) == [kind |-> "swap", a |-> a, b |-> b]
RemoveOf(m)  == [kind |-> "remove", a |-> m]

\* A member who signs up in neither role, beside a full room.
RolelessForms == {Speak("ann"), Speak("bob"), Judge("cat"), Neither("dan")}

\* One room whose judge may change places with a speaker, for whom another one
\* asks as a partner.
OneRoomForms == {With("ann", "bob"), Speak("bob"), Neither("bob"), Judge("cat")}
OneRoomEdits == {SwapOf("bob", "cat"), SwapOf("bob", "bob"), RemoveOf("bob")}

\* One room with a panel of two judges.
PanelForms == {Speak("ann"), Speak("bob"), Judge("cat"), Judge("dan")}

\* One full room.
SessionForms == {Speak("ann"), Speak("bob"), Judge("cat")}

NoEdits == {}

\* Two drafts differ in their ids only.
DraftSymmetry == Permutations(Drafts)
==============================================================================
