---------------------------- MODULE MCBugReport ----------------------------
(* Instances of BugReport: one or two sessions of one user. *)
EXTENDS BugReport

CONSTANTS s1, s2

OneIdentity == [i \in {s1} |-> <<"session1", "user">>]
TwoSessions == [i \in {s1, s2} |-> IF i = s1 THEN <<"session1", "user">> ELSE <<"session2", "user">>]

Message(text, image) == [turn |-> FALSE, event |-> "", text |-> text, image |-> image,
                         draft |-> NoDraft, force |-> FALSE]
Button(event) == [Message("", FALSE) EXCEPT !.event = event]
Turn(event, text, d, force) == [turn |-> TRUE, event |-> event, text |-> text, image |-> FALSE,
                                draft |-> d, force |-> force]

\* Every event and every reading of a text, with and without an image.
AllInputs ==
  {Message("other", FALSE), Message("other", TRUE), Message("yes", TRUE), Message("no", FALSE),
   Message("cancel", FALSE), Message("resume", FALSE), Message("", TRUE)} \cup
  {Button(ev) : ev \in {"CANCEL", "SUSPEND", "CONFIRM_MATCH"}} \cup
  {Turn("CONFIRM_SUBMIT", "", NoDraft, FALSE), Turn("START_REPORT", "other", NoDraft, TRUE)}

\* A new report, a confirmation and the cancel button.
CancelChat == {Message("other", FALSE), Message("yes", FALSE), Button("CANCEL"),
               [Button("START_REPORT") EXCEPT !.text = "other"]}

=============================================================================
