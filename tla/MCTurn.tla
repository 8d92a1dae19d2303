------------------------------- MODULE MCTurn -------------------------------
(* Small instances of Turn for TLC. *)
EXTENDS Turn

CONSTANTS n1

\* A text of each class that the policy and the intent tell apart.
Text(hits, bugs, word) == [hits |-> hits, bugs |-> bugs, word |-> word, image |-> FALSE]
Says(hits, bugs, word) == [kind |-> "text", text |-> Text(hits, bugs, word)]

MCMessages ==
  {Says({}, 0, w) : w \in Words}
    \cup {Says({"vague"}, 0, ""), Says({"progress"}, 0, ""), Says({"knowledge"}, 0, ""),
          Says({"verified"}, 0, ""), Says({}, 1, ""), Says({"verified"}, 1, "")}
    \cup {[kind |-> "image", text |-> Text({"shot"}, 1, "")],
          [kind |-> "voice", text |-> Text({}, 1, "")],
          [kind |-> "other", text |-> NoText]}
=============================================================================
