----------------------------- MODULE Submission -----------------------------
(***************************************************************************)
(* What the Bug v2 path promises about one report: it is linked to a known *)
(* issue or queued; a queued report reaches the shared Feishu table in at  *)
(* most one row and is recorded only once that row exists.  Messages,      *)
(* transactions, retries and crashes are below this level: BugReport       *)
(* implements this specification.                                          *)
(***************************************************************************)
CONSTANTS Drafts, Records

VARIABLES phase,  \* what has become of each draft
          listed  \* the records of the Feishu table that carry the draft's id

vars == <<phase, listed>>

Phases == {"open", "queued", "recorded", "linked"}

Init == /\ phase = [d \in Drafts |-> "open"]
        /\ listed = [d \in Drafts |-> {}]

Move(d, from, to) == /\ phase[d] = from
                     /\ phase' = [phase EXCEPT ![d] = to]

\* The user confirms the submission; the report is stored with its outbox entry.
Queue(d) == Move(d, "open", "queued") /\ UNCHANGED listed

\* The user confirms that a candidate is the same issue.
Link(d) == Move(d, "open", "linked") /\ UNCHANGED listed

\* The row appears in the table: once per draft.
Insert(d, n) == /\ phase[d] = "queued"
                /\ listed[d] = {}
                /\ \A e \in Drafts : n \notin listed[e]
                /\ listed' = [listed EXCEPT ![d] = {n}]
                /\ UNCHANGED phase

\* The database learns of the row.
Record(d) == /\ listed[d] # {}
             /\ Move(d, "queued", "recorded")
             /\ UNCHANGED listed

Next == \E d \in Drafts :
          \/ Queue(d)
          \/ Link(d)
          \/ \E n \in Records : Insert(d, n)
          \/ Record(d)

Spec == Init /\ [][Next]_vars
=============================================================================
