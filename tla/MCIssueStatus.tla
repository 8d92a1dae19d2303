---------------------------- MODULE MCIssueStatus ----------------------------
(* Instances of IssueStatus: a record that was linked and also submitted, and one more. *)
EXTENDS IssueStatus, TLC

CONSTANTS A, B, h5, kf, beat, route

TwoRecords == (1 :> A) @@ (2 :> B)
OneRecord == (1 :> A)
SharedRecord == (1 :> A) @@ (2 :> A)
=============================================================================
