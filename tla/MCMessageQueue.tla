--------------------------- MODULE MCMessageQueue ---------------------------
(* Small instances of MessageQueue for TLC. *)
EXTENDS MessageQueue

CONSTANTS a, b, cc, a1, b1, c1, d1, d2, m1, m2, u1

\* Worker a1 of consumer a, b1 of b, c1 of cc.
MCOwnerOf == [w \in Workers |-> IF w = a1 THEN a ELSE IF w = b1 THEN b ELSE cc]

\* Two callbacks deliver the same msgid.
SameMsg == [d \in Deliveries |-> m1]

\* Two messages.
OwnMsg == [d \in Deliveries |-> IF d = d1 THEN m1 ELSE m2]

\* ... of one user.
OneUser == [m \in Msgs |-> u1]

\* The calls whose failure the code repairs while the process lives; all but the
\* one whose failure loses a message.
SurvivableFaults == FaultNames \ {"blmove", "claim", "move"}
FaultsButRelease == FaultNames \ {"release"}
=============================================================================
