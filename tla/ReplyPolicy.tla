----------------------------- MODULE ReplyPolicy -----------------------------
(***************************************************************************)
(* The deterministic reply policy (ChargeReplyPolicy) and the intent of a  *)
(* message (classify_customer_intent).  Both read a message through term   *)
(* lists of shared/charge_service.yaml; here a text is the set of lists it *)
(* hits, the number of its bug terms and, when the whole text is one of    *)
(* the words the bug assistant knows, that word.                           *)
(***************************************************************************)
EXTENDS Integers

CONSTANT MaxPrompts    \* clarification.max_prompts

ASSUME PolicyAssumption == MaxPrompts \in Nat

\* "support" is the pattern "support ... ?"; "shot" the terms that name a
\* screenshot; "verified" stands for the matchers of repair, order and billing.
Terms == {"progress", "capability", "support", "inability", "incident", "strong",
          "informational", "knowledge", "why", "shot", "security", "code", "verified", "vague"}

Words == {"", "resume", "cancel", "switch", "yes"}

\* bugs: the number of bug terms, 2 for two and more.
Texts == [hits : SUBSET Terms, bugs : 0..2, word : Words, image : BOOLEAN]

Silent == [route |-> "none", count |-> 0, exhausted |-> FALSE]
Routes == {"none", "security_refusal", "non_bug_code_info", "verified", "vague_prompt", "vague_exhausted"}

BlocksBugRoute(t) ==
  \/ {"capability", "support"} \cap t.hits # {}
  \/ "knowledge" \in t.hits /\ "why" \notin t.hits
  \/ "why" \in t.hits /\ {"incident", "strong"} \cap t.hits = {}
  \/ /\ "informational" \in t.hits
     /\ {"incident", "inability"} \cap t.hits = {}
     /\ t.bugs <= 1

\* route_target(...) = "B".
RoutesToBug(t) ==
  \/ "progress" \in t.hits
  \/ /\ ~BlocksBugRoute(t)
     /\ \/ t.bugs > 0
        \/ "inability" \in t.hits /\ "capability" \notin t.hits
        \/ t.image /\ "shot" \in t.hits /\ "inability" \in t.hits

VagueResponseLate(count, exhausted) ==
  IF exhausted \/ count > MaxPrompts
  THEN [route |-> "vague_exhausted", count |-> MaxPrompts, exhausted |-> TRUE]
  ELSE [route |-> "vague_prompt", count |-> count + 1, exhausted |-> FALSE]

\* The clarification a vague text gets.
VagueResponse(count, exhausted) ==
  IF exhausted \/ count >= MaxPrompts
  THEN [route |-> "vague_exhausted", count |-> MaxPrompts, exhausted |-> TRUE]
  ELSE [route |-> "vague_prompt", count |-> count + 1, exhausted |-> FALSE]

Reply(route) == [Silent EXCEPT !.route = route]

Evaluate(t, count, exhausted) ==
  IF "security" \in t.hits THEN Reply("security_refusal")
  ELSE IF t.image THEN Silent
  ELSE IF "code" \in t.hits /\ BlocksBugRoute(t) THEN Reply("non_bug_code_info")
  ELSE IF "verified" \in t.hits THEN Reply("verified")
  ELSE IF "vague" \in t.hits THEN VagueResponse(count, exhausted)
  ELSE Silent

VerifiedRoutes == {"verified", "security_refusal", "non_bug_code_info"}

\* The text of an image is never empty (_prepare_input), so that no message is
\* "attachment_only".
Intent(t) ==
  LET verified == Evaluate(t, 0, FALSE).route \in VerifiedRoutes
  IN  IF "progress" \in t.hits THEN [intent |-> "bug_progress", sure |-> TRUE]
      ELSE IF RoutesToBug(t) THEN [intent |-> IF verified THEN "mixed" ELSE "bug_report",
                                   sure |-> ~verified]
      ELSE [intent |-> "qa", sure |-> verified \/ BlocksBugRoute(t)]

\* A question the knowledge base is sure to own (qa with confidence >= 0.9).
IsQuestion(t) == Intent(t) = [intent |-> "qa", sure |-> TRUE]

=============================================================================
