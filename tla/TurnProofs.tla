----------------------------- MODULE TurnProofs -----------------------------
(***************************************************************************)
(* Proofs about Turn, for any messages, any bound on turns and faults, and *)
(* any choice of failing calls.                                            *)
(***************************************************************************)
EXTENDS Turn, TLAPS

-----------------------------------------------------------------------------
(* The policy                                                              *)

\* A clarification keeps its count within the maximum (_vague_response).
LEMMA VagueResponseType ==
  ASSUME NEW count \in 0..MaxPrompts, NEW exhausted \in BOOLEAN
  PROVE  VagueResponse(count, exhausted) \in PolicyType
BY PolicyAssumption DEF VagueResponse, PolicyType, Routes

\* Every verdict of the policy is a route with a legal count (evaluate).
LEMMA EvaluateType ==
  ASSUME NEW t, NEW count \in 0..MaxPrompts, NEW exhausted \in BOOLEAN
  PROVE  Evaluate(t, count, exhausted) \in PolicyType
<1>1. Silent \in PolicyType
  BY PolicyAssumption DEF Silent, PolicyType, Routes
<1>2. \A route \in Routes : Reply(route) \in PolicyType
  BY <1>1 DEF Reply, PolicyType
<1>3. {"security_refusal", "non_bug_code_info", "verified"} \subseteq Routes
  BY DEF Routes
<1> QED BY <1>1, <1>2, <1>3, VagueResponseType DEF Evaluate

\* What the knowledge base owns is never routed to the bug assistant
\* (classify_customer_intent, route_target).
LEMMA QuestionIsNoReport ==
  ASSUME NEW t, IsQuestion(t)
  PROVE  /\ ~RoutesToBug(t)
         /\ Evaluate(t, 0, FALSE).route \in VerifiedRoutes \/ BlocksBugRoute(t)
BY DEF IsQuestion, Intent

\* The verdicts that verify a question do not depend on the clarifications before it.
LEMMA VerifiedWhateverCount ==
  ASSUME NEW t, NEW count \in 0..MaxPrompts, NEW exhausted \in BOOLEAN,
         Evaluate(t, 0, FALSE).route \in VerifiedRoutes
  PROVE  Evaluate(t, count, exhausted) # Silent
BY PolicyAssumption DEF Evaluate, Reply, Silent, VagueResponse, VerifiedRoutes

-----------------------------------------------------------------------------
(* Types                                                                   *)

LEMMA IdleType == Idle \in TurnType
BY PolicyAssumption
   DEF Idle, TurnType, Pcs, Kinds, NoText, Texts, Words, NoConv, ConvType, Silent, PolicyType, Routes, Replies

LEMMA NoConvType ==
  /\ NoConv \in ConvType
  /\ \A a, b \in BOOLEAN : [NoConv EXCEPT !.active = a, !.suspended = b] \in ConvType
<1>1. NoConv \in ConvType
  BY PolicyAssumption DEF NoConv, ConvType
<1> QED BY <1>1 DEF ConvType

LEMMA InitType == Init => TypeOK
BY IdleType, PolicyAssumption, TurnAssumption
   DEF Init, TypeOK, NoConv, ConvType, NoDraft, Phases

LEMMA UnvagueType ==
  ASSUME NEW st \in ConvType
  PROVE  Unvague(st) \in ConvType
<1>1. 0 \in 0..MaxPrompts
  BY PolicyAssumption
<1>2. [st EXCEPT !.count = 0] \in ConvType
  BY <1>1 DEF ConvType
<1> QED BY <1>2 DEF Unvague, ConvType

\* The route keeps the locals of a turn typed.
LEMMA RoutedType ==
  ASSUME NEW r \in TurnType
  PROVE  Routed(r) \in TurnType
<1> DEFINE st == [active |-> r.st.active /\ r.policy.route # "verified", suspended |-> r.st.suspended,
                  count |-> r.policy.count, exhausted |-> r.policy.exhausted]
<1>1. st \in ConvType
  BY DEF TurnType, ConvType, PolicyType
<1>2. PolicyKind(r.policy) \in Replies
  BY DEF PolicyKind, Replies
<1>3. EventFor(r.text.word) \in {"", "SUSPEND", "RESUME", "CANCEL"}
  BY DEF EventFor
<1>4. Unvague(r.st) \in ConvType
  BY UnvagueType DEF TurnType
<1>5. CASE r.policy # Silent
  <2>1. Routed(r) = [r EXCEPT !.pc = "save", !.reply = PolicyKind(r.policy), !.st = st]
    BY <1>5 DEF Routed
  <2>2. "save" \in Pcs
    BY DEF Pcs
  <2> HIDE DEF st
  <2> QED BY <2>1, <2>2, <1>1, <1>2 DEF TurnType
<1>6. CASE r.policy = Silent
  <2>1. \/ Routed(r) = [r EXCEPT !.pc = "v2", !.event = EventFor(r.text.word)]
        \/ Routed(r) = [r EXCEPT !.pc = "save", !.reply = "blocked"]
        \/ Routed(r) = [r EXCEPT !.pc = "ai", !.st = Unvague(@)]
    BY <1>6 DEF Routed
  <2>2. {"v2", "save", "ai"} \subseteq Pcs /\ "blocked" \in Replies
    BY DEF Pcs, Replies
  <2>3. [r EXCEPT !.pc = "v2", !.event = EventFor(r.text.word)] \in TurnType
    BY <1>3, <2>2 DEF TurnType
  <2>4. [r EXCEPT !.pc = "save", !.reply = "blocked"] \in TurnType
    BY <2>2 DEF TurnType
  <2>5. [r EXCEPT !.pc = "ai", !.st = Unvague(@)] \in TurnType
    BY <1>4, <2>2 DEF TurnType
  <2> QED BY <2>1, <2>3, <2>4, <2>5
<1> QED BY <1>5, <1>6

\* A failing call ends the turn.
LEMMA FailsType ==
  ASSUME TypeOK, NEW op, Fails(op)
  PROVE  turn' \in TurnType /\ faults' \in 0..MaxFaults
BY IdleType, TurnAssumption DEF Fails, Fault, TypeOK

LEMMA FaultType ==
  ASSUME TypeOK, NEW op, Fault(op)
  PROVE  faults' \in 0..MaxFaults
BY TurnAssumption DEF Fault, TypeOK

\* What a message becomes on its way to the route is a text.
LEMMA InputType ==
  ASSUME NEW kind \in Kinds, NEW t \in Texts, NEW failed \in BOOLEAN
  PROVE  Input(kind, t, failed) \in Texts
<1>1. NoText \in Texts
  <2>1. {} \in SUBSET Terms /\ 0 \in 0..2 /\ "" \in Words
    BY DEF Words
  <2> QED BY <2>1 DEF NoText, Texts
<1>2. \A said \in Texts, b \in BOOLEAN : [said EXCEPT !.image = b] \in Texts
  BY DEF Texts
<1> QED BY <1>1, <1>2 DEF Input

LEMMA PolicyReplyType ==
  ASSUME NEW r \in TurnType
  PROVE  PolicyReply(r) \in PolicyType
<1>1. r.st.count \in 0..MaxPrompts /\ r.st.exhausted \in BOOLEAN
  BY DEF TurnType, ConvType
<1> QED BY <1>1, EvaluateType DEF PolicyReply

\* An event leaves a draft a draft.
LEMMA DraftedType ==
  ASSUME TypeOK, NEW event, NEW phase \in Phases
  PROVE  Drafted(event, phase) \in [phase : Phases, asked : BOOLEAN]
<1>1. draft.asked \in BOOLEAN
  BY DEF TypeOK
<1> QED BY <1>1 DEF Drafted

LEMMA TargetsType ==
  ASSUME NEW event \in {"SUSPEND", "RESUME", "CANCEL", "START", "PATCH"}
  PROVE  Targets(event) \subseteq Phases
BY DEF Targets, Phases

LEMMA MeaningType ==
  ASSUME NEW event \in {"", "SUSPEND", "RESUME", "CANCEL"}
  PROVE  Meaning(event) \in {"SUSPEND", "RESUME", "CANCEL", "START", "PATCH"}
BY DEF Meaning

LEMMA AnswersType ==
  ASSUME TypeOK, NEW event \in {"", "SUSPEND", "RESUME", "CANCEL"}, NEW phase, Answers(event, phase)
  PROVE  /\ phase \in Phases
         /\ draft' \in [phase : Phases, asked : BOOLEAN]
         /\ faults' \in 0..MaxFaults
<1>1. phase \in Phases
  BY MeaningType, TargetsType DEF Answers
<1> QED BY <1>1, DraftedType DEF Answers, TypeOK

LEMMA RaisesType ==
  ASSUME TypeOK, NEW event \in {"", "SUSPEND", "RESUME", "CANCEL"}, Raises(event)
  PROVE  draft' \in [phase : Phases, asked : BOOLEAN] /\ faults' \in 0..MaxFaults
<1>1. \A p \in Targets(Meaning(event)) : p \in Phases
  BY MeaningType, TargetsType
<1>2. CASE UNCHANGED <<draft, faults>>
  BY <1>2 DEF TypeOK
<1>3. CASE /\ Fault("v2")
           /\ draft' \in {draft} \cup {Drafted(Meaning(event), p) : p \in Targets(Meaning(event))}
  <2>1. draft' = draft \/ \E p \in Phases : draft' = Drafted(Meaning(event), p)
    BY <1>1, <1>3
  <2>2. faults' \in 0..MaxFaults
    BY <1>3, FaultType
  <2>3. draft \in [phase : Phases, asked : BOOLEAN]
    BY DEF TypeOK
  <2>4. \A p \in Phases : Drafted(Meaning(event), p) \in [phase : Phases, asked : BOOLEAN]
    BY DraftedType
  <2> QED BY <2>1, <2>2, <2>3, <2>4
<1> QED BY <1>2, <1>3 DEF Raises

\* What becomes of a turn whose input is prepared.
LEMMA Prepared ==
  ASSUME turn \in TurnType, Prepare
  PROVE  \/ turn' = [turn EXCEPT !.pc = "mark"]
         \/ turn' = [turn EXCEPT !.pc = "send", !.reply = "canned"]
         \/ \E pc \in {"handoff", "route"}, failed \in BOOLEAN :
               turn' = [turn EXCEPT !.pc = pc, !.text = Input(turn.kind, turn.text, failed)]
<1>1. PICK failed \in BOOLEAN : \E form \in Form(turn.kind, failed) :
        turn' = CASE form = "none"   -> [turn EXCEPT !.pc = "mark"]
                  [] form = "canned" -> [turn EXCEPT !.pc = "send", !.reply = "canned"]
                  [] form = "text"   -> [turn EXCEPT !.pc = IF protocol = "kf" THEN "handoff" ELSE "route",
                                                     !.text = Input(turn.kind, turn.text, failed)]
  BY DEF Prepare
<1>2. turn.kind \in Kinds
  BY DEF TurnType
<1>3. Form(turn.kind, failed) \subseteq {"none", "canned", "text"}
  BY <1>2 DEF Form, Kinds
<1>4. PICK pc \in {"handoff", "route"} : pc = IF protocol = "kf" THEN "handoff" ELSE "route"
  OBVIOUS
<1> QED BY <1>1, <1>3, <1>4

\* A turn that moves on stays typed, ...
LEMMA TurnGoes ==
  ASSUME NEW r \in TurnType
  PROVE  \A pc \in Pcs : [r EXCEPT !.pc = pc] \in TurnType
BY DEF TurnType

\* ... also with a reply and with flags.
LEMMA TurnMoves ==
  ASSUME NEW r \in TurnType, NEW pc \in Pcs, NEW reply \in Replies, NEW st \in ConvType
  PROVE  /\ [r EXCEPT !.pc = pc] \in TurnType
         /\ [r EXCEPT !.pc = pc, !.reply = reply] \in TurnType
         /\ [r EXCEPT !.pc = pc, !.reply = reply, !.st = st] \in TurnType
<1>1. [r EXCEPT !.pc = pc] \in TurnType
  BY DEF TurnType
<1>2. [r EXCEPT !.pc = pc, !.reply = reply] \in TurnType
  BY DEF TurnType
<1>3. [r EXCEPT !.pc = pc, !.reply = reply, !.st = st] \in TurnType
  BY DEF TurnType
<1> QED BY <1>1, <1>2, <1>3

LEMMA StepType ==
  ASSUME TypeOK, [Next]_vars
  PROVE  TypeOK'
<1> USE DEF TypeOK, history
<1>0. turn \in TurnType /\ conv \in ConvType
  OBVIOUS
<1>1. ASSUME NEW m \in Messages, Begin(m) PROVE TypeOK'
  <2>1. m.kind \in Kinds /\ m.text \in Texts
    BY TurnAssumption
  <2>2. turn' \in TurnType
    BY <1>1, <2>1, IdleType DEF Begin, TurnType, Pcs
  <2>3. turns' \in 0..MaxTurns
    BY <1>1, TurnAssumption DEF Begin
  <2> QED BY <1>1, <2>2, <2>3 DEF Begin
<1>2. ASSUME NEW n \in Notices, Notify(n) PROVE TypeOK'
  BY <1>2 DEF Notify
<1>3. CASE Crash
  BY <1>3, FailsType DEF Crash
<1>4. CASE Lapse
  <2>1. resets' \in Nat
    BY <1>4 DEF Lapse, Recount
  <2> QED BY <1>4, <2>1, NoConvType DEF Lapse
<1>5. CASE Expire
  BY <1>5 DEF Expire, NoDraft, Phases
<1>6. CASE ReadState
  <2>1. {} \in SUBSET Notices /\ notices \in SUBSET Notices /\ "prepare" \in Pcs
    BY DEF Pcs
  <2>2. \A c \in SUBSET Notices : [turn EXCEPT !.pc = "prepare", !.st = conv, !.carried = c] \in TurnType
    BY <1>0, <2>1 DEF TurnType
  <2>3. [turn EXCEPT !.pc = "prepare", !.st = conv] \in TurnType
    BY <1>0, <2>1 DEF TurnType
  <2>4. CASE \/ \E c \in SUBSET Notices : turn' = [turn EXCEPT !.pc = "prepare", !.st = conv, !.carried = c]
             \/ turn' = [turn EXCEPT !.pc = "prepare", !.st = conv]
    <3>1. faults' \in 0..MaxFaults
      BY <1>6, FailsType, FaultType DEF ReadState
    <3>2. turn' \in TurnType
      BY <2>2, <2>3, <2>4
    <3> QED BY <1>6, <3>1, <3>2 DEF ReadState
  <2>5. CASE Fails("get")
    BY <1>6, <2>5, FailsType DEF ReadState
  <2> QED BY <1>6, <2>1, <2>4, <2>5 DEF ReadState
<1>7. CASE Prepare
  <2>1. \A failed \in BOOLEAN : Input(turn.kind, turn.text, failed) \in Texts
    BY <1>0, InputType DEF TurnType
  <2>2. {"mark", "send", "handoff", "route"} \subseteq Pcs /\ "canned" \in Replies
    BY DEF Pcs, Replies
  <2>3. turn' \in TurnType
    <3>1. \A pc \in Pcs, t \in Texts : [turn EXCEPT !.pc = pc, !.text = t] \in TurnType
      BY <1>0 DEF TurnType
    <3>2. /\ [turn EXCEPT !.pc = "mark"] \in TurnType
          /\ [turn EXCEPT !.pc = "send", !.reply = "canned"] \in TurnType
      BY <1>0, <2>2, TurnMoves
    <3>3. \A pc \in {"handoff", "route"}, failed \in BOOLEAN :
            [turn EXCEPT !.pc = pc, !.text = Input(turn.kind, turn.text, failed)] \in TurnType
      BY <2>1, <2>2, <3>1
    <3>4. \/ turn' = [turn EXCEPT !.pc = "mark"]
          \/ turn' = [turn EXCEPT !.pc = "send", !.reply = "canned"]
          \/ \E pc \in {"handoff", "route"}, failed \in BOOLEAN :
                turn' = [turn EXCEPT !.pc = pc, !.text = Input(turn.kind, turn.text, failed)]
      BY <1>0, <1>7, Prepared
    <3>5. ASSUME NEW pc \in {"handoff", "route"}, NEW failed \in BOOLEAN,
                 turn' = [turn EXCEPT !.pc = pc, !.text = Input(turn.kind, turn.text, failed)]
          PROVE  turn' \in TurnType
      BY <3>3, <3>5
    <3> QED BY <3>2, <3>4, <3>5
  <2>4. faults' \in 0..MaxFaults
    BY <1>7, FaultType DEF Prepare
  <2> QED BY <1>7, <2>3, <2>4 DEF Prepare
<1>8. CASE Handoff
  <2>1. turn' \in TurnType
    <3>1. {"mark", "route"} \subseteq Pcs
      BY DEF Pcs
    <3>2. PICK pc \in {"mark", "route"} : turn' = [turn EXCEPT !.pc = pc]
      BY <1>8 DEF Handoff
    <3> QED BY <1>0, <3>1, <3>2, TurnGoes
  <2> QED BY <1>8, <2>1 DEF Handoff
<1>9. CASE Route
  <2>1. [turn EXCEPT !.policy = PolicyReply(turn)] \in TurnType
    BY <1>0, PolicyReplyType DEF TurnType
  <2>2. turn' \in TurnType
    <3>1. Routed(turn) \in TurnType /\ Routed([turn EXCEPT !.policy = PolicyReply(turn)]) \in TurnType
      BY <1>0, <2>1, RoutedType
    <3>2. [turn EXCEPT !.pc = "progress"] \in TurnType /\ [turn EXCEPT !.pc = "suspend"] \in TurnType
      <4>1. {"progress", "suspend"} \subseteq Pcs
        BY DEF Pcs
      <4> QED BY <1>0, <4>1, TurnGoes
    <3>3. \/ turn' = Routed([turn EXCEPT !.policy = PolicyReply(turn)])
          \/ turn' = [turn EXCEPT !.pc = "progress"]
          \/ turn' = [turn EXCEPT !.pc = "suspend"]
          \/ turn' = Routed(turn)
      BY ONLY <1>9 DEF Route
    <3> QED BY ONLY <3>1, <3>2, <3>3
  <2> QED BY <1>9, <2>2 DEF Route
<1>10. CASE Progress
  <2>1. turn' \in TurnType /\ faults' \in 0..MaxFaults
    <3>1. "save" \in Pcs /\ "progress" \in Replies
      BY DEF Pcs, Replies
    <3>2. [turn EXCEPT !.pc = "save", !.reply = "progress"] \in TurnType
      BY <1>0, <3>1 DEF TurnType
    <3>3. CASE Fails("lookup")
      BY <3>3, FailsType
    <3>4. CASE turn' = [turn EXCEPT !.pc = "save", !.reply = "progress"] /\ UNCHANGED faults
      BY <3>2, <3>4
    <3> QED BY <1>10, <3>3, <3>4 DEF Progress
  <2> QED BY <1>10, <2>1 DEF Progress
<1>11. CASE Suspend
  <2>1. Called(TRUE) \in TurnType /\ Called(FALSE) \in TurnType
    BY <1>0 DEF Called, TurnType
  <2>2. [Called(TRUE) EXCEPT !.st.active = FALSE, !.st.suspended = TRUE, !.policy = PolicyReply(turn)] \in TurnType
    BY <1>0, <2>1, PolicyReplyType DEF TurnType, ConvType
  <2>3. turn' \in TurnType
    <3>1. [Called(FALSE) EXCEPT !.pc = "sorry", !.sorry = TRUE] \in TurnType
      BY <2>1 DEF TurnType, Pcs
    <3> QED BY <1>11, <2>2, <3>1, RoutedType DEF Suspend
  <2>4. draft' \in [phase : Phases, asked : BOOLEAN] /\ faults' \in 0..MaxFaults
    BY <1>11, AnswersType, RaisesType DEF Suspend
  <2> QED BY <1>11, <2>3, <2>4 DEF Suspend
<1>12. CASE Sorry
  <2>1. turn.st \in ConvType
    BY <1>0 DEF TurnType
  <2>2. turn' \in TurnType /\ faults' \in 0..MaxFaults
    BY <1>0, <1>12, RoutedType, FailsType DEF Sorry
  <2>3. conv' \in ConvType
    BY <1>12, <2>1 DEF Sorry
  <2> QED BY <1>12, <2>2, <2>3 DEF Sorry
<1>13. CASE RunBugV2
  <2>1. turn.event \in {"", "SUSPEND", "RESUME", "CANCEL"} /\ turn.st.active \in BOOLEAN
    BY <1>0 DEF TurnType, ConvType
  <2>2. Called(TRUE) \in TurnType /\ Called(FALSE) \in TurnType
    BY <1>0 DEF Called, TurnType
  <2>3. /\ \A phase \in Phases : Remembered(phase) \in ConvType
        /\ [NoConv EXCEPT !.active = turn.st.active] \in ConvType
    <3>1. [NoConv EXCEPT !.active = turn.st.active] \in ConvType
      BY <2>1, NoConvType DEF ConvType
    <3> QED BY <3>1, NoConvType DEF Remembered
  <2>4. turn' \in TurnType
    <3>0. "save" \in Pcs /\ "v2" \in Replies
      BY DEF Pcs, Replies
    <3> HIDE DEF TypeOK
    <3>1. \A r \in TurnType, st \in ConvType : [r EXCEPT !.pc = "save", !.reply = "v2", !.st = st] \in TurnType
      BY <3>0, TurnMoves
    <3>2. \/ \E phase \in Phases :
                turn' = [Called(TRUE) EXCEPT !.pc = "save", !.reply = "v2", !.st = Remembered(phase)]
          \/ turn' = [Called(FALSE) EXCEPT !.pc = "save", !.reply = "v2",
                         !.st = [NoConv EXCEPT !.active = turn.st.active]]
      BY <1>13 DEF RunBugV2
    <3>3. \A phase \in Phases :
            [Called(TRUE) EXCEPT !.pc = "save", !.reply = "v2", !.st = Remembered(phase)] \in TurnType
      BY <2>2, <2>3, <3>1
    <3>4. [Called(FALSE) EXCEPT !.pc = "save", !.reply = "v2",
             !.st = [NoConv EXCEPT !.active = turn.st.active]] \in TurnType
      BY <2>2, <2>3, <3>1
    <3> QED BY <3>2, <3>3, <3>4
  <2>5. draft' \in [phase : Phases, asked : BOOLEAN] /\ faults' \in 0..MaxFaults
    BY <1>13, <2>1, AnswersType, RaisesType DEF RunBugV2
  <2> QED BY <1>13, <2>4, <2>5 DEF RunBugV2
<1>14. CASE Marker
  <2>1. \A b \in BOOLEAN : Called(b) \in TurnType
    BY <1>0 DEF Called, TurnType
  <2>2. {"policy", "v2"} \subseteq Replies /\ "save" \in Pcs
    BY DEF Replies, Pcs
  <2>3. turn' \in TurnType
    <3>1. \A k, b \in BOOLEAN :
            [Called(k) EXCEPT !.pc = "save", !.reply = "v2", !.st.active = b] \in TurnType
      <4> SUFFICES ASSUME NEW k \in BOOLEAN, NEW b \in BOOLEAN
                   PROVE  [Called(k) EXCEPT !.pc = "save", !.reply = "v2", !.st.active = b] \in TurnType
        OBVIOUS
      <4>1. PICK r \in TurnType : r = Called(k)
        BY <2>1
      <4>2. r.st \in ConvType
        BY DEF TurnType
      <4>3. [r.st EXCEPT !.active = b] \in ConvType
        BY <4>2 DEF ConvType
      <4>4. [r EXCEPT !.pc = "save", !.reply = "v2", !.st = [r.st EXCEPT !.active = b]] \in TurnType
        BY <2>2, <4>3, TurnMoves
      <4>5. [r EXCEPT !.pc = "save", !.reply = "v2", !.st.active = b]
              = [r EXCEPT !.pc = "save", !.reply = "v2", !.st = [r.st EXCEPT !.active = b]]
        BY DEF TurnType
      <4> QED BY <4>1, <4>4, <4>5
    <3>2. [turn EXCEPT !.pc = "save", !.reply = "policy"] \in TurnType
      BY <1>0, <2>2, TurnMoves
    <3>3. \/ turn' = [turn EXCEPT !.pc = "save", !.reply = "policy"]
          \/ \E b, k \in BOOLEAN : turn' = [Called(k) EXCEPT !.pc = "save", !.reply = "v2", !.st.active = b]
      BY <1>14 DEF Marker
    <3> QED BY <3>1, <3>2, <3>3
  <2>4. draft' \in [phase : Phases, asked : BOOLEAN] /\ faults' \in 0..MaxFaults
    BY <1>14, AnswersType, RaisesType DEF Marker
  <2> QED BY <1>14, <2>3, <2>4 DEF Marker
<1>15. CASE Ai
  <2>1. turn' \in TurnType /\ faults' \in 0..MaxFaults
    <3>1. {"save", "send"} \subseteq Pcs /\ {"faq", "marker", "apology"} \subseteq Replies
      BY DEF Pcs, Replies
    <3>2. faults' \in 0..MaxFaults
      BY <1>15, FaultType DEF Ai
    <3>3. PICK pc \in {"save", "send"}, reply \in {"faq", "marker", "apology"} :
            turn' = [turn EXCEPT !.pc = pc, !.reply = reply]
      BY <1>15 DEF Ai
    <3>4. pc \in Pcs /\ reply \in Replies
      BY <3>1
    <3>5. [turn EXCEPT !.pc = pc, !.reply = reply] \in TurnType
      BY <1>0, <3>4, TurnMoves
    <3>6. turn' \in TurnType
      BY ONLY <3>3, <3>5, Zenon
    <3> QED BY ONLY <3>2, <3>6
  <2> QED BY <1>15, <2>1 DEF Ai
<1>16. CASE Save
  <2>1. turn.st \in ConvType /\ turn.knows \in BOOLEAN
    BY <1>0 DEF TurnType
  <2>2. turn' \in TurnType /\ faults' \in 0..MaxFaults
    BY <1>0, <1>16, FailsType DEF Save, TurnType, Pcs
  <2>3. conv' \in ConvType /\ settled' \in BOOLEAN
    BY <1>16, <2>1 DEF Save
  <2>4. resets' \in Nat
    BY <1>16 DEF Save, Recount
  <2> QED BY <1>16, <2>2, <2>3, <2>4 DEF Save
<1>17. CASE Send
  <2>1. turn' \in TurnType /\ faults' \in 0..MaxFaults
    BY <1>0, <1>17, FailsType DEF Send, TurnType, Pcs
  <2>2. prompts' \in Nat /\ resets' \in Nat /\ shown' \subseteq Notices
    <3>1. turn.carried \subseteq Notices
      BY <1>0 DEF TurnType
    <3>3. Arrives \/ UNCHANGED <<shown, prompts, resets>>
      BY <1>17 DEF Send
    <3>4. CASE Arrives
      BY <3>1, <3>4 DEF Arrives
    <3>5. CASE UNCHANGED <<shown, prompts, resets>>
      BY <3>5
    <3> QED BY <3>3, <3>4, <3>5
  <2> QED BY <1>17, <2>1, <2>2 DEF Send
<1>18. CASE MarkDone
  <2>1. turn' \in TurnType /\ faults' \in 0..MaxFaults
    <3>1. "ack" \in Pcs
      BY DEF Pcs
    <3>2. [turn EXCEPT !.pc = "ack"] \in TurnType
      BY <1>0, <3>1 DEF TurnType
    <3> QED BY <1>18, <3>2, IdleType DEF MarkDone
  <2> QED BY <1>18, <2>1 DEF MarkDone
<1>19. CASE Acknowledge
  <2>1. turn' \in TurnType /\ faults' \in 0..MaxFaults
    BY <1>19, IdleType, FailsType DEF Acknowledge
  <2> QED BY <1>19, <2>1 DEF Acknowledge
<1>20. CASE UNCHANGED vars
  BY <1>20 DEF vars
<1> QED
  BY <1>1, <1>2, <1>3, <1>4, <1>5, <1>6, <1>7, <1>8, <1>9, <1>10, <1>11, <1>12, <1>13, <1>14, <1>15,
     <1>16, <1>17, <1>18, <1>19, <1>20 DEF Next

\* The flags, the draft and the locals of a turn stay typed, and a clarification is never
\* counted past its maximum.
THEOREM TypeCorrectness == Spec => []TypeOK
<1>1. Init => TypeOK
  BY InitType
<1>2. TypeOK /\ [Next]_vars => TypeOK'
  BY StepType
<1> QED BY <1>1, <1>2, PTL DEF Spec

-----------------------------------------------------------------------------
(* The route                                                               *)

\* What Routed leaves alone and what it decides.
LEMMA RoutedFacts ==
  ASSUME NEW r \in TurnType
  PROVE  /\ Routed(r).pc \in {"v2", "save", "ai"}
         /\ Routed(r).text = r.text /\ Routed(r).carried = r.carried /\ Routed(r).policy = r.policy
         /\ Routed(r).called = r.called /\ Routed(r).knows = r.knows /\ Routed(r).sorry = r.sorry
         /\ Routed(r).st.suspended = r.st.suspended
         /\ Routed(r).st.active <=> r.st.active /\ r.policy.route # "verified"
         /\ Routed(r).pc = "save" =>
               \/ r.policy # Silent /\ Routed(r).reply = PolicyKind(r.policy)
                                   /\ Routed(r).st.count = r.policy.count
               \/ Routed(r).reply = "blocked"
         /\ Routed(r).pc \in {"v2", "ai"} => r.policy = Silent /\ Routed(r).reply = r.reply
         /\ Routed(r).pc = "v2" /\ Routed(r).event = "" => Starts(r)
<1> DEFINE st == [active |-> r.st.active /\ r.policy.route # "verified", suspended |-> r.st.suspended,
                  count |-> r.policy.count, exhausted |-> r.policy.exhausted]
<1>1. CASE r.policy # Silent
  <2>1. Routed(r) = [r EXCEPT !.pc = "save", !.reply = PolicyKind(r.policy), !.st = st]
    BY <1>1 DEF Routed
  <2>2. /\ st.suspended = r.st.suspended /\ st.count = r.policy.count
        /\ st.active <=> r.st.active /\ r.policy.route # "verified"
    OBVIOUS
  <2> HIDE DEF st
  <2> QED BY <1>1, <2>1, <2>2 DEF TurnType
<1>2. CASE r.policy = Silent
  <2>1. r.policy.route = "none" /\ r.st.active \in BOOLEAN
    <3>1. r.st \in ConvType
      BY DEF TurnType
    <3> QED BY <1>2, <3>1 DEF Silent, ConvType
  <2>2. \/ /\ Routed(r) = [r EXCEPT !.pc = "v2", !.event = EventFor(r.text.word)]
           /\ Starts(r) \/ r.text.word \in {"resume", "cancel"}
        \/ Routed(r) = [r EXCEPT !.pc = "save", !.reply = "blocked"]
        \/ Routed(r) = [r EXCEPT !.pc = "ai", !.st = Unvague(@)]
    BY <1>2 DEF Routed
  <2>3. CASE /\ Routed(r) = [r EXCEPT !.pc = "v2", !.event = EventFor(r.text.word)]
             /\ Starts(r) \/ r.text.word \in {"resume", "cancel"}
    BY <1>2, <2>1, <2>3 DEF TurnType, EventFor
  <2>4. CASE Routed(r) = [r EXCEPT !.pc = "save", !.reply = "blocked"]
    BY <1>2, <2>1, <2>4 DEF TurnType
  <2>5. CASE Routed(r) = [r EXCEPT !.pc = "ai", !.st = Unvague(@)]
    <3>1. r.st \in ConvType
      BY DEF TurnType
    <3>2. Unvague(r.st).active = r.st.active /\ Unvague(r.st).suspended = r.st.suspended
      BY <3>1 DEF Unvague, ConvType
    <3> QED BY <1>2, <2>1, <2>5, <3>2 DEF TurnType
  <2> QED BY <2>2, <2>3, <2>4, <2>5
<1> QED BY <1>1, <1>2

\* A verdict that asks counts, one that has asked enough has reached the maximum.
LEMMA PolicyCounts ==
  ASSUME NEW t, NEW count \in 0..MaxPrompts, NEW exhausted \in BOOLEAN
  PROVE  LET p == Evaluate(t, count, exhausted)
         IN  /\ PolicyKind(p) = "prompt" => p.count = count + 1
             /\ PolicyKind(p) = "exhausted" => p.count = MaxPrompts
<1>1. \A route \in {"security_refusal", "non_bug_code_info", "verified"} : PolicyKind(Reply(route)) = "policy"
  BY DEF PolicyKind, Reply, Silent
<1>2. PolicyKind(Silent) = "policy"
  BY DEF PolicyKind, Silent
<1>3. /\ PolicyKind(VagueResponse(count, exhausted)) = "prompt" => VagueResponse(count, exhausted).count = count + 1
      /\ PolicyKind(VagueResponse(count, exhausted)) = "exhausted" => VagueResponse(count, exhausted).count = MaxPrompts
  BY DEF PolicyKind, VagueResponse
<1> QED BY <1>1, <1>2, <1>3 DEF Evaluate

-----------------------------------------------------------------------------
(* Notifications                                                           *)

Undecided == {"prepare", "handoff", "route", "progress", "suspend", "sorry"}

\* There is no reply before the route, and behind the send what a reply carried is shown.
CarriedInv ==
  /\ turn.pc \in {"read"} \cup Undecided => turn.reply = ""
  /\ turn.pc \in {"mark", "ack"} /\ turn.reply # "" => turn.carried \subseteq shown
  /\ turn.pc = "ack" => turn.reply # ""

LEMMA CarriedStep ==
  ASSUME TypeOK, TypeOK', CarriedInv, [Next]_vars
  PROVE  CarriedInv'
<1> USE DEF CarriedInv, At, Fails, Undecided
<1>0. turn \in TurnType /\ Idle.pc = "idle" /\ Idle.reply = ""
  BY DEF TypeOK, Idle
<1>1. ASSUME NEW m \in Messages, Begin(m) PROVE CarriedInv'
  BY <1>1 DEF Begin, Idle
<1>2. CASE (\E n \in Notices : Notify(n)) \/ Lapse \/ Expire
  BY <1>2 DEF Notify, Lapse, Expire, history
<1>3. CASE Crash \/ ReadState \/ Handoff
  BY <1>0, <1>3 DEF Crash, ReadState, Handoff, TurnType, history
<1>4. CASE Prepare
  <2>1. \/ turn'.pc = "mark" /\ turn'.reply = ""
        \/ turn'.pc = "send"
        \/ turn'.pc = "handoff" /\ turn'.reply = ""
        \/ turn'.pc = "route" /\ turn'.reply = ""
    <3>1. turn.reply = ""
      BY <1>4 DEF Prepare
    <3> QED BY <1>0, <1>4, <3>1, Prepared DEF TurnType
  <2> QED BY <2>1
<1>5. CASE Route \/ Suspend \/ Sorry
  <2>1. \/ turn'.pc \in {"v2", "save", "ai", "idle"}
        \/ turn'.pc \in {"progress", "suspend", "sorry"} /\ turn'.reply = ""
    <3>1. \A b \in BOOLEAN : Called(b) \in TurnType
      BY <1>0 DEF Called, TurnType
    <3>2. [turn EXCEPT !.policy = PolicyReply(turn)] \in TurnType
      BY <1>0, PolicyReplyType DEF TurnType
    <3>3. [Called(TRUE) EXCEPT !.st.active = FALSE, !.st.suspended = TRUE, !.policy = PolicyReply(turn)] \in TurnType
      BY <1>0, <3>1, PolicyReplyType DEF TurnType, ConvType
    <3>4. CASE Route
      <4>1. Routed(turn).pc \in {"v2", "save", "ai"}
        BY <1>0, RoutedFacts
      <4>2. Routed([turn EXCEPT !.policy = PolicyReply(turn)]).pc \in {"v2", "save", "ai"}
        BY <3>2, RoutedFacts
      <4>3. \/ turn' = Routed([turn EXCEPT !.policy = PolicyReply(turn)])
            \/ turn' = [turn EXCEPT !.pc = "progress"]
            \/ turn' = [turn EXCEPT !.pc = "suspend"]
            \/ turn' = Routed(turn)
        BY ONLY <3>4 DEF Route
      <4>4. turn.reply = ""
        BY <3>4 DEF Route
      <4>5. ASSUME NEW pc \in {"progress", "suspend"}, turn' = [turn EXCEPT !.pc = pc]
            PROVE  turn'.pc = pc /\ turn'.reply = ""
        BY ONLY <1>0, <4>4, <4>5 DEF TurnType
      <4> QED BY ONLY <4>1, <4>2, <4>3, <4>5
    <3>5. CASE Suspend
      <4>1. CASE turn' = [Called(FALSE) EXCEPT !.pc = "sorry", !.sorry = TRUE]
        BY <1>0, <3>5, <4>1 DEF Suspend, Called, TurnType
      <4>2. CASE turn' = Routed([Called(TRUE) EXCEPT !.st.active = FALSE, !.st.suspended = TRUE,
                                                     !.policy = PolicyReply(turn)])
        BY <3>3, <4>2, RoutedFacts
      <4> QED BY <3>5, <4>1, <4>2 DEF Suspend
    <3>6. CASE Sorry
      BY <1>0, <3>6, RoutedFacts DEF Sorry
    <3> QED BY <1>5, <3>4, <3>5, <3>6
  <2> QED BY <2>1
<1>6. CASE Progress \/ RunBugV2 \/ Marker \/ Ai \/ Save
  <2>1. turn'.pc \in {"save", "send", "marker", "idle"}
    BY <1>0, <1>6 DEF Progress, RunBugV2, Marker, Ai, Save, TurnType, Called
  <2> QED BY <2>1
<1>7. CASE Send
  BY <1>0, <1>7 DEF Send, Arrives, TurnType
<1>8. CASE MarkDone \/ Acknowledge
  BY <1>0, <1>8 DEF MarkDone, Acknowledge, TurnType, history
<1>9. CASE UNCHANGED vars
  BY <1>9 DEF vars
<1> QED
  BY <1>1, <1>2, <1>3, <1>4, <1>5, <1>6, <1>7, <1>8, <1>9 DEF Next

\* A notification leaves the list of those that wait only after a reply with it has been sent.
THEOREM AckedWasShownHolds == Spec => AckedWasShown
<1>1. Init => TypeOK /\ CarriedInv
  <2>1. Idle.pc = "idle"
    BY DEF Idle
  <2>2. Init => turn = Idle
    BY DEF Init
  <2> QED BY <2>1, <2>2, InitType DEF CarriedInv, Undecided
<1>2. TypeOK /\ CarriedInv /\ [Next]_vars => (TypeOK /\ CarriedInv)'
  BY StepType, CarriedStep
<1>3. TypeOK /\ CarriedInv /\ [Next]_vars => [notices \ notices' \subseteq shown]_vars
  <2> SUFFICES ASSUME TypeOK, CarriedInv, Next PROVE notices \ notices' \subseteq shown
    OBVIOUS
  <2>1. CASE Acknowledge
    BY <2>1 DEF Acknowledge, CarriedInv, At
  <2>2. CASE \E n \in Notices : Notify(n)
    BY <2>2 DEF Notify
  <2>3. CASE UNCHANGED notices
    BY <2>3
  <2>4. Acknowledge \/ (\E n \in Notices : Notify(n)) \/ UNCHANGED notices
    BY DEF Next, Begin, Crash, Lapse, Expire, ReadState, Prepare, Handoff, Route, Progress, Suspend, Sorry,
           RunBugV2, Marker, Ai, Save, Send, MarkDone
  <2> QED BY <2>1, <2>2, <2>3, <2>4
<1> QED BY <1>1, <1>2, <1>3, PTL DEF Spec, AckedWasShown

-----------------------------------------------------------------------------
(* Clarifications                                                          *)

\* What the resets of the count allow beyond the count itself.
Spare == MaxPrompts * resets

LEMMA SpareFacts ==
  \A n \in Nat : /\ MaxPrompts * n \in Nat /\ MaxPrompts * 0 = 0
                 /\ MaxPrompts * (n + 1) = MaxPrompts * n + MaxPrompts
                 /\ MaxPrompts * (1 + n) = MaxPrompts * n + MaxPrompts
BY PolicyAssumption

\* What has been asked is counted in Redis, before it is sent, or made up for by a reset; up
\* to the route, a turn knows the count in Redis and has no verdict.
CountInv ==
  /\ prompts <= Spare + conv.count
  /\ turn.pc = "read" => turn.policy = Silent
  /\ turn.pc \in Undecided => turn.st.count = conv.count /\ turn.policy = Silent
  /\ turn.pc = "save" /\ turn.reply = "prompt" => prompts + 1 <= Spare + turn.st.count
  /\ turn.pc = "save" /\ turn.reply = "exhausted" => prompts <= Spare + turn.st.count
  /\ turn.pc = "send" /\ turn.reply = "prompt" => prompts + 1 <= Spare + conv.count

\* A count that goes down is a reset, which allows MaxPrompts more.
LEMMA RecountGain ==
  ASSUME TypeOK, TypeOK', Recount
  PROVE  Spare \in Nat /\ Spare' \in Nat /\ Spare <= Spare'
         /\ Spare + conv.count <= Spare' + conv'.count
<1>1. resets \in Nat /\ conv.count \in 0..MaxPrompts /\ conv'.count \in 0..MaxPrompts
  BY DEF TypeOK, ConvType
<1>2. Spare \in Nat
  BY <1>1, SpareFacts DEF Spare
<1>3. CASE conv'.count < conv.count /\ resets' = resets + 1
  <2>1. Spare' = Spare + MaxPrompts
    BY <1>1, <1>3, SpareFacts DEF Spare
  <2> QED BY <1>1, <1>2, <2>1, PolicyAssumption
<1>4. CASE ~(conv'.count < conv.count) /\ resets' = resets
  <2>1. Spare' = Spare
    BY <1>4 DEF Spare
  <2> QED BY <1>1, <1>2, <1>4, <2>1, PolicyAssumption
<1> QED BY <1>3, <1>4 DEF Recount

LEMMA CountBounds ==
  \A n, b \in Nat, c \in 0..MaxPrompts :
    n <= b + c => n <= b + MaxPrompts /\ n + 1 <= b + (c + 1)
BY PolicyAssumption

\* The counts of a turn that leaves the route are right.
LEMMA RoutedCounts ==
  ASSUME NEW r \in TurnType, NEW n \in Nat, NEW b \in Nat, n <= b + r.st.count, r.reply = "",
         r.policy = Silent \/ r.policy = PolicyReply(r)
  PROVE  /\ Routed(r).pc = "save" /\ Routed(r).reply = "prompt" => n + 1 <= b + Routed(r).st.count
         /\ Routed(r).pc = "save" /\ Routed(r).reply = "exhausted" => n <= b + Routed(r).st.count
<1>1. r.st.count \in 0..MaxPrompts /\ r.st.exhausted \in BOOLEAN
  BY DEF TurnType, ConvType
<1>2. CASE Routed(r).reply = "blocked"
  BY <1>2
<1>3. CASE /\ r.policy # Silent /\ Routed(r).reply = PolicyKind(r.policy)
           /\ Routed(r).st.count = r.policy.count
  <2>1. r.policy = Evaluate(r.text, r.st.count, r.st.exhausted)
    BY <1>3 DEF PolicyReply
  <2>2. /\ PolicyKind(r.policy) = "prompt" => r.policy.count = r.st.count + 1
        /\ PolicyKind(r.policy) = "exhausted" => r.policy.count = MaxPrompts
    <3>1. /\ PolicyKind(Evaluate(r.text, r.st.count, r.st.exhausted)) = "prompt"
               => Evaluate(r.text, r.st.count, r.st.exhausted).count = r.st.count + 1
          /\ PolicyKind(Evaluate(r.text, r.st.count, r.st.exhausted)) = "exhausted"
               => Evaluate(r.text, r.st.count, r.st.exhausted).count = MaxPrompts
      BY <1>1, PolicyCounts
    <3> QED BY <2>1, <3>1
  <2>3. n <= b + MaxPrompts /\ n + 1 <= b + (r.st.count + 1)
    BY <1>1, CountBounds
  <2>4. /\ Routed(r).reply = "prompt" => Routed(r).st.count = r.st.count + 1
        /\ Routed(r).reply = "exhausted" => Routed(r).st.count = MaxPrompts
    BY <1>3, <2>2
  <2> QED BY <2>3, <2>4
<1> QED BY <1>2, <1>3, RoutedFacts

LEMMA CountStep ==
  ASSUME TypeOK, TypeOK', CarriedInv, CountInv, [Next]_vars
  PROVE  CountInv'
<1> USE DEF CountInv, At, Fails, Undecided
<1>0. /\ turn \in TurnType /\ turn.st.count \in 0..MaxPrompts /\ conv.count \in 0..MaxPrompts
      /\ prompts \in Nat /\ resets \in Nat
  BY DEF TypeOK, TurnType, ConvType
<1>000. Spare \in Nat /\ (resets' = resets => Spare' = Spare)
  BY <1>0, SpareFacts DEF Spare
<1>00. Idle.pc = "idle" /\ Idle.policy = Silent /\ Idle \in TurnType
  BY IdleType DEF Idle
<1>1. ASSUME NEW m \in Messages, Begin(m) PROVE CountInv'
  <2>1. turn'.pc = "read" /\ turn'.policy = Silent
    BY <1>000, <1>1, <1>00 DEF Begin, TurnType
  <2> QED BY <1>000, <1>1, <2>1 DEF Begin
<1>2. CASE (\E n \in Notices : Notify(n)) \/ Expire
  BY <1>000, <1>2 DEF Notify, Expire, history
<1>3. CASE Lapse
  <2>1. turn' = turn /\ turn.pc = "idle" /\ prompts' = prompts /\ Recount
    BY <1>000, <1>3 DEF Lapse
  <2>2. Spare + conv.count <= Spare' + conv'.count /\ Spare' \in Nat /\ conv'.count \in Nat
    BY <2>1, RecountGain DEF TypeOK, ConvType
  <2> QED BY <1>0, <1>000, <2>1, <2>2
<1>4. CASE Crash
  BY <1>000, <1>00, <1>4 DEF Crash, history
<1>5. CASE ReadState
  BY <1>000, <1>0, <1>00, <1>5 DEF ReadState, history, TurnType
<1>6. CASE Prepare
  <2>1. \/ turn'.pc \in {"mark"}
        \/ turn'.pc = "send" /\ turn'.reply = "canned"
        \/ turn'.pc \in {"handoff", "route"} /\ turn'.st = turn.st /\ turn'.policy = turn.policy
    BY <1>000, <1>0, <1>6, Prepared DEF TurnType
  <2> QED BY <1>000, <1>6, <2>1 DEF Prepare, history
<1>7. CASE Handoff
  BY <1>000, <1>0, <1>7 DEF Handoff, TurnType, history
<1>8. CASE Route
  <2> DEFINE r == [turn EXCEPT !.policy = PolicyReply(turn)]
  <2>1. turn.reply = "" /\ turn.policy = Silent /\ prompts <= Spare + turn.st.count
    BY <1>000, <1>8 DEF Route, CarriedInv
  <2>2. r \in TurnType /\ r.policy = PolicyReply(turn) /\ r.st = turn.st /\ r.text = turn.text /\ r.reply = ""
    BY <1>000, <1>0, <2>1, PolicyReplyType DEF TurnType
  <2>3. PolicyReply(r) = PolicyReply(turn)
    BY <2>2 DEF PolicyReply
  <2>4. CASE turn' = Routed(r)
    <3> HIDE DEF r
    <3>1. /\ r.policy = Silent \/ r.policy = PolicyReply(r)
          /\ prompts <= Spare + r.st.count
      BY <2>1, <2>2, <2>3
    <3>2. /\ Routed(r).pc = "save" /\ Routed(r).reply = "prompt" => prompts + 1 <= Spare + Routed(r).st.count
          /\ Routed(r).pc = "save" /\ Routed(r).reply = "exhausted" => prompts <= Spare + Routed(r).st.count
      BY <1>000, <1>0, <2>2, <3>1, RoutedCounts
    <3>3. Routed(r).pc \in {"v2", "save", "ai"}
      BY <2>2, RoutedFacts
    <3> QED BY <1>000, <1>8, <2>4, <3>2, <3>3 DEF Route, history
  <2>5. CASE turn' = Routed(turn)
    BY <1>000, <1>0, <1>8, <2>1, <2>5, RoutedFacts, RoutedCounts DEF Route, history
  <2>6. CASE turn' = [turn EXCEPT !.pc = "progress"] \/ turn' = [turn EXCEPT !.pc = "suspend"]
    BY <1>000, <1>0, <1>8, <2>1, <2>6 DEF Route, history, TurnType
  <2> QED BY <1>000, <1>8, <2>4, <2>5, <2>6 DEF Route
<1>9. CASE Progress
  BY <1>000, <1>0, <1>00, <1>9 DEF Progress, TurnType, history
<1>10. CASE Suspend
  <2> DEFINE r == [Called(TRUE) EXCEPT !.st.active = FALSE, !.st.suspended = TRUE, !.policy = PolicyReply(turn)]
  <2>1. turn.reply = "" /\ turn.policy = Silent /\ prompts <= Spare + turn.st.count /\ turn.st.count = conv.count
    BY <1>000, <1>10 DEF Suspend, CarriedInv
  <2>2. turn.st \in ConvType /\ PolicyReply(turn) \in PolicyType
    BY <1>000, <1>0, PolicyReplyType DEF TurnType
  <2>3. /\ r \in TurnType /\ r.policy = PolicyReply(turn) /\ r.text = turn.text /\ r.reply = ""
        /\ r.st.count = turn.st.count /\ r.st.exhausted = turn.st.exhausted
    BY <1>000, <1>0, <2>1, <2>2 DEF Called, TurnType, ConvType
  <2>4. PolicyReply(r) = PolicyReply(turn)
    BY <2>3 DEF PolicyReply
  <2>5. CASE turn' = Routed(r)
    <3> HIDE DEF r
    <3>1. /\ r.policy = Silent \/ r.policy = PolicyReply(r)
          /\ prompts <= Spare + r.st.count
      BY <2>1, <2>3, <2>4
    <3>2. /\ Routed(r).pc = "save" /\ Routed(r).reply = "prompt" => prompts + 1 <= Spare + Routed(r).st.count
          /\ Routed(r).pc = "save" /\ Routed(r).reply = "exhausted" => prompts <= Spare + Routed(r).st.count
      BY <1>000, <1>0, <2>3, <3>1, RoutedCounts
    <3>3. Routed(r).pc \in {"v2", "save", "ai"}
      BY <2>3, RoutedFacts
    <3> QED BY <1>000, <1>10, <2>5, <3>2, <3>3 DEF Suspend
  <2>6. CASE turn' = [Called(FALSE) EXCEPT !.pc = "sorry", !.sorry = TRUE]
    BY <1>000, <1>0, <1>10, <2>1, <2>6 DEF Suspend, Called, TurnType
  <2> QED BY <1>000, <1>10, <2>5, <2>6 DEF Suspend
<1>11. CASE Sorry
  <2>1. turn.reply = "" /\ turn.policy = Silent /\ turn.st.count = conv.count
    BY <1>000, <1>11 DEF Sorry, CarriedInv
  <2>2. CASE conv' = turn.st /\ turn' = Routed(turn) /\ UNCHANGED faults
    BY <1>000, <1>0, <1>11, <2>1, <2>2, RoutedFacts, RoutedCounts DEF Sorry, history
  <2>3. CASE conv' \in {conv, turn.st} /\ turn' = Idle
    BY <1>000, <1>0, <1>00, <1>11, <2>1, <2>3 DEF Sorry, history
  <2> QED BY <1>000, <1>11, <2>2, <2>3 DEF Sorry
<1>12. CASE RunBugV2
  <2>1. turn'.pc = "save" /\ turn'.reply = "v2"
    BY <1>000, <1>0, <1>12 DEF RunBugV2, Called, TurnType
  <2> QED BY <1>000, <1>12, <2>1 DEF RunBugV2
<1>13. CASE Marker
  <2>1. turn'.pc = "save" /\ turn'.reply \in {"v2", "policy"}
    BY <1>000, <1>0, <1>13 DEF Marker, Called, TurnType
  <2> QED BY <1>000, <1>13, <2>1 DEF Marker
<1>14. CASE Ai
  BY <1>000, <1>0, <1>14 DEF Ai, TurnType, history
<1>15. CASE Save
  <2>1. prompts' = prompts /\ turn.pc = "save" /\ Recount
    BY <1>000, <1>15 DEF Save
  <2>2. /\ Spare + conv.count <= Spare' + conv'.count /\ Spare <= Spare'
        /\ Spare' \in Nat /\ conv'.count \in Nat
    BY <2>1, RecountGain DEF TypeOK, ConvType
  <2>3. prompts' <= Spare' + conv'.count
    BY <1>0, <1>000, <2>1, <2>2
  <2>4. CASE /\ conv' = turn.st
             /\ turn' = [turn EXCEPT !.pc = IF turn.reply = "marker" THEN "marker" ELSE "send"]
    <3>1. turn'.pc \in {"marker", "send"} /\ turn'.reply = turn.reply
      BY <1>000, <1>0, <2>4 DEF TurnType
    <3>2. turn.reply = "prompt" => prompts' + 1 <= Spare' + conv'.count
      BY <1>0, <1>000, <2>1, <2>2, <2>4
    <3> QED BY <2>3, <3>1, <3>2
  <2>5. CASE turn' = Idle
    BY <1>000, <1>00, <2>3, <2>5
  <2> QED BY <1>000, <1>15, <2>4, <2>5 DEF Save
<1>16. CASE Send
  <2>1. turn'.pc \in {"mark", "idle"} /\ conv' = conv /\ turn.pc = "send"
    BY <1>000, <1>0, <1>00, <1>16 DEF Send, TurnType
  <2>2. CASE Arrives
    <3>1. CASE turn.reply \in {"prompt", "exhausted"}
      <4>1. Spare' = Spare /\ (turn.reply = "prompt" => prompts' = prompts + 1)
            /\ (turn.reply = "exhausted" => prompts' = prompts)
        BY <1>000, <2>2, <3>1 DEF Arrives
      <4> QED BY <1>0, <2>1, <3>1, <4>1
    <3>2. CASE turn.reply \notin {"prompt", "exhausted"}
      <4>1. prompts' = 0 /\ resets' = 0
        BY <2>2, <3>2 DEF Arrives
      <4>2. Spare' = 0
        BY <4>1, SpareFacts DEF Spare
      <4> QED BY <1>0, <2>1, <4>1, <4>2
    <3> QED BY <3>1, <3>2
  <2>3. CASE UNCHANGED <<shown, prompts, resets>>
    BY <1>000, <2>1, <2>3
  <2> QED BY <1>000, <1>16, <2>2, <2>3 DEF Send
<1>17. CASE MarkDone \/ Acknowledge
  BY <1>000, <1>0, <1>00, <1>17 DEF MarkDone, Acknowledge, TurnType, history
<1>18. CASE UNCHANGED vars
  BY <1>000, <1>18 DEF vars
<1> QED
  BY <1>000, <1>1, <1>2, <1>3, <1>4, <1>5, <1>6, <1>7, <1>8, <1>9, <1>10, <1>11, <1>12, <1>13, <1>14, <1>15,
     <1>16, <1>17, <1>18 DEF Next

\* A user gets at most MaxPrompts clarifications in a row, and MaxPrompts more for each time
\* that the count was taken back although no other answer reached the user, whatever fails
\* between the counting, the saving and the sending.
THEOREM PromptsBoundedHolds == Spec => []PromptsBounded
<1> DEFINE Inv == TypeOK /\ CarriedInv /\ CountInv
<1>1. Init => Inv
  <2>1. Idle.pc = "idle"
    BY DEF Idle
  <2>2. Init => turn = Idle /\ prompts = 0 /\ resets = 0 /\ conv.count = 0
    BY DEF Init, NoConv
  <2>3. Init => prompts <= Spare + conv.count
    BY <2>2, SpareFacts DEF Spare
  <2> QED BY <2>1, <2>2, <2>3, InitType DEF CarriedInv, CountInv, Undecided
<1>2. Inv /\ [Next]_vars => Inv'
  BY StepType, CarriedStep, CountStep
<1>3. Inv => PromptsBounded
  <2> SUFFICES ASSUME Inv PROVE PromptsBounded
    OBVIOUS
  <2>1. conv.count \in 0..MaxPrompts /\ prompts \in Nat /\ resets \in Nat
    BY DEF TypeOK, ConvType
  <2>2. Spare \in Nat /\ MaxPrompts * (1 + resets) = Spare + MaxPrompts
    BY <2>1, SpareFacts DEF Spare
  <2>3. prompts <= Spare + conv.count
    BY DEF CountInv
  <2> QED BY <2>1, <2>2, <2>3, PolicyAssumption DEF PromptsBounded
<1> QED BY <1>1, <1>2, <1>3, PTL DEF Spec

-----------------------------------------------------------------------------
(* Questions                                                               *)

Question == IsQuestion(turn.text) /\ ~turn.text.image

\* A question reaches the bug assistant as part of a report only when its suspension failed,
\* and a marker of Dify is refused for it.
QuestionInv ==
  /\ turn.pc = "sorry" => turn.sorry
  /\ turn.pc = "v2" /\ turn.event = "" /\ Question => turn.sorry
  /\ turn.pc = "ai" \/ turn.pc = "marker" \/ (turn.pc = "save" /\ turn.reply = "marker")
       => (Question => BlocksBugRoute(turn.text) \/ turn.sorry)

\* A question about which no draft is open goes past the assistant.
LEMMA RoutedQuestion ==
  ASSUME NEW r \in TurnType, ~r.st.active, r.reply = "", r.policy = PolicyReply(r), IsQuestion(r.text)
  PROVE  /\ Routed(r).pc = "v2" => Routed(r).event # ""
         /\ Routed(r).pc = "ai" => BlocksBugRoute(r.text)
         /\ Routed(r).reply # "marker"
<1>1. r.st.count \in 0..MaxPrompts /\ r.st.exhausted \in BOOLEAN
  BY DEF TurnType, ConvType
<1>2. ~Starts(r)
  BY QuestionIsNoReport DEF Starts
<1>3. Routed(r).pc = "ai" => BlocksBugRoute(r.text)
  <2>1. r.policy = Evaluate(r.text, r.st.count, r.st.exhausted)
    BY DEF PolicyReply
  <2>2. r.policy # Silent \/ BlocksBugRoute(r.text)
    BY <1>1, <2>1, QuestionIsNoReport, VerifiedWhateverCount
  <2>3. Routed(r).pc = "ai" => r.policy = Silent
    BY RoutedFacts
  <2> QED BY <2>2, <2>3
<1>4. PolicyKind(r.policy) # "marker"
  BY DEF PolicyKind
<1> QED BY <1>2, <1>3, <1>4, RoutedFacts

LEMMA QuestionStep ==
  ASSUME TypeOK, TypeOK', CarriedInv, CountInv, QuestionInv, [Next]_vars
  PROVE  QuestionInv'
<1> USE DEF QuestionInv, At, Fails
<1>0. turn \in TurnType /\ Idle.pc = "idle"
  BY DEF TypeOK, Idle
<1>1. ASSUME NEW m \in Messages, Begin(m) PROVE QuestionInv'
  <2>1. turn'.pc = "read"
    BY <1>1, IdleType DEF Begin, TurnType
  <2> QED BY <2>1
<1>2. CASE (\E n \in Notices : Notify(n)) \/ Lapse \/ Expire \/ UNCHANGED vars
  BY <1>2 DEF Notify, Lapse, Expire, history, vars, Question
<1>3. CASE Crash \/ ReadState \/ Handoff \/ Send \/ MarkDone \/ Acknowledge
  <2>1. turn'.pc \in {"prepare", "mark", "route", "ack", "idle"}
    BY <1>0, <1>3 DEF Crash, ReadState, Handoff, Send, MarkDone, Acknowledge, TurnType
  <2> QED BY <2>1
<1>4. CASE Prepare
  <2>1. turn'.pc \in {"mark", "send", "handoff", "route"}
    BY <1>0, <1>4, Prepared DEF TurnType
  <2> QED BY <2>1
<1>5. CASE Route
  <2> DEFINE r == [turn EXCEPT !.policy = PolicyReply(turn)]
  <2>1. turn.reply = "" /\ turn.policy = Silent
    BY <1>5 DEF Route, CarriedInv, CountInv, Undecided
  <2>2. /\ r \in TurnType /\ r.policy = PolicyReply(turn) /\ r.st = turn.st /\ r.text = turn.text
        /\ r.reply = "" /\ r.sorry = turn.sorry
    BY <1>0, <2>1, PolicyReplyType DEF TurnType
  <2>3. PolicyReply(r) = PolicyReply(turn)
    BY <2>2 DEF PolicyReply
  <2>4. CASE turn' = Routed(r) /\ ~turn.st.active
    <3> HIDE DEF r
    <3>1. Routed(r).text = turn.text /\ Routed(r).pc # "sorry" /\ Routed(r).pc # "marker"
      BY <2>2, RoutedFacts
    <3>2. IsQuestion(turn.text) => /\ Routed(r).pc = "v2" => Routed(r).event # ""
                                   /\ Routed(r).pc = "ai" => BlocksBugRoute(turn.text)
                                   /\ Routed(r).reply # "marker"
      BY <2>2, <2>3, <2>4, RoutedQuestion
    <3> QED BY <2>4, <3>1, <3>2 DEF Question
  <2>5. CASE turn' = Routed(turn) /\ turn.st.active /\ ~Suspends(turn)
    <3>1. ~Question
      BY <2>5 DEF Suspends, Question
    <3>2. turn'.text = turn.text /\ turn'.pc # "sorry"
      BY <1>0, <2>5, RoutedFacts
    <3> QED BY <3>1, <3>2 DEF Question
  <2>6. CASE turn' = [turn EXCEPT !.pc = "progress"] \/ turn' = [turn EXCEPT !.pc = "suspend"]
    BY <1>0, <2>6 DEF TurnType
  <2> QED BY <1>5, <2>4, <2>5, <2>6 DEF Route
<1>6. CASE Suspend
  <2> DEFINE r == [Called(TRUE) EXCEPT !.st.active = FALSE, !.st.suspended = TRUE, !.policy = PolicyReply(turn)]
  <2>1. turn.reply = ""
    BY <1>6 DEF Suspend, CarriedInv, Undecided
  <2>2. turn.st \in ConvType /\ PolicyReply(turn) \in PolicyType
    BY <1>0, PolicyReplyType DEF TurnType
  <2>3. /\ r \in TurnType /\ r.policy = PolicyReply(turn) /\ r.text = turn.text /\ r.reply = "" /\ ~r.st.active
        /\ r.st.count = turn.st.count /\ r.st.exhausted = turn.st.exhausted
    BY <1>0, <2>1, <2>2 DEF Called, TurnType, ConvType
  <2>4. PolicyReply(r) = PolicyReply(turn)
    BY <2>3 DEF PolicyReply
  <2>5. CASE turn' = Routed(r)
    <3> HIDE DEF r
    <3>1. Routed(r).text = turn.text /\ Routed(r).pc # "sorry" /\ Routed(r).pc # "marker"
      BY <2>3, RoutedFacts
    <3>2. IsQuestion(turn.text) => /\ Routed(r).pc = "v2" => Routed(r).event # ""
                                   /\ Routed(r).pc = "ai" => BlocksBugRoute(turn.text)
                                   /\ Routed(r).reply # "marker"
      BY <2>3, <2>4, RoutedQuestion
    <3> QED BY <2>5, <3>1, <3>2 DEF Question
  <2>6. CASE turn' = [Called(FALSE) EXCEPT !.pc = "sorry", !.sorry = TRUE]
    BY <1>0, <2>6 DEF Called, TurnType
  <2> QED BY <1>6, <2>5, <2>6 DEF Suspend
<1>7. CASE Sorry
  <2>1. turn.sorry /\ turn.reply = ""
    BY <1>7 DEF Sorry, CarriedInv, Undecided
  <2>2. turn'.sorry \/ turn'.pc = "idle"
    BY <1>0, <1>7, <2>1, RoutedFacts DEF Sorry
  <2> QED BY <2>2
<1>8. CASE Progress \/ RunBugV2 \/ Marker
  <2>1. \A b \in BOOLEAN : Called(b) \in TurnType
    BY <1>0 DEF Called, TurnType
  <2>2. CASE Progress
    BY <1>0, <2>2 DEF Progress, TurnType
  <2>3. CASE RunBugV2
    <3>1. turn'.pc = "save" /\ turn'.reply = "v2"
      BY <2>1, <2>3 DEF RunBugV2, TurnType
    <3> QED BY <3>1
  <2>4. CASE Marker
    <3>1. turn'.pc = "save" /\ turn'.reply \in {"v2", "policy"}
      BY <1>0, <2>1, <2>4 DEF Marker, TurnType
    <3> QED BY <3>1
  <2> QED BY <1>8, <2>2, <2>3, <2>4
<1>9. CASE Ai
  BY <1>0, <1>9 DEF Ai, TurnType, Question
<1>10. CASE Save
  BY <1>0, <1>10 DEF Save, TurnType, Question
<1> QED
  BY <1>1, <1>2, <1>3, <1>4, <1>5, <1>6, <1>7, <1>8, <1>9, <1>10 DEF Next

\* A knowledge question gets into a draft only when its suspension has failed in the same turn.
THEOREM QuestionsSuspendHolds == Spec => QuestionsSuspend
<1> DEFINE Inv == TypeOK /\ CarriedInv /\ CountInv /\ QuestionInv
<1>1. Init => Inv
  <2>1. Idle.pc = "idle"
    BY DEF Idle
  <2>2. Init => turn = Idle /\ prompts = 0 /\ resets = 0 /\ conv.count = 0
    BY DEF Init, NoConv
  <2>3. Init => prompts <= Spare + conv.count
    BY <2>2, SpareFacts DEF Spare
  <2> QED BY <2>1, <2>2, <2>3, InitType DEF CarriedInv, CountInv, QuestionInv, Undecided
<1>2. Inv /\ [Next]_vars => Inv'
  BY StepType, CarriedStep, CountStep, QuestionStep
<1>3. Inv /\ [Next]_vars => [~draft.asked /\ draft'.asked => turn.sorry]_vars
  <2> SUFFICES ASSUME Inv, Next, ~draft.asked, draft'.asked PROVE turn.sorry
    OBVIOUS
  <2>1. ASSUME NEW event, NEW phase, draft' = Drafted(event, phase)
        PROVE  event \in {"START", "PATCH"} /\ Question
    BY <2>1 DEF Drafted, Question
  <2>2. \A event : event # "" => Meaning(event) = event
    BY DEF Meaning
  <2>3. ASSUME NEW event, NEW phase, Answers(event, phase)
        PROVE  Meaning(event) \in {"START", "PATCH"} /\ Question
    BY <2>1, <2>3 DEF Answers
  <2>4. ASSUME NEW event, Raises(event)
        PROVE  Meaning(event) \in {"START", "PATCH"} /\ Question
    <3>1. draft' # draft
      OBVIOUS
    <3>2. PICK p \in Targets(Meaning(event)) : draft' = Drafted(Meaning(event), p)
      BY <2>4, <3>1 DEF Raises
    <3> QED BY <2>1, <3>2
  <2>5. turn.event \in {"", "SUSPEND", "RESUME", "CANCEL"}
    BY DEF TypeOK, TurnType
  <2>6. CASE Suspend
    <3>1. Answers("SUSPEND", "suspended") \/ Raises("SUSPEND")
      BY <2>6 DEF Suspend
    <3>2. Meaning("SUSPEND") = "SUSPEND"
      BY DEF Meaning
    <3> QED BY <2>3, <2>4, <3>1, <3>2
  <2>7. CASE RunBugV2
    BY <2>2, <2>3, <2>4, <2>5, <2>7 DEF RunBugV2, QuestionInv, At
  <2>8. CASE Marker
    BY <2>3, <2>4, <2>8 DEF Marker, QuestionInv, At
  <2>9. CASE Expire
    BY <2>9 DEF Expire, NoDraft
  <2>10. Suspend \/ RunBugV2 \/ Marker \/ Expire \/ UNCHANGED draft
    BY DEF Next, Begin, Notify, Crash, Lapse, ReadState, Prepare, Handoff, Route, Progress, Sorry,
           Ai, Save, Send, MarkDone, Acknowledge
  <2> QED BY <2>6, <2>7, <2>8, <2>9, <2>10
<1> QED BY <1>1, <1>2, <1>3, PTL DEF Spec, QuestionsSuspend

-----------------------------------------------------------------------------
(* Flags and drafts                                                        *)

Agrees(flags) ==
  /\ flags.active <=> draft.phase = "open"
  /\ draft.phase = "suspended" => flags.suspended

\* The flags that a turn will save are those of Redis, or follow from the last answer of the
\* assistant, or are known to be wrong; a message reaches the assistant without a command only
\* when it reports a problem or a draft is active.
FlagInv ==
  /\ turn.pc \in {"idle", "read"} => ~turn.called
  /\ settled => Agrees(conv)
  /\ turn.pc \notin {"idle", "read"} /\ ~turn.called
       => turn.st.active = conv.active /\ turn.st.suspended = conv.suspended
  /\ turn.called /\ turn.knows => Agrees(turn.st)
  /\ turn.called /\ settled => turn.knows
  /\ turn.pc = "sorry" => turn.called /\ ~turn.knows
  /\ turn.pc = "v2" /\ turn.event = "" => turn.st.active \/ RoutesToBug(turn.text)
  /\ turn.pc = "marker" => turn.reply = "marker"

\* A step inside a turn that leaves the flags of the turn and what they speak of alone.
LEMMA FlagsKept ==
  ASSUME FlagInv, UNCHANGED <<conv, draft, settled>>,
         turn.pc \notin {"idle", "read"}, turn'.pc \notin {"idle", "read", "sorry", "marker"},
         turn'.called = turn.called, turn'.knows = turn.knows,
         turn'.st.active = turn.st.active, turn'.st.suspended = turn.st.suspended,
         turn'.pc = "v2" /\ turn'.event = "" => turn'.st.active \/ RoutesToBug(turn'.text)
  PROVE  FlagInv'
<1>1. conv' = conv /\ draft' = draft /\ (settled' <=> settled)
  OBVIOUS
<1>2. /\ turn.called /\ turn.knows => Agrees(turn.st)'
      /\ settled => Agrees(conv)'
  BY <1>1 DEF FlagInv, Agrees
<1>3. /\ ~turn'.called => turn'.st.active = conv'.active /\ turn'.st.suspended = conv'.suspended
      /\ turn'.called /\ settled' => turn'.knows
  BY <1>1 DEF FlagInv
<1>4. /\ turn'.called /\ turn'.knows => Agrees(turn.st)'
      /\ settled' => Agrees(conv)'
  BY <1>1, <1>2
<1> QED BY <1>3, <1>4 DEF FlagInv

\* The end of a turn, as far as the flags are concerned.
LEMMA FlagsIdle ==
  ASSUME FlagInv, UNCHANGED <<conv, draft, settled>>, turn' = Idle
  PROVE  FlagInv'
<1>1. turn'.pc = "idle" /\ turn'.called = FALSE
  BY DEF Idle
<1>2. conv' = conv /\ draft' = draft /\ (settled' <=> settled)
  OBVIOUS
<1>3. settled' => Agrees(conv)'
  BY <1>2 DEF FlagInv, Agrees
<1> QED BY <1>1, <1>3 DEF FlagInv

\* The assistant has been called, and the state of its draft is not yet saved.
LEMMA FlagsCalled ==
  ASSUME settled' = FALSE, turn'.called = TRUE, turn'.pc \notin {"idle", "read", "marker"},
         turn'.pc = "sorry" => ~turn'.knows,
         turn'.knows => Agrees(turn.st)',
         turn'.pc = "v2" /\ turn'.event = "" => turn'.st.active \/ RoutesToBug(turn'.text)
  PROVE  FlagInv'
BY DEF FlagInv

LEMMA AnswersPhase ==
  ASSUME NEW event, NEW phase, Answers(event, phase)
  PROVE  draft'.phase = phase
<1>1. draft' = Drafted(Meaning(event), phase)
  BY DEF Answers
<1>2. \A e, p : Drafted(e, p).phase = p
  BY DEF Drafted
<1> QED BY <1>1, <1>2

LEMMA FlagStep ==
  ASSUME TypeOK, CarriedInv, CountInv, FlagInv, [Next]_vars
  PROVE  FlagInv'
<1> USE DEF At, Fails
<1>0. /\ turn \in TurnType /\ turn.st \in ConvType /\ conv \in ConvType
      /\ turn.called \in BOOLEAN /\ turn.knows \in BOOLEAN /\ settled \in BOOLEAN
  BY DEF TypeOK, TurnType
<1>00. Idle.pc = "idle" /\ Idle.called = FALSE /\ Idle \in TurnType
  BY IdleType DEF Idle
<1>000. \A b \in BOOLEAN : /\ Called(b) \in TurnType /\ Called(b).called = TRUE /\ Called(b).knows = b
                           /\ Called(b).st = turn.st /\ Called(b).text = turn.text
                           /\ Called(b).policy = turn.policy
  BY <1>0 DEF Called, TurnType
<1>1. ASSUME NEW m \in Messages, Begin(m) PROVE FlagInv'
  <2>1. turn'.pc = "read" /\ turn'.called = FALSE
    BY <1>1, <1>00 DEF Begin, TurnType
  <2>2. conv' = conv /\ draft' = draft /\ settled' = settled
    BY <1>1 DEF Begin
  <2> QED BY <2>1, <2>2 DEF FlagInv, Agrees
<1>2. CASE (\E n \in Notices : Notify(n)) \/ UNCHANGED vars
  <2>1. conv' = conv /\ draft' = draft /\ settled' = settled /\ turn' = turn
    BY <1>2 DEF Notify, history, vars
  <2> QED BY <2>1 DEF FlagInv, Agrees
<1>3. CASE Lapse \/ Expire
  <2>1. turn' = turn /\ turn.pc = "idle" /\ settled' = FALSE
    BY <1>3 DEF Lapse, Expire
  <2> QED BY <2>1 DEF FlagInv
<1>4. CASE Crash
  BY <1>4, FlagsIdle DEF Crash, history
<1>5. CASE ReadState
  <2>1. CASE turn' = Idle
    BY <1>5, <2>1, FlagsIdle DEF ReadState, history
  <2>2. CASE turn'.pc = "prepare" /\ turn'.st = conv /\ turn'.called = turn.called
    <3>1. conv' = conv /\ draft' = draft /\ settled' = settled /\ ~turn.called
      BY <1>5 DEF ReadState, history, FlagInv
    <3> QED BY <2>2, <3>1 DEF FlagInv, Agrees
  <2> QED BY <1>0, <1>5, <2>1, <2>2 DEF ReadState, TurnType
<1>6. CASE Prepare
  <2>1. /\ turn'.pc \in {"mark", "send", "handoff", "route"} /\ turn'.st = turn.st
        /\ turn'.called = turn.called /\ turn'.knows = turn.knows
    BY <1>0, <1>6, Prepared DEF TurnType
  <2> QED BY <1>6, <2>1, FlagsKept DEF Prepare, history
<1>7. CASE Handoff
  <2>1. /\ turn'.pc \in {"mark", "route"} /\ turn'.st = turn.st
        /\ turn'.called = turn.called /\ turn'.knows = turn.knows
    BY <1>0, <1>7 DEF Handoff, TurnType
  <2> QED BY <1>7, <2>1, FlagsKept DEF Handoff, history
<1>8. CASE Route
  <2> DEFINE r == [turn EXCEPT !.policy = PolicyReply(turn)]
  <2>1. turn.policy = Silent /\ Silent.route # "verified"
    BY <1>8 DEF Route, CountInv, Undecided, Silent
  <2>2. /\ r \in TurnType /\ r.st = turn.st /\ r.text = turn.text
        /\ r.called = turn.called /\ r.knows = turn.knows
    BY <1>0, PolicyReplyType DEF TurnType
  <2>3. turn.st.active \in BOOLEAN
    BY <1>0 DEF ConvType
  <2>4. CASE turn' = Routed(r) /\ ~turn.st.active
    <3> HIDE DEF r
    <3>1. turn' \in TurnType /\ turn'.st \in ConvType
      BY <2>2, <2>4, RoutedType DEF TurnType
    <3>0. turn'.st.active <=> r.st.active /\ r.policy.route # "verified"
      BY <2>2, <2>4, RoutedFacts
    <3>6. /\ turn'.pc \in {"v2", "save", "ai"} /\ turn'.text = r.text
          /\ turn'.called = r.called /\ turn'.knows = r.knows
          /\ turn'.st.suspended = r.st.suspended
      BY <2>2, <2>4, RoutedFacts
    <3>7. ~turn'.st.active
      BY <2>2, <2>4, <3>0
    <3>2. /\ turn'.pc \in {"v2", "save", "ai"} /\ turn'.text = turn.text
          /\ turn'.called = turn.called /\ turn'.knows = turn.knows
          /\ turn'.st.suspended = turn.st.suspended /\ ~turn'.st.active
      BY <2>2, <3>6, <3>7
    <3>3. turn'.pc = "v2" /\ turn'.event = "" => Starts(r)
      BY <2>2, <2>4, RoutedFacts
    <3>4. turn'.pc = "v2" /\ turn'.event = "" => RoutesToBug(turn'.text)
      BY <2>2, <2>4, <3>2, <3>3 DEF Starts
    <3>5. turn'.st.active = turn.st.active
      BY <2>3, <2>4, <3>1, <3>2 DEF ConvType
    <3> QED BY <1>8, <3>2, <3>4, <3>5, FlagsKept DEF Route, history
  <2>5. CASE turn' = Routed(turn) /\ turn.st.active
    <3>1. turn' \in TurnType /\ turn'.st \in ConvType
      BY <1>0, <2>5, RoutedType DEF TurnType
    <3>2. /\ turn'.pc \in {"v2", "save", "ai"}
          /\ turn'.called = turn.called /\ turn'.knows = turn.knows
          /\ turn'.st.suspended = turn.st.suspended /\ turn'.st.active
      BY <1>0, <2>1, <2>5, RoutedFacts
    <3>3. turn'.st.active = turn.st.active
      BY <2>3, <2>5, <3>1, <3>2 DEF ConvType
    <3> QED BY <1>8, <3>2, <3>3, FlagsKept DEF Route, history
  <2>6. CASE turn' = [turn EXCEPT !.pc = "progress"] \/ turn' = [turn EXCEPT !.pc = "suspend"]
    <3>1. /\ turn'.pc \in {"progress", "suspend"} /\ turn'.st = turn.st
          /\ turn'.called = turn.called /\ turn'.knows = turn.knows
      BY <1>0, <2>6 DEF TurnType
    <3> QED BY <1>8, <3>1, FlagsKept DEF Route, history
  <2> HIDE DEF r
  <2>7. \/ turn' = Routed(r) /\ ~turn.st.active
        \/ turn' = Routed(turn) /\ turn.st.active
        \/ turn' = [turn EXCEPT !.pc = "progress"] \/ turn' = [turn EXCEPT !.pc = "suspend"]
    BY <1>8 DEF Route, r
  <2> QED BY <2>4, <2>5, <2>6, <2>7
<1>9. CASE Progress
  <2>1. CASE turn' = Idle
    BY <1>9, <2>1, FlagsIdle DEF Progress, history
  <2>2. CASE /\ turn'.pc = "save" /\ turn'.st = turn.st
             /\ turn'.called = turn.called /\ turn'.knows = turn.knows
    BY <1>9, <2>2, FlagsKept DEF Progress, history
  <2> QED BY <1>0, <1>9, <2>1, <2>2 DEF Progress, TurnType
<1>10. CASE Suspend
  <2> DEFINE r == [Called(TRUE) EXCEPT !.st.active = FALSE, !.st.suspended = TRUE, !.policy = PolicyReply(turn)]
  <2>0. settled' = FALSE
    BY <1>10 DEF Suspend
  <2>1. CASE turn' = Routed(r) /\ draft'.phase = "suspended"
    <3>1. /\ r \in TurnType /\ r.text = turn.text /\ ~r.st.active /\ r.st.suspended
          /\ r.called = TRUE /\ r.knows = TRUE
      <4>1. turn.st \in ConvType /\ PolicyReply(turn) \in PolicyType
        BY <1>0, PolicyReplyType
      <4> QED BY <1>000, <4>1 DEF TurnType, ConvType
    <3> HIDE DEF r
    <3>2. /\ turn'.pc \in {"v2", "save", "ai"} /\ turn'.text = turn.text
          /\ turn'.called = TRUE /\ turn'.st.suspended /\ ~turn'.st.active
      BY <2>1, <3>1, RoutedFacts
    <3>3. turn'.pc = "v2" /\ turn'.event = "" => RoutesToBug(turn'.text)
      BY <2>1, <3>1, <3>2, RoutedFacts DEF Starts
    <3>4. Agrees(turn.st)'
      BY <2>1, <3>2 DEF Agrees
    <3> QED BY <2>0, <3>2, <3>3, <3>4, FlagsCalled
  <2>2. CASE turn' = [Called(FALSE) EXCEPT !.pc = "sorry", !.sorry = TRUE]
    <3>1. turn'.pc = "sorry" /\ turn'.called = TRUE /\ turn'.knows = FALSE
      BY <1>000, <2>2 DEF TurnType
    <3> QED BY <2>0, <3>1, FlagsCalled
  <2>3. Answers("SUSPEND", "suspended") => draft'.phase = "suspended"
    BY AnswersPhase
  <2> QED BY <1>10, <2>1, <2>2, <2>3 DEF Suspend
<1>11. CASE Sorry
  <2>1. turn.policy = Silent /\ Silent.route # "verified"
    BY <1>11 DEF Sorry, CountInv, Undecided, Silent
  <2>2. turn.called /\ ~turn.knows /\ ~settled
    BY <1>11 DEF Sorry, FlagInv
  <2>3. settled' = settled
    BY <1>11 DEF Sorry, history
  <2>4. CASE turn' = Idle
    BY <1>00, <2>2, <2>3, <2>4 DEF FlagInv
  <2>5. CASE turn' = Routed(turn)
    <3>1. /\ turn'.pc \in {"v2", "save", "ai"} /\ turn'.text = turn.text
          /\ turn'.called = turn.called /\ turn'.knows = turn.knows
          /\ turn'.st.active <=> turn.st.active
      BY <1>0, <2>1, <2>5, RoutedFacts
    <3>2. turn'.pc = "v2" /\ turn'.event = "" => turn'.st.active \/ RoutesToBug(turn'.text)
      BY <1>0, <2>5, <3>1, RoutedFacts DEF Starts
    <3> QED BY <1>0, <2>2, <2>3, <3>1, <3>2, FlagsCalled
  <2> QED BY <1>11, <2>4, <2>5 DEF Sorry
<1>12. CASE RunBugV2
  <2>0. settled' = FALSE
    BY <1>12 DEF RunBugV2
  <2>1. ASSUME NEW phase \in Phases, draft'.phase = phase,
               turn' = [Called(TRUE) EXCEPT !.pc = "save", !.reply = "v2", !.st = Remembered(phase)]
        PROVE  FlagInv'
    <3>1. turn'.pc = "save" /\ turn'.called = TRUE /\ turn'.st = Remembered(phase)
      BY <1>000, <2>1 DEF TurnType
    <3>2. /\ Remembered(phase).active <=> phase = "open"
          /\ Remembered(phase).suspended <=> phase = "suspended"
      BY DEF Remembered, NoConv
    <3>3. Agrees(turn.st)'
      BY <2>1, <3>1, <3>2 DEF Agrees
    <3> QED BY <2>0, <3>1, <3>3, FlagsCalled
  <2>2. CASE turn' = [Called(FALSE) EXCEPT !.pc = "save", !.reply = "v2",
                        !.st = [NoConv EXCEPT !.active = turn.st.active]]
    <3>1. turn'.pc = "save" /\ turn'.called = TRUE /\ turn'.knows = FALSE
      BY <1>000, <2>2 DEF TurnType
    <3> QED BY <2>0, <3>1, FlagsCalled
  <2>3. \A phase : Answers(turn.event, phase) => draft'.phase = phase
    BY AnswersPhase
  <2> QED BY <1>12, <2>1, <2>2, <2>3 DEF RunBugV2
<1>13. CASE Marker
  <2>1. CASE /\ turn' = [turn EXCEPT !.pc = "save", !.reply = "policy"]
             /\ UNCHANGED <<draft, settled, faults>>
    <3>1. turn'.pc = "save" /\ turn'.st = turn.st /\ turn'.called = turn.called /\ turn'.knows = turn.knows
      BY <1>0, <2>1 DEF TurnType
    <3> QED BY <1>13, <2>1, <3>1, FlagsKept DEF Marker
  <2>2. ASSUME settled' = FALSE, NEW phase \in Phases, draft'.phase = phase,
               turn' = [Called(phase # "suspended") EXCEPT !.pc = "save", !.reply = "v2",
                                                             !.st.active = phase = "open"]
        PROVE  FlagInv'
    <3>1. PICK b \in BOOLEAN : b <=> phase # "suspended"
      OBVIOUS
    <3>2. PICK a \in BOOLEAN : a <=> phase = "open"
      OBVIOUS
    <3>3. turn' = [Called(b) EXCEPT !.pc = "save", !.reply = "v2", !.st.active = a]
      BY <2>2, <3>1, <3>2
    <3>4. turn'.pc = "save" /\ turn'.called = TRUE /\ turn'.knows = b /\ turn'.st.active = a
      <4>1. Called(b) \in TurnType /\ Called(b).called = TRUE /\ Called(b).knows = b
        BY <1>000
      <4>2. Called(b).st \in ConvType
        BY <4>1 DEF TurnType
      <4>3. [Called(b).st EXCEPT !.active = a].active = a
        BY <4>2 DEF ConvType
      <4>4. /\ turn'.pc = "save" /\ turn'.called = Called(b).called /\ turn'.knows = Called(b).knows
            /\ turn'.st = [Called(b).st EXCEPT !.active = a]
        BY <3>3, <4>1 DEF TurnType
      <4> QED BY <4>1, <4>3, <4>4
    <3>5. turn'.knows => Agrees(turn.st)'
      BY <2>2, <3>1, <3>2, <3>4 DEF Agrees
    <3> QED BY <2>2, <3>4, <3>5, FlagsCalled
  <2>3. CASE settled' = FALSE /\ turn' = [Called(FALSE) EXCEPT !.pc = "save", !.reply = "v2", !.st.active = FALSE]
    <3>1. turn'.pc = "save" /\ turn'.called = TRUE /\ turn'.knows = FALSE
      BY <1>000, <2>3 DEF TurnType
    <3> QED BY <2>3, <3>1, FlagsCalled
  <2>4. \A phase : Answers("", phase) => draft'.phase = phase
    BY AnswersPhase
  <2> QED BY <1>13, <2>1, <2>2, <2>3, <2>4 DEF Marker
<1>14. CASE Ai
  <2>1. /\ turn'.pc \in {"save", "send"} /\ turn'.st = turn.st
        /\ turn'.called = turn.called /\ turn'.knows = turn.knows
    BY <1>0, <1>14 DEF Ai, TurnType
  <2> QED BY <1>14, <2>1, FlagsKept DEF Ai, history
<1>15. CASE Save
  <2>1. draft' = draft /\ turn.pc = "save"
    BY <1>15 DEF Save
  <2>2. /\ settled => Agrees(conv)
        /\ ~turn.called => turn.st.active = conv.active /\ turn.st.suspended = conv.suspended
        /\ turn.called /\ turn.knows => Agrees(turn.st)
        /\ turn.called /\ settled => turn.knows
    BY <2>1 DEF FlagInv
  <2>3. settled => Agrees(turn.st)
    BY <1>0, <2>2 DEF Agrees
  <2>4. CASE /\ conv' = turn.st
             /\ turn' = [turn EXCEPT !.pc = IF turn.reply = "marker" THEN "marker" ELSE "send"]
             /\ settled' = IF turn.called THEN turn.knows ELSE settled
    <3>1. /\ turn'.pc \in {"marker", "send"} /\ turn'.st = turn.st /\ turn'.reply = turn.reply
          /\ turn'.called = turn.called /\ turn'.knows = turn.knows
          /\ turn'.pc = "marker" => turn.reply = "marker"
      BY <1>0, <2>4 DEF TurnType
    <3>2. settled' => Agrees(conv)'
      BY <1>0, <2>1, <2>2, <2>3, <2>4 DEF Agrees
    <3>3. turn.called /\ turn.knows => Agrees(turn.st)'
      BY <2>1, <2>2, <3>1 DEF Agrees
    <3>4. turn.called /\ settled' => turn.knows
      BY <2>4
    <3> QED BY <2>4, <3>1, <3>2, <3>3, <3>4 DEF FlagInv
  <2>5. CASE conv' \in {conv, turn.st} /\ turn' = Idle /\ settled' = settled
    <3>1. settled' => Agrees(conv)'
      BY <2>1, <2>2, <2>3, <2>5 DEF Agrees
    <3> QED BY <1>00, <2>5, <3>1 DEF FlagInv
  <2> QED BY <1>15, <2>4, <2>5 DEF Save
<1>16. CASE Send \/ MarkDone \/ Acknowledge
  <2>1. /\ conv' = conv /\ draft' = draft /\ settled' = settled
        /\ turn.pc \in {"send", "mark", "ack"}
    BY <1>16 DEF Send, MarkDone, Acknowledge, history
  <2>2. \/ turn' = Idle
        \/ turn' = [turn EXCEPT !.pc = "mark"]
        \/ turn' = [turn EXCEPT !.pc = "ack"]
    BY <1>16 DEF Send, MarkDone, Acknowledge
  <2>3. CASE turn' = Idle
    BY <2>1, <2>3, FlagsIdle
  <2>4. CASE turn' = [turn EXCEPT !.pc = "mark"] \/ turn' = [turn EXCEPT !.pc = "ack"]
    <3>1. /\ turn'.pc \in {"mark", "ack"} /\ turn'.st = turn.st
          /\ turn'.called = turn.called /\ turn'.knows = turn.knows
      BY <1>0, <2>4 DEF TurnType
    <3> QED BY <2>1, <3>1, FlagsKept
  <2> QED BY <2>2, <2>3, <2>4
<1> QED
  BY <1>1, <1>2, <1>3, <1>4, <1>5, <1>6, <1>7, <1>8, <1>9, <1>10, <1>11, <1>12, <1>13, <1>14, <1>15, <1>16
  DEF Next

FlagFacts == TypeOK /\ CarriedInv /\ CountInv /\ FlagInv

LEMMA FlagFactsHold == Spec => []FlagFacts
<1>1. Init => FlagFacts
  <2>1. Idle.pc = "idle" /\ Idle.called = FALSE
    BY DEF Idle
  <2>2. Init => /\ turn = Idle /\ prompts = 0 /\ resets = 0 /\ conv.count = 0
                /\ conv.active = FALSE /\ draft.phase = "none"
    BY DEF Init, NoConv, NoDraft
  <2>3. Init => prompts <= Spare + conv.count
    BY <2>2, SpareFacts DEF Spare
  <2>4. Init => Agrees(conv)
    BY <2>2 DEF Agrees
  <2>5. Init => CarriedInv /\ CountInv
    BY <2>1, <2>2, <2>3 DEF CarriedInv, CountInv, Undecided
  <2>6. Init => FlagInv
    BY <2>1, <2>2, <2>4 DEF FlagInv
  <2> QED BY <2>5, <2>6, InitType DEF FlagFacts
<1>2. FlagFacts /\ [Next]_vars => FlagFacts'
  BY StepType, CarriedStep, CountStep, FlagStep DEF FlagFacts
<1> QED BY <1>1, <1>2, PTL DEF Spec

\* Redis and the database agree between turns: the flags that route the next message follow the
\* draft, whatever failed, but for an outcome that was not saved or has expired since.
THEOREM FlagsFollowDraftHolds == Spec => []FlagsFollowDraft
<1>1. FlagFacts => FlagsFollowDraft
  BY DEF FlagFacts, FlagInv, FlagsFollowDraft, Agrees
<1> QED BY <1>1, FlagFactsHold, PTL

\* Of the calls of the assistant, only one that leaves the meaning of the message to it opens a
\* draft that is not suspended.
LEMMA OpensByMessage ==
  ASSUME NEW event \in {"", "SUSPEND", "RESUME", "CANCEL"},
         draft.phase \in {"none", "done"}, draft'.phase = "open",
         Raises(event) \/ \E phase : Answers(event, phase)
  PROVE  event = ""
<1>1. "open" \in Targets(Meaning(event))
  <2>1. CASE \E phase : Answers(event, phase)
    BY <2>1, AnswersPhase DEF Answers
  <2>2. CASE Raises(event)
    <3>1. draft' # draft
      OBVIOUS
    <3>2. PICK p \in Targets(Meaning(event)) : draft' = Drafted(Meaning(event), p)
      BY <2>2, <3>1 DEF Raises
    <3> QED BY <3>2 DEF Drafted
  <2> QED BY <2>1, <2>2
<1>2. event # "" => Meaning(event) = event
  BY DEF Meaning
<1> QED BY <1>1, <1>2 DEF Targets

\* A draft is opened only by a message that reports a problem, or on Dify's word; but for flags
\* that no longer tell the state of the draft.
THEOREM OnlyReportsOpenDraftsHolds == Spec => OnlyReportsOpenDrafts
<1>1. FlagFacts /\ [Next]_vars
        => [draft.phase \in {"none", "done"} /\ draft'.phase = "open"
              => RoutesToBug(turn.text) \/ turn.reply = "marker" \/ ~settled]_vars
  <2> SUFFICES ASSUME FlagFacts, Next, draft.phase \in {"none", "done"}, draft'.phase = "open"
               PROVE  RoutesToBug(turn.text) \/ turn.reply = "marker" \/ ~settled
    OBVIOUS
  <2> USE DEF FlagFacts
  <2>1. turn.event \in {"", "SUSPEND", "RESUME", "CANCEL"}
    BY DEF TypeOK, TurnType
  <2>2. CASE Suspend
    <3>1. Raises("SUSPEND") \/ \E phase : Answers("SUSPEND", phase)
      BY <2>2 DEF Suspend
    <3> QED BY <3>1, OpensByMessage
  <2>3. CASE RunBugV2
    <3>1. turn.event = ""
      <4>1. Raises(turn.event) \/ \E phase : Answers(turn.event, phase)
        BY <2>3 DEF RunBugV2
      <4> QED BY <2>1, <4>1, OpensByMessage
    <3>2. turn.st.active \/ RoutesToBug(turn.text)
      BY <2>3, <3>1 DEF RunBugV2, At, FlagInv
    <3>3. ~Agrees(turn.st) \/ ~turn.st.active
      BY DEF Agrees
    <3>4. settled /\ turn.st.active => Agrees(turn.st)
      <4>1. CASE turn.called
        BY <4>1 DEF FlagInv
      <4>2. CASE ~turn.called
        <5>1. turn.st.active = conv.active
          BY <2>3, <4>2 DEF RunBugV2, At, FlagInv
        <5> QED BY <5>1 DEF FlagInv, Agrees
      <4> QED BY <4>1, <4>2
    <3> QED BY <3>2, <3>3, <3>4
  <2>4. CASE Marker
    BY <2>4 DEF Marker, At, FlagInv
  <2>5. CASE Expire
    BY <2>5 DEF Expire, NoDraft
  <2>6. Suspend \/ RunBugV2 \/ Marker \/ Expire \/ UNCHANGED draft
    BY DEF Next, Begin, Notify, Crash, Lapse, ReadState, Prepare, Handoff, Route, Progress, Sorry,
           Ai, Save, Send, MarkDone, Acknowledge
  <2> QED BY <2>2, <2>3, <2>4, <2>5, <2>6
<1> QED BY <1>1, FlagFactsHold, PTL DEF Spec, OnlyReportsOpenDrafts

=============================================================================
