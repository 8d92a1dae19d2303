-------------------------------- MODULE Turn --------------------------------
(***************************************************************************)
(* How MessageProcessor.process answers the messages of one user: the      *)
(* route of a message (reply policy, bug assistant or Dify), the flags in  *)
(* the conversation store that steer it, the draft of the bug assistant    *)
(* and the progress notifications that a bot reply carries.                *)
(*                                                                         *)
(* The queue hands the messages of a user to one worker at a time          *)
(* (MessageQueue).  A message whose turn failed is redelivered, which here *)
(* is the user writing it once more.  The phase of a draft is "none",      *)
(* "open", "suspended" or "done" and abstracts the states of BugReport; a  *)
(* draft also remembers whether a knowledge question is written into it.   *)
(***************************************************************************)
EXTENDS ReplyPolicy, FiniteSets

CONSTANTS Messages,   \* what the user may write: a kind and a text
          Protocols,  \* "kf", "bot"
          Notices,    \* progress notifications of this user
          MaxTurns,   \* bound on turns
          Expiries,   \* what may expire: "conv", "draft"
          FaultOps, MaxFaults

Kinds == {"text", "image", "voice", "empty", "other"}
Ops == {"get", "list", "media", "lookup", "v2", "save", "ai", "send", "ack", "crash"}

ASSUME TurnAssumption ==
  /\ Messages \subseteq [kind : Kinds, text : Texts]
  /\ Protocols \subseteq {"kf", "bot"}
  /\ MaxTurns \in Nat /\ MaxFaults \in Nat
  /\ Expiries \subseteq {"conv", "draft"}
  /\ FaultOps \subseteq Ops

VARIABLES
  protocol,  \* of this user
  conv,      \* wecom:convstate of the user
  draft,     \* the user's latest draft in the database
  notices,   \* notifications that wait for the user
  turn,      \* local variables of process
  \* History, read by properties only.
  settled,   \* the flags that follow from the last call of the assistant are saved
  prompts,   \* clarifications the user has got since the last other answer that arrived
  resets,    \* how often the count of them in Redis was taken back since then
  shown,     \* notifications that a reply has carried
  turns, faults

vars == <<protocol, conv, draft, notices, turn, settled, prompts, resets, shown, turns, faults>>
history == <<settled, prompts, resets, shown, turns>>

NoText == [hits |-> {}, bugs |-> 0, word |-> "", image |-> FALSE]
NoConv == [active |-> FALSE, suspended |-> FALSE, count |-> 0, exhausted |-> FALSE]
NoDraft == [phase |-> "none", asked |-> FALSE]
Phases == {"none", "open", "suspended", "done"}
Replies == {"", "canned", "policy", "prompt", "exhausted", "progress", "v2", "blocked", "faq", "marker", "apology"}
Pcs == {"idle", "read", "prepare", "handoff", "route", "progress", "suspend", "sorry",
        "v2", "save", "ai", "marker", "send", "mark", "ack"}

Idle == [pc |-> "idle", kind |-> "empty", text |-> NoText, st |-> NoConv, policy |-> Silent,
         carried |-> {}, reply |-> "", event |-> "",
         called |-> FALSE,   \* the bug assistant has been called
         knows |-> FALSE,    \* ... and st says what it answered
         sorry |-> FALSE]    \* a suspension has failed

At(pc) == turn.pc = pc
Fault(op) == op \in FaultOps /\ faults < MaxFaults /\ faults' = faults + 1

\* The count of clarifications goes down when another answer is saved, or expires.
Recount == resets' = IF conv'.count < conv.count THEN resets + 1 ELSE resets

\* An exception leaves process: nothing of the turn stays but what it has stored.
Fails(op) == Fault(op) /\ turn' = Idle

-----------------------------------------------------------------------------
(* Around a turn                                                           *)

Begin(m) ==
  /\ At("idle") /\ turns < MaxTurns
  /\ turn' = [Idle EXCEPT !.pc = "read", !.kind = m.kind, !.text = m.text]
  /\ turns' = turns + 1
  /\ UNCHANGED <<protocol, conv, draft, notices, settled, prompts, resets, shown, faults>>

Crash ==
  /\ ~At("idle") /\ Fails("crash")
  /\ UNCHANGED <<protocol, conv, draft, notices, history>>

\* The state of an idle conversation expires.
Lapse ==
  /\ At("idle") /\ "conv" \in Expiries /\ conv # NoConv
  /\ conv' = NoConv /\ settled' = FALSE /\ Recount
  /\ UNCHANGED <<protocol, draft, notices, turn, prompts, shown, turns, faults>>

\* The time to live of a draft passes.
Expire ==
  /\ At("idle") /\ "draft" \in Expiries /\ draft.phase \in {"open", "suspended"}
  /\ draft' = NoDraft /\ settled' = FALSE
  /\ UNCHANGED <<protocol, conv, notices, turn, prompts, resets, shown, turns, faults>>

\* A pass of the issue status service leaves a notification (IssueStatus).
Notify(n) ==
  /\ n \notin notices \cup shown
  /\ notices' = notices \cup {n}
  /\ UNCHANGED <<protocol, conv, draft, turn, history, faults>>

-----------------------------------------------------------------------------
(* Up to the route                                                         *)

\* get_state, then list_notifications (bot only), whose failure is ignored.
ReadState ==
  /\ At("read")
  /\ \/ /\ turn' = [turn EXCEPT !.pc = "prepare", !.st = conv,
                                !.carried = IF protocol = "bot" THEN notices ELSE {}]
        /\ UNCHANGED faults
     \/ /\ protocol = "bot" /\ Fault("list")
        /\ turn' = [turn EXCEPT !.pc = "prepare", !.st = conv]
     \/ Fails("get")
  /\ UNCHANGED <<protocol, conv, draft, notices, history>>

\* What _prepare_kf_input and _prepare_bot_input make of a message, with the text that
\* they hand on; failed says that the download, the decoding or the recognition of its
\* media failed.  Only a bot message has an image and a text.
Form(kind, failed) ==
  CASE kind \in {"empty", "other"} -> {IF protocol = "bot" THEN "canned" ELSE "none"}
    [] kind = "text"               -> {"text"}
    [] kind = "image"              -> {IF failed /\ protocol = "kf" THEN "none" ELSE "text"}
    [] kind = "voice"              -> IF failed /\ protocol = "kf" THEN {"none", "text"} ELSE {"text"}

Input(kind, t, failed) ==
  LET said == IF (kind = "voice" /\ failed) \/ (kind = "image" /\ protocol = "kf")
              THEN NoText ELSE t
  IN  [said EXCEPT !.image = kind = "image" /\ ~failed]

\* A message with nothing in it is marked done at once, and a bot's unsupported one gets
\* a fixed answer.
Prepare ==
  /\ At("prepare")
  /\ \E failed \in BOOLEAN :
       /\ IF failed THEN turn.kind \in {"image", "voice"} /\ Fault("media") ELSE UNCHANGED faults
       /\ \E form \in Form(turn.kind, failed) :
            turn' = CASE form = "none"   -> [turn EXCEPT !.pc = "mark"]
                      [] form = "canned" -> [turn EXCEPT !.pc = "send", !.reply = "canned"]
                      [] form = "text"   -> [turn EXCEPT !.pc = IF protocol = "kf" THEN "handoff" ELSE "route",
                                                         !.text = Input(turn.kind, turn.text, failed)]
  /\ UNCHANGED <<protocol, conv, draft, notices, history>>

\* Staff has taken over, as far as Chatwoot answers: no reply.  A failing check says no.
Handoff ==
  /\ At("handoff")
  /\ \E pc \in {"mark", "route"} : turn' = [turn EXCEPT !.pc = pc]
  /\ UNCHANGED <<protocol, conv, draft, notices, history, faults>>

Unvague(st) == [st EXCEPT !.count = 0, !.exhausted = FALSE]

EventFor(word) == CASE word = "resume" -> "RESUME" [] word = "cancel" -> "CANCEL"
                    [] word = "switch" -> "SUSPEND" [] OTHER -> ""

StartsByImage(r) == r.st.active \/ RoutesToBug(r.text) \/ r.text.image

\* _should_start_bug_v2
Starts(r) == r.st.active \/ RoutesToBug(r.text)

PolicyKind(p) == CASE p.route = "vague_prompt"    -> "prompt"
                   [] p.route = "vague_exhausted" -> "exhausted"
                   [] OTHER                       -> "policy"

\* The route of a turn whose policy reply is known: that reply, the bug assistant, the
\* reminder of a suspended draft or Dify.
Routed(r) ==
  LET back    == r.text.word \in {"resume", "cancel"}
      blocked == r.st.suspended /\ ~back /\ Intent(r.text).intent = "bug_report"
      runs    == \/ Starts(r) /\ ~blocked
                 \/ r.st.suspended /\ back
  IN  IF r.policy # Silent
      THEN [r EXCEPT !.pc = "save", !.reply = PolicyKind(r.policy),
                     !.st = [active |-> @.active /\ r.policy.route # "verified", suspended |-> @.suspended,
                             count |-> r.policy.count, exhausted |-> r.policy.exhausted]]
      ELSE IF runs    THEN [r EXCEPT !.pc = "v2", !.event = EventFor(r.text.word)]
      ELSE IF blocked THEN [r EXCEPT !.pc = "save", !.reply = "blocked"]
      ELSE [r EXCEPT !.pc = "ai", !.st = Unvague(@)]

SuspendsForVerified(r) == r.st.active /\ "verified" \in r.text.hits /\ ~r.text.image

\* A knowledge question that finds an open draft.
Suspends(r) == r.st.active /\ IsQuestion(r.text) /\ ~r.text.image

PolicyReplyUncounted(r) == Evaluate(r.text, 0, r.st.exhausted)

PolicyReply(r) == Evaluate(r.text, r.st.count, r.st.exhausted)

\* An open draft owns its next message, but a query of its progress is answered and a
\* knowledge question first suspends it.
Route ==
  /\ At("route")
  /\ turn' = IF ~turn.st.active THEN Routed([turn EXCEPT !.policy = PolicyReply(turn)])
             ELSE IF Intent(turn.text).intent = "bug_progress" THEN [turn EXCEPT !.pc = "progress"]
             ELSE IF Suspends(turn) THEN [turn EXCEPT !.pc = "suspend"]
             ELSE Routed(turn)
  /\ UNCHANGED <<protocol, conv, draft, notices, history, faults>>

\* progress_for_subscriber
Progress ==
  /\ At("progress")
  /\ \/ turn' = [turn EXCEPT !.pc = "save", !.reply = "progress"] /\ UNCHANGED faults
     \/ Fails("lookup")
  /\ UNCHANGED <<protocol, conv, draft, notices, history>>

-----------------------------------------------------------------------------
(* The bug assistant                                                       *)

\* What the message is to the assistant (_event_for, when the turn names no event).
Meaning(event) ==
  IF event # "" THEN event
  ELSE IF turn.text.word = "switch" THEN "SUSPEND"
  ELSE IF draft.phase \in {"none", "done"} THEN "START"
  ELSE IF draft.phase = "suspended" /\ turn.text.word = "resume" THEN "RESUME"
  ELSE "PATCH"

\* The phases to which an event may take the draft; none when it is refused.
Targets(event) ==
  CASE event = "SUSPEND" -> IF draft.phase \in {"open", "suspended"} THEN {"suspended"} ELSE {}
    [] event = "RESUME"  -> IF draft.phase = "suspended" THEN {"open"} ELSE {}
    [] event = "CANCEL"  -> IF draft.phase = "none" THEN {} ELSE {"done"}
    [] event = "START"   -> {"open"}
    [] event = "PATCH"   -> IF draft.phase = "open" /\ turn.text.word \in {"yes", "cancel"}
                            THEN {"open", "done"} ELSE {"open"}

\* The draft after the event; the text becomes part of it unless the event is a command.
Drafted(event, phase) ==
  [phase |-> phase,
   asked |-> \/ event # "START" /\ draft.asked
             \/ event \in {"START", "PATCH"} /\ IsQuestion(turn.text) /\ ~turn.text.image]

\* The call succeeds.
Answers(event, phase) ==
  /\ phase \in Targets(Meaning(event))
  /\ draft' = Drafted(Meaning(event), phase)
  /\ UNCHANGED faults

\* The call raises: it is refused, or fails before or after its commit.
Raises(event) ==
  \/ /\ \/ Targets(Meaning(event)) = {}
        \/ draft.phase = "done" /\ event = "CANCEL"   \* not an abandoned one
     /\ UNCHANGED <<draft, faults>>
  \/ /\ Fault("v2")
     /\ draft' \in {draft} \cup {Drafted(Meaning(event), p) : p \in Targets(Meaning(event))}

Called(knows) == [turn EXCEPT !.called = TRUE, !.knows = knows]

\* SUSPEND before a knowledge question; then the policy has a say again.
Suspend ==
  /\ At("suspend")
  /\ \/ /\ Answers("SUSPEND", "suspended")
        /\ turn' = Routed([Called(TRUE) EXCEPT !.st.active = FALSE, !.st.suspended = TRUE,
                                               !.policy = PolicyReply(turn)])
     \/ /\ Raises("SUSPEND")
        /\ turn' = [Called(FALSE) EXCEPT !.pc = "sorry", !.sorry = TRUE]
  /\ settled' = FALSE
  /\ UNCHANGED <<protocol, conv, notices, prompts, resets, shown, turns>>

\* The suspension failed: the state is saved and the turn goes on with the draft active.
Sorry ==
  /\ At("sorry")
  /\ \/ conv' = turn.st /\ turn' = Routed(turn) /\ UNCHANGED faults
     \/ conv' \in {conv, turn.st} /\ Fails("save")
  /\ UNCHANGED <<protocol, draft, notices, history>>

RememberedUntilDone(phase) == [NoConv EXCEPT !.active = phase \in {"open", "suspended"}]

\* The flags that follow from an answer of the assistant (continue_session, state).
Remembered(phase) == [NoConv EXCEPT !.active = phase = "open", !.suspended = phase = "suspended"]

\* The message goes to the assistant; its failure is answered with "retry later".
RunBugV2 ==
  /\ At("v2")
  /\ \/ \E phase \in Phases :
          /\ Answers(turn.event, phase)
          /\ turn' = [Called(TRUE) EXCEPT !.pc = "save", !.reply = "v2", !.st = Remembered(phase)]
     \/ /\ Raises(turn.event)
        /\ turn' = [Called(FALSE) EXCEPT !.pc = "save", !.reply = "v2",
                      !.st = [NoConv EXCEPT !.active = turn.st.active]]
  /\ settled' = FALSE
  /\ UNCHANGED <<protocol, conv, notices, prompts, resets, shown, turns>>

\* Dify's answer held the marker of a bug report.  Only the flag of an open draft follows
\* from the call here: st does not know of a draft it suspends.
Marker ==
  /\ At("marker")
  /\ \/ /\ BlocksBugRoute(turn.text)
        /\ turn' = [turn EXCEPT !.pc = "save", !.reply = "policy"]
        /\ UNCHANGED <<draft, settled, faults>>
     \/ /\ ~BlocksBugRoute(turn.text) /\ settled' = FALSE
        /\ \/ \E phase \in Phases :
                /\ Answers("", phase)
                /\ turn' = [Called(phase # "suspended") EXCEPT !.pc = "save", !.reply = "v2",
                                                               !.st.active = phase = "open"]
           \/ /\ Raises("")
              /\ turn' = [Called(FALSE) EXCEPT !.pc = "save", !.reply = "v2", !.st.active = FALSE]
  /\ UNCHANGED <<protocol, conv, notices, prompts, resets, shown, turns>>

-----------------------------------------------------------------------------
(* Dify and the end of the turn                                            *)

\* A failure of Dify is answered with an apology, and nothing is saved.
Ai ==
  /\ At("ai")
  /\ \/ \E reply \in {"faq", "marker"} : turn' = [turn EXCEPT !.pc = "save", !.reply = reply]
        /\ UNCHANGED faults
     \/ Fault("ai") /\ turn' = [turn EXCEPT !.pc = "send", !.reply = "apology"]
  /\ UNCHANGED <<protocol, conv, draft, notices, history>>

Save ==
  /\ At("save")
  /\ \/ /\ conv' = turn.st
        /\ turn' = [turn EXCEPT !.pc = IF turn.reply = "marker" THEN "marker" ELSE "send"]
        /\ settled' = IF turn.called THEN turn.knows ELSE settled
        /\ UNCHANGED faults
     \/ conv' \in {conv, turn.st} /\ Fails("save") /\ UNCHANGED settled
  /\ Recount
  /\ UNCHANGED <<protocol, draft, notices, prompts, shown, turns>>

\* What the user gets to see when the reply arrives.  That the clarifications are used
\* up is no other answer: it does not end their row.
Arrives ==
  /\ shown' = shown \cup turn.carried
  /\ prompts' = CASE turn.reply = "prompt"    -> prompts + 1
                  [] turn.reply = "exhausted" -> prompts
                  [] OTHER                    -> 0
  /\ resets' = IF turn.reply \in {"prompt", "exhausted"} THEN resets ELSE 0

SendUnchecked ==
  /\ At("send")
  /\ turn' = [turn EXCEPT !.pc = "mark"]
  /\ \/ Arrives /\ UNCHANGED faults
     \/ Fault("send") /\ UNCHANGED <<shown, prompts, resets>>
  /\ UNCHANGED <<protocol, conv, draft, notices, settled, turns>>

\* The waiting notifications go in front of the reply.  A send that fails may have arrived.
Send ==
  /\ At("send")
  /\ \/ turn' = [turn EXCEPT !.pc = "mark"] /\ Arrives /\ UNCHANGED faults
     \/ Fails("send") /\ (Arrives \/ UNCHANGED <<shown, prompts, resets>>)
  /\ UNCHANGED <<protocol, conv, draft, notices, settled, turns>>

\* mark_done swallows its failure; the turn goes on.
MarkDone ==
  /\ At("mark")
  /\ turn' = IF turn.reply # "" /\ turn.carried # {} THEN [turn EXCEPT !.pc = "ack"] ELSE Idle
  /\ UNCHANGED <<protocol, conv, draft, notices, history, faults>>

\* acknowledge, whose failure is ignored.
Acknowledge ==
  /\ At("ack")
  /\ \/ notices' = notices \ turn.carried /\ turn' = Idle /\ UNCHANGED faults
     \/ notices' \in {notices, notices \ turn.carried} /\ Fails("ack")
  /\ UNCHANGED <<protocol, conv, draft, history>>

-----------------------------------------------------------------------------
Init ==
  /\ protocol \in Protocols
  /\ conv = NoConv /\ draft = NoDraft /\ notices = {} /\ turn = Idle
  /\ settled = TRUE /\ prompts = 0 /\ resets = 0 /\ shown = {}
  /\ turns = 0 /\ faults = 0

Next ==
  \/ \E m \in Messages : Begin(m)
  \/ \E n \in Notices : Notify(n)
  \/ Crash \/ Lapse \/ Expire
  \/ ReadState \/ Prepare \/ Handoff \/ Route \/ Progress
  \/ Suspend \/ Sorry \/ RunBugV2 \/ Marker
  \/ Ai \/ Save \/ Send \/ MarkDone \/ Acknowledge

Spec == Init /\ [][Next]_vars

-----------------------------------------------------------------------------
(* Properties                                                              *)

ConvType == [active : BOOLEAN, suspended : BOOLEAN, count : 0..MaxPrompts, exhausted : BOOLEAN]
PolicyType == [route : Routes, count : 0..MaxPrompts, exhausted : BOOLEAN]
TurnType == [pc : Pcs, kind : Kinds, text : Texts, st : ConvType, policy : PolicyType,
             carried : SUBSET Notices, reply : Replies, event : {"", "SUSPEND", "RESUME", "CANCEL"},
             called : BOOLEAN, knows : BOOLEAN, sorry : BOOLEAN]

\* Types; a clarification is never counted past its maximum.
TypeOK ==
  /\ protocol \in Protocols
  /\ conv \in ConvType /\ draft \in [phase : Phases, asked : BOOLEAN]
  /\ notices \subseteq Notices /\ shown \subseteq Notices
  /\ turn \in TurnType
  /\ settled \in BOOLEAN /\ prompts \in Nat /\ resets \in Nat
  /\ turns \in 0..MaxTurns /\ faults \in 0..MaxFaults

\* Redis and the database agree: between turns, when the outcome of the last call of the
\* assistant has been saved and nothing has expired since, exactly an open draft is active
\* (it owns the next message) and a suspended one can be resumed (process).
FlagsFollowDraft ==
  At("idle") /\ settled =>
    /\ conv.active <=> draft.phase = "open"
    /\ draft.phase = "suspended" => conv.suspended

\* A user gets at most MaxPrompts clarifications in a row, whatever fails between the
\* counting and the sending, and MaxPrompts more only for each time that the count was
\* taken back although the user got no other answer: one was saved and not delivered, or
\* the conversation expired (_vague_response).
PromptsBounded == prompts <= MaxPrompts * (1 + resets)

\* A draft is opened only by a message that reports a problem, or on Dify's word; but for
\* flags that no longer tell the state of the draft (_should_start_bug_v2).
OnlyReportsOpenDrafts ==
  [][draft.phase \in {"none", "done"} /\ draft'.phase = "open"
       => RoutesToBug(turn.text) \/ turn.reply = "marker" \/ ~settled]_vars

\* A knowledge question gets into a draft only after its suspension has failed in the same
\* turn: neither the route nor a marker of Dify takes it there (process).
QuestionsSuspend == [][~draft.asked /\ draft'.asked => turn.sorry]_vars

\* "The subsequent RAG call has no authority to mutate the draft": a verified knowledge
\* question never becomes part of one.
QuestionsStayOut == ~draft.asked

\* A notification that is no longer listed has been in a reply that was sent.
AckedWasShown == [][notices \ notices' \subseteq shown]_vars

\* "This message has not been processed, please retry later": a user whose suspended draft
\* has not expired can resume it by the words the last reply proposes.
SuspendedIsReachable ==
  At("idle") /\ draft.phase = "suspended" => conv.suspended \/ conv.active

=============================================================================
