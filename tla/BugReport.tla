----------------------------- MODULE BugReport ------------------------------
(***************************************************************************)
(* The v2 bug report path: one message of a user is read against the       *)
(* current draft, handled by the orchestrator in one transaction, and a    *)
(* confirmed submission is copied to the Feishu table, at once or by       *)
(* Celery retries.  A request is one message (POST v2/message), one        *)
(* structured turn (POST v2/turn) or the retry task that a message left    *)
(* behind.  Several of them run at a time; each transaction is one step,   *)
(* except the synchronisation, whose transaction stays open over its       *)
(* Feishu calls and which therefore holds the row lock of its draft        *)
(* between its steps.  Rolled back work leaves no trace.                   *)
(*                                                                         *)
(* A text is the request that carries it; a description is the set of the  *)
(* texts it was composed of; an image is the request that carries it.      *)
(***************************************************************************)
EXTENDS Integers, Sequences, FiniteSets

CONSTANTS Identities,    \* the users' identities (a channel's user and session)
          KeysOf,        \* [Identities -> Seq(binding keys)]: session, then user
          MaxRequests,   \* bound on requests
          Inputs,        \* what a request may ask for
          MaxDrafts,     \* bound on drafts created
          MaxRetries,    \* max_retries of the task
          MaxOpen,       \* bound on requests under way at a time
          ForeignRows,   \* rows of the table that were entered by hand
          FaultOps,      \* the calls that may fail
          MaxFaults,     \* bound on failures
          MaxLate        \* bound on drafts that outlive their TTL

Requests == 1..MaxRequests   \* in the order of their arrival
NoReq == 0
Drafts == 1..MaxDrafts
NoDraft == 0
NoRow == 0
NoIssue == 0
Keys == UNION {{KeysOf[i][n] : n \in DOMAIN KeysOf[i]} : i \in Identities}

ConfirmEvents == {"CONFIRM_SUBMIT", "CONFIRM_MATCH", "REJECT_MATCH"}
CollectEvents == {"START_REPORT", "PATCH_REPORT"}
Events == ConfirmEvents \cup CollectEvents \cup {"SUSPEND", "RESUME", "CANCEL"}
TextKinds == {"", "other", "yes", "submit", "same", "no", "cancel", "qa", "resume"}

TerminalStatuses == {"submitted", "abandoned", "expired", "superseded", "escalated"}
ImmutableFlowStates == {"linked_existing", "queued_for_submission", "submitted", "abandoned"}
FlowStates == ImmutableFlowStates \cup
  {"collecting", "matching", "awaiting_match_confirmation", "ready_to_submit",
   "suspended", "expired", "superseded"}

Ops == {"attach", "match", "upload", "search", "write", "reply", "commit", "publish", "crash"}

ASSUME BugReportAssumption ==
  /\ MaxRequests \in Nat /\ MaxDrafts \in Nat /\ MaxRetries \in Nat /\ MaxOpen \in Nat
  /\ ForeignRows \in Nat /\ MaxFaults \in Nat /\ MaxLate \in Nat
  /\ KeysOf \in [Identities -> Seq(Keys)]
  /\ Inputs \subseteq [turn: BOOLEAN, event: Events \cup {""}, text: TextKinds,
                       image: BOOLEAN, draft: Drafts \cup {NoDraft}, force: BOOLEAN]
  /\ FaultOps \subseteq Ops

VARIABLES
  draft,    \* bug_drafts
  binding,  \* bug_conversation_bindings: key -> draft
  staged,   \* bug_attachments: the images of each draft
  tokens,   \* those that have a Feishu file token
  issues,   \* bug_issues, in the order of creation
  report,   \* bug_reports: one per draft
  subs,     \* bug_subscriptions
  outbox,   \* bug_outbox: status of create_issue_v2 of each draft
  rows,     \* the Feishu table; the index of a row is its record id
  lock,     \* row lock of each draft held by an open synchronisation
  req,      \* the requests
  faults,   \* failures so far
  lates     \* drafts that have outlived their TTL so far

tables == <<draft, binding, staged, tokens, issues, report, subs, outbox>>
vars == <<draft, binding, staged, tokens, issues, report, subs, outbox,
          rows, lock, req, faults, lates>>

NullDraft == [status |-> "", flow |-> "", desc |-> {}, match |-> NoRow,
              late |-> FALSE, back |-> ""]
NullReport == [issue |-> NoIssue, status |-> "", ext |-> NoRow, desc |-> {}]
NullInput == [turn |-> FALSE, event |-> "", text |-> "", image |-> FALSE,
              draft |-> NoDraft, force |-> FALSE]
NullReq == [pc |-> "idle", who |-> "", in |-> NullInput, ev |-> "", d |-> NoDraft,
            state |-> "", next |-> "", toks |-> {}, row |-> NoRow, tries |-> 0, reply |-> ""]

-----------------------------------------------------------------------------
(* Drafts                                                                  *)

Exists(d) == d # NoDraft /\ draft[d].status # ""
Terminal(dr) == dr.status \in TerminalStatuses
Created == {d \in Drafts : Exists(d)}
Room == Cardinality(Created) < MaxDrafts
NextDraft == Cardinality(Created) + 1

\* The first key of the identity that is bound decides.
Bound(i) ==
  LET hits == {n \in DOMAIN KeysOf[i] : binding[KeysOf[i][n]] # NoDraft}
  IN  IF hits = {} THEN NoDraft
      ELSE binding[KeysOf[i][CHOOSE n \in hits : \A m \in hits : n <= m]]

\* An explicit id never falls back to the bound draft.
Resolve(i, explicit) ==
  IF explicit = NoDraft THEN Bound(i)
  ELSE IF Exists(explicit) THEN explicit ELSE NoDraft

\* Mutant: an image may be stored while the draft is synchronised.
UnlockedAlways(d) == TRUE

\* An open synchronisation holds the row of the draft FOR UPDATE.  It blocks whoever selects the
\* draft FOR UPDATE, and whoever inserts an image of it: the foreign key of bug_attachments to
\* bug_drafts needs that row too (PostgreSQL).
Unlocked(d) == d # NoDraft => lock[d] = NoReq

\* Mutant: a key that is bound stays bound (ON CONFLICT DO NOTHING).
UpsertedIfUnbound(i, d) ==
  [k \in Keys |-> IF binding[k] = NoDraft /\ \E n \in DOMAIN KeysOf[i] : KeysOf[i][n] = k
                  THEN d ELSE binding[k]]

\* The bindings of an identity all point to the draft.
Upserted(i, d) == [k \in Keys |-> IF \E n \in DOMAIN KeysOf[i] : KeysOf[i][n] = k
                                  THEN d ELSE binding[k]]

\* ensure_draft opens a new draft when told to, when there is none and when the TTL
\* of an unfinished one has passed.
Outlived(d0) == d0 # NoDraft /\ ~Terminal(draft[d0]) /\ draft[d0].late
Renews(d0, force) == force \/ Outlived(d0) \/ d0 = NoDraft

\* ensure_draft: the draft that takes the message, with its new description
\* (desc = {}: no patch), and what becomes of the one it replaces.
Ensure(i, d0, force, desc) ==
  LET new     == Renews(d0, force)
      end     == IF Outlived(d0) THEN "expired" ELSE "superseded"
      d       == IF new THEN NextDraft ELSE d0
      base    == IF new THEN [NullDraft EXCEPT !.status = "active", !.flow = "collecting"]
                 ELSE draft[d0]
      patched == [base EXCEPT !.desc = IF desc = {} THEN @ ELSE desc,
                              !.late = @ /\ Terminal(base)]
      closed  == IF new /\ d0 # NoDraft /\ ~Terminal(draft[d0])
                 THEN [draft EXCEPT ![d0].status = end, ![d0].flow = end]
                 ELSE draft
  IN  [d |-> d, draft |-> [closed EXCEPT ![d] = patched],
       binding |-> Upserted(i, d)]

\* Without a text the orchestrator does not call ensure_draft.
Untouched(d) == [d |-> d, draft |-> draft, binding |-> binding]

Moved(dr, flow) == [dr EXCEPT !.flow = flow]
Closed(dr, flow, status) == [dr EXCEPT !.flow = flow, !.status = status]

-----------------------------------------------------------------------------
(* Events                                                                  *)

\* _event_for: what a text means in the state that was read.
EventFor(state, text) ==
  CASE text = "qa" -> "SUSPEND"
    [] text # "qa" /\ state = "awaiting_match_confirmation" ->
         (CASE text = "cancel"         -> "CANCEL"
            [] text = "no"             -> "REJECT_MATCH"
            [] text \in {"yes", "same"} -> "CONFIRM_MATCH"
            [] OTHER                   -> "PATCH_REPORT")
    [] text # "qa" /\ state = "ready_to_submit" ->
         (CASE text = "cancel"           -> "CANCEL"
            [] text \in {"yes", "submit"} -> "CONFIRM_SUBMIT"
            [] OTHER                     -> "PATCH_REPORT")
    [] text # "qa" /\ state \in {"collecting", "matching", "suspended"} ->
         IF state = "suspended" /\ text = "resume" THEN "RESUME" ELSE "PATCH_REPORT"
    [] OTHER -> "START_REPORT"

\* Only the message path writes the description of a new report itself; a turn
\* brings its fields, and a supplement is appended to the draft that was found.
Description(r, d0) ==
  LET q == req[r]
  IN  CASE q.in.text = "" -> {}
        [] q.in.text # "" /\ (q.in.turn \/ q.ev = "START_REPORT") -> {r}
        [] q.in.text # "" /\ ~q.in.turn /\ q.ev = "PATCH_REPORT" ->
             IF d0 = NoDraft THEN {} ELSE draft[d0].desc \cup {r}
        [] OTHER -> {}

-----------------------------------------------------------------------------
(* Requests                                                                *)

Open == {r \in Requests : req[r].pc \notin {"idle", "retry", "end"}}

Step(r, q) == req' = [req EXCEPT ![r] = q]

\* A reply is kept where it tells that the submission was left as it is.
Dropping == {"crashed", "unscheduled", "gave_up", "error"}
Ended(q, reply) ==
  IF reply \in Dropping THEN [NullReq EXCEPT !.pc = "end", !.d = q.d, !.reply = reply]
  ELSE [NullReq EXCEPT !.pc = "end"]
End(r, reply) == Step(r, Ended(req[r], reply))

Fault(op) == /\ op \in FaultOps
             /\ faults < MaxFaults
             /\ faults' = faults + 1

\* POST v2/message or v2/turn.
Arrive(r) ==
  /\ req[r].pc = "idle"
  /\ \A p \in 1..(r - 1) : req[p].pc # "idle"
  /\ Cardinality(Open) < MaxOpen
  /\ \E i \in Identities, x \in Inputs :
       Step(r, [NullReq EXCEPT !.pc = IF x.turn THEN "handle" ELSE "resolve",
                               !.who = i, !.in = x, !.ev = x.event])
  /\ UNCHANGED <<tables, rows, lock, faults, lates>>

\* _process reads the current draft in a transaction of its own and derives the
\* event from it.
ReadState(r) ==
  LET q == req[r]
      d == Bound(q.who)
      s == IF d = NoDraft THEN "" ELSE draft[d].flow
      e == IF q.in.event # "" THEN q.in.event ELSE EventFor(s, q.in.text)
  IN  /\ q.pc = "resolve"
      /\ Unlocked(d)
      /\ \/ /\ e \in ConfirmEvents /\ q.in.image /\ d = NoDraft
            /\ End(r, "retry_image")
         \/ /\ ~(e \in ConfirmEvents /\ q.in.image /\ d = NoDraft)
            /\ Step(r, [q EXCEPT !.ev = e, !.d = d,
                          !.pc = IF e \in ConfirmEvents /\ q.in.image
                                 THEN "attach_first" ELSE "handle"])
      /\ UNCHANGED <<tables, rows, lock, faults, lates>>

\* add_attachment: one copy per image and draft.
AddImage(d, r) == staged' = [staged EXCEPT ![d] = @ \cup {r}]

\* A confirmation stores its image before anything else ...
AttachFirst(r) ==
  /\ req[r].pc = "attach_first"
  /\ \/ /\ Unlocked(req[r].d)
        /\ AddImage(req[r].d, r)
        /\ Step(r, [req[r] EXCEPT !.pc = "handle"])
        /\ UNCHANGED faults
     \/ /\ Fault("attach")
        /\ End(r, "retry_image")
        /\ UNCHANGED staged
  /\ UNCHANGED <<draft, binding, tokens, issues, report, subs, outbox, rows, lock, lates>>

\* ... and the reply of a decision depends on its next action and state.
AfterDecision(q) ==
  CASE q.in.turn                      -> Ended(q, q.state)
    [] ~q.in.turn /\ q.next = "RETRY_MATCHING" -> Ended(q, "retry_matching")
    [] ~q.in.turn /\ q.next = "HANDOFF_QA"     -> Ended(q, "suspended")
    [] ~q.in.turn /\ q.next \notin {"RETRY_MATCHING", "HANDOFF_QA"}
         /\ q.state = "queued_for_submission" -> [q EXCEPT !.pc = "sync"]
    [] OTHER                          -> Ended(q, q.state)

\* A report stores its image after its transaction.
AttachAfter(r) ==
  /\ req[r].pc = "attach_after"
  /\ \/ /\ Unlocked(req[r].d)
        /\ AddImage(req[r].d, r)
        /\ Step(r, AfterDecision(req[r]))
        /\ UNCHANGED faults
     \/ /\ Fault("attach")
        /\ End(r, "image_failed")
        /\ UNCHANGED staged
  /\ UNCHANGED <<draft, binding, tokens, issues, report, subs, outbox, rows, lock, lates>>

\* The transaction commits with a decision.
Decide(r, e, dr, next) ==
  LET q == [req[r] EXCEPT !.d = e.d, !.state = dr.flow, !.next = next]
  IN  /\ draft' = [e.draft EXCEPT ![e.d] = dr]
      /\ binding' = e.binding
      /\ Step(r, IF q.ev \in CollectEvents /\ q.in.image /\ ~q.in.turn
                 THEN [q EXCEPT !.pc = "attach_after"] ELSE AfterDecision(q))

\* InvalidBugAssistantTransition: the transaction is rolled back.
Refuse(r) == /\ End(r, "refused")
             /\ UNCHANGED tables

-----------------------------------------------------------------------------
(* Orchestrator events, each one transaction                               *)

Handling(r, evs) == req[r].pc = "handle" /\ req[r].ev \in evs

\* START_REPORT and PATCH_REPORT: choose the draft, compose the description and
\* look for the issue in the table.
Collect(r) ==
  /\ Handling(r, CollectEvents)
  /\ LET q     == req[r]
         found == Resolve(q.who, q.in.draft)
         d0    == IF found = NoDraft THEN Bound(q.who) ELSE found
         over  == /\ q.ev = "START_REPORT" /\ found # NoDraft
                  /\ Terminal(draft[found]) \/ draft[found].flow \in ImmutableFlowStates
         e     == Ensure(q.who, d0, q.in.force \/ over, Description(r, found))
         dr    == e.draft[e.d]
     IN  /\ Unlocked(d0)
         /\ Renews(d0, q.in.force \/ over) => Room
         /\ \/ /\ dr.flow \in ImmutableFlowStates
               /\ Refuse(r) /\ UNCHANGED faults
            \/ /\ dr.flow \notin ImmutableFlowStates /\ dr.desc = {}
               /\ Decide(r, e, Moved(dr, "collecting"), "REQUEST_INFORMATION")
               /\ UNCHANGED <<staged, tokens, issues, report, subs, outbox, faults>>
            \/ /\ dr.flow \notin ImmutableFlowStates /\ dr.desc # {}
               /\ \/ /\ Fault("match")
                     /\ Decide(r, e, Moved(dr, "collecting"), "RETRY_MATCHING")
                  \/ /\ \E n \in DOMAIN rows :
                          Decide(r, e, [Moved(dr, "awaiting_match_confirmation") EXCEPT !.match = n],
                                 "CONFIRM_MATCH")
                     /\ UNCHANGED faults
                  \/ /\ Decide(r, e, [Moved(dr, "ready_to_submit") EXCEPT !.match = NoRow],
                               "CONFIRM_SUBMIT")
                     /\ UNCHANGED faults
               /\ UNCHANGED <<staged, tokens, issues, report, subs, outbox>>
  /\ UNCHANGED <<rows, lock, lates>>

\* The other events need a draft; one that carries a text touches it first, which
\* may replace it by a new one.
Target(r) == Resolve(req[r].who, req[r].in.draft)

Touched(r) == IF req[r].in.text # "" THEN Ensure(req[r].who, Target(r), FALSE, {})
              ELSE Untouched(Target(r))

HandlingDraft(r, ev) == /\ Handling(r, {ev})
                        /\ Target(r) # NoDraft
                        /\ Unlocked(Target(r))
                        /\ req[r].in.text # "" /\ Outlived(Target(r)) => Room

Missing(r) ==
  /\ Handling(r, Events \ CollectEvents)
  /\ Target(r) = NoDraft
  /\ Refuse(r)
  /\ UNCHANGED <<rows, lock, faults, lates>>

IssueOf(n) == {k \in DOMAIN issues : issues[k].source = "feishu" /\ issues[k].ext = n}

ConfirmMatch(r) ==
  /\ HandlingDraft(r, "CONFIRM_MATCH")
  /\ LET e  == Touched(r)
         dr == e.draft[e.d]
     IN  \/ /\ dr.flow = "linked_existing"
            /\ Decide(r, e, dr, "COMPLETED")
            /\ UNCHANGED <<issues, report, subs>>
         \/ /\ dr.flow = "awaiting_match_confirmation" /\ dr.match # NoRow
            /\ LET known == IssueOf(dr.match)
                   k     == IF known = {} THEN Len(issues) + 1 ELSE CHOOSE x \in known : TRUE
               IN  /\ issues' = IF known = {} THEN Append(issues, [source |-> "feishu", ext |-> dr.match])
                                ELSE issues
                   /\ report' = [report EXCEPT ![e.d] =
                         [issue |-> k, status |-> "linked_existing", ext |-> dr.match, desc |-> dr.desc]]
                   /\ subs' = subs \cup {<<k, req[r].who>>}
            /\ Decide(r, e, Closed(dr, "linked_existing", "submitted"), "COMPLETED")
         \/ /\ dr.flow # "linked_existing"
            /\ dr.flow # "awaiting_match_confirmation" \/ dr.match = NoRow
            /\ Refuse(r)
  /\ UNCHANGED <<staged, tokens, outbox, rows, lock, faults, lates>>

RejectMatch(r) ==
  /\ HandlingDraft(r, "REJECT_MATCH")
  /\ LET e  == Touched(r)
         dr == e.draft[e.d]
     IN  \/ /\ dr.flow = "awaiting_match_confirmation"
            /\ Decide(r, e, [Moved(dr, "ready_to_submit") EXCEPT !.match = NoRow], "CONFIRM_SUBMIT")
         \/ /\ dr.flow # "awaiting_match_confirmation"
            /\ Refuse(r)
  /\ UNCHANGED <<staged, tokens, issues, report, subs, outbox, rows, lock, faults, lates>>

\* A new local issue, its report, the subscription and the outbox entry.
ConfirmSubmit(r) ==
  /\ HandlingDraft(r, "CONFIRM_SUBMIT")
  /\ LET e  == Touched(r)
         dr == e.draft[e.d]
     IN  \/ /\ dr.flow \in {"queued_for_submission", "submitted"}
            /\ Decide(r, e, dr, "WAIT_FOR_SYNC")
            /\ UNCHANGED <<issues, report, subs, outbox>>
         \/ /\ dr.flow = "ready_to_submit"
            /\ issues' = Append(issues, [source |-> "local", ext |-> NoRow])
            /\ report' = [report EXCEPT ![e.d] =
                  [issue |-> Len(issues) + 1, status |-> "queued_for_submission",
                   ext |-> NoRow, desc |-> dr.desc]]
            /\ subs' = subs \cup {<<Len(issues) + 1, req[r].who>>}
            /\ outbox' = [outbox EXCEPT ![e.d] = "processing"]
            /\ Decide(r, e, Closed(dr, "queued_for_submission", "active"), "WAIT_FOR_SYNC")
         \/ /\ dr.flow \notin {"queued_for_submission", "submitted", "ready_to_submit"}
            /\ Refuse(r)
  /\ UNCHANGED <<staged, tokens, rows, lock, faults, lates>>

\* The flow state is remembered in the event that records the suspension.
Suspend(r) ==
  /\ HandlingDraft(r, "SUSPEND")
  /\ LET e  == Touched(r)
         dr == e.draft[e.d]
     IN  \/ /\ dr.flow = "suspended"
            /\ Decide(r, e, dr, "HANDOFF_QA")
         \/ /\ dr.flow \notin ImmutableFlowStates \cup {"suspended"}
            /\ Decide(r, e, [Moved(dr, "suspended") EXCEPT !.back = dr.flow], "HANDOFF_QA")
         \/ /\ dr.flow \in ImmutableFlowStates
            /\ Refuse(r)
  /\ UNCHANGED <<staged, tokens, issues, report, subs, outbox, rows, lock, faults, lates>>

NextActionOf(flow) ==
  CASE flow = "collecting"                  -> "REQUEST_INFORMATION"
    [] flow = "matching"                    -> "RETRY_MATCHING"
    [] flow = "awaiting_match_confirmation" -> "CONFIRM_MATCH"
    [] flow = "ready_to_submit"             -> "CONFIRM_SUBMIT"

Resume(r) ==
  /\ HandlingDraft(r, "RESUME")
  /\ LET e    == Touched(r)
         dr   == e.draft[e.d]
         back == IF dr.back \in {"collecting", "matching", "awaiting_match_confirmation",
                               "ready_to_submit"}
               THEN dr.back ELSE "collecting"
     IN  \/ /\ dr.flow = "suspended"
            /\ Decide(r, e, Moved(dr, back), NextActionOf(back))
         \/ /\ dr.flow # "suspended"
            /\ Refuse(r)
  /\ UNCHANGED <<staged, tokens, issues, report, subs, outbox, rows, lock, faults, lates>>

\* Mutant: a submission that is under way can be cancelled.
CancelAnyway(r) ==
  /\ HandlingDraft(r, "CANCEL")
  /\ LET e == Touched(r)
     IN  Decide(r, e, Closed(e.draft[e.d], "abandoned", "abandoned"), "COMPLETED")
  /\ UNCHANGED <<staged, tokens, issues, report, subs, outbox, rows, lock, faults, lates>>

Cancel(r) ==
  /\ HandlingDraft(r, "CANCEL")
  /\ LET e  == Touched(r)
         dr == e.draft[e.d]
     IN  \/ /\ dr.flow = "abandoned"
            /\ Decide(r, e, dr, "COMPLETED")
         \/ /\ dr.flow \notin ImmutableFlowStates
            /\ Decide(r, e, Closed(dr, "abandoned", "abandoned"), "COMPLETED")
         \/ /\ dr.flow \in ImmutableFlowStates \ {"abandoned"}
            /\ Refuse(r)
  /\ UNCHANGED <<staged, tokens, issues, report, subs, outbox, rows, lock, faults, lates>>

-----------------------------------------------------------------------------
(* Synchronisation: one transaction that holds the draft and its outbox    *)

SyncPcs == {"upload", "lookup", "write", "commit"}

\* Mutant: the draft is read without FOR UPDATE.
SyncBeginUnlocked(r) ==
  /\ req[r].pc \in {"sync", "retry"}
  /\ Step(r, [req[r] EXCEPT !.pc = "upload", !.toks = tokens[req[r].d],
                            !.tries = @ + (IF req[r].pc = "retry" THEN 1 ELSE 0)])
  /\ UNCHANGED <<tables, rows, lock, faults, lates>>

\* A message synchronises what it queued; a retry task is taken from the broker.
SyncBegin(r) ==
  LET q == req[r]
      d == q.d
  IN  /\ q.pc \in {"sync", "retry"}
      /\ lock[d] = NoReq
      /\ \/ /\ outbox[d] = "succeeded"
            /\ End(r, "recorded")
            /\ UNCHANGED lock
         \/ /\ outbox[d] # "succeeded"
            /\ lock' = [lock EXCEPT ![d] = r]
            /\ Step(r, [q EXCEPT !.pc = "upload", !.toks = tokens[d],
                               !.tries = @ + (IF q.pc = "retry" THEN 1 ELSE 0)])
      /\ UNCHANGED <<tables, rows, faults, lates>>

\* Mutant: a failed synchronisation keeps its transaction open.
SyncFailsOpen(r) ==
  LET d == req[r].d
  IN  /\ tokens' = [tokens EXCEPT ![d] = req[r].toks]
      /\ outbox' = [outbox EXCEPT ![d] = "pending"]
      /\ draft' = [draft EXCEPT ![d] = Closed(@, "queued_for_submission", "active")]
      /\ Step(r, [req[r] EXCEPT !.pc = "schedule", !.toks = {}, !.row = NoRow])
      /\ UNCHANGED <<binding, staged, issues, report, subs, lock>>

\* A failure is committed: the entry waits for a retry and the draft is queued.
SyncFails(r) ==
  LET d == req[r].d
  IN  /\ tokens' = [tokens EXCEPT ![d] = req[r].toks]
      /\ outbox' = [outbox EXCEPT ![d] = "pending"]
      /\ draft' = [draft EXCEPT ![d] = Closed(@, "queued_for_submission", "active")]
      /\ lock' = [lock EXCEPT ![d] = NoReq]
      /\ Step(r, [req[r] EXCEPT !.pc = "schedule", !.toks = {}, !.row = NoRow])
      /\ UNCHANGED <<binding, staged, issues, report, subs>>

Upload(r) ==
  /\ req[r].pc = "upload"
  /\ \/ \E img \in staged[req[r].d] \ req[r].toks :
          \/ /\ Step(r, [req[r] EXCEPT !.toks = @ \cup {img}])
             /\ UNCHANGED <<tables, lock, faults>>
          \/ Fault("upload") /\ SyncFails(r)
     \/ /\ staged[req[r].d] \subseteq req[r].toks
        /\ Step(r, [req[r] EXCEPT !.pc = "lookup"])
        /\ UNCHANGED <<tables, lock, faults>>
  /\ UNCHANGED <<rows, lates>>

RowsOf(d) == {n \in DOMAIN rows : rows[n].draft = d}

\* Mutant: every attempt adds a row.
LookupSkipped(r) ==
  /\ req[r].pc = "lookup"
  /\ Step(r, [req[r] EXCEPT !.pc = "write", !.row = NoRow])
  /\ UNCHANGED <<tables, rows, lock, faults, lates>>

\* The table is searched by draft id.
Lookup(r) ==
  /\ req[r].pc = "lookup"
  /\ \/ /\ \/ /\ RowsOf(req[r].d) = {}
              /\ Step(r, [req[r] EXCEPT !.pc = "write", !.row = NoRow])
           \/ \E n \in RowsOf(req[r].d) :
                Step(r, [req[r] EXCEPT !.pc = "write", !.row = n])
        /\ UNCHANGED <<tables, lock, faults>>
     \/ Fault("search") /\ SyncFails(r)
  /\ UNCHANGED <<rows, lates>>

\* The row is updated or added; the call may fail before or after it took effect.
Write(r) ==
  LET q    == req[r]
      row  == [draft |-> q.d, desc |-> draft[q.d].desc, images |-> q.toks]
      done == IF q.row # NoRow THEN [rows EXCEPT ![q.row] = row] ELSE Append(rows, row)
  IN  /\ q.pc = "write"
      /\ \/ /\ rows' = done
            /\ Step(r, [q EXCEPT !.pc = "commit", !.row = IF @ = NoRow THEN Len(done) ELSE @])
            /\ UNCHANGED <<tables, lock, faults>>
         \/ Fault("write") /\ SyncFails(r) /\ UNCHANGED rows
         \/ Fault("reply") /\ SyncFails(r) /\ rows' = done
      /\ UNCHANGED lates

\* Mutant: the issue does not learn of its record.
RecordedWithoutIssue(d, n, toks) ==
  /\ report' = [report EXCEPT ![d].ext = n, ![d].status = "submitted"]
  /\ draft' = [draft EXCEPT ![d] = Closed(@, "submitted", "submitted")]
  /\ outbox' = [outbox EXCEPT ![d] = "succeeded"]
  /\ tokens' = [tokens EXCEPT ![d] = toks]
  /\ UNCHANGED <<binding, staged, subs, issues>>

Recorded(d, n, toks) ==
  /\ issues' = [issues EXCEPT ![report[d].issue].ext = n]
  /\ report' = [report EXCEPT ![d].ext = n, ![d].status = "submitted"]
  /\ draft' = [draft EXCEPT ![d] = Closed(@, "submitted", "submitted")]
  /\ outbox' = [outbox EXCEPT ![d] = "succeeded"]
  /\ tokens' = [tokens EXCEPT ![d] = toks]
  /\ UNCHANGED <<binding, staged, subs>>

\* Success is committed.  A commit that raises rolls everything back; only the
\* task catches that error and retries.
Commit(r) ==
  LET q == req[r]
      d == q.d
  IN  /\ q.pc = "commit"
      /\ lock' = [lock EXCEPT ![d] = NoReq]
      /\ \/ /\ Recorded(d, q.row, q.toks)
            /\ End(r, "recorded")
            /\ UNCHANGED faults
         \/ /\ Fault("commit")
            /\ Step(r, IF q.tries = 0 THEN Ended(q, "error")
                       ELSE [q EXCEPT !.pc = "schedule", !.toks = {}, !.row = NoRow])
            /\ UNCHANGED tables
      /\ UNCHANGED <<rows, lates>>

\* _schedule_retry answers "saved" whether or not the task could be published;
\* the task retries itself until its retries are used up.
Schedule(r) ==
  LET q == req[r]
  IN  /\ q.pc = "schedule"
      /\ \/ /\ q.tries <= MaxRetries
            /\ Step(r, [NullReq EXCEPT !.pc = "retry", !.d = q.d, !.tries = q.tries, !.reply = "saved"])
            /\ UNCHANGED faults
         \/ /\ q.tries <= MaxRetries
            /\ Fault("publish")
            /\ End(r, "unscheduled")
         \/ /\ q.tries > MaxRetries
            /\ End(r, "gave_up")
            /\ UNCHANGED faults
      /\ UNCHANGED <<tables, rows, lock, lates>>

-----------------------------------------------------------------------------
(* Time and crashes                                                        *)

\* expires_at of an unfinished draft passes.
Expire(d) ==
  /\ Exists(d) /\ ~Terminal(draft[d]) /\ ~draft[d].late
  /\ lates < MaxLate
  /\ lates' = lates + 1
  /\ draft' = [draft EXCEPT ![d].late = TRUE]
  /\ UNCHANGED <<binding, staged, tokens, issues, report, subs, outbox, rows, lock, req, faults>>

\* The process that runs the request or the task dies; a task is acknowledged
\* when it starts, so the broker does not deliver it again.
Crash(r) ==
  /\ r \in Open
  /\ Fault("crash")
  /\ End(r, "crashed")
  /\ lock' = [d \in Drafts |-> IF lock[d] = r THEN NoReq ELSE lock[d]]
  /\ UNCHANGED <<tables, rows, lates>>

-----------------------------------------------------------------------------
Init ==
  /\ draft = [d \in Drafts |-> NullDraft]
  /\ binding = [k \in Keys |-> NoDraft]
  /\ staged = [d \in Drafts |-> {}]
  /\ tokens = [d \in Drafts |-> {}]
  /\ issues = <<>>
  /\ report = [d \in Drafts |-> NullReport]
  /\ subs = {}
  /\ outbox = [d \in Drafts |-> "none"]
  /\ rows = [n \in 1..ForeignRows |-> [draft |-> NoDraft, desc |-> {}, images |-> {}]]
  /\ lock = [d \in Drafts |-> NoReq]
  /\ req = [r \in Requests |-> NullReq]
  /\ faults = 0
  /\ lates = 0

Handle(r) == \/ Collect(r) \/ Missing(r) \/ ConfirmMatch(r) \/ RejectMatch(r)
             \/ ConfirmSubmit(r) \/ Suspend(r) \/ Resume(r) \/ Cancel(r)

Synchronise(r) == SyncBegin(r) \/ Upload(r) \/ Lookup(r) \/ Write(r) \/ Commit(r) \/ Schedule(r)

Progress(r) == ReadState(r) \/ AttachFirst(r) \/ Handle(r) \/ AttachAfter(r) \/ Synchronise(r)

Next == \/ \E r \in Requests : Arrive(r) \/ Progress(r) \/ Crash(r)
        \/ \E d \in Drafts : Expire(d)

Spec == Init /\ [][Next]_vars

\* A synchronisation that has started is carried on, a worker takes a waiting task,
\* and a row lock is granted once it is free.
FairSpec == Spec /\ \A r \in Requests : WF_vars(Synchronise(r))

-----------------------------------------------------------------------------
\* Types of all tables and requests; a synchronisation holds the row lock of its draft
\* from its first to its last step.
TypeOK ==
  /\ draft \in [Drafts -> [status: {"", "active"} \cup TerminalStatuses,
                            flow: {""} \cup FlowStates, desc: SUBSET Requests,
                            match: Nat, late: BOOLEAN, back: {""} \cup FlowStates]]
  /\ binding \in [Keys -> Drafts \cup {NoDraft}]
  /\ staged \in [Drafts -> SUBSET Requests]
  /\ tokens \in [Drafts -> SUBSET Requests]
  /\ issues \in Seq([source: {"local", "feishu"}, ext: Nat])
  /\ report \in [Drafts -> [issue: Nat, status: {"", "queued_for_submission", "submitted",
                                                 "linked_existing"},
                             ext: Nat, desc: SUBSET Requests]]
  /\ subs \subseteq (Nat \X Identities)
  /\ outbox \in [Drafts -> {"none", "processing", "pending", "succeeded"}]
  /\ rows \in Seq([draft: Drafts \cup {NoDraft}, desc: SUBSET Requests, images: SUBSET Requests])
  /\ lock \in [Drafts -> Requests \cup {NoReq}]
  /\ \A r \in Requests : req[r].pc \in {"idle", "resolve", "attach_first", "handle", "attach_after",
                                        "sync", "schedule", "retry", "end"} \cup SyncPcs
  /\ \A r \in Requests : req[r].pc \in SyncPcs => req[r].d \in Drafts /\ lock[req[r].d] = r
  /\ faults \in 0..MaxFaults /\ lates \in 0..MaxLate

\* The phase of a draft as Submission sees it.
Phase(d) == CASE outbox[d] = "succeeded" -> "recorded"
              [] outbox[d] \in {"processing", "pending"} -> "queued"
              [] outbox[d] = "none" /\ report[d].status = "linked_existing" -> "linked"
              [] OTHER -> "open"

Promise == INSTANCE Submission WITH
  Records <- 1..(ForeignRows + MaxDrafts),
  phase <- [d \in Drafts |-> Phase(d)],
  listed <- [d \in Drafts |-> RowsOf(d)]

\* A report becomes at most one row of the table whatever is lost, retried or run
\* twice, and is recorded only after its row exists: BugReport implements Submission.
ImplementsSubmission == Promise!Spec

\* The number a user is given, and the record the database keeps, is that of the
\* row that carries the report, and its submitter follows the issue of that row.
RecordedIsListed ==
  \A d \in Drafts : outbox[d] = "succeeded" =>
    /\ report[d].ext \in RowsOf(d)
    /\ issues[report[d].issue].ext = report[d].ext
    /\ \E i \in Identities : <<report[d].issue, i>> \in subs

\* At the moment a report is recorded, its row says what the report said when it was
\* submitted and carries every image that has been stored for the draft by then, also
\* one that arrived while the row was being written.
RecordedCompletely ==
  [][\A d \in Drafts : outbox[d] # "succeeded" /\ outbox'[d] = "succeeded" =>
       LET row == rows'[report'[d].ext]
       IN  row.desc = report'[d].desc /\ row.images = staged'[d]]_vars

\* A cancelled report never reaches the table.
CancelledStaysOut ==
  \A d \in Drafts : draft[d].flow = "abandoned" => outbox[d] = "none" /\ RowsOf(d) = {}

\* A report that can still be worked on is the one its user's next message finds.
OpenDraftIsBound ==
  \A d \in Drafts :
    Exists(d) /\ ~Terminal(draft[d]) /\ outbox[d] = "none" => \E k \in Keys : binding[k] = d

\* Only a crash, a task that cannot be published, a failing commit or the last
\* retry ends the synchronisation of a report before it is recorded.
Dropped(d) == \E r \in Requests : req[r].d = d /\ req[r].reply \in Dropping

InHand(d) == \E r \in Requests : req[r].d = d /\ req[r].pc \in {"sync", "schedule", "retry"} \cup SyncPcs

HandledIsRecorded == \A d \in Drafts : InHand(d) ~> (outbox[d] = "succeeded" \/ Dropped(d))
=============================================================================
