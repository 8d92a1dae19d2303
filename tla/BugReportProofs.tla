---------------------------- MODULE BugReportProofs ----------------------------
(***************************************************************************)
(* Theorems about BugReport, for any users, sessions, messages, failures   *)
(* and numbers of drafts: its types, that it implements Submission, and,   *)
(* where every user has one session, what a recorded, a cancelled and an   *)
(* open report promise.                                                    *)
(***************************************************************************)
EXTENDS BugReport, FiniteSetTheorems, WellFoundedInduction, TLAPS

-------------------------------------------------------------------------------
(***************************************************************************)
(* The inductive invariant of every instance.                              *)
(***************************************************************************)

DraftType == [status: {"", "active"} \cup TerminalStatuses, flow: {""} \cup FlowStates,
              desc: SUBSET Requests, match: Nat, late: BOOLEAN, back: {""} \cup FlowStates]
IssueType == [source: {"local", "feishu"}, ext: Nat]
ReportType == [issue: Nat, status: {"", "queued_for_submission", "submitted", "linked_existing"},
               ext: Nat, desc: SUBSET Requests]
RowType == [draft: Drafts \cup {NoDraft}, desc: SUBSET Requests, images: SUBSET Requests]
InputType == [turn: BOOLEAN, event: Events \cup {""}, text: TextKinds, image: BOOLEAN,
              draft: Drafts \cup {NoDraft}, force: BOOLEAN]
Pcs == {"idle", "resolve", "attach_first", "handle", "attach_after", "sync", "schedule",
        "retry", "end"} \cup SyncPcs
NextActions == {"", "REQUEST_INFORMATION", "RETRY_MATCHING", "CONFIRM_MATCH", "CONFIRM_SUBMIT",
                "COMPLETED", "WAIT_FOR_SYNC", "HANDOFF_QA"}
ReqType == [pc: Pcs, who: Identities \cup {""}, in: InputType, ev: Events \cup {""},
            d: Drafts \cup {NoDraft}, state: {""} \cup FlowStates, next: NextActions,
            toks: SUBSET Requests, row: Nat, tries: Nat, reply: Dropping \cup {"", "saved"}]

Typed ==
  /\ draft \in [Drafts -> DraftType]
  /\ binding \in [Keys -> Drafts \cup {NoDraft}]
  /\ staged \in [Drafts -> SUBSET Requests]
  /\ tokens \in [Drafts -> SUBSET Requests]
  /\ issues \in Seq(IssueType)
  /\ report \in [Drafts -> ReportType]
  /\ subs \subseteq (Nat \X Identities)
  /\ outbox \in [Drafts -> {"none", "processing", "pending", "succeeded"}]
  /\ rows \in Seq(RowType)
  /\ lock \in [Drafts -> Requests \cup {NoReq}]
  /\ req \in [Requests -> ReqType]
  /\ faults \in 0..MaxFaults
  /\ lates \in 0..MaxLate

\* Drafts are created in order, and a key is bound to one that exists.
InOrder == \E n \in 0..MaxDrafts : \A d \in Drafts : Exists(d) <=> d <= n
BoundExists == \A k \in Keys : binding[k] # NoDraft => Exists(binding[k])

\* What the tables say of one draft: a queued or submitted one has its outbox entry, a
\* recorded or linked one is immutable, and a report refers to an issue.
DraftOK(d) ==
  /\ ~Exists(d) => draft[d] = NullDraft /\ outbox[d] = "none" /\ report[d].status = ""
  /\ draft[d].flow = "queued_for_submission" => outbox[d] # "none"
  /\ outbox[d] = "succeeded" => draft[d].flow = "submitted" /\ draft[d].status = "submitted"
  /\ outbox[d] = "none" /\ report[d].status # "" =>
       /\ report[d].status = "linked_existing"
       /\ draft[d].flow = "linked_existing" /\ draft[d].status = "submitted"
  /\ outbox[d] # "none" => report[d].status # ""
  /\ report[d].status # "" => report[d].issue \in DOMAIN issues

\* The table: first what was entered by hand, then at most one row of each draft that
\* has its outbox entry.
RowOK(n) ==
  /\ rows[n].draft = NoDraft <=> n <= ForeignRows
  /\ rows[n].draft # NoDraft =>
       /\ outbox[rows[n].draft] # "none"
       /\ \A m \in DOMAIN rows : rows[m].draft = rows[n].draft => m = n
RowsOK == Len(rows) >= ForeignRows /\ \A n \in DOMAIN rows : RowOK(n)

\* A synchronisation holds its draft's row; what it found in the table is still so when
\* it writes, and what it wrote is still so when it commits.
InHandPcs == {"sync", "schedule", "retry"} \cup SyncPcs
ReqOK(r) ==
  LET q == req[r]
  IN  /\ q.pc \in {"resolve", "attach_first", "handle", "attach_after"} =>
           q.who \in Identities /\ q.in \in Inputs
      /\ q.pc \in {"attach_first", "attach_after"} => q.d \in Drafts
      /\ q.pc = "attach_after" => q.state # "queued_for_submission"
      /\ q.pc \in InHandPcs => q.d \in Drafts /\ outbox[q.d] # "none"
      /\ q.pc \in SyncPcs => lock[q.d] = r /\ outbox[q.d] # "succeeded"
      /\ q.pc = "write" => IF q.row = NoRow THEN RowsOf(q.d) = {} ELSE q.row \in RowsOf(q.d)
      /\ q.pc = "commit" => q.row \in RowsOf(q.d)

IInv ==
  /\ Typed
  /\ InOrder
  /\ BoundExists
  /\ \A d \in Drafts : DraftOK(d)
  /\ RowsOK
  /\ \A r \in Requests : ReqOK(r)

-------------------------------------------------------------------------------
(***************************************************************************)
(* What holds besides where every user has one session and names no draft. *)
(***************************************************************************)

KeySet(i) == {KeysOf[i][n] : n \in DOMAIN KeysOf[i]}

\* A user has one list of keys and shares no key with another user.
OneSessionEach ==
  /\ \A i \in Identities : KeysOf[i] # <<>>
  /\ \A i, j \in Identities : KeySet(i) = KeySet(j) \/ KeySet(i) \cap KeySet(j) = {}
  /\ \A x \in Inputs : x.draft = NoDraft

\* The keys of a user are bound together, and to a draft of that user.
OwnBinding ==
  /\ \A i \in Identities : \A k, l \in KeySet(i) : binding[k] = binding[l]
  /\ \A i, j \in Identities : \A k \in KeySet(i), l \in KeySet(j) :
       binding[k] = binding[l] /\ binding[k] # NoDraft => KeySet(i) = KeySet(j)

Reached(d) == \E k \in Keys : binding[k] = d

\* A queued report is out of its user's reach: still queued, or of a draft no key is
\* bound to.  It has an issue and a subscriber of its own, and it still says what the
\* draft says.
SentOK(d) ==
  outbox[d] # "none" =>
    /\ Reached(d) => draft[d].flow \in {"queued_for_submission", "submitted"}
    /\ draft[d].flow # "abandoned"
    /\ draft[d].desc = report[d].desc
    /\ \A e \in Drafts : outbox[e] # "none" /\ report[e].issue = report[d].issue => e = d
    /\ \E i \in Identities : <<report[d].issue, i>> \in subs

\* A synchronisation has uploaded images of its draft only, all of them when it looks
\* the row up, and it has written what the draft says.
WroteOK(r) ==
  LET q == req[r]
  IN  /\ q.pc \in SyncPcs => q.toks \subseteq staged[q.d]
      /\ q.pc \in {"lookup", "write", "commit"} => staged[q.d] \subseteq q.toks
      /\ q.pc = "commit" => rows[q.row].desc = draft[q.d].desc /\ rows[q.row].images = q.toks

SInv ==
  /\ OwnBinding
  /\ \A d \in Drafts : SentOK(d)
  /\ RecordedIsListed
  /\ OpenDraftIsBound
  /\ \A d \in Drafts : tokens[d] \subseteq staged[d]
  /\ \A r \in Requests : WroteOK(r)
-------------------------------------------------------------------------------
(***************************************************************************)
(* Lemmas on the operators of BugReport.                                   *)
(***************************************************************************)

\* A set of numbers that is not empty has a least one.
LEMMA Least ==
  ASSUME NEW S \in SUBSET Nat, S # {}
  PROVE  \E m \in S : \A n \in S : m <= n
<1> DEFINE Less == OpToRel(<, Nat)
<1>1. IsWellFoundedOn(Less, Nat)
  BY NatLessThanWellFounded
<1>2. \A x, y \in Nat : x < y => <<x, y>> \in Less
  BY DEF OpToRel
<1> HIDE DEF Less
<1>3. PICK m \in S : \A n \in S : ~ (<<n, m>> \in Less)
  BY <1>1, WFMin
<1>4. \A n \in S : ~ (n < m)
  BY <1>2, <1>3
<1>5. \A n \in S : n \in Nat
  OBVIOUS
<1> QED
  BY ONLY <1>3, <1>4, <1>5

LEMMA KeysTyped ==
  ASSUME NEW i \in Identities
  PROVE  /\ KeySet(i) \subseteq Keys
         /\ \A n \in DOMAIN KeysOf[i] : KeysOf[i][n] \in Keys
         /\ DOMAIN KeysOf[i] \subseteq Nat
<1>1. KeysOf[i] \in Seq(Keys)
  BY BugReportAssumption
<1> QED
  BY <1>1 DEF KeySet

\* The bound draft is that of one of the user's keys; there is none when no key is bound.
LEMMA BoundIs ==
  ASSUME NEW i \in Identities,
         binding \in [Keys -> Drafts \cup {NoDraft}]
  PROVE  /\ Bound(i) \in Drafts \cup {NoDraft}
         /\ Bound(i) # NoDraft => \E k \in KeySet(i) : binding[k] = Bound(i)
         /\ Bound(i) = NoDraft => \A k \in KeySet(i) : binding[k] = NoDraft
<1> DEFINE hits == {n \in DOMAIN KeysOf[i] : binding[KeysOf[i][n]] # NoDraft}
<1>1. hits \in SUBSET Nat
  BY KeysTyped
<1>2. CASE hits = {}
  <2>1. Bound(i) = NoDraft
    BY <1>2 DEF Bound
  <2>2. \A k \in KeySet(i) : binding[k] = NoDraft
    BY <1>2 DEF KeySet
  <2> QED BY <2>1, <2>2
<1>3. CASE hits # {}
  <2> DEFINE n == CHOOSE n \in hits : \A m \in hits : n <= m
  <2>1. \E m \in hits : \A x \in hits : m <= x
    BY <1>1, <1>3, Least
  <2>2. n \in hits
    BY <2>1
  <2>3. Bound(i) = binding[KeysOf[i][n]]
    BY <1>3 DEF Bound
  <2> HIDE DEF n
  <2>4. KeysOf[i][n] \in KeySet(i) /\ KeysOf[i][n] \in Keys /\ binding[KeysOf[i][n]] # NoDraft
    BY <2>2, KeysTyped DEF KeySet
  <2> QED BY <2>3, <2>4
<1> QED BY <1>2, <1>3

\* The next draft is the first that does not exist.
LEMMA NextDraftIs ==
  ASSUME InOrder
  PROVE  /\ Cardinality(Created) \in 0..MaxDrafts
         /\ \A d \in Drafts : Exists(d) <=> d < NextDraft
         /\ Room => NextDraft \in Drafts /\ ~Exists(NextDraft)
<1>1. PICK n \in 0..MaxDrafts : \A d \in Drafts : Exists(d) <=> d <= n
  BY DEF InOrder
<1>2. MaxDrafts \in Nat
  BY BugReportAssumption
<1>3. Created = 1..n
  BY <1>1, <1>2 DEF Created, Drafts
<1>4. Cardinality(Created) = n
  BY <1>1, <1>3, FS_Interval
<1> QED
  BY <1>1, <1>2, <1>4 DEF NextDraft, Room, Drafts

\* The empty records are of their types.
LEMMA NullTypes ==
  /\ NullDraft \in DraftType
  /\ NullReport \in ReportType
  /\ NullInput \in InputType
  /\ NullReq \in ReqType
<1>1. NullDraft \in DraftType /\ NullReport \in ReportType
  BY DEF NullDraft, NullReport, DraftType, ReportType, NoRow, NoIssue
<1>2. NullInput \in InputType
  BY DEF NullInput, InputType, TextKinds
<1>3. NullReq \in ReqType
  BY <1>2 DEF NullReq, ReqType, Pcs, NextActions, NoRow
<1> QED BY <1>1, <1>2, <1>3

\* A request that has ended is of the type of requests.
LEMMA EndedType ==
  ASSUME NEW q \in ReqType, NEW reply
  PROVE  Ended(q, reply) \in ReqType /\ Ended(q, reply).pc = "end"
<1>1. q.d \in Drafts \cup {NoDraft} /\ "end" \in Pcs
  BY DEF ReqType, Pcs
<1>2. NullReq \in ReqType
  BY NullTypes
<1>3. [NullReq EXCEPT !.pc = "end"] \in ReqType
  BY ONLY <1>1, <1>2 DEF ReqType
<1>4. [NullReq EXCEPT !.pc = "end"].pc = "end"
  BY ONLY <1>2 DEF ReqType
<1>5. reply \in Dropping =>
        /\ [NullReq EXCEPT !.pc = "end", !.d = q.d, !.reply = reply] \in ReqType
        /\ [NullReq EXCEPT !.pc = "end", !.d = q.d, !.reply = reply].pc = "end"
  BY ONLY <1>1, <1>2 DEF ReqType
<1> QED BY <1>3, <1>4, <1>5 DEF Ended

-------------------------------------------------------------------------------
(***************************************************************************)
(* What one event does to the drafts.                                      *)
(***************************************************************************)

\* The draft that a request finds: the one it names, or the bound one.
Source(r) == IF Target(r) = NoDraft THEN Bound(req[r].who) ELSE Target(r)

\* A draft is closed because another one takes its place.
ClosedAs(old, new) ==
  new.status \in {"expired", "superseded"} /\ new.flow = new.status /\ new.desc = old.desc

\* The draft e.d takes the message of user i who had the draft d0: d0 itself, or the
\* next one, which closes d0.
Entry(i, d0, e) ==
  /\ e.d \in Drafts
  /\ e.draft \in [Drafts -> DraftType]
  /\ e.draft[e.d].status # ""
  /\ Exists(e.d) => e.d = d0
  /\ ~Exists(e.d) => e.d = NextDraft /\ Room
  /\ \A x \in Drafts \ {e.d} : IF x = d0 /\ ~Terminal(draft[x])
                               THEN ClosedAs(draft[x], e.draft[x])
                               ELSE e.draft[x] = draft[x]
  /\ e.binding = Upserted(i, e.d) \/ (e.binding = binding /\ Exists(e.d))
  /\ Exists(e.d) => /\ e.draft[e.d].status = draft[e.d].status
                    /\ e.draft[e.d].flow = draft[e.d].flow
  /\ ~Exists(e.d) => e.draft[e.d].status = "active" /\ e.draft[e.d].flow = "collecting"

LEMMA EnsureEntry ==
  ASSUME draft \in [Drafts -> DraftType], InOrder,
         NEW i, NEW d0 \in Drafts \cup {NoDraft}, d0 # NoDraft => Exists(d0),
         NEW force \in BOOLEAN, NEW desc \in SUBSET Requests,
         Renews(d0, force) => Room
  PROVE  /\ Entry(i, d0, Ensure(i, d0, force, desc))
         /\ ~Renews(d0, force) /\ desc = {} =>
              Ensure(i, d0, force, desc).draft[d0].desc = draft[d0].desc
<1> DEFINE new     == Renews(d0, force)
           end     == IF Outlived(d0) THEN "expired" ELSE "superseded"
           d       == IF new THEN NextDraft ELSE d0
           base    == IF new THEN [NullDraft EXCEPT !.status = "active", !.flow = "collecting"]
                      ELSE draft[d0]
           patched == [base EXCEPT !.desc = IF desc = {} THEN @ ELSE desc,
                                   !.late = @ /\ Terminal(base)]
           closed  == IF new /\ d0 # NoDraft /\ ~Terminal(draft[d0])
                      THEN [draft EXCEPT ![d0].status = end, ![d0].flow = end]
                      ELSE draft
           e       == Ensure(i, d0, force, desc)
<1>1. e = [d |-> d, draft |-> [closed EXCEPT ![d] = patched], binding |-> Upserted(i, d)]
  BY DEF Ensure
<1>2. /\ d \in Drafts
      /\ new => ~Exists(d) /\ d0 # d /\ d = NextDraft /\ Room
      /\ ~new => d0 = d /\ Exists(d)
  <2>1. CASE new
    <3>1. NextDraft \in Drafts /\ ~Exists(NextDraft) /\ Room
      BY <2>1, NextDraftIs
    <3>2. d0 # NextDraft
      BY <3>1 DEF Drafts, NoDraft
    <3> QED BY <2>1, <3>1, <3>2
  <2>2. CASE ~new
    <3>1. d0 # NoDraft
      BY <2>2 DEF Renews
    <3> QED BY <2>2, <3>1
  <2> QED BY <2>1, <2>2
<1>3. end \in {"expired", "superseded"} /\ end \in FlowStates /\ end \in TerminalStatuses
  BY DEF FlowStates, TerminalStatuses
<1>4. base \in DraftType
  <2>1. [NullDraft EXCEPT !.status = "active", !.flow = "collecting"] \in DraftType
    <3>1. NullDraft \in DraftType /\ "collecting" \in FlowStates
      BY NullTypes DEF FlowStates
    <3> QED BY ONLY <3>1 DEF DraftType
  <2> QED BY <1>2, <2>1
<1>5. /\ new => base.status = "active" /\ base.flow = "collecting"
      /\ ~new => base = draft[d]
  BY <1>2 DEF NullDraft
<1>6. Terminal(base) \in BOOLEAN
  BY DEF Terminal
<1> HIDE DEF base, end
<1>7. /\ patched \in DraftType
      /\ patched.status = base.status /\ patched.flow = base.flow
      /\ desc = {} => patched.desc = base.desc
  BY <1>4, <1>6 DEF DraftType
<1>8. closed \in [Drafts -> DraftType]
  <2>1. ASSUME d0 # NoDraft PROVE [draft[d0] EXCEPT !.status = end, !.flow = end] \in DraftType
    <3>1. draft[d0] \in DraftType
      BY <2>1
    <3> QED BY ONLY <3>1, <1>3 DEF DraftType
  <2>2. d0 # NoDraft => [draft EXCEPT ![d0].status = end, ![d0].flow = end]
                          = [draft EXCEPT ![d0] = [draft[d0] EXCEPT !.status = end, !.flow = end]]
    OBVIOUS
  <2> QED BY <2>1, <2>2
<1>9. \A x \in Drafts : IF x = d0 /\ new /\ ~Terminal(draft[x])
                        THEN ClosedAs(draft[x], closed[x])
                        ELSE closed[x] = draft[x]
  <2> SUFFICES ASSUME NEW x \in Drafts
               PROVE  IF x = d0 /\ new /\ ~Terminal(draft[x])
                      THEN ClosedAs(draft[x], closed[x]) ELSE closed[x] = draft[x]
    OBVIOUS
  <2>1. CASE x = d0 /\ new /\ ~Terminal(draft[x])
    <3>1. closed[x] = [draft[x] EXCEPT !.status = end, !.flow = end] /\ draft[x] \in DraftType
      BY <2>1 DEF NoDraft, Drafts
    <3>2. ClosedAs(draft[x], [draft[x] EXCEPT !.status = end, !.flow = end])
      BY ONLY <1>3, <3>1 DEF ClosedAs, DraftType
    <3> QED BY <2>1, <3>1, <3>2
  <2>2. CASE ~(x = d0 /\ new /\ ~Terminal(draft[x]))
    BY <2>2
  <2> QED BY <2>1, <2>2
<1> HIDE DEF patched, closed
<1>10. e.d = d /\ e.draft = [closed EXCEPT ![d] = patched] /\ e.binding = Upserted(i, d)
  BY <1>1
<1>11. e.draft \in [Drafts -> DraftType] /\ e.draft[d] = patched
       /\ \A x \in Drafts \ {d} : e.draft[x] = closed[x]
  BY <1>2, <1>7, <1>8, <1>10
<1>13. patched.status # ""
  BY <1>2, <1>5, <1>7 DEF Exists
<1>14. \A x \in Drafts \ {d} : IF x = d0 /\ ~Terminal(draft[x])
                               THEN ClosedAs(draft[x], e.draft[x])
                               ELSE e.draft[x] = draft[x]
  BY <1>2, <1>9, <1>11
<1>15. /\ Exists(d) => patched.status = draft[d].status /\ patched.flow = draft[d].flow /\ d = d0
       /\ ~Exists(d) => patched.status = "active" /\ patched.flow = "collecting"
                        /\ d = NextDraft /\ Room
  BY <1>2, <1>5, <1>7
<1> HIDE DEF e, new, d
<1>16. Entry(i, d0, e)
  <2>1. e.d = d /\ e.binding = Upserted(i, d)
    BY <1>10
  <2>2. d \in Drafts /\ e.draft[d].status # ""
    BY <1>2, <1>11, <1>13
  <2> QED BY ONLY <2>1, <2>2, <1>11, <1>14, <1>15 DEF Entry
<1>17. ~new /\ desc = {} => e.draft[d0].desc = draft[d0].desc
  BY <1>2, <1>5, <1>7, <1>11
<1> QED BY <1>16, <1>17 DEF e, new

LEMMA SourceIs ==
  ASSUME Typed, BoundExists, NEW r \in Requests, req[r].who \in Identities
  PROVE  /\ Target(r) \in Drafts \cup {NoDraft} /\ (Target(r) # NoDraft => Exists(Target(r)))
         /\ Source(r) \in Drafts \cup {NoDraft} /\ (Source(r) # NoDraft => Exists(Source(r)))
<1>1. req[r] \in ReqType /\ binding \in [Keys -> Drafts \cup {NoDraft}]
  BY DEF Typed
<1>2. req[r].in.draft \in Drafts \cup {NoDraft}
  <2>1. req[r].in \in InputType
    BY ONLY <1>1 DEF ReqType
  <2> QED BY ONLY <2>1 DEF InputType
<1>3. /\ Bound(req[r].who) \in Drafts \cup {NoDraft}
      /\ Bound(req[r].who) # NoDraft => Exists(Bound(req[r].who))
  BY <1>1, BoundIs, KeysTyped DEF BoundExists
<1> QED
  BY <1>2, <1>3 DEF Target, Source, Resolve

\* A transaction of request r decides on the draft d.
Taken(r, d) ==
  /\ d \in Drafts
  /\ Source(r) # NoDraft => lock[Source(r)] = NoReq
  /\ Exists(d) => d = Source(r)
  /\ ~Exists(d) => d = NextDraft /\ Room
  /\ draft' \in [Drafts -> DraftType]
  /\ draft'[d].status # ""
  /\ \A x \in Drafts \ {d} : IF x = Source(r) /\ ~Terminal(draft[x])
                             THEN ClosedAs(draft[x], draft'[x])
                             ELSE draft'[x] = draft[x]
  /\ binding' = Upserted(req[r].who, d) \/ (binding' = binding /\ Exists(d))

\* What becomes of a request that has decided: it ends, stores its image or submits.
ReqAfter(r, d) ==
  \E q \in ReqType :
    /\ req' = [req EXCEPT ![r] = q]
    /\ \/ q.pc = "end"
       \/ /\ q.pc = "attach_after" /\ q.d = d /\ q.state = draft'[d].flow
          /\ q.who = req[r].who /\ q.in = req[r].in /\ req[r].ev \in CollectEvents
       \/ q.pc = "sync" /\ q.d = d /\ draft'[d].flow = "queued_for_submission"

LEMMA AfterDecisionType ==
  ASSUME NEW q \in ReqType
  PROVE  /\ AfterDecision(q) \in ReqType
         /\ \/ AfterDecision(q).pc = "end"
            \/ /\ q.state = "queued_for_submission"
               /\ AfterDecision(q).pc = "sync" /\ AfterDecision(q).d = q.d
<1>1. [q EXCEPT !.pc = "sync"] \in ReqType /\ [q EXCEPT !.pc = "sync"].pc = "sync"
      /\ [q EXCEPT !.pc = "sync"].d = q.d
  <2>1. "sync" \in Pcs
    BY DEF Pcs
  <2> QED BY ONLY <2>1 DEF ReqType
<1>2. q.in.turn \in BOOLEAN
  <2>1. q.in \in InputType
    BY DEF ReqType
  <2> QED BY ONLY <2>1 DEF InputType
<1>3. \A reply : Ended(q, reply) \in ReqType /\ Ended(q, reply).pc = "end"
  BY EndedType
<1>4. \/ \E reply : AfterDecision(q) = Ended(q, reply)
      \/ AfterDecision(q) = [q EXCEPT !.pc = "sync"] /\ q.state = "queued_for_submission"
  BY <1>2 DEF AfterDecision
<1> QED BY ONLY <1>1, <1>3, <1>4

LEMMA DecideTakes ==
  ASSUME Typed, NEW r \in Requests, NEW e, NEW dr \in DraftType, NEW next \in NextActions,
         Entry(req[r].who, Source(r), e),
         Source(r) # NoDraft => lock[Source(r)] = NoReq,
         dr.status # "",
         Decide(r, e, dr, next)
  PROVE  Taken(r, e.d) /\ draft'[e.d] = dr /\ ReqAfter(r, e.d)
<1> DEFINE q == [req[r] EXCEPT !.d = e.d, !.state = dr.flow, !.next = next]
<1>1. e.d \in Drafts /\ e.draft \in [Drafts -> DraftType]
  BY DEF Entry
<1>2. draft' = [e.draft EXCEPT ![e.d] = dr] /\ binding' = e.binding
  BY DEF Decide
<1>3. draft' \in [Drafts -> DraftType] /\ draft'[e.d] = dr
      /\ \A x \in Drafts \ {e.d} : draft'[x] = e.draft[x]
  BY <1>1, <1>2
<1>4. Taken(r, e.d)
  <2>1. \A x \in Drafts \ {e.d} : IF x = Source(r) /\ ~Terminal(draft[x])
                                  THEN ClosedAs(draft[x], draft'[x])
                                  ELSE draft'[x] = draft[x]
    BY <1>3 DEF Entry
  <2> QED BY <1>1, <1>2, <1>3, <2>1 DEF Taken, Entry
<1>5. /\ q \in ReqType /\ q.d = e.d /\ q.state = dr.flow
      /\ q.who = req[r].who /\ q.in = req[r].in /\ q.ev = req[r].ev
  <2>1. req[r] \in ReqType /\ dr.flow \in {""} \cup FlowStates
    BY DEF Typed, DraftType
  <2> QED BY ONLY <1>1, <2>1, next \in NextActions DEF ReqType
<1>6. req' = [req EXCEPT ![r] = IF q.ev \in CollectEvents /\ q.in.image /\ ~q.in.turn
                                THEN [q EXCEPT !.pc = "attach_after"] ELSE AfterDecision(q)]
  BY DEF Decide, Step
<1> HIDE DEF q
<1>7. /\ [q EXCEPT !.pc = "attach_after"] \in ReqType
      /\ [q EXCEPT !.pc = "attach_after"].pc = "attach_after"
      /\ [q EXCEPT !.pc = "attach_after"].d = e.d
      /\ [q EXCEPT !.pc = "attach_after"].state = dr.flow
      /\ [q EXCEPT !.pc = "attach_after"].who = req[r].who
      /\ [q EXCEPT !.pc = "attach_after"].in = req[r].in
  <2>1. "attach_after" \in Pcs
    BY DEF Pcs
  <2> QED BY ONLY <1>5, <2>1 DEF ReqType
<1>8. /\ AfterDecision(q) \in ReqType
      /\ \/ AfterDecision(q).pc = "end"
         \/ /\ dr.flow = "queued_for_submission"
            /\ AfterDecision(q).pc = "sync" /\ AfterDecision(q).d = e.d
  BY <1>5, AfterDecisionType
<1>9. ReqAfter(r, e.d)
  <2>1. CASE q.ev \in CollectEvents /\ q.in.image /\ ~q.in.turn
    BY ONLY <1>3, <1>5, <1>6, <1>7, <2>1 DEF ReqAfter
  <2>2. CASE ~(q.ev \in CollectEvents /\ q.in.image /\ ~q.in.turn)
    BY ONLY <1>3, <1>6, <1>8, <2>2 DEF ReqAfter
  <2> QED BY <2>1, <2>2
<1> QED BY <1>3, <1>4, <1>9

LEMMA TouchedEntry ==
  ASSUME IInv, NEW r \in Requests, NEW ev, HandlingDraft(r, ev)
  PROVE  /\ Entry(req[r].who, Source(r), Touched(r))
         /\ Source(r) # NoDraft => lock[Source(r)] = NoReq
         /\ Exists(Touched(r).d) =>
              Touched(r).draft[Touched(r).d].desc = draft[Touched(r).d].desc
<1> DEFINE i == req[r].who
           d == Target(r)
<1>1. i \in Identities
  BY DEF IInv, ReqOK, HandlingDraft, Handling
<1>2. d \in Drafts /\ Exists(d) /\ Source(r) = d
  BY <1>1, SourceIs DEF IInv, HandlingDraft, Source
<1>3. lock[d] = NoReq
  BY <1>2 DEF HandlingDraft, Unlocked
<1>4. CASE req[r].in.text # ""
  <2>1. Renews(d, FALSE) => Room
    BY <1>2, <1>4 DEF HandlingDraft, Renews
  <2>2. {} \in SUBSET Requests /\ FALSE \in BOOLEAN
    OBVIOUS
  <2>3. draft \in [Drafts -> DraftType] /\ InOrder
    BY DEF IInv, Typed
  <2>4. /\ Entry(i, d, Ensure(i, d, FALSE, {}))
        /\ ~Renews(d, FALSE) => Ensure(i, d, FALSE, {}).draft[d].desc = draft[d].desc
    BY <1>2, <2>1, <2>2, <2>3, EnsureEntry
  <2>5. Renews(d, FALSE) => Ensure(i, d, FALSE, {}).d = NextDraft
    BY DEF Ensure
  <2>6. Renews(d, FALSE) => ~Exists(Ensure(i, d, FALSE, {}).d)
    BY <2>1, <2>3, <2>5, NextDraftIs
  <2>7. Touched(r) = Ensure(i, d, FALSE, {})
    BY <1>4 DEF Touched
  <2>8. Exists(Touched(r).d) => Touched(r).d = d
    BY <2>4, <2>7 DEF Entry
  <2> QED BY <1>2, <1>3, <2>4, <2>6, <2>7, <2>8
<1>5. CASE req[r].in.text = ""
  <2>1. Touched(r) = [d |-> d, draft |-> draft, binding |-> binding]
    BY <1>5 DEF Touched, Untouched
  <2>2. draft \in [Drafts -> DraftType] /\ draft[d].status # ""
    BY <1>2 DEF IInv, Typed, Exists
  <2>3. Touched(r).d = d /\ Touched(r).draft = draft /\ Touched(r).binding = binding
    BY <2>1
  <2>4. Entry(i, d, Touched(r))
    BY ONLY <1>2, <2>2, <2>3 DEF Entry
  <2> QED BY <1>2, <1>3, <2>3, <2>4
<1> QED BY <1>4, <1>5

-------------------------------------------------------------------------------
(***************************************************************************)
(* The outcomes of an event.                                               *)
(***************************************************************************)

\* An event repeated: nothing changes but, perhaps, the bindings and the expiry.
Kept(d) ==
  /\ Exists(d)
  /\ draft'[d].flow = draft[d].flow /\ draft'[d].status = draft[d].status
  /\ draft'[d].desc = draft[d].desc
  /\ UNCHANGED <<issues, report, subs, outbox>>

\* A report that is being worked on, or is cancelled.
Worked(d) ==
  /\ Exists(d) => draft[d].flow \notin ImmutableFlowStates
  /\ draft'[d].flow \in {"collecting", "matching", "awaiting_match_confirmation",
                         "ready_to_submit", "suspended", "abandoned"}
  /\ draft'[d].flow = "abandoned" => draft'[d].status = "abandoned"
  /\ UNCHANGED <<issues, report, subs, outbox>>

\* A report of a known issue: the issue is new to the database or not.
Linked(r, d) ==
  /\ Exists(d)
  /\ draft[d].flow = "awaiting_match_confirmation"
  /\ draft'[d].flow = "linked_existing" /\ draft'[d].status = "submitted"
  /\ \E rep \in ReportType :
       /\ rep.status = "linked_existing" /\ rep.issue \in DOMAIN issues'
       /\ report' = [report EXCEPT ![d] = rep]
  /\ issues' = issues \/ (\E x \in IssueType : issues' = Append(issues, x))
  /\ subs \subseteq subs' /\ subs' \subseteq (Nat \X Identities)
  /\ UNCHANGED outbox

\* A new report: its issue, its subscription and its outbox entry.
Queued(r, d) ==
  /\ Exists(d)
  /\ draft[d].flow = "ready_to_submit"
  /\ draft'[d].flow = "queued_for_submission" /\ draft'[d].status = "active"
  /\ \E rep \in ReportType :
       /\ rep.status = "queued_for_submission" /\ rep.issue = Len(issues) + 1
       /\ rep.desc = draft'[d].desc
       /\ report' = [report EXCEPT ![d] = rep]
  /\ \E x \in IssueType : issues' = Append(issues, x)
  /\ subs' = subs \cup {<<Len(issues) + 1, req[r].who>>}
  /\ outbox' = [outbox EXCEPT ![d] = "processing"]

EndsNow(r) == \E q \in ReqType : q.pc = "end" /\ req' = [req EXCEPT ![r] = q]

Outcome(r) ==
  /\ UNCHANGED <<staged, tokens, rows, lock, lates>>
  /\ faults' \in 0..MaxFaults
  /\ \/ EndsNow(r) /\ UNCHANGED tables
     \/ \E d \in Drafts :
          /\ Taken(r, d) /\ ReqAfter(r, d)
          /\ Kept(d) \/ Worked(d) \/ Linked(r, d) \/ Queued(r, d)
          /\ req[r].ev \in CollectEvents => Worked(d)

LEMMA EndIs ==
  ASSUME Typed, NEW r \in Requests, NEW reply, End(r, reply)
  PROVE  EndsNow(r)
<1>1. req[r] \in ReqType
  BY DEF Typed
<1>2. req' = [req EXCEPT ![r] = Ended(req[r], reply)]
  BY DEF End, Step
<1> QED BY ONLY <1>1, <1>2, EndedType DEF EndsNow

LEMMA RefuseOutcome ==
  ASSUME Typed, NEW r \in Requests, Refuse(r), UNCHANGED <<rows, lock, lates, faults>>
  PROVE  Outcome(r)
<1>1. EndsNow(r) /\ UNCHANGED tables
  BY EndIs DEF Refuse
<1>2. UNCHANGED <<staged, tokens>>
  BY <1>1 DEF tables
<1>3. faults' \in 0..MaxFaults
  BY DEF Typed
<1> QED BY <1>1, <1>2, <1>3 DEF Outcome

LEMMA FaultBound ==
  ASSUME Typed, NEW op, faults' = faults \/ Fault(op)
  PROVE  faults' \in 0..MaxFaults
<1>1. faults \in 0..MaxFaults /\ MaxFaults \in Nat
  BY BugReportAssumption DEF Typed
<1>2. CASE faults' = faults
  BY <1>1, <1>2
<1>3. CASE Fault(op)
  <2>1. faults < MaxFaults /\ faults' = faults + 1
    BY <1>3 DEF Fault
  <2> QED BY ONLY <1>1, <2>1
<1> QED BY <1>2, <1>3

\* An event on the draft e.d of Touched that decides on dr.
LEMMA TouchedDecides ==
  ASSUME IInv, NEW r \in Requests, NEW ev \in Events \ CollectEvents, HandlingDraft(r, ev),
         NEW dr \in DraftType, NEW next \in NextActions, dr.status # "",
         Decide(r, Touched(r), dr, next),
         UNCHANGED <<staged, tokens, rows, lock, lates, faults>>,
         LET d == Touched(r).d
         IN  draft'[d] = dr => Kept(d) \/ Worked(d) \/ Linked(r, d) \/ Queued(r, d)
  PROVE  Outcome(r)
<1>1. Entry(req[r].who, Source(r), Touched(r)) /\ (Source(r) # NoDraft => lock[Source(r)] = NoReq)
  BY TouchedEntry
<1>2. Touched(r).d \in Drafts
  BY <1>1 DEF Entry
<1>3. Typed
  BY DEF IInv
<1>4. Taken(r, Touched(r).d) /\ draft'[Touched(r).d] = dr /\ ReqAfter(r, Touched(r).d)
  BY <1>1, <1>3, DecideTakes
<1>5. faults' \in 0..MaxFaults
  BY <1>3 DEF Typed
<1>6. req[r].ev \notin CollectEvents
  BY DEF HandlingDraft, Handling
<1> QED BY <1>2, <1>4, <1>5, <1>6 DEF Outcome

\* What is known of the draft that Touched hands on.
LEMMA TouchedIs ==
  ASSUME IInv, NEW r \in Requests, NEW ev, HandlingDraft(r, ev)
  PROVE  LET e == Touched(r)  dr == e.draft[e.d]
         IN  /\ e.d \in Drafts /\ dr \in DraftType /\ dr.status # ""
             /\ Exists(e.d) => /\ dr.flow = draft[e.d].flow /\ dr.status = draft[e.d].status
                               /\ dr.desc = draft[e.d].desc
             /\ ~Exists(e.d) => dr.flow = "collecting"
BY TouchedEntry DEF Entry

LEMMA SuspendOutcome ==
  ASSUME IInv, NEW r \in Requests, Suspend(r)
  PROVE  Outcome(r)
<1> DEFINE e == Touched(r)
           dr == e.draft[e.d]
<1>1. /\ e.d \in Drafts /\ dr \in DraftType /\ dr.status # ""
      /\ Exists(e.d) => /\ dr.flow = draft[e.d].flow /\ dr.status = draft[e.d].status
                        /\ dr.desc = draft[e.d].desc
      /\ ~Exists(e.d) => dr.flow = "collecting"
  BY TouchedIs DEF Suspend
<1>2. UNCHANGED <<staged, tokens, issues, report, subs, outbox, rows, lock, faults, lates>>
      /\ HandlingDraft(r, "SUSPEND") /\ "SUSPEND" \in Events \ CollectEvents
  BY DEF Suspend, Events, ConfirmEvents, CollectEvents
<1>3. CASE dr.flow = "suspended" /\ Decide(r, e, dr, "HANDOFF_QA")
  <2>1. draft'[e.d] = dr => Kept(e.d)
    BY <1>1, <1>2, <1>3 DEF Kept
  <2>2. "HANDOFF_QA" \in NextActions
    BY DEF NextActions
  <2> QED BY <1>1, <1>2, <1>3, <2>1, <2>2, TouchedDecides
<1>4. CASE /\ dr.flow \notin ImmutableFlowStates \cup {"suspended"}
           /\ Decide(r, e, [Moved(dr, "suspended") EXCEPT !.back = dr.flow], "HANDOFF_QA")
  <2> DEFINE new == [Moved(dr, "suspended") EXCEPT !.back = dr.flow]
  <2>1. new \in DraftType /\ new.status # "" /\ new.flow = "suspended"
    <3>1. "suspended" \in FlowStates
      BY DEF FlowStates
    <3> QED BY ONLY <1>1, <3>1 DEF DraftType, Moved
  <2>2. draft'[e.d] = new => Worked(e.d)
    BY <1>1, <1>2, <1>4, <2>1 DEF Worked
  <2>3. "HANDOFF_QA" \in NextActions
    BY DEF NextActions
  <2> HIDE DEF new
  <2> QED BY <1>1, <1>2, <1>4, <2>1, <2>2, <2>3, TouchedDecides DEF new
<1>5. CASE Refuse(r)
  BY <1>2, <1>5, RefuseOutcome DEF IInv
<1> QED BY <1>3, <1>4, <1>5 DEF Suspend

LEMMA ResumeOutcome ==
  ASSUME IInv, NEW r \in Requests, Resume(r)
  PROVE  Outcome(r)
<1> DEFINE e == Touched(r)
           dr == e.draft[e.d]
           Working == {"collecting", "matching", "awaiting_match_confirmation", "ready_to_submit"}
           back == IF dr.back \in Working THEN dr.back ELSE "collecting"
<1>1. /\ e.d \in Drafts /\ dr \in DraftType /\ dr.status # ""
      /\ Exists(e.d) => /\ dr.flow = draft[e.d].flow /\ dr.status = draft[e.d].status
                        /\ dr.desc = draft[e.d].desc
      /\ ~Exists(e.d) => dr.flow = "collecting"
  BY TouchedIs DEF Resume
<1>2. UNCHANGED <<staged, tokens, issues, report, subs, outbox, rows, lock, faults, lates>>
      /\ HandlingDraft(r, "RESUME") /\ "RESUME" \in Events \ CollectEvents
  BY DEF Resume, Events, ConfirmEvents, CollectEvents
<1>3. back \in Working
  OBVIOUS
<1> HIDE DEF back
<1>4. CASE dr.flow = "suspended" /\ Decide(r, e, Moved(dr, back), NextActionOf(back))
  <2> DEFINE new == Moved(dr, back)
  <2>1. new \in DraftType /\ new.status # "" /\ new.flow = back
    <3>1. back \in FlowStates
      BY <1>3 DEF FlowStates
    <3> QED BY ONLY <1>1, <3>1 DEF DraftType, Moved
  <2>2. draft'[e.d] = new => Worked(e.d)
    BY <1>1, <1>2, <1>3, <1>4, <2>1 DEF Worked, ImmutableFlowStates
  <2>3. NextActionOf(back) \in NextActions
    BY <1>3 DEF NextActions, NextActionOf
  <2> HIDE DEF new
  <2> QED BY <1>1, <1>2, <1>4, <2>1, <2>2, <2>3, TouchedDecides DEF new
<1>5. CASE Refuse(r)
  BY <1>2, <1>5, RefuseOutcome DEF IInv
<1> QED BY <1>4, <1>5 DEF Resume, back

LEMMA RejectOutcome ==
  ASSUME IInv, NEW r \in Requests, RejectMatch(r)
  PROVE  Outcome(r)
<1> DEFINE e == Touched(r)
           dr == e.draft[e.d]
<1>1. /\ e.d \in Drafts /\ dr \in DraftType /\ dr.status # ""
      /\ Exists(e.d) => dr.flow = draft[e.d].flow
  BY TouchedIs DEF RejectMatch
<1>2. UNCHANGED <<staged, tokens, issues, report, subs, outbox, rows, lock, faults, lates>>
      /\ HandlingDraft(r, "REJECT_MATCH") /\ "REJECT_MATCH" \in Events \ CollectEvents
  BY DEF RejectMatch, Events, ConfirmEvents, CollectEvents
<1>3. CASE /\ dr.flow = "awaiting_match_confirmation"
           /\ Decide(r, e, [Moved(dr, "ready_to_submit") EXCEPT !.match = NoRow], "CONFIRM_SUBMIT")
  <2> DEFINE new == [Moved(dr, "ready_to_submit") EXCEPT !.match = NoRow]
  <2>1. new \in DraftType /\ new.status # "" /\ new.flow = "ready_to_submit"
    <3>1. "ready_to_submit" \in FlowStates /\ NoRow \in Nat
      BY DEF FlowStates, NoRow
    <3> QED BY ONLY <1>1, <3>1 DEF DraftType, Moved
  <2>2. draft'[e.d] = new => Worked(e.d)
    BY <1>1, <1>2, <1>3, <2>1 DEF Worked, ImmutableFlowStates
  <2>3. "CONFIRM_SUBMIT" \in NextActions
    BY DEF NextActions
  <2> HIDE DEF new
  <2> QED BY <1>1, <1>2, <1>3, <2>1, <2>2, <2>3, TouchedDecides DEF new
<1>4. CASE Refuse(r)
  BY <1>2, <1>4, RefuseOutcome DEF IInv
<1> QED BY <1>3, <1>4 DEF RejectMatch

LEMMA CancelOutcome ==
  ASSUME IInv, NEW r \in Requests, Cancel(r)
  PROVE  Outcome(r)
<1> DEFINE e == Touched(r)
           dr == e.draft[e.d]
<1>1. /\ e.d \in Drafts /\ dr \in DraftType /\ dr.status # ""
      /\ Exists(e.d) => /\ dr.flow = draft[e.d].flow /\ dr.status = draft[e.d].status
                        /\ dr.desc = draft[e.d].desc
      /\ ~Exists(e.d) => dr.flow = "collecting"
  BY TouchedIs DEF Cancel
<1>2. UNCHANGED <<staged, tokens, issues, report, subs, outbox, rows, lock, faults, lates>>
      /\ HandlingDraft(r, "CANCEL") /\ "CANCEL" \in Events \ CollectEvents
  BY DEF Cancel, Events, ConfirmEvents, CollectEvents
<1>3. "COMPLETED" \in NextActions
  BY DEF NextActions
<1>4. CASE dr.flow = "abandoned" /\ Decide(r, e, dr, "COMPLETED")
  <2>1. draft'[e.d] = dr => Kept(e.d)
    BY <1>1, <1>2, <1>4 DEF Kept
  <2> QED BY <1>1, <1>2, <1>3, <1>4, <2>1, TouchedDecides
<1>5. CASE /\ dr.flow \notin ImmutableFlowStates
           /\ Decide(r, e, Closed(dr, "abandoned", "abandoned"), "COMPLETED")
  <2> DEFINE new == Closed(dr, "abandoned", "abandoned")
  <2>1. new \in DraftType /\ new.status = "abandoned" /\ new.flow = "abandoned"
    <3>1. "abandoned" \in FlowStates /\ "abandoned" \in TerminalStatuses
      BY DEF FlowStates, ImmutableFlowStates, TerminalStatuses
    <3> QED BY ONLY <1>1, <3>1 DEF DraftType, Closed
  <2>2. draft'[e.d] = new => Worked(e.d)
    BY <1>1, <1>2, <1>5, <2>1 DEF Worked
  <2> HIDE DEF new
  <2> QED BY <1>1, <1>2, <1>3, <1>5, <2>1, <2>2, TouchedDecides DEF new
<1>6. CASE Refuse(r)
  BY <1>2, <1>6, RefuseOutcome DEF IInv
<1> QED BY <1>4, <1>5, <1>6 DEF Cancel

LEMMA MissingOutcome ==
  ASSUME IInv, NEW r \in Requests, Missing(r)
  PROVE  Outcome(r)
BY RefuseOutcome DEF IInv, Missing

LEMMA ConfirmSubmitOutcome ==
  ASSUME IInv, NEW r \in Requests, ConfirmSubmit(r)
  PROVE  Outcome(r)
<1> DEFINE e == Touched(r)
           dr == e.draft[e.d]
<1>1. /\ e.d \in Drafts /\ dr \in DraftType /\ dr.status # ""
      /\ Exists(e.d) => /\ dr.flow = draft[e.d].flow /\ dr.status = draft[e.d].status
                        /\ dr.desc = draft[e.d].desc
      /\ ~Exists(e.d) => dr.flow = "collecting"
  BY TouchedIs DEF ConfirmSubmit
<1>2. UNCHANGED <<staged, tokens, rows, lock, faults, lates>>
      /\ HandlingDraft(r, "CONFIRM_SUBMIT") /\ "CONFIRM_SUBMIT" \in Events \ CollectEvents
  BY DEF ConfirmSubmit, Events, ConfirmEvents, CollectEvents
<1>3. "WAIT_FOR_SYNC" \in NextActions
  BY DEF NextActions
<1>4. CASE /\ dr.flow \in {"queued_for_submission", "submitted"}
           /\ Decide(r, e, dr, "WAIT_FOR_SYNC")
           /\ UNCHANGED <<issues, report, subs, outbox>>
  <2>1. draft'[e.d] = dr => Kept(e.d)
    BY <1>1, <1>4 DEF Kept
  <2> QED BY <1>1, <1>2, <1>3, <1>4, <2>1, TouchedDecides
<1>5. CASE /\ dr.flow = "ready_to_submit"
           /\ issues' = Append(issues, [source |-> "local", ext |-> NoRow])
           /\ report' = [report EXCEPT ![e.d] =
                 [issue |-> Len(issues) + 1, status |-> "queued_for_submission",
                  ext |-> NoRow, desc |-> dr.desc]]
           /\ subs' = subs \cup {<<Len(issues) + 1, req[r].who>>}
           /\ outbox' = [outbox EXCEPT ![e.d] = "processing"]
           /\ Decide(r, e, Closed(dr, "queued_for_submission", "active"), "WAIT_FOR_SYNC")
  <2> DEFINE new == Closed(dr, "queued_for_submission", "active")
             rep == [issue |-> Len(issues) + 1, status |-> "queued_for_submission",
                     ext |-> NoRow, desc |-> dr.desc]
  <2>1. /\ new \in DraftType /\ new.status = "active" /\ new.flow = "queued_for_submission"
        /\ new.desc = dr.desc
    <3>1. "queued_for_submission" \in FlowStates
      BY DEF FlowStates, ImmutableFlowStates
    <3> QED BY ONLY <1>1, <3>1 DEF DraftType, Closed
  <2>2. [source |-> "local", ext |-> NoRow] \in IssueType
    BY DEF IssueType, NoRow
  <2>3. rep \in ReportType /\ rep.status = "queued_for_submission" /\ rep.issue = Len(issues) + 1
        /\ rep.desc = dr.desc
    <3>1. Len(issues) + 1 \in Nat /\ dr.desc \in SUBSET Requests
      <4>1. issues \in Seq(IssueType)
        BY DEF IInv, Typed
      <4>2. dr.desc \in SUBSET Requests
        BY <1>1 DEF DraftType
      <4> QED BY ONLY <4>1, <4>2
    <3> QED BY ONLY <3>1 DEF ReportType, NoRow
  <2>4. Exists(e.d) /\ draft[e.d].flow = "ready_to_submit"
    BY <1>1, <1>5
  <2>5. draft'[e.d] = new => Queued(r, e.d)
    BY <1>5, <2>1, <2>2, <2>3, <2>4 DEF Queued
  <2> HIDE DEF new
  <2> QED BY <1>1, <1>2, <1>3, <1>5, <2>1, <2>5, TouchedDecides DEF new
<1>6. CASE Refuse(r)
  BY <1>2, <1>6, RefuseOutcome DEF IInv
<1> QED BY <1>4, <1>5, <1>6 DEF ConfirmSubmit

LEMMA ConfirmMatchOutcome ==
  ASSUME IInv, NEW r \in Requests, ConfirmMatch(r)
  PROVE  Outcome(r)
<1> DEFINE e == Touched(r)
           dr == e.draft[e.d]
           known == IssueOf(dr.match)
           k == IF known = {} THEN Len(issues) + 1 ELSE CHOOSE x \in known : TRUE
<1>1. /\ e.d \in Drafts /\ dr \in DraftType /\ dr.status # ""
      /\ Exists(e.d) => /\ dr.flow = draft[e.d].flow /\ dr.status = draft[e.d].status
                        /\ dr.desc = draft[e.d].desc
      /\ ~Exists(e.d) => dr.flow = "collecting"
  BY TouchedIs DEF ConfirmMatch
<1>2. UNCHANGED <<staged, tokens, outbox, rows, lock, faults, lates>>
      /\ HandlingDraft(r, "CONFIRM_MATCH") /\ "CONFIRM_MATCH" \in Events \ CollectEvents
  BY DEF ConfirmMatch, Events, ConfirmEvents, CollectEvents
<1>3. "COMPLETED" \in NextActions
  BY DEF NextActions
<1>4. CASE /\ dr.flow = "linked_existing"
           /\ Decide(r, e, dr, "COMPLETED")
           /\ UNCHANGED <<issues, report, subs>>
  <2>1. draft'[e.d] = dr => Kept(e.d)
    BY <1>1, <1>2, <1>4 DEF Kept
  <2> QED BY <1>1, <1>2, <1>3, <1>4, <2>1, TouchedDecides
<1>5. CASE /\ dr.flow = "awaiting_match_confirmation" /\ dr.match # NoRow
           /\ issues' = IF known = {} THEN Append(issues, [source |-> "feishu", ext |-> dr.match])
                        ELSE issues
           /\ report' = [report EXCEPT ![e.d] =
                 [issue |-> k, status |-> "linked_existing", ext |-> dr.match, desc |-> dr.desc]]
           /\ subs' = subs \cup {<<k, req[r].who>>}
           /\ Decide(r, e, Closed(dr, "linked_existing", "submitted"), "COMPLETED")
  <2> DEFINE new == Closed(dr, "linked_existing", "submitted")
             rep == [issue |-> k, status |-> "linked_existing", ext |-> dr.match, desc |-> dr.desc]
             iss == [source |-> "feishu", ext |-> dr.match]
  <2>1. new \in DraftType /\ new.status = "submitted" /\ new.flow = "linked_existing"
    <3>1. "linked_existing" \in FlowStates /\ "submitted" \in TerminalStatuses
      BY DEF FlowStates, ImmutableFlowStates, TerminalStatuses
    <3> QED BY ONLY <1>1, <3>1 DEF DraftType, Closed
  <2>2. dr.match \in Nat /\ dr.desc \in SUBSET Requests
    BY <1>1 DEF DraftType
  <2>3. iss \in IssueType /\ issues \in Seq(IssueType)
    BY <2>2 DEF IssueType, IInv, Typed
  <2>4. k \in DOMAIN issues' /\ k \in Nat
    <3>1. CASE known = {}
      BY <1>5, <2>3, <3>1
    <3>2. CASE known # {}
      <4>1. k \in known
        BY <3>2
      <4>2. known \subseteq DOMAIN issues
        BY DEF IssueOf
      <4>3. issues' = issues
        BY <1>5, <3>2
      <4> QED BY <2>3, <4>1, <4>2, <4>3
    <3> QED BY <3>1, <3>2
  <2> HIDE DEF k
  <2>5. rep \in ReportType /\ rep.status = "linked_existing" /\ rep.issue = k
    BY <2>2, <2>4 DEF ReportType
  <2>6. issues' = issues \/ issues' = Append(issues, iss)
    BY <1>5
  <2>7. subs \subseteq subs' /\ subs' \subseteq (Nat \X Identities)
    <3>1. req[r].who \in Identities
      BY DEF IInv, ReqOK, ConfirmMatch, HandlingDraft, Handling
    <3>2. subs \subseteq (Nat \X Identities)
      BY DEF IInv, Typed
    <3> QED BY <1>5, <2>4, <3>1, <3>2
  <2>8. Exists(e.d) /\ draft[e.d].flow = "awaiting_match_confirmation"
    BY <1>1, <1>5
  <2>9. draft'[e.d] = new => Linked(r, e.d)
    <3> SUFFICES ASSUME draft'[e.d] = new PROVE Linked(r, e.d)
      OBVIOUS
    <3>1. report' = [report EXCEPT ![e.d] = rep]
      BY <1>5
    <3> HIDE DEF rep, new, e, iss
    <3> QED BY <1>2, <2>1, <2>3, <2>4, <2>5, <2>6, <2>7, <2>8, <3>1 DEF Linked
  <2> HIDE DEF new
  <2> QED BY <1>1, <1>2, <1>3, <1>5, <2>1, <2>9, TouchedDecides DEF new
<1>6. CASE Refuse(r)
  BY <1>2, <1>6, RefuseOutcome DEF IInv
<1> QED BY <1>4, <1>5, <1>6 DEF ConfirmMatch

LEMMA DescriptionType ==
  ASSUME Typed, NEW r \in Requests, NEW d0 \in Drafts \cup {NoDraft}
  PROVE  Description(r, d0) \in SUBSET Requests
<1>1. d0 # NoDraft => draft[d0].desc \in SUBSET Requests
  <2>1. d0 # NoDraft => draft[d0] \in DraftType
    BY DEF Typed
  <2> QED BY ONLY <2>1 DEF DraftType
<1>2. Description(r, d0) \in {{}, {r}, IF d0 = NoDraft THEN {} ELSE draft[d0].desc \cup {r}}
  <2>1. req[r].in.turn \in BOOLEAN
    <3>1. req[r] \in ReqType
      BY DEF Typed
    <3>2. req[r].in \in InputType
      BY ONLY <3>1 DEF ReqType
    <3> QED BY ONLY <3>2 DEF InputType
  <2> QED BY <2>1 DEF Description
<1> QED BY <1>1, <1>2

LEMMA CollectOutcome ==
  ASSUME IInv, NEW r \in Requests, Collect(r)
  PROVE  Outcome(r)
<1> DEFINE q     == req[r]
           found == Target(r)
           d0    == Source(r)
           over  == /\ q.ev = "START_REPORT" /\ found # NoDraft
                    /\ Terminal(draft[found]) \/ draft[found].flow \in ImmutableFlowStates
           force == q.in.force \/ over
           e     == Ensure(q.who, d0, force, Description(r, found))
           dr    == e.draft[e.d]
<1>1. Typed /\ InOrder /\ BoundExists /\ draft \in [Drafts -> DraftType]
  BY DEF IInv, Typed
<1>2. q.who \in Identities
  BY DEF IInv, ReqOK, Collect, Handling
<1>3. /\ found \in Drafts \cup {NoDraft}
      /\ d0 \in Drafts \cup {NoDraft} /\ (d0 # NoDraft => Exists(d0))
  BY <1>1, <1>2, SourceIs
<1>4. Unlocked(d0) /\ (Renews(d0, force) => Room)
  BY DEF Collect, Source, Target
<1>5. Description(r, found) \in SUBSET Requests /\ force \in BOOLEAN
  BY <1>1, <1>3, DescriptionType
<1>6. Entry(q.who, d0, e)
  BY <1>1, <1>3, <1>4, <1>5, EnsureEntry
<1>7. /\ e.d \in Drafts /\ dr \in DraftType /\ dr.status # ""
      /\ Exists(e.d) => dr.flow = draft[e.d].flow
  BY <1>6 DEF Entry
<1>8. d0 # NoDraft => lock[d0] = NoReq
  BY <1>4 DEF Unlocked
<1>9. UNCHANGED <<rows, lock, lates>>
  BY DEF Collect
\* A decision on a draft that is not immutable.
<1>10. ASSUME NEW new \in DraftType, NEW next \in NextActions, Decide(r, e, new, next),
              dr.flow \notin ImmutableFlowStates, new.status # "",
              new.flow \in {"collecting", "awaiting_match_confirmation", "ready_to_submit"},
              UNCHANGED <<staged, tokens, issues, report, subs, outbox>>,
              faults' \in 0..MaxFaults
       PROVE  Outcome(r)
  <2>1. Taken(r, e.d) /\ draft'[e.d] = new /\ ReqAfter(r, e.d)
    BY <1>1, <1>6, <1>8, <1>10, DecideTakes
  <2>2. Worked(e.d)
    BY <1>7, <1>10, <2>1 DEF Worked
  <2> QED BY <1>7, <1>9, <1>10, <2>1, <2>2 DEF Outcome
<1>11. \A flow \in {"collecting", "awaiting_match_confirmation", "ready_to_submit"}, n \in Nat :
         /\ Moved(dr, flow) \in DraftType /\ Moved(dr, flow).status # ""
         /\ Moved(dr, flow).flow = flow
         /\ [Moved(dr, flow) EXCEPT !.match = n] \in DraftType
         /\ [Moved(dr, flow) EXCEPT !.match = n].status # ""
         /\ [Moved(dr, flow) EXCEPT !.match = n].flow = flow
  <2> SUFFICES ASSUME NEW flow \in {"collecting", "awaiting_match_confirmation", "ready_to_submit"},
                      NEW n \in Nat
               PROVE  /\ Moved(dr, flow) \in DraftType /\ Moved(dr, flow).status # ""
                      /\ Moved(dr, flow).flow = flow
                      /\ [Moved(dr, flow) EXCEPT !.match = n] \in DraftType
                      /\ [Moved(dr, flow) EXCEPT !.match = n].status # ""
                      /\ [Moved(dr, flow) EXCEPT !.match = n].flow = flow
    OBVIOUS
  <2>1. flow \in FlowStates
    BY DEF FlowStates
  <2>2. Moved(dr, flow) \in DraftType
    BY ONLY <1>7, <2>1 DEF DraftType, Moved
  <2>3. Moved(dr, flow).status # "" /\ Moved(dr, flow).flow = flow
    BY ONLY <1>7, <2>1 DEF DraftType, Moved
  <2>4. [Moved(dr, flow) EXCEPT !.match = n] \in DraftType
    BY ONLY <2>2, n \in Nat DEF DraftType
  <2>5. /\ [Moved(dr, flow) EXCEPT !.match = n].status # ""
        /\ [Moved(dr, flow) EXCEPT !.match = n].flow = flow
    BY ONLY <2>2, <2>3 DEF DraftType
  <2> QED BY <2>2, <2>3, <2>4, <2>5
<1>12. {"REQUEST_INFORMATION", "RETRY_MATCHING", "CONFIRM_MATCH", "CONFIRM_SUBMIT"} \subseteq NextActions
  BY DEF NextActions
<1>13. NoRow \in Nat /\ DOMAIN rows \subseteq Nat
  BY <1>1 DEF Typed, NoRow
<1>14. faults' = faults \/ Fault("match") => faults' \in 0..MaxFaults
  BY <1>1, FaultBound
<1>15. CASE Refuse(r) /\ UNCHANGED faults
  BY <1>1, <1>9, <1>15, RefuseOutcome
<1>16. CASE /\ dr.flow \notin ImmutableFlowStates
            /\ Decide(r, e, Moved(dr, "collecting"), "REQUEST_INFORMATION")
            /\ UNCHANGED <<staged, tokens, issues, report, subs, outbox, faults>>
  BY <1>10, <1>11, <1>12, <1>13, <1>14, <1>16
<1>17. CASE /\ dr.flow \notin ImmutableFlowStates
            /\ Fault("match")
            /\ Decide(r, e, Moved(dr, "collecting"), "RETRY_MATCHING")
            /\ UNCHANGED <<staged, tokens, issues, report, subs, outbox>>
  BY <1>10, <1>11, <1>12, <1>13, <1>14, <1>17
<1>18. CASE /\ dr.flow \notin ImmutableFlowStates
            /\ \E n \in DOMAIN rows :
                 Decide(r, e, [Moved(dr, "awaiting_match_confirmation") EXCEPT !.match = n],
                        "CONFIRM_MATCH")
            /\ UNCHANGED <<staged, tokens, issues, report, subs, outbox, faults>>
  <2>1. PICK n \in DOMAIN rows :
          Decide(r, e, [Moved(dr, "awaiting_match_confirmation") EXCEPT !.match = n], "CONFIRM_MATCH")
    BY <1>18
  <2> DEFINE new == [Moved(dr, "awaiting_match_confirmation") EXCEPT !.match = n]
  <2>2. new \in DraftType /\ new.status # "" /\ new.flow = "awaiting_match_confirmation"
    BY <1>11, <1>13
  <2>3. faults' \in 0..MaxFaults /\ "CONFIRM_MATCH" \in NextActions
    BY <1>12, <1>14, <1>18
  <2> QED BY <1>10, <1>18, <2>1, <2>2, <2>3
<1>19. CASE /\ dr.flow \notin ImmutableFlowStates
            /\ Decide(r, e, [Moved(dr, "ready_to_submit") EXCEPT !.match = NoRow], "CONFIRM_SUBMIT")
            /\ UNCHANGED <<staged, tokens, issues, report, subs, outbox, faults>>
  BY <1>10, <1>11, <1>12, <1>13, <1>14, <1>19
<1>20. \/ Refuse(r) /\ UNCHANGED faults
       \/ /\ dr.flow \notin ImmutableFlowStates
          /\ UNCHANGED <<staged, tokens, issues, report, subs, outbox>>
          /\ \/ /\ Decide(r, e, Moved(dr, "collecting"), "REQUEST_INFORMATION")
                /\ UNCHANGED faults
             \/ /\ Fault("match")
                /\ Decide(r, e, Moved(dr, "collecting"), "RETRY_MATCHING")
             \/ /\ \E n \in DOMAIN rows :
                     Decide(r, e, [Moved(dr, "awaiting_match_confirmation") EXCEPT !.match = n],
                            "CONFIRM_MATCH")
                /\ UNCHANGED faults
             \/ /\ Decide(r, e, [Moved(dr, "ready_to_submit") EXCEPT !.match = NoRow],
                          "CONFIRM_SUBMIT")
                /\ UNCHANGED faults
  BY DEF Collect, Source, Target
<1> HIDE DEF e, over
<1> QED BY <1>15, <1>16, <1>17, <1>18, <1>19, <1>20

LEMMA HandleOutcome ==
  ASSUME IInv, NEW r \in Requests, Handle(r)
  PROVE  Outcome(r)
BY CollectOutcome, MissingOutcome, ConfirmMatchOutcome, RejectOutcome, ConfirmSubmitOutcome,
   SuspendOutcome, ResumeOutcome, CancelOutcome DEF Handle

-------------------------------------------------------------------------------
(***************************************************************************)
(* The invariant is inductive: the steps that decide.                      *)
(***************************************************************************)

\* A report that exists and a draft that is closed, by the name of their facts.
LEMMA InvParts ==
  ASSUME IInv
  PROVE  /\ Typed /\ InOrder /\ BoundExists /\ RowsOK
         /\ \A d \in Drafts : DraftOK(d)
         /\ \A r \in Requests : ReqOK(r) /\ req[r] \in ReqType
BY DEF IInv, Typed

\* A request that changes alone leaves the others as they are.
LEMMA OthersReq ==
  ASSUME Typed, NEW r \in Requests, NEW q \in ReqType, req' = [req EXCEPT ![r] = q]
  PROVE  /\ req' \in [Requests -> ReqType]
         /\ req'[r] = q
         /\ \A x \in Requests \ {r} : req'[x] = req[x]
<1>1. req \in [Requests -> ReqType]
  BY DEF Typed
<1> QED BY ONLY <1>1, r \in Requests, q \in ReqType, req' = [req EXCEPT ![r] = q]

LEMMA OutcomeExists ==
  ASSUME IInv, NEW r \in Requests, req[r].pc = "handle", NEW d \in Drafts, Taken(r, d)
  PROVE  /\ \A x \in Drafts : Exists(x)' <=> Exists(x) \/ x = d
         /\ InOrder' /\ BoundExists'
         /\ binding' \in [Keys -> Drafts \cup {NoDraft}]
<1>1. Typed /\ InOrder /\ BoundExists
  BY InvParts
<1>2. \A x \in Drafts : x # NoDraft
  BY DEF Drafts, NoDraft
<1>3. Source(r) # NoDraft => Exists(Source(r))
  BY <1>1, SourceIs DEF IInv, ReqOK
<1>4. \A x \in Drafts \ {d} : Exists(x)' <=> Exists(x)
  BY <1>2, <1>3 DEF Taken, ClosedAs, Exists
<1>5. Exists(d)'
  BY <1>2 DEF Taken, Exists
<1>6. \A x \in Drafts : Exists(x)' <=> Exists(x) \/ x = d
  BY <1>4, <1>5
<1>7. InOrder'
  <2>1. PICK n \in 0..MaxDrafts : \A x \in Drafts : Exists(x) <=> x <= n
    BY <1>1 DEF InOrder
  <2>2. CASE Exists(d)
    BY <1>6, <2>1, <2>2 DEF InOrder
  <2>3. CASE ~Exists(d)
    <3>1. /\ \A x \in Drafts : Exists(x) <=> x < d
          /\ d \in 1..MaxDrafts
      BY <1>1, <2>3, NextDraftIs DEF Taken, Drafts
    <3>2. \A x \in Drafts : Exists(x)' <=> x <= d
      BY <1>6, <3>1 DEF Drafts
    <3> QED BY <3>1, <3>2 DEF InOrder
  <2> QED BY <2>2, <2>3
<1>8. binding \in [Keys -> Drafts \cup {NoDraft}]
  BY <1>1 DEF Typed
<1>9. binding' \in [Keys -> Drafts \cup {NoDraft}] /\ \A k \in Keys : binding'[k] \in {binding[k], d}
  BY <1>8 DEF Taken, Upserted
<1>10. BoundExists'
  BY <1>1, <1>6, <1>8, <1>9 DEF BoundExists
<1> QED BY <1>6, <1>7, <1>9, <1>10

LEMMA OutcomeTables ==
  ASSUME IInv, NEW r \in Requests, req[r].pc = "handle", NEW d \in Drafts, Taken(r, d),
         Kept(d) \/ Worked(d) \/ Linked(r, d) \/ Queued(r, d)
  PROVE  /\ issues' \in Seq(IssueType) /\ DOMAIN issues \subseteq DOMAIN issues'
         /\ report' \in [Drafts -> ReportType]
         /\ \A x \in Drafts \ {d} : report'[x] = report[x] /\ outbox'[x] = outbox[x]
         /\ subs' \subseteq (Nat \X Identities)
         /\ outbox' \in [Drafts -> {"none", "processing", "pending", "succeeded"}]
         /\ outbox'[d] = outbox[d] \/ (outbox'[d] = "processing" /\ outbox[d] # "succeeded")
<1>1. /\ issues \in Seq(IssueType) /\ report \in [Drafts -> ReportType]
      /\ subs \subseteq (Nat \X Identities)
      /\ outbox \in [Drafts -> {"none", "processing", "pending", "succeeded"}]
  BY DEF IInv, Typed
<1>2. CASE Kept(d) \/ Worked(d)
  BY <1>1, <1>2 DEF Kept, Worked
<1>3. CASE Linked(r, d)
  <2>1. issues' = issues \/ (\E y \in IssueType : issues' = Append(issues, y))
    BY <1>3 DEF Linked
  <2>2. issues' \in Seq(IssueType) /\ DOMAIN issues \subseteq DOMAIN issues'
    BY ONLY <1>1, <2>1
  <2>3. report' \in [Drafts -> ReportType] /\ \A x \in Drafts \ {d} : report'[x] = report[x]
    BY <1>1, <1>3 DEF Linked
  <2>4. subs' \subseteq (Nat \X Identities) /\ outbox' = outbox
    BY <1>3 DEF Linked
  <2> QED BY <1>1, <2>2, <2>3, <2>4
<1>4. CASE Queued(r, d)
  <2>1. req[r].who \in Identities
    BY DEF IInv, ReqOK
  <2>2. outbox[d] # "succeeded"
    BY <1>4, InvParts DEF DraftOK, Queued
  <2>3. /\ issues' \in Seq(IssueType) /\ DOMAIN issues \subseteq DOMAIN issues'
        /\ Len(issues) + 1 \in Nat
    BY <1>1, <1>4 DEF Queued
  <2>4. report' \in [Drafts -> ReportType] /\ \A x \in Drafts \ {d} : report'[x] = report[x]
    BY <1>1, <1>4 DEF Queued
  <2>5. outbox' = [outbox EXCEPT ![d] = "processing"]
    BY <1>4 DEF Queued
  <2>6. subs' \subseteq (Nat \X Identities)
    BY <1>1, <1>4, <2>1, <2>3 DEF Queued
  <2> QED BY <1>1, <2>2, <2>3, <2>4, <2>5, <2>6
<1> QED BY <1>2, <1>3, <1>4

LEMMA OutcomeDraft ==
  ASSUME IInv, NEW r \in Requests, req[r].pc = "handle", NEW d \in Drafts, Taken(r, d),
         Kept(d) \/ Worked(d) \/ Linked(r, d) \/ Queued(r, d)
  PROVE  \A x \in Drafts : DraftOK(x)'
<1> SUFFICES ASSUME NEW x \in Drafts PROVE DraftOK(x)'
  OBVIOUS
<1>1. /\ Exists(x)' <=> Exists(x) \/ x = d
      /\ DraftOK(x)
  BY OutcomeExists, InvParts
<1>2. DOMAIN issues \subseteq DOMAIN issues'
      /\ (x # d => report'[x] = report[x] /\ outbox'[x] = outbox[x])
  BY OutcomeTables
<1>3. CASE x # d /\ draft'[x] = draft[x]
  BY <1>1, <1>2, <1>3 DEF DraftOK
<1>4. CASE x # d /\ draft'[x] # draft[x]
  <2>1. ~Terminal(draft[x]) /\ ClosedAs(draft[x], draft'[x]) /\ x = Source(r)
    BY <1>4 DEF Taken
  <2>2. draft[x].status # "submitted" /\ draft'[x].flow \in {"expired", "superseded"}
    BY <2>1 DEF Terminal, TerminalStatuses, ClosedAs
  <2>3. Exists(x)
    BY <2>1, SourceIs DEF IInv, ReqOK, Drafts, NoDraft
  <2> QED BY <1>1, <1>2, <1>4, <2>2, <2>3 DEF DraftOK
<1>5. CASE x = d
  <2>1. Exists(x)'
    BY <1>1, <1>5
  <2>2. CASE Kept(d)
    BY <1>1, <1>2, <1>5, <2>1, <2>2 DEF DraftOK, Kept
  <2>3. CASE Worked(d)
    <3>1. draft[x].flow \notin {"queued_for_submission", "submitted", "linked_existing"} \/ ~Exists(x)
      BY <1>5, <2>3 DEF Worked, ImmutableFlowStates
    <3>2. outbox[x] # "succeeded" /\ (outbox[x] = "none" => report[x].status = "")
      BY <1>1, <3>1 DEF DraftOK
    <3>3. draft'[x].flow \notin {"queued_for_submission", "submitted", "linked_existing"}
          /\ UNCHANGED <<issues, report, outbox>>
      BY <1>5, <2>3 DEF Worked
    <3> QED BY <1>1, <2>1, <3>2, <3>3 DEF DraftOK
  <2>4. CASE Linked(r, d)
    <3>1. outbox'[x] = outbox[x] /\ outbox[x] # "succeeded"
      BY <1>1, <1>5, <2>4 DEF Linked, DraftOK
    <3>2. draft'[x].flow = "linked_existing" /\ draft'[x].status = "submitted"
      BY <1>5, <2>4 DEF Linked
    <3>3. report'[x].status = "linked_existing" /\ report'[x].issue \in DOMAIN issues'
      BY <1>5, <2>4, InvParts DEF Linked, Typed
    <3> QED BY <2>1, <3>1, <3>2, <3>3 DEF DraftOK
  <2>5. CASE Queued(r, d)
    <3>1. outbox'[x] = "processing"
      BY <1>5, <2>5, InvParts DEF Queued, Typed
    <3>2. report'[x].status = "queued_for_submission" /\ report'[x].issue = Len(issues) + 1
      BY <1>5, <2>5, InvParts DEF Queued, Typed
    <3>3. Len(issues) + 1 \in DOMAIN issues'
      <4>1. issues \in Seq(IssueType) /\ \E y \in IssueType : issues' = Append(issues, y)
        BY <2>5, InvParts DEF Queued, Typed
      <4> QED BY ONLY <4>1
    <3> QED BY <2>1, <3>1, <3>2, <3>3 DEF DraftOK
  <2> QED BY <2>2, <2>3, <2>4, <2>5
<1> QED BY <1>3, <1>4, <1>5

\* The other requests are as well off as before when what they hold is left alone.
LEMMA OthersOK ==
  ASSUME IInv, NEW r \in Requests, NEW q \in ReqType, req' = [req EXCEPT ![r] = q],
         \A d \in Drafts : outbox[d] # "none" => outbox'[d] # "none",
         \A x \in Requests \ {r} : req[x].pc \in SyncPcs =>
           /\ lock'[req[x].d] = lock[req[x].d]
           /\ outbox'[req[x].d] # "succeeded"
           /\ \A n : n \in RowsOf(req[x].d) <=> n \in DOMAIN rows' /\ rows'[n].draft = req[x].d
  PROVE  \A x \in Requests \ {r} : ReqOK(x)'
<1> SUFFICES ASSUME NEW x \in Requests \ {r} PROVE ReqOK(x)'
  OBVIOUS
<1>1. req'[x] = req[x] /\ ReqOK(x)
  BY InvParts, OthersReq
<1>2. req[x].pc \in InHandPcs => req[x].d \in Drafts /\ outbox'[req[x].d] # "none"
  BY <1>1 DEF ReqOK
<1>3. req[x].pc \in SyncPcs => lock'[req[x].d] = x /\ outbox'[req[x].d] # "succeeded"
  BY <1>1 DEF ReqOK
<1>4. req[x].pc \in SyncPcs =>
        RowsOf(req[x].d) = {n \in DOMAIN rows' : rows'[n].draft = req[x].d}
  BY DEF RowsOf
<1> QED BY <1>1, <1>2, <1>3, <1>4 DEF ReqOK, RowsOf, SyncPcs

\* A step that changes one request, its row lock and, perhaps, the images of a draft.
LEMMA LockStep ==
  ASSUME IInv, NEW r \in Requests, NEW q \in ReqType, req' = [req EXCEPT ![r] = q],
         UNCHANGED <<draft, binding, issues, report, subs, outbox, rows>>,
         staged' \in [Drafts -> SUBSET Requests], tokens' \in [Drafts -> SUBSET Requests],
         lock' \in [Drafts -> Requests \cup {NoReq}],
         \A x \in Requests \ {r} : req[x].pc \in SyncPcs => lock'[req[x].d] = lock[req[x].d],
         faults' \in 0..MaxFaults, lates' \in 0..MaxLate,
         ReqOK(r)'
  PROVE  IInv'
<1>1. Typed /\ InOrder /\ BoundExists /\ RowsOK /\ \A d \in Drafts : DraftOK(d)
  BY InvParts
<1>2. Typed'
  BY <1>1, OthersReq DEF Typed
<1>3. InOrder' /\ BoundExists'
  BY <1>1 DEF InOrder, BoundExists, Exists
<1>4. \A d \in Drafts : DraftOK(d)'
  BY <1>1 DEF DraftOK, Exists
<1>5. RowsOK'
  BY <1>1 DEF RowsOK, RowOK
<1>6. \A x \in Requests \ {r} : ReqOK(x)'
  <2>1. \A x \in Requests : req[x].pc \in SyncPcs => outbox[req[x].d] # "succeeded"
    BY InvParts DEF ReqOK
  <2> QED BY <2>1, OthersOK DEF RowsOf
<1> QED BY <1>2, <1>3, <1>4, <1>5, <1>6 DEF IInv

\* The same without a lock.
LEMMA QuietStep ==
  ASSUME IInv, NEW r \in Requests, NEW q \in ReqType, req' = [req EXCEPT ![r] = q],
         UNCHANGED <<draft, binding, issues, report, subs, outbox, rows, lock>>,
         staged' \in [Drafts -> SUBSET Requests], tokens' \in [Drafts -> SUBSET Requests],
         faults' \in 0..MaxFaults, lates' \in 0..MaxLate,
         ReqOK(r)'
  PROVE  IInv'
<1>1. lock' \in [Drafts -> Requests \cup {NoReq}]
  BY InvParts DEF Typed
<1> QED BY <1>1, LockStep

LEMMA EndOK ==
  ASSUME NEW r \in Requests, req'[r].pc \in {"end", "idle"}
  PROVE  ReqOK(r)'
BY DEF ReqOK, InHandPcs, SyncPcs

LEMMA OutcomeInv ==
  ASSUME IInv, NEW r \in Requests, req[r].pc = "handle", Outcome(r)
  PROVE  IInv'
<1>1. UNCHANGED <<staged, tokens, rows, lock, lates>> /\ faults' \in 0..MaxFaults
  BY DEF Outcome
<1>2. CASE EndsNow(r) /\ UNCHANGED tables
  <2>1. PICK q \in ReqType : q.pc = "end" /\ req' = [req EXCEPT ![r] = q]
    BY <1>2 DEF EndsNow
  <2>2. ReqOK(r)'
    BY <2>1, OthersReq, InvParts, EndOK
  <2>3. /\ staged' \in [Drafts -> SUBSET Requests] /\ tokens' \in [Drafts -> SUBSET Requests]
        /\ lates' \in 0..MaxLate
    BY <1>1, InvParts DEF Typed
  <2> QED BY <1>1, <1>2, <2>1, <2>2, <2>3, QuietStep DEF tables
<1>3. ASSUME NEW d \in Drafts, Taken(r, d), ReqAfter(r, d),
             Kept(d) \/ Worked(d) \/ Linked(r, d) \/ Queued(r, d),
             req[r].ev \in CollectEvents => Worked(d)
      PROVE  IInv'
  <2>1. PICK q \in ReqType :
          /\ req' = [req EXCEPT ![r] = q]
          /\ \/ q.pc = "end"
             \/ /\ q.pc = "attach_after" /\ q.d = d /\ q.state = draft'[d].flow
                /\ q.who = req[r].who /\ q.in = req[r].in /\ req[r].ev \in CollectEvents
             \/ q.pc = "sync" /\ q.d = d /\ draft'[d].flow = "queued_for_submission"
    BY <1>3 DEF ReqAfter
  <2>2. req' \in [Requests -> ReqType] /\ req'[r] = q
    BY <2>1, OthersReq, InvParts
  <2>3. /\ issues' \in Seq(IssueType) /\ report' \in [Drafts -> ReportType]
        /\ \A x \in Drafts \ {d} : outbox'[x] = outbox[x]
        /\ subs' \subseteq (Nat \X Identities)
        /\ outbox' \in [Drafts -> {"none", "processing", "pending", "succeeded"}]
        /\ outbox'[d] = outbox[d] \/ (outbox'[d] = "processing" /\ outbox[d] # "succeeded")
    BY <1>3, OutcomeTables
  <2>4. InOrder' /\ BoundExists' /\ binding' \in [Keys -> Drafts \cup {NoDraft}]
    BY <1>3, OutcomeExists
  <2>5. \A x \in Drafts : DraftOK(x)'
    BY <1>3, OutcomeDraft
  <2>6. Typed'
    <3>1. draft' \in [Drafts -> DraftType]
      BY <1>3 DEF Taken
    <3> QED BY <1>1, <2>2, <2>3, <2>4, <3>1, InvParts DEF Typed
  <2>7. /\ \A x \in Drafts : outbox[x] # "none" => outbox'[x] # "none"
        /\ \A x \in Drafts : outbox'[x] = "succeeded" => outbox[x] = "succeeded"
    BY <2>3
  <2>8. RowsOK'
    <3>1. rows \in Seq(RowType) /\ RowsOK
      BY InvParts DEF Typed
    <3>2. \A n \in DOMAIN rows : rows[n].draft \in Drafts \cup {NoDraft}
      <4>1. \A n \in DOMAIN rows : rows[n] \in RowType
        BY <3>1
      <4> QED BY ONLY <4>1 DEF RowType
    <3>3. \A n \in DOMAIN rows : RowOK(n)'
      BY <1>1, <2>7, <3>1, <3>2 DEF RowsOK, RowOK
    <3> QED BY <1>1, <3>1, <3>3 DEF RowsOK
  <2>9. \A x \in Requests \ {r} : ReqOK(x)'
    <3>1. \A x \in Requests : req[x].pc \in SyncPcs =>
            req[x].d \in Drafts /\ outbox[req[x].d] # "succeeded"
      BY InvParts DEF ReqOK, InHandPcs
    <3> QED BY <1>1, <2>1, <2>7, <3>1, OthersOK DEF RowsOf
  <2>10. ReqOK(r)'
    <3>1. CASE q.pc = "end"
      BY <2>2, <3>1, EndOK
    <3>2. CASE /\ q.pc = "attach_after" /\ q.d = d /\ q.state = draft'[d].flow
               /\ q.who = req[r].who /\ q.in = req[r].in /\ req[r].ev \in CollectEvents
      <4>1. q.state # "queued_for_submission"
        BY <1>3, <3>2 DEF Worked
      <4>2. q.who \in Identities /\ q.in \in Inputs
        BY <3>2, InvParts DEF ReqOK
      <4> QED BY <2>2, <3>2, <4>1, <4>2 DEF ReqOK, InHandPcs, SyncPcs
    <3>3. CASE q.pc = "sync" /\ q.d = d /\ draft'[d].flow = "queued_for_submission"
      <4>1. outbox'[d] # "none"
        BY <2>5, <3>3 DEF DraftOK
      <4> QED BY <2>2, <3>3, <4>1 DEF ReqOK, InHandPcs, SyncPcs
    <3> QED BY <2>1, <3>1, <3>2, <3>3
  <2> QED BY <2>4, <2>5, <2>6, <2>8, <2>9, <2>10 DEF IInv
<1> QED BY <1>2, <1>3 DEF Outcome

-------------------------------------------------------------------------------
(***************************************************************************)
(* The invariant is inductive: arrivals, readings and images.              *)
(***************************************************************************)

LEMMA ArriveInv ==
  ASSUME IInv, NEW r \in Requests, Arrive(r)
  PROVE  IInv'
<1>1. PICK i \in Identities, x \in Inputs :
        req' = [req EXCEPT ![r] = [NullReq EXCEPT !.pc = IF x.turn THEN "handle" ELSE "resolve",
                                                  !.who = i, !.in = x, !.ev = x.event]]
  BY DEF Arrive, Step
<1> DEFINE q == [NullReq EXCEPT !.pc = IF x.turn THEN "handle" ELSE "resolve",
                                !.who = i, !.in = x, !.ev = x.event]
<1>2. x \in InputType
  BY BugReportAssumption DEF InputType
<1>3. x.event \in Events \cup {""}
  BY ONLY <1>2 DEF InputType
<1>4. q \in ReqType
  <2>1. NullReq \in ReqType /\ (IF x.turn THEN "handle" ELSE "resolve") \in Pcs
    BY NullTypes DEF Pcs
  <2> QED BY ONLY <1>2, <1>3, <2>1, i \in Identities DEF ReqType
<1>5. q.pc \in {"handle", "resolve"} /\ q.who = i /\ q.in = x
  BY NullTypes DEF ReqType
<1> HIDE DEF q
<1>6. req'[r] = q
  BY <1>1, <1>4, OthersReq, InvParts DEF q
<1>7. ReqOK(r)'
  BY <1>5, <1>6 DEF ReqOK, InHandPcs, SyncPcs
<1>8. /\ UNCHANGED <<draft, binding, issues, report, subs, outbox, rows, lock>>
      /\ staged' \in [Drafts -> SUBSET Requests] /\ tokens' \in [Drafts -> SUBSET Requests]
      /\ faults' \in 0..MaxFaults /\ lates' \in 0..MaxLate
  BY InvParts DEF Arrive, tables, Typed
<1> QED BY <1>1, <1>4, <1>7, <1>8, QuietStep DEF q

LEMMA EventForType ==
  ASSUME NEW state, NEW text
  PROVE  EventFor(state, text) \in Events
<1>1. {"SUSPEND", "CANCEL", "REJECT_MATCH", "CONFIRM_MATCH", "PATCH_REPORT", "CONFIRM_SUBMIT",
       "RESUME", "START_REPORT"} \subseteq Events
  BY DEF Events, ConfirmEvents, CollectEvents
<1>2. EventFor(state, text) \in
        {"SUSPEND", "CANCEL", "REJECT_MATCH", "CONFIRM_MATCH", "PATCH_REPORT", "CONFIRM_SUBMIT",
         "RESUME", "START_REPORT"}
  BY DEF EventFor
<1> QED BY <1>1, <1>2

\* A step that ends the request and changes nothing else but the count of failures.
LEMMA EndInv ==
  ASSUME IInv, NEW r \in Requests, EndsNow(r),
         UNCHANGED <<draft, binding, issues, report, subs, outbox, rows, lock>>,
         staged' \in [Drafts -> SUBSET Requests], tokens' \in [Drafts -> SUBSET Requests],
         faults' \in 0..MaxFaults, lates' \in 0..MaxLate
  PROVE  IInv'
<1>1. PICK q \in ReqType : q.pc = "end" /\ req' = [req EXCEPT ![r] = q]
  BY DEF EndsNow
<1>2. req'[r].pc = "end"
  BY <1>1, OthersReq, InvParts
<1>3. ReqOK(r)'
  BY <1>2, EndOK
<1> QED BY <1>1, <1>3, QuietStep

LEMMA ReadStateInv ==
  ASSUME IInv, NEW r \in Requests, ReadState(r)
  PROVE  IInv'
<1> DEFINE q == req[r]
           d == Bound(q.who)
           s == IF d = NoDraft THEN "" ELSE draft[d].flow
           e == IF q.in.event # "" THEN q.in.event ELSE EventFor(s, q.in.text)
           new == [q EXCEPT !.ev = e, !.d = d,
                     !.pc = IF e \in ConfirmEvents /\ q.in.image THEN "attach_first" ELSE "handle"]
<1>1. q \in ReqType /\ q.who \in Identities /\ q.in \in Inputs
  BY InvParts DEF ReadState, ReqOK
<1>2. d \in Drafts \cup {NoDraft}
  BY <1>1, BoundIs, InvParts DEF Typed
<1>3. e \in Events
  <2>1. q.in \in InputType
    BY ONLY <1>1 DEF ReqType
  <2>2. q.in.event \in Events \cup {""}
    BY ONLY <2>1 DEF InputType
  <2> QED BY <2>2, EventForType
<1>4. /\ UNCHANGED <<draft, binding, issues, report, subs, outbox, rows, lock>>
      /\ staged' \in [Drafts -> SUBSET Requests] /\ tokens' \in [Drafts -> SUBSET Requests]
      /\ faults' \in 0..MaxFaults /\ lates' \in 0..MaxLate
  BY InvParts DEF ReadState, tables, Typed
<1>5. CASE End(r, "retry_image")
  BY <1>4, <1>5, EndIs, EndInv, InvParts
<1>6. CASE /\ ~(e \in ConfirmEvents /\ q.in.image /\ d = NoDraft)
           /\ Step(r, new)
  <2>1. /\ new \in ReqType
        /\ new.who = q.who /\ new.in = q.in /\ new.d = d
        /\ new.pc = IF e \in ConfirmEvents /\ q.in.image THEN "attach_first" ELSE "handle"
    <3>1. (IF e \in ConfirmEvents /\ q.in.image THEN "attach_first" ELSE "handle") \in Pcs
      BY DEF Pcs
    <3> HIDE DEF e, d
    <3> QED BY ONLY <1>1, <1>2, <1>3, <3>1 DEF ReqType
  <2>2. req' = [req EXCEPT ![r] = new]
    BY <1>6 DEF Step
  <2> HIDE DEF new, e, d
  <2>3. req'[r] = new
    BY <2>1, <2>2, OthersReq, InvParts
  <2>4. new.pc = "attach_first" => d \in Drafts
    BY <1>2, <1>6, <2>1
  <2>5. new.pc \in {"attach_first", "handle"}
    BY <2>1
  <2>6. ReqOK(r)'
    BY <1>1, <2>1, <2>3, <2>4, <2>5 DEF ReqOK, InHandPcs, SyncPcs
  <2> QED BY <1>4, <2>1, <2>2, <2>6, QuietStep
<1> QED BY <1>5, <1>6 DEF ReadState

LEMMA AddImageType ==
  ASSUME Typed, NEW d \in Drafts, NEW r \in Requests, AddImage(d, r)
  PROVE  staged' \in [Drafts -> SUBSET Requests]
<1>1. staged \in [Drafts -> SUBSET Requests]
  BY DEF Typed
<1> QED BY <1>1 DEF AddImage

LEMMA AttachFirstInv ==
  ASSUME IInv, NEW r \in Requests, AttachFirst(r)
  PROVE  IInv'
<1>1. /\ UNCHANGED <<draft, binding, issues, report, subs, outbox, rows, lock>>
      /\ tokens' \in [Drafts -> SUBSET Requests] /\ lates' \in 0..MaxLate
  BY InvParts DEF AttachFirst, Typed
<1>2. /\ req[r] \in ReqType /\ req[r].d \in Drafts
      /\ req[r].who \in Identities /\ req[r].in \in Inputs
  BY InvParts DEF AttachFirst, ReqOK
<1>3. CASE AddImage(req[r].d, r) /\ Step(r, [req[r] EXCEPT !.pc = "handle"]) /\ UNCHANGED faults
  <2> DEFINE q == [req[r] EXCEPT !.pc = "handle"]
  <2>1. q \in ReqType /\ q.pc = "handle" /\ q.who \in Identities /\ q.in \in Inputs
    <3>1. "handle" \in Pcs
      BY DEF Pcs
    <3> QED BY ONLY <1>2, <3>1 DEF ReqType
  <2>2. req' = [req EXCEPT ![r] = q]
    BY <1>3 DEF Step
  <2> HIDE DEF q
  <2>3. req'[r] = q
    BY <2>1, <2>2, OthersReq, InvParts
  <2>4. ReqOK(r)'
    BY <2>1, <2>3 DEF ReqOK, InHandPcs, SyncPcs
  <2>5. staged' \in [Drafts -> SUBSET Requests]
    BY <1>2, <1>3, AddImageType, InvParts
  <2>6. faults' \in 0..MaxFaults
    BY <1>3, InvParts DEF Typed
  <2> QED BY <1>1, <2>1, <2>2, <2>4, <2>5, <2>6, QuietStep
<1>4. CASE Fault("attach") /\ End(r, "retry_image") /\ UNCHANGED staged
  <2>1. faults' \in 0..MaxFaults
    BY <1>4, FaultBound, InvParts
  <2>2. staged' \in [Drafts -> SUBSET Requests]
    BY <1>4, InvParts DEF Typed
  <2> QED BY <1>1, <1>4, <2>1, <2>2, EndIs, EndInv, InvParts
<1> QED BY <1>3, <1>4 DEF AttachFirst

LEMMA AttachAfterInv ==
  ASSUME IInv, NEW r \in Requests, AttachAfter(r)
  PROVE  IInv'
<1>1. /\ UNCHANGED <<draft, binding, issues, report, subs, outbox, rows, lock>>
      /\ tokens' \in [Drafts -> SUBSET Requests] /\ lates' \in 0..MaxLate
  BY InvParts DEF AttachAfter, Typed
<1>2. req[r] \in ReqType /\ req[r].d \in Drafts /\ req[r].state # "queued_for_submission"
  BY InvParts DEF AttachAfter, ReqOK
<1>3. CASE AddImage(req[r].d, r) /\ Step(r, AfterDecision(req[r])) /\ UNCHANGED faults
  <2>1. AfterDecision(req[r]) \in ReqType /\ AfterDecision(req[r]).pc = "end"
    BY <1>2, AfterDecisionType
  <2>2. EndsNow(r)
    BY <1>3, <2>1 DEF Step, EndsNow
  <2>3. staged' \in [Drafts -> SUBSET Requests]
    BY <1>2, <1>3, AddImageType, InvParts
  <2>4. faults' \in 0..MaxFaults
    BY <1>3, InvParts DEF Typed
  <2> QED BY <1>1, <2>2, <2>3, <2>4, EndInv
<1>4. CASE Fault("attach") /\ End(r, "image_failed") /\ UNCHANGED staged
  <2>1. faults' \in 0..MaxFaults
    BY <1>4, FaultBound, InvParts
  <2>2. staged' \in [Drafts -> SUBSET Requests]
    BY <1>4, InvParts DEF Typed
  <2> QED BY <1>1, <1>4, <2>1, <2>2, EndIs, EndInv, InvParts
<1> QED BY <1>3, <1>4 DEF AttachAfter

-------------------------------------------------------------------------------
(***************************************************************************)
(* The invariant is inductive: the synchronisation.                        *)
(***************************************************************************)

\* Two synchronisations never work on one draft.
LEMMA SyncApart ==
  ASSUME IInv, NEW r \in Requests, NEW x \in Requests \ {r},
         req[r].pc \in SyncPcs, req[x].pc \in SyncPcs
  PROVE  req[x].d # req[r].d
<1>1. lock[req[r].d] = r /\ lock[req[x].d] = x
  BY InvParts DEF ReqOK
<1> QED BY <1>1

LEMMA SyncIs ==
  ASSUME IInv, NEW r \in Requests, req[r].pc \in SyncPcs
  PROVE  /\ req[r] \in ReqType /\ req[r].d \in Drafts /\ req[r].toks \in SUBSET Requests
         /\ lock[req[r].d] = r
         /\ Exists(req[r].d) /\ outbox[req[r].d] \in {"processing", "pending"}
<1>1. req[r] \in ReqType /\ ReqOK(r)
  BY InvParts
<1>2. req[r].d \in Drafts /\ outbox[req[r].d] \notin {"none", "succeeded"} /\ lock[req[r].d] = r
  BY <1>1 DEF ReqOK, InHandPcs
<1>3. req[r].toks \in SUBSET Requests
  BY ONLY <1>1 DEF ReqType
<1>4. outbox[req[r].d] \in {"none", "processing", "pending", "succeeded"}
  BY <1>2, InvParts DEF Typed
<1>5. Exists(req[r].d)
  BY <1>2, InvParts DEF DraftOK
<1> QED BY <1>1, <1>2, <1>3, <1>4, <1>5

LEMMA SyncBeginInv ==
  ASSUME IInv, NEW r \in Requests, SyncBegin(r)
  PROVE  IInv'
<1> DEFINE q == req[r]
           d == q.d
<1>1. q \in ReqType /\ d \in Drafts /\ outbox[d] # "none"
  BY InvParts DEF SyncBegin, ReqOK, InHandPcs
<1>2. /\ UNCHANGED <<draft, binding, issues, report, subs, outbox, rows>>
      /\ staged' \in [Drafts -> SUBSET Requests] /\ tokens' \in [Drafts -> SUBSET Requests]
      /\ faults' \in 0..MaxFaults /\ lates' \in 0..MaxLate
  BY InvParts DEF SyncBegin, tables, Typed
<1>3. lock \in [Drafts -> Requests \cup {NoReq}] /\ lock[d] = NoReq
  BY InvParts DEF Typed, SyncBegin
<1>4. CASE End(r, "recorded") /\ UNCHANGED lock
  BY <1>2, <1>4, EndIs, EndInv, InvParts
<1>5. CASE /\ outbox[d] # "succeeded"
           /\ lock' = [lock EXCEPT ![d] = r]
           /\ Step(r, [q EXCEPT !.pc = "upload", !.toks = tokens[d],
                              !.tries = @ + (IF q.pc = "retry" THEN 1 ELSE 0)])
  <2> DEFINE new == [q EXCEPT !.pc = "upload", !.toks = tokens[d],
                              !.tries = @ + (IF q.pc = "retry" THEN 1 ELSE 0)]
  <2>1. new \in ReqType /\ new.pc = "upload" /\ new.d = d
    <3>1. tokens[d] \in SUBSET Requests
      BY <1>1, InvParts DEF Typed
    <3>2. "upload" \in Pcs
      BY DEF Pcs, SyncPcs
    <3>3. q.tries + (IF q.pc = "retry" THEN 1 ELSE 0) \in Nat
      <4>1. q.tries \in Nat
        BY ONLY <1>1 DEF ReqType
      <4> QED BY ONLY <4>1
    <3>4. \A t \in SUBSET Requests, k \in Nat :
            LET x == [q EXCEPT !.pc = "upload", !.toks = t, !.tries = k]
            IN  x \in ReqType /\ x.pc = "upload" /\ x.d = d
      BY ONLY <1>1, <3>2 DEF ReqType
    <3>5. new = [q EXCEPT !.pc = "upload", !.toks = tokens[d],
                          !.tries = q.tries + (IF q.pc = "retry" THEN 1 ELSE 0)]
      OBVIOUS
    <3> HIDE DEF new
    <3> QED BY ONLY <3>1, <3>3, <3>4, <3>5
  <2>2. req' = [req EXCEPT ![r] = new]
    BY <1>5 DEF Step
  <2> HIDE DEF new
  <2>3. req'[r] = new
    BY <2>1, <2>2, OthersReq, InvParts
  <2>4. lock' \in [Drafts -> Requests \cup {NoReq}] /\ lock'[d] = r
        /\ \A x \in Drafts \ {d} : lock'[x] = lock[x]
    BY <1>1, <1>3, <1>5
  <2>5. \A x \in Requests \ {r} : req[x].pc \in SyncPcs => lock'[req[x].d] = lock[req[x].d]
    <3> SUFFICES ASSUME NEW x \in Requests \ {r}, req[x].pc \in SyncPcs
                 PROVE  lock'[req[x].d] = lock[req[x].d]
      OBVIOUS
    <3>1. req[x].d \in Drafts /\ lock[req[x].d] = x
      BY SyncIs
    <3>2. x # NoReq
      BY DEF Requests, NoReq
    <3> QED BY <1>3, <2>4, <3>1, <3>2
  <2>6. ReqOK(r)'
    BY <1>1, <1>2, <1>5, <2>1, <2>3, <2>4 DEF ReqOK, InHandPcs, SyncPcs
  <2> QED BY <1>2, <2>1, <2>2, <2>4, <2>5, <2>6, LockStep
<1> QED BY <1>4, <1>5 DEF SyncBegin

\* What the table holds after r has written its row, whether or not r learns of it.
WrittenBy(r) ==
  LET q   == req[r]
      row == [draft |-> q.d, desc |-> draft[q.d].desc, images |-> q.toks]
  IN  IF q.row # NoRow THEN [rows EXCEPT ![q.row] = row] ELSE Append(rows, row)

\* It holds one row of the draft; the rows of the others are as they were.
LEMMA WriteIs ==
  ASSUME IInv, NEW r \in Requests, req[r].pc = "write"
  PROVE  LET q    == req[r]
             done == WrittenBy(r)
             n    == IF q.row = NoRow THEN Len(rows) + 1 ELSE q.row
         IN  /\ done \in Seq(RowType) /\ Len(done) >= Len(rows)
             /\ (q.row = NoRow => Len(done) = n)
             /\ n \in DOMAIN done /\ n \in Nat
             /\ done[n] = [draft |-> q.d, desc |-> draft[q.d].desc, images |-> q.toks]
             /\ \A m \in DOMAIN done \ {n} : m \in DOMAIN rows /\ done[m] = rows[m]
                                              /\ done[m].draft # q.d
             /\ DOMAIN rows \subseteq DOMAIN done
             /\ n \in DOMAIN rows => rows[n].draft = q.d
<1> DEFINE q    == req[r]
           row  == [draft |-> q.d, desc |-> draft[q.d].desc, images |-> q.toks]
           done == WrittenBy(r)
           n    == IF q.row = NoRow THEN Len(rows) + 1 ELSE q.row
<1>1. /\ q.d \in Drafts /\ q.toks \in SUBSET Requests /\ Exists(q.d)
      /\ rows \in Seq(RowType) /\ RowsOK
  BY SyncIs, InvParts DEF Typed, SyncPcs
<1>2. IF q.row = NoRow THEN RowsOf(q.d) = {} ELSE q.row \in RowsOf(q.d)
  BY InvParts DEF ReqOK
<1>3. row \in RowType
  <2>1. draft[q.d] \in DraftType
    BY <1>1, InvParts DEF Typed
  <2>2. draft[q.d].desc \in SUBSET Requests
    BY ONLY <2>1 DEF DraftType
  <2> QED BY <1>1, <2>2 DEF RowType
<1>4. row.draft = q.d /\ q.d # NoDraft
  BY <1>1 DEF Drafts, NoDraft
<1> HIDE DEF row
<1>5. CASE q.row = NoRow
  <2>1. done = Append(rows, row)
    BY <1>5 DEF WrittenBy, row
  <2>2. \A m \in DOMAIN rows : rows[m].draft # q.d
    BY <1>2, <1>5 DEF RowsOf
  <2>3. /\ done \in Seq(RowType) /\ Len(done) = Len(rows) + 1
        /\ n = Len(rows) + 1 /\ n \in DOMAIN done /\ n \in Nat /\ n \notin DOMAIN rows
        /\ done[n] = row
        /\ \A m \in DOMAIN done \ {n} : m \in DOMAIN rows /\ done[m] = rows[m]
        /\ DOMAIN rows \subseteq DOMAIN done
    BY ONLY <1>1, <1>3, <1>5, <2>1
  <2> HIDE DEF done, n
  <2> QED BY <1>1, <2>2, <2>3 DEF done, row, n
<1>6. CASE q.row # NoRow
  <2>1. done = [rows EXCEPT ![q.row] = row]
    BY <1>6 DEF WrittenBy, row
  <2>2. q.row \in DOMAIN rows /\ rows[q.row].draft = q.d /\ n = q.row
    BY <1>2, <1>6 DEF RowsOf
  <2>3. \A m \in DOMAIN rows : rows[m].draft = q.d => m = q.row
    BY <1>1, <1>4, <2>2 DEF RowsOK, RowOK
  <2>4. /\ done \in Seq(RowType) /\ Len(done) = Len(rows) /\ DOMAIN done = DOMAIN rows
        /\ n \in DOMAIN done /\ n \in Nat /\ done[n] = row
        /\ \A m \in DOMAIN done \ {n} : done[m] = rows[m]
    BY ONLY <1>1, <1>3, <1>6, <2>1, <2>2
  <2> HIDE DEF done, n
  <2> QED BY <1>1, <1>6, <2>2, <2>3, <2>4 DEF done, row, n
<1> QED BY <1>5, <1>6

\* The table as the invariant describes it.
LEMMA RowsTyped ==
  ASSUME IInv
  PROVE  /\ rows \in Seq(RowType)
         /\ ForeignRows \in Nat /\ Len(rows) \in Nat /\ Len(rows) >= ForeignRows
         /\ \A n \in DOMAIN rows : n \in Nat /\ RowOK(n) /\ rows[n].draft \in Drafts \cup {NoDraft}
<1>1. rows \in Seq(RowType) /\ RowsOK
  BY InvParts DEF Typed
<1>2. ForeignRows \in Nat
  BY BugReportAssumption
<1>3. Len(rows) >= ForeignRows /\ \A n \in DOMAIN rows : RowOK(n)
  BY <1>1 DEF RowsOK
<1>4. Len(rows) \in Nat /\ \A n \in DOMAIN rows : n \in Nat /\ rows[n] \in RowType
  BY ONLY <1>1
<1>5. \A n \in DOMAIN rows : rows[n].draft \in Drafts \cup {NoDraft}
  BY ONLY <1>4 DEF RowType
<1> QED BY <1>1, <1>2, <1>3, <1>4, <1>5

LEMMA RowsKept ==
  ASSUME IInv, rows' = rows, \A d \in Drafts : outbox[d] # "none" => outbox'[d] # "none"
  PROVE  rows' \in Seq(RowType) /\ RowsOK'
<1>1. \A n \in DOMAIN rows : RowOK(n)'
  BY RowsTyped DEF RowOK
<1> QED BY <1>1, RowsTyped DEF RowsOK

LEMMA RowsWritten ==
  ASSUME IInv, NEW r \in Requests, req[r].pc = "write", rows' = WrittenBy(r),
         \A d \in Drafts : outbox[d] # "none" => outbox'[d] # "none"
  PROVE  /\ rows' \in Seq(RowType) /\ RowsOK'
         /\ \A d \in Drafts \ {req[r].d} : \A n :
              n \in RowsOf(d) <=> n \in DOMAIN rows' /\ rows'[n].draft = d
<1> DEFINE q == req[r]
           n == IF q.row = NoRow THEN Len(rows) + 1 ELSE q.row
           row == [draft |-> q.d, desc |-> draft[q.d].desc, images |-> q.toks]
<1>1. /\ rows' \in Seq(RowType) /\ Len(rows') >= Len(rows)
      /\ n \in DOMAIN rows' /\ rows'[n].draft = q.d
      /\ \A m \in DOMAIN rows' \ {n} : m \in DOMAIN rows /\ rows'[m] = rows[m] /\ rows'[m].draft # q.d
      /\ n \in DOMAIN rows => rows[n].draft = q.d
  <2>1. /\ rows' \in Seq(RowType) /\ Len(rows') >= Len(rows)
        /\ n \in DOMAIN rows' /\ rows'[n] = row
        /\ \A m \in DOMAIN rows' \ {n} : m \in DOMAIN rows /\ rows'[m] = rows[m] /\ rows'[m].draft # q.d
        /\ n \in DOMAIN rows => rows[n].draft = q.d
    BY WriteIs
  <2>2. row.draft = q.d
    OBVIOUS
  <2> HIDE DEF n, row
  <2> QED BY <2>1, <2>2
<1>2. n \notin DOMAIN rows => n = Len(rows) + 1
  <2>1. q.row # NoRow => q.row \in DOMAIN rows
    BY InvParts DEF ReqOK, RowsOf
  <2> QED BY <2>1
<1>3. q.d \in Drafts /\ q.d # NoDraft /\ outbox[q.d] # "none"
  <2>1. q.pc \in SyncPcs
    BY DEF SyncPcs
  <2>2. q.d \in Drafts /\ outbox[q.d] \in {"processing", "pending"}
    BY <2>1, SyncIs
  <2> QED BY <2>2 DEF Drafts, NoDraft
<1> HIDE DEF n, row
<1>4. n \in Nat /\ ForeignRows \in Nat /\ n > ForeignRows
  <2>1. CASE n \in DOMAIN rows
    <3>1. n \in Nat /\ ~(n <= ForeignRows) /\ ForeignRows \in Nat
      BY <1>1, <1>3, <2>1, RowsTyped DEF RowOK
    <3> QED BY ONLY <3>1
  <2>2. CASE n \notin DOMAIN rows
    <3>1. ForeignRows \in Nat /\ Len(rows) \in Nat /\ Len(rows) >= ForeignRows
      BY RowsTyped
    <3> QED BY ONLY <1>2, <2>2, <3>1
  <2> QED BY <2>1, <2>2
<1>5. ASSUME NEW m \in DOMAIN rows' PROVE RowOK(m)'
  <2>1. CASE m = n
    <3>1. ~(m <= ForeignRows)
      BY ONLY <1>4, <2>1
    <3>2. outbox'[q.d] # "none"
      BY <1>3
    <3>3. \A l \in DOMAIN rows' : rows'[l].draft = rows'[m].draft => l = m
      BY ONLY <1>1, <2>1
    <3> QED BY ONLY <1>1, <1>3, <2>1, <3>1, <3>2, <3>3 DEF RowOK
  <2>2. CASE m # n
    <3>1. /\ m \in DOMAIN rows /\ rows'[m] = rows[m] /\ rows[m].draft # q.d
          /\ RowOK(m) /\ rows[m].draft \in Drafts \cup {NoDraft}
      BY <1>1, <2>2, RowsTyped
    <3>2. \A l \in DOMAIN rows' : rows'[l].draft = rows'[m].draft => l \in DOMAIN rows /\ rows'[l] = rows[l]
      BY ONLY <1>1, <3>1
    <3>3. rows[m].draft # NoDraft => outbox'[rows[m].draft] # "none"
      BY <3>1 DEF RowOK
    <3> QED BY ONLY <3>1, <3>2, <3>3 DEF RowOK
  <2> QED BY <2>1, <2>2
<1>6. RowsOK'
  <2>1. Len(rows') >= ForeignRows
    <3>1. Len(rows') \in Nat
      BY ONLY <1>1
    <3> QED BY <1>1, <3>1, RowsTyped
  <2> QED BY <1>5, <2>1 DEF RowsOK
<1>7. \A d \in Drafts \ {q.d} : \A m :
        m \in RowsOf(d) <=> m \in DOMAIN rows' /\ rows'[m].draft = d
  <2> SUFFICES ASSUME NEW d \in Drafts \ {q.d}, NEW m
               PROVE  m \in RowsOf(d) <=> m \in DOMAIN rows' /\ rows'[m].draft = d
    OBVIOUS
  <2>1. DOMAIN rows \subseteq DOMAIN rows'
    <3>1. Len(rows) <= Len(rows') /\ rows \in Seq(RowType) /\ rows' \in Seq(RowType)
      BY <1>1, RowsTyped
    <3> QED BY ONLY <3>1
  <2> QED BY <1>1, <2>1 DEF RowsOf
<1> QED BY <1>1, <1>6, <1>7

\* A synchronisation changes the tables of its own draft only.
LEMMA SyncStep ==
  ASSUME IInv, NEW r \in Requests, NEW q \in ReqType, req' = [req EXCEPT ![r] = q],
         NEW d \in Drafts, d = req[r].d, req[r].pc \in SyncPcs,
         UNCHANGED <<binding, staged, subs, lates>>, faults' \in 0..MaxFaults,
         tokens' \in [Drafts -> SUBSET Requests],
         issues' \in Seq(IssueType), DOMAIN issues' = DOMAIN issues,
         draft' \in [Drafts -> DraftType], Exists(d)',
         report' \in [Drafts -> ReportType],
         outbox' \in [Drafts -> {"none", "processing", "pending", "succeeded"}],
         outbox'[d] # "none", DraftOK(d)',
         lock' \in [Drafts -> Requests \cup {NoReq}],
         \A x \in Drafts \ {d} : /\ draft'[x] = draft[x] /\ report'[x] = report[x]
                                 /\ outbox'[x] = outbox[x] /\ lock'[x] = lock[x],
         rows' \in Seq(RowType), RowsOK',
         \A x \in Drafts \ {d} : \A n :
           n \in RowsOf(x) <=> n \in DOMAIN rows' /\ rows'[n].draft = x,
         ReqOK(r)'
  PROVE  IInv'
<1>1. Typed /\ InOrder /\ BoundExists /\ (\A x \in Drafts : DraftOK(x)) /\ Exists(d)
  BY InvParts, SyncIs
<1>2. Typed'
  <2>1. req' \in [Requests -> ReqType] /\ lates' \in 0..MaxLate
    BY <1>1, OthersReq DEF Typed
  <2>2. /\ binding' \in [Keys -> Drafts \cup {NoDraft}] /\ staged' \in [Drafts -> SUBSET Requests]
        /\ subs' \subseteq (Nat \X Identities)
    BY <1>1 DEF Typed
  <2> QED BY <2>1, <2>2 DEF Typed
<1>3. \A x \in Drafts : Exists(x)' <=> Exists(x)
  <2> SUFFICES ASSUME NEW x \in Drafts PROVE Exists(x)' <=> Exists(x)
    OBVIOUS
  <2>1. x # d => draft'[x] = draft[x]
    OBVIOUS
  <2> QED BY <1>1, <2>1 DEF Exists
<1>4. InOrder'
  <2>1. PICK n \in 0..MaxDrafts : \A x \in Drafts : Exists(x) <=> x <= n
    BY <1>1 DEF InOrder
  <2> QED BY <1>3, <2>1 DEF InOrder
<1>5. BoundExists'
  <2>1. binding \in [Keys -> Drafts \cup {NoDraft}] /\ binding' = binding
    BY <1>1 DEF Typed
  <2> QED BY <1>1, <1>3, <2>1 DEF BoundExists
<1>6. \A x \in Drafts : DraftOK(x)'
  <2> SUFFICES ASSUME NEW x \in Drafts \ {d} PROVE DraftOK(x)'
    OBVIOUS
  <2>1. /\ draft'[x] = draft[x] /\ report'[x] = report[x] /\ outbox'[x] = outbox[x]
        /\ DraftOK(x) /\ (Exists(x)' <=> Exists(x)) /\ DOMAIN issues' = DOMAIN issues
    BY <1>1, <1>3
  <2> QED BY ONLY <2>1 DEF DraftOK
<1>7. \A x \in Requests \ {r} : ReqOK(x)'
  <2>1. \A x \in Drafts : outbox[x] # "none" => outbox'[x] # "none"
    OBVIOUS
  <2>2. ASSUME NEW x \in Requests \ {r}, req[x].pc \in SyncPcs
        PROVE  /\ lock'[req[x].d] = lock[req[x].d]
               /\ outbox'[req[x].d] # "succeeded"
               /\ \A n : n \in RowsOf(req[x].d) <=> n \in DOMAIN rows' /\ rows'[n].draft = req[x].d
    <3>1. req[x].d \in Drafts \ {d} /\ outbox[req[x].d] # "succeeded"
      BY <2>2, SyncIs, SyncApart
    <3> QED BY <3>1
  <2> QED BY <2>1, <2>2, OthersOK
<1> QED BY <1>1, <1>2, <1>4, <1>5, <1>6, <1>7 DEF IInv

LEMMA ClosedType ==
  ASSUME NEW dr \in DraftType, NEW flow \in FlowStates, NEW status \in {"active"} \cup TerminalStatuses
  PROVE  /\ Closed(dr, flow, status) \in DraftType
         /\ Closed(dr, flow, status).flow = flow /\ Closed(dr, flow, status).status = status
         /\ Closed(dr, flow, status).desc = dr.desc
BY DEF Closed, DraftType

\* After a failure, known or not to have had an effect, the report waits for a retry.
LEMMA SyncFailsInv ==
  ASSUME IInv, NEW r \in Requests, req[r].pc \in SyncPcs, SyncFails(r),
         rows' = rows \/ (req[r].pc = "write" /\ rows' = WrittenBy(r)),
         faults' \in 0..MaxFaults, UNCHANGED lates
  PROVE  IInv'
<1>0. PICK d \in Drafts : d = req[r].d
  BY SyncIs
<1> DEFINE q == [req[r] EXCEPT !.pc = "schedule", !.toks = {}, !.row = NoRow]
<1>1. req[r] \in ReqType /\ d \in Drafts /\ req[r].toks \in SUBSET Requests /\ Exists(d)
      /\ lock[d] = r
  BY <1>0, SyncIs
<1>2. q \in ReqType /\ q.pc = "schedule" /\ q.d = d
  <2>1. "schedule" \in Pcs /\ NoRow \in Nat
    BY DEF Pcs, NoRow
  <2> QED BY ONLY <1>0, <1>1, <2>1 DEF ReqType
<1>3. req' = [req EXCEPT ![r] = q]
  BY DEF SyncFails, Step
<1> HIDE DEF q
<1>4. req'[r] = q
  BY <1>2, <1>3, OthersReq, InvParts
<1>5. /\ draft \in [Drafts -> DraftType] /\ report \in [Drafts -> ReportType]
      /\ tokens \in [Drafts -> SUBSET Requests] /\ issues \in Seq(IssueType)
      /\ outbox \in [Drafts -> {"none", "processing", "pending", "succeeded"}]
      /\ lock \in [Drafts -> Requests \cup {NoReq}]
  BY InvParts DEF Typed
<1>6. /\ tokens' = [tokens EXCEPT ![d] = req[r].toks]
      /\ outbox' = [outbox EXCEPT ![d] = "pending"]
      /\ draft' = [draft EXCEPT ![d] = Closed(draft[d], "queued_for_submission", "active")]
      /\ lock' = [lock EXCEPT ![d] = NoReq]
      /\ UNCHANGED <<binding, staged, issues, report, subs>>
  BY <1>0 DEF SyncFails
<1>7. /\ Closed(draft[d], "queued_for_submission", "active") \in DraftType
      /\ Closed(draft[d], "queued_for_submission", "active").flow = "queued_for_submission"
      /\ Closed(draft[d], "queued_for_submission", "active").status = "active"
  <2>1. draft[d] \in DraftType /\ "queued_for_submission" \in FlowStates
    BY <1>1, <1>5 DEF FlowStates, ImmutableFlowStates
  <2> QED BY <2>1, ClosedType
<1>8. /\ draft' \in [Drafts -> DraftType] /\ draft'[d].flow = "queued_for_submission"
      /\ draft'[d].status = "active"
      /\ tokens' \in [Drafts -> SUBSET Requests]
      /\ outbox' \in [Drafts -> {"none", "processing", "pending", "succeeded"}]
      /\ outbox'[d] = "pending"
      /\ lock' \in [Drafts -> Requests \cup {NoReq}]
      /\ \A x \in Drafts \ {d} : /\ draft'[x] = draft[x] /\ report'[x] = report[x]
                                 /\ outbox'[x] = outbox[x] /\ lock'[x] = lock[x]
  BY ONLY <1>1, <1>5, <1>6, <1>7
<1>9. Exists(d)'
  BY <1>1, <1>8 DEF Exists
<1>10. DraftOK(d)'
  <2>1. DraftOK(d) /\ outbox[d] # "none"
    BY <1>0, <1>1, SyncIs, InvParts
  <2> QED BY <1>6, <1>8, <1>9, <2>1 DEF DraftOK
<1>11. ReqOK(r)'
  BY <1>1, <1>2, <1>4, <1>8 DEF ReqOK, InHandPcs, SyncPcs
<1>12. \A x \in Drafts : outbox[x] # "none" => outbox'[x] # "none"
  BY <1>8
<1>13. rows' \in Seq(RowType) /\ RowsOK'
       /\ \A x \in Drafts \ {d} : \A n :
            n \in RowsOf(x) <=> n \in DOMAIN rows' /\ rows'[n].draft = x
  <2>1. CASE rows' = rows
    BY <1>12, <2>1, RowsKept DEF RowsOf
  <2>2. CASE req[r].pc = "write" /\ rows' = WrittenBy(r)
    BY <1>0, <1>12, <2>2, RowsWritten
  <2> QED BY <2>1, <2>2
<1> QED BY <1>0, <1>1, <1>2, <1>3, <1>5, <1>6, <1>8, <1>9, <1>10, <1>11, <1>13, SyncStep

LEMMA UploadInv ==
  ASSUME IInv, NEW r \in Requests, Upload(r)
  PROVE  IInv'
<1>1. req[r].pc = "upload" /\ UNCHANGED <<rows, lates>> /\ req[r].pc \in SyncPcs
  BY DEF Upload, SyncPcs
<1>2. req[r] \in ReqType /\ req[r].d \in Drafts /\ req[r].toks \in SUBSET Requests /\ ReqOK(r)
  BY <1>1, SyncIs, InvParts
<1>3. ASSUME NEW q \in ReqType, q.pc \in {"upload", "lookup"}, q.d = req[r].d,
             req' = [req EXCEPT ![r] = q], UNCHANGED <<tables, lock, faults>>
      PROVE  IInv'
  <2>1. req'[r] = q
    BY <1>3, OthersReq, InvParts
  <2>2. /\ UNCHANGED <<draft, binding, issues, report, subs, outbox, rows, lock>>
        /\ staged' \in [Drafts -> SUBSET Requests] /\ tokens' \in [Drafts -> SUBSET Requests]
        /\ faults' \in 0..MaxFaults /\ lates' \in 0..MaxLate
    BY <1>1, <1>3, InvParts DEF tables, Typed
  <2>3. ReqOK(r)'
    BY <1>1, <1>2, <1>3, <2>1, <2>2 DEF ReqOK, InHandPcs, SyncPcs
  <2> QED BY <1>3, <2>2, <2>3, QuietStep
<1>4. ASSUME NEW img \in staged[req[r].d] \ req[r].toks,
             Step(r, [req[r] EXCEPT !.toks = @ \cup {img}]), UNCHANGED <<tables, lock, faults>>
      PROVE  IInv'
  <2> DEFINE q == [req[r] EXCEPT !.toks = @ \cup {img}]
  <2>1. img \in Requests
    BY <1>2, InvParts DEF Typed
  <2>2. q \in ReqType /\ q.pc = req[r].pc /\ q.d = req[r].d
    BY ONLY <1>2, <2>1 DEF ReqType
  <2> HIDE DEF q
  <2> QED BY <1>1, <1>3, <1>4, <2>2 DEF Step, q
<1>5. CASE Step(r, [req[r] EXCEPT !.pc = "lookup"]) /\ UNCHANGED <<tables, lock, faults>>
  <2> DEFINE q == [req[r] EXCEPT !.pc = "lookup"]
  <2>1. "lookup" \in Pcs
    BY DEF Pcs, SyncPcs
  <2>2. q \in ReqType /\ q.pc = "lookup" /\ q.d = req[r].d
    BY ONLY <1>2, <2>1 DEF ReqType
  <2> HIDE DEF q
  <2> QED BY <1>3, <1>5, <2>2 DEF Step, q
<1>6. CASE Fault("upload") /\ SyncFails(r)
  BY <1>1, <1>6, FaultBound, InvParts, SyncFailsInv
<1> QED BY <1>4, <1>5, <1>6 DEF Upload

LEMMA LookupInv ==
  ASSUME IInv, NEW r \in Requests, Lookup(r)
  PROVE  IInv'
<1>1. req[r].pc = "lookup" /\ UNCHANGED <<rows, lates>> /\ req[r].pc \in SyncPcs
  BY DEF Lookup, SyncPcs
<1>2. req[r] \in ReqType /\ req[r].d \in Drafts /\ ReqOK(r)
  BY <1>1, SyncIs, InvParts
<1>3. ASSUME NEW n \in Nat, Step(r, [req[r] EXCEPT !.pc = "write", !.row = n]),
             UNCHANGED <<tables, lock, faults>>,
             IF n = NoRow THEN RowsOf(req[r].d) = {} ELSE n \in RowsOf(req[r].d)
      PROVE  IInv'
  <2> DEFINE q == [req[r] EXCEPT !.pc = "write", !.row = n]
  <2>1. q \in ReqType /\ q.pc = "write" /\ q.d = req[r].d /\ q.row = n
    <3>1. "write" \in Pcs
      BY DEF Pcs, SyncPcs
    <3> QED BY ONLY <1>2, <3>1, n \in Nat DEF ReqType
  <2>2. req' = [req EXCEPT ![r] = q]
    BY <1>3 DEF Step
  <2> HIDE DEF q
  <2>3. req'[r] = q
    BY <2>1, <2>2, OthersReq, InvParts
  <2>4. /\ UNCHANGED <<draft, binding, issues, report, subs, outbox, rows, lock>>
        /\ staged' \in [Drafts -> SUBSET Requests] /\ tokens' \in [Drafts -> SUBSET Requests]
        /\ faults' \in 0..MaxFaults /\ lates' \in 0..MaxLate
    BY <1>1, <1>3, InvParts DEF tables, Typed
  <2>5. ReqOK(r)'
    BY <1>1, <1>2, <1>3, <2>1, <2>3, <2>4 DEF ReqOK, InHandPcs, SyncPcs, RowsOf
  <2> QED BY <2>1, <2>2, <2>4, <2>5, QuietStep
<1>4. CASE Fault("search") /\ SyncFails(r)
  BY <1>1, <1>4, FaultBound, InvParts, SyncFailsInv
<1>5. CASE /\ RowsOf(req[r].d) = {}
           /\ Step(r, [req[r] EXCEPT !.pc = "write", !.row = NoRow])
           /\ UNCHANGED <<tables, lock, faults>>
  BY <1>3, <1>5 DEF NoRow
<1>6. ASSUME NEW n \in RowsOf(req[r].d), Step(r, [req[r] EXCEPT !.pc = "write", !.row = n]),
             UNCHANGED <<tables, lock, faults>>
      PROVE  IInv'
  <2>1. n \in Nat /\ n # NoRow
    <3>1. n \in DOMAIN rows /\ rows \in Seq(RowType)
      BY <1>6, RowsTyped DEF RowsOf
    <3> QED BY ONLY <3>1 DEF NoRow
  <2> QED BY <1>3, <1>6, <2>1
<1> QED BY <1>4, <1>5, <1>6 DEF Lookup

LEMMA WriteInv ==
  ASSUME IInv, NEW r \in Requests, Write(r)
  PROVE  IInv'
<1>1. req[r].pc = "write" /\ UNCHANGED lates /\ req[r].pc \in SyncPcs
  BY DEF Write, SyncPcs
<1>2. PICK d \in Drafts : d = req[r].d
  BY <1>1, SyncIs
<1>3. CASE Fault("write") /\ SyncFails(r) /\ UNCHANGED rows
  BY <1>1, <1>3, FaultBound, InvParts, SyncFailsInv
<1>4. CASE Fault("reply") /\ SyncFails(r) /\ rows' = WrittenBy(r)
  BY <1>1, <1>4, FaultBound, InvParts, SyncFailsInv
<1>5. CASE /\ rows' = WrittenBy(r)
           /\ Step(r, [req[r] EXCEPT !.pc = "commit",
                                     !.row = IF @ = NoRow THEN Len(WrittenBy(r)) ELSE @])
           /\ UNCHANGED <<tables, lock, faults>>
  <2> DEFINE n == IF req[r].row = NoRow THEN Len(rows) + 1 ELSE req[r].row
             q == [req[r] EXCEPT !.pc = "commit",
                                 !.row = IF @ = NoRow THEN Len(WrittenBy(r)) ELSE @]
  <2>1. /\ req[r] \in ReqType /\ lock[d] = r /\ Exists(d)
        /\ outbox[d] \notin {"none", "succeeded"}
    BY <1>1, <1>2, SyncIs
  <2>2. /\ req[r].row = NoRow => Len(WrittenBy(r)) = n
        /\ n \in Nat /\ n \in DOMAIN rows' /\ rows'[n].draft = d
    <3>1. /\ req[r].row = NoRow => Len(WrittenBy(r)) = n
          /\ n \in Nat /\ n \in DOMAIN rows'
          /\ rows'[n] = [draft |-> req[r].d, desc |-> draft[req[r].d].desc, images |-> req[r].toks]
      BY <1>1, <1>5, WriteIs
    <3> HIDE DEF n
    <3> QED BY <1>2, <3>1
  <2>3. q = [req[r] EXCEPT !.pc = "commit", !.row = n]
    BY <2>2
  <2>4. q \in ReqType /\ q.pc = "commit" /\ q.d = d /\ q.row = n
    <3>1. "commit" \in Pcs
      BY DEF Pcs, SyncPcs
    <3> HIDE DEF n, q
    <3> QED BY ONLY <1>2, <2>1, <2>2, <2>3, <3>1 DEF ReqType
  <2>5. req' = [req EXCEPT ![r] = q]
    BY <1>5 DEF Step
  <2> HIDE DEF n, q
  <2>6. req'[r] = q
    BY <2>4, <2>5, OthersReq, InvParts
  <2>7. /\ UNCHANGED <<draft, binding, staged, tokens, issues, report, subs, outbox, lock, lates>>
        /\ UNCHANGED faults
    BY <1>1, <1>5 DEF tables
  <2>8. /\ draft' \in [Drafts -> DraftType] /\ report' \in [Drafts -> ReportType]
        /\ tokens' \in [Drafts -> SUBSET Requests] /\ issues' \in Seq(IssueType)
        /\ outbox' \in [Drafts -> {"none", "processing", "pending", "succeeded"}]
        /\ lock' \in [Drafts -> Requests \cup {NoReq}] /\ faults' \in 0..MaxFaults
    BY <2>7, InvParts DEF Typed
  <2>9. ReqOK(r)'
    <3>1. n \in RowsOf(d)'
      BY <2>2 DEF RowsOf
    <3> QED BY <2>1, <2>4, <2>6, <2>7, <3>1 DEF ReqOK, InHandPcs, SyncPcs
  <2>10. Exists(d)' /\ DraftOK(d)' /\ outbox'[d] # "none"
    BY <2>1, <2>7, InvParts DEF Exists, DraftOK
  <2>11. rows' \in Seq(RowType) /\ RowsOK'
         /\ \A x \in Drafts \ {d} : \A m :
              m \in RowsOf(x) <=> m \in DOMAIN rows' /\ rows'[m].draft = x
    BY <1>1, <1>2, <1>5, <2>7, RowsWritten
  <2> QED BY <1>1, <1>2, <2>4, <2>5, <2>7, <2>8, <2>9, <2>10, <2>11, SyncStep
<1> QED BY <1>3, <1>4, <1>5 DEF Write, WrittenBy

\* A row is recorded in the report, its issue and the draft.
LEMMA RecordedTypes ==
  ASSUME IInv, NEW d \in Drafts, NEW n \in Nat, NEW toks \in SUBSET Requests,
         outbox[d] # "none", Recorded(d, n, toks)
  PROVE  /\ issues' \in Seq(IssueType) /\ DOMAIN issues' = DOMAIN issues
         /\ report[d].issue \in DOMAIN issues /\ report'[d].issue = report[d].issue
         /\ issues'[report[d].issue].ext = n
         /\ \A k \in DOMAIN issues : k # report[d].issue => issues'[k] = issues[k]
         /\ report' \in [Drafts -> ReportType]
         /\ report'[d].status = "submitted" /\ report'[d].ext = n
         /\ report'[d].desc = report[d].desc
         /\ draft' \in [Drafts -> DraftType]
         /\ draft'[d].flow = "submitted" /\ draft'[d].status = "submitted"
         /\ draft'[d].desc = draft[d].desc
         /\ outbox' \in [Drafts -> {"none", "processing", "pending", "succeeded"}]
         /\ outbox'[d] = "succeeded"
         /\ tokens' \in [Drafts -> SUBSET Requests] /\ tokens'[d] = toks
         /\ \A x \in Drafts \ {d} : /\ draft'[x] = draft[x] /\ report'[x] = report[x]
                                    /\ outbox'[x] = outbox[x] /\ tokens'[x] = tokens[x]
         /\ UNCHANGED <<binding, staged, subs>>
<1>1. /\ draft \in [Drafts -> DraftType] /\ report \in [Drafts -> ReportType]
      /\ tokens \in [Drafts -> SUBSET Requests] /\ issues \in Seq(IssueType)
      /\ outbox \in [Drafts -> {"none", "processing", "pending", "succeeded"}]
  BY InvParts DEF Typed
<1>2. report[d].issue \in DOMAIN issues
  BY InvParts DEF DraftOK
<1>3. /\ issues' \in Seq(IssueType) /\ DOMAIN issues' = DOMAIN issues
      /\ issues'[report[d].issue].ext = n
      /\ \A k \in DOMAIN issues : k # report[d].issue => issues'[k] = issues[k]
  <2> DEFINE k == report[d].issue
             y == [issues[k] EXCEPT !.ext = n]
  <2>1. issues[k] \in IssueType
    BY ONLY <1>1, <1>2
  <2>2. y \in IssueType /\ y.ext = n
    BY ONLY <2>1, n \in Nat DEF IssueType
  <2>3. issues' = [issues EXCEPT ![k] = y]
    BY DEF Recorded
  <2> HIDE DEF k, y
  <2> QED BY ONLY <1>1, <1>2, <2>2, <2>3 DEF k
<1>4. /\ report' \in [Drafts -> ReportType]
      /\ report'[d].issue = report[d].issue /\ report'[d].desc = report[d].desc
      /\ report'[d].status = "submitted" /\ report'[d].ext = n
      /\ \A x \in Drafts \ {d} : report'[x] = report[x]
  <2> DEFINE y == [report[d] EXCEPT !.ext = n, !.status = "submitted"]
  <2>1. report[d] \in ReportType
    BY <1>1
  <2>2. y \in ReportType /\ y.issue = report[d].issue /\ y.desc = report[d].desc
        /\ y.status = "submitted" /\ y.ext = n
    BY ONLY <2>1, n \in Nat DEF ReportType
  <2>3. report' = [report EXCEPT ![d] = y]
    BY <1>1 DEF Recorded
  <2> HIDE DEF y
  <2> QED BY ONLY <1>1, <2>2, <2>3, d \in Drafts
<1>5. /\ draft' \in [Drafts -> DraftType]
      /\ draft'[d].flow = "submitted" /\ draft'[d].status = "submitted"
      /\ draft'[d].desc = draft[d].desc
      /\ \A x \in Drafts \ {d} : draft'[x] = draft[x]
  <2>1. draft[d] \in DraftType /\ "submitted" \in FlowStates /\ "submitted" \in TerminalStatuses
    BY <1>1 DEF FlowStates, ImmutableFlowStates, TerminalStatuses
  <2>2. /\ Closed(draft[d], "submitted", "submitted") \in DraftType
        /\ Closed(draft[d], "submitted", "submitted").flow = "submitted"
        /\ Closed(draft[d], "submitted", "submitted").status = "submitted"
        /\ Closed(draft[d], "submitted", "submitted").desc = draft[d].desc
    BY <2>1, ClosedType
  <2>3. draft' = [draft EXCEPT ![d] = Closed(draft[d], "submitted", "submitted")]
    BY DEF Recorded
  <2> QED BY ONLY <1>1, <2>2, <2>3, d \in Drafts
<1>6. /\ outbox' \in [Drafts -> {"none", "processing", "pending", "succeeded"}]
      /\ outbox'[d] = "succeeded"
      /\ tokens' \in [Drafts -> SUBSET Requests] /\ tokens'[d] = toks
      /\ \A x \in Drafts \ {d} : outbox'[x] = outbox[x] /\ tokens'[x] = tokens[x]
      /\ UNCHANGED <<binding, staged, subs>>
  BY <1>1 DEF Recorded
<1> QED BY <1>2, <1>3, <1>4, <1>5, <1>6

LEMMA CommitInv ==
  ASSUME IInv, NEW r \in Requests, Commit(r)
  PROVE  IInv'
<1>1. req[r].pc = "commit" /\ UNCHANGED <<rows, lates>> /\ req[r].pc \in SyncPcs
  BY DEF Commit, SyncPcs
<1>2. PICK d \in Drafts : d = req[r].d
  BY <1>1, SyncIs
<1>3. /\ req[r] \in ReqType /\ req[r].toks \in SUBSET Requests /\ lock[d] = r
      /\ outbox[d] \notin {"none", "succeeded"}
  BY <1>1, <1>2, SyncIs
<1>4. req[r].row \in Nat /\ req[r].tries \in Nat
  BY ONLY <1>3 DEF ReqType
<1>5. lock' \in [Drafts -> Requests \cup {NoReq}]
      /\ \A x \in Drafts \ {d} : lock'[x] = lock[x]
  <2>1. lock \in [Drafts -> Requests \cup {NoReq}] /\ lock' = [lock EXCEPT ![d] = NoReq]
    BY <1>2, InvParts DEF Commit, Typed
  <2> QED BY ONLY <2>1
<1>6. CASE Recorded(req[r].d, req[r].row, req[r].toks) /\ End(r, "recorded") /\ UNCHANGED faults
  <2>1. PICK q \in ReqType : q.pc = "end" /\ req' = [req EXCEPT ![r] = q]
    BY <1>6, EndIs, InvParts DEF EndsNow
  <2>2. ReqOK(r)'
    BY <2>1, OthersReq, InvParts, EndOK
  <2>3. /\ issues' \in Seq(IssueType) /\ DOMAIN issues' = DOMAIN issues
        /\ report[d].issue \in DOMAIN issues /\ report'[d].issue = report[d].issue
        /\ report' \in [Drafts -> ReportType] /\ report'[d].status = "submitted"
        /\ draft' \in [Drafts -> DraftType]
        /\ draft'[d].flow = "submitted" /\ draft'[d].status = "submitted"
        /\ outbox' \in [Drafts -> {"none", "processing", "pending", "succeeded"}]
        /\ outbox'[d] = "succeeded"
        /\ tokens' \in [Drafts -> SUBSET Requests]
        /\ \A x \in Drafts \ {d} : /\ draft'[x] = draft[x] /\ report'[x] = report[x]
                                   /\ outbox'[x] = outbox[x]
        /\ UNCHANGED <<binding, staged, subs>>
    BY <1>2, <1>3, <1>4, <1>6, RecordedTypes
  <2>4. DraftOK(d)' /\ Exists(d)'
    BY <2>3 DEF DraftOK, Exists, Drafts, NoDraft
  <2>5. \A x \in Drafts : outbox[x] # "none" => outbox'[x] # "none"
    BY <2>3
  <2>6. rows' \in Seq(RowType) /\ RowsOK'
        /\ \A x \in Drafts \ {d} : \A n :
             n \in RowsOf(x) <=> n \in DOMAIN rows' /\ rows'[n].draft = x
    BY <1>1, <2>5, RowsKept DEF RowsOf
  <2>7. faults' \in 0..MaxFaults
    BY <1>6, InvParts DEF Typed
  <2> QED BY <1>1, <1>2, <1>5, <2>1, <2>2, <2>3, <2>4, <2>6, <2>7, SyncStep
<1>7. CASE /\ Fault("commit")
           /\ Step(r, IF req[r].tries = 0 THEN Ended(req[r], "error")
                      ELSE [req[r] EXCEPT !.pc = "schedule", !.toks = {}, !.row = NoRow])
           /\ UNCHANGED tables
  <2> DEFINE q == IF req[r].tries = 0 THEN Ended(req[r], "error")
                  ELSE [req[r] EXCEPT !.pc = "schedule", !.toks = {}, !.row = NoRow]
  <2>1. q \in ReqType /\ (q.pc = "end" \/ (q.pc = "schedule" /\ q.d = d))
    <3>1. "schedule" \in Pcs /\ NoRow \in Nat
      BY DEF Pcs, NoRow
    <3>2. LET x == [req[r] EXCEPT !.pc = "schedule", !.toks = {}, !.row = NoRow]
          IN  x \in ReqType /\ x.pc = "schedule" /\ x.d = d
      BY ONLY <1>2, <1>3, <3>1 DEF ReqType
    <3>3. Ended(req[r], "error") \in ReqType /\ Ended(req[r], "error").pc = "end"
      BY <1>3, EndedType
    <3> QED BY ONLY <3>2, <3>3
  <2>2. req' = [req EXCEPT ![r] = q]
    BY <1>7 DEF Step
  <2> HIDE DEF q
  <2>3. req'[r] = q
    BY <2>1, <2>2, OthersReq, InvParts
  <2>4. /\ UNCHANGED <<draft, binding, issues, report, subs, outbox, rows>>
        /\ staged' \in [Drafts -> SUBSET Requests] /\ tokens' \in [Drafts -> SUBSET Requests]
        /\ lates' \in 0..MaxLate
    BY <1>1, <1>7, InvParts DEF tables, Typed
  <2>5. faults' \in 0..MaxFaults
    BY <1>7, FaultBound, InvParts
  <2>6. ReqOK(r)'
    BY <1>3, <2>1, <2>3, <2>4 DEF ReqOK, InHandPcs, SyncPcs
  <2>7. \A x \in Requests \ {r} : req[x].pc \in SyncPcs => lock'[req[x].d] = lock[req[x].d]
    BY <1>1, <1>2, <1>5, SyncApart, SyncIs
  <2> QED BY <1>5, <2>1, <2>2, <2>4, <2>5, <2>6, <2>7, LockStep
<1> QED BY <1>6, <1>7 DEF Commit

LEMMA ScheduleInv ==
  ASSUME IInv, NEW r \in Requests, Schedule(r)
  PROVE  IInv'
<1>1. /\ UNCHANGED <<draft, binding, issues, report, subs, outbox, rows, lock>>
      /\ staged' \in [Drafts -> SUBSET Requests] /\ tokens' \in [Drafts -> SUBSET Requests]
      /\ lates' \in 0..MaxLate
  BY InvParts DEF Schedule, tables, Typed
<1>2. faults' \in 0..MaxFaults
  BY FaultBound, InvParts DEF Schedule
<1>3. req[r] \in ReqType /\ req[r].d \in Drafts /\ outbox[req[r].d] # "none"
  BY InvParts DEF Schedule, ReqOK, InHandPcs
<1>4. CASE \E reply : End(r, reply)
  BY <1>1, <1>2, <1>4, EndIs, EndInv, InvParts
<1>5. CASE Step(r, [NullReq EXCEPT !.pc = "retry", !.d = req[r].d, !.tries = req[r].tries,
                                  !.reply = "saved"])
  <2> DEFINE q == [NullReq EXCEPT !.pc = "retry", !.d = req[r].d, !.tries = req[r].tries,
                                  !.reply = "saved"]
  <2>1. q \in ReqType /\ q.pc = "retry" /\ q.d = req[r].d
    <3>1. NullReq \in ReqType /\ "retry" \in Pcs
      BY NullTypes DEF Pcs
    <3>2. req[r].tries \in Nat
      BY ONLY <1>3 DEF ReqType
    <3>3. \A d \in Drafts, n \in Nat :
            LET x == [NullReq EXCEPT !.pc = "retry", !.d = d, !.tries = n, !.reply = "saved"]
            IN  x \in ReqType /\ x.pc = "retry" /\ x.d = d
      BY ONLY <3>1 DEF ReqType
    <3> QED BY ONLY <1>3, <3>2, <3>3
  <2>2. req' = [req EXCEPT ![r] = q]
    BY <1>5 DEF Step
  <2> HIDE DEF q
  <2>3. req'[r] = q
    BY <2>1, <2>2, OthersReq, InvParts
  <2>4. ReqOK(r)'
    BY <1>1, <1>3, <2>1, <2>3 DEF ReqOK, InHandPcs, SyncPcs
  <2> QED BY <1>1, <1>2, <2>1, <2>2, <2>4, QuietStep
<1> QED BY <1>4, <1>5 DEF Schedule

-------------------------------------------------------------------------------
(***************************************************************************)
(* The invariant is inductive: time, crashes, and the theorem.             *)
(***************************************************************************)

LEMMA ExpireIs ==
  ASSUME Typed, NEW d \in Drafts, Expire(d)
  PROVE  /\ draft' \in [Drafts -> DraftType]
         /\ \A x \in Drafts \ {d} : draft'[x] = draft[x]
         /\ draft'[d].flow = draft[d].flow /\ draft'[d].status = draft[d].status
         /\ draft'[d].desc = draft[d].desc
         /\ \A x \in Drafts : Exists(x)' <=> Exists(x)
         /\ Exists(d)
         /\ UNCHANGED <<binding, staged, tokens, issues, report, subs, outbox, rows, lock, req>>
<1>1. draft \in [Drafts -> DraftType] /\ draft[d] \in DraftType
  BY DEF Typed
<1>2. /\ [draft[d] EXCEPT !.late = TRUE] \in DraftType
      /\ [draft[d] EXCEPT !.late = TRUE].flow = draft[d].flow
      /\ [draft[d] EXCEPT !.late = TRUE].status = draft[d].status
      /\ [draft[d] EXCEPT !.late = TRUE].desc = draft[d].desc
  BY ONLY <1>1 DEF DraftType
<1>3. draft' = [draft EXCEPT ![d] = [draft[d] EXCEPT !.late = TRUE]]
  BY DEF Expire
<1>4. /\ draft' \in [Drafts -> DraftType]
      /\ \A x \in Drafts \ {d} : draft'[x] = draft[x]
      /\ draft'[d].flow = draft[d].flow /\ draft'[d].status = draft[d].status
      /\ draft'[d].desc = draft[d].desc
  BY ONLY <1>1, <1>2, <1>3, d \in Drafts
<1>5. \A x \in Drafts : draft'[x].status = draft[x].status
  BY <1>4
<1> QED BY <1>4, <1>5 DEF Expire, Exists

LEMMA ExpireInv ==
  ASSUME IInv, NEW d \in Drafts, Expire(d)
  PROVE  IInv'
<1>1. Typed /\ InOrder /\ BoundExists /\ RowsOK /\ \A x \in Drafts : DraftOK(x)
  BY InvParts
<1>2. /\ draft' \in [Drafts -> DraftType]
      /\ \A x \in Drafts \ {d} : draft'[x] = draft[x]
      /\ draft'[d].flow = draft[d].flow /\ draft'[d].status = draft[d].status
      /\ \A x \in Drafts : Exists(x)' <=> Exists(x)
      /\ Exists(d)
      /\ UNCHANGED <<binding, staged, tokens, issues, report, subs, outbox, rows, lock, req>>
  BY <1>1, ExpireIs
<1>3. Typed'
  <2>1. faults' = faults /\ lates' \in 0..MaxLate
    <3>1. lates \in 0..MaxLate /\ MaxLate \in Nat
      BY <1>1, BugReportAssumption DEF Typed
    <3> QED BY <3>1 DEF Expire
  <2> QED BY <1>1, <1>2, <2>1 DEF Typed
<1>4. InOrder'
  <2>1. PICK n \in 0..MaxDrafts : \A x \in Drafts : Exists(x) <=> x <= n
    BY <1>1 DEF InOrder
  <2> QED BY <1>2, <2>1 DEF InOrder
<1>5. BoundExists'
  <2>1. binding \in [Keys -> Drafts \cup {NoDraft}]
    BY <1>1 DEF Typed
  <2> QED BY <1>1, <1>2, <2>1 DEF BoundExists
<1>6. ASSUME NEW x \in Drafts PROVE DraftOK(x)'
  <2>1. CASE x = d
    <3>1. DraftOK(d) /\ Exists(d) /\ Exists(d)'
      BY <1>1, <1>2
    <3> QED BY <1>2, <2>1, <3>1 DEF DraftOK
  <2>2. CASE x # d
    <3>1. DraftOK(x) /\ draft'[x] = draft[x] /\ (Exists(x)' <=> Exists(x))
      BY <1>1, <1>2, <2>2
    <3>2. UNCHANGED <<issues, report, outbox>>
      BY <1>2
    <3> QED BY <3>1, <3>2 DEF DraftOK
  <2> QED BY <2>1, <2>2
<1>7. RowsOK'
  BY <1>1, <1>2 DEF RowsOK, RowOK
<1>8. \A x \in Requests : ReqOK(x)'
  BY <1>2, InvParts DEF ReqOK, RowsOf
<1> QED BY <1>3, <1>4, <1>5, <1>6, <1>7, <1>8 DEF IInv

LEMMA CrashInv ==
  ASSUME IInv, NEW r \in Requests, Crash(r)
  PROVE  IInv'
<1>1. EndsNow(r)
  BY EndIs, InvParts DEF Crash
<1>2. PICK q \in ReqType : q.pc = "end" /\ req' = [req EXCEPT ![r] = q]
  BY <1>1 DEF EndsNow
<1>3. ReqOK(r)'
  BY <1>2, OthersReq, InvParts, EndOK
<1>4. /\ UNCHANGED <<draft, binding, issues, report, subs, outbox, rows>>
      /\ staged' \in [Drafts -> SUBSET Requests] /\ tokens' \in [Drafts -> SUBSET Requests]
      /\ lates' \in 0..MaxLate
  BY InvParts DEF Crash, tables, Typed
<1>5. faults' \in 0..MaxFaults
  BY FaultBound, InvParts DEF Crash
<1>6. lock \in [Drafts -> Requests \cup {NoReq}]
      /\ lock' = [d \in Drafts |-> IF lock[d] = r THEN NoReq ELSE lock[d]]
  BY InvParts DEF Crash, Typed
<1>7. lock' \in [Drafts -> Requests \cup {NoReq}]
  BY <1>6
<1>8. \A x \in Requests \ {r} : req[x].pc \in SyncPcs => lock'[req[x].d] = lock[req[x].d]
  BY <1>6, SyncIs
<1> QED BY <1>2, <1>3, <1>4, <1>5, <1>7, <1>8, LockStep

LEMMA InitInv ==
  ASSUME Init
  PROVE  IInv
<1>1. \A d \in Drafts : draft[d] = NullDraft /\ draft[d].status = "" /\ draft[d].flow = ""
  BY DEF Init, NullDraft
<1>2. \A d \in Drafts : ~Exists(d) /\ outbox[d] = "none" /\ report[d].status = ""
  BY <1>1 DEF Exists, Init, NullReport
<1>3. MaxFaults \in Nat /\ MaxLate \in Nat /\ ForeignRows \in Nat /\ MaxDrafts \in Nat
  BY BugReportAssumption
<1> DEFINE row == [draft |-> NoDraft, desc |-> {}, images |-> {}]
<1>4. row \in RowType /\ row.draft = NoDraft
  BY DEF RowType
<1>5. rows = [n \in 1..ForeignRows |-> row]
  BY DEF Init
<1> HIDE DEF row
<1>6. rows \in Seq(RowType) /\ Len(rows) = ForeignRows /\ DOMAIN rows = 1..ForeignRows
      /\ \A n \in 1..ForeignRows : rows[n] = row
  BY ONLY <1>3, <1>4, <1>5
<1>7. Typed
  <2>1. /\ draft \in [Drafts -> DraftType] /\ report \in [Drafts -> ReportType]
        /\ req \in [Requests -> ReqType]
    BY NullTypes DEF Init
  <2>2. faults \in 0..MaxFaults /\ lates \in 0..MaxLate
    BY <1>3 DEF Init
  <2>3. issues \in Seq(IssueType)
    BY DEF Init
  <2>4. /\ binding = [k \in Keys |-> NoDraft]
        /\ staged = [d \in Drafts |-> {}] /\ tokens = [d \in Drafts |-> {}]
        /\ outbox = [d \in Drafts |-> "none"] /\ lock = [d \in Drafts |-> NoReq]
    BY DEF Init
  <2>5. /\ staged \in [Drafts -> SUBSET Requests] /\ tokens \in [Drafts -> SUBSET Requests]
        /\ binding \in [Keys -> Drafts \cup {NoDraft}]
    BY ONLY <2>4
  <2>6. /\ outbox \in [Drafts -> {"none", "processing", "pending", "succeeded"}]
        /\ lock \in [Drafts -> Requests \cup {NoReq}]
    BY ONLY <2>4
  <2>7. subs \subseteq (Nat \X Identities)
    BY DEF Init
  <2> QED BY <1>6, <2>1, <2>2, <2>3, <2>5, <2>6, <2>7 DEF Typed
<1>8. InOrder
  <2>1. \A d \in Drafts : ~(d <= 0)
    BY ONLY <1>3 DEF Drafts
  <2>2. \A d \in Drafts : Exists(d) <=> d <= 0
    BY <1>2, <2>1
  <2> QED BY <1>3, <2>2 DEF InOrder
<1>9. BoundExists
  BY DEF Init, BoundExists
<1>10. \A d \in Drafts : DraftOK(d)
  BY <1>1, <1>2 DEF DraftOK
<1>11. RowsOK
  <2>1. \A n \in DOMAIN rows : rows[n].draft = NoDraft /\ n <= ForeignRows
    BY <1>3, <1>4, <1>6
  <2> QED BY <1>3, <1>6, <2>1 DEF RowsOK, RowOK
<1>12. \A r \in Requests : ReqOK(r)
  <2>1. NullReq.pc = "idle"
    BY DEF NullReq
  <2> QED BY <2>1 DEF Init, ReqOK, InHandPcs, SyncPcs
<1> QED BY <1>7, <1>8, <1>9, <1>10, <1>11, <1>12 DEF IInv

LEMMA StutterInv ==
  ASSUME IInv, UNCHANGED vars
  PROVE  IInv'
<1>1. UNCHANGED <<draft, binding, staged, tokens, issues, report, subs, outbox, rows, lock,
                  req, faults, lates>>
  BY DEF vars
<1>2. Typed' /\ InOrder' /\ BoundExists' /\ RowsOK'
  BY <1>1, InvParts DEF Typed, InOrder, BoundExists, Exists, RowsOK, RowOK
<1>3. \A d \in Drafts : DraftOK(d)'
  BY <1>1, InvParts DEF DraftOK, Exists
<1>4. \A r \in Requests : ReqOK(r)'
  BY <1>1, InvParts DEF ReqOK, RowsOf
<1> QED BY <1>2, <1>3, <1>4 DEF IInv

LEMMA NextInv ==
  ASSUME IInv, Next
  PROVE  IInv'
<1>1. ASSUME NEW r \in Requests, Handle(r) PROVE IInv'
  <2>1. req[r].pc = "handle"
    BY <1>1 DEF Handle, Collect, Missing, ConfirmMatch, RejectMatch, ConfirmSubmit, Suspend,
                Resume, Cancel, HandlingDraft, Handling
  <2> QED BY <1>1, <2>1, HandleOutcome, OutcomeInv
<1>2. ASSUME NEW r \in Requests, Synchronise(r) PROVE IInv'
  BY <1>2, SyncBeginInv, UploadInv, LookupInv, WriteInv, CommitInv, ScheduleInv DEF Synchronise
<1>3. ASSUME NEW r \in Requests, Arrive(r) \/ Progress(r) \/ Crash(r) PROVE IInv'
  BY <1>1, <1>2, <1>3, ArriveInv, ReadStateInv, AttachFirstInv, AttachAfterInv, CrashInv DEF Progress
<1> QED BY <1>3, ExpireInv DEF Next

LEMMA InvHolds == Spec => []IInv
<1>1. Init => IInv
  BY InitInv
<1>2. IInv /\ [Next]_vars => IInv'
  BY NextInv, StutterInv
<1> QED BY <1>1, <1>2, PTL DEF Spec

\* Every table and request keeps its type, and a synchronisation holds the row lock of
\* its draft from its first to its last step, so that no two of them work on one draft.
THEOREM TypeCorrectness == Spec => []TypeOK
<1>1. IInv => TypeOK
  <2> SUFFICES ASSUME IInv PROVE TypeOK
    OBVIOUS
  <2>1. Typed /\ \A r \in Requests : req[r] \in ReqType /\ ReqOK(r)
    BY InvParts
  <2>2. \A r \in Requests : req[r].pc \in Pcs
    <3> TAKE r \in Requests
    <3>1. req[r] \in ReqType
      BY <2>1
    <3> QED BY ONLY <3>1 DEF ReqType
  <2>3. \A r \in Requests : req[r].pc \in SyncPcs => req[r].d \in Drafts /\ lock[req[r].d] = r
    BY SyncIs
  <2> QED BY <2>1, <2>2, <2>3 DEF TypeOK, Typed, Pcs, DraftType, IssueType, ReportType, RowType
<1> QED BY <1>1, InvHolds, PTL

-------------------------------------------------------------------------------
(***************************************************************************)
(* BugReport implements Submission.                                        *)
(***************************************************************************)

\* A table in which the rows of the drafts follow those entered by hand, one row of a
\* draft at most, is no longer than both together.
LEMMA TableBound ==
  ASSUME NEW s \in Seq(RowType), Len(s) >= ForeignRows,
         \A n \in DOMAIN s : /\ s[n].draft = NoDraft <=> n <= ForeignRows
                             /\ s[n].draft # NoDraft =>
                                  \A m \in DOMAIN s : s[m].draft = s[n].draft => m = n
  PROVE  Len(s) <= ForeignRows + MaxDrafts
<1>1. ForeignRows \in Nat /\ MaxDrafts \in Nat /\ Len(s) \in Nat
  <2>1. Len(s) \in Nat
    BY ONLY s \in Seq(RowType)
  <2> QED BY <2>1, BugReportAssumption
<1> DEFINE S == (ForeignRows + 1)..Len(s)
           f == [n \in S |-> s[n].draft]
<1>2. \A n \in S : n \in DOMAIN s /\ ~(n <= ForeignRows)
  BY <1>1
<1>3. \A n \in S : s[n].draft \in Drafts
  <2>1. \A n \in S : s[n] \in RowType
    BY <1>2
  <2>2. \A n \in S : s[n].draft \in Drafts \cup {NoDraft}
    BY ONLY <2>1 DEF RowType
  <2>3. \A n \in S : s[n].draft # NoDraft
    BY <1>2
  <2> QED BY ONLY <2>2, <2>3
<1>4. f \in Injection(S, Drafts)
  <2>1. \A a, b \in S : s[a].draft = s[b].draft => a = b
    BY <1>2
  <2>2. f \in [S -> Drafts]
    BY ONLY <1>3
  <2>3. IsInjective(f)
    BY ONLY <2>1 DEF IsInjective
  <2> HIDE DEF f, S
  <2> QED BY ONLY <2>2, <2>3 DEF Injection
<1>5. IsFiniteSet(Drafts) /\ Cardinality(Drafts) = MaxDrafts
  <2>1. 1 \in Int /\ MaxDrafts \in Int
    BY ONLY <1>1
  <2>2. /\ IsFiniteSet(1..MaxDrafts)
        /\ Cardinality(1..MaxDrafts) = IF 1 > MaxDrafts THEN 0 ELSE MaxDrafts - 1 + 1
    BY ONLY <2>1, FS_Interval
  <2>3. (IF 1 > MaxDrafts THEN 0 ELSE MaxDrafts - 1 + 1) = MaxDrafts
    BY ONLY <1>1
  <2> QED BY <2>2, <2>3 DEF Drafts
<1>6. Cardinality(S) <= MaxDrafts
  <2> HIDE DEF f, S
  <2>1. Cardinality(S) <= Cardinality(Drafts)
    BY ONLY <1>4, <1>5, FS_Injection
  <2> QED BY <1>5, <2>1
<1>7. CASE ForeignRows + 1 > Len(s)
  BY ONLY <1>1, <1>7
<1>8. CASE ~(ForeignRows + 1 > Len(s))
  <2>1. Cardinality(S) = Len(s) - (ForeignRows + 1) + 1
    BY <1>1, <1>8, FS_Interval
  <2> HIDE DEF S
  <2> QED BY ONLY <1>1, <1>6, <2>1
<1> QED BY <1>7, <1>8

\* What Submission sees when nothing it sees changes.
LEMMA Unseen ==
  ASSUME \A d \in Drafts : Phase(d)' = Phase(d) /\ RowsOf(d)' = RowsOf(d)
  PROVE  UNCHANGED Promise!vars
BY DEF Promise!vars

LEMMA UnseenTables ==
  ASSUME UNCHANGED <<outbox, report, rows>>
  PROVE  UNCHANGED Promise!vars
<1>1. \A d \in Drafts : Phase(d)' = Phase(d) /\ RowsOf(d)' = RowsOf(d)
  BY DEF Phase, RowsOf
<1> QED BY <1>1, Unseen

\* What Submission sees when the phase of one draft changes.
LEMMA SeenMove ==
  ASSUME NEW d \in Drafts, NEW to, Phase(d)' = to,
         \A x \in Drafts \ {d} : Phase(x)' = Phase(x),
         \A x \in Drafts : RowsOf(x)' = RowsOf(x)
  PROVE  Promise!Move(d, Phase(d), to) /\ UNCHANGED [x \in Drafts |-> RowsOf(x)]
<1>1. [x \in Drafts |-> Phase(x)]' = [[x \in Drafts |-> Phase(x)] EXCEPT ![d] = to]
  OBVIOUS
<1>2. [x \in Drafts |-> Phase(x)][d] = Phase(d)
  OBVIOUS
<1>3. UNCHANGED [x \in Drafts |-> RowsOf(x)]
  OBVIOUS
<1> QED BY <1>1, <1>2, <1>3 DEF Promise!Move

\* A decision links the report, queues it, or is not seen.
LEMMA OutcomeSeen ==
  ASSUME IInv, NEW r \in Requests, Outcome(r)
  PROVE  [Promise!Next]_Promise!vars
<1>1. \A x \in Drafts : RowsOf(x)' = RowsOf(x)
  BY DEF Outcome, RowsOf
<1>2. CASE UNCHANGED tables
  BY <1>2, UnseenTables DEF Outcome, tables
<1>3. ASSUME NEW d \in Drafts, Kept(d) \/ Worked(d) \/ Linked(r, d) \/ Queued(r, d)
      PROVE  [Promise!Next]_Promise!vars
  <2>1. /\ report \in [Drafts -> ReportType] /\ DraftOK(d)
        /\ outbox \in [Drafts -> {"none", "processing", "pending", "succeeded"}]
    BY InvParts DEF Typed
  <2>2. CASE Kept(d) \/ Worked(d)
    <3>1. UNCHANGED <<outbox, report, rows>>
      BY <2>2 DEF Kept, Worked, Outcome
    <3> QED BY <3>1, UnseenTables
  <2>3. CASE Linked(r, d)
    <3>1. /\ outbox' = outbox /\ report'[d].status = "linked_existing"
          /\ \A x \in Drafts \ {d} : report'[x] = report[x]
      BY <2>1, <2>3 DEF Linked
    <3>2. \A x \in Drafts \ {d} : Phase(x)' = Phase(x)
      BY <3>1 DEF Phase
    <3>3. CASE outbox[d] # "none"
      <4>1. Phase(d)' = Phase(d)
        BY <2>1, <3>1, <3>3 DEF Phase
      <4> QED BY <1>1, <3>2, <4>1, Unseen
    <3>4. CASE outbox[d] = "none"
      <4>1. report[d].status = ""
        BY <2>1, <2>3, <3>4 DEF DraftOK, Linked
      <4>2. Phase(d) = "open" /\ Phase(d)' = "linked"
        BY <3>1, <3>4, <4>1 DEF Phase
      <4>3. Promise!Link(d)
        BY <1>1, <3>2, <4>2, SeenMove DEF Promise!Link
      <4> QED BY <4>3 DEF Promise!Next
    <3> QED BY <3>3, <3>4
  <2>4. CASE Queued(r, d)
    <3>1. /\ outbox'[d] = "processing"
          /\ \A x \in Drafts \ {d} : report'[x] = report[x] /\ outbox'[x] = outbox[x]
      BY <2>1, <2>4 DEF Queued
    <3>2. \A x \in Drafts \ {d} : Phase(x)' = Phase(x)
      BY <3>1 DEF Phase
    <3>3. outbox[d] # "succeeded"
      BY <2>1, <2>4 DEF DraftOK, Queued
    <3>4. Phase(d)' = "queued"
      BY <3>1 DEF Phase
    <3>5. CASE outbox[d] # "none"
      <4>1. Phase(d) = "queued"
        BY <2>1, <3>3, <3>5 DEF Phase
      <4> QED BY <1>1, <3>2, <3>4, <4>1, Unseen
    <3>6. CASE outbox[d] = "none"
      <4>1. report[d].status = ""
        BY <2>1, <2>4, <3>6 DEF DraftOK, Queued
      <4>2. Phase(d) = "open"
        BY <3>6, <4>1 DEF Phase
      <4>3. Promise!Queue(d)
        BY <1>1, <3>2, <3>4, <4>2, SeenMove DEF Promise!Queue
      <4> QED BY <4>3 DEF Promise!Next
    <3> QED BY <3>5, <3>6
  <2> QED BY <1>3, <2>2, <2>3, <2>4
<1> QED BY <1>2, <1>3 DEF Outcome

\* A failure to synchronise leaves the report queued.
LEMMA FailsSeen ==
  ASSUME IInv, NEW r \in Requests, req[r].pc \in SyncPcs, SyncFails(r)
  PROVE  \A x \in Drafts : Phase(x)' = Phase(x)
<1>1. req[r].d \in Drafts /\ outbox[req[r].d] \in {"processing", "pending"}
  BY SyncIs
<1>2. outbox \in [Drafts -> {"none", "processing", "pending", "succeeded"}]
  BY InvParts DEF Typed
<1>3. outbox' = [outbox EXCEPT ![req[r].d] = "pending"] /\ report' = report
  BY DEF SyncFails
<1>4. \A x \in Drafts : x # req[r].d => outbox'[x] = outbox[x]
  BY ONLY <1>2, <1>3
<1>5. outbox'[req[r].d] = "pending"
  BY ONLY <1>1, <1>2, <1>3
<1> SUFFICES ASSUME NEW x \in Drafts PROVE Phase(x)' = Phase(x)
  OBVIOUS
<1>6. CASE x = req[r].d
  BY <1>1, <1>5, <1>6 DEF Phase
<1>7. CASE x # req[r].d
  BY <1>3, <1>4, <1>7 DEF Phase
<1> QED BY <1>6, <1>7

LEMMA WriteSeen ==
  ASSUME IInv, IInv', NEW r \in Requests, Write(r)
  PROVE  [Promise!Next]_Promise!vars
<1>1. req[r].pc = "write" /\ req[r].pc \in SyncPcs
  BY DEF Write, SyncPcs
<1>2. PICK d \in Drafts : d = req[r].d
  BY <1>1, SyncIs
<1>3. Phase(d) = "queued"
  <2>1. outbox[d] \in {"processing", "pending"}
    BY <1>1, <1>2, SyncIs
  <2> QED BY <2>1 DEF Phase
<1>4. \A x \in Drafts : Phase(x)' = Phase(x)
  <2>1. CASE SyncFails(r)
    BY <1>1, <2>1, FailsSeen
  <2>2. CASE UNCHANGED tables
    BY <2>2 DEF tables, Phase
  <2> QED BY <2>1, <2>2 DEF Write
<1>5. CASE rows' = rows
  BY <1>4, <1>5, Unseen DEF RowsOf
<1>6. CASE rows' = WrittenBy(r)
  <2> DEFINE n == IF req[r].row = NoRow THEN Len(rows) + 1 ELSE req[r].row
             row == [draft |-> req[r].d, desc |-> draft[req[r].d].desc, images |-> req[r].toks]
  <2>1. /\ rows' \in Seq(RowType)
        /\ n \in DOMAIN rows' /\ n \in Nat /\ rows'[n] = row
        /\ \A m \in DOMAIN rows' \ {n} : m \in DOMAIN rows /\ rows'[m] = rows[m]
                                          /\ rows'[m].draft # d
        /\ DOMAIN rows \subseteq DOMAIN rows'
        /\ n \in DOMAIN rows => rows[n].draft = d
    BY <1>1, <1>2, <1>6, WriteIs
  <2>2. row.draft = d
    BY <1>2
  <2>3. IF req[r].row = NoRow THEN RowsOf(d) = {} ELSE req[r].row \in RowsOf(d)
    BY <1>1, <1>2, InvParts DEF ReqOK
  <2>4. n \in 1..(ForeignRows + MaxDrafts)
    <3>1. /\ Len(rows') >= ForeignRows
          /\ \A m \in DOMAIN rows' :
               /\ rows'[m].draft = NoDraft <=> m <= ForeignRows
               /\ rows'[m].draft # NoDraft =>
                    \A l \in DOMAIN rows' : rows'[l].draft = rows'[m].draft => l = m
      BY DEF IInv, RowsOK, RowOK
    <3>2. Len(rows') <= ForeignRows + MaxDrafts
      <4>1. rows' \in Seq(RowType)
        BY <2>1
      <4> QED BY ONLY <3>1, <4>1, TableBound
    <3>3. ForeignRows \in Nat /\ MaxDrafts \in Nat /\ Len(rows') \in Nat
          /\ n <= Len(rows') /\ 1 <= n /\ n \in Nat
      <4>1. rows' \in Seq(RowType) /\ n \in DOMAIN rows'
        BY <2>1
      <4> HIDE DEF n
      <4>2. Len(rows') \in Nat /\ n <= Len(rows') /\ 1 <= n /\ n \in Nat
        BY ONLY <4>1
      <4> QED BY <4>2, BugReportAssumption
    <3> HIDE DEF n
    <3> QED BY ONLY <3>2, <3>3
  <2> HIDE DEF row
  <2>5. n \notin DOMAIN rows => req[r].row = NoRow
    BY <2>3 DEF RowsOf
  <2> HIDE DEF n
  <2>6. \A x \in Drafts \ {d} : RowsOf(x)' = RowsOf(x)
    BY <2>1, <2>2 DEF RowsOf
  <2>7. RowsOf(d)' = {n}
    BY <2>1, <2>2 DEF RowsOf
  <2>8. CASE n \in DOMAIN rows
    <3>1. RowsOf(d) = {n}
      BY <2>1, <2>8 DEF RowsOf
    <3> QED BY <1>4, <2>6, <2>7, <3>1, Unseen
  <2>9. CASE n \notin DOMAIN rows
    <3>1. RowsOf(d) = {}
      BY <2>3, <2>5, <2>9
    <3>2. \A e \in Drafts : n \notin RowsOf(e)
      BY <2>9 DEF RowsOf
    <3>3. /\ [x \in Drafts |-> RowsOf(x)]' = [[x \in Drafts |-> RowsOf(x)] EXCEPT ![d] = {n}]
          /\ UNCHANGED [x \in Drafts |-> Phase(x)]
      BY <1>4, <2>6, <2>7
    <3>4. Promise!Insert(d, n)
      BY <1>3, <3>1, <3>2, <3>3 DEF Promise!Insert
    <3> QED BY <2>4, <3>4 DEF Promise!Next
  <2> QED BY <2>8, <2>9
<1> QED BY <1>5, <1>6 DEF Write, WrittenBy

LEMMA CommitSeen ==
  ASSUME IInv, NEW r \in Requests, Commit(r)
  PROVE  [Promise!Next]_Promise!vars
<1>1. req[r].pc = "commit" /\ req[r].pc \in SyncPcs /\ rows' = rows
  BY DEF Commit, SyncPcs
<1>2. PICK d \in Drafts : d = req[r].d
  BY <1>1, SyncIs
<1>3. /\ req[r] \in ReqType /\ req[r].toks \in SUBSET Requests
      /\ outbox[d] \in {"processing", "pending"}
  BY <1>1, <1>2, SyncIs
<1>4. CASE UNCHANGED tables
  BY <1>1, <1>4, UnseenTables DEF tables
<1>5. CASE Recorded(req[r].d, req[r].row, req[r].toks)
  <2>1. req[r].row \in Nat
    BY ONLY <1>3 DEF ReqType
  <2>2. /\ outbox'[d] = "succeeded"
        /\ \A x \in Drafts \ {d} : report'[x] = report[x] /\ outbox'[x] = outbox[x]
    BY <1>2, <1>3, <1>5, <2>1, RecordedTypes
  <2>3. /\ Phase(d) = "queued" /\ Phase(d)' = "recorded"
        /\ \A x \in Drafts \ {d} : Phase(x)' = Phase(x)
    BY <1>3, <2>2 DEF Phase
  <2>4. \A x \in Drafts : RowsOf(x)' = RowsOf(x)
    BY <1>1 DEF RowsOf
  <2>5. req[r].row \in RowsOf(d)
    BY <1>1, <1>2, InvParts DEF ReqOK
  <2>6. Promise!Record(d)
    BY <2>3, <2>4, <2>5, SeenMove DEF Promise!Record
  <2> QED BY <2>6 DEF Promise!Next
<1> QED BY <1>4, <1>5 DEF Commit

\* A report becomes at most one row of the Feishu table, whatever is lost, retried or
\* run twice, and is recorded only after its row exists.
THEOREM ImplementsSubmissionHolds == Spec => ImplementsSubmission
<1>1. Init => Promise!Init
  <2> SUFFICES ASSUME Init PROVE Promise!Init
    OBVIOUS
  <2>1. \A d \in Drafts : Phase(d) = "open"
    BY DEF Init, Phase, NullReport
  <2>2. \A d \in Drafts : RowsOf(d) = {}
    <3>1. rows = [n \in 1..ForeignRows |-> [draft |-> NoDraft, desc |-> {}, images |-> {}]]
      BY DEF Init
    <3>2. \A n \in DOMAIN rows : rows[n].draft = NoDraft
      BY ONLY <3>1
    <3> QED BY <3>2 DEF RowsOf, Drafts, NoDraft
  <2> QED BY <2>1, <2>2 DEF Promise!Init
<1>2. IInv /\ IInv' /\ [Next]_vars => [Promise!Next]_Promise!vars
  <2> SUFFICES ASSUME IInv, IInv', [Next]_vars PROVE [Promise!Next]_Promise!vars
    OBVIOUS
  <2>1. ASSUME NEW r \in Requests, Handle(r) PROVE [Promise!Next]_Promise!vars
    BY <2>1, HandleOutcome, OutcomeSeen
  <2>2. ASSUME NEW r \in Requests, Upload(r) \/ Lookup(r) PROVE [Promise!Next]_Promise!vars
    <3>1. rows' = rows /\ req[r].pc \in SyncPcs
      BY <2>2 DEF Upload, Lookup, SyncPcs
    <3>2. CASE SyncFails(r)
      BY <3>1, <3>2, FailsSeen, Unseen DEF RowsOf
    <3>3. CASE UNCHANGED tables
      BY <3>1, <3>3, UnseenTables DEF tables
    <3> QED BY <2>2, <3>2, <3>3 DEF Upload, Lookup
  <2>3. ASSUME NEW r \in Requests,
               Arrive(r) \/ ReadState(r) \/ AttachFirst(r) \/ AttachAfter(r) \/ SyncBegin(r)
               \/ Schedule(r) \/ Crash(r)
        PROVE  [Promise!Next]_Promise!vars
    <3>1. UNCHANGED <<outbox, report, rows>>
      BY <2>3 DEF Arrive, ReadState, AttachFirst, AttachAfter, SyncBegin, Schedule, Crash, tables
    <3> QED BY <3>1, UnseenTables
  <2>4. ASSUME NEW d \in Drafts, Expire(d) PROVE [Promise!Next]_Promise!vars
    BY <2>4, UnseenTables DEF Expire
  <2>5. CASE UNCHANGED vars
    BY <2>5, UnseenTables DEF vars
  <2> QED BY <2>1, <2>2, <2>3, <2>4, <2>5, WriteSeen, CommitSeen DEF Next, Progress, Synchronise
<1> QED BY <1>1, <1>2, InvHolds, PTL DEF Spec, Promise!Spec, ImplementsSubmission

-------------------------------------------------------------------------------
(***************************************************************************)
(* Where every user has one session and names no draft: bindings.          *)
(***************************************************************************)

LEMMA OneSessionParts ==
  ASSUME OneSessionEach
  PROVE  /\ \A i \in Identities : KeySet(i) # {}
         /\ \A i, j \in Identities : KeySet(i) = KeySet(j) \/ KeySet(i) \cap KeySet(j) = {}
         /\ \A x \in Inputs : x.draft = NoDraft
         /\ \A k \in Keys : \E i \in Identities : k \in KeySet(i)
<1>1. ASSUME NEW i \in Identities PROVE KeySet(i) # {}
  <2>1. KeysOf[i] \in Seq(Keys) /\ KeysOf[i] # <<>>
    BY BugReportAssumption DEF OneSessionEach
  <2>2. 1 \in DOMAIN KeysOf[i]
    BY ONLY <2>1
  <2> QED BY <2>2 DEF KeySet
<1>2. \A k \in Keys : \E i \in Identities : k \in KeySet(i)
  BY DEF Keys, KeySet
<1> QED BY <1>1, <1>2 DEF OneSessionEach

\* The draft a decision starts from is the one that all keys of the user, and no other
\* keys, are bound to.
LEMMA SourceBound ==
  ASSUME OneSessionEach, IInv, OwnBinding, NEW r \in Requests, req[r].pc = "handle"
  PROVE  /\ req[r].who \in Identities
         /\ Source(r) \in Drafts \cup {NoDraft}
         /\ \A k \in KeySet(req[r].who) : binding[k] = Source(r)
         /\ Source(r) # NoDraft => \A k \in Keys : binding[k] = Source(r) => k \in KeySet(req[r].who)
<1>1. req[r].who \in Identities /\ req[r].in \in Inputs
  BY InvParts DEF ReqOK
<1>2. binding \in [Keys -> Drafts \cup {NoDraft}]
  BY InvParts DEF Typed
<1>3. Source(r) = Bound(req[r].who)
  <2>1. req[r].in.draft = NoDraft
    BY <1>1, OneSessionParts
  <2> QED BY <2>1 DEF Source, Target, Resolve
<1> HIDE DEF Source
<1>4. /\ Source(r) \in Drafts \cup {NoDraft}
      /\ Source(r) # NoDraft => \E k \in KeySet(req[r].who) : binding[k] = Source(r)
      /\ Source(r) = NoDraft => \A k \in KeySet(req[r].who) : binding[k] = NoDraft
  BY <1>1, <1>2, <1>3, BoundIs
<1>5. \A k \in KeySet(req[r].who) : binding[k] = Source(r)
  BY <1>1, <1>4 DEF OwnBinding
<1>6. ASSUME Source(r) # NoDraft, NEW k \in Keys, binding[k] = Source(r)
      PROVE  k \in KeySet(req[r].who)
  <2>1. PICK j \in Identities : k \in KeySet(j)
    BY OneSessionParts
  <2>2. PICK l \in KeySet(req[r].who) : binding[l] = Source(r)
    BY <1>4, <1>6
  <2>3. KeySet(j) = KeySet(req[r].who)
    BY <1>1, <1>6, <2>1, <2>2 DEF OwnBinding
  <2> QED BY <2>1, <2>3
<1> QED BY <1>1, <1>4, <1>5, <1>6

\* After a decision the keys of the user, and no other keys, are bound to its draft.
LEMMA TakenBinding ==
  ASSUME OneSessionEach, IInv, OwnBinding, NEW r \in Requests, req[r].pc = "handle",
         NEW d \in Drafts, Taken(r, d)
  PROVE  /\ OwnBinding'
         /\ Reached(d)'
         /\ Exists(d) => Reached(d)
         /\ \A x \in Drafts \ {d} : Reached(x)' <=> Reached(x) /\ x # Source(r)
<1> DEFINE own == KeySet(req[r].who)
<1>1. /\ req[r].who \in Identities /\ own \subseteq Keys /\ own # {}
      /\ Source(r) \in Drafts \cup {NoDraft}
      /\ \A k \in own : binding[k] = Source(r)
      /\ Source(r) # NoDraft => \A k \in Keys : binding[k] = Source(r) => k \in own
  BY SourceBound, KeysTyped, OneSessionParts
<1>2. /\ binding \in [Keys -> Drafts \cup {NoDraft}] /\ BoundExists
  BY InvParts DEF Typed
<1>3. d # NoDraft
  BY DEF Drafts, NoDraft
<1>4. Exists(d) => d = Source(r)
  BY DEF Taken
<1>5. /\ \A k \in own : binding'[k] = d
      /\ \A k \in Keys \ own : binding'[k] = binding[k]
  <2>1. CASE binding' = Upserted(req[r].who, d)
    <3>1. \A k \in Keys : binding'[k] = IF k \in own THEN d ELSE binding[k]
      BY <2>1 DEF Upserted, KeySet
    <3> HIDE DEF own
    <3> QED BY ONLY <1>1, <3>1
  <2>2. CASE binding' = binding /\ Exists(d)
    BY <1>1, <1>4, <2>2
  <2> QED BY <2>1, <2>2 DEF Taken
<1>6. \A k \in Keys \ own : binding[k] # d
  BY <1>1, <1>2, <1>3, <1>4 DEF BoundExists
<1>7. \A i \in Identities : KeySet(i) \subseteq Keys /\ (KeySet(i) = own \/ KeySet(i) \cap own = {})
  BY <1>1, KeysTyped, OneSessionParts
<1> HIDE DEF own
<1>8. ASSUME NEW i \in Identities, NEW k \in KeySet(i), NEW l \in KeySet(i)
      PROVE  binding'[k] = binding'[l]
  <2>1. CASE KeySet(i) = own
    BY <1>5, <2>1
  <2>2. CASE KeySet(i) \cap own = {}
    <3>1. k \in Keys \ own /\ l \in Keys \ own
      BY <1>7, <2>2
    <3>2. binding[k] = binding[l]
      BY DEF OwnBinding
    <3> QED BY <1>5, <3>1, <3>2
  <2> QED BY <1>7, <2>1, <2>2
<1>9. ASSUME NEW i \in Identities, NEW j \in Identities, NEW k \in KeySet(i), NEW l \in KeySet(j),
             binding'[k] = binding'[l], binding'[k] # NoDraft
      PROVE  KeySet(i) = KeySet(j)
  <2>1. k \in Keys /\ l \in Keys
    BY <1>7
  <2>2. CASE k \in own /\ l \in own
    BY <1>7, <2>2
  <2>3. CASE k \notin own /\ l \notin own
    BY <1>5, <1>9, <2>1, <2>3 DEF OwnBinding
  <2>4. k \in own <=> l \in own
    BY <1>5, <1>6, <1>9, <2>1
  <2> QED BY <2>2, <2>3, <2>4
<1>10. OwnBinding'
  <2>1. \A i \in Identities : KeySet(i)' = KeySet(i)
    BY DEF KeySet
  <2> QED BY <1>8, <1>9 DEF OwnBinding
<1>11. Reached(d)' /\ (Exists(d) => Reached(d))
  <2>1. PICK k \in own : k \in Keys
    BY <1>1
  <2> QED BY <1>1, <1>4, <1>5, <2>1 DEF Reached
<1>12. ASSUME NEW x \in Drafts \ {d} PROVE Reached(x)' <=> Reached(x) /\ x # Source(r)
  <2>1. x # NoDraft
    BY DEF Drafts, NoDraft
  <2>2. Reached(x)' => Reached(x) /\ x # Source(r)
    <3> SUFFICES ASSUME NEW k \in Keys, binding'[k] = x PROVE Reached(x) /\ x # Source(r)
      BY DEF Reached
    <3>1. k \notin own /\ binding[k] = x
      BY <1>5
    <3> QED BY <1>1, <2>1, <3>1 DEF Reached
  <2>3. Reached(x) /\ x # Source(r) => Reached(x)'
    <3> SUFFICES ASSUME NEW k \in Keys, binding[k] = x, x # Source(r) PROVE Reached(x)'
      BY DEF Reached
    <3>1. k \notin own
      BY <1>1
    <3> QED BY <1>5, <3>1 DEF Reached
  <2> QED BY <2>2, <2>3
<1> QED BY <1>10, <1>11, <1>12

-------------------------------------------------------------------------------
(***************************************************************************)
(* Where every user has one session: what is sent, step by step.           *)
(***************************************************************************)

LEMMA SParts ==
  ASSUME SInv
  PROVE  /\ OwnBinding /\ RecordedIsListed /\ OpenDraftIsBound
         /\ \A d \in Drafts : SentOK(d) /\ tokens[d] \subseteq staged[d]
         /\ \A r \in Requests : WroteOK(r)
BY DEF SInv

\* A request that is not synchronising claims nothing.
LEMMA NoClaim ==
  ASSUME NEW r \in Requests, req'[r].pc \notin SyncPcs
  PROVE  WroteOK(r)'
BY DEF WroteOK, SyncPcs

\* What the other synchronisations claim holds on when their drafts, images and rows
\* are left alone.
LEMMA OthersWrote ==
  ASSUME IInv, SInv, NEW r \in Requests, NEW q \in ReqType, req' = [req EXCEPT ![r] = q],
         \A x \in Requests \ {r} : req[x].pc \in SyncPcs =>
           /\ staged'[req[x].d] = staged[req[x].d]
           /\ draft'[req[x].d].desc = draft[req[x].d].desc
           /\ req[x].pc = "commit" => rows'[req[x].row] = rows[req[x].row]
  PROVE  \A x \in Requests \ {r} : WroteOK(x)'
<1> SUFFICES ASSUME NEW x \in Requests \ {r} PROVE WroteOK(x)'
  OBVIOUS
<1>1. req'[x] = req[x]
  BY OthersReq, InvParts
<1>2. WroteOK(x)
  BY SParts
<1>3. {"lookup", "write", "commit"} \subseteq SyncPcs
  BY DEF SyncPcs
<1> QED BY <1>1, <1>2, <1>3 DEF WroteOK

\* A step that changes no binding and no report, and leaves status, state and
\* description of each draft as they are.
LEMMA SKept ==
  ASSUME SInv, UNCHANGED <<binding, issues, report, subs, outbox, rows>>,
         \A d \in Drafts : /\ draft'[d].flow = draft[d].flow /\ draft'[d].status = draft[d].status
                           /\ draft'[d].desc = draft[d].desc,
         \A d \in Drafts : tokens'[d] \subseteq staged'[d],
         \A r \in Requests : WroteOK(r)'
  PROVE  SInv'
<1>1. OwnBinding'
  <2>1. \A i \in Identities : KeySet(i)' = KeySet(i)
    BY DEF KeySet
  <2> QED BY <2>1, SParts DEF OwnBinding
<1>2. ASSUME NEW d \in Drafts PROVE SentOK(d)'
  BY SParts DEF SentOK, Reached
<1>3. RecordedIsListed'
  BY SParts DEF RecordedIsListed, RowsOf
<1>4. OpenDraftIsBound'
  BY SParts DEF OpenDraftIsBound, Exists, Terminal
<1> QED BY <1>1, <1>2, <1>3, <1>4 DEF SInv

\* The same for a step of one request that is not synchronising afterwards.
LEMMA SQuiet ==
  ASSUME IInv, SInv, NEW r \in Requests, NEW q \in ReqType, req' = [req EXCEPT ![r] = q],
         q.pc \notin SyncPcs,
         UNCHANGED <<draft, binding, tokens, issues, report, subs, outbox, rows>>,
         staged' = staged \/ \E d \in Drafts : AddImage(d, r) /\ lock[d] = NoReq
  PROVE  SInv'
<1>1. /\ \A d \in Drafts : staged[d] \subseteq staged'[d]
      /\ \A d \in Drafts : lock[d] # NoReq => staged'[d] = staged[d]
  <2>1. staged \in [Drafts -> SUBSET Requests]
    BY InvParts DEF Typed
  <2> QED BY <2>1 DEF AddImage
<1>2. \A x \in Requests : req[x].pc \in SyncPcs => staged'[req[x].d] = staged[req[x].d]
  <2> SUFFICES ASSUME NEW x \in Requests, req[x].pc \in SyncPcs
               PROVE  staged'[req[x].d] = staged[req[x].d]
    OBVIOUS
  <2>1. req[x].d \in Drafts /\ lock[req[x].d] = x
    BY SyncIs
  <2>2. x # NoReq
    BY DEF Requests, NoReq
  <2> QED BY <1>1, <2>1, <2>2
<1>3. \A x \in Requests \ {r} : WroteOK(x)'
  BY <1>2, OthersWrote
<1>4. WroteOK(r)'
  BY OthersReq, InvParts, NoClaim
<1>5. \A d \in Drafts : tokens'[d] \subseteq staged'[d]
  BY <1>1, SParts
<1> QED BY <1>3, <1>4, <1>5, SKept

LEMMA EndsQuiet ==
  ASSUME IInv, SInv, NEW r \in Requests, EndsNow(r),
         UNCHANGED <<draft, binding, staged, tokens, issues, report, subs, outbox, rows>>
  PROVE  SInv'
<1>1. PICK q \in ReqType : q.pc = "end" /\ req' = [req EXCEPT ![r] = q]
  BY DEF EndsNow
<1>2. q.pc \notin SyncPcs
  BY <1>1 DEF SyncPcs
<1> QED BY <1>1, <1>2, SQuiet

\* What a decision on draft d does to the drafts: a queued or recorded report is not
\* reworked, since it is in reach of its user only.
LEMMA DecidedIs ==
  ASSUME OneSessionEach, IInv, SInv, NEW r \in Requests, req[r].pc = "handle",
         NEW d \in Drafts, Taken(r, d), Worked(d) \/ Linked(r, d) \/ Queued(r, d)
  PROVE  outbox[d] = "none"
<1> SUFFICES ASSUME outbox[d] # "none" PROVE FALSE
  BY InvParts DEF Typed
<1>1. Exists(d)
  BY InvParts DEF DraftOK
<1>2. Reached(d)
  BY <1>1, TakenBinding, SParts
<1>3. draft[d].flow \in {"queued_for_submission", "submitted"}
  BY <1>2, SParts DEF SentOK
<1> QED BY <1>1, <1>3 DEF Worked, Linked, Queued, ImmutableFlowStates

\* Issues are only added.
LEMMA IssuesGrow ==
  ASSUME Typed, NEW r, NEW d, Kept(d) \/ Worked(d) \/ Linked(r, d) \/ Queued(r, d)
  PROVE  /\ \A k \in DOMAIN issues : issues'[k] = issues[k]
         /\ Len(issues) + 1 \notin DOMAIN issues
<1>1. issues \in Seq(IssueType)
  BY DEF Typed
<1>2. issues' = issues \/ (\E y \in IssueType : issues' = Append(issues, y))
  BY DEF Kept, Worked, Linked, Queued
<1> QED BY ONLY <1>1, <1>2

LEMMA DecidedSent ==
  ASSUME OneSessionEach, IInv, SInv, NEW r \in Requests, req[r].pc = "handle",
         NEW d \in Drafts, Taken(r, d),
         Kept(d) \/ Worked(d) \/ Linked(r, d) \/ Queued(r, d)
  PROVE  \A x \in Drafts : SentOK(x)'
<1>1. /\ \A x \in Drafts \ {d} : report'[x] = report[x] /\ outbox'[x] = outbox[x]
      /\ report \in [Drafts -> ReportType]
  BY OutcomeTables, InvParts DEF Typed
<1>2. /\ Reached(d)' /\ (Exists(d) => Reached(d))
      /\ \A x \in Drafts \ {d} : Reached(x)' <=> Reached(x) /\ x # Source(r)
  BY TakenBinding, SParts
<1>3. subs \subseteq subs'
  BY DEF Kept, Worked, Linked, Queued
<1>4. \A x \in Drafts : outbox[x] # "none" => report[x].issue \in DOMAIN issues
  BY InvParts DEF DraftOK
\* The report of d is as it was, not sent, or new with an issue of its own.
<1>5. \/ report'[d] = report[d] /\ outbox'[d] = outbox[d] /\ Kept(d)
      \/ outbox'[d] = "none"
      \/ /\ outbox'[d] = "processing" /\ Queued(r, d)
         /\ report'[d].issue = Len(issues) + 1 /\ report'[d].desc = draft'[d].desc
  <2>1. CASE Kept(d)
    BY <2>1 DEF Kept
  <2>2. CASE Worked(d) \/ Linked(r, d)
    BY <2>2, DecidedIs DEF Worked, Linked
  <2>3. CASE Queued(r, d)
    BY <1>1, <2>3, InvParts DEF Queued, Typed
  <2> QED BY <2>1, <2>2, <2>3
\* No two of them share an issue.
<1>6. ASSUME NEW x \in Drafts, NEW e \in Drafts, outbox'[x] # "none", outbox'[e] # "none",
             report'[e].issue = report'[x].issue
      PROVE  e = x
  <2>1. \A y \in Drafts : outbox'[y] # "none" =>
          \/ report'[y].issue = report[y].issue /\ outbox[y] # "none"
          \/ y = d /\ report'[y].issue = Len(issues) + 1
    BY <1>1, <1>5
  <2>2. Len(issues) + 1 \notin DOMAIN issues
    BY IssuesGrow, InvParts
  <2>3. \A y, z \in Drafts : outbox[y] # "none" /\ outbox[z] # "none"
                             /\ report[z].issue = report[y].issue => z = y
    BY SParts DEF SentOK
  <2> QED BY ONLY <1>4, <1>6, <2>1, <2>2, <2>3
<1> SUFFICES ASSUME NEW x \in Drafts, outbox'[x] # "none" PROVE SentOK(x)'
  BY DEF SentOK
<1>7. /\ Reached(x)' => draft'[x].flow \in {"queued_for_submission", "submitted"}
      /\ draft'[x].flow # "abandoned"
      /\ draft'[x].desc = report'[x].desc
      /\ \E i \in Identities : <<report'[x].issue, i>> \in subs'
  <2>1. CASE x # d
    <3>1. SentOK(x) /\ outbox[x] # "none" /\ report'[x] = report[x]
      BY <1>1, <2>1, SParts
    <3>2. CASE draft'[x] = draft[x]
      BY <1>2, <1>3, <2>1, <3>1, <3>2 DEF SentOK
    <3>3. CASE draft'[x] # draft[x]
      <4>1. x = Source(r) /\ ClosedAs(draft[x], draft'[x])
        BY <2>1, <3>3 DEF Taken
      <4>2. ~Reached(x)'
        BY <1>2, <2>1, <4>1
      <4> QED BY <1>3, <3>1, <4>1, <4>2 DEF SentOK, ClosedAs
    <3> QED BY <3>2, <3>3
  <2>2. CASE x = d /\ report'[d] = report[d] /\ outbox'[d] = outbox[d] /\ Kept(d)
    <3>1. SentOK(d) /\ Reached(d) /\ outbox[d] # "none"
      BY <1>2, <2>2, SParts DEF Kept
    <3> QED BY <1>3, <2>2, <3>1 DEF SentOK, Kept
  <2>3. CASE /\ x = d /\ outbox'[d] = "processing" /\ Queued(r, d)
             /\ report'[d].issue = Len(issues) + 1 /\ report'[d].desc = draft'[d].desc
    <3>1. req[r].who \in Identities
      BY InvParts DEF ReqOK
    <3> QED BY <2>3, <3>1 DEF Queued
  <2> QED BY <1>5, <2>1, <2>2, <2>3
<1> QED BY <1>6, <1>7 DEF SentOK

LEMMA DecidedListed ==
  ASSUME OneSessionEach, IInv, SInv, NEW r \in Requests, req[r].pc = "handle",
         NEW d \in Drafts, Taken(r, d), UNCHANGED rows,
         Kept(d) \/ Worked(d) \/ Linked(r, d) \/ Queued(r, d)
  PROVE  RecordedIsListed'
<1>1. \A x \in Drafts \ {d} : report'[x] = report[x] /\ outbox'[x] = outbox[x]
  BY OutcomeTables
<1>2. subs \subseteq subs'
  BY DEF Kept, Worked, Linked, Queued
<1>3. outbox'[d] = "succeeded" => report'[d] = report[d] /\ outbox[d] = "succeeded"
  <2>1. CASE Kept(d)
    BY <2>1 DEF Kept
  <2>2. CASE Worked(d) \/ Linked(r, d)
    BY <2>2, DecidedIs DEF Worked, Linked
  <2>3. CASE Queued(r, d)
    BY <2>3, InvParts DEF Queued, Typed
  <2> QED BY <2>1, <2>2, <2>3
<1> SUFFICES ASSUME NEW x \in Drafts, outbox'[x] = "succeeded"
             PROVE  /\ report'[x].ext \in RowsOf(x)'
                    /\ issues'[report'[x].issue].ext = report'[x].ext
                    /\ \E i \in Identities : <<report'[x].issue, i>> \in subs'
  BY DEF RecordedIsListed
<1>4. report'[x] = report[x] /\ outbox[x] = "succeeded"
  BY <1>1, <1>3
<1>5. report[x].issue \in DOMAIN issues
  BY <1>4, InvParts DEF DraftOK
<1>6. issues'[report[x].issue] = issues[report[x].issue]
  BY <1>5, IssuesGrow, InvParts
<1>7. /\ report[x].ext \in RowsOf(x) /\ issues[report[x].issue].ext = report[x].ext
      /\ \E i \in Identities : <<report[x].issue, i>> \in subs
  BY <1>4, SParts DEF RecordedIsListed
<1>8. RowsOf(x)' = RowsOf(x)
  BY DEF RowsOf
<1> QED BY <1>2, <1>4, <1>6, <1>7, <1>8

LEMMA DecidedOpen ==
  ASSUME OneSessionEach, IInv, SInv, NEW r \in Requests, req[r].pc = "handle",
         NEW d \in Drafts, Taken(r, d),
         Kept(d) \/ Worked(d) \/ Linked(r, d) \/ Queued(r, d)
  PROVE  OpenDraftIsBound'
<1> SUFFICES ASSUME NEW x \in Drafts, Exists(x)', ~Terminal(draft'[x]), outbox'[x] = "none"
             PROVE  Reached(x)'
  BY DEF OpenDraftIsBound, Reached, Terminal
<1>1. CASE x = d
  BY <1>1, TakenBinding, SParts
<1>2. CASE x # d
  <2>1. outbox[x] = "none"
    BY <1>2, OutcomeTables
  <2>2. x # Source(r) /\ draft'[x] = draft[x]
    <3>1. x = Source(r) => Terminal(draft'[x])
      BY <1>2 DEF Taken, ClosedAs, Terminal, TerminalStatuses
    <3> QED BY <1>2, <3>1 DEF Taken
  <2>3. Reached(x)
    BY <2>1, <2>2, SParts DEF OpenDraftIsBound, Reached, Exists
  <2> QED BY <1>2, <2>2, <2>3, TakenBinding, SParts
<1> QED BY <1>1, <1>2

LEMMA OutcomeS ==
  ASSUME OneSessionEach, IInv, SInv, NEW r \in Requests, req[r].pc = "handle", Outcome(r)
  PROVE  SInv'
<1>1. UNCHANGED <<staged, tokens, rows, lock, lates>>
  BY DEF Outcome
<1>2. CASE EndsNow(r) /\ UNCHANGED tables
  BY <1>1, <1>2, EndsQuiet DEF tables
<1>3. ASSUME NEW d \in Drafts, Taken(r, d), ReqAfter(r, d),
             Kept(d) \/ Worked(d) \/ Linked(r, d) \/ Queued(r, d)
      PROVE  SInv'
  <2>1. PICK q \in ReqType :
          req' = [req EXCEPT ![r] = q] /\ q.pc \in {"end", "attach_after", "sync"}
    BY <1>3 DEF ReqAfter
  <2>2. ASSUME NEW x \in Requests \ {r}, req[x].pc \in SyncPcs
        PROVE  draft'[req[x].d] = draft[req[x].d]
    <3>1. req[x].d \in Drafts /\ Exists(req[x].d) /\ lock[req[x].d] # NoReq
      BY <2>2, SyncIs DEF Requests, NoReq
    <3>2. req[x].d # NoDraft
      BY <3>1 DEF Drafts, NoDraft
    <3>3. req[x].d # Source(r) /\ req[x].d # d
      BY <1>3, <3>1, <3>2 DEF Taken
    <3> QED BY <1>3, <3>1, <3>3 DEF Taken
  <2>3. \A x \in Requests \ {r} : WroteOK(x)'
    BY <1>1, <2>1, <2>2, OthersWrote
  <2>4. WroteOK(r)'
    <3>1. q.pc \notin SyncPcs
      BY <2>1 DEF SyncPcs
    <3> QED BY <2>1, <3>1, OthersReq, InvParts, NoClaim
  <2>5. \A x \in Drafts : tokens'[x] \subseteq staged'[x]
    BY <1>1, SParts
  <2>6. OwnBinding'
    BY <1>3, TakenBinding, SParts
  <2>7. (\A x \in Drafts : SentOK(x)') /\ RecordedIsListed' /\ OpenDraftIsBound'
    BY <1>1, <1>3, DecidedSent, DecidedListed, DecidedOpen
  <2> QED BY <2>3, <2>4, <2>5, <2>6, <2>7 DEF SInv
<1> QED BY <1>2, <1>3 DEF Outcome

\* Arrivals, readings, images, waiting tasks, crashes and the clock.
LEMMA ArriveS ==
  ASSUME IInv, SInv, NEW r \in Requests, Arrive(r)
  PROVE  SInv'
<1>1. UNCHANGED <<draft, binding, staged, tokens, issues, report, subs, outbox, rows>>
  BY DEF Arrive, tables
<1>2. req[r].pc = "idle"
  BY DEF Arrive
<1>3. PICK q : req' = [req EXCEPT ![r] = q] /\ q.pc \notin SyncPcs
  <2>1. PICK i \in Identities, x \in Inputs :
          req' = [req EXCEPT ![r] = [NullReq EXCEPT !.pc = IF x.turn THEN "handle" ELSE "resolve",
                                                    !.who = i, !.in = x, !.ev = x.event]]
    BY DEF Arrive, Step
  <2>2. [NullReq EXCEPT !.pc = IF x.turn THEN "handle" ELSE "resolve",
                        !.who = i, !.in = x, !.ev = x.event].pc \notin SyncPcs
    BY NullTypes DEF ReqType, SyncPcs
  <2> QED BY <2>1, <2>2
<1>4. IInv'
  BY ArriveInv
<1>5. q \in ReqType
  <2>1. req \in [Requests -> ReqType] /\ req' \in [Requests -> ReqType]
    BY <1>4, InvParts DEF IInv, Typed
  <2> QED BY ONLY <1>3, <2>1, r \in Requests
<1> QED BY <1>1, <1>3, <1>5, SQuiet

LEMMA ReadStateS ==
  ASSUME IInv, SInv, NEW r \in Requests, ReadState(r)
  PROVE  SInv'
<1>1. UNCHANGED <<draft, binding, staged, tokens, issues, report, subs, outbox, rows>>
  BY DEF ReadState, tables
<1>2. CASE End(r, "retry_image")
  BY <1>1, <1>2, EndIs, EndsQuiet, InvParts
<1>3. ASSUME NEW e, NEW d, NEW pc \in {"attach_first", "handle"},
             Step(r, [req[r] EXCEPT !.ev = e, !.d = d, !.pc = pc])
      PROVE  SInv'
  <2> DEFINE q == [req[r] EXCEPT !.ev = e, !.d = d, !.pc = pc]
  <2>1. q.pc \notin SyncPcs
    <3>1. req[r] \in ReqType
      BY InvParts
    <3>2. q.pc = pc
      BY ONLY <3>1 DEF ReqType
    <3> HIDE DEF q
    <3> QED BY <3>2 DEF SyncPcs
  <2>2. IInv'
    BY ReadStateInv
  <2>3. req' = [req EXCEPT ![r] = q]
    BY <1>3 DEF Step
  <2> HIDE DEF q
  <2>4. q \in ReqType
    <3>1. req \in [Requests -> ReqType] /\ req' \in [Requests -> ReqType]
      BY <2>2, InvParts DEF IInv, Typed
    <3> QED BY ONLY <2>3, <3>1, r \in Requests
  <2> QED BY <1>1, <2>1, <2>3, <2>4, SQuiet
<1> DEFINE q == req[r]
           d == Bound(q.who)
           s == IF d = NoDraft THEN "" ELSE draft[d].flow
           e == IF q.in.event # "" THEN q.in.event ELSE EventFor(s, q.in.text)
           pc == IF e \in ConfirmEvents /\ q.in.image THEN "attach_first" ELSE "handle"
<1>4. \/ End(r, "retry_image")
      \/ Step(r, [q EXCEPT !.ev = e, !.d = d, !.pc = pc])
  BY DEF ReadState
<1>5. pc \in {"attach_first", "handle"}
  OBVIOUS
<1> HIDE DEF pc, e, d
<1> QED BY <1>2, <1>3, <1>4, <1>5

LEMMA AttachS ==
  ASSUME IInv, SInv, NEW r \in Requests, AttachFirst(r) \/ AttachAfter(r)
  PROVE  SInv'
<1>1. UNCHANGED <<draft, binding, tokens, issues, report, subs, outbox, rows, lock>>
  BY DEF AttachFirst, AttachAfter
<1>2. /\ req[r] \in ReqType /\ req[r].d \in Drafts /\ req[r].d # NoDraft
      /\ req[r].pc = "attach_after" => req[r].state # "queued_for_submission"
  BY InvParts DEF AttachFirst, AttachAfter, ReqOK, Drafts, NoDraft
<1>3. CASE (\E reply : End(r, reply)) /\ UNCHANGED staged
  BY <1>1, <1>3, EndIs, EndsQuiet, InvParts
<1>4. CASE /\ Unlocked(req[r].d) /\ AddImage(req[r].d, r)
           /\ Step(r, [req[r] EXCEPT !.pc = "handle"])
  <2> DEFINE q == [req[r] EXCEPT !.pc = "handle"]
  <2>1. q \in ReqType /\ q.pc = "handle"
    <3>1. "handle" \in Pcs
      BY DEF Pcs
    <3> QED BY ONLY <1>2, <3>1 DEF ReqType
  <2>2. req' = [req EXCEPT ![r] = q]
    BY <1>4 DEF Step
  <2> HIDE DEF q
  <2>3. lock[req[r].d] = NoReq
    BY <1>2, <1>4 DEF Unlocked
  <2>4. q.pc \notin SyncPcs
    BY <2>1 DEF SyncPcs
  <2> QED BY <1>1, <1>2, <1>4, <2>1, <2>2, <2>3, <2>4, SQuiet
<1>5. CASE /\ Unlocked(req[r].d) /\ AddImage(req[r].d, r) /\ req[r].pc = "attach_after"
           /\ Step(r, AfterDecision(req[r]))
  <2>1. AfterDecision(req[r]) \in ReqType /\ AfterDecision(req[r]).pc = "end"
    BY <1>2, <1>5, AfterDecisionType
  <2>2. lock[req[r].d] = NoReq
    BY <1>2, <1>5 DEF Unlocked
  <2>3. AfterDecision(req[r]).pc \notin SyncPcs
    BY <2>1 DEF SyncPcs
  <2> QED BY <1>1, <1>2, <1>5, <2>1, <2>2, <2>3, SQuiet DEF Step
<1> QED BY <1>3, <1>4, <1>5 DEF AttachFirst, AttachAfter

LEMMA ScheduleS ==
  ASSUME IInv, SInv, NEW r \in Requests, Schedule(r)
  PROVE  SInv'
<1>1. UNCHANGED <<draft, binding, staged, tokens, issues, report, subs, outbox, rows>>
  BY DEF Schedule, tables
<1>2. CASE \E reply : End(r, reply)
  BY <1>1, <1>2, EndIs, EndsQuiet, InvParts
<1>3. CASE Step(r, [NullReq EXCEPT !.pc = "retry", !.d = req[r].d, !.tries = req[r].tries,
                                  !.reply = "saved"])
  <2> DEFINE q == [NullReq EXCEPT !.pc = "retry", !.d = req[r].d, !.tries = req[r].tries,
                                  !.reply = "saved"]
  <2>1. q.pc = "retry"
    BY NullTypes DEF ReqType
  <2>2. req' = [req EXCEPT ![r] = q]
    BY <1>3 DEF Step
  <2> HIDE DEF q
  <2>3. IInv'
    BY ScheduleInv
  <2>4. q \in ReqType
    <3>1. req \in [Requests -> ReqType] /\ req' \in [Requests -> ReqType]
      BY <2>3, InvParts DEF IInv, Typed
    <3> QED BY ONLY <2>2, <3>1, r \in Requests
  <2>5. q.pc \notin SyncPcs
    BY <2>1 DEF SyncPcs
  <2> QED BY <1>1, <2>2, <2>4, <2>5, SQuiet
<1> QED BY <1>2, <1>3 DEF Schedule

LEMMA CrashS ==
  ASSUME IInv, SInv, NEW r \in Requests, Crash(r)
  PROVE  SInv'
<1>1. UNCHANGED <<draft, binding, staged, tokens, issues, report, subs, outbox, rows>>
  BY DEF Crash, tables
<1> QED BY <1>1, EndIs, EndsQuiet, InvParts DEF Crash

LEMMA ExpireS ==
  ASSUME IInv, SInv, NEW d \in Drafts, Expire(d)
  PROVE  SInv'
<1>1. /\ \A x \in Drafts \ {d} : draft'[x] = draft[x]
      /\ draft'[d].flow = draft[d].flow /\ draft'[d].status = draft[d].status
      /\ draft'[d].desc = draft[d].desc
      /\ UNCHANGED <<binding, staged, tokens, issues, report, subs, outbox, rows, lock, req>>
  BY ExpireIs, InvParts
<1>2. \A x \in Drafts : /\ draft'[x].flow = draft[x].flow /\ draft'[x].status = draft[x].status
                        /\ draft'[x].desc = draft[x].desc
  BY <1>1
<1>3. \A x \in Requests : req[x].pc \in SyncPcs => req[x].d \in Drafts
  BY SyncIs
<1>4. \A x \in Requests : WroteOK(x)'
  <2>1. {"lookup", "write", "commit"} \subseteq SyncPcs
    BY DEF SyncPcs
  <2> QED BY <1>1, <1>2, <1>3, <2>1, SParts DEF WroteOK
<1>5. \A x \in Drafts : tokens'[x] \subseteq staged'[x]
  BY <1>1, SParts
<1> QED BY <1>1, <1>2, <1>4, <1>5, SKept

\* A step of a synchronisation that changes no table.
LEMMA SOwn ==
  ASSUME IInv, SInv, NEW r \in Requests, NEW q \in ReqType, req' = [req EXCEPT ![r] = q],
         UNCHANGED <<draft, binding, staged, tokens, issues, report, subs, outbox, rows>>,
         WroteOK(r)'
  PROVE  SInv'
<1>1. \A x \in Requests \ {r} : WroteOK(x)'
  BY OthersWrote
<1> QED BY <1>1, SKept, SParts

LEMMA SyncBeginS ==
  ASSUME IInv, SInv, NEW r \in Requests, SyncBegin(r)
  PROVE  SInv'
<1>1. UNCHANGED <<draft, binding, staged, tokens, issues, report, subs, outbox, rows>>
  BY DEF SyncBegin, tables
<1>2. req[r] \in ReqType /\ req[r].d \in Drafts
  BY InvParts DEF SyncBegin, ReqOK, InHandPcs
<1>3. CASE End(r, "recorded")
  BY <1>1, <1>3, EndIs, EndsQuiet, InvParts
<1>4. CASE Step(r, [req[r] EXCEPT !.pc = "upload", !.toks = tokens[req[r].d],
                                  !.tries = @ + (IF req[r].pc = "retry" THEN 1 ELSE 0)])
  <2> DEFINE q == [req[r] EXCEPT !.pc = "upload", !.toks = tokens[req[r].d],
                                 !.tries = @ + (IF req[r].pc = "retry" THEN 1 ELSE 0)]
  <2>1. q.pc = "upload" /\ q.toks = tokens[req[r].d] /\ q.d = req[r].d
    BY <1>2 DEF ReqType
  <2>2. req' = [req EXCEPT ![r] = q]
    BY <1>4 DEF Step
  <2> HIDE DEF q
  <2>3. IInv'
    BY SyncBeginInv
  <2>4. q \in ReqType /\ req'[r] = q
    <3>1. req \in [Requests -> ReqType] /\ req' \in [Requests -> ReqType]
      BY <2>3, InvParts DEF IInv, Typed
    <3> QED BY ONLY <2>2, <3>1, r \in Requests
  <2>5. WroteOK(r)'
    BY <1>1, <1>2, <2>1, <2>4, SParts DEF WroteOK
  <2> QED BY <1>1, <2>2, <2>4, <2>5, SOwn
<1> QED BY <1>3, <1>4 DEF SyncBegin

\* What the others have written stays in the table.
LEMMA OthersRows ==
  ASSUME IInv, NEW r \in Requests, req[r].pc = "write", rows' = WrittenBy(r),
         NEW x \in Requests \ {r}, req[x].pc = "commit"
  PROVE  rows'[req[x].row] = rows[req[x].row]
<1> DEFINE n == IF req[r].row = NoRow THEN Len(rows) + 1 ELSE req[r].row
<1>1. req[r].pc \in SyncPcs /\ req[x].pc \in SyncPcs
  BY DEF SyncPcs
<1>2. req[x].d \in Drafts \ {req[r].d} /\ req[x].row \in RowsOf(req[x].d)
  BY <1>1, SyncApart, SyncIs, InvParts DEF ReqOK
<1>3. req[x].row \in DOMAIN rows /\ rows[req[x].row].draft = req[x].d
  BY <1>2 DEF RowsOf
<1>4. /\ n \in DOMAIN rows => rows[n].draft = req[r].d
      /\ \A m \in DOMAIN rows' \ {n} : rows'[m] = rows[m]
      /\ DOMAIN rows \subseteq DOMAIN rows'
  BY WriteIs
<1> HIDE DEF n
<1> QED BY <1>2, <1>3, <1>4

LEMMA SyncFailsS ==
  ASSUME IInv, SInv, NEW r \in Requests, req[r].pc \in SyncPcs, SyncFails(r),
         rows' = rows \/ (req[r].pc = "write" /\ rows' = WrittenBy(r))
  PROVE  SInv'
<1>1. PICK d \in Drafts : d = req[r].d
  BY SyncIs
<1>2. /\ req[r] \in ReqType /\ req[r].toks \in SUBSET Requests /\ Exists(d)
      /\ outbox[d] \in {"processing", "pending"}
  BY <1>1, SyncIs
<1>3. /\ draft \in [Drafts -> DraftType] /\ tokens \in [Drafts -> SUBSET Requests]
      /\ outbox \in [Drafts -> {"none", "processing", "pending", "succeeded"}]
  BY InvParts DEF Typed
<1>4. /\ tokens' = [tokens EXCEPT ![d] = req[r].toks]
      /\ outbox' = [outbox EXCEPT ![d] = "pending"]
      /\ draft' = [draft EXCEPT ![d] = Closed(draft[d], "queued_for_submission", "active")]
      /\ UNCHANGED <<binding, staged, issues, report, subs>>
  BY <1>1 DEF SyncFails
<1>5. /\ Closed(draft[d], "queued_for_submission", "active") \in DraftType
      /\ Closed(draft[d], "queued_for_submission", "active").flow = "queued_for_submission"
      /\ Closed(draft[d], "queued_for_submission", "active").desc = draft[d].desc
  <2>1. draft[d] \in DraftType /\ "queued_for_submission" \in FlowStates
    BY <1>3 DEF FlowStates, ImmutableFlowStates
  <2> QED BY <2>1, ClosedType
<1>6. /\ draft'[d].flow = "queued_for_submission" /\ draft'[d].desc = draft[d].desc
      /\ tokens'[d] = req[r].toks /\ outbox'[d] = "pending"
      /\ \A x \in Drafts \ {d} : /\ draft'[x] = draft[x] /\ tokens'[x] = tokens[x]
                                 /\ outbox'[x] = outbox[x]
  BY ONLY <1>3, <1>4, <1>5, d \in Drafts
<1>7. ASSUME NEW x \in Drafts PROVE SentOK(x)'
  <2>1. SentOK(x)
    BY SParts
  <2>2. \A e \in Drafts : outbox'[e] # "none" => outbox[e] # "none"
    BY <1>2, <1>6
  <2>3. Reached(x)' <=> Reached(x)
    BY <1>4 DEF Reached
  <2>4. CASE x = d
    BY <1>2, <1>4, <1>6, <2>1, <2>2, <2>4 DEF SentOK
  <2>5. CASE x # d
    BY <1>4, <1>6, <2>1, <2>2, <2>3, <2>5 DEF SentOK
  <2> QED BY <2>4, <2>5
<1>8. RecordedIsListed'
  <2>1. \A x \in Drafts : outbox[x] # "none" => outbox'[x] # "none"
    BY <1>6
  <2>2. \A x \in Drafts \ {d} : RowsOf(x)' = RowsOf(x)
    <3>1. CASE rows' = rows
      BY <3>1 DEF RowsOf
    <3>2. CASE req[r].pc = "write" /\ rows' = WrittenBy(r)
      <4>1. \A x \in Drafts \ {d} : \A n : n \in RowsOf(x) <=> n \in DOMAIN rows' /\ rows'[n].draft = x
        BY <1>1, <2>1, <3>2, RowsWritten
      <4> QED BY <4>1 DEF RowsOf
    <3> QED BY <3>1, <3>2
  <2> SUFFICES ASSUME NEW x \in Drafts, outbox'[x] = "succeeded"
               PROVE  /\ report'[x].ext \in RowsOf(x)'
                      /\ issues'[report'[x].issue].ext = report'[x].ext
                      /\ \E i \in Identities : <<report'[x].issue, i>> \in subs'
    BY DEF RecordedIsListed
  <2>3. x # d /\ outbox[x] = "succeeded"
    BY <1>6
  <2>4. /\ report[x].ext \in RowsOf(x) /\ issues[report[x].issue].ext = report[x].ext
        /\ \E i \in Identities : <<report[x].issue, i>> \in subs
    BY <2>3, SParts DEF RecordedIsListed
  <2> QED BY <1>4, <2>2, <2>3, <2>4
<1>9. OpenDraftIsBound'
  <2>1. \A x \in Drafts : outbox'[x] = "none" => outbox[x] = "none" /\ draft'[x] = draft[x]
    BY <1>6
  <2> QED BY <1>4, <2>1, SParts DEF OpenDraftIsBound, Exists, Terminal
<1>10. \A x \in Drafts : tokens'[x] \subseteq staged'[x]
  <2>1. req[r].toks \subseteq staged[d]
    BY <1>1, SParts DEF WroteOK
  <2> QED BY <1>4, <1>6, <2>1, SParts
<1> DEFINE q == [req[r] EXCEPT !.pc = "schedule", !.toks = {}, !.row = NoRow]
<1>11. q \in ReqType /\ q.pc = "schedule"
  <2>1. "schedule" \in Pcs /\ NoRow \in Nat
    BY DEF Pcs, NoRow
  <2> QED BY ONLY <1>2, <2>1 DEF ReqType
<1>12. req' = [req EXCEPT ![r] = q]
  BY DEF SyncFails, Step
<1> HIDE DEF q
<1>13. \A x \in Requests \ {r} : WroteOK(x)'
  <2>1. ASSUME NEW x \in Requests \ {r}, req[x].pc = "commit"
        PROVE  rows'[req[x].row] = rows[req[x].row]
    BY <2>1, OthersRows
  <2>2. \A x \in Requests \ {r} : req[x].pc \in SyncPcs => req[x].d \in Drafts \ {d}
    BY <1>1, SyncApart, SyncIs
  <2> QED BY <1>4, <1>6, <1>11, <1>12, <2>1, <2>2, OthersWrote
<1>14. WroteOK(r)'
  <2>1. q.pc \notin SyncPcs
    BY <1>11 DEF SyncPcs
  <2> QED BY <1>11, <1>12, <2>1, OthersReq, InvParts, NoClaim
<1>15. OwnBinding'
  <2>1. \A i \in Identities : KeySet(i)' = KeySet(i)
    BY DEF KeySet
  <2> QED BY <1>4, <2>1, SParts DEF OwnBinding
<1> QED BY <1>7, <1>8, <1>9, <1>10, <1>13, <1>14, <1>15 DEF SInv

LEMMA UploadS ==
  ASSUME IInv, SInv, NEW r \in Requests, Upload(r)
  PROVE  SInv'
<1>1. rows' = rows /\ req[r].pc = "upload" /\ req[r].pc \in SyncPcs
  BY DEF Upload, SyncPcs
<1>2. /\ req[r] \in ReqType /\ req[r].d \in Drafts
      /\ req[r].toks \subseteq staged[req[r].d] /\ staged \in [Drafts -> SUBSET Requests]
  BY <1>1, SyncIs, SParts, InvParts DEF WroteOK, Typed
<1>3. ASSUME NEW img \in staged[req[r].d] \ req[r].toks,
             Step(r, [req[r] EXCEPT !.toks = @ \cup {img}]), UNCHANGED <<tables, lock, faults>>
      PROVE  SInv'
  <2> DEFINE q == [req[r] EXCEPT !.toks = @ \cup {img}]
  <2>1. img \in Requests
    BY <1>2
  <2>2. q \in ReqType /\ q.pc = req[r].pc /\ q.d = req[r].d /\ q.toks = req[r].toks \cup {img}
    BY ONLY <1>2, <2>1 DEF ReqType
  <2>3. req' = [req EXCEPT ![r] = q]
    BY <1>3 DEF Step
  <2> HIDE DEF q
  <2>4. req'[r] = q
    BY <2>2, <2>3, OthersReq, InvParts
  <2>5. q.toks \subseteq staged[q.d]
    BY <1>2, <2>2
  <2>6. UNCHANGED <<draft, binding, staged, tokens, issues, report, subs, outbox, rows>>
    BY <1>1, <1>3 DEF tables
  <2>7. WroteOK(r)'
    BY <1>1, <2>2, <2>4, <2>5, <2>6 DEF WroteOK
  <2> QED BY <2>2, <2>3, <2>6, <2>7, SOwn
<1>4. CASE /\ staged[req[r].d] \subseteq req[r].toks
           /\ Step(r, [req[r] EXCEPT !.pc = "lookup"]) /\ UNCHANGED <<tables, lock, faults>>
  <2> DEFINE q == [req[r] EXCEPT !.pc = "lookup"]
  <2>1. "lookup" \in Pcs
    BY DEF Pcs, SyncPcs
  <2>2. q \in ReqType /\ q.pc = "lookup" /\ q.d = req[r].d /\ q.toks = req[r].toks
    BY ONLY <1>2, <2>1 DEF ReqType
  <2>3. req' = [req EXCEPT ![r] = q]
    BY <1>4 DEF Step
  <2> HIDE DEF q
  <2>4. req'[r] = q
    BY <2>2, <2>3, OthersReq, InvParts
  <2>5. UNCHANGED <<draft, binding, staged, tokens, issues, report, subs, outbox, rows>>
    BY <1>1, <1>4 DEF tables
  <2>6. WroteOK(r)'
    BY <1>2, <1>4, <2>2, <2>4, <2>5 DEF WroteOK
  <2> QED BY <2>2, <2>3, <2>5, <2>6, SOwn
<1>5. CASE SyncFails(r)
  BY <1>1, <1>5, SyncFailsS
<1> QED BY <1>3, <1>4, <1>5 DEF Upload

LEMMA LookupS ==
  ASSUME IInv, SInv, NEW r \in Requests, Lookup(r)
  PROVE  SInv'
<1>1. rows' = rows /\ req[r].pc = "lookup" /\ req[r].pc \in SyncPcs
  BY DEF Lookup, SyncPcs
<1>2. req[r] \in ReqType /\ WroteOK(r)
  BY <1>1, SyncIs, SParts
<1>3. ASSUME NEW n, Step(r, [req[r] EXCEPT !.pc = "write", !.row = n]),
             UNCHANGED <<tables, lock, faults>>
      PROVE  SInv'
  <2> DEFINE q == [req[r] EXCEPT !.pc = "write", !.row = n]
  <2>1. q.pc = "write" /\ q.d = req[r].d /\ q.toks = req[r].toks
    BY ONLY <1>2 DEF ReqType
  <2>2. req' = [req EXCEPT ![r] = q]
    BY <1>3 DEF Step
  <2> HIDE DEF q
  <2>3. IInv'
    BY LookupInv
  <2>4. q \in ReqType /\ req'[r] = q
    <3>1. req \in [Requests -> ReqType] /\ req' \in [Requests -> ReqType]
      BY <2>3, InvParts DEF IInv, Typed
    <3> QED BY ONLY <2>2, <3>1, r \in Requests
  <2>5. UNCHANGED <<draft, binding, staged, tokens, issues, report, subs, outbox, rows>>
    BY <1>1, <1>3 DEF tables
  <2>6. WroteOK(r)'
    BY <1>1, <1>2, <2>1, <2>4, <2>5 DEF WroteOK
  <2> QED BY <2>2, <2>4, <2>5, <2>6, SOwn
<1>4. CASE SyncFails(r)
  BY <1>1, <1>4, SyncFailsS
<1> QED BY <1>3, <1>4 DEF Lookup

LEMMA WriteS ==
  ASSUME IInv, SInv, NEW r \in Requests, Write(r)
  PROVE  SInv'
<1>1. req[r].pc = "write" /\ req[r].pc \in SyncPcs
  BY DEF Write, SyncPcs
<1>2. PICK d \in Drafts : d = req[r].d
  BY <1>1, SyncIs
<1>3. CASE SyncFails(r) /\ rows' = rows
  BY <1>1, <1>3, SyncFailsS
<1>4. CASE SyncFails(r) /\ rows' = WrittenBy(r)
  BY <1>1, <1>4, SyncFailsS
<1>5. CASE /\ rows' = WrittenBy(r)
           /\ Step(r, [req[r] EXCEPT !.pc = "commit",
                                     !.row = IF @ = NoRow THEN Len(WrittenBy(r)) ELSE @])
           /\ UNCHANGED <<tables, lock, faults>>
  <2> DEFINE n == IF req[r].row = NoRow THEN Len(rows) + 1 ELSE req[r].row
             q == [req[r] EXCEPT !.pc = "commit",
                                 !.row = IF @ = NoRow THEN Len(WrittenBy(r)) ELSE @]
  <2>1. /\ req[r] \in ReqType /\ outbox[d] \notin {"none", "succeeded"} /\ WroteOK(r)
    BY <1>1, <1>2, SyncIs, SParts
  <2>2. /\ req[r].row = NoRow => Len(WrittenBy(r)) = n
        /\ rows'[n] = [draft |-> d, desc |-> draft[d].desc, images |-> req[r].toks]
    BY <1>1, <1>2, <1>5, WriteIs
  <2>3. q = [req[r] EXCEPT !.pc = "commit", !.row = n]
    BY <2>2
  <2> HIDE DEF n, q
  <2>4. q.pc = "commit" /\ q.d = d /\ q.row = n /\ q.toks = req[r].toks
    BY ONLY <1>2, <2>1, <2>3 DEF ReqType
  <2>5. req' = [req EXCEPT ![r] = q]
    BY <1>5 DEF Step, q
  <2>6. IInv'
    BY WriteInv
  <2>7. q \in ReqType /\ req'[r] = q
    <3>1. req \in [Requests -> ReqType] /\ req' \in [Requests -> ReqType]
      BY <2>6, InvParts DEF IInv, Typed
    <3> QED BY ONLY <2>5, <3>1, r \in Requests
  <2>8. UNCHANGED <<draft, binding, staged, tokens, issues, report, subs, outbox>>
    BY <1>5 DEF tables
  <2>9. \A x \in Requests \ {r} : WroteOK(x)'
    BY <1>1, <1>5, <2>5, <2>7, <2>8, OthersRows, OthersWrote
  <2>10. WroteOK(r)'
    <3>1. req[r].toks \subseteq staged[d] /\ staged[d] \subseteq req[r].toks
      BY <1>1, <1>2, <2>1 DEF WroteOK
    <3>2. rows'[n].desc = draft[d].desc /\ rows'[n].images = req[r].toks
      BY <2>2
    <3> QED BY <2>4, <2>7, <2>8, <3>1, <3>2 DEF WroteOK
  <2>11. RecordedIsListed'
    <3>1. \A x \in Drafts \ {d} : \A m : m \in RowsOf(x) <=> m \in DOMAIN rows' /\ rows'[m].draft = x
      BY <1>1, <1>2, <1>5, <2>8, RowsWritten
    <3>2. \A x \in Drafts \ {d} : RowsOf(x)' = RowsOf(x)
      BY <3>1 DEF RowsOf
    <3>3. \A x \in Drafts : outbox[x] = "succeeded" => x # d
      BY <2>1
    <3> QED BY <2>8, <3>2, <3>3, SParts DEF RecordedIsListed
  <2>12. OwnBinding'
    <3>1. \A i \in Identities : KeySet(i)' = KeySet(i)
      BY DEF KeySet
    <3> QED BY <2>8, <3>1, SParts DEF OwnBinding
  <2>13. \A x \in Drafts : SentOK(x)' /\ tokens'[x] \subseteq staged'[x]
    BY <2>8, SParts DEF SentOK, Reached
  <2>14. OpenDraftIsBound'
    BY <2>8, SParts DEF OpenDraftIsBound, Exists, Terminal
  <2> QED BY <2>9, <2>10, <2>11, <2>12, <2>13, <2>14 DEF SInv
<1> QED BY <1>3, <1>4, <1>5 DEF Write, WrittenBy

LEMMA CommitS ==
  ASSUME IInv, SInv, NEW r \in Requests, Commit(r)
  PROVE  SInv'
<1>1. req[r].pc = "commit" /\ req[r].pc \in SyncPcs /\ rows' = rows
  BY DEF Commit, SyncPcs
<1>2. PICK d \in Drafts : d = req[r].d
  BY <1>1, SyncIs
<1>3. /\ req[r] \in ReqType /\ req[r].toks \in SUBSET Requests /\ Exists(d)
      /\ outbox[d] \in {"processing", "pending"}
  BY <1>1, <1>2, SyncIs
<1>4. req[r].row \in Nat /\ req[r].row \in RowsOf(d)
  <2>1. req[r].row \in Nat
    BY ONLY <1>3 DEF ReqType
  <2> QED BY <1>1, <1>2, <2>1, InvParts DEF ReqOK
<1>5. PICK q : q = req'[r] /\ q \in ReqType /\ req' = [req EXCEPT ![r] = q] /\ q.pc \notin SyncPcs
  <2>1. CASE \E reply : End(r, reply)
    <3>1. PICK q \in ReqType : q.pc = "end" /\ req' = [req EXCEPT ![r] = q]
      BY <2>1, EndIs, InvParts DEF EndsNow
    <3> QED BY <3>1, OthersReq, InvParts DEF SyncPcs
  <2>2. CASE Step(r, IF req[r].tries = 0 THEN Ended(req[r], "error")
                     ELSE [req[r] EXCEPT !.pc = "schedule", !.toks = {}, !.row = NoRow])
    <3> DEFINE q == IF req[r].tries = 0 THEN Ended(req[r], "error")
                    ELSE [req[r] EXCEPT !.pc = "schedule", !.toks = {}, !.row = NoRow]
    <3>1. q \in ReqType /\ q.pc \in {"end", "schedule"}
      <4>1. "schedule" \in Pcs /\ NoRow \in Nat
        BY DEF Pcs, NoRow
      <4>2. LET x == [req[r] EXCEPT !.pc = "schedule", !.toks = {}, !.row = NoRow]
            IN  x \in ReqType /\ x.pc = "schedule"
        BY ONLY <1>3, <4>1 DEF ReqType
      <4>3. Ended(req[r], "error") \in ReqType /\ Ended(req[r], "error").pc = "end"
        BY <1>3, EndedType
      <4> QED BY ONLY <4>2, <4>3
    <3>2. req' = [req EXCEPT ![r] = q]
      BY <2>2 DEF Step
    <3> HIDE DEF q
    <3> QED BY <3>1, <3>2, OthersReq, InvParts DEF SyncPcs
  <2> QED BY <2>1, <2>2 DEF Commit
<1>6. CASE UNCHANGED tables
  <2>1. UNCHANGED <<draft, binding, staged, tokens, issues, report, subs, outbox, rows>>
    BY <1>1, <1>6 DEF tables
  <2> QED BY <1>5, <2>1, SQuiet
<1>7. CASE Recorded(req[r].d, req[r].row, req[r].toks)
  <2>1. /\ report[d].issue \in DOMAIN issues /\ report'[d].issue = report[d].issue
        /\ issues'[report[d].issue].ext = req[r].row
        /\ \A k \in DOMAIN issues : k # report[d].issue => issues'[k] = issues[k]
        /\ report'[d].ext = req[r].row /\ report'[d].desc = report[d].desc
        /\ draft'[d].flow = "submitted" /\ draft'[d].desc = draft[d].desc
        /\ outbox'[d] = "succeeded" /\ tokens'[d] = req[r].toks
        /\ \A x \in Drafts \ {d} : /\ draft'[x] = draft[x] /\ report'[x] = report[x]
                                   /\ outbox'[x] = outbox[x] /\ tokens'[x] = tokens[x]
        /\ UNCHANGED <<binding, staged, subs>>
    BY <1>2, <1>3, <1>4, <1>7, RecordedTypes
  <2>2. /\ \A x \in Drafts : outbox'[x] # "none" <=> outbox[x] # "none"
        /\ \A x \in Drafts : /\ report'[x].issue = report[x].issue
                             /\ report'[x].desc = report[x].desc
                             /\ draft'[x].desc = draft[x].desc
    BY <1>3, <2>1
  <2>3. ASSUME NEW x \in Drafts PROVE SentOK(x)'
    <3>1. SentOK(x) /\ (Reached(x)' <=> Reached(x))
      BY <2>1, SParts DEF Reached
    <3>2. \/ draft'[x] = draft[x] \/ draft'[x].flow = "submitted"
      BY <2>1
    <3> QED BY <2>1, <2>2, <3>1, <3>2 DEF SentOK
  <2>4. RecordedIsListed'
    <3> SUFFICES ASSUME NEW x \in Drafts, outbox'[x] = "succeeded"
                 PROVE  /\ report'[x].ext \in RowsOf(x)'
                        /\ issues'[report'[x].issue].ext = report'[x].ext
                        /\ \E i \in Identities : <<report'[x].issue, i>> \in subs'
      BY DEF RecordedIsListed
    <3>1. RowsOf(x)' = RowsOf(x)
      BY <1>1 DEF RowsOf
    <3>2. outbox[x] # "none" /\ SentOK(x) /\ report[x].issue \in DOMAIN issues
      BY <2>2, SParts, InvParts DEF DraftOK
    <3>3. CASE x = d
      BY <1>4, <2>1, <3>1, <3>2, <3>3 DEF SentOK
    <3>4. CASE x # d
      <4>1. report[x].issue # report[d].issue
        BY <1>3, <3>2, <3>4, SParts DEF SentOK
      <4>2. issues'[report[x].issue] = issues[report[x].issue]
        BY <2>1, <3>2, <4>1
      <4>3. /\ report[x].ext \in RowsOf(x) /\ issues[report[x].issue].ext = report[x].ext
            /\ \E i \in Identities : <<report[x].issue, i>> \in subs
        BY <2>1, <3>4, SParts DEF RecordedIsListed
      <4> QED BY <2>1, <3>1, <3>4, <4>2, <4>3
    <3> QED BY <3>3, <3>4
  <2>5. OpenDraftIsBound'
    <3>1. \A x \in Drafts : outbox'[x] = "none" => outbox[x] = "none" /\ draft'[x] = draft[x]
      BY <2>1
    <3> SUFFICES ASSUME NEW e \in Drafts, Exists(e)', ~Terminal(draft[e])', outbox'[e] = "none"
                 PROVE  \E k \in Keys : binding'[k] = e
      BY DEF OpenDraftIsBound
    <3>2. outbox[e] = "none" /\ draft'[e] = draft[e] /\ binding' = binding
      BY <2>1, <3>1
    <3>3. Exists(e) /\ ~Terminal(draft[e])
      BY <3>2 DEF Exists, Terminal
    <3> QED BY <3>2, <3>3, SParts DEF OpenDraftIsBound
  <2>6. OwnBinding'
    <3>1. \A i \in Identities : KeySet(i)' = KeySet(i)
      BY DEF KeySet
    <3> QED BY <2>1, <3>1, SParts DEF OwnBinding
  <2>7. \A x \in Drafts : tokens'[x] \subseteq staged'[x]
    <3>1. req[r].toks \subseteq staged[d]
      BY <1>1, <1>2, SParts DEF WroteOK
    <3> QED BY <2>1, <3>1, SParts
  <2>8. \A x \in Requests \ {r} : WroteOK(x)'
    <3>1. \A x \in Requests \ {r} : req[x].pc \in SyncPcs => req[x].d \in Drafts
      BY SyncIs
    <3> QED BY <1>1, <1>5, <2>1, <2>2, <3>1, OthersWrote
  <2>9. WroteOK(r)'
    BY <1>5, NoClaim
  <2> QED BY <2>3, <2>4, <2>5, <2>6, <2>7, <2>8, <2>9 DEF SInv
<1> QED BY <1>6, <1>7 DEF Commit

LEMMA InitS ==
  ASSUME Init
  PROVE  SInv
<1>1. \A d \in Drafts : outbox[d] = "none" /\ ~Exists(d)
  BY DEF Init, Exists, NullDraft
<1>2. \A r \in Requests : WroteOK(r)
  <2>1. \A r \in Requests : req[r].pc = "idle"
    BY DEF Init, NullReq
  <2> QED BY <2>1 DEF WroteOK, SyncPcs
<1>3. OwnBinding
  <2>1. \A k \in Keys : binding[k] = NoDraft
    BY DEF Init
  <2>2. \A i \in Identities : KeySet(i) \subseteq Keys
    BY KeysTyped
  <2> QED BY <2>1, <2>2 DEF OwnBinding
<1>4. \A d \in Drafts : tokens[d] \subseteq staged[d]
  BY DEF Init
<1> QED BY <1>1, <1>2, <1>3, <1>4 DEF SInv, SentOK, RecordedIsListed, OpenDraftIsBound

LEMMA NextS ==
  ASSUME OneSessionEach, IInv, SInv, [Next]_vars
  PROVE  SInv'
<1>1. ASSUME NEW r \in Requests, Handle(r) PROVE SInv'
  <2>1. req[r].pc = "handle"
    BY <1>1 DEF Handle, Collect, Missing, ConfirmMatch, RejectMatch, ConfirmSubmit, Suspend,
                Resume, Cancel, HandlingDraft, Handling
  <2> QED BY <1>1, <2>1, HandleOutcome, OutcomeS
<1>2. ASSUME NEW r \in Requests, Synchronise(r) PROVE SInv'
  BY <1>2, SyncBeginS, UploadS, LookupS, WriteS, CommitS, ScheduleS DEF Synchronise
<1>3. ASSUME NEW r \in Requests, Arrive(r) \/ Progress(r) \/ Crash(r) PROVE SInv'
  BY <1>1, <1>2, <1>3, ArriveS, ReadStateS, AttachS, CrashS DEF Progress
<1>4. CASE UNCHANGED vars
  <2>1. UNCHANGED <<draft, binding, staged, tokens, issues, report, subs, outbox, rows, req>>
    BY <1>4 DEF vars
  <2>2. \A r \in Requests : WroteOK(r)'
    BY <2>1, SParts DEF WroteOK
  <2> QED BY <2>1, <2>2, SKept, SParts
<1> QED BY <1>3, <1>4, ExpireS DEF Next

LEMMA SInvHolds ==
  ASSUME OneSessionEach
  PROVE  Spec => []SInv
<1>1. Init => SInv
  BY InitS
<1>2. IInv /\ SInv /\ [Next]_vars => SInv'
  BY NextS
<1> QED BY <1>1, <1>2, InvHolds, PTL DEF Spec

-------------------------------------------------------------------------------
(***************************************************************************)
(* What a recorded, a cancelled and an open report promise, where every    *)
(* user has one session.                                                   *)
(***************************************************************************)

\* The number a user is given, and the record the database keeps, is that of the row
\* that carries the report, and its submitter follows the issue of that row.
THEOREM RecordedIsListedHolds ==
  ASSUME OneSessionEach
  PROVE  Spec => []RecordedIsListed
<1>1. SInv => RecordedIsListed
  BY DEF SInv
<1> QED BY <1>1, SInvHolds, PTL

\* A report that can still be worked on is the one its user's next message finds.
THEOREM OpenDraftIsBoundHolds ==
  ASSUME OneSessionEach
  PROVE  Spec => []OpenDraftIsBound
<1>1. SInv => OpenDraftIsBound
  BY DEF SInv
<1> QED BY <1>1, SInvHolds, PTL

\* A cancelled report has no outbox entry, and the table has no row of it.
THEOREM CancelledStaysOutHolds ==
  ASSUME OneSessionEach
  PROVE  Spec => []CancelledStaysOut
<1>1. IInv /\ SInv => CancelledStaysOut
  <2> SUFFICES ASSUME IInv, SInv, NEW d \in Drafts, draft[d].flow = "abandoned"
               PROVE  outbox[d] = "none" /\ RowsOf(d) = {}
    BY DEF CancelledStaysOut
  <2>1. outbox[d] = "none"
    BY SParts DEF SentOK
  <2>2. d # NoDraft
    BY DEF Drafts, NoDraft
  <2>3. \A n \in DOMAIN rows : rows[n].draft # d
    BY <2>1, <2>2, RowsTyped DEF RowOK
  <2> QED BY <2>1, <2>3 DEF RowsOf
<1> QED BY <1>1, InvHolds, SInvHolds, PTL

\* Only the commit of a synchronisation records a report.
LEMMA RecordsOnly ==
  ASSUME IInv, NEW d \in Drafts, [Next]_vars, outbox[d] # "succeeded", outbox'[d] = "succeeded"
  PROVE  \E r \in Requests : Commit(r) /\ Recorded(req[r].d, req[r].row, req[r].toks) /\ req[r].d = d
<1>1. ASSUME NEW r \in Requests, SyncFails(r), req[r].pc \in SyncPcs PROVE FALSE
  <2>1. outbox \in [Drafts -> {"none", "processing", "pending", "succeeded"}]
        /\ outbox' = [outbox EXCEPT ![req[r].d] = "pending"] /\ req[r].d \in Drafts
    BY <1>1, SyncIs, InvParts DEF SyncFails, Typed
  <2> QED BY <2>1
<1>2. ASSUME NEW r \in Requests, Handle(r) PROVE FALSE
  <2>1. req[r].pc = "handle"
    BY <1>2 DEF Handle, Collect, Missing, ConfirmMatch, RejectMatch, ConfirmSubmit, Suspend,
                Resume, Cancel, HandlingDraft, Handling
  <2>2. Outcome(r)
    BY <1>2, HandleOutcome
  <2>3. CASE UNCHANGED tables
    BY <2>3 DEF tables
  <2>4. ASSUME NEW e \in Drafts, Taken(r, e), Kept(e) \/ Worked(e) \/ Linked(r, e) \/ Queued(r, e)
        PROVE  FALSE
    BY <2>1, <2>4, OutcomeTables
  <2> QED BY <2>2, <2>3, <2>4 DEF Outcome
<1>3. ASSUME NEW r \in Requests, Upload(r) \/ Lookup(r) \/ Write(r) PROVE FALSE
  <2>1. req[r].pc \in SyncPcs
    BY <1>3 DEF Upload, Lookup, Write, SyncPcs
  <2>2. CASE UNCHANGED tables
    BY <2>2 DEF tables
  <2> QED BY <1>1, <1>3, <2>1, <2>2 DEF Upload, Lookup, Write
<1>4. ASSUME NEW r \in Requests,
             Arrive(r) \/ ReadState(r) \/ AttachFirst(r) \/ AttachAfter(r) \/ SyncBegin(r)
             \/ Schedule(r) \/ Crash(r)
      PROVE  FALSE
  BY <1>4 DEF Arrive, ReadState, AttachFirst, AttachAfter, SyncBegin, Schedule, Crash, tables
<1>5. ASSUME NEW e \in Drafts, Expire(e) PROVE FALSE
  BY <1>5 DEF Expire
<1>6. UNCHANGED vars => FALSE
  BY DEF vars
<1>7. PICK r \in Requests : Commit(r)
  BY <1>2, <1>3, <1>4, <1>5, <1>6 DEF Next, Progress, Synchronise
<1>8. Recorded(req[r].d, req[r].row, req[r].toks)
  BY <1>7 DEF Commit, tables
<1>9. req[r].d = d
  <2>1. outbox \in [Drafts -> {"none", "processing", "pending", "succeeded"}]
        /\ outbox' = [outbox EXCEPT ![req[r].d] = "succeeded"]
    BY <1>8, InvParts DEF Recorded, Typed
  <2> QED BY <2>1
<1> QED BY <1>7, <1>8, <1>9

\* At the moment a report is recorded, its row says what the report said when it was
\* submitted and carries every image that has been stored for the draft by then.
THEOREM RecordedCompletelyHolds ==
  ASSUME OneSessionEach
  PROVE  Spec => RecordedCompletely
<1>1. ASSUME IInv, SInv, [Next]_vars, NEW d \in Drafts,
             outbox[d] # "succeeded", outbox'[d] = "succeeded"
      PROVE  LET row == rows'[report'[d].ext]
             IN  row.desc = report'[d].desc /\ row.images = staged'[d]
  <2>1. PICK r \in Requests :
          Commit(r) /\ Recorded(req[r].d, req[r].row, req[r].toks) /\ req[r].d = d
    BY <1>1, RecordsOnly
  <2>2. req[r].pc = "commit" /\ req[r].pc \in SyncPcs /\ rows' = rows
    BY <2>1 DEF Commit, SyncPcs
  <2>3. req[r] \in ReqType /\ outbox[d] # "none" /\ req[r].toks \in SUBSET Requests
    BY <1>1, <2>1, <2>2, SyncIs
  <2>4. req[r].row \in Nat
    BY ONLY <2>3 DEF ReqType
  <2>5. report'[d].ext = req[r].row /\ report'[d].desc = report[d].desc /\ staged' = staged
    BY <1>1, <2>1, <2>3, <2>4, RecordedTypes
  <2>6. /\ rows[req[r].row].desc = draft[d].desc /\ rows[req[r].row].images = req[r].toks
        /\ req[r].toks = staged[d]
    BY <1>1, <2>1, <2>2, SParts DEF WroteOK
  <2>7. draft[d].desc = report[d].desc
    BY <1>1, <2>3, SParts DEF SentOK
  <2> QED BY <2>2, <2>5, <2>6, <2>7
<1>2. IInv /\ SInv /\ [Next]_vars =>
        [\A d \in Drafts : outbox[d] # "succeeded" /\ outbox'[d] = "succeeded" =>
           LET row == rows'[report'[d].ext]
           IN  row.desc = report'[d].desc /\ row.images = staged'[d]]_vars
  BY <1>1
<1> QED BY <1>2, InvHolds, SInvHolds, PTL DEF Spec, RecordedCompletely

===============================================================================
