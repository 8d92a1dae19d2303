----------------------------- MODULE IssueStatus -----------------------------
(***************************************************************************)
(* Progress of issues and its notifications.  The staff edits the progress *)
(* of the records of the Feishu table.  A reconciliation pass (Celery beat *)
(* or POST v2/issues/reconcile) lists the subscribed issues, reads each    *)
(* record over the network and then, in a transaction, compares it with    *)
(* the progress in the snapshot of the issue; a change becomes a delivery  *)
(* for each subscriber.  Deliveries of the push channel are sent to WeCom  *)
(* by Celery tasks, the others are listed and acknowledged by the user.    *)
(* Users subscribe when they submit a report or link it to a record.       *)
(*                                                                         *)
(* A progress (status, reply and result) is a number; 0 is the empty one.  *)
(***************************************************************************)
EXTENDS Integers, Sequences, FiniteSets, SequencesExt

CONSTANTS Records,      \* records of the Feishu table
          NumIssues,    \* issues of the database, in the order of their ids
          RecordOf,     \* the record of an issue
          LocalIssues,  \* issues made by a submission; the others by a link
          Users, PushUsers,
          Reachable,    \* push users whose session id names a KF account
          Beats,        \* passes that beat starts over and over
          Routes,       \* passes that a call of the route starts, once each
          Limit,        \* issues per pass
          Progresses,   \* what staff may enter
          MaxEdits,     \* bound on edits
          MaxDeliveries, \* as many as the other bounds allow
          MaxReports,   \* bound on subscriptions made, per user
          MaxRetries,   \* max_retries of a delivery task
          FaultOps, MaxFaults

Issues == 1..NumIssues
Passes == Beats \cup Routes
None == 0
Unknown == -1    \* no such issue in the database yet
Ops == {"fetch", "apply", "publish", "send", "answer", "mark", "crash"}

ASSUME IssueStatusAssumption ==
  /\ NumIssues \in Nat /\ Limit \in Nat /\ MaxEdits \in Nat /\ MaxReports \in Nat
  /\ MaxRetries \in Nat /\ MaxFaults \in Nat
  /\ RecordOf \in [Issues -> Records]
  /\ LocalIssues \subseteq Issues
  /\ IsFiniteSet(Users) /\ PushUsers \subseteq Users /\ Reachable \subseteq PushUsers
  /\ Beats \cap Routes = {}
  /\ Progresses \subseteq Nat /\ \E v \in Progresses : v # None
  /\ FaultOps \subseteq Ops

VARIABLES
  record,    \* progress in the Feishu table
  snapshot,  \* progress in the snapshot of each issue
  subs,      \* bug_subscriptions, active ones
  delivery,  \* bug_notification_deliveries, in the order of creation
  pass,      \* the reconciliation passes
  job,       \* the delivery task of each delivery
  sent,      \* how often WeCom has handed each delivery to its user
  cand,      \* candidate that a user's draft holds: a record and its progress
  reports, edits, faults

stored == <<snapshot, subs, delivery>>
vars == <<record, snapshot, subs, delivery, pass, job, sent, cand, reports, edits, faults>>

NullPass == [pc |-> "idle", todo |-> {}, issue |-> None, seen |-> None, out |-> {}]
NullCand == [record |-> None, progress |-> None]
Deliveries == DOMAIN delivery

Fault(op) == /\ op \in FaultOps
             /\ faults < MaxFaults
             /\ faults' = faults + 1

-----------------------------------------------------------------------------
(* The table and the subscriptions                                         *)

Edit(x) ==
  /\ edits < MaxEdits
  /\ \E v \in Progresses \ {record[x]} : record' = [record EXCEPT ![x] = v]
  /\ edits' = edits + 1
  /\ UNCHANGED <<stored, pass, job, sent, cand, reports, faults>>

\* A draft is matched; it keeps the record as it is now (_best_candidate).
Match(u, x) ==
  /\ reports[u] < MaxReports /\ cand[u] = NullCand
  /\ cand' = [cand EXCEPT ![u] = [record |-> x, progress |-> record[x]]]
  /\ UNCHANGED <<record, stored, pass, job, sent, reports, edits, faults>>

\* The user confirms the match: the candidate becomes the snapshot of the issue, a
\* new one or the one others follow (_ensure_external_issue, _ensure_subscription).
Link(u) ==
  /\ cand[u] # NullCand
  /\ \E i \in Issues \ LocalIssues :
       /\ RecordOf[i] = cand[u].record
       /\ snapshot' = [snapshot EXCEPT ![i] = cand[u].progress]
       /\ subs' = subs \cup {<<i, u>>}
  /\ cand' = [cand EXCEPT ![u] = NullCand]
  /\ reports' = [reports EXCEPT ![u] = @ + 1]
  /\ UNCHANGED <<record, delivery, pass, job, sent, edits, faults>>

\* A submission is recorded, perhaps after its candidate was rejected: its issue starts
\* without a progress.
Submit(u, i) ==
  /\ reports[u] < MaxReports
  /\ i \in LocalIssues /\ snapshot[i] = Unknown
  /\ snapshot' = [snapshot EXCEPT ![i] = None]
  /\ subs' = subs \cup {<<i, u>>}
  /\ cand' = [cand EXCEPT ![u] = NullCand]
  /\ reports' = [reports EXCEPT ![u] = @ + 1]
  /\ UNCHANGED <<record, delivery, pass, job, sent, edits, faults>>

-----------------------------------------------------------------------------
(* A reconciliation pass                                                   *)

Followed == {i \in Issues : \E u \in Users : <<i, u>> \in subs}

\* Mutant: an issue is polled until its first progress is known.
BatchUnobserved == {i \in Followed : snapshot[i] = None}

\* _subscribed_issue_query: the first ones in the order of their ids.
Batch == {i \in Followed : Cardinality({k \in Followed : k <= i}) <= Limit}

Begin(p) ==
  /\ pass[p].pc = "idle"
  /\ Batch # {}
  /\ pass' = [pass EXCEPT ![p] = [NullPass EXCEPT !.pc = "fetch", !.todo = Batch]]
  /\ UNCHANGED <<record, stored, job, sent, cand, reports, edits, faults>>

Over(p) == [NullPass EXCEPT !.pc = IF p \in Beats THEN "idle" ELSE "over"]

\* When the issues are done, beat queues a task per delivery; the route returns the ids.
After(p, q) ==
  IF q.todo # {} THEN [q EXCEPT !.pc = "fetch", !.issue = None, !.seen = None]
  ELSE IF p \in Beats /\ q.out # {} THEN [NullPass EXCEPT !.pc = "publish", !.out = q.out]
  ELSE Over(p)

Smallest(S) == CHOOSE i \in S : \A k \in S : i <= k

\* get_record; an error only skips the issue.
Fetch(p) ==
  LET q == pass[p]
      i == Smallest(q.todo)
  IN  /\ q.pc = "fetch"
      /\ \/ /\ pass' = [pass EXCEPT ![p] = [q EXCEPT !.pc = "apply", !.todo = @ \ {i}, !.issue = i,
                                                     !.seen = record[RecordOf[i]]]]
            /\ UNCHANGED faults
         \/ /\ Fault("fetch")
            /\ pass' = [pass EXCEPT ![p] = After(p, [q EXCEPT !.todo = @ \ {i}])]
      /\ UNCHANGED <<record, stored, job, sent, cand, reports, edits>>

\* A sequence of deliveries, one for each subscriber of the issue.
Notices(i, v) ==
  LET order == SetToSeq({u \in Users : <<i, u>> \in subs})
  IN  [n \in DOMAIN order |->
        [issue |-> i, who |-> order[n], progress |-> v,
         status |-> IF order[n] \in PushUsers THEN "pending" ELSE "available"]]

\* Mutant: a task for every delivery.
PushedAll(new) == DOMAIN new

Pushed(new) == {n \in DOMAIN new : new[n].status = "pending"}

\* An empty observation, the first progress and an unchanged one notify nobody.
IsChange(old, new) == old # None /\ old # new

\* _apply_observation, with FOR UPDATE on the issue.
Apply(p) ==
  LET q   == pass[p]
      i   == q.issue
      new == Notices(i, q.seen)
      ids == {Len(delivery) + n : n \in Pushed(new)}
  IN  /\ q.pc = "apply"
      /\ \/ /\ q.seen = None
            /\ pass' = [pass EXCEPT ![p] = After(p, q)]
            /\ UNCHANGED <<snapshot, delivery, job, sent, faults>>
         \/ /\ q.seen # None
            /\ snapshot' = [snapshot EXCEPT ![i] = q.seen]
            /\ \/ /\ IsChange(snapshot[i], q.seen)
                  /\ delivery' = delivery \o new
                  /\ job' = job \o [n \in DOMAIN new |-> [pc |-> "none", tries |-> 0]]
                  /\ sent' = sent \o [n \in DOMAIN new |-> 0]
                  /\ pass' = [pass EXCEPT ![p] = After(p, [q EXCEPT !.out = @ \cup ids])]
               \/ /\ ~IsChange(snapshot[i], q.seen)
                  /\ pass' = [pass EXCEPT ![p] = After(p, q)]
                  /\ UNCHANGED <<delivery, job, sent>>
            /\ UNCHANGED faults
         \/ /\ q.seen # None
            /\ Fault("apply")
            /\ pass' = [pass EXCEPT ![p] = After(p, q)]
            /\ UNCHANGED <<snapshot, delivery, job, sent>>
      /\ UNCHANGED <<record, subs, cand, reports, edits>>

\* apply_async for each delivery; an error ends the task with the rest unqueued.
Publish(p) ==
  LET q == pass[p]
      n == Smallest(q.out)
      rest == q.out \ {n}
  IN  /\ q.pc = "publish"
      /\ \/ /\ job' = [job EXCEPT ![n].pc = "queued"]
            /\ pass' = [pass EXCEPT ![p] = IF rest = {} THEN NullPass ELSE [q EXCEPT !.out = rest]]
            /\ UNCHANGED faults
         \/ /\ Fault("publish")
            /\ pass' = [pass EXCEPT ![p] = NullPass]
            /\ UNCHANGED job
      /\ UNCHANGED <<record, stored, sent, cand, reports, edits>>

PassCrash(p) ==
  /\ pass[p].pc \notin {"idle", "over"}
  /\ Fault("crash")
  /\ pass' = [pass EXCEPT ![p] = Over(p)]
  /\ UNCHANGED <<record, stored, job, sent, cand, reports, edits>>

-----------------------------------------------------------------------------
(* A delivery task                                                         *)

Job(n, pc, tries) == job' = [job EXCEPT ![n] = [pc |-> pc, tries |-> tries]]
Mark(n, status) == delivery' = [delivery EXCEPT ![n].status = status]
\* Mutant: what has been read is sent again.
SeenWhenSent(n) == delivery[n].status = "sent"

Seen(n) == delivery[n].status \in {"sent", "read"}

\* Mutant: a failed attempt is not repeated.
AgainNever(n) == Job(n, "none", job[n].tries)

\* self.retry: the task goes back to the broker until its retries are used up.
Again(n) == IF job[n].tries < MaxRetries THEN Job(n, "queued", job[n].tries + 1)
            ELSE Job(n, "gave_up", job[n].tries)

\* The first transaction.  A task is acknowledged when it starts.
Take(n) ==
  /\ job[n].pc = "queued"
  /\ \/ Seen(n) /\ Job(n, "done", job[n].tries) /\ UNCHANGED delivery
     \/ /\ ~Seen(n)
        /\ Mark(n, "processing")
        /\ Job(n, IF delivery[n].who \in Reachable THEN "send" ELSE "fail", job[n].tries)
  /\ UNCHANGED <<record, snapshot, subs, pass, sent, cand, reports, edits, faults>>

\* Mutant: a refusal by WeCom is not noticed.
SendUnchecked(n) ==
  /\ job[n].pc = "send"
  /\ \/ sent' = [sent EXCEPT ![n] = @ + 1] /\ UNCHANGED faults
     \/ Fault("send") /\ UNCHANGED sent
  /\ Job(n, "mark", job[n].tries)
  /\ UNCHANGED <<record, stored, pass, cand, reports, edits>>

\* The call to WeCom: refused, executed, or executed with its answer lost.
Send(n) ==
  /\ job[n].pc = "send"
  /\ \/ /\ sent' = [sent EXCEPT ![n] = @ + 1]
        /\ Job(n, "mark", job[n].tries)
        /\ UNCHANGED faults
     \/ /\ Fault("send")
        /\ Job(n, "fail", job[n].tries)
        /\ UNCHANGED sent
     \/ /\ Fault("answer")
        /\ sent' = [sent EXCEPT ![n] = @ + 1]
        /\ Job(n, "fail", job[n].tries)
  /\ UNCHANGED <<record, stored, pass, cand, reports, edits>>

\* The second transaction after a success; it does not look at the status.
MarkSent(n) ==
  /\ job[n].pc = "mark"
  /\ \/ Mark(n, "sent") /\ Job(n, "done", job[n].tries) /\ UNCHANGED faults
     \/ Fault("mark") /\ Again(n) /\ UNCHANGED delivery
  /\ UNCHANGED <<record, snapshot, subs, pass, sent, cand, reports, edits>>

\* Mutant: the attempt ends without a word in the database.
MarkFailedSilently(n) ==
  /\ job[n].pc = "fail"
  /\ Job(n, "done", job[n].tries)
  /\ UNCHANGED <<record, stored, pass, sent, cand, reports, edits, faults>>

\* _mark_delivery_failed, with which the attempt ends.
MarkFailed(n) ==
  /\ job[n].pc = "fail"
  /\ Again(n)
  /\ \/ Mark(n, "pending") /\ UNCHANGED faults
     \/ Fault("mark") /\ UNCHANGED delivery
  /\ UNCHANGED <<record, snapshot, subs, pass, sent, cand, reports, edits>>

Running(n) == job[n].pc \in {"send", "mark", "fail"}

JobCrash(n) ==
  /\ Running(n)
  /\ Fault("crash")
  /\ Job(n, "crashed", job[n].tries)
  /\ UNCHANGED <<record, stored, pass, sent, cand, reports, edits>>

-----------------------------------------------------------------------------
(* The user's list: GET v2/notifications and POST v2/notifications/ack     *)

\* A list shows what is available, pending or sent.  A delivery is pending or available
\* when it is created, so its user may know its id from then on, and acknowledge it
\* also while it is processed.
Acknowledge(n) ==
  /\ delivery[n].status # "read"
  /\ Mark(n, "read")
  /\ UNCHANGED <<record, snapshot, subs, pass, job, sent, cand, reports, edits, faults>>

-----------------------------------------------------------------------------
Init ==
  /\ record \in [Records -> {None} \cup {CHOOSE v \in Progresses : v # None}]
  /\ snapshot = [i \in Issues |-> Unknown]
  /\ subs = {}
  /\ delivery = <<>> /\ job = <<>> /\ sent = <<>>
  /\ pass = [p \in Passes |-> NullPass]
  /\ cand = [u \in Users |-> NullCand]
  /\ reports = [u \in Users |-> 0]
  /\ edits = 0 /\ faults = 0

Reconcile(p) == Begin(p) \/ Fetch(p) \/ Apply(p) \/ Publish(p)
Deliver(n) == Take(n) \/ Send(n) \/ MarkSent(n) \/ MarkFailed(n)

Next ==
  \/ \E x \in Records : Edit(x) \/ \E u \in Users : Match(u, x)
  \/ \E u \in Users : Link(u) \/ \E i \in Issues : Submit(u, i)
  \/ \E p \in Passes : Reconcile(p) \/ PassCrash(p)
  \/ \E n \in Deliveries : Deliver(n) \/ JobCrash(n) \/ Acknowledge(n)

Spec == Init /\ [][Next]_vars

\* Beat starts its passes again and again and the worker executes every queued task;
\* nothing obliges a user or the caller of the route.  (Deliveries that may exist are
\* numbered up to MaxDeliveries, for the quantifier.)
FairSpec ==
  /\ Spec
  /\ \A p \in Beats : WF_vars(Reconcile(p))
  /\ \A p \in Routes : WF_vars(Fetch(p) \/ Apply(p))
  /\ \A n \in 1..MaxDeliveries : WF_vars(n \in Deliveries /\ Deliver(n))

-----------------------------------------------------------------------------
\* Types; a task is queued or runs only for a delivery of the push channel, and what is
\* under way belongs to one attempt.
StatusTypeOK ==
  /\ record \in [Records -> Progresses \cup {None}]
  /\ snapshot \in [Issues -> Progresses \cup {None, Unknown}]
  /\ subs \subseteq {i \in Issues : snapshot[i] # Unknown} \X Users
  /\ \A n \in Deliveries :
       /\ delivery[n] \in [issue: Issues, who: Users, progress: Progresses \ {None},
                           status: {"available", "pending", "processing", "sent", "read"}]
       /\ job[n].pc # "none" => delivery[n].who \in PushUsers
       /\ job[n].tries \in 0..MaxRetries
  /\ Len(delivery) <= MaxDeliveries /\ DOMAIN job = Deliveries /\ DOMAIN sent = Deliveries
  /\ \A p \in Passes : pass[p].pc = "apply" => pass[p].issue \in Followed
  /\ cand \in [Users -> [record: Records \cup {None}, progress: Progresses \cup {None}]]

\* A notification that is in nobody's list is being sent, waits for its next attempt
\* or was left behind by a crash or the last retry.
HiddenIsHandled ==
  \A n \in Deliveries : delivery[n].status = "processing" =>
    Running(n) \/ job[n].pc \in {"queued", "gave_up", "crashed"}

\* A notification counts as sent only after WeCom has handed it to the user.
SentMeansTold == \A n \in Deliveries : delivery[n].status = "sent" => sent[n] > 0

\* What the user has read stays read, unless an attempt was under way at the time.
ReadStaysRead ==
  [][\A n \in Deliveries : delivery[n].status = "read" /\ ~Running(n)
       => delivery'[n].status = "read"]_vars

\* The system learns of every lasting change of a record that is followed.
Outdated(i) == snapshot[i] # record[RecordOf[i]] /\ record[RecordOf[i]] # None
SnapshotsConverge == <>[](\A i \in Followed : ~Outdated(i))

\* A queued delivery is sent or read unless its task was lost or gave up.
QueuedIsDelivered ==
  \A n \in 1..MaxDeliveries :
    (n \in Deliveries /\ job[n].pc = "queued")
      ~> (n \in Deliveries /\ (Seen(n) \/ job[n].pc \in {"gave_up", "crashed"}))

\* "You will be notified of later changes": when the snapshot of an issue changes from
\* one progress to another, each subscriber gets a delivery, or has just been shown
\* the progress as a candidate.
ChangesAreTold ==
  [][\A i \in Issues, u \in Users :
       /\ snapshot[i] \notin {Unknown, None} /\ snapshot'[i] \notin {snapshot[i], None}
       /\ <<i, u>> \in subs /\ cand[u] = cand'[u]
       => \E n \in DOMAIN delivery' \ Deliveries :
            /\ delivery'[n].issue = i /\ delivery'[n].who = u
            /\ delivery'[n].progress = snapshot'[i]]_vars
=============================================================================
