# A TLA+ model of the WeCom AI customer service

The service answers customers of WeCom (Enterprise WeChat). Messages arrive by
callback (customer service accounts, "KF", and group bots), go through a Redis
queue, are answered by a Dify workflow or by the bug assistant, and leave
through the adapter they came from. Bug reports end up in a shared Feishu table,
whose changes come back to the users as notifications. Several server processes
and Celery workers share Redis and a SQL database.

This directory models the parts whose correctness depends on the order of steps
of several actors, on crashes and on failing calls. Text handling and HTTP
clients are outcomes of the steps that call them.

## Inventory

| part | source (`src/app/`) | state | operations | talks to | modelled in |
|---|---|---|---|---|---|
| dispatch | `routes/wechat.py`, `main.py` | background tasks | receive, enqueue, memory dispatch when that fails, retry | adapters, queue, processor | `Dispatch` |
| adapters | `protocols/kf_adapter.py`, `protocols/bot_adapter.py`, `services/wechat.py` | sync lock, tokens | receive, sync, send | WeCom | `Dispatch` |
| message queue | `services/message_queue.py` | Redis lists `main`, `proc:{consumer}`, `dead`; heartbeats; locks; `_pending_acks` | enqueue, claim, handle (lock, process, ack / retry / dead letter), heartbeat, recovery, start, stop | routes, processor, dedup store | `MessageQueue` |
| dedup store | `services/dedup_store.py`, `protocols/base.py` | `proc:{msgid}`, `done:{msgid}` with TTLs | acquire, mark_done, release_processing | processor, queue | `MessageQueue` (Redis), `Dispatch` (both, per message) |
| message processor | `services/message_processor.py` | none of its own | process: dedup, timer, input, handoff, route, AI or bug assistant, send, marks | everything | skeleton in `MessageQueue`, inside in `Turn` |
| reply policy, intent | `services/charge_reply_policy.py`, `services/customer_intent.py` | none | evaluate, route_target, classify | processor | `ReplyPolicy` |
| conversation store | `services/conversation_store.py` | flags and conversation id per user, sliding TTL | get, save, clear | processor | `Turn` (the flags) |
| pending timers | `services/timer_coordinator.py`, `services/pending_timer_store.py`, `tasks/bugtrack_tasks.py` | `wecom:timer:{user}:{scope}`; Celery countdowns | cancel, arm, fire | processor, Celery | `PendingTimer` |
| bug drafts and submissions | `services/bug_assistant_*.py`, `services/bugtrack_service.py`, `services/bug_issue_sync_service.py` | drafts, bindings, attachments, reports, issues, outbox (SQL) | collect, match, confirm, suspend, resume, cancel, synchronise, retry | Feishu, Celery | `BugReport`, promise in `Submission` |
| issue status | `services/bug_issue_status_service.py` | snapshots, subscriptions, deliveries (SQL) | reconcile, deliver, list, acknowledge | Feishu, WeCom, Celery | `IssueStatus` |
| the rest | Dify, Chatwoot, Feishu, smart sheet clients, media, ASR, crypto, monitoring, configuration, internal routes | caches at most | HTTP and text | | no |

How they interact: a route hands a message to the queue (or to memory); the
queue calls the processor under the user's lock; the processor marks the dedup
store, cancels and arms timers, reads and saves the conversation flags, and calls
the bug assistant, whose transactions change drafts and leave a submission to be
synchronised with Feishu; a Celery beat compares the Feishu records with the
snapshots and leaves deliveries, which are sent by tasks or carried by the next
reply.

What is hard in it:

* **Interleaving.** Every `await` is a switch point, for coroutines of one
  process and for processes sharing Redis. Two callbacks may carry one msgid, and
  every KF callback fetches messages that others have fetched.
* **Crash and stop** at any await, with recovery by other processes whose only
  evidence is a heartbeat key; Celery tasks are acknowledged when they start.
* **Failing calls.** A call that raises may have been executed. Each call
  site has its own policy: fail-open, swallow, ignore the result, remember, re-raise.
* **TTLs** that run out under a holder that is merely slow.
* **Races with Celery**: revoked tasks that run all the same, late workers.
* **Several stores in one operation** (SQL, Feishu, Redis): the draft is in SQL,
  the flags that steer towards it in Redis, its row in Feishu.

What makes each part correct:

* dispatch: a message is answered once though several callbacks fetch it and
  queue and memory may both hold it, as long as the dedup store answers; every
  message is answered, or lost in a way that is known;
* queue: nothing is lost, nothing doubled, one worker per user, retries bounded,
  every delivery resolved, no process disturbs another that lives;
* turn: the flags agree with the draft, a question does not become part of a
  report, no endless row of clarifications, a notification goes only once shown;
* timers: a timeout only for a silent user, where the cancel works; one live countdown, no newer timer
  removed by an older cancel, an unanswered timer does fire;
* drafts: a confirmed draft becomes one row, whole and known to the database; a
  cancelled one none; a draft that can be continued is found by its user;
* notifications: what is hidden is in somebody's hands, sent means told, read is
  final, every change is observed.

## Modules

| module | models |
|---|---|
| `MessageQueue`, `MCMessageQueue`, `MessageQueueProofs`, `DeliveryProofs` | queue, Redis dedup store and the skeleton of `MessageProcessor.process` |
| `PendingTimer`, `MCPendingTimer`, `PendingTimerProofs` | timers of one (user, scope) |
| `ReplyPolicy` | the pure decisions about a text |
| `Turn`, `MCTurn`, `TurnProofs` | the inside of `process` (EXTENDS `ReplyPolicy`) |
| `Dispatch`, `DispatchProofs` | callbacks, adapters, hand-over to queue or memory |
| `Submission` | abstract specification: what becomes of one report |
| `BugReport`, `MCBugReport`, `BugReportProofs` | orchestrator, message service, synchronisation; implements `Submission` |
| `IssueStatus`, `MCIssueStatus`, `IssueStatusProofs` | reconciliation, deliveries, acknowledgement |

The `MC` modules only hold values for TLC. `PROJECT.json` maps every definition
to the source lines it models. Definitions marked "Mutant" are plausible
mistakes; replacing the definition they accompany by them makes TLC find a
violation of the property they are listed with.

The components meet at abstractions of each other: `Dispatch` has the queue as a
sequence with one worker and a turn as an outcome; `Turn` is run by one worker at
a time because `MutualExclusion` holds in `MessageQueue`, and its draft is one of
four phases that summarise the flow states of `BugReport`; the notifications it
carries are the deliveries of `IssueStatus`, and the link and submission of
`IssueStatus` are the transactions of `BugReport` that subscribe a user.

### MessageQueue

One step is one Redis command or Lua script of one coroutine. A list is a
sequence whose first element is the right end, the one `BLMOVE` pops; `LPUSH` is
`Append`. A `Consumer` is one incarnation of a process, since consumer ids are
random. An envelope (`Raw`) is its delivery id, its attempts and the
`processing_started_at` stamp: `LREM` compares whole texts, so the model keeps
what distinguishes texts and nothing else. Stamps come from a small set; a value
that nothing remembers any more stands for a new time.

| variable | code |
|---|---|
| `main`, `proc`, `dead` | the three kinds of Redis lists |
| `pend` | `_pending_acks` |
| `heartbeat`, `lock`, `procKey`, `doneKey` | Redis keys with a TTL |
| `wk[w]` | a worker coroutine: program counter, envelope, whether it holds a token, outcome |
| `rec[c]` | the start / maintenance / stop coroutine: sweep position and items read |
| `status[c]` | the life of a process |
| `enq`, `settled`, `sends`, `exposed`, `excused` | history, read by properties only |

A worker goes `idle` → `claim` (`_mark_processing_started`) → `lock`
(`_run_with_lock`) → `dedup` (`acquire`) → `work` → `send` → `mark`
(`mark_done`) → `post` → `unlock` → `book` (ack, retry, dead letter), with
`release` in place of `mark` and `post` when `process()` fails. `work` is one
step with three outcomes: a reply to send, nothing to send, an exception.

Each call that may raise has an action `...Fails`. It chooses whether Redis had
executed the call and then follows the handler of that call site. `FaultOps`
says which calls may raise in an instance and `MaxFaults` how many do. A TTL that
runs out after its holder is gone is an ordinary action (`HeartbeatExpire`,
`LockExpire`, `ProcKeyExpire`); one that runs out under a live holder is a
lapse, bounded by `MaxLapses`. `exposed` collects users whose lock was bypassed
(fail-open) or lapsed, `excused` the msgids whose done mark was cut off, failed or
expired: the properties that rest on these keys exempt exactly those.

A cancelled worker (`stop()`) follows the code's handlers: inside the `try` of
`process()` it still releases its processing key; in the cancel of the timer,
which precedes the `try`, it does not.

### PendingTimer

The turns of one user and scope, the metadata key and the Celery tasks. `get`,
`revoke`, `clear`, `apply_async` and `store.arm` are separate steps; fire is the
compare-and-delete script. `Serialized` chooses between turns under the queue
lock and memory dispatch without it. `LateWorker` lets the metadata expire before
the task. A broadcast revocation may be missed, so a revoked task may still run.
`stray` names the tasks that a failed call, a crash or a late worker cut loose.

`silenced` holds the tasks whose user has spoken since: those stored before an inbound
message, once the cancel of that message is over, however it ended. The code
swallows what the cancel raises (`timer_coordinator.py:103`), so some of them may still be
in the metadata; these are in `missed`, until a later cancel works. Such a task does time
out for a user who has spoken. `TimeoutOnlyAfterSilence` exempts exactly these, and a task
whose own calls raise.

### Turn and ReplyPolicy

A text is the set of term lists of `shared/charge_service.yaml` that it hits, its
number of bug terms (two stands for more) and, if it is one, the command word.
The decisions of `ReplyPolicy` are the code's, in the code's order.

| variable | code |
|---|---|
| `conv` | `wecom:convstate`: draft active, suspended, clarification count, exhausted |
| `draft` | phase of the latest draft, and whether a question is written into it |
| `notices` | notifications listed for the user |
| `turn` | local variables of `process` (`st` is the state it has read and will save) |
| `settled`, `prompts`, `resets`, `shown` | history, read by properties only |

One action per await of `process`: `ReadState` → `Prepare` → `Handoff` → `Route`
→ `Progress`, `Suspend` (or `Sorry`), `RunBugV2`, `Ai`, `Marker` → `Save` → `Send`
→ `MarkDone` → `Acknowledge`. A call that raises may have been executed; where
the code answers a failure with an apology, so does the model. `settled` says that
the flags which follow from the last call of the assistant have been saved and
nothing has expired since.

`prompts` counts what the user sees: clarifications that arrived since the last other
answer that arrived. Redis has another count, `vague_count`, which is saved before the
reply is sent (`message_processor.py:396`, `443`) and so goes back to zero also for an answer
whose send then returns False (549), or when the conversation expires. `resets` counts
how often that happened in one row of clarifications. `PromptsBounded` allows
`MaxPrompts` in a row and `MaxPrompts` more for each of `resets`; the bound is reached.

### Dispatch

| variable | code |
|---|---|
| `written`, `old` | messages WeCom has, and those no longer recent |
| `call` | a callback's handler: receive, sync loop, hand-over, background tasks |
| `syncLock` | `WeChatService._sync_lock` |
| `queue`, `exec` | the queue, its worker, and the background tasks that run `process` |
| `dedup` | the mark of each message, in Redis or in memory |
| `answered`, `forgot`, `unguarded`, `settled`, `behind` | history, read by properties only |

A KF callback only says that there is something to fetch; the handler starts
without a cursor each time and stops after enough messages, so that the same
message is handed over by several callbacks. An enqueue that raises may have put
the message into the queue and is followed by memory dispatch. A crash takes
handlers, tasks and, without Redis, all marks. Two facts about the surroundings
are assumed: `sync_msg` without a cursor returns the newest page first, and a
mark outlives the turn that set it and the time in which its message is recent.
A process with a queue has the dedup store in Redis, one without has it in memory.

The store in Redis has three failures of its own, none of which the caller sees:
`acquire` lets the message through (`dedup_store.py:78`), `mark_done` leaves the message
without a done mark (90), `release_processing` leaves the processing mark (114), so that
the next attempt skips the message. The histories name what they, and the sync loop, cost:

* `forgot`: answered, and the mark of the answer is gone or could not be set;
* `unguarded`: let through by a failing `acquire`;
* `settled`: the send, the callback or the last attempt failed, the process died with the
  message in hand, or the mark of a failed attempt stayed;
* `behind`: the callback of the message stopped at newer ones, all of its calls having
  succeeded. If the other callbacks have run, nothing fetches the message any more.

### BugReport and Submission

| variable | code |
|---|---|
| `draft`, `binding`, `staged`, `tokens` | `bug_drafts`, `bug_conversation_bindings`, `bug_attachments` and their Feishu tokens |
| `issues`, `report`, `subs`, `outbox` | the tables of these names |
| `rows` | the Feishu table; the index of a row is its record id |
| `lock` | row lock of a draft under synchronisation |
| `req` | the requests and the retry tasks they leave behind |

A request is a message, a structured turn or, later, its own retry task. It reads
the state in one transaction (`ReadState`) and is handled in another, so that the
draft may have moved on; each orchestrator event is one action with all that its
transaction writes. The synchronisation holds its transaction and the row lock
over its Feishu calls: `SyncBegin`, `Upload`, `Lookup`, `Write`, `Commit`, each of
which may fail before or after its effect. What a rolled back transaction wrote is
gone; what Feishu did stays, and `Lookup` is what finds it again. A description is
the set of requests whose text it holds.

`Submission` is what a user may rely on: a draft is linked or queued, a queued one
gets at most one row, and is recorded once that row exists. `ImplementsSubmission`
is the refinement: the phase is read off `outbox` and `report`, the rows are those
that carry the draft's id.

### IssueStatus

| variable | code |
|---|---|
| `record`, `snapshot` | progress in the Feishu table, and in the snapshot of an issue |
| `subs`, `delivery` | active subscriptions, `bug_notification_deliveries` |
| `pass`, `job` | reconciliation passes, delivery tasks |
| `sent` | how often WeCom has handed a delivery to its user |
| `cand` | the candidate a user's draft holds: a progress read at matching time |

A pass takes a batch, fetches each record over the network and applies it in a
transaction of its own; a delivery task takes its delivery, calls WeCom and marks
it in a second transaction that does not look at the status.

## Runs

| run | instance | shows |
|---|---|---|
| `mq_crash` | 2 processes, 1 mortal, 2 deliveries of 1 msgid | recovery loses nothing; lock, reply and heartbeat guarantees through crash and stop |
| `mq_faults` | 2 processes, 2 messages of 1 user, one unreadable; 1 fault, not in `release_processing` | lists stay duplicate-free, nothing lost, attempts never start over |
| `mq_lapse` | 2 processes, 1 message, keys lapsing under live holders | duplicate-free lists; unique reply outside the exempted cases; late releases harmless |
| `mq_live` | crashes and stops, fair | every delivery resolved |
| `mq_live_faults` | crashes and 2 faults among the calls the code retries, fair | every delivery resolved |
| `timer_lock` | 3 turns, 3 tasks, lock, 2 faults, crashes, late worker, fair | one live timer, timeouts only after silence or a failed cancel, cancels remove what they read, an unanswered timer times out |
| `turn` | 6 turns of one user, KF or bot, a text of every class, 2 faults or crashes, expiries | flags follow the draft, clarifications in a row bounded per reset of their count, only reports open drafts, questions suspend them, notifications shown before they go |
| `dispatch` | 2 messages, KF or bot, with and without queue, pages of one message, 2 attempts, 2 faults, fair | answered once while the mark stands and the dedup store answers; every message answered, lost in a named way or left behind by its callback |
| `bug_report` | 3 requests of one user with every event, 2 drafts, 2 faults or crashes, an expiry, fair | at most one row per report (refinement), whole, known to the database; nothing cancelled in the table; no draft out of reach; synchronisations end |
| `issue_status` | 2 users, one record both linked and submitted, an edit, a retry, 2 faults or crashes, fair | nothing hidden but in hand or named; sent means told; read stays read; snapshots converge; queued deliveries arrive |

Two runs end in a violation; they record where the code and its own words differ:

| run | property | what happens |
|---|---|---|
| `status_absorbed` | `ChangesAreTold` | a second user links a record after staff has edited it; the link writes the candidate's progress into the snapshot of the issue (`bug_assistant_orchestrator.py:617`), the next pass sees no change, and the first subscriber is never told, though `bug_assistant_message_service.py:403` promises it |
| `turn_question` | `QuestionsStayOut` | a verified knowledge question finds an open draft and the `SUSPEND` call raises; `process` goes on with the draft still active (`message_processor.py:236`) and the question becomes part of it, though the comment below says it cannot |

### Why the bounds are enough

Queue: the hazards need two actors on one msgid or one user, hence two processes,
two deliveries, two attempts (one retry, then the dead letter) and as many
stamps as it takes for a claim always to find a new one. One fault is every
single failure at every point; two are needed where a repeated ack may fail again
and, in the other modules, where a failure in one turn or synchronisation meets a
failure in the next.

Timers: three turns are one that arms, one that cancels and one that arms again in
between. Turns: six are the longest story the flags tell (report, suspension,
question, two clarifications, resumption). Dispatch: two messages and pages of one
are the least for which a callback fetches what another has fetched. One message is
enough for the loop (`Enough`), as a page of the code (100) is larger than what it
calls enough (10): the loop stops at a recent page and leaves the older message behind,
goes on past one that is no longer recent, and ends at the first message. The bound on pages
ends it in this instance only after a failed call; that it also leaves a message
behind with none needs a third message. With three messages, `Enough = 2` and no faults
the same properties hold (299,288 states), and with three and a fault the run exceeds the
time it is given. What is left behind is no matter of these bounds: `behind` is not empty in the
run, and the property fails without it (below). Reports: three requests are a report,
its confirmation and one more that races with its synchronisation; two drafts are
one and the one that replaces it. Status: two users are one who follows an issue
and one who joins; two issues share a record, which the schema allows.

`CHECK_DEADLOCK FALSE` is set for `timer_lock`, `turn`, `turn_question`,
`dispatch`, `bug_report`, `issue_status` and `status_absorbed`, whose finitely many
turns, messages, requests and edits really come to an end. The queue never stops,
its maintenance goes on.

### Fairness

* Queue: weak fairness on the steps of the workers and of the maintenance coroutine
  of a running process (asyncio schedules every ready coroutine, and the calls return
  or raise) and on the expiry of keys nobody renews (Redis). Bouncing on a held lock
  is a loop of fair steps that ends because the holder's steps are fair and a dead
  holder's key expires; the code waits half a second between rounds, which the
  expiry of a lock within its TTL makes enough.
* Timers: weak fairness on due Celery tasks and on started turns.
* Dispatch: weak fairness on handlers, tasks and the queue's worker, strong fairness
  on taking the sync lock, since `asyncio.Lock` serves its waiters in turn.
* Reports: weak fairness on a synchronisation that has started or whose task waits
  in the broker.
* Status: weak fairness on the passes that beat starts over and over, on started
  passes of the route and on queued tasks.

There is no fairness for faults, lapses, crashes, stops, arrivals, users or staff.

### What holds only under the bounds chosen

The following were checked with the configurations above changed as said, and are
violated; where the first column says "without", the exemption was dropped from the property.
They delimit the properties.

| property | change | what happens |
|---|---|---|
| `NoSilentLoss` | `mq_faults` with faults in `release_processing` | the retry is refused as a duplicate and acknowledged |
| `NoSilentLoss` | `mq_lapse` with a mortal process, two attempts and one lapse of a heartbeat | the requeued delivery is refused by the mark of the slow attempt, whose crash then loses the message |
| `HeartbeatProtectsProc` | `mq_lapse` | the sweep checks the heartbeat, its owner renews it, the list is requeued |
| `EveryDeliveryResolved` | `mq_live_faults` with faults in `blmove`, `claim` and `move` | a delivery that could not be returned waits in the list of its own live process, which the sweep skips |
| `TimeoutOnlyAfterSilence` without `missed` | none | the get or clear of an inbound cancel raises and is swallowed; the task that stays in the metadata fires |
| `CancelErasesOnlyWhatItRead` | `timer_lock` with `Serialized = FALSE`, no faults | without the lock (memory dispatch) the cancel deletes whatever the key holds by then; `TimeoutOnlyAfterSilence` still holds, by proof |
| `CancelledStaysOut` | `bug_report` with two sessions of one user, `CancelChat`, four requests, one fault | a second session opens a new report, which supersedes the one already queued; the first session still finds that one, and a superseded draft may be cancelled although its submission is under way |
| `PromptsBounded` without `resets` | none | an answer that takes the count back is saved and not delivered, or the conversation expires; the row of clarifications goes on |
| `SuspendedIsReachable` | `turn` without expiries | a RESUME or CANCEL that fails clears the flag of the suspended draft (`message_processor.py:298`), so that the repeated command no longer reaches it |
| `AnsweredOnce` without `unguarded` | none | `acquire` raises and lets a message through whose mark stands |
| `EveryMessageSettled` without `behind` | `dispatch` without faults | both callbacks fetch after the second message was written, find it recent and stop; nobody fetches the first |
| `ProcessedIsSkipped` | `dispatch` without faults | an old message is fetched once more when its mark has gone |
| `SnapshotsConverge` | `issue_status` with `Limit = 1` | the batch is always the first issues in the order of ids, so that the rest is never polled |

There is no order between messages of one user: a delivery that finds the lock
taken goes to the tail.

## Proofs

Theorems hold for every value of the constants that the named assumptions allow.

`MessageQueueProofs` (`ConstantsAssumption`):

* `TypeCorrectness`: `TypeOK`, whose parts (lists, keys, workers, consumers,
  history) are each preserved given the whole.
* `MutualExclusionHolds`. Mutual exclusion is not inductive; the strengthening
  `LockHeld` says that a worker inside the section of an unexposed user holds the
  token, and the lock key names it. Only `TryLock` enters, only the holder or a
  lapse removes the key (`LockFrame` disposes of all other steps at once).
* `OnlyHolderUnlocksHolds`: the comparison in `_RELEASE_LUA` is what makes it
  true, without any assumption on lapses.
* `AtMostOnceReplyHolds`, from `LockHeld` and `ReplyInv`: a confirmed reply has
  its done key or its sender is about to write it, and nobody is on the way to a
  reply for a message that has one. The second part needs the lock: between `send`
  and `mark` the done key is not there yet.

`DeliveryProofs`, on top of it, follows one delivery through the lists:

* `DeliveryUniqueHolds`, with no assumption on crashes, faults or lapses, from
  `UniqInv`: besides `DeliveryUnique`, what is listed was enqueued, so that a new
  delivery is in no list, and a recovery reads no delivery twice, so that the copies
  it moves one by one are different ones.
* `AttemptsNeverResetHolds`, from `UniqInv`: the one listed envelope of a delivery is
  replaced only by one with at least as many attempts.
* `HeartbeatProtectsProcHolds`, if `HeartbeatHolds`: no lapse takes the heartbeat of a
  live consumer. Invariant `Alive`: a sweep that is about to move the list of another
  consumer has seen a missing heartbeat, whose owner then has no worker and never
  comes back under that name.
* `NoSilentLossHolds`, if `HeartbeatHolds` and `ReleaseHolds` (the release of a mark
  does not fail), from `LossInv`. Losing a message takes a delivery that is refused as
  a duplicate and acknowledged while nobody handles the message any more. So
  `Guarded`: a processing key of an undecided message belongs to a delivery that a
  worker holds inside `process()`, or that died there and will not be
  touched before the key is taken away; `Kept`: an undecided message keeps a delivery
  that nobody is about to acknowledge; `HoldInv`: a delivery in hand is in the list
  of its worker's consumer and in no other hand; `DoneSettled`: the done key and the
  outcome "ok" are given to decided messages only. Both hypotheses are needed, as
  the first two rows of the table above show; `mq_crash` and `mq_faults` satisfy
  them.

`PendingTimerProofs`, for any number of turns and tasks:

* `TimerTypeCorrectness`;
* `TimeoutOnlyAfterSilenceHolds`, with or without the lock: a task that times out for a
  user who has spoken had a call of its own raise, or was left in the metadata by a cancel
  that failed or died (`missed`). Invariant: apart from `missed`, what the user answered was
  stored before, is not in the metadata, and cannot return, since only a task id
  that was never stored is stored (`Fresh`);
* `OneLiveTimerHolds` and `CancelErasesOnlyWhatItReadHolds` under the lock, from
  `OneAtATime`: between the get and the clear of a cancel the metadata hold what it has
  read or nothing, since others only remove them and the turn that stores is the same.

`TurnProofs` (`TurnAssumption`, `PolicyAssumption`), for any messages, notices,
turns, expiries and faults:

* `TypeCorrectness`: `TypeOK`, from lemmas about what the policy returns.
* `AckedWasShownHolds`, from `CarriedInv`: a turn past its send has shown what it
  carries.
* `PromptsBoundedHolds`, from `CountInv`: the clarifications that arrived in a row never
  exceed the count in Redis plus `MaxPrompts` for each time it was taken back without
  another answer arriving, because the count is saved before the clarification is sent.
* `QuestionsSuspendHolds`, from `QuestionInv`: a question reaches the assistant
  without a command only after its suspension failed, and Dify's marker is refused
  for it. It rests on `QuestionIsNoReport`, a fact about the policy: no text is both
  a sure question and routed to the bug assistant.
* `FlagsFollowDraftHolds` and `OnlyReportsOpenDraftsHolds`, from `FlagInv`: the flags
  that a turn will save are those of Redis, or follow from the assistant's last
  answer, or are known to be wrong.

`DispatchProofs`: `AnsweredOnceHolds`, for messages that no failing `acquire` has let
through (the others are in `unguarded`), from `Marked` (the mark of a message that is
being processed stands), `Exclusive` (so nobody else processes it) and `Guarded` (an
answered message whose mark stands is not processed once more). Which messages the
handlers hold is left open: the argument needs nothing about the pages. That they hold
messages, and that only the holder of the sync lock fetches, is `TypeCorrectness`, from
`TypeInv`: an executor that is not at rest has a message, and no callback of a message
that is not written is handled.

`BugReportProofs` (`BugReportAssumption`), for any users, keys, drafts, requests, rows
and faults:

* `TypeCorrectness` and `ImplementsSubmissionHolds`, for every instance, from `IInv`.
  The row lock makes lookup, write and commit of a synchronisation one step towards
  other synchronisations (`ReqOK`: who is between them holds the lock of its draft,
  and what it found in the table is still so); a row of a draft exists only with its
  outbox entry, and once (`RowsOK`); the rows of `DraftOK` tie the flow state of a
  draft to its outbox entry and its report. Under the mapping a write that inserts is
  `Insert` of `Submission`, a commit is `Record`, confirming or linking is `Queue` or
  `Link`; every other step stutters.
* `RecordedIsListedHolds`, `OpenDraftIsBoundHolds`, `CancelledStaysOutHolds` and
  `RecordedCompletelyHolds`, if `OneSessionEach`, from `SInv`. The hypothesis: a user
  has at least one key, two users have the same keys or none in common, and no
  request names a draft. A user with two sessions could have his queued draft
  superseded by a new one and then cancelled or extended through the first session
  (the row `CancelledStaysOut` above). `bug_report` satisfies it. `SInv` adds that
  the keys of a user are bound together (`OwnBinding`), that nobody can change a
  queued report (`SentOK`: no key leads to it unless it is still queued or
  submitted, and it has an issue of its own), and that a synchronisation
  carries all images stored when it looks its row up (`WroteOK`).

`IssueStatusProofs` (`IssueStatusAssumption`): `HiddenIsHandledHolds`,
`SentMeansToldHolds` and `ReadStaysReadHolds`, from `Shape` (a task and a count for
each delivery) and `MarkMeansTold` (a task about to mark its delivery has sent it).
`StatusTypeCorrectness` holds for behaviours that make at most `MaxDeliveries`
deliveries, the number of task slots declared for TLC. Its invariant `TypeInv` says
that passes collect push deliveries only, and so tasks exist for those only. The lemma
`SmallestIn` (a set of numbers has its smallest member in it) gives the type of the
issue a pass takes next.

Model-checked only:

* liveness: `EveryDeliveryResolved`, `UnansweredTimesOut`, `EveryMessageSettled`,
  `HandledIsRecorded`, `SnapshotsConverge`, `QueuedIsDelivered`, which is outside what
  the prover handles.

The hypotheses of theorems about lapses, faults and sessions are statements about
constants. TLC checks the same properties in runs that satisfy them.

## Not modelled

* Of modelled parts: the recovery of the pre-upgrade global list `wecom:msgq:proc`,
  the split of unparseable dead letters, `mark_sent` (no caller), the in-memory timer
  store, Dify's conversation id, WeCom's access token, the soft check of repeated KF
  events (its result is not read), the outbox and the tables of the v1 routes.
* Turns that overlap: `Turn` has one turn at a time, as the queue lock ensures.
  Without a queue the background tasks of two callbacks may interleave in one
  user's turn.
* Dify, Chatwoot, Feishu and smart sheet clients, media and ASR, message encryption,
  monitoring, configuration: HTTP, bytes and text without a state of interest here;
  their answers and failures are inputs of the modules that call them.
  `PROJECT.json` gives the reason for each.

## Plan

1. Composition: overlapping turns under memory dispatch, `Turn` over `BugReport`.
2. The v1 routes and their outbox, Dify's conversation id.
3. Proofs: `NoSilentLoss` with lapses of heartbeats, for messages whose attempts do
   not overlap; the properties of `BugReport` for users of several sessions whose
   drafts were not superseded.
