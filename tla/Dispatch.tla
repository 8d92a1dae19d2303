------------------------------ MODULE Dispatch ------------------------------
(***************************************************************************)
(* How messages get from WeCom to MessageProcessor.process.  Each message  *)
(* makes WeCom call back.  A callback of a bot carries its message; one of *)
(* a customer service account (KF) only says that there is something to    *)
(* fetch, and the adapter fetches the account's messages from the newest   *)
(* back, page by page, whatever has been fetched before.  The route hands  *)
(* every message to the queue, or, when there is none or it fails, to      *)
(* background tasks of its own process, and the dedup store is what keeps  *)
(* a message from being answered again.                                    *)
(*                                                                         *)
(* One user and one server process.  Messages are numbered in the order of *)
(* their send time, and callback m is the one that message m causes.  The  *)
(* queue is an abstraction of MessageQueue: one worker takes the messages  *)
(* of the user in turn.  An attempt of process is an abstraction of Turn.  *)
(***************************************************************************)
EXTENDS Integers, Sequences, FiniteSets, FiniteSetsExt

CONSTANTS MaxMsgs,      \* bound on messages
          Protocols,    \* "kf", "bot"
          Modes,        \* "queue", "memory"
          PageSize,     \* messages per call of sync_msg
          MaxPages,     \* max_attempts of sync_latest_messages
          Recent, Enough, \* it stops early on so many recent ones, and so many in all
          MaxAttempts,  \* queue_max_attempts
          FaultOps, MaxFaults

Msgs == 1..MaxMsgs
Worker == 0                    \* of the queue
Executors == {Worker} \cup Msgs  \* the others are the background tasks of a callback
Ops == {"receive", "sync", "enqueue", "acquire", "turn", "send", "release", "mark", "repeat", "crash"}

ASSUME DispatchAssumption ==
  /\ MaxMsgs \in Nat /\ PageSize \in Nat \ {0} /\ MaxPages \in Nat \ {0}
  /\ Recent \in Nat /\ Enough \in Nat /\ MaxAttempts \in Nat \ {0} /\ MaxFaults \in Nat
  /\ Protocols \subseteq {"kf", "bot"}
  /\ Modes \subseteq {"queue", "memory"}
  /\ FaultOps \subseteq Ops

VARIABLES
  protocol,  \* by which the user writes
  mode,      \* whether the process has a queue, and a dedup store in Redis
  written,   \* messages 1..written have been sent
  old,       \* messages 1..old are no longer recent
  call,      \* the callbacks and their handlers
  syncLock,  \* holder of WeChatService._sync_lock
  queue,     \* the queue in Redis
  exec,      \* what runs process
  dedup,     \* mark of each message in the dedup store
  answered,  \* how often each message has been answered
  \* History, read by properties only.
  forgot,    \* answered, but the mark of it is gone or could not be set
  unguarded, \* taken up by a turn although the dedup store did not answer
  settled,   \* given up, not delivered, or lost with the process or its callback
  behind,    \* left out by its own callback, which stopped at newer messages
  faults

outcome == <<answered, forgot, unguarded, settled, behind>>
vars == <<protocol, mode, written, old, call, syncLock, queue, exec, dedup, outcome, faults>>

NoCall == [pc |-> "none", cursor |-> 0, tries |-> 0, got |-> {}, todo |-> <<>>, tasks |-> <<>>,
           failed |-> FALSE]   \* a call of sync_msg has failed
Rest == [pc |-> "idle", msg |-> 0, tries |-> 0]
Nobody == 0

Fault(op) == op \in FaultOps /\ faults < MaxFaults /\ faults' = faults + 1

\* The messages of S in the order of their send time: one sequence.
InOrder(S) == {s \in [1..Cardinality(S) -> S] : \A i, j \in DOMAIN s : i < j => s[i] < s[j]}

-----------------------------------------------------------------------------
(* WeCom                                                                   *)

Write ==
  /\ written < MaxMsgs
  /\ written' = written + 1
  /\ call' = [call EXCEPT ![written + 1].pc = "new"]
  /\ UNCHANGED <<protocol, mode, old, syncLock, queue, exec, dedup, outcome, faults>>

\* WeCom repeats a callback, which it does when it has not seen the reply.
Repeat(c) ==
  /\ call[c].pc = "over" /\ Fault("repeat")
  /\ call' = [call EXCEPT ![c].pc = "new"]
  /\ UNCHANGED <<protocol, mode, written, old, syncLock, queue, exec, dedup, outcome>>

\* The oldest recent message is recent no more.
Age ==
  /\ old < written
  /\ old' = old + 1
  /\ UNCHANGED <<protocol, mode, written, call, syncLock, queue, exec, dedup, outcome, faults>>

-----------------------------------------------------------------------------
(* The callback                                                            *)

\* Every failure of receive is answered with success (KF) or an error that nothing repeats.
Receive(c) ==
  /\ call[c].pc = "new"
  /\ \/ /\ call' = [call EXCEPT ![c] = IF protocol = "bot" THEN [NoCall EXCEPT !.pc = "dispatch", !.todo = <<c>>]
                                       ELSE [NoCall EXCEPT !.pc = "sync"]]
        /\ UNCHANGED <<settled, faults>>
     \/ /\ Fault("receive")
        /\ call' = [call EXCEPT ![c].pc = "over"]
        /\ settled' = settled \cup {c}
  /\ UNCHANGED <<protocol, mode, written, old, syncLock, queue, exec, dedup, answered, forgot, unguarded,
                 behind>>

\* Mutant: the lock is not waited for.
LockUnchecked(c) ==
  /\ call[c].pc = "sync"
  /\ syncLock' = c
  /\ call' = [call EXCEPT ![c].pc = "fetch"]
  /\ UNCHANGED <<protocol, mode, written, old, queue, exec, dedup, outcome, faults>>

\* sync_latest_messages takes its lock; there is no cursor, whatever came before.
Lock(c) ==
  /\ call[c].pc = "sync" /\ syncLock = Nobody
  /\ syncLock' = c
  /\ call' = [call EXCEPT ![c].pc = "fetch"]
  /\ UNCHANGED <<protocol, mode, written, old, queue, exec, dedup, outcome, faults>>

\* The newest messages before the cursor; 0 is no cursor.
Page(cursor) ==
  LET end == IF cursor = 0 THEN written ELSE cursor - 1
  IN  {m \in 1..end : m > end - PageSize}

\* The handler leaves the loop with what it has, in the order of send time.  Without the
\* message that caused the callback, a call has failed or newer messages were enough.
EndsWith(c, h, got) ==
  /\ \E todo \in InOrder(got) :
       call' = [call EXCEPT ![c] = [NoCall EXCEPT !.pc = "dispatch", !.todo = todo]]
  /\ syncLock' = Nobody
  /\ settled' = IF c \notin got /\ h.failed THEN settled \cup {c} ELSE settled
  /\ behind' = IF c \notin got /\ ~h.failed THEN behind \cup {c} ELSE behind

\* A page is fetched: enough, no more or too many pages end the loop.
Fetch(c) ==
  LET h == call[c]
      page == Page(h.cursor)
      got == h.got \cup page
      stop == \/ Cardinality({m \in page : m > old}) >= Recent /\ Cardinality(got) >= Enough
              \/ page = {} \/ Min(page) = 1
              \/ h.tries + 1 = MaxPages
  IN  /\ h.pc = "fetch"
      /\ IF stop THEN EndsWith(c, h, got)
         ELSE /\ call' = [call EXCEPT ![c] = [h EXCEPT !.got = got, !.cursor = Min(page), !.tries = @ + 1]]
              /\ UNCHANGED <<syncLock, settled, behind>>
      /\ UNCHANGED <<protocol, mode, written, old, queue, exec, dedup, answered, forgot, unguarded, faults>>

\* A failing call costs an attempt; the last one ends the loop with what there is.
FetchFails(c) ==
  LET h == [call[c] EXCEPT !.tries = @ + 1, !.failed = TRUE]
  IN  /\ h.pc = "fetch" /\ Fault("sync")
      /\ IF h.tries = MaxPages THEN EndsWith(c, h, h.got)
         ELSE call' = [call EXCEPT ![c] = h] /\ UNCHANGED <<syncLock, settled, behind>>
      /\ UNCHANGED <<protocol, mode, written, old, queue, exec, dedup, answered, forgot, unguarded>>

\* The next message goes to the queue or to a background task.  An enqueue that fails may
\* have put the message into the queue all the same.
Hand(c) ==
  LET m == Head(call[c].todo)
      next == [call EXCEPT ![c].todo = Tail(@)]
      task == [next EXCEPT ![c].tasks = Append(@, m)]
      put == Append(queue, [msg |-> m, tries |-> 0])
  IN  /\ call[c].pc = "dispatch" /\ call[c].todo # <<>>
      /\ \/ mode = "queue" /\ call' = next /\ queue' = put /\ UNCHANGED faults
         \/ mode = "queue" /\ Fault("enqueue") /\ call' = task /\ queue' \in {queue, put}
         \/ mode = "memory" /\ call' = task /\ UNCHANGED <<queue, faults>>
      /\ UNCHANGED <<protocol, mode, written, old, syncLock, exec, dedup, outcome>>

\* The handler has responded and its background tasks have run.
EndCall(c) ==
  /\ call[c].pc = "dispatch" /\ call[c].todo = <<>> /\ call[c].tasks = <<>> /\ exec[c] = Rest
  /\ call' = [call EXCEPT ![c].pc = "over"]
  /\ UNCHANGED <<protocol, mode, written, old, syncLock, queue, exec, dedup, outcome, faults>>

-----------------------------------------------------------------------------
(* Turns: _safe_process for the tasks of a callback, the queue's worker    *)

Starts(e, m, tries) == exec' = [exec EXCEPT ![e] = [pc |-> "turn", msg |-> m, tries |-> tries]]
Taken(m) == [dedup EXCEPT ![m] = IF @ = "none" THEN "processing" ELSE @]

\* Mutant: only a finished message is skipped.
AcquireUnlessDone(e, m, tries) ==
  /\ IF dedup[m] # "done" THEN Starts(e, m, tries) /\ dedup' = [dedup EXCEPT ![m] = "processing"]
     ELSE exec' = [exec EXCEPT ![e] = Rest] /\ UNCHANGED dedup
  /\ UNCHANGED <<unguarded, faults>>

\* process begins: a message that is marked is skipped.  The store in Redis lets it through
\* when its script raises, whether or not the script has run.
Acquire(e, m, tries) ==
  \/ /\ dedup[m] = "none" /\ Starts(e, m, tries) /\ dedup' = Taken(m)
     /\ UNCHANGED <<unguarded, faults>>
  \/ /\ dedup[m] # "none" /\ exec' = [exec EXCEPT ![e] = Rest]
     /\ UNCHANGED <<dedup, unguarded, faults>>
  \/ /\ mode = "queue" /\ Fault("acquire") /\ Starts(e, m, tries) /\ dedup' \in {dedup, Taken(m)}
     /\ unguarded' = unguarded \cup {m}

\* After the response, the tasks run one after the other.
RunTask(c) ==
  /\ call[c].pc = "dispatch" /\ call[c].todo = <<>> /\ call[c].tasks # <<>> /\ exec[c] = Rest
  /\ Acquire(c, Head(call[c].tasks), 0)
  /\ call' = [call EXCEPT ![c].tasks = Tail(@)]
  /\ UNCHANGED <<protocol, mode, written, old, syncLock, queue, answered, forgot, settled, behind>>

Claim ==
  /\ queue # <<>> /\ exec[Worker] = Rest
  /\ Acquire(Worker, Head(queue).msg, Head(queue).tries)
  /\ queue' = Tail(queue)
  /\ UNCHANGED <<protocol, mode, written, old, call, syncLock, answered, forgot, settled, behind>>

\* A task tries again after a pause.
Retry(e) ==
  /\ exec[e].pc = "again"
  /\ Acquire(e, exec[e].msg, exec[e].tries)
  /\ UNCHANGED <<protocol, mode, written, old, call, syncLock, queue, answered, forgot, settled, behind>>

Answer(e) ==
  /\ exec[e].pc = "turn"
  /\ answered' = [answered EXCEPT ![exec[e].msg] = @ + 1]
  /\ exec' = [exec EXCEPT ![e].pc = "mark"]
  /\ UNCHANGED <<protocol, mode, written, old, call, syncLock, queue, dedup, forgot, unguarded, settled, behind,
                 faults>>

\* release_processing takes a processing mark back, whoever has set it; with Redis it may fail,
\* which nobody asks for.
Releases(m, released) ==
  /\ released \/ (mode = "queue" /\ "release" \in FaultOps)
  /\ dedup' = IF released /\ dedup[m] = "processing" THEN [dedup EXCEPT ![m] = "none"] ELSE dedup

\* send returns False, perhaps although the answer has arrived: the mark is released, and
\* nobody tries again.
SendFails(e) ==
  LET m == exec[e].msg
  IN  /\ exec[e].pc = "turn" /\ Fault("send")
      /\ \E released \in BOOLEAN : Releases(m, released)
      /\ settled' = settled \cup {m}
      /\ exec' = [exec EXCEPT ![e] = Rest]
      /\ \/ UNCHANGED <<answered, forgot>>
         \/ answered' = [answered EXCEPT ![m] = @ + 1] /\ forgot' = forgot \cup {m}
      /\ UNCHANGED <<protocol, mode, written, old, call, syncLock, queue, unguarded, behind>>

\* The attempt after a failed one, if there is one: of a task after a pause, of the queue behind
\* what waits there.
Again(e, m, tries) ==
  IF tries = MaxAttempts THEN exec' = [exec EXCEPT ![e] = Rest] /\ UNCHANGED queue
  ELSE IF e = Worker THEN queue' = Append(queue, [msg |-> m, tries |-> tries]) /\ exec' = [exec EXCEPT ![e] = Rest]
  ELSE exec' = [exec EXCEPT ![e].pc = "again", ![e].tries = tries] /\ UNCHANGED queue

\* Mutant: the mark of the failed attempt stays.
TurnFailsMarked(e) ==
  LET m == exec[e].msg
      tries == exec[e].tries + 1
  IN  /\ exec[e].pc = "turn" /\ Fault("turn")
      /\ Again(e, m, tries)
      /\ settled' = IF tries = MaxAttempts THEN settled \cup {m} ELSE settled
      /\ UNCHANGED <<protocol, mode, written, old, call, syncLock, dedup, answered, forgot, unguarded, behind>>

\* process raises: the mark is released and there is another attempt until they are used up.
\* A mark that was not released makes the next attempt skip the message.
TurnFails(e) ==
  LET m == exec[e].msg
      tries == exec[e].tries + 1
  IN  /\ exec[e].pc = "turn" /\ Fault("turn")
      /\ \E released \in BOOLEAN :
           /\ Releases(m, released)
           /\ settled' = IF tries = MaxAttempts \/ ~released THEN settled \cup {m} ELSE settled
      /\ Again(e, m, tries)
      /\ UNCHANGED <<protocol, mode, written, old, call, syncLock, answered, forgot, unguarded, behind>>

\* With Redis it may fail, unnoticed, before the mark is set.
MarkDone(e) ==
  LET m == exec[e].msg
  IN  /\ exec[e].pc = "mark"
      /\ \/ dedup' = [dedup EXCEPT ![m] = "done"] /\ UNCHANGED <<forgot, faults>>
         \/ mode = "queue" /\ Fault("mark") /\ forgot' = forgot \cup {m} /\ UNCHANGED dedup
      /\ exec' = [exec EXCEPT ![e] = Rest]
      /\ UNCHANGED <<protocol, mode, written, old, call, syncLock, queue, answered, unguarded, settled, behind>>

\* The mark of an answered message lives longer than a message is recent, and the mark of a
\* turn longer than the turn: it outlives only a turn that is over.
Forget(m) ==
  /\ \/ dedup[m] = "done" /\ m <= old
     \/ dedup[m] = "processing" /\ \A e \in Executors : exec[e].msg # m
  /\ dedup' = [dedup EXCEPT ![m] = "none"]
  /\ forgot' = IF answered[m] > 0 THEN forgot \cup {m} ELSE forgot
  /\ UNCHANGED <<protocol, mode, written, old, call, syncLock, queue, exec, answered, unguarded, settled, behind,
                 faults>>

InHand == {c \in Msgs : call[c].pc \notin {"none", "new", "over"}}
Waiting(c) == {call[c].todo[i] : i \in DOMAIN call[c].todo} \cup {call[c].tasks[i] : i \in DOMAIN call[c].tasks}

\* The process dies with its callbacks, tasks and, without Redis, its marks; the message the
\* worker has in hand goes back to the queue, its processing mark removed (recovery).
Crash ==
  /\ Fault("crash")
  /\ call' = [c \in Msgs |-> IF c \in InHand THEN [NoCall EXCEPT !.pc = "over"] ELSE call[c]]
  /\ syncLock' = Nobody
  /\ exec' = [e \in Executors |-> Rest]
  /\ queue' = IF exec[Worker] = Rest THEN queue
              ELSE <<[msg |-> exec[Worker].msg, tries |-> exec[Worker].tries]>> \o queue
  /\ dedup' = [m \in Msgs |-> IF mode = "memory" \/ (m = exec[Worker].msg /\ dedup[m] = "processing")
                              THEN "none" ELSE dedup[m]]
  /\ forgot' = forgot \cup {m \in Msgs : answered[m] > 0 /\ dedup[m] # "none" /\ dedup'[m] = "none"}
  /\ settled' = settled \cup InHand \cup (UNION {Waiting(c) : c \in InHand})
                        \cup {exec[e].msg : e \in {x \in Msgs : exec[x] # Rest}}
  /\ UNCHANGED <<protocol, mode, written, old, answered, unguarded, behind>>

-----------------------------------------------------------------------------
Init ==
  /\ protocol \in Protocols /\ mode \in Modes
  /\ written = 0 /\ old = 0
  /\ call = [c \in Msgs |-> NoCall] /\ syncLock = Nobody
  /\ queue = <<>> /\ exec = [e \in Executors |-> Rest]
  /\ dedup = [m \in Msgs |-> "none"] /\ answered = [m \in Msgs |-> 0]
  /\ forgot = {} /\ unguarded = {} /\ settled = {} /\ behind = {} /\ faults = 0

Handle(c) == Receive(c) \/ Lock(c) \/ Fetch(c) \/ Hand(c) \/ EndCall(c) \/ RunTask(c)
Run(e) == Retry(e) \/ Answer(e) \/ MarkDone(e)

Next ==
  \/ Write \/ Age \/ Crash \/ Claim
  \/ \E c \in Msgs : Handle(c) \/ FetchFails(c) \/ Repeat(c) \/ Forget(c)
  \/ \E e \in Executors : Run(e) \/ SendFails(e) \/ TurnFails(e)

Spec == Init /\ [][Next]_vars

\* The event loop and the consumer of the queue go on; asyncio.Lock serves its waiters in turn.
Fairness ==
  /\ \A c \in Msgs : WF_vars(Handle(c)) /\ SF_vars(Lock(c))
  /\ WF_vars(Claim)
  /\ \A e \in Executors : WF_vars(Run(e))

FairSpec == Spec /\ Fairness

-----------------------------------------------------------------------------
(* Properties                                                              *)

CallType == [pc : {"none", "new", "sync", "fetch", "dispatch", "over"}, cursor : 0..MaxMsgs,
             tries : 0..MaxPages - 1, got : SUBSET Msgs, todo : Seq(Msgs), tasks : Seq(Msgs), failed : BOOLEAN]

\* Types; and only the holder of the sync lock fetches.
TypeOK ==
  /\ protocol \in Protocols /\ mode \in Modes /\ written \in 0..MaxMsgs /\ old \in 0..written
  /\ call \in [Msgs -> CallType]
  /\ syncLock \in {Nobody} \cup Msgs
  /\ \A c \in Msgs : call[c].pc = "fetch" <=> syncLock = c
  /\ queue \in Seq([msg : Msgs, tries : 0..MaxAttempts - 1])
  /\ exec \in [Executors -> [pc : {"idle", "again", "turn", "mark"}, msg : 0..MaxMsgs, tries : 0..MaxAttempts - 1]]
  /\ dedup \in [Msgs -> {"none", "processing", "done"}] /\ answered \in [Msgs -> Nat]
  /\ \A history \in {forgot, unguarded, settled, behind} : history \subseteq Msgs
  /\ faults \in 0..MaxFaults

\* However many callbacks fetch a message, and though queue and memory may both hold it, it
\* is answered again only after the mark of its answer has gone or could not be set, or when
\* the dedup store did not answer and process went on all the same (acquire, mark_done).
AnsweredOnce == \A m \in Msgs : answered[m] > 1 => m \in forgot \cup unguarded

\* Every message is answered in the end, or its callback failed or died or left it behind
\* newer ones, its send failed, its attempts were used up or its mark could not be released:
\* none is skipped for another attempt that then gives it up silently, and none that a
\* callback has fetched stays behind in the queue, a task or the lock.
EveryMessageSettled ==
  \A m \in Msgs : written >= m ~> answered[m] > 0 \/ m \in settled \cup behind

\* "Every one is deduplicated; MessageProcessor skips those already processed": no message is
\* answered twice.
ProcessedIsSkipped == \A m \in Msgs : answered[m] <= 1
=============================================================================
