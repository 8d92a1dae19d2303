----------------------------- MODULE PendingTimer -----------------------------
(***************************************************************************)
(* The confirmation timeout of one (user, scope): TIMER markers of an AI   *)
(* reply arm or cancel a Celery countdown, the metadata of the countdown   *)
(* that counts lives in Redis, and every inbound message cancels it        *)
(* (app/services/timer_coordinator.py, pending_timer_store.py,             *)
(* app/tasks/bugtrack_tasks.py, called from MessageProcessor.process).     *)
(*                                                                         *)
(* A turn is one run of process() for this user.  Every step is one call   *)
(* to Redis or to the Celery broker, since turns (without the queue lock)  *)
(* and Celery workers interleave there.                                    *)
(***************************************************************************)
EXTENDS Naturals, FiniteSets

CONSTANTS
  Turns,       \* runs of process()
  Tasks,       \* Celery task ids
  NoTask,      \* "no metadata key"
  Serialized,  \* turns run under the queue lock (TRUE) or in memory mode (FALSE)
  Mortal,      \* turns that may be cancelled or lose their process
  LateWorker,  \* the Celery worker may be later than the TTL of the metadata
  FaultOps,    \* the calls that may raise
  MaxFaults    \* bound: how many calls raise in one behaviour

TimerFaults == {"get", "revoke", "clear", "apply", "store", "script", "reason"}

ASSUME TimerAssumption ==
  /\ NoTask \notin Tasks
  /\ Serialized \in BOOLEAN
  /\ LateWorker \in BOOLEAN
  /\ Mortal \subseteq Turns
  /\ FaultOps \subseteq TimerFaults
  /\ MaxFaults \in Nat

VARIABLES
  meta,      \* wecom:timer:{user}:{scope}: the task id stored in it
  task,      \* life of each Celery task
  turn,      \* the coroutines
  stored,    \* history: tasks whose metadata was written
  silenced,  \* history: tasks stored before an inbound message whose cancel is over
  missed,    \* history: of these, what a failed cancel left in the metadata
  timedOut,  \* history: tasks that reported the timeout
  stray,     \* history: tasks a fault, a crash or a late worker cut loose
  faults

vars == <<meta, task, turn, stored, silenced, missed, timedOut, stray, faults>>

\* The next call of a turn: cancel_pending_timer is get, revoke, clear and goes
\* on to "then"; _arm_timer is that cancel, then apply and store.
Pcs == {"new", "get", "revoke", "clear", "work", "apply", "store", "done"}

TaskStates == {"new", "scheduled", "revoked", "finished"}

IdleTurn == [pc |-> "new", then |-> "work", seen |-> NoTask, mine |-> NoTask, heard |-> {}]

Active(k) == turn[k].pc \notin {"new", "done"}

Init ==
  /\ meta = NoTask
  /\ task = [t \in Tasks |-> "new"]
  /\ turn = [k \in Turns |-> IdleTurn]
  /\ stored = {}
  /\ silenced = {}
  /\ missed = {}
  /\ timedOut = {}
  /\ stray = {}
  /\ faults = 0

\* A call to Redis or to the broker raises, within the bounds.
Fault(op) ==
  /\ op \in FaultOps
  /\ faults < MaxFaults
  /\ faults' = faults + 1

\* Where cancel_pending_timer returns to.
Return(k) == [turn EXCEPT ![k].pc = turn[k].then]

\* The cancel at the start of a turn is over: the user has spoken after every task
\* stored by then.  It leaves "left" in the metadata: nothing when it has worked, and
\* what was there when a call of it has raised or the turn has died in it.
Spoken(k, left) ==
  IF turn[k].then = "work"
  THEN /\ silenced' = silenced \cup turn[k].heard
       /\ missed' = (missed \ turn[k].heard) \cup (left \cap turn[k].heard)
  ELSE UNCHANGED <<silenced, missed>>

-------------------------------------------------------------------------------
\* Mutant: a turn does not wait for the one before it.
BeginUnlocked(k) ==
  /\ turn[k].pc = "new"
  /\ turn' = [turn EXCEPT ![k].pc = "get", ![k].heard = stored]
  /\ UNCHANGED <<meta, task, stored, silenced, missed, timedOut, stray, faults>>

\* A message arrives; its first business is to cancel the pending timer.
Begin(k) ==
  /\ turn[k].pc = "new"
  /\ Serialized => \A j \in Turns : ~Active(j)
  /\ turn' = [turn EXCEPT ![k].pc = "get", ![k].heard = stored]
  /\ UNCHANGED <<meta, task, stored, silenced, missed, timedOut, stray, faults>>

\* Mutant: an empty answer of the store is revoked and cleared like a timer.
GetWithoutCheck(k) ==
  /\ turn[k].pc = "get"
  /\ turn' = [turn EXCEPT ![k].pc = "revoke", ![k].seen = meta]
  /\ UNCHANGED <<meta, task, stored, silenced, missed, timedOut, stray, faults>>

\* store.get: nothing pending means nothing to do.
Get(k) ==
  /\ turn[k].pc = "get"
  /\ IF meta = NoTask
     THEN turn' = Return(k) /\ Spoken(k, {})
     ELSE turn' = [turn EXCEPT ![k].pc = "revoke", ![k].seen = meta]
          /\ UNCHANGED <<silenced, missed>>
  /\ UNCHANGED <<meta, task, stored, timedOut, stray, faults>>

\* cancel_pending_timer swallows the exception of get.
GetFails(k) ==
  /\ turn[k].pc = "get"
  /\ Fault("get")
  /\ turn' = Return(k)
  /\ Spoken(k, {meta})
  /\ stray' = stray \cup ({meta} \ {NoTask})
  /\ UNCHANGED <<meta, task, stored, timedOut>>

\* Mutant: only the metadata is removed.
RevokeSkipped(k) ==
  /\ turn[k].pc = "revoke"
  /\ turn' = [turn EXCEPT ![k].pc = "clear"]
  /\ UNCHANGED <<meta, task, stored, silenced, missed, timedOut, stray, faults>>

\* AsyncResult.revoke: a broadcast; a task that a worker has already started, or
\* a worker that missed the broadcast, still runs.
Revoke(k) ==
  /\ turn[k].pc = "revoke"
  /\ task' = [task EXCEPT ![turn[k].seen] = IF @ = "scheduled" THEN "revoked" ELSE @]
  /\ turn' = [turn EXCEPT ![k].pc = "clear"]
  /\ UNCHANGED <<meta, stored, silenced, missed, timedOut, stray, faults>>

\* The broadcast raises; the metadata is cleared all the same.
RevokeFails(k) ==
  /\ turn[k].pc = "revoke"
  /\ Fault("revoke")
  /\ turn' = [turn EXCEPT ![k].pc = "clear"]
  /\ stray' = stray \cup {turn[k].seen}
  /\ UNCHANGED <<meta, task, stored, silenced, missed, timedOut>>

\* store.clear: DELETE, whatever the key holds by now.
Clear(k) ==
  /\ turn[k].pc = "clear"
  /\ meta' = NoTask
  /\ turn' = Return(k)
  /\ Spoken(k, {})
  /\ UNCHANGED <<task, stored, timedOut, stray, faults>>

\* It raises: swallowed, the metadata may still be there.
ClearFails(k) ==
  /\ turn[k].pc = "clear"
  /\ Fault("clear")
  /\ meta' \in {meta, NoTask}
  /\ turn' = Return(k)
  /\ Spoken(k, {meta})
  /\ stray' = stray \cup ({meta} \ {NoTask})
  /\ UNCHANGED <<task, stored, timedOut>>

\* The turn itself: it ends without a marker (or without a delivered reply, or
\* with an arm marker that names no state), or with a cancel or an arm marker;
\* arm wins over cancel.
Work(k) ==
  /\ turn[k].pc = "work"
  /\ \/ turn' = [turn EXCEPT ![k].pc = "done"]
     \/ \E next \in {"done", "apply"} :
          turn' = [turn EXCEPT ![k].pc = "get", ![k].then = next]
  /\ UNCHANGED <<meta, task, stored, silenced, missed, timedOut, stray, faults>>

\* bugtrack_timeout.apply_async(countdown).
Apply(k) ==
  /\ turn[k].pc = "apply"
  /\ \E t \in Tasks :
       /\ task[t] = "new"
       /\ task' = [task EXCEPT ![t] = "scheduled"]
       /\ turn' = [turn EXCEPT ![k].pc = "store", ![k].mine = t]
  /\ UNCHANGED <<meta, stored, silenced, missed, timedOut, stray, faults>>

\* The broker call raises, with or without having published the task.
ApplyFails(k) ==
  /\ turn[k].pc = "apply"
  /\ Fault("apply")
  /\ \/ UNCHANGED <<task, stray>>
     \/ \E t \in Tasks :
          /\ task[t] = "new"
          /\ task' = [task EXCEPT ![t] = "scheduled"]
          /\ stray' = stray \cup {t}
  /\ turn' = [turn EXCEPT ![k].pc = "done"]
  /\ UNCHANGED <<meta, stored, silenced, missed, timedOut>>

\* store.arm: SET with TTL, over whatever is there.
Store(k) ==
  /\ turn[k].pc = "store"
  /\ meta' = turn[k].mine
  /\ stored' = stored \cup {turn[k].mine}
  /\ turn' = [turn EXCEPT ![k].pc = "done"]
  /\ UNCHANGED <<task, silenced, missed, timedOut, stray, faults>>

\* It raises through process(): the countdown runs on without metadata, or the
\* SET was executed.
StoreFails(k) ==
  /\ turn[k].pc = "store"
  /\ Fault("store")
  /\ \/ meta' = turn[k].mine /\ stored' = stored \cup {turn[k].mine}
     \/ UNCHANGED <<meta, stored>>
  /\ stray' = stray \cup {turn[k].mine}
  /\ turn' = [turn EXCEPT ![k].pc = "done"]
  /\ UNCHANGED <<task, silenced, missed, timedOut>>

\* The coroutine is cancelled or its process dies.
Crash(k) ==
  /\ k \in Mortal
  /\ Active(k)
  /\ turn' = [turn EXCEPT ![k].pc = "done"]
  /\ IF turn[k].pc \in {"get", "revoke", "clear"}
     THEN Spoken(k, {meta})
     ELSE UNCHANGED <<silenced, missed>>
  /\ stray' = stray \cup ({turn[k].seen, turn[k].mine} \ {NoTask})
  /\ UNCHANGED <<meta, task, stored, timedOut, faults>>

-------------------------------------------------------------------------------
\* The countdown of t is over and a worker starts it.  A countdown is far longer
\* than the one call between apply_async and store.arm.
Due(t) ==
  /\ task[t] \in {"scheduled", "revoked"}
  /\ \A k \in Turns : turn[k].pc = "store" => turn[k].mine # t

\* Mutant: get, then clear, instead of one compare-and-delete.
FireUnconditionally(t) ==
  /\ Due(t)
  /\ meta' = NoTask
  /\ timedOut' = timedOut \cup {t}
  /\ task' = [task EXCEPT ![t] = "finished"]
  /\ UNCHANGED <<turn, stored, silenced, missed, stray, faults>>

\* Mutant: the comparison is inverted.
FireOnMismatch(t) ==
  /\ Due(t)
  /\ IF meta # t
     THEN meta' = NoTask /\ timedOut' = timedOut \cup {t}
     ELSE UNCHANGED <<meta, timedOut>>
  /\ task' = [task EXCEPT ![t] = "finished"]
  /\ UNCHANGED <<turn, stored, silenced, missed, stray, faults>>

\* bugtrack_timeout: clear_if_match (one Lua script); only a match is a timeout.
Fire(t) ==
  /\ Due(t)
  /\ IF meta = t
     THEN meta' = NoTask /\ timedOut' = timedOut \cup {t}
     ELSE UNCHANGED <<meta, timedOut>>
  /\ task' = [task EXCEPT ![t] = "finished"]
  /\ UNCHANGED <<turn, stored, silenced, missed, stray, faults>>

\* The script raises, the get that asks for the reason does not: skipped, the
\* TTL removes the key.
FireFails(t) ==
  /\ Due(t)
  /\ Fault("script")
  /\ meta' \in {meta, IF meta = t THEN NoTask ELSE meta}
  /\ task' = [task EXCEPT ![t] = "finished"]
  /\ stray' = stray \cup {t}
  /\ UNCHANGED <<turn, stored, silenced, missed, timedOut>>

\* The script does not match, or raises in the same outage, then the get raises:
\* the handler around both logs "go on" and the task reports the timeout,
\* without having cleared anything.
FireReasonFails(t) ==
  /\ Due(t)
  /\ meta # t \/ "script" \in FaultOps
  /\ Fault("reason")
  /\ timedOut' = timedOut \cup {t}
  /\ task' = [task EXCEPT ![t] = "finished"]
  /\ UNCHANGED <<meta, turn, stored, silenced, missed, stray>>

\* A worker that knows of the revocation drops the task.
Discard(t) ==
  /\ task[t] = "revoked"
  /\ task' = [task EXCEPT ![t] = "finished"]
  /\ UNCHANGED <<meta, turn, stored, silenced, missed, timedOut, stray, faults>>

\* The TTL of the metadata is longer than the countdown: it runs out first only
\* when the worker is late.
MetaExpire ==
  /\ meta # NoTask
  /\ task[meta] = "scheduled" => LateWorker
  /\ meta' = NoTask
  /\ stray' = stray \cup {meta}
  /\ UNCHANGED <<task, turn, stored, silenced, missed, timedOut, faults>>

-------------------------------------------------------------------------------
TurnStep(k) ==
  \/ Begin(k) \/ Get(k) \/ Revoke(k) \/ Clear(k) \/ Work(k) \/ Apply(k) \/ Store(k)

TurnFault(k) ==
  \/ GetFails(k) \/ RevokeFails(k) \/ ClearFails(k) \/ ApplyFails(k) \/ StoreFails(k)
  \/ Crash(k)

Next ==
  \/ \E k \in Turns : TurnStep(k) \/ TurnFault(k)
  \/ \E t \in Tasks : Fire(t) \/ FireFails(t) \/ FireReasonFails(t) \/ Discard(t)
  \/ MetaExpire

Spec == Init /\ [][Next]_vars

\* Countdowns end, workers run, started turns go on.  No message need arrive.
Fairness ==
  /\ \A t \in Tasks : WF_vars(Fire(t) \/ Discard(t))
  /\ \A k \in Turns : WF_vars(Active(k) /\ TurnStep(k))

FairSpec == Spec /\ Fairness

-------------------------------------------------------------------------------
TurnStates ==
  [pc : Pcs, then : {"work", "apply", "done"}, seen : Tasks \cup {NoTask},
   mine : Tasks \cup {NoTask}, heard : SUBSET Tasks]

\* Type invariant; a turn about to revoke, clear or store has the task in hand.
TimerTypeOK ==
  /\ meta \in Tasks \cup {NoTask}
  /\ task \in [Tasks -> TaskStates]
  /\ turn \in [Turns -> TurnStates]
  /\ \A k \in Turns : /\ turn[k].pc = "store" => turn[k].mine # NoTask
                      /\ turn[k].pc \in {"revoke", "clear"} => turn[k].seen # NoTask
  /\ stored \subseteq Tasks
  /\ silenced \subseteq Tasks
  /\ missed \subseteq Tasks
  /\ timedOut \subseteq Tasks
  /\ stray \subseteq Tasks
  /\ faults \in Nat

\* A timeout means 30 minutes of silence: no task whose calls succeed times out for a
\* user who spoke after it was armed, however late a revoked task is started, unless
\* it is the one left in the metadata by a cancel whose get or clear raised (which is
\* swallowed) or whose turn died; a later cancel that works makes good for it.
TimeoutOnlyAfterSilence ==
  [][faults' = faults => \A t \in timedOut' \ timedOut : t \notin silenced \ missed]_vars

\* One user has one pending confirmation: a countdown that was not revoked is the
\* one in the metadata, or the one a turn is about to store, unless a failed
\* call, a crash or a late worker cut it loose.
OneLiveTimer ==
  \A t \in Tasks : task[t] = "scheduled" =>
    \/ meta = t
    \/ \E k \in Turns : turn[k].pc = "store" /\ turn[k].mine = t
    \/ t \in stray

\* The cancel at the start of a turn removes the old timer, the one it read, and
\* never a newer one.
CancelErasesOnlyWhatItRead ==
  [][\A k \in Turns :
       turn[k].pc = "clear" /\ turn'[k].pc # "clear" /\ meta' # meta => meta = turn[k].seen]_vars

\* The safety net works: an armed timer ends in a timeout unless the user speaks.
UnansweredTimesOut ==
  \A t \in Tasks : (t \in stored) ~> (t \in timedOut \cup silenced \cup stray)

===============================================================================
