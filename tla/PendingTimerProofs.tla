-------------------------- MODULE PendingTimerProofs --------------------------
(***************************************************************************)
(* Theorems about the pending timers, for any number of turns and tasks,   *)
(* with or without the queue lock, any faults, crashes and late workers.   *)
(***************************************************************************)
EXTENDS PendingTimer, TLAPS

\* The bookkeeping of the module is well typed, and no call of a turn is made
\* without the task id it needs.
LEMMA TimerTypeStep == TimerTypeOK /\ [Next]_vars => TimerTypeOK'
<1> SUFFICES ASSUME TimerTypeOK, [Next]_vars PROVE TimerTypeOK'
  OBVIOUS
<1> USE TimerAssumption DEF TimerTypeOK, TurnStates, Pcs, TaskStates, Fault
<1>1. ASSUME NEW k \in Turns, Begin(k) \/ Get(k) \/ GetFails(k) PROVE TimerTypeOK'
  BY <1>1 DEF Begin, Get, GetFails, Return, Spoken
<1>2. ASSUME NEW k \in Turns, Revoke(k) \/ RevokeFails(k) PROVE TimerTypeOK'
  BY <1>2 DEF Revoke, RevokeFails
<1>3. ASSUME NEW k \in Turns, Clear(k) \/ ClearFails(k) PROVE TimerTypeOK'
  BY <1>3 DEF Clear, ClearFails, Return, Spoken
<1>4. ASSUME NEW k \in Turns, Work(k) \/ Crash(k) PROVE TimerTypeOK'
  BY <1>4 DEF Work, Crash, Spoken
<1>5. ASSUME NEW k \in Turns, Apply(k) \/ ApplyFails(k) PROVE TimerTypeOK'
  <2>1. CASE Apply(k)
    <3>1. PICK t \in Tasks : task' = [task EXCEPT ![t] = "scheduled"]
                             /\ turn' = [turn EXCEPT ![k].pc = "store", ![k].mine = t]
      BY <2>1 DEF Apply
    <3>2. task' \in [Tasks -> TaskStates]
      <4>1. "scheduled" \in TaskStates /\ task \in [Tasks -> TaskStates]
        OBVIOUS
      <4> QED BY ONLY <3>1, <4>1
    <3>3. turn' \in [Turns -> TurnStates]
      <4>1. [turn[k] EXCEPT !.pc = "store", !.mine = t] \in TurnStates
        BY turn[k] \in TurnStates
      <4>2. turn' = [turn EXCEPT ![k] = [turn[k] EXCEPT !.pc = "store", !.mine = t]]
        BY <3>1
      <4>3. turn \in [Turns -> TurnStates]
        OBVIOUS
      <4> QED BY ONLY <4>1, <4>2, <4>3
    <3>4. \A j \in Turns : turn'[j] = IF j = k THEN [turn[k] EXCEPT !.pc = "store", !.mine = t]
                                               ELSE turn[j]
      BY <3>1
    <3>5. t # NoTask
      OBVIOUS
    <3>6. \A j \in Turns : /\ turn'[j].pc = "store" => turn'[j].mine # NoTask
                           /\ turn'[j].pc \in {"revoke", "clear"} => turn'[j].seen # NoTask
      <4>1. turn'[k].pc = "store" /\ turn'[k].mine = t
        BY <3>4, turn[k] \in TurnStates
      <4> QED BY <3>4, <3>5, <4>1
    <3>7. UNCHANGED <<meta, stored, silenced, missed, timedOut, stray, faults>>
      BY <2>1 DEF Apply
    <3> QED BY <3>2, <3>3, <3>6, <3>7
  <2>2. CASE ApplyFails(k)
    BY <2>2 DEF ApplyFails
  <2> QED BY <1>5, <2>1, <2>2
<1>6. ASSUME NEW k \in Turns, Store(k) \/ StoreFails(k) PROVE TimerTypeOK'
  <2>1. turn' = [turn EXCEPT ![k].pc = "done"]
    BY <1>6 DEF Store, StoreFails
  <2>2. turn' \in [Turns -> TurnStates]
    BY <2>1
  <2>3. \A j \in Turns : /\ turn'[j].pc = "store" => turn'[j].mine # NoTask
                         /\ turn'[j].pc \in {"revoke", "clear"} => turn'[j].seen # NoTask
    BY <2>1
  <2>4. turn[k].mine \in Tasks
    BY <1>6 DEF Store, StoreFails
  <2>5. /\ meta' \in Tasks \cup {NoTask} /\ stored' \subseteq Tasks /\ stray' \subseteq Tasks
        /\ UNCHANGED <<task, silenced, missed, timedOut>> /\ faults' \in Nat
    BY <1>6, <2>4 DEF Store, StoreFails
  <2> QED BY <2>2, <2>3, <2>5
<1>7. ASSUME NEW t \in Tasks, Fire(t) \/ FireFails(t) \/ FireReasonFails(t) \/ Discard(t)
      PROVE  TimerTypeOK'
  BY <1>7 DEF Fire, FireFails, FireReasonFails, Discard
<1>8. CASE MetaExpire
  BY <1>8 DEF MetaExpire
<1>9. CASE UNCHANGED vars
  BY <1>9 DEF vars
<1> QED
  BY <1>1, <1>2, <1>3, <1>4, <1>5, <1>6, <1>7, <1>8, <1>9 DEF Next, TurnStep, TurnFault

\* A turn that is about to revoke, clear or store always has the task id of the
\* timer it read or armed: no call of timer_coordinator is made on None.
THEOREM TimerTypeCorrectness == Spec => []TimerTypeOK
<1>1. Init => TimerTypeOK
  BY TimerAssumption DEF Init, TimerTypeOK, TurnStates, Pcs, TaskStates, IdleTurn
<1> QED
  BY <1>1, TimerTypeStep, PTL DEF Spec

-------------------------------------------------------------------------------
\* What the user has spoken after was stored before, and is not in the metadata unless
\* a failed cancel left it there.
AnsweredIsOver ==
  /\ silenced \subseteq stored
  /\ \A k \in Turns : turn[k].heard \subseteq stored
  /\ meta # NoTask => meta \in stored /\ meta \notin silenced \ missed

\* A task id is stored once, by the turn that created it.
Fresh ==
  /\ \A t \in stored : task[t] # "new"
  /\ \A k \in Turns : turn[k].pc = "store" =>
       /\ turn[k].mine \notin stored
       /\ task[turn[k].mine] # "new"
       /\ \A j \in Turns : turn[j].pc = "store" /\ turn[j].mine = turn[k].mine => j = k

\* Together they are inductive: nothing the user answered can become the
\* metadata again, because only a fresh id is ever stored.
LEMMA AnsweredStep ==
  TimerTypeOK /\ AnsweredIsOver /\ Fresh /\ [Next]_vars => AnsweredIsOver' /\ Fresh'
<1> SUFFICES ASSUME TimerTypeOK, AnsweredIsOver, Fresh, [Next]_vars
             PROVE  AnsweredIsOver' /\ Fresh'
  OBVIOUS
<1> USE TimerAssumption DEF TimerTypeOK, TurnStates, AnsweredIsOver, Fresh
<1>1. ASSUME NEW k \in Turns, Begin(k) \/ Get(k) \/ GetFails(k)
      PROVE  AnsweredIsOver' /\ Fresh'
  BY <1>1 DEF Begin, Get, GetFails, Return, Spoken
<1>2. ASSUME NEW k \in Turns, Revoke(k) \/ RevokeFails(k) PROVE AnsweredIsOver' /\ Fresh'
  BY <1>2 DEF Revoke, RevokeFails
<1>3. ASSUME NEW k \in Turns, Clear(k) \/ ClearFails(k) PROVE AnsweredIsOver' /\ Fresh'
  BY <1>3 DEF Clear, ClearFails, Return, Spoken
<1>4. ASSUME NEW k \in Turns, Work(k) \/ Crash(k) PROVE AnsweredIsOver' /\ Fresh'
  BY <1>4 DEF Work, Crash, Spoken
<1>5. ASSUME NEW k \in Turns, Apply(k) \/ ApplyFails(k) PROVE AnsweredIsOver' /\ Fresh'
  <2>1. /\ UNCHANGED <<meta, stored, silenced, missed>>
        /\ \A j \in Turns : turn'[j].heard = turn[j].heard
    BY <1>5 DEF Apply, ApplyFails
  <2>2. AnsweredIsOver'
    BY <2>1
  <2>3. Fresh'
    BY <1>5 DEF Apply, ApplyFails
  <2> QED BY <2>2, <2>3
<1>6. ASSUME NEW k \in Turns, Store(k) \/ StoreFails(k) PROVE AnsweredIsOver' /\ Fresh'
  <2>1. /\ UNCHANGED <<task, silenced, missed>>
        /\ turn' = [turn EXCEPT ![k].pc = "done"]
        /\ turn[k].pc = "store"
        /\ \/ meta' = turn[k].mine /\ stored' = stored \cup {turn[k].mine}
           \/ UNCHANGED <<meta, stored>>
    BY ONLY <1>6 DEF Store, StoreFails
  <2>2. turn[k].mine \notin silenced
    BY <2>1
  <2>3. AnsweredIsOver'
    BY <2>1, <2>2
  <2>4. Fresh'
    BY <2>1
  <2> QED BY <2>3, <2>4
<1>7. ASSUME NEW t \in Tasks, Fire(t) \/ FireFails(t) \/ FireReasonFails(t) \/ Discard(t)
      PROVE  AnsweredIsOver' /\ Fresh'
  BY <1>7 DEF Fire, FireFails, FireReasonFails, Discard
<1>8. CASE MetaExpire
  BY <1>8 DEF MetaExpire
<1>9. CASE UNCHANGED vars
  BY <1>9 DEF vars
<1> QED
  BY <1>1, <1>2, <1>3, <1>4, <1>5, <1>6, <1>7, <1>8, <1>9 DEF Next, TurnStep, TurnFault

\* The compare-and-delete of bugtrack_timeout is enough: with or without the queue
\* lock, and however late a revoked task starts, a task that times out for a user who
\* has spoken since it was armed is one whose own calls raised, or one that the last
\* cancel of an inbound message left in the metadata, because its get or clear raised
\* or its turn died.
THEOREM TimeoutOnlyAfterSilenceHolds == Spec => TimeoutOnlyAfterSilence
<1>1. Init => AnsweredIsOver /\ Fresh
  BY DEF Init, AnsweredIsOver, Fresh, IdleTurn
<1>2. AnsweredIsOver /\ TimerTypeOK /\ [Next]_vars
        => [faults' = faults => \A t \in timedOut' \ timedOut : t \notin silenced \ missed]_vars
  <2> SUFFICES ASSUME AnsweredIsOver, TimerTypeOK, Next, faults' = faults
               PROVE  \A t \in timedOut' \ timedOut : t \notin silenced \ missed
    OBVIOUS
  <2>1. ASSUME NEW t \in Tasks, Fire(t)
        PROVE  \A x \in timedOut' \ timedOut : x \notin silenced \ missed
    BY <2>1, TimerAssumption DEF Fire, AnsweredIsOver
  <2>2. ASSUME NEW t \in Tasks PROVE ~FireReasonFails(t)
    BY DEF FireReasonFails, Fault, TimerTypeOK
  <2>3. ASSUME NEW k \in Turns, TurnStep(k) \/ TurnFault(k) PROVE timedOut' = timedOut
    BY <2>3 DEF TurnStep, TurnFault, Begin, Get, GetFails, Revoke, RevokeFails, Clear,
       ClearFails, Work, Apply, ApplyFails, Store, StoreFails, Crash
  <2>4. ASSUME NEW t \in Tasks, FireFails(t) \/ Discard(t) PROVE timedOut' = timedOut
    BY <2>4 DEF FireFails, Discard
  <2>5. CASE MetaExpire
    BY <2>5 DEF MetaExpire
  <2> QED
    BY <2>1, <2>2, <2>3, <2>4, <2>5 DEF Next
<1> QED
  BY <1>1, <1>2, TimerTypeCorrectness, AnsweredStep, PTL DEF Spec, TimeoutOnlyAfterSilence

-------------------------------------------------------------------------------
\* Under the queue lock one turn at a time cancels and arms: what it read is what
\* the metadata still holds, and what it clears or overwrites is no longer live.
OneAtATime ==
  /\ \A j, k \in Turns : Active(j) /\ Active(k) => j = k
  /\ \A k \in Turns : turn[k].pc \in {"revoke", "clear"} => meta \in {NoTask, turn[k].seen}
  /\ \A k \in Turns : turn[k].pc = "clear" =>
       task[turn[k].seen] # "scheduled" \/ turn[k].seen \in stray
  /\ \A k \in Turns : turn[k].pc \in {"apply", "store"} =>
       meta = NoTask \/ task[meta] # "scheduled" \/ meta \in stray

\* OneLiveTimer is preserved once the turns are serialised.
LEMMA OneLiveStep ==
  ASSUME Serialized
  PROVE  /\ TimerTypeOK /\ AnsweredIsOver /\ Fresh /\ OneAtATime /\ OneLiveTimer /\ [Next]_vars
         => OneAtATime' /\ OneLiveTimer'
<1> SUFFICES ASSUME TimerTypeOK, AnsweredIsOver, Fresh, OneAtATime, OneLiveTimer, [Next]_vars
             PROVE  OneAtATime' /\ OneLiveTimer'
  OBVIOUS
<1> DEFINE Goal == OneAtATime' /\ OneLiveTimer'
<1>0. \A k \in Turns : turn[k] \in TurnStates
  BY DEF TimerTypeOK
<1> USE TimerAssumption DEF TimerTypeOK, OneAtATime, OneLiveTimer, Active
<1>1. ASSUME NEW k \in Turns, Begin(k) \/ Get(k) \/ GetFails(k) PROVE Goal
  BY <1>0, <1>1 DEF Begin, Get, GetFails, Return, Spoken, TurnStates
<1>2. ASSUME NEW k \in Turns, Revoke(k) \/ RevokeFails(k) PROVE Goal
  BY <1>0, <1>2 DEF Revoke, RevokeFails, TurnStates
<1>3. ASSUME NEW k \in Turns, Clear(k) \/ ClearFails(k) PROVE Goal
  BY <1>0, <1>3 DEF Clear, ClearFails, Return, Spoken, TurnStates
<1>4. ASSUME NEW k \in Turns, Work(k) \/ Crash(k) PROVE Goal
  <2>1. UNCHANGED <<meta, task>> /\ stray \subseteq stray'
    BY <1>4 DEF Work, Crash
  <2>2. \A j \in Turns : j # k => turn'[j] = turn[j]
    BY <1>4 DEF Work, Crash
  <2>3. turn'[k].pc \in {"get", "done"} /\ turn[k].pc \notin {"new", "done"}
    BY <1>0, <1>4 DEF Work, Crash, TurnStates
  <2>4. turn[k].pc = "store" => turn[k].mine \in stray'
    BY <1>4 DEF Work, Crash
  <2>5. OneAtATime'
    BY <2>1, <2>2, <2>3
  <2>6. OneLiveTimer'
    BY <2>1, <2>2, <2>3, <2>4
  <2> QED BY <2>5, <2>6
<1>5. ASSUME NEW k \in Turns, Apply(k) \/ ApplyFails(k) PROVE Goal
  <2>1. CASE Apply(k)
    <3>1. PICK t \in Tasks : /\ task[t] = "new"
                             /\ task' = [task EXCEPT ![t] = "scheduled"]
                             /\ turn' = [turn EXCEPT ![k].pc = "store", ![k].mine = t]
      BY <2>1 DEF Apply
    <3>2. \A j \in Turns : turn'[j] = IF j = k THEN [turn[k] EXCEPT !.pc = "store", !.mine = t]
                                               ELSE turn[j]
      BY <3>1
    <3>3. turn[k].pc = "apply" /\ UNCHANGED <<meta, stray>>
      BY <2>1 DEF Apply
    <3>4. \A x \in Tasks : task'[x] = IF x = t THEN "scheduled" ELSE task[x]
      BY <3>1
    <3>5. meta # t
      BY <3>1 DEF AnsweredIsOver, Fresh
    <3>6. OneAtATime'
      <4>1. \A j \in Turns : j # k => turn[j].pc \in {"new", "done"}
        BY <3>3
      <4>2. \A j \in Turns : j # k => turn'[j].pc \in {"new", "done"}
        BY <3>2, <4>1
      <4>3. turn'[k].pc = "store"
        BY <1>0, <3>2 DEF TurnStates
      <4>4. meta' = NoTask \/ task'[meta'] # "scheduled" \/ meta' \in stray'
        BY <3>3, <3>4, <3>5
      <4> QED BY <4>2, <4>3, <4>4
    <3>7. OneLiveTimer'
      <4> SUFFICES ASSUME NEW x \in Tasks, task'[x] = "scheduled"
                   PROVE  \/ meta' = x
                          \/ \E j \in Turns : turn'[j].pc = "store" /\ turn'[j].mine = x
                          \/ x \in stray'
        OBVIOUS
      <4>1. CASE x = t
        <5>1. turn'[k].pc = "store" /\ turn'[k].mine = x
          <6>1. turn'[k] = [turn[k] EXCEPT !.pc = "store", !.mine = t] /\ turn[k] \in TurnStates
            BY <1>0, <3>2
          <6> QED BY ONLY <4>1, <6>1 DEF TurnStates
        <5> QED BY <5>1
      <4>2. CASE x # t
        <5>1. meta = x \/ (\E j \in Turns : turn[j].pc = "store" /\ turn[j].mine = x) \/ x \in stray
          BY <3>4, <4>2
        <5>2. \A j \in Turns : turn[j].pc = "store" => turn'[j] = turn[j]
          BY <3>2, <3>3
        <5> QED BY ONLY <3>3, <5>1, <5>2
      <4> QED BY <4>1, <4>2
    <3> QED BY <3>6, <3>7
  <2>2. CASE ApplyFails(k)
    <3>1. /\ turn' = [turn EXCEPT ![k].pc = "done"] /\ meta' = meta /\ turn[k].pc = "apply"
          /\ stray \subseteq stray'
      BY <2>2 DEF ApplyFails
    <3>2. \A x \in Tasks : task'[x] = "scheduled" => task[x] = "scheduled" \/ x \in stray'
      BY <2>2 DEF ApplyFails
    <3>3. \A j \in Turns : turn'[j].pc = IF j = k THEN "done" ELSE turn[j].pc
      BY <1>0, <3>1 DEF TurnStates
    <3>4. \A j \in Turns : j # k => turn'[j] = turn[j]
      BY <3>1
    <3>5. \A j \in Turns : turn'[j].pc \in {"new", "done"}
      BY <3>1, <3>3
    <3>6. OneAtATime'
      BY <3>5
    <3>7. OneLiveTimer'
      BY <3>1, <3>2, <3>4
    <3> QED BY <3>6, <3>7
  <2> QED BY <1>5, <2>1, <2>2
<1>6. ASSUME NEW k \in Turns, Store(k) \/ StoreFails(k) PROVE Goal
  <2>1. /\ UNCHANGED task /\ stray \subseteq stray' /\ turn[k].pc = "store"
        /\ turn' = [turn EXCEPT ![k].pc = "done"]
        /\ meta' = turn[k].mine \/ (meta' = meta /\ turn[k].mine \in stray')
    <3>1. CASE Store(k)
      BY ONLY <3>1 DEF Store
    <3>2. CASE StoreFails(k)
      <4>1. stray' = stray \cup {turn[k].mine} /\ UNCHANGED task /\ turn[k].pc = "store"
        BY ONLY <3>2 DEF StoreFails
      <4>2. turn' = [turn EXCEPT ![k].pc = "done"] /\ (meta' = turn[k].mine \/ meta' = meta)
        BY ONLY <3>2 DEF StoreFails
      <4> QED BY ONLY <4>1, <4>2
    <3> QED BY <1>6, <3>1, <3>2
  <2>2. \A j \in Turns : j # k => turn'[j] = turn[j] /\ turn[j].pc \in {"new", "done"}
    BY <2>1
  <2>3. turn'[k].pc = "done"
    BY <1>0, <2>1 DEF TurnStates
  <2>4. OneAtATime'
    BY <2>2, <2>3
  <2>5. meta = NoTask \/ task[meta] # "scheduled" \/ meta \in stray
    BY <2>1
  <2>6. ASSUME NEW x \in Tasks, task'[x] = "scheduled"
        PROVE  meta' = x \/ x \in stray'
    <3>1. meta = x \/ turn[k].mine = x \/ x \in stray
      BY <2>1, <2>2, <2>6
    <3> QED BY <2>1, <2>5, <2>6, <3>1
  <2>7. OneLiveTimer'
    BY <2>6
  <2> QED BY <2>4, <2>7
<1>7. ASSUME NEW t \in Tasks, Fire(t) \/ FireFails(t) \/ FireReasonFails(t) \/ Discard(t)
      PROVE  Goal
  <2>1. /\ turn' = turn /\ stray \subseteq stray' /\ (meta' = meta \/ meta' = NoTask)
        /\ task' = [task EXCEPT ![t] = "finished"]
        /\ meta' # meta => meta = t
    BY <1>7 DEF Fire, FireFails, FireReasonFails, Discard
  <2>2. \A x \in Tasks : task'[x] = "scheduled" => task[x] = "scheduled" /\ x # t
    BY <2>1
  <2>3. OneAtATime'
    BY <2>1, <2>2
  <2>4. OneLiveTimer'
    BY <2>1, <2>2
  <2> QED
    BY <2>3, <2>4
<1>8. CASE MetaExpire
  BY <1>8 DEF MetaExpire
<1>9. CASE UNCHANGED vars
  BY <1>9 DEF vars
<1> QED
  BY <1>1, <1>2, <1>3, <1>4, <1>5, <1>6, <1>7, <1>8, <1>9 DEF Next, TurnStep, TurnFault

\* Cancel-before-arm is enough under the queue lock: a user has at most one
\* countdown that nobody revoked, apart from those a failed call, a crash or a
\* late worker cut loose.
THEOREM OneLiveTimerHolds ==
  ASSUME Serialized
  PROVE  Spec => []OneLiveTimer
<1>1. Init => AnsweredIsOver /\ Fresh /\ OneAtATime /\ OneLiveTimer
  BY DEF Init, AnsweredIsOver, Fresh, OneAtATime, OneLiveTimer, Active, IdleTurn
<1> QED
  BY <1>1, TimerTypeCorrectness, AnsweredStep, OneLiveStep, PTL DEF Spec
-------------------------------------------------------------------------------
\* The cancel of a turn deletes the key whatever it holds (store.clear).  Under the queue
\* lock that is the task the turn has read and revoked: the only step between get and
\* clear that writes the metadata is a store, and the turn that stores is the turn itself.
THEOREM CancelErasesOnlyWhatItReadHolds ==
  ASSUME Serialized
  PROVE  Spec => CancelErasesOnlyWhatItRead
<1> DEFINE Erases(k) == turn[k].pc = "clear" /\ turn'[k].pc # "clear" /\ meta' # meta
<1>1. Init => AnsweredIsOver /\ Fresh /\ OneAtATime /\ OneLiveTimer
  BY DEF Init, AnsweredIsOver, Fresh, OneAtATime, OneLiveTimer, Active, IdleTurn
<1>2. TimerTypeOK /\ OneAtATime /\ [Next]_vars
        => [\A k \in Turns : turn[k].pc = "clear" /\ turn'[k].pc # "clear" /\ meta' # meta
                             => meta = turn[k].seen]_vars
  <2> SUFFICES ASSUME TimerTypeOK, OneAtATime, Next, NEW k \in Turns, Erases(k)
               PROVE  meta = turn[k].seen
    OBVIOUS
  <2>1. ASSUME NEW j \in Turns, j # k, TurnStep(j) \/ TurnFault(j) PROVE FALSE
    <3>1. turn'[k] = turn[k]
      BY <2>1 DEF TurnStep, TurnFault, Begin, Get, GetFails, Revoke, RevokeFails, Clear,
         ClearFails, Work, Apply, ApplyFails, Store, StoreFails, Crash, Return, TimerTypeOK
    <3> QED BY <3>1
  <2>2. CASE TurnStep(k) \/ TurnFault(k)
    <3>1. Clear(k) \/ ClearFails(k)
      BY <2>2 DEF TurnStep, TurnFault, Begin, Get, GetFails, Revoke, RevokeFails, Work, Apply,
         ApplyFails, Store, StoreFails, Crash
    <3>2. meta' = meta \/ meta' = NoTask
      BY <3>1 DEF Clear, ClearFails
    <3>3. meta \in {NoTask, turn[k].seen}
      BY DEF OneAtATime
    <3> QED BY <3>2, <3>3
  <2>3. ASSUME NEW t \in Tasks, Fire(t) \/ FireFails(t) \/ FireReasonFails(t) \/ Discard(t)
        PROVE  FALSE
    BY <2>3 DEF Fire, FireFails, FireReasonFails, Discard
  <2>4. CASE MetaExpire
    BY <2>4 DEF MetaExpire
  <2> QED BY <2>1, <2>2, <2>3, <2>4 DEF Next
<1> QED
  BY <1>1, <1>2, TimerTypeCorrectness, AnsweredStep, OneLiveStep, PTL
     DEF Spec, CancelErasesOnlyWhatItRead
===============================================================================
