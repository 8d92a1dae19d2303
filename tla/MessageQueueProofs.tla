-------------------------- MODULE MessageQueueProofs --------------------------
(***************************************************************************)
(* Theorems about MessageQueue, for every set of consumers, workers,       *)
(* deliveries and users and every bound on faults and lapses.              *)
(***************************************************************************)
EXTENDS MessageQueue, TLAPS

-------------------------------------------------------------------------------
(***************************************************************************)
(* Lemmas on the list operators.                                           *)
(***************************************************************************)

\* LRANGE returns envelopes when the list holds envelopes.
LEMMA LRangeType ==
  ASSUME NEW S, NEW s \in Seq(S)
  PROVE  LRange(s) \in Seq(S)
<1>1. \A i \in 1 .. Len(s) : s[Len(s) + 1 - i] \in S
  OBVIOUS
<1> QED
  BY <1>1 DEF LRange

\* LREM leaves a list of envelopes.
LEMMA LRemType ==
  ASSUME NEW S, NEW s \in Seq(S), NEW x
  PROVE  LRem(s, x) \in Seq(S)
<1>1. CASE x \in Elems(s)
  <2> DEFINE i == CHOOSE j \in DOMAIN s : s[j] = x
  <2>1. i \in 1 .. Len(s) /\ Len(s) \in Nat
    BY <1>1 DEF Elems
  <2>2. Len(s) - 1 \in Nat
    BY <2>1
  <2>3. \A k \in 1 .. (Len(s) - 1) : (IF k < i THEN s[k] ELSE s[k + 1]) \in S
    BY <2>1
  <2> HIDE DEF i
  <2>4. [k \in 1 .. (Len(s) - 1) |-> IF k < i THEN s[k] ELSE s[k + 1]] \in Seq(S)
    BY <2>2, <2>3
  <2> QED
    BY <1>1, <2>4 DEF LRem, i
<1>2. CASE x \notin Elems(s)
  BY <1>2 DEF LRem
<1> QED
  BY <1>1, <1>2

\* LSET leaves a list of envelopes.
LEMMA LSetType ==
  ASSUME NEW S, NEW s \in Seq(S), NEW old, NEW new \in S
  PROVE  LSet(s, old, new) \in Seq(S)
BY DEF LSet

\* What a Lua loop keeps or moves is a list of envelopes.
LEMMA FilteredType ==
  ASSUME NEW S, NEW s \in Seq(S), NEW T, NEW t \in Filtered(s, T)
  PROVE  t \in Seq(S)
<1> DEFINE Idx == {i \in DOMAIN s : s[i] \in T}
           Picks(n) == {f \in [1 .. n -> Idx] :
                          /\ \A a, b \in 1 .. n : a < b => f[a] < f[b]
                          /\ \A i \in Idx : \E a \in 1 .. n : f[a] = i}
<1>1. PICK n \in 0 .. Len(s) : t \in {[a \in 1 .. n |-> s[f[a]]] : f \in Picks(n)}
  BY DEF Filtered
<1>2. PICK f \in [1 .. n -> Idx] : t = [a \in 1 .. n |-> s[f[a]]]
  BY <1>1
<1>3. n \in Nat /\ \A a \in 1 .. n : f[a] \in DOMAIN s
  BY <1>1, <1>2
<1>4. \A a \in 1 .. n : s[f[a]] \in S
  BY <1>3
<1> QED
  BY <1>2, <1>3, <1>4

-------------------------------------------------------------------------------
(***************************************************************************)
(* Type correctness.                                                       *)
(***************************************************************************)

\* A worker with an envelope in hand has a message and a user.
LEMMA HeldType ==
  ASSUME WorkerTypes, NEW w \in Workers, wk[w].pc # "idle"
  PROVE  /\ wk[w].raw \in Raw
         /\ wk[w].raw.id \in Deliveries
         /\ Msg(w) \in Msgs
         /\ User(w) \in Users
         /\ OwnerOf[w] \in Consumers
BY ConstantsAssumption DEF WorkerTypes, ConstantsAssumption, Raw, Msg, User

\* BLMOVE hands over an envelope.
LEMMA HeadType ==
  ASSUME ListTypes, main # <<>>
  PROVE  Head(main) \in Raw /\ Tail(main) \in Seq(Raw)
BY DEF ListTypes

\* The claim changes the stamp only.
LEMMA RestampedType ==
  ASSUME NEW r \in Raw, FreshStamps(r.id) # {}
  PROVE  Restamped(r) \in Raw /\ Restamped(r).id = r.id
<1>1. (CHOOSE t \in FreshStamps(r.id) : TRUE) \in Stamps
  BY DEF FreshStamps
<1> QED
  BY <1>1 DEF Restamped, Raw

\* A retry never goes past the attempts an envelope may show.
LEMMA ReturnedRawType ==
  ASSUME WorkerTypes, NEW w \in Workers, wk[w].pc # "idle", ~ToDead(w)
  PROVE  ReturnedRaw(w) \in Raw /\ ReturnedRaw(w).id = wk[w].raw.id
<1>1. wk[w].raw \in Raw
  BY HeldType
<1>2. CASE wk[w].out = "error"
  BY <1>1, <1>2, ConstantsAssumption DEF ReturnedRaw, ToDead, Exhausted, Raw,
     ConstantsAssumption
<1>3. CASE wk[w].out # "error"
  BY <1>1, <1>3 DEF ReturnedRaw
<1> QED
  BY <1>2, <1>3

\* _MOVE_LUA moves envelopes and delivery ids.
LEMMA MoveLuaType ==
  ASSUME ListTypes, WorkerTypes, NEW w \in Workers, wk[w].pc # "idle", MoveLua(w)
  PROVE  /\ main' \in Seq(Raw)
         /\ proc' \in [Consumers -> Seq(Raw)]
         /\ dead' \subseteq Deliveries
<1> DEFINE c == OwnerOf[w]
           r == wk[w].raw
<1>0. /\ main \in Seq(Raw) /\ proc \in [Consumers -> Seq(Raw)] /\ dead \subseteq Deliveries
      /\ c \in Consumers /\ r.id \in Deliveries
  BY HeldType DEF ListTypes
<1>1. CASE r \notin Elems(proc[c])
  BY <1>0, <1>1 DEF MoveLua
<1>2. CASE r \in Elems(proc[c])
  <2>1. proc' = [proc EXCEPT ![c] = LRem(@, r)]
    BY <1>2 DEF MoveLua
  <2>2. proc' \in [Consumers -> Seq(Raw)]
    BY <1>0, <2>1, LRemType
  <2>3. CASE ToDead(w)
    BY <1>0, <1>2, <2>2, <2>3 DEF MoveLua
  <2>4. CASE ~ToDead(w)
    <3>1. main' = Append(main, ReturnedRaw(w)) /\ UNCHANGED dead
      BY <1>2, <2>4 DEF MoveLua
    <3>2. ReturnedRaw(w) \in Raw
      BY <2>4, ReturnedRawType
    <3> QED
      BY <1>0, <2>2, <3>1, <3>2
  <2> QED
    BY <2>3, <2>4
<1> QED
  BY <1>1, <1>2

\* The initial state is well typed.
LEMMA TypeInit == Init => TypeOK
BY ConstantsAssumption
DEF Init, TypeOK, ListTypes, KeyTypes, WorkerTypes, ConsumerTypes, HistoryTypes,
    ConstantsAssumption, Raw, WorkerStates, RecStates, Pcs, Outcomes, RecPcs,
    IdleWorker, IdleRec, Running

\* Worker steps keep the coroutine states of the workers well-formed.
LEMMA WorkerTypesStep ==
  ASSUME TypeOK, NEW w \in Workers, WorkerStep(w) \/ WorkerFault(w)
  PROVE  WorkerTypes'
<1>0. wk \in [Workers -> WorkerStates] /\ \A v \in Workers : wk[v].pc # "idle" => wk[v].raw \in Raw
  BY DEF TypeOK, WorkerTypes
<1> SUFFICES /\ wk' \in [Workers -> WorkerStates]
             /\ \A v \in Workers : wk'[v].pc # "idle" => wk'[v].raw \in Raw
  BY DEF WorkerTypes
<1> USE DEF WorkerStates, Pcs, Outcomes
<1>1. CASE Blmove(w)
  <2>1. Head(main) \in Raw
    BY <1>1, HeadType DEF Blmove, TypeOK
  <2>2. wk' = [wk EXCEPT ![w].pc = "claim", ![w].raw = Head(main)]
    BY <1>1 DEF Blmove
  <2>3. [wk[w] EXCEPT !.pc = "claim", !.raw = Head(main)] \in WorkerStates
    BY <1>0, <2>1
  <2>4. wk' \in [Workers -> WorkerStates]
    BY <1>0, <2>2, <2>3
  <2> QED
    BY <1>0, <2>1, <2>2, <2>4
<1>2. CASE MarkProcessingStarted(w)
  <2>1. Restamped(wk[w].raw) \in Raw
    BY <1>0, <1>2, RestampedType DEF MarkProcessingStarted
  <2>2. \/ wk' = [wk EXCEPT ![w].pc = "lock", ![w].raw = Restamped(wk[w].raw)]
        \/ wk' = [wk EXCEPT ![w].pc = "lock"]
    BY <1>2 DEF MarkProcessingStarted
  <2> QED
    BY <1>0, <1>2, <2>1, <2>2 DEF MarkProcessingStarted
<1>3. CASE TryLock(w)
  BY <1>0, <1>3 DEF TryLock
<1>4. CASE ProcessStep(w)
  BY <1>0, <1>4 DEF ProcessStep, Acquire, Work, Send, MarkDone, Post, Release
<1>5. CASE HandleUnreadable(w) \/ Unlock(w)
  BY <1>0, <1>5 DEF HandleUnreadable, Unlock
<1>6. CASE wk' = [wk EXCEPT ![w] = IdleWorker]
  BY <1>0, <1>6 DEF IdleWorker
<1>7. CASE MarkProcessingStartedFails(w) \/ TryLockFails(w) \/ AcquireFails(w)
           \/ MarkDoneFails(w)
  BY <1>0, <1>7 DEF MarkProcessingStartedFails, TryLockFails, AcquireFails, MarkDoneFails
<1>8. CASE PostFails(w) \/ ReleaseFails(w) \/ UnlockFails(w)
  BY <1>0, <1>8 DEF PostFails, ReleaseFails, UnlockFails
<1>9. CASE BlmoveReplyLost(w)
  BY <1>0, <1>9 DEF BlmoveReplyLost
<1>10. Ack(w) \/ MoveTo(w) \/ LeaveInProc(w) \/ AckFails(w) \/ MoveToFails(w)
         => wk' = [wk EXCEPT ![w] = IdleWorker]
  BY DEF Ack, MoveTo, LeaveInProc, AckFails, MoveToFails
<1> QED
  BY <1>1, <1>2, <1>3, <1>4, <1>5, <1>6, <1>7, <1>8, <1>9, <1>10 DEF WorkerStep, WorkerFault

\* Worker steps put envelopes into the lists and nothing else.
LEMMA ListTypesWorker ==
  ASSUME TypeOK, NEW w \in Workers, WorkerStep(w) \/ WorkerFault(w)
  PROVE  ListTypes'
<1> DEFINE c == OwnerOf[w]
<1>0. /\ ListTypes /\ WorkerTypes
      /\ main \in Seq(Raw) /\ proc \in [Consumers -> Seq(Raw)] /\ dead \subseteq Deliveries
      /\ pend \in [Consumers -> SUBSET Raw]
      /\ c \in Consumers
  BY ConstantsAssumption DEF TypeOK, ListTypes, ConstantsAssumption
<1>1. CASE UNCHANGED lists
  BY <1>0, <1>1 DEF ListTypes, lists
<1>2. CASE Blmove(w) \/ BlmoveReplyLost(w)
  <2>1. /\ main' = Tail(main) /\ proc' = [proc EXCEPT ![c] = Append(@, Head(main))]
        /\ UNCHANGED <<dead, pend>> /\ main # <<>>
    BY <1>2 DEF Blmove, BlmoveReplyLost
  <2>2. Head(main) \in Raw /\ Tail(main) \in Seq(Raw)
    BY <1>0, <2>1, HeadType
  <2> QED
    BY <1>0, <2>1, <2>2 DEF ListTypes
<1>3. CASE MarkProcessingStarted(w) \/ MarkProcessingStartedFails(w)
  <2>1. Restamped(wk[w].raw) \in Raw
    BY <1>0, <1>3, HeldType, RestampedType DEF MarkProcessingStarted, MarkProcessingStartedFails
  <2>2. /\ \/ proc' = [proc EXCEPT ![c] = LSet(@, wk[w].raw, Restamped(wk[w].raw))]
           \/ proc' = proc
        /\ UNCHANGED <<main, dead, pend>>
    BY <1>3 DEF MarkProcessingStarted, MarkProcessingStartedFails
  <2>3. LSet(proc[c], wk[w].raw, Restamped(wk[w].raw)) \in Seq(Raw)
    BY <1>0, <2>1, LSetType
  <2> QED
    BY <1>0, <2>2, <2>3 DEF ListTypes
<1>4. CASE Ack(w) \/ AckFails(w)
  <2>1. wk[w].raw \in Raw
    BY <1>0, <1>4, HeldType DEF Ack, AckFails
  <2>2. /\ proc' = [proc EXCEPT ![c] = LRem(@, wk[w].raw)] \/ proc' = proc
        /\ \E S \in {pend[c] \ {wk[w].raw}, pend[c] \cup {wk[w].raw}} :
             pend' = [pend EXCEPT ![c] = S]
        /\ UNCHANGED <<main, dead>>
    BY <1>4 DEF Ack, AckFails
  <2>3. LRem(proc[c], wk[w].raw) \in Seq(Raw)
    BY <1>0, LRemType
  <2>4. proc' \in [Consumers -> Seq(Raw)]
    BY <1>0, <2>2, <2>3
  <2>5. pend' \in [Consumers -> SUBSET Raw]
    BY <1>0, <2>1, <2>2
  <2> QED
    BY <1>0, <2>2, <2>4, <2>5 DEF ListTypes
<1>5. CASE MoveTo(w) \/ MoveToFails(w)
  <2>1. wk[w].pc # "idle" /\ (MoveLua(w) \/ UNCHANGED <<main, proc, dead>>) /\ UNCHANGED pend
    BY <1>5 DEF MoveTo, MoveToFails
  <2> QED
    BY <1>0, <2>1, MoveLuaType DEF ListTypes
<1>6. \/ HandleUnreadable(w) \/ TryLock(w) \/ ProcessStep(w) \/ Unlock(w) \/ LeaveInProc(w)
      \/ TryLockFails(w) \/ AcquireFails(w) \/ MarkDoneFails(w) \/ PostFails(w)
      \/ ReleaseFails(w) \/ UnlockFails(w)
      => UNCHANGED lists
  BY DEF HandleUnreadable, TryLock, ProcessStep, Acquire, Work, Send, MarkDone, Post, Release,
         Unlock, LeaveInProc, TryLockFails, AcquireFails, MarkDoneFails, PostFails,
         ReleaseFails, UnlockFails
<1> QED
  BY <1>1, <1>2, <1>3, <1>4, <1>5, <1>6 DEF WorkerStep, WorkerFault

\* Worker steps keep the types of the Redis keys.
LEMMA KeyTypesWorker ==
  ASSUME TypeOK, NEW w \in Workers, WorkerStep(w) \/ WorkerFault(w)
  PROVE  KeyTypes'
<1>0. /\ heartbeat \in [Consumers -> BOOLEAN] /\ lock \in [Users -> Workers \cup {NoWorker}]
      /\ procKey \subseteq Msgs /\ doneKey \subseteq Msgs
      /\ wk[w].pc # "idle" => Msg(w) \in Msgs
  BY HeldType DEF TypeOK, KeyTypes
<1>1. CASE UNCHANGED keys
  BY <1>0, <1>1 DEF KeyTypes, keys
<1>2. CASE /\ UNCHANGED <<heartbeat, procKey, doneKey>>
           /\ \/ lock' = lock
              \/ \E x \in {w, NoWorker} : lock' = [lock EXCEPT ![User(w)] = x]
  BY <1>0, <1>2 DEF KeyTypes
<1>3. CASE UNCHANGED <<heartbeat, lock>> /\ procKey' \subseteq Msgs /\ doneKey' \subseteq Msgs
  BY <1>0, <1>3 DEF KeyTypes
<1>4. TryLock(w) \/ TryLockFails(w) \/ Unlock(w) \/ UnlockFails(w)
        => /\ UNCHANGED <<heartbeat, procKey, doneKey>>
           /\ \/ lock' = lock
              \/ \E x \in {w, NoWorker} : lock' = [lock EXCEPT ![User(w)] = x]
  BY DEF TryLock, TryLockFails, Unlock, UnlockFails
<1>5. Acquire(w) \/ AcquireFails(w) \/ MarkDone(w) \/ MarkDoneFails(w) \/ Release(w)
      \/ ReleaseFails(w)
        => UNCHANGED <<heartbeat, lock>> /\ procKey' \subseteq Msgs /\ doneKey' \subseteq Msgs
  BY <1>0 DEF Acquire, AcquireFails, MarkDone, MarkDoneFails, Release, ReleaseFails
<1>6. \/ Blmove(w) \/ MarkProcessingStarted(w) \/ HandleUnreadable(w) \/ Work(w) \/ Send(w)
      \/ Post(w) \/ Ack(w) \/ MoveTo(w) \/ LeaveInProc(w) \/ BlmoveReplyLost(w)
      \/ MarkProcessingStartedFails(w) \/ PostFails(w) \/ AckFails(w) \/ MoveToFails(w)
      => UNCHANGED keys
  BY DEF Blmove, MarkProcessingStarted, HandleUnreadable, Work, Send, Post, Ack, MoveTo,
         LeaveInProc, BlmoveReplyLost, MarkProcessingStartedFails, PostFails, AckFails,
         MoveToFails
<1> QED
  BY <1>1, <1>2, <1>3, <1>4, <1>5, <1>6 DEF WorkerStep, ProcessStep, WorkerFault

\* Worker steps keep the types of the histories and leave the consumers alone.
LEMMA HistoryTypesWorker ==
  ASSUME TypeOK, NEW w \in Workers, WorkerStep(w) \/ WorkerFault(w)
  PROVE  HistoryTypes' /\ UNCHANGED <<status, rec>>
<1>0. /\ HistoryTypes
      /\ wk[w].pc # "idle" => Msg(w) \in Msgs /\ User(w) \in Users
  BY HeldType DEF TypeOK
<1>1. CASE WorkerStep(w)
  <2>1. CASE Work(w) \/ Send(w)
    BY <1>0, <2>1 DEF Work, Send, HistoryTypes, budgets
  <2>2. CASE UNCHANGED <<history, budgets, status, rec>>
    BY <1>0, <2>2 DEF HistoryTypes, history, budgets
  <2>3. CASE Blmove(w) \/ MarkProcessingStarted(w) \/ HandleUnreadable(w) \/ TryLock(w)
             \/ Acquire(w) \/ MarkDone(w) \/ Post(w)
    BY <2>2, <2>3 DEF Blmove, MarkProcessingStarted, HandleUnreadable, TryLock, Acquire,
       MarkDone, Post
  <2>4. CASE Release(w) \/ Unlock(w) \/ Ack(w) \/ MoveTo(w) \/ LeaveInProc(w)
    BY <2>2, <2>4 DEF Release, Unlock, Ack, MoveTo, LeaveInProc
  <2> QED
    BY <1>1, <2>1, <2>3, <2>4 DEF WorkerStep, ProcessStep
<1>2. CASE WorkerFault(w)
  <2>1. CASE /\ UNCHANGED <<enq, settled, sends, lapses, status, rec>> /\ faults' = faults + 1
             /\ exposed' \subseteq Users /\ excused' \subseteq Msgs
    BY <1>0, <2>1 DEF HistoryTypes
  <2>2. CASE BlmoveReplyLost(w) \/ MarkProcessingStartedFails(w) \/ PostFails(w)
             \/ ReleaseFails(w) \/ UnlockFails(w) \/ AckFails(w) \/ MoveToFails(w)
    BY <1>0, <2>1, <2>2 DEF BlmoveReplyLost, MarkProcessingStartedFails, PostFails,
       ReleaseFails, UnlockFails, AckFails, MoveToFails, Fault, history, HistoryTypes
  <2>3. CASE TryLockFails(w) \/ AcquireFails(w) \/ MarkDoneFails(w)
    BY <1>0, <2>1, <2>3 DEF TryLockFails, AcquireFails, MarkDoneFails, Fault, HistoryTypes
  <2> QED
    BY <1>2, <2>2, <2>3 DEF WorkerFault
<1> QED
  BY <1>1, <1>2

\* What the sweep of one owner has read is a list of envelopes.
LEMMA RecTypes ==
  ASSUME TypeOK, NEW c \in Consumers
  PROVE  /\ rec \in [Consumers -> RecStates]
         /\ rec[c].owner \in Consumers
         /\ rec[c].items \in Seq(Raw)
         /\ rec[c].next \in Nat
         /\ rec[c].ready \in BOOLEAN
         /\ rec[c].todo \subseteq Consumers
         /\ proc[rec[c].owner] \in Seq(Raw)
BY DEF TypeOK, ConsumerTypes, ListTypes, RecStates

\* _REQUEUE_LUA moves envelopes.
LEMMA RequeueLuaType ==
  ASSUME TypeOK, NEW c \in Consumers, RequeueLua(c)
  PROVE  main' \in Seq(Raw) /\ proc' \in [Consumers -> Seq(Raw)]
<1> DEFINE o == rec[c].owner
<1>1. PICK back \in Filtered(rec[c].items, Elems(proc[o])),
           rest \in Filtered(proc[o], Elems(proc[o]) \ Elems(rec[c].items)) :
             main' = main \o back /\ proc' = [proc EXCEPT ![o] = rest]
  BY DEF RequeueLua
<1>2. back \in Seq(Raw) /\ rest \in Seq(Raw)
  BY RecTypes, FilteredType
<1>3. main \in Seq(Raw) /\ proc \in [Consumers -> Seq(Raw)]
  BY DEF TypeOK, ListTypes
<1>4. main' \in Seq(Raw)
  BY <1>1, <1>2, <1>3
<1>5. proc' \in [Consumers -> Seq(Raw)]
  BY <1>1, <1>2, <1>3, RecTypes
<1> QED
  BY <1>4, <1>5

\* The steps of start, maintenance and stop put envelopes into the lists.
LEMMA ListTypesConsumer ==
  ASSUME TypeOK, NEW c \in Consumers, ConsumerStep(c) \/ ConsumerFault(c) \/ Shutdown(c)
  PROVE  ListTypes'
<1>0. /\ main \in Seq(Raw) /\ proc \in [Consumers -> Seq(Raw)] /\ dead \subseteq Deliveries
      /\ pend \in [Consumers -> SUBSET Raw]
  BY DEF TypeOK, ListTypes
<1>1. CASE UNCHANGED lists
  BY <1>0, <1>1 DEF ListTypes, lists
<1>2. CASE RequeueOrphans(c) \/ RequeueOrphansFails(c)
  <2>1. (RequeueLua(c) \/ UNCHANGED <<main, proc>>) /\ UNCHANGED <<dead, pend>>
    BY <1>2 DEF RequeueOrphans, RequeueOrphansFails
  <2> QED
    BY <1>0, <2>1, RequeueLuaType DEF ListTypes
<1>3. CASE FlushPendingAcks(c) \/ FlushPendingAcksFails(c)
  <2>1. PICK failed \in SUBSET pend[c] : FlushLua(c, failed)
    BY <1>3 DEF FlushPendingAcks, FlushPendingAcksFails
  <2>2. PICK rest \in Filtered(proc[c], Elems(proc[c]) \ (pend[c] \ failed)) :
          proc' = [proc EXCEPT ![c] = rest]
    BY <2>1 DEF FlushLua
  <2>3. rest \in Seq(Raw)
    BY <1>0, FilteredType
  <2>4. pend' = [pend EXCEPT ![c] = failed] /\ UNCHANGED <<main, dead>>
    BY <2>1 DEF FlushLua
  <2> QED
    BY <1>0, <2>2, <2>3, <2>4 DEF ListTypes
<1>4. CASE StopEnd(c) \/ Crash(c)
  <2>1. pend' = [pend EXCEPT ![c] = {}] /\ UNCHANGED <<main, proc, dead>>
    BY <1>4 DEF StopEnd, Crash
  <2> QED
    BY <1>0, <2>1 DEF ListTypes
<1>5. \/ Start(c) \/ TouchHeartbeat(c) \/ ScanProcKeys(c) \/ (\E o \in Consumers : CheckOwner(c, o))
      \/ ReadOrphans(c) \/ ReleaseOrphan(c) \/ ScanEnd(c) \/ StopMaintenance(c)
      => UNCHANGED lists
  BY DEF Start, TouchHeartbeat, ScanProcKeys, CheckOwner, ReadOrphans, ReleaseOrphan, ScanEnd,
         StopMaintenance
<1>6. \/ (\E o \in Consumers : CheckOwnerFails(c, o)) \/ ReadOrphansFails(c)
      \/ ReleaseOrphanFails(c) \/ StopWorkers(c)
      => UNCHANGED lists
  BY DEF CheckOwnerFails, ReadOrphansFails, ReleaseOrphanFails, StopWorkers
<1> QED
  BY <1>1, <1>2, <1>3, <1>4, <1>5, <1>6 DEF ConsumerStep, ConsumerFault, Shutdown

\* They keep the types of the Redis keys.
LEMMA KeyTypesConsumer ==
  ASSUME TypeOK, NEW c \in Consumers, ConsumerStep(c) \/ ConsumerFault(c) \/ Shutdown(c)
  PROVE  KeyTypes'
<1>0. /\ heartbeat \in [Consumers -> BOOLEAN] /\ lock \in [Users -> Workers \cup {NoWorker}]
      /\ procKey \subseteq Msgs /\ doneKey \subseteq Msgs
  BY DEF TypeOK, KeyTypes
<1>1. CASE UNCHANGED keys
  BY <1>0, <1>1 DEF KeyTypes, keys
<1>2. CASE Start(c) \/ TouchHeartbeat(c) \/ StopEnd(c)
  <2>1. /\ \E x \in BOOLEAN : heartbeat' = [heartbeat EXCEPT ![c] = x]
        /\ UNCHANGED <<lock, procKey, doneKey>>
    BY <1>2 DEF Start, TouchHeartbeat, StopEnd
  <2> QED
    BY <1>0, <2>1 DEF KeyTypes
<1>3. CASE ReleaseOrphan(c) \/ ReleaseOrphanFails(c)
  <2>1. procKey' \subseteq procKey /\ UNCHANGED <<heartbeat, lock, doneKey>>
    BY <1>3 DEF ReleaseOrphan, ReleaseOrphanFails
  <2> QED
    BY <1>0, <2>1 DEF KeyTypes
<1>4. \/ ScanProcKeys(c) \/ (\E o \in Consumers : CheckOwner(c, o)) \/ ReadOrphans(c)
      \/ RequeueOrphans(c) \/ ScanEnd(c) \/ FlushPendingAcks(c) \/ StopMaintenance(c)
      => UNCHANGED keys
  BY DEF ScanProcKeys, CheckOwner, ReadOrphans, RequeueOrphans, ScanEnd, FlushPendingAcks,
         FlushLua, StopMaintenance
<1>5. \/ (\E o \in Consumers : CheckOwnerFails(c, o)) \/ ReadOrphansFails(c)
      \/ RequeueOrphansFails(c) \/ FlushPendingAcksFails(c) \/ StopWorkers(c) \/ Crash(c)
      => UNCHANGED keys
  BY DEF CheckOwnerFails, ReadOrphansFails, RequeueOrphansFails, FlushPendingAcksFails,
         FlushLua, StopWorkers, Crash
<1> QED
  BY <1>1, <1>2, <1>3, <1>4, <1>5 DEF ConsumerStep, ConsumerFault, Shutdown

\* Assigning to the fields of the recovery coroutine keeps its type.
LEMMA RecSetPc ==
  ASSUME NEW s \in RecStates, NEW p \in RecPcs
  PROVE  [s EXCEPT !.pc = p] \in RecStates
BY DEF RecStates

\* Well-typed updates of the record of a recovery: the rest of a round, ...
LEMMA RecSetTodo ==
  ASSUME NEW s \in RecStates, NEW t \in SUBSET Consumers
  PROVE  [s EXCEPT !.todo = t] \in RecStates
BY DEF RecStates

\* ... the list of SCAN, ...
LEMMA RecScanned ==
  ASSUME NEW s \in RecStates, NEW p \in RecPcs, NEW t \in SUBSET Consumers
  PROVE  [s EXCEPT !.pc = p, !.todo = t] \in RecStates
BY DEF RecStates

\* ... the choice of an owner, ...
LEMMA RecChosen ==
  ASSUME NEW s \in RecStates, NEW p \in RecPcs, NEW t \in SUBSET Consumers, NEW o \in Consumers
  PROVE  [s EXCEPT !.todo = t, !.pc = p, !.owner = o] \in RecStates
BY DEF RecStates

\* ... the items read, ...
LEMMA RecRead ==
  ASSUME NEW s \in RecStates, NEW p \in RecPcs, NEW i \in Seq(Raw), NEW n \in Nat
  PROVE  [s EXCEPT !.pc = p, !.items = i, !.next = n] \in RecStates
BY DEF RecStates

\* ... one item further, ...
LEMMA RecNextItem ==
  ASSUME NEW s \in RecStates, NEW n \in Nat, NEW r \in BOOLEAN
  PROVE  [s EXCEPT !.next = n, !.ready = r] \in RecStates
BY DEF RecStates

\* ... and back to the scan.
LEMMA RecBack ==
  ASSUME NEW s \in RecStates, NEW p \in RecPcs, NEW c \in Consumers, NEW i \in Seq(Raw),
         NEW n \in Nat, NEW r \in BOOLEAN
  PROVE  [s EXCEPT !.pc = p, !.owner = c, !.items = i, !.next = n, !.ready = r] \in RecStates
BY DEF RecStates

\* Where the coroutine stands after the sweep of one owner and between two items.
LEMMA RecoveredType ==
  ASSUME TypeOK, NEW c \in Consumers
  PROVE  /\ Recovered(c) \in [Consumers -> RecStates]
         /\ \A ok \in BOOLEAN : AfterRelease(c, ok) \in [Consumers -> RecStates]
         /\ IdleRec(c) \in RecStates
<1>0. rec \in [Consumers -> RecStates] /\ rec[c] \in RecStates /\ rec[c].next \in Nat
      /\ rec[c].ready \in BOOLEAN
  BY RecTypes
<1>a. "visit" \in RecPcs /\ "requeue" \in RecPcs /\ <<>> \in Seq(Raw) /\ 0 \in Nat
  BY DEF RecPcs
<1>1. Recovered(c) \in [Consumers -> RecStates]
  <2>1. [rec[c] EXCEPT !.pc = "visit", !.owner = c, !.items = <<>>, !.next = 0, !.ready = TRUE]
          \in RecStates
    BY <1>0, <1>a, RecBack
  <2> QED
    BY <1>0, <2>1 DEF Recovered
<1>2. ASSUME NEW ok \in BOOLEAN
      PROVE  AfterRelease(c, ok) \in [Consumers -> RecStates]
  <2>1. [rec[c] EXCEPT !.next = @ + 1, !.ready = @ /\ ok] \in RecStates
    <3>1. rec[c].next + 1 \in Nat /\ (rec[c].ready /\ ok) \in BOOLEAN
      BY <1>0
    <3> QED
      BY <1>0, <3>1, RecNextItem
  <2>2. [rec[c] EXCEPT !.pc = "requeue"] \in RecStates
    BY <1>0, <1>a, RecSetPc
  <2> QED
    BY <1>0, <1>1, <2>1, <2>2 DEF AfterRelease
<1>3. IdleRec(c) \in RecStates
  BY DEF IdleRec, RecStates, RecPcs
<1> QED
  BY <1>1, <1>2, <1>3

\* The steps of start, maintenance and stop keep the coroutine well-formed.
LEMMA ConsumerTypesStep ==
  ASSUME TypeOK, NEW c \in Consumers, ConsumerStep(c) \/ ConsumerFault(c) \/ Shutdown(c)
  PROVE  ConsumerTypes'
<1>0. /\ status \in [Consumers -> Running \cup {"new", "gone"}]
      /\ rec \in [Consumers -> RecStates] /\ rec[c] \in RecStates
      /\ rec[c].todo \subseteq Consumers
      /\ {"idle", "scan", "visit", "read", "release", "requeue", "flush"} \subseteq RecPcs
      /\ {"starting", "up", "stopping", "closing"} \subseteq Running
  BY RecTypes DEF TypeOK, ConsumerTypes, RecPcs, Running
<1>1. status' \in [Consumers -> Running \cup {"new", "gone"}]
  <2>1. \/ UNCHANGED status
        \/ \E x \in Running \cup {"gone"} : status' = [status EXCEPT ![c] = x]
    <3>1. CASE ConsumerStep(c)
      BY <1>0, <3>1 DEF ConsumerStep, Start, TouchHeartbeat, ScanProcKeys, CheckOwner, ReadOrphans,
         ReleaseOrphan, RequeueOrphans, ScanEnd, FlushPendingAcks, FlushLua, StopMaintenance,
         StopEnd
    <3>2. CASE ConsumerFault(c)
      BY <3>2 DEF ConsumerFault, CheckOwnerFails, ReadOrphansFails, ReleaseOrphanFails,
         RequeueOrphansFails, FlushPendingAcksFails, FlushLua
    <3>3. CASE Shutdown(c)
      BY <1>0, <3>3 DEF Shutdown, StopWorkers, Crash
    <3> QED
      BY <3>1, <3>2, <3>3
  <2> QED
    BY <1>0, <2>1
<1>2. rec' \in [Consumers -> RecStates]
  <2>0. ASSUME NEW s \in RecStates, rec' = [rec EXCEPT ![c] = s]
        PROVE  rec' \in [Consumers -> RecStates]
    BY <1>0, <2>0
  <2>1. CASE \E p \in RecPcs : rec' = [rec EXCEPT ![c].pc = p]
    <3>1. PICK p \in RecPcs : rec' = [rec EXCEPT ![c] = [rec[c] EXCEPT !.pc = p]]
      BY <2>1
    <3> QED
      BY <1>0, <2>0, <3>1, RecSetPc
  <2>2. CASE ScanProcKeys(c)
    <3> DEFINE t == {o \in Consumers \ {c} : proc[o] # <<>>}
    <3>1. rec' = [rec EXCEPT ![c] = [rec[c] EXCEPT !.pc = "visit", !.todo = t]]
      BY <2>2 DEF ScanProcKeys
    <3>2. [rec[c] EXCEPT !.pc = "visit", !.todo = t] \in RecStates
      BY <1>0, RecScanned
    <3> QED
      BY <2>0, <3>1, <3>2
  <2>3. CASE \E o \in Consumers : CheckOwner(c, o) \/ CheckOwnerFails(c, o)
    <3>1. PICK o \in Consumers : CheckOwner(c, o) \/ CheckOwnerFails(c, o)
      BY <2>3
    <3> DEFINE t == rec[c].todo \ {o}
    <3>2. \/ rec' = [rec EXCEPT ![c] = [rec[c] EXCEPT !.todo = t]]
          \/ rec' = [rec EXCEPT ![c] = [rec[c] EXCEPT !.todo = t, !.pc = "read", !.owner = o]]
      BY <3>1 DEF CheckOwner, CheckOwnerFails
    <3>3. /\ [rec[c] EXCEPT !.todo = t] \in RecStates
          /\ [rec[c] EXCEPT !.todo = t, !.pc = "read", !.owner = o] \in RecStates
      BY <1>0, RecSetTodo, RecChosen
    <3> QED
      BY <2>0, <3>2, <3>3
  <2>4. CASE ReadOrphans(c)
    <3> DEFINE s == LRange(proc[rec[c].owner])
    <3>1. \/ rec' = Recovered(c)
          \/ rec' = [rec EXCEPT ![c] = [rec[c] EXCEPT !.pc = "release", !.items = s, !.next = 1]]
      BY <2>4 DEF ReadOrphans
    <3>2. s \in Seq(Raw) /\ 1 \in Nat
      BY RecTypes, LRangeType
    <3>3. [rec[c] EXCEPT !.pc = "release", !.items = s, !.next = 1] \in RecStates
      BY <1>0, <3>2, RecRead
    <3> QED
      BY <2>0, <3>1, <3>3, RecoveredType
  <2>5. CASE ReleaseOrphan(c) \/ ReleaseOrphanFails(c)
    BY <2>5, RecoveredType DEF ReleaseOrphan, ReleaseOrphanFails
  <2>6. CASE rec' = Recovered(c)
    BY <2>6, RecoveredType
  <2>7. CASE StopMaintenance(c)
    <3>1. rec' = [rec EXCEPT ![c] = [IdleRec(c) EXCEPT !.pc = "read"]]
      BY <2>7 DEF StopMaintenance
    <3>2. [IdleRec(c) EXCEPT !.pc = "read"] \in RecStates
      BY <1>0, RecoveredType, RecSetPc
    <3> QED
      BY <2>0, <3>1, <3>2
  <2>8. CASE StopEnd(c) \/ Crash(c)
    BY <1>0, <2>0, <2>8, RecoveredType DEF StopEnd, Crash
  <2>9. CASE StopWorkers(c)
    BY <1>0, <2>9 DEF StopWorkers
  <2>10. Start(c) \/ TouchHeartbeat(c) \/ ScanEnd(c) \/ FlushPendingAcks(c)
         \/ FlushPendingAcksFails(c)
           => \E p \in RecPcs : rec' = [rec EXCEPT ![c].pc = p]
    BY <1>0 DEF Start, TouchHeartbeat, ScanEnd, FlushPendingAcks, FlushPendingAcksFails, FlushLua
  <2>11. RequeueOrphans(c) \/ RequeueOrphansFails(c) \/ ReadOrphansFails(c)
           => rec' = Recovered(c)
    BY DEF RequeueOrphans, RequeueOrphansFails, ReadOrphansFails
  <2> QED
    BY <2>1, <2>2, <2>3, <2>4, <2>5, <2>6, <2>7, <2>8, <2>9, <2>10, <2>11
    DEF ConsumerStep, ConsumerFault, Shutdown
<1> QED
  BY <1>1, <1>2 DEF ConsumerTypes

\* What a shutdown leaves of each worker.
LEMMA ShutdownWorkers ==
  ASSUME NEW c \in Consumers, Shutdown(c)
  PROVE  /\ wk' = [w \in Workers |-> wk'[w]]
         /\ \A w \in Workers : OwnerOf[w] # c => wk'[w] = wk[w]
         /\ \A w \in Workers :
              wk'[w] \in {wk[w], IdleWorker, Cancelled(wk[w], TRUE), Cancelled(wk[w], FALSE)}
<1>1. CASE Crash(c)
  BY <1>1 DEF Crash
<1>2. CASE StopWorkers(c)
  <2>1. PICK Early \in SUBSET WorkersOf(c) :
          wk' = [w \in Workers |-> IF OwnerOf[w] = c THEN Cancelled(wk[w], w \in Early)
                                                    ELSE wk[w]]
    BY <1>2 DEF StopWorkers
  <2>2. ASSUME NEW w \in Workers
        PROVE  Cancelled(wk[w], w \in Early) \in {Cancelled(wk[w], TRUE), Cancelled(wk[w], FALSE)}
    <3>1. CASE w \in Early
      BY <3>1 DEF Cancelled
    <3>2. CASE w \notin Early
      BY <3>2 DEF Cancelled
    <3> QED
      BY <3>1, <3>2
  <2> QED
    BY <2>1, <2>2
<1> QED
  BY <1>1, <1>2 DEF Shutdown

\* Stopping and crashing leave the workers in legal states; the other steps of a
\* consumer do not touch them.
LEMMA WorkerTypesConsumer ==
  ASSUME TypeOK, NEW c \in Consumers, ConsumerStep(c) \/ ConsumerFault(c) \/ Shutdown(c)
  PROVE  WorkerTypes' /\ HistoryTypes'
<1>0. /\ WorkerTypes /\ HistoryTypes /\ wk \in [Workers -> WorkerStates]
      /\ \A v \in Workers : wk[v].pc # "idle" => wk[v].raw \in Raw
  BY DEF TypeOK, WorkerTypes
<1>1. CASE Shutdown(c)
  <2>1. CutOff(c) \subseteq Msgs
    BY <1>0, HeldType DEF CutOff, WorkersOf
  <2>2. HistoryTypes'
    BY <1>0, <1>1, <2>1 DEF Shutdown, StopWorkers, Crash, HistoryTypes, budgets
  <2>3. ASSUME NEW w \in Workers, NEW e \in BOOLEAN
        PROVE  /\ Cancelled(wk[w], e) \in WorkerStates /\ IdleWorker \in WorkerStates
               /\ Cancelled(wk[w], e).pc # "idle" => Cancelled(wk[w], e).raw \in Raw
    BY <1>0 DEF Cancelled, IdleWorker, WorkerStates, Pcs, Outcomes
  <2>4. ASSUME NEW w \in Workers
        PROVE  wk'[w] \in WorkerStates /\ (wk'[w].pc # "idle" => wk'[w].raw \in Raw)
    <3>1. wk'[w] \in {wk[w], IdleWorker, Cancelled(wk[w], TRUE), Cancelled(wk[w], FALSE)}
      BY <1>1, ShutdownWorkers
    <3>2. IdleWorker.pc = "idle"
      BY DEF IdleWorker
    <3> QED
      BY <1>0, <2>3, <3>1, <3>2
  <2>5. wk' \in [Workers -> WorkerStates]
    BY <1>1, <2>4, ShutdownWorkers
  <2> QED
    BY <2>2, <2>4, <2>5 DEF WorkerTypes
<1>2. CASE UNCHANGED <<wk, history, lapses>> /\ faults' \in {faults, faults + 1}
  BY <1>0, <1>2 DEF WorkerTypes, HistoryTypes, history
<1>3. CASE ConsumerStep(c)
  BY <1>2, <1>3 DEF ConsumerStep, Start, TouchHeartbeat, ScanProcKeys, CheckOwner, ReadOrphans,
     ReleaseOrphan, RequeueOrphans, ScanEnd, FlushPendingAcks, FlushLua, StopMaintenance,
     StopEnd, budgets
<1>4. CASE ConsumerFault(c)
  BY <1>2, <1>4 DEF ConsumerFault, CheckOwnerFails, ReadOrphansFails, ReleaseOrphanFails,
     RequeueOrphansFails, FlushPendingAcksFails, FlushLua, Fault
<1> QED
  BY <1>1, <1>3, <1>4

\* Enqueueing and running TTLs.
LEMMA TypeEnvironment ==
  ASSUME TypeOK
  PROVE  /\ \A d \in Deliveries : Enqueue(d) => TypeOK'
         /\ \A c \in Consumers : HeartbeatExpire(c) \/ HeartbeatLapse(c) => TypeOK'
         /\ \A u \in Users : LockExpire(u) \/ LockLapse(u) => TypeOK'
         /\ \A m \in Msgs : ProcKeyExpire(m) \/ ProcKeyLapse(m) \/ DoneKeyLapse(m) => TypeOK'
<1> USE DEF lists, keys, history, budgets
<1>1. ASSUME NEW d \in Deliveries, Enqueue(d) PROVE TypeOK'
  <2>1. [id |-> d, attempts |-> 0, stamp |-> 0] \in Raw
    BY ConstantsAssumption DEF Raw, ConstantsAssumption
  <2>2. ListTypes'
    BY <1>1, <2>1 DEF Enqueue, TypeOK, ListTypes
  <2>3. HistoryTypes'
    BY <1>1 DEF Enqueue, TypeOK, HistoryTypes
  <2>4. KeyTypes' /\ WorkerTypes' /\ ConsumerTypes'
    BY <1>1 DEF Enqueue, TypeOK, KeyTypes, WorkerTypes, ConsumerTypes
  <2> QED
    BY <2>2, <2>3, <2>4 DEF TypeOK
<1>2. ASSUME NEW c \in Consumers, HeartbeatExpire(c) \/ HeartbeatLapse(c) PROVE TypeOK'
  <2>1. HistoryTypes'
    BY <1>2 DEF HeartbeatExpire, HeartbeatLapse, Lapse, TypeOK, HistoryTypes
  <2>2. heartbeat' = [heartbeat EXCEPT ![c] = FALSE] /\ UNCHANGED <<lock, procKey, doneKey>>
    BY <1>2 DEF HeartbeatExpire, HeartbeatLapse
  <2>3. KeyTypes'
    BY <2>2 DEF TypeOK, KeyTypes
  <2>4. ListTypes' /\ WorkerTypes' /\ ConsumerTypes'
    BY <1>2 DEF HeartbeatExpire, HeartbeatLapse, TypeOK, ListTypes, WorkerTypes, ConsumerTypes
  <2> QED
    BY <2>1, <2>3, <2>4 DEF TypeOK
<1>3. ASSUME NEW u \in Users, LockExpire(u) \/ LockLapse(u) PROVE TypeOK'
  <2>1. KeyTypes' /\ HistoryTypes'
    BY <1>3 DEF LockExpire, LockLapse, Lapse, TypeOK, KeyTypes, HistoryTypes
  <2>2. ListTypes' /\ WorkerTypes' /\ ConsumerTypes'
    BY <1>3 DEF LockExpire, LockLapse, TypeOK, ListTypes, WorkerTypes, ConsumerTypes
  <2> QED
    BY <2>1, <2>2 DEF TypeOK
<1>4. ASSUME NEW m \in Msgs, ProcKeyExpire(m) \/ ProcKeyLapse(m) \/ DoneKeyLapse(m) PROVE TypeOK'
  <2>1. KeyTypes' /\ HistoryTypes'
    BY <1>4 DEF ProcKeyExpire, ProcKeyLapse, DoneKeyLapse, Lapse, TypeOK, KeyTypes, HistoryTypes
  <2>2. ListTypes' /\ WorkerTypes' /\ ConsumerTypes'
    BY <1>4 DEF ProcKeyExpire, ProcKeyLapse, DoneKeyLapse, TypeOK, ListTypes, WorkerTypes,
       ConsumerTypes
  <2> QED
    BY <2>1, <2>2 DEF TypeOK
<1> QED
  BY <1>1, <1>2, <1>3, <1>4

\* Every step of the queue preserves the type invariant.
LEMMA TypeStep == TypeOK /\ [Next]_vars => TypeOK'
<1> SUFFICES ASSUME TypeOK, [Next]_vars PROVE TypeOK'
  OBVIOUS
<1>1. ASSUME NEW w \in Workers, WorkerStep(w) \/ WorkerFault(w) PROVE TypeOK'
  <2>1. ConsumerTypes'
    BY <1>1, HistoryTypesWorker DEF TypeOK, ConsumerTypes
  <2> QED
    BY <1>1, <2>1, WorkerTypesStep, ListTypesWorker, KeyTypesWorker, HistoryTypesWorker DEF TypeOK
<1>2. ASSUME NEW c \in Consumers, ConsumerStep(c) \/ ConsumerFault(c) \/ Shutdown(c) PROVE TypeOK'
  BY <1>2, ListTypesConsumer, KeyTypesConsumer, ConsumerTypesStep, WorkerTypesConsumer DEF TypeOK
<1>3. CASE UNCHANGED vars
  BY <1>3 DEF vars, TypeOK, ListTypes, KeyTypes, WorkerTypes, ConsumerTypes, HistoryTypes
<1>4. CASE Next
  BY <1>1, <1>2, <1>4, TypeEnvironment DEF Next
<1> QED
  BY <1>3, <1>4

\* The Redis lists hold envelopes only, no envelope shows more failed attempts
\* than _handle lets pass, and every coroutine that is not idle has its envelope
\* in hand: the type invariant, in every reachable state.
THEOREM TypeCorrectness == Spec => []TypeOK
<1>1. Init => TypeOK
  BY TypeInit
<1>2. TypeOK /\ [Next]_vars => TypeOK'
  BY TypeStep
<1> QED
  BY <1>1, <1>2, PTL DEF Spec

-------------------------------------------------------------------------------
(***************************************************************************)
(* The per-user lock.                                                      *)
(***************************************************************************)

\* The inductive strengthening of MutualExclusion: whoever runs process() for a
\* user whose lock never failed holds the key of that user.
LockHeld ==
  \A u \in Users \ exposed : \A w \in Workers : InSection(w, u) => lock[u] = w

\* The steps that touch a lock key.
LockStep ==
  \/ \E w \in Workers : TryLock(w) \/ TryLockFails(w) \/ Unlock(w) \/ UnlockFails(w)
  \/ \E u \in Users : LockExpire(u) \/ LockLapse(u)

\* No worker enters the section: it is there already, with the same envelope.
NoEntry ==
  \A v \in Workers : wk'[v].pc \in Section => wk[v].pc \in Section /\ wk'[v].raw = wk[v].raw

\* Outside those steps no lock key changes, and nobody gets inside.
LEMMA LockFrame ==
  ASSUME TypeOK, [Next]_vars, ~LockStep
  PROVE  lock' = lock /\ exposed' = exposed /\ NoEntry
<1>0. wk \in [Workers -> WorkerStates]
  BY DEF TypeOK, WorkerTypes
<1> USE DEF lists, keys, history, budgets
<1>1. ASSUME NEW w \in Workers, ProcessStep(w)
      PROVE  lock' = lock /\ exposed' = exposed /\ NoEntry
  BY <1>0, <1>1 DEF ProcessStep, Acquire, Work, Send, MarkDone, Post, Release, NoEntry, Section,
     WorkerStates
<1>2. ASSUME NEW w \in Workers, Blmove(w) \/ MarkProcessingStarted(w) \/ HandleUnreadable(w)
      PROVE  lock' = lock /\ exposed' = exposed /\ NoEntry
  BY <1>0, <1>2 DEF Blmove, MarkProcessingStarted, HandleUnreadable, NoEntry, Section,
     WorkerStates
<1>3. ASSUME NEW w \in Workers, Ack(w) \/ MoveTo(w) \/ LeaveInProc(w) \/ AckFails(w) \/ MoveToFails(w)
      PROVE  lock' = lock /\ exposed' = exposed /\ NoEntry
  BY <1>0, <1>3 DEF Ack, MoveTo, LeaveInProc, AckFails, MoveToFails, NoEntry, Section,
     WorkerStates, IdleWorker
<1>4. ASSUME NEW w \in Workers, WorkerFault(w)
      PROVE  lock' = lock /\ exposed' = exposed /\ NoEntry
  BY <1>0, <1>3, <1>4 DEF WorkerFault, BlmoveReplyLost, MarkProcessingStartedFails, AcquireFails,
     MarkDoneFails, PostFails, ReleaseFails, NoEntry, Section, WorkerStates, LockStep
<1>5. ASSUME NEW c \in Consumers, Shutdown(c)
      PROVE  lock' = lock /\ exposed' = exposed /\ NoEntry
  <2>1. ASSUME NEW w \in Workers, NEW e \in BOOLEAN, Cancelled(wk[w], e).pc \in Section
        PROVE  wk[w].pc \in Section /\ Cancelled(wk[w], e).raw = wk[w].raw
    BY <1>0, <2>1 DEF Cancelled, Section, WorkerStates, IdleWorker
  <2>2. IdleWorker.pc \notin Section
    BY DEF IdleWorker, Section
  <2>3. ASSUME NEW w \in Workers, wk'[w].pc \in Section
        PROVE  wk[w].pc \in Section /\ wk'[w].raw = wk[w].raw
    BY <1>5, <2>1, <2>2, <2>3, ShutdownWorkers
  <2>4. NoEntry
    BY <2>3 DEF NoEntry
  <2> QED
    BY <1>5, <2>4 DEF Shutdown, StopWorkers, Crash
<1>6. CASE UNCHANGED <<lock, exposed, wk>>
  BY <1>6 DEF NoEntry
<1>7. ASSUME NEW c \in Consumers, ConsumerStep(c)
      PROVE  UNCHANGED <<lock, exposed, wk>>
  BY <1>7 DEF ConsumerStep, Start, TouchHeartbeat, ScanProcKeys, CheckOwner, ReadOrphans,
     ReleaseOrphan, RequeueOrphans, ScanEnd, FlushPendingAcks, FlushLua, StopMaintenance,
     StopEnd
<1>8. ASSUME NEW c \in Consumers, ConsumerFault(c)
      PROVE  UNCHANGED <<lock, exposed, wk>>
  BY <1>8 DEF ConsumerFault, CheckOwnerFails, ReadOrphansFails, ReleaseOrphanFails,
     RequeueOrphansFails, FlushPendingAcksFails, FlushLua
<1>9. \/ UNCHANGED vars \/ \E d \in Deliveries : Enqueue(d)
      \/ \E c \in Consumers : HeartbeatExpire(c) \/ HeartbeatLapse(c)
      \/ \E m \in Msgs : ProcKeyExpire(m) \/ ProcKeyLapse(m) \/ DoneKeyLapse(m)
      => UNCHANGED <<lock, exposed, wk>>
  BY DEF vars, Enqueue, HeartbeatExpire, HeartbeatLapse, ProcKeyExpire, ProcKeyLapse,
     DoneKeyLapse
<1> QED
  BY <1>1, <1>2, <1>3, <1>4, <1>5, <1>6, <1>7, <1>8, <1>9 DEF Next, WorkerStep, LockStep

\* Every step keeps the lock with the worker that is inside.
LEMMA LockHeldStep ==
  ASSUME TypeOK, LockHeld, [Next]_vars
  PROVE  LockHeld'
<1>0. /\ wk \in [Workers -> WorkerStates] /\ lock \in [Users -> Workers \cup {NoWorker}]
      /\ NoWorker \notin Workers
  BY ConstantsAssumption DEF TypeOK, WorkerTypes, KeyTypes, ConstantsAssumption
<1> SUFFICES ASSUME NEW u \in Users, u \notin exposed', NEW v \in Workers, InSection(v, u)'
             PROVE  lock'[u] = v
  BY DEF LockHeld
<1>a. ASSUME u \notin exposed, wk[v].pc \in Section, wk'[v].raw = wk[v].raw
      PROVE  InSection(v, u) /\ lock[u] = v
  <2>1. InSection(v, u)
    BY <1>a DEF InSection, User, Msg
  <2> QED
    BY <1>a, <2>1 DEF LockHeld
<1>1. CASE ~LockStep
  BY <1>1, <1>a, LockFrame DEF NoEntry, InSection
<1>2. ASSUME NEW w \in Workers, TryLock(w) PROVE lock'[u] = v
  <2>1. u \notin exposed /\ User(w) \in Users /\ (wk'[v].raw = wk[v].raw)
    BY <1>0, <1>2, HeldType DEF TryLock, history, TypeOK, WorkerStates
  <2>2. CASE lock[User(w)] # NoWorker
    BY <1>0, <1>2, <1>a, <2>1, <2>2 DEF TryLock, InSection, Section, WorkerStates
  <2>3. CASE lock[User(w)] = NoWorker /\ v = w
    <3>1. User(w) = u
      BY <1>2, <2>1, <2>3 DEF InSection, User, Msg
    <3> QED
      BY <1>0, <1>2, <2>3, <3>1 DEF TryLock
  <2>4. CASE lock[User(w)] = NoWorker /\ v # w
    <3>1. wk'[v] = wk[v]
      BY <1>0, <1>2, <2>4 DEF TryLock
    <3>2. lock[u] = v
      BY <1>a, <2>1, <3>1 DEF InSection
    <3> QED
      BY <1>0, <1>2, <2>1, <2>4, <3>2 DEF TryLock
  <2> QED
    BY <2>2, <2>3, <2>4
<1>3. ASSUME NEW w \in Workers, TryLockFails(w) PROVE lock'[u] = v
  <2>1. exposed' = exposed \cup {User(w)} /\ wk'[v].raw = wk[v].raw
        /\ (v # w => wk'[v] = wk[v])
    BY <1>0, <1>3 DEF TryLockFails, WorkerStates
  <2>2. User(w) # u
    BY <2>1
  <2>3. v # w
    BY <2>1, <2>2 DEF InSection, User, Msg
  <2>4. lock[u] = v
    BY <1>a, <2>1, <2>3 DEF InSection
  <2> QED
    BY <1>0, <1>3, <2>2, <2>4 DEF TryLockFails
<1>4. ASSUME NEW w \in Workers, Unlock(w) \/ UnlockFails(w) PROVE lock'[u] = v
  <2>1. exposed' = exposed /\ wk' = [wk EXCEPT ![w].pc = "book", ![w].tok = FALSE]
    BY <1>4 DEF Unlock, UnlockFails, history
  <2>2. v # w
    BY <1>0, <2>1 DEF InSection, Section, WorkerStates
  <2>3. lock[u] = v
    BY <1>0, <1>a, <2>1, <2>2 DEF InSection
  <2>4. lock' = lock \/ (lock[User(w)] = w /\ lock' = [lock EXCEPT ![User(w)] = NoWorker])
    BY <1>4 DEF Unlock, UnlockFails
  <2> QED
    BY <1>0, <2>2, <2>3, <2>4
<1>5. ASSUME NEW x \in Users, LockExpire(x) PROVE lock'[u] = v
  <2>1. u \notin exposed /\ wk' = wk
    BY <1>5 DEF LockExpire, history
  <2>2. lock[u] = v /\ InSection(v, u)
    BY <1>a, <2>1 DEF InSection
  <2> QED
    BY <1>0, <1>5, <2>2 DEF LockExpire
<1>6. ASSUME NEW x \in Users, LockLapse(x) PROVE lock'[u] = v
  <2>1. u \notin exposed /\ u # x /\ wk' = wk
    BY <1>6 DEF LockLapse
  <2>2. lock[u] = v
    BY <1>a, <2>1 DEF InSection
  <2> QED
    BY <1>0, <1>6, <2>1, <2>2 DEF LockLapse
<1> QED
  BY <1>1, <1>2, <1>3, <1>4, <1>5, <1>6 DEF LockStep

\* No worker is in its section at the start.
LEMMA LockHeldInit == Init => LockHeld
BY DEF Init, LockHeld, InSection, Section, IdleWorker

\* LockHeld is an invariant of the specification.
LEMMA LockHeldInvariant == Spec => [](TypeOK /\ LockHeld)
<1>1. Init => TypeOK /\ LockHeld
  BY TypeInit, LockHeldInit
<1>2. TypeOK /\ LockHeld /\ [Next]_vars => TypeOK' /\ LockHeld'
  BY TypeStep, LockHeldStep
<1> QED
  BY <1>1, <1>2, PTL DEF Spec

\* _run_with_lock serialises process() per (user, scope), across all processes
\* and for any number of workers: as long as the lock of a user was never
\* bypassed and never expired under a live holder, at most one worker is inside.
THEOREM MutualExclusionHolds == Spec => []MutualExclusion
<1>1. LockHeld => MutualExclusion
  BY DEF LockHeld, MutualExclusion
<1> QED
  BY <1>1, LockHeldInvariant, PTL

\* Only the holder, or the TTL, takes a lock away from a worker that is inside:
\* the token of _RELEASE_LUA, also after lapses and fail-open turns.
THEOREM OnlyHolderUnlocksHolds == Spec => OnlyHolderUnlocks
<1> DEFINE A == \A u \in Users :
                  lock[u] # NoWorker /\ InSection(lock[u], u) /\ lock'[u] # lock[u]
                    => wk'[lock[u]] # wk[lock[u]] \/ lapses' # lapses
<1>1. TypeOK /\ [Next]_vars => [A]_vars
  <2> SUFFICES ASSUME TypeOK, [Next]_vars,
                      NEW u \in Users, lock[u] # NoWorker, InSection(lock[u], u),
                      lock'[u] # lock[u]
               PROVE  wk'[lock[u]] # wk[lock[u]] \/ lapses' # lapses
    OBVIOUS
  <2>0. /\ wk \in [Workers -> WorkerStates] /\ lock \in [Users -> Workers \cup {NoWorker}]
        /\ lapses \in Nat
    BY DEF TypeOK, WorkerTypes, KeyTypes, HistoryTypes
  <2>1. CASE ~LockStep
    BY <2>1, LockFrame
  <2>2. ASSUME NEW w \in Workers, TryLock(w) \/ TryLockFails(w) PROVE FALSE
    BY <2>0, <2>2 DEF TryLock, TryLockFails
  <2>3. ASSUME NEW w \in Workers, Unlock(w) \/ UnlockFails(w)
        PROVE  wk'[lock[u]] # wk[lock[u]]
    <3>1. lock[u] = w
      BY <2>0, <2>3 DEF Unlock, UnlockFails
    <3>2. wk[w].pc = "unlock" /\ wk'[w].pc = "book"
      BY <2>0, <2>3 DEF Unlock, UnlockFails, WorkerStates
    <3> QED
      BY <3>1, <3>2
  <2>4. ASSUME NEW x \in Users, LockExpire(x) PROVE FALSE
    BY <2>0, <2>4 DEF LockExpire
  <2>5. ASSUME NEW x \in Users, LockLapse(x) PROVE lapses' # lapses
    BY <2>0, <2>5 DEF LockLapse, Lapse
  <2> QED
    BY <2>1, <2>2, <2>3, <2>4, <2>5 DEF LockStep
<1> QED
  BY <1>1, TypeCorrectness, PTL DEF Spec, OnlyHolderUnlocks

-------------------------------------------------------------------------------
(***************************************************************************)
(* At most one confirmed reply.                                            *)
(***************************************************************************)

Marking(m) == \E w \in Workers : wk[w].pc = "mark" /\ Msg(w) = m

\* The inductive strengthening of AtMostOnceReply: a confirmed reply has its done
\* key, or the worker that sent it is about to write it; and nobody is on the way
\* to a reply for a message that has one.
RepliedOnce(m) ==
  /\ sends[m] \in {0, 1}
  /\ sends[m] = 1 => m \in doneKey \/ Marking(m)
  /\ \A w \in Workers : wk[w].pc \in {"work", "send"} /\ Msg(w) = m => sends[m] = 0

Trusted(m) == m \notin excused /\ UserOf[m] \notin exposed

ReplyInv == \A m \in Msgs : Trusted(m) => RepliedOnce(m)

\* The steps that touch a done key, a reply count or enter the work phase.
ReplyStep ==
  \/ \E w \in Workers : Acquire(w) \/ AcquireFails(w) \/ Work(w) \/ Send(w) \/ MarkDone(w)
                        \/ MarkDoneFails(w)
  \/ \E c \in Consumers : Shutdown(c)
  \/ \E m \in Msgs : DoneKeyLapse(m)

\* A step that leaves every worker in the work phase where it is.
SamePhase ==
  \A v \in Workers :
    /\ wk'[v].pc \in {"work", "send", "mark"} => wk'[v].pc = wk[v].pc /\ wk'[v].raw = wk[v].raw
    /\ wk[v].pc = "mark" => wk'[v].pc = "mark" /\ wk'[v].raw = wk[v].raw

\* A step other than ReplyStep sends nothing, changes no done mark and no excuse,
\* and lets no worker enter or leave the phases around the reply.
LEMMA ReplyFrame ==
  ASSUME TypeOK, [Next]_vars, ~ReplyStep
  PROVE  /\ sends' = sends /\ doneKey' = doneKey /\ excused' = excused
         /\ exposed \subseteq exposed' /\ SamePhase
<1>0. wk \in [Workers -> WorkerStates]
  BY DEF TypeOK, WorkerTypes
<1> DEFINE Goal == /\ sends' = sends /\ doneKey' = doneKey /\ excused' = excused
                   /\ exposed \subseteq exposed' /\ SamePhase
<1> USE DEF lists, keys, history, budgets
<1>1. ASSUME NEW w \in Workers, Blmove(w) \/ MarkProcessingStarted(w) \/ HandleUnreadable(w)
             \/ TryLock(w) \/ Post(w) \/ Release(w) \/ Unlock(w)
      PROVE  Goal
  BY <1>0, <1>1 DEF Blmove, MarkProcessingStarted, HandleUnreadable, TryLock, Post, Release,
     Unlock, SamePhase, WorkerStates
<1>2. ASSUME NEW w \in Workers, Ack(w) \/ MoveTo(w) \/ LeaveInProc(w) \/ AckFails(w) \/ MoveToFails(w)
      PROVE  Goal
  BY <1>0, <1>2 DEF Ack, MoveTo, LeaveInProc, AckFails, MoveToFails, SamePhase, WorkerStates,
     IdleWorker
<1>3. ASSUME NEW w \in Workers, MarkProcessingStartedFails(w) \/ TryLockFails(w) \/ PostFails(w)
             \/ ReleaseFails(w) \/ UnlockFails(w) \/ BlmoveReplyLost(w)
      PROVE  Goal
  BY <1>0, <1>3 DEF MarkProcessingStartedFails, TryLockFails, PostFails, ReleaseFails,
     UnlockFails, BlmoveReplyLost, SamePhase, WorkerStates
<1>4. CASE UNCHANGED <<sends, doneKey, excused, wk>> /\ exposed \subseteq exposed'
  BY <1>4 DEF SamePhase
<1>5. ASSUME NEW c \in Consumers, ConsumerStep(c)
      PROVE  UNCHANGED <<sends, doneKey, excused, exposed, wk>>
  BY <1>5 DEF ConsumerStep, Start, TouchHeartbeat, ScanProcKeys, CheckOwner, ReadOrphans,
     ReleaseOrphan, RequeueOrphans, ScanEnd, FlushPendingAcks, FlushLua, StopMaintenance,
     StopEnd
<1>6. ASSUME NEW c \in Consumers, ConsumerFault(c)
      PROVE  UNCHANGED <<sends, doneKey, excused, exposed, wk>>
  BY <1>6 DEF ConsumerFault, CheckOwnerFails, ReadOrphansFails, ReleaseOrphanFails,
     RequeueOrphansFails, FlushPendingAcksFails, FlushLua
<1>7. \/ UNCHANGED vars \/ \E d \in Deliveries : Enqueue(d)
      \/ \E c \in Consumers : HeartbeatExpire(c) \/ HeartbeatLapse(c)
      \/ \E u \in Users : LockExpire(u) \/ LockLapse(u)
      \/ \E m \in Msgs : ProcKeyExpire(m) \/ ProcKeyLapse(m)
      => UNCHANGED <<sends, doneKey, excused, wk>> /\ exposed \subseteq exposed'
  BY DEF vars, Enqueue, HeartbeatExpire, HeartbeatLapse, LockExpire, LockLapse, ProcKeyExpire,
     ProcKeyLapse
<1> QED
  BY <1>1, <1>2, <1>3, <1>4, <1>5, <1>6, <1>7
  DEF Next, WorkerStep, ProcessStep, WorkerFault, ReplyStep

\* In the section of a trusted user a worker is alone.
LEMMA Alone ==
  ASSUME LockHeld, TypeOK, NEW v \in Workers, NEW w \in Workers, wk[v].pc \in Section,
         wk[w].pc \in Section, Msg(v) = Msg(w), UserOf[Msg(w)] \notin exposed
  PROVE  v = w
<1>1. User(w) \in Users /\ InSection(v, User(w)) /\ InSection(w, User(w))
  BY HeldType DEF TypeOK, InSection, User, Section
<1> QED
  BY <1>1 DEF LockHeld, User

\* ReplyInv is preserved by every step.
LEMMA ReplyInvStep ==
  ASSUME TypeOK, LockHeld, ReplyInv, [Next]_vars
  PROVE  ReplyInv'
<1>0. wk \in [Workers -> WorkerStates] /\ sends \in [Msgs -> Nat]
  BY DEF TypeOK, WorkerTypes, HistoryTypes
<1> SUFFICES ASSUME NEW m \in Msgs, Trusted(m)' PROVE RepliedOnce(m)'
  BY DEF ReplyInv
<1>1. CASE ~ReplyStep
  <2>1. /\ sends' = sends /\ doneKey' = doneKey /\ excused' = excused
        /\ exposed \subseteq exposed' /\ SamePhase
    BY <1>1, ReplyFrame
  <2>2. RepliedOnce(m)
    BY <2>1 DEF ReplyInv, Trusted
  <2>3. Marking(m) => Marking(m)'
    BY <2>1 DEF Marking, Msg, SamePhase
  <2>4. \A w \in Workers : wk'[w].pc \in {"work", "send"} /\ Msg(w)' = m
           => wk[w].pc \in {"work", "send"} /\ Msg(w) = m
    BY <2>1 DEF Msg, SamePhase
  <2> QED
    BY <2>1, <2>2, <2>3, <2>4 DEF RepliedOnce
<1>2. ASSUME NEW w \in Workers, Acquire(w) \/ AcquireFails(w) PROVE RepliedOnce(m)'
  <2>1. /\ sends' = sends /\ doneKey' = doneKey /\ exposed' = exposed /\ excused \subseteq excused'
        /\ \A v \in Workers \ {w} : wk'[v] = wk[v]
        /\ wk[w].pc = "dedup" /\ wk'[w].pc \in {"work", "unlock"} /\ wk'[w].raw = wk[w].raw
    BY <1>0, <1>2 DEF Acquire, AcquireFails, history, WorkerStates
  <2>2. RepliedOnce(m) /\ UserOf[m] \notin exposed
    BY <2>1 DEF ReplyInv, Trusted
  <2>3. Marking(m) => Marking(m)'
    BY <2>1 DEF Marking, Msg
  <2>4. ASSUME wk'[w].pc = "work", Msg(w) = m PROVE sends[m] = 0
    <3>1. m \notin doneKey
      BY <1>0, <1>2, <2>4 DEF Acquire, AcquireFails, Trusted, WorkerStates
    <3>2. ~Marking(m)
      <4>1. ASSUME NEW v \in Workers, wk[v].pc = "mark", Msg(v) = m PROVE FALSE
        BY <2>1, <2>2, <2>4, <4>1, Alone DEF Section
      <4> QED
        BY <4>1 DEF Marking
    <3> QED
      BY <2>2, <3>1, <3>2 DEF RepliedOnce
  <2>5. \A v \in Workers : wk'[v].pc \in {"work", "send"} /\ Msg(v)' = m => sends[m] = 0
    BY <2>1, <2>2, <2>4 DEF Msg, RepliedOnce
  <2> QED
    BY <2>1, <2>2, <2>3, <2>5 DEF RepliedOnce
<1>3. ASSUME NEW w \in Workers, Work(w) PROVE RepliedOnce(m)'
  <2>1. /\ sends' = sends /\ doneKey' = doneKey /\ exposed' = exposed /\ excused' = excused
        /\ \A v \in Workers \ {w} : wk'[v] = wk[v]
        /\ wk[w].pc = "work" /\ wk'[w].raw = wk[w].raw
    BY <1>0, <1>3 DEF Work, keys, WorkerStates
  <2>2. RepliedOnce(m)
    BY <2>1 DEF ReplyInv, Trusted
  <2>3. Marking(m) => Marking(m)'
    BY <2>1 DEF Marking, Msg
  <2>4. \A v \in Workers : wk'[v].pc \in {"work", "send"} /\ Msg(v)' = m => sends[m] = 0
    BY <2>1, <2>2 DEF Msg, RepliedOnce
  <2> QED
    BY <2>1, <2>2, <2>3, <2>4 DEF RepliedOnce
<1>4. ASSUME NEW w \in Workers, Send(w) PROVE RepliedOnce(m)'
  <2>1. /\ doneKey' = doneKey /\ exposed' = exposed /\ excused' = excused
        /\ \A v \in Workers \ {w} : wk'[v] = wk[v]
        /\ wk[w].pc = "send" /\ wk'[w].pc \in {"mark", "release"} /\ wk'[w].raw = wk[w].raw
        /\ \/ sends' = sends
           \/ sends' = [sends EXCEPT ![Msg(w)] = @ + 1] /\ wk'[w].pc = "mark"
    BY <1>0, <1>4 DEF Send, keys, WorkerStates
  <2>2. RepliedOnce(m) /\ UserOf[m] \notin exposed
    BY <2>1 DEF ReplyInv, Trusted
  <2>3. Marking(m) => Marking(m)'
    BY <2>1 DEF Marking, Msg
  <2>4. \A v \in Workers : wk'[v].pc \in {"work", "send"} /\ Msg(v)' = m
           => v # w /\ wk[v].pc \in {"work", "send"} /\ Msg(v) = m
    BY <2>1 DEF Msg
  <2>5. CASE sends'[m] = sends[m]
    BY <2>1, <2>2, <2>3, <2>4, <2>5 DEF RepliedOnce
  <2>6. CASE sends'[m] # sends[m]
    <3>1. Msg(w) = m /\ sends'[m] = sends[m] + 1 /\ wk'[w].pc = "mark"
      BY <1>0, <2>1, <2>6
    <3>2. sends[m] = 0
      BY <2>1, <2>2, <3>1 DEF RepliedOnce
    <3>3. Marking(m)'
      BY <2>1, <3>1 DEF Marking, Msg
    <3>4. ASSUME NEW v \in Workers, wk'[v].pc \in {"work", "send"}, Msg(v)' = m PROVE FALSE
      <4>1. v # w /\ wk[v].pc \in Section /\ wk[w].pc \in Section /\ Msg(v) = m
        BY <2>1, <2>4, <3>4 DEF Section
      <4> QED
        BY <2>2, <3>1, <4>1, Alone
    <3> QED
      BY <3>1, <3>2, <3>3, <3>4 DEF RepliedOnce
  <2> QED
    BY <2>5, <2>6
<1>5. ASSUME NEW w \in Workers, MarkDone(w) \/ MarkDoneFails(w) PROVE RepliedOnce(m)'
  <2>1. /\ sends' = sends /\ doneKey \subseteq doneKey' /\ exposed' = exposed
        /\ excused \subseteq excused'
        /\ \A v \in Workers \ {w} : wk'[v] = wk[v]
        /\ wk'[w].pc \in {"unlock", "post"}
        /\ Msg(w) \in doneKey' \cup excused'
    BY <1>0, <1>5 DEF MarkDone, MarkDoneFails, history, WorkerStates
  <2>2. RepliedOnce(m)
    BY <2>1 DEF ReplyInv, Trusted
  <2>3. Marking(m) => Marking(m)' \/ m \in doneKey'
    BY <2>1 DEF Marking, Msg, Trusted
  <2>4. \A v \in Workers : wk'[v].pc \in {"work", "send"} /\ Msg(v)' = m => sends[m] = 0
    BY <2>1, <2>2 DEF Msg, RepliedOnce
  <2> QED
    BY <2>1, <2>2, <2>3, <2>4 DEF RepliedOnce
<1>6. ASSUME NEW c \in Consumers, Shutdown(c) PROVE RepliedOnce(m)'
  <2>1. /\ sends' = sends /\ doneKey' = doneKey /\ exposed' = exposed
        /\ excused' = excused \cup CutOff(c)
    BY <1>6 DEF Shutdown, StopWorkers, Crash, keys
  <2>2. RepliedOnce(m) /\ m \notin CutOff(c)
    BY <2>1 DEF ReplyInv, Trusted
  <2>3. \A w \in Workers, e \in BOOLEAN :
          Cancelled(wk[w], e).pc \notin {"work", "send"} /\ IdleWorker.pc = "idle"
    BY <1>0 DEF Cancelled, IdleWorker, WorkerStates
  <2>4. Marking(m) => Marking(m)'
    BY <1>6, <2>1, <2>2, ShutdownWorkers DEF Marking, CutOff, WorkersOf, Msg
  <2>5. \A v \in Workers : wk'[v].pc \in {"work", "send"} => wk'[v] = wk[v]
    BY <1>6, <2>3, ShutdownWorkers
  <2>6. \A v \in Workers : wk'[v].pc \in {"work", "send"} /\ Msg(v)' = m => sends[m] = 0
    BY <2>2, <2>5 DEF Msg, RepliedOnce
  <2> QED
    BY <2>1, <2>2, <2>4, <2>6 DEF RepliedOnce
<1>7. ASSUME NEW x \in Msgs, DoneKeyLapse(x) PROVE RepliedOnce(m)'
  <2>1. /\ sends' = sends /\ wk' = wk /\ exposed' = exposed /\ excused' = excused \cup {x}
        /\ doneKey' = doneKey \ {x}
    BY <1>7 DEF DoneKeyLapse
  <2>2. RepliedOnce(m) /\ m # x
    BY <2>1 DEF ReplyInv, Trusted
  <2> QED
    BY <2>1, <2>2 DEF RepliedOnce, Marking, Msg
<1> QED
  BY <1>1, <1>2, <1>3, <1>4, <1>5, <1>6, <1>7 DEF ReplyStep

\* The done key and the per-user lock together make replies unique: a message
\* gets a second confirmed reply only if its done mark was cut off, failed or
\* expired, or if the lock of its user did not hold.
THEOREM AtMostOnceReplyHolds == Spec => []AtMostOnceReply
<1>1. Init => ReplyInv
  BY DEF Init, ReplyInv, RepliedOnce, IdleWorker
<1>2. TypeOK /\ LockHeld /\ ReplyInv /\ [Next]_vars => ReplyInv'
  BY ReplyInvStep
<1>3. TypeOK /\ ReplyInv => AtMostOnceReply
  BY DEF ReplyInv, Trusted, RepliedOnce, AtMostOnceReply
<1> QED
  BY <1>1, <1>2, <1>3, LockHeldInvariant, PTL DEF Spec

===============================================================================
