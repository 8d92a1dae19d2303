--------------------------- MODULE DispatchProofs ---------------------------
(***************************************************************************)
(* Proof that no message is answered again while the mark of its answer    *)
(* stands and the dedup store answers, for any number of messages,         *)
(* callbacks, pages and faults, with or without the queue, and of the      *)
(* types that the handlers, the queue and the executors keep.              *)
(***************************************************************************)
EXTENDS Dispatch, FiniteSetTheorems, WellFoundedInduction, TLAPS

Busy(e) == exec[e].pc \in {"turn", "mark"}

\* The executors as records; which message each has is left open.
Shape ==
  /\ exec = [e \in Executors |-> exec[e]]
  /\ \A e \in Executors : exec[e] = [pc |-> exec[e].pc, msg |-> exec[e].msg, tries |-> exec[e].tries]
  /\ dedup \in [Msgs -> {"none", "processing", "done"}]
  /\ answered \in [Msgs -> Nat]

\* The mark of a message that is being processed stands, unless the dedup store has let it
\* through without an answer, ...
Marked ==
  \A e \in Executors : Busy(e) /\ exec[e].msg \in Msgs \ unguarded => dedup[exec[e].msg] = "processing"

\* ... so that nobody else processes it.
Exclusive ==
  \A e, x \in Executors :
    Busy(e) /\ Busy(x) /\ exec[e].msg \in Msgs \ unguarded /\ exec[x].msg = exec[e].msg => x = e

\* An answered message whose mark stands is not processed once more.
Guarded ==
  \A m \in Msgs \ unguarded : answered[m] > 0 /\ m \notin forgot =>
    dedup[m] # "none" /\ \A e \in Executors : exec[e].pc = "turn" => exec[e].msg # m

AnswerInv == Shape /\ Marked /\ Exclusive /\ Guarded /\ AnsweredOnce

LEMMA AnswerInit == Init => AnswerInv
<1> SUFFICES ASSUME Init PROVE AnswerInv
  OBVIOUS
<1>1. /\ exec = [e \in Executors |-> Rest]
      /\ \A e \in Executors : exec[e] = Rest
      /\ Rest = [pc |-> "idle", msg |-> 0, tries |-> 0]
  BY DEF Init, Rest
<1>2. dedup = [m \in Msgs |-> "none"] /\ answered = [m \in Msgs |-> 0]
  BY DEF Init
<1>3. Shape
  BY <1>1, <1>2 DEF Shape
<1>4. \A e \in Executors : ~Busy(e)
  BY <1>1 DEF Busy
<1>5. \A m \in Msgs : ~(answered[m] > 0) /\ ~(answered[m] > 1)
  BY <1>2
<1> QED BY <1>3, <1>4, <1>5 DEF AnswerInv, Marked, Exclusive, Guarded, AnsweredOnce

\* Steps that leave the executors, the marks and the answers alone.
LEMMA Untouched ==
  ASSUME AnswerInv, UNCHANGED <<exec, dedup, answered, forgot, unguarded>>
  PROVE  AnswerInv'
BY DEF AnswerInv, Shape, Marked, Exclusive, Guarded, AnsweredOnce, Busy

\* An executor takes a message, passes over it or is let through.
LEMMA AcquireStep ==
  ASSUME AnswerInv, NEW e \in Executors, NEW m, NEW tries, Acquire(e, m, tries),
         ~Busy(e), UNCHANGED <<answered, forgot>>
  PROVE  AnswerInv'
<1> USE DEF AnswerInv, Shape
<1>1. CASE UNCHANGED <<dedup, unguarded>> /\ exec' = [exec EXCEPT ![e] = Rest]
  <2>1. /\ exec'[e] = Rest /\ Rest.pc = "idle" /\ \A x \in Executors \ {e} : exec'[x] = exec[x]
        /\ Rest = [pc |-> Rest.pc, msg |-> Rest.msg, tries |-> Rest.tries]
    BY <1>1 DEF Rest
  <2>2. Shape'
    BY <1>1, <2>1
  <2> QED BY <1>1, <2>1, <2>2 DEF Marked, Exclusive, Guarded, AnsweredOnce, Busy
<1>2. CASE /\ dedup[m] = "none" \/ m \in unguarded'
           /\ dedup' = dedup \/ dedup' = Taken(m)
           /\ dedup[m] = "none" => dedup' = Taken(m) \/ m \in unguarded'
           /\ Starts(e, m, tries)
           /\ unguarded' = unguarded \/ unguarded' = unguarded \cup {m}
  <2>1. /\ exec'[e].pc = "turn" /\ exec'[e].msg = m
        /\ exec'[e] = [pc |-> exec'[e].pc, msg |-> exec'[e].msg, tries |-> exec'[e].tries]
        /\ exec' = [x \in Executors |-> exec'[x]]
        /\ \A x \in Executors \ {e} : exec'[x] = exec[x]
    BY <1>2 DEF Starts
  <2>2. /\ \A k \in Msgs \ {m} : dedup'[k] = dedup[k]
        /\ m \in Msgs \ unguarded' => dedup[m] = "none" /\ dedup'[m] = "processing"
        /\ \A k \in Msgs \ unguarded' : k \notin unguarded
        /\ dedup' \in [Msgs -> {"none", "processing", "done"}]
    BY <1>2 DEF Taken
  <2>3. Shape'
    BY <2>1, <2>2
  <2>4. Marked'
    BY <2>1, <2>2 DEF Marked, Busy
  <2>5. Exclusive'
    <3>1. \A x \in Executors \ {e} : Busy(x) /\ exec[x].msg \in Msgs \ unguarded' => exec[x].msg # m
      BY <2>2 DEF Marked
    <3> QED BY <2>1, <2>2, <3>1 DEF Exclusive, Busy
  <2>6. Guarded'
    BY <2>1, <2>2 DEF Guarded
  <2>7. AnsweredOnce'
    BY <1>2 DEF AnsweredOnce
  <2> QED BY <2>3, <2>4, <2>5, <2>6, <2>7
<1> QED BY <1>1, <1>2 DEF Acquire

\* Counting an answer, of whatever, leaves the counts counts.
LEMMA CountAnswer ==
  ASSUME NEW f \in [Msgs -> Nat], NEW m
  PROVE  [f EXCEPT ![m] = @ + 1] \in [Msgs -> Nat]
<1>1. CASE m \in Msgs
  <2>1. f[m] + 1 \in Nat
    BY <1>1
  <2> QED BY <2>1
<1>2. CASE m \notin Msgs
  <2>1. [f EXCEPT ![m] = @ + 1] = f
    BY <1>2
  <2> QED BY <2>1
<1> QED BY <1>1, <1>2

LEMMA AnswerStep ==
  ASSUME AnswerInv, [Next]_vars
  PROVE  AnswerInv'
<1> USE DEF outcome
<1>0. Worker \in Executors /\ Msgs \subseteq Executors
  BY DEF Executors
<1>1. CASE Write \/ Age \/ UNCHANGED vars
  BY <1>1, Untouched DEF Write, Age, vars
<1>2. ASSUME NEW c \in Msgs,
             \/ Receive(c) \/ Lock(c) \/ Fetch(c) \/ Hand(c) \/ EndCall(c)
             \/ FetchFails(c) \/ Repeat(c)
      PROVE  AnswerInv'
  BY <1>2, Untouched DEF Receive, Lock, Fetch, Hand, EndCall, FetchFails, Repeat
<1>3. ASSUME NEW c \in Msgs, RunTask(c) PROVE AnswerInv'
  <2>1. ~Busy(c)
    BY <1>3 DEF RunTask, Busy, Rest
  <2> QED BY <1>0, <1>3, <2>1, AcquireStep DEF RunTask
<1>4. CASE Claim
  <2>1. ~Busy(Worker)
    BY <1>4 DEF Claim, Busy, Rest
  <2> QED BY <1>0, <1>4, <2>1, AcquireStep DEF Claim
<1>5. ASSUME NEW e \in Executors, Retry(e) PROVE AnswerInv'
  <2>1. ~Busy(e)
    BY <1>5 DEF Retry, Busy
  <2> QED BY <1>5, <2>1, AcquireStep DEF Retry
<1>6. ASSUME NEW e \in Executors, Answer(e) PROVE AnswerInv'
  <2> DEFINE m == exec[e].msg
  <2> USE DEF AnswerInv, Shape
  <2>1. /\ exec[e].pc = "turn"
        /\ exec' = [exec EXCEPT ![e].pc = "mark"]
        /\ answered' = [answered EXCEPT ![m] = @ + 1]
        /\ UNCHANGED <<dedup, forgot, unguarded>>
    BY <1>6 DEF Answer
  <2>2. /\ exec'[e].pc = "mark" /\ exec'[e].msg = m /\ exec'[e].tries = exec[e].tries
        /\ exec'[e] = [pc |-> exec'[e].pc, msg |-> exec'[e].msg, tries |-> exec'[e].tries]
        /\ \A x \in Executors \ {e} : exec'[x] = exec[x]
    BY <2>1
  <2>3. \A k \in Msgs : answered'[k] = IF k = m THEN answered[k] + 1 ELSE answered[k]
    BY <2>1
  <2> HIDE DEF m
  <2>4. Shape'
    <3>1. answered' \in [Msgs -> Nat]
      BY <2>1, CountAnswer
    <3> QED BY <2>1, <2>2, <3>1
  <2>5. Marked' /\ Exclusive'
    BY <2>1, <2>2 DEF Marked, Exclusive, Busy
  <2>6. Guarded'
    <3> SUFFICES ASSUME NEW k \in Msgs \ unguarded, answered'[k] > 0, k \notin forgot
                 PROVE  dedup[k] # "none" /\ \A x \in Executors : exec'[x].pc = "turn" => exec'[x].msg # k
      BY <2>1 DEF Guarded
    <3>1. CASE k = m
      BY <2>1, <2>2, <3>1 DEF Marked, Exclusive, Busy, m
    <3>2. CASE k # m
      BY <2>2, <2>3, <3>2 DEF Guarded
    <3> QED BY <3>1, <3>2
  <2>7. AnsweredOnce'
    <3>1. m \in Msgs \ unguarded /\ m \notin forgot => ~(answered[m] > 0)
      BY <2>1 DEF Guarded, m
    <3> QED BY <2>1, <2>3, <3>1 DEF AnsweredOnce
  <2> QED BY <2>4, <2>5, <2>6, <2>7
<1>7. ASSUME NEW e \in Executors, SendFails(e) \/ TurnFails(e) PROVE AnswerInv'
  <2> DEFINE m == exec[e].msg
  <2> USE DEF AnswerInv, Shape
  <2>1. /\ exec[e].pc = "turn"
        /\ \E released \in BOOLEAN : Releases(m, released)
        /\ \/ exec' = [exec EXCEPT ![e] = Rest]
           \/ exec' = [exec EXCEPT ![e].pc = "again", ![e].tries = exec[e].tries + 1]
        /\ \/ UNCHANGED <<answered, forgot>>
           \/ answered' = [answered EXCEPT ![m] = @ + 1] /\ forgot' = forgot \cup {m}
        /\ unguarded' = unguarded
    BY <1>7 DEF SendFails, TurnFails, Again
  <2>2. /\ exec'[e].pc \in {"idle", "again"}
        /\ exec'[e] = [pc |-> exec'[e].pc, msg |-> exec'[e].msg, tries |-> exec'[e].tries]
        /\ \A x \in Executors \ {e} : exec'[x] = exec[x]
        /\ exec' = [x \in Executors |-> exec'[x]]
    BY <2>1 DEF Rest
  <2>3. /\ dedup' \in [Msgs -> {"none", "processing", "done"}]
        /\ \A k \in Msgs \ {m} : dedup'[k] = dedup[k]
    BY <2>1 DEF Releases
  <2>4. /\ \A k \in Msgs \ {m} : answered'[k] = answered[k]
        /\ \A k \in Msgs \ {m} : k \in forgot' <=> k \in forgot
    BY <2>1
  <2>5. m \in Msgs \ unguarded /\ m \notin forgot' => ~(answered'[m] > 0)
    BY <2>1 DEF Guarded
  <2>6. answered' \in [Msgs -> Nat]
    BY <2>1, CountAnswer
  <2>7. \A x \in Executors \ {e} : Busy(x) /\ exec[x].msg \in Msgs \ unguarded => exec[x].msg # m
    BY <2>1 DEF Exclusive, Busy
  <2> HIDE DEF m
  <2>8. Shape'
    BY <2>2, <2>3, <2>6
  <2>9. Marked' /\ Exclusive'
    BY <2>1, <2>2, <2>3, <2>7 DEF Marked, Exclusive, Busy
  <2>10. Guarded'
    BY <2>1, <2>2, <2>3, <2>4, <2>5 DEF Guarded
  <2>11. AnsweredOnce'
    BY <2>1, <2>4, <2>5, <2>6 DEF AnsweredOnce
  <2> QED BY <2>8, <2>9, <2>10, <2>11
<1>8. ASSUME NEW e \in Executors, MarkDone(e) PROVE AnswerInv'
  <2> DEFINE m == exec[e].msg
  <2> USE DEF AnswerInv, Shape
  <2>1. /\ exec[e].pc = "mark"
        /\ exec' = [exec EXCEPT ![e] = Rest]
        /\ UNCHANGED <<answered, unguarded>>
        /\ \/ dedup' = [dedup EXCEPT ![m] = "done"] /\ forgot' = forgot
           \/ dedup' = dedup /\ forgot' = forgot \cup {m}
    BY <1>8 DEF MarkDone
  <2>2. /\ exec'[e].pc = "idle"
        /\ exec'[e] = [pc |-> exec'[e].pc, msg |-> exec'[e].msg, tries |-> exec'[e].tries]
        /\ \A x \in Executors \ {e} : exec'[x] = exec[x]
        /\ exec' = [x \in Executors |-> exec'[x]]
    BY <2>1 DEF Rest
  <2>3. /\ dedup' \in [Msgs -> {"none", "processing", "done"}]
        /\ \A k \in Msgs \ {m} : dedup'[k] = dedup[k]
        /\ \A k \in Msgs : dedup[k] # "none" => dedup'[k] # "none"
        /\ \A k \in Msgs : k \in forgot => k \in forgot'
    BY <2>1
  <2>4. \A x \in Executors \ {e} : Busy(x) /\ exec[x].msg \in Msgs \ unguarded => exec[x].msg # m
    BY <2>1 DEF Exclusive, Busy
  <2> HIDE DEF m
  <2>5. Shape'
    BY <2>1, <2>2, <2>3
  <2>6. Marked' /\ Exclusive'
    BY <2>1, <2>2, <2>3, <2>4 DEF Marked, Exclusive, Busy
  <2>7. Guarded' /\ AnsweredOnce'
    BY <2>1, <2>2, <2>3 DEF Guarded, AnsweredOnce
  <2> QED BY <2>5, <2>6, <2>7
<1>9. ASSUME NEW m \in Msgs, Forget(m) PROVE AnswerInv'
  <2> USE DEF AnswerInv, Shape
  <2>1. /\ dedup' = [dedup EXCEPT ![m] = "none"] /\ UNCHANGED <<exec, answered, unguarded>>
        /\ forgot' = IF answered[m] > 0 THEN forgot \cup {m} ELSE forgot
        /\ dedup[m] = "processing" => \A e \in Executors : exec[e].msg # m
        /\ dedup[m] \in {"processing", "done"}
    BY <1>9 DEF Forget
  <2>2. \A k \in Msgs : dedup'[k] = IF k = m THEN "none" ELSE dedup[k]
    BY <2>1
  <2>3. \A e \in Executors : Busy(e) /\ m \notin unguarded => exec[e].msg # m
    BY <2>1 DEF Marked
  <2>4. Shape'
    BY <2>1
  <2>5. Marked' /\ Exclusive'
    BY <2>1, <2>2, <2>3 DEF Marked, Exclusive, Busy
  <2>6. Guarded' /\ AnsweredOnce'
    BY <2>1, <2>2 DEF Guarded, AnsweredOnce
  <2> QED BY <2>4, <2>5, <2>6
<1>10. CASE Crash
  <2> USE DEF AnswerInv, Shape
  <2>1. /\ exec' = [e \in Executors |-> Rest] /\ UNCHANGED <<answered, unguarded>>
        /\ dedup' = [m \in Msgs |-> IF mode = "memory" \/ (m = exec[Worker].msg /\ dedup[m] = "processing")
                                    THEN "none" ELSE dedup[m]]
        /\ forgot' = forgot \cup {m \in Msgs : answered[m] > 0 /\ dedup[m] # "none" /\ dedup'[m] = "none"}
    BY <1>10 DEF Crash
  <2>2. /\ \A e \in Executors : exec'[e] = Rest
        /\ Rest.pc = "idle" /\ Rest = [pc |-> Rest.pc, msg |-> Rest.msg, tries |-> Rest.tries]
    BY <2>1 DEF Rest
  <2>3. dedup' \in [Msgs -> {"none", "processing", "done"}]
    BY <2>1
  <2>4. Shape'
    BY <2>1, <2>2, <2>3
  <2>5. Marked' /\ Exclusive'
    BY <2>2 DEF Marked, Exclusive, Busy
  <2>6. Guarded' /\ AnsweredOnce'
    BY <2>1, <2>2 DEF Guarded, AnsweredOnce
  <2> QED BY <2>4, <2>5, <2>6
<1> QED
  BY <1>1, <1>2, <1>3, <1>4, <1>5, <1>6, <1>7, <1>8, <1>9, <1>10 DEF Next, Handle, Run

\* A message is answered again only after the mark of its answer has gone or could not be set,
\* unless the dedup store has once let it through without an answer: for every other message the
\* mark that acquire sets stands to the end of the turn, whoever else has the message in hand.
THEOREM AnsweredOnceHolds == Spec => []AnsweredOnce
<1>1. AnswerInv => AnsweredOnce
  BY DEF AnswerInv
<1> QED BY <1>1, AnswerInit, AnswerStep, PTL DEF Spec

-------------------------------------------------------------------------------
(***************************************************************************)
(* The types.                                                              *)
(***************************************************************************)
Item == [msg : Msgs, tries : 0..MaxAttempts - 1]
ExecType == [pc : {"idle", "again", "turn", "mark"}, msg : 0..MaxMsgs, tries : 0..MaxAttempts - 1]

Bounds == /\ protocol \in Protocols /\ mode \in Modes
          /\ written \in 0..MaxMsgs /\ old \in 0..written /\ faults \in 0..MaxFaults

\* Nobody handles the callback of a message that has not been written.
Calls == /\ call \in [Msgs -> CallType]
         /\ syncLock \in {Nobody} \cup Msgs
         /\ \A c \in Msgs : call[c].pc = "fetch" <=> syncLock = c
         /\ \A c \in Msgs : c > written => call[c].pc = "none"

\* What works has a message.
Runs == /\ exec \in [Executors -> ExecType]
        /\ \A e \in Executors : exec[e] # Rest => exec[e].msg \in Msgs

Marks == /\ dedup \in [Msgs -> {"none", "processing", "done"}] /\ answered \in [Msgs -> Nat]
         /\ forgot \subseteq Msgs /\ unguarded \subseteq Msgs /\ settled \subseteq Msgs /\ behind \subseteq Msgs

TypeInv == Bounds /\ Calls /\ queue \in Seq(Item) /\ Runs /\ Marks

LEMMA TypeInit == Init => TypeInv
<1> SUFFICES ASSUME Init PROVE TypeInv
  OBVIOUS
<1> USE DispatchAssumption DEF Init
<1>1. Bounds
  BY DEF Bounds
<1>2. Calls
  <2>1. NoCall \in CallType /\ NoCall.pc = "none"
    BY DEF NoCall, CallType, Msgs
  <2>2. \A c \in Msgs : c # Nobody
    BY DEF Msgs, Nobody
  <2> QED BY <2>1, <2>2 DEF Calls
<1>3. Runs
  <2>1. Rest \in ExecType
    BY DEF Rest, ExecType
  <2> QED BY <2>1 DEF Runs
<1>4. Marks
  BY DEF Marks
<1> QED BY <1>1, <1>2, <1>3, <1>4 DEF TypeInv

\* A failing call stays within the bound on faults.
LEMMA FaultCounts ==
  ASSUME Bounds, NEW op, Fault(op)
  PROVE  faults' \in 0..MaxFaults
BY DispatchAssumption DEF Fault, Bounds

\* The messages of a page, and the first of them.
LEMMA PageFacts ==
  ASSUME Bounds, NEW cursor \in 0..MaxMsgs
  PROVE  Page(cursor) \subseteq Msgs /\ (Page(cursor) # {} => Min(Page(cursor)) \in Page(cursor))
<1>1. Page(cursor) \subseteq Msgs
  BY DispatchAssumption DEF Page, Msgs, Bounds
<1>2. ASSUME NEW S \in SUBSET Nat, S # {} PROVE Min(S) \in S
  <2> DEFINE R == {ss \in Nat \X Nat : ss[1] < ss[2]}
  <2>1. IsWellFoundedOn(R, Nat)
    <3>1. R = OpToRel(<, Nat)
      BY DEF OpToRel
    <3> QED BY <3>1, NatLessThanWellFounded
  <2>2. PICK x \in S : \A y \in S : ~(<<y, x>> \in R)
    BY <1>2, <2>1, WFMin
  <2>3. \A y \in S : x =< y
    <3> SUFFICES ASSUME NEW y \in S, ~(x =< y) PROVE FALSE
      OBVIOUS
    <3>1. <<y, x>> \in Nat \X Nat /\ <<y, x>>[1] < <<y, x>>[2]
      OBVIOUS
    <3> QED BY <2>2, <3>1
  <2> QED BY <2>3 DEF Min
<1>3. Page(cursor) \in SUBSET Nat
  BY <1>1 DEF Msgs
<1> QED BY <1>1, <1>2, <1>3

\* Messages in order are a sequence of messages.
LEMMA InOrderSeq ==
  ASSUME NEW S \in SUBSET Msgs, NEW s \in InOrder(S)
  PROVE  s \in Seq(Msgs)
<1>1. IsFiniteSet(S)
  <2>1. IsFiniteSet(Msgs)
    BY DispatchAssumption, FS_Interval DEF Msgs
  <2> QED BY <2>1, FS_Subset
<1>2. Cardinality(S) \in Nat
  BY <1>1, FS_CardinalityType
<1>3. s \in [1..Cardinality(S) -> Msgs]
  BY DEF InOrder
<1> QED BY <1>2, <1>3

\* A handler moves on; it fetches exactly as long as it holds the lock.
LEMMA CallMoves ==
  ASSUME Calls, NEW c \in Msgs, NEW r \in CallType, call[c].pc # "none",
         call' = [call EXCEPT ![c] = r], written' = written,
         \/ r.pc # "fetch" /\ call[c].pc # "fetch" /\ syncLock' = syncLock
         \/ r.pc = "fetch" /\ call[c].pc = "fetch" /\ syncLock' = syncLock
         \/ r.pc = "fetch" /\ syncLock = Nobody /\ syncLock' = c
         \/ r.pc # "fetch" /\ call[c].pc = "fetch" /\ syncLock' = Nobody
  PROVE  Calls'
<1>1. call' \in [Msgs -> CallType] /\ call'[c] = r /\ \A x \in Msgs \ {c} : call'[x] = call[x]
  BY DEF Calls
<1>2. Nobody \notin Msgs
  BY DEF Nobody, Msgs
<1>3. \A x \in Msgs : call'[x].pc = "fetch" <=> syncLock' = x
  BY <1>1, <1>2 DEF Calls
<1>4. syncLock' \in {Nobody} \cup Msgs
  BY DEF Calls
<1>5. \A x \in Msgs : x > written' => call'[x].pc = "none"
  BY <1>1 DEF Calls
<1> QED BY <1>1, <1>3, <1>4, <1>5 DEF Calls

\* An executor takes up r.
LEMMA ExecMoves ==
  ASSUME Runs, NEW e \in Executors, NEW r \in ExecType, r = Rest \/ r.msg \in Msgs,
         exec' = [exec EXCEPT ![e] = r]
  PROVE  Runs'
BY DEF Runs

LEMMA RestType == Rest \in ExecType
BY DispatchAssumption DEF Rest, ExecType

LEMMA AcquireTypes ==
  ASSUME Bounds, Runs, Marks, NEW e \in Executors, NEW m \in Msgs, NEW tries \in 0..MaxAttempts - 1,
         Acquire(e, m, tries), UNCHANGED <<answered, forgot, settled, behind>>
  PROVE  Runs' /\ Marks' /\ faults' \in 0..MaxFaults
<1>1. faults' \in 0..MaxFaults
  <2>1. faults' = faults \/ Fault("acquire")
    BY DEF Acquire
  <2> QED BY <2>1, FaultCounts DEF Bounds
<1>2. Marks'
  <2>1. dedup' \in {dedup, Taken(m)} /\ unguarded' \in {unguarded, unguarded \cup {m}}
    BY DEF Acquire
  <2>2. Taken(m) \in [Msgs -> {"none", "processing", "done"}]
    BY DEF Taken, Marks
  <2> QED BY <2>1, <2>2 DEF Marks
<1>3. Runs'
  <2> DEFINE r == [pc |-> "turn", msg |-> m, tries |-> tries]
  <2>1. r \in ExecType /\ r.msg \in Msgs
    BY DEF ExecType, Msgs
  <2>2. exec' = [exec EXCEPT ![e] = Rest] \/ exec' = [exec EXCEPT ![e] = r]
    BY DEF Acquire, Starts
  <2> HIDE DEF r
  <2> QED BY <2>1, <2>2, RestType, ExecMoves
<1> QED BY <1>1, <1>2, <1>3

\* The handlers: what they have read and what is left to do are messages.
LEMMA HandlerTypes ==
  ASSUME TypeInv, NEW c \in Msgs,
         Receive(c) \/ Lock(c) \/ Fetch(c) \/ Hand(c) \/ EndCall(c) \/ RunTask(c) \/ FetchFails(c) \/ Repeat(c)
  PROVE  TypeInv'
<1> USE DEF outcome
<1>0. /\ Bounds /\ Calls /\ queue \in Seq(Item) /\ Runs /\ Marks
      /\ call \in [Msgs -> CallType] /\ call[c] \in CallType
  BY DEF TypeInv, Calls
<1>1. /\ NoCall \in CallType
      /\ \A r \in CallType, pc \in {"new", "sync", "fetch", "dispatch", "over"} : [r EXCEPT !.pc = pc] \in CallType
      /\ \A r \in CallType, s \in Seq(Msgs) : /\ [r EXCEPT !.todo = s] \in CallType
                                              /\ [r EXCEPT !.tasks = s] \in CallType
                                              /\ [r EXCEPT !.pc = "dispatch", !.todo = s] \in CallType
                                              /\ [r EXCEPT !.pc = "dispatch", !.todo = s].pc = "dispatch"
  <2>1. NoCall \in CallType
    BY DispatchAssumption DEF NoCall, CallType, Msgs
  <2>2. \A r \in CallType, pc \in {"new", "sync", "fetch", "dispatch", "over"} : [r EXCEPT !.pc = pc] \in CallType
    BY DEF CallType
  <2>3. \A r \in CallType, s \in Seq(Msgs) : [r EXCEPT !.todo = s] \in CallType /\ [r EXCEPT !.tasks = s] \in CallType
    BY DEF CallType
  <2>4. \A r \in CallType, s \in Seq(Msgs) : /\ [r EXCEPT !.pc = "dispatch", !.todo = s] \in CallType
                                              /\ [r EXCEPT !.pc = "dispatch", !.todo = s].pc = "dispatch"
    BY DEF CallType
  <2> QED BY <2>1, <2>2, <2>3, <2>4
<1>2. \A pc \in {"new", "fetch", "over"} :
        [call EXCEPT ![c].pc = pc] = [call EXCEPT ![c] = [call[c] EXCEPT !.pc = pc]]
  OBVIOUS
<1>3. \A pc \in {"new", "sync", "fetch", "dispatch", "over"} : [call[c] EXCEPT !.pc = pc].pc = pc
  BY <1>0 DEF CallType
<1>4. ASSUME Bounds', Calls', queue' \in Seq(Item), Runs', Marks' PROVE TypeInv'
  BY <1>4 DEF TypeInv
\* A loop that ends leaves messages in order.
<1>5. ASSUME NEW h, NEW got \in SUBSET Msgs, EndsWith(c, h, got), call[c].pc = "fetch",
             written' = written, UNCHANGED <<dedup, answered, forgot, unguarded>>
      PROVE  Calls' /\ Marks'
  <2>1. PICK todo \in InOrder(got) :
          call' = [call EXCEPT ![c] = [NoCall EXCEPT !.pc = "dispatch", !.todo = todo]]
    BY <1>5 DEF EndsWith
  <2>2. todo \in Seq(Msgs)
    BY InOrderSeq
  <2> DEFINE r == [NoCall EXCEPT !.pc = "dispatch", !.todo = todo]
  <2>3. r \in CallType /\ r.pc = "dispatch"
    BY <1>1, <2>2
  <2>4. call' = [call EXCEPT ![c] = r] /\ syncLock' = Nobody
    BY <1>5, <2>1 DEF EndsWith
  <2> HIDE DEF r
  <2>5. Calls'
    BY <1>0, <1>5, <2>3, <2>4, CallMoves
  <2>6. settled' \subseteq Msgs /\ behind' \subseteq Msgs
    BY <1>0, <1>5 DEF EndsWith, Marks
  <2> QED BY <1>0, <1>5, <2>5, <2>6 DEF Marks
<1>6. CASE Receive(c)
  <2>1. /\ Bounds' /\ Marks'
    <3>1. faults' \in 0..MaxFaults /\ settled' \subseteq Msgs
      BY <1>0, <1>6, FaultCounts DEF Receive, Bounds, Marks
    <3> QED BY <1>0, <1>6, <3>1 DEF Receive, Bounds, Marks
  <2>2. PICK r \in CallType : r.pc \in {"dispatch", "sync", "over"} /\ call' = [call EXCEPT ![c] = r]
    <3>1. <<c>> \in Seq(Msgs)
      OBVIOUS
    <3>2. [NoCall EXCEPT !.pc = "dispatch", !.todo = <<c>>] \in CallType
      BY ONLY <1>1, <3>1
    <3>3. [NoCall EXCEPT !.pc = "sync"] \in CallType
      BY <1>1
    <3>4. [call[c] EXCEPT !.pc = "over"] \in CallType /\ [call[c] EXCEPT !.pc = "over"].pc = "over"
      BY <1>0, <1>1, <1>3
    <3>5. \/ call' = [call EXCEPT ![c] = [NoCall EXCEPT !.pc = "dispatch", !.todo = <<c>>]]
          \/ call' = [call EXCEPT ![c] = [NoCall EXCEPT !.pc = "sync"]]
          \/ call' = [call EXCEPT ![c] = [call[c] EXCEPT !.pc = "over"]]
      BY <1>2, <1>6 DEF Receive
    <3>6. [NoCall EXCEPT !.pc = "dispatch", !.todo = <<c>>].pc = "dispatch" /\ [NoCall EXCEPT !.pc = "sync"].pc = "sync"
      BY DEF NoCall
    <3> QED BY ONLY <3>2, <3>3, <3>4, <3>5, <3>6
  <2>3. call[c].pc = "new" /\ UNCHANGED <<written, syncLock, queue, exec>>
    BY <1>6 DEF Receive
  <2>4. Calls'
    BY <1>0, <2>2, <2>3, CallMoves
  <2>5. Runs'
    BY <1>0, <2>3 DEF Runs
  <2> QED BY <1>0, <1>4, <2>1, <2>3, <2>4, <2>5
<1>7. CASE Lock(c)
  <2>1. /\ call[c].pc = "sync" /\ syncLock = Nobody /\ syncLock' = c
        /\ call' = [call EXCEPT ![c] = [call[c] EXCEPT !.pc = "fetch"]]
        /\ UNCHANGED <<protocol, mode, written, old, queue, exec, dedup, outcome, faults>>
    BY <1>2, <1>7 DEF Lock
  <2>2. [call[c] EXCEPT !.pc = "fetch"] \in CallType
    BY <1>0, <1>1
  <2>3. Calls'
    BY <1>0, <1>3, <2>1, <2>2, CallMoves
  <2> QED BY <1>0, <1>4, <2>1, <2>3 DEF Bounds, Runs, Marks
<1>8. CASE Fetch(c)
  <2> DEFINE h == call[c]
             page == Page(h.cursor)
             got == h.got \cup page
             next == [h EXCEPT !.got = got, !.cursor = Min(page), !.tries = @ + 1]
  <2>1. page \subseteq Msgs /\ (page # {} => Min(page) \in page) /\ got \in SUBSET Msgs
    BY <1>0, PageFacts DEF CallType
  <2>2. h.pc = "fetch" /\ UNCHANGED <<protocol, mode, written, old, queue, exec, dedup, answered, forgot, unguarded, faults>>
    BY <1>8 DEF Fetch
  <2>3. Calls' /\ Marks'
    <3>1. \/ EndsWith(c, h, got)
          \/ /\ page # {} /\ h.tries + 1 # MaxPages /\ call' = [call EXCEPT ![c] = next]
             /\ UNCHANGED <<syncLock, settled, behind>>
      BY <1>8 DEF Fetch
    <3>2. CASE EndsWith(c, h, got)
      BY <1>0, <1>5, <2>1, <2>2, <3>2
    <3>3. CASE /\ page # {} /\ h.tries + 1 # MaxPages /\ call' = [call EXCEPT ![c] = next]
               /\ UNCHANGED <<syncLock, settled, behind>>
      <4>1. Min(page) \in 0..MaxMsgs
        BY <2>1, <3>3, DispatchAssumption DEF Msgs
      <4>2. h.tries + 1 \in 0..MaxPages - 1
        <5>1. call[c].tries \in 0..MaxPages - 1 /\ call[c].tries + 1 # MaxPages /\ MaxPages \in Nat
          BY <1>0, <3>3, DispatchAssumption DEF CallType
        <5> QED BY ONLY <5>1
      <4> HIDE DEF page, got
      <4>3. next \in CallType /\ next.pc = "fetch"
        BY <1>0, <2>1, <2>2, <4>1, <4>2 DEF CallType
      <4>4. call' = [call EXCEPT ![c] = next]
        BY <3>3
      <4> HIDE DEF next
      <4>5. Calls'
        BY <1>0, <2>2, <3>3, <4>3, <4>4, CallMoves
      <4> QED BY <1>0, <2>2, <3>3, <4>5 DEF Marks
    <3> QED BY <3>1, <3>2, <3>3
  <2> QED BY <1>0, <1>4, <2>2, <2>3 DEF Bounds, Runs
<1>9. CASE FetchFails(c)
  <2> DEFINE h == [call[c] EXCEPT !.tries = @ + 1, !.failed = TRUE]
  <2>1. /\ call[c].pc = "fetch" /\ h.pc = "fetch" /\ h.got \in SUBSET Msgs
        /\ UNCHANGED <<protocol, mode, written, old, queue, exec, dedup, answered, forgot, unguarded>>
    BY <1>0, <1>9 DEF FetchFails, CallType
  <2>2. faults' \in 0..MaxFaults
    BY <1>0, <1>9, FaultCounts DEF FetchFails
  <2>3. Calls' /\ Marks'
    <3>1. \/ EndsWith(c, h, h.got)
          \/ h.tries # MaxPages /\ call' = [call EXCEPT ![c] = h] /\ UNCHANGED <<syncLock, settled, behind>>
      BY <1>9 DEF FetchFails
    <3>2. CASE EndsWith(c, h, h.got)
      <4> HIDE DEF h
      <4> QED BY <1>5, <2>1, <3>2
    <3>3. CASE h.tries # MaxPages /\ call' = [call EXCEPT ![c] = h] /\ UNCHANGED <<syncLock, settled, behind>>
      <4>1. call[c].tries + 1 \in 0..MaxPages - 1
        <5>1. call[c].tries \in 0..MaxPages - 1 /\ MaxPages \in Nat
          BY <1>0, DispatchAssumption DEF CallType
        <5>2. call[c].tries + 1 # MaxPages
          BY <1>0, <3>3 DEF CallType
        <5> QED BY ONLY <5>1, <5>2
      <4>2. h \in CallType
        BY <1>0, <4>1 DEF CallType
      <4> HIDE DEF h
      <4>3. Calls'
        BY <1>0, <2>1, <3>3, <4>2, CallMoves
      <4> QED BY <1>0, <2>1, <3>3, <4>3 DEF Marks
    <3> QED BY <3>1, <3>2, <3>3
  <2> QED BY <1>0, <1>4, <2>1, <2>2, <2>3 DEF Bounds, Runs
<1>10. CASE Hand(c)
  <2> DEFINE m == Head(call[c].todo)
             r == [call[c] EXCEPT !.todo = Tail(call[c].todo)]
             q == [r EXCEPT !.tasks = Append(call[c].tasks, m)]
             put == Append(queue, [msg |-> m, tries |-> 0])
  <2>1. /\ call[c].pc = "dispatch" /\ call[c].todo # <<>>
        /\ UNCHANGED <<protocol, mode, written, old, syncLock, exec, dedup, outcome>>
    BY <1>10 DEF Hand
  <2>2. m \in Msgs /\ Tail(call[c].todo) \in Seq(Msgs) /\ Append(call[c].tasks, m) \in Seq(Msgs)
    BY <1>0, <2>1 DEF CallType
  <2>3. put \in Seq(Item)
    BY <1>0, <2>2, DispatchAssumption DEF Item
  <2>4. r \in CallType /\ r.pc = "dispatch" /\ q \in CallType /\ q.pc = "dispatch"
    <3>1. r \in CallType /\ r.pc = "dispatch"
      BY <1>0, <2>1, <2>2 DEF CallType
    <3> HIDE DEF r, m
    <3> QED BY <2>2, <3>1 DEF CallType
  <2>5. /\ call' = [call EXCEPT ![c] = r] \/ call' = [call EXCEPT ![c] = q]
        /\ queue' \in {queue, put}
        /\ faults' = faults \/ Fault("enqueue")
    <3>1. [call EXCEPT ![c].todo = Tail(@)] = [call EXCEPT ![c] = r]
      BY <1>0
    <3>2. [[call EXCEPT ![c].todo = Tail(@)] EXCEPT ![c].tasks = Append(@, m)] = [call EXCEPT ![c] = q]
      BY <1>0 DEF CallType
    <3> QED BY <1>10, <3>1, <3>2 DEF Hand
  <2> HIDE DEF r, q, put, m
  <2>6. Calls'
    BY <1>0, <2>1, <2>4, <2>5, CallMoves
  <2>7. faults' \in 0..MaxFaults
    BY <1>0, <2>5, FaultCounts DEF Bounds
  <2> QED BY <1>0, <1>4, <2>1, <2>3, <2>5, <2>6, <2>7 DEF Bounds, Runs, Marks
<1>11. CASE EndCall(c) \/ Repeat(c)
  <2>1. /\ call[c].pc \in {"dispatch", "over"}
        /\ \E pc \in {"new", "over"} : call' = [call EXCEPT ![c] = [call[c] EXCEPT !.pc = pc]]
        /\ UNCHANGED <<protocol, mode, written, old, syncLock, queue, exec, dedup, outcome>>
    BY <1>2, <1>11 DEF EndCall, Repeat
  <2>2. faults' \in 0..MaxFaults
    BY <1>0, <1>11, FaultCounts DEF EndCall, Repeat, Bounds
  <2>3. Calls'
    <3>1. PICK pc \in {"new", "over"} : call' = [call EXCEPT ![c] = [call[c] EXCEPT !.pc = pc]]
      BY <2>1
    <3>2. [call[c] EXCEPT !.pc = pc] \in CallType /\ [call[c] EXCEPT !.pc = pc].pc = pc
      BY <1>0, <1>1, <1>3
    <3> QED BY <1>0, <2>1, <3>1, <3>2, CallMoves
  <2> QED BY <1>0, <1>4, <2>1, <2>2, <2>3 DEF Bounds, Runs, Marks
<1>12. CASE RunTask(c)
  <2> DEFINE r == [call[c] EXCEPT !.tasks = Tail(call[c].tasks)]
  <2>1. /\ call[c].pc = "dispatch" /\ call[c].tasks # <<>> /\ Acquire(c, Head(call[c].tasks), 0)
        /\ call' = [call EXCEPT ![c] = r]
        /\ UNCHANGED <<protocol, mode, written, old, syncLock, queue, answered, forgot, settled, behind>>
    BY <1>12 DEF RunTask
  <2>2. Head(call[c].tasks) \in Msgs /\ Tail(call[c].tasks) \in Seq(Msgs)
    BY <1>0, <2>1 DEF CallType
  <2>3. r \in CallType /\ r.pc = "dispatch"
    BY <1>0, <2>1, <2>2 DEF CallType
  <2> HIDE DEF r
  <2>4. Calls'
    BY <1>0, <2>1, <2>3, CallMoves
  <2>5. Runs' /\ Marks' /\ faults' \in 0..MaxFaults
    <3>1. c \in Executors /\ 0 \in 0..MaxAttempts - 1
      BY DispatchAssumption DEF Executors
    <3> QED BY <1>0, <2>1, <2>2, <3>1, AcquireTypes
  <2> QED BY <1>0, <1>4, <2>1, <2>4, <2>5 DEF Bounds
<1> QED BY <1>6, <1>7, <1>8, <1>9, <1>10, <1>11, <1>12

LEMMA ReleaseType ==
  ASSUME Marks, NEW m, NEW released, Releases(m, released)
  PROVE  dedup' \in [Msgs -> {"none", "processing", "done"}]
BY DEF Releases, Marks

\* The turns: what is being processed, or is to be, is a message with attempts left.
LEMMA TurnTypes ==
  ASSUME TypeInv, NEW e \in Executors,
         Retry(e) \/ Answer(e) \/ MarkDone(e) \/ SendFails(e) \/ TurnFails(e)
  PROVE  TypeInv'
<1> USE DEF outcome
<1>0. Bounds /\ Calls /\ queue \in Seq(Item) /\ Runs /\ Marks
  BY DEF TypeInv
<1> DEFINE m == exec[e].msg
<1>1. /\ m \in Msgs /\ exec[e] \in ExecType
      /\ UNCHANGED <<protocol, mode, written, old, call, syncLock>>
  <2>1. exec[e].pc # "idle"
    BY DEF Retry, Answer, MarkDone, SendFails, TurnFails
  <2>2. exec[e] # Rest
    BY <2>1 DEF Rest
  <2> QED BY <1>0, <2>2 DEF Runs, Retry, Answer, MarkDone, SendFails, TurnFails
<1>2. Calls'
  BY <1>0, <1>1 DEF Calls
<1>3. ASSUME faults' \in 0..MaxFaults, queue' \in Seq(Item), Runs', Marks' PROVE TypeInv'
  BY <1>0, <1>1, <1>2, <1>3 DEF TypeInv, Bounds
<1>4. faults' = faults => faults' \in 0..MaxFaults
  BY <1>0 DEF Bounds
<1>5. exec' = [exec EXCEPT ![e] = Rest] => Runs'
  BY <1>0, RestType, ExecMoves
<1>6. CASE Retry(e)
  <2>1. /\ Acquire(e, m, exec[e].tries) /\ exec[e].tries \in 0..MaxAttempts - 1
        /\ UNCHANGED <<queue, answered, forgot, settled, behind>>
    BY <1>1, <1>6 DEF Retry, ExecType
  <2> HIDE DEF m
  <2>2. Runs' /\ Marks' /\ faults' \in 0..MaxFaults
    BY <1>0, <1>1, <2>1, AcquireTypes
  <2> QED BY <1>0, <1>3, <2>1, <2>2
<1>7. CASE Answer(e)
  <2>1. /\ answered' = [answered EXCEPT ![m] = @ + 1]
        /\ exec' = [exec EXCEPT ![e] = [exec[e] EXCEPT !.pc = "mark"]]
        /\ UNCHANGED <<queue, dedup, forgot, unguarded, settled, behind, faults>>
    BY <1>7 DEF Answer
  <2>2. [exec[e] EXCEPT !.pc = "mark"] \in ExecType /\ [exec[e] EXCEPT !.pc = "mark"].msg \in Msgs
    BY <1>1 DEF ExecType
  <2>3. Runs'
    BY <1>0, <2>1, <2>2, ExecMoves
  <2>4. Marks'
    BY <1>0, <2>1, CountAnswer DEF Marks
  <2> QED BY <1>0, <1>3, <1>4, <2>1, <2>3, <2>4
<1>8. CASE MarkDone(e)
  <2>1. /\ dedup' \in {dedup, [dedup EXCEPT ![m] = "done"]} /\ forgot' \in {forgot, forgot \cup {m}}
        /\ exec' = [exec EXCEPT ![e] = Rest]
        /\ UNCHANGED <<queue, answered, unguarded, settled, behind>>
        /\ faults' = faults \/ Fault("mark")
    BY <1>8 DEF MarkDone
  <2>2. Marks'
    <3>1. [dedup EXCEPT ![m] = "done"] \in [Msgs -> {"none", "processing", "done"}]
      BY <1>0 DEF Marks
    <3> QED BY <1>0, <1>1, <2>1, <3>1 DEF Marks
  <2>3. faults' \in 0..MaxFaults
    BY <1>0, <2>1, FaultCounts DEF Bounds
  <2> QED BY <1>0, <1>3, <1>5, <2>1, <2>2, <2>3
<1>9. CASE SendFails(e)
  <2>1. /\ \E released \in BOOLEAN : Releases(m, released)
        /\ settled' = settled \cup {m} /\ UNCHANGED <<unguarded, behind>>
        /\ exec' = [exec EXCEPT ![e] = Rest] /\ queue' = queue
        /\ \/ UNCHANGED <<answered, forgot>>
           \/ answered' = [answered EXCEPT ![m] = @ + 1] /\ forgot' = forgot \cup {m}
        /\ Fault("send")
    BY <1>9 DEF SendFails
  <2>2. Marks'
    <3>1. answered' \in [Msgs -> Nat]
      BY <1>0, <2>1, CountAnswer DEF Marks
    <3>2. dedup' \in [Msgs -> {"none", "processing", "done"}]
      BY <1>0, <2>1, ReleaseType
    <3> QED BY <1>0, <1>1, <2>1, <3>1, <3>2 DEF Marks
  <2>3. faults' \in 0..MaxFaults
    BY <1>0, <2>1, FaultCounts
  <2> QED BY <1>0, <1>3, <1>5, <2>1, <2>2, <2>3
<1>10. CASE TurnFails(e)
  <2> DEFINE tries == exec[e].tries + 1
             again == [exec[e] EXCEPT !.pc = "again", !.tries = tries]
  <2>1. /\ \E released \in BOOLEAN : Releases(m, released)
        /\ settled' \in {settled, settled \cup {m}}
        /\ UNCHANGED <<answered, forgot, unguarded, behind>> /\ Fault("turn")
        /\ \/ exec' = [exec EXCEPT ![e] = Rest]
           \/ tries # MaxAttempts /\ exec' = [exec EXCEPT ![e] = again]
        /\ \/ queue' = queue
           \/ tries # MaxAttempts /\ queue' = Append(queue, [msg |-> m, tries |-> tries])
    BY <1>10 DEF TurnFails, Again
  <2>2. tries # MaxAttempts => tries \in 0..MaxAttempts - 1
    <3>1. exec[e].tries \in 0..MaxAttempts - 1 /\ MaxAttempts \in Nat
      BY <1>1, DispatchAssumption DEF ExecType
    <3> QED BY ONLY <3>1
  <2>3. Runs'
    <3>1. CASE tries # MaxAttempts /\ exec' = [exec EXCEPT ![e] = again]
      <4>1. tries \in 0..MaxAttempts - 1
        BY <2>2, <3>1
      <4> HIDE DEF tries
      <4>2. again \in ExecType /\ again.msg \in Msgs
        BY <1>1, <4>1 DEF ExecType
      <4> HIDE DEF again
      <4> QED BY <1>0, <3>1, <4>2, ExecMoves
    <3> QED BY <1>5, <2>1, <3>1
  <2>4. Marks'
    <3>1. dedup' \in [Msgs -> {"none", "processing", "done"}]
      BY <1>0, <2>1, ReleaseType
    <3> QED BY <1>0, <1>1, <2>1, <3>1 DEF Marks
  <2>5. queue' \in Seq(Item)
    <3>1. CASE tries # MaxAttempts /\ queue' = Append(queue, [msg |-> m, tries |-> tries])
      <4>1. [msg |-> m, tries |-> tries] \in Item
        BY <1>1, <2>2, <3>1 DEF Item
      <4> QED BY <1>0, <3>1, <4>1
    <3> QED BY <1>0, <2>1, <3>1
  <2>6. faults' \in 0..MaxFaults
    BY <1>0, <2>1, FaultCounts
  <2> QED BY <1>3, <2>3, <2>4, <2>5, <2>6
<1> QED BY <1>6, <1>7, <1>8, <1>9, <1>10

LEMMA TypeStep ==
  ASSUME TypeInv, [Next]_vars
  PROVE  TypeInv'
<1> USE DEF outcome
<1>0. Bounds /\ Calls /\ queue \in Seq(Item) /\ Runs /\ Marks
  BY DEF TypeInv
<1>1. ASSUME NEW c \in Msgs, Handle(c) \/ FetchFails(c) \/ Repeat(c) PROVE TypeInv'
  BY <1>1, HandlerTypes DEF Handle
<1>2. ASSUME NEW e \in Executors, Run(e) \/ SendFails(e) \/ TurnFails(e) PROVE TypeInv'
  BY <1>2, TurnTypes DEF Run
<1>3. CASE Write
  <2>1. /\ written < MaxMsgs /\ written' = written + 1
        /\ call' = [call EXCEPT ![written + 1] = [call[written + 1] EXCEPT !.pc = "new"]]
        /\ UNCHANGED <<protocol, mode, old, syncLock, queue, exec, dedup, outcome, faults>>
    BY <1>3 DEF Write
  <2>2. written \in Nat /\ written + 1 \in Msgs /\ written' \in 0..MaxMsgs /\ old \in 0..written'
    BY <1>0, <2>1, DispatchAssumption DEF Bounds, Msgs
  <2>3. Calls'
    <3> DEFINE k == written + 1
               r == [call[k] EXCEPT !.pc = "new"]
    <3>1. k \in Msgs /\ call[k] \in CallType /\ call[k].pc = "none" /\ syncLock # k
      <4>1. k > written
        BY <2>2
      <4> QED BY <1>0, <2>2, <4>1 DEF Calls
    <3>2. r \in CallType /\ r.pc = "new"
      BY <3>1 DEF CallType
    <3>3. call' = [call EXCEPT ![k] = r] /\ syncLock' = syncLock
      BY <2>1
    <3>4. \A x \in Msgs : x > written' => x > written /\ x # k
      BY <2>1, <2>2 DEF Msgs
    <3> HIDE DEF k, r
    <3> QED BY <1>0, <3>1, <3>2, <3>3, <3>4 DEF Calls
  <2> QED BY <1>0, <2>1, <2>2, <2>3 DEF TypeInv, Bounds, Runs, Marks
<1>4. CASE Age
  <2>1. old' \in 0..written
    BY <1>0, <1>4, DispatchAssumption DEF Age, Bounds
  <2> QED BY <1>0, <1>4, <2>1 DEF Age, TypeInv, Bounds, Calls, Runs, Marks
<1>5. CASE Claim
  <2>1. /\ queue # <<>> /\ Acquire(Worker, Head(queue).msg, Head(queue).tries) /\ queue' = Tail(queue)
        /\ UNCHANGED <<protocol, mode, written, old, call, syncLock, answered, forgot, settled, behind>>
    BY <1>5 DEF Claim
  <2>2. Head(queue) \in Item /\ queue' \in Seq(Item) /\ Worker \in Executors
    BY <1>0, <2>1 DEF Executors
  <2>3. Runs' /\ Marks' /\ faults' \in 0..MaxFaults
    BY <1>0, <2>1, <2>2, AcquireTypes DEF Item
  <2> QED BY <1>0, <2>1, <2>2, <2>3 DEF TypeInv, Bounds, Calls
<1>6. ASSUME NEW m \in Msgs, Forget(m) PROVE TypeInv'
  <2>1. /\ dedup' = [dedup EXCEPT ![m] = "none"] /\ forgot' \in {forgot, forgot \cup {m}}
        /\ UNCHANGED <<protocol, mode, written, old, call, syncLock, queue, exec, answered, unguarded>>
        /\ UNCHANGED <<settled, behind, faults>>
    BY <1>6 DEF Forget
  <2>2. Marks'
    BY <1>0, <2>1 DEF Marks
  <2> QED BY <1>0, <2>1, <2>2 DEF TypeInv, Bounds, Calls, Runs
<1>7. CASE Crash
  <2>1. Bounds'
    BY <1>0, <1>7, FaultCounts DEF Crash, Bounds
  <2>2. Calls'
    <3> DEFINE r == [NoCall EXCEPT !.pc = "over"]
    <3>1. r \in CallType /\ r.pc = "over"
      <4>1. NoCall \in CallType
        BY DispatchAssumption DEF NoCall, CallType, Msgs
      <4> QED BY <4>1 DEF CallType
    <3>2. /\ call' = [c \in Msgs |-> IF c \in InHand THEN r ELSE call[c]]
          /\ syncLock' = Nobody /\ written' = written
      BY <1>7 DEF Crash
    <3> HIDE DEF r
    <3>3. \A c \in Msgs : call'[c].pc # "fetch" /\ (call[c].pc = "none" => call'[c].pc = "none")
      BY <3>1, <3>2 DEF InHand
    <3>4. \A c \in Msgs : c # Nobody
      BY DEF Msgs, Nobody
    <3> QED BY <1>0, <3>1, <3>2, <3>3, <3>4 DEF Calls
  <2>3. queue' \in Seq(Item)
    <3>1. queue' = queue \/ /\ exec[Worker] # Rest
                            /\ queue' = <<[msg |-> exec[Worker].msg, tries |-> exec[Worker].tries]>> \o queue
      BY <1>7 DEF Crash
    <3>2. exec[Worker] # Rest => [msg |-> exec[Worker].msg, tries |-> exec[Worker].tries] \in Item
      BY <1>0 DEF Runs, ExecType, Item, Executors
    <3>3. \A x \in Item : <<x>> \o queue \in Seq(Item)
      BY <1>0
    <3> QED BY ONLY <1>0, <3>1, <3>2, <3>3
  <2>4. Runs'
    BY <1>7, RestType DEF Crash, Runs
  <2>5. Marks'
    <3>1. settled' \subseteq Msgs
      <4>1. \A c \in Msgs : Waiting(c) \subseteq Msgs
        <5> SUFFICES ASSUME NEW c \in Msgs PROVE Waiting(c) \subseteq Msgs
          OBVIOUS
        <5>1. call[c].todo \in Seq(Msgs) /\ call[c].tasks \in Seq(Msgs)
          BY <1>0 DEF Calls, CallType
        <5> QED BY <5>1 DEF Waiting
      <4>2. settled \subseteq Msgs /\ InHand \subseteq Msgs
        BY <1>0 DEF Marks, InHand
      <4> DEFINE waiting == UNION {Waiting(c) : c \in InHand}
                 working == {exec[e].msg : e \in {x \in Msgs : exec[x] # Rest}}
      <4>3. waiting \subseteq Msgs
        BY <4>1, <4>2
      <4>4. working \subseteq Msgs
        BY <1>0 DEF Runs, Executors
      <4>5. settled' = settled \cup InHand \cup waiting \cup working
        BY <1>7 DEF Crash
      <4> HIDE DEF waiting, working
      <4> QED BY ONLY <4>2, <4>3, <4>4, <4>5
    <3>2. dedup' \in [Msgs -> {"none", "processing", "done"}] /\ forgot' \subseteq Msgs
        /\ UNCHANGED <<answered, unguarded, behind>>
      BY <1>0, <1>7 DEF Crash, Marks
    <3> QED BY <1>0, <3>1, <3>2 DEF Marks
  <2> QED BY <2>1, <2>2, <2>3, <2>4, <2>5 DEF TypeInv
<1>8. CASE UNCHANGED vars
  BY <1>0, <1>8 DEF vars, TypeInv, Bounds, Calls, Runs, Marks
<1> QED BY <1>1, <1>2, <1>3, <1>4, <1>5, <1>6, <1>7, <1>8 DEF Next

\* Handlers, queue, executors and marks keep their types, and only the holder of the sync lock
\* fetches: what is being processed, or waits for it, is always a message with attempts left.
THEOREM TypeCorrectness == Spec => []TypeOK
<1>1. TypeInv => TypeOK
  BY DEF TypeInv, Bounds, Calls, Runs, Marks, TypeOK, Item, ExecType
<1> QED BY <1>1, TypeInit, TypeStep, PTL DEF Spec

=============================================================================
