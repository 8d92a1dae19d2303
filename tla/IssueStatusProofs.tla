-------------------------- MODULE IssueStatusProofs --------------------------
(***************************************************************************)
(* Proofs about the deliveries of IssueStatus, for any issues, users and   *)
(* passes and whatever fails: where a notification that nobody sees is,    *)
(* what sent means, and that what was read stays read.                     *)
(***************************************************************************)
EXTENDS IssueStatus, FiniteSetTheorems, SequenceTheorems, WellFoundedInduction, TLAPS

\* A finite set becomes a sequence of its elements.
LEMMA SetToSeqType ==
  ASSUME NEW S, IsFiniteSet(S)
  PROVE  SetToSeq(S) \in [1..Cardinality(S) -> S] /\ Cardinality(S) \in Nat
<1>1. Cardinality(S) \in Nat /\ ExistsBijection(1..Cardinality(S), S)
  BY FS_CardinalityType
<1>2. PICK f : f \in Bijection(1..Cardinality(S), S)
  BY <1>1 DEF ExistsBijection
<1>3. f \in [1..Cardinality(S) -> S] /\ IsInjective(f)
  BY <1>2 DEF Bijection, Injection, IsInjective
<1> QED BY <1>1, <1>3 DEF SetToSeq

JobPcs == {"none", "queued", "send", "mark", "fail", "done", "gave_up", "crashed"}
JobType == [pc : JobPcs, tries : Nat]

Fields(d) == [issue |-> d.issue, who |-> d.who, progress |-> d.progress, status |-> d.status]

\* There is a task and a count for each delivery; what a delivery tells is left open.
Shape ==
  /\ \E S : delivery \in Seq(S)
  /\ \A n \in Deliveries : delivery[n] = Fields(delivery[n])
  /\ job \in Seq(JobType) /\ Len(job) = Len(delivery)
  /\ sent \in Seq(Nat) /\ Len(sent) = Len(delivery)

\* A task that is about to mark its delivery has sent it.
MarkMeansTold == \A n \in Deliveries : job[n].pc = "mark" => sent[n] > 0

StatusInv == Shape /\ HiddenIsHandled /\ MarkMeansTold /\ SentMeansTold

LEMMA StatusInit == Init => StatusInv
<1> SUFFICES ASSUME Init PROVE StatusInv
  OBVIOUS
<1>1. delivery = <<>> /\ job = <<>> /\ sent = <<>>
  BY DEF Init
<1>2. Deliveries = {} /\ delivery \in Seq({})
  BY <1>1 DEF Deliveries
<1> QED BY <1>1, <1>2 DEF StatusInv, Shape, HiddenIsHandled, MarkMeansTold, SentMeansTold

\* The deliveries are numbered.
LEMMA Numbered ==
  ASSUME Shape
  PROVE  /\ Len(delivery) \in Nat /\ Deliveries = 1..Len(delivery)
         /\ DOMAIN job = Deliveries /\ DOMAIN sent = Deliveries
         /\ \A n \in Deliveries : job[n] \in JobType /\ sent[n] \in Nat
<1>1. PICK S : delivery \in Seq(S)
  BY DEF Shape
<1>2. Len(delivery) \in Nat /\ DOMAIN delivery = 1..Len(delivery)
  BY <1>1
<1>3. /\ job \in Seq(JobType) /\ Len(job) = Len(delivery)
      /\ sent \in Seq(Nat) /\ Len(sent) = Len(delivery)
  BY DEF Shape
<1>4. DOMAIN job = 1..Len(job) /\ DOMAIN sent = 1..Len(sent)
  BY <1>3
<1>5. \A n \in 1..Len(delivery) : job[n] \in JobType /\ sent[n] \in Nat
  BY <1>3, ElementOfSeq
<1> QED BY <1>2, <1>3, <1>4, <1>5 DEF Deliveries

LEMMA StatusKept ==
  ASSUME StatusInv, UNCHANGED <<delivery, job, sent>>
  PROVE  StatusInv'
BY DEF StatusInv, Shape, HiddenIsHandled, MarkMeansTold, SentMeansTold, Deliveries, Running

\* A step of one task, or of the user on one delivery.
LEMMA OneDelivery ==
  ASSUME Shape, NEW n \in Deliveries,
         \/ job' = job
         \/ \E j \in JobType : job' = [job EXCEPT ![n] = j],
         delivery' = delivery \/ \E s : delivery' = [delivery EXCEPT ![n].status = s],
         sent' = sent \/ sent' = [sent EXCEPT ![n] = @ + 1]
  PROVE  /\ Shape' /\ Deliveries' = Deliveries
         /\ \A k \in Deliveries \ {n} :
              job'[k] = job[k] /\ sent'[k] = sent[k] /\ delivery'[k] = delivery[k]
<1>0. n \in 1..Len(delivery) /\ n \in DOMAIN job /\ n \in DOMAIN sent
  BY Numbered
<1>1. PICK S : delivery \in Seq(S)
  BY DEF Shape
<1>2. /\ \E T : delivery' \in Seq(T)
      /\ Len(delivery') = Len(delivery) /\ DOMAIN delivery' = DOMAIN delivery
      /\ \A k \in Deliveries \ {n} : delivery'[k] = delivery[k]
      /\ delivery'[n] = Fields(delivery'[n])
  <2>1. CASE delivery' = delivery
    BY <1>1, <2>1 DEF Shape, Fields
  <2>2. ASSUME NEW s, delivery' = [delivery EXCEPT ![n].status = s]
        PROVE  /\ \E T : delivery' \in Seq(T)
               /\ Len(delivery') = Len(delivery) /\ DOMAIN delivery' = DOMAIN delivery
               /\ \A k \in Deliveries \ {n} : delivery'[k] = delivery[k]
               /\ delivery'[n] = Fields(delivery'[n])
    <3> DEFINE d == [delivery[n] EXCEPT !.status = s]
    <3>1. delivery' = [delivery EXCEPT ![n] = d]
      BY <2>2
    <3>2. delivery \in Seq(S \cup {d})
      BY <1>1, SeqMonotonic
    <3>3. d = Fields(d)
      <4>1. delivery[n] = [issue |-> delivery[n].issue, who |-> delivery[n].who,
                           progress |-> delivery[n].progress, status |-> delivery[n].status]
        BY DEF Shape, Fields
      <4>2. d = [issue |-> delivery[n].issue, who |-> delivery[n].who,
                 progress |-> delivery[n].progress, status |-> s]
        BY <4>1
      <4> HIDE DEF d
      <4> QED BY <4>2 DEF Fields
    <3> HIDE DEF d
    <3>4. delivery' \in Seq(S \cup {d}) /\ Len(delivery') = Len(delivery)
      BY <1>0, <3>1, <3>2, ExceptSeq
    <3>5. delivery'[n] = d /\ \A k \in Deliveries \ {n} : delivery'[k] = delivery[k]
      BY <3>1 DEF Deliveries
    <3>6. DOMAIN delivery' = DOMAIN delivery
      BY <3>1
    <3> QED BY <3>3, <3>4, <3>5, <3>6
  <2> QED BY <2>1, <2>2
<1>3. /\ job' \in Seq(JobType) /\ Len(job') = Len(job)
      /\ \A k \in Deliveries \ {n} : job'[k] = job[k]
  <2>1. job \in Seq(JobType) /\ n \in 1..Len(job)
    BY <1>0 DEF Shape
  <2> QED BY <2>1, Numbered, ExceptSeq
<1>4. /\ sent' \in Seq(Nat) /\ Len(sent') = Len(sent)
      /\ \A k \in Deliveries \ {n} : sent'[k] = sent[k]
  <2>1. sent \in Seq(Nat) /\ n \in 1..Len(sent)
    BY <1>0 DEF Shape
  <2>2. PICK e \in Nat : e = sent[n] + 1
    BY Numbered
  <2>3. sent' = sent \/ sent' = [sent EXCEPT ![n] = e]
    BY <2>2
  <2>4. /\ [sent EXCEPT ![n] = e] \in Seq(Nat)
        /\ Len([sent EXCEPT ![n] = e]) = Len(sent)
        /\ \A k \in Deliveries \ {n} : [sent EXCEPT ![n] = e][k] = sent[k]
    BY <2>1, <2>2, Numbered, ExceptSeq
  <2> QED BY <2>1, <2>3, <2>4
<1> QED BY <1>2, <1>3, <1>4 DEF Shape, Deliveries

\* What is told when it is created: only a push user's notification waits for a task.
Tells(d, i, v) ==
  /\ d.issue = i /\ d.progress = v /\ <<i, d.who>> \in subs /\ d.who \in Users
  /\ d.status \in {"pending", "available"} /\ (d.status = "pending" => d.who \in PushUsers)

\* The notifications of an issue, one for each subscriber.
LEMMA NoticesType ==
  ASSUME NEW i, NEW v
  PROVE  \E k \in Nat :
           /\ DOMAIN Notices(i, v) = 1..k
           /\ \E T : Notices(i, v) \in Seq(T)
           /\ Len(Notices(i, v)) = k
           /\ \A n \in 1..k : /\ Notices(i, v)[n] = Fields(Notices(i, v)[n])
                              /\ Tells(Notices(i, v)[n], i, v)
<1> DEFINE S == {u \in Users : <<i, u>> \in subs}
           order == SetToSeq(S)
           k == Cardinality(S)
           new == [n \in 1..k |->
                    [issue |-> i, who |-> order[n], progress |-> v,
                     status |-> IF order[n] \in PushUsers THEN "pending" ELSE "available"]]
<1>1. IsFiniteSet(S)
  BY IssueStatusAssumption, FS_Subset
<1>2. k \in Nat /\ DOMAIN order = 1..k /\ \A n \in 1..k : order[n] \in S
  BY <1>1, SetToSeqType
<1>3. Notices(i, v) = new
  BY <1>2 DEF Notices
<1> HIDE DEF order, k
<1>4. \A n \in 1..k : new[n] = Fields(new[n]) /\ Tells(new[n], i, v)
  BY <1>2 DEF Fields, Tells
<1>5. new \in Seq({new[n] : n \in 1..k}) /\ Len(new) = k
  BY <1>2
<1> HIDE DEF new
<1> QED BY <1>2, <1>3, <1>4, <1>5

\* A change adds deliveries at the end.
LEMMA MoreDeliveries ==
  ASSUME Shape, NEW i, NEW v,
         delivery' = delivery \o Notices(i, v),
         job' = job \o [n \in DOMAIN Notices(i, v) |-> [pc |-> "none", tries |-> 0]],
         sent' = sent \o [n \in DOMAIN Notices(i, v) |-> 0]
  PROVE  /\ Shape'
         /\ \A n \in Deliveries :
              n \in Deliveries' /\ job'[n] = job[n] /\ sent'[n] = sent[n] /\ delivery'[n] = delivery[n]
         /\ \A n \in Deliveries' \ Deliveries :
              Tells(delivery'[n], i, v) /\ job'[n] = [pc |-> "none", tries |-> 0]
         /\ \A n \in DOMAIN Notices(i, v) :
              /\ Len(delivery) + n \in Deliveries'
              /\ delivery'[Len(delivery) + n] = Notices(i, v)[n] /\ Tells(Notices(i, v)[n], i, v)
<1>1. PICK k \in Nat :
           /\ DOMAIN Notices(i, v) = 1..k
           /\ \E T : Notices(i, v) \in Seq(T)
           /\ Len(Notices(i, v)) = k
           /\ \A n \in 1..k : /\ Notices(i, v)[n] = Fields(Notices(i, v)[n])
                              /\ Tells(Notices(i, v)[n], i, v)
  BY NoticesType
<1> DEFINE new == Notices(i, v)
           jobs == [n \in 1..k |-> [pc |-> "none", tries |-> 0]]
           zeros == [n \in 1..k |-> 0]
           len == Len(delivery)
<1>2. len \in Nat /\ Deliveries = 1..len /\ Len(job) = len /\ Len(sent) = len
  BY Numbered DEF Shape
<1>3. job' = job \o jobs /\ sent' = sent \o zeros /\ delivery' = delivery \o new
  BY <1>1
<1>4. PICK S : delivery \in Seq(S)
  BY DEF Shape
<1>5. PICK T : new \in Seq(T)
  BY <1>1
<1>6. delivery \in Seq(S \cup T) /\ new \in Seq(S \cup T)
  BY <1>4, <1>5, SeqMonotonic
<1>7. DOMAIN new = 1..k /\ \A n \in 1..k : new[n] = Fields(new[n]) /\ Tells(new[n], i, v)
  BY <1>1
<1>0. Len(new) = k
  BY <1>1
<1> HIDE DEF new
<1>8. /\ delivery' \in Seq(S \cup T) /\ Len(delivery') = len + k
      /\ \A n \in 1..(len + k) : delivery'[n] = IF n <= len THEN delivery[n] ELSE new[n - len]
  <2>1. /\ delivery \o new \in Seq(S \cup T)
        /\ Len(delivery \o new) = Len(delivery) + Len(new)
        /\ \A n \in 1..(Len(delivery) + Len(new)) :
             (delivery \o new)[n] = IF n <= Len(delivery) THEN delivery[n] ELSE new[n - Len(delivery)]
    BY <1>6, ConcatProperties
  <2> QED BY <1>0, <1>3, <2>1
<1>9. /\ job' \in Seq(JobType) /\ Len(job') = len + k
      /\ \A n \in 1..(len + k) : job'[n] = IF n <= len THEN job[n] ELSE jobs[n - len]
  <2>1. jobs \in Seq(JobType) /\ Len(jobs) = k
    BY DEF JobType, JobPcs
  <2>2. job \in Seq(JobType)
    BY DEF Shape
  <2> HIDE DEF jobs, len
  <2>3. /\ job \o jobs \in Seq(JobType) /\ Len(job \o jobs) = len + k
        /\ \A n \in 1..(len + k) : (job \o jobs)[n] = IF n <= len THEN job[n] ELSE jobs[n - len]
    <3>1. /\ job \o jobs \in Seq(JobType) /\ Len(job \o jobs) = Len(job) + Len(jobs)
          /\ \A n \in 1..(Len(job) + Len(jobs)) :
               (job \o jobs)[n] = IF n <= Len(job) THEN job[n] ELSE jobs[n - Len(job)]
      BY <2>1, <2>2, ConcatProperties
    <3> QED BY <1>2, <2>1, <3>1
  <2> QED BY <1>3, <2>3
<1>10. /\ sent' \in Seq(Nat) /\ Len(sent') = len + k
       /\ \A n \in 1..(len + k) : sent'[n] = IF n <= len THEN sent[n] ELSE zeros[n - len]
  <2>1. zeros \in Seq(Nat) /\ Len(zeros) = k
    OBVIOUS
  <2>2. sent \in Seq(Nat)
    BY DEF Shape
  <2> HIDE DEF zeros, len
  <2>3. /\ sent \o zeros \in Seq(Nat) /\ Len(sent \o zeros) = len + k
        /\ \A n \in 1..(len + k) : (sent \o zeros)[n] = IF n <= len THEN sent[n] ELSE zeros[n - len]
    <3>1. /\ sent \o zeros \in Seq(Nat) /\ Len(sent \o zeros) = Len(sent) + Len(zeros)
          /\ \A n \in 1..(Len(sent) + Len(zeros)) :
               (sent \o zeros)[n] = IF n <= Len(sent) THEN sent[n] ELSE zeros[n - Len(sent)]
      BY <2>1, <2>2, ConcatProperties
    <3> QED BY <1>2, <2>1, <3>1
  <2> QED BY <1>3, <2>3
<1>11. Deliveries' = 1..(len + k)
  <2>1. DOMAIN delivery' = 1..Len(delivery')
    BY <1>8
  <2> QED BY <1>8, <2>1 DEF Deliveries
<1>12. \A n \in 1..(len + k) : n \notin Deliveries => ~(n <= len) /\ n - len \in 1..k
  <2> HIDE DEF len
  <2> QED BY <1>2
<1>13. \A n \in Deliveries : n \in 1..(len + k) /\ n <= len
  BY <1>1, <1>2
<1>14. \A n \in 1..k : jobs[n] = [pc |-> "none", tries |-> 0]
  OBVIOUS
<1> HIDE DEF jobs, zeros, len
<1>15. \A n \in Deliveries :
         n \in Deliveries' /\ job'[n] = job[n] /\ sent'[n] = sent[n] /\ delivery'[n] = delivery[n]
  BY <1>8, <1>9, <1>10, <1>11, <1>13
<1>16. \A n \in Deliveries' \ Deliveries :
         /\ Tells(delivery'[n], i, v) /\ job'[n] = [pc |-> "none", tries |-> 0]
         /\ delivery'[n] = Fields(delivery'[n])
  <2> SUFFICES ASSUME NEW n \in 1..(len + k), n \notin Deliveries
               PROVE  /\ Tells(delivery'[n], i, v) /\ job'[n] = [pc |-> "none", tries |-> 0]
                      /\ delivery'[n] = Fields(delivery'[n])
    BY <1>11
  <2>1. n - len \in 1..k /\ delivery'[n] = new[n - len] /\ job'[n] = jobs[n - len]
    BY <1>8, <1>9, <1>12
  <2> QED BY <1>7, <1>14, <2>1
<1>17. \A n \in Deliveries' : delivery'[n] = Fields(delivery'[n])
  BY <1>15, <1>16 DEF Shape
<1>18. Shape'
  BY <1>8, <1>9, <1>10, <1>17 DEF Shape
<1>19. \A n \in 1..k : ~(len + n <= len) /\ len + n \in 1..(len + k) /\ (len + n) - len = n
  BY <1>2 DEF len
<1>20. \A n \in 1..k : len + n \in Deliveries' /\ delivery'[len + n] = new[n]
  BY <1>8, <1>11, <1>19
<1> QED BY <1>7, <1>15, <1>16, <1>18, <1>20 DEF new, len

-----------------------------------------------------------------------------
(* The steps                                                               *)

LEMMA StatusStep ==
  ASSUME StatusInv, [Next]_vars
  PROVE  StatusInv'
<1> USE DEF stored, Job, Mark
<1>0. Shape /\ HiddenIsHandled /\ MarkMeansTold /\ SentMeansTold
  BY DEF StatusInv
<1>00. \A n \in Deliveries : job[n].tries \in Nat /\ job[n].tries + 1 \in Nat
  BY <1>0, Numbered DEF JobType
<1>1. CASE \/ \E x \in Records : Edit(x) \/ \E u \in Users : Match(u, x)
           \/ \E u \in Users : Link(u) \/ \E i \in Issues : Submit(u, i)
           \/ \E p \in Passes : Begin(p) \/ Fetch(p) \/ PassCrash(p)
           \/ UNCHANGED vars
  BY <1>1, StatusKept DEF Edit, Match, Link, Submit, Begin, Fetch, PassCrash, vars
<1>2. ASSUME NEW p \in Passes, Apply(p) PROVE StatusInv'
  <2>1. CASE UNCHANGED <<delivery, job, sent>>
    BY <2>1, StatusKept
  <2>2. ASSUME NEW i, NEW v,
               delivery' = delivery \o Notices(i, v),
               job' = job \o [n \in DOMAIN Notices(i, v) |-> [pc |-> "none", tries |-> 0]],
               sent' = sent \o [n \in DOMAIN Notices(i, v) |-> 0]
        PROVE  StatusInv'
    <3>1. /\ Shape'
          /\ \A n \in Deliveries :
               n \in Deliveries' /\ job'[n] = job[n] /\ sent'[n] = sent[n] /\ delivery'[n] = delivery[n]
          /\ \A n \in Deliveries' \ Deliveries :
               Tells(delivery'[n], i, v) /\ job'[n] = [pc |-> "none", tries |-> 0]
      BY <1>0, <2>2, MoreDeliveries
    <3>2. \A n \in Deliveries' \ Deliveries :
               delivery'[n].status \in {"pending", "available"} /\ job'[n].pc = "none"
      <4>1. \A d : Tells(d, i, v) => d.status \in {"pending", "available"}
        BY DEF Tells
      <4>2. [pc |-> "none", tries |-> 0].pc = "none"
        OBVIOUS
      <4> QED BY <3>1, <4>1, <4>2
    <3>3. \A n \in Deliveries' : n \in Deliveries \/ job'[n].pc = "none"
      BY <3>2
    <3>4. HiddenIsHandled' /\ SentMeansTold'
      BY <1>0, <3>1, <3>2 DEF HiddenIsHandled, SentMeansTold, Running
    <3>5. MarkMeansTold'
      BY <1>0, <3>1, <3>3 DEF MarkMeansTold
    <3> QED BY <3>1, <3>4, <3>5 DEF StatusInv
  <2>3. \/ UNCHANGED <<delivery, job, sent>>
        \/ \E i, v : /\ delivery' = delivery \o Notices(i, v)
                     /\ job' = job \o [n \in DOMAIN Notices(i, v) |-> [pc |-> "none", tries |-> 0]]
                     /\ sent' = sent \o [n \in DOMAIN Notices(i, v) |-> 0]
    BY <1>2 DEF Apply
  <2> QED BY <2>1, <2>2, <2>3
<1>3. ASSUME NEW p \in Passes, Publish(p) PROVE StatusInv'
  <2>1. delivery' = delivery /\ sent' = sent
    BY <1>3 DEF Publish
  <2>2. PICK n : job' = job \/ job' = [job EXCEPT ![n].pc = "queued"]
    BY <1>3 DEF Publish
  <2>3. CASE n \in Deliveries /\ job' # job
    <3>1. job[n] \in JobType
      BY <1>0, <2>3, Numbered
    <3>2. \E j \in JobType : job' = [job EXCEPT ![n] = j]
      BY <2>2, <2>3, <3>1 DEF JobType, JobPcs
    <3>3. n \in DOMAIN job
      BY <1>0, <2>3, Numbered
    <3>4. job'[n].pc = "queued"
      BY <2>2, <2>3, <3>1, <3>3 DEF JobType
    <3>5. /\ Shape' /\ Deliveries' = Deliveries
          /\ \A k \in Deliveries \ {n} :
               job'[k] = job[k] /\ sent'[k] = sent[k] /\ delivery'[k] = delivery[k]
      BY <1>0, <2>1, <2>3, <3>2, OneDelivery
    <3> QED BY <1>0, <2>1, <3>4, <3>5 DEF StatusInv, HiddenIsHandled, MarkMeansTold, SentMeansTold, Running
  <2>4. CASE n \notin Deliveries \/ job' = job
    <3>1. DOMAIN job = Deliveries /\ job \in [1..Len(job) -> JobType]
      BY <1>0, Numbered DEF Shape
    <3>2. n \notin Deliveries => [job EXCEPT ![n].pc = "queued"] = job
      BY <3>1
    <3> QED BY <2>1, <2>2, <2>4, <3>2, StatusKept
  <2> QED BY <2>3, <2>4
<1>4. ASSUME NEW n \in Deliveries, Deliver(n) \/ JobCrash(n) \/ Acknowledge(n)
      PROVE  StatusInv'
  <2>1. \/ job' = job
        \/ \E pc \in JobPcs, t \in Nat : job' = [job EXCEPT ![n] = [pc |-> pc, tries |-> t]]
    BY <1>00, <1>4 DEF Deliver, Take, Send, MarkSent, MarkFailed, JobCrash, Acknowledge, Again, JobPcs
  <2>2. delivery' = delivery \/ \E s : delivery' = [delivery EXCEPT ![n].status = s]
    BY <1>4 DEF Deliver, Take, Send, MarkSent, MarkFailed, JobCrash, Acknowledge
  <2>3. sent' = sent \/ sent' = [sent EXCEPT ![n] = @ + 1]
    BY <1>4 DEF Deliver, Take, Send, MarkSent, MarkFailed, JobCrash, Acknowledge
  <2>4. /\ Shape' /\ Deliveries' = Deliveries
        /\ \A k \in Deliveries \ {n} :
             job'[k] = job[k] /\ sent'[k] = sent[k] /\ delivery'[k] = delivery[k]
    <3>1. \A pc \in JobPcs, t \in Nat : [pc |-> pc, tries |-> t] \in JobType
      BY DEF JobType
    <3> QED BY <1>0, <2>1, <2>2, <2>3, <3>1, OneDelivery
  <2>5. /\ n \in DOMAIN job /\ n \in DOMAIN sent /\ n \in DOMAIN delivery
        /\ sent[n] \in Nat
        /\ \A s : [delivery EXCEPT ![n].status = s][n].status = s
    <3>1. n \in DOMAIN job /\ n \in DOMAIN sent /\ n \in DOMAIN delivery /\ sent[n] \in Nat
      BY <1>0, Numbered DEF Deliveries
    <3>2. delivery[n] = [issue |-> delivery[n].issue, who |-> delivery[n].who,
                         progress |-> delivery[n].progress, status |-> delivery[n].status]
      BY <1>0 DEF Shape, Fields
    <3>3. \A s : [delivery[n] EXCEPT !.status = s].status = s
      BY <3>2
    <3> QED BY <3>1, <3>3
  <2>6. /\ delivery'[n].status = "processing" =>
             job'[n].pc \in {"send", "mark", "fail", "queued", "gave_up", "crashed"}
        /\ job'[n].pc = "mark" => sent'[n] > 0
        /\ delivery'[n].status = "sent" => sent'[n] > 0
    <3>1. /\ delivery[n].status = "processing" =>
               job[n].pc \in {"send", "mark", "fail", "queued", "gave_up", "crashed"}
          /\ job[n].pc = "mark" => sent[n] > 0
          /\ delivery[n].status = "sent" => sent[n] > 0
      BY <1>0 DEF HiddenIsHandled, MarkMeansTold, SentMeansTold, Running
    <3>8. \A s : delivery' = [delivery EXCEPT ![n].status = s] => delivery'[n].status = s
      BY <2>5
    <3>9. \A pc, t : job' = [job EXCEPT ![n] = [pc |-> pc, tries |-> t]] => job'[n].pc = pc
      BY <2>5
    <3>2. CASE Take(n)
      <4>1. CASE Seen(n) /\ Job(n, "done", job[n].tries) /\ UNCHANGED delivery
        <5>1. job'[n].pc = "done" /\ delivery' = delivery /\ sent' = sent
          BY <3>2, <3>9, <4>1 DEF Take
        <5> QED BY <3>1, <4>1, <5>1 DEF Seen
      <4>2. CASE /\ Mark(n, "processing")
                 /\ \E pc \in {"send", "fail"} : Job(n, pc, job[n].tries)
        <5>1. job'[n].pc \in {"send", "fail"} /\ delivery'[n].status = "processing"
          BY <3>8, <3>9, <4>2
        <5> QED BY <5>1
      <4> QED BY <3>2, <4>1, <4>2 DEF Take
    <3>3. CASE Send(n)
      <4>1. job'[n].pc \in {"mark", "fail"} /\ delivery' = delivery
        BY <3>3, <3>9 DEF Send, stored
      <4>2. job'[n].pc = "mark" => sent' = [sent EXCEPT ![n] = @ + 1]
        BY <3>3, <3>9 DEF Send
      <4>3. sent' = sent \/ sent' = [sent EXCEPT ![n] = @ + 1]
        BY <3>3 DEF Send
      <4> QED BY <2>5, <3>1, <4>1, <4>2, <4>3
    <3>4. CASE MarkSent(n)
      <4>1. job[n].pc = "mark" /\ sent' = sent
        BY <3>4 DEF MarkSent
      <4>2. CASE Mark(n, "sent") /\ Job(n, "done", job[n].tries)
        <5>1. job'[n].pc = "done" /\ delivery'[n].status = "sent"
          BY <3>8, <3>9, <4>2
        <5> QED BY <3>1, <4>1, <5>1
      <4>3. CASE Again(n) /\ UNCHANGED delivery
        <5>1. job'[n].pc \in {"queued", "gave_up"}
          BY <3>9, <4>3 DEF Again
        <5> QED BY <3>1, <4>1, <4>3, <5>1
      <4> QED BY <3>4, <4>2, <4>3 DEF MarkSent
    <3>5. CASE MarkFailed(n)
      <4>1. job'[n].pc \in {"queued", "gave_up"} /\ sent' = sent
        BY <3>5, <3>9 DEF MarkFailed, Again
      <4>2. delivery'[n].status = "pending" \/ delivery' = delivery
        BY <3>5, <3>8 DEF MarkFailed
      <4> QED BY <3>1, <4>1, <4>2
    <3>6. CASE JobCrash(n)
      BY <2>5, <3>1, <3>6 DEF JobCrash
    <3>7. CASE Acknowledge(n)
      <4>1. job' = job /\ sent' = sent /\ delivery'[n].status = "read"
        BY <3>7, <3>8 DEF Acknowledge
      <4> QED BY <3>1, <4>1
    <3> QED BY <1>4, <3>2, <3>3, <3>4, <3>5, <3>6, <3>7 DEF Deliver
  <2> QED BY <1>0, <2>4, <2>6 DEF StatusInv, HiddenIsHandled, MarkMeansTold, SentMeansTold, Running
<1> QED
  BY <1>1, <1>2, <1>3, <1>4 DEF Next, Reconcile

LEMMA StatusInvHolds == Spec => []StatusInv
BY StatusInit, StatusStep, PTL DEF Spec

\* A notification that is in nobody's list is being sent, waits for its next attempt or was left
\* behind by a crash or the last retry: no other way leads out of the sight of the user.
THEOREM HiddenIsHandledHolds == Spec => []HiddenIsHandled
<1>1. StatusInv => HiddenIsHandled
  BY DEF StatusInv
<1> QED BY <1>1, StatusInvHolds, PTL

\* A notification counts as sent only after WeCom has handed it to the user.
THEOREM SentMeansToldHolds == Spec => []SentMeansTold
<1>1. StatusInv => SentMeansTold
  BY DEF StatusInv
<1> QED BY <1>1, StatusInvHolds, PTL

\* What the user has read stays read, unless an attempt to send it was under way at the time.
THEOREM ReadStaysReadHolds == Spec => ReadStaysRead
<1>1. StatusInv /\ [Next]_vars
        => [\A n \in Deliveries : delivery[n].status = "read" /\ ~Running(n)
              => delivery'[n].status = "read"]_vars
  <2> SUFFICES ASSUME StatusInv, Next, NEW k \in Deliveries, delivery[k].status = "read", ~Running(k)
               PROVE  delivery'[k].status = "read"
    OBVIOUS
  <2> USE DEF stored
  <2>0. Shape
    BY DEF StatusInv
  <2>1. ASSUME NEW p \in Passes, Apply(p) PROVE delivery'[k].status = "read"
    <3>1. ASSUME NEW i, NEW v,
                 delivery' = delivery \o Notices(i, v),
                 job' = job \o [n \in DOMAIN Notices(i, v) |-> [pc |-> "none", tries |-> 0]],
                 sent' = sent \o [n \in DOMAIN Notices(i, v) |-> 0]
          PROVE  delivery'[k] = delivery[k]
      BY <2>0, <3>1, MoreDeliveries
    <3>2. \/ delivery' = delivery
          \/ \E i, v : /\ delivery' = delivery \o Notices(i, v)
                       /\ job' = job \o [n \in DOMAIN Notices(i, v) |-> [pc |-> "none", tries |-> 0]]
                       /\ sent' = sent \o [n \in DOMAIN Notices(i, v) |-> 0]
      BY <2>1 DEF Apply
    <3> QED BY <3>1, <3>2
  <2>2. ASSUME NEW n \in Deliveries, Take(n) \/ MarkSent(n) \/ MarkFailed(n) \/ Acknowledge(n)
        PROVE  delivery'[k].status = "read"
    <3>1. CASE n = k
      BY <2>2, <3>1 DEF Take, Seen, MarkSent, MarkFailed, Acknowledge, Running
    <3>2. CASE n # k
      <4>1. delivery' = delivery \/ \E s : delivery' = [delivery EXCEPT ![n].status = s]
        BY <2>2 DEF Take, MarkSent, MarkFailed, Acknowledge, Mark
      <4> QED BY <3>2, <4>1 DEF Deliveries
    <3> QED BY <3>1, <3>2
  <2>3. \/ \E p \in Passes : Apply(p)
        \/ \E n \in Deliveries : Take(n) \/ MarkSent(n) \/ MarkFailed(n) \/ Acknowledge(n)
        \/ UNCHANGED delivery
    BY DEF Next, Reconcile, Deliver, Edit, Match, Link, Submit, Begin, Fetch, Publish, PassCrash,
           Send, JobCrash
  <2> QED BY <2>1, <2>2, <2>3
<1> QED BY <1>1, StatusInvHolds, PTL DEF Spec, ReadStaysRead

-----------------------------------------------------------------------------
(***************************************************************************)
(* The types.  Tasks are queued by the passes, from the ids they collected *)
(* of what they have created for push users.                               *)
(***************************************************************************)

\* What a set of numbers has, it has a smallest one of.
LEMMA SmallestIn ==
  ASSUME NEW S \in SUBSET Nat, S # {}
  PROVE  Smallest(S) \in S
<1> DEFINE R == {ss \in Nat \X Nat : ss[1] < ss[2]}
<1>1. IsWellFoundedOn(R, Nat)
  <2>1. R = OpToRel(<, Nat)
    BY DEF OpToRel
  <2> QED BY <2>1, NatLessThanWellFounded
<1>2. PICK x \in S : \A y \in S : ~(<<y, x>> \in R)
  BY <1>1, WFMin
<1>3. \A y \in S : x <= y
  <2> SUFFICES ASSUME NEW y \in S, ~(x <= y) PROVE FALSE
    OBVIOUS
  <2>1. <<y, x>> \in Nat \X Nat /\ <<y, x>>[1] < <<y, x>>[2]
    OBVIOUS
  <2> QED BY <1>2, <2>1
<1> QED BY <1>3 DEF Smallest

Statuses == {"available", "pending", "processing", "sent", "read"}
NoticeType == [issue: Issues, who: Users, progress: Progresses \ {None}, status: Statuses]
PassType == [pc : {"idle", "fetch", "apply", "publish", "over"}, todo : SUBSET Issues,
             issue : Issues \cup {None}, seen : Progresses \cup {None}, out : SUBSET Nat]

\* The deliveries that may have a task.
ForPush == {n \in Deliveries : delivery[n].who \in PushUsers}

\* A pass works on issues of F and has collected deliveries of P.
PassOK(q, F, P) ==
  /\ q \in PassType /\ q.todo \subseteq F /\ q.out \subseteq P
  /\ q.pc = "fetch" => q.todo # {}
  /\ q.pc = "apply" => q.issue \in F
  /\ q.pc = "publish" => q.out # {}

TableTypes ==
  /\ record \in [Records -> Progresses \cup {None}]
  /\ snapshot \in [Issues -> Progresses \cup {None, Unknown}]
  /\ subs \subseteq {i \in Issues : snapshot[i] # Unknown} \X Users
  /\ cand \in [Users -> [record: Records \cup {None}, progress: Progresses \cup {None}]]

NoticeTypes == \A n \in Deliveries : delivery[n] \in NoticeType

TaskTypes ==
  \A n \in Deliveries : /\ job[n].pc # "none" => delivery[n].who \in PushUsers
                        /\ job[n].tries \in 0..MaxRetries

PassTypes == pass \in [Passes -> PassType] /\ \A p \in Passes : PassOK(pass[p], Followed, ForPush)

TypeInv == TableTypes /\ NoticeTypes /\ TaskTypes /\ PassTypes

LEMMA TypeInit == Init => TypeInv
<1> SUFFICES ASSUME Init PROVE TypeInv
  OBVIOUS
<1>1. (CHOOSE v \in Progresses : v # None) \in Progresses
  BY IssueStatusAssumption
<1>2. record \in [Records -> Progresses \cup {None}]
  BY <1>1 DEF Init
<1>3. TableTypes
  BY <1>2 DEF Init, TableTypes, NullCand
<1>4. Deliveries = {}
  BY DEF Init, Deliveries
<1>5. NullPass \in PassType /\ PassOK(NullPass, Followed, ForPush)
  BY DEF NullPass, PassType, PassOK
<1>6. PassTypes
  BY <1>5 DEF Init, PassTypes
<1> QED BY <1>3, <1>4, <1>6 DEF TypeInv, NoticeTypes, TaskTypes

\* Where a pass goes after an issue.
LEMMA AfterOK ==
  ASSUME NEW p \in Passes, NEW q \in PassType, NEW F, NEW P, q.todo \subseteq F, q.out \subseteq P
  PROVE  PassOK(After(p, q), F, P) /\ PassOK(Over(p), F, P)
<1>1. PassOK(Over(p), F, P)
  BY DEF Over, NullPass, PassOK, PassType
<1>2. CASE q.todo # {}
  <2>1. After(p, q) = [q EXCEPT !.pc = "fetch", !.issue = None, !.seen = None]
    BY <1>2 DEF After
  <2>2. /\ After(p, q) \in PassType
        /\ After(p, q).todo = q.todo /\ After(p, q).out = q.out /\ After(p, q).pc = "fetch"
    BY <2>1 DEF PassType
  <2> QED BY <1>1, <1>2, <2>2 DEF PassOK
<1>3. CASE q.todo = {} /\ p \in Beats /\ q.out # {}
  <2>1. After(p, q) = [NullPass EXCEPT !.pc = "publish", !.out = q.out]
    BY <1>3 DEF After
  <2>2. /\ After(p, q) \in PassType
        /\ After(p, q).todo = {} /\ After(p, q).out = q.out /\ After(p, q).pc = "publish"
    BY <2>1 DEF PassType, NullPass
  <2> QED BY <1>1, <1>3, <2>2 DEF PassOK
<1>4. CASE q.todo = {} /\ ~(p \in Beats /\ q.out # {})
  BY <1>1, <1>4 DEF After
<1> QED BY <1>2, <1>3, <1>4

\* A pass stays in order while more is followed and more is created.
LEMMA PassesKept ==
  ASSUME PassTypes, Followed \subseteq Followed', ForPush \subseteq ForPush',
         \/ pass' = pass
         \/ \E p \in Passes : \E q : /\ pass' = [pass EXCEPT ![p] = q]
                                    /\ PassOK(q, Followed', ForPush')
  PROVE  PassTypes'
<1>1. \A p \in Passes : PassOK(pass[p], Followed', ForPush')
  BY DEF PassTypes, PassOK
<1>2. CASE pass' = pass
  BY <1>1, <1>2 DEF PassTypes
<1>3. ASSUME NEW p \in Passes, NEW q, pass' = [pass EXCEPT ![p] = q], PassOK(q, Followed', ForPush')
      PROVE  PassTypes'
  <2>1. q \in PassType
    BY <1>3 DEF PassOK
  <2>2. pass' \in [Passes -> PassType] /\ \A x \in Passes : pass'[x] = IF x = p THEN q ELSE pass[x]
    BY <1>3, <2>1 DEF PassTypes
  <2>3. \A x \in Passes : PassOK(pass'[x], Followed', ForPush')
    BY <1>1, <1>3, <2>2
  <2> QED BY <2>2, <2>3 DEF PassTypes
<1> QED BY <1>2, <1>3

LEMMA NoticesKept ==
  ASSUME TypeInv, UNCHANGED <<delivery, job>>
  PROVE  NoticeTypes' /\ TaskTypes' /\ ForPush' = ForPush
BY DEF TypeInv, NoticeTypes, TaskTypes, ForPush, Deliveries

\* The staff and the users who report.
LEMMA TableStep ==
  ASSUME TypeInv,
         \/ \E x \in Records : Edit(x) \/ \E u \in Users : Match(u, x)
         \/ \E u \in Users : Link(u) \/ \E i \in Issues : Submit(u, i)
  PROVE  TypeInv'
<1> USE DEF stored
<1>1. /\ record \in [Records -> Progresses \cup {None}]
      /\ snapshot \in [Issues -> Progresses \cup {None, Unknown}]
      /\ subs \subseteq {i \in Issues : snapshot[i] # Unknown} \X Users
      /\ cand \in [Users -> [record: Records \cup {None}, progress: Progresses \cup {None}]]
  BY DEF TypeInv, TableTypes
<1>2. UNCHANGED <<delivery, job, pass>> /\ subs \subseteq subs'
  BY DEF Edit, Match, Link, Submit
<1>3. NoticeTypes' /\ TaskTypes' /\ ForPush' = ForPush
  BY <1>2, NoticesKept
<1>4. PassTypes'
  BY <1>2, <1>3, PassesKept DEF TypeInv, Followed
<1>5. ASSUME NEW x \in Records, Edit(x) PROVE TableTypes'
  BY <1>1, <1>5 DEF Edit, TableTypes
<1>6. ASSUME NEW x \in Records, NEW u \in Users, Match(u, x) PROVE TableTypes'
  <2>1. [record |-> x, progress |-> record[x]] \in
          [record: Records \cup {None}, progress: Progresses \cup {None}]
    BY <1>1
  <2> QED BY <1>1, <1>6, <2>1 DEF Match, TableTypes
<1>7. NullCand \in [record: Records \cup {None}, progress: Progresses \cup {None}]
  BY DEF NullCand
<1>8. \A v \in Progresses \cup {None} : v # Unknown
  BY IssueStatusAssumption DEF None, Unknown
<1>9. ASSUME NEW u \in Users, NEW i \in Issues, NEW v \in Progresses \cup {None},
             snapshot' = [snapshot EXCEPT ![i] = v], subs' = subs \cup {<<i, u>>},
             cand' = [cand EXCEPT ![u] = NullCand], record' = record
      PROVE  TableTypes'
  <2>1. snapshot' \in [Issues -> Progresses \cup {None, Unknown}]
    BY <1>1, <1>9
  <2>2. snapshot'[i] # Unknown /\ \A k \in Issues : snapshot[k] # Unknown => snapshot'[k] # Unknown
    BY <1>1, <1>8, <1>9
  <2>3. subs' \subseteq {k \in Issues : snapshot'[k] # Unknown} \X Users
    BY <1>1, <1>9, <2>2
  <2>4. cand' \in [Users -> [record: Records \cup {None}, progress: Progresses \cup {None}]]
    BY <1>1, <1>7, <1>9
  <2> QED BY <1>1, <1>9, <2>1, <2>3, <2>4 DEF TableTypes
<1>10. ASSUME NEW u \in Users, Link(u) PROVE TableTypes'
  <2>1. cand[u].progress \in Progresses \cup {None}
    BY <1>1
  <2> QED BY <1>9, <1>10, <2>1 DEF Link
<1>11. ASSUME NEW u \in Users, NEW i \in Issues, Submit(u, i) PROVE TableTypes'
  BY <1>9, <1>11 DEF Submit
<1> QED BY <1>3, <1>4, <1>5, <1>6, <1>10, <1>11 DEF TypeInv

\* A pass up to the change it has seen.
LEMMA ListStep ==
  ASSUME TypeInv, NEW p \in Passes, Begin(p) \/ Fetch(p) \/ PassCrash(p)
  PROVE  TypeInv'
<1> USE DEF stored
<1>1. UNCHANGED <<record, snapshot, subs, cand, delivery, job>>
  BY DEF Begin, Fetch, PassCrash
<1>2. NoticeTypes' /\ TaskTypes' /\ ForPush' = ForPush /\ Followed' = Followed
  BY <1>1, NoticesKept DEF Followed
<1>3. TableTypes'
  BY <1>1 DEF TypeInv, TableTypes
<1> DEFINE q == pass[p]
<1>4. /\ q \in PassType /\ q.todo \subseteq Followed /\ q.out \subseteq ForPush
      /\ q.pc = "fetch" => q.todo # {}
  BY DEF TypeInv, PassTypes, PassOK
<1>5. \E r : pass' = [pass EXCEPT ![p] = r] /\ PassOK(r, Followed, ForPush)
  <2>1. CASE Begin(p)
    <3> DEFINE r == [NullPass EXCEPT !.pc = "fetch", !.todo = Batch]
    <3>1. Batch # {} /\ Batch \subseteq Followed /\ Followed \subseteq Issues
      BY <2>1 DEF Begin, Batch, Followed
    <3>2. r \in PassType /\ r.pc = "fetch" /\ r.todo = Batch /\ r.out = {}
      BY <3>1 DEF PassType, NullPass
    <3>3. PassOK(r, Followed, ForPush)
      BY <3>1, <3>2 DEF PassOK
    <3> QED BY <2>1, <3>3 DEF Begin
  <2>2. CASE Fetch(p)
    <3> DEFINE i == Smallest(q.todo)
               r == [q EXCEPT !.pc = "apply", !.todo = @ \ {i}, !.issue = i,
                              !.seen = record[RecordOf[i]]]
               s == [q EXCEPT !.todo = @ \ {i}]
    <3>1. q.todo # {} /\ q.todo \in SUBSET Nat /\ q.todo \subseteq Issues
      BY <1>4, <2>2 DEF Fetch, PassType, Issues
    <3>2. i \in q.todo
      BY <3>1, SmallestIn
    <3>3. i \in Issues /\ i \in Followed
      BY <1>4, <3>1, <3>2
    <3>4. record[RecordOf[i]] \in Progresses \cup {None}
      <4>1. RecordOf[i] \in Records
        BY <3>3, IssueStatusAssumption
      <4> QED BY <4>1 DEF TypeInv, TableTypes
    <3> HIDE DEF i
    <3>5. r \in PassType /\ r.pc = "apply" /\ r.todo = q.todo \ {i} /\ r.issue = i /\ r.out = q.out
      BY <1>4, <3>3, <3>4 DEF PassType
    <3>6. PassOK(r, Followed, ForPush)
      BY <1>4, <3>3, <3>5 DEF PassOK
    <3>7. s \in PassType /\ s.todo = q.todo \ {i} /\ s.out = q.out
      BY <1>4 DEF PassType
    <3>8. PassOK(After(p, s), Followed, ForPush)
      BY <1>4, <3>7, AfterOK
    <3>9. pass' = [pass EXCEPT ![p] = r] \/ pass' = [pass EXCEPT ![p] = After(p, s)]
      BY <2>2 DEF Fetch, i
    <3> QED BY <3>6, <3>8, <3>9
  <2>3. CASE PassCrash(p)
    BY <1>4, <2>3, AfterOK DEF PassCrash
  <2> QED BY <2>1, <2>2, <2>3
<1>6. PassTypes'
  BY <1>2, <1>5, PassesKept DEF TypeInv
<1> QED BY <1>2, <1>3, <1>6 DEF TypeInv

\* The transaction that creates the notifications of a change.
LEMMA ApplyStep ==
  ASSUME TypeInv, Shape, NEW p \in Passes, Apply(p)
  PROVE  TypeInv'
<1> DEFINE q == pass[p]
           i == q.issue
           v == q.seen
           new == Notices(i, v)
           ids == {Len(delivery) + n : n \in Pushed(new)}
<1>1. UNCHANGED <<record, subs, cand>> /\ q.pc = "apply"
  BY DEF Apply
<1>2. Followed' = Followed
  BY <1>1 DEF Followed
<1>3. /\ q \in PassType /\ q.todo \subseteq Followed /\ q.out \subseteq ForPush
      /\ i \in Followed /\ i \in Issues /\ v \in Progresses \cup {None}
  BY <1>1 DEF TypeInv, PassTypes, PassOK, Followed, PassType
<1>4. TableTypes'
  <2>1. snapshot' = snapshot \/ snapshot' = [snapshot EXCEPT ![i] = v]
    BY DEF Apply
  <2>2. v # Unknown
    BY <1>3, IssueStatusAssumption DEF None, Unknown
  <2>3. /\ snapshot' \in [Issues -> Progresses \cup {None, Unknown}]
        /\ \A k \in Issues : snapshot[k] # Unknown => snapshot'[k] # Unknown
    BY <1>3, <2>1, <2>2 DEF TypeInv, TableTypes
  <2>4. subs \subseteq {k \in Issues : snapshot'[k] # Unknown} \X Users
    BY <2>3 DEF TypeInv, TableTypes
  <2> QED BY <1>1, <2>3, <2>4 DEF TypeInv, TableTypes
<1>5. CASE UNCHANGED <<delivery, job>> /\ pass' = [pass EXCEPT ![p] = After(p, q)]
  <2>1. NoticeTypes' /\ TaskTypes' /\ ForPush' = ForPush
    BY <1>5, NoticesKept
  <2>2. PassOK(After(p, q), Followed, ForPush)
    BY <1>3, AfterOK
  <2>3. PassTypes'
    BY <1>2, <1>5, <2>1, <2>2, PassesKept DEF TypeInv
  <2> QED BY <1>4, <2>1, <2>3 DEF TypeInv
<1>6. CASE /\ v # None
           /\ delivery' = delivery \o new
           /\ job' = job \o [n \in DOMAIN new |-> [pc |-> "none", tries |-> 0]]
           /\ sent' = sent \o [n \in DOMAIN new |-> 0]
           /\ pass' = [pass EXCEPT ![p] = After(p, [q EXCEPT !.out = @ \cup ids])]
  <2> DEFINE r == [q EXCEPT !.out = @ \cup ids]
  <2>1. /\ \A n \in Deliveries : n \in Deliveries' /\ job'[n] = job[n] /\ delivery'[n] = delivery[n]
        /\ \A n \in Deliveries' \ Deliveries :
             Tells(delivery'[n], i, v) /\ job'[n] = [pc |-> "none", tries |-> 0]
        /\ \A n \in DOMAIN new :
             /\ Len(delivery) + n \in Deliveries'
             /\ delivery'[Len(delivery) + n] = new[n] /\ Tells(new[n], i, v)
        /\ \A n \in Deliveries' : delivery'[n] = Fields(delivery'[n])
        /\ Deliveries' \subseteq Nat
    <3>1. Shape'
      BY <1>6, MoreDeliveries
    <3>2. Deliveries' \subseteq Nat
      <4>1. Len(delivery') \in Nat /\ DOMAIN delivery' = 1..Len(delivery')
        BY <3>1 DEF Shape
      <4> QED BY <4>1 DEF Deliveries
    <3>3. \A n \in Deliveries' : delivery'[n] = Fields(delivery'[n])
      BY <3>1 DEF Shape
    <3> QED BY <1>6, <3>2, <3>3, MoreDeliveries
  <2> HIDE DEF new
  <2>2. \A d : Tells(d, i, v) /\ d = Fields(d) => d \in NoticeType
    BY <1>3, <1>6 DEF Tells, Fields, NoticeType, Statuses
  <2> HIDE DEF i, v
  <2>3. NoticeTypes'
    BY <2>1, <2>2 DEF NoticeTypes, TypeInv
  <2>4. TaskTypes'
    <3>1. 0 \in 0..MaxRetries
      BY IssueStatusAssumption
    <3> QED BY <2>1, <3>1 DEF TypeInv, TaskTypes
  <2>5. ForPush \subseteq ForPush'
    BY <2>1 DEF ForPush
  <2>6. ids \subseteq ForPush' /\ ids \subseteq Nat
    <3>1. \A n \in Pushed(new) : new[n].who \in PushUsers
      BY <2>1 DEF Pushed, Tells
    <3>2. \A n \in Pushed(new) : Len(delivery) + n \in Deliveries'
                                 /\ delivery'[Len(delivery) + n] = new[n]
      BY <2>1 DEF Pushed
    <3>3. \A n \in Pushed(new) : Len(delivery) + n \in ForPush'
      BY <3>1, <3>2 DEF ForPush
    <3> QED BY <2>1, <3>2, <3>3
  <2> HIDE DEF ids
  <2>7. r \in PassType /\ r.todo = q.todo /\ r.out = q.out \cup ids
    BY <1>3, <2>6 DEF PassType
  <2>8. PassOK(After(p, r), Followed, ForPush')
    BY <1>3, <2>5, <2>6, <2>7, AfterOK
  <2>9. PassTypes'
    BY <1>2, <1>6, <2>5, <2>8, PassesKept DEF TypeInv
  <2> QED BY <1>4, <2>3, <2>4, <2>9 DEF TypeInv
<1> QED BY <1>5, <1>6 DEF Apply

LEMMA PublishStep ==
  ASSUME TypeInv, Shape, NEW p \in Passes, Publish(p)
  PROVE  TypeInv'
<1> USE DEF stored
<1> DEFINE q == pass[p]
           n == Smallest(q.out)
           r == [q EXCEPT !.out = q.out \ {n}]
<1>1. UNCHANGED <<record, snapshot, subs, cand, delivery>> /\ q.pc = "publish"
  BY DEF Publish
<1>2. TableTypes' /\ NoticeTypes' /\ ForPush' = ForPush /\ Followed' = Followed
  BY <1>1 DEF TypeInv, TableTypes, NoticeTypes, ForPush, Followed, Deliveries
<1>3. /\ q \in PassType /\ q.todo \subseteq Followed /\ q.out \subseteq ForPush
      /\ q.out # {} /\ q.out \in SUBSET Nat
  BY <1>1 DEF TypeInv, PassTypes, PassOK, PassType
<1>4. n \in ForPush
  BY <1>3, SmallestIn
<1> HIDE DEF n
<1>5. TaskTypes'
  <2>1. job' = job \/ job' = [job EXCEPT ![n].pc = "queued"]
    BY DEF Publish, n
  <2>2. DOMAIN job = Deliveries /\ \A k \in Deliveries : job[k] \in JobType
    BY Numbered
  <2>3. \A k \in Deliveries : job'[k].tries = job[k].tries /\ (k # n => job'[k] = job[k])
    BY <2>1, <2>2 DEF JobType
  <2> QED BY <1>1, <1>4, <2>3 DEF TypeInv, TaskTypes, ForPush, Deliveries
<1>6. PassOK(NullPass, Followed, ForPush)
  BY DEF NullPass, PassOK, PassType
<1>7. q.out \ {n} # {} => PassOK(r, Followed, ForPush)
  <2>1. r \in PassType /\ r.pc = "publish" /\ r.todo = q.todo /\ r.out = q.out \ {n}
    BY <1>1, <1>3 DEF PassType
  <2> QED BY <1>3, <2>1 DEF PassOK
<1>8. \/ pass' = [pass EXCEPT ![p] = NullPass]
      \/ q.out \ {n} # {} /\ pass' = [pass EXCEPT ![p] = r]
  BY DEF Publish, n
<1>9. PassTypes'
  BY <1>2, <1>6, <1>7, <1>8, PassesKept DEF TypeInv
<1> QED BY <1>2, <1>5, <1>9 DEF TypeInv

\* A delivery task, or the user who acknowledges.
LEMMA DeliverStep ==
  ASSUME TypeInv, Shape, NEW n \in Deliveries, Deliver(n) \/ JobCrash(n) \/ Acknowledge(n)
  PROVE  TypeInv'
<1> USE DEF stored, Job, Mark
<1>1. UNCHANGED <<record, snapshot, subs, cand, pass>>
  BY DEF Deliver, Take, Send, MarkSent, MarkFailed, JobCrash, Acknowledge
<1>2. TableTypes' /\ Followed' = Followed
  BY <1>1 DEF TypeInv, TableTypes, Followed
<1>3. delivery[n] \in NoticeType /\ job[n].tries \in 0..MaxRetries
  BY DEF TypeInv, NoticeTypes, TaskTypes
<1>4. delivery' = delivery \/ \E s \in Statuses : delivery' = [delivery EXCEPT ![n].status = s]
  BY DEF Deliver, Take, Send, MarkSent, MarkFailed, JobCrash, Acknowledge, Statuses
<1>5. /\ Deliveries' = Deliveries /\ delivery'[n] \in NoticeType /\ delivery'[n].who = delivery[n].who
      /\ \A k \in Deliveries \ {n} : delivery'[k] = delivery[k]
  BY <1>3, <1>4 DEF Deliveries, NoticeType
<1>6. NoticeTypes'
  BY <1>5 DEF TypeInv, NoticeTypes
<1>7. ForPush' = ForPush
  BY <1>5 DEF ForPush
<1>8. PassTypes'
  BY <1>1, <1>2, <1>7, PassesKept DEF TypeInv
<1>9. \/ job' = job
      \/ /\ job[n].pc # "none"
         /\ \E pc \in JobPcs, t \in 0..MaxRetries : job' = [job EXCEPT ![n] = [pc |-> pc, tries |-> t]]
  <2>1. /\ job[n].tries \in 0..MaxRetries
        /\ job[n].tries < MaxRetries => job[n].tries + 1 \in 0..MaxRetries
    BY <1>3, IssueStatusAssumption
  <2>2. CASE Take(n)
    BY <2>1, <2>2 DEF Take, JobPcs
  <2>3. CASE Send(n)
    BY <2>1, <2>3 DEF Send, JobPcs
  <2>4. CASE MarkSent(n)
    BY <2>1, <2>4 DEF MarkSent, Again, JobPcs
  <2>5. CASE MarkFailed(n)
    BY <2>1, <2>5 DEF MarkFailed, Again, JobPcs
  <2>6. CASE JobCrash(n)
    BY <2>1, <2>6 DEF JobCrash, Running, JobPcs
  <2>7. CASE Acknowledge(n)
    BY <2>7 DEF Acknowledge
  <2> QED BY <2>2, <2>3, <2>4, <2>5, <2>6, <2>7 DEF Deliver
<1>10. TaskTypes'
  <2>1. DOMAIN job = Deliveries
    BY Numbered
  <2>2. \A k \in Deliveries \ {n} : job'[k] = job[k]
    BY <1>9, <2>1
  <2>3. job'[n].tries \in 0..MaxRetries /\ (job'[n].pc # "none" => delivery[n].who \in PushUsers)
    <3>1. job[n].pc # "none" => delivery[n].who \in PushUsers
      BY DEF TypeInv, TaskTypes
    <3>2. ASSUME NEW pc, NEW t \in 0..MaxRetries, job' = [job EXCEPT ![n] = [pc |-> pc, tries |-> t]]
          PROVE  job'[n].tries \in 0..MaxRetries
      <4>1. job'[n] = [pc |-> pc, tries |-> t]
        BY <2>1, <3>2
      <4> QED BY <4>1
    <3>3. job'[n].tries \in 0..MaxRetries
      BY <1>3, <1>9, <3>2
    <3> QED BY <1>9, <3>1, <3>3
  <2> QED BY <1>5, <2>2, <2>3 DEF TypeInv, TaskTypes
<1> QED BY <1>2, <1>6, <1>8, <1>10 DEF TypeInv

LEMMA TypeStep ==
  ASSUME TypeInv, Shape, [Next]_vars
  PROVE  TypeInv'
<1>1. ASSUME UNCHANGED vars PROVE TypeInv'
  <2>1. UNCHANGED <<record, snapshot, subs, cand, delivery, job, pass>>
    BY <1>1 DEF vars, stored
  <2>2. NoticeTypes' /\ TaskTypes' /\ ForPush' = ForPush /\ Followed' = Followed
    BY <2>1, NoticesKept DEF Followed
  <2>3. PassTypes'
    BY <2>1, <2>2, PassesKept DEF TypeInv
  <2> QED BY <2>1, <2>2, <2>3 DEF TypeInv, TableTypes
<1>2. ASSUME Next PROVE TypeInv'
  BY <1>2, TableStep, ListStep, ApplyStep, PublishStep, DeliverStep DEF Next, Reconcile
<1> QED BY <1>1, <1>2

LEMMA TypesSafe == Shape /\ TypeInv /\ Len(delivery) <= MaxDeliveries => StatusTypeOK
<1> SUFFICES ASSUME Shape, TypeInv, Len(delivery) <= MaxDeliveries PROVE StatusTypeOK
  OBVIOUS
<1>1. DOMAIN job = Deliveries /\ DOMAIN sent = Deliveries
  BY Numbered
<1>2. \A p \in Passes : pass[p].pc = "apply" => pass[p].issue \in Followed
  BY DEF TypeInv, PassTypes, PassOK
<1>3. \A n \in Deliveries :
        /\ delivery[n] \in [issue: Issues, who: Users, progress: Progresses \ {None},
                            status: {"available", "pending", "processing", "sent", "read"}]
        /\ job[n].pc # "none" => delivery[n].who \in PushUsers
        /\ job[n].tries \in 0..MaxRetries
  BY DEF TypeInv, NoticeTypes, NoticeType, Statuses, TaskTypes
<1> QED BY <1>1, <1>2, <1>3 DEF TypeInv, TableTypes, StatusTypeOK

\* The tables keep their types; an issue under way in a pass has a subscriber, and a task is
\* queued or runs only for a notification of the push channel, with no more retries than it
\* has.  MaxDeliveries bounds nothing in the model, it only has to be large enough.
THEOREM StatusTypeCorrectness ==
  Spec /\ [](Len(delivery) <= MaxDeliveries) => []StatusTypeOK
<1>1. Init => TypeInv
  BY TypeInit
<1>2. StatusInv => Shape
  BY DEF StatusInv
<1>3. TypeInv /\ Shape /\ [Next]_vars => TypeInv'
  BY TypeStep
<1>4. Spec => []TypeInv
  BY <1>1, <1>2, <1>3, StatusInvHolds, PTL DEF Spec
<1> QED BY <1>2, <1>4, StatusInvHolds, TypesSafe, PTL

=============================================================================
