----------------------------- MODULE MessageQueue -----------------------------
(***************************************************************************)
(* The persistent message queue of app/services/message_queue.py together  *)
(* with the Redis deduplication store (app/services/dedup_store.py) and    *)
(* the skeleton of MessageProcessor.process that the queue runs under the  *)
(* per-user lock (app/services/message_processor.py).                      *)
(*                                                                         *)
(* A consumer is one incarnation of a server process: consumer ids are     *)
(* random, so a restarted process is a new consumer.  Every step below is  *)
(* one Redis command (or Lua script) of one coroutine, since the           *)
(* coroutines of all processes interleave at every await.  A Redis list is *)
(* a sequence whose element 1 is the RIGHT end (the one BLMOVE pops), so   *)
(* LPUSH is Append.                                                        *)
(***************************************************************************)
EXTENDS Integers, Sequences, FiniteSets

CONSTANTS
  Consumers,    \* server processes (incarnations)
  Mortal,       \* the consumers that may crash or be stopped
  Workers,      \* worker coroutines (_loop) of all consumers
  OwnerOf,      \* the consumer of each worker
  Deliveries,   \* envelope ids (uuid4 of enqueue)
  Msgs,         \* WeCom message ids; two deliveries may carry the same one
  MsgOf,        \* the msgid of each delivery
  Users,        \* (user_id, scope) pairs, the unit of locking
  UserOf,       \* the user of each msgid
  Unreadable,   \* deliveries that are not JSON or name no adapter
  MaxAttempts,  \* settings.app.queue_max_attempts
  Stamps,       \* processing_started_at values
  FaultOps,     \* Redis calls that may raise in this instance
  MaxFaults,    \* bound: how many of them raise in one behaviour
  LapseKinds,   \* TTLs that may run out under a live holder
  MaxLapses,    \* bound: how many of them do in one behaviour
  NoWorker,     \* "no lock key"
  NoRaw         \* "no envelope in hand"

FaultNames == {"blmove", "claim", "lock", "acquire", "mark", "arm", "release",
               "unlock", "ack", "move", "exists", "lrange", "recrelease",
               "requeue", "flush"}

LapseNames == {"heartbeat", "lock", "procKey", "doneKey"}

ASSUME ConstantsAssumption ==
  /\ Mortal \subseteq Consumers
  /\ OwnerOf \in [Workers -> Consumers]
  /\ MsgOf \in [Deliveries -> Msgs]
  /\ UserOf \in [Msgs -> Users]
  /\ Unreadable \subseteq Deliveries
  /\ MaxAttempts \in Nat \ {0}
  /\ Stamps \subseteq Nat \ {0}
  /\ FaultOps \subseteq FaultNames
  /\ MaxFaults \in Nat
  /\ LapseKinds \subseteq LapseNames
  /\ MaxLapses \in Nat
  /\ NoWorker \notin Workers

VARIABLES
  main,       \* wecom:msgq
  proc,       \* wecom:msgq:proc:{consumer_id}
  dead,       \* wecom:msgq:dead, as the set of delivery ids in it
  pend,       \* _pending_acks of each consumer
  heartbeat,  \* wecom:msgq:consumer:{consumer_id} exists
  lock,       \* wecom:lock:{user}:{scope}: the worker whose token is stored
  procKey,    \* msgids with a wecom:dedup:proc: key
  doneKey,    \* msgids with a wecom:dedup:done: key
  status,     \* life cycle of each consumer
  wk,         \* worker coroutines
  rec,        \* start/maintenance/stop coroutine of each consumer
  enq,        \* history: deliveries in the order they were enqueued
  settled,    \* history: msgids whose process() reached its decision
  sends,      \* history: confirmed replies per msgid
  exposed,    \* history: users whose lock was bypassed or lapsed
  excused,    \* history: msgids whose done mark was missed or has expired
  faults,     \* Redis errors so far
  lapses      \* TTLs that ran out under a live holder so far

lists == <<main, proc, dead, pend>>
keys == <<heartbeat, lock, procKey, doneKey>>
history == <<enq, settled, sends, exposed, excused>>
budgets == <<faults, lapses>>
vars == <<main, proc, dead, pend, heartbeat, lock, procKey, doneKey, status,
          wk, rec, enq, settled, sends, exposed, excused, faults, lapses>>

-------------------------------------------------------------------------------
(***************************************************************************)
(* Envelopes and lists.                                                    *)
(***************************************************************************)

\* The JSON text of an envelope, compared only for equality: the delivery, its
\* attempts counter and its processing_started_at (0 before the first claim).
Raw == [id : Deliveries, attempts : 0 .. (MaxAttempts - 1), stamp : Stamps \cup {0}]

Elems(s) == {s[i] : i \in DOMAIN s}

\* LRANGE key 0 -1 lists from the LEFT end.
LRange(s) == [i \in 1 .. Len(s) |-> s[Len(s) + 1 - i]]

\* LREM key 1 x.
LRem(s, x) ==
  IF x \in Elems(s)
  THEN LET i == CHOOSE j \in DOMAIN s : s[j] = x
       IN  [k \in 1 .. (Len(s) - 1) |-> IF k < i THEN s[k] ELSE s[k + 1]]
  ELSE s

\* The singleton of the sequence of those elements of s that are in S, in the
\* order of s.
Filtered(s, S) ==
  LET Idx == {i \in DOMAIN s : s[i] \in S}
      Picks(n) == {f \in [1 .. n -> Idx] :
                     /\ \A a, b \in 1 .. n : a < b => f[a] < f[b]
                     /\ \A i \in Idx : \E a \in 1 .. n : f[a] = i}
  IN  UNION {{[a \in 1 .. n |-> s[f[a]]] : f \in Picks(n)} : n \in 0 .. Len(s)}

-------------------------------------------------------------------------------
(***************************************************************************)
(* Coroutine states.                                                       *)
(***************************************************************************)

\* Where a worker stands: the next await of _loop, _handle, _run_with_lock or
\* process().
Pcs == {"idle", "claim", "lock", "dedup", "work", "send", "mark", "post",
        "release", "unlock", "book"}

\* What _handle will book: process() returned, raised, was cancelled, the lock
\* was busy, or the envelope was unreadable.
Outcomes == {"none", "ok", "error", "cancel", "busy", "bad"}

IdleWorker == [pc |-> "idle", raw |-> NoRaw, tok |-> FALSE, out |-> "none"]

\* Inside the try block of _run_with_lock.
Section == {"dedup", "work", "send", "mark", "post", "release", "unlock"}

Msg(w) == MsgOf[wk[w].raw.id]
User(w) == UserOf[Msg(w)]

\* w is running process() for user u.
InSection(w, u) == wk[w].pc \in Section /\ User(w) = u

\* w has passed acquire for m and has neither marked nor released it.
Processing(w, m) == wk[w].pc \in {"work", "send", "mark", "release"} /\ Msg(w) = m

\* The recovery side of a consumer: scanning the proc keys, then reading,
\* releasing and requeueing the list of one owner, then flushing acks.
RecPcs == {"idle", "scan", "visit", "read", "release", "requeue", "flush"}

IdleRec(c) == [pc |-> "idle", owner |-> c, items |-> <<>>, next |-> 0,
               ready |-> TRUE, todo |-> {}]

Running == {"starting", "up", "stopping", "closing"}

WorkersOf(c) == {w \in Workers : OwnerOf[w] = c}

-------------------------------------------------------------------------------
Init ==
  /\ main = <<>>
  /\ proc = [c \in Consumers |-> <<>>]
  /\ dead = {}
  /\ pend = [c \in Consumers |-> {}]
  /\ heartbeat = [c \in Consumers |-> FALSE]
  /\ lock = [u \in Users |-> NoWorker]
  /\ procKey = {}
  /\ doneKey = {}
  /\ status = [c \in Consumers |-> "new"]
  /\ wk = [w \in Workers |-> IdleWorker]
  /\ rec = [c \in Consumers |-> IdleRec(c)]
  /\ enq = <<>>
  /\ settled = {}
  /\ sends = [m \in Msgs |-> 0]
  /\ exposed = {}
  /\ excused = {}
  /\ faults = 0
  /\ lapses = 0

\* The Redis call op raises.  The server may or may not have executed it; the
\* caller sees an exception either way.
Fault(op) ==
  /\ op \in FaultOps
  /\ faults < MaxFaults
  /\ faults' = faults + 1
  /\ UNCHANGED lapses

\* A TTL runs out although its holder is alive (a stalled event loop, a Redis
\* outage longer than the TTL, a turn slower than the TTL).
Lapse(kind) ==
  /\ kind \in LapseKinds
  /\ lapses < MaxLapses
  /\ lapses' = lapses + 1
  /\ UNCHANGED faults

-------------------------------------------------------------------------------
(***************************************************************************)
(* Enqueueing (called by the callback routes).                             *)
(***************************************************************************)

Enqueue(d) ==
  /\ \E c \in Consumers : status[c] = "up"
  /\ d \notin Elems(enq)
  /\ main' = Append(main, [id |-> d, attempts |-> 0, stamp |-> 0])
  /\ enq' = Append(enq, d)
  /\ UNCHANGED <<proc, dead, pend, keys, status, wk, rec, settled, sends,
                 exposed, excused, budgets>>

-------------------------------------------------------------------------------
(***************************************************************************)
(* The worker loop.                                                        *)
(***************************************************************************)

\* BLMOVE main -> own proc list.
Blmove(w) ==
  LET c == OwnerOf[w] IN
  /\ wk[w].pc = "idle"
  /\ status[c] = "up"
  /\ main # <<>>
  /\ main' = Tail(main)
  /\ proc' = [proc EXCEPT ![c] = Append(@, Head(main))]
  /\ wk' = [wk EXCEPT ![w].pc = "claim", ![w].raw = Head(main)]
  /\ UNCHANGED <<dead, pend, keys, status, rec, history, budgets>>

\* BLMOVE was executed but its reply was lost: nobody works on the delivery.
BlmoveReplyLost(w) ==
  LET c == OwnerOf[w] IN
  /\ wk[w].pc = "idle"
  /\ status[c] = "up"
  /\ main # <<>>
  /\ Fault("blmove")
  /\ main' = Tail(main)
  /\ proc' = [proc EXCEPT ![c] = Append(@, Head(main))]
  /\ UNCHANGED <<dead, pend, keys, status, wk, rec, history>>

\* The envelopes of delivery d that anything still remembers.
Remembered(d) ==
  {r \in Elems(main) \cup (UNION {Elems(proc[c]) : c \in Consumers})
         \cup (UNION {pend[c] : c \in Consumers})
         \cup (UNION {Elems(rec[c].items) : c \in Consumers})
         \cup ({wk[w].raw : w \in Workers} \ {NoRaw}) : r.id = d}

\* time.time() never repeats; a value nobody remembers is as good as new.
FreshStamps(d) == Stamps \ {r.stamp : r \in Remembered(d)}

Restamped(r) == [r EXCEPT !.stamp = CHOOSE t \in FreshStamps(r.id) : TRUE]

\* _CLAIM_LUA: LSET the stamped text over the plain one.
LSet(s, old, new) == [i \in 1 .. Len(s) |-> IF s[i] = old THEN new ELSE s[i]]

\* _mark_processing_started.
MarkProcessingStarted(w) ==
  LET c == OwnerOf[w]
      r == wk[w].raw
  IN
  /\ wk[w].pc = "claim"
  /\ FreshStamps(r.id) # {}
  /\ IF r \in Elems(proc[c])
     THEN /\ proc' = [proc EXCEPT ![c] = LSet(@, r, Restamped(r))]
          /\ wk' = [wk EXCEPT ![w].pc = "lock", ![w].raw = Restamped(r)]
     ELSE /\ wk' = [wk EXCEPT ![w].pc = "lock"]
          /\ UNCHANGED proc
  /\ UNCHANGED <<main, dead, pend, keys, status, rec, history, budgets>>

\* The claim script raises: the worker goes on with the plain envelope.
MarkProcessingStartedFails(w) ==
  LET c == OwnerOf[w]
      r == wk[w].raw
  IN
  /\ wk[w].pc = "claim"
  /\ FreshStamps(r.id) # {}
  /\ Fault("claim")
  /\ \/ proc' = [proc EXCEPT ![c] = LSet(@, r, Restamped(r))]
     \/ UNCHANGED proc
  /\ wk' = [wk EXCEPT ![w].pc = "lock"]
  /\ UNCHANGED <<main, dead, pend, keys, status, rec, history>>

\* _handle cannot rebuild the message: bad JSON or an unknown adapter.  (A payload
\* that does not fit InboundMessage takes the same path.)
HandleUnreadable(w) ==
  /\ wk[w].pc = "lock"
  /\ wk[w].raw.id \in Unreadable
  /\ wk' = [wk EXCEPT ![w].pc = "book", ![w].out = "bad"]
  /\ UNCHANGED <<lists, keys, status, rec, history, budgets>>

\* Mutant: a lock table per process instead of the shared Redis key.
TryLockPerProcess(w) ==
  LET u == User(w) IN
  /\ wk[w].pc = "lock"
  /\ wk[w].raw.id \notin Unreadable
  /\ \A v \in WorkersOf(OwnerOf[w]) : lock[u] # v
  /\ lock' = [lock EXCEPT ![u] = w]
  /\ wk' = [wk EXCEPT ![w].pc = "dedup", ![w].tok = TRUE]
  /\ UNCHANGED <<lists, heartbeat, procKey, doneKey, status, rec, history, budgets>>

\* SET lock NX EX ttl.
TryLock(w) ==
  LET u == User(w) IN
  /\ wk[w].pc = "lock"
  /\ wk[w].raw.id \notin Unreadable
  /\ \/ /\ lock[u] = NoWorker
        /\ lock' = [lock EXCEPT ![u] = w]
        /\ wk' = [wk EXCEPT ![w].pc = "dedup", ![w].tok = TRUE]
     \/ /\ lock[u] # NoWorker
        /\ wk' = [wk EXCEPT ![w].pc = "book", ![w].out = "busy"]
        /\ UNCHANGED lock
  /\ UNCHANGED <<lists, heartbeat, procKey, doneKey, status, rec, history, budgets>>

\* The lock call raises: fail-open, process without a token.
TryLockFails(w) ==
  LET u == User(w) IN
  /\ wk[w].pc = "lock"
  /\ wk[w].raw.id \notin Unreadable
  /\ Fault("lock")
  /\ \/ lock[u] = NoWorker /\ lock' = [lock EXCEPT ![u] = w]
     \/ UNCHANGED lock
  /\ wk' = [wk EXCEPT ![w].pc = "dedup"]
  /\ exposed' = exposed \cup {u}
  /\ UNCHANGED <<lists, heartbeat, procKey, doneKey, status, rec, enq, settled,
                 sends, excused>>

-------------------------------------------------------------------------------
(***************************************************************************)
(* MessageProcessor.process under the lock.                                *)
(***************************************************************************)

\* Mutant: acquire looks at the processing key only.
AcquireIgnoringDone(w) ==
  LET m == Msg(w) IN
  /\ wk[w].pc = "dedup"
  /\ \/ /\ m \in procKey
        /\ wk' = [wk EXCEPT ![w].pc = "unlock", ![w].out = "ok"]
        /\ UNCHANGED procKey
     \/ /\ m \notin procKey
        /\ procKey' = procKey \cup {m}
        /\ wk' = [wk EXCEPT ![w].pc = "work"]
  /\ UNCHANGED <<lists, heartbeat, lock, doneKey, status, rec, history, budgets>>

\* _ACQUIRE_LUA; a refused message is skipped and process() returns normally.
Acquire(w) ==
  LET m == Msg(w) IN
  /\ wk[w].pc = "dedup"
  /\ \/ /\ m \in doneKey \cup procKey
        /\ wk' = [wk EXCEPT ![w].pc = "unlock", ![w].out = "ok"]
        /\ UNCHANGED procKey
     \/ /\ m \notin doneKey \cup procKey
        /\ procKey' = procKey \cup {m}
        /\ wk' = [wk EXCEPT ![w].pc = "work"]
  /\ UNCHANGED <<lists, heartbeat, lock, doneKey, status, rec, history, budgets>>

\* acquire raises: fail-open.
AcquireFails(w) ==
  LET m == Msg(w) IN
  /\ wk[w].pc = "dedup"
  /\ Fault("acquire")
  /\ \/ m \notin doneKey /\ procKey' = procKey \cup {m}
     \/ UNCHANGED procKey
  /\ wk' = [wk EXCEPT ![w].pc = "work"]
  /\ excused' = excused \cup {m}
  /\ UNCHANGED <<lists, heartbeat, lock, doneKey, status, rec, enq, settled,
                 sends, exposed>>

\* Everything between acquire and send: timers, conversation state, media,
\* handoff, AI or Bug v2.  It ends with a reply to send, with nothing to send
\* (no content, or a human agent has taken over), or with an exception.
Work(w) ==
  /\ wk[w].pc = "work"
  /\ \/ /\ wk' = [wk EXCEPT ![w].pc = "send"]
        /\ UNCHANGED settled
     \/ /\ wk' = [wk EXCEPT ![w].pc = "mark", ![w].out = "ok"]
        /\ settled' = settled \cup {Msg(w)}
     \/ /\ wk' = [wk EXCEPT ![w].pc = "release", ![w].out = "error"]
        /\ UNCHANGED settled
  /\ UNCHANGED <<lists, keys, status, rec, enq, sends, exposed, excused, budgets>>

\* adapter.send confirms, or reports failure (then process() returns normally
\* and the reply is dropped, as the module header of the queue documents).
Send(w) ==
  /\ wk[w].pc = "send"
  /\ \/ /\ wk' = [wk EXCEPT ![w].pc = "mark"]
        /\ sends' = [sends EXCEPT ![Msg(w)] = @ + 1]
     \/ /\ wk' = [wk EXCEPT ![w].pc = "release", ![w].out = "ok"]
        /\ UNCHANGED sends
  /\ settled' = settled \cup {Msg(w)}
  /\ UNCHANGED <<lists, keys, status, rec, enq, exposed, excused, budgets>>

\* Mutant: the reply releases the processing key and sets no done key.
MarkDoneOnlyReleases(w) ==
  /\ wk[w].pc = "mark"
  /\ procKey' = procKey \ {Msg(w)}
  /\ wk' = [wk EXCEPT ![w].pc = IF wk[w].out = "ok" THEN "unlock" ELSE "post"]
  /\ UNCHANGED <<lists, heartbeat, lock, doneKey, status, rec, history, budgets>>

\* _MARK_DONE_LUA.  Without a reply process() returns right away.
MarkDone(w) ==
  LET m == Msg(w) IN
  /\ wk[w].pc = "mark"
  /\ doneKey' = doneKey \cup {m}
  /\ procKey' = procKey \ {m}
  /\ wk' = [wk EXCEPT ![w].pc = IF wk[w].out = "ok" THEN "unlock" ELSE "post"]
  /\ UNCHANGED <<lists, heartbeat, lock, status, rec, history, budgets>>

\* mark_done swallows the exception and process() believes it is done.
MarkDoneFails(w) ==
  LET m == Msg(w) IN
  /\ wk[w].pc = "mark"
  /\ Fault("mark")
  /\ \/ doneKey' = doneKey \cup {m} /\ procKey' = procKey \ {m}
     \/ UNCHANGED <<doneKey, procKey>>
  /\ wk' = [wk EXCEPT ![w].pc = IF wk[w].out = "ok" THEN "unlock" ELSE "post"]
  /\ excused' = excused \cup {m}
  /\ UNCHANGED <<lists, heartbeat, lock, status, rec, enq, settled, sends, exposed>>

\* After mark_done: acknowledge notifications, arm timers, tell Chatwoot.
Post(w) ==
  /\ wk[w].pc = "post"
  /\ wk' = [wk EXCEPT ![w].pc = "unlock", ![w].out = "ok"]
  /\ UNCHANGED <<lists, keys, status, rec, history, budgets>>

\* Storing the pending timer raises: process() fails after its done mark.
PostFails(w) ==
  /\ wk[w].pc = "post"
  /\ Fault("arm")
  /\ wk' = [wk EXCEPT ![w].pc = "unlock", ![w].out = "error"]
  /\ UNCHANGED <<lists, keys, status, rec, history>>

\* finally: release_processing unless done.
Release(w) ==
  /\ wk[w].pc = "release"
  /\ procKey' = procKey \ {Msg(w)}
  /\ wk' = [wk EXCEPT ![w].pc = "unlock"]
  /\ UNCHANGED <<lists, heartbeat, lock, doneKey, status, rec, history, budgets>>

\* release_processing returns False and process() ignores it.
ReleaseFails(w) ==
  /\ wk[w].pc = "release"
  /\ Fault("release")
  /\ \/ procKey' = procKey \ {Msg(w)}
     \/ UNCHANGED procKey
  /\ wk' = [wk EXCEPT ![w].pc = "unlock"]
  /\ UNCHANGED <<lists, heartbeat, lock, doneKey, status, rec, history>>

\* Mutant: DEL without comparing the token.
UnlockBlind(w) ==
  /\ wk[w].pc = "unlock"
  /\ lock' = [lock EXCEPT ![User(w)] = NoWorker]
  /\ wk' = [wk EXCEPT ![w].pc = "book", ![w].tok = FALSE]
  /\ UNCHANGED <<lists, heartbeat, procKey, doneKey, status, rec, history, budgets>>

\* _RELEASE_LUA: delete the lock key only if it still holds our token.
Unlock(w) ==
  LET u == User(w) IN
  /\ wk[w].pc = "unlock"
  /\ lock' = IF wk[w].tok /\ lock[u] = w THEN [lock EXCEPT ![u] = NoWorker] ELSE lock
  /\ wk' = [wk EXCEPT ![w].pc = "book", ![w].tok = FALSE]
  /\ UNCHANGED <<lists, heartbeat, procKey, doneKey, status, rec, history, budgets>>

\* The release script raises: the key is left to its TTL.
UnlockFails(w) ==
  LET u == User(w) IN
  /\ wk[w].pc = "unlock"
  /\ wk[w].tok
  /\ Fault("unlock")
  /\ \/ lock[u] = w /\ lock' = [lock EXCEPT ![u] = NoWorker]
     \/ UNCHANGED lock
  /\ wk' = [wk EXCEPT ![w].pc = "book", ![w].tok = FALSE]
  /\ UNCHANGED <<lists, heartbeat, procKey, doneKey, status, rec, history>>

-------------------------------------------------------------------------------
(***************************************************************************)
(* Bookkeeping of _handle.                                                 *)
(***************************************************************************)

\* success: LREM from the own proc list.
Ack(w) ==
  LET c == OwnerOf[w]
      r == wk[w].raw
  IN
  /\ wk[w].pc = "book"
  /\ wk[w].out = "ok"
  /\ proc' = [proc EXCEPT ![c] = LRem(@, r)]
  /\ pend' = [pend EXCEPT ![c] = @ \ {r}]
  /\ wk' = [wk EXCEPT ![w] = IdleWorker]
  /\ UNCHANGED <<main, dead, keys, status, rec, history, budgets>>

\* The LREM raises: the maintenance loop will retry it.
AckFails(w) ==
  LET c == OwnerOf[w]
      r == wk[w].raw
  IN
  /\ wk[w].pc = "book"
  /\ wk[w].out = "ok"
  /\ Fault("ack")
  /\ \/ proc' = [proc EXCEPT ![c] = LRem(@, r)]
     \/ UNCHANGED proc
  /\ pend' = [pend EXCEPT ![c] = @ \cup {r}]
  /\ wk' = [wk EXCEPT ![w] = IdleWorker]
  /\ UNCHANGED <<main, dead, keys, status, rec, history>>

\* Mutant: one attempt too many.
ExhaustedLate(r) == r.attempts >= MaxAttempts

\* A real exception has used up the attempts.
Exhausted(r) == r.attempts + 1 >= MaxAttempts

ToDead(w) == wk[w].out = "bad" \/ (wk[w].out = "error" /\ Exhausted(wk[w].raw))

\* Mutant: a busy lock sends the message back as new.
ReturnedRawAnew(w) ==
  [wk[w].raw EXCEPT !.attempts = IF wk[w].out = "error" THEN @ + 1 ELSE 0]

\* The text that goes back to main: unchanged when the lock was busy, one more
\* attempt after an exception.
ReturnedRaw(w) ==
  IF wk[w].out = "error" THEN [wk[w].raw EXCEPT !.attempts = @ + 1] ELSE wk[w].raw

\* Mutant: LPUSH whether or not the LREM removed something.
MoveLuaBlind(w) ==
  LET c == OwnerOf[w]
      r == wk[w].raw
  IN
  /\ proc' = [proc EXCEPT ![c] = LRem(@, r)]
  /\ IF ToDead(w)
     THEN dead' = dead \cup {r.id} /\ UNCHANGED main
     ELSE main' = Append(main, ReturnedRaw(w)) /\ UNCHANGED dead

\* _MOVE_LUA: LREM from the own proc list, and only if that removed something,
\* LPUSH on the destination.
MoveLua(w) ==
  LET c == OwnerOf[w]
      r == wk[w].raw
  IN
  IF r \in Elems(proc[c])
  THEN /\ proc' = [proc EXCEPT ![c] = LRem(@, r)]
       /\ IF ToDead(w)
          THEN dead' = dead \cup {r.id} /\ UNCHANGED main
          ELSE main' = Append(main, ReturnedRaw(w)) /\ UNCHANGED dead
  ELSE UNCHANGED <<main, proc, dead>>

\* _move_to: busy lock and retry go back to main, the rest to the dead letters.
MoveTo(w) ==
  /\ wk[w].pc = "book"
  /\ wk[w].out \in {"busy", "error", "bad"}
  /\ MoveLua(w)
  /\ wk' = [wk EXCEPT ![w] = IdleWorker]
  /\ UNCHANGED <<pend, keys, status, rec, history, budgets>>

\* The move raises: logged, the worker takes the next message.
MoveToFails(w) ==
  /\ wk[w].pc = "book"
  /\ wk[w].out \in {"busy", "error", "bad"}
  /\ Fault("move")
  /\ MoveLua(w) \/ UNCHANGED <<main, proc, dead>>
  /\ wk' = [wk EXCEPT ![w] = IdleWorker]
  /\ UNCHANGED <<pend, keys, status, rec, history>>

\* A cancelled delivery stays in proc for the sweep of stop().
LeaveInProc(w) ==
  /\ wk[w].pc = "book"
  /\ wk[w].out = "cancel"
  /\ wk' = [wk EXCEPT ![w] = IdleWorker]
  /\ UNCHANGED <<lists, keys, status, rec, history, budgets>>

-------------------------------------------------------------------------------
(***************************************************************************)
(* Life cycle, heartbeat and recovery of orphaned deliveries.              *)
(***************************************************************************)

\* start(): declare life first, then recover, then spawn the workers.
Start(c) ==
  /\ status[c] = "new"
  /\ status' = [status EXCEPT ![c] = "starting"]
  /\ heartbeat' = [heartbeat EXCEPT ![c] = TRUE]
  /\ rec' = [rec EXCEPT ![c].pc = "scan"]
  /\ UNCHANGED <<lists, lock, procKey, doneKey, wk, history, budgets>>

\* One round of _maintenance_loop: refresh the heartbeat, then scan.  A round
\* whose refresh raises does nothing.
TouchHeartbeat(c) ==
  /\ status[c] = "up"
  /\ rec[c].pc = "idle"
  /\ heartbeat' = [heartbeat EXCEPT ![c] = TRUE]
  /\ rec' = [rec EXCEPT ![c].pc = "scan"]
  /\ UNCHANGED <<lists, lock, procKey, doneKey, status, wk, history, budgets>>

\* SCAN yields the proc keys that exist, that is, the non-empty lists; the own
\* one is skipped.
ScanProcKeys(c) ==
  /\ rec[c].pc = "scan"
  /\ rec' = [rec EXCEPT ![c].pc = "visit",
                       ![c].todo = {o \in Consumers \ {c} : proc[o] # <<>>}]
  /\ UNCHANGED <<lists, keys, status, wk, history, budgets>>

\* Mutant: every other owner counts as dead.
CheckOwnerIgnoringHeartbeat(c, o) ==
  /\ rec[c].pc = "visit"
  /\ o \in rec[c].todo
  /\ rec' = [rec EXCEPT ![c].todo = @ \ {o}, ![c].pc = "read", ![c].owner = o]
  /\ UNCHANGED <<lists, keys, status, wk, history, budgets>>

\* EXISTS heartbeat of one owner the scan yielded.
CheckOwner(c, o) ==
  /\ rec[c].pc = "visit"
  /\ o \in rec[c].todo
  /\ rec' = IF heartbeat[o]
            THEN [rec EXCEPT ![c].todo = @ \ {o}]
            ELSE [rec EXCEPT ![c].todo = @ \ {o}, ![c].pc = "read", ![c].owner = o]
  /\ UNCHANGED <<lists, keys, status, wk, history, budgets>>

\* The check raises: skip this owner.
CheckOwnerFails(c, o) ==
  /\ rec[c].pc = "visit"
  /\ o \in rec[c].todo
  /\ Fault("exists")
  /\ rec' = [rec EXCEPT ![c].todo = @ \ {o}]
  /\ UNCHANGED <<lists, keys, status, wk, history>>

\* Back from _recover_proc_key.
Recovered(c) == [rec EXCEPT ![c].pc = "visit", ![c].owner = c, ![c].items = <<>>,
                            ![c].next = 0, ![c].ready = TRUE]

\* _recover_proc_key: LRANGE of the owner's list.
ReadOrphans(c) ==
  LET s == proc[rec[c].owner] IN
  /\ rec[c].pc = "read"
  /\ rec' = IF s = <<>>
            THEN Recovered(c)
            ELSE [rec EXCEPT ![c].pc = "release", ![c].items = LRange(s), ![c].next = 1]
  /\ UNCHANGED <<lists, keys, status, wk, history, budgets>>

\* The LRANGE raises: left for the next round.
ReadOrphansFails(c) ==
  /\ rec[c].pc = "read"
  /\ Fault("lrange")
  /\ rec' = Recovered(c)
  /\ UNCHANGED <<lists, keys, status, wk, history>>

\* The loop over the items: where it goes after the current one.
AfterRelease(c, ok) ==
  IF rec[c].next < Len(rec[c].items)
  THEN [rec EXCEPT ![c].next = @ + 1, ![c].ready = @ /\ ok]
  ELSE IF rec[c].ready /\ ok
       THEN [rec EXCEPT ![c].pc = "requeue"]
       ELSE Recovered(c)

\* The msgid whose processing key the current item makes the sweep delete; an
\* unreadable item has none.
OrphanMsgs(c) ==
  LET d == rec[c].items[rec[c].next].id IN IF d \in Unreadable THEN {} ELSE {MsgOf[d]}

\* Mutant: the sweep requeues without releasing the processing keys.
ReleaseOrphanSkipped(c) ==
  /\ rec[c].pc = "release"
  /\ rec' = AfterRelease(c, TRUE)
  /\ UNCHANGED <<lists, keys, status, wk, history, budgets>>

\* release_processing for one item of the list.
ReleaseOrphan(c) ==
  /\ rec[c].pc = "release"
  /\ procKey' = procKey \ OrphanMsgs(c)
  /\ rec' = AfterRelease(c, TRUE)
  /\ UNCHANGED <<lists, heartbeat, lock, doneKey, status, wk, history, budgets>>

\* Mutant: the result of release_processing is ignored.
ReleaseOrphanFailsUnnoticed(c) ==
  /\ rec[c].pc = "release"
  /\ OrphanMsgs(c) # {}
  /\ Fault("recrelease")
  /\ procKey' = procKey \ OrphanMsgs(c) \/ UNCHANGED procKey
  /\ rec' = AfterRelease(c, TRUE)
  /\ UNCHANGED <<lists, heartbeat, lock, doneKey, status, wk, history>>

\* It returns False: the whole list stays for the next round.
ReleaseOrphanFails(c) ==
  /\ rec[c].pc = "release"
  /\ OrphanMsgs(c) # {}
  /\ Fault("recrelease")
  /\ procKey' = procKey \ OrphanMsgs(c) \/ UNCHANGED procKey
  /\ rec' = AfterRelease(c, FALSE)
  /\ UNCHANGED <<lists, heartbeat, lock, doneKey, status, wk, history>>

\* Mutant: push everything that was read, as two plain commands would.
RequeueBlind(c) ==
  LET o == rec[c].owner
      items == rec[c].items
  IN
  /\ main' = main \o items
  /\ \E rest \in Filtered(proc[o], Elems(proc[o]) \ Elems(items)) :
       proc' = [proc EXCEPT ![o] = rest]

\* _REQUEUE_LUA: move exactly the items read that are still in the list.
RequeueLua(c) ==
  LET o == rec[c].owner
      items == rec[c].items
  IN
  \E back \in Filtered(items, Elems(proc[o])),
     rest \in Filtered(proc[o], Elems(proc[o]) \ Elems(items)) :
       /\ main' = main \o back
       /\ proc' = [proc EXCEPT ![o] = rest]

RequeueOrphans(c) ==
  /\ rec[c].pc = "requeue"
  /\ RequeueLua(c)
  /\ rec' = Recovered(c)
  /\ UNCHANGED <<dead, pend, keys, status, wk, history, budgets>>

\* The script raises: left for the next round.
RequeueOrphansFails(c) ==
  /\ rec[c].pc = "requeue"
  /\ Fault("requeue")
  /\ RequeueLua(c) \/ UNCHANGED <<main, proc>>
  /\ rec' = Recovered(c)
  /\ UNCHANGED <<dead, pend, keys, status, wk, history>>

\* The scan is over: start() spawns the workers, a maintenance round goes on to
\* the pending acks.
ScanEnd(c) ==
  /\ rec[c].pc = "visit"
  /\ rec[c].todo = {}
  /\ \/ /\ status[c] = "starting"
        /\ status' = [status EXCEPT ![c] = "up"]
        /\ rec' = [rec EXCEPT ![c].pc = "idle"]
     \/ /\ status[c] \in {"up", "stopping"}
        /\ rec' = [rec EXCEPT ![c].pc = "flush"]
        /\ UNCHANGED status
  /\ UNCHANGED <<lists, keys, wk, history, budgets>>

\* _flush_pending_acks: one LREM per pending envelope; those in failed raise
\* and stay pending.
FlushLua(c, failed) ==
  /\ \E rest \in Filtered(proc[c], Elems(proc[c]) \ (pend[c] \ failed)) :
       proc' = [proc EXCEPT ![c] = rest]
  /\ pend' = [pend EXCEPT ![c] = failed]
  /\ rec' = [rec EXCEPT ![c].pc = "idle"]
  /\ UNCHANGED <<main, dead, keys, status, wk, history>>

FlushPendingAcks(c) ==
  /\ rec[c].pc = "flush"
  /\ FlushLua(c, {})
  /\ UNCHANGED budgets

FlushPendingAcksFails(c) ==
  /\ rec[c].pc = "flush"
  /\ Fault("flush")
  /\ \E failed \in SUBSET pend[c] : failed # {} /\ FlushLua(c, failed)

\* What task.cancel() does to a worker.  Inside the try block of process() it
\* still runs the finally clauses; at acquire, early in the work (the timer is
\* cancelled before the try block) and in the release itself only the lock is
\* given back; everywhere else the coroutine just ends.
Cancelled(s, early) ==
  IF s.pc \in {"send", "mark"} \/ (s.pc = "work" /\ ~early)
  THEN [s EXCEPT !.pc = "release", !.out = "cancel"]
  ELSE IF s.pc \in {"dedup", "work", "post", "release"}
       THEN [s EXCEPT !.pc = "unlock", !.out = "cancel"]
       ELSE IdleWorker

\* Replies whose done mark is cut off when the workers of c end here.
CutOff(c) == {Msg(w) : w \in {v \in WorkersOf(c) : wk[v].pc = "mark"}}

\* stop(): cancel the workers.  A cancelled call that Redis had already executed
\* leaves a state that cancelling one await later, or after an exception of
\* process(), leaves as well.
StopWorkers(c) ==
  /\ c \in Mortal
  /\ status[c] = "up"
  /\ status' = [status EXCEPT ![c] = "stopping"]
  /\ \E Early \in SUBSET WorkersOf(c) :
       wk' = [w \in Workers |-> IF OwnerOf[w] = c THEN Cancelled(wk[w], w \in Early)
                                                 ELSE wk[w]]
  /\ excused' = excused \cup CutOff(c)
  /\ UNCHANGED <<lists, keys, rec, enq, settled, sends, exposed, budgets>>

\* The workers have ended: cancel the maintenance task, then _requeue_orphans
\* on the own list.
StopMaintenance(c) ==
  /\ status[c] = "stopping"
  /\ \A w \in WorkersOf(c) : wk[w].pc = "idle"
  /\ status' = [status EXCEPT ![c] = "closing"]
  /\ rec' = [rec EXCEPT ![c] = [IdleRec(c) EXCEPT !.pc = "read"]]
  /\ UNCHANGED <<lists, keys, wk, history, budgets>>

\* The sweep is over: delete the heartbeat and close.
StopEnd(c) ==
  /\ status[c] = "closing"
  /\ rec[c].pc = "visit"
  /\ status' = [status EXCEPT ![c] = "gone"]
  /\ heartbeat' = [heartbeat EXCEPT ![c] = FALSE]
  /\ rec' = [rec EXCEPT ![c] = IdleRec(c)]
  /\ pend' = [pend EXCEPT ![c] = {}]
  /\ UNCHANGED <<main, proc, dead, lock, procKey, doneKey, wk, history, budgets>>

\* The process dies at any point; only Redis remembers.
Crash(c) ==
  /\ c \in Mortal
  /\ status[c] \in Running
  /\ status' = [status EXCEPT ![c] = "gone"]
  /\ wk' = [w \in Workers |-> IF OwnerOf[w] = c THEN IdleWorker ELSE wk[w]]
  /\ rec' = [rec EXCEPT ![c] = IdleRec(c)]
  /\ pend' = [pend EXCEPT ![c] = {}]
  /\ excused' = excused \cup CutOff(c)
  /\ UNCHANGED <<main, proc, dead, keys, enq, settled, sends, exposed, budgets>>

-------------------------------------------------------------------------------
(***************************************************************************)
(* Keys that expire.                                                       *)
(***************************************************************************)

\* Mutant: the heartbeat key has no TTL.
HeartbeatExpireNever(c) == heartbeat[c] /\ ~heartbeat[c] /\ UNCHANGED vars

\* The heartbeat of a process that is gone runs out.
HeartbeatExpire(c) ==
  /\ heartbeat[c]
  /\ status[c] = "gone"
  /\ heartbeat' = [heartbeat EXCEPT ![c] = FALSE]
  /\ UNCHANGED <<lists, lock, procKey, doneKey, status, wk, rec, history, budgets>>

HeartbeatLapse(c) ==
  /\ heartbeat[c]
  /\ status[c] \in Running
  /\ Lapse("heartbeat")
  /\ heartbeat' = [heartbeat EXCEPT ![c] = FALSE]
  /\ UNCHANGED <<lists, lock, procKey, doneKey, status, wk, rec, history>>

\* Mutant: the lock key has no TTL.
LockExpireNever(u) == lock[u] # lock[u] /\ UNCHANGED vars

\* A lock nobody will release any more: its worker died, was cancelled at the
\* wrong moment, or failed to release it.
LockExpire(u) ==
  /\ lock[u] # NoWorker
  /\ ~InSection(lock[u], u)
  /\ lock' = [lock EXCEPT ![u] = NoWorker]
  /\ UNCHANGED <<lists, heartbeat, procKey, doneKey, status, wk, rec, history, budgets>>

LockLapse(u) ==
  /\ lock[u] # NoWorker
  /\ InSection(lock[u], u)
  /\ Lapse("lock")
  /\ lock' = [lock EXCEPT ![u] = NoWorker]
  /\ exposed' = exposed \cup {u}
  /\ UNCHANGED <<lists, heartbeat, procKey, doneKey, status, wk, rec, enq, settled,
                 sends, excused>>

ProcKeyExpire(m) ==
  /\ m \in procKey
  /\ ~\E w \in Workers : Processing(w, m)
  /\ procKey' = procKey \ {m}
  /\ UNCHANGED <<lists, heartbeat, lock, doneKey, status, wk, rec, history, budgets>>

ProcKeyLapse(m) ==
  /\ m \in procKey
  /\ \E w \in Workers : Processing(w, m)
  /\ Lapse("procKey")
  /\ procKey' = procKey \ {m}
  /\ UNCHANGED <<lists, heartbeat, lock, doneKey, status, wk, rec, history>>

DoneKeyLapse(m) ==
  /\ m \in doneKey
  /\ Lapse("doneKey")
  /\ doneKey' = doneKey \ {m}
  /\ excused' = excused \cup {m}
  /\ UNCHANGED <<lists, heartbeat, lock, procKey, status, wk, rec, enq, settled,
                 sends, exposed>>

-------------------------------------------------------------------------------
ProcessStep(w) ==
  \/ Acquire(w) \/ Work(w) \/ Send(w) \/ MarkDone(w) \/ Post(w) \/ Release(w)

WorkerStep(w) ==
  \/ Blmove(w) \/ MarkProcessingStarted(w) \/ HandleUnreadable(w) \/ TryLock(w)
  \/ ProcessStep(w) \/ Unlock(w) \/ Ack(w) \/ MoveTo(w) \/ LeaveInProc(w)

WorkerFault(w) ==
  \/ BlmoveReplyLost(w) \/ MarkProcessingStartedFails(w) \/ TryLockFails(w)
  \/ AcquireFails(w) \/ MarkDoneFails(w) \/ PostFails(w) \/ ReleaseFails(w)
  \/ UnlockFails(w) \/ AckFails(w) \/ MoveToFails(w)

ConsumerStep(c) ==
  \/ Start(c) \/ TouchHeartbeat(c) \/ ScanProcKeys(c) \/ (\E o \in Consumers : CheckOwner(c, o))
  \/ ReadOrphans(c) \/ ReleaseOrphan(c) \/ RequeueOrphans(c) \/ ScanEnd(c)
  \/ FlushPendingAcks(c) \/ StopMaintenance(c) \/ StopEnd(c)

ConsumerFault(c) ==
  \/ (\E o \in Consumers : CheckOwnerFails(c, o)) \/ ReadOrphansFails(c)
  \/ ReleaseOrphanFails(c) \/ RequeueOrphansFails(c) \/ FlushPendingAcksFails(c)

Shutdown(c) == StopWorkers(c) \/ Crash(c)

Next ==
  \/ \E d \in Deliveries : Enqueue(d)
  \/ \E w \in Workers : WorkerStep(w) \/ WorkerFault(w)
  \/ \E c \in Consumers :
       \/ ConsumerStep(c) \/ ConsumerFault(c) \/ Shutdown(c)
       \/ HeartbeatExpire(c) \/ HeartbeatLapse(c)
  \/ \E u \in Users : LockExpire(u) \/ LockLapse(u)
  \/ \E m \in Msgs : ProcKeyExpire(m) \/ ProcKeyLapse(m) \/ DoneKeyLapse(m)

Spec == Init /\ [][Next]_vars

\* Coroutines of a live process are scheduled, Redis calls return, process()
\* ends (its HTTP clients have timeouts) and Redis expires abandoned keys.
\* Nothing is assumed of enqueueing, faults, lapses, stops and crashes.
Fairness ==
  /\ \A w \in Workers : WF_vars(WorkerStep(w))
  /\ \A c \in Consumers : WF_vars(ConsumerStep(c)) /\ WF_vars(HeartbeatExpire(c))
  /\ \A u \in Users : WF_vars(LockExpire(u))

FairSpec == Spec /\ Fairness

-------------------------------------------------------------------------------
(***************************************************************************)
(* Properties.                                                             *)
(***************************************************************************)

WorkerStates ==
  [pc : Pcs, raw : Raw \cup {NoRaw}, tok : BOOLEAN, out : Outcomes]

RecStates ==
  [pc : RecPcs, owner : Consumers, items : Seq(Raw), next : Nat,
   ready : BOOLEAN, todo : SUBSET Consumers]

ListTypes ==
  /\ main \in Seq(Raw)
  /\ proc \in [Consumers -> Seq(Raw)]
  /\ dead \subseteq Deliveries
  /\ pend \in [Consumers -> SUBSET Raw]

KeyTypes ==
  /\ heartbeat \in [Consumers -> BOOLEAN]
  /\ lock \in [Users -> Workers \cup {NoWorker}]
  /\ procKey \subseteq Msgs
  /\ doneKey \subseteq Msgs

WorkerTypes ==
  /\ wk \in [Workers -> WorkerStates]
  /\ \A w \in Workers : wk[w].pc # "idle" => wk[w].raw \in Raw

ConsumerTypes ==
  /\ status \in [Consumers -> Running \cup {"new", "gone"}]
  /\ rec \in [Consumers -> RecStates]

HistoryTypes ==
  /\ enq \in Seq(Deliveries)
  /\ settled \subseteq Msgs
  /\ sends \in [Msgs -> Nat]
  /\ exposed \subseteq Users
  /\ excused \subseteq Msgs
  /\ faults \in Nat
  /\ lapses \in Nat

\* Type invariant of the Redis keys, the coroutines and the histories; among
\* other things an envelope never shows more failed attempts than _handle lets
\* pass before the dead letters.
TypeOK == ListTypes /\ KeyTypes /\ WorkerTypes /\ ConsumerTypes /\ HistoryTypes

\* _run_with_lock serialises process() per (user, scope): as long as the lock
\* of a user was never bypassed (Redis error, fail-open) and never expired
\* under a live holder, at most one worker of all processes is inside.
MutualExclusion ==
  \A u \in Users \ exposed : \A v, w \in Workers :
    InSection(v, u) /\ InSection(w, u) => v = w

\* The token in _RELEASE_LUA: while the holder of a lock is inside its section
\* the key goes away only with a step of the holder or by its TTL, even when an
\* earlier holder, whose own lock had lapsed, releases late.
OnlyHolderUnlocks ==
  [][\A u \in Users :
       lock[u] # NoWorker /\ InSection(lock[u], u) /\ lock'[u] # lock[u]
         => wk'[lock[u]] # wk[lock[u]] \/ lapses' # lapses]_vars

Ids(s) == {s[i].id : i \in DOMAIN s}

\* Every LREM/LPUSH pair of claim, retry, dead letter and recovery moves a
\* delivery: it is never in two lists, nor twice in one.
DeliveryUnique ==
  /\ \A i, j \in DOMAIN main : main[i].id = main[j].id => i = j
  /\ \A c \in Consumers : \A i, j \in DOMAIN proc[c] :
       proc[c][i].id = proc[c][j].id => i = j
  /\ \A c \in Consumers : Ids(proc[c]) \cap (Ids(main) \cup dead) = {}
  /\ \A b, c \in Consumers : b # c => Ids(proc[b]) \cap Ids(proc[c]) = {}
  /\ Ids(main) \cap dead = {}

\* "done" stops redelivery from answering twice: a msgid gets a second confirmed
\* reply only if its done mark was cut off, failed or expired, or if the lock of
\* its user did not hold.
AtMostOnceReply ==
  \A m \in Msgs : \/ sends[m] <= 1
                  \/ m \in excused
                  \/ UserOf[m] \in exposed

Present(d) ==
  d \in dead \/ d \in Ids(main) \/ \E c \in Consumers : d \in Ids(proc[c])

\* Messages survive restarts and crashes: a delivery leaves the lists only when
\* process() has decided about its msgid (replied, had nothing to say, or saw
\* the send fail); until then some delivery of that msgid is still there.
NoSilentLoss ==
  \A i \in DOMAIN enq :
    \/ MsgOf[enq[i]] \in settled
    \/ \E d \in Deliveries : MsgOf[d] = MsgOf[enq[i]] /\ Present(d)

ActsIn(c) == rec'[c] # rec[c] \/ \E w \in WorkersOf(c) : wk'[w] # wk[w]

\* As long as the heartbeat of a consumer exists no other instance moves its
\* in-flight deliveries: its proc list changes only in steps of its own.
HeartbeatProtectsProc ==
  [][\A c \in Consumers :
       heartbeat[c] /\ proc'[c] # proc[c] /\ faults' = faults => ActsIn(c)]_vars

Listed(d) ==
  {r \in Elems(main) \cup UNION {Elems(proc[c]) : c \in Consumers} : r.id = d}

\* A retry replaces the old text of the envelope: no step puts a delivery back
\* with fewer attempts than it had, so the retry budget cannot start over.
AttemptsNeverReset ==
  [][\A d \in Deliveries : \A r \in Listed(d) : \A q \in Listed(d)' :
       r.attempts <= q.attempts]_vars

\* Every delivery is eventually acknowledged or dead-lettered, whatever crashes,
\* stops and lock contention do, while at least one consumer survives.
EveryDeliveryResolved ==
  \A d \in Deliveries :
    (d \in Elems(enq)) ~> (d \in dead \/ ~Present(d))

===============================================================================
