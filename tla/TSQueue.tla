------------------------------- MODULE TSQueue --------------------------------
(***************************************************************************)
(* lib/democle/tsqueue.h: the blocking queue that carries the events of an *)
(* engine.  Any thread may push (a program's main thread, sensors, the TCP *)
(* thread, other engines); Engine::run pops.  The template itself does not *)
(* limit the number of poppers, so Consumers is a set.                     *)
(*                                                                         *)
(* push and pop are split at every point where another thread can run or   *)
(* could run if m_mutex were not held.  m_cond is the set of consumers     *)
(* whose pc is "wait"; notify_one moves one of them to "wake", and so may  *)
(* the implementation on its own (a spurious wake-up).                     *)
(***************************************************************************)
EXTENDS Naturals, Sequences, FiniteSets

CONSTANTS
  Producers,   \* threads that push
  Consumers,   \* threads that pop
  MaxPushes,   \* bound: pushes per producer
  NoThread     \* owner of a free mutex

ASSUME ThreadAssumption ==
  /\ Producers \cap Consumers = {}
  /\ NoThread \notin Producers \cup Consumers
  /\ IsFiniteSet(Consumers)

ASSUME BoundAssumption == MaxPushes \in Nat

VARIABLES
  m_queue,     \* the std::queue, oldest item first
  m_mutex,     \* the thread that holds the mutex, or NoThread
  pc,          \* where each thread is in push or pop
  item,        \* the local of pop: the item read at the front
  sent,        \* number of completed insertions of each producer
  got          \* what the last pop of each consumer returned

vars == <<m_queue, m_mutex, pc, item, sent, got>>

Threads == Producers \cup Consumers

\* got and item before the first pop.
None == <<>>

\* The n-th pointer pushed by p: pushes of one producer are told apart.
Item == Producers \X (1 .. MaxPushes)

Init ==
  /\ m_queue = <<>>
  /\ m_mutex = NoThread
  /\ pc = [t \in Threads |-> "idle"]
  /\ item = [c \in Consumers |-> None]
  /\ sent = [p \in Producers |-> 0]
  /\ got = [c \in Consumers |-> None]

\* Fault: lock() does not wait for the owner.
LockAnyway(t) == m_mutex' = t

Lock(t) == m_mutex = NoThread /\ m_mutex' = t

\* Fault: the lock is not released.
NoUnlock == UNCHANGED m_mutex

Unlock == m_mutex' = NoThread

Goto(t, label) == pc' = [pc EXCEPT ![t] = label]

\* Fault: notify_one finds nobody.
NobodyWaiting == {}

Waiting == {c \in Consumers : pc[c] = "wait"}

(***************************************************************************)
(* push                                                                    *)
(***************************************************************************)
PushLock(p) ==
  /\ pc[p] = "idle"
  /\ sent[p] < MaxPushes
  /\ Lock(p)
  /\ Goto(p, "insert")
  /\ UNCHANGED <<m_queue, item, sent, got>>

\* Fault: something other than the argument is queued.
PushInsertUnset(p) ==
  /\ pc[p] = "insert"
  /\ m_queue' = Append(m_queue, None)
  /\ sent' = [sent EXCEPT ![p] = @ + 1]
  /\ Goto(p, "notify")
  /\ UNCHANGED <<m_mutex, item, got>>

\* Fault: the item is inserted at the front.
PushInsertFront(p) ==
  /\ pc[p] = "insert"
  /\ m_queue' = <<<<p, sent[p] + 1>>>> \o m_queue
  /\ sent' = [sent EXCEPT ![p] = @ + 1]
  /\ Goto(p, "notify")
  /\ UNCHANGED <<m_mutex, item, got>>

PushInsert(p) ==
  /\ pc[p] = "insert"
  /\ m_queue' = Append(m_queue, <<p, sent[p] + 1>>)
  /\ sent' = [sent EXCEPT ![p] = @ + 1]
  /\ Goto(p, "notify")
  /\ UNCHANGED <<m_mutex, item, got>>

\* Fault: only a push into an empty queue notifies.
PushNotifyFirst(p) ==
  /\ pc[p] = "notify"
  /\ \/ /\ Waiting = {} \/ Len(m_queue) > 1
        /\ Goto(p, "idle")
     \/ /\ Len(m_queue) = 1
        /\ \E c \in Waiting : pc' = [pc EXCEPT ![p] = "idle", ![c] = "wake"]
  /\ Unlock
  /\ UNCHANGED <<m_queue, item, sent, got>>

\* notify_one, then the destructor of the lock.
PushNotify(p) ==
  /\ pc[p] = "notify"
  /\ \/ /\ Waiting = {}
        /\ Goto(p, "idle")
     \/ \E c \in Waiting : pc' = [pc EXCEPT ![p] = "idle", ![c] = "wake"]
  /\ Unlock
  /\ UNCHANGED <<m_queue, item, sent, got>>

(***************************************************************************)
(* pop: m_cond.wait(lock, pred) is while (!pred()) wait(lock), and wait    *)
(* gives the mutex up and takes it again before it returns.                *)
(***************************************************************************)
PopLock(c) ==
  /\ pc[c] \in {"idle", "wake"}
  /\ Lock(c)
  /\ Goto(c, "check")
  /\ UNCHANGED <<m_queue, item, sent, got>>

PopWait(c) ==
  /\ pc[c] = "check"
  /\ m_queue = <<>>
  /\ Goto(c, "wait")
  /\ Unlock
  /\ UNCHANGED <<m_queue, item, sent, got>>

SpuriousWake(c) ==
  /\ pc[c] = "wait"
  /\ Goto(c, "wake")
  /\ UNCHANGED <<m_queue, m_mutex, item, sent, got>>

PopFront(c) ==
  /\ pc[c] = "check"
  /\ m_queue # <<>>
  /\ item' = [item EXCEPT ![c] = Head(m_queue)]
  /\ Goto(c, "pop")
  /\ UNCHANGED <<m_queue, m_mutex, sent, got>>

\* m_queue.pop(), the destructor of the lock, and the return of item.
PopReturn(c) ==
  /\ pc[c] = "pop"
  /\ m_queue' = Tail(m_queue)
  /\ got' = [got EXCEPT ![c] = item[c]]
  /\ Goto(c, "idle")
  /\ Unlock
  /\ UNCHANGED <<item, sent>>

Push(p) == PushLock(p) \/ PushInsert(p) \/ PushNotify(p)

Pop(c) == PopLock(c) \/ PopWait(c) \/ PopFront(c) \/ PopReturn(c)

Next ==
  \/ \E p \in Producers : Push(p)
  \/ \E c \in Consumers : Pop(c) \/ SpuriousWake(c)

Spec == Init /\ [][Next]_vars

(***************************************************************************)
(* A thread inside push or pop is scheduled again, and a consumer that has *)
(* returned from pop pops again (the while loop of Engine::run).  Nothing  *)
(* obliges a producer to push, or the implementation to wake spuriously.   *)
(***************************************************************************)
Fairness ==
  /\ \A p \in Producers : WF_vars(PushInsert(p) \/ PushNotify(p))
  /\ \A c \in Consumers : WF_vars(Pop(c))

FairSpec == Spec /\ Fairness

-------------------------------------------------------------------------------
\* The types of the variables.
TypeOK ==
  /\ m_queue \in Seq(Item)
  /\ m_mutex \in Threads \cup {NoThread}
  /\ pc \in [Threads -> {"idle", "insert", "notify",
                         "check", "wait", "wake", "pop"}]
  /\ item \in [Consumers -> Item \cup {None}]
  /\ sent \in [Producers -> 0 .. MaxPushes]
  /\ got \in [Consumers -> Item \cup {None}]

\* A consumer that is about to run m_queue.pop() (tsqueue.h:51) finds the queue
\* non-empty and at its front the very item it has read: whatever other
\* threads do, no item is popped unread and none is returned twice.
PopSafe ==
  \A c \in Consumers :
    pc[c] = "pop" => m_queue # <<>> /\ item[c] = Head(m_queue)

\* Consumers that will look at the queue again without being notified.
Awake == {c \in Consumers : pc[c] \in {"wake", "check", "pop"}}

Notifying == {p \in Producers : pc[p] = "notify"}

\* notify_one is enough (tsqueue.h:35): while some consumer sleeps, every
\* queued item has a consumer of its own on the way to it, except the one
\* item whose producer has yet to notify.  So no event stays in the queue of
\* an engine that sleeps.
NoLostWakeup ==
  Waiting # {} =>
    \/ Len(m_queue) <= Cardinality(Awake)
    \/ Notifying # {} /\ Len(m_queue) = Cardinality(Awake) + 1

\* The queue is an EventChannel: pushes and pops of any threads take effect
\* one at a time, first in first out, each item going to one pop.
Channel == INSTANCE EventChannel WITH channel <- m_queue

ImplementsChannel == Channel!ChannelSpec

\* Every item that is pushed is in the end popped.
EventuallyPopped ==
  \A i \in Item :
    (\E k \in DOMAIN m_queue : m_queue[k] = i)
      ~> ~ (\E k \in DOMAIN m_queue : m_queue[k] = i)

(***************************************************************************)
(* The inductive invariant behind PopSafe and NoLostWakeup.                *)
(***************************************************************************)
\* A thread is between Lock and Unlock exactly when it owns the mutex.
InSection(t) == pc[t] \in {"insert", "notify", "check", "pop"}

MutexInv == \A t \in Threads : InSection(t) <=> m_mutex = t

RoleInv ==
  /\ \A p \in Producers : pc[p] \in {"idle", "insert", "notify"}
  /\ \A c \in Consumers : pc[c] \in {"idle", "check", "wait", "wake", "pop"}
  /\ \A p \in Producers : pc[p] = "insert" => sent[p] < MaxPushes

QueueInv == TypeOK /\ MutexInv /\ RoleInv /\ PopSafe /\ NoLostWakeup
===============================================================================
