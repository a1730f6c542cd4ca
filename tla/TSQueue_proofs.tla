---------------------------- MODULE TSQueue_proofs -----------------------------
(***************************************************************************)
(* Theorems about the blocking queue, for any sets of producers and        *)
(* consumers and any number of pushes.                                     *)
(***************************************************************************)
EXTENDS TSQueue, TLAPS, FiniteSetTheorems, SequenceTheorems

USE DEF Threads, Item, None

\* The items of the queue and its locals keep their types.
LEMMA TypeStep == TypeOK /\ RoleInv /\ PopSafe /\ [Next]_vars => TypeOK'
<1> SUFFICES ASSUME TypeOK, RoleInv, PopSafe, [Next]_vars PROVE TypeOK'
  OBVIOUS
<1> USE ThreadAssumption, BoundAssumption
<1>1. ASSUME NEW p \in Producers, PushLock(p) PROVE TypeOK'
  BY <1>1 DEF TypeOK, PushLock, Lock, Goto
<1>2. ASSUME NEW p \in Producers, PushInsert(p) PROVE TypeOK'
  <2>1. sent[p] \in Nat /\ sent[p] + 1 \in 1 .. MaxPushes
    BY <1>2 DEF TypeOK, RoleInv, PushInsert
  <2>2. m_queue' \in Seq(Item)
    BY <1>2, <2>1 DEF TypeOK, PushInsert
  <2>3. sent' \in [Producers -> 0 .. MaxPushes]
    BY <1>2, <2>1 DEF TypeOK, PushInsert
  <2>4. QED
    BY <1>2, <2>2, <2>3 DEF TypeOK, PushInsert, Goto
<1>3. ASSUME NEW p \in Producers, PushNotify(p) PROVE TypeOK'
  BY <1>3 DEF TypeOK, PushNotify, Unlock, Goto, Waiting
<1>4. ASSUME NEW c \in Consumers, PopLock(c) PROVE TypeOK'
  BY <1>4 DEF TypeOK, PopLock, Lock, Goto
<1>5. ASSUME NEW c \in Consumers, PopWait(c) PROVE TypeOK'
  BY <1>5 DEF TypeOK, PopWait, Unlock, Goto
<1>6. ASSUME NEW c \in Consumers, SpuriousWake(c) PROVE TypeOK'
  BY <1>6 DEF TypeOK, SpuriousWake, Goto
<1>7. ASSUME NEW c \in Consumers, PopFront(c) PROVE TypeOK'
  <2>1. Head(m_queue) \in Item
    BY <1>7 DEF TypeOK, PopFront
  <2>2. QED
    BY <1>7, <2>1 DEF TypeOK, PopFront, Goto
<1>8. ASSUME NEW c \in Consumers, PopReturn(c) PROVE TypeOK'
  <2>1. m_queue' \in Seq(Item)
    BY <1>8 DEF TypeOK, PopReturn, PopSafe
  <2>2. QED
    BY <1>8, <2>1 DEF TypeOK, PopReturn, Unlock, Goto
<1>9. CASE UNCHANGED vars
  BY <1>9 DEF TypeOK, vars
<1>10. QED
  BY <1>1, <1>2, <1>3, <1>4, <1>5, <1>6, <1>7, <1>8, <1>9
  DEF Next, Push, Pop

\* Critical sections exclude each other, and every thread keeps to its role.
LEMMA MutexStep ==
  TypeOK /\ MutexInv /\ RoleInv /\ [Next]_vars => MutexInv' /\ RoleInv'
<1> SUFFICES ASSUME TypeOK, MutexInv, RoleInv, [Next]_vars
             PROVE  MutexInv' /\ RoleInv'
  OBVIOUS
<1> USE ThreadAssumption, BoundAssumption
    DEF TypeOK, MutexInv, RoleInv, InSection, Lock, Unlock, Goto
<1>1. ASSUME NEW p \in Producers, PushLock(p) PROVE MutexInv' /\ RoleInv'
  BY <1>1 DEF PushLock
<1>2. ASSUME NEW p \in Producers, PushInsert(p) PROVE MutexInv' /\ RoleInv'
  BY <1>2 DEF PushInsert
<1>3. ASSUME NEW p \in Producers, PushNotify(p) PROVE MutexInv' /\ RoleInv'
  BY <1>3 DEF PushNotify, Waiting
<1>4. ASSUME NEW c \in Consumers, PopLock(c) PROVE MutexInv' /\ RoleInv'
  BY <1>4 DEF PopLock
<1>5. ASSUME NEW c \in Consumers, PopWait(c) PROVE MutexInv' /\ RoleInv'
  BY <1>5 DEF PopWait
<1>6. ASSUME NEW c \in Consumers, SpuriousWake(c) PROVE MutexInv' /\ RoleInv'
  BY <1>6 DEF SpuriousWake
<1>7. ASSUME NEW c \in Consumers, PopFront(c) PROVE MutexInv' /\ RoleInv'
  BY <1>7 DEF PopFront
<1>8. ASSUME NEW c \in Consumers, PopReturn(c) PROVE MutexInv' /\ RoleInv'
  BY <1>8 DEF PopReturn
<1>9. CASE UNCHANGED vars
  BY <1>9 DEF vars
<1>10. QED
  BY <1>1, <1>2, <1>3, <1>4, <1>5, <1>6, <1>7, <1>8, <1>9
  DEF Next, Push, Pop

\* Only the owner of the mutex changes the queue, so the item a consumer has
\* read stays at the front until it pops it.
LEMMA PopSafeStep ==
  TypeOK /\ MutexInv /\ PopSafe /\ [Next]_vars => PopSafe'
<1> SUFFICES ASSUME TypeOK, MutexInv, PopSafe, [Next]_vars,
                    NEW d \in Consumers, pc'[d] = "pop"
             PROVE  m_queue' # <<>> /\ item'[d] = Head(m_queue')
  BY DEF PopSafe
<1> USE ThreadAssumption DEF TypeOK, MutexInv, PopSafe, InSection, Goto
<1> DEFINE Goal == m_queue' # <<>> /\ item'[d] = Head(m_queue')
<1>1. ASSUME NEW p \in Producers, PushLock(p) PROVE Goal
  BY <1>1 DEF PushLock
<1>2. ASSUME NEW p \in Producers, PushInsert(p) PROVE Goal
  <2>1. pc[d] = "pop"
    BY <1>2 DEF PushInsert
  <2>2. m_mutex = d /\ m_mutex = p
    BY <1>2, <2>1 DEF PushInsert
  <2>3. QED
    BY <2>2
<1>3. ASSUME NEW p \in Producers, PushNotify(p) PROVE Goal
  BY <1>3 DEF PushNotify, Waiting
<1>4. ASSUME NEW c \in Consumers, PopLock(c) PROVE Goal
  BY <1>4 DEF PopLock
<1>5. ASSUME NEW c \in Consumers, PopWait(c) PROVE Goal
  BY <1>5 DEF PopWait
<1>6. ASSUME NEW c \in Consumers, SpuriousWake(c) PROVE Goal
  BY <1>6 DEF SpuriousWake
<1>7. ASSUME NEW c \in Consumers, PopFront(c) PROVE Goal
  BY <1>7 DEF PopFront
<1>8. ASSUME NEW c \in Consumers, PopReturn(c) PROVE Goal
  <2>1. pc[d] = "pop" /\ c # d
    BY <1>8 DEF PopReturn
  <2>2. m_mutex = d /\ m_mutex = c
    BY <1>8, <2>1 DEF PopReturn
  <2>3. QED
    BY <2>1, <2>2
<1>9. CASE UNCHANGED vars
  BY <1>9 DEF vars
<1>10. QED
  BY <1>1, <1>2, <1>3, <1>4, <1>5, <1>6, <1>7, <1>8, <1>9
  DEF Next, Push, Pop

\* Only one thread is between its Lock and its Unlock.
LEMMA OneInSection ==
  ASSUME TypeOK, MutexInv, NEW s \in Threads, NEW t \in Threads,
         InSection(s), InSection(t)
  PROVE  s = t
  BY DEF MutexInv

\* Awake is finite, so its cardinality is a number.
LEMMA AwakeFinite ==
  /\ IsFiniteSet(Awake)
  /\ Cardinality(Awake) \in Nat
<1>1. IsFiniteSet(Awake)
  BY ThreadAssumption, FS_Subset DEF Awake
<1>2. QED
  BY <1>1, FS_CardinalityType

\* A consumer that starts to look at the queue is one more awake.
LEMMA AwakeAdd ==
  ASSUME NEW c \in Consumers, c \notin Awake, Awake' = Awake \cup {c}
  PROVE  Cardinality(Awake)' = Cardinality(Awake) + 1
  BY AwakeFinite, FS_AddElement

\* One that stops looking is one less.
LEMMA AwakeRemove ==
  ASSUME NEW c \in Awake, Awake' = Awake \ {c}
  PROVE  Cardinality(Awake)' = Cardinality(Awake) - 1
  BY AwakeFinite, FS_RemoveElement

\* While some consumer sleeps, every queued item but the one being notified
\* has an awake consumer of its own.
LEMMA WakeupStep ==
  /\ TypeOK /\ MutexInv /\ RoleInv /\ PopSafe /\ NoLostWakeup
  /\ [Next]_vars
  => NoLostWakeup'
<1> SUFFICES ASSUME TypeOK, MutexInv, RoleInv, PopSafe, NoLostWakeup,
                    [Next]_vars, Waiting' # {}
             PROVE  \/ Len(m_queue') <= Cardinality(Awake)'
                    \/ /\ Notifying' # {}
                       /\ Len(m_queue') = Cardinality(Awake)' + 1
  BY DEF NoLostWakeup
<1> DEFINE L == Len(m_queue)
           A == Cardinality(Awake)
           Goal == \/ Len(m_queue') <= Cardinality(Awake)'
                   \/ /\ Notifying' # {}
                      /\ Len(m_queue') = Cardinality(Awake)' + 1
<1>0. L \in Nat /\ A \in Nat
  BY AwakeFinite DEF TypeOK
<1> USE ThreadAssumption
<1>1. ASSUME NEW p \in Producers, PushLock(p) PROVE Goal
  <2>1. Waiting' = Waiting /\ Awake' = Awake /\ m_queue' = m_queue
    BY <1>1 DEF PushLock, Goto, Waiting, Awake, TypeOK
  <2>2. Notifying = Notifying'
    BY <1>1 DEF PushLock, Goto, Notifying, TypeOK
  <2>3. QED
    BY <2>1, <2>2 DEF NoLostWakeup
<1>2. ASSUME NEW p \in Producers, PushInsert(p) PROVE Goal
  <2>1. Waiting' = Waiting /\ Awake' = Awake
    BY <1>2 DEF PushInsert, Goto, Waiting, Awake, TypeOK
  <2>2. Notifying = {}
    BY <1>2, OneInSection DEF PushInsert, Notifying, InSection
  <2>3. p \in Notifying'
    BY <1>2 DEF PushInsert, Goto, Notifying, TypeOK
  <2>4. Len(m_queue') = L + 1
    BY <1>2 DEF PushInsert, TypeOK
  <2>5. L <= A
    BY <2>1, <2>2 DEF NoLostWakeup
  <2>6. Cardinality(Awake)' = A
    BY <2>1
  <2>7. QED
    BY <1>0, <2>3, <2>4, <2>5, <2>6
<1>3. ASSUME NEW p \in Producers, PushNotify(p) PROVE Goal
  <2>1. m_queue' = m_queue
    BY <1>3 DEF PushNotify
  <2>2. Waiting # {}
    BY <1>3 DEF PushNotify, Goto, Waiting, TypeOK
  <2>3. PICK c \in Waiting : pc' = [pc EXCEPT ![p] = "idle", ![c] = "wake"]
    BY <1>3, <2>2 DEF PushNotify
  <2>4. c \in Consumers /\ c \notin Awake
    BY <2>3 DEF Waiting, Awake
  <2>5. Awake' = Awake \cup {c}
    BY <2>3, <2>4 DEF Awake, TypeOK
  <2>6. Cardinality(Awake)' = A + 1
    BY <2>4, <2>5, AwakeAdd
  <2>7. QED
    BY <1>0, <2>1, <2>2, <2>6 DEF NoLostWakeup
<1>4. ASSUME NEW c \in Consumers, PopLock(c) PROVE Goal
  <2>1. m_queue' = m_queue /\ Waiting' = Waiting /\ Notifying' = Notifying
    BY <1>4 DEF PopLock, Goto, Waiting, Notifying, TypeOK
  <2>2. CASE pc[c] = "idle"
    <3>1. c \notin Awake /\ Awake' = Awake \cup {c}
      BY <1>4, <2>2 DEF PopLock, Goto, Awake, TypeOK
    <3>2. Cardinality(Awake)' = A + 1
      BY <3>1, AwakeAdd
    <3>3. QED
      BY <1>0, <2>1, <3>2 DEF NoLostWakeup
  <2>3. CASE pc[c] = "wake"
    <3>1. Awake' = Awake
      BY <1>4, <2>3 DEF PopLock, Goto, Awake, TypeOK
    <3>2. QED
      BY <2>1, <3>1 DEF NoLostWakeup
  <2>4. QED
    BY <1>4, <2>2, <2>3 DEF PopLock
<1>5. ASSUME NEW c \in Consumers, PopWait(c) PROVE Goal
  <2>1. Len(m_queue') = 0
    BY <1>5 DEF PopWait
  <2>2. Cardinality(Awake)' \in Nat
    <3>1. IsFiniteSet(Awake')
      BY FS_Subset DEF Awake
    <3>2. QED
      BY <3>1, FS_CardinalityType
  <2>3. QED
    BY <2>1, <2>2
<1>6. ASSUME NEW c \in Consumers, SpuriousWake(c) PROVE Goal
  <2>1. m_queue' = m_queue /\ Notifying' = Notifying
    BY <1>6 DEF SpuriousWake, Goto, Notifying, TypeOK
  <2>2. Waiting # {}
    BY <1>6 DEF SpuriousWake, Waiting
  <2>3. c \notin Awake /\ Awake' = Awake \cup {c}
    BY <1>6 DEF SpuriousWake, Goto, Awake, TypeOK
  <2>4. Cardinality(Awake)' = A + 1
    BY <2>3, AwakeAdd
  <2>5. QED
    BY <1>0, <2>1, <2>2, <2>4 DEF NoLostWakeup
<1>7. ASSUME NEW c \in Consumers, PopFront(c) PROVE Goal
  <2>1. /\ m_queue' = m_queue
        /\ Waiting' = Waiting
        /\ Awake' = Awake
        /\ Notifying' = Notifying
    BY <1>7 DEF PopFront, Goto, Waiting, Awake, Notifying, TypeOK
  <2>2. QED
    BY <2>1 DEF NoLostWakeup
<1>8. ASSUME NEW c \in Consumers, PopReturn(c) PROVE Goal
  <2>1. Waiting' = Waiting
    BY <1>8 DEF PopReturn, Goto, Waiting, TypeOK
  <2>2. Notifying = {}
    BY <1>8, OneInSection DEF PopReturn, Notifying, InSection
  <2>3. c \in Awake /\ Awake' = Awake \ {c}
    BY <1>8 DEF PopReturn, Goto, Awake, TypeOK
  <2>4. Cardinality(Awake)' = A - 1
    BY <2>3, AwakeRemove
  <2>5. Len(m_queue') = L - 1
    BY <1>8 DEF PopReturn, PopSafe, TypeOK
  <2>6. L <= A
    BY <2>1, <2>2 DEF NoLostWakeup
  <2>7. QED
    BY <1>0, <2>4, <2>5, <2>6
<1>9. CASE UNCHANGED vars
  <2>1. /\ m_queue' = m_queue
        /\ Waiting' = Waiting
        /\ Awake' = Awake
        /\ Notifying' = Notifying
    BY <1>9 DEF vars, Waiting, Awake, Notifying
  <2>2. QED
    BY <2>1 DEF NoLostWakeup
<1>10. QED
  BY <1>1, <1>2, <1>3, <1>4, <1>5, <1>6, <1>7, <1>8, <1>9
  DEF Next, Push, Pop

-------------------------------------------------------------------------------
\* The initial state: an empty queue, a free mutex and idle threads.
LEMMA QueueInit == Init => QueueInv
<1> SUFFICES ASSUME Init PROVE QueueInv
  OBVIOUS
<1> USE ThreadAssumption, BoundAssumption
<1>1. TypeOK
  BY DEF Init, TypeOK
<1>2. MutexInv /\ RoleInv /\ PopSafe
  BY DEF Init, MutexInv, RoleInv, PopSafe, InSection
<1>3. NoLostWakeup
  BY DEF Init, NoLostWakeup, Waiting
<1>4. QED
  BY <1>1, <1>2, <1>3 DEF QueueInv

\* The inductive invariant of the queue.
THEOREM QueueInvariant == Spec => []QueueInv
<1>1. QueueInv /\ [Next]_vars => QueueInv'
  BY TypeStep, MutexStep, PopSafeStep, WakeupStep DEF QueueInv
<1>2. QED
  BY <1>1, QueueInit, PTL DEF Spec

\* Every variable keeps its type, in particular the queue holds only items
\* that a producer pushed.
THEOREM TypeCorrect == Spec => []TypeOK
<1>1. QueueInv => TypeOK
  BY DEF QueueInv
<1>2. QED
  BY <1>1, QueueInvariant, PTL

\* No consumer pops an item other than the one it read (tsqueue.h:50-52).
THEOREM PopIsSafe == Spec => []PopSafe
<1>1. QueueInv => PopSafe
  BY DEF QueueInv
<1>2. QED
  BY <1>1, QueueInvariant, PTL

\* A sleeping consumer never misses an item that waits for it, although push
\* notifies one thread only (tsqueue.h:35).
THEOREM WakeupIsSafe == Spec => []NoLostWakeup
<1>1. QueueInv => NoLostWakeup
  BY DEF QueueInv
<1>2. QED
  BY <1>1, QueueInvariant, PTL

\* A step of push or pop is a step of the channel or leaves it alone.
LEMMA ChannelStep ==
  QueueInv /\ [Next]_vars => [Channel!ChannelNext]_Channel!channelVars
<1> SUFFICES ASSUME QueueInv, [Next]_vars
             PROVE  [Channel!ChannelNext]_Channel!channelVars
  OBVIOUS
<1> USE DEF Channel!ChannelNext, Channel!channelVars
<1>1. ASSUME NEW p \in Producers, PushInsert(p) PROVE Channel!Send(p)
  BY <1>1 DEF PushInsert, Channel!Send, QueueInv, RoleInv
<1>2. ASSUME NEW c \in Consumers, PopReturn(c) PROVE Channel!Receive(c)
  BY <1>2 DEF PopReturn, Channel!Receive, QueueInv, PopSafe
<1>3. ASSUME NEW p \in Producers, PushLock(p) \/ PushNotify(p)
      PROVE  UNCHANGED <<sent, m_queue, got>>
  BY <1>3 DEF PushLock, PushNotify
<1>4. ASSUME NEW c \in Consumers,
             PopLock(c) \/ PopWait(c) \/ PopFront(c) \/ SpuriousWake(c)
      PROVE  UNCHANGED <<sent, m_queue, got>>
  BY <1>4 DEF PopLock, PopWait, PopFront, SpuriousWake
<1>5. CASE UNCHANGED vars
  BY <1>5 DEF vars
<1>6. QED
  BY <1>1, <1>2, <1>3, <1>4, <1>5 DEF Next, Push, Pop

\* The queue implements the channel: whatever the threads do, each event is
\* delivered once, in the order of the pushes.
THEOREM QueueIsChannel == Spec => ImplementsChannel
<1>1. Init => Channel!ChannelInit
  BY DEF Init, Channel!ChannelInit, Channel!None
<1>2. QED
  BY <1>1, ChannelStep, QueueInvariant, PTL
  DEF Spec, ImplementsChannel, Channel!ChannelSpec
===============================================================================
