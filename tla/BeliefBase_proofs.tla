--------------------------- MODULE BeliefBase_proofs ---------------------------
(***************************************************************************)
(* Theorems about the knowledge base, for any finite set of threads, any   *)
(* formulas and any number of operator calls.                              *)
(***************************************************************************)
EXTENDS BeliefEvents, TLAPS, FiniteSetTheorems

\* The initial state: an empty knowledge base and idle threads.
LEMMA StoreInit == Init => StoreInv
<1> SUFFICES ASSUME Init PROVE StoreInv
  OBVIOUS
<1> USE ThreadAssumption, FormulaAssumption, BoundAssumption
<1>1. TypeOK
  BY DEF Init, TypeOK, EventTypes
<1>2. MutexInv /\ PlaceInv /\ NoDuplicates
  BY DEF Init, MutexInv, PlaceInv, NoDuplicates
<1>3. ASSUME NEW f \in Formulas
      PROVE  Pending("add", f) = {} /\ Pending("del", f) = {}
  BY DEF Init, Pending
<1>4. Cardinality({}) = 0
  BY FS_EmptySet
<1>5. ASSUME NEW f \in Formulas
      PROVE  /\ kb[f] = 0
             /\ posted["add"][f] = 0
             /\ posted["del"][f] = 0
  BY DEF Init, EventTypes
<1>6. EventBalance
  BY <1>3, <1>4, <1>5 DEF EventBalance
<1>7. QED
  BY <1>1, <1>2, <1>6 DEF StoreInv

\* Counts stay natural numbers: Change never removes a formula that is absent.
LEMMA TypeStep == StoreInv /\ [Next]_vars => TypeOK'
<1> SUFFICES ASSUME StoreInv, [Next]_vars PROVE TypeOK'
  OBVIOUS
<1> USE ThreadAssumption, FormulaAssumption, BoundAssumption
    DEF EventTypes, Goto
<1>0. TypeOK
  BY DEF StoreInv
<1>1. ASSUME NEW t \in Threads, NEW ty \in EventTypes, NEW f \in Formulas,
             NEW label \in {"lock", "push"}, Enter(t, ty, f, label)
      PROVE  TypeOK'
  <2>1. pc' \in [Threads -> {"idle", "lock", "scan", "change", "push"}]
    BY <1>0, <1>1 DEF TypeOK, Enter
  <2>2. type' \in [Threads -> EventTypes] /\ arg' \in [Threads -> Formulas]
    BY <1>0, <1>1 DEF TypeOK, Enter
  <2>3. calls' \in 0 .. MaxCalls
    BY <1>0, <1>1 DEF TypeOK, Enter
  <2>4. UNCHANGED <<kb, m_mutex, event_queue, posted, last>>
    BY <1>1 DEF Enter
  <2>5. QED
    BY <1>0, <2>1, <2>2, <2>3, <2>4 DEF TypeOK
<1>2. ASSUME NEW t \in Threads, KbLock(t) PROVE TypeOK'
  BY <1>0, <1>2 DEF TypeOK, KbLock
<1>3. ASSUME NEW t \in Threads, ScanOn(t) PROVE TypeOK'
  BY <1>0, <1>3 DEF TypeOK, ScanOn
<1>4. ASSUME NEW t \in Threads, ScanFalse(t) PROVE TypeOK'
  BY <1>0, <1>4 DEF TypeOK, ScanFalse
<1>5. ASSUME NEW t \in Threads, Change(t) PROVE TypeOK'
  <2>1. arg[t] \in Formulas /\ kb[arg[t]] \in Nat
    BY <1>0 DEF TypeOK
  <2>2. type[t] # "add" => kb[arg[t]] > 0
    BY <1>5 DEF Change, StoreInv, PlaceInv, Found
  <2>3. kb' \in [Formulas -> Nat]
    BY <1>0, <1>5, <2>1, <2>2 DEF TypeOK, Change
  <2>4. QED
    BY <1>0, <1>5, <2>3 DEF TypeOK, Change
<1>6. ASSUME NEW t \in Threads, Push(t) PROVE TypeOK'
  <2>1. arg[t] \in Formulas /\ type[t] \in EventTypes
    BY <1>0 DEF TypeOK
  <2>2. [type |-> type[t], bel |-> arg[t]] \in Event
    BY <2>1 DEF Event
  <2>3. event_queue' \in Seq(Event)
    BY <1>0, <1>6, <2>2 DEF TypeOK, Push
  <2>4. posted' \in [EventTypes -> [Formulas -> Nat]]
    <3>1. /\ posted \in [EventTypes -> [Formulas -> Nat]]
          /\ posted' = [posted EXCEPT ![type[t]][arg[t]] = @ + 1]
      BY <1>0, <1>6 DEF TypeOK, Push
    <3>2. PICK row \in [Formulas -> Nat] : row = [posted[type[t]] EXCEPT ![arg[t]] = @ + 1]
      BY <2>1, <3>1
    <3>3. posted' = [posted EXCEPT ![type[t]] = row]
      BY <3>1, <3>2
    <3>4. QED
      BY <2>1, <3>1, <3>3
  <2>5. QED
    BY <1>0, <1>6, <2>1, <2>3, <2>4 DEF TypeOK, Push
<1>7. CASE Pop
  BY <1>0, <1>7 DEF TypeOK, Pop
<1>8. CASE UNCHANGED vars
  BY <1>0, <1>8 DEF TypeOK, vars
<1>9. QED
  BY <1>1, <1>2, <1>3, <1>4, <1>5, <1>6, <1>7, <1>8
  DEF Next, Step, Add, Del, Call

\* One thread at a time works on the knowledge base, and what its scan found
\* still holds when it changes it.
LEMMA PlaceStep == StoreInv /\ [Next]_vars => MutexInv' /\ PlaceInv'
<1> SUFFICES ASSUME StoreInv, [Next]_vars PROVE MutexInv' /\ PlaceInv'
  OBVIOUS
<1> USE ThreadAssumption, FormulaAssumption DEF EventTypes, Goto
<1>0. TypeOK /\ MutexInv /\ PlaceInv
  BY DEF StoreInv
<1> DEFINE Goal == MutexInv' /\ PlaceInv'
<1>1. ASSUME NEW t \in Threads, NEW f \in Formulas, Add(t, f) PROVE Goal
  BY <1>0, <1>1 DEF Add, Enter, TypeOK, MutexInv, PlaceInv, Found
<1>2. ASSUME NEW t \in Threads, NEW f \in Formulas, Del(t, f) PROVE Goal
  BY <1>0, <1>2 DEF Del, Enter, TypeOK, MutexInv, PlaceInv, Found
<1>3. ASSUME NEW t \in Threads, NEW f \in Formulas, Call(t, f) PROVE Goal
  BY <1>0, <1>3 DEF Call, Enter, TypeOK, MutexInv, PlaceInv, Found
<1>4. ASSUME NEW t \in Threads, KbLock(t) PROVE Goal
  BY <1>0, <1>4 DEF KbLock, TypeOK, MutexInv, PlaceInv, Found
<1>5. ASSUME NEW t \in Threads, ScanOn(t) PROVE Goal
  BY <1>0, <1>5 DEF ScanOn, TypeOK, MutexInv, PlaceInv, Found
<1>6. ASSUME NEW t \in Threads, ScanFalse(t) PROVE Goal
  BY <1>0, <1>6 DEF ScanFalse, TypeOK, MutexInv, PlaceInv, Found
<1>7. ASSUME NEW t \in Threads, Change(t) PROVE Goal
  <2>1. m_mutex = t
    BY <1>0, <1>7 DEF Change, MutexInv
  <2>2. \A u \in Threads \ {t} : pc'[u] = pc[u] /\ pc[u] # "change"
    BY <1>0, <1>7, <2>1 DEF Change, MutexInv, TypeOK
  <2>3. pc'[t] = "push"
    BY <1>0, <1>7 DEF Change, TypeOK
  <2>4. MutexInv'
    BY <1>0, <1>7, <2>1, <2>2, <2>3 DEF Change, MutexInv
  <2>5. PlaceInv'
    BY <1>0, <1>7, <2>2, <2>3 DEF Change, PlaceInv
  <2>6. QED
    BY <2>4, <2>5
<1>8. ASSUME NEW t \in Threads, Push(t) PROVE Goal
  BY <1>0, <1>8 DEF Push, TypeOK, MutexInv, PlaceInv, Found
<1>9. CASE Pop
  BY <1>0, <1>9 DEF Pop, MutexInv, PlaceInv, Found
<1>10. CASE UNCHANGED vars
  BY <1>0, <1>10 DEF vars, MutexInv, PlaceInv, Found
<1>11. QED
  BY <1>1, <1>2, <1>3, <1>4, <1>5, <1>6, <1>7, <1>8, <1>9, <1>10
  DEF Next, Step

\* Only a thread whose scan found nothing adds a copy of a formula.
LEMMA DuplicateStep == StoreInv /\ [Next]_vars => NoDuplicates'
<1> SUFFICES ASSUME StoreInv, [Next]_vars, NEW f \in Matchable
             PROVE  kb'[f] <= 1
  BY DEF NoDuplicates
<1> USE FormulaAssumption
<1>0. kb \in [Formulas -> Nat] /\ kb[f] <= 1 /\ arg \in [Threads -> Formulas]
  BY DEF StoreInv, TypeOK, NoDuplicates
<1>1. ASSUME NEW t \in Threads, Change(t) PROVE kb'[f] <= 1
  <2>1. Found(arg[t]) <=> type[t] = "del"
    BY <1>1 DEF Change, StoreInv, PlaceInv
  <2>2. CASE arg[t] = f /\ type[t] = "add"
    BY <1>0, <1>1, <2>1, <2>2 DEF Change, Found
  <2>3. CASE arg[t] = f /\ type[t] # "add"
    <3>1. kb'[f] = kb[f] - 1
      BY <1>0, <1>1, <2>3 DEF Change
    <3>2. QED
      BY <1>0, <3>1
  <2>4. CASE arg[t] # f
    BY <1>0, <1>1, <2>4 DEF Change
  <2>5. QED
    BY <2>2, <2>3, <2>4
<1>2. CASE kb' = kb
  BY <1>0, <1>2
<1>3. QED
  BY <1>1, <1>2
  DEF Next, Step, Add, Del, Call, Enter, KbLock, ScanOn, ScanFalse, Push, Pop,
      vars

-------------------------------------------------------------------------------
\* Pending sets are finite, so their cardinalities are numbers.
LEMMA PendingFinite ==
  ASSUME NEW ty, NEW f
  PROVE  /\ IsFiniteSet(Pending(ty, f))
         /\ Cardinality(Pending(ty, f)) \in Nat
<1>1. IsFiniteSet(Pending(ty, f))
  BY ThreadAssumption, FS_Subset DEF Pending
<1>2. QED
  BY <1>1, FS_CardinalityType

\* The announcements owed for f stay the same in every step but Change and Push.
LEMMA PendingSame ==
  ASSUME StoreInv, [Next]_vars,
         \A t \in Threads : ~ Change(t) /\ ~ Push(t),
         NEW ty \in {"add", "del"}, NEW f \in Formulas, Kind[f] # "reactor"
  PROVE  /\ Pending(ty, f)' = Pending(ty, f)
         /\ kb' = kb
         /\ posted' = posted
<1> DEFINE Goal == Pending(ty, f)' = Pending(ty, f) /\ kb' = kb
                                                    /\ posted' = posted
<1>0. TypeOK
  BY DEF StoreInv
<1> USE <1>0 DEF TypeOK, Pending, Goto, EventTypes
<1>1. ASSUME NEW t \in Threads, NEW g \in Formulas, Add(t, g) PROVE Goal
  BY <1>1 DEF Add, Enter
<1>2. ASSUME NEW t \in Threads, NEW g \in Formulas, Del(t, g) PROVE Goal
  BY <1>2 DEF Del, Enter
<1>3. ASSUME NEW t \in Threads, NEW g \in Formulas, Call(t, g) PROVE Goal
  BY <1>3 DEF Call, Enter
<1>4. ASSUME NEW t \in Threads, KbLock(t) PROVE Goal
  BY <1>4 DEF KbLock
<1>5. ASSUME NEW t \in Threads, ScanOn(t) PROVE Goal
  BY <1>5 DEF ScanOn
<1>6. ASSUME NEW t \in Threads, ScanFalse(t) PROVE Goal
  BY <1>6 DEF ScanFalse
<1>7. CASE Pop
  BY <1>7 DEF Pop
<1>8. CASE UNCHANGED vars
  BY <1>8 DEF vars
<1>9. QED
  BY <1>1, <1>2, <1>3, <1>4, <1>5, <1>6, <1>7, <1>8 DEF Next, Step

\* A change of the knowledge base owes one announcement more.
LEMMA ChangePending ==
  ASSUME StoreInv, NEW t \in Threads, Change(t), NEW ty, NEW f
  PROVE  Cardinality(Pending(ty, f)') =
           Cardinality(Pending(ty, f))
             + (IF ty = type[t] /\ f = arg[t] THEN 1 ELSE 0)
<1>0. TypeOK
  BY DEF StoreInv
<1>1. CASE ty = type[t] /\ f = arg[t]
  <2>1. t \notin Pending(ty, f)
    BY <1>1 DEF Change, Pending
  <2>2. Pending(ty, f)' = Pending(ty, f) \cup {t}
    BY <1>0, <1>1 DEF Change, Goto, Pending, TypeOK
  <2>3. IsFiniteSet(Pending(ty, f)) /\ Cardinality(Pending(ty, f)) \in Nat
    BY PendingFinite
  <2>4. Cardinality(Pending(ty, f) \cup {t}) = Cardinality(Pending(ty, f)) + 1
    BY <2>1, <2>3, FS_AddElement
  <2>5. QED
    BY <1>1, <2>2, <2>4
<1>2. CASE ~ (ty = type[t] /\ f = arg[t])
  <2>1. Pending(ty, f)' = Pending(ty, f)
    BY <1>0, <1>2 DEF Change, Goto, Pending, TypeOK
  <2>2. QED
    BY <1>2, <2>1, PendingFinite
<1>3. QED
  BY <1>1, <1>2

\* Pushing the event pays it.
LEMMA PushPending ==
  ASSUME StoreInv, NEW t \in Threads, Push(t), NEW ty, NEW f
  PROVE  Cardinality(Pending(ty, f)') =
           Cardinality(Pending(ty, f))
             - (IF ty = type[t] /\ f = arg[t] THEN 1 ELSE 0)
<1>0. TypeOK
  BY DEF StoreInv
<1>1. CASE ty = type[t] /\ f = arg[t]
  <2>1. t \in Pending(ty, f)
    BY <1>1 DEF Push, Pending
  <2>2. Pending(ty, f)' = Pending(ty, f) \ {t}
    BY <1>0, <1>1 DEF Push, Goto, Pending, TypeOK
  <2>3. IsFiniteSet(Pending(ty, f)) /\ Cardinality(Pending(ty, f)) \in Nat
    BY PendingFinite
  <2>4. Cardinality(Pending(ty, f) \ {t}) = Cardinality(Pending(ty, f)) - 1
    BY <2>1, <2>3, FS_RemoveElement
  <2>5. QED
    BY <1>1, <2>2, <2>4
<1>2. CASE ~ (ty = type[t] /\ f = arg[t])
  <2>1. Pending(ty, f)' = Pending(ty, f)
    BY <1>0, <1>2 DEF Push, Goto, Pending, TypeOK
  <2>2. QED
    BY <1>2, <2>1, PendingFinite
<1>3. QED
  BY <1>1, <1>2

\* Each change is announced once, and nothing else is.
LEMMA BalanceStep == StoreInv /\ [Next]_vars => EventBalance'
<1> SUFFICES ASSUME StoreInv, [Next]_vars,
                    NEW f \in Formulas, Kind[f] # "reactor"
             PROVE  kb'[f] + posted'["del"][f] + Cardinality(Pending("del", f)')
                      = posted'["add"][f] + Cardinality(Pending("add", f)')
  BY DEF EventBalance
<1> DEFINE Adds == Cardinality(Pending("add", f))
           Dels == Cardinality(Pending("del", f))
           Goal == kb'[f] + posted'["del"][f] + Cardinality(Pending("del", f)')
                     = posted'["add"][f] + Cardinality(Pending("add", f)')
<1>0. /\ TypeOK
      /\ kb[f] + posted["del"][f] + Dels = posted["add"][f] + Adds
      /\ kb[f] \in Nat /\ posted["del"][f] \in Nat /\ posted["add"][f] \in Nat
      /\ Adds \in Nat /\ Dels \in Nat
  BY PendingFinite DEF StoreInv, TypeOK, EventBalance, EventTypes
<1>1. ASSUME NEW t \in Threads, Change(t) PROVE Goal
  <2>1. posted' = posted /\ type[t] \in {"add", "del"}
    BY <1>1 DEF Change, StoreInv, PlaceInv
  <2>2. kb'[f] = IF f = arg[t]
                 THEN IF type[t] = "add" THEN kb[f] + 1 ELSE kb[f] - 1
                 ELSE kb[f]
    BY <1>0, <1>1 DEF Change, TypeOK
  <2>3. Cardinality(Pending("add", f)')
          = Adds + (IF "add" = type[t] /\ f = arg[t] THEN 1 ELSE 0)
    BY <1>1, ChangePending
  <2>4. Cardinality(Pending("del", f)')
          = Dels + (IF "del" = type[t] /\ f = arg[t] THEN 1 ELSE 0)
    BY <1>1, ChangePending
  <2>5. QED
    BY <1>0, <2>1, <2>2, <2>3, <2>4
<1>2. ASSUME NEW t \in Threads, Push(t) PROVE Goal
  <2>1. kb' = kb
    BY <1>2 DEF Push
  <2>2. \A ty \in {"add", "del"} :
          posted'[ty][f] = IF ty = type[t] /\ f = arg[t] THEN posted[ty][f] + 1
                                                        ELSE posted[ty][f]
    BY <1>0, <1>2 DEF Push, TypeOK, EventTypes
  <2>3. Cardinality(Pending("add", f)')
          = Adds - (IF "add" = type[t] /\ f = arg[t] THEN 1 ELSE 0)
    BY <1>2, PushPending
  <2>4. Cardinality(Pending("del", f)')
          = Dels - (IF "del" = type[t] /\ f = arg[t] THEN 1 ELSE 0)
    BY <1>2, PushPending
  <2>5. QED
    BY <1>0, <2>1, <2>2, <2>3, <2>4
<1>3. CASE \A t \in Threads : ~ Change(t) /\ ~ Push(t)
  <2>1. /\ Pending("add", f)' = Pending("add", f)
        /\ Pending("del", f)' = Pending("del", f)
        /\ kb' = kb
        /\ posted' = posted
    BY <1>3, PendingSame
  <2>2. QED
    BY <1>0, <2>1
<1>4. QED
  BY <1>1, <1>2, <1>3

-------------------------------------------------------------------------------
\* The inductive invariant of the knowledge base.
THEOREM StoreInvariant == Spec => []StoreInv
<1>1. StoreInv /\ [Next]_vars => StoreInv'
  BY TypeStep, PlaceStep, DuplicateStep, BalanceStep DEF StoreInv
<1>2. QED
  BY <1>1, StoreInit, PTL DEF Spec

\* Every variable keeps its type; in particular retract_belief never makes the
\* number of copies of a formula negative.
THEOREM TypeCorrect == Spec => []TypeOK
<1>1. StoreInv => TypeOK
  BY DEF StoreInv
<1>2. QED
  BY <1>1, StoreInvariant, PTL

\* At most one copy of a formula that can be retracted is ever stored.
THEOREM NoDuplicatesStored == Spec => []NoDuplicates
<1>1. StoreInv => NoDuplicates
  BY DEF StoreInv
<1>2. QED
  BY <1>1, StoreInvariant, PTL

\* The events account for every change of the knowledge base.
THEOREM EventsBalance == Spec => []EventBalance
<1>1. StoreInv => EventBalance
  BY DEF StoreInv
<1>2. QED
  BY <1>1, StoreInvariant, PTL

-------------------------------------------------------------------------------
\* A step of EventsNext is a step of Next, and what it does to one formula.
LEMMA FollowFacts ==
  ASSUME StoreInv, FollowInv, [EventsNext]_<<vars, raced>>,
         NEW f \in Formulas, f \notin raced'
  PROVE  /\ [Next]_vars
         /\ f \notin raced /\ ~ Overlap(f) /\ ~ Overlap(f)'
<1>1. f \notin raced
  BY DEF EventsNext
<1>2. ~ Overlap(f)
  BY <1>1 DEF FollowInv
<1>3. CASE EventsNext
  <2>1. ~ Overlap(f)' /\ Next
    BY <1>3 DEF EventsNext
  <2>2. QED
    BY <1>1, <1>2, <2>1
<1>4. CASE UNCHANGED <<vars, raced>>
  <2>1. Overlap(f)' <=> Overlap(f)
    BY <1>4 DEF vars, Overlap, Working
  <2>2. QED
    BY <1>1, <1>2, <1>4, <2>1
<1>5. QED
  BY <1>3, <1>4

\* What FollowInv says of one formula that can be found.
Follows(f) ==
  /\ (\A t \in Threads : ~ Owes(t, f)) => (last[f] = "add" <=> kb[f] = 1)
  /\ \A t \in Threads : Owes(t, f) => (type[t] = "add" <=> kb[f] = 1)

\* No step but Change and Push has to do with what is owed, stored and announced.
LEMMA OwesSame ==
  ASSUME StoreInv, [Next]_vars, \A t \in Threads : ~ Change(t) /\ ~ Push(t),
         NEW f \in Formulas, Kind[f] # "reactor", Follows(f)
  PROVE  Follows(f)'
<1> DEFINE Same == /\ \A u \in Threads : Owes(u, f)' <=> Owes(u, f)
                   /\ \A u \in Threads : Owes(u, f) => type'[u] = type[u]
                   /\ kb' = kb /\ last' = last
<1>0. TypeOK
  BY DEF StoreInv
<1> USE <1>0 DEF TypeOK, Owes, Goto, EventTypes
<1>1. ASSUME NEW t \in Threads, NEW g \in Formulas, Add(t, g) PROVE Same
  BY <1>1 DEF Add, Enter
<1>2. ASSUME NEW t \in Threads, NEW g \in Formulas, Del(t, g) PROVE Same
  BY <1>2 DEF Del, Enter
<1>3. ASSUME NEW t \in Threads, NEW g \in Formulas, Call(t, g) PROVE Same
  BY <1>3 DEF Call, Enter
<1>4. ASSUME NEW t \in Threads, KbLock(t) PROVE Same
  BY <1>4 DEF KbLock
<1>5. ASSUME NEW t \in Threads, ScanOn(t) PROVE Same
  BY <1>5 DEF ScanOn
<1>6. ASSUME NEW t \in Threads, ScanFalse(t) PROVE Same
  BY <1>6 DEF ScanFalse
<1>7. ASSUME Pop PROVE Same
  BY <1>7 DEF Pop
<1>8. ASSUME UNCHANGED vars PROVE Same
  BY <1>8 DEF vars
<1>9. Same
  BY <1>1, <1>2, <1>3, <1>4, <1>5, <1>6, <1>7, <1>8 DEF Next, Step
<1> HIDE <1>0 DEF Same, Owes
<1>10. QED
  BY <1>9 DEF Same, Follows

\* A thread that changes f finds it as the last event said, because nobody else is at
\* work on it, and owes the event of the change.
LEMMA FollowChange ==
  ASSUME StoreInv, NEW t \in Threads, Change(t),
         NEW f \in Matchable, Follows(f), ~ Overlap(f)
  PROVE  Follows(f)'
<1>0. /\ TypeOK /\ f \in Formulas /\ kb[f] \in Nat /\ kb[f] <= 1
      /\ Found(arg[t]) <=> type[t] = "del"
      /\ type[t] \in {"add", "del"}
  BY FormulaAssumption DEF StoreInv, TypeOK, NoDuplicates, PlaceInv, Change
<1>1. /\ pc' = [pc EXCEPT ![t] = "push"]
      /\ kb' = [kb EXCEPT ![arg[t]] = IF type[t] = "add" THEN @ + 1 ELSE @ - 1]
      /\ UNCHANGED <<type, arg, last>>
  BY DEF Change, Goto
<1>2. CASE arg[t] = f
  <2>1. \A u \in Threads : Owes(u, f)' => u = t
    BY <1>0, <1>1, <1>2 DEF Owes, TypeOK, Overlap, Working, Change
  <2>2. Owes(t, f)'
    BY <1>0, <1>1, <1>2 DEF Owes, TypeOK
  <2>3. kb'[f] = IF type[t] = "add" THEN kb[f] + 1 ELSE kb[f] - 1
    BY <1>0, <1>1, <1>2 DEF TypeOK
  <2>4. kb[f] = IF type[t] = "add" THEN 0 ELSE 1
    BY <1>0, <1>2 DEF Found
  <2>5. type[t] = "add" <=> kb'[f] = 1
    BY <1>0, <2>3, <2>4
  <2>6. QED
    BY <1>1, <2>1, <2>2, <2>5 DEF Follows
<1>3. CASE arg[t] # f
  <2>1. kb'[f] = kb[f]
    BY <1>0, <1>1, <1>3 DEF TypeOK
  <2>2. \A u \in Threads : Owes(u, f)' <=> Owes(u, f)
    BY <1>0, <1>1, <1>3 DEF Owes, TypeOK
  <2>3. QED
    BY <1>1, <2>1, <2>2 DEF Follows
<1>4. QED
  BY <1>2, <1>3

\* The event that is pushed last about f is that of the last change.
LEMMA FollowPush ==
  ASSUME StoreInv, NEW t \in Threads, Push(t),
         NEW f \in Formulas, Follows(f), ~ Overlap(f)
  PROVE  Follows(f)'
<1>0. TypeOK /\ type[t] \in EventTypes
  BY DEF StoreInv, TypeOK
<1>1. /\ pc[t] = "push"
      /\ pc' = [pc EXCEPT ![t] = "idle"]
      /\ last' = [last EXCEPT ![arg[t]] = IF type[t] = "call" THEN @ ELSE type[t]]
      /\ UNCHANGED <<kb, type, arg>>
  BY DEF Push, Goto
<1>2. \A u \in Threads : Owes(u, f)' <=> Owes(u, f) /\ u # t
  BY <1>0, <1>1 DEF Owes, TypeOK
<1>3. CASE Owes(t, f)
  <2>1. \A u \in Threads : ~ Owes(u, f)'
    BY <1>2, <1>3 DEF Owes, Overlap, Working
  <2>2. last'[f] = type[t]
    BY <1>0, <1>1, <1>3 DEF Owes, TypeOK
  <2>3. last'[f] = "add" <=> kb'[f] = 1
    BY <1>1, <1>3, <2>2 DEF Follows
  <2>4. QED
    BY <2>1, <2>3 DEF Follows
<1>4. CASE ~ Owes(t, f)
  <2>1. last'[f] = last[f]
    BY <1>0, <1>1, <1>4 DEF Owes, TypeOK
  <2>2. \A u \in Threads : Owes(u, f)' <=> Owes(u, f)
    BY <1>2, <1>4
  <2>3. QED
    BY <1>1, <2>1, <2>2 DEF Follows
<1>5. QED
  BY <1>3, <1>4

LEMMA FollowStep ==
  StoreInv /\ FollowInv /\ [EventsNext]_<<vars, raced>> => FollowInv'
<1> SUFFICES ASSUME StoreInv, FollowInv, [EventsNext]_<<vars, raced>>,
                    NEW f \in Formulas, f \notin raced'
             PROVE  /\ ~ Overlap(f)'
                    /\ f \in Matchable /\ Kind[f] # "reactor" => Follows(f)'
  BY DEF FollowInv, Follows
<1>1. [Next]_vars /\ f \notin raced /\ ~ Overlap(f) /\ ~ Overlap(f)'
  BY FollowFacts
<1>2. ASSUME f \in Matchable, Kind[f] # "reactor" PROVE Follows(f)'
  <2>1. Follows(f)
    BY <1>1, <1>2 DEF FollowInv, Follows
  <2>2. CASE \A t \in Threads : ~ Change(t) /\ ~ Push(t)
    BY <1>1, <1>2, <2>1, <2>2, OwesSame
  <2>3. ASSUME NEW t \in Threads, Change(t) PROVE Follows(f)'
    BY <1>1, <1>2, <2>1, <2>3, FollowChange
  <2>4. ASSUME NEW t \in Threads, Push(t) PROVE Follows(f)'
    BY <1>1, <2>1, <2>4, FollowPush
  <2>5. QED
    BY <2>2, <2>3, <2>4
<1>3. QED
  BY <1>1, <1>2

\* The inductive invariant of what the events say: a formula on which no two operators
\* have overlapped is there exactly when the last event about it, pushed or owed by the
\* one thread at work on it, is an add.
THEOREM FollowInvariant == EventsSpec => [](StoreInv /\ FollowInv)
<1>1. EventsInit => StoreInv /\ FollowInv
  <2> SUFFICES ASSUME EventsInit PROVE StoreInv /\ FollowInv
    OBVIOUS
  <2>1. StoreInv
    BY StoreInit DEF EventsInit
  <2>2. \A t \in Threads, f \in Formulas : ~ Working(t, f) /\ ~ Owes(t, f)
    BY DEF EventsInit, Init, Working, Owes
  <2>3. \A f \in Formulas : last[f] = "none" /\ kb[f] = 0
    BY DEF EventsInit, Init
  <2>4. FollowInv
    BY <2>2, <2>3 DEF FollowInv, Overlap
  <2>5. QED
    BY <2>1, <2>4
<1>2. StoreInv /\ [EventsNext]_<<vars, raced>> => StoreInv'
  <2>1. [EventsNext]_<<vars, raced>> => [Next]_vars
    BY DEF EventsNext
  <2>2. QED
    BY <2>1, TypeStep, PlaceStep, DuplicateStep, BalanceStep DEF StoreInv
<1>3. StoreInv /\ FollowInv /\ [EventsNext]_<<vars, raced>> => (StoreInv /\ FollowInv)'
  BY <1>2, FollowStep
<1>4. QED
  BY <1>1, <1>3, PTL DEF EventsSpec

\* A plan that follows the events about a belief knows whether it is there, for any
\* threads, formulas and calls, as long as no two operators on it overlap
\* (engine.cpp:125-157).
THEOREM EventsTellKB == EventsSpec => []EventsFollowKB
<1>1. FollowInv => EventsFollowKB
  <2> SUFFICES ASSUME FollowInv, NEW f \in Matchable \ raced, Kind[f] # "reactor",
                      \A t \in Threads : ~ Working(t, f)
               PROVE  last[f] = "add" <=> kb[f] = 1
    BY DEF EventsFollowKB
  <2>1. f \in Formulas \ raced
    BY FormulaAssumption
  <2>2. \A t \in Threads : ~ Owes(t, f)
    BY DEF Working, Owes
  <2>3. QED
    BY <2>1, <2>2 DEF FollowInv
<1>2. QED
  BY <1>1, FollowInvariant, PTL
===============================================================================
