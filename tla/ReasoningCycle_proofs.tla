-------------------------- MODULE ReasoningCycle_proofs --------------------------
(***************************************************************************)
(* Theorems about the reasoning cycle, for any plans, any threads and any  *)
(* number of contexts; and, on the way to the choice that it makes, about  *)
(* the evaluation of any condition.                                        *)
(***************************************************************************)
EXTENDS ReasoningCycle, ConditionJoin, Subsequences_proofs

(***************************************************************************)
(* Frames and what they hold.                                              *)
(***************************************************************************)
\* The two ways to list the pointers of an activation agree.
LEMMA PointersHeld ==
  ASSUME NEW f \in Frame
  PROVE  Pointers(f) = Held(f)
<1>1. /\ f.array \in Seq(ContextIds) /\ f.next \in Seq(ContextIds)
      /\ f.intentions \in Seq([plan : DOMAIN Plans, ctx : ContextIds])
  BY DEF Frame
<1>2. /\ \A n \in DOMAIN f.array : Pointer(f, <<"array", n>>) = f.array[n]
      /\ \A n \in DOMAIN f.next : Pointer(f, <<"next", n>>) = f.next[n]
      /\ \A n \in DOMAIN f.intentions :
           Pointer(f, <<"intentions", n>>) = f.intentions[n].ctx
      /\ Pointer(f, <<"c", 1>>) = f.c
  BY DEF Pointer
<1>3. Held(f) = ({f.c} \ {NoContext})
                  \cup {f.array[n] : n \in DOMAIN f.array}
                  \cup {f.next[n] : n \in DOMAIN f.next}
                  \cup {f.intentions[n].ctx : n \in DOMAIN f.intentions}
  BY DEF Held, ToSet, IntentionContexts
<1>4. ASSUME NEW place \in Places(f) PROVE Pointer(f, place) \in Held(f)
  <2>1. \/ f.c # NoContext /\ place = <<"c", 1>>
        \/ \E n \in DOMAIN f.array : place = <<"array", n>>
        \/ \E n \in DOMAIN f.next : place = <<"next", n>>
        \/ \E n \in DOMAIN f.intentions : place = <<"intentions", n>>
    BY <1>4 DEF Places
  <2>2. QED
    BY <1>2, <1>3, <2>1
<1>5. ASSUME NEW x \in Held(f) PROVE \E place \in Places(f) : Pointer(f, place) = x
  <2>1. \/ f.c # NoContext /\ x = f.c
        \/ \E n \in DOMAIN f.array : x = f.array[n]
        \/ \E n \in DOMAIN f.next : x = f.next[n]
        \/ \E n \in DOMAIN f.intentions : x = f.intentions[n].ctx
    BY <1>3, <1>5
  <2>2. /\ f.c # NoContext => <<"c", 1>> \in Places(f)
        /\ \A n \in DOMAIN f.array : <<"array", n>> \in Places(f)
        /\ \A n \in DOMAIN f.next : <<"next", n>> \in Places(f)
        /\ \A n \in DOMAIN f.intentions : <<"intentions", n>> \in Places(f)
    BY DEF Places
  <2>3. QED
    BY <1>2, <2>1, <2>2, Zenon
<1>6. QED
  BY <1>4, <1>5 DEF Pointers

\* If no two fields hold the same pointer, no two places do.
LEMMA PlacesDiffer ==
  ASSUME NEW f \in Frame, HeldOnce(f),
         NEW p \in Places(f), NEW q \in Places(f), Pointer(f, p) = Pointer(f, q)
  PROVE  p = q
<1> DEFINE ctxs == IntentionContexts(f)
<1>1. /\ \A n \in DOMAIN f.array : Pointer(f, <<"array", n>>) = f.array[n]
      /\ \A n \in DOMAIN f.next : Pointer(f, <<"next", n>>) = f.next[n]
      /\ \A n \in DOMAIN ctxs : Pointer(f, <<"intentions", n>>) = ctxs[n]
      /\ Pointer(f, <<"c", 1>>) = f.c
  BY DEF Pointer, IntentionContexts
<1>2. ASSUME NEW place \in Places(f)
      PROVE  \/ place = <<"c", 1>>
             \/ \E n \in DOMAIN f.array : place = <<"array", n>>
             \/ \E n \in DOMAIN f.next : place = <<"next", n>>
             \/ \E n \in DOMAIN ctxs : place = <<"intentions", n>>
  BY DEF Places, IntentionContexts
<1>3. /\ \A m \in DOMAIN f.array, n \in DOMAIN f.next : f.array[m] # f.next[n]
      /\ \A m \in DOMAIN f.array, n \in DOMAIN ctxs : f.array[m] # ctxs[n]
      /\ \A m \in DOMAIN f.next, n \in DOMAIN ctxs : f.next[m] # ctxs[n]
      /\ \A m \in DOMAIN f.array : f.array[m] # f.c
      /\ \A m \in DOMAIN f.next : f.next[m] # f.c
      /\ \A m \in DOMAIN ctxs : ctxs[m] # f.c
  BY DEF HeldOnce, ToSet
<1>4. /\ \A m, n \in DOMAIN f.array : f.array[m] = f.array[n] => m = n
      /\ \A m, n \in DOMAIN f.next : f.next[m] = f.next[n] => m = n
      /\ \A m, n \in DOMAIN ctxs : ctxs[m] = ctxs[n] => m = n
  BY DEF HeldOnce, IsInjective
<1> HIDE DEF ctxs
<1> DEFINE v == Pointer(f, p)
<1>5. v = Pointer(f, p) /\ v = Pointer(f, q)
  OBVIOUS
<1> HIDE DEF v
<1>6. CASE p = <<"c", 1>>
  BY <1>1, <1>2, <1>3, <1>5, <1>6
<1>7. CASE \E n \in DOMAIN f.array : p = <<"array", n>>
  BY <1>1, <1>2, <1>3, <1>4, <1>5, <1>7
<1>8. CASE \E n \in DOMAIN f.next : p = <<"next", n>>
  BY <1>1, <1>2, <1>3, <1>4, <1>5, <1>8
<1>9. CASE \E n \in DOMAIN ctxs : p = <<"intentions", n>>
  BY <1>1, <1>2, <1>3, <1>4, <1>5, <1>9
<1>10. QED
  BY <1>2, <1>6, <1>7, <1>8, <1>9

\* What is owned field by field is owned place by place.
LEMMA OwnersOwn ==
  ASSUME TypeOK, OwnInv
  PROVE  ContextsOwned
<1> DEFINE places == UNION {{<<d, place>> : place \in Places(stack[d])} :
                              d \in DOMAIN stack}
           Target(p)  == Pointer(stack[p[1]], p[2])
<1>1. \A d \in DOMAIN stack : stack[d] \in Frame
  BY DEF TypeOK
<1>2. ASSUME NEW p \in places
      PROVE  /\ p[1] \in DOMAIN stack /\ p[2] \in Places(stack[p[1]])
             /\ p = <<p[1], p[2]>>
             /\ Target(p) \in Held(stack[p[1]])
  <2>1. PICK d \in DOMAIN stack : \E place \in Places(stack[d]) : p = <<d, place>>
    BY <1>2
  <2>2. PICK place \in Places(stack[d]) : p = <<d, place>>
    BY <2>1
  <2>3. Pointer(stack[d], place) \in Held(stack[d])
    BY <1>1, PointersHeld DEF Pointers
  <2>4. QED
    BY <2>2, <2>3
<1> HIDE DEF places
<1>3. ASSUME NEW p \in places PROVE Target(p) \in DOMAIN heap
  BY <1>2 DEF OwnInv
<1>4. ASSUME NEW p \in places, NEW q \in places, Target(p) = Target(q) PROVE p = q
  <2>1. p[1] = q[1]
    BY <1>2, <1>4 DEF OwnInv
  <2>2. HeldOnce(stack[p[1]]) /\ stack[p[1]] \in Frame
    BY <1>1, <1>2 DEF OwnInv
  <2>3. p[2] = q[2]
    BY <1>2, <1>4, <2>1, <2>2, PlacesDiffer
  <2>4. QED
    BY <1>2, <2>1, <2>3
<1>5. QED
  BY <1>3, <1>4 DEF ContextsOwned, places

(***************************************************************************)
(* Allocation and deletion.                                                *)
(***************************************************************************)
\* An address that is free is one that nothing knows.
LEMMA FreeUnknown ==
  ASSUME TypeOK
  PROVE  /\ Free \subseteq ContextIds
         /\ Free \cap DOMAIN heap = {}
         /\ \A d \in DOMAIN stack : Free \cap Held(stack[d]) = {}
<1>1. ASSUME NEW d \in DOMAIN stack PROVE Held(stack[d]) = Pointers(stack[d])
  BY PointersHeld DEF TypeOK
<1>2. QED
  BY <1>1 DEF Free

\* n new contexts are n different ones.
LEMMA FreshFree ==
  ASSUME TypeOK, NEW n \in Nat, CanAllocate(n)
  PROVE  /\ Fresh(n) \in Seq(ContextIds) /\ Len(Fresh(n)) = n
         /\ ToSet(Fresh(n)) \subseteq Free
         /\ IsInjective(Fresh(n))
<1>0. MaxContexts \in Nat
  BY BoundAssumption
<1>1. IsFiniteSet(Free) /\ Free \in SUBSET Nat /\ Free \subseteq ContextIds
  <2>1. ContextIds \subseteq Nat /\ IsFiniteSet(ContextIds)
    BY <1>0, FS_Interval DEF ContextIds
  <2>2. Free \in SUBSET ContextIds
    BY FreeUnknown
  <2>3. QED
    BY <2>1, <2>2, FS_Subset
<1>2. Cardinality(Free) \in Nat
  BY <1>1, FS_CardinalityType
<1>3. \A k \in 1 .. n : k \in 1 .. Cardinality(Free)
  BY <1>2 DEF CanAllocate
<1>4. \A k \in 1 .. n : Nth(Free, k) \in Free
  BY <1>1, <1>3, NthMember
<1>5. \A k, l \in 1 .. n : k < l => Nth(Free, k) < Nth(Free, l)
  BY <1>1, <1>3, NthIncreases
<1>6. \A k, l \in 1 .. n : Nth(Free, k) = Nth(Free, l) => k = l
  <2>1. \A k \in 1 .. n : Nth(Free, k) \in Nat
    BY <1>1, <1>4
  <2>2. QED
    BY <1>5, <2>1
<1>7. /\ Fresh(n) \in Seq(ContextIds) /\ Len(Fresh(n)) = n
      /\ DOMAIN Fresh(n) = 1 .. n
      /\ \A k \in 1 .. n : Fresh(n)[k] = Nth(Free, k)
  <2>1. \A k \in 1 .. n : Nth(Free, k) \in ContextIds
    BY <1>1, <1>4
  <2>2. QED
    BY <2>1 DEF Fresh
<1>8. QED
  BY <1>4, <1>6, <1>7 DEF ToSet, IsInjective

LEMMA FreshOne ==
  ASSUME TypeOK, CanAllocate(1)
  PROVE  /\ Fresh(1)[1] \in Free /\ Fresh(1)[1] \in ContextIds
         /\ ToSet(Fresh(1)) = {Fresh(1)[1]}
<1>1. /\ Fresh(1) \in Seq(ContextIds) /\ Len(Fresh(1)) = 1 /\ ToSet(Fresh(1)) \subseteq Free
  BY FreshFree
<1>2. DOMAIN Fresh(1) = {1}
  BY <1>1
<1>3. QED
  BY <1>1, <1>2, FreeUnknown DEF ToSet

LEMMA Allocated ==
  ASSUME TypeOK, NEW bs \in Seq(Bindings), Allocate(bs)
  PROVE  /\ DOMAIN heap' = DOMAIN heap \cup ToSet(Fresh(Len(bs)))
         /\ DOMAIN heap' \subseteq ContextIds
         /\ \A c \in DOMAIN heap' : heap'[c] \in Bindings
         /\ objects' \subseteq ContextIds
         /\ CollectorExact => CollectorExact'
<1> DEFINE ids == Fresh(Len(bs))
<1>1. Len(bs) \in Nat /\ DOMAIN bs = 1 .. Len(bs) /\ CanAllocate(Len(bs))
  BY DEF Allocate
<1>2. /\ ids \in Seq(ContextIds) /\ DOMAIN ids = 1 .. Len(bs)
      /\ ToSet(ids) \subseteq ContextIds
  BY <1>1, FreshFree, FreeUnknown
<1>3. /\ heap' = [c \in DOMAIN heap \cup ToSet(ids) |->
                    IF c \in DOMAIN heap THEN heap[c]
                    ELSE bs[CHOOSE k \in DOMAIN ids : ids[k] = c]]
      /\ objects' = objects \cup ToSet(ids)
  BY DEF Allocate
<1>4. ASSUME NEW c \in ToSet(ids)
      PROVE  bs[CHOOSE k \in DOMAIN ids : ids[k] = c] \in Bindings
  <2>1. \E k \in DOMAIN ids : ids[k] = c
    BY DEF ToSet
  <2>2. (CHOOSE k \in DOMAIN ids : ids[k] = c) \in DOMAIN bs
    BY <1>1, <1>2, <2>1
  <2>3. QED
    BY <2>2
<1> HIDE DEF ids
<1>5. /\ DOMAIN heap' = DOMAIN heap \cup ToSet(ids)
      /\ \A c \in DOMAIN heap' : heap'[c] \in Bindings
  BY <1>3, <1>4 DEF TypeOK
<1>6. QED
  BY <1>2, <1>3, <1>5 DEF TypeOK, CollectorExact, ids

LEMMA Deleted ==
  ASSUME TypeOK, NEW cs, Delete(cs)
  PROVE  /\ DOMAIN heap' = DOMAIN heap \ cs
         /\ DOMAIN heap' \subseteq ContextIds
         /\ \A c \in DOMAIN heap' : heap'[c] \in Bindings
         /\ objects' \subseteq ContextIds
         /\ CollectorExact => CollectorExact'
<1>1. DOMAIN heap' = DOMAIN heap \ cs /\ \A c \in DOMAIN heap' : heap'[c] = heap[c]
  BY DEF Delete, Restrict
<1>2. QED
  BY <1>1 DEF Delete, TypeOK, CollectorExact

(***************************************************************************)
(* Matching yields bindings.                                               *)
(***************************************************************************)
LEMMA EmptyBinding == NoBinding \in Bindings
<1>1. NoBinding \in [{} -> Values]
  BY DEF NoBinding
<1>2. QED
  BY <1>1 DEF Bindings

\* The first place of a variable in a pattern.
LEMMA FirstPlace ==
  ASSUME NEW pattern \in Template, NEW v \in VarsOf(pattern)
  PROVE  \E i \in DOMAIN pattern.terms :
           /\ pattern.terms[i] = v
           /\ \A j \in 1 .. i - 1 : pattern.terms[j] # v
<1> DEFINE terms == pattern.terms
           T == {i \in 1 .. Len(terms) : terms[i] = v}
<1>1. terms \in Seq(Vars \cup Values)
  BY DEF Template
<1>2. DOMAIN terms = 1 .. Len(terms) /\ Len(terms) \in Nat
  BY <1>1
<1>3. T # {} /\ T \in SUBSET Nat
  BY <1>2 DEF VarsOf
<1>4. PICK i \in T : \A k \in T : i <= k
  BY <1>3, LeastMember
<1>5. ASSUME NEW j \in 1 .. i - 1 PROVE terms[j] # v
  <2>1. j \in 1 .. Len(terms) /\ ~ (i <= j)
    BY <1>2, <1>4
  <2>2. QED
    BY <1>4, <2>1
<1>6. QED
  BY <1>2, <1>4, <1>5

LEMMA ExtendBinds ==
  ASSUME NEW pattern \in Template, NEW f \in Fact, NEW b \in Bindings,
         Matches(pattern, f, b)
  PROVE  Extend(pattern, f, b) \in Bindings
<1> DEFINE place(v) == CHOOSE i \in DOMAIN f.terms :
                         /\ pattern.terms[i] = v
                         /\ \A j \in 1 .. i - 1 : pattern.terms[j] # v
           value(v) == IF v \in DOMAIN b THEN b[v] ELSE f.terms[place(v)]
           dom == DOMAIN b \cup VarsOf(pattern)
<1>1. f.terms \in Seq(Values) /\ DOMAIN pattern.terms = DOMAIN f.terms
  <2>1. pattern.terms \in Seq(Vars \cup Values) /\ f.terms \in Seq(Values)
    BY DEF Template, Fact
  <2>2. QED
    BY <2>1 DEF Matches
<1>2. DOMAIN b \subseteq Vars /\ \A v \in DOMAIN b : b[v] \in Values
  BY DEF Bindings
<1>3. ASSUME NEW v \in VarsOf(pattern) PROVE f.terms[place(v)] \in Values
  <2>1. \E i \in DOMAIN f.terms : /\ pattern.terms[i] = v
                                  /\ \A j \in 1 .. i - 1 : pattern.terms[j] # v
    BY <1>1, FirstPlace
  <2>2. place(v) \in DOMAIN f.terms
    BY <2>1
  <2> HIDE DEF place
  <2>3. \A i \in DOMAIN f.terms : f.terms[i] \in Values
    BY <1>1
  <2>4. QED
    BY <2>2, <2>3
<1> HIDE DEF place
<1>4. dom \in SUBSET Vars
  BY <1>2 DEF VarsOf
<1>5. \A v \in dom : value(v) \in Values
  BY <1>2, <1>3
<1>6. [v \in dom |-> value(v)] \in [dom -> Values]
  BY <1>5
<1>7. Extend(pattern, f, b) = [v \in dom |-> value(v)]
  BY DEF Extend, place
<1>8. QED
  BY <1>4, <1>6, <1>7 DEF Bindings

LEMMA MatchingBinds ==
  ASSUME NEW s \in Seq(Fact), NEW pattern \in Template, NEW b \in Bindings
  PROVE  GetMatching(s, pattern, b) \in Seq(Bindings)
<1> DEFINE I     == {i \in DOMAIN s : Matches(pattern, s[i], b)}
           found == ElementsAt(s, I)
<1>1. /\ found \in Seq(Fact) /\ Len(found) = Cardinality(I) /\ Cardinality(I) \in Nat
      /\ \A k \in 1 .. Cardinality(I) : Nth(I, k) \in I /\ found[k] = s[Nth(I, k)]
  BY ElementsAtProperties
<1>2. DOMAIN found = 1 .. Cardinality(I)
  BY <1>1
<1>3. ASSUME NEW k \in DOMAIN found PROVE Extend(pattern, found[k], b) \in Bindings
  <2>1. found[k] \in Fact /\ Matches(pattern, found[k], b)
    BY <1>1, <1>2
  <2>2. QED
    BY <2>1, ExtendBinds
<1>4. GetMatching(s, pattern, b) = [k \in DOMAIN found |-> Extend(pattern, found[k], b)]
  BY DEF GetMatching
<1> DEFINE copy(k) == Extend(pattern, found[k], b)
<1>5. \A k \in 1 .. Cardinality(I) : copy(k) \in Bindings
  BY <1>2, <1>3
<1>6. GetMatching(s, pattern, b) = [k \in 1 .. Cardinality(I) |-> copy(k)]
  BY <1>2, <1>4
<1> HIDE DEF found, I, copy
<1>7. QED
  BY <1>1, <1>5, <1>6

(***************************************************************************)
(* The innermost activation.                                               *)
(***************************************************************************)
LEMMA TopFrame ==
  ASSUME TypeOK, stack # <<>>
  PROVE  /\ Depth \in DOMAIN stack /\ Depth \in Nat \ {0} /\ DOMAIN stack = 1 .. Depth
         /\ top = stack[Depth] /\ top \in Frame
<1>1. stack \in Seq(Frame)
  BY DEF TypeOK
<1>2. Depth \in DOMAIN stack /\ Depth \in Nat \ {0} /\ DOMAIN stack = 1 .. Depth
  BY <1>1 DEF Depth
<1>3. QED
  BY <1>1, <1>2 DEF top, Last, Depth

\* A step of the innermost activation, which keeps contexts of its own or takes
\* new ones, and deletes none of the others', leaves the owners in order.
LEMMA TopStep ==
  ASSUME TypeOK, PlaceInv, OwnInv, stack # <<>>,
         NEW g \in Frame, SetTop(g), HeldOnce(g),
         Held(g) \subseteq Held(top) \cup Free, Held(g) \subseteq DOMAIN heap',
         DOMAIN heap \ Held(top) \subseteq DOMAIN heap',
         g.elem > 0,
         g.pc = "eval" => /\ g.c # NoContext
                          /\ g.plan \in DOMAIN Plans
                          /\ g.elem <= Len(Plans[g.plan].cond) + 1
  PROVE  /\ stack' \in Seq(Frame) /\ Depth' = Depth /\ stack' # <<>>
         /\ PlaceInv' /\ OwnInv'
<1>1. /\ Depth \in DOMAIN stack /\ Depth \in Nat \ {0} /\ DOMAIN stack = 1 .. Depth
      /\ top = stack[Depth] /\ top \in Frame
  BY TopFrame
<1>2. /\ stack' \in Seq(Frame) /\ Depth' = Depth /\ stack' # <<>>
      /\ DOMAIN stack' = DOMAIN stack
      /\ stack'[Depth] = g
      /\ \A d \in DOMAIN stack : d # Depth => stack'[d] = stack[d]
  BY <1>1 DEF SetTop, TypeOK, Depth
<1>3. PlaceInv'
  BY <1>1, <1>2 DEF PlaceInv
<1>4. \A d \in DOMAIN stack' : HeldOnce(stack'[d])
  BY <1>2 DEF OwnInv
<1>5. \A d \in DOMAIN stack : d # Depth => Held(stack[d]) \cap (Held(top) \cup Free) = {}
  BY <1>1, FreeUnknown DEF OwnInv
<1>6. \A d \in DOMAIN stack' : Held(stack'[d]) \subseteq DOMAIN heap'
  <2>1. ASSUME NEW d \in DOMAIN stack, d # Depth PROVE Held(stack[d]) \subseteq DOMAIN heap'
    BY <1>5, <2>1 DEF OwnInv
  <2>2. QED
    BY <1>2, <2>1
<1>7. \A d, e \in DOMAIN stack' : d # e => Held(stack'[d]) \cap Held(stack'[e]) = {}
  <2>1. ASSUME NEW d \in DOMAIN stack, NEW e \in DOMAIN stack, d # e
        PROVE  Held(stack'[d]) \cap Held(stack'[e]) = {}
    <3>1. CASE d = Depth
      BY <1>2, <1>5, <2>1, <3>1
    <3>2. CASE e = Depth
      BY <1>2, <1>5, <2>1, <3>2
    <3>3. CASE d # Depth /\ e # Depth
      BY <1>2, <2>1, <3>3 DEF OwnInv
    <3>4. QED
      BY <3>1, <3>2, <3>3
  <2>2. QED
    BY <1>2, <2>1
<1>8. OwnInv'
  <2>1. \A d \in DOMAIN stack' : HeldOnce(stack'[d]) /\ Held(stack'[d]) \subseteq DOMAIN heap'
    BY <1>4, <1>6
  <2>2. QED
    BY <1>7, <2>1 DEF OwnInv, HeldOnce, Held
<1>9. QED
  BY <1>2, <1>3, <1>8

\* No field but c can hold NoContext.
LEMMA FrameSeqs ==
  ASSUME NEW f \in Frame
  PROVE  /\ f.array \in Seq(ContextIds) /\ f.next \in Seq(ContextIds)
         /\ f.intentions \in Seq([plan : DOMAIN Plans, ctx : ContextIds])
         /\ IntentionContexts(f) \in Seq(ContextIds)
         /\ NoContext \notin ToSet(f.array) \cup ToSet(f.next) \cup ToSet(IntentionContexts(f))
         /\ f.c \in ContextIds \cup {NoContext}
<1>1. /\ f.array \in Seq(ContextIds) /\ f.next \in Seq(ContextIds)
      /\ f.intentions \in Seq([plan : DOMAIN Plans, ctx : ContextIds])
      /\ f.c \in ContextIds \cup {NoContext}
  BY DEF Frame
<1>2. IntentionContexts(f) \in Seq(ContextIds)
  <2>1. ASSUME NEW n \in 1 .. Len(f.intentions) PROVE f.intentions[n].ctx \in ContextIds
    <3>1. f.intentions[n] \in [plan : DOMAIN Plans, ctx : ContextIds]
      BY <1>1, ElementOfSeq
    <3>2. QED
      BY <3>1
  <2>2. IntentionContexts(f) = [n \in 1 .. Len(f.intentions) |-> f.intentions[n].ctx]
    BY <1>1 DEF IntentionContexts
  <2>3. QED
    BY <1>1, <2>1, <2>2
<1>3. NoContext \notin ContextIds
  BY BoundAssumption DEF NoContext, ContextIds
<1>4. QED
  BY <1>1, <1>2, <1>3 DEF ToSet

\* The invariant after a step of the innermost activation.
LEMMA TopKeeps ==
  ASSUME CycleInv, stack # <<>>, UNCHANGED engineVars,
         planCtx' \in [DOMAIN Plans -> ContextIds \cup {NoContext}],
         DOMAIN heap' \subseteq ContextIds,
         \A c \in DOMAIN heap' : heap'[c] \in Bindings,
         objects' \subseteq ContextIds,
         CollectorExact',
         NEW g \in Frame, SetTop(g), HeldOnce(g),
         Held(g) \subseteq Held(top) \cup Free, Held(g) \subseteq DOMAIN heap',
         DOMAIN heap \ Held(top) \subseteq DOMAIN heap',
         g.elem > 0,
         g.pc = "eval" => /\ g.c # NoContext
                          /\ g.plan \in DOMAIN Plans
                          /\ g.elem <= Len(Plans[g.plan].cond) + 1
  PROVE  CycleInv'
<1>1. /\ stack' \in Seq(Frame) /\ Depth' = Depth /\ stack' # <<>>
      /\ PlaceInv' /\ OwnInv'
  BY TopStep DEF CycleInv
<1>2. TypeOK'
  BY <1>1 DEF CycleInv, TypeOK, engineVars
<1>3. NothingLeaks'
  BY <1>1 DEF NothingLeaks
<1>4. QED
  BY <1>1, <1>2, <1>3 DEF CycleInv

\* A step that neither allocates nor deletes, and keeps no more than it held.
LEMMA TopMoves ==
  ASSUME CycleInv, stack # <<>>, UNCHANGED <<heap, objects, engineVars>>,
         planCtx' \in [DOMAIN Plans -> ContextIds \cup {NoContext}],
         NEW g \in Frame, SetTop(g), HeldOnce(g), Held(g) \subseteq Held(top),
         g.elem > 0,
         g.pc = "eval" => /\ g.c # NoContext
                          /\ g.plan \in DOMAIN Plans
                          /\ g.elem <= Len(Plans[g.plan].cond) + 1
  PROVE  CycleInv'
<1>1. Held(top) \subseteq DOMAIN heap
  BY TopFrame DEF CycleInv, OwnInv
<1>2. UNCHANGED <<heap, objects>> /\ UNCHANGED engineVars
  OBVIOUS
<1>3. /\ DOMAIN heap' \subseteq ContextIds
      /\ \A c \in DOMAIN heap' : heap'[c] \in Bindings
      /\ objects' \subseteq ContextIds
      /\ CollectorExact'
  BY <1>2 DEF CycleInv, TypeOK, CollectorExact
<1>4. QED
  BY <1>1, <1>2, <1>3, TopKeeps

\* A step that allocates for the activation, and one that deletes what it held.
LEMMA TopAllocates ==
  ASSUME CycleInv, stack # <<>>, UNCHANGED engineVars,
         planCtx' \in [DOMAIN Plans -> ContextIds \cup {NoContext}],
         NEW bs \in Seq(Bindings), Allocate(bs),
         NEW g \in Frame, SetTop(g), HeldOnce(g),
         Held(g) \subseteq Held(top) \cup ToSet(Fresh(Len(bs))),
         g.elem > 0,
         g.pc = "eval" => /\ g.c # NoContext
                          /\ g.plan \in DOMAIN Plans
                          /\ g.elem <= Len(Plans[g.plan].cond) + 1
  PROVE  CycleInv'
<1>1. Held(top) \subseteq DOMAIN heap
  BY TopFrame DEF CycleInv, OwnInv
<1>2. /\ DOMAIN heap' = DOMAIN heap \cup ToSet(Fresh(Len(bs)))
      /\ DOMAIN heap' \subseteq ContextIds
      /\ \A c \in DOMAIN heap' : heap'[c] \in Bindings
      /\ objects' \subseteq ContextIds
      /\ CollectorExact'
  BY Allocated DEF CycleInv
<1>3. ToSet(Fresh(Len(bs))) \subseteq Free
  <2>1. Len(bs) \in Nat /\ CanAllocate(Len(bs)) /\ TypeOK
    BY DEF Allocate, CycleInv
  <2>2. QED
    BY <2>1, FreshFree
<1>4. QED
  BY <1>1, <1>2, <1>3, TopKeeps

LEMMA TopDeletes ==
  ASSUME CycleInv, stack # <<>>, UNCHANGED engineVars, UNCHANGED planCtx,
         NEW cs \in SUBSET Held(top), Delete(cs),
         NEW g \in Frame, SetTop(g), HeldOnce(g), Held(g) \subseteq Held(top) \ cs,
         g.elem > 0,
         g.pc = "eval" => /\ g.c # NoContext
                          /\ g.plan \in DOMAIN Plans
                          /\ g.elem <= Len(Plans[g.plan].cond) + 1
  PROVE  CycleInv'
<1>1. Held(top) \subseteq DOMAIN heap
  BY TopFrame DEF CycleInv, OwnInv
<1>2. /\ DOMAIN heap' = DOMAIN heap \ cs
      /\ DOMAIN heap' \subseteq ContextIds
      /\ \A c \in DOMAIN heap' : heap'[c] \in Bindings
      /\ objects' \subseteq ContextIds
      /\ CollectorExact'
  BY Deleted DEF CycleInv
<1>3. planCtx' \in [DOMAIN Plans -> ContextIds \cup {NoContext}]
  BY DEF CycleInv, TypeOK
<1>4. QED
  BY <1>1, <1>2, <1>3, TopKeeps

\* What the invariant says of the innermost activation.
LEMMA AtTop ==
  ASSUME CycleInv, stack # <<>>
  PROVE  /\ TypeOK /\ top \in Frame /\ HeldOnce(top) /\ Held(top) \subseteq DOMAIN heap
         /\ Held(top) \cap Free = {}
         /\ planCtx \in [DOMAIN Plans -> ContextIds \cup {NoContext}]
         /\ top.elem > 0
         /\ top.pc = "eval" => /\ top.c # NoContext
                               /\ top.plan \in DOMAIN Plans
                               /\ top.elem <= Len(Plans[top.plan].cond) + 1
BY TopFrame, FreeUnknown DEF CycleInv, OwnInv, PlaceInv, TypeOK

\* Fields that a step leaves alone hold what they held.
LEMMA SameHeld ==
  ASSUME NEW f, NEW g, g.array = f.array, g.next = f.next, g.intentions = f.intentions,
         f \in Frame, HeldOnce(f), g.c \in {f.c, NoContext}
  PROVE  HeldOnce(g) /\ Held(g) \subseteq Held(f)
<1>1. IntentionContexts(g) = IntentionContexts(f)
  BY DEF IntentionContexts
<1>2. NoContext \notin ToSet(f.array) \cup ToSet(f.next) \cup ToSet(IntentionContexts(f))
  BY FrameSeqs
<1>3. QED
  BY <1>1, <1>2 DEF HeldOnce, Held

(***************************************************************************)
(* The steps of the first loop.                                            *)
(***************************************************************************)
\* Testing a plan binds its trigger to the new context.
LEMMA TestBinds ==
  ASSUME TypeOK, TestPlan, CanAllocate(1)
  PROVE  planCtx' \in [DOMAIN Plans -> ContextIds \cup {NoContext}]
BY FreshOne DEF TestPlan, Bind, TypeOK

LEMMA NextPlanFrame ==
  ASSUME NEW f \in Frame, f.plan \in DOMAIN Plans
  PROVE  LET g == NextPlan(f) IN
           /\ g \in Frame /\ g.c = NoContext /\ g.elem = f.elem /\ g.pc = "test"
           /\ g.array = f.array /\ g.next = f.next /\ g.intentions = f.intentions
<1> DEFINE g == NextPlan(f)
<1>1. f.plan + 1 \in 1 .. Len(Plans) + 1
  BY PlanAssumption
<1>2. g = [f EXCEPT !.pc = "test", !.plan = f.plan + 1, !.c = NoContext]
  BY DEF NextPlan
<1> HIDE DEF g
<1>3. /\ g.c = NoContext /\ g.elem = f.elem /\ g.pc = "test"
      /\ g.array = f.array /\ g.next = f.next /\ g.intentions = f.intentions
  BY <1>2 DEF Frame
<1>4. g \in Frame
  BY <1>1, <1>2 DEF Frame
<1>5. QED
  BY <1>3, <1>4 DEF g

\* An intention with a context that the activation does not hold elsewhere.
LEMMA NewIntention ==
  ASSUME NEW f \in Frame, HeldOnce(f), NEW p \in DOMAIN Plans,
         NEW ctx \in ContextIds, ctx \notin Held(f),
         NEW g, g.array = f.array, g.next = f.next, g.c = f.c,
         g.intentions = Append(f.intentions, [plan |-> p, ctx |-> ctx])
  PROVE  HeldOnce(g) /\ Held(g) = Held(f) \cup {ctx}
<1> DEFINE x == [plan |-> p, ctx |-> ctx]
           s == f.intentions
<1>1. /\ s \in Seq([plan : DOMAIN Plans, ctx : ContextIds])
      /\ IntentionContexts(f) \in Seq(ContextIds)
  BY FrameSeqs
<1>2. IntentionContexts(g) = Append(IntentionContexts(f), ctx)
  <2>1. /\ DOMAIN Append(s, x) = 1 .. Len(s) + 1 /\ Len(s) \in Nat
        /\ DOMAIN s = 1 .. Len(s)
        /\ \A n \in 1 .. Len(s) : Append(s, x)[n] = s[n]
        /\ Append(s, x)[Len(s) + 1] = x
    BY <1>1
  <2>2. /\ IntentionContexts(f) = [n \in 1 .. Len(s) |-> s[n].ctx]
        /\ Len(IntentionContexts(f)) = Len(s)
    BY <2>1 DEF IntentionContexts
  <2>3. IntentionContexts(g) = [n \in 1 .. Len(s) + 1 |-> Append(s, x)[n].ctx]
    BY <2>1 DEF IntentionContexts
  <2>4. Append(IntentionContexts(f), ctx) =
          [n \in 1 .. Len(s) + 1 |-> IF n = Len(s) + 1 THEN ctx ELSE IntentionContexts(f)[n]]
    BY <1>1, <2>1, <2>2
  <2>5. ASSUME NEW n \in 1 .. Len(s) + 1
        PROVE  Append(s, x)[n].ctx = IF n = Len(s) + 1 THEN ctx ELSE IntentionContexts(f)[n]
    BY <2>1, <2>2
  <2> HIDE DEF x, s
  <2>6. QED
    BY <2>3, <2>4, <2>5
<1>3. /\ ToSet(IntentionContexts(g)) = ToSet(IntentionContexts(f)) \cup {ctx}
      /\ IsInjective(IntentionContexts(f)) /\ ctx \notin ToSet(IntentionContexts(f))
           => IsInjective(IntentionContexts(g))
  BY <1>1, <1>2, AppendHolds
<1>4. /\ ctx \notin ToSet(f.array) /\ ctx \notin ToSet(f.next)
      /\ ctx \notin ToSet(IntentionContexts(f)) /\ (ctx # f.c \/ f.c = NoContext)
      /\ ctx # NoContext
  <2>1. NoContext \notin ContextIds
    BY BoundAssumption DEF NoContext, ContextIds
  <2>2. QED
    BY <2>1 DEF Held
<1>5. QED
  BY <1>3, <1>4 DEF HeldOnce, Held

LEMMA NotTriggeredKeeps ==
  ASSUME CycleInv, NotTriggered
  PROVE  CycleInv'
<1> DEFINE g == NextPlan(top)
<1>1. /\ TypeOK /\ TestPlan /\ CanAllocate(1) /\ SetTop(g)
      /\ UNCHANGED <<heap, objects, engineVars>>
      /\ stack # <<>> /\ top.plan \in DOMAIN Plans
  BY DEF CycleInv, NotTriggered, TestPlan, At
<1>2. top \in Frame /\ HeldOnce(top) /\ top.elem > 0
  BY <1>1, TopFrame DEF CycleInv, OwnInv, PlaceInv
<1>3. /\ g \in Frame /\ g.c = NoContext /\ g.elem = top.elem /\ g.pc = "test"
      /\ g.array = top.array /\ g.next = top.next /\ g.intentions = top.intentions
  BY <1>1, <1>2, NextPlanFrame
<1>4. HeldOnce(g) /\ Held(g) \subseteq Held(top)
  BY <1>2, <1>3, SameHeld
<1>5. planCtx' \in [DOMAIN Plans -> ContextIds \cup {NoContext}]
  BY <1>1, TestBinds
<1>6. QED
  BY <1>1, <1>2, <1>3, <1>4, <1>5, TopMoves

LEMMA PlanElements ==
  ASSUME NEW p \in DOMAIN Plans
  PROVE  Plans[p].trigger \in Template /\ Plans[p].cond \in Seq(Template)
<1>1. Plans[p] \in [type : {"add", "del", "call"}, trigger : Template, cond : Seq(Template)]
  <2> DEFINE R == [type : {"add", "del", "call"}, trigger : Template, cond : Seq(Template)]
  <2>1. Plans \in Seq(R)
    BY PlanAssumption
  <2> HIDE DEF R
  <2>2. Plans[p] \in R
    BY <2>1
  <2>3. QED
    BY <2>2 DEF R
<1>2. QED
  BY <1>1

\* The starting context of a plan that is triggered.
LEMMA StartBinds ==
  ASSUME TypeOK, stack # <<>>, top.plan \in DOMAIN Plans, Triggered
  PROVE  <<Extend(plan.trigger, top.evt.bel, NoBinding)>> \in Seq(Bindings)
<1>1. plan.trigger \in Template
  BY PlanElements DEF plan
<1>2. top.evt.bel \in Fact
  <2>1. top.evt \in Event
    BY TopFrame DEF Frame
  <2>2. top.evt.bel \in Beliefs \cup Reactors \cup Procedures
    BY <2>1 DEF Event
  <2>3. QED
    BY <2>2, FormulaAssumption
<1>3. Matches(plan.trigger, top.evt.bel, NoBinding)
  BY DEF Triggered
<1>4. QED
  BY <1>1, <1>2, <1>3, EmptyBinding, ExtendBinds

LEMMA UnconditionalKeeps ==
  ASSUME CycleInv, Unconditional
  PROVE  CycleInv'
<1> DEFINE n  == NextPlan(top)
           x  == [plan |-> top.plan, ctx |-> Fresh(1)[1]]
           bs == <<Extend(plan.trigger, top.evt.bel, NoBinding)>>
           g  == [n EXCEPT !.intentions = Append(@, x)]
<1>1. /\ TestPlan /\ Triggered /\ SetTop(g) /\ Allocate(bs)
      /\ stack # <<>> /\ top.plan \in DOMAIN Plans /\ UNCHANGED engineVars
  BY DEF Unconditional, TriggeredPlan, TestPlan, At
<1>2. /\ TypeOK /\ top \in Frame /\ HeldOnce(top) /\ top.elem > 0
      /\ Held(top) \subseteq DOMAIN heap /\ Held(top) \cap Free = {}
  BY <1>1, AtTop
<1>3. bs \in Seq(Bindings) /\ Len(bs) = 1
  BY <1>1, <1>2, StartBinds
<1>4. CanAllocate(1)
  BY <1>1, <1>3 DEF Allocate
<1>5. /\ Fresh(1)[1] \in Free /\ Fresh(1)[1] \in ContextIds
      /\ ToSet(Fresh(Len(bs))) = {Fresh(1)[1]}
  BY <1>2, <1>3, <1>4, FreshOne
<1>6. /\ n \in Frame /\ n.c = NoContext /\ n.elem = top.elem /\ n.pc = "test"
      /\ n.array = top.array /\ n.next = top.next /\ n.intentions = top.intentions
  BY <1>1, <1>2, NextPlanFrame
<1>7. HeldOnce(n) /\ Held(n) \subseteq Held(top)
  BY <1>2, <1>6, SameHeld
<1> HIDE DEF n
<1>8. /\ g \in Frame /\ g.c = NoContext /\ g.elem = n.elem /\ g.pc = "test"
      /\ g.array = n.array /\ g.next = n.next /\ g.intentions = Append(n.intentions, x)
  <2>1. x \in [plan : DOMAIN Plans, ctx : ContextIds]
    BY <1>1, <1>5
  <2>2. Append(n.intentions, x) \in Seq([plan : DOMAIN Plans, ctx : ContextIds])
    <3>1. n.intentions \in Seq([plan : DOMAIN Plans, ctx : ContextIds])
      BY <1>6, FrameSeqs
    <3> HIDE DEF x
    <3>2. QED
      BY <2>1, <3>1, AppendProperties
  <2> HIDE DEF x
  <2>3. QED
    BY <1>6, <2>2 DEF Frame
<1>9. HeldOnce(g) /\ Held(g) \subseteq Held(n) \cup {Fresh(1)[1]}
  <2>1. Fresh(1)[1] \notin Held(n)
    BY <1>2, <1>5, <1>7
  <2> HIDE DEF g
  <2>2. HeldOnce(g) /\ Held(g) = Held(n) \cup {Fresh(1)[1]}
    BY <1>1, <1>5, <1>6, <1>7, <1>8, <2>1, NewIntention
  <2>3. QED
    BY <2>2
<1>10. planCtx' \in [DOMAIN Plans -> ContextIds \cup {NoContext}]
  BY <1>1, <1>2, <1>4, TestBinds
<1> HIDE DEF g, bs
<1>11. QED
  BY <1>1, <1>2, <1>3, <1>5, <1>6, <1>7, <1>8, <1>9, <1>10, TopAllocates

LEMMA ConditionalKeeps ==
  ASSUME CycleInv, Conditional
  PROVE  CycleInv'
<1> DEFINE c  == Fresh(1)[1]
           bs == <<Extend(plan.trigger, top.evt.bel, NoBinding)>>
           g  == [top EXCEPT !.pc = "eval", !.c = c, !.elem = 1,
                             !.array = <<>>, !.next = <<>>, !.idx = 1]
<1>1. /\ TestPlan /\ Triggered /\ SetTop(g) /\ Allocate(bs)
      /\ stack # <<>> /\ top.plan \in DOMAIN Plans /\ UNCHANGED engineVars
  BY DEF Conditional, TriggeredPlan, TestPlan, At
<1>2. /\ TypeOK /\ top \in Frame /\ HeldOnce(top)
      /\ Held(top) \cap Free = {}
  BY <1>1, AtTop
<1>3. bs \in Seq(Bindings) /\ Len(bs) = 1
  BY <1>1, <1>2, StartBinds
<1>4. CanAllocate(1)
  BY <1>1, <1>3 DEF Allocate
<1>5. c \in Free /\ c \in ContextIds /\ ToSet(Fresh(Len(bs))) = {c} /\ c # NoContext
  <2>1. NoContext \notin ContextIds
    BY BoundAssumption DEF NoContext, ContextIds
  <2>2. QED
    BY <1>2, <1>3, <1>4, <2>1, FreshOne
<1> HIDE DEF c, bs
<1>6. /\ g \in Frame /\ g.c = c /\ g.elem = 1 /\ g.array = <<>> /\ g.next = <<>>
      /\ g.intentions = top.intentions /\ g.plan = top.plan /\ g.pc = "eval"
  <2>1. <<>> \in Seq(ContextIds)
    OBVIOUS
  <2>2. QED
    BY <1>2, <1>5, <2>1 DEF Frame
<1> HIDE DEF g
<1>7. HeldOnce(g) /\ Held(g) \subseteq Held(top) \cup {c}
  <2>1. IntentionContexts(g) = IntentionContexts(top)
    BY <1>6 DEF IntentionContexts
  <2>2. QED
    BY <1>2, <1>5, <1>6, <2>1, EmptyHolds DEF HeldOnce, Held
<1>8. planCtx' \in [DOMAIN Plans -> ContextIds \cup {NoContext}]
  BY <1>1, <1>2, <1>4, TestBinds
<1>9. g.elem > 0 /\ g.elem <= Len(Plans[g.plan].cond) + 1
  BY <1>1, <1>6, PlanElements
<1>10. QED
  BY <1>1, <1>3, <1>5, <1>6, <1>7, <1>8, <1>9, TopAllocates

\* What the evaluation of a condition works with.
LEMMA AtEval ==
  ASSUME CycleInv, At("eval")
  PROVE  /\ stack # <<>> /\ TypeOK /\ top \in Frame /\ HeldOnce(top)
         /\ Held(top) \subseteq DOMAIN heap /\ Held(top) \cap Free = {}
         /\ top.pc = "eval" /\ top.plan \in DOMAIN Plans
         /\ top.c # NoContext /\ top.c \in Held(top)
         /\ PastLast = Len(plan.cond) + 1 /\ PastLast \in Nat /\ top.elem \in 1 .. PastLast
         /\ plan = Plans[top.plan]
         /\ \A c \in Held(top) : heap[c] \in Bindings
         /\ kb \in Seq(Fact)
         /\ top.elem < PastLast => element \in Template
<1>1. /\ stack # <<>> /\ TypeOK /\ top \in Frame /\ HeldOnce(top)
      /\ Held(top) \subseteq DOMAIN heap /\ Held(top) \cap Free = {}
      /\ top.pc = "eval" /\ top.plan \in DOMAIN Plans
      /\ top.c # NoContext /\ top.elem > 0 /\ top.elem <= Len(Plans[top.plan].cond) + 1
  BY AtTop DEF At
<1>2. top.c \in Held(top) /\ \A c \in Held(top) : heap[c] \in Bindings
  BY <1>1 DEF Held, TypeOK
<1>3. plan.cond \in Seq(Template) /\ plan = Plans[top.plan]
  BY <1>1, PlanElements DEF plan
<1>4. PastLast = Len(plan.cond) + 1 /\ PastLast \in Nat /\ top.elem \in 1 .. PastLast
  <2>1. top.elem \in Nat
    BY <1>1 DEF Frame
  <2>2. QED
    BY <1>1, <1>3, <2>1 DEF PastLast
<1>5. top.elem < PastLast => element \in Template
  BY <1>3, <1>4 DEF element
<1>6. kb \in Seq(Fact)
  BY <1>1, FormulaAssumption, SeqMonotonic DEF TypeOK
<1>7. QED
  BY <1>1, <1>2, <1>3, <1>4, <1>5, <1>6

LEMMA FirstPredicateKeeps ==
  ASSUME CycleInv, FirstPredicate
  PROVE  CycleInv'
<1> DEFINE e == IF Holds(element, heap[top.c]) THEN 2 ELSE PastLast
           g == [top EXCEPT !.elem = e]
<1>1. /\ At("eval") /\ SetTop(g) /\ UNCHANGED <<heap, objects, engineVars>>
      /\ UNCHANGED planCtx /\ top.elem = 1 /\ top.elem < PastLast
  BY DEF FirstPredicate, Evaluating
<1>2. /\ stack # <<>> /\ top \in Frame /\ HeldOnce(top) /\ top.pc = "eval"
      /\ top.plan \in DOMAIN Plans /\ top.c # NoContext
      /\ PastLast = Len(Plans[top.plan].cond) + 1 /\ PastLast \in Nat
  BY <1>1, AtEval
<1>3. e \in Nat /\ e > 0 /\ e <= PastLast
  BY <1>1, <1>2
<1> HIDE DEF e
<1>4. /\ g \in Frame /\ g.c = top.c /\ g.elem = e /\ g.array = top.array /\ g.next = top.next
      /\ g.intentions = top.intentions /\ g.plan = top.plan /\ g.pc = "eval"
  BY <1>2, <1>3 DEF Frame
<1> HIDE DEF g
<1>5. HeldOnce(g) /\ Held(g) \subseteq Held(top)
  BY <1>2, <1>4, SameHeld
<1>6. planCtx' \in [DOMAIN Plans -> ContextIds \cup {NoContext}]
  BY <1>1, AtTop, <1>2
<1>7. QED
  BY <1>1, <1>2, <1>3, <1>4, <1>5, <1>6, TopMoves

LEMMA FirstBeliefKeeps ==
  ASSUME CycleInv, FirstBelief
  PROVE  CycleInv'
<1> DEFINE found == GetMatching(kb, element, heap[top.c])
           ids   == Fresh(Len(found))
           e     == IF found = <<>> THEN PastLast ELSE 2
           g     == [top EXCEPT !.array = ids, !.elem = e]
<1>1. /\ At("eval") /\ SetTop(g) /\ Allocate(found) /\ UNCHANGED engineVars
      /\ UNCHANGED planCtx /\ top.elem = 1 /\ top.elem < PastLast
  BY DEF FirstBelief, Evaluating
<1>2. /\ stack # <<>> /\ TypeOK /\ top \in Frame /\ HeldOnce(top) /\ top.pc = "eval"
      /\ Held(top) \cap Free = {}
      /\ top.plan \in DOMAIN Plans /\ top.c # NoContext
      /\ PastLast = Len(Plans[top.plan].cond) + 1 /\ PastLast \in Nat
      /\ heap[top.c] \in Bindings /\ kb \in Seq(Fact) /\ element \in Template
  BY <1>1, AtEval
<1>3. found \in Seq(Bindings)
  BY <1>2, MatchingBinds
<1>4. e \in Nat /\ e > 0 /\ e <= PastLast
  BY <1>1, <1>2
<1> HIDE DEF found, e
<1>5. ids \in Seq(ContextIds) /\ ToSet(ids) \subseteq Free /\ IsInjective(ids)
  BY <1>1, <1>2, <1>3, FreshFree DEF Allocate
<1> HIDE DEF ids
<1>6. /\ g \in Frame /\ g.c = top.c /\ g.elem = e /\ g.array = ids /\ g.next = top.next
      /\ g.intentions = top.intentions /\ g.plan = top.plan /\ g.pc = "eval"
  BY <1>2, <1>4, <1>5 DEF Frame
<1> HIDE DEF g
<1>7. HeldOnce(g) /\ Held(g) \subseteq Held(top) \cup ToSet(ids)
  <2>1. IntentionContexts(g) = IntentionContexts(top)
    BY <1>6 DEF IntentionContexts
  <2>2. QED
    BY <1>2, <1>5, <1>6, <2>1 DEF HeldOnce, Held
<1>8. planCtx' \in [DOMAIN Plans -> ContextIds \cup {NoContext}]
  BY <1>1, <1>2, AtTop
<1>9. QED
  BY <1>1, <1>2, <1>3, <1>4, <1>6, <1>7, <1>8, TopAllocates DEF ids

\* A context of context_array gives way to others in next_context_array.
Moved(f, cs) == [f EXCEPT !.array = RemoveAt(@, f.idx), !.next = @ \o cs]

LEMMA MovedOn ==
  ASSUME NEW f \in Frame, HeldOnce(f), f.idx \in DOMAIN f.array,
         NEW cs \in Seq(ContextIds), IsInjective(cs),
         ToSet(cs) \cap (Held(f) \ {f.array[f.idx]}) = {}
  PROVE  LET g == Moved(f, cs) IN
         /\ g \in Frame /\ g.pc = f.pc /\ g.plan = f.plan /\ g.elem = f.elem /\ g.c = f.c
         /\ HeldOnce(g) /\ Held(g) \subseteq Held(f) \cup ToSet(cs)
<1> DEFINE i == f.idx
           r == RemoveAt(f.array, i)
           n == f.next \o cs
           g == Moved(f, cs)
<1>1. f.array \in Seq(ContextIds) /\ f.next \in Seq(ContextIds)
  BY FrameSeqs
<1>2. /\ r \in Seq(ContextIds) /\ ToSet(r) \subseteq ToSet(f.array)
      /\ IsInjective(r) /\ f.array[i] \notin ToSet(r)
  BY <1>1, RemoveHolds DEF HeldOnce
<1>3. f.array[i] \in ToSet(f.array)
  BY DEF ToSet
<1>4. ToSet(cs) \cap ToSet(f.next) = {}
  BY <1>3 DEF Held, HeldOnce
<1>5. n \in Seq(ContextIds) /\ ToSet(n) = ToSet(f.next) \cup ToSet(cs) /\ IsInjective(n)
  BY <1>1, <1>4, ConcatHolds, ConcatProperties DEF HeldOnce
<1>6. g = [f EXCEPT !.array = r, !.next = n]
  BY DEF Moved
<1> HIDE DEF r, n, g
<1>7. /\ g \in Frame /\ g.pc = f.pc /\ g.plan = f.plan /\ g.elem = f.elem /\ g.c = f.c
      /\ g.array = r /\ g.next = n /\ g.intentions = f.intentions
  BY <1>2, <1>5, <1>6 DEF Frame
<1>8. IntentionContexts(g) = IntentionContexts(f)
  BY <1>7 DEF IntentionContexts
<1>9. Held(g) \subseteq Held(f) \cup ToSet(cs)
  BY <1>2, <1>5, <1>7, <1>8 DEF Held
<1>10. f.c \notin ToSet(cs)
  <2>1. NoContext \notin ContextIds
    BY BoundAssumption DEF NoContext, ContextIds
  <2>2. f.c # f.array[i] /\ \A x \in ToSet(cs) : x \in ContextIds
    BY <1>3 DEF HeldOnce, ToSet
  <2>3. f.c = NoContext \/ f.c \in Held(f) \ {f.array[i]}
    BY <2>2 DEF Held
  <2>4. QED
    BY <2>1, <2>2, <2>3
<1>11. ToSet(cs) \cap ToSet(r) = {} /\ ToSet(cs) \cap ToSet(IntentionContexts(f)) = {}
  BY <1>2, <1>3 DEF Held, HeldOnce
<1>12. HeldOnce(g)
  BY <1>2, <1>5, <1>7, <1>8, <1>10, <1>11 DEF HeldOnce
<1>13. QED
  BY <1>7, <1>9, <1>12 DEF g

LEMMA NextIndex ==
  ASSUME NEW f \in Frame, HeldOnce(f), NEW g, g = [f EXCEPT !.idx = @ + 1]
  PROVE  /\ g \in Frame /\ g.pc = f.pc /\ g.plan = f.plan /\ g.elem = f.elem /\ g.c = f.c
         /\ HeldOnce(g) /\ Held(g) \subseteq Held(f)
<1>1. f.idx + 1 \in Nat
  BY DEF Frame
<1>2. /\ g \in Frame /\ g.pc = f.pc /\ g.plan = f.plan /\ g.elem = f.elem /\ g.c = f.c
      /\ g.array = f.array /\ g.next = f.next /\ g.intentions = f.intentions
  BY <1>1 DEF Frame
<1>3. QED
  BY <1>2, SameHeld

\* The context that the loop is at.
LEMMA AtLoop ==
  ASSUME CycleInv, AtContext
  PROVE  /\ At("eval") /\ top.idx \in DOMAIN top.array /\ top.elem < PastLast
         /\ context = top.array[top.idx] /\ context \in ContextIds
         /\ context \in Held(top) /\ heap[context] \in Bindings
<1>1. At("eval") /\ top.idx \in DOMAIN top.array /\ top.elem < PastLast
  BY DEF AtContext, Evaluating
<1>2. top \in Frame /\ \A c \in Held(top) : heap[c] \in Bindings
  BY <1>1, AtEval
<1>3. context \in Held(top) /\ context \in ContextIds /\ context = top.array[top.idx]
  BY <1>1, <1>2, FrameSeqs DEF context, Held, ToSet
<1>4. QED
  BY <1>1, <1>2, <1>3

LEMMA NextPredicateKeeps ==
  ASSUME CycleInv, NextPredicate
  PROVE  CycleInv'
<1>1. /\ AtContext /\ UNCHANGED <<heap, objects, engineVars>> /\ UNCHANGED planCtx
      /\ ContextMatches(<<context>>) \/ ContextFails
  BY DEF NextPredicate
<1>2. /\ At("eval") /\ top.idx \in DOMAIN top.array
      /\ context = top.array[top.idx] /\ context \in ContextIds /\ context \in Held(top)
  BY <1>1, AtLoop
<1>3. /\ stack # <<>> /\ top \in Frame /\ HeldOnce(top) /\ top.pc = "eval"
      /\ top.plan \in DOMAIN Plans /\ top.c # NoContext /\ top.elem \in 1 .. PastLast
      /\ PastLast = Len(Plans[top.plan].cond) + 1 /\ PastLast \in Nat
  BY <1>2, AtEval
<1>4. planCtx' \in [DOMAIN Plans -> ContextIds \cup {NoContext}]
  BY <1>1, <1>3, AtTop
<1>5. \E g \in Frame : /\ SetTop(g) /\ HeldOnce(g) /\ Held(g) \subseteq Held(top)
                       /\ g.pc = top.pc /\ g.plan = top.plan /\ g.elem = top.elem
                       /\ g.c = top.c
  <2>1. CASE ContextMatches(<<context>>)
    <3> DEFINE cs == <<context>>
               g  == Moved(top, cs)
    <3>1. SetTop(g)
      BY <2>1 DEF ContextMatches, Moved
    <3>2. cs \in Seq(ContextIds) /\ ToSet(cs) = {context} /\ IsInjective(cs)
      BY <1>2 DEF ToSet, IsInjective
    <3>3. ToSet(cs) \cap (Held(top) \ {top.array[top.idx]}) = {}
      BY <1>2, <3>2
    <3> HIDE DEF cs
    <3>4. /\ g \in Frame /\ g.pc = top.pc /\ g.plan = top.plan /\ g.elem = top.elem
          /\ g.c = top.c /\ HeldOnce(g) /\ Held(g) \subseteq Held(top) \cup ToSet(cs)
      BY <1>2, <1>3, <3>2, <3>3, MovedOn
    <3> HIDE DEF g
    <3>5. QED
      BY <1>2, <3>1, <3>2, <3>4
  <2>2. CASE ContextFails
    <3> DEFINE g == [top EXCEPT !.idx = @ + 1]
    <3>1. SetTop(g)
      BY <2>2 DEF ContextFails
    <3>2. /\ g \in Frame /\ g.pc = top.pc /\ g.plan = top.plan /\ g.elem = top.elem
          /\ g.c = top.c /\ HeldOnce(g) /\ Held(g) \subseteq Held(top)
      BY <1>3, NextIndex
    <3> HIDE DEF g
    <3>3. QED
      BY <3>1, <3>2
  <2>3. QED
    BY <1>1, <2>1, <2>2
<1>6. PICK g \in Frame : /\ SetTop(g) /\ HeldOnce(g) /\ Held(g) \subseteq Held(top)
                         /\ g.pc = top.pc /\ g.plan = top.plan /\ g.elem = top.elem
                         /\ g.c = top.c
  BY <1>5
<1>7. g.elem > 0 /\ g.elem <= Len(Plans[g.plan].cond) + 1
  BY <1>3, <1>6
<1>8. QED
  BY <1>1, <1>3, <1>4, <1>6, <1>7, TopMoves

LEMMA NextBeliefKeeps ==
  ASSUME CycleInv, NextBelief
  PROVE  CycleInv'
<1> DEFINE found == GetMatching(kb, element, heap[context])
           ids   == Fresh(Len(found))
<1>1. /\ AtContext /\ Allocate(found) /\ UNCHANGED engineVars /\ UNCHANGED planCtx
      /\ ContextMatches(ids) \/ ContextFails
  BY DEF NextBelief
<1>2. /\ At("eval") /\ top.idx \in DOMAIN top.array /\ top.elem < PastLast
      /\ context = top.array[top.idx] /\ context \in Held(top) /\ heap[context] \in Bindings
  BY <1>1, AtLoop
<1>3. /\ stack # <<>> /\ TypeOK /\ top \in Frame /\ HeldOnce(top) /\ top.pc = "eval"
      /\ Held(top) \cap Free = {}
      /\ top.plan \in DOMAIN Plans /\ top.c # NoContext /\ top.elem \in 1 .. PastLast
      /\ PastLast = Len(Plans[top.plan].cond) + 1 /\ PastLast \in Nat
      /\ kb \in Seq(Fact) /\ element \in Template
  BY <1>2, AtEval
<1>4. planCtx' \in [DOMAIN Plans -> ContextIds \cup {NoContext}]
  BY <1>1, <1>3, AtTop
<1>5. found \in Seq(Bindings)
  BY <1>2, <1>3, MatchingBinds
<1> HIDE DEF found
<1>6. ids \in Seq(ContextIds) /\ ToSet(ids) \subseteq Free /\ IsInjective(ids)
  BY <1>1, <1>3, <1>5, FreshFree DEF Allocate
<1>7. ToSet(Fresh(Len(found))) = ToSet(ids)
  OBVIOUS
<1> HIDE DEF ids
<1>8. \E g \in Frame : /\ SetTop(g) /\ HeldOnce(g) /\ Held(g) \subseteq Held(top) \cup ToSet(ids)
                       /\ g.pc = top.pc /\ g.plan = top.plan /\ g.elem = top.elem
                       /\ g.c = top.c
  <2>1. CASE ContextMatches(ids)
    <3> DEFINE g == Moved(top, ids)
    <3>1. SetTop(g)
      BY <2>1 DEF ContextMatches, Moved
    <3>2. ToSet(ids) \cap (Held(top) \ {top.array[top.idx]}) = {}
      BY <1>3, <1>6
    <3>3. /\ g \in Frame /\ g.pc = top.pc /\ g.plan = top.plan /\ g.elem = top.elem
          /\ g.c = top.c /\ HeldOnce(g) /\ Held(g) \subseteq Held(top) \cup ToSet(ids)
      BY <1>2, <1>3, <1>6, <3>2, MovedOn
    <3> HIDE DEF g
    <3>4. QED
      BY <3>1, <3>3
  <2>2. CASE ContextFails
    <3> DEFINE g == [top EXCEPT !.idx = @ + 1]
    <3>1. SetTop(g)
      BY <2>2 DEF ContextFails
    <3>2. /\ g \in Frame /\ g.pc = top.pc /\ g.plan = top.plan /\ g.elem = top.elem
          /\ g.c = top.c /\ HeldOnce(g) /\ Held(g) \subseteq Held(top)
      BY <1>3, NextIndex
    <3> HIDE DEF g
    <3>3. QED
      BY <3>1, <3>2
  <2>3. QED
    BY <1>1, <2>1, <2>2
<1>9. PICK g \in Frame : /\ SetTop(g) /\ HeldOnce(g)
                         /\ Held(g) \subseteq Held(top) \cup ToSet(ids)
                         /\ g.pc = top.pc /\ g.plan = top.plan /\ g.elem = top.elem
                         /\ g.c = top.c
  BY <1>8
<1>10. g.elem > 0 /\ g.elem <= Len(Plans[g.plan].cond) + 1
  BY <1>3, <1>9
<1>11. QED
  BY <1>1, <1>3, <1>4, <1>5, <1>7, <1>9, <1>10, TopAllocates

LEMMA NextElementKeeps ==
  ASSUME CycleInv, NextElement
  PROVE  CycleInv'
<1> DEFINE e == IF top.next = <<>> THEN PastLast ELSE top.elem + 1
           g == [top EXCEPT !.array = top.next, !.next = <<>>, !.idx = 1, !.elem = e]
<1>1. /\ At("eval") /\ SetTop(g) /\ Delete(ToSet(top.array)) /\ UNCHANGED engineVars
      /\ UNCHANGED planCtx /\ top.elem < PastLast
  BY DEF NextElement, Evaluating
<1>2. /\ stack # <<>> /\ top \in Frame /\ HeldOnce(top) /\ top.pc = "eval"
      /\ top.plan \in DOMAIN Plans /\ top.c # NoContext /\ top.elem \in 1 .. PastLast
      /\ PastLast = Len(Plans[top.plan].cond) + 1 /\ PastLast \in Nat
  BY <1>1, AtEval
<1>3. e \in Nat /\ e > 0 /\ e <= PastLast
  BY <1>1, <1>2
<1> HIDE DEF e
<1>4. <<>> \in Seq(ContextIds) /\ top.next \in Seq(ContextIds)
  BY <1>2, FrameSeqs
<1>5. /\ g \in Frame /\ g.c = top.c /\ g.elem = e /\ g.array = top.next /\ g.next = <<>>
      /\ g.intentions = top.intentions /\ g.plan = top.plan /\ g.pc = "eval"
  BY <1>2, <1>3, <1>4 DEF Frame
<1> HIDE DEF g
<1>6. HeldOnce(g) /\ Held(g) \subseteq Held(top) \ ToSet(top.array)
  <2>1. IntentionContexts(g) = IntentionContexts(top)
    BY <1>5 DEF IntentionContexts
  <2>2. HeldOnce(g)
    BY <1>2, <1>5, <2>1, EmptyHolds DEF HeldOnce
  <2>3. QED
    BY <1>2, <1>5, <2>1, <2>2, EmptyHolds DEF HeldOnce, Held
<1>7. ToSet(top.array) \in SUBSET Held(top)
  BY DEF Held
<1>8. QED
  BY <1>1, <1>2, <1>3, <1>5, <1>6, <1>7, TopDeletes

LEMMA ConditionFalseKeeps ==
  ASSUME CycleInv, ConditionFalse
  PROVE  CycleInv'
<1> DEFINE g == NextPlan(top)
<1>1. /\ At("eval") /\ SetTop(g) /\ Delete({top.c}) /\ UNCHANGED engineVars
      /\ UNCHANGED planCtx
  BY DEF ConditionFalse, Evaluated
<1>2. /\ stack # <<>> /\ top \in Frame /\ HeldOnce(top) /\ top.plan \in DOMAIN Plans
      /\ top.elem \in 1 .. PastLast /\ PastLast \in Nat /\ top.c \in Held(top)
  BY <1>1, AtEval
<1>3. /\ g \in Frame /\ g.c = NoContext /\ g.elem = top.elem /\ g.pc = "test"
      /\ g.array = top.array /\ g.next = top.next /\ g.intentions = top.intentions
  BY <1>1, <1>2, NextPlanFrame
<1> HIDE DEF g
<1>4. HeldOnce(g) /\ Held(g) \subseteq Held(top) \ {top.c}
  <2>1. IntentionContexts(g) = IntentionContexts(top)
    BY <1>3 DEF IntentionContexts
  <2>2. HeldOnce(g)
    BY <1>2, <1>3, SameHeld
  <2>3. QED
    BY <1>2, <1>3, <2>1, <2>2 DEF HeldOnce, Held
<1>5. g.elem > 0
  BY <1>2, <1>3
<1>6. QED
  BY <1>1, <1>2, <1>3, <1>4, <1>5, TopDeletes

LEMMA ConditionTrueKeeps ==
  ASSUME CycleInv, ConditionTrue
  PROVE  CycleInv'
<1> DEFINE first == Head(top.array)
           m == [top EXCEPT !.array = <<>>]
           n == NextPlan(m)
           x == [plan |-> top.plan, ctx |-> first]
           g == [n EXCEPT !.intentions = Append(@, x)]
<1>1. /\ At("eval") /\ Delete(ToSet(Tail(top.array))) /\ top.array # <<>>
      /\ UNCHANGED engineVars /\ UNCHANGED planCtx
      /\ SetTop([NextPlan(top) EXCEPT !.array = <<>>, !.intentions = Append(@, x)])
  BY DEF ConditionTrue, Evaluated
<1>2. /\ stack # <<>> /\ top \in Frame /\ HeldOnce(top) /\ top.plan \in DOMAIN Plans
      /\ top.elem \in 1 .. PastLast /\ PastLast \in Nat
  BY <1>1, AtEval
<1>3. SetTop(g)
  <2>1. [NextPlan(top) EXCEPT !.array = <<>>, !.intentions = Append(@, x)] = g
    <3> HIDE DEF x
    <3>1. QED
      BY <1>2 DEF NextPlan, Frame
  <2>2. QED
    BY <1>1, <2>1
<1>4. /\ <<>> \in Seq(ContextIds) /\ top.array \in Seq(ContextIds)
      /\ first \in ToSet(top.array) /\ first \in ContextIds
      /\ ToSet(Tail(top.array)) \subseteq ToSet(top.array)
      /\ first \notin ToSet(Tail(top.array))
  <2>1. <<>> \in Seq(ContextIds) /\ top.array \in Seq(ContextIds)
    BY <1>2, FrameSeqs
  <2>2. QED
    BY <1>1, <1>2, <2>1, HeadHolds DEF HeldOnce
<1>5. /\ m \in Frame /\ m.array = <<>> /\ m.next = top.next /\ m.intentions = top.intentions
      /\ m.plan = top.plan /\ m.elem = top.elem
  BY <1>2, <1>4 DEF Frame
<1> HIDE DEF m, first
<1>6. /\ n \in Frame /\ n.c = NoContext /\ n.elem = top.elem /\ n.pc = "test"
      /\ n.array = <<>> /\ n.next = top.next /\ n.intentions = top.intentions
  BY <1>2, <1>5, NextPlanFrame
<1> HIDE DEF n
<1>7. /\ HeldOnce(n) /\ Held(n) \subseteq Held(top) /\ first \notin Held(n)
      /\ Held(n) \cap ToSet(top.array) = {}
  <2>1. IntentionContexts(n) = IntentionContexts(top)
    BY <1>6 DEF IntentionContexts
  <2>2. Held(n) = ToSet(top.next) \cup ToSet(IntentionContexts(top))
    BY <1>6, <2>1, EmptyHolds DEF Held
  <2>3. HeldOnce(n)
    BY <1>2, <1>6, <2>1, EmptyHolds, FrameSeqs DEF HeldOnce
  <2>4. QED
    BY <1>2, <1>4, <2>2, <2>3 DEF HeldOnce, Held
<1>8. /\ g \in Frame /\ g.c = n.c /\ g.elem = n.elem /\ g.pc = n.pc
      /\ g.array = n.array /\ g.next = n.next
      /\ g.intentions = Append(n.intentions, [plan |-> top.plan, ctx |-> first])
  <2>1. x \in [plan : DOMAIN Plans, ctx : ContextIds]
    BY <1>2, <1>4
  <2>2. n.intentions \in Seq([plan : DOMAIN Plans, ctx : ContextIds])
    BY <1>6, FrameSeqs
  <2>3. x = [plan |-> top.plan, ctx |-> first]
    OBVIOUS
  <2> HIDE DEF x
  <2>4. Append(n.intentions, x) \in Seq([plan : DOMAIN Plans, ctx : ContextIds])
    BY <2>1, <2>2, AppendProperties
  <2>5. /\ g \in Frame /\ g.c = n.c /\ g.elem = n.elem /\ g.pc = n.pc
        /\ g.array = n.array /\ g.next = n.next /\ g.intentions = Append(n.intentions, x)
    BY <1>6, <2>4 DEF Frame
  <2>6. QED
    BY <2>3, <2>5
<1> HIDE DEF g
<1>9. HeldOnce(g) /\ Held(g) = Held(n) \cup {first}
  BY <1>2, <1>4, <1>6, <1>7, <1>8, NewIntention
<1>10. /\ ToSet(Tail(top.array)) \in SUBSET Held(top)
       /\ Held(g) \subseteq Held(top) \ ToSet(Tail(top.array))
  <2>1. ToSet(top.array) \subseteq Held(top)
    BY DEF Held
  <2>2. QED
    BY <1>4, <1>7, <1>9, <2>1
<1>11. g.elem > 0 /\ g.pc # "eval"
  BY <1>2, <1>6, <1>8
<1>12. QED
  BY <1>1, <1>2, <1>3, <1>8, <1>9, <1>10, <1>11, TopDeletes

(***************************************************************************)
(* The steps of the second loop.                                           *)
(***************************************************************************)
\* Steps that change no more of the activation than where it is.
LEMMA PcMoves ==
  ASSUME CycleInv, stack # <<>>, UNCHANGED <<heap, objects, engineVars>>,
         UNCHANGED planCtx,
         NEW g \in Frame, SetTop(g), g.pc # "eval", g.elem = top.elem, g.c = top.c,
         g.array = top.array, g.next = top.next, g.intentions = top.intentions
  PROVE  CycleInv'
<1>1. /\ top \in Frame /\ HeldOnce(top) /\ top.elem > 0
      /\ planCtx \in [DOMAIN Plans -> ContextIds \cup {NoContext}]
  BY AtTop
<1>2. HeldOnce(g) /\ Held(g) \subseteq Held(top)
  BY <1>1, SameHeld
<1>3. QED
  BY <1>1, <1>2, TopMoves

LEMMA AllTestedKeeps ==
  ASSUME CycleInv, AllTested
  PROVE  CycleInv'
<1> DEFINE g == [top EXCEPT !.pc = "run", !.seen = {}, !.steady = {}]
<1>1. /\ stack # <<>> /\ SetTop(g) /\ UNCHANGED <<heap, objects, engineVars>>
      /\ UNCHANGED planCtx
  BY DEF AllTested, At
<1>2. top \in Frame
  BY <1>1, AtTop
<1>3. /\ g \in Frame /\ g.pc = "run" /\ g.elem = top.elem /\ g.c = top.c
      /\ g.array = top.array /\ g.next = top.next /\ g.intentions = top.intentions
  BY <1>2 DEF Frame
<1> HIDE DEF g
<1>4. QED
  BY <1>1, <1>3, PcMoves

LEMMA BodyCutKeeps ==
  ASSUME CycleInv, BodyCut
  PROVE  CycleInv'
<1> DEFINE g == [top EXCEPT !.pc = "run", !.i = top.i + 1]
<1>1. /\ stack # <<>> /\ SetTop(g) /\ UNCHANGED <<heap, objects, engineVars>>
      /\ UNCHANGED planCtx
  BY DEF BodyCut, InBody, At
<1>2. top \in Frame /\ top.i + 1 \in Nat
  BY <1>1, AtTop DEF Frame
<1>3. /\ g \in Frame /\ g.pc # "eval" /\ g.elem = top.elem /\ g.c = top.c
      /\ g.array = top.array /\ g.next = top.next /\ g.intentions = top.intentions
  BY <1>2 DEF Frame
<1> HIDE DEF g
<1>4. QED
  BY <1>1, <1>3, PcMoves

LEMMA CleaningKeeps ==
  ASSUME CycleInv, BodyReturn \/ AllCut
  PROVE  CycleInv'
<1> DEFINE g == [top EXCEPT !.pc = "clean"]
<1>1. /\ stack # <<>> /\ SetTop(g) /\ UNCHANGED <<heap, objects, engineVars>>
      /\ UNCHANGED planCtx
  BY DEF BodyReturn, AllCut, InBody, At
<1>2. top \in Frame
  BY <1>1, AtTop
<1>3. /\ g \in Frame /\ g.pc # "eval" /\ g.elem = top.elem /\ g.c = top.c
      /\ g.array = top.array /\ g.next = top.next /\ g.intentions = top.intentions
  BY <1>2 DEF Frame
<1> HIDE DEF g
<1>4. QED
  BY <1>1, <1>3, PcMoves

\* The collector gets a context that it knows already.
LEMMA StartBodyKeeps ==
  ASSUME CycleInv, StartBody
  PROVE  CycleInv'
<1> DEFINE x == top.intentions[top.i]
           g == [top EXCEPT !.pc = "body"]
<1>1. /\ stack # <<>> /\ top.i \in DOMAIN top.intentions
      /\ SetTop(g) /\ UNCHANGED heap /\ UNCHANGED engineVars
      /\ objects' = objects \cup {x.ctx}
      /\ planCtx' = [planCtx EXCEPT ![x.plan] = x.ctx]
  BY DEF StartBody, At, Bind
<1>2. /\ TypeOK /\ top \in Frame /\ HeldOnce(top) /\ Held(top) \subseteq DOMAIN heap
      /\ top.elem > 0 /\ planCtx \in [DOMAIN Plans -> ContextIds \cup {NoContext}]
  BY <1>1, AtTop
<1>3. x \in [plan : DOMAIN Plans, ctx : ContextIds]
  <2> DEFINE R == [plan : DOMAIN Plans, ctx : ContextIds]
  <2>1. top.intentions \in Seq(R)
    BY <1>2, FrameSeqs
  <2> HIDE DEF R
  <2>2. x \in R
    BY <1>1, <2>1
  <2>3. QED
    BY <2>2 DEF R
<1>4. x.ctx \in Held(top)
  BY <1>1 DEF Held, ToSet, IntentionContexts
<1>5. objects' = objects
  BY <1>1, <1>2, <1>4 DEF CycleInv, CollectorExact
<1>6. planCtx' \in [DOMAIN Plans -> ContextIds \cup {NoContext}]
  BY <1>1, <1>2, <1>3
<1>7. /\ g \in Frame /\ g.pc = "body" /\ g.elem = top.elem /\ g.c = top.c
      /\ g.array = top.array /\ g.next = top.next /\ g.intentions = top.intentions
  BY <1>2 DEF Frame
<1> HIDE DEF g, x
<1>8. HeldOnce(g) /\ Held(g) \subseteq Held(top)
  BY <1>2, <1>7, SameHeld
<1>9. UNCHANGED <<heap, objects, engineVars>>
  BY <1>1, <1>5
<1>10. QED
  BY <1>1, <1>2, <1>6, <1>7, <1>8, <1>9, TopMoves

(***************************************************************************)
(* Steps that begin and end activations.                                   *)
(***************************************************************************)
LEMMA Bounds ==
  /\ MaxPosts \in Nat /\ MaxStatements \in Nat /\ MaxContexts \in Nat
  /\ MaxDepth \in Nat /\ MaxDepth >= 1
BY BoundAssumption

\* A new activation holds nothing.
LEMMA NewFrameHolds ==
  ASSUME TypeOK, NEW evt \in Event
  PROVE  LET g == NewFrame(evt) IN
           g \in Frame /\ HeldOnce(g) /\ Held(g) = {} /\ g.elem = 1 /\ g.pc = "test"
<1> DEFINE g == NewFrame(evt)
<1>1. ToSet(kb) \subseteq Beliefs
  BY DEF TypeOK, ToSet
<1>2. 1 \in 1 .. Len(Plans) + 1
  BY PlanAssumption
<1>3. /\ <<>> \in Seq(ContextIds)
      /\ <<>> \in Seq([plan : DOMAIN Plans, ctx : ContextIds])
  OBVIOUS
<1>4. g \in Frame
  BY <1>1, <1>2, <1>3 DEF NewFrame, Frame
<1>5. /\ g.c = NoContext /\ g.array = <<>> /\ g.next = <<>> /\ g.intentions = <<>>
      /\ g.elem = 1 /\ g.pc = "test"
  BY DEF NewFrame
<1> HIDE DEF g
<1>6. IntentionContexts(g) = <<>>
  BY <1>5 DEF IntentionContexts
<1>7. HeldOnce(g) /\ Held(g) = {}
  BY <1>5, <1>6, EmptyHolds DEF HeldOnce, Held
<1>8. QED
  BY <1>4, <1>5, <1>7 DEF g

LEMMA PopEventKeeps ==
  ASSUME CycleInv, PopEvent
  PROVE  CycleInv'
<1> DEFINE g == NewFrame(Head(event_queue))
<1>1. /\ TypeOK /\ event_queue # <<>> /\ stack' = <<g>> /\ event_queue' = Tail(event_queue)
      /\ UNCHANGED <<kb, pending, heap, objects, planCtx, posts, statements>>
  BY DEF CycleInv, PopEvent
<1>2. Head(event_queue) \in Event /\ event_queue' \in Seq(Event)
  BY <1>1 DEF TypeOK
<1>3. g \in Frame /\ HeldOnce(g) /\ Held(g) = {} /\ g.elem = 1 /\ g.pc = "test"
  BY <1>1, <1>2, NewFrameHolds
<1> HIDE DEF g
<1>4. /\ stack' \in Seq(Frame) /\ Len(stack') = 1 /\ DOMAIN stack' = {1}
      /\ stack'[1] = g /\ stack' # <<>>
  BY <1>1, <1>3
<1>5. TypeOK'
  BY <1>1, <1>2, <1>4, Bounds DEF TypeOK, Depth
<1>6. PlaceInv'
  BY <1>3, <1>4 DEF PlaceInv
<1>7. OwnInv'
  BY <1>3, <1>4 DEF OwnInv, HeldOnce, Held
<1>8. CollectorExact' /\ NothingLeaks'
  BY <1>1, <1>4 DEF CycleInv, CollectorExact, NothingLeaks
<1>9. QED
  BY <1>5, <1>6, <1>7, <1>8 DEF CycleInv

LEMMA BodyCallKeeps ==
  ASSUME CycleInv, BodyCall
  PROVE  CycleInv'
<1>1. PICK f \in Procedures : stack' = Append(stack, NewFrame([type |-> "call", bel |-> f]))
  BY DEF BodyCall
<1> DEFINE g == NewFrame([type |-> "call", bel |-> f])
<1>2. /\ TypeOK /\ Depth < MaxDepth /\ statements < MaxStatements
      /\ statements' = statements + 1
      /\ UNCHANGED <<kb, event_queue, pending, heap, objects, planCtx, posts>>
  BY DEF CycleInv, BodyCall, Statement
<1>3. [type |-> "call", bel |-> f] \in Event
  BY DEF Event
<1>4. g \in Frame /\ HeldOnce(g) /\ Held(g) = {} /\ g.elem = 1 /\ g.pc = "test"
  BY <1>2, <1>3, NewFrameHolds
<1>5. stack' = Append(stack, g)
  BY <1>1
<1> HIDE DEF g
<1>6. stack \in Seq(Frame)
  BY <1>2 DEF TypeOK
<1>7. /\ stack' \in Seq(Frame) /\ Depth' = Depth + 1 /\ stack' # <<>>
      /\ \A d \in DOMAIN stack' : d \in DOMAIN stack \/ d = Depth + 1
      /\ \A d \in DOMAIN stack : stack'[d] = stack[d]
      /\ stack'[Depth + 1] = g /\ Depth \in Nat /\ Depth + 1 \notin DOMAIN stack
  BY <1>4, <1>5, <1>6, AppendProperties DEF Depth
<1>8. TypeOK'
  <2>1. statements' \in 0 .. MaxStatements /\ Depth' <= MaxDepth
    BY <1>2, <1>7, Bounds DEF TypeOK
  <2>2. QED
    BY <1>2, <1>7, <2>1 DEF TypeOK
<1>9. PlaceInv'
  BY <1>4, <1>7 DEF CycleInv, PlaceInv
<1>10. OwnInv'
  <2>1. OwnInv
    BY DEF CycleInv
  <2>2. \A d \in DOMAIN stack' : HeldOnce(stack'[d]) /\ Held(stack'[d]) \subseteq DOMAIN heap'
    BY <1>2, <1>4, <1>7, <2>1 DEF OwnInv
  <2>3. \A d, e \in DOMAIN stack' : d # e => Held(stack'[d]) \cap Held(stack'[e]) = {}
    BY <1>4, <1>7, <2>1 DEF OwnInv
  <2>4. QED
    BY <2>2, <2>3 DEF OwnInv, HeldOnce, Held
<1>11. CollectorExact' /\ NothingLeaks'
  BY <1>2, <1>7 DEF CycleInv, CollectorExact, NothingLeaks
<1>12. QED
  BY <1>8, <1>9, <1>10, <1>11 DEF CycleInv

\* When a called procedure returns, its activation goes with its contexts.
LEMMA CleanKeeps ==
  ASSUME CycleInv, Clean
  PROVE  CycleInv'
<1> DEFINE cs == {x.ctx : x \in ToSet(top.intentions)}
<1>1. /\ stack # <<>> /\ Delete(cs) /\ UNCHANGED engineVars /\ UNCHANGED planCtx
      /\ IF Depth = 1
         THEN SetTop([top EXCEPT !.pc = "empty", !.intentions = <<>>])
         ELSE stack' = Front(stack)
  BY DEF Clean, At
<1>2. /\ TypeOK /\ top \in Frame /\ HeldOnce(top) /\ Held(top) \subseteq DOMAIN heap
      /\ top.elem > 0
  BY <1>1, AtTop
<1>3. cs = ToSet(IntentionContexts(top)) /\ cs \subseteq Held(top)
  BY DEF ToSet, IntentionContexts, Held
<1> HIDE DEF cs
<1>4. CASE Depth = 1
  <2> DEFINE g == [top EXCEPT !.pc = "empty", !.intentions = <<>>]
  <2>1. SetTop(g)
    BY <1>1, <1>4
  <2>2. <<>> \in Seq([plan : DOMAIN Plans, ctx : ContextIds])
    OBVIOUS
  <2>3. /\ g \in Frame /\ g.pc = "empty" /\ g.elem = top.elem /\ g.c = top.c
        /\ g.array = top.array /\ g.next = top.next /\ g.intentions = <<>>
    BY <1>2, <2>2 DEF Frame
  <2> HIDE DEF g
  <2>4. HeldOnce(g) /\ Held(g) \subseteq Held(top) \ cs
    <3>1. IntentionContexts(g) = <<>>
      BY <2>3 DEF IntentionContexts
    <3>2. HeldOnce(g)
      BY <1>2, <2>3, <3>1, EmptyHolds DEF HeldOnce
    <3>3. Held(g) = ({top.c} \ {NoContext}) \cup ToSet(top.array) \cup ToSet(top.next)
      BY <2>3, <3>1, EmptyHolds DEF Held
    <3>4. QED
      BY <1>2, <1>3, <3>2, <3>3 DEF HeldOnce, Held
  <2>5. QED
    BY <1>1, <1>2, <1>3, <2>1, <2>3, <2>4, TopDeletes
<1>5. CASE Depth # 1
  <2>1. /\ Depth \in DOMAIN stack /\ Depth \in Nat \ {0} /\ DOMAIN stack = 1 .. Depth
        /\ top = stack[Depth] /\ stack \in Seq(Frame)
    BY <1>1, <1>2, TopFrame DEF TypeOK
  <2>2. /\ stack' \in Seq(Frame) /\ Depth' = Depth - 1 /\ stack' # <<>>
        /\ DOMAIN stack' = 1 .. Depth - 1
        /\ \A d \in DOMAIN stack' : stack'[d] = stack[d]
    <3>1. /\ stack' = Front(stack) /\ Depth > 1
      BY <1>1, <1>5, <2>1
    <3>2. /\ Front(stack) \in Seq(Frame) /\ Len(Front(stack)) = Depth - 1
          /\ \A d \in 1 .. Depth - 1 : Front(stack)[d] = stack[d]
      BY <1>1, <2>1, FrontHolds DEF Depth
    <3>3. QED
      BY <2>1, <3>1, <3>2 DEF Depth
  <2>3. \A d \in DOMAIN stack' : d \in DOMAIN stack /\ d # Depth
    BY <2>1, <2>2
  <2>4. /\ DOMAIN heap' = DOMAIN heap \ cs
        /\ DOMAIN heap' \subseteq ContextIds
        /\ \A c \in DOMAIN heap' : heap'[c] \in Bindings
        /\ objects' \subseteq ContextIds
        /\ CollectorExact'
    BY <1>1, <1>2, Deleted DEF CycleInv
  <2>5. OwnInv
    BY DEF CycleInv
  <2>6. \A d \in DOMAIN stack' : Held(stack'[d]) \cap cs = {}
    BY <1>3, <2>1, <2>2, <2>3, <2>5 DEF OwnInv
  <2>7. OwnInv'
    <3>1. \A d \in DOMAIN stack' : HeldOnce(stack'[d]) /\ Held(stack'[d]) \subseteq DOMAIN heap'
      BY <2>2, <2>3, <2>4, <2>5, <2>6 DEF OwnInv
    <3>2. \A d, e \in DOMAIN stack' : d # e => Held(stack'[d]) \cap Held(stack'[e]) = {}
      BY <2>2, <2>3, <2>5 DEF OwnInv
    <3>3. QED
      BY <3>1, <3>2 DEF OwnInv, HeldOnce, Held
  <2>8. PlaceInv'
    BY <2>2, <2>3 DEF CycleInv, PlaceInv
  <2>9. TypeOK'
    <3>1. Depth' <= MaxDepth
      BY <1>2, <2>1, <2>2, Bounds DEF TypeOK
    <3>2. QED
      BY <1>1, <1>2, <2>2, <2>4, <3>1 DEF TypeOK, engineVars
  <2>10. QED
    BY <2>2, <2>4, <2>7, <2>8, <2>9 DEF CycleInv, NothingLeaks
<1>6. QED
  BY <1>4, <1>5

\* The collector frees what is left.
LEMMA EmptyCollectorKeeps ==
  ASSUME CycleInv, EmptyCollector
  PROVE  CycleInv'
<1>1. /\ TypeOK /\ Delete(objects) /\ stack' = <<>>
      /\ UNCHANGED <<kb, event_queue, pending, planCtx, posts, statements>>
      /\ objects = DOMAIN heap
  BY DEF CycleInv, CollectorExact, EmptyCollector
<1>2. /\ DOMAIN heap' = {} /\ objects' = {}
  BY <1>1, Deleted DEF Delete
<1>3. stack' \in Seq(Frame) /\ DOMAIN stack' = {} /\ Depth' = 0
  BY <1>1 DEF Depth
<1>4. TypeOK'
  BY <1>1, <1>2, <1>3, Bounds DEF TypeOK
<1>5. PlaceInv' /\ OwnInv'
  BY <1>3 DEF PlaceInv, OwnInv, HeldOnce, Held
<1>6. QED
  BY <1>2, <1>4, <1>5 DEF CycleInv, CollectorExact, NothingLeaks

(***************************************************************************)
(* Steps of other threads, and of bodies.                                  *)
(***************************************************************************)
LEMMA ChangeTypes ==
  ASSUME TypeOK, NEW t \in Threads, Change(t)
  PROVE  kb' \in Seq(Beliefs) /\ pending' \in [Threads -> Event \cup {NoEvent}]
<1>1. \/ \E f \in Beliefs : AssertBelief(t, f) \/ RetractBelief(t, f)
      \/ \E f \in Reactors : PostReactor(t, f)
  BY DEF Change
<1>2. kb \in Seq(Beliefs) /\ pending \in [Threads -> Event \cup {NoEvent}]
  BY DEF TypeOK
<1>3. ASSUME NEW f \in Beliefs, AssertBelief(t, f)
      PROVE  kb' \in Seq(Beliefs) /\ pending' \in [Threads -> Event \cup {NoEvent}]
  <2>1. [type |-> "add", bel |-> f] \in Event
    BY DEF Event
  <2>2. QED
    BY <1>2, <1>3, <2>1 DEF AssertBelief, Owe
<1>4. ASSUME NEW f \in Beliefs, RetractBelief(t, f)
      PROVE  kb' \in Seq(Beliefs) /\ pending' \in [Threads -> Event \cup {NoEvent}]
  <2>1. [type |-> "del", bel |-> f] \in Event
    BY DEF Event
  <2>2. PICK i \in DOMAIN kb : kb' = RemoveAt(kb, i)
    BY <1>4 DEF RetractBelief
  <2>3. kb' \in Seq(Beliefs)
    BY <1>2, <2>2, RemoveHolds
  <2>4. QED
    BY <1>2, <1>4, <2>1, <2>3 DEF RetractBelief, Owe
<1>5. ASSUME NEW f \in Reactors, PostReactor(t, f)
      PROVE  kb' \in Seq(Beliefs) /\ pending' \in [Threads -> Event \cup {NoEvent}]
  <2>1. [type |-> "add", bel |-> f] \in Event
    BY DEF Event
  <2>2. QED
    BY <1>2, <1>5, <2>1 DEF PostReactor, Owe
<1>6. QED
  BY <1>1, <1>3, <1>4, <1>5

\* What an activation notices of the knowledge base is none of its pointers.
LEMMA NoticeHolds ==
  ASSUME NEW f \in Frame, NEW beliefs \in SUBSET Beliefs
  PROVE  LET g == Notice(f, beliefs) IN
         /\ g \in Frame /\ HeldOnce(g) = HeldOnce(f) /\ Held(g) = Held(f)
         /\ g.elem = f.elem /\ g.pc = f.pc /\ g.c = f.c /\ g.plan = f.plan
<1> DEFINE g == Notice(f, beliefs)
<1>1. f.seen \cup beliefs \in SUBSET Beliefs /\ f.steady \cap beliefs \in SUBSET Beliefs
  BY DEF Frame
<1>2. g = f \/ g = [f EXCEPT !.seen = f.seen \cup beliefs, !.steady = f.steady \cap beliefs]
  BY DEF Notice
<1> HIDE DEF g
<1>3. /\ g \in Frame /\ g.elem = f.elem /\ g.pc = f.pc /\ g.c = f.c /\ g.plan = f.plan
      /\ g.array = f.array /\ g.next = f.next /\ g.intentions = f.intentions
  BY <1>1, <1>2 DEF Frame
<1>4. IntentionContexts(g) = IntentionContexts(f)
  BY <1>3 DEF IntentionContexts
<1>5. QED
  BY <1>3, <1>4 DEF g, HeldOnce, Held

LEMMA ClientCallKeeps ==
  ASSUME CycleInv, NEW t \in Clients, ClientCall(t)
  PROVE  CycleInv'
<1>1. /\ TypeOK /\ posts < MaxPosts /\ posts' = posts + 1
      /\ stack' = [d \in DOMAIN stack |-> Notice(stack[d], ToSet(kb'))]
      /\ UNCHANGED <<event_queue, heap, objects, planCtx, statements>>
  BY DEF CycleInv, ClientCall
<1>2. t \in Threads
  BY DEF Threads
<1>3. kb' \in Seq(Beliefs) /\ pending' \in [Threads -> Event \cup {NoEvent}]
  <2>1. CASE Change(t)
    BY <1>1, <1>2, <2>1, ChangeTypes
  <2>2. ASSUME NEW f \in Procedures, Owe(t, "call", f), UNCHANGED kb
        PROVE  kb' \in Seq(Beliefs) /\ pending' \in [Threads -> Event \cup {NoEvent}]
    <3>1. [type |-> "call", bel |-> f] \in Event
      BY DEF Event
    <3>2. QED
      BY <1>1, <1>2, <2>2, <3>1 DEF Owe, TypeOK
  <2>3. QED
    BY <2>1, <2>2 DEF ClientCall
<1>4. ToSet(kb') \in SUBSET Beliefs
  BY <1>3 DEF ToSet
<1>5. stack \in Seq(Frame) /\ DOMAIN stack = 1 .. Len(stack) /\ Len(stack) \in Nat
  BY <1>1 DEF TypeOK
<1>6. \A d \in DOMAIN stack :
        LET g == Notice(stack[d], ToSet(kb')) IN
        /\ g \in Frame /\ HeldOnce(g) = HeldOnce(stack[d]) /\ Held(g) = Held(stack[d])
        /\ g.elem = stack[d].elem /\ g.pc = stack[d].pc /\ g.c = stack[d].c
        /\ g.plan = stack[d].plan
  BY <1>4, <1>5, NoticeHolds
<1>7. /\ DOMAIN stack' = DOMAIN stack
      /\ \A d \in DOMAIN stack :
           /\ stack'[d] \in Frame /\ HeldOnce(stack'[d]) = HeldOnce(stack[d])
           /\ Held(stack'[d]) = Held(stack[d])
           /\ stack'[d].elem = stack[d].elem /\ stack'[d].pc = stack[d].pc
           /\ stack'[d].c = stack[d].c /\ stack'[d].plan = stack[d].plan
  BY <1>1, <1>6
<1>8. stack' \in Seq(Frame) /\ Len(stack') = Len(stack) /\ (stack' = <<>> => stack = <<>>)
  <2>1. \A d \in 1 .. Len(stack) : Notice(stack[d], ToSet(kb')) \in Frame
    BY <1>5, <1>6
  <2>2. stack' = [d \in 1 .. Len(stack) |-> Notice(stack[d], ToSet(kb'))]
    BY <1>1, <1>5
  <2>3. QED
    BY <1>5, <2>1, <2>2
<1>9. TypeOK'
  <2>1. posts' \in 0 .. MaxPosts
    BY <1>1, Bounds DEF TypeOK
  <2>2. QED
    BY <1>1, <1>3, <1>8, <2>1 DEF TypeOK, Depth
<1>10. PlaceInv'
  BY <1>7 DEF CycleInv, PlaceInv
<1>11. OwnInv'
  <2>1. OwnInv
    BY DEF CycleInv
  <2>2. \A d \in DOMAIN stack' : HeldOnce(stack'[d]) /\ Held(stack'[d]) \subseteq DOMAIN heap'
    BY <1>1, <1>7, <2>1 DEF OwnInv
  <2>3. \A d, e \in DOMAIN stack' : d # e => Held(stack'[d]) \cap Held(stack'[e]) = {}
    BY <1>7, <2>1 DEF OwnInv
  <2>4. QED
    BY <2>2, <2>3 DEF OwnInv, HeldOnce, Held
<1>12. QED
  BY <1>1, <1>8, <1>9, <1>10, <1>11 DEF CycleInv, CollectorExact, NothingLeaks

LEMMA FramesKept ==
  ASSUME CycleInv, UNCHANGED <<heap, objects, stack>>
  PROVE  PlaceInv' /\ OwnInv' /\ CollectorExact' /\ NothingLeaks'
<1>1. PlaceInv'
  BY DEF CycleInv, PlaceInv
<1>2. OwnInv'
  BY DEF CycleInv, OwnInv, HeldOnce, Held
<1>3. CollectorExact' /\ NothingLeaks'
  BY DEF CycleInv, CollectorExact, NothingLeaks
<1>4. QED
  BY <1>1, <1>2, <1>3

LEMMA PushKeeps ==
  ASSUME CycleInv, NEW t \in Threads, Push(t)
  PROVE  CycleInv'
<1>1. /\ TypeOK /\ pending[t] # NoEvent
      /\ event_queue' = Append(event_queue, pending[t])
      /\ pending' = [pending EXCEPT ![t] = NoEvent]
      /\ UNCHANGED <<kb, heap, objects, planCtx, stack, posts, statements>>
  BY DEF CycleInv, Push
<1>2. pending[t] \in Event
  BY <1>1 DEF TypeOK
<1>3. TypeOK'
  BY <1>1, <1>2 DEF TypeOK, Depth
<1>4. PlaceInv' /\ OwnInv' /\ CollectorExact' /\ NothingLeaks'
  BY <1>1, FramesKept
<1>5. QED
  BY <1>3, <1>4 DEF CycleInv

LEMMA BodyChangeKeeps ==
  ASSUME CycleInv, BodyChange
  PROVE  CycleInv'
<1>1. /\ TypeOK /\ Change(EngineThread)
      /\ statements < MaxStatements /\ statements' = statements + 1
      /\ UNCHANGED <<event_queue, heap, objects, planCtx, stack, posts>>
  BY DEF CycleInv, BodyChange, Statement
<1>2. kb' \in Seq(Beliefs) /\ pending' \in [Threads -> Event \cup {NoEvent}]
  BY <1>1, ChangeTypes DEF Threads
<1>3. statements' \in 0 .. MaxStatements
  BY <1>1, Bounds DEF TypeOK
<1>4. TypeOK'
  BY <1>1, <1>2, <1>3 DEF TypeOK, Depth
<1>5. PlaceInv' /\ OwnInv' /\ CollectorExact' /\ NothingLeaks'
  BY <1>1, FramesKept
<1>6. QED
  BY <1>4, <1>5 DEF CycleInv

LEMMA StutterKeeps ==
  ASSUME CycleInv, UNCHANGED vars
  PROVE  CycleInv'
<1>1. TypeOK'
  BY DEF CycleInv, TypeOK, Depth, vars
<1>2. PlaceInv' /\ OwnInv' /\ CollectorExact' /\ NothingLeaks'
  BY FramesKept DEF vars
<1>3. QED
  BY <1>1, <1>2 DEF CycleInv

LEMMA CycleInit ==
  ASSUME Init
  PROVE  CycleInv
<1>1. /\ kb = <<>> /\ event_queue = <<>> /\ objects = {} /\ stack = <<>>
      /\ posts = 0 /\ statements = 0 /\ DOMAIN heap = {}
      /\ pending = [t \in Threads |-> NoEvent]
      /\ planCtx = [p \in DOMAIN Plans |-> NoContext]
  BY DEF Init
<1>2. /\ kb \in Seq(Beliefs) /\ event_queue \in Seq(Event) /\ stack \in Seq(Frame)
      /\ DOMAIN stack = {} /\ Depth = 0
  BY <1>1 DEF Depth
<1>3. TypeOK
  BY <1>1, <1>2, Bounds DEF TypeOK
<1>4. QED
  BY <1>1, <1>2, <1>3 DEF CycleInv, PlaceInv, OwnInv, CollectorExact, NothingLeaks

LEMMA CycleNext ==
  ASSUME CycleInv, [Next]_vars
  PROVE  CycleInv'
<1>1. CASE PopEvent
  BY <1>1, PopEventKeeps
<1>2. CASE Select
  <2>1. \/ NotTriggered \/ Unconditional \/ Conditional
        \/ FirstPredicate \/ FirstBelief
        \/ NextPredicate \/ NextBelief \/ NextElement
        \/ ConditionFalse \/ ConditionTrue
        \/ AllTested
    BY <1>2 DEF Select
  <2>2. QED
    BY <2>1, NotTriggeredKeeps, UnconditionalKeeps, ConditionalKeeps, FirstPredicateKeeps,
       FirstBeliefKeeps, NextPredicateKeeps, NextBeliefKeeps, NextElementKeeps,
       ConditionFalseKeeps, ConditionTrueKeeps, AllTestedKeeps
<1>3. CASE Execute
  <2>1. StartBody \/ BodyCut \/ BodyReturn \/ AllCut \/ Clean \/ EmptyCollector
    BY <1>3 DEF Execute
  <2>2. QED
    BY <2>1, StartBodyKeeps, BodyCutKeeps, CleaningKeeps, CleanKeeps, EmptyCollectorKeeps
<1>4. CASE \E t \in Threads : Push(t)
  BY <1>4, PushKeeps
<1>5. CASE BodyChange
  BY <1>5, BodyChangeKeeps
<1>6. CASE BodyCall
  BY <1>6, BodyCallKeeps
<1>7. CASE \E t \in Clients : ClientCall(t)
  BY <1>7, ClientCallKeeps
<1>8. CASE UNCHANGED vars
  BY <1>8, StutterKeeps
<1>9. QED
  BY <1>1, <1>2, <1>3, <1>4, <1>5, <1>6, <1>7, <1>8
     DEF Next, EngineStep, ClientStep, Threads

-------------------------------------------------------------------------------
\* The pointers of the activations, the live contexts and the collector agree at every
\* step, for any plans, any conditions, any depth of calls and any number of contexts
\* (engine.cpp:192-295, condition.cpp:37-120, context.cpp:14-31).
THEOREM CycleInvariant == Spec => []CycleInv
<1>1. Init => CycleInv
  BY CycleInit
<1>2. CycleInv /\ [Next]_vars => CycleInv'
  BY CycleNext
<1>3. QED
  BY <1>1, <1>2, PTL DEF Spec

\* The variables keep their types.
THEOREM TypeCorrect == Spec => []TypeOK
<1>1. CycleInv => TypeOK
  BY DEF CycleInv
<1>2. QED
  BY <1>1, CycleInvariant, PTL

\* No context is used after its deletion, and none is deleted twice: each pointer that
\* an activation will read or delete is live, and no other place has it.
THEOREM ContextsAreOwned == Spec => []ContextsOwned
<1>1. CycleInv => ContextsOwned
  BY OwnersOwn DEF CycleInv
<1>2. QED
  BY <1>1, CycleInvariant, PTL

\* The collector knows the live contexts and no others.
THEOREM CollectorIsExact == Spec => []CollectorExact
<1>1. CycleInv => CollectorExact
  BY DEF CycleInv
<1>2. QED
  BY <1>1, CycleInvariant, PTL

\* When an event has been dealt with, no context of it is left.
THEOREM NoContextLeaks == Spec => []NothingLeaks
<1>1. CycleInv => NothingLeaks
  BY DEF CycleInv
<1>2. QED
  BY <1>1, CycleInvariant, PTL

(***************************************************************************)
(* What conditions mean.                                                   *)
(***************************************************************************)
\* A predicate has one value under two bindings that agree on its variables.
LEMMA HoldsAlike ==
  ASSUME NEW e \in Template, Len(e.terms) >= 2,
         NEW b \in Bindings, NEW s \in Bindings, VarsOf(e) \subseteq DOMAIN b,
         Agrees(b, s), DOMAIN b \subseteq DOMAIN s
  PROVE  Holds(e, b) = Holds(e, s)
<1> DEFINE H(n, c, x, y) ==
             CASE n = "eq"  -> c /\ x = y
               [] n = "neq" -> c => x # y
               [] n = "gt"  -> c /\ x > y
               [] n = "geq" -> c /\ x >= y
               [] n = "lt"  -> c /\ x < y
               [] n = "leq" -> c /\ x <= y
               [] n = "multiple" -> x % y = 0
<1>1. ASSUME NEW r \in Bindings
      PROVE  Holds(e, r) = H(e.name, Comparable(e, r), Val(e.terms[1], r), Val(e.terms[2], r))
  BY DEF Holds
<1>2. 1 \in DOMAIN e.terms /\ 2 \in DOMAIN e.terms /\ e.terms \in Seq(Vars \cup Values)
  BY DEF Template
<1>3. ASSUME NEW i \in {1, 2}
      PROVE  /\ IsBound(e.terms[i], b) /\ IsBound(e.terms[i], s)
             /\ Val(e.terms[i], b) = Val(e.terms[i], s)
  <2>1. e.terms[i] \in Vars => e.terms[i] \in VarsOf(e)
    BY <1>2 DEF VarsOf
  <2>2. QED
    BY <2>1 DEF IsBound, Val, Agrees
<1>4. Comparable(e, b) = TRUE /\ Comparable(e, s) = TRUE
  BY <1>3 DEF Comparable
<1> HIDE DEF H
<1>5. QED
  BY <1>1, <1>3, <1>4

\* A belief pattern is the same ground belief under two such bindings.
LEMMA GroundAlike ==
  ASSUME NEW e \in Template, NEW b, NEW s, VarsOf(e) \subseteq DOMAIN b, Agrees(b, s)
  PROVE  Ground(e, b) = Ground(e, s)
<1>1. \A i \in DOMAIN e.terms : Val(e.terms[i], b) = Val(e.terms[i], s)
  BY DEF VarsOf, Val, Agrees
<1>2. [i \in DOMAIN e.terms |-> Val(e.terms[i], b)] = [i \in DOMAIN e.terms |-> Val(e.terms[i], s)]
  BY <1>1
<1>3. QED
  BY <1>2 DEF Ground

LEMMA GroundFields ==
  ASSUME NEW e \in Template, NEW b
  PROVE  /\ Ground(e, b) = [name |-> e.name, terms |-> [i \in DOMAIN e.terms |-> Val(e.terms[i], b)]]
         /\ Ground(e, b).name = e.name
         /\ Ground(e, b).terms = [i \in DOMAIN e.terms |-> Val(e.terms[i], b)]
<1> DEFINE t == [i \in DOMAIN e.terms |-> Val(e.terms[i], b)]
<1>1. Ground(e, b) = [e EXCEPT !.terms = t]
  BY DEF Ground
<1> HIDE DEF t
<1>2. Ground(e, b) = [name |-> e.name, terms |-> t]
  BY <1>1 DEF Template
<1>3. QED
  BY <1>2 DEF t

\* What extending a binding keeps, and what it adds.
LEMMA ExtendAdds ==
  ASSUME NEW e \in Template, NEW f \in Fact, NEW b, Matches(e, f, b)
  PROVE  LET x == Extend(e, f, b) IN
           /\ DOMAIN x = DOMAIN b \cup VarsOf(e) /\ Agrees(b, x)
           /\ Ground(e, x) = f
<1> DEFINE x == Extend(e, f, b)
<1>1. DOMAIN x = DOMAIN b \cup VarsOf(e) /\ Agrees(b, x)
  BY DEF Extend, Agrees
<1>2. e.terms \in Seq(Vars \cup Values) /\ f.terms \in Seq(Values)
  BY DEF Template, Fact
<1>3. /\ e.name = f.name /\ DOMAIN e.terms = DOMAIN f.terms
      /\ \A i \in DOMAIN f.terms : Val(e.terms[i], x) = f.terms[i]
  BY <1>2 DEF Matches
<1> HIDE DEF x
<1>4. /\ Ground(e, x) = [name |-> e.name, terms |-> [i \in DOMAIN e.terms |-> Val(e.terms[i], x)]]
  BY GroundFields
<1>5. f.terms = [i \in DOMAIN f.terms |-> f.terms[i]]
  BY <1>2
<1>6. [i \in DOMAIN e.terms |-> Val(e.terms[i], x)] = f.terms
  BY <1>3, <1>5
<1>7. f = [name |-> f.name, terms |-> f.terms]
  BY DEF Fact
<1>8. QED
  BY <1>1, <1>3, <1>4, <1>6, <1>7 DEF x

\* The belief that makes the pattern true under s matches it under a part b of s, and
\* the binding is again a part of s.
LEMMA ExtendReaches ==
  ASSUME NEW e \in Template, NEW s \in Bindings, VarsOf(e) \subseteq DOMAIN s,
         Ground(e, s) \in Fact,
         NEW b, Agrees(b, s)
  PROVE  Matches(e, Ground(e, s), b) /\ Agrees(Extend(e, Ground(e, s), b), s)
<1> DEFINE f == Ground(e, s)
           x == Extend(e, f, b)
<1>1. f.name = e.name /\ f.terms = [i \in DOMAIN e.terms |-> Val(e.terms[i], s)]
  BY GroundFields
<1>2. e.terms \in Seq(Vars \cup Values) /\ f.terms \in Seq(Values)
  BY DEF Template, Fact
<1>3. /\ DOMAIN f.terms = DOMAIN e.terms /\ Len(f.terms) = Len(e.terms)
      /\ \A i \in DOMAIN f.terms : f.terms[i] = Val(e.terms[i], s)
  <2>1. DOMAIN f.terms = DOMAIN e.terms
    BY <1>1
  <2>2. Len(f.terms) = Len(e.terms)
    BY <1>2, <2>1
  <2>3. \A i \in DOMAIN e.terms : f.terms[i] = Val(e.terms[i], s)
    BY <1>1
  <2>4. QED
    BY <2>1, <2>2, <2>3
<1> HIDE DEF f
<1>4. ASSUME NEW v \in DOMAIN x PROVE x[v] = s[v]
  <2> DEFINE i == CHOOSE i \in DOMAIN f.terms : /\ e.terms[i] = v
                                                /\ \A j \in 1 .. i - 1 : e.terms[j] # v
  <2>1. v \in DOMAIN b \cup VarsOf(e) /\ x[v] = IF v \in DOMAIN b THEN b[v] ELSE f.terms[i]
    BY <1>4 DEF Extend
  <2>2. CASE v \in DOMAIN b
    BY <2>1, <2>2 DEF Agrees
  <2>3. CASE v \notin DOMAIN b
    <3>1. v \in VarsOf(e) /\ v \in Vars
      BY <2>1, <2>3 DEF VarsOf
    <3>2. \E j \in DOMAIN f.terms : /\ e.terms[j] = v
                                    /\ \A k \in 1 .. j - 1 : e.terms[k] # v
      BY <1>3, <3>1, FirstPlace
    <3>3. i \in DOMAIN f.terms /\ e.terms[i] = v
      BY <3>2
    <3> HIDE DEF i
    <3>4. QED
      BY <1>3, <2>1, <2>3, <3>1, <3>3 DEF Val
  <2>4. QED
    BY <2>2, <2>3
<1>5. DOMAIN x = DOMAIN b \cup VarsOf(e)
  BY DEF Extend
<1> HIDE DEF x
<1>6. ASSUME NEW i \in DOMAIN f.terms PROVE Val(e.terms[i], x) = f.terms[i]
  <2>1. e.terms[i] \in Vars => e.terms[i] \in DOMAIN x
    BY <1>3, <1>5 DEF VarsOf
  <2>2. QED
    BY <1>3, <1>4, <2>1 DEF Val
<1>7. Matches(e, f, b)
  BY <1>1, <1>3, <1>6 DEF Matches, x, f
<1>8. QED
  BY <1>4, <1>7 DEF Agrees, x, f

\* Beliefs and predicates stay true when a binding grows.
LEMMA SatisfiedAlike ==
  ASSUME NEW beliefs, NEW e \in Template,
         NEW b \in Bindings, NEW s \in Bindings, Agrees(b, s), DOMAIN b \subseteq DOMAIN s,
         IsPredicate(e) => VarsOf(e) \subseteq DOMAIN b /\ Len(e.terms) >= 2,
         Satisfied(beliefs, e, b)
  PROVE  Satisfied(beliefs, e, s)
<1>1. CASE IsPredicate(e)
  <2>1. Holds(e, b) = Holds(e, s)
    BY <1>1, HoldsAlike
  <2>2. QED
    BY <1>1, <2>1 DEF Satisfied
<1>2. CASE ~ IsPredicate(e)
  <2>1. VarsOf(e) \subseteq DOMAIN b /\ Ground(e, b) \in beliefs
    BY <1>2 DEF Satisfied
  <2>2. Ground(e, b) = Ground(e, s)
    BY <2>1, GroundAlike
  <2>3. QED
    BY <1>2, <2>1, <2>2 DEF Satisfied
<1>3. QED
  BY <1>1, <1>2

\* More beliefs, more solutions.
LEMMA SolutionsGrow ==
  ASSUME NEW beliefs, NEW more, beliefs \subseteq more, NEW cond, NEW start
  PROVE  Solutions(beliefs, cond, start) \subseteq Solutions(more, cond, start)
BY DEF Solutions, Satisfied

LEMMA CandidatesGrow ==
  ASSUME NEW beliefs, NEW more, beliefs \subseteq more, NEW p, NEW evt
  PROVE  Candidates(p, evt, beliefs) \subseteq Candidates(p, evt, more)
BY SolutionsGrow DEF Candidates

\* The variables that the first n elements of a condition bind.
LEMMA PrefixVars ==
  ASSUME NEW cond \in Seq(Template), NEW n \in 1 .. Len(cond)
  PROVE  /\ CondVars(SubSeq(cond, 1, n)) =
              CondVars(SubSeq(cond, 1, n - 1)) \cup
                (IF IsPredicate(cond[n]) THEN {} ELSE VarsOf(cond[n]))
         /\ CondVars(SubSeq(cond, 1, n)) \subseteq Vars
         /\ DOMAIN SubSeq(cond, 1, n) = 1 .. n
         /\ \A i \in 1 .. n : SubSeq(cond, 1, n)[i] = cond[i]
         /\ DOMAIN SubSeq(cond, 1, n - 1) = 1 .. n - 1
         /\ \A i \in 1 .. n - 1 : SubSeq(cond, 1, n - 1)[i] = cond[i]
<1> DEFINE u == SubSeq(cond, 1, n)
           w == SubSeq(cond, 1, n - 1)
<1>1. /\ DOMAIN u = 1 .. n /\ \A i \in 1 .. n : u[i] = cond[i]
      /\ DOMAIN w = 1 .. n - 1 /\ \A i \in 1 .. n - 1 : w[i] = cond[i]
  OBVIOUS
<1> HIDE DEF u, w
<1>2. CondVars(u) \subseteq Vars
  BY DEF CondVars, BeliefsOf, VarsOf
<1>3. ASSUME NEW v \in CondVars(u)
      PROVE  v \in CondVars(w) \cup (IF IsPredicate(cond[n]) THEN {} ELSE VarsOf(cond[n]))
  <2>1. PICK i \in 1 .. n : ~ IsPredicate(cond[i]) /\ v \in VarsOf(cond[i])
    BY <1>1, <1>3 DEF CondVars, BeliefsOf
  <2>2. CASE i = n
    BY <2>1, <2>2
  <2>3. CASE i # n
    <3>1. i \in DOMAIN w /\ w[i] = cond[i]
      BY <1>1, <2>3
    <3>2. QED
      BY <2>1, <3>1 DEF CondVars, BeliefsOf
  <2>4. QED
    BY <2>2, <2>3
<1>4. ASSUME NEW v \in CondVars(w) \cup (IF IsPredicate(cond[n]) THEN {} ELSE VarsOf(cond[n]))
      PROVE  v \in CondVars(u)
  <2>1. \E i \in 1 .. n : ~ IsPredicate(cond[i]) /\ v \in VarsOf(cond[i])
    <3>1. CASE v \in CondVars(w)
      <4>1. PICK i \in 1 .. n - 1 : ~ IsPredicate(cond[i]) /\ v \in VarsOf(cond[i])
        BY <1>1, <3>1 DEF CondVars, BeliefsOf
      <4>2. i \in 1 .. n
        OBVIOUS
      <4>3. QED
        BY <4>1, <4>2
    <3>2. CASE ~ IsPredicate(cond[n]) /\ v \in VarsOf(cond[n])
      BY <3>2
    <3>3. QED
      BY <1>4, <3>1, <3>2
  <2>2. QED
    BY <1>1, <2>1 DEF CondVars, BeliefsOf
<1>5. CondVars(u) = CondVars(w) \cup (IF IsPredicate(cond[n]) THEN {} ELSE VarsOf(cond[n]))
  BY <1>3, <1>4
<1>6. QED
  BY <1>1, <1>2, <1>5 DEF u, w

LEMMA PrefixVarsGrow ==
  ASSUME NEW cond \in Seq(Template), NEW n \in 0 .. Len(cond), NEW m \in 0 .. n
  PROVE  CondVars(SubSeq(cond, 1, m)) \subseteq CondVars(SubSeq(cond, 1, n))
<1> DEFINE u == SubSeq(cond, 1, n)
           w == SubSeq(cond, 1, m)
<1>1. /\ DOMAIN u = 1 .. n /\ \A i \in 1 .. n : u[i] = cond[i]
      /\ DOMAIN w = 1 .. m /\ \A i \in 1 .. m : w[i] = cond[i]
  OBVIOUS
<1> HIDE DEF u, w
<1>2. ASSUME NEW i \in DOMAIN w PROVE i \in DOMAIN u /\ w[i] = u[i]
  BY <1>1
<1>3. CondVars(w) \subseteq CondVars(u)
  BY <1>2 DEF CondVars, BeliefsOf
<1>4. QED
  BY <1>3 DEF u, w

LEMMA SolutionBinds ==
  ASSUME NEW cond \in Seq(Template), NEW start \in Bindings, NEW beliefs,
         NEW b \in Solutions(beliefs, cond, start)
  PROVE  /\ b \in Bindings /\ DOMAIN b = DOMAIN start \cup CondVars(cond)
         /\ Agrees(start, b)
         /\ \A i \in DOMAIN cond : Satisfied(beliefs, cond[i], b)
<1>1. /\ b \in [DOMAIN start \cup CondVars(cond) -> Values] /\ Agrees(start, b)
      /\ \A i \in DOMAIN cond : Satisfied(beliefs, cond[i], b)
  BY DEF Solutions, Agrees
<1>2. DOMAIN start \subseteq Vars /\ CondVars(cond) \subseteq Vars
  BY DEF Bindings, CondVars, BeliefsOf, VarsOf
<1>3. QED
  BY <1>1, <1>2 DEF Bindings

\* A condition whose predicates have two arguments, bound by start or by earlier beliefs.
Evaluable(cond, start) ==
  /\ cond \in Seq(Template) /\ start \in Bindings
  /\ WellOrdered(cond, DOMAIN start)
  /\ \A i \in DOMAIN cond : IsPredicate(cond[i]) => Len(cond[i].terms) >= 2

\* The variables of a predicate are bound in every solution of what comes before it.
LEMMA PredicateBound ==
  ASSUME NEW cond, NEW start, Evaluable(cond, start), NEW beliefs,
         NEW n \in 0 .. Len(cond), NEW b \in Solutions(beliefs, SubSeq(cond, 1, n), start),
         NEW i \in DOMAIN cond, i <= n + 1, IsPredicate(cond[i])
  PROVE  VarsOf(cond[i]) \subseteq DOMAIN b /\ Len(cond[i].terms) >= 2
<1>1. cond \in Seq(Template) /\ start \in Bindings /\ SubSeq(cond, 1, n) \in Seq(Template)
  BY DEF Evaluable
<1>2. VarsOf(cond[i]) \subseteq DOMAIN start \cup CondVars(SubSeq(cond, 1, i - 1))
  BY DEF Evaluable, WellOrdered
<1>3. i - 1 \in 0 .. n
  BY <1>1
<1>4. CondVars(SubSeq(cond, 1, i - 1)) \subseteq CondVars(SubSeq(cond, 1, n))
  BY <1>1, <1>3, PrefixVarsGrow
<1>5. DOMAIN b = DOMAIN start \cup CondVars(SubSeq(cond, 1, n))
  BY <1>1, SolutionBinds
<1>6. QED
  BY <1>2, <1>4, <1>5 DEF Evaluable

\* The starting context solves no elements.
LEMMA StartSolves ==
  ASSUME NEW cond, NEW start, Evaluable(cond, start), NEW beliefs
  PROVE  start \in Solutions(beliefs, SubSeq(cond, 1, 0), start)
<1> DEFINE u == SubSeq(cond, 1, 0)
<1>1. DOMAIN u = {}
  BY DEF Evaluable
<1> HIDE DEF u
<1>2. CondVars(u) = {}
  BY <1>1 DEF CondVars, BeliefsOf
<1>3. start \in [DOMAIN start \cup CondVars(u) -> Values]
  BY <1>2 DEF Evaluable, Bindings
<1>4. QED
  BY <1>1, <1>3 DEF Solutions, u

\* A solution of the first n - 1 elements that a belief extends solves the first n.
LEMMA BeliefSolves ==
  ASSUME NEW cond, NEW start, Evaluable(cond, start), NEW beliefs,
         NEW n \in 1 .. Len(cond), ~ IsPredicate(cond[n]),
         NEW b \in Solutions(beliefs, SubSeq(cond, 1, n - 1), start),
         NEW f \in beliefs, f \in Fact, Matches(cond[n], f, b)
  PROVE  Extend(cond[n], f, b) \in Solutions(beliefs, SubSeq(cond, 1, n), start)
<1> DEFINE u == SubSeq(cond, 1, n - 1)
           w == SubSeq(cond, 1, n)
           x == Extend(cond[n], f, b)
<1>1. /\ cond \in Seq(Template) /\ start \in Bindings
      /\ u \in Seq(Template) /\ w \in Seq(Template)
      /\ cond[n] \in Template /\ n - 1 \in 0 .. Len(cond)
  BY DEF Evaluable
<1>2. /\ CondVars(w) = CondVars(u) \cup VarsOf(cond[n])
      /\ DOMAIN w = 1 .. n /\ \A i \in 1 .. n : w[i] = cond[i]
      /\ DOMAIN u = 1 .. n - 1 /\ \A i \in 1 .. n - 1 : u[i] = cond[i]
  BY <1>1, PrefixVars
<1>3. /\ b \in Bindings /\ DOMAIN b = DOMAIN start \cup CondVars(u) /\ Agrees(start, b)
      /\ \A i \in DOMAIN u : Satisfied(beliefs, u[i], b)
  BY <1>1, SolutionBinds
<1>4. /\ DOMAIN x = DOMAIN b \cup VarsOf(cond[n]) /\ Agrees(b, x)
      /\ Ground(cond[n], x) = f
  BY <1>1, ExtendAdds
<1>5. x \in Bindings
  BY <1>1, <1>3, ExtendBinds
<1>6. ASSUME NEW i \in 1 .. n - 1, IsPredicate(cond[i])
      PROVE  VarsOf(cond[i]) \subseteq DOMAIN b /\ Len(cond[i].terms) >= 2
  <2>1. i \in DOMAIN cond /\ i <= (n - 1) + 1
    BY <1>1
  <2>2. QED
    BY <1>1, <1>6, <2>1, PredicateBound
<1> HIDE DEF u, w, x
<1>7. ASSUME NEW i \in 1 .. n PROVE Satisfied(beliefs, w[i], x)
  <2>1. CASE i = n
    <3>1. VarsOf(cond[n]) \subseteq DOMAIN x /\ w[i] = cond[n]
      BY <1>2, <1>4, <2>1
    <3>2. QED
      BY <1>4, <3>1 DEF Satisfied
  <2>2. CASE i # n
    <3>1. i \in 1 .. n - 1 /\ w[i] = cond[i] /\ u[i] = cond[i]
      BY <1>2, <2>2
    <3>2. cond[i] \in Template
      BY <1>1, <3>1
    <3>3. Satisfied(beliefs, cond[i], b) /\ DOMAIN b \subseteq DOMAIN x
      BY <1>2, <1>3, <1>4, <3>1
    <3>4. Satisfied(beliefs, cond[i], x)
      BY <1>3, <1>4, <1>5, <1>6, <3>1, <3>2, <3>3, SatisfiedAlike
    <3>5. QED
      BY <3>1, <3>4
  <2>3. QED
    BY <2>1, <2>2
<1>8. x \in [DOMAIN start \cup CondVars(w) -> Values]
  BY <1>2, <1>3, <1>4, <1>5 DEF Bindings
<1>9. \A v \in DOMAIN start : x[v] = start[v]
  BY <1>3, <1>4 DEF Agrees
<1>10. x \in Solutions(beliefs, w, start)
  BY <1>2, <1>7, <1>8, <1>9 DEF Solutions
<1>11. QED
  BY <1>10 DEF x, w

\* A predicate that is true of a solution of what comes before it.
LEMMA PredicateSolves ==
  ASSUME NEW cond, NEW start, Evaluable(cond, start), NEW beliefs,
         NEW n \in 1 .. Len(cond), IsPredicate(cond[n]),
         NEW b \in Solutions(beliefs, SubSeq(cond, 1, n - 1), start),
         Holds(cond[n], b)
  PROVE  b \in Solutions(beliefs, SubSeq(cond, 1, n), start)
<1> DEFINE u == SubSeq(cond, 1, n - 1)
           w == SubSeq(cond, 1, n)
<1>1. cond \in Seq(Template) /\ start \in Bindings
  BY DEF Evaluable
<1>2. /\ CondVars(w) = CondVars(u)
      /\ DOMAIN w = 1 .. n /\ \A i \in 1 .. n : w[i] = cond[i]
      /\ DOMAIN u = 1 .. n - 1 /\ \A i \in 1 .. n - 1 : u[i] = cond[i]
  BY <1>1, PrefixVars
<1>3. /\ b \in [DOMAIN start \cup CondVars(u) -> Values]
      /\ \A v \in DOMAIN start : b[v] = start[v]
      /\ \A i \in DOMAIN u : Satisfied(beliefs, u[i], b)
  BY DEF Solutions
<1> HIDE DEF u, w
<1>4. ASSUME NEW i \in 1 .. n PROVE Satisfied(beliefs, w[i], b)
  <2>1. CASE i = n
    BY <1>2, <2>1 DEF Satisfied
  <2>2. CASE i # n
    <3>1. i \in 1 .. n - 1 /\ w[i] = u[i]
      BY <1>2, <2>2
    <3>2. QED
      BY <1>2, <1>3, <3>1
  <2>3. QED
    BY <2>1, <2>2
<1>5. b \in Solutions(beliefs, w, start)
  BY <1>2, <1>3, <1>4 DEF Solutions
<1>6. QED
  BY <1>5 DEF w

\* No solution of the whole condition is lost at an element: what solves the elements
\* before it and agrees with the solution goes on to agree with it.
LEMMA BeliefReaches ==
  ASSUME NEW cond, NEW start, Evaluable(cond, start), NEW beliefs \in SUBSET Fact,
         NEW n \in 1 .. Len(cond), ~ IsPredicate(cond[n]),
         NEW s \in Solutions(beliefs, cond, start), NEW b, Agrees(b, s)
  PROVE  \E f \in beliefs : Matches(cond[n], f, b) /\ Agrees(Extend(cond[n], f, b), s)
<1>1. cond \in Seq(Template) /\ start \in Bindings /\ cond[n] \in Template /\ n \in DOMAIN cond
  BY DEF Evaluable
<1>2. s \in Bindings /\ Satisfied(beliefs, cond[n], s)
  BY <1>1, SolutionBinds
<1>3. VarsOf(cond[n]) \subseteq DOMAIN s /\ Ground(cond[n], s) \in beliefs
  BY <1>2 DEF Satisfied
<1>4. QED
  BY <1>1, <1>2, <1>3, ExtendReaches

LEMMA PredicateReaches ==
  ASSUME NEW cond, NEW start, Evaluable(cond, start), NEW beliefs, NEW seen,
         NEW n \in 1 .. Len(cond), IsPredicate(cond[n]),
         NEW s \in Solutions(beliefs, cond, start),
         NEW b \in Solutions(seen, SubSeq(cond, 1, n - 1), start), Agrees(b, s)
  PROVE  Holds(cond[n], b)
<1>1. /\ cond \in Seq(Template) /\ start \in Bindings /\ cond[n] \in Template
      /\ SubSeq(cond, 1, n - 1) \in Seq(Template) /\ n \in DOMAIN cond
      /\ n - 1 \in 0 .. Len(cond) /\ n <= (n - 1) + 1
  BY DEF Evaluable
<1>2. s \in Bindings /\ Satisfied(beliefs, cond[n], s) /\ DOMAIN s = DOMAIN start \cup CondVars(cond)
  BY <1>1, SolutionBinds
<1>3. b \in Bindings /\ DOMAIN b = DOMAIN start \cup CondVars(SubSeq(cond, 1, n - 1))
  BY <1>1, SolutionBinds
<1>4. VarsOf(cond[n]) \subseteq DOMAIN b /\ Len(cond[n].terms) >= 2
  BY <1>1, PredicateBound
<1>5. DOMAIN b \subseteq DOMAIN s
  <2>1. /\ Len(cond) \in 0 .. Len(cond) /\ n - 1 \in 0 .. Len(cond) /\ SubSeq(cond, 1, Len(cond)) = cond
    BY <1>1
  <2>2. CondVars(SubSeq(cond, 1, n - 1)) \subseteq CondVars(cond)
    BY <1>1, <2>1, PrefixVarsGrow
  <2>3. QED
    BY <1>2, <1>3, <2>2
<1>6. Holds(cond[n], b) = Holds(cond[n], s)
  BY <1>1, <1>2, <1>3, <1>4, <1>5, HoldsAlike
<1>7. QED
  BY <1>2, <1>6 DEF Satisfied

\* The contexts that get_matching_beliefs makes are those of the beliefs that match.
LEMMA MatchingContents ==
  ASSUME NEW s \in Seq(Fact), NEW pattern \in Template, NEW b
  PROVE  LET found == GetMatching(s, pattern, b) IN
         /\ \A k \in DOMAIN found : \E f \in ToSet(s) :
              f \in Fact /\ Matches(pattern, f, b) /\ found[k] = Extend(pattern, f, b)
         /\ \A f \in ToSet(s) : Matches(pattern, f, b) =>
              \E k \in DOMAIN found : found[k] = Extend(pattern, f, b)
<1> DEFINE I     == {i \in DOMAIN s : Matches(pattern, s[i], b)}
           found == ElementsAt(s, I)
           bs    == GetMatching(s, pattern, b)
<1>0. I \in SUBSET DOMAIN s
  OBVIOUS
<1> HIDE DEF I
<1>1. /\ found \in Seq(Fact) /\ Len(found) = Cardinality(I) /\ Cardinality(I) \in Nat
      /\ \A k \in 1 .. Cardinality(I) : Nth(I, k) \in I /\ found[k] = s[Nth(I, k)]
      /\ \A i \in I : \E k \in 1 .. Cardinality(I) : found[k] = s[i]
  BY <1>0, ElementsAtProperties
<1> USE DEF I
<1>2. DOMAIN found = 1 .. Cardinality(I)
  BY <1>1
<1>3. DOMAIN bs = DOMAIN found /\ \A k \in DOMAIN found : bs[k] = Extend(pattern, found[k], b)
  BY DEF GetMatching
<1> HIDE DEF found, bs
<1>4. ASSUME NEW k \in DOMAIN bs
      PROVE  \E f \in ToSet(s) : f \in Fact /\ Matches(pattern, f, b) /\ bs[k] = Extend(pattern, f, b)
  <2>1. found[k] \in Fact /\ found[k] \in ToSet(s) /\ Matches(pattern, found[k], b)
    BY <1>1, <1>2, <1>3, <1>4 DEF ToSet
  <2>2. QED
    BY <1>3, <1>4, <2>1
<1>5. ASSUME NEW f \in ToSet(s), Matches(pattern, f, b)
      PROVE  \E k \in DOMAIN bs : bs[k] = Extend(pattern, f, b)
  <2>1. PICK i \in DOMAIN s : s[i] = f
    BY DEF ToSet
  <2>2. i \in I
    BY <1>5, <2>1
  <2> HIDE DEF I
  <2>3. PICK k \in 1 .. Cardinality(I) : found[k] = s[i]
    BY <1>1, <2>2
  <2>4. QED
    BY <1>2, <1>3, <2>1, <2>3
<1>6. QED
  BY <1>4, <1>5 DEF bs

(***************************************************************************)
(* Condition::eval over a knowledge base that stands still.                *)
(***************************************************************************)
\* r[n] is what the round of the n-th element leaves in context_array.
EvaluatedBy(r, s, cond, start) ==
  /\ r[1] = EvalFirst(s, cond[1], start)
  /\ \A n \in 2 .. Len(cond) : r[n] = EvalArray(s, cond[n], r[n - 1])
  /\ Eval(s, cond, start) = r[Len(cond)]

LEMMA RowBinds ==
  ASSUME NEW s \in Seq(Fact), NEW e \in Template, NEW b \in Bindings
  PROVE  EvalContext(s, e, b) \in Seq(Bindings)
<1>1. <<b>> \in Seq(Bindings) /\ <<>> \in Seq(Bindings)
  OBVIOUS
<1>2. GetMatching(s, e, b) \in Seq(Bindings)
  BY MatchingBinds
<1>3. QED
  BY <1>1, <1>2 DEF EvalContext

\* The contexts of a round are those of its rows, row after row.
LEMMA ArrayRows ==
  ASSUME NEW s \in Seq(Fact), NEW e \in Template, NEW bs \in Seq(Bindings), NEW R
  PROVE  /\ EvalArray(s, e, bs) \in Seq(Bindings)
         /\ \A b \in ToSet(bs) : ToSet(EvalContext(s, e, b)) \subseteq ToSet(EvalArray(s, e, bs))
         /\ \A x \in ToSet(EvalArray(s, e, bs)) :
              \E b \in ToSet(bs) : x \in ToSet(EvalContext(s, e, b))
         /\ /\ \A b \in ToSet(bs) : OrderedBy(EvalContext(s, e, b), R)
            /\ \A i, j \in DOMAIN bs : i < j =>
                 (ToSet(EvalContext(s, e, bs[i])) \X ToSet(EvalContext(s, e, bs[j]))) \subseteq R
            => OrderedBy(EvalArray(s, e, bs), R)
<1> DEFINE row(b) == EvalContext(s, e, b)
           rows == [i \in DOMAIN bs |-> row(bs[i])]
<1>1. DOMAIN bs = 1 .. Len(bs) /\ Len(bs) \in Nat /\ \A i \in 1 .. Len(bs) : bs[i] \in Bindings
  OBVIOUS
<1>2. \A i \in 1 .. Len(bs) : row(bs[i]) \in Seq(Bindings)
  BY <1>1, RowBinds
<1>3. /\ rows \in Seq(Seq(Bindings)) /\ DOMAIN rows = DOMAIN bs
      /\ \A i \in DOMAIN bs : rows[i] = row(bs[i])
  <2> HIDE DEF row
  <2>1. QED
    BY <1>1, <1>2
<1>4. EvalArray(s, e, bs) = FlattenSeq(rows)
  BY DEF EvalArray
<1> HIDE DEF rows
<1>5. /\ FlattenSeq(rows) \in Seq(Bindings)
      /\ ToSet(FlattenSeq(rows)) = UNION {ToSet(rows[i]) : i \in DOMAIN rows}
      /\ /\ \A i \in DOMAIN rows : OrderedBy(rows[i], R)
         /\ \A i, j \in DOMAIN rows : i < j => (ToSet(rows[i]) \X ToSet(rows[j])) \subseteq R
         => OrderedBy(FlattenSeq(rows), R)
  BY <1>3, FlattenHolds, Zenon
<1> HIDE DEF row
<1>6. ASSUME NEW b \in ToSet(bs)
      PROVE  ToSet(row(b)) \subseteq ToSet(FlattenSeq(rows))
  <2>1. PICK i \in DOMAIN bs : bs[i] = b
    BY DEF ToSet
  <2>2. rows[i] = row(b) /\ i \in DOMAIN rows
    BY <1>3, <2>1
  <2>3. QED
    BY <1>5, <2>2
<1>7. ASSUME NEW x \in ToSet(FlattenSeq(rows))
      PROVE  \E b \in ToSet(bs) : x \in ToSet(row(b))
  <2>1. PICK i \in DOMAIN rows : x \in ToSet(rows[i])
    BY <1>5
  <2>2. bs[i] \in ToSet(bs) /\ rows[i] = row(bs[i])
    BY <1>3 DEF ToSet
  <2>3. QED
    BY <2>1, <2>2
<1>8. ASSUME \A b \in ToSet(bs) : OrderedBy(row(b), R),
             \A i, j \in DOMAIN bs : i < j => (ToSet(row(bs[i])) \X ToSet(row(bs[j]))) \subseteq R
      PROVE  OrderedBy(FlattenSeq(rows), R)
  <2>1. \A i \in DOMAIN rows : bs[i] \in ToSet(bs) /\ rows[i] = row(bs[i])
    BY <1>3 DEF ToSet
  <2>2. \A i \in DOMAIN rows : OrderedBy(rows[i], R)
    BY <1>8, <2>1
  <2>3. \A i, j \in DOMAIN rows : i < j => (ToSet(rows[i]) \X ToSet(rows[j])) \subseteq R
    BY <1>3, <1>8, <2>1
  <2>4. QED
    BY <1>5, <2>2, <2>3
<1>9. QED
  BY <1>4, <1>5, <1>6, <1>7, <1>8 DEF row

LEMMA RoundsExist ==
  ASSUME NEW s \in Seq(Fact), NEW cond \in Seq(Template), cond # <<>>, NEW start \in Bindings
  PROVE  \E r \in [1 .. Len(cond) -> Seq(Bindings)] : EvaluatedBy(r, s, cond, start)
<1> DEFINE N == Len(cond)
           V == Seq(Bindings)
           a == EvalFirst(s, cond[1], start)
           F == [x \in V \X (2 .. N) |-> EvalArray(s, cond[x[2]], x[1])]
           Is(h) == h = [n \in 1 .. N |->
                           IF n = 1 THEN EvalFirst(s, cond[1], start)
                                    ELSE EvalArray(s, cond[n], h[n - 1])]
           f == CHOOSE h : Is(h)
<1>1. N \in Nat \ {0} /\ \A n \in 1 .. N : cond[n] \in Template
  BY EmptySeq
<1>2. a \in V
  <2>1. cond[1] \in Template /\ <<>> \in Seq(Bindings)
    BY <1>1
  <2>2. GetMatching(s, cond[1], start) \in Seq(Bindings)
    BY <2>1, MatchingBinds
  <2>3. QED
    BY <2>1, <2>2 DEF EvalFirst
<1>3. \A bs \in V, n \in 1 .. N : EvalArray(s, cond[n], bs) \in V
  BY <1>1, ArrayRows
<1>4. F \in [V \X (2 .. N) -> V]
  <2>1. ASSUME NEW x \in V \X (2 .. N)
        PROVE  EvalArray(s, cond[x[2]], x[1]) \in V
    <3>1. x[1] \in V /\ x[2] \in 1 .. N
      BY <1>1
    <3> HIDE DEF V, N
    <3>2. QED
      BY <1>3, <3>1
  <2> HIDE DEF V, N
  <2>2. QED
    BY <2>1
<1>5. \A bs \in V, n \in 2 .. N : F[<<bs, n>>] = EvalArray(s, cond[n], bs)
  <2> HIDE DEF V, N
  <2>1. QED
    OBVIOUS
<1>6. Eval(s, cond, start) = f[N]
  BY Zenon DEF Eval
<1> HIDE DEF F, V, a
<1>7. PICK g \in [1 .. N -> V] : RecursFromOne(g, N, a, F)
  <2> HIDE DEF N
  <2>1. QED
    BY <1>1, <1>2, <1>4, RecursionFromOne
<1>8. g[1] = a /\ \A n \in 2 .. N : g[n] = EvalArray(s, cond[n], g[n - 1])
  <2>1. \A n \in 2 .. N : n - 1 \in 1 .. N
    OBVIOUS
  <2> HIDE DEF N
  <2>2. QED
    BY <1>5, <1>7, <2>1 DEF RecursFromOne
<1>9. Is(g)
  <2> HIDE DEF N
  <2>1. ASSUME NEW n \in 1 .. N
        PROVE  g[n] = IF n = 1 THEN EvalFirst(s, cond[1], start)
                               ELSE EvalArray(s, cond[n], g[n - 1])
    <3>1. CASE n = 1
      BY <1>8, <3>1 DEF a
    <3>2. CASE n # 1
      <4>1. n \in 2 .. N
        BY <1>1, <3>2
      <4>2. QED
        BY <1>8, <3>2, <4>1, Zenon
    <3>3. QED
      BY <3>1, <3>2
  <2>2. g = [n \in 1 .. N |-> g[n]]
    OBVIOUS
  <2>3. QED
    BY <2>1, <2>2
<1>10. Is(f)
  <2> HIDE DEF Is
  <2>1. QED
    BY <1>9
<1> HIDE DEF f, N
<1>11. \A n \in 1 .. N : f[n] = IF n = 1 THEN a ELSE EvalArray(s, cond[n], f[n - 1])
  BY <1>10, Zenon DEF a
<1>12. f[1] = a /\ \A n \in 2 .. N : f[n] = EvalArray(s, cond[n], f[n - 1])
  <2>1. 1 \in 1 .. N /\ \A n \in 2 .. N : n \in 1 .. N /\ n # 1
    BY <1>1
  <2>2. QED
    BY <1>11, <2>1, Zenon
<1>13. \A n \in 1 .. N : f[n] \in V
  <2> DEFINE T == {n \in 0 .. N : n = 0 \/ f[n] \in V}
  <2>1. 0 \in T
    BY <1>1
  <2>2. ASSUME NEW n \in 1 .. N, n - 1 \in T
        PROVE  n \in T
    <3>1. CASE n = 1
      BY <1>1, <1>2, <1>12, <3>1
    <3>2. CASE n # 1
      <4>1. n \in 2 .. N /\ n - 1 # 0
        BY <1>1, <3>2
      <4>2. f[n - 1] \in V
        BY <2>2, <4>1
      <4>3. f[n] \in V
        BY <1>3, <1>12, <4>1, <4>2
      <4>4. QED
        BY <4>3
    <3>3. QED
      BY <3>1, <3>2
  <2> HIDE DEF T
  <2>3. \A n \in 0 .. N : n \in T
    BY <1>1, <2>1, <2>2, BoundedInduction
  <2>4. \A n \in 1 .. N : n \in 0 .. N /\ n # 0
    BY <1>1
  <2>5. QED
    BY <2>3, <2>4 DEF T
<1>14. f \in [1 .. N -> V]
  <2>1. DOMAIN f = 1 .. N /\ f = [n \in DOMAIN f |-> f[n]]
    BY <1>10, Zenon
  <2>2. QED
    BY <1>13, <2>1
<1>15. EvaluatedBy(f, s, cond, start)
  BY <1>6, <1>12 DEF EvaluatedBy, a, N
<1>16. QED
  BY <1>14, <1>15 DEF V, N

\* A round goes from contexts that solve the elements before n to contexts that solve n
\* as well, and loses none that a solution extends.
LEMMA RowContents ==
  ASSUME NEW s \in Seq(Fact), NEW cond, NEW start, Evaluable(cond, start),
         NEW n \in 1 .. Len(cond),
         NEW b \in Solutions(ToSet(s), SubSeq(cond, 1, n - 1), start)
  PROVE  LET row == EvalContext(s, cond[n], b) IN
         /\ \A x \in ToSet(row) : x \in Solutions(ToSet(s), SubSeq(cond, 1, n), start)
         /\ \A y \in Solutions(ToSet(s), cond, start) :
              Agrees(b, y) => \E x \in ToSet(row) : Agrees(x, y)
<1> DEFINE row == EvalContext(s, cond[n], b)
<1>1. cond \in Seq(Template) /\ start \in Bindings /\ cond[n] \in Template
  BY DEF Evaluable
<1>2. ToSet(s) \in SUBSET Fact
  BY DEF ToSet
<1>3. CASE IsPredicate(cond[n])
  <2>1. ToSet(row) = IF Holds(cond[n], b) THEN {b} ELSE {}
    BY <1>3 DEF EvalContext, ToSet
  <2>2. ASSUME NEW x \in ToSet(row)
        PROVE  x \in Solutions(ToSet(s), SubSeq(cond, 1, n), start)
    <3>1. x = b /\ Holds(cond[n], b)
      BY <2>1
    <3>2. QED
      BY <1>3, <3>1, PredicateSolves
  <2>3. ASSUME NEW y \in Solutions(ToSet(s), cond, start), Agrees(b, y)
        PROVE  \E x \in ToSet(row) : Agrees(x, y)
    <3>1. Holds(cond[n], b)
      BY <1>3, <2>3, PredicateReaches
    <3>2. QED
      BY <2>1, <2>3, <3>1
  <2>4. QED
    BY <2>2, <2>3
<1>4. CASE ~ IsPredicate(cond[n])
  <2> DEFINE found == GetMatching(s, cond[n], b)
  <2>1. row = found
    BY <1>4 DEF EvalContext
  <2>2. /\ \A k \in DOMAIN found : \E f \in ToSet(s) :
             f \in Fact /\ Matches(cond[n], f, b) /\ found[k] = Extend(cond[n], f, b)
        /\ \A f \in ToSet(s) : Matches(cond[n], f, b) =>
             \E k \in DOMAIN found : found[k] = Extend(cond[n], f, b)
    BY <1>1, MatchingContents
  <2> HIDE DEF row, found
  <2>3. ASSUME NEW x \in ToSet(row)
        PROVE  x \in Solutions(ToSet(s), SubSeq(cond, 1, n), start)
    <3>1. PICK k \in DOMAIN found : found[k] = x
      BY <2>1 DEF ToSet
    <3>2. PICK f \in ToSet(s) :
            f \in Fact /\ Matches(cond[n], f, b) /\ found[k] = Extend(cond[n], f, b)
      BY <2>2
    <3>3. Extend(cond[n], f, b) \in Solutions(ToSet(s), SubSeq(cond, 1, n), start)
      BY <1>4, <3>2, BeliefSolves
    <3>4. QED
      BY <3>1, <3>2, <3>3
  <2>4. ASSUME NEW y \in Solutions(ToSet(s), cond, start), Agrees(b, y)
        PROVE  \E x \in ToSet(row) : Agrees(x, y)
    <3>1. PICK f \in ToSet(s) : Matches(cond[n], f, b) /\ Agrees(Extend(cond[n], f, b), y)
      BY <1>2, <1>4, <2>4, BeliefReaches
    <3>2. PICK k \in DOMAIN found : found[k] = Extend(cond[n], f, b)
      BY <2>2, <3>1
    <3>3. found[k] \in ToSet(row)
      BY <2>1 DEF ToSet
    <3>4. QED
      BY <3>1, <3>2, <3>3
  <2>5. QED
    BY <2>3, <2>4 DEF row
<1>5. QED
  BY <1>3, <1>4

\* Every context of cs solves the first n elements, and every solution extends one.
Solving(cs, s, cond, start, n) ==
  /\ \A b \in cs : b \in Solutions(ToSet(s), SubSeq(cond, 1, n), start)
  /\ \A y \in Solutions(ToSet(s), cond, start) : \E b \in cs : Agrees(b, y)

LEMMA RoundSolves ==
  ASSUME NEW s \in Seq(Fact), NEW cond, NEW start, Evaluable(cond, start),
         NEW n \in 1 .. Len(cond), NEW bs \in Seq(Bindings),
         Solving(ToSet(bs), s, cond, start, n - 1)
  PROVE  Solving(ToSet(EvalArray(s, cond[n], bs)), s, cond, start, n)
<1> DEFINE out == EvalArray(s, cond[n], bs)
<1>1. cond[n] \in Template
  BY DEF Evaluable
<1>2. /\ \A b \in ToSet(bs) : ToSet(EvalContext(s, cond[n], b)) \subseteq ToSet(out)
      /\ \A x \in ToSet(out) : \E b \in ToSet(bs) : x \in ToSet(EvalContext(s, cond[n], b))
  BY <1>1, ArrayRows
<1> HIDE DEF out
<1>3. ASSUME NEW x \in ToSet(out)
      PROVE  x \in Solutions(ToSet(s), SubSeq(cond, 1, n), start)
  <2>1. PICK b \in ToSet(bs) : x \in ToSet(EvalContext(s, cond[n], b))
    BY <1>2
  <2>2. b \in Solutions(ToSet(s), SubSeq(cond, 1, n - 1), start)
    BY DEF Solving
  <2>3. QED
    BY <2>1, <2>2, RowContents
<1>4. ASSUME NEW y \in Solutions(ToSet(s), cond, start)
      PROVE  \E x \in ToSet(out) : Agrees(x, y)
  <2>1. PICK b \in ToSet(bs) : Agrees(b, y)
    BY DEF Solving
  <2>2. b \in Solutions(ToSet(s), SubSeq(cond, 1, n - 1), start)
    BY DEF Solving
  <2>3. PICK x \in ToSet(EvalContext(s, cond[n], b)) : Agrees(x, y)
    BY <2>1, <2>2, RowContents
  <2>4. QED
    BY <1>2, <2>3
<1>5. QED
  BY <1>3, <1>4 DEF Solving, out

LEMMA FirstSolves ==
  ASSUME NEW s \in Seq(Fact), NEW cond, NEW start, Evaluable(cond, start), cond # <<>>,
         ~ IsPredicate(cond[1])
  PROVE  Solving(ToSet(EvalFirst(s, cond[1], start)), s, cond, start, 1)
<1>1. 1 \in 1 .. Len(cond) /\ 1 - 1 = 0 /\ cond \in Seq(Template) /\ start \in Bindings
  BY EmptySeq DEF Evaluable
<1>2. EvalFirst(s, cond[1], start) = EvalContext(s, cond[1], start)
  BY DEF EvalFirst, EvalContext
<1>3. start \in Solutions(ToSet(s), SubSeq(cond, 1, 0), start)
  BY StartSolves
<1>4. /\ \A x \in ToSet(EvalContext(s, cond[1], start)) :
           x \in Solutions(ToSet(s), SubSeq(cond, 1, 1), start)
      /\ \A y \in Solutions(ToSet(s), cond, start) :
           Agrees(start, y) => \E x \in ToSet(EvalContext(s, cond[1], start)) : Agrees(x, y)
  BY <1>1, <1>3, RowContents
<1>5. \A y \in Solutions(ToSet(s), cond, start) : Agrees(start, y)
  BY <1>1, SolutionBinds
<1>6. QED
  BY <1>2, <1>4, <1>5 DEF Solving

LEMMA EvalSolves ==
  ASSUME NEW s \in Seq(Fact), NEW cond, NEW start, Evaluable(cond, start), cond # <<>>,
         ~ IsPredicate(cond[1])
  PROVE  ToSet(Eval(s, cond, start)) = Solutions(ToSet(s), cond, start)
<1> DEFINE N == Len(cond)
<1>1. N \in Nat \ {0} /\ cond \in Seq(Template) /\ start \in Bindings
  BY EmptySeq DEF Evaluable
<1>2. PICK r \in [1 .. N -> Seq(Bindings)] : EvaluatedBy(r, s, cond, start)
  BY <1>1, RoundsExist
<1> DEFINE T == {n \in 0 .. N : n = 0 \/ Solving(ToSet(r[n]), s, cond, start, n)}
<1>3. 0 \in T
  BY <1>1
<1>4. ASSUME NEW n \in 1 .. N, n - 1 \in T
      PROVE  n \in T
  <2>1. CASE n = 1
    <3>1. Solving(ToSet(EvalFirst(s, cond[1], start)), s, cond, start, 1)
      BY FirstSolves
    <3>2. QED
      BY <1>2, <2>1, <3>1 DEF EvaluatedBy
  <2>2. CASE n # 1
    <3>1. n \in 2 .. N /\ n - 1 \in 1 .. N /\ n - 1 # 0
      BY <1>1, <2>2
    <3>2. r[n - 1] \in Seq(Bindings) /\ Solving(ToSet(r[n - 1]), s, cond, start, n - 1)
      BY <1>2, <1>4, <3>1
    <3>3. r[n] = EvalArray(s, cond[n], r[n - 1])
      BY <1>2, <3>1 DEF EvaluatedBy
    <3>4. Solving(ToSet(EvalArray(s, cond[n], r[n - 1])), s, cond, start, n)
      BY <3>2, RoundSolves
    <3>5. QED
      BY <3>3, <3>4
  <2>3. QED
    BY <2>1, <2>2
<1> HIDE DEF T
<1>5. \A n \in 0 .. N : n \in T
  BY <1>1, <1>3, <1>4, BoundedInduction
<1>6. Solving(ToSet(Eval(s, cond, start)), s, cond, start, N)
  <2>1. N \in 0 .. N /\ N # 0
    BY <1>1
  <2>2. QED
    BY <1>2, <1>5, <2>1 DEF T, EvaluatedBy
<1>7. SubSeq(cond, 1, N) = cond
  BY <1>1
<1>8. \A b \in ToSet(Eval(s, cond, start)) : b \in Solutions(ToSet(s), cond, start)
  BY <1>6, <1>7 DEF Solving
<1>9. ASSUME NEW y \in Solutions(ToSet(s), cond, start)
      PROVE  y \in ToSet(Eval(s, cond, start))
  <2>1. PICK b \in ToSet(Eval(s, cond, start)) : Agrees(b, y)
    BY <1>6 DEF Solving
  <2>2. b \in Solutions(ToSet(s), cond, start)
    BY <1>8
  <2>3. /\ b \in [DOMAIN start \cup CondVars(cond) -> Values]
        /\ y \in [DOMAIN start \cup CondVars(cond) -> Values]
    BY <2>2 DEF Solutions
  <2>4. \A v \in DOMAIN b : b[v] = y[v]
    BY <2>1 DEF Agrees
  <2>5. b = y
    BY <2>3, <2>4
  <2>6. QED
    BY <2>5
<1>10. QED
  BY <1>8, <1>9

\* The beliefs that make the elements of I true stand at the same places under b and x.
SamePlaces(s, cond, I, b, x) ==
  \A i \in I : ~ IsPredicate(cond[i]) => PlaceOf(s, cond[i], b) = PlaceOf(s, cond[i], x)

\* One of the first n elements takes an older belief under the first binding of the
\* pair, and those before it take the same.
OlderPairs(s, cond, n) ==
  {p \in Bindings \X Bindings : \E i \in 1 .. n :
     /\ ~ IsPredicate(cond[i])
     /\ PlaceOf(s, cond[i], p[1]) \in Nat /\ PlaceOf(s, cond[i], p[2]) \in Nat
     /\ PlaceOf(s, cond[i], p[1]) < PlaceOf(s, cond[i], p[2])
     /\ SamePlaces(s, cond, 1 .. i - 1, p[1], p[2])}

\* b binds the variables of the beliefs among the elements of I.
Binds(b, cond, I) ==
  b \in Bindings /\ \A i \in I : ~ IsPredicate(cond[i]) => VarsOf(cond[i]) \subseteq DOMAIN b

LEMMA ExtensionPlaces ==
  ASSUME NEW s, NEW cond \in Seq(Template), NEW I \in SUBSET DOMAIN cond,
         NEW b, Binds(b, cond, I), NEW x, Agrees(b, x)
  PROVE  SamePlaces(s, cond, I, b, x)
<1>1. ASSUME NEW i \in I, ~ IsPredicate(cond[i])
      PROVE  Ground(cond[i], b) = Ground(cond[i], x)
  <2>1. cond[i] \in Template /\ VarsOf(cond[i]) \subseteq DOMAIN b
    BY <1>1 DEF Binds
  <2>2. QED
    BY <2>1, GroundAlike
<1>2. QED
  BY <1>1 DEF SamePlaces, PlaceOf

\* What get_matching_beliefs makes of beliefs that differ: contexts that use the beliefs
\* one after the other.
LEMMA MatchingOrdered ==
  ASSUME NEW s \in Seq(Fact), IsInjective(s), NEW e \in Template, NEW b
  PROVE  LET found == GetMatching(s, e, b) IN
         /\ \A k \in DOMAIN found :
              /\ Agrees(b, found[k]) /\ DOMAIN found[k] = DOMAIN b \cup VarsOf(e)
              /\ PlaceOf(s, e, found[k]) \in Nat
         /\ \A k, l \in DOMAIN found :
              k < l => PlaceOf(s, e, found[k]) < PlaceOf(s, e, found[l])
<1> DEFINE I == {i \in DOMAIN s : Matches(e, s[i], b)}
           at == ElementsAt(s, I)
           found == GetMatching(s, e, b)
<1>1. I \in SUBSET DOMAIN s /\ DOMAIN s \in SUBSET Nat /\ I \in SUBSET Nat
  OBVIOUS
<1> HIDE DEF I
<1>2. /\ IsFiniteSet(I) /\ Cardinality(I) \in Nat
      /\ at \in Seq(Fact) /\ Len(at) = Cardinality(I)
      /\ \A k \in 1 .. Cardinality(I) : Nth(I, k) \in I /\ at[k] = s[Nth(I, k)]
  BY <1>1, ElementsAtProperties
<1> HIDE DEF at
<1>3. /\ DOMAIN found = 1 .. Cardinality(I)
      /\ \A k \in 1 .. Cardinality(I) : found[k] = Extend(e, at[k], b)
  <2>1. found = [k \in DOMAIN at |-> Extend(e, at[k], b)]
    BY DEF GetMatching, I, at
  <2>2. DOMAIN at = 1 .. Cardinality(I)
    BY <1>2
  <2>3. QED
    BY <2>1, <2>2
<1> HIDE DEF found
<1>4. ASSUME NEW k \in DOMAIN found
      PROVE  /\ Agrees(b, found[k]) /\ DOMAIN found[k] = DOMAIN b \cup VarsOf(e)
             /\ PlaceOf(s, e, found[k]) = Nth(I, k) /\ Nth(I, k) \in Nat
  <2>1. /\ Nth(I, k) \in I /\ Nth(I, k) \in DOMAIN s /\ Nth(I, k) \in Nat
        /\ at[k] = s[Nth(I, k)] /\ at[k] \in Fact /\ found[k] = Extend(e, at[k], b)
    BY <1>1, <1>2, <1>3
  <2>2. Matches(e, at[k], b)
    BY <2>1 DEF I
  <2>3. /\ DOMAIN found[k] = DOMAIN b \cup VarsOf(e) /\ Agrees(b, found[k])
        /\ Ground(e, found[k]) = s[Nth(I, k)]
    <3>1. PICK f \in Fact : f = at[k]
      BY <2>1
    <3>2. PICK x : x = Extend(e, f, b) /\ x = found[k]
      BY <2>1, <3>1
    <3>3. Matches(e, f, b)
      BY <2>2, <3>1, Zenon
    <3>4. /\ DOMAIN Extend(e, f, b) = DOMAIN b \cup VarsOf(e) /\ Agrees(b, Extend(e, f, b))
          /\ Ground(e, Extend(e, f, b)) = f
      BY <3>3, ExtendAdds
    <3>5. DOMAIN x = DOMAIN b \cup VarsOf(e) /\ Agrees(b, x) /\ Ground(e, x) = f
      BY <3>2, <3>4, Zenon
    <3>6. QED
      BY <2>1, <3>1, <3>2, <3>5
  <2>4. (CHOOSE i \in DOMAIN s : s[i] = Ground(e, found[k])) = Nth(I, k)
    BY <2>1, <2>3 DEF IsInjective
  <2>5. QED
    BY <2>1, <2>3, <2>4 DEF PlaceOf
<1>5. ASSUME NEW k \in DOMAIN found, NEW l \in DOMAIN found, k < l
      PROVE  PlaceOf(s, e, found[k]) < PlaceOf(s, e, found[l])
  <2>1. Nth(I, k) < Nth(I, l)
    BY <1>1, <1>2, <1>3, <1>5, NthIncreases
  <2>2. QED
    BY <1>4, <2>1
<1>6. QED
  BY <1>4, <1>5 DEF found

\* The contexts that the n-th element makes of b extend it, in the order of the beliefs.
LEMMA RowOrdered ==
  ASSUME NEW s \in Seq(Fact), IsInjective(s), NEW cond \in Seq(Template),
         NEW n \in 1 .. Len(cond), NEW b, Binds(b, cond, 1 .. n - 1)
  PROVE  LET row == EvalContext(s, cond[n], b) IN
         /\ \A x \in ToSet(row) :
              Binds(x, cond, 1 .. n) /\ SamePlaces(s, cond, 1 .. n - 1, b, x)
         /\ OrderedBy(row, OlderPairs(s, cond, n))
<1> DEFINE row == EvalContext(s, cond[n], b)
           R == OlderPairs(s, cond, n)
<1>1. /\ cond[n] \in Template /\ b \in Bindings /\ n \in Nat
      /\ 1 .. n - 1 \in SUBSET DOMAIN cond /\ \A i \in 1 .. n : i \in 1 .. n - 1 \/ i = n
  BY DEF Binds
<1>2. CASE IsPredicate(cond[n])
  <2>1. row = <<b>> \/ row = <<>>
    BY <1>2 DEF EvalContext
  <2>2. \A x \in ToSet(row) : x = b
    BY <2>1 DEF ToSet
  <2>3. OrderedBy(row, R)
    <3>1. \A k, l \in DOMAIN row : ~ k < l
      BY <2>1
    <3>2. QED
      BY <3>1 DEF OrderedBy
  <2>4. Binds(b, cond, 1 .. n)
    BY <1>1, <1>2 DEF Binds
  <2>5. SamePlaces(s, cond, 1 .. n - 1, b, b)
    BY DEF SamePlaces
  <2>6. QED
    BY <2>2, <2>3, <2>4, <2>5
<1>3. CASE ~ IsPredicate(cond[n])
  <2> DEFINE found == GetMatching(s, cond[n], b)
  <2>1. row = found
    BY <1>3 DEF EvalContext
  <2>2. /\ \A k \in DOMAIN found :
             /\ Agrees(b, found[k]) /\ DOMAIN found[k] = DOMAIN b \cup VarsOf(cond[n])
             /\ PlaceOf(s, cond[n], found[k]) \in Nat
        /\ \A k, l \in DOMAIN found :
             k < l => PlaceOf(s, cond[n], found[k]) < PlaceOf(s, cond[n], found[l])
    BY <1>1, MatchingOrdered
  <2>3. found \in Seq(Bindings)
    BY <1>1, MatchingBinds
  <2> HIDE DEF row, found, R
  <2>4. ASSUME NEW k \in DOMAIN found
        PROVE  /\ found[k] \in Bindings /\ Binds(found[k], cond, 1 .. n)
               /\ SamePlaces(s, cond, 1 .. n - 1, b, found[k])
    <3>1. found[k] \in Bindings
      BY <2>3
    <3>2. Binds(found[k], cond, 1 .. n)
      BY <1>1, <2>2, <3>1 DEF Binds
    <3>3. SamePlaces(s, cond, 1 .. n - 1, b, found[k])
      BY <1>1, <2>2, ExtensionPlaces
    <3>4. QED
      BY <3>1, <3>2, <3>3
  <2>5. ASSUME NEW k \in DOMAIN found, NEW l \in DOMAIN found, k < l
        PROVE  <<found[k], found[l]>> \in R
    <3>1. PICK x, y : x = found[k] /\ y = found[l]
      OBVIOUS
    <3>2. /\ PlaceOf(s, cond[n], x) \in Nat /\ PlaceOf(s, cond[n], y) \in Nat
          /\ PlaceOf(s, cond[n], x) < PlaceOf(s, cond[n], y)
      BY <2>2, <2>5, <3>1
    <3>3. SamePlaces(s, cond, 1 .. n - 1, x, y)
      BY <2>4, <3>1 DEF SamePlaces
    <3>4. n \in 1 .. n /\ <<x, y>> \in Bindings \X Bindings
      BY <1>1, <2>4, <3>1
    <3>5. <<x, y>> \in R
      BY <1>3, <3>2, <3>3, <3>4 DEF R, OlderPairs
    <3>6. QED
      BY <3>1, <3>5
  <2>6. QED
    BY <2>1, <2>4, <2>5 DEF OrderedBy, ToSet, row, R
<1>4. QED
  BY <1>2, <1>3

\* What stands in the order of the first n - 1 elements stays in that order when it is
\* extended.
LEMMA OlderExtended ==
  ASSUME NEW s, NEW cond, NEW n \in 1 .. Len(cond),
         NEW b, NEW c, <<b, c>> \in OlderPairs(s, cond, n - 1),
         NEW x \in Bindings, NEW y \in Bindings,
         SamePlaces(s, cond, 1 .. n - 1, b, x), SamePlaces(s, cond, 1 .. n - 1, c, y)
  PROVE  <<x, y>> \in OlderPairs(s, cond, n)
<1>1. PICK i \in 1 .. n - 1 :
        /\ ~ IsPredicate(cond[i])
        /\ PlaceOf(s, cond[i], b) \in Nat /\ PlaceOf(s, cond[i], c) \in Nat
        /\ PlaceOf(s, cond[i], b) < PlaceOf(s, cond[i], c)
        /\ SamePlaces(s, cond, 1 .. i - 1, b, c)
  BY DEF OlderPairs
<1>2. i \in 1 .. n /\ \A j \in 1 .. i - 1 : j \in 1 .. n - 1
  OBVIOUS
<1>3. PlaceOf(s, cond[i], b) = PlaceOf(s, cond[i], x) /\ PlaceOf(s, cond[i], c) = PlaceOf(s, cond[i], y)
  BY <1>1 DEF SamePlaces
<1>4. SamePlaces(s, cond, 1 .. i - 1, x, y)
  BY <1>1, <1>2 DEF SamePlaces
<1>5. <<x, y>> \in Bindings \X Bindings
  OBVIOUS
<1>6. QED
  BY <1>1, <1>2, <1>3, <1>4, <1>5 DEF OlderPairs

\* The contexts of bs bind the variables of the first n elements and are in order.
InOrder(bs, s, cond, n) ==
  (\A b \in ToSet(bs) : Binds(b, cond, 1 .. n)) /\ OrderedBy(bs, OlderPairs(s, cond, n))

LEMMA RoundOrdered ==
  ASSUME NEW s \in Seq(Fact), IsInjective(s), NEW cond \in Seq(Template),
         NEW n \in 1 .. Len(cond), NEW bs \in Seq(Bindings), InOrder(bs, s, cond, n - 1)
  PROVE  InOrder(EvalArray(s, cond[n], bs), s, cond, n)
<1> DEFINE row(b) == EvalContext(s, cond[n], b)
           out == EvalArray(s, cond[n], bs)
           R == OlderPairs(s, cond, n)
<1>1. cond[n] \in Template
  OBVIOUS
<1>2. ASSUME NEW b \in ToSet(bs)
      PROVE  /\ \A x \in ToSet(row(b)) :
                  Binds(x, cond, 1 .. n) /\ SamePlaces(s, cond, 1 .. n - 1, b, x)
             /\ OrderedBy(row(b), R)
  <2>1. Binds(b, cond, 1 .. n - 1)
    BY DEF InOrder
  <2>2. QED
    BY <2>1, RowOrdered
<1> HIDE DEF row, R
<1>3. ASSUME NEW i \in DOMAIN bs, NEW j \in DOMAIN bs, i < j
      PROVE  (ToSet(row(bs[i])) \X ToSet(row(bs[j]))) \subseteq R
  <2>1. bs[i] \in ToSet(bs) /\ bs[j] \in ToSet(bs)
    BY DEF ToSet
  <2>2. <<bs[i], bs[j]>> \in OlderPairs(s, cond, n - 1)
    BY <1>3 DEF InOrder, OrderedBy
  <2>3. ASSUME NEW x \in ToSet(row(bs[i])), NEW y \in ToSet(row(bs[j]))
        PROVE  <<x, y>> \in R
    <3>1. /\ x \in Bindings /\ SamePlaces(s, cond, 1 .. n - 1, bs[i], x)
          /\ y \in Bindings /\ SamePlaces(s, cond, 1 .. n - 1, bs[j], y)
      BY <1>2, <2>1 DEF Binds
    <3>2. QED
      BY <2>2, <3>1, OlderExtended DEF R
  <2>4. QED
    BY <2>3
<1>4. /\ \A x \in ToSet(out) : \E b \in ToSet(bs) : x \in ToSet(row(b))
      /\ /\ \A b \in ToSet(bs) : OrderedBy(row(b), R)
         /\ \A i, j \in DOMAIN bs : i < j => (ToSet(row(bs[i])) \X ToSet(row(bs[j]))) \subseteq R
         => OrderedBy(out, R)
  BY <1>1, ArrayRows DEF row
<1> HIDE DEF out
<1>5. \A x \in ToSet(out) : Binds(x, cond, 1 .. n)
  BY <1>2, <1>4
<1>6. OrderedBy(out, R)
  BY <1>2, <1>3, <1>4
<1>7. QED
  BY <1>5, <1>6 DEF InOrder, out, R

LEMMA FirstOrdered ==
  ASSUME NEW s \in Seq(Fact), IsInjective(s), NEW cond \in Seq(Template), cond # <<>>,
         NEW start \in Bindings
  PROVE  InOrder(EvalFirst(s, cond[1], start), s, cond, 1)
<1>1. 1 \in 1 .. Len(cond) /\ 1 - 1 = 0
  BY EmptySeq
<1>2. CASE IsPredicate(cond[1])
  <2>1. EvalFirst(s, cond[1], start) = <<>>
    BY <1>2 DEF EvalFirst
  <2>2. QED
    BY <2>1 DEF InOrder, OrderedBy, ToSet
<1>3. CASE ~ IsPredicate(cond[1])
  <2>1. EvalFirst(s, cond[1], start) = EvalContext(s, cond[1], start)
    BY <1>3 DEF EvalFirst, EvalContext
  <2>2. Binds(start, cond, 1 .. 1 - 1)
    BY DEF Binds
  <2>3. QED
    BY <1>1, <1>3, <2>1, <2>2, RowOrdered DEF InOrder
<1>4. QED
  BY <1>2, <1>3

LEMMA EvalOrdered ==
  ASSUME NEW s \in Seq(Fact), IsInjective(s), NEW cond \in Seq(Template), cond # <<>>,
         NEW start \in Bindings
  PROVE  OrderedBy(Eval(s, cond, start), OlderPairs(s, cond, Len(cond)))
<1> DEFINE N == Len(cond)
<1>1. N \in Nat \ {0}
  BY EmptySeq
<1>2. PICK r \in [1 .. N -> Seq(Bindings)] : EvaluatedBy(r, s, cond, start)
  BY RoundsExist
<1> DEFINE T == {n \in 0 .. N : n = 0 \/ InOrder(r[n], s, cond, n)}
<1>3. 0 \in T
  BY <1>1
<1>4. ASSUME NEW n \in 1 .. N, n - 1 \in T
      PROVE  n \in T
  <2>1. CASE n = 1
    <3>1. InOrder(EvalFirst(s, cond[1], start), s, cond, 1)
      BY FirstOrdered
    <3>2. QED
      BY <1>2, <2>1, <3>1 DEF EvaluatedBy
  <2>2. CASE n # 1
    <3>1. n \in 2 .. N /\ n - 1 \in 1 .. N /\ n - 1 # 0
      BY <1>1, <2>2
    <3>2. r[n - 1] \in Seq(Bindings) /\ InOrder(r[n - 1], s, cond, n - 1)
      BY <1>2, <1>4, <3>1
    <3>3. r[n] = EvalArray(s, cond[n], r[n - 1])
      BY <1>2, <3>1 DEF EvaluatedBy
    <3>4. InOrder(EvalArray(s, cond[n], r[n - 1]), s, cond, n)
      BY <3>2, RoundOrdered
    <3>5. QED
      BY <3>3, <3>4
  <2>3. QED
    BY <2>1, <2>2
<1> HIDE DEF T
<1>5. \A n \in 0 .. N : n \in T
  BY <1>1, <1>3, <1>4, BoundedInduction
<1>6. N \in 0 .. N /\ N # 0
  BY <1>1
<1>7. QED
  BY <1>2, <1>5, <1>6 DEF T, EvaluatedBy, InOrder

\* The places decide, and so no context comes twice.
LEMMA EvalDiffers ==
  ASSUME NEW s \in Seq(Fact), IsInjective(s), NEW cond \in Seq(Template), cond # <<>>,
         NEW start \in Bindings
  PROVE  IsInjective(Eval(s, cond, start))
<1> DEFINE bs == Eval(s, cond, start)
           N == Len(cond)
<1>1. PICK r \in [1 .. N -> Seq(Bindings)] : EvaluatedBy(r, s, cond, start)
  BY RoundsExist
<1>2. bs \in Seq(Bindings)
  <2>1. N \in 1 .. N
    BY EmptySeq
  <2>2. QED
    BY <1>1, <2>1 DEF EvaluatedBy
<1>3. OrderedBy(bs, OlderPairs(s, cond, N))
  BY EvalOrdered
<1> HIDE DEF bs
<1>4. ASSUME NEW b, <<b, b>> \in OlderPairs(s, cond, N)
      PROVE  FALSE
  <2>1. PICK i \in 1 .. N : /\ PlaceOf(s, cond[i], b) \in Nat
                            /\ PlaceOf(s, cond[i], b) < PlaceOf(s, cond[i], b)
    BY <1>4 DEF OlderPairs
  <2>2. QED
    BY <2>1
<1>5. ASSUME NEW k \in DOMAIN bs, NEW l \in DOMAIN bs, bs[k] = bs[l], k # l
      PROVE  FALSE
  <2>1. k \in Nat /\ l \in Nat
    BY <1>2
  <2>2. k < l \/ l < k
    BY <1>5, <2>1
  <2>3. PICK b : b = bs[k] /\ b = bs[l]
    BY <1>5
  <2>4. <<b, b>> \in OlderPairs(s, cond, N)
    BY <1>3, <2>2, <2>3 DEF OrderedBy
  <2>5. QED
    BY <1>4, <2>4
<1>6. QED
  BY <1>5 DEF IsInjective, bs

LEMMA PairsAreOlder ==
  ASSUME NEW s, NEW cond \in Seq(Template), NEW b, NEW c,
         <<b, c>> \in OlderPairs(s, cond, Len(cond))
  PROVE  Older(s, cond, b, c)
<1>1. PICK i \in 1 .. Len(cond) :
        /\ ~ IsPredicate(cond[i])
        /\ PlaceOf(s, cond[i], b) < PlaceOf(s, cond[i], c)
        /\ SamePlaces(s, cond, 1 .. i - 1, b, c)
  BY DEF OlderPairs
<1>2. i \in BeliefsOf(cond) /\ \A j \in BeliefsOf(cond) : j < i => j \in 1 .. i - 1 /\ ~ IsPredicate(cond[j])
  BY <1>1 DEF BeliefsOf
<1>3. QED
  BY <1>1, <1>2 DEF Older, SamePlaces

(***************************************************************************)
(* What Condition::eval returns, for every condition and every knowledge   *)
(* base that threads build one change at a time.                           *)
(***************************************************************************)
\* A belief stands once in the knowledge base.
JoinInv ==
  /\ base \in Seq(Facts) /\ IsInjective(base)
  /\ condition \in Conditions

\* assert_belief stores no belief twice, and retract_belief doubles none.
THEOREM JoinInvariant == JoinSpec => []JoinInv
<1>1. JoinInit => JoinInv
  BY EmptyHolds DEF JoinInit, JoinInv
<1>2. JoinInv /\ [JoinNext]_<<base, condition>> => JoinInv'
  <2> SUFFICES ASSUME JoinInv, [JoinNext]_<<base, condition>>
               PROVE  JoinInv'
    OBVIOUS
  <2>1. ASSUME NEW f \in Facts, JoinAsserts(f)
        PROVE  JoinInv'
    <3>1. f \notin ToSet(base) /\ base' = Append(base, f) /\ condition' = condition
      BY <2>1 DEF JoinAsserts, Contains, ToSet
    <3>2. IsInjective(Append(base, f)) /\ Append(base, f) \in Seq(Facts)
      BY <3>1, AppendHolds DEF JoinInv
    <3>3. QED
      BY <3>1, <3>2 DEF JoinInv, IsInjective
  <2>2. ASSUME NEW i \in DOMAIN base, JoinRetracts(i)
        PROVE  JoinInv'
    <3>1. IsInjective(RemoveAt(base, i)) /\ RemoveAt(base, i) \in Seq(Facts)
      BY RemoveHolds DEF JoinInv
    <3>2. QED
      BY <2>2, <3>1 DEF JoinInv, JoinRetracts, IsInjective
  <2>3. CASE UNCHANGED <<base, condition>>
    BY <2>3 DEF JoinInv, IsInjective
  <2>4. QED
    BY <2>1, <2>2, <2>3 DEF JoinNext
<1>3. QED
  BY <1>1, <1>2, PTL DEF JoinSpec

LEMMA JoinTypes ==
  ASSUME JoinInv
  PROVE  /\ base \in Seq(Fact) /\ IsInjective(base)
         /\ condition \in Seq(Template) /\ condition # <<>>
         /\ \A i \in DOMAIN condition : IsPredicate(condition[i]) => Len(condition[i].terms) >= 2
<1>1. \A x \in Facts : x \in Fact
  BY JoinAssumption
<1>2. base \in Seq(Fact)
  BY <1>1 DEF JoinInv
<1>3. QED
  BY <1>2, JoinAssumption DEF JoinInv

\* eval returns the solutions, all of them and each once (condition.cpp:37-120).
THEOREM EvalReturnsSolutions == JoinSpec => []EvalIsSolutions
<1>1. ASSUME JoinInv
      PROVE  EvalIsSolutions
  <2> SUFFICES ASSUME NEW start \in Bindings, ~ IsPredicate(condition[1]),
                      WellOrdered(condition, DOMAIN start)
               PROVE  /\ ToSet(Eval(base, condition, start)) =
                           Solutions(ToSet(base), condition, start)
                      /\ IsInjective(Eval(base, condition, start))
    BY DEF EvalIsSolutions
  <2>1. /\ base \in Seq(Fact) /\ IsInjective(base)
        /\ condition \in Seq(Template) /\ condition # <<>>
        /\ \A i \in DOMAIN condition : IsPredicate(condition[i]) => Len(condition[i].terms) >= 2
    BY <1>1, JoinTypes
  <2>2. Evaluable(condition, start)
    BY <2>1 DEF Evaluable
  <2>3. ToSet(Eval(base, condition, start)) = Solutions(ToSet(base), condition, start)
    BY <2>1, <2>2, EvalSolves
  <2>4. IsInjective(Eval(base, condition, start))
    BY <2>1, EvalDiffers
  <2>5. QED
    BY <2>3, <2>4
<1>2. QED
  BY <1>1, JoinInvariant, PTL

\* Its first context, which the intention gets, uses the oldest beliefs (engine.cpp:242).
THEOREM FirstUsesOldest == JoinSpec => []FirstIsOldest
<1>1. ASSUME JoinInv
      PROVE  FirstIsOldest
  <2> SUFFICES ASSUME NEW start \in Bindings,
                      NEW i \in DOMAIN Eval(base, condition, start) \ {1}
               PROVE  Older(base, condition, Eval(base, condition, start)[1],
                            Eval(base, condition, start)[i])
    BY DEF FirstIsOldest
  <2>1. /\ base \in Seq(Fact) /\ IsInjective(base)
        /\ condition \in Seq(Template) /\ condition # <<>>
    BY <1>1, JoinTypes
  <2>2. PICK r \in [1 .. Len(condition) -> Seq(Bindings)] :
          EvaluatedBy(r, base, condition, start)
    BY <2>1, RoundsExist
  <2>3. Eval(base, condition, start) \in Seq(Bindings)
    <3>1. Len(condition) \in 1 .. Len(condition)
      BY <2>1, EmptySeq
    <3>2. QED
      BY <2>2, <3>1 DEF EvaluatedBy
  <2>4. 1 \in DOMAIN Eval(base, condition, start) /\ 1 < i
    BY <2>3
  <2>5. OrderedBy(Eval(base, condition, start), OlderPairs(base, condition, Len(condition)))
    BY <2>1, EvalOrdered
  <2>6. <<Eval(base, condition, start)[1], Eval(base, condition, start)[i]>>
          \in OlderPairs(base, condition, Len(condition))
    BY <2>4, <2>5 DEF OrderedBy
  <2>7. QED
    BY <2>1, <2>6, PairsAreOlder
<1>2. QED
  BY <1>1, JoinInvariant, PTL

(***************************************************************************)
(* The invariant of the choice.                                            *)
(***************************************************************************)
\* Live contexts keep their variables.
LEMMA AllocateKeeps ==
  ASSUME TypeOK, NEW bs \in Seq(Bindings), Allocate(bs)
  PROVE  /\ \A c \in DOMAIN heap : c \in DOMAIN heap' /\ heap'[c] = heap[c]
         /\ \A k \in 1 .. Len(bs) : heap'[Fresh(Len(bs))[k]] = bs[k]
<1> DEFINE ids == Fresh(Len(bs))
<1>1. heap' = [c \in DOMAIN heap \cup ToSet(ids) |->
                 IF c \in DOMAIN heap THEN heap[c]
                 ELSE bs[CHOOSE k \in DOMAIN ids : ids[k] = c]]
  BY DEF Allocate
<1>2. Len(bs) \in Nat /\ CanAllocate(Len(bs))
  BY DEF Allocate
<1>3. /\ ids \in Seq(ContextIds) /\ DOMAIN ids = 1 .. Len(bs) /\ IsInjective(ids)
      /\ ToSet(ids) \cap DOMAIN heap = {}
  BY <1>2, FreshFree, FreeUnknown
<1> HIDE DEF ids
<1>4. ASSUME NEW k \in 1 .. Len(bs) PROVE heap'[ids[k]] = bs[k]
  <2>1. ids[k] \in ToSet(ids) /\ ids[k] \notin DOMAIN heap
    BY <1>3 DEF ToSet
  <2>2. (CHOOSE j \in DOMAIN ids : ids[j] = ids[k]) = k
    BY <1>3 DEF IsInjective
  <2>3. QED
    BY <1>1, <2>1, <2>2
<1>5. \A c \in DOMAIN heap : c \in DOMAIN heap' /\ heap'[c] = heap[c]
  BY <1>1
<1>6. QED
  BY <1>4, <1>5 DEF ids

LEMMA DeleteKeeps ==
  ASSUME NEW cs, Delete(cs)
  PROVE  \A c \in DOMAIN heap \ cs : c \in DOMAIN heap' /\ heap'[c] = heap[c]
BY DEF Delete, Restrict

LEMMA CallersKept ==
  ASSUME TypeOK, CallersInv, stack # <<>>, NEW g \in Frame, SetTop(g),
         g.pc = "empty" => Depth = 1
  PROVE  CallersInv' /\ top' = g /\ stack' # <<>> /\ Depth' = Depth
<1>1. /\ Depth \in DOMAIN stack /\ Depth \in Nat \ {0} /\ DOMAIN stack = 1 .. Depth
  BY TopFrame
<1>2. stack \in Seq(Frame)
  BY DEF TypeOK
<1>3. /\ stack' \in Seq(Frame) /\ Depth' = Depth /\ stack' # <<>>
      /\ DOMAIN stack' = DOMAIN stack
      /\ stack'[Depth] = g
      /\ \A d \in DOMAIN stack : d # Depth => stack'[d] = stack[d]
  BY <1>1, <1>2 DEF SetTop, Depth
<1>4. top' = g
  BY <1>3 DEF top, Last, Depth
<1>5. QED
  BY <1>1, <1>3, <1>4 DEF CallersInv, At

\* The fields of an intention.
LEMMA IntentionFields ==
  ASSUME NEW f \in Frame, NEW m \in DOMAIN f.intentions
  PROVE  /\ f.intentions[m].plan \in DOMAIN Plans /\ f.intentions[m].plan \in Nat
         /\ f.intentions[m].ctx \in ContextIds
<1> DEFINE R == [plan : DOMAIN Plans, ctx : ContextIds]
<1>1. f.intentions \in Seq(R)
  BY FrameSeqs
<1> HIDE DEF R
<1>2. f.intentions[m] \in R
  BY <1>1, ElementOfSeq
<1>3. DOMAIN Plans \subseteq Nat
  BY PlanAssumption
<1>4. QED
  BY <1>2, <1>3 DEF R

\* What the activation has chosen stays chosen.
LEMMA IntentionsKept ==
  ASSUME NEW f \in Frame, IntentionsInv(f), UNCHANGED kb,
         \A c \in ToSet(IntentionContexts(f)) : heap'[c] = heap[c],
         NEW g, g.seen = f.seen, g.steady = f.steady, g.evt = f.evt, g.plan = f.plan,
         g.intentions = f.intentions
  PROVE  IntentionsInv(g)'
<1>1. \A m \in DOMAIN f.intentions : heap'[f.intentions[m].ctx] = heap[f.intentions[m].ctx]
  BY DEF ToSet, IntentionContexts
<1>2. QED
  BY <1>1 DEF IntentionsInv

\* The next plan is tested when this one has no candidates among the steady beliefs.
LEMMA PlanRefused ==
  ASSUME NEW f \in Frame, IntentionsInv(f), f.plan \in DOMAIN Plans, UNCHANGED kb,
         \A c \in ToSet(IntentionContexts(f)) : heap'[c] = heap[c],
         Candidates(Plans[f.plan], f.evt, f.steady) = {},
         NEW g, g.seen = f.seen, g.steady = f.steady, g.evt = f.evt,
         g.plan = f.plan + 1, g.intentions = f.intentions
  PROVE  IntentionsInv(g)'
<1>1. \A m \in DOMAIN f.intentions : heap'[f.intentions[m].ctx] = heap[f.intentions[m].ctx]
  BY DEF ToSet, IntentionContexts
<1>2. f.plan \in Nat /\ \A m \in DOMAIN f.intentions : f.intentions[m].plan \in Nat
  <2>1. f.plan \in Nat
    BY DEF Frame
  <2>2. QED
    BY <2>1, IntentionFields
<1>3. \A m \in DOMAIN f.intentions : f.intentions[m].plan < f.plan =>
                                       f.intentions[m].plan < f.plan + 1
  BY <1>2
<1>4. \A m \in DOMAIN f.intentions :
        /\ f.intentions[m].plan < g.plan
        /\ \A n \in DOMAIN f.intentions :
             m < n => f.intentions[m].plan < f.intentions[n].plan
        /\ heap'[f.intentions[m].ctx] \in
             Candidates(Plans[f.intentions[m].plan], f.evt, f.seen)
  BY <1>1, <1>3 DEF IntentionsInv
<1>5. \A p \in 1 .. g.plan - 1 : Candidates(Plans[p], f.evt, f.steady) # {} =>
        \E m \in DOMAIN f.intentions : f.intentions[m].plan = p
  <2>1. ASSUME NEW p \in 1 .. g.plan - 1, Candidates(Plans[p], f.evt, f.steady) # {}
        PROVE  p \in 1 .. f.plan - 1
    <3>1. p \in 1 .. f.plan - 1 \/ p = f.plan
      BY <1>2
    <3>2. QED
      BY <2>1, <3>1
  <2>2. QED
    BY <2>1 DEF IntentionsInv
<1>6. f.steady \subseteq ToSet(kb) /\ ToSet(kb) \subseteq f.seen
  BY DEF IntentionsInv
<1>7. QED
  BY <1>4, <1>5, <1>6 DEF IntentionsInv

\* It gets an intention when it has a solution in beliefs that have been there.
LEMMA PlanChosen ==
  ASSUME NEW f \in Frame, IntentionsInv(f), f.plan \in DOMAIN Plans, UNCHANGED kb,
         \A c \in ToSet(IntentionContexts(f)) : heap'[c] = heap[c],
         NEW ctx, heap'[ctx] \in Candidates(Plans[f.plan], f.evt, f.seen),
         NEW g, g.seen = f.seen, g.steady = f.steady, g.evt = f.evt,
         g.plan = f.plan + 1,
         g.intentions = Append(f.intentions, [plan |-> f.plan, ctx |-> ctx])
  PROVE  IntentionsInv(g)'
<1> DEFINE s == f.intentions
           x == [plan |-> f.plan, ctx |-> ctx]
<1>1. \A m \in DOMAIN s : heap'[s[m].ctx] = heap[s[m].ctx]
  BY DEF ToSet, IntentionContexts
<1>2. s \in Seq([plan : DOMAIN Plans, ctx : ContextIds])
  BY FrameSeqs
<1>3. /\ Len(s) \in Nat /\ DOMAIN s = 1 .. Len(s) /\ DOMAIN g.intentions = 1 .. Len(s) + 1
      /\ \A m \in 1 .. Len(s) : g.intentions[m] = s[m]
      /\ g.intentions[Len(s) + 1] = x
  BY <1>2
<1>4. f.plan \in Nat /\ \A m \in DOMAIN s : s[m].plan \in Nat
  <2>1. f.plan \in Nat
    BY DEF Frame
  <2>2. QED
    BY <2>1, IntentionFields
<1>5. x.plan = f.plan /\ x.ctx = ctx
  OBVIOUS
<1> HIDE DEF s, x
<1>6. /\ \A m \in DOMAIN s : s[m].plan < f.plan
      /\ \A m, n \in DOMAIN s : m < n => s[m].plan < s[n].plan
      /\ \A m \in DOMAIN s : heap[s[m].ctx] \in Candidates(Plans[s[m].plan], f.evt, f.seen)
      /\ \A p \in 1 .. f.plan - 1 : Candidates(Plans[p], f.evt, f.steady) # {} =>
           \E m \in DOMAIN s : s[m].plan = p
      /\ f.steady \subseteq ToSet(kb) /\ ToSet(kb) \subseteq f.seen
  BY DEF IntentionsInv, s
<1>7. ASSUME NEW m \in DOMAIN g.intentions
      PROVE  /\ g.intentions[m].plan < g.plan
             /\ \A n \in DOMAIN g.intentions : m < n => g.intentions[m].plan < g.intentions[n].plan
             /\ heap'[g.intentions[m].ctx] \in
                  Candidates(Plans[g.intentions[m].plan], g.evt, g.seen)
  <2>1. CASE m \in DOMAIN s
    <3>1. g.intentions[m] = s[m] /\ s[m].plan < f.plan /\ s[m].plan \in Nat
      BY <1>3, <1>4, <1>6, <2>1
    <3>2. ASSUME NEW n \in DOMAIN g.intentions, m < n
          PROVE  s[m].plan < g.intentions[n].plan
      <4>1. n \in DOMAIN s \/ n = Len(s) + 1
        BY <1>3
      <4>2. QED
        BY <1>3, <1>5, <1>6, <2>1, <3>1, <3>2, <4>1
    <3>3. QED
      BY <1>1, <1>4, <1>6, <2>1, <3>1, <3>2, SMTT(40)
  <2>2. CASE m = Len(s) + 1
    <3>1. g.intentions[m] = x
      BY <1>3, <2>2
    <3>2. \A n \in DOMAIN g.intentions : ~ (m < n)
      BY <1>3, <2>2
    <3>3. QED
      BY <1>4, <1>5, <3>1, <3>2
  <2>3. QED
    BY <1>3, <2>1, <2>2
<1>8. ASSUME NEW p \in 1 .. g.plan - 1, Candidates(Plans[p], g.evt, g.steady) # {}
      PROVE  \E m \in DOMAIN g.intentions : g.intentions[m].plan = p
  <2>1. p \in 1 .. f.plan - 1 \/ p = f.plan
    BY <1>4
  <2>2. CASE p = f.plan
    <3>1. Len(s) + 1 \in DOMAIN g.intentions
      BY <1>3
    <3>2. QED
      BY <1>3, <1>5, <2>2, <3>1
  <2>3. CASE p \in 1 .. f.plan - 1
    <3>1. PICK m \in DOMAIN s : s[m].plan = p
      BY <1>6, <1>8, <2>3
    <3>2. QED
      BY <1>3, <3>1
  <2>4. QED
    BY <2>1, <2>2, <2>3
<1>9. QED
  BY <1>6, <1>7, <1>8 DEF IntentionsInv

\* Contexts of the evaluation that live on with their variables.
Keeps(f) == \A c \in {f.c} \cup ToSet(f.array) \cup ToSet(f.next) : heap'[c] = heap[c]

\* What an evaluation knows of its arrays in the loop over context_array.
LEMMA AtRound ==
  ASSUME NEW f \in Frame, EvaluationInv(f), f.idx \in DOMAIN f.array
  PROVE  /\ ~ IsPredicate(Head(Plans[f.plan].cond)) /\ RoundInv(f)
         /\ f.elem # 1 /\ f.idx \in Nat
<1>1. f.array # <<>>
  OBVIOUS
<1>2. f.array \in Seq(ContextIds)
  BY FrameSeqs
<1>3. f.idx \in Nat
  BY <1>2
<1>4. QED
  BY <1>1, <1>3 DEF EvaluationInv

\* A context that no solution agrees with is left behind.
LEMMA ContextLeft ==
  ASSUME NEW f \in Frame, EvaluationInv(f), f.idx \in DOMAIN f.array, Keeps(f),
         \A s \in Sought(f) : ~ Agrees(heap[f.array[f.idx]], s)
  PROVE  EvaluationInv([f EXCEPT !.idx = @ + 1])'
<1> DEFINE g == [f EXCEPT !.idx = @ + 1]
<1>1. /\ ~ IsPredicate(Head(Plans[f.plan].cond)) /\ RoundInv(f) /\ f.idx \in Nat
  BY AtRound
<1>2. /\ g.array = f.array /\ g.next = f.next /\ g.idx = f.idx + 1 /\ g.elem = f.elem
      /\ g.c = f.c /\ g.plan = f.plan /\ g.evt = f.evt /\ g.seen = f.seen
      /\ g.steady = f.steady
  BY DEF Frame
<1> HIDE DEF g
<1>3. /\ \A k \in DOMAIN f.array : heap'[f.array[k]] = heap[f.array[k]]
      /\ \A k \in DOMAIN f.next : heap'[f.next[k]] = heap[f.next[k]]
      /\ heap'[f.c] = heap[f.c]
  BY DEF Keeps, ToSet
<1>4. Sought(g) = Sought(f) /\ \A b, n : SolvesPrefix(g, b, n) = SolvesPrefix(f, b, n)
  BY <1>2 DEF Sought, SolvesPrefix
<1>5. ASSUME NEW s \in Sought(f), Reachable(f, s) PROVE Reachable(g, s)'
  <2>1. CASE \E k \in DOMAIN f.array : k >= f.idx /\ Agrees(heap[f.array[k]], s)
    <3>1. PICK k \in DOMAIN f.array : k >= f.idx /\ Agrees(heap[f.array[k]], s)
      BY <2>1
    <3>2. k # f.idx /\ k \in Nat
      BY <3>1, FrameSeqs
    <3>3. k >= g.idx
      BY <1>1, <1>2, <3>1, <3>2
    <3>4. QED
      BY <1>2, <1>3, <3>1, <3>3 DEF Reachable
  <2>2. CASE \E k \in DOMAIN f.next : Agrees(heap[f.next[k]], s)
    BY <1>2, <1>3, <2>2 DEF Reachable
  <2>3. QED
    BY <1>5, <2>1, <2>2 DEF Reachable
<1>6. RoundInv(g)'
  BY <1>1, <1>2, <1>3, <1>4, <1>5 DEF RoundInv
<1>7. QED
  BY <1>1, <1>2, <1>3, <1>6 DEF EvaluationInv, g

\* A context gives way to those that extend it.
LEMMA ContextMoved ==
  ASSUME NEW f \in Frame, EvaluationInv(f), f.idx \in DOMAIN f.array, Keeps(f),
         f.elem # Len(Plans[f.plan].cond) + 1,
         NEW cs \in Seq(ContextIds),
         \A k \in DOMAIN cs : SolvesPrefix(f, heap'[cs[k]], f.elem),
         \A s \in Sought(f) : Agrees(heap[f.array[f.idx]], s) =>
           \E k \in DOMAIN cs : Agrees(heap'[cs[k]], s)
  PROVE  EvaluationInv(Moved(f, cs))'
<1> DEFINE r == RemoveAt(f.array, f.idx)
           n == f.next \o cs
           g == Moved(f, cs)
<1>1. /\ ~ IsPredicate(Head(Plans[f.plan].cond)) /\ RoundInv(f) /\ f.idx \in Nat
      /\ f.elem # 1
  BY AtRound
<1>2. /\ g.array = r /\ g.next = n /\ g.idx = f.idx /\ g.elem = f.elem
      /\ g.c = f.c /\ g.plan = f.plan /\ g.evt = f.evt /\ g.seen = f.seen
      /\ g.steady = f.steady
  BY DEF Frame, Moved
<1> HIDE DEF g
<1>3. /\ \A k \in DOMAIN f.array : heap'[f.array[k]] = heap[f.array[k]]
      /\ \A k \in DOMAIN f.next : heap'[f.next[k]] = heap[f.next[k]]
      /\ heap'[f.c] = heap[f.c]
  BY DEF Keeps, ToSet
<1>4. Sought(g) = Sought(f) /\ \A b, m : SolvesPrefix(g, b, m) = SolvesPrefix(f, b, m)
  BY <1>2 DEF Sought, SolvesPrefix
<1>5. f.array \in Seq(ContextIds) /\ f.next \in Seq(ContextIds)
  BY FrameSeqs
<1>6. /\ \A j \in DOMAIN r : \E k \in DOMAIN f.array : r[j] = f.array[k]
      /\ \A k \in DOMAIN f.array : k > f.idx => k - 1 \in DOMAIN r /\ r[k - 1] = f.array[k]
  BY <1>5, RemoveShifts
<1>7. /\ DOMAIN n = 1 .. Len(f.next) + Len(cs)
      /\ \A k \in DOMAIN f.next : k \in DOMAIN n /\ n[k] = f.next[k]
      /\ \A k \in DOMAIN cs : Len(f.next) + k \in DOMAIN n /\ n[Len(f.next) + k] = cs[k]
      /\ \A j \in DOMAIN n : \/ \E k \in DOMAIN f.next : n[j] = f.next[k]
                             \/ \E k \in DOMAIN cs : n[j] = cs[k]
  <2>1. /\ DOMAIN n = 1 .. Len(f.next) + Len(cs) /\ Len(f.next) \in Nat /\ Len(cs) \in Nat
        /\ DOMAIN f.next = 1 .. Len(f.next) /\ DOMAIN cs = 1 .. Len(cs)
        /\ \A j \in DOMAIN n : n[j] = IF j <= Len(f.next) THEN f.next[j] ELSE cs[j - Len(f.next)]
    BY <1>5
  <2> HIDE DEF n
  <2>2. \A k \in DOMAIN f.next : k \in DOMAIN n /\ n[k] = f.next[k]
    BY <2>1
  <2>3. ASSUME NEW k \in DOMAIN cs
        PROVE  Len(f.next) + k \in DOMAIN n /\ n[Len(f.next) + k] = cs[k]
    <3>1. /\ Len(f.next) + k \in DOMAIN n /\ ~ (Len(f.next) + k <= Len(f.next))
          /\ (Len(f.next) + k) - Len(f.next) = k
      BY <2>1
    <3>2. QED
      BY <2>1, <3>1
  <2>4. ASSUME NEW j \in DOMAIN n
        PROVE  \/ \E k \in DOMAIN f.next : n[j] = f.next[k]
               \/ \E k \in DOMAIN cs : n[j] = cs[k]
    <3>1. CASE j <= Len(f.next)
      BY <2>1, <3>1
    <3>2. CASE ~ (j <= Len(f.next))
      <4>1. j - Len(f.next) \in DOMAIN cs /\ n[j] = cs[j - Len(f.next)]
        BY <2>1, <3>2
      <4>2. QED
        BY <4>1
    <3>3. QED
      BY <3>1, <3>2
  <2>5. QED
    BY <2>1, <2>2, <2>3, <2>4
<1> HIDE DEF r, n
<1>8. \A j \in DOMAIN r : SolvesPrefix(f, heap'[r[j]], f.elem - 1)
  BY <1>1, <1>3, <1>6 DEF RoundInv
<1>9. \A j \in DOMAIN n : SolvesPrefix(f, heap'[n[j]], f.elem)
  BY <1>1, <1>3, <1>7 DEF RoundInv
<1>10. ASSUME NEW s \in Sought(f), Reachable(f, s) PROVE Reachable(g, s)'
  <2>1. CASE \E k \in DOMAIN f.array : k >= f.idx /\ Agrees(heap[f.array[k]], s)
    <3>1. PICK k \in DOMAIN f.array : k >= f.idx /\ Agrees(heap[f.array[k]], s)
      BY <2>1
    <3>2. k \in Nat
      BY <1>5
    <3>3. CASE k = f.idx
      <4>1. PICK j \in DOMAIN cs : Agrees(heap'[cs[j]], s)
        BY <3>1, <3>3
      <4>2. Len(f.next) + j \in DOMAIN n /\ n[Len(f.next) + j] = cs[j]
        BY <1>7
      <4>3. QED
        BY <1>2, <4>1, <4>2 DEF Reachable
    <3>4. CASE k # f.idx
      <4>1. k > f.idx /\ k - 1 >= f.idx
        BY <1>1, <3>1, <3>2, <3>4
      <4>2. k - 1 \in DOMAIN r /\ r[k - 1] = f.array[k]
        BY <1>6, <4>1
      <4>3. Agrees(heap'[r[k - 1]], s)
        BY <1>3, <3>1, <4>2
      <4>4. QED
        BY <1>2, <4>1, <4>2, <4>3 DEF Reachable
    <3>5. QED
      BY <3>3, <3>4
  <2>2. CASE \E k \in DOMAIN f.next : Agrees(heap[f.next[k]], s)
    <3>1. PICK k \in DOMAIN f.next : Agrees(heap[f.next[k]], s)
      BY <2>2
    <3>2. k \in DOMAIN n /\ n[k] = f.next[k]
      BY <1>7
    <3>3. QED
      BY <1>2, <1>3, <3>1, <3>2 DEF Reachable
  <2>3. QED
    BY <1>10, <2>1, <2>2 DEF Reachable
<1>11. RoundInv(g)'
  BY <1>1, <1>2, <1>4, <1>8, <1>9, <1>10 DEF RoundInv
<1>12. QED
  BY <1>1, <1>2, <1>3, <1>11 DEF EvaluationInv, g

\* The condition under test, when it starts with a belief.
LEMMA StartIsBinding ==
  ASSUME NEW f \in Frame, f.plan \in DOMAIN Plans, Triggers(Plans[f.plan], f.evt)
  PROVE  /\ StartOf(Plans[f.plan], f.evt) \in Bindings
         /\ DOMAIN StartOf(Plans[f.plan], f.evt) = VarsOf(Plans[f.plan].trigger)
<1> DEFINE p == Plans[f.plan]
<1>1. p.trigger \in Template
  BY PlanElements
<1>2. f.evt.bel \in Fact
  <2>1. f.evt \in Event
    BY DEF Frame
  <2>2. f.evt.bel \in Beliefs \cup Reactors \cup Procedures
    BY <2>1 DEF Event
  <2>3. QED
    BY <2>2, FormulaAssumption
<1>3. Matches(p.trigger, f.evt.bel, NoBinding)
  BY DEF Triggers
<1>4. DOMAIN NoBinding = {}
  BY DEF NoBinding
<1> HIDE DEF p
<1>5. DOMAIN Extend(p.trigger, f.evt.bel, NoBinding) = DOMAIN NoBinding \cup VarsOf(p.trigger)
  BY <1>1, <1>2, <1>3, ExtendAdds
<1>6. Extend(p.trigger, f.evt.bel, NoBinding) \in Bindings
  BY <1>1, <1>2, <1>3, EmptyBinding, ExtendBinds
<1>7. QED
  BY <1>4, <1>5, <1>6 DEF StartOf, p

LEMMA EvaluationIsOrderly ==
  ASSUME OrderedPlans, NEW f \in Frame, f.plan \in DOMAIN Plans,
         Plans[f.plan].cond # <<>>, ~ IsPredicate(Head(Plans[f.plan].cond)),
         Triggers(Plans[f.plan], f.evt)
  PROVE  Evaluable(Plans[f.plan].cond, StartOf(Plans[f.plan], f.evt))
<1> DEFINE p == Plans[f.plan]
           start == StartOf(p, f.evt)
<1>1. p.cond \in Seq(Template)
  BY PlanElements
<1>2. start \in Bindings /\ DOMAIN start = VarsOf(p.trigger)
  BY StartIsBinding
<1>3. /\ WellOrdered(p.cond, VarsOf(p.trigger))
      /\ \A i \in DOMAIN p.cond : IsPredicate(p.cond[i]) => Len(p.cond[i].terms) >= 2
  BY DEF OrderedPlans
<1>4. QED
  BY <1>1, <1>2, <1>3 DEF Evaluable

\* What get_matching_beliefs finds for an element and a context: solutions of one
\* element more, and no solution that the context led to is missed.
LEMMA FoundSolves ==
  ASSUME OrderedPlans, TypeOK, NEW f \in Frame, f.plan \in DOMAIN Plans,
         IntentionsInv(f), EvaluationInv(f), ~ IsPredicate(Head(Plans[f.plan].cond)),
         NEW n \in 1 .. Len(Plans[f.plan].cond), ~ IsPredicate(Plans[f.plan].cond[n]),
         NEW b, SolvesPrefix(f, b, n - 1)
  PROVE  LET found == GetMatching(kb, Plans[f.plan].cond[n], b) IN
         /\ \A k \in DOMAIN found : SolvesPrefix(f, found[k], n)
         /\ \A s \in Sought(f) : Agrees(b, s) => \E k \in DOMAIN found : Agrees(found[k], s)
<1> DEFINE cond  == Plans[f.plan].cond
           start == StartOf(Plans[f.plan], f.evt)
           found == GetMatching(kb, cond[n], b)
<1>1. Evaluable(cond, start)
  BY EvaluationIsOrderly DEF EvaluationInv
<1>2. cond[n] \in Template
  BY <1>1 DEF Evaluable
<1>3. kb \in Seq(Fact) /\ f.steady \in SUBSET Fact /\ f.seen \subseteq Fact
      /\ f.steady \subseteq ToSet(kb) /\ ToSet(kb) \subseteq f.seen
  <2>1. kb \in Seq(Fact)
    BY FormulaAssumption, SeqMonotonic DEF TypeOK
  <2>2. f.steady \in SUBSET Fact /\ f.seen \subseteq Fact
    BY FormulaAssumption DEF Frame
  <2>3. QED
    BY <2>1, <2>2 DEF IntentionsInv
<1>4. b \in Solutions(f.seen, SubSeq(cond, 1, n - 1), start)
  BY DEF SolvesPrefix
<1>5. /\ \A k \in DOMAIN found : \E x \in ToSet(kb) :
           x \in Fact /\ Matches(cond[n], x, b) /\ found[k] = Extend(cond[n], x, b)
      /\ \A x \in ToSet(kb) : Matches(cond[n], x, b) =>
           \E k \in DOMAIN found : found[k] = Extend(cond[n], x, b)
  BY <1>2, <1>3, MatchingContents
<1> HIDE DEF found
<1>6. ASSUME NEW k \in DOMAIN found PROVE SolvesPrefix(f, found[k], n)
  <2>1. PICK x \in ToSet(kb) :
          x \in Fact /\ Matches(cond[n], x, b) /\ found[k] = Extend(cond[n], x, b)
    BY <1>5
  <2>2. x \in f.seen
    BY <1>3
  <2> HIDE DEF cond, start
  <2>3. found[k] \in Solutions(f.seen, SubSeq(cond, 1, n), start)
    <3>1. ~ IsPredicate(cond[n]) /\ n \in 1 .. Len(cond)
      BY DEF cond
    <3>2. QED
      BY <1>1, <1>4, <2>1, <2>2, <3>1, BeliefSolves
  <2>4. QED
    BY <2>3 DEF SolvesPrefix, cond, start
<1>7. ASSUME NEW s \in Sought(f), Agrees(b, s)
      PROVE  \E k \in DOMAIN found : Agrees(found[k], s)
  <2>1. s \in Solutions(f.steady, cond, start)
    BY DEF Sought
  <2>2. ~ IsPredicate(cond[n]) /\ n \in 1 .. Len(cond)
    OBVIOUS
  <2> HIDE DEF cond, start
  <2>3. PICK x \in f.steady : Matches(cond[n], x, b) /\ Agrees(Extend(cond[n], x, b), s)
    BY <1>1, <1>3, <1>7, <2>1, <2>2, BeliefReaches
  <2>4. QED
    BY <1>3, <1>5, <2>3
<1>8. QED
  BY <1>6, <1>7 DEF found

\* The same for a predicate, which keeps the context or drops it.
LEMMA TestSolves ==
  ASSUME OrderedPlans, NEW f \in Frame, f.plan \in DOMAIN Plans,
         EvaluationInv(f), ~ IsPredicate(Head(Plans[f.plan].cond)),
         NEW n \in 1 .. Len(Plans[f.plan].cond), IsPredicate(Plans[f.plan].cond[n]),
         NEW b, SolvesPrefix(f, b, n - 1)
  PROVE  /\ Holds(Plans[f.plan].cond[n], b) => SolvesPrefix(f, b, n)
         /\ \A s \in Sought(f) : Agrees(b, s) => Holds(Plans[f.plan].cond[n], b)
<1> DEFINE cond  == Plans[f.plan].cond
           start == StartOf(Plans[f.plan], f.evt)
<1>1. Evaluable(cond, start)
  BY EvaluationIsOrderly DEF EvaluationInv
<1>2. b \in Solutions(f.seen, SubSeq(cond, 1, n - 1), start)
  BY DEF SolvesPrefix
<1>3. IsPredicate(cond[n]) /\ n \in 1 .. Len(cond)
  OBVIOUS
<1>4. Sought(f) = Solutions(f.steady, cond, start)
  BY DEF Sought
<1>5. \A x : SolvesPrefix(f, x, n) = (x \in Solutions(f.seen, SubSeq(cond, 1, n), start))
  BY DEF SolvesPrefix
<1> HIDE DEF cond, start
<1>6. Holds(cond[n], b) => b \in Solutions(f.seen, SubSeq(cond, 1, n), start)
  BY <1>1, <1>2, <1>3, PredicateSolves
<1>7. \A s \in Solutions(f.steady, cond, start) : Agrees(b, s) => Holds(cond[n], b)
  BY <1>1, <1>2, <1>3, PredicateReaches
<1>8. QED
  BY <1>4, <1>5, <1>6, <1>7 DEF cond

(***************************************************************************)
(* The steps of the first loop, again.                                     *)
(***************************************************************************)
LEMMA AtSelect ==
  ASSUME CycleInv, SelectionInv, stack # <<>>, Selecting(top)
  PROVE  /\ TypeOK /\ top \in Frame /\ CallersInv /\ IntentionsInv(top)
         /\ \A c \in ToSet(IntentionContexts(top)) : c \in DOMAIN heap
         /\ ToSet(IntentionContexts(top)) \cap
              ({top.c} \cup ToSet(top.array) \cup ToSet(top.next)) = {}
         /\ \A c \in ToSet(top.array) \cup ToSet(top.next) : c \in DOMAIN heap
         /\ top.pc = "eval" => top.c \in DOMAIN heap /\ EvaluationInv(top)
<1>1. /\ TypeOK /\ top \in Frame /\ HeldOnce(top) /\ Held(top) \subseteq DOMAIN heap
      /\ top.pc = "eval" => top.c # NoContext
  BY AtTop
<1>2. CallersInv /\ IntentionsInv(top) /\ (top.pc = "eval" => EvaluationInv(top))
  BY DEF SelectionInv, At
<1>3. QED
  BY <1>1, <1>2 DEF Held, HeldOnce

LEMMA ToTest ==
  ASSUME CycleInv, SelectionInv, stack # <<>>, NEW g \in Frame, SetTop(g),
         g.pc = "test", IntentionsInv(g)'
  PROVE  SelectionInv'
<1>1. CallersInv' /\ top' = g
  BY CallersKept DEF CycleInv, SelectionInv
<1>2. QED
  BY <1>1 DEF SelectionInv, At

LEMMA ToEval ==
  ASSUME CycleInv, SelectionInv, stack # <<>>, NEW g \in Frame, SetTop(g),
         g.pc = "eval", IntentionsInv(g)', EvaluationInv(g)'
  PROVE  SelectionInv'
<1>1. CallersInv' /\ top' = g
  BY CallersKept DEF CycleInv, SelectionInv
<1>2. QED
  BY <1>1 DEF SelectionInv, At

LEMMA NextPlanChoice ==
  ASSUME NEW f \in Frame, f.plan \in DOMAIN Plans
  PROVE  LET g == NextPlan(f) IN
           /\ g \in Frame /\ g.pc = "test" /\ g.plan = f.plan + 1
           /\ g.seen = f.seen /\ g.steady = f.steady /\ g.evt = f.evt
           /\ g.intentions = f.intentions
<1>1. f.plan + 1 \in 1 .. Len(Plans) + 1
  BY PlanAssumption
<1>2. NextPlan(f) = [f EXCEPT !.pc = "test", !.plan = f.plan + 1, !.c = NoContext]
  BY DEF NextPlan
<1>3. QED
  BY <1>1, <1>2, ZenonT(40) DEF Frame

LEMMA NotTriggeredSelects ==
  ASSUME CycleInv, SelectionInv, NotTriggered
  PROVE  SelectionInv'
<1>1. /\ SetTop(NextPlan(top)) /\ UNCHANGED <<heap, objects, engineVars>> /\ stack # <<>>
      /\ top.pc = "test" /\ top.plan \in DOMAIN Plans /\ ~ Triggered
  BY DEF NotTriggered, TestPlan, At
<1>2. top \in Frame /\ IntentionsInv(top)
  BY <1>1, AtSelect DEF Selecting
<1>3. PICK g : g = NextPlan(top)
  OBVIOUS
<1>4. /\ g \in Frame /\ g.pc = "test" /\ g.plan = top.plan + 1
      /\ g.seen = top.seen /\ g.steady = top.steady /\ g.evt = top.evt
      /\ g.intentions = top.intentions
  BY <1>1, <1>2, <1>3, NextPlanChoice
<1>5. Candidates(Plans[top.plan], top.evt, top.steady) = {}
  <2>1. ~ Triggers(Plans[top.plan], top.evt)
    BY <1>1 DEF Triggers, Triggered, plan
  <2>2. QED
    BY <2>1 DEF Candidates
<1>6. UNCHANGED kb /\ UNCHANGED heap
  BY <1>1 DEF engineVars
<1>7. IntentionsInv(g)'
  BY <1>1, <1>2, <1>4, <1>5, <1>6, PlanRefused
<1>8. QED
  BY <1>1, <1>3, <1>4, <1>7, ToTest

LEMMA UnconditionalSelects ==
  ASSUME CycleInv, SelectionInv, Unconditional
  PROVE  SelectionInv'
<1> DEFINE start == StartOf(Plans[top.plan], top.evt)
           ctx   == Fresh(1)[1]
           x     == [plan |-> top.plan, ctx |-> ctx]
<1>1. /\ Allocate(<<start>>) /\ UNCHANGED engineVars /\ stack # <<>>
      /\ top.pc = "test" /\ top.plan \in DOMAIN Plans /\ Triggered /\ plan.cond = <<>>
      /\ SetTop([NextPlan(top) EXCEPT !.intentions = Append(@, x)])
  BY DEF Unconditional, TriggeredPlan, TestPlan, At, StartOf, plan
<1>2. /\ TypeOK /\ top \in Frame /\ IntentionsInv(top)
      /\ \A c \in ToSet(IntentionContexts(top)) : c \in DOMAIN heap
  BY <1>1, AtSelect DEF Selecting
<1>3. Triggers(Plans[top.plan], top.evt)
  BY <1>1 DEF Triggers, Triggered, plan
<1>4. start \in Bindings
  BY <1>1, <1>2, <1>3, StartIsBinding
<1>5. /\ <<start>> \in Seq(Bindings) /\ Len(<<start>>) = 1 /\ 1 \in 1 .. 1
      /\ <<start>>[1] = start
  BY <1>4
<1>6. ctx \in ContextIds
  BY <1>1, <1>2, <1>5, FreshOne DEF Allocate
<1>7. /\ \A c \in DOMAIN heap : heap'[c] = heap[c]
      /\ heap'[ctx] = start
  BY <1>1, <1>2, <1>5, AllocateKeeps
<1>8. start \in Candidates(Plans[top.plan], top.evt, top.seen)
  <2>1. CondVars(<<>>) = {}
    BY DEF CondVars, BeliefsOf
  <2>2. start \in [DOMAIN start \cup CondVars(<<>>) -> Values]
    BY <1>4, <2>1 DEF Bindings
  <2> HIDE DEF start
  <2>3. start \in Solutions(top.seen, <<>>, start)
    BY <2>2 DEF Solutions
  <2>4. QED
    BY <1>1, <1>3, <2>3 DEF Candidates, plan, start
<1> HIDE DEF start, ctx
<1>9. PICK n : n = NextPlan(top)
  OBVIOUS
<1>10. PICK g : g = [n EXCEPT !.intentions = Append(n.intentions, x)]
  OBVIOUS
<1>11. /\ n \in Frame /\ n.pc = "test" /\ n.plan = top.plan + 1
       /\ n.seen = top.seen /\ n.steady = top.steady /\ n.evt = top.evt
       /\ n.intentions = top.intentions
  BY <1>1, <1>2, <1>9, NextPlanChoice
<1>12. Append(n.intentions, x) \in Seq([plan : DOMAIN Plans, ctx : ContextIds])
  <2>1. x \in [plan : DOMAIN Plans, ctx : ContextIds]
    BY <1>1, <1>6
  <2>2. n.intentions \in Seq([plan : DOMAIN Plans, ctx : ContextIds])
    BY <1>11, FrameSeqs
  <2> HIDE DEF x
  <2>3. QED
    BY <2>1, <2>2, AppendProperties
<1>13. /\ g \in Frame /\ g.pc = "test" /\ g.plan = top.plan + 1
       /\ g.seen = top.seen /\ g.steady = top.steady /\ g.evt = top.evt
       /\ g.intentions = Append(top.intentions, x)
  <2> HIDE DEF x
  <2>1. QED
    BY <1>10, <1>11, <1>12 DEF Frame
<1>14. UNCHANGED kb
  BY <1>1 DEF engineVars
<1>15. IntentionsInv(g)'
  <2>1. PICK c : c = ctx
    OBVIOUS
  <2>2. g.intentions = Append(top.intentions, [plan |-> top.plan, ctx |-> c])
    BY <1>13, <2>1
  <2>3. heap'[c] \in Candidates(Plans[top.plan], top.evt, top.seen)
    BY <1>7, <1>8, <2>1
  <2>4. QED
    BY <1>1, <1>2, <1>7, <1>13, <1>14, <2>2, <2>3, PlanChosen
<1>16. SetTop(g)
  BY <1>1, <1>9, <1>10
<1>17. QED
  BY <1>1, <1>13, <1>15, <1>16, ToTest

LEMMA ConditionalSelects ==
  ASSUME CycleInv, SelectionInv, Conditional
  PROVE  SelectionInv'
<1> DEFINE start == StartOf(Plans[top.plan], top.evt)
<1>1. /\ Allocate(<<start>>) /\ UNCHANGED engineVars /\ stack # <<>>
      /\ top.pc = "test" /\ top.plan \in DOMAIN Plans /\ Triggered /\ plan.cond # <<>>
      /\ SetTop([top EXCEPT !.pc = "eval", !.c = Fresh(1)[1], !.elem = 1,
                            !.array = <<>>, !.next = <<>>, !.idx = 1])
  BY DEF Conditional, TriggeredPlan, TestPlan, At, StartOf, plan
<1>2. /\ TypeOK /\ top \in Frame /\ IntentionsInv(top)
      /\ \A c \in ToSet(IntentionContexts(top)) : c \in DOMAIN heap
  BY <1>1, AtSelect DEF Selecting
<1>3. Triggers(Plans[top.plan], top.evt)
  BY <1>1 DEF Triggers, Triggered, plan
<1>4. start \in Bindings
  BY <1>1, <1>2, <1>3, StartIsBinding
<1>5. /\ <<start>> \in Seq(Bindings) /\ Len(<<start>>) = 1 /\ 1 \in 1 .. 1
      /\ <<start>>[1] = start
  BY <1>4
<1>6. PICK ctx : ctx = Fresh(1)[1]
  OBVIOUS
<1>7. ctx \in ContextIds
  BY <1>1, <1>2, <1>5, <1>6, FreshOne DEF Allocate
<1>8. /\ \A c \in DOMAIN heap : heap'[c] = heap[c]
      /\ heap'[ctx] = start
  BY <1>1, <1>2, <1>5, <1>6, AllocateKeeps
<1>9. PICK g : g = [top EXCEPT !.pc = "eval", !.c = ctx, !.elem = 1,
                               !.array = <<>>, !.next = <<>>, !.idx = 1]
  OBVIOUS
<1>10. /\ g \in Frame /\ g.pc = "eval" /\ g.plan = top.plan /\ g.c = ctx /\ g.elem = 1
       /\ g.array = <<>> /\ g.next = <<>> /\ g.idx = 1
       /\ g.seen = top.seen /\ g.steady = top.steady /\ g.evt = top.evt
       /\ g.intentions = top.intentions
  <2>1. <<>> \in Seq(ContextIds)
    OBVIOUS
  <2>2. QED
    BY <1>2, <1>7, <1>9, <2>1 DEF Frame
<1>11. UNCHANGED kb
  BY <1>1 DEF engineVars
<1>12. IntentionsInv(g)'
  BY <1>2, <1>8, <1>10, <1>11, IntentionsKept
<1>13. RoundInv(g)'
  BY <1>10 DEF RoundInv
<1>14. EvaluationInv(g)'
  <2>1. heap'[g.c] = StartOf(Plans[g.plan], g.evt) /\ Plans[g.plan].cond # <<>>
    BY <1>1, <1>8, <1>10 DEF plan
  <2>2. QED
    BY <1>3, <1>10, <1>13, <2>1 DEF EvaluationInv
<1>15. SetTop(g)
  BY <1>1, <1>6, <1>9
<1>16. QED
  BY <1>1, <1>10, <1>12, <1>14, <1>15, ToEval

\* What the evaluation of a condition knows.
LEMMA AtEvaluation ==
  ASSUME CycleInv, SelectionInv, At("eval")
  PROVE  /\ stack # <<>> /\ TypeOK /\ top \in Frame /\ top.pc = "eval"
         /\ top.plan \in DOMAIN Plans /\ plan = Plans[top.plan]
         /\ plan.cond \in Seq(Template) /\ Len(plan.cond) \in Nat
         /\ IntentionsInv(top) /\ EvaluationInv(top)
         /\ \A c \in ToSet(IntentionContexts(top)) : c \in DOMAIN heap
         /\ ToSet(IntentionContexts(top)) \cap
              ({top.c} \cup ToSet(top.array) \cup ToSet(top.next)) = {}
         /\ \A c \in {top.c} \cup ToSet(top.array) \cup ToSet(top.next) : c \in DOMAIN heap
         /\ \A c \in DOMAIN heap : heap[c] \in Bindings
         /\ kb \in Seq(Fact)
         /\ PastLast = Len(plan.cond) + 1 /\ top.elem \in 1 .. PastLast
         /\ top.elem < PastLast => /\ top.elem \in 1 .. Len(plan.cond)
                                   /\ element = plan.cond[top.elem] /\ element \in Template
<1>1. /\ stack # <<>> /\ top.pc = "eval" /\ TypeOK /\ top \in Frame
      /\ top.plan \in DOMAIN Plans /\ plan = Plans[top.plan] /\ kb \in Seq(Fact)
      /\ PastLast = Len(plan.cond) + 1 /\ top.elem \in 1 .. PastLast
      /\ top.elem < PastLast => element \in Template
  BY AtEval
<1>2. plan.cond \in Seq(Template) /\ Len(plan.cond) \in Nat
  BY <1>1, PlanElements
<1>3. Selecting(top)
  BY <1>1 DEF Selecting
<1>4. top.elem < PastLast => top.elem \in 1 .. Len(plan.cond) /\ element = plan.cond[top.elem]
  BY <1>1, <1>2 DEF element
<1>5. \A c \in DOMAIN heap : heap[c] \in Bindings
  BY <1>1 DEF TypeOK
<1>6. QED
  BY <1>1, <1>2, <1>3, <1>4, <1>5, AtSelect

LEMMA FirstPredicateSelects ==
  ASSUME CycleInv, SelectionInv, FirstPredicate
  PROVE  SelectionInv'
<1>1. /\ At("eval") /\ UNCHANGED <<heap, objects, engineVars>>
      /\ top.elem = 1 /\ top.elem < PastLast /\ IsPredicate(element)
      /\ SetTop([top EXCEPT !.elem = IF Holds(element, heap[top.c]) THEN 2 ELSE PastLast])
  BY DEF FirstPredicate, Evaluating
<1>2. /\ stack # <<>> /\ top \in Frame /\ top.pc = "eval" /\ plan = Plans[top.plan]
      /\ IntentionsInv(top) /\ EvaluationInv(top) /\ element = plan.cond[1]
      /\ PastLast = Len(plan.cond) + 1 /\ Len(plan.cond) \in Nat
  BY <1>1, AtEvaluation
<1>3. PICK e : e = IF Holds(element, heap[top.c]) THEN 2 ELSE PastLast
  OBVIOUS
<1>4. e \in Nat
  BY <1>2, <1>3
<1>5. PICK g : g = [top EXCEPT !.elem = e]
  OBVIOUS
<1>6. /\ g \in Frame /\ g.pc = "eval" /\ g.plan = top.plan /\ g.c = top.c /\ g.elem = e
      /\ g.array = top.array /\ g.next = top.next /\ g.idx = top.idx
      /\ g.seen = top.seen /\ g.steady = top.steady /\ g.evt = top.evt
      /\ g.intentions = top.intentions
  BY <1>2, <1>4, <1>5 DEF Frame
<1>7. UNCHANGED kb /\ UNCHANGED heap
  BY <1>1 DEF engineVars
<1>8. IntentionsInv(g)'
  BY <1>2, <1>6, <1>7, IntentionsKept
<1>9. IsPredicate(Head(Plans[top.plan].cond))
  BY <1>1, <1>2 DEF EvaluationInv
<1>10. EvaluationInv(g)'
  BY <1>1, <1>2, <1>6, <1>7, <1>9 DEF EvaluationInv
<1>11. SetTop(g)
  BY <1>1, <1>3, <1>5
<1>12. QED
  BY <1>2, <1>6, <1>8, <1>10, <1>11, ToEval

LEMMA FirstBeliefSelects ==
  ASSUME OrderedPlans, CycleInv, SelectionInv, FirstBelief
  PROVE  SelectionInv'
<1>1. PICK found : found = GetMatching(kb, element, heap[top.c])
  OBVIOUS
<1>2. PICK ids : ids = Fresh(Len(found))
  OBVIOUS
<1>3. PICK e : e = IF found = <<>> THEN PastLast ELSE 2
  OBVIOUS
<1>4. PICK g : g = [top EXCEPT !.array = ids, !.elem = e]
  OBVIOUS
<1>5. /\ At("eval") /\ SetTop(g) /\ Allocate(found) /\ UNCHANGED engineVars
      /\ top.elem = 1 /\ top.elem < PastLast /\ ~ IsPredicate(element)
  BY <1>1, <1>2, <1>3, <1>4 DEF FirstBelief, Evaluating
<1>6. /\ stack # <<>> /\ TypeOK /\ top \in Frame /\ top.pc = "eval"
      /\ top.plan \in DOMAIN Plans /\ plan = Plans[top.plan]
      /\ plan.cond \in Seq(Template) /\ Len(plan.cond) \in Nat
      /\ IntentionsInv(top) /\ EvaluationInv(top)
      /\ \A c \in ToSet(IntentionContexts(top)) : c \in DOMAIN heap
      /\ top.c \in DOMAIN heap /\ heap[top.c] \in Bindings
      /\ kb \in Seq(Fact) /\ element \in Template
      /\ PastLast = Len(plan.cond) + 1 /\ 1 \in 1 .. Len(plan.cond)
      /\ element = plan.cond[1]
  BY <1>5, AtEvaluation
<1>7. found \in Seq(Bindings)
  BY <1>1, <1>6, MatchingBinds
<1>8. /\ ids \in Seq(ContextIds) /\ DOMAIN ids = 1 .. Len(found) /\ DOMAIN found = 1 .. Len(found)
      /\ Len(found) \in Nat
  BY <1>2, <1>5, <1>6, <1>7, FreshFree DEF Allocate
<1>9. /\ \A c \in DOMAIN heap : heap'[c] = heap[c]
      /\ \A k \in 1 .. Len(found) : heap'[ids[k]] = found[k]
  BY <1>2, <1>5, <1>6, <1>7, AllocateKeeps
<1>10. e \in Nat /\ e > 1 /\ e # 1
  BY <1>3, <1>6
<1>11. /\ g \in Frame /\ g.pc = "eval" /\ g.plan = top.plan /\ g.c = top.c /\ g.elem = e
       /\ g.array = ids /\ g.next = top.next /\ g.idx = top.idx
       /\ g.seen = top.seen /\ g.steady = top.steady /\ g.evt = top.evt
       /\ g.intentions = top.intentions
  BY <1>4, <1>6, <1>8, <1>10 DEF Frame
<1>12. UNCHANGED kb
  BY <1>5 DEF engineVars
<1>13. IntentionsInv(g)'
  BY <1>6, <1>9, <1>11, <1>12, IntentionsKept
<1>14. /\ ~ IsPredicate(Head(Plans[top.plan].cond)) /\ top.next = <<>>
       /\ heap[top.c] = StartOf(Plans[top.plan], top.evt)
       /\ Triggers(Plans[top.plan], top.evt) /\ Plans[top.plan].cond # <<>>
  BY <1>5, <1>6 DEF EvaluationInv
<1>15. SolvesPrefix(top, heap[top.c], 0)
  <2>1. Evaluable(Plans[top.plan].cond, StartOf(Plans[top.plan], top.evt))
    BY <1>6, <1>14, EvaluationIsOrderly
  <2>2. QED
    BY <1>14, <2>1, StartSolves DEF SolvesPrefix
<1>16. /\ \A k \in DOMAIN found : SolvesPrefix(top, found[k], 1)
       /\ \A s \in Sought(top) : Agrees(heap[top.c], s) =>
            \E k \in DOMAIN found : Agrees(found[k], s)
  <2>1. PICK b : b = heap[top.c]
    OBVIOUS
  <2>2. found = GetMatching(kb, Plans[top.plan].cond[1], b)
    BY <1>1, <1>6, <2>1
  <2>3. SolvesPrefix(top, b, 1 - 1) /\ ~ IsPredicate(Plans[top.plan].cond[1])
        /\ 1 \in 1 .. Len(Plans[top.plan].cond)
    BY <1>5, <1>6, <1>15, <2>1
  <2>4. QED
    BY <1>6, <1>14, <2>1, <2>2, <2>3, FoundSolves
<1>17. \A s \in Sought(top) : Agrees(heap[top.c], s)
  BY <1>14 DEF Sought, Solutions, Agrees
<1>18. Sought(g) = Sought(top) /\ \A b, n : SolvesPrefix(g, b, n) = SolvesPrefix(top, b, n)
  BY <1>11 DEF Sought, SolvesPrefix
<1>19. RoundInv(g)'
  <2>1. ASSUME NEW k \in DOMAIN g.array PROVE SolvesPrefix(g, heap'[g.array[k]], g.elem - 1)
    <3>1. found # <<>> /\ k \in DOMAIN found /\ g.array[k] = ids[k]
      BY <1>8, <1>11
    <3>2. g.elem - 1 = 1
      BY <1>3, <1>11, <3>1
    <3>3. QED
      BY <1>8, <1>9, <1>16, <1>18, <3>1, <3>2
  <2>2. DOMAIN g.next = {}
    BY <1>11, <1>14
  <2>3. ASSUME NEW s \in Sought(g) PROVE Reachable(g, s)'
    <3>1. PICK k \in DOMAIN found : Agrees(found[k], s)
      BY <1>16, <1>17, <1>18
    <3>2. k \in DOMAIN g.array /\ heap'[g.array[k]] = found[k] /\ k \in Nat /\ k >= 1
      BY <1>8, <1>9, <1>11
    <3>3. k >= g.idx
      BY <1>5, <1>6, <1>11, <3>2 DEF EvaluationInv
    <3>4. QED
      BY <3>1, <3>2, <3>3 DEF Reachable
  <2>4. QED
    BY <2>1, <2>2, <2>3 DEF RoundInv
<1>20. EvaluationInv(g)'
  BY <1>6, <1>9, <1>10, <1>11, <1>14, <1>19 DEF EvaluationInv
<1>21. QED
  BY <1>5, <1>6, <1>11, <1>13, <1>20, ToEval

\* The loop over context_array stands at one of its contexts.
LEMMA AtLoopContext ==
  ASSUME CycleInv, SelectionInv, AtContext
  PROVE  /\ At("eval") /\ top.idx \in DOMAIN top.array /\ top.elem < PastLast
         /\ top.elem > 1
         /\ context = top.array[top.idx] /\ context \in DOMAIN heap
         /\ ~ IsPredicate(Head(Plans[top.plan].cond))
         /\ SolvesPrefix(top, heap[context], top.elem - 1)
<1>1. At("eval") /\ top.idx \in DOMAIN top.array /\ top.elem < PastLast /\ top.elem > 1
  BY DEF AtContext, Evaluating
<1>2. /\ top \in Frame /\ EvaluationInv(top)
      /\ \A c \in {top.c} \cup ToSet(top.array) \cup ToSet(top.next) : c \in DOMAIN heap
  BY <1>1, AtEvaluation
<1>3. ~ IsPredicate(Head(Plans[top.plan].cond)) /\ RoundInv(top)
  BY <1>1, <1>2, AtRound
<1>4. context = top.array[top.idx] /\ context \in ToSet(top.array)
  BY <1>1 DEF context, ToSet
<1>5. SolvesPrefix(top, heap[context], top.elem - 1)
  BY <1>1, <1>3, <1>4 DEF RoundInv
<1>6. QED
  BY <1>1, <1>2, <1>3, <1>4, <1>5

\* The step of the loop for either kind of element: the context is left, or it gives way
\* to contexts that solve one element more and miss no solution.
LEMMA LoopSelects ==
  ASSUME CycleInv, SelectionInv, AtContext, UNCHANGED kb,
         \A c \in DOMAIN heap : heap'[c] = heap[c],
         NEW cs \in Seq(ContextIds), HeldOnce(Moved(top, cs)), Moved(top, cs) \in Frame,
         \/ ContextMatches(cs)
         \/ ContextFails /\ cs = <<>>,
         \A k \in DOMAIN cs : SolvesPrefix(top, heap'[cs[k]], top.elem),
         \A s \in Sought(top) : Agrees(heap[context], s) =>
           \E k \in DOMAIN cs : Agrees(heap'[cs[k]], s)
  PROVE  SelectionInv'
<1>1. /\ At("eval") /\ top.idx \in DOMAIN top.array /\ top.elem < PastLast
      /\ context = top.array[top.idx]
  BY AtLoopContext
<1>2. /\ stack # <<>> /\ top \in Frame /\ top.pc = "eval" /\ plan = Plans[top.plan]
      /\ IntentionsInv(top) /\ EvaluationInv(top)
      /\ \A c \in ToSet(IntentionContexts(top)) : c \in DOMAIN heap
      /\ \A c \in {top.c} \cup ToSet(top.array) \cup ToSet(top.next) : c \in DOMAIN heap
      /\ PastLast = Len(plan.cond) + 1 /\ top.elem \in 1 .. PastLast /\ Len(plan.cond) \in Nat
  BY <1>1, AtEvaluation
<1>3. Keeps(top)
  BY <1>2 DEF Keeps
<1>4. PICK f : f = top
  OBVIOUS
<1>5. CASE ContextMatches(cs)
  <2>1. PICK g : g = Moved(f, cs)
    OBVIOUS
  <2>2. /\ g \in Frame /\ g.pc = "eval" /\ g.plan = f.plan
        /\ g.seen = f.seen /\ g.steady = f.steady /\ g.evt = f.evt
        /\ g.intentions = f.intentions
    BY <1>2, <1>4, <2>1 DEF Moved, Frame
  <2>3. EvaluationInv(g)'
    <3>1. EvaluationInv(Moved(f, cs))'
      <4>1. f.elem # Len(Plans[f.plan].cond) + 1
        BY <1>1, <1>2, <1>4
      <4>2. QED
        BY <1>1, <1>2, <1>3, <1>4, <4>1, ContextMoved
    <3>2. QED
      BY <2>1, <3>1
  <2>4. IntentionsInv(g)'
    BY <1>2, <1>4, <2>2, IntentionsKept
  <2>5. SetTop(g)
    BY <1>4, <1>5, <2>1 DEF ContextMatches, Moved
  <2>6. QED
    BY <1>2, <2>2, <2>3, <2>4, <2>5, ToEval
<1>6. CASE ContextFails /\ cs = <<>>
  <2>1. PICK g : g = [f EXCEPT !.idx = @ + 1]
    OBVIOUS
  <2>0. f \in Frame
    BY <1>2, <1>4
  <2>2. /\ g \in Frame /\ g.pc = "eval" /\ g.plan = f.plan
        /\ g.seen = f.seen /\ g.steady = f.steady /\ g.evt = f.evt
        /\ g.intentions = f.intentions
    <3>1. f.idx + 1 \in Nat
      BY <2>0, SMTT(40) DEF Frame
    <3>2. QED
      BY <1>2, <1>4, <2>1, <3>1 DEF Frame
  <2>3. EvaluationInv(g)'
    <3>1. EvaluationInv([f EXCEPT !.idx = @ + 1])'
      <4>1. \A s \in Sought(f) : ~ Agrees(heap[f.array[f.idx]], s)
        BY <1>1, <1>4, <1>6
      <4>2. QED
        BY <1>1, <1>2, <1>3, <1>4, <4>1, ContextLeft
    <3>2. QED
      BY <2>1, <3>1
  <2>4. IntentionsInv(g)'
    BY <1>2, <1>4, <2>2, IntentionsKept
  <2>5. SetTop(g)
    BY <1>4, <1>6, <2>1 DEF ContextFails
  <2>6. QED
    BY <1>2, <2>2, <2>3, <2>4, <2>5, ToEval
<1>7. QED
  BY <1>5, <1>6

LEMMA NextPredicateSelects ==
  ASSUME OrderedPlans, CycleInv, SelectionInv, NextPredicate
  PROVE  SelectionInv'
<1>1. /\ AtContext /\ IsPredicate(element) /\ UNCHANGED <<heap, objects, engineVars>>
      /\ IF Holds(element, heap[context]) THEN ContextMatches(<<context>>) ELSE ContextFails
  BY DEF NextPredicate
<1>2. /\ At("eval") /\ top.idx \in DOMAIN top.array /\ top.elem < PastLast
      /\ context = top.array[top.idx] /\ context \in DOMAIN heap
      /\ ~ IsPredicate(Head(Plans[top.plan].cond))
      /\ SolvesPrefix(top, heap[context], top.elem - 1)
  BY <1>1, AtLoopContext
<1>3. /\ top \in Frame /\ top.plan \in DOMAIN Plans /\ plan = Plans[top.plan]
      /\ EvaluationInv(top) /\ TypeOK
      /\ top.elem \in 1 .. Len(plan.cond) /\ element = plan.cond[top.elem]
  BY <1>2, AtEvaluation
<1>4. UNCHANGED kb /\ \A c \in DOMAIN heap : heap'[c] = heap[c]
  BY <1>1 DEF engineVars
<1>5. /\ Holds(element, heap[context]) => SolvesPrefix(top, heap[context], top.elem)
      /\ \A s \in Sought(top) : Agrees(heap[context], s) => Holds(element, heap[context])
  <2>1. PICK b : b = heap[context]
    OBVIOUS
  <2>2. SolvesPrefix(top, b, top.elem - 1) /\ IsPredicate(Plans[top.plan].cond[top.elem])
        /\ top.elem \in 1 .. Len(Plans[top.plan].cond)
    BY <1>1, <1>2, <1>3, <2>1
  <2>3. QED
    BY <1>2, <1>3, <2>1, <2>2, TestSolves
<1>6. HeldOnce(top) /\ context \in ContextIds /\ context \in Held(top)
  BY <1>1, <1>2, AtEval, AtLoop
<1>7. ASSUME NEW cs \in Seq(ContextIds), IsInjective(cs), ToSet(cs) \subseteq {context}
      PROVE  HeldOnce(Moved(top, cs)) /\ Moved(top, cs) \in Frame
  <2>1. ToSet(cs) \cap (Held(top) \ {top.array[top.idx]}) = {}
    BY <1>2, <1>7
  <2>2. QED
    BY <1>2, <1>3, <1>6, <1>7, <2>1, MovedOn
<1>8. CASE Holds(element, heap[context])
  <2>1. PICK cs : cs = <<context>>
    OBVIOUS
  <2>2. /\ cs \in Seq(ContextIds) /\ ToSet(cs) = {context} /\ IsInjective(cs)
        /\ DOMAIN cs = {1} /\ cs[1] = context
    BY <1>6, <2>1 DEF ToSet, IsInjective
  <2>3. HeldOnce(Moved(top, cs)) /\ Moved(top, cs) \in Frame
    BY <1>7, <2>2
  <2>4. /\ \A k \in DOMAIN cs : SolvesPrefix(top, heap'[cs[k]], top.elem)
        /\ \A s \in Sought(top) : Agrees(heap[context], s) =>
             \E k \in DOMAIN cs : Agrees(heap'[cs[k]], s)
    BY <1>2, <1>4, <1>5, <1>8, <2>2
  <2>5. ContextMatches(cs)
    BY <1>1, <1>8, <2>1
  <2>6. QED
    BY <1>1, <1>4, <2>2, <2>3, <2>4, <2>5, LoopSelects
<1>9. CASE ~ Holds(element, heap[context])
  <2>1. PICK cs : cs = <<>>
    OBVIOUS
  <2>2. cs \in Seq(ContextIds) /\ ToSet(cs) \subseteq {context} /\ IsInjective(cs) /\ DOMAIN cs = {}
    BY <2>1, EmptyHolds
  <2>3. HeldOnce(Moved(top, cs)) /\ Moved(top, cs) \in Frame
    BY <1>7, <2>2
  <2>4. \A s \in Sought(top) : ~ Agrees(heap[context], s)
    BY <1>5, <1>9
  <2>5. ContextFails
    BY <1>1, <1>9
  <2>6. QED
    BY <1>1, <1>4, <2>1, <2>2, <2>3, <2>4, <2>5, LoopSelects
<1>10. QED
  BY <1>8, <1>9

LEMMA NextBeliefSelects ==
  ASSUME OrderedPlans, CycleInv, SelectionInv, NextBelief
  PROVE  SelectionInv'
<1>1. PICK found : found = GetMatching(kb, element, heap[context])
  OBVIOUS
<1>2. PICK ids : ids = Fresh(Len(found))
  OBVIOUS
<1>3. /\ AtContext /\ ~ IsPredicate(element) /\ Allocate(found) /\ UNCHANGED engineVars
      /\ IF found # <<>> THEN ContextMatches(ids) ELSE ContextFails
  BY <1>1, <1>2 DEF NextBelief
<1>4. /\ At("eval") /\ top.idx \in DOMAIN top.array /\ top.elem < PastLast
      /\ context = top.array[top.idx] /\ context \in DOMAIN heap
      /\ ~ IsPredicate(Head(Plans[top.plan].cond))
      /\ SolvesPrefix(top, heap[context], top.elem - 1)
  BY <1>3, AtLoopContext
<1>5. /\ top \in Frame /\ top.plan \in DOMAIN Plans /\ plan = Plans[top.plan]
      /\ IntentionsInv(top) /\ EvaluationInv(top) /\ TypeOK
      /\ kb \in Seq(Fact) /\ element \in Template /\ heap[context] \in Bindings
      /\ top.elem \in 1 .. Len(plan.cond) /\ element = plan.cond[top.elem]
  BY <1>4, AtEvaluation
<1>6. found \in Seq(Bindings)
  BY <1>1, <1>5, MatchingBinds
<1>7. /\ ids \in Seq(ContextIds) /\ DOMAIN ids = 1 .. Len(found) /\ DOMAIN found = 1 .. Len(found)
      /\ Len(found) \in Nat /\ IsInjective(ids) /\ ToSet(ids) \subseteq Free
  BY <1>2, <1>3, <1>5, <1>6, FreshFree DEF Allocate
<1>8. /\ \A c \in DOMAIN heap : heap'[c] = heap[c]
      /\ \A k \in 1 .. Len(found) : heap'[ids[k]] = found[k]
  BY <1>2, <1>3, <1>5, <1>6, AllocateKeeps
<1>9. /\ \A k \in DOMAIN found : SolvesPrefix(top, found[k], top.elem)
      /\ \A s \in Sought(top) : Agrees(heap[context], s) =>
           \E k \in DOMAIN found : Agrees(found[k], s)
  <2>1. PICK b : b = heap[context]
    OBVIOUS
  <2>2. found = GetMatching(kb, Plans[top.plan].cond[top.elem], b)
    BY <1>1, <1>5, <2>1
  <2>3. SolvesPrefix(top, b, top.elem - 1) /\ ~ IsPredicate(Plans[top.plan].cond[top.elem])
        /\ top.elem \in 1 .. Len(Plans[top.plan].cond)
    BY <1>3, <1>4, <1>5, <2>1
  <2>4. QED
    BY <1>4, <1>5, <2>1, <2>2, <2>3, FoundSolves
<1>10. HeldOnce(Moved(top, ids)) /\ Moved(top, ids) \in Frame
  <2>1. HeldOnce(top) /\ Held(top) \cap Free = {}
    BY <1>4, AtEval
  <2>2. ToSet(ids) \cap (Held(top) \ {top.array[top.idx]}) = {}
    BY <1>7, <2>1
  <2>3. QED
    BY <1>4, <1>5, <1>7, <2>1, <2>2, MovedOn
<1>11. UNCHANGED kb
  BY <1>3 DEF engineVars
<1>12. ContextMatches(ids) \/ (ContextFails /\ ids = <<>>)
  <2>1. CASE found # <<>>
    BY <1>3, <2>1
  <2>2. CASE found = <<>>
    <3>1. ids = <<>>
      BY <1>7, <2>2
    <3>2. QED
      BY <1>3, <2>2, <3>1
  <2>3. QED
    BY <2>1, <2>2
<1>13. /\ \A k \in DOMAIN ids : SolvesPrefix(top, heap'[ids[k]], top.elem)
       /\ \A s \in Sought(top) : Agrees(heap[context], s) =>
            \E k \in DOMAIN ids : Agrees(heap'[ids[k]], s)
  BY <1>7, <1>8, <1>9
<1>14. QED
  BY <1>3, <1>7, <1>8, <1>10, <1>11, <1>12, <1>13, LoopSelects

\* After the loop every solution is led to by a context of next_context_array.
LEMMA NextElementSelects ==
  ASSUME CycleInv, SelectionInv, NextElement
  PROVE  SelectionInv'
<1>1. PICK f : f = top
  OBVIOUS
<1>2. PICK e : e = IF f.next = <<>> THEN PastLast ELSE f.elem + 1
  OBVIOUS
<1>3. PICK g : g = [f EXCEPT !.array = f.next, !.next = <<>>, !.idx = 1, !.elem = e]
  OBVIOUS
<1>4. /\ At("eval") /\ SetTop(g) /\ Delete(ToSet(f.array)) /\ UNCHANGED engineVars
      /\ f.elem < PastLast /\ f.elem > 1 /\ f.idx \notin DOMAIN f.array
  BY <1>1, <1>2, <1>3 DEF NextElement, Evaluating
<1>5. /\ stack # <<>> /\ f \in Frame /\ f.pc = "eval" /\ plan = Plans[f.plan]
      /\ IntentionsInv(f) /\ EvaluationInv(f)
      /\ \A c \in ToSet(IntentionContexts(f)) : c \in DOMAIN heap
      /\ \A c \in {f.c} \cup ToSet(f.array) \cup ToSet(f.next) : c \in DOMAIN heap
      /\ ToSet(IntentionContexts(f)) \cap ({f.c} \cup ToSet(f.array) \cup ToSet(f.next)) = {}
      /\ PastLast = Len(plan.cond) + 1 /\ Len(plan.cond) \in Nat /\ f.elem \in 1 .. PastLast
  BY <1>1, <1>4, AtEvaluation
<1>6. HeldOnce(f)
  BY <1>1, <1>4, AtEval
<1>7. f.array \in Seq(ContextIds) /\ f.next \in Seq(ContextIds) /\ <<>> \in Seq(ContextIds)
  BY <1>5, FrameSeqs
<1>8. e \in Nat /\ e > 1
  BY <1>2, <1>4, <1>5
<1>9. /\ g \in Frame /\ g.pc = "eval" /\ g.plan = f.plan /\ g.c = f.c /\ g.elem = e
      /\ g.array = f.next /\ g.next = <<>> /\ g.idx = 1
      /\ g.seen = f.seen /\ g.steady = f.steady /\ g.evt = f.evt
      /\ g.intentions = f.intentions
  BY <1>3, <1>5, <1>7, <1>8 DEF Frame
<1>10. UNCHANGED kb
  BY <1>4 DEF engineVars
<1>11. /\ \A c \in ToSet(IntentionContexts(f)) : heap'[c] = heap[c]
       /\ \A k \in DOMAIN f.next : heap'[f.next[k]] = heap[f.next[k]]
       /\ heap'[f.c] = heap[f.c]
  <2>1. \A c \in DOMAIN heap \ ToSet(f.array) : heap'[c] = heap[c]
    BY <1>4, DeleteKeeps
  <2>2. \A c \in ToSet(f.next) \cup {f.c} : c \notin ToSet(f.array)
    BY <1>6 DEF HeldOnce
  <2>3. \A k \in DOMAIN f.next : f.next[k] \in ToSet(f.next)
    BY DEF ToSet
  <2>4. QED
    BY <1>5, <2>1, <2>2, <2>3
<1>12. IntentionsInv(g)'
  BY <1>5, <1>9, <1>10, <1>11, IntentionsKept
<1>13. Sought(g) = Sought(f) /\ \A b, n : SolvesPrefix(g, b, n) = SolvesPrefix(f, b, n)
  BY <1>9 DEF Sought, SolvesPrefix
<1>14. ASSUME RoundInv(f) PROVE RoundInv(g)'
  <2>1. ASSUME NEW k \in DOMAIN g.array PROVE SolvesPrefix(g, heap'[g.array[k]], g.elem - 1)
    <3>1. f.next # <<>> /\ k \in DOMAIN f.next /\ g.array[k] = f.next[k]
      BY <1>9
    <3>2. g.elem - 1 = f.elem
      BY <1>2, <1>5, <1>9, <3>1
    <3>3. QED
      BY <1>11, <1>13, <1>14, <3>1, <3>2 DEF RoundInv
  <2>2. ASSUME NEW s \in Sought(g) PROVE Reachable(g, s)'
    <3>1. Reachable(f, s)
      BY <1>4, <1>13, <1>14 DEF RoundInv
    <3>2. ASSUME NEW k \in DOMAIN f.array, k >= f.idx PROVE FALSE
      <4>1. f.idx > 0 /\ f.idx \in Nat
        BY <1>5 DEF EvaluationInv, Frame
      <4>2. f.idx \in DOMAIN f.array
        BY <1>7, <3>2, <4>1
      <4>3. QED
        BY <1>4, <4>2
    <3>3. PICK k \in DOMAIN f.next : Agrees(heap[f.next[k]], s)
      BY <3>1, <3>2 DEF Reachable
    <3>4. k \in DOMAIN g.array /\ k >= g.idx /\ heap'[g.array[k]] = heap[f.next[k]]
      BY <1>7, <1>9, <1>11
    <3>5. QED
      BY <3>3, <3>4 DEF Reachable
  <2>3. DOMAIN g.next = {}
    BY <1>9
  <2>4. QED
    BY <2>1, <2>2, <2>3 DEF RoundInv
<1>15. EvaluationInv(g)'
  <2>1. g.elem # 1
    BY <1>8, <1>9
  <2>2. /\ IsPredicate(Head(Plans[f.plan].cond)) => g.array = <<>>
        /\ ~ IsPredicate(Head(Plans[f.plan].cond)) => RoundInv(f)
    BY <1>5, <1>9 DEF EvaluationInv
  <2>3. QED
    BY <1>5, <1>9, <1>11, <1>14, <2>1, <2>2 DEF EvaluationInv
<1>16. QED
  BY <1>4, <1>5, <1>9, <1>12, <1>15, ToEval

\* No context is left: no solution is either.
LEMMA ConditionFalseSelects ==
  ASSUME CycleInv, SelectionInv, ConditionFalse
  PROVE  SelectionInv'
<1>1. PICK f : f = top
  OBVIOUS
<1>2. PICK g : g = NextPlan(f)
  OBVIOUS
<1>3. /\ At("eval") /\ SetTop(g) /\ Delete({f.c}) /\ UNCHANGED engineVars
      /\ f.elem = PastLast /\ f.array = <<>>
  BY <1>1, <1>2 DEF ConditionFalse, Evaluated
<1>4. /\ stack # <<>> /\ f \in Frame /\ f.plan \in DOMAIN Plans /\ plan = Plans[f.plan]
      /\ IntentionsInv(f) /\ EvaluationInv(f)
      /\ \A c \in ToSet(IntentionContexts(f)) : c \in DOMAIN heap
      /\ ToSet(IntentionContexts(f)) \cap ({f.c} \cup ToSet(f.array) \cup ToSet(f.next)) = {}
      /\ PastLast = Len(plan.cond) + 1 /\ plan.cond \in Seq(Template)
  BY <1>1, <1>3, AtEvaluation
<1>5. /\ g \in Frame /\ g.pc = "test" /\ g.plan = f.plan + 1
      /\ g.seen = f.seen /\ g.steady = f.steady /\ g.evt = f.evt
      /\ g.intentions = f.intentions
  BY <1>2, <1>4, NextPlanChoice
<1>6. UNCHANGED kb /\ \A c \in ToSet(IntentionContexts(f)) : heap'[c] = heap[c]
  BY <1>3, <1>4, DeleteKeeps DEF engineVars
<1>7. Candidates(Plans[f.plan], f.evt, f.steady) = {}
  <2>1. CASE IsPredicate(Head(Plans[f.plan].cond))
    BY <1>4, <2>1 DEF Candidates, EvaluationInv
  <2>2. CASE ~ IsPredicate(Head(Plans[f.plan].cond))
    <3>1. RoundInv(f) /\ f.next = <<>> /\ Plans[f.plan].cond # <<>>
      BY <1>3, <1>4, <2>2 DEF EvaluationInv
    <3>2. f.elem > 1
      BY <1>3, <1>4, <3>1
    <3>3. ASSUME NEW s \in Sought(f) PROVE FALSE
      BY <1>3, <3>1, <3>2 DEF RoundInv, Reachable
    <3>4. QED
      BY <3>3 DEF Sought, Candidates
  <2>3. QED
    BY <2>1, <2>2
<1>8. IntentionsInv(g)'
  BY <1>4, <1>5, <1>6, <1>7, PlanRefused
<1>9. QED
  BY <1>3, <1>4, <1>5, <1>8, ToTest

\* The first context solves the whole condition.
LEMMA ConditionTrueSelects ==
  ASSUME CycleInv, SelectionInv, ConditionTrue
  PROVE  SelectionInv'
<1>1. PICK f : f = top
  OBVIOUS
<1>2. PICK ctx : ctx = Head(f.array)
  OBVIOUS
<1> DEFINE x == [plan |-> f.plan, ctx |-> ctx]
<1>3. PICK n : n = NextPlan(f)
  OBVIOUS
<1>4. PICK g : g = [n EXCEPT !.array = <<>>, !.intentions = Append(@, x)]
  OBVIOUS
<1>5. /\ At("eval") /\ SetTop(g) /\ Delete(ToSet(Tail(f.array))) /\ UNCHANGED engineVars
      /\ f.elem = PastLast /\ f.array # <<>>
  BY <1>1, <1>2, <1>3, <1>4 DEF ConditionTrue, Evaluated
<1>6. /\ stack # <<>> /\ f \in Frame /\ f.plan \in DOMAIN Plans /\ plan = Plans[f.plan]
      /\ IntentionsInv(f) /\ EvaluationInv(f)
      /\ \A c \in ToSet(IntentionContexts(f)) : c \in DOMAIN heap
      /\ ToSet(IntentionContexts(f)) \cap ({f.c} \cup ToSet(f.array) \cup ToSet(f.next)) = {}
      /\ \A c \in {f.c} \cup ToSet(f.array) \cup ToSet(f.next) : c \in DOMAIN heap
      /\ PastLast = Len(plan.cond) + 1 /\ plan.cond \in Seq(Template)
  BY <1>1, <1>5, AtEvaluation
<1>7. HeldOnce(f) /\ f.array \in Seq(ContextIds) /\ <<>> \in Seq(ContextIds)
  BY <1>1, <1>5, <1>6, AtEval, FrameSeqs
<1>8. /\ ctx \in ToSet(f.array) /\ ctx \in ContextIds /\ ctx \notin ToSet(Tail(f.array))
      /\ ToSet(Tail(f.array)) \subseteq ToSet(f.array)
      /\ 1 \in DOMAIN f.array /\ ctx = f.array[1]
  BY <1>2, <1>5, <1>7, HeadHolds DEF HeldOnce
<1>9. /\ UNCHANGED kb
      /\ \A c \in ToSet(IntentionContexts(f)) : heap'[c] = heap[c]
      /\ heap'[ctx] = heap[ctx]
  <2>1. \A c \in DOMAIN heap \ ToSet(Tail(f.array)) : heap'[c] = heap[c]
    BY <1>5, DeleteKeeps
  <2>2. QED
    BY <1>5, <1>6, <1>8, <2>1 DEF engineVars
<1>10. heap[ctx] \in Candidates(Plans[f.plan], f.evt, f.seen)
  <2>1. /\ ~ IsPredicate(Head(Plans[f.plan].cond)) /\ RoundInv(f)
        /\ Triggers(Plans[f.plan], f.evt)
    BY <1>5, <1>6 DEF EvaluationInv
  <2>2. SolvesPrefix(f, heap[ctx], f.elem - 1)
    BY <1>8, <2>1 DEF RoundInv
  <2>3. SubSeq(Plans[f.plan].cond, 1, f.elem - 1) = Plans[f.plan].cond
    BY <1>5, <1>6
  <2>4. QED
    BY <2>1, <2>2, <2>3 DEF SolvesPrefix, Candidates
<1>11. /\ n \in Frame /\ n.pc = "test" /\ n.plan = f.plan + 1
       /\ n.seen = f.seen /\ n.steady = f.steady /\ n.evt = f.evt
       /\ n.intentions = f.intentions
  BY <1>3, <1>6, NextPlanChoice
<1>12. Append(n.intentions, x) \in Seq([plan : DOMAIN Plans, ctx : ContextIds])
  <2>1. x \in [plan : DOMAIN Plans, ctx : ContextIds]
    BY <1>6, <1>8
  <2>2. n.intentions \in Seq([plan : DOMAIN Plans, ctx : ContextIds])
    BY <1>11, FrameSeqs
  <2> HIDE DEF x
  <2>3. QED
    BY <2>1, <2>2, AppendProperties
<1>13. /\ g \in Frame /\ g.pc = "test" /\ g.plan = f.plan + 1
       /\ g.seen = f.seen /\ g.steady = f.steady /\ g.evt = f.evt
       /\ g.intentions = Append(f.intentions, x)
  <2> HIDE DEF x
  <2>1. QED
    BY <1>4, <1>7, <1>11, <1>12 DEF Frame
<1>14. IntentionsInv(g)'
  BY <1>6, <1>9, <1>10, <1>13, PlanChosen
<1>15. QED
  BY <1>5, <1>6, <1>13, <1>14, ToTest

(***************************************************************************)
(* The other steps, and the choice.                                        *)
(***************************************************************************)
\* A step after which the innermost activation has no plans to test.
LEMMA ToOther ==
  ASSUME CycleInv, SelectionInv, stack # <<>>, NEW g \in Frame, SetTop(g),
         g.pc \in {"run", "body", "clean", "empty"}, g.pc = "empty" => Depth = 1
  PROVE  SelectionInv'
<1>1. CallersInv' /\ top' = g
  BY CallersKept DEF CycleInv, SelectionInv
<1>2. QED
  BY <1>1 DEF SelectionInv, At, Selecting

LEMMA AllTestedSelects ==
  ASSUME CycleInv, SelectionInv, AllTested
  PROVE  SelectionInv'
<1>1. PICK g : g = [top EXCEPT !.pc = "run", !.seen = {}, !.steady = {}]
  OBVIOUS
<1>2. stack # <<>> /\ SetTop(g) /\ top \in Frame
  BY <1>1, AtTop DEF AllTested, At
<1>3. {} \in SUBSET Beliefs
  OBVIOUS
<1>4. g \in Frame /\ g.pc = "run"
  BY <1>1, <1>2, <1>3 DEF Frame
<1>5. QED
  BY <1>2, <1>4, ToOther

LEMMA BodyCutSelects ==
  ASSUME CycleInv, SelectionInv, BodyCut
  PROVE  SelectionInv'
<1>1. PICK g : g = [top EXCEPT !.pc = "run", !.i = top.i + 1]
  OBVIOUS
<1>2. stack # <<>> /\ SetTop(g) /\ top \in Frame
  BY <1>1, AtTop DEF BodyCut, InBody, At
<1>3. top.i + 1 \in Nat
  BY <1>2 DEF Frame
<1>4. g \in Frame /\ g.pc = "run"
  BY <1>1, <1>2, <1>3 DEF Frame
<1>5. QED
  BY <1>2, <1>4, ToOther

\* Steps that change no more than where the activation is.
LEMMA PcSelects ==
  ASSUME CycleInv, SelectionInv, stack # <<>>, NEW pc \in {"body", "clean"},
         SetTop([top EXCEPT !.pc = pc])
  PROVE  SelectionInv'
<1>1. PICK g : g = [top EXCEPT !.pc = pc]
  OBVIOUS
<1>2. top \in Frame
  BY AtTop
<1>3. g \in Frame /\ g.pc = pc
  BY <1>1, <1>2 DEF Frame
<1>4. SetTop(g)
  BY <1>1
<1>5. QED
  BY <1>3, <1>4, ToOther

\* A new activation has all plans to test and has seen what is there.
LEMMA NewFrameChoice ==
  ASSUME TypeOK, NEW g, NEW evt \in Event, g = NewFrame(evt), UNCHANGED kb
  PROVE  IntentionsInv(g)'
<1>1. /\ g.seen = ToSet(kb) /\ g.steady = ToSet(kb) /\ g.plan = 1 /\ g.intentions = <<>>
  BY DEF NewFrame
<1>2. 1 .. g.plan - 1 = {}
  BY <1>1
<1>3. QED
  BY <1>1, <1>2 DEF IntentionsInv

LEMMA PopEventSelects ==
  ASSUME CycleInv, SelectionInv, PopEvent
  PROVE  SelectionInv'
<1>1. PICK evt : evt = Head(event_queue)
  OBVIOUS
<1>2. PICK g : g = NewFrame(evt)
  OBVIOUS
<1>3. /\ TypeOK /\ event_queue # <<>> /\ stack' = <<g>> /\ UNCHANGED <<kb, heap>>
  BY <1>1, <1>2 DEF CycleInv, PopEvent
<1>4. evt \in Event
  BY <1>1, <1>3 DEF TypeOK
<1>5. g \in Frame /\ g.pc = "test"
  BY <1>2, <1>3, <1>4, NewFrameHolds
<1>6. /\ Depth' = 1 /\ DOMAIN stack' = {1} /\ top' = g
  BY <1>3 DEF Depth, top, Last
<1>7. IntentionsInv(g)'
  BY <1>2, <1>3, <1>4, NewFrameChoice
<1>8. CallersInv'
  BY <1>5, <1>6 DEF CallersInv, At
<1>9. QED
  BY <1>5, <1>6, <1>7, <1>8 DEF SelectionInv, At

LEMMA BodyCallSelects ==
  ASSUME CycleInv, SelectionInv, BodyCall
  PROVE  SelectionInv'
<1>1. PICK f \in Procedures : stack' = Append(stack, NewFrame([type |-> "call", bel |-> f]))
  BY DEF BodyCall
<1>2. PICK evt : evt = [type |-> "call", bel |-> f]
  OBVIOUS
<1>3. PICK g : g = NewFrame(evt)
  OBVIOUS
<1>4. /\ TypeOK /\ stack # <<>> /\ top.pc = "body" /\ UNCHANGED <<kb, heap>>
      /\ stack' = Append(stack, g)
  BY <1>1, <1>2, <1>3 DEF CycleInv, BodyCall, Statement, InBody, At
<1>5. evt \in Event
  BY <1>2 DEF Event
<1>6. g \in Frame /\ g.pc = "test"
  BY <1>3, <1>4, <1>5, NewFrameHolds
<1>7. /\ Depth \in DOMAIN stack /\ Depth \in Nat \ {0} /\ DOMAIN stack = 1 .. Depth
      /\ top = stack[Depth] /\ stack \in Seq(Frame)
  BY <1>4, TopFrame DEF TypeOK
<1>8. /\ Depth' = Depth + 1 /\ DOMAIN stack' = 1 .. Depth + 1 /\ stack' # <<>>
      /\ \A d \in 1 .. Depth : stack'[d] = stack[d]
      /\ stack'[Depth + 1] = g
  BY <1>4, <1>6, <1>7, AppendProperties DEF Depth
<1>9. top' = g
  BY <1>8 DEF top, Last, Depth
<1>10. IntentionsInv(g)'
  BY <1>3, <1>4, <1>5, NewFrameChoice
<1>11. CallersInv'
  <2>1. CallersInv
    BY DEF SelectionInv
  <2>2. ASSUME NEW d \in DOMAIN stack', d < Depth' PROVE stack'[d].pc = "body"
    <3>1. d \in 1 .. Depth /\ (d = Depth \/ d < Depth)
      BY <1>7, <1>8, <2>2
    <3>2. QED
      BY <1>4, <1>7, <1>8, <2>1, <3>1 DEF CallersInv
  <2>3. QED
    BY <1>6, <1>9, <2>2 DEF CallersInv, At
<1>12. QED
  BY <1>6, <1>9, <1>10, <1>11 DEF SelectionInv, At

LEMMA CleanSelects ==
  ASSUME CycleInv, SelectionInv, Clean
  PROVE  SelectionInv'
<1>1. /\ stack # <<>> /\ TypeOK /\ top \in Frame /\ CallersInv
      /\ IF Depth = 1
         THEN SetTop([top EXCEPT !.pc = "empty", !.intentions = <<>>])
         ELSE stack' = Front(stack)
  BY AtTop DEF Clean, At, SelectionInv
<1>2. CASE Depth = 1
  <2>1. PICK g : g = [top EXCEPT !.pc = "empty", !.intentions = <<>>]
    OBVIOUS
  <2>2. <<>> \in Seq([plan : DOMAIN Plans, ctx : ContextIds])
    OBVIOUS
  <2>3. g \in Frame /\ g.pc = "empty"
    BY <1>1, <2>1, <2>2 DEF Frame
  <2>4. SetTop(g)
    BY <1>1, <1>2, <2>1
  <2>5. QED
    BY <1>1, <1>2, <2>3, <2>4, ToOther
<1>3. CASE Depth # 1
  <2>1. /\ Depth \in DOMAIN stack /\ Depth \in Nat \ {0} /\ DOMAIN stack = 1 .. Depth
        /\ top = stack[Depth] /\ stack \in Seq(Frame)
    BY <1>1, TopFrame DEF TypeOK
  <2>2. /\ stack' = Front(stack) /\ Depth > 1
    BY <1>1, <1>3, <2>1
  <2>3. /\ Front(stack) \in Seq(Frame) /\ Len(Front(stack)) = Depth - 1
        /\ \A d \in 1 .. Depth - 1 : Front(stack)[d] = stack[d]
    BY <1>1, <2>1, FrontHolds DEF Depth
  <2>4. /\ Depth' = Depth - 1 /\ DOMAIN stack' = 1 .. Depth - 1
        /\ \A d \in 1 .. Depth - 1 : stack'[d] = stack[d] /\ stack[d].pc = "body"
    BY <1>1, <2>1, <2>2, <2>3 DEF Depth, CallersInv
  <2>5. top' = stack'[Depth - 1]
    BY <2>4 DEF top, Last, Depth
  <2>6. top'.pc = "body"
    BY <2>1, <2>2, <2>4, <2>5
  <2>7. CallersInv'
    BY <2>4, <2>6 DEF CallersInv, At
  <2>8. QED
    BY <2>6, <2>7 DEF SelectionInv, At, Selecting
<1>4. QED
  BY <1>2, <1>3

LEMMA EmptyCollectorSelects ==
  ASSUME EmptyCollector
  PROVE  SelectionInv'
<1>1. stack' = <<>>
  BY DEF EmptyCollector
<1>2. QED
  BY <1>1 DEF SelectionInv, CallersInv, At

\* What an activation notices makes its sets of beliefs looser.
LEMMA NoticeFields ==
  ASSUME NEW f \in Frame, NEW beliefs \in SUBSET Beliefs, NEW g, g = Notice(f, beliefs)
  PROVE  /\ g.evt = f.evt /\ g.pc = f.pc /\ g.plan = f.plan /\ g.c = f.c /\ g.elem = f.elem
         /\ g.array = f.array /\ g.idx = f.idx /\ g.next = f.next
         /\ g.intentions = f.intentions /\ g.i = f.i
         /\ Selecting(f) => g.seen = f.seen \cup beliefs /\ g.steady = f.steady \cap beliefs
         /\ ~ Selecting(f) => g.seen = f.seen /\ g.steady = f.steady
<1>1. f.seen \cup beliefs \in SUBSET Beliefs /\ f.steady \cap beliefs \in SUBSET Beliefs
  BY DEF Frame
<1>2. CASE Selecting(f)
  <2>1. g = [f EXCEPT !.seen = f.seen \cup beliefs, !.steady = f.steady \cap beliefs]
    BY <1>2 DEF Notice
  <2>2. QED
    BY <1>1, <1>2, <2>1 DEF Frame
<1>3. CASE ~ Selecting(f)
  BY <1>3 DEF Notice
<1>4. QED
  BY <1>2, <1>3

LEMMA IntentionsLoosen ==
  ASSUME NEW f \in Frame, IntentionsInv(f), UNCHANGED heap,
         NEW g, g.evt = f.evt, g.plan = f.plan, g.intentions = f.intentions,
         g.seen = f.seen \cup ToSet(kb'), g.steady = f.steady \cap ToSet(kb')
  PROVE  IntentionsInv(g)'
<1>1. ASSUME NEW m \in DOMAIN f.intentions
      PROVE  heap[f.intentions[m].ctx] \in Candidates(Plans[f.intentions[m].plan], g.evt, g.seen)
  BY CandidatesGrow DEF IntentionsInv
<1>2. ASSUME NEW p \in 1 .. f.plan - 1, Candidates(Plans[p], g.evt, g.steady) # {}
      PROVE  Candidates(Plans[p], f.evt, f.steady) # {}
  BY <1>2, CandidatesGrow
<1>3. QED
  BY <1>1, <1>2 DEF IntentionsInv

LEMMA EvaluationLoosens ==
  ASSUME NEW f \in Frame, EvaluationInv(f), UNCHANGED heap,
         NEW g, g.evt = f.evt, g.plan = f.plan, g.c = f.c, g.elem = f.elem,
         g.array = f.array, g.idx = f.idx, g.next = f.next,
         f.seen \subseteq g.seen, g.steady \subseteq f.steady
  PROVE  EvaluationInv(g)'
<1>1. ASSUME NEW b, NEW n, SolvesPrefix(f, b, n) PROVE SolvesPrefix(g, b, n)
  BY <1>1, SolutionsGrow DEF SolvesPrefix
<1>2. Sought(g) \subseteq Sought(f)
  BY SolutionsGrow DEF Sought
<1>3. \A s : Reachable(g, s)' <=> Reachable(f, s)
  BY DEF Reachable
<1>4. RoundInv(f) => RoundInv(g)'
  BY <1>1, <1>2, <1>3 DEF RoundInv
<1>5. QED
  BY <1>4 DEF EvaluationInv

LEMMA ClientCallSelects ==
  ASSUME CycleInv, SelectionInv, NEW t \in Clients, ClientCall(t), TypeOK'
  PROVE  SelectionInv'
<1>1. /\ TypeOK /\ CallersInv /\ UNCHANGED heap
      /\ stack' = [d \in DOMAIN stack |-> Notice(stack[d], ToSet(kb'))]
  BY DEF CycleInv, SelectionInv, ClientCall
<1>2. ToSet(kb') \in SUBSET Beliefs
  BY DEF ToSet, TypeOK
<1>3. stack \in Seq(Frame)
  BY <1>1 DEF TypeOK
<1>4. /\ DOMAIN stack' = DOMAIN stack /\ Depth' = Depth /\ (stack' = <<>> => stack = <<>>)
  BY <1>1, <1>3 DEF Depth, TypeOK
<1>5. ASSUME NEW d \in DOMAIN stack PROVE stack'[d].pc = stack[d].pc
  <2>1. PICK f : f = stack[d]
    OBVIOUS
  <2>2. PICK g : g = stack'[d]
    OBVIOUS
  <2>3. PICK bs : bs = ToSet(kb')
    OBVIOUS
  <2>4. f \in Frame /\ bs \in SUBSET Beliefs /\ g = Notice(f, bs)
    BY <1>1, <1>2, <1>3, <2>1, <2>2, <2>3, ElementOfSeq
  <2>5. QED
    BY <2>1, <2>2, <2>4, NoticeFields
<1>6. CASE stack = <<>>
  BY <1>1, <1>4, <1>5, <1>6 DEF SelectionInv, CallersInv, At
<1>7. CASE stack # <<>>
  <2>1. /\ Depth \in DOMAIN stack /\ top = stack[Depth] /\ top \in Frame
    BY <1>1, <1>7, TopFrame
  <2>2. PICK g : g = Notice(top, ToSet(kb'))
    OBVIOUS
  <2>3. top' = g
    BY <1>1, <1>4, <2>1, <2>2 DEF top, Last, Depth
  <2>4. CallersInv'
    BY <1>1, <1>4, <1>5, <1>7, <2>1, <2>3 DEF CallersInv, At, top, Last, Depth
  <2>5. /\ g.evt = top.evt /\ g.pc = top.pc /\ g.plan = top.plan /\ g.c = top.c
        /\ g.elem = top.elem /\ g.array = top.array /\ g.idx = top.idx /\ g.next = top.next
        /\ g.intentions = top.intentions
        /\ Selecting(top) => /\ g.seen = top.seen \cup ToSet(kb')
                             /\ g.steady = top.steady \cap ToSet(kb')
    <3>1. PICK f : f = top
      OBVIOUS
    <3>2. PICK bs : bs = ToSet(kb')
      OBVIOUS
    <3>3. f \in Frame /\ bs \in SUBSET Beliefs /\ g = Notice(f, bs)
      BY <1>2, <2>1, <2>2, <3>1, <3>2
    <3>4. QED
      BY <3>1, <3>2, <3>3, NoticeFields
  <2>6. CASE ~ Selecting(top)
    BY <2>3, <2>4, <2>5, <2>6 DEF SelectionInv, Selecting, At
  <2>7. CASE Selecting(top)
    <3>1. IntentionsInv(top) /\ (top.pc = "eval" => EvaluationInv(top))
      BY <1>7, <2>7 DEF SelectionInv, At
    <3>2. IntentionsInv(g)'
      BY <1>1, <2>1, <2>5, <2>7, <3>1, IntentionsLoosen
    <3>3. g.pc = "eval" => EvaluationInv(g)'
      BY <1>1, <2>1, <2>5, <2>7, <3>1, EvaluationLoosens
    <3>4. QED
      BY <2>3, <2>4, <3>2, <3>3 DEF SelectionInv, At
  <2>8. QED
    BY <2>6, <2>7
<1>8. QED
  BY <1>6, <1>7

\* A step that leaves the contexts, the activations and the beliefs they see.
LEMMA FramesSelect ==
  ASSUME SelectionInv, UNCHANGED <<heap, stack>>,
         UNCHANGED kb \/ (stack # <<>> /\ top.pc = "body")
  PROVE  SelectionInv'
<1>1. CallersInv'
  BY DEF SelectionInv, CallersInv, At, top, Depth
<1>2. UNCHANGED top
  BY DEF top
<1>3. CASE UNCHANGED kb
  <2>1. PICK g : g = top
    OBVIOUS
  <2>2. IntentionsInv(g) => IntentionsInv(g)'
    BY <1>3 DEF IntentionsInv
  <2>3. EvaluationInv(g) => EvaluationInv(g)'
    BY DEF EvaluationInv, RoundInv, Reachable
  <2>4. QED
    BY <1>1, <1>2, <2>1, <2>2, <2>3 DEF SelectionInv, At
<1>4. CASE stack # <<>> /\ top.pc = "body"
  BY <1>1, <1>2, <1>4 DEF SelectionInv, Selecting, At
<1>5. QED
  BY <1>3, <1>4

LEMMA SelectionInit ==
  ASSUME Init
  PROVE  SelectionInv
<1>1. stack = <<>> /\ DOMAIN stack = {}
  BY DEF Init
<1>2. QED
  BY <1>1 DEF SelectionInv, CallersInv, At

LEMMA SelectionNext ==
  ASSUME OrderedPlans, CycleInv, SelectionInv, [Next]_vars
  PROVE  SelectionInv'
<1>1. CASE PopEvent
  BY <1>1, PopEventSelects
<1>2. CASE Select
  <2>1. \/ NotTriggered \/ Unconditional \/ Conditional
        \/ FirstPredicate \/ FirstBelief
        \/ NextPredicate \/ NextBelief \/ NextElement
        \/ ConditionFalse \/ ConditionTrue
        \/ AllTested
    BY <1>2 DEF Select
  <2>2. QED
    BY <2>1, NotTriggeredSelects, UnconditionalSelects, ConditionalSelects,
       FirstPredicateSelects, FirstBeliefSelects, NextPredicateSelects, NextBeliefSelects,
       NextElementSelects, ConditionFalseSelects, ConditionTrueSelects, AllTestedSelects
<1>3. CASE Execute
  <2>1. CASE StartBody
    BY <2>1, PcSelects DEF StartBody, At
  <2>2. CASE BodyReturn \/ AllCut
    BY <2>2, PcSelects DEF BodyReturn, AllCut, InBody, At
  <2>3. QED
    BY <1>3, <2>1, <2>2, BodyCutSelects, CleanSelects, EmptyCollectorSelects DEF Execute
<1>4. CASE \E t \in Threads : Push(t)
  BY <1>4, FramesSelect DEF Push
<1>5. CASE BodyChange
  BY <1>5, FramesSelect DEF BodyChange, Statement, InBody, At
<1>6. CASE BodyCall
  BY <1>6, BodyCallSelects
<1>7. CASE \E t \in Clients : ClientCall(t)
  <2>1. TypeOK'
    BY CycleNext DEF CycleInv
  <2>2. QED
    BY <1>7, <2>1, ClientCallSelects
<1>8. CASE UNCHANGED vars
  BY <1>8, FramesSelect DEF vars
<1>9. QED
  BY <1>1, <1>2, <1>3, <1>4, <1>5, <1>6, <1>7, <1>8
     DEF Next, EngineStep, ClientStep, Threads

(***************************************************************************)
(* The meaning of plans and conditions is that of Engine.                  *)
(***************************************************************************)
LEMMA SameTerms ==
  /\ \A f : Promise!VarsOf(f) = VarsOf(f) /\ Promise!IsPredicate(f) = IsPredicate(f)
  /\ \A t, b : Promise!Val(t, b) = Val(t, b) /\ Promise!IsBound(t, b) = IsBound(t, b)
  /\ Promise!NoBinding = NoBinding
BY DEF Promise!VarsOf, Promise!IsPredicate, Promise!Val, Promise!IsBound, Promise!NoBinding,
       VarsOf, IsPredicate, Val, IsBound, NoBinding

LEMMA SameMatches ==
  /\ \A e, f, b : Promise!Extend(e, f, b) = Extend(e, f, b)
  /\ \A e, f, b : Promise!Matches(e, f, b) = Matches(e, f, b)
<1>1. ASSUME NEW e, NEW f, NEW b PROVE Promise!Extend(e, f, b) = Extend(e, f, b)
  BY SameTerms DEF Promise!Extend, Extend
<1>2. ASSUME NEW e, NEW f, NEW b PROVE Promise!Matches(e, f, b) = Matches(e, f, b)
  BY SameTerms, <1>1 DEF Promise!Matches, Matches
<1>3. QED
  BY <1>1, <1>2

LEMMA SameSatisfied ==
  \A beliefs, e, b : Promise!Satisfied(beliefs, e, b) = Satisfied(beliefs, e, b)
<1>1. ASSUME NEW e, NEW b PROVE Promise!Comparable(e, b) = Comparable(e, b)
  BY SameTerms DEF Promise!Comparable, Comparable
<1>2. ASSUME NEW e, NEW b PROVE Promise!Holds(e, b) = Holds(e, b)
  BY SameTerms, <1>1 DEF Promise!Holds, Holds
<1>3. ASSUME NEW e, NEW b PROVE Promise!Ground(e, b) = Ground(e, b)
  BY SameTerms DEF Promise!Ground, Ground
<1>4. ASSUME NEW beliefs, NEW e, NEW b
      PROVE  Promise!Satisfied(beliefs, e, b) = Satisfied(beliefs, e, b)
  BY SameTerms, <1>2, <1>3 DEF Promise!Satisfied, Satisfied
<1>5. QED
  BY <1>4

LEMMA SameCandidates ==
  ASSUME NEW p, NEW evt, NEW beliefs
  PROVE  Promise!Candidates(p, evt, beliefs) = Candidates(p, evt, beliefs)
<1>1. \A cond : Promise!CondVars(cond) = CondVars(cond)
  BY SameTerms DEF Promise!CondVars, CondVars, Promise!BeliefsOf, BeliefsOf
<1>2. \A cond, start : Promise!Solutions(beliefs, cond, start) = Solutions(beliefs, cond, start)
  BY <1>1, SameSatisfied DEF Promise!Solutions, Solutions
<1>3. Promise!Triggers(p, evt) = Triggers(p, evt) /\ Promise!StartOf(p, evt) = StartOf(p, evt)
  BY SameTerms, SameMatches DEF Promise!Triggers, Promise!StartOf, Triggers, StartOf
<1>4. QED
  BY SameTerms, <1>2, <1>3 DEF Promise!Candidates, Candidates

LEMMA SameSequences ==
  /\ \A s : Promise!Last(s) = Last(s) /\ Promise!Front(s) = Front(s)
            /\ Promise!ToSet(s) = ToSet(s)
  /\ \A s, i : Promise!RemoveAt(s, i) = RemoveAt(s, i)
BY DEF Promise!Last, Promise!Front, Promise!ToSet, Promise!RemoveAt, Last, Front, ToSet, RemoveAt

\* What the plans that an activation has chosen are to Engine.
LEMMA ChosenFields ==
  ASSUME NEW f \in Frame, \A c \in ToSet(IntentionContexts(f)) : c \in DOMAIN heap
  PROVE  /\ DOMAIN Chosen(f) = DOMAIN f.intentions
         /\ \A m \in DOMAIN f.intentions :
              /\ Chosen(f)[m].plan = f.intentions[m].plan
              /\ Chosen(f)[m].binding = heap[f.intentions[m].ctx]
<1>1. \A m \in DOMAIN f.intentions : f.intentions[m].ctx \in DOMAIN heap
  BY DEF ToSet, IntentionContexts
<1>2. QED
  BY <1>1 DEF Chosen

LEMMA ActivityFields ==
  ASSUME NEW f
  PROVE  /\ Activity(f).evt = f.evt /\ Activity(f).seen = f.seen
         /\ Activity(f).steady = f.steady /\ Activity(f).i = f.i
         /\ Selecting(f) => Activity(f).phase = "choose" /\ Activity(f).chosen = <<>>
         /\ f.pc \in {"run", "body"} => /\ Activity(f).phase = f.pc
                                        /\ Activity(f).chosen = Chosen(f)
         /\ f.pc \in {"clean", "empty"} => Activity(f).phase = "done" /\ Activity(f).chosen = <<>>
BY DEF Activity, Chosen, Selecting

LEMMA ChoiceMade ==
  ASSUME CycleInv, SelectionInv, At("test"), top.plan \notin DOMAIN Plans
  PROVE  Promise!Choice(Activity(top), Chosen(top))
<1>1. PICK f : f = top
  OBVIOUS
<1>2. /\ f \in Frame /\ IntentionsInv(f)
      /\ \A c \in ToSet(IntentionContexts(f)) : c \in DOMAIN heap
  BY <1>1, AtSelect DEF At, Selecting
<1>3. PICK chosen : chosen = Chosen(f)
  OBVIOUS
<1>4. /\ DOMAIN chosen = DOMAIN f.intentions
      /\ \A m \in DOMAIN f.intentions :
           /\ chosen[m].plan = f.intentions[m].plan
           /\ chosen[m].binding = heap[f.intentions[m].ctx]
  BY <1>2, <1>3, ChosenFields
<1>5. DOMAIN Plans = 1 .. f.plan - 1
  <2>1. DOMAIN Plans = 1 .. Len(Plans) /\ Len(Plans) \in Nat
    BY PlanAssumption
  <2>2. f.plan \in 1 .. Len(Plans) + 1 /\ f.plan \notin DOMAIN Plans
    BY <1>1, <1>2 DEF Frame
  <2>3. f.plan = Len(Plans) + 1
    BY <2>1, <2>2
  <2>4. QED
    BY <2>1, <2>3
<1>6. \A m, n \in DOMAIN chosen : m < n => chosen[m].plan < chosen[n].plan
  BY <1>2, <1>4 DEF IntentionsInv
<1>7. \A m \in DOMAIN chosen :
        chosen[m].binding \in Candidates(Plans[chosen[m].plan], f.evt, f.seen)
  BY <1>2, <1>4 DEF IntentionsInv
<1>8. \A p \in DOMAIN Plans : Candidates(Plans[p], f.evt, f.steady) # {} =>
        \E m \in DOMAIN chosen : chosen[m].plan = p
  BY <1>2, <1>4, <1>5 DEF IntentionsInv
<1>9. PICK x : x = Activity(f)
  OBVIOUS
<1>10. x.evt = f.evt /\ x.seen = f.seen /\ x.steady = f.steady
  BY <1>9, ActivityFields
<1>11. Promise!Choice(x, chosen)
  BY <1>6, <1>7, <1>8, <1>10, SameCandidates DEF Promise!Choice
<1>12. QED
  BY <1>1, <1>3, <1>9, <1>11

-------------------------------------------------------------------------------
\* The choice goes on as it should, for plans whose conditions test a term only when it is
\* bound (engine.cpp:219-264, condition.cpp:37-120).
THEOREM SelectionInvariant == OrderedPlans => (Spec => [](CycleInv /\ SelectionInv))
<1>1. Init => CycleInv /\ SelectionInv
  BY CycleInit, SelectionInit
<1>2. OrderedPlans /\ CycleInv /\ SelectionInv /\ [Next]_vars => CycleInv' /\ SelectionInv'
  BY CycleNext, SelectionNext
<1>3. SUFFICES ASSUME OrderedPlans PROVE Spec => [](CycleInv /\ SelectionInv)
  OBVIOUS
<1>4. QED
  BY <1>1, <1>2, <1>3, PTL DEF Spec

\* When all the plans are tested, the intentions are solutions of their conditions that
\* held during the selection, and no plan is left out that had a solution all the time
\* (engine.cpp:219-264).
THEOREM SelectionIsCorrect == OrderedPlans => (Spec => []SelectionCorrect)
<1>1. CycleInv /\ SelectionInv => SelectionCorrect
  BY ChoiceMade DEF SelectionCorrect
<1>2. QED
  BY <1>1, SelectionInvariant, PTL

(***************************************************************************)
(* The activations as activities.                                          *)
(***************************************************************************)
activities == [d \in DOMAIN stack |-> Activity(stack[d])]

\* A sequence that differs from another in its last element only.
LEMMA LastBecomes ==
  ASSUME NEW S, NEW s \in Seq(S), s # <<>>, NEW t \in Seq(S), Len(t) = Len(s),
         \A d \in 1 .. Len(s) - 1 : t[d] = s[d]
  PROVE  t = Front(s) \o <<t[Len(s)]>>
<1>1. /\ Front(s) \in Seq(S) /\ Len(Front(s)) = Len(s) - 1
      /\ \A d \in 1 .. Len(s) - 1 : Front(s)[d] = s[d]
  BY FrontHolds
<1>2. PICK r : r = Front(s)
  OBVIOUS
<1>3. Len(s) \in Nat \ {0}
  BY EmptySeq
<1>4. t[Len(s)] \in S
  BY <1>3
<1>5. PICK u : u = r \o <<t[Len(s)]>>
  OBVIOUS
<1>6. /\ u \in Seq(S) /\ Len(u) = Len(s)
      /\ \A d \in 1 .. Len(s) - 1 : u[d] = r[d]
      /\ u[Len(s)] = t[Len(s)]
  BY <1>1, <1>2, <1>3, <1>4, <1>5
<1>7. \A d \in 1 .. Len(s) : t[d] = u[d]
  BY <1>1, <1>2, <1>3, <1>6
<1>8. t = u
  BY <1>6, <1>7, SeqEqual
<1>9. QED
  BY <1>2, <1>5, <1>8

\* An activation whose contexts are kept is the same activity.
LEMMA ActivityKept ==
  ASSUME NEW f \in Frame,
         \A c \in ToSet(IntentionContexts(f)) :
           c \in DOMAIN heap /\ c \in DOMAIN heap' /\ heap'[c] = heap[c]
  PROVE  Activity(f)' = Activity(f)
<1>1. \A m \in DOMAIN f.intentions :
        LET c == f.intentions[m].ctx IN
        c \in DOMAIN heap /\ c \in DOMAIN heap' /\ heap'[c] = heap[c]
  BY DEF ToSet, IntentionContexts
<1>2. QED
  BY <1>1 DEF Activity, Chosen

LEMMA ActivityAt ==
  /\ DOMAIN activities = DOMAIN stack
  /\ \A d \in DOMAIN stack : activities[d] = Activity(stack[d])
BY DEF activities

LEMMA ActivityAtNext ==
  /\ DOMAIN activities' = DOMAIN stack'
  /\ \A d \in DOMAIN stack' : \A f : f = stack'[d] => activities'[d] = Activity(f)'
<1>1. DOMAIN activities' = DOMAIN stack'
  BY DEF activities
<1>2. ASSUME NEW d \in DOMAIN stack', NEW f, f = stack'[d] PROVE activities'[d] = Activity(f)'
  BY <1>2 DEF activities, Activity, Chosen
<1>3. QED
  BY <1>1, <1>2

\* The contexts of the other activations are left alone.
OthersKept == \A c \in DOMAIN heap \ Held(top) : c \in DOMAIN heap' /\ heap'[c] = heap[c]

LEMMA LowerActivities ==
  ASSUME CycleInv, stack # <<>>, OthersKept
  PROVE  \A d \in 1 .. Depth - 1 : \A f : f = stack[d] => Activity(f)' = Activity(f)
<1>1. /\ Depth \in DOMAIN stack /\ Depth \in Nat \ {0} /\ DOMAIN stack = 1 .. Depth
      /\ top = stack[Depth] /\ stack \in Seq(Frame) /\ OwnInv
  BY TopFrame DEF CycleInv, TypeOK
<1>2. ASSUME NEW d \in 1 .. Depth - 1, NEW f, f = stack[d] PROVE Activity(f)' = Activity(f)
  <2>1. d \in DOMAIN stack /\ d # Depth /\ f \in Frame
    BY <1>1, <1>2, ElementOfSeq
  <2>2. Held(f) \subseteq DOMAIN heap /\ Held(f) \cap Held(top) = {}
    BY <1>1, <1>2, <2>1 DEF OwnInv
  <2>3. \A c \in ToSet(IntentionContexts(f)) :
          c \in DOMAIN heap /\ c \in DOMAIN heap' /\ heap'[c] = heap[c]
    BY <2>2 DEF Held, OthersKept
  <2>4. QED
    BY <2>1, <2>3, ActivityKept
<1>3. QED
  BY <1>2

LEMMA TopBecomes ==
  ASSUME CycleInv, stack # <<>>, NEW g \in Frame, SetTop(g), OthersKept
  PROVE  /\ activities # <<>> /\ Last(activities) = Activity(top)
         /\ activities' = Front(activities) \o <<Activity(g)'>>
         /\ activities' # <<>> /\ Last(activities') = Activity(g)'
         /\ Activity(g)' = Activity(top) => activities' = activities
<1>1. /\ Depth \in DOMAIN stack /\ Depth \in Nat \ {0} /\ DOMAIN stack = 1 .. Depth
      /\ top = stack[Depth] /\ stack \in Seq(Frame)
  BY TopFrame DEF CycleInv, TypeOK
<1>2. /\ DOMAIN stack' = DOMAIN stack /\ stack'[Depth] = g
      /\ \A d \in DOMAIN stack : d # Depth => stack'[d] = stack[d]
  BY <1>1 DEF SetTop
<1>3. PICK a : a = activities
  OBVIOUS
<1>4. PICK b : b = activities'
  OBVIOUS
<1>5. PICK x : x = Activity(g)'
  OBVIOUS
<1>6. /\ a = [d \in 1 .. Depth |-> a[d]] /\ b = [d \in 1 .. Depth |-> b[d]]
      /\ a[Depth] = Activity(top) /\ b[Depth] = x
  <2>1. a = [d \in 1 .. Depth |-> a[d]] /\ a[Depth] = Activity(top)
    BY <1>1, <1>3 DEF activities
  <2>2. b = [d \in DOMAIN stack' |-> b[d]]
    BY <1>4 DEF activities
  <2>3. b[Depth] = x
    BY <1>1, <1>2, <1>4, <1>5, ActivityAtNext
  <2>4. QED
    BY <1>1, <1>2, <2>1, <2>2, <2>3
<1>7. ASSUME NEW d \in 1 .. Depth - 1 PROVE b[d] = a[d]
  <2>1. PICK f : f = stack[d]
    OBVIOUS
  <2>2. d \in DOMAIN stack /\ stack'[d] = f
    BY <1>1, <1>2, <2>1
  <2>3. a[d] = Activity(f) /\ b[d] = Activity(f)'
    BY <1>2, <1>3, <1>4, <2>1, <2>2, ActivityAt, ActivityAtNext
  <2>4. Activity(f)' = Activity(f)
    BY <2>1, LowerActivities
  <2>5. QED
    BY <2>3, <2>4
<1>8. PICK S : S = {a[d] : d \in 1 .. Depth} \cup {b[d] : d \in 1 .. Depth}
  OBVIOUS
<1>9. /\ a \in Seq(S) /\ b \in Seq(S) /\ Len(a) = Depth /\ Len(b) = Depth /\ a # <<>>
  <2>1. \A d \in 1 .. Depth : a[d] \in S /\ b[d] \in S
    BY <1>8
  <2>2. QED
    BY <1>1, <1>6, <2>1
<1>10. b = Front(a) \o <<b[Len(a)]>>
  <2>1. \A d \in 1 .. Len(a) - 1 : b[d] = a[d]
    BY <1>7, <1>9
  <2>2. Len(b) = Len(a)
    BY <1>9
  <2>3. QED
    BY <1>9, <2>1, <2>2, LastBecomes
<1>11. Last(a) = Activity(top)
  BY <1>6, <1>9 DEF Last
<1>12. ASSUME x = Activity(top) PROVE b = a
  <2>1. \A d \in 1 .. Depth : b[d] = a[d]
    <3>1. ASSUME NEW d \in 1 .. Depth PROVE b[d] = a[d]
      <4>1. d = Depth \/ d \in 1 .. Depth - 1
        BY <1>1
      <4>2. QED
        BY <1>6, <1>7, <1>12, <4>1
    <3>2. QED
      BY <3>1
  <2>2. QED
    BY <1>9, <2>1, SeqEqual
<1>13. b # <<>> /\ Last(b) = x
  BY <1>1, <1>6, <1>9 DEF Last
<1>14. QED
  BY <1>3, <1>4, <1>5, <1>6, <1>9, <1>10, <1>11, <1>12, <1>13

\* An activity for each place that an activation can be at.
ActivityOf(f, phase, chosen) ==
  [evt |-> f.evt, phase |-> phase, seen |-> f.seen, steady |-> f.steady, i |-> f.i,
   chosen |-> chosen]

LEMMA ActivityIs ==
  ASSUME NEW f
  PROVE  /\ f.pc \in {"test", "eval"} => Activity(f) = ActivityOf(f, "choose", <<>>)
         /\ f.pc \in {"run", "body"} => Activity(f) = ActivityOf(f, f.pc, Chosen(f))
         /\ f.pc \in {"clean", "empty"} => Activity(f) = ActivityOf(f, "done", <<>>)
BY DEF Activity, ActivityOf, Chosen

LEMMA ActivityIsNext ==
  ASSUME NEW f
  PROVE  /\ f.pc \in {"test", "eval"} => Activity(f)' = ActivityOf(f, "choose", <<>>)
         /\ f.pc \in {"run", "body"} => Activity(f)' = ActivityOf(f, f.pc, Chosen(f)')
         /\ f.pc \in {"clean", "empty"} => Activity(f)' = ActivityOf(f, "done", <<>>)
BY DEF Activity, ActivityOf, Chosen

\* The bindings of the intentions are kept with their contexts.
LEMMA ChosenKept ==
  ASSUME NEW f \in Frame, NEW g, g.intentions = f.intentions,
         \A c \in ToSet(IntentionContexts(f)) :
           c \in DOMAIN heap /\ c \in DOMAIN heap' /\ heap'[c] = heap[c]
  PROVE  Chosen(g)' = Chosen(f)
<1>1. \A m \in DOMAIN f.intentions :
        LET c == f.intentions[m].ctx IN
        c \in DOMAIN heap /\ c \in DOMAIN heap' /\ heap'[c] = heap[c]
  BY DEF ToSet, IntentionContexts
<1>2. QED
  BY <1>1 DEF Chosen

LEMMA StartBodyRefines ==
  ASSUME CycleInv, StartBody
  PROVE  Promise!RunBody
<1>1. PICK f : f = top
  OBVIOUS
<1>2. PICK g : g = [f EXCEPT !.pc = "body"]
  OBVIOUS
<1>3. /\ stack # <<>> /\ f.pc = "run" /\ f.i \in DOMAIN f.intentions /\ SetTop(g)
      /\ UNCHANGED heap /\ UNCHANGED engineVars
  BY <1>1, <1>2 DEF StartBody, At
<1>4. /\ f \in Frame /\ Held(f) \subseteq DOMAIN heap
  BY <1>1, <1>3, AtTop
<1>5. /\ g \in Frame /\ g.pc = "body" /\ g.evt = f.evt /\ g.seen = f.seen
      /\ g.steady = f.steady /\ g.i = f.i /\ g.intentions = f.intentions
  BY <1>2, <1>3, <1>4 DEF Frame
<1>6. OthersKept
  BY <1>3 DEF OthersKept
<1>7. /\ activities # <<>> /\ Last(activities) = Activity(f)
      /\ activities' = Front(activities) \o <<Activity(g)'>>
  BY <1>1, <1>3, <1>5, <1>6, TopBecomes
<1>8. PICK x : x = Activity(f)
  OBVIOUS
<1>9. x = ActivityOf(f, "run", Chosen(f)) /\ Activity(g)' = ActivityOf(g, "body", Chosen(f))
  <2>1. Chosen(g)' = Chosen(f)
    BY <1>3, <1>4, <1>5, ChosenKept DEF Held
  <2>2. QED
    BY <1>3, <1>5, <1>8, <2>1, ActivityIs, ActivityIsNext
<1>10. /\ x.phase = "run" /\ x.i \in DOMAIN x.chosen
       /\ Activity(g)' = [x EXCEPT !.phase = "body"]
  <2>1. DOMAIN Chosen(f) = DOMAIN f.intentions
    BY DEF Chosen
  <2>2. QED
    BY <1>3, <1>5, <1>9, <2>1 DEF ActivityOf
<1>11. activities' = Front(activities) \o <<[x EXCEPT !.phase = "body"]>>
  BY <1>7, <1>10
<1>12. UNCHANGED <<kb, event_queue, pending>>
  BY <1>3 DEF engineVars
<1>13. QED
  BY <1>7, <1>8, <1>10, <1>11, <1>12, SameSequences
     DEF Promise!RunBody, Promise!In, Promise!current, Promise!Become, activities

\* A step that starts a body, ends one or tests a plan moves the innermost activity.
LEMMA TopMovesOn ==
  ASSUME CycleInv, stack # <<>>, UNCHANGED <<heap, engineVars>>,
         NEW g \in Frame, SetTop(g), g.evt = top.evt, g.intentions = top.intentions
  PROVE  /\ activities # <<>> /\ Last(activities) = Activity(top)
         /\ activities' = Front(activities) \o <<Activity(g)'>>
         /\ activities' # <<>> /\ Last(activities') = Activity(g)'
         /\ Chosen(g)' = Chosen(top) /\ Chosen(top) = Chosen(g)
         /\ top \in Frame /\ UNCHANGED <<kb, event_queue, pending>>
<1>1. PICK f : f = top
  OBVIOUS
<1>2. f \in Frame /\ Held(f) \subseteq DOMAIN heap
  BY <1>1, AtTop
<1>3. OthersKept
  BY DEF OthersKept
<1>4. Chosen(g)' = Chosen(f) /\ Chosen(f) = Chosen(g)
  <2>1. Chosen(g)' = Chosen(f)
    BY <1>1, <1>2, ChosenKept DEF Held
  <2>2. Chosen(f) = Chosen(g)
    BY <1>1 DEF Chosen
  <2>3. QED
    BY <2>1, <2>2
<1>5. QED
  BY <1>1, <1>2, <1>3, <1>4, TopBecomes DEF engineVars

LEMMA BodyCutRefines ==
  ASSUME CycleInv, BodyCut
  PROVE  Promise!Cut
<1>1. PICK f : f = top
  OBVIOUS
<1>2. PICK g : g = [f EXCEPT !.pc = "run", !.i = f.i + 1]
  OBVIOUS
<1>3. /\ stack # <<>> /\ f.pc = "body" /\ pending[EngineThread] = NoEvent /\ SetTop(g)
      /\ UNCHANGED <<heap, engineVars>>
  BY <1>1, <1>2 DEF BodyCut, InBody, At
<1>4. f \in Frame /\ f.i + 1 \in Nat
  <2>1. f \in Frame
    BY <1>1, <1>3, AtTop
  <2>2. QED
    BY <2>1 DEF Frame
<1>5. /\ g \in Frame /\ g.pc = "run" /\ g.evt = f.evt /\ g.seen = f.seen
      /\ g.steady = f.steady /\ g.i = f.i + 1 /\ g.intentions = f.intentions
  BY <1>2, <1>4 DEF Frame
<1>6. PICK x : x = Activity(f)
  OBVIOUS
<1>7. /\ activities # <<>> /\ Last(activities) = x
      /\ activities' = Front(activities) \o <<Activity(g)'>>
      /\ Chosen(g)' = Chosen(f) /\ UNCHANGED <<kb, event_queue, pending>>
  BY <1>1, <1>3, <1>5, <1>6, TopMovesOn
<1>8. x = ActivityOf(f, "body", Chosen(f)) /\ Activity(g)' = ActivityOf(g, "run", Chosen(f))
  BY <1>3, <1>5, <1>6, <1>7, ActivityIs, ActivityIsNext
<1>9. /\ x.phase = "body" /\ Activity(g)' = [x EXCEPT !.phase = "run", !.i = x.i + 1]
  <2>1. PICK y : y = [x EXCEPT !.phase = "run", !.i = x.i + 1]
    OBVIOUS
  <2>2. x.phase = "body" /\ y = ActivityOf(g, "run", Chosen(f))
    BY <1>5, <1>8, <2>1 DEF ActivityOf
  <2>3. QED
    BY <1>8, <2>1, <2>2
<1>10. activities' = Front(activities) \o <<[x EXCEPT !.phase = "run", !.i = x.i + 1]>>
  BY <1>7, <1>9
<1>11. QED
  BY <1>3, <1>7, <1>9, <1>10, SameSequences
     DEF Promise!Cut, Promise!AtStatement, Promise!In, Promise!current, Promise!Become,
         activities

LEMMA FinishRefines ==
  ASSUME CycleInv, BodyReturn \/ AllCut
  PROVE  Promise!Finish
<1>1. PICK f : f = top
  OBVIOUS
<1>2. PICK g : g = [f EXCEPT !.pc = "clean"]
  OBVIOUS
<1>3. /\ stack # <<>> /\ SetTop(g) /\ UNCHANGED <<heap, engineVars>>
      /\ \/ f.pc = "body" /\ pending[EngineThread] = NoEvent
         \/ f.pc = "run" /\ f.i \notin DOMAIN f.intentions
  BY <1>1, <1>2 DEF BodyReturn, AllCut, InBody, At
<1>4. f \in Frame
  BY <1>1, <1>3, AtTop
<1>5. /\ g \in Frame /\ g.pc = "clean" /\ g.evt = f.evt /\ g.seen = f.seen
      /\ g.steady = f.steady /\ g.i = f.i /\ g.intentions = f.intentions
  BY <1>2, <1>4 DEF Frame
<1>6. PICK x : x = Activity(f)
  OBVIOUS
<1>7. /\ activities # <<>> /\ Last(activities) = x
      /\ activities' = Front(activities) \o <<Activity(g)'>>
      /\ UNCHANGED <<kb, event_queue, pending>>
  BY <1>1, <1>3, <1>5, <1>6, TopMovesOn
<1>8. x = ActivityOf(f, f.pc, Chosen(f)) /\ Activity(g)' = ActivityOf(g, "done", <<>>)
  BY <1>3, <1>5, <1>6, ActivityIs, ActivityIsNext
<1>9. /\ \/ x.phase = "body" /\ pending[EngineThread] = NoEvent
         \/ x.phase = "run" /\ x.i \notin DOMAIN x.chosen
      /\ Activity(g)' = [x EXCEPT !.phase = "done", !.chosen = <<>>]
  <2>1. DOMAIN Chosen(f) = DOMAIN f.intentions
    BY DEF Chosen
  <2>2. /\ x.phase = f.pc /\ x.i = f.i /\ x.chosen = Chosen(f)
    BY <1>8 DEF ActivityOf
  <2>3. PICK y : y = [x EXCEPT !.phase = "done", !.chosen = <<>>]
    OBVIOUS
  <2>4. y = ActivityOf(g, "done", <<>>)
    BY <1>5, <1>8, <2>3 DEF ActivityOf
  <2>5. QED
    BY <1>3, <1>8, <2>1, <2>2, <2>3, <2>4
<1>10. activities' = Front(activities) \o <<[x EXCEPT !.phase = "done", !.chosen = <<>>]>>
  BY <1>7, <1>9
<1>11. QED
  BY <1>7, <1>9, <1>10, SameSequences
     DEF Promise!Finish, Promise!AtStatement, Promise!In, Promise!current, Promise!Become,
         activities

LEMMA AllTestedRefines ==
  ASSUME CycleInv, SelectionInv, AllTested
  PROVE  Promise!Choose
<1>1. PICK f : f = top
  OBVIOUS
<1>2. PICK g : g = [f EXCEPT !.pc = "run", !.seen = {}, !.steady = {}]
  OBVIOUS
<1>3. /\ stack # <<>> /\ SetTop(g) /\ UNCHANGED <<heap, engineVars>>
      /\ At("test") /\ f.pc = "test" /\ top.plan \notin DOMAIN Plans
  BY <1>1, <1>2 DEF AllTested, At
<1>4. f \in Frame
  BY <1>1, <1>3, AtTop
<1>5. /\ g \in Frame /\ g.pc = "run" /\ g.evt = f.evt /\ g.seen = {}
      /\ g.steady = {} /\ g.i = f.i /\ g.intentions = f.intentions
  <2>1. {} \in SUBSET Beliefs
    OBVIOUS
  <2>2. QED
    BY <1>2, <1>4, <2>1 DEF Frame
<1>6. PICK x : x = Activity(f)
  OBVIOUS
<1>7. PICK chosen : chosen = Chosen(f)
  OBVIOUS
<1>8. /\ activities # <<>> /\ Last(activities) = x
      /\ activities' = Front(activities) \o <<Activity(g)'>>
      /\ activities' # <<>> /\ Last(activities') = Activity(g)'
      /\ Chosen(g)' = chosen /\ UNCHANGED <<kb, event_queue, pending>>
  BY <1>1, <1>3, <1>5, <1>6, <1>7, TopMovesOn
<1>9. x = ActivityOf(f, "choose", <<>>) /\ Activity(g)' = ActivityOf(g, "run", chosen)
  BY <1>3, <1>5, <1>6, <1>8, ActivityIs, ActivityIsNext
<1>10. /\ x.phase = "choose" /\ Activity(g)'.chosen = chosen
       /\ Activity(g)' = [x EXCEPT !.phase = "run", !.chosen = chosen,
                                   !.seen = {}, !.steady = {}]
  <2>1. x.phase = "choose" /\ ActivityOf(g, "run", chosen).chosen = chosen
    BY <1>9 DEF ActivityOf
  <2>2. PICK y : y = [x EXCEPT !.phase = "run", !.chosen = chosen, !.seen = {}, !.steady = {}]
    OBVIOUS
  <2>3. y = ActivityOf(g, "run", chosen)
    BY <1>5, <1>9, <2>2 DEF ActivityOf
  <2>4. QED
    BY <1>9, <2>1, <2>2, <2>3
<1>11. Promise!Choice(x, chosen)
  BY <1>1, <1>3, <1>6, <1>7, ChoiceMade
<1>12. /\ Last(activities').chosen = chosen
       /\ activities' = Front(activities) \o <<[x EXCEPT !.phase = "run", !.chosen = chosen,
                                                         !.seen = {}, !.steady = {}]>>
  BY <1>8, <1>10
<1>13. QED
  BY <1>8, <1>10, <1>11, <1>12, SameSequences
     DEF Promise!Choose, Promise!In, Promise!current, Promise!Become, activities

\* The length of the activities is the depth of the calls.
LEMMA ActivitiesDeep ==
  ASSUME TypeOK
  PROVE  /\ activities \in Seq({Activity(stack[d]) : d \in DOMAIN stack})
         /\ Len(activities) = Depth /\ Depth \in Nat /\ (activities = <<>> <=> stack = <<>>)
<1>1. stack \in Seq(Frame) /\ DOMAIN stack = 1 .. Depth /\ Depth \in Nat
  BY DEF TypeOK, Depth
<1>2. PICK S : S = {Activity(stack[d]) : d \in DOMAIN stack}
  OBVIOUS
<1>3. activities = [d \in 1 .. Depth |-> activities[d]]
  BY <1>1 DEF activities
<1>4. \A d \in 1 .. Depth : activities[d] \in S
  BY <1>1, <1>2, ActivityAt
<1>5. activities \in Seq(S) /\ Len(activities) = Depth
  BY <1>1, <1>3, <1>4
<1>6. (activities = <<>> <=> Depth = 0) /\ (stack = <<>> <=> Depth = 0)
  BY <1>1, <1>5, EmptySeq DEF Depth
<1>7. QED
  BY <1>1, <1>2, <1>5, <1>6

\* A new activation is an activity that begins.
LEMMA NewActivity ==
  ASSUME UNCHANGED kb, NEW evt, NEW g, g = NewFrame(evt)
  PROVE  Activity(g)' = Promise!Begin(evt)
<1>1. /\ g.evt = evt /\ g.pc = "test" /\ g.seen = ToSet(kb) /\ g.steady = ToSet(kb) /\ g.i = 1
  BY DEF NewFrame
<1>2. Activity(g)' = ActivityOf(g, "choose", <<>>)
  BY <1>1, ActivityIsNext
<1>3. QED
  BY <1>1, <1>2, SameSequences DEF ActivityOf, Promise!Begin

LEMMA PopEventRefines ==
  ASSUME CycleInv, PopEvent
  PROVE  Promise!Take
<1>1. PICK evt : evt = Head(event_queue)
  OBVIOUS
<1>2. PICK g : g = NewFrame(evt)
  OBVIOUS
<1>3. /\ TypeOK /\ event_queue # <<>> /\ stack = <<>> /\ stack' = <<g>>
      /\ event_queue' = Tail(event_queue) /\ UNCHANGED <<kb, pending>>
  BY <1>1, <1>2 DEF CycleInv, PopEvent
<1>4. activities = <<>>
  BY <1>3, ActivitiesDeep
<1>5. Activity(g)' = Promise!Begin(evt)
  BY <1>2, <1>3, NewActivity
<1>6. activities' = <<Promise!Begin(evt)>>
  <2>1. PICK a : a = activities'
    OBVIOUS
  <2>2. PICK x : x = Promise!Begin(evt)
    OBVIOUS
  <2>3. DOMAIN stack' = 1 .. 1 /\ stack'[1] = g
    BY <1>3
  <2>4. a = [d \in DOMAIN stack' |-> a[d]] /\ a[1] = x
    BY <1>5, <2>1, <2>2, <2>3, ActivityAtNext DEF activities
  <2>5. a \in Seq({x}) /\ Len(a) = 1 /\ <<x>> \in Seq({x}) /\ Len(<<x>>) = 1
    BY <2>3, <2>4
  <2>6. \A d \in 1 .. 1 : a[d] = <<x>>[d]
    BY <2>4
  <2>7. a = <<x>>
    BY <2>5, <2>6, SeqEqual
  <2>8. QED
    BY <2>1, <2>2, <2>7
<1>7. QED
  BY <1>1, <1>3, <1>4, <1>6 DEF Promise!Take, activities

LEMMA BodyCallRefines ==
  ASSUME CycleInv, SelectionInv, BodyCall
  PROVE  Promise!CallProcedure
<1>1. PICK p \in Procedures : stack' = Append(stack, NewFrame([type |-> "call", bel |-> p]))
  BY DEF BodyCall
<1>2. PICK evt : evt = [type |-> "call", bel |-> p]
  OBVIOUS
<1>3. PICK g : g = NewFrame(evt)
  OBVIOUS
<1>4. /\ TypeOK /\ stack # <<>> /\ top.pc = "body" /\ pending[EngineThread] = NoEvent
      /\ UNCHANGED <<kb, event_queue, pending, heap>> /\ stack' = Append(stack, g)
  BY <1>1, <1>2, <1>3 DEF CycleInv, BodyCall, Statement, InBody, At
<1>5. /\ Depth \in DOMAIN stack /\ Depth \in Nat \ {0} /\ DOMAIN stack = 1 .. Depth
      /\ top = stack[Depth] /\ stack \in Seq(Frame) /\ OwnInv
  BY <1>4, TopFrame DEF TypeOK, CycleInv
<1>6. evt \in Event
  BY <1>2 DEF Event
<1>7. g \in Frame
  BY <1>3, <1>4, <1>6, NewFrameHolds
<1>8. /\ DOMAIN stack' = 1 .. Depth + 1 /\ stack'[Depth + 1] = g
      /\ \A d \in 1 .. Depth : stack'[d] = stack[d]
  BY <1>4, <1>5, <1>7, AppendProperties DEF Depth
<1>9. PICK a : a = activities
  OBVIOUS
<1>10. PICK b : b = activities'
  OBVIOUS
<1>11. PICK x : x = Promise!Begin(evt)
  OBVIOUS
<1>12. Activity(g)' = x
  BY <1>3, <1>4, <1>11, NewActivity
<1>13. DOMAIN b = 1 .. Depth + 1 /\ b = [d \in 1 .. Depth + 1 |-> b[d]] /\ b[Depth + 1] = x
  <2>1. DOMAIN b = DOMAIN stack' /\ b = [d \in DOMAIN stack' |-> b[d]]
    BY <1>10 DEF activities
  <2>2. Depth + 1 \in DOMAIN stack'
    BY <1>5, <1>8
  <2>3. b[Depth + 1] = x
    BY <1>8, <1>10, <1>12, <2>2, ActivityAtNext
  <2>4. QED
    BY <1>8, <2>1, <2>3
<1>14. ASSUME NEW d \in 1 .. Depth PROVE b[d] = a[d]
  <2>1. PICK f : f = stack[d]
    OBVIOUS
  <2>2. f \in Frame /\ d \in DOMAIN stack /\ d \in DOMAIN stack' /\ stack'[d] = f
    BY <1>5, <1>8, <2>1, ElementOfSeq
  <2>3. \A c \in ToSet(IntentionContexts(f)) :
          c \in DOMAIN heap /\ c \in DOMAIN heap' /\ heap'[c] = heap[c]
    BY <1>4, <1>5, <2>1, <2>2 DEF OwnInv, Held
  <2>4. Activity(f)' = Activity(f)
    BY <2>2, <2>3, ActivityKept
  <2>5. a[d] = Activity(f) /\ b[d] = Activity(f)'
    BY <1>9, <1>10, <2>1, <2>2, ActivityAt, ActivityAtNext
  <2>6. QED
    BY <2>4, <2>5
<1>15. b = Append(a, x)
  <2>1. PICK S : S = {a[d] : d \in 1 .. Depth} \cup {x}
    OBVIOUS
  <2>2. a \in Seq(S) /\ Len(a) = Depth
    <3>1. a = [d \in 1 .. Depth |-> a[d]] /\ \A d \in 1 .. Depth : a[d] \in S
      BY <1>5, <1>9, <2>1 DEF activities
    <3>2. QED
      BY <1>5, <3>1
  <2>3. PICK u : u = Append(a, x)
    OBVIOUS
  <2>4. /\ u \in Seq(S) /\ Len(u) = Depth + 1 /\ u[Depth + 1] = x
        /\ \A d \in 1 .. Depth : u[d] = a[d]
    BY <2>1, <2>2, <2>3, AppendProperties
  <2>5. \A d \in 1 .. Depth + 1 : d \in 1 .. Depth \/ d = Depth + 1
    BY <1>5
  <2>6. \A d \in 1 .. Depth + 1 : b[d] = u[d] /\ b[d] \in S
    BY <1>13, <1>14, <2>1, <2>4, <2>5
  <2>7. b \in Seq(S) /\ Len(b) = Depth + 1
    BY <1>5, <1>13, <2>6
  <2>8. b = u
    BY <2>4, <2>6, <2>7, SeqEqual
  <2>9. QED
    BY <2>3, <2>8
<1>16. PICK y : y = Last(a)
  OBVIOUS
<1>17. a # <<>> /\ y.phase = "body"
  <2>1. a # <<>> /\ Len(a) = Depth
    BY <1>4, <1>9, ActivitiesDeep
  <2>2. y = Activity(top)
    BY <1>5, <1>9, <1>16, <2>1, ActivityAt DEF Last
  <2>3. QED
    BY <1>4, <2>1, <2>2, ActivityFields
<1>18. activities' = Append(activities, Promise!Begin([type |-> "call", bel |-> p]))
  BY <1>2, <1>9, <1>10, <1>11, <1>15
<1>19. QED
  BY <1>4, <1>9, <1>16, <1>17, <1>18, SameSequences
     DEF Promise!CallProcedure, Promise!AtStatement, Promise!In, Promise!current, activities

\* When the outermost activation cleans up, its activity has ended already.
LEMMA CleanRefines ==
  ASSUME CycleInv, Clean
  PROVE  Promise!Return \/ UNCHANGED Promise!vars
<1>1. PICK f : f = top
  OBVIOUS
<1>2. PICK cs : cs = {x.ctx : x \in ToSet(f.intentions)}
  OBVIOUS
<1>3. PICK g : g = [f EXCEPT !.pc = "empty", !.intentions = <<>>]
  OBVIOUS
<1>4. /\ TypeOK /\ stack # <<>> /\ f.pc = "clean" /\ Delete(cs) /\ UNCHANGED engineVars
      /\ IF Depth = 1 THEN SetTop(g) ELSE stack' = Front(stack)
  BY <1>1, <1>2, <1>3 DEF CycleInv, Clean, At
<1>5. f \in Frame
  BY <1>1, <1>4, AtTop
<1>6. cs \subseteq Held(f)
  BY <1>2 DEF ToSet, IntentionContexts, Held
<1>7. OthersKept
  BY <1>1, <1>4, <1>6, DeleteKeeps DEF OthersKept
<1>8. UNCHANGED <<kb, event_queue, pending>>
  BY <1>4 DEF engineVars
<1>9. CASE Depth = 1
  <2>1. <<>> \in Seq([plan : DOMAIN Plans, ctx : ContextIds])
    OBVIOUS
  <2>2. /\ g \in Frame /\ g.pc = "empty" /\ g.evt = f.evt /\ g.seen = f.seen
        /\ g.steady = f.steady /\ g.i = f.i
    BY <1>3, <1>5, <2>1 DEF Frame
  <2>3. Activity(g)' = ActivityOf(g, "done", <<>>) /\ Activity(f) = ActivityOf(f, "done", <<>>)
    BY <1>4, <2>2, ActivityIs, ActivityIsNext
  <2>4. Activity(g)' = Activity(f)
    BY <2>2, <2>3 DEF ActivityOf
  <2>5. SetTop(g)
    BY <1>4, <1>9
  <2>6. activities' = activities
    BY <1>1, <1>4, <1>7, <2>2, <2>4, <2>5, TopBecomes
  <2>7. QED
    BY <1>8, <2>6 DEF Promise!vars, activities
<1>10. CASE Depth # 1
  <2>1. /\ Depth \in DOMAIN stack /\ Depth \in Nat \ {0} /\ DOMAIN stack = 1 .. Depth
        /\ f = stack[Depth] /\ stack \in Seq(Frame)
    BY <1>1, <1>4, TopFrame DEF TypeOK
  <2>2. /\ stack' = Front(stack) /\ Depth > 1
    BY <1>4, <1>10, <2>1
  <2>3. /\ Front(stack) \in Seq(Frame) /\ Len(Front(stack)) = Depth - 1
        /\ \A d \in 1 .. Depth - 1 : Front(stack)[d] = stack[d]
    BY <1>4, <2>1, FrontHolds DEF Depth
  <2>4. DOMAIN stack' = 1 .. Depth - 1 /\ \A d \in 1 .. Depth - 1 : stack'[d] = stack[d]
    BY <2>1, <2>2, <2>3
  <2>5. PICK a : a = activities
    OBVIOUS
  <2>6. PICK b : b = activities'
    OBVIOUS
  <2>7. PICK S : S = {a[d] : d \in 1 .. Depth}
    OBVIOUS
  <2>8. a \in Seq(S) /\ Len(a) = Depth /\ a # <<>>
    <3>1. a = [d \in 1 .. Depth |-> a[d]] /\ \A d \in 1 .. Depth : a[d] \in S
      BY <2>1, <2>5, <2>7 DEF activities
    <3>2. QED
      BY <2>1, <3>1
  <2>9. ASSUME NEW d \in 1 .. Depth - 1 PROVE b[d] = a[d]
    <3>1. PICK h : h = stack[d]
      OBVIOUS
    <3>2. d \in DOMAIN stack /\ d \in DOMAIN stack' /\ stack'[d] = h
      BY <2>1, <2>4, <3>1
    <3>3. Activity(h)' = Activity(h)
      BY <1>4, <1>7, <3>1, LowerActivities
    <3>4. a[d] = Activity(h) /\ b[d] = Activity(h)'
      BY <2>5, <2>6, <3>1, <3>2, ActivityAt, ActivityAtNext
    <3>5. QED
      BY <3>3, <3>4
  <2>10. b = [d \in 1 .. Depth - 1 |-> b[d]]
    <3>1. b = [d \in DOMAIN stack' |-> b[d]]
      BY <2>6 DEF activities
    <3>2. QED
      BY <2>4, <3>1
  <2>11. b \in Seq(S) /\ Len(b) = Depth - 1
    <3>1. \A d \in 1 .. Depth - 1 : d \in 1 .. Depth /\ b[d] \in S
      BY <2>1, <2>7, <2>9
    <3>2. QED
      BY <2>1, <2>10, <3>1
  <2>12. /\ Front(a) \in Seq(S) /\ Len(Front(a)) = Depth - 1
         /\ \A d \in 1 .. Depth - 1 : Front(a)[d] = a[d]
    BY <2>8, FrontHolds
  <2>13. b = Front(a)
    <3>1. PICK u : u = Front(a)
      OBVIOUS
    <3>2. u \in Seq(S) /\ Len(u) = Len(b) /\ \A d \in 1 .. Len(b) : b[d] = u[d]
      BY <2>9, <2>11, <2>12, <3>1
    <3>3. QED
      BY <2>11, <3>1, <3>2, SeqEqual
  <2>14. PICK y : y = Last(a)
    OBVIOUS
  <2>15. y.phase = "done"
    <3>1. y = Activity(f)
      BY <2>1, <2>5, <2>8, <2>14, ActivityAt DEF Last
    <3>2. QED
      BY <1>4, <3>1, ActivityFields
  <2>16. activities' = Front(activities) /\ activities # <<>> /\ Last(activities).phase = "done"
    BY <2>5, <2>6, <2>8, <2>13, <2>14, <2>15
  <2>17. QED
    BY <1>8, <2>16, SameSequences
       DEF Promise!Return, Promise!In, Promise!current, activities
<1>11. QED
  BY <1>9, <1>10

LEMMA EmptyCollectorRefines ==
  ASSUME CycleInv, SelectionInv, EmptyCollector
  PROVE  Promise!Return
<1>1. /\ TypeOK /\ stack # <<>> /\ top.pc = "empty" /\ Depth = 1 /\ stack' = <<>>
      /\ UNCHANGED <<kb, event_queue, pending>>
  BY DEF CycleInv, SelectionInv, CallersInv, EmptyCollector, At
<1>2. PICK S : S = {Activity(stack[d]) : d \in DOMAIN stack}
  OBVIOUS
<1>3. PICK a : a = activities
  OBVIOUS
<1>4. a \in Seq(S) /\ Len(a) = 1 /\ a # <<>>
  BY <1>1, <1>2, <1>3, ActivitiesDeep
<1>5. PICK y : y = Last(a)
  OBVIOUS
<1>6. y.phase = "done"
  <2>1. /\ Depth \in DOMAIN stack /\ top = stack[Depth]
    BY <1>1, TopFrame
  <2>2. y = Activity(top)
    BY <1>1, <1>3, <1>4, <1>5, <2>1, ActivityAt DEF Last
  <2>3. QED
    BY <1>1, <2>2, ActivityFields
<1>7. Front(a) = <<>>
  <2>1. Front(a) \in Seq(S) /\ Len(Front(a)) = 1 - 1
    BY <1>4, FrontHolds
  <2>2. QED
    BY <2>1, EmptySeq
<1>8. activities' = <<>>
  BY <1>1 DEF activities
<1>9. QED
  BY <1>1, <1>3, <1>4, <1>5, <1>6, <1>7, <1>8, SameSequences
     DEF Promise!Return, Promise!In, Promise!current, activities

\* While the plans are tested nothing of the activity changes.
LEMMA TestingStutters ==
  ASSUME CycleInv, TypeOK', stack # <<>>, Selecting(top), OthersKept, UNCHANGED engineVars,
         NEW g, SetTop(g), Selecting(g), g.evt = top.evt, g.seen = top.seen,
         g.steady = top.steady, g.i = top.i
  PROVE  UNCHANGED Promise!vars
<1>1. PICK f : f = top
  OBVIOUS
<1>2. g \in Frame
  <2>1. Depth \in DOMAIN stack /\ stack \in Seq(Frame) /\ DOMAIN stack = 1 .. Depth
    BY TopFrame DEF CycleInv, TypeOK
  <2>2. stack' \in Seq(Frame) /\ Depth \in DOMAIN stack' /\ stack'[Depth] = g
    BY <2>1 DEF SetTop, TypeOK
  <2>3. QED
    BY <2>2, ElementOfSeq
<1>3. Activity(g)' = Activity(f)
  <2>1. Activity(g)' = ActivityOf(g, "choose", <<>>) /\ Activity(f) = ActivityOf(f, "choose", <<>>)
    BY <1>1, ActivityIs, ActivityIsNext DEF Selecting
  <2>2. QED
    BY <1>1, <2>1 DEF ActivityOf
<1>4. activities' = activities
  BY <1>1, <1>2, <1>3, TopBecomes
<1>5. QED
  BY <1>4 DEF Promise!vars, engineVars, activities

\* What a step of the first loop does to the contexts of the others.
LEMMA HeapKept ==
  ASSUME UNCHANGED heap
  PROVE  OthersKept
BY DEF OthersKept

LEMMA AllocateOthers ==
  ASSUME TypeOK, NEW bs \in Seq(Bindings), Allocate(bs)
  PROVE  OthersKept
BY AllocateKeeps DEF OthersKept

LEMMA DeleteOthers ==
  ASSUME NEW cs \in SUBSET Held(top), Delete(cs)
  PROVE  OthersKept
BY DeleteKeeps DEF OthersKept

LEMMA NextPlanSame ==
  ASSUME NEW f \in Frame, NEW g, g = NextPlan(f)
  PROVE  Selecting(g) /\ g.evt = f.evt /\ g.seen = f.seen /\ g.steady = f.steady /\ g.i = f.i
<1>1. PICK n : n = f.plan + 1
  OBVIOUS
<1>2. g = [f EXCEPT !.pc = "test", !.plan = n, !.c = NoContext]
  BY <1>1 DEF NextPlan
<1>3. QED
  BY <1>2 DEF Frame, Selecting

LEMMA TestRefines ==
  ASSUME CycleInv, TypeOK', NotTriggered \/ Unconditional \/ Conditional
  PROVE  UNCHANGED Promise!vars
<1>1. TypeOK /\ stack # <<>> /\ top.pc = "test" /\ UNCHANGED engineVars
      /\ top.plan \in DOMAIN Plans
  BY DEF NotTriggered, Unconditional, Conditional, TriggeredPlan, TestPlan, At, CycleInv
<1>2. top \in Frame /\ Selecting(top)
  BY <1>1, AtTop DEF Selecting
<1>3. PICK f : f = top
  OBVIOUS
<1>4. PICK n : n = NextPlan(f)
  OBVIOUS
<1>5. Selecting(n) /\ n.evt = f.evt /\ n.seen = f.seen /\ n.steady = f.steady /\ n.i = f.i
  BY <1>2, <1>3, <1>4, NextPlanSame
<1>6. CASE NotTriggered
  <2>1. SetTop(n) /\ UNCHANGED heap
    BY <1>3, <1>4, <1>6 DEF NotTriggered
  <2>2. QED
    BY <1>1, <1>2, <1>3, <1>5, <2>1, HeapKept, TestingStutters
<1>7. ASSUME TriggeredPlan PROVE OthersKept
  <2>1. PICK bs : bs = <<Extend(plan.trigger, top.evt.bel, NoBinding)>>
    OBVIOUS
  <2>2. bs \in Seq(Bindings) /\ Allocate(bs)
    BY <1>1, <1>7, <2>1, StartBinds DEF TriggeredPlan
  <2>3. QED
    BY <1>1, <2>2, AllocateOthers
<1>8. CASE Unconditional
  <2>1. PICK s : s = Append(n.intentions, [plan |-> f.plan, ctx |-> Fresh(1)[1]])
    OBVIOUS
  <2>2. PICK g : g = [n EXCEPT !.intentions = s]
    OBVIOUS
  <2>3. SetTop(g)
    BY <1>3, <1>4, <1>8, <2>1, <2>2 DEF Unconditional
  <2>4. n \in Frame
    BY <1>1, <1>2, <1>3, <1>4, NextPlanChoice
  <2>5. Selecting(g) /\ g.evt = f.evt /\ g.seen = f.seen /\ g.steady = f.steady /\ g.i = f.i
    BY <1>5, <2>2, <2>4 DEF Frame, Selecting
  <2>6. QED
    BY <1>1, <1>2, <1>3, <1>7, <1>8, <2>3, <2>5, TestingStutters DEF Unconditional
<1>9. CASE Conditional
  <2>1. PICK c : c = Fresh(1)[1]
    OBVIOUS
  <2>2. PICK g : g = [f EXCEPT !.pc = "eval", !.c = c, !.elem = 1,
                               !.array = <<>>, !.next = <<>>, !.idx = 1]
    OBVIOUS
  <2>3. SetTop(g)
    BY <1>3, <1>9, <2>1, <2>2 DEF Conditional
  <2>4. Selecting(g) /\ g.evt = f.evt /\ g.seen = f.seen /\ g.steady = f.steady /\ g.i = f.i
    BY <1>2, <1>3, <2>2 DEF Frame, Selecting
  <2>5. QED
    BY <1>1, <1>2, <1>3, <1>7, <1>9, <2>3, <2>4, TestingStutters DEF Conditional
<1>10. QED
  BY <1>6, <1>8, <1>9

\* An evaluation step sets some of the locals of eval.
LEMMA EvalStutters ==
  ASSUME CycleInv, TypeOK', At("eval"), OthersKept, UNCHANGED engineVars,
         NEW g, SetTop(g), g.pc = "eval", g.evt = top.evt, g.seen = top.seen,
         g.steady = top.steady, g.i = top.i
  PROVE  UNCHANGED Promise!vars
<1>1. top.pc = "eval" /\ stack # <<>>
  BY AtEval
<1>2. QED
  BY <1>1, TestingStutters DEF Selecting

LEMMA FirstRefines ==
  ASSUME CycleInv, TypeOK', FirstPredicate \/ FirstBelief
  PROVE  UNCHANGED Promise!vars
<1>1. At("eval") /\ UNCHANGED engineVars /\ top.elem < PastLast
  BY DEF FirstPredicate, FirstBelief, Evaluating
<1>2. PICK f : f = top
  OBVIOUS
<1>3. f \in Frame /\ f.pc = "eval" /\ TypeOK
  BY <1>1, <1>2, AtEval
<1>4. CASE FirstPredicate
  <2>1. PICK e : e = IF Holds(element, heap[f.c]) THEN 2 ELSE PastLast
    OBVIOUS
  <2>2. PICK g : g = [f EXCEPT !.elem = e]
    OBVIOUS
  <2>3. SetTop(g) /\ UNCHANGED heap
    BY <1>2, <1>4, <2>1, <2>2 DEF FirstPredicate
  <2>4. g.pc = "eval" /\ g.evt = f.evt /\ g.seen = f.seen /\ g.steady = f.steady /\ g.i = f.i
    BY <1>3, <2>2 DEF Frame
  <2>5. QED
    BY <1>1, <1>2, <2>3, <2>4, HeapKept, EvalStutters
<1>5. CASE FirstBelief
  <2>1. PICK found : found = GetMatching(kb, element, heap[f.c])
    OBVIOUS
  <2>2. PICK ids : ids = Fresh(Len(found))
    OBVIOUS
  <2>3. PICK e : e = IF found = <<>> THEN PastLast ELSE 2
    OBVIOUS
  <2>4. PICK g : g = [f EXCEPT !.array = ids, !.elem = e]
    OBVIOUS
  <2>5. SetTop(g) /\ Allocate(found)
    BY <1>2, <1>5, <2>1, <2>2, <2>3, <2>4 DEF FirstBelief
  <2>6. g.pc = "eval" /\ g.evt = f.evt /\ g.seen = f.seen /\ g.steady = f.steady /\ g.i = f.i
    BY <1>3, <2>4 DEF Frame
  <2>7. found \in Seq(Bindings)
    <3>1. kb \in Seq(Fact) /\ element \in Template /\ heap[f.c] \in Bindings
      BY <1>1, <1>2, AtEval
    <3>2. QED
      BY <2>1, <3>1, MatchingBinds
  <2>8. QED
    BY <1>1, <1>2, <1>3, <2>5, <2>6, <2>7, AllocateOthers, EvalStutters
<1>6. QED
  BY <1>4, <1>5

LEMMA NextRefines ==
  ASSUME CycleInv, TypeOK', NextPredicate \/ NextBelief
  PROVE  UNCHANGED Promise!vars
<1>1. AtContext /\ At("eval") /\ UNCHANGED engineVars /\ top.elem < PastLast
  BY DEF NextPredicate, NextBelief, AtContext, Evaluating
<1>2. PICK f : f = top
  OBVIOUS
<1>3. f \in Frame /\ f.pc = "eval" /\ TypeOK
  BY <1>1, <1>2, AtEval
<1>4. OthersKept
  <2>1. CASE NextPredicate
    BY <2>1, HeapKept DEF NextPredicate
  <2>2. CASE NextBelief
    <3>1. PICK found : found = GetMatching(kb, element, heap[context])
      OBVIOUS
    <3>2. Allocate(found)
      BY <2>2, <3>1 DEF NextBelief
    <3>3. kb \in Seq(Fact) /\ element \in Template /\ heap[context] \in Bindings
      BY <1>1, AtEval, AtLoop
    <3>4. QED
      BY <1>3, <3>1, <3>2, <3>3, MatchingBinds, AllocateOthers
  <2>3. QED
    BY <2>1, <2>2
<1>5. (\E contexts : ContextMatches(contexts)) \/ ContextFails
  BY DEF NextPredicate, NextBelief
<1>6. ASSUME NEW contexts, ContextMatches(contexts) PROVE UNCHANGED Promise!vars
  <2>1. PICK r : r = RemoveAt(f.array, f.idx)
    OBVIOUS
  <2>2. PICK n : n = f.next \o contexts
    OBVIOUS
  <2>3. PICK g : g = [f EXCEPT !.array = r, !.next = n]
    OBVIOUS
  <2>4. SetTop(g)
    BY <1>2, <1>6, <2>1, <2>2, <2>3 DEF ContextMatches
  <2>5. g.pc = "eval" /\ g.evt = f.evt /\ g.seen = f.seen /\ g.steady = f.steady /\ g.i = f.i
    BY <1>3, <2>3 DEF Frame
  <2>6. QED
    BY <1>1, <1>2, <1>4, <2>4, <2>5, EvalStutters
<1>7. CASE ContextFails
  <2>1. PICK n : n = f.idx + 1
    OBVIOUS
  <2>2. PICK g : g = [f EXCEPT !.idx = n]
    OBVIOUS
  <2>3. SetTop(g)
    BY <1>2, <1>7, <2>1, <2>2 DEF ContextFails
  <2>4. g.pc = "eval" /\ g.evt = f.evt /\ g.seen = f.seen /\ g.steady = f.steady /\ g.i = f.i
    BY <1>3, <2>2 DEF Frame
  <2>5. QED
    BY <1>1, <1>2, <1>4, <2>3, <2>4, EvalStutters
<1>8. QED
  BY <1>5, <1>6, <1>7

LEMMA RoundRefines ==
  ASSUME CycleInv, TypeOK', NextElement \/ ConditionFalse \/ ConditionTrue
  PROVE  UNCHANGED Promise!vars
<1>1. At("eval") /\ UNCHANGED engineVars
  BY DEF NextElement, ConditionFalse, ConditionTrue, Evaluating, Evaluated
<1>2. PICK f : f = top
  OBVIOUS
<1>3. f \in Frame /\ f.pc = "eval" /\ TypeOK /\ stack # <<>> /\ f.plan \in DOMAIN Plans
  BY <1>1, <1>2, AtEval
<1>4. PICK n : n = NextPlan(f)
  OBVIOUS
<1>5. /\ Selecting(f) /\ Selecting(n) /\ n.evt = f.evt /\ n.seen = f.seen
      /\ n.steady = f.steady /\ n.i = f.i
  BY <1>3, <1>4, NextPlanSame DEF Selecting
<1>6. CASE NextElement
  <2>1. PICK e : e = IF f.next = <<>> THEN PastLast ELSE f.elem + 1
    OBVIOUS
  <2>2. PICK g : g = [f EXCEPT !.array = f.next, !.next = <<>>, !.idx = 1, !.elem = e]
    OBVIOUS
  <2>3. SetTop(g) /\ Delete(ToSet(f.array))
    BY <1>2, <1>6, <2>1, <2>2 DEF NextElement
  <2>4. g.pc = "eval" /\ g.evt = f.evt /\ g.seen = f.seen /\ g.steady = f.steady /\ g.i = f.i
    BY <1>3, <2>2 DEF Frame
  <2>5. ToSet(f.array) \subseteq Held(top)
    BY <1>2 DEF Held
  <2>6. QED
    BY <1>1, <1>2, <2>3, <2>4, <2>5, DeleteOthers, EvalStutters
<1>7. CASE ConditionFalse
  <2>1. SetTop(n) /\ Delete({f.c})
    BY <1>2, <1>4, <1>7 DEF ConditionFalse
  <2>2. f.c # NoContext
    BY <1>1, <1>2, AtEval
  <2>3. {f.c} \subseteq Held(top)
    BY <1>2, <2>2 DEF Held
  <2>4. OthersKept
    BY <2>1, <2>3, DeleteOthers
  <2>5. QED
    BY <1>1, <1>2, <1>3, <1>5, <2>1, <2>4, TestingStutters
<1>8. CASE ConditionTrue
  <2>1. PICK s : s = Append(n.intentions, [plan |-> f.plan, ctx |-> Head(f.array)])
    OBVIOUS
  <2>2. PICK g : g = [n EXCEPT !.array = <<>>, !.intentions = s]
    OBVIOUS
  <2>3. SetTop(g) /\ Delete(ToSet(Tail(f.array))) /\ f.array # <<>>
    BY <1>2, <1>4, <1>8, <2>1, <2>2 DEF ConditionTrue
  <2>4. n \in Frame
    BY <1>3, <1>4, NextPlanChoice
  <2>5. Selecting(g) /\ g.evt = f.evt /\ g.seen = f.seen /\ g.steady = f.steady /\ g.i = f.i
    BY <1>5, <2>2, <2>4 DEF Frame, Selecting
  <2>6. ToSet(Tail(f.array)) \subseteq Held(top)
    <3>1. f.array \in Seq(ContextIds)
      BY <1>3, FrameSeqs
    <3>2. QED
      BY <1>2, <2>3, <3>1, HeadHolds DEF Held
  <2>7. OthersKept
    BY <2>3, <2>6, DeleteOthers
  <2>8. QED
    BY <1>1, <1>2, <1>3, <1>5, <2>3, <2>5, <2>7, TestingStutters
<1>9. QED
  BY <1>6, <1>7, <1>8

(***************************************************************************)
(* Steps of other threads, and of bodies, as steps of Engine.              *)
(***************************************************************************)
LEMMA PushRefines ==
  ASSUME NEW t \in Threads, Push(t)
  PROVE  Promise!Post(t)
<1>1. activities' = activities
  BY DEF Push, activities, Activity, Chosen
<1>2. QED
  BY <1>1 DEF Push, Promise!Post, activities

\* Engine takes notice of the knowledge base as the code's history does.
LEMMA NoticeRefines ==
  ASSUME NEW f \in Frame, UNCHANGED heap, NEW beliefs \in SUBSET Beliefs,
         NEW g, g = Notice(f, beliefs)
  PROVE  Activity(g)' = Promise!Notice(Activity(f), beliefs)
<1>1. /\ g.evt = f.evt /\ g.pc = f.pc /\ g.intentions = f.intentions /\ g.i = f.i
      /\ Selecting(f) => g.seen = f.seen \cup beliefs /\ g.steady = f.steady \cap beliefs
      /\ ~ Selecting(f) => g.seen = f.seen /\ g.steady = f.steady
  BY NoticeFields
<1>2. PICK x : x = Activity(f)
  OBVIOUS
<1>3. CASE Selecting(f)
  <2>1. x = ActivityOf(f, "choose", <<>>) /\ Activity(g)' = ActivityOf(g, "choose", <<>>)
    BY <1>1, <1>2, <1>3, ActivityIs, ActivityIsNext DEF Selecting
  <2>2. PICK y : y = [x EXCEPT !.seen = x.seen \cup beliefs, !.steady = x.steady \cap beliefs]
    OBVIOUS
  <2>3. x.phase = "choose" /\ y = ActivityOf(g, "choose", <<>>)
    BY <1>1, <1>3, <2>1, <2>2 DEF ActivityOf
  <2>4. Promise!Notice(x, beliefs) = y
    BY <2>2, <2>3 DEF Promise!Notice
  <2>5. QED
    BY <1>2, <2>1, <2>3, <2>4
<1>4. CASE ~ Selecting(f)
  <2>1. f.pc \in {"run", "body", "clean", "empty"}
    BY <1>4 DEF Frame, Selecting
  <2>2. x.phase # "choose"
    BY <1>2, <2>1, ActivityFields
  <2>3. Activity(g)' = x
    <3>1. g = f
      BY <1>4 DEF Notice
    <3>2. QED
      BY <1>2, <3>1 DEF Activity, Chosen
  <2>4. QED
    BY <1>2, <2>2, <2>3 DEF Promise!Notice
<1>5. QED
  BY <1>3, <1>4

\* A call by a thread, when the activities take notice of what it changes.
NoticeTaken ==
  activities' = [d \in DOMAIN activities |-> Promise!Notice(activities[d], ToSet(kb'))]

LEMMA CallRefines ==
  ASSUME NEW t, UNCHANGED event_queue, NoticeTaken,
         Change(t) \/ (t \in Clients /\ \E f \in Procedures : Owe(t, "call", f) /\ UNCHANGED kb)
  PROVE  Promise!Call(t)
<1>1. pending[t] = NoEvent
  BY DEF Change, AssertBelief, RetractBelief, PostReactor, Owe
<1>2. \/ \E f \in Beliefs :
           \/ /\ f \notin ToSet(kb)
              /\ kb' = Append(kb, f)
              /\ pending' = [pending EXCEPT ![t] = [type |-> "add", bel |-> f]]
           \/ /\ \E i \in DOMAIN kb : kb[i] = f /\ kb' = RemoveAt(kb, i)
              /\ pending' = [pending EXCEPT ![t] = [type |-> "del", bel |-> f]]
      \/ \E f \in Reactors :
           pending' = [pending EXCEPT ![t] = [type |-> "add", bel |-> f]] /\ UNCHANGED kb
      \/ \E f \in Procedures :
           /\ t \in Clients
           /\ pending' = [pending EXCEPT ![t] = [type |-> "call", bel |-> f]]
           /\ UNCHANGED kb
  <2>1. CASE Change(t)
    BY <2>1 DEF Change, AssertBelief, RetractBelief, PostReactor, Owe
  <2>2. CASE t \in Clients /\ \E f \in Procedures : Owe(t, "call", f) /\ UNCHANGED kb
    BY <2>2 DEF Owe
  <2>3. QED
    BY <2>1, <2>2
<1>3. QED
  BY <1>1, <1>2, SameSequences DEF Promise!Call, NoticeTaken, activities

LEMMA ClientCallRefines ==
  ASSUME CycleInv, TypeOK', NEW t \in Clients, ClientCall(t)
  PROVE  Promise!Call(t)
<1>1. PICK bs : bs = ToSet(kb')
  OBVIOUS
<1>2. /\ TypeOK /\ UNCHANGED heap /\ UNCHANGED event_queue
      /\ stack' = [d \in DOMAIN stack |-> Notice(stack[d], bs)]
      /\ Change(t) \/ \E f \in Procedures : Owe(t, "call", f) /\ UNCHANGED kb
  BY <1>1 DEF CycleInv, ClientCall
<1>3. bs \in SUBSET Beliefs
  BY <1>1 DEF ToSet, TypeOK
<1>4. ASSUME NEW d \in DOMAIN stack
      PROVE  activities'[d] = Promise!Notice(activities[d], bs)
  <2>1. PICK f : f = stack[d]
    OBVIOUS
  <2>2. PICK g : g = Notice(f, bs)
    OBVIOUS
  <2>3. f \in Frame /\ d \in DOMAIN stack' /\ stack'[d] = g
    BY <1>2, <2>1, <2>2, ElementOfSeq DEF TypeOK
  <2>4. activities[d] = Activity(f) /\ activities'[d] = Activity(g)'
    BY <2>1, <2>3, ActivityAt, ActivityAtNext
  <2>5. Activity(g)' = Promise!Notice(Activity(f), bs)
    BY <1>2, <1>3, <2>2, <2>3, NoticeRefines
  <2>6. QED
    BY <2>4, <2>5
<1>5. NoticeTaken
  <2>1. DOMAIN activities' = DOMAIN stack /\ DOMAIN activities = DOMAIN stack
    BY <1>2, ActivityAt, ActivityAtNext
  <2>2. PICK a : a = activities
    OBVIOUS
  <2>3. PICK b : b = activities'
    OBVIOUS
  <2>4. b = [d \in DOMAIN stack |-> b[d]]
    <3>1. b = [d \in DOMAIN stack' |-> b[d]]
      BY <2>3 DEF activities
    <3>2. QED
      BY <1>2, <3>1
  <2>5. \A d \in DOMAIN stack : b[d] = Promise!Notice(a[d], bs)
    BY <1>4, <2>2, <2>3
  <2>6. b = [d \in DOMAIN stack |-> Promise!Notice(a[d], bs)]
    BY <2>4, <2>5
  <2>7. QED
    BY <1>1, <2>1, <2>2, <2>3, <2>6 DEF NoticeTaken
<1>6. QED
  BY <1>2, <1>5, CallRefines

LEMMA BodyChangeRefines ==
  ASSUME CycleInv, SelectionInv, BodyChange
  PROVE  Promise!AtStatement /\ Promise!Call(EngineThread)
<1>1. PICK bs : bs = ToSet(kb')
  OBVIOUS
<1>2. /\ TypeOK /\ CallersInv /\ UNCHANGED <<event_queue, heap, stack>> /\ Change(EngineThread)
      /\ stack # <<>> /\ top.pc = "body" /\ pending[EngineThread] = NoEvent
  BY DEF CycleInv, SelectionInv, BodyChange, Statement, InBody, At
<1>3. /\ Depth \in DOMAIN stack /\ Depth \in Nat \ {0} /\ DOMAIN stack = 1 .. Depth
      /\ top = stack[Depth]
  BY <1>2, TopFrame
<1>4. activities' = activities
  BY <1>2 DEF activities, Activity, Chosen
<1>5. ASSUME NEW d \in DOMAIN stack
      PROVE  activities[d] = Promise!Notice(activities[d], bs)
  <2>1. stack[d].pc = "body"
    <3>1. d = Depth \/ d < Depth
      BY <1>3
    <3>2. QED
      BY <1>2, <1>3, <3>1 DEF CallersInv
  <2>2. PICK x : x = activities[d]
    OBVIOUS
  <2>3. x.phase = "body"
    BY <2>1, <2>2, ActivityAt, ActivityFields
  <2>4. Promise!Notice(x, bs) = x
    BY <2>3 DEF Promise!Notice
  <2>5. QED
    BY <2>2, <2>4
<1>6. NoticeTaken
  <2>1. DOMAIN activities = DOMAIN stack
    BY ActivityAt
  <2>2. PICK a : a = activities
    OBVIOUS
  <2>3. a = [d \in DOMAIN stack |-> a[d]]
    BY <2>2 DEF activities
  <2>4. \A d \in DOMAIN stack : a[d] = Promise!Notice(a[d], bs)
    BY <1>5, <2>2
  <2>5. a = [d \in DOMAIN stack |-> Promise!Notice(a[d], bs)]
    BY <2>3, <2>4
  <2>6. QED
    BY <1>1, <1>4, <2>1, <2>2, <2>5 DEF NoticeTaken
<1>7. Promise!Call(EngineThread)
  BY <1>2, <1>6, CallRefines
<1>8. Promise!AtStatement
  <2>1. PICK y : y = Last(activities)
    OBVIOUS
  <2>2. activities # <<>> /\ Len(activities) = Depth
    BY <1>2, ActivitiesDeep
  <2>3. y = Activity(top)
    BY <1>3, <2>1, <2>2, ActivityAt DEF Last
  <2>4. y.phase = "body"
    BY <1>2, <2>3, ActivityFields
  <2>5. QED
    BY <1>2, <2>1, <2>2, <2>4, SameSequences
       DEF Promise!AtStatement, Promise!In, Promise!current, activities
<1>9. QED
  BY <1>7, <1>8

LEMMA PromiseInit ==
  ASSUME Init
  PROVE  Promise!Init
<1>1. /\ kb = <<>> /\ event_queue = <<>> /\ stack = <<>>
      /\ pending = [t \in Threads |-> NoEvent]
  BY DEF Init
<1>2. activities = <<>>
  BY <1>1 DEF activities
<1>3. QED
  BY <1>1, <1>2 DEF Promise!Init, Promise!Threads, Threads, activities

LEMMA PromiseStep ==
  ASSUME CycleInv, SelectionInv, [Next]_vars, TypeOK'
  PROVE  [Promise!Next]_(Promise!vars)
<1>1. CASE PopEvent
  BY <1>1, PopEventRefines DEF Promise!Next
<1>2. CASE Select
  <2>1. CASE AllTested
    BY <2>1, AllTestedRefines DEF Promise!Next
  <2>2. QED
    BY <1>2, <2>1, TestRefines, FirstRefines, NextRefines, RoundRefines DEF Select
<1>3. CASE Execute
  BY <1>3, StartBodyRefines, BodyCutRefines, FinishRefines, CleanRefines, EmptyCollectorRefines
     DEF Execute, Promise!Next
<1>4. CASE Push(EngineThread)
  BY <1>4, PushRefines DEF Promise!Next, Threads
<1>5. CASE BodyChange
  BY <1>5, BodyChangeRefines DEF Promise!Next
<1>6. CASE BodyCall
  BY <1>6, BodyCallRefines DEF Promise!Next
<1>7. CASE ClientStep
  <2>1. PICK t \in Clients : ClientCall(t) \/ Push(t)
    BY <1>7 DEF ClientStep
  <2>2. Promise!Call(t) \/ Promise!Post(t)
    BY <2>1, ClientCallRefines, PushRefines DEF Threads
  <2>3. QED
    BY <2>2 DEF Promise!Next
<1>8. CASE UNCHANGED vars
  BY <1>8 DEF vars, Promise!vars, Activity, Chosen
<1>9. QED
  BY <1>1, <1>2, <1>3, <1>4, <1>5, <1>6, <1>7, <1>8 DEF Next, EngineStep

\* The engine does what Engine promises, step by step, whatever the plans, the threads and
\* the number of contexts (engine.cpp:192-295, context.cpp:52-60).
THEOREM EngineImplemented == OrderedPlans => (Spec => ImplementsEngine)
<1>1. Init => Promise!Init
  BY PromiseInit
<1>2. CycleInv /\ SelectionInv /\ [Next]_vars /\ TypeOK' => [Promise!Next]_(Promise!vars)
  BY PromiseStep
<1>3. CycleInv => TypeOK
  BY DEF CycleInv
<1>4. QED
  BY <1>1, <1>2, <1>3, SelectionInvariant, PTL DEF Spec, ImplementsEngine, Promise!Spec
===============================================================================
