---------------------------- MODULE PackerProofs ----------------------------
(***************************************************************************)
(* Proofs about Packer, for any working tree, any number of builds and edits *)
(* and any install plan: in which order a plan runs and which plans are        *)
(* rejected (InstallPlan), and what an artifact holds.                        *)
(***************************************************************************)
EXTENDS Packer, SequenceTheorems, WellFoundedInduction, TLAPS

-----------------------------------------------------------------------------
(* Install plans: the invariant of the depth-first search *)

UniqueIds == \A i, j \in DOMAIN steps : steps[i].id = steps[j].id => i = j

PlanTypes ==
    /\ IsPlan(steps)
    /\ phase \in {"new", "visiting", "ordered", "rejected"}
    /\ marks \in [progress : SUBSET Known, done : SUBSET Known]
    /\ stack \in Seq(Frame)
    /\ next \in 1..(Len(steps) + 1)
    /\ order \in Seq(Known)

\* What is ordered is ordered once, after all it depends on.
OrderInv ==
    /\ marks.done = {order[i] : i \in 1..Len(order)}
    /\ \A i, j \in 1..Len(order) : order[i] = order[j] => i = j
    /\ \A i \in 1..Len(order) :
         ToSet(DependsOn(order[i])) \subseteq {order[j] : j \in 1..(i - 1)}

\* The plan passed the checks that come before the search.
Valid ==
    /\ UniqueIds
    /\ \A i \in DOMAIN steps : ToSet(steps[i].depends_on) \subseteq Known \ {steps[i].id}

\* A frame has visited the dependencies before `at`, but for the one whose
\* frame is above it.
FrameInv(k) ==
    /\ stack[k].node \in Known
    /\ stack[k].at \in 1..(Len(DependsOn(stack[k].node)) + 1)
    /\ \A j \in 1..(stack[k].at - 1) :
         \/ DependsOn(stack[k].node)[j] \in marks.done
         \/ k < Len(stack) /\ j = stack[k].at - 1
    /\ k < Len(stack) =>
         /\ stack[k].at > 1
         /\ DependsOn(stack[k].node)[stack[k].at - 1] = stack[k + 1].node

\* The marks in progress are those of the frames.
StackInv ==
    /\ marks.progress = {stack[k].node : k \in 1..Len(stack)}
    /\ \A k, l \in 1..Len(stack) : stack[k].node = stack[l].node => k = l
    /\ marks.progress \cap marks.done = {}

\* The steps before `next` are done, but for the one at the bottom of the stack.
StepsInv ==
    \A i \in 1..(next - 1) :
        \/ steps[i].id \in marks.done
        \/ Len(stack) > 0 /\ stack[1].node = steps[i].id

PlanInv ==
    /\ PlanTypes /\ OrderInv
    /\ phase = "new" => Fresh
    /\ phase \in {"visiting", "ordered"} => Valid
    /\ phase # "rejected" => StackInv
    /\ phase = "visiting" => StepsInv /\ \A k \in 1..Len(stack) : FrameInv(k)
    /\ phase = "ordered" => marks.done = Known
    /\ phase = "rejected" => ~ Sound

-----------------------------------------------------------------------------
(* The plan *)

LEMMA Element ==
    ASSUME NEW S, NEW s \in Seq(S), NEW i \in DOMAIN s
    PROVE  s[i] \in S /\ i \in 1..Len(s)
OBVIOUS

LEMMA StepTyped ==
    ASSUME IsPlan(steps), NEW i \in DOMAIN steps
    PROVE  /\ steps[i].id \in Ids /\ steps[i].depends_on \in Seq(Ids)
           /\ i \in 1..Len(steps)
<1>1. steps[i] \in [id : Ids, depends_on : Seq(Ids)] /\ i \in 1..Len(steps)
  BY Element DEF IsPlan
<1> QED
  BY <1>1

\* DependsOn finds the step.
LEMMA StepOf ==
    ASSUME IsPlan(steps), NEW n \in Known
    PROVE  \E i \in DOMAIN steps : steps[i].id = n /\ DependsOn(n) = steps[i].depends_on
<1>1. \E i \in DOMAIN steps : steps[i].id = n
  BY DEF Known
<1> DEFINE c == CHOOSE i \in DOMAIN steps : steps[i].id = n
<1>2. c \in DOMAIN steps /\ steps[c].id = n
  BY <1>1
<1>3. DependsOn(n) = steps[c].depends_on
  BY DEF DependsOn
<1> QED
  BY <1>2, <1>3

LEMMA DependsOnTyped ==
    ASSUME IsPlan(steps), NEW n \in Known
    PROVE  DependsOn(n) \in Seq(Ids)
<1>1. PICK i \in DOMAIN steps : DependsOn(n) = steps[i].depends_on
  BY StepOf
<1> QED
  BY <1>1, StepTyped

LEMMA KnownTyped == ASSUME IsPlan(steps) PROVE Known \subseteq Ids
BY StepTyped DEF Known

\* In a valid plan a dependency is another step.
LEMMA DependencyKnown ==
    ASSUME IsPlan(steps), Valid, NEW n \in Known, NEW j \in 1..Len(DependsOn(n))
    PROVE  DependsOn(n)[j] \in Known /\ DependsOn(n)[j] # n
<1>1. PICK i \in DOMAIN steps : steps[i].id = n /\ DependsOn(n) = steps[i].depends_on
  BY StepOf
<1>2. DependsOn(n)[j] \in ToSet(DependsOn(n))
  BY DependsOnTyped DEF ToSet
<1> QED
  BY <1>1, <1>2 DEF Valid

\* With unique ids, DependsOn is the step's list.
LEMMA DependsOnIs ==
    ASSUME IsPlan(steps), UniqueIds, NEW i \in DOMAIN steps
    PROVE  DependsOn(steps[i].id) = steps[i].depends_on
<1>1. steps[i].id \in Known
  BY DEF Known
<1>2. PICK k \in DOMAIN steps : steps[k].id = steps[i].id /\ DependsOn(steps[i].id) = steps[k].depends_on
  BY <1>1, StepOf
<1> QED
  BY <1>2 DEF UniqueIds

LEMMA UniqueIsInjective == UniqueIds <=> IsInjective([i \in DOMAIN steps |-> steps[i].id])
BY DEF UniqueIds, IsInjective

LEMMA Least ==
    ASSUME NEW T, T \subseteq Nat, T # {}
    PROVE  \E m \in T : \A k \in T : m <= k
<1>1. PICK m \in T : \A k \in T : ~ (<<k, m>> \in OpToRel(<, Nat))
  <2>1. IsWellFoundedOn(OpToRel(<, Nat), Nat)
    BY NatLessThanWellFounded, Zenon
  <2> QED
    BY <2>1, WFMin
<1>2. \A k \in T : <<k, m>> \in OpToRel(<, Nat) <=> k < m
  BY DEF OpToRel
<1>3. ASSUME NEW k \in T PROVE m <= k
  <2>1. ~ (k < m)
    BY <1>1, <1>2
  <2> QED
    BY <2>1
<1> QED
  BY <1>3

\* An order of all the steps in which dependencies come first rules out a cycle.
LEMMA OrderedAcyclic ==
    ASSUME PlanTypes, OrderInv, marks.done = Known
    PROVE  ~ Cyclic
<1> SUFFICES ASSUME NEW C \in SUBSET Known, C # {},
                    \A n \in C : ToSet(DependsOn(n)) \cap C # {}
             PROVE  FALSE
  BY DEF Cyclic
<1> DEFINE I == {i \in 1..Len(order) : order[i] \in C}
<1>1. I # {}
  <2>1. PICK n \in C : n \in marks.done
    OBVIOUS
  <2>2. PICK i \in 1..Len(order) : order[i] = n
    BY <2>1 DEF OrderInv
  <2> QED
    BY <2>2
<1>2. PICK i \in I : \A j \in I : i <= j
  <2>1. I \subseteq Nat
    BY DEF PlanTypes
  <2> QED
    BY <1>1, <2>1, Least
<1>3. PICK d \in C : d \in ToSet(DependsOn(order[i]))
  BY <1>2
<1>4. PICK j \in 1..(i - 1) : d = order[j]
  <2>1. i \in 1..Len(order)
    BY <1>2
  <2>2. ToSet(DependsOn(order[i])) \subseteq {order[k] : k \in 1..(i - 1)}
    BY <2>1 DEF OrderInv
  <2> QED
    BY <1>3, <2>2
<1>5. j \in I
  BY <1>2, <1>3, <1>4 DEF PlanTypes
<1> QED
  BY <1>2, <1>4, <1>5


-----------------------------------------------------------------------------
(* The stack *)

LEMMA FrontShape ==
    ASSUME NEW S, NEW s \in Seq(S), s # <<>>
    PROVE  /\ Front(s) \in Seq(S) /\ Len(Front(s)) = Len(s) - 1
           /\ \A k \in 1..(Len(s) - 1) : Front(s)[k] = s[k]
           /\ Last(s) = s[Len(s)] /\ Len(s) >= 1 /\ Len(s) \in Nat
<1> DEFINE n == Len(s)
           t == Front(s)
<1>1. n \in Nat /\ n >= 1 /\ \A i \in 1..n : s[i] \in S
  OBVIOUS
<1>2. t = SubSeq(s, 1, n - 1) /\ Last(s) = s[n]
  BY DEF Front, Last
<1> HIDE DEF n, t
<1>3. /\ t \in Seq(S)
      /\ Len(t) = IF 1 <= n - 1 THEN n - 1 - 1 + 1 ELSE 0
      /\ \A i \in 1..(n - 1 - 1 + 1) : t[i] = s[1 + i - 1]
  BY <1>1, <1>2, SubSeqProperties
<1>4. ASSUME NEW k \in 1..(n - 1) PROVE t[k] = s[k]
  <2>1. 1 + k - 1 = k /\ k \in 1..(n - 1 - 1 + 1)
    BY <1>1
  <2> QED
    BY <1>3, <2>1
<1>5. Len(t) = n - 1
  BY <1>1, <1>3
<1> QED
  BY <1>1, <1>2, <1>3, <1>4, <1>5 DEF n, t

\* The frame below goes on, a frame is added, a frame is removed.
LEMMA StackShapes ==
    ASSUME NEW s \in Seq(Frame), NEW f \in Frame
    PROVE  /\ Append(s, f) \in Seq(Frame) /\ Len(Append(s, f)) = Len(s) + 1
           /\ \A k \in 1..Len(s) : Append(s, f)[k] = s[k]
           /\ Append(s, f)[Len(s) + 1] = f
           /\ s # <<>> => /\ Front(s) \in Seq(Frame) /\ Len(Front(s)) = Len(s) - 1
                          /\ \A k \in 1..(Len(s) - 1) : Front(s)[k] = s[k]
                          /\ Last(s) = s[Len(s)] /\ Len(s) >= 1
<1>1. /\ Append(s, f) \in Seq(Frame) /\ Len(Append(s, f)) = Len(s) + 1
      /\ \A k \in 1..Len(s) : Append(s, f)[k] = s[k]
      /\ Append(s, f)[Len(s) + 1] = f
  OBVIOUS
<1>2. ASSUME s # <<>>
      PROVE  /\ Front(s) \in Seq(Frame) /\ Len(Front(s)) = Len(s) - 1
             /\ \A k \in 1..(Len(s) - 1) : Front(s)[k] = s[k]
             /\ Last(s) = s[Len(s)] /\ Len(s) >= 1
  BY <1>2, FrontShape
<1> QED
  BY <1>1, <1>2

\* The part of the state a call of visit() leaves alone.
Kept == steps' = steps /\ order' = order

LEMMA KeptFacts ==
    ASSUME Kept
    PROVE  /\ Known' = Known /\ \A n : DependsOn(n)' = DependsOn(n)
           /\ IsPlan(steps)' = IsPlan(steps)
           /\ Valid' = Valid /\ Sound' = Sound /\ UniqueIds' = UniqueIds
BY DEF Kept, Known, DependsOn, Valid, Sound, UniqueIds, Cyclic, IsPlan

LEMMA OrderAfter ==
    ASSUME steps' = steps, NEW o, order' = o,
           marks'.done = {o[i] : i \in 1..Len(o)},
           \A i, j \in 1..Len(o) : o[i] = o[j] => i = j,
           \A i \in 1..Len(o) : ToSet(DependsOn(o[i])) \subseteq {o[j] : j \in 1..(i - 1)}
    PROVE  OrderInv'
<1>1. ASSUME NEW i \in 1..Len(o)
      PROVE  (ToSet(DependsOn(order[i])) \subseteq {order[j] : j \in 1..(i - 1)})'
  <2>1. DependsOn(order[i])' = DependsOn(o[i])
    BY DEF DependsOn
  <2>2. ToSet(DependsOn(o[i])) \subseteq {o[j] : j \in 1..(i - 1)}
    OBVIOUS
  <2>3. PICK x : x = DependsOn(o[i])
    OBVIOUS
  <2>4. DependsOn(order[i])' = x /\ ToSet(x) \subseteq {o[j] : j \in 1..(i - 1)}
    BY <2>1, <2>2, <2>3
  <2>5. ToSet(DependsOn(order[i]))' = ToSet(x)
    BY <2>4 DEF ToSet
  <2> QED
    BY <2>4, <2>5
<1>2. (\A i \in 1..Len(order) :
         ToSet(DependsOn(order[i])) \subseteq {order[j] : j \in 1..(i - 1)})'
  BY <1>1
<1>3. (marks.done = {order[i] : i \in 1..Len(order)})'
  OBVIOUS
<1>4. (\A i, j \in 1..Len(order) : order[i] = order[j] => i = j)'
  OBVIOUS
<1> QED
  BY <1>2, <1>3, <1>4 DEF OrderInv

LEMMA OrderKept ==
    ASSUME Kept, PlanTypes, OrderInv, marks'.done = marks.done
    PROVE  OrderInv' /\ order' \in Seq(Known')
<1>1. steps' = steps /\ order' = order /\ order' \in Seq(Known')
  BY KeptFacts DEF Kept, PlanTypes
<1>2. PICK o : o = order
  OBVIOUS
<1>3. /\ marks'.done = {o[i] : i \in 1..Len(o)}
      /\ \A i, j \in 1..Len(o) : o[i] = o[j] => i = j
      /\ \A i \in 1..Len(o) : ToSet(DependsOn(o[i])) \subseteq {o[j] : j \in 1..(i - 1)}
  BY <1>2 DEF OrderInv
<1>4. order' = o /\ marks'.done = {o[i] : i \in 1..Len(o)}
  BY <1>1, <1>2, <1>3
<1>5. OrderInv'
  BY <1>1, <1>3, <1>4, OrderAfter
<1> QED
  BY <1>1, <1>5

LEMMA StackAfter ==
    ASSUME NEW s, stack' = s, NEW p, marks'.progress = p,
           \A k \in 1..Len(s) : s[k].node \in p,
           \A n \in p : \E k \in 1..Len(s) : s[k].node = n,
           \A k, l \in 1..Len(s) : s[k].node = s[l].node => k = l,
           \A n \in p : n \notin marks'.done
    PROVE  StackInv'
<1>1. p = {s[k].node : k \in 1..Len(s)}
  OBVIOUS
<1>2. p \cap marks'.done = {}
  OBVIOUS
<1> QED
  BY <1>1, <1>2 DEF StackInv

LEMMA StackSays ==
    ASSUME StackInv
    PROVE  /\ \A k \in 1..Len(stack) : stack[k].node \in marks.progress
           /\ \A n \in marks.progress : \E k \in 1..Len(stack) : stack[k].node = n
           /\ \A k, l \in 1..Len(stack) : stack[k].node = stack[l].node => k = l
           /\ \A n \in marks.progress : n \notin marks.done
BY DEF StackInv

\* When the top frame meets an id in progress, the frames are a cycle.
LEMMA StackIsCycle ==
    ASSUME PlanTypes, Valid, StackInv, stack # <<>>,
           \A k \in 1..Len(stack) : FrameInv(k),
           Top.at <= Len(DependsOn(Top.node)),
           DependsOn(Top.node)[Top.at] \in marks.progress
    PROVE  Cyclic
<1>1. marks.progress \in SUBSET Known /\ stack \in Seq(Frame) /\ IsPlan(steps)
  BY DEF PlanTypes
<1>2. Len(stack) \in 1..Len(stack) /\ Top = stack[Len(stack)]
  BY <1>1 DEF Top, Last
<1>3. stack[Len(stack)].node \in marks.progress
  BY <1>2 DEF StackInv
<1>4. ASSUME NEW k \in 1..Len(stack)
      PROVE  \E j \in 1..Len(DependsOn(stack[k].node)) :
                 DependsOn(stack[k].node)[j] \in marks.progress
  <2>0. FrameInv(k) /\ stack[k].node \in Known
    BY DEF FrameInv
  <2>1. CASE k = Len(stack)
    BY <1>2, <2>0, <2>1 DEF FrameInv
  <2>2. CASE k < Len(stack)
    <3>1. DependsOn(stack[k].node)[stack[k].at - 1] = stack[k + 1].node
      BY <2>0, <2>2 DEF FrameInv
    <3>2. stack[k].at - 1 \in 1..Len(DependsOn(stack[k].node))
      <4>1. DependsOn(stack[k].node) \in Seq(Ids)
        BY <1>1, <2>0, DependsOnTyped
      <4> QED
        BY <2>0, <2>2, <4>1 DEF FrameInv
    <3>3. k + 1 \in 1..Len(stack)
      BY <1>1, <2>2
    <3>4. stack[k + 1].node \in marks.progress
      BY <3>3 DEF StackInv
    <3> QED
      BY <3>1, <3>2, <3>4
  <2> QED
    BY <1>1, <2>1, <2>2
<1>5. ASSUME NEW n \in marks.progress
      PROVE  ToSet(DependsOn(n)) \cap marks.progress # {}
  <2>1. PICK k \in 1..Len(stack) : stack[k].node = n
    BY DEF StackInv
  <2>2. PICK j \in 1..Len(DependsOn(n)) : DependsOn(n)[j] \in marks.progress
    BY <1>4, <2>1
  <2>3. DependsOn(n) \in Seq(Ids)
    BY <1>1, DependsOnTyped
  <2> QED
    BY <2>2, <2>3 DEF ToSet
<1> QED
  BY <1>1, <1>3, <1>5 DEF Cyclic

-----------------------------------------------------------------------------
(* Every step preserves the invariant *)

LEMMA PlanFresh == IsPlan(steps) /\ Fresh => PlanInv
BY DEF PlanInv, PlanTypes, OrderInv, StackInv, Fresh

LEMMA PlanStutter == PlanInv /\ UNCHANGED vars => PlanInv'
<1> SUFFICES ASSUME PlanInv, UNCHANGED vars PROVE PlanInv'
  OBVIOUS
<1> USE DEF vars
<1>1. PlanTypes' /\ OrderInv' /\ StackInv' = StackInv /\ Fresh' = Fresh
  BY KeptFacts, OrderKept DEF PlanInv, PlanTypes, StackInv, Fresh, Kept
<1>2. Valid' = Valid /\ Sound' = Sound /\ Known' = Known
  BY KeptFacts DEF Kept
<1>3. StepsInv' = StepsInv /\ \A k \in 1..Len(stack) : FrameInv(k)' = FrameInv(k)
  BY DEF StepsInv, FrameInv, DependsOn, Known
<1> QED
  BY <1>1, <1>2, <1>3 DEF PlanInv

\* Ids that are not unique, dependencies unknown or on oneself: not sound.
LEMMA PlanValidate == PlanInv /\ ValidateGraph => PlanInv'
<1> SUFFICES ASSUME PlanInv, ValidateGraph PROVE PlanInv'
  OBVIOUS
<1>1. /\ phase = "new" /\ phase' = IF Valid THEN "visiting" ELSE "rejected"
      /\ Kept /\ UNCHANGED <<marks, stack, next>> /\ Fresh /\ IsPlan(steps)
  BY UniqueIsInjective DEF ValidateGraph, Valid, Kept, PlanInv, PlanTypes
<1>2. /\ PlanTypes' /\ OrderInv' /\ StackInv' /\ StepsInv'
      /\ Len(stack') = 0
  BY <1>1, KeptFacts DEF PlanInv, PlanTypes, OrderInv, StackInv, StepsInv, Fresh, Kept
<1>3. CASE Valid
  BY <1>1, <1>2, <1>3, KeptFacts DEF PlanInv
<1>4. CASE ~ Valid
  <2>1. ~ Sound
    <3> SUFFICES ASSUME Sound PROVE FALSE
      OBVIOUS
    <3>1. UniqueIds
      BY UniqueIsInjective DEF Sound
    <3>2. PICK i \in DOMAIN steps : steps[i].id \in ToSet(steps[i].depends_on)
      BY <1>4, <3>1 DEF Sound, Valid
    <3>3. DependsOn(steps[i].id) = steps[i].depends_on
      BY <1>1, <3>1, DependsOnIs
    <3>4. Cyclic
      <4>1. {steps[i].id} \in SUBSET Known
        BY DEF Known
      <4>2. ToSet(DependsOn(steps[i].id)) \cap {steps[i].id} # {}
        BY <3>2, <3>3
      <4> QED
        BY <4>1, <4>2 DEF Cyclic
    <3> QED
      BY <3>4 DEF Sound
  <2> QED
    BY <1>1, <1>2, <1>4, <2>1, KeptFacts DEF PlanInv
<1> QED
  BY <1>3, <1>4

\* The search is over: every step is done.
LEMMA PlanEnd == PlanInv /\ End => PlanInv'
<1> SUFFICES ASSUME PlanInv, End PROVE PlanInv'
  OBVIOUS
<1>1. /\ phase = "visiting" /\ phase' = "ordered" /\ stack = <<>> /\ next > Len(steps)
      /\ Kept /\ UNCHANGED <<marks, stack, next>>
  BY DEF End, Kept
<1>2. marks.done = Known
  <2>1. ASSUME NEW n \in Known PROVE n \in marks.done
    <3>1. PICK i \in DOMAIN steps : steps[i].id = n
      BY DEF Known
    <3>2. i \in 1..(next - 1)
      <4>1. i \in 1..Len(steps) /\ next \in 1..(Len(steps) + 1) /\ Len(steps) \in Nat
        BY StepTyped DEF PlanInv, PlanTypes, IsPlan
      <4> QED
        BY <1>1, <4>1
    <3>3. Len(stack) = 0
      BY <1>1
    <3> QED
      BY <1>1, <3>1, <3>2, <3>3 DEF PlanInv, StepsInv
  <2>2. marks.done \subseteq Known
    BY DEF PlanInv, PlanTypes
  <2> QED
    BY <2>1, <2>2
<1>3. PlanTypes' /\ OrderInv' /\ StackInv'
  <2>1. PlanTypes /\ OrderInv /\ StackInv
    BY <1>1 DEF PlanInv
  <2>2. OrderInv'
    BY <1>1, <2>1, OrderKept
  <2>3. PlanTypes'
    BY <1>1, <2>1, KeptFacts DEF PlanTypes, Kept
  <2> QED
    BY <1>1, <2>1, <2>2, <2>3 DEF StackInv
<1> QED
  BY <1>1, <1>2, <1>3, KeptFacts DEF PlanInv

\* A call of visit() by the outer loop: the stack is empty.
LEMMA PlanVisitStep == PlanInv /\ VisitStep => PlanInv'
<1> SUFFICES ASSUME PlanInv, VisitStep PROVE PlanInv'
  OBVIOUS
<1>n. PICK n : n = steps[next].id
  OBVIOUS
<1>1. /\ phase = "visiting" /\ stack = <<>> /\ next <= Len(steps) /\ next' = next + 1
      /\ Kept /\ Visit(n, stack)
  BY <1>n DEF VisitStep, Kept
<1>2. /\ PlanTypes /\ OrderInv /\ Valid /\ StackInv /\ StepsInv
      /\ Len(stack) = 0 /\ marks.progress = {}
  BY <1>1 DEF PlanInv, StackInv
<1>3. next \in DOMAIN steps /\ n \in Known /\ n \in Ids
  <2>1. next \in 1..Len(steps) /\ IsPlan(steps)
    BY <1>1, <1>2 DEF PlanTypes
  <2>2. next \in DOMAIN steps
    BY <2>1 DEF IsPlan
  <2> QED
    BY <1>n, <2>1, <2>2, StepTyped DEF Known
<1>4. next' \in 1..(Len(steps') + 1) /\ next' - 1 = next
  BY <1>1, <1>2 DEF PlanTypes, Kept
<1>5. CASE n \in marks.done
  <2>1. stack' = <<>> /\ UNCHANGED <<marks, phase>>
    BY <1>1, <1>2, <1>5 DEF Visit
  <2>2. PlanTypes' /\ OrderInv' /\ StackInv'
    BY <1>1, <1>2, <1>4, <2>1, KeptFacts, OrderKept DEF PlanTypes, StackInv
  <2>3. StepsInv'
    <3>1. \A i \in 1..next : steps[i].id \in marks.done
      BY <1>n, <1>2, <1>4, <1>5 DEF StepsInv
    <3> QED
      BY <1>1, <1>4, <2>1, <3>1 DEF StepsInv, Kept
  <2> QED
    BY <1>1, <1>2, <2>1, <2>2, <2>3, KeptFacts DEF PlanInv
<1>6. CASE n \notin marks.done
  <2> DEFINE f == [node |-> n, at |-> 1]
  <2>1. /\ stack' = Append(stack, f) /\ phase' = phase
        /\ marks' = [marks EXCEPT !.progress = @ \cup {n}]
    BY <1>1, <1>2, <1>6 DEF Visit
  <2>2. f \in Frame /\ f.node = n /\ f.at = 1
    BY <1>3 DEF Frame
  <2> HIDE DEF f
  <2>3. stack' \in Seq(Frame) /\ Len(stack') = 1 /\ stack'[1] = f
    BY <1>2, <2>1, <2>2, StackShapes DEF PlanTypes
  <2>4. /\ marks' \in [progress : SUBSET Known, done : SUBSET Known]
        /\ marks'.done = marks.done /\ marks'.progress = {n}
    BY <1>2, <1>3, <2>1 DEF PlanTypes
  <2>5. PlanTypes' /\ OrderInv'
    BY <1>1, <1>2, <1>4, <2>1, <2>3, <2>4, KeptFacts, OrderKept DEF PlanTypes
  <2>6. StackInv'
    BY <1>6, <2>2, <2>3, <2>4 DEF StackInv
  <2>7. StepsInv'
    <3>1. \A i \in 1..(next - 1) : steps[i].id \in marks.done
      BY <1>2 DEF StepsInv
    <3> QED
      BY <1>n, <1>1, <1>2, <1>4, <2>2, <2>3, <2>4, <3>1 DEF StepsInv, Kept, PlanTypes
  <2>8. FrameInv(1)'
    <3>1. Len(DependsOn(n)) \in Nat
      BY <1>2, <1>3, DependsOnTyped DEF PlanTypes
    <3>2. stack'[1].node = n /\ stack'[1].at = 1 /\ DependsOn(n)' = DependsOn(n) /\ Known' = Known
      BY <1>1, <2>2, <2>3, KeptFacts
    <3>3. DependsOn(stack[1].node)' = DependsOn(n)
      BY <1>1, <3>2 DEF DependsOn, Kept
    <3> QED
      BY <1>3, <2>3, <3>1, <3>2, <3>3 DEF FrameInv
  <2>9. \A k \in 1..Len(stack') : FrameInv(k)'
    BY <2>3, <2>8
  <2> QED
    BY <1>1, <1>2, <2>1, <2>5, <2>6, <2>7, <2>9, KeptFacts DEF PlanInv
<1> QED
  BY <1>5, <1>6

\* A call of visit() by visit(), for its next dependency.
LEMMA PlanVisitDependency == PlanInv /\ VisitDependency => PlanInv'
<1> SUFFICES ASSUME PlanInv, VisitDependency PROVE PlanInv'
  OBVIOUS
<1>n. PICK n, m, d, below : /\ m = Len(stack) /\ n = Top.node /\ d = DependsOn(n)[Top.at]
                            /\ below = Append(Front(stack), [Top EXCEPT !.at = @ + 1])
  OBVIOUS
<1>1. /\ phase = "visiting" /\ stack # <<>> /\ Top.at <= Len(DependsOn(n))
      /\ Kept /\ next' = next /\ Visit(d, below)
  BY <1>n DEF VisitDependency, Kept
<1>2. /\ PlanTypes /\ OrderInv /\ Valid /\ StackInv /\ StepsInv
      /\ \A k \in 1..m : FrameInv(k)
  BY <1>1, <1>n DEF PlanInv
<1>3. /\ m \in Nat /\ m >= 1 /\ Top = stack[m]
      /\ Top \in Frame /\ [Top EXCEPT !.at = @ + 1] \in Frame
      /\ stack \in Seq(Frame)
  <2>1. stack \in Seq(Frame)
    BY <1>2 DEF PlanTypes
  <2>2. m \in Nat /\ m >= 1 /\ Top = stack[m]
    BY <1>1, <1>n, <2>1, FrontShape DEF Top
  <2>3. stack[m] \in Frame
    BY <1>n, <2>1, <2>2
  <2>4. [stack[m] EXCEPT !.at = @ + 1] \in Frame
    BY <2>3 DEF Frame
  <2> QED
    BY <2>1, <2>2, <2>3, <2>4
<1>4. /\ below \in Seq(Frame) /\ Len(below) = m
      /\ \A k \in 1..(m - 1) : below[k] = stack[k]
      /\ below[m].node = n /\ below[m].at = stack[m].at + 1
      /\ \A k \in 1..m : below[k].node = stack[k].node
  <2>1. /\ Front(stack) \in Seq(Frame) /\ Len(Front(stack)) = m - 1
        /\ \A k \in 1..(m - 1) : Front(stack)[k] = stack[k]
    BY <1>1, <1>3, <1>n, FrontShape
  <2>2. PICK g \in Frame : g = [Top EXCEPT !.at = @ + 1]
    BY <1>3
  <2>3. g.node = n /\ g.at = stack[m].at + 1
    BY <1>3, <1>n, <2>2 DEF Frame
  <2>4. /\ below \in Seq(Frame) /\ Len(below) = m
        /\ \A k \in 1..(m - 1) : below[k] = stack[k]
        /\ below[m] = g
    BY <1>3, <1>n, <2>1, <2>2, StackShapes
  <2>5. ASSUME NEW k \in 1..m PROVE below[k].node = stack[k].node
    <3>1. CASE k = m
      BY <1>3, <1>n, <2>3, <2>4, <3>1
    <3>2. CASE k < m
      BY <1>3, <2>4, <3>2
    <3> QED
      BY <1>3, <3>1, <3>2
  <2> QED
    BY <2>3, <2>4, <2>5
<1>5. /\ n \in Known /\ Top.at \in 1..Len(DependsOn(n)) /\ stack[m].at = Top.at
      /\ d \in Known /\ d # n /\ d \in Ids /\ d = DependsOn(n)[Top.at]
      /\ n = stack[m].node
  <2>1. n \in Known /\ FrameInv(m)
    BY <1>2, <1>3, <1>n DEF FrameInv
  <2>2. DependsOn(n) \in Seq(Ids)
    BY <1>2, <2>1, DependsOnTyped DEF PlanTypes
  <2>3. Top.at \in 1..Len(DependsOn(n))
    BY <1>1, <1>3, <1>n, <2>1, <2>2 DEF FrameInv
  <2> QED
    BY <1>2, <1>3, <1>n, <2>1, <2>3, DependencyKnown, KnownTyped DEF PlanTypes
\* The frames below are as they were; the top one has one more dependency behind it.
<1>6. ASSUME NEW s \in Seq(Frame), stack' = s, Len(s) >= m, marks'.done = marks.done,
             Len(s) > m => /\ Len(s) = m + 1
                           /\ s[m + 1].node = d,
             d \in marks.done \/ Len(s) > m,
             \A k \in 1..m : s[k] = below[k],
             NEW k \in 1..m
      PROVE  FrameInv(k)'
  <2>1. /\ \A x : DependsOn(x)' = DependsOn(x)
        /\ Known' = Known
    BY <1>1, KeptFacts
  <2>2. stack'[k].node = stack[k].node
    BY <1>3, <1>4, <1>6
  <2>3. PICK c : c = stack[k].node
    OBVIOUS
  <2>4. DependsOn(stack[k].node)' = DependsOn(c)
    BY <1>1, <2>2, <2>3 DEF DependsOn, Kept
  <2>5. FrameInv(k)
    BY <1>2
  <2>6. CASE k < m
    <3>1. s[k] = stack[k] /\ s[k + 1].node = stack[k + 1].node /\ k < Len(s)
      <4>1. k + 1 \in 1..m /\ k \in 1..(m - 1)
        BY <1>3, <2>6
      <4> QED
        BY <1>3, <1>4, <1>6, <2>6, <4>1
    <3> QED
      BY <1>6, <1>n, <2>1, <2>3, <2>4, <2>5, <2>6, <3>1 DEF FrameInv
  <2>7. CASE k = m
    <3>1. c = n /\ s[k].at = Top.at + 1 /\ s[k].node = n
      BY <1>4, <1>5, <1>6, <2>3, <2>7
    <3>2. Len(DependsOn(n)) \in Nat
      BY <1>2, <1>5, DependsOnTyped DEF PlanTypes
    <3>3. \A j \in 1..(Top.at - 1) : DependsOn(n)[j] \in marks.done
      BY <1>5, <1>n, <2>5, <2>7 DEF FrameInv
    <3>4. \A j \in 1..(s[k].at - 1) : DependsOn(n)[j] \in marks.done \/ (k < Len(s) /\ j = s[k].at - 1)
      BY <1>5, <1>6, <2>7, <3>1, <3>3
    <3>5. s[k].at \in 1..(Len(DependsOn(n)) + 1)
      BY <1>5, <3>1, <3>2
    <3>6. k < Len(s) => s[k].at > 1 /\ DependsOn(n)[s[k].at - 1] = s[k + 1].node
      BY <1>5, <1>6, <2>7, <3>1
    <3> QED
      BY <1>5, <1>6, <2>1, <2>4, <3>1, <3>4, <3>5, <3>6 DEF FrameInv
  <2> QED
    BY <1>3, <2>6, <2>7
<1>7. CASE d \in marks.done
  <2>1. stack' = below /\ UNCHANGED <<marks, phase>>
    BY <1>1, <1>2, <1>7 DEF Visit, StackInv
  <2>2. PlanTypes' /\ OrderInv'
    BY <1>1, <1>2, <1>4, <2>1, KeptFacts, OrderKept DEF PlanTypes, Kept
  <2>3. StackInv'
    <3>1. /\ \A k \in 1..m : below[k].node \in marks.progress
          /\ \A p \in marks.progress : \E k \in 1..m : below[k].node = p
          /\ \A k, l \in 1..m : below[k].node = below[l].node => k = l
          /\ \A p \in marks.progress : p \notin marks.done
      <4>1. /\ \A k \in 1..m : stack[k].node \in marks.progress
            /\ \A p \in marks.progress : \E k \in 1..m : stack[k].node = p
            /\ \A k, l \in 1..m : stack[k].node = stack[l].node => k = l
            /\ \A p \in marks.progress : p \notin marks.done
        BY <1>2, <1>n, StackSays
      <4>2. \A k \in 1..m : below[k].node = stack[k].node
        BY <1>4
      <4> QED
        BY <4>1, <4>2
    <3> QED
      BY SMTT(30), <1>4, <2>1, <3>1, StackAfter
  <2>4. StepsInv'
    BY <1>1, <1>2, <1>3, <1>4, <1>n, <2>1 DEF StepsInv, Kept
  <2>5. \A k \in 1..Len(stack') : FrameInv(k)'
    BY <1>4, <1>6, <1>7, <2>1
  <2> QED
    BY <1>1, <1>2, <2>1, <2>2, <2>3, <2>4, <2>5, KeptFacts DEF PlanInv
<1>8. CASE d \in marks.progress
  <2>1. phase' = "rejected" /\ stack' = below /\ marks' = marks
    BY <1>1, <1>2, <1>8 DEF Visit, StackInv
  <2>2. PlanTypes' /\ OrderInv'
    BY <1>1, <1>2, <1>4, <2>1, KeptFacts, OrderKept DEF PlanTypes, Kept
  <2>3. Cyclic
    BY <1>1, <1>2, <1>5, <1>8, <1>n, StackIsCycle
  <2> QED
    BY <1>1, <2>1, <2>2, <2>3, KeptFacts DEF PlanInv, Sound
<1>9. CASE d \notin marks.done \cup marks.progress
  <2>1. PICK f : f = [node |-> d, at |-> 1]
    OBVIOUS
  <2>2. /\ stack' = Append(below, f) /\ phase' = phase
        /\ marks' = [marks EXCEPT !.progress = @ \cup {d}]
    BY <1>1, <1>9, <2>1 DEF Visit
  <2>3. f \in Frame /\ f.node = d /\ f.at = 1
    BY <1>5, <2>1 DEF Frame
  <2>4. PICK s \in Seq(Frame) :
            /\ s = stack' /\ Len(s) = m + 1 /\ s[m + 1] = f
            /\ \A k \in 1..m : s[k] = below[k]
    BY <1>4, <2>2, <2>3, StackShapes
  <2>5. /\ marks' \in [progress : SUBSET Known, done : SUBSET Known]
        /\ marks'.done = marks.done /\ marks'.progress = marks.progress \cup {d}
    BY <1>2, <1>5, <2>2 DEF PlanTypes
  <2>6. PlanTypes' /\ OrderInv'
    BY <1>1, <1>2, <2>2, <2>4, <2>5, KeptFacts, OrderKept DEF PlanTypes, Kept
  <2>7. \A k \in 1..(m + 1) : s[k].node = IF k = m + 1 THEN d ELSE stack[k].node
    BY <1>3, <1>4, <2>3, <2>4
  <2>8. StackInv'
    <3>1. \A k \in 1..m : stack[k].node \in marks.progress
      BY <1>2, <1>n, StackSays
    <3>2. ASSUME NEW p \in marks'.progress PROVE \E k \in 1..(m + 1) : s[k].node = p
      <4>1. CASE p = d
        BY <1>3, <2>7, <4>1
      <4>2. CASE p \in marks.progress
        <5>1. PICK k \in 1..m : stack[k].node = p
          BY <1>2, <1>n, <4>2, StackSays
        <5> QED
          BY <1>3, <2>7, <5>1
      <4> QED
        BY <2>5, <4>1, <4>2
    <3>4. ASSUME NEW k \in 1..(m + 1) PROVE s[k].node \in marks'.progress
      BY <1>3, <2>5, <2>7, <3>1
    <3>3. ASSUME NEW k \in 1..(m + 1), NEW l \in 1..(m + 1), s[k].node = s[l].node PROVE k = l
      <4>1. CASE k \in 1..m /\ l \in 1..m
        BY SMTT(30), <1>2, <1>3, <1>n, <2>7, <3>3, <4>1 DEF StackInv
      <4>2. CASE k = m + 1 \/ l = m + 1
        BY <1>3, <1>9, <2>7, <3>1, <3>3, <4>2
      <4> QED
        BY <1>3, <4>1, <4>2
    <3> QED
      <4>1. \A p \in marks'.progress : p \notin marks'.done
        BY <1>2, <1>9, <2>5, StackSays
      <4>2. /\ \A k \in 1..Len(s) : s[k].node \in marks'.progress
            /\ \A p \in marks'.progress : \E k \in 1..Len(s) : s[k].node = p
            /\ \A k, l \in 1..Len(s) : s[k].node = s[l].node => k = l
        BY <2>4, <3>2, <3>3, <3>4
      <4>3. PICK p : p = marks'.progress
        OBVIOUS
      <4>4. /\ \A k \in 1..Len(s) : s[k].node \in p
            /\ \A x \in p : \E k \in 1..Len(s) : s[k].node = x
            /\ \A x \in p : x \notin marks'.done
        BY <4>1, <4>2, <4>3
      <4> QED
        BY SMTT(30), <2>4, <4>2, <4>3, <4>4, StackAfter
  <2>9. StepsInv'
    <3>1. stack'[1].node = stack[1].node /\ Len(stack') > 0 /\ Len(stack) > 0
      <4>1. 1 \in 1..(m + 1) /\ 1 # m + 1 /\ m + 1 > 0 /\ m > 0
        BY <1>3
      <4>2. s[1].node = stack[1].node
        BY ONLY <2>7, <4>1
      <4> QED
        BY <1>n, <2>4, <4>1, <4>2
    <3> QED
      BY <1>1, <1>2, <2>5, <3>1 DEF StepsInv, Kept
  <2>10. \A k \in 1..m : FrameInv(k)'
    BY <1>3, <1>6, <2>3, <2>4, <2>5
  <2>11. FrameInv(m + 1)'
    <3>1. Len(DependsOn(d)) \in Nat
      BY <1>2, <1>5, DependsOnTyped DEF PlanTypes
    <3>2. DependsOn(stack[m + 1].node)' = DependsOn(d) /\ Known' = Known
      BY <1>1, <2>3, <2>4, KeptFacts DEF DependsOn, Kept
    <3> QED
      BY SMTT(30), <1>3, <1>5, <2>3, <2>4, <3>1, <3>2 DEF FrameInv
  <2> QED
    BY <1>1, <1>2, <1>3, <2>2, <2>4, <2>6, <2>8, <2>9, <2>10, <2>11, KeptFacts DEF PlanInv
<1> QED
  BY <1>7, <1>8, <1>9

\* A frame whose dependencies are all done is done itself.
LEMMA PlanReturn == PlanInv /\ Return => PlanInv'
<1> SUFFICES ASSUME PlanInv, Return PROVE PlanInv'
  OBVIOUS
<1>n. PICK n, m, s, o : m = Len(stack) /\ n = Top.node /\ s = Front(stack) /\ o = Append(order, n)
  OBVIOUS
<1>1. /\ phase = "visiting" /\ stack # <<>> /\ Top.at > Len(DependsOn(n))
      /\ UNCHANGED <<steps, phase, next>>
      /\ marks' = [progress |-> marks.progress \ {n}, done |-> marks.done \cup {n}]
      /\ order' = o /\ stack' = s
  BY <1>n DEF Return
<1>2. /\ PlanTypes /\ OrderInv /\ Valid /\ StackInv /\ StepsInv
      /\ \A k \in 1..m : FrameInv(k)
  BY <1>1, <1>n DEF PlanInv
<1>3. /\ Known' = Known /\ \A x : DependsOn(x)' = DependsOn(x)
      /\ Valid' = Valid /\ IsPlan(steps)' = IsPlan(steps)
  BY <1>1 DEF Known, DependsOn, Valid, UniqueIds, IsPlan
<1>4. /\ stack \in Seq(Frame) /\ order \in Seq(Known) /\ IsPlan(steps)
      /\ marks \in [progress : SUBSET Known, done : SUBSET Known]
  BY <1>2 DEF PlanTypes
<1>5. /\ s \in Seq(Frame) /\ Len(s) = m - 1 /\ m \in Nat /\ m >= 1
      /\ \A k \in 1..(m - 1) : s[k] = stack[k]
      /\ Top = stack[m]
  BY <1>1, <1>4, <1>n, FrontShape DEF Top
<1>6. /\ n \in marks.progress /\ n \notin marks.done /\ n = stack[m].node
      /\ n \in Known
  <2>1. stack[m].node \in marks.progress
    BY <1>2, <1>5, <1>n, StackSays
  <2> QED
    BY <1>2, <1>4, <1>5, <1>n, <2>1, StackSays
<1>7. ToSet(DependsOn(n)) \subseteq marks.done
  <2>1. FrameInv(m) /\ DependsOn(n) \in Seq(Ids)
    BY <1>2, <1>4, <1>5, <1>6, DependsOnTyped
  <2>2. stack[m].at = Len(DependsOn(n)) + 1
    BY <1>1, <1>5, <1>6, <2>1 DEF FrameInv
  <2>3. ASSUME NEW j \in 1..Len(DependsOn(n)) PROVE DependsOn(n)[j] \in marks.done
    <3>1. /\ DependsOn(stack[m].node)[j] \in marks.done \/ (m < Len(stack) /\ j = stack[m].at - 1)
          /\ ~ m < Len(stack)
      <4>1. j \in 1..(stack[m].at - 1) /\ ~ m < Len(stack)
        BY <1>5, <1>n, <2>1, <2>2
      <4> QED
        BY <2>1, <4>1 DEF FrameInv
    <3> QED
      BY <1>6, <3>1
  <2> QED
    BY <2>1, <2>3 DEF ToSet
<1>8. /\ o \in Seq(Known) /\ Len(o) = Len(order) + 1 /\ Len(order) \in Nat
      /\ \A i \in 1..Len(o) : o[i] = IF i = Len(order) + 1 THEN n ELSE order[i]
  BY <1>4, <1>6, <1>n
<1>9. /\ marks'.done = marks.done \cup {n} /\ marks'.progress = marks.progress \ {n}
      /\ marks' \in [progress : SUBSET Known, done : SUBSET Known]
  BY <1>1, <1>4, <1>6
<1>10. PlanTypes'
  BY <1>1, <1>2, <1>3, <1>5, <1>8, <1>9 DEF PlanTypes
<1>11. OrderInv'
  <2>1. marks'.done = {o[i] : i \in 1..Len(o)}
    <3>1. ASSUME NEW x \in marks'.done PROVE \E i \in 1..Len(o) : o[i] = x
      <4>1. CASE x = n
        BY <1>8, <4>1
      <4>2. CASE x \in marks.done
        <5>1. PICK i \in 1..Len(order) : order[i] = x
          BY <1>2, <4>2 DEF OrderInv
        <5> QED
          BY <1>8, <5>1
      <4> QED
        BY <1>9, <4>1, <4>2
    <3>2. ASSUME NEW i \in 1..Len(o) PROVE o[i] \in marks'.done
      BY <1>2, <1>8, <1>9 DEF OrderInv
    <3> QED
      BY <3>1, <3>2
  <2>2. \A i \in 1..Len(order) : order[i] \in marks.done
    BY <1>2 DEF OrderInv
  <2>3. ASSUME NEW i \in 1..Len(o), NEW j \in 1..Len(o), o[i] = o[j] PROVE i = j
    <3>1. CASE i \in 1..Len(order) /\ j \in 1..Len(order)
      BY <1>2, <1>8, <2>3, <3>1 DEF OrderInv
    <3>2. CASE i = Len(o) \/ j = Len(o)
      BY <1>6, <1>8, <2>2, <2>3, <3>2
    <3> QED
      BY <1>8, <3>1, <3>2
  <2>4. ASSUME NEW i \in 1..Len(o)
        PROVE  ToSet(DependsOn(o[i])) \subseteq {o[j] : j \in 1..(i - 1)}
    <3>1. CASE i \in 1..Len(order)
      <4>1. o[i] = order[i] /\ \A j \in 1..(i - 1) : o[j] = order[j]
        BY <1>8, <3>1
      <4>2. ToSet(DependsOn(order[i])) \subseteq {order[j] : j \in 1..(i - 1)}
        BY <1>2, <3>1 DEF OrderInv
      <4> QED
        BY <4>1, <4>2
    <3>2. CASE i = Len(o)
      <4>1. o[i] = n /\ \A j \in 1..(i - 1) : o[j] = order[j]
        BY <1>8, <3>2
      <4>2. \A x \in marks.done : \E j \in 1..(i - 1) : order[j] = x
        BY <1>2, <1>8, <3>2 DEF OrderInv
      <4> QED
        BY <1>7, <4>1, <4>2
    <3> QED
      BY <1>8, <3>1, <3>2
  <2> QED
    BY <1>1, <2>1, <2>3, <2>4, OrderAfter
<1>12. StackInv'
  <2>1. ASSUME NEW k \in 1..Len(s) PROVE s[k].node \in marks'.progress /\ k \in 1..(m - 1)
    <3>1. s[k] = stack[k] /\ k \in 1..m /\ k # m /\ m \in 1..m
      BY <1>5
    <3>2. stack[k].node # stack[m].node
      BY <1>2, <1>n, <3>1, StackSays
    <3> QED
      BY <1>2, <1>5, <1>6, <1>9, <1>n, <3>1, <3>2, StackSays
  <2>2. ASSUME NEW p \in marks'.progress PROVE \E k \in 1..Len(s) : s[k].node = p
    <3>1. PICK k \in 1..m : stack[k].node = p
      BY <1>2, <1>9, <1>n, StackSays
    <3>2. k # m
      BY <1>6, <1>9, <3>1
    <3> QED
      BY <1>5, <3>1, <3>2
  <2>3. \A k, l \in 1..Len(s) : s[k].node = s[l].node => k = l
    BY SMTT(30), <1>2, <1>5, <1>n, StackSays
  <2>4. \A p \in marks'.progress : p \notin marks'.done
    BY <1>2, <1>9, StackSays
  <2> QED
    BY <1>1, <2>1, <2>2, <2>3, <2>4, StackAfter
<1>13. StepsInv'
  <2>1. ASSUME NEW i \in 1..(next - 1)
        PROVE  steps[i].id \in marks'.done \/ (Len(s) > 0 /\ s[1].node = steps[i].id)
    <3>1. CASE steps[i].id \in marks.done
      BY <1>9, <3>1
    <3>2. CASE stack[1].node = steps[i].id /\ m = 1
      BY <1>6, <1>9, <3>2
    <3>3. CASE stack[1].node = steps[i].id /\ m # 1
      BY <1>5, <3>3
    <3> QED
      BY <1>2, <3>1, <3>2, <3>3 DEF StepsInv
  <2> QED
    BY <1>1, <2>1 DEF StepsInv
<1>14. ASSUME NEW k \in 1..(m - 1) PROVE FrameInv(k)'
  <2>1. FrameInv(k) /\ k < m /\ k + 1 \in 1..m /\ s[k] = stack[k]
    BY <1>2, <1>5
  <2>2. PICK c : c = stack[k].node
    OBVIOUS
  <2>3. DependsOn(stack[k].node)' = DependsOn(c)
    BY <1>1, <2>1, <2>2 DEF DependsOn
  <2>4. /\ DependsOn(c)[stack[k].at - 1] = stack[k + 1].node /\ stack[k].at > 1
        /\ c \in Known /\ stack[k].at \in 1..(Len(DependsOn(c)) + 1)
        /\ \A j \in 1..(stack[k].at - 1) : DependsOn(c)[j] \in marks.done \/ j = stack[k].at - 1
    BY <1>n, <2>1, <2>2 DEF FrameInv
  <2>5. CASE k < m - 1
    <3>1. s[k + 1] = stack[k + 1] /\ k < Len(s)
      BY <1>5, <2>5
    <3> QED
      BY <1>1, <1>3, <1>9, <2>1, <2>2, <2>3, <2>4, <3>1 DEF FrameInv
  <2>6. CASE k = m - 1
    <3>1. stack[k + 1].node = n /\ ~ (k < Len(s))
      BY <1>5, <1>6, <2>6
    <3>2. \A j \in 1..(stack[k].at - 1) : DependsOn(c)[j] \in marks'.done
      BY <1>9, <2>4, <3>1
    <3> QED
      BY <1>1, <1>3, <2>1, <2>2, <2>3, <2>4, <3>1, <3>2 DEF FrameInv
  <2> QED
    BY <1>5, <2>5, <2>6
<1> QED
  BY <1>1, <1>2, <1>3, <1>5, <1>10, <1>11, <1>12, <1>13, <1>14 DEF PlanInv

\* The invariant of the search holds in every step, and says what is promised.
LEMMA PlanNext == PlanInv /\ [Next]_vars => PlanInv'
BY PlanStutter, PlanValidate, PlanVisitStep, PlanVisitDependency, PlanReturn, PlanEnd DEF Next

LEMMA PlanSays == PlanInv => TypeOK /\ DependenciesFirst /\ RejectsOnlyUnsound
<1> SUFFICES ASSUME PlanInv PROVE TypeOK /\ DependenciesFirst /\ RejectsOnlyUnsound
  OBVIOUS
<1>1. PlanTypes /\ OrderInv
  BY DEF PlanInv
<1>2. /\ order \in Seq(Known) /\ Known \subseteq Ids /\ order \in Seq(Ids)
      /\ DOMAIN order = 1..Len(order) /\ ToSet(order) = marks.done
  <2>1. order \in Seq(Known) /\ Known \subseteq Ids
    BY <1>1, KnownTyped DEF PlanTypes
  <2>2. order \in Seq(Ids) /\ DOMAIN order = 1..Len(order)
    BY <2>1
  <2> QED
    BY <1>1, <2>1, <2>2 DEF ToSet, OrderInv
<1>3. TypeOK
  <2>1. stack \in Seq(Frame) /\ DOMAIN stack = 1..Len(stack)
    BY <1>1 DEF PlanTypes
  <2>2. StackInv => /\ marks.progress = {stack[i].node : i \in DOMAIN stack}
                    /\ IsInjective([i \in DOMAIN stack |-> stack[i].node])
    BY <2>1 DEF StackInv, IsInjective
  <2> QED
    BY <1>1, <1>2, <2>1, <2>2 DEF TypeOK, PlanTypes, PlanInv
<1>4. DependenciesFirst
  BY <1>1, <1>2 DEF DependenciesFirst, OrderInv, PlanInv, IsInjective
<1>5. RejectsOnlyUnsound
  <2>1. ASSUME phase = "ordered" PROVE Sound
    <3>1. Valid /\ ~ Cyclic
      BY <1>1, <2>1, OrderedAcyclic DEF PlanInv
    <3> QED
      BY <3>1, UniqueIsInjective DEF Valid, Sound
  <2> QED
    BY <2>1 DEF RejectsOnlyUnsound, PlanInv
<1> QED
  BY <1>3, <1>4, <1>5

-----------------------------------------------------------------------------
(* Plans that are written in the order they run *)

\* Every step depends on steps before it only.
Backwards(p) ==
    \A i \in DOMAIN p :
        ToSet(p[i].depends_on) \subseteq {p[j].id : j \in 1..(i - 1)}

Prefix(n) ==
    /\ Len(order) = n
    /\ \A i \in 1..n : order[i] = steps[i].id

\* The search never goes deeper than one step, and orders the steps as they are
\* written.
WrittenOrder ==
    /\ phase = "visiting" =>
         \/ stack = <<>> /\ Prefix(next - 1)
         \/ /\ Len(stack) = 1 /\ next > 1
            /\ stack[1].node = steps[next - 1].id
            /\ Prefix(next - 2)
    /\ phase = "ordered" => Prefix(Len(steps))
    /\ phase = "rejected" => ~ UniqueIds

\* Unless ids repeat, such a plan passes the checks.
LEMMA BackwardsValid ==
    ASSUME IsPlan(steps), Backwards(steps), UniqueIds
    PROVE  Valid
<1> SUFFICES ASSUME NEW i \in DOMAIN steps, NEW d \in ToSet(steps[i].depends_on)
             PROVE  d \in Known /\ d # steps[i].id
  BY DEF Valid
<1>1. PICK j \in 1..(i - 1) : d = steps[j].id
  BY DEF Backwards
<1>2. i \in 1..Len(steps) /\ i \in Nat
  BY StepTyped
<1>3. j \in DOMAIN steps /\ j # i
  <2>1. j \in 1..Len(steps) /\ j # i
    BY <1>2
  <2> QED
    BY <2>1 DEF IsPlan
<1> QED
  BY <1>1, <1>3 DEF Known, UniqueIds

LEMMA WrittenOrderNext ==
    PlanInv /\ Backwards(steps) /\ WrittenOrder /\ [Next]_vars => WrittenOrder'
<1> SUFFICES ASSUME PlanInv, Backwards(steps), WrittenOrder, [Next]_vars
             PROVE  WrittenOrder'
  OBVIOUS
<1>t. /\ IsPlan(steps) /\ next \in 1..(Len(steps) + 1) /\ Len(steps) \in Nat
      /\ stack \in Seq(Frame) /\ order \in Seq(Known)
      /\ DOMAIN steps = 1..Len(steps)
  BY DEF PlanInv, PlanTypes, IsPlan
<1>1. CASE ValidateGraph
  <2>1. /\ phase' = IF Valid THEN "visiting" ELSE "rejected"
        /\ UNCHANGED <<steps, stack, next, order>>
        /\ stack = <<>> /\ next = 1 /\ order = <<>>
    BY <1>1, UniqueIsInjective DEF ValidateGraph, Valid, PlanInv, Fresh
  <2>2. ~ Valid => ~ UniqueIds'
    BY <1>t, <2>1, BackwardsValid DEF UniqueIds
  <2>3. Prefix(next - 1)'
    BY <2>1 DEF Prefix
  <2> QED
    BY <2>1, <2>2, <2>3 DEF WrittenOrder
<1>2. CASE VisitStep
  <2>1. /\ phase = "visiting" /\ stack = <<>> /\ next <= Len(steps) /\ next' = next + 1
        /\ UNCHANGED <<steps, order>>
        /\ Visit(steps[next].id, stack) /\ Prefix(next - 1)
    BY <1>2 DEF VisitStep, WrittenOrder
  <2>2. marks.progress = {} /\ UniqueIds
    BY <2>1 DEF PlanInv, StackInv, Valid
  <2>3. steps[next].id \notin marks.done
    <3> SUFFICES ASSUME steps[next].id \in marks.done PROVE FALSE
      OBVIOUS
    <3>1. PICK i \in 1..Len(order) : order[i] = steps[next].id
      BY DEF PlanInv, OrderInv
    <3>2. i \in 1..(next - 1) /\ steps[i].id = steps[next].id
      BY <2>1, <3>1 DEF Prefix
    <3> QED
      BY <1>t, <2>1, <2>2, <3>2 DEF UniqueIds
  <2>4. PICK f : f = [node |-> steps[next].id, at |-> 1]
    OBVIOUS
  <2>5. stack' = <<f>> /\ phase' = phase /\ f.node = steps[next].id
    BY <2>1, <2>2, <2>3, <2>4 DEF Visit
  <2>6. next' - 1 = next /\ next' - 2 = next - 1 /\ next' > 1
    BY <1>t, <2>1
  <2>7. Len(stack') = 1 /\ stack'[1].node = steps'[next' - 1].id
    BY <2>1, <2>5, <2>6
  <2>8. Prefix(next - 2)'
    BY <2>1, <2>6 DEF Prefix
  <2> QED
    BY <2>1, <2>5, <2>6, <2>7, <2>8 DEF WrittenOrder
<1>3. CASE VisitDependency
  <2>1. /\ phase = "visiting" /\ stack # <<>>
        /\ Top.at <= Len(DependsOn(Top.node))
        /\ UNCHANGED <<steps, next, order>>
        /\ Visit(DependsOn(Top.node)[Top.at], Append(Front(stack), [Top EXCEPT !.at = @ + 1]))
    BY <1>3 DEF VisitDependency
  <2>2. /\ Len(stack) = 1 /\ next > 1 /\ stack[1].node = steps[next - 1].id
        /\ Prefix(next - 2) /\ Top = stack[1]
    BY <2>1 DEF WrittenOrder, Top, Last
  <2>3. FrameInv(1) /\ UniqueIds
    BY <2>1, <2>2 DEF PlanInv, Valid
  <2>4. next - 1 \in DOMAIN steps
    BY <1>t, <2>2
  <2>5. DependsOn(Top.node) = steps[next - 1].depends_on
    BY <1>t, <2>2, <2>3, <2>4, DependsOnIs
  <2>6. PICK d, t : d = DependsOn(Top.node)[Top.at] /\ t = [Top EXCEPT !.at = @ + 1]
    OBVIOUS
  <2>7. Top \in Frame /\ t \in Frame /\ t.node = Top.node
    <3>1. Top \in Frame
      <4>1. 1 \in DOMAIN stack
        BY <1>t, <2>2
      <4> QED
        BY <1>t, <2>2, <4>1, Element
    <3> QED
      BY <2>6, <3>1 DEF Frame
  <2>8. d \in ToSet(steps[next - 1].depends_on)
    <3>1. Top.at \in 1..Len(steps[next - 1].depends_on)
      BY <2>1, <2>2, <2>3, <2>5 DEF FrameInv
    <3>2. steps[next - 1].depends_on \in Seq(Ids)
      BY <1>t, <2>4, StepTyped
    <3> QED
      BY <2>5, <2>6, <3>1, <3>2 DEF ToSet
  <2>9. d \in marks.done
    <3>1. PICK j \in 1..(next - 1 - 1) : d = steps[j].id
      BY <2>4, <2>8 DEF Backwards
    <3>2. j \in 1..Len(order) /\ order[j] = d
      BY <1>t, <2>2, <3>1 DEF Prefix
    <3> QED
      BY <3>2 DEF PlanInv, OrderInv
  <2>10. d \notin marks.progress
    BY <2>1, <2>9 DEF PlanInv, StackInv
  <2>11. stack' = Append(Front(stack), t) /\ phase' = phase
    BY <2>1, <2>6, <2>9, <2>10 DEF Visit
  <2>12. Front(stack) \in Seq(Frame) /\ Len(Front(stack)) = 0
    BY <1>t, <2>1, <2>2, FrontShape
  <2>13. Len(stack') = 1 /\ stack'[1] = t
    BY <2>7, <2>11, <2>12, StackShapes
  <2>14. Prefix(next - 2)'
    BY <2>1, <2>2 DEF Prefix
  <2> QED
    BY <2>1, <2>2, <2>7, <2>11, <2>13, <2>14 DEF WrittenOrder
<1>4. CASE Return
  <2>1. /\ phase = "visiting" /\ stack # <<>> /\ order' = Append(order, Top.node)
        /\ UNCHANGED <<steps, phase, next>> /\ stack' = Front(stack)
    BY <1>4 DEF Return
  <2>2. /\ Len(stack) = 1 /\ next > 1 /\ stack[1].node = steps[next - 1].id
        /\ Prefix(next - 2) /\ Top = stack[1]
    BY <2>1 DEF WrittenOrder, Top, Last
  <2>3. stack' = <<>>
    BY <1>t, <2>1, <2>2, FrontShape
  <2>4. PICK n : n = Top.node
    OBVIOUS
  <2>5. /\ n \in Known /\ n = steps[next - 1].id /\ order' = Append(order, n)
    BY <2>1, <2>2, <2>4 DEF PlanInv, FrameInv
  <2>6. /\ Len(order') = next - 1
        /\ \A i \in 1..(next - 1) : order'[i] = steps[i].id
    BY <1>t, <2>2, <2>5 DEF Prefix
  <2>7. Prefix(next - 1)'
    BY <2>1, <2>6 DEF Prefix
  <2> QED
    BY <2>1, <2>3, <2>7 DEF WrittenOrder
<1>5. CASE End
  <2>1. /\ phase = "visiting" /\ phase' = "ordered" /\ stack = <<>> /\ next > Len(steps)
        /\ UNCHANGED <<steps, order>>
    BY <1>5 DEF End
  <2>2. Prefix(next - 1) /\ next - 1 = Len(steps)
    BY <1>t, <2>1 DEF WrittenOrder
  <2>3. Prefix(Len(steps))'
    BY <2>1, <2>2 DEF Prefix
  <2> QED
    BY <2>1, <2>3 DEF WrittenOrder
<1>6. CASE UNCHANGED vars
  BY <1>6 DEF vars, WrittenOrder, Prefix, UniqueIds
<1> QED
  BY <1>1, <1>2, <1>3, <1>4, <1>5, <1>6 DEF Next

LEMMA WrittenOrderSays ==
    ASSUME PlanInv, WrittenOrder
    PROVE  /\ phase = "rejected" => ~ IsInjective([i \in DOMAIN steps |-> steps[i].id])
           /\ phase = "ordered" => order = [i \in DOMAIN steps |-> steps[i].id]
<1>1. ASSUME phase = "ordered" PROVE order = [i \in DOMAIN steps |-> steps[i].id]
  <2>1. Len(order) = Len(steps) /\ \A i \in 1..Len(steps) : order[i] = steps[i].id
    BY <1>1 DEF WrittenOrder, Prefix
  <2>2. DOMAIN steps = 1..Len(steps) /\ order = [i \in 1..Len(order) |-> order[i]]
    BY DEF PlanInv, PlanTypes, IsPlan
  <2> QED
    BY <2>1, <2>2
<1> QED
  BY <1>1, UniqueIsInjective DEF WrittenOrder

-----------------------------------------------------------------------------
(* The age of a content *)

\* Contents of a file in the order in which it has them: as it was checked out,
\* none, and whatever is written later.
Age(c) == IF c = 1 THEN 0 ELSE IF c = 0 THEN 1 ELSE c

LEMMA AgeTells ==
    ASSUME NEW c \in Nat, NEW d \in Nat
    PROVE  Age(c) \in Nat /\ (Age(c) = Age(d) => c = d)
BY DEF Age

-----------------------------------------------------------------------------
(* The invariant *)

\* A file the packaging view takes along.
Packs(f) == f \in Workfiles /\ f.kind # "excluded"

\* What survives into the artifact.
Seals(f) == Sourced(f) => Survives(f)

Types ==
    /\ project \in Projects /\ acts \in Nat /\ edited \in BOOLEAN
    /\ tree \in Content /\ hashed \in Content /\ package \in Content
    /\ moment \in Content
    /\ todo \subseteq Files

\* No content is from the future, and files there are are in the working tree.
TreeInv ==
    /\ \A f \in Files : tree[f] < acts + 2
    /\ \A f \in Files \ Workfiles : tree[f] = 0

\* What is hashed of the files already read is no younger than the tree; what
\* nobody will read is not hashed.
HashInv ==
    pc = "hash" =>
        /\ \A f \in Files : Counted(f) /\ f \notin todo => Age(hashed[f]) <= Age(tree[f])
        /\ \A f \in Files : ~ Counted(f) => hashed[f] = 0
        /\ ~ edited => \A f \in Files : Counted(f) /\ f \notin todo => hashed[f] = tree[f]
        /\ \A f \in todo : Counted(f)
        /\ package = Empty

\* Once manifest.json is written, it is what was hashed, no younger than the tree
\* of that moment.
WrittenInv ==
    pc \in {"copy", "seal", "publish"} =>
        /\ manifest = hashed
        /\ \A f \in Files : Counted(f) => Age(hashed[f]) <= Age(moment[f])
        /\ \A f \in Files : ~ Counted(f) => hashed[f] = 0
        /\ \A f \in Files \ Workfiles : moment[f] = 0
        /\ ~ edited => \A f \in Files : Counted(f) => hashed[f] = moment[f]

\* What is copied, or will be, is no older than that moment.
CopyInv ==
    /\ pc = "copy" =>
         /\ \A f \in todo : Packs(f)
         /\ \A f \in Files : Age(moment[f]) <= Age(tree[f])
         /\ \A f \in Files : Packs(f) /\ f \notin todo => Age(moment[f]) <= Age(package[f])
         /\ ~ edited => /\ tree = moment
                        /\ \A f \in Files : Packs(f) /\ f \notin todo => package[f] = moment[f]
         /\ \A f \in Files : ~ Packs(f) => package[f] = 0
    /\ pc = "seal" =>
         /\ \A f \in Files : Packs(f) /\ Seals(f) => Age(moment[f]) <= Age(package[f])
         /\ ~ edited => \A f \in Files : Packs(f) /\ Seals(f) => package[f] = moment[f]
         /\ \A f \in Files : ~ (Packs(f) /\ Seals(f)) => package[f] = 0
    /\ pc \in {"inspect", "plan"} => hashed = Empty /\ package = Empty

\* What is true of a sealed artifact.
ArtifactInv(a) ==
    /\ a.content \in Content /\ a.of \in Content /\ a.manifest \in Content
    /\ \A f \in Files : ~ (Packs(f) /\ Seals(f)) => a.content[f] = 0
    /\ \A f \in Files : ~ Counted(f) => a.manifest[f] = 0
    /\ \A f \in Files \ Workfiles : a.of[f] = 0
    /\ \A f \in Files : Counted(f) =>
         /\ Age(a.manifest[f]) <= Age(a.of[f])
         /\ Packs(f) => Age(a.of[f]) <= Age(a.content[f])
    /\ a.quiet =>
         /\ \A f \in Files : Counted(f) => a.manifest[f] = a.of[f]
         /\ \A f \in Files : Packs(f) /\ Seals(f) => a.content[f] = a.of[f]

PackInv == /\ Types /\ TreeInv /\ HashInv /\ WrittenInv /\ CopyInv
           /\ \A a \in Artifacts : ArtifactInv(a)

\* What the digest covers survives the pruning and is not excluded.
LEMMA CountedSealed ==
    ASSUME NEW f, Counted(f)
    PROVE  Seals(f) /\ f.kind # "excluded"
BY DEF Counted, Seals, Survives

-----------------------------------------------------------------------------
(* What the invariant says of artifacts *)

\* An artifact whose digest is right is the tree of one moment.
LEMMA InvOneMoment ==
    ASSUME NEW a, ArtifactInv(a), Verifies(a)
    PROVE  a.content = Only(a.of, {f \in Files : Counted(f)})
<1>1. ASSUME NEW f \in Files
      PROVE  a.content[f] = IF Counted(f) THEN a.of[f] ELSE 0
  <2>1. a.content[f] = a.manifest[f]
    BY DEF Verifies
  <2>2. CASE ~ Counted(f)
    BY <2>1, <2>2 DEF ArtifactInv
  <2>3. CASE Counted(f) /\ f \notin Workfiles
    BY <2>3 DEF ArtifactInv, Packs
  <2>4. CASE Counted(f) /\ f \in Workfiles
    <3>1. Packs(f)
      BY <2>4, CountedSealed DEF Packs
    <3>2. Age(a.manifest[f]) <= Age(a.of[f]) /\ Age(a.of[f]) <= Age(a.content[f])
      BY <2>4, <3>1 DEF ArtifactInv
    <3>3. a.of[f] \in Nat /\ a.content[f] \in Nat
      BY DEF ArtifactInv, Content
    <3>4. Age(a.of[f]) \in Nat /\ Age(a.content[f]) \in Nat
      BY <3>3, AgeTells
    <3>5. Age(a.of[f]) = Age(a.content[f])
      BY <2>1, <3>2, <3>4
    <3> QED
      BY <2>4, <3>3, <3>5, AgeTells
  <2> QED
    BY <2>2, <2>3, <2>4
<1>2. a.content = [f \in Files |-> a.content[f]]
  BY DEF ArtifactInv, Content
<1> QED
  BY <1>1, <1>2 DEF Only

\* One of an undisturbed build verifies.
LEMMA InvVerifies ==
    ASSUME NEW a, ArtifactInv(a), a.quiet,
           \A f \in There(a.of) :
               IF Sourced(f) THEN f.kind # "in_template_dir" ELSE f.kind # "linked"
    PROVE  Verifies(a)
<1>1. ASSUME NEW f \in Files PROVE a.content[f] = a.manifest[f]
  <2>1. CASE Counted(f) /\ f \in Workfiles
    <3>1. Packs(f) /\ Seals(f)
      BY <2>1, CountedSealed DEF Packs
    <3> QED
      BY <2>1, <3>1 DEF ArtifactInv
  <2>2. CASE Counted(f) /\ f \notin Workfiles
    BY <2>2 DEF ArtifactInv, Packs
  <2>3. CASE ~ Counted(f) /\ Packs(f) /\ Seals(f)
    <3>1. a.content[f] = a.of[f] /\ a.manifest[f] = 0
      BY <2>3 DEF ArtifactInv
    <3>2. a.of[f] = 0
      <4>1. f.kind = "linked" \/ (Sourced(f) /\ f.kind = "in_template_dir")
        BY <2>3 DEF Counted, Packs, Seals, Survives
      <4>2. Sourced(f) => f.kind # "linked"
        BY <2>3 DEF Seals, Survives
      <4>3. f \notin There(a.of)
        BY <4>1, <4>2
      <4> QED
        BY <4>3 DEF There
    <3> QED
      BY <3>1, <3>2
  <2>4. CASE ~ Counted(f) /\ ~ (Packs(f) /\ Seals(f))
    BY <2>4 DEF ArtifactInv
  <2> QED
    BY <2>1, <2>2, <2>3, <2>4
<1> QED
  BY <1>1 DEF ArtifactInv, Content, Verifies

\* It holds nothing that is excluded or pruned.
LEMMA InvNothingElse ==
    ASSUME NEW a, ArtifactInv(a), NEW f \in There(a.content)
    PROVE  f.kind # "excluded" /\ (Sourced(f) => f.kind \notin {"code", "linked"})
<1>1. Packs(f) /\ Seals(f)
  BY DEF ArtifactInv, There
<1> QED
  BY <1>1 DEF Packs, Seals, Survives

-----------------------------------------------------------------------------
(* The invariant holds *)

LEMMA EmptyContent ==
    /\ Empty \in Content
    /\ \A f \in Files : Empty[f] = 0
BY DEF Empty, Content

LEMMA InitInv == PackInit => PackInv
<1> SUFFICES ASSUME PackInit PROVE PackInv
  OBVIOUS
<1>1. Types
  <2>1. tree \in Content
    BY DEF PackInit, Content
  <2> QED
    BY <2>1, EmptyContent DEF PackInit, Types
<1>2. TreeInv
  BY DEF PackInit, TreeInv, Workfiles
<1>3. Artifacts = {}
  BY DEF PackInit, Artifacts
<1> QED
  BY <1>1, <1>2, <1>3 DEF PackInit, PackInv, HashInv, WrittenInv, CopyInv

\* What a step leaves alone of the tree, and of the artifacts.
LEMMA SameTree ==
    ASSUME TreeInv, UNCHANGED <<tree, acts, project>>
    PROVE  TreeInv'
BY DEF TreeInv, Workfiles

LEMMA SameArtifacts ==
    ASSUME \A a \in Artifacts : ArtifactInv(a), Artifacts' \subseteq Artifacts, project' = project
    PROVE  \A a \in Artifacts' : ArtifactInv(a)'
<1> SUFFICES ASSUME NEW a \in Artifacts' PROVE ArtifactInv(a)'
  OBVIOUS
<1>1. ArtifactInv(a)
  OBVIOUS
<1> QED
  BY <1>1 DEF ArtifactInv, Packs, Seals, Counted, Sourced, Workfiles

\* A build that has not begun to hash, or is over, owes nothing.
LEMMA OutsideBuild ==
    ASSUME pc' \in {"idle", "plan", "inspect"},
           pc' # "idle" => hashed' = Empty /\ package' = Empty
    PROVE  HashInv' /\ WrittenInv' /\ CopyInv'
BY DEF HashInv, WrittenInv, CopyInv, Empty

LEMMA StepBuild == PackInv /\ Build => PackInv'
<1> SUFFICES ASSUME PackInv, Build PROVE PackInv'
  OBVIOUS
<1>1. Types'
  <2>1. edited' \in BOOLEAN
    BY DEF Build
  <2>3. acts' \in Nat
    BY DEF PackInv, Types, Build
  <2>2. todo' = {} /\ hashed' = Empty /\ package' = Empty /\ UNCHANGED <<project, tree, moment>>
    BY DEF Build
  <2> QED
    BY <2>1, <2>2, <2>3, EmptyContent DEF PackInv, Types
<1>2. TreeInv'
  BY DEF PackInv, Types, TreeInv, Build, Workfiles, Content
<1>3. HashInv' /\ WrittenInv' /\ CopyInv'
  BY OutsideBuild DEF Build
<1>4. \A a \in Artifacts' : ArtifactInv(a)'
  BY SameArtifacts DEF PackInv, Build, Artifacts
<1> QED
  BY <1>1, <1>2, <1>3, <1>4 DEF PackInv

LEMMA StepLoadPlan == PackInv /\ LoadPlan => PackInv'
<1> SUFFICES ASSUME PackInv, LoadPlan PROVE PackInv'
  OBVIOUS
<1>1. Types'
  BY DEF PackInv, Types, LoadPlan, view, history
<1>2. TreeInv'
  BY SameTree DEF PackInv, LoadPlan
<1>3. HashInv' /\ WrittenInv' /\ CopyInv'
  BY OutsideBuild DEF PackInv, LoadPlan, CopyInv, view
<1>4. \A a \in Artifacts' : ArtifactInv(a)'
  BY SameArtifacts DEF PackInv, LoadPlan, Artifacts
<1> QED
  BY <1>1, <1>2, <1>3, <1>4 DEF PackInv

LEMMA StepValidate == PackInv /\ ValidateSourceTree => PackInv'
<1> SUFFICES ASSUME PackInv, ValidateSourceTree PROVE PackInv'
  OBVIOUS
<1>1. Types'
  BY DEF PackInv, Types, ValidateSourceTree, view, history, fixed
<1>2. TreeInv'
  BY SameTree DEF PackInv, ValidateSourceTree, fixed
<1>3. HashInv' /\ WrittenInv' /\ CopyInv'
  BY OutsideBuild DEF PackInv, ValidateSourceTree, CopyInv, view, Fail
<1>4. \A a \in Artifacts' : ArtifactInv(a)'
  BY SameArtifacts DEF PackInv, ValidateSourceTree, Artifacts, fixed
<1> QED
  BY <1>1, <1>2, <1>3, <1>4 DEF PackInv

LEMMA StepInspect == PackInv /\ Inspect => PackInv'
<1> SUFFICES ASSUME PackInv, Inspect PROVE PackInv'
  OBVIOUS
<1>1. Types'
  BY DEF PackInv, Types, Inspect, history, fixed, There
<1>2. TreeInv'
  BY SameTree DEF PackInv, Inspect, fixed
<1>3. HashInv' /\ WrittenInv' /\ CopyInv'
  <2>1. CASE pc' = "idle"
    BY <2>1, OutsideBuild
  <2>2. CASE pc' = "hash" /\ todo' = {f \in There(tree) : Counted(f)}
    <3>1. hashed' = Empty /\ package' = Empty /\ tree' = tree /\ project' = project
      BY DEF PackInv, CopyInv, Inspect, fixed
    <3>2. \A f \in Files : (Counted(f)' <=> Counted(f)) /\ hashed'[f] = 0
      BY <3>1, EmptyContent DEF Counted, Sourced
    <3>3. \A f \in Files : Counted(f) /\ f \notin todo' => tree'[f] = 0
      BY <2>2, <3>1 DEF There
    <3>4. HashInv'
      <4>1. \A f \in Files : Counted(f)' /\ f \notin todo' => hashed'[f] = tree'[f]
        BY <3>2, <3>3
      <4>2. \A f \in Files : Counted(f)' /\ f \notin todo' => Age(hashed'[f]) <= Age(tree'[f])
        BY <3>1, <3>2, <3>3 DEF Age
      <4>3. \A f \in todo' : Counted(f)'
        BY <2>2, <3>1, <3>2 DEF There
      <4> QED
        BY <3>1, <3>2, <4>1, <4>2, <4>3 DEF HashInv
    <3> QED
      BY <2>2, <3>4 DEF WrittenInv, CopyInv
  <2> QED
    BY <2>1, <2>2 DEF Inspect, Fail
<1>4. \A a \in Artifacts' : ArtifactInv(a)'
  BY SameArtifacts DEF PackInv, Inspect, Artifacts, fixed
<1> QED
  BY <1>1, <1>2, <1>3, <1>4 DEF PackInv

LEMMA StepRead == ASSUME PackInv, NEW f \in todo, Read(f) PROVE PackInv'
<1>0. f \in Files /\ pc = "hash" /\ UNCHANGED <<project, acts, tree, package, edited, moment>>
  BY DEF PackInv, Types, Read, fixed, history
<1>1. Types'
  BY <1>0 DEF PackInv, Types, Read, Content
<1>2. TreeInv'
  BY <1>0, SameTree DEF PackInv
<1>3. HashInv' /\ WrittenInv' /\ CopyInv'
  <2>1. CASE pc' = "idle"
    BY <2>1, OutsideBuild
  <2>2. CASE pc' = "hash" /\ hashed' = [hashed EXCEPT ![f] = tree[f]] /\ todo' = todo \ {f}
    <3>1. \A g \in Files : hashed'[g] = IF g = f THEN tree[f] ELSE hashed[g]
      BY <2>2 DEF PackInv, Types, Content
    <3>2. \A g \in Files : Counted(g)' <=> Counted(g)
      BY <1>0 DEF Counted, Sourced
    <3>3. tree[f] \in Nat /\ Counted(f)
      BY <1>0 DEF PackInv, Types, Content, HashInv
    <3>4. HashInv'
      <4>1. HashInv /\ Age(tree[f]) <= Age(tree[f])
        BY <3>3, AgeTells DEF PackInv
      <4>2. \A g \in Files :
              Counted(g) /\ g \notin todo' => /\ Age(hashed'[g]) <= Age(tree[g])
                                              /\ ~ edited => hashed'[g] = tree[g]
        BY <1>0, <2>2, <3>1, <4>1 DEF HashInv
      <4>3. \A g \in Files : ~ Counted(g) => hashed'[g] = 0
        BY <1>0, <3>1, <3>3, <4>1 DEF HashInv
      <4>4. package' = Empty /\ \A g \in todo' : g \in Files /\ Counted(g)
        BY <1>0, <2>2, <4>1 DEF HashInv, PackInv, Types
      <4> QED
        <5>1. \A g \in Files : Counted(g)' /\ g \notin todo' => Age(hashed'[g]) <= Age(tree'[g])
          BY <1>0, <3>2, <4>2
        <5>2. ~ edited' => \A g \in Files : Counted(g)' /\ g \notin todo' => hashed'[g] = tree'[g]
          BY <1>0, <3>2, <4>2
        <5>3. package' = Empty /\ \A g \in todo' : Counted(g)'
          BY <3>2, <4>4
        <5>4. \A g \in Files : ~ Counted(g)' => hashed'[g] = 0
          BY <3>2, <4>3
        <5> QED
          BY <5>1, <5>2, <5>3, <5>4 DEF HashInv
    <3> QED
      BY <2>2, <3>4 DEF WrittenInv, CopyInv
  <2> QED
    BY <1>0, <2>1, <2>2 DEF Read, Fail
<1>4. \A a \in Artifacts' : ArtifactInv(a)'
  BY SameArtifacts DEF PackInv, Read, Artifacts, fixed
<1> QED
  BY <1>1, <1>2, <1>3, <1>4 DEF PackInv

LEMMA StepWriteManifest == PackInv /\ WriteManifest => PackInv'
<1> SUFFICES ASSUME PackInv, WriteManifest PROVE PackInv'
  OBVIOUS
<1>0. /\ pc = "hash" /\ todo = {} /\ pc' = "copy" /\ package = Empty
      /\ manifest' = hashed /\ moment' = tree
      /\ todo' = {f \in Workfiles : f.kind # "excluded"}
      /\ UNCHANGED <<project, acts, tree, package, hashed, edited, artifact, hub>>
  BY DEF PackInv, HashInv, WriteManifest, fixed
<1>p. \A f \in Files : (Counted(f)' <=> Counted(f)) /\ (Packs(f)' <=> Packs(f))
  BY <1>0 DEF Counted, Sourced, Packs, Workfiles
<1>w. Workfiles' = Workfiles /\ Workfiles \subseteq Files
  BY <1>0, PackerConstants DEF Workfiles, PackInv, Types, IsProject
<1>1. Types'
  BY <1>0, <1>w DEF PackInv, Types
<1>2. TreeInv'
  BY <1>0, SameTree DEF PackInv
<1>3. WrittenInv'
  BY <1>0, <1>p, <1>w DEF PackInv, HashInv, TreeInv, WrittenInv
<1>4. CopyInv'
  <2>1. \A f \in Files : Age(moment'[f]) <= Age(tree'[f])
    <3>1. \A f \in Files : tree[f] \in Nat
      BY DEF PackInv, Types, Content
    <3> QED
      BY <1>0, <3>1, AgeTells
  <2>2. \A f \in Files : f \in todo' <=> Packs(f)
    BY <1>0, <1>w DEF Packs
  <2> QED
    BY <1>0, <1>p, <1>w, <2>1, <2>2, EmptyContent DEF CopyInv
<1>5. \A a \in Artifacts' : ArtifactInv(a)'
  BY <1>0, SameArtifacts DEF PackInv, Artifacts
<1> QED
  BY <1>0, <1>1, <1>2, <1>3, <1>4, <1>5 DEF PackInv, HashInv

LEMMA StepCopy == ASSUME PackInv, NEW f \in todo, Copy(f) PROVE PackInv'
<1>0. /\ f \in Files /\ pc = "copy" /\ pc' = "copy" /\ todo' = todo \ {f}
      /\ package' = [package EXCEPT ![f] = tree[f]]
      /\ UNCHANGED <<project, acts, tree, manifest, hashed, edited, moment, artifact, hub>>
  BY DEF PackInv, Types, Copy, fixed, history
<1>p. /\ \A g \in Files : (Counted(g)' <=> Counted(g)) /\ (Packs(g)' <=> Packs(g))
      /\ Workfiles' = Workfiles
  BY <1>0 DEF Counted, Sourced, Packs, Workfiles
<1>1. Types'
  BY <1>0 DEF PackInv, Types, Content
<1>2. TreeInv'
  BY <1>0, SameTree DEF PackInv
<1>3. WrittenInv'
  BY <1>0, <1>p DEF PackInv, WrittenInv
<1>4. CopyInv'
  <2>1. \A g \in Files : package'[g] = IF g = f THEN tree[f] ELSE package[g]
    BY <1>0 DEF PackInv, Types, Content
  <2>2. Packs(f)
    BY <1>0 DEF PackInv, CopyInv
  <2> QED
    <3> USE <1>0, <1>p, <2>1, <2>2 DEF PackInv, CopyInv
    <3>1. \A g \in todo' : Packs(g)'
      BY DEF Types
    <3>2. \A g \in Files : Packs(g)' /\ g \notin todo' => Age(moment'[g]) <= Age(package'[g])
      OBVIOUS
    <3>3. ~ edited' => /\ tree' = moment'
                       /\ \A g \in Files : Packs(g)' /\ g \notin todo' => package'[g] = moment'[g]
      OBVIOUS
    <3>4. \A g \in Files : ~ Packs(g)' => package'[g] = 0
      OBVIOUS
    <3> QED
      BY <3>1, <3>2, <3>3, <3>4
<1>5. \A a \in Artifacts' : ArtifactInv(a)'
  BY <1>0, SameArtifacts DEF PackInv, Artifacts
<1> QED
  BY <1>0, <1>1, <1>2, <1>3, <1>4, <1>5 DEF PackInv, HashInv

LEMMA StepPrune == PackInv /\ Prune => PackInv'
<1> SUFFICES ASSUME PackInv, Prune PROVE PackInv'
  OBVIOUS
<1>0. /\ pc = "copy" /\ todo = {} /\ pc' = "seal"
      /\ package' = Only(package, {f \in Files : Seals(f)})
      /\ UNCHANGED <<project, acts, tree, manifest, hashed, edited, moment, artifact, hub, todo>>
  BY DEF Prune, fixed, history, Seals
<1>p. /\ \A g \in Files : /\ Counted(g)' <=> Counted(g)
                          /\ Packs(g)' <=> Packs(g)
                          /\ Seals(g)' <=> Seals(g)
      /\ Workfiles' = Workfiles
  BY <1>0 DEF Counted, Sourced, Packs, Workfiles, Seals
<1>c. \A g \in Files : package'[g] = IF Seals(g) THEN package[g] ELSE 0
  BY <1>0 DEF Only
<1>1. Types'
  <2>1. package' \in Content
    BY <1>0 DEF PackInv, Types, Content, Only
  <2> QED
    BY <1>0, <2>1 DEF PackInv, Types
<1>2. TreeInv'
  BY <1>0, SameTree DEF PackInv
<1>3. WrittenInv'
  BY <1>0, <1>p DEF PackInv, WrittenInv
<1>4. CopyInv'
  BY <1>0, <1>p, <1>c DEF PackInv, CopyInv
<1>5. \A a \in Artifacts' : ArtifactInv(a)'
  BY <1>0, SameArtifacts DEF PackInv, Artifacts
<1> QED
  BY <1>0, <1>1, <1>2, <1>3, <1>4, <1>5 DEF PackInv, HashInv

LEMMA StepSeal == PackInv /\ Seal => PackInv'
<1> SUFFICES ASSUME PackInv, Seal PROVE PackInv'
  OBVIOUS
<1> DEFINE a == [content |-> package, manifest |-> manifest, of |-> moment, quiet |-> ~edited]
<1>0. /\ pc = "seal" /\ pc' \in {"publish", "idle"} /\ artifact' = a
      /\ UNCHANGED <<project, acts, tree, manifest, hashed, package, edited, moment, hub, todo>>
  BY DEF Seal, fixed, history, view
<1>a. /\ a.content = package /\ a.manifest = manifest /\ a.of = moment
      /\ a.quiet = ~edited
  OBVIOUS
<1> HIDE DEF a
<1>p. /\ \A g \in Files : (Counted(g)' <=> Counted(g)) /\ (Packs(g)' <=> Packs(g))
      /\ Workfiles' = Workfiles
  BY <1>0 DEF Counted, Sourced, Packs, Workfiles
<1>1. Types' /\ TreeInv'
  BY <1>0, SameTree DEF PackInv, Types
<1>2. WrittenInv'
  BY <1>0, <1>p DEF PackInv, WrittenInv
<1>3. CopyInv' /\ HashInv'
  BY <1>0 DEF CopyInv, HashInv
<1>4. ArtifactInv(a)
  <2>1. manifest = hashed
    BY <1>0 DEF PackInv, WrittenInv
  <2>2. \A f \in Files : Counted(f) => Seals(f)
    BY CountedSealed
  <2> QED
    <3>1. a.content \in Content /\ a.of \in Content /\ a.manifest \in Content
      BY <1>a, <2>1 DEF PackInv, Types
    <3>2. \A f \in Files : ~ (Packs(f) /\ Seals(f)) => a.content[f] = 0
      BY <1>0, <1>a DEF PackInv, CopyInv
    <3>3. /\ \A f \in Files : ~ Counted(f) => a.manifest[f] = 0
          /\ \A f \in Files \ Workfiles : a.of[f] = 0
      BY <1>0, <1>a, <2>1 DEF PackInv, WrittenInv
    <3>4. \A f \in Files : Counted(f) =>
            /\ Age(a.manifest[f]) <= Age(a.of[f])
            /\ Packs(f) => Age(a.of[f]) <= Age(a.content[f])
      BY <1>0, <1>a, <2>1, <2>2 DEF PackInv, WrittenInv, CopyInv
    <3>5. ~ edited => /\ \A f \in Files : Counted(f) => a.manifest[f] = a.of[f]
                      /\ \A f \in Files : Packs(f) /\ Seals(f) => a.content[f] = a.of[f]
      BY <1>0, <1>a, <2>1 DEF PackInv, WrittenInv, CopyInv
    <3> QED
      BY <1>a, <3>1, <3>2, <3>3, <3>4, <3>5 DEF ArtifactInv
<1>5. \A b \in Artifacts' : ArtifactInv(b)'
  <2>1. \A b \in Artifacts' : ArtifactInv(b)
    BY <1>0, <1>4 DEF PackInv, Artifacts
  <2> QED
    BY <1>0, <2>1 DEF ArtifactInv, Packs, Seals, Counted, Sourced, Workfiles
<1> QED
  BY <1>1, <1>2, <1>3, <1>5 DEF PackInv

LEMMA StepPublish == PackInv /\ Publish => PackInv'
<1> SUFFICES ASSUME PackInv, Publish PROVE PackInv'
  OBVIOUS
<1>0. /\ pc' = "idle"
      /\ UNCHANGED <<project, acts, tree, manifest, hashed, package, edited, moment, artifact, todo>>
  BY DEF Publish, fixed, history, view
<1>1. Types' /\ TreeInv'
  BY <1>0, SameTree DEF PackInv, Types
<1>2. HashInv' /\ WrittenInv' /\ CopyInv'
  BY <1>0, OutsideBuild
<1>3. \A a \in Artifacts' : ArtifactInv(a)'
  BY <1>0, SameArtifacts DEF PackInv, Artifacts, Publish
<1> QED
  BY <1>1, <1>2, <1>3 DEF PackInv

LEMMA StepBreak == PackInv /\ (Break \/ RemoveManifest) => PackInv'
<1> SUFFICES ASSUME PackInv, Break \/ RemoveManifest PROVE PackInv'
  OBVIOUS
<1>0. /\ pc' = "idle"
      /\ UNCHANGED <<project, acts, tree, hashed, package, edited, moment, artifact, hub, todo>>
  BY DEF Break, RemoveManifest, Fail, fixed, history, view
<1>1. Types' /\ TreeInv'
  BY <1>0, SameTree DEF PackInv, Types
<1>2. HashInv' /\ WrittenInv' /\ CopyInv'
  BY <1>0, OutsideBuild
<1>3. \A a \in Artifacts' : ArtifactInv(a)'
  BY <1>0, SameArtifacts DEF PackInv, Artifacts
<1> QED
  BY <1>1, <1>2, <1>3 DEF PackInv

\* A file that is written, and no other, has another content.
LEMMA WrittenFile ==
    ASSUME NEW t \in Content, NEW f \in Files, NEW c \in Nat
    PROVE  /\ [t EXCEPT ![f] = c] \in Content
           /\ \A g \in Files : /\ t[g] \in Nat
                               /\ [t EXCEPT ![f] = c][g] = IF g = f THEN c ELSE t[g]
BY DEF Content

\* An edit makes a file younger, and no other.
LEMMA StepEdit == ASSUME PackInv, NEW f \in Workfiles, Edit(f) PROVE PackInv'
<1>0. /\ pc \in {"inspect", "hash", "copy"} /\ pc' = pc /\ acts' = acts + 1 /\ edited' = TRUE
      /\ UNCHANGED <<project, manifest, hashed, package, moment, artifact, hub, todo>>
  BY DEF Edit, view
<1>p. /\ \A g \in Files : (Counted(g)' <=> Counted(g)) /\ (Packs(g)' <=> Packs(g))
      /\ Workfiles' = Workfiles
  BY <1>0 DEF Counted, Sourced, Packs, Workfiles
<1>w. f \in Files
  BY PackerConstants DEF Workfiles, PackInv, Types, IsProject
<1>1. PICK c \in Nat : /\ tree' = [tree EXCEPT ![f] = c]
                       /\ c = acts + 2 \/ (tree[f] = 1 /\ c = 0)
  BY DEF Edit, PackInv, Types
<1>2. \A g \in Files : tree[g] \in Nat /\ tree'[g] = IF g = f THEN c ELSE tree[g]
  <2>1. tree \in Content /\ tree' = [tree EXCEPT ![f] = c]
    BY <1>1 DEF PackInv, Types
  <2> QED
    BY <1>w, <2>1, WrittenFile
<1>3. Types'
  <2>1. tree \in Content /\ tree' = [tree EXCEPT ![f] = c]
    BY <1>1 DEF PackInv, Types
  <2>2. tree' \in Content
    BY <1>w, <2>1, WrittenFile
  <2>3. acts' \in Nat /\ edited' \in BOOLEAN
    BY <1>0 DEF PackInv, Types
  <2> QED
    BY <1>0, <2>2, <2>3 DEF PackInv, Types
<1>4. TreeInv'
  BY <1>0, <1>1, <1>2, <1>p DEF PackInv, Types, TreeInv
<1>5. \A g \in Files : Age(tree[g]) <= Age(tree'[g])
  <2>1. tree[f] < acts + 2 /\ acts \in Nat
    BY <1>w DEF PackInv, Types, TreeInv
  <2> QED
    BY <1>1, <1>2, <1>w, <2>1 DEF Age
<1>6. \A g \in Files : /\ Age(tree[g]) \in Nat /\ Age(tree'[g]) \in Nat
                       /\ Age(hashed[g]) \in Nat /\ Age(moment[g]) \in Nat
  BY <1>3, AgeTells DEF PackInv, Types, Content
<1>7. HashInv'
  <2>1. pc = "hash" => \A g \in Files : Counted(g) /\ g \notin todo => Age(hashed[g]) <= Age(tree'[g])
    BY <1>5, <1>6 DEF PackInv, HashInv
  <2>2. pc = "hash" => /\ \A g \in Files : ~ Counted(g) => hashed[g] = 0
                       /\ \A g \in todo : g \in Files /\ Counted(g)
                       /\ package = Empty
    BY DEF PackInv, Types, HashInv
  <2> QED
    BY <1>0, <1>p, <2>1, <2>2 DEF HashInv
<1>8. WrittenInv'
  BY <1>0, <1>p DEF PackInv, WrittenInv
<1>9. CopyInv'
  <2>1. pc = "copy" => \A g \in Files : Age(moment[g]) <= Age(tree'[g])
    BY <1>5, <1>6 DEF PackInv, CopyInv
  <2>2. pc = "copy" => /\ \A g \in todo : g \in Files /\ Packs(g)
                       /\ \A g \in Files : Packs(g) /\ g \notin todo => Age(moment[g]) <= Age(package[g])
                       /\ \A g \in Files : ~ Packs(g) => package[g] = 0
    BY DEF PackInv, Types, CopyInv
  <2>3. pc \in {"inspect", "plan"} => hashed = Empty /\ package = Empty
    BY DEF PackInv, CopyInv
  <2> QED
    BY <1>0, <1>p, <2>1, <2>2, <2>3 DEF CopyInv
<1>10. \A a \in Artifacts' : ArtifactInv(a)'
  BY <1>0, SameArtifacts DEF PackInv, Artifacts
<1> QED
  BY <1>3, <1>4, <1>7, <1>8, <1>9, <1>10 DEF PackInv

\* PackInv holds in every reachable state.
THEOREM PackerInvariant == PackSpec => []PackInv
<1>1. PackInv /\ UNCHANGED packVars => PackInv'
  <2> SUFFICES ASSUME PackInv, UNCHANGED packVars PROVE PackInv'
    OBVIOUS
  <2> USE DEF packVars, view, history
  <2>1. Types' /\ TreeInv'
    BY SameTree DEF PackInv, Types
  <2>2. HashInv' /\ WrittenInv' /\ CopyInv'
    BY DEF PackInv, HashInv, WrittenInv, CopyInv, Packs, Seals, Counted, Sourced, Workfiles, Empty
  <2>3. \A a \in Artifacts' : ArtifactInv(a)'
    BY SameArtifacts DEF PackInv, Artifacts
  <2> QED
    BY <2>1, <2>2, <2>3 DEF PackInv
<1>2. PackInv /\ [PackNext]_packVars => PackInv'
  BY <1>1, StepBuild, StepLoadPlan, StepValidate, StepInspect, StepRead, StepWriteManifest,
     StepCopy, StepPrune, StepSeal, StepPublish, StepBreak, StepEdit
  DEF PackNext, Packing, Hash, Package
<1> QED
  BY <1>2, InitInv, PTL DEF PackSpec

\* An artifact that an agent accepts is the tree of one moment, whatever was edited
\* while it was hashed and copied, and whichever builds failed before.
THEOREM OneMomentCorrect == PackSpec => []AcceptedIsOneMoment
<1>1. PackInv => AcceptedIsOneMoment
  BY InvOneMoment DEF PackInv, AcceptedIsOneMoment
<1> QED
  BY <1>1, PackerInvariant, PTL

\* An agent accepts what is built of a tree that nobody edits meanwhile, whatever
\* builds came before and whatever they left.
THEOREM OwnBuildCorrect == PackSpec => []AcceptsOwnBuild
<1>1. PackInv => AcceptsOwnBuild
  BY InvVerifies DEF PackInv, AcceptsOwnBuild
<1> QED
  BY <1>1, PackerInvariant, PTL

\* Nothing that is excluded or resolved at deploy time is ever sealed.
THEOREM NothingElseCorrect == PackSpec => []NothingElseSealed
<1>1. PackInv => NothingElseSealed
  BY InvNothingElse DEF PackInv, NothingElseSealed
<1> QED
  BY <1>1, PackerInvariant, PTL

-----------------------------------------------------------------------------
(* The plan of a build *)

\* Any list of steps an install.yaml may hold is ordered with every dependency
\* first and no step left out, or else rejected for a reason.
THEOREM PlanCorrect == Spec => [](TypeOK /\ DependenciesFirst /\ RejectsOnlyUnsound)
<1>1. Init => PlanInv
  BY InputsAssumption, PlanFresh DEF Init
<1> QED
  BY <1>1, PlanNext, PlanSays, PTL DEF Spec

\* The plan in memory is the one of the working tree.
BuildInv ==
    /\ PlanInv
    /\ project \in Projects /\ steps = project.steps

LEMMA BuildInvInit == PackInit => BuildInv
BY PackerConstants, PlanFresh DEF PackInit, BuildInv, IsProject

LEMMA BuildInvNext == BuildInv /\ [PackNext]_packVars => BuildInv'
<1> SUFFICES ASSUME BuildInv, [PackNext]_packVars PROVE BuildInv'
  OBVIOUS
<1>1. CASE Build
  <2>1. (IsPlan(steps) /\ Fresh)'
    BY <1>1 DEF Build, Fresh, BuildInv, PlanInv, PlanTypes, IsPlan
  <2>2. (IsPlan(steps) /\ Fresh)' => PlanInv'
    BY PlanFresh, PTL
  <2> QED
    BY <1>1, <2>1, <2>2 DEF Build, BuildInv
<1>2. CASE LoadPlan
  BY <1>2, PlanNext DEF LoadPlan, BuildInv, Next, ValidateGraph, VisitStep,
     VisitDependency, Return, End
<1>3. ASSUME UNCHANGED <<vars, project>> PROVE BuildInv'
  BY <1>3, PlanStutter DEF BuildInv, vars
<1>4. CASE ValidateSourceTree \/ Inspect \/ (\E f \in todo : Read(f)) \/ WriteManifest
  BY <1>3, <1>4 DEF ValidateSourceTree, Inspect, Read, WriteManifest, fixed, planVars, vars
<1>5. CASE (\E f \in todo : Copy(f)) \/ Prune \/ Seal \/ Publish \/ Break \/ RemoveManifest
  BY <1>3, <1>5 DEF Copy, Prune, Seal, Publish, Break, RemoveManifest, fixed, planVars, vars
<1>6. CASE (\E f \in Workfiles : Edit(f)) \/ UNCHANGED packVars
  BY <1>3, <1>6 DEF Edit, packVars
<1> QED
  BY <1>1, <1>2, <1>4, <1>5, <1>6 DEF PackNext, Packing, Hash, Package

\* Whatever is built, broken off and edited, install runs the steps of a plan
\* after all they depend on, each once and none left out.
THEOREM DependenciesFirstCorrect == PackSpec => []DependenciesFirst
<1>1. BuildInv => DependenciesFirst
  BY PlanSays DEF BuildInv
<1> QED
  BY <1>1, BuildInvInit, BuildInvNext, PTL DEF PackSpec

\* A build rejects just the plans with a cycle, an unknown dependency or a
\* repeated id.
THEOREM RejectsOnlyUnsoundCorrect == PackSpec => []RejectsOnlyUnsound
<1>1. BuildInv => RejectsOnlyUnsound
  BY PlanSays DEF BuildInv
<1> QED
  BY <1>1, BuildInvInit, BuildInvNext, PTL DEF PackSpec

\* What `init-plan` writes has every step after those it depends on (module
\* Scaffold).
ScaffoldedBackwards == \A p \in Projects : p.scaffolded => Backwards(p.steps)

ScaffoldInv == project.scaffolded => WrittenOrder

LEMMA ScaffoldInvNext ==
    ASSUME ScaffoldedBackwards
    PROVE  BuildInv /\ ScaffoldInv /\ [PackNext]_packVars => ScaffoldInv'
<1> SUFFICES ASSUME BuildInv, ScaffoldInv, [PackNext]_packVars, project'.scaffolded
             PROVE  WrittenOrder'
  BY DEF ScaffoldInv
<1>0. project' = project
  BY DEF PackNext, Packing, Hash, Package, Build, LoadPlan, ValidateSourceTree, Inspect,
     Read, WriteManifest, Copy, Prune, Seal, Publish, Break, RemoveManifest, Edit,
     fixed, packVars
<1>s. WrittenOrder /\ Backwards(steps) /\ PlanInv
  BY <1>0 DEF ScaffoldInv, ScaffoldedBackwards, BuildInv
<1>1. CASE Build
  BY <1>1 DEF Build, WrittenOrder
<1>2. CASE LoadPlan
  BY <1>2, <1>s, WrittenOrderNext DEF LoadPlan
<1>3. ASSUME UNCHANGED vars PROVE WrittenOrder'
  BY <1>3, <1>s, WrittenOrderNext
<1>4. CASE ValidateSourceTree \/ Inspect \/ (\E f \in todo : Read(f)) \/ WriteManifest
  BY <1>3, <1>4 DEF ValidateSourceTree, Inspect, Read, WriteManifest, fixed, planVars, vars
<1>5. CASE (\E f \in todo : Copy(f)) \/ Prune \/ Seal \/ Publish \/ Break \/ RemoveManifest
  BY <1>3, <1>5 DEF Copy, Prune, Seal, Publish, Break, RemoveManifest, fixed, planVars, vars
<1>6. CASE (\E f \in Workfiles : Edit(f)) \/ UNCHANGED packVars
  BY <1>3, <1>6 DEF Edit, packVars
<1> QED
  BY <1>1, <1>2, <1>4, <1>5, <1>6 DEF PackNext, Packing, Hash, Package

\* A plan that init-plan wrote, for any plugins and extensions, is refused only
\* when two of its ids are one, and runs in the order it was written.
THEOREM ScaffoldRunsCorrect == ASSUME ScaffoldedBackwards PROVE PackSpec => []ScaffoldRuns
<1>1. PackInit => ScaffoldInv
  BY DEF PackInit, ScaffoldInv, Fresh, WrittenOrder
<1>2. BuildInv /\ ScaffoldInv => ScaffoldRuns
  BY WrittenOrderSays DEF BuildInv, ScaffoldInv, ScaffoldRuns
<1> QED
  BY <1>1, <1>2, BuildInvInit, BuildInvNext, ScaffoldInvNext, PTL DEF PackSpec

\* The stages of a build and what is there in each.
StageInv ==
    /\ pc \in {"idle", "plan", "inspect", "hash", "copy", "seal", "publish"}
    /\ manifest # NoManifest => manifest \in Content
    /\ pc \in {"copy", "seal", "publish"} => manifest # NoManifest

LEMMA StageNext == PackInv /\ StageInv /\ [PackNext]_packVars => StageInv'
<1> SUFFICES ASSUME PackInv, StageInv, [PackNext]_packVars PROVE StageInv'
  OBVIOUS
<1> USE DEF StageInv
<1>1. CASE Build \/ LoadPlan \/ ValidateSourceTree
  BY <1>1 DEF Build, LoadPlan, ValidateSourceTree, Fail
<1>2. CASE Inspect \/ \E f \in todo : Read(f)
  BY <1>2 DEF Inspect, Read, Fail
<1>3. CASE WriteManifest
  <2>1. hashed \in Content /\ hashed # NoManifest
    BY PackerConstants DEF PackInv, Types, Content
  <2> QED
    BY <1>3, <2>1 DEF WriteManifest, Content
<1>4. CASE (\E f \in todo : Copy(f)) \/ Prune \/ Seal \/ Publish
  BY <1>4 DEF Copy, Prune, Seal, Publish
<1>5. CASE Break \/ RemoveManifest
  BY <1>5, EmptyContent DEF Break, RemoveManifest, Fail, Content
<1>6. CASE (\E f \in Workfiles : Edit(f)) \/ UNCHANGED packVars
  BY <1>6 DEF Edit, packVars, Content
<1> QED
  BY <1>1, <1>2, <1>3, <1>4, <1>5, <1>6 DEF PackNext, Packing, Hash, Package

\* The packer is well typed, and manifest.json is there from when it is written.
THEOREM PackTypeCorrect == PackSpec => []PackTypeOK
<1>1. PackInit => StageInv
  BY DEF PackInit, StageInv
<1>2. BuildInv /\ PackInv /\ StageInv => PackTypeOK
  <2> SUFFICES ASSUME BuildInv, PackInv, StageInv PROVE PackTypeOK
    OBVIOUS
  <2>1. TypeOK /\ steps = project.steps
    BY PlanSays DEF BuildInv
  <2>2. \A a \in Artifacts : a.content \in Content /\ a.of \in Content
    BY DEF PackInv, ArtifactInv
  <2> QED
    BY <2>1, <2>2 DEF PackTypeOK, PackInv, Types, StageInv
<1> QED
  BY <1>1, <1>2, StageNext, BuildInvInit, BuildInvNext, PackerInvariant, PTL DEF PackSpec
=============================================================================
