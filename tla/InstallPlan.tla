---------------------------- MODULE InstallPlan ----------------------------
(***************************************************************************)
(* schema/install.py: InstallPlan._validate_graph() and the depth-first      *)
(* _topological_order() that both validates the `depends_on` graph and       *)
(* gives execution_order(), the order in which _install runs the steps.      *)
(* The recursion of visit() is a stack of frames.                            *)
(***************************************************************************)
EXTENDS Integers, Sequences, SequencesExt

CONSTANTS
    Ids,     \* step ids, and ids no step has
    Inputs   \* lists of steps an install.yaml may hold

\* The order of `depends_on` matters: it is the order visit() follows.
IsPlan(p) ==
    p \in Seq([id : Ids, depends_on : Seq(Ids)])

ASSUME InputsAssumption == \A p \in Inputs : IsPlan(p)

VARIABLES
    steps,    \* InstallPlan.steps
    phase,    \* "new", "visiting", "ordered" or "rejected"
    marks,    \* ids in progress and ids done
    stack,    \* frames of visit(), the innermost last
    next,     \* the step of the outer loop
    order

vars == <<steps, phase, marks, stack, next, order>>

Known == {steps[i].id : i \in DOMAIN steps}

\* deps.get(node): the step with that id.
DependsOn(n) == steps[CHOOSE i \in DOMAIN steps : steps[i].id = n].depends_on

\* visit(n) has still to visit the dependencies from `at` on.
Frame == [node : Ids, at : Nat \ {0}]

Fresh ==
    /\ phase = "new"
    /\ marks = [progress |-> {}, done |-> {}]
    /\ stack = <<>>
    /\ next = 1
    /\ order = <<>>

Init == steps \in Inputs /\ Fresh

\* The checks before the sort: ids are unique, dependencies are ids of steps,
\* and of other steps.
ValidateGraph ==
    /\ phase = "new"
    /\ phase' = IF /\ IsInjective([i \in DOMAIN steps |-> steps[i].id])
                   /\ \A i \in DOMAIN steps :
                         ToSet(steps[i].depends_on) \subseteq Known \ {steps[i].id}
                THEN "visiting" ELSE "rejected"
    /\ UNCHANGED <<steps, marks, stack, next, order>>

\* Mutant: a node in progress counts as visited.
VisitLenient(n, below) ==
    \/ /\ n \in marks.done \cup marks.progress
       /\ stack' = below
       /\ UNCHANGED <<marks, phase>>
    \/ /\ n \notin marks.done \cup marks.progress
       /\ marks' = [marks EXCEPT !.progress = @ \cup {n}]
       /\ stack' = Append(below, [node |-> n, at |-> 1])
       /\ UNCHANGED phase

\* A call of visit(n), with the frames below it.
Visit(n, below) ==
    \/ /\ n \in marks.done
       /\ stack' = below
       /\ UNCHANGED <<marks, phase>>
    \/ /\ n \in marks.progress
       /\ phase' = "rejected"
       /\ stack' = below
       /\ UNCHANGED marks
    \/ /\ n \notin marks.done \cup marks.progress
       /\ marks' = [marks EXCEPT !.progress = @ \cup {n}]
       /\ stack' = Append(below, [node |-> n, at |-> 1])
       /\ UNCHANGED phase

VisitStep ==
    /\ phase = "visiting" /\ stack = <<>>
    /\ next <= Len(steps)
    /\ next' = next + 1
    /\ Visit(steps[next].id, stack)
    /\ UNCHANGED <<steps, order>>

Top == Last(stack)

\* Mutant: the loop over the dependencies looks at the same one again.
VisitFirstDependency ==
    /\ phase = "visiting" /\ stack # <<>>
    /\ Top.at <= Len(DependsOn(Top.node))
    /\ Visit(DependsOn(Top.node)[Top.at], stack)
    /\ UNCHANGED <<steps, next, order>>

\* The loop of visit(node) calls visit() for its next dependency.
VisitDependency ==
    /\ phase = "visiting" /\ stack # <<>>
    /\ Top.at <= Len(DependsOn(Top.node))
    /\ Visit(DependsOn(Top.node)[Top.at],
             Append(Front(stack), [Top EXCEPT !.at = @ + 1]))
    /\ UNCHANGED <<steps, next, order>>

\* Mutant: a node is ordered before its dependencies are visited.
ReturnEarly ==
    /\ phase = "visiting" /\ stack # <<>>
    /\ marks' = [progress |-> marks.progress \ {Top.node}, done |-> marks.done \cup {Top.node}]
    /\ order' = Append(order, Top.node)
    /\ stack' = Front(stack)
    /\ UNCHANGED <<steps, phase, next>>

\* Mutant: a node that is done stays in progress.
ReturnKeepingMark ==
    /\ phase = "visiting" /\ stack # <<>>
    /\ Top.at > Len(DependsOn(Top.node))
    /\ marks' = [marks EXCEPT !.done = @ \cup {Top.node}]
    /\ order' = Append(order, Top.node)
    /\ stack' = Front(stack)
    /\ UNCHANGED <<steps, phase, next>>

\* Every dependency is visited: the node is done.
Return ==
    /\ phase = "visiting" /\ stack # <<>>
    /\ Top.at > Len(DependsOn(Top.node))
    /\ marks' = [progress |-> marks.progress \ {Top.node}, done |-> marks.done \cup {Top.node}]
    /\ order' = Append(order, Top.node)
    /\ stack' = Front(stack)
    /\ UNCHANGED <<steps, phase, next>>

End ==
    /\ phase = "visiting" /\ stack = <<>>
    /\ next > Len(steps)
    /\ phase' = "ordered"
    /\ UNCHANGED <<steps, marks, stack, next, order>>

Next == ValidateGraph \/ VisitStep \/ VisitDependency \/ Return \/ End

Spec == Init /\ [][Next]_vars

-----------------------------------------------------------------------------
(* Properties *)

\* Types; the marks in progress are those of the frames, each there once.
TypeOK ==
    /\ IsPlan(steps)
    /\ phase \in {"new", "visiting", "ordered", "rejected"}
    /\ marks.progress \subseteq Known /\ marks.done = ToSet(order)
    /\ stack \in Seq(Frame)
    /\ phase # "rejected" =>
         /\ marks.progress = {stack[i].node : i \in DOMAIN stack}
         /\ IsInjective([i \in DOMAIN stack |-> stack[i].node])
    /\ next \in 1..(Len(steps) + 1)
    /\ order \in Seq(Ids)

\* At every moment a step is ordered after all it depends on, and once; the
\* order that install follows leaves no step out.
DependenciesFirst ==
    /\ IsInjective(order)
    /\ \A i \in DOMAIN order :
         ToSet(DependsOn(order[i])) \subseteq {order[j] : j \in 1..(i - 1)}
    /\ phase = "ordered" => ToSet(order) = Known

\* Reference: a set of steps each of which depends on one of the set.
Cyclic == \E C \in SUBSET Known :
    C # {} /\ \A n \in C : ToSet(DependsOn(n)) \cap C # {}

Sound == /\ IsInjective([i \in DOMAIN steps |-> steps[i].id])
         /\ \A i \in DOMAIN steps : ToSet(steps[i].depends_on) \subseteq Known
         /\ ~Cyclic

\* Just the plans with a dependency cycle, an unknown dependency or a repeated
\* id are rejected.
RejectsOnlyUnsound ==
    /\ phase = "rejected" => ~Sound
    /\ phase = "ordered" => Sound
=============================================================================
