-------------------------- MODULE OverrideSearchPath --------------------------
(***************************************************************************)
(* What the analysis entry points promise about the override search-path   *)
(* stack (spec 4.1 and 7): the grammar's path is pushed once on entry,     *)
(* stays on top while the statement is analysed, and is popped once on    *)
(* the way out, whether the analysis returns or raises; and the way out is *)
(* always reached. Nothing else touches the stack.                         *)
(***************************************************************************)
EXTENDS Integers, Sequences

CONSTANTS
    Paths,       \* the paths the grammars push
    InitStacks   \* stacks the caller may already have

VARIABLES
    stack,
    phase,       \* "idle" before the push, "in" until the pop, then "out"
    path         \* the path pushed for this call

avars == <<stack, phase, path>>

Init ==
    /\ stack \in InitStacks
    /\ phase = "idle"
    /\ path \in Paths

Enter ==
    /\ phase = "idle"
    /\ stack' = Append(stack, path)
    /\ phase' = "in"
    /\ UNCHANGED path

Leave ==
    /\ phase = "in"
    /\ stack' = SubSeq(stack, 1, Len(stack) - 1)
    /\ phase' = "out"
    /\ UNCHANGED path

Next == Enter \/ Leave

\* the caller runs to completion: a backend executes the call straight through
Spec == Init /\ [][Next]_avars /\ WF_avars(Next)

=============================================================================
