------------------------------ MODULE FcStack ------------------------------
(***************************************************************************)
(* The flat combining stack of src/lib/DS/FC/fcStack/fcStack.hpp.          *)
(*                                                                         *)
(* Nodes are neither changed after they are pushed nor freed, and only the *)
(* combiner moves top: the chain of nodes from top is a sequence, top      *)
(* first, and one serial operation is one step.                            *)
(***************************************************************************)
EXTENDS FlatCombining, Integers, Sequences

\* A value that is pushed is an int, and so is what asks for a pop.
ASSUME FcStackAssumption == \A s \in Structs : Arguments[s] \subseteq Int

VARIABLE top

vars == <<head, lock, request, local, calls, top>>

\* serialPushPop: a negative value pops.
SerialPushPop(value, stack) ==
  IF value >= 0 THEN [object |-> <<value>> \o stack, answer |-> 0]
  ELSE IF stack = <<>> THEN [object |-> stack, answer |-> -1]
  ELSE [object |-> Tail(stack), answer |-> Head(stack)]

Init == FcInit /\ top = <<>>

\* Slip: the combiner pops for every request.
ServePop(t) ==
  LET after == SerialPushPop(-1, top) IN
  Answer(t, after.answer) /\ top' = after.object

\* The combiner serves the request it has come to with its own value.
Serve(t) ==
  LET after == SerialPushPop(local[t].value, top) IN
  Answer(t, after.answer) /\ top' = after.object

Step(t) == Serve(t) \/ (Protocol(t) /\ UNCHANGED top)

Terminating == Finished /\ UNCHANGED vars

Next == (\E t \in Threads : Step(t)) \/ Terminating

Spec == Init /\ [][Next]_vars
FairSpec == Spec /\ \A t \in Threads : WF_vars(Step(t))

-----------------------------------------------------------------------------
\* Every call returns: a combiner passes over the list a fixed number of
\* times, and a waiting thread either is served or gets the lock itself.
EveryCallReturns == <>Finished

Apply(s, value, stack) == SerialPushPop(value, stack)

Combined == INSTANCE CombinedObject WITH
  Initial <- <<>>, object <- top, call <- Calls

\* Every call returns the answer of one serial operation made for it during
\* the call, and the stack sees no other operations: none is lost, made
\* twice, or answered to the wrong caller.
RefinesCombined == Combined!Spec
=============================================================================
