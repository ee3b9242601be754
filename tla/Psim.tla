-------------------------------- MODULE Psim --------------------------------
(***************************************************************************)
(* Psim of src/lib/includes/sim.hpp: a universal construction.  A thread   *)
(* announces its request and flips its toggle; it copies the current state *)
(* into one of its own two, applies every request whose toggle differs     *)
(* from what the state says was applied, and tries to make its state the   *)
(* current one, twice at most.  The object is the stack of                 *)
(* src/lib/DS/Stacks/seq_stack/SLL.hpp, the only client that is built.     *)
(*                                                                         *)
(* A state is named by its owner and its bit: <<t, b>> is St[2 * t + b].   *)
(* A list is named by the call and the round of Attempt that built it; no  *)
(* use is made of the field object but to bind f_array, so "object" is the *)
(* list f_array is bound to.  Nodes never change once they are in a list,  *)
(* so SLL::copy is as many steps as it reads head.  Binding f_array frees  *)
(* the functors it held (each is too big for function's own buffer): who   *)
(* calls copy through one of them meanwhile reads freed memory: it is as   *)
(* it was, or holds another functor by now, or the call crashes.  A crash  *)
(* ends the process.                                                       *)
(*                                                                         *)
(* The eight byte copy of a request is one step, and so are the store of   *)
(* head and that of the answer.  The counters cas_suc and cas_fail are     *)
(* left out.                                                               *)
(***************************************************************************)
EXTENDS Integers, Sequences, Functions

CONSTANTS
  NThreads,  \* nthreads
  Funcs,     \* the requests the client makes: "add", "remove"
  InTurn,    \* bound: how many calls each thread makes when it waits for the
             \* others to return before it calls
  Together   \* bound: how many calls they make in all when calls overlap

ASSUME PsimAssumption ==
  /\ NThreads \in Nat \ {0} /\ InTurn \in Nat /\ Together \in Nat
  /\ Funcs \subseteq {"add", "remove"}

VARIABLES
  waits,     \* does a thread wait for its turn to call?  The same for ever
  announce,  \* announce_array
  toggles,
  list,      \* the lists, by their object
  st,        \* the states: object, applied and rvals
  rec,       \* rec[r]: a SimStructSeq, a state and its seq
  curr,      \* curr_state, a pointer to a record
  bit,       \* local_index
  local,     \* local[t]: the locals of a call
  calls,     \* how many calls each thread has made
  want       \* history: what the calls, one after the other, give

vars == <<waits, announce, toggles, list, st, rec, curr, bit, local, calls, want>>

Threads == 0..(NThreads - 1)
States == Threads \X {0, 1}
\* A call allocates one record; record <<0, 0>> is the constructor's.
MaxCalls == IF waits THEN InTurn ELSE Together
Records == Threads \X (0..MaxCalls)
\* A round of Attempt builds one list; <<0, 0, 0>> is the constructor's object.
Objects == Threads \X (0..MaxCalls) \X (0..2)
Given == <<0, 0, 0>>

\* What insert and remove make of the list, and what they return.
SerialApply(seq, req) ==
  IF req.func = "add" THEN [list |-> <<req.args>> \o seq, answer |-> 1]
  ELSE IF seq = <<>> THEN [list |-> seq, answer |-> -1]
  ELSE [list |-> Tail(seq), answer |-> Head(seq)]

Off == [i \in Threads |-> FALSE]

Idle == [pc |-> "idle", round |-> 0, i |-> 0, old |-> <<0, 0>>, from |-> <<0, 0>>,
         object |-> Given, copy |-> <<>>, seen |-> Off,
         before |-> [state |-> <<0, 0>>, seq |-> 0], target |-> <<0, 0>>, res |-> -1]

Init ==
  /\ waits \in BOOLEAN
  /\ announce = [t \in Threads |-> [func |-> "none", args |-> -1]]
  /\ toggles = Off
  /\ list = [o \in Objects |-> <<>>]
  /\ st = [s \in States |->
            [object |-> Given, applied |-> Off, rvals |-> [t \in Threads |-> -1]]]
  /\ rec = [r \in Records |-> [state |-> <<0, 0>>, seq |-> 0]]
  /\ curr = <<0, 0>>
  /\ bit = [t \in Threads |-> 0]
  /\ local = [t \in Threads |-> Idle]
  /\ calls = [t \in Threads |-> 0]
  /\ want = [list |-> <<>>, answer |-> -1]

Mine(t) == <<t, bit[t]>>        \* St[myIndex]
New(t) == <<t, calls[t]>>       \* new_ptr
\* Slip: a thread copies into the same list every time.
CopiedInPlace(t) == <<t, 0, 1>>

\* The list this round's copy returns.
Copied(t) == <<t, calls[t], local[t].round>>

Here(t, pc) == local[t].pc = pc
Goto(t, pc) == local' = [local EXCEPT ![t].pc = pc]

\* One round of a loop over the threads; the loop ends at "next".
Round(t, next) == IF local[t].i + 1 \in Threads
  THEN [local[t] EXCEPT !.i = @ + 1] ELSE [local[t] EXCEPT !.i = 0, !.pc = next]

\* A round of Attempt is over without success.
Again(t) == local' = [local EXCEPT ![t].i = 0, ![t].round = @ + 1,
                                   ![t].pc = IF local[t].round = 1 THEN "start" ELSE "answer"]

\* Calls are left: InTurn of each thread, or Together of all of them.
MayCall(t) ==
  /\ calls[t] < MaxCalls
  /\ ~waits => FoldFunction(+, 0, calls) < Together

Announce(t, func) ==
  /\ Here(t, "idle") /\ MayCall(t)
  /\ waits => \A u \in Threads : Here(u, "idle")
  /\ LET req == [func |-> func, args |-> MaxCalls * t + calls[t]] IN
     announce' = [announce EXCEPT ![t] = req] /\ want' = SerialApply(want.list, req)
  /\ calls' = [calls EXCEPT ![t] = @ + 1]
  /\ Goto(t, "toggle")
  /\ UNCHANGED <<waits, toggles, list, st, rec, curr, bit>>

Toggle(t) ==
  /\ Here(t, "toggle")
  /\ toggles' = [toggles EXCEPT ![t] = ~@]
  /\ local' = [local EXCEPT ![t].pc = "start", ![t].round = 1]
  /\ UNCHANGED <<waits, announce, list, st, rec, curr, bit, calls, want>>

Start(t) ==
  /\ Here(t, "start")
  /\ local' = [local EXCEPT ![t].pc = "copy", ![t].old = curr]
  /\ UNCHANGED <<waits, announce, toggles, list, st, rec, curr, bit, calls, want>>

\* old_ptr->state->f_array.copy: the state, then the functor.
Copy(t) ==
  /\ Here(t, "copy")
  /\ local' = [local EXCEPT ![t].pc = "functor", ![t].from = rec[local[t].old].state]
  /\ UNCHANGED <<waits, announce, toggles, list, st, rec, curr, bit, calls, want>>

Functor(t) ==
  /\ Here(t, "functor")
  /\ local' = [local EXCEPT ![t].pc = "call", ![t].object = st[local[t].from].object]
  /\ UNCHANGED <<waits, announce, toggles, list, st, rec, curr, bit, calls, want>>

\* The owner of the state has bound its f_array anew.
Freed(t) == st[local[t].from].object # local[t].object
Bound == {st[s].object : s \in States}

\* The functor is called, and SLL::copy looks whether the list is empty.
Call(t) ==
  /\ Here(t, "call")
  /\ \E o \in {local[t].object} \union (IF Freed(t) THEN Bound ELSE {}) :
       local' = [local EXCEPT ![t].object = o, ![t].copy = <<>>,
                              ![t].pc = IF list[o] = <<>> THEN "read" ELSE "first"]
  /\ UNCHANGED <<waits, announce, toggles, list, st, rec, curr, bit, calls, want>>

\* head->data, and then head->nextNode and what follows it.
CopyHead(t) ==
  LET nodes == list[local[t].object] IN
  /\ Here(t, "first") /\ nodes # <<>>
  /\ local' = [local EXCEPT ![t].pc = "rest", ![t].copy = <<Head(nodes)>>]
  /\ UNCHANGED <<waits, announce, toggles, list, st, rec, curr, bit, calls, want>>

CopyRest(t) ==
  LET nodes == list[local[t].object] IN
  /\ Here(t, "rest") /\ nodes # <<>>
  /\ local' = [local EXCEPT ![t].pc = "read", ![t].copy = @ \o Tail(nodes)]
  /\ UNCHANGED <<waits, announce, toggles, list, st, rec, curr, bit, calls, want>>

\* The call of a freed functor, or a list that was not empty and now is.
Crash(t) ==
  /\ \/ Here(t, "call") /\ Freed(t)
     \/ local[t].pc \in {"first", "rest"} /\ list[local[t].object] = <<>>
  /\ Goto(t, "crashed")
  /\ UNCHANGED <<waits, announce, toggles, list, st, rec, curr, bit, calls, want>>

\* Slip: what the state applied is not copied with it.
ReadTogglesOnly(t) ==
  LET i == local[t].i IN
  /\ Here(t, "read")
  /\ local' = [local EXCEPT ![t] = [Round(t, "check") EXCEPT !.seen[i] = toggles[i]]]
  /\ UNCHANGED <<waits, announce, toggles, list, st, rec, curr, bit, calls, want>>

Read(t) ==
  LET i == local[t].i IN
  /\ Here(t, "read")
  /\ st' = [st EXCEPT ![Mine(t)].applied[i] = st[rec[local[t].old].state].applied[i]]
  /\ local' = [local EXCEPT ![t] = [Round(t, "check") EXCEPT !.seen[i] = toggles[i]]]
  /\ UNCHANGED <<waits, announce, toggles, list, rec, curr, bit, calls, want>>

Check(t) ==
  /\ Here(t, "check")
  /\ IF curr # local[t].old THEN Again(t) ELSE Goto(t, "bind")
  /\ UNCHANGED <<waits, announce, toggles, list, st, rec, curr, bit, calls, want>>

Bind(t) ==
  /\ Here(t, "bind")
  /\ list' = [list EXCEPT ![Copied(t)] = local[t].copy]
  /\ st' = [st EXCEPT ![Mine(t)].object = Copied(t)]
  /\ Goto(t, "apply")
  /\ UNCHANGED <<waits, announce, toggles, rec, curr, bit, calls, want>>

Apply(t) ==
  LET i == local[t].i
      object == st[Mine(t)].object
      after == SerialApply(list[object], announce[i]) IN
  /\ Here(t, "apply")
  /\ IF local[t].seen[i] # st[Mine(t)].applied[i]
     THEN /\ list' = [list EXCEPT ![object] = after.list]
          /\ st' = [st EXCEPT ![Mine(t)].rvals[i] = after.answer]
     ELSE UNCHANGED <<list, st>>
  /\ local' = [local EXCEPT ![t] = Round(t, "mark")]
  /\ UNCHANGED <<waits, announce, toggles, rec, curr, bit, calls, want>>

Mark(t) ==
  LET i == local[t].i IN
  /\ Here(t, "mark")
  /\ st' = [st EXCEPT ![Mine(t)].applied[i] = local[t].seen[i]]
  /\ local' = [local EXCEPT ![t] = Round(t, "before")]
  /\ UNCHANGED <<waits, announce, toggles, list, rec, curr, bit, calls, want>>

\* new_ptr is filled, and what the old record holds now is what DCAS expects.
Before(t) ==
  LET old == rec[local[t].old] IN
  /\ Here(t, "before")
  /\ rec' = [rec EXCEPT ![New(t)] = [state |-> Mine(t), seq |-> old.seq + 1]]
  /\ local' = [local EXCEPT ![t].pc = "target", ![t].before = old]
  /\ UNCHANGED <<waits, announce, toggles, list, st, curr, bit, calls, want>>

\* DCAS on the record that is current when its argument is loaded: it gets the
\* new state and keeps its seq.  Only then is the new record made current.
Target(t) ==
  /\ Here(t, "target")
  /\ local' = [local EXCEPT ![t].pc = "dcas", ![t].target = curr]
  /\ UNCHANGED <<waits, announce, toggles, list, st, rec, curr, bit, calls, want>>

Dcas(t) ==
  LET target == local[t].target IN
  /\ Here(t, "dcas")
  /\ IF rec[target] = local[t].before
     THEN rec' = [rec EXCEPT ![target].state = Mine(t)] /\ Goto(t, "store")
     ELSE UNCHANGED rec /\ Again(t)
  /\ UNCHANGED <<waits, announce, toggles, list, st, curr, bit, calls, want>>

\* Slip: a thread goes on writing the state it has just published.
StoreSameBit(t) ==
  /\ Here(t, "store")
  /\ curr' = New(t)
  /\ Goto(t, "answer")
  /\ UNCHANGED <<waits, announce, toggles, list, st, rec, bit, calls, want>>

Store(t) ==
  /\ Here(t, "store")
  /\ curr' = New(t)
  /\ bit' = [bit EXCEPT ![t] = 1 - @]
  /\ Goto(t, "answer")
  /\ UNCHANGED <<waits, announce, toggles, list, st, rec, calls, want>>

\* The answer is read from the state that is current by now.
Answer(t) ==
  /\ Here(t, "answer")
  /\ local' = [local EXCEPT ![t].pc = "done", ![t].res = st[rec[curr].state].rvals[t]]
  /\ UNCHANGED <<waits, announce, toggles, list, st, rec, curr, bit, calls, want>>

Return(t) ==
  /\ Here(t, "done")
  /\ local' = [local EXCEPT ![t] = Idle]
  /\ UNCHANGED <<waits, announce, toggles, list, st, rec, curr, bit, calls, want>>

Step(t) ==
  \/ \E func \in Funcs : Announce(t, func)
  \/ Toggle(t) \/ Start(t) \/ Copy(t) \/ Functor(t) \/ Call(t) \/ CopyHead(t) \/ CopyRest(t)
  \/ Crash(t) \/ Read(t) \/ Check(t) \/ Bind(t) \/ Apply(t) \/ Mark(t) \/ Before(t)
  \/ Target(t) \/ Dcas(t) \/ Store(t) \/ Answer(t) \/ Return(t)

Crashed == \E t \in Threads : Here(t, "crashed")
Finished == Crashed \/ \A t \in Threads : Here(t, "idle") /\ ~MayCall(t)
Terminating == Finished /\ UNCHANGED vars

Next == Terminating \/ (~Crashed /\ \E t \in Threads : Step(t))

Spec == Init /\ [][Next]_vars

-----------------------------------------------------------------------------
Current == st[rec[curr].state]
Returning == \E t \in Threads : Here(t, "done")

\* Calls that do not overlap act like calls of the sequential stack, whichever
\* threads make them: the copies, the toggles and the two states of each
\* thread lose nothing, repeat nothing and answer the right thread.
InTurnIsSequential == waits /\ Returning =>
  /\ list[Current.object] = want.list
  /\ \A t \in Threads : Here(t, "done") => local[t].res = want.answer

\* The state that is current is not the one its owner writes next, however
\* calls overlap and whichever record a late DCAS hits, once the record the
\* constructor makes has been left.  Only an owner that has just swung a
\* record to its state, and has yet to store the pointer, may be in it.
NextStateIsFree == curr # <<0, 0>> =>
  \A t \in Threads : rec[curr].state = Mine(t) => Here(t, "store")

\* A copy that passes Attempt's check is a true one, however calls overlap: as
\* long as the record a call began with is current, nobody writes the state it
\* copies, nor the list.  So a copy tears or crashes only when it comes too
\* late to be used, or in the constructor's state.
CheckedCopyIsTrue == \A t \in Threads :
  curr = local[t].old /\ curr # <<0, 0>> =>
    /\ Here(t, "check") => local[t].copy = list[st[local[t].from].object]
    /\ ~Here(t, "crashed")

\* src/lib/DS/Sim/test_add.cpp:82: the threads add at the same time, and what is
\* there in the end "Should be" all they have added.  (The test's formula adds
\* up 1 to ACTIONS where its threads add 0 to ACTIONS - 1.)
AllAddsAreKept == Finished /\ ~Crashed /\ Funcs = {"add"} =>
  Len(list[Current.object]) = FoldFunction(+, 0, calls)
=============================================================================
