--------------------------- MODULE ConnectAtomic ---------------------------
(***************************************************************************)
(* What src/arc/arc_connect.c promises to its callers: every command of a  *)
(* call reaches the unit in one indivisible step with the operand the      *)
(* caller gave, and the caller gets the reply to its own command.  Several *)
(* callers (a thread and an interrupt handler per core) run at once, and   *)
(* no order is promised between the commands of different callers.         *)
(***************************************************************************)
EXTENDS Sequences

CONSTANTS Caller,         \* execution contexts that call the driver
          CoreOf,         \* the core a caller runs on
          Calls,          \* Calls[x]: the API calls caller x makes
          HwInit,         \* the ARConnect unit after reset,
          After(_, _, _), \*   after a core issued a command,
          Reply(_, _, _), \*   what it replies,
          Counts(_),      \*   and its counter: whether it may advance
          Counted(_)      \*   and the unit when it has

VARIABLES hw,             \* the ARConnect unit
          todo,           \* todo[x]: commands of x's call not yet performed
          got             \* got[x]: reply to x's last performed command

vars == <<hw, todo, got>>

Init == /\ hw = HwInit
        /\ todo = [x \in Caller |-> <<>>]
        /\ got = [x \in Caller |-> 0]

Invoke(x) == /\ todo[x] = <<>>
             /\ \E call \in Calls[x] : todo' = [todo EXCEPT ![x] = call.body]
             /\ UNCHANGED <<hw, got>>

Perform(x) ==
  /\ todo[x] # <<>>
  /\ hw' = After(hw, CoreOf[x], Head(todo[x]))
  /\ got' = [got EXCEPT ![x] = Reply(hw, CoreOf[x], Head(todo[x]))]
  /\ todo' = [todo EXCEPT ![x] = Tail(todo[x])]

Tick == Counts(hw) /\ hw' = Counted(hw) /\ UNCHANGED <<todo, got>>

Next == Tick \/ \E x \in Caller : Invoke(x) \/ Perform(x)

Spec == Init /\ [][Next]_vars
=============================================================================
