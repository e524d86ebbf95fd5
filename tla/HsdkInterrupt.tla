---------------------------- MODULE HsdkInterrupt ----------------------------
(***************************************************************************)
(* The interrupt layer of the HSDK board                                   *)
(* (src/board/hsdk/configs/10/hsdk_interrupt.c) on one core: the devices'  *)
(* interrupts come through the distribution unit of ARConnect (IDU), and   *)
(* one routine, arc_connect_int_isr, serves them all, whichever it was     *)
(* entered for.  Every IDU command takes arc_connect_lock, which does not  *)
(* mask interrupts; contexts[1] is the thread, the others are nested       *)
(* routines.                                                               *)
(***************************************************************************)
EXTENDS Integers, Sequences

CONSTANTS Irqs,         \* numbers of the IDU's interrupts, in the loop's order
          EdgeIrqs,     \* those the routine acknowledges: creg, cgu, tunnel
          Priorities,   \* assignments of priorities (0 is the most urgent)
          Clients       \* sets of the operations the program makes

VARIABLE hs

Operations == {"enable", "disable", "trigger", "toedge", "tolevel", "locked", "handler"}
HsdkConstants == /\ Irqs \subseteq Nat \ {0} /\ EdgeIrqs \subseteq Irqs
                 /\ Priorities \subseteq [Irqs -> Nat] /\ Clients \subseteq SUBSET Operations

First == CHOOSE k \in Irqs : \A j \in Irqs : k <= j
Last == CHOOSE k \in Irqs : \A j \in Irqs : k >= j
After(i) == CHOOSE k \in Irqs : k > i /\ \A j \in Irqs : j > i => k <= j

(* A context: i, the interrupt the loop is at; op and k, the call it makes.*)
(* due: the handler runs for an event nobody handled before; told: the     *)
(* interrupt was on when it was called; stale: another routine has run     *)
(* since the mask of i was read.                                           *)
Frame(j) == [src |-> j, i |-> First, at |-> "mask", op |-> "none", k |-> First,
             due |-> FALSE, told |-> FALSE, stale |-> FALSE]
Thread == [Frame(0) EXCEPT !.at = "idle"]
(* hsdk_interrupt_init: everything is unmasked in the IDU, though the core *)
(* has enabled nothing.  arc: int_enable at the core; mask, edge, pend: the*)
(* IDU's; lock: the context that has arc_connect_lock, or 0.               *)
(* owe: events not handled; masked: interrupts int_disable has masked once;*)
(* raced: interrupts a handler disabled between the two steps of int_enable;*)
(* stuck: a routine spins on a lock its own core holds.                    *)
Init == \E client \in Clients, pri \in Priorities :
  hs = [client |-> client, pri |-> pri, arc |-> {}, mask |-> {}, edge |-> EdgeIrqs, pend |-> {},
        line |-> {}, contexts |-> <<Thread>>, lock |-> 0, locked |-> FALSE,
        owe |-> {}, masked |-> {}, raced |-> {}, stuck |-> FALSE]

Set(h) == hs' = h
top == Len(hs.contexts)
me == hs.contexts[top]
Asserted(k) == k \in hs.pend \/ (k \in hs.line /\ k \notin hs.edge)
Requests == {k \in hs.arc \ hs.mask :
               Asserted(k) /\ IF top = 1 THEN ~ hs.locked ELSE hs.pri[k] < hs.pri[me.src]}

(* A device raises its level, or makes its edge.                           *)
Event == \E k \in Irqs \ (hs.line \cap hs.pend) :
           Set([hs EXCEPT !.owe = @ \cup {k},
                          !.line = IF k \in EdgeIrqs THEN @ ELSE @ \cup {k},
                          !.pend = IF k \in hs.edge THEN @ \cup {k} ELSE @])

(* ------------------------- the core takes an interrupt ------------------ *)

Cut == [me EXCEPT !.stale = @ \/ me.at \in {"status", "ack", "mode", "first"}]
Enter == \E j \in Requests :
  Set([hs EXCEPT !.contexts = Append([@ EXCEPT ![top] = Cut], Frame(j)),
                 !.stuck = @ \/ hs.lock # 0])

(* ------------------------------- IDU commands --------------------------- *)

Commands == {"mask", "status", "ack", "mode", "first", "set_mask", "gen_cirq", "read_mode", "set_mode"}
Runs == Requests = {}
GetLock == Runs /\ me.at \in Commands /\ hs.lock = 0 /\ Set([hs EXCEPT !.lock = top])
(* The command is performed and the lock released; h is the state after the*)
(* command's effect, f the context going on.                               *)
Command(at) == Runs /\ me.at = at /\ hs.lock = top
Going(h, f) == Set([h EXCEPT !.contexts = [@ EXCEPT ![top] = f], !.lock = 0])

(* ---------------------------- arc_connect_int_isr ----------------------- *)

(* The next turn of the loop, or the return.                               *)
(* Mutant: the last interrupt is left out. *)
Turn_Short(h) ==
  IF me.i = Last \/ After(me.i) = Last THEN Set([h EXCEPT !.contexts = SubSeq(@, 1, top - 1), !.lock = 0])
  ELSE Going(h, [Frame(me.src) EXCEPT !.i = After(me.i)])
Turn(h) == IF me.i = Last THEN Set([h EXCEPT !.contexts = SubSeq(@, 1, top - 1), !.lock = 0])
           ELSE Going(h, [Frame(me.src) EXCEPT !.i = After(me.i)])
(* Who is disabling k has not finished yet.                                *)
Disabling(k) == \E n \in 1 .. top : hs.contexts[n].op = "disable" /\ hs.contexts[n].k = k
Calling == [me EXCEPT !.at = "in", !.due = me.i \in hs.owe,
                      !.told = me.i \in hs.arc \/ me.i \notin hs.masked \/ me.i \in hs.raced \/ Disabling(me.i)]
ReadMask == /\ Command("mask")
            /\ IF me.i \in hs.mask THEN Turn(hs)
               ELSE Going(hs, [me EXCEPT !.at = IF me.i \in EdgeIrqs THEN "status" ELSE "mode"])
CheckStatus == /\ Command("status")
               /\ IF me.i \in hs.pend THEN Going(hs, [me EXCEPT !.at = "ack"]) ELSE Turn(hs)
(* Mutant: the interrupt is handled without being acknowledged. *)
Ack_Not == Command("ack") /\ Going([hs EXCEPT !.owe = @ \ {me.i}], Calling)
(* The edge is acknowledged before its handler is called.                  *)
Ack == Command("ack") /\ Going([hs EXCEPT !.pend = @ \ {me.i}, !.owe = @ \ {me.i}], Calling)
(* arc_connect_idu_read_mode reads whether the unit is enabled, which is 1,*)
(* as is the distribution mode FIRST_ACK that is looked for.               *)
ReadMode == Command("mode") /\ Going(hs, [me EXCEPT !.at = "first"])
CheckFirst == Command("first") /\ IF Asserted(me.i) THEN Going(hs, Calling) ELSE Turn(hs)

(* The handler serves its device and returns, or first calls int_disable.  *)
HandlerCalls(k) == /\ Runs /\ me.at = "in" /\ me.op = "none" /\ "handler" \in hs.client
                   /\ LET f == [me EXCEPT !.op = "disable", !.k = k, !.at = "arc"] IN
                        Set([hs EXCEPT !.contexts = [@ EXCEPT ![top] = f]])
HandlerReturns == /\ Runs /\ me.at = "in"
                  /\ Turn(IF me.i \in EdgeIrqs THEN hs
                          ELSE [hs EXCEPT !.line = @ \ {me.i}, !.owe = @ \ {me.i}])

(* ------------------------------- the API -------------------------------- *)

(* A call by the thread, perhaps under cpu_lock.                           *)
Steps(op) == CASE op \in {"enable", "disable"} -> "arc"
               [] op = "trigger" -> "gen_cirq"
               [] OTHER -> "read_mode"
Call(op, k, locked) ==
  /\ Runs /\ me.at = "idle" /\ op \in hs.client \ {"locked", "handler"}
  /\ locked => "locked" \in hs.client
  /\ op = "trigger" => k \in EdgeIrqs
  /\ Set([hs EXCEPT !.contexts = <<[Thread EXCEPT !.op = op, !.k = k, !.at = Steps(op)]>>, !.locked = locked])
Done == IF top = 1 THEN Thread ELSE [me EXCEPT !.at = "in", !.op = "done"]
Returns(h) == Going([h EXCEPT !.locked = FALSE], Done)
(* arc_int_enable or arc_int_disable.                                      *)
ArcInt == /\ Runs /\ me.at = "arc"
          /\ Going([hs EXCEPT !.arc = IF me.op = "enable" THEN @ \cup {me.k} ELSE @ \ {me.k}],
                   [me EXCEPT !.at = "set_mask"])
Raced(k) == IF \E n \in 1 .. top : hs.contexts[n].op = "enable" /\ hs.contexts[n].k = k /\ hs.contexts[n].at = "set_mask"
            THEN hs.raced \cup {k} ELSE hs.raced \ {k}
(* Mutant: int_disable leaves the IDU's mask alone. *)
SetMask_Not == /\ Command("set_mask")
               /\ IF me.op = "enable" THEN Returns([hs EXCEPT !.mask = @ \ {me.k}])
                  ELSE Returns([hs EXCEPT !.masked = @ \cup {me.k}, !.raced = Raced(me.k)])
SetMask == /\ Command("set_mask")
           /\ IF me.op = "enable" THEN Returns([hs EXCEPT !.mask = @ \ {me.k}])
              ELSE Returns([hs EXCEPT !.mask = @ \cup {me.k}, !.masked = @ \cup {me.k}, !.raced = Raced(me.k)])
GenCirq == Command("gen_cirq") /\ Returns([hs EXCEPT !.pend = @ \cup {me.k}, !.owe = @ \cup {me.k}])
(* int_level_config: the "mode" read is 1, in which the trigger bit is 0:  *)
(* an interrupt is made edge triggered, and never level triggered again.   *)
LevelConfig == /\ Command("read_mode")
               /\ IF me.op = "toedge" THEN Going(hs, [me EXCEPT !.at = "set_mode"]) ELSE Returns(hs)
SetMode == Command("set_mode") /\ Returns([hs EXCEPT !.edge = @ \cup {me.k}])

Isr == Enter \/ ReadMask \/ CheckStatus \/ Ack \/ ReadMode \/ CheckFirst \/ HandlerReturns
Api == ArcInt \/ SetMask \/ GenCirq \/ LevelConfig \/ SetMode
Step == Isr \/ Api \/ GetLock \/ \E k \in Irqs : HandlerCalls(k)
Next == Event \/ Step \/ \E op \in Operations, k \in Irqs, locked \in BOOLEAN : Call(op, k, locked)
Spec == Init /\ [][Next]_hs
(* The core executes: what it is in goes on, interrupts are taken first.   *)
AtRest == me.at = "idle" /\ Requests = {}
Fairness == []<>(AtRest \/ hs.stuck) \/ []<><<Step>>_hs

(* ------------------------------ properties ------------------------------ *)

(* Every field keeps its type.                                             *)
TypeOK == /\ hs.arc \cup hs.mask \cup hs.edge \cup hs.pend \cup hs.line \cup hs.owe \cup hs.masked \cup hs.raced \subseteq Irqs
          /\ hs.lock \in 0 .. top /\ hs.locked \in BOOLEAN /\ hs.stuck \in BOOLEAN
          /\ \A n \in 2 .. top : hs.contexts[n].src \in Irqs /\ hs.contexts[n].i \in Irqs

(* A handler runs for an event that no run before has handled, though any  *)
(* routine may serve any interrupt, unless a more urgent routine ran since *)
(* this one read the mask, or a level was made an edge, which the routine  *)
(* never acknowledges.                                                     *)
InHandler(n) == n > 1 /\ hs.contexts[n].at = "in"
OncePerEvent ==
  \A n \in 1 .. top : LET f == hs.contexts[n] IN
    InHandler(n) => f.due \/ f.stale \/ f.i \in hs.edge \ EdgeIrqs
(* A handler runs only while its interrupt is enabled; but one that was    *)
(* never disabled is served before it is enabled, as hsdk_interrupt_init   *)
(* unmasks it, one disabled by a nested handler is still called once, and  *)
(* one that a handler disables in the middle of int_enable stays unmasked. *)
QuietWhenDisabled ==
  \A n \in 1 .. top : InHandler(n) => hs.contexts[n].told \/ hs.contexts[n].stale
(* arc_connect_int_isr calls a handler once per event and only while its    *)
(* interrupt is enabled, but for what the two properties name.             *)
DispatchedOnce == TypeOK /\ OncePerEvent /\ QuietWhenDisabled
(* An event of an enabled interrupt that nobody has handled yet; none is   *)
(* owed once a routine was entered while its core held arc_connect_lock.   *)
Owed(k) == k \in hs.owe /\ k \in hs.arc \ hs.mask /\ ~ hs.stuck /\ k \notin hs.edge \ EdgeIrqs
=============================================================================
