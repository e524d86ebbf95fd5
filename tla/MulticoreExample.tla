-------------------------- MODULE MulticoreExample --------------------------
(***************************************************************************)
(* The SMP example (src/example/arc_feature/multicore/main.c) on top of    *)
(* the ARConnect driver: every core waits for its timer, raises an inter-  *)
(* core interrupt at the next core and polls until it is acknowledged; the *)
(* handler asks who raised it, prints and acknowledges.  Printing takes a  *)
(* second spin lock, output_lock.  The timer is abstracted to a delay that *)
(* may end at any time.                                                    *)
(***************************************************************************)
EXTENDS ArcConnect

CONSTANT NumCpus          \* ARC_FEATURE_MP_NUM_CPUS

(* One thread and one handler per core, and the calls they make.           *)
ASSUME ExampleAssumption ==
  /\ NumCpus \in Nat \ {0} /\ Core = 0 .. NumCpus - 1
  /\ Caller = Core \X {"thread", "handler"} /\ Handler = Core \X {"handler"}
  /\ CoreOf = [x \in Caller |-> x[1]]
  /\ \A x \in Caller :
       /\ {check_core_id, ici_check_src} \subseteq Calls[x]
       /\ \A c \in Core : {ici_generate(c), ici_read_status(c), ici_ack(c)} \subseteq Calls[x]

VARIABLES at,             \* at[x]: where x is in the example's own code
          olock,          \* output_lock.slock
          from            \* from[c]: the core cores_ici_isr found, or -1

app == <<at, olock, from>>
evars == <<vars, app>>

Thread(c) == <<c, "thread">>
Isr(c)    == <<c, "handler">>

next_id(c) == (c + 1) % NumCpus

EInit == /\ Init
         /\ at = [x \in Caller |-> IF x \in Handler THEN "none" ELSE "hello"]
         /\ olock = UNLOCKED
         /\ from = [c \in Core |-> c]

(* x is in the example's code at l, not inside the driver. *)
Here(x, l) == at[x] = l /\ pc[x] = "idle" /\ Runs(x) 
step(x, l, m) == Here(x, l) /\ at' = [at EXCEPT ![x] = m]

(* smp_printf: output_lock is taken, and given back after the output.  The *)
(* LLOCK/SCOND loop is the one of the driver, taken as one step here.      *)
PrintGet(x, l, m)     == /\ olock = UNLOCKED
                         /\ step(x, l, m)
                         /\ olock' = LOCKED
                         /\ UNCHANGED <<vars, from>>
PrintRelease(x, l, m) == /\ step(x, l, m)
                         /\ olock' = UNLOCKED
                         /\ UNCHANGED <<vars, from>>

(* A driver call made at l; the result is looked at when x is at m. *)
CallAt(x, l, c, m) == step(x, l, m) /\ Enter(x, c) /\ UNCHANGED <<olock, from>>

(* cores_main: "starts to run", its ARConnect id, then the loop. *)
Greet(x) == \/ PrintGet(x, "hello", "hello2") \/ PrintRelease(x, "hello2", "id")
            \/ CallAt(x, "id", check_core_id, "id2")
            \/ PrintGet(x, "id2", "id3")      \/ PrintRelease(x, "id3", "wait")

(* The delay ends: cores_t0_count reached cores_delay_count. *)
DelayOver(x) == step(x, "wait", "say") /\ UNCHANGED <<vars, olock, from>>
Say(x) == PrintGet(x, "say", "say2") \/ PrintRelease(x, "say2", "raise")
Raise(x) == CallAt(x, "raise", ici_generate(next_id(CoreOf[x])), "ask")
Ask(x) == CallAt(x, "ask", ici_read_status(next_id(CoreOf[x])), "asked")
(* Mutant: the status is not waited for. *)
Asked_Once(x) == step(x, "asked", "wait") /\ UNCHANGED <<vars, olock, from>>
Asked(x) == /\ step(x, "asked", IF got[x] # 0 THEN "ask" ELSE "wait")
            /\ UNCHANGED <<vars, olock, from>>

(* The inter-core interrupt preempts the core's thread once cores_main has *)
(* enabled it, if it is not being handled already.                         *)
Interrupt(c) ==
  /\ hw.ici[c] # {}
  /\ at[Isr(c)] = "none"
  /\ at[Thread(c)] \in {"wait", "say", "say2", "raise", "ask", "asked"}
  /\ at' = [at EXCEPT ![Isr(c)] = "found"]
  /\ Enter(Isr(c), ici_check_src)
  /\ UNCHANGED <<olock, from>>

(* arc_find_lsb numbers the bits of a mask from 1; it gives 0 for none.    *)
BitsIn(mask) == CHOOSE S \in SUBSET Core : MaskOf[S] = mask
arc_find_lsb(mask) == IF mask = 0 THEN 0
                      ELSE 1 + CHOOSE c \in BitsIn(mask) : \A d \in BitsIn(mask) : c <= d
(* Mutant: the bit number of arc_find_lsb, which starts at 1, is used. *)
lsb_Not0Based(mask) == arc_find_lsb(mask)
lsb(mask) == arc_find_lsb(mask) - 1
Found(c) == /\ step(Isr(c), "found", "tell")
            /\ from' = [from EXCEPT ![c] = lsb(got[Isr(c)])]
            /\ UNCHANGED <<vars, olock>>
Tell(c) == PrintGet(Isr(c), "tell", "tell2") \/ PrintRelease(Isr(c), "tell2", "ack")
Ack(c) == CallAt(Isr(c), "ack", ici_ack(from[c]), "leave")
Leave(c) == step(Isr(c), "leave", "none") /\ UNCHANGED <<vars, olock, from>>

(* The handler holds the core from its interrupt to its return. *)
ThreadMayRun(c) == at[Isr(c)] = "none"

MainStep(c) == /\ ThreadMayRun(c)
               /\ LET x == Thread(c)
                  IN  Greet(x) \/ DelayOver(x) \/ Say(x) \/ Raise(x) \/ Ask(x) \/ Asked(x)
IsrStep(c) == Interrupt(c) \/ Found(c) \/ Tell(c) \/ Ack(c) \/ Leave(c)
DriverStep(x) == /\ x \in Handler \/ ThreadMayRun(CoreOf[x])
                 /\ Execute(x)
                 /\ UNCHANGED app

ENext == \E c \in Core : \/ MainStep(c) \/ IsrStep(c)
                         \/ DriverStep(Thread(c)) \/ DriverStep(Isr(c))
ESpec == EInit /\ [][ENext]_evars

(* Every core keeps executing and its timer keeps running.  Both locks are *)
(* taken to be free of starvation, which is more than LLOCK/SCOND gives:   *)
(* what fails under this assumption fails without it.                      *)
Gets(x) == \/ (x \in Handler \/ ThreadMayRun(CoreOf[x])) /\ UNCHANGED app
                /\ (LLock(x) \/ SCondTakes(x))
           \/ x \notin Handler /\ ThreadMayRun(CoreOf[x]) /\ PrintGet(x, "say", "say2")
           \/ x \in Handler /\ PrintGet(x, "tell", "tell2")
EFairness == \A c \in Core : /\ WF_evars(MainStep(c) \/ DriverStep(Thread(c)))
                             /\ WF_evars(IsrStep(c) \/ DriverStep(Isr(c)))
                             /\ SF_evars(Gets(Thread(c)))
                             /\ SF_evars(Gets(Isr(c)))
FairESpec == ESpec /\ EFairness

(* ------------------------------ properties ----------------------------- *)

(* The handler is never entered for nothing: when cores_ici_isr looks at   *)
(* the mask of raisers it names a core that is waiting for this very       *)
(* acknowledgement (from = -1 would print and acknowledge a core that does *)
(* not exist).                                                             *)
HandlerNamesRaiser ==
  \A c \in Core : at[Isr(c)] \in {"tell", "tell2", "ack"}
                    => /\ from[c] \in hw.ici[c]
                       /\ next_id(from[c]) = c
                       /\ at[Thread(from[c])] \in {"ask", "asked"}

(* A core goes back to its delay only after its interrupt was handled: no  *)
(* inter-core interrupt is merged with the next one.                       *)
NoMergedInterrupt ==
  [][\A c \in Core :
       (/\ pc[Thread(c)] = "cmd"
        /\ pc'[Thread(c)] = "readback"
        /\ call[Thread(c)] = ici_generate(next_id(c)))
         => c \notin hw.ici[next_id(c)]]_evars

(* "Cores will do simple inter-core communication through inter-core       *)
(* interrupt" (README.rst:22): an interrupt that was raised is             *)
(* acknowledged.  Refuted: the handler can find its own core's thread in   *)
(* possession of arc_connect_lock or output_lock, and spins for ever.      *)
InterruptAcknowledged ==
  \A c, d \in Core : (d \in hw.ici[c]) ~> (d \notin hw.ici[c])
=============================================================================
