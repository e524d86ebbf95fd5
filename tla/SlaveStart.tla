----------------------------- MODULE SlaveStart -----------------------------
(***************************************************************************)
(* How the other cores of a cluster start (src/arc/arc_mp.c and the loop   *)
(* _slave_core_wait of src/arc/startup/arc_startup.s).  All cores leave    *)
(* reset together: core 0 clears .bss, in which the start record lies, and *)
(* starts the others one at a time through one flag and one stack pointer. *)
(* A job stands for what a call hands over: function, argument and stack,  *)
(* which are written and read separately.                                  *)
(***************************************************************************)
EXTENDS Integers

CONSTANTS Slaves,      \* numbers of the cores that wait
          Jobs,        \* what a call may hand over
          None,        \* the contents of a word that no call has written
          Leftovers    \* what the flag may hold at reset

ASSUME StartAssumption == /\ Slaves \subseteq Nat \ {0} /\ None \notin Jobs
                          /\ Leftovers \subseteq Nat

VARIABLES arc_cpu_wake_flag, arc_cpu_sp, fn, arg,   \* arc_cpu_init[c].fn, .arg
          bss,         \* what of these core 0 has not cleared yet
          mpc, cpu, job,    \* core 0: its place in a call and the call's arguments
          spc, read,    \* the others: their places and what they have read
          asked,       \* history: the job core 0 has called for
          early        \* history: some core saw a leftover of the flag

record == <<arc_cpu_wake_flag, arc_cpu_sp, fn, arg>>
core0 == <<bss, mpc, cpu, job, asked>>
startVars == <<record, core0, spc, read, early>>

NothingRead == [sp |-> None, fn |-> None, arg |-> None]
StartInit == /\ arc_cpu_wake_flag \in Leftovers /\ arc_cpu_sp = None
             /\ fn = [c \in Slaves |-> None] /\ arg = [c \in Slaves |-> None]
             /\ bss = {"flag", "sp", "init"} /\ mpc = "bss" /\ cpu = 0 /\ job = None
             /\ spc = [c \in Slaves |-> "wait"] /\ read = [c \in Slaves |-> NothingRead]
             /\ asked = [c \in Slaves |-> None] /\ early = FALSE

(* -------------------------------- core 0 -------------------------------- *)

(* _s3_clear_bss; the words' order is the linker's.                        *)
ClearBss(w) ==
  /\ mpc = "bss" /\ w \in bss /\ bss' = bss \ {w}
  /\ mpc' = IF bss' = {} THEN "idle" ELSE "bss"
  /\ arc_cpu_wake_flag' = IF w = "flag" THEN 0 ELSE arc_cpu_wake_flag
  /\ arc_cpu_sp' = IF w = "sp" THEN None ELSE arc_cpu_sp
  /\ fn' = IF w = "init" THEN [c \in Slaves |-> None] ELSE fn
  /\ arg' = IF w = "init" THEN [c \in Slaves |-> None] ELSE arg
  /\ UNCHANGED <<cpu, job, asked, spc, read, early>>

(* Each core is started once: a second call for it would never return.     *)
arc_start_slave_cpu(c, j) ==
  /\ mpc = "idle" /\ asked[c] = None
  /\ mpc' = "fn" /\ cpu' = c /\ job' = j /\ asked' = [asked EXCEPT ![c] = j]
  /\ UNCHANGED <<record, bss, spc, read, early>>
Step(from, to) == mpc = from /\ mpc' = to /\ UNCHANGED <<bss, cpu, job, asked, spc, read, early>>
StoreFn == /\ Step("fn", "arg") /\ fn' = [fn EXCEPT ![cpu] = job]
           /\ UNCHANGED <<arc_cpu_wake_flag, arc_cpu_sp, arg>>
StoreArg == /\ Step("arg", "sp") /\ arg' = [arg EXCEPT ![cpu] = job]
            /\ UNCHANGED <<arc_cpu_wake_flag, arc_cpu_sp, fn>>
StoreSp == /\ Step("sp", "flag") /\ arc_cpu_sp' = job
           /\ UNCHANGED <<arc_cpu_wake_flag, fn, arg>>
StoreFlag == /\ Step("flag", "wait") /\ arc_cpu_wake_flag' = cpu
             /\ UNCHANGED <<arc_cpu_sp, fn, arg>>
(* Mutant: the call returns without looking at the flag. *)
Returns_AtOnce == Step("wait", "idle") /\ UNCHANGED record
(* The loop has seen the flag cleared: the call returns.                   *)
Returns == Step("wait", "idle") /\ arc_cpu_wake_flag = 0 /\ UNCHANGED record

(* ---------------------------- the other cores --------------------------- *)

Go(c, from, to) == /\ spc[c] = from /\ spc' = [spc EXCEPT ![c] = to]
                   /\ UNCHANGED core0
(* Mutant: the core answers before it has read its stack. *)
See_Signals(c) == /\ Go(c, "wait", "sp") /\ arc_cpu_wake_flag = c
                  /\ early' = (early \/ "flag" \in bss)
                  /\ arc_cpu_wake_flag' = 0 /\ UNCHANGED <<arc_cpu_sp, fn, arg, read>>
(* _slave_core_wait has found its own number.                              *)
See(c) == /\ Go(c, "wait", "sp") /\ arc_cpu_wake_flag = c
          /\ early' = (early \/ "flag" \in bss)
          /\ UNCHANGED <<record, read>>
LoadSp(c) == /\ Go(c, "sp", "signal") /\ read' = [read EXCEPT ![c].sp = arc_cpu_sp]
             /\ UNCHANGED <<record, early>>
(* Mutant: the flag is left set. *)
Signal_Forgotten(c) == Go(c, "signal", "fn") /\ UNCHANGED <<record, read, early>>
Signal(c) == /\ Go(c, "signal", "fn") /\ arc_cpu_wake_flag' = 0
             /\ UNCHANGED <<arc_cpu_sp, fn, arg, read, early>>
(* arc_slave_start: the function is read, then its argument; it runs.      *)
LoadFn(c) == /\ Go(c, "fn", "arg") /\ read' = [read EXCEPT ![c].fn = fn[c]]
             /\ UNCHANGED <<record, early>>
LoadArg(c) == /\ Go(c, "arg", "run") /\ read' = [read EXCEPT ![c].arg = arg[c]]
              /\ UNCHANGED <<record, early>>

Master == \/ \E w \in bss : ClearBss(w)
          \/ StoreFn \/ StoreArg \/ StoreSp \/ StoreFlag \/ Returns
Slave(c) == See(c) \/ LoadSp(c) \/ Signal(c) \/ LoadFn(c) \/ LoadArg(c)
StartNext == \/ Master
             \/ \E c \in Slaves, j \in Jobs : arc_start_slave_cpu(c, j)
             \/ \E c \in Slaves : Slave(c)
StartSpec == StartInit /\ [][StartNext]_startVars
(* No core stops executing; the calls themselves need not be made.         *)
Idle == mpc = "idle" \/ (mpc = "wait" /\ arc_cpu_wake_flag # 0)
Waits(c) == spc[c] = "run" \/ (spc[c] = "wait" /\ arc_cpu_wake_flag # c)
StartFairness == /\ []<>Idle \/ []<><<Master>>_startVars
                 /\ \A c \in Slaves : []<>Waits(c) \/ []<><<Slave(c)>>_startVars

(* ------------------------------ properties ------------------------------ *)

InCall == {"fn", "arg", "sp", "flag", "wait"}
(* Every variable keeps its type.                                          *)
StartTypeOK == /\ arc_cpu_wake_flag \in Nat /\ arc_cpu_sp \in Jobs \cup {None}
               /\ fn \in [Slaves -> Jobs \cup {None}] /\ arg \in [Slaves -> Jobs \cup {None}]
               /\ bss \subseteq {"flag", "sp", "init"} /\ mpc \in InCall \cup {"bss", "idle"}
               /\ cpu \in Slaves \cup {0} /\ job \in Jobs \cup {None}
               /\ spc \in [Slaves -> {"wait", "sp", "signal", "fn", "arg", "run"}]
               /\ read \in [Slaves -> [sp : Jobs \cup {None}, fn : Jobs \cup {None}, arg : Jobs \cup {None}]]
               /\ asked \in [Slaves -> Jobs \cup {None}] /\ early \in BOOLEAN

(* A core that runs does so with the function, the argument and the stack  *)
(* of the call made for it, though all share one flag and one stack word,  *)
(* and a call of arc_start_slave_cpu that has returned leaves its core past*)
(* the reading of them; unless a core took what the flag held at reset for *)
(* its number, before core 0 had cleared it.                               *)
OwnJob ==
  ~ early => \A c \in Slaves :
    /\ spc[c] = "run" => asked[c] # None /\ read[c] = [sp |-> asked[c], fn |-> asked[c], arg |-> asked[c]]
    /\ asked[c] # None /\ ~ (mpc \in InCall /\ cpu = c) => spc[c] \in {"fn", "arg", "run"}

(* Why: the flag is set only by the call in progress, and whoever has seen *)
(* it is that call's core and has not answered yet; what a call has written*)
(* stays until its core has read it.                                       *)
OneAtATime ==
  ~ early =>
    /\ bss # {} <=> mpc = "bss"
    /\ mpc = "bss" => \A c \in Slaves : asked[c] = None
    /\ mpc \in InCall => cpu \in Slaves /\ job \in Jobs /\ asked[cpu] = job
    /\ mpc \in InCall \ {"wait"} => spc[cpu] = "wait"
    /\ "flag" \notin bss /\ arc_cpu_wake_flag # 0 =>
         mpc = "wait" /\ arc_cpu_wake_flag = cpu /\ spc[cpu] \in {"wait", "sp", "signal"}
    /\ mpc = "wait" /\ arc_cpu_wake_flag = 0 => spc[cpu] \in {"fn", "arg", "run"}
Handed ==
  ~ early =>
    /\ mpc \in {"flag", "wait"} => arc_cpu_sp = job
    /\ mpc \in {"arg", "sp", "flag", "wait"} => fn[cpu] = job
    /\ mpc \in {"sp", "flag", "wait"} => arg[cpu] = job
    /\ \A c \in Slaves :
         /\ spc[c] # "wait" => asked[c] # None
         /\ spc[c] \in {"sp", "signal"} => mpc = "wait" /\ c = cpu /\ arc_cpu_wake_flag = c
         /\ asked[c] # None /\ ~ (mpc \in InCall /\ cpu = c) => fn[c] = asked[c] /\ arg[c] = asked[c]
         /\ spc[c] \in {"signal", "fn", "arg", "run"} => read[c].sp = asked[c]
         /\ spc[c] \in {"arg", "run"} => read[c].fn = asked[c]
         /\ spc[c] = "run" => read[c].arg = asked[c]
Handover == StartTypeOK /\ OneAtATime /\ Handed /\ OwnJob
=============================================================================
