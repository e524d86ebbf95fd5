---------------------------- MODULE ArcInterrupt ----------------------------
(***************************************************************************)
(* Interrupt management of one ARCv2 core: the API of                      *)
(* src/arc/arc_exception.c, the inline register accesses it is made of     *)
(* (src/include/arc/arc_exception.h) and the interrupt entry of            *)
(* src/arc/arc_exc_asm.s.  The per-interrupt registers are windows selected*)
(* by AUX_IRQ_SELECT, so most functions are two accesses that another      *)
(* interrupt can separate.  A thread runs below the handlers; a handler is *)
(* preempted by interrupts of a higher priority (a smaller number).        *)
(***************************************************************************)
EXTENDS Integers, FiniteSets

CONSTANTS NumExcCpu,      \* NUM_EXC_CPU: the first interrupt number
          NumExcAll,      \* NUM_EXC_ALL: one past the last
          Levels,         \* priorities 0 .. Levels - 1 (INT_PRI_MIN = -Levels)
          ThreadCalls,    \* API calls the thread makes
          HandlerCalls    \* HandlerCalls[i]: those the handler of i makes

Irq == NumExcCpu .. NumExcAll - 1
Priority == 0 .. Levels - 1

(* The calls may name any interrupt; the values they write fit the register *)
(* they are written to (no function but int_ipm_set checks its value).      *)
Fits(call) ==
  /\ call.irq \in Int /\ call.val \in Int
  /\ call.fn = "int_pri_set" => call.val \in Priority
  /\ call.fn \in {"int_enable", "int_disable", "int_secure_set", "int_level_config"}
       => call.val \in {0, 1}

InterruptConstants == /\ NumExcCpu \in Nat \ {0} /\ NumExcAll \in Nat
                      /\ NumExcCpu < NumExcAll
                      /\ Levels \in Nat \ {0}
                      /\ \A call \in ThreadCalls : Fits(call)
                      /\ \A i \in Irq : \A call \in HandlerCalls[i] : Fits(call)

Lowest == Levels - 1            \* INT_PRI_MAX - INT_PRI_MIN
NoIrq == 0                      \* the value that clears AUX_IRQ_HINT
THREAD == Levels                \* the thread as a context, below every handler
Context == Priority \cup {THREAD}

VARIABLES ie, e,                \* STATUS32: interrupts enabled, threshold
          select,               \* AUX_IRQ_SELECT
          enable, pri, secure, trigger, \* AUX_IRQ_ENABLE, _PRIORITY, _TRIGGER windows
          hint,                 \* AUX_IRQ_HINT
          line,                 \* interrupts their devices (or pulses) request
          act,                  \* AUX_IRQ_ACT: priorities being handled
          cause,                \* AUX_IRQ_CAUSE, one per priority
          table,                \* exc_int_handler_table: "default" or "installed"
          pc, op, ret,          \* per context: place in the API, call, result
          saved,                \* per context: what clri returned in int_pri_set
          frame,                \* per priority: STATUS32 to restore, and HINT read
          halted,               \* int_handler_default stopped the core
          asked,                \* software triggers that returned 0, not yet handled
          critical              \* the thread is between cpu_lock and cpu_unlock

windows == <<enable, pri, secure, trigger>>
history == <<asked, critical>>
status == <<ie, e>>
cpu == <<act, cause, frame, halted>>
vars == <<ie, e, select, enable, pri, secure, trigger, hint, line, act, cause, table,
          pc, op, ret, saved, frame, halted, asked, critical>>

Call(fn, i, v) == [fn |-> fn, irq |-> i, val |-> v]
NoCall == Call("none", NoIrq, 0)

int_enable(i)          == Call("int_enable", i, 1)
int_disable(i)         == Call("int_disable", i, 0)
int_enabled(i)         == Call("int_enabled", i, 0)
int_pri_set(i, p)      == Call("int_pri_set", i, p)
int_pri_get(i)         == Call("int_pri_get", i, 0)
int_probe(i)           == Call("int_probe", i, 0)
int_sw_trigger(i)      == Call("int_sw_trigger", i, 0)
int_secure_set(i, s)   == Call("int_secure_set", i, s)
int_level_config(i, l) == Call("int_level_config", i, l)
int_level_get(i)       == Call("int_level_get", i, 0)
int_handler_install(i) == Call("int_handler_install", i, 0)
int_ipm_set(p)         == Call("int_ipm_set", NoIrq, p)
cpu_lock               == Call("cpu_lock", NoIrq, 0)
cpu_unlock             == Call("cpu_unlock", NoIrq, 0)

(* The functions that go through the SELECT window. *)
Windowed == {"int_enable", "int_disable", "int_enabled", "int_pri_get", "int_pri_set",
             "int_secure_set", "int_probe", "int_level_config", "int_level_get"}

(* Startup: exc_int_init has disabled every interrupt, made it level       *)
(* triggered at the lowest priority and opened the threshold.              *)
exc_int_init == /\ enable = [i \in Irq |-> 0]
                /\ trigger = [i \in Irq |-> 0]
                /\ pri = [i \in Irq |-> Lowest]
                /\ secure = [i \in Irq |-> 1]
                /\ select = NumExcAll - 1
                /\ e = Lowest

Init == /\ exc_int_init
        /\ ie = 1
        /\ hint = NoIrq
        /\ line = {}
        /\ act = {}
        /\ cause = [p \in Priority |-> NoIrq]
        /\ table = [i \in Irq |-> "default"]
        /\ pc = [c \in Context |-> "idle"]
        /\ op = [c \in Context |-> NoCall]
        /\ ret = [c \in Context |-> 0]
        /\ saved = [c \in Context |-> <<1, Lowest>>]
        /\ critical = FALSE
        /\ frame = [p \in Priority |-> [status |-> <<1, Lowest>>, hint |-> NoIrq]]
        /\ halted = FALSE
        /\ asked = {}

(* The context the core is executing: the most urgent active handler. *)
Running == IF act = {} THEN THREAD ELSE CHOOSE p \in act : \A q \in act : p <= q
Pending(i) == i \in line \/ hint = i

goto(c, from, to) == /\ ~ halted
                     /\ c = Running
                     /\ pc[c] = from
                     /\ pc' = [pc EXCEPT ![c] = to]

(* ------------------------------- the API ------------------------------- *)

Valid(i) == i >= NumExcCpu /\ i < NumExcAll

(* Where a call starts, and where its context goes on afterwards.          *)
first(call) == CASE call.fn = "int_pri_set" /\ Valid(call.irq) -> "lock"
                 [] call.fn \in Windowed \ {"int_pri_set"} /\ Valid(call.irq) -> "select"
                 [] call.fn \in Windowed /\ ~ Valid(call.irq)  -> "reject"
                 [] OTHER -> "single"
after(c) == IF c = THREAD THEN "idle" ELSE "return"

Enter(call) ==
  /\ goto(THREAD, "idle", first(call))
  /\ op' = [op EXCEPT ![THREAD] = call]
  /\ UNCHANGED <<status, select, windows, hint, line, cpu, table, ret, saved, history>>

Returns(c, v) == ret' = [ret EXCEPT ![c] = v]

(* An interrupt number out of range: -1, or 0 from int_pri_get. *)
Reject(c) ==
  /\ goto(c, "reject", after(c))
  /\ Returns(c, IF op[c].fn = "int_pri_get" THEN 0 ELSE -1)
  /\ UNCHANGED <<status, select, windows, hint, line, cpu, table, op, saved, history>>

(* Mutant: the status is saved, interrupts stay enabled. *)
Lock_NoClri(c) ==
  /\ goto(c, "lock", "select")
  /\ saved' = [saved EXCEPT ![c] = <<ie, e>>]
  /\ UNCHANGED <<status, select, windows, hint, line, cpu, table, op, ret, history>>
(* int_pri_set alone disables interrupts around its two accesses. *)
Lock(c) ==
  /\ goto(c, "lock", "select")
  /\ saved' = [saved EXCEPT ![c] = <<ie, e>>]
  /\ ie' = 0
  /\ UNCHANGED <<e, select, windows, hint, line, cpu, table, op, ret, history>>
(* Mutant: interrupts are enabled whatever they were before. *)
Unlock_Enables(c) ==
  /\ goto(c, "unlock", after(c))
  /\ ie' = 1 /\ e' = saved[c][2]
  /\ Returns(c, 0)
  /\ UNCHANGED <<select, windows, hint, line, cpu, table, op, saved, history>>
Unlock(c) ==
  /\ goto(c, "unlock", after(c))
  /\ ie' = saved[c][1] /\ e' = saved[c][2]
  /\ Returns(c, 0)
  /\ UNCHANGED <<select, windows, hint, line, cpu, table, op, saved, history>>

Select(c) ==
  /\ goto(c, "select", "access")
  /\ select' = op[c].irq
  /\ UNCHANGED <<status, windows, hint, line, cpu, table, op, ret, saved, history>>

(* The second access reaches the window of whatever is selected now;       *)
(* int_secure_set reads the priority register first and writes it back.    *)
Access(c) ==
  LET f == op[c].fn
      v == op[c].val
  IN  /\ goto(c, "access", CASE f = "int_pri_set" -> "unlock"
                             [] f = "int_secure_set" -> "write"
                             [] OTHER -> after(c))
      /\ enable' = IF f \in {"int_enable", "int_disable"}
                     THEN [enable EXCEPT ![select] = v] ELSE enable
      /\ pri' = IF f = "int_pri_set" THEN [pri EXCEPT ![select] = v] ELSE pri
      /\ trigger' = IF f = "int_level_config"
                      THEN [trigger EXCEPT ![select] = v] ELSE trigger
      /\ saved' = IF f = "int_secure_set" THEN [saved EXCEPT ![c] = <<0, pri[select]>>]
                                          ELSE saved
      /\ Returns(c, CASE f = "int_enabled"   -> enable[select]
                      [] f = "int_pri_get"   -> pri[select] - Levels
                      [] f = "int_probe"     -> IF Pending(select) THEN 1 ELSE 0
                      [] f = "int_level_get" -> trigger[select]
                      [] OTHER -> 0)
      /\ UNCHANGED <<status, select, secure, hint, line, cpu, table, op, history>>
WriteBack(c) ==
  /\ goto(c, "write", after(c))
  /\ pri' = [pri EXCEPT ![select] = saved[c][2]]
  /\ secure' = [secure EXCEPT ![select] = op[c].val]
  /\ UNCHANGED <<status, select, enable, trigger, hint, line, cpu, table, op, ret, saved,
                 history>>

(* Mutant: one more priority than the core has is accepted. *)
InRange_Off(v) == v \in 0 .. Levels
(* int_ipm_set: INT_PRI_MIN <= intpri <= INT_PRI_MAX. *)
InRange(v) == v \in Priority

(* The functions that are one access. *)
Single(c) ==
  LET i == op[c].irq
      v == op[c].val
      f == op[c].fn
  IN  /\ goto(c, "single", after(c))
      /\ ie' = CASE f = "cpu_lock" -> 0 [] f = "cpu_unlock" -> 1 [] OTHER -> ie
      /\ e' = IF f = "int_ipm_set" /\ InRange(v) THEN v ELSE e
      /\ hint' = IF f = "int_sw_trigger" /\ Valid(i) THEN i ELSE hint
      /\ asked' = IF f = "int_sw_trigger" /\ Valid(i) THEN asked \cup {i} ELSE asked
      /\ critical' = IF c # THREAD THEN critical
                     ELSE CASE f = "cpu_lock" -> TRUE [] f = "cpu_unlock" -> FALSE
                            [] OTHER -> critical
      /\ table' = IF f = "int_handler_install" /\ Valid(i)
                    THEN [table EXCEPT ![i] = "installed"] ELSE table
      /\ Returns(c, IF \/ f = "int_ipm_set" /\ ~ InRange(v)
                       \/ f \in {"int_sw_trigger", "int_handler_install"} /\ ~ Valid(i)
                      THEN -1 ELSE 0)
      /\ UNCHANGED <<select, windows, line, cpu, op, saved>>

API(c) == \/ Reject(c) \/ Lock(c) \/ Select(c) \/ Access(c) \/ WriteBack(c) \/ Unlock(c)
          \/ Single(c)

(* ----------------------------- interrupts ------------------------------ *)

(* A device, or a pulse, requests an interrupt. *)
Request(i) == /\ i \notin line
              /\ line' = line \cup {i}
              /\ UNCHANGED <<status, select, windows, hint, cpu, table, pc, op, ret,
                             saved, history>>

(* The core takes an interrupt that is more urgent than what it runs.  A   *)
(* pulse is consumed, a level stays until the handler served the device.   *)
Take(i) ==
  LET p == pri[i]
  IN  /\ ~ halted
      /\ Pending(i) /\ enable[i] = 1
      /\ ie = 1 /\ p <= e /\ p < Running
      /\ act' = act \cup {p}
      /\ cause' = [cause EXCEPT ![p] = i]
      /\ frame' = [frame EXCEPT ![p].status = <<ie, e>>]
      /\ pc' = [pc EXCEPT ![p] = "entry"]
      /\ line' = IF trigger[i] = 1 THEN line \ {i} ELSE line
      /\ UNCHANGED <<status, select, windows, hint, halted, table, op, ret, saved, history>>

(* exc_entry_int: the handler and the hint are read ... *)
EntryRead(p) ==
  /\ goto(p, "entry", IF table[cause[p]] = "default" THEN "default" ELSE "clear")
  /\ frame' = [frame EXCEPT ![p].hint = hint]
  /\ UNCHANGED <<status, select, windows, hint, line, act, cause, halted, table, op, ret,
                 saved, history>>
(* ... and a hint that named this interrupt is cleared before the handler. *)
EntryClear(p) ==
  /\ goto(p, "clear", "handler")
  /\ hint' = IF frame[p].hint = cause[p] THEN NoIrq ELSE hint
  /\ asked' = asked \ {cause[p]}
  /\ UNCHANGED <<status, select, windows, line, cpu, table, op, ret, saved, critical>>

(* The installed handler serves its device and may make one API call. *)
Handle(p) ==
  /\ pc[p] = "handler"
  /\ line' = line \ {cause[p]}
  /\ \/ /\ goto(p, "handler", "return")
        /\ op' = op
     \/ \E call \in HandlerCalls[cause[p]] :
          /\ goto(p, "handler", first(call))
          /\ op' = [op EXCEPT ![p] = call]
  /\ UNCHANGED <<status, select, windows, hint, cpu, table, ret, saved, history>>

(* int_handler_default stops the core. *)
Halt(p) == /\ goto(p, "default", "default")
           /\ halted' = TRUE
           /\ UNCHANGED <<status, select, windows, hint, line, act, cause, frame, table,
                          op, ret, saved, history>>

(* Mutant: the hint is cleared after the handler instead of before. *)
Return_Clears(p) ==
  /\ goto(p, "return", "idle")
  /\ act' = act \ {p}
  /\ ie' = frame[p].status[1] /\ e' = frame[p].status[2]
  /\ hint' = IF frame[p].hint = cause[p] THEN NoIrq ELSE hint
  /\ UNCHANGED <<select, windows, line, cause, frame, halted, table, op, ret, saved,
                 history>>
(* rtie restores STATUS32. *)
Return(p) ==
  /\ goto(p, "return", "idle")
  /\ act' = act \ {p}
  /\ ie' = frame[p].status[1] /\ e' = frame[p].status[2]
  /\ UNCHANGED <<select, windows, hint, line, cause, frame, halted, table, op, ret, saved,
                 history>>

Interrupts(p) == EntryRead(p) \/ EntryClear(p) \/ Handle(p) \/ Halt(p) \/ Return(p)

Next == \/ \E call \in ThreadCalls : Enter(call)
        \/ \E c \in Context : API(c)
        \/ \E i \in Irq : Request(i) \/ Take(i)
        \/ \E p \in Priority : Interrupts(p)
Spec == Init /\ [][Next]_vars

(* ------------------------------ properties ----------------------------- *)

Bit == {0, 1}
Word == Bit \X Priority           \* a saved STATUS32
Calls == ThreadCalls \cup (UNION {HandlerCalls[i] : i \in Irq}) \cup {NoCall}
Place == {"idle", "lock", "select", "access", "write", "unlock", "reject", "single", "entry",
          "clear", "default", "handler", "return"}

(* Every variable keeps its type.                                          *)
TypeOK == /\ ie \in Bit /\ e \in Priority
          /\ select \in Irq
          /\ enable \in [Irq -> Bit] /\ pri \in [Irq -> Priority]
          /\ secure \in [Irq -> Bit] /\ trigger \in [Irq -> Bit]
          /\ hint \in Irq \cup {NoIrq}
          /\ line \subseteq Irq
          /\ act \subseteq Priority
          /\ cause \in [Priority -> Irq \cup {NoIrq}]
          /\ table \in [Irq -> {"default", "installed"}]
          /\ pc \in [Context -> Place]
          /\ op \in [Context -> Calls]
          /\ ret \in [Context -> Int]
          /\ saved \in [Context -> Word]
          /\ frame \in [Priority -> [status : Word, hint : Irq \cup {NoIrq}]]
          /\ halted \in BOOLEAN
          /\ asked \subseteq Irq
          /\ critical \in BOOLEAN

(* A context inside a function that goes through the window named a valid   *)
(* interrupt, and "lock" and "write" belong to one function each.           *)
InCall ==
  \A c \in Context :
    /\ pc[c] \in {"lock", "select", "access", "write", "unlock"} => op[c].irq \in Irq
    /\ pc[c] \in {"lock", "unlock"} => op[c].fn = "int_pri_set"
    /\ pc[c] = "write" => op[c].fn = "int_secure_set"

(* Between its clri and its seti, int_pri_set is alone on the core: it has  *)
(* what it selected, then what it wrote.                                    *)
Guarded(c) == \/ pc[c] = "unlock"
              \/ pc[c] \in {"select", "access"} /\ op[c].fn = "int_pri_set"
Alone ==
  \A c \in Context :
    Guarded(c) => /\ c = Running /\ ie = 0
                  /\ pc[c] = "access" => select = op[c].irq
                  /\ pc[c] = "unlock" => pri[op[c].irq] = op[c].val

(* Every active priority knows the interrupt it handles.                    *)
Caused == \A p \in act : cause[p] \in Irq

(* In a critical section interrupts are disabled, and int_pri_set has saved *)
(* that they were.                                                          *)
StaysLocked == critical => ie = 0 /\ (Guarded(THREAD) => saved[THREAD][1] = 0)

(* int_pri_set is safe against the other users of the SELECT register: the *)
(* priority it sets is that of the interrupt it was called with, whatever  *)
(* handlers select around it.                                              *)
PriSetHits ==
  [][\A c \in Context : pc[c] = "unlock" /\ pc'[c] # "unlock"
                           => pri'[op[c].irq] = op[c].val]_vars

(* cpu_lock keeps every handler out until cpu_unlock, int_pri_set (which   *)
(* locks and unlocks on its own) called in between included.               *)
CriticalSection == critical => act = {}

(* The invariant that holds by induction. *)
IInv == TypeOK /\ InCall /\ Alone /\ Caused /\ StaysLocked /\ CriticalSection

(* No two interrupts are triggered by software.                            *)
OneTrigger == \E i \in Irq : \A call \in Calls :
                call.fn = "int_sw_trigger" /\ Valid(call.irq) => call.irq = i

(* An interrupt triggered by software is still to be handled from the      *)
(* start: the hint that asks for it is set, or its entry has not gone past *)
(* the point where the hint is given up.  It holds as long as all triggers *)
(* are for one interrupt, even when its own handler triggers it again.     *)
(* "Trigger interrupt through software ... 0 ok" (arc_exception.c:643)     *)
(* promises it for any use: there is a single AUX_IRQ_HINT, and a second   *)
(* trigger, or the entry code's clearing, overwrites the first.            *)
TriggerKept ==
  \A i \in asked : \/ hint = i
                    \/ \E p \in act : cause[p] = i /\ pc[p] \in {"entry", "clear", "default"}

(* "Enable interrupt" (arc_exception.c:541): the interrupt named by the    *)
(* caller is enabled when int_enable returns.  Refuted: a handler that     *)
(* uses the SELECT register between the two accesses diverts the second.   *)
EnableHits ==
  [][\A c \in Context : pc[c] = "access" /\ pc'[c] # "access" /\ op[c].fn = "int_enable"
                           => enable'[op[c].irq] = 1]_vars
=============================================================================
