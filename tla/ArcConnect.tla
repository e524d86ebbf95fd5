----------------------------- MODULE ArcConnect -----------------------------
(***************************************************************************)
(* The ARConnect driver (src/arc/arc_connect.c) running on the cores of an *)
(* ARC HS cluster: threads, and the interrupt handlers that preempt them,  *)
(* call the API; every call goes through arc_connect_cmd_execute, which    *)
(* drives the CMD, WDATA and READBACK auxiliary registers of the unit      *)
(* under one spin lock built on LLOCK and SCOND (src/include/arc/arc_mp.h).*)
(* The memory is sequentially consistent: the code puts a barrier on both  *)
(* sides of every lock operation.                                          *)
(***************************************************************************)
EXTENDS ArcConnectHw, Sequences, Functions

CONSTANTS Caller,         \* execution contexts that call the driver
          Handler,        \* those of them that are interrupt handlers
          CoreOf,         \* the core a caller runs on
          Reg,            \* banks of ARConnect registers
          RegOf,          \* the bank a core's auxiliary accesses reach
          Calls           \* Calls[x]: the API calls caller x makes

(* The commands of the calls that are made. *)
Command == UNION {UNION {Range(c.body) : c \in Calls[x]} : x \in Caller}

ASSUME ConnectAssumption ==
  /\ Handler \subseteq Caller
  /\ CoreOf \in [Caller -> Core]
  /\ RegOf \in [Core -> Reg]
  /\ \A x \in Caller : \A c \in Calls[x] :
       c.body \in Seq(Command) /\ c.body # <<>>
  /\ \A op \in Command : op = [cmd |-> op.cmd, type |-> op.type,
                               param |-> op.param, wdata |-> op.wdata]

UNLOCKED == 0             \* ARC_SPIN_LOCK_UNLOCKED
LOCKED   == 1             \* ARC_SPIN_LOCK_LOCKED

VARIABLES hw,             \* the ARConnect unit
          wdata,          \* wdata[r]: AUX_CONNECT_WDATA of bank r
          readback,       \* readback[r]: AUX_CONNECT_READBACK of bank r
          slock,          \* arc_connect_lock.slock
          resv,           \* cores whose LLOCK of slock still stands
          pc,             \* where each caller is in arc_connect_cmd_execute
          call,           \* the API call each caller made last
          todo,           \* its commands that have not returned, current first
          got             \* result of its last arc_connect_cmd_execute

regs == <<hw, wdata, readback>>
lock == <<slock, resv>>
vars == <<hw, wdata, readback, slock, resv, pc, call, todo, got>>

NoCall == [fn |-> "none", body |-> <<>>]

(* -------------------------- the driver's functions --------------------- *)

API(fn, op) == [fn |-> fn, body |-> <<op>>]

check_core_id          == API("check_core_id", CmdReturn("CHECK_CORE_ID", 0))
idu_enable             == API("idu_enable", CmdOnly("IDU_ENABLE", 0))
idu_disable            == API("idu_disable", CmdOnly("IDU_DISABLE", 0))
idu_read_enable        == API("idu_read_enable", CmdReturn("IDU_READ_ENABLE", 0))
idu_set_mode(irq, trigger, distri) ==
  API("idu_set_mode", CmdWdata("IDU_SET_MODE", irq, distri + 16 * trigger))
(* The command is IDU_READ_ENABLE although IDU_READ_MODE exists. *)
idu_read_mode(irq)     == API("idu_read_mode", CmdReturn("IDU_READ_ENABLE", irq))
idu_set_dest(irq, to)  == API("idu_set_dest", CmdWdata("IDU_SET_DEST", irq, to))
idu_read_dest(irq)     == API("idu_read_dest", CmdReturn("IDU_READ_DEST", irq))
idu_set_mask(irq, m)   == API("idu_set_mask", CmdWdata("IDU_SET_MASK", irq, m))
idu_read_mask(irq)     == API("idu_read_mask", CmdReturn("IDU_READ_MASK", irq))
(* Mutant: distribution is enabled before the last command. *)
idu_config_irq_EnableEarly(to, irq, trigger, distri) ==
  [fn |-> "idu_config_irq",
   body |-> idu_disable.body \o idu_set_mode(irq, trigger, distri).body
              \o idu_set_dest(irq, to).body \o idu_enable.body
              \o idu_set_mask(irq, 0).body]
(* Mutant: the distribution is not turned on again. *)
idu_config_irq_NotEnabled(to, irq, trigger, distri) ==
  [fn |-> "idu_config_irq",
   body |-> idu_disable.body \o idu_set_mode(irq, trigger, distri).body
              \o idu_set_dest(irq, to).body \o idu_set_mask(irq, 0).body]
idu_config_irq(to, irq, trigger, distri) ==
  [fn |-> "idu_config_irq",
   body |-> idu_disable.body \o idu_set_mode(irq, trigger, distri).body
              \o idu_set_dest(irq, to).body \o idu_set_mask(irq, 0).body
              \o idu_enable.body]
idu_gen_cirq(irq)      == API("idu_gen_cirq", CmdOnly("IDU_GEN_CIRQ", irq))
idu_ack_cirq(irq)      == API("idu_ack_cirq", CmdOnly("IDU_ACK_CIRQ", irq))
idu_check_status(irq)  == API("idu_check_status", CmdReturn("IDU_CHECK_STATUS", irq))
idu_check_source(irq)  == API("idu_check_source", CmdReturn("IDU_CHECK_SOURCE", irq))
idu_check_first(irq)   == API("idu_check_first", CmdReturn("IDU_CHECK_FIRST", irq))

ici_generate(to)       == API("ici_generate", CmdOnly("INTRPT_GENERATE_IRQ", to))
ici_ack(from)          == API("ici_ack", CmdOnly("INTRPT_GENERATE_ACK", from))
ici_read_status(to)    == API("ici_read_status", CmdReturn("INTRPT_READ_STATUS", to))
ici_check_src          == API("ici_check_src", CmdReturn("INTRPT_CHECK_SOURCE", 0))

ics_take(sem)          == API("ics_take", CmdReturn("SEMA_CLAIM_AND_READ", sem))
(* Mutant: a release that does not care who holds the semaphore. *)
ics_release_Forced(sem) == API("ics_release", CmdOnly("SEMA_FORCE_RELEASE", sem))
ics_release(sem)       == API("ics_release", CmdOnly("SEMA_RELEASE", sem))
ics_force_release(sem) == API("ics_force_release", CmdOnly("SEMA_FORCE_RELEASE", sem))

icm_addr_set(a)        == API("icm_addr_set", CmdOnly("MSG_SRAM_SET_ADDR", a))
icm_addr_read          == API("icm_addr_read", CmdReturn("MSG_SRAM_READ_ADDR", 0))
icm_addr_offset_set(o) == API("icm_addr_offset_set", CmdOnly("MSG_SRAM_SET_ADDR_OFFSET", o))
icm_addr_offset_read   == API("icm_addr_offset_read", CmdReturn("MSG_SRAM_READ_ADDR_OFFSET", 0))
icm_msg_write(d)       == API("icm_msg_write", CmdWdata("MSG_SRAM_WRITE", 0, d))
icm_msg_inc_write(d)   == API("icm_msg_inc_write", CmdWdata("MSG_SRAM_WRITE_INC", 0, d))
icm_msg_imm_write(a, d) == API("icm_msg_imm_write", CmdWdata("MSG_SRAM_WRITE_IMM", a, d))
icm_msg_read           == API("icm_msg_read", CmdReturn("MSG_SRAM_READ", 0))
icm_msg_inc_read       == API("icm_msg_inc_read", CmdReturn("MSG_SRAM_READ_INC", 0))
icm_msg_imm_read(a)    == API("icm_msg_imm_read", CmdReturn("MSG_SRAM_READ_IMM", a))
icm_ecc_ctrl_set(v)    == API("icm_ecc_ctrl_set", CmdWdata("MSG_SRAM_SET_ECC_CTRL", 0, v))
icm_ecc_ctrl_read      == API("icm_ecc_ctrl_read", CmdReturn("MSG_SRAM_READ_ECC_CTRL", 0))

debug_reset(cores)     == API("debug_reset", CmdWdata("DEBUG_RESET", 0, cores))
debug_halt(cores)      == API("debug_halt", CmdWdata("DEBUG_HALT", 0, cores))
debug_run(cores)       == API("debug_run", CmdWdata("DEBUG_RUN", 0, cores))
debug_mask_set(cores, m) == API("debug_mask_set", CmdWdata("DEBUG_SET_MASK", m, cores))
(* The command is DEBUG_RUN although DEBUG_READ_MASK exists. *)
debug_mask_read(cores) == API("debug_mask_read", CmdWdata("DEBUG_RUN", 0, cores))
debug_select_set(cores) == API("debug_select_set", CmdWdata("DEBUG_SET_SELECT", 0, cores))
debug_select_read      == API("debug_select_read", CmdReturn("DEBUG_READ_SELECT", 0))
debug_en_read          == API("debug_en_read", CmdReturn("DEBUG_READ_EN", 0))
debug_cmd_read         == API("debug_cmd_read", CmdReturn("DEBUG_READ_CMD", 0))
debug_core_read        == API("debug_core_read", CmdReturn("DEBUG_READ_CORE", 0))

gfrc_clear             == API("gfrc_clear", CmdOnly("GFRC_CLEAR", 0))
gfrc_lo_read           == API("gfrc_lo_read", CmdReturn("GFRC_READ_LO", 0))
gfrc_hi_read           == API("gfrc_hi_read", CmdReturn("GFRC_READ_HI", 0))
gfrc_enable            == API("gfrc_enable", CmdOnly("GFRC_ENABLE", 0))
gfrc_disable           == API("gfrc_disable", CmdOnly("GFRC_DISABLE", 0))
gfrc_core_set(cores)   == API("gfrc_core_set", CmdWdata("GFRC_SET_CORE", 0, cores))
gfrc_halt_read         == API("gfrc_halt_read", CmdReturn("GFRC_READ_HALT", 0))
gfrc_core_read         == API("gfrc_core_read", CmdReturn("GFRC_READ_CORE", 0))

pdm_pm_set(group, pm)  == API("pdm_pm_set", CmdWdata("PDM_SET_PM", group, pm))
pdm_pdstatus_read(group) == API("pdm_pdstatus_read", CmdReturn("PDM_READ_PSTATUS", group))
pmu_pucnt_set(n)       == API("pmu_pucnt_set", CmdWdata("PMU_SET_PUCNT", 0, n))
pmu_pucnt_read         == API("pmu_pucnt_read", CmdReturn("PMU_READ_PUCNT", 0))
pmu_rstcnt_set(n)      == API("pmu_rstcnt_set", CmdWdata("PMU_SET_RSTCNT", 0, n))
(* Mutant: the command of the neighbouring counter. *)
pmu_rstcnt_read_Pucnt  == API("pmu_rstcnt_read", CmdReturn("PMU_READ_PUCNT", 0))
pmu_rstcnt_read        == API("pmu_rstcnt_read", CmdReturn("PMU_READ_RSTCNT", 0))
pmu_pdccnt_set(n)      == API("pmu_pdccnt_set", CmdWdata("PMU_SET_PDCNT", 0, n))
pmu_pdccnt_read        == API("pmu_pdccnt_read", CmdReturn("PMU_READ_PDCNT", 0))

(* ---------------------- arc_connect_cmd_execute ------------------------ *)

Init == /\ hw = HwInit
        /\ wdata = [r \in Reg |-> 0]
        /\ readback = [r \in Reg |-> 0]
        /\ slock = UNLOCKED                       \* static, zero in bss
        /\ resv = {}
        /\ pc = [x \in Caller |-> "idle"]
        /\ call = [x \in Caller |-> NoCall]
        /\ todo = [x \in Caller |-> <<>>]
        /\ got = [x \in Caller |-> 0]

Bank(x) == RegOf[CoreOf[x]]
HasWdata(op) == op.type = "CMD_WDATA"

(* A handler runs to completion before the context it interrupted resumes. *)
Runs(x) == x \in Handler \/ \A h \in Handler :
                               CoreOf[h] = CoreOf[x] => pc[h] = "idle"

goto(x, from, to) == /\ pc[x] = from
                     /\ Runs(x)
                     /\ pc' = [pc EXCEPT ![x] = to]

(* A caller enters the driver; for a handler, this is the interrupt. *)
Enter(x, c) ==
  /\ goto(x, "idle", "llock")
  /\ call' = [call EXCEPT ![x] = c]
  /\ todo' = [todo EXCEPT ![x] = c.body]
  /\ UNCHANGED <<regs, lock, got>>
Invoke(x) == \E c \in Calls[x] : Enter(x, c)

(* Mutant: the loop does not test the value LLOCK returned. *)
LLock_NoTest(x) ==
  /\ goto(x, "llock", "scond")
  /\ resv' = resv \cup {CoreOf[x]}
  /\ UNCHANGED <<regs, slock, call, todo, got>>

(* arc_spinlock_get: llock, and again while the lock is taken.  The        *)
(* reservation of an LLOCK that saw LOCKED is never used.                  *)
LLock(x) ==
  /\ slock = UNLOCKED
  /\ goto(x, "llock", "scond")
  /\ resv' = resv \cup {CoreOf[x]}
  /\ UNCHANGED <<regs, slock, call, todo, got>>

(* The conditional store succeeds while the core's reservation stands and  *)
(* ends every reservation; otherwise the loop starts again.                *)
SCondTakes(x) ==
  /\ CoreOf[x] \in resv
  /\ goto(x, "scond", IF HasWdata(Head(todo[x])) THEN "wdata" ELSE "cmd")
  /\ slock' = LOCKED
  /\ resv' = {}
  /\ UNCHANGED <<regs, call, todo, got>>

(* Mutants: the branch on a failed SCOND is missing, or goes back to SCOND. *)
SCondFails_Ignored(x) ==
  /\ CoreOf[x] \notin resv
  /\ goto(x, "scond", IF HasWdata(Head(todo[x])) THEN "wdata" ELSE "cmd")
  /\ UNCHANGED <<regs, lock, call, todo, got>>
SCondFails_Again(x) ==
  /\ CoreOf[x] \notin resv
  /\ goto(x, "scond", "scond")
  /\ UNCHANGED <<regs, lock, call, todo, got>>

SCondFails(x) ==
  /\ CoreOf[x] \notin resv
  /\ goto(x, "scond", "llock")
  /\ UNCHANGED <<regs, lock, call, todo, got>>

WriteWdata(x) ==
  /\ goto(x, "wdata", "cmd")
  /\ wdata' = [wdata EXCEPT ![Bank(x)] = Head(todo[x]).wdata]
  /\ UNCHANGED <<hw, readback, lock, call, todo, got>>

(* The command the unit receives: its operand is what WDATA holds now. *)
Issued(x) ==
  LET op == Head(todo[x])
  IN  IF HasWdata(op) THEN [cmd |-> op.cmd, type |-> op.type,
                             param |-> op.param, wdata |-> wdata[Bank(x)]]
                       ELSE op

WriteCmd(x) ==
  /\ goto(x, "cmd", "readback")
  /\ hw' = After(hw, CoreOf[x], Issued(x))
  /\ readback' = [readback EXCEPT ![Bank(x)] = Reply(hw, CoreOf[x], Issued(x))]
  /\ UNCHANGED <<wdata, lock, call, todo, got>>

ReadBack(x) ==
  /\ goto(x, "readback", "release")
  /\ got' = [got EXCEPT ![x] = readback[Bank(x)]]
  /\ UNCHANGED <<regs, lock, call, todo>>

(* Mutants: the lock is not given back; the command stays in the queue. *)
Release_Forgotten(x) ==
  /\ goto(x, "release", IF Len(todo[x]) > 1 THEN "llock" ELSE "idle")
  /\ todo' = [todo EXCEPT ![x] = Tail(@)]
  /\ UNCHANGED <<regs, lock, call, got>>
Release_NotPopped(x) ==
  /\ goto(x, "release", IF Len(todo[x]) > 1 THEN "llock" ELSE "idle")
  /\ slock' = UNLOCKED
  /\ resv' = {}
  /\ UNCHANGED <<regs, call, todo, got>>

(* arc_spinlock_release and return; the next command of a call that issues *)
(* several takes the lock afresh.                                          *)
Release(x) ==
  /\ goto(x, "release", IF Len(todo[x]) > 1 THEN "llock" ELSE "idle")
  /\ slock' = UNLOCKED
  /\ resv' = {}
  /\ todo' = [todo EXCEPT ![x] = Tail(@)]
  /\ UNCHANGED <<regs, call, got>>

Execute(x) == \/ LLock(x) \/ SCondTakes(x) \/ SCondFails(x) \/ WriteWdata(x)
              \/ WriteCmd(x) \/ ReadBack(x) \/ Release(x)
Tick == Counts(hw) /\ hw' = Counted(hw)
          /\ UNCHANGED <<wdata, readback, lock, pc, call, todo, got>>
Next == Tick \/ \E x \in Caller : Invoke(x) \/ Execute(x)
Spec == Init /\ [][Next]_vars

(* A core executes the instruction it is at; nobody is obliged to call. *)
Fairness == \A x \in Caller : WF_vars(Execute(x))
FairSpec == Spec /\ Fairness

(* ------------------------------ properties ----------------------------- *)

Locations == {"idle", "llock", "scond", "wdata", "cmd", "readback", "release"}
Critical  == {"wdata", "cmd", "readback", "release"}

(* Type invariant: the shapes that hold for any unit and any set of calls. *)
TypeOK == /\ slock \in {UNLOCKED, LOCKED}
          /\ resv \subseteq Core
          /\ pc \in [Caller -> Locations]
          /\ DOMAIN wdata = Reg /\ DOMAIN readback = Reg
          /\ DOMAIN call = Caller /\ DOMAIN todo = Caller /\ DOMAIN got = Caller

(* The spin lock admits one context at a time, over all cores and over the *)
(* thread and the handler of one core, to the register sequence of         *)
(* arc_connect_cmd_execute, and the lock word says whether one is inside.  *)
Exclusive == /\ \A x, y \in Caller :
                  pc[x] \in Critical /\ pc[y] \in Critical => x = y
             /\ (slock = LOCKED) <=> \E x \in Caller : pc[x] \in Critical

(* A reservation stands only while the lock is free. *)
ReservedFree == resv # {} => slock = UNLOCKED

(* A caller is inside the driver exactly while it has commands to finish. *)
Pending == /\ todo \in [Caller -> Seq(Command)]
           /\ \A x \in Caller : pc[x] # "idle" <=> todo[x] # <<>>

(* Between its write of WDATA and its write of CMD a caller's operand is   *)
(* still in the register.                                                  *)
OperandKept == \A x \in Caller : pc[x] = "cmd" /\ HasWdata(Head(todo[x]))
                                  => wdata[Bank(x)] = Head(todo[x]).wdata

(* The inductive invariant of the driver. *)
IInv == TypeOK /\ Exclusive /\ ReservedFree /\ Pending /\ OperandKept

(* Refinement: calls are indivisible.  The command is performed when CMD   *)
(* is written; from then on its reply is what READBACK will hand over.     *)
Performed(x) == pc[x] \in {"readback", "release"}
Atomic == INSTANCE ConnectAtomic WITH
            todo <- [x \in Caller |-> IF Performed(x) THEN Tail(todo[x]) ELSE todo[x]],
            got  <- [x \in Caller |-> IF pc[x] = "readback" THEN readback[Bank(x)]
                                      ELSE got[x]]
ImplementsAtomic == Atomic!Spec

(* The lock is always handed back, provided no handler can spin on a lock  *)
(* its own core's thread holds; and the LLOCK/SCOND loop makes progress:   *)
(* while somebody wants the lock, somebody gets it (SCOND failures cannot  *)
(* go on for ever).                                                        *)
LockHandedBack == (slock = LOCKED) ~> (slock = UNLOCKED)
SomebodyEnters == (\E x \in Caller : pc[x] \in {"llock", "scond"})
                    ~> (\E x \in Caller : pc[x] \in Critical)
LockProgress == LockHandedBack /\ SomebodyEnters

(* What the next properties ask of the programs.  A context releases only  *)
(* semaphores that no other context of its core claims, and nobody forces  *)
(* a release.                                                              *)
Ops(x) == UNION {Range(c.body) : c \in Calls[x]}
OwnReleases ==
  /\ Free \notin Core
  /\ \A op \in Command : op.cmd # "SEMA_FORCE_RELEASE"
  /\ \A x, y \in Caller : CoreOf[x] = CoreOf[y] /\ x # y =>
       \A op \in Ops(x), other \in Ops(y) :
         op.cmd = "SEMA_CLAIM_AND_READ" /\ other.cmd = "SEMA_RELEASE"
           => op.param # other.param

(* A semaphore is granted to one core: two cores whose latest call was a   *)
(* successful arc_connect_ics_take did not take the same semaphore.        *)
Granted(x, s) == /\ pc[x] = "idle"
                 /\ call[x] = ics_take(s)
                 /\ got[x] = 1
SemaphoreExclusive ==
  \A x, y \in Caller, s \in Sem :
    Granted(x, s) /\ Granted(y, s) => CoreOf[x] = CoreOf[y]

(* The registers the reading functions are named after.                    *)
Getter == [idu_read_dest |-> "dest", idu_read_mask |-> "mask",
           icm_ecc_ctrl_read |-> "ecc", debug_select_read |-> "select",
           gfrc_core_read |-> "gfrc_core", pdm_pdstatus_read |-> "pm",
           pmu_pucnt_read |-> "pucnt", pmu_rstcnt_read |-> "rstcnt",
           pmu_pdccnt_read |-> "pdcnt"]
(* A call of that name is one command that loads the register, and no      *)
(* other caller stores there.                                              *)
Reads(c) == c.fn \in DOMAIN Getter =>
              /\ Len(c.body) = 1
              /\ c.body[1].cmd \in DOMAIN Load
              /\ Load[c.body[1].cmd] = Getter[c.fn]
              /\ c.body[1].param \in Index
OwnRegisters ==
  \A x, y \in Caller : \A c \in Calls[x] :
    /\ Reads(c)
    /\ c.fn \in DOMAIN Getter /\ x # y =>
         \A op \in Ops(y) : op.cmd \in DOMAIN Store
           => <<Store[op.cmd], op.param>> # <<Getter[c.fn], c.body[1].param>>

(* What a call of a reading function returned is the content of the        *)
(* register the function is named after, once no other caller has run.     *)
Returned(x, fn) == pc[x] = "idle" /\ call[x].fn = fn
GettersTellRegister ==
  \A x \in Caller, fn \in DOMAIN Getter :
    Returned(x, fn) => got[x] = hw.cell[<<Getter[fn], call[x].body[1].param>>]

(* A call of idu_config_irq is the driver's: it disables first and enables  *)
(* last, and not before.                                                   *)
Configures(c) == c.fn = "idu_config_irq" =>
                   /\ Len(c.body) = 5
                   /\ c.body[1].cmd = "IDU_DISABLE"
                   /\ \A i \in 2 .. 4 : c.body[i].cmd # "IDU_ENABLE"
                   /\ c.body[5].cmd = "IDU_ENABLE"
ConfiguresAsDriver == \A x \in Caller : \A c \in Calls[x] : Configures(c)
(* The distribution is turned off by configurations only.                  *)
OnlyConfigsDisable ==
  \A x \in Caller : \A c \in Calls[x] :
    c.fn # "idu_config_irq" =>
      \A i \in 1 .. Len(c.body) : c.body[i].cmd # "IDU_DISABLE"

(* What the unit has not yet received of x's call, and where that leaves a *)
(* call of arc_connect_idu_config_irq: the first command performed and the *)
(* last not, or all performed.                                             *)
Left(x) == IF Performed(x) THEN Tail(todo[x]) ELSE todo[x]
Configuring(x) == call[x].fn = "idu_config_irq" /\ Len(Left(x)) \in 1 .. 4
Configured(x)  == call[x].fn = "idu_config_irq" /\ Left(x) = <<>>
Enables(x) == WriteCmd(x) /\ Head(todo[x]).cmd = "IDU_ENABLE"

(* Any number of contexts may configure at a time, their commands mixed.   *)
(* Nothing but another context's enable, its configuration's last command  *)
(* for one, turns the distribution on while a context is inside            *)
(* arc_connect_idu_config_irq; only then does the unit route by a          *)
(* half-written mode, destination and mask.                                *)
QuietWhileConfiguring ==
  \A x \in Caller : Configuring(x)' /\ hw'.idu = 1 =>
    \/ Configuring(x) /\ hw.idu = 1
    \/ \E y \in Caller \ {x} : Enables(y)

(* However configurations overlap, the distribution is not left off: once  *)
(* one has returned it is on, or another one has still to turn it on.      *)
RoutingReturns == hw.idu = 0 /\ (\E x \in Caller : Configured(x))
                    => \E y \in Caller : Configuring(y)

(* Both, of every step of the driver. *)
DistributionGuarded == [][QuietWhileConfiguring /\ RoutingReturns']_vars
=============================================================================
