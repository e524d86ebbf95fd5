---------------------------- MODULE ArcConnectHw ----------------------------
(***************************************************************************)
(* The ARConnect inter-core unit as the driver in src/arc/arc_connect.c    *)
(* uses it: the commands it accepts, what each one replies and what it     *)
(* changes.  The unit itself is hardware and is not in the repository.     *)
(* A register that the driver only stores and loads is a cell of one       *)
(* register file.                                                          *)
(***************************************************************************)
EXTENDS Naturals

CONSTANTS Core,      \* identifiers of the cores, numbers as in the code
          MaskOf,    \* MaskOf[S]: the word that has the bits of the cores S
          Sem,       \* inter-core semaphores
          Free,      \* the owner of a semaphore nobody owns
          Index,     \* values a command's parameter takes when it selects a cell
          SramSize,  \* words of message-passing SRAM (bounds the address)
          GfrcLow,   \* values of the low word of the free-running counter
          GfrcMax    \* bound on the counter

ASSUME HwAssumption == /\ SramSize \in Nat \ {0}
                       /\ GfrcLow \in Nat \ {0} /\ GfrcMax \in Nat
                       /\ 0 \in Index
                       /\ MaskOf \in [SUBSET Core -> Nat] /\ MaskOf[{}] = 0
                       /\ \A S, T \in SUBSET Core : MaskOf[S] = MaskOf[T] => S = T

(* ARC_CONNECT_CMD_TYPE_T and ARC_CONNECT_OP_T: one command of the driver.  *)
(* The CMD_ONLY and CMD_RETURN macros leave wdata unset; it is never used.  *)
CmdOnly(cmd, param) ==
  [cmd |-> cmd, type |-> "CMD_ONLY", param |-> param, wdata |-> 0]
CmdReturn(cmd, param) ==
  [cmd |-> cmd, type |-> "CMD_RETURN", param |-> param, wdata |-> 0]
CmdWdata(cmd, param, wdata) ==
  [cmd |-> cmd, type |-> "CMD_WDATA", param |-> param, wdata |-> wdata]

(* The commands that store WDATA in a cell, and those that load a cell. *)
Store == [IDU_SET_MODE |-> "mode", IDU_SET_DEST |-> "dest",
          IDU_SET_MASK |-> "mask", MSG_SRAM_SET_ECC_CTRL |-> "ecc",
          DEBUG_SET_SELECT |-> "select", GFRC_SET_CORE |-> "gfrc_core",
          PDM_SET_PM |-> "pm", PMU_SET_PUCNT |-> "pucnt",
          PMU_SET_RSTCNT |-> "rstcnt", PMU_SET_PDCNT |-> "pdcnt"]
Load == [IDU_READ_MODE |-> "mode", IDU_READ_DEST |-> "dest",
         IDU_READ_MASK |-> "mask", MSG_SRAM_READ_ECC_CTRL |-> "ecc",
         DEBUG_READ_SELECT |-> "select", GFRC_READ_CORE |-> "gfrc_core",
         PDM_READ_PSTATUS |-> "pm", PMU_READ_PUCNT |-> "pucnt",
         PMU_READ_RSTCNT |-> "rstcnt", PMU_READ_PDCNT |-> "pdcnt",
         DEBUG_READ_MASK |-> "debug_mask"]
Cell == {Load[c] : c \in DOMAIN Load}

HwInit ==
  [ici    |-> [to \in Core |-> {}],          \* unacknowledged raisers per target
   sem    |-> [s \in Sem |-> Free],
   idu    |-> 0,                             \* interrupt distribution enabled
   cirq   |-> {},                            \* common interrupts not acknowledged
   gfrc   |-> 1,                             \* free-running counter enabled
   count  |-> 0,
   halted |-> {},                            \* cores stopped by ICD
   addr   |-> 0,                             \* SRAM pointer
   offset |-> 0,
   sram   |-> [a \in 0 .. SramSize - 1 |-> 0],
   cell   |-> [k \in Cell \X Index |-> 0]]

(* The SRAM word a non-immediate access reaches. *)
At(h) == (h.addr + h.offset) % SramSize

(* What READBACK shows after core c issued op in state h.  Debug and halt  *)
(* status, and who raised or first took a common interrupt, are not kept:  *)
(* no command of the driver sets them; they read 0.                        *)
Reply(h, c, op) ==
  CASE op.cmd = "CHECK_CORE_ID"          -> c
    [] op.cmd = "INTRPT_READ_STATUS"     -> IF c \in h.ici[op.param] THEN 1 ELSE 0
    [] op.cmd = "INTRPT_CHECK_SOURCE"    -> MaskOf[h.ici[c]]
    [] op.cmd = "SEMA_CLAIM_AND_READ"    -> IF h.sem[op.param] \in {Free, c}
                                              THEN 1 ELSE 0
    [] op.cmd = "IDU_READ_ENABLE"        -> h.idu
    [] op.cmd = "IDU_CHECK_STATUS"       -> IF op.param \in h.cirq THEN 1 ELSE 0
    [] op.cmd = "GFRC_READ_LO"           -> h.count % GfrcLow
    [] op.cmd = "GFRC_READ_HI"           -> h.count \div GfrcLow
    [] op.cmd = "MSG_SRAM_READ_ADDR"     -> h.addr
    [] op.cmd = "MSG_SRAM_READ_ADDR_OFFSET" -> h.offset
    [] op.cmd \in {"MSG_SRAM_READ", "MSG_SRAM_READ_INC"} -> h.sram[At(h)]
    [] op.cmd = "MSG_SRAM_READ_IMM"      -> h.sram[op.param % SramSize]
    [] op.cmd \in DOMAIN Load            -> h.cell[<<Load[op.cmd], op.param>>]
    [] OTHER                             -> 0

(* The state of the unit after core c issued op in state h. *)
After(h, c, op) ==
  CASE op.cmd = "INTRPT_GENERATE_IRQ" ->
         [h EXCEPT !.ici[op.param] = @ \cup {c}]
    [] op.cmd = "INTRPT_GENERATE_ACK" ->
         [h EXCEPT !.ici[c] = @ \ {op.param}]
    [] op.cmd = "SEMA_CLAIM_AND_READ" ->
         [h EXCEPT !.sem[op.param] = IF @ = Free THEN c ELSE @]
    [] op.cmd = "SEMA_RELEASE" ->
         [h EXCEPT !.sem[op.param] = IF @ = c THEN Free ELSE @]
    [] op.cmd = "SEMA_FORCE_RELEASE" -> [h EXCEPT !.sem[op.param] = Free]
    [] op.cmd = "IDU_ENABLE"   -> [h EXCEPT !.idu = 1]
    [] op.cmd = "IDU_DISABLE"  -> [h EXCEPT !.idu = 0]
    [] op.cmd = "IDU_GEN_CIRQ" -> [h EXCEPT !.cirq = @ \cup {op.param}]
    [] op.cmd = "IDU_ACK_CIRQ" -> [h EXCEPT !.cirq = @ \ {op.param}]
    [] op.cmd = "GFRC_CLEAR"   -> [h EXCEPT !.count = 0]
    [] op.cmd = "GFRC_ENABLE"  -> [h EXCEPT !.gfrc = 1]
    [] op.cmd = "GFRC_DISABLE" -> [h EXCEPT !.gfrc = 0]
    [] op.cmd = "DEBUG_HALT"   -> [h EXCEPT !.halted = @ \cup {op.wdata}]
    [] op.cmd \in {"DEBUG_RUN", "DEBUG_RESET"} ->
         [h EXCEPT !.halted = @ \ {op.wdata}]
    [] op.cmd = "DEBUG_SET_MASK" ->
         [h EXCEPT !.cell[<<"debug_mask", op.wdata>>] = op.param]
    [] op.cmd = "MSG_SRAM_SET_ADDR"        -> [h EXCEPT !.addr = op.param]
    [] op.cmd = "MSG_SRAM_SET_ADDR_OFFSET" -> [h EXCEPT !.offset = op.param]
    [] op.cmd = "MSG_SRAM_WRITE"     -> [h EXCEPT !.sram[At(h)] = op.wdata]
    [] op.cmd = "MSG_SRAM_WRITE_INC" -> [h EXCEPT !.sram[At(h)] = op.wdata,
                                                  !.addr = (@ + 1) % SramSize]
    [] op.cmd = "MSG_SRAM_WRITE_IMM" ->
         [h EXCEPT !.sram[op.param % SramSize] = op.wdata]
    [] op.cmd = "MSG_SRAM_READ_INC"  -> [h EXCEPT !.addr = (@ + 1) % SramSize]
    [] op.cmd \in DOMAIN Store ->
         [h EXCEPT !.cell[<<Store[op.cmd], op.param>>] = op.wdata]
    [] OTHER -> h

(* The free-running counter counts by itself while it is enabled. *)
Counts(h) == h.gfrc = 1 /\ h.count < GfrcMax
Counted(h) == [h EXCEPT !.count = @ + 1]
=============================================================================
