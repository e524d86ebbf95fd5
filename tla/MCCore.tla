-------------------------------- MODULE MCCore -------------------------------
(* What every program on one core uses, for TLC: the interrupt management   *)
(* and the bare-metal time base.  They share no state, so a behaviour is    *)
(* one of one part, chosen at the start; the other keeps an initial state.  *)
EXTENDS ArcInterrupt

VARIABLES part,
          cnt, ip, masked, sys_ms_update, gl_ms_cnt, tpc, sub, value, start, delay,
          now, begun

(* The thread sets priorities and uses critical sections while handlers     *)
(* select other interrupts; a is triggered by software, also by handlers.   *)
a == 16
b == 17
Bad == 15                       \* an exception, not an interrupt
CoreThread == {int_handler_install(a), int_enable(a), int_enable(b), int_sw_trigger(a),
               int_pri_set(b, 0), int_secure_set(a, 0), int_pri_get(Bad), cpu_lock, cpu_unlock,
               int_ipm_set(Levels)}
CoreHandlers == [i \in Irq |-> {int_sw_trigger(a),
                                IF i = a THEN int_pri_set(b, 1) ELSE int_enabled(a)}]

Time == INSTANCE BoardTimer WITH Limit <- 3, Conv <- 1, Width <- 100, MayMask <- TRUE,
         Delays <- {1, 2}, Horizon <- 30, pc <- tpc

ASSUME CoreConstants == InterruptConstants /\ OneTrigger /\ Time!TimerConstants

time == <<cnt, ip, masked, sys_ms_update, gl_ms_cnt, tpc, sub, value, start, delay, now,
          begun>>
coreVars == <<part, vars, time>>
CoreInit == part \in {"interrupt", "time"} /\ Init /\ Time!Init
CoreNext == /\ UNCHANGED part
            /\ \/ part = "interrupt" /\ Next /\ UNCHANGED time
               \/ part = "time" /\ Time!Next /\ UNCHANGED vars
CoreSpec == CoreInit /\ [][CoreNext]_coreVars

(* Every variable keeps its type.                                           *)
CoreTypeOK == TypeOK /\ Time!TypeOK

(* ---- board.c ---- *)
(* The time board_get_cur_us returns is less than a period ahead and less   *)
(* than a millisecond and a period behind; board_delay_ms never goes on for *)
(* a millisecond and two interrupt periods more than it was asked for.      *)
TimeIsTrue == Time!TimeIsTrue
=============================================================================
