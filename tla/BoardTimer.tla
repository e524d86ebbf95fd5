----------------------------- MODULE BoardTimer -----------------------------
(***************************************************************************)
(* The bare-metal time base of src/board/board.c: the periodic interrupt   *)
(* of TIMER_0 (src/arc/arc_timer.c), the counters it updates, and the      *)
(* functions that combine them with the running count of the timer: a      *)
(* thread reads the count, then gl_ms_cnt, with interrupts enabled.  The   *)
(* unit of time is one tick of the timer; board_get_hwticks and            *)
(* board_get_cur_us differ in the unit only.                               *)
(***************************************************************************)
EXTENDS Integers

CONSTANTS Limit,       \* ticks per timer interrupt (cyc_hz_count)
          Conv,        \* BOARD_SYS_TIMER_HZ / BOARD_SYS_TIMER_MS_HZ
          Width,       \* gl_ms_cnt counts modulo Width (2^32)
          MayMask,     \* TRUE when the thread uses critical sections
          Delays,      \* delays asked for, in milliseconds
          Horizon      \* bound of the run, in ticks

TimerConstants == /\ Limit \in Nat \ {0} /\ Conv \in Nat \ {0}
                  /\ Width \in Nat \ {0} /\ Horizon \in Nat
                  /\ Delays \subseteq Nat

Ms == Limit * Conv          \* ticks of a millisecond
M64 == Width * Ms * 4       \* a modulus no time of a run reaches (2^64)
NoTime == -1

VARIABLES cnt,              \* AUX_TIMER0_CNT
          ip,               \* the timer's interrupt is pending
          masked,           \* interrupts are disabled (cpu_lock)
          sys_ms_update,    \* interrupts since gl_ms_cnt was incremented
          gl_ms_cnt,
          pc,               \* the thread: idle, sub, ms
          sub,              \* sub_us: the count it has read
          value,            \* the last time board_get_cur_us returned
          start,            \* start_us of board_delay_ms, or NoTime
          delay,            \* the delay asked for, or NoTime outside board_delay_ms
          now, begun        \* history: true time, time at which start_us was known

timer == <<cnt, ip, now>>
board == <<sys_ms_update, gl_ms_cnt>>
thread == <<pc, sub, value, start, delay, begun>>
vars == <<cnt, ip, masked, sys_ms_update, gl_ms_cnt, pc, sub, value, start, delay,
          now, begun>>

(* board_timer_init has just started the timer. *)
Init == /\ cnt = 0 /\ ip = FALSE /\ masked = FALSE
        /\ sys_ms_update = 0 /\ gl_ms_cnt = 0
        /\ pc = "idle" /\ sub = 0 /\ value = 0
        /\ start = NoTime /\ delay = NoTime
        /\ now = 0 /\ begun = 0

(* Critical sections end before a second interrupt would be lost.          *)
Tick == /\ now < Horizon
        /\ cnt = Limit - 1 => ~ ip
        /\ cnt' = (cnt + 1) % Limit
        /\ ip' = (ip \/ cnt = Limit - 1)
        /\ now' = now + 1
        /\ UNCHANGED <<masked, board, thread>>

(* Mutant: one interrupt too many is counted into a millisecond. *)
board_timer_update_Late ==
  LET full == sys_ms_update + 1 > Conv
  IN  /\ sys_ms_update' = IF full THEN 0 ELSE sys_ms_update + 1
      /\ gl_ms_cnt' = IF full THEN (gl_ms_cnt + 1) % Width ELSE gl_ms_cnt
board_timer_update ==
  LET full == sys_ms_update + 1 >= Conv
  IN  /\ sys_ms_update' = IF full THEN 0 ELSE sys_ms_update + 1
      /\ gl_ms_cnt' = IF full THEN (gl_ms_cnt + 1) % Width ELSE gl_ms_cnt
board_timer_isr == /\ ip /\ ~ masked
                   /\ ip' = FALSE
                   /\ board_timer_update
                   /\ UNCHANGED <<cnt, now, masked, thread>>

(* The thread; a pending interrupt is taken first. *)
At(place) == pc = place /\ (ip => masked)
Mask == /\ MayMask /\ (ip => masked)
        /\ masked' = ~ masked
        /\ UNCHANGED <<timer, board, thread>>

(* board_get_cur_us: the count first ... *)
board_get_cur_us == /\ At("idle")
                    /\ pc' = "sub"
                    /\ UNCHANGED <<timer, masked, board, sub, value, start, delay, begun>>
ReadCount == /\ At("sub")
             /\ sub' = cnt
             /\ pc' = "ms"
             /\ UNCHANGED <<timer, masked, board, value, start, delay, begun>>
(* ... then gl_ms_cnt; board_delay_ms compares with its start.             *)
Total == gl_ms_cnt * Ms + sub
(* Mutant: the delay is compared in the wrong unit. *)
Over_Ticks(t) == (t - start + M64) % M64 >= delay * Ms * Ms
Over(t) == (t - start + M64) % M64 >= delay * Ms
ReadMs ==
  /\ At("ms")
  /\ value' = Total
  /\ IF delay = NoTime
       THEN pc' = "idle" /\ UNCHANGED <<start, delay>>
       ELSE IF start = NoTime
              THEN start' = Total /\ pc' = "sub" /\ UNCHANGED delay
              ELSE IF Over(Total)
                     THEN pc' = "idle" /\ start' = NoTime /\ delay' = NoTime
                     ELSE pc' = "sub" /\ UNCHANGED <<start, delay>>
  /\ begun' = IF delay # NoTime /\ start = NoTime THEN now ELSE begun
  /\ UNCHANGED <<timer, masked, board, sub>>

board_delay_ms(ms) == /\ At("idle")
                      /\ delay' = ms
                      /\ pc' = "sub"
                      /\ UNCHANGED <<timer, masked, board, sub, value, start, begun>>

Next == \/ Tick \/ board_timer_isr \/ Mask
        \/ board_get_cur_us \/ ReadCount \/ ReadMs
        \/ \E ms \in Delays : board_delay_ms(ms)
Spec == Init /\ [][Next]_vars

(* ------------------------------ properties ----------------------------- *)

(* Every variable keeps its type.                                          *)
TypeOK == /\ cnt \in 0 .. Limit - 1 /\ ip \in BOOLEAN /\ masked \in BOOLEAN
          /\ sys_ms_update \in 0 .. Conv - 1 /\ gl_ms_cnt \in 0 .. Width - 1
          /\ pc \in {"idle", "sub", "ms"} /\ sub \in 0 .. Limit - 1
          /\ value \in Nat /\ start \in Nat \cup {NoTime}
          /\ delay \in Delays \cup {NoTime}
          /\ now \in 0 .. Horizon /\ begun \in 0 .. Horizon

(* Whatever happens between its two reads, the time board_get_cur_us       *)
(* returns is less than one interrupt period ahead and less than a         *)
(* millisecond and a period behind (gl_ms_cnt does not wrap in this run).  *)
UsWithinPeriod ==
  [][pc = "ms" /\ pc' # "ms" => value' < now + Limit /\ value' > now - Ms - Limit]_vars

(* board_delay_ms never goes on for a millisecond and two interrupt        *)
(* periods more than it was asked for.                                     *)
NeverOversleeps ==
  [][pc = "ms" /\ delay # NoTime /\ start # NoTime /\ pc' = "sub"
       => now - begun < (delay + 1) * Ms + 2 * Limit]_vars

(* Both, of what board_get_cur_us tells and of what board_delay_ms makes of *)
(* it.                                                                     *)
TimeIsTrue == UsWithinPeriod /\ NeverOversleeps

(* "Function for delaying execution for number of milliseconds"            *)
(* (board.c:243): that many have passed when it returns.                   *)
DelayLongEnough ==
  [][pc = "ms" /\ delay # NoTime /\ pc' = "idle"
       => now - begun >= delay * Ms]_vars
=============================================================================
