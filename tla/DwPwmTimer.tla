------------------------------ MODULE DwPwmTimer -----------------------------
(***************************************************************************)
(* The DesignWare PWM and timer driver                                     *)
(* (device/ip/designware/pwm_timer/dw_pwm_timer.c).  A thread's call is a  *)
(* sequence of register accesses (todo); the control register of a channel *)
(* is read in one step and written in the next.  The channels have an      *)
(* interrupt each and one routine, whose handlers may call the driver.     *)
(***************************************************************************)
EXTENDS Integers, Sequences

CONSTANTS NumChannels,
          Clock, Width,      \* ticks per second, values of a count register
          Programs           \* what a client does: writes, kinds of calls, what its handlers do

VARIABLE pwm

Channels == 0 .. NumChannels - 1
Closed == [mode |-> "close", freq |-> 0, dc |-> 0]
PwmConstants ==
  /\ NumChannels \in 1 .. 8 /\ Clock > 0 /\ Width > 0
  /\ \A p \in Programs :
       /\ \A w \in p.writes : w = Closed \/ (w.mode \in {"timer", "pwm"} /\ w.freq > 0 /\ w.dc \in 0 .. 100)
       /\ p.does \subseteq {"cfg", "channel", "line", "isr"} /\ p.reacts \subseteq {"none", "close", "dis"}

(* opn, mode: of the driver; lo, hi: the count registers; en, gen: enable  *)
(* and PWM bits of the control registers; line: interrupts enabled at the  *)
(* core; isrs: channels with a handler; pend: interrupts of the timers.    *)
(* todo, ch, arg, new: the thread's accesses, their channel, the call's    *)
(* argument and the control register read.  on, status, served: the routine*)
(* want: what was last written to the channel; tuned: channels that other  *)
(* commands than a write have changed since; raced: those a handler wrote  *)
(* while the thread did; owed: those with an event for their handler, but  *)
(* for one between the handler and the end of interrupt, which clears it.  *)
Init == \E p \in Programs :
  pwm = [program |-> p, opn |-> 0, mode |-> [c \in Channels |-> "close"],
         lo |-> [c \in Channels |-> 0], hi |-> [c \in Channels |-> 0],
         en |-> {}, gen |-> {}, line |-> {}, isrs |-> IF "isr" \in p.does THEN {} ELSE Channels, pend |-> {},
         todo |-> <<>>, ch |-> 0, arg |-> Closed, new |-> {},
         on |-> FALSE, status |-> {}, served |-> {},
         want |-> [c \in Channels |-> Closed], tuned |-> {}, raced |-> {}, owed |-> {}]

Set(u) == pwm' = u

(* ---------------------------- the accesses ------------------------------ *)

Count(w) == Clock \div w.freq
(* Mutant: the duty cycle is taken for the low part of the period. *)
High_Low(w) == IF w.mode = "pwm" THEN Count(w) - ((Count(w) * w.dc) \div 100) ELSE 0
High(w) == IF w.mode = "pwm" THEN (Count(w) * w.dc) \div 100 ELSE 0
Low(w) == IF w.mode = "timer" THEN Count(w) \div 2 ELSE IF w.mode = "pwm" THEN Count(w) - High(w) ELSE 0
(* A timer that is not enabled has no interrupt.                           *)
Enabled(u, c, on) == [u EXCEPT !.en = IF on THEN @ \cup {c} ELSE @ \ {c}, !.pend = IF on THEN @ ELSE @ \ {c},
                               !.owed = IF on THEN @ ELSE @ \ {c}]
Generates(u, c, on) == [u EXCEPT !.gen = IF on THEN @ \cup {c} ELSE @ \ {c}]
Line(u, c, on) == [u EXCEPT !.line = IF on THEN @ \cup {c} ELSE @ \ {c}]
Counts(u, c, w) == [u EXCEPT !.mode[c] = w.mode, !.lo[c] = Low(w) % Width, !.hi[c] = High(w) % Width]
Written(u, c, w) == [Counts(u, c, w) EXCEPT !.want[c] = w, !.tuned = @ \ {c}]
(* The store to a control register, of what was read and one change.       *)
Stored(u, c, on, gen) == Generates(Enabled(u, c, on), c, gen)

Access(u, s) ==
  LET c == u.ch IN
  CASE s = "written" -> Written(u, c, u.arg)
    [] s = "configured" -> [Counts(u, c, u.arg) EXCEPT !.tuned = @ \cup {c}]
    [] s = "load" -> [u EXCEPT !.new = (IF c \in u.en THEN {"en"} ELSE {}) \cup (IF c \in u.gen THEN {"gen"} ELSE {})]
    [] s = "enable" -> Stored(u, c, TRUE, "gen" \in u.new)
    [] s = "disable" -> Stored(u, c, FALSE, "gen" \in u.new)
    [] s = "pwm" -> Stored(u, c, "en" \in u.new, TRUE)
    [] s = "nopwm" -> Stored(u, c, "en" \in u.new, FALSE)
    [] s = "line" -> Line(u, c, TRUE)
    [] s = "noline" -> Line(u, c, FALSE)
    [] s = "off" -> Stored(u, c, FALSE, FALSE)
    [] s = "next" -> [u EXCEPT !.ch = @ + 1]
Off == <<"load", "disable", "load", "nopwm">>
(* Mutant: the interrupt of a channel that goes over to PWM stays on. *)
Steps_LineKept(mode) ==
  CASE mode = "timer" -> <<"load", "enable", "load", "nopwm", "line">>
    [] mode = "pwm" -> <<"load", "enable", "load", "pwm">>
    [] mode = "close" -> Off \o <<"noline">>
Steps(mode) ==
  CASE mode = "timer" -> <<"load", "enable", "load", "nopwm", "line">>
    [] mode = "pwm" -> <<"load", "enable", "load", "pwm", "noline">>
    [] mode = "close" -> Off \o <<"noline">>
ConfigSteps(mode) ==
  CASE mode = "timer" -> <<"load", "enable", "line">>
    [] mode = "pwm" -> <<"load", "enable", "load", "pwm">>
    [] mode = "close" -> Off
(* Open and close go through the channels in order; no handler writes then.*)
AllOff == LET off[n \in 0 .. NumChannels] == IF n = 0 THEN <<>> ELSE off[n - 1] \o <<"off", "noline", "next">>
          IN off[NumChannels]
Whole(u, c, w) ==
  IF w.mode = "close" THEN Line(Stored(Written(u, c, w), c, FALSE, FALSE), c, FALSE)
  ELSE Line(Stored(Written(u, c, w), c, TRUE, w.mode = "pwm"), c, w.mode = "timer")

(* ------------------------------ the thread ------------------------------ *)

Pending == pwm.pend \cap pwm.line # {} /\ ~ pwm.on
Runs == ~ pwm.on /\ ~ Pending
Idle == Runs /\ pwm.todo = <<>>
Opened == Idle /\ pwm.opn > 0
Begin(u, c, w, todo) == Set([u EXCEPT !.ch = c, !.arg = w, !.todo = todo, !.raced = @ \ {c}])
dw_pwm_timer_open ==
  /\ Idle /\ pwm.opn = 0
  /\ Begin([pwm EXCEPT !.opn = 1, !.want = [c \in Channels |-> Closed], !.tuned = {}, !.raced = {}], 0, Closed, AllOff)
(* The count is decreased first: a handler's call during the rest is       *)
(* refused.                                                                *)
dw_pwm_timer_close == Opened /\ Begin([pwm EXCEPT !.opn = 0], 0, Closed, AllOff)
dw_pwm_timer_write == Opened /\ \E c \in Channels, w \in pwm.program.writes :
                        Begin(pwm, c, w, <<"written">> \o Steps(w.mode))
SetCfg == Opened /\ "cfg" \in pwm.program.does /\ \E c \in Channels, w \in pwm.program.writes :
            Begin([pwm EXCEPT !.isrs = @ \cup {c}], c, w, <<"configured">> \o ConfigSteps(w.mode))
SetIsr == Opened /\ "isr" \in pwm.program.does /\ \E c \in Channels : Set([pwm EXCEPT !.isrs = @ \cup {c}])
(* ENA_CH, DIS_CH, ENA_ISR, DIS_ISR.                                       *)
Switch == Opened /\ \E c \in Channels,
            todo \in (IF "channel" \in pwm.program.does THEN {<<"load", "enable">>, <<"load", "disable">>} ELSE {})
                     \cup (IF "line" \in pwm.program.does THEN {<<"line">>, <<"noline">>} ELSE {}) :
            Begin([pwm EXCEPT !.tuned = @ \cup {c}], c, Closed, todo)
Thread == /\ Runs /\ pwm.todo # <<>>
          /\ LET u == Access(pwm, Head(pwm.todo)) IN
             Set([u EXCEPT !.todo = Tail(@), !.new = IF Head(pwm.todo) = "load" THEN @ ELSE {},
                           !.ch = IF Len(pwm.todo) = 1 THEN 0 ELSE @, !.arg = IF Len(pwm.todo) = 1 THEN Closed ELSE @])

(* ----------------------------- the routine ------------------------------ *)

Lowest(s) == CHOOSE c \in s : \A d \in s : c <= d
(* A handler's call: refused if the device is closed.                      *)
React(u, c, r) ==
  IF u.opn = 0 \/ r = "none" THEN u
  ELSE LET v == [u EXCEPT !.raced = IF u.todo # <<>> THEN @ \cup {c} ELSE @] IN
       IF r = "close" THEN Whole(v, c, Closed) ELSE [Line(v, c, FALSE) EXCEPT !.tuned = @ \cup {c}]
(* Mutant: the interrupts of all channels are cleared. *)
dw_pwm_timer_int_clear_All(u) == [u EXCEPT !.pend = {}, !.served = {}]
dw_pwm_timer_int_clear(u) == [u EXCEPT !.pend = @ \ u.served, !.served = {}]
Isr == \/ Pending /\ Set([pwm EXCEPT !.on = TRUE, !.status = pwm.pend])
       \/ /\ pwm.on /\ pwm.status # {} /\ pwm.served = {}
          /\ LET c == Lowest(pwm.status)
                 u == [pwm EXCEPT !.status = @ \ {c}, !.served = {c}, !.owed = @ \ {c}]
             IN IF c \in pwm.isrs THEN \E r \in pwm.program.reacts : Set(React(u, c, r)) ELSE Set(u)
       \/ pwm.on /\ pwm.served # {} /\ Set(dw_pwm_timer_int_clear(pwm))
       \/ pwm.on /\ pwm.status = {} /\ pwm.served = {} /\ Set([pwm EXCEPT !.on = FALSE])
Expires == \E c \in pwm.en : /\ c \notin pwm.pend \/ c \in pwm.served
                             /\ Set([pwm EXCEPT !.pend = @ \cup {c}, !.owed = @ \cup ({c} \ pwm.served)])

Next == \/ dw_pwm_timer_open \/ dw_pwm_timer_close \/ dw_pwm_timer_write \/ SetCfg \/ SetIsr \/ Switch
        \/ Thread \/ Isr \/ Expires
Spec == Init /\ [][Next]_pwm
(* The routine runs.                                                       *)
Fairness == []<>(~ (Pending \/ pwm.on)) \/ []<><<Isr>>_pwm

(* ------------------------------ properties ------------------------------ *)

(* Every field keeps its type.                                             *)
TypeOK == /\ pwm.opn \in 0 .. 1 /\ pwm.ch \in 0 .. NumChannels
          /\ pwm.en \cup pwm.gen \cup pwm.line \cup pwm.pend \cup pwm.status \subseteq Channels
          /\ \A c \in Channels : pwm.lo[c] \in 0 .. Width - 1 /\ pwm.hi[c] \in 0 .. Width - 1
AtRest == pwm.todo = <<>> /\ ~ pwm.on
Settled(c) == AtRest /\ pwm.opn > 0 /\ c \notin pwm.tuned \cup pwm.raced
(* A channel does what was last written to it: the timer with the lowest   *)
(* frequency not below the one asked for, the wave with it and with the    *)
(* largest duty not above the one asked for, unless a count does not fit   *)
(* into its register; it interrupts as a timer only.  Except where another *)
(* command changed it, or a handler wrote it while the thread did.         *)
ChannelsAsWritten ==
  \A c \in Channels : Settled(c) =>
    LET w == pwm.want[c]
        lo == pwm.lo[c]
        hi == pwm.hi[c]
    IN /\ w.mode = "close" => c \notin pwm.en \cup pwm.gen \cup pwm.line
       /\ w.mode = "timer" =>
            /\ c \in pwm.en \cap pwm.line /\ c \notin pwm.gen
            /\ Clock < 2 * Width * w.freq => w.freq * 2 * lo <= Clock /\ Clock < w.freq * 2 * (lo + 1)
       /\ w.mode = "pwm" =>
            /\ c \in pwm.en \cap pwm.gen /\ c \notin pwm.line
            /\ Clock < Width * w.freq => /\ w.freq * (lo + hi) <= Clock /\ Clock < w.freq * (lo + hi + 1)
                                         /\ 100 * hi <= w.dc * (lo + hi) /\ w.dc * (lo + hi) < 100 * (hi + 1)
(* A closed device counts, drives and interrupts nobody, whatever handlers *)
(* ran while dw_pwm_timer_close was at work.                               *)
ClosedIsQuiet == AtRest /\ pwm.opn = 0 => pwm.en \cup pwm.gen \cup pwm.line = {}
(* An event of channel c waits for its handler, interrupt enabled.         *)
Unhandled(c) == c \in pwm.owed \cap pwm.line \cap pwm.isrs
=============================================================================
