---------------------------- MODULE MCArcConnect ----------------------------
(* Instances of the ARConnect driver for TLC. *)
EXTENDS ArcConnect, FiniteSetsExt, TLC

t0 == <<0, "thread">>
t1 == <<1, "thread">>
h0 == <<0, "handler">>
MCMaskOf == [S \in SUBSET Core |-> MapThenSumSet(LAMBDA c : 2 ^ c, S)]
MCCoreOf == [x \in Caller |-> x[1]]
TwoThreads == {t0, t1}
ThreadsAndHandler == {t0, t1, h0}
OneHandler == {h0}
NoHandler == {}

(* One register bank for the cluster, the case the global lock is for. *)
OneBank == {"shared"}
SharedBank == [c \in Core |-> "shared"]

(* A mask is written with two values and read back, from everywhere. *)
MixedCalls == (t0 :> {idu_set_mask(0, 1), ici_generate(1)})
           @@ (t1 :> {idu_set_mask(0, 2), ics_take(0)})
           @@ (h0 :> {idu_read_mask(0), gfrc_lo_read})

(* Both cores reconfigure common interrupts and compete for a semaphore;   *)
(* core 0 sets and reads registers.                                        *)
ApiCalls == (t0 :> {idu_config_irq(2, 0, 1, 2),
                    idu_read_dest(0), idu_read_mask(0), pmu_rstcnt_set(1), pmu_rstcnt_read,
                    pmu_pucnt_read,
                    ics_take(0), ics_release(0)})
         @@ (t1 :> {idu_config_irq(1, 1, 0, 1), idu_gen_cirq(0), idu_check_status(0),
                    ics_take(0), ics_release(0)})
=============================================================================
