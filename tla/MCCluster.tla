------------------------------ MODULE MCCluster ------------------------------
(* What runs on a cluster of cores, for TLC: their start by core 0, the SMP *)
(* example they run then, the interrupt layer of the HSDK, whose cores it   *)
(* is, and the caches of a core.  A behaviour is one of one part, chosen at *)
(* the beginning; the other parts keep an initial state.                    *)
EXTENDS MCMulticore, SlaveStart

VARIABLES part, hs, cache

(* An acknowledged interrupt and one that is not, either the more urgent;   *)
(* a thread with and without critical sections, handlers that switch        *)
(* interrupts off (those of the acknowledged interrupt the more urgent),    *)
(* and a program that configures and triggers.                              *)
SomePriorities == {<<0, 1>>, <<1, 0>>}
SomeClients == {{"enable", "disable", "locked"}, {"enable", "disable", "handler"},
                {"enable", "toedge", "tolevel", "trigger"}}
Hsdk == INSTANCE HsdkInterrupt WITH Irqs <- {1, 2}, EdgeIrqs <- {1},
          Priorities <- SomePriorities, Clients <- SomeClients

(* Three lines from the middle of the first to the last's first byte, up to *)
(* the end of the address space, more than the cache holds, nothing.        *)
SomeRanges == {<<1, 4>>, <<5, 3>>, <<1, 7>>, <<3, 0>>}
SomePrograms == {{"access", "invalidate", "flush", "lock"}, {"entry", "lock"}}
Cache == INSTANCE ArcCache WITH Addresses <- 8, LineSize <- 2, Capacity <- 6, Ranges <- SomeRanges,
           Entries <- {0, 1}, Kinds <- {"i", "d"}, Programs <- SomePrograms

ASSUME Constants == Hsdk!HsdkConstants /\ Cache!CacheConstants

MCInit == /\ part \in {"start", "example", "hsdk", "cache"} /\ StartInit /\ EInit /\ Hsdk!Init /\ Cache!Init
          /\ (part # "start" => arc_cpu_wake_flag = 0)
          /\ (part # "hsdk" => hs.client = {"enable", "disable", "locked"} /\ hs.pri = <<0, 1>>)
          /\ (part # "cache" => cache.kind = "i" /\ "entry" \in cache.uses)
          /\ ("handler" \in hs.client => hs.pri = <<0, 1>>)
MCNext == /\ UNCHANGED part
          /\ \/ part = "start" /\ StartNext /\ UNCHANGED <<evars, hs, cache>>
             \/ part = "example" /\ ENext /\ UNCHANGED <<startVars, hs, cache>>
             \/ part = "hsdk" /\ Hsdk!Next /\ UNCHANGED <<startVars, evars, cache>>
             \/ part = "cache" /\ Cache!Next /\ UNCHANGED <<startVars, evars, hs>>
(* The fairness of a part at rest holds: nothing in it waits.               *)
MCSpec == /\ MCInit /\ [][MCNext]_<<part, startVars, evars, hs, cache>>
          /\ (part = "start" => StartFairness) /\ Hsdk!Fairness /\ Cache!Fairness

(* Two cores wait, so that a third may meet the flag, the stack and the     *)
(* leftovers meant for another.                                             *)
MCSlaves == {1, 2}
MCJobs == {"a", "b"}
MCLeftovers == {0, 1, 2, 9}

(* hsdk_interrupt.c: arc_connect_int_isr calls a handler once per event and *)
(* only while its interrupt is enabled, but for what the module's           *)
(* properties name.                                                         *)
DispatchedOnce == Hsdk!DispatchedOnce
(* arc_cache.c: a function on a range has operated on exactly its lines when*)
(* it returns 0, and the cache's memory is accessed at the address asked    *)
(* for, but for what the module's properties name.                          *)
CacheAsAsked == Cache!CacheAsAsked
(* What a core is waited for happens: a call of arc_start_slave_cpu returns *)
(* and its core runs, unless a core started early cleared the flag or is no *)
(* longer there to see it; an event of the interrupt arc_connect_int_isr    *)
(* serves last is handled while it is enabled, unless a routine spins on    *)
(* the lock of ARConnect that its own core holds; a function of the cache   *)
(* returns unless its loop is to end in the last line there is.             *)
Waiting == mpc = "wait" \/ (\E c \in Slaves : asked[c] # None /\ spc[c] # "run")
           \/ Hsdk!Owed(2) \/ Cache!InCall
WaitsEnd == Waiting ~> ~ Waiting \/ early
=============================================================================
