------------------------------- MODULE ArcUdma -------------------------------
(***************************************************************************)
(* The uDMA driver (src/arc/arc_udma.c, include/arc/arc_udma.h) in its     *)
(* default build: one completion and one error interrupt for all channels  *)
(* (DMA_MULTI_IRQ 0), descriptors in memory.  One thread drives the API,   *)
(* the two handlers preempt it between any two of its register accesses,   *)
(* and the DMA engine runs beside both.  dmac_init has been called.        *)
(***************************************************************************)
EXTENDS Integers, FiniteSets

CONSTANTS NumChannels,      \* DMA_ALL_CHANNEL_NUM
          Chn,              \* the DMA_CHANNEL_T structures of the clients
          NumDesc,          \* descriptors 1 .. NumDesc
          Sources,          \* per channel, the trigger sources the board offers
          Callbacks,        \* {TRUE}: transfers with a callback, {FALSE}: polled
          Failing,          \* channels whose transfers may end with an error
          Masks,            \* TRUE when the thread may run while an interrupt is latched
          NULL

Channel == 0 .. NumChannels - 1

ASSUME UdmaAssumption == /\ NumChannels \in Nat \ {0} /\ NumDesc \in Nat \ {0}
                         /\ NULL \notin Chn
                         /\ Sources \in [Channel -> SUBSET {"soft", "peripheral"}]
                         /\ Callbacks \subseteq BOOLEAN
                         /\ Failing \subseteq Channel /\ Masks \in BOOLEAN

Desc == 1 .. NumDesc
None == 0                   \* a NULL descriptor pointer
DMA_CHN_ANY == -1
DMA_CHN_INVALID == -2

VARIABLES chn,       \* the clients' structures
          dma_chns,  \* g_dmac->dma_chns
          desc,      \* op, int and llp fields of the descriptors
          unit,      \* per channel: enabled, requested, at, complete, error, irq;
                     \* late, history: the error came in the middle of a release
          pc, cur,   \* the thread: place in the API and the structure it is about
          seen,      \* the status dmac_wait_channel_status has computed
          isr, scan, \* running handler, channels its status word still names
          xfer,      \* history, per channel: what became of the started transfer
          open       \* history: clients that were not yet told the end of a transfer

client == <<chn, dma_chns>>
thread == <<pc, cur, seen>>
handler == <<isr, scan>>
vars == <<chn, dma_chns, desc, unit, pc, cur, seen, isr, scan, xfer, open>>

Init == /\ chn = [x \in Chn |-> [channel |-> DMA_CHN_INVALID, int_en |-> 0,
                                 source |-> "soft", desc |-> None, status |-> "IDLE"]]
        /\ dma_chns = [c \in Channel |-> NULL]
        /\ desc = [d \in Desc |-> [op |-> "single", int |-> 0, llp |-> None]]
        /\ unit = [c \in Channel |-> [enabled |-> FALSE, requested |-> FALSE, at |-> None,
                                      complete |-> FALSE, error |-> FALSE, irq |-> FALSE,
                                      late |-> FALSE]]
        /\ pc = "idle" /\ cur = NULL /\ seen = "IDLE"
        /\ isr = "none" /\ scan = {}
        /\ xfer = [c \in Channel |-> "none"]
        /\ open = {}

(* ------------------------- the unit's registers ------------------------ *)

(* DMACENB starts the channel afresh; DMACDSB drops what it was doing and  *)
(* what it reported: the status word the handler scans no longer names it. *)
Enabled(u)    == [u EXCEPT !.enabled = TRUE, !.complete = FALSE]
Disabled(u)   == [u EXCEPT !.enabled = FALSE, !.requested = FALSE, !.complete = FALSE]
ErrorClear(u) == [u EXCEPT !.error = FALSE, !.late = FALSE]
Dropped(s)    == IF s = "running" THEN "dropped" ELSE s

(* The descriptors from d on, in the order of their links. *)
Chain(d) == LET f[e \in Desc] == IF desc[e].llp = None THEN {e}
                                                       ELSE {e} \cup f[desc[e].llp]
            IN  f[d]

(* Completion interrupt: DMACIRQ; error interrupt: DMACSTAT1 error bit of  *)
(* a channel whose descriptors enable interrupts.                          *)
IrqOk  == \E c \in Channel : unit[c].irq
IrqErr == \E c \in Channel : /\ unit[c].error
                            /\ \E d \in Chain(unit[c].at) : desc[d].int = 1

(* The engine finishes the block it is at and follows the link, or stops   *)
(* with an error, which sets the error bit only.                           *)
BlockDone(c) ==
  LET u == unit[c]
      d == desc[u.at]
      last == d.op = "single"
  IN  /\ u.enabled /\ u.requested
      /\ unit' = [unit EXCEPT ![c].requested = ~ last,
                              ![c].at = IF last THEN u.at ELSE d.llp,
                              ![c].complete = @ \/ last \/ d.int = 1,
                              ![c].irq = @ \/ d.int = 1]
      /\ xfer' = [xfer EXCEPT ![c] = IF last THEN "done" ELSE @]
      /\ UNCHANGED <<client, desc, thread, handler, open>>
BlockFails(c) ==
  /\ c \in Failing
  /\ unit[c].enabled /\ unit[c].requested
  /\ unit' = [unit EXCEPT ![c].requested = FALSE, ![c].error = TRUE,
                          ![c].late = pc = "release" /\ c = chn[cur].channel]
  /\ xfer' = [xfer EXCEPT ![c] = "dropped"]
  /\ UNCHANGED <<client, desc, thread, handler, open>>

(* ------------------------------ handlers ------------------------------- *)

(* dmac_interrupt_completed and _error read the status word once ... *)
IsrEnter ==
  /\ isr = "none"
  /\ \/ IrqOk /\ isr' = "completed" /\ scan' = {c \in Channel : unit[c].complete}
     \/ IrqErr /\ isr' = "error" /\ scan' = {c \in Channel : unit[c].error}
  /\ UNCHANGED <<client, desc, unit, thread, xfer, open>>

(* ... and serve its channels from the lowest.  A channel without a holder *)
(* is served through a NULL pointer: whatever that write does is not told. *)
Lowest(S) == CHOOSE c \in S : \A d \in S : c <= d
Report(c, status) ==
  LET x == dma_chns[c]
      u == IF status = "ERROR" THEN ErrorClear(unit[c]) ELSE unit[c]
  IN  /\ scan' = scan \ {c}
      /\ unit' = [unit EXCEPT ![c] = Disabled([u EXCEPT !.irq = FALSE])]
      /\ xfer' = [xfer EXCEPT ![c] = Dropped(@)]
      /\ chn' = IF x = NULL THEN chn ELSE [chn EXCEPT ![x].status = status]
      /\ UNCHANGED <<dma_chns, desc, thread, isr, open>>
dmac_interrupt_completed_channel(c) == Report(c, "IDLE")
dmac_interrupt_error_channel(c) == Report(c, "ERROR")

IsrStep == /\ isr # "none" /\ scan # {}
           /\ IF isr = "completed" THEN dmac_interrupt_completed_channel(Lowest(scan))
                                   ELSE dmac_interrupt_error_channel(Lowest(scan))
IsrLeave == /\ isr # "none" /\ scan = {}
            /\ isr' = "none"
            /\ UNCHANGED <<client, desc, unit, thread, scan, xfer, open>>
Isr == IsrEnter \/ IsrStep \/ IsrLeave

(* ------------------------------ the API -------------------------------- *)

(* A latched interrupt is taken before the thread's next access, unless the*)
(* thread holds interrupts off for a while or the access was under way.    *)
Runs(from) == isr = "none" /\ pc = from /\ (Masks \/ (~ IrqOk /\ ~ IrqErr))
Idle == Runs("idle") /\ UNCHANGED <<pc, cur, seen, handler>>
Valid(x) == chn[x].desc # None /\ chn[x].channel \in Channel

dmac_config_desc(d) ==
  /\ Idle
  /\ \A c \in Channel : xfer[c] # "running"
  /\ desc' = [desc EXCEPT ![d] = [op |-> "single", int |-> 0, llp |-> None]]
  /\ UNCHANGED <<client, unit, xfer, open>>

(* Chains are acyclic here: a cycle would keep dmac_process_desc forever.  *)
(* A descriptor that ended a transfer is configured again before it is     *)
(* linked: its interrupt bit would stay set.                               *)
dmac_desc_add_linked(head, next) ==
  /\ Idle
  /\ head < next
  /\ desc[head].int = 0
  /\ \A c \in Channel : xfer[c] # "running"
  /\ desc' = [desc EXCEPT ![head].llp = next]
  /\ UNCHANGED <<client, unit, xfer, open>>

dmac_config_channel(x, d) ==
  /\ Idle
  /\ chn' = [chn EXCEPT ![x].desc = d]
  /\ UNCHANGED <<dma_chns, desc, unit, xfer, open>>

(* Mutants: a channel asked for by its number is not checked to be free;   *)
(* the channel after the last is tried too.                                *)
Found_Unchecked(want) ==
  LET free == {c \in Channel : want = c \/ (dma_chns[c] = NULL /\ want = DMA_CHN_ANY)}
  IN  IF free = {} THEN DMA_CHN_INVALID ELSE Lowest(free)
Found_Over(want) ==
  LET free == {c \in Channel : dma_chns[c] = NULL /\ want \in {c, DMA_CHN_ANY}}
  IN  IF free = {} THEN NumChannels ELSE Lowest(free)
(* The channel found for a request, or DMA_CHN_INVALID. *)
Found(want) ==
  LET free == {c \in Channel : dma_chns[c] = NULL /\ want \in {c, DMA_CHN_ANY}}
  IN  IF free = {} THEN DMA_CHN_INVALID ELSE Lowest(free)
dmac_reserve_channel(want, x, source) ==
  /\ Idle
  /\ chn[x].channel = DMA_CHN_INVALID
  /\ LET c == Found(want)
     IN  /\ c # DMA_CHN_INVALID
         /\ c \in Channel => source \in Sources[c]
         /\ dma_chns' = [dma_chns EXCEPT ![c] = x]
         /\ chn' = [chn EXCEPT ![x].channel = c, ![x].source = source,
                               ![x].status = "IDLE"]
  /\ UNCHANGED <<desc, unit, xfer, open>>

(* dmac_process_desc: all but the last descriptor of the chain become auto-*)
(* linked; only the last one's interrupt bit is written.                   *)
Processed_AllInt(d, int) ==      \* mutant: every interrupt bit is written
  [e \in Desc |-> CASE e \notin Chain(d)    -> desc[e]
                    [] e \in Chain(d) /\ desc[e].llp # None ->
                         [desc[e] EXCEPT !.op = "auto", !.int = int]
                    [] OTHER -> [desc[e] EXCEPT !.op = "single", !.int = int]]
Processed(d, int) ==
  [e \in Desc |-> CASE e \notin Chain(d)    -> desc[e]
                    [] e \in Chain(d) /\ desc[e].llp # None ->
                         [desc[e] EXCEPT !.op = "auto"]
                    [] OTHER -> [desc[e] EXCEPT !.op = "single", !.int = int]]

(* dmac_start_channel, up to the write of DMACDSB: nothing runs on the     *)
(* channel, so nothing fails between its accesses.  Clients do not share a *)
(* descriptor with a transfer that runs.                                   *)
Start(x, callback) ==
  LET c == chn[x].channel
      int == IF callback THEN 1 ELSE 0
  IN  /\ Runs("idle")
      /\ Valid(x) /\ chn[x].status # "BUSY"
      /\ \A d \in Channel : xfer[d] = "running" => Chain(unit[d].at) \cap Chain(chn[x].desc) = {}
      /\ chn' = [chn EXCEPT ![x].int_en = int]
      /\ desc' = Processed(chn[x].desc, int)
      /\ unit' = [unit EXCEPT ![c] = [Disabled(ErrorClear(@)) EXCEPT !.at = chn[x].desc]]
      /\ xfer' = [xfer EXCEPT ![c] = Dropped(@)]
      /\ pc' = "enable" /\ cur' = x
      /\ open' = open \cup {x}
      /\ UNCHANGED <<dma_chns, seen, handler>>
(* A peripheral may request the transfer as soon as the channel is enabled.*)
Enable ==
  LET c == chn[cur].channel
  IN  /\ Runs("enable")
      /\ unit' = [unit EXCEPT ![c] = [Enabled(@) EXCEPT
                                       !.requested = chn[cur].source = "peripheral"]]
      /\ xfer' = [xfer EXCEPT ![c] = "running"]
      /\ pc' = "busy"
      /\ UNCHANGED <<client, desc, cur, seen, handler, open>>
(* Mutant: the status is forgotten. *)
MarkBusy_Forgotten == /\ Runs("busy")
                      /\ pc' = "trigger"
                      /\ UNCHANGED <<client, desc, unit, cur, seen, handler, xfer, open>>
MarkBusy == /\ Runs("busy")
            /\ chn' = [chn EXCEPT ![cur].status = "BUSY"]
            /\ pc' = "trigger"
            /\ UNCHANGED <<dma_chns, desc, unit, cur, seen, handler, xfer, open>>
Trigger ==
  /\ Runs("trigger")
  /\ unit' = IF chn[cur].source = "soft"
               THEN [unit EXCEPT ![chn[cur].channel].requested = TRUE] ELSE unit
  /\ pc' = "idle" /\ cur' = NULL
  /\ UNCHANGED <<client, desc, seen, handler, xfer, open>>

(* dmac_stop_channel writes DMACDSB first: once it has, nothing runs on the*)
(* channel that could fail or end before the structure is looked at.       *)
Off(c) == /\ unit' = [unit EXCEPT ![c] = Disabled(ErrorClear(@))]
          /\ xfer' = [xfer EXCEPT ![c] = Dropped(@)]

dmac_stop_channel(x) ==
  /\ Idle /\ Valid(x)
  /\ Off(chn[x].channel)
  /\ chn' = [chn EXCEPT ![x].status = IF @ = "BUSY" THEN "STOP" ELSE @]
  /\ open' = open \ {x}
  /\ UNCHANGED <<dma_chns, desc>>

(* The two other calls clear the error of a channel that still runs, and   *)
(* disable it in their next access: a transfer may fail in between.        *)
ClearError(x, next) ==
  /\ Runs("idle") /\ Valid(x)
  /\ unit' = [unit EXCEPT ![chn[x].channel] = ErrorClear(@)]
  /\ pc' = next /\ cur' = x
  /\ UNCHANGED <<client, desc, seen, handler, xfer, open>>
Ends(from) == /\ Runs(from)
              /\ pc' = "idle" /\ cur' = NULL
              /\ open' = open \ {cur}
              /\ UNCHANGED <<desc, seen, handler>>

dmac_clear_channel(x) == ClearError(x, "clear")
Clear ==
  LET c == chn[cur].channel
  IN  /\ Ends("clear")
      /\ unit' = [unit EXCEPT ![c] = Enabled(Disabled(@))]
      /\ xfer' = [xfer EXCEPT ![c] = Dropped(@)]
      /\ chn' = [chn EXCEPT ![cur].status = "IDLE"]
      /\ UNCHANGED dma_chns

dmac_release_channel(x) == ClearError(x, "release")
Unbind == /\ dma_chns' = [dma_chns EXCEPT ![chn[cur].channel] = NULL]
          /\ chn' = [chn EXCEPT ![cur].channel = DMA_CHN_INVALID]
(* Mutant: the channel is given up while it goes on. *)
Release_Running == Ends("release") /\ Unbind /\ UNCHANGED <<unit, xfer>>
Release ==
  LET c == chn[cur].channel
  IN  /\ Ends("release") /\ Unbind
      /\ unit' = [unit EXCEPT ![c] = Disabled(@)]
      /\ xfer' = [xfer EXCEPT ![c] = "none"]

(* Mutant: the channel's enable bit is taken for its completion bit.       *)
dmac_wait_channel_status_Enabled(c) == IF unit[c].enabled THEN "IDLE" ELSE "BUSY"
(* The status of a channel that is polled: completion first, then error.   *)
dmac_wait_channel_status(c) ==
  CASE ~ unit[c].complete -> "BUSY"
    [] unit[c].complete /\ unit[c].error -> "ERROR"
    [] unit[c].complete /\ ~ unit[c].error -> IF unit[c].requested THEN "BUSY" ELSE "IDLE"

(* dmac_wait_channel returns, or polls once more, or leaves it to the      *)
(* handlers; dmac_check_channel polls once.  Clients ask about transfers   *)
(* whose end they were not told: the status of a stopped or finished one   *)
(* would be overwritten with what its channel's bits say.                  *)
Polled(x) == chn[x].int_en = 0
Wait(x) == /\ Runs("idle") /\ Valid(x) /\ x \in open
           /\ pc' = "wait" /\ cur' = x
           /\ UNCHANGED <<client, desc, unit, seen, handler, xfer, open>>
WaitReturns == /\ Runs("wait") /\ chn[cur].status # "BUSY"
               /\ pc' = "idle" /\ cur' = NULL
               /\ open' = open \ {cur}
               /\ UNCHANGED <<client, desc, unit, seen, handler, xfer>>
Poll == /\ Runs("wait") /\ chn[cur].status = "BUSY" /\ Polled(cur)
        /\ seen' = dmac_wait_channel_status(chn[cur].channel)
        /\ pc' = "polled"
        /\ UNCHANGED <<client, desc, unit, cur, handler, xfer, open>>
Note == /\ Runs("polled")
        /\ chn' = [chn EXCEPT ![cur].status = seen]
        /\ pc' = "wait" /\ seen' = "IDLE"
        /\ UNCHANGED <<dma_chns, desc, unit, cur, handler, xfer, open>>
dmac_check_channel(x) ==
  /\ Idle /\ Valid(x) /\ x \in open
  /\ chn' = IF Polled(x)
              THEN [chn EXCEPT ![x].status = dmac_wait_channel_status(chn[x].channel)]
              ELSE chn
  /\ open' = IF chn'[x].status = "BUSY" THEN open ELSE open \ {x}
  /\ UNCHANGED <<dma_chns, desc, unit, xfer>>

Continue == \/ Enable \/ MarkBusy \/ Trigger \/ Clear \/ Release
            \/ WaitReturns \/ Poll \/ Note
CallStep == \/ \E d \in Desc : dmac_config_desc(d)
            \/ \E d, e \in Desc : dmac_desc_add_linked(d, e)
            \/ \E x \in Chn :
                 \/ \E d \in Desc : dmac_config_channel(x, d)
                 \/ \E want \in Channel \cup {DMA_CHN_ANY}, s \in {"soft", "peripheral"} :
                      dmac_reserve_channel(want, x, s)
                 \/ \E callback \in Callbacks : Start(x, callback)
                 \/ dmac_stop_channel(x) \/ dmac_clear_channel(x)
                 \/ dmac_release_channel(x) \/ Wait(x) \/ dmac_check_channel(x)
Engine(c) == BlockDone(c) \/ BlockFails(c)

Next == CallStep \/ Continue \/ Isr \/ \E c \in Channel : Engine(c)
Spec == Init /\ [][Next]_vars

(* The thread goes on inside a call, the handlers run, and the engine      *)
(* finishes what was requested of it, well or badly.                       *)
Fairness == WF_vars(Continue) /\ WF_vars(Isr) /\ \A c \in Channel : WF_vars(Engine(c))
FairSpec == Spec /\ Fairness

(* ------------------------------ properties ----------------------------- *)

(* Every variable keeps its type.                                          *)
TypeOK ==
  /\ chn \in [Chn -> [channel : Channel \cup {DMA_CHN_INVALID}, int_en : {0, 1},
                       source : {"soft", "peripheral"}, desc : Desc \cup {None},
                       status : {"IDLE", "BUSY", "ERROR", "STOP"}]]
  /\ dma_chns \in [Channel -> Chn \cup {NULL}]
  /\ desc \in [Desc -> [op : {"single", "auto"}, int : {0, 1}, llp : Desc \cup {None}]]
  /\ unit \in [Channel -> [enabled : BOOLEAN, requested : BOOLEAN, at : Desc \cup {None},
                            complete : BOOLEAN, error : BOOLEAN, irq : BOOLEAN,
                            late : BOOLEAN]]
  /\ pc \in {"idle", "enable", "busy", "trigger", "clear", "release", "wait", "polled"}
  /\ cur \in Chn \cup {NULL} /\ seen \in {"IDLE", "BUSY", "ERROR"}
  /\ isr \in {"none", "completed", "error"} /\ scan \subseteq Channel
  /\ xfer \in [Channel -> {"none", "running", "done", "dropped"}]
  /\ open \subseteq Chn

(* The table of channels and the clients' structures name each other: no   *)
(* channel is shared, none leaks.  The handlers never follow the NULL      *)
(* pointer of a channel nobody holds, whatever was latched when it was     *)
(* stopped, released or restarted, but for one case: a transfer that fails *)
(* after dmac_release_channel has cleared the error (arc_udma.c:983) and   *)
(* before it disables the channel (984) leaves its bit to the error scan.  *)
Bound == \A c \in Channel, x \in Chn : dma_chns[c] = x <=> chn[x].channel = c
NoNullChannel ==
  \A c \in scan : dma_chns[c] = NULL => isr = "error" /\ unit[c].late
ChannelsHeld == Bound /\ NoNullChannel

(* A transfer that runs is known to be busy, so that a second start is     *)
(* refused and dmac_wait_channel does wait for it.                         *)
RunningIsBusy ==
  \A c \in Channel : xfer[c] = "running" /\ pc \notin {"busy", "trigger"}
     => /\ dma_chns[c] # NULL
        /\ chn[dma_chns[c]].status = "BUSY"

(* What the last two rest on.  What a channel does, or reports, belongs to *)
(* a client, the one late error apart; a requested channel is at a block,  *)
(* and a block that goes on has a successor.                               *)
Live(c) == \/ unit[c].enabled \/ unit[c].requested \/ unit[c].complete
           \/ (unit[c].error /\ ~ unit[c].late) \/ xfer[c] = "running"
LiveIsHeld == \A c \in Channel : Live(c) => dma_chns[c] # NULL
BlocksLinked == /\ \A c \in Channel : unit[c].requested => unit[c].at # None
                /\ \A d \in Desc : desc[d].op = "auto" => desc[d].llp # None
(* A call keeps its client, its channel and, while it starts it, its chain. *)
InCall == LET c == chn[cur].channel IN
          /\ pc # "idle" => cur \in Chn /\ c \in Channel
          /\ pc \in {"enable", "busy", "trigger"} => unit[c].at # None
          /\ pc = "enable" => ~ unit[c].enabled /\ ~ unit[c].error
          /\ pc = "release" /\ unit[c].error => unit[c].late
          /\ isr = "none" => scan = {}
(* A running transfer has neither failed nor ended, its client is marked   *)
(* busy or is about to be, and no poll has seen it end.                    *)
RunningIsKnown ==
  /\ \A c \in Channel : xfer[c] = "running" =>
       /\ ~ unit[c].error /\ (unit[c].complete => unit[c].requested)
       /\ chn[dma_chns[c]].status = "BUSY" \/ (pc = "busy" /\ c = chn[cur].channel)
  /\ pc = "polled" /\ seen # "BUSY" => xfer[chn[cur].channel] # "running"
IInv == /\ TypeOK /\ Bound /\ NoNullChannel /\ LiveIsHeld /\ BlocksLinked /\ InCall
        /\ RunningIsKnown

(* What the callbacks rest on.  Only the last block of a chain interrupts, *)
(* a channel that reports completion has moved all blocks, and a transfer  *)
(* that software requests has not moved one before.                        *)
EndIsKnown ==
  /\ \A d \in Desc : desc[d].llp # None => desc[d].int = 0
  /\ \A c \in Channel : unit[c].complete => xfer[c] = "done" /\ ~ unit[c].requested
  /\ isr = "completed" => \A c \in scan : unit[c].complete
  /\ pc \in {"busy", "trigger"} /\ chn[cur].source = "soft" =>
       ~ unit[chn[cur].channel].requested /\ ~ unit[chn[cur].channel].complete

(* A completed callback reports a transfer that has moved all its blocks.  *)
(* "@note ... all INT field in DMA descriptor will be set" (arc_udma.c:825)*)
(* is what would make it so; the code sets the last one only.              *)
CallbackMeansDone ==
  [][\A x \in Chn : /\ isr = "completed" /\ scan # {}
                    /\ x = dma_chns[Lowest(scan)] /\ chn'[x].status = "IDLE"
                    => xfer[Lowest(scan)] = "done"]_vars

(* A client that waits for its transfer is not sent away while it runs.    *)
WaitMeansDone ==
  [][pc = "wait" /\ pc' = "idle" => xfer[chn[cur].channel] # "running"]_vars

(* Whoever is told of the end of a transfer, by a callback or by the return*)
(* of dmac_wait_channel, is told of one that has ended.                    *)
EndMeansDone == CallbackMeansDone /\ WaitMeansDone

(* dmac_wait_channel returns ("Wait until uDMA channel job is completed",  *)
(* arc_udma.c:992).                                                        *)
WaitEnds == pc = "wait" ~> pc = "idle"
=============================================================================
