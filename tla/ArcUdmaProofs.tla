---------------------------- MODULE ArcUdmaProofs ----------------------------
(***************************************************************************)
(* Proofs about the uDMA driver, for any number of channels and clients,   *)
(* any descriptors, sources and callbacks.                                 *)
(***************************************************************************)
EXTENDS ArcUdma, WellFoundedInduction, TLAPS

(* The order of the channel numbers. *)
Less == {pair \in Nat \X Nat : pair[1] < pair[2]}

(* No sequence of channel numbers descends for ever. *)
LEMMA LessWellFounded == IsWellFoundedOn(Less, Nat)
  <1>1. OpToRel(<, Nat) = Less
    BY DEF OpToRel, Less
  <1> QED
    BY <1>1, NatLessThanWellFounded

(* A set of channels that is not empty has a lowest one: the handlers and  *)
(* dmac_reserve_channel find the channel they scan for.                    *)
LEMMA LowestIn ==
  ASSUME NEW S \in SUBSET Channel, S # {}
  PROVE  Lowest(S) \in S
  <1>1. S \in SUBSET Nat
    BY UdmaAssumption DEF Channel
  <1>2. PICK c \in S : \A d \in S : <<d, c>> \notin Less
    BY <1>1, WFMin, LessWellFounded
  <1>3. \A d \in S : ~ (d < c)
    BY <1>1, <1>2 DEF Less
  <1>4. \A d \in S : c <= d
    BY <1>1, <1>3
  <1> QED
    BY <1>4 DEF Lowest

(* The numbers that are no channel and no descriptor. *)
LEMMA Numbers ==
  /\ DMA_CHN_INVALID \notin Channel
  /\ None \notin Desc
  /\ NULL \notin Chn
  BY UdmaAssumption DEF Channel, Desc, None, DMA_CHN_INVALID

(* The driver starts in the invariant. *)
LEMMA InitInv ==
  ASSUME Init
  PROVE  IInv
  <1> USE Numbers DEF Init
  <1>1. TypeOK
    BY DEF TypeOK
  <1>2. Bound /\ NoNullChannel /\ LiveIsHeld /\ BlocksLinked /\ InCall /\ RunningIsKnown
    BY DEF Bound, NoNullChannel, LiveIsHeld, Live, BlocksLinked, InCall, RunningIsKnown
  <1> QED
    BY <1>1, <1>2 DEF IInv

(* The structure of a client, and the state of a channel of the unit. *)
ChnState == [channel : Channel \cup {DMA_CHN_INVALID}, int_en : {0, 1},
             source : {"soft", "peripheral"}, desc : Desc \cup {None},
             status : {"IDLE", "BUSY", "ERROR", "STOP"}]
UnitState == [enabled : BOOLEAN, requested : BOOLEAN, at : Desc \cup {None},
              complete : BOOLEAN, error : BOOLEAN, irq : BOOLEAN, late : BOOLEAN]

(* The engine works on what is enabled or requested, that is, held. *)
LEMMA BlockDoneInv ==
  ASSUME IInv, NEW c \in Channel, BlockDone(c)
  PROVE  IInv'
  <1> DEFINE u == unit[c]
             d == desc[u.at]
             last == d.op = "single"
             v == [u EXCEPT !.requested = ~ last, !.at = IF last THEN u.at ELSE d.llp,
                            !.complete = @ \/ last \/ d.int = 1, !.irq = @ \/ d.int = 1]
  <1>1. u \in UnitState /\ u.enabled /\ u.requested
    BY DEF IInv, TypeOK, BlockDone, UnitState
  <1>2. u.at \in Desc
    BY <1>1 DEF IInv, TypeOK, BlocksLinked, UnitState
  <1>3. last \in BOOLEAN /\ (~ last => d.llp \in Desc)
    BY <1>2 DEF IInv, TypeOK, BlocksLinked
  <1>4. /\ v \in UnitState /\ v.at \in Desc /\ v.requested = ~ last
        /\ v.error = u.error /\ v.late = u.late
    BY <1>1, <1>2, <1>3 DEF UnitState
  <1>5. /\ unit' = [unit EXCEPT ![c] = v]
        /\ xfer' = [xfer EXCEPT ![c] = IF last THEN "done" ELSE @]
        /\ UNCHANGED <<chn, dma_chns, desc, pc, cur, seen, isr, scan, open>>
    BY <1>1 DEF BlockDone, client, thread, handler, IInv, TypeOK, UnitState
  <1>6. dma_chns[c] # NULL
    BY <1>1 DEF IInv, LiveIsHeld, Live
  <1>7. pc = "enable" => c # chn[cur].channel
    BY <1>1 DEF IInv, InCall
  <1> HIDE DEF u, d, last, v
  <1> USE Numbers, <1>3, <1>4, <1>5, <1>6, <1>7 DEF IInv
  <1>8. TypeOK'
    BY DEF TypeOK, UnitState
  <1>9. Bound' /\ NoNullChannel'
    BY DEF Bound, NoNullChannel
  <1>10. LiveIsHeld'
    BY DEF LiveIsHeld, Live, TypeOK
  <1>11. BlocksLinked'
    BY DEF BlocksLinked, TypeOK
  <1>12. InCall'
    BY DEF InCall, TypeOK, u
  <1>13. \A b \in Channel : xfer'[b] = "running" =>
           xfer[b] = "running" /\ (b = c => ~ last)
    BY DEF TypeOK
  <1>14. RunningIsKnown'
    <2>1. v.error = unit[c].error /\ v.requested = ~ last
      BY DEF u
    <2>2. ASSUME NEW b \in Channel, xfer'[b] = "running"
          PROVE  ~ unit'[b].error /\ (unit'[b].complete => unit'[b].requested)
      BY <2>1, <2>2, <1>13 DEF RunningIsKnown, TypeOK
    <2>3. chn[cur].channel \notin Channel => pc # "polled"
      BY DEF InCall
    <2> QED
      BY <2>2, <2>3, <1>13 DEF RunningIsKnown
  <1> QED
    BY <1>8, <1>9, <1>10, <1>11, <1>12, <1>14

(* A failing block ends the request and leaves the channel to its holder. *)
LEMMA BlockFailsInv ==
  ASSUME IInv, NEW c \in Channel, BlockFails(c)
  PROVE  IInv'
  <1> DEFINE late == pc = "release" /\ c = chn[cur].channel
             v == [unit[c] EXCEPT !.requested = FALSE, !.error = TRUE, !.late = late]
  <1>1. unit[c] \in UnitState /\ unit[c].enabled
    BY DEF IInv, TypeOK, BlockFails, UnitState
  <1>2. v \in UnitState /\ ~ v.requested /\ v.at = unit[c].at /\ v.late = late
    <2>1. late \in BOOLEAN
      OBVIOUS
    <2> HIDE DEF late
    <2>2. QED
      BY <1>1, <2>1 DEF UnitState
  <1>3. /\ unit' = [unit EXCEPT ![c] = v]
        /\ xfer' = [xfer EXCEPT ![c] = "dropped"]
        /\ UNCHANGED <<chn, dma_chns, desc, pc, cur, seen, isr, scan, open>>
    BY <1>1 DEF BlockFails, client, thread, handler, IInv, TypeOK, UnitState
  <1>4. dma_chns[c] # NULL
    BY <1>1 DEF IInv, LiveIsHeld, Live
  <1>5. pc = "enable" => c # chn[cur].channel
    BY <1>1 DEF IInv, InCall
  <1> HIDE DEF v
  <1> USE Numbers, <1>2, <1>3, <1>4, <1>5 DEF IInv
  <1>6. TypeOK'
    BY DEF TypeOK, UnitState
  <1>7. Bound' /\ NoNullChannel'
    BY DEF Bound, NoNullChannel, TypeOK
  <1>8. LiveIsHeld'
    BY DEF LiveIsHeld, Live, TypeOK
  <1>9. BlocksLinked'
    BY DEF BlocksLinked, TypeOK
  <1>10. InCall'
    BY DEF InCall, TypeOK
  <1>11. RunningIsKnown'
    BY DEF RunningIsKnown, TypeOK
  <1> QED
    BY <1>6, <1>7, <1>8, <1>9, <1>10, <1>11

(* The status of a client changes, and nothing else of its structure. *)
LEMMA StatusTyped ==
  ASSUME TypeOK, NEW x \in Chn, NEW s \in {"IDLE", "BUSY", "ERROR", "STOP"},
         chn' = [chn EXCEPT ![x].status = s]
  PROVE  /\ chn' \in [Chn -> ChnState]
         /\ chn'[x].status = s
         /\ \A y \in Chn : /\ chn'[y].channel = chn[y].channel
                           /\ chn'[y].source = chn[y].source
                           /\ y # x => chn'[y] = chn[y]
  <1> DEFINE r == [chn[x] EXCEPT !.status = s]
  <1>1. chn \in [Chn -> ChnState]
    BY DEF TypeOK, ChnState
  <1>2. /\ r \in ChnState /\ r.status = s
        /\ r.channel = chn[x].channel /\ r.source = chn[x].source
    BY <1>1 DEF ChnState
  <1>3. chn' = [chn EXCEPT ![x] = r]
    BY <1>1
  <1> HIDE DEF r
  <1> QED
    BY <1>1, <1>2, <1>3

(* A handler switches off the channel it serves, and tells its holder, or  *)
(* nobody when all that is left of it is a late error.                     *)
LEMMA ReportInv ==
  ASSUME IInv, isr # "none", scan # {}, NEW s \in {"IDLE", "ERROR"}, Report(Lowest(scan), s)
  PROVE  IInv'
  <1> DEFINE c == Lowest(scan)
             u == IF s = "ERROR" THEN ErrorClear(unit[c]) ELSE unit[c]
             v == Disabled([u EXCEPT !.irq = FALSE])
  <1>1. c \in scan /\ c \in Channel
    BY LowestIn DEF IInv, TypeOK
  <1>2. dma_chns[c] = NULL \/ dma_chns[c] \in Chn
    BY <1>1 DEF IInv, TypeOK
  <1>3. /\ unit' = [unit EXCEPT ![c] = v]
        /\ chn' = IF dma_chns[c] = NULL THEN chn ELSE [chn EXCEPT ![dma_chns[c]].status = s]
        /\ xfer' = [xfer EXCEPT ![c] = Dropped(@)]
        /\ scan' = scan \ {c}
        /\ UNCHANGED <<dma_chns, desc, pc, cur, seen, isr, open>>
    BY DEF Report, thread
  <1>4. /\ v \in UnitState
        /\ ~ v.enabled /\ ~ v.requested /\ ~ v.complete /\ v.at = unit[c].at
        /\ v.error => unit[c].error /\ v.late = unit[c].late
    <2>1. unit[c] \in UnitState
      BY <1>1 DEF IInv, TypeOK, UnitState
    <2>2. /\ u \in UnitState /\ u.at = unit[c].at
          /\ u.error => unit[c].error /\ u.late = unit[c].late
      BY <2>1 DEF ErrorClear, UnitState
    <2> HIDE DEF u
    <2>3. QED
      BY <2>2 DEF Disabled, UnitState
  <1>5. Dropped(xfer[c]) \in {"none", "done", "dropped"}
    BY <1>1 DEF IInv, TypeOK, Dropped
  <1>12. /\ chn' \in [Chn -> ChnState]
         /\ \A y \in Chn : /\ chn'[y].channel = chn[y].channel
                           /\ y # dma_chns[c] => chn'[y] = chn[y]
    <2>1. CASE dma_chns[c] = NULL
      BY <1>3, <2>1 DEF IInv, TypeOK, ChnState
    <2>2. CASE dma_chns[c] # NULL
      BY <1>2, <1>3, <2>2, StatusTyped DEF IInv
    <2> QED
      BY <2>1, <2>2
  <1> HIDE DEF c, u, v
  <1> USE Numbers, <1>1, <1>2, <1>3, <1>4, <1>5 DEF IInv
  <1>6. TypeOK'
    <2>1. chn' \in [Chn -> ChnState]
      BY <1>12
    <2>2. unit' \in [Channel -> UnitState] /\ scan' \subseteq Channel
      BY DEF TypeOK, UnitState
    <2>3. xfer' \in [Channel -> {"none", "running", "done", "dropped"}]
      BY DEF TypeOK
    <2> QED
      BY <2>1, <2>2, <2>3 DEF TypeOK, UnitState, ChnState
  <1>7. Bound' /\ NoNullChannel'
    BY <1>12 DEF Bound, NoNullChannel, TypeOK
  <1>8. LiveIsHeld'
    BY DEF LiveIsHeld, Live, TypeOK
  <1>9. BlocksLinked'
    BY DEF BlocksLinked, TypeOK
  <1>10. InCall'
    <2>1. pc # "idle" => /\ cur \in Chn /\ chn[cur].channel \in Channel
                         /\ chn'[cur].channel = chn[cur].channel
      BY <1>12 DEF InCall
    <2>2. ASSUME NEW b \in Channel
          PROVE  /\ unit'[b].at = unit[b].at
                 /\ ~ unit[b].enabled => ~ unit'[b].enabled
                 /\ unit'[b].error => unit[b].error /\ unit'[b].late = unit[b].late
      BY DEF TypeOK
    <2>3. CASE pc = "idle"
      BY <2>3 DEF InCall
    <2>4. CASE pc # "idle"
      <3> DEFINE b == chn[cur].channel
      <3>1. b \in Channel /\ chn'[cur'].channel = b
        BY <2>1, <2>4
      <3>2. /\ pc \in {"enable", "busy", "trigger"} => unit[b].at # None
            /\ pc = "enable" => ~ unit[b].enabled /\ ~ unit[b].error
            /\ pc = "release" /\ unit[b].error => unit[b].late
        BY DEF InCall
      <3> HIDE DEF b
      <3> QED
        BY <2>1, <2>2, <2>4, <3>1, <3>2 DEF InCall
    <2> QED
      BY <2>3, <2>4
  <1>11. RunningIsKnown'
    BY <1>12 DEF RunningIsKnown, TypeOK, Bound, LiveIsHeld, Live
  <1> QED
    BY <1>6, <1>7, <1>8, <1>9, <1>10, <1>11

(* A handler is entered for a latched interrupt, and returns. *)
LEMMA IsrInv ==
  ASSUME IInv, Isr
  PROVE  IInv'
  <1>1. CASE IsrEnter
    <2> USE <1>1, Numbers DEF IInv, IsrEnter, client, thread
    <2>1. TypeOK'
      BY DEF TypeOK
    <2>2. LiveIsHeld'
      BY DEF LiveIsHeld, Live
    <2>3. Bound' /\ BlocksLinked' /\ InCall' /\ RunningIsKnown'
      BY DEF Bound, BlocksLinked, InCall, RunningIsKnown
    <2>4. NoNullChannel'
      BY DEF NoNullChannel, LiveIsHeld, Live
    <2> QED
      BY <2>1, <2>2, <2>3, <2>4
  <1>2. CASE IsrStep
    BY <1>2, ReportInv
       DEF IsrStep, dmac_interrupt_completed_channel, dmac_interrupt_error_channel
  <1>3. CASE IsrLeave
    BY <1>3 DEF IsrLeave, IInv, TypeOK, Bound, NoNullChannel, LiveIsHeld, Live, BlocksLinked,
                InCall, RunningIsKnown, client, thread
  <1> QED
    BY <1>1, <1>2, <1>3 DEF Isr

(* Calls that write a descriptor or what a client is going to transfer. *)
LEMMA ConfigureInv ==
  ASSUME IInv,
         \/ \E d \in Desc : dmac_config_desc(d)
         \/ \E d, e \in Desc : dmac_desc_add_linked(d, e)
         \/ \E x \in Chn, d \in Desc : dmac_config_channel(x, d)
  PROVE  IInv'
  <1> USE Numbers DEF IInv, Idle, Runs, handler
  <1>1. CASE \E d \in Desc : dmac_config_desc(d)
    <2>1. /\ UNCHANGED <<chn, dma_chns, unit, pc, cur, seen, isr, scan, xfer, open>>
          /\ \E d \in Desc : desc' = [desc EXCEPT ![d] = [op |-> "single", int |-> 0, llp |-> None]]
      BY <1>1 DEF dmac_config_desc, client
    <2>2. TypeOK' /\ BlocksLinked'
      BY <2>1 DEF TypeOK, BlocksLinked
    <2>3. Bound' /\ NoNullChannel' /\ LiveIsHeld' /\ InCall' /\ RunningIsKnown'
      BY <2>1 DEF Bound, NoNullChannel, LiveIsHeld, Live, InCall, RunningIsKnown
    <2> QED
      BY <2>1, <2>2, <2>3
  <1>2. CASE \E d, e \in Desc : dmac_desc_add_linked(d, e)
    <2>1. PICK d \in Desc, e \in Desc :
            /\ UNCHANGED <<chn, dma_chns, unit, pc, cur, seen, isr, scan, xfer, open>>
            /\ desc' = [desc EXCEPT ![d].llp = e]
      BY <1>2 DEF dmac_desc_add_linked, client
    <2> DEFINE r == [desc[d] EXCEPT !.llp = e]
    <2>2. r \in [op : {"single", "auto"}, int : {0, 1}, llp : Desc \cup {None}] /\ r.llp # None
      BY DEF TypeOK
    <2>3. desc' = [desc EXCEPT ![d] = r]
      BY <2>1 DEF TypeOK
    <2> HIDE DEF r
    <2>4. TypeOK' /\ BlocksLinked'
      BY <2>1, <2>2, <2>3 DEF TypeOK, BlocksLinked
    <2>5. Bound' /\ NoNullChannel' /\ LiveIsHeld' /\ InCall' /\ RunningIsKnown'
      BY <2>1 DEF Bound, NoNullChannel, LiveIsHeld, Live, InCall, RunningIsKnown
    <2> QED
      BY <2>1, <2>4, <2>5
  <1>3. CASE \E x \in Chn, d \in Desc : dmac_config_channel(x, d)
    <2>1. PICK x \in Chn, d \in Desc :
            /\ UNCHANGED <<dma_chns, desc, unit, pc, cur, seen, isr, scan, xfer, open>>
            /\ chn' = [chn EXCEPT ![x].desc = d]
      BY <1>3 DEF dmac_config_channel
    <2> DEFINE r == [chn[x] EXCEPT !.desc = d]
    <2>2. r \in ChnState /\ r.channel = chn[x].channel /\ r.status = chn[x].status
      <3>1. chn[x] \in ChnState
        BY DEF TypeOK, ChnState
      <3> QED
        BY <3>1 DEF ChnState
    <2>3. chn' = [chn EXCEPT ![x] = r] /\ chn \in [Chn -> ChnState]
      BY <2>1 DEF TypeOK, ChnState
    <2> HIDE DEF r
    <2>4. /\ chn' \in [Chn -> ChnState]
          /\ \A y \in Chn : chn'[y].channel = chn[y].channel /\ chn'[y].status = chn[y].status
      BY <2>2, <2>3
    <2>5. TypeOK'
      BY <2>1, <2>4 DEF TypeOK, ChnState
    <2>6. Bound' /\ NoNullChannel' /\ LiveIsHeld' /\ BlocksLinked'
      BY <2>1, <2>4 DEF Bound, NoNullChannel, LiveIsHeld, Live, BlocksLinked
    <2>7. InCall'
      BY <2>1, <2>4, <1>3 DEF InCall, dmac_config_channel
    <2>8. RunningIsKnown'
      BY <2>1, <2>4, <1>3 DEF RunningIsKnown, dmac_config_channel, TypeOK, LiveIsHeld, Live
    <2> QED
      BY <2>1, <2>5, <2>6, <2>7, <2>8
  <1> QED
    BY <1>1, <1>2, <1>3

(* A free channel becomes its client's, who had none. *)
LEMMA ReserveInv ==
  ASSUME IInv, NEW want \in Channel \cup {DMA_CHN_ANY}, NEW x \in Chn,
         NEW s \in {"soft", "peripheral"}, dmac_reserve_channel(want, x, s)
  PROVE  IInv'
  <1> DEFINE c == Found(want)
             r == [chn[x] EXCEPT !.channel = c, !.source = s, !.status = "IDLE"]
  <1>1. c \in Channel /\ dma_chns[c] = NULL
    <2> DEFINE free == {b \in Channel : dma_chns[b] = NULL /\ want \in {b, DMA_CHN_ANY}}
    <2>1. free # {}
      BY DEF dmac_reserve_channel, Found
    <2>2. Lowest(free) \in free
      BY <2>1, LowestIn
    <2> QED
      BY <2>1, <2>2 DEF Found
  <1>2. r \in ChnState /\ r.channel = c
    <2>1. chn[x] \in ChnState
      BY DEF IInv, TypeOK, ChnState
    <2> HIDE DEF c
    <2>2. QED
      BY <1>1, <2>1 DEF ChnState
  <1>3. /\ chn' = [chn EXCEPT ![x] = r] /\ chn \in [Chn -> ChnState]
        /\ dma_chns' = [dma_chns EXCEPT ![c] = x]
        /\ chn[x].channel = DMA_CHN_INVALID /\ pc = "idle"
        /\ UNCHANGED <<desc, unit, pc, cur, seen, isr, scan, xfer, open>>
    BY DEF dmac_reserve_channel, Idle, Runs, handler, IInv, TypeOK, ChnState
  <1>4. \A b \in Channel : dma_chns[b] # x
    BY <1>3, Numbers DEF IInv, Bound
  <1> HIDE DEF c, r
  <1> USE Numbers, <1>1, <1>2, <1>3, <1>4 DEF IInv
  <1>5. TypeOK'
    BY DEF TypeOK, ChnState
  <1>6. Bound' /\ NoNullChannel'
    BY DEF Bound, NoNullChannel, TypeOK
  <1>7. LiveIsHeld'
    BY DEF LiveIsHeld, Live, TypeOK
  <1>8. BlocksLinked' /\ InCall'
    BY DEF BlocksLinked, InCall
  <1>9. RunningIsKnown'
    BY DEF RunningIsKnown, LiveIsHeld, Live, TypeOK
  <1> QED
    BY <1>5, <1>6, <1>7, <1>8, <1>9

(* dmac_start_channel up to the end of the earlier transfer.               *)
LEMMA StartInv ==
  ASSUME IInv, NEW x \in Chn, NEW callback \in Callbacks, Start(x, callback)
  PROVE  IInv'
  <1> DEFINE c == chn[x].channel
             int == IF callback THEN 1 ELSE 0
             r == [chn[x] EXCEPT !.int_en = int]
             v == [Disabled(ErrorClear(unit[c])) EXCEPT !.at = chn[x].desc]
  <1>1. c \in Channel /\ chn[x].desc \in Desc /\ int \in {0, 1}
    BY DEF Start, Valid, IInv, TypeOK
  <1>2. /\ v \in UnitState /\ v.at # None
        /\ ~ v.enabled /\ ~ v.requested /\ ~ v.complete /\ ~ v.error
    <2>1. unit[c] \in UnitState
      BY <1>1 DEF IInv, TypeOK, UnitState
    <2>2. ErrorClear(unit[c]) \in UnitState /\ ~ ErrorClear(unit[c]).error
      BY <2>1 DEF ErrorClear, UnitState
    <2>3. /\ Disabled(ErrorClear(unit[c])) \in UnitState
          /\ Disabled(ErrorClear(unit[c])).error = FALSE
          /\ Disabled(ErrorClear(unit[c])).enabled = FALSE
          /\ Disabled(ErrorClear(unit[c])).requested = FALSE
          /\ Disabled(ErrorClear(unit[c])).complete = FALSE
      BY <2>2 DEF Disabled, UnitState
    <2> QED
      BY <1>1, <2>3, Numbers DEF UnitState
  <1>3. r \in ChnState /\ r.channel = c /\ r.status = chn[x].status
    BY <1>1 DEF IInv, TypeOK, ChnState
  <1>4. /\ chn' = [chn EXCEPT ![x] = r] /\ chn \in [Chn -> ChnState]
        /\ desc' = Processed(chn[x].desc, int)
        /\ unit' = [unit EXCEPT ![c] = v]
        /\ xfer' = [xfer EXCEPT ![c] = Dropped(@)]
        /\ pc = "idle" /\ pc' = "enable" /\ cur' = x /\ open' = open \cup {x}
        /\ UNCHANGED <<dma_chns, seen, isr, scan>>
    BY DEF Start, Runs, handler, IInv, TypeOK, ChnState
  <1>5. Dropped(xfer[c]) \in {"none", "done", "dropped"}
    BY <1>1 DEF IInv, TypeOK, Dropped
  <1>6. /\ desc' \in [Desc -> [op : {"single", "auto"}, int : {0, 1}, llp : Desc \cup {None}]]
        /\ \A d \in Desc : desc'[d].op = "auto" => desc'[d].llp # None
    <2> DEFINE R == [op : {"single", "auto"}, int : {0, 1}, llp : Desc \cup {None}]
    <2>1. desc \in [Desc -> R]
      BY DEF IInv, TypeOK
    <2> HIDE DEF int, c
    <2>2. ASSUME NEW d \in Desc
          PROVE  desc'[d] \in R /\ (desc'[d].op = "auto" => desc'[d].llp # None)
      <3>1. CASE d \notin Chain(chn[x].desc)
        BY <1>4, <2>1, <3>1 DEF Processed, IInv, BlocksLinked
      <3>2. CASE d \in Chain(chn[x].desc) /\ desc[d].llp # None
        <4>1. desc'[d] = [desc[d] EXCEPT !.op = "auto"]
          BY <1>4, <3>2 DEF Processed
        <4>2. QED
          BY <2>1, <3>2, <4>1
      <3>3. CASE d \in Chain(chn[x].desc) /\ desc[d].llp = None
        <4>1. desc'[d] = [desc[d] EXCEPT !.op = "single", !.int = int]
          BY <1>4, <3>3 DEF Processed
        <4>2. int \in {0, 1} /\ desc[d] \in R
          BY <1>1, <2>1
        <4>3. QED
          BY <4>1, <4>2
      <3> QED
        BY <3>1, <3>2, <3>3
    <2>3. desc' = [d \in Desc |-> desc'[d]]
      <3> DEFINE body(e) == CASE e \notin Chain(chn[x].desc) -> desc[e]
                              [] e \in Chain(chn[x].desc) /\ desc[e].llp # None ->
                                   [desc[e] EXCEPT !.op = "auto"]
                              [] OTHER -> [desc[e] EXCEPT !.op = "single", !.int = int]
      <3>1. desc' = [e \in Desc |-> body(e)]
        BY <1>4 DEF Processed
      <3> HIDE DEF body
      <3>2. QED
        BY <3>1
    <2> QED
      BY <2>2, <2>3
  <1>7. dma_chns[c] = x
    BY <1>1 DEF IInv, Bound
  <1>8. chn'[x].channel = c /\ \A y \in Chn : /\ chn'[y].channel = chn[y].channel
                                             /\ chn'[y].status = chn[y].status
    BY <1>3, <1>4
  <1> HIDE DEF c, int, r, v
  <1> USE Numbers, <1>1, <1>2, <1>5, <1>7, <1>8 DEF IInv
  <1>9. TypeOK'
    BY <1>3, <1>4, <1>6 DEF TypeOK, ChnState, UnitState
  <1>10. Bound' /\ NoNullChannel'
    BY <1>4 DEF Bound, NoNullChannel, TypeOK
  <1>11. LiveIsHeld'
    BY <1>4 DEF LiveIsHeld, Live, TypeOK
  <1>12. BlocksLinked'
    BY <1>4, <1>6 DEF BlocksLinked, TypeOK
  <1>13. InCall'
    BY <1>4 DEF InCall, TypeOK
  <1>14. RunningIsKnown'
    BY <1>4 DEF RunningIsKnown, TypeOK, LiveIsHeld, Live
  <1> QED
    BY <1>4, <1>9, <1>10, <1>11, <1>12, <1>13, <1>14

(* ... its channel enabled ... *)
LEMMA EnableInv ==
  ASSUME IInv, Enable
  PROVE  IInv'
  <1> DEFINE c == chn[cur].channel
             v == [Enabled(unit[c]) EXCEPT !.requested = chn[cur].source = "peripheral"]
  <1>1. /\ cur \in Chn /\ c \in Channel /\ pc = "enable"
        /\ unit[c].at # None /\ ~ unit[c].error /\ dma_chns[c] = cur
    BY DEF Enable, Runs, IInv, InCall, Bound
  <1>2. v \in UnitState /\ v.at = unit[c].at /\ v.complete = FALSE /\ v.error = unit[c].error
    <2> DEFINE b == chn[cur].source = "peripheral"
    <2>1. unit[c] \in UnitState
      BY <1>1 DEF IInv, TypeOK, UnitState
    <2>2. b \in BOOLEAN
      OBVIOUS
    <2>3. /\ Enabled(unit[c]) \in UnitState /\ Enabled(unit[c]).at = unit[c].at
          /\ Enabled(unit[c]).complete = FALSE /\ Enabled(unit[c]).error = unit[c].error
      BY <2>1 DEF Enabled, UnitState
    <2> HIDE DEF b
    <2>4. QED
      BY <2>2, <2>3 DEF UnitState
  <1>3. /\ unit' = [unit EXCEPT ![c] = v]
        /\ xfer' = [xfer EXCEPT ![c] = "running"]
        /\ pc' = "busy"
        /\ UNCHANGED <<chn, dma_chns, desc, cur, seen, isr, scan, open>>
    BY DEF Enable, client, handler
  <1> HIDE DEF c, v
  <1> USE Numbers, <1>1, <1>2, <1>3 DEF IInv
  <1>4. TypeOK'
    BY DEF TypeOK, UnitState
  <1>5. Bound' /\ NoNullChannel'
    BY DEF Bound, NoNullChannel, TypeOK
  <1>6. LiveIsHeld'
    BY DEF LiveIsHeld, Live, TypeOK
  <1>7. BlocksLinked'
    BY DEF BlocksLinked, TypeOK
  <1>8. InCall'
    BY DEF InCall, TypeOK, c
  <1>9. RunningIsKnown'
    BY DEF RunningIsKnown, TypeOK, c
  <1> QED
    BY <1>4, <1>5, <1>6, <1>7, <1>8, <1>9

(* ... its client marked ... *)
LEMMA MarkBusyInv ==
  ASSUME IInv, MarkBusy
  PROVE  IInv'
  <1>1. cur \in Chn /\ chn[cur].channel \in Channel /\ pc = "busy"
    BY DEF MarkBusy, Runs, IInv, InCall
  <1>2. /\ chn' = [chn EXCEPT ![cur].status = "BUSY"] /\ pc' = "trigger"
        /\ UNCHANGED <<dma_chns, desc, unit, cur, seen, isr, scan, xfer, open>>
    BY DEF MarkBusy, handler
  <1>3. /\ chn' \in [Chn -> ChnState] /\ chn'[cur].status = "BUSY"
        /\ \A y \in Chn : /\ chn'[y].channel = chn[y].channel
                          /\ y # cur => chn'[y] = chn[y]
    BY <1>1, <1>2, StatusTyped DEF IInv
  <1> USE Numbers, <1>1, <1>2, <1>3 DEF IInv
  <1>4. TypeOK'
    BY DEF TypeOK, ChnState
  <1>5. Bound' /\ NoNullChannel' /\ LiveIsHeld' /\ BlocksLinked'
    BY DEF Bound, NoNullChannel, LiveIsHeld, Live, BlocksLinked
  <1>6. InCall'
    BY DEF InCall
  <1>7. RunningIsKnown'
    BY DEF RunningIsKnown, TypeOK, Bound, LiveIsHeld, Live
  <1> QED
    BY <1>4, <1>5, <1>6, <1>7

(* ... and its request made. *)
LEMMA TriggerInv ==
  ASSUME IInv, Trigger
  PROVE  IInv'
  <1> DEFINE c == chn[cur].channel
             v == [unit[c] EXCEPT !.requested = TRUE]
  <1>1. /\ cur \in Chn /\ c \in Channel /\ pc = "trigger"
        /\ unit[c].at # None /\ dma_chns[c] = cur
    BY DEF Trigger, Runs, IInv, InCall, Bound
  <1>2. v \in UnitState /\ v.at # None /\ v.error = unit[c].error /\ v.requested
    <2>1. unit[c] \in UnitState
      BY <1>1 DEF IInv, TypeOK, UnitState
    <2>2. QED
      BY <1>1, <2>1 DEF UnitState
  <1>3. /\ unit' = unit \/ unit' = [unit EXCEPT ![c] = v]
        /\ pc' = "idle" /\ cur' = NULL
        /\ UNCHANGED <<chn, dma_chns, desc, seen, isr, scan, xfer, open>>
    BY <1>1 DEF Trigger, client, handler, IInv, TypeOK
  <1> HIDE DEF c, v
  <1> USE Numbers, <1>1, <1>2, <1>3 DEF IInv
  <1>4. TypeOK'
    BY SMTT(60) DEF TypeOK, UnitState
  <1>5. Bound' /\ NoNullChannel'
    BY DEF Bound, NoNullChannel, TypeOK
  <1>6. LiveIsHeld'
    BY DEF LiveIsHeld, Live, TypeOK
  <1>7. BlocksLinked' /\ InCall'
    BY DEF BlocksLinked, InCall, TypeOK
  <1>8. RunningIsKnown'
    BY DEF RunningIsKnown, TypeOK
  <1> QED
    BY <1>4, <1>5, <1>6, <1>7, <1>8

(* What dmac_stop_channel and dmac_clear_channel leave in the unit.        *)
LEMMA QuietOff ==
  ASSUME NEW u \in UnitState
  PROVE  /\ Disabled(ErrorClear(u)) \in UnitState
         /\ Disabled(ErrorClear(u)).enabled = FALSE
         /\ Disabled(ErrorClear(u)).requested = FALSE
         /\ Disabled(ErrorClear(u)).complete = FALSE
         /\ Disabled(ErrorClear(u)).error = FALSE
         /\ Disabled(ErrorClear(u)).irq = u.irq
  <1>1. /\ ErrorClear(u) \in UnitState /\ ErrorClear(u).error = FALSE
        /\ ErrorClear(u).irq = u.irq
    BY DEF ErrorClear, UnitState
  <1> QED
    BY <1>1 DEF Disabled, UnitState

(* What dmac_clear_error, and the access after it, leave.                  *)
LEMMA QuietError ==
  ASSUME NEW u \in UnitState
  PROVE  /\ ErrorClear(u) \in UnitState
         /\ ErrorClear(u).error = FALSE
         /\ ErrorClear(u).at = u.at
         /\ ErrorClear(u).enabled = u.enabled
         /\ ErrorClear(u).requested = u.requested
         /\ ErrorClear(u).complete = u.complete
  BY DEF ErrorClear, UnitState
LEMMA QuietDisabled ==
  ASSUME NEW u \in UnitState
  PROVE  /\ Disabled(u) \in UnitState
         /\ Disabled(u).enabled = FALSE
         /\ Disabled(u).requested = FALSE
         /\ Disabled(u).complete = FALSE
         /\ Disabled(u).error = u.error
         /\ Disabled(u).late = u.late
  BY DEF Disabled, UnitState

(* An enabled channel that starts anew has not ended. *)
LEMMA QuietOn ==
  ASSUME NEW u \in UnitState
  PROVE  /\ Enabled(Disabled(u)) \in UnitState
         /\ Enabled(Disabled(u)).requested = FALSE
         /\ Enabled(Disabled(u)).complete = FALSE
  BY QuietDisabled DEF Enabled, UnitState

(* A held channel that a call quiets. *)
LEMMA OffInv ==
  ASSUME IInv, pc \in {"idle", "clear"}, NEW x \in Chn, NEW c \in Channel,
         chn[x].channel = c,
         NEW v \in UnitState, ~ v.requested, ~ v.complete,
         NEW s \in {"IDLE", "BUSY", "ERROR", "STOP"},
         unit' = [unit EXCEPT ![c] = v],
         xfer' = [xfer EXCEPT ![c] = Dropped(@)],
         chn' = [chn EXCEPT ![x].status = s],
         open' = open \ {x},
         pc' = "idle", cur' \in {cur, NULL},
         UNCHANGED <<dma_chns, desc, seen, isr, scan>>
  PROVE  IInv'
  <1>1. Dropped(xfer[c]) \in {"none", "done", "dropped"}
    BY DEF IInv, TypeOK, Dropped
  <1>2. dma_chns[c] = x
    BY DEF IInv, Bound
  <1>3. /\ chn' \in [Chn -> ChnState]
        /\ \A y \in Chn : /\ chn'[y].channel = chn[y].channel
                          /\ y # x => chn'[y] = chn[y]
    BY StatusTyped DEF IInv
  <1> USE Numbers, <1>1, <1>2, <1>3 DEF IInv
  <1>4. TypeOK'
    BY DEF TypeOK, ChnState, UnitState
  <1>5. Bound' /\ NoNullChannel'
    BY DEF Bound, NoNullChannel, TypeOK
  <1>6. LiveIsHeld'
    BY DEF LiveIsHeld, Live, TypeOK
  <1>7. BlocksLinked' /\ InCall'
    BY DEF BlocksLinked, InCall, TypeOK
  <1>8. RunningIsKnown'
    BY DEF RunningIsKnown, TypeOK, LiveIsHeld, Live, Bound
  <1> QED
    BY <1>4, <1>5, <1>6, <1>7, <1>8

(* dmac_stop_channel leaves its client the channel, switched off. *)
LEMMA StopInv ==
  ASSUME IInv, NEW x \in Chn, dmac_stop_channel(x)
  PROVE  IInv'
  <1> DEFINE c == chn[x].channel
             v == Disabled(ErrorClear(unit[c]))
             s == IF chn[x].status = "BUSY" THEN "STOP" ELSE chn[x].status
  <1>1. c \in Channel /\ pc = "idle" /\ UNCHANGED <<dma_chns, desc, pc, cur, seen, isr, scan>>
    BY DEF dmac_stop_channel, Idle, Runs, Valid, handler
  <1>2. unit[c] \in UnitState /\ chn \in [Chn -> ChnState]
    BY <1>1 DEF IInv, TypeOK, UnitState, ChnState
  <1>3. chn[x].status \in {"IDLE", "BUSY", "ERROR", "STOP"}
    BY <1>2 DEF ChnState
  <1>4. v \in UnitState /\ ~ v.requested /\ ~ v.complete
    BY <1>2, QuietOff
  <1>5. s \in {"IDLE", "BUSY", "ERROR", "STOP"}
    BY <1>3
  <1>6. /\ unit' = [unit EXCEPT ![c] = v]
        /\ xfer' = [xfer EXCEPT ![c] = Dropped(@)]
        /\ chn' = [chn EXCEPT ![x].status = s]
        /\ open' = open \ {x}
    BY <1>1, <1>2 DEF dmac_stop_channel, Off, IInv, TypeOK
  <1> HIDE DEF v, s
  <1> QED
    BY <1>1, <1>4, <1>5, <1>6, OffInv

(* dmac_clear_channel and dmac_release_channel first clear an error.       *)
LEMMA ClearErrorInv ==
  ASSUME IInv, NEW x \in Chn, NEW next \in {"clear", "release"}, ClearError(x, next)
  PROVE  IInv'
  <1> DEFINE c == chn[x].channel
             v == ErrorClear(unit[c])
  <1>1. /\ c \in Channel /\ pc = "idle" /\ isr = "none" /\ scan = {}
        /\ pc' = next /\ cur' = x
        /\ unit' = [unit EXCEPT ![c] = v]
        /\ UNCHANGED <<chn, dma_chns, desc, seen, isr, scan, xfer, open>>
    BY DEF ClearError, Runs, Valid, client, handler, IInv, InCall
  <1>2. dma_chns[c] = x
    BY <1>1 DEF IInv, Bound
  <1>3. /\ v \in UnitState /\ v.error = FALSE /\ v.at = unit[c].at
        /\ v.requested = unit[c].requested /\ v.complete = unit[c].complete
    <2>1. unit[c] \in UnitState
      BY <1>1 DEF IInv, TypeOK, UnitState
    <2> QED
      BY <2>1, QuietError
  <1> HIDE DEF v
  <1> USE Numbers, <1>1, <1>2, <1>3 DEF IInv
  <1>4. TypeOK'
    BY DEF TypeOK, UnitState
  <1>5. Bound' /\ NoNullChannel'
    BY DEF Bound, NoNullChannel
  <1>6. LiveIsHeld'
    BY DEF LiveIsHeld, Live, TypeOK
  <1>7. BlocksLinked' /\ InCall'
    BY DEF BlocksLinked, InCall, TypeOK
  <1>8. RunningIsKnown'
    BY DEF RunningIsKnown, TypeOK
  <1> QED
    BY <1>4, <1>5, <1>6, <1>7, <1>8

(* dmac_clear_channel leaves its client the channel, enabled anew.         *)
LEMMA ClearInv ==
  ASSUME IInv, Clear
  PROVE  IInv'
  <1> DEFINE c == chn[cur].channel
             v == Enabled(Disabled(unit[c]))
  <1>1. /\ cur \in Chn /\ c \in Channel /\ pc = "clear"
        /\ pc' = "idle" /\ cur' = NULL /\ open' = open \ {cur}
        /\ unit' = [unit EXCEPT ![c] = v]
        /\ xfer' = [xfer EXCEPT ![c] = Dropped(@)]
        /\ chn' = [chn EXCEPT ![cur].status = "IDLE"]
        /\ UNCHANGED <<dma_chns, desc, seen, isr, scan>>
    BY DEF Clear, Ends, Runs, handler, IInv, InCall
  <1>2. unit[c] \in UnitState
    BY <1>1 DEF IInv, TypeOK, UnitState
  <1>3. v \in UnitState /\ ~ v.requested /\ ~ v.complete
    BY <1>2, QuietOn
  <1> HIDE DEF v
  <1> QED
    BY <1>1, <1>3, OffInv

(* A channel is given up when no handler runs: nothing is left of it but   *)
(* the error of a transfer that failed since dmac_clear_error.             *)
LEMMA ReleaseInv ==
  ASSUME IInv, Release
  PROVE  IInv'
  <1> DEFINE x == cur
             c == chn[x].channel
             v == Disabled(unit[c])
             r == [chn[x] EXCEPT !.channel = DMA_CHN_INVALID]
  <1>1. x \in Chn /\ c \in Channel /\ pc = "release" /\ isr = "none"
    BY DEF Release, Ends, Runs, IInv, InCall
  <1>2. /\ unit[c] \in UnitState /\ chn \in [Chn -> ChnState]
        /\ unit[c].error => unit[c].late
    BY <1>1 DEF IInv, InCall, TypeOK, UnitState, ChnState
  <1>3. /\ v \in UnitState /\ ~ v.requested /\ ~ v.complete
        /\ ~ v.enabled /\ (v.error => v.late)
    BY <1>2, QuietDisabled
  <1>4. r \in ChnState /\ r.channel = DMA_CHN_INVALID
    <2>1. chn[x] \in ChnState
      BY <1>1, <1>2
    <2> HIDE DEF x
    <2>2. QED
      BY <2>1 DEF ChnState
  <1>5. /\ unit' = [unit EXCEPT ![c] = v]
        /\ xfer' = [xfer EXCEPT ![c] = "none"]
        /\ dma_chns' = [dma_chns EXCEPT ![c] = NULL]
        /\ chn' = [chn EXCEPT ![x] = r]
        /\ open' = open \ {x}
        /\ pc' = "idle" /\ cur' = NULL
        /\ UNCHANGED <<desc, seen, isr, scan>>
    BY <1>2 DEF Release, Ends, Unbind, handler
  <1>6. dma_chns[c] = x /\ scan = {}
    BY <1>1 DEF IInv, Bound, InCall
  <1>7. /\ chn' \in [Chn -> ChnState] /\ chn'[x].channel = DMA_CHN_INVALID
        /\ \A y \in Chn : y # x => chn'[y] = chn[y]
    BY <1>1, <1>2, <1>4, <1>5
  <1> HIDE DEF v, r
  <1> USE Numbers, <1>1, <1>3, <1>5, <1>6, <1>7 DEF IInv
  <1>8. TypeOK'
    BY DEF TypeOK, ChnState, UnitState
  <1>9. Bound' /\ NoNullChannel'
    BY DEF Bound, NoNullChannel, TypeOK
  <1> HIDE DEF c
  <1>10. LiveIsHeld'
    BY DEF LiveIsHeld, Live, TypeOK
  <1>11. BlocksLinked' /\ InCall'
    BY DEF BlocksLinked, InCall, TypeOK
  <1>12. RunningIsKnown'
    BY DEF RunningIsKnown, TypeOK, LiveIsHeld, Live, Bound, c
  <1> QED
    BY <1>8, <1>9, <1>10, <1>11, <1>12

(* A poll that finds an end finds that of no running transfer. *)
LEMMA PollTells ==
  ASSUME IInv, NEW c \in Channel
  PROVE  /\ dmac_wait_channel_status(c) \in {"IDLE", "BUSY", "ERROR"}
         /\ dmac_wait_channel_status(c) # "BUSY" => xfer[c] # "running"
  <1>1. unit[c].complete \in BOOLEAN /\ unit[c].error \in BOOLEAN
    BY DEF IInv, TypeOK
  <1>2. CASE ~ unit[c].complete
    BY <1>2 DEF dmac_wait_channel_status
  <1>3. CASE unit[c].complete /\ unit[c].error
    BY <1>3 DEF dmac_wait_channel_status, IInv, RunningIsKnown
  <1>4. CASE unit[c].complete /\ ~ unit[c].error
    BY <1>4 DEF dmac_wait_channel_status, IInv, RunningIsKnown
  <1> QED
    BY <1>1, <1>2, <1>3, <1>4

(* A client's status follows what a poll saw. *)
LEMMA NotedInv ==
  ASSUME IInv, NEW x \in Chn, NEW c \in Channel, chn[x].channel = c,
         NEW s \in {"IDLE", "BUSY", "ERROR"}, s # "BUSY" => xfer[c] # "running",
         chn' = [chn EXCEPT ![x].status = s],
         pc \in {"idle", "polled"}, pc' \in {"idle", "wait"}, pc = "idle" <=> pc' = "idle",
         seen' \in {"IDLE", seen}, open' \subseteq open,
         UNCHANGED <<dma_chns, desc, unit, cur, isr, scan, xfer>>
  PROVE  IInv'
  <1>1. /\ chn' \in [Chn -> ChnState] /\ chn'[x].status = s
        /\ \A y \in Chn : /\ chn'[y].channel = chn[y].channel
                          /\ y # x => chn'[y] = chn[y]
    BY StatusTyped DEF IInv
  <1>2. dma_chns[c] = x
    BY DEF IInv, Bound
  <1> USE Numbers, <1>1, <1>2 DEF IInv
  <1>3. TypeOK'
    BY DEF TypeOK, ChnState
  <1>4. Bound' /\ NoNullChannel' /\ LiveIsHeld' /\ BlocksLinked'
    BY DEF Bound, NoNullChannel, LiveIsHeld, Live, BlocksLinked
  <1>5. InCall'
    BY DEF InCall
  <1>6. RunningIsKnown'
    BY DEF RunningIsKnown, TypeOK, LiveIsHeld, Live, Bound
  <1> QED
    BY <1>3, <1>4, <1>5, <1>6

(* dmac_wait_channel and dmac_check_channel. *)
LEMMA WaitInv ==
  ASSUME IInv,
         \/ \E x \in Chn : Wait(x) \/ dmac_check_channel(x)
         \/ WaitReturns \/ Poll \/ Note
  PROVE  IInv'
  <1>1. CASE \E x \in Chn : Wait(x)
    BY <1>1, Numbers
       DEF Wait, Runs, Valid, client, handler, IInv, TypeOK, Bound, NoNullChannel,
           LiveIsHeld, Live, BlocksLinked, InCall, RunningIsKnown
  <1>2. CASE \E x \in Chn : dmac_check_channel(x)
    <2>1. PICK x \in Chn : dmac_check_channel(x)
      BY <1>2
    <2> DEFINE c == chn[x].channel
               s == dmac_wait_channel_status(c)
    <2>2. /\ c \in Channel /\ pc = "idle" /\ open' \subseteq open
          /\ UNCHANGED <<dma_chns, desc, unit, pc, cur, seen, isr, scan, xfer>>
      BY <2>1 DEF dmac_check_channel, Idle, Runs, Valid, handler
    <2>3. CASE Polled(x)
      <3>1. chn' = [chn EXCEPT ![x].status = s]
        BY <2>1, <2>3 DEF dmac_check_channel
      <3>2. s \in {"IDLE", "BUSY", "ERROR"} /\ (s # "BUSY" => xfer[c] # "running")
        BY <2>2, PollTells
      <3> HIDE DEF s
      <3> QED
        BY <2>2, <3>1, <3>2, NotedInv
    <2>4. CASE ~ Polled(x)
      <3>1. chn' = chn
        BY <2>1, <2>4 DEF dmac_check_channel
      <3> QED
        BY <2>2, <3>1
           DEF IInv, TypeOK, Bound, NoNullChannel, LiveIsHeld, Live, BlocksLinked, InCall,
               RunningIsKnown
    <2> QED
      BY <2>3, <2>4
  <1>3. CASE WaitReturns
    BY <1>3, Numbers
       DEF WaitReturns, Runs, client, handler, IInv, TypeOK, Bound, NoNullChannel,
           LiveIsHeld, Live, BlocksLinked, InCall, RunningIsKnown
  <1>4. CASE Poll
    <2> DEFINE c == chn[cur].channel
    <2>1. /\ pc = "wait" /\ cur \in Chn /\ c \in Channel /\ pc' = "polled"
          /\ seen' = dmac_wait_channel_status(c)
          /\ UNCHANGED <<chn, dma_chns, desc, unit, cur, isr, scan, xfer, open>>
      BY <1>4 DEF Poll, Runs, client, handler, IInv, InCall
    <2>2. seen' \in {"IDLE", "BUSY", "ERROR"} /\ (seen' # "BUSY" => xfer[c] # "running")
      BY <2>1, PollTells
    <2> QED
      BY <2>1, <2>2
         DEF IInv, TypeOK, Bound, NoNullChannel, LiveIsHeld, Live, BlocksLinked, InCall,
               RunningIsKnown
  <1>5. CASE Note
    <2>1. /\ pc = "polled" /\ cur \in Chn /\ chn[cur].channel \in Channel /\ pc' = "wait"
          /\ seen \in {"IDLE", "BUSY", "ERROR"} /\ seen' = "IDLE"
          /\ seen # "BUSY" => xfer[chn[cur].channel] # "running"
          /\ chn' = [chn EXCEPT ![cur].status = seen]
          /\ UNCHANGED <<dma_chns, desc, unit, cur, isr, scan, xfer, open>>
      BY <1>5 DEF Note, Runs, handler, IInv, TypeOK, InCall, RunningIsKnown
    <2> QED
      BY <2>1, NotedInv
  <1> QED
    BY <1>1, <1>2, <1>3, <1>4, <1>5

(* The invariant holds in every reachable state of the driver. *)
THEOREM Invariant == Spec => []IInv
  <1>1. IInv /\ [Next]_vars => IInv'
    <2> SUFFICES ASSUME IInv, [Next]_vars PROVE IInv'
      OBVIOUS
    <2>1. CASE CallStep
      BY <2>1, ConfigureInv, ReserveInv, StartInv, StopInv, ClearErrorInv, WaitInv
         DEF CallStep, dmac_clear_channel, dmac_release_channel
    <2>2. CASE Continue
      BY <2>2, EnableInv, MarkBusyInv, TriggerInv, ClearInv, ReleaseInv, WaitInv
         DEF Continue
    <2>3. CASE Isr
      BY <2>3, IsrInv
    <2>4. CASE \E c \in Channel : Engine(c)
      BY <2>4, BlockDoneInv, BlockFailsInv DEF Engine
    <2>5. CASE UNCHANGED vars
      BY <2>5 DEF vars, client, thread, handler, IInv, TypeOK, Bound, NoNullChannel,
                  LiveIsHeld, Live, BlocksLinked, InCall, RunningIsKnown
    <2> QED
      BY <2>1, <2>2, <2>3, <2>4, <2>5 DEF Next
  <1> QED
    BY InitInv, <1>1, PTL DEF Spec

(* The table of channels and the clients' structures name each other, and  *)
(* no handler follows the pointer of a channel that nobody holds, whatever *)
(* was latched when dmac_release_channel, dmac_stop_channel or a second    *)
(* start came (dmac_interrupt_completed_channel), unless the channel's     *)
(* transfer failed between the two register writes of dmac_release_channel.*)
THEOREM ChannelsAreHeld == Spec => []ChannelsHeld
  <1>1. IInv => ChannelsHeld
    BY DEF IInv, ChannelsHeld
  <1> QED
    BY Invariant, <1>1, PTL

(* A running transfer is marked busy once dmac_start_channel has returned, *)
(* although its completion may be served before DMA_BUSY is written.       *)
THEOREM RunningTransfersAreBusy == Spec => []RunningIsBusy
  <1>1. IInv => RunningIsBusy
    BY DEF IInv, LiveIsHeld, Live, RunningIsKnown, RunningIsBusy
  <1> QED
    BY Invariant, <1>1, PTL

(* Every variable keeps its type. *)
THEOREM Types == Spec => []TypeOK
  <1>1. IInv => TypeOK
    BY DEF IInv
  <1> QED
    BY Invariant, <1>1, PTL

(* The call that starts a transfer names its client and its channel. *)
Starting(c) == pc \in {"busy", "trigger"} /\ chn[cur].source = "soft" /\ chn[cur].channel = c

(* A step that changes one channel of the unit.  It may take channels from *)
(* the scan of a handler, and add no completion to it.                     *)
LEMMA OneChannel ==
  ASSUME TypeOK, EndIsKnown, NEW c \in Channel, NEW v \in UnitState, NEW s,
         unit' = [unit EXCEPT ![c] = v], xfer' = [xfer EXCEPT ![c] = s],
         v.complete => s = "done" /\ ~ v.requested,
         \A d \in Desc : desc'[d].llp # None => desc'[d].int = 0,
         isr' = "completed" => /\ isr = "completed" /\ scan' \subseteq scan
                               /\ c \in scan' => v.complete,
         Starting(c)' => ~ v.requested /\ ~ v.complete,
         \A b \in Channel \ {c} : Starting(b)' => Starting(b),
         pc' \in {"busy", "trigger"} => chn'[cur'].channel \in Channel
  PROVE  EndIsKnown'
  <1>1. /\ unit \in [Channel -> UnitState] /\ unit'[c] = v /\ xfer'[c] = s
        /\ \A b \in Channel \ {c} : unit'[b] = unit[b] /\ xfer'[b] = xfer[b]
    BY DEF TypeOK, UnitState
  <1>2. \A b \in Channel : unit'[b].complete => xfer'[b] = "done" /\ ~ unit'[b].requested
    BY <1>1 DEF EndIsKnown
  <1>3. isr' = "completed" => \A b \in scan' : unit'[b].complete
    BY <1>1 DEF EndIsKnown, TypeOK
  <1>4. ASSUME pc' \in {"busy", "trigger"}, chn'[cur'].source = "soft"
        PROVE  ~ unit'[chn'[cur'].channel].requested /\ ~ unit'[chn'[cur'].channel].complete
    <2>1. CASE chn'[cur'].channel = c
      BY <1>1, <1>4, <2>1 DEF Starting
    <2>2. CASE chn'[cur'].channel # c
      BY <1>1, <1>4, <2>2 DEF Starting, EndIsKnown
    <2> QED
      BY <2>1, <2>2
  <1> QED
    BY <1>2, <1>3, <1>4 DEF EndIsKnown

(* A step that leaves the unit and the transfers alone. *)
LEMMA NoChannel ==
  ASSUME EndIsKnown, UNCHANGED <<unit, xfer>>,
         \A d \in Desc : desc'[d].llp # None => desc'[d].int = 0,
         isr' = "completed" => isr = "completed" /\ scan' \subseteq scan,
         \A b \in Channel : Starting(b)' => Starting(b),
         pc' \in {"busy", "trigger"} => chn'[cur'].channel \in Channel
  PROVE  EndIsKnown'
  BY DEF EndIsKnown, Starting

(* A channel reports completion with the last block of its chain only.     *)
LEMMA BlockDoneEnd ==
  ASSUME IInv, EndIsKnown, NEW c \in Channel, BlockDone(c)
  PROVE  EndIsKnown'
  <1> DEFINE u == unit[c]
             d == desc[u.at]
             last == d.op = "single"
             v == [u EXCEPT !.requested = ~ last, !.at = IF last THEN u.at ELSE d.llp,
                            !.complete = @ \/ last \/ d.int = 1, !.irq = @ \/ d.int = 1]
  <1>1. u \in UnitState /\ u.requested
    BY DEF IInv, TypeOK, BlockDone, UnitState
  <1>2. ~ u.complete
    BY <1>1 DEF EndIsKnown
  <1>3. u.at \in Desc
    BY <1>1 DEF IInv, TypeOK, BlocksLinked, UnitState
  <1>4. last \in BOOLEAN /\ (~ last => d.llp \in Desc /\ d.llp # None)
    BY <1>3 DEF IInv, TypeOK, BlocksLinked
  <1>5. ~ last => d.int = 0
    BY <1>3, <1>4 DEF EndIsKnown
  <1>6. v \in UnitState /\ (v.complete => last) /\ v.requested = ~ last
    <2> DEFINE at == IF last THEN u.at ELSE d.llp
               complete == u.complete \/ last \/ d.int = 1
               irq == u.irq \/ d.int = 1
    <2>1. at \in Desc /\ complete \in BOOLEAN /\ irq \in BOOLEAN /\ (complete => last)
      BY <1>1, <1>2, <1>3, <1>4, <1>5 DEF UnitState
    <2>2. v = [u EXCEPT !.requested = ~ last, !.at = at, !.complete = complete, !.irq = irq]
      BY <1>1 DEF UnitState
    <2> HIDE DEF u, d, last, at, complete, irq, v
    <2> QED
      BY <1>1, <1>4, <2>1, <2>2, ZenonT(60) DEF UnitState
  <1>7. /\ unit' = [unit EXCEPT ![c] = v]
        /\ xfer' = [xfer EXCEPT ![c] = IF last THEN "done" ELSE xfer[c]]
        /\ UNCHANGED <<chn, desc, pc, cur, isr, scan>>
    BY <1>1 DEF BlockDone, client, thread, handler, IInv, TypeOK, UnitState
  <1>8. isr = "completed" => c \notin scan
    BY <1>2 DEF EndIsKnown
  <1>9. ~ Starting(c)
    BY <1>1 DEF EndIsKnown, Starting
  <1>10. pc \in {"busy", "trigger"} => chn[cur].channel \in Channel
    BY DEF IInv, InCall
  <1> HIDE DEF u, d, last, v
  <1> QED
    BY <1>4, <1>6, <1>7, <1>8, <1>9, <1>10, OneChannel DEF Starting, IInv, EndIsKnown

(* A block that fails reports no completion. *)
LEMMA BlockFailsEnd ==
  ASSUME IInv, EndIsKnown, NEW c \in Channel, BlockFails(c)
  PROVE  EndIsKnown'
  <1> DEFINE late == pc = "release" /\ c = chn[cur].channel
             v == [unit[c] EXCEPT !.requested = FALSE, !.error = TRUE, !.late = late]
  <1>1. unit[c] \in UnitState /\ unit[c].requested
    BY DEF IInv, TypeOK, BlockFails, UnitState
  <1>2. ~ unit[c].complete
    BY <1>1 DEF EndIsKnown
  <1>3. v \in UnitState /\ ~ v.requested /\ ~ v.complete
    <2>1. late \in BOOLEAN
      OBVIOUS
    <2> HIDE DEF late
    <2>2. QED
      BY <1>1, <1>2, <2>1 DEF UnitState
  <1>4. /\ unit' = [unit EXCEPT ![c] = v]
        /\ xfer' = [xfer EXCEPT ![c] = "dropped"]
        /\ UNCHANGED <<chn, desc, pc, cur, isr, scan>>
    BY <1>1 DEF BlockFails, client, thread, handler, IInv, TypeOK, UnitState
  <1>5. isr = "completed" => c \notin scan
    BY <1>2 DEF EndIsKnown
  <1>6. pc \in {"busy", "trigger"} => chn[cur].channel \in Channel
    BY DEF IInv, InCall
  <1> HIDE DEF v
  <1> QED
    BY <1>3, <1>4, <1>5, <1>6, OneChannel DEF Starting, IInv, EndIsKnown

(* A handler scans what has completed, and switches off what it serves.    *)
LEMMA IsrEnd ==
  ASSUME IInv, EndIsKnown, Isr
  PROVE  EndIsKnown'
  <1>1. pc \in {"busy", "trigger"} => cur \in Chn /\ chn[cur].channel \in Channel
    BY DEF IInv, InCall
  <1>2. CASE IsrEnter
    BY <1>2 DEF IsrEnter, EndIsKnown, client, thread
  <1>3. CASE IsrLeave
    BY <1>3 DEF IsrLeave, EndIsKnown, client, thread
  <1>4. CASE IsrStep
    <2> DEFINE c == Lowest(scan)
    <2>1. PICK s \in {"IDLE", "ERROR"} : Report(c, s)
      BY <1>4 DEF IsrStep, dmac_interrupt_completed_channel, dmac_interrupt_error_channel
    <2> DEFINE u == IF s = "ERROR" THEN ErrorClear(unit[c]) ELSE unit[c]
               v == Disabled([u EXCEPT !.irq = FALSE])
    <2>2. c \in scan /\ c \in Channel
      BY <1>4, LowestIn DEF IsrStep, IInv, TypeOK
    <2>3. dma_chns[c] = NULL \/ dma_chns[c] \in Chn
      BY <2>2 DEF IInv, TypeOK
    <2>4. /\ unit' = [unit EXCEPT ![c] = v]
          /\ chn' = IF dma_chns[c] = NULL THEN chn ELSE [chn EXCEPT ![dma_chns[c]].status = s]
          /\ xfer' = [xfer EXCEPT ![c] = Dropped(xfer[c])]
          /\ scan' = scan \ {c}
          /\ UNCHANGED <<desc, pc, cur, isr>>
      BY <2>1, <2>2 DEF Report, thread, IInv, TypeOK
    <2>5. v \in UnitState /\ ~ v.requested /\ ~ v.complete
      <3>1. unit[c] \in UnitState
        BY <2>2 DEF IInv, TypeOK, UnitState
      <3>2. u \in UnitState
        BY <3>1 DEF ErrorClear, UnitState
      <3> HIDE DEF u
      <3>3. QED
        BY <3>2 DEF Disabled, UnitState
    <2>6. \A y \in Chn : chn'[y].channel = chn[y].channel /\ chn'[y].source = chn[y].source
      BY <2>3, <2>4, StatusTyped DEF IInv
    <2> HIDE DEF c, u, v
    <2> QED
      BY <1>1, <2>2, <2>4, <2>5, <2>6, OneChannel, ZenonT(60) DEF Starting, IInv, EndIsKnown
  <1> QED
    BY <1>2, <1>3, <1>4 DEF Isr

(* The calls that write descriptors leave interrupt bits on last ones only.*)
LEMMA ConfigureEnd ==
  ASSUME IInv, EndIsKnown,
         \/ \E d \in Desc : dmac_config_desc(d)
         \/ \E d, e \in Desc : dmac_desc_add_linked(d, e)
         \/ \E x \in Chn, d \in Desc : dmac_config_channel(x, d)
         \/ \E want \in Channel \cup {DMA_CHN_ANY}, x \in Chn, s \in {"soft", "peripheral"} :
              dmac_reserve_channel(want, x, s)
  PROVE  EndIsKnown'
  <1>1. /\ pc = "idle" /\ pc' = pc
        /\ UNCHANGED <<unit, xfer, isr, scan>>
    BY DEF dmac_config_desc, dmac_desc_add_linked, dmac_config_channel, dmac_reserve_channel,
           Idle, Runs, handler
  <1>2. \A d \in Desc : desc'[d].llp # None => desc'[d].int = 0
    <2>1. CASE \E d \in Desc : dmac_config_desc(d)
      BY <2>1 DEF dmac_config_desc, IInv, TypeOK, EndIsKnown
    <2>2. CASE \E d, e \in Desc : dmac_desc_add_linked(d, e)
      <3>1. PICK d \in Desc, e \in Desc :
              desc[d].int = 0 /\ desc' = [desc EXCEPT ![d].llp = e]
        BY <2>2 DEF dmac_desc_add_linked
      <3> DEFINE r == [desc[d] EXCEPT !.llp = e]
      <3>2. r.int = 0
        BY <3>1 DEF IInv, TypeOK
      <3>3. desc' = [desc EXCEPT ![d] = r]
        BY <3>1 DEF IInv, TypeOK
      <3> HIDE DEF r
      <3> QED
        BY <3>2, <3>3 DEF IInv, TypeOK, EndIsKnown
    <2>3. CASE UNCHANGED desc
      BY <2>3 DEF EndIsKnown
    <2> QED
      BY <2>1, <2>2, <2>3 DEF dmac_config_channel, dmac_reserve_channel
  <1> QED
    BY <1>1, <1>2, NoChannel DEF Starting

(* dmac_start_channel writes the interrupt bit of the last descriptor, and *)
(* drops what the channel had reported.                                    *)
LEMMA StartEnd ==
  ASSUME IInv, EndIsKnown, NEW x \in Chn, NEW callback \in Callbacks, Start(x, callback)
  PROVE  EndIsKnown'
  <1> DEFINE c == chn[x].channel
             int == IF callback THEN 1 ELSE 0
             w == Disabled(ErrorClear(unit[c]))
             v == [w EXCEPT !.at = chn[x].desc]
  <1>1. c \in Channel /\ chn[x].desc \in Desc /\ isr = "none"
    BY DEF Start, Runs, Valid, IInv, TypeOK
  <1>2. unit[c] \in UnitState
    BY <1>1 DEF IInv, TypeOK, UnitState
  <1>3. v \in UnitState /\ ~ v.complete
    <2>1. w \in UnitState /\ w.complete = FALSE
      BY <1>2, QuietOff
    <2> HIDE DEF w
    <2> QED
      BY <1>1, <2>1 DEF UnitState
  <1>4. /\ unit' = [unit EXCEPT ![c] = v]
        /\ xfer' = [xfer EXCEPT ![c] = Dropped(xfer[c])]
        /\ desc' = Processed(chn[x].desc, int)
        /\ pc' = "enable" /\ isr' = "none"
    BY <1>1 DEF Start, handler, IInv, TypeOK
  <1> HIDE DEF c, int, v
  <1>5. \A d \in Desc : desc'[d].llp # None => desc'[d].int = 0
    <2> DEFINE R == [op : {"single", "auto"}, int : {0, 1}, llp : Desc \cup {None}]
    <2>1. desc \in [Desc -> R]
      BY DEF IInv, TypeOK
    <2> SUFFICES ASSUME NEW d \in Desc, desc'[d].llp # None
                 PROVE  desc'[d].int = 0
      OBVIOUS
    <2>2. CASE d \notin Chain(chn[x].desc)
      <3>1. desc'[d] = desc[d]
        BY <1>4, <2>2 DEF Processed
      <3> QED
        BY <3>1 DEF EndIsKnown
    <2>3. CASE d \in Chain(chn[x].desc) /\ desc[d].llp # None
      <3>1. desc'[d] = [desc[d] EXCEPT !.op = "auto"]
        BY <1>4, <2>3 DEF Processed
      <3>2. desc'[d].int = desc[d].int
        BY <2>1, <3>1
      <3> QED
        BY <2>3, <3>2 DEF EndIsKnown
    <2>4. CASE d \in Chain(chn[x].desc) /\ desc[d].llp = None
      <3>1. desc'[d] = [desc[d] EXCEPT !.op = "single", !.int = int]
        BY <1>4, <2>4 DEF Processed
      <3>2. desc'[d].llp = desc[d].llp
        BY <2>1, <3>1
      <3> QED
        BY <2>4, <3>2
    <2> QED
      BY <2>2, <2>3, <2>4
  <1> QED
    BY <1>1, <1>3, <1>4, <1>5, OneChannel DEF Starting, IInv

(* The enabled channel has reported nothing, and is requested by its       *)
(* peripheral or by the last step of the call.                             *)
LEMMA ContinueEnd ==
  ASSUME IInv, EndIsKnown, Enable \/ MarkBusy \/ Trigger
  PROVE  EndIsKnown'
  <1> DEFINE c == chn[cur].channel
  <1>1. /\ cur \in Chn /\ c \in Channel /\ pc \in {"enable", "busy", "trigger"}
        /\ isr = "none" /\ UNCHANGED <<desc, isr>>
    BY DEF Enable, MarkBusy, Trigger, Runs, IInv, InCall, handler, client
  <1>2. unit[c] \in UnitState
    BY <1>1 DEF IInv, TypeOK, UnitState
  <1>3. CASE Enable
    <2> DEFINE on == Enabled(unit[c])
               ask == chn[cur].source = "peripheral"
               v == [on EXCEPT !.requested = ask]
    <2>1. v \in UnitState /\ ~ v.complete /\ v.requested = ask
      <3>1. on \in UnitState /\ on.complete = FALSE
        BY <1>2 DEF Enabled, UnitState
      <3>2. ask \in BOOLEAN
        OBVIOUS
      <3> HIDE DEF on, ask
      <3> QED
        BY <3>1, <3>2 DEF UnitState
    <2>2. /\ unit' = [unit EXCEPT ![c] = v]
          /\ xfer' = [xfer EXCEPT ![c] = "running"]
          /\ UNCHANGED <<chn, cur>>
      BY <1>3 DEF Enable, client
    <2> HIDE DEF v
    <2> QED
      BY <1>1, <2>1, <2>2, OneChannel DEF Starting, IInv, EndIsKnown
  <1>4. CASE MarkBusy
    <2>1. /\ chn' = [chn EXCEPT ![cur].status = "BUSY"] /\ pc = "busy"
          /\ UNCHANGED <<unit, xfer, cur>>
      BY <1>4 DEF MarkBusy, Runs
    <2>2. \A y \in Chn : chn'[y].channel = chn[y].channel /\ chn'[y].source = chn[y].source
      BY <1>1, <2>1, StatusTyped DEF IInv
    <2> QED
      BY <1>1, <2>1, <2>2, NoChannel DEF Starting, EndIsKnown
  <1>5. CASE Trigger /\ chn[cur].source = "soft"
    <2> DEFINE v == [unit[c] EXCEPT !.requested = TRUE]
    <2>1. pc = "trigger" /\ ~ unit[c].complete
      BY <1>5 DEF Trigger, Runs, EndIsKnown
    <2>2. v \in UnitState /\ ~ v.complete
      BY <1>2, <2>1 DEF UnitState
    <2>3. /\ unit' = [unit EXCEPT ![c] = v]
          /\ xfer' = [xfer EXCEPT ![c] = xfer[c]]
          /\ pc' = "idle"
      BY <1>1, <1>5 DEF Trigger, IInv, TypeOK
    <2> HIDE DEF v
    <2> QED
      BY <1>1, <2>2, <2>3, OneChannel DEF Starting, IInv, EndIsKnown
  <1>6. CASE Trigger /\ chn[cur].source # "soft"
    BY <1>1, <1>6, NoChannel DEF Trigger, Starting, EndIsKnown
  <1> QED
    BY <1>3, <1>4, <1>5, <1>6

(* The calls between transfers quiet a channel. *)
LEMMA QuietEnd ==
  ASSUME IInv, EndIsKnown, (\E x \in Chn : dmac_stop_channel(x)) \/ Clear \/ Release
  PROVE  EndIsKnown'
  <1>1. PICK x \in Chn : dmac_stop_channel(x) \/ (x = cur /\ (Clear \/ Release))
    BY DEF Clear, Release, Ends, Runs, IInv, InCall
  <1> DEFINE c == chn[x].channel
             off == Disabled(ErrorClear(unit[c]))
             end == Disabled(unit[c])
             on == Enabled(end)
  <1>2. /\ c \in Channel /\ pc' = "idle" /\ isr' = "none" /\ UNCHANGED desc
    BY <1>1 DEF dmac_stop_channel, Clear, Release, Ends, Idle, Runs, Valid, handler, IInv, InCall
  <1>3. unit[c] \in UnitState
    BY <1>2 DEF IInv, TypeOK, UnitState
  <1>4. /\ off \in UnitState /\ ~ off.complete
        /\ end \in UnitState /\ ~ end.complete
        /\ on \in UnitState /\ ~ on.complete
    BY <1>3, QuietOff, QuietDisabled, QuietOn
  <1>5. PICK v \in {off, end, on}, s \in {"none", Dropped(xfer[c])} :
          unit' = [unit EXCEPT ![c] = v] /\ xfer' = [xfer EXCEPT ![c] = s]
    BY <1>1, <1>2 DEF dmac_stop_channel, Clear, Release, Off, IInv, TypeOK
  <1> HIDE DEF c, off, end, on
  <1> QED
    BY <1>2, <1>4, <1>5, OneChannel DEF Starting, IInv, EndIsKnown

(* Clearing an error leaves what a channel reports. *)
LEMMA ClearErrorEnd ==
  ASSUME IInv, EndIsKnown, NEW x \in Chn, NEW next \in {"clear", "release"},
         ClearError(x, next)
  PROVE  EndIsKnown'
  <1> DEFINE c == chn[x].channel
             v == ErrorClear(unit[c])
  <1>1. /\ c \in Channel /\ pc' = next /\ isr' = "none" /\ UNCHANGED <<desc, xfer>>
        /\ unit' = [unit EXCEPT ![c] = v]
    BY DEF ClearError, Runs, Valid, client, handler
  <1>2. v \in UnitState /\ (v.complete => xfer[c] = "done" /\ ~ v.requested)
    <2>1. unit[c] \in UnitState
      BY <1>1 DEF IInv, TypeOK, UnitState
    <2> QED
      BY <1>1, <2>1, QuietError DEF EndIsKnown
  <1>3. xfer' = [xfer EXCEPT ![c] = xfer[c]]
    BY <1>1 DEF IInv, TypeOK
  <1> HIDE DEF c, v
  <1> QED
    BY <1>1, <1>2, <1>3, OneChannel DEF Starting, IInv, EndIsKnown

(* Asking about a transfer changes nothing of it. *)
LEMMA WaitEnd ==
  ASSUME IInv, EndIsKnown,
         \/ \E x \in Chn : Wait(x) \/ dmac_check_channel(x)
         \/ WaitReturns \/ Poll \/ Note
  PROVE  EndIsKnown'
  <1>1. pc' \notin {"busy", "trigger"} /\ UNCHANGED <<unit, desc, xfer, isr, scan>>
    BY DEF Wait, dmac_check_channel, WaitReturns, Poll, Note, Idle, Runs, client, handler
  <1> QED
    BY <1>1, NoChannel DEF Starting, EndIsKnown

(* Completion is known for what it is in every reachable state. *)
THEOREM EndsAreKnown == Spec => []EndIsKnown
  <1>1. Init => EndIsKnown
    BY DEF Init, EndIsKnown
  <1>2. IInv /\ EndIsKnown /\ [Next]_vars => EndIsKnown'
    <2> SUFFICES ASSUME IInv, EndIsKnown, [Next]_vars PROVE EndIsKnown'
      OBVIOUS
    <2>1. CASE CallStep
      BY <2>1, ConfigureEnd, StartEnd, QuietEnd, ClearErrorEnd, WaitEnd
         DEF CallStep, dmac_clear_channel, dmac_release_channel
    <2>2. CASE Continue
      BY <2>2, ContinueEnd, QuietEnd, WaitEnd DEF Continue
    <2>3. CASE Isr
      BY <2>3, IsrEnd
    <2>4. CASE \E c \in Channel : Engine(c)
      BY <2>4, BlockDoneEnd, BlockFailsEnd DEF Engine
    <2>5. CASE UNCHANGED vars
      BY <2>5 DEF vars, EndIsKnown, client, thread, handler
    <2> QED
      BY <2>1, <2>2, <2>3, <2>4, <2>5 DEF Next
  <1> QED
    BY Invariant, <1>1, <1>2, PTL DEF Spec

(* Whoever is told of the end of a transfer, by a completed callback or by *)
(* the return of dmac_wait_channel, is told of one that has ended: a       *)
(* callback, of one that moved all its blocks.                             *)
THEOREM EndsMeanDone == Spec => EndMeansDone
  <1>1. ASSUME IInv, EndIsKnown, [Next]_vars
        PROVE  [\A x \in Chn : /\ isr = "completed" /\ scan # {}
                               /\ x = dma_chns[Lowest(scan)] /\ chn'[x].status = "IDLE"
                               => xfer[Lowest(scan)] = "done"]_vars
    <2>1. scan # {} => Lowest(scan) \in scan /\ Lowest(scan) \in Channel
      BY <1>1, LowestIn DEF IInv, TypeOK
    <2> QED
      BY <1>1, <2>1 DEF EndIsKnown
  <1>2. ASSUME IInv, EndIsKnown, [Next]_vars
        PROVE  [pc = "wait" /\ pc' = "idle" => xfer[chn[cur].channel] # "running"]_vars
    <2> SUFFICES ASSUME pc = "wait", pc' = "idle"
                 PROVE  xfer[chn[cur].channel] # "running"
      OBVIOUS
    <2> DEFINE c == chn[cur].channel
    <2>1. cur \in Chn /\ c \in Channel /\ dma_chns[c] = cur
      BY <1>2 DEF IInv, InCall, Bound
    <2>2. chn[cur].status # "BUSY"
      <3>1. CASE Isr \/ \E b \in Channel : Engine(b)
        BY <3>1 DEF Isr, IsrEnter, IsrStep, IsrLeave, dmac_interrupt_completed_channel,
                    dmac_interrupt_error_channel, Report, Engine, BlockDone, BlockFails, thread
      <3>2. CASE CallStep
        BY <3>2 DEF CallStep, dmac_config_desc, dmac_desc_add_linked, dmac_config_channel,
                    dmac_reserve_channel, Start, dmac_stop_channel, dmac_clear_channel,
                    dmac_release_channel, ClearError, Wait, dmac_check_channel, Idle, Runs
      <3>3. CASE Continue
        BY <3>3 DEF Continue, Enable, MarkBusy, Trigger, Clear, Release, Ends, WaitReturns,
                    Poll, Note, Runs
      <3>4. CASE UNCHANGED vars
        BY <3>4 DEF vars, thread
      <3> QED
        BY <1>2, <3>1, <3>2, <3>3, <3>4 DEF Next
    <2> QED
      BY <1>2, <2>1, <2>2 DEF IInv, RunningIsKnown
  <1> QED
    BY Invariant, EndsAreKnown, <1>1, <1>2, PTL
       DEF Spec, EndMeansDone, CallbackMeansDone, WaitMeansDone
=============================================================================
