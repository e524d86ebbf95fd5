------------------------- MODULE HsdkInterruptProofs -------------------------
(***************************************************************************)
(* Proofs about the interrupt layer of the HSDK, for any interrupts of the *)
(* distribution unit, any set of edges among them, any priorities, any     *)
(* operations of the program and routines nested to any depth.             *)
(***************************************************************************)
EXTENDS HsdkInterrupt, SequenceTheorems, WellFoundedInduction, TLAPS

(* -------------------------- inductive invariant ------------------------- *)

Looking == {"status", "ack", "mode", "first"}
OfThread == {"idle", "arc", "set_mask", "gen_cirq", "read_mode", "set_mode"}
OfRoutine == {"mask", "status", "ack", "mode", "first", "in", "arc", "set_mask"}

Frames == [src : Irqs \cup {0}, i : Irqs \cup {First}, at : OfThread \cup OfRoutine,
           op : Operations \cup {"none", "done"}, k : Irqs \cup {First},
           due : BOOLEAN, told : BOOLEAN, stale : BOOLEAN]
States == [client : SUBSET Operations, pri : [Irqs -> Nat], arc : SUBSET Irqs, mask : SUBSET Irqs,
           edge : SUBSET Irqs, pend : SUBSET Irqs, line : SUBSET Irqs, contexts : Seq(Frames),
           lock : Nat, locked : BOOLEAN, owe : SUBSET Irqs, masked : SUBSET Irqs,
           raced : SUBSET Irqs, stuck : BOOLEAN]

(* Where a context can be, and what it can be doing there.                 *)
Place(n, f) ==
  /\ f.at \in IF n = 1 THEN OfThread ELSE OfRoutine
  /\ n > 1 => f.src \in Irqs /\ f.i \in Irqs /\ f.op # "enable"
  /\ f.at \in {"arc", "set_mask"} <=> f.op \in {"enable", "disable"}
  /\ f.at \in {"arc", "set_mask", "gen_cirq", "read_mode", "set_mode"} => f.k \in Irqs
  /\ f.at = "gen_cirq" => f.k \in EdgeIrqs
  /\ f.at \in {"status", "ack"} => f.i \in EdgeIrqs
  /\ f.at \in {"mode", "first"} => f.i \notin EdgeIrqs
Placed == top >= 1 /\ \A n \in 1 .. top : Place(n, hs.contexts[n])

(* What the unit shows is owed: an edge latched, and a level asserted.     *)
WiredIn(h) == /\ EdgeIrqs \subseteq h.edge
              /\ h.pend \cap EdgeIrqs \subseteq h.owe /\ h.pend \subseteq h.edge
              /\ h.line \subseteq h.owe \ EdgeIrqs
Wired == WiredIn(hs)

(* What a routine has read of its interrupt still holds, unless another    *)
(* routine has run since.                                                  *)
Look(n, f) == f.at \in Looking =>
  f.stale \/ (n = top /\ f.i \notin hs.mask /\ (f.at = "ack" => f.i \in hs.pend))
Looked == \A n \in 1 .. top : Look(n, hs.contexts[n])

(* A handler that runs was called as it should be.                         *)
Run(n, f) == n > 1 /\ f.at \in {"in", "arc", "set_mask"} =>
  /\ f.due \/ f.stale \/ f.i \in hs.edge \ EdgeIrqs
  /\ f.told \/ f.stale
Called == \A n \in 1 .. top : Run(n, hs.contexts[n])

(* An interrupt that was disabled once is not unmasked again but by an     *)
(* int_enable that has enabled it at the core, or that a routine cut.      *)
Known(k) == k \in hs.arc \/ k \in hs.raced \/ Disabling(k)
Unmasked ==
  /\ \A k \in hs.masked \ hs.mask : Known(k)
  /\ hs.contexts[1].op = "enable" /\ hs.contexts[1].at = "set_mask" => Known(hs.contexts[1].k)

(* The lock is held in a command, and who was entered meanwhile spins.     *)
Held == /\ hs.lock # 0 => hs.lock <= top /\ hs.contexts[hs.lock].at \in Commands
        /\ hs.lock # 0 => \A n \in 1 .. top : n > hs.lock => hs.contexts[n].at = "mask"
        /\ hs.stuck <=> hs.lock # 0 /\ hs.lock < top

HInv == hs \in States /\ Placed /\ Wired /\ Looked /\ Called /\ Unmasked /\ Held

(* -------------------------------- contexts ------------------------------ *)

(* A set of numbers that is not empty has a lowest one.                    *)
Less == {p \in Nat \X Nat : p[1] < p[2]}
LEMMA LessWellFounded == IsWellFoundedOn(Less, Nat)
  <1>1. Less = OpToRel(<, Nat)
    BY DEF Less, OpToRel
  <1> QED
    BY <1>1, NatLessThanWellFounded

LEMMA LowestIs ==
  ASSUME NEW S \in SUBSET Nat, S # {}
  PROVE  \E k \in S : \A j \in S : k <= j
  <1>1. PICK k \in S : \A j \in S : <<j, k>> \notin Less
    BY WFMin, LessWellFounded
  <1>2. \A j \in S : ~ (j < k)
    BY <1>1 DEF Less
  <1> QED
    BY <1>2

LEMMA FirstIs ==
  ASSUME HsdkConstants, NEW j \in Irqs
  PROVE  First \in Irqs
  BY LowestIs DEF First, HsdkConstants

LEMMA NextIs ==
  ASSUME HsdkConstants, NEW i \in Irqs, i # Last
  PROVE  After(i) \in Irqs
  <1>1. Irqs \in SUBSET Nat
    BY DEF HsdkConstants
  <1>2. ASSUME \A j \in Irqs : ~ j > i PROVE FALSE
    <2>1. \A j \in Irqs : i >= j
      <3> SUFFICES ASSUME NEW j \in Irqs PROVE i >= j
        OBVIOUS
      <3>1. i \in Nat /\ j \in Nat /\ ~ (j > i)
        BY <1>1, <1>2
      <3> QED
        BY <3>1
    <2>2. Last \in Irqs /\ \A j \in Irqs : Last >= j
      BY <2>1 DEF Last
    <2> QED
      BY <1>1, <2>1, <2>2
  <1> DEFINE above == {j \in Irqs : j > i}
  <1>3. PICK k \in above : \A j \in above : k <= j
    BY <1>1, <1>2, LowestIs
  <1> QED
    BY <1>3 DEF After

Fresh(j, i) == [Frame(j) EXCEPT !.i = i]
LEMMA NewFrame ==
  ASSUME NEW j \in Irqs \cup {0}, NEW i \in Irqs \cup {First}, NEW f, f = Fresh(j, i)
  PROVE  /\ f \in Frames /\ f.src = j /\ f.i = i /\ f.at = "mask" /\ f.op = "none" /\ f.k = First
         /\ ~ f.due /\ ~ f.told /\ ~ f.stale
  BY DEF Fresh, Frame, Frames, OfThread, OfRoutine, Operations

LEMMA ThreadIs == /\ Thread \in Frames /\ Thread.at = "idle" /\ Thread.op = "none"
  BY DEF Thread, Frame, Frames, OfThread, OfRoutine, Operations

(* What is true of the context on top of the stack. *)
LEMMA TopIs ==
  ASSUME HInv
  PROVE  /\ hs \in States /\ hs.contexts \in Seq(Frames) /\ top \in Nat \ {0}
         /\ \A n \in 1 .. top : hs.contexts[n] \in Frames
         /\ me \in Frames /\ Place(top, me) /\ Look(top, me) /\ Run(top, me)
  <1>1. hs \in States /\ hs.contexts \in Seq(Frames)
    BY DEF HInv, States
  <1>2. top \in Nat \ {0}
    BY <1>1 DEF HInv, Placed, top
  <1>3. \A n \in 1 .. top : hs.contexts[n] \in Frames
    BY <1>1 DEF top
  <1>4. top \in 1 .. top
    BY <1>2
  <1> QED
    BY <1>1, <1>2, <1>3, <1>4 DEF HInv, Placed, Looked, Called, me

Put(h, t, f) == [h EXCEPT !.contexts = [@ EXCEPT ![t] = f], !.lock = 0]
Pop(h, t) == [h EXCEPT !.contexts = SubSeq(@, 1, t - 1), !.lock = 0]
Push(h, t, c, f, s) == [h EXCEPT !.contexts = Append([@ EXCEPT ![t] = c], f), !.stuck = s]

(* The context on top goes on as f. *)
LEMMA PutIs ==
  ASSUME NEW h \in States, NEW f \in Frames, NEW t \in 1 .. Len(h.contexts),
         NEW g, g = Put(h, t, f)
  PROVE  /\ g \in States /\ Len(g.contexts) = Len(h.contexts)
         /\ \A n \in 1 .. Len(h.contexts) : g.contexts[n] = IF n = t THEN f ELSE h.contexts[n]
         /\ g.lock = 0 /\ g.arc = h.arc /\ g.mask = h.mask /\ g.edge = h.edge /\ g.pend = h.pend
         /\ g.line = h.line /\ g.owe = h.owe /\ g.masked = h.masked /\ g.raced = h.raced
         /\ g.stuck = h.stuck
  <1>1. h.contexts \in Seq(Frames)
    BY DEF States, Put
  <1>2. g.contexts = [h.contexts EXCEPT ![t] = f]
    BY DEF States, Put
  <1>3. /\ g.contexts \in Seq(Frames) /\ Len(g.contexts) = Len(h.contexts)
        /\ \A n \in 1 .. Len(h.contexts) : g.contexts[n] = IF n = t THEN f ELSE h.contexts[n]
    BY <1>1, <1>2, ExceptSeq
  <1>4. g \in States
    BY <1>3 DEF States, Put
  <1> QED
    BY <1>3, <1>4 DEF States, Put

(* A routine returns to the context under it. *)
LEMMA PopIs ==
  ASSUME NEW h \in States, NEW t \in Nat, t = Len(h.contexts), t > 1,
         NEW g, g = Pop(h, t)
  PROVE  /\ g \in States /\ Len(g.contexts) = t - 1
         /\ \A n \in 1 .. t - 1 : g.contexts[n] = h.contexts[n]
         /\ g.lock = 0 /\ g.arc = h.arc /\ g.mask = h.mask /\ g.edge = h.edge /\ g.pend = h.pend
         /\ g.line = h.line /\ g.owe = h.owe /\ g.masked = h.masked /\ g.raced = h.raced
         /\ g.stuck = h.stuck
  <1>1. h.contexts \in Seq(Frames)
    BY DEF States, Pop
  <1>2. g.contexts = SubSeq(h.contexts, 1, t - 1)
    BY DEF States, Pop
  <1>3. /\ g.contexts \in Seq(Frames) /\ Len(g.contexts) = t - 1
        /\ \A n \in 1 .. t - 1 : g.contexts[n] = h.contexts[n]
    BY <1>1, <1>2, SubSeqProperties
  <1>4. g \in States
    BY <1>3 DEF States, Pop
  <1> QED
    BY <1>3, <1>4 DEF States, Pop

(* A routine is entered over the context on top, which is now c. *)
LEMMA PushIs ==
  ASSUME NEW h \in States, NEW c \in Frames, NEW f \in Frames, NEW t \in Nat \ {0},
         t = Len(h.contexts), NEW s \in BOOLEAN,
         NEW g, g = Push(h, t, c, f, s)
  PROVE  /\ g \in States /\ Len(g.contexts) = t + 1
         /\ \A n \in 1 .. t : g.contexts[n] = IF n = t THEN c ELSE h.contexts[n]
         /\ g.contexts[t + 1] = f
         /\ g.lock = h.lock /\ g.arc = h.arc /\ g.mask = h.mask /\ g.edge = h.edge
         /\ g.pend = h.pend /\ g.line = h.line /\ g.owe = h.owe /\ g.masked = h.masked
         /\ g.raced = h.raced /\ g.stuck = s
  <1>1. h.contexts \in Seq(Frames)
    BY DEF States, Push
  <1> DEFINE e == [h.contexts EXCEPT ![t] = c]
  <1>2. /\ e \in Seq(Frames) /\ Len(e) = t
        /\ \A n \in 1 .. t : e[n] = IF n = t THEN c ELSE h.contexts[n]
    BY <1>1, ExceptSeq
  <1>3. g.contexts = Append(e, f)
    BY DEF States, Push
  <1> HIDE DEF e
  <1>4. /\ g.contexts \in Seq(Frames) /\ Len(g.contexts) = t + 1 /\ g.contexts[t + 1] = f
        /\ \A n \in 1 .. t : g.contexts[n] = e[n]
    <2>1. /\ Append(e, f) \in Seq(Frames) /\ Len(Append(e, f)) = t + 1
          /\ Append(e, f)[t + 1] = f /\ \A n \in 1 .. t : Append(e, f)[n] = e[n]
      BY <1>2, AppendProperties
    <2> QED
      BY <1>3, <2>1
  <1>5. g \in States
    BY <1>4 DEF States, Push
  <1> QED
    BY <1>2, <1>4, <1>5 DEF States, Push

(* ------------------- the context on top goes on as f -------------------- *)

Goes(f) == /\ hs' \in States /\ top' = top
           /\ \A n \in 1 .. top : hs'.contexts[n] = IF n = top THEN f ELSE hs.contexts[n]
(* What the step leaves of the words besides the contexts. *)
Gives(h) == /\ hs'.lock = 0 /\ hs'.stuck = h.stuck /\ hs'.arc = h.arc /\ hs'.mask = h.mask
            /\ hs'.edge = h.edge /\ hs'.pend = h.pend /\ hs'.line = h.line /\ hs'.owe = h.owe
            /\ hs'.masked = h.masked /\ hs'.raced = h.raced

LEMMA GoingIs ==
  ASSUME HInv, NEW h \in States, h.contexts = hs.contexts, NEW f \in Frames, Going(h, f)
  PROVE  Goes(f) /\ Gives(h)
  <1>1. top \in 1 .. Len(h.contexts) /\ Len(h.contexts) = top
    BY TopIs DEF top
  <1>2. Len(h.contexts) = top /\ hs' = Put(h, top, f)
    BY <1>1 DEF Going, Set, Put
  <1>3. /\ hs' \in States /\ Len(hs'.contexts) = Len(h.contexts)
        /\ \A n \in 1 .. Len(h.contexts) :
             hs'.contexts[n] = IF n = top THEN f ELSE h.contexts[n]
        /\ Gives(h)
    BY <1>1, <1>2, PutIs DEF Gives
  <1> QED
    BY <1>1, <1>3 DEF Goes, top

LEMMA PlacedGoes ==
  ASSUME HInv, NEW f, Goes(f), Place(top, f)
  PROVE  Placed'
  BY TopIs DEF Goes, HInv, Placed

LEMMA LookedGoes ==
  ASSUME HInv, NEW f, Goes(f),
         f.at \in Looking => f.stale \/ (f.i \notin hs'.mask /\ (f.at = "ack" => f.i \in hs'.pend))
  PROVE  Looked'
  <1>1. ASSUME NEW n \in 1 .. top PROVE Look(n, hs.contexts[n])'
    <2>1. CASE n = top
      BY <2>1 DEF Goes, Look
    <2>2. CASE n # top
      BY <2>2 DEF Goes, Look, HInv, Looked
    <2> QED
      BY <2>1, <2>2
  <1> QED
    BY <1>1 DEF Goes, Looked, Look

LEMMA CalledGoes ==
  ASSUME HInv, NEW f, Goes(f), hs.edge \subseteq hs'.edge,
         top > 1 /\ f.at \in {"in", "arc", "set_mask"} =>
           (f.due \/ f.stale \/ f.i \in hs'.edge \ EdgeIrqs) /\ (f.told \/ f.stale)
  PROVE  Called'
  <1>1. ASSUME NEW n \in 1 .. top PROVE Run(n, hs.contexts[n])'
    <2>1. CASE n = top
      BY <2>1 DEF Goes, Run
    <2>2. CASE n # top
      BY <2>2 DEF Goes, Run, HInv, Called
    <2> QED
      BY <2>1, <2>2
  <1> QED
    BY <1>1 DEF Goes, Called, Run

LEMMA HeldGoes ==
  ASSUME HInv, NEW f, Goes(f), hs.lock \in {0, top}, hs'.lock = 0, hs'.stuck = hs.stuck
  PROVE  Held'
  BY TopIs DEF Held, HInv

(* Who disables k, when the context on top goes on as f. *)
LEMMA DisablingGoes ==
  ASSUME HInv, NEW f, Goes(f), NEW k, Disabling(k),
         me.op = "disable" /\ me.k = k => f.op = "disable" /\ f.k = k
  PROVE  Disabling(k)'
  <1>1. PICK n \in 1 .. top : hs.contexts[n].op = "disable" /\ hs.contexts[n].k = k
    BY DEF Disabling
  <1>2. hs'.contexts[n].op = "disable" /\ hs'.contexts[n].k = k
    BY <1>1 DEF Goes, me
  <1> QED
    BY <1>2 DEF Disabling, Goes

(* The thread's int_enable is cut by routines only. *)
LEMMA UnmaskedGoes ==
  ASSUME HInv, NEW f, Goes(f),
         hs.arc \subseteq hs'.arc, hs.raced \subseteq hs'.raced,
         hs'.masked \ hs'.mask \subseteq hs.masked \ hs.mask,
         me.op = "disable" => f.op = "disable" /\ f.k = me.k,
         ~ (f.op = "enable" /\ f.at = "set_mask") \/ f = me
  PROVE  Unmasked'
  <1>1. ASSUME NEW k, Known(k) PROVE Known(k)'
    BY <1>1, DisablingGoes DEF Known
  <1>2. \A k \in hs'.masked \ hs'.mask : Known(k)'
    BY <1>1 DEF HInv, Unmasked
  <1>3. ASSUME hs'.contexts[1].op = "enable", hs'.contexts[1].at = "set_mask"
        PROVE  Known(hs.contexts[1].k)'
    <2>1. hs'.contexts[1] = hs.contexts[1]
      BY <1>3, TopIs DEF Goes, me
    <2>2. PICK k : k = hs.contexts[1].k
      OBVIOUS
    <2>3. Known(k)
      BY <1>3, <2>1, <2>2 DEF HInv, Unmasked
    <2>4. Known(k)'
      BY <1>1, <2>3
    <2> QED
      BY <2>1, <2>2, <2>4 DEF Known, Disabling
  <1> QED
    BY <1>2, <1>3 DEF Unmasked, Known

LEMMA Continues ==
  ASSUME HInv, NEW h \in States, h.contexts = hs.contexts, h.stuck = hs.stuck,
         NEW f \in Frames, Going(h, f), hs.lock \in {0, top}, Place(top, f), WiredIn(h),
         hs.edge \subseteq h.edge,
         f.at \in Looking => f.stale \/ (f.i \notin h.mask /\ (f.at = "ack" => f.i \in h.pend)),
         top > 1 /\ f.at \in {"in", "arc", "set_mask"} =>
           (f.due \/ f.stale \/ f.i \in h.edge \ EdgeIrqs) /\ (f.told \/ f.stale),
         hs.arc \subseteq h.arc, hs.raced \subseteq h.raced,
         h.masked \ h.mask \subseteq hs.masked \ hs.mask,
         me.op = "disable" => f.op = "disable" /\ f.k = me.k,
         ~ (f.op = "enable" /\ f.at = "set_mask")
  PROVE  HInv'
  <1>1. Goes(f) /\ Gives(h)
    BY GoingIs
  <1>2. Placed' /\ Wired'
    BY <1>1, PlacedGoes DEF Gives, Wired, WiredIn
  <1>3. Looked'
    BY <1>1, LookedGoes DEF Gives
  <1>4. Called'
    BY <1>1, CalledGoes DEF Gives
  <1>5. Unmasked'
    BY <1>1, UnmaskedGoes DEF Gives
  <1>6. Held'
    BY <1>1, HeldGoes DEF Gives
  <1> QED
    BY <1>1, <1>2, <1>3, <1>4, <1>5, <1>6 DEF HInv, Goes

(* A context that is not in a command finds the lock free. *)
LEMMA LockFree ==
  ASSUME HInv, me.at \notin Commands
  PROVE  hs.lock = 0 /\ hs.stuck = FALSE
  <1>1. hs.lock # 0 => hs.lock = top \/ hs.lock < top
    BY TopIs DEF HInv, Held, States
  <1>2. hs.lock = 0
    BY <1>1, TopIs DEF HInv, Held, Commands, me
  <1> QED
    BY <1>2 DEF HInv, Held, States

LEMMA LockMine ==
  ASSUME HInv, hs.lock \in {0, top}
  PROVE  hs.stuck = FALSE
  BY TopIs DEF HInv, Held, States

(* The loop of arc_connect_int_isr goes on with the next interrupt, or the *)
(* routine returns to the context it interrupted.                          *)
LEMMA TurnInv ==
  ASSUME HsdkConstants, HInv, NEW h \in States, h.contexts = hs.contexts, h.stuck = hs.stuck,
         me.at \in {"mask", "status", "first", "in"}, hs.lock \in {0, top}, Turn(h), WiredIn(h),
         h.edge = hs.edge, h.arc = hs.arc, h.mask = hs.mask, h.masked = hs.masked,
         h.raced = hs.raced
  PROVE  HInv'
  <1>1. top > 1 /\ me.i \in Irqs /\ me.src \in Irqs /\ me.op # "disable" /\ me.op # "enable"
    BY TopIs DEF Place, OfThread
  <1>2. CASE me.i = Last
    <2>1. Len(h.contexts) = top /\ hs' = Pop(h, top)
      BY <1>2 DEF Turn, Set, Pop, top
    <2>2. /\ hs' \in States /\ top' = top - 1
          /\ \A n \in 1 .. top - 1 : hs'.contexts[n] = hs.contexts[n]
          /\ Gives(h)
      BY <1>1, <2>1, TopIs, PopIs, SMTT(60) DEF Gives, top
    <2>3. Placed' /\ Wired'
      BY <1>1, <2>2, TopIs DEF HInv, Placed, Gives, Wired, WiredIn
    <2>4. Looked'
      BY <1>1, <2>2, TopIs DEF HInv, Looked, Look
    <2>5. Called'
      BY <1>1, <2>2, TopIs DEF HInv, Called, Run, Gives
    <2>6. Unmasked'
      <3>1. ASSUME NEW k, Disabling(k) PROVE Disabling(k)'
        <4>1. PICK n \in 1 .. top : hs.contexts[n].op = "disable" /\ hs.contexts[n].k = k
          BY <3>1 DEF Disabling
        <4>2. n \in 1 .. top - 1
          BY <1>1, <4>1, TopIs DEF me
        <4> QED
          BY <2>2, <4>1, <4>2 DEF Disabling
      <3>2. ASSUME NEW k, Known(k) PROVE Known(k)'
        BY <2>2, <3>1, <3>2 DEF Known, Gives
      <3>3. hs'.contexts[1] = hs.contexts[1]
        BY <1>1, <2>2, TopIs
      <3>4. PICK k : k = hs.contexts[1].k
        OBVIOUS
      <3>5. hs'.contexts[1].op = "enable" /\ hs'.contexts[1].at = "set_mask" => Known(k)'
        BY <3>2, <3>3, <3>4 DEF HInv, Unmasked
      <3>6. \A j \in hs'.masked \ hs'.mask : Known(j)'
        BY <2>2, <3>2 DEF HInv, Unmasked, Gives
      <3> QED
        BY <3>3, <3>4, <3>5, <3>6 DEF Unmasked, Known, Disabling
    <2>7. Held'
      BY <1>1, <2>2, TopIs, LockMine DEF Held, Gives
    <2> QED
      BY <2>2, <2>3, <2>4, <2>5, <2>6, <2>7 DEF HInv
  <1>3. CASE me.i # Last
    <2>1. PICK f : f = Fresh(me.src, After(me.i))
      OBVIOUS
    <2>2. Going(h, f)
      BY <1>3, <2>1 DEF Turn, Fresh
    <2>3. After(me.i) \in Irqs
      BY <1>1, <1>3, NextIs
    <2>4. /\ f \in Frames /\ f.src = me.src /\ f.i = After(me.i) /\ f.at = "mask"
          /\ f.op = "none" /\ f.k = First
      <3>1. me.src \in Irqs \cup {0} /\ After(me.i) \in Irqs \cup {First}
        BY <1>1, <2>3
      <3>2. PICK j \in Irqs \cup {0}, i \in Irqs \cup {First} : j = me.src /\ i = After(me.i)
        BY <3>1
      <3>3. f = Fresh(j, i)
        BY <2>1, <3>2
      <3> QED
        BY <3>2, <3>3, NewFrame
    <2>5. Place(top, f)
      BY <1>1, <2>3, <2>4 DEF Place, OfRoutine
    <2> QED
      BY <1>1, <2>2, <2>4, <2>5, Continues DEF Looking
  <1> QED
    BY <1>2, <1>3

(* --------------------------- the routine's steps ------------------------ *)

LEMMA HeldInCommand ==
  ASSUME HInv, NEW at, Command(at)
  PROVE  /\ hs \in States /\ me.at = at /\ hs.lock = top /\ hs.lock \in {0, top} /\ Wired
         /\ top \in Nat \ {0} /\ me \in Frames /\ Place(top, me) /\ Look(top, me) /\ Run(top, me)
  BY TopIs DEF Command, HInv

LEMMA ReadMaskInv ==
  ASSUME HsdkConstants, HInv, ReadMask
  PROVE  HInv'
  <1>1. Command("mask")
    BY DEF ReadMask
  <1>2. CASE me.i \in hs.mask
    BY <1>1, <1>2, HeldInCommand, TurnInv DEF ReadMask, Wired
  <1>3. CASE me.i \notin hs.mask
    <2>1. PICK f : f = [me EXCEPT !.at = IF me.i \in EdgeIrqs THEN "status" ELSE "mode"]
      OBVIOUS
    <2>2. Going(hs, f)
      BY <1>3, <2>1 DEF ReadMask
    <2>3. me \in Frames
      BY <1>1, HeldInCommand
    <2>4. /\ f \in Frames /\ f.at = IF me.i \in EdgeIrqs THEN "status" ELSE "mode"
          /\ f.i = me.i /\ f.op = me.op /\ f.k = me.k /\ f.src = me.src
      BY <2>1, <2>3 DEF Frames, OfRoutine
    <2>5. Place(top, f)
      BY <1>1, <2>4, HeldInCommand DEF Place, OfRoutine, OfThread
    <2>6. f.at \notin {"in", "arc", "set_mask", "ack"} /\ me.op # "disable"
      BY <1>1, <2>4, HeldInCommand DEF Place, OfThread
    <2> QED
      BY <1>1, <1>3, <2>2, <2>4, <2>5, <2>6, HeldInCommand, Continues DEF Wired
  <1> QED
    BY <1>2, <1>3

LEMMA CheckStatusInv ==
  ASSUME HsdkConstants, HInv, CheckStatus
  PROVE  HInv'
  <1>1. Command("status")
    BY DEF CheckStatus
  <1>2. CASE me.i \notin hs.pend
    BY <1>1, <1>2, HeldInCommand, TurnInv DEF CheckStatus, Wired
  <1>3. CASE me.i \in hs.pend
    <2>1. PICK f : f = [me EXCEPT !.at = "ack"]
      OBVIOUS
    <2>2. Going(hs, f)
      BY <1>3, <2>1 DEF CheckStatus
    <2>3. me \in Frames
      BY <1>1, HeldInCommand
    <2>4. /\ f \in Frames /\ f.at = "ack" /\ f.stale = me.stale
          /\ f.i = me.i /\ f.op = me.op /\ f.k = me.k /\ f.src = me.src
      BY <2>1, <2>3 DEF Frames, OfRoutine
    <2>5. Place(top, f)
      BY <1>1, <2>4, HeldInCommand DEF Place, OfRoutine, OfThread
    <2>6. me.op # "disable"
      BY <1>1, HeldInCommand DEF Place
    <2>7. f.stale \/ (f.i \notin hs.mask /\ f.i \in hs.pend)
      BY <1>1, <1>3, <2>4, HeldInCommand DEF Look, Looking
    <2> QED
      BY <1>1, <2>2, <2>4, <2>5, <2>6, <2>7, HeldInCommand, Continues DEF Wired
  <1> QED
    BY <1>2, <1>3

LEMMA ReadModeInv ==
  ASSUME HInv, ReadMode
  PROVE  HInv'
  <1>1. Command("mode")
    BY DEF ReadMode
  <1>2. PICK f : f = [me EXCEPT !.at = "first"]
    OBVIOUS
  <1>3. Going(hs, f)
    BY <1>2 DEF ReadMode
  <1>4. me \in Frames
    BY <1>1, HeldInCommand
  <1>5. /\ f \in Frames /\ f.at = "first" /\ f.stale = me.stale
        /\ f.i = me.i /\ f.op = me.op /\ f.k = me.k /\ f.src = me.src
    BY <1>2, <1>4 DEF Frames, OfRoutine
  <1>6. Place(top, f)
    BY <1>1, <1>5, HeldInCommand DEF Place, OfRoutine, OfThread
  <1>7. me.op # "disable"
    BY <1>1, HeldInCommand DEF Place
  <1>8. f.stale \/ f.i \notin hs.mask
    BY <1>1, <1>5, HeldInCommand DEF Look, Looking
  <1> QED
    BY <1>1, <1>3, <1>5, <1>6, <1>7, <1>8, HeldInCommand, Continues DEF Wired

(* The call of the handler: it is known why the interrupt may be on.       *)
LEMMA CallingIs ==
  ASSUME HInv, me.at \in {"ack", "first"}
  PROVE  /\ Calling \in Frames /\ Calling.at = "in" /\ Calling.i = me.i /\ Calling.op = me.op
         /\ Calling.k = me.k /\ Calling.src = me.src /\ Calling.stale = me.stale
         /\ (me.i \in hs.owe => Calling.due) /\ (Calling.told \/ Calling.stale)
         /\ me.op # "disable" /\ Place(top, Calling)
  <1>1. me \in Frames
    BY TopIs
  <1>2. PICK told \in BOOLEAN :
          told = (me.i \in hs.arc \/ me.i \notin hs.masked \/ me.i \in hs.raced \/ Disabling(me.i))
    OBVIOUS
  <1>0. PICK due \in BOOLEAN : due = (me.i \in hs.owe)
    <2>1. (me.i \in hs.owe) \in BOOLEAN
      OBVIOUS
    <2> QED
      BY <2>1, Zenon
  <1>3. Calling = [me EXCEPT !.at = "in", !.due = due, !.told = told]
    BY <1>0, <1>2 DEF Calling
  <1>4. /\ Calling \in Frames /\ Calling.at = "in" /\ Calling.i = me.i /\ Calling.op = me.op
        /\ Calling.k = me.k /\ Calling.src = me.src /\ Calling.stale = me.stale
        /\ Calling.due = due /\ Calling.told = told
    BY <1>1, <1>3 DEF Frames, OfRoutine
  <1>5. me.stale \/ told
    <2>1. me.stale \/ me.i \notin hs.mask
      BY TopIs DEF Look, Looking
    <2>2. me.i \notin hs.mask => me.i \notin hs.masked \/ Known(me.i)
      BY DEF HInv, Unmasked
    <2> QED
      BY <1>2, <2>1, <2>2 DEF Known
  <1>6. me.op # "disable" /\ me.op # "enable" /\ top > 1 /\ me.i \in Irqs /\ me.src \in Irqs
    BY TopIs DEF Place, OfThread
  <1>7. Place(top, Calling)
    BY <1>4, <1>6 DEF Place, OfRoutine
  <1> QED
    BY <1>0, <1>4, <1>5, <1>6, <1>7

(* An acknowledged edge is handled by the handler that is called now.      *)
LEMMA AckInv ==
  ASSUME HInv, Ack
  PROVE  HInv'
  <1>1. Command("ack")
    BY DEF Ack
  <1>2. PICK h : h = [hs EXCEPT !.pend = @ \ {me.i}, !.owe = @ \ {me.i}]
    OBVIOUS
  <1>3. Going(h, Calling)
    BY <1>2 DEF Ack
  <1>4. /\ h \in States /\ h.contexts = hs.contexts /\ h.stuck = hs.stuck /\ h.edge = hs.edge
        /\ h.arc = hs.arc /\ h.mask = hs.mask /\ h.masked = hs.masked /\ h.raced = hs.raced
        /\ h.pend = hs.pend \ {me.i} /\ h.owe = hs.owe \ {me.i} /\ h.line = hs.line
    BY <1>1, <1>2, HeldInCommand DEF States
  <1>5. me.i \in EdgeIrqs /\ (me.stale \/ me.i \in hs.pend)
    BY <1>1, HeldInCommand DEF Place, Look, Looking
  <1>6. WiredIn(h)
    BY <1>4, <1>5 DEF WiredIn, HInv, Wired
  <1>7. me.at \in {"ack", "first"}
    BY <1>1, HeldInCommand
  <1>8. Calling.due \/ Calling.stale
    BY <1>5, <1>7, CallingIs DEF HInv, Wired, WiredIn
  <1>9. /\ Calling \in Frames /\ Place(top, Calling) /\ Calling.at \notin Looking
        /\ (Calling.told \/ Calling.stale) /\ me.op # "disable"
        /\ ~ (Calling.op = "enable" /\ Calling.at = "set_mask")
    BY <1>7, CallingIs DEF Looking
  <1> QED
    BY <1>1, <1>3, <1>4, <1>6, <1>8, <1>9, HeldInCommand, Continues

LEMMA CheckFirstInv ==
  ASSUME HsdkConstants, HInv, CheckFirst
  PROVE  HInv'
  <1>1. Command("first")
    BY DEF CheckFirst
  <1>2. CASE ~ Asserted(me.i)
    BY <1>1, <1>2, HeldInCommand, TurnInv DEF CheckFirst, Wired
  <1>3. CASE Asserted(me.i)
    <2>1. Going(hs, Calling)
      BY <1>3 DEF CheckFirst
    <2>2. me.i \notin EdgeIrqs
      BY <1>1, HeldInCommand DEF Place
    <2>3. me.at \in {"ack", "first"}
      BY <1>1, HeldInCommand
    <2>4. Calling.due \/ Calling.i \in hs.edge \ EdgeIrqs
      <3>1. me.i \in hs.owe \/ me.i \in hs.edge \ EdgeIrqs
        BY <1>3, <2>2 DEF Asserted, HInv, Wired, WiredIn
      <3> QED
        BY <2>3, <3>1, CallingIs
    <2>5. /\ Calling \in Frames /\ Place(top, Calling) /\ Calling.at \notin Looking
          /\ (Calling.told \/ Calling.stale) /\ me.op # "disable"
          /\ ~ (Calling.op = "enable" /\ Calling.at = "set_mask")
      BY <2>3, CallingIs DEF Looking
    <2> QED
      BY <1>1, <2>1, <2>4, <2>5, HeldInCommand, Continues DEF Wired
  <1> QED
    BY <1>2, <1>3

(* A handler serves the level of its device.                               *)
LEMMA HandlerReturnsInv ==
  ASSUME HsdkConstants, HInv, HandlerReturns
  PROVE  HInv'
  <1>1. me.at = "in" /\ hs.lock \in {0, top} /\ hs \in States
    BY LockFree, TopIs DEF HandlerReturns, Commands
  <1>2. PICK h : h = IF me.i \in EdgeIrqs THEN hs
                     ELSE [hs EXCEPT !.line = @ \ {me.i}, !.owe = @ \ {me.i}]
    OBVIOUS
  <1>3. Turn(h)
    BY <1>2 DEF HandlerReturns
  <1>4. /\ h \in States /\ h.contexts = hs.contexts /\ h.stuck = hs.stuck /\ h.edge = hs.edge
        /\ h.arc = hs.arc /\ h.mask = hs.mask /\ h.masked = hs.masked /\ h.raced = hs.raced
        /\ h.pend = hs.pend
        /\ \/ h.line = hs.line /\ h.owe = hs.owe
           \/ me.i \notin EdgeIrqs /\ h.line = hs.line \ {me.i} /\ h.owe = hs.owe \ {me.i}
    BY <1>1, <1>2 DEF States
  <1>5. WiredIn(h)
    BY <1>4 DEF WiredIn, HInv, Wired
  <1> QED
    BY <1>1, <1>3, <1>4, <1>5, TurnInv

LEMMA HandlerCallsInv ==
  ASSUME HInv, NEW k \in Irqs, HandlerCalls(k)
  PROVE  HInv'
  <1>0. me.at = "in" /\ me.op = "none" /\ hs.lock = 0 /\ hs.stuck = FALSE
    BY LockFree DEF HandlerCalls, Commands
  <1>1. /\ hs \in States /\ me \in Frames /\ top \in Nat \ {0} /\ hs.contexts \in Seq(Frames)
        /\ top > 1
    BY <1>0, TopIs DEF Place, OfThread
  <1>2. PICK f : f = [me EXCEPT !.op = "disable", !.k = k, !.at = "arc"]
    OBVIOUS
  <1>3. /\ f \in Frames /\ f.at = "arc" /\ f.op = "disable" /\ f.k = k /\ f.i = me.i
        /\ f.src = me.src /\ f.stale = me.stale /\ f.due = me.due /\ f.told = me.told
    BY <1>1, <1>2 DEF Frames, OfThread, Operations
  <1>4. hs' = [hs EXCEPT !.contexts = [@ EXCEPT ![top] = f], !.lock = 0]
    BY <1>0, <1>1, <1>2 DEF HandlerCalls, Set, States
  <1>5. Going(hs, f)
    BY <1>4 DEF Going, Set
  <1>6. Place(top, f)
    BY <1>0, <1>1, <1>3, TopIs DEF Place, OfRoutine
  <1>7. (me.due \/ me.stale \/ me.i \in hs.edge \ EdgeIrqs) /\ (me.told \/ me.stale)
    BY <1>0, <1>1, TopIs DEF Run
  <1> QED
    BY <1>0, <1>1, <1>3, <1>5, <1>6, <1>7, Continues DEF Looking, HInv, Wired

(* ------------------------------ calls of the API ------------------------ *)

LEMMA DoneIs ==
  ASSUME HInv, me.at \in {"set_mask", "gen_cirq", "read_mode", "set_mode"}
  PROVE  /\ Done \in Frames /\ Place(top, Done) /\ Done.at \notin Looking
         /\ Done.at # "set_mask" /\ Done.op # "enable" /\ Done.op # "disable"
         /\ top > 1 => /\ Done.due \/ Done.stale \/ Done.i \in hs.edge \ EdgeIrqs
                       /\ Done.told \/ Done.stale
         /\ me.at # "set_mask" => top = 1 /\ me.op # "disable"
  <1>1. me \in Frames /\ Place(top, me) /\ Run(top, me) /\ top \in Nat \ {0}
    BY TopIs
  <1>2. CASE top = 1
    BY <1>1, <1>2, ThreadIs DEF Done, Place, OfThread, Looking
  <1>3. CASE top # 1
    <2>1. PICK f : f = [me EXCEPT !.at = "in", !.op = "done"]
      OBVIOUS
    <2>2. /\ f \in Frames /\ f.at = "in" /\ f.op = "done" /\ f.k = me.k /\ f.i = me.i
          /\ f.src = me.src /\ f.stale = me.stale /\ f.due = me.due /\ f.told = me.told
      BY <1>1, <2>1 DEF Frames, OfRoutine
    <2>3. me.at = "set_mask" /\ top > 1
      BY <1>1, <1>3 DEF Place, OfRoutine
    <2>4. Place(top, f)
      BY <1>1, <2>2, <2>3 DEF Place, OfRoutine
    <2>5. (f.due \/ f.stale \/ f.i \in hs.edge \ EdgeIrqs) /\ (f.told \/ f.stale)
      BY <1>1, <2>2, <2>3 DEF Run
    <2>6. Done = f
      BY <1>3, <2>1 DEF Done
    <2> QED
      BY <2>2, <2>3, <2>4, <2>5, <2>6 DEF Looking
  <1> QED
    BY <1>2, <1>3

LEMMA GetLockInv ==
  ASSUME HInv, GetLock
  PROVE  HInv'
  <1>1. /\ hs \in States /\ me \in Frames /\ top \in Nat \ {0} /\ Place(top, me) /\ Look(top, me)
        /\ Run(top, me) /\ me.at \in Commands /\ hs.lock = 0 /\ hs.stuck = FALSE
    BY TopIs, LockMine DEF GetLock
  <1>2. hs' = [hs EXCEPT !.lock = top]
    BY DEF GetLock, Set
  <1>3. /\ hs' \in States /\ hs'.contexts = hs.contexts /\ hs'.lock = top /\ hs'.arc = hs.arc
        /\ hs'.mask = hs.mask /\ hs'.edge = hs.edge /\ hs'.pend = hs.pend /\ hs'.line = hs.line
        /\ hs'.owe = hs.owe /\ hs'.masked = hs.masked /\ hs'.raced = hs.raced
        /\ hs'.stuck = hs.stuck
    BY <1>1, <1>2 DEF States
  <1>4. Goes(me)
    BY <1>3 DEF Goes, top, me
  <1>5. Placed' /\ Wired' /\ Looked' /\ Called'
    BY <1>3, <1>4 DEF HInv, Placed, Wired, WiredIn, Looked, Look, Called, Run, top
  <1>6. me.op = "disable" => me.op = "disable" /\ me.k = me.k
    OBVIOUS
  <1>7. Unmasked'
    BY <1>3, <1>4, <1>6, UnmaskedGoes
  <1>8. Held'
    BY <1>1, <1>3 DEF Held, top, me
  <1> QED
    BY <1>3, <1>5, <1>7, <1>8 DEF HInv

LEMMA EventInv ==
  ASSUME HInv, Event
  PROVE  HInv'
  <1>1. PICK k \in Irqs : hs' = [hs EXCEPT !.owe = @ \cup {k},
                          !.line = IF k \in EdgeIrqs THEN @ ELSE @ \cup {k},
                          !.pend = IF k \in hs.edge THEN @ \cup {k} ELSE @]
    BY DEF Event, Set
  <1>2. hs \in States
    BY DEF HInv
  <1>3. /\ hs' \in States /\ hs'.contexts = hs.contexts /\ hs'.lock = hs.lock /\ hs'.arc = hs.arc
        /\ hs'.mask = hs.mask /\ hs'.edge = hs.edge /\ hs'.masked = hs.masked
        /\ hs'.raced = hs.raced /\ hs'.stuck = hs.stuck /\ hs'.owe = hs.owe \cup {k}
        /\ hs'.line = IF k \in EdgeIrqs THEN hs.line ELSE hs.line \cup {k}
        /\ hs'.pend = IF k \in hs.edge THEN hs.pend \cup {k} ELSE hs.pend
    BY <1>1, <1>2 DEF States
  <1>4. Goes(me)
    BY <1>3 DEF Goes, top, me
  <1>5. Placed' /\ Called' /\ Held'
    BY <1>3, <1>4 DEF HInv, Placed, Called, Run, Held, top
  <1>6. Wired'
    BY <1>3 DEF HInv, Wired, WiredIn
  <1>7. Looked'
    BY <1>3 DEF HInv, Looked, Look, top
  <1>8. Unmasked'
    BY <1>3, <1>4, UnmaskedGoes
  <1> QED
    BY <1>3, <1>5, <1>6, <1>7, <1>8 DEF HInv

LEMMA CallInv ==
  ASSUME HInv, NEW op \in Operations, NEW k \in Irqs, NEW locked \in BOOLEAN, Call(op, k, locked)
  PROVE  HInv'
  <1>1. /\ hs \in States /\ me \in Frames /\ hs.lock = 0 /\ hs.stuck = FALSE /\ me.at = "idle"
        /\ me.op # "disable" /\ top = 1 /\ op \notin {"locked", "handler"}
        /\ (op = "trigger" => k \in EdgeIrqs)
    BY TopIs, LockFree DEF Call, Commands, Place, OfRoutine
  <1>2. PICK at : at = Steps(op)
    OBVIOUS
  <1>3. /\ at \in {"arc", "gen_cirq", "read_mode"} /\ (at = "arc" <=> op \in {"enable", "disable"})
        /\ (at = "gen_cirq" <=> op = "trigger")
    BY <1>1, <1>2 DEF Steps
  <1>4. PICK f : f = [Thread EXCEPT !.op = op, !.k = k, !.at = at]
    OBVIOUS
  <1>5. f \in Frames /\ f.op = op /\ f.k = k /\ f.at = at
    BY <1>3, <1>4, ThreadIs DEF Frames, OfThread
  <1>6. hs' = [hs EXCEPT !.contexts = <<f>>, !.locked = locked]
    BY <1>2, <1>4 DEF Call, Set
  <1>7. /\ hs' \in States /\ hs'.contexts = <<f>> /\ hs'.lock = hs.lock /\ hs'.arc = hs.arc
        /\ hs'.mask = hs.mask /\ hs'.edge = hs.edge /\ hs'.masked = hs.masked
        /\ hs'.raced = hs.raced /\ hs'.stuck = hs.stuck /\ hs'.owe = hs.owe
        /\ hs'.line = hs.line /\ hs'.pend = hs.pend
    <2>1. PICK c : c = <<f>>
      OBVIOUS
    <2>2. c \in Seq(Frames)
      BY <1>5, <2>1
    <2>3. hs' = [hs EXCEPT !.contexts = c, !.locked = locked]
      BY <1>6, <2>1
    <2>4. /\ hs' \in States /\ hs'.contexts = c /\ hs'.lock = hs.lock /\ hs'.arc = hs.arc
          /\ hs'.mask = hs.mask /\ hs'.edge = hs.edge /\ hs'.masked = hs.masked
          /\ hs'.raced = hs.raced /\ hs'.stuck = hs.stuck /\ hs'.owe = hs.owe
          /\ hs'.line = hs.line /\ hs'.pend = hs.pend
      BY <1>1, <2>2, <2>3 DEF States
    <2> QED
      BY <2>1, <2>4
  <1>8. Goes(f)
    BY <1>1, <1>7 DEF Goes, top
  <1>9. Place(top, f)
    BY <1>1, <1>3, <1>5 DEF Place, OfThread
  <1>10. Placed' /\ Wired'
    BY <1>7, <1>8, <1>9, PlacedGoes DEF HInv, Wired, WiredIn
  <1>11. Looked'
    BY <1>3, <1>5, <1>8, LookedGoes DEF Looking
  <1>12. Called'
    BY <1>1, <1>7, <1>8, CalledGoes
  <1>13. Unmasked'
    BY <1>1, <1>3, <1>5, <1>7, <1>8, UnmaskedGoes
  <1>14. Held'
    BY <1>1, <1>7, <1>8, HeldGoes
  <1> QED
    BY <1>7, <1>10, <1>11, <1>12, <1>13, <1>14 DEF HInv

LEMMA ArcIntInv ==
  ASSUME HInv, ArcInt
  PROVE  HInv'
  <1>1. /\ hs \in States /\ me \in Frames /\ hs.lock = 0 /\ me.at = "arc" /\ top \in Nat \ {0}
        /\ Place(top, me) /\ Run(top, me)
    BY TopIs, LockFree DEF ArcInt, Commands
  <1>2. PICK h : h = [hs EXCEPT !.arc = IF me.op = "enable" THEN @ \cup {me.k} ELSE @ \ {me.k}]
    OBVIOUS
  <1>3. me.k \in Irqs /\ me.op \in {"enable", "disable"} /\ (top > 1 => me.op = "disable")
    BY <1>1 DEF Place
  <1>4. /\ h \in States /\ h.contexts = hs.contexts /\ h.stuck = hs.stuck /\ h.edge = hs.edge
        /\ h.mask = hs.mask /\ h.masked = hs.masked /\ h.raced = hs.raced
        /\ h.pend = hs.pend /\ h.owe = hs.owe /\ h.line = hs.line
        /\ h.arc = IF me.op = "enable" THEN hs.arc \cup {me.k} ELSE hs.arc \ {me.k}
    BY <1>1, <1>2, <1>3 DEF States
  <1>5. PICK f : f = [me EXCEPT !.at = "set_mask"]
    OBVIOUS
  <1>6. /\ f \in Frames /\ f.at = "set_mask" /\ f.op = me.op /\ f.k = me.k /\ f.i = me.i
        /\ f.src = me.src /\ f.stale = me.stale /\ f.due = me.due /\ f.told = me.told
    BY <1>1, <1>5 DEF Frames, OfThread
  <1>7. Going(h, f)
    BY <1>2, <1>5 DEF ArcInt
  <1>8. Goes(f) /\ Gives(h)
    BY <1>4, <1>6, <1>7, GoingIs
  <1>9. Place(top, f)
    BY <1>1, <1>3, <1>6 DEF Place, OfThread, OfRoutine
  <1>10. Placed' /\ Wired'
    BY <1>4, <1>8, <1>9, PlacedGoes DEF Gives, HInv, Wired, WiredIn
  <1>11. Looked'
    BY <1>6, <1>8, LookedGoes DEF Looking
  <1>12. Called'
    <2>1. top > 1 => (me.due \/ me.stale \/ me.i \in hs.edge \ EdgeIrqs) /\ (me.told \/ me.stale)
      BY <1>1 DEF Run
    <2> QED
      BY <1>4, <1>6, <1>8, <2>1, CalledGoes DEF Gives
  <1>13. Held'
    BY <1>1, <1>4, <1>8, HeldGoes DEF Gives
  <1>14. Unmasked'
    <2>1. ASSUME NEW k, Known(k) PROVE Known(k)'
      <3>1. CASE Disabling(k)
        BY <1>6, <1>8, <3>1, DisablingGoes DEF Known
      <3>2. CASE k \in hs.raced
        BY <1>4, <1>8, <3>2 DEF Known, Gives
      <3>3. CASE k \in hs.arc
        <4>1. CASE me.op = "enable" \/ k # me.k
          BY <1>4, <1>8, <3>3, <4>1 DEF Known, Gives
        <4>2. CASE me.op = "disable" /\ k = me.k
          <5>1. hs'.contexts[top].op = "disable" /\ hs'.contexts[top].k = k
            BY <1>1, <1>6, <1>8, <4>2 DEF Goes
          <5> QED
            BY <1>1, <1>8, <5>1 DEF Known, Disabling, Goes
        <4> QED
          BY <1>3, <4>1, <4>2
      <3> QED
        BY <2>1, <3>1, <3>2, <3>3 DEF Known
    <2>2. \A k \in hs'.masked \ hs'.mask : Known(k)'
      BY <1>4, <1>8, <2>1 DEF HInv, Unmasked, Gives
    <2>3. ASSUME hs'.contexts[1].op = "enable", hs'.contexts[1].at = "set_mask"
          PROVE  Known(hs.contexts[1].k)'
      <3>1. CASE top = 1
        <4>1. hs'.contexts[1] = f
          BY <1>8, <3>1 DEF Goes
        <4>2. hs'.contexts[1].k \in hs'.arc
          BY <1>4, <1>6, <1>8, <2>3, <4>1 DEF Gives
        <4> QED
          BY <4>2 DEF Known
      <3>2. CASE top # 1
        <4>1. hs'.contexts[1] = hs.contexts[1]
          BY <1>1, <1>8, <3>2 DEF Goes
        <4>2. PICK k : k = hs.contexts[1].k
          OBVIOUS
        <4>3. Known(k)
          BY <2>3, <4>1, <4>2 DEF HInv, Unmasked
        <4>4. Known(k)'
          BY <2>1, <4>3
        <4> QED
          BY <4>1, <4>2, <4>4 DEF Known, Disabling
      <3> QED
        BY <3>1, <3>2
    <2> QED
      BY <2>2, <2>3 DEF Unmasked, Known
  <1> QED
    BY <1>8, <1>10, <1>11, <1>12, <1>13, <1>14 DEF HInv, Goes

(* What int_enable unmasks is enabled at the core, or was cut; what a      *)
(* routine disables is masked, and remembered if it cuts an int_enable.    *)
LEMMA SetMaskInv ==
  ASSUME HInv, SetMask
  PROVE  HInv'
  <1>1. /\ hs \in States /\ me \in Frames /\ hs.lock = top /\ me.at = "set_mask"
        /\ top \in Nat \ {0} /\ Place(top, me)
    BY HeldInCommand DEF SetMask
  <1>2. me.k \in Irqs /\ me.op \in {"enable", "disable"} /\ (top > 1 => me.op = "disable")
    BY <1>1 DEF Place
  <1>3. PICK raced : raced = Raced(me.k)
    OBVIOUS
  <1>4. raced \subseteq hs.raced \cup {me.k} /\ \A k \in hs.raced : k # me.k => k \in raced
    BY <1>3 DEF Raced
  <1>5. raced \in SUBSET Irqs
    BY <1>1, <1>2, <1>4 DEF States
  <1>6. PICK h : h = IF me.op = "enable" THEN [hs EXCEPT !.mask = @ \ {me.k}, !.locked = FALSE]
                     ELSE [hs EXCEPT !.mask = @ \cup {me.k}, !.masked = @ \cup {me.k},
                                     !.raced = raced, !.locked = FALSE]
    OBVIOUS
  <1>7. Going(h, Done)
    BY <1>1, <1>2, <1>3, <1>6 DEF SetMask, Returns, Going, Set, States
  <1>8. /\ h \in States /\ h.contexts = hs.contexts /\ h.stuck = hs.stuck /\ h.edge = hs.edge
        /\ h.arc = hs.arc /\ h.pend = hs.pend /\ h.owe = hs.owe /\ h.line = hs.line
        /\ me.op = "enable" => /\ h.mask = hs.mask \ {me.k} /\ h.masked = hs.masked
                               /\ h.raced = hs.raced
        /\ me.op = "disable" => /\ h.mask = hs.mask \cup {me.k} /\ h.raced = raced
                                /\ h.masked = hs.masked \cup {me.k}
    BY <1>1, <1>2, <1>5, <1>6 DEF States
  <1>9. me.at \in {"set_mask", "gen_cirq", "read_mode", "set_mode"}
    BY <1>1
  <1>10. Goes(Done) /\ Gives(h)
    BY <1>7, <1>8, <1>9, DoneIs, GoingIs
  <1>11. Placed' /\ Wired'
    BY <1>8, <1>9, <1>10, DoneIs, PlacedGoes DEF Gives, HInv, Wired, WiredIn
  <1>12. Looked'
    BY <1>9, <1>10, DoneIs, LookedGoes
  <1>13. Called'
    BY <1>8, <1>9, <1>10, DoneIs, CalledGoes DEF Gives
  <1>14. Held'
    BY <1>1, <1>8, <1>10, HeldGoes DEF Gives
  <1>15. Unmasked'
    <2>1. ASSUME NEW k, k # me.k, Known(k) PROVE Known(k)'
      <3>1. k \in hs.arc \/ k \in hs.raced => Known(k)'
        BY <1>2, <1>4, <1>8, <1>10, <2>1 DEF Known, Gives
      <3>2. Disabling(k) => Disabling(k)'
        BY <1>10, <2>1, DisablingGoes
      <3> QED
        BY <2>1, <3>1, <3>2 DEF Known
    <2>2. CASE me.op = "enable"
      <3>1. top = 1
        BY <1>1, <1>2, <2>2
      <3>2. hs'.contexts[1].at # "set_mask"
        BY <1>9, <1>10, <3>1, DoneIs DEF Goes
      <3>3. PICK j : j = me.k
        OBVIOUS
      <3>4. Known(j)
        BY <1>1, <2>2, <3>1, <3>3 DEF HInv, Unmasked, me
      <3>5. Known(j)'
        <4>1. j \in hs.arc \/ j \in hs.raced => Known(j)'
          BY <1>8, <1>10, <2>2 DEF Known, Gives
        <4>2. Disabling(j) => Disabling(j)'
          BY <1>10, <2>2, DisablingGoes
        <4> QED
          BY <3>4, <4>1, <4>2 DEF Known
      <3>6. ASSUME NEW k \in hs'.masked \ hs'.mask PROVE Known(k)'
        <4>1. CASE k = j
          BY <3>5, <4>1
        <4>2. CASE k # j
          BY <1>8, <1>10, <2>1, <2>2, <3>3, <4>2 DEF HInv, Unmasked, Gives
        <4> QED
          BY <4>1, <4>2
      <3> QED
        BY <3>2, <3>6 DEF Unmasked
    <2>3. CASE me.op = "disable"
      <3>1. ASSUME NEW k \in hs'.masked \ hs'.mask PROVE Known(k)'
        BY <1>8, <1>10, <2>1, <2>3 DEF HInv, Unmasked, Gives
      <3>2. ASSUME hs'.contexts[1].op = "enable", hs'.contexts[1].at = "set_mask"
            PROVE  Known(hs.contexts[1].k)'
        <4>1. top # 1
          BY <1>9, <1>10, <3>2, DoneIs DEF Goes
        <4>2. hs'.contexts[1] = hs.contexts[1]
          BY <1>1, <1>10, <4>1 DEF Goes
        <4>3. PICK k : k = hs.contexts[1].k
          OBVIOUS
        <4>4. Known(k)
          BY <3>2, <4>2, <4>3 DEF HInv, Unmasked
        <4>5. CASE k # me.k
          <5>1. Known(k)'
            BY <2>1, <4>4, <4>5
          <5> QED
            BY <4>2, <4>3, <5>1 DEF Known, Disabling
        <4>6. CASE k = me.k
          <5>1. k \in raced
            <6>1. /\ hs.contexts[1].op = "enable" /\ hs.contexts[1].k = me.k
                  /\ hs.contexts[1].at = "set_mask"
              BY <3>2, <4>2, <4>3, <4>6
            <6>2. 1 \in 1 .. top
              BY <1>1
            <6> QED
              BY <1>3, <4>6, <6>1, <6>2 DEF Raced
          <5>2. hs'.contexts[1].k \in hs'.raced
            BY <1>8, <1>10, <2>3, <4>2, <4>3, <5>1 DEF Gives
          <5> QED
            BY <5>2 DEF Known
        <4> QED
          BY <4>5, <4>6
      <3> QED
        BY <3>1, <3>2 DEF Unmasked, Known
    <2> QED
      BY <1>2, <2>2, <2>3
  <1> QED
    BY <1>10, <1>11, <1>12, <1>13, <1>14, <1>15 DEF HInv, Goes

LEMMA GenCirqInv ==
  ASSUME HInv, GenCirq
  PROVE  HInv'
  <1>1. /\ hs \in States /\ hs.lock = top /\ me.at = "gen_cirq" /\ Place(top, me)
        /\ hs.lock \in {0, top}
    BY HeldInCommand DEF GenCirq
  <1>2. me.k \in EdgeIrqs /\ me.k \in Irqs
    BY <1>1 DEF Place
  <1>3. PICK h : h = [hs EXCEPT !.pend = @ \cup {me.k}, !.owe = @ \cup {me.k}, !.locked = FALSE]
    OBVIOUS
  <1>4. Going(h, Done)
    BY <1>1, <1>3 DEF GenCirq, Returns, Going, Set, States
  <1>5. /\ h \in States /\ h.contexts = hs.contexts /\ h.stuck = hs.stuck /\ h.edge = hs.edge
        /\ h.arc = hs.arc /\ h.mask = hs.mask /\ h.masked = hs.masked /\ h.raced = hs.raced
        /\ h.pend = hs.pend \cup {me.k} /\ h.owe = hs.owe \cup {me.k} /\ h.line = hs.line
    BY <1>1, <1>2, <1>3 DEF States
  <1>6. WiredIn(h)
    BY <1>2, <1>5 DEF WiredIn, HInv, Wired
  <1> QED
    BY <1>1, <1>4, <1>5, <1>6, DoneIs, Continues

LEMMA LevelConfigInv ==
  ASSUME HInv, LevelConfig
  PROVE  HInv'
  <1>1. /\ hs \in States /\ hs.lock = top /\ me.at = "read_mode" /\ Place(top, me)
        /\ hs.lock \in {0, top} /\ me \in Frames /\ top = 1 /\ me.op # "disable" /\ WiredIn(hs)
    BY HeldInCommand DEF LevelConfig, Place, OfRoutine, Wired
  <1>2. CASE me.op = "toedge"
    <2>1. PICK f : f = [me EXCEPT !.at = "set_mode"]
      OBVIOUS
    <2>2. /\ f \in Frames /\ f.at = "set_mode" /\ f.op = me.op /\ f.k = me.k /\ f.i = me.i
          /\ f.src = me.src
      BY <1>1, <2>1 DEF Frames, OfThread
    <2>3. Going(hs, f)
      BY <1>2, <2>1 DEF LevelConfig
    <2>4. Place(top, f)
      BY <1>1, <1>2, <2>2 DEF Place, OfThread
    <2> QED
      BY <1>1, <2>2, <2>3, <2>4, Continues DEF Looking
  <1>3. CASE me.op # "toedge"
    <2>1. PICK h : h = [hs EXCEPT !.locked = FALSE]
      OBVIOUS
    <2>2. Going(h, Done)
      BY <1>1, <1>3, <2>1 DEF LevelConfig, Returns, Going, Set, States
    <2>3. /\ h \in States /\ h.contexts = hs.contexts /\ h.stuck = hs.stuck /\ h.edge = hs.edge
          /\ h.arc = hs.arc /\ h.mask = hs.mask /\ h.masked = hs.masked /\ h.raced = hs.raced
          /\ h.pend = hs.pend /\ h.owe = hs.owe /\ h.line = hs.line
      BY <1>1, <2>1 DEF States
    <2>4. WiredIn(h)
      BY <1>1, <2>3 DEF WiredIn
    <2> QED
      BY <1>1, <2>2, <2>3, <2>4, DoneIs, Continues
  <1> QED
    BY <1>2, <1>3

LEMMA SetModeInv ==
  ASSUME HInv, SetMode
  PROVE  HInv'
  <1>1. /\ hs \in States /\ hs.lock = top /\ me.at = "set_mode" /\ Place(top, me)
        /\ hs.lock \in {0, top} /\ me.k \in Irqs
    BY HeldInCommand DEF SetMode, Place
  <1>2. PICK h : h = [hs EXCEPT !.edge = @ \cup {me.k}, !.locked = FALSE]
    OBVIOUS
  <1>3. Going(h, Done)
    BY <1>1, <1>2 DEF SetMode, Returns, Going, Set, States
  <1>4. /\ h \in States /\ h.contexts = hs.contexts /\ h.stuck = hs.stuck
        /\ h.edge = hs.edge \cup {me.k}
        /\ h.arc = hs.arc /\ h.mask = hs.mask /\ h.masked = hs.masked /\ h.raced = hs.raced
        /\ h.pend = hs.pend /\ h.owe = hs.owe /\ h.line = hs.line
    BY <1>1, <1>2 DEF States
  <1>5. WiredIn(h)
    BY <1>4 DEF WiredIn, HInv, Wired
  <1>6. hs.edge \subseteq h.edge
    BY <1>4
  <1> QED
    BY <1>1, <1>3, <1>4, <1>5, <1>6, DoneIs, Continues

(* --------------------------- entering a routine ------------------------- *)

LEMMA CutIs ==
  ASSUME HInv
  PROVE  /\ Cut \in Frames /\ Cut.at = me.at /\ Cut.op = me.op /\ Cut.k = me.k /\ Cut.i = me.i
         /\ Cut.src = me.src /\ Cut.due = me.due /\ Cut.told = me.told
         /\ (me.stale => Cut.stale) /\ (me.at \in Looking => Cut.stale)
  <1>1. me \in Frames
    BY TopIs
  <1>2. PICK s \in BOOLEAN : s = (me.stale \/ me.at \in Looking)
    OBVIOUS
  <1>3. Cut = [me EXCEPT !.stale = s]
    BY <1>2 DEF Cut, Looking
  <1>4. /\ Cut \in Frames /\ Cut.at = me.at /\ Cut.op = me.op /\ Cut.k = me.k /\ Cut.i = me.i
        /\ Cut.src = me.src /\ Cut.due = me.due /\ Cut.told = me.told /\ Cut.stale = s
    BY <1>1, <1>3 DEF Frames
  <1> QED
    BY <1>2, <1>4

(* The routine that was entered, f, is over the context it cut. *)
Enters(f) == /\ hs' \in States /\ top' = top + 1 /\ hs'.contexts[top + 1] = f
             /\ \A n \in 1 .. top : hs'.contexts[n] = IF n = top THEN Cut ELSE hs.contexts[n]
             /\ hs'.lock = hs.lock /\ hs'.arc = hs.arc /\ hs'.mask = hs.mask /\ hs'.edge = hs.edge
             /\ hs'.pend = hs.pend /\ hs'.line = hs.line /\ hs'.owe = hs.owe
             /\ hs'.masked = hs.masked /\ hs'.raced = hs.raced
LEMMA EnterIs ==
  ASSUME HsdkConstants, HInv, Enter
  PROVE  \E f \in Frames, j \in Irqs :
           /\ f.src = j /\ f.i = First /\ f.at = "mask" /\ f.op = "none" /\ First \in Irqs
           /\ Enters(f) /\ (hs'.stuck <=> hs.stuck \/ hs.lock # 0)
  <1>1. /\ hs \in States /\ me \in Frames /\ top \in Nat \ {0} /\ Len(hs.contexts) = top
    BY TopIs DEF top
  <1>2. PICK j \in Requests :
          hs' = [hs EXCEPT !.contexts = Append([@ EXCEPT ![top] = Cut], Frame(j)),
                           !.stuck = @ \/ hs.lock # 0]
    BY DEF Enter, Set
  <1>3. j \in Irqs
    BY <1>1, <1>2 DEF Requests, States
  <1>4. PICK f : f = Fresh(j, First)
    OBVIOUS
  <1>5. f = Frame(j)
    BY <1>4 DEF Fresh, Frame
  <1>6. /\ f \in Frames /\ f.src = j /\ f.i = First /\ f.at = "mask" /\ f.op = "none"
        /\ First \in Irqs
    BY <1>3, <1>4, NewFrame, FirstIs
  <1>7. PICK s \in BOOLEAN : s = (hs.stuck \/ hs.lock # 0)
    OBVIOUS
  <1>8. hs' = Push(hs, top, Cut, f, s)
    BY <1>2, <1>5, <1>7 DEF Push
  <1>9. Enters(f) /\ hs'.stuck = s
    <2>1. /\ hs \in States /\ Cut \in Frames /\ f \in Frames
          /\ top \in Nat \ {0} /\ s \in BOOLEAN
      BY <1>1, <1>6, <1>7, CutIs
    <2>2. top = Len(hs.contexts)
      BY DEF top
    <2>3. /\ hs' \in States /\ Len(hs'.contexts) = top + 1
          /\ \A n \in 1 .. top : hs'.contexts[n] = IF n = top THEN Cut ELSE hs.contexts[n]
          /\ hs'.contexts[top + 1] = f
          /\ hs'.lock = hs.lock /\ hs'.arc = hs.arc /\ hs'.mask = hs.mask /\ hs'.edge = hs.edge
          /\ hs'.pend = hs.pend /\ hs'.line = hs.line /\ hs'.owe = hs.owe
          /\ hs'.masked = hs.masked /\ hs'.raced = hs.raced /\ hs'.stuck = s
      BY ONLY <1>8, <2>1, <2>2, PushIs
    <2>4. top' = top + 1
      BY <2>3 DEF top
    <2> QED
      BY <2>3, <2>4 DEF Enters
  <1> QED
    BY <1>3, <1>6, <1>7, <1>9

LEMMA EnterInv ==
  ASSUME HsdkConstants, HInv, Enter
  PROVE  HInv'
  <1>1. hs \in States /\ me \in Frames /\ top \in Nat \ {0}
    BY TopIs
  <1>3. PICK f \in Frames, j \in Irqs :
           /\ f.src = j /\ f.i = First /\ f.at = "mask" /\ f.op = "none" /\ First \in Irqs
           /\ Enters(f) /\ (hs'.stuck <=> hs.stuck \/ hs.lock # 0)
    BY EnterIs
  <1>6. /\ f \in Frames /\ f.src = j /\ f.i = First /\ f.at = "mask" /\ f.op = "none"
        /\ First \in Irqs
    BY <1>3
  <1>7. hs'.stuck <=> hs.stuck \/ hs.lock # 0
    BY <1>3
  <1>9. /\ hs' \in States /\ top' = top + 1 /\ hs'.contexts[top + 1] = f
        /\ \A n \in 1 .. top : hs'.contexts[n] = IF n = top THEN Cut ELSE hs.contexts[n]
        /\ hs'.lock = hs.lock /\ hs'.arc = hs.arc /\ hs'.mask = hs.mask /\ hs'.edge = hs.edge
        /\ hs'.pend = hs.pend /\ hs'.line = hs.line /\ hs'.owe = hs.owe
        /\ hs'.masked = hs.masked /\ hs'.raced = hs.raced
    BY <1>3 DEF Enters
  <1>10. \A n \in 1 .. top + 1 : n = top + 1 \/ n \in 1 .. top
    BY <1>1
  <1>11. Placed'
    <2>1. Place(top + 1, f)
      BY <1>1, <1>3, <1>6 DEF Place, OfRoutine
    <2>2. Place(top, Cut)
      BY <1>1, TopIs, CutIs DEF Place
    <2>3. \A n \in 1 .. top : n # top => Place(n, hs.contexts[n])
      BY DEF HInv, Placed
    <2>4. \A n \in 1 .. top + 1 : Place(n, hs'.contexts[n])
      BY <1>9, <1>10, <2>1, <2>2, <2>3
    <2> QED
      BY <1>1, <1>9, <2>4 DEF Placed
  <1>12. Wired'
    BY <1>9 DEF HInv, Wired, WiredIn
  <1>13. Looked'
    <2>1. \A n \in 1 .. top : hs'.contexts[n].at \in Looking => hs'.contexts[n].stale
      BY <1>9, CutIs DEF HInv, Looked, Look, me
    <2>2. \A n \in 1 .. top + 1 : hs'.contexts[n].at \in Looking => hs'.contexts[n].stale
      BY <1>6, <1>9, <1>10, <2>1 DEF Looking
    <2> QED
      BY <1>9, <2>2 DEF Looked, Look
  <1>14. Called'
    <2>1. \A n \in 1 .. top : n > 1 /\ hs'.contexts[n].at \in {"in", "arc", "set_mask"} =>
            /\ hs'.contexts[n].due \/ hs'.contexts[n].stale
                 \/ hs'.contexts[n].i \in hs'.edge \ EdgeIrqs
            /\ hs'.contexts[n].told \/ hs'.contexts[n].stale
      BY <1>9, CutIs DEF HInv, Called, Run, me
    <2>2. f.at \notin {"in", "arc", "set_mask"}
      BY <1>6
    <2> QED
      BY <1>9, <1>10, <2>1, <2>2 DEF Called, Run
  <1>15. Unmasked'
    <2>1. ASSUME NEW k, Disabling(k) PROVE Disabling(k)'
      <3>1. PICK n \in 1 .. top : hs.contexts[n].op = "disable" /\ hs.contexts[n].k = k
        BY <2>1 DEF Disabling
      <3>2. hs'.contexts[n].op = "disable" /\ hs'.contexts[n].k = k /\ n \in 1 .. top + 1
        BY <1>1, <1>9, <3>1, CutIs DEF me
      <3> QED
        BY <1>9, <3>2 DEF Disabling
    <2>2. ASSUME NEW k, Known(k) PROVE Known(k)'
      BY <1>9, <2>1, <2>2 DEF Known
    <2>3. /\ hs'.contexts[1].op = hs.contexts[1].op /\ hs'.contexts[1].at = hs.contexts[1].at
          /\ hs'.contexts[1].k = hs.contexts[1].k
      BY <1>1, <1>9, CutIs DEF me
    <2>4. PICK k : k = hs.contexts[1].k
      OBVIOUS
    <2>5. hs'.contexts[1].op = "enable" /\ hs'.contexts[1].at = "set_mask" => Known(k)'
      BY <2>2, <2>3, <2>4 DEF HInv, Unmasked
    <2>6. \A i \in hs'.masked \ hs'.mask : Known(i)'
      BY <1>9, <2>2 DEF HInv, Unmasked
    <2> QED
      BY <2>3, <2>4, <2>5, <2>6 DEF Unmasked, Known, Disabling
  <1>16. Held'
    <2>1. \A n \in 1 .. top : hs'.contexts[n].at = hs.contexts[n].at
      BY <1>9, CutIs DEF me
    <2>2. hs.lock # 0 => hs.lock \in 1 .. top
      BY <1>1 DEF HInv, Held, States
    <2>3. hs'.lock # 0 => hs'.lock <= top' /\ hs'.contexts[hs'.lock].at \in Commands
      BY <1>1, <1>9, <2>1, <2>2 DEF HInv, Held
    <2>4. hs'.lock # 0 => \A n \in 1 .. top' : n > hs'.lock => hs'.contexts[n].at = "mask"
      BY <1>6, <1>9, <1>10, <2>1 DEF HInv, Held
    <2>5. hs'.lock # 0 => hs'.lock < top'
      BY <1>1, <1>9, <2>2
    <2>6. hs'.stuck <=> hs'.lock # 0
      BY <1>7, <1>9 DEF HInv, Held
    <2> QED
      BY <2>3, <2>4, <2>5, <2>6 DEF Held
  <1> QED
    BY <1>9, <1>11, <1>12, <1>13, <1>14, <1>15, <1>16 DEF HInv

(* ------------------------------- theorems ------------------------------- *)

LEMMA InitInv ==
  ASSUME HsdkConstants, Init
  PROVE  HInv
  <1>1. PICK client \in Clients, pri \in Priorities :
          hs = [client |-> client, pri |-> pri, arc |-> {}, mask |-> {}, edge |-> EdgeIrqs,
                pend |-> {}, line |-> {}, contexts |-> <<Thread>>, lock |-> 0, locked |-> FALSE,
                owe |-> {}, masked |-> {}, raced |-> {}, stuck |-> FALSE]
    BY DEF Init
  <1>2. client \in SUBSET Operations /\ pri \in [Irqs -> Nat] /\ EdgeIrqs \subseteq Irqs
    BY DEF HsdkConstants
  <1>3. PICK c : c = <<Thread>>
    OBVIOUS
  <1>4. c \in Seq(Frames) /\ Len(c) = 1 /\ c[1] = Thread
    BY <1>3, ThreadIs
  <1>5. /\ hs \in States /\ hs.contexts = c /\ hs.edge = EdgeIrqs /\ hs.pend = {} /\ hs.line = {}
        /\ hs.lock = 0 /\ hs.masked = {} /\ hs.stuck = FALSE
    BY <1>1, <1>2, <1>3, <1>4 DEF States
  <1>6. top = 1 /\ hs.contexts[1] = Thread
    BY <1>4, <1>5 DEF top
  <1>7. Placed
    BY <1>6, ThreadIs DEF Placed, Place, OfThread
  <1>8. Wired
    BY <1>5 DEF Wired, WiredIn
  <1>9. Looked /\ Called
    BY <1>6, ThreadIs DEF Looked, Look, Looking, Called, Run
  <1>10. Unmasked
    BY <1>5, <1>6, ThreadIs DEF Unmasked
  <1>11. Held
    BY <1>5 DEF Held
  <1> QED
    BY <1>5, <1>7, <1>8, <1>9, <1>10, <1>11 DEF HInv

LEMMA NextInv ==
  ASSUME HsdkConstants, HInv, [Next]_hs
  PROVE  HInv'
  <1>1. CASE Event
    BY <1>1, EventInv
  <1>2. CASE Isr
    BY <1>2, EnterInv, ReadMaskInv, CheckStatusInv, AckInv, ReadModeInv, CheckFirstInv,
       HandlerReturnsInv DEF Isr
  <1>3. CASE Api
    BY <1>3, ArcIntInv, SetMaskInv, GenCirqInv, LevelConfigInv, SetModeInv DEF Api
  <1>4. CASE GetLock
    BY <1>4, GetLockInv
  <1>5. CASE \E k \in Irqs : HandlerCalls(k)
    BY <1>5, HandlerCallsInv
  <1>6. CASE \E op \in Operations, k \in Irqs, locked \in BOOLEAN : Call(op, k, locked)
    BY <1>6, CallInv
  <1>7. CASE UNCHANGED hs
    BY <1>7 DEF HInv, Placed, Wired, WiredIn, Looked, Look, Called, Run, Unmasked, Known,
       Disabling, Held, top
  <1> QED
    BY <1>1, <1>2, <1>3, <1>4, <1>5, <1>6, <1>7 DEF Next, Step

LEMMA Reached ==
  ASSUME HsdkConstants
  PROVE  Spec => []HInv
  BY InitInv, NextInv, PTL DEF Spec

(* Every word of the interrupt layer keeps its type, however deep routines *)
(* nest: the loop of arc_connect_int_isr (hsdk_interrupt.c) is always at   *)
(* one of its interrupts.                                                  *)
THEOREM Types ==
  ASSUME HsdkConstants
  PROVE  Spec => []TypeOK
  <1>1. HInv => TypeOK
    <2> SUFFICES ASSUME HInv PROVE TypeOK
      OBVIOUS
    <2>1. hs.lock \in 0 .. top
      BY TopIs DEF HInv, Held, States
    <2>2. \A n \in 2 .. top : hs.contexts[n].src \in Irqs /\ hs.contexts[n].i \in Irqs
      BY TopIs DEF HInv, Placed, Place
    <2> QED
      BY <2>1, <2>2 DEF HInv, States, TypeOK
  <1> QED
    BY <1>1, Reached, PTL

(* A handler runs for an event that no run before has handled, though one  *)
(* routine serves every interrupt (arc_connect_int_isr), unless a more     *)
(* urgent routine cut this one, or a level was made an edge.               *)
THEOREM HandledOnce ==
  ASSUME HsdkConstants
  PROVE  Spec => []OncePerEvent
  <1>1. HInv => OncePerEvent
    BY TopIs DEF HInv, Called, Run, OncePerEvent, InHandler
  <1> QED
    BY <1>1, Reached, PTL

(* A handler runs only while its interrupt is enabled (int_disable and     *)
(* int_enable, each of two steps), but for the cases that the property     *)
(* names.                                                                  *)
THEOREM HandledEnabled ==
  ASSUME HsdkConstants
  PROVE  Spec => []QuietWhenDisabled
  <1>1. HInv => QuietWhenDisabled
    BY TopIs DEF HInv, Called, Run, QuietWhenDisabled, InHandler
  <1> QED
    BY <1>1, Reached, PTL

(* The three together: arc_connect_int_isr calls a handler once per event  *)
(* and only while its interrupt is enabled.                                *)
THEOREM Dispatched ==
  ASSUME HsdkConstants
  PROVE  Spec => []DispatchedOnce
  BY Types, HandledOnce, HandledEnabled, PTL DEF DispatchedOnce

(* A routine that was entered while its own core held arc_connect_lock     *)
(* stays where it is, as does all that it cut, and the lock stays held.    *)
SpinsForEver == [][hs.stuck => /\ hs'.stuck /\ hs'.lock = hs.lock /\ top' >= top
                               /\ \A n \in 1 .. top : hs'.contexts[n].at = hs.contexts[n].at]_hs
(* arc_connect_lock does not mask interrupts (arc_connect.c): neither a    *)
(* routine entered over the context that holds it, nor one entered over    *)
(* that routine, ever gets it.                                             *)
THEOREM StuckSpins ==
  ASSUME HsdkConstants
  PROVE  Spec => SpinsForEver
  <1>1. ASSUME HInv, hs.stuck, Next
        PROVE  /\ hs'.stuck /\ hs'.lock = hs.lock /\ top' >= top
               /\ \A n \in 1 .. top : hs'.contexts[n].at = hs.contexts[n].at
    <2>1. /\ hs.lock # 0 /\ hs.lock < top /\ me.at = "mask" /\ hs \in States /\ top \in Nat \ {0}
          /\ Len(hs.contexts) = top
      BY <1>1, TopIs DEF HInv, Held, top, me
    <2>2. \A at : ~ Command(at)
      BY <2>1 DEF Command, States
    <2>3. Event \/ Enter
      BY <1>1, <2>1, <2>2 DEF Next, Step, Isr, Api, ReadMask, CheckStatus, Ack, ReadMode,
         CheckFirst, HandlerReturns, ArcInt, SetMask, GenCirq, LevelConfig, SetMode, GetLock,
         HandlerCalls, Call
    <2>4. CASE Event
      BY <2>1, <2>4, <1>1 DEF Event, Set, States, top
    <2>5. CASE Enter
      <3>1. PICK f : Enters(f) /\ (hs'.stuck <=> hs.stuck \/ hs.lock # 0)
        BY <1>1, <2>5, EnterIs
      <3>6. /\ top' = top + 1 /\ hs'.lock = hs.lock /\ hs'.stuck
            /\ \A n \in 1 .. top : hs'.contexts[n] = IF n = top THEN Cut ELSE hs.contexts[n]
        BY <1>1, <3>1 DEF Enters
      <3> QED
        BY <1>1, <2>1, <3>6, CutIs DEF me
    <2> QED
      BY <2>3, <2>4, <2>5
  <1> QED
    BY <1>1, Reached, PTL DEF Spec, SpinsForEver
=============================================================================
