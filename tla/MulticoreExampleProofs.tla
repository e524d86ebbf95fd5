----------------------- MODULE MulticoreExampleProofs -----------------------
(***************************************************************************)
(* Proofs about several cores at work: the SMP example on top of the       *)
(* ARConnect driver, for any number of cores and any assignment of register*)
(* banks to them, and the start of the other cores, with constants of its  *)
(* own.                                                                    *)
(***************************************************************************)
EXTENDS MulticoreExample, SlaveStart, ArcConnectProofs

(* The threads and the handlers are the driver's callers. *)
LEMMA Contexts ==
  ASSUME NEW c \in Core
  PROVE  /\ Thread(c) \in Caller /\ Isr(c) \in Caller
         /\ CoreOf[Thread(c)] = c /\ CoreOf[Isr(c)] = c
         /\ \A d \in Core : /\ Thread(c) # Isr(d)
                            /\ Thread(c) = Thread(d) => c = d
                            /\ Isr(c) = Isr(d) => c = d
  BY ExampleAssumption DEF Thread, Isr

(* Each core raises its interrupt at one core, which is no other's target. *)
LEMMA NextId ==
  /\ \A c \in Core : next_id(c) \in Core
  /\ \A c, d \in Core : next_id(c) = next_id(d) => c = d
  <1>1. \A c \in Core : next_id(c) = IF c + 1 = NumCpus THEN 0 ELSE c + 1
    BY ExampleAssumption DEF next_id
  <1> QED
    BY <1>1, ExampleAssumption

(* What a command does to the pending inter-core interrupts. *)
LEMMA AfterIci ==
  ASSUME NEW h, Shape(h), NEW c \in Core, NEW op
  PROVE  /\ op.cmd = "INTRPT_GENERATE_IRQ" => \A d \in Core :
              After(h, c, op).ici[d] = h.ici[d] \cup (IF d = op.param THEN {c} ELSE {})
         /\ op.cmd = "INTRPT_GENERATE_ACK" => \A d \in Core :
              After(h, c, op).ici[d] = h.ici[d] \ (IF d = c THEN {op.param} ELSE {})
         /\ op.cmd \notin {"INTRPT_GENERATE_IRQ", "INTRPT_GENERATE_ACK"} =>
              After(h, c, op).ici = h.ici
  BY DEF Shape, After, Store

(* A call of one command performs that command and is done. *)
LEMMA OneOp ==
  ASSUME IInv, Driven, NEW x \in Caller, NEW op, Performs(x, op), Len(call[x].body) = 1
  PROVE  /\ op = call[x].body[1] /\ atodo'[x] = <<>>
         /\ agot'[x] = Reply(hw, CoreOf[x], op)
         /\ \A y \in Caller \ {x} : atodo'[y] = atodo[y] /\ agot'[y] = agot[y]
         /\ hw' = After(hw, CoreOf[x], op) /\ call' = call
  <1> DEFINE n == Len(atodo[x])
             m == Len(atodo'[x])
  <1>1. /\ n \in 1 .. 1 /\ op = call[x].body[1 - n + 1] /\ m = n - 1
    BY OpIs, ZenonT(60)
  <1>2. atodo[x] \in Seq(Command) /\ atodo[x] # <<>> /\ atodo'[x] = Tail(atodo[x])
    BY OpIs DEF Driven, CallKept, Follows, Performs
  <1>3. atodo'[x] \in Seq(Command)
    BY <1>2, HeadTailProperties
  <1> HIDE DEF n, m
  <1>4. op = call[x].body[1] /\ m = 0
    BY <1>1
  <1>5. atodo'[x] = <<>>
    BY <1>3, <1>4, EmptySeq DEF m
  <1> QED
    BY <1>4, <1>5, OpIs

(* What a core's thread relies on: its interrupt is pending only while it  *)
(* asks for the acknowledgement, and only its own calls raise it.          *)
ThreadLabels == {"hello", "hello2", "id", "id2", "id3", "wait", "say", "say2", "raise",
                 "ask", "asked"}
Raised(c) == c \in hw.ici[next_id(c)]
ThreadCalls(c, m) ==
  \/ call[Thread(c)] = check_core_id /\ m = "id2"
  \/ call[Thread(c)] = ici_generate(next_id(c)) /\ m = "ask" /\ ~ Raised(c)
  \/ call[Thread(c)] = ici_read_status(next_id(c)) /\ m = "asked"
ThreadInv(c) ==
  LET x == Thread(c)
  IN  /\ at[x] \in ThreadLabels
      /\ at[x] \notin {"ask", "asked"} => ~ Raised(c)
      /\ atodo[x] # <<>> => ThreadCalls(c, at[x])
      /\ at[x] = "asked" /\ atodo[x] = <<>> /\ agot[x] = 0 => ~ Raised(c)

(* What a core's handler relies on: a raiser is pending from its entry to  *)
(* its acknowledgement, and the mask it read still names it.               *)
HandlerLabels == {"none", "found", "tell", "tell2", "ack", "leave"}
HandlerCalls(c, m) ==
  \/ call[Isr(c)] = ici_check_src /\ m = "found"
  \/ m = "leave" /\ \E p \in Core : call[Isr(c)] = ici_ack(p)
HandlerInv(c) ==
  LET x == Isr(c)
  IN  /\ at[x] \in HandlerLabels
      /\ atodo[x] # <<>> => HandlerCalls(c, at[x])
      /\ at[x] \in {"found", "tell", "tell2", "ack"} => hw.ici[c] # {}
      /\ at[x] = "found" /\ atodo[x] = <<>> => agot[x] = MaskOf[hw.ici[c]]
      /\ at[x] \in {"tell", "tell2", "ack"} => from[c] \in hw.ici[c]

(* A core is interrupted by the core before it only. *)
Raisers == \A c \in Core : hw.ici[c] \subseteq {p \in Core : next_id(p) = c}
AppType == DOMAIN at = Caller /\ DOMAIN from = Core
AppInv == /\ AppType /\ Raisers
          /\ \A c \in Core : ThreadInv(c) /\ HandlerInv(c)

LEMMA InitApp == EInit => AppInv
  <1> SUFFICES ASSUME EInit PROVE AppInv
    OBVIOUS
  <1>1. hw.ici = [c \in Core |-> {}]
    BY DEF EInit, Init, HwInit
  <1>2. \A x \in Caller : atodo[x] = <<>> /\ agot[x] = 0
    BY InitDriven DEF EInit
  <1>3. \A c \in Core : at[Thread(c)] = "hello" /\ at[Isr(c)] = "none"
    BY Contexts, ExampleAssumption DEF EInit, Thread, Isr
  <1>4. AppType /\ Raisers
    BY <1>1 DEF EInit, AppType, Raisers
  <1>5. \A c \in Core : ThreadInv(c)
    BY <1>1, <1>2, <1>3, NextId, Contexts DEF ThreadInv, Raised, ThreadLabels
  <1>6. \A c \in Core : HandlerInv(c)
    BY <1>2, <1>3, Contexts DEF HandlerInv, HandlerLabels
  <1> QED
    BY <1>4, <1>5, <1>6 DEF AppInv

(* A step that leaves the unit alone concerns the context that takes it. *)
Alone(x) == /\ hw' = hw
            /\ \A y \in Caller \ {x} : /\ at'[y] = at[y] /\ call'[y] = call[y]
                                        /\ atodo'[y] = atodo[y] /\ agot'[y] = agot[y]
            /\ \A c \in Core : Isr(c) # x => from'[c] = from[c]
            /\ AppType'

LEMMA OwnStep ==
  ASSUME AppInv, NEW x \in Caller, Alone(x),
         \A c \in Core : (x = Thread(c) => ThreadInv(c)') /\ (x = Isr(c) => HandlerInv(c)')
  PROVE  AppInv'
  <1>1. Raisers'
    BY DEF Alone, AppInv, Raisers, next_id
  <1>2. ASSUME NEW c \in Core, x # Thread(c)
        PROVE  ThreadInv(c)'
    BY <1>2, Contexts DEF Alone, AppInv, ThreadInv, Thread, Raised, ThreadCalls, next_id
  <1>3. ASSUME NEW c \in Core, x # Isr(c)
        PROVE  HandlerInv(c)'
    BY <1>3, Contexts DEF Alone, AppInv, HandlerInv, Isr, HandlerCalls
  <1> QED
    BY <1>1, <1>2, <1>3 DEF Alone, AppInv

(* A context of the example moves on outside the driver, or calls it. *)
LEMMA MoveAlone ==
  ASSUME IInv, AppInv, NEW x \in Caller, NEW l, NEW m, step(x, l, m), UNCHANGED vars,
         \A c \in Core : Isr(c) # x => from'[c] = from[c], DOMAIN from' = Core
  PROVE  /\ Alone(x) /\ at[x] = l /\ at'[x] = m
         /\ atodo[x] = <<>> /\ atodo' = atodo /\ agot' = agot /\ agot[x] = got[x]
  <1>1. UNCHANGED <<hw, call, atodo, agot>>
    BY SeenSame
  <1>2. pc[x] = "idle" /\ at[x] = l /\ at' = [at EXCEPT ![x] = m]
    BY DEF step, Here
  <1>3. atodo[x] = <<>> /\ agot[x] = got[x]
    BY <1>2, IdleDone
  <1> QED
    BY <1>1, <1>2, <1>3 DEF AppInv, AppType, Alone

LEMMA CallAlone ==
  ASSUME IInv, Driven, AppInv, NEW x \in Caller, NEW l, NEW c \in Calls[x], NEW m,
         CallAt(x, l, c, m)
  PROVE  /\ [Next]_vars /\ Alone(x) /\ at[x] = l /\ at'[x] = m
         /\ call'[x] = c /\ atodo'[x] # <<>> /\ hw' = hw
  <1>1. Begins(x, c) /\ [Next]_vars
    BY EnterIs DEF CallAt, Next, Invoke
  <1>2. /\ call'[x] = c /\ atodo'[x] = c.body /\ c.body # <<>>
        /\ \A y \in Caller \ {x} : call'[y] = call[y] /\ atodo'[y] = atodo[y]
        /\ UNCHANGED <<hw, agot>>
    BY <1>1, BeginsIs
  <1>3. at[x] = l /\ at' = [at EXCEPT ![x] = m] /\ from' = from
    BY DEF CallAt, step, Here
  <1> QED
    BY <1>1, <1>2, <1>3 DEF AppInv, AppType, Alone

(* The thread's steps. *)
LEMMA ThreadStep ==
  ASSUME IInv, Driven, AppInv, NEW c \in Core, MainStep(c)
  PROVE  [Next]_vars /\ AppInv'
  <1> DEFINE x == Thread(c)
             n == next_id(c)
  <1>0. /\ x \in Caller /\ n \in Core /\ CoreOf[x] = c
        /\ {check_core_id, ici_generate(n), ici_read_status(n)} \subseteq Calls[x]
        /\ \A d \in Core : x # Isr(d) /\ (x = Thread(d) => c = d)
        /\ ThreadInv(c)
    <2>1. x \in Caller /\ n \in Core
      BY Contexts, NextId
    <2>2. {check_core_id, ici_generate(n), ici_read_status(n)} \subseteq Calls[x]
      BY <2>1, ExampleAssumption
    <2> QED
      BY <2>1, <2>2, Contexts DEF AppInv
  <1>1. ASSUME Alone(x), ThreadInv(c)'
        PROVE  AppInv'
    BY <1>0, <1>1, OwnStep
  <1>2. ASSUME NEW l \in ThreadLabels, NEW m \in ThreadLabels, step(x, l, m),
               UNCHANGED <<vars, from>>,
               l # "ask", m # "asked", l = "asked" => m = "ask" \/ got[x] = 0
        PROVE  [Next]_vars /\ AppInv'
    <2>1. /\ Alone(x) /\ at[x] = l /\ at'[x] = m
          /\ atodo[x] = <<>> /\ atodo' = atodo /\ agot' = agot /\ agot[x] = got[x]
      BY <1>0, <1>2, MoveAlone DEF AppInv, AppType
    <2>2. Raised(c)' = Raised(c)
      BY <2>1 DEF Raised, Alone, next_id
    <2>3. ThreadInv(c)'
      BY <1>0, <1>2, <2>1, <2>2 DEF ThreadInv, Thread
    <2> QED
      BY <1>1, <1>2, <2>1, <2>3
  <1>3. ASSUME NEW l, NEW m, NEW a \in Calls[x], CallAt(x, l, a, m),
               \/ l = "id" /\ a = check_core_id /\ m = "id2"
               \/ l = "raise" /\ a = ici_generate(n) /\ m = "ask"
               \/ l = "ask" /\ a = ici_read_status(n) /\ m = "asked"
        PROVE  [Next]_vars /\ AppInv'
    <2>1. /\ [Next]_vars /\ Alone(x) /\ at[x] = l /\ at'[x] = m
          /\ call'[x] = a /\ atodo'[x] # <<>> /\ hw' = hw
      BY <1>0, <1>3, CallAlone
    <2>2. Raised(c)' = Raised(c) /\ n' = n /\ x' = x
      BY <2>1 DEF Raised, next_id, Thread
    <2>3. ThreadInv(c)'
      BY <1>0, <1>3, <2>1, <2>2 DEF ThreadInv, ThreadLabels, ThreadCalls, Thread, next_id
    <2> QED
      BY <1>1, <2>1, <2>3
  <1>4. CASE Greet(x)
    BY <1>0, <1>2, <1>3, <1>4 DEF Greet, PrintGet, PrintRelease, ThreadLabels
  <1>5. CASE DelayOver(x) \/ Say(x)
    BY <1>2, <1>5 DEF DelayOver, Say, PrintGet, PrintRelease, ThreadLabels
  <1>6. CASE Raise(x)
    BY <1>0, <1>3, <1>6 DEF Raise
  <1>7. CASE Ask(x)
    BY <1>0, <1>3, <1>7 DEF Ask
  <1>8. CASE Asked(x)
    BY <1>2, <1>8 DEF Asked, ThreadLabels
  <1> QED
    BY <1>4, <1>5, <1>6, <1>7, <1>8 DEF MainStep

(* A word tells the bits it has, and has none only if it is 0. *)
LEMMA Injective ==
  ASSUME NEW S \in SUBSET Core, NEW T \in SUBSET Core, MaskOf[S] = MaskOf[T]
  PROVE  S = T
  <1>1. \A U, V \in SUBSET Core : MaskOf[U] = MaskOf[V] => U = V
    BY HwAssumption
  <1> HIDE HwAssumption
  <1> QED
    BY <1>1, ZenonT(30)

LEMMA BitsOfMask ==
  ASSUME NEW S \in SUBSET Core
  PROVE  BitsIn(MaskOf[S]) = S
  <1>1. BitsIn(MaskOf[S]) \in SUBSET Core /\ MaskOf[BitsIn(MaskOf[S])] = MaskOf[S]
    BY DEF BitsIn
  <1> QED
    BY <1>1, Injective

LEMMA MaskOfNone ==
  ASSUME NEW S \in SUBSET Core, MaskOf[S] = 0
  PROVE  S = {}
  <1>1. MaskOf[{}] = 0 /\ {} \in SUBSET Core
    BY HwAssumption
  <1> QED
    BY <1>1, Injective

(* arc_find_lsb finds the bit of a mask that has one only.                 *)
LEMMA LsbFinds ==
  ASSUME NEW c \in Core
  PROVE  lsb(MaskOf[{c}]) = c
  <1>0. {c} \in SUBSET Core
    OBVIOUS
  <1>1. c \in Nat
    BY ExampleAssumption
  <1>2. (CHOOSE d \in {c} : \A e \in {c} : d <= e) = c
    BY <1>1
  <1>3. BitsIn(MaskOf[{c}]) = {c}
    BY <1>0, BitsOfMask
  <1>4. MaskOf[{c}] # 0
    BY <1>0, MaskOfNone
  <1> QED
    BY <1>1, <1>2, <1>3, <1>4 DEF lsb, arc_find_lsb

(* A core that has an interrupt pending has it from one core. *)
LEMMA OneRaiser ==
  ASSUME Raisers, NEW c \in Core, NEW p \in hw.ici[c]
  PROVE  p \in Core /\ next_id(p) = c /\ hw.ici[c] = {p}
  BY NextId DEF Raisers

(* The handler's steps. *)
LEMMA HandlerStep ==
  ASSUME IInv, Driven, AppInv, NEW c \in Core, IsrStep(c)
  PROVE  [Next]_vars /\ AppInv'
  <1> DEFINE x == Isr(c)
  <1>0. /\ x \in Caller
        /\ \A d \in Core : x # Thread(d) /\ (x = Isr(d) => c = d)
        /\ HandlerInv(c) /\ DOMAIN from = Core /\ Raisers
    BY Contexts DEF AppInv, AppType
  <1>1. ASSUME Alone(x), HandlerInv(c)'
        PROVE  AppInv'
    BY <1>0, <1>1, OwnStep
  <1>2. CASE Interrupt(c)
    <2>1. CallAt(x, "none", ici_check_src, "found") /\ ici_check_src \in Calls[x]
      BY <1>0, <1>2, ExampleAssumption DEF Interrupt, CallAt, step, Here, Enter, goto
    <2>2. /\ [Next]_vars /\ Alone(x) /\ at'[x] = "found"
          /\ call'[x] = ici_check_src /\ atodo'[x] # <<>> /\ hw' = hw
      BY <1>0, <2>1, CallAlone
    <2>3. HandlerInv(c)'
      BY <1>2, <2>2 DEF Interrupt, HandlerInv, HandlerLabels, HandlerCalls, Isr
    <2> QED
      BY <1>1, <2>2, <2>3
  <1>3. CASE Found(c)
    <2>1. step(x, "found", "tell") /\ UNCHANGED vars /\ DOMAIN from' = Core
          /\ from'[c] = lsb(got[x]) /\ \A d \in Core : Isr(d) # x => from'[d] = from[d]
      BY <1>0, <1>3 DEF Found
    <2>2. /\ Alone(x) /\ at[x] = "found" /\ at'[x] = "tell"
          /\ atodo[x] = <<>> /\ atodo' = atodo /\ agot' = agot /\ agot[x] = got[x]
      BY <1>0, <2>1, MoveAlone
    <2>3. PICK p \in hw.ici[c] : TRUE
      BY <1>0, <2>2 DEF HandlerInv
    <2>4. p \in Core /\ hw.ici[c] = {p}
      BY <1>0, <2>3, OneRaiser
    <2>5. got[x] = MaskOf[{p}]
      BY <1>0, <2>2, <2>4 DEF HandlerInv
    <2>6. from'[c] = p /\ hw' = hw
      BY <2>1, <2>2, <2>4, <2>5, LsbFinds DEF Alone
    <2>7. HandlerInv(c)'
      BY <2>2, <2>4, <2>6 DEF HandlerInv, HandlerLabels, Isr
    <2> QED
      BY <1>1, <2>1, <2>2, <2>7
  <1>4. ASSUME NEW l, NEW m, step(x, l, m), UNCHANGED <<vars, from>>,
               <<l, m>> \in {<<"tell", "tell2">>, <<"tell2", "ack">>, <<"leave", "none">>}
        PROVE  [Next]_vars /\ AppInv'
    <2>1. /\ Alone(x) /\ at[x] = l /\ at'[x] = m
          /\ atodo[x] = <<>> /\ atodo' = atodo /\ agot' = agot
      BY <1>0, <1>4, MoveAlone
    <2>2. hw' = hw
      BY <2>1 DEF Alone
    <2>3. HandlerInv(c)'
      BY <1>0, <1>4, <2>1, <2>2 DEF HandlerInv, HandlerLabels, Isr
    <2> QED
      BY <1>1, <1>4, <2>1, <2>3
  <1>5. CASE Tell(c)
    BY <1>4, <1>5 DEF Tell, PrintGet, PrintRelease
  <1>6. CASE Ack(c)
    <2>1. at[x] = "ack"
      BY <1>6 DEF Ack, CallAt, step, Here
    <2>2. from[c] \in Core
      BY <1>0, <2>1, OneRaiser DEF HandlerInv
    <2>3. ici_ack(from[c]) \in Calls[x]
      BY <1>0, <2>2, ExampleAssumption
    <2>4. /\ [Next]_vars /\ Alone(x) /\ at'[x] = "leave"
          /\ call'[x] = ici_ack(from[c]) /\ atodo'[x] # <<>>
      BY <1>0, <1>6, <2>3, CallAlone DEF Ack
    <2>5. HandlerCalls(c, "leave")'
      BY <2>2, <2>4 DEF HandlerCalls, Isr, ici_ack
    <2>6. HandlerInv(c)'
      BY <2>4, <2>5 DEF HandlerInv, HandlerLabels, Isr, HandlerCalls
    <2> QED
      BY <1>1, <2>4, <2>6
  <1>7. CASE Leave(c)
    BY <1>4, <1>7 DEF Leave
  <1> QED
    BY <1>2, <1>3, <1>5, <1>6, <1>7 DEF IsrStep

(* A command concerns the context that issues it, as long as it raises no  *)
(* other core's interrupt and no interrupt that is being handled changes.  *)
LEMMA OwnCommand ==
  ASSUME AppInv, NEW x \in Caller, UNCHANGED <<at, from, call>>, Raisers',
         \A y \in Caller \ {x} : atodo'[y] = atodo[y] /\ agot'[y] = agot[y],
         \A c \in Core : (x = Thread(c) => ThreadInv(c)') /\ (x = Isr(c) => HandlerInv(c)'),
         \A c \in Core : x # Thread(c) /\ Raised(c)' => Raised(c),
         \A c \in Core : x # Isr(c) /\ at[Isr(c)] \in {"found", "tell", "tell2", "ack"}
                           => hw'.ici[c] = hw.ici[c]
  PROVE  AppInv'
  <1>1. AppType'
    BY DEF AppInv, AppType
  <1>2. ASSUME NEW c \in Core, x # Thread(c)
        PROVE  ThreadInv(c)'
    <2>1. Thread(c) \in Caller \ {x} /\ ThreadInv(c) /\ (Raised(c)' => Raised(c))
      BY <1>2, Contexts DEF AppInv
    <2>2. /\ atodo'[Thread(c)] = atodo[Thread(c)] /\ agot'[Thread(c)] = agot[Thread(c)]
          /\ at' = at /\ call' = call
      BY <2>1
    <2> QED
      BY <2>1, <2>2 DEF ThreadInv, Thread, ThreadCalls, next_id
  <1>3. ASSUME NEW c \in Core, x # Isr(c)
        PROVE  HandlerInv(c)'
    <2>1. Isr(c) \in Caller \ {x} /\ HandlerInv(c)
      BY <1>3, Contexts DEF AppInv
    <2>2. /\ atodo'[Isr(c)] = atodo[Isr(c)] /\ agot'[Isr(c)] = agot[Isr(c)]
          /\ at' = at /\ call' = call /\ from' = from
          /\ at[Isr(c)] \in {"found", "tell", "tell2", "ack"} => hw'.ici[c] = hw.ici[c]
      BY <1>3, <2>1
    <2> QED
      BY <2>1, <2>2 DEF HandlerInv, Isr, HandlerCalls
  <1> QED
    BY <1>1, <1>2, <1>3 DEF AppInv

(* The commands of the thread. *)
LEMMA ThreadCommand ==
  ASSUME IInv, Driven, AppInv, NEW c \in Core, NEW op, Performs(Thread(c), op),
         UNCHANGED <<at, from>>
  PROVE  AppInv'
  <1> DEFINE x == Thread(c)
             n == next_id(c)
  <1>0. /\ x \in Caller /\ n \in Core /\ CoreOf[x] = c
        /\ \A d \in Core : x # Isr(d) /\ (x = Thread(d) => c = d)
        /\ ThreadInv(c) /\ Raisers /\ Shape(hw)
    BY Contexts, NextId DEF AppInv, Driven
  <1>1. atodo[x] # <<>> /\ ThreadCalls(c, at[x])
    BY <1>0 DEF Performs, ThreadInv
  <1>2. Len(call[x].body) = 1
    BY <1>1 DEF ThreadCalls, check_core_id, ici_generate, ici_read_status, API
  <1>3. /\ op = call[x].body[1] /\ atodo'[x] = <<>> /\ agot'[x] = Reply(hw, c, op)
        /\ \A y \in Caller \ {x} : atodo'[y] = atodo[y] /\ agot'[y] = agot[y]
        /\ hw' = After(hw, c, op) /\ call' = call
    BY <1>0, <1>2, OneOp
  <1>4. ASSUME hw'.ici = hw.ici, ThreadInv(c)'
        PROVE  AppInv'
    <2>1. Raisers' /\ \A d \in Core : Raised(d)' => Raised(d)
      BY <1>0, <1>4 DEF Raisers, Raised, next_id
    <2> QED
      BY <1>0, <1>3, <1>4, <2>1, OwnCommand
  <1>5. CASE call[x] = check_core_id /\ at[x] = "id2"
    <2>1. op.cmd = "CHECK_CORE_ID"
      BY <1>3, <1>5 DEF check_core_id, API, CmdReturn
    <2>2. hw'.ici = hw.ici
      <3>1. After(hw, c, op).ici = hw.ici
        BY <1>0, <2>1, AfterIci
      <3> QED
        BY <1>3, <3>1
    <2>3. Raised(c)' = Raised(c)
      BY <2>2 DEF Raised, next_id
    <2>4. ThreadInv(c)'
      BY <1>0, <1>3, <1>5, <2>3 DEF ThreadInv, Thread, ThreadLabels
    <2> QED
      BY <1>4, <2>2, <2>4
  <1>6. CASE call[x] = ici_generate(n) /\ at[x] = "ask" /\ ~ Raised(c)
    <2>1. op.cmd = "INTRPT_GENERATE_IRQ" /\ op.param = n
      BY <1>3, <1>6 DEF ici_generate, API, CmdOnly
    <2>2. \A d \in Core : hw'.ici[d] = hw.ici[d] \cup (IF d = n THEN {c} ELSE {})
      <3>1. \A d \in Core : After(hw, c, op).ici[d]
                 = hw.ici[d] \cup (IF d = op.param THEN {c} ELSE {})
        BY <1>0, <2>1, AfterIci
      <3> QED
        BY <1>3, <2>1, <3>1
    <2>4. Raisers'
      BY <1>0, <2>2 DEF Raisers, next_id
    <2>5. \A d \in Core : d # c /\ Raised(d)' => Raised(d)
      <3> SUFFICES ASSUME NEW d \in Core, d # c, d \in hw'.ici[next_id(d)]
                   PROVE  d \in hw.ici[next_id(d)]
        BY DEF Raised, next_id
      <3>1. next_id(d) \in Core /\ next_id(d) # n
        BY <1>0, NextId
      <3> QED
        BY <2>2, <3>1
    <2>6. ASSUME NEW d \in Core, at[Isr(d)] \in {"found", "tell", "tell2", "ack"}
          PROVE  hw'.ici[d] = hw.ici[d]
      <3>1. PICK p \in hw.ici[d] : TRUE
        BY <2>6 DEF AppInv, HandlerInv
      <3>2. p \in Core /\ next_id(p) = d
        BY <1>0, <3>1, OneRaiser
      <3>3. d # n
        BY <1>6, <3>1, <3>2, NextId DEF Raised
      <3> QED
        BY <2>2, <3>3
    <2>7. ThreadInv(c)'
      BY <1>0, <1>3, <1>6 DEF ThreadInv, Thread, ThreadLabels
    <2> QED
      BY <1>0, <1>3, <2>4, <2>5, <2>6, <2>7, OwnCommand
  <1>7. CASE call[x] = ici_read_status(n) /\ at[x] = "asked"
    <2>1. op.cmd = "INTRPT_READ_STATUS" /\ op.param = n
      BY <1>3, <1>7 DEF ici_read_status, API, CmdReturn
    <2>2. hw'.ici = hw.ici
      <3>1. After(hw, c, op).ici = hw.ici
        BY <1>0, <2>1, AfterIci
      <3> QED
        BY <1>3, <3>1
    <2>3. Raised(c)' = Raised(c)
      BY <2>2 DEF Raised, next_id
    <2>4. agot'[x] = IF Raised(c) THEN 1 ELSE 0
      BY <1>3, <2>1 DEF Reply, Load, Raised
    <2>5. ThreadInv(c)'
      BY <1>0, <1>3, <1>7, <2>3, <2>4 DEF ThreadInv, Thread, ThreadLabels
    <2> QED
      BY <1>4, <2>2, <2>5
  <1> QED
    BY <1>1, <1>5, <1>6, <1>7 DEF ThreadCalls

(* The commands of the handler. *)
LEMMA HandlerCommand ==
  ASSUME IInv, Driven, AppInv, NEW c \in Core, NEW op, Performs(Isr(c), op),
         UNCHANGED <<at, from>>
  PROVE  AppInv'
  <1> DEFINE x == Isr(c)
  <1>0. /\ x \in Caller /\ CoreOf[x] = c
        /\ \A d \in Core : x # Thread(d) /\ (x = Isr(d) => c = d)
        /\ HandlerInv(c) /\ Raisers /\ Shape(hw)
    BY Contexts DEF AppInv, Driven
  <1>1. atodo[x] # <<>> /\ HandlerCalls(c, at[x])
    BY <1>0 DEF Performs, HandlerInv
  <1>2. Len(call[x].body) = 1
    <2>1. ici_check_src.body = <<CmdReturn("INTRPT_CHECK_SOURCE", 0)>>
      BY DEF ici_check_src, API
    <2>2. \A p \in Core : ici_ack(p).body = <<CmdOnly("INTRPT_GENERATE_ACK", p)>>
      BY DEF ici_ack, API
    <2>3. PICK b : call[x].body = <<b>>
      BY <1>1, <2>1, <2>2 DEF HandlerCalls
    <2> QED
      BY <2>3
  <1>3. /\ op = call[x].body[1] /\ atodo'[x] = <<>> /\ agot'[x] = Reply(hw, c, op)
        /\ \A y \in Caller \ {x} : atodo'[y] = atodo[y] /\ agot'[y] = agot[y]
        /\ hw' = After(hw, c, op) /\ call' = call
    BY <1>0, <1>2, OneOp
  <1>4. CASE call[x] = ici_check_src /\ at[x] = "found"
    <2>1. op.cmd = "INTRPT_CHECK_SOURCE"
      BY <1>3, <1>4 DEF ici_check_src, API, CmdReturn
    <2>2. hw'.ici = hw.ici
      <3>1. After(hw, c, op).ici = hw.ici
        BY <1>0, <2>1, AfterIci
      <3> QED
        BY <1>3, <3>1
    <2>3. agot'[x] = MaskOf[hw.ici[c]]
      BY <1>3, <2>1 DEF Reply, Load
    <2>4. HandlerInv(c)'
      BY <1>0, <1>3, <1>4, <2>2, <2>3 DEF HandlerInv, Isr, HandlerLabels
    <2>5. Raisers' /\ \A d \in Core : Raised(d)' => Raised(d)
      BY <1>0, <2>2 DEF Raisers, Raised, next_id
    <2> QED
      BY <1>0, <1>3, <2>2, <2>4, <2>5, OwnCommand
  <1>5. CASE at[x] = "leave" /\ \E p \in Core : call[x] = ici_ack(p)
    <2>1. PICK p \in Core : op.cmd = "INTRPT_GENERATE_ACK" /\ op.param = p
      BY <1>3, <1>5 DEF ici_ack, API, CmdOnly
    <2>2. \A d \in Core : hw'.ici[d] = hw.ici[d] \ (IF d = c THEN {p} ELSE {})
      <3>1. \A d \in Core : After(hw, c, op).ici[d]
                 = hw.ici[d] \ (IF d = c THEN {op.param} ELSE {})
        BY <1>0, <2>1, AfterIci
      <3> QED
        BY <1>3, <2>1, <3>1
    <2>4. Raisers'
      BY <1>0, <2>2 DEF Raisers, next_id
    <2>5. \A d \in Core : Raised(d)' => Raised(d)
      BY <2>2, NextId DEF Raised, next_id
    <2>6. \A d \in Core : x # Isr(d) => hw'.ici[d] = hw.ici[d]
      BY <2>2
    <2>7. HandlerInv(c)'
      BY <1>0, <1>3, <1>5 DEF HandlerInv, Isr, HandlerLabels
    <2> QED
      BY <1>0, <1>3, <2>4, <2>5, <2>6, <2>7, OwnCommand
  <1> QED
    BY <1>1, <1>4, <1>5 DEF HandlerCalls

(* The example runs the driver, and its invariants are inductive together  *)
(* with the driver's.                                                      *)
EInv == IInv /\ Driven /\ AppInv

LEMMA NextEInv ==
  ASSUME EInv, [ENext]_evars
  PROVE  EInv'
  <1> USE DEF EInv
  <1>1. ASSUME NEW c \in Core, NEW x \in {Thread(c), Isr(c)}, DriverStep(x)
        PROVE  [Next]_vars /\ AppInv'
    <2>1. x \in Caller /\ Execute(x) /\ UNCHANGED <<at, from>>
      BY <1>1, Contexts DEF DriverStep, app
    <2>2. ASSUME NEW op \in Command, Performs(x, op)
          PROVE  AppInv'
      <3>1. CASE x = Thread(c)
        BY <2>1, <2>2, <3>1, ThreadCommand
      <3>2. CASE x = Isr(c)
        BY <2>1, <2>2, <3>2, HandlerCommand
      <3> QED
        BY <1>1, <3>1, <3>2
    <2>3. ASSUME UNCHANGED <<hw, call, atodo, agot>>
          PROVE  AppInv'
      <3>1. Alone(x)
        BY <2>1, <2>3 DEF Alone, AppInv, AppType
      <3>2. \A d \in Core : ThreadInv(d)' /\ HandlerInv(d)'
        <4> SUFFICES ASSUME NEW d \in Core
                     PROVE  ThreadInv(d)' /\ HandlerInv(d)'
          OBVIOUS
        <4>1. ThreadInv(d) /\ HandlerInv(d)
          BY DEF AppInv
        <4>2. /\ hw' = hw /\ call' = call /\ atodo' = atodo /\ agot' = agot /\ at' = at
              /\ from' = from
          BY <2>1, <2>3
        <4>3. ThreadInv(d)'
          BY <4>1, <4>2 DEF ThreadInv, Thread, Raised, ThreadCalls, next_id
        <4>4. HandlerInv(d)'
          BY <4>1, <4>2 DEF HandlerInv, Isr, HandlerCalls
        <4> QED
          BY <4>3, <4>4
      <3>3. \A d \in Core : (x = Thread(d) => ThreadInv(d)') /\ (x = Isr(d) => HandlerInv(d)')
        BY <3>2
      <3>4. AppInv /\ x \in Caller
        BY <2>1
      <3> QED
        BY <3>1, <3>3, <3>4, OwnStep
    <2>4. AppInv'
      BY <2>1, <2>2, <2>3, ExecuteIs
    <2> QED
      BY <2>1, <2>4 DEF Next
  <1>2. CASE UNCHANGED evars
    <2>1. UNCHANGED <<hw, call, atodo, agot, at, from>> /\ UNCHANGED vars
      BY <1>2, SeenSame DEF evars, app
    <2>2. AppInv'
      BY <2>1 DEF AppInv, AppType, Raisers, ThreadInv, HandlerInv, Thread, Isr, Raised,
                  ThreadCalls, HandlerCalls, next_id
    <2> QED
      BY <2>1, <2>2, NextInv, NextDriven
  <1>3. CASE ENext
    <2>1. [Next]_vars /\ AppInv'
      BY <1>1, <1>3, ThreadStep, HandlerStep DEF ENext
    <2> QED
      BY <2>1, NextInv, NextDriven
  <1> QED
    BY <1>2, <1>3

LEMMA ReachedEInv ==
  ESpec => []EInv
  <1>1. EInit => EInv
    BY InitInv, InitDriven, InitApp DEF EInit, EInv
  <1>2. EInv /\ [ENext]_evars => EInv'
    BY NextEInv
  <1> QED
    BY <1>1, <1>2, PTL DEF ESpec

(* When cores_ici_isr looks at the mask of raisers it names the core whose *)
(* interrupt it handles, and that core waits for the acknowledgement, for  *)
(* any number of cores (main.c of the SMP example).                        *)
THEOREM HandlersNameRaisers ==
  ESpec => []HandlerNamesRaiser
  <1>1. ASSUME EInv
        PROVE  HandlerNamesRaiser
    <2> SUFFICES ASSUME NEW c \in Core, at[Isr(c)] \in {"tell", "tell2", "ack"}
                 PROVE  /\ from[c] \in hw.ici[c] /\ next_id(from[c]) = c
                        /\ at[Thread(from[c])] \in {"ask", "asked"}
      BY DEF HandlerNamesRaiser
    <2>1. from[c] \in hw.ici[c]
      BY <1>1 DEF EInv, AppInv, HandlerInv
    <2>2. from[c] \in Core /\ next_id(from[c]) = c
      BY <1>1, <2>1, OneRaiser DEF EInv, AppInv
    <2>3. Raised(from[c]) /\ ThreadInv(from[c])
      BY <1>1, <2>1, <2>2 DEF EInv, AppInv, Raised
    <2> QED
      BY <2>1, <2>2, <2>3 DEF ThreadInv
  <1> QED
    BY ReachedEInv, <1>1, PTL

(* No core raises its interrupt again before the last one was handled, so  *)
(* the ARConnect unit merges none, for any number of cores.                *)
THEOREM NoneMerged ==
  ESpec => NoMergedInterrupt
  <1> DEFINE Once == \A c \in Core : (/\ pc[Thread(c)] = "cmd"
                                      /\ pc'[Thread(c)] = "readback"
                                      /\ call[Thread(c)] = ici_generate(next_id(c)))
                                     => c \notin hw.ici[next_id(c)]
  <1>1. ASSUME EInv, NEW c \in Core, pc[Thread(c)] = "cmd",
               call[Thread(c)] = ici_generate(next_id(c))
        PROVE  c \notin hw.ici[next_id(c)]
    <2>1. todo[Thread(c)] # <<>> /\ atodo[Thread(c)] = todo[Thread(c)]
      BY <1>1, Contexts DEF EInv, IInv, Pending, atodo, Performed
    <2>2. ThreadCalls(c, at[Thread(c)])
      BY <1>1, <2>1 DEF EInv, AppInv, ThreadInv
    <2> QED
      BY <1>1, <2>2 DEF ThreadCalls, Raised, check_core_id, ici_read_status, ici_generate, API
  <1>2. EInv => [Once]_evars
    BY <1>1
  <1>3. [][Once]_evars => NoMergedInterrupt
    BY DEF NoMergedInterrupt
  <1> HIDE DEF Once
  <1> QED
    BY ReachedEInv, <1>2, <1>3, PTL

(* ---------------------- the start of the other cores -------------------- *)
(* For any set of cores, any jobs and any contents of the flag at reset:   *)
(* the example's assumption on its own constants says nothing of these.    *)

(* The assumption on the constants, in the form the steps use. *)
LEMMA Numbers ==
  /\ 0 \notin Slaves /\ 0 \in Nat
  /\ \A c \in Slaves : c \in Nat /\ c # 0
  /\ None \notin Jobs
  BY StartAssumption

(* The cores leave reset in the invariant. *)
LEMMA InitHandover ==
  ASSUME StartInit
  PROVE  Handover
  BY StartAssumption, Numbers
     DEF StartInit, NothingRead, Handover, StartTypeOK, OwnJob, OneAtATime, Handed, InCall

(* Clearing .bss: no core has been called for, and with the flag cleared   *)
(* none can see its number.                                                *)
LEMMA ClearBssHandover ==
  ASSUME Handover, NEW w \in bss, ClearBss(w)
  PROVE  Handover'
  <1> USE Numbers DEF Handover, ClearBss
  <1>1. StartTypeOK'
    BY DEF StartTypeOK, InCall
  <1>2. OneAtATime'
    BY DEF OneAtATime, InCall, Handed
  <1>3. Handed'
    BY DEF OneAtATime, Handed, InCall
  <1>4. OwnJob'
    BY DEF OwnJob, OneAtATime, Handed, InCall
  <1> QED
    BY <1>1, <1>2, <1>3, <1>4

(* A call begins: its core still waits, and nobody has the flag.           *)
LEMMA CallHandover ==
  ASSUME Handover, NEW c \in Slaves, NEW j \in Jobs, arc_start_slave_cpu(c, j)
  PROVE  Handover'
  <1> USE Numbers DEF Handover, arc_start_slave_cpu, record
  <1>1. StartTypeOK'
    BY DEF StartTypeOK, InCall
  <1>2. OneAtATime'
    BY DEF StartTypeOK, OneAtATime, Handed, InCall
  <1>3. Handed'
    BY DEF StartTypeOK, OneAtATime, Handed, InCall
  <1>4. OwnJob'
    BY DEF StartTypeOK, OwnJob, OneAtATime, Handed, InCall
  <1> QED
    BY <1>1, <1>2, <1>3, <1>4

(* The stores of a call, before the flag is set, are seen by no core.      *)
LEMMA StoreHandover ==
  ASSUME Handover, StoreFn \/ StoreArg \/ StoreSp
  PROVE  Handover'
  <1> USE Numbers DEF Handover, Step
  <1>1. StartTypeOK'
    <2>1. CASE StoreFn
      BY <2>1 DEF StoreFn, StartTypeOK, InCall
    <2>2. CASE StoreArg
      BY <2>2 DEF StoreArg, StartTypeOK, InCall
    <2>3. CASE StoreSp
      BY <2>3 DEF StoreSp, StartTypeOK, InCall
    <2> QED
      BY <2>1, <2>2, <2>3
  <1>2. OneAtATime'
    BY DEF StoreFn, StoreArg, StoreSp, OneAtATime, InCall
  <1>3. Handed'
    BY DEF StoreFn, StoreArg, StoreSp, StartTypeOK, OneAtATime, Handed, InCall
  <1>4. OwnJob'
    BY DEF StoreFn, StoreArg, StoreSp, OwnJob, OneAtATime, InCall
  <1> QED
    BY <1>1, <1>2, <1>3, <1>4

(* The flag is set with everything in place, and waited for.               *)
LEMMA FlagHandover ==
  ASSUME Handover, StoreFlag \/ Returns
  PROVE  Handover'
  <1> USE Numbers DEF Handover, Step, record
  <1>1. StartTypeOK'
    BY DEF StoreFlag, Returns, StartTypeOK, InCall
  <1>2. OneAtATime'
    BY DEF StoreFlag, Returns, OneAtATime, InCall
  <1>3. Handed'
    BY DEF StoreFlag, Returns, StartTypeOK, OneAtATime, Handed, InCall
  <1>4. OwnJob'
    BY DEF StoreFlag, Returns, OwnJob, OneAtATime, Handed, InCall
  <1> QED
    BY <1>1, <1>2, <1>3, <1>4

(* Between seeing its number and answering, a core is the called one.      *)
LEMMA AnswerHandover ==
  ASSUME Handover, NEW c \in Slaves, See(c) \/ LoadSp(c) \/ Signal(c)
  PROVE  Handover'
  <1> USE Numbers DEF Handover, Go, core0, record
  <1>1. StartTypeOK'
    <2>1. CASE See(c)
      BY <2>1 DEF See, StartTypeOK, InCall
    <2>2. CASE LoadSp(c)
      BY <2>2 DEF LoadSp, StartTypeOK, InCall
    <2>3. CASE Signal(c)
      BY <2>3 DEF Signal, StartTypeOK, InCall
    <2> QED
      BY <2>1, <2>2, <2>3
  <1>2. OneAtATime'
    BY DEF See, LoadSp, Signal, StartTypeOK, OneAtATime, Handed, InCall
  <1>3. Handed'
    <2>1. CASE See(c)
      <3>1. early' = (early \/ "flag" \in bss) /\ arc_cpu_wake_flag = c /\ spc[c] = "wait"
        BY <2>1 DEF See
      <3>2. ASSUME ~ early'
            PROVE  ~ early /\ "flag" \notin bss
        BY <3>1, <3>2
      <3>3. ASSUME ~ early'
            PROVE  mpc = "wait" /\ cpu = c /\ arc_cpu_wake_flag = c /\ asked[c] = job /\ job \in Jobs
        BY <3>1, <3>2, <3>3 DEF OneAtATime, InCall
      <3>4. /\ spc \in [Slaves -> {"wait", "sp", "signal", "fn", "arg", "run"}]
            /\ spc' = [spc EXCEPT ![c] = "sp"]
            /\ UNCHANGED <<arc_cpu_wake_flag, arc_cpu_sp, fn, arg, mpc, cpu, job, asked, read>>
        BY <2>1 DEF See, StartTypeOK
      <3> QED
        BY <3>2, <3>3, <3>4 DEF Handed, InCall
    <2>2. CASE LoadSp(c)
      BY <2>2 DEF LoadSp, StartTypeOK, OneAtATime, Handed, InCall
    <2>3. CASE Signal(c)
      BY <2>3 DEF Signal, StartTypeOK, OneAtATime, Handed, InCall
    <2> QED
      BY <2>1, <2>2, <2>3
  <1>4. OwnJob'
    BY DEF See, LoadSp, Signal, StartTypeOK, OwnJob, OneAtATime, Handed, InCall
  <1> QED
    BY <1>1, <1>2, <1>3, <1>4

(* The function and the argument are still those of the core's own call.   *)
LEMMA LoadHandover ==
  ASSUME Handover, NEW c \in Slaves, LoadFn(c) \/ LoadArg(c)
  PROVE  Handover'
  <1> USE Numbers DEF Handover, Go, core0, record
  <1>1. StartTypeOK'
    <2>1. CASE LoadFn(c)
      BY <2>1 DEF LoadFn, StartTypeOK, InCall
    <2>2. CASE LoadArg(c)
      BY <2>2 DEF LoadArg, StartTypeOK, InCall
    <2> QED
      BY <2>1, <2>2
  <1>2. OneAtATime'
    BY DEF LoadFn, LoadArg, StartTypeOK, OneAtATime, InCall
  <1>3. Handed'
    BY DEF LoadFn, LoadArg, StartTypeOK, OneAtATime, Handed, InCall
  <1>4. OwnJob'
    BY DEF LoadFn, LoadArg, StartTypeOK, OwnJob, OneAtATime, Handed, InCall
  <1> QED
    BY <1>1, <1>2, <1>3, <1>4

(* Every step keeps the invariant.                                         *)
LEMMA StepHandover ==
  ASSUME Handover, [StartNext]_startVars
  PROVE  Handover'
  <1>1. CASE Master
    BY <1>1, ClearBssHandover, StoreHandover, FlagHandover DEF Master
  <1>2. CASE \E c \in Slaves, j \in Jobs : arc_start_slave_cpu(c, j)
    BY <1>2, CallHandover
  <1>3. CASE \E c \in Slaves : Slave(c)
    BY <1>3, AnswerHandover, LoadHandover DEF Slave
  <1>4. CASE UNCHANGED startVars
    BY <1>4 DEF startVars, record, core0, Handover, StartTypeOK, OwnJob, OneAtATime, Handed, InCall
  <1> QED
    BY <1>1, <1>2, <1>3, <1>4 DEF StartNext

(* The hand-over of each job (arc_mp.c:57-89, arc_startup.s:123-131): one  *)
(* call at a time owns the flag and the stack word until its core has read *)
(* them, whatever the number of cores.                                     *)
THEOREM HandoverHolds == StartSpec => []Handover
  <1>1. StartInit => Handover
    BY InitHandover
  <1>2. Handover /\ [StartNext]_startVars => Handover'
    BY StepHandover
  <1> QED
    BY <1>1, <1>2, PTL DEF StartSpec

(* A core that arc_slave_start lets run has the function, argument and     *)
(* stack of its own call, if no core took the flag's contents at reset.    *)
THEOREM OwnJobHolds == StartSpec => []OwnJob
  <1>1. Handover => OwnJob
    BY DEF Handover
  <1> QED
    BY <1>1, HandoverHolds, PTL
=============================================================================
