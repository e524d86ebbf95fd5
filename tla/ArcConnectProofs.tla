-------------------------- MODULE ArcConnectProofs --------------------------
(***************************************************************************)
(* Proofs about the ARConnect driver, for any cores, callers, assignment   *)
(* of register banks to cores and set of calls.  Up to the refinement,     *)
(* neither Reply nor After is expanded: those results do not depend on     *)
(* what the commands do.  The last part follows single registers of the    *)
(* unit through the indivisible commands, for programs that do not share   *)
(* them.                                                                   *)
(***************************************************************************)
EXTENDS ArcConnect, SequenceTheorems, TLAPS

(* The driver starts in the invariant. *)
LEMMA InitInv == Init => IInv
  BY ConnectAssumption
     DEF Init, IInv, TypeOK, Exclusive, ReservedFree, Pending, OperandKept,
         Locations, Critical, UNLOCKED, LOCKED

(* A caller that may move stays among the callers and the locations. *)
LEMMA GotoMoves ==
  ASSUME NEW x \in Caller, NEW from, NEW to, TypeOK, goto(x, from, to)
  PROVE  /\ pc[x] = from /\ pc'[x] = to
         /\ \A y \in Caller \ {x} : pc'[y] = pc[y]
         /\ DOMAIN pc' = Caller
  BY DEF goto, TypeOK

(* Entering the driver keeps the invariant. *)
LEMMA InvokeInv ==
  ASSUME NEW x \in Caller, IInv, Invoke(x)
  PROVE  IInv'
PROOF
  <1> USE DEF IInv, Invoke, Enter, regs, lock
  <1>1. PICK c \in Calls[x] : todo' = [todo EXCEPT ![x] = c.body]
    OBVIOUS
  <1>2. c.body \in Seq(Command) /\ c.body # <<>>
    BY ConnectAssumption
  <1>3. goto(x, "idle", "llock")
    OBVIOUS
  <1>4. TypeOK'
    BY <1>3 DEF TypeOK, goto, Locations
  <1>5. Exclusive'
    BY <1>3, GotoMoves DEF Exclusive, Critical
  <1>6. ReservedFree'
    BY DEF ReservedFree
  <1>7. Pending'
    <2>1. /\ pc'[x] = "llock"
          /\ \A y \in Caller \ {x} : pc'[y] = pc[y]
      BY <1>3, GotoMoves
    <2>2. /\ todo' \in [Caller -> Seq(Command)]
          /\ todo'[x] # <<>>
          /\ \A y \in Caller \ {x} : todo'[y] = todo[y]
      BY <1>1, <1>2 DEF Pending
    <2> QED
      BY <2>1, <2>2 DEF Pending
  <1>8. OperandKept'
    BY <1>1, <1>3, GotoMoves DEF OperandKept, Bank, Pending
  <1> QED
    BY <1>4, <1>5, <1>6, <1>7, <1>8

(* The loop of arc_spinlock_get keeps the invariant: the conditional store *)
(* cannot succeed while somebody is inside, because a standing reservation *)
(* means that the lock is free.                                            *)
LEMMA AcquireInv ==
  ASSUME NEW x \in Caller, IInv, LLock(x) \/ SCondTakes(x) \/ SCondFails(x)
  PROVE  IInv'
PROOF
  <1> USE DEF IInv, regs, lock
  <1>0. CoreOf[x] \in Core
    BY ConnectAssumption
  <1>1. CASE LLock(x)
    <2>1. goto(x, "llock", "scond")
      BY <1>1 DEF LLock
    <2> QED
      BY <1>0, <1>1, <2>1, GotoMoves
         DEF LLock, TypeOK, goto, Locations, Exclusive, Critical, ReservedFree,
             Pending, OperandKept, Bank
  <1>2. CASE SCondTakes(x)
    <2> DEFINE into == IF HasWdata(Head(todo[x])) THEN "wdata" ELSE "cmd"
    <2>1. goto(x, "scond", into)
      BY <1>2 DEF SCondTakes
    <2>2. slock = UNLOCKED /\ slock' = LOCKED /\ resv' = {}
      BY <1>2 DEF SCondTakes, ReservedFree
    <2>3. \A y \in Caller : pc[y] \notin Critical
      BY <2>2 DEF Exclusive, TypeOK, UNLOCKED, LOCKED
    <2>4. into \in {"wdata", "cmd"}
      OBVIOUS
    <2> HIDE DEF into
    <2>5. TypeOK'
      BY <1>2, <2>1, <2>2, <2>4 DEF SCondTakes, TypeOK, goto, Locations
    <2>6. Exclusive'
      BY <2>1, <2>2, <2>3, <2>4, GotoMoves DEF Exclusive, Critical
    <2>7. ReservedFree'
      BY <2>2 DEF ReservedFree
    <2>8. Pending'
      BY <1>2, <2>1, <2>4, GotoMoves DEF Pending, SCondTakes
    <2>9. OperandKept'
      BY <1>2, <2>1, <2>3, <2>4, GotoMoves
         DEF OperandKept, SCondTakes, Bank, Critical, into
    <2> QED
      BY <2>5, <2>6, <2>7, <2>8, <2>9
  <1>3. CASE SCondFails(x)
    <2>1. goto(x, "scond", "llock")
      BY <1>3 DEF SCondFails
    <2> QED
      BY <1>3, <2>1, GotoMoves
         DEF SCondFails, TypeOK, goto, Locations, Exclusive, Critical,
             ReservedFree, Pending, OperandKept, Bank
  <1> QED
    BY <1>1, <1>2, <1>3

(* The register accesses keep the invariant: whoever makes them is alone.  *)
LEMMA RegisterInv ==
  ASSUME NEW x \in Caller, IInv, WriteWdata(x) \/ WriteCmd(x) \/ ReadBack(x)
  PROVE  IInv'
PROOF
  <1> USE DEF IInv, lock
  <1>0. Bank(x) \in Reg
    BY ConnectAssumption DEF Bank
  <1>1. CASE WriteWdata(x)
    <2>1. goto(x, "wdata", "cmd")
      BY <1>1 DEF WriteWdata
    <2>2. \A y \in Caller \ {x} : pc[y] # "cmd"
      BY <2>1, GotoMoves DEF Exclusive, Critical
    <2>3. OperandKept'
      BY <1>0, <1>1, <2>1, <2>2, GotoMoves DEF OperandKept, WriteWdata, TypeOK, Bank
    <2> QED
      BY <1>0, <1>1, <2>1, <2>3, GotoMoves
         DEF WriteWdata, TypeOK, goto, Locations, Exclusive, Critical,
             ReservedFree, Pending
  <1>2. CASE WriteCmd(x)
    <2>1. goto(x, "cmd", "readback")
      BY <1>2 DEF WriteCmd
    <2> QED
      BY <1>0, <1>2, <2>1, GotoMoves
         DEF WriteCmd, TypeOK, goto, Locations, Exclusive, Critical,
             ReservedFree, Pending, OperandKept, Bank
  <1>3. CASE ReadBack(x)
    <2>1. goto(x, "readback", "release")
      BY <1>3 DEF ReadBack
    <2> QED
      BY <1>0, <1>3, <2>1, GotoMoves
         DEF ReadBack, regs, TypeOK, goto, Locations, Exclusive, Critical,
             ReservedFree, Pending, OperandKept, Bank
  <1> QED
    BY <1>1, <1>2, <1>3

(* Releasing the lock keeps the invariant, whether or not the call has     *)
(* another command to execute.                                             *)
LEMMA ReleaseInv ==
  ASSUME NEW x \in Caller, IInv, Release(x)
  PROVE  IInv'
PROOF
  <1> USE DEF IInv, regs
  <1> DEFINE next == IF Len(todo[x]) > 1 THEN "llock" ELSE "idle"
  <1>1. goto(x, "release", next)
    BY DEF Release
  <1>2. slock' = UNLOCKED /\ resv' = {} /\ todo' = [todo EXCEPT ![x] = Tail(@)]
    BY DEF Release
  <1>3. todo[x] \in Seq(Command) /\ todo[x] # <<>>
    BY <1>1 DEF Pending, goto
  <1>4. Tail(todo[x]) \in Seq(Command) /\ (Tail(todo[x]) # <<>> <=> next = "llock")
    <2> DEFINE n == Len(todo[x])
    <2>1. n \in Nat \ {0}
      BY <1>3, EmptySeq
    <2>2. /\ Tail(todo[x]) \in Seq(Command)
          /\ Len(Tail(todo[x])) = n - 1
      BY <1>3, HeadTailProperties
    <2>3. Tail(todo[x]) # <<>> <=> n - 1 # 0
      BY <2>2, EmptySeq
    <2>4. next = "llock" <=> n > 1
      OBVIOUS
    <2> HIDE DEF n, next
    <2>5. n > 1 <=> n - 1 # 0
      BY <2>1
    <2> QED
      BY <2>2, <2>3, <2>4, <2>5
  <1>5. next \in {"llock", "idle"}
    OBVIOUS
  <1> HIDE DEF next
  <1>6. \A y \in Caller \ {x} : pc[y] \notin Critical
    BY <1>1 DEF Exclusive, goto, Critical
  <1>7. TypeOK'
    BY <1>1, <1>2, <1>5 DEF TypeOK, goto, Locations, Release
  <1>8. Exclusive'
    BY <1>1, <1>2, <1>5, <1>6, GotoMoves DEF Exclusive, Critical, UNLOCKED, LOCKED
  <1>9. ReservedFree'
    BY <1>2 DEF ReservedFree
  <1>10. Pending'
    <2>1. /\ pc'[x] = next
          /\ \A y \in Caller \ {x} : pc'[y] = pc[y]
      BY <1>1, GotoMoves
    <2>2. /\ todo' \in [Caller -> Seq(Command)]
          /\ todo'[x] = Tail(todo[x])
          /\ \A y \in Caller \ {x} : todo'[y] = todo[y]
      BY <1>2, <1>4 DEF Pending
    <2>3. pc'[x] # "idle" <=> todo'[x] # <<>>
      BY <1>4, <1>5, <2>1, <2>2
    <2>4. \A y \in Caller \ {x} : pc'[y] # "idle" <=> todo'[y] # <<>>
      BY <2>1, <2>2 DEF Pending
    <2> QED
      BY <2>2, <2>3, <2>4 DEF Pending
  <1>11. OperandKept'
    BY <1>1, <1>2, <1>5, <1>6, GotoMoves DEF OperandKept, Critical, Release, Pending
  <1> QED
    BY <1>7, <1>8, <1>9, <1>10, <1>11

(* The counter's tick and a stuttering step touch nothing the invariant    *)
(* speaks of.                                                              *)
LEMMA OtherInv ==
  ASSUME IInv, Tick \/ UNCHANGED vars
  PROVE  IInv'
  BY DEF Tick, vars, lock, IInv, TypeOK, Exclusive, ReservedFree, Pending,
         OperandKept, Bank

(* The invariant is inductive. *)
LEMMA NextInv == IInv /\ [Next]_vars => IInv'
PROOF
  <1> SUFFICES ASSUME IInv, [Next]_vars PROVE IInv'
    OBVIOUS
  <1>1. ASSUME NEW x \in Caller, Invoke(x) PROVE IInv'
    BY <1>1, InvokeInv
  <1>2. ASSUME NEW x \in Caller, Execute(x) PROVE IInv'
    BY <1>2, AcquireInv, RegisterInv, ReleaseInv DEF Execute
  <1> QED
    BY <1>1, <1>2, OtherInv DEF Next

(* The invariant holds in every reachable state. *)
THEOREM Invariant == Spec => []IInv
  BY InitInv, NextInv, PTL DEF Spec

(* The spin lock of the ARConnect driver excludes: at any time at most one *)
(* context on one core is between taking and releasing arc_connect_lock.   *)
THEOREM Exclusion == Spec => []Exclusive
PROOF
  <1>1. IInv => Exclusive
    BY DEF IInv
  <1> QED
    BY Invariant, <1>1, PTL

(* ------------------------------ refinement ----------------------------- *)

(* The values the refinement mapping gives to the abstract variables. *)
atodo == [x \in Caller |-> IF Performed(x) THEN Tail(todo[x]) ELSE todo[x]]
agot == [x \in Caller |-> IF pc[x] = "readback" THEN readback[Bank(x)] ELSE got[x]]

(* What the unit receives is the command its caller asked for. *)
LEMMA IssuedOwn ==
  ASSUME NEW x \in Caller, IInv, pc[x] = "cmd"
  PROVE  /\ Issued(x) = Head(todo[x])
         /\ todo[x] # <<>>
PROOF
  <1>1. todo[x] # <<>> /\ todo[x] \in Seq(Command)
    BY DEF IInv, Pending
  <1>2. Head(todo[x]) \in Command
    BY <1>1, HeadTailProperties
  <1> DEFINE op == Head(todo[x])
  <1>3. op = [cmd |-> op.cmd, type |-> op.type,
              param |-> op.param, wdata |-> op.wdata]
    BY <1>2, ConnectAssumption
  <1>4. HasWdata(op) => wdata[Bank(x)] = op.wdata
    BY DEF IInv, OperandKept
  <1> QED
    BY <1>1, <1>3, <1>4 DEF Issued

(* Before CMD is written, entering and taking the lock change nothing      *)
(* abstract except that the call is now pending.                           *)
LEMMA InvokeRefines ==
  ASSUME NEW x \in Caller, IInv, Invoke(x)
  PROVE  Atomic!Invoke(x)
PROOF
  <1> USE DEF IInv, Invoke, Enter, regs, lock
  <1>1. PICK c \in Calls[x] : todo' = [todo EXCEPT ![x] = c.body]
    OBVIOUS
  <1>2. goto(x, "idle", "llock")
    OBVIOUS
  <1>3. /\ pc[x] = "idle" /\ pc'[x] = "llock"
        /\ \A y \in Caller \ {x} : pc'[y] = pc[y]
    BY <1>2, GotoMoves
  <1>4. /\ todo[x] = <<>> /\ todo'[x] = c.body
        /\ \A y \in Caller \ {x} : todo'[y] = todo[y]
    BY <1>1, <1>3 DEF Pending
  <1>5. atodo[x] = <<>> /\ atodo' = [atodo EXCEPT ![x] = c.body]
    BY <1>3, <1>4 DEF atodo, Performed
  <1>6. agot' = agot
    BY <1>3 DEF agot, Bank
  <1> QED
    BY <1>5, <1>6 DEF Atomic!Invoke, atodo, agot

(* Writing CMD performs the command, for its caller and nobody else: no    *)
(* other caller is waiting for READBACK.                                   *)
LEMMA WriteCmdRefines ==
  ASSUME NEW x \in Caller, IInv, WriteCmd(x)
  PROVE  Atomic!Perform(x)
PROOF
  <1>1. goto(x, "cmd", "readback")
    BY DEF WriteCmd
  <1>2. /\ pc[x] = "cmd" /\ pc'[x] = "readback"
        /\ \A y \in Caller \ {x} : pc'[y] = pc[y]
    BY <1>1, GotoMoves DEF IInv
  <1>3. Issued(x) = Head(todo[x]) /\ todo[x] # <<>>
    BY <1>2, IssuedOwn
  <1>4. \A y \in Caller \ {x} : pc[y] \notin Critical
    BY <1>2 DEF IInv, Exclusive, Critical
  <1>5. todo' = todo /\ got' = got
    BY DEF WriteCmd
  <1>6. /\ hw' = After(hw, CoreOf[x], Head(todo[x]))
        /\ readback'[Bank(x)] = Reply(hw, CoreOf[x], Head(todo[x]))
    <2>1. Bank(x) \in DOMAIN readback
      BY ConnectAssumption DEF Bank, IInv, TypeOK
    <2> QED
      BY <1>3, <2>1 DEF WriteCmd
  <1>7. atodo[x] = todo[x] /\ atodo' = [atodo EXCEPT ![x] = Tail(todo[x])]
    BY <1>2, <1>5 DEF atodo, Performed
  <1>8. agot' = [agot EXCEPT ![x] = Reply(hw, CoreOf[x], Head(todo[x]))]
    <2>1. \A y \in Caller \ {x} : pc[y] # "readback" /\ pc'[y] # "readback"
      BY <1>2, <1>4 DEF Critical
    <2>2. Bank(x)' = Bank(x)
      BY DEF Bank
    <2> QED
      BY <1>2, <1>5, <1>6, <2>1, <2>2 DEF agot
  <1> QED
    BY <1>3, <1>6, <1>7, <1>8 DEF Atomic!Perform, atodo, agot

(* Every other step of the driver is invisible to the abstraction. *)
LEMMA OthersStutter ==
  ASSUME NEW x \in Caller, IInv, Execute(x), ~ WriteCmd(x)
  PROVE  UNCHANGED <<hw, atodo, agot>>
PROOF
  <1> USE DEF IInv, regs, lock
  <1>1. CASE LLock(x) \/ SCondTakes(x) \/ SCondFails(x) \/ WriteWdata(x)
    <2>1. /\ hw' = hw /\ readback' = readback /\ todo' = todo /\ got' = got
      BY <1>1 DEF LLock, SCondTakes, SCondFails, WriteWdata
    <2>2. PICK from \in {"llock", "scond", "wdata"},
               to \in {"llock", "scond", "wdata", "cmd"} : goto(x, from, to)
      BY <1>1 DEF LLock, SCondTakes, SCondFails, WriteWdata
    <2>3. /\ pc[x] = from /\ pc'[x] = to
          /\ \A y \in Caller \ {x} : pc'[y] = pc[y]
      BY <2>2, GotoMoves
    <2>4. \A y \in Caller : /\ Performed(y)' = Performed(y)
                            /\ (pc'[y] = "readback") = (pc[y] = "readback")
      BY <2>3 DEF Performed
    <2> QED
      BY <2>1, <2>4 DEF atodo, agot, Bank
  <1>2. CASE ReadBack(x)
    <2>1. goto(x, "readback", "release") /\ UNCHANGED <<hw, readback, todo>>
      BY <1>2 DEF ReadBack
    <2>2. /\ pc[x] = "readback" /\ pc'[x] = "release"
          /\ \A y \in Caller \ {x} : pc'[y] = pc[y]
      BY <2>1, GotoMoves
    <2>3. /\ got'[x] = readback[Bank(x)]
          /\ \A y \in Caller \ {x} : got'[y] = got[y]
      BY <1>2 DEF ReadBack, TypeOK
    <2>4. agot' = agot
      BY <2>1, <2>2, <2>3 DEF agot, Bank
    <2>5. atodo' = atodo
      BY <2>1, <2>2 DEF atodo, Performed
    <2> QED
      BY <2>1, <2>4, <2>5
  <1>3. CASE Release(x)
    <2> DEFINE next == IF Len(todo[x]) > 1 THEN "llock" ELSE "idle"
    <2>1. goto(x, "release", next) /\ UNCHANGED <<hw, readback, got>>
      BY <1>3 DEF Release
    <2>2. next \in {"llock", "idle"}
      OBVIOUS
    <2> HIDE DEF next
    <2>3. /\ pc[x] = "release" /\ pc'[x] = next
          /\ \A y \in Caller \ {x} : pc'[y] = pc[y]
      BY <2>1, GotoMoves
    <2>4. /\ todo'[x] = Tail(todo[x])
          /\ \A y \in Caller \ {x} : todo'[y] = todo[y]
      BY <1>3 DEF Release, Pending
    <2>5. agot' = agot
      BY <2>1, <2>2, <2>3 DEF agot, Bank
    <2>6. atodo' = atodo
      BY <2>2, <2>3, <2>4 DEF atodo, Performed
    <2> QED
      BY <2>1, <2>5, <2>6
  <1> QED
    BY <1>1, <1>2, <1>3 DEF Execute

(* The driver implements indivisible commands: whatever the cores, the     *)
(* interrupt handlers, the register banks and the calls, each command of   *)
(* arc_connect_cmd_execute is performed once, with its caller's operand,   *)
(* and its caller is given the reply to it.                                *)
THEOREM Refinement == Spec => ImplementsAtomic
PROOF
  <1> USE DEF Atomic!vars
  <1>1. Init => Atomic!Init
    BY DEF Init, Atomic!Init, Performed
  <1>2. IInv /\ [Next]_vars => [Atomic!Next]_(Atomic!vars)
    <2> SUFFICES ASSUME IInv, [Next]_vars
                 PROVE  Atomic!Next \/ UNCHANGED Atomic!vars
      OBVIOUS
    <2>1. ASSUME NEW x \in Caller, Invoke(x)
          PROVE  Atomic!Next
      BY <2>1, InvokeRefines DEF Atomic!Next
    <2>2. ASSUME NEW x \in Caller, Execute(x)
          PROVE  Atomic!Next \/ UNCHANGED Atomic!vars
      <3>1. CASE WriteCmd(x)
        BY <3>1, WriteCmdRefines DEF Atomic!Next
      <3>2. CASE ~ WriteCmd(x)
        BY <2>2, <3>2, OthersStutter DEF atodo, agot
      <3> QED
        BY <3>1, <3>2
    <2>3. CASE Tick
      BY <2>3 DEF Tick, Atomic!Next, Atomic!Tick, Performed, Bank
    <2>4. CASE UNCHANGED vars
      BY <2>4 DEF vars, Performed, Bank
    <2> QED
      BY <2>1, <2>2, <2>3, <2>4 DEF Next
  <1> QED
    BY Invariant, <1>1, <1>2, PTL DEF Spec, ImplementsAtomic, Atomic!Spec

(* -------------------------- registers of the unit ---------------------- *)

(* The registers of the unit that the following results are about. *)
Shape(h) == /\ {"ici", "sem", "idu", "cell"} \subseteq DOMAIN h
            /\ DOMAIN h.ici = Core
            /\ DOMAIN h.sem = Sem /\ DOMAIN h.cell = Cell \X Index

(* No command and no tick removes one. *)
LEMMA AfterShape ==
  ASSUME NEW h, Shape(h), NEW c, NEW op
  PROVE  Shape(After(h, c, op))
  BY DEF Shape, After, Store

(* What a command does to the semaphores: who owns none gets one, who owns *)
(* one gives it back.                                                      *)
LEMMA AfterSem ==
  ASSUME NEW h, Shape(h), NEW c, NEW op, op.cmd # "SEMA_FORCE_RELEASE"
  PROVE  \A s \in Sem : After(h, c, op).sem[s] =
           IF op.cmd = "SEMA_CLAIM_AND_READ" /\ op.param = s /\ h.sem[s] = Free THEN c
           ELSE IF op.cmd = "SEMA_RELEASE" /\ op.param = s /\ h.sem[s] = c THEN Free
           ELSE h.sem[s]
  <1>1. CASE op.cmd = "SEMA_CLAIM_AND_READ"
    <2>1. After(h, c, op) = [h EXCEPT !.sem[op.param] = IF @ = Free THEN c ELSE @]
      BY <1>1 DEF After, Store
    <2> QED
      BY <1>1, <2>1 DEF Shape
  <1>2. CASE op.cmd = "SEMA_RELEASE"
    <2>1. After(h, c, op) = [h EXCEPT !.sem[op.param] = IF @ = c THEN Free ELSE @]
      BY <1>2 DEF After, Store
    <2> QED
      BY <1>2, <2>1 DEF Shape
  <1>3. CASE op.cmd \notin {"SEMA_CLAIM_AND_READ", "SEMA_RELEASE"}
    BY <1>3 DEF Shape, After
  <1> QED
    BY <1>1, <1>2, <1>3

(* What a command does to the distribution of common interrupts. *)
LEMMA AfterIdu ==
  ASSUME NEW h, Shape(h), NEW c, NEW op
  PROVE  /\ op.cmd = "IDU_DISABLE" => After(h, c, op).idu = 0
         /\ op.cmd = "IDU_ENABLE" => After(h, c, op).idu = 1
         /\ op.cmd \notin {"IDU_ENABLE", "IDU_DISABLE"} => After(h, c, op).idu = h.idu
  BY DEF Shape, After, Store

(* A cell changes when a command stores there. *)
LEMMA AfterCell ==
  ASSUME NEW h, Shape(h), NEW c, NEW op, NEW k \in Cell \X Index, k[1] # "debug_mask",
         op.cmd \in DOMAIN Store => <<Store[op.cmd], op.param>> # k
  PROVE  After(h, c, op).cell[k] = h.cell[k]
  BY DEF Shape, After, Cell, Load, Store

(* The counter changes nothing but itself. *)
LEMMA CountedShape ==
  ASSUME NEW h, Shape(h)
  PROVE  /\ Shape(Counted(h)) /\ Counted(h).ici = h.ici
         /\ Counted(h).sem = h.sem /\ Counted(h).idu = h.idu /\ Counted(h).cell = h.cell
  BY DEF Shape, Counted

(* A step of the driver, seen as its callers see it. *)
Begins(x, c) == /\ atodo[x] = <<>> /\ atodo' = [atodo EXCEPT ![x] = c.body]
                /\ call' = [call EXCEPT ![x] = c]
                /\ UNCHANGED <<hw, agot>>
Performs(x, op) == /\ atodo[x] # <<>> /\ op = Head(atodo[x])
                   /\ hw' = After(hw, CoreOf[x], op)
                   /\ agot' = [agot EXCEPT ![x] = Reply(hw, CoreOf[x], op)]
                   /\ atodo' = [atodo EXCEPT ![x] = Tail(atodo[x])]
                   /\ call' = call
Writes(x, op) == WriteCmd(x) /\ op = Head(todo[x])

(* Entering the driver begins a call. *)
LEMMA EnterIs ==
  ASSUME IInv, NEW x \in Caller, NEW c, Enter(x, c)
  PROVE  Begins(x, c)
  <1>1. /\ pc[x] = "idle" /\ pc'[x] = "llock"
        /\ \A y \in Caller \ {x} : pc'[y] = pc[y]
    BY GotoMoves DEF Enter, IInv
  <1>2. /\ todo[x] = <<>> /\ todo'[x] = c.body
        /\ \A y \in Caller \ {x} : todo'[y] = todo[y]
    BY <1>1 DEF Enter, IInv, Pending
  <1>3. atodo[x] = <<>> /\ atodo' = [atodo EXCEPT ![x] = c.body]
    BY <1>1, <1>2 DEF atodo, Performed
  <1>4. UNCHANGED <<hw, agot>>
    BY <1>1 DEF Enter, regs, agot, Bank
  <1> QED
    BY <1>3, <1>4 DEF Begins, Enter

(* Of the steps of arc_connect_cmd_execute, the write of CMD performs the  *)
(* command, and no other changes what the callers see.                     *)
LEMMA ExecuteIs ==
  ASSUME IInv, NEW x \in Caller, Execute(x)
  PROVE  \/ \E op \in Command : Performs(x, op) /\ Writes(x, op)
         \/ UNCHANGED <<hw, call, atodo, agot>>
  <1>1. CASE WriteCmd(x)
    <2>1. Atomic!Perform(x) /\ call' = call
      BY <1>1, WriteCmdRefines DEF WriteCmd
    <2>2. Performs(x, Head(atodo[x]))
      BY <2>1 DEF Atomic!Perform, Performs, atodo, agot
    <2>3. todo[x] \in Seq(Command) /\ todo[x] # <<>> /\ atodo[x] = todo[x]
      BY <1>1, IssuedOwn DEF WriteCmd, goto, IInv, Pending, atodo, Performed
    <2>4. Head(atodo[x]) \in Command
      BY <2>3, HeadTailProperties
    <2>5. Writes(x, Head(atodo[x]))
      BY <1>1, <2>3 DEF Writes
    <2> QED
      BY <2>2, <2>4, <2>5
  <1>2. CASE ~ WriteCmd(x)
    <2>1. call' = call
      BY <1>2 DEF Execute, LLock, SCondTakes, SCondFails, WriteWdata, ReadBack, Release
    <2> QED
      BY <1>2, <2>1, OthersStutter
  <1> QED
    BY <1>1, <1>2

(* What the callers see of a step that is not theirs. *)
LEMMA SeenSame ==
  ASSUME UNCHANGED vars
  PROVE  UNCHANGED <<hw, call, atodo, agot>>
  BY DEF vars, atodo, agot, Performed, Bank

LEMMA StepIs ==
  ASSUME IInv, [Next]_vars
  PROVE  \/ \E x \in Caller : \E c \in Calls[x] : Begins(x, c)
         \/ \E x \in Caller, op \in Command : Performs(x, op) /\ Writes(x, op)
         \/ hw' = Counted(hw) /\ UNCHANGED <<call, atodo, agot>>
         \/ UNCHANGED <<hw, call, atodo, agot>>
  <1>1. ASSUME NEW x \in Caller, Invoke(x)
        PROVE  \E c \in Calls[x] : Begins(x, c)
    BY <1>1, EnterIs DEF Invoke
  <1>2. CASE Tick
    BY <1>2 DEF Tick, atodo, agot, Performed, Bank
  <1> QED
    BY <1>1, <1>2, ExecuteIs, SeenSame DEF Next

(* The commands a caller still has to perform are the last ones of the     *)
(* call it made.                                                           *)
Follows(rest, body) ==
  /\ rest \in Seq(Command) /\ Len(rest) <= Len(body)
  /\ \A i \in 1 .. Len(rest) : rest[i] = body[Len(body) - Len(rest) + i]
CallKept ==
  /\ DOMAIN call = Caller
  /\ \A x \in Caller : /\ call[x] \in Calls[x] \cup {NoCall}
                       /\ Follows(atodo[x], call[x].body)
Driven == Shape(hw) /\ CallKept

(* A command leaves the later ones to be performed. *)
LEMMA TailFollows ==
  ASSUME NEW rest, NEW body, Follows(rest, body), rest # <<>>, Len(body) \in Nat
  PROVE  /\ Follows(Tail(rest), body) /\ Len(Tail(rest)) = Len(rest) - 1
         /\ Head(rest) = body[Len(body) - Len(rest) + 1]
         /\ Len(rest) \in 1 .. Len(body)
  <1>1. /\ Len(rest) \in Nat \ {0} /\ Head(rest) = rest[1]
        /\ Tail(rest) \in Seq(Command) /\ Len(Tail(rest)) = Len(rest) - 1
        /\ \A i \in 1 .. Len(Tail(rest)) : Tail(rest)[i] = rest[i + 1]
    BY HeadTailProperties, EmptySeq DEF Follows
  <1>2. \A i \in 1 .. Len(Tail(rest)) :
          Tail(rest)[i] = body[Len(body) - Len(Tail(rest)) + i]
    <2> SUFFICES ASSUME NEW i \in 1 .. Len(Tail(rest))
                 PROVE  Tail(rest)[i] = body[Len(body) - Len(Tail(rest)) + i]
      OBVIOUS
    <2>1. i + 1 \in 1 .. Len(rest)
      BY <1>1
    <2>2. rest[i + 1] = body[Len(body) - Len(rest) + (i + 1)]
      BY <2>1 DEF Follows
    <2>3. Len(body) - Len(rest) + (i + 1) = Len(body) - Len(Tail(rest)) + i
      BY <1>1
    <2> QED
      BY <1>1, <2>2, <2>3
  <1> QED
    BY <1>1, <1>2 DEF Follows

(* The bodies of calls are sequences of commands. *)
LEMMA Bodies ==
  ASSUME NEW x \in Caller, NEW c \in Calls[x] \cup {NoCall}
  PROVE  c.body \in Seq(Command) /\ Len(c.body) \in Nat
  <1>1. CASE c \in Calls[x]
    BY <1>1, ConnectAssumption
  <1>2. CASE c = NoCall
    BY <1>2 DEF NoCall
  <1> QED
    BY <1>1, <1>2

LEMMA InitDriven ==
  ASSUME Init
  PROVE  /\ Driven /\ \A x \in Caller : atodo[x] = <<>> /\ agot[x] = 0
         /\ \A x \in Caller : call[x] = NoCall
  <1>1. Shape(hw)
    BY DEF Init, HwInit, Shape
  <1>2. \A x \in Caller : atodo[x] = <<>> /\ agot[x] = 0 /\ call[x] = NoCall
    BY DEF Init, atodo, agot, Performed
  <1>3. Follows(<<>>, NoCall.body)
    BY DEF Follows, NoCall
  <1>4. DOMAIN call = Caller
    BY DEF Init
  <1>5. CallKept
    BY <1>2, <1>3, <1>4 DEF CallKept
  <1> QED
    BY <1>1, <1>2, <1>5 DEF Driven

LEMMA NextDriven ==
  ASSUME IInv, [Next]_vars, Driven
  PROVE  Driven'
  <1>0. DOMAIN atodo = Caller
    BY DEF atodo
  <1>1. ASSUME NEW x \in Caller, NEW c \in Calls[x], Begins(x, c)
        PROVE  Driven'
    <2>1. c.body \in Seq(Command) /\ Len(c.body) \in Nat
      BY Bodies
    <2>2. Follows(c.body, c.body)
      BY <2>1 DEF Follows
    <2>3. /\ call'[x] = c /\ atodo'[x] = c.body
          /\ \A y \in Caller \ {x} : call'[y] = call[y] /\ atodo'[y] = atodo[y]
          /\ DOMAIN call' = Caller
      BY <1>0, <1>1 DEF Begins, Driven, CallKept
    <2>4. \A y \in Caller : /\ call'[y] \in Calls[y] \cup {NoCall}
                             /\ Follows(atodo'[y], call'[y].body)
      BY <2>2, <2>3 DEF Driven, CallKept
    <2>5. CallKept'
      BY <2>3, <2>4 DEF CallKept
    <2> QED
      BY <1>1, <2>5 DEF Driven, Begins, Shape
  <1>2. ASSUME NEW x \in Caller, NEW op \in Command, Performs(x, op)
        PROVE  Driven'
    <2>1. Follows(atodo[x], call[x].body) /\ Len(call[x].body) \in Nat
      BY Bodies DEF Driven, CallKept
    <2>2. Follows(Tail(atodo[x]), call[x].body)
      BY <1>2, <2>1, TailFollows DEF Performs
    <2>3. /\ atodo'[x] = Tail(atodo[x])
          /\ \A y \in Caller \ {x} : atodo'[y] = atodo[y]
          /\ call' = call
      BY <1>0, <1>2 DEF Performs
    <2>4. \A y \in Caller : /\ call'[y] \in Calls[y] \cup {NoCall}
                             /\ Follows(atodo'[y], call'[y].body)
      BY <2>2, <2>3 DEF Driven, CallKept
    <2>5. CallKept'
      BY <2>3, <2>4 DEF Driven, CallKept
    <2>6. hw' = After(hw, CoreOf[x], op) /\ Shape(After(hw, CoreOf[x], op))
      BY <1>2, AfterShape DEF Driven, Performs
    <2> QED
      BY <2>5, <2>6 DEF Driven
  <1>3. CASE hw' = Counted(hw) /\ UNCHANGED <<call, atodo, agot>>
    BY <1>3, CountedShape DEF Driven, Shape, CallKept, Follows
  <1>4. CASE UNCHANGED <<hw, call, atodo, agot>>
    BY <1>4, ZenonT(60) DEF Driven, Shape, CallKept, Follows
  <1> QED
    BY <1>1, <1>2, <1>3, <1>4, StepIs

(* A command that is performed is one of its caller's. *)
LEMMA OpIs ==
  ASSUME IInv, Driven, NEW x \in Caller, NEW op, Performs(x, op)
  PROVE  /\ call[x] \in Calls[x] /\ op \in Ops(x)
         /\ Len(atodo[x]) \in 1 .. Len(call[x].body)
         /\ op = call[x].body[Len(call[x].body) - Len(atodo[x]) + 1]
         /\ atodo'[x] = Tail(atodo[x]) /\ Len(atodo'[x]) = Len(atodo[x]) - 1
         /\ agot'[x] = Reply(hw, CoreOf[x], op)
         /\ \A y \in Caller \ {x} : atodo'[y] = atodo[y] /\ agot'[y] = agot[y]
         /\ hw' = After(hw, CoreOf[x], op) /\ call' = call
  <1>1. DOMAIN atodo = Caller /\ DOMAIN agot = Caller
    BY DEF atodo, agot
  <1>2. /\ call[x] \in Calls[x] \cup {NoCall}
        /\ Follows(atodo[x], call[x].body)
        /\ call[x].body \in Seq(Command) /\ Len(call[x].body) \in Nat
    BY Bodies DEF Driven, CallKept
  <1>3. /\ op = call[x].body[Len(call[x].body) - Len(atodo[x]) + 1]
        /\ Len(atodo[x]) \in 1 .. Len(call[x].body)
        /\ Len(Tail(atodo[x])) = Len(atodo[x]) - 1
    BY <1>2, TailFollows DEF Performs
  <1>4. call[x] \in Calls[x]
    BY <1>2, <1>3 DEF NoCall
  <1>5. op \in Ops(x)
    <2> DEFINE body == call[x].body
               m == Len(body)
               n == Len(atodo[x])
               i == m - n + 1
    <2>1. body \in Seq(Command) /\ m = Len(body) /\ m \in Nat /\ n \in 1 .. m /\ op = body[i]
      BY <1>2, <1>3
    <2> HIDE DEF body, m, n
    <2>2. i \in 1 .. m
      BY <2>1
    <2>3. op \in Range(body)
      BY <2>1, <2>2 DEF Range
    <2>4. op \in Range(call[x].body)
      BY <2>3 DEF body
    <2> HIDE DEF i
    <2> QED
      BY <1>4, <2>4 DEF Ops
  <1> QED
    BY <1>1, <1>3, <1>4, <1>5 DEF Performs

(* Beginning a call changes its caller only. *)
LEMMA BeginsIs ==
  ASSUME Driven, NEW x \in Caller, NEW c \in Calls[x], Begins(x, c)
  PROVE  /\ call'[x] = c /\ atodo'[x] = c.body /\ c.body # <<>>
         /\ \A y \in Caller \ {x} : call'[y] = call[y] /\ atodo'[y] = atodo[y]
         /\ UNCHANGED <<hw, agot>>
  <1>1. DOMAIN atodo = Caller /\ DOMAIN call = Caller
    BY DEF atodo, Driven, CallKept
  <1> QED
    BY <1>1, ConnectAssumption DEF Begins

(* A core that was told it got a semaphore owns it. *)
Owned == \A x \in Caller, s \in Sem :
           call[x] = ics_take(s) /\ atodo[x] = <<>> /\ agot[x] = 1 => hw.sem[s] = CoreOf[x]

LEMMA NextOwned ==
  ASSUME OwnReleases, IInv, Driven, Owned, [Next]_vars
  PROVE  Owned'
  <1>1. ASSUME NEW y \in Caller, NEW c \in Calls[y], Begins(y, c)
        PROVE  Owned'
    BY <1>1, BeginsIs DEF Owned
  <1>2. ASSUME NEW y \in Caller, NEW op \in Command, Performs(y, op)
        PROVE  Owned'
    <2> SUFFICES ASSUME NEW x \in Caller, NEW s \in Sem, call'[x] = ics_take(s),
                        atodo'[x] = <<>>, agot'[x] = 1
                 PROVE  hw'.sem[s] = CoreOf[x]
      BY DEF Owned
    <2>0. /\ call' = call /\ hw' = After(hw, CoreOf[y], op) /\ op \in Ops(y)
          /\ Len(atodo[y]) \in 1 .. Len(call[y].body)
          /\ op = call[y].body[Len(call[y].body) - Len(atodo[y]) + 1]
          /\ agot'[y] = Reply(hw, CoreOf[y], op)
          /\ \A z \in Caller \ {y} : atodo'[z] = atodo[z] /\ agot'[z] = agot[z]
      BY <1>2, OpIs
    <2>1. CoreOf[x] \in Core /\ CoreOf[x] # Free /\ op.cmd # "SEMA_FORCE_RELEASE"
      BY ConnectAssumption DEF OwnReleases
    <2>2. /\ call' = call /\ call[x] = ics_take(s)
          /\ hw'.sem[s] =
               IF op.cmd = "SEMA_CLAIM_AND_READ" /\ op.param = s /\ hw.sem[s] = Free
                 THEN CoreOf[y]
               ELSE IF op.cmd = "SEMA_RELEASE" /\ op.param = s /\ hw.sem[s] = CoreOf[y]
                 THEN Free
               ELSE hw.sem[s]
      <3>1. Shape(hw) /\ op.cmd # "SEMA_FORCE_RELEASE"
        BY <2>1 DEF Driven
      <3>2. After(hw, CoreOf[y], op).sem[s] =
              IF op.cmd = "SEMA_CLAIM_AND_READ" /\ op.param = s /\ hw.sem[s] = Free
                THEN CoreOf[y]
              ELSE IF op.cmd = "SEMA_RELEASE" /\ op.param = s /\ hw.sem[s] = CoreOf[y]
                THEN Free
              ELSE hw.sem[s]
        BY <3>1, AfterSem
      <3> QED
        BY <2>0, <3>2
    <2>3. CASE x = y
      <3>1. op = CmdReturn("SEMA_CLAIM_AND_READ", s)
        <4>1. /\ call[x].body = <<CmdReturn("SEMA_CLAIM_AND_READ", s)>>
              /\ Len(call[x].body) = 1
          BY <2>2 DEF ics_take, API
        <4> DEFINE n == Len(atodo[x])
        <4>2. n \in 1 .. 1 /\ op = call[x].body[1 - n + 1]
          BY <2>0, <2>3, <4>1
        <4> HIDE DEF n
        <4>3. op = call[x].body[1]
          BY <4>2
        <4> QED
          BY <4>1, <4>3
      <3>2. op.cmd = "SEMA_CLAIM_AND_READ" /\ op.param = s
        BY <3>1 DEF CmdReturn
      <3>3. Reply(hw, CoreOf[x], op) = IF hw.sem[s] \in {Free, CoreOf[x]} THEN 1 ELSE 0
        BY <3>2 DEF Reply, Load
      <3>4. hw.sem[s] \in {Free, CoreOf[x]}
        BY <2>0, <2>3, <3>3
      <3> QED
        BY <2>2, <2>3, <3>2, <3>4
    <2>4. CASE x # y
      <3>1. hw.sem[s] = CoreOf[x]
        BY <2>0, <2>2, <2>4 DEF Owned
      <3>2. \E other \in Ops(x) : other.cmd = "SEMA_CLAIM_AND_READ" /\ other.param = s
        <4> DEFINE claim == CmdReturn("SEMA_CLAIM_AND_READ", s)
        <4>1. call[x] \in Calls[x]
          BY <2>2 DEF Driven, CallKept, NoCall, ics_take, API
        <4>2. claim \in Range(call[x].body)
          BY <2>2 DEF ics_take, API, Range
        <4>3. claim.cmd = "SEMA_CLAIM_AND_READ" /\ claim.param = s
          BY DEF CmdReturn
        <4> QED
          BY <4>1, <4>2, <4>3 DEF Ops
      <3>3. ~ (op.cmd = "SEMA_RELEASE" /\ op.param = s /\ hw.sem[s] = CoreOf[y])
        BY <2>0, <2>4, <3>1, <3>2 DEF OwnReleases
      <3> QED
        BY <2>1, <2>2, <3>1, <3>3
    <2> QED
      BY <2>3, <2>4
  <1>3. CASE hw' = Counted(hw) /\ UNCHANGED <<call, atodo, agot>>
    BY <1>3, CountedShape DEF Driven, Owned
  <1>4. CASE UNCHANGED <<hw, call, atodo, agot>>
    BY <1>4 DEF Owned
  <1> QED
    BY <1>1, <1>2, <1>3, <1>4, StepIs

(* A caller that is back from the driver has performed its call. *)
LEMMA IdleDone ==
  ASSUME IInv, NEW x \in Caller, pc[x] = "idle"
  PROVE  atodo[x] = <<>> /\ agot[x] = got[x]
  BY DEF IInv, Pending, atodo, agot, Performed

(* A semaphore that arc_connect_ics_take granted is granted to no other    *)
(* core before it is released, when contexts of one core do not release    *)
(* what another of them claims (arc_connect.c:394).                        *)
THEOREM SemaphoresExclude ==
  ASSUME OwnReleases
  PROVE  Spec => []SemaphoreExclusive
  <1>1. Init => Driven /\ Owned
    BY InitDriven DEF Owned
  <1>2. IInv /\ Driven /\ Owned /\ [Next]_vars => Driven' /\ Owned'
    BY NextDriven, NextOwned
  <1>3. IInv /\ Owned => SemaphoreExclusive
    BY IdleDone DEF Owned, SemaphoreExclusive, Granted
  <1> QED
    BY Invariant, <1>1, <1>2, <1>3, PTL DEF Spec

(* arc_connect_idu_config_irq disables first and enables last. *)
LEMMA ConfigShape ==
  ASSUME NEW to, NEW irq, NEW trigger, NEW distri
  PROVE  Configures(idu_config_irq(to, irq, trigger, distri))
  BY DEF Configures, idu_config_irq, idu_disable, idu_set_mode, idu_set_dest, idu_set_mask,
         idu_enable, API, CmdOnly, CmdWdata

(* Where a configuration is, its callers' view of it. *)
LEMMA ConfiguringIs ==
  ASSUME NEW x \in Caller
  PROVE  /\ Configuring(x) <=> call[x].fn = "idu_config_irq" /\ Len(atodo[x]) \in 1 .. 4
         /\ Configured(x) <=> call[x].fn = "idu_config_irq" /\ atodo[x] = <<>>
         /\ Configuring(x)' <=> call'[x].fn = "idu_config_irq" /\ Len(atodo'[x]) \in 1 .. 4
         /\ Configured(x)' <=> call'[x].fn = "idu_config_irq" /\ atodo'[x] = <<>>
  BY DEF Configuring, Configured, Left, atodo, Performed

(* The command a configuration performs, by the number it has left. *)
LEMMA ConfigOp ==
  ASSUME ConfiguresAsDriver, IInv, Driven, NEW x \in Caller, NEW op, Performs(x, op),
         call[x].fn = "idu_config_irq"
  PROVE  /\ Len(atodo[x]) \in 1 .. 5 /\ Len(atodo'[x]) = Len(atodo[x]) - 1
         /\ Len(atodo[x]) = 5 => op.cmd = "IDU_DISABLE"
         /\ op.cmd = "IDU_ENABLE" <=> Len(atodo[x]) = 1
  <1> DEFINE n == Len(atodo[x])
             body == call[x].body
  <1>1. /\ Len(body) = 5 /\ body[1].cmd = "IDU_DISABLE" /\ body[5].cmd = "IDU_ENABLE"
        /\ \A i \in 2 .. 4 : body[i].cmd # "IDU_ENABLE"
    BY OpIs DEF ConfiguresAsDriver, Configures
  <1>2. n \in 1 .. 5 /\ Len(atodo'[x]) = n - 1 /\ op = body[5 - n + 1]
    BY <1>1, OpIs, ZenonT(60)
  <1> HIDE DEF n, body
  <1>3. /\ n = 5 => op.cmd = "IDU_DISABLE"
        /\ op.cmd = "IDU_ENABLE" <=> n = 1
    <2>1. CASE n = 5
      BY <1>1, <1>2, <2>1
    <2>2. CASE n = 1
      BY <1>1, <1>2, <2>2
    <2>3. CASE n \in 2 .. 4
      <3>1. 5 - n + 1 \in 2 .. 4
        BY <2>3
      <3> QED
        BY <1>1, <1>2, <2>3, <3>1
    <2> QED
      BY <1>2, <2>1, <2>2, <2>3
  <1> QED
    BY <1>2, <1>3 DEF n

(* What a step may do to the distribution under a configuration. *)
LEMMA StepQuiet ==
  ASSUME ConfiguresAsDriver, IInv, Driven, [Next]_vars,
         NEW x \in Caller, Configuring(x)', hw'.idu = 1
  PROVE  \/ Configuring(x) /\ hw.idu = 1
         \/ \E y \in Caller \ {x} : Enables(y)
  <1>0. call'[x].fn = "idu_config_irq" /\ Len(atodo'[x]) \in 1 .. 4
    BY ConfiguringIs
  <1>1. ASSUME NEW y \in Caller, NEW c \in Calls[y], Begins(y, c)
        PROVE  Configuring(x) /\ hw.idu = 1
    <2>1. c.fn = "idu_config_irq" => Len(c.body) = 5
      BY DEF ConfiguresAsDriver, Configures
    <2>2. x # y
      <3>1. x = y => call'[x] = c /\ atodo'[x] = c.body
        BY <1>1, BeginsIs
      <3>2. x = y => Len(atodo'[x]) = 5
        BY <1>0, <2>1, <3>1, Zenon
      <3> QED
        BY <1>0, <3>2
    <2> QED
      BY <1>0, <1>1, <2>2, BeginsIs, ConfiguringIs
  <1>2. ASSUME NEW y \in Caller, NEW op \in Command, Performs(y, op), Writes(y, op)
        PROVE  \/ Configuring(x) /\ hw.idu = 1
               \/ \E z \in Caller \ {x} : Enables(z)
    <2>1. /\ call' = call /\ hw' = After(hw, CoreOf[y], op)
          /\ \A z \in Caller \ {y} : atodo'[z] = atodo[z]
      BY <1>2, OpIs
    <2>2. /\ op.cmd # "IDU_DISABLE"
          /\ op.cmd # "IDU_ENABLE" => hw.idu = 1
      BY <2>1, AfterIdu DEF Driven
    <2>3. CASE x = y
      <3> DEFINE n == Len(atodo[x])
                 m == Len(atodo'[x])
      <3>1. n \in 2 .. 4 /\ op.cmd # "IDU_ENABLE"
        <4>1. /\ n \in 1 .. 5 /\ m = n - 1
              /\ n = 5 => op.cmd = "IDU_DISABLE"
              /\ op.cmd = "IDU_ENABLE" <=> n = 1
          BY <1>0, <1>2, <2>1, <2>3, ConfigOp, Zenon
        <4>2. m \in 1 .. 4
          BY <1>0
        <4> HIDE DEF n, m
        <4> QED
          BY <2>2, <4>1, <4>2
      <3> QED
        BY <1>0, <2>1, <2>2, <3>1, ConfiguringIs
    <2>4. CASE x # y /\ op.cmd = "IDU_ENABLE"
      BY <1>2, <2>4 DEF Enables, Writes
    <2>5. CASE x # y /\ op.cmd # "IDU_ENABLE"
      BY <1>0, <2>1, <2>2, <2>5, ConfiguringIs
    <2> QED
      BY <2>3, <2>4, <2>5
  <1>3. CASE hw' = Counted(hw) /\ UNCHANGED <<call, atodo, agot>>
    BY <1>0, <1>3, CountedShape, ConfiguringIs DEF Driven
  <1>4. CASE UNCHANGED <<hw, call, atodo, agot>>
    BY <1>0, <1>4, ConfiguringIs
  <1> QED
    BY <1>1, <1>2, <1>3, <1>4, StepIs

(* While the distribution is off, a configuration is open that will turn   *)
(* it on.                                                                  *)
LEMMA NextRouting ==
  ASSUME ConfiguresAsDriver, OnlyConfigsDisable, IInv, Driven, RoutingReturns, [Next]_vars
  PROVE  RoutingReturns'
  <1> SUFFICES ASSUME hw'.idu = 0, NEW x \in Caller, Configured(x)'
               PROVE  \E z \in Caller : Configuring(z)'
    BY DEF RoutingReturns
  <1>0. call'[x].fn = "idu_config_irq" /\ atodo'[x] = <<>>
    BY ConfiguringIs
  <1>1. ASSUME NEW y \in Caller, NEW c \in Calls[y], Begins(y, c)
        PROVE  \E z \in Caller : Configuring(z)'
    <2>1. /\ call'[y] = c /\ atodo'[y] = c.body /\ c.body # <<>> /\ hw' = hw
          /\ \A z \in Caller \ {y} : call'[z] = call[z] /\ atodo'[z] = atodo[z]
          /\ atodo[y] = <<>>
      BY <1>1, BeginsIs DEF Begins
    <2>2. Configured(x)
      BY <1>0, <2>1, ConfiguringIs
    <2>3. PICK z \in Caller : Configuring(z)
      BY <2>1, <2>2 DEF RoutingReturns
    <2>4. z # y
      BY <2>1, <2>3, ConfiguringIs
    <2> QED
      BY <2>1, <2>3, <2>4, ConfiguringIs
  <1>2. ASSUME NEW y \in Caller, NEW op \in Command, Performs(y, op)
        PROVE  \E z \in Caller : Configuring(z)'
    <2>1. /\ call' = call /\ hw' = After(hw, CoreOf[y], op)
          /\ \A z \in Caller \ {y} : atodo'[z] = atodo[z]
          /\ call[y] \in Calls[y]
      BY <1>2, OpIs
    <2>2. /\ op.cmd # "IDU_ENABLE"
          /\ op.cmd # "IDU_DISABLE" => hw.idu = 0
      BY <2>1, AfterIdu DEF Driven
    <2>3. call[y].fn = "idu_config_irq" => Len(atodo'[y]) \in 1 .. 4
      <3> DEFINE n == Len(atodo[y])
                 m == Len(atodo'[y])
      <3>1. call[y].fn = "idu_config_irq" =>
              n \in 1 .. 5 /\ m = n - 1 /\ (op.cmd = "IDU_ENABLE" <=> n = 1)
        BY <1>2, ConfigOp
      <3> HIDE DEF n, m
      <3>2. call[y].fn = "idu_config_irq" => m \in 1 .. 4
        BY <2>2, <3>1
      <3> QED
        BY <3>2 DEF m
    <2>4. CASE op.cmd = "IDU_DISABLE"
      <3>1. call[y].fn = "idu_config_irq"
        <4> DEFINE m == Len(call[y].body)
                   n == Len(atodo[y])
                   i == m - n + 1
        <4>1. n \in 1 .. m /\ op = call[y].body[i]
          BY <1>2, OpIs
        <4>2. m \in Nat
          BY <2>1, Bodies
        <4> HIDE DEF m, n
        <4>3. i \in 1 .. m
          BY <4>1, <4>2
        <4> HIDE DEF i
        <4>4. i \in 1 .. Len(call[y].body)
          BY <4>3 DEF m
        <4> QED
          BY <2>1, <2>4, <4>1, <4>4 DEF OnlyConfigsDisable
      <3>2. Configuring(y)'
        BY <2>1, <2>3, <3>1, ConfiguringIs
      <3> QED
        BY <3>2
    <2>5. CASE op.cmd # "IDU_DISABLE"
      <3>1. x # y
        <4>1. Len(atodo'[x]) = 0
          BY <1>0
        <4>2. ~ (Len(atodo'[x]) \in 1 .. 4)
          BY <4>1
        <4> QED
          BY <1>0, <2>1, <2>3, <4>2, Zenon
      <3>2. Configured(x)
        BY <1>0, <2>1, <3>1, ConfiguringIs
      <3>3. PICK z \in Caller : Configuring(z)
        BY <2>2, <2>5, <3>2 DEF RoutingReturns
      <3>4. call[z].fn = "idu_config_irq" /\ Len(atodo[z]) \in 1 .. 4
        BY <3>3, ConfiguringIs
      <3>5. Len(atodo'[z]) \in 1 .. 4
        BY <2>1, <2>3, <3>4, Zenon
      <3> QED
        BY <2>1, <3>4, <3>5, ConfiguringIs
    <2> QED
      BY <2>4, <2>5
  <1>3. CASE hw' = Counted(hw) /\ UNCHANGED <<call, atodo, agot>>
    BY <1>0, <1>3, CountedShape, ConfiguringIs DEF Driven, RoutingReturns
  <1>4. CASE UNCHANGED <<hw, call, atodo, agot>>
    BY <1>0, <1>4, ConfiguringIs DEF RoutingReturns
  <1> QED
    BY <1>1, <1>2, <1>3, <1>4, StepIs

(* arc_connect_idu_config_irq, run by any number of contexts at a time:    *)
(* between its first and its last command only another context's enable    *)
(* turns the distribution on, and the distribution is not left off when    *)
(* overlapping configurations have returned, if nothing else disables it   *)
(* (arc_connect.c:317-321).                                                *)
THEOREM DistributionIsGuarded ==
  ASSUME ConfiguresAsDriver, OnlyConfigsDisable
  PROVE  Spec => DistributionGuarded
  <1>1. Init => Driven /\ RoutingReturns
    BY InitDriven, ConfiguringIs DEF RoutingReturns, NoCall
  <1>2. IInv /\ Driven /\ RoutingReturns /\ [Next]_vars => Driven' /\ RoutingReturns'
    BY NextDriven, NextRouting
  <1>3. IInv /\ Driven /\ RoutingReturns /\ [Next]_vars
          => [QuietWhileConfiguring /\ RoutingReturns']_vars
    BY StepQuiet, NextRouting DEF QuietWhileConfiguring
  <1> QED
    BY Invariant, <1>1, <1>2, <1>3, PTL DEF Spec, DistributionGuarded

(* The reading functions load the registers they are named after. *)
LEMMA GetterShape ==
  ASSUME NEW i \in Index
  PROVE  /\ Reads(idu_read_dest(i)) /\ Reads(idu_read_mask(i)) /\ Reads(pdm_pdstatus_read(i))
         /\ Reads(icm_ecc_ctrl_read) /\ Reads(debug_select_read) /\ Reads(gfrc_core_read)
         /\ Reads(pmu_pucnt_read) /\ Reads(pmu_rstcnt_read) /\ Reads(pmu_pdccnt_read)
  BY HwAssumption
     DEF Reads, Getter, Load, API, CmdReturn, idu_read_dest, idu_read_mask, icm_ecc_ctrl_read,
         debug_select_read, gfrc_core_read, pdm_pdstatus_read, pmu_pucnt_read, pmu_rstcnt_read,
         pmu_pdccnt_read

(* A command that loads a cell is told its content. *)
LEMMA ReplyLoad ==
  ASSUME NEW h, NEW c, NEW op, op.cmd \in DOMAIN Load
  PROVE  /\ Reply(h, c, op) = h.cell[<<Load[op.cmd], op.param>>]
         /\ op.cmd \notin DOMAIN Store
  BY DEF Reply, Load, Store

(* What a reading function is told is what the register holds. *)
Told == \A x \in Caller : call[x].fn \in DOMAIN Getter /\ atodo[x] = <<>>
          => agot[x] = hw.cell[<<Getter[call[x].fn], call[x].body[1].param>>]

LEMMA NextTold ==
  ASSUME OwnRegisters, IInv, Driven, Told, [Next]_vars
  PROVE  Told'
  <1>1. ASSUME NEW y \in Caller, NEW c \in Calls[y], Begins(y, c)
        PROVE  Told'
    BY <1>1, BeginsIs DEF Told
  <1>2. ASSUME NEW y \in Caller, NEW op \in Command, Performs(y, op)
        PROVE  Told'
    <2> SUFFICES ASSUME NEW x \in Caller, call'[x].fn \in DOMAIN Getter, atodo'[x] = <<>>
                 PROVE  agot'[x] = hw'.cell[<<Getter[call'[x].fn], call'[x].body[1].param>>]
      BY DEF Told
    <2> DEFINE k == <<Getter[call[x].fn], call[x].body[1].param>>
    <2>1. /\ call' = call /\ hw' = After(hw, CoreOf[y], op) /\ call[y] \in Calls[y]
          /\ op \in Ops(y)
      BY <1>2, OpIs
    <2>0. /\ agot'[y] = Reply(hw, CoreOf[y], op)
          /\ Len(call[y].body) = 1 => op = call[y].body[1]
      <3> DEFINE m == Len(call[y].body)
                 n == Len(atodo[y])
      <3>1. n \in 1 .. m /\ op = call[y].body[m - n + 1] /\ agot'[y] = Reply(hw, CoreOf[y], op)
        BY <1>2, OpIs
      <3> HIDE DEF n
      <3>2. m = 1 => op = call[y].body[1]
        BY <3>1
      <3> QED
        BY <3>1, <3>2
    <2>2. call[x] \in Calls[x]
      BY <2>1 DEF Driven, CallKept, NoCall, Getter
    <2>3. /\ Len(call[x].body) = 1
          /\ call[x].body[1].cmd \in DOMAIN Load
          /\ Load[call[x].body[1].cmd] = Getter[call[x].fn]
          /\ call[x].body[1].param \in Index
      BY <2>1, <2>2 DEF OwnRegisters, Reads
    <2>4. k \in Cell \X Index /\ k[1] # "debug_mask"
      <3>1. Getter[call[x].fn] \in Cell
        BY <2>3 DEF Cell
      <3>2. Getter[call[x].fn] # "debug_mask"
        BY <2>1 DEF Getter
      <3> QED
        BY <2>3, <3>1, <3>2
    <2>5. op.cmd \in DOMAIN Store => <<Store[op.cmd], op.param>> # k
      <3>1. CASE x = y
        <4>1. op = call[x].body[1]
          BY <2>0, <2>3, <3>1
        <4> QED
          BY <2>3, <4>1, ReplyLoad
      <3>2. CASE x # y
        BY <2>1, <2>2, <3>2 DEF OwnRegisters
      <3> QED
        BY <3>1, <3>2
    <2>6. hw'.cell[k] = hw.cell[k]
      BY <2>1, <2>4, <2>5, AfterCell DEF Driven
    <2>7. agot'[x] = hw.cell[k]
      <3>1. CASE x = y
        <4>1. op = call[x].body[1] /\ agot'[x] = Reply(hw, CoreOf[x], op)
          BY <2>0, <2>3, <3>1
        <4>2. op.cmd \in DOMAIN Load /\ <<Load[op.cmd], op.param>> = k
          BY <2>3, <4>1
        <4> HIDE DEF k
        <4> QED
          BY <4>1, <4>2, ReplyLoad, ZenonT(60)
      <3>2. CASE x # y
        BY <1>2, <2>1, <3>2, OpIs, ZenonT(60) DEF Told
      <3> QED
        BY <3>1, <3>2
    <2> QED
      BY <2>1, <2>6, <2>7
  <1>3. CASE hw' = Counted(hw) /\ UNCHANGED <<call, atodo, agot>>
    BY <1>3, CountedShape DEF Driven, Told
  <1>4. CASE UNCHANGED <<hw, call, atodo, agot>>
    BY <1>4 DEF Told
  <1> QED
    BY <1>1, <1>2, <1>3, <1>4, StepIs

(* The reading functions of the driver return the register they are named  *)
(* after, whatever the other contexts do in between, as long as they do    *)
(* not write that register (arc_connect.c).                                *)
THEOREM GettersTell ==
  ASSUME OwnRegisters
  PROVE  Spec => []GettersTellRegister
  <1>1. Init => Driven /\ Told
    BY InitDriven DEF Told, NoCall, Getter
  <1>2. IInv /\ Driven /\ Told /\ [Next]_vars => Driven' /\ Told'
    BY NextDriven, NextTold
  <1>3. IInv /\ Told => GettersTellRegister
    BY IdleDone DEF Told, GettersTellRegister, Returned
  <1> QED
    BY Invariant, <1>1, <1>2, <1>3, PTL DEF Spec
=============================================================================
