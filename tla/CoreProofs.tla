----------------------------- MODULE CoreProofs ----------------------------
(***************************************************************************)
(* Proofs about what every program on one core uses: the interrupt         *)
(* management, for any interrupts, any number of priorities and any API    *)
(* calls of the thread and of the handlers, and the bare-metal time base,  *)
(* for any period of the timer, any number of periods in a millisecond and *)
(* any delays.  The two share no state.                                    *)
(***************************************************************************)
EXTENDS ArcInterrupt, WellFoundedInduction, TLAPS

CONSTANTS Limit, Conv, Width, MayMask, Delays, Horizon
VARIABLES cnt, ip, masked, sys_ms_update, gl_ms_cnt, tpc, sub, value, start, delay, now, begun
Time == INSTANCE BoardTimer WITH pc <- tpc

(* ---------------------- the interrupt management ------------------------ *)

(* The order of the priorities. *)
Less == {pair \in Nat \X Nat : pair[1] < pair[2]}

(* No sequence of priorities descends for ever. *)
LEMMA LessWellFounded == IsWellFoundedOn(Less, Nat)
  <1>1. OpToRel(<, Nat) = Less
    BY DEF OpToRel, Less
  <1> QED
    BY <1>1, NatLessThanWellFounded

(* The core runs the thread when nothing is active, else an active handler. *)
LEMMA RunningIs ==
  ASSUME InterruptConstants, act \subseteq Priority
  PROVE  (act = {} /\ Running = THREAD) \/ (act # {} /\ Running \in act)
  <1>1. CASE act = {}
    BY <1>1 DEF Running
  <1>2. CASE act # {}
    <2>1. act \in SUBSET Nat
      BY DEF Priority, InterruptConstants
    <2>2. PICK c \in act : \A d \in act : <<d, c>> \notin Less
      BY <1>2, <2>1, WFMin, LessWellFounded
    <2>3. \A d \in act : ~ (d < c)
      BY <2>1, <2>2 DEF Less
    <2>4. \A d \in act : c <= d
      BY <2>1, <2>3
    <2> QED
      BY <1>2, <2>4 DEF Running
  <1> QED
    BY <1>1, <1>2

(* The thread is no priority, and the first values fit their registers. *)
LEMMA Numbers ==
  ASSUME InterruptConstants
  PROVE  /\ THREAD \notin Priority /\ THREAD \in Context
         /\ Priority \subseteq Context
         /\ \A c \in Context : c # THREAD => c \in Priority
         /\ Lowest \in Priority
         /\ NumExcAll - 1 \in Irq
         /\ \A p \in Priority : p - Levels \in Int
         /\ \A i \in Int : Valid(i) <=> i \in Irq
  BY DEF InterruptConstants, THREAD, Priority, Context, Lowest, Irq, Valid

(* A context runs the API only while it is the one the core executes. *)
LEMMA RunningContext ==
  ASSUME InterruptConstants, TypeOK, NEW c \in Context, c = Running
  PROVE  IF c = THREAD THEN act = {} ELSE c \in act
  BY RunningIs, Numbers DEF TypeOK

(* Where a call starts. *)
LEMMA StartIs ==
  ASSUME InterruptConstants, NEW call, Fits(call)
  PROVE  /\ first(call) \in {"lock", "select", "reject", "single"}
         /\ first(call) = "lock" => call.fn = "int_pri_set" /\ call.irq \in Irq
         /\ first(call) = "select" => call.fn # "int_pri_set" /\ call.irq \in Irq
  <1>1. CASE call.fn = "int_pri_set" /\ Valid(call.irq)
    BY <1>1, Numbers DEF first, Fits
  <1>2. CASE call.fn = "int_pri_set" /\ ~ Valid(call.irq)
    BY <1>2 DEF first, Windowed
  <1>3. CASE call.fn # "int_pri_set" /\ call.fn \in Windowed /\ Valid(call.irq)
    BY <1>3, Numbers DEF first, Fits
  <1>4. CASE call.fn # "int_pri_set" /\ call.fn \in Windowed /\ ~ Valid(call.irq)
    BY <1>4 DEF first
  <1>5. CASE call.fn \notin Windowed
    BY <1>5 DEF first, Windowed
  <1> QED
    BY <1>1, <1>2, <1>3, <1>4, <1>5

(* Every call a context is in fits, the one of a context that was in none too. *)
LEMMA CallsFit ==
  ASSUME InterruptConstants
  PROVE  \A call \in Calls : Fits(call)
  BY DEF InterruptConstants, Calls, NoCall, Call, Fits, NoIrq

(* The core starts in the invariant. *)
LEMMA InitInv ==
  ASSUME InterruptConstants, Init
  PROVE  IInv
  <1> USE Numbers
  <1>1. TypeOK
    <2>1. <<1, Lowest>> \in Word
      BY DEF Word, Bit
    <2>2. NoCall \in Calls
      BY DEF Calls
    <2>3. frame \in [Priority -> [status : Word, hint : Irq \cup {NoIrq}]]
      BY <2>1 DEF Init
    <2>4. op \in [Context -> Calls]
      BY <2>2 DEF Init
    <2>5. saved \in [Context -> Word]
      BY <2>1 DEF Init
    <2>6. /\ ie \in Bit /\ e \in Priority /\ select \in Irq
          /\ enable \in [Irq -> Bit] /\ pri \in [Irq -> Priority]
          /\ secure \in [Irq -> Bit] /\ trigger \in [Irq -> Bit]
      BY DEF Init, exc_int_init, Bit
    <2>7. pc \in [Context -> Place] /\ ret \in [Context -> Int]
      BY DEF Init, Place
    <2> QED
      BY <2>3, <2>4, <2>5, <2>6, <2>7 DEF Init, TypeOK
  <1>2. InCall /\ Caused /\ StaysLocked /\ CriticalSection
    BY DEF Init, InCall, Caused, StaysLocked, CriticalSection
  <1>3. Alone
    BY DEF Init, Alone, Guarded
  <1> QED
    BY <1>1, <1>2, <1>3 DEF IInv

(* A call the thread makes starts outside every window. *)
LEMMA EnterInv ==
  ASSUME InterruptConstants, IInv, NEW call \in ThreadCalls, Enter(call)
  PROVE  IInv'
  <1>1. call \in Calls /\ Fits(call)
    BY CallsFit DEF Calls
  <1>2. TypeOK'
    BY <1>1, StartIs, Numbers DEF IInv, TypeOK, Enter, goto, status, windows, history, cpu, Place
  <1>3. InCall'
    BY <1>1, StartIs, Numbers DEF IInv, TypeOK, InCall, Enter, goto, status, windows, history, cpu
  <1>4. Alone'
    BY <1>1, StartIs, Numbers DEF IInv, TypeOK, Alone, Guarded, Running, Enter, goto, status, windows, history, cpu
  <1>5. (Caused /\ StaysLocked /\ CriticalSection)'
    BY <1>1, StartIs, Numbers
       DEF IInv, TypeOK, Caused, StaysLocked, CriticalSection, Guarded, Enter, goto, status, windows, history, cpu
  <1> QED
    BY <1>2, <1>3, <1>4, <1>5 DEF IInv

(* A call that is refused. *)
LEMMA RejectInv ==
  ASSUME InterruptConstants, IInv, NEW c \in Context, Reject(c)
  PROVE  IInv'
  <1> USE RunningContext, Numbers DEF IInv, TypeOK, Reject, goto, after, Returns, status, windows, history, cpu
  <1>2. TypeOK'
    BY DEF Place, Bit, Word
  <1>3. InCall'
    BY DEF InCall
  <1>4. Alone'
    BY DEF Alone, Guarded, Running
  <1>5. Caused'
    BY DEF Caused
  <1>6. (StaysLocked /\ CriticalSection)'
    BY DEF StaysLocked, CriticalSection, Guarded, Alone
  <1> QED
    BY <1>2, <1>3, <1>4, <1>5, <1>6

(* clri: from here on the context is alone. *)
LEMMA LockInv ==
  ASSUME InterruptConstants, IInv, NEW c \in Context, Lock(c)
  PROVE  IInv'
  <1> USE RunningContext, Numbers DEF IInv, TypeOK, Lock, goto, after, Returns, status, windows, history, cpu
  <1>1. <<ie, e>> \in Word
    BY DEF Word
  <1>2. TypeOK'
    BY DEF Place, Bit, Word
  <1>3. InCall'
    BY DEF InCall
  <1>4. Alone'
    BY DEF Alone, Guarded, Running
  <1>5. Caused'
    BY DEF Caused
  <1>6. (StaysLocked /\ CriticalSection)'
    BY DEF StaysLocked, CriticalSection, Guarded, Alone
  <1> QED
    BY <1>2, <1>3, <1>4, <1>5, <1>6

(* The window of a valid interrupt. *)
LEMMA SelectInv ==
  ASSUME InterruptConstants, IInv, NEW c \in Context, Select(c)
  PROVE  IInv'
  <1>1. op[c].irq \in Irq
    BY DEF InCall, IInv, TypeOK, Select, goto
  <1>2. TypeOK'
    <2>1. pc' \in [Context -> Place]
      BY DEF IInv, TypeOK, Select, status, windows, history, cpu, goto, after, Place
    <2> QED
      BY <1>1, <2>1 DEF IInv, TypeOK, Select, status, windows, history, cpu
  <1> USE RunningContext, Numbers DEF IInv, TypeOK, Select, goto, after, Returns, status, windows, history, cpu
  <1>3. InCall'
    BY DEF InCall
  <1>4. Alone'
    BY DEF Alone, Guarded, Running
  <1>5. Caused'
    BY DEF Caused
  <1>6. (StaysLocked /\ CriticalSection)'
    BY DEF StaysLocked, CriticalSection, Guarded, Alone
  <1> QED
    BY <1>2, <1>3, <1>4, <1>5, <1>6

(* The second access. *)
LEMMA AccessInv ==
  ASSUME InterruptConstants, IInv, NEW c \in Context, Access(c)
  PROVE  IInv'
  <1>1. op[c] \in Calls /\ Fits(op[c]) /\ op[c].irq \in Irq
    BY CallsFit DEF InCall, IInv, TypeOK, Access, goto
  <1>2. TypeOK'
    <2>1. pc' \in [Context -> Place]
      BY DEF IInv, TypeOK, Access, status, windows, history, cpu, goto, after, Place
    <2>2. enable' \in [Irq -> Bit] /\ trigger' \in [Irq -> Bit]
      BY <1>1 DEF IInv, TypeOK, Access, status, windows, history, cpu, Fits, Bit
    <2>3. pri' \in [Irq -> Priority]
      BY <1>1 DEF IInv, TypeOK, Access, status, windows, history, cpu, Fits
    <2>4. saved' \in [Context -> Word]
      BY <1>1 DEF IInv, TypeOK, Access, status, windows, history, cpu, Word, Bit
    <2>5. ret' \in [Context -> Int]
      BY <1>1, Numbers DEF IInv, TypeOK, Access, status, windows, history, cpu, Returns, Bit
    <2> QED
      BY <2>1, <2>2, <2>3, <2>4, <2>5 DEF IInv, TypeOK, Access, status, windows, history, cpu
  <1> USE RunningContext, Numbers DEF IInv, TypeOK, Access, goto, after, Returns, status, windows, history, cpu
  <1>3. InCall'
    BY DEF InCall
  <1>4. Alone'
    BY ZenonT(60) DEF Alone, Guarded, Running
  <1>5. Caused'
    BY DEF Caused
  <1>6. (StaysLocked /\ CriticalSection)'
    BY DEF StaysLocked, CriticalSection, Guarded, Alone
  <1> QED
    BY <1>2, <1>3, <1>4, <1>5, <1>6

(* int_secure_set writes back. *)
LEMMA WriteBackInv ==
  ASSUME InterruptConstants, IInv, NEW c \in Context, WriteBack(c)
  PROVE  IInv'
  <1>1. op[c].val \in Bit
    BY CallsFit DEF InCall, Fits, Bit, IInv, TypeOK, WriteBack, goto
  <1>2. TypeOK'
    <2>1. pc' \in [Context -> Place]
      BY DEF IInv, TypeOK, WriteBack, status, windows, history, cpu, goto, after, Place
    <2>2. saved[c][2] \in Priority
      BY DEF IInv, TypeOK, Word
    <2> QED
      BY <1>1, <2>1, <2>2 DEF IInv, TypeOK, WriteBack, status, windows, history, cpu
  <1> USE RunningContext, Numbers DEF IInv, TypeOK, WriteBack, goto, after, Returns, status, windows, history, cpu
  <1>3. InCall'
    BY DEF InCall
  <1>4. Alone'
    BY DEF Alone, Guarded, Running
  <1>5. Caused'
    BY DEF Caused
  <1>6. (StaysLocked /\ CriticalSection)'
    BY DEF StaysLocked, CriticalSection, Guarded, Alone
  <1> QED
    BY <1>2, <1>3, <1>4, <1>5, <1>6

(* seti. *)
LEMMA UnlockInv ==
  ASSUME InterruptConstants, IInv, NEW c \in Context, Unlock(c)
  PROVE  IInv'
  <1> USE RunningContext, Numbers DEF IInv, TypeOK, Unlock, goto, after, Returns, status, windows, history, cpu
  <1>2. TypeOK'
    BY DEF Place, Bit, Word
  <1>3. InCall'
    BY DEF InCall
  <1>4. Alone'
    BY DEF Alone, Guarded, Running
  <1>5. Caused'
    BY DEF Caused
  <1>6. (StaysLocked /\ CriticalSection)'
    BY DEF StaysLocked, CriticalSection, Guarded, Alone
  <1> QED
    BY <1>2, <1>3, <1>4, <1>5, <1>6

(* The functions of one access. *)
LEMMA SingleInv ==
  ASSUME InterruptConstants, IInv, NEW c \in Context, Single(c)
  PROVE  IInv'
  <1>1. op[c] \in Calls /\ Fits(op[c])
    BY CallsFit DEF IInv, TypeOK
  <1>2. TypeOK'
    <2>1. pc' \in [Context -> Place]
      BY DEF IInv, TypeOK, Single, status, windows, history, cpu, goto, after, Place
    <2>2. ie' \in Bit /\ e' \in Priority
      BY DEF IInv, TypeOK, Single, status, windows, history, cpu, Bit, InRange
    <2>3. hint' \in Irq \cup {NoIrq} /\ asked' \subseteq Irq
      BY <1>1, Numbers DEF IInv, TypeOK, Single, status, windows, history, cpu, Fits
    <2>4. table' \in [Irq -> {"default", "installed"}]
      BY <1>1, Numbers DEF IInv, TypeOK, Single, status, windows, history, cpu, Fits
    <2>5. critical' \in BOOLEAN
      BY DEF IInv, TypeOK, Single, status, windows, history, cpu
    <2>6. ret' \in [Context -> Int]
      BY DEF IInv, TypeOK, Single, status, windows, history, cpu, Returns
    <2> QED
      BY <2>1, <2>2, <2>3, <2>4, <2>5, <2>6 DEF IInv, TypeOK, Single, status, windows, history, cpu
  <1> USE RunningContext, Numbers DEF IInv, TypeOK, Single, goto, after, Returns, status, windows, history, cpu
  <1>3. InCall'
    BY DEF InCall
  <1>4. Alone'
    BY DEF Alone, Guarded, Running
  <1>5. Caused'
    BY DEF Caused
  <1>6. (StaysLocked /\ CriticalSection)'
    BY DEF StaysLocked, CriticalSection, Guarded, Alone
  <1> QED
    BY <1>2, <1>3, <1>4, <1>5, <1>6

(* A request. *)
LEMMA RequestInv ==
  ASSUME InterruptConstants, IInv, NEW i \in Irq, Request(i)
  PROVE  IInv'
  <1> USE RunningContext, Numbers DEF IInv, TypeOK, Request, goto, after, Returns, status, windows, history, cpu
  <1>2. TypeOK'
    BY DEF Place, Bit, Word
  <1>3. InCall'
    BY DEF InCall
  <1>4. Alone'
    BY DEF Alone, Guarded, Running
  <1>5. Caused'
    BY DEF Caused
  <1>6. (StaysLocked /\ CriticalSection)'
    BY DEF StaysLocked, CriticalSection, Guarded, Alone
  <1> QED
    BY <1>2, <1>3, <1>4, <1>5, <1>6

(* Taking an interrupt: nobody is alone then. *)
LEMMA TakeInv ==
  ASSUME InterruptConstants, IInv, NEW i \in Irq, Take(i)
  PROVE  IInv'
  <1>2. TypeOK'
    <2>1. pri[i] \in Priority /\ <<ie, e>> \in Word
      BY DEF IInv, TypeOK, Word
    <2>2. pc' \in [Context -> Place]
      BY <2>1, Numbers DEF IInv, TypeOK, Take, status, windows, history, cpu, Place
    <2>3. frame' \in [Priority -> [status : Word, hint : Irq \cup {NoIrq}]]
      BY <2>1 DEF IInv, TypeOK, Take, status, windows, history, cpu
    <2> QED
      BY <2>1, <2>2, <2>3 DEF IInv, TypeOK, Take, status, windows, history, cpu
  <1> USE RunningContext, Numbers DEF IInv, TypeOK, Take, goto, after, Returns, status, windows, history, cpu
  <1>3. InCall'
    BY DEF InCall
  <1>4. Alone'
    BY DEF Alone, Guarded, Running
  <1>5. Caused'
    BY DEF Caused
  <1>6. (StaysLocked /\ CriticalSection)'
    BY DEF StaysLocked, CriticalSection, Guarded, Alone
  <1> QED
    BY <1>2, <1>3, <1>4, <1>5, <1>6

(* The entry code reads. *)
LEMMA EntryReadInv ==
  ASSUME InterruptConstants, IInv, NEW p \in Priority, EntryRead(p)
  PROVE  IInv'
  <1>2. TypeOK'
    <2>1. pc' \in [Context -> Place]
      BY DEF IInv, TypeOK, EntryRead, status, windows, history, cpu, goto, Place
    <2>2. frame' \in [Priority -> [status : Word, hint : Irq \cup {NoIrq}]]
      BY DEF IInv, TypeOK, EntryRead, status, windows, history, cpu
    <2> QED
      BY <2>1, <2>2 DEF IInv, TypeOK, EntryRead, status, windows, history, cpu
  <1> USE RunningContext, Numbers DEF IInv, TypeOK, EntryRead, goto, after, Returns, status, windows, history, cpu
  <1>3. InCall'
    BY DEF InCall
  <1>4. Alone'
    BY DEF Alone, Guarded, Running
  <1>5. Caused'
    BY DEF Caused
  <1>6. (StaysLocked /\ CriticalSection)'
    BY DEF StaysLocked, CriticalSection, Guarded, Alone
  <1> QED
    BY <1>2, <1>3, <1>4, <1>5, <1>6

(* The entry code clears the hint. *)
LEMMA EntryClearInv ==
  ASSUME InterruptConstants, IInv, NEW p \in Priority, EntryClear(p)
  PROVE  IInv'
  <1> USE RunningContext, Numbers DEF IInv, TypeOK, EntryClear, goto, after, Returns, status, windows, history, cpu
  <1>2. TypeOK'
    BY DEF Place, Bit, Word
  <1>3. InCall'
    BY DEF InCall
  <1>4. Alone'
    BY DEF Alone, Guarded, Running
  <1>5. Caused'
    BY DEF Caused
  <1>6. (StaysLocked /\ CriticalSection)'
    BY DEF StaysLocked, CriticalSection, Guarded, Alone
  <1> QED
    BY <1>2, <1>3, <1>4, <1>5, <1>6

(* The handler. *)
LEMMA HandleInv ==
  ASSUME InterruptConstants, IInv, NEW p \in Priority, Handle(p)
  PROVE  IInv'
  <1>1. /\ p \in Context /\ p # THREAD /\ p = Running /\ p \in act
        /\ cause[p] \in Irq /\ line' = line \ {cause[p]}
        /\ pc[p] = "handler"
        /\ UNCHANGED <<ie, e, select, enable, pri, secure, trigger, hint, act, cause, table,
                       ret, saved, frame, halted, asked, critical>>
    BY RunningContext, Numbers
       DEF IInv, TypeOK, Caused, Handle, goto, status, windows, history, cpu
  <1>2. PICK to \in Place, call \in Calls :
          /\ pc' = [pc EXCEPT ![p] = to]
          /\ op' = [op EXCEPT ![p] = call]
          /\ to \notin {"access", "write", "unlock"}
          /\ to = "lock" => call.fn = "int_pri_set" /\ call.irq \in Irq
          /\ to = "select" => call.fn # "int_pri_set" /\ call.irq \in Irq
    <2>1. CASE pc' = [pc EXCEPT ![p] = "return"] /\ op' = op
      <3>1. op' = [op EXCEPT ![p] = op[p]] /\ op[p] \in Calls
        BY <1>1, <2>1 DEF IInv, TypeOK
      <3> QED
        BY <2>1, <3>1 DEF Place
    <2>2. ASSUME NEW call \in HandlerCalls[cause[p]],
                 pc' = [pc EXCEPT ![p] = first(call)], op' = [op EXCEPT ![p] = call]
          PROVE  \E to \in Place, other \in Calls :
                   /\ pc' = [pc EXCEPT ![p] = to]
                   /\ op' = [op EXCEPT ![p] = other]
                   /\ to \notin {"access", "write", "unlock"}
                   /\ to = "lock" => other.fn = "int_pri_set" /\ other.irq \in Irq
                   /\ to = "select" => other.fn # "int_pri_set" /\ other.irq \in Irq
      <3>1. call \in Calls /\ Fits(call)
        BY <1>1, CallsFit DEF Calls
      <3>2. first(call) \in Place /\ first(call) \notin {"access", "write", "unlock"}
        BY <3>1, StartIs DEF Place
      <3> QED
        BY <2>2, <3>1, <3>2, StartIs
    <2> QED
      BY <2>1, <2>2 DEF Handle, goto
  <1> USE <1>1, <1>2 DEF IInv, TypeOK
  <1>3. TypeOK'
    OBVIOUS
  <1>4. InCall'
    BY DEF InCall
  <1>7. Alone'
    BY DEF Alone, Guarded, Running
  <1>5. Caused'
    BY DEF Caused
  <1>6. (StaysLocked /\ CriticalSection)'
    BY DEF StaysLocked, CriticalSection, Guarded, Alone
  <1> QED
    BY <1>3, <1>4, <1>5, <1>6, <1>7

(* The default handler. *)
LEMMA HaltInv ==
  ASSUME InterruptConstants, IInv, NEW p \in Priority, Halt(p)
  PROVE  IInv'
  <1> USE RunningContext, Numbers DEF IInv, TypeOK, Halt, goto, after, Returns, status, windows, history, cpu
  <1>2. TypeOK'
    BY DEF Place, Bit, Word
  <1>3. InCall'
    BY DEF InCall
  <1>4. Alone'
    BY DEF Alone, Guarded, Running
  <1>5. Caused'
    BY DEF Caused
  <1>6. (StaysLocked /\ CriticalSection)'
    BY DEF StaysLocked, CriticalSection, Guarded, Alone
  <1> QED
    BY <1>2, <1>3, <1>4, <1>5, <1>6

(* rtie. *)
LEMMA ReturnInv ==
  ASSUME InterruptConstants, IInv, NEW p \in Priority, Return(p)
  PROVE  IInv'
  <1> USE RunningContext, Numbers DEF IInv, TypeOK, Return, goto, after, Returns, status, windows, history, cpu
  <1>2. TypeOK'
    BY DEF Place, Bit, Word
  <1>3. InCall'
    BY DEF InCall
  <1>4. Alone'
    BY DEF Alone, Guarded, Running
  <1>5. Caused'
    BY DEF Caused
  <1>6. (StaysLocked /\ CriticalSection)'
    BY DEF StaysLocked, CriticalSection, Guarded, Alone
  <1> QED
    BY <1>2, <1>3, <1>4, <1>5, <1>6

(* Every step keeps the invariant. *)
LEMMA NextInv ==
  ASSUME InterruptConstants, IInv, [Next]_vars
  PROVE  IInv'
  <1>1. ASSUME NEW call \in ThreadCalls, Enter(call) PROVE IInv'
    BY <1>1, EnterInv
  <1>2. ASSUME NEW c \in Context, API(c) PROVE IInv'
    BY <1>2, RejectInv, LockInv, SelectInv, AccessInv, WriteBackInv, UnlockInv, SingleInv
       DEF API
  <1>3. ASSUME NEW i \in Irq, Request(i) \/ Take(i) PROVE IInv'
    BY <1>3, RequestInv, TakeInv
  <1>4. ASSUME NEW p \in Priority, Interrupts(p) PROVE IInv'
    BY <1>4, EntryReadInv, EntryClearInv, HandleInv, HaltInv, ReturnInv DEF Interrupts
  <1>5. CASE UNCHANGED vars
    BY <1>5 DEF vars, IInv, TypeOK, InCall, Alone, Guarded, Running, Caused, StaysLocked,
                CriticalSection
  <1> QED
    BY <1>1, <1>2, <1>3, <1>4, <1>5 DEF Next

(* The invariant holds in every reachable state of the core. *)
THEOREM InterruptInvariant ==
  ASSUME InterruptConstants
  PROVE  Spec => []IInv
  <1>1. Init => IInv
    BY InitInv
  <1>2. IInv /\ [Next]_vars => IInv'
    BY NextInv
  <1> QED
    BY <1>1, <1>2, PTL DEF Spec

(* Every register and every context keeps its type: the value a function   *)
(* writes to the selected window fits it, also when a handler moved the    *)
(* window between the two accesses.                                        *)
THEOREM InterruptTypes ==
  ASSUME InterruptConstants
  PROVE  Spec => []TypeOK
  <1>1. IInv => TypeOK
    BY DEF IInv
  <1> QED
    BY InterruptInvariant, <1>1, PTL

(* No handler is active between cpu_lock and cpu_unlock of the thread, the *)
(* int_pri_set it calls in between, which locks and unlocks on its own,    *)
(* included (arc_exception.h, arc_exception.c:616).                        *)
THEOREM CriticalSectionHolds ==
  ASSUME InterruptConstants
  PROVE  Spec => []CriticalSection
  <1>1. IInv => CriticalSection
    BY DEF IInv
  <1> QED
    BY InterruptInvariant, <1>1, PTL

(* int_pri_set, in any context and whatever interrupts are requested, sets *)
(* the priority of the interrupt it was called with (arc_exception.c:616). *)
THEOREM PriSetHitsHolds ==
  ASSUME InterruptConstants
  PROVE  Spec => PriSetHits
  <1> DEFINE Hits == \A c \in Context : pc[c] = "unlock" /\ pc'[c] # "unlock"
                                            => pri'[op[c].irq] = op[c].val
  <1>1. ASSUME IInv, Next PROVE Hits
    <2> SUFFICES ASSUME NEW c \in Context, pc[c] = "unlock"
                 PROVE  pri' = pri
      BY <1>1 DEF IInv, Alone, Guarded
    <2>1. c = Running
      BY <1>1 DEF IInv, Alone, Guarded
    <2>2. ASSUME NEW d \in Context, API(d) PROVE pri' = pri
      BY <2>1, <2>2 DEF API, Reject, Lock, Select, Access, WriteBack, Unlock, Single, goto,
                        windows
    <2>3. ASSUME NEW call \in ThreadCalls, Enter(call) PROVE pri' = pri
      BY <2>3 DEF Enter, windows
    <2>4. ASSUME NEW i \in Irq, Request(i) \/ Take(i) PROVE pri' = pri
      BY <2>4 DEF Request, Take, windows
    <2>5. ASSUME NEW p \in Priority, Interrupts(p) PROVE pri' = pri
      BY <2>5 DEF Interrupts, EntryRead, EntryClear, Handle, Halt, Return, windows
    <2> QED
      BY <1>1, <2>2, <2>3, <2>4, <2>5 DEF Next
  <1>2. IInv /\ [Next]_vars => [Hits]_vars
    BY <1>1
  <1> QED
    BY InterruptInvariant, <1>2, PTL DEF Spec, PriSetHits

(* The core executes its most urgent handler: what it takes is not active. *)
LEMMA RunningIsFirst ==
  ASSUME InterruptConstants, act \subseteq Priority, NEW p \in Priority, p < Running
  PROVE  p \notin act
  <1> SUFFICES ASSUME p \in act PROVE FALSE
    OBVIOUS
  <1>1. act \in SUBSET Nat /\ act # {}
    BY DEF Priority, InterruptConstants
  <1>2. PICK c \in act : \A d \in act : <<d, c>> \notin Less
    BY <1>1, WFMin, LessWellFounded
  <1>3. \A d \in act : c <= d
    <2>1. \A d \in act : ~ (d < c)
      BY <1>1, <1>2 DEF Less
    <2> QED
      BY <1>1, <2>1
  <1>4. Running \in act /\ \A d \in act : Running <= d
    BY <1>1, <1>3 DEF Running
  <1> QED
    BY <1>1, <1>4

(* Software triggers for one interrupt only leave its number, or none, in  *)
(* AUX_IRQ_HINT and in what the entry code has read of it.                 *)
HintIs(s) == /\ hint \in {NoIrq, s} /\ asked \subseteq {s}
             /\ \A p \in Priority : frame[p].hint \in {NoIrq, s}
Places == {"entry", "clear", "default"}       \* where a trigger is still to be handled
Kept(s) == s \in asked => hint = s \/ \E p \in act : cause[p] = s /\ pc[p] \in Places

(* What the calls and the requests of the devices leave of it. *)
LEMMA CallKeeps ==
  ASSUME InterruptConstants, IInv, NEW s, HintIs(s), Kept(s),
         \A call \in Calls : call.fn = "int_sw_trigger" /\ Valid(call.irq) => call.irq = s,
         \/ \E call \in ThreadCalls : Enter(call)
         \/ \E c \in Context : API(c)
         \/ \E i \in Irq : Request(i)
  PROVE  HintIs(s)' /\ Kept(s)'
  <1>1. UNCHANGED <<act, cause, frame>>
    BY DEF Enter, API, Reject, Lock, Select, Access, WriteBack, Unlock, Single, Request, cpu
  <1>2. \A p \in act : pc[p] \in Places => pc'[p] = pc[p]
    <2>1. CASE \E call \in ThreadCalls : Enter(call)
      BY <2>1, Numbers DEF Enter, goto, IInv, TypeOK
    <2>2. CASE \E c \in Context : API(c)
      <3>1. PICK c \in Context : API(c)
        BY <2>2
      <3>2. pc[c] \notin Places
        BY <3>1 DEF API, Reject, Lock, Select, Access, WriteBack, Unlock, Single, goto, Places
      <3>3. PICK to : pc' = [pc EXCEPT ![c] = to]
        BY <3>1 DEF API, Reject, Lock, Select, Access, WriteBack, Unlock, Single, goto
      <3>4. act \subseteq Context /\ pc \in [Context -> Place]
        BY Numbers DEF IInv, TypeOK
      <3> QED
        BY <3>2, <3>3, <3>4
    <2>3. CASE \E i \in Irq : Request(i)
      BY <2>3 DEF Request
    <2> QED
      BY <2>1, <2>2, <2>3
  <1>3. \/ UNCHANGED <<hint, asked>>
        \/ hint' = s /\ asked' = asked \cup {s}
    <2>1. CASE \E call \in ThreadCalls : Enter(call)
      BY <2>1 DEF Enter, history
    <2>2. ASSUME NEW c \in Context, Single(c)
          PROVE  UNCHANGED <<hint, asked>> \/ (hint' = s /\ asked' = asked \cup {s})
      <3>1. op[c] \in Calls
        BY DEF IInv, TypeOK
      <3> QED
        BY <2>2, <3>1 DEF Single
    <2>3. ASSUME NEW c \in Context, API(c), ~ Single(c)
          PROVE  UNCHANGED <<hint, asked>>
      BY <2>3 DEF API, Reject, Lock, Select, Access, WriteBack, Unlock, history
    <2>4. CASE \E i \in Irq : Request(i)
      BY <2>4 DEF Request, history
    <2> QED
      BY <2>1, <2>2, <2>3, <2>4
  <1> QED
    BY <1>1, <1>2, <1>3 DEF HintIs, Kept

(* An interrupt that is taken preempts what is active. *)
LEMMA TakeKeeps ==
  ASSUME InterruptConstants, IInv, NEW s, HintIs(s), Kept(s), NEW i \in Irq, Take(i)
  PROVE  HintIs(s)' /\ Kept(s)'
  <1> DEFINE q == pri[i]
  <1>1. q \in Priority /\ q \notin act
    BY RunningIsFirst DEF IInv, TypeOK, Take
  <1>2. /\ act' = act \cup {q} /\ cause' = [cause EXCEPT ![q] = i]
        /\ pc' = [pc EXCEPT ![q] = "entry"]
        /\ UNCHANGED <<hint, asked>>
    BY DEF Take, history
  <1>3. \A p \in act : cause'[p] = cause[p] /\ pc'[p] = pc[p]
    BY <1>1, <1>2 DEF IInv, TypeOK
  <1>4. \A p \in Priority : frame'[p].hint = frame[p].hint
    <2> DEFINE r == [frame[q] EXCEPT !.status = <<ie, e>>]
    <2>1. frame \in [Priority -> [status : Word, hint : Irq \cup {NoIrq}]]
      BY DEF IInv, TypeOK
    <2>2. frame' = [frame EXCEPT ![q] = r]
      BY <1>1, <2>1 DEF Take
    <2>3. r.hint = frame[q].hint
      BY <1>1, <2>1
    <2> HIDE DEF r
    <2> QED
      BY <1>1, <2>1, <2>2, <2>3
  <1> HIDE DEF q
  <1> QED
    BY <1>2, <1>3, <1>4 DEF HintIs, Kept

(* The entry code gives a hint up for its own interrupt only, which is     *)
(* handled from there on.                                                  *)
LEMMA HandlingKeeps ==
  ASSUME InterruptConstants, IInv, NEW s, HintIs(s), Kept(s), NEW p \in Priority, Interrupts(p)
  PROVE  HintIs(s)' /\ Kept(s)'
  <1>1. p \in Context /\ p = Running /\ p \in act /\ cause[p] \in Irq
    BY RunningContext, Numbers
       DEF IInv, Caused, Interrupts, EntryRead, EntryClear, Handle, Halt, Return, goto
  <1>2. NoIrq \notin Irq
    BY DEF NoIrq, Irq, InterruptConstants
  <1>3. CASE EntryRead(p)
    <2>1. /\ pc[p] \in Places /\ pc'[p] \in Places
          /\ \A q \in act \ {p} : pc'[q] = pc[q]
          /\ UNCHANGED <<act, cause, hint, asked>>
      BY <1>1, <1>3, Numbers DEF EntryRead, goto, Places, history, IInv, TypeOK
    <2>2. \A q \in Priority : frame'[q].hint \in {frame[q].hint, hint}
      <3> DEFINE r == [frame[p] EXCEPT !.hint = hint]
      <3>1. frame \in [Priority -> [status : Word, hint : Irq \cup {NoIrq}]]
        BY DEF IInv, TypeOK
      <3>2. frame' = [frame EXCEPT ![p] = r]
        BY <1>3, <3>1 DEF EntryRead
      <3>3. r.hint = hint
        BY <3>1
      <3> HIDE DEF r
      <3> QED
        BY <3>1, <3>2, <3>3
    <2> QED
      BY <2>1, <2>2 DEF HintIs, Kept
  <1>4. CASE EntryClear(p)
    <2>1. /\ hint' = IF frame[p].hint = cause[p] THEN NoIrq ELSE hint
          /\ asked' = asked \ {cause[p]}
          /\ \A q \in act \ {p} : pc'[q] = pc[q]
          /\ UNCHANGED <<act, cause, frame>>
      BY <1>1, <1>4, Numbers DEF EntryClear, goto, cpu, IInv, TypeOK
    <2>2. CASE cause[p] = s
      BY <2>1, <2>2 DEF HintIs, Kept
    <2>3. CASE cause[p] # s
      <3>1. frame[p].hint # cause[p]
        BY <1>1, <1>2, <2>3 DEF HintIs
      <3> QED
        BY <1>1, <2>1, <2>3, <3>1 DEF HintIs, Kept
    <2> QED
      BY <2>2, <2>3
  <1>5. CASE Handle(p) \/ Halt(p) \/ Return(p)
    <2>1. /\ pc[p] \in Places => pc'[p] = pc[p] /\ act' = act
          /\ pc[p] \notin Places \/ act' = act
          /\ act' \in {act, act \ {p}}
          /\ \A q \in act \ {p} : pc'[q] = pc[q]
          /\ UNCHANGED <<cause, hint, asked>>
      BY <1>1, <1>5, Numbers DEF Handle, Halt, Return, goto, Places, cpu, history, IInv, TypeOK
    <2>2. UNCHANGED frame
      BY <1>5 DEF Handle, Halt, Return, cpu
    <2> QED
      BY <2>1, <2>2 DEF HintIs, Kept
  <1> QED
    BY <1>3, <1>4, <1>5 DEF Interrupts

(* An interrupt that int_sw_trigger asked for is handled from the start,   *)
(* whatever devices request and whoever is preempted in between, as long   *)
(* as no two interrupts are triggered (arc_exception.c:643).               *)
THEOREM TriggersAreKept ==
  ASSUME InterruptConstants, OneTrigger
  PROVE  Spec => []TriggerKept
  <1>1. PICK s : \A call \in Calls :
                   call.fn = "int_sw_trigger" /\ Valid(call.irq) => call.irq = s
    BY DEF OneTrigger
  <1>2. Init => HintIs(s) /\ Kept(s)
    BY DEF Init, HintIs, Kept
  <1>3. IInv /\ HintIs(s) /\ Kept(s) /\ [Next]_vars => HintIs(s)' /\ Kept(s)'
    <2> SUFFICES ASSUME IInv, HintIs(s), Kept(s), [Next]_vars PROVE HintIs(s)' /\ Kept(s)'
      OBVIOUS
    <2>1. CASE UNCHANGED vars
      BY <2>1 DEF vars, HintIs, Kept
    <2>2. CASE \/ \E call \in ThreadCalls : Enter(call)
               \/ \E c \in Context : API(c)
               \/ \E i \in Irq : Request(i)
      BY <1>1, <2>2, CallKeeps
    <2>3. CASE \E i \in Irq : Take(i)
      BY <2>3, TakeKeeps
    <2>4. CASE \E p \in Priority : Interrupts(p)
      BY <2>4, HandlingKeeps
    <2> QED
      BY <2>1, <2>2, <2>3, <2>4 DEF Next
  <1>4. HintIs(s) /\ Kept(s) => TriggerKept
    BY DEF HintIs, Kept, TriggerKept, Places
  <1> QED
    BY InterruptInvariant, <1>2, <1>3, <1>4, PTL DEF Spec

(* ---------------------------- the time base ----------------------------- *)

(* gl_ms_cnt, whose 32 bits count 49 days, has not come round: past that   *)
(* board_get_cur_us starts again at 0.                                     *)
NoWrap == Horizon < Width * Time!Ms

(* ------------------------------ arithmetic ------------------------------ *)

LEMMA MillisecondIs ==
  ASSUME Time!TimerConstants
  PROVE  /\ Time!Ms \in Nat \ {0} /\ Width * Time!Ms \in Nat \ {0} /\ Time!M64 = 4 * (Width * Time!Ms)
         /\ Time!Ms <= Width * Time!Ms /\ Limit <= Time!Ms
         /\ \A k \in 0 .. Conv - 1 : k * Limit \in Nat /\ (k + 1) * Limit = k * Limit + Limit
                                     /\ k * Limit + Limit <= Time!Ms
         /\ \A g \in 0 .. Width - 1 : g * Time!Ms \in Nat /\ (g + 1) * Time!Ms = g * Time!Ms + Time!Ms
                                      /\ g * Time!Ms + Time!Ms <= Width * Time!Ms
  <1>1. Limit \in Nat \ {0} /\ Conv \in Nat \ {0} /\ Width \in Nat \ {0}
    BY DEF Time!TimerConstants
  <1>2. \A x, y \in Nat \ {0} : x * y \in Nat \ {0} /\ y <= x * y
    OBVIOUS
  <1>3. Time!Ms \in Nat \ {0} /\ Limit <= Time!Ms
    BY <1>1, <1>2 DEF Time!Ms
  <1>4. \A m, l \in Nat \ {0} : \A k \in 0 .. m - 1 :
          k * l \in Nat /\ (k + 1) * l = k * l + l /\ k * l + l <= m * l
    <2> SUFFICES ASSUME NEW m \in Nat \ {0}, NEW l \in Nat \ {0}, NEW k \in 0 .. m - 1
                 PROVE  k * l \in Nat /\ (k + 1) * l = k * l + l /\ k * l + l <= m * l
      OBVIOUS
    <2>1. k \in Nat /\ m - (k + 1) \in Nat
      OBVIOUS
    <2>2. \A r, s \in Nat : (r + s) * l = r * l + s * l /\ s * l \in Nat
      OBVIOUS
    <2>3. m * l = (k + 1) * l + (m - (k + 1)) * l /\ (m - (k + 1)) * l \in Nat
      BY <2>1, <2>2
    <2>4. k * l \in Nat /\ (k + 1) * l = k * l + l
      BY <2>1, <2>2
    <2> QED
      BY <2>3, <2>4
  <1>5. Time!Ms = Conv * Limit
    BY <1>1 DEF Time!Ms
  <1>6. \A k \in 0 .. Conv - 1 : k * Limit \in Nat /\ (k + 1) * Limit = k * Limit + Limit
                                 /\ k * Limit + Limit <= Time!Ms
    BY <1>1, <1>4, <1>5
  <1>7. \A g \in 0 .. Width - 1 : g * Time!Ms \in Nat /\ (g + 1) * Time!Ms = g * Time!Ms + Time!Ms
                                  /\ g * Time!Ms + Time!Ms <= Width * Time!Ms
    BY <1>1, <1>3, <1>4
  <1>8. Width * Time!Ms \in Nat \ {0} /\ Time!Ms <= Width * Time!Ms
    BY <1>1, <1>2, <1>3
  <1>9. Time!M64 = 4 * (Width * Time!Ms)
    BY <1>1, <1>3 DEF Time!M64
  <1> QED
    BY <1>3, <1>6, <1>7, <1>8, <1>9

LEMMA ModIs ==
  ASSUME NEW n \in Nat \ {0}, NEW x \in 0 .. n - 1
  PROVE  (x + 1) % n = IF x = n - 1 THEN 0 ELSE x + 1
  OBVIOUS

(* --------------------------------- types -------------------------------- *)

LEMMA TimeTypesKept ==
  ASSUME Time!TimerConstants, Time!TypeOK, [Time!Next]_(Time!vars)
  PROVE  Time!TypeOK'
  <1>0. /\ Limit \in Nat \ {0} /\ Conv \in Nat \ {0} /\ Width \in Nat \ {0}
        /\ Horizon \in Nat /\ Delays \subseteq Nat
    BY DEF Time!TimerConstants
  <1>1. CASE UNCHANGED Time!vars
    BY <1>1 DEF Time!TypeOK, Time!vars
  <1>2. CASE Time!Tick
    <2>1. cnt' \in 0 .. Limit - 1
      BY <1>0, <1>2, ModIs DEF Time!Tick, Time!TypeOK
    <2>2. now' \in 0 .. Horizon
      BY <1>0, <1>2 DEF Time!Tick, Time!TypeOK
    <2> QED
      BY <1>2, <2>1, <2>2 DEF Time!Tick, Time!TypeOK, Time!board, Time!thread
  <1>3. CASE Time!board_timer_isr
    <2>1. sys_ms_update' \in 0 .. Conv - 1
      BY <1>0, <1>3 DEF Time!board_timer_isr, Time!board_timer_update, Time!TypeOK
    <2>2. gl_ms_cnt' \in 0 .. Width - 1
      BY <1>0, <1>3, ModIs DEF Time!board_timer_isr, Time!board_timer_update, Time!TypeOK
    <2> QED
      BY <1>3, <2>1, <2>2 DEF Time!board_timer_isr, Time!TypeOK, Time!thread
  <1>4. CASE Time!Mask
    BY <1>4 DEF Time!Mask, Time!TypeOK, Time!timer, Time!board, Time!thread
  <1>5. CASE Time!board_get_cur_us
    BY <1>5 DEF Time!board_get_cur_us, Time!TypeOK, Time!timer, Time!board
  <1>6. CASE Time!ReadCount
    BY <1>6 DEF Time!ReadCount, Time!TypeOK, Time!timer, Time!board
  <1>7. CASE Time!ReadMs
    <2>1. Time!Total \in Nat
      <3>1. gl_ms_cnt * Time!Ms \in Nat /\ sub \in Nat
        <4>1. gl_ms_cnt \in 0 .. Width - 1 /\ sub \in 0 .. Limit - 1
          BY DEF Time!TypeOK
        <4>2. gl_ms_cnt * Time!Ms \in Nat
          BY <4>1, MillisecondIs
        <4> QED
          BY <1>0, <4>1, <4>2
      <3> HIDE DEF Time!Ms
      <3> QED
        BY <3>1 DEF Time!Total
    <2>2. value' \in Nat /\ start' \in Nat \cup {Time!NoTime} /\ tpc' \in {"idle", "sub", "ms"}
          /\ delay' \in Delays \cup {Time!NoTime} /\ begun' \in 0 .. Horizon
      BY <1>7, <2>1 DEF Time!ReadMs, Time!TypeOK
    <2> QED
      BY <1>7, <2>2 DEF Time!ReadMs, Time!TypeOK, Time!timer, Time!board
  <1>8. ASSUME NEW ms \in Delays, Time!board_delay_ms(ms)
        PROVE  Time!TypeOK'
    BY <1>8 DEF Time!board_delay_ms, Time!TypeOK, Time!timer, Time!board
  <1> QED
    BY <1>1, <1>2, <1>3, <1>4, <1>5, <1>6, <1>7, <1>8 DEF Time!Next

LEMMA TimeTypesBegin ==
  ASSUME Time!TimerConstants
  PROVE  Time!Init => Time!TypeOK
  <1>1. 0 \in 0 .. Limit - 1 /\ 0 \in 0 .. Conv - 1 /\ 0 \in 0 .. Width - 1 /\ 0 \in 0 .. Horizon
    BY DEF Time!TimerConstants
  <1>2. Time!Init => /\ cnt \in 0 .. Limit - 1 /\ sys_ms_update \in 0 .. Conv - 1
                     /\ gl_ms_cnt \in 0 .. Width - 1 /\ sub \in 0 .. Limit - 1
                     /\ now \in 0 .. Horizon /\ begun \in 0 .. Horizon
    BY <1>1 DEF Time!Init
  <1>3. Time!Init => /\ ip \in BOOLEAN /\ masked \in BOOLEAN /\ tpc \in {"idle", "sub", "ms"}
    BY DEF Time!Init
  <1>4. Time!Init => value \in Nat
    BY DEF Time!Init
  <1>5. Time!Init => start \in Nat \cup {Time!NoTime} /\ delay \in Delays \cup {Time!NoTime}
    BY DEF Time!Init
  <1> QED
    BY <1>2, <1>3, <1>4, <1>5 DEF Time!TypeOK

(* ------------------------------- true time ------------------------------ *)

(* The counters and the timer together are the time that has passed.       *)
Counted == gl_ms_cnt * Time!Ms + sys_ms_update * Limit + (IF ip THEN Limit ELSE 0) + cnt
(* A delay's start was read at begun.                                      *)
TimeInv == Time!TypeOK /\ now = Counted /\ (start # Time!NoTime => start < begun + Limit)

(* What a read of the time is off by.                                      *)
LEMMA ReadIs ==
  ASSUME Time!TimerConstants, TimeInv
  PROVE  /\ Time!Total \in Nat /\ Time!Total < now + Limit /\ Time!Total > now - Time!Ms - Limit
         /\ Time!Total < 2 * (Width * Time!Ms)
  <1> DEFINE g == gl_ms_cnt * Time!Ms
             u == sys_ms_update * Limit
             w == Width * Time!Ms
  <1>1. /\ g \in Nat /\ g + Time!Ms <= w /\ u \in Nat /\ u + Limit <= Time!Ms
        /\ Time!Ms \in Nat /\ w \in Nat /\ Time!Ms <= w
    BY MillisecondIs DEF TimeInv, Time!TypeOK
  <1>2. /\ Limit \in Nat \ {0} /\ cnt \in 0 .. Limit - 1 /\ sub \in 0 .. Limit - 1
        /\ now = g + u + (IF ip THEN Limit ELSE 0) + cnt
    BY DEF Time!TimerConstants, TimeInv, Time!TypeOK, Counted
  <1>3. Time!Total = g + sub
    BY DEF Time!Total
  <1> HIDE DEF g, u, w
  <1>4. /\ Time!Total \in Nat /\ Time!Total < now + Limit /\ Time!Total > now - Time!Ms - Limit /\ Time!Total < 2 * w
    BY <1>1, <1>2, <1>3
  <1> QED
    BY <1>4 DEF w

LEMMA TimeKept ==
  ASSUME Time!TimerConstants, NoWrap, TimeInv, [Time!Next]_(Time!vars)
  PROVE  TimeInv'
  <1>0. /\ Limit \in Nat \ {0} /\ Conv \in Nat \ {0} /\ Width \in Nat \ {0}
        /\ Horizon \in Nat /\ Time!TypeOK /\ now = Counted /\ (start # Time!NoTime => start < begun + Limit)
    BY DEF Time!TimerConstants, TimeInv
  <1>1. Time!TypeOK'
    BY <1>0, TimeTypesKept
  <1> DEFINE g == gl_ms_cnt * Time!Ms
             u == sys_ms_update * Limit
             w == Width * Time!Ms
  <1>2. /\ g \in Nat /\ g + Time!Ms <= w /\ (gl_ms_cnt + 1) * Time!Ms = g + Time!Ms
        /\ u \in Nat /\ u + Limit <= Time!Ms /\ (sys_ms_update + 1) * Limit = u + Limit
        /\ Time!Ms \in Nat \ {0} /\ w \in Nat
    BY <1>0, MillisecondIs DEF Time!TypeOK
  <1>3. CASE UNCHANGED Time!vars
    BY <1>0, <1>1, <1>3 DEF Time!vars, TimeInv, Counted
  <1>4. CASE Time!Tick
    <2>1. /\ cnt' = (IF cnt = Limit - 1 THEN 0 ELSE cnt + 1) /\ ip' = (ip \/ cnt = Limit - 1)
          /\ now' = now + 1 /\ (cnt = Limit - 1 => ~ ip) /\ cnt \in 0 .. Limit - 1 /\ ip \in BOOLEAN
          /\ UNCHANGED <<gl_ms_cnt, sys_ms_update, start, begun>>
      BY <1>0, <1>4, ModIs DEF Time!Tick, Time!TypeOK, Time!board, Time!thread
    <2>2. now = g + u + (IF ip THEN Limit ELSE 0) + cnt
      BY <1>0 DEF Counted
    <2>3. now' = g + u + (IF ip' THEN Limit ELSE 0) + cnt'
      <3> HIDE DEF g, u, w
      <3>1. CASE cnt = Limit - 1
        <4>1. ip' = TRUE /\ ~ ip /\ cnt' = 0
          BY <2>1, <3>1
        <4>2. now = g + u + cnt /\ now' = now + 1
          BY <1>2, <2>1, <2>2, <4>1
        <4> QED
          BY <1>0, <1>2, <3>1, <4>1, <4>2
      <3>2. CASE cnt # Limit - 1
        <4>1. ip' = ip /\ cnt' = cnt + 1 /\ now' = now + 1
          BY <2>1, <3>2
        <4> QED
          BY <1>0, <1>2, <2>1, <2>2, <4>1
      <3> QED
        BY <3>1, <3>2
    <2>4. now' = Counted'
      BY <2>1, <2>3 DEF Counted
    <2> QED
      BY <1>0, <1>1, <2>1, <2>4 DEF TimeInv
  <1>5. CASE Time!board_timer_isr
    <2>1. ip /\ ip' = FALSE /\ UNCHANGED <<cnt, now, start, begun>>
      BY <1>5 DEF Time!board_timer_isr, Time!thread
    <2>2. /\ now = g + u + Limit + cnt /\ cnt \in 0 .. Limit - 1 /\ now <= Horizon
          /\ sys_ms_update \in 0 .. Conv - 1 /\ gl_ms_cnt \in 0 .. Width - 1
      BY <1>0, <2>1 DEF Counted, Time!TypeOK
    <2>3. CASE sys_ms_update + 1 >= Conv
      <3>1. sys_ms_update' = 0 /\ gl_ms_cnt' = (gl_ms_cnt + 1) % Width
        BY <1>5, <2>3 DEF Time!board_timer_isr, Time!board_timer_update
      <3>2. sys_ms_update + 1 = Conv
        BY <1>0, <2>2, <2>3
      <3>3. u + Limit = Time!Ms
        BY <1>0, <1>2, <3>2 DEF Time!Ms
      <3>4. now = (gl_ms_cnt + 1) * Time!Ms + cnt
        <4> HIDE DEF g, u, w
        <4> QED
          BY <1>0, <1>2, <2>2, <3>3
      <3>5. gl_ms_cnt # Width - 1
        <4> SUFFICES ASSUME gl_ms_cnt = Width - 1
                     PROVE  FALSE
          OBVIOUS
        <4>1. gl_ms_cnt + 1 = Width
          BY <1>0
        <4>2. now = w + cnt
          BY <3>4, <4>1
        <4>3. Horizon < w
          BY DEF NoWrap
        <4> HIDE DEF w
        <4> QED
          BY <1>0, <1>2, <2>2, <4>2, <4>3
      <3>6. gl_ms_cnt' = gl_ms_cnt + 1
        BY <1>0, <2>2, <3>1, <3>5, ModIs
      <3>7. sys_ms_update' * Limit = 0
        BY <1>0, <3>1
      <3>8. Counted' = (gl_ms_cnt + 1) * Time!Ms + 0 + 0 + cnt
        BY <2>1, <3>6, <3>7 DEF Counted
      <3>9. (gl_ms_cnt + 1) * Time!Ms \in Nat
        <4> HIDE DEF g
        <4> QED
          BY <1>2
      <3>10. now' = Counted'
        BY <1>0, <2>1, <2>2, <3>4, <3>8, <3>9
      <3> QED
        BY <1>0, <1>1, <2>1, <3>10 DEF TimeInv
    <2>4. CASE ~ (sys_ms_update + 1 >= Conv)
      <3>1. sys_ms_update' = sys_ms_update + 1 /\ gl_ms_cnt' = gl_ms_cnt
        BY <1>5, <2>4 DEF Time!board_timer_isr, Time!board_timer_update
      <3>2. Counted' = g + (u + Limit) + 0 + cnt
        BY <1>2, <2>1, <3>1 DEF Counted
      <3>3. now' = Counted'
        <4> HIDE DEF g, u
        <4> QED
          BY <1>0, <1>2, <2>1, <2>2, <3>2
      <3> QED
        BY <1>0, <1>1, <2>1, <3>3 DEF TimeInv
    <2> QED
      BY <2>3, <2>4
  <1>6. /\ UNCHANGED <<cnt, ip, now, sys_ms_update, gl_ms_cnt>>
        /\ \/ UNCHANGED <<start, begun>>
           \/ start' = Time!NoTime
           \/ start' = Time!Total /\ begun' = now
        => TimeInv'
    <2> SUFFICES ASSUME /\ UNCHANGED <<cnt, ip, now, sys_ms_update, gl_ms_cnt>>
                        /\ \/ UNCHANGED <<start, begun>>
                           \/ start' = Time!NoTime
                           \/ start' = Time!Total /\ begun' = now
                 PROVE  TimeInv'
      OBVIOUS
    <2>1. now' = Counted'
      BY <1>0 DEF Counted
    <2>2. Time!Total < now + Limit
      BY ReadIs
    <2>3. start' # Time!NoTime => start' < begun' + Limit
      BY <1>0, <2>2
    <2> QED
      BY <1>1, <2>1, <2>3 DEF TimeInv
  <1>7. CASE Time!Mask
    BY <1>6, <1>7 DEF Time!Mask, Time!timer, Time!board, Time!thread
  <1>8. CASE Time!board_get_cur_us
    BY <1>6, <1>8 DEF Time!board_get_cur_us, Time!timer, Time!board
  <1>9. CASE Time!ReadCount
    BY <1>6, <1>9 DEF Time!ReadCount, Time!timer, Time!board
  <1>10. CASE Time!ReadMs
    BY <1>6, <1>10 DEF Time!ReadMs, Time!timer, Time!board
  <1>11. ASSUME NEW ms \in Delays, Time!board_delay_ms(ms)
         PROVE  TimeInv'
    BY <1>6, <1>11 DEF Time!board_delay_ms, Time!timer, Time!board
  <1> QED
    BY <1>3, <1>4, <1>5, <1>7, <1>8, <1>9, <1>10, <1>11 DEF Time!Next

LEMMA TimeBegins ==
  ASSUME Time!TimerConstants
  PROVE  Time!Init => TimeInv
  <1> SUFFICES ASSUME Time!Init
               PROVE  TimeInv
    OBVIOUS
  <1>1. Time!TypeOK
    BY TimeTypesBegin
  <1>2. 0 * Time!Ms = 0 /\ 0 * Limit = 0
    BY MillisecondIs DEF Time!TimerConstants
  <1>3. now = Counted
    BY <1>2 DEF Time!Init, Counted
  <1> QED
    BY <1>1, <1>3 DEF Time!Init, TimeInv

(* ------------------------------- theorems ------------------------------- *)

(* Every variable keeps its type, gl_ms_cnt in its 32 bits included.       *)
THEOREM TimerTypes ==
  ASSUME Time!TimerConstants
  PROVE  Time!Spec => []Time!TypeOK
  BY TimeTypesBegin, TimeTypesKept, PTL DEF Time!Spec

(* Whatever happens between its two reads, board_get_cur_us (board.c)      *)
(* returns a time less than a period of the timer ahead and less than a    *)
(* millisecond and a period behind, though board_timer_isr counts the      *)
(* periods and the milliseconds in two words.                              *)
THEOREM TimeIsKept ==
  ASSUME Time!TimerConstants, NoWrap
  PROVE  Time!Spec => Time!UsWithinPeriod
  <1>1. TimeInv /\ [Time!Next]_(Time!vars) =>
          [tpc = "ms" /\ tpc' # "ms" => value' < now + Limit /\ value' > now - Time!Ms - Limit]_(Time!vars)
    <2> SUFFICES ASSUME TimeInv, [Time!Next]_(Time!vars), tpc = "ms", tpc' # "ms"
                 PROVE  value' < now + Limit /\ value' > now - Time!Ms - Limit
      OBVIOUS
    <2>1. Time!ReadMs
      BY DEF Time!Next, Time!vars, Time!Tick, Time!board_timer_isr, Time!Mask, Time!board_get_cur_us, Time!ReadCount,
             Time!board_delay_ms, Time!At, Time!thread
    <2>2. value' = Time!Total
      BY <2>1 DEF Time!ReadMs
    <2> QED
      BY <2>2, ReadIs
  <1> QED
    BY <1>1, TimeBegins, TimeKept, PTL DEF Time!Spec, Time!UsWithinPeriod

(* board_delay_ms never goes on for a millisecond and two periods more     *)
(* than it was asked for: the times it compares, of which either may be    *)
(* ahead or behind, differ by the delay by then.                           *)
THEOREM DelaysEnd ==
  ASSUME Time!TimerConstants, NoWrap
  PROVE  Time!Spec => Time!NeverOversleeps
  <1>1. TimeInv /\ [Time!Next]_(Time!vars) =>
          [tpc = "ms" /\ delay # Time!NoTime /\ start # Time!NoTime /\ tpc' = "sub"
             => now - begun < (delay + 1) * Time!Ms + 2 * Limit]_(Time!vars)
    <2> SUFFICES ASSUME TimeInv, [Time!Next]_(Time!vars),
                        tpc = "ms", delay # Time!NoTime, start # Time!NoTime, tpc' = "sub"
                 PROVE  now - begun < (delay + 1) * Time!Ms + 2 * Limit
      OBVIOUS
    <2>1. Time!ReadMs
      BY DEF Time!Next, Time!vars, Time!Tick, Time!board_timer_isr, Time!Mask, Time!board_get_cur_us, Time!ReadCount,
             Time!board_delay_ms, Time!At, Time!thread
    <2>2. ~ Time!Over(Time!Total)
      BY <2>1 DEF Time!ReadMs
    <2> DEFINE t == Time!Total
               w == Width * Time!Ms
               waits == delay * Time!Ms
    <2>3. /\ t \in Nat /\ t < now + Limit /\ t > now - Time!Ms - Limit /\ t < 2 * w
          /\ w \in Nat \ {0} /\ Time!M64 = 4 * w /\ Time!Ms \in Nat \ {0}
      BY ReadIs, MillisecondIs
    <2>4. /\ start \in Nat /\ delay \in Nat /\ begun \in Nat /\ now \in Nat
          /\ start < begun + Limit /\ Limit \in Nat
      BY DEF TimeInv, Time!TypeOK, Time!TimerConstants
    <2>5. waits \in Nat /\ (delay + 1) * Time!Ms = waits + Time!Ms
      BY <2>3, <2>4
    <2>6. (t - start + Time!M64) % Time!M64 < waits
      <3>1. ~ ((t - start + Time!M64) % Time!M64 >= waits)
        BY <2>2 DEF Time!Over
      <3>2. (t - start + Time!M64) % Time!M64 \in Int /\ waits \in Int
        BY <2>3, <2>4, <2>5
      <3> HIDE DEF t, waits
      <3> QED
        BY <3>1, <3>2
    <2> HIDE DEF t, w, waits
    <2>7. CASE t < start
      BY <2>3, <2>4, <2>5, <2>7
    <2>8. CASE ~ (t < start)
      <3>1. (t - start + Time!M64) % Time!M64 = t - start
        <4>1. t - start \in 0 .. Time!M64 - 1 /\ Time!M64 \in Nat \ {0}
          BY <2>3, <2>4, <2>8
        <4>2. \A n \in Nat \ {0} : \A x \in 0 .. n - 1 : (x + n) % n = x
          OBVIOUS
        <4> QED
          BY <4>1, <4>2
      <3>2. t - start < waits
        BY <2>6, <3>1
      <3> QED
        BY <2>3, <2>4, <2>5, <3>2
    <2> QED
      BY <2>7, <2>8
  <1> QED
    BY <1>1, TimeBegins, TimeKept, PTL DEF Time!Spec, Time!NeverOversleeps

(* The two together: what board_get_cur_us tells and what board_delay_ms   *)
(* makes of it.                                                            *)
THEOREM TimeIsTold ==
  ASSUME Time!TimerConstants, NoWrap
  PROVE  Time!Spec => Time!TimeIsTrue
  BY TimeIsKept, DelaysEnd DEF Time!TimeIsTrue
=============================================================================
