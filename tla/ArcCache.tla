------------------------------- MODULE ArcCache ------------------------------
(***************************************************************************)
(* The maintenance of the instruction and data caches (src/arc/arc_cache.c)*)
(* on one core.  The functions on a range of memory loop over its lines    *)
(* with interrupts off, in 2^32 addresses; those on the cache's own memory *)
(* use an address register and two data registers per cache, with          *)
(* interrupts on.  Lines leave a cache only by what is modelled here.      *)
(***************************************************************************)
EXTENDS Integers, Sequences

CONSTANTS Addresses,   \* the number of addresses, 2^32
          LineSize, Capacity,
          Ranges,      \* pairs of address and size that calls are made with
          Entries,     \* entries of the cache's memory that calls are made for
          Kinds,       \* "i" and "d", the caches a program works on
          Programs     \* sets of what a program does

VARIABLE cache

Lines == 0 .. (Addresses \div LineSize) - 1
CacheConstants == /\ LineSize > 0 /\ Addresses % LineSize = 0 /\ Kinds \subseteq {"i", "d"} /\ Entries \subseteq Lines
                  /\ Programs \subseteq SUBSET {"access", "entry", "invalidate", "flush", "lock"}
                  /\ \A r \in Ranges : r[1] \in 0 .. Addresses - 1 /\ r[2] \in 0 .. Addresses - 1
LastLine == (Addresses \div LineSize) - 1
Wrap(a) == a % Addresses
(* The lines a range touches, and whether it reaches the last line there   *)
(* is: the loops compare addresses that wrap.                              *)
Touched(from, size) == {Wrap(from + i) \div LineSize : i \in 0 .. size - 1}
AtTheTop(from, size) == LastLine \in Touched(from, size)

RangeOps == {"invalidate", "flush", "lock"}
EntryOps == {"direct_write", "direct_read", "indirect_read"}
(* A context: the call it makes, where it is in it, start and end of what  *)
(* is left of the loop; did: the lines operated on; tag, data: the entries *)
(* reached through TAG and DATA; raced: a handler used the registers.      *)
Idle == [at |-> "idle", op |-> "none", from |-> 0, size |-> 0, start |-> 0, end |-> 0, did |-> {},
         ret |-> 0, tag |-> -1, data |-> -1, raced |-> FALSE]
(* kind, uses: the cache the program works on, and what it does.  line,    *)
(* capacity: the cache's configuration, 0 before arc_cache_init; indirect: *)
(* its access mode; addr, succeeded: its address register and result bit.  *)
Init == \E kind \in Kinds, uses \in Programs :
  cache = [kind |-> kind, uses |-> uses, line |-> 0, capacity |-> 0, indirect |-> FALSE, busy |-> FALSE,
           addr |-> 0, succeeded |-> FALSE, valid |-> {}, dirty |-> {}, locked |-> {},
           contexts |-> <<Idle>>]

Set(h) == cache' = h
top == Len(cache.contexts)
me == cache.contexts[top]
With(f) == [cache EXCEPT !.contexts[top] = f]

(* ---------------------- the cache and the program ----------------------- *)

FlushDone == cache.busy /\ Set([cache EXCEPT !.busy = FALSE])
Store == /\ cache.kind = "d" /\ me.at = "idle" /\ "access" \in cache.uses
         /\ \E l \in Lines : Set([cache EXCEPT !.valid = @ \cup {l}, !.dirty = @ \cup {l}])
Fetch == /\ me.at = "idle" /\ "access" \in cache.uses
         /\ \E l \in Lines : Set([cache EXCEPT !.valid = @ \cup {l}])

(* arc_cache_init selects: the invalidation of a dirty line writes it back,*)
(* the flushing of a locked one does not.                                  *)
Invalidated(h, l) == [h EXCEPT !.valid = @ \ {l}, !.dirty = @ \ {l}, !.locked = @ \ {l}, !.busy = cache.kind = "d"]
Flushed(h, l) == [h EXCEPT !.dirty = IF l \in h.locked THEN @ ELSE @ \ {l}, !.busy = TRUE]
Locked(h, l, ok) == [h EXCEPT !.succeeded = ok, !.valid = IF ok THEN @ \cup {l} ELSE @,
                              !.locked = IF ok THEN @ \cup {l} ELSE @]

(* ------------------------------- ranges --------------------------------- *)

arc_cache_init ==
  /\ me.at = "idle" /\ top = 1 /\ cache.line = 0
  /\ Set([cache EXCEPT !.line = LineSize, !.capacity = Capacity, !.indirect = cache.kind = "d",
                       !.valid = {}, !.dirty = {}, !.locked = {}])
(* Mutant: the loop starts at the address itself. *)
FirstOf_Unaligned(address) == address
FirstOf(address) == address - (address % LineSize)
(* icache_invalidate_mlines, ..., dcache_lock_mlines: parameters checked,  *)
(* interrupts locked.                                                      *)
Mlines(op, r) ==
  /\ me.at = "idle" /\ op \in cache.uses /\ (op = "flush" => cache.kind = "d")
  /\ Set(With(IF r[2] = 0 \/ r[2] > cache.capacity
              THEN [Idle EXCEPT !.op = op, !.from = r[1], !.size = r[2], !.at = "ret", !.ret = -1]
              ELSE [Idle EXCEPT !.op = op, !.from = r[1], !.size = r[2], !.at = "line",
                                !.start = FirstOf(r[1]), !.end = Wrap(r[1] + r[2] - 1)]))
(* Mutant: the last line is left out if the range has only its first byte. *)
Turn_Less(f) == [f EXCEPT !.start = Wrap(@ + LineSize), !.did = @ \cup {f.start \div LineSize},
                          !.at = IF Wrap(f.start + LineSize) < f.end THEN "line" ELSE "ret"]
(* One turn of the loop: the line is done, the loop goes on or ends.       *)
Turn(f) == [f EXCEPT !.start = Wrap(@ + LineSize), !.did = @ \cup {f.start \div LineSize},
                     !.at = IF Wrap(f.start + LineSize) <= f.end THEN "line" ELSE "ret"]
Line == /\ me.at = "line" /\ ~ cache.busy
        /\ LET l == me.start \div LineSize IN
           \/ me.op = "invalidate" /\ Set(Invalidated(With(Turn(me)), l))
           \/ me.op = "flush" /\ Set(Flushed(With(Turn(me)), l))
           \/ me.op = "lock" /\ Set(Locked(With(Turn(me)), l, TRUE))
           \/ me.op = "lock" /\ Set(Locked(With([me EXCEPT !.at = "ret", !.ret = -1]), l, FALSE))

(* ------------------------------- entries -------------------------------- *)

(* The mode is looked at once, before the address is written.              *)
Entry(op, a) ==
  /\ me.at = "idle" /\ "entry" \in cache.uses
  /\ Set(With(IF (op = "indirect_read") # cache.indirect
              THEN [Idle EXCEPT !.op = op, !.at = "ret", !.ret = -1]
              ELSE [Idle EXCEPT !.op = op, !.from = a, !.at = "addr"]))
(* Mutant: the address register is not written. *)
WriteAddr_Not ==
  /\ me.at = "addr"
  /\ Set(With([me EXCEPT !.at = IF me.op = "indirect_read" THEN "result" ELSE "tag"]))
WriteAddr ==
  /\ me.at = "addr"
  /\ Set([With([me EXCEPT !.at = IF me.op = "indirect_read" THEN "result" ELSE "tag"])
            EXCEPT !.addr = me.from, !.succeeded = IF me.op = "indirect_read" THEN me.from \in cache.valid ELSE @])
ReadResult == /\ me.at = "result"
              /\ Set(With(IF cache.succeeded THEN [me EXCEPT !.at = "tag"] ELSE [me EXCEPT !.at = "ret", !.ret = -1]))
AccessTag == me.at = "tag" /\ Set(With([me EXCEPT !.tag = cache.addr, !.at = "data"]))
AccessData == me.at = "data" /\ Set(With([me EXCEPT !.data = cache.addr, !.at = "ret"]))
(* icache_access_mode, dcache_access_mode.                                 *)
AccessMode == me.at = "idle" /\ "entry" \in cache.uses /\ Set([cache EXCEPT !.indirect = ~ @])

(* -------------------- return, and a handler in between ------------------ *)

Return == /\ me.at = "ret" /\ ~ cache.busy
          /\ IF top = 1 THEN Set(With(Idle)) ELSE Set([cache EXCEPT !.contexts = SubSeq(@, 1, 1)])
(* A handler that uses the cache interrupts the thread between two accesses*)
(* of a function that does not lock interrupts, once in a call.            *)
Interrupt == /\ top = 1 /\ ~ me.raced /\ me.at \in {"addr", "result", "tag", "data"}
             /\ Set([cache EXCEPT !.contexts = <<[me EXCEPT !.raced = TRUE], Idle>>])
HandlerLeaves == top = 2 /\ me.at = "idle" /\ Set([cache EXCEPT !.contexts = SubSeq(@, 1, 1)])

Works == Line \/ WriteAddr \/ ReadResult \/ AccessTag \/ AccessData \/ Return \/ HandlerLeaves
Next == \/ FlushDone \/ arc_cache_init \/ Works \/ Interrupt \/ AccessMode
        \/ (top = 1 /\ (Store \/ Fetch))
        \/ \E op \in RangeOps, r \in Ranges : Mlines(op, r)
        \/ \E op \in EntryOps, a \in Entries : Entry(op, a)
Spec == Init /\ [][Next]_cache
(* A flush ends, and a call goes on.                                       *)
Fairness == /\ []<>(~ cache.busy) \/ []<><<FlushDone>>_cache
            /\ []<>(me.at = "idle" /\ top = 1) \/ []<><<Works>>_cache

(* ------------------------------ properties ------------------------------ *)

(* Every field keeps its type.                                             *)
TypeOK == /\ cache.locked \cup cache.dirty \subseteq cache.valid /\ cache.valid \subseteq Lines
          /\ cache.addr \in Lines /\ top \in 1 .. 2

(* A function on a range operates on no line that the range does not touch;*)
(* one that returns 0 has operated on each.  Then, before another context  *)
(* runs, an invalidated range is out of the cache, a locked one is in it   *)
(* and a flushed one is in memory but for locked lines, which              *)
(* arc_cache_init excepts from flushing.  None of it holds for a range that*)
(* reaches the last line of the address space.                             *)
RangeDone ==
  \A n \in 1 .. top : LET f == cache.contexts[n]
                          range == Touched(f.from, f.size)
                      IN f.op \in RangeOps /\ ~ AtTheTop(f.from, f.size) =>
    /\ f.did \subseteq range
    /\ f.at = "ret" /\ f.ret = 0 =>
         /\ f.did = range
         /\ CASE f.op = "invalidate" -> range \cap cache.valid = {}
              [] f.op = "flush" -> range \cap cache.dirty \subseteq cache.locked
              [] f.op = "lock" -> range \subseteq cache.locked
(* TAG and DATA are those of the entry the function was called for, unless *)
(* a handler used the cache between its accesses.                          *)
OwnEntry ==
  \A n \in 1 .. top : LET f == cache.contexts[n] IN
    f.raced \/ (f.tag \in {-1, f.from} /\ f.data \in {-1, f.from})
(* A function on a range has operated on exactly its lines when it returns *)
(* 0, and one on the cache's memory is at the address asked for, but for   *)
(* what the two properties name.                                           *)
CacheAsAsked == TypeOK /\ RangeDone /\ OwnEntry
(* A call is at work; a loop whose end is in the last line never ends.     *)
InCall == /\ cache.contexts # <<Idle>>
          /\ \A n \in 1 .. top : ~ AtTheTop(cache.contexts[n].from, cache.contexts[n].size)
=============================================================================
