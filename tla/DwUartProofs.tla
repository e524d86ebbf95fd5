---------------------------- MODULE DwUartProofs ----------------------------
(***************************************************************************)
(* Proofs about the DesignWare UART driver, for any buffers but empty ones,*)
(* any baud rates, clock, FIFO depth and bounds: the types and the buffers *)
(* for a client without any discipline too, the book-keeping for one that  *)
(* keeps to Allowed, but may give the next buffer in a callback.           *)
(***************************************************************************)
EXTENDS DwUart, SequenceTheorems, TLAPS

(* The buffers a client hands over have a byte at least, as InBuffer needs *)
(* (the routine moves a byte before it compares ofs with len).             *)
NonEmpty == Lens \subseteq Nat \ {0} /\ MaxByte \in Nat \ {0}

(* ------------------------- sequences of accesses ------------------------ *)

(* The accesses there are, by the values their steps put into words.       *)
Conditions == Dir \cup {"in use", "not needed"}
Flags == {"ENABLED", "TX_ABRT", "RX_ABRT"}
Kinds == {"status", "int_status", "ier", "irq", "dlab", "div", "reset", "baudrate",
          "clear cbs", "callback", "clear", "buffer", "unless", "from", "rest", "drained",
          "write", "read"}
Names == Conditions \cup Flags \cup {"gint", ""}
Accesses ==
  {a \in [op : Kinds, on : BOOLEAN, what : Names, n : Nat] :
     /\ a.op \in {"ier", "callback", "clear", "buffer"} => a.what \in Dir
     /\ a.op = "int_status" => a.what \in Dir \cup {"gint"}
     /\ a.op = "status" => a.what \in Flags
     /\ a.op = "unless" => a.what \in Conditions
     /\ a.op = "baudrate" => a.n \in Bauds
     /\ a.op = "buffer" => a.n \in Lens
     /\ a.op = "write" => a.n \in 1 .. MaxByte}

(* What a skip leaves out is plain, and the loop of a flush comes right    *)
(* after the access that sets it up.                                       *)
Plain == {"ier", "int_status", "irq", "status", "callback", "unless"}
SkipsPlain(s, i) == s[i].op = "unless" =>
  /\ i + Skipped(s[i].what) <= Len(s)
  /\ \A j \in i + 1 .. i + Skipped(s[i].what) : s[j].op \in Plain
FlushWhole(s, i) == s[i].op = "from" =>
  i + 2 <= Len(s) /\ s[i + 1].op = "rest" /\ s[i + 2].op = "clear"
SetUp(s, i) == s[i].op = "rest" => i > 1 /\ s[i - 1].op = "from"
Of(s, K) == \A i \in 1 .. Len(s) : s[i].op \in K
Framed(s) == /\ s \in Seq(Accesses)
             /\ \A i \in 1 .. Len(s) : SkipsPlain(s, i) /\ FlushWhole(s, i) /\ SetUp(s, i)

(* What the first accesses of a sequence leave. *)
Drop(s, k) == SubSeq(s, k + 1, Len(s))

LEMMA SkippedIs == \A c : Skipped(c) \in {2, 8}
  BY DEF Skipped

LEMMA DropIs ==
  ASSUME NEW S, NEW s \in Seq(S), NEW k \in 0 .. Len(s)
  PROVE  /\ Drop(s, k) \in Seq(S) /\ Len(Drop(s, k)) = Len(s) - k
         /\ \A i \in 1 .. Len(s) - k : Drop(s, k)[i] = s[i + k]
  <1> DEFINE m == Len(s)
  <1>1. m \in Nat /\ k \in 0 .. m /\ \A i \in 1 .. m : s[i] \in S
    BY ElementOfSeq
  <1> HIDE DEF m
  <1>2. /\ SubSeq(s, k + 1, m) \in Seq(S)
        /\ Len(SubSeq(s, k + 1, m)) = IF k + 1 <= m THEN m - (k + 1) + 1 ELSE 0
        /\ \A i \in 1 .. m - (k + 1) + 1 : SubSeq(s, k + 1, m)[i] = s[k + 1 + i - 1]
    <2>1. \A i \in k + 1 .. m : s[i] \in S
      BY <1>1
    <2> QED
      BY <1>1, <2>1, SubSeqProperties
  <1>3. /\ Len(SubSeq(s, k + 1, m)) = m - k
        /\ \A i \in 1 .. m - k : SubSeq(s, k + 1, m)[i] = s[i + k]
    BY <1>1, <1>2
  <1> QED
    BY <1>2, <1>3 DEF Drop, m

LEMMA TailIsDrop ==
  ASSUME NEW S, NEW s \in Seq(S), s # <<>>
  PROVE  Tail(s) = Drop(s, 1) /\ Len(s) \in Nat \ {0} /\ Head(s) = s[1]
  BY TailIsSubSeq, EmptySeq DEF Drop

(* Dropping accesses keeps the frame, unless it cuts a flush. *)
LEMMA DropFramed ==
  ASSUME NEW s, Framed(s), NEW k \in 0 .. Len(s),
         k < Len(s) => s[k + 1].op # "rest"
  PROVE  Framed(Drop(s, k))
  <1> DEFINE t == Drop(s, k)
             m == Len(s)
             n == Len(t)
  <1>0. s \in Seq(Accesses) /\ m \in Nat /\ k \in 0 .. m
    BY LenProperties DEF Framed
  <1>4. t \in Seq(Accesses) /\ n = m - k /\ \A i \in 1 .. m - k : t[i] = s[i + k]
    BY <1>0, DropIs
  <1>2. k < m => s[k + 1].op # "rest"
    OBVIOUS
  <1> HIDE DEF t, n, m
  <1>1. /\ t \in Seq(Accesses) /\ n = m - k /\ m \in Nat /\ n \in Nat /\ k \in 0 .. m
        /\ \A i \in 1 .. n : t[i] = s[i + k]
    BY <1>0, <1>4
  <1>3. ASSUME NEW i \in 1 .. n
        PROVE  SkipsPlain(t, i) /\ FlushWhole(t, i) /\ SetUp(t, i)
    <2>1. t[i] = s[i + k] /\ i + k \in 1 .. m
      BY <1>1, <1>3
    <2>2. SkipsPlain(s, i + k) /\ FlushWhole(s, i + k) /\ SetUp(s, i + k)
      BY <2>1 DEF Framed, m
    <2>3. SkipsPlain(t, i)
      <3> SUFFICES ASSUME t[i].op = "unless"
                   PROVE  /\ i + Skipped(t[i].what) <= n
                          /\ \A j \in i + 1 .. i + Skipped(t[i].what) : t[j].op \in Plain
        BY DEF SkipsPlain, n
      <3> DEFINE d == Skipped(t[i].what)
      <3>1. d \in Nat
        BY SkippedIs
      <3>2. i + k + d <= m /\ \A j \in i + k + 1 .. i + k + d : s[j].op \in Plain
        BY <2>1, <2>2 DEF SkipsPlain, m
      <3> HIDE DEF d
      <3>3. i + d <= n
        BY <1>1, <3>1, <3>2
      <3>4. ASSUME NEW j \in i + 1 .. i + d
            PROVE  t[j].op \in Plain
        <4>1. j \in 1 .. n /\ j + k \in i + k + 1 .. i + k + d
          BY <1>1, <3>1, <3>3, <3>4
        <4> QED
          BY <1>1, <3>2, <4>1
      <3> QED
        BY <3>3, <3>4 DEF d
    <2>4. FlushWhole(t, i)
      <3> SUFFICES ASSUME t[i].op = "from"
                   PROVE  i + 2 <= n /\ t[i + 1].op = "rest" /\ t[i + 2].op = "clear"
        BY DEF FlushWhole, n
      <3>1. i + k + 2 <= m /\ s[i + k + 1].op = "rest" /\ s[i + k + 2].op = "clear"
        BY <2>1, <2>2 DEF FlushWhole, m
      <3>0. i \in Nat /\ k \in Nat /\ m \in Nat /\ n = m - k /\ 1 <= i
        BY <1>1
      <3>2. i + 1 \in 1 .. n /\ i + 2 \in 1 .. n
        BY ONLY <3>0, <3>1
      <3>3. t[i + 1] = s[i + 1 + k] /\ t[i + 2] = s[i + 2 + k]
        BY <1>1, <3>2
      <3>4. i + 1 + k = i + k + 1 /\ i + 2 + k = i + k + 2
        OBVIOUS
      <3> QED
        BY <3>1, <3>2, <3>3, <3>4
    <2>5. SetUp(t, i)
      <3> SUFFICES ASSUME t[i].op = "rest"
                   PROVE  i > 1 /\ t[i - 1].op = "from"
        BY DEF SetUp
      <3>1. s[i + k - 1].op = "from"
        BY <2>1, <2>2 DEF SetUp
      <3>2. i > 1
        BY <1>1, <1>2, <2>1
      <3>3. t[i - 1] = s[i - 1 + k] /\ i - 1 + k = i + k - 1
        BY <1>1, <3>2
      <3> QED
        BY <3>1, <3>2, <3>3
    <2> QED
      BY <2>3, <2>4, <2>5
  <1>5. Framed(t)
    BY <1>1, <1>3 DEF Framed, n
  <1> QED
    BY <1>5 DEF t

(* Sequences one after the other. *)
LEMMA ConcatIs ==
  ASSUME NEW a \in Seq(Accesses), NEW b \in Seq(Accesses)
  PROVE  /\ a \o b \in Seq(Accesses) /\ Len(a) \in Nat /\ Len(b) \in Nat
         /\ Len(a \o b) = Len(a) + Len(b)
         /\ \A i \in 1 .. Len(a) : (a \o b)[i] = a[i]
         /\ \A i \in 1 .. Len(b) : (a \o b)[i + Len(a)] = b[i]
  <1> DEFINE m == Len(a)
             n == Len(b)
             c == a \o b
  <1>1. /\ m \in Nat /\ n \in Nat /\ c \in Seq(Accesses) /\ Len(c) = m + n
        /\ \A i \in 1 .. m + n : c[i] = IF i <= m THEN a[i] ELSE b[i - m]
    BY ConcatProperties, LenProperties
  <1> HIDE DEF m, n, c
  <1>2. \A i \in 1 .. m : c[i] = a[i]
    BY <1>1
  <1>3. \A i \in 1 .. n : c[i + m] = b[i]
    <2> SUFFICES ASSUME NEW i \in 1 .. n
                 PROVE  c[i + m] = b[i]
      OBVIOUS
    <2>1. i + m \in 1 .. m + n /\ ~ (i + m <= m) /\ i + m - m = i
      BY <1>1
    <2> QED
      BY <1>1, <2>1
  <1> QED
    BY <1>1, <1>2, <1>3 DEF m, n, c

LEMMA ConcatOf ==
  ASSUME NEW a \in Seq(Accesses), NEW b \in Seq(Accesses), NEW K, Of(a, K), Of(b, K)
  PROVE  Of(a \o b, K)
  <1> DEFINE c == a \o b
             m == Len(a)
             n == Len(b)
  <1>1. /\ m \in Nat /\ n \in Nat /\ Len(c) = m + n
        /\ \A i \in 1 .. m : c[i] = a[i]
        /\ \A i \in 1 .. n : c[i + m] = b[i]
    BY ConcatIs
  <1>2. (\A i \in 1 .. m : a[i].op \in K) /\ (\A i \in 1 .. n : b[i].op \in K)
    BY DEF Of
  <1> HIDE DEF c, m, n
  <1>3. ASSUME NEW i \in 1 .. m + n
        PROVE  c[i].op \in K
    <2>1. CASE i <= m
      BY <1>1, <1>2, <2>1
    <2>2. CASE ~ (i <= m)
      <3>1. i - m \in 1 .. n /\ i - m + m = i
        BY <1>1, <1>3, <2>2
      <3>2. c[i - m + m] = b[i - m]
        BY <1>1, <3>1
      <3> QED
        BY <1>2, <3>1, <3>2
    <2> QED
      BY <2>1, <2>2
  <1>4. Of(c, K)
    BY <1>1, <1>3 DEF Of
  <1> QED
    BY <1>4 DEF c

LEMMA ConcatFramed ==
  ASSUME NEW a, NEW b, Framed(a), Framed(b)
  PROVE  Framed(a \o b)
  <1> DEFINE c == a \o b
             m == Len(a)
             n == Len(b)
             l == Len(c)
  <1>1. a \in Seq(Accesses) /\ b \in Seq(Accesses)
    BY DEF Framed
  <1>2. /\ c \in Seq(Accesses) /\ m \in Nat /\ n \in Nat /\ l = m + n
        /\ \A i \in 1 .. m : c[i] = a[i]
        /\ \A i \in 1 .. n : c[i + m] = b[i]
    BY <1>1, ConcatIs
  <1> HIDE DEF c, m, n, l
  <1>3. ASSUME NEW i \in 1 .. m
        PROVE  SkipsPlain(c, i) /\ FlushWhole(c, i) /\ SetUp(c, i)
    <2>1. SkipsPlain(a, i) /\ FlushWhole(a, i) /\ SetUp(a, i) /\ c[i] = a[i]
      BY <1>2 DEF Framed, m
    <2> DEFINE d == Skipped(c[i].what)
    <2>2. d \in Nat
      BY SkippedIs
    <2>3. c[i].op = "unless" => i + d <= m /\ \A j \in i + 1 .. i + d : a[j].op \in Plain
      BY <2>1 DEF SkipsPlain, m
    <2>4. c[i].op = "from" => i + 2 <= m /\ a[i + 1].op = "rest" /\ a[i + 2].op = "clear"
      BY <2>1 DEF FlushWhole, m
    <2>5. c[i].op = "rest" => i > 1 /\ a[i - 1].op = "from"
      BY <2>1 DEF SetUp
    <2> HIDE DEF d
    <2>6. c[i].op = "unless" => i + d <= l /\ \A j \in i + 1 .. i + d : c[j].op \in Plain
      BY <1>2, <2>2, <2>3
    <2>7. c[i].op = "from" => i + 2 <= l /\ c[i + 1].op = "rest" /\ c[i + 2].op = "clear"
      BY <1>2, <2>4
    <2>8. c[i].op = "rest" => i > 1 /\ c[i - 1].op = "from"
      BY <1>2, <2>5
    <2> QED
      BY <2>6, <2>7, <2>8 DEF SkipsPlain, FlushWhole, SetUp, d, l
  <1>4. ASSUME NEW i \in 1 .. n
        PROVE  SkipsPlain(c, i + m) /\ FlushWhole(c, i + m) /\ SetUp(c, i + m)
    <2>1. SkipsPlain(b, i) /\ FlushWhole(b, i) /\ SetUp(b, i) /\ c[i + m] = b[i]
      BY <1>2 DEF Framed, n
    <2> DEFINE d == Skipped(b[i].what)
    <2>2. d \in Nat
      BY SkippedIs
    <2>3. b[i].op = "unless" => i + d <= n /\ \A j \in i + 1 .. i + d : b[j].op \in Plain
      BY <2>1 DEF SkipsPlain, n
    <2>4. b[i].op = "from" => i + 2 <= n /\ b[i + 1].op = "rest" /\ b[i + 2].op = "clear"
      BY <2>1 DEF FlushWhole, n
    <2>5. b[i].op = "rest" => i > 1 /\ b[i - 1].op = "from"
      BY <2>1 DEF SetUp
    <2> HIDE DEF d
    <2>6. ASSUME b[i].op = "unless"
          PROVE  i + m + d <= l /\ \A j \in i + m + 1 .. i + m + d : c[j].op \in Plain
      <3>1. i + m + d <= l
        BY <1>2, <2>2, <2>3, <2>6
      <3>2. ASSUME NEW j \in i + m + 1 .. i + m + d
            PROVE  c[j].op \in Plain
        <4>1. j - m \in i + 1 .. i + d /\ j - m \in 1 .. n /\ j - m + m = j
          BY <1>2, <2>2, <2>3, <2>6, <3>2
        <4> QED
          BY <1>2, <2>3, <2>6, <4>1
      <3> QED
        BY <3>1, <3>2
    <2>7. ASSUME b[i].op = "from"
          PROVE  i + m + 2 <= l /\ c[i + m + 1].op = "rest" /\ c[i + m + 2].op = "clear"
      <3>1. /\ i + m + 2 <= l /\ i + 1 \in 1 .. n /\ i + 2 \in 1 .. n
            /\ i + m + 1 = (i + 1) + m /\ i + m + 2 = (i + 2) + m
        BY <1>2, <2>4, <2>7
      <3>2. c[(i + 1) + m] = b[i + 1] /\ c[(i + 2) + m] = b[i + 2]
        BY <1>2, <3>1
      <3> QED
        BY <2>4, <2>7, <3>1, <3>2
    <2>8. ASSUME b[i].op = "rest"
          PROVE  i + m > 1 /\ c[i + m - 1].op = "from"
      <3>1. i + m > 1 /\ i - 1 \in 1 .. n /\ i + m - 1 = (i - 1) + m
        BY <1>2, <2>5, <2>8
      <3> QED
        BY <1>2, <2>5, <2>8, <3>1
    <2>9. SkipsPlain(c, i + m)
      BY <2>1, <2>6 DEF SkipsPlain, d, l
    <2>10. FlushWhole(c, i + m)
      BY <2>1, <2>7 DEF FlushWhole, l
    <2>11. SetUp(c, i + m)
      <3>1. c[i + m].op = "rest" => b[i].op = "rest"
        BY <2>1
      <3> QED
        BY <1>2, <2>8, <3>1 DEF SetUp
    <2> QED
      BY <2>9, <2>10, <2>11
  <1>5. ASSUME NEW i \in 1 .. l
        PROVE  SkipsPlain(c, i) /\ FlushWhole(c, i) /\ SetUp(c, i)
    <2>1. CASE i \in 1 .. m
      BY <1>3, <2>1
    <2>2. CASE i \notin 1 .. m
      <3>1. i - m \in 1 .. n /\ i - m + m = i
        BY <1>2, <1>5, <2>2
      <3>2. SkipsPlain(c, i - m + m) /\ FlushWhole(c, i - m + m) /\ SetUp(c, i - m + m)
        BY <1>4, <3>1
      <3> QED
        BY <3>1, <3>2
    <2> QED
      BY <2>1, <2>2
  <1>6. Framed(c)
    BY <1>2, <1>5 DEF Framed, l
  <1> QED
    BY <1>6 DEF c

(* ---------------------- the driver's calls are framed ------------------- *)

(* The accesses, one by one. *)
LEMMA SingleAccess ==
  /\ \A on \in BOOLEAN, f \in Flags : Status(on, f) \in Accesses
  /\ \A on \in BOOLEAN, d \in Dir : Ier(on, d) \in Accesses
  /\ \A on \in BOOLEAN, f \in Dir \cup {"gint"} : IntSt(on, f) \in Accesses
  /\ \A on \in BOOLEAN : Irq(on) \in Accesses /\ Op("dlab", on, "") \in Accesses
  /\ \A d \in Dir : Callback(d) \in Accesses /\ ClearBuf(d) \in Accesses
  /\ \A c \in Conditions : Unless(c) \in Accesses
  /\ \A v \in Nat : Div(v) \in Accesses
  /\ \A b \in Bauds : b \in Nat => Number("baudrate", b) \in Accesses
  /\ \A n \in 1 .. MaxByte : n \in Nat => Number("write", n) \in Accesses
  /\ \A n \in Lens, d \in Dir : n \in Nat => Access("buffer", TRUE, d, n) \in Accesses
  /\ \A op \in {"from", "rest", "drained", "reset", "clear cbs", "read"} :
       Op(op, TRUE, "") \in Accesses
  <1>1. \A on \in BOOLEAN, f \in Flags : Status(on, f) \in Accesses
    BY DEF Access, Op, Number, Status, Ier, IntSt, Irq, Callback, ClearBuf, Unless, Div,
           Accesses, Kinds, Names, Flags, Dir, Conditions
  <1>2. \A on \in BOOLEAN, d \in Dir : Ier(on, d) \in Accesses
    BY DEF Access, Op, Number, Status, Ier, IntSt, Irq, Callback, ClearBuf, Unless, Div,
           Accesses, Kinds, Names, Flags, Dir, Conditions
  <1>3. \A on \in BOOLEAN, f \in Dir \cup {"gint"} : IntSt(on, f) \in Accesses
    BY DEF Access, Op, Number, Status, Ier, IntSt, Irq, Callback, ClearBuf, Unless, Div,
           Accesses, Kinds, Names, Flags, Dir, Conditions
  <1>4. \A on \in BOOLEAN : Irq(on) \in Accesses /\ Op("dlab", on, "") \in Accesses
    BY DEF Access, Op, Number, Status, Ier, IntSt, Irq, Callback, ClearBuf, Unless, Div,
           Accesses, Kinds, Names, Flags, Dir, Conditions
  <1>5. \A d \in Dir : Callback(d) \in Accesses /\ ClearBuf(d) \in Accesses
    BY DEF Access, Op, Number, Status, Ier, IntSt, Irq, Callback, ClearBuf, Unless, Div,
           Accesses, Kinds, Names, Flags, Dir, Conditions
  <1>6. \A c \in Conditions : Unless(c) \in Accesses
    BY DEF Access, Op, Number, Status, Ier, IntSt, Irq, Callback, ClearBuf, Unless, Div,
           Accesses, Kinds, Names, Flags, Dir, Conditions
  <1>7. \A v \in Nat : Div(v) \in Accesses
    BY DEF Access, Op, Number, Status, Ier, IntSt, Irq, Callback, ClearBuf, Unless, Div,
           Accesses, Kinds, Names, Flags, Dir, Conditions
  <1>8. \A b \in Bauds : b \in Nat => Number("baudrate", b) \in Accesses
    BY DEF Access, Op, Number, Status, Ier, IntSt, Irq, Callback, ClearBuf, Unless, Div,
           Accesses, Kinds, Names, Flags, Dir, Conditions
  <1>9. \A n \in 1 .. MaxByte : n \in Nat => Number("write", n) \in Accesses
    BY DEF Access, Op, Number, Status, Ier, IntSt, Irq, Callback, ClearBuf, Unless, Div,
           Accesses, Kinds, Names, Flags, Dir, Conditions
  <1>10. \A n \in Lens, d \in Dir : n \in Nat => Access("buffer", TRUE, d, n) \in Accesses
    BY DEF Access, Op, Number, Status, Ier, IntSt, Irq, Callback, ClearBuf, Unless, Div,
           Accesses, Kinds, Names, Flags, Dir, Conditions
  <1>11. \A op \in {"from", "rest", "drained", "reset", "clear cbs", "read"} :
       Op(op, TRUE, "") \in Accesses
    BY DEF Access, Op, Number, Status, Ier, IntSt, Irq, Callback, ClearBuf, Unless, Div,
           Accesses, Kinds, Names, Flags, Dir, Conditions
  <1> QED
    BY <1>1, <1>2, <1>3, <1>4, <1>5, <1>6, <1>7, <1>8, <1>9, <1>10, <1>11

(* Sequences without conditions and loops. *)
LEMMA StraightFramed ==
  ASSUME NEW s \in Seq(Accesses),
         \A i \in 1 .. Len(s) : s[i].op \notin {"unless", "from", "rest"}
  PROVE  Framed(s)
  BY DEF Framed, SkipsPlain, FlushWhole, SetUp

Straight(a) == a \in Accesses /\ a.op \notin {"unless", "from", "rest"}
LEMMA ShortFramed ==
  /\ Framed(<<>>)
  /\ \A a : Straight(a) => Framed(<<a>>)
  /\ \A a, b, c : Straight(a) /\ Straight(b) /\ Straight(c) => Framed(<<a, b, c>>)
  /\ \A a, b, c, e : Straight(a) /\ Straight(b) /\ Straight(c) /\ Straight(e)
                       => Framed(<<a, b, c, e>>)
  <1>1. Framed(<<>>)
    BY DEF Framed
  <1>2. ASSUME NEW a, Straight(a)
        PROVE  Framed(<<a>>)
    <2> DEFINE s == <<a>>
    <2>1. s \in Seq(Accesses) /\ Len(s) = 1 /\ s[1] = a
      BY <1>2 DEF Straight
    <2> HIDE DEF s
    <2>2. \A i \in 1 .. Len(s) : s[i].op \notin {"unless", "from", "rest"}
      BY <1>2, <2>1 DEF Straight
    <2>3. Framed(s)
      BY <2>1, <2>2, StraightFramed
    <2> QED
      BY <2>3 DEF s
  <1>3. ASSUME NEW a, NEW b, NEW c, Straight(a), Straight(b), Straight(c)
        PROVE  Framed(<<a, b, c>>)
    <2> DEFINE s == <<a, b, c>>
    <2>1. s \in Seq(Accesses) /\ Len(s) = 3 /\ s[1] = a /\ s[2] = b /\ s[3] = c
      BY <1>3 DEF Straight
    <2> HIDE DEF s
    <2>2. \A i \in 1 .. Len(s) : s[i].op \notin {"unless", "from", "rest"}
      BY <1>3, <2>1 DEF Straight
    <2>3. Framed(s)
      BY <2>1, <2>2, StraightFramed
    <2> QED
      BY <2>3 DEF s
  <1>4. ASSUME NEW a, NEW b, NEW c, NEW e,
               Straight(a), Straight(b), Straight(c), Straight(e)
        PROVE  Framed(<<a, b, c, e>>)
    <2> DEFINE s == <<a, b, c, e>>
    <2>1. /\ s \in Seq(Accesses) /\ Len(s) = 4
          /\ s[1] = a /\ s[2] = b /\ s[3] = c /\ s[4] = e
      BY <1>4 DEF Straight
    <2> HIDE DEF s
    <2>2. \A i \in 1 .. Len(s) : s[i].op \notin {"unless", "from", "rest"}
      BY <1>4, <2>1 DEF Straight
    <2>3. Framed(s)
      BY <2>1, <2>2, StraightFramed
    <2> QED
      BY <2>3 DEF s
  <1> QED
    BY <1>1, <1>2, <1>3, <1>4

(* A condition before a framed sequence that is plain as far as it skips. *)
LEMMA UnlessFramed ==
  ASSUME NEW c \in Conditions, NEW s, Framed(s), Skipped(c) <= Len(s),
         \A j \in 1 .. Skipped(c) : s[j].op \in Plain
  PROVE  Framed(<<Unless(c)>> \o s)
  <1> DEFINE t == <<Unless(c)>> \o s
             n == Len(s)
             d == Skipped(c)
  <1>1. Unless(c) \in Accesses /\ Unless(c).op = "unless" /\ Unless(c).what = c
    BY SingleAccess DEF Unless, Op, Access
  <1>2. <<Unless(c)>> \in Seq(Accesses) /\ s \in Seq(Accesses) /\ Len(<<Unless(c)>>) = 1
    BY <1>1 DEF Framed
  <1>3. /\ t \in Seq(Accesses) /\ n \in Nat /\ Len(t) = 1 + n /\ t[1] = Unless(c)
        /\ \A i \in 1 .. n : t[i + 1] = s[i]
    BY <1>2, ConcatIs
  <1>4. d \in Nat /\ d <= n /\ d >= 1 /\ \A j \in 1 .. d : s[j].op \in Plain
    BY SkippedIs
  <1>5. \A i \in 1 .. n : SkipsPlain(s, i) /\ FlushWhole(s, i) /\ SetUp(s, i)
    BY DEF Framed
  <1> HIDE DEF t, n, d
  <1>6. SkipsPlain(t, 1)
    <2>1. 1 + d <= Len(t) /\ \A j \in 1 + 1 .. 1 + d : t[j].op \in Plain
      <3>1. \A j \in 1 + 1 .. 1 + d : j - 1 \in 1 .. d /\ j - 1 \in 1 .. n /\ j - 1 + 1 = j
        BY <1>3, <1>4
      <3>2. \A j \in 1 + 1 .. 1 + d : t[j] = s[j - 1]
        BY <1>3, <3>1
      <3> QED
        BY <1>3, <1>4, <3>1, <3>2
    <2> QED
      BY <1>1, <1>3, <2>1 DEF SkipsPlain, d
  <1>7. FlushWhole(t, 1) /\ SetUp(t, 1)
    BY <1>1, <1>3 DEF FlushWhole, SetUp
  <1>8. ASSUME NEW i \in 1 .. n
        PROVE  SkipsPlain(t, i + 1) /\ FlushWhole(t, i + 1) /\ SetUp(t, i + 1)
    <2> DEFINE e == Skipped(s[i].what)
    <2>1. t[i + 1] = s[i] /\ e \in Nat
      <3>1. e \in Nat
        BY SkippedIs
      <3> HIDE DEF e
      <3> QED
        BY <1>3, <1>8, <3>1
    <2>2. s[i].op = "unless" => i + e <= n /\ \A j \in i + 1 .. i + e : s[j].op \in Plain
      BY <1>5 DEF SkipsPlain, n
    <2>3. s[i].op = "from" => i + 2 <= n /\ s[i + 1].op = "rest" /\ s[i + 2].op = "clear"
      BY <1>5 DEF FlushWhole, n
    <2>4. s[i].op = "rest" => i > 1 /\ s[i - 1].op = "from"
      BY <1>5 DEF SetUp
    <2> HIDE DEF e
    <2>5. ASSUME s[i].op = "unless"
          PROVE  i + 1 + e <= Len(t) /\ \A j \in i + 1 + 1 .. i + 1 + e : t[j].op \in Plain
      <3>1. i + 1 + e <= Len(t)
        BY <1>3, <2>1, <2>2, <2>5
      <3>2. ASSUME NEW j \in i + 1 + 1 .. i + 1 + e
            PROVE  t[j].op \in Plain
        <4>1. j - 1 \in i + 1 .. i + e /\ j - 1 \in 1 .. n /\ j - 1 + 1 = j
          BY <1>3, <2>1, <2>2, <2>5, <3>2
        <4> QED
          BY <1>3, <2>2, <2>5, <4>1
      <3> QED
        BY <3>1, <3>2
    <2>6. ASSUME s[i].op = "from"
          PROVE  i + 1 + 2 <= Len(t) /\ t[i + 1 + 1].op = "rest" /\ t[i + 1 + 2].op = "clear"
      <3>1. i + 1 \in 1 .. n /\ i + 2 \in 1 .. n
        BY <1>3, <2>3, <2>6
      <3>2. t[(i + 1) + 1] = s[i + 1] /\ t[(i + 2) + 1] = s[i + 2]
        BY <1>3, <3>1
      <3>3. i + 1 + 2 <= Len(t) /\ i + 1 + 1 = (i + 1) + 1 /\ i + 1 + 2 = (i + 2) + 1
        BY <1>3, <2>3, <2>6
      <3> QED
        BY <2>3, <2>6, <3>2, <3>3
    <2>7. ASSUME s[i].op = "rest"
          PROVE  i + 1 > 1 /\ t[i + 1 - 1].op = "from"
      <3>1. i - 1 \in 1 .. n /\ i + 1 - 1 = (i - 1) + 1
        BY <1>3, <2>4, <2>7
      <3>2. t[(i - 1) + 1] = s[i - 1]
        BY <1>3, <3>1
      <3> QED
        BY <2>4, <2>7, <3>1, <3>2
    <2>8. SkipsPlain(t, i + 1)
      BY <1>3, <2>1, <2>5 DEF SkipsPlain, e
    <2>9. FlushWhole(t, i + 1)
      BY <1>3, <2>1, <2>6 DEF FlushWhole
    <2>10. SetUp(t, i + 1)
      BY <1>3, <2>1, <2>7 DEF SetUp
    <2> QED
      BY <2>8, <2>9, <2>10
  <1>9. ASSUME NEW i \in 1 .. Len(t)
        PROVE  SkipsPlain(t, i) /\ FlushWhole(t, i) /\ SetUp(t, i)
    <2>1. CASE i = 1
      BY <1>6, <1>7, <2>1
    <2>2. CASE i # 1
      <3>1. i - 1 \in 1 .. n /\ i - 1 + 1 = i
        BY <1>3, <1>9, <2>2
      <3>2. SkipsPlain(t, i - 1 + 1) /\ FlushWhole(t, i - 1 + 1) /\ SetUp(t, i - 1 + 1)
        BY <1>8, <3>1
      <3> QED
        BY <3>1, <3>2
    <2> QED
      BY <2>1, <2>2
  <1>10. Framed(t)
    BY <1>3, <1>9 DEF Framed
  <1> QED
    BY <1>10 DEF t

(* The interrupts of a direction are disabled and enabled. *)
Switching == {"ier", "int_status", "irq", "unless"}
LEMMA CbrFramed ==
  ASSUME NEW d \in Dir
  PROVE  \A s \in {dw_uart_dis_cbr(d), dw_uart_ena_cbr(d)} :
           Framed(s) /\ Of(s, Switching) /\ Len(s) = 5
  <1>1. /\ Ier(FALSE, d) \in Accesses /\ IntSt(FALSE, d) \in Accesses
        /\ Ier(TRUE, d) \in Accesses /\ IntSt(TRUE, d) \in Accesses
        /\ IntSt(FALSE, "gint") \in Accesses /\ IntSt(TRUE, "gint") \in Accesses
        /\ Irq(FALSE) \in Accesses /\ Irq(TRUE) \in Accesses
    BY SingleAccess
  <1>2. /\ Ier(FALSE, d).op = "ier" /\ IntSt(FALSE, d).op = "int_status"
        /\ Ier(TRUE, d).op = "ier" /\ IntSt(TRUE, d).op = "int_status"
        /\ IntSt(FALSE, "gint").op = "int_status" /\ IntSt(TRUE, "gint").op = "int_status"
        /\ Irq(FALSE).op = "irq" /\ Irq(TRUE).op = "irq"
    BY DEF Ier, IntSt, Irq, Op, Access
  <1>3. /\ "in use" \in Conditions /\ "not needed" \in Conditions
        /\ Skipped("in use") = 2 /\ Skipped("not needed") = 2
    BY DEF Conditions, Skipped, Dir
  <1>4. \A c \in Conditions, a, b, x, y \in Accesses :
          Skipped(c) = 2 /\ {a.op, b.op, x.op, y.op} \subseteq {"ier", "int_status", "irq"}
            => /\ Framed(<<a, b, Unless(c), x, y>>) /\ Of(<<a, b, Unless(c), x, y>>, Switching)
               /\ Len(<<a, b, Unless(c), x, y>>) = 5
    <2> SUFFICES ASSUME NEW c \in Conditions, NEW a \in Accesses, NEW b \in Accesses,
                        NEW x \in Accesses, NEW y \in Accesses, Skipped(c) = 2,
                        {a.op, b.op, x.op, y.op} \subseteq {"ier", "int_status", "irq"}
                 PROVE  /\ Framed(<<a, b, Unless(c), x, y>>)
                        /\ Of(<<a, b, Unless(c), x, y>>, Switching)
                        /\ Len(<<a, b, Unless(c), x, y>>) = 5
      OBVIOUS
    <2>1. Unless(c) \in Accesses /\ Unless(c).op = "unless" /\ Unless(c).what = c
      BY SingleAccess DEF Unless, Op, Access
    <2> DEFINE u == Unless(c)
               s == <<a, b, u, x, y>>
    <2> HIDE DEF u
    <2>2. u \in Accesses /\ u.op = "unless" /\ u.what = c
      BY <2>1 DEF u
    <2>3. /\ s \in Seq(Accesses) /\ Len(s) = 5
          /\ s[1] = a /\ s[2] = b /\ s[3] = u /\ s[4] = x /\ s[5] = y
      BY <2>2
    <2> HIDE DEF s
    <2>4. \A i \in 1 .. 5 : s[i].op = "unless" => i = 3
      BY <2>3
    <2>5. \A i \in 1 .. 5 : s[i].op \in Switching
      BY <2>2, <2>3 DEF Switching
    <2>6. \A i \in 1 .. 5 : SkipsPlain(s, i)
      <3>1. SkipsPlain(s, 3)
        BY <2>2, <2>3 DEF SkipsPlain, Plain
      <3> QED
        BY <2>4, <3>1 DEF SkipsPlain
    <2>7. \A i \in 1 .. 5 : FlushWhole(s, i) /\ SetUp(s, i)
      BY <2>5 DEF FlushWhole, SetUp, Switching
    <2>8. Framed(s) /\ Of(s, Switching)
      BY <2>3, <2>5, <2>6, <2>7 DEF Framed, Of
    <2> QED
      BY <2>3, <2>8 DEF s, u
  <1>5. /\ Framed(dw_uart_dis_cbr(d)) /\ Of(dw_uart_dis_cbr(d), Switching)
        /\ Len(dw_uart_dis_cbr(d)) = 5
    BY <1>1, <1>2, <1>3, <1>4 DEF dw_uart_dis_cbr
  <1>6. /\ Framed(dw_uart_ena_cbr(d)) /\ Of(dw_uart_ena_cbr(d), Switching)
        /\ Len(dw_uart_ena_cbr(d)) = 5
    BY <1>1, <1>2, <1>3, <1>4 DEF dw_uart_ena_cbr
  <1> QED
    BY <1>5, <1>6

(* The other calls, and what they are made of. *)
LEMMA BaudFramed ==
  ASSUME NEW v \in Nat
  PROVE  Framed(dw_uart_set_baud(v))
  <1>1. /\ Op("dlab", TRUE, "") \in Accesses /\ Div(v) \in Accesses
        /\ Op("dlab", FALSE, "") \in Accesses
    BY SingleAccess
  <1>2. Op("dlab", TRUE, "").op = "dlab" /\ Op("dlab", FALSE, "").op = "dlab"
    BY DEF Op, Access
  <1>3. Div(v).op = "div"
    BY DEF Div, Number, Access
  <1>4. Straight(Op("dlab", TRUE, "")) /\ Straight(Div(v)) /\ Straight(Op("dlab", FALSE, ""))
    BY <1>1, <1>2, <1>3 DEF Straight
  <1> QED
    BY <1>4, ShortFramed DEF dw_uart_set_baud

LEMMA FlushFramed == Framed(dw_uart_flush_output)
  <1>1. /\ Op("from", TRUE, "") \in Accesses /\ Op("rest", TRUE, "") \in Accesses
        /\ ClearBuf("tx") \in Accesses /\ Op("drained", TRUE, "") \in Accesses
    BY SingleAccess DEF Dir
  <1>2. /\ Op("from", TRUE, "").op = "from" /\ Op("rest", TRUE, "").op = "rest"
        /\ Op("drained", TRUE, "").op = "drained"
    BY DEF Op, Access
  <1>3. ClearBuf("tx").op = "clear"
    BY DEF ClearBuf, Op, Access
  <1>4. \A a, b, c, e \in Accesses :
          a.op = "from" /\ b.op = "rest" /\ c.op = "clear" /\ e.op = "drained"
            => Framed(<<a, b, c, e>>)
    <2> SUFFICES ASSUME NEW a \in Accesses, NEW b \in Accesses, NEW c \in Accesses,
                        NEW e \in Accesses, a.op = "from", b.op = "rest", c.op = "clear",
                        e.op = "drained"
                 PROVE  Framed(<<a, b, c, e>>)
      OBVIOUS
    <2> DEFINE s == <<a, b, c, e>>
    <2>1. /\ s \in Seq(Accesses) /\ Len(s) = 4
          /\ s[1] = a /\ s[2] = b /\ s[3] = c /\ s[4] = e
      OBVIOUS
    <2> HIDE DEF s
    <2>2. \A i \in 1 .. 4 : SkipsPlain(s, i) /\ FlushWhole(s, i) /\ SetUp(s, i)
      BY <2>1 DEF SkipsPlain, FlushWhole, SetUp
    <2>3. Framed(s)
      BY <2>1, <2>2 DEF Framed
    <2> QED
      BY <2>3 DEF s
  <1>5. Framed(<<Op("from", TRUE, ""), Op("rest", TRUE, ""), ClearBuf("tx"),
                 Op("drained", TRUE, "")>>)
    BY <1>1, <1>2, <1>3, <1>4
  <1> QED
    BY <1>5 DEF dw_uart_flush_output

(* An abort: what it skips is plain. *)
LEMMA AbortFramed ==
  ASSUME NEW d \in Dir
  PROVE  Framed(dw_uart_abort(d))
  <1> DEFINE b == dw_uart_dis_cbr(d)
             u == <<Unless(d)>>
  <1>1. Framed(b) /\ Of(b, Switching) /\ Len(b) = 5 /\ b \in Seq(Accesses)
    BY CbrFramed DEF Framed
  <1>2. /\ Status(TRUE, Abrt(d)) \in Accesses /\ Callback(d) \in Accesses
        /\ Status(FALSE, Abrt(d)) \in Accesses
    BY SingleAccess DEF Abrt, Flags
  <1>3. /\ Status(TRUE, Abrt(d)).op = "status" /\ Callback(d).op = "callback"
        /\ Status(FALSE, Abrt(d)).op = "status"
    BY DEF Status, Callback, Op, Access
  <1> DEFINE e == <<Status(TRUE, Abrt(d)), Callback(d), Status(FALSE, Abrt(d))>>
  <1>4. /\ Straight(Status(TRUE, Abrt(d))) /\ Straight(Callback(d))
        /\ Straight(Status(FALSE, Abrt(d)))
    BY <1>2, <1>3 DEF Straight
  <1>5. Framed(e) /\ Of(e, Plain) /\ Len(e) = 3
    <2>1. Framed(e)
      BY <1>4, ShortFramed
    <2>2. \A x, y, z : {x.op, y.op, z.op} \subseteq Plain
            => Of(<<x, y, z>>, Plain) /\ Len(<<x, y, z>>) = 3
      BY DEF Of
    <2> QED
      BY <1>3, <2>1, <2>2 DEF Plain
  <1>6. dw_uart_abort(d) = (u \o b) \o e
    BY DEF dw_uart_abort
  <1>7. u \in Seq(Accesses)
    <2>1. Unless(d) \in Accesses
      BY SingleAccess DEF Conditions
    <2> QED
      BY <2>1
  <1>8. Of(b, Plain)
    BY <1>1 DEF Of, Plain, Switching
  <1> HIDE DEF b, e, u
  <1>9. e \in Seq(Accesses)
    BY <1>5 DEF Framed
  <1>10. Framed(b \o e) /\ Of(b \o e, Plain) /\ Len(b \o e) = 8
    <2>1. Len(b \o e) = Len(b) + Len(e)
      BY <1>1, <1>9, ConcatIs
    <2>2. Framed(b \o e)
      BY <1>1, <1>5, ConcatFramed
    <2>3. Of(b \o e, Plain)
      BY <1>1, <1>5, <1>8, <1>9, ConcatOf
    <2> QED
      BY <1>1, <1>5, <2>1, <2>2, <2>3
  <1>11. Skipped(d) = 8 /\ d \in Conditions
    BY DEF Skipped, Conditions
  <1>12. Framed(u \o (b \o e))
    <2> DEFINE s == b \o e
    <2>1. Framed(s) /\ Skipped(d) <= Len(s) /\ \A j \in 1 .. Skipped(d) : s[j].op \in Plain
      BY <1>10, <1>11 DEF Of
    <2> HIDE DEF s
    <2>2. Framed(<<Unless(d)>> \o s)
      BY <1>11, <2>1, UnlessFramed
    <2> QED
      BY <2>2 DEF s, u
  <1>13. (u \o b) \o e = u \o (b \o e)
    BY <1>1, <1>7, <1>9, ConcatAssociative
  <1> QED
    BY <1>6, <1>12, <1>13

(* Disabling all interrupts, the device, and the two ends of its life. *)
LEMMA DisableFramed == Framed(dw_uart_disable_interrupt)
  <1>1. Framed(dw_uart_dis_cbr("tx")) /\ Framed(dw_uart_dis_cbr("rx"))
    BY CbrFramed DEF Dir
  <1>2. /\ Irq(FALSE) \in Accesses /\ IntSt(FALSE, "gint") \in Accesses
        /\ IntSt(FALSE, "tx") \in Accesses /\ IntSt(FALSE, "rx") \in Accesses
    BY SingleAccess DEF Dir
  <1>3. /\ Irq(FALSE).op = "irq" /\ IntSt(FALSE, "gint").op = "int_status"
        /\ IntSt(FALSE, "tx").op = "int_status" /\ IntSt(FALSE, "rx").op = "int_status"
    BY DEF Irq, IntSt, Op, Access
  <1>4. /\ Straight(Irq(FALSE)) /\ Straight(IntSt(FALSE, "gint"))
        /\ Straight(IntSt(FALSE, "tx")) /\ Straight(IntSt(FALSE, "rx"))
    BY <1>2, <1>3 DEF Straight
  <1>5. Framed(<<Irq(FALSE), IntSt(FALSE, "gint"), IntSt(FALSE, "tx"), IntSt(FALSE, "rx")>>)
    BY <1>4, ShortFramed
  <1> QED
    BY <1>1, <1>5, ConcatFramed DEF dw_uart_disable_interrupt

LEMMA DeviceFramed ==
  /\ \A on \in BOOLEAN, f \in Flags : Framed(<<Status(on, f)>>)
  /\ \A v \in Nat : Framed(dw_uart_set_baud(v) \o <<Status(TRUE, "ENABLED")>>)
  /\ Framed(dw_uart_disable_device)
  /\ \A v \in Nat : Framed(dw_uart_init(v))
  /\ \A d \in Dir : Framed(<<ClearBuf(d)>>)
  /\ Framed(ClearAll)
  <1>1. ASSUME NEW on \in BOOLEAN, NEW f \in Flags
        PROVE  Framed(<<Status(on, f)>>)
    <2>1. Status(on, f) \in Accesses /\ Status(on, f).op = "status"
      BY SingleAccess DEF Status, Op, Access
    <2> QED
      BY <2>1, ShortFramed DEF Straight
  <1>2. ASSUME NEW v \in Nat
        PROVE  Framed(dw_uart_set_baud(v) \o <<Status(TRUE, "ENABLED")>>)
    BY <1>1, BaudFramed, ConcatFramed DEF Flags
  <1>3. Framed(dw_uart_disable_device)
    BY <1>1, BaudFramed, ConcatFramed DEF Flags, dw_uart_disable_device
  <1>4. ASSUME NEW v \in Nat
        PROVE  Framed(dw_uart_init(v))
    <2>1. Op("reset", TRUE, "") \in Accesses /\ Op("reset", TRUE, "").op = "reset"
      BY SingleAccess DEF Op, Access
    <2>2. Framed(<<Op("reset", TRUE, "")>>)
      BY <2>1, ShortFramed DEF Straight
    <2> QED
      BY <2>2, BaudFramed, ConcatFramed DEF dw_uart_init
  <1>5. ASSUME NEW d \in Dir
        PROVE  Framed(<<ClearBuf(d)>>)
    <2>1. ClearBuf(d) \in Accesses /\ ClearBuf(d).op = "clear"
      BY SingleAccess DEF ClearBuf, Op, Access
    <2> QED
      BY <2>1, ShortFramed DEF Straight
  <1>6. Framed(ClearAll)
    <2>1. /\ ClearBuf("tx") \in Accesses /\ ClearBuf("rx") \in Accesses
          /\ Op("clear cbs", TRUE, "") \in Accesses
      BY SingleAccess DEF Dir
    <2>2. ClearBuf("tx").op = "clear" /\ ClearBuf("rx").op = "clear"
      BY DEF ClearBuf, Op, Access
    <2>3. Op("clear cbs", TRUE, "").op = "clear cbs"
      BY DEF Op, Access
    <2>4. /\ Straight(ClearBuf("tx")) /\ Straight(ClearBuf("rx"))
          /\ Straight(Op("clear cbs", TRUE, ""))
      BY <2>1, <2>2, <2>3 DEF Straight
    <2> QED
      BY <2>4, ShortFramed DEF ClearAll
  <1> QED
    BY <1>1, <1>2, <1>3, <1>4, <1>5, <1>6

(* The calls that open and close the device, and data moved by polling. *)
LEMMA OpenFramed ==
  ASSUME NEW v \in Nat
  PROVE  Framed(dw_uart_init(v) \o <<Status(TRUE, "ENABLED")>>
                  \o dw_uart_disable_interrupt \o ClearAll)
  <1> DEFINE a == dw_uart_init(v)
             b == <<Status(TRUE, "ENABLED")>>
             c == dw_uart_disable_interrupt
             e == ClearAll
  <1>1. Framed(a) /\ Framed(b) /\ Framed(c) /\ Framed(e)
    BY DeviceFramed, DisableFramed DEF Flags
  <1> HIDE DEF a, b, c, e
  <1>2. Framed(a \o b \o c \o e)
    BY <1>1, ConcatFramed
  <1> QED
    BY <1>2 DEF a, b, c, e

LEMMA CloseFramed ==
  ASSUME NEW r, r = dw_uart_disable_device \/ r = <<>>
  PROVE  Framed(dw_uart_disable_interrupt \o dw_uart_abort("tx") \o dw_uart_abort("rx")
                  \o dw_uart_flush_output \o ClearAll \o r \o <<Status(FALSE, "ENABLED")>>)
  <1> DEFINE a == dw_uart_disable_interrupt
             b == dw_uart_abort("tx")
             c == dw_uart_abort("rx")
             e == dw_uart_flush_output
             f == ClearAll
             g == <<Status(FALSE, "ENABLED")>>
  <1>1. Framed(a) /\ Framed(b) /\ Framed(c) /\ Framed(e) /\ Framed(f) /\ Framed(g)
    BY DeviceFramed, DisableFramed, AbortFramed, FlushFramed DEF Flags, Dir
  <1>2. Framed(r)
    BY DeviceFramed, ShortFramed
  <1> HIDE DEF a, b, c, e, f, g
  <1>3. Framed(a \o b \o c)
    BY <1>1, ConcatFramed
  <1>4. Framed(a \o b \o c \o e \o f)
    BY <1>1, <1>3, ConcatFramed
  <1>5. Framed(a \o b \o c \o e \o f \o r \o g)
    BY <1>1, <1>2, <1>4, ConcatFramed
  <1> QED
    BY <1>5 DEF a, b, c, e, f, g

LEMMA PolledFramed ==
  ASSUME NEW n \in Nat
  PROVE  /\ \A m \in Nat : m >= 1 /\ m + n <= MaxByte + 1
              => Framed([k \in 1 .. n |-> Number("write", m + k - 1)])
         /\ Framed([k \in 1 .. n |-> Op("read", TRUE, "")])
  <1>0. MaxByte \in Nat
    BY UartAssumption
  <1>1. ASSUME NEW m \in Nat, m >= 1, m + n <= MaxByte + 1
        PROVE  Framed([k \in 1 .. n |-> Number("write", m + k - 1)])
    <2> DEFINE s == [k \in 1 .. n |-> Number("write", m + k - 1)]
    <2>1. \A k \in 1 .. n : m + k - 1 \in 1 .. MaxByte /\ m + k - 1 \in Nat
      BY <1>0, <1>1
    <2>2. \A k \in 1 .. n : Number("write", m + k - 1) \in Accesses
      BY <2>1, SingleAccess
    <2>3. \A k \in 1 .. n : Number("write", m + k - 1).op = "write"
      BY DEF Number, Access
    <2>4. s \in Seq(Accesses) /\ Len(s) = n /\ \A k \in 1 .. n : s[k] = Number("write", m + k - 1)
      BY <2>2
    <2> HIDE DEF s
    <2>5. \A i \in 1 .. Len(s) : s[i].op \notin {"unless", "from", "rest"}
      BY <2>3, <2>4
    <2>6. Framed(s)
      BY <2>4, <2>5, StraightFramed
    <2> QED
      BY <2>6 DEF s
  <1>2. Framed([k \in 1 .. n |-> Op("read", TRUE, "")])
    <2> DEFINE s == [k \in 1 .. n |-> Op("read", TRUE, "")]
               a == Op("read", TRUE, "")
    <2>1. a \in Accesses /\ a.op = "read"
      BY SingleAccess DEF Op, Access
    <2> HIDE DEF a
    <2>2. s \in Seq(Accesses) /\ Len(s) = n /\ \A k \in 1 .. n : s[k] = a
      <3>1. [k \in 1 .. n |-> a] \in Seq(Accesses) /\ Len([k \in 1 .. n |-> a]) = n
        BY <2>1
      <3> QED
        BY <3>1 DEF a
    <2> HIDE DEF s
    <2>3. \A i \in 1 .. Len(s) : s[i].op \notin {"unless", "from", "rest"}
      BY <2>1, <2>2
    <2>4. Framed(s)
      BY <2>2, <2>3, StraightFramed
    <2> QED
      BY <2>4 DEF s
  <1> QED
    BY <1>1, <1>2

(* ------------------------- the routine's accesses ----------------------- *)

IsrKinds == Switching \cup {"callback", "clear", "buffer"}
Clears(s, d) == \E i \in 1 .. Len(s) : s[i].op = "clear" /\ s[i].what = d

LEMMA IsrFramed ==
  ASSUME NEW d \in Dir
  PROVE  /\ Framed(dw_uart_dis_cbr(d)) /\ Of(dw_uart_dis_cbr(d), IsrKinds)
         /\ \A n \in Lens : Framed(Arm(d, n)) /\ Of(Arm(d, n), IsrKinds)
         /\ Framed(<<Callback(d)>>) /\ Of(<<Callback(d)>>, IsrKinds)
         /\ Framed(dw_uart_dis_cbr(d) \o <<Callback(d), ClearBuf(d)>>)
         /\ Of(dw_uart_dis_cbr(d) \o <<Callback(d), ClearBuf(d)>>, IsrKinds)
         /\ Clears(dw_uart_dis_cbr(d) \o <<Callback(d), ClearBuf(d)>>, d)
  <1>1. /\ Framed(dw_uart_dis_cbr(d)) /\ Of(dw_uart_dis_cbr(d), Switching)
        /\ Framed(dw_uart_ena_cbr(d)) /\ Of(dw_uart_ena_cbr(d), Switching)
    BY CbrFramed
  <1>2. /\ Of(dw_uart_dis_cbr(d), IsrKinds) /\ Of(dw_uart_ena_cbr(d), IsrKinds)
        /\ dw_uart_dis_cbr(d) \in Seq(Accesses) /\ dw_uart_ena_cbr(d) \in Seq(Accesses)
    BY <1>1 DEF Of, IsrKinds, Framed
  <1>3. /\ Callback(d) \in Accesses /\ Callback(d).op = "callback"
        /\ ClearBuf(d) \in Accesses /\ ClearBuf(d).op = "clear" /\ ClearBuf(d).what = d
    BY SingleAccess DEF Callback, ClearBuf, Op, Access
  <1>4. \A a : Straight(a) /\ a.op \in IsrKinds
                 => <<a>> \in Seq(Accesses) /\ Framed(<<a>>) /\ Of(<<a>>, IsrKinds)
    BY ShortFramed DEF Straight, Of
  <1>5. Framed(<<Callback(d)>>) /\ Of(<<Callback(d)>>, IsrKinds)
    BY <1>3, <1>4 DEF Straight, IsrKinds
  <1>6. ASSUME NEW n \in Lens
        PROVE  Framed(Arm(d, n)) /\ Of(Arm(d, n), IsrKinds)
    <2> DEFINE a == Access("buffer", TRUE, d, n)
    <2>1. a \in Accesses /\ a.op = "buffer"
      BY UartAssumption, SingleAccess DEF Access
    <2> HIDE DEF a
    <2>2. <<a>> \in Seq(Accesses) /\ Framed(<<a>>) /\ Of(<<a>>, IsrKinds)
      BY <1>4, <2>1 DEF Straight, IsrKinds
    <2>3. Framed(<<a>> \o dw_uart_ena_cbr(d)) /\ Of(<<a>> \o dw_uart_ena_cbr(d), IsrKinds)
      BY <1>1, <1>2, <2>2, ConcatFramed, ConcatOf
    <2> QED
      BY <2>3 DEF Arm, a
  <1>7. \A a, b : Straight(a) /\ Straight(b) /\ {a.op, b.op} \subseteq IsrKinds
                    => /\ <<a, b>> \in Seq(Accesses) /\ Len(<<a, b>>) = 2 /\ <<a, b>>[2] = b
                       /\ Framed(<<a, b>>) /\ Of(<<a, b>>, IsrKinds)
    <2> SUFFICES ASSUME NEW a, NEW b, Straight(a), Straight(b), {a.op, b.op} \subseteq IsrKinds
                 PROVE  /\ <<a, b>> \in Seq(Accesses) /\ Len(<<a, b>>) = 2 /\ <<a, b>>[2] = b
                        /\ Framed(<<a, b>>) /\ Of(<<a, b>>, IsrKinds)
      OBVIOUS
    <2> DEFINE s == <<a, b>>
    <2>1. s \in Seq(Accesses) /\ Len(s) = 2 /\ s[1] = a /\ s[2] = b
      BY DEF Straight
    <2> HIDE DEF s
    <2>2. \A i \in 1 .. Len(s) : s[i].op \notin {"unless", "from", "rest"}
      BY <2>1 DEF Straight
    <2>3. Framed(s) /\ Of(s, IsrKinds)
      BY <2>1, <2>2, StraightFramed DEF Of
    <2> QED
      BY <2>1, <2>3 DEF s
  <1> DEFINE s == dw_uart_dis_cbr(d)
             t == <<Callback(d), ClearBuf(d)>>
  <1>8. /\ t \in Seq(Accesses) /\ Len(t) = 2 /\ t[2] = ClearBuf(d)
        /\ Framed(t) /\ Of(t, IsrKinds)
    BY <1>3, <1>7 DEF Straight, IsrKinds
  <1>9. Framed(s) /\ Of(s, IsrKinds) /\ s \in Seq(Accesses)
    BY <1>1, <1>2
  <1> HIDE DEF s, t
  <1>10. Framed(s \o t) /\ Of(s \o t, IsrKinds)
    BY <1>8, <1>9, ConcatFramed, ConcatOf
  <1>11. Clears(s \o t, d)
    <2>1. Len(s) \in Nat /\ Len(s \o t) = Len(s) + Len(t)
      BY ONLY <1>8, <1>9, ConcatIs
    <2>2. \A i \in 1 .. Len(t) : (s \o t)[i + Len(s)] = t[i]
      BY ONLY <1>8, <1>9, ConcatIs
    <2>3. 2 \in 1 .. Len(t) /\ Len(t) = 2
      BY <1>8
    <2>4. Len(s) \in Nat /\ Len(s \o t) = Len(s) + 2 /\ (s \o t)[2 + Len(s)] = t[2]
      BY ONLY <2>1, <2>2, <2>3
    <2>5. 2 + Len(s) \in 1 .. Len(s \o t)
      BY <2>4
    <2> QED
      BY <1>3, <1>8, <2>4, <2>5 DEF Clears
  <1> QED
    BY <1>1, <1>2, <1>5, <1>6, <1>10, <1>11 DEF s, t

(* What is left of a sequence, and what comes before it. *)
LEMMA ConcatClears ==
  ASSUME NEW a \in Seq(Accesses), NEW b \in Seq(Accesses), NEW d, Clears(b, d)
  PROVE  Clears(a \o b, d)
  <1> DEFINE c == a \o b
             m == Len(a)
             n == Len(b)
  <1>1. m \in Nat /\ n \in Nat /\ Len(c) = m + n /\ \A i \in 1 .. n : c[i + m] = b[i]
    BY ConcatIs
  <1>2. PICK i \in 1 .. n : b[i].op = "clear" /\ b[i].what = d
    BY DEF Clears
  <1> HIDE DEF c, m, n
  <1>3. i + m \in 1 .. Len(c) /\ c[i + m] = b[i]
    BY <1>1
  <1>4. Clears(c, d)
    BY <1>2, <1>3 DEF Clears
  <1> QED
    BY <1>4 DEF c

LEMMA DropKeeps ==
  ASSUME NEW s \in Seq(Accesses), NEW k \in 0 .. Len(s)
  PROVE  /\ \A K : Of(s, K) => Of(Drop(s, k), K)
         /\ \A d : /\ Clears(s, d)
                   /\ \A j \in 1 .. k : ~ (s[j].op = "clear" /\ s[j].what = d)
                   => Clears(Drop(s, k), d)
  <1> DEFINE t == Drop(s, k)
             m == Len(s)
  <1>1. m \in Nat /\ k \in 0 .. m /\ Len(t) = m - k /\ \A i \in 1 .. m - k : t[i] = s[i + k]
    BY DropIs, LenProperties
  <1> HIDE DEF t, m
  <1>2. ASSUME NEW K, \A i \in 1 .. m : s[i].op \in K
        PROVE  \A i \in 1 .. m - k : t[i].op \in K
    <2>1. \A i \in 1 .. m - k : i + k \in 1 .. m
      BY <1>1
    <2> QED
      BY <1>1, <1>2, <2>1
  <1>3. ASSUME NEW d, NEW i \in 1 .. m, s[i].op = "clear", s[i].what = d,
               \A j \in 1 .. k : ~ (s[j].op = "clear" /\ s[j].what = d)
        PROVE  Clears(t, d)
    <2>1. ~ (i <= k)
      BY <1>1, <1>3
    <2>2. i - k \in 1 .. m - k /\ i - k + k = i
      BY <1>1, <1>3, <2>1
    <2>3. t[i - k] = s[i - k + k]
      BY <1>1, <2>2
    <2> QED
      BY <1>1, <1>3, <2>2, <2>3 DEF Clears
  <1>4. \A K : Of(s, K) => Of(t, K)
    BY <1>1, <1>2 DEF Of, m
  <1>5. \A d : /\ Clears(s, d)
               /\ \A j \in 1 .. k : ~ (s[j].op = "clear" /\ s[j].what = d)
               => Clears(t, d)
    BY <1>3 DEF Clears, m
  <1> QED
    BY <1>4, <1>5 DEF t

(* A sequence goes on by one access, or past what a condition skips. *)
LEMMA GoesOn ==
  ASSUME NEW s, Framed(s), s # <<>>
  PROVE  /\ Head(s) = s[1] /\ s[1] \in Accesses /\ s[1].op # "rest"
         /\ Tail(s) \in Seq(Accesses)
         /\ s[1].op # "from" => Framed(Tail(s))
         /\ \A K : Of(s, K) => s[1].op \in K /\ Of(Tail(s), K)
         /\ \A d : Clears(s, d) /\ ~ (s[1].op = "clear" /\ s[1].what = d) => Clears(Tail(s), d)
  <1>1. /\ s \in Seq(Accesses) /\ Tail(s) = Drop(s, 1) /\ Len(s) \in Nat \ {0} /\ Head(s) = s[1]
    BY TailIsDrop DEF Framed
  <1>2. 1 \in 1 .. Len(s) /\ 1 \in 0 .. Len(s)
    BY <1>1
  <1>3. s[1] \in Accesses /\ s[1].op # "rest"
    BY <1>1, <1>2, ElementOfSeq DEF Framed, SetUp
  <1>4. s[1].op # "from" => Framed(Tail(s))
    <2> SUFFICES ASSUME s[1].op # "from"
                 PROVE  Framed(Drop(s, 1))
      BY <1>1
    <2>1. 1 < Len(s) => s[1 + 1].op # "rest"
      <3>1. 1 < Len(s) => SetUp(s, 2)
        BY <1>1 DEF Framed
      <3> QED
        BY <3>1 DEF SetUp
    <2> QED
      BY <1>2, <2>1, DropFramed
  <1>5. \A K : Of(s, K) => s[1].op \in K /\ Of(Drop(s, 1), K)
    BY <1>1, <1>2, DropKeeps DEF Of
  <1>6. \A d : Clears(s, d) /\ ~ (s[1].op = "clear" /\ s[1].what = d) => Clears(Drop(s, 1), d)
    <2>1. \A j \in 1 .. 1 : j = 1
      OBVIOUS
    <2> QED
      BY <1>1, <1>2, <2>1, DropKeeps
  <1>7. Drop(s, 1) \in Seq(Accesses)
    BY <1>1, <1>2, DropIs
  <1> QED
    BY <1>1, <1>3, <1>4, <1>5, <1>6, <1>7

LEMMA SkipsOn ==
  ASSUME NEW s, Framed(s), s # <<>>, s[1].op = "unless",
         NEW n \in {1, 1 + Skipped(s[1].what)}
  PROVE  /\ Framed(Drop(s, n))
         /\ \A K : Of(s, K) => Of(Drop(s, n), K)
         /\ \A d : Clears(s, d) => Clears(Drop(s, n), d)
  <1> DEFINE e == Skipped(s[1].what)
             m == Len(s)
  <1>1. s \in Seq(Accesses) /\ m \in Nat \ {0} /\ e \in Nat
    BY TailIsDrop, SkippedIs DEF Framed
  <1>2. 1 + e <= m /\ \A j \in 1 + 1 .. 1 + e : s[j].op \in Plain
    BY <1>1 DEF Framed, SkipsPlain
  <1>3. \A i \in 1 .. m : SetUp(s, i)
    BY DEF Framed
  <1>4. n = 1 \/ n = 1 + e
    OBVIOUS
  <1>5. s[1].op = "unless"
    OBVIOUS
  <1> HIDE DEF e, m
  <1>6. n \in 0 .. m /\ n \in Nat /\ \A j \in 1 .. n : j = 1 \/ j \in 1 + 1 .. 1 + e
    BY <1>1, <1>2, <1>4
  <1>7. \A j \in 1 .. n : s[j].op \in Plain
    BY <1>2, <1>5, <1>6 DEF Plain
  <1>8. n < m => s[n + 1].op # "rest"
    <2> SUFFICES ASSUME n < m, s[n + 1].op = "rest"
                 PROVE  FALSE
      OBVIOUS
    <2>1. n + 1 \in 1 .. m /\ n + 1 - 1 = n /\ n \in 1 .. n
      BY <1>1, <1>4, <1>6
    <2>2. s[n].op = "from" /\ s[n].op \in Plain
      BY <1>3, <1>7, <2>1 DEF SetUp
    <2> QED
      BY <2>2 DEF Plain
  <1>9. n \in 0 .. Len(s) /\ (n < Len(s) => s[n + 1].op # "rest")
    BY <1>6, <1>8 DEF m
  <1>10. \A j \in 1 .. n : s[j].op # "clear"
    BY <1>7 DEF Plain
  <1>11. Framed(Drop(s, n))
    BY <1>9, DropFramed
  <1>12. /\ \A K : Of(s, K) => Of(Drop(s, n), K)
         /\ \A d : Clears(s, d) => Clears(Drop(s, n), d)
    BY <1>1, <1>9, <1>10, DropKeeps
  <1> QED
    BY <1>11, <1>12

(* A flush: its loop, or what comes after it. *)
LEMMA FlushOn ==
  ASSUME NEW s, Framed(s), s # <<>>, s[1].op = "from"
  PROVE  /\ Tail(s) \in Seq(Accesses) /\ Tail(s) # <<>> /\ Tail(s)[1].op = "rest"
         /\ Framed(Tail(Tail(s)))
         /\ Framed(Drop(s, 3))
  <1> DEFINE m == Len(s)
             t == Tail(s)
             u == Drop(s, 2)
  <1>1. s \in Seq(Accesses) /\ m \in Nat \ {0} /\ t = Drop(s, 1)
    BY TailIsDrop DEF Framed
  <1>2. /\ 3 <= m /\ s[2].op = "rest" /\ s[3].op = "clear"
    <2>1. FlushWhole(s, 1)
      BY <1>1 DEF Framed
    <2>2. 1 + 2 <= m /\ s[1 + 1].op = "rest" /\ s[1 + 2].op = "clear"
      BY <2>1 DEF FlushWhole
    <2> QED
      BY <1>1, <2>2
  <1>3. \A i \in 1 .. m : SetUp(s, i)
    BY DEF Framed
  <1>4. t \in Seq(Accesses) /\ Len(t) = m - 1 /\ \A i \in 1 .. m - 1 : t[i] = s[i + 1]
    <2>1. 1 \in 0 .. Len(s)
      BY <1>1
    <2>2. /\ Drop(s, 1) \in Seq(Accesses) /\ Len(Drop(s, 1)) = m - 1
          /\ \A i \in 1 .. m - 1 : Drop(s, 1)[i] = s[i + 1]
      BY <1>1, <2>1, DropIs
    <2> QED
      BY <1>1, <2>2
  <1>5. t[1] = s[2] /\ t # <<>>
    <2> HIDE DEF t, m
    <2>1. 1 \in 1 .. m - 1 /\ Len(t) # 0
      BY <1>1, <1>2, <1>4
    <2>2. t[1] = s[1 + 1]
      BY <1>4, <2>1
    <2> QED
      BY <2>1, <2>2
  <1>6. Tail(t) = u
    <2>1. 1 \in 1 .. Len(t) /\ Tail(t) = Drop(t, 1)
      <3>1. Tail(t) = Drop(t, 1) /\ Len(t) \in Nat \ {0}
        BY <1>4, <1>5, TailIsDrop
      <3> HIDE DEF t
      <3>2. 1 \in 1 .. Len(t)
        BY <3>1
      <3> QED
        BY <3>1, <3>2
    <2>2. 2 \in 0 .. Len(s) /\ 1 \in 0 .. Len(t)
      BY <1>1, <1>2, <2>1
    <2>3. /\ Drop(t, 1) \in Seq(Accesses) /\ Len(Drop(t, 1)) = Len(t) - 1
          /\ \A i \in 1 .. Len(t) - 1 : Drop(t, 1)[i] = t[i + 1]
      BY <1>4, <2>2, DropIs
    <2>4. /\ u \in Seq(Accesses) /\ Len(u) = m - 2
          /\ \A i \in 1 .. m - 2 : u[i] = s[i + 2]
      BY <1>1, <2>2, DropIs
    <2> DEFINE v == Drop(t, 1)
    <2>5. /\ v \in Seq(Accesses) /\ Len(v) = m - 1 - 1
          /\ \A i \in 1 .. m - 1 - 1 : v[i] = t[i + 1]
      BY <1>4, <2>3
    <2> HIDE DEF u, v, t, m
    <2>6. Len(v) = Len(u) /\ Len(v) = m - 2 /\ m - 1 - 1 = m - 2
      BY <1>1, <2>4, <2>5
    <2>7. \A i \in 1 .. m - 2 : v[i] = u[i]
      <3> SUFFICES ASSUME NEW i \in 1 .. m - 2
                   PROVE  v[i] = u[i]
        OBVIOUS
      <3>1. i + 1 \in 1 .. m - 1 /\ i + 1 + 1 = i + 2
        BY <1>1
      <3>2. v[i] = t[i + 1] /\ t[i + 1] = s[i + 1 + 1] /\ u[i] = s[i + 2]
        BY <1>4, <2>4, <2>5, <2>6, <3>1
      <3> QED
        BY <3>1, <3>2
    <2>8. v = u
      BY <2>4, <2>5, <2>6, <2>7, SeqEqual
    <2> QED
      BY <2>1, <2>8 DEF v
  <1>7. Framed(Drop(s, 2))
    <2>1. 2 \in 0 .. Len(s) /\ s[2 + 1].op # "rest"
      BY <1>1, <1>2
    <2> QED
      BY <2>1, DropFramed
  <1>8. Framed(Drop(s, 3))
    <2>1. 3 \in 0 .. Len(s)
      BY <1>1, <1>2
    <2>2. 3 < Len(s) => s[3 + 1].op # "rest"
      <3> SUFFICES ASSUME 3 < Len(s), s[3 + 1].op = "rest"
                   PROVE  FALSE
        OBVIOUS
      <3>1. 4 \in 1 .. Len(s) /\ 3 + 1 = 4 /\ 4 - 1 = 3
        BY <1>1
      <3>2. s[4 - 1].op = "from"
        BY <1>3, <3>1 DEF SetUp
      <3> QED
        BY <1>2, <3>1, <3>2
    <2> QED
      BY <2>1, <2>2, DropFramed
  <1> QED
    BY <1>2, <1>4, <1>5, <1>6, <1>7, <1>8

(* ------------------------- the inductive invariant ---------------------- *)

(* The routine is about to serve, or does what it does about a buffer.     *)
IsrQueue(s) == \/ \E d \in Dir : s = <<Op("serve", TRUE, d)>>
               \/ Framed(s) /\ Of(s, IsrKinds)

(* What the thread has loaded is the word it is about to store, or the     *)
(* index of its loop.                                                      *)
Loaded(s, t) ==
  \/ t = <<>> /\ Framed(s)
  \/ /\ t = <<t[1]>> /\ s # <<>> /\ Framed(s)
     /\ \/ s[1].op = "int_status" /\ t[1] \subseteq Dir \cup {"gint"}
        \/ s[1].op = "ier" /\ t[1] \subseteq Dir
  \/ /\ t = <<t[1]>> /\ s # <<>> /\ s \in Seq(Accesses)
     /\ s[1].op = "rest" /\ t[1] \in Nat /\ Framed(Tail(s))

BufferOf(d, b, m) ==
  /\ b \in [set : BOOLEAN, first : Nat, len : Nat, ofs : Nat]
  /\ b.ofs <= b.len
  /\ ~ b.set => b = NoBuf
  /\ b.set => b.len > 0
  /\ b.set /\ d = "tx" => b.first >= 1 /\ b.first + b.len <= m
  /\ d = "rx" => b.first = 0

Words == /\ opn_cnt \in 0 .. MaxOpen /\ status \subseteq Flags
         /\ baudrate \in Bauds \cup {0} /\ cbs \subseteq Dir
         /\ ier \subseteq Dir /\ int_status \subseteq Dir \cup {"gint"}
         /\ dlab \in BOOLEAN /\ irq \in BOOLEAN /\ masked \in BOOLEAN /\ div \in Nat
         /\ wire \in 0 .. MaxByte /\ owed \subseteq Dir
Buffers == /\ next \in 1 .. MaxByte + 1 /\ DOMAIN buf = Dir
           /\ \A d \in Dir : BufferOf(d, buf[d], next)
Fifos == /\ fifo \in [Dir -> Seq(1 .. MaxByte)]
         /\ \A d \in Dir : Len(fifo[d]) <= Depth
Queues == /\ DOMAIN todo = Context /\ DOMAIN tmp = Context /\ tmp["isr"] = <<>>
          /\ IsrQueue(todo["isr"]) /\ Loaded(todo["thread"], tmp["thread"])

(* A buffer that is used up is about to be given back by the routine.      *)
Spent == \A d \in Dir : buf[d].set /\ buf[d].ofs >= buf[d].len => Clears(todo["isr"], d)

UInv == Words /\ Buffers /\ Fifos /\ Queues /\ Spent
(* --------------------------- the queues move on ------------------------- *)

(* What is at the head of a queue. *)
LEMMA AtHead ==
  ASSUME Queues, NEW x \in Context, NEW k, At(x, k)
  PROVE  /\ todo[x] # <<>>
         /\ k \notin {"serve", "rest"} =>
              /\ Framed(todo[x]) /\ Now(x) = todo[x][1] /\ Now(x) \in Accesses
              /\ Now(x).op = k /\ (x = "isr" => Of(todo[x], IsrKinds) /\ k \in IsrKinds)
         /\ k \notin {"int_status", "ier", "rest"} => tmp[x] = <<>>
         /\ k = "serve" => x = "isr" /\ \E d \in Dir : todo[x] = <<Op("serve", TRUE, d)>>
         /\ k = "rest" => /\ x = "thread" /\ tmp[x] = <<tmp[x][1]>> /\ tmp[x][1] \in Nat
                          /\ todo[x] \in Seq(Accesses) /\ Framed(Tail(todo[x]))
  <1>1. todo[x] # <<>> /\ Head(todo[x]).op = k
    BY DEF At
  <1>2. CASE x = "isr"
    <2>1. tmp[x] = <<>> /\ IsrQueue(todo[x])
      BY <1>2 DEF Queues
    <2>2. CASE \E d \in Dir : todo[x] = <<Op("serve", TRUE, d)>>
      <3>1. k = "serve"
        BY <1>1, <2>2 DEF Op, Access
      <3> QED
        BY <1>1, <1>2, <2>1, <2>2, <3>1
    <2>3. CASE Framed(todo[x]) /\ Of(todo[x], IsrKinds)
      <3>1. /\ Now(x) = todo[x][1] /\ Now(x) \in Accesses /\ Now(x).op = k
            /\ todo[x][1].op \in IsrKinds
        BY <1>1, <2>3, GoesOn DEF Now
      <3>2. k \in IsrKinds
        BY <3>1
      <3>3. k # "serve" /\ k # "rest"
        BY <3>2 DEF IsrKinds, Switching
      <3> QED
        BY <1>1, <1>2, <2>1, <2>3, <3>1, <3>2, <3>3
    <2> QED
      BY <2>1, <2>2, <2>3 DEF IsrQueue
  <1>3. CASE x = "thread"
    <2>1. Loaded(todo[x], tmp[x])
      BY <1>3 DEF Queues
    <2>2. ASSUME Framed(todo[x])
          PROVE  /\ Now(x) = todo[x][1] /\ Now(x) \in Accesses /\ Now(x).op = k
                 /\ k \notin {"serve", "rest"}
      <3>1. /\ Now(x) = todo[x][1] /\ Now(x) \in Accesses /\ Now(x).op = k
            /\ todo[x][1].op # "rest"
        BY <1>1, <2>2, GoesOn DEF Now
      <3>2. Now(x).op # "serve"
        BY <3>1 DEF Accesses, Kinds
      <3> QED
        BY <3>1, <3>2
    <2>3. CASE tmp[x] = <<>> /\ Framed(todo[x])
      BY <1>1, <1>3, <2>2, <2>3
    <2>4. CASE /\ tmp[x] = <<tmp[x][1]>> /\ Framed(todo[x])
               /\ todo[x][1].op \in {"int_status", "ier"}
      BY <1>1, <1>3, <2>2, <2>4
    <2>5. CASE /\ tmp[x] = <<tmp[x][1]>> /\ todo[x] \in Seq(Accesses)
               /\ todo[x][1].op = "rest" /\ tmp[x][1] \in Nat /\ Framed(Tail(todo[x]))
      <3>1. Head(todo[x]) = todo[x][1]
        BY <1>1, <2>5, TailIsDrop
      <3>2. k = "rest"
        BY <1>1, <2>5, <3>1
      <3> QED
        BY <1>1, <1>3, <2>5, <3>2
    <2> QED
      BY <2>1, <2>3, <2>4, <2>5 DEF Loaded
  <1> QED
    BY <1>2, <1>3 DEF Context

(* A queue is replaced, with nothing loaded. *)
Unloads(x) == /\ DOMAIN tmp' = Context
              /\ \A y \in Context : tmp'[y] = IF y = x THEN <<>> ELSE tmp[y]

LEMMA QueueIs ==
  ASSUME Queues, NEW x \in Context, NEW s, Framed(s), x = "isr" => Of(s, IsrKinds),
         todo' = [todo EXCEPT ![x] = s], Unloads(x)
  PROVE  Queues' /\ todo'[x] = s /\ (x = "thread" => todo'["isr"] = todo["isr"])
  <1>1. /\ DOMAIN todo' = Context /\ DOMAIN tmp' = Context
        /\ todo'[x] = s /\ tmp'[x] = <<>>
        /\ \A y \in Context : y # x => todo'[y] = todo[y] /\ tmp'[y] = tmp[y]
    BY DEF Queues, Unloads
  <1>2. CASE x = "isr"
    <2>1. IsrQueue(todo'["isr"])
      BY <1>1, <1>2 DEF IsrQueue
    <2>2. Loaded(todo'["thread"], tmp'["thread"])
      BY <1>1, <1>2 DEF Queues, Context
    <2> QED
      BY <1>1, <1>2, <2>1, <2>2 DEF Queues
  <1>3. CASE x = "thread"
    <2>1. IsrQueue(todo'["isr"]) /\ tmp'["isr"] = <<>> /\ todo'["isr"] = todo["isr"]
      BY <1>1, <1>3 DEF Queues, Context
    <2>2. Loaded(todo'["thread"], tmp'["thread"])
      BY <1>1, <1>3 DEF Loaded
    <2> QED
      BY <1>1, <1>3, <2>1, <2>2 DEF Queues
  <1> QED
    BY <1>2, <1>3 DEF Context

(* An access is done. *)
LEMMA AccessDone ==
  ASSUME Queues, NEW x \in Context, NEW k, At(x, k), k \notin {"serve", "rest", "from"},
         Goes(x), Unloads(x)
  PROVE  /\ Queues'
         /\ \A d : /\ Clears(todo["isr"], d)
                   /\ ~ (x = "isr" /\ k = "clear" /\ Now(x).what = d)
                   => Clears(todo'["isr"], d)
  <1>1. /\ todo[x] # <<>> /\ Framed(todo[x]) /\ Now(x) = todo[x][1] /\ Now(x).op = k
        /\ (x = "isr" => Of(todo[x], IsrKinds))
    BY AtHead
  <1>2. /\ Framed(Tail(todo[x])) /\ (x = "isr" => Of(Tail(todo[x]), IsrKinds))
        /\ \A d : Clears(todo[x], d) /\ ~ (k = "clear" /\ Now(x).what = d)
                    => Clears(Tail(todo[x]), d)
    BY <1>1, GoesOn
  <1>3. todo' = [todo EXCEPT ![x] = Tail(todo[x])]
    BY DEF Goes
  <1>4. Queues' /\ todo'[x] = Tail(todo[x]) /\ (x = "thread" => todo'["isr"] = todo["isr"])
    BY <1>2, <1>3, QueueIs
  <1> QED
    BY <1>2, <1>4 DEF Context

(* Nothing is loaded at an access that leaves tmp alone. *)
LEMMA NothingLoaded ==
  ASSUME Queues, NEW x \in Context, NEW k, At(x, k), k \notin {"int_status", "ier", "rest"},
         UNCHANGED tmp
  PROVE  Unloads(x)
  BY AtHead DEF Unloads, Queues

(* The thread moves only when the routine is not there. *)
LEMMA ThreadAlone ==
  ASSUME UInv, NEW x \in Context, NEW k, At(x, k), x = "thread"
  PROVE  \A d \in Dir : ~ (buf[d].set /\ buf[d].ofs >= buf[d].len)
  <1>1. todo["isr"] = <<>>
    BY DEF At, IsrRuns
  <1>2. \A d : ~ Clears(todo["isr"], d)
    BY <1>1 DEF Clears
  <1> QED
    BY <1>2 DEF UInv, Spent

(* --------------------- every step keeps the invariant ------------------- *)

(* Most accesses are done without touching a buffer. *)
LEMMA DoneKeeps ==
  ASSUME UInv, NEW x \in Context, NEW k, At(x, k),
         k \notin {"serve", "rest", "from", "clear", "buffer"},
         Goes(x), Unloads(x), UNCHANGED <<buf, next>>
  PROVE  Queues' /\ Buffers' /\ Spent'
  <1>1. Queues' /\ \A d : Clears(todo["isr"], d) => Clears(todo'["isr"], d)
    BY AccessDone DEF UInv
  <1>2. Buffers'
    BY DEF UInv, Buffers
  <1>3. Spent'
    BY <1>1 DEF UInv, Spent
  <1> QED
    BY <1>1, <1>2, <1>3

LEMMA LoadKeeps ==
  ASSUME UInv, NEW x \in Context, Load(x)
  PROVE  UInv'
  <1>1. x = "thread" /\ tmp[x] = <<>>
    BY DEF Load, Preemptible
  <1>2. PICK k \in {"int_status", "ier"} : At(x, k)
    BY DEF Load
  <1>3. /\ Framed(todo[x]) /\ Now(x) = todo[x][1] /\ Now(x).op = k /\ todo[x] # <<>>
    BY <1>2, AtHead DEF UInv
  <1>4. tmp' = [tmp EXCEPT ![x] = <<Word(x)>>]
    BY DEF Load
  <1> DEFINE w == Word(x)
             t == tmp'[x]
  <1>5. w \subseteq Dir \cup {"gint"} /\ (k = "ier" => w \subseteq Dir)
    BY <1>3 DEF Word, UInv, Words
  <1>6. t = <<w>> /\ DOMAIN tmp' = Context /\ tmp'["isr"] = <<>>
    BY <1>1, <1>4 DEF UInv, Queues, Context
  <1>7. t[1] = w /\ t = <<t[1]>>
    BY <1>6
  <1> HIDE DEF w, t
  <1>8. Loaded(todo[x], t)
    BY <1>3, <1>5, <1>7 DEF Loaded
  <1>9. UNCHANGED <<info, ints, line, masked, todo, ghost>>
    BY DEF Load
  <1>10. Queues'
    BY <1>1, <1>6, <1>8, <1>9 DEF UInv, Queues, t
  <1>11. Words' /\ Buffers' /\ Fifos' /\ Spent'
    BY <1>9 DEF UInv, Words, Buffers, Fifos, Spent, info, ints, line, ghost
  <1> QED
    BY <1>10, <1>11 DEF UInv

LEMMA StoreKeeps ==
  ASSUME UInv, NEW x \in Context, Store(x)
  PROVE  UInv'
  <1>1. PICK k \in {"int_status", "ier"} : At(x, k)
    BY DEF Store
  <1>2. /\ Framed(todo[x]) /\ Now(x) = todo[x][1] /\ Now(x) \in Accesses /\ Now(x).op = k
    BY <1>1, AtHead DEF UInv
  <1>3. Unloads(x)
    BY DEF Store, Unloads, UInv, Queues
  <1>4. UNCHANGED <<info, irq, line, masked, ghost>> /\ Goes(x)
    BY DEF Store
  <1>5. Queues' /\ Buffers' /\ Spent'
    BY <1>1, <1>3, <1>4, DoneKeeps DEF info, ghost
  <1> DEFINE v == IF tmp[x] = <<>> THEN Word(x) ELSE Head(tmp[x])
  <1>6. v \subseteq Dir \cup {"gint"} /\ (k = "ier" => v \subseteq Dir)
    <2>1. Word(x) \subseteq Dir \cup {"gint"} /\ (k = "ier" => Word(x) \subseteq Dir)
      BY <1>2 DEF Word, UInv, Words
    <2>2. CASE tmp[x] = <<>>
      BY <2>1, <2>2
    <2>3. CASE tmp[x] # <<>>
      <3>1. x = "thread" /\ Loaded(todo[x], tmp[x])
        BY <2>3 DEF UInv, Queues, Context
      <3>2. /\ tmp[x] = <<tmp[x][1]>> /\ tmp[x][1] \subseteq Dir \cup {"gint"}
            /\ k = "ier" => tmp[x][1] \subseteq Dir
        BY <1>2, <2>3, <3>1 DEF Loaded
      <3>3. Head(tmp[x]) = tmp[x][1]
        BY <3>2
      <3> QED
        BY <2>3, <3>2, <3>3
    <2> QED
      BY <2>2, <2>3
  <1>7. /\ Now(x).what \in Dir \cup {"gint"}
        /\ k = "ier" => Now(x).what \in Dir
    BY <1>2 DEF Accesses
  <1>8. Modified(x) \subseteq Dir \cup {"gint"} /\ (k = "ier" => Modified(x) \subseteq Dir)
    BY <1>6, <1>7 DEF Modified, Put
  <1>9. /\ k = "ier" => ier' \in {ier, Modified(x)} /\ int_status' = int_status
        /\ k = "int_status" => int_status' = Modified(x) /\ ier' = ier
    BY <1>1 DEF Store, At
  <1>10. ier' \subseteq Dir /\ int_status' \subseteq Dir \cup {"gint"}
    BY <1>8, <1>9 DEF UInv, Words
  <1>11. Words' /\ Fifos'
    BY <1>4, <1>10 DEF UInv, Words, Fifos, info, line, ghost
  <1> QED
    BY <1>5, <1>11 DEF UInv

LEMMA TestKeeps ==
  ASSUME UInv, NEW x \in Context, Test(x)
  PROVE  UInv'
  <1>1. At(x, "unless") /\ UNCHANGED <<info, ints, line, masked, tmp, ghost>>
    BY DEF Test
  <1>2. /\ todo[x] # <<>> /\ Framed(todo[x]) /\ Now(x) = todo[x][1] /\ Now(x).op = "unless"
        /\ (x = "isr" => Of(todo[x], IsrKinds))
    <2> DEFINE k == "unless"
    <2>1. At(x, k) /\ k \notin {"serve", "rest"} /\ Queues
      BY <1>1 DEF UInv
    <2> HIDE DEF k
    <2>2. /\ todo[x] # <<>> /\ Framed(todo[x]) /\ Now(x) = todo[x][1] /\ Now(x).op = k
          /\ (x = "isr" => Of(todo[x], IsrKinds))
      BY <2>1, AtHead
    <2> QED
      BY <2>2 DEF k
  <1>3. PICK n \in {1, 1 + Skipped(Now(x).what)} :
          todo' = [todo EXCEPT ![x] = SubSeq(todo[x], n + 1, Len(todo[x]))]
    BY DEF Test
  <1> DEFINE s == Drop(todo[x], n)
  <1>4. /\ Framed(s) /\ (x = "isr" => Of(s, IsrKinds))
        /\ \A d : Clears(todo[x], d) => Clears(s, d)
    BY <1>2, SkipsOn
  <1>5. todo' = [todo EXCEPT ![x] = s]
    BY <1>3 DEF Drop
  <1> HIDE DEF s
  <1>6. Unloads(x)
    BY <1>1, NothingLoaded DEF UInv
  <1>7. Queues' /\ todo'[x] = s /\ (x = "thread" => todo'["isr"] = todo["isr"])
    BY <1>4, <1>5, <1>6, QueueIs DEF UInv
  <1>8. \A d : Clears(todo["isr"], d) => Clears(todo'["isr"], d)
    BY <1>4, <1>7 DEF Context
  <1>9. Spent'
    BY <1>1, <1>8 DEF UInv, Spent, info
  <1>10. Words' /\ Buffers' /\ Fifos'
    BY <1>1 DEF UInv, Words, Buffers, Fifos, info, ints, line, ghost
  <1> QED
    BY <1>7, <1>9, <1>10 DEF UInv

LEMMA SetIrqKeeps ==
  ASSUME UInv, NEW x \in Context, SetIrq(x)
  PROVE  UInv'
  <1>1. /\ At(x, "irq") /\ Goes(x) /\ irq' = Now(x).on
        /\ UNCHANGED <<info, int_status, ier, line, ghost, masked, tmp>>
    BY DEF SetIrq, Done
  <1>2. Now(x) \in Accesses /\ Unloads(x)
    BY <1>1, AtHead, NothingLoaded, ZenonT(60) DEF UInv
  <1>3. Queues' /\ Buffers' /\ Spent'
    BY <1>1, <1>2, DoneKeeps DEF info, ghost
  <1>4. Now(x).on \in BOOLEAN
    BY <1>2 DEF Accesses
  <1>5. Words' /\ Fifos'
    BY <1>1, <1>4 DEF UInv, Words, Fifos, info, line, ghost
  <1> QED
    BY <1>3, <1>5 DEF UInv

LEMMA SetLineKeeps ==
  ASSUME UInv, NEW x \in Context, SetLine(x)
  PROVE  UInv'
  <1>1. Goes(x) /\ UNCHANGED <<info, int_status, irq, ghost, masked, tmp>>
    BY DEF SetLine, Done
  <1>2. PICK k \in {"dlab", "div", "reset"} : At(x, k)
    BY DEF SetLine
  <1>3. Now(x) \in Accesses /\ Unloads(x)
    BY <1>1, <1>2, AtHead, NothingLoaded DEF UInv
  <1>4. Queues' /\ Buffers' /\ Spent'
    BY <1>1, <1>2, <1>3, DoneKeeps DEF info, ghost
  <1>5. Now(x).on \in BOOLEAN /\ Now(x).n \in Nat
    BY <1>3 DEF Accesses
  <1>6. /\ dlab' \in {dlab, Now(x).on} /\ div' \in {div, Now(x).n} /\ ier' \in {ier, {}}
        /\ fifo' \in {fifo, [d \in Dir |-> <<>>]}
    BY DEF SetLine
  <1>7. Words'
    BY <1>1, <1>5, <1>6 DEF UInv, Words, info, ghost
  <1>8. Fifos'
    <2>1. [d \in Dir |-> <<>>] \in [Dir -> Seq(1 .. MaxByte)] /\ Len(<<>>) = 0
      OBVIOUS
    <2>2. \A d \in Dir : [e \in Dir |-> <<>>][d] = <<>>
      OBVIOUS
    <2> QED
      <3>1. CASE fifo' = fifo
        BY <3>1 DEF UInv, Fifos
      <3>2. CASE fifo' = [d \in Dir |-> <<>>]
        <4>1. fifo' \in [Dir -> Seq(1 .. MaxByte)]
          BY <2>1, <3>2
        <4>2. \A d \in Dir : Len(fifo'[d]) <= Depth
          BY <2>1, <2>2, <3>2, UartAssumption
        <4> QED
          BY <4>1, <4>2 DEF Fifos
      <3> QED
        BY <1>6, <3>1, <3>2
  <1> QED
    BY <1>4, <1>7, <1>8 DEF UInv

LEMMA SetWordKeeps ==
  ASSUME UInv, NEW x \in Context, SetStatus(x) \/ SetBaudrate(x) \/ ClearCbs(x)
  PROVE  UInv'
  <1>1. Goes(x) /\ UNCHANGED <<opn_cnt, buf, ints, line, ghost, masked, tmp>>
    BY DEF SetStatus, SetBaudrate, ClearCbs, Done
  <1>2. PICK k \in {"status", "baudrate", "clear cbs"} : At(x, k)
    BY DEF SetStatus, SetBaudrate, ClearCbs
  <1>3. Now(x) \in Accesses /\ Unloads(x) /\ Now(x).op = k
    BY <1>1, <1>2, AtHead, NothingLoaded DEF UInv
  <1>4. Queues' /\ Buffers' /\ Spent'
    BY <1>1, <1>2, <1>3, DoneKeeps DEF ghost
  <1>5. /\ k = "status" => Now(x).what \in Flags
        /\ k = "baudrate" => Now(x).n \in Bauds
    BY <1>3 DEF Accesses
  <1>6. CASE SetStatus(x)
    <2>1. k = "status" /\ status' = Put(Now(x).what, Now(x).on, status)
          /\ UNCHANGED <<baudrate, cbs>>
      BY <1>2, <1>6 DEF SetStatus, At
    <2>2. status' \subseteq Flags
      BY <1>5, <2>1 DEF Put, UInv, Words
    <2> QED
      BY <1>1, <1>4, <2>1, <2>2 DEF UInv, Words, Fifos, ints, line, ghost
  <1>7. CASE SetBaudrate(x)
    <2>1. k = "baudrate" /\ baudrate' = Now(x).n /\ UNCHANGED <<status, cbs>>
      BY <1>2, <1>7 DEF SetBaudrate, At
    <2> QED
      BY <1>1, <1>4, <1>5, <2>1 DEF UInv, Words, Fifos, ints, line, ghost
  <1>8. CASE ClearCbs(x)
    <2>1. cbs' = {} /\ UNCHANGED <<status, baudrate>>
      BY <1>8 DEF ClearCbs
    <2> QED
      BY <1>1, <1>4, <2>1 DEF UInv, Words, Fifos, ints, line, ghost
  <1> QED
    BY <1>6, <1>7, <1>8

(* A buffer is given back, or a new one taken. *)
LEMMA ClearKeeps ==
  ASSUME UInv, NEW x \in Context, Clear(x)
  PROVE  UInv'
  <1>1. /\ At(x, "clear") /\ Goes(x) /\ owed' = owed \ {Now(x).what}
        /\ buf' = [buf EXCEPT ![Now(x).what] = NoBuf]
        /\ UNCHANGED <<opn_cnt, status, baudrate, cbs, ints, line, next, wire, masked, tmp>>
    BY DEF Clear, Done
  <1> DEFINE k == "clear"
             e == Now(x).what
  <1>2. At(x, k) /\ k \notin {"int_status", "ier", "serve", "rest", "from"} /\ Queues
    BY <1>1 DEF UInv
  <1> HIDE DEF k
  <1>3. Now(x) \in Accesses /\ Now(x).op = k /\ Unloads(x)
    BY <1>1, <1>2, AtHead, NothingLoaded
  <1>4. e \in Dir
    BY <1>3 DEF Accesses, k
  <1>5. /\ Queues'
        /\ \A d : Clears(todo["isr"], d) /\ ~ (x = "isr" /\ k = "clear" /\ e = d)
                    => Clears(todo'["isr"], d)
    BY <1>1, <1>2, <1>3, AccessDone
  <1> HIDE DEF e
  <1>6. /\ DOMAIN buf' = Dir /\ buf'[e] = NoBuf
        /\ \A d \in Dir : d # e => buf'[d] = buf[d]
    BY <1>1, <1>4 DEF UInv, Buffers, e
  <1>7. Buffers'
    <2>1. \A d \in Dir : BufferOf(d, NoBuf, next)
      BY DEF BufferOf, NoBuf
    <2>2. \A d \in Dir : BufferOf(d, buf'[d], next)
      BY <1>6, <2>1 DEF UInv, Buffers
    <2> QED
      BY <1>1, <1>6, <2>2 DEF UInv, Buffers
  <1>8. Spent'
    BY <1>5, <1>6 DEF UInv, Spent, NoBuf
  <1>9. Words' /\ Fifos'
    BY <1>1 DEF UInv, Words, Fifos, ints, line
  <1> QED
    BY <1>5, <1>7, <1>8, <1>9 DEF UInv

LEMMA SetBufKeeps ==
  ASSUME NonEmpty, UInv, NEW x \in Context, SetBuf(x)
  PROVE  UInv'
  <1> DEFINE k == "buffer"
             e == Now(x).what
             n == Now(x).n
             b == [set |-> TRUE, len |-> n, ofs |-> 0,
                   first |-> IF e = "tx" THEN next ELSE 0]
  <1>1. /\ At(x, k) /\ Goes(x) /\ owed' = owed \cup {e}
        /\ e = "tx" => next + n <= MaxByte + 1
        /\ next' = (IF e = "tx" THEN next + n ELSE next)
        /\ UNCHANGED <<opn_cnt, status, baudrate, cbs, ints, line, wire, masked, tmp>>
    BY DEF SetBuf, Done
  <1>2. buf' = [buf EXCEPT ![e] = b]
    BY DEF SetBuf
  <1>3. k \notin {"int_status", "ier", "serve", "rest", "from", "clear"} /\ Queues
    BY DEF UInv
  <1> HIDE DEF k
  <1>4. Now(x) \in Accesses /\ Now(x).op = k /\ Unloads(x)
    BY <1>1, <1>3, AtHead, NothingLoaded
  <1>5. e \in Dir /\ n \in Lens /\ n \in Nat /\ n > 0
    BY <1>4 DEF Accesses, k, NonEmpty
  <1>6. Queues' /\ \A d : Clears(todo["isr"], d) => Clears(todo'["isr"], d)
    BY <1>1, <1>3, <1>4, AccessDone
  <1> HIDE DEF e, n, b
  <1>7. DOMAIN buf' = Dir /\ buf'[e] = b /\ \A d \in Dir : d # e => buf'[d] = buf[d]
    BY <1>2, <1>5 DEF UInv, Buffers
  <1>8. /\ b.set = TRUE /\ b.len = n /\ b.ofs = 0 /\ b.first = (IF e = "tx" THEN next ELSE 0)
        /\ next \in 1 .. MaxByte + 1 /\ MaxByte \in Nat
    BY UartAssumption DEF b, UInv, Buffers
  <1>9. next' \in 1 .. MaxByte + 1 /\ next' >= next
    BY <1>1, <1>5, <1>8
  <1>10. BufferOf(e, b, next')
    <2>1. b \in [set : BOOLEAN, first : Nat, len : Nat, ofs : Nat]
      BY <1>5, <1>8 DEF b
    <2>2. e = "tx" => b.first >= 1 /\ b.first + b.len <= next'
      BY <1>1, <1>5, <1>8
    <2> QED
      BY <1>5, <1>8, <2>1, <2>2 DEF BufferOf
  <1>11. \A d \in Dir : d # e => BufferOf(d, buf[d], next')
    <2> SUFFICES ASSUME NEW d \in Dir, d # e
                 PROVE  BufferOf(d, buf[d], next')
      OBVIOUS
    <2>1. BufferOf(d, buf[d], next)
      BY DEF UInv, Buffers
    <2>2. d = "tx" => next' = next
      BY <1>1, <1>5 DEF Dir
    <2> QED
      BY <2>1, <2>2 DEF BufferOf
  <1>12. Buffers'
    BY <1>7, <1>9, <1>10, <1>11 DEF Buffers
  <1>13. Spent'
    <2>1. ~ (b.ofs >= b.len)
      BY <1>5, <1>8
    <2> QED
      BY <1>6, <1>7, <2>1 DEF UInv, Spent
  <1>14. Words' /\ Fifos'
    BY <1>1, <1>5 DEF UInv, Words, Fifos, ints, line
  <1> QED
    BY <1>6, <1>12, <1>13, <1>14 DEF UInv

(* What a client does in its callback are framed calls. *)
LEMMA ReactionFramed ==
  ASSUME NEW d \in Dir, NEW r \in Reactions(d)
  PROVE  Framed(r) /\ Of(r, IsrKinds)
  <1>1. r = <<>> \/ r = dw_uart_dis_cbr(d) \/ \E e \in Dir, n \in Lens : r = Arm(e, n)
    BY DEF Reactions
  <1>2. Framed(<<>>) /\ Of(<<>>, IsrKinds)
    BY ShortFramed DEF Of
  <1> QED
    BY <1>1, <1>2, IsrFramed

LEMMA CallBackKeeps ==
  ASSUME UInv, NEW x \in Context, CallBack(x)
  PROVE  UInv'
  <1> DEFINE k == "callback"
             e == Now(x).what
             s == todo[x]
  <1>1. At(x, k) /\ UNCHANGED <<info, ints, line, masked, tmp, next, wire>>
    BY DEF CallBack
  <1>2. /\ \/ Goes(x) /\ UNCHANGED owed
           \/ /\ \E r \in Reactions(e) : todo' = [todo EXCEPT ![x] = r \o Tail(s)]
              /\ owed' = owed \ {e}
    BY DEF CallBack
  <1>3. k \notin {"int_status", "ier", "serve", "rest", "from", "clear", "buffer"} /\ Queues
    BY DEF UInv
  <1> HIDE DEF k
  <1>4. /\ s # <<>> /\ Framed(s) /\ Now(x) \in Accesses /\ Now(x).op = k /\ Now(x) = s[1]
        /\ (x = "isr" => Of(s, IsrKinds))
    BY <1>1, <1>3, AtHead
  <1>5. Unloads(x)
    BY <1>1, <1>3, NothingLoaded
  <1>6. e \in Dir
    BY <1>4 DEF Accesses, k
  <1> HIDE DEF e
  <1>7. Words' /\ Fifos'
    <2>1. owed' \subseteq owed
      BY <1>2
    <2> QED
      BY <1>1, <2>1 DEF UInv, Words, Fifos, info, ints, line
  <1>8. CASE Goes(x)
    <2>1. Queues' /\ Buffers' /\ Spent'
      BY <1>1, <1>3, <1>5, <1>8, DoneKeeps DEF info
    <2> QED
      BY <1>7, <2>1 DEF UInv
  <1>9. ASSUME NEW r \in Reactions(e), todo' = [todo EXCEPT ![x] = r \o Tail(s)]
        PROVE  UInv'
    <2>1. Framed(r) /\ Of(r, IsrKinds) /\ r \in Seq(Accesses)
      BY <1>6, <1>9, ReactionFramed DEF Framed
    <2>2. /\ Framed(Tail(s)) /\ Tail(s) \in Seq(Accesses)
          /\ (x = "isr" => Of(Tail(s), IsrKinds))
          /\ \A d : Clears(s, d) => Clears(Tail(s), d)
      BY <1>3, <1>4, GoesOn
    <2> DEFINE t == r \o Tail(s)
    <2>3. /\ Framed(t) /\ (x = "isr" => Of(t, IsrKinds))
          /\ \A d : Clears(s, d) => Clears(t, d)
      BY <2>1, <2>2, ConcatFramed, ConcatOf, ConcatClears
    <2>4. todo' = [todo EXCEPT ![x] = t]
      BY <1>9
    <2> HIDE DEF t
    <2>5. Queues' /\ todo'[x] = t /\ (x = "thread" => todo'["isr"] = todo["isr"])
      BY <1>3, <1>5, <2>3, <2>4, QueueIs
    <2>6. \A d : Clears(todo["isr"], d) => Clears(todo'["isr"], d)
      BY <2>3, <2>5 DEF Context
    <2>7. Spent' /\ Buffers'
      BY <1>1, <2>6 DEF UInv, Spent, Buffers, info
    <2> QED
      BY <1>7, <2>5, <2>7 DEF UInv
  <1> QED
    BY <1>2, <1>8, <1>9

(* The flush sends what the routine has not moved. *)
LEMMA FromKeeps ==
  ASSUME UInv, NEW x \in Context, From(x)
  PROVE  UInv'
  <1> DEFINE k == "from"
             s == todo[x]
  <1>1. At(x, k) /\ UNCHANGED <<info, ints, line, masked, ghost>>
    BY DEF From
  <1>2. k \notin {"int_status", "ier", "serve", "rest"} /\ Queues
    BY DEF UInv
  <1>3. k \notin IsrKinds
    BY DEF IsrKinds, Switching
  <1> HIDE DEF k
  <1>4. /\ s # <<>> /\ Framed(s) /\ Now(x) = s[1] /\ Now(x).op = k
        /\ x # "isr" /\ tmp[x] = <<>>
    BY <1>1, <1>2, <1>3, AtHead
  <1>5. x = "thread"
    BY <1>4 DEF Context
  <1>6. /\ Tail(s) \in Seq(Accesses) /\ Tail(s) # <<>> /\ Tail(s)[1].op = "rest"
        /\ Framed(Tail(Tail(s))) /\ Framed(Drop(s, 3))
    BY <1>4, FlushOn DEF k
  <1>7. \/ buf.tx.set /\ tmp' = [tmp EXCEPT ![x] = <<buf.tx.ofs>>] /\ Goes(x)
        \/ todo' = [todo EXCEPT ![x] = Drop(s, 3)] /\ UNCHANGED tmp
    BY DEF From, Drop
  <1>8. Queues' /\ todo'["isr"] = todo["isr"]
    <2>1. CASE todo' = [todo EXCEPT ![x] = Drop(s, 3)] /\ UNCHANGED tmp
      <3>1. Unloads(x)
        BY <1>4, <2>1 DEF Unloads, UInv, Queues
      <3> QED
        BY <1>2, <1>5, <1>6, <2>1, <3>1, QueueIs
    <2>2. CASE tmp' = [tmp EXCEPT ![x] = <<buf.tx.ofs>>] /\ Goes(x)
      <3> DEFINE i == buf.tx.ofs
                 t == Tail(s)
                 v == tmp'[x]
      <3>1. i \in Nat
        BY DEF UInv, Buffers, BufferOf, Dir
      <3>2. /\ DOMAIN todo' = Context /\ DOMAIN tmp' = Context /\ v = <<i>> /\ todo'[x] = t
            /\ tmp'["isr"] = <<>> /\ todo'["isr"] = todo["isr"]
        BY <1>2, <1>5, <2>2 DEF Goes, Queues, Context
      <3>3. v[1] = i /\ v = <<v[1]>>
        BY <3>2
      <3> HIDE DEF i, t, v
      <3>4. Loaded(t, v)
        BY <1>6, <3>1, <3>3 DEF Loaded, t
      <3> QED
        BY <1>2, <1>5, <3>2, <3>4 DEF Queues, v
    <2> QED
      BY <1>7, <2>1, <2>2
  <1>9. Words' /\ Buffers' /\ Fifos' /\ Spent'
    BY <1>1, <1>8 DEF UInv, Words, Buffers, Fifos, Spent, info, ints, line, ghost
  <1> QED
    BY <1>8, <1>9 DEF UInv

(* A byte put into the FIFO by polling. *)
LEMMA SendKeeps ==
  ASSUME Fifos, NEW b \in 1 .. MaxByte, Send(b)
  PROVE  Fifos'
  <1>1. Len(fifo.tx) < Depth /\ fifo' = [fifo EXCEPT !.tx = Append(fifo.tx, b)]
    BY DEF Send
  <1>2. fifo.tx \in Seq(1 .. MaxByte) /\ fifo["tx"] = fifo.tx
    BY DEF Fifos, Dir
  <1> DEFINE s == Append(fifo.tx, b)
  <1>3. s \in Seq(1 .. MaxByte) /\ Len(s) = Len(fifo.tx) + 1 /\ Len(fifo.tx) \in Nat
    BY <1>2
  <1> HIDE DEF s
  <1>4. fifo' = [fifo EXCEPT !["tx"] = s]
    BY <1>1 DEF s
  <1>5. fifo' \in [Dir -> Seq(1 .. MaxByte)]
    BY <1>3, <1>4 DEF Fifos, Dir
  <1>6. fifo'["tx"] = s /\ fifo'["rx"] = fifo["rx"]
    BY <1>4 DEF Fifos, Dir
  <1>7. Len(s) <= Depth
    BY <1>1, <1>3, UartAssumption
  <1> QED
    BY <1>5, <1>6, <1>7 DEF Fifos, Dir

LEMMA FlushRestKeeps ==
  ASSUME UInv, NEW x \in Context, FlushRest(x)
  PROVE  UInv'
  <1> DEFINE k == "rest"
             s == todo[x]
             i == tmp[x][1]
  <1>1. At(x, k) /\ Queues
    BY DEF FlushRest, UInv
  <1>2. /\ x = "thread" /\ tmp[x] = <<i>> /\ i \in Nat /\ s # <<>>
        /\ s \in Seq(Accesses) /\ Framed(Tail(s))
    BY <1>1, AtHead
  <1>3. Head(tmp[x]) = i
    BY <1>2
  <1>4. s[1].op = "rest"
    BY <1>1, <1>2, TailIsDrop DEF At
  <1> HIDE DEF i
  <1>5. CASE i < buf.tx.len
    <2>1. /\ Send(buf.tx.first + i) /\ tmp' = [tmp EXCEPT ![x] = <<i + 1>>] /\ UNCHANGED todo
      BY <1>3, <1>5 DEF FlushRest
    <2> DEFINE b == buf.tx
    <2>2. BufferOf("tx", b, next) /\ next \in 1 .. MaxByte + 1
      BY DEF UInv, Buffers, Dir
    <2>3. /\ b.set /\ b.first \in Nat /\ b.first >= 1 /\ b.len \in Nat
          /\ b.first + b.len <= next
      BY <1>2, <1>5, <2>2 DEF BufferOf, NoBuf
    <2> HIDE DEF b
    <2>4. b.first + i \in 1 .. MaxByte
      <3>1. i < b.len
        BY <1>5 DEF b
      <3> QED
        BY <1>2, <2>2, <2>3, <3>1, UartAssumption
    <2>5. Fifos'
      BY <2>1, <2>4, SendKeeps DEF UInv, b
    <2> DEFINE v == tmp'[x]
               j == i + 1
    <2>6. /\ DOMAIN tmp' = Context /\ v = <<j>> /\ j \in Nat /\ tmp'["isr"] = <<>>
      BY <1>1, <1>2, <2>1 DEF Queues, Context
    <2>7. v[1] = j /\ v = <<v[1]>>
      BY <2>6
    <2> HIDE DEF v, j
    <2>8. Loaded(s, v)
      BY <1>2, <1>4, <2>6, <2>7 DEF Loaded
    <2>9. Queues'
      BY <1>1, <1>2, <2>1, <2>6, <2>8 DEF Queues, v
    <2>10. Words' /\ Buffers' /\ Spent'
      BY <2>1 DEF Send, UInv, Words, Buffers, Spent, info, ints
    <2> QED
      BY <2>5, <2>9, <2>10 DEF UInv
  <1>6. CASE ~ (i < buf.tx.len)
    <2>1. /\ tmp' = [tmp EXCEPT ![x] = <<>>] /\ Goes(x)
          /\ UNCHANGED <<info, ints, line, masked, ghost>>
      BY <1>3, <1>6 DEF FlushRest
    <2>2. Unloads(x) /\ todo' = [todo EXCEPT ![x] = Tail(s)]
      BY <1>1, <2>1 DEF Unloads, Queues, Goes
    <2>3. Queues' /\ todo'["isr"] = todo["isr"]
      BY <1>1, <1>2, <2>2, QueueIs
    <2>4. Words' /\ Buffers' /\ Fifos' /\ Spent'
      BY <2>1, <2>3 DEF UInv, Words, Buffers, Fifos, Spent, info, ints, line, ghost
    <2> QED
      BY <2>3, <2>4 DEF UInv
  <1> QED
    BY <1>5, <1>6

LEMMA PolledKeeps ==
  ASSUME UInv, NEW x \in Context, Drained(x) \/ WriteByte(x) \/ ReadByte(x)
  PROVE  UInv'
  <1>1. Goes(x) /\ UNCHANGED <<info, ints, dlab, div, masked, ghost, tmp>>
    BY DEF Drained, WriteByte, ReadByte, Done, Send, line, ghost
  <1>2. PICK k \in {"drained", "write", "read"} : At(x, k)
    BY DEF Drained, WriteByte, ReadByte
  <1>3. Now(x) \in Accesses /\ Unloads(x) /\ Now(x).op = k
    BY <1>1, <1>2, AtHead, NothingLoaded DEF UInv
  <1>4. Queues' /\ Buffers' /\ Spent'
    BY <1>1, <1>2, <1>3, DoneKeeps DEF info, ghost
  <1>5. Words'
    BY <1>1 DEF UInv, Words, info, ints, ghost
  <1>6. Fifos'
    <2>1. CASE Drained(x)
      BY <2>1 DEF Drained, UInv, Fifos, line
    <2>2. CASE WriteByte(x)
      <3>1. Send(Now(x).n) /\ k = "write"
        BY <1>2, <2>2 DEF WriteByte, At
      <3>2. Now(x).n \in 1 .. MaxByte
        BY <1>3, <3>1 DEF Accesses
      <3> QED
        BY <3>1, <3>2, SendKeeps DEF UInv
    <2>3. CASE ReadByte(x)
      <3> DEFINE s == fifo.rx
                 t == Tail(s)
      <3>1. s # <<>> /\ fifo' = [fifo EXCEPT !["rx"] = t]
        BY <2>3 DEF ReadByte
      <3>2. s \in Seq(1 .. MaxByte) /\ s = fifo["rx"]
        BY DEF UInv, Fifos, Dir
      <3>3. t \in Seq(1 .. MaxByte) /\ Len(t) = Len(s) - 1 /\ Len(s) \in Nat
        BY <3>1, <3>2, HeadTailProperties, LenProperties
      <3> HIDE DEF s, t
      <3>4. fifo' \in [Dir -> Seq(1 .. MaxByte)]
        BY <3>1, <3>3 DEF UInv, Fifos, Dir
      <3>5. fifo'["rx"] = t /\ fifo'["tx"] = fifo["tx"]
        BY <3>1 DEF UInv, Fifos, Dir
      <3>6. Len(t) <= Depth
        <4>1. Len(s) <= Depth
          BY <3>2 DEF UInv, Fifos, Dir
        <4> QED
          BY <3>3, <4>1, UartAssumption
      <3> QED
        BY <3>4, <3>5, <3>6 DEF UInv, Fifos, Dir
    <2> QED
      BY <2>1, <2>2, <2>3
  <1> QED
    BY <1>4, <1>5, <1>6 DEF UInv

(* ------------------------- the interrupt routine ------------------------ *)

(* The routine stops at the last byte of the buffer. *)
LEMMA FilledIs ==
  ASSUME NEW b \in [set : BOOLEAN, first : Nat, len : Nat, ofs : Nat], b.ofs < b.len,
         NEW n \in Nat
  PROVE  Filled(b, n) \in 0 .. n /\ b.ofs + Filled(b, n) <= b.len
  <1> DEFINE S == {k \in 1 .. n : Full([b EXCEPT !.ofs = @ + k])}
             w == b.len - b.ofs
             f == Filled(b, n)
  <1>1. /\ b.ofs \in Nat /\ b.len \in Nat /\ b.ofs < b.len /\ n \in Nat
        /\ w \in Nat /\ w >= 1 /\ b.ofs + w = b.len
    OBVIOUS
  <1>2. \A k \in 1 .. n : [b EXCEPT !.ofs = @ + k].ofs = b.ofs + k
                          /\ [b EXCEPT !.ofs = @ + k].len = b.len
    OBVIOUS
  <1>3. \A k \in 1 .. n : k \in S <=> b.ofs + k >= b.len
    BY <1>2 DEF Full
  <1>4. f = IF S = {} THEN n ELSE CHOOSE k \in S : \A j \in S : k <= j
    BY DEF Filled
  <1>5. S \subseteq 1 .. n
    OBVIOUS
  <1> HIDE DEF S, w, f
  <1>6. CASE S = {}
    <2>1. f = n
      BY <1>4, <1>6
    <2>2. CASE n = 0
      BY <1>1, <2>1, <2>2 DEF f
    <2>3. CASE n # 0
      <3>1. n \in 1 .. n /\ n \notin S
        BY <1>1, <1>6, <2>3
      <3>2. ~ (b.ofs + n >= b.len)
        BY <1>3, <3>1
      <3> QED
        BY <1>1, <2>1, <3>2 DEF f
    <2> QED
      BY <2>2, <2>3
  <1>7. CASE S # {}
    <2>1. \A j \in S : j \in Nat /\ w <= j /\ j <= n
      BY <1>1, <1>3, <1>5
    <2>2. PICK j \in S : TRUE
      BY <1>7
    <2>3. w \in 1 .. n
      BY <1>1, <2>1, <2>2
    <2>4. w \in S
      BY <1>1, <1>3, <2>3
    <2>5. \E k \in S : \A i \in S : k <= i
      BY <2>1, <2>4
    <2>6. f \in S /\ \A i \in S : f <= i
      BY <1>4, <1>7, <2>5
    <2>7. f <= w /\ f \in 1 .. n
      BY <1>5, <2>4, <2>6
    <2>8. f \in 0 .. n /\ b.ofs + f <= b.len
      BY <1>1, <2>7
    <2> QED
      BY <2>8 DEF f
  <1> QED
    BY <1>6, <1>7

LEMMA ServeKeeps ==
  ASSUME UInv, NEW x \in Context, Serve(x)
  PROVE  UInv'
  <1>1. At(x, "serve") /\ UNCHANGED <<opn_cnt, status, baudrate, cbs, ints, dlab, div,
                                      masked, tmp, next, wire, owed>>
    BY DEF Serve
  <1>2. x = "isr" /\ \E d \in Dir : todo[x] = <<Op("serve", TRUE, d)>>
    <2> DEFINE k == "serve"
    <2>1. At(x, k) /\ k = "serve" /\ Queues
      BY <1>1 DEF UInv
    <2> HIDE DEF k
    <2> QED
      BY <2>1, AtHead
  <1>3. PICK d \in Dir : todo[x] = <<Op("serve", TRUE, d)>>
    BY <1>2
  <1>4. Now(x).what = d /\ Tail(todo[x]) = <<>>
    BY <1>3 DEF Now, Op, Access
  <1>5. \A e : ~ Clears(todo["isr"], e)
    <2>1. Len(todo[x]) = 1 /\ todo[x][1].op = "serve"
      BY <1>3 DEF Op, Access
    <2>2. \A i \in 1 .. Len(todo[x]) : todo[x][i].op # "clear"
      <3> DEFINE s == todo[x]
      <3> HIDE DEF s
      <3>1. Len(s) = 1 /\ s[1].op = "serve"
        BY <2>1 DEF s
      <3>2. \A i \in 1 .. Len(s) : s[i].op # "clear"
        BY <3>1
      <3> QED
        BY <3>2 DEF s
    <2> QED
      BY <1>2, <2>2 DEF Clears
  <1>6. \A e \in Dir : ~ (buf[e].set /\ buf[e].ofs >= buf[e].len)
    BY <1>5 DEF UInv, Spent
  <1>7. Unloads(x)
    BY <1>1, <1>2 DEF UInv, Queues, Unloads
  <1>8. Words'
    BY <1>1 DEF UInv, Words, ints
  <1>9. CASE ~ buf[d].set
    <2> DEFINE s == <<Callback(d)>>
    <2>1. todo' = [todo EXCEPT ![x] = s \o <<>>] /\ UNCHANGED <<buf, fifo>>
      BY <1>4, <1>9 DEF Serve
    <2>2. Framed(s) /\ Of(s, IsrKinds) /\ s \in Seq(Accesses)
      BY IsrFramed DEF Framed
    <2>3. s \o <<>> = s
      BY <2>2, ConcatEmptySeq
    <2> HIDE DEF s
    <2>4. Queues' /\ todo'[x] = s
      BY <1>7, <2>1, <2>2, <2>3, QueueIs DEF UInv
    <2>5. Spent' /\ Buffers' /\ Fifos'
      BY <1>1, <1>6, <2>1 DEF UInv, Spent, Buffers, Fifos
    <2> QED
      BY <1>8, <2>4, <2>5 DEF UInv
  <1>10. CASE buf[d].set
    <2> DEFINE b == buf[d]
               m == IF d = "tx" THEN Depth - Len(fifo.tx) ELSE Len(fifo.rx)
               n == Filled(b, m)
               moved == [b EXCEPT !.ofs = @ + n]
               first == b.first + b.ofs
               ended == IF Full(moved) THEN dw_uart_dis_cbr(d) \o <<Callback(d), ClearBuf(d)>>
                                       ELSE <<>>
    <2>1. /\ buf' = [buf EXCEPT ![d] = moved]
          /\ todo' = [todo EXCEPT ![x] = ended \o <<>>]
          /\ fifo' = CASE dlab -> fifo
                       [] d = "tx" /\ ~ dlab ->
                            [fifo EXCEPT !.tx = @ \o [k \in 1 .. n |-> first + k - 1]]
                       [] d = "rx" /\ ~ dlab ->
                            [fifo EXCEPT !.rx = SubSeq(@, n + 1, Len(@))]
      BY <1>4, <1>10 DEF Serve
    <2>2. /\ BufferOf(d, b, next) /\ b.ofs < b.len
          /\ b \in [set : BOOLEAN, first : Nat, len : Nat, ofs : Nat]
      BY <1>6, <1>10 DEF UInv, Buffers, BufferOf
    <2>3. /\ fifo.tx \in Seq(1 .. MaxByte) /\ fifo.rx \in Seq(1 .. MaxByte)
          /\ Len(fifo.tx) <= Depth /\ Len(fifo.rx) <= Depth
          /\ Len(fifo.tx) \in Nat /\ Len(fifo.rx) \in Nat
      BY DEF UInv, Fifos, Dir
    <2>4. m \in Nat
      BY <2>3, UartAssumption
    <2>5. n \in 0 .. m /\ b.ofs + n <= b.len
      <3> HIDE DEF b, m
      <3> QED
        BY <2>2, <2>4, FilledIs
    <2> HIDE DEF n, m
    <2>6. /\ moved \in [set : BOOLEAN, first : Nat, len : Nat, ofs : Nat]
          /\ moved.set = b.set /\ moved.first = b.first /\ moved.len = b.len
          /\ moved.ofs = b.ofs + n
      BY <2>2, <2>4, <2>5
    <2>7. BufferOf(d, moved, next)
      <3>1. b.set /\ moved.ofs <= moved.len
        BY <1>10, <2>5, <2>6
      <3> HIDE DEF moved, b
      <3> QED
        BY <2>2, <2>6, <3>1 DEF BufferOf
    <2>8. /\ Framed(ended) /\ Of(ended, IsrKinds) /\ ended \in Seq(Accesses)
          /\ Full(moved) => Clears(ended, d)
      <3>1. Framed(<<>>) /\ Of(<<>>, IsrKinds)
        BY ShortFramed DEF Of
      <3> QED
        BY <3>1, IsrFramed DEF Framed
    <2>9. ended \o <<>> = ended
      BY <2>8, ConcatEmptySeq
    <2>10. Full(moved) <=> moved.ofs >= moved.len
      BY DEF Full
    <2> HIDE DEF ended
    <2>11. Queues' /\ todo'[x] = ended
      BY <1>7, <2>1, <2>8, <2>9, QueueIs DEF UInv
    <2> HIDE DEF moved
    <2>12. DOMAIN buf' = Dir /\ buf'[d] = moved /\ \A e \in Dir : e # d => buf'[e] = buf[e]
      BY <2>1 DEF UInv, Buffers
    <2>13. Buffers'
      BY <1>1, <2>7, <2>12 DEF UInv, Buffers
    <2>14. Spent'
      BY <1>2, <1>6, <2>8, <2>10, <2>11, <2>12 DEF Spent
    <2>15. Fifos'
      <3>1. CASE dlab
        BY <2>1, <3>1 DEF UInv, Fifos
      <3>2. CASE d = "tx" /\ ~ dlab
        <4> DEFINE s == [k \in 1 .. n |-> first + k - 1]
                   t == fifo.tx
                   u == t \o s
        <4>1. fifo' = [fifo EXCEPT !["tx"] = u]
          BY <2>1, <3>2
        <4>2. /\ first \in Nat /\ first >= 1 /\ first + n <= next
              /\ next \in 1 .. MaxByte + 1 /\ n \in Nat
          <5>1. b.first >= 1 /\ b.first + b.len <= next /\ next \in 1 .. MaxByte + 1
            BY <1>10, <2>2, <3>2 DEF BufferOf, UInv, Buffers
          <5>2. b.first \in Nat /\ b.ofs \in Nat /\ b.len \in Nat /\ n \in Nat
            BY <2>2, <2>4, <2>5
          <5> QED
            BY <2>5, <5>1, <5>2, UartAssumption
        <4> HIDE DEF first
        <4>3. \A k \in 1 .. n : first + k - 1 \in 1 .. MaxByte
          BY <4>2, UartAssumption
        <4>4. s \in Seq(1 .. MaxByte) /\ Len(s) = n
          BY <4>2, <4>3
        <4> HIDE DEF s
        <4>5. u \in Seq(1 .. MaxByte) /\ Len(u) = Len(t) + n
          BY <2>3, <4>4, ConcatProperties
        <4>6. Len(u) <= Depth
          <5>1. m = Depth - Len(t)
            BY <3>2 DEF m
          <5> QED
            BY <2>3, <2>5, <4>5, <5>1, UartAssumption
        <4> HIDE DEF t, u
        <4>7. /\ fifo' \in [Dir -> Seq(1 .. MaxByte)]
              /\ fifo'["tx"] = u /\ fifo'["rx"] = fifo["rx"]
          BY <4>1, <4>5 DEF UInv, Fifos, Dir
        <4> QED
          BY <4>6, <4>7 DEF UInv, Fifos, Dir
      <3>3. CASE d = "rx" /\ ~ dlab
        <4> DEFINE t == fifo.rx
                   u == Drop(t, n)
        <4>1. fifo' = [fifo EXCEPT !["rx"] = u]
          BY <2>1, <3>3 DEF Drop
        <4>2. t \in Seq(1 .. MaxByte) /\ n \in 0 .. Len(t)
          BY <2>3, <2>5, <3>3 DEF m
        <4>3. u \in Seq(1 .. MaxByte) /\ Len(u) = Len(t) - n
          BY <4>2, DropIs
        <4>4. Len(u) <= Depth
          BY <2>3, <4>2, <4>3, UartAssumption
        <4> HIDE DEF t, u
        <4>5. /\ fifo' \in [Dir -> Seq(1 .. MaxByte)]
              /\ fifo'["rx"] = u /\ fifo'["tx"] = fifo["tx"]
          BY <4>1, <4>3 DEF UInv, Fifos, Dir
        <4> QED
          BY <4>4, <4>5 DEF UInv, Fifos, Dir
      <3> QED
        BY <3>1, <3>2, <3>3 DEF Dir
    <2> QED
      BY <1>8, <2>11, <2>13, <2>14, <2>15 DEF UInv
  <1> QED
    BY <1>9, <1>10

(* ------------------------- the calls and the line ----------------------- *)

LEMMA CallIs ==
  ASSUME UInv, Idle, NEW s, Framed(s), Call(s), UNCHANGED tmp
  PROVE  Queues' /\ todo'["isr"] = todo["isr"]
  <1>1. todo["thread"] = <<>> /\ Queues
    BY DEF Idle, UInv
  <1>2. tmp["thread"] = <<>>
    BY <1>1 DEF Queues, Loaded
  <1>3. "thread" \in Context /\ "thread" # "isr"
    BY DEF Context
  <1>4. Unloads("thread")
    BY <1>1, <1>2 DEF Unloads, Queues
  <1>5. todo' = [todo EXCEPT !["thread"] = s]
    BY DEF Call
  <1> QED
    BY <1>1, <1>3, <1>4, <1>5, QueueIs

LEMMA CallsKeeps ==
  ASSUME UInv, NEW s, Framed(s), Calls(s)
  PROVE  UInv'
  <1>1. Idle /\ Call(s) /\ UNCHANGED <<info, ints, line, masked, tmp, ghost>>
    BY DEF Calls
  <1>2. Queues' /\ todo'["isr"] = todo["isr"]
    BY <1>1, CallIs
  <1>3. Words' /\ Buffers' /\ Fifos' /\ Spent'
    BY <1>1, <1>2 DEF UInv, Words, Buffers, Fifos, Spent, info, ints, line, ghost
  <1> QED
    BY <1>2, <1>3 DEF UInv

LEMMA DivisorIs ==
  ASSUME NEW b \in Bauds
  PROVE  Baud2Div(b) \in Nat /\ b \in Nat
  <1>1. Freq \in Nat /\ b \in Nat \ {0}
    BY UartAssumption
  <1>2. b * 16 \in Nat \ {0}
    BY <1>1
  <1> QED
    BY <1>1, <1>2 DEF Baud2Div

LEMMA OpenKeeps ==
  ASSUME UInv, NEW baud \in Bauds, dw_uart_open(baud)
  PROVE  UInv'
  <1>1. /\ Idle /\ opn_cnt < MaxOpen /\ opn_cnt' = opn_cnt + 1
        /\ UNCHANGED <<status, buf, cbs, ints, line, masked, tmp, ghost>>
    BY DEF dw_uart_open
  <1>2. \/ UNCHANGED <<baudrate, todo>>
        \/ /\ baudrate' = baud
           /\ Call(dw_uart_init(Baud2Div(baud)) \o <<Status(TRUE, "ENABLED")>>
                     \o dw_uart_disable_interrupt \o ClearAll)
    BY DEF dw_uart_open
  <1>3. Queues' /\ todo'["isr"] = todo["isr"] /\ baudrate' \in {baudrate, baud}
    <2>1. CASE UNCHANGED <<baudrate, todo>>
      BY <1>1, <2>1 DEF UInv, Queues
    <2>2. CASE /\ baudrate' = baud
               /\ Call(dw_uart_init(Baud2Div(baud)) \o <<Status(TRUE, "ENABLED")>>
                         \o dw_uart_disable_interrupt \o ClearAll)
      BY <1>1, <2>2, DivisorIs, OpenFramed, CallIs
    <2> QED
      BY <1>2, <2>1, <2>2
  <1>4. opn_cnt' \in 0 .. MaxOpen
    BY <1>1, UartAssumption DEF UInv, Words
  <1>5. Words'
    BY <1>1, <1>3, <1>4 DEF UInv, Words, ints, line, ghost
  <1>6. Buffers' /\ Fifos' /\ Spent'
    BY <1>1, <1>3 DEF UInv, Buffers, Fifos, Spent, line, ghost
  <1> QED
    BY <1>3, <1>5, <1>6 DEF UInv

LEMMA CloseKeeps ==
  ASSUME UInv, dw_uart_close
  PROVE  UInv'
  <1> DEFINE r == IF "ENABLED" \in status THEN dw_uart_disable_device ELSE <<>>
             s == dw_uart_disable_interrupt \o dw_uart_abort("tx") \o dw_uart_abort("rx")
                    \o dw_uart_flush_output \o ClearAll \o r \o <<Status(FALSE, "ENABLED")>>
  <1>1. /\ Idle /\ opn_cnt > 0 /\ opn_cnt' = opn_cnt - 1
        /\ UNCHANGED <<status, baudrate, buf, cbs, ints, line, masked, tmp, ghost>>
    BY DEF dw_uart_close, MayClose
  <1>2. UNCHANGED todo \/ Call(s)
    BY DEF dw_uart_close
  <1>3. Framed(s)
    BY CloseFramed
  <1> HIDE DEF s
  <1>4. Queues' /\ todo'["isr"] = todo["isr"]
    <2>1. CASE UNCHANGED todo
      BY <1>1, <2>1 DEF UInv, Queues
    <2>2. CASE Call(s)
      BY <1>1, <1>3, <2>2, CallIs
    <2> QED
      BY <1>2, <2>1, <2>2
  <1>5. opn_cnt' \in 0 .. MaxOpen
    BY <1>1, UartAssumption DEF UInv, Words
  <1>6. Words'
    BY <1>1, <1>5 DEF UInv, Words, ints, line, ghost
  <1>7. Buffers' /\ Fifos' /\ Spent'
    BY <1>1, <1>4 DEF UInv, Buffers, Fifos, Spent, line, ghost
  <1> QED
    BY <1>4, <1>6, <1>7 DEF UInv

LEMMA WriteKeeps ==
  ASSUME NonEmpty, UInv, NEW n \in Lens, dw_uart_write(n)
  PROVE  UInv'
  <1> DEFINE s == [k \in 1 .. n |-> Number("write", next + k - 1)]
  <1>1. /\ Idle /\ Call(s) /\ n > 0 /\ next + n <= MaxByte + 1 /\ next' = next + n
        /\ UNCHANGED <<info, ints, line, masked, tmp, wire, owed>>
    BY DEF dw_uart_write
  <1>2. n \in Nat /\ next \in 1 .. MaxByte + 1 /\ MaxByte \in Nat
    BY UartAssumption DEF UInv, Buffers
  <1>3. next \in Nat /\ next >= 1 /\ next' \in 1 .. MaxByte + 1 /\ next <= next'
    BY <1>1, <1>2
  <1>4. Framed(s)
    BY <1>1, <1>2, <1>3, PolledFramed
  <1> HIDE DEF s
  <1>5. Queues' /\ todo'["isr"] = todo["isr"]
    BY <1>1, <1>4, CallIs
  <1>6. \A d \in Dir : BufferOf(d, buf[d], next')
    <2> SUFFICES ASSUME NEW d \in Dir
                 PROVE  BufferOf(d, buf[d], next')
      OBVIOUS
    <2> DEFINE b == buf[d]
    <2>1. BufferOf(d, b, next)
      BY DEF UInv, Buffers
    <2> HIDE DEF b
    <2>2. b.first + b.len <= next => b.first + b.len <= next'
      BY <1>2, <1>3, <2>1 DEF BufferOf
    <2>3. BufferOf(d, b, next')
      BY <2>1, <2>2 DEF BufferOf
    <2> QED
      BY <2>3 DEF b
  <1>7. Buffers'
    BY <1>1, <1>3, <1>6 DEF UInv, Buffers, info
  <1>8. Words' /\ Fifos' /\ Spent'
    BY <1>1, <1>5 DEF UInv, Words, Fifos, Spent, info, ints, line
  <1> QED
    BY <1>5, <1>7, <1>8 DEF UInv

LEMMA ApiKeeps ==
  ASSUME NonEmpty, UInv, Api
  PROVE  UInv'
  <1>1. ASSUME NEW b \in Bauds, dw_uart_open(b)
        PROVE  UInv'
    BY <1>1, OpenKeeps
  <1>2. ASSUME NEW b \in Bauds, SET_BAUD(b)
        PROVE  UInv'
    <2> DEFINE s == dw_uart_set_baud(Baud2Div(b))
               t == <<Number("baudrate", b)>>
    <2>1. Framed(s)
      BY DivisorIs, BaudFramed
    <2>2. Number("baudrate", b) \in Accesses /\ Number("baudrate", b).op = "baudrate"
      BY DivisorIs, SingleAccess DEF Number, Access
    <2>3. Framed(t)
      BY <2>2, ShortFramed DEF Straight
    <2>4. Calls(s \o t)
      BY <1>2 DEF SET_BAUD
    <2> QED
      BY <2>1, <2>3, <2>4, ConcatFramed, CallsKeeps
  <1>3. ASSUME dw_uart_close
        PROVE  UInv'
    BY <1>3, CloseKeeps
  <1>4. ASSUME ENA_DEV
        PROVE  UInv'
    <2>1. baudrate \in Nat
      BY UartAssumption DEF UInv, Words
    <2>2. Framed(dw_uart_enable_device)
      BY <2>1, DeviceFramed DEF dw_uart_enable_device
    <2> QED
      BY <1>4, <2>2, CallsKeeps DEF ENA_DEV
  <1>5. ASSUME DIS_DEV
        PROVE  UInv'
    BY <1>5, DeviceFramed, CallsKeeps DEF DIS_DEV
  <1>6. ASSUME FLUSH_OUTPUT
        PROVE  UInv'
    BY <1>6, FlushFramed, CallsKeeps DEF FLUSH_OUTPUT
  <1>7. ASSUME NEW d \in Dir, SET_CB(d)
        PROVE  UInv'
    <2>1. /\ cbs' \in {cbs \cup {d}, cbs \ {d}}
          /\ UNCHANGED <<opn_cnt, status, baudrate, buf, ints, line, masked, todo, tmp, ghost>>
      BY <1>7 DEF SET_CB
    <2>2. Words'
      BY <2>1 DEF UInv, Words, ints, line, ghost
    <2>3. Buffers' /\ Fifos' /\ Queues' /\ Spent'
      BY <2>1 DEF UInv, Buffers, Fifos, Queues, Spent, line, ghost
    <2> QED
      BY <2>2, <2>3 DEF UInv
  <1>8. ASSUME NEW d \in Dir, ABORT(d)
        PROVE  UInv'
    BY <1>8, AbortFramed, CallsKeeps DEF ABORT
  <1>9. ASSUME NEW d \in Dir, SET_INT(d)
        PROVE  UInv'
    BY <1>9, CbrFramed, CallsKeeps DEF SET_INT
  <1>10. ASSUME NEW d \in Dir, SET_INT_BUF(d)
         PROVE  UInv'
    <2>1. Framed(<<ClearBuf(d)>>)
      BY DeviceFramed
    <2>2. \A n \in Lens : Framed(<<Access("buffer", TRUE, d, n)>>)
      <3> SUFFICES ASSUME NEW n \in Lens
                   PROVE  Framed(<<Access("buffer", TRUE, d, n)>>)
        OBVIOUS
      <3>1. Access("buffer", TRUE, d, n) \in Accesses
            /\ Access("buffer", TRUE, d, n).op = "buffer"
        BY UartAssumption, SingleAccess DEF Access
      <3> QED
        BY <3>1, ShortFramed DEF Straight
    <2>3. CASE Calls(<<ClearBuf(d)>>)
      BY <2>1, <2>3, CallsKeeps
    <2>4. ASSUME NEW n \in Lens, Calls(<<Access("buffer", TRUE, d, n)>>)
          PROVE  UInv'
      BY <2>2, <2>4, CallsKeeps
    <2> QED
      BY <1>10, <2>3, <2>4 DEF SET_INT_BUF
  <1>11. ASSUME NEW n \in Lens, dw_uart_write(n)
         PROVE  UInv'
    BY <1>11, WriteKeeps
  <1>12. ASSUME NEW n \in Lens, dw_uart_read(n)
         PROVE  UInv'
    <2> DEFINE s == [k \in 1 .. n |-> Op("read", TRUE, "")]
    <2>1. Framed(s)
      BY PolledFramed, UartAssumption
    <2>2. Calls(s)
      BY <1>12 DEF dw_uart_read
    <2> HIDE DEF s
    <2> QED
      BY <2>1, <2>2, CallsKeeps
  <1>13. ASSUME Mask
         PROVE  UInv'
    <2>1. UNCHANGED <<info, ints, line, todo, tmp, ghost>> /\ masked' \in BOOLEAN
      BY <1>13 DEF Mask
    <2>2. Words' /\ Buffers' /\ Fifos' /\ Queues' /\ Spent'
      BY <2>1 DEF UInv, Words, Buffers, Fifos, Queues, Spent, info, ints, line, ghost
    <2> QED
      BY <2>2 DEF UInv
  <1> QED
    BY <1>1, <1>2, <1>3, <1>4, <1>5, <1>6, <1>7, <1>8, <1>9, <1>10, <1>11, <1>12, <1>13
    DEF Api

LEMMA IsrKeeps ==
  ASSUME UInv, dw_uart_isr
  PROVE  UInv'
  <1>1. /\ todo["isr"] = <<>> /\ IIR # "none"
        /\ todo' = [todo EXCEPT !["isr"] = <<Op("serve", TRUE, IIR)>>]
        /\ UNCHANGED <<info, ints, line, masked, tmp, ghost>>
    BY DEF dw_uart_isr, IsrRuns
  <1> DEFINE d == IIR
  <1>2. d \in Dir
    BY <1>1 DEF IIR, Dir
  <1> HIDE DEF d
  <1>3. /\ DOMAIN todo' = Context /\ todo'["isr"] = <<Op("serve", TRUE, d)>>
        /\ todo'["thread"] = todo["thread"]
    BY <1>1 DEF UInv, Queues, Context, d
  <1>4. Queues'
    BY <1>1, <1>2, <1>3 DEF UInv, Queues, IsrQueue
  <1>5. \A e : ~ Clears(todo["isr"], e)
    BY <1>1 DEF Clears
  <1>6. Spent'
    BY <1>1, <1>5 DEF UInv, Spent, info
  <1>7. Words' /\ Buffers' /\ Fifos'
    BY <1>1 DEF UInv, Words, Buffers, Fifos, info, ints, line, ghost
  <1> QED
    BY <1>4, <1>6, <1>7 DEF UInv

LEMMA LineKeeps ==
  ASSUME NonEmpty, UInv, Sent \/ Received
  PROVE  UInv'
  <1>1. UNCHANGED <<info, ints, dlab, div, masked, todo, tmp, next, owed>>
    BY DEF Sent, Received, ghost
  <1>2. Buffers' /\ Queues' /\ Spent'
    BY <1>1 DEF UInv, Buffers, Queues, Spent, info
  <1>3. fifo.tx \in Seq(1 .. MaxByte) /\ fifo.rx \in Seq(1 .. MaxByte)
        /\ fifo["tx"] = fifo.tx /\ fifo["rx"] = fifo.rx
        /\ Len(fifo.tx) <= Depth /\ Len(fifo.rx) <= Depth
    BY DEF UInv, Fifos, Dir
  <1>4. CASE Sent
    <2> DEFINE s == fifo.tx
               t == Tail(s)
    <2>1. s # <<>> /\ wire' = Head(s) /\ fifo' = [fifo EXCEPT !["tx"] = t]
      BY <1>4 DEF Sent
    <2>2. /\ Head(s) \in 1 .. MaxByte /\ t \in Seq(1 .. MaxByte)
          /\ Len(t) = Len(s) - 1 /\ Len(s) \in Nat /\ Len(s) <= Depth
      BY <1>3, <2>1, HeadTailProperties, LenProperties
    <2> HIDE DEF s, t
    <2>3. Len(t) <= Depth
      BY <2>2, UartAssumption
    <2>4. /\ fifo' \in [Dir -> Seq(1 .. MaxByte)]
          /\ fifo'["tx"] = t /\ fifo'["rx"] = fifo["rx"]
      BY <2>1, <2>2 DEF UInv, Fifos, Dir
    <2>5. Fifos'
      BY <1>3, <2>3, <2>4 DEF Fifos, Dir
    <2>6. wire' \in 0 .. MaxByte
      BY <2>1, <2>2, UartAssumption
    <2>7. Words'
      BY <1>1, <2>6 DEF UInv, Words, info, ints
    <2> QED
      BY <1>2, <2>5, <2>7 DEF UInv
  <1>5. CASE Received
    <2> DEFINE s == fifo.rx
               t == Append(s, 1)
    <2>1. /\ Len(s) < Depth /\ fifo' = [fifo EXCEPT !["rx"] = t] /\ UNCHANGED wire
      BY <1>5 DEF Received, ghost
    <2>2. t \in Seq(1 .. MaxByte) /\ Len(t) = Len(s) + 1 /\ Len(s) \in Nat
      <3>1. 1 \in 1 .. MaxByte
        BY DEF NonEmpty
      <3> QED
        BY <1>3, <3>1, AppendProperties, LenProperties
    <2> HIDE DEF s, t
    <2>3. Len(t) <= Depth
      BY <2>1, <2>2, UartAssumption
    <2>4. /\ fifo' \in [Dir -> Seq(1 .. MaxByte)]
          /\ fifo'["rx"] = t /\ fifo'["tx"] = fifo["tx"]
      BY <2>1, <2>2 DEF UInv, Fifos, Dir
    <2>5. Fifos'
      BY <1>3, <2>3, <2>4 DEF Fifos, Dir
    <2>6. Words'
      BY <1>1, <2>1 DEF UInv, Words, info, ints
    <2> QED
      BY <1>2, <2>5, <2>6 DEF UInv
  <1> QED
    BY <1>4, <1>5

LEMMA StepKeeps ==
  ASSUME NonEmpty, UInv, NEW x \in Context, Step(x)
  PROVE  UInv'
  BY LoadKeeps, StoreKeeps, TestKeeps, SetIrqKeeps, SetLineKeeps, SetWordKeeps, ClearKeeps,
     SetBufKeeps, CallBackKeeps, FromKeeps, FlushRestKeeps, PolledKeeps, ServeKeeps DEF Step

LEMMA InvariantKept ==
  ASSUME NonEmpty, UInv, [Next]_vars
  PROVE  UInv'
  <1>1. CASE UNCHANGED vars
    <2>1. UNCHANGED <<info, ints, line, masked, todo, tmp, ghost>>
      BY <1>1 DEF vars
    <2>2. Words' /\ Buffers' /\ Fifos' /\ Queues' /\ Spent'
      BY <2>1 DEF UInv, Words, Buffers, Fifos, Queues, Spent, info, ints, line, ghost
    <2> QED
      BY <2>2 DEF UInv
  <1>2. CASE Next
    BY <1>2, ApiKeeps, IsrKeeps, StepKeeps, LineKeeps DEF Next
  <1> QED
    BY <1>1, <1>2

LEMMA InvariantHolds == Init => UInv
  <1> SUFFICES ASSUME Init
               PROVE  UInv
    OBVIOUS
  <1>1. Words
    <2>1. 0 \in 0 .. MaxOpen /\ 0 \in 0 .. MaxByte
      BY UartAssumption
    <2> QED
      BY <2>1 DEF Init, Words
  <1>2. Buffers
    <2>1. \A d \in Dir : BufferOf(d, NoBuf, 1)
      BY DEF BufferOf, NoBuf
    <2>2. next = 1 /\ DOMAIN buf = Dir /\ \A d \in Dir : buf[d] = NoBuf
      BY DEF Init
    <2> QED
      BY <2>1, <2>2, UartAssumption DEF Buffers
  <1>3. Fifos
    <2>1. /\ fifo = [d \in Dir |-> <<>>] /\ <<>> \in Seq(1 .. MaxByte) /\ Len(<<>>) = 0
      BY DEF Init
    <2>2. fifo \in [Dir -> Seq(1 .. MaxByte)] /\ \A d \in Dir : fifo[d] = <<>>
      BY <2>1
    <2> QED
      BY <2>1, <2>2, UartAssumption DEF Fifos
  <1>4. Queues
    <2>1. Framed(<<>>) /\ Of(<<>>, IsrKinds)
      BY ShortFramed DEF Of
    <2> QED
      BY <2>1 DEF Init, Queues, IsrQueue, Loaded, Context
  <1>5. Spent
    BY DEF Init, Spent, NoBuf
  <1> QED
    BY <1>1, <1>2, <1>3, <1>4, <1>5 DEF UInv

(* ------------------------------- theorems ------------------------------- *)

(* Whatever calls a client makes and wherever the routine and the line cut *)
(* in (dw_uart_isr, dw_uart.c:872-950), every word of the driver keeps its *)
(* type: the fifos hold bytes of the client only and a word that a |= or   *)
(* &= of the thread stores is one that it can have.                        *)
THEOREM Types ==
  ASSUME NonEmpty
  PROVE  Spec => []TypeOK
  <1>1. UInv => TypeOK
    <2> SUFFICES ASSUME UInv
                 PROVE  TypeOK
      OBVIOUS
    <2>1. /\ opn_cnt \in 0 .. MaxOpen
          /\ status \subseteq {"ENABLED", "TX_ABRT", "RX_ABRT"}
          /\ baudrate \in Bauds \cup {0} /\ cbs \subseteq Dir /\ ier \subseteq Dir
          /\ int_status \subseteq Dir \cup {"gint"}
          /\ dlab \in BOOLEAN /\ irq \in BOOLEAN /\ masked \in BOOLEAN /\ div \in Nat
          /\ wire \in 0 .. MaxByte /\ owed \subseteq Dir /\ next \in 1 .. MaxByte + 1
      BY DEF UInv, Words, Buffers, Flags
    <2>2. ASSUME NEW d \in Dir
          PROVE  buf[d] \in [set : BOOLEAN, first : 0 .. MaxByte, len : Nat, ofs : Nat]
      <3> DEFINE b == buf[d]
      <3>1. BufferOf(d, b, next) /\ next \in 1 .. MaxByte + 1 /\ MaxByte \in Nat
        BY UartAssumption DEF UInv, Buffers
      <3> HIDE DEF b
      <3>2. b \in [set : BOOLEAN, first : Nat, len : Nat, ofs : Nat]
        BY <3>1 DEF BufferOf
      <3>3. b.first \in 0 .. MaxByte
        <4>1. CASE ~ b.set
          BY <3>1, <4>1 DEF BufferOf, NoBuf
        <4>2. CASE d = "rx"
          BY <3>1, <4>2 DEF BufferOf
        <4>3. CASE b.set /\ d = "tx"
          <5>1. b.first + b.len <= next /\ b.len > 0 /\ b.first \in Nat /\ b.len \in Nat
            BY <3>1, <3>2, <4>3 DEF BufferOf
          <5> QED
            BY <3>1, <5>1
        <4> QED
          BY <2>2, <4>1, <4>2, <4>3 DEF Dir
      <3>4. b \in [set : BOOLEAN, first : 0 .. MaxByte, len : Nat, ofs : Nat]
        BY <3>2, <3>3
      <3> QED
        BY <3>4 DEF b
    <2>3. ASSUME NEW d \in Dir
          PROVE  /\ Len(fifo[d]) <= Depth
                 /\ \A i \in DOMAIN fifo[d] : fifo[d][i] \in 1 .. MaxByte
      <3>1. fifo[d] \in Seq(1 .. MaxByte) /\ Len(fifo[d]) <= Depth
        BY <2>3 DEF UInv, Fifos
      <3> QED
        BY <3>1, LenProperties, ElementOfSeq
    <2>4. ASSUME NEW x \in Context
          PROVE  Len(tmp[x]) <= 1
      <3>1. tmp[x] = <<>> \/ tmp[x] = <<tmp[x][1]>>
        BY <2>4 DEF UInv, Queues, Loaded, Context
      <3>2. \A v : Len(<<>>) = 0 /\ Len(<<v>>) = 1
        OBVIOUS
      <3>3. CASE tmp[x] = <<>>
        BY <3>2, <3>3
      <3>4. CASE tmp[x] = <<tmp[x][1]>>
        <4> DEFINE v == tmp[x][1]
                   t == tmp[x]
        <4>1. t = <<v>>
          BY <3>4
        <4> HIDE DEF t, v
        <4>2. Len(t) = 1
          BY <3>2, <4>1
        <4> QED
          BY <4>2 DEF t
      <3> QED
        BY <3>1, <3>3, <3>4
    <2> QED
      BY <2>1, <2>2, <2>3, <2>4 DEF TypeOK
  <1> QED
    BY <1>1, InvariantHolds, InvariantKept, PTL DEF Spec

(* The routine never moves a byte beyond the client's buffer, though it    *)
(* compares ofs with len only after it moved one (dw_uart.c:907-909) and   *)
(* the client may give a new buffer from within its callback.              *)
THEOREM StaysInBuffer ==
  ASSUME NonEmpty
  PROVE  Spec => []InBuffer
  <1>1. UInv => InBuffer
    BY DEF UInv, Buffers, BufferOf, InBuffer
  <1> QED
    BY <1>1, InvariantHolds, InvariantKept, PTL DEF Spec

(* ------------------------------------------------------------------------ *)
(* The book-keeping: int_status agrees with the controller and IER between *)
(* the calls of a careful client.  The proof annotates every call with what*)
(* holds between its accesses (an outline), and shows that the routine cuts*)
(* in only where it can do no harm.                                        *)
(* ------------------------------------------------------------------------ *)

(* -------------------------------- switches ------------------------------ *)

(* The words of the book-keeping, and what an access makes of them. *)
States == [int : SUBSET (Dir \cup {"gint"}), ier : SUBSET Dir, irq : BOOLEAN, dlab : BOOLEAN]
Switches == [int |-> int_status, ier |-> ier, irq |-> irq, dlab |-> dlab]
Effect(a, s) ==
  [int  |-> IF a.op = "int_status" THEN Put(a.what, a.on, s.int) ELSE s.int,
   ier  |-> IF a.op = "ier" /\ ~ s.dlab THEN Put(a.what, a.on, s.ier)
            ELSE IF a.op = "reset" THEN {} ELSE s.ier,
   irq  |-> IF a.op = "irq" THEN a.on ELSE s.irq,
   dlab |-> IF a.op = "dlab" THEN a.on ELSE s.dlab]
Active(s) == \E d \in Dir : d \in s.int
HoldsIn(c, s) == CASE c = "in use"     -> "gint" \notin s.int \/ Active(s)
                   [] c = "not needed" -> "gint" \in s.int \/ ~ Active(s)
                   [] OTHER            -> c \notin s.int

(* The books are even: the interrupts in use are those of IER, all of them *)
(* in S, and the controller lets them through if there is one.             *)
Even(S) == {s \in States : /\ ~ s.dlab
                           /\ "gint" \in s.int <=> s.irq
                           /\ \A d \in Dir : d \in s.int <=> d \in s.ier
                           /\ s.irq <=> \E d \in Dir : d \in s.ier
                           /\ \A d \in Dir : d \in s.ier => d \in S}
Off == Even({})
(* The routine cannot be entered. *)
Shut(A) == \A s \in A : s.irq => \A d \in Dir : d \notin s.ier

(* -------------------------------- outlines ------------------------------ *)

(* An access leads from A to B, or to J if it skips.  exposed: the routine *)
(* may cut in, so that it is shut out or finds books it leaves even; free: *)
(* a callback may react, so that it finds the books even.                  *)
Fits(a, A, B, J, exposed, free) ==
  /\ a.op \notin {"unless", "callback"} => \A s \in A : Effect(a, s) \in B
  /\ a.op = "unless" => \A s \in A : s \in IF HoldsIn(a.what, s) THEN J ELSE B
  /\ a.op = "from" => A \subseteq J
  /\ a.op = "callback" =>
       A \subseteq B /\ (free => A = {} \/ (~ exposed /\ A \subseteq Even(Dir) /\ Even(Dir) \subseteq B))
  /\ exposed => \/ Shut(A)
                \/ ~ free /\ \E d \in Dir : A = Even({d}) /\ a \in {Unless(d), Ier(FALSE, d)}
Jump(a) == IF a.op = "unless" THEN Skipped(a.what) ELSE 2
Outlined(q, lab, exposed, free) ==
  \A i \in 1 .. Len(q) : Fits(q[i], lab[i], lab[i + 1], lab[i + 1 + Jump(q[i])], exposed, free)
(* A sequence of accesses leads from A to B. *)
Leads(q, A, B, exposed, free) ==
  \E lab : Outlined(q, lab, exposed, free) /\ A \subseteq lab[1] /\ lab[Len(q) + 1] = B

LEMMA JumpIs == \A a : Jump(a) \in {2, 8}
  BY SkippedIs DEF Jump

(* What follows an access may be more. *)
LEMMA FitsMore ==
  ASSUME NEW a, NEW A, NEW B, NEW J, NEW e \in BOOLEAN, NEW f \in BOOLEAN, Fits(a, A, B, J, e, f),
         NEW C, NEW K, B \subseteq C, a.op \in {"unless", "from"} => J \subseteq K
  PROVE  Fits(a, A, C, K, e, f)
  BY DEF Fits

LEMMA FitsTamed ==
  ASSUME NEW a, NEW A, NEW B, NEW J, NEW e \in BOOLEAN, NEW f \in BOOLEAN, Fits(a, A, B, J, e, f)
  PROVE  Fits(a, A, B, J, e, FALSE)
  BY DEF Fits

LEMMA EmptyLeads ==
  ASSUME NEW A, NEW B, NEW e \in BOOLEAN, NEW f \in BOOLEAN
  PROVE  Leads(<<>>, A, B, e, f) <=> A \subseteq B
  <1>1. Len(<<>>) = 0
    OBVIOUS
  <1>2. ASSUME A \subseteq B
        PROVE  Leads(<<>>, A, B, e, f)
    <2> DEFINE lab == [i \in {1} |-> B]
    <2>1. lab[1] = B /\ Outlined(<<>>, lab, e, f)
      BY <1>1 DEF Outlined
    <2> HIDE DEF lab
    <2> QED
      BY <1>1, <1>2, <2>1 DEF Leads
  <1>3. ASSUME Leads(<<>>, A, B, e, f)
        PROVE  A \subseteq B
    BY <1>1, <1>3 DEF Leads
  <1> QED
    BY <1>2, <1>3

LEMMA LessLeads ==
  ASSUME NEW q, NEW A, NEW B, NEW e \in BOOLEAN, NEW f \in BOOLEAN, Leads(q, A, B, e, f)
  PROVE  /\ \A C : C \subseteq A => Leads(q, C, B, e, f)
         /\ Leads(q, A, B, e, FALSE)
  <1>1. PICK lab : Outlined(q, lab, e, f) /\ A \subseteq lab[1] /\ lab[Len(q) + 1] = B
    BY DEF Leads
  <1>2. \A C : C \subseteq A => Leads(q, C, B, e, f)
    BY <1>1 DEF Leads
  <1>3. Outlined(q, lab, e, FALSE)
    BY <1>1, FitsTamed DEF Outlined
  <1>4. Leads(q, A, B, e, FALSE)
    BY <1>1, <1>3 DEF Leads
  <1> QED
    BY <1>2, <1>4

(* The end of an outline may hold more. *)
LEMMA MoreLeads ==
  ASSUME NEW q, Framed(q), NEW A, NEW B, NEW C, B \subseteq C,
         NEW e \in BOOLEAN, NEW f \in BOOLEAN, Leads(q, A, B, e, f)
  PROVE  Leads(q, A, C, e, f)
  <1> DEFINE n == Len(q)
  <1>1. PICK lab : Outlined(q, lab, e, f) /\ A \subseteq lab[1] /\ lab[n + 1] = B
    BY DEF Leads
  <1>2. n \in Nat /\ \A i \in 1 .. n : SkipsPlain(q, i) /\ FlushWhole(q, i)
    BY LenProperties DEF Framed
  <1> DEFINE new == [i \in 1 .. n + 1 |-> IF i = n + 1 THEN C ELSE lab[i]]
  <1>3. /\ \A i \in 1 .. n + 1 : lab[i] \subseteq new[i]
        /\ \A i \in 1 .. n : new[i] = lab[i]
        /\ new[n + 1] = C /\ lab[1] \subseteq new[1]
    BY <1>1, <1>2
  <1> HIDE DEF new, n
  <1>4. ASSUME NEW i \in 1 .. n
        PROVE  Fits(q[i], new[i], new[i + 1], new[i + 1 + Jump(q[i])], e, f)
    <2> DEFINE j == Jump(q[i])
    <2>1. Fits(q[i], lab[i], lab[i + 1], lab[i + 1 + j], e, f)
      BY <1>1 DEF Outlined, n
    <2>2. i + 1 \in 1 .. n + 1 /\ j \in Nat
      BY <1>2, JumpIs
    <2>3. q[i].op \in {"unless", "from"} => i + 1 + j \in 1 .. n + 1
      <3>1. CASE q[i].op = "unless"
        <4>1. i + j <= n
          BY <1>2, <3>1 DEF SkipsPlain, Jump, n
        <4> HIDE DEF j
        <4> QED
          BY <1>2, <2>2, <4>1
      <3>2. CASE q[i].op = "from"
        <4>1. i + 2 <= n /\ j = 2
          BY <1>2, <3>2 DEF FlushWhole, Jump, n
        <4> HIDE DEF j
        <4> QED
          BY <1>2, <2>2, <4>1
      <3> QED
        BY <3>1, <3>2
    <2> HIDE DEF j
    <2>4. /\ new[i] = lab[i] /\ lab[i + 1] \subseteq new[i + 1]
          /\ q[i].op \in {"unless", "from"} => lab[i + 1 + j] \subseteq new[i + 1 + j]
      BY <1>3, <2>2, <2>3
    <2>5. Fits(q[i], lab[i], new[i + 1], new[i + 1 + j], e, f)
      BY <2>1, <2>4, FitsMore
    <2> QED
      BY <2>4, <2>5 DEF j
  <1>5. Outlined(q, new, e, f)
    BY <1>4 DEF Outlined, n
  <1> QED
    BY <1>1, <1>3, <1>5 DEF Leads, n

(* One sequence after the other. *)
LEMMA ConcatLeads ==
  ASSUME NEW a, NEW b, Framed(a), Framed(b), NEW A, NEW B, NEW C,
         NEW e \in BOOLEAN, NEW f \in BOOLEAN, Leads(a, A, B, e, f), Leads(b, B, C, e, f)
  PROVE  Leads(a \o b, A, C, e, f)
  <1> DEFINE m == Len(a)
             n == Len(b)
             c == a \o b
  <1>1. PICK la : Outlined(a, la, e, f) /\ A \subseteq la[1] /\ la[m + 1] = B
    BY DEF Leads
  <1>2. PICK lb : Outlined(b, lb, e, f) /\ B \subseteq lb[1] /\ lb[n + 1] = C
    BY DEF Leads
  <1>3. /\ m \in Nat /\ n \in Nat /\ Len(c) = m + n
        /\ \A i \in 1 .. m : c[i] = a[i]
        /\ \A i \in 1 .. n : c[i + m] = b[i]
    BY ConcatIs DEF Framed
  <1>4. \A i \in 1 .. m : SkipsPlain(a, i) /\ FlushWhole(a, i)
    BY DEF Framed
  <1> DEFINE lab == [i \in 1 .. m + n + 1 |-> IF i <= m THEN la[i] ELSE lb[i - m]]
  <1>5. /\ \A i \in 1 .. m : lab[i] = la[i]
        /\ \A i \in 1 .. n + 1 : lab[i + m] = lb[i]
        /\ la[m + 1] \subseteq lab[m + 1]
    <2>1. \A i \in 1 .. m : lab[i] = la[i]
      BY <1>3
    <2>2. ASSUME NEW i \in 1 .. n + 1
          PROVE  lab[i + m] = lb[i]
      <3>1. i + m \in 1 .. m + n + 1 /\ ~ (i + m <= m) /\ i + m - m = i
        BY <1>3
      <3> QED
        BY <3>1
    <2>3. 1 \in 1 .. n + 1 /\ 1 + m = m + 1
      BY <1>3
    <2> HIDE DEF lab
    <2>4. lab[m + 1] = lb[1]
      BY <2>2, <2>3
    <2> QED
      BY <1>1, <1>2, <2>1, <2>2, <2>4
  <1> HIDE DEF lab, c, m, n
  <1>6. \A i \in 1 .. m + 1 : la[i] \subseteq lab[i]
    <2> SUFFICES ASSUME NEW i \in 1 .. m + 1
                 PROVE  la[i] \subseteq lab[i]
      OBVIOUS
    <2>1. i \in 1 .. m \/ i = m + 1
      BY <1>3
    <2> QED
      BY <1>5, <2>1
  <1>7. ASSUME NEW i \in 1 .. m
        PROVE  Fits(c[i], lab[i], lab[i + 1], lab[i + 1 + Jump(c[i])], e, f)
    <2> DEFINE j == Jump(a[i])
    <2>1. Fits(a[i], la[i], la[i + 1], la[i + 1 + j], e, f) /\ c[i] = a[i]
      BY <1>1, <1>3 DEF Outlined, m
    <2>2. i + 1 \in 1 .. m + 1 /\ j \in Nat
      BY <1>3, JumpIs
    <2>3. a[i].op \in {"unless", "from"} => i + 1 + j \in 1 .. m + 1
      <3>1. CASE a[i].op = "unless"
        <4>1. i + j <= m
          BY <1>4, <3>1 DEF SkipsPlain, Jump, m
        <4> HIDE DEF j
        <4> QED
          BY <1>3, <2>2, <4>1
      <3>2. CASE a[i].op = "from"
        <4>1. i + 2 <= m /\ j = 2
          BY <1>4, <3>2 DEF FlushWhole, Jump, m
        <4> HIDE DEF j
        <4> QED
          BY <1>3, <2>2, <4>1
      <3> QED
        BY <3>1, <3>2
    <2> HIDE DEF j
    <2>4. /\ lab[i] = la[i] /\ la[i + 1] \subseteq lab[i + 1]
          /\ a[i].op \in {"unless", "from"} => la[i + 1 + j] \subseteq lab[i + 1 + j]
      BY <1>5, <1>6, <2>2, <2>3
    <2>5. Fits(a[i], la[i], lab[i + 1], lab[i + 1 + j], e, f)
      BY <2>1, <2>4, FitsMore
    <2> QED
      BY <2>1, <2>4, <2>5 DEF j
  <1>8. \A i \in 1 .. n : SkipsPlain(b, i) /\ FlushWhole(b, i)
    BY DEF Framed, n
  <1>9. ASSUME NEW i \in 1 .. n
        PROVE  Fits(c[i + m], lab[i + m], lab[i + m + 1], lab[i + m + 1 + Jump(c[i + m])], e, f)
    <2> DEFINE j == Jump(b[i])
    <2>1. Fits(b[i], lb[i], lb[i + 1], lb[i + 1 + j], e, f) /\ c[i + m] = b[i]
      BY <1>2, <1>3 DEF Outlined, n
    <2>7. j \in Nat
      BY JumpIs
    <2>2. /\ i \in 1 .. n + 1 /\ i + 1 \in 1 .. n + 1 /\ j \in Nat
          /\ i + m + 1 = (i + 1) + m
      <3> HIDE DEF j
      <3> QED
        BY <1>3, <2>7
    <2>3. b[i].op \in {"unless", "from"} => i + 1 + j \in 1 .. n + 1
      <3>1. CASE b[i].op = "unless"
        <4>1. i + j <= n
          BY <1>8, <3>1 DEF SkipsPlain, Jump, n
        <4> HIDE DEF j
        <4> QED
          BY <1>3, <2>2, <4>1
      <3>2. CASE b[i].op = "from"
        <4>1. i + 2 <= n /\ j = 2
          BY <1>8, <3>2 DEF FlushWhole, Jump, n
        <4> HIDE DEF j
        <4> QED
          BY <1>3, <2>2, <4>1
      <3> QED
        BY <3>1, <3>2
    <2> HIDE DEF j
    <2>4. i + m + 1 + j = (i + 1 + j) + m
      BY <1>3, <2>2
    <2>5. /\ lab[i + m] = lb[i] /\ lab[i + m + 1] = lb[i + 1]
          /\ b[i].op \in {"unless", "from"} => lab[i + m + 1 + j] = lb[i + 1 + j]
      BY <1>5, <2>2, <2>3, <2>4
    <2>6. Fits(b[i], lb[i], lab[i + m + 1], lab[i + m + 1 + j], e, f)
      BY <2>1, <2>5, FitsMore
    <2> QED
      BY <2>1, <2>5, <2>6 DEF j
  <1>10. Outlined(c, lab, e, f)
    <2> SUFFICES ASSUME NEW i \in 1 .. m + n
                 PROVE  Fits(c[i], lab[i], lab[i + 1], lab[i + 1 + Jump(c[i])], e, f)
      BY <1>3 DEF Outlined
    <2>1. CASE i \in 1 .. m
      BY <1>7, <2>1
    <2>2. CASE i \notin 1 .. m
      <3>1. i - m \in 1 .. n /\ i - m + m = i
        BY <1>3, <2>2
      <3> QED
        BY <1>9, <3>1
    <2> QED
      BY <2>1, <2>2
  <1>11. A \subseteq lab[1] /\ lab[m + n + 1] = C
    <2>1. 1 \in 1 .. m + 1 /\ n + 1 \in 1 .. n + 1 /\ (n + 1) + m = m + n + 1
      BY <1>3
    <2>2. la[1] \subseteq lab[1] /\ lab[(n + 1) + m] = lb[n + 1]
      BY <1>5, <1>6, <2>1
    <2> QED
      BY <1>1, <1>2, <2>1, <2>2 DEF n
  <1> QED
    BY <1>3, <1>10, <1>11 DEF Leads, c

(* What is left of an outline after an access, and after a skip. *)
LEMMA DropLeads ==
  ASSUME NEW q \in Seq(Accesses), NEW lab, NEW e \in BOOLEAN, NEW f \in BOOLEAN,
         Outlined(q, lab, e, f), NEW k \in 0 .. Len(q)
  PROVE  Leads(Drop(q, k), lab[k + 1], lab[Len(q) + 1], e, f)
  <1> DEFINE n == Len(q)
             t == Drop(q, k)
  <1>1. /\ n \in Nat /\ k \in 0 .. n /\ Len(t) = n - k
        /\ \A i \in 1 .. n - k : t[i] = q[i + k]
    BY DropIs, LenProperties
  <1> DEFINE new == [i \in 1 .. n + 10 |-> lab[i + k]]
  <1>2. \A i \in 1 .. n + 10 : new[i] = lab[i + k]
    OBVIOUS
  <1> HIDE DEF new, t, n
  <1>3. ASSUME NEW i \in 1 .. n - k
        PROVE  Fits(t[i], new[i], new[i + 1], new[i + 1 + Jump(t[i])], e, f)
    <2> DEFINE j == Jump(t[i])
    <2>1. j \in {2, 8}
      BY JumpIs
    <2>2. t[i] = q[i + k] /\ i + k \in 1 .. n
      BY <1>1
    <2>3. Fits(q[i + k], lab[i + k], lab[i + k + 1], lab[i + k + 1 + j], e, f)
      BY <2>2 DEF Outlined, n
    <2> HIDE DEF j
    <2>4. /\ i \in 1 .. n + 10 /\ i + 1 \in 1 .. n + 10 /\ i + 1 + j \in 1 .. n + 10
          /\ i + k + 1 = (i + 1) + k /\ i + k + 1 + j = (i + 1 + j) + k
      BY <1>1, <2>1
    <2>5. new[i] = lab[i + k] /\ new[i + 1] = lab[i + k + 1] /\ new[i + 1 + j] = lab[i + k + 1 + j]
      BY <1>2, <2>4
    <2> QED
      BY <2>2, <2>3, <2>5 DEF j
  <1>4. Outlined(t, new, e, f)
    BY <1>1, <1>3 DEF Outlined
  <1>5. new[1] = lab[k + 1] /\ new[n - k + 1] = lab[n + 1]
    <2>1. /\ 1 \in 1 .. n + 10 /\ n - k + 1 \in 1 .. n + 10
          /\ 1 + k = k + 1 /\ n - k + 1 + k = n + 1
      BY <1>1
    <2> QED
      BY <1>2, <2>1
  <1> QED
    BY <1>1, <1>4, <1>5 DEF Leads, t, n

LEMMA LeadsOn ==
  ASSUME NEW q \in Seq(Accesses), q # <<>>, NEW A, NEW B,
         NEW e \in BOOLEAN, NEW f \in BOOLEAN, Leads(q, A, B, e, f)
  PROVE  \E L, M, J : /\ A \subseteq L /\ Fits(q[1], L, M, J, e, f) /\ Leads(q, L, B, e, f)
                      /\ Leads(Tail(q), M, B, e, f)
                      /\ 1 + Jump(q[1]) <= Len(q) => Leads(Drop(q, 1 + Jump(q[1])), J, B, e, f)
  <1>1. PICK lab : Outlined(q, lab, e, f) /\ A \subseteq lab[1] /\ lab[Len(q) + 1] = B
    BY DEF Leads
  <1> DEFINE n == Len(q)
             j == Jump(q[1])
  <1>2. n \in Nat \ {0} /\ Tail(q) = Drop(q, 1)
    BY TailIsDrop
  <1>3. j \in Nat
    BY JumpIs
  <1>4. Fits(q[1], lab[1], lab[1 + 1], lab[1 + 1 + j], e, f)
    BY <1>1, <1>2 DEF Outlined
  <1> HIDE DEF j, n
  <1>5. 1 \in 0 .. n /\ (1 + j <= n => 1 + j \in 0 .. n) /\ 1 + 1 + j = 1 + j + 1
    BY <1>2, <1>3
  <1>6. Leads(Tail(q), lab[1 + 1], B, e, f)
    BY <1>1, <1>2, <1>5, DropLeads DEF n
  <1>7. 1 + j <= n => Leads(Drop(q, 1 + j), lab[1 + 1 + j], B, e, f)
    BY <1>1, <1>5, DropLeads DEF n
  <1>8. Leads(q, lab[1], B, e, f)
    BY <1>1 DEF Leads
  <1> QED
    BY <1>1, <1>4, <1>6, <1>7, <1>8 DEF j, n

(* Sequences with one condition throughout. *)
LEMMA ConstLeads ==
  ASSUME NEW q \in Seq(Accesses), NEW A, NEW e \in BOOLEAN, NEW f \in BOOLEAN,
         \A i \in 1 .. Len(q) : Fits(q[i], A, A, A, e, f)
  PROVE  Leads(q, A, A, e, f)
  <1> DEFINE n == Len(q)
             lab == [i \in 1 .. n + 10 |-> A]
  <1>1. n \in Nat
    BY LenProperties
  <1>2. \A i \in 1 .. n + 10 : lab[i] = A
    OBVIOUS
  <1> HIDE DEF lab
  <1>3. Outlined(q, lab, e, f)
    <2> SUFFICES ASSUME NEW i \in 1 .. n
                 PROVE  Fits(q[i], lab[i], lab[i + 1], lab[i + 1 + Jump(q[i])], e, f)
      BY DEF Outlined
    <2> DEFINE j == Jump(q[i])
    <2>1. j \in {2, 8}
      BY JumpIs
    <2> HIDE DEF j, n
    <2>2. i \in 1 .. n + 10 /\ i + 1 \in 1 .. n + 10 /\ i + 1 + j \in 1 .. n + 10
      BY <1>1, <2>1
    <2>3. Fits(q[i], A, A, A, e, f)
      BY DEF n
    <2> QED
      BY <1>2, <2>2, <2>3 DEF j
  <1>4. lab[1] = A /\ lab[n + 1] = A
    <2> HIDE DEF n
    <2> QED
      BY <1>1, <1>2
  <1> QED
    BY <1>3, <1>4 DEF Leads

(* One access, and what no state reaches. *)
LEMMA SingleLeads ==
  ASSUME NEW a \in Accesses, a.op \notin {"unless", "from"}, NEW A, NEW B,
         NEW e \in BOOLEAN, NEW f \in BOOLEAN, Fits(a, A, B, B, e, f)
  PROVE  Leads(<<a>>, A, B, e, f)
  <1> DEFINE q == <<a>>
             lab == [i \in 1 .. 2 |-> IF i = 1 THEN A ELSE B]
  <1>1. Len(q) = 1 /\ q[1] = a
    OBVIOUS
  <1>2. lab[1] = A /\ lab[2] = B
    OBVIOUS
  <1> HIDE DEF lab, q
  <1>3. Fits(a, A, B, lab[1 + 1 + Jump(a)], e, f)
    BY DEF Fits
  <1>4. Outlined(q, lab, e, f)
    BY <1>1, <1>2, <1>3 DEF Outlined
  <1>5. Leads(q, A, B, e, f)
    BY <1>1, <1>2, <1>4 DEF Leads
  <1> QED
    BY <1>5 DEF q

LEMMA NothingLeads ==
  ASSUME NEW q \in Seq(Accesses), NEW B, NEW e \in BOOLEAN, NEW f \in BOOLEAN
  PROVE  Leads(q, {}, B, e, f)
  <1> DEFINE n == Len(q)
             lab == [i \in 1 .. n + 1 |-> IF i = n + 1 THEN B ELSE {}]
  <1>1. n \in Nat /\ \A i \in 1 .. n : q[i] \in Accesses
    BY LenProperties, ElementOfSeq
  <1>2. (\A i \in 1 .. n : lab[i] = {}) /\ lab[n + 1] = B /\ {} \subseteq lab[1]
    BY <1>1
  <1> HIDE DEF lab
  <1>3. Outlined(q, lab, e, f)
    <2> SUFFICES ASSUME NEW i \in 1 .. n
                 PROVE  Fits(q[i], lab[i], lab[i + 1], lab[i + 1 + Jump(q[i])], e, f)
      BY DEF Outlined
    <2>1. lab[i] = {}
      BY <1>1, <1>2 DEF Accesses, Kinds
    <2> QED
      BY <2>1 DEF Fits, Shut
  <1> QED
    BY <1>2, <1>3 DEF Leads

(* ------------------------ what the accesses lead to --------------------- *)

Calm == {"status", "div", "baudrate", "clear cbs", "clear", "buffer", "from", "rest", "drained",
         "write", "read"}

LEMMA EvenIs ==
  /\ \A S \in SUBSET Dir : Even(S) \subseteq States /\ Off \subseteq Even(S)
  /\ \A S, T \in SUBSET Dir : S \subseteq T => Even(S) \subseteq Even(T)
  /\ \A s \in Off : ~ s.dlab /\ ~ s.irq /\ s.int = {} /\ s.ier = {}
  /\ Shut(Off)
  /\ \A s \in States : ~ s.dlab /\ ~ s.irq /\ s.int = {} /\ s.ier = {} => s \in Off
  <1>1. \A S \in SUBSET Dir : Even(S) \subseteq States /\ Off \subseteq Even(S)
    BY DEF Even, Off
  <1>2. \A S, T \in SUBSET Dir : S \subseteq T => Even(S) \subseteq Even(T)
    BY DEF Even
  <1>3. ASSUME NEW s \in Off
        PROVE  ~ s.dlab /\ ~ s.irq /\ s.int = {} /\ s.ier = {}
    <2>1. /\ s \in States /\ ~ s.dlab /\ ("gint" \in s.int <=> s.irq)
          /\ \A d \in Dir : d \notin s.ier /\ d \notin s.int
          /\ (s.irq <=> \E d \in Dir : d \in s.ier)
      BY <1>3 DEF Even, Off
    <2>2. s.int \subseteq Dir \cup {"gint"} /\ s.ier \subseteq Dir
      BY <2>1 DEF States
    <2> QED
      BY <2>1, <2>2
  <1>4. Shut(Off)
    BY <1>3 DEF Shut
  <1>5. \A s \in States : ~ s.dlab /\ ~ s.irq /\ s.int = {} /\ s.ier = {} => s \in Off
    BY DEF Even, Off
  <1> QED
    BY <1>1, <1>2, <1>3, <1>4, <1>5

LEMMA EffectIs ==
  ASSUME NEW a \in Accesses, NEW s \in States
  PROVE  /\ Effect(a, s) \in States
         /\ a.op \in Calm \cup {"unless", "callback"} => Effect(a, s) = s
  <1>1. /\ s = [int |-> s.int, ier |-> s.ier, irq |-> s.irq, dlab |-> s.dlab]
        /\ s.int \in SUBSET (Dir \cup {"gint"}) /\ s.ier \in SUBSET Dir
        /\ s.irq \in BOOLEAN /\ s.dlab \in BOOLEAN
    BY DEF States
  <1>2. /\ a.on \in BOOLEAN /\ (a.op = "ier" => a.what \in Dir)
        /\ (a.op = "int_status" => a.what \in Dir \cup {"gint"})
    BY DEF Accesses
  <1>3. /\ Effect(a, s).int \in SUBSET (Dir \cup {"gint"}) /\ Effect(a, s).ier \in SUBSET Dir
        /\ Effect(a, s).irq \in BOOLEAN /\ Effect(a, s).dlab \in BOOLEAN
    <2>1. Effect(a, s).int \in SUBSET (Dir \cup {"gint"})
      BY <1>1, <1>2 DEF Effect, Put
    <2>2. Effect(a, s).ier \in SUBSET Dir
      BY <1>1, <1>2 DEF Effect, Put
    <2>3. Effect(a, s).irq \in BOOLEAN /\ Effect(a, s).dlab \in BOOLEAN
      BY <1>1, <1>2 DEF Effect
    <2> QED
      BY <2>1, <2>2, <2>3
  <1>4. Effect(a, s) \in States
    BY <1>3 DEF Effect, States
  <1>5. a.op \in Calm \cup {"unless", "callback"} => Effect(a, s) = s
    BY <1>1 DEF Effect, Calm
  <1> QED
    BY <1>4, <1>5

LEMMA CalmFits ==
  ASSUME NEW a \in Accesses, a.op \in Calm, NEW A \in SUBSET States,
         NEW e \in BOOLEAN, NEW f \in BOOLEAN, e => Shut(A)
  PROVE  Fits(a, A, A, A, e, f)
  <1>1. \A s \in A : Effect(a, s) = s
    BY EffectIs
  <1>2. a.op \notin {"unless", "callback"}
    BY DEF Calm
  <1> QED
    BY <1>1, <1>2 DEF Fits

(* With everything off, switching something off changes nothing. *)
LEMMA OffFits ==
  ASSUME NEW a \in Accesses, NEW e \in BOOLEAN, NEW f \in BOOLEAN,
         a.op \in Calm \cup {"reset"} \/ (a.op \in {"ier", "int_status", "irq"} /\ ~ a.on)
  PROVE  Fits(a, Off, Off, Off, e, f)
  <1>1. Off \in SUBSET States /\ Shut(Off)
    BY EvenIs DEF Off
  <1>2. CASE a.op \in Calm
    BY <1>1, <1>2, CalmFits
  <1>3. CASE a.op = "reset" \/ (a.op \in {"ier", "int_status", "irq"} /\ ~ a.on)
    <2>1. ASSUME NEW s \in Off
          PROVE  Effect(a, s) \in Off
      <3>1. Effect(a, s) \in States
        BY <1>1, EffectIs
      <3>2. ~ s.dlab /\ ~ s.irq /\ s.int = {} /\ s.ier = {}
        BY EvenIs
      <3>3. /\ Effect(a, s).int = {} /\ Effect(a, s).ier = {}
            /\ ~ Effect(a, s).irq /\ ~ Effect(a, s).dlab
        BY <1>3, <3>2 DEF Effect, Put
      <3> QED
        BY <3>1, <3>3, EvenIs
    <2>2. a.op \notin {"unless", "from", "callback"}
      BY <1>3
    <2> QED
      BY <1>1, <2>1, <2>2 DEF Fits
  <1> QED
    BY <1>2, <1>3

(* -------------------- the book-keeping of an interrupt ------------------ *)

(* Between the accesses of dw_uart_dis_cbr(d), from Even(S). *)
Cleared(d, S) == {s \in States : /\ ~ s.dlab
                                 /\ "gint" \in s.int <=> s.irq
                                 /\ \A e \in Dir : e \in s.ier <=> e # d /\ e \in s.int
                                 /\ s.irq <=> Active(s)
                                 /\ \A e \in Dir : e \in s.int => e \in S}
Dropped(d, S) == {s \in States : /\ ~ s.dlab
                                 /\ "gint" \in s.int <=> s.irq
                                 /\ \A e \in Dir : e \in s.int <=> e \in s.ier
                                 /\ Active(s) => s.irq
                                 /\ \A e \in Dir : e \in s.ier => e # d /\ e \in S}
Idling(on) == {s \in States : ~ s.dlab /\ s.irq = on /\ "gint" \in s.int
                               /\ \A e \in Dir : e \notin s.int /\ e \notin s.ier}

LEMMA FiveLeads ==
  ASSUME NEW a, NEW b, NEW u, NEW x, NEW y,
         a.op \notin {"unless", "from"}, b.op \notin {"unless", "from"},
         x.op \notin {"unless", "from"}, y.op \notin {"unless", "from"},
         u.op = "unless", Jump(u) = 2,
         NEW A, NEW B, NEW C, NEW X, NEW Y, NEW Z, NEW e \in BOOLEAN, NEW f \in BOOLEAN,
         Fits(a, A, B, B, e, f), Fits(b, B, C, C, e, f), Fits(u, C, X, Z, e, f),
         Fits(x, X, Y, Y, e, f), Fits(y, Y, Z, Z, e, f)
  PROVE  Leads(<<a, b, u, x, y>>, A, Z, e, f)
  <1> DEFINE q == <<a, b, u, x, y>>
             lab == <<A, B, C, X, Y, Z>>
  <1>1. Len(q) = 5 /\ q[1] = a /\ q[2] = b /\ q[3] = u /\ q[4] = x /\ q[5] = y
    OBVIOUS
  <1>2. lab[1] = A /\ lab[2] = B /\ lab[3] = C /\ lab[4] = X /\ lab[5] = Y /\ lab[6] = Z
    OBVIOUS
  <1> HIDE DEF q, lab
  <1>3. \A K : Fits(a, A, B, K, e, f) /\ Fits(b, B, C, K, e, f)
               /\ Fits(x, X, Y, K, e, f) /\ Fits(y, Y, Z, K, e, f)
    <2> SUFFICES ASSUME NEW K
                 PROVE  /\ Fits(a, A, B, K, e, f) /\ Fits(b, B, C, K, e, f)
                        /\ Fits(x, X, Y, K, e, f) /\ Fits(y, Y, Z, K, e, f)
      OBVIOUS
    <2>1. Fits(a, A, B, K, e, f)
      BY FitsMore
    <2>2. Fits(b, B, C, K, e, f)
      BY FitsMore
    <2>3. Fits(x, X, Y, K, e, f)
      BY FitsMore
    <2>4. Fits(y, Y, Z, K, e, f)
      BY FitsMore
    <2> QED
      BY <2>1, <2>2, <2>3, <2>4
  <1>4. ASSUME NEW i \in 1 .. 5
        PROVE  Fits(q[i], lab[i], lab[i + 1], lab[i + 1 + Jump(q[i])], e, f)
    <2>1. CASE i = 1
      <3>1. q[i] = a /\ lab[i] = A /\ lab[i + 1] = B
        BY <1>1, <1>2, <2>1
      <3> QED
        BY <1>3, <3>1
    <2>2. CASE i = 2
      <3>1. q[i] = b /\ lab[i] = B /\ lab[i + 1] = C
        BY <1>1, <1>2, <2>2
      <3> QED
        BY <1>3, <3>1
    <2>3. CASE i = 3
      <3>1. q[i] = u /\ lab[i] = C /\ lab[i + 1] = X
        BY <1>1, <1>2, <2>3
      <3>2. i + 1 + Jump(q[i]) = 6
        BY <2>3, <3>1
      <3> QED
        BY <1>2, <3>1, <3>2
    <2>4. CASE i = 4
      <3>1. q[i] = x /\ lab[i] = X /\ lab[i + 1] = Y
        BY <1>1, <1>2, <2>4
      <3> QED
        BY <1>3, <3>1
    <2>5. CASE i = 5
      <3>1. q[i] = y /\ lab[i] = Y /\ lab[i + 1] = Z
        BY <1>1, <1>2, <2>5
      <3> QED
        BY <1>3, <3>1
    <2>6. i = 1 \/ i = 2 \/ i = 3 \/ i = 4 \/ i = 5
      OBVIOUS
    <2> QED
      BY <2>1, <2>2, <2>3, <2>4, <2>5, <2>6
  <1>5. Outlined(q, lab, e, f)
    BY <1>1, <1>4 DEF Outlined
  <1>6. Leads(q, A, Z, e, f)
    BY <1>1, <1>2, <1>5 DEF Leads
  <1> QED
    BY <1>6 DEF q

(* The accesses that switch, one by one. *)
LEMMA SwitchIs ==
  ASSUME NEW d, NEW s \in States, ~ s.dlab
  PROVE  /\ Effect(Ier(TRUE, d), s) = [s EXCEPT !.ier = s.ier \cup {d}]
         /\ Effect(Ier(FALSE, d), s) = [s EXCEPT !.ier = s.ier \ {d}]
         /\ Effect(IntSt(TRUE, d), s) = [s EXCEPT !.int = s.int \cup {d}]
         /\ Effect(IntSt(FALSE, d), s) = [s EXCEPT !.int = s.int \ {d}]
         /\ Effect(Irq(TRUE), s) = [s EXCEPT !.irq = TRUE]
         /\ Effect(Irq(FALSE), s) = [s EXCEPT !.irq = FALSE]
  <1>1. ASSUME NEW on \in BOOLEAN
        PROVE  /\ Effect(Ier(on, d), s) = [s EXCEPT !.ier = IF on THEN s.ier \cup {d} ELSE s.ier \ {d}]
               /\ Effect(IntSt(on, d), s) = [s EXCEPT !.int = IF on THEN s.int \cup {d} ELSE s.int \ {d}]
               /\ Effect(Irq(on), s) = [s EXCEPT !.irq = on]
    <2>1. /\ Ier(on, d).op = "ier" /\ Ier(on, d).on = on /\ Ier(on, d).what = d
          /\ IntSt(on, d).op = "int_status" /\ IntSt(on, d).on = on
          /\ IntSt(on, d).what = d /\ Irq(on).op = "irq" /\ Irq(on).on = on
      BY DEF Ier, IntSt, Irq, Op, Access
    <2>2. Effect(Ier(on, d), s) = [s EXCEPT !.ier = IF on THEN s.ier \cup {d} ELSE s.ier \ {d}]
      BY <2>1 DEF Effect, States, Put
    <2>3. Effect(IntSt(on, d), s) = [s EXCEPT !.int = IF on THEN s.int \cup {d} ELSE s.int \ {d}]
      BY <2>1 DEF Effect, States, Put
    <2>4. Effect(Irq(on), s) = [s EXCEPT !.irq = on]
      BY <2>1 DEF Effect, States, Put
    <2> QED
      BY <2>2, <2>3, <2>4
  <1>2. /\ Effect(Ier(TRUE, d), s) = [s EXCEPT !.ier = IF TRUE THEN s.ier \cup {d} ELSE s.ier \ {d}]
        /\ Effect(IntSt(TRUE, d), s) = [s EXCEPT !.int = IF TRUE THEN s.int \cup {d} ELSE s.int \ {d}]
        /\ Effect(Irq(TRUE), s) = [s EXCEPT !.irq = TRUE]
    BY <1>1, Zenon
  <1>3. /\ Effect(Ier(FALSE, d), s) = [s EXCEPT !.ier = IF FALSE THEN s.ier \cup {d} ELSE s.ier \ {d}]
        /\ Effect(IntSt(FALSE, d), s) = [s EXCEPT !.int = IF FALSE THEN s.int \cup {d} ELSE s.int \ {d}]
        /\ Effect(Irq(FALSE), s) = [s EXCEPT !.irq = FALSE]
    BY <1>1, Zenon
  <1> QED
    BY <1>2, <1>3

LEMMA DisLeads ==
  ASSUME NEW d \in Dir, NEW S \in SUBSET Dir, NEW e \in BOOLEAN, NEW f \in BOOLEAN,
         e => S = {} \/ (~ f /\ S = {d})
  PROVE  Leads(dw_uart_dis_cbr(d), Even(S), Even(S \ {d}), e, f)
  <1> DEFINE T == S \ {d}
  <1>1. /\ "gint" \notin Dir /\ T \in SUBSET Dir /\ \A x \in Dir : x \in T <=> x \in S /\ x # d
        /\ e => \A x \in Dir : x \in S => x = d
    BY DEF Dir
  <1> HIDE DEF T
  <1>2. Fits(Ier(FALSE, d), Even(S), Cleared(d, S), Cleared(d, S), e, f)
    <2>1. ASSUME NEW s \in Even(S)
          PROVE  Effect(Ier(FALSE, d), s) \in Cleared(d, S)
      <3>1. s \in States /\ ~ s.dlab
        BY <2>1 DEF Even
      <3>2. Effect(Ier(FALSE, d), s) = [s EXCEPT !.ier = s.ier \ {d}]
        BY <3>1, SwitchIs
      <3> QED
        BY <1>1, <2>1, <3>1, <3>2 DEF Even, Cleared, States, Active
    <2>2. e => Shut(Even(S)) \/ (~ f /\ Even(S) = Even({d}))
      BY EvenIs DEF Off
    <2>3. Ier(FALSE, d).op = "ier"
      BY DEF Ier, Op, Access
    <2> QED
      BY <2>1, <2>2, <2>3 DEF Fits
  <1>3. Fits(IntSt(FALSE, d), Cleared(d, S), Dropped(d, S), Dropped(d, S), e, f)
    <2>1. ASSUME NEW s \in Cleared(d, S)
          PROVE  Effect(IntSt(FALSE, d), s) \in Dropped(d, S)
      <3>1. s \in States /\ ~ s.dlab
        BY <2>1 DEF Cleared
      <3>2. Effect(IntSt(FALSE, d), s) = [s EXCEPT !.int = s.int \ {d}]
        BY <3>1, SwitchIs
      <3> QED
        BY <1>1, <2>1, <3>1, <3>2, ZenonT(60) DEF Dropped, Cleared, States, Active
    <2>2. e => Shut(Cleared(d, S))
      BY <1>1 DEF Shut, Cleared
    <2>3. IntSt(FALSE, d).op = "int_status"
      BY DEF IntSt, Op, Access
    <2> QED
      BY <2>1, <2>2, <2>3 DEF Fits
  <1>4. Fits(Unless("in use"), Dropped(d, S), Idling(TRUE), Even(T), e, f)
    <2>1. ASSUME NEW s \in Dropped(d, S)
          PROVE  s \in IF HoldsIn("in use", s) THEN Even(T) ELSE Idling(TRUE)
      <3>1. HoldsIn("in use", s) <=> "gint" \notin s.int \/ Active(s)
        BY DEF HoldsIn
      <3>2. CASE HoldsIn("in use", s)
        BY <1>1, <2>1, <3>1, <3>2 DEF Dropped, Even, Active
      <3>3. CASE ~ HoldsIn("in use", s)
        BY <1>1, <2>1, <3>1, <3>3 DEF Dropped, Idling, Active, States
      <3> QED
        BY <3>2, <3>3
    <2>2. e => Shut(Dropped(d, S))
      BY <1>1 DEF Shut, Dropped
    <2>3. Unless("in use").op = "unless" /\ Unless("in use").what = "in use"
      BY DEF Unless, Op, Access
    <2> QED
      BY <2>1, <2>2, <2>3 DEF Fits
  <1>5. Fits(Irq(FALSE), Idling(TRUE), Idling(FALSE), Idling(FALSE), e, f)
    <2>1. ASSUME NEW s \in Idling(TRUE)
          PROVE  Effect(Irq(FALSE), s) \in Idling(FALSE)
      <3>1. s \in States /\ ~ s.dlab
        BY <2>1 DEF Idling
      <3>2. Effect(Irq(FALSE), s) = [s EXCEPT !.irq = FALSE]
        BY <3>1, SwitchIs
      <3> QED
        BY <2>1, <3>1, <3>2 DEF Idling, States
    <2>2. Shut(Idling(TRUE))
      BY DEF Shut, Idling
    <2>3. Irq(FALSE).op = "irq"
      BY DEF Irq, Op, Access
    <2> QED
      BY <2>1, <2>2, <2>3 DEF Fits
  <1>6. Fits(IntSt(FALSE, "gint"), Idling(FALSE), Even(T), Even(T), e, f)
    <2>1. ASSUME NEW s \in Idling(FALSE)
          PROVE  Effect(IntSt(FALSE, "gint"), s) \in Even(T)
      <3>1. s \in States /\ ~ s.dlab
        BY <2>1 DEF Idling
      <3>2. Effect(IntSt(FALSE, "gint"), s) = [s EXCEPT !.int = s.int \ {"gint"}]
        BY <3>1, SwitchIs
      <3> QED
        BY <1>1, <2>1, <3>1, <3>2 DEF Idling, Even, States
    <2>2. Shut(Idling(FALSE))
      BY DEF Shut, Idling
    <2>3. IntSt(FALSE, "gint").op = "int_status"
      BY DEF IntSt, Op, Access
    <2> QED
      BY <2>1, <2>2, <2>3 DEF Fits
  <1>7. /\ Ier(FALSE, d).op \notin {"unless", "from"} /\ IntSt(FALSE, d).op \notin {"unless", "from"}
        /\ Irq(FALSE).op \notin {"unless", "from"}
        /\ IntSt(FALSE, "gint").op \notin {"unless", "from"}
        /\ Unless("in use").op = "unless" /\ Jump(Unless("in use")) = 2
    BY DEF Ier, IntSt, Irq, Unless, Op, Access, Jump, Skipped, Dir
  <1> DEFINE a == Ier(FALSE, d)
             b == IntSt(FALSE, d)
             u == Unless("in use")
             x == Irq(FALSE)
             y == IntSt(FALSE, "gint")
             B == Cleared(d, S)
             C == Dropped(d, S)
             X == Idling(TRUE)
             Y == Idling(FALSE)
             A == Even(S)
             Z == Even(T)
  <1>8. /\ a.op \notin {"unless", "from"} /\ b.op \notin {"unless", "from"}
        /\ x.op \notin {"unless", "from"} /\ y.op \notin {"unless", "from"}
        /\ u.op = "unless" /\ Jump(u) = 2
        /\ Fits(a, A, B, B, e, f) /\ Fits(b, B, C, C, e, f) /\ Fits(u, C, X, Z, e, f)
        /\ Fits(x, X, Y, Y, e, f) /\ Fits(y, Y, Z, Z, e, f)
    BY <1>2, <1>3, <1>4, <1>5, <1>6, <1>7
  <1> HIDE DEF a, b, u, x, y, A, B, C, X, Y, Z
  <1>9. Leads(<<a, b, u, x, y>>, A, Z, e, f)
    BY <1>8, FiveLeads
  <1>10. Leads(dw_uart_dis_cbr(d), Even(S), Even(T), e, f)
    BY <1>9 DEF dw_uart_dis_cbr, a, b, u, x, y, A, Z
  <1> QED
    BY <1>10 DEF T

LEMMA ThreeLeads ==
  ASSUME NEW a, NEW b, NEW c,
         a.op \notin {"unless", "from"}, b.op \notin {"unless", "from"},
         c.op \notin {"unless", "from"},
         NEW A, NEW B, NEW C, NEW Z, NEW e \in BOOLEAN, NEW f \in BOOLEAN,
         Fits(a, A, B, B, e, f), Fits(b, B, C, C, e, f), Fits(c, C, Z, Z, e, f)
  PROVE  Leads(<<a, b, c>>, A, Z, e, f)
  <1> DEFINE q == <<a, b, c>>
             lab == <<A, B, C, Z>>
  <1>1. Len(q) = 3 /\ q[1] = a /\ q[2] = b /\ q[3] = c
    OBVIOUS
  <1>2. lab[1] = A /\ lab[2] = B /\ lab[3] = C /\ lab[4] = Z
    OBVIOUS
  <1> HIDE DEF q, lab
  <1>3. ASSUME NEW i \in 1 .. 3
        PROVE  Fits(q[i], lab[i], lab[i + 1], lab[i + 1 + Jump(q[i])], e, f)
    <2>1. CASE i = 1
      <3>1. q[i] = a /\ lab[i] = A /\ lab[i + 1] = B
        BY <1>1, <1>2, <2>1
      <3> QED
        BY <3>1, FitsMore
    <2>2. CASE i = 2
      <3>1. q[i] = b /\ lab[i] = B /\ lab[i + 1] = C
        BY <1>1, <1>2, <2>2
      <3> QED
        BY <3>1, FitsMore
    <2>3. CASE i = 3
      <3>1. q[i] = c /\ lab[i] = C /\ lab[i + 1] = Z
        BY <1>1, <1>2, <2>3
      <3> QED
        BY <3>1, FitsMore
    <2>4. i = 1 \/ i = 2 \/ i = 3
      OBVIOUS
    <2> QED
      BY <2>1, <2>2, <2>3, <2>4
  <1>4. Outlined(q, lab, e, f)
    BY <1>1, <1>3 DEF Outlined
  <1>5. Leads(q, A, Z, e, f)
    BY <1>1, <1>2, <1>4 DEF Leads
  <1> QED
    BY <1>5 DEF q

(* Between the accesses of dw_uart_ena_cbr(d); off: the controller keeps   *)
(* the interrupt off up to the end.                                        *)
Noted(d, off) == {s \in States : /\ ~ s.dlab
                                 /\ "gint" \in s.int <=> s.irq
                                 /\ \A e \in Dir : e \in s.int <=> e = d \/ e \in s.ier
                                 /\ s.irq <=> \E e \in Dir : e \in s.ier
                                 /\ off => ~ s.irq}
Armed(off) == {s \in States : /\ ~ s.dlab
                              /\ "gint" \in s.int <=> s.irq
                              /\ \A e \in Dir : e \in s.int <=> e \in s.ier
                              /\ Active(s)
                              /\ off => ~ s.irq}
Ready(noted) == {s \in States : /\ ~ s.dlab /\ ~ s.irq
                                /\ ("gint" \in s.int <=> noted)
                                /\ \A e \in Dir : e \in s.int <=> e \in s.ier
                                /\ Active(s)}

LEMMA EnaLeads ==
  ASSUME NEW d \in Dir, NEW e \in BOOLEAN, NEW f \in BOOLEAN
  PROVE  Leads(dw_uart_ena_cbr(d), IF e THEN Off ELSE Even(Dir), Even(Dir), e, f)
  <1> DEFINE start == IF e THEN Off ELSE Even(Dir)
  <1>1. /\ "gint" \notin Dir /\ \A s \in start : s \in Even(Dir) /\ (e => ~ s.irq)
        /\ e => Shut(start)
    BY EvenIs DEF Dir
  <1> HIDE DEF start
  <1>2. Fits(IntSt(TRUE, d), start, Noted(d, e), Noted(d, e), e, f)
    <2>1. ASSUME NEW s \in start
          PROVE  Effect(IntSt(TRUE, d), s) \in Noted(d, e)
      <3>1. s \in Even(Dir) /\ s \in States /\ ~ s.dlab /\ (e => ~ s.irq)
        BY <1>1, <2>1 DEF Even
      <3>2. Effect(IntSt(TRUE, d), s) = [s EXCEPT !.int = s.int \cup {d}]
        BY <3>1, SwitchIs
      <3> DEFINE r == [s EXCEPT !.int = s.int \cup {d}]
      <3>3. /\ r \in States /\ r.int = s.int \cup {d} /\ r.ier = s.ier
            /\ r.irq = s.irq /\ r.dlab = s.dlab
        BY <3>1 DEF States
      <3> HIDE DEF r
      <3>4. /\ "gint" \in r.int <=> r.irq
            /\ \A x \in Dir : x \in r.int <=> x = d \/ x \in r.ier
            /\ r.irq <=> \E x \in Dir : x \in r.ier
            /\ ~ r.dlab /\ (e => ~ r.irq)
        BY <1>1, <3>1, <3>3 DEF Even
      <3>5. r \in Noted(d, e)
        BY <3>3, <3>4 DEF Noted
      <3> QED
        BY <3>2, <3>5 DEF r
    <2>2. IntSt(TRUE, d).op = "int_status"
      BY DEF IntSt, Op, Access
    <2> QED
      BY <1>1, <2>1, <2>2 DEF Fits
  <1>3. Fits(Ier(TRUE, d), Noted(d, e), Armed(e), Armed(e), e, f)
    <2>1. ASSUME NEW s \in Noted(d, e)
          PROVE  Effect(Ier(TRUE, d), s) \in Armed(e)
      <3>1. s \in States /\ ~ s.dlab
        BY <2>1 DEF Noted
      <3>2. Effect(Ier(TRUE, d), s) = [s EXCEPT !.ier = s.ier \cup {d}]
        BY <3>1, SwitchIs
      <3> QED
        BY <1>1, <2>1, <3>1, <3>2, ZenonT(60) DEF Noted, Armed, Active, States
    <2>2. e => Shut(Noted(d, e))
      BY DEF Shut, Noted
    <2>3. Ier(TRUE, d).op = "ier"
      BY DEF Ier, Op, Access
    <2> QED
      BY <2>1, <2>2, <2>3 DEF Fits
  <1>4. Fits(Unless("not needed"), Armed(e), Ready(FALSE), Even(Dir), e, f)
    <2>1. ASSUME NEW s \in Armed(e)
          PROVE  s \in IF HoldsIn("not needed", s) THEN Even(Dir) ELSE Ready(FALSE)
      <3>1. HoldsIn("not needed", s) <=> "gint" \in s.int \/ ~ Active(s)
        BY DEF HoldsIn
      <3>2. CASE HoldsIn("not needed", s)
        BY <1>1, <2>1, <3>1, <3>2 DEF Armed, Even, Active
      <3>3. CASE ~ HoldsIn("not needed", s)
        BY <1>1, <2>1, <3>1, <3>3 DEF Armed, Ready, States
      <3> QED
        BY <3>2, <3>3
    <2>2. e => Shut(Armed(e))
      BY DEF Shut, Armed
    <2>3. Unless("not needed").op = "unless" /\ Unless("not needed").what = "not needed"
      BY DEF Unless, Op, Access
    <2> QED
      BY <2>1, <2>2, <2>3 DEF Fits
  <1>5. Fits(IntSt(TRUE, "gint"), Ready(FALSE), Ready(TRUE), Ready(TRUE), e, f)
    <2>1. ASSUME NEW s \in Ready(FALSE)
          PROVE  Effect(IntSt(TRUE, "gint"), s) \in Ready(TRUE)
      <3>1. s \in States /\ ~ s.dlab
        BY <2>1 DEF Ready
      <3>2. Effect(IntSt(TRUE, "gint"), s) = [s EXCEPT !.int = s.int \cup {"gint"}]
        BY <3>1, SwitchIs
      <3> QED
        BY <1>1, <2>1, <3>1, <3>2 DEF Ready, Active, States
    <2>2. Shut(Ready(FALSE))
      BY DEF Shut, Ready
    <2>3. IntSt(TRUE, "gint").op = "int_status"
      BY DEF IntSt, Op, Access
    <2> QED
      BY <2>1, <2>2, <2>3 DEF Fits
  <1>6. Fits(Irq(TRUE), Ready(TRUE), Even(Dir), Even(Dir), e, f)
    <2>1. ASSUME NEW s \in Ready(TRUE)
          PROVE  Effect(Irq(TRUE), s) \in Even(Dir)
      <3>1. s \in States /\ ~ s.dlab
        BY <2>1 DEF Ready
      <3>2. Effect(Irq(TRUE), s) = [s EXCEPT !.irq = TRUE]
        BY <3>1, SwitchIs
      <3> QED
        BY <1>1, <2>1, <3>1, <3>2 DEF Ready, Active, Even, States
    <2>2. Shut(Ready(TRUE))
      BY DEF Shut, Ready
    <2>3. Irq(TRUE).op = "irq"
      BY DEF Irq, Op, Access
    <2> QED
      BY <2>1, <2>2, <2>3 DEF Fits
  <1>7. /\ Ier(TRUE, d).op \notin {"unless", "from"} /\ IntSt(TRUE, d).op \notin {"unless", "from"}
        /\ Irq(TRUE).op \notin {"unless", "from"}
        /\ IntSt(TRUE, "gint").op \notin {"unless", "from"}
        /\ Unless("not needed").op = "unless" /\ Jump(Unless("not needed")) = 2
    BY DEF Ier, IntSt, Irq, Unless, Op, Access, Jump, Skipped, Dir
  <1> DEFINE a == IntSt(TRUE, d)
             b == Ier(TRUE, d)
             u == Unless("not needed")
             x == IntSt(TRUE, "gint")
             y == Irq(TRUE)
             B == Noted(d, e)
             C == Armed(e)
             X == Ready(FALSE)
             Y == Ready(TRUE)
             Z == Even(Dir)
  <1>8. /\ a.op \notin {"unless", "from"} /\ b.op \notin {"unless", "from"}
        /\ x.op \notin {"unless", "from"} /\ y.op \notin {"unless", "from"}
        /\ u.op = "unless" /\ Jump(u) = 2
        /\ Fits(a, start, B, B, e, f) /\ Fits(b, B, C, C, e, f) /\ Fits(u, C, X, Z, e, f)
        /\ Fits(x, X, Y, Y, e, f) /\ Fits(y, Y, Z, Z, e, f)
    BY <1>2, <1>3, <1>4, <1>5, <1>6, <1>7
  <1> HIDE DEF a, b, u, x, y, B, C, X, Y, Z
  <1>9. Leads(<<a, b, u, x, y>>, start, Z, e, f)
    BY <1>8, FiveLeads
  <1>10. Leads(dw_uart_ena_cbr(d), start, Even(Dir), e, f)
    BY <1>9 DEF dw_uart_ena_cbr, a, b, u, x, y, Z
  <1> QED
    BY <1>10 DEF start

(* ------------------------------- the calls ------------------------------ *)

(* What a call finds: even books, and nothing in use if the routine may    *)
(* cut in.                                                                 *)
Start(exposed) == IF exposed THEN Off ELSE Even(Dir)

LEMMA StartIs ==
  ASSUME NEW e \in BOOLEAN
  PROVE  /\ Start(e) \in SUBSET States /\ Off \subseteq Start(e) /\ Start(e) \subseteq Even(Dir)
         /\ e => Shut(Start(e))
         /\ e => Start(e) = Off
         /\ ~ e => Start(e) = Even(Dir)
  BY EvenIs DEF Start, Off

(* The divisor is written with DLAB on; the switches stay as they are. *)
Latched(A) == {s \in States : s.dlab /\ [s EXCEPT !.dlab = FALSE] \in A}

LEMMA BaudLeads ==
  ASSUME NEW v \in Nat, NEW A \in {Off, Even(Dir)}, NEW e \in BOOLEAN, NEW f \in BOOLEAN,
         e => A = Off
  PROVE  Leads(dw_uart_set_baud(v), A, A, e, f)
  <1> DEFINE a == Op("dlab", TRUE, "")
             b == Div(v)
             c == Op("dlab", FALSE, "")
  <1>1. /\ a \in Accesses /\ b \in Accesses /\ c \in Accesses
        /\ a.op = "dlab" /\ a.on = TRUE /\ b.op = "div" /\ c.op = "dlab" /\ c.on = FALSE
    BY SingleAccess DEF Op, Div, Number, Access
  <1>2. /\ A \in SUBSET States /\ (\A s \in A : ~ s.dlab) /\ (e => Shut(A))
        /\ e => Shut(Latched(A))
    <2>1. A \in SUBSET States /\ (e => Shut(A))
      BY EvenIs DEF Off
    <2>2. \A s \in A : ~ s.dlab
      BY DEF Even, Off
    <2>3. ASSUME e, NEW s \in Latched(A)
          PROVE  ~ s.irq
      <3>1. s \in States /\ [s EXCEPT !.dlab = FALSE] \in Off
        BY <2>3 DEF Latched
      <3>2. ~ [s EXCEPT !.dlab = FALSE].irq
        BY <3>1, EvenIs
      <3> QED
        BY <3>1, <3>2 DEF States
    <2>4. e => Shut(Latched(A))
      BY <2>3 DEF Shut
    <2> QED
      BY <2>1, <2>2, <2>4
  <1>0. \A s \in States : /\ Effect(a, s) = [s EXCEPT !.dlab = TRUE]
                         /\ Effect(c, s) = [s EXCEPT !.dlab = FALSE]
    <2>1. \A on \in BOOLEAN, s \in States : Effect(Op("dlab", on, ""), s) = [s EXCEPT !.dlab = on]
      BY DEF Effect, States, Op, Access
    <2> QED
      BY <2>1, Zenon
  <1> HIDE DEF a, b, c
  <1>3. Fits(a, A, Latched(A), Latched(A), e, f)
    <2>1. ASSUME NEW s \in A
          PROVE  Effect(a, s) \in Latched(A)
      <3>1. s \in States /\ ~ s.dlab
        BY <1>2
      <3>2. Effect(a, s) = [s EXCEPT !.dlab = TRUE]
        BY <1>0, <3>1, Zenon
      <3>3. /\ [s EXCEPT !.dlab = TRUE] \in States /\ [s EXCEPT !.dlab = TRUE].dlab
            /\ [[s EXCEPT !.dlab = TRUE] EXCEPT !.dlab = FALSE] = s
        BY <3>1 DEF States
      <3> QED
        BY <3>2, <3>3 DEF Latched
    <2> QED
      BY <1>1, <1>2, <2>1 DEF Fits
  <1>4. Fits(b, Latched(A), Latched(A), Latched(A), e, f)
    BY <1>1, <1>2, CalmFits DEF Calm, Latched
  <1>5. Fits(c, Latched(A), A, A, e, f)
    <2>1. ASSUME NEW s \in Latched(A)
          PROVE  Effect(c, s) \in A
      <3>1. s \in States /\ [s EXCEPT !.dlab = FALSE] \in A
        BY <2>1 DEF Latched
      <3>2. Effect(c, s) = [s EXCEPT !.dlab = FALSE]
        BY <1>0, <3>1, Zenon
      <3> QED
        BY <3>1, <3>2
    <2> QED
      BY <1>1, <1>2, <2>1 DEF Fits
  <1>6. Leads(<<a, b, c>>, A, A, e, f)
    <2>1. /\ a.op \notin {"unless", "from"} /\ b.op \notin {"unless", "from"}
          /\ c.op \notin {"unless", "from"}
      BY <1>1
    <2> QED
      BY <1>3, <1>4, <1>5, <2>1, ThreeLeads
  <1> QED
    BY <1>6 DEF dw_uart_set_baud, a, b, c

(* Disabling all interrupts leaves everything off. *)
LEMMA DisableLeads ==
  ASSUME NEW e \in BOOLEAN, NEW f \in BOOLEAN
  PROVE  Leads(dw_uart_disable_interrupt, Start(e), Off, e, f)
  <1> DEFINE S == IF e THEN {} ELSE Dir
             a == dw_uart_dis_cbr("tx")
             b == dw_uart_dis_cbr("rx")
             c == <<Irq(FALSE), IntSt(FALSE, "gint"), IntSt(FALSE, "tx"), IntSt(FALSE, "rx")>>
  <1>1. /\ S \in SUBSET Dir /\ (e => S = {}) /\ Start(e) = Even(S)
        /\ S \ {"tx"} \in SUBSET Dir /\ (e => S \ {"tx"} = {}) /\ (S \ {"tx"}) \ {"rx"} = {}
    BY DEF Start, Off, Dir
  <1> HIDE DEF S
  <1>2. Leads(a, Start(e), Even(S \ {"tx"}), e, f)
    BY <1>1, DisLeads DEF Dir
  <1>3. Leads(b, Even(S \ {"tx"}), Off, e, f)
    <2>1. Leads(b, Even(S \ {"tx"}), Even((S \ {"tx"}) \ {"rx"}), e, f)
      BY <1>1, DisLeads DEF Dir
    <2> QED
      BY <1>1, <2>1 DEF Off
  <1>4. /\ Irq(FALSE) \in Accesses /\ IntSt(FALSE, "gint") \in Accesses
        /\ IntSt(FALSE, "tx") \in Accesses /\ IntSt(FALSE, "rx") \in Accesses
    BY SingleAccess DEF Dir
  <1>5. /\ Irq(FALSE).op = "irq" /\ ~ Irq(FALSE).on
        /\ \A x : IntSt(FALSE, x).op = "int_status" /\ ~ IntSt(FALSE, x).on
    BY DEF Irq, IntSt, Op, Access
  <1>6. Framed(a) /\ Framed(b) /\ Framed(c)
    <2>1. Framed(a) /\ Framed(b)
      BY CbrFramed DEF Dir
    <2>2. Framed(c)
      BY <1>4, <1>5, ShortFramed DEF Straight
    <2> QED
      BY <2>1, <2>2
  <1>7. Leads(c, Off, Off, e, f)
    <2>1. /\ Fits(Irq(FALSE), Off, Off, Off, e, f) /\ Fits(IntSt(FALSE, "gint"), Off, Off, Off, e, f)
          /\ Fits(IntSt(FALSE, "tx"), Off, Off, Off, e, f)
          /\ Fits(IntSt(FALSE, "rx"), Off, Off, Off, e, f)
      BY <1>4, <1>5, OffFits
    <2>2. /\ Len(c) = 4 /\ c[1] = Irq(FALSE) /\ c[2] = IntSt(FALSE, "gint")
          /\ c[3] = IntSt(FALSE, "tx") /\ c[4] = IntSt(FALSE, "rx")
      OBVIOUS
    <2> HIDE DEF c
    <2>3. ASSUME NEW i \in 1 .. Len(c)
          PROVE  Fits(c[i], Off, Off, Off, e, f)
      <3>1. i = 1 \/ i = 2 \/ i = 3 \/ i = 4
        BY <2>2
      <3> QED
        BY <2>1, <2>2, <3>1
    <2> QED
      BY <1>6, <2>3, ConstLeads DEF Framed
  <1> HIDE DEF a, b, c
  <1>8. Leads(a \o b, Start(e), Off, e, f) /\ Framed(a \o b)
    BY <1>2, <1>3, <1>6, ConcatLeads, ConcatFramed
  <1>9. Leads(a \o b \o c, Start(e), Off, e, f)
    BY <1>6, <1>7, <1>8, ConcatLeads
  <1> QED
    BY <1>9 DEF dw_uart_disable_interrupt, a, b, c

(* A condition, and what it may skip. *)
LEMMA UnlessLeads ==
  ASSUME NEW u, <<u>> \in Seq(Accesses), u.op = "unless", NEW b, Framed(b), Len(b) = Jump(u),
         NEW A, NEW B, NEW C, NEW e \in BOOLEAN, NEW f \in BOOLEAN,
         Fits(u, A, B, C, e, f), Leads(b, B, C, e, f)
  PROVE  Leads(<<u>> \o b, A, C, e, f)
  <1> DEFINE n == Len(b)
             q == <<u>> \o b
  <1>1. PICK lb : Outlined(b, lb, e, f) /\ B \subseteq lb[1] /\ lb[n + 1] = C
    BY DEF Leads
  <1>2. /\ n \in Nat /\ Len(q) = n + 1 /\ q[1] = u /\ \A i \in 1 .. n : q[i + 1] = b[i]
    <2>1. <<u>> \in Seq(Accesses) /\ b \in Seq(Accesses)
      BY DEF Framed
    <2> DEFINE v == <<u>>
    <2>2. Len(v) = 1 /\ v[1] = u
      OBVIOUS
    <2> HIDE DEF v
    <2>3. /\ Len(b) \in Nat /\ Len(v \o b) = 1 + Len(b)
          /\ \A i \in 1 .. 1 : (v \o b)[i] = v[i]
          /\ \A i \in 1 .. Len(b) : (v \o b)[i + 1] = b[i]
      BY <2>1, <2>2, ConcatIs DEF v
    <2> QED
      BY <2>2, <2>3 DEF v
  <1> DEFINE lab == [i \in 1 .. n + 12 |-> IF i = 1 THEN A ELSE lb[i - 1]]
  <1>3. lab[1] = A /\ \A i \in 1 .. n + 10 : lab[i + 1] = lb[i]
    <2>1. \A i \in 1 .. n + 10 : i + 1 \in 1 .. n + 12 /\ i + 1 # 1 /\ i + 1 - 1 = i
      BY <1>2
    <2> QED
      BY <1>2, <2>1
  <1> HIDE DEF lab, q
  <1>4. Fits(q[1], lab[1], lab[1 + 1], lab[1 + 1 + Jump(q[1])], e, f)
    <2>1. 1 \in 1 .. n + 10 /\ n + 1 \in 1 .. n + 10 /\ 1 + 1 + n = n + 1 + 1
      BY <1>2
    <2>2. lab[1 + 1] = lb[1] /\ lab[1 + 1 + n] = C
      BY <1>1, <1>3, <2>1
    <2>3. B \subseteq lab[1 + 1] /\ C \subseteq lab[1 + 1 + n] /\ Jump(q[1]) = n
      BY <1>1, <1>2, <2>2
    <2> QED
      BY <1>2, <1>3, <2>3, FitsMore
  <1>5. ASSUME NEW i \in 1 .. n
        PROVE  Fits(q[i + 1], lab[i + 1], lab[i + 1 + 1], lab[i + 1 + 1 + Jump(q[i + 1])], e, f)
    <2> DEFINE j == Jump(b[i])
    <2>1. j \in {2, 8} /\ q[i + 1] = b[i]
      BY <1>2, JumpIs
    <2>2. Fits(b[i], lb[i], lb[i + 1], lb[i + 1 + j], e, f)
      BY <1>1 DEF Outlined
    <2> HIDE DEF j, n
    <2>3. /\ i \in 1 .. n + 10 /\ i + 1 \in 1 .. n + 10 /\ i + 1 + j \in 1 .. n + 10
          /\ i + 1 + 1 + j = (i + 1 + j) + 1
      BY <1>2, <2>1
    <2> QED
      BY <1>3, <2>1, <2>2, <2>3 DEF j
  <1> HIDE DEF n
  <1>6. ASSUME NEW i \in 1 .. n + 1
        PROVE  Fits(q[i], lab[i], lab[i + 1], lab[i + 1 + Jump(q[i])], e, f)
    <2>1. CASE i = 1
      BY <1>4, <2>1
    <2>2. CASE i # 1
      <3>1. i - 1 \in 1 .. n /\ i - 1 + 1 = i
        BY <1>2, <2>2
      <3> QED
        BY <1>5, <3>1
    <2> QED
      BY <2>1, <2>2
  <1>7. Outlined(q, lab, e, f)
    BY <1>2, <1>6 DEF Outlined
  <1>8. lab[n + 1 + 1] = C
    <2>1. n + 1 \in 1 .. n + 10
      BY <1>2
    <2> QED
      BY <1>1, <1>3, <2>1
  <1> QED
    BY <1>2, <1>3, <1>7, <1>8 DEF Leads, q

(* An abort, with its interrupt in use or with everything off. *)
LEMMA AbortIs ==
  ASSUME NEW d \in Dir
  PROVE  LET b == dw_uart_dis_cbr(d)
             c == <<Status(TRUE, Abrt(d)), Callback(d), Status(FALSE, Abrt(d))>>
         IN  /\ dw_uart_abort(d) = <<Unless(d)>> \o (b \o c)
             /\ Framed(b) /\ Framed(c) /\ Framed(b \o c) /\ Len(b \o c) = 8
             /\ Unless(d).op = "unless" /\ Unless(d).what = d /\ Jump(Unless(d)) = 8
             /\ <<Unless(d)>> \in Seq(Accesses)
             /\ Status(TRUE, Abrt(d)) \in Accesses /\ Status(TRUE, Abrt(d)).op = "status"
             /\ Status(FALSE, Abrt(d)) \in Accesses /\ Status(FALSE, Abrt(d)).op = "status"
             /\ Callback(d) \in Accesses /\ Callback(d).op = "callback"
  <1> DEFINE b == dw_uart_dis_cbr(d)
             c == <<Status(TRUE, Abrt(d)), Callback(d), Status(FALSE, Abrt(d))>>
             u == <<Unless(d)>>
  <1>1. Framed(b) /\ Len(b) = 5
    BY CbrFramed
  <1>2. /\ Status(TRUE, Abrt(d)) \in Accesses /\ Status(TRUE, Abrt(d)).op = "status"
        /\ Status(FALSE, Abrt(d)) \in Accesses /\ Status(FALSE, Abrt(d)).op = "status"
        /\ Callback(d) \in Accesses /\ Callback(d).op = "callback"
    BY SingleAccess DEF Status, Callback, Op, Access, Flags, Abrt
  <1>3. Framed(c) /\ Len(c) = 3
    BY <1>2, ShortFramed DEF Straight
  <1>4. /\ Unless(d).op = "unless" /\ Unless(d).what = d /\ Jump(Unless(d)) = 8
    BY DEF Unless, Op, Access, Jump, Skipped
  <1>5. u \in Seq(Accesses)
    <2>1. Unless(d) \in Accesses
      BY SingleAccess DEF Conditions
    <2> QED
      BY <2>1
  <1>6. dw_uart_abort(d) = (u \o b) \o c
    BY DEF dw_uart_abort
  <1> HIDE DEF b, c, u
  <1>7. b \in Seq(Accesses) /\ c \in Seq(Accesses)
    BY <1>1, <1>3 DEF Framed
  <1>8. (u \o b) \o c = u \o (b \o c)
    BY <1>5, <1>7, ConcatAssociative
  <1>9. Framed(b \o c)
    BY <1>1, <1>3, ConcatFramed
  <1>10. Len(b \o c) = 8
    <2>1. Len(b \o c) = Len(b) + Len(c)
      BY <1>7, ConcatIs
    <2> QED
      BY <1>1, <1>3, <2>1
  <1> QED
    BY <1>1, <1>2, <1>3, <1>4, <1>5, <1>6, <1>8, <1>9, <1>10 DEF b, c, u

LEMMA AbortLeads ==
  ASSUME NEW d \in Dir, NEW e \in BOOLEAN, NEW f \in BOOLEAN
  PROVE  /\ (e => ~ f) => Leads(dw_uart_abort(d), IF e THEN Even({d}) ELSE Even(Dir), Start(e), e, f)
         /\ Leads(dw_uart_abort(d), Off, Off, e, f)
  <1> DEFINE b == dw_uart_dis_cbr(d)
             c == <<Status(TRUE, Abrt(d)), Callback(d), Status(FALSE, Abrt(d))>>
             u == Unless(d)
             S == IF e THEN {d} ELSE Dir
             T == Start(e)
  <1>1. /\ dw_uart_abort(d) = <<u>> \o (b \o c) /\ <<u>> \in Seq(Accesses)
        /\ Framed(b) /\ Framed(c) /\ Framed(b \o c) /\ Len(b \o c) = Jump(u)
        /\ u.op = "unless" /\ u.what = d
        /\ Status(TRUE, Abrt(d)) \in Accesses /\ Status(TRUE, Abrt(d)).op = "status"
        /\ Status(FALSE, Abrt(d)) \in Accesses /\ Status(FALSE, Abrt(d)).op = "status"
        /\ Callback(d) \in Accesses /\ Callback(d).op = "callback"
    BY AbortIs
  <1>2. /\ T \in SUBSET States /\ Off \subseteq T /\ T \subseteq Even(Dir)
        /\ (e => Shut(T)) /\ (e => T = Off) /\ (~ e => T = Even(Dir))
    BY StartIs
  <1> HIDE DEF T
  <1>3. S \in SUBSET Dir /\ (e => S = {d}) /\ (~ e => S = Dir)
    OBVIOUS
  <1>4. Even(S \ {d}) \subseteq T
    <2>1. CASE e
      BY <1>2, <1>3, <2>1 DEF Off
    <2>2. CASE ~ e
      BY <1>2, <1>3, <2>2, EvenIs
    <2> QED
      BY <2>1, <2>2
  <1>5. ASSUME e => ~ f
        PROVE  Leads(b, Even(S), T, e, f)
    <2>1. Leads(b, Even(S), Even(S \ {d}), e, f)
      BY <1>3, <1>5, DisLeads
    <2> QED
      BY <1>1, <1>4, <2>1, MoreLeads
  <1>6. ASSUME e => ~ f
        PROVE  Leads(c, T, T, e, f)
    <2>1. /\ Fits(Status(TRUE, Abrt(d)), T, T, T, e, f)
          /\ Fits(Status(FALSE, Abrt(d)), T, T, T, e, f)
      BY <1>1, <1>2, CalmFits DEF Calm
    <2>2. Fits(Callback(d), T, T, T, e, f)
      BY <1>1, <1>2, <1>6 DEF Fits
    <2>3. /\ Status(TRUE, Abrt(d)).op \notin {"unless", "from"}
          /\ Status(FALSE, Abrt(d)).op \notin {"unless", "from"}
          /\ Callback(d).op \notin {"unless", "from"}
      BY <1>1
    <2> QED
      BY <2>1, <2>2, <2>3, ThreeLeads
  <1>7. ASSUME e => ~ f
        PROVE  Fits(u, Even(S), Even(S), T, e, f)
    <2>1. ASSUME NEW s \in Even(S)
          PROVE  s \in IF HoldsIn(d, s) THEN T ELSE Even(S)
      <3>1. HoldsIn(d, s) <=> d \notin s.int
        BY DEF HoldsIn, Dir
      <3>2. CASE d \notin s.int
        <4>1. CASE e
          BY <1>2, <1>3, <2>1, <3>2, <4>1 DEF Even, Off
        <4>2. CASE ~ e
          BY <1>2, <1>3, <2>1, <4>2
        <4> QED
          BY <4>1, <4>2
      <3> QED
        BY <2>1, <3>1, <3>2
    <2> QED
      BY <1>1, <1>3, <1>7, <2>1 DEF Fits
  <1> HIDE DEF b, c, u, S
  <1>8. ASSUME e => ~ f
        PROVE  Leads(dw_uart_abort(d), Even(S), T, e, f)
    <2>1. Leads(b \o c, Even(S), T, e, f)
      BY <1>1, <1>5, <1>6, <1>8, ConcatLeads
    <2> QED
      BY <1>1, <1>7, <1>8, <2>1, UnlessLeads
  <1>9. Leads(dw_uart_abort(d), Off, Off, e, f)
    <2>1. Fits(u, Off, {}, Off, e, f)
      <3>1. ASSUME NEW s \in Off
            PROVE  HoldsIn(u.what, s)
        <4>1. s.int = {}
          BY EvenIs
        <4> QED
          BY <1>1, <4>1 DEF HoldsIn, Dir
      <3>2. Shut(Off)
        BY EvenIs
      <3> QED
        BY <1>1, <3>1, <3>2 DEF Fits
    <2>2. Leads(b \o c, {}, Off, e, f)
      BY <1>1, NothingLeads DEF Framed
    <2> QED
      BY <1>1, <2>1, <2>2, UnlessLeads
  <1> QED
    BY <1>8, <1>9 DEF S, T

(* Calls that leave the switches alone. *)
LEMMA CalmLeads ==
  ASSUME NEW q, Framed(q), Of(q, Calm), NEW A \in SUBSET States,
         NEW e \in BOOLEAN, NEW f \in BOOLEAN, e => Shut(A)
  PROVE  Leads(q, A, A, e, f)
  <1>1. q \in Seq(Accesses) /\ \A i \in 1 .. Len(q) : q[i] \in Accesses /\ q[i].op \in Calm
    BY ElementOfSeq DEF Framed, Of
  <1>2. \A i \in 1 .. Len(q) : Fits(q[i], A, A, A, e, f)
    BY <1>1, CalmFits
  <1> QED
    BY <1>1, <1>2, ConstLeads

LEMMA CalmCalls ==
  /\ Of(dw_uart_flush_output, Calm) /\ Of(ClearAll, Calm)
  /\ \A on, g : Of(<<Status(on, g)>>, Calm)
  /\ \A d : Of(<<ClearBuf(d)>>, Calm)
  /\ \A d, n : Of(<<Access("buffer", TRUE, d, n)>>, Calm)
  /\ \A n : Of(<<Number("baudrate", n)>>, Calm)
  /\ \A n \in Nat : \A m : Of([k \in 1 .. n |-> Number("write", m + k - 1)], Calm)
  /\ \A n \in Nat : Of([k \in 1 .. n |-> Op("read", TRUE, "")], Calm)
  <1>1. \A a : a.op \in Calm => Of(<<a>>, Calm)
    BY DEF Of
  <1>2. \A a, b, c : a.op \in Calm /\ b.op \in Calm /\ c.op \in Calm => Of(<<a, b, c>>, Calm)
    BY DEF Of
  <1>3. \A a, b, c, e : a.op \in Calm /\ b.op \in Calm /\ c.op \in Calm /\ e.op \in Calm
                          => Of(<<a, b, c, e>>, Calm)
    BY DEF Of
  <1>4. /\ \A on, g : Status(on, g).op \in Calm
        /\ \A d : ClearBuf(d).op \in Calm
        /\ \A d, n : Access("buffer", TRUE, d, n).op \in Calm
        /\ \A n : Number("baudrate", n).op \in Calm /\ Number("write", n).op \in Calm
        /\ \A k \in {"from", "rest", "drained", "clear cbs", "read"} : Op(k, TRUE, "").op \in Calm
    BY DEF Status, ClearBuf, Access, Number, Op, Calm
  <1>5. Of(dw_uart_flush_output, Calm)
    BY <1>3, <1>4 DEF dw_uart_flush_output
  <1>6. Of(ClearAll, Calm)
    BY <1>2, <1>4 DEF ClearAll
  <1>7. /\ \A on, g : Of(<<Status(on, g)>>, Calm)
        /\ \A d : Of(<<ClearBuf(d)>>, Calm)
        /\ \A d, n : Of(<<Access("buffer", TRUE, d, n)>>, Calm)
        /\ \A n : Of(<<Number("baudrate", n)>>, Calm)
    BY <1>1, <1>4
  <1>8. ASSUME NEW n \in Nat, NEW m
        PROVE  Of([k \in 1 .. n |-> Number("write", m + k - 1)], Calm)
    <2> DEFINE s == [k \in 1 .. n |-> Number("write", m + k - 1)]
    <2>1. Len(s) = n /\ \A i \in 1 .. n : s[i] = Number("write", m + i - 1)
      OBVIOUS
    <2> HIDE DEF s
    <2>2. Of(s, Calm)
      BY <1>4, <2>1 DEF Of
    <2> QED
      BY <2>2 DEF s
  <1>9. ASSUME NEW n \in Nat
        PROVE  Of([k \in 1 .. n |-> Op("read", TRUE, "")], Calm)
    <2> DEFINE s == [k \in 1 .. n |-> Op("read", TRUE, "")]
    <2>1. Len(s) = n /\ \A i \in 1 .. n : s[i] = Op("read", TRUE, "")
      OBVIOUS
    <2> HIDE DEF s
    <2>2. Of(s, Calm)
      BY <1>4, <2>1 DEF Of
    <2> QED
      BY <2>2 DEF s
  <1> QED
    BY <1>5, <1>6, <1>7, <1>8, <1>9

(* The device is set up, enabled and disabled. *)
LEMMA DeviceLeads ==
  ASSUME NEW A \in {Off, Even(Dir)}, NEW e \in BOOLEAN, NEW f \in BOOLEAN, e => A = Off
  PROVE  /\ \A v \in Nat, b \in Bauds : Leads(dw_uart_set_baud(v) \o <<Number("baudrate", b)>>, A, A, e, f)
         /\ \A v \in Nat : Leads(dw_uart_set_baud(v) \o <<Status(TRUE, "ENABLED")>>, A, A, e, f)
         /\ Leads(dw_uart_disable_device, A, A, e, f)
  <1>1. \A v \in Nat : Leads(dw_uart_set_baud(v), A, A, e, f) /\ Framed(dw_uart_set_baud(v))
    BY BaudLeads, BaudFramed
  <1>2. A \in SUBSET States /\ (e => Shut(A))
    BY EvenIs DEF Off
  <1>3. \A q : Framed(q) /\ Of(q, Calm) => Leads(q, A, A, e, f)
    BY <1>2, CalmLeads
  <1>4. /\ Framed(<<Status(TRUE, "ENABLED")>>) /\ Framed(<<Status(FALSE, "ENABLED")>>)
        /\ Of(<<Status(TRUE, "ENABLED")>>, Calm) /\ Of(<<Status(FALSE, "ENABLED")>>, Calm)
    BY DeviceFramed, CalmCalls DEF Flags
  <1>5. \A b \in Bauds : Framed(<<Number("baudrate", b)>>) /\ Of(<<Number("baudrate", b)>>, Calm)
    <2> SUFFICES ASSUME NEW b \in Bauds
                 PROVE  Framed(<<Number("baudrate", b)>>)
      BY CalmCalls
    <2>1. Number("baudrate", b) \in Accesses /\ Number("baudrate", b).op = "baudrate"
      BY SingleAccess, UartAssumption DEF Number, Access
    <2> QED
      BY <2>1, ShortFramed DEF Straight
  <1>6. \A v \in Nat, b \in Bauds : Leads(dw_uart_set_baud(v) \o <<Number("baudrate", b)>>, A, A, e, f)
    BY <1>1, <1>3, <1>5, ConcatLeads
  <1>7. \A v \in Nat : Leads(dw_uart_set_baud(v) \o <<Status(TRUE, "ENABLED")>>, A, A, e, f)
    BY <1>1, <1>3, <1>4, ConcatLeads
  <1>8. Leads(dw_uart_disable_device, A, A, e, f)
    BY <1>1, <1>3, <1>4, ConcatLeads DEF dw_uart_disable_device
  <1> QED
    BY <1>6, <1>7, <1>8

LEMMA OpenLeads ==
  ASSUME NEW v \in Nat, NEW e \in BOOLEAN, NEW f \in BOOLEAN
  PROVE  Leads(dw_uart_init(v) \o <<Status(TRUE, "ENABLED")>> \o dw_uart_disable_interrupt \o ClearAll,
               Off, Even(Dir), e, f)
  <1> DEFINE r == <<Op("reset", TRUE, "")>>
             s == dw_uart_set_baud(v)
             b == <<Status(TRUE, "ENABLED")>>
             c == dw_uart_disable_interrupt
             k == ClearAll
  <1>1. Off \in SUBSET States /\ Shut(Off) /\ Off \subseteq Even(Dir)
    BY EvenIs DEF Off
  <1>2. Framed(r) /\ Leads(r, Off, Off, e, f)
    <2>1. Op("reset", TRUE, "") \in Accesses /\ Op("reset", TRUE, "").op = "reset"
      BY SingleAccess DEF Op, Access
    <2>2. Fits(Op("reset", TRUE, ""), Off, Off, Off, e, f)
      BY <2>1, OffFits
    <2> QED
      BY <2>1, <2>2, SingleLeads, ShortFramed DEF Straight
  <1>3. Framed(s) /\ Leads(s, Off, Off, e, f)
    BY BaudFramed, BaudLeads
  <1>4. Framed(b) /\ Framed(k) /\ Leads(b, Off, Off, e, f) /\ Leads(k, Off, Off, e, f)
    BY <1>1, DeviceFramed, CalmCalls, CalmLeads DEF Flags
  <1>5. Framed(c) /\ Leads(c, Off, Off, e, f)
    BY DisableFramed, DisableLeads, LessLeads, StartIs
  <1> HIDE DEF r, s, b, c, k
  <1>6. Framed(r \o s) /\ Leads(r \o s, Off, Off, e, f)
    BY <1>2, <1>3, ConcatFramed, ConcatLeads
  <1>7. Framed(r \o s \o b) /\ Leads(r \o s \o b, Off, Off, e, f)
    BY <1>4, <1>6, ConcatFramed, ConcatLeads
  <1>8. Framed(r \o s \o b \o c) /\ Leads(r \o s \o b \o c, Off, Off, e, f)
    BY <1>5, <1>7, ConcatFramed, ConcatLeads
  <1>9. Framed(r \o s \o b \o c \o k) /\ Leads(r \o s \o b \o c \o k, Off, Off, e, f)
    BY <1>4, <1>8, ConcatFramed, ConcatLeads
  <1>10. Leads(r \o s \o b \o c \o k, Off, Even(Dir), e, f)
    BY <1>1, <1>9, MoreLeads
  <1> QED
    BY <1>10 DEF dw_uart_init, r, s, b, c, k

LEMMA CloseLeads ==
  ASSUME NEW r, r = dw_uart_disable_device \/ r = <<>>, NEW e \in BOOLEAN, NEW f \in BOOLEAN
  PROVE  Leads(dw_uart_disable_interrupt \o dw_uart_abort("tx") \o dw_uart_abort("rx")
                 \o dw_uart_flush_output \o ClearAll \o r \o <<Status(FALSE, "ENABLED")>>,
               Start(e), Off, e, f)
  <1> DEFINE a == dw_uart_disable_interrupt
             b == dw_uart_abort("tx")
             c == dw_uart_abort("rx")
             m == dw_uart_flush_output
             k == ClearAll
             g == <<Status(FALSE, "ENABLED")>>
  <1>1. /\ Framed(a) /\ Framed(b) /\ Framed(c) /\ Framed(m) /\ Framed(k) /\ Framed(g) /\ Framed(r)
    BY DeviceFramed, DisableFramed, AbortFramed, FlushFramed, ShortFramed DEF Flags, Dir
  <1>2. Leads(a, Start(e), Off, e, f)
    BY DisableLeads
  <1>3. Leads(b, Off, Off, e, f) /\ Leads(c, Off, Off, e, f)
    BY AbortLeads DEF Dir
  <1>4. /\ Leads(m, Off, Off, e, f) /\ Leads(k, Off, Off, e, f) /\ Leads(g, Off, Off, e, f)
        /\ Leads(r, Off, Off, e, f)
    <2>1. Off \in SUBSET States /\ Shut(Off) /\ Of(m, Calm) /\ Of(k, Calm) /\ Of(g, Calm)
      BY EvenIs, CalmCalls DEF Off
    <2>2. Leads(m, Off, Off, e, f) /\ Leads(k, Off, Off, e, f) /\ Leads(g, Off, Off, e, f)
      BY <1>1, <2>1, CalmLeads
    <2>3. Leads(r, Off, Off, e, f)
      BY DeviceLeads, EmptyLeads
    <2> QED
      BY <2>2, <2>3
  <1> HIDE DEF a, b, c, m, k, g
  <1>5. Framed(a \o b) /\ Leads(a \o b, Start(e), Off, e, f)
    BY <1>1, <1>2, <1>3, ConcatFramed, ConcatLeads
  <1>6. Framed(a \o b \o c) /\ Leads(a \o b \o c, Start(e), Off, e, f)
    BY <1>1, <1>3, <1>5, ConcatFramed, ConcatLeads
  <1>7. Framed(a \o b \o c \o m) /\ Leads(a \o b \o c \o m, Start(e), Off, e, f)
    BY <1>1, <1>4, <1>6, ConcatFramed, ConcatLeads
  <1>8. Framed(a \o b \o c \o m \o k) /\ Leads(a \o b \o c \o m \o k, Start(e), Off, e, f)
    BY <1>1, <1>4, <1>7, ConcatFramed, ConcatLeads
  <1>9. Framed(a \o b \o c \o m \o k \o r) /\ Leads(a \o b \o c \o m \o k \o r, Start(e), Off, e, f)
    BY <1>1, <1>4, <1>8, ConcatFramed, ConcatLeads
  <1>10. Leads(a \o b \o c \o m \o k \o r \o g, Start(e), Off, e, f)
    BY <1>1, <1>4, <1>9, ConcatLeads
  <1> QED
    BY <1>10 DEF a, b, c, m, k, g

(* What a callback does, and what the routine does about a full buffer. *)
LEMMA ReactionLeads ==
  ASSUME NEW d \in Dir, NEW r \in Reactions(d),
         NEW e \in BOOLEAN, ~ e, NEW f \in BOOLEAN
  PROVE  Leads(r, Even(Dir), Even(Dir), e, f)
  <1>1. r = <<>> \/ r = dw_uart_dis_cbr(d) \/ \E x \in Dir, n \in Lens : r = Arm(x, n)
    BY DEF Reactions
  <1>2. CASE r = <<>>
    BY <1>2, EmptyLeads
  <1>3. CASE r = dw_uart_dis_cbr(d)
    <2>1. Leads(r, Even(Dir), Even(Dir \ {d}), e, f) /\ Framed(r)
      BY <1>3, DisLeads, CbrFramed
    <2>2. Even(Dir \ {d}) \subseteq Even(Dir)
      BY EvenIs
    <2> QED
      BY <2>1, <2>2, MoreLeads
  <1>4. ASSUME NEW x \in Dir, NEW n \in Lens, r = Arm(x, n)
        PROVE  Leads(r, Even(Dir), Even(Dir), e, f)
    <2> DEFINE a == <<Access("buffer", TRUE, x, n)>>
               b == dw_uart_ena_cbr(x)
    <2>1. Framed(a)
      <3>1. Access("buffer", TRUE, x, n) \in Accesses /\ Access("buffer", TRUE, x, n).op = "buffer"
        BY UartAssumption, SingleAccess DEF Access
      <3> QED
        BY <3>1, ShortFramed DEF Straight
    <2>2. Leads(a, Even(Dir), Even(Dir), e, f)
      BY <2>1, EvenIs, CalmCalls, CalmLeads
    <2>3. Leads(b, Even(Dir), Even(Dir), e, f) /\ Framed(b)
      <3>1. Leads(b, Start(e), Even(Dir), e, f)
        BY EnaLeads DEF Start
      <3> QED
        BY <3>1, StartIs, CbrFramed
    <2> HIDE DEF a, b
    <2>4. Leads(a \o b, Even(Dir), Even(Dir), e, f)
      BY <2>1, <2>2, <2>3, ConcatLeads
    <2> QED
      BY <1>4, <2>4 DEF Arm, a, b
  <1> QED
    BY <1>1, <1>2, <1>3, <1>4

LEMMA EndedLeads ==
  ASSUME NEW d \in Dir, NEW S \in SUBSET Dir,
         NEW e \in BOOLEAN, ~ e, NEW f \in BOOLEAN, f => S = Dir
  PROVE  /\ Leads(dw_uart_dis_cbr(d) \o <<Callback(d), ClearBuf(d)>>, Even(S), Even(S), e, f)
         /\ Leads(<<Callback(d)>>, Even(S), Even(S), e, f)
  <1> DEFINE a == dw_uart_dis_cbr(d)
             b == <<Callback(d), ClearBuf(d)>>
  <1>1. /\ Callback(d) \in Accesses /\ Callback(d).op = "callback"
        /\ ClearBuf(d) \in Accesses /\ ClearBuf(d).op = "clear"
    BY SingleAccess DEF Callback, ClearBuf, Op, Access
  <1>2. Even(S) \subseteq States /\ Even(S \ {d}) \subseteq Even(S)
    BY EvenIs
  <1>3. Fits(Callback(d), Even(S), Even(S), Even(S), e, f)
    BY <1>1 DEF Fits
  <1>4. Fits(ClearBuf(d), Even(S), Even(S), Even(S), e, f)
    BY <1>1, <1>2, CalmFits DEF Calm
  <1>5. Framed(a) /\ Leads(a, Even(S), Even(S), e, f)
    <2>1. Framed(a) /\ Leads(a, Even(S), Even(S \ {d}), e, f)
      BY DisLeads, CbrFramed
    <2> QED
      BY <1>2, <2>1, MoreLeads
  <1>6. Framed(b) /\ Leads(b, Even(S), Even(S), e, f)
    <2>1. Len(b) = 2 /\ b[1] = Callback(d) /\ b[2] = ClearBuf(d) /\ b \in Seq(Accesses)
      BY <1>1
    <2> HIDE DEF b
    <2>2. ASSUME NEW i \in 1 .. Len(b)
          PROVE  Fits(b[i], Even(S), Even(S), Even(S), e, f) /\ b[i].op \notin {"unless", "from", "rest"}
      <3>1. i = 1 \/ i = 2
        BY <2>1
      <3> QED
        BY <1>1, <1>3, <1>4, <2>1, <3>1
    <2> QED
      BY <2>1, <2>2, ConstLeads, StraightFramed
  <1>7. Leads(<<Callback(d)>>, Even(S), Even(S), e, f)
    BY <1>1, <1>3, SingleLeads
  <1> HIDE DEF a, b
  <1>8. Leads(a \o b, Even(S), Even(S), e, f)
    BY <1>5, <1>6, ConcatLeads
  <1> QED
    BY <1>7, <1>8 DEF a, b

(* ------------------------- a queue and its outline ---------------------- *)

(* The accesses of x still lead from where the switches are to C. *)
Free == cbs # {}
Moves(x) == \A C : \A e \in BOOLEAN : Leads(todo[x], {Switches}, C, e, Free)
                                         => Leads(todo'[x], {Switches'}, C, e, Free')

LEMMA SwitchesIs == UInv => Switches \in States
  BY DEF UInv, Words, States, Switches

LEMMA TailLeads ==
  ASSUME NEW q \in Seq(Accesses), q # <<>>, NEW s, NEW C, NEW e \in BOOLEAN, NEW f \in BOOLEAN,
         Leads(q, {s}, C, e, f)
  PROVE  /\ q[1].op \notin {"unless", "callback"} => Leads(Tail(q), {Effect(q[1], s)}, C, e, f)
         /\ q[1].op = "unless" /\ ~ HoldsIn(q[1].what, s) => Leads(Tail(q), {s}, C, e, f)
         /\ \/ q[1].op = "unless" /\ HoldsIn(q[1].what, s)
            \/ q[1].op = "from"
            => (1 + Jump(q[1]) <= Len(q) => Leads(Drop(q, 1 + Jump(q[1])), {s}, C, e, f))
  <1> DEFINE a == q[1]
             p == Drop(q, 1 + Jump(q[1]))
             more == 1 + Jump(q[1]) <= Len(q)
  <1>1. PICK L, M, J : /\ {s} \subseteq L /\ Fits(a, L, M, J, e, f)
                       /\ Leads(Tail(q), M, C, e, f)
                       /\ more => Leads(p, J, C, e, f)
    BY LeadsOn
  <1> HIDE DEF a, p, more
  <1>2. s \in L
    BY <1>1
  <1>7. ASSUME NEW r, NEW K, NEW D, Leads(r, K, C, e, f), D \subseteq K
        PROVE  Leads(r, D, C, e, f)
    BY <1>7, LessLeads
  <1>3. a.op \notin {"unless", "callback"} => Leads(Tail(q), {Effect(a, s)}, C, e, f)
    <2> SUFFICES ASSUME a.op \notin {"unless", "callback"}
                 PROVE  Leads(Tail(q), {Effect(a, s)}, C, e, f)
      OBVIOUS
    <2>1. {Effect(a, s)} \subseteq M
      BY <1>1, <1>2 DEF Fits
    <2> QED
      BY <1>1, <1>7, <2>1
  <1>4. a.op = "unless" /\ ~ HoldsIn(a.what, s) => Leads(Tail(q), {s}, C, e, f)
    <2> SUFFICES ASSUME a.op = "unless", ~ HoldsIn(a.what, s)
                 PROVE  Leads(Tail(q), {s}, C, e, f)
      OBVIOUS
    <2>1. {s} \subseteq M
      BY <1>1, <1>2 DEF Fits
    <2> QED
      BY <1>1, <1>7, <2>1
  <1>5. (a.op = "unless" /\ HoldsIn(a.what, s)) \/ a.op = "from"
        => (more => Leads(p, {s}, C, e, f))
    <2> SUFFICES ASSUME (a.op = "unless" /\ HoldsIn(a.what, s)) \/ a.op = "from", more
                 PROVE  Leads(p, {s}, C, e, f)
      OBVIOUS
    <2>1. {s} \subseteq J
      BY <1>1, <1>2 DEF Fits
    <2> QED
      BY <1>1, <1>7, <2>1
  <1> QED
    BY <1>3, <1>4, <1>5 DEF a, p, more

LEMMA AnswerLeads ==
  ASSUME NEW q \in Seq(Accesses), q # <<>>, q[1].op = "callback", NEW s, NEW C,
         NEW e \in BOOLEAN, NEW f \in BOOLEAN, Leads(q, {s}, C, e, f)
  PROVE  /\ Leads(Tail(q), {s}, C, e, f)
         /\ f => ~ e /\ s \in Even(Dir) /\ Leads(Tail(q), Even(Dir), C, e, f)
  <1> DEFINE more == 1 + Jump(q[1]) <= Len(q)
             rest == Drop(q, 1 + Jump(q[1]))
  <1>1. PICK L, M, J : /\ {s} \subseteq L /\ Fits(q[1], L, M, J, e, f)
                       /\ Leads(Tail(q), M, C, e, f)
                       /\ more => Leads(rest, J, C, e, f)
    BY LeadsOn
  <1>2. s \in L /\ {s} \subseteq M /\ (f => ~ e /\ L \subseteq Even(Dir) /\ Even(Dir) \subseteq M)
    BY <1>1 DEF Fits
  <1>3. \A K : K \subseteq M => Leads(Tail(q), K, C, e, f)
    BY <1>1, LessLeads
  <1> QED
    BY <1>2, <1>3

(* An access that is done. *)
LEMMA DoneMoves ==
  ASSUME UInv, NEW x \in Context, NEW k, At(x, k), k \notin {"serve", "unless", "callback"},
         Goes(x), Switches' = Effect(Now(x), Switches), cbs' \subseteq cbs
  PROVE  Moves(x)
  <1> DEFINE q == todo[x]
             s == Switches
  <1>1. q # <<>> /\ q \in Seq(Accesses) /\ q[1].op = k /\ Now(x) = q[1]
    <2>1. CASE k = "rest"
      <3>1. q # <<>> /\ q \in Seq(Accesses) /\ Head(q).op = k
        BY <2>1, AtHead DEF UInv, At
      <3>2. Head(q) = q[1]
        BY <3>1, TailIsDrop
      <3> QED
        BY <3>1, <3>2 DEF Now
    <2>2. CASE k # "rest"
      <3>1. k \notin {"serve", "rest"} /\ Queues
        BY <2>2 DEF UInv
      <3>2. q # <<>> /\ Framed(q) /\ Now(x) = q[1] /\ Now(x).op = k
        BY <3>1, AtHead
      <3> QED
        BY <3>2 DEF Framed
    <2> QED
      BY <2>1, <2>2
  <1>2. todo'[x] = Tail(q)
    BY DEF Goes, UInv, Queues
  <1>3. Free' => Free
    BY DEF Free
  <1> HIDE DEF q, s
  <1>4. ASSUME NEW C, NEW e \in BOOLEAN, NEW f \in BOOLEAN, NEW g \in BOOLEAN, g => f,
               Leads(q, {s}, C, e, f)
        PROVE  Leads(Tail(q), {Effect(q[1], s)}, C, e, g)
    <2>1. Leads(Tail(q), {Effect(q[1], s)}, C, e, f)
      BY <1>1, <1>4, TailLeads
    <2>2. CASE g
      BY <1>4, <2>1, <2>2
    <2>3. CASE ~ g
      BY <2>1, <2>3, LessLeads, ZenonT(60)
    <2> QED
      BY <2>2, <2>3
  <1>5. Free \in BOOLEAN /\ Free' \in BOOLEAN
    BY DEF Free
  <1> QED
    BY <1>1, <1>2, <1>3, <1>4, <1>5 DEF Moves, q, s

LEMMA CalmMoves ==
  ASSUME UInv, NEW x \in Context, NEW k \in Calm, At(x, k), Goes(x),
         UNCHANGED <<int_status, ier, irq, dlab>>, cbs' \subseteq cbs
  PROVE  Moves(x)
  <1>1. Switches \in States /\ Switches' = Switches
    BY SwitchesIs DEF Switches
  <1>2. Now(x).op \in Calm
    BY DEF At, Now
  <1>3. ASSUME NEW a, NEW s \in States, a.op \in Calm
        PROVE  Effect(a, s) = s
    <2>1. s = [int |-> s.int, ier |-> s.ier, irq |-> s.irq, dlab |-> s.dlab]
      BY DEF States
    <2> QED
      BY <1>3, <2>1 DEF Effect, Calm
  <1>4. Switches' = Effect(Now(x), Switches)
    BY <1>1, <1>2, <1>3
  <1>5. k \notin {"serve", "unless", "callback"}
    BY DEF Calm
  <1> QED
    BY <1>4, <1>5, DoneMoves

LEMMA SwitchMoves ==
  ASSUME UInv, NEW x \in Context, Store(x) \/ SetIrq(x) \/ SetLine(x),
         Modified(x) = Put(Now(x).what, Now(x).on, Word(x))
  PROVE  Moves(x)
  <1> DEFINE a == Now(x)
  <1>1. cbs' \subseteq cbs /\ Goes(x)
    BY DEF Store, SetIrq, SetLine, Done, info
  <1>2. Switches \in States
    BY SwitchesIs
  <1>3. ASSUME Store(x)
        PROVE  \E k \in {"ier", "int_status"} : At(x, k) /\ Switches' = Effect(a, Switches)
    <2>1. UNCHANGED <<irq, dlab>>
      BY <1>3 DEF Store, line
    <2>2. CASE At(x, "ier")
      <3>1. a.op = "ier" /\ Word(x) = ier
        BY <2>2 DEF At, Now, Word
      <3>2. ier' = (IF dlab THEN ier ELSE Put(a.what, a.on, ier)) /\ int_status' = int_status
        BY <1>3, <2>2, <3>1 DEF Store, At, Now
      <3> QED
        BY <2>1, <2>2, <3>1, <3>2 DEF Switches, Effect
    <2>3. CASE At(x, "int_status")
      <3>1. a.op = "int_status" /\ Word(x) = int_status
        BY <2>3 DEF At, Now, Word
      <3>2. int_status' = Put(a.what, a.on, int_status) /\ ier' = ier
        BY <1>3, <2>3, <3>1 DEF Store, At, Now
      <3> QED
        BY <2>1, <2>3, <3>1, <3>2 DEF Switches, Effect
    <2> QED
      BY <1>3, <2>2, <2>3 DEF Store
  <1>4. ASSUME SetIrq(x)
        PROVE  At(x, "irq") /\ Switches' = Effect(a, Switches)
    <2>1. At(x, "irq") /\ a.op = "irq" /\ irq' = a.on /\ UNCHANGED <<int_status, ier, dlab>>
      BY <1>4 DEF SetIrq, At, Now, line
    <2> QED
      BY <2>1 DEF Switches, Effect
  <1>5. ASSUME SetLine(x)
        PROVE  \E k \in {"dlab", "div", "reset"} : At(x, k) /\ Switches' = Effect(a, Switches)
    <2>1. UNCHANGED <<int_status, irq>>
      BY <1>5 DEF SetLine
    <2>2. CASE At(x, "dlab")
      <3>1. a.op = "dlab" /\ dlab' = a.on /\ UNCHANGED ier
        BY <1>5, <2>2 DEF SetLine, At, Now
      <3> QED
        BY <2>1, <2>2, <3>1 DEF Switches, Effect
    <2>3. CASE At(x, "div")
      <3>1. a.op = "div" /\ UNCHANGED <<dlab, ier>>
        BY <1>5, <2>3 DEF SetLine, At, Now
      <3> QED
        BY <2>1, <2>3, <3>1 DEF Switches, Effect
    <2>4. CASE At(x, "reset")
      <3>1. a.op = "reset" /\ ier' = {} /\ UNCHANGED dlab
        BY <1>5, <2>4 DEF SetLine, At, Now
      <3> QED
        BY <2>1, <2>4, <3>1 DEF Switches, Effect
    <2> QED
      BY <1>5, <2>2, <2>3, <2>4 DEF SetLine
  <1>6. \E k \in {"ier", "int_status", "irq", "dlab", "div", "reset"} :
          At(x, k) /\ Switches' = Effect(a, Switches)
    BY <1>3, <1>4, <1>5
  <1> QED
    BY <1>1, <1>6, DoneMoves

LEMMA TestMoves ==
  ASSUME UInv, NEW x \in Context, Test(x)
  PROVE  Moves(x)
  <1> DEFINE q == todo[x]
             a == q[1]
             s == Switches
             n == IF HoldsIn(a.what, s) THEN 1 + Jump(a) ELSE 1
             t == Drop(q, n)
  <1>1. At(x, "unless") /\ UNCHANGED <<info, ints, line>>
    BY DEF Test
  <1>2. q # <<>> /\ Framed(q) /\ Now(x) = a /\ a.op = "unless"
    <2> DEFINE k == "unless"
    <2>1. At(x, k) /\ k \notin {"serve", "rest"} /\ Queues
      BY <1>1 DEF UInv
    <2> HIDE DEF k
    <2>2. q # <<>> /\ Framed(q) /\ Now(x) = a /\ Now(x).op = k
      BY <2>1, AtHead
    <2> QED
      BY <2>2 DEF k
  <1>3. Holds(a.what) <=> HoldsIn(a.what, s)
    <2>1. int_status \cap Dir # {} <=> Active(s)
      BY DEF Active, Switches
    <2>2. s.int = int_status
      BY DEF Switches
    <2> QED
      BY <2>1, <2>2 DEF Holds, HoldsIn
  <1>4. todo'[x] = t
    <2>1. todo' = [todo EXCEPT ![x] = SubSeq(q, n + 1, Len(q))]
      BY <1>2, <1>3 DEF Test, Jump
    <2> QED
      BY <2>1 DEF UInv, Queues, Drop
  <1>5. 1 + Jump(a) <= Len(q) /\ Tail(q) = Drop(q, 1) /\ q \in Seq(Accesses)
    <2>1. q \in Seq(Accesses) /\ Len(q) \in Nat /\ Len(q) >= 1
      BY <1>2 DEF Framed
    <2>2. 1 \in 1 .. Len(q)
      BY <2>1
    <2>3. SkipsPlain(q, 1)
      BY <1>2, <2>2 DEF Framed
    <2>4. 1 + Jump(a) <= Len(q)
      BY <1>2, <2>3 DEF SkipsPlain, Jump
    <2> QED
      BY <1>2, <2>1, <2>4, TailIsDrop
  <1>6. Switches' = s /\ Free' = Free /\ Free \in BOOLEAN
    BY <1>1 DEF Switches, Free, info, ints, line
  <1>7. t = IF HoldsIn(a.what, s) THEN Drop(q, 1 + Jump(a)) ELSE Tail(q)
    BY <1>5
  <1> HIDE DEF q, s, t
  <1>8. ASSUME NEW C, NEW e \in BOOLEAN, NEW f \in BOOLEAN, Leads(q, {s}, C, e, f)
        PROVE  Leads(t, {s}, C, e, f)
    <2>1. q \in Seq(Accesses) /\ q # <<>> /\ q[1].op = "unless"
      BY <1>2, <1>5
    <2>2. /\ ~ HoldsIn(q[1].what, s) => Leads(Tail(q), {s}, C, e, f)
          /\ HoldsIn(q[1].what, s) => Leads(Drop(q, 1 + Jump(q[1])), {s}, C, e, f)
      BY <1>5, <1>8, <2>1, TailLeads
    <2> QED
      BY <1>7, <2>2
  <1> QED
    BY <1>4, <1>6, <1>8 DEF Moves, q, s, t

LEMMA FromMoves ==
  ASSUME UInv, NEW x \in Context, From(x)
  PROVE  Moves(x)
  <1> DEFINE q == todo[x]
             a == q[1]
             s == Switches
             t == Drop(q, 1 + Jump(a))
  <1>1. At(x, "from") /\ UNCHANGED <<info, ints, line>>
    BY DEF From
  <1>2. CASE buf.tx.set
    <2>1. Goes(x)
      BY <1>2 DEF From
    <2> DEFINE k == "from"
    <2>2. At(x, k) /\ k \in Calm /\ UNCHANGED <<int_status, ier, irq, dlab, cbs>>
      BY <1>1 DEF info, ints, line, Calm
    <2> HIDE DEF k
    <2> QED
      BY <2>1, <2>2, CalmMoves
  <1>3. CASE ~ buf.tx.set
    <2>1. q # <<>> /\ Framed(q) /\ Now(x) = a /\ a.op = "from"
      <3> DEFINE k == "from"
      <3>1. At(x, k) /\ k \notin {"serve", "rest"} /\ Queues
        BY <1>1 DEF UInv
      <3> HIDE DEF k
      <3>2. q # <<>> /\ Framed(q) /\ Now(x) = a /\ Now(x).op = k
        BY <3>1, AtHead
      <3> QED
        BY <3>2 DEF k
    <2>2. todo'[x] = t
      BY <1>3, <2>1 DEF From, UInv, Queues, Drop, Jump
    <2>3. 1 + Jump(a) <= Len(q) /\ q \in Seq(Accesses)
      <3>1. q \in Seq(Accesses) /\ Len(q) \in Nat /\ Len(q) >= 1
        BY <2>1 DEF Framed
      <3>2. 1 \in 1 .. Len(q)
        BY <3>1
      <3>3. FlushWhole(q, 1)
        BY <2>1, <3>2 DEF Framed
      <3> QED
        BY <2>1, <3>1, <3>3 DEF FlushWhole, Jump
    <2>4. Switches' = s /\ Free' = Free /\ Free \in BOOLEAN
      BY <1>1 DEF Switches, Free, info, ints, line
    <2> HIDE DEF q, s, t
    <2>5. ASSUME NEW C, NEW e \in BOOLEAN, NEW f \in BOOLEAN, Leads(q, {s}, C, e, f)
          PROVE  Leads(t, {s}, C, e, f)
      BY <2>1, <2>3, <2>5, TailLeads DEF t
    <2> QED
      BY <2>2, <2>4, <2>5 DEF Moves, q, s
  <1> QED
    BY <1>2, <1>3

LEMMA AnswerMoves ==
  ASSUME NEW q, Framed(q), q # <<>>, q[1].op = "callback", NEW d \in Dir, NEW s, NEW C,
         NEW e \in BOOLEAN, NEW f \in BOOLEAN, Leads(q, {s}, C, e, f),
         NEW u, u = Tail(q) \/ \E r \in Reactions(d) : f /\ u = r \o Tail(q)
  PROVE  Leads(u, {s}, C, e, f)
  <1> DEFINE t == Tail(q)
  <1>1. Framed(t) /\ q \in Seq(Accesses)
    BY GoesOn DEF Framed
  <1>2. /\ Leads(t, {s}, C, e, f)
        /\ f => ~ e /\ s \in Even(Dir) /\ Leads(t, Even(Dir), C, e, f)
    BY <1>1, AnswerLeads
  <1> HIDE DEF t
  <1>3. ASSUME NEW r \in Reactions(d), f, u = r \o t
        PROVE  Leads(u, {s}, C, e, f)
    <2>1. Framed(r) /\ Leads(r, Even(Dir), Even(Dir), e, f)
      BY <1>2, <1>3, ReactionFramed, ReactionLeads
    <2>2. Leads(u, Even(Dir), C, e, f)
      BY <1>1, <1>2, <1>3, <2>1, ConcatLeads
    <2>3. {s} \subseteq Even(Dir)
      BY <1>2, <1>3
    <2>4. \A K : K \subseteq Even(Dir) => Leads(u, K, C, e, f)
      BY <2>2, LessLeads
    <2> QED
      BY <2>3, <2>4
  <1> QED
    BY <1>2, <1>3 DEF t

LEMMA CallBackMoves ==
  ASSUME UInv, NEW x \in Context, CallBack(x)
  PROVE  Moves(x)
  <1> DEFINE k == "callback"
             d == Now(x).what
             q == todo[x]
             s == Switches
  <1>1. At(x, k) /\ UNCHANGED <<info, ints, line>>
    BY DEF CallBack
  <1>2. \/ d \notin cbs /\ Goes(x)
        \/ d \in cbs /\ \E r \in Reactions(d) : todo' = [todo EXCEPT ![x] = r \o Tail(q)]
    BY DEF CallBack
  <1>3. k \notin {"serve", "rest"} /\ Queues
    BY DEF UInv
  <1> HIDE DEF k
  <1>4. q # <<>> /\ Framed(q) /\ Now(x) = q[1] /\ Now(x).op = k /\ Now(x) \in Accesses
    BY <1>1, <1>3, AtHead
  <1>5. q[1].op = "callback" /\ d \in Dir /\ q \in Seq(Accesses)
    BY <1>4 DEF k, Accesses, Framed
  <1>6. Framed(Tail(q))
    BY <1>4, <1>5, GoesOn
  <1> HIDE DEF d
  <1>7. /\ \E r \in Reactions(d) \cup {<<>>} : todo'[x] = r \o Tail(q)
        /\ \/ d \in cbs
           \/ todo'[x] = Tail(q)
    <2>1. DOMAIN todo = Context
      BY <1>3 DEF Queues
    <2>2. CASE d \notin cbs /\ Goes(x)
      <3>1. todo'[x] = Tail(q)
        BY <2>1, <2>2 DEF Goes
      <3>2. Tail(q) = <<>> \o Tail(q)
        BY <1>6, ConcatProperties DEF Framed
      <3> QED
        BY <3>1, <3>2
    <2>3. CASE d \in cbs /\ \E r \in Reactions(d) : todo' = [todo EXCEPT ![x] = r \o Tail(q)]
      BY <2>1, <2>3
    <2> QED
      BY <1>2, <2>2, <2>3
  <1>8. Switches' = s /\ Free' = Free /\ Free \in BOOLEAN /\ (d \in cbs => Free)
    BY <1>1 DEF Switches, Free, info, ints, line
  <1> DEFINE u == todo'[x]
  <1> HIDE DEF q, s, u
  <1>9. u = Tail(q) \/ \E r \in Reactions(d) : Free /\ u = r \o Tail(q)
    <2>1. <<>> \in Reactions(d)
      BY DEF Reactions
    <2> QED
      BY <1>7, <1>8, <2>1 DEF u
  <1>10. ASSUME NEW C, NEW e \in BOOLEAN, Leads(q, {s}, C, e, Free)
         PROVE  Leads(u, {s}, C, e, Free)
    BY <1>4, <1>5, <1>8, <1>9, <1>10, AnswerMoves
  <1> QED
    BY <1>8, <1>10 DEF Moves, q, s, u

LEMMA FlushMoves ==
  ASSUME UInv, NEW x \in Context, FlushRest(x)
  PROVE  Moves(x)
  <1>1. At(x, "rest") /\ UNCHANGED <<int_status, ier, irq, dlab, cbs>>
    BY DEF FlushRest, Send, info, ints, line
  <1>2. CASE UNCHANGED todo
    BY <1>1, <1>2 DEF Moves, Switches, Free
  <1>3. CASE Goes(x)
    <2> DEFINE k == "rest"
    <2>1. At(x, k) /\ k \in Calm
      BY <1>1 DEF Calm
    <2> HIDE DEF k
    <2> QED
      BY <1>1, <1>3, <2>1, CalmMoves
  <1> QED
    BY <1>2, <1>3 DEF FlushRest

(* What the other context sees of a step. *)
LEMMA StepFrame ==
  ASSUME UInv, NEW x \in Context, Step(x)
  PROVE  /\ UNCHANGED <<opn_cnt, masked>> /\ cbs' \subseteq cbs /\ todo[x] # <<>>
         /\ \A y \in Context : y # x => todo'[y] = todo[y] /\ tmp'[y] = tmp[y]
         /\ x = "isr" => UNCHANGED cbs
         /\ x = "thread" => todo["isr"] = <<>>
  <1>1. /\ UNCHANGED <<opn_cnt, masked>> /\ cbs' \subseteq cbs
        /\ cbs' # cbs => At(x, "clear cbs")
        /\ \E k : At(x, k)
    <2>1. CASE Load(x) \/ Store(x) \/ Test(x)
      BY <2>1 DEF Load, Store, Test, info
    <2>2. CASE SetIrq(x) \/ SetLine(x) \/ SetStatus(x) \/ SetBaudrate(x)
      BY <2>2 DEF SetIrq, SetLine, SetStatus, SetBaudrate, Done, info
    <2>3. CASE ClearCbs(x) \/ Clear(x) \/ SetBuf(x) \/ CallBack(x)
      BY <2>3 DEF ClearCbs, Clear, SetBuf, CallBack, Done, info
    <2>4. CASE From(x) \/ FlushRest(x) \/ Drained(x) \/ WriteByte(x) \/ ReadByte(x) \/ Serve(x)
      BY <2>4 DEF From, FlushRest, Drained, WriteByte, ReadByte, Serve, Done, Send, info
    <2> QED
      BY <2>1, <2>2, <2>3, <2>4 DEF Step
  <1>2. DOMAIN todo = Context /\ DOMAIN tmp = Context
    BY DEF UInv, Queues
  <1>3. /\ UNCHANGED todo \/ \E s : todo' = [todo EXCEPT ![x] = s]
        /\ UNCHANGED tmp \/ \E s : tmp' = [tmp EXCEPT ![x] = s]
    <2>1. CASE Load(x) \/ Store(x) \/ Test(x)
      BY <2>1 DEF Load, Store, Test, Goes
    <2>2. CASE SetIrq(x) \/ SetLine(x) \/ SetStatus(x) \/ SetBaudrate(x)
      BY <2>2 DEF SetIrq, SetLine, SetStatus, SetBaudrate, Done, Goes
    <2>3. CASE ClearCbs(x) \/ Clear(x) \/ SetBuf(x) \/ CallBack(x)
      BY <2>3 DEF ClearCbs, Clear, SetBuf, CallBack, Done, Goes
    <2>4. CASE From(x) \/ FlushRest(x) \/ Drained(x) \/ WriteByte(x) \/ ReadByte(x)
      BY <2>4 DEF From, FlushRest, Drained, WriteByte, ReadByte, Done, Goes, Send
    <2>5. CASE Serve(x)
      BY <2>5 DEF Serve
    <2> QED
      BY <2>1, <2>2, <2>3, <2>4, <2>5 DEF Step
  <1>4. todo[x] # <<>> /\ (x = "thread" => todo["isr"] = <<>>)
    BY <1>1 DEF At, IsrRuns
  <1>5. ASSUME x = "isr"
        PROVE  ~ At(x, "clear cbs")
    <2> DEFINE k == "clear cbs"
    <2>1. k \notin {"serve", "rest"} /\ k \notin IsrKinds /\ Queues
      BY DEF IsrKinds, Switching, UInv
    <2> HIDE DEF k
    <2>2. ~ At(x, k)
      BY <1>5, <2>1, AtHead
    <2> QED
      BY <2>2 DEF k
  <1> QED
    BY <1>1, <1>2, <1>3, <1>4, <1>5

(* ----------------------------- the invariant ---------------------------- *)

(* Where a call has to end, and where the routine does. *)
Rest == IF opn_cnt = 0 THEN Off ELSE Even(Dir)
Serving(S) == Leads(todo["isr"], {Switches}, Even(S), FALSE, Free)

(* The thread goes on from where the switches are. *)
ThreadSound == todo["isr"] = <<>> => Leads(todo["thread"], {Switches}, Rest, ~ masked, Free)
(* What the thread has loaded is what it would load now, or makes no       *)
(* difference.                                                             *)
Modifies(x) == todo[x] # <<>> /\ Now(x).op \in {"ier", "int_status"}
LoadedSound == todo["isr"] = <<>> /\ tmp["thread"] # <<>> /\ Modifies("thread")
               => \/ Head(tmp["thread"]) = Word("thread")
                  \/ \E d \in Dir : /\ Now("thread") = Ier(FALSE, d)
                                    /\ Head(tmp["thread"]) \subseteq {d} /\ ier \subseteq {d}
(* The routine runs between calls, or where the thread ends the only       *)
(* transfer of a client without callbacks.                                 *)
Window(d) == /\ todo["thread"] # <<>> /\ Now("thread") \in {Unless(d), Ier(FALSE, d)}
             /\ tmp["thread"] = <<>> \/ Head(tmp["thread"]) \subseteq {d}
             /\ Leads(todo["thread"], Even({d}), Rest, ~ masked, Free)
RoutineSound ==
  todo["isr"] # <<>> =>
    /\ ~ masked
    /\ \/ todo["thread"] = <<>> /\ opn_cnt # 0 /\ Serving(Dir)
       \/ ~ Free /\ \E d \in Dir : Window(d) /\ Serving({d})

BooksInv == UInv /\ ThreadSound /\ LoadedSound /\ RoutineSound

(* -------------------------- every step keeps it ------------------------- *)

(* Looking at the buffers switches nothing. *)
LEMMA ServeLeads ==
  ASSUME NEW d, NEW s \in States, NEW B, NEW e \in BOOLEAN, ~ e, NEW f \in BOOLEAN
  PROVE  Leads(<<Op("serve", TRUE, d)>>, {s}, B, e, f) <=> s \in B
  <1> DEFINE a == Op("serve", TRUE, d)
             q == <<a>>
  <1>1. a.op = "serve" /\ Len(q) = 1 /\ q[1] = a
    BY DEF Op, Access
  <1> HIDE DEF a, q
  <1>2. Effect(a, s) = s
    <2>1. s = [int |-> s.int, ier |-> s.ier, irq |-> s.irq, dlab |-> s.dlab]
      BY DEF States
    <2> QED
      BY <1>1, <2>1 DEF Effect
  <1>3. ASSUME Leads(q, {s}, B, e, f)
        PROVE  s \in B
    <2>1. PICK lab : Outlined(q, lab, e, f) /\ {s} \subseteq lab[1] /\ lab[1 + 1] = B
      BY <1>1, <1>3 DEF Leads
    <2>2. Fits(a, lab[1], lab[1 + 1], lab[1 + 1 + Jump(a)], e, f)
      BY <1>1, <2>1 DEF Outlined
    <2> QED
      BY <1>1, <1>2, <2>1, <2>2 DEF Fits
  <1>4. ASSUME s \in B
        PROVE  Leads(q, {s}, B, e, f)
    <2> DEFINE lab == [i \in 1 .. 2 |-> IF i = 1 THEN {s} ELSE B]
    <2>1. lab[1] = {s} /\ lab[2] = B
      OBVIOUS
    <2> HIDE DEF lab
    <2>2. Fits(a, {s}, B, lab[1 + 1 + Jump(a)], e, f)
      BY <1>1, <1>2, <1>4 DEF Fits
    <2>3. Outlined(q, lab, e, f)
      BY <1>1, <2>1, <2>2 DEF Outlined
    <2> QED
      BY <1>1, <2>1, <2>3 DEF Leads
  <1> QED
    BY <1>3, <1>4 DEF a, q

LEMMA StepMoves ==
  ASSUME UInv, NEW x \in Context, Step(x), ~ Serve(x),
         tmp[x] # <<>> /\ Modifies(x)
           => Modified(x) = Put(Now(x).what, Now(x).on, Word(x))
  PROVE  Moves(x)
  <1>1. CASE Load(x)
    BY <1>1 DEF Load, Moves, Switches, Free, info, ints, line
  <1>2. CASE Store(x) \/ SetIrq(x) \/ SetLine(x)
    <2>1. Modified(x) = Put(Now(x).what, Now(x).on, Word(x))
      <3>1. CASE tmp[x] = <<>>
        BY <3>1 DEF Modified
      <3>2. CASE Store(x) /\ tmp[x] # <<>>
        BY <3>2 DEF Store, At, Modifies, Now
      <3>3. CASE SetIrq(x) \/ SetLine(x)
        <4>1. PICK k \in {"irq", "dlab", "div", "reset"} : At(x, k)
          BY <3>3 DEF SetIrq, SetLine
        <4>2. k \notin {"int_status", "ier", "rest"} /\ Queues
          BY DEF UInv
        <4>3. tmp[x] = <<>>
          BY <4>1, <4>2, AtHead
        <4> QED
          BY <4>3 DEF Modified
      <3> QED
        BY <1>2, <3>1, <3>2, <3>3
    <2> QED
      BY <1>2, <2>1, SwitchMoves
  <1>3. CASE Test(x) \/ From(x) \/ FlushRest(x) \/ CallBack(x)
    BY <1>3, TestMoves, FromMoves, FlushMoves, CallBackMoves
  <1>4. CASE \/ SetStatus(x) \/ SetBaudrate(x) \/ ClearCbs(x) \/ Clear(x) \/ SetBuf(x)
             \/ Drained(x) \/ WriteByte(x) \/ ReadByte(x)
    <2>1. /\ Goes(x) /\ UNCHANGED <<int_status, ier, irq, dlab>> /\ cbs' \subseteq cbs
          /\ \E k \in Calm : At(x, k)
      <3>1. CASE SetStatus(x) \/ SetBaudrate(x) \/ ClearCbs(x)
        BY <3>1 DEF SetStatus, SetBaudrate, ClearCbs, Done, ints, line, Calm
      <3>2. CASE Clear(x) \/ SetBuf(x)
        BY <3>2 DEF Clear, SetBuf, Done, ints, line, Calm
      <3>3. CASE Drained(x) \/ WriteByte(x) \/ ReadByte(x)
        BY <3>3 DEF Drained, WriteByte, ReadByte, Send, Done, info, ints, line, Calm
      <3> QED
        BY <1>4, <3>1, <3>2, <3>3
    <2> QED
      BY <2>1, CalmMoves
  <1> QED
    BY <1>1, <1>2, <1>3, <1>4 DEF Step

(* What the thread has loaded after a step of its own. *)
LEMMA StepLoads ==
  ASSUME UInv, NEW x \in Context, Step(x)
  PROVE  \/ tmp'[x] = <<>>
         \/ todo'[x] # <<>> /\ Head(todo'[x]).op = "rest"
         \/ Load(x)
  <1> DEFINE q == todo[x]
  <1>1. Queues /\ DOMAIN tmp = Context /\ DOMAIN todo = Context
    BY DEF UInv, Queues
  <1>2. \A k : At(x, k) /\ k \notin {"int_status", "ier", "rest"} => tmp[x] = <<>>
    BY <1>1, AtHead
  <1>3. CASE Store(x)
    BY <1>1, <1>3 DEF Store
  <1>4. CASE FlushRest(x)
    <2>1. CASE UNCHANGED todo
      BY <1>4, <2>1 DEF FlushRest, At, Now
    <2>2. CASE tmp' = [tmp EXCEPT ![x] = <<>>]
      BY <1>1, <2>2
    <2> QED
      BY <1>4, <2>1, <2>2 DEF FlushRest
  <1>5. CASE From(x)
    <2>1. At(x, "from")
      BY <1>5 DEF From
    <2> DEFINE k == "from"
    <2>2. At(x, k) /\ k \notin {"serve", "rest"}
      BY <2>1
    <2> HIDE DEF k
    <2>3. q # <<>> /\ Framed(q) /\ Now(x) = q[1] /\ Now(x).op = k
      BY <1>1, <2>2, AtHead
    <2>4. CASE ~ buf.tx.set
      BY <1>2, <1>5, <2>1, <2>4 DEF From
    <2>5. CASE buf.tx.set
      <3>1. q \in Seq(Accesses) /\ Len(q) \in Nat /\ Len(q) >= 1
        BY <2>3 DEF Framed
      <3>2. 1 \in 1 .. Len(q)
        BY <3>1
      <3>3. FlushWhole(q, 1)
        BY <2>3, <3>2 DEF Framed
      <3>4. 1 + 2 <= Len(q) /\ q[1 + 1].op = "rest"
        BY <2>3, <3>3 DEF FlushWhole, k
      <3>5. todo'[x] = Tail(q)
        BY <1>1, <1>5, <2>5 DEF From, Goes
      <3>6. Tail(q) # <<>> /\ Head(Tail(q)) = q[1 + 1]
        <4>4. Tail(q) = Drop(q, 1)
          BY <2>3, <3>1, TailIsDrop
        <4>5. 1 \in 0 .. Len(q) /\ 1 \in 1 .. Len(q) - 1
          BY <3>1, <3>4
        <4>1. Tail(q) = Drop(q, 1) /\ 1 \in 0 .. Len(q) /\ 1 \in 1 .. Len(q) - 1
          BY <4>4, <4>5
        <4>2. /\ Drop(q, 1) \in Seq(Accesses) /\ Len(Drop(q, 1)) = Len(q) - 1
              /\ Drop(q, 1)[1] = q[1 + 1]
          BY <3>1, <4>1, DropIs
        <4> HIDE DEF q
        <4>3. Drop(q, 1) # <<>>
          BY <3>1, <4>1, <4>2
        <4> QED
          BY <4>1, <4>2, <4>3
      <3> QED
        BY <3>4, <3>5, <3>6
    <2> QED
      BY <2>4, <2>5
  <1>6. CASE \/ Test(x) \/ SetIrq(x) \/ SetLine(x) \/ SetStatus(x) \/ SetBaudrate(x) \/ ClearCbs(x)
             \/ Clear(x) \/ SetBuf(x) \/ CallBack(x) \/ Drained(x) \/ WriteByte(x) \/ ReadByte(x)
             \/ Serve(x)
    <2>1. UNCHANGED tmp /\ \E k : At(x, k) /\ k \notin {"int_status", "ier", "rest"}
      <3>1. CASE Test(x) \/ SetIrq(x) \/ SetLine(x)
        BY <3>1 DEF Test, SetIrq, SetLine, Done
      <3>4. CASE SetStatus(x) \/ SetBaudrate(x)
        BY <3>4 DEF SetStatus, SetBaudrate, Done
      <3>5. CASE ClearCbs(x)
        <4>1. At(x, "clear cbs") /\ UNCHANGED tmp
          BY <3>5 DEF ClearCbs, Done
        <4>2. "clear cbs" \notin {"int_status", "ier", "rest"}
          OBVIOUS
        <4> QED
          BY <4>1, <4>2
      <3>2. CASE Clear(x) \/ SetBuf(x) \/ CallBack(x) \/ Drained(x)
        BY <3>2 DEF Clear, SetBuf, CallBack, Drained, Done
      <3>3. CASE WriteByte(x) \/ ReadByte(x)
        BY <3>3 DEF WriteByte, ReadByte, Done, Send
      <3>6. CASE Serve(x)
        BY <3>6 DEF Serve
      <3> QED
        BY <1>6, <3>1, <3>2, <3>3, <3>4, <3>5, <3>6
    <2> QED
      BY <1>2, <2>1
  <1> QED
    BY <1>3, <1>4, <1>5, <1>6 DEF Step

(* The thread stores what it would have loaded now. *)
LEMMA StoresCurrent ==
  ASSUME BooksInv, NEW x \in Context, Step(x), tmp[x] # <<>>, Modifies(x)
  PROVE  Modified(x) = Put(Now(x).what, Now(x).on, Word(x))
  <1>1. x = "thread" /\ todo["isr"] = <<>>
    BY StepFrame DEF BooksInv, UInv, Queues, Context
  <1>2. \/ Head(tmp[x]) = Word(x)
        \/ \E d \in Dir : Now(x) = Ier(FALSE, d) /\ Head(tmp[x]) \subseteq {d} /\ ier \subseteq {d}
    BY <1>1 DEF BooksInv, LoadedSound
  <1>3. CASE Head(tmp[x]) = Word(x)
    BY <1>3 DEF Modified
  <1>4. ASSUME NEW d \in Dir, Now(x) = Ier(FALSE, d), Head(tmp[x]) \subseteq {d}, ier \subseteq {d}
        PROVE  Modified(x) = Put(Now(x).what, Now(x).on, Word(x))
    <2>1. Now(x).op = "ier" /\ Now(x).what = d /\ Now(x).on = FALSE
      BY <1>4 DEF Ier, Op, Access
    <2>2. Word(x) = ier
      BY <2>1 DEF Word
    <2>3. Head(tmp[x]) \ {d} = {} /\ ier \ {d} = {}
      BY <1>4
    <2> QED
      BY <2>1, <2>2, <2>3 DEF Modified, Put
  <1> QED
    BY <1>2, <1>3, <1>4

LEMMA ThreadKeepsBooks ==
  ASSUME BooksInv, Step("thread")
  PROVE  ThreadSound' /\ LoadedSound' /\ RoutineSound'
  <1> DEFINE x == "thread"
  <1>1. x \in Context /\ UInv /\ Step(x)
    BY DEF Context, BooksInv
  <1>2. /\ UNCHANGED <<opn_cnt, masked>> /\ todo["isr"] = <<>> /\ todo'["isr"] = todo["isr"]
    BY <1>1, StepFrame DEF Context
  <1>3. ~ Serve(x)
    <2> DEFINE k == "serve"
    <2>1. Queues
      BY <1>1 DEF UInv
    <2> HIDE DEF k
    <2>2. At(x, k) => k # "serve" \/ x = "isr"
      BY <1>1, <2>1, AtHead
    <2> QED
      BY <2>2 DEF Serve, k
  <1>4. Moves(x)
    BY <1>1, <1>3, StepMoves, StoresCurrent
  <1>5. Rest' = Rest /\ (~ masked)' = ~ masked /\ (~ masked) \in BOOLEAN
    BY <1>2 DEF Rest
  <1>6. Leads(todo[x], {Switches}, Rest, ~ masked, Free)
    BY <1>2 DEF BooksInv, ThreadSound
  <1>7. ThreadSound'
    <2>1. Leads(todo'[x], {Switches'}, Rest, ~ masked, Free')
      BY <1>4, <1>5, <1>6 DEF Moves
    <2>2. Leads(todo'[x], {Switches'}, Rest', (~ masked)', Free')
      BY <1>5, <2>1
    <2> QED
      BY <2>2 DEF ThreadSound
  <1>8. LoadedSound'
    <2>1. CASE tmp'[x] = <<>> \/ (todo'[x] # <<>> /\ Head(todo'[x]).op = "rest")
      BY <2>1 DEF LoadedSound, Modifies, Now
    <2>2. CASE Load(x)
      <3>1. tmp'[x] = <<Word(x)>> /\ UNCHANGED <<ints, todo>>
        BY <1>1, <2>2 DEF Load, UInv, Queues
      <3>2. Head(tmp'[x]) = Word(x)'
        BY <3>1 DEF Word, Now, ints
      <3> QED
        BY <3>2 DEF LoadedSound
    <2> QED
      BY <1>1, <2>1, <2>2, StepLoads
  <1>9. RoutineSound'
    BY <1>2 DEF RoutineSound
  <1> QED
    BY <1>7, <1>8, <1>9

(* The routine leaves the books as it found them. *)
LEMMA RoutineGoesOn ==
  ASSUME BooksInv, Step("isr"), NEW S \in SUBSET Dir, Free => S = Dir, Serving(S)
  PROVE  Serving(S)'
  <1> DEFINE x == "isr"
             e == FALSE
             s == Switches
  <1>1. x \in Context /\ UInv /\ Step(x) /\ s \in States
    BY SwitchesIs DEF Context, BooksInv
  <1>2. e \in BOOLEAN /\ ~ e
    OBVIOUS
  <1> HIDE DEF e
  <1>3. Leads(todo[x], {s}, Even(S), e, Free)
    BY DEF Serving, e
  <1>4. Free' = Free /\ Free \in BOOLEAN
    BY <1>1, StepFrame DEF Free
  <1>5. CASE ~ Serve(x)
    <2>1. Moves(x)
      <3>1. tmp[x] = <<>>
        BY <1>1 DEF UInv, Queues
      <3> QED
        BY <1>1, <1>5, <3>1, StepMoves
    <2>2. Leads(todo'[x], {s'}, Even(S), e, Free')
      BY <1>2, <1>3, <2>1 DEF Moves
    <2> QED
      BY <2>2 DEF Serving, e
  <1>6. CASE Serve(x)
    <2> DEFINE k == "serve"
    <2>1. At(x, k) /\ Queues /\ UNCHANGED <<ints, dlab>>
      BY <1>1, <1>6 DEF Serve, UInv
    <2> HIDE DEF k
    <2>2. k = "serve" => \E d \in Dir : todo[x] = <<Op("serve", TRUE, d)>>
      BY <1>1, <2>1, AtHead
    <2>3. PICK d \in Dir : todo[x] = <<Op("serve", TRUE, d)>>
      BY <2>2 DEF k
    <2>4. s \in Even(S) /\ s' = s
      <3>1. s \in Even(S)
        BY <1>1, <1>2, <1>3, <1>4, <2>3, ServeLeads
      <3> QED
        BY <2>1, <3>1 DEF Switches, ints
    <2>5. Now(x).what = d /\ Tail(todo[x]) = <<>>
      BY <2>3 DEF Now, Op, Access
    <2>6. \/ todo'[x] = (dw_uart_dis_cbr(d) \o <<Callback(d), ClearBuf(d)>>) \o <<>>
          \/ todo'[x] = <<Callback(d)>> \o <<>>
          \/ todo'[x] = <<>> \o <<>>
      BY <1>1, <1>6, <2>5 DEF Serve, UInv, Queues
    <2> DEFINE r == dw_uart_dis_cbr(d) \o <<Callback(d), ClearBuf(d)>>
    <2>7. todo'[x] \in {r, <<Callback(d)>>, <<>>}
      <3>1. Framed(r)
        <4> HIDE DEF r
        <4> QED
          BY IsrFramed DEF r
      <3> HIDE DEF r
      <3>2. r \o <<>> = r /\ <<Callback(d)>> \o <<>> = <<Callback(d)>> /\ <<>> \o <<>> = <<>>
        BY <3>1, ConcatProperties DEF Framed
      <3> QED
        BY <2>6, <3>2 DEF r
    <2>8. \/ Leads(todo'[x], Even(S), Even(S), e, Free)
          \/ todo'[x] = <<>>
      BY <1>2, <1>4, <2>7, EndedLeads
    <2>9. {s} \subseteq Even(S)
      BY <2>4
    <2>10. Leads(todo'[x], {s}, Even(S), e, Free)
      <3>1. CASE todo'[x] = <<>>
        BY <1>2, <1>4, <2>9, <3>1, EmptyLeads
      <3>2. CASE Leads(todo'[x], Even(S), Even(S), e, Free)
        <4>1. \A K : K \subseteq Even(S) => Leads(todo'[x], K, Even(S), e, Free)
          BY <1>2, <1>4, <3>2, LessLeads
        <4> QED
          BY <2>9, <4>1
      <3> QED
        BY <2>8, <3>1, <3>2
    <2> QED
      BY <1>4, <2>4, <2>10 DEF Serving, e
  <1> QED
    BY <1>5, <1>6

LEMMA RoutineKeepsBooks ==
  ASSUME BooksInv, Step("isr"), UInv'
  PROVE  ThreadSound' /\ LoadedSound' /\ RoutineSound'
  <1> DEFINE e == FALSE
             s == Switches
  <1>1. /\ "isr" \in Context /\ "thread" \in Context /\ "isr" # "thread" /\ UInv
        /\ Step("isr") /\ s' \in States
    <2>1. UInv => Switches \in States
      BY SwitchesIs
    <2>2. (UInv => Switches \in States)'
      BY SwitchesIs, PTL
    <2> QED
      BY <2>2 DEF Context, BooksInv
  <1>2. e \in BOOLEAN /\ ~ e
    OBVIOUS
  <1> HIDE DEF e
  <1>3. /\ UNCHANGED <<opn_cnt, masked, cbs>> /\ todo["isr"] # <<>>
        /\ todo'["thread"] = todo["thread"] /\ tmp'["thread"] = tmp["thread"]
    BY <1>1, StepFrame
  <1>4. /\ ~ masked /\ Rest' = Rest /\ Free' = Free /\ Free \in BOOLEAN /\ (~ masked)' = ~ masked
        /\ (~ masked) \in BOOLEAN
    BY <1>3 DEF BooksInv, RoutineSound, Rest, Free
  <1>5. ASSUME todo'["isr"] = <<>>, NEW S, Serving(S)'
        PROVE  s' \in Even(S)
    <2>1. Leads(<<>>, {s'}, Even(S), e, Free')
      BY <1>5 DEF Serving, e
    <2>2. {s'} \subseteq Even(S)
      BY <1>2, <1>4, <2>1, EmptyLeads
    <2> QED
      BY <2>2
  <1>6. CASE todo["thread"] = <<>> /\ opn_cnt # 0 /\ Serving(Dir)
    <2>1. Serving(Dir)'
      BY <1>6, RoutineGoesOn
    <2>2. ThreadSound'
      <3> SUFFICES ASSUME todo'["isr"] = <<>>
                   PROVE  Leads(todo'["thread"], {s'}, Rest', (~ masked)', Free')
        BY DEF ThreadSound
      <3>1. s' \in Even(Dir) /\ Rest = Even(Dir)
        BY <1>5, <1>6, <2>1 DEF Rest
      <3>2. {s'} \subseteq Rest
        BY <3>1
      <3>3. Leads(<<>>, {s'}, Rest, ~ masked, Free)
        <4> DEFINE on == ~ masked
        <4>1. on \in BOOLEAN
          BY <1>4
        <4> HIDE DEF on
        <4>2. Leads(<<>>, {s'}, Rest, on, Free)
          BY <1>4, <3>2, <4>1, EmptyLeads
        <4> QED
          BY <4>2 DEF on
      <3> QED
        BY <1>3, <1>4, <1>6, <3>3
    <2>3. LoadedSound'
      BY <1>3, <1>6 DEF LoadedSound, Modifies
    <2>4. RoutineSound'
      BY <1>3, <1>4, <1>6, <2>1 DEF RoutineSound
    <2> QED
      BY <2>2, <2>3, <2>4
  <1>7. ASSUME ~ Free, NEW d \in Dir, Window(d), Serving({d})
        PROVE  ThreadSound' /\ LoadedSound' /\ RoutineSound'
    <2>1. Serving({d})'
      BY <1>4, <1>7, RoutineGoesOn
    <2>2. Window(d)'
      <3>1. /\ todo'["thread"] # <<>> /\ Now("thread")' \in {Unless(d), Ier(FALSE, d)}
            /\ tmp'["thread"] = <<>> \/ Head(tmp'["thread"]) \subseteq {d}
        BY <1>3, <1>7 DEF Window, Now
      <3>2. Leads(todo'["thread"], Even({d}), Rest', (~ masked)', Free')
        BY <1>3, <1>4, <1>7 DEF Window
      <3> QED
        BY <3>1, <3>2 DEF Window
    <2>3. ThreadSound'
      <3> SUFFICES ASSUME todo'["isr"] = <<>>
                   PROVE  Leads(todo'["thread"], {s'}, Rest', (~ masked)', Free')
        BY DEF ThreadSound
      <3>1. {s'} \subseteq Even({d})
        BY <1>5, <2>1
      <3>2. Leads(todo["thread"], Even({d}), Rest, ~ masked, Free)
        BY <1>7 DEF Window
      <3>3. \A K : K \subseteq Even({d}) => Leads(todo["thread"], K, Rest, ~ masked, Free)
        BY <1>4, <3>2, LessLeads
      <3> QED
        BY <1>3, <1>4, <3>1, <3>3
    <2>4. LoadedSound'
      <3> SUFFICES ASSUME todo'["isr"] = <<>>, tmp'["thread"] # <<>>, Modifies("thread")'
                   PROVE  /\ Now("thread")' = Ier(FALSE, d)
                          /\ Head(tmp'["thread"]) \subseteq {d} /\ ier' \subseteq {d}
        BY DEF LoadedSound
      <3>1. Now("thread")' = Ier(FALSE, d) /\ Head(tmp'["thread"]) \subseteq {d}
        <4>1. Unless(d).op = "unless"
          BY DEF Unless, Op, Access
        <4>2. Now("thread")'.op \in {"ier", "int_status"}
          BY DEF Modifies
        <4> QED
          BY <2>2, <4>1, <4>2 DEF Window
      <3>2. s' \in Even({d})
        BY <1>5, <2>1
      <3>3. ier' \subseteq {d}
        BY <1>1, <3>2 DEF Even, Switches, States
      <3> QED
        BY <3>1, <3>3
    <2>5. RoutineSound'
      BY <1>3, <1>4, <1>7, <2>1, <2>2 DEF RoutineSound
    <2> QED
      BY <2>3, <2>4, <2>5
  <1> QED
    BY <1>3, <1>6, <1>7 DEF BooksInv, RoutineSound

(* The routine is entered between calls, or in the window of a client      *)
(* without callbacks.                                                      *)
LEMMA EntryKeepsBooks ==
  ASSUME BooksInv, dw_uart_isr
  PROVE  ThreadSound' /\ LoadedSound' /\ RoutineSound'
  <1> DEFINE e == FALSE
             s == Switches
             q == todo["thread"]
             t == tmp["thread"]
  <1>1. /\ irq /\ ~ masked /\ todo["isr"] = <<>> /\ IIR \in ier \cap Dir
        /\ todo'["isr"] = <<Op("serve", TRUE, IIR)>> /\ todo'["thread"] = q
        /\ UNCHANGED <<info, ints, line, masked, tmp>>
    BY DEF dw_uart_isr, IsrRuns, IIR, BooksInv, UInv, Queues, Context, Dir
  <1>2. /\ s \in States /\ s.irq /\ s.ier = ier /\ s.int = int_status /\ s' = s
        /\ Free' = Free /\ Free \in BOOLEAN /\ Rest' = Rest
        /\ (~ masked) \in BOOLEAN /\ (~ masked)' = ~ masked
    BY <1>1, SwitchesIs DEF BooksInv, Switches, Free, Rest, info, ints, line
  <1>3. e \in BOOLEAN /\ ~ e
    OBVIOUS
  <1> HIDE DEF e
  <1>4. Leads(q, {s}, Rest, ~ masked, Free)
    BY <1>1 DEF BooksInv, ThreadSound
  <1>5. ASSUME NEW S, s \in Even(S)
        PROVE  Serving(S)'
    <2>1. Leads(<<Op("serve", TRUE, IIR)>>, {s}, Even(S), e, Free)
      BY <1>2, <1>3, <1>5, ServeLeads
    <2> QED
      BY <1>1, <1>2, <2>1 DEF Serving, e
  <1>6. ThreadSound' /\ LoadedSound'
    BY <1>1 DEF ThreadSound, LoadedSound
  <1>7. CASE q = <<>>
    <2>1. {s} \subseteq Rest
      <3> DEFINE on == ~ masked
      <3>1. on \in BOOLEAN /\ Leads(<<>>, {s}, Rest, on, Free)
        BY <1>2, <1>4, <1>7
      <3> HIDE DEF on
      <3> QED
        BY <1>2, <3>1, EmptyLeads
    <2>2. opn_cnt # 0 /\ s \in Even(Dir)
      BY <1>2, <2>1, EvenIs DEF Rest
    <2> QED
      BY <1>1, <1>5, <1>6, <1>7, <2>2 DEF RoutineSound, info
  <1>8. CASE q # <<>>
    <2>1. Loaded(q, t) /\ q \in Seq(Accesses)
      BY DEF BooksInv, UInv, Queues, Loaded, Framed
    <2> DEFINE a == q[1]
               more == 1 + Jump(a) <= Len(q)
               rest == Drop(q, 1 + Jump(a))
    <2>2. PICK L, M, J : /\ {s} \subseteq L /\ Fits(a, L, M, J, ~ masked, Free)
                         /\ Leads(q, L, Rest, ~ masked, Free)
                         /\ Leads(Tail(q), M, Rest, ~ masked, Free)
                         /\ more => Leads(rest, J, Rest, ~ masked, Free)
      <3> DEFINE on == ~ masked
      <3>1. on \in BOOLEAN /\ Leads(q, {s}, Rest, on, Free)
        BY <1>2, <1>4
      <3> HIDE DEF on, q, s
      <3>2. \E L, M, J : /\ {s} \subseteq L /\ Fits(a, L, M, J, on, Free)
                         /\ Leads(q, L, Rest, on, Free)
                         /\ Leads(Tail(q), M, Rest, on, Free)
                         /\ more => Leads(rest, J, Rest, on, Free)
        BY <1>2, <1>8, <2>1, <3>1, LeadsOn
      <3> QED
        BY <3>2 DEF on
    <2>3. ~ Shut(L)
      BY <1>1, <1>2, <2>2 DEF Shut
    <2>4. ~ Free /\ \E d \in Dir : L = Even({d}) /\ a \in {Unless(d), Ier(FALSE, d)}
      BY <1>1, <2>2, <2>3 DEF Fits
    <2>5. PICK d \in Dir : L = Even({d}) /\ a \in {Unless(d), Ier(FALSE, d)}
      BY <2>4
    <2>6. Now("thread") = a
      BY <1>8, <2>1, TailIsDrop DEF Now
    <2>7. s \in Even({d}) /\ ier \subseteq {d}
      <3>1. s \in Even({d})
        BY <2>2, <2>5
      <3> QED
        BY <1>2, <3>1 DEF Even, States
    <2>8. t = <<>> \/ Head(t) \subseteq {d}
      <3> SUFFICES ASSUME t # <<>>
                   PROVE  Head(t) \subseteq {d}
        OBVIOUS
      <3>1. /\ Unless(d).op = "unless" /\ Ier(FALSE, d).op = "ier" /\ Ier(FALSE, d).what = d
            /\ \A x : Ier(FALSE, x).what = x
        BY DEF Unless, Ier, Op, Access
      <3>2. a.op \in {"int_status", "ier", "rest"}
        BY <2>1 DEF Loaded
      <3>3. a = Ier(FALSE, d)
        BY <2>5, <3>1, <3>2
      <3>4. Modifies("thread")
        BY <1>8, <2>6, <3>1, <3>3 DEF Modifies
      <3>5. \/ Head(t) = Word("thread")
            \/ \E x \in Dir : Now("thread") = Ier(FALSE, x) /\ Head(t) \subseteq {x}
        BY <1>1, <3>4 DEF BooksInv, LoadedSound
      <3>6. Word("thread") = ier
        BY <2>6, <3>1, <3>3 DEF Word
      <3> QED
        BY <2>6, <2>7, <3>1, <3>3, <3>5, <3>6, ZenonT(60)
    <2>9. Window(d)'
      <3>1. Now("thread")' = a /\ tmp'["thread"] = t /\ todo'["thread"] # <<>>
        BY <1>1, <1>8, <2>6 DEF Now
      <3>2. Leads(todo'["thread"], Even({d}), Rest', (~ masked)', Free')
        BY <1>1, <1>2, <2>2, <2>5
      <3> QED
        BY <2>5, <2>8, <3>1, <3>2 DEF Window
    <2> QED
      BY <1>1, <1>2, <1>5, <1>6, <2>4, <2>7, <2>9 DEF RoutineSound
  <1> QED
    BY <1>7, <1>8

(* Between calls the switches are where a call may start. *)
LEMMA IdleBooks ==
  ASSUME BooksInv, Idle
  PROVE  /\ Switches \in Rest /\ tmp["thread"] = <<>> /\ todo["isr"] = <<>>
         /\ Rest \subseteq Even(Dir)
         /\ Alone => Switches \in Start(~ masked)
  <1> DEFINE on == ~ masked
             s == Switches
  <1>1. /\ todo["thread"] = <<>> /\ todo["isr"] = <<>> /\ on \in BOOLEAN /\ Free \in BOOLEAN
        /\ tmp["thread"] = <<>> /\ Leads(<<>>, {s}, Rest, on, Free) /\ masked \in BOOLEAN
    BY DEF Idle, IsrRuns, BooksInv, ThreadSound, UInv, Words, Queues, Loaded, Free
  <1> HIDE DEF on
  <1>2. s \in Rest
    <2>1. {s} \subseteq Rest
      BY <1>1, EmptyLeads
    <2> QED
      BY <2>1
  <1>3. Rest \subseteq Even(Dir)
    BY EvenIs DEF Rest
  <1>4. ASSUME Alone
        PROVE  s \in Start(on)
    <2>1. s \in Even(Dir)
      BY <1>2, <1>3
    <2>2. CASE ~ on
      BY <2>1, <2>2 DEF Start
    <2>3. CASE on
      <3>1. s.int = {}
        BY <1>4, <2>3 DEF Alone, Switches, on
      <3>2. s \in Off
        BY <2>1, <3>1 DEF Even, Off
      <3> QED
        BY <2>3, <3>2 DEF Start
    <2> QED
      BY <2>2, <2>3
  <1> QED
    BY <1>1, <1>2, <1>3, <1>4 DEF on

LEMMA CallBooks ==
  ASSUME BooksInv, UInv', Idle, NEW q, Call(q), UNCHANGED <<ints, dlab, masked, tmp, cbs>>,
         NEW A, NEW B, Leads(q, A, B, ~ masked, Free), Switches \in A, B \subseteq Rest'
  PROVE  ThreadSound' /\ LoadedSound' /\ RoutineSound'
  <1> DEFINE on == ~ masked
             s == Switches
  <1>1. todo["isr"] = <<>> /\ tmp["thread"] = <<>> /\ on \in BOOLEAN /\ Free \in BOOLEAN
    BY IdleBooks DEF Free
  <1>2. todo'["isr"] = <<>> /\ todo'["thread"] = q /\ tmp'["thread"] = <<>>
    BY <1>1 DEF Call, BooksInv, UInv, Queues, Context
  <1>3. s' = s /\ Free' = Free /\ on' = on
    BY DEF Switches, Free, ints
  <1>4. Framed(q)
    <2>1. Loaded(todo'["thread"], tmp'["thread"])
      BY DEF UInv, Queues
    <2> QED
      BY <1>2, <2>1 DEF Loaded
  <1>5. Leads(q, A, B, on, Free)
    OBVIOUS
  <1>6. Leads(q, {s}, Rest', on, Free)
    <2> HIDE DEF on
    <2>1. Leads(q, A, Rest', on, Free)
      BY <1>1, <1>4, <1>5, MoreLeads
    <2>2. \A K : K \subseteq A => Leads(q, K, Rest', on, Free)
      BY <1>1, <2>1, LessLeads
    <2>3. {s} \subseteq A
      OBVIOUS
    <2> QED
      BY <2>2, <2>3
  <1>7. ThreadSound'
    BY <1>2, <1>3, <1>6 DEF ThreadSound
  <1> QED
    BY <1>2, <1>7 DEF LoadedSound, RoutineSound

(* No call is started. *)
LEMMA RestBooks ==
  ASSUME BooksInv, Idle, UNCHANGED <<ints, dlab, todo, tmp>>, Rest' = Rest
  PROVE  ThreadSound' /\ LoadedSound' /\ RoutineSound'
  <1> DEFINE on == (~ masked)'
  <1>1. todo'["isr"] = <<>> /\ tmp'["thread"] = <<>> /\ todo'["thread"] = <<>>
    BY IdleBooks DEF Idle
  <1>2. Switches' = Switches /\ {Switches} \subseteq Rest
    BY IdleBooks DEF Switches, ints
  <1>3. on \in BOOLEAN /\ Free' \in BOOLEAN
    BY DEF Free
  <1> HIDE DEF on
  <1>4. Leads(<<>>, {Switches'}, Rest', on, Free')
    BY <1>2, <1>3, EmptyLeads
  <1> QED
    BY <1>1, <1>4 DEF ThreadSound, LoadedSound, RoutineSound, on

(* A client that follows the discipline, but may install the next buffer   *)
(* in a callback.                                                          *)
Careful == Careless \subseteq {"callback"}

LEMMA AllowedIs ==
  ASSUME Careful, NEW call, call # "callback", NEW c \in BOOLEAN, Allowed(call, c)
  PROVE  c
  BY DEF Careful, Allowed

LEMMA OpenBooks ==
  ASSUME BooksInv, UInv', NEW b \in Bauds, dw_uart_open(b)
  PROVE  ThreadSound' /\ LoadedSound' /\ RoutineSound'
  <1>1. /\ Idle /\ opn_cnt' = opn_cnt + 1 /\ opn_cnt \in Nat
        /\ UNCHANGED <<ints, dlab, masked, tmp, cbs>>
    BY DEF dw_uart_open, line, BooksInv, UInv, Words
  <1>2. opn_cnt' # 0 /\ Rest' = Even(Dir)
    BY <1>1 DEF Rest
  <1>3. CASE opn_cnt > 0
    <2>1. UNCHANGED todo /\ Rest = Even(Dir)
      BY <1>1, <1>3 DEF dw_uart_open, Rest
    <2> QED
      BY <1>1, <1>2, <2>1, RestBooks
  <1>4. CASE ~ (opn_cnt > 0)
    <2> DEFINE q == dw_uart_init(Baud2Div(b)) \o <<Status(TRUE, "ENABLED")>>
                      \o dw_uart_disable_interrupt \o ClearAll
               on == ~ masked
    <2>1. Call(q) /\ Rest = Off
      BY <1>1, <1>4 DEF dw_uart_open, Rest
    <2>2. on \in BOOLEAN /\ Free \in BOOLEAN /\ Baud2Div(b) \in Nat
      BY DivisorIs DEF Free
    <2> HIDE DEF on
    <2>3. Leads(q, Off, Even(Dir), on, Free)
      BY <2>2, OpenLeads
    <2>4. Switches \in Off
      BY <1>1, <2>1, IdleBooks
    <2> HIDE DEF q
    <2> QED
      BY <1>1, <1>2, <2>1, <2>3, <2>4, CallBooks DEF on
  <1> QED
    BY <1>3, <1>4

LEMMA CloseBooks ==
  ASSUME Careful, BooksInv, UInv', dw_uart_close
  PROVE  ThreadSound' /\ LoadedSound' /\ RoutineSound'
  <1>1. /\ Idle /\ opn_cnt' = opn_cnt - 1 /\ opn_cnt \in Nat /\ opn_cnt > 0
        /\ UNCHANGED <<ints, dlab, masked, tmp, cbs>> /\ Allowed("close", Alone)
    BY DEF dw_uart_close, MayClose, line, BooksInv, UInv, Words
  <1>2. CASE opn_cnt # 1
    <2>1. UNCHANGED todo /\ Rest' = Rest
      BY <1>1, <1>2 DEF dw_uart_close, Rest
    <2> QED
      BY <1>1, <2>1, RestBooks
  <1>3. CASE opn_cnt = 1
    <2> DEFINE r == IF "ENABLED" \in status THEN dw_uart_disable_device ELSE <<>>
               q == dw_uart_disable_interrupt \o dw_uart_abort("tx") \o dw_uart_abort("rx")
                      \o dw_uart_flush_output \o ClearAll \o r \o <<Status(FALSE, "ENABLED")>>
               on == ~ masked
    <2>1. Call(q) /\ Rest' = Off
      BY <1>1, <1>3 DEF dw_uart_close, Rest
    <2>2. on \in BOOLEAN /\ Free \in BOOLEAN /\ (r = dw_uart_disable_device \/ r = <<>>)
      BY DEF Free
    <2>3. Switches \in Start(on)
      <3>1. Alone
        BY <1>1, AllowedIs DEF Alone
      <3> QED
        BY <1>1, <3>1, IdleBooks
    <2> HIDE DEF on, r
    <2>4. Leads(q, Start(on), Off, on, Free)
      BY <2>2, CloseLeads
    <2> HIDE DEF q
    <2> QED
      BY <1>1, <2>1, <2>3, <2>4, CallBooks DEF on
  <1> QED
    BY <1>2, <1>3

(* The calls made with the device to itself. *)
LEMMA AloneBooks ==
  ASSUME BooksInv, UInv', NEW q, Calls(q), opn_cnt > 0, Alone,
         \A e \in BOOLEAN, f \in BOOLEAN : Leads(q, Start(e), Even(Dir), e, f)
  PROVE  ThreadSound' /\ LoadedSound' /\ RoutineSound'
  <1> DEFINE on == ~ masked
  <1>1. /\ Idle /\ Call(q) /\ UNCHANGED <<ints, dlab, masked, tmp, cbs>>
        /\ Rest' = Even(Dir)
    BY DEF Calls, info, line, Rest
  <1>2. on \in BOOLEAN /\ Free \in BOOLEAN /\ Switches \in Start(on)
    BY <1>1, IdleBooks DEF Free
  <1> HIDE DEF on
  <1>3. Leads(q, Start(on), Even(Dir), on, Free)
    BY <1>2
  <1> QED
    BY <1>1, <1>2, <1>3, CallBooks DEF on

(* The calls that leave the switches alone. *)
LEMMA StartLeads ==
  ASSUME NEW q, Framed(q), \A e \in BOOLEAN, f \in BOOLEAN : Leads(q, Start(e), Start(e), e, f)
  PROVE  \A e \in BOOLEAN, f \in BOOLEAN : Leads(q, Start(e), Even(Dir), e, f)
  <1> SUFFICES ASSUME NEW e \in BOOLEAN, NEW f \in BOOLEAN
               PROVE  Leads(q, Start(e), Even(Dir), e, f)
    OBVIOUS
  <1>1. Start(e) \subseteq Even(Dir) /\ Leads(q, Start(e), Start(e), e, f)
    BY StartIs
  <1> QED
    BY <1>1, MoreLeads

LEMMA CalmBooks ==
  ASSUME BooksInv, UInv', NEW q, Calls(q), opn_cnt > 0, Alone, Framed(q), Of(q, Calm)
  PROVE  ThreadSound' /\ LoadedSound' /\ RoutineSound'
  <1>1. ASSUME NEW e \in BOOLEAN, NEW f \in BOOLEAN
        PROVE  Leads(q, Start(e), Start(e), e, f)
    <2>1. Start(e) \in SUBSET States /\ (e => Shut(Start(e)))
      BY StartIs
    <2> QED
      BY <2>1, CalmLeads
  <1>2. \A e \in BOOLEAN, f \in BOOLEAN : Leads(q, Start(e), Even(Dir), e, f)
    BY <1>1, StartLeads
  <1> QED
    BY <1>2, AloneBooks

LEMMA DeviceBooks ==
  ASSUME Careful, BooksInv, UInv', (\E b \in Bauds : SET_BAUD(b)) \/ ENA_DEV \/ DIS_DEV
  PROVE  ThreadSound' /\ LoadedSound' /\ RoutineSound'
  <1> DEFINE Good(q) == /\ Framed(q)
                        /\ \A e \in BOOLEAN, f \in BOOLEAN : Leads(q, Start(e), Start(e), e, f)
  <1>1. /\ \A v \in Nat, b \in Bauds :
             Framed(<<Number("baudrate", b)>>) /\ Framed(dw_uart_set_baud(v))
        /\ \A v \in Nat : Framed(dw_uart_set_baud(v) \o <<Status(TRUE, "ENABLED")>>)
        /\ Framed(dw_uart_disable_device)
    <2>1. ASSUME NEW b \in Bauds
          PROVE  Framed(<<Number("baudrate", b)>>)
      <3>1. Number("baudrate", b) \in Accesses /\ Number("baudrate", b).op = "baudrate"
        BY DivisorIs, SingleAccess DEF Number, Access
      <3> QED
        BY <3>1, ShortFramed DEF Straight
    <2> QED
      BY <2>1, BaudFramed, DeviceFramed
  <1>2. \A e \in BOOLEAN : Start(e) \in {Off, Even(Dir)} /\ (e => Start(e) = Off)
    BY StartIs
  <1>3. /\ \A v \in Nat, b \in Bauds : Good(dw_uart_set_baud(v) \o <<Number("baudrate", b)>>)
        /\ \A v \in Nat : Good(dw_uart_set_baud(v) \o <<Status(TRUE, "ENABLED")>>)
        /\ Good(dw_uart_disable_device)
    <2>1. /\ \A v \in Nat, b \in Bauds : Framed(dw_uart_set_baud(v) \o <<Number("baudrate", b)>>)
      BY <1>1, ConcatFramed
    <2>2. ASSUME NEW e \in BOOLEAN, NEW f \in BOOLEAN
          PROVE  /\ \A v \in Nat, b \in Bauds :
                      Leads(dw_uart_set_baud(v) \o <<Number("baudrate", b)>>, Start(e), Start(e), e, f)
                 /\ \A v \in Nat :
                      Leads(dw_uart_set_baud(v) \o <<Status(TRUE, "ENABLED")>>, Start(e), Start(e), e, f)
                 /\ Leads(dw_uart_disable_device, Start(e), Start(e), e, f)
      BY <1>2, DeviceLeads
    <2> QED
      BY <1>1, <2>1, <2>2
  <1>4. ASSUME NEW q, Good(q), Calls(q), opn_cnt > 0, Alone
        PROVE  ThreadSound' /\ LoadedSound' /\ RoutineSound'
    <2>1. \A e \in BOOLEAN, f \in BOOLEAN : Leads(q, Start(e), Even(Dir), e, f)
      BY <1>4, StartLeads
    <2> QED
      BY <1>4, <2>1, AloneBooks
  <1> HIDE DEF Good
  <1>5. ASSUME NEW b \in Bauds, SET_BAUD(b)
        PROVE  ThreadSound' /\ LoadedSound' /\ RoutineSound'
    <2>1. opn_cnt > 0 /\ Alone
      <3>1. opn_cnt > 0 /\ Allowed("SET_BAUD", Alone)
        BY <1>5 DEF SET_BAUD, Available
      <3> QED
        BY <3>1, AllowedIs DEF Alone
    <2>2. /\ Calls(dw_uart_set_baud(Baud2Div(b)) \o <<Number("baudrate", b)>>)
          /\ Baud2Div(b) \in Nat
      BY <1>5, DivisorIs DEF SET_BAUD
    <2> QED
      BY <1>3, <1>4, <2>1, <2>2
  <1>6. CASE ENA_DEV
    <2>1. opn_cnt > 0 /\ Alone
      <3>1. opn_cnt > 0 /\ Allowed("ENA_DEV", Alone)
        BY <1>6 DEF ENA_DEV
      <3> QED
        BY <3>1, AllowedIs DEF Alone
    <2>2. baudrate \in Nat
      BY UartAssumption DEF BooksInv, UInv, Words
    <2>3. Calls(dw_uart_set_baud(baudrate) \o <<Status(TRUE, "ENABLED")>>)
      BY <1>6 DEF ENA_DEV, dw_uart_enable_device
    <2> QED
      BY <1>3, <1>4, <2>1, <2>2, <2>3
  <1>7. CASE DIS_DEV
    <2>1. opn_cnt > 0 /\ Alone
      <3> DEFINE c == Alone /\ Quiet("tx") /\ fifo.tx = <<>>
      <3>1. opn_cnt > 0 /\ Allowed("DIS_DEV", c) /\ c \in BOOLEAN
        BY <1>7 DEF DIS_DEV, Available
      <3> HIDE DEF c
      <3>2. c
        BY <3>1, AllowedIs
      <3> QED
        BY <3>1, <3>2 DEF c
    <2>2. Calls(dw_uart_disable_device)
      BY <1>7 DEF DIS_DEV
    <2> QED
      BY <1>3, <1>4, <2>1, <2>2
  <1> QED
    BY <1>5, <1>6, <1>7

(* A transfer is ended or aborted: in a critical section, or as the only   *)
(* one of a client without callbacks.                                      *)
LEMMA EndBooks ==
  ASSUME Careful, BooksInv, UInv', NEW d \in Dir, opn_cnt > 0, Undisturbed(d),
         NEW q \in {dw_uart_abort(d), dw_uart_dis_cbr(d)}, Calls(q)
  PROVE  ThreadSound' /\ LoadedSound' /\ RoutineSound'
  <1> DEFINE on == ~ masked
             s == Switches
  <1>1. /\ Idle /\ Call(q) /\ UNCHANGED <<ints, dlab, masked, tmp, cbs>>
        /\ Rest' = Even(Dir) /\ on \in BOOLEAN /\ Free \in BOOLEAN
    BY DEF Calls, info, line, Rest, Free
  <1>2. s \in Even(Dir) /\ (Alone => s \in Start(on))
    BY <1>1, IdleBooks
  <1>3. Undisturbed(d) => Alone \/ (on /\ ~ Free /\ int_status \subseteq {"gint", d})
    BY DEF Undisturbed, Alone, Free
  <1> HIDE DEF on
  <1>4. CASE ~ on
    <2>1. Leads(q, Even(Dir), Even(Dir), on, Free)
      <3>1. CASE q = dw_uart_abort(d)
        <4>1. Leads(q, IF on THEN Even({d}) ELSE Even(Dir), Start(on), on, Free)
          BY <1>1, <1>4, <3>1, AbortLeads
        <4> QED
          BY <1>1, <1>4, <4>1, StartIs
      <3>2. CASE q = dw_uart_dis_cbr(d)
        <4>1. Leads(q, Even(Dir), Even(Dir \ {d}), on, Free) /\ Framed(q)
          BY <1>1, <1>4, <3>2, DisLeads, CbrFramed
        <4>2. Even(Dir \ {d}) \subseteq Even(Dir)
          BY EvenIs
        <4> QED
          BY <1>1, <4>1, <4>2, MoreLeads
      <3> QED
        BY <3>1, <3>2
    <2> QED
      BY <1>1, <1>2, <2>1, CallBooks DEF on
  <1>5. CASE on /\ Alone
    <2>1. s \in Off /\ Off \subseteq Even(Dir) /\ {} \in SUBSET Dir /\ {} \ {d} = {}
      BY <1>1, <1>2, <1>5, StartIs
    <2>2. Leads(q, Off, Off, on, Free)
      <3>1. CASE q = dw_uart_abort(d)
        BY <1>1, <3>1, AbortLeads
      <3>2. CASE q = dw_uart_dis_cbr(d)
        <4>1. Leads(q, Even({}), Even({} \ {d}), on, Free)
          BY <1>1, <2>1, <3>2, DisLeads
        <4> QED
          BY <2>1, <4>1 DEF Off
      <3> QED
        BY <3>1, <3>2
    <2> QED
      BY <1>1, <2>1, <2>2, CallBooks DEF on
  <1>6. CASE on /\ ~ Free /\ int_status \subseteq {"gint", d}
    <2>1. s \in Even({d})
      <3>1. s.int \subseteq {"gint", d}
        BY <1>6 DEF Switches
      <3> QED
        BY <1>2, <3>1 DEF Even, Dir
    <2>2. {d} \in SUBSET Dir /\ {d} \ {d} = {} /\ Off \subseteq Even(Dir)
      BY EvenIs
    <2>3. Leads(q, Even({d}), Off, on, Free)
      <3>1. CASE q = dw_uart_abort(d)
        <4>1. Leads(q, IF on THEN Even({d}) ELSE Even(Dir), Start(on), on, Free)
          BY <1>1, <1>6, <3>1, AbortLeads
        <4> QED
          BY <1>1, <1>6, <4>1, StartIs
      <3>2. CASE q = dw_uart_dis_cbr(d)
        <4>1. Leads(q, Even({d}), Even({d} \ {d}), on, Free)
          BY <1>1, <1>6, <2>2, <3>2, DisLeads
        <4> QED
          BY <2>2, <4>1 DEF Off
      <3> QED
        BY <3>1, <3>2
    <2> QED
      BY <1>1, <2>1, <2>2, <2>3, CallBooks DEF on
  <1> QED
    BY <1>3, <1>4, <1>5, <1>6

LEMMA InterruptBooks ==
  ASSUME Careful, BooksInv, UInv', NEW d \in Dir, ABORT(d) \/ SET_INT(d) \/ SET_INT_BUF(d)
  PROVE  ThreadSound' /\ LoadedSound' /\ RoutineSound'
  <1>1. opn_cnt > 0 /\ Alone \in BOOLEAN /\ Undisturbed(d) \in BOOLEAN
    BY DEF ABORT, SET_INT, SET_INT_BUF, Available, Alone, Undisturbed
  <1>2. ASSUME NEW q \in {dw_uart_abort(d), dw_uart_dis_cbr(d)}, Calls(q),
               NEW c \in {"ABORT", "SET_INT"}, Allowed(c, Undisturbed(d))
        PROVE  ThreadSound' /\ LoadedSound' /\ RoutineSound'
    <2>1. Undisturbed(d)
      BY <1>1, <1>2, AllowedIs
    <2> QED
      BY <1>1, <1>2, <2>1, EndBooks
  <1>3. CASE ABORT(d)
    BY <1>2, <1>3 DEF ABORT
  <1>4. CASE SET_INT(d)
    <2>1. CASE Allowed("SET_INT", Undisturbed(d)) /\ Calls(dw_uart_dis_cbr(d))
      BY <1>2, <2>1
    <2>2. CASE /\ Allowed("SET_INT", Alone /\ (d \in owed \/ ~ buf[d].set))
               /\ Calls(dw_uart_ena_cbr(d))
      <3> DEFINE c == Alone /\ (d \in owed \/ ~ buf[d].set)
                 q == dw_uart_ena_cbr(d)
      <3>1. c \in BOOLEAN
        OBVIOUS
      <3>2. Allowed("SET_INT", c)
        BY <2>2
      <3>3. c
        <4> HIDE DEF c
        <4> QED
          BY <3>1, <3>2, AllowedIs
      <3>4. \A e \in BOOLEAN, f \in BOOLEAN : Leads(q, Start(e), Even(Dir), e, f)
        BY EnaLeads DEF Start
      <3>5. Calls(q) /\ Alone
        BY <2>2, <3>3
      <3> HIDE DEF q
      <3> QED
        BY <1>1, <3>4, <3>5, AloneBooks
    <2> QED
      BY <1>4, <2>1, <2>2 DEF SET_INT
  <1>5. CASE SET_INT_BUF(d)
    <2> DEFINE c == Alone /\ d \notin int_status
    <2>1. Allowed("SET_INT_BUF", c) /\ c \in BOOLEAN
      BY <1>5 DEF SET_INT_BUF
    <2> HIDE DEF c
    <2>2. c
      BY <2>1, AllowedIs
    <2>3. Alone
      BY <2>2 DEF c
    <2>4. PICK q : /\ Calls(q)
                   /\ q = <<ClearBuf(d)>> \/ \E n \in Lens : q = <<Access("buffer", TRUE, d, n)>>
      BY <1>5 DEF SET_INT_BUF
    <2>5. Framed(q) /\ Of(q, Calm)
      <3>1. CASE q = <<ClearBuf(d)>>
        BY <3>1, DeviceFramed, CalmCalls
      <3>2. ASSUME NEW n \in Lens, q = <<Access("buffer", TRUE, d, n)>>
            PROVE  Framed(q) /\ Of(q, Calm)
        <4>1. Access("buffer", TRUE, d, n) \in Accesses /\ Access("buffer", TRUE, d, n).op = "buffer"
          BY UartAssumption, SingleAccess DEF Access
        <4> QED
          BY <3>2, <4>1, ShortFramed, CalmCalls DEF Straight
      <3> QED
        BY <2>4, <3>1, <3>2
    <2> QED
      BY <1>1, <2>3, <2>4, <2>5, CalmBooks
  <1> QED
    BY <1>3, <1>4, <1>5

LEMMA PolledBooks ==
  ASSUME Careful, BooksInv, UInv', NEW n \in Lens,
         dw_uart_write(n) \/ dw_uart_read(n)
  PROVE  ThreadSound' /\ LoadedSound' /\ RoutineSound'
  <1>1. n \in Nat /\ next \in Nat /\ next >= 1
    BY UartAssumption DEF BooksInv, UInv, Buffers
  <1>3. CASE dw_uart_read(n)
    <2> DEFINE c == Alone /\ Quiet("rx")
               q == [k \in 1 .. n |-> Op("read", TRUE, "")]
    <2>1. opn_cnt > 0 /\ Allowed("read", c) /\ c \in BOOLEAN /\ Calls(q)
      BY <1>3 DEF dw_uart_read, Available
    <2> HIDE DEF c
    <2>2. c
      BY <2>1, AllowedIs
    <2>3. Alone
      BY <2>2 DEF c
    <2>4. Framed(q) /\ Of(q, Calm)
      BY <1>1, PolledFramed, CalmCalls
    <2> HIDE DEF q
    <2> QED
      BY <2>1, <2>3, <2>4, CalmBooks
  <1>4. CASE dw_uart_write(n)
    <2> DEFINE c == Alone /\ Quiet("tx")
               q == [k \in 1 .. n |-> Number("write", next + k - 1)]
               on == ~ masked
    <2>1. /\ opn_cnt > 0 /\ Allowed("write", c) /\ c \in BOOLEAN /\ Call(q) /\ Idle
          /\ next + n <= MaxByte + 1 /\ UNCHANGED <<ints, dlab, masked, tmp, cbs>>
          /\ Rest' = Even(Dir) /\ on \in BOOLEAN /\ Free \in BOOLEAN
      BY <1>4 DEF dw_uart_write, Available, info, line, Rest, Free
    <2> HIDE DEF c, on
    <2>2. c
      BY <2>1, AllowedIs
    <2>3. Alone
      BY <2>2 DEF c
    <2>4. Framed(q) /\ Of(q, Calm)
      BY <1>1, <2>1, PolledFramed, CalmCalls
    <2>5. Switches \in Start(on)
      BY <2>1, <2>3, IdleBooks DEF on
    <2>6. /\ Start(on) \in SUBSET States /\ (on => Shut(Start(on)))
          /\ Start(on) \subseteq Even(Dir)
      BY <2>1, StartIs
    <2> HIDE DEF q
    <2>7. Leads(q, Start(on), Start(on), on, Free)
      BY <2>1, <2>4, <2>6, CalmLeads
    <2> QED
      BY <2>1, <2>5, <2>6, <2>7, CallBooks DEF on
  <1> QED
    BY <1>3, <1>4

LEMMA ApiBooks ==
  ASSUME Careful, BooksInv, UInv', Api
  PROVE  ThreadSound' /\ LoadedSound' /\ RoutineSound'
  <1>1. ASSUME NEW d \in Dir, SET_CB(d)
        PROVE  ThreadSound' /\ LoadedSound' /\ RoutineSound'
    <2>1. Idle /\ UNCHANGED <<ints, dlab, todo, tmp>> /\ Rest' = Rest
      BY <1>1 DEF SET_CB, Rest, line
    <2> QED
      BY <2>1, RestBooks
  <1>2. CASE Mask
    <2>1. Idle /\ UNCHANGED <<ints, dlab, todo, tmp>> /\ Rest' = Rest
      BY <1>2 DEF Mask, Rest, info, line
    <2> QED
      BY <2>1, RestBooks
  <1>3. CASE FLUSH_OUTPUT
    <2>1. opn_cnt > 0 /\ Alone /\ Calls(dw_uart_flush_output)
      <3>1. opn_cnt > 0 /\ Allowed("FLUSH_OUTPUT", Alone) /\ Calls(dw_uart_flush_output)
        BY <1>3 DEF FLUSH_OUTPUT, Available
      <3> QED
        BY <3>1, AllowedIs DEF Alone
    <2> QED
      BY <2>1, FlushFramed, CalmCalls, CalmBooks
  <1> QED
    BY <1>1, <1>2, <1>3, OpenBooks, CloseBooks, DeviceBooks, InterruptBooks, PolledBooks DEF Api

LEMMA BooksKept ==
  ASSUME Careful, NonEmpty, BooksInv, [Next]_vars
  PROVE  BooksInv'
  <1>1. UInv'
    BY InvariantKept DEF BooksInv
  <1>2. ASSUME UNCHANGED <<opn_cnt, cbs, ints, dlab, masked, todo, tmp>>
        PROVE  ThreadSound' /\ LoadedSound' /\ RoutineSound'
    <2>1. /\ Switches' = Switches /\ Free' = Free /\ Rest' = Rest /\ (~ masked)' = ~ masked
          /\ UNCHANGED <<todo, tmp, masked, opn_cnt, ier, int_status>>
      BY <1>2 DEF Switches, Free, Rest, ints
    <2>2. ThreadSound'
      BY <2>1 DEF BooksInv, ThreadSound
    <2>3. LoadedSound'
      BY <2>1 DEF BooksInv, LoadedSound, Modifies, Now, Word
    <2>4. RoutineSound'
      BY <2>1 DEF BooksInv, RoutineSound, Window, Serving, Now
    <2> QED
      BY <2>2, <2>3, <2>4
  <1>3. CASE Sent \/ Received \/ UNCHANGED vars
    <2>1. UNCHANGED <<opn_cnt, cbs, ints, dlab, masked, todo, tmp>>
      BY <1>3 DEF Sent, Received, vars, info, line
    <2> QED
      BY <1>1, <1>2, <2>1 DEF BooksInv
  <1>4. ASSUME NEW x \in Context, Step(x)
        PROVE  BooksInv'
    BY <1>1, <1>4, ThreadKeepsBooks, RoutineKeepsBooks DEF Context, BooksInv
  <1>5. CASE Api
    BY <1>1, <1>5, ApiBooks DEF BooksInv
  <1>6. CASE dw_uart_isr
    BY <1>1, <1>6, EntryKeepsBooks DEF BooksInv
  <1> QED
    BY <1>3, <1>4, <1>5, <1>6 DEF Next

LEMMA BooksHold == Init => BooksInv
  <1> SUFFICES ASSUME Init
               PROVE  BooksInv
    OBVIOUS
  <1>1. UInv
    BY InvariantHolds
  <1>2. Switches \in Off
    <2>1. Switches \in States
      BY <1>1, SwitchesIs
    <2> QED
      BY <2>1, EvenIs DEF Init, Switches
  <1>3. /\ todo["thread"] = <<>> /\ todo["isr"] = <<>> /\ tmp["thread"] = <<>> /\ Rest = Off
        /\ (~ masked) \in BOOLEAN /\ Free \in BOOLEAN
    BY DEF Init, Context, Rest, Free
  <1>4. {Switches} \subseteq Rest
    BY <1>2, <1>3
  <1>5. Leads(<<>>, {Switches}, Rest, ~ masked, Free)
    <2> DEFINE on == ~ masked
    <2>1. on \in BOOLEAN
      BY <1>3
    <2> HIDE DEF on
    <2>2. Leads(<<>>, {Switches}, Rest, on, Free)
      BY <1>3, <1>4, <2>1, EmptyLeads
    <2> QED
      BY <2>2 DEF on
  <1> QED
    BY <1>1, <1>3, <1>5 DEF BooksInv, ThreadSound, LoadedSound, RoutineSound

(* However the routine preempts a client that masks its interrupt around   *)
(* the calls (dw_uart_isr against dw_uart_dis_cbr and dw_uart_ena_cbr,     *)
(* dw_uart.c), and also if the client gives the next buffer in a callback: *)
(* between calls int_status says what the controller and IER hold, and a   *)
(* closed device can interrupt nobody.                                     *)
THEOREM BooksAgree ==
  ASSUME Careful, NonEmpty
  PROVE  Spec => []Bookkeeping
  <1>1. BooksInv => Bookkeeping
    <2> SUFFICES ASSUME BooksInv, Idle
                 PROVE  /\ "gint" \in int_status <=> irq
                        /\ int_status \cap Dir = ier
                        /\ irq <=> ier # {}
                        /\ opn_cnt = 0 => ~ irq
      BY DEF Bookkeeping, Idle
    <2>1. Switches \in Rest /\ Switches \in Even(Dir) /\ ier \subseteq Dir
      BY IdleBooks DEF BooksInv, UInv, Words
    <2>2. /\ "gint" \in int_status <=> irq
          /\ \A d \in Dir : d \in int_status <=> d \in ier
          /\ irq <=> \E d \in Dir : d \in ier
      BY <2>1 DEF Even, Switches
    <2>3. opn_cnt = 0 => ~ irq
      <3>1. opn_cnt = 0 => Switches \in Off
        BY <2>1 DEF Rest
      <3> QED
        BY <3>1, EvenIs DEF Switches
    <2> QED
      BY <2>1, <2>2, <2>3
  <1> QED
    BY <1>1, BooksHold, BooksKept, PTL DEF Spec
=============================================================================
