---------------------------- MODULE ReaderProofs ----------------------------
(***************************************************************************)
(* For any sizes of the buffers, any objects and any sequence of calls of  *)
(* one Loader: the program headers a call returns are those of its object, *)
(* a call refuses only for a cause, and load closes what it was given.     *)
(*                                                                         *)
(* The argument: the buffers keep what earlier calls left in them, but the *)
(* first rd.got bytes are always the object's own (ReadProgress), and a    *)
(* read ends with rd.got at the size asked for; so what is looked at is    *)
(* what has been read.                                                     *)
(***************************************************************************)
EXTENDS Reader, SequenceTheorems, TLAPS

Busy == {"seek", "read", "header"}
Byte == (Objects \X Nat) \cup {Junk}

ReaderTypes ==
  /\ stack_buf \in [1 .. BufSize -> Byte]
  /\ heap_buf \in Seq(Byte)
  /\ fd \in [Objects -> {"none", "open", "closed"}]
  /\ fpos \in [Objects -> Nat]
  /\ ehdrs \subseteq Objects
  /\ pc \in Busy \cup {"idle"}
  /\ troubled \in BOOLEAN

(* The call under way, and which read it is at. *)
CallShape ==
  pc \in Busy =>
    /\ call \in [op : {"read_ehdr", "read_phdr", "load"}, obj : Objects]
    /\ rd \in [buf : {"ehdr", "stack", "heap"}, off : Nat, got : Nat]
    /\ result = NoResult
    /\ fd[call.obj] = "open"
    /\ rd.buf = "ehdr"  <=> call.op = "read_ehdr"
    /\ rd.buf = "stack" => call.op = "load"
    /\ rd.buf \in {"ehdr", "stack"} => rd.off = 0
    /\ rd.buf = "heap" /\ ~Obj[call.obj].shared =>
         /\ rd.off = Obj[call.obj].phdr_start
         /\ Len(heap_buf) = Table(call.obj)
         /\ call.op = "load" => Obj[call.obj].phdr_end > BufSize

(* The bytes read so far. *)
Buf == IF rd.buf = "heap" THEN heap_buf ELSE stack_buf

ReadProgress ==
  pc \in Busy =>
    /\ rd.got <= Size
    /\ pc = "seek" => rd.got = 0
    /\ pc = "header" => rd.got = Size
    /\ ~Obj[call.obj].shared =>
         /\ pc = "read" => fpos[call.obj] = rd.off + rd.got
         /\ \A i \in 1 .. rd.got : Buf[i] = <<call.obj, rd.off + i - 1>>

ReaderInv ==
  /\ ReaderTypes /\ CallShape /\ ReadProgress
  /\ PhdrsOfThisObject /\ RefusedOnlyForCause

-----------------------------------------------------------------------------
LEMMA ObjectTypes ==
  ASSUME NEW o \in Objects
  PROVE  /\ Obj[o].kind \in Kinds /\ Obj[o].len \in Nat /\ Obj[o].valid \in BOOLEAN
         /\ Obj[o].phdr_start \in Nat /\ Obj[o].phdr_end \in Nat /\ Obj[o].shared \in BOOLEAN
         /\ Obj[o].phdr_start <= Obj[o].phdr_end /\ Table(o) \in Nat
         /\ Obj[o].phdr_start + Table(o) = Obj[o].phdr_end
<1>1. Obj[o] \in [kind : Kinds, len : Nat, valid : BOOLEAN, phdr_start : Nat,
                  phdr_end : Nat, shared : BOOLEAN]
  BY ReaderAssumption
<1>2. Obj[o].phdr_start <= Obj[o].phdr_end
  BY ReaderAssumption
<1> QED
  BY <1>1, <1>2 DEF Table

LEMMA Sizes == BufSize \in Nat /\ EhdrSize \in Nat /\ 1 <= EhdrSize /\ EhdrSize <= BufSize
BY ReaderAssumption

LEMMA HeapDomain ==
  ASSUME ReaderTypes
  PROVE  Len(heap_buf) \in Nat /\ heap_buf \in [1 .. Len(heap_buf) -> Byte]
BY LenProperties DEF ReaderTypes

(* A function on 1 .. n is a sequence of that length. *)
LEMMA FunctionIsSeq ==
  ASSUME NEW n \in Nat, NEW S, NEW f \in [1 .. n -> S]
  PROVE  f \in Seq(S) /\ Len(f) = n
<1>1. f \in Seq(S)
  BY SeqDef
<1>2. Len(f) \in Nat /\ DOMAIN f = 1 .. Len(f) /\ DOMAIN f = 1 .. n
  BY <1>1, LenProperties
<1> QED
  BY <1>1, <1>2

LEMMA ResizedSeq ==
  ASSUME NEW b \in Seq(Byte), NEW n \in Nat
  PROVE  Resized(b, n) \in Seq(Byte) /\ Len(Resized(b, n)) = n
<1>1. Len(b) \in Nat /\ \A i \in 1 .. Len(b) : b[i] \in Byte
  BY LenProperties, ElementOfSeq
<1>2. Junk \in Byte
  BY DEF Byte
<1>3. \A i \in 1 .. n : (IF i <= Len(b) THEN b[i] ELSE Junk) \in Byte
  BY <1>1, <1>2
<1>4. Resized(b, n) \in [1 .. n -> Byte]
  BY <1>3 DEF Resized
<1> QED
  BY <1>4, FunctionIsSeq

(* What is asked for fits the buffer it is read into. *)
LEMMA SizeFits ==
  ASSUME ReaderInv, pc \in Busy
  PROVE  /\ Size \in Nat
         /\ rd.buf # "heap" => Size <= BufSize
         /\ rd.buf = "heap" => Size = Len(heap_buf)
         /\ rd.buf = "stack" => Size = BufSize
         /\ rd.buf = "ehdr" => Size = EhdrSize
<1>1. rd.buf \in {"ehdr", "stack", "heap"} /\ Len(heap_buf) \in Nat
  BY HeapDomain DEF ReaderInv, CallShape
<1> QED
  BY <1>1, Sizes DEF Size

LEMMA FillBytes ==
  ASSUME ReaderInv, pc \in Busy, NEW m \in Nat, NEW b \in [1 .. m -> Byte],
         NEW p \in Nat, NEW n \in Nat
  PROVE  /\ Fill(b, p, n) \in [1 .. m -> Byte]
         /\ \A i \in 1 .. m : Fill(b, p, n)[i] =
              IF rd.got < i /\ i <= rd.got + n THEN <<call.obj, p + (i - rd.got - 1)>> ELSE b[i]
<1>1. rd.got \in Nat /\ call.obj \in Objects
  BY DEF ReaderInv, CallShape
<1>2. \A i \in 1 .. m : (IF rd.got < i /\ i <= rd.got + n
                         THEN <<call.obj, p + (i - rd.got - 1)>> ELSE b[i]) \in Byte
  <2>1. ASSUME NEW i \in 1 .. m, rd.got < i PROVE <<call.obj, p + (i - rd.got - 1)>> \in Byte
    <3>1. p + (i - rd.got - 1) \in Nat
      BY <1>1, <2>1
    <3> QED
      BY <1>1, <3>1 DEF Byte
  <2>2. \A i \in 1 .. m : b[i] \in Byte
    OBVIOUS
  <2> QED
    BY <2>1, <2>2
<1> QED
  BY <1>2 DEF Fill

(* The buffers after some bytes have been put into the one being read. *)
LEMMA FillKeepsTypes ==
  ASSUME ReaderInv, pc \in Busy, NEW p \in Nat, NEW n \in Nat, rd.got + n <= Size,
         IF rd.buf = "heap" THEN heap_buf' = Fill(heap_buf, p, n) /\ UNCHANGED stack_buf
         ELSE stack_buf' = Fill(stack_buf, p, n) /\ UNCHANGED heap_buf
  PROVE  /\ stack_buf' \in [1 .. BufSize -> Byte] /\ heap_buf' \in Seq(Byte)
         /\ Len(heap_buf') = Len(heap_buf)
         /\ \A i \in 1 .. rd.got : (IF rd.buf = "heap" THEN heap_buf' ELSE stack_buf')[i] = Buf[i]
         /\ \A i \in rd.got + 1 .. rd.got + n :
              (IF rd.buf = "heap" THEN heap_buf' ELSE stack_buf')[i]
                = <<call.obj, p + (i - rd.got - 1)>>
<1>1. rd.got \in Nat /\ ReaderTypes
  BY DEF ReaderInv, CallShape
<1>2. CASE rd.buf = "heap"
  <2> DEFINE m == Len(heap_buf)
             h == Fill(heap_buf, p, n)
  <2>1. m \in Nat /\ heap_buf \in [1 .. m -> Byte] /\ Size = m
    BY <1>1, <1>2, HeapDomain, SizeFits
  <2>2. /\ h \in [1 .. m -> Byte]
        /\ \A i \in 1 .. m : h[i] =
             IF rd.got < i /\ i <= rd.got + n THEN <<call.obj, p + (i - rd.got - 1)>> ELSE heap_buf[i]
    BY <2>1, FillBytes
  <2>3. heap_buf' = h /\ stack_buf' = stack_buf /\ Buf = heap_buf
    BY <1>2 DEF Buf
  <2> HIDE DEF h, m
  <2>4. h \in Seq(Byte) /\ Len(h) = m
    BY <2>1, <2>2, FunctionIsSeq
  <2>5. \A i \in 1 .. rd.got : i \in 1 .. m /\ ~(rd.got < i)
    BY <1>1, <2>1
  <2>6. \A i \in rd.got + 1 .. rd.got + n : i \in 1 .. m /\ rd.got < i /\ i <= rd.got + n
    BY <1>1, <2>1
  <2> QED
    BY <1>1, <1>2, <2>2, <2>3, <2>4, <2>5, <2>6 DEF ReaderTypes, m
<1>3. CASE rd.buf # "heap"
  <2> DEFINE h == Fill(stack_buf, p, n)
  <2>1. BufSize \in Nat /\ stack_buf \in [1 .. BufSize -> Byte] /\ Size <= BufSize /\ Size \in Nat
    BY <1>1, <1>3, Sizes, SizeFits DEF ReaderTypes
  <2>2. /\ h \in [1 .. BufSize -> Byte]
        /\ \A i \in 1 .. BufSize : h[i] =
             IF rd.got < i /\ i <= rd.got + n THEN <<call.obj, p + (i - rd.got - 1)>> ELSE stack_buf[i]
    BY <2>1, FillBytes
  <2>3. stack_buf' = h /\ heap_buf' = heap_buf /\ Buf = stack_buf
    BY <1>3 DEF Buf
  <2> HIDE DEF h
  <2>4. \A i \in 1 .. rd.got : i \in 1 .. BufSize /\ ~(rd.got < i)
    BY <1>1, <2>1
  <2>5. \A i \in rd.got + 1 .. rd.got + n : i \in 1 .. BufSize /\ rd.got < i /\ i <= rd.got + n
    BY <1>1, <2>1
  <2> QED
    BY <1>1, <1>3, <2>2, <2>3, <2>4, <2>5 DEF ReaderTypes
<1> QED
  BY <1>2, <1>3

-----------------------------------------------------------------------------
LEMMA InitReader == Init => ReaderInv
<1> SUFFICES ASSUME Init PROVE ReaderInv
  OBVIOUS
<1>1. /\ stack_buf = [i \in 1 .. BufSize |-> Junk] /\ heap_buf = <<>> /\ pc = "idle"
      /\ fd = [o \in Objects |-> IF Obj[o].kind = "binary" THEN "open" ELSE "none"]
      /\ fpos = [o \in Objects |-> 0] /\ ehdrs = {} /\ troubled = FALSE /\ result = NoResult
  BY DEF Init
<1>2. Junk \in Byte
  BY DEF Byte
<1>3. troubled \in BOOLEAN
  BY <1>1, Zenon
<1>4. stack_buf \in [1 .. BufSize -> Byte] /\ heap_buf \in Seq(Byte)
  BY <1>1, <1>2
<1>5. ReaderTypes
  BY <1>1, <1>3, <1>4 DEF ReaderTypes
<1>6. CallShape /\ ReadProgress
  BY <1>1 DEF CallShape, ReadProgress, Busy
<1>7. result.how = "none" /\ result.op = "none"
  BY <1>1 DEF NoResult
<1>8. PhdrsOfThisObject /\ RefusedOnlyForCause
  BY <1>1, <1>7 DEF PhdrsOfThisObject, RefusedOnlyForCause
<1> QED
  BY <1>5, <1>6, <1>8 DEF ReaderInv

LEMMA OpenKeeps == ASSUME ReaderInv, NEW o \in Objects, Open(o) PROVE ReaderInv'
<1>1. /\ pc = "idle" /\ fd[o] = "none" /\ fd' = [fd EXCEPT ![o] = "open"]
      /\ UNCHANGED <<stack_buf, heap_buf, fpos, ehdrs, pc, call, rd, troubled, result>>
  BY DEF Open
<1>2. ReaderTypes'
  BY <1>1 DEF ReaderInv, ReaderTypes
<1>3. CallShape' /\ ReadProgress'
  BY <1>1 DEF CallShape, ReadProgress, Busy
<1>4. PhdrsOfThisObject' /\ RefusedOnlyForCause'
  BY <1>1 DEF ReaderInv, PhdrsOfThisObject, RefusedOnlyForCause
<1> QED
  BY <1>2, <1>3, <1>4 DEF ReaderInv

(* While a call is under way there is no result to judge. *)
LEMMA NoResultYet ==
  ASSUME result' = NoResult
  PROVE  PhdrsOfThisObject' /\ RefusedOnlyForCause'
<1>1. result'.how = "none" /\ result'.op = "none"
  BY DEF NoResult
<1> QED
  BY <1>1 DEF PhdrsOfThisObject, RefusedOnlyForCause

(* A read begins: nothing has been read, and nothing in the buffer counts. *)
LEMMA BeginKeeps ==
  ASSUME ReaderInv, NEW o \in Objects, NEW op \in {"read_ehdr", "read_phdr", "load"},
         NEW buf \in {"ehdr", "stack", "heap"}, NEW off \in Nat,
         fd[o] = "open", UNCHANGED <<stack_buf, fd, fpos, ehdrs>>,
         call' = [op |-> op, obj |-> o], result' = NoResult, pc' = "seek",
         troubled' \in BOOLEAN, rd' = [buf |-> buf, off |-> off, got |-> 0],
         buf = "ehdr" <=> op = "read_ehdr", buf = "stack" => op = "load",
         buf \in {"ehdr", "stack"} => off = 0 /\ heap_buf' = heap_buf,
         buf = "heap" => /\ heap_buf' \in Seq(Byte)
                         /\ ~Obj[o].shared => /\ off = Obj[o].phdr_start
                                              /\ Len(heap_buf') = Table(o)
                                              /\ op = "load" => Obj[o].phdr_end > BufSize
  PROVE  ReaderInv'
<1>1. /\ call'.op = op /\ call'.obj = o /\ rd'.buf = buf /\ rd'.off = off /\ rd'.got = 0
      /\ call' \in [op : {"read_ehdr", "read_phdr", "load"}, obj : Objects]
      /\ rd' \in [buf : {"ehdr", "stack", "heap"}, off : Nat, got : Nat]
  OBVIOUS
<1>2. heap_buf' \in Seq(Byte)
  BY DEF ReaderInv, ReaderTypes
<1>3. ReaderTypes'
  BY <1>2 DEF ReaderInv, ReaderTypes, Busy
<1>4. CallShape'
  BY <1>1 DEF CallShape
<1>5. Size' \in Nat
  BY <1>1, <1>2, Sizes, LenProperties DEF Size
<1>6. ReadProgress'
  BY <1>1, <1>5 DEF ReadProgress
<1>7. PhdrsOfThisObject' /\ RefusedOnlyForCause'
  BY <1>1, NoResultYet
<1> QED
  BY <1>3, <1>4, <1>6, <1>7 DEF ReaderInv

LEMMA ReadEhdrKeeps == ASSUME ReaderInv, NEW o \in Objects, ReadEhdr(o) PROVE ReaderInv'
<1>1. troubled' \in BOOLEAN
  BY Zenon DEF ReadEhdr, Begin
<1> QED
  BY <1>1, BeginKeeps DEF ReadEhdr, Begin

LEMMA ReadPhdrKeeps == ASSUME ReaderInv, NEW o \in Objects, ReadPhdr(o) PROVE ReaderInv'
<1>1. troubled' \in BOOLEAN
  BY Zenon DEF ReadPhdr, Begin
<1>2. /\ fd[o] = "open" /\ UNCHANGED <<stack_buf, fd, fpos, ehdrs>>
      /\ call' = [op |-> "read_phdr", obj |-> o] /\ result' = NoResult /\ pc' = "seek"
      /\ heap_buf' = Resized(heap_buf, Table(o))
      /\ rd' = [buf |-> "heap", off |-> Obj[o].phdr_start, got |-> 0]
  BY DEF ReadPhdr, Begin
<1>3. heap_buf' \in Seq(Byte) /\ Len(heap_buf') = Table(o) /\ Obj[o].phdr_start \in Nat
  BY <1>2, ResizedSeq, ObjectTypes DEF ReaderInv, ReaderTypes
<1> QED
  BY <1>1, <1>2, <1>3, BeginKeeps

LEMMA LoadKeeps == ASSUME ReaderInv, NEW o \in Objects, Load(o) PROVE ReaderInv'
<1>1. troubled' \in BOOLEAN
  BY Zenon DEF Load, Begin
<1> QED
  BY <1>1, BeginKeeps DEF Load, Begin

-----------------------------------------------------------------------------
(* The end of a call: what it returns is judged here. *)
LEMMA ReturnKeeps ==
  ASSUME ReaderInv, pc \in Busy, NEW how \in {"ok", "err", "panic", "mismatch"}, NEW phdrs,
         Return(how, phdrs),
         stack_buf' \in [1 .. BufSize -> Byte], heap_buf' \in Seq(Byte),
         fpos' \in [Objects -> Nat], ehdrs' \subseteq Objects, troubled' \in BOOLEAN,
         how = "ok" /\ call.op # "read_ehdr" /\ ~Obj[call.obj].shared =>
           phdrs = [i \in 1 .. Obj[call.obj].phdr_end - Obj[call.obj].phdr_start |->
                      <<call.obj, Obj[call.obj].phdr_start + i - 1>>],
         how \in {"err", "panic"} /\ ~troubled' /\ ~Obj[call.obj].shared =>
           \/ ~Obj[call.obj].valid
           \/ rd.off + Size > Obj[call.obj].len
  PROVE  ReaderInv'
<1> DEFINE o == call.obj
<1>1. /\ call \in [op : {"read_ehdr", "read_phdr", "load"}, obj : Objects] /\ o \in Objects
      /\ rd \in [buf : {"ehdr", "stack", "heap"}, off : Nat, got : Nat]
      /\ fd \in [Objects -> {"none", "open", "closed"}]
  BY DEF ReaderInv, CallShape, ReaderTypes
<1>2. /\ result' = [op |-> call.op, obj |-> call.obj, how |-> how, phdrs |-> phdrs]
      /\ fd' = Closed /\ pc' = "idle"
  BY DEF Return
<1>3. result'.op = call.op /\ result'.obj = o /\ result'.how = how /\ result'.phdrs = phdrs
  BY <1>2
<1>4. fd' \in [Objects -> {"none", "open", "closed"}]
  BY <1>1, <1>2 DEF Closed
<1>5. ReaderTypes'
  BY <1>2, <1>4 DEF ReaderTypes
<1>6. CallShape' /\ ReadProgress'
  BY <1>2 DEF CallShape, ReadProgress, Busy
<1>7. PhdrsOfThisObject'
  BY <1>3 DEF PhdrsOfThisObject
<1>8. RefusedOnlyForCause'
  <2> SUFFICES ASSUME how \in {"err", "panic"}, ~troubled', ~Obj[o].shared, Obj[o].valid
               PROVE  Obj[o].len < (CASE call.op = "read_ehdr" -> EhdrSize
                                      [] call.op = "read_phdr" -> Obj[o].phdr_end
                                      [] OTHER -> IF Obj[o].phdr_end > BufSize
                                                  THEN Obj[o].phdr_end ELSE BufSize)
    BY <1>3 DEF RefusedOnlyForCause
  <2>1. rd.off + Size > Obj[o].len
    OBVIOUS
  <2>2. /\ rd.buf = "ehdr" <=> call.op = "read_ehdr"
        /\ rd.buf = "stack" => call.op = "load"
        /\ rd.buf \in {"ehdr", "stack"} => rd.off = 0
        /\ rd.buf = "heap" => /\ rd.off = Obj[o].phdr_start /\ Len(heap_buf) = Table(o)
                              /\ call.op = "load" => Obj[o].phdr_end > BufSize
    BY DEF ReaderInv, CallShape
  <2>3. /\ rd.buf = "heap" => rd.off + Size = Obj[o].phdr_end
        /\ rd.buf = "stack" => rd.off + Size = BufSize
        /\ rd.buf = "ehdr" => rd.off + Size = EhdrSize
    BY <1>1, <2>2, SizeFits, ObjectTypes, Sizes
  <2>4. Obj[o].len \in Nat /\ Obj[o].phdr_end \in Nat /\ BufSize \in Nat /\ EhdrSize \in Nat
    BY <1>1, ObjectTypes, Sizes
  <2> HIDE DEF o
  <2> QED
    BY <1>1, <2>1, <2>2, <2>3, <2>4
<1> QED
  BY <1>5, <1>6, <1>7, <1>8 DEF ReaderInv

LEMMA BusyTypes ==
  ASSUME ReaderInv, pc \in Busy
  PROVE  /\ call \in [op : {"read_ehdr", "read_phdr", "load"}, obj : Objects]
         /\ call.obj \in Objects /\ O = Obj[call.obj]
         /\ rd \in [buf : {"ehdr", "stack", "heap"}, off : Nat, got : Nat]
         /\ rd.off \in Nat /\ rd.got \in Nat /\ Size \in Nat /\ rd.got <= Size
         /\ O.len \in Nat /\ fpos[call.obj] \in Nat
         /\ stack_buf \in [1 .. BufSize -> Byte] /\ heap_buf \in Seq(Byte)
         /\ fpos \in [Objects -> Nat] /\ ehdrs \subseteq Objects /\ troubled \in BOOLEAN
         /\ result = NoResult /\ fd[call.obj] = "open"
<1>1. ReaderTypes /\ CallShape /\ ReadProgress
  BY DEF ReaderInv
<1>2. /\ call \in [op : {"read_ehdr", "read_phdr", "load"}, obj : Objects]
      /\ rd \in [buf : {"ehdr", "stack", "heap"}, off : Nat, got : Nat]
      /\ rd.got <= Size /\ result = NoResult /\ fd[call.obj] = "open"
  BY <1>1 DEF CallShape, ReadProgress
<1>3. call.obj \in Objects /\ rd.off \in Nat /\ rd.got \in Nat
  BY <1>2
<1>4. O.len \in Nat /\ O = Obj[call.obj]
  BY <1>3, ObjectTypes DEF O
<1> QED
  BY <1>1, <1>2, <1>3, <1>4, SizeFits DEF ReaderTypes

(* Bytes arrive: they continue the ones that are there. *)
LEMMA DeliverKeeps ==
  ASSUME ReaderInv, pc \in {"seek", "read"}, NEW p \in Nat, NEW n \in Nat, rd.got + n <= Size,
         Deliver(p, n), UNCHANGED <<fd, ehdrs, call, troubled, result>>,
         fpos' \in [Objects -> Nat],
         pc' \in {"read", "header"}, pc' = "header" => rd.got + n = Size,
         ~Obj[call.obj].shared =>
           p = rd.off + rd.got /\ (pc' = "read" => fpos'[call.obj] = p + n)
  PROVE  ReaderInv'
<1>1. pc \in Busy /\ pc' \in Busy /\ pc' # "seek"
  BY DEF Busy
<1>2. /\ rd \in [buf : {"ehdr", "stack", "heap"}, off : Nat, got : Nat]
      /\ rd.off \in Nat /\ rd.got \in Nat /\ Size \in Nat
      /\ result = NoResult /\ fd[call.obj] = "open"
  BY <1>1, BusyTypes
<1>3. /\ rd' = [rd EXCEPT !.got = @ + n]
      /\ IF rd.buf = "heap" THEN heap_buf' = Fill(heap_buf, p, n) /\ UNCHANGED stack_buf
         ELSE stack_buf' = Fill(stack_buf, p, n) /\ UNCHANGED heap_buf
  BY DEF Deliver
<1>4. /\ rd' \in [buf : {"ehdr", "stack", "heap"}, off : Nat, got : Nat]
      /\ rd'.buf = rd.buf /\ rd'.off = rd.off /\ rd'.got = rd.got + n
  BY <1>2, <1>3
<1>5. /\ stack_buf' \in [1 .. BufSize -> Byte] /\ heap_buf' \in Seq(Byte)
      /\ Len(heap_buf') = Len(heap_buf)
      /\ \A i \in 1 .. rd.got : Buf'[i] = Buf[i]
      /\ \A i \in rd.got + 1 .. rd.got + n : Buf'[i] = <<call.obj, p + (i - rd.got - 1)>>
  BY <1>1, <1>3, <1>4, FillKeepsTypes DEF Buf
<1>6. ReaderTypes'
  BY <1>1, <1>5 DEF ReaderInv, ReaderTypes
<1>7. CallShape'
  BY <1>1, <1>4, <1>5 DEF ReaderInv, CallShape
<1>8. Size' = Size
  BY <1>4, <1>5 DEF Size
<1>9. ReadProgress'
  <2>1. rd'.got <= Size' /\ (pc' = "header" => rd'.got = Size')
    BY <1>4, <1>8
  <2>2. ASSUME ~Obj[call'.obj].shared
        PROVE  /\ pc' = "read" => fpos'[call'.obj] = rd'.off + rd'.got
               /\ \A i \in 1 .. rd'.got : Buf'[i] = <<call'.obj, rd'.off + i - 1>>
    <3>1. p = rd.off + rd.got /\ (pc' = "read" => fpos'[call.obj] = p + n)
      BY <2>2
    <3>2. \A i \in 1 .. rd.got : Buf[i] = <<call.obj, rd.off + i - 1>>
      BY <1>1, <2>2 DEF ReaderInv, ReadProgress
    <3>3. ASSUME NEW i \in 1 .. rd.got + n PROVE Buf'[i] = <<call.obj, rd.off + i - 1>>
      <4>1. CASE i <= rd.got
        <5>1. i \in 1 .. rd.got
          BY <1>2, <4>1
        <5> QED
          BY <1>5, <3>2, <5>1
      <4>2. CASE ~(i <= rd.got)
        <5>1. i \in rd.got + 1 .. rd.got + n /\ p + (i - rd.got - 1) = rd.off + i - 1
          BY <1>2, <3>1, <4>2
        <5> QED
          BY <1>5, <5>1
      <4> QED
        BY <4>1, <4>2
    <3>4. pc' = "read" => fpos'[call.obj] = rd.off + (rd.got + n)
      BY <1>2, <3>1
    <3> QED
      BY <1>4, <3>3, <3>4
  <2> QED
    BY <1>1, <2>1, <2>2 DEF ReadProgress
<1>10. PhdrsOfThisObject' /\ RefusedOnlyForCause'
  BY <1>2, NoResultYet
<1> QED
  BY <1>6, <1>7, <1>9, <1>10 DEF ReaderInv

LEMMA ReadBinaryKeeps == ASSUME ReaderInv, ReadBinary PROVE ReaderInv'
<1>1. /\ pc = "seek" /\ Deliver(rd.off, Size) /\ pc' = "header"
      /\ UNCHANGED <<fd, fpos, ehdrs, call, troubled, result>>
  BY DEF ReadBinary
<1>2. rd.got = 0 /\ rd.off \in Nat /\ Size \in Nat /\ fpos \in [Objects -> Nat]
  BY <1>1, BusyTypes DEF ReaderInv, ReadProgress, Busy
<1> QED
  BY <1>1, <1>2, DeliverKeeps

LEMMA SlicePanicsKeeps == ASSUME ReaderInv, SlicePanics PROVE ReaderInv'
<1>1. /\ pc \in Busy /\ rd.off + Size > O.len /\ Return("panic", <<>>)
      /\ UNCHANGED <<stack_buf, heap_buf, fpos, ehdrs, troubled>>
  BY DEF SlicePanics, Busy
<1> QED
  BY <1>1, BusyTypes, ReturnKeeps

(* The offset moves, the buffers and the call do not. *)
LEMMA SeekKeeps ==
  ASSUME ReaderInv, pc \in Busy, pc' = "read", fpos' \in [Objects -> Nat],
         ~Obj[call.obj].shared => fpos'[call.obj] = rd.off + rd.got,
         UNCHANGED <<stack_buf, heap_buf, fd, ehdrs, call, rd, troubled, result>>
  PROVE  ReaderInv'
<1>1. ReaderTypes'
  BY DEF ReaderInv, ReaderTypes, Busy
<1>2. CallShape'
  BY DEF ReaderInv, CallShape
<1>3. Size' = Size /\ Buf' = Buf
  BY DEF Size, Buf
<1>4. ReadProgress'
  BY <1>3 DEF ReaderInv, ReadProgress
<1>5. PhdrsOfThisObject' /\ RefusedOnlyForCause'
  BY BusyTypes, NoResultYet
<1> QED
  BY <1>1, <1>2, <1>4, <1>5 DEF ReaderInv

LEMMA LseekKeeps == ASSUME ReaderInv, Lseek PROVE ReaderInv'
<1>1. /\ pc = "seek" /\ pc \in Busy /\ fpos' = [fpos EXCEPT ![call.obj] = rd.off] /\ pc' = "read"
      /\ UNCHANGED <<stack_buf, heap_buf, fd, ehdrs, call, rd, troubled, result>>
  BY DEF Lseek, Busy
<1>2. rd.got = 0 /\ rd.off \in Nat /\ call.obj \in Objects /\ fpos \in [Objects -> Nat]
  BY <1>1, BusyTypes DEF ReaderInv, ReadProgress
<1>3. fpos' \in [Objects -> Nat] /\ fpos'[call.obj] = rd.off + rd.got
  BY <1>1, <1>2
<1> QED
  BY <1>1, <1>3, SeekKeeps

LEMMA OtherSeekKeeps ==
  ASSUME ReaderInv, NEW o \in Objects, NEW p \in {0, Obj[o].len}, OtherSeek(o, p)
  PROVE  ReaderInv'
<1>1. /\ pc = "read" /\ pc \in Busy /\ call.obj = o /\ Obj[o].shared
      /\ fpos' = [fpos EXCEPT ![o] = p] /\ pc' = "read"
      /\ UNCHANGED <<stack_buf, heap_buf, fd, ehdrs, call, rd, troubled, result>>
  BY DEF OtherSeek, Busy
<1>2. p \in Nat /\ fpos \in [Objects -> Nat]
  BY <1>1, ObjectTypes, BusyTypes
<1>3. fpos' \in [Objects -> Nat]
  BY <1>1, <1>2
<1> QED
  BY <1>1, <1>3, SeekKeeps

LEMMA ReadKeeps == ASSUME ReaderInv, NEW n \in 0 .. Size, Read(n) PROVE ReaderInv'
<1> DEFINE p == fpos[call.obj]
<1>1. /\ pc = "read" /\ pc \in Busy /\ 0 < n /\ n <= Size - rd.got /\ Deliver(p, n)
      /\ fpos' = [fpos EXCEPT ![call.obj] = @ + n]
      /\ pc' = IF n = Size - rd.got THEN "header" ELSE "read"
      /\ UNCHANGED <<fd, ehdrs, call, troubled, result>>
  BY DEF Read, Rest, Busy
<1>2. /\ rd.off \in Nat /\ rd.got \in Nat /\ Size \in Nat /\ p \in Nat /\ call.obj \in Objects
      /\ fpos \in [Objects -> Nat]
  BY <1>1, BusyTypes
<1>3. n \in Nat /\ rd.got + n <= Size /\ (pc' = "header" => rd.got + n = Size)
      /\ pc' \in {"read", "header"}
  BY <1>1, <1>2
<1>4. fpos' \in [Objects -> Nat] /\ fpos'[call.obj] = p + n
  BY <1>1, <1>2, <1>3
<1>5. ~Obj[call.obj].shared => p = rd.off + rd.got
  BY <1>1 DEF ReaderInv, ReadProgress
<1> HIDE DEF p
<1> QED
  BY <1>1, <1>2, <1>3, <1>4, <1>5, DeliverKeeps

LEMMA ShortReadPanicsKeeps ==
  ASSUME ReaderInv, NEW n \in 0 .. Size, ShortReadPanics(n) PROVE ReaderInv'
<1> DEFINE p == fpos[call.obj]
<1>1. /\ pc = "read" /\ pc \in Busy /\ n < Size - rd.got /\ n <= Left
      /\ IF rd.buf = "heap" THEN heap_buf' = Fill(heap_buf, p, n) /\ UNCHANGED stack_buf
         ELSE stack_buf' = Fill(stack_buf, p, n) /\ UNCHANGED heap_buf
      /\ troubled' = (troubled \/ n < Left)
      /\ fpos' = [fpos EXCEPT ![call.obj] = @ + n]
      /\ Return("panic", <<>>) /\ UNCHANGED ehdrs
  BY DEF ShortReadPanics, Rest, Busy
<1>2. /\ rd.off \in Nat /\ rd.got \in Nat /\ Size \in Nat /\ p \in Nat /\ call.obj \in Objects
      /\ fpos \in [Objects -> Nat] /\ O.len \in Nat /\ O = Obj[call.obj] /\ ehdrs \subseteq Objects
  BY <1>1, BusyTypes
<1>3. n \in Nat /\ rd.got + n <= Size
  BY <1>1, <1>2
<1>4. stack_buf' \in [1 .. BufSize -> Byte] /\ heap_buf' \in Seq(Byte)
  BY <1>1, <1>2, <1>3, FillKeepsTypes
<1>5. fpos' \in [Objects -> Nat]
  BY <1>1, <1>2, <1>3
<1>6. troubled' \in BOOLEAN /\ (~troubled' => ~(n < Left))
  BY <1>1, Zenon
<1>7. ~Obj[call.obj].shared => p = rd.off + rd.got
  BY <1>1 DEF ReaderInv, ReadProgress
<1>8. Left = IF p >= O.len THEN 0 ELSE O.len - p
  BY DEF Left
<1> HIDE DEF p
<1>9. ~troubled' /\ ~Obj[call.obj].shared => rd.off + Size > Obj[call.obj].len
  <2> SUFFICES ASSUME ~troubled', ~Obj[call.obj].shared PROVE rd.off + Size > O.len
    BY <1>2
  <2>1. p = rd.off + rd.got /\ ~(n < Left) /\ n < Size - rd.got
    BY <1>1, <1>6, <1>7
  <2>2. CASE p >= O.len
    BY <1>2, <2>1, <2>2
  <2>3. CASE ~(p >= O.len)
    <3>1. n >= O.len - p
      BY <1>2, <1>3, <1>8, <2>1, <2>3
    <3> QED
      BY <1>2, <1>3, <2>1, <3>1
  <2> QED
    BY <2>2, <2>3
<1> QED
  BY <1>1, <1>2, <1>4, <1>5, <1>6, <1>9, ReturnKeeps

LEMMA EofKeeps == ASSUME ReaderInv, Eof PROVE ReaderInv'
<1>1. /\ pc = "read" /\ pc \in Busy /\ Size - rd.got > 0 /\ Left = 0 /\ Return("err", <<>>)
      /\ UNCHANGED <<stack_buf, heap_buf, fpos, ehdrs, troubled>>
  BY DEF Eof, Rest, Busy
<1>2. /\ rd.off \in Nat /\ rd.got \in Nat /\ Size \in Nat /\ fpos[call.obj] \in Nat
      /\ O.len \in Nat /\ O = Obj[call.obj]
  BY <1>1, BusyTypes
<1>3. ~Obj[call.obj].shared => fpos[call.obj] = rd.off + rd.got
  BY <1>1 DEF ReaderInv, ReadProgress
<1>4. fpos[call.obj] >= O.len
  BY <1>1, <1>2 DEF Left
<1>5. ~Obj[call.obj].shared => rd.off + Size > Obj[call.obj].len
  BY <1>1, <1>2, <1>3, <1>4
<1> QED
  BY <1>1, <1>5, BusyTypes, ReturnKeeps

LEMMA ReadNothingKeeps == ASSUME ReaderInv, ReadNothing PROVE ReaderInv'
<1>1. /\ pc = "read" /\ pc \in Busy /\ Size - rd.got = 0 /\ pc' = "header"
      /\ UNCHANGED <<stack_buf, heap_buf, fd, fpos, ehdrs, call, rd, troubled, result>>
  BY DEF ReadNothing, Rest, Busy
<1>2. rd.got = Size
  BY <1>1, BusyTypes
<1>3. ReaderTypes'
  BY <1>1 DEF ReaderInv, ReaderTypes, Busy
<1>4. CallShape'
  BY <1>1 DEF ReaderInv, CallShape
<1>5. Size' = Size /\ Buf' = Buf
  BY <1>1 DEF Size, Buf
<1>6. ReadProgress'
  BY <1>1, <1>2, <1>5 DEF ReaderInv, ReadProgress
<1>7. PhdrsOfThisObject' /\ RefusedOnlyForCause'
  BY <1>1, BusyTypes, NoResultYet
<1> QED
  BY <1>3, <1>4, <1>6, <1>7 DEF ReaderInv

LEMMA SyscallFailsKeeps == ASSUME ReaderInv, SyscallFails PROVE ReaderInv'
<1>1. /\ pc \in Busy /\ Return("err", <<>>) /\ UNCHANGED <<stack_buf, heap_buf, fpos, ehdrs>>
  BY DEF SyscallFails, Busy
<1>2. troubled' \in BOOLEAN /\ troubled'
  BY Zenon DEF SyscallFails
<1> QED
  BY <1>1, <1>2, BusyTypes, ReturnKeeps

-----------------------------------------------------------------------------
(* The header in the buffer is that of the object of the call, unless      *)
(* somebody else moves the offset of its descriptor.                       *)
LEMMA HeaderIsOwn ==
  ASSUME ReaderInv, pc = "header", rd.buf # "heap", ~Obj[call.obj].shared
  PROVE  HeaderOf = {call.obj}
<1>1. pc \in Busy
  BY DEF Busy
<1>2. /\ rd.got = Size /\ EhdrSize <= Size /\ rd.off = 0 /\ Size \in Nat /\ call.obj \in Objects
      /\ rd.buf \in {"ehdr", "stack"}
  BY <1>1, BusyTypes, SizeFits, Sizes DEF ReaderInv, CallShape, ReadProgress
<1>3. \A i \in 1 .. rd.got : stack_buf[i] = <<call.obj, rd.off + i - 1>>
  BY <1>1 DEF ReaderInv, ReadProgress, Buf
<1>4. \A i \in 1 .. EhdrSize : stack_buf[i] = <<call.obj, i - 1>>
  BY <1>2, <1>3, Sizes
<1>5. 1 \in 1 .. EhdrSize
  BY Sizes
<1>6. ASSUME NEW o \in HeaderOf PROVE o = call.obj
  <2>1. stack_buf[1] = <<o, 1 - 1>> /\ stack_buf[1] = <<call.obj, 1 - 1>>
    BY <1>4, <1>5 DEF HeaderOf
  <2> QED
    BY <2>1
<1>7. call.obj \in HeaderOf
  BY <1>2, <1>4 DEF HeaderOf
<1> QED
  BY <1>6, <1>7

LEMMA HeaderRefusedKeeps == ASSUME ReaderInv, HeaderRefused PROVE ReaderInv'
<1>1. /\ pc = "header" /\ pc \in Busy /\ rd.buf \in {"ehdr", "stack"}
      /\ ~ \E o \in HeaderOf : Obj[o].valid
      /\ Return("err", <<>>) /\ UNCHANGED <<stack_buf, heap_buf, fpos, ehdrs, troubled>>
  BY DEF HeaderRefused, Busy
<1>2. ~Obj[call.obj].shared => ~Obj[call.obj].valid
  BY <1>1, HeaderIsOwn
<1> QED
  BY <1>1, <1>2, BusyTypes, ReturnKeeps

LEMMA EhdrReturnedKeeps == ASSUME ReaderInv, EhdrReturned PROVE ReaderInv'
<1>1. /\ pc \in Busy /\ call.op = "read_ehdr" /\ ehdrs' = ehdrs \cup {call.obj}
      /\ Return("ok", <<>>) /\ UNCHANGED <<stack_buf, heap_buf, fpos, troubled>>
  BY DEF EhdrReturned, Busy
<1>2. ehdrs' \subseteq Objects
  BY <1>1, BusyTypes
<1> QED
  BY <1>1, <1>2, BusyTypes, ReturnKeeps

LEMMA TypeMismatchKeeps == ASSUME ReaderInv, TypeMismatch PROVE ReaderInv'
<1>1. /\ pc \in Busy /\ Return("mismatch", <<>>)
      /\ UNCHANGED <<stack_buf, heap_buf, fpos, ehdrs, troubled>>
  BY DEF TypeMismatch, Busy
<1> QED
  BY <1>1, BusyTypes, ReturnKeeps

(* The whole table lies in the bytes that have been read. *)
LEMMA PhdrsOnStackKeeps ==
  ASSUME ReaderInv, NEW e \in {o \in HeaderOf : Obj[o].valid}, PhdrsOnStack(e)
  PROVE  ReaderInv'
<1> DEFINE phdrs == [i \in 1 .. Table(e) |-> stack_buf[Obj[e].phdr_start + i]]
<1>1. /\ pc = "header" /\ pc \in Busy /\ call.op = "load" /\ rd.buf # "heap"
      /\ BufSize >= Obj[e].phdr_end /\ Return("ok", phdrs)
      /\ UNCHANGED <<stack_buf, heap_buf, fpos, ehdrs, troubled>>
  BY DEF PhdrsOnStack, Busy
<1>2. ASSUME ~Obj[call.obj].shared
      PROVE  phdrs = [i \in 1 .. Obj[call.obj].phdr_end - Obj[call.obj].phdr_start |->
                        <<call.obj, Obj[call.obj].phdr_start + i - 1>>]
  <2>1. e = call.obj /\ call.obj \in Objects
    BY <1>1, <1>2, HeaderIsOwn, BusyTypes
  <2>2. rd.buf = "stack" /\ rd.off = 0 /\ rd.got = BufSize
    BY <1>1, BusyTypes, SizeFits DEF ReaderInv, CallShape, ReadProgress
  <2>3. \A i \in 1 .. BufSize : stack_buf[i] = <<call.obj, 0 + i - 1>>
    BY <1>1, <1>2, <2>2 DEF ReaderInv, ReadProgress, Buf
  <2> DEFINE s == Obj[call.obj].phdr_start
             t == Obj[call.obj].phdr_end
  <2>4. Table(e) = t - s /\ s \in Nat /\ t \in Nat /\ s <= t /\ t <= BufSize /\ BufSize \in Nat
    BY <1>1, <2>1, ObjectTypes, Sizes DEF Table
  <2> HIDE DEF s, t
  <2>5. ASSUME NEW i \in 1 .. t - s PROVE stack_buf[s + i] = <<call.obj, s + i - 1>>
    <3>1. s + i \in 1 .. BufSize /\ 0 + (s + i) - 1 = s + i - 1
      BY <2>4
    <3> QED
      BY <2>3, <3>1
  <2> QED
    BY <2>1, <2>4, <2>5 DEF s, t
<1> HIDE DEF phdrs
<1> QED
  BY <1>1, <1>2, BusyTypes, ReturnKeeps

LEMMA PhdrsToHeapKeeps ==
  ASSUME ReaderInv, NEW e \in {o \in HeaderOf : Obj[o].valid}, PhdrsToHeap(e)
  PROVE  ReaderInv'
<1>1. /\ pc = "header" /\ pc \in Busy /\ call.op = "load" /\ rd.buf # "heap"
      /\ BufSize < Obj[e].phdr_end /\ heap_buf' = Resized(heap_buf, Table(e))
      /\ rd' = [buf |-> "heap", off |-> Obj[e].phdr_start, got |-> 0] /\ pc' = "seek"
      /\ UNCHANGED <<stack_buf, fd, fpos, ehdrs, call, troubled, result>>
  BY DEF PhdrsToHeap, Busy
<1>2. e \in Objects /\ ~Obj[call.obj].shared => e = call.obj
  BY <1>1, HeaderIsOwn
<1>3. e \in Objects
  BY DEF HeaderOf
<1>4. heap_buf' \in Seq(Byte) /\ Len(heap_buf') = Table(e) /\ Obj[e].phdr_start \in Nat
  BY <1>1, <1>3, ResizedSeq, ObjectTypes, BusyTypes
<1>5. /\ call.obj \in Objects /\ fd[call.obj] = "open" /\ result' = NoResult /\ troubled' \in BOOLEAN
      /\ call' = [op |-> "load", obj |-> call.obj]
  BY <1>1, BusyTypes
<1>6. ~Obj[call.obj].shared => /\ Obj[e].phdr_start = Obj[call.obj].phdr_start
                               /\ Len(heap_buf') = Table(call.obj)
                               /\ Obj[call.obj].phdr_end > BufSize
  BY <1>1, <1>2, <1>3, <1>4, Sizes, ObjectTypes
<1> QED
  BY <1>1, <1>4, <1>5, <1>6, BeginKeeps

LEMMA PhdrsOnHeapKeeps == ASSUME ReaderInv, PhdrsOnHeap PROVE ReaderInv'
<1>1. /\ pc = "header" /\ pc \in Busy /\ rd.buf = "heap" /\ Return("ok", heap_buf)
      /\ UNCHANGED <<stack_buf, heap_buf, fpos, ehdrs, troubled>>
  BY DEF PhdrsOnHeap, Busy
<1>2. ASSUME ~Obj[call.obj].shared
      PROVE  heap_buf = [i \in 1 .. Obj[call.obj].phdr_end - Obj[call.obj].phdr_start |->
                           <<call.obj, Obj[call.obj].phdr_start + i - 1>>]
  <2>1. /\ rd.off = Obj[call.obj].phdr_start /\ Len(heap_buf) = Table(call.obj)
        /\ rd.got = Len(heap_buf)
    BY <1>1, <1>2, SizeFits DEF ReaderInv, CallShape, ReadProgress
  <2>2. \A i \in 1 .. Len(heap_buf) : heap_buf[i] = <<call.obj, Obj[call.obj].phdr_start + i - 1>>
    BY <1>1, <1>2, <2>1 DEF ReaderInv, ReadProgress, Buf
  <2>3. heap_buf \in [1 .. Len(heap_buf) -> Byte]
    BY HeapDomain DEF ReaderInv
  <2> QED
    BY <2>1, <2>2, <2>3 DEF Table
<1> QED
  BY <1>1, <1>2, BusyTypes, ReturnKeeps

-----------------------------------------------------------------------------
LEMMA NextKeepsReader == ReaderInv /\ [Next]_vars => ReaderInv'
<1> SUFFICES ASSUME ReaderInv, [Next]_vars PROVE ReaderInv'
  OBVIOUS
<1>1. CASE UNCHANGED vars
  <2>1. UNCHANGED <<stack_buf, heap_buf, fd, fpos, ehdrs, pc, call, rd, troubled, result>>
    BY <1>1 DEF vars
  <2>2. Size' = Size /\ Buf' = Buf
    BY <2>1 DEF Size, Buf
  <2>3. ReaderTypes' /\ CallShape'
    BY <2>1 DEF ReaderInv, ReaderTypes, CallShape
  <2>4. ReadProgress'
    BY <2>1, <2>2 DEF ReaderInv, ReadProgress
  <2>5. PhdrsOfThisObject' /\ RefusedOnlyForCause'
    BY <2>1 DEF ReaderInv, PhdrsOfThisObject, RefusedOnlyForCause
  <2> QED
    BY <2>3, <2>4, <2>5 DEF ReaderInv
<1>2. CASE Calls
  BY <1>2, OpenKeeps, ReadEhdrKeeps, ReadPhdrKeeps, LoadKeeps DEF Calls
<1>3. CASE Steps
  <2>1. ASSUME NEW n \in 0 .. Size, Read(n) \/ ShortReadPanics(n) PROVE ReaderInv'
    BY <2>1, ReadKeeps, ShortReadPanicsKeeps
  <2>2. ASSUME NEW e \in {o \in HeaderOf : Obj[o].valid}, PhdrsOnStack(e) \/ PhdrsToHeap(e)
        PROVE  ReaderInv'
    BY <2>2, PhdrsOnStackKeeps, PhdrsToHeapKeeps
  <2> QED
    BY <1>3, <2>1, <2>2, ReadBinaryKeeps, SlicePanicsKeeps, LseekKeeps, EofKeeps,
       ReadNothingKeeps, HeaderRefusedKeeps, EhdrReturnedKeeps, TypeMismatchKeeps,
       PhdrsOnHeapKeeps DEF Steps
<1>4. CASE SyscallFails
  BY <1>4, SyscallFailsKeeps
<1>5. ASSUME NEW o \in Objects, NEW p \in {0, Obj[o].len}, OtherSeek(o, p) PROVE ReaderInv'
  BY <1>5, OtherSeekKeeps
<1> QED
  BY <1>1, <1>2, <1>3, <1>4, <1>5 DEF Next

(* What a read has put into the Loader's buffers is always the object's    *)
(* own, from its first byte on, whatever earlier calls have left there.    *)
THEOREM ReaderInvariant == Spec => []ReaderInv
BY InitReader, NextKeepsReader, PTL DEF Spec

(* read_phdr and load return the program headers of their own object, all  *)
(* of them and in order.                                                   *)
THEOREM OwnProgramHeaders == Spec => []PhdrsOfThisObject
<1>1. ReaderInv => PhdrsOfThisObject
  BY DEF ReaderInv
<1> QED
  BY <1>1, ReaderInvariant, PTL

(* An object is refused only if its header is invalid, a system call has   *)
(* failed, or it ends before the bytes asked for.                          *)
THEOREM RefusalHasCause == Spec => []RefusedOnlyForCause
<1>1. ReaderInv => RefusedOnlyForCause
  BY DEF ReaderInv
<1> QED
  BY <1>1, ReaderInvariant, PTL

=============================================================================
