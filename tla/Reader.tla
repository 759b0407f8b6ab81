------------------------------- MODULE Reader -------------------------------
(***************************************************************************)
(* One Loader used for several calls: read_ehdr, read_phdr and the part of *)
(* load that reads headers, with the buffers of its ElfBuf, which are kept *)
(* from call to call (src/loader.rs), and the objects read from, down to   *)
(* the single read(2) (src/object/{file,binary}.rs).                       *)
(*                                                                         *)
(* A byte of a buffer is <<f, i>>, byte i of file f, or Junk.              *)
(***************************************************************************)
EXTENDS Integers, Sequences

CONSTANTS
  Objects,   \* object names
  Obj,       \* Obj[o]: [kind, len, valid, phdr_start, phdr_end, shared]
  BufSize,   \* ElfBuf::MAX_BUF_SIZE
  EhdrSize,  \* EHDR_SIZE
  MaxCalls   \* bound on the files opened and the calls made

Kinds == { "libc",      \* ElfFile with the feature use-libc
           "syscall",   \* ElfFile with the feature use-syscall
           "binary" }   \* ElfBinary

ASSUME ReaderAssumption ==
  /\ BufSize \in Nat /\ EhdrSize \in 1 .. BufSize /\ MaxCalls \in Nat
  /\ Obj \in [Objects -> [kind : Kinds, len : Nat, valid : BOOLEAN, phdr_start : Nat,
                          phdr_end : Nat, shared : BOOLEAN]]
  /\ \A o \in Objects : Obj[o].phdr_start <= Obj[o].phdr_end

VARIABLES
  stack_buf,  \* the buffer of MAX_BUF_SIZE bytes
  heap_buf,   \* the Vec
  fd,         \* fd[o]: the descriptor of an ElfFile: none, open, closed
  fpos,       \* fpos[o]: its file offset
  ehdrs,      \* objects whose ElfHeader a caller has
  pc,         \* what the call under way is doing
  call,       \* the call: [op, obj]
  rd,         \* the ElfObject::read under way: [buf, off, got]
  troubled,   \* a system call failed during this call
  result,     \* how the last call ended: [op, obj, how, phdrs]
  calls       \* files opened and calls made

vars == <<stack_buf, heap_buf, fd, fpos, ehdrs, pc, call, rd, troubled, result, calls>>

Junk == <<"junk", 0>>
NoCall == [op |-> "none", obj |-> "none"]
NoRead == [buf |-> "none", off |-> 0, got |-> 0]
NoResult == [op |-> "none", obj |-> "none", how |-> "none", phdrs |-> <<>>]

Init ==
  /\ stack_buf = [i \in 1 .. BufSize |-> Junk] /\ heap_buf = <<>>
  /\ fd = [o \in Objects |-> IF Obj[o].kind = "binary" THEN "open" ELSE "none"]
  /\ fpos = [o \in Objects |-> 0]
  /\ ehdrs = {} /\ pc = "idle" /\ call = NoCall /\ rd = NoRead
  /\ troubled = FALSE /\ result = NoResult /\ calls = 0

O == Obj[call.obj]

(* ElfFile::from_path, from_owned_fd; an Err leaves nothing behind. *)
Open(o) ==
  /\ pc = "idle" /\ fd[o] = "none" /\ calls < MaxCalls
  /\ fd' = [fd EXCEPT ![o] = "open"] /\ calls' = calls + 1
  /\ UNCHANGED <<stack_buf, heap_buf, fpos, ehdrs, pc, call, rd, troubled, result>>

(* Vec::resize: a prefix is kept, what is new is zero. *)
Resized(buf, n) == [i \in 1 .. n |-> IF i <= Len(buf) THEN buf[i] ELSE Junk]

Table(o) == Obj[o].phdr_end - Obj[o].phdr_start

Begin(op, o) ==
  /\ pc = "idle" /\ fd[o] = "open" /\ calls < MaxCalls
  /\ call' = [op |-> op, obj |-> o] /\ calls' = calls + 1
  /\ troubled' = FALSE /\ result' = NoResult /\ pc' = "seek"

ReadEhdr(o) ==
  /\ Begin("read_ehdr", o)
  /\ rd' = [buf |-> "ehdr", off |-> 0, got |-> 0]
  /\ UNCHANGED <<stack_buf, heap_buf, fd, fpos, ehdrs>>

ReadPhdr(o) ==
  /\ o \in ehdrs /\ Begin("read_phdr", o)
  /\ heap_buf' = Resized(heap_buf, Table(o))
  /\ rd' = [buf |-> "heap", off |-> Obj[o].phdr_start, got |-> 0]
  /\ UNCHANGED <<stack_buf, fd, fpos, ehdrs>>

(* load, load_dylib, load_exec: prepare_ehdr first *)
Load_EhdrOnly(o) ==              \* mutant: only the header is read into the buffer
  /\ Begin("load", o)
  /\ rd' = [buf |-> "ehdr", off |-> 0, got |-> 0]
  /\ UNCHANGED <<stack_buf, heap_buf, fd, fpos, ehdrs>>

Load(o) ==
  /\ Begin("load", o)
  /\ rd' = [buf |-> "stack", off |-> 0, got |-> 0]
  /\ UNCHANGED <<stack_buf, heap_buf, fd, fpos, ehdrs>>

-----------------------------------------------------------------------------
(* The end of a call.  load has taken the object and drops it; the syscall *)
(* build's Drop panics when close fails.                                   *)
Closed == IF call.op = "load" /\ O.kind # "binary"
          THEN [fd EXCEPT ![call.obj] = "closed"] ELSE fd

Return(how, phdrs) ==
  /\ result' = [op |-> call.op, obj |-> call.obj, how |-> how, phdrs |-> phdrs]
  /\ fd' = Closed
  /\ pc' = "idle" /\ call' = NoCall /\ rd' = NoRead

Size == CASE rd.buf = "ehdr" -> EhdrSize [] rd.buf = "stack" -> BufSize
          [] rd.buf = "heap" -> Len(heap_buf) [] OTHER -> 0

(* n bytes of the object, from position p on, into the unread rest. *)
Fill(buf, p, n) ==
  [i \in DOMAIN buf |-> IF rd.got < i /\ i <= rd.got + n
                        THEN <<call.obj, p + (i - rd.got - 1)>> ELSE buf[i]]

Deliver(p, n) ==
  /\ rd' = [rd EXCEPT !.got = @ + n]
  /\ IF rd.buf = "heap" THEN heap_buf' = Fill(heap_buf, p, n) /\ UNCHANGED stack_buf
                        ELSE stack_buf' = Fill(stack_buf, p, n) /\ UNCHANGED heap_buf

(* ElfBinary::read: the slice panics when the bytes are not there. *)
ReadBinary ==
  /\ pc = "seek" /\ O.kind = "binary" /\ rd.off + Size <= O.len
  /\ Deliver(rd.off, Size) /\ pc' = "header"
  /\ UNCHANGED <<fd, fpos, ehdrs, call, troubled, result, calls>>

SlicePanics ==
  /\ pc = "seek" /\ O.kind = "binary" /\ rd.off + Size > O.len
  /\ Return("panic", <<>>)
  /\ UNCHANGED <<stack_buf, heap_buf, fpos, ehdrs, troubled, calls>>

Lseek ==
  /\ pc = "seek" /\ O.kind # "binary"
  /\ fpos' = [fpos EXCEPT ![call.obj] = rd.off]
  /\ pc' = "read"
  /\ UNCHANGED <<stack_buf, heap_buf, fd, ehdrs, call, rd, troubled, result, calls>>

(* Another holder of the same open file description moves its offset (at   *)
(* any other time lseek undoes that).                                      *)
OtherSeek(o, p) ==
  /\ pc = "read" /\ call.obj = o /\ Obj[o].shared /\ p # fpos[o]
  /\ fpos' = [fpos EXCEPT ![o] = p]
  /\ UNCHANGED <<stack_buf, heap_buf, fd, ehdrs, pc, call, rd, troubled, result, calls>>

Rest == Size - rd.got
Left == IF fpos[call.obj] >= O.len THEN 0 ELSE O.len - fpos[call.obj]

(* read(2) returns n bytes (external: never more than asked for and there).*)
(* read_exact asks again for the rest; the syscall build asserts that one  *)
(* call delivered everything.                                              *)
Read_Once(n) ==                  \* mutant: read_exact does not ask for the rest
  /\ pc = "read" /\ 0 < n /\ n <= Rest /\ n <= Left
  /\ Deliver(fpos[call.obj], n)
  /\ fpos' = [fpos EXCEPT ![call.obj] = @ + n]
  /\ O.kind = "libc" \/ n = Rest
  /\ pc' = "header"
  /\ UNCHANGED <<fd, ehdrs, call, troubled, result, calls>>

Read(n) ==
  /\ pc = "read" /\ 0 < n /\ n <= Rest /\ n <= Left
  /\ Deliver(fpos[call.obj], n)
  /\ fpos' = [fpos EXCEPT ![call.obj] = @ + n]
  /\ O.kind = "libc" \/ n = Rest
  /\ pc' = IF n = Rest THEN "header" ELSE "read"
  /\ UNCHANGED <<fd, ehdrs, call, troubled, result, calls>>

ShortReadPanics(n) ==
  /\ pc = "read" /\ O.kind = "syscall" /\ 0 <= n /\ n < Rest /\ n <= Left
  /\ IF rd.buf = "heap" THEN heap_buf' = Fill(heap_buf, fpos[call.obj], n) /\ UNCHANGED stack_buf
     ELSE stack_buf' = Fill(stack_buf, fpos[call.obj], n) /\ UNCHANGED heap_buf
  /\ troubled' = (troubled \/ n < Left)
  /\ fpos' = [fpos EXCEPT ![call.obj] = @ + n]
  /\ Return("panic", <<>>)
  /\ UNCHANGED <<ehdrs, calls>>

Eof_Retry ==                     \* mutant: nothing read is no error
  /\ pc = "read" /\ O.kind = "libc" /\ Rest > 0 /\ Left = 0
  /\ UNCHANGED vars

Eof ==
  /\ pc = "read" /\ O.kind = "libc" /\ Rest > 0 /\ Left = 0
  /\ Return("err", <<>>)
  /\ UNCHANGED <<stack_buf, heap_buf, fpos, ehdrs, troubled, calls>>

(* An empty buffer needs no read(2) in libc's loop; the other build makes  *)
(* one that delivers nothing.                                              *)
ReadNothing ==
  /\ pc = "read" /\ Rest = 0
  /\ pc' = "header"
  /\ UNCHANGED <<stack_buf, heap_buf, fd, fpos, ehdrs, call, rd, troubled, result, calls>>

(* lseek or read returns -1, EINTR included. *)
SyscallFails ==
  /\ pc \in {"seek", "read"} /\ O.kind # "binary"
  /\ troubled' = TRUE
  /\ Return("err", <<>>)
  /\ UNCHANGED <<stack_buf, heap_buf, fpos, ehdrs, calls>>

-----------------------------------------------------------------------------
(* What ElfHeader::new sees in the buffer: the object its bytes are of. *)
HeaderOf == {o \in Objects : \A i \in 1 .. EhdrSize : stack_buf[i] = <<o, i - 1>>}

HeaderRefused ==
  /\ pc = "header" /\ rd.buf \in {"ehdr", "stack"}
  /\ ~ \E o \in HeaderOf : Obj[o].valid
  /\ Return("err", <<>>)
  /\ UNCHANGED <<stack_buf, heap_buf, fpos, ehdrs, troubled, calls>>

EhdrReturned ==
  /\ pc = "header" /\ call.op = "read_ehdr"
  /\ \E o \in HeaderOf : Obj[o].valid
  /\ ehdrs' = ehdrs \cup {call.obj}
  /\ Return("ok", <<>>)
  /\ UNCHANGED <<stack_buf, heap_buf, fpos, troubled, calls>>

(* load: a header of the other type than asked for. *)
TypeMismatch ==
  /\ pc = "header" /\ call.op = "load" /\ rd.buf # "heap"
  /\ \E o \in HeaderOf : Obj[o].valid
  /\ Return("mismatch", <<>>)
  /\ UNCHANGED <<stack_buf, heap_buf, fpos, ehdrs, troubled, calls>>

(* prepare_phdr: from the stack buffer if the table is in it. *)
PhdrsOnStack(e) ==
  /\ pc = "header" /\ call.op = "load" /\ rd.buf # "heap" /\ BufSize >= Obj[e].phdr_end
  /\ Return("ok", [i \in 1 .. Table(e) |-> stack_buf[Obj[e].phdr_start + i]])
  /\ UNCHANGED <<stack_buf, heap_buf, fpos, ehdrs, troubled, calls>>

PhdrsToHeap(e) ==
  /\ pc = "header" /\ call.op = "load" /\ rd.buf # "heap" /\ BufSize < Obj[e].phdr_end
  /\ heap_buf' = Resized(heap_buf, Table(e))
  /\ rd' = [buf |-> "heap", off |-> Obj[e].phdr_start, got |-> 0]
  /\ pc' = "seek"
  /\ UNCHANGED <<stack_buf, fd, fpos, ehdrs, call, troubled, result, calls>>

(* get_phdrs_from_heap: all of the Vec *)
PhdrsOnHeap ==
  /\ pc = "header" /\ rd.buf = "heap"
  /\ Return("ok", heap_buf)
  /\ UNCHANGED <<stack_buf, heap_buf, fpos, ehdrs, troubled, calls>>

Calls == \E o \in Objects : Open(o) \/ ReadEhdr(o) \/ ReadPhdr(o) \/ Load(o)

Steps == \/ ReadBinary \/ SlicePanics \/ Lseek \/ Eof \/ ReadNothing
         \/ \E n \in 0 .. Size : Read(n) \/ ShortReadPanics(n)
         \/ HeaderRefused \/ EhdrReturned \/ TypeMismatch \/ PhdrsOnHeap
         \/ \E e \in {o \in HeaderOf : Obj[o].valid} : PhdrsOnStack(e) \/ PhdrsToHeap(e)

Next == Calls \/ Steps \/ SyscallFails
        \/ \E o \in Objects : \E p \in {0, Obj[o].len} : OtherSeek(o, p)

(* A call runs on by itself, without relying on a system call to fail; who *)
(* shares a descriptor may do anything.                                    *)
Spec == Init /\ [][Next]_vars /\ WF_vars(Steps)

-----------------------------------------------------------------------------
(***************************************************************************)
(* The program headers a call returns are those of the very object it was  *)
(* given, all of them and byte for byte, whatever was read before into the *)
(* same buffers and however short the reads were.  (Not so if somebody     *)
(* else moves the offset of the descriptor between lseek and read.)        *)
(***************************************************************************)
PhdrsOfThisObject ==
  result.how = "ok" /\ result.op # "read_ehdr" /\ ~Obj[result.obj].shared =>
    LET o == Obj[result.obj]
    IN  result.phdrs = [i \in 1 .. o.phdr_end - o.phdr_start |-> <<result.obj, o.phdr_start + i - 1>>]

(***************************************************************************)
(* A libc or in-memory object is refused only for a reason of its own: its *)
(* header is invalid, a system call failed, or it ends before the bytes    *)
(* that were asked for, which for load are MAX_BUF_SIZE even if header and *)
(* program headers take less.                                              *)
(***************************************************************************)
RefusedOnlyForCause ==
  result.how \in {"err", "panic"} /\ ~troubled /\ ~Obj[result.obj].shared =>
    LET o == Obj[result.obj]
        asked == CASE result.op = "read_ehdr" -> EhdrSize
                   [] result.op = "read_phdr" -> o.phdr_end
                   [] OTHER -> IF o.phdr_end > BufSize THEN o.phdr_end ELSE BufSize
    IN  ~o.valid \/ o.len < asked

(* Every call returns, however often read(2) delivers less than asked for. *)
CallsReturn == pc # "idle" ~> pc = "idle"

=============================================================================
