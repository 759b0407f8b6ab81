-------------------------------- MODULE Loader --------------------------------
(***************************************************************************)
(* One call of a Loader<M> entry point (load, load_dylib, load_exec and    *)
(* their async forms): from the first read of the ELF header to the        *)
(* finished ElfDylib / ElfExec, an Err, a panic, or a dropped future       *)
(* (src/loader.rs, src/format/{mod,dylib,exec}.rs, src/mmap).              *)
(*                                                                         *)
(* The address space is kept byte by byte.  A cell holds the file offset   *)
(* of the byte that was brought there, or one of the marks below.  Every   *)
(* system call and every read of the object is a step of its own, because  *)
(* each may fail, and in the async functions each read is an await.        *)
(***************************************************************************)
EXTENDS Segments

CONSTANTS
  Files,      \* the ELF files a call may be given
  Backends,   \* which Mmap / ElfObject pairs are in use
  AddrMax,    \* highest address of the modelled address space
  BufSize     \* ElfBuf::MAX_BUF_SIZE

AllBackends == { "mmap_fd",    \* MmapImpl, object has a file descriptor
                 "mmap_copy",  \* MmapImpl, object without one: copy
                 "no_mmap" }   \* MmapImpl of a target without mmap

Addr == 0 .. AddrMax

Foreign  == -1   \* not ours: whatever the process has there
Zero     == -2   \* a zero byte
Garbage  == -3   \* uninitialised allocator memory
Unbacked == -4   \* file mapping past the last page of the file: SIGBUS
NoCell   == -5   \* nothing was read
Cell     == Nat \cup {Foreign, Zero, Garbage, Unbacked}

(***************************************************************************)
(* A file: what the header and the program headers say, and its size.      *)
(* valid: the header passes vaildate(); dynamic_ok: ElfDynamic::new        *)
(* accepts the dynamic section (it has a DT_GNU_HASH); interp_ok: the name *)
(* of the interpreter is UTF-8.                                            *)
(***************************************************************************)
File == [ dylib : BOOLEAN, valid : BOOLEAN, dynamic_ok : BOOLEAN, interp_ok : BOOLEAN,
          size : Nat, phoff : Nat, phend : Nat, phdrs : Seq(Phdr) ]

Job == [ file : Files, backend : Backends, is_async : BOOLEAN, hooked : BOOLEAN,
         api : {"load", "load_dylib", "load_exec"} ]

VARIABLES
  job,      \* what this call was given
  pc,       \* where it is
  idx,      \* the program header the current loop is at
  scan,     \* the locals of create_segments' loop
  param,    \* the MmapParam of the mmap_segment under way
  resv,     \* the reservation the first mmap made, or NoResv
  held,     \* what became of it
  owner,    \* "ElfSegments" once one owns it (its Drop will munmap)
  mem,      \* the bytes of the address space
  prot,     \* their protection
  builder,  \* what the Builder collected
  failed    \* the pc of the step that failed, "no" if none did

vars == <<job, pc, idx, scan, param, resv, held, owner, mem, prot, builder, failed>>

NoResv  == [lo |-> 0, len |-> 0]
NoParam == [lo |-> 0, len |-> 0, prot |-> 0, off |-> 0, count |-> 0]

owned == owner = "ElfSegments"

phdrs == job.file.phdrs
ph    == phdrs[idx]
Loads(f) == {i \in DOMAIN f.phdrs : f.phdrs[i].p_type = "PT_LOAD"}

Within(a, lo, len) == lo <= a /\ a < lo + len

(* need_copy: everything but a mapping of the file itself. *)
need_copy == job.backend # "mmap_fd"

(* MmapImpl of no_mmap gives out memory that is readable and writable. *)
Writable(a) == job.backend = "no_mmap" \/ CanWrite(prot[a])

ASSUME BoundsAssumption == AddrMax \in Nat /\ BufSize \in Nat
ASSUME BackendsAssumption == Backends \subseteq AllBackends

(***************************************************************************)
(* What the loader takes for granted of every file and never checks: there *)
(* is a PT_LOAD, no segment is larger in the file than in memory, offset   *)
(* and address agree modulo the page size, and no address computation      *)
(* leaves the address space.                                               *)
(***************************************************************************)
PhdrSane(p) ==
  /\ p.p_filesz <= p.p_memsz
  /\ p.p_vaddr < UsizeMax
  /\ p.p_vaddr \in Addr /\ p.p_paddr \in Addr
  /\ PageUp(p.p_vaddr + p.p_memsz) <= AddrMax + 1
  /\ p.p_type = "PT_LOAD" => p.p_offset % PageSize = p.p_vaddr % PageSize

Sane(f) == /\ f.phoff <= f.phend
           /\ Loads(f) # {}
           /\ \A i \in DOMAIN f.phdrs : PhdrSane(f.phdrs[i])

ASSUME FilesAssumption == /\ Files \subseteq File
                          /\ \A f \in Files : Sane(f)

(***************************************************************************)
(* What a linker guarantees on top: segments lie inside the file, share no *)
(* page, can be written if they have a .bss, and hold the other headers'   *)
(* targets in their file part.  Physical addresses, which the code takes   *)
(* for PT_DYNAMIC, are those of the image unless a linker script says      *)
(* otherwise.  PT_DYNAMIC, PT_INTERP and PT_PHDR occur at most once, and   *)
(* PT_PHDR is about the table the ELF header points to.                    *)
(***************************************************************************)
Holds(l, p) == /\ l.p_vaddr <= p.p_vaddr /\ p.p_vaddr < l.p_vaddr + l.p_filesz
               /\ p.p_offset - l.p_offset = p.p_vaddr - l.p_vaddr

PageDisjoint(p, q) == /\ PageDown(p.p_vaddr) # PageDown(q.p_vaddr)
                      /\ \/ PageUp(p.p_vaddr + p.p_memsz) <= PageDown(q.p_vaddr)
                         \/ PageUp(q.p_vaddr + q.p_memsz) <= PageDown(p.p_vaddr)

Single == {"PT_DYNAMIC", "PT_INTERP", "PT_PHDR"}

Linked(f) ==
  /\ \A i \in Loads(f) : LET p == f.phdrs[i] IN
       /\ p.p_offset + p.p_filesz <= f.size
       /\ p.p_filesz # p.p_memsz => CanWrite(map_prot(p.p_flags))
       /\ \A j \in Loads(f) \ {i} : PageDisjoint(p, f.phdrs[j])
  /\ \A i \in DOMAIN f.phdrs : LET p == f.phdrs[i] IN p.p_type \in Single =>
       /\ \E j \in Loads(f) :
            /\ Holds(f.phdrs[j], p)
            /\ p.p_type = "PT_PHDR" => f.phend <= f.phdrs[j].p_offset + f.phdrs[j].p_filesz
       /\ p.p_type = "PT_PHDR" => p.p_offset = f.phoff
       /\ p.p_paddr = p.p_vaddr
       /\ \A j \in DOMAIN f.phdrs : f.phdrs[j].p_type = p.p_type => i = j

-----------------------------------------------------------------------------
Init ==
  /\ job \in Job
  /\ pc = "ehdr"  /\ idx = 1  /\ failed = "no"
  /\ scan = ScanStart
  /\ param = NoParam  /\ resv = NoResv
  /\ held = "none"    /\ owner = "nobody"
  /\ mem  = [a \in Addr |-> Foreign]
  /\ prot = [a \in Addr |-> 0]
  /\ builder = [dynamic |-> NoCell, interp |-> NoCell, relro |-> 0, phdr_mmap |-> 0]

(***************************************************************************)
(* Drop of ElfSegments: munmap gives the range back.  Without mmap it is a *)
(* dealloc, whatever memory the range was.                                 *)
(***************************************************************************)
munmap ==
  /\ held' = IF held = "borrowed" THEN "bad_free" ELSE "released"
  /\ owner' = "nobody"
  /\ mem'  = [a \in Addr |-> IF Within(a, resv.lo, resv.len) THEN Foreign ELSE mem[a]]
  /\ prot' = [a \in Addr |-> IF Within(a, resv.lo, resv.len) THEN 0 ELSE prot[a]]

(* Leaving the call early: the Builder, if there is one, is dropped. *)
Exit_Forget(outcome) ==            \* mutant: an early return that leaks the mapping
  /\ pc' = outcome
  /\ failed' = pc
  /\ UNCHANGED <<held, owner, mem, prot, job, idx, scan, param, resv, builder>>

Exit(outcome) ==
  /\ pc' = outcome
  /\ failed' = pc
  /\ IF owned THEN munmap ELSE UNCHANGED <<held, owner, mem, prot>>
  /\ UNCHANGED <<job, idx, scan, param, resv, builder>>

(* A memory fault is not an early return: nothing is dropped. *)
Fault == /\ pc' = "fault" /\ failed' = pc
         /\ UNCHANGED <<job, idx, scan, param, resv, held, owner, mem, prot, builder>>

Goto(l) == pc' = l /\ UNCHANGED <<job, failed>>

(***************************************************************************)
(* prepare_ehdr reads MAX_BUF_SIZE bytes, validates the header, and the    *)
(* entry point compares the file type with what it was asked for.          *)
(***************************************************************************)
AcceptsType == \/ job.api = "load"
               \/ job.api = "load_dylib" /\ job.file.dylib
               \/ job.api = "load_exec"  /\ ~job.file.dylib

PrepareEhdr ==
  /\ pc = "ehdr"
  /\ job.file.size >= BufSize /\ job.file.valid /\ AcceptsType
  /\ Goto("phdrs")
  /\ UNCHANGED <<idx, scan, param, resv, held, owner, mem, prot, builder>>

(***************************************************************************)
(* A read that fails is an Err of the object (lseek, read), or a panic: of *)
(* ElfBinary's slice, when the range is not in the bytes, and of the       *)
(* assertion on a short read in the syscall build.                         *)
(***************************************************************************)
ReadError == \E outcome \in {"err", "panic"} : Exit(outcome)

(* The read failed (or the file is too short), or the header is refused. *)
PrepareEhdrFails == pc = "ehdr" /\ ReadError

(* prepare_phdr: the table is in the buffer already, or read into the heap. *)
PreparePhdr ==
  /\ pc = "phdrs"
  /\ job.file.phend <= BufSize \/ job.file.phend <= job.file.size
  /\ Goto("scan")
  /\ UNCHANGED <<idx, scan, param, resv, held, owner, mem, prot, builder>>

PreparePhdrFails == pc = "phdrs" /\ job.file.phend > BufSize /\ ReadError

-----------------------------------------------------------------------------
(* create_segments, a program header a step, then its result. *)
ScanPhdr ==
  /\ pc = "scan" /\ idx <= Len(phdrs)
  /\ scan' = scan_phdr(scan, ph)
  /\ idx' = idx + 1
  /\ UNCHANGED <<job, pc, param, resv, held, owner, mem, prot, builder, failed>>

CreateSegments ==
  /\ pc = "scan" /\ idx > Len(phdrs)
  /\ param' = create_segments(scan)
  /\ idx' = 1
  /\ Goto("mmap")
  /\ UNCHANGED <<scan, resv, held, owner, mem, prot, builder>>

-----------------------------------------------------------------------------
(***************************************************************************)
(* mmap_segment.  The first call makes the reservation, the later ones     *)
(* (MAP_FIXED) replace pages of it.  Only after the first has returned     *)
(* does an ElfSegments own the range.                                      *)
(***************************************************************************)
First == held = "none"

(* A byte of a private file mapping (external: mmap(2)). *)
FileCell(f, off) == IF off < f.size THEN off
                    ELSE IF off < PageUp(f.size) THEN Zero ELSE Unbacked

(* The range is ours: the reservation of the first call, or a part of it. *)
Mapped(what) ==
  IF First THEN /\ resv' = [lo |-> param.lo, len |-> param.len]
                /\ held' = what
           ELSE UNCHANGED <<resv, held>>

MmapFd ==
  /\ pc = "mmap" /\ job.backend = "mmap_fd"
  /\ param.off % PageSize = 0               \* else EINVAL
  /\ mem'  = [a \in Addr |-> IF Within(a, param.lo, param.len)
                             THEN FileCell(job.file, param.off + (a - param.lo)) ELSE mem[a]]
  /\ prot' = [a \in Addr |-> IF Within(a, param.lo, param.len) THEN param.prot ELSE prot[a]]
  /\ Mapped("held")
  /\ owner' = "ElfSegments"
  /\ Goto(IF owned THEN "bss" ELSE "hook")
  /\ UNCHANGED <<idx, scan, param, builder>>

MmapAnonymous ==
  /\ pc = "mmap" /\ job.backend = "mmap_copy"
  /\ mem'  = [a \in Addr |-> IF Within(a, param.lo, param.len) THEN Zero ELSE mem[a]]
  /\ prot' = [a \in Addr |-> IF Within(a, param.lo, param.len) THEN PROT_WRITE ELSE prot[a]]
  /\ Mapped("held")
  /\ Goto("read")
  /\ UNCHANGED <<idx, scan, param, owner, builder>>

(* no_mmap: only a dylib's first call (addr is None) allocates. *)
MmapAlloc ==
  /\ pc = "mmap" /\ job.backend = "no_mmap"
  /\ mem' = IF First /\ job.file.dylib
            THEN [a \in Addr |-> IF Within(a, param.lo, param.len) THEN Garbage ELSE mem[a]]
            ELSE mem
  /\ Mapped(IF job.file.dylib THEN "held" ELSE "borrowed")
  /\ Goto("read")
  /\ UNCHANGED <<idx, scan, param, owner, prot, builder>>

MmapFails == pc = "mmap" /\ job.backend # "no_mmap" /\ Exit("err")

(* handle_alloc_error *)
AllocFails == pc = "mmap" /\ job.backend = "no_mmap" /\ First /\ job.file.dylib /\ Exit("panic")

(* object.read(dest, range.offset) into the start of the mapping. *)
ReadSegment ==
  /\ pc = "read"
  /\ param.off + param.count <= job.file.size
  /\ mem' = [a \in Addr |-> IF Within(a, param.lo, param.count)
                            THEN param.off + (a - param.lo) ELSE mem[a]]
  /\ Goto("mprotect")
  /\ UNCHANGED <<idx, scan, param, resv, held, owner, prot, builder>>

ReadFails == pc = "read" /\ ReadError

(* The future of an async load dropped at read_async(..).await. *)
DropFuture == pc = "read" /\ job.is_async /\ Exit("cancelled")

Mprotect_Count ==                  \* mutant: only the bytes read are protected
  /\ pc = "mprotect"
  /\ prot' = IF job.backend = "no_mmap" THEN prot
             ELSE [a \in Addr |-> IF Within(a, param.lo, param.count) THEN param.prot ELSE prot[a]]
  /\ owner' = "ElfSegments"
  /\ Goto(IF owned THEN "bss" ELSE "hook")
  /\ UNCHANGED <<idx, scan, param, resv, held, mem, builder>>

Mprotect ==
  /\ pc = "mprotect"
  /\ prot' = IF job.backend = "no_mmap" THEN prot
             ELSE [a \in Addr |-> IF Within(a, param.lo, param.len) THEN param.prot ELSE prot[a]]
  /\ owner' = "ElfSegments"
  /\ Goto(IF owned THEN "bss" ELSE "hook")
  /\ UNCHANGED <<idx, scan, param, resv, held, mem, builder>>

MprotectFails == pc = "mprotect" /\ job.backend # "no_mmap" /\ Exit("err")

-----------------------------------------------------------------------------
(* The second loop of load_impl over the program headers. *)
NextPhdr == idx' = idx + 1 /\ Goto("hook")

ExecHook ==
  /\ pc = "hook" /\ idx <= Len(phdrs)
  /\ Goto("phdr")
  /\ UNCHANGED <<idx, scan, param, resv, held, owner, mem, prot, builder>>

HookFails == pc = "hook" /\ idx <= Len(phdrs) /\ job.hooked /\ Exit("err")

LoadSegment ==
  /\ pc = "phdr" /\ ph.p_type = "PT_LOAD"
  /\ IF needs_mapping(resv.lo, ph)
     THEN param' = load_segment(ph) /\ Goto("mmap") /\ UNCHANGED idx
     ELSE NextPhdr /\ UNCHANGED param
  /\ UNCHANGED <<scan, resv, held, owner, mem, prot, builder>>

(* fill_bss: the zeroes written by hand.  Writing a page that may not be   *)
(* written, or is not there, is a fault.                                   *)
BssHole == LET b == fill_bss_range(ph) IN b.zero_start .. (b.zero_end - 1)

FillBss_Skip ==                    \* mutant: only whole pages of the .bss are zeroed
  /\ pc = "bss"
  /\ LET b == fill_bss_range(ph) IN
     IF ph.p_filesz # ph.p_memsz /\ b.zero_end < b.max_vaddr
     THEN Goto("bss_anon") /\ UNCHANGED <<idx, mem>>
     ELSE NextPhdr /\ UNCHANGED mem
  /\ UNCHANGED <<scan, param, resv, held, owner, prot, builder>>

FillBss ==
  /\ pc = "bss"
  /\ LET b == fill_bss_range(ph) IN
     IF ph.p_filesz = ph.p_memsz THEN NextPhdr /\ UNCHANGED mem
     ELSE /\ \A a \in BssHole : Writable(a) /\ mem[a] # Unbacked
          /\ mem' = [a \in Addr |-> IF a \in BssHole THEN Zero ELSE mem[a]]
          /\ IF b.zero_end < b.max_vaddr THEN Goto("bss_anon") /\ UNCHANGED idx ELSE NextPhdr
  /\ UNCHANGED <<scan, param, resv, held, owner, prot, builder>>

FillBssFaults ==
  /\ pc = "bss" /\ ph.p_filesz # ph.p_memsz
  /\ \E a \in BssHole : ~Writable(a) \/ mem[a] = Unbacked
  /\ Fault

(* fill_bss: the remaining pages, mapped anonymously (or filled by hand). *)
MmapBss ==
  /\ pc = "bss_anon"
  /\ LET b == fill_bss_range(ph)
         BssPage(a) == b.zero_end <= a /\ a < b.max_vaddr
     IN /\ mem' = [a \in Addr |-> IF BssPage(a) THEN Zero ELSE mem[a]]
        /\ prot' = IF job.backend = "no_mmap" THEN prot
                   ELSE [a \in Addr |-> IF BssPage(a) THEN map_prot(ph.p_flags) ELSE prot[a]]
  /\ NextPhdr
  /\ UNCHANGED <<scan, param, resv, held, owner, builder>>

MmapBssFails == pc = "bss_anon" /\ job.backend # "no_mmap" /\ Exit("err")

(***************************************************************************)
(* parse_other_phdr.  The dynamic section and the interpreter name are     *)
(* read from the image as it is at this point of the loop.                 *)
(***************************************************************************)
Readable(a) == Within(a, resv.lo, resv.len) /\ mem[a] # Unbacked

ParseDynamic_Offset ==             \* mutant: the file offset taken for the address
  /\ pc = "phdr" /\ ph.p_type = "PT_DYNAMIC"
  /\ Readable(ph.p_paddr) /\ job.file.dynamic_ok
  /\ builder' = [builder EXCEPT !.dynamic = mem[ph.p_offset]]
  /\ NextPhdr
  /\ UNCHANGED <<scan, param, resv, held, owner, mem, prot>>

ParseDynamic ==
  /\ pc = "phdr" /\ ph.p_type = "PT_DYNAMIC"
  /\ Readable(ph.p_paddr) /\ job.file.dynamic_ok
  /\ builder' = [builder EXCEPT !.dynamic = mem[ph.p_paddr]]
  /\ NextPhdr
  /\ UNCHANGED <<scan, param, resv, held, owner, mem, prot>>

(* ElfDynamic::new returns an Err or panics at an unwrap of its own (see   *)
(* Dynamic); what is no dynamic section may make it do either.             *)
ParseDynamicFails ==
  /\ pc = "phdr" /\ ph.p_type = "PT_DYNAMIC"
  /\ Readable(ph.p_paddr)
  /\ ~job.file.dynamic_ok \/ mem[ph.p_paddr] # ph.p_offset
  /\ \E outcome \in {"err", "panic"} : Exit(outcome)

ParseInterp ==
  /\ pc = "phdr" /\ ph.p_type = "PT_INTERP"
  /\ Readable(ph.p_vaddr) /\ job.file.interp_ok
  /\ builder' = [builder EXCEPT !.interp = mem[ph.p_vaddr]]
  /\ NextPhdr
  /\ UNCHANGED <<scan, param, resv, held, owner, mem, prot>>

(* to_str().unwrap() of a name that is not UTF-8. *)
ParseInterpPanics ==
  /\ pc = "phdr" /\ ph.p_type = "PT_INTERP"
  /\ Readable(ph.p_vaddr)
  /\ ~job.file.interp_ok \/ mem[ph.p_vaddr] # ph.p_offset
  /\ Exit("panic")

ParseFaults ==
  /\ pc = "phdr"
  /\ \/ ph.p_type = "PT_DYNAMIC" /\ ~Readable(ph.p_paddr)
     \/ ph.p_type = "PT_INTERP" /\ ~Readable(ph.p_vaddr)
  /\ Fault

ParseOther ==
  /\ pc = "phdr" /\ ph.p_type \in {"PT_GNU_RELRO", "PT_PHDR", "PT_OTHER"}
  /\ builder' = CASE ph.p_type = "PT_GNU_RELRO" -> [builder EXCEPT !.relro = idx]
                  [] ph.p_type = "PT_PHDR"      -> [builder EXCEPT !.phdr_mmap = idx]
                  [] OTHER                      -> builder
  /\ NextPhdr
  /\ UNCHANGED <<scan, param, resv, held, owner, mem, prot>>

-----------------------------------------------------------------------------
(***************************************************************************)
(* create_common.  With a dynamic section and no PT_PHDR, the mapped       *)
(* program headers are looked for in the PT_LOADs create_dylib passed on   *)
(* (create_exec passes none); unwrap panics when there are not found.      *)
(***************************************************************************)
PhdrsInLoad_StartOnly(p) ==        \* mutant: where the table ends is not looked at
  LET InFile(x) == p.p_offset <= x /\ x < p.p_offset + p.p_filesz
  IN  InFile(job.file.phoff)

PhdrsInLoad(p) ==
  LET InFile(x) == p.p_offset <= x /\ x < p.p_offset + p.p_filesz
  IN  InFile(job.file.phoff) /\ InFile(job.file.phend)

PhdrsFound == \/ builder.phdr_mmap # 0
              \/ job.file.dylib /\ \E i \in Loads(job.file) : PhdrsInLoad(phdrs[i])

(* Where the slice CoreComponent::phdrs gives out begins. *)
PhdrsAt ==
  IF builder.phdr_mmap # 0 THEN phdrs[builder.phdr_mmap].p_vaddr
  ELSE LET first == CHOOSE i \in Loads(job.file) :
                      /\ PhdrsInLoad(phdrs[i])
                      /\ \A j \in Loads(job.file) : PhdrsInLoad(phdrs[j]) => i <= j
       IN  phdrs[first].p_vaddr + job.file.phoff - phdrs[first].p_offset

CommonReady == pc = "hook" /\ idx > Len(phdrs)

CreateCommon ==
  /\ CommonReady
  /\ IF builder.dynamic # NoCell THEN PhdrsFound ELSE ~job.file.dylib
  /\ Goto("done")
  /\ UNCHANGED <<idx, scan, param, resv, held, owner, mem, prot, builder>>

CreateCommonFails ==
  CommonReady /\ builder.dynamic = NoCell /\ job.file.dylib /\ Exit("err")

CreateCommonPanics ==
  CommonReady /\ builder.dynamic # NoCell /\ ~PhdrsFound /\ Exit("panic")

(* The caller drops the finished object without relocating it. *)
DropObject ==
  /\ pc = "done"
  /\ munmap
  /\ Goto("dropped")
  /\ UNCHANGED <<idx, scan, param, resv, builder>>

-----------------------------------------------------------------------------
Fails == \/ PrepareEhdrFails \/ PreparePhdrFails \/ MmapFails \/ AllocFails \/ ReadFails
         \/ DropFuture \/ MprotectFails \/ HookFails \/ MmapBssFails \/ FillBssFaults
         \/ ParseDynamicFails \/ ParseInterpPanics \/ ParseFaults
         \/ CreateCommonFails \/ CreateCommonPanics

Advances == \/ PrepareEhdr \/ PreparePhdr \/ ScanPhdr \/ CreateSegments
            \/ MmapFd \/ MmapAnonymous \/ MmapAlloc \/ ReadSegment \/ Mprotect
            \/ ExecHook \/ LoadSegment \/ FillBss \/ MmapBss
            \/ ParseDynamic \/ ParseInterp \/ ParseOther \/ CreateCommon

Next == Advances \/ Fails \/ DropObject

Spec == Init /\ [][Next]_vars

Ended == {"done", "dropped", "err", "panic", "cancelled", "fault"}

-----------------------------------------------------------------------------
PcLabels == Ended \cup {"ehdr", "phdrs", "scan", "mmap", "read", "mprotect", "hook",
                        "phdr", "bss", "bss_anon"}

MapParam == [lo : Nat, len : Nat, prot : ProtFlags, off : Nat, count : Nat]

(* Every variable holds a value the code's types allow; in particular the  *)
(* lengths create_segments and load_segment compute never go below zero.   *)
TypeOK ==
  /\ job \in Job
  /\ pc \in PcLabels /\ failed \in PcLabels \cup {"no"}
  /\ idx \in Nat \ {0}
  /\ scan \in [min_vaddr : Nat, max_vaddr : Nat, min_off : Nat, min_filesz : Nat,
               min_prot : ProtFlags]
  /\ param \in MapParam
  /\ resv \in [lo : Nat, len : Nat]
  /\ held \in {"none", "held", "borrowed", "released", "bad_free"}
  /\ owner \in {"nobody", "ElfSegments"}
  /\ mem \in [Addr -> Cell] /\ prot \in [Addr -> ProtFlags]
  /\ builder \in [dynamic : Cell \cup {NoCell}, interp : Cell \cup {NoCell},
                  relro : Nat, phdr_mmap : Nat]

(***************************************************************************)
(* MAP_FIXED replaces whatever is at its address, and the copies and the   *)
(* .bss zeroing write through raw pointers: none of it may reach outside   *)
(* the reservation create_segments computed from a separate pass over the  *)
(* program headers.                                                        *)
(***************************************************************************)
OutsideUntouched ==
  \A a \in Addr : ~Within(a, resv.lo, resv.len) => mem[a] = Foreign /\ prot[a] = 0

(***************************************************************************)
(* The byte a linker asked for at address a of segment p.                  *)
(***************************************************************************)
WantedByte(p, a) == IF a < p.p_vaddr + p.p_filesz THEN p.p_offset + (a - p.p_vaddr) ELSE Zero

SegmentLoaded(p) ==
  \A a \in Addr : Within(a, p.p_vaddr, p.p_memsz) => mem[a] = WantedByte(p, a)

(* The lowest segment comes with the first mmap and is never completed. *)
Lowest(p) == PageDown(p.p_vaddr) = resv.lo

(* It is copied to the start of its page, which is its place if it starts  *)
(* there, and its .bss, if it has one, is left as it comes.                *)
Placed(p) == Lowest(p) => p.p_offset % PageSize = 0
Completed(p) == Lowest(p) => p.p_filesz = p.p_memsz

(***************************************************************************)
(* A successful load has every byte of every PT_LOAD in place, the .bss    *)
(* zeroed included, whatever the order of the program headers, the backend *)
(* and the page padding brought in around the segments.  The lowest        *)
(* segment counts when it starts a page and has no .bss.                   *)
(***************************************************************************)
ImageLoaded ==
  pc = "done" /\ Linked(job.file) =>
    \A i \in Loads(job.file) :
      Placed(phdrs[i]) /\ Completed(phdrs[i]) => SegmentLoaded(phdrs[i])

(***************************************************************************)
(* ... and every page of a segment has the protection its flags ask for,   *)
(* although the first mmap gave the lowest segment's to the whole range    *)
(* and a copied segment was write-only in between.                         *)
(***************************************************************************)
FinalProtection ==
  pc = "done" /\ Linked(job.file) /\ job.backend # "no_mmap" =>
    \A i \in Loads(job.file) : LET m == load_segment(phdrs[i]) IN
      \A a \in Addr : Within(a, m.lo, m.len) => prot[a] = m.prot

(***************************************************************************)
(* A call that fails leaves the address space as it found it, at whichever *)
(* step of whichever segment it fails, and so does dropping the object a   *)
(* call that succeeded has returned.  The exception is a failing read or *)
(* mprotect of the first mmap_segment (or a future dropped there), the one *)
(* at the lowest address: no ElfSegments owns the range yet and it leaks.  *)
(* munmap gives back only what mmap gave, except that without mmap the     *)
(* memory at an executable's fixed address is freed though never allocated.*)
(***************************************************************************)
InFirstMmap == failed \in {"read", "mprotect"} /\ param.lo = resv.lo

LeavesNothing ==
  pc \in {"err", "panic", "cancelled", "dropped"} /\ ~InFirstMmap =>
    /\ held \in {"none", "released"} \/ (job.backend = "no_mmap" /\ ~job.file.dylib)
    /\ \A a \in Addr : mem[a] = Foreign /\ prot[a] = 0

(***************************************************************************)
(* The dynamic section and the interpreter name are read in the middle of  *)
(* the loop, possibly before the segment that holds them is mapped.        *)
(***************************************************************************)
MappedAt(j, i) == /\ Holds(phdrs[j], phdrs[i])
                  /\ j < i \/ Lowest(phdrs[j])

(***************************************************************************)
(* No read of the headers' targets and no .bss write hits a missing or a   *)
(* read-only page, in any file a linker can produce that has the segment   *)
(* of the target earlier in the table, or lowest.                          *)
(***************************************************************************)
NoFault ==
  pc = "fault" /\ Linked(job.file) =>
    /\ phdrs[idx].p_type \in {"PT_DYNAMIC", "PT_INTERP"}
    /\ \A j \in Loads(job.file) : ~MappedAt(j, idx)

(***************************************************************************)
(* What was read is what the file has there, as long as the segment was    *)
(* mapped by then, and at its place.                                       *)
(***************************************************************************)
ReadyAt(i) == \E j \in Loads(job.file) : MappedAt(j, i) /\ Placed(phdrs[j])

ParsedFromImage ==
  pc = "done" /\ Linked(job.file) =>
    \A i \in DOMAIN phdrs :
      ReadyAt(i) =>
        /\ phdrs[i].p_type = "PT_DYNAMIC" => builder.dynamic = phdrs[i].p_offset
        /\ phdrs[i].p_type = "PT_INTERP"  => builder.interp = phdrs[i].p_offset

(***************************************************************************)
(* The program headers of a finished object are in its image: the slice    *)
(* that phdrs() gives out, to unwinders and to the mini-loader, is inside  *)
(* the mapping and holds the whole table of the file, not what happens to  *)
(* lie behind the segment it begins in.                                    *)
(***************************************************************************)
PhdrsMapped ==
  (/\ pc = "done" /\ Linked(job.file) /\ builder.dynamic # NoCell
   /\ \A i \in Loads(job.file) : Placed(phdrs[i]))
  => \A k \in 0 .. job.file.phend - job.file.phoff - 1 :
       /\ Within(PhdrsAt + k, resv.lo, resv.len)
       /\ mem[PhdrsAt + k] = job.file.phoff + k

(* The lowest segment is loaded like any other: load_segment skips it      *)
(* because the mapping create_segments asks for brings it in.              *)
LowestSegmentLoaded ==
  pc = "done" => \A i \in Loads(job.file) : Lowest(phdrs[i]) => SegmentLoaded(phdrs[i])

=============================================================================
