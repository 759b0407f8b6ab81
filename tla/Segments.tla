------------------------------ MODULE Segments ------------------------------
(***************************************************************************)
(* Page arithmetic, protection bits and the three pure computations the    *)
(* loader makes from a program header: the reservation for the whole       *)
(* object, the MAP_FIXED mapping of one PT_LOAD segment, and the two       *)
(* pieces of its .bss (src/segment.rs, src/loader.rs).                     *)
(*                                                                         *)
(* Addresses are link-time virtual addresses: the code adds the same base  *)
(* to every one of them, so the base is left out.                          *)
(***************************************************************************)
EXTENDS Integers, Sequences

CONSTANTS
  PageSize,   \* PAGE_SIZE
  UsizeMax    \* usize::MAX

ASSUME PageSizeAssumption == PageSize \in Nat \ {0}
ASSUME UsizeAssumption    == UsizeMax \in Nat

(* a & MASK *)
PageDown(a) == a - (a % PageSize)

(* (a + PAGE_SIZE - 1) & MASK *)
PageUp(a) == PageDown(a + PageSize - 1)

(***************************************************************************)
(* p_flags carry PF_X = 1, PF_W = 2, PF_R = 4; mmap wants PROT_READ = 1,   *)
(* PROT_WRITE = 2, PROT_EXEC = 4, so the outer bits change places.         *)
(***************************************************************************)
PROT_WRITE == 2
ProtFlags  == 0 .. 7
map_prot(flags) == (flags % 2) * 4 + ((flags \div 2) % 2) * 2 + (flags \div 4)

(* The write bit of a protection. *)
CanWrite(p) == (p \div 2) % 2 = 1

PhdrTypes == {"PT_LOAD", "PT_DYNAMIC", "PT_GNU_RELRO", "PT_PHDR", "PT_INTERP", "PT_OTHER"}

Phdr == [ p_type   : PhdrTypes,
          p_offset : Nat,   p_vaddr : Nat,   p_paddr : Nat,
          p_filesz : Nat,   p_memsz : Nat,   p_flags : ProtFlags ]

-----------------------------------------------------------------------------
(***************************************************************************)
(* The loop of create_segments, one program header at a time: the lowest   *)
(* PT_LOAD (the first one of them, by the strict comparison) and the       *)
(* highest end.                                                            *)
(***************************************************************************)
ScanStart == [ min_vaddr |-> UsizeMax, max_vaddr |-> 0,
               min_off |-> 0, min_filesz |-> 0, min_prot |-> 0 ]

scan_phdr_NoBss(s, ph) ==          \* mutant: the end of a segment without its .bss
  LET e == ph.p_vaddr + ph.p_filesz IN
  IF ph.p_type # "PT_LOAD" THEN s
  ELSE LET m == IF ph.p_vaddr < s.min_vaddr
                THEN [ s EXCEPT !.min_vaddr = ph.p_vaddr, !.min_off = ph.p_offset,
                                !.min_filesz = ph.p_filesz, !.min_prot = ph.p_flags ]
                ELSE s
       IN  IF e > m.max_vaddr THEN [m EXCEPT !.max_vaddr = e] ELSE m

scan_phdr_Swapped(s, ph) ==        \* mutant: the comparison for the minimum swapped
  LET e == ph.p_vaddr + ph.p_memsz IN
  IF ph.p_type # "PT_LOAD" THEN s
  ELSE LET m == IF ph.p_vaddr > s.min_vaddr
                THEN [ s EXCEPT !.min_vaddr = ph.p_vaddr, !.min_off = ph.p_offset,
                                !.min_filesz = ph.p_filesz, !.min_prot = ph.p_flags ]
                ELSE s
       IN  IF e > m.max_vaddr THEN [m EXCEPT !.max_vaddr = e] ELSE m

scan_phdr(s, ph) ==
  LET e == ph.p_vaddr + ph.p_memsz IN
  IF ph.p_type # "PT_LOAD" THEN s
  ELSE LET m == IF ph.p_vaddr < s.min_vaddr
                THEN [ s EXCEPT !.min_vaddr = ph.p_vaddr, !.min_off = ph.p_offset,
                                !.min_filesz = ph.p_filesz, !.min_prot = ph.p_flags ]
                ELSE s
       IN  IF e > m.max_vaddr THEN [m EXCEPT !.max_vaddr = e] ELSE m

(* What create_segments hands to the first mmap, once the loop is over. *)
create_segments(s) ==
  LET lo == PageDown(s.min_vaddr) IN
  [ lo    |-> lo,                        \* min_vaddr, the ElfSegments offset
    len   |-> PageUp(s.max_vaddr) - lo,  \* total_size
    prot  |-> map_prot(s.min_prot),
    off   |-> s.min_off,                 \* range.offset, not rounded
    count |-> s.min_filesz ]             \* range.len

(* The parameters load_segment computes for one PT_LOAD. *)
load_segment(ph) ==
  LET lo  == PageDown(ph.p_vaddr)
      off == PageDown(ph.p_offset)
  IN  [ lo    |-> lo,
        len   |-> PageUp(ph.p_vaddr + ph.p_memsz) - lo,
        prot  |-> map_prot(ph.p_flags),
        off   |-> off,
        count |-> ph.p_filesz + (ph.p_offset - off) ]

(* The segment on the lowest page came with the first mmap: no second one. *)
needs_mapping(lowest, ph) == PageDown(ph.p_vaddr) # lowest

fill_bss_range_NextPage(ph) ==     \* mutant: up to the start of the next page
  LET zero_start == ph.p_vaddr + ph.p_filesz IN
  [ zero_start |-> zero_start,
    zero_end   |-> PageDown(zero_start) + PageSize,
    max_vaddr  |-> PageUp(ph.p_vaddr + ph.p_memsz) ]

(* fill_bss: bytes zeroed by hand, then whole pages mapped anonymously. *)
fill_bss_range(ph) ==
  LET zero_start == ph.p_vaddr + ph.p_filesz IN
  [ zero_start |-> zero_start,
    zero_end   |-> PageUp(zero_start),
    max_vaddr  |-> PageUp(ph.p_vaddr + ph.p_memsz) ]

=============================================================================
