------------------------------- MODULE MCLoader -------------------------------
(***************************************************************************)
(* Small ELF files for Loader: pages of two bytes, two or three PT_LOADs   *)
(* with every combination of file size, .bss size and page offset that     *)
(* fits, program headers in the usual order and in others.                 *)
(***************************************************************************)
EXTENDS Loader

P(type, off, vaddr, filesz, memsz, flags) ==
  [ p_type |-> type, p_offset |-> off, p_vaddr |-> vaddr, p_paddr |-> vaddr,
    p_filesz |-> filesz, p_memsz |-> memsz, p_flags |-> flags ]

RX == 5   \* PF_R | PF_X
RW == 6   \* PF_R | PF_W
RO == 4   \* PF_R

F(dylib, size, hdrs) ==
  [ dylib |-> dylib, valid |-> TRUE, dynamic_ok |-> TRUE, interp_ok |-> TRUE,
    size |-> size, phoff |-> 1, phend |-> 2, phdrs |-> hdrs ]

(* The text segment every file starts with: bytes 0 .. n-1 at address 2. *)
Text(n) == P("PT_LOAD", 0, 2, n, n, RX)

(* A data segment at the given page offset d of page 6, with a .bss. *)
Data(d, filesz, bss) == P("PT_LOAD", 4 + d, 6 + d, filesz, filesz + bss, RW)

DynAt(off, vaddr) == P("PT_DYNAMIC", off, vaddr, 1, 1, RW)
Interp == P("PT_INTERP", 0, 2, 1, 1, RO)
Relro(d) == P("PT_GNU_RELRO", 4 + d, 6 + d, 1, 1, RO)
SelfPhdr == P("PT_PHDR", 1, 3, 1, 1, RO)

(* Text, data with every .bss shape, dynamic in the data or in the text. *)
Shapes == { F(dy, 4 + d + fs, <<Interp, Text(n), Data(d, fs, b), DynAt(IF fs > 0 THEN 4 + d ELSE 0, IF fs > 0 THEN 6 + d ELSE 2)>>) :
            dy \in {TRUE}, d \in 0 .. 1, fs \in 0 .. 2, b \in 0 .. 4, n \in {3} }

(* The same headers in other orders, an executable, PT_PHDR and others; a  *)
(* dynamic section far from the file's end and parsed before it is mapped, *)
(* and a lowest segment that does not start a page.                        *)
Orders == { F(TRUE, 6, <<Data(0, 2, 3), Interp, DynAt(4, 6), Text(4)>>),
            F(TRUE, 6, <<DynAt(4, 6), Data(0, 2, 0), Text(3)>>),
            F(TRUE, 7, <<SelfPhdr, Text(2), Data(1, 1, 1), P("PT_LOAD", 6, 10, 1, 3, RW),
                         DynAt(6, 10), Relro(1)>>),
            F(FALSE, 7, <<Text(3), Data(1, 2, 2), Relro(1)>>),
            F(FALSE, 6, <<SelfPhdr, Text(3), Data(0, 2, 2), DynAt(5, 7)>>),
            F(TRUE, 4, <<DynAt(2, 10), Text(2), P("PT_LOAD", 2, 10, 2, 2, RW)>>),
            F(TRUE, 6, <<P("PT_LOAD", 1, 3, 3, 3, RX), DynAt(2, 4)>>) }

(* Refused: bad header, no dynamic section, no symbol hash table, a name   *)
(* that is not UTF-8, program headers that end with a segment or past it,  *)
(* or beyond the buffer.                                                   *)
Refused == { [F(TRUE, 6, <<Text(3)>>) EXCEPT !.valid = FALSE],
             F(TRUE, 1, <<P("PT_LOAD", 0, 2, 1, 1, RX)>>),
             F(TRUE, 6, <<Text(3)>>),
             [F(TRUE, 6, <<Text(3), DynAt(1, 3)>>) EXCEPT !.dynamic_ok = FALSE],
             [F(TRUE, 6, <<Interp, Text(3), DynAt(1, 3)>>) EXCEPT !.interp_ok = FALSE],
             F(TRUE, 6, <<Text(2), DynAt(1, 3)>>),
             F(FALSE, 6, <<Text(4), DynAt(1, 3)>>),
             [F(TRUE, 6, <<Text(4), DynAt(1, 3)>>) EXCEPT !.phend = 3],
             [F(TRUE, 6, <<Text(2), DynAt(1, 3)>>) EXCEPT !.phend = 3],
             [F(TRUE, 4, <<Text(4), DynAt(1, 3)>>) EXCEPT !.phend = 5] }

(* No linker's work: a .bss that may not be written, headers that point    *)
(* past the file or outside every segment, segments sharing a page,        *)
(* physical addresses that differ from the virtual ones.                   *)
Broken == { F(TRUE, 6, <<Text(3), P("PT_LOAD", 4, 6, 1, 4, RX), DynAt(1, 3)>>),
            F(TRUE, 3, <<Text(8), DynAt(7, 9)>>),
            F(TRUE, 6, <<Text(3), P("PT_INTERP", 0, 12, 1, 1, RO)>>),
            F(TRUE, 6, <<Text(3), P("PT_LOAD", 3, 5, 2, 4, RW), DynAt(1, 3)>>),
            F(TRUE, 6, <<Text(4), [DynAt(1, 3) EXCEPT !.p_paddr = 4]>>) }

MCFiles == Shapes \cup Orders \cup Refused \cup Broken

(* A .bss in the lowest segment. *)
BssFirst == { F(TRUE, 4, <<P("PT_LOAD", 0, 2, 3, 4, RW), DynAt(1, 3)>>) }

=============================================================================
