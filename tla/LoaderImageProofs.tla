-------------------------- MODULE LoaderImageProofs --------------------------
(***************************************************************************)
(* What a load leaves behind, for every page size, every file and every    *)
(* backend: nothing when it fails, and when it succeeds the image a linker *)
(* asked for: its bytes, its protections, its dynamic section and its      *)
(* program headers.                                                        *)
(*                                                                         *)
(* The argument follows the second loop of load_impl.  The parameters of   *)
(* the mapping under way are those of one segment (MappingOf), which       *)
(* shares no page with any other; a segment the loop has passed has its    *)
(* bytes, its .bss and its protection (BytesInPlace, BssInPlace,           *)
(* ProtInPlace), and no later step touches its pages.                      *)
(***************************************************************************)
EXTENDS LoaderProofs, NaturalsInduction, WellFoundedInduction

-----------------------------------------------------------------------------
(* Who answers for the reservation, and when nobody does. *)
Untouched == \A a \in Addr : mem[a] = Foreign /\ prot[a] = 0

Ownership ==
  /\ held \in {"borrowed", "bad_free"} => job.backend = "no_mmap" /\ ~job.file.dylib
  /\ held \in {"released", "bad_free"} =>
       pc \in {"err", "panic", "cancelled", "dropped"} /\ Untouched
  /\ held \in {"held", "borrowed"} /\ ~owned =>
       /\ param.lo = resv.lo /\ param.len = resv.len
       /\ \/ pc \in {"read", "mprotect"}
          \/ failed \in {"read", "mprotect"} /\ pc \in {"err", "panic", "cancelled"}
  /\ pc \in {"err", "panic", "cancelled", "dropped"} => ~owned
  /\ pc = "done" => owned

(* The segment the bounds of create_segments come from. *)
ScanFrom ==
  pc = "scan" =>
    \/ scan.min_vaddr = UsizeMax
    \/ \E i \in Loads(job.file) :
         /\ scan.min_vaddr = phdrs[i].p_vaddr /\ scan.min_off = phdrs[i].p_offset
         /\ scan.min_filesz = phdrs[i].p_filesz /\ scan.min_prot = phdrs[i].p_flags

(* The first mapping is made for the lowest segment, p. *)
FirstFor(p) == /\ param.lo = PageDown(p.p_vaddr) /\ param.prot = map_prot(p.p_flags)
               /\ param.off = p.p_offset /\ param.count = p.p_filesz

(* The segment the mapping under way is made for. *)
MappingOf ==
  /\ pc \in {"mmap", "read", "mprotect"} /\ ~owned =>
       idx = 1 /\ \E i \in Loads(job.file) : FirstFor(phdrs[i])
  /\ pc \in {"read", "mprotect"} => job.backend # "mmap_fd"
  /\ pc \in {"mmap", "read", "mprotect", "bss", "bss_anon"} /\ owned =>
       param = load_segment(ph) /\ ~Lowest(ph)

-----------------------------------------------------------------------------
InPages(a, p) == PageDown(p.p_vaddr) <= a /\ a < PageUp(p.p_vaddr + p.p_memsz)

HasBytes(m, p) ==
  \A a \in Addr : Within(a, p.p_vaddr, p.p_filesz) => m[a] = p.p_offset + (a - p.p_vaddr)
HasBss(m, p) ==
  \A a \in Addr : p.p_vaddr + p.p_filesz <= a /\ a < p.p_vaddr + p.p_memsz => m[a] = Zero
HasProt(q, p) == \A a \in Addr : InPages(a, p) => q[a] = map_prot(p.p_flags)

(* The loop is past segment i, or segment i came with the first mapping. *)
Passed(i) == Lowest(phdrs[i]) \/ i < idx

(* The loop is at segment i, in one of the steps ls. *)
Current(i, ls) == i = idx /\ pc \in ls

BytesInPlace ==
  Linked(job.file) =>
    /\ owned => \A i \in Loads(job.file) :
         (Passed(i) \/ Current(i, {"mprotect", "bss", "bss_anon"})) /\ Placed(phdrs[i])
           => HasBytes(mem, phdrs[i])
    /\ ~owned /\ pc = "mprotect" => \A i \in Loads(job.file) :
         Lowest(phdrs[i]) /\ Placed(phdrs[i]) => HasBytes(mem, phdrs[i])

BssInPlace ==
  Linked(job.file) /\ owned =>
    /\ \A i \in Loads(job.file) : i < idx /\ ~Lowest(phdrs[i]) => HasBss(mem, phdrs[i])
    /\ pc = "bss" => \A a \in BssHole : mem[a] # Unbacked
    /\ pc = "bss_anon" => \A a \in BssHole : mem[a] = Zero

ProtInPlace ==
  Linked(job.file) /\ owned /\ job.backend # "no_mmap" =>
    \A i \in Loads(job.file) :
      Passed(i) \/ Current(i, {"bss", "bss_anon"}) => HasProt(prot, phdrs[i])

(* A page without a file behind it comes only from mapping a file, whose   *)
(* lowest segment then starts a page.                                      *)
FileBacked ==
  /\ job.backend # "mmap_fd" => \A a \in Addr : mem[a] # Unbacked
  /\ job.backend = "mmap_fd" /\ owned /\ Linked(job.file) =>
       \A i \in Loads(job.file) : Placed(phdrs[i])

(* What the loop has parsed. *)
BuilderParsed ==
  /\ builder.phdr_mmap # 0 => /\ builder.phdr_mmap \in DOMAIN phdrs
                              /\ phdrs[builder.phdr_mmap].p_type = "PT_PHDR"
  /\ Linked(job.file) /\ owned =>
       \A i \in DOMAIN phdrs :
         i < idx /\ ReadyAt(i) =>
           /\ phdrs[i].p_type = "PT_DYNAMIC" => builder.dynamic = phdrs[i].p_offset
           /\ phdrs[i].p_type = "PT_INTERP"  => builder.interp = phdrs[i].p_offset

(* A finished object: the loop is over, and the program headers are found. *)
Finished ==
  pc = "done" => idx > Len(phdrs) /\ (builder.dynamic # NoCell => PhdrsFound)

ImageInv == /\ LoaderInv /\ Ownership /\ ScanFrom /\ MappingOf /\ BytesInPlace /\ BssInPlace
            /\ ProtInPlace /\ FileBacked /\ BuilderParsed /\ NoFault

-----------------------------------------------------------------------------
(* Pages. *)

(* Equal places in their pages stay equal when both move by c. *)
LEMMA ModShift ==
  ASSUME NEW a \in Nat, NEW b \in Nat, NEW c \in Nat, a % PageSize = b % PageSize
  PROVE  (a + c) % PageSize = (b + c) % PageSize
<1> DEFINE x == ((a + c) \div PageSize) - (a \div PageSize)
           y == ((b + c) \div PageSize) - (b \div PageSize)
           r == (a + c) % PageSize
           s == (b + c) % PageSize
<1>1. /\ a = PageSize * (a \div PageSize) + (a % PageSize)
      /\ b = PageSize * (b \div PageSize) + (b % PageSize)
      /\ a + c = PageSize * ((a + c) \div PageSize) + r
      /\ b + c = PageSize * ((b + c) \div PageSize) + s
  BY PageSizeAssumption
<1>2. /\ a \div PageSize \in Int /\ b \div PageSize \in Int
      /\ (a + c) \div PageSize \in Int /\ (b + c) \div PageSize \in Int
      /\ r \in 0 .. (PageSize - 1) /\ s \in 0 .. (PageSize - 1) /\ a % PageSize \in Int
  BY PageSizeAssumption
<1>3. /\ PageSize * x = PageSize * ((a + c) \div PageSize) - PageSize * (a \div PageSize)
      /\ PageSize * y = PageSize * ((b + c) \div PageSize) - PageSize * (b \div PageSize)
      /\ x \in Int /\ y \in Int /\ PageSize * x \in Int /\ PageSize * y \in Int
  BY <1>2, PageSizeAssumption
<1>4. PageSize * x + r = PageSize * y + s
  <2>1. /\ PageSize * (a \div PageSize) \in Int /\ PageSize * (b \div PageSize) \in Int
        /\ PageSize * ((a + c) \div PageSize) \in Int /\ PageSize * ((b + c) \div PageSize) \in Int
    BY <1>2, PageSizeAssumption
  <2> QED BY <1>1, <1>2, <1>3, <2>1
<1> HIDE DEF x, y, r, s
<1>5. \A u, w \in Int : u < w => PageSize * u + PageSize <= PageSize * w
  <2> SUFFICES ASSUME NEW u \in Int, NEW w \in Int, u < w
               PROVE  PageSize * u + PageSize <= PageSize * w
    OBVIOUS
  <2>1. PICK d \in Nat : w = u + 1 + d
    <3>1. w - u - 1 \in Nat /\ w = u + 1 + (w - u - 1)
      OBVIOUS
    <3> QED BY <3>1
  <2>2. PageSize * w = PageSize * u + PageSize + PageSize * d /\ PageSize * d \in Nat
    BY <2>1, PageSizeAssumption
  <2> QED BY <2>2, PageSizeAssumption
<1>6. x = y
  BY <1>2, <1>3, <1>4, <1>5, PageSizeAssumption
<1>7. r = s
  BY <1>2, <1>3, <1>4, <1>6
<1> QED BY <1>7 DEF r, s

(* ... so the rest of the page is as long behind the one as behind the other. *)
LEMMA PageUpShift ==
  ASSUME NEW a \in Nat, NEW b \in Nat, a % PageSize = b % PageSize
  PROVE  PageUp(a) - a = PageUp(b) - b
<1>1. PICK c \in Nat : c = PageSize - 1
  BY PageSizeAssumption
<1>2. (a + c) % PageSize = (b + c) % PageSize
  BY ModShift
<1>5. (a + c) % PageSize \in Int
  BY PageSizeAssumption
<1>3. a + PageSize - 1 = a + c /\ b + PageSize - 1 = b + c
  BY <1>1, PageSizeAssumption
<1>4. PageUp(a) = (a + c) - ((a + c) % PageSize) /\ PageUp(b) = (b + c) - ((b + c) % PageSize)
  BY <1>3 DEF PageUp, PageDown
<1> QED BY <1>2, <1>4, <1>5

(* A segment, its pages, and the mapping load_segment asks for. *)
LEMMA SegmentFacts ==
  ASSUME job \in Job, NEW i \in Loads(job.file)
  PROVE  LET p == phdrs[i]  m == load_segment(p) IN
         /\ i \in DOMAIN phdrs /\ i \in Nat /\ i >= 1
         /\ p \in Phdr /\ PhdrSane(p) /\ p.p_type = "PT_LOAD"
         /\ p.p_vaddr \in Nat /\ p.p_memsz \in Nat /\ p.p_filesz \in Nat /\ p.p_offset \in Nat
         /\ p.p_filesz <= p.p_memsz
         /\ PageDown(p.p_vaddr) \in Nat /\ PageDown(p.p_vaddr) <= p.p_vaddr
         /\ PageUp(p.p_vaddr + p.p_memsz) \in Nat
         /\ p.p_vaddr + p.p_memsz <= PageUp(p.p_vaddr + p.p_memsz)
         /\ PageUp(p.p_vaddr + p.p_memsz) <= AddrMax + 1
         /\ m \in MapParam
         /\ m.lo = PageDown(p.p_vaddr) /\ m.prot = map_prot(p.p_flags)
         /\ m.lo + m.len = PageUp(p.p_vaddr + p.p_memsz)
         /\ m.off - m.lo = p.p_offset - p.p_vaddr
         /\ m.count = p.p_filesz + (p.p_vaddr - m.lo)
<1> DEFINE p == phdrs[i]
           m == load_segment(p)
<1>1. i \in DOMAIN phdrs /\ i \in Nat /\ i >= 1
  BY SomeLoad
<1>2. p \in Phdr /\ PhdrSane(p)
  BY <1>1, PhdrFacts
<1>3. p.p_type = "PT_LOAD"
  BY DEF Loads, phdrs
<1>4. /\ p.p_vaddr \in Nat /\ p.p_memsz \in Nat /\ p.p_filesz \in Nat /\ p.p_offset \in Nat
      /\ p.p_filesz <= p.p_memsz
      /\ PageUp(p.p_vaddr + p.p_memsz) <= AddrMax + 1
      /\ p.p_offset % PageSize = p.p_vaddr % PageSize
  BY <1>2, <1>3 DEF Phdr, PhdrSane
<1>5. PageDown(p.p_vaddr) \in Nat /\ PageDown(p.p_vaddr) <= p.p_vaddr
  BY <1>4, PageDownBound
<1>6. /\ PageUp(p.p_vaddr + p.p_memsz) \in Nat
      /\ p.p_vaddr + p.p_memsz <= PageUp(p.p_vaddr + p.p_memsz)
  <2>1. p.p_vaddr + p.p_memsz \in Nat
    BY <1>4
  <2> QED BY <2>1, PageUpBound
<1>7. /\ m \in MapParam /\ m.lo = PageDown(p.p_vaddr)
      /\ m.lo + m.len = PageUp(p.p_vaddr + p.p_memsz)
  BY <1>2, <1>3, LoadSegmentFits
<1>8. p.p_offset - PageDown(p.p_offset) = p.p_vaddr - PageDown(p.p_vaddr)
  <2>1. p.p_offset % PageSize \in Int /\ p.p_vaddr % PageSize \in Int
    BY <1>4, PageSizeAssumption
  <2> QED BY <1>4, <2>1 DEF PageDown
<1>9. PageDown(p.p_offset) \in Nat
  BY <1>4, PageDownBound
<1>10. /\ m.prot = map_prot(p.p_flags)
       /\ m.off - m.lo = p.p_offset - p.p_vaddr
       /\ m.count = p.p_filesz + (p.p_vaddr - m.lo)
  BY <1>4, <1>5, <1>8, <1>9 DEF load_segment
<1> QED BY <1>1, <1>2, <1>3, <1>4, <1>5, <1>6, <1>7, <1>10

(* A segment whose file part starts a page of the file starts one in memory. *)
LEMMA PlacedStart ==
  ASSUME job \in Job, NEW i \in Loads(job.file), phdrs[i].p_offset % PageSize = 0
  PROVE  PageDown(phdrs[i].p_vaddr) = phdrs[i].p_vaddr
  BY SegmentFacts DEF PhdrSane, PageDown

(* Linked segments share no page, and only one of them is the lowest. *)
LEMMA Apart ==
  ASSUME job \in Job, Linked(job.file), NEW i \in Loads(job.file), NEW j \in Loads(job.file),
         i # j
  PROVE  /\ PageDown(phdrs[i].p_vaddr) # PageDown(phdrs[j].p_vaddr)
         /\ \A a \in Addr : InPages(a, phdrs[i]) => ~InPages(a, phdrs[j])
<1>1. PageDisjoint(phdrs[i], phdrs[j])
  BY DEF Linked, phdrs
<1>2. /\ PageDown(phdrs[i].p_vaddr) \in Nat /\ PageDown(phdrs[j].p_vaddr) \in Nat
      /\ PageUp(phdrs[i].p_vaddr + phdrs[i].p_memsz) \in Nat
      /\ PageUp(phdrs[j].p_vaddr + phdrs[j].p_memsz) \in Nat
  BY SegmentFacts
<1> QED BY <1>1, <1>2, BoundsAssumption DEF PageDisjoint, InPages, Addr

(* The bytes, the .bss and the pages of a segment. *)
LEMMA InsidePages ==
  ASSUME job \in Job, NEW i \in Loads(job.file), NEW a \in Addr,
         phdrs[i].p_vaddr <= a, a < phdrs[i].p_vaddr + phdrs[i].p_memsz
  PROVE  InPages(a, phdrs[i])
  BY SegmentFacts, BoundsAssumption DEF InPages, Addr

(* A step that leaves the pages of a segment alone leaves it in place. *)
LEMMA StaysInPlace ==
  ASSUME job \in Job, NEW i \in Loads(job.file), NEW m, NEW n,
         \A a \in Addr : InPages(a, phdrs[i]) => n[a] = m[a]
  PROVE  /\ HasBytes(m, phdrs[i]) => HasBytes(n, phdrs[i])
         /\ HasBss(m, phdrs[i]) => HasBss(n, phdrs[i])
         /\ HasProt(m, phdrs[i]) => HasProt(n, phdrs[i])
<1>0. /\ phdrs[i].p_vaddr \in Nat /\ phdrs[i].p_memsz \in Nat /\ phdrs[i].p_filesz \in Nat
      /\ phdrs[i].p_filesz <= phdrs[i].p_memsz
  BY SegmentFacts
<1>1. ASSUME HasBytes(m, phdrs[i]), NEW a \in Addr,
             Within(a, phdrs[i].p_vaddr, phdrs[i].p_filesz)
      PROVE  n[a] = phdrs[i].p_offset + (a - phdrs[i].p_vaddr)
  <2>1. InPages(a, phdrs[i])
    BY <1>0, <1>1, InsidePages, BoundsAssumption DEF Within, Addr
  <2> QED BY <1>1, <2>1 DEF HasBytes
<1>2. ASSUME HasBss(m, phdrs[i]), NEW a \in Addr,
             phdrs[i].p_vaddr + phdrs[i].p_filesz <= a, a < phdrs[i].p_vaddr + phdrs[i].p_memsz
      PROVE  n[a] = Zero
  <2>1. InPages(a, phdrs[i])
    BY <1>0, <1>2, InsidePages, BoundsAssumption DEF Addr
  <2> QED BY <1>2, <2>1 DEF HasBss
<1>3. HasProt(m, phdrs[i]) => HasProt(n, phdrs[i])
  BY DEF HasProt
<1> QED BY <1>1, <1>2, <1>3 DEF HasBytes, HasBss

-----------------------------------------------------------------------------
(* Nothing is in place before the first mapping. *)
LEMMA ImageInit == Init => ImageInv
<1> SUFFICES ASSUME Init PROVE ImageInv
  OBVIOUS
<1>1. LoaderInv
  BY InitInv
<1>2. Ownership /\ ScanFrom /\ MappingOf
  BY DEF Init, Ownership, ScanFrom, MappingOf, owned
<1>3. BytesInPlace /\ BssInPlace /\ ProtInPlace
  BY DEF Init, BytesInPlace, BssInPlace, ProtInPlace, owned
<1>4. FileBacked /\ BuilderParsed /\ NoFault
  BY DEF Init, FileBacked, BuilderParsed, NoFault, owned, Foreign, Unbacked
<1> QED BY <1>1, <1>2, <1>3, <1>4 DEF ImageInv

(***************************************************************************)
(* munmap of an owned reservation, the one there is, leaves nothing.       *)
(***************************************************************************)
LEMMA munmap_Clears ==
  ASSUME LoaderInv, munmap
  PROVE  Untouched' /\ (\A a \in Addr : mem'[a] = Foreign)
<1>1. \A a \in Addr : ~Within(a, resv.lo, resv.len) => mem[a] = Foreign /\ prot[a] = 0
  BY DEF LoaderInv, OutsideUntouched
<1>2. \A a \in Addr : mem'[a] = Foreign /\ prot'[a] = 0
  BY <1>1 DEF munmap
<1> QED BY <1>2 DEF Untouched

LEMMA ExitImage ==
  ASSUME ImageInv, pc \notin Ended, NEW o \in {"err", "panic", "cancelled"}, Exit(o)
  PROVE  ImageInv'
<1>1. LoaderInv'
  BY ExitInv DEF ImageInv
<1>2. /\ pc' = o /\ failed' = pc /\ UNCHANGED <<job, idx, scan, param, resv, builder>>
      /\ held \in {"none", "held", "borrowed", "released", "bad_free"}
      /\ owner \in {"nobody", "ElfSegments"}
  BY DEF Exit, ImageInv, LoaderInv, TypeOK
<1>3. ~owned'
  <2>1. CASE owned
    BY <2>1 DEF Exit, munmap, owned
  <2>2. CASE ~owned
    BY <2>2 DEF Exit, owned
  <2> QED BY <2>1, <2>2
<1>4. Ownership'
  <2>1. CASE owned
    <3>1. munmap
      BY <2>1 DEF Exit
    <3>2. Untouched'
      BY <3>1, munmap_Clears DEF ImageInv
    <3>3. held' = IF held = "borrowed" THEN "bad_free" ELSE "released"
      BY <3>1 DEF munmap
    <3> QED BY <1>2, <1>3, <3>2, <3>3 DEF ImageInv, Ownership
  <2>2. CASE ~owned
    <3>1. UNCHANGED <<held, owner, mem, prot>>
      BY <2>2 DEF Exit
    <3>2. held \notin {"released", "bad_free"}
      BY DEF ImageInv, Ownership, Ended
    <3>3. held \in {"held", "borrowed"} => pc \in {"read", "mprotect"}
      BY <2>2 DEF ImageInv, Ownership, Ended
    <3> QED BY <1>2, <1>3, <2>2, <3>1, <3>2, <3>3 DEF ImageInv, Ownership
  <2> QED BY <2>1, <2>2
<1>5. ScanFrom' /\ MappingOf'
  BY <1>2 DEF ScanFrom, MappingOf
<1>6. BytesInPlace' /\ BssInPlace' /\ ProtInPlace'
  BY <1>2, <1>3 DEF BytesInPlace, BssInPlace, ProtInPlace
<1>7. FileBacked'
  <2>1. job.backend # "mmap_fd" => \A a \in Addr : mem'[a] # Unbacked
    <3>1. CASE owned
      <4>1. munmap
        BY <3>1 DEF Exit
      <4> QED BY <4>1, munmap_Clears DEF ImageInv, Foreign, Unbacked
    <3>2. CASE ~owned
      BY <3>2 DEF Exit, ImageInv, FileBacked
    <3> QED BY <3>1, <3>2
  <2> QED BY <1>2, <1>3, <2>1 DEF FileBacked
<1>8. BuilderParsed' /\ NoFault'
  BY <1>2, <1>3 DEF ImageInv, BuilderParsed, NoFault, phdrs
<1> QED BY <1>1, <1>4, <1>5, <1>6, <1>7, <1>8 DEF ImageInv

LEMMA DropObjectImage ==
  ASSUME ImageInv, DropObject
  PROVE  ImageInv'
<1>1. LoaderInv'
  BY DropObjectInv DEF ImageInv
<1>2. /\ pc = "done" /\ pc' = "dropped" /\ munmap
      /\ UNCHANGED <<job, failed, idx, scan, param, resv, builder>>
  BY DEF DropObject, Goto
<1>3. /\ held' = (IF held = "borrowed" THEN "bad_free" ELSE "released") /\ ~owned'
      /\ held \in {"none", "held", "borrowed", "released", "bad_free"}
  BY <1>2 DEF munmap, owned, ImageInv, LoaderInv, TypeOK
<1>4. Untouched' /\ (\A a \in Addr : mem'[a] = Foreign)
  BY <1>2, munmap_Clears DEF ImageInv
<1>5. Ownership'
  BY <1>2, <1>3, <1>4 DEF ImageInv, Ownership
<1>6. ScanFrom' /\ MappingOf'
  BY <1>2 DEF ScanFrom, MappingOf
<1>7. BytesInPlace' /\ BssInPlace' /\ ProtInPlace'
  BY <1>2, <1>3 DEF BytesInPlace, BssInPlace, ProtInPlace
<1>8. FileBacked'
  BY <1>3, <1>4 DEF FileBacked, Foreign, Unbacked
<1>9. BuilderParsed' /\ NoFault'
  BY <1>2, <1>3 DEF ImageInv, BuilderParsed, NoFault, phdrs
<1> QED BY <1>1, <1>5, <1>6, <1>7, <1>8, <1>9 DEF ImageInv

(***************************************************************************)
(* The steps before the first mapping.                                     *)
(***************************************************************************)
LEMMA EarlyImage ==
  ASSUME ImageInv, pc \in {"ehdr", "phdrs", "scan"}, pc' \in {"phdrs", "scan", "mmap"},
         LoaderInv', ScanFrom', MappingOf',
         UNCHANGED <<job, failed, resv, held, owner, mem, prot, builder>>
  PROVE  ImageInv'
<1>1. held = "none" /\ ~owned
  BY DEF ImageInv, LoaderInv, Control
<1>2. Ownership'
  BY <1>1 DEF ImageInv, Ownership, owned
<1>3. BytesInPlace' /\ BssInPlace' /\ ProtInPlace'
  BY <1>1 DEF BytesInPlace, BssInPlace, ProtInPlace, owned
<1>4. FileBacked' /\ BuilderParsed' /\ NoFault'
  BY <1>1 DEF ImageInv, FileBacked, BuilderParsed, NoFault, owned, phdrs
<1> QED BY <1>2, <1>3, <1>4 DEF ImageInv

LEMMA HeadersImage ==
  ASSUME ImageInv, PrepareEhdr \/ PreparePhdr
  PROVE  ImageInv'
<1>1. LoaderInv'
  BY HeadersInv DEF ImageInv
<1>2. /\ pc \in {"ehdr", "phdrs"} /\ pc' \in {"phdrs", "scan"}
      /\ UNCHANGED <<job, failed, scan, resv, held, owner, mem, prot, builder>>
  BY DEF PrepareEhdr, PreparePhdr, Goto
<1>3. scan = ScanStart
  BY <1>2 DEF ImageInv, LoaderInv, Control
<1>4. ScanFrom' /\ MappingOf'
  BY <1>2, <1>3 DEF ScanFrom, MappingOf, ScanStart
<1> QED BY <1>1, <1>2, <1>4, EarlyImage

LEMMA ScanPhdrImage ==
  ASSUME ImageInv, ScanPhdr
  PROVE  ImageInv'
<1>1. LoaderInv'
  BY ScanPhdrInv DEF ImageInv
<1>2. /\ pc = "scan" /\ pc' = pc /\ idx <= Len(phdrs) /\ scan' = scan_phdr(scan, ph)
      /\ UNCHANGED <<job, failed, resv, held, owner, mem, prot, builder>>
  BY DEF ScanPhdr
<1>3. scan \in [min_vaddr : Nat, max_vaddr : Nat, min_off : Nat, min_filesz : Nat,
                min_prot : ProtFlags]
  BY DEF ImageInv, LoaderInv, TypeOK
<1>4. idx \in DOMAIN phdrs
  BY <1>2, SomeLoad DEF ImageInv, LoaderInv, TypeOK
<1>5. ScanFrom'
  <2> DEFINE m == [ scan EXCEPT !.min_vaddr = ph.p_vaddr, !.min_off = ph.p_offset,
                                !.min_filesz = ph.p_filesz, !.min_prot = ph.p_flags ]
  <2>1. CASE ph.p_type = "PT_LOAD" /\ ph.p_vaddr < scan.min_vaddr
    <3>1. idx \in Loads(job.file)
      BY <1>4, <2>1 DEF Loads, ph, phdrs
    <3>2. /\ m.min_vaddr = ph.p_vaddr /\ m.min_off = ph.p_offset
          /\ m.min_filesz = ph.p_filesz /\ m.min_prot = ph.p_flags
          /\ DOMAIN m = DOMAIN scan
          /\ DOMAIN scan = {"min_vaddr", "max_vaddr", "min_off", "min_filesz", "min_prot"}
      <4>1. DOMAIN scan = {"min_vaddr", "max_vaddr", "min_off", "min_filesz", "min_prot"}
        BY <1>3
      <4> QED BY <4>1
    <3>3. \/ scan' = m
          \/ scan' = [m EXCEPT !.max_vaddr = ph.p_vaddr + ph.p_memsz]
      BY <1>2, <2>1 DEF scan_phdr
    <3> HIDE DEF m
    <3>4. /\ scan'.min_vaddr = ph.p_vaddr /\ scan'.min_off = ph.p_offset
          /\ scan'.min_filesz = ph.p_filesz /\ scan'.min_prot = ph.p_flags
      BY <3>2, <3>3
    <3> QED BY <1>2, <3>1, <3>4 DEF ScanFrom, ph, phdrs
  <2>2. CASE ~(ph.p_type = "PT_LOAD" /\ ph.p_vaddr < scan.min_vaddr)
    <3>1. \/ scan' = scan
          \/ scan' = [scan EXCEPT !.max_vaddr = ph.p_vaddr + ph.p_memsz]
      BY <1>2, <2>2 DEF scan_phdr
    <3>2. /\ scan'.min_vaddr = scan.min_vaddr /\ scan'.min_off = scan.min_off
          /\ scan'.min_filesz = scan.min_filesz /\ scan'.min_prot = scan.min_prot
      BY <1>3, <3>1
    <3> QED BY <1>2, <3>2 DEF ScanFrom, ImageInv, phdrs
  <2> QED BY <2>1, <2>2
<1>6. MappingOf'
  BY <1>2 DEF MappingOf
<1> QED BY <1>1, <1>2, <1>5, <1>6, EarlyImage

LEMMA CreateSegmentsImage ==
  ASSUME ImageInv, CreateSegments
  PROVE  ImageInv'
<1>1. LoaderInv'
  BY CreateSegmentsInv DEF ImageInv
<1>2. /\ pc = "scan" /\ pc' = "mmap" /\ idx > Len(phdrs) /\ idx' = 1
      /\ param' = create_segments(scan)
      /\ UNCHANGED <<job, failed, resv, held, owner, mem, prot, builder>>
  BY DEF CreateSegments, Goto
<1>3. scan.min_vaddr # UsizeMax
  <2>1. PICK i \in Loads(job.file) : TRUE
    BY SomeLoad DEF ImageInv, LoaderInv, TypeOK
  <2>2. phdrs[i].p_vaddr \in Nat /\ phdrs[i].p_vaddr < UsizeMax /\ i \in DOMAIN phdrs
    BY SegmentFacts DEF ImageInv, LoaderInv, TypeOK, PhdrSane
  <2>3. i < idx
    BY <1>2, <2>2, SomeLoad DEF ImageInv, LoaderInv, TypeOK
  <2>4. scan.min_vaddr <= phdrs[i].p_vaddr /\ scan.min_vaddr \in Nat
    BY <1>2, <2>3 DEF ImageInv, LoaderInv, ScanBounds, TypeOK
  <2> QED BY <2>2, <2>4, UsizeAssumption
<1>4. MappingOf'
  <2>1. PICK i \in Loads(job.file) :
          /\ scan.min_vaddr = phdrs[i].p_vaddr /\ scan.min_off = phdrs[i].p_offset
          /\ scan.min_filesz = phdrs[i].p_filesz /\ scan.min_prot = phdrs[i].p_flags
    BY <1>2, <1>3 DEF ImageInv, ScanFrom
  <2>2. FirstFor(phdrs[i])'
    BY <1>2, <2>1 DEF FirstFor, create_segments, phdrs
  <2>3. ~owned'
    BY <1>2 DEF ImageInv, LoaderInv, Control, owned
  <2> QED BY <1>2, <2>2, <2>3 DEF MappingOf, phdrs
<1>5. ScanFrom'
  BY <1>2 DEF ScanFrom
<1> QED BY <1>1, <1>2, <1>4, <1>5, EarlyImage

-----------------------------------------------------------------------------
(* The first mapping. *)

(* The lowest segment is the one the first mapping is made for. *)
LEMMA OnlyLowest ==
  ASSUME job \in Job, Linked(job.file), NEW k \in Loads(job.file), FirstFor(phdrs[k]),
         NEW i \in Loads(job.file), PageDown(phdrs[i].p_vaddr) = param.lo
  PROVE  i = k
  BY Apart DEF FirstFor

LEMMA FirstMmapFd ==
  ASSUME ImageInv, MmapFd, ~owned
  PROVE  ImageInv'
<1>1. LoaderInv' /\ LoaderInv /\ TypeOK /\ job \in Job
  BY MmapFdInv DEF ImageInv, LoaderInv, TypeOK
<1>2. /\ pc = "mmap" /\ job.backend = "mmap_fd" /\ param.off % PageSize = 0 /\ Mapped("held")
      /\ pc' = "hook" /\ owned' /\ UNCHANGED <<job, failed, idx, scan, param, builder>>
  BY DEF MmapFd, Goto, owned
<1>3. held = "none" /\ Covers(job.file, param.lo, param.len)
  BY <1>1, <1>2 DEF LoaderInv, Control, SegmentsCovered
<1>4. resv' = [lo |-> param.lo, len |-> param.len] /\ held' = "held"
  BY <1>2, <1>3 DEF Mapped, First
<1>5. idx = 1
  BY <1>2 DEF ImageInv, MappingOf
<1>6. PICK k \in Loads(job.file) : FirstFor(phdrs[k])
  BY <1>2 DEF ImageInv, MappingOf
<1>7. ASSUME Linked(job.file), NEW i \in Loads(job.file), Passed(i)'
      PROVE  /\ i = k /\ PageDown(phdrs[k].p_vaddr) = phdrs[k].p_vaddr
             /\ phdrs[k].p_offset % PageSize = 0
             /\ HasBytes(mem', phdrs[k]) /\ HasProt(prot', phdrs[k])
  <2>1. PageDown(phdrs[i].p_vaddr) = param.lo
    BY <1>1, <1>2, <1>4, <1>5, <1>7, SegmentFacts DEF Passed, Lowest, phdrs
  <2>2. i = k
    BY <1>1, <1>6, <1>7, <2>1, OnlyLowest
  <2>3. phdrs[k].p_offset % PageSize = 0
    BY <1>2, <1>6 DEF FirstFor
  <2>4. PageDown(phdrs[k].p_vaddr) = phdrs[k].p_vaddr
    BY <1>1, <2>3, PlacedStart
  <2>5. \A a \in Addr : InPages(a, phdrs[k]) => Within(a, param.lo, param.len)
    <3>1. /\ param.lo <= PageDown(phdrs[k].p_vaddr)
          /\ PageUp(phdrs[k].p_vaddr + phdrs[k].p_memsz) <= param.lo + param.len
      BY <1>3 DEF Covers, phdrs
    <3>2. /\ PageDown(phdrs[k].p_vaddr) \in Nat
          /\ PageUp(phdrs[k].p_vaddr + phdrs[k].p_memsz) \in Nat
          /\ param.lo \in Nat /\ param.len \in Nat
      BY <1>1, SegmentFacts DEF TypeOK, MapParam
    <3> QED BY <3>1, <3>2, BoundsAssumption DEF InPages, Within, Addr
  <2>6. HasProt(prot', phdrs[k])
    BY <1>6, <2>5 DEF HasProt, MmapFd, FirstFor
  <2>7. HasBytes(mem', phdrs[k])
    <3> SUFFICES ASSUME NEW a \in Addr, Within(a, phdrs[k].p_vaddr, phdrs[k].p_filesz)
                 PROVE  mem'[a] = phdrs[k].p_offset + (a - phdrs[k].p_vaddr)
      BY DEF HasBytes
    <3>1. /\ phdrs[k].p_vaddr \in Nat /\ phdrs[k].p_memsz \in Nat /\ phdrs[k].p_filesz \in Nat
          /\ phdrs[k].p_offset \in Nat /\ phdrs[k].p_filesz <= phdrs[k].p_memsz /\ a \in Nat
      BY <1>1, SegmentFacts, BoundsAssumption DEF Addr
    <3>2. phdrs[k].p_vaddr <= a /\ a < phdrs[k].p_vaddr + phdrs[k].p_filesz
      BY DEF Within
    <3>3. InPages(a, phdrs[k])
      BY <1>1, <3>1, <3>2, InsidePages
    <3>4. mem'[a] = FileCell(job.file, phdrs[k].p_offset + (a - phdrs[k].p_vaddr))
      BY <1>6, <2>4, <2>5, <3>3 DEF MmapFd, FirstFor
    <3>5. /\ job.file.size \in Nat
          /\ phdrs[k].p_offset + phdrs[k].p_filesz <= job.file.size
      BY <1>1, <1>7, FilesAssumption DEF Linked, Job, File, phdrs
    <3>6. phdrs[k].p_offset + (a - phdrs[k].p_vaddr) < job.file.size
      BY <3>1, <3>2, <3>5
    <3> QED BY <3>4, <3>6 DEF FileCell
  <2> QED BY <2>2, <2>3, <2>4, <2>6, <2>7
<1>8. Ownership' /\ ScanFrom' /\ MappingOf'
  BY <1>2, <1>4 DEF Ownership, ScanFrom, MappingOf
<1>9. \A i \in Loads(job.file) : i \in Nat /\ i >= 1
  BY <1>1, SegmentFacts
<1>10. BytesInPlace' /\ ProtInPlace'
  BY <1>2, <1>7 DEF BytesInPlace, ProtInPlace, Current, phdrs
<1>11. BssInPlace'
  BY <1>2, <1>5, <1>9 DEF BssInPlace
<1>12. FileBacked'
  BY <1>2, <1>7 DEF FileBacked, Placed, Passed, phdrs
<1>13. BuilderParsed'
  <2>1. \A i \in DOMAIN phdrs : i \in Nat /\ i >= 1
    BY <1>1, SomeLoad
  <2> QED BY <1>2, <1>5, <2>1 DEF ImageInv, BuilderParsed, phdrs
<1>14. NoFault'
  BY <1>2 DEF NoFault
<1> QED BY <1>1, <1>8, <1>10, <1>11, <1>12, <1>13, <1>14 DEF ImageInv

(* A copied or allocated reservation, before anything owns it. *)
LEMMA FirstReserve ==
  ASSUME ImageInv, MmapAnonymous \/ MmapAlloc, ~owned
  PROVE  ImageInv'
<1>1. LoaderInv' /\ LoaderInv /\ job \in Job
  BY MmapAnonymousInv, MmapAllocInv DEF ImageInv, LoaderInv, TypeOK
<1>2. /\ pc = "mmap" /\ pc' = "read" /\ job.backend # "mmap_fd"
      /\ UNCHANGED <<job, failed, idx, scan, param, owner, builder>>
  BY DEF MmapAnonymous, MmapAlloc, Goto
<1>3. held = "none" /\ ~owned'
  BY <1>1, <1>2 DEF LoaderInv, Control, owned
<1>4. /\ resv' = [lo |-> param.lo, len |-> param.len]
      /\ \/ held' = "held"
         \/ held' = "borrowed" /\ job.backend = "no_mmap" /\ ~job.file.dylib
  BY <1>3 DEF MmapAnonymous, MmapAlloc, Mapped, First
<1>5. Ownership' /\ ScanFrom'
  BY <1>2, <1>3, <1>4 DEF Ownership, ScanFrom
<1>6. MappingOf'
  BY <1>2, <1>3 DEF ImageInv, MappingOf, FirstFor, phdrs
<1>7. BytesInPlace' /\ BssInPlace' /\ ProtInPlace'
  BY <1>2, <1>3 DEF BytesInPlace, BssInPlace, ProtInPlace
<1>8. FileBacked'
  <2>1. \A a \in Addr : mem'[a] \in {mem[a], Zero, Garbage}
    <3>1. CASE MmapAnonymous
      BY <3>1 DEF MmapAnonymous
    <3>2. CASE MmapAlloc
      BY <3>2, <1>1 DEF MmapAlloc, LoaderInv, TypeOK
    <3> QED BY <3>1, <3>2
  <2>2. \A a \in Addr : mem[a] # Unbacked
    BY <1>2 DEF ImageInv, FileBacked
  <2> QED BY <1>2, <1>3, <2>1, <2>2 DEF FileBacked, Zero, Garbage, Unbacked
<1>9. BuilderParsed' /\ NoFault'
  BY <1>2, <1>3 DEF ImageInv, BuilderParsed, NoFault, phdrs
<1> QED BY <1>1, <1>5, <1>6, <1>7, <1>8, <1>9 DEF ImageInv

LEMMA FirstRead ==
  ASSUME ImageInv, ReadSegment, ~owned
  PROVE  ImageInv'
<1>1. LoaderInv' /\ LoaderInv /\ TypeOK /\ job \in Job
  BY ReadSegmentInv DEF ImageInv, LoaderInv, TypeOK
<1>2. /\ pc = "read" /\ pc' = "mprotect" /\ ~owned'
      /\ UNCHANGED <<job, failed, idx, scan, param, resv, held, owner, prot, builder>>
  BY DEF ReadSegment, Goto, owned
<1>3. held # "none" /\ held \in {"none", "held", "borrowed", "released", "bad_free"}
  BY <1>1, <1>2 DEF LoaderInv, Control, TypeOK
<1>4. held \in {"held", "borrowed"} /\ param.lo = resv.lo
  BY <1>2, <1>3 DEF ImageInv, Ownership
<1>5. PICK k \in Loads(job.file) : FirstFor(phdrs[k])
  BY <1>2 DEF ImageInv, MappingOf
<1>6. Ownership'
  BY <1>2, <1>4 DEF ImageInv, Ownership
<1>7. ScanFrom' /\ MappingOf'
  BY <1>2 DEF ImageInv, ScanFrom, MappingOf, FirstFor, phdrs
<1>8. BytesInPlace'
  <2> SUFFICES ASSUME Linked(job.file), NEW i \in Loads(job.file), Lowest(phdrs[i]),
                      phdrs[i].p_offset % PageSize = 0
               PROVE  HasBytes(mem', phdrs[i])
    BY <1>2 DEF BytesInPlace, Lowest, Placed, phdrs
  <2>1. i = k
    BY <1>1, <1>4, <1>5, OnlyLowest DEF Lowest
  <2>2. phdrs[k].p_vaddr = param.lo
    BY <1>1, <1>5, <2>1, PlacedStart DEF FirstFor
  <2> QED BY <1>5, <2>1, <2>2 DEF ReadSegment, HasBytes, FirstFor
<1>9. BssInPlace' /\ ProtInPlace'
  BY <1>2 DEF BssInPlace, ProtInPlace
<1>10. FileBacked'
  <2>1. /\ param.lo \in Nat /\ param.off \in Nat /\ param.count \in Nat
        /\ \A a \in Addr : mem[a] # Unbacked
    BY <1>1, <1>2 DEF ImageInv, FileBacked, MappingOf, TypeOK, MapParam
  <2>2. \A a \in Addr : mem'[a] = mem[a] \/ mem'[a] \in Nat
    BY <2>1, BoundsAssumption DEF ReadSegment, Within, Addr
  <2> QED BY <1>2, <2>1, <2>2 DEF FileBacked, Unbacked
<1>11. BuilderParsed' /\ NoFault'
  BY <1>2 DEF ImageInv, BuilderParsed, NoFault, phdrs
<1> QED BY <1>1, <1>6, <1>7, <1>8, <1>9, <1>10, <1>11 DEF ImageInv

LEMMA FirstMprotect ==
  ASSUME ImageInv, Mprotect, ~owned
  PROVE  ImageInv'
<1>1. LoaderInv' /\ LoaderInv /\ TypeOK /\ job \in Job
  BY MprotectInv DEF ImageInv, LoaderInv, TypeOK
<1>2. /\ pc = "mprotect" /\ pc' = "hook" /\ owned'
      /\ UNCHANGED <<job, failed, idx, scan, param, resv, held, mem, builder>>
  BY DEF Mprotect, Goto, owned
<1>3. held # "none" /\ held \in {"none", "held", "borrowed", "released", "bad_free"}
  BY <1>1, <1>2 DEF LoaderInv, Control, TypeOK
<1>4. held \in {"held", "borrowed"} /\ param.lo = resv.lo /\ param.len = resv.len
  BY <1>2, <1>3 DEF ImageInv, Ownership
<1>5. idx = 1 /\ job.backend # "mmap_fd"
  BY <1>2 DEF ImageInv, MappingOf
<1>6. PICK k \in Loads(job.file) : FirstFor(phdrs[k])
  BY <1>2 DEF ImageInv, MappingOf
<1>7. \A i \in Loads(job.file) : i \in Nat /\ i >= 1
  BY <1>1, SegmentFacts
<1>8. Ownership'
  BY <1>2, <1>4 DEF ImageInv, Ownership
<1>9. ScanFrom' /\ MappingOf'
  BY <1>2 DEF ScanFrom, MappingOf
<1>10. BytesInPlace'
  BY <1>2, <1>5, <1>7 DEF ImageInv, BytesInPlace, Passed, Current, Lowest, Placed, phdrs
<1>11. BssInPlace'
  BY <1>2, <1>5, <1>7 DEF BssInPlace
<1>12. ProtInPlace'
  <2> SUFFICES ASSUME Linked(job.file), job.backend # "no_mmap", NEW i \in Loads(job.file),
                      Lowest(phdrs[i])
               PROVE  HasProt(prot', phdrs[i])
    BY <1>2, <1>5, <1>7 DEF ProtInPlace, Passed, Current, Lowest, phdrs
  <2>1. i = k
    BY <1>1, <1>4, <1>6, OnlyLowest DEF Lowest
  <2>2. /\ resv.lo <= PageDown(phdrs[i].p_vaddr)
        /\ PageUp(phdrs[i].p_vaddr + phdrs[i].p_memsz) <= resv.lo + resv.len
    BY <1>1, <1>3 DEF LoaderInv, SegmentsCovered, Covers, phdrs
  <2>3. /\ PageDown(phdrs[i].p_vaddr) \in Nat
        /\ PageUp(phdrs[i].p_vaddr + phdrs[i].p_memsz) \in Nat
        /\ resv.lo \in Nat /\ resv.len \in Nat
    BY <1>1, SegmentFacts DEF TypeOK
  <2>4. \A a \in Addr : InPages(a, phdrs[i]) => Within(a, param.lo, param.len)
    BY <1>4, <2>2, <2>3, BoundsAssumption DEF InPages, Within, Addr
  <2> QED BY <1>6, <2>1, <2>4 DEF HasProt, Mprotect, FirstFor
<1>13. FileBacked'
  BY <1>2, <1>5 DEF ImageInv, FileBacked
<1>14. BuilderParsed'
  <2>1. \A i \in DOMAIN phdrs : i \in Nat /\ i >= 1
    BY <1>1, SomeLoad
  <2> QED BY <1>2, <1>5, <2>1 DEF ImageInv, BuilderParsed, phdrs
<1>15. NoFault'
  BY <1>2 DEF NoFault
<1> QED BY <1>1, <1>8, <1>9, <1>10, <1>11, <1>12, <1>13, <1>14, <1>15 DEF ImageInv

-----------------------------------------------------------------------------
(***************************************************************************)
(* The later mappings: a step for segment idx that changes nothing outside *)
(* its pages.  What is left to show is what becomes of segment idx.        *)
(***************************************************************************)
LEMMA SegmentStep ==
  ASSUME ImageInv, LoaderInv', owned, owned', idx \in Loads(job.file), ~Lowest(ph),
         pc \in {"mmap", "read", "mprotect", "bss", "bss_anon"},
         UNCHANGED <<job, resv, held, builder>>,
         pc' \in {"read", "mprotect", "bss", "bss_anon", "hook"},
         pc' = "hook" => idx' = idx + 1,
         pc' # "hook" => idx' = idx /\ param' = param /\ param = load_segment(ph),
         pc' \in {"read", "mprotect"} => job.backend # "mmap_fd",
         \A a \in Addr : ~InPages(a, ph) => mem'[a] = mem[a] /\ prot'[a] = prot[a],
         job.backend # "mmap_fd" => \A a \in Addr : mem'[a] # Unbacked,
         Linked(job.file) =>
           /\ pc' # "read" => HasBytes(mem', ph)
           /\ pc' = "hook" => HasBss(mem', ph)
           /\ pc' = "bss" => \A a \in BssHole : mem'[a] # Unbacked
           /\ pc' = "bss_anon" => \A a \in BssHole : mem'[a] = Zero
           /\ pc' \notin {"read", "mprotect"} /\ job.backend # "no_mmap" => HasProt(prot', ph)
  PROVE  ImageInv'
<1>1. /\ job \in Job /\ idx \in Nat \ {0} /\ phdrs' = phdrs
      /\ \A i \in Loads(job.file) : i \in Nat
      /\ \A i \in DOMAIN phdrs : i \in Nat
  <2>1. job \in Job /\ idx \in Nat \ {0}
    BY DEF ImageInv, LoaderInv, TypeOK
  <2>2. phdrs' = phdrs
    BY DEF phdrs
  <2>3. phdrs \in Seq(Phdr) /\ Loads(job.file) \subseteq DOMAIN phdrs
    BY <2>1, SomeLoad
  <2>4. DOMAIN phdrs \subseteq Nat
    BY <2>3
  <2> QED BY <2>1, <2>2, <2>3, <2>4
<1>2. Ownership'
  <2>1. held \notin {"released", "bad_free"}
    BY DEF ImageInv, Ownership
  <2>2. held = "borrowed" => job.backend = "no_mmap" /\ ~job.file.dylib
    BY DEF ImageInv, Ownership
  <2> QED BY <2>1, <2>2 DEF Ownership
<1>3. ScanFrom'
  BY DEF ScanFrom
<1>4. MappingOf'
  BY <1>1 DEF MappingOf, ph, Lowest
<1>5. ASSUME Linked(job.file), NEW i \in Loads(job.file), i # idx
      PROVE  /\ Passed(i) /\ Placed(phdrs[i]) => HasBytes(mem', phdrs[i])
             /\ i < idx /\ ~Lowest(phdrs[i]) => HasBss(mem', phdrs[i])
             /\ Passed(i) /\ job.backend # "no_mmap" => HasProt(prot', phdrs[i])
  <2>1. \A a \in Addr : InPages(a, phdrs[i]) => mem'[a] = mem[a] /\ prot'[a] = prot[a]
    BY <1>1, <1>5, Apart DEF ph
  <2>2. /\ HasBytes(mem, phdrs[i]) => HasBytes(mem', phdrs[i])
        /\ HasBss(mem, phdrs[i]) => HasBss(mem', phdrs[i])
    BY <1>1, <2>1, StaysInPlace
  <2>3. HasProt(prot, phdrs[i]) => HasProt(prot', phdrs[i])
    BY <1>1, <2>1, StaysInPlace
  <2> QED BY <1>5, <2>2, <2>3 DEF ImageInv, BytesInPlace, BssInPlace, ProtInPlace
<1>6. /\ \A i \in Loads(job.file) : Lowest(phdrs[i])' <=> Lowest(phdrs[i])
      /\ \A i \in Loads(job.file) : Placed(phdrs[i])' <=> Placed(phdrs[i])
      /\ \A i \in Loads(job.file) : i # idx => (Passed(i)' <=> Passed(i))
      /\ Passed(idx)' => pc' = "hook"
      /\ \A i \in Loads(job.file) : i # idx => ~(i = idx' /\ pc' # "hook")
  <2>1. \A i \in Loads(job.file) : Lowest(phdrs[i])' <=> Lowest(phdrs[i])
    BY <1>1 DEF Lowest
  <2>2. \A i \in Loads(job.file) : Placed(phdrs[i])' <=> Placed(phdrs[i])
    BY <1>1 DEF Lowest, Placed
  <2>3. \A i \in Loads(job.file) : Passed(i)' <=> Lowest(phdrs[i]) \/ i < idx'
    BY <2>1 DEF Passed
  <2>4. \A i \in Loads(job.file) : i # idx => (i < idx' <=> i < idx)
    BY <1>1
  <2>5. Passed(idx)' => pc' = "hook"
    BY <1>1, <2>3 DEF ph
  <2> QED BY <2>1, <2>2, <2>3, <2>4, <2>5 DEF Passed
<1>7. BytesInPlace'
  <2> SUFFICES ASSUME Linked(job.file), NEW i \in Loads(job.file), Placed(phdrs[i]),
                      (Passed(i) \/ Current(i, {"mprotect", "bss", "bss_anon"}))'
               PROVE  HasBytes(mem', phdrs[i])
    BY <1>1, <1>6 DEF BytesInPlace
  <2>1. CASE i = idx
    <3>1. pc' # "read"
      BY <1>6, <2>1 DEF Current
    <3> QED BY <2>1, <3>1 DEF ph
  <2>2. CASE i # idx
    <3>1. Passed(i)
      BY <1>6, <2>2 DEF Current
    <3> QED BY <1>5, <2>2, <3>1
  <2> QED BY <2>1, <2>2
<1>8. BssInPlace'
  <2> SUFFICES ASSUME Linked(job.file)
               PROVE  /\ \A i \in Loads(job.file) : i < idx' /\ ~Lowest(phdrs[i]) =>
                           HasBss(mem', phdrs[i])
                      /\ pc' = "bss" => \A a \in BssHole' : mem'[a] # Unbacked
                      /\ pc' = "bss_anon" => \A a \in BssHole' : mem'[a] = Zero
    BY <1>1, <1>6 DEF BssInPlace
  <2>1. pc' # "hook" => BssHole' = BssHole
    BY <1>1 DEF BssHole, ph
  <2>2. ASSUME NEW i \in Loads(job.file), i < idx', ~Lowest(phdrs[i])
        PROVE  HasBss(mem', phdrs[i])
    <3>1. CASE i = idx
      <4>1. pc' = "hook"
        BY <1>1, <2>2, <3>1
      <4> QED BY <3>1, <4>1 DEF ph
    <3>2. CASE i # idx
      <4>1. i < idx
        BY <1>1, <2>2, <3>2
      <4> QED BY <1>5, <2>2, <3>2, <4>1
    <3> QED BY <3>1, <3>2
  <2> QED BY <2>1, <2>2
<1>9. ProtInPlace'
  <2> SUFFICES ASSUME Linked(job.file), job.backend # "no_mmap", NEW i \in Loads(job.file),
                      (Passed(i) \/ Current(i, {"bss", "bss_anon"}))'
               PROVE  HasProt(prot', phdrs[i])
    BY <1>1 DEF ProtInPlace
  <2>1. CASE i = idx
    <3>1. pc' \notin {"read", "mprotect"}
      BY <1>6, <2>1 DEF Current
    <3> QED BY <2>1, <3>1 DEF ph
  <2>2. CASE i # idx
    <3>1. Passed(i)
      BY <1>6, <2>2 DEF Current
    <3> QED BY <1>5, <2>2, <3>1
  <2> QED BY <2>1, <2>2
<1>10. FileBacked'
  BY <1>1, <1>6 DEF ImageInv, FileBacked
<1>11. BuilderParsed'
  <2>1. \A i \in DOMAIN phdrs : ReadyAt(i)' <=> ReadyAt(i)
    BY <1>1, <1>6 DEF ReadyAt, MappedAt
  <2>2. \A i \in DOMAIN phdrs : i < idx' => i < idx \/ phdrs[i].p_type = "PT_LOAD"
    <3>1. phdrs[idx].p_type = "PT_LOAD"
      BY DEF Loads, phdrs
    <3> QED BY <1>1, <3>1
  <2> QED BY <1>1, <2>1, <2>2 DEF ImageInv, BuilderParsed
<1>12. NoFault'
  BY DEF NoFault
<1> QED BY <1>2, <1>3, <1>4, <1>7, <1>8, <1>9, <1>10, <1>11, <1>12 DEF ImageInv

(* The mapping under way is the one load_segment computed for segment idx. *)
LEMMA Underway ==
  ASSUME ImageInv, owned, pc \in {"mmap", "read", "mprotect", "bss", "bss_anon"}
  PROVE  /\ idx \in Loads(job.file) /\ ~Lowest(ph) /\ param = load_segment(ph) /\ held # "none"
         /\ job \in Job /\ param \in MapParam
         /\ \A a \in Addr : Within(a, param.lo, param.len) <=> InPages(a, ph)
<1>1. /\ idx \in Loads(job.file) /\ held # "none" /\ job \in Job /\ param \in MapParam
  BY DEF ImageInv, LoaderInv, Control, TypeOK
<1>2. param = load_segment(ph) /\ ~Lowest(ph)
  BY DEF ImageInv, MappingOf
<1>3. /\ param.lo = PageDown(ph.p_vaddr)
      /\ param.lo + param.len = PageUp(ph.p_vaddr + ph.p_memsz)
  BY <1>1, <1>2, SegmentFacts DEF ph
<1> QED BY <1>1, <1>2, <1>3 DEF Within, InPages

(* The hole fill_bss zeroes lies in the segment's pages, behind its bytes. *)
LEMMA HoleInside ==
  ASSUME ImageInv, owned, idx \in Loads(job.file)
  PROVE  /\ BssHole \subseteq Addr
         /\ \A a \in BssHole : InPages(a, ph) /\ ph.p_vaddr + ph.p_filesz <= a
         /\ \A a \in BssHole : a < PageUp(ph.p_vaddr + ph.p_filesz)
         /\ PageUp(ph.p_vaddr + ph.p_filesz) \in Nat
         /\ ph.p_vaddr + ph.p_filesz <= PageUp(ph.p_vaddr + ph.p_filesz)
         /\ PageUp(ph.p_vaddr + ph.p_filesz) <= PageUp(ph.p_vaddr + ph.p_memsz)
<1>1. /\ ph.p_vaddr \in Nat /\ ph.p_memsz \in Nat /\ ph.p_filesz \in Nat
      /\ ph.p_filesz <= ph.p_memsz
      /\ PageDown(ph.p_vaddr) \in Nat /\ PageDown(ph.p_vaddr) <= ph.p_vaddr
      /\ PageUp(ph.p_vaddr + ph.p_memsz) \in Nat
      /\ PageUp(ph.p_vaddr + ph.p_memsz) <= AddrMax + 1
  BY SegmentFacts DEF ImageInv, LoaderInv, TypeOK, ph
<1> DEFINE zs == ph.p_vaddr + ph.p_filesz
           e  == ph.p_vaddr + ph.p_memsz
<1>2. zs \in Nat /\ e \in Nat /\ zs <= e
  BY <1>1
<1>3. PageUp(zs) \in Nat /\ zs <= PageUp(zs) /\ PageUp(zs) <= PageUp(e)
  BY <1>2, PageUpBound, PageUpMonotone
<1>4. BssHole = zs .. (PageUp(zs) - 1)
  BY DEF BssHole, fill_bss_range
<1> QED BY <1>1, <1>2, <1>3, <1>4, BoundsAssumption DEF Addr, InPages

(* What a linked file has at the bytes and at the .bss hole of a segment. *)
LEMMA FileCellOfSegment ==
  ASSUME job \in Job, Linked(job.file), NEW i \in Loads(job.file), NEW a \in Nat,
         phdrs[i].p_vaddr <= a
  PROVE  /\ a < phdrs[i].p_vaddr + phdrs[i].p_filesz =>
              FileCell(job.file, phdrs[i].p_offset + (a - phdrs[i].p_vaddr))
                = phdrs[i].p_offset + (a - phdrs[i].p_vaddr)
         /\ a < PageUp(phdrs[i].p_vaddr + phdrs[i].p_filesz) =>
              FileCell(job.file, phdrs[i].p_offset + (a - phdrs[i].p_vaddr)) # Unbacked
<1> DEFINE p == phdrs[i]
           x == p.p_offset + (a - p.p_vaddr)
           v == p.p_vaddr + p.p_filesz
           w == p.p_offset + p.p_filesz
<1>1. /\ p.p_vaddr \in Nat /\ p.p_filesz \in Nat /\ p.p_offset \in Nat
      /\ p.p_offset % PageSize = p.p_vaddr % PageSize
  BY SegmentFacts DEF PhdrSane
<1>2. job.file.size \in Nat /\ w <= job.file.size
  BY FilesAssumption DEF Linked, Job, File, phdrs
<1>3. v \in Nat /\ w \in Nat /\ x \in Nat
  BY <1>1
<1>4. a < v => x < job.file.size
  BY <1>1, <1>2
<1>5. PageUp(v) - v = PageUp(w) - w
  <2>1. w % PageSize = v % PageSize
    BY <1>1, ModShift
  <2> QED BY <1>3, <2>1, PageUpShift
<1>6. PageUp(v) \in Nat /\ PageUp(w) \in Nat /\ PageUp(w) <= PageUp(job.file.size)
      /\ PageUp(job.file.size) \in Nat
  BY <1>2, <1>3, PageUpBound, PageUpMonotone
<1>7. a < PageUp(v) => x < PageUp(job.file.size)
  BY <1>1, <1>3, <1>5, <1>6
<1> QED BY <1>3, <1>4, <1>7 DEF FileCell, Zero, Unbacked

LEMMA LaterMmapFd ==
  ASSUME ImageInv, MmapFd, owned
  PROVE  ImageInv'
<1>1. LoaderInv' /\ job \in Job
  BY MmapFdInv DEF ImageInv, LoaderInv, TypeOK
<1>2. /\ pc = "mmap" /\ pc' = "bss" /\ job.backend = "mmap_fd" /\ Mapped("held") /\ owned'
      /\ UNCHANGED <<job, idx, param, builder>>
  BY DEF MmapFd, Goto, owned
<1>3. /\ idx \in Loads(job.file) /\ ~Lowest(ph) /\ param = load_segment(ph) /\ held # "none"
      /\ \A a \in Addr : Within(a, param.lo, param.len) <=> InPages(a, ph)
  BY <1>2, Underway
<1>4. UNCHANGED <<resv, held>>
  BY <1>2, <1>3 DEF Mapped, First
<1>5. \A a \in Addr : ~InPages(a, ph) => mem'[a] = mem[a] /\ prot'[a] = prot[a]
  BY <1>3 DEF MmapFd
<1>6. /\ ph.p_vaddr \in Nat /\ ph.p_memsz \in Nat /\ ph.p_filesz \in Nat /\ ph.p_offset \in Nat
      /\ ph.p_filesz <= ph.p_memsz /\ param \in MapParam
      /\ param.off - param.lo = ph.p_offset - ph.p_vaddr /\ param.prot = map_prot(ph.p_flags)
  BY <1>1, <1>3, SegmentFacts DEF ph
<1>7. \A a \in Addr : InPages(a, ph) =>
        /\ mem'[a] = FileCell(job.file, ph.p_offset + (a - ph.p_vaddr))
        /\ prot'[a] = map_prot(ph.p_flags)
  <2> SUFFICES ASSUME NEW a \in Addr, InPages(a, ph)
               PROVE  /\ mem'[a] = FileCell(job.file, ph.p_offset + (a - ph.p_vaddr))
                      /\ prot'[a] = map_prot(ph.p_flags)
    OBVIOUS
  <2>1. param.off + (a - param.lo) = ph.p_offset + (a - ph.p_vaddr)
    BY <1>6, BoundsAssumption DEF MapParam, Addr
  <2> QED BY <1>3, <1>6, <2>1 DEF MmapFd
<1>8. ASSUME Linked(job.file)
      PROVE  /\ HasBytes(mem', ph) /\ HasProt(prot', ph)
             /\ \A a \in BssHole : mem'[a] # Unbacked
  <2>1. HasProt(prot', ph)
    BY <1>7 DEF HasProt
  <2>2. ASSUME NEW a \in Addr, Within(a, ph.p_vaddr, ph.p_filesz)
        PROVE  mem'[a] = ph.p_offset + (a - ph.p_vaddr)
    <3>1. a \in Nat /\ ph.p_vaddr <= a /\ a < ph.p_vaddr + ph.p_filesz
      BY <2>2, BoundsAssumption DEF Within, Addr
    <3>2. InPages(a, ph)
      BY <1>1, <1>3, <1>6, <3>1, InsidePages DEF ph
    <3> QED BY <1>1, <1>3, <1>7, <1>8, <3>1, <3>2, FileCellOfSegment DEF ph
  <2>3. ASSUME NEW a \in BssHole
        PROVE  mem'[a] # Unbacked
    <3>1. /\ a \in Addr /\ InPages(a, ph) /\ ph.p_vaddr + ph.p_filesz <= a
          /\ a < PageUp(ph.p_vaddr + ph.p_filesz)
      BY <1>3, HoleInside
    <3>2. a \in Nat /\ ph.p_vaddr <= a
      BY <1>6, <3>1, BoundsAssumption DEF Addr
    <3> QED BY <1>1, <1>3, <1>7, <1>8, <3>1, <3>2, FileCellOfSegment DEF ph
  <2> QED BY <2>1, <2>2, <2>3 DEF HasBytes
<1> QED BY <1>1, <1>2, <1>3, <1>4, <1>5, <1>8, SegmentStep

LEMMA LaterReserve ==
  ASSUME ImageInv, MmapAnonymous \/ MmapAlloc, owned
  PROVE  ImageInv'
<1>1. LoaderInv' /\ job \in Job /\ mem \in [Addr -> Cell]
  BY MmapAnonymousInv, MmapAllocInv DEF ImageInv, LoaderInv, TypeOK
<1>2. /\ pc = "mmap" /\ pc' = "read" /\ job.backend # "mmap_fd" /\ owned'
      /\ UNCHANGED <<job, idx, param, builder>>
  BY DEF MmapAnonymous, MmapAlloc, Goto, owned
<1>3. /\ idx \in Loads(job.file) /\ ~Lowest(ph) /\ param = load_segment(ph) /\ held # "none"
      /\ \A a \in Addr : Within(a, param.lo, param.len) <=> InPages(a, ph)
  BY <1>2, Underway
<1>4. UNCHANGED <<resv, held>>
  BY <1>3 DEF MmapAnonymous, MmapAlloc, Mapped, First
<1>5. /\ \A a \in Addr : ~InPages(a, ph) => mem'[a] = mem[a] /\ prot'[a] = prot[a]
      /\ \A a \in Addr : mem'[a] \in {mem[a], Zero}
  <2>1. CASE MmapAnonymous
    BY <1>3, <2>1 DEF MmapAnonymous
  <2>2. CASE MmapAlloc
    BY <1>3, <2>2 DEF MmapAlloc, First
  <2> QED BY <2>1, <2>2
<1>6. \A a \in Addr : mem'[a] # Unbacked
  BY <1>2, <1>5 DEF ImageInv, FileBacked, Zero, Unbacked
<1> QED BY <1>1, <1>2, <1>3, <1>4, <1>5, <1>6, SegmentStep

LEMMA LaterRead ==
  ASSUME ImageInv, ReadSegment, owned
  PROVE  ImageInv'
<1>1. LoaderInv' /\ job \in Job
  BY ReadSegmentInv DEF ImageInv, LoaderInv, TypeOK
<1>2. /\ pc = "read" /\ pc' = "mprotect" /\ owned'
      /\ UNCHANGED <<job, idx, param, resv, held, prot, builder>>
  BY DEF ReadSegment, Goto, owned
<1>3. /\ idx \in Loads(job.file) /\ ~Lowest(ph) /\ param = load_segment(ph)
      /\ \A a \in Addr : Within(a, param.lo, param.len) <=> InPages(a, ph)
  BY <1>2, Underway
<1>4. job.backend # "mmap_fd"
  BY <1>2 DEF ImageInv, MappingOf
<1>5. /\ ph.p_vaddr \in Nat /\ ph.p_memsz \in Nat /\ ph.p_filesz \in Nat /\ ph.p_offset \in Nat
      /\ param.lo \in Nat /\ param.len \in Nat /\ param.off \in Nat /\ param.count \in Nat
      /\ param.off - param.lo = ph.p_offset - ph.p_vaddr
      /\ param.count = ph.p_filesz + (ph.p_vaddr - param.lo)
      /\ param.lo <= ph.p_vaddr /\ param.count <= param.len
  <2>1. param.count <= param.len
    BY <1>2 DEF ImageInv, LoaderInv, ParamFits
  <2> QED BY <1>1, <1>3, <2>1, SegmentFacts DEF ph, MapParam
<1>6. \A a \in Addr : ~InPages(a, ph) => mem'[a] = mem[a] /\ prot'[a] = prot[a]
  <2>1. \A a \in Addr : Within(a, param.lo, param.count) => InPages(a, ph)
    BY <1>3, <1>5, BoundsAssumption DEF Within, Addr
  <2> QED BY <1>2, <2>1 DEF ReadSegment
<1>7. \A a \in Addr : mem'[a] # Unbacked
  <2>2. param.lo \in Nat /\ param.off \in Nat /\ param.count \in Nat
    BY <1>5
  <2>1. \A a \in Addr : mem'[a] = mem[a] \/ mem'[a] \in Nat
    BY <2>2, BoundsAssumption DEF ReadSegment, Within, Addr
  <2> QED BY <1>4, <2>1 DEF ImageInv, FileBacked, Unbacked
<1>8. HasBytes(mem', ph)
  <2> SUFFICES ASSUME NEW a \in Addr, Within(a, ph.p_vaddr, ph.p_filesz)
               PROVE  mem'[a] = ph.p_offset + (a - ph.p_vaddr)
    BY DEF HasBytes
  <2>1. a \in Nat /\ ph.p_vaddr <= a /\ a < ph.p_vaddr + ph.p_filesz
    BY BoundsAssumption DEF Within, Addr
  <2>2. /\ Within(a, param.lo, param.count)
        /\ param.off + (a - param.lo) = ph.p_offset + (a - ph.p_vaddr)
    BY <1>5, <2>1 DEF Within
  <2> QED BY <2>2 DEF ReadSegment
<1> QED BY <1>1, <1>2, <1>3, <1>4, <1>6, <1>7, <1>8, SegmentStep

LEMMA LaterMprotect ==
  ASSUME ImageInv, Mprotect, owned
  PROVE  ImageInv'
<1>1. LoaderInv' /\ job \in Job
  BY MprotectInv DEF ImageInv, LoaderInv, TypeOK
<1>2. /\ pc = "mprotect" /\ pc' = "bss" /\ owned'
      /\ UNCHANGED <<job, idx, param, resv, held, mem, builder>>
  BY DEF Mprotect, Goto, owned
<1>3. /\ idx \in Loads(job.file) /\ ~Lowest(ph) /\ param = load_segment(ph)
      /\ \A a \in Addr : Within(a, param.lo, param.len) <=> InPages(a, ph)
  BY <1>2, Underway
<1>4. job.backend # "mmap_fd"
  BY <1>2 DEF ImageInv, MappingOf
<1>5. \A a \in Addr : mem[a] # Unbacked
  BY <1>4 DEF ImageInv, FileBacked
<1>6. \A a \in Addr : ~InPages(a, ph) => mem'[a] = mem[a] /\ prot'[a] = prot[a]
  BY <1>2, <1>3 DEF Mprotect
<1>7. job.backend # "no_mmap" => HasProt(prot', ph)
  <2>1. param.prot = map_prot(ph.p_flags)
    BY <1>1, <1>3, SegmentFacts DEF ph
  <2> QED BY <1>3, <2>1 DEF Mprotect, HasProt
<1>8. Linked(job.file) => HasBytes(mem', ph)
  BY <1>2, <1>3 DEF ImageInv, BytesInPlace, Current, Placed, ph
<1>9. \A a \in BssHole : mem'[a] # Unbacked
  BY <1>2, <1>3, <1>5, HoleInside
<1> QED BY <1>1, <1>2, <1>3, <1>4, <1>5, <1>6, <1>7, <1>8, <1>9, SegmentStep

-----------------------------------------------------------------------------
(* Both halves of fill_bss. *)

LEMMA FillBssImage ==
  ASSUME ImageInv, FillBss
  PROVE  ImageInv'
<1>1. LoaderInv' /\ job \in Job /\ mem \in [Addr -> Cell]
  BY FillBssInv DEF ImageInv, LoaderInv, TypeOK
<1>2. /\ pc = "bss" /\ owned
      /\ UNCHANGED <<job, param, resv, held, owner, prot, builder>>
  BY DEF FillBss, Goto, NextPhdr, ImageInv, LoaderInv, Control
<1>3. idx \in Loads(job.file) /\ ~Lowest(ph) /\ param = load_segment(ph) /\ owned'
  BY <1>2, Underway DEF owned
<1>4. /\ ph.p_vaddr \in Nat /\ ph.p_memsz \in Nat /\ ph.p_filesz \in Nat
      /\ ph.p_filesz <= ph.p_memsz
      /\ ph.p_vaddr + ph.p_memsz <= PageUp(ph.p_vaddr + ph.p_memsz)
      /\ PageUp(ph.p_vaddr + ph.p_memsz) \in Nat
  BY <1>1, <1>3, SegmentFacts DEF ph
<1>5. /\ BssHole \subseteq Addr
      /\ \A a \in BssHole : InPages(a, ph) /\ ph.p_vaddr + ph.p_filesz <= a
      /\ PageUp(ph.p_vaddr + ph.p_filesz) \in Nat
  BY <1>2, <1>3, HoleInside
<1>6. /\ Linked(job.file) => HasBytes(mem, ph)
      /\ Linked(job.file) /\ job.backend # "no_mmap" => HasProt(prot, ph)
  BY <1>2, <1>3 DEF ImageInv, BytesInPlace, ProtInPlace, Current, Placed, ph
<1>7. CASE ph.p_filesz = ph.p_memsz
  <2>1. pc' = "hook" /\ idx' = idx + 1 /\ mem' = mem
    BY <1>7 DEF FillBss, NextPhdr, Goto
  <2>2. HasBss(mem', ph)
    BY <1>4, <1>7, BoundsAssumption DEF HasBss, Addr
  <2>3. job.backend # "mmap_fd" => \A a \in Addr : mem'[a] # Unbacked
    BY <2>1 DEF ImageInv, FileBacked
  <2> QED BY <1>1, <1>2, <1>3, <1>6, <2>1, <2>2, <2>3, SegmentStep
<1>8. CASE ph.p_filesz # ph.p_memsz
  <2>1. /\ mem' = [a \in Addr |-> IF a \in BssHole THEN Zero ELSE mem[a]]
        /\ IF PageUp(ph.p_vaddr + ph.p_filesz) < PageUp(ph.p_vaddr + ph.p_memsz)
           THEN pc' = "bss_anon" /\ idx' = idx
           ELSE pc' = "hook" /\ idx' = idx + 1
    BY <1>8 DEF FillBss, NextPhdr, Goto, fill_bss_range
  <2>2. \A a \in Addr : ~InPages(a, ph) => mem'[a] = mem[a] /\ prot'[a] = prot[a]
    BY <1>2, <1>5, <2>1
  <2>3. job.backend # "mmap_fd" => \A a \in Addr : mem'[a] # Unbacked
    BY <2>1 DEF ImageInv, FileBacked, Zero, Unbacked
  <2>4. \A a \in BssHole : mem'[a] = Zero
    BY <1>5, <2>1
  <2>5. HasBytes(mem, ph) => HasBytes(mem', ph)
    <3> SUFFICES ASSUME HasBytes(mem, ph), NEW a \in Addr, Within(a, ph.p_vaddr, ph.p_filesz)
                 PROVE  mem'[a] = ph.p_offset + (a - ph.p_vaddr)
      BY DEF HasBytes
    <3>1. a \notin BssHole
      BY <1>4, <1>5, BoundsAssumption DEF Within, Addr
    <3> QED BY <2>1, <3>1 DEF HasBytes
  <2>6. pc' = "hook" => HasBss(mem', ph)
    <3> SUFFICES ASSUME pc' = "hook", NEW a \in Addr,
                        ph.p_vaddr + ph.p_filesz <= a, a < ph.p_vaddr + ph.p_memsz
                 PROVE  mem'[a] = Zero
      BY DEF HasBss
    <3>1. ~(PageUp(ph.p_vaddr + ph.p_filesz) < PageUp(ph.p_vaddr + ph.p_memsz))
      BY <2>1
    <3>2. a < PageUp(ph.p_vaddr + ph.p_filesz)
      BY <1>4, <1>5, <3>1, BoundsAssumption DEF Addr
    <3>3. a \in BssHole
      BY <1>4, <1>5, <3>2, BoundsAssumption DEF BssHole, fill_bss_range, Addr
    <3> QED BY <2>4, <3>3
  <2>7. pc' \in {"bss_anon", "hook"} /\ (pc' = "hook" => idx' = idx + 1)
        /\ (pc' # "hook" => idx' = idx)
    BY <2>1
  <2>8. Linked(job.file) /\ job.backend # "no_mmap" => HasProt(prot', ph)
    BY <1>2, <1>6
  <2>9. Linked(job.file) => HasBytes(mem', ph)
    BY <1>6, <2>5
  <2> QED BY <1>1, <1>2, <1>3, <2>2, <2>3, <2>4, <2>6, <2>7, <2>8, <2>9, SegmentStep
<1> QED BY <1>7, <1>8

LEMMA MmapBssImage ==
  ASSUME ImageInv, MmapBss
  PROVE  ImageInv'
<1>1. LoaderInv' /\ job \in Job /\ mem \in [Addr -> Cell]
  BY MmapBssInv DEF ImageInv, LoaderInv, TypeOK
<1>2. /\ pc = "bss_anon" /\ pc' = "hook" /\ idx' = idx + 1 /\ owned
      /\ UNCHANGED <<job, param, resv, held, owner, builder>>
  BY DEF MmapBss, Goto, NextPhdr, ImageInv, LoaderInv, Control
<1>3. idx \in Loads(job.file) /\ ~Lowest(ph) /\ owned'
  BY <1>2, Underway DEF owned
<1>4. /\ ph.p_vaddr \in Nat /\ ph.p_memsz \in Nat /\ ph.p_filesz \in Nat
      /\ ph.p_filesz <= ph.p_memsz
      /\ PageDown(ph.p_vaddr) \in Nat /\ PageDown(ph.p_vaddr) <= ph.p_vaddr
      /\ ph.p_vaddr + ph.p_memsz <= PageUp(ph.p_vaddr + ph.p_memsz)
      /\ PageUp(ph.p_vaddr + ph.p_memsz) \in Nat
  BY <1>1, <1>3, SegmentFacts DEF ph
<1> DEFINE zs == PageUp(ph.p_vaddr + ph.p_filesz)
           e  == PageUp(ph.p_vaddr + ph.p_memsz)
           BssPage(a) == zs <= a /\ a < e
<1>5. /\ zs \in Nat /\ ph.p_vaddr + ph.p_filesz <= zs /\ zs <= e
  BY <1>2, <1>3, HoleInside
<1>6. /\ Linked(job.file) => HasBytes(mem, ph)
      /\ Linked(job.file) /\ job.backend # "no_mmap" => HasProt(prot, ph)
      /\ Linked(job.file) => \A a \in BssHole : mem[a] = Zero
  BY <1>2, <1>3 DEF ImageInv, BytesInPlace, ProtInPlace, BssInPlace, Current, Placed, ph
<1>7. /\ mem' = [a \in Addr |-> IF BssPage(a) THEN Zero ELSE mem[a]]
      /\ prot' = IF job.backend = "no_mmap" THEN prot
                 ELSE [a \in Addr |-> IF BssPage(a) THEN map_prot(ph.p_flags) ELSE prot[a]]
  BY DEF MmapBss, fill_bss_range
<1> HIDE DEF zs, e
<1>8. \A a \in Addr : BssPage(a) => InPages(a, ph)
  BY <1>4, <1>5, BoundsAssumption DEF InPages, Addr, e
<1>9. \A a \in Addr : ~InPages(a, ph) => mem'[a] = mem[a] /\ prot'[a] = prot[a]
  BY <1>7, <1>8
<1>10. job.backend # "mmap_fd" => \A a \in Addr : mem'[a] # Unbacked
  BY <1>7 DEF ImageInv, FileBacked, Zero, Unbacked
<1>11. Linked(job.file) => HasBytes(mem', ph)
  <2> SUFFICES ASSUME Linked(job.file), NEW a \in Addr, Within(a, ph.p_vaddr, ph.p_filesz)
               PROVE  mem'[a] = ph.p_offset + (a - ph.p_vaddr)
    BY DEF HasBytes
  <2>1. ~BssPage(a)
    BY <1>4, <1>5, BoundsAssumption DEF Within, Addr
  <2> QED BY <1>6, <1>7, <2>1 DEF HasBytes
<1>12. Linked(job.file) => HasBss(mem', ph)
  <2> SUFFICES ASSUME Linked(job.file), NEW a \in Addr,
                      ph.p_vaddr + ph.p_filesz <= a, a < ph.p_vaddr + ph.p_memsz
               PROVE  mem'[a] = Zero
    BY DEF HasBss
  <2>1. CASE BssPage(a)
    BY <1>7, <2>1
  <2>2. CASE ~BssPage(a)
    <3>1. a < zs
      BY <1>4, <1>5, <2>2, BoundsAssumption DEF Addr, e
    <3>2. a \in BssHole
      BY <1>4, <1>5, <3>1, BoundsAssumption DEF BssHole, fill_bss_range, Addr, zs
    <3> QED BY <1>6, <1>7, <2>2, <3>2
  <2> QED BY <2>1, <2>2
<1>13. Linked(job.file) /\ job.backend # "no_mmap" => HasProt(prot', ph)
  BY <1>6, <1>7 DEF HasProt
<1> QED BY <1>1, <1>2, <1>3, <1>9, <1>10, <1>11, <1>12, <1>13, SegmentStep

-----------------------------------------------------------------------------
(***************************************************************************)
(* The steps of the loop that touch no memory.  The loop passes a segment  *)
(* in one of them only if it is the lowest.                                *)
(***************************************************************************)
LEMMA QuietImage ==
  ASSUME ImageInv, LoaderInv', pc \in {"hook", "phdr"},
         pc' \in {"hook", "phdr", "mmap", "done"},
         UNCHANGED <<job, resv, held, owner, mem, prot>>,
         MappingOf', BuilderParsed',
         \/ idx' = idx
         \/ idx' = idx + 1 /\ (idx \in Loads(job.file) => Lowest(ph))
  PROVE  ImageInv'
<1>1. job \in Job /\ idx \in Nat \ {0} /\ owned /\ owned' /\ phdrs' = phdrs
  BY DEF ImageInv, LoaderInv, TypeOK, Control, owned, phdrs
<1>2. \A i \in Loads(job.file) : i \in Nat
  BY <1>1, SegmentFacts
<1>3. Ownership'
  <2>1. held \notin {"released", "bad_free"}
    BY DEF ImageInv, Ownership
  <2>2. held = "borrowed" => job.backend = "no_mmap" /\ ~job.file.dylib
    BY DEF ImageInv, Ownership
  <2> QED BY <1>1, <2>1, <2>2 DEF Ownership
<1>4. /\ \A i \in Loads(job.file) : Lowest(phdrs[i])' <=> Lowest(phdrs[i])
      /\ \A i \in Loads(job.file) : Placed(phdrs[i])' <=> Placed(phdrs[i])
  BY <1>1 DEF Lowest, Placed
<1>5. \A i \in Loads(job.file) : Lowest(phdrs[i]) \/ i < idx' => Lowest(phdrs[i]) \/ i < idx
  BY <1>1, <1>2 DEF ph
<1>6. \A i \in Loads(job.file) : Passed(i)' => Passed(i)
  BY <1>4, <1>5 DEF Passed
<1>7. BytesInPlace'
  BY <1>1, <1>4, <1>6 DEF ImageInv, BytesInPlace, Current
<1>8. BssInPlace'
  BY <1>1, <1>4, <1>5 DEF ImageInv, BssInPlace
<1>9. ProtInPlace'
  BY <1>1, <1>6 DEF ImageInv, ProtInPlace, Current
<1>10. FileBacked'
  BY <1>1, <1>4 DEF ImageInv, FileBacked
<1>11. ScanFrom' /\ NoFault'
  BY DEF ScanFrom, NoFault
<1> QED BY <1>3, <1>7, <1>8, <1>9, <1>10, <1>11 DEF ImageInv

(* ReadyAt speaks of the file and of the reservation only. *)
LEMMA ReadyStays ==
  ASSUME UNCHANGED <<job, resv>>, NEW i
  PROVE  ReadyAt(i)' <=> ReadyAt(i)
<1>1. phdrs' = phdrs
  BY DEF phdrs
<1>2. \A j : (Lowest(phdrs[j])' <=> Lowest(phdrs[j])) /\ (Placed(phdrs[j])' <=> Placed(phdrs[j]))
  BY <1>1 DEF Lowest, Placed
<1>3. \A j : MappedAt(j, i)' <=> MappedAt(j, i)
  BY <1>1, <1>2 DEF MappedAt
<1> QED BY <1>1, <1>2, <1>3 DEF ReadyAt

(***************************************************************************)
(* A header's target that is held by a mapped segment can be read, and is  *)
(* what the file has there.                                                *)
(***************************************************************************)
LEMMA TargetMapped ==
  ASSUME ImageInv, Linked(job.file), pc = "phdr", NEW j \in Loads(job.file), MappedAt(j, idx)
  PROVE  /\ Readable(ph.p_vaddr)
         /\ Placed(phdrs[j]) => mem[ph.p_vaddr] = ph.p_offset
<1>1. /\ job \in Job /\ idx \in DOMAIN phdrs /\ owned /\ held # "none"
      /\ resv.lo \in Nat /\ resv.len \in Nat
  BY DEF ImageInv, LoaderInv, TypeOK, Control
<1>2. /\ phdrs[j].p_vaddr \in Nat /\ phdrs[j].p_memsz \in Nat /\ phdrs[j].p_filesz \in Nat
      /\ phdrs[j].p_filesz <= phdrs[j].p_memsz /\ phdrs[j].p_offset \in Nat
      /\ PageDown(phdrs[j].p_vaddr) \in Nat /\ PageDown(phdrs[j].p_vaddr) <= phdrs[j].p_vaddr
      /\ PageUp(phdrs[j].p_vaddr + phdrs[j].p_memsz) \in Nat
      /\ phdrs[j].p_vaddr + phdrs[j].p_memsz <= PageUp(phdrs[j].p_vaddr + phdrs[j].p_memsz)
  BY <1>1, SegmentFacts
<1>3. ph.p_vaddr \in Nat /\ ph.p_vaddr \in Addr /\ ph.p_offset \in Nat
  BY <1>1, PhdrFacts DEF ph, Phdr, PhdrSane
<1>4. /\ phdrs[j].p_vaddr <= ph.p_vaddr /\ ph.p_vaddr < phdrs[j].p_vaddr + phdrs[j].p_filesz
      /\ ph.p_offset - phdrs[j].p_offset = ph.p_vaddr - phdrs[j].p_vaddr
      /\ Passed(j)
  BY DEF MappedAt, Holds, Passed, ph
<1>5. Within(ph.p_vaddr, resv.lo, resv.len)
  <2>1. /\ resv.lo <= PageDown(phdrs[j].p_vaddr)
        /\ PageUp(phdrs[j].p_vaddr + phdrs[j].p_memsz) <= resv.lo + resv.len
    BY <1>1 DEF ImageInv, LoaderInv, SegmentsCovered, Covers, phdrs
  <2> QED BY <1>1, <1>2, <1>3, <1>4, <2>1 DEF Within
<1>6. Placed(phdrs[j]) => mem[ph.p_vaddr] = ph.p_offset
  <2> SUFFICES ASSUME Placed(phdrs[j]) PROVE mem[ph.p_vaddr] = ph.p_offset
    OBVIOUS
  <2>1. HasBytes(mem, phdrs[j])
    BY <1>1, <1>4 DEF ImageInv, BytesInPlace
  <2>2. mem[ph.p_vaddr] = phdrs[j].p_offset + (ph.p_vaddr - phdrs[j].p_vaddr)
    BY <1>3, <1>4, <2>1 DEF HasBytes, Within
  <2> QED BY <1>2, <1>3, <1>4, <2>2
<1>7. mem[ph.p_vaddr] # Unbacked
  <2>1. CASE job.backend = "mmap_fd"
    <3>1. Placed(phdrs[j])
      BY <1>1, <2>1 DEF ImageInv, FileBacked
    <3> QED BY <1>3, <1>6, <3>1 DEF Unbacked
  <2>2. CASE job.backend # "mmap_fd"
    BY <1>3, <2>2 DEF ImageInv, FileBacked
  <2> QED BY <2>1, <2>2
<1> QED BY <1>5, <1>6, <1>7 DEF Readable

LEMMA ParseImage ==
  ASSUME ImageInv, ParseDynamic \/ ParseInterp
  PROVE  ImageInv'
<1>1. LoaderInv'
  BY ParseInv DEF ImageInv
<1>2. /\ pc = "phdr" /\ pc' = "hook" /\ idx' = idx + 1 /\ ph.p_type \in {"PT_DYNAMIC", "PT_INTERP"}
      /\ UNCHANGED <<job, failed, scan, param, resv, held, owner, mem, prot>>
  BY DEF ParseDynamic, ParseInterp, NextPhdr, Goto
<1>3. job \in Job /\ idx \in DOMAIN phdrs /\ idx \in Nat /\ phdrs' = phdrs /\ owned
      /\ builder \in [dynamic : Cell \cup {NoCell}, interp : Cell \cup {NoCell},
                      relro : Nat, phdr_mmap : Nat]
  BY <1>2 DEF ImageInv, LoaderInv, TypeOK, Control, phdrs
<1>4. \A i \in DOMAIN phdrs : i \in Nat
  BY <1>3, SomeLoad
<1>5. idx \notin Loads(job.file)
  BY <1>2 DEF Loads, ph, phdrs
<1>6. /\ builder'.phdr_mmap = builder.phdr_mmap
      /\ ph.p_type = "PT_DYNAMIC" => /\ builder'.dynamic = mem[ph.p_paddr]
                                     /\ builder'.interp = builder.interp
      /\ ph.p_type = "PT_INTERP" => /\ builder'.interp = mem[ph.p_vaddr]
                                    /\ builder'.dynamic = builder.dynamic
  BY <1>2, <1>3 DEF ParseDynamic, ParseInterp
<1>7. BuilderParsed'
  <2>1. builder'.phdr_mmap # 0 => /\ builder'.phdr_mmap \in DOMAIN phdrs
                                  /\ phdrs[builder'.phdr_mmap].p_type = "PT_PHDR"
    BY <1>6 DEF ImageInv, BuilderParsed
  <2>2. ASSUME Linked(job.file), NEW i \in DOMAIN phdrs, i < idx + 1, ReadyAt(i)
        PROVE  /\ phdrs[i].p_type = "PT_DYNAMIC" => builder'.dynamic = phdrs[i].p_offset
               /\ phdrs[i].p_type = "PT_INTERP"  => builder'.interp = phdrs[i].p_offset
    <3>1. CASE i = idx
      <4>1. PICK j \in Loads(job.file) : MappedAt(j, idx) /\ Placed(phdrs[j])
        BY <2>2, <3>1 DEF ReadyAt
      <4>2. mem[ph.p_vaddr] = ph.p_offset
        BY <1>2, <2>2, <4>1, TargetMapped
      <4>3. ph.p_paddr = ph.p_vaddr
        BY <1>2, <1>3, <2>2 DEF Linked, Single, ph, phdrs
      <4> QED BY <1>2, <1>6, <3>1, <4>2, <4>3 DEF ph
    <3>2. CASE i # idx
      <4>1. i < idx
        BY <1>3, <1>4, <2>2, <3>2
      <4>2. phdrs[i].p_type # ph.p_type
        BY <1>2, <1>3, <2>2, <3>2 DEF Linked, Single, ph, phdrs
      <4> QED BY <1>2, <1>3, <1>6, <2>2, <4>1, <4>2 DEF ImageInv, BuilderParsed
    <3> QED BY <3>1, <3>2
  <2> QED BY <1>2, <1>3, <2>1, <2>2, ReadyStays DEF BuilderParsed
<1>8. MappingOf'
  BY <1>2 DEF MappingOf
<1> QED BY <1>1, <1>2, <1>5, <1>7, <1>8, QuietImage

LEMMA ParseOtherImage ==
  ASSUME ImageInv, ParseOther
  PROVE  ImageInv'
<1>1. LoaderInv'
  BY ParseInv DEF ImageInv
<1>2. /\ pc = "phdr" /\ pc' = "hook" /\ idx' = idx + 1
      /\ ph.p_type \in {"PT_GNU_RELRO", "PT_PHDR", "PT_OTHER"}
      /\ UNCHANGED <<job, failed, scan, param, resv, held, owner, mem, prot>>
  BY DEF ParseOther, NextPhdr, Goto
<1>3. job \in Job /\ idx \in DOMAIN phdrs /\ idx \in Nat /\ phdrs' = phdrs /\ owned
      /\ builder \in [dynamic : Cell \cup {NoCell}, interp : Cell \cup {NoCell},
                      relro : Nat, phdr_mmap : Nat]
  BY <1>2 DEF ImageInv, LoaderInv, TypeOK, Control, phdrs
<1>4. \A i \in DOMAIN phdrs : i \in Nat
  BY <1>3, SomeLoad
<1>5. idx \notin Loads(job.file)
  BY <1>2 DEF Loads, ph, phdrs
<1>6. /\ builder'.dynamic = builder.dynamic /\ builder'.interp = builder.interp
      /\ \/ builder'.phdr_mmap = builder.phdr_mmap
         \/ builder'.phdr_mmap = idx /\ ph.p_type = "PT_PHDR"
  BY <1>2, <1>3 DEF ParseOther
<1>7. BuilderParsed'
  <2>1. builder'.phdr_mmap # 0 => /\ builder'.phdr_mmap \in DOMAIN phdrs
                                  /\ phdrs[builder'.phdr_mmap].p_type = "PT_PHDR"
    BY <1>3, <1>6 DEF ImageInv, BuilderParsed, ph
  <2>2. ASSUME Linked(job.file), NEW i \in DOMAIN phdrs, i < idx + 1, ReadyAt(i)
        PROVE  /\ phdrs[i].p_type = "PT_DYNAMIC" => builder'.dynamic = phdrs[i].p_offset
               /\ phdrs[i].p_type = "PT_INTERP"  => builder'.interp = phdrs[i].p_offset
    <3>1. i = idx \/ i < idx
      BY <1>3, <1>4, <2>2
    <3> QED BY <1>2, <1>3, <1>6, <2>2, <3>1 DEF ImageInv, BuilderParsed, ph
  <2> QED BY <1>2, <1>3, <2>1, <2>2, ReadyStays DEF BuilderParsed
<1>8. MappingOf'
  BY <1>2 DEF MappingOf
<1> QED BY <1>1, <1>2, <1>5, <1>7, <1>8, QuietImage

LEMMA LoadSegmentImage ==
  ASSUME ImageInv, LoadSegment
  PROVE  ImageInv'
<1>1. LoaderInv'
  BY LoadSegmentInv DEF ImageInv
<1>2. /\ pc = "phdr" /\ ph.p_type = "PT_LOAD"
      /\ UNCHANGED <<job, failed, scan, resv, held, owner, mem, prot, builder>>
  BY DEF LoadSegment, Goto, NextPhdr
<1>3. job \in Job /\ idx \in DOMAIN phdrs /\ idx \in Nat /\ phdrs' = phdrs /\ owned /\ owned'
  BY <1>2 DEF ImageInv, LoaderInv, TypeOK, Control, phdrs, owned
<1>4. \A i \in DOMAIN phdrs : i \in Nat
  BY <1>3, SomeLoad
<1>5. BuilderParsed'
  <2>1. \A i \in DOMAIN phdrs : i < idx' => i < idx \/ phdrs[i].p_type = "PT_LOAD"
    BY <1>2, <1>3, <1>4 DEF LoadSegment, NextPhdr, ph
  <2> QED BY <1>2, <1>3, <2>1, ReadyStays DEF ImageInv, BuilderParsed
<1>6. CASE needs_mapping(resv.lo, ph)
  <2>1. param' = load_segment(ph) /\ pc' = "mmap" /\ idx' = idx
    BY <1>6 DEF LoadSegment, Goto
  <2>2. MappingOf'
    BY <1>2, <1>3, <1>6, <2>1 DEF MappingOf, Lowest, needs_mapping, ph
  <2> QED BY <1>1, <1>2, <1>5, <2>1, <2>2, QuietImage
<1>7. CASE ~needs_mapping(resv.lo, ph)
  <2>1. pc' = "hook" /\ idx' = idx + 1
    BY <1>7 DEF LoadSegment, NextPhdr, Goto
  <2>2. Lowest(ph)
    BY <1>7 DEF Lowest, needs_mapping
  <2>3. MappingOf'
    BY <2>1 DEF MappingOf
  <2> QED BY <1>1, <1>2, <1>5, <2>1, <2>2, <2>3, QuietImage
<1> QED BY <1>6, <1>7

LEMMA HookImage ==
  ASSUME ImageInv, ExecHook \/ CreateCommon
  PROVE  ImageInv'
<1>1. LoaderInv'
  BY ParseInv DEF ImageInv
<1>2. /\ pc = "hook" /\ pc' \in {"phdr", "done"}
      /\ UNCHANGED <<job, failed, idx, scan, param, resv, held, owner, mem, prot, builder>>
  BY DEF ExecHook, CreateCommon, CommonReady, Goto
<1>3. phdrs' = phdrs /\ owned
  BY <1>2 DEF phdrs, ImageInv, LoaderInv, Control
<1>4. BuilderParsed'
  BY <1>2, <1>3, ReadyStays DEF ImageInv, BuilderParsed
<1>5. MappingOf'
  BY <1>2 DEF MappingOf
<1> QED BY <1>1, <1>2, <1>4, <1>5, QuietImage

-----------------------------------------------------------------------------
(* A fault keeps what is in place; what remains is that it may happen. *)
LEMMA FaultImage ==
  ASSUME ImageInv, Fault, pc \in {"bss", "phdr"}, NoFault'
  PROVE  ImageInv'
<1>1. LoaderInv'
  BY FaultInv DEF ImageInv
<1>2. /\ pc' = "fault"
      /\ UNCHANGED <<job, idx, scan, param, resv, held, owner, mem, prot, builder>>
  BY DEF Fault
<1>3. owned /\ owned' /\ phdrs' = phdrs
  BY <1>2 DEF ImageInv, LoaderInv, Control, owned, phdrs
<1>4. Ownership'
  <2>1. held \notin {"released", "bad_free"}
    BY DEF ImageInv, Ownership
  <2>2. held = "borrowed" => job.backend = "no_mmap" /\ ~job.file.dylib
    BY DEF ImageInv, Ownership
  <2> QED BY <1>2, <1>3, <2>1, <2>2 DEF Ownership
<1>5. ScanFrom' /\ MappingOf'
  BY <1>2 DEF ScanFrom, MappingOf
<1>6. /\ \A i \in Loads(job.file) : Lowest(phdrs[i])' <=> Lowest(phdrs[i])
      /\ \A i \in Loads(job.file) : Placed(phdrs[i])' <=> Placed(phdrs[i])
      /\ \A i \in Loads(job.file) : Passed(i)' <=> Passed(i)
  BY <1>2, <1>3 DEF Lowest, Placed, Passed
<1>7. BytesInPlace' /\ BssInPlace' /\ ProtInPlace'
  <2>1. BytesInPlace'
    BY <1>2, <1>3, <1>6 DEF ImageInv, BytesInPlace, Current
  <2>2. BssInPlace'
    BY <1>2, <1>3, <1>6 DEF ImageInv, BssInPlace
  <2>3. ProtInPlace'
    BY <1>2, <1>3, <1>6 DEF ImageInv, ProtInPlace, Current
  <2> QED BY <2>1, <2>2, <2>3
<1>8. FileBacked' /\ BuilderParsed'
  BY <1>2, <1>3, <1>6, ReadyStays DEF ImageInv, FileBacked, BuilderParsed
<1> QED BY <1>1, <1>4, <1>5, <1>7, <1>8 DEF ImageInv

(* A linked file's .bss can be written where fill_bss writes it. *)
LEMMA FillBssFaultsImage ==
  ASSUME ImageInv, FillBssFaults
  PROVE  ImageInv'
<1>1. /\ pc = "bss" /\ ph.p_filesz # ph.p_memsz /\ Fault
      /\ \E a \in BssHole : ~Writable(a) \/ mem[a] = Unbacked
  BY DEF FillBssFaults
<1>2. owned /\ idx \in Loads(job.file) /\ job \in Job
  BY <1>1 DEF ImageInv, LoaderInv, Control, TypeOK
<1>3. ~Linked(job.file)
  <2> SUFFICES ASSUME Linked(job.file) PROVE FALSE
    OBVIOUS
  <2>1. PICK a \in BssHole : ~Writable(a) \/ mem[a] = Unbacked
    BY <1>1
  <2>2. a \in Addr /\ InPages(a, ph)
    BY <1>2, HoleInside
  <2>3. mem[a] # Unbacked
    BY <1>1, <1>2 DEF ImageInv, BssInPlace
  <2>4. job.backend # "no_mmap" => prot[a] = map_prot(ph.p_flags)
    <3>1. job.backend # "no_mmap" => HasProt(prot, ph)
      BY <1>1, <1>2 DEF ImageInv, ProtInPlace, Current, ph
    <3> QED BY <2>2, <3>1 DEF HasProt
  <2>5. CanWrite(map_prot(ph.p_flags))
    BY <1>1, <1>2 DEF Linked, ph, phdrs
  <2> QED BY <2>1, <2>3, <2>4, <2>5 DEF Writable
<1>4. NoFault'
  BY <1>1, <1>3 DEF NoFault, Fault
<1> QED BY <1>1, <1>4, FaultImage

LEMMA ParseFaultsImage ==
  ASSUME ImageInv, ParseFaults
  PROVE  ImageInv'
<1>1. /\ pc = "phdr" /\ Fault
      /\ \/ ph.p_type = "PT_DYNAMIC" /\ ~Readable(ph.p_paddr)
         \/ ph.p_type = "PT_INTERP" /\ ~Readable(ph.p_vaddr)
  BY DEF ParseFaults
<1>2. idx \in DOMAIN phdrs /\ job \in Job
  BY <1>1 DEF ImageInv, LoaderInv, Control, TypeOK
<1>3. ASSUME Linked(job.file), NEW j \in Loads(job.file), MappedAt(j, idx)
      PROVE  FALSE
  <2>1. Readable(ph.p_vaddr)
    BY <1>1, <1>3, TargetMapped
  <2>2. ph.p_paddr = ph.p_vaddr
    BY <1>1, <1>2, <1>3 DEF Linked, Single, ph, phdrs
  <2> QED BY <1>1, <2>1, <2>2
<1>4. UNCHANGED <<job, resv, idx>> /\ phdrs' = phdrs
  BY <1>1 DEF Fault, phdrs
<1>5. \A j : MappedAt(j, idx)' => MappedAt(j, idx)
  BY <1>4 DEF MappedAt, Lowest
<1>6. NoFault'
  BY <1>1, <1>3, <1>4, <1>5 DEF NoFault, ph
<1> QED BY <1>1, <1>6, FaultImage

-----------------------------------------------------------------------------
(* Every step of a load keeps what is in place. *)
LEMMA NextImage == ImageInv /\ [Next]_vars => ImageInv'
<1> SUFFICES ASSUME ImageInv, [Next]_vars PROVE ImageInv'
  OBVIOUS
<1>1. CASE Advances
  <2>1. CASE MmapFd
    BY <2>1, FirstMmapFd, LaterMmapFd
  <2>2. CASE MmapAnonymous \/ MmapAlloc
    BY <2>2, FirstReserve, LaterReserve
  <2>3. CASE ReadSegment
    BY <2>3, FirstRead, LaterRead
  <2>4. CASE Mprotect
    BY <2>4, FirstMprotect, LaterMprotect
  <2> QED BY <1>1, <2>1, <2>2, <2>3, <2>4, HeadersImage, ScanPhdrImage, CreateSegmentsImage,
             HookImage, LoadSegmentImage, FillBssImage, MmapBssImage, ParseImage, ParseOtherImage
             DEF Advances
<1>2. CASE Fails
  <2>1. CASE FillBssFaults \/ ParseFaults
    BY <2>1, FillBssFaultsImage, ParseFaultsImage
  <2>2. CASE ~(FillBssFaults \/ ParseFaults)
    <3>1. pc \notin Ended /\ \E o \in {"err", "panic", "cancelled"} : Exit(o)
      BY <1>2, <2>2 DEF Fails, ReadError, PrepareEhdrFails, PreparePhdrFails, MmapFails, AllocFails, ReadFails,
         DropFuture, MprotectFails, HookFails, MmapBssFails, ParseDynamicFails, ParseInterpPanics, CommonReady,
         CreateCommonFails, CreateCommonPanics, Ended
    <3> QED BY <3>1, ExitImage
  <2> QED BY <2>1, <2>2
<1>3. CASE DropObject
  BY <1>3, DropObjectImage
<1>4. CASE UNCHANGED vars
  <2>1. LoaderInv'
    BY NextInv DEF ImageInv
  <2> USE <1>4 DEF vars
  <2>2. /\ phdrs' = phdrs /\ (owned' <=> owned) /\ ph' = ph /\ BssHole' = BssHole
    BY DEF phdrs, owned, ph, BssHole
  <2>3. /\ \A i : Lowest(phdrs[i])' <=> Lowest(phdrs[i])
        /\ \A i : Placed(phdrs[i])' <=> Placed(phdrs[i])
        /\ \A i : Passed(i)' <=> Passed(i)
    BY <2>2 DEF Lowest, Placed, Passed
  <2>4. Ownership' /\ ScanFrom'
    BY <2>2 DEF ImageInv, Ownership, ScanFrom, Untouched
  <2>5. MappingOf'
    BY <2>2 DEF ImageInv, MappingOf, FirstFor, Lowest
  <2>6. BytesInPlace'
    BY <2>2, <2>3 DEF ImageInv, BytesInPlace, Current
  <2>7. BssInPlace' /\ ProtInPlace'
    BY <2>2, <2>3 DEF ImageInv, BssInPlace, ProtInPlace, Current
  <2>8. FileBacked' /\ BuilderParsed'
    BY <2>2, <2>3, ReadyStays DEF ImageInv, FileBacked, BuilderParsed
  <2>9. NoFault'
    BY <2>2, <2>3 DEF ImageInv, NoFault, MappedAt
  <2> QED BY <2>1, <2>4, <2>5, <2>6, <2>7, <2>8, <2>9 DEF ImageInv
<1> QED BY <1>1, <1>2, <1>3, <1>4 DEF Next

(* Only create_common finishes a load. *)
LEMMA OnlyCreateCommon ==
  ASSUME Next, pc' = "done"
  PROVE  CreateCommon
<1>1. CASE Advances
  <2>1. ~(PrepareEhdr \/ PreparePhdr \/ ScanPhdr \/ CreateSegments)
    BY DEF PrepareEhdr, PreparePhdr, ScanPhdr, CreateSegments, Goto
  <2>2. ~(MmapFd \/ MmapAnonymous \/ MmapAlloc \/ ReadSegment \/ Mprotect)
    BY DEF MmapFd, MmapAnonymous, MmapAlloc, ReadSegment, Mprotect, Goto
  <2>3. ~(ExecHook \/ LoadSegment \/ FillBss \/ MmapBss)
    BY DEF ExecHook, LoadSegment, FillBss, MmapBss, NextPhdr, Goto
  <2>4. ~(ParseDynamic \/ ParseInterp \/ ParseOther)
    BY DEF ParseDynamic, ParseInterp, ParseOther, NextPhdr, Goto
  <2> QED BY <1>1, <2>1, <2>2, <2>3, <2>4 DEF Advances
<1>2. CASE Fails
  BY <1>2 DEF Fails, ReadError, PrepareEhdrFails, PreparePhdrFails, MmapFails, AllocFails, ReadFails,
     DropFuture, MprotectFails, HookFails, MmapBssFails, ParseDynamicFails, ParseInterpPanics, CreateCommonFails,
     CreateCommonPanics, FillBssFaults, ParseFaults, Exit, Fault
<1>3. CASE DropObject
  BY <1>3 DEF DropObject, Goto
<1> QED BY <1>1, <1>2, <1>3 DEF Next

LEMMA FinishedNext == ImageInv /\ Finished /\ [Next]_vars => Finished'
<1> SUFFICES ASSUME ImageInv, Finished, [Next]_vars, pc' = "done"
             PROVE  idx' > Len(phdrs') /\ (builder'.dynamic # NoCell => PhdrsFound')
  BY DEF Finished
<1>1. CASE Next
  <2>1. CreateCommon
    BY <1>1, OnlyCreateCommon
  <2>2. /\ UNCHANGED <<job, idx, builder>> /\ idx > Len(phdrs)
        /\ builder.dynamic # NoCell => PhdrsFound
    BY <2>1 DEF CreateCommon, CommonReady, Goto
  <2>3. phdrs' = phdrs /\ (PhdrsFound' <=> PhdrsFound)
    BY <2>2 DEF PhdrsFound, PhdrsInLoad, phdrs
  <2> QED BY <2>2, <2>3
<1>2. CASE UNCHANGED vars
  <2>1. phdrs' = phdrs /\ (PhdrsFound' <=> PhdrsFound)
    BY <1>2 DEF vars, PhdrsFound, PhdrsInLoad, phdrs
  <2> QED BY <1>2, <2>1 DEF vars, Finished
<1> QED BY <1>1, <1>2

(***************************************************************************)
(* The invariant behind the theorems: what the loop has passed is in place *)
(* and is not touched again.                                               *)
(***************************************************************************)
THEOREM ImageInvariant == Spec => [](ImageInv /\ Finished)
<1>1. Init => ImageInv /\ Finished
  BY ImageInit DEF Init, Finished
<1>2. ImageInv /\ Finished /\ [Next]_vars => (ImageInv /\ Finished)'
  BY NextImage, FinishedNext
<1> QED BY <1>1, <1>2, PTL DEF Spec

-----------------------------------------------------------------------------
(***************************************************************************)
(* A load that fails, at whichever step of whichever segment, gives back   *)
(* all it has mapped: the early returns of load_impl drop the ElfSegments  *)
(* that owns the one reservation everything lies in.                       *)
(***************************************************************************)
THEOREM FailureLeavesNothing == Spec => []LeavesNothing
<1>1. ImageInv => LeavesNothing
  <2> SUFFICES ASSUME ImageInv, pc \in {"err", "panic", "cancelled", "dropped"}, ~InFirstMmap
               PROVE  /\ held \in {"none", "released"} \/ (job.backend = "no_mmap" /\ ~job.file.dylib)
                      /\ \A a \in Addr : mem[a] = Foreign /\ prot[a] = 0
    BY DEF LeavesNothing
  <2>1. ~owned /\ held \in {"none", "held", "borrowed", "released", "bad_free"}
    BY DEF ImageInv, Ownership, LoaderInv, TypeOK
  <2>2. held \notin {"held", "borrowed"}
    BY <2>1 DEF ImageInv, Ownership, InFirstMmap
  <2>3. CASE held = "none"
    <3>1. resv = NoResv
      BY <2>3 DEF ImageInv, LoaderInv, Control
    <3>2. \A a \in Addr : ~Within(a, resv.lo, resv.len)
      BY <3>1, BoundsAssumption DEF NoResv, Within, Addr
    <3> QED BY <2>3, <3>2 DEF ImageInv, LoaderInv, OutsideUntouched
  <2>4. CASE held \in {"released", "bad_free"}
    BY <2>4 DEF ImageInv, Ownership, Untouched
  <2> QED BY <2>1, <2>2, <2>3, <2>4
<1> QED BY <1>1, ImageInvariant, PTL

(* When the load is over the loop has passed every segment. *)
LEMMA AllPassed ==
  ASSUME ImageInv, Finished, pc = "done", NEW i \in DOMAIN phdrs
  PROVE  owned /\ held # "none" /\ job \in Job /\ i < idx
<1>1. job \in Job /\ idx \in Nat /\ owned /\ held # "none" /\ idx > Len(phdrs)
  BY DEF ImageInv, LoaderInv, TypeOK, Ownership, Control, Finished
<1>2. phdrs \in Seq(Phdr)
  BY <1>1, SomeLoad
<1> QED BY <1>1, <1>2

(***************************************************************************)
(* A finished load of a linked file has every page of every segment        *)
(* protected as its flags ask: no later mmap, mprotect or .bss mapping     *)
(* changed it, and the lowest segment has the one the first mmap gave.     *)
(***************************************************************************)
THEOREM ProtectionIsFinal == Spec => []FinalProtection
<1>1. ImageInv /\ Finished => FinalProtection
  <2> SUFFICES ASSUME ImageInv, Finished, pc = "done", Linked(job.file),
                      job.backend # "no_mmap", NEW i \in Loads(job.file),
                      NEW a \in Addr,
                      Within(a, load_segment(phdrs[i]).lo, load_segment(phdrs[i]).len)
               PROVE  prot[a] = load_segment(phdrs[i]).prot
    BY DEF FinalProtection
  <2>1. job \in Job
    BY DEF ImageInv, LoaderInv, TypeOK
  <2>2. i \in DOMAIN phdrs
    BY <2>1, SegmentFacts
  <2>3. HasProt(prot, phdrs[i])
    BY <2>2, AllPassed DEF ImageInv, ProtInPlace, Passed
  <2>4. /\ load_segment(phdrs[i]).lo = PageDown(phdrs[i].p_vaddr)
        /\ load_segment(phdrs[i]).prot = map_prot(phdrs[i].p_flags)
        /\ load_segment(phdrs[i]).lo + load_segment(phdrs[i]).len
             = PageUp(phdrs[i].p_vaddr + phdrs[i].p_memsz)
    BY <2>1, SegmentFacts
  <2>5. InPages(a, phdrs[i])
    BY <2>4 DEF InPages, Within
  <2> QED BY <2>3, <2>4, <2>5 DEF HasProt
<1> QED BY <1>1, ImageInvariant, PTL

(***************************************************************************)
(* ... and every byte of every segment where the linker wanted it, the     *)
(* .bss zeroed, for every order of the program headers and every backend.  *)
(***************************************************************************)
THEOREM ImageIsLoaded == Spec => []ImageLoaded
<1>1. ImageInv /\ Finished => ImageLoaded
  <2> SUFFICES ASSUME ImageInv, Finished, pc = "done", Linked(job.file),
                      NEW i \in Loads(job.file), Placed(phdrs[i]), Completed(phdrs[i]),
                      NEW a \in Addr, Within(a, phdrs[i].p_vaddr, phdrs[i].p_memsz)
               PROVE  mem[a] = WantedByte(phdrs[i], a)
    BY DEF ImageLoaded, SegmentLoaded
  <2>1. job \in Job
    BY DEF ImageInv, LoaderInv, TypeOK
  <2>2. /\ i \in DOMAIN phdrs /\ phdrs[i].p_vaddr \in Nat /\ phdrs[i].p_filesz \in Nat
        /\ phdrs[i].p_memsz \in Nat
    BY <2>1, SegmentFacts
  <2>3. owned /\ i < idx
    BY <2>2, AllPassed
  <2>4. HasBytes(mem, phdrs[i])
    BY <2>3 DEF ImageInv, BytesInPlace, Passed
  <2>5. CASE a < phdrs[i].p_vaddr + phdrs[i].p_filesz
    BY <2>4, <2>5 DEF HasBytes, Within, WantedByte
  <2>6. CASE ~(a < phdrs[i].p_vaddr + phdrs[i].p_filesz)
    <3>1. /\ phdrs[i].p_vaddr + phdrs[i].p_filesz <= a
          /\ a < phdrs[i].p_vaddr + phdrs[i].p_memsz
      BY <2>2, <2>6, BoundsAssumption DEF Within, Addr
    <3>2. ~Lowest(phdrs[i])
      BY <2>6, <3>1 DEF Completed
    <3>3. HasBss(mem, phdrs[i])
      BY <2>3, <3>2 DEF ImageInv, BssInPlace
    <3> QED BY <2>6, <3>1, <3>3 DEF HasBss, WantedByte
  <2> QED BY <2>5, <2>6
<1> QED BY <1>1, ImageInvariant, PTL

(***************************************************************************)
(* A memory fault while a linked file is loaded is a read of the dynamic   *)
(* section or of the interpreter name before its segment is mapped: never  *)
(* the .bss, and never a target whose segment comes earlier or is lowest.  *)
(***************************************************************************)
THEOREM FaultsExplained == Spec => []NoFault
<1>1. ImageInv => NoFault
  BY DEF ImageInv
<1> QED BY <1>1, ImageInvariant, PTL

(***************************************************************************)
(* What a finished load took for the dynamic section and the interpreter   *)
(* name is what the file has there.                                        *)
(***************************************************************************)
THEOREM ParsedIsFile == Spec => []ParsedFromImage
<1>1. ImageInv /\ Finished => ParsedFromImage
  <2> SUFFICES ASSUME ImageInv, Finished, pc = "done", Linked(job.file),
                      NEW i \in DOMAIN phdrs, ReadyAt(i)
               PROVE  /\ phdrs[i].p_type = "PT_DYNAMIC" => builder.dynamic = phdrs[i].p_offset
                      /\ phdrs[i].p_type = "PT_INTERP"  => builder.interp = phdrs[i].p_offset
    BY DEF ParsedFromImage
  <2>1. owned /\ i < idx
    BY AllPassed
  <2> QED BY <2>1 DEF ImageInv, BuilderParsed
<1> QED BY <1>1, ImageInvariant, PTL

-----------------------------------------------------------------------------
(* Every nonempty set of naturals has a least element. *)
LEMMA LeastNat ==
  ASSUME NEW S \in SUBSET Nat, S # {}
  PROVE  \E m \in S : \A n \in S : m <= n
<1> DEFINE R == {ss \in Nat \X Nat : ss[1] < ss[2]}
<1>1. IsWellFoundedOn(R, Nat)
  BY NatLessThanWellFounded DEF OpToRel
<1>2. PICK m \in S : \A n \in S : ~(<<n, m>> \in R)
  <2> HIDE DEF R
  <2> QED
    BY <1>1, WFMin
<1>3. \A n \in S : ~(n < m)
  <2> SUFFICES ASSUME NEW n \in S, n < m PROVE FALSE
    OBVIOUS
  <2>1. <<n, m>> \in Nat \X Nat /\ <<n, m>>[1] < <<n, m>>[2]
    OBVIOUS
  <2>2. <<n, m>> \in R
    BY <2>1, Zenon
  <2> HIDE DEF R
  <2> QED
    BY <1>2, <2>2
<1> QED
  BY <1>3

(* A table that lies in the file part of a segment lies in its image. *)
LEMMA TableInSegment ==
  ASSUME ImageInv, Finished, pc = "done", Linked(job.file), NEW j \in Loads(job.file),
         Placed(phdrs[j]), NEW at \in Nat, NEW k \in 0 .. job.file.phend - job.file.phoff - 1,
         phdrs[j].p_offset <= job.file.phoff,
         job.file.phend <= phdrs[j].p_offset + phdrs[j].p_filesz,
         at - phdrs[j].p_vaddr = job.file.phoff - phdrs[j].p_offset
  PROVE  /\ Within(at + k, resv.lo, resv.len)
         /\ mem[at + k] = job.file.phoff + k
<1>1. /\ job \in Job /\ held # "none" /\ resv.lo \in Nat /\ resv.len \in Nat
      /\ job.file.phoff \in Nat /\ job.file.phend \in Nat
  <2>1. job \in Job /\ held # "none" /\ resv.lo \in Nat /\ resv.len \in Nat
    BY DEF ImageInv, LoaderInv, TypeOK, Control
  <2>2. job.file \in File
    BY <2>1, FilesAssumption DEF Job
  <2> QED BY <2>1, <2>2 DEF File
<1>2. /\ j \in DOMAIN phdrs
      /\ phdrs[j].p_vaddr \in Nat /\ phdrs[j].p_memsz \in Nat /\ phdrs[j].p_filesz \in Nat
      /\ phdrs[j].p_offset \in Nat /\ phdrs[j].p_filesz <= phdrs[j].p_memsz
      /\ PageDown(phdrs[j].p_vaddr) \in Nat /\ PageDown(phdrs[j].p_vaddr) <= phdrs[j].p_vaddr
      /\ PageUp(phdrs[j].p_vaddr + phdrs[j].p_memsz) \in Nat
      /\ phdrs[j].p_vaddr + phdrs[j].p_memsz <= PageUp(phdrs[j].p_vaddr + phdrs[j].p_memsz)
      /\ PageUp(phdrs[j].p_vaddr + phdrs[j].p_memsz) <= AddrMax + 1
  BY <1>1, SegmentFacts
<1>3. /\ at + k \in Nat /\ phdrs[j].p_vaddr <= at + k
      /\ at + k < phdrs[j].p_vaddr + phdrs[j].p_filesz
      /\ phdrs[j].p_offset + ((at + k) - phdrs[j].p_vaddr) = job.file.phoff + k
  BY <1>1, <1>2
<1>4. at + k \in Addr
  BY <1>2, <1>3, BoundsAssumption DEF Addr
<1>5. Within(at + k, resv.lo, resv.len)
  <2>1. /\ resv.lo <= PageDown(phdrs[j].p_vaddr)
        /\ PageUp(phdrs[j].p_vaddr + phdrs[j].p_memsz) <= resv.lo + resv.len
    BY <1>1 DEF ImageInv, LoaderInv, SegmentsCovered, Covers, phdrs
  <2> QED BY <1>1, <1>2, <1>3, <2>1 DEF Within
<1>6. HasBytes(mem, phdrs[j])
  BY <1>2, AllPassed DEF ImageInv, BytesInPlace, Passed
<1> QED BY <1>3, <1>4, <1>5, <1>6 DEF HasBytes, Within

(***************************************************************************)
(* The program headers a finished object gives out are in its image, the   *)
(* whole table, whichever way create_common found them.                    *)
(***************************************************************************)
THEOREM PhdrsInImage == Spec => []PhdrsMapped
<1>1. ImageInv /\ Finished => PhdrsMapped
  <2> SUFFICES ASSUME ImageInv, Finished, pc = "done", Linked(job.file),
                      builder.dynamic # NoCell,
                      \A i \in Loads(job.file) : Placed(phdrs[i]),
                      NEW k \in 0 .. job.file.phend - job.file.phoff - 1
               PROVE  /\ Within(PhdrsAt + k, resv.lo, resv.len)
                      /\ mem[PhdrsAt + k] = job.file.phoff + k
    BY DEF PhdrsMapped
  <2>1. PhdrsFound /\ job \in Job
    BY DEF Finished, ImageInv, LoaderInv, TypeOK
  <2>2. job.file.phoff \in Nat /\ job.file.phend \in Nat
    BY <2>1, FilesAssumption DEF Job, File
  <2>3. CASE builder.phdr_mmap # 0
    <3> DEFINE i == builder.phdr_mmap
    <3>1. i \in DOMAIN phdrs /\ phdrs[i].p_type = "PT_PHDR" /\ PhdrsAt = phdrs[i].p_vaddr
      BY <2>3 DEF ImageInv, BuilderParsed, PhdrsAt
    <3> HIDE DEF i
    <3>2. phdrs[i].p_vaddr \in Nat /\ phdrs[i].p_offset \in Nat
      BY <2>1, <3>1, PhdrFacts DEF Phdr
    <3>3. PICK j \in Loads(job.file) :
            /\ Holds(phdrs[j], phdrs[i])
            /\ job.file.phend <= phdrs[j].p_offset + phdrs[j].p_filesz
      <4>1. \E j \in Loads(job.file) :
              /\ Holds(phdrs[j], phdrs[i])
              /\ phdrs[i].p_type = "PT_PHDR" =>
                   job.file.phend <= phdrs[j].p_offset + phdrs[j].p_filesz
        <5>1. phdrs[i].p_type \in Single
          BY <3>1 DEF Single
        <5> QED BY <3>1, <5>1, Zenon DEF Linked, phdrs
      <4> QED BY <3>1, <4>1
    <3>4. phdrs[i].p_offset = job.file.phoff
      BY <3>1 DEF Linked, Single, phdrs
    <3>5. phdrs[j].p_vaddr \in Nat /\ phdrs[j].p_offset \in Nat
      BY <2>1, SegmentFacts
    <3>6. /\ phdrs[j].p_offset <= job.file.phoff
          /\ phdrs[i].p_vaddr - phdrs[j].p_vaddr = job.file.phoff - phdrs[j].p_offset
      BY <2>2, <3>2, <3>3, <3>4, <3>5 DEF Holds
    <3> QED BY <3>1, <3>2, <3>3, <3>6, TableInSegment
  <2>4. CASE builder.phdr_mmap = 0
    <3> DEFINE Q(i) == /\ PhdrsInLoad(phdrs[i])
                       /\ \A j \in Loads(job.file) : PhdrsInLoad(phdrs[j]) => i <= j
               first == CHOOSE i \in Loads(job.file) : Q(i)
               S == {i \in Loads(job.file) : PhdrsInLoad(phdrs[i])}
    <3>1. S # {} /\ S \subseteq Nat
      BY <2>1, <2>4, SegmentFacts DEF PhdrsFound
    <3>2. \E i \in Loads(job.file) : Q(i)
      <4>1. PICK i \in S : \A j \in S : i <= j
        BY <3>1, LeastNat
      <4> QED BY <4>1
    <3>3. first \in Loads(job.file) /\ PhdrsInLoad(phdrs[first])
      BY <3>2
    <3>4. PhdrsAt = phdrs[first].p_vaddr + job.file.phoff - phdrs[first].p_offset
      BY <2>4 DEF PhdrsAt
    <3> HIDE DEF first
    <3>5. /\ phdrs[first].p_vaddr \in Nat /\ phdrs[first].p_offset \in Nat
          /\ phdrs[first].p_filesz \in Nat
      BY <2>1, <3>3, SegmentFacts
    <3>6. /\ phdrs[first].p_offset <= job.file.phoff
          /\ job.file.phend < phdrs[first].p_offset + phdrs[first].p_filesz
      BY <3>3 DEF PhdrsInLoad
    <3>7. /\ PhdrsAt \in Nat
          /\ PhdrsAt - phdrs[first].p_vaddr = job.file.phoff - phdrs[first].p_offset
          /\ job.file.phend <= phdrs[first].p_offset + phdrs[first].p_filesz
      BY <2>2, <3>4, <3>5, <3>6
    <3> QED BY <3>3, <3>6, <3>7, TableInSegment
  <2> QED BY <2>3, <2>4
<1> QED BY <1>1, ImageInvariant, PTL

=============================================================================
