---------------------------- MODULE LoaderProofs ----------------------------
(***************************************************************************)
(* For every page size, every set of files the loader may be given and     *)
(* every backend: the loader's state keeps its types, and no step of a     *)
(* load changes a byte outside the reservation.                            *)
(*                                                                         *)
(* The argument: create_segments' loop keeps bounds of the program headers *)
(* it has seen (ScanBounds); at its end they cover every PT_LOAD rounded   *)
(* to pages, so that every later mapping lies inside the first one         *)
(* (SegmentsCovered), and what is copied into a mapping fits it            *)
(* (ParamFits).                                                            *)
(***************************************************************************)
EXTENDS Loader, TLAPS

(* Where the loops and the calls of mmap_segment stand. *)
Control ==
  /\ pc \in {"ehdr", "phdrs"} => idx = 1 /\ scan = ScanStart
  /\ pc \in {"ehdr", "phdrs", "scan"} => held = "none" /\ ~owned
  /\ pc = "mmap" => (owned <=> held # "none")
  /\ pc \in {"read", "mprotect", "hook", "phdr", "bss", "bss_anon", "done"} => held # "none"
  /\ pc \in {"hook", "phdr", "bss", "bss_anon"} => owned
  /\ pc \in {"phdr", "bss", "bss_anon"} => idx \in DOMAIN phdrs
  /\ pc \in {"bss", "bss_anon"} => idx \in Loads(job.file)
  /\ pc \in {"mmap", "read", "mprotect"} /\ owned => idx \in Loads(job.file)
  /\ held = "none" => resv = NoResv /\ ~owned

(* The bounds create_segments keeps cover the headers it has seen. *)
ScanBounds ==
  pc = "scan" =>
    /\ \A i \in Loads(job.file) : i < idx =>
         /\ scan.min_vaddr <= phdrs[i].p_vaddr
         /\ phdrs[i].p_vaddr + phdrs[i].p_memsz <= scan.max_vaddr
    /\ \/ scan.min_vaddr = UsizeMax
       \/ scan.min_vaddr + scan.min_filesz <= scan.max_vaddr

(* Every PT_LOAD of f, rounded to pages, lies in lo .. lo + len - 1. *)
Covers(f, lo, len) ==
  \A i \in Loads(f) :
    /\ lo <= PageDown(f.phdrs[i].p_vaddr)
    /\ PageUp(f.phdrs[i].p_vaddr + f.phdrs[i].p_memsz) <= lo + len

SegmentsCovered ==
  /\ pc = "mmap" /\ held = "none" => Covers(job.file, param.lo, param.len)
  /\ held # "none" => Covers(job.file, resv.lo, resv.len)

(* The mapping under way holds what is copied into it and stays inside. *)
ParamFits ==
  /\ pc \in {"mmap", "read", "mprotect"} => param.count <= param.len
  /\ pc \in {"mmap", "read", "mprotect"} /\ held # "none" =>
       resv.lo <= param.lo /\ param.lo + param.len <= resv.lo + resv.len

LoaderInv == TypeOK /\ Control /\ ScanBounds /\ SegmentsCovered /\ ParamFits /\ OutsideUntouched

-----------------------------------------------------------------------------
(* PageDown (a & MASK) rounds down, by less than a page. *)
LEMMA PageDownBound ==
  ASSUME NEW a \in Nat
  PROVE  /\ PageDown(a) \in Nat
         /\ PageDown(a) <= a
         /\ a < PageDown(a) + PageSize
<1>1. a % PageSize \in 0 .. (PageSize - 1)
  BY PageSizeAssumption
<1>2. a = PageSize * (a \div PageSize) + (a % PageSize) /\ a \div PageSize \in Nat
  BY PageSizeAssumption
<1>3. PageSize * (a \div PageSize) \in Nat
  BY <1>2, PageSizeAssumption
<1> QED
  BY <1>1, <1>2, <1>3, PageSizeAssumption DEF PageDown

(* Rounding down is monotone: a page boundary is never stepped over. *)
LEMMA PageDownMonotone ==
  ASSUME NEW a \in Nat, NEW b \in Nat, a <= b
  PROVE  PageDown(a) <= PageDown(b)
<1> DEFINE qa == a \div PageSize
           qb == b \div PageSize
<1>1. /\ qa \in Nat /\ qb \in Nat
      /\ PageDown(a) = PageSize * qa /\ PageDown(b) = PageSize * qb
  BY PageSizeAssumption DEF PageDown
<1>2. CASE qa <= qb
  <2>1. PICK d \in Nat : qb = qa + d
    <3>1. qb - qa \in Nat /\ qb = qa + (qb - qa)
      BY <1>1, <1>2
    <3> QED BY <3>1
  <2>2. PageSize * qb = PageSize * qa + PageSize * d /\ PageSize * d \in Nat
    BY <1>1, <2>1, PageSizeAssumption
  <2> QED BY <1>1, <2>2, PageSizeAssumption
<1>3. CASE qb < qa
  <2>1. PICK d \in Nat : qa = (qb + 1) + d
    <3>1. qa - (qb + 1) \in Nat /\ qa = (qb + 1) + (qa - (qb + 1))
      BY <1>1, <1>3
    <3> QED BY <3>1
  <2>2. PageSize * qa = PageSize * qb + PageSize + PageSize * d /\ PageSize * d \in Nat
    BY <1>1, <2>1, PageSizeAssumption
  <2>3. PageDown(a) >= PageDown(b) + PageSize
    BY <1>1, <2>2, PageSizeAssumption
  <2> QED BY <2>3, PageDownBound, PageSizeAssumption, <1>1
<1> HIDE DEF qa, qb
<1> QED BY <1>1, <1>2, <1>3

(* PageUp rounds up, and is monotone too. *)
LEMMA PageUpBound ==
  ASSUME NEW a \in Nat
  PROVE  PageUp(a) \in Nat /\ a <= PageUp(a)
<1>1. a + PageSize - 1 \in Nat
  BY PageSizeAssumption
<1> QED
  BY <1>1, PageDownBound, PageSizeAssumption DEF PageUp

LEMMA PageUpMonotone ==
  ASSUME NEW a \in Nat, NEW b \in Nat, a <= b
  PROVE  PageUp(a) <= PageUp(b)
<1>1. a + PageSize - 1 \in Nat /\ b + PageSize - 1 \in Nat
  BY PageSizeAssumption
<1> QED
  BY <1>1, PageDownMonotone, PageSizeAssumption DEF PageUp

-----------------------------------------------------------------------------
(* What is known of each program header of the file being loaded. *)
LEMMA PhdrFacts ==
  ASSUME job \in Job, NEW i \in DOMAIN phdrs
  PROVE  /\ phdrs[i] \in Phdr
         /\ PhdrSane(phdrs[i])
<1>1. job.file \in Files
  BY DEF Job
<1>2. job.file \in File /\ Sane(job.file)
  BY <1>1, FilesAssumption
<1>3. phdrs \in Seq(Phdr)
  BY <1>2 DEF File, phdrs
<1> QED
  BY <1>2, <1>3 DEF Sane, phdrs

LEMMA SomeLoad ==
  ASSUME job \in Job
  PROVE  /\ Loads(job.file) # {}
         /\ Loads(job.file) \subseteq DOMAIN phdrs
         /\ phdrs \in Seq(Phdr)
<1>1. job.file \in Files
  BY DEF Job
<1>2. job.file \in File /\ Sane(job.file)
  BY <1>1, FilesAssumption
<1> QED
  BY <1>2 DEF Sane, Loads, phdrs, File

LEMMA map_prot_Type ==
  ASSUME NEW f \in ProtFlags
  PROVE  map_prot(f) \in ProtFlags
  BY DEF map_prot, ProtFlags

(* The mapping load_segment asks for has a length, holds what is copied    *)
(* into it, and lies inside any range that covers the segment's pages.     *)
LEMMA LoadSegmentFits ==
  ASSUME NEW p \in Phdr, PhdrSane(p), p.p_type = "PT_LOAD"
  PROVE  LET m == load_segment(p) IN
         /\ m \in MapParam
         /\ m.count <= m.len
         /\ m.lo = PageDown(p.p_vaddr)
         /\ m.lo + m.len = PageUp(p.p_vaddr + p.p_memsz)
<1>0. /\ p.p_vaddr \in Nat /\ p.p_memsz \in Nat /\ p.p_filesz \in Nat /\ p.p_offset \in Nat
      /\ p.p_flags \in ProtFlags
      /\ p.p_filesz <= p.p_memsz /\ p.p_offset % PageSize = p.p_vaddr % PageSize
  BY DEF Phdr, PhdrSane
<1> DEFINE e == p.p_vaddr + p.p_memsz
<1>1. PageDown(p.p_vaddr) \in Nat /\ PageDown(p.p_vaddr) <= p.p_vaddr
  BY <1>0, PageDownBound
<1>2. PageDown(p.p_offset) \in Nat /\ PageDown(p.p_offset) <= p.p_offset
  BY <1>0, PageDownBound
<1>3. e \in Nat /\ PageUp(e) \in Nat /\ e <= PageUp(e)
  BY <1>0, PageUpBound
<1>4. p.p_offset - PageDown(p.p_offset) = p.p_vaddr - PageDown(p.p_vaddr)
  <2>1. p.p_offset % PageSize \in Int /\ p.p_vaddr % PageSize \in Int
    BY <1>0, PageSizeAssumption
  <2> QED BY <1>0, <2>1 DEF PageDown
<1>5. map_prot(p.p_flags) \in ProtFlags
  BY <1>0, map_prot_Type
<1> QED
  BY <1>0, <1>1, <1>2, <1>3, <1>4, <1>5 DEF load_segment, MapParam

LEMMA CellFacts ==
  /\ Foreign \in Cell /\ Zero \in Cell /\ Garbage \in Cell /\ Unbacked \in Cell
  /\ Nat \subseteq Cell
  BY DEF Cell

LEMMA FlagFacts == 0 \in ProtFlags /\ PROT_WRITE \in ProtFlags
  BY DEF ProtFlags, PROT_WRITE

(***************************************************************************)
(* The Init predicate establishes the invariant.                           *)
(***************************************************************************)
LEMMA InitInv == Init => LoaderInv
<1> SUFFICES ASSUME Init PROVE LoaderInv
  OBVIOUS
<1>1. TypeOK
  <2>1. scan \in [min_vaddr : Nat, max_vaddr : Nat, min_off : Nat, min_filesz : Nat,
                  min_prot : ProtFlags]
    BY UsizeAssumption, FlagFacts DEF Init, ScanStart
  <2>2. param \in MapParam /\ resv \in [lo : Nat, len : Nat]
    BY FlagFacts DEF Init, NoParam, NoResv, MapParam
  <2>3. mem \in [Addr -> Cell] /\ prot \in [Addr -> ProtFlags]
    BY CellFacts, FlagFacts DEF Init
  <2>4. builder \in [dynamic : Cell \cup {NoCell}, interp : Cell \cup {NoCell},
                     relro : Nat, phdr_mmap : Nat]
    BY DEF Init
  <2>5. pc \in PcLabels /\ failed \in PcLabels \cup {"no"} /\ idx \in Nat \ {0}
    BY DEF Init, PcLabels, Ended
  <2>6. /\ job \in Job
        /\ held \in {"none", "held", "borrowed", "released", "bad_free"}
        /\ owner \in {"nobody", "ElfSegments"}
    BY DEF Init
  <2> QED
    BY <2>1, <2>2, <2>3, <2>4, <2>5, <2>6 DEF TypeOK
<1>2. Control
  BY DEF Init, Control, owned
<1>3. ScanBounds /\ SegmentsCovered /\ ParamFits
  BY DEF Init, ScanBounds, SegmentsCovered, ParamFits
<1>4. OutsideUntouched
  BY DEF Init, OutsideUntouched
<1> QED
  BY <1>1, <1>2, <1>3, <1>4 DEF LoaderInv

(***************************************************************************)
(* Giving up: whatever the outcome, an early return keeps the invariant.   *)
(***************************************************************************)
LEMMA munmap_Frame ==
  ASSUME TypeOK, munmap
  PROVE  /\ held' \in {"released", "bad_free"} /\ owner' = "nobody"
         /\ mem' \in [Addr -> Cell] /\ prot' \in [Addr -> ProtFlags]
         /\ \A a \in Addr : ~Within(a, resv.lo, resv.len) => mem'[a] = mem[a] /\ prot'[a] = prot[a]
<1>1. held' \in {"released", "bad_free"} /\ owner' = "nobody"
  BY DEF munmap
<1>2. mem' \in [Addr -> Cell]
  BY CellFacts DEF munmap, TypeOK
<1>3. prot' \in [Addr -> ProtFlags]
  BY FlagFacts DEF munmap, TypeOK
<1>4. \A a \in Addr : ~Within(a, resv.lo, resv.len) => mem'[a] = mem[a] /\ prot'[a] = prot[a]
  BY DEF munmap, TypeOK
<1> QED
  BY <1>1, <1>2, <1>3, <1>4

LEMMA ExitInv ==
  ASSUME LoaderInv, NEW o \in {"err", "panic", "cancelled"}, Exit(o)
  PROVE  LoaderInv'
<1> USE DEF LoaderInv
<1>1. /\ held' \in {"none", "held", "borrowed", "released", "bad_free"}
      /\ held' = "none" <=> held = "none"
      /\ owner' \in {"nobody", "ElfSegments"}
      /\ owned' => owned /\ held # "none"
      /\ mem' \in [Addr -> Cell] /\ prot' \in [Addr -> ProtFlags]
      /\ \A a \in Addr : ~Within(a, resv.lo, resv.len) => mem'[a] = mem[a] /\ prot'[a] = prot[a]
  <2>1. CASE owned
    <3>1. munmap
      BY <2>1 DEF Exit
    <3>2. held # "none"
      BY <2>1 DEF Control, TypeOK, PcLabels, Ended
    <3> QED BY <3>1, <3>2, munmap_Frame DEF TypeOK, owned
  <2>2. CASE ~owned
    BY <2>2 DEF Exit, TypeOK, owned
  <2> QED BY <2>1, <2>2
<1>2. TypeOK'
  BY <1>1 DEF Exit, TypeOK, PcLabels, Ended
<1>3. Control'
  BY <1>1 DEF Exit, Control
<1>4. ScanBounds' /\ SegmentsCovered' /\ ParamFits'
  BY <1>1 DEF Exit, ScanBounds, SegmentsCovered, ParamFits
<1>5. OutsideUntouched'
  BY <1>1 DEF Exit, OutsideUntouched, Within
<1> QED
  BY <1>2, <1>3, <1>4, <1>5

(* A memory fault changes nothing but the outcome. *)
LEMMA FaultInv == LoaderInv /\ Fault => LoaderInv'
<1> SUFFICES ASSUME LoaderInv, Fault PROVE LoaderInv'
  OBVIOUS
<1> USE DEF LoaderInv, Fault
<1>1. TypeOK'
  BY DEF TypeOK, PcLabels, Ended
<1>2. Control'
  BY DEF Control, owned
<1>3. ScanBounds' /\ SegmentsCovered' /\ ParamFits' /\ OutsideUntouched'
  BY DEF ScanBounds, SegmentsCovered, ParamFits, OutsideUntouched
<1> QED BY <1>1, <1>2, <1>3

(***************************************************************************)
(* Reading the headers.                                                    *)
(***************************************************************************)
LEMMA HeadersInv == LoaderInv /\ (PrepareEhdr \/ PreparePhdr) => LoaderInv'
<1> SUFFICES ASSUME LoaderInv, PrepareEhdr \/ PreparePhdr PROVE LoaderInv'
  OBVIOUS
<1> USE DEF LoaderInv, PrepareEhdr, PreparePhdr, Goto
<1>1. TypeOK'
  BY DEF TypeOK, PcLabels, Ended
<1>2. Control'
  BY DEF Control, owned
<1>3. ScanBounds'
  <2>1. idx = 1 /\ scan = ScanStart
    BY DEF Control
  <2>2. \A i \in Loads(job.file) : i \in Nat /\ i >= 1
    BY SomeLoad DEF TypeOK
  <2> QED BY <2>1, <2>2 DEF ScanBounds, ScanStart
<1>4. SegmentsCovered' /\ ParamFits' /\ OutsideUntouched'
  BY DEF SegmentsCovered, ParamFits, OutsideUntouched, Control
<1> QED BY <1>1, <1>2, <1>3, <1>4

(***************************************************************************)
(* One iteration of create_segments: the bounds now cover one more header. *)
(***************************************************************************)
LEMMA scan_phdr_Bounds ==
  ASSUME NEW s \in [min_vaddr : Nat, max_vaddr : Nat, min_off : Nat, min_filesz : Nat,
                    min_prot : ProtFlags],
         NEW p \in Phdr, PhdrSane(p),
         s.min_vaddr = UsizeMax \/ s.min_vaddr + s.min_filesz <= s.max_vaddr
  PROVE  LET t == scan_phdr(s, p) IN
         /\ t \in [min_vaddr : Nat, max_vaddr : Nat, min_off : Nat, min_filesz : Nat,
                   min_prot : ProtFlags]
         /\ t.min_vaddr <= s.min_vaddr /\ s.max_vaddr <= t.max_vaddr
         /\ p.p_type = "PT_LOAD" => /\ t.min_vaddr <= p.p_vaddr
                                    /\ p.p_vaddr + p.p_memsz <= t.max_vaddr
         /\ t.min_vaddr = UsizeMax \/ t.min_vaddr + t.min_filesz <= t.max_vaddr
<1> DEFINE e == p.p_vaddr + p.p_memsz
           m == IF p.p_vaddr < s.min_vaddr
                THEN [ s EXCEPT !.min_vaddr = p.p_vaddr, !.min_off = p.p_offset,
                                !.min_filesz = p.p_filesz, !.min_prot = p.p_flags ]
                ELSE s
           t == scan_phdr(s, p)
<1>0. /\ p.p_vaddr \in Nat /\ p.p_memsz \in Nat /\ p.p_filesz \in Nat /\ p.p_offset \in Nat
      /\ p.p_flags \in ProtFlags /\ p.p_filesz <= p.p_memsz
  BY DEF Phdr, PhdrSane
<1>1. CASE p.p_type # "PT_LOAD"
  <2>1. t = s
    BY <1>1 DEF scan_phdr
  <2> QED BY <2>1, <1>1
<1>2. CASE p.p_type = "PT_LOAD"
  <2>1. t = IF e > m.max_vaddr THEN [m EXCEPT !.max_vaddr = e] ELSE m
    BY <1>2 DEF scan_phdr
  <2>2. /\ m \in [min_vaddr : Nat, max_vaddr : Nat, min_off : Nat, min_filesz : Nat,
                  min_prot : ProtFlags]
        /\ m.max_vaddr = s.max_vaddr
        /\ m.min_vaddr <= s.min_vaddr /\ m.min_vaddr <= p.p_vaddr
        /\ \/ m.min_vaddr = p.p_vaddr /\ m.min_filesz = p.p_filesz
           \/ m.min_vaddr = s.min_vaddr /\ m.min_filesz = s.min_filesz
    <3>1. CASE p.p_vaddr < s.min_vaddr
      <4>1. m = [ min_vaddr |-> p.p_vaddr, max_vaddr |-> s.max_vaddr, min_off |-> p.p_offset,
                  min_filesz |-> p.p_filesz, min_prot |-> p.p_flags ]
        BY <3>1
      <4> HIDE DEF m
      <4> QED BY <3>1, <4>1, <1>0
    <3>2. CASE ~(p.p_vaddr < s.min_vaddr)
      <4>1. m = s
        BY <3>2
      <4> QED BY <3>2, <4>1, <1>0
    <3> QED BY <3>1, <3>2
  <2> HIDE DEF m
  <2>3. /\ t \in [min_vaddr : Nat, max_vaddr : Nat, min_off : Nat, min_filesz : Nat,
                  min_prot : ProtFlags]
        /\ t.min_vaddr = m.min_vaddr /\ t.min_filesz = m.min_filesz
        /\ t.max_vaddr >= m.max_vaddr /\ t.max_vaddr >= e
    BY <2>1, <2>2, <1>0
  <2> HIDE DEF t
  <2>4. /\ t.min_vaddr \in Nat /\ t.max_vaddr \in Nat /\ t.min_filesz \in Nat
        /\ s.min_vaddr \in Nat /\ s.max_vaddr \in Nat /\ s.min_filesz \in Nat
    BY <2>3
  <2>5. /\ t.min_vaddr <= s.min_vaddr /\ s.max_vaddr <= t.max_vaddr
        /\ t.min_vaddr <= p.p_vaddr /\ e <= t.max_vaddr
    BY <2>2, <2>3, <2>4, <1>0
  <2>6. t.min_vaddr = UsizeMax \/ t.min_vaddr + t.min_filesz <= t.max_vaddr
    BY <2>2, <2>3, <2>4, <1>0
  <2>7. QED BY <2>3, <2>5, <2>6 DEF t
<1> QED BY <1>1, <1>2

LEMMA ScanPhdrInv == LoaderInv /\ ScanPhdr => LoaderInv'
<1> SUFFICES ASSUME LoaderInv, ScanPhdr PROVE LoaderInv'
  OBVIOUS
<1> USE DEF LoaderInv, ScanPhdr
<1>0. idx \in DOMAIN phdrs
  BY SomeLoad DEF TypeOK
<1>1. ph \in Phdr /\ PhdrSane(ph)
  BY <1>0, PhdrFacts DEF TypeOK, ph
<1>2. /\ scan' \in [min_vaddr : Nat, max_vaddr : Nat, min_off : Nat, min_filesz : Nat,
                    min_prot : ProtFlags]
      /\ scan'.min_vaddr <= scan.min_vaddr /\ scan.max_vaddr <= scan'.max_vaddr
      /\ ph.p_type = "PT_LOAD" => /\ scan'.min_vaddr <= ph.p_vaddr
                                  /\ ph.p_vaddr + ph.p_memsz <= scan'.max_vaddr
      /\ scan'.min_vaddr = UsizeMax \/ scan'.min_vaddr + scan'.min_filesz <= scan'.max_vaddr
  BY <1>1, scan_phdr_Bounds DEF TypeOK, ScanBounds
<1>3. TypeOK'
  BY <1>2 DEF TypeOK
<1>4. Control'
  BY DEF Control, owned
<1>5. ScanBounds'
  <2> SUFFICES ASSUME NEW i \in Loads(job.file), i < idx + 1
               PROVE  /\ scan'.min_vaddr <= phdrs[i].p_vaddr
                      /\ phdrs[i].p_vaddr + phdrs[i].p_memsz <= scan'.max_vaddr
    BY <1>2 DEF ScanBounds, phdrs
  <2>0. job \in Job
    BY DEF TypeOK
  <2>1. i \in DOMAIN phdrs /\ phdrs[i].p_type = "PT_LOAD" /\ i \in Nat
    <3>1. i \in DOMAIN phdrs /\ phdrs[i].p_type = "PT_LOAD"
      BY DEF Loads, phdrs
    <3>2. i \in Nat
      BY <2>0, <3>1, SomeLoad
    <3> QED
      BY <3>1, <3>2
  <2>2. phdrs[i].p_vaddr \in Nat /\ phdrs[i].p_memsz \in Nat
    BY <2>1, PhdrFacts DEF TypeOK, Phdr
  <2>3. CASE i = idx
    BY <2>1, <2>3, <1>2 DEF ph
  <2>4. CASE i < idx
    <3>1. scan.min_vaddr <= phdrs[i].p_vaddr
          /\ phdrs[i].p_vaddr + phdrs[i].p_memsz <= scan.max_vaddr
      BY <2>4 DEF ScanBounds
    <3>2. /\ scan.min_vaddr \in Nat /\ scan'.min_vaddr \in Nat
          /\ scan.max_vaddr \in Nat /\ scan'.max_vaddr \in Nat
      BY <1>2 DEF TypeOK
    <3> QED BY <3>1, <3>2, <2>2, <1>2
  <2> QED BY <2>1, <2>3, <2>4 DEF TypeOK
<1>6. SegmentsCovered' /\ ParamFits' /\ OutsideUntouched'
  BY DEF SegmentsCovered, ParamFits, OutsideUntouched, Control
<1> QED BY <1>3, <1>4, <1>5, <1>6

(***************************************************************************)
(* The end of create_segments: the reservation has room for every segment. *)
(***************************************************************************)
LEMMA CreateSegmentsCovers ==
  ASSUME TypeOK, ScanBounds, pc = "scan", idx > Len(phdrs)
  PROVE  LET m == create_segments(scan) IN
         /\ m \in MapParam
         /\ m.count <= m.len
         /\ Covers(job.file, m.lo, m.len)
<1> DEFINE m == create_segments(scan)
<1>0. /\ scan.min_vaddr \in Nat /\ scan.max_vaddr \in Nat /\ scan.min_off \in Nat
      /\ scan.min_filesz \in Nat /\ scan.min_prot \in ProtFlags
  BY DEF TypeOK
<1>1. \A i \in Loads(job.file) :
        /\ phdrs[i].p_vaddr \in Nat /\ phdrs[i].p_memsz \in Nat /\ phdrs[i].p_vaddr < UsizeMax
        /\ scan.min_vaddr <= phdrs[i].p_vaddr
        /\ phdrs[i].p_vaddr + phdrs[i].p_memsz <= scan.max_vaddr
  <2> SUFFICES ASSUME NEW i \in Loads(job.file)
               PROVE  /\ phdrs[i].p_vaddr \in Nat /\ phdrs[i].p_memsz \in Nat
                      /\ phdrs[i].p_vaddr < UsizeMax
                      /\ scan.min_vaddr <= phdrs[i].p_vaddr
                      /\ phdrs[i].p_vaddr + phdrs[i].p_memsz <= scan.max_vaddr
    OBVIOUS
  <2>1. i \in DOMAIN phdrs /\ i < idx
    BY SomeLoad DEF TypeOK
  <2>2. phdrs[i].p_vaddr \in Nat /\ phdrs[i].p_memsz \in Nat /\ phdrs[i].p_vaddr < UsizeMax
    BY <2>1, PhdrFacts DEF TypeOK, Phdr, PhdrSane
  <2> QED BY <2>1, <2>2 DEF ScanBounds
<1>2. scan.min_vaddr + scan.min_filesz <= scan.max_vaddr
  <2>1. PICK i \in Loads(job.file) : TRUE
    BY SomeLoad DEF TypeOK
  <2>2. scan.min_vaddr # UsizeMax
    BY <2>1, <1>0, <1>1, UsizeAssumption
  <2> QED BY <2>2 DEF ScanBounds
<1>3. PageDown(scan.min_vaddr) \in Nat /\ PageDown(scan.min_vaddr) <= scan.min_vaddr
  BY <1>0, PageDownBound
<1>4. PageUp(scan.max_vaddr) \in Nat /\ scan.max_vaddr <= PageUp(scan.max_vaddr)
  BY <1>0, PageUpBound
<1>5. /\ m.lo = PageDown(scan.min_vaddr) /\ m.lo + m.len = PageUp(scan.max_vaddr)
      /\ m \in MapParam /\ m.count <= m.len
  <2>1. map_prot(scan.min_prot) \in ProtFlags
    BY <1>0, map_prot_Type
  <2> QED BY <1>0, <1>2, <1>3, <1>4, <2>1 DEF create_segments, MapParam
<1> HIDE DEF m
<1>6. Covers(job.file, m.lo, m.len)
  <2> SUFFICES ASSUME NEW i \in Loads(job.file)
               PROVE  /\ m.lo <= PageDown(phdrs[i].p_vaddr)
                      /\ PageUp(phdrs[i].p_vaddr + phdrs[i].p_memsz) <= m.lo + m.len
    BY DEF Covers, phdrs
  <2>1. phdrs[i].p_vaddr + phdrs[i].p_memsz \in Nat
    BY <1>1
  <2>2. PageDown(scan.min_vaddr) <= PageDown(phdrs[i].p_vaddr)
    BY <1>0, <1>1, PageDownMonotone
  <2>3. PageUp(phdrs[i].p_vaddr + phdrs[i].p_memsz) <= PageUp(scan.max_vaddr)
    BY <1>0, <1>1, <2>1, PageUpMonotone
  <2> QED BY <1>5, <2>2, <2>3
<1> QED BY <1>5, <1>6 DEF m

LEMMA CreateSegmentsInv == LoaderInv /\ CreateSegments => LoaderInv'
<1> SUFFICES ASSUME LoaderInv, CreateSegments PROVE LoaderInv'
  OBVIOUS
<1> USE DEF LoaderInv, CreateSegments, Goto
<1>1. /\ param' \in MapParam /\ param'.count <= param'.len
      /\ Covers(job.file, param'.lo, param'.len)
  BY CreateSegmentsCovers
<1>2. TypeOK'
  BY <1>1 DEF TypeOK, PcLabels, Ended
<1>3. Control'
  BY DEF Control, owned
<1>4. ScanBounds' /\ OutsideUntouched'
  BY DEF ScanBounds, OutsideUntouched
<1>5. SegmentsCovered' /\ ParamFits'
  BY <1>1 DEF SegmentsCovered, ParamFits, Control
<1> QED BY <1>2, <1>3, <1>4, <1>5

(***************************************************************************)
(* mmap_segment.  A first mapping is the reservation, a later one lies     *)
(* inside it: both change bytes of the reservation only.                   *)
(***************************************************************************)
LEMMA MappedInside ==
  ASSUME LoaderInv, pc = "mmap", NEW what \in {"held", "borrowed"}, Mapped(what)
  PROVE  /\ resv' \in [lo : Nat, len : Nat]
         /\ held' \in {"held", "borrowed", "released", "bad_free"}
         /\ resv'.lo <= param.lo /\ param.lo + param.len <= resv'.lo + resv'.len
         /\ Covers(job.file, resv'.lo, resv'.len)
         /\ \A a \in Addr : Within(a, param.lo, param.len) => Within(a, resv'.lo, resv'.len)
         /\ \A a \in Addr : ~Within(a, resv'.lo, resv'.len) => mem[a] = Foreign /\ prot[a] = 0
<1> USE DEF LoaderInv
<1>0. param.lo \in Nat /\ param.len \in Nat
  BY DEF TypeOK, MapParam
<1>1. CASE First
  <2>1. resv' = [lo |-> param.lo, len |-> param.len] /\ held' = what
    BY <1>1 DEF Mapped
  <2>2. resv = NoResv
    BY <1>1 DEF First, Control
  <2>3. \A a \in Addr : ~Within(a, resv.lo, resv.len)
    BY <2>2, BoundsAssumption DEF NoResv, Within, Addr
  <2>4. Covers(job.file, param.lo, param.len)
    BY <1>1 DEF First, SegmentsCovered
  <2> QED BY <1>0, <2>1, <2>3, <2>4 DEF OutsideUntouched
<1>2. CASE ~First
  <2>1. resv' = resv /\ held' = held /\ held # "none"
    BY <1>2 DEF Mapped, First
  <2>2. resv.lo <= param.lo /\ param.lo + param.len <= resv.lo + resv.len
    BY <2>1 DEF ParamFits
  <2>3. \A a \in Addr : Within(a, param.lo, param.len) => Within(a, resv.lo, resv.len)
    BY <1>0, <2>2, BoundsAssumption DEF Within, Addr, TypeOK
  <2> QED BY <2>1, <2>2, <2>3 DEF OutsideUntouched, SegmentsCovered, TypeOK
<1> QED BY <1>1, <1>2

LEMMA FileCellType ==
  ASSUME NEW f, NEW off \in Nat
  PROVE  FileCell(f, off) \in Cell
  BY CellFacts DEF FileCell

LEMMA MmapFdInv == LoaderInv /\ MmapFd => LoaderInv'
<1> SUFFICES ASSUME LoaderInv, MmapFd PROVE LoaderInv'
  OBVIOUS
<1>0. /\ pc = "mmap" /\ Mapped("held") /\ owner' = "ElfSegments" /\ failed' = failed
      /\ pc' = (IF owned THEN "bss" ELSE "hook")
      /\ UNCHANGED <<job, idx, scan, param, builder>>
  BY DEF MmapFd, Goto
<1>1. /\ resv' \in [lo : Nat, len : Nat]
      /\ held' \in {"held", "borrowed", "released", "bad_free"}
      /\ Covers(job.file, resv'.lo, resv'.len)
      /\ \A a \in Addr : Within(a, param.lo, param.len) => Within(a, resv'.lo, resv'.len)
      /\ \A a \in Addr : ~Within(a, resv'.lo, resv'.len) => mem[a] = Foreign /\ prot[a] = 0
  BY <1>0, MappedInside
<1>2. param.lo \in Nat /\ param.len \in Nat /\ param.off \in Nat /\ param.prot \in ProtFlags
  BY DEF LoaderInv, TypeOK, MapParam
<1>3. mem' \in [Addr -> Cell]
  <2>1. \A a \in Addr : Within(a, param.lo, param.len) =>
          FileCell(job.file, param.off + (a - param.lo)) \in Cell
    <3> SUFFICES ASSUME NEW a \in Addr, Within(a, param.lo, param.len)
                 PROVE  FileCell(job.file, param.off + (a - param.lo)) \in Cell
      OBVIOUS
    <3>1. param.off + (a - param.lo) \in Nat
      BY <1>2, BoundsAssumption DEF Within, Addr
    <3> QED BY <3>1, FileCellType
  <2> QED BY <2>1 DEF MmapFd, LoaderInv, TypeOK
<1>4. prot' \in [Addr -> ProtFlags]
  BY <1>2 DEF MmapFd, LoaderInv, TypeOK
<1>5. TypeOK'
  BY <1>0, <1>1, <1>3, <1>4 DEF LoaderInv, TypeOK, PcLabels, Ended
<1>6. Control'
  BY <1>0, <1>1 DEF LoaderInv, Control, owned, phdrs, Loads
<1>7. ScanBounds' /\ SegmentsCovered' /\ ParamFits'
  BY <1>0, <1>1 DEF ScanBounds, SegmentsCovered, ParamFits
<1>8. OutsideUntouched'
  BY <1>1 DEF MmapFd, OutsideUntouched, Within, LoaderInv, TypeOK
<1> QED BY <1>5, <1>6, <1>7, <1>8 DEF LoaderInv

LEMMA MmapAnonymousInv == LoaderInv /\ MmapAnonymous => LoaderInv'
<1> SUFFICES ASSUME LoaderInv, MmapAnonymous PROVE LoaderInv'
  OBVIOUS
<1>0. /\ pc = "mmap" /\ Mapped("held") /\ pc' = "read"
      /\ UNCHANGED <<job, failed, idx, scan, param, owner, builder>>
  BY DEF MmapAnonymous, Goto
<1>1. /\ resv' \in [lo : Nat, len : Nat]
      /\ held' \in {"held", "borrowed", "released", "bad_free"}
      /\ resv'.lo <= param.lo /\ param.lo + param.len <= resv'.lo + resv'.len
      /\ Covers(job.file, resv'.lo, resv'.len)
      /\ \A a \in Addr : Within(a, param.lo, param.len) => Within(a, resv'.lo, resv'.len)
      /\ \A a \in Addr : ~Within(a, resv'.lo, resv'.len) => mem[a] = Foreign /\ prot[a] = 0
  BY <1>0, MappedInside
<1>2. mem' \in [Addr -> Cell]
  BY CellFacts DEF MmapAnonymous, LoaderInv, TypeOK
<1>3. prot' \in [Addr -> ProtFlags]
  BY FlagFacts DEF MmapAnonymous, LoaderInv, TypeOK
<1>4. TypeOK'
  BY <1>0, <1>1, <1>2, <1>3 DEF LoaderInv, TypeOK, PcLabels, Ended
<1>5. Control'
  BY <1>0, <1>1 DEF LoaderInv, Control, owned
<1>6. ScanBounds' /\ SegmentsCovered' /\ ParamFits'
  BY <1>0, <1>1 DEF LoaderInv, ScanBounds, SegmentsCovered, ParamFits
<1>7. OutsideUntouched'
  BY <1>1 DEF MmapAnonymous, OutsideUntouched, Within, LoaderInv, TypeOK
<1> QED BY <1>4, <1>5, <1>6, <1>7 DEF LoaderInv

LEMMA MmapAllocInv == LoaderInv /\ MmapAlloc => LoaderInv'
<1> SUFFICES ASSUME LoaderInv, MmapAlloc PROVE LoaderInv'
  OBVIOUS
<1> DEFINE what == IF job.file.dylib THEN "held" ELSE "borrowed"
<1>0. /\ pc = "mmap" /\ Mapped(what) /\ pc' = "read" /\ what \in {"held", "borrowed"}
      /\ UNCHANGED <<job, failed, idx, scan, param, owner, prot, builder>>
  BY DEF MmapAlloc, Goto
<1> HIDE DEF what
<1>1. /\ resv' \in [lo : Nat, len : Nat]
      /\ held' \in {"held", "borrowed", "released", "bad_free"}
      /\ resv'.lo <= param.lo /\ param.lo + param.len <= resv'.lo + resv'.len
      /\ Covers(job.file, resv'.lo, resv'.len)
      /\ \A a \in Addr : Within(a, param.lo, param.len) => Within(a, resv'.lo, resv'.len)
      /\ \A a \in Addr : ~Within(a, resv'.lo, resv'.len) => mem[a] = Foreign /\ prot[a] = 0
  BY <1>0, MappedInside
<1>2. /\ mem' \in [Addr -> Cell]
      /\ \A a \in Addr : ~Within(a, param.lo, param.len) => mem'[a] = mem[a]
  <2>1. CASE First /\ job.file.dylib
    BY <2>1, CellFacts DEF MmapAlloc, LoaderInv, TypeOK
  <2>2. CASE ~(First /\ job.file.dylib)
    BY <2>2 DEF MmapAlloc, LoaderInv, TypeOK
  <2> QED BY <2>1, <2>2
<1>3. TypeOK'
  BY <1>0, <1>1, <1>2 DEF LoaderInv, TypeOK, PcLabels, Ended
<1>4. Control'
  BY <1>0, <1>1 DEF LoaderInv, Control, owned
<1>5. ScanBounds' /\ SegmentsCovered' /\ ParamFits'
  BY <1>0, <1>1 DEF LoaderInv, ScanBounds, SegmentsCovered, ParamFits
<1>6. OutsideUntouched'
  BY <1>0, <1>1, <1>2 DEF OutsideUntouched, Within
<1> QED BY <1>3, <1>4, <1>5, <1>6 DEF LoaderInv

(* The copy into a mapping stays inside it, and so inside the reservation. *)
LEMMA ReadSegmentInv == LoaderInv /\ ReadSegment => LoaderInv'
<1> SUFFICES ASSUME LoaderInv, ReadSegment PROVE LoaderInv'
  OBVIOUS
<1>0. /\ pc = "read" /\ pc' = "mprotect"
      /\ UNCHANGED <<job, failed, idx, scan, param, resv, held, owner, prot, builder>>
  BY DEF ReadSegment, Goto
<1>1. /\ param.lo \in Nat /\ param.len \in Nat /\ param.off \in Nat /\ param.count \in Nat
      /\ resv.lo \in Nat /\ resv.len \in Nat
  BY DEF LoaderInv, TypeOK, MapParam
<1>2. /\ param.count <= param.len
      /\ resv.lo <= param.lo /\ param.lo + param.len <= resv.lo + resv.len
  BY <1>0 DEF LoaderInv, ParamFits, Control
<1>3. mem' \in [Addr -> Cell]
  <2>1. \A a \in Addr : Within(a, param.lo, param.count) => param.off + (a - param.lo) \in Cell
    BY <1>1, CellFacts, BoundsAssumption DEF Within, Addr
  <2> QED BY <2>1 DEF ReadSegment, LoaderInv, TypeOK
<1>4. TypeOK'
  BY <1>0, <1>3 DEF LoaderInv, TypeOK, PcLabels, Ended
<1>5. Control'
  BY <1>0 DEF LoaderInv, Control, owned
<1>6. ScanBounds' /\ SegmentsCovered' /\ ParamFits'
  BY <1>0 DEF LoaderInv, ScanBounds, SegmentsCovered, ParamFits
<1>7. OutsideUntouched'
  <2>1. \A a \in Addr : Within(a, param.lo, param.count) => Within(a, resv.lo, resv.len)
    BY <1>1, <1>2, BoundsAssumption DEF Within, Addr
  <2> QED BY <1>0, <2>1 DEF ReadSegment, OutsideUntouched, LoaderInv, TypeOK, Within
<1> QED BY <1>4, <1>5, <1>6, <1>7 DEF LoaderInv

LEMMA MprotectInv == LoaderInv /\ Mprotect => LoaderInv'
<1> SUFFICES ASSUME LoaderInv, Mprotect PROVE LoaderInv'
  OBVIOUS
<1>0. /\ pc = "mprotect" /\ pc' = (IF owned THEN "bss" ELSE "hook") /\ owner' = "ElfSegments"
      /\ UNCHANGED <<job, failed, idx, scan, param, resv, held, mem, builder>>
  BY DEF Mprotect, Goto
<1>1. /\ param.lo \in Nat /\ param.len \in Nat /\ param.prot \in ProtFlags
      /\ resv.lo \in Nat /\ resv.len \in Nat
      /\ resv.lo <= param.lo /\ param.lo + param.len <= resv.lo + resv.len
  BY <1>0 DEF LoaderInv, TypeOK, MapParam, ParamFits, Control
<1>2. /\ prot' \in [Addr -> ProtFlags]
      /\ \A a \in Addr : ~Within(a, param.lo, param.len) => prot'[a] = prot[a]
  <2>1. CASE job.backend = "no_mmap"
    BY <2>1 DEF Mprotect, LoaderInv, TypeOK
  <2>2. CASE job.backend # "no_mmap"
    BY <2>2, <1>1 DEF Mprotect, LoaderInv, TypeOK
  <2> QED BY <2>1, <2>2
<1>3. TypeOK'
  BY <1>0, <1>2 DEF LoaderInv, TypeOK, PcLabels, Ended
<1>4. Control'
  BY <1>0 DEF LoaderInv, Control, owned, phdrs, Loads
<1>5. ScanBounds' /\ SegmentsCovered' /\ ParamFits'
  BY <1>0 DEF LoaderInv, ScanBounds, SegmentsCovered, ParamFits
<1>6. OutsideUntouched'
  <2>1. \A a \in Addr : Within(a, param.lo, param.len) => Within(a, resv.lo, resv.len)
    BY <1>1, BoundsAssumption DEF Within, Addr
  <2> QED BY <1>0, <1>2, <2>1 DEF OutsideUntouched, LoaderInv, Within
<1> QED BY <1>3, <1>4, <1>5, <1>6 DEF LoaderInv

(***************************************************************************)
(* The loop over the program headers.  Steps that touch no memory first.   *)
(***************************************************************************)
LEMMA QuietInv ==
  ASSUME LoaderInv,
         pc \in {"hook", "phdr"},
         \/ pc' = "hook" /\ idx' = idx + 1
         \/ pc' = "phdr" /\ idx' = idx /\ idx \in DOMAIN phdrs
         \/ pc' = "done" /\ idx' = idx,
         builder' \in [dynamic : Cell \cup {NoCell}, interp : Cell \cup {NoCell},
                       relro : Nat, phdr_mmap : Nat],
         UNCHANGED <<job, failed, scan, param, resv, held, owner, mem, prot>>
  PROVE  LoaderInv'
<1>1. TypeOK'
  BY DEF LoaderInv, TypeOK, PcLabels, Ended
<1>2. Control'
  BY DEF LoaderInv, Control, owned, phdrs
<1>3. ScanBounds' /\ SegmentsCovered' /\ ParamFits' /\ OutsideUntouched'
  BY DEF LoaderInv, ScanBounds, SegmentsCovered, ParamFits, OutsideUntouched
<1> QED BY <1>1, <1>2, <1>3 DEF LoaderInv

LEMMA ParseInv ==
  LoaderInv /\ (ExecHook \/ ParseDynamic \/ ParseInterp \/ ParseOther \/ CreateCommon) => LoaderInv'
<1> SUFFICES ASSUME LoaderInv,
                    ExecHook \/ ParseDynamic \/ ParseInterp \/ ParseOther \/ CreateCommon
             PROVE  LoaderInv'
  OBVIOUS
<1>0. /\ builder \in [dynamic : Cell \cup {NoCell}, interp : Cell \cup {NoCell},
                      relro : Nat, phdr_mmap : Nat]
      /\ idx \in Nat \ {0} /\ mem \in [Addr -> Cell]
  BY DEF LoaderInv, TypeOK
<1>1. CASE ExecHook
  <2>1. idx \in DOMAIN phdrs
    BY <1>1, SomeLoad DEF ExecHook, LoaderInv, TypeOK
  <2> QED BY <1>0, <1>1, <2>1, QuietInv DEF ExecHook, Goto
<1>2. CASE CreateCommon
  BY <1>0, <1>2, QuietInv DEF CreateCommon, CommonReady, Goto
<1>3. CASE ParseDynamic \/ ParseInterp
  <2>1. ph.p_vaddr \in Addr /\ ph.p_paddr \in Addr
    BY <1>3, PhdrFacts DEF ParseDynamic, ParseInterp, LoaderInv, TypeOK, Control, ph, PhdrSane
  <2>2. mem[ph.p_vaddr] \in Cell /\ mem[ph.p_paddr] \in Cell
    BY <1>0, <2>1
  <2>3. builder' \in [dynamic : Cell \cup {NoCell}, interp : Cell \cup {NoCell},
                      relro : Nat, phdr_mmap : Nat]
    BY <1>0, <1>3, <2>2 DEF ParseDynamic, ParseInterp
  <2> QED BY <1>3, <2>3, QuietInv DEF ParseDynamic, ParseInterp, NextPhdr, Goto
<1>4. CASE ParseOther
  <2>1. builder' \in [dynamic : Cell \cup {NoCell}, interp : Cell \cup {NoCell},
                      relro : Nat, phdr_mmap : Nat]
    BY <1>0, <1>4 DEF ParseOther
  <2> QED BY <1>4, <2>1, QuietInv DEF ParseOther, NextPhdr, Goto
<1> QED BY <1>1, <1>2, <1>3, <1>4

LEMMA LoadSegmentInv == LoaderInv /\ LoadSegment => LoaderInv'
<1> SUFFICES ASSUME LoaderInv, LoadSegment PROVE LoaderInv'
  OBVIOUS
<1>0. /\ pc = "phdr" /\ ph.p_type = "PT_LOAD"
      /\ UNCHANGED <<job, failed, scan, resv, held, owner, mem, prot, builder>>
  BY DEF LoadSegment, Goto, NextPhdr
<1>1. CASE ~needs_mapping(resv.lo, ph)
  BY <1>0, <1>1, QuietInv DEF LoadSegment, NextPhdr, Goto, LoaderInv, TypeOK
<1>2. CASE needs_mapping(resv.lo, ph)
  <2>1. param' = load_segment(ph) /\ pc' = "mmap" /\ idx' = idx
    BY <1>2 DEF LoadSegment, Goto
  <2>2. idx \in DOMAIN phdrs /\ ph \in Phdr /\ PhdrSane(ph)
    BY <1>0, PhdrFacts DEF LoaderInv, TypeOK, Control, ph
  <2>3. idx \in Loads(job.file)
    BY <1>0, <2>2 DEF Loads, ph, phdrs
  <2>4. /\ param' \in MapParam /\ param'.count <= param'.len
        /\ param'.lo = PageDown(ph.p_vaddr)
        /\ param'.lo + param'.len = PageUp(ph.p_vaddr + ph.p_memsz)
    BY <1>0, <2>1, <2>2, LoadSegmentFits
  <2>5. held # "none" /\ owned
    BY <1>0 DEF LoaderInv, Control
  <2>6. resv.lo <= param'.lo /\ param'.lo + param'.len <= resv.lo + resv.len
    BY <2>3, <2>4, <2>5 DEF LoaderInv, SegmentsCovered, Covers, ph, phdrs
  <2>7. TypeOK'
    BY <1>0, <2>1, <2>4 DEF LoaderInv, TypeOK, PcLabels, Ended
  <2>8. Control'
    BY <1>0, <2>1, <2>3, <2>5 DEF LoaderInv, Control, owned
  <2>9. ScanBounds' /\ SegmentsCovered' /\ ParamFits' /\ OutsideUntouched'
    BY <1>0, <2>1, <2>4, <2>5, <2>6 DEF LoaderInv, ScanBounds, SegmentsCovered, ParamFits, OutsideUntouched
  <2> QED BY <2>7, <2>8, <2>9 DEF LoaderInv
<1> QED BY <1>1, <1>2

(***************************************************************************)
(* Both halves of fill_bss stay inside the segment's pages.                *)
(***************************************************************************)
LEMMA BssInside ==
  ASSUME LoaderInv, pc \in {"bss", "bss_anon"}
  PROVE  LET b == fill_bss_range(ph) IN
         /\ b.zero_start \in Nat /\ b.zero_end \in Nat /\ b.max_vaddr \in Nat
         /\ resv.lo <= b.zero_start /\ b.zero_start <= b.zero_end
         /\ b.zero_end <= b.max_vaddr /\ b.max_vaddr <= resv.lo + resv.len
<1>1. idx \in Loads(job.file) /\ idx \in DOMAIN phdrs /\ held # "none"
  BY SomeLoad DEF LoaderInv, Control, TypeOK
<1>2. /\ ph.p_vaddr \in Nat /\ ph.p_memsz \in Nat /\ ph.p_filesz \in Nat
      /\ ph.p_filesz <= ph.p_memsz
  BY <1>1, PhdrFacts DEF LoaderInv, TypeOK, ph, Phdr, PhdrSane
<1>3. resv.lo <= PageDown(ph.p_vaddr) /\ PageUp(ph.p_vaddr + ph.p_memsz) <= resv.lo + resv.len
  BY <1>1 DEF LoaderInv, SegmentsCovered, Covers, ph, phdrs
<1> DEFINE zs == ph.p_vaddr + ph.p_filesz
           e  == ph.p_vaddr + ph.p_memsz
<1>4. zs \in Nat /\ e \in Nat /\ zs <= e /\ ph.p_vaddr <= zs
  BY <1>2
<1>5. PageUp(zs) \in Nat /\ zs <= PageUp(zs) /\ PageUp(e) \in Nat /\ PageUp(zs) <= PageUp(e)
  BY <1>4, PageUpBound, PageUpMonotone
<1>6. PageDown(ph.p_vaddr) \in Nat /\ PageDown(ph.p_vaddr) <= ph.p_vaddr
  BY <1>2, PageDownBound
<1>7. resv.lo \in Nat /\ resv.len \in Nat
  BY DEF LoaderInv, TypeOK
<1>8. /\ fill_bss_range(ph).zero_start = zs /\ fill_bss_range(ph).zero_end = PageUp(zs)
      /\ fill_bss_range(ph).max_vaddr = PageUp(e)
  BY DEF fill_bss_range
<1> QED BY <1>2, <1>3, <1>4, <1>5, <1>6, <1>7, <1>8

LEMMA FillBssInv == LoaderInv /\ FillBss => LoaderInv'
<1> SUFFICES ASSUME LoaderInv, FillBss PROVE LoaderInv'
  OBVIOUS
<1> DEFINE b == fill_bss_range(ph)
<1>0. /\ pc = "bss"
      /\ UNCHANGED <<job, failed, scan, param, resv, held, owner, prot, builder>>
      /\ \/ pc' = "hook" /\ idx' = idx + 1
         \/ pc' = "bss_anon" /\ idx' = idx
      /\ mem' = mem \/ mem' = [a \in Addr |-> IF a \in BssHole THEN Zero ELSE mem[a]]
  BY DEF FillBss, Goto, NextPhdr
<1>1. /\ b.zero_start \in Nat /\ b.zero_end \in Nat /\ resv.lo <= b.zero_start
      /\ b.zero_end <= resv.lo + resv.len /\ resv.lo \in Nat /\ resv.len \in Nat
  <2>1. resv.lo \in Nat /\ resv.len \in Nat
    BY DEF LoaderInv, TypeOK
  <2> QED BY <1>0, <2>1, BssInside
<1> HIDE DEF b
<1>2. \A a \in Addr : a \in BssHole => Within(a, resv.lo, resv.len)
  BY <1>1, BoundsAssumption DEF BssHole, Within, Addr, b
<1>3. /\ mem' \in [Addr -> Cell]
      /\ \A a \in Addr : ~Within(a, resv.lo, resv.len) => mem'[a] = mem[a]
  <2>1. CASE mem' = mem
    BY <2>1 DEF LoaderInv, TypeOK
  <2>2. CASE mem' = [a \in Addr |-> IF a \in BssHole THEN Zero ELSE mem[a]]
    BY <2>2, <1>2, CellFacts DEF LoaderInv, TypeOK
  <2> QED BY <1>0, <2>1, <2>2
<1>4. TypeOK'
  BY <1>0, <1>3 DEF LoaderInv, TypeOK, PcLabels, Ended
<1>5. Control'
  BY <1>0 DEF LoaderInv, Control, owned, phdrs, Loads
<1>6. ScanBounds' /\ SegmentsCovered' /\ ParamFits'
  BY <1>0 DEF LoaderInv, ScanBounds, SegmentsCovered, ParamFits
<1>7. OutsideUntouched'
  BY <1>0, <1>3 DEF OutsideUntouched, LoaderInv, Within
<1> QED BY <1>4, <1>5, <1>6, <1>7 DEF LoaderInv

LEMMA MmapBssInv == LoaderInv /\ MmapBss => LoaderInv'
<1> SUFFICES ASSUME LoaderInv, MmapBss PROVE LoaderInv'
  OBVIOUS
<1> DEFINE b == fill_bss_range(ph)
           BssPage(a) == b.zero_end <= a /\ a < b.max_vaddr
<1>0. /\ pc = "bss_anon" /\ pc' = "hook" /\ idx' = idx + 1
      /\ UNCHANGED <<job, failed, scan, param, resv, held, owner, builder>>
      /\ mem' = [a \in Addr |-> IF BssPage(a) THEN Zero ELSE mem[a]]
      /\ \/ prot' = prot
         \/ prot' = [a \in Addr |-> IF BssPage(a) THEN map_prot(ph.p_flags) ELSE prot[a]]
  BY DEF MmapBss, Goto, NextPhdr
<1>1. /\ b.zero_end \in Nat /\ b.max_vaddr \in Nat /\ resv.lo <= b.zero_end
      /\ b.max_vaddr <= resv.lo + resv.len /\ resv.lo \in Nat /\ resv.len \in Nat
  <2>1. resv.lo \in Nat /\ resv.len \in Nat
    BY DEF LoaderInv, TypeOK
  <2> QED BY <1>0, <2>1, BssInside
<1>2. \A a \in Addr : BssPage(a) => Within(a, resv.lo, resv.len)
  <2> HIDE DEF b
  <2> QED BY <1>1, BoundsAssumption DEF Within, Addr
<1>3. map_prot(ph.p_flags) \in ProtFlags
  <2>1. idx \in DOMAIN phdrs
    BY <1>0 DEF LoaderInv, Control
  <2> QED BY <2>1, PhdrFacts, map_prot_Type DEF LoaderInv, TypeOK, ph, Phdr
<1> HIDE DEF BssPage
<1>4. /\ mem' \in [Addr -> Cell]
      /\ \A a \in Addr : ~Within(a, resv.lo, resv.len) => mem'[a] = mem[a]
  BY <1>0, <1>2, CellFacts DEF LoaderInv, TypeOK
<1>5. /\ prot' \in [Addr -> ProtFlags]
      /\ \A a \in Addr : ~Within(a, resv.lo, resv.len) => prot'[a] = prot[a]
  BY <1>0, <1>2, <1>3 DEF LoaderInv, TypeOK
<1>6. TypeOK'
  BY <1>0, <1>4, <1>5 DEF LoaderInv, TypeOK, PcLabels, Ended
<1>7. Control'
  BY <1>0 DEF LoaderInv, Control, owned
<1>8. ScanBounds' /\ SegmentsCovered' /\ ParamFits'
  BY <1>0 DEF LoaderInv, ScanBounds, SegmentsCovered, ParamFits
<1>9. OutsideUntouched'
  BY <1>0, <1>4, <1>5 DEF OutsideUntouched, LoaderInv, Within
<1> QED BY <1>6, <1>7, <1>8, <1>9 DEF LoaderInv

LEMMA DropObjectInv == LoaderInv /\ DropObject => LoaderInv'
<1> SUFFICES ASSUME LoaderInv, DropObject PROVE LoaderInv'
  OBVIOUS
<1>0. /\ pc = "done" /\ pc' = "dropped"
      /\ UNCHANGED <<job, failed, idx, scan, param, resv, builder>>
  BY DEF DropObject, Goto
<1>1. /\ held' \in {"released", "bad_free"} /\ owner' = "nobody"
      /\ mem' \in [Addr -> Cell] /\ prot' \in [Addr -> ProtFlags]
      /\ \A a \in Addr : ~Within(a, resv.lo, resv.len) => mem'[a] = mem[a] /\ prot'[a] = prot[a]
  BY munmap_Frame DEF DropObject, LoaderInv
<1>2. TypeOK'
  BY <1>0, <1>1 DEF LoaderInv, TypeOK, PcLabels, Ended
<1>3. Control'
  BY <1>0, <1>1 DEF LoaderInv, Control, owned
<1>4. ScanBounds' /\ ParamFits' /\ OutsideUntouched'
  BY <1>0, <1>1 DEF LoaderInv, ScanBounds, ParamFits, OutsideUntouched, Within
<1>5. SegmentsCovered'
  BY <1>0, <1>1 DEF LoaderInv, SegmentsCovered, Control
<1> QED BY <1>2, <1>3, <1>4, <1>5 DEF LoaderInv

-----------------------------------------------------------------------------
(* Every step of a load keeps the invariant. *)
LEMMA NextInv == LoaderInv /\ [Next]_vars => LoaderInv'
<1> SUFFICES ASSUME LoaderInv, [Next]_vars PROVE LoaderInv'
  OBVIOUS
<1>1. CASE Advances
  BY <1>1, HeadersInv, ScanPhdrInv, CreateSegmentsInv, MmapFdInv, MmapAnonymousInv, MmapAllocInv,
     ReadSegmentInv, MprotectInv, LoadSegmentInv, FillBssInv, MmapBssInv, ParseInv DEF Advances
<1>2. CASE Fails
  <2>1. CASE FillBssFaults \/ ParseFaults
    BY <2>1, FaultInv DEF FillBssFaults, ParseFaults
  <2>2. CASE ~(FillBssFaults \/ ParseFaults)
    <3>1. \E o \in {"err", "panic", "cancelled"} : Exit(o)
      BY <1>2, <2>2 DEF Fails, ReadError, PrepareEhdrFails, PreparePhdrFails, MmapFails, AllocFails, ReadFails,
         DropFuture, MprotectFails, HookFails, MmapBssFails, ParseDynamicFails, ParseInterpPanics,
         CreateCommonFails, CreateCommonPanics
    <3> QED BY <3>1, ExitInv
  <2> QED BY <2>1, <2>2
<1>3. CASE DropObject
  BY <1>3, DropObjectInv
<1>4. CASE UNCHANGED vars
  <2> USE <1>4 DEF vars
  <2>1. TypeOK' /\ Control'
    BY DEF LoaderInv, TypeOK, Control, owned, phdrs, Loads
  <2>2. ScanBounds' /\ SegmentsCovered' /\ ParamFits' /\ OutsideUntouched'
    BY DEF LoaderInv, ScanBounds, SegmentsCovered, ParamFits, OutsideUntouched, phdrs
  <2> QED BY <2>1, <2>2 DEF LoaderInv
<1> QED BY <1>1, <1>2, <1>3, <1>4 DEF Next

(* The invariant of the whole load. *)
THEOREM LoaderInvariant == Spec => []LoaderInv
  BY InitInv, NextInv, PTL DEF Spec

(***************************************************************************)
(* For all files, page sizes and backends the loader's state is well typed *)
(* in every reachable state: no length it computes is negative.            *)
(***************************************************************************)
THEOREM TypeCorrect == Spec => []TypeOK
<1>1. LoaderInv => TypeOK
  BY DEF LoaderInv
<1> QED
  BY <1>1, LoaderInvariant, PTL

(***************************************************************************)
(* No step of a load, whether it succeeds, fails or is abandoned, changes  *)
(* a byte or a protection outside the one range it reserved.               *)
(***************************************************************************)
THEOREM Confinement == Spec => []OutsideUntouched
<1>1. LoaderInv => OutsideUntouched
  BY DEF LoaderInv
<1> QED
  BY <1>1, LoaderInvariant, PTL

=============================================================================
