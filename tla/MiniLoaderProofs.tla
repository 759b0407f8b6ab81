-------------------------- MODULE MiniLoaderProofs --------------------------
(***************************************************************************)
(* Proofs about module MiniLoader: that the self-relocation is right for   *)
(* whatever the kernel gives, and what the stack is at the jump, for any   *)
(* number of arguments, environment strings, entries of the vector and of  *)
(* mini-loaders that start each other.                                     *)
(***************************************************************************)
EXTENDS MiniLoader, TLAPS

(* What the running mini-loader was given, as it was laid out by a kernel  *)
(* or by the mini-loader before.                                           *)
Handed ==
  /\ given.argv \in Seq(DOMAIN Named) /\ given.argv # <<>> /\ given.env \in Seq(Nat \ {0})
  /\ given.aux \in Seq([tag : Nat, val : Nat]) /\ given.aux # <<>>
  /\ \A i \in DOMAIN given.aux : given.aux[i].tag = AT_NULL <=> i = Len(given.aux)

(* Who described the program headers: the kernel or a mini-loader. *)
Provenance ==
  /\ Given(AT_BASE) # {} \/ Given(AT_PHDR) # {}
  /\ self = 1 =>
       /\ Me.pie
       /\ \/ Given(AT_BASE) = {loaded[self].base}
          \/ /\ Given(AT_BASE) \subseteq {0} /\ Given(AT_PHDR) = {PhdrPtr(self)}
             /\ Given(AT_PHNUM) \subseteq {Len(Me.phdrs)}
  /\ self > 1 =>
       /\ Given(AT_BASE) \subseteq Nat \ {0}
       /\ \E k \in DOMAIN loaded : /\ Given(AT_PHDR) \subseteq {PhdrPtr(k)}
                                   /\ Given(AT_PHNUM) \subseteq {Len(File(k).phdrs)}

Objects ==
  /\ loaded \in Seq([file : DOMAIN Files, base : Nat])
  /\ \A k \in DOMAIN loaded : loaded[k].base = IF File(k).pie THEN Apart * k ELSE 0
  /\ self \in DOMAIN loaded /\ Me.relas # <<>>
  /\ pc \in {"interp", "set_aux", "trampoline", "running"} =>
       /\ Len(given.argv) >= 2 /\ elf > 1 /\ elf \in DOMAIN loaded /\ loaded[elf].file = Named[given.argv[2]]
  /\ pc \in {"set_aux", "trampoline", "running"} => interp = 0 \/ (interp > 1 /\ interp \in DOMAIN loaded)
  /\ pc \notin {"set_aux", "trampoline", "running"} => interp = 0

(* The stack: where the vector is, what is before it, its values.          *)
Vec(g) == SP + Len(g.argv) + Len(g.env) + 3

Framed(stk, g) ==
  /\ SP .. Vec(g) + 2 * Len(g.aux) - 1 \subseteq DOMAIN stk
  /\ stk[SP] = Len(g.argv)
  /\ \A i \in 1 .. Len(g.argv) : stk[SP + i] = g.argv[i]
  /\ stk[SP + Len(g.argv) + 1] = 0
  /\ \A i \in 1 .. Len(g.env) : stk[SP + Len(g.argv) + 1 + i] = g.env[i]
  /\ stk[SP + Len(g.argv) + Len(g.env) + 2] = 0
  /\ \A i \in 1 .. Len(g.aux) : stk[Vec(g) + 2 * (i - 1)] = g.aux[i].tag

Valued(stk, g, from) == \A i \in from .. Len(g.aux) : stk[Vec(g) + 2 * (i - 1) + 1] = g.aux[i].val

(* What is to be handed over. *)
Described(tag, val) ==
  CASE tag = AT_PHDR   -> PhdrPtr(elf)
    [] tag = AT_PHNUM  -> Len(File(elf).phdrs)
    [] tag = AT_PHENT  -> PhdrSize
    [] tag = AT_ENTRY  -> Entry(elf)
    [] tag = AT_EXECFN -> given.argv[2]
    [] tag = AT_BASE   -> Entry(Target)
    [] OTHER           -> val

Over ==
  [ argv |-> Tail(given.argv), env |-> given.env,
    aux |-> [i \in DOMAIN given.aux |->
               [tag |-> given.aux[i].tag, val |-> Described(given.aux[i].tag, given.aux[i].val)]] ]

Early == {"dynamic", "env", "auxv", "base", "relocate", "load", "interp"}

OnStack ==
  /\ sp = SP
  /\ pc \in Early => Framed(stack, given) /\ Valued(stack, given, 1)
  /\ pc = "set_aux" =>
       /\ Framed(stack, given) /\ Valued(stack, given, reg.at)
       /\ \A i \in 1 .. reg.at - 1 :
            stack[Vec(given) + 2 * (i - 1) + 1] = Described(given.aux[i].tag, given.aux[i].val)
  /\ pc \in {"trampoline", "running"} => Framed(stack, Over) /\ Valued(stack, Over, 1)

(* What the scan of the vector has noted for a tag, and at its end.        *)
Noted(v, tag, n) ==
  \/ v = 0 /\ \A i \in 1 .. n - 1 : given.aux[i].tag # tag
  \/ \E i \in 1 .. n - 1 : given.aux[i].tag = tag /\ v = given.aux[i].val

Learned(v, tag) == (v = 0 /\ Given(tag) = {}) \/ v \in Given(tag)

Explained == self > 1 /\ (Given(AT_BASE) # {} \/ Given(AT_PHDR) # {PhdrPtr(self)})

Counts == {<<>>, <<Len(Me.relas)>>}

Regs == [ at : Nat \ {0}, rela : Seq(Nat), rela_count : Seq(Nat), base : Int, ph : Nat, phnum : Nat,
          env_count : Nat ]

Registers ==
  /\ reg \in Regs
  /\ pc = "dynamic" =>
       /\ reg.rela_count \in Counts /\ reg.base = 0 /\ reg.ph = 0 /\ reg.phnum = 0 /\ reg.env_count = 0
       /\ reg.at <= Len(Me.dynamic) /\ \A i \in 1 .. reg.at - 1 : Me.dynamic[i].tag # "NULL"
  /\ pc = "env" => /\ reg.at = 1 /\ reg.base = 0 /\ reg.ph = 0 /\ reg.phnum = 0
                   /\ reg.env_count <= Len(given.env)
  /\ pc \in {"auxv", "base", "relocate", "load", "interp", "set_aux"} => reg.env_count = Len(given.env)
  /\ pc \in {"auxv", "set_aux"} => reg.at <= Len(given.aux)
  /\ pc \in {"env", "auxv", "base", "relocate"} => reg.rela_count = <<Len(Me.relas)>>
  /\ pc = "auxv" => Noted(reg.base, AT_BASE, reg.at) /\ Noted(reg.ph, AT_PHDR, reg.at)
                    /\ Noted(reg.phnum, AT_PHNUM, reg.at)
  /\ pc = "base" => reg.base = 0 /\ Learned(0, AT_BASE) /\ Learned(reg.ph, AT_PHDR) /\ Learned(reg.phnum, AT_PHNUM)
  /\ pc = "relocate" => TableFound \/ Explained

Done(n) == \A i \in DOMAIN Me.relas : i <= n => own[Me.relas[i].off] = loaded[self].base + Me.relas[i].addend

Relocated ==
  /\ DOMAIN own = {Me.relas[i].off : i \in DOMAIN Me.relas}
  /\ pc = "relocate" => Done(reg.at - 1)
  /\ pc \in {"load", "interp", "set_aux", "trampoline"} => Done(Len(Me.relas))
  /\ pc = "wild" => Explained

MiniInv == Handed /\ Objects /\ Provenance /\ OnStack /\ Registers /\ Relocated

-----------------------------------------------------------------------------
LEMMA SeqTyped ==
  ASSUME NEW T, NEW s \in Seq(T)
  PROVE  Len(s) \in Nat /\ DOMAIN s = 1 .. Len(s) /\ \A i \in 1 .. Len(s) : s[i] \in T
OBVIOUS

(* A file, as MiniLoaderAssumption has it. *)
LEMMA FileTyped ==
  ASSUME NEW f \in DOMAIN Files
  PROVE  /\ Files[f].entry \in Nat \ {0} /\ Files[f].phoff \in 0 .. Apart - 1
         /\ Files[f].pie \in BOOLEAN /\ Files[f].interp \in DOMAIN Files \cup {NoFile}
         /\ Len(Files[f].phdrs) \in Nat /\ DOMAIN Files[f].phdrs = 1 .. Len(Files[f].phdrs)
         /\ \A i \in DOMAIN Files[f].phdrs : Files[f].phdrs[i].p_vaddr \in Nat
         /\ \A i, j \in DOMAIN Files[f].phdrs :
              Files[f].phdrs[i].p_type = "DYNAMIC" /\ Files[f].phdrs[j].p_type = "DYNAMIC" =>
                Files[f].phdrs[i].p_vaddr = Files[f].phdrs[j].p_vaddr
         /\ Len(Files[f].dynamic) \in Nat /\ DOMAIN Files[f].dynamic = 1 .. Len(Files[f].dynamic)
         /\ \A i \in DOMAIN Files[f].dynamic : Files[f].dynamic[i].val \in Nat
         /\ Len(Files[f].relas) \in Nat /\ DOMAIN Files[f].relas = 1 .. Len(Files[f].relas)
         /\ \A i \in DOMAIN Files[f].relas : Files[f].relas[i].addend \in Nat
<1> DEFINE F == Files[f]
           P == [p_type : STRING, p_vaddr : Nat]
           D == [tag : STRING, val : Nat]
           R == [off : Nat, addend : Nat]
<1>1. FileMade(F)
  BY MiniLoaderAssumption
<1>2. F.phdrs \in Seq(P) /\ F.dynamic \in Seq(D) /\ F.relas \in Seq(R)
  BY <1>1 DEF FileMade
<1>3. /\ F.entry \in Nat \ {0} /\ F.phoff \in 0 .. Apart - 1 /\ F.pie \in BOOLEAN
      /\ F.interp \in DOMAIN Files \cup {NoFile}
      /\ \A i, j \in DOMAIN F.phdrs :
           F.phdrs[i].p_type = "DYNAMIC" /\ F.phdrs[j].p_type = "DYNAMIC" => F.phdrs[i].p_vaddr = F.phdrs[j].p_vaddr
  BY <1>1 DEF FileMade
<1>4. /\ \A r \in P : r.p_vaddr \in Nat
      /\ \A r \in D : r.val \in Nat
      /\ \A r \in R : r.addend \in Nat
  OBVIOUS
<1> HIDE DEF P, D, R
<1>5. /\ Len(F.phdrs) \in Nat /\ DOMAIN F.phdrs = 1 .. Len(F.phdrs)
      /\ \A i \in 1 .. Len(F.phdrs) : F.phdrs[i] \in P
  BY <1>2, SeqTyped
<1>6. /\ Len(F.dynamic) \in Nat /\ DOMAIN F.dynamic = 1 .. Len(F.dynamic)
      /\ \A i \in 1 .. Len(F.dynamic) : F.dynamic[i] \in D
  BY <1>2, SeqTyped
<1>7. /\ Len(F.relas) \in Nat /\ DOMAIN F.relas = 1 .. Len(F.relas)
      /\ \A i \in 1 .. Len(F.relas) : F.relas[i] \in R
  BY <1>2, SeqTyped
<1> HIDE DEF F
<1>8. /\ F.entry \in Nat \ {0} /\ F.phoff \in 0 .. Apart - 1
      /\ F.pie \in BOOLEAN /\ F.interp \in DOMAIN Files \cup {NoFile}
      /\ Len(F.phdrs) \in Nat /\ DOMAIN F.phdrs = 1 .. Len(F.phdrs)
      /\ \A i \in DOMAIN F.phdrs : F.phdrs[i].p_vaddr \in Nat
      /\ \A i, j \in DOMAIN F.phdrs :
           F.phdrs[i].p_type = "DYNAMIC" /\ F.phdrs[j].p_type = "DYNAMIC" => F.phdrs[i].p_vaddr = F.phdrs[j].p_vaddr
      /\ Len(F.dynamic) \in Nat /\ DOMAIN F.dynamic = 1 .. Len(F.dynamic)
      /\ \A i \in DOMAIN F.dynamic : F.dynamic[i].val \in Nat
      /\ Len(F.relas) \in Nat /\ DOMAIN F.relas = 1 .. Len(F.relas)
      /\ \A i \in DOMAIN F.relas : F.relas[i].addend \in Nat
  BY <1>3, <1>4, <1>5, <1>6, <1>7
<1> QED
  BY <1>8 DEF F

(* What was given, as Handed has it. *)
LEMMA GivenTyped ==
  ASSUME Handed
  PROVE  /\ Len(given.argv) \in Nat /\ Len(given.argv) >= 1
         /\ DOMAIN given.argv = 1 .. Len(given.argv)
         /\ \A i \in 1 .. Len(given.argv) : given.argv[i] \in DOMAIN Named /\ given.argv[i] \in Nat
         /\ Len(given.env) \in Nat /\ DOMAIN given.env = 1 .. Len(given.env)
         /\ \A i \in 1 .. Len(given.env) : given.env[i] \in Nat \ {0}
         /\ Len(given.aux) \in Nat /\ Len(given.aux) >= 1
         /\ DOMAIN given.aux = 1 .. Len(given.aux)
         /\ \A i \in 1 .. Len(given.aux) : given.aux[i].tag \in Nat /\ given.aux[i].val \in Nat
         /\ \A i \in 1 .. Len(given.aux) : given.aux[i].tag = AT_NULL <=> i = Len(given.aux)
<1> DEFINE X == [tag : Nat, val : Nat]
<1>1. /\ given.argv \in Seq(DOMAIN Named) /\ given.argv # <<>> /\ given.env \in Seq(Nat \ {0})
      /\ given.aux \in Seq(X) /\ given.aux # <<>>
  BY DEF Handed
<1>2. \A r \in X : r.tag \in Nat /\ r.val \in Nat
  OBVIOUS
<1> HIDE DEF X
<1>3. Len(given.argv) \in Nat /\ Len(given.argv) >= 1 /\ Len(given.aux) \in Nat /\ Len(given.aux) >= 1
  BY <1>1
<1>4. DOMAIN given.argv = 1 .. Len(given.argv) /\ \A i \in 1 .. Len(given.argv) : given.argv[i] \in DOMAIN Named
  BY <1>1, SeqTyped
<1>5. /\ Len(given.env) \in Nat /\ DOMAIN given.env = 1 .. Len(given.env)
      /\ \A i \in 1 .. Len(given.env) : given.env[i] \in Nat \ {0}
  BY <1>1, SeqTyped
<1>6. DOMAIN given.aux = 1 .. Len(given.aux) /\ \A i \in 1 .. Len(given.aux) : given.aux[i] \in X
  BY <1>1, SeqTyped
<1>7. \A i \in 1 .. Len(given.aux) : given.aux[i].tag = AT_NULL <=> i = Len(given.aux)
  BY <1>6 DEF Handed
<1>8. \A i \in 1 .. Len(given.argv) : given.argv[i] \in Nat
  BY <1>4, MiniLoaderAssumption
<1> QED
  BY <1>2, <1>3, <1>4, <1>5, <1>6, <1>7, <1>8

LEMMA ObjectTyped ==
  ASSUME Objects
  PROVE  /\ Len(loaded) \in Nat /\ DOMAIN loaded = 1 .. Len(loaded)
         /\ \A k \in DOMAIN loaded : loaded[k].file \in DOMAIN Files /\ loaded[k].base \in Nat
         /\ self \in Nat \ {0}
<1> DEFINE O == [file : DOMAIN Files, base : Nat]
<1>1. loaded \in Seq(O)
  BY DEF Objects
<1>2. \A r \in O : r.file \in DOMAIN Files /\ r.base \in Nat
  OBVIOUS
<1> HIDE DEF O
<1>3. Len(loaded) \in Nat /\ DOMAIN loaded = 1 .. Len(loaded) /\ \A k \in 1 .. Len(loaded) : loaded[k] \in O
  BY <1>1, SeqTyped
<1> QED
  BY <1>2, <1>3 DEF Objects

LEMMA FarApart ==
  ASSUME NEW A \in Nat \ {0}, NEW k \in Nat, NEW l \in Nat, NEW p \in 0 .. A - 1, NEW q \in 0 .. A - 1,
         A * k + p = A * l + q
  PROVE  k = l
<1>1. ASSUME NEW i \in Nat, NEW j \in Nat, i < j PROVE A * i + A <= A * j
  <2>1. PICK d \in Nat : j = i + 1 + d
    <3>1. j - i - 1 \in Nat /\ j = i + 1 + (j - i - 1)
      BY <1>1
    <3> QED
      BY <3>1
  <2>2. A * j = A * i + A + A * d
    BY <2>1
  <2>3. A * d \in Nat /\ A * i \in Nat
    OBVIOUS
  <2> QED
    BY <2>2, <2>3
<1>2. A * k \in Nat /\ A * l \in Nat
  OBVIOUS
<1>3. ~(k < l) /\ ~(l < k)
  BY <1>1, <1>2
<1> QED
  BY <1>3

(* Two objects with their headers at one address have the same headers.    *)
LEMMA PhdrsAgree ==
  ASSUME Objects, NEW k \in DOMAIN loaded, NEW l \in DOMAIN loaded, PhdrPtr(k) = PhdrPtr(l)
  PROVE  File(k).phdrs = File(l).phdrs
<1>1. /\ loaded[k].file \in DOMAIN Files /\ loaded[l].file \in DOMAIN Files
      /\ k \in Nat \ {0} /\ l \in Nat \ {0} /\ Apart \in Nat \ {0}
  BY ObjectTyped, MiniLoaderAssumption
<1>2. /\ File(k).phoff \in 0 .. Apart - 1 /\ File(l).phoff \in 0 .. Apart - 1
      /\ File(k).pie \in BOOLEAN /\ File(l).pie \in BOOLEAN
  BY <1>1, FileTyped DEF File
<1>3. /\ loaded[k].base = IF File(k).pie THEN Apart * k ELSE 0
      /\ loaded[l].base = IF File(l).pie THEN Apart * l ELSE 0
  BY DEF Objects
<1>4. loaded[k].base + File(k).phoff = loaded[l].base + File(l).phoff
  BY DEF PhdrPtr
<1> DEFINE p == File(k).phoff
           q == File(l).phoff
<1>5. CASE File(k).pie /\ File(l).pie
  <2>1. Apart * k + p = Apart * l + q
    BY <1>3, <1>4, <1>5
  <2>2. k = l
    BY <1>1, <1>2, <2>1, FarApart
  <2> QED
    BY <2>2
<1>6. CASE File(k).pie /\ ~File(l).pie
  <2>1. Apart * k + p = Apart * 0 + q
    BY <1>1, <1>2, <1>3, <1>4, <1>6
  <2>2. k = 0
    BY <1>1, <1>2, <2>1, FarApart
  <2> QED
    BY <1>1, <2>2
<1>7. CASE ~File(k).pie /\ File(l).pie
  <2>1. Apart * l + q = Apart * 0 + p
    BY <1>1, <1>2, <1>3, <1>4, <1>7
  <2>2. l = 0
    BY <1>1, <1>2, <2>1, FarApart
  <2> QED
    BY <1>1, <2>2
<1>8. CASE ~File(k).pie /\ ~File(l).pie
  <2>1. p = q
    BY <1>2, <1>3, <1>4, <1>8
  <2> QED
    BY <1>1, <1>8, <2>1, MiniLoaderAssumption DEF File
<1> QED
  BY <1>2, <1>5, <1>6, <1>7, <1>8

(* The headers found at an address are those of any object that has them   *)
(* there.                                                                  *)
LEMMA HeadersFound ==
  ASSUME Objects, NEW k \in DOMAIN loaded
  PROVE  PhdrsAt(PhdrPtr(k)) = File(k).phdrs
<1> DEFINE here == {l \in DOMAIN loaded : PhdrPtr(l) = PhdrPtr(k)}
           c == CHOOSE l \in here : TRUE
<1>1. here # {} /\ \A l \in here : l \in DOMAIN loaded /\ PhdrPtr(l) = PhdrPtr(k)
  OBVIOUS
<1>2. PhdrsAt(PhdrPtr(k)) = IF here = {} THEN <<>> ELSE File(c).phdrs
  BY DEF PhdrsAt
<1> HIDE DEF here
<1>3. c \in here
  BY <1>1
<1> HIDE DEF c
<1>4. File(c).phdrs = File(k).phdrs
  BY <1>1, <1>3, PhdrsAgree
<1> QED
  BY <1>1, <1>2, <1>4

-----------------------------------------------------------------------------
(* What a step leaves alone when nothing is loaded and nobody else runs.   *)
LEMMA SameWorld ==
  ASSUME given' = given, self' = self, loaded' = loaded
  PROVE  /\ Handed => Handed'
         /\ Provenance => Provenance'
         /\ Explained => Explained'
         /\ \A tag : Given(tag)' = Given(tag)
         /\ \A k : File(k)' = File(k) /\ PhdrPtr(k)' = PhdrPtr(k) /\ Entry(k)' = Entry(k)
         /\ Me' = Me
<1>1. ASSUME NEW tag PROVE Given(tag)' = Given(tag)
  BY DEF Given
<1>2. ASSUME NEW k PROVE File(k)' = File(k) /\ PhdrPtr(k)' = PhdrPtr(k) /\ Entry(k)' = Entry(k)
  BY DEF File, PhdrPtr, Entry
<1>3. Me' = Me
  BY DEF Me, File
<1>4. Handed => Handed'
  BY DEF Handed
<1>5. Given(AT_BASE)' = Given(AT_BASE) /\ Given(AT_PHDR)' = Given(AT_PHDR) /\ Given(AT_PHNUM)' = Given(AT_PHNUM)
  BY <1>1
<1>6. Provenance => Provenance'
  BY <1>2, <1>3, <1>5 DEF Provenance
<1>7. Explained => Explained'
  BY <1>2, <1>5 DEF Explained
<1> QED
  BY <1>1, <1>2, <1>3, <1>4, <1>6, <1>7

LEMMA Sums ==
  ASSUME NEW x \in Nat, NEW y \in Nat, NEW z \in Nat
  PROVE  x + y + z + 3 \in Nat /\ x + y + 2 + z + 1 = x + y + z + 3 /\ x + y + 2 + z = x + y + z + 2
OBVIOUS

(* What rust_main finds on the stack it was given. *)
LEMMA StackRead ==
  ASSUME Handed, sp = SP, Framed(stack, given)
  PROVE  /\ argc = Len(given.argv) /\ argv = SP + 1 /\ env = SP + Len(given.argv) + 2
         /\ Len(given.argv) >= 2 => stack[argv + 1] = given.argv[2]
         /\ reg.env_count = Len(given.env) =>
              /\ auxv = Vec(given)
              /\ \A i \in 1 .. Len(given.aux) : Tag(i) = given.aux[i].tag
         /\ reg.env_count \in 0 .. Len(given.env) =>
              (stack[env + reg.env_count] = 0 <=> reg.env_count = Len(given.env))
<1> DEFINE a == Len(given.argv)
           e == Len(given.env)
<1>1. /\ Len(given.argv) \in Nat /\ Len(given.argv) >= 1 /\ Len(given.env) \in Nat /\ Len(given.aux) \in Nat
      /\ \A i \in 1 .. Len(given.env) : given.env[i] \in Nat \ {0}
      /\ SP \in Nat
  BY GivenTyped, MiniLoaderAssumption
<1>a. a \in Nat /\ e \in Nat /\ SP \in Nat
  BY <1>1
<1>2. argc = Len(given.argv) /\ argv = SP + 1 /\ env = SP + Len(given.argv) + 2
  BY <1>1 DEF argc, argv, env, Framed
<1>3. ASSUME Len(given.argv) >= 2 PROVE stack[argv + 1] = given.argv[2]
  BY <1>1, <1>2, <1>3 DEF Framed
<1>4. ASSUME reg.env_count = Len(given.env)
      PROVE  auxv = Vec(given) /\ \A i \in 1 .. Len(given.aux) : Tag(i) = given.aux[i].tag
  <2>1. auxv = SP + a + 2 + e + 1
    BY <1>2, <1>4 DEF auxv
  <2>2. Vec(given) = SP + a + e + 3
    BY DEF Vec
  <2>3. SP + a + 2 + e + 1 = SP + a + e + 3
    BY <1>a, Sums
  <2>4. auxv = Vec(given)
    BY <2>1, <2>2, <2>3
  <2> QED
    BY <2>4 DEF Tag, Framed
<1>5. ASSUME reg.env_count \in 0 .. Len(given.env)
      PROVE  stack[env + reg.env_count] = 0 <=> reg.env_count = Len(given.env)
  <2> DEFINE c == reg.env_count
  <2>a. env + c = SP + a + 2 + c
    BY <1>2
  <2>1. CASE c = e
    <3>1. SP + a + 2 + e = SP + a + e + 2
      BY <1>a, Sums
    <3>2. stack[SP + a + e + 2] = 0
      BY DEF Framed
    <3> QED
      BY <2>1, <2>a, <3>1, <3>2
  <2>2. CASE c < e
    <3>1. reg.env_count + 1 \in 1 .. Len(given.env)
      BY <1>1, <1>5, <2>2
    <3>2. stack[SP + Len(given.argv) + 1 + (reg.env_count + 1)] = given.env[reg.env_count + 1]
      BY <3>1 DEF Framed
    <3>3. SP + a + 2 + c = SP + a + 1 + (c + 1)
      BY <1>1, <1>5
    <3> QED
      BY <1>1, <2>2, <2>a, <3>1, <3>2, <3>3
  <2> QED
    BY <1>1, <1>5, <2>1, <2>2
<1> QED
  BY <1>2, <1>3, <1>4, <1>5

(* The scans read entries of the vector as they were given. *)
LEMMA VectorRead ==
  ASSUME Handed, sp = SP, Framed(stack, given), reg.env_count = Len(given.env),
         NEW from \in Nat \ {0}, Valued(stack, given, from), NEW i \in from .. Len(given.aux)
  PROVE  Tag(i) = given.aux[i].tag /\ Val(i) = given.aux[i].val
<1>1. Len(given.aux) \in Nat /\ auxv = Vec(given) /\ i \in 1 .. Len(given.aux)
  BY GivenTyped, StackRead
<1>2. Tag(i) = given.aux[i].tag
  BY <1>1, StackRead
<1>3. Val(i) = given.aux[i].val
  BY <1>1 DEF Val, Valued
<1> QED
  BY <1>2, <1>3

-----------------------------------------------------------------------------
(* A step of the first five loops, which change nothing but registers. *)
Setup == {"dynamic", "env", "auxv", "base", "relocate", "load"}

LEMMA SetupKeeps ==
  ASSUME MiniInv, pc \in Setup, pc' \in Setup, UNCHANGED <<stack, sp, given, self, loaded, elf, interp>>
  PROVE  Handed' /\ Provenance' /\ Objects' /\ OnStack'
<1>1. Handed' /\ Provenance'
  BY SameWorld DEF MiniInv
<1>2. Objects'
  BY SameWorld DEF MiniInv, Objects, Setup
<1>3. OnStack'
  BY DEF MiniInv, OnStack, Early, Setup
<1> QED
  BY <1>1, <1>2, <1>3

LEMMA StepDynamic ==
  ASSUME MiniInv, ScanDynamic \/ DynamicRead
  PROVE  MiniInv'
<1>1. /\ pc = "dynamic" /\ UNCHANGED <<stack, sp, given, self, loaded, own, elf, interp>>
      /\ pc' \in Setup /\ pc \in Setup
  BY DEF ScanDynamic, DynamicRead, Goto, Setup
<1>2. Handed' /\ Provenance' /\ Objects' /\ OnStack'
  BY <1>1, SetupKeeps
<1>3. Me' = Me
  BY <1>1, SameWorld
<1>4. /\ loaded[self].file \in DOMAIN Files /\ Me = Files[loaded[self].file] /\ Me.relas # <<>>
  BY ObjectTyped DEF MiniInv, Objects, Me, File
<1>5. /\ Len(Me.dynamic) \in Nat /\ DOMAIN Me.dynamic = 1 .. Len(Me.dynamic)
      /\ \A i \in DOMAIN Me.dynamic : Me.dynamic[i].val \in Nat
      /\ Len(Me.relas) \in Nat
  BY <1>4, FileTyped
<1>6. /\ \E i \in DOMAIN Me.dynamic : Me.dynamic[i].tag = "NULL"
      /\ \A i \in DOMAIN Me.dynamic : Me.dynamic[i].tag = "RELACOUNT" => Me.dynamic[i].val = Len(Me.relas)
  BY <1>4, MiniLoaderAssumption DEF FileMade
<1>7. /\ reg \in Regs
      /\ reg.rela_count \in Counts /\ reg.base = 0 /\ reg.ph = 0 /\ reg.phnum = 0 /\ reg.env_count = 0
      /\ reg.at <= Len(Me.dynamic) /\ \A i \in 1 .. reg.at - 1 : Me.dynamic[i].tag # "NULL"
  BY <1>1 DEF MiniInv, Registers
<1>8. reg.at \in DOMAIN Me.dynamic
  BY <1>5, <1>7 DEF Regs
<1>9. Counts' = Counts
  BY <1>3 DEF Counts
<1>10. Registers'
  <2>1. CASE ScanDynamic
    <3> DEFINE d == Me.dynamic[reg.at]
    <3>1. /\ d.tag # "NULL" /\ pc' = "dynamic"
          /\ reg' = [reg EXCEPT !.at = @ + 1,
                               !.rela = IF d.tag = "RELA" THEN <<d.val>> ELSE @,
                               !.rela_count = IF d.tag = "RELACOUNT" THEN <<d.val>> ELSE @]
      BY <2>1 DEF ScanDynamic
    <3>2. d.val \in Nat /\ (d.tag = "RELACOUNT" => d.val = Len(Me.relas))
      BY <1>5, <1>6, <1>8
    <3>3. \A i \in 1 .. reg.at : Me.dynamic[i].tag # "NULL"
      BY <1>7, <3>1 DEF Regs
    <3>4. reg.at + 1 <= Len(Me.dynamic)
      BY <1>5, <1>6, <1>7, <3>3 DEF Regs
    <3> HIDE DEF d
    <3>5. /\ reg'.at = reg.at + 1 /\ reg'.base = 0 /\ reg'.ph = 0 /\ reg'.phnum = 0 /\ reg'.env_count = 0
          /\ reg'.rela_count = (IF d.tag = "RELACOUNT" THEN <<d.val>> ELSE reg.rela_count)
      BY <1>7, <3>1 DEF Regs
    <3>6. reg' \in Regs
      <4> DEFINE x == IF d.tag = "RELA" THEN <<d.val>> ELSE reg.rela
                 y == IF d.tag = "RELACOUNT" THEN <<d.val>> ELSE reg.rela_count
      <4>1. x \in Seq(Nat) /\ y \in Seq(Nat) /\ reg.at + 1 \in Nat \ {0}
        BY <1>7, <3>2 DEF Regs
      <4>2. reg' = [reg EXCEPT !.at = reg.at + 1, !.rela = x, !.rela_count = y]
        BY <1>7, <3>1 DEF Regs
      <4> HIDE DEF x, y
      <4> QED
        BY <1>7, <4>1, <4>2 DEF Regs
    <3>7. reg'.rela_count \in Counts
      BY <1>7, <3>2, <3>5 DEF Counts
    <3>8. reg'.at <= Len(Me.dynamic) /\ \A i \in 1 .. reg'.at - 1 : Me.dynamic[i].tag # "NULL"
      BY <1>7, <3>3, <3>4, <3>5 DEF Regs
    <3> QED
      BY <1>3, <1>9, <3>1, <3>5, <3>6, <3>7, <3>8 DEF Registers
  <2>2. CASE DynamicRead
    <3>1. reg.rela_count # <<>> /\ pc' = "env" /\ reg' = [reg EXCEPT !.at = 1]
      BY <2>2 DEF DynamicRead, Goto
    <3>2. reg.rela_count = <<Len(Me.relas)>>
      BY <1>7, <3>1 DEF Counts
    <3>3. /\ reg'.at = 1 /\ reg'.base = 0 /\ reg'.ph = 0 /\ reg'.phnum = 0 /\ reg'.env_count = 0
          /\ reg'.rela_count = <<Len(Me.relas)>>
          /\ reg' \in Regs
      BY <1>7, <3>1, <3>2 DEF Regs
    <3>4. given' = given /\ 0 <= Len(given.env)
      BY <1>1, GivenTyped DEF MiniInv
    <3> QED
      BY <1>3, <3>1, <3>3, <3>4 DEF Registers
  <2> QED
    BY <2>1, <2>2
<1>11. Relocated'
  <2>1. pc' \in {"dynamic", "env"}
    BY DEF ScanDynamic, DynamicRead, Goto
  <2> QED
    BY <1>1, <1>3, <2>1 DEF MiniInv, Relocated
<1> QED
  BY <1>2, <1>10, <1>11 DEF MiniInv

LEMMA StepEnv ==
  ASSUME MiniInv, CountEnv \/ EnvCounted
  PROVE  MiniInv'
<1>1. /\ pc = "env" /\ UNCHANGED <<stack, sp, given, self, loaded, own, elf, interp>>
      /\ pc' \in {"env", "auxv"} /\ pc' \in Setup /\ pc \in Setup
  BY DEF CountEnv, EnvCounted, Goto, Setup
<1>2. Handed' /\ Provenance' /\ Objects' /\ OnStack'
  BY <1>1, SetupKeeps
<1>3. Me' = Me
  BY <1>1, SameWorld
<1>4. /\ reg \in Regs /\ reg.at = 1 /\ reg.base = 0 /\ reg.ph = 0 /\ reg.phnum = 0
      /\ reg.env_count <= Len(given.env) /\ reg.rela_count = <<Len(Me.relas)>>
  BY <1>1 DEF MiniInv, Registers
<1>5. Handed /\ sp = SP /\ Framed(stack, given)
  BY <1>1 DEF MiniInv, OnStack, Early
<1>6. Len(given.env) \in Nat /\ Len(given.aux) \in Nat /\ Len(given.aux) >= 1
  BY <1>5, GivenTyped
<1>7. stack[env + reg.env_count] = 0 <=> reg.env_count = Len(given.env)
  <2>1. reg.env_count \in 0 .. Len(given.env)
    BY <1>4, <1>6 DEF Regs
  <2> QED
    BY <1>5, <2>1, StackRead
<1>8. Registers'
  <2>1. CASE CountEnv
    <3>1. /\ pc' = "env" /\ reg' = [reg EXCEPT !.env_count = @ + 1] /\ reg.env_count # Len(given.env)
      BY <1>7, <2>1 DEF CountEnv
    <3>2. /\ reg' \in Regs /\ reg'.at = 1 /\ reg'.base = 0 /\ reg'.ph = 0 /\ reg'.phnum = 0
          /\ reg'.env_count <= Len(given.env) /\ reg'.rela_count = <<Len(Me.relas)>>
      <4> DEFINE n == reg.env_count + 1
      <4>1. n \in Nat /\ n <= Len(given.env)
        BY <1>4, <1>6, <3>1 DEF Regs
      <4>2. reg' = [reg EXCEPT !.env_count = n]
        BY <3>1
      <4> HIDE DEF n
      <4>3. reg' \in Regs /\ reg'.env_count = n
        BY <1>4, <4>1, <4>2 DEF Regs
      <4>4. /\ reg'.at = reg.at /\ reg'.base = reg.base /\ reg'.ph = reg.ph /\ reg'.phnum = reg.phnum
            /\ reg'.rela_count = reg.rela_count
        BY <1>4, <4>2 DEF Regs
      <4> QED
        BY <1>4, <4>1, <4>3, <4>4
    <3> QED
      BY <1>1, <1>3, <3>1, <3>2 DEF Registers
  <2>2. CASE EnvCounted
    <3>1. pc' = "auxv" /\ reg' = [reg EXCEPT !.at = 1] /\ reg.env_count = Len(given.env)
      BY <1>7, <2>2 DEF EnvCounted, Goto
    <3>2. /\ reg' \in Regs /\ reg'.at = 1 /\ reg'.base = 0 /\ reg'.ph = 0 /\ reg'.phnum = 0
          /\ reg'.env_count = Len(given.env) /\ reg'.rela_count = <<Len(Me.relas)>>
      BY <1>4, <3>1 DEF Regs
    <3>3. Noted(reg.base, AT_BASE, reg.at)' /\ Noted(reg.ph, AT_PHDR, reg.at)' /\ Noted(reg.phnum, AT_PHNUM, reg.at)'
      BY <3>2 DEF Noted
    <3> QED
      BY <1>1, <1>3, <1>6, <3>1, <3>2, <3>3 DEF Registers
  <2> QED
    BY <2>1, <2>2
<1>9. Relocated'
  BY <1>1, <1>3 DEF MiniInv, Relocated
<1> QED
  BY <1>2, <1>8, <1>9 DEF MiniInv

(* One more entry of the vector. *)
LEMMA NotedMore ==
  ASSUME NEW n \in Nat \ {0}, NEW tag, NEW v, Noted(v, tag, n)
  PROVE  Noted(IF given.aux[n].tag = tag THEN given.aux[n].val ELSE v, tag, n + 1)
<1>1. CASE given.aux[n].tag = tag
  <2>1. n \in 1 .. (n + 1) - 1
    OBVIOUS
  <2> QED
    BY <1>1, <2>1 DEF Noted
<1>2. CASE given.aux[n].tag # tag
  <2>1. \A i \in 1 .. (n + 1) - 1 : i = n \/ i \in 1 .. n - 1
    OBVIOUS
  <2>2. \A i \in 1 .. n - 1 : i \in 1 .. (n + 1) - 1
    OBVIOUS
  <2> QED
    BY <1>2, <2>1, <2>2 DEF Noted
<1> QED
  BY <1>1, <1>2

(* The whole vector. *)
LEMMA NotedAll ==
  ASSUME Handed, NEW tag, tag # AT_NULL, NEW v, Noted(v, tag, Len(given.aux))
  PROVE  Learned(v, tag)
<1>1. /\ Len(given.aux) \in Nat /\ DOMAIN given.aux = 1 .. Len(given.aux)
      /\ given.aux[Len(given.aux)].tag = AT_NULL
  BY GivenTyped
<1>2. CASE v = 0 /\ \A i \in 1 .. Len(given.aux) - 1 : given.aux[i].tag # tag
  <2>1. \A i \in DOMAIN given.aux : given.aux[i].tag # tag
    BY <1>1, <1>2
  <2>2. Given(tag) = {}
    BY <2>1 DEF Given, Vals
  <2> QED
    BY <1>2, <2>2 DEF Learned
<1>3. CASE \E i \in 1 .. Len(given.aux) - 1 : given.aux[i].tag = tag /\ v = given.aux[i].val
  <2>1. PICK i \in DOMAIN given.aux : given.aux[i].tag = tag /\ v = given.aux[i].val
    BY <1>1, <1>3
  <2>2. v \in Given(tag)
    BY <2>1 DEF Given, Vals
  <2> QED
    BY <2>2 DEF Learned
<1> QED
  BY <1>2, <1>3 DEF Noted

LEMMA StepAux ==
  ASSUME MiniInv, ScanAux \/ AuxRead
  PROVE  MiniInv'
<1>1. /\ pc = "auxv" /\ UNCHANGED <<stack, sp, given, self, loaded, own, elf, interp>>
      /\ pc' \in {"auxv", "base", "relocate"} /\ pc' \in Setup /\ pc \in Setup
  BY DEF ScanAux, AuxRead, Goto, Setup
<1>2. Handed' /\ Provenance' /\ Objects' /\ OnStack'
  BY <1>1, SetupKeeps
<1>3. Me' = Me /\ (Explained => Explained') /\ \A tag : Given(tag)' = Given(tag)
  BY <1>1, SameWorld
<1>4. /\ reg \in Regs /\ reg.at <= Len(given.aux) /\ reg.env_count = Len(given.env)
      /\ reg.rela_count = <<Len(Me.relas)>>
      /\ Noted(reg.base, AT_BASE, reg.at) /\ Noted(reg.ph, AT_PHDR, reg.at) /\ Noted(reg.phnum, AT_PHNUM, reg.at)
  BY <1>1 DEF MiniInv, Registers
<1>5. Handed /\ sp = SP /\ Framed(stack, given) /\ Valued(stack, given, 1)
  BY <1>1 DEF MiniInv, OnStack, Early
<1>6. Len(given.aux) \in Nat /\ Len(given.aux) >= 1 /\ reg.at \in 1 .. Len(given.aux) /\ reg.at \in Nat \ {0}
  BY <1>4, <1>5, GivenTyped DEF Regs
<1> DEFINE e == given.aux[reg.at]
<1>7. Tag(reg.at) = e.tag /\ Val(reg.at) = e.val
  BY <1>4, <1>5, <1>6, VectorRead
<1>8. e.val \in Nat /\ (e.tag = AT_NULL <=> reg.at = Len(given.aux))
  BY <1>5, <1>6, GivenTyped
<1>9. Registers'
  <2>1. CASE ScanAux
    <3> DEFINE b == IF e.tag = AT_BASE THEN e.val ELSE reg.base
               h == IF e.tag = AT_PHDR THEN e.val ELSE reg.ph
               m == IF e.tag = AT_PHNUM THEN e.val ELSE reg.phnum
    <3>1. /\ pc' = "auxv" /\ reg.at # Len(given.aux)
          /\ reg' = [reg EXCEPT !.at = @ + 1,
                        !.ph = IF e.tag = AT_PHDR THEN e.val ELSE @,
                        !.phnum = IF e.tag = AT_PHNUM THEN e.val ELSE @,
                        !.base = IF e.tag = AT_BASE THEN e.val ELSE @]
      BY <1>7, <1>8, <2>1 DEF ScanAux
    <3>2. Noted(b, AT_BASE, reg.at + 1) /\ Noted(h, AT_PHDR, reg.at + 1) /\ Noted(m, AT_PHNUM, reg.at + 1)
      BY <1>4, <1>6, NotedMore
    <3>3. b \in Int /\ h \in Nat /\ m \in Nat
      BY <1>4, <1>8 DEF Regs
    <3>4. reg' = [reg EXCEPT !.at = reg.at + 1, !.ph = h, !.phnum = m, !.base = b]
      BY <1>4, <3>1 DEF Regs
    <3> HIDE DEF b, h, m
    <3>5. /\ reg' \in Regs /\ reg'.at = reg.at + 1 /\ reg'.base = b /\ reg'.ph = h /\ reg'.phnum = m
          /\ reg'.env_count = reg.env_count /\ reg'.rela_count = reg.rela_count
      <4> DEFINE n == reg.at + 1
      <4>1. n \in Nat \ {0} /\ reg' = [reg EXCEPT !.at = n, !.ph = h, !.phnum = m, !.base = b]
        BY <1>6, <3>4
      <4> HIDE DEF n
      <4>2. reg' \in Regs
        BY <1>4, <3>3, <4>1 DEF Regs
      <4>3. reg'.at = n /\ reg'.base = b /\ reg'.ph = h /\ reg'.phnum = m
        BY <1>4, <4>1 DEF Regs
      <4>4. reg'.env_count = reg.env_count /\ reg'.rela_count = reg.rela_count
        BY <1>4, <4>1 DEF Regs
      <4> QED
        BY <4>2, <4>3, <4>4 DEF n
    <3>6. reg'.at <= Len(given.aux)
      BY <1>6, <3>1, <3>5
    <3>7. Noted(reg.base, AT_BASE, reg.at)' /\ Noted(reg.ph, AT_PHDR, reg.at)' /\ Noted(reg.phnum, AT_PHNUM, reg.at)'
      BY <1>1, <3>2, <3>5 DEF Noted
    <3> QED
      BY <1>1, <1>3, <1>4, <3>1, <3>5, <3>6, <3>7 DEF Registers
  <2>2. CASE AuxRead
    <3>1. /\ pc' = (IF reg.base = 0 THEN "base" ELSE "relocate") /\ reg' = [reg EXCEPT !.at = 1]
          /\ reg.at = Len(given.aux)
      BY <1>7, <1>8, <2>2 DEF AuxRead, Goto
    <3>2. /\ reg' \in Regs /\ reg'.base = reg.base /\ reg'.ph = reg.ph /\ reg'.phnum = reg.phnum
          /\ reg'.env_count = Len(given.env) /\ reg'.rela_count = <<Len(Me.relas)>>
      BY <1>4, <3>1 DEF Regs
    <3>3. Learned(reg.base, AT_BASE) /\ Learned(reg.ph, AT_PHDR) /\ Learned(reg.phnum, AT_PHNUM)
      <4>1. AT_BASE # AT_NULL /\ AT_PHDR # AT_NULL /\ AT_PHNUM # AT_NULL
        BY DEF AT_BASE, AT_PHDR, AT_PHNUM, AT_NULL
      <4> QED
        BY <1>4, <1>5, <3>1, <4>1, NotedAll
    <3>4. CASE reg.base = 0
      <4>1. Learned(0, AT_BASE)' /\ Learned(reg.ph, AT_PHDR)' /\ Learned(reg.phnum, AT_PHNUM)'
        BY <1>3, <3>2, <3>3, <3>4 DEF Learned
      <4> QED
        BY <1>1, <1>3, <3>1, <3>2, <3>4, <4>1 DEF Registers
    <3>5. CASE reg.base # 0
      <4>1. reg.base \in Given(AT_BASE)
        BY <3>3, <3>5 DEF Learned
      <4>2. self \in Nat \ {0}
        BY ObjectTyped DEF MiniInv
      <4>3. reg.base = loaded[self].base \/ Explained
        <5>1. CASE self = 1
          BY <3>5, <4>1, <5>1 DEF MiniInv, Provenance
        <5>2. CASE self > 1
          BY <4>1, <5>2 DEF Explained
        <5> QED
          BY <4>2, <5>1, <5>2
      <4>4. (TableFound \/ Explained)'
        BY <1>1, <1>3, <3>2, <4>3 DEF TableFound
      <4> QED
        BY <1>1, <1>3, <3>1, <3>2, <3>5, <4>4 DEF Registers
    <3> QED
      BY <3>4, <3>5
  <2> QED
    BY <2>1, <2>2
<1>10. Relocated'
  <2>1. pc' = "relocate" => reg'.at = 1
    BY <1>1, <1>4 DEF ScanAux, AuxRead, Goto, Regs
  <2>2. pc' = "relocate" => Done(reg.at - 1)'
    <3>1. loaded[self].file \in DOMAIN Files /\ Me = Files[loaded[self].file]
      BY ObjectTyped DEF MiniInv, Objects, Me, File
    <3>2. \A i \in DOMAIN Me.relas : i \in Nat \ {0}
      BY <3>1, FileTyped
    <3> QED
      BY <1>3, <2>1, <3>2 DEF Done
  <2> QED
    BY <1>1, <1>3, <2>2 DEF MiniInv, Relocated
<1> QED
  BY <1>2, <1>9, <1>10 DEF MiniInv

(* The headers that AT_PHDR leads to are those of an object, its own       *)
(* unless the case is one of Explained, and AT_PHNUM is not beyond them.   *)
LEMMA HeadersRead ==
  ASSUME MiniInv, pc = "base"
  PROVE  \E k \in DOMAIN loaded : /\ reg.ph = PhdrPtr(k) /\ reg.phnum \in {0, Len(File(k).phdrs)}
                                  /\ Explained \/ PhdrPtr(k) = PhdrPtr(self)
<1>1. Learned(0, AT_BASE) /\ Learned(reg.ph, AT_PHDR) /\ Learned(reg.phnum, AT_PHNUM)
  BY DEF MiniInv, Registers
<1>2. self \in Nat \ {0} /\ self \in DOMAIN loaded
  BY ObjectTyped DEF MiniInv, Objects
<1>3. CASE self = 1
  <2>1. loaded[self].base # 0
    <3>1. loaded[self].base = Apart * 1
      BY <1>2, <1>3 DEF MiniInv, Objects, Provenance, Me
    <3> QED
      BY <3>1, MiniLoaderAssumption
  <2>2. Given(AT_PHDR) = {PhdrPtr(self)} /\ Given(AT_PHNUM) \subseteq {Len(Me.phdrs)}
    BY <1>1, <1>3, <2>1 DEF MiniInv, Provenance, Learned
  <2>3. reg.ph = PhdrPtr(self) /\ reg.phnum \in {0, Len(File(self).phdrs)}
    BY <1>1, <2>2 DEF Learned, Me
  <2> QED
    BY <1>2, <2>3
<1>4. CASE self > 1
  <2>1. PICK k \in DOMAIN loaded : /\ Given(AT_PHDR) \subseteq {PhdrPtr(k)}
                                   /\ Given(AT_PHNUM) \subseteq {Len(File(k).phdrs)}
    BY <1>4 DEF MiniInv, Provenance
  <2>2. Given(AT_BASE) = {}
    BY <1>1, <1>4 DEF MiniInv, Provenance, Learned
  <2>3. Given(AT_PHDR) = {PhdrPtr(k)}
    BY <2>1, <2>2 DEF MiniInv, Provenance
  <2>4. reg.ph = PhdrPtr(k) /\ reg.phnum \in {0, Len(File(k).phdrs)}
    BY <1>1, <2>1, <2>3 DEF Learned
  <2>5. Explained \/ PhdrPtr(k) = PhdrPtr(self)
    BY <1>4, <2>3 DEF Explained
  <2> QED
    BY <2>4, <2>5
<1> QED
  BY <1>2, <1>3, <1>4

(* PT_DYNAMIC of its own headers gives the base; any other a number. *)
LEMMA BaseFound ==
  ASSUME MiniInv, pc = "base", reg.at <= reg.phnum, PhdrsAt(reg.ph)[reg.at].p_type = "DYNAMIC"
  PROVE  /\ dynv - PhdrsAt(reg.ph)[reg.at].p_vaddr \in Int
         /\ Explained \/ dynv - PhdrsAt(reg.ph)[reg.at].p_vaddr = loaded[self].base
<1>1. PICK k \in DOMAIN loaded : /\ reg.ph = PhdrPtr(k) /\ reg.phnum \in {0, Len(File(k).phdrs)}
                                 /\ Explained \/ PhdrPtr(k) = PhdrPtr(self)
  BY HeadersRead
<1>2. Objects /\ self \in DOMAIN loaded /\ reg.at \in Nat \ {0}
  BY DEF MiniInv, Objects, Registers, Regs
<1>3. /\ loaded[k].file \in DOMAIN Files /\ loaded[self].file \in DOMAIN Files /\ loaded[self].base \in Nat
      /\ Me.relas # <<>>
  BY <1>2, ObjectTyped DEF Objects
<1>4. PhdrsAt(reg.ph) = File(k).phdrs
  BY <1>1, <1>2, HeadersFound
<1> DEFINE F == File(k)
           i == CHOOSE j \in DOMAIN Me.phdrs : Me.phdrs[j].p_type = "DYNAMIC"
<1>5. /\ Len(F.phdrs) \in Nat /\ DOMAIN F.phdrs = 1 .. Len(F.phdrs)
      /\ \A j \in DOMAIN F.phdrs : F.phdrs[j].p_vaddr \in Nat
  BY <1>3, FileTyped DEF File
<1>6. reg.at \in DOMAIN F.phdrs
  BY <1>1, <1>2, <1>5
<1>7. \E j \in DOMAIN Me.phdrs : Me.phdrs[j].p_type = "DYNAMIC"
  BY <1>3, MiniLoaderAssumption DEF FileMade, Me, File
<1>8. i \in DOMAIN Me.phdrs /\ Me.phdrs[i].p_type = "DYNAMIC"
  BY <1>7
<1>9. dynv = loaded[self].base + Me.phdrs[i].p_vaddr
  BY DEF dynv
<1> HIDE DEF i
<1>10. Me.phdrs[i].p_vaddr \in Nat /\ F.phdrs[reg.at].p_vaddr \in Nat
  BY <1>3, <1>5, <1>6, <1>8, FileTyped DEF Me, File
<1>11. ASSUME PhdrPtr(k) = PhdrPtr(self) PROVE F.phdrs[reg.at].p_vaddr = Me.phdrs[i].p_vaddr
  <2>1. F.phdrs = Me.phdrs
    BY <1>2, <1>11, PhdrsAgree DEF Me
  <2>2. Me.phdrs[reg.at].p_type = "DYNAMIC" /\ reg.at \in DOMAIN Me.phdrs
    BY <1>4, <1>6, <2>1
  <2>3. Me.phdrs[reg.at].p_vaddr = Me.phdrs[i].p_vaddr
    BY <1>3, <1>8, <2>2, FileTyped DEF Me, File
  <2> QED
    BY <2>1, <2>3
<1>12. dynv - PhdrsAt(reg.ph)[reg.at].p_vaddr = (loaded[self].base + Me.phdrs[i].p_vaddr) - F.phdrs[reg.at].p_vaddr
  BY <1>4, <1>9
<1> HIDE DEF F
<1> QED
  BY <1>1, <1>3, <1>10, <1>11, <1>12

LEMMA RegBase ==
  ASSUME NEW r \in Regs, NEW x \in Int
  PROVE  [r EXCEPT !.base = x, !.at = 1] \in Regs
<1> DEFINE q == [r EXCEPT !.base = x]
<1>1. q \in Regs
  BY DEF Regs
<1>2. [r EXCEPT !.base = x, !.at = 1] = [q EXCEPT !.at = 1]
  BY DEF Regs
<1> HIDE DEF q
<1>3. \A n \in Nat \ {0} : [q EXCEPT !.at = n] \in Regs
  BY <1>1 DEF Regs
<1> QED
  BY <1>2, <1>3

LEMMA StepBase ==
  ASSUME MiniInv, FindBase
  PROVE  MiniInv'
<1> DEFINE phdr == PhdrsAt(reg.ph)[reg.at]
           b == dynv - phdr.p_vaddr
<1>1. /\ pc = "base" /\ UNCHANGED <<stack, sp, given, self, loaded, own, elf, interp>>
      /\ pc' \in {"base", "relocate"} /\ pc' \in Setup /\ pc \in Setup /\ reg.at <= reg.phnum
      /\ \/ phdr.p_type = "DYNAMIC" /\ pc' = "relocate" /\ reg' = [reg EXCEPT !.base = b, !.at = 1]
         \/ pc' = "base" /\ reg' = [reg EXCEPT !.at = @ + 1]
  BY DEF FindBase, Setup
<1> HIDE DEF phdr, b
<1>2. Handed' /\ Provenance' /\ Objects' /\ OnStack'
  BY <1>1, SetupKeeps
<1>3. Me' = Me /\ (Explained => Explained') /\ \A tag : Given(tag)' = Given(tag)
  BY <1>1, SameWorld
<1>4. /\ reg \in Regs /\ reg.env_count = Len(given.env) /\ reg.rela_count = <<Len(Me.relas)>>
      /\ reg.base = 0 /\ Learned(0, AT_BASE) /\ Learned(reg.ph, AT_PHDR) /\ Learned(reg.phnum, AT_PHNUM)
  BY <1>1 DEF MiniInv, Registers
<1>5. CASE pc' = "base" /\ reg' = [reg EXCEPT !.at = @ + 1]
  <2>1. reg.at + 1 \in Nat \ {0}
    BY <1>4 DEF Regs
  <2>2. reg' \in Regs
    BY <1>4, <1>5, <2>1 DEF Regs
  <2>3. /\ reg'.env_count = reg.env_count /\ reg'.rela_count = reg.rela_count /\ reg'.base = 0
        /\ reg'.ph = reg.ph /\ reg'.phnum = reg.phnum
    BY <1>4, <1>5 DEF Regs
  <2>4. Learned(0, AT_BASE)' /\ Learned(reg.ph, AT_PHDR)' /\ Learned(reg.phnum, AT_PHNUM)'
    BY <1>3, <1>4, <2>3 DEF Learned
  <2>5. Registers'
    BY <1>1, <1>3, <1>4, <1>5, <2>2, <2>3, <2>4 DEF Registers
  <2>6. Relocated'
    BY <1>1, <1>3, <1>5 DEF MiniInv, Relocated
  <2> QED
    BY <1>2, <2>5, <2>6 DEF MiniInv
<1>6. CASE phdr.p_type = "DYNAMIC" /\ pc' = "relocate" /\ reg' = [reg EXCEPT !.base = b, !.at = 1]
  <2>1. b \in Int /\ (Explained \/ b = loaded[self].base)
    BY <1>1, <1>6, BaseFound DEF phdr, b
  <2>2. reg' \in Regs
    BY <1>4, <1>6, <2>1, RegBase
  <2>3. reg'.env_count = reg.env_count /\ reg'.rela_count = reg.rela_count /\ reg'.base = b /\ reg'.at = 1
    BY <1>4, <1>6 DEF Regs
  <2>4. (TableFound \/ Explained)'
    BY <1>1, <1>3, <2>1, <2>3 DEF TableFound
  <2>5. Registers'
    BY <1>1, <1>3, <1>4, <1>6, <2>2, <2>3, <2>4 DEF Registers
  <2>6. Done(reg.at - 1)'
    <3>1. loaded[self].file \in DOMAIN Files /\ Me = Files[loaded[self].file]
      BY ObjectTyped DEF MiniInv, Objects, Me, File
    <3>2. \A i \in DOMAIN Me.relas : i \in Nat \ {0}
      BY <3>1, FileTyped
    <3> QED
      BY <1>3, <2>3, <3>2 DEF Done
  <2>7. Relocated'
    BY <1>1, <1>3, <1>6, <2>6 DEF MiniInv, Relocated
  <2> QED
    BY <1>2, <2>5, <2>7 DEF MiniInv
<1> QED
  BY <1>1, <1>5, <1>6

LEMMA RegAt ==
  ASSUME NEW r \in Regs, NEW n \in Nat \ {0}
  PROVE  /\ [r EXCEPT !.at = n] \in Regs /\ [r EXCEPT !.at = n].at = n
         /\ [r EXCEPT !.at = n].rela_count = r.rela_count /\ [r EXCEPT !.at = n].env_count = r.env_count
         /\ [r EXCEPT !.at = n].base = r.base
BY DEF Regs

LEMMA RegAt1 ==
  ASSUME NEW r \in Regs
  PROVE  /\ [r EXCEPT !.at = 1] \in Regs /\ [r EXCEPT !.at = 1].at = 1
         /\ [r EXCEPT !.at = 1].env_count = r.env_count
<1>1. 1 \in Nat \ {0}
  OBVIOUS
<1> QED
  BY <1>1, RegAt

LEMMA StepRelocate ==
  ASSUME MiniInv, Relocate
  PROVE  MiniInv'
<1> DEFINE off == Me.relas[reg.at].off
           val == reg.base + Me.relas[reg.at].addend
<1>1. /\ pc = "relocate" /\ UNCHANGED <<stack, sp, given, self, loaded, elf, interp>> /\ pc' = "relocate"
      /\ pc' \in Setup /\ pc \in Setup /\ reg.at <= reg.rela_count[1] /\ TableFound
      /\ own' = [own EXCEPT ![off] = val] /\ reg' = [reg EXCEPT !.at = @ + 1]
  BY DEF Relocate, Setup
<1>2. Handed' /\ Provenance' /\ Objects' /\ OnStack'
  BY <1>1, SetupKeeps
<1>3. Me' = Me /\ Me.relas # <<>>
  BY <1>1, SameWorld DEF MiniInv, Objects
<1>4. reg \in Regs /\ reg.env_count = Len(given.env) /\ reg.rela_count = <<Len(Me.relas)>>
  BY <1>1 DEF MiniInv, Registers
<1>5. /\ reg' \in Regs /\ reg'.at = reg.at + 1 /\ reg'.rela_count = reg.rela_count
      /\ reg'.env_count = reg.env_count /\ reg'.base = reg.base
  <2>1. reg.at + 1 \in Nat \ {0}
    BY <1>4 DEF Regs
  <2>2. reg' = [reg EXCEPT !.at = reg.at + 1]
    BY <1>1
  <2> QED
    BY <1>4, <2>1, <2>2, RegAt
<1>6. TableFound'
  BY <1>1, <1>5 DEF TableFound
<1>7. Registers'
  BY <1>1, <1>3, <1>4, <1>5, <1>6 DEF Registers
<1>8. /\ loaded[self].file \in DOMAIN Files /\ Me = Files[loaded[self].file] /\ reg.at \in Nat \ {0}
  BY <1>4, ObjectTyped DEF MiniInv, Objects, Me, File, Regs
<1>9. /\ Len(Me.relas) \in Nat /\ DOMAIN Me.relas = 1 .. Len(Me.relas)
      /\ \A i, j \in DOMAIN Me.relas : Me.relas[i].off = Me.relas[j].off => i = j
  <2>1. Len(Me.relas) \in Nat /\ DOMAIN Me.relas = 1 .. Len(Me.relas)
    BY <1>8, FileTyped
  <2>2. FileMade(Me)
    BY <1>8, MiniLoaderAssumption
  <2>3. \A i, j \in DOMAIN Me.relas : Me.relas[i].off = Me.relas[j].off => i = j
    BY <1>3, <2>2 DEF FileMade
  <2> QED
    BY <2>1, <2>3
<1>10. reg.at \in DOMAIN Me.relas
  BY <1>1, <1>4, <1>8, <1>9
<1>11. DOMAIN own = {Me.relas[i].off : i \in DOMAIN Me.relas} /\ Done(reg.at - 1)
  BY <1>1 DEF MiniInv, Relocated
<1>12. off \in DOMAIN own
  BY <1>10, <1>11
<1>13. DOMAIN own' = DOMAIN own
  BY <1>1
<1>14. Done(reg.at - 1)'
  <2> SUFFICES ASSUME NEW i \in DOMAIN Me.relas, i <= reg.at
               PROVE  own'[Me.relas[i].off] = loaded[self].base + Me.relas[i].addend
    <3>1. reg'.at - 1 = reg.at
      BY <1>5, <1>8
    <3> QED
      BY <1>1, <1>3, <3>1 DEF Done
  <2>1. CASE i = reg.at
    BY <1>1, <1>12, <2>1 DEF TableFound
  <2>2. CASE i # reg.at
    <3>1. i <= reg.at - 1 /\ Me.relas[i].off # off /\ Me.relas[i].off \in DOMAIN own
      BY <1>8, <1>9, <1>10, <1>11, <2>2
    <3>2. own[Me.relas[i].off] = loaded[self].base + Me.relas[i].addend
      BY <1>11, <3>1 DEF Done
    <3> HIDE DEF off, val
    <3> QED
      BY <1>1, <3>1, <3>2
  <2> QED
    BY <2>1, <2>2
<1>15. Relocated'
  BY <1>1, <1>3, <1>11, <1>13, <1>14 DEF Relocated
<1> QED
  BY <1>2, <1>7, <1>15 DEF MiniInv

LEMMA StepSelfRelocated ==
  ASSUME MiniInv, SelfRelocated
  PROVE  MiniInv'
<1>1. /\ pc = "relocate" /\ UNCHANGED <<stack, sp, given, self, loaded, own, elf, interp>> /\ pc' = "load"
      /\ pc' \in Setup /\ pc \in Setup /\ reg.at > reg.rela_count[1] /\ reg' = [reg EXCEPT !.at = 1]
  BY DEF SelfRelocated, Goto, Setup
<1>2. Handed' /\ Provenance' /\ Objects' /\ OnStack'
  BY <1>1, SetupKeeps
<1>3. Me' = Me
  BY <1>1, SameWorld
<1>4. reg \in Regs /\ reg.env_count = Len(given.env) /\ reg.rela_count = <<Len(Me.relas)>>
  BY <1>1 DEF MiniInv, Registers
<1>5. reg' \in Regs /\ reg'.env_count = reg.env_count
  BY <1>1, <1>4, RegAt1
<1>6. Registers'
  BY <1>1, <1>3, <1>4, <1>5 DEF Registers
<1>7. /\ loaded[self].file \in DOMAIN Files /\ Me = Files[loaded[self].file] /\ reg.at \in Nat \ {0}
  BY <1>4, ObjectTyped DEF MiniInv, Objects, Me, File, Regs
<1>8. Len(Me.relas) \in Nat /\ DOMAIN Me.relas = 1 .. Len(Me.relas)
  BY <1>7, FileTyped
<1>9. \A i \in DOMAIN Me.relas : i <= reg.at - 1
  BY <1>1, <1>4, <1>7, <1>8
<1>10. Done(reg.at - 1)
  BY <1>1 DEF MiniInv, Relocated
<1>11. Done(Len(Me.relas))'
  BY <1>1, <1>3, <1>9, <1>10 DEF Done
<1>12. Relocated'
  BY <1>1, <1>3, <1>11 DEF MiniInv, Relocated
<1> QED
  BY <1>2, <1>6, <1>12 DEF MiniInv

(* rust_main gives up, or writes where it should not. *)
LEMMA StepStops ==
  ASSUME MiniInv, NoRelocations \/ NoDynamicPhdr \/ WildRelocation \/ NoInputFile \/ LoadFails
  PROVE  MiniInv'
<1>1. /\ pc \in Early /\ pc' \in {"panic", "wild"} /\ (pc' = "wild" => pc = "relocate" /\ ~TableFound)
      /\ UNCHANGED <<stack, sp, given, self, loaded, own, reg, elf, interp>>
  BY DEF NoRelocations, NoDynamicPhdr, WildRelocation, NoInputFile, LoadFails, Panic, Early
<1>2. Handed' /\ Provenance' /\ Me' = Me /\ (Explained => Explained') /\ \A k : File(k)' = File(k)
  BY <1>1, SameWorld DEF MiniInv
<1>3. Objects'
  BY <1>1, <1>2 DEF MiniInv, Objects, Early
<1>4. OnStack'
  BY <1>1 DEF MiniInv, OnStack, Early
<1>5. Registers'
  BY <1>1 DEF MiniInv, Registers
<1>6. pc' = "wild" => Explained'
  BY <1>1, <1>2 DEF MiniInv, Registers
<1>7. Relocated'
  BY <1>1, <1>2, <1>6 DEF MiniInv, Relocated
<1> QED
  BY <1>2, <1>3, <1>4, <1>5, <1>7 DEF MiniInv

LEMMA StepNoInterp ==
  ASSUME MiniInv, NoInterp
  PROVE  MiniInv'
<1>1. /\ pc = "interp" /\ UNCHANGED <<stack, sp, given, self, loaded, own, elf, interp>> /\ pc' = "set_aux"
      /\ reg' = [reg EXCEPT !.at = 1]
  BY DEF NoInterp, Goto
<1>2. Handed' /\ Provenance' /\ Me' = Me /\ \A k : File(k)' = File(k)
  BY <1>1, SameWorld DEF MiniInv
<1>3. Objects'
  BY <1>1, <1>2 DEF MiniInv, Objects
<1>4. reg \in Regs /\ reg.env_count = Len(given.env)
  BY <1>1 DEF MiniInv, Registers
<1>5. reg' \in Regs /\ reg'.env_count = reg.env_count /\ reg'.at = 1
  BY <1>1, <1>4, RegAt1
<1>6. 1 <= Len(given.aux)
  BY GivenTyped DEF MiniInv
<1>7. Registers'
  BY <1>1, <1>4, <1>5, <1>6 DEF Registers
<1>8. OnStack'
  BY <1>1, <1>5 DEF MiniInv, OnStack, Early
<1>9. Done(Len(Me.relas))'
  BY <1>1, <1>2 DEF MiniInv, Relocated, Done
<1>10. Relocated'
  BY <1>1, <1>2, <1>9 DEF MiniInv, Relocated
<1> QED
  BY <1>2, <1>3, <1>7, <1>8, <1>10 DEF MiniInv

-----------------------------------------------------------------------------
(* load! adds an object at an address of its own and moves none. *)
LEMMA LoadAdds ==
  ASSUME Objects, NEW f \in DOMAIN Files, loaded' = Loaded(f)
  PROVE  /\ Len(loaded') = Len(loaded) + 1 /\ DOMAIN loaded' = 1 .. Len(loaded) + 1
         /\ loaded' \in Seq([file : DOMAIN Files, base : Nat])
         /\ \A k \in DOMAIN loaded : /\ loaded'[k] = loaded[k] /\ k \in DOMAIN loaded'
                                     /\ File(k)' = File(k) /\ PhdrPtr(k)' = PhdrPtr(k)
         /\ loaded'[Len(loaded) + 1].file = f
         /\ \A k \in DOMAIN loaded' : loaded'[k].base = IF File(k)'.pie THEN Apart * k ELSE 0
<1> DEFINE n == Len(loaded) + 1
           o == [file |-> f, base |-> IF Files[f].pie THEN Apart * n ELSE 0]
           O == [file : DOMAIN Files, base : Nat]
<1>1. /\ Len(loaded) \in Nat /\ DOMAIN loaded = 1 .. Len(loaded) /\ loaded \in Seq(O)
      /\ Apart \in Nat
  BY ObjectTyped, MiniLoaderAssumption DEF Objects
<1>2. o \in O
  <2>1. Apart * n \in Nat
    BY <1>1
  <2> HIDE DEF n
  <2> QED
    BY <2>1
<1>3. o.file = f /\ o.base = IF Files[f].pie THEN Apart * n ELSE 0
  OBVIOUS
<1>4. loaded' = Append(loaded, o)
  BY DEF Loaded
<1> HIDE DEF o, O
<1>5. /\ loaded' \in Seq(O) /\ Len(loaded') = n /\ loaded'[n] = o
      /\ \A k \in 1 .. Len(loaded) : loaded'[k] = loaded[k]
  BY <1>1, <1>2, <1>4
<1>6. DOMAIN loaded' = 1 .. n
  BY <1>5, SeqTyped
<1>7. ASSUME NEW k \in DOMAIN loaded
      PROVE  loaded'[k] = loaded[k] /\ k \in DOMAIN loaded' /\ File(k)' = File(k) /\ PhdrPtr(k)' = PhdrPtr(k)
  <2>1. loaded'[k] = loaded[k] /\ k \in DOMAIN loaded'
    BY <1>1, <1>5, <1>6
  <2> QED
    BY <2>1 DEF File, PhdrPtr
<1>8. ASSUME NEW k \in DOMAIN loaded'
      PROVE  loaded'[k].base = IF File(k)'.pie THEN Apart * k ELSE 0
  <2>1. CASE k \in DOMAIN loaded
    BY <1>7, <2>1 DEF Objects
  <2>2. CASE k = n
    <3>1. File(k)' = Files[f]
      BY <1>3, <1>5, <2>2 DEF File
    <3> QED
      BY <1>3, <1>5, <2>2, <3>1
  <2> QED
    BY <1>1, <1>6, <2>1, <2>2
<1>9. loaded' \in Seq([file : DOMAIN Files, base : Nat])
  BY <1>5 DEF O
<1> QED
  BY <1>3, <1>5, <1>6, <1>7, <1>8, <1>9

LEMMA LoadKeeps ==
  ASSUME Handed, Objects, Provenance, NEW f \in DOMAIN Files, loaded' = Loaded(f), given' = given, self' = self
  PROVE  Handed' /\ Provenance' /\ Me' = Me /\ self' \in DOMAIN loaded'
<1>1. Handed'
  BY DEF Handed
<1>2. self \in DOMAIN loaded
  BY DEF Objects
<1>3. \A k \in DOMAIN loaded : /\ loaded'[k] = loaded[k] /\ k \in DOMAIN loaded'
                               /\ File(k)' = File(k) /\ PhdrPtr(k)' = PhdrPtr(k)
  BY LoadAdds
<1>4. Me' = Me /\ PhdrPtr(self)' = PhdrPtr(self) /\ loaded'[self] = loaded[self] /\ self' \in DOMAIN loaded'
  <2>1. loaded'[self] = loaded[self] /\ self \in DOMAIN loaded'
    BY <1>2, <1>3
  <2> QED
    BY <2>1 DEF Me, File, PhdrPtr
<1>5. ASSUME NEW tag PROVE Given(tag)' = Given(tag)
  BY DEF Given
<1>6. Given(AT_BASE)' = Given(AT_BASE) /\ Given(AT_PHDR)' = Given(AT_PHDR) /\ Given(AT_PHNUM)' = Given(AT_PHNUM)
  BY <1>5
<1>7. Provenance'
  <2>1. (Given(AT_BASE) # {} \/ Given(AT_PHDR) # {})'
    BY <1>6 DEF Provenance
  <2>2. ASSUME self' = 1
        PROVE  /\ Me'.pie
               /\ \/ Given(AT_BASE)' = {loaded'[self'].base}
                  \/ /\ Given(AT_BASE)' \subseteq {0} /\ Given(AT_PHDR)' = {PhdrPtr(self)'}
                     /\ Given(AT_PHNUM)' \subseteq {Len(Me'.phdrs)}
    BY <1>4, <1>6, <2>2 DEF Provenance
  <2>3. ASSUME self' > 1
        PROVE  /\ Given(AT_BASE)' \subseteq Nat \ {0}
               /\ \E k \in DOMAIN loaded' : /\ Given(AT_PHDR)' \subseteq {PhdrPtr(k)'}
                                            /\ Given(AT_PHNUM)' \subseteq {Len(File(k)'.phdrs)}
    <3>1. PICK k \in DOMAIN loaded : /\ Given(AT_PHDR) \subseteq {PhdrPtr(k)}
                                     /\ Given(AT_PHNUM) \subseteq {Len(File(k).phdrs)}
      BY <2>3 DEF Provenance
    <3>2. k \in DOMAIN loaded' /\ File(k)' = File(k) /\ PhdrPtr(k)' = PhdrPtr(k)
      BY <1>3
    <3>3. Given(AT_PHDR)' \subseteq {PhdrPtr(k)'} /\ Given(AT_PHNUM)' \subseteq {Len(File(k)'.phdrs)}
      BY <1>6, <3>1, <3>2
    <3>4. Given(AT_BASE)' \subseteq Nat \ {0}
      BY <1>6, <2>3 DEF Provenance
    <3> QED
      BY <3>2, <3>3, <3>4
  <2> QED
    BY <2>1, <2>2, <2>3 DEF Provenance
<1> QED
  BY <1>1, <1>4, <1>7

LEMMA StepLoad ==
  ASSUME MiniInv, LoadElf \/ LoadInterp
  PROVE  MiniInv'
<1> DEFINE f == IF pc = "load" THEN Named[stack[argv + 1]] ELSE File(elf).interp
<1>1. /\ \/ pc = "load" /\ pc' = "interp" /\ argc # 1 /\ elf' = Len(loaded) + 1 /\ interp' = interp
         \/ pc = "interp" /\ pc' = "set_aux" /\ f # NoFile /\ interp' = Len(loaded) + 1 /\ elf' = elf
      /\ loaded' = Loaded(f) /\ reg' = [reg EXCEPT !.at = 1]
      /\ UNCHANGED <<stack, sp, given, self, own>>
  BY DEF LoadElf, LoadInterp, Goto
<1>2. Handed /\ Objects /\ Provenance /\ sp = SP /\ Framed(stack, given) /\ Valued(stack, given, 1)
  BY <1>1 DEF MiniInv, OnStack, Early
<1>3. pc = "load" => Len(given.argv) >= 2 /\ f = Named[given.argv[2]]
  BY <1>1, <1>2, StackRead, GivenTyped
<1>4. /\ Len(loaded) \in Nat /\ DOMAIN loaded = 1 .. Len(loaded) /\ self \in DOMAIN loaded /\ Me.relas # <<>>
      /\ \A k \in DOMAIN loaded : loaded[k].file \in DOMAIN Files
  BY <1>2, ObjectTyped DEF Objects
<1>5. pc = "interp" => /\ Len(given.argv) >= 2 /\ elf > 1 /\ elf \in DOMAIN loaded
                       /\ loaded[elf].file = Named[given.argv[2]] /\ interp = 0
  BY <1>2 DEF Objects
<1>6. f \in DOMAIN Files
  <2>1. CASE pc = "load"
    <3>1. given.argv[2] \in DOMAIN Named
      BY <1>2, <1>3, <2>1, GivenTyped
    <3> QED
      BY <1>3, <2>1, <3>1, MiniLoaderAssumption
  <2>2. CASE pc = "interp"
    <3>1. File(elf).interp \in DOMAIN Files \cup {NoFile}
      BY <1>4, <1>5, <2>2, FileTyped DEF File
    <3> QED
      BY <1>1, <2>2, <3>1
  <2> QED
    BY <1>1, <2>1, <2>2
<1> HIDE DEF f
<1>7. Handed' /\ Provenance' /\ Me' = Me /\ self' \in DOMAIN loaded'
  BY <1>1, <1>2, <1>6, LoadKeeps
<1>8. /\ DOMAIN loaded' = 1 .. Len(loaded) + 1
      /\ loaded' \in Seq([file : DOMAIN Files, base : Nat])
      /\ \A k \in DOMAIN loaded : loaded'[k] = loaded[k] /\ k \in DOMAIN loaded'
      /\ loaded'[Len(loaded) + 1].file = f
      /\ \A k \in DOMAIN loaded' : loaded'[k].base = IF File(k)'.pie THEN Apart * k ELSE 0
  BY <1>1, <1>2, <1>6, LoadAdds
<1>9. Len(loaded) + 1 > 1 /\ Len(loaded) + 1 \in DOMAIN loaded'
  BY <1>4, <1>8
<1>10. Objects'
  <2>1. CASE pc = "load"
    <3>1. pc' = "interp" /\ elf' = Len(loaded) + 1 /\ interp' = interp
      BY <1>1, <2>1
    <3>2. interp = 0
      BY <1>2, <2>1 DEF Objects
    <3>3. Len(given'.argv) >= 2 /\ elf' > 1 /\ elf' \in DOMAIN loaded' /\ loaded'[elf'].file = Named[given'.argv[2]]
      BY <1>1, <1>3, <1>8, <1>9, <2>1, <3>1
    <3> QED
      BY <1>4, <1>7, <1>8, <3>1, <3>2, <3>3 DEF Objects
  <2>2. CASE pc = "interp"
    <3>1. pc' = "set_aux" /\ elf' = elf /\ interp' = Len(loaded) + 1
      BY <1>1, <2>2
    <3>2. interp' > 1 /\ interp' \in DOMAIN loaded'
      BY <1>9, <3>1
    <3>3. Len(given'.argv) >= 2 /\ elf' > 1 /\ elf' \in DOMAIN loaded' /\ loaded'[elf'].file = Named[given'.argv[2]]
      BY <1>1, <1>5, <1>8, <2>2, <3>1
    <3> QED
      BY <1>4, <1>7, <1>8, <3>1, <3>2, <3>3 DEF Objects
  <2> QED
    BY <1>1, <2>1, <2>2
<1>11. reg \in Regs /\ reg.env_count = Len(given.env)
  BY <1>1 DEF MiniInv, Registers
<1>12. reg' \in Regs /\ reg'.env_count = reg.env_count /\ reg'.at = 1
  BY <1>1, <1>11, RegAt1
<1>13. 1 <= Len(given.aux)
  BY <1>2, GivenTyped
<1>14. Registers'
  BY <1>1, <1>11, <1>12, <1>13 DEF Registers
<1>15. OnStack'
  BY <1>1, <1>2, <1>12 DEF OnStack, Early
<1>16. loaded'[self'] = loaded[self]
  BY <1>1, <1>4, <1>8
<1>17. Done(Len(Me.relas))'
  BY <1>1, <1>7, <1>16 DEF MiniInv, Relocated, Done
<1>18. Relocated'
  BY <1>1, <1>7, <1>17 DEF MiniInv, Relocated
<1> QED
  BY <1>7, <1>10, <1>14, <1>15, <1>18 DEF MiniInv

-----------------------------------------------------------------------------
LEMMA TailParts ==
  ASSUME NEW T, NEW s \in Seq(T), Len(s) >= 2
  PROVE  /\ Tail(s) \in Seq(T) /\ Len(Tail(s)) = Len(s) - 1 /\ Tail(s) # <<>>
         /\ \A i \in 1 .. Len(s) - 1 : Tail(s)[i] = s[i + 1]
<1>1. Tail(s) \in Seq(T) /\ Len(Tail(s)) = Len(s) - 1 /\ \A i \in 1 .. Len(s) - 1 : Tail(s)[i] = s[i + 1]
  OBVIOUS
<1>2. Len(s) - 1 # 0
  <2>1. \A n \in Nat : n >= 2 => n - 1 # 0
    OBVIOUS
  <2>2. Len(s) \in Nat
    BY SeqTyped
  <2> QED
    BY <2>1, <2>2
<1>3. Len(<<>>) = 0
  OBVIOUS
<1> QED
  BY <1>1, <1>2, <1>3

LEMMA SeqOfFunction ==
  ASSUME NEW T, NEW n \in Nat, NEW g \in [1 .. n -> T]
  PROVE  g \in Seq(T) /\ Len(g) = n
OBVIOUS

(* Past load!, every value of the new vector is a number. *)
LEMMA DescribedTyped ==
  ASSUME Handed, Objects, pc \in {"set_aux", "trampoline", "running"}, NEW tag, NEW val \in Nat
  PROVE  /\ Described(tag, val) \in Nat
         /\ tag = AT_BASE => Described(tag, val) \in Nat \ {0}
<1>1. /\ elf \in DOMAIN loaded /\ Len(given.argv) >= 2 /\ (interp = 0 \/ interp \in DOMAIN loaded)
  BY DEF Objects
<1>2. Target \in DOMAIN loaded
  BY <1>1 DEF Target
<1>3. ASSUME NEW k \in DOMAIN loaded
      PROVE  PhdrPtr(k) \in Nat /\ Entry(k) \in Nat \ {0} /\ Len(File(k).phdrs) \in Nat
  <2>1. loaded[k].file \in DOMAIN Files /\ loaded[k].base \in Nat
    BY ObjectTyped
  <2>2. File(k).entry \in Nat \ {0} /\ File(k).phoff \in 0 .. Apart - 1 /\ Len(File(k).phdrs) \in Nat
    BY <2>1, FileTyped DEF File
  <2>3. File(k).phoff \in Nat
    BY <2>2, MiniLoaderAssumption
  <2> QED
    BY <2>1, <2>2, <2>3 DEF PhdrPtr, Entry
<1>4. /\ PhdrPtr(elf) \in Nat /\ Entry(elf) \in Nat \ {0} /\ Len(File(elf).phdrs) \in Nat
      /\ Entry(Target) \in Nat \ {0}
  BY <1>1, <1>2, <1>3
<1>5. given.argv[2] \in Nat
  BY <1>1, GivenTyped
<1> QED
  BY <1>4, <1>5 DEF Described, PhdrSize, AT_PHDR, AT_PHNUM, AT_PHENT, AT_ENTRY, AT_EXECFN, AT_BASE

LEMMA OverShape ==
  ASSUME Handed, Objects, pc \in {"set_aux", "trampoline", "running"}
  PROVE  /\ Over.argv = Tail(given.argv) /\ Over.env = given.env
         /\ Over.argv \in Seq(DOMAIN Named) /\ Over.argv # <<>> /\ Len(Over.argv) = Len(given.argv) - 1
         /\ \A i \in 1 .. Len(given.argv) - 1 : Over.argv[i] = given.argv[i + 1]
         /\ Over.aux \in Seq([tag : Nat, val : Nat]) /\ Len(Over.aux) = Len(given.aux)
         /\ DOMAIN Over.aux = 1 .. Len(given.aux)
         /\ \A i \in 1 .. Len(given.aux) :
              /\ Over.aux[i].tag = given.aux[i].tag
              /\ Over.aux[i].val = Described(given.aux[i].tag, given.aux[i].val)
         /\ Vec(Over) = Vec(given) - 1
<1> DEFINE n == Len(given.aux)
           X == [tag : Nat, val : Nat]
           E(i) == [tag |-> given.aux[i].tag, val |-> Described(given.aux[i].tag, given.aux[i].val)]
<1>1. /\ n \in Nat /\ DOMAIN given.aux = 1 .. n /\ Len(given.argv) \in Nat /\ Len(given.env) \in Nat
      /\ \A i \in 1 .. n : given.aux[i].tag \in Nat /\ given.aux[i].val \in Nat
  BY GivenTyped
<1>2. given.argv \in Seq(DOMAIN Named) /\ Len(given.argv) >= 2
  BY DEF Handed, Objects
<1>3. /\ Tail(given.argv) \in Seq(DOMAIN Named) /\ Len(Tail(given.argv)) = Len(given.argv) - 1
      /\ Tail(given.argv) # <<>>
      /\ \A i \in 1 .. Len(given.argv) - 1 : Tail(given.argv)[i] = given.argv[i + 1]
  BY <1>2, TailParts
<1>4. \A i \in 1 .. n : E(i) \in X /\ E(i).tag = given.aux[i].tag
                        /\ E(i).val = Described(given.aux[i].tag, given.aux[i].val)
  BY <1>1, DescribedTyped
<1>5. Over.argv = Tail(given.argv) /\ Over.env = given.env /\ Over.aux = [i \in 1 .. n |-> E(i)]
  BY <1>1 DEF Over
<1> HIDE DEF E, X
<1>6. Over.aux \in [1 .. n -> X]
  BY <1>4, <1>5
<1>7. Over.aux \in Seq(X) /\ Len(Over.aux) = n
  BY <1>1, <1>6, SeqOfFunction
<1>8. \A i \in 1 .. n : Over.aux[i] = E(i)
  BY <1>5
<1>9. Over.argv # <<>>
  BY <1>3, <1>5
<1>10. Vec(Over) = Vec(given) - 1
  <2>1. Vec(Over) = SP + (Len(given.argv) - 1) + Len(given.env) + 3
    BY <1>3, <1>5 DEF Vec
  <2>2. Vec(given) = SP + Len(given.argv) + Len(given.env) + 3
    BY DEF Vec
  <2>3. SP \in Nat
    BY MiniLoaderAssumption
  <2> DEFINE a == Len(given.argv)
             e == Len(given.env)
  <2>4. a \in Nat /\ e \in Nat
    BY <1>1
  <2> HIDE DEF a, e
  <2>5. SP + (a - 1) + e + 3 = (SP + a + e + 3) - 1
    BY <2>3, <2>4
  <2> QED
    BY <2>1, <2>2, <2>5 DEF a, e
<1>11. Over.aux \in Seq([tag : Nat, val : Nat])
  BY <1>7 DEF X
<1>12. \A i \in 1 .. n : /\ Over.aux[i].tag = given.aux[i].tag
                         /\ Over.aux[i].val = Described(given.aux[i].tag, given.aux[i].val)
  BY <1>4, <1>8
<1>13. DOMAIN Over.aux = 1 .. n
  BY <1>6
<1> QED
  BY <1>3, <1>5, <1>7, <1>9, <1>10, <1>11, <1>12, <1>13

LEMMA DescribedSame ==
  ASSUME given' = given, loaded' = loaded, elf' = elf, interp' = interp
  PROVE  (\A tag, val : Described(tag, val)' = Described(tag, val)) /\ Over' = Over
<1>1. ASSUME NEW tag, NEW val PROVE Described(tag, val)' = Described(tag, val)
  BY DEF Described, Target, PhdrPtr, Entry, File
<1>2. Over' = Over
  BY <1>1 DEF Over
<1> QED
  BY <1>1, <1>2

LEMMA StepTrampoline ==
  ASSUME MiniInv, Trampoline
  PROVE  MiniInv'
<1>1. /\ pc = "trampoline" /\ pc' = "running"
      /\ UNCHANGED <<stack, sp, given, self, loaded, own, reg, elf, interp>>
  BY DEF Trampoline
<1>2. Handed' /\ Provenance' /\ Me' = Me /\ \A k : File(k)' = File(k)
  BY <1>1, SameWorld DEF MiniInv
<1>3. Objects'
  BY <1>1, <1>2 DEF MiniInv, Objects
<1>4. Over' = Over
  BY <1>1, DescribedSame
<1>5. OnStack'
  BY <1>1, <1>4 DEF MiniInv, OnStack, Early
<1>6. Registers'
  BY <1>1 DEF MiniInv, Registers
<1>7. Relocated'
  BY <1>1, <1>2 DEF MiniInv, Relocated
<1> QED
  BY <1>2, <1>3, <1>5, <1>6, <1>7 DEF MiniInv

(* Parity keeps the tags apart from the values. *)
LEMMA Apart2 ==
  ASSUME NEW v \in Int, NEW i \in Int, NEW j \in Int
  PROVE  /\ v + 2 * (i - 1) # v + 2 * (j - 1) + 1
         /\ i # j => v + 2 * (i - 1) + 1 # v + 2 * (j - 1) + 1
OBVIOUS

(* Writing a value of the vector leaves everything else. *)
LEMMA ValueSet ==
  ASSUME Handed, Framed(stack, given), NEW n \in 1 .. Len(given.aux), NEW x,
         stack' = [stack EXCEPT ![Vec(given) + 2 * (n - 1) + 1] = x]
  PROVE  /\ Framed(stack', given)
         /\ stack'[Vec(given) + 2 * (n - 1) + 1] = x
         /\ \A i \in 1 .. Len(given.aux) :
              i # n => stack'[Vec(given) + 2 * (i - 1) + 1] = stack[Vec(given) + 2 * (i - 1) + 1]
<1> DEFINE a == Len(given.argv)
           e == Len(given.env)
           m == Len(given.aux)
           v == Vec(given)
           w == v + 2 * (n - 1) + 1
<1>1. a \in Nat /\ a >= 1 /\ e \in Nat /\ m \in Nat /\ SP \in Nat
  BY GivenTyped, MiniLoaderAssumption
<1>2. v = SP + a + e + 3
  BY DEF Vec
<1>3. SP .. v + 2 * m - 1 \subseteq DOMAIN stack
  BY DEF Framed
<1>4. /\ stack[SP] = a
      /\ \A i \in 1 .. a : stack[SP + i] = given.argv[i]
      /\ stack[SP + a + 1] = 0
      /\ \A i \in 1 .. e : stack[SP + a + 1 + i] = given.env[i]
      /\ stack[SP + a + e + 2] = 0
      /\ \A i \in 1 .. m : stack[v + 2 * (i - 1)] = given.aux[i].tag
  BY DEF Framed
<1> HIDE DEF a, e, m, v
<1>5. v \in Nat /\ n \in 1 .. m
  BY <1>1, <1>2 DEF m
<1>6. w \in DOMAIN stack /\ w > v /\ w \in Nat
  <2>1. w \in SP .. v + 2 * m - 1 /\ w > v /\ w \in Nat
    BY <1>1, <1>2, <1>5
  <2> QED
    BY <1>3, <2>1
<1>7. stack' = [stack EXCEPT ![w] = x]
  BY DEF v
<1>8. \A i \in 1 .. m : v + 2 * (i - 1) # w /\ (i # n => v + 2 * (i - 1) + 1 # w)
  BY <1>1, <1>5, Apart2
<1>9. \A i \in 1 .. m : v + 2 * (i - 1) \in DOMAIN stack /\ v + 2 * (i - 1) + 1 \in DOMAIN stack
  <2>1. \A i \in 1 .. m : v + 2 * (i - 1) \in SP .. v + 2 * m - 1 /\ v + 2 * (i - 1) + 1 \in SP .. v + 2 * m - 1
    BY <1>1, <1>2, <1>5
  <2> QED
    BY <1>3, <2>1
<1> HIDE DEF w
<1>10. \A b \in SP .. v - 1 : stack'[b] = stack[b]
  <2>1. \A b \in SP .. v - 1 : b \in SP .. v + 2 * m - 1 /\ b # w
    BY <1>1, <1>5, <1>6
  <2> QED
    BY <1>3, <1>7, <2>1
<1>11. DOMAIN stack' = DOMAIN stack /\ stack'[w] = x
  BY <1>6, <1>7
<1>12. \A i \in 1 .. m : stack'[v + 2 * (i - 1)] = stack[v + 2 * (i - 1)]
  BY <1>7, <1>8, <1>9
<1>13. \A i \in 1 .. m : i # n => stack'[v + 2 * (i - 1) + 1] = stack[v + 2 * (i - 1) + 1]
  BY <1>7, <1>8, <1>9
<1>14. /\ SP \in SP .. v - 1 /\ SP + a + 1 \in SP .. v - 1 /\ SP + a + e + 2 \in SP .. v - 1
       /\ \A i \in 1 .. a : SP + i \in SP .. v - 1
       /\ \A i \in 1 .. e : SP + a + 1 + i \in SP .. v - 1
  BY <1>1, <1>2
<1>15. /\ stack'[SP] = a
       /\ \A i \in 1 .. a : stack'[SP + i] = given.argv[i]
       /\ stack'[SP + a + 1] = 0
       /\ \A i \in 1 .. e : stack'[SP + a + 1 + i] = given.env[i]
       /\ stack'[SP + a + e + 2] = 0
       /\ \A i \in 1 .. m : stack'[v + 2 * (i - 1)] = given.aux[i].tag
  BY <1>4, <1>10, <1>12, <1>14
<1>16. Framed(stack', given)
  BY <1>3, <1>11, <1>15 DEF Framed, a, e, m, v
<1> QED
  BY <1>11, <1>13, <1>16 DEF a, e, m, v, w

LEMMA StepSetAux ==
  ASSUME MiniInv, SetAux
  PROVE  MiniInv'
<1> DEFINE n == reg.at
           x == NewVal(Tag(n), Val(n))
           g == given.aux[n]
<1>1. /\ pc = "set_aux" /\ pc' = "set_aux" /\ UNCHANGED <<sp, given, self, loaded, own, elf, interp>>
      /\ Tag(n) # AT_NULL /\ reg' = [reg EXCEPT !.at = @ + 1]
      /\ stack' = [stack EXCEPT ![auxv + 2 * (n - 1) + 1] = x]
  BY DEF SetAux
<1>2. Handed' /\ Provenance' /\ Me' = Me /\ \A k : File(k)' = File(k)
  BY <1>1, SameWorld DEF MiniInv
<1>3. Objects'
  BY <1>1, <1>2 DEF MiniInv, Objects
<1>4. /\ reg \in Regs /\ reg.env_count = Len(given.env) /\ n <= Len(given.aux)
  BY <1>1 DEF MiniInv, Registers
<1>5. /\ Handed /\ sp = SP /\ Framed(stack, given) /\ Valued(stack, given, n)
      /\ \A i \in 1 .. n - 1 : stack[Vec(given) + 2 * (i - 1) + 1] = Described(given.aux[i].tag, given.aux[i].val)
  BY <1>1 DEF MiniInv, OnStack
<1>6. n \in Nat \ {0} /\ Len(given.aux) \in Nat /\ n \in 1 .. Len(given.aux)
  BY <1>4, <1>5, GivenTyped DEF Regs
<1>7. Tag(n) = g.tag /\ Val(n) = g.val
  <2>1. n \in n .. Len(given.aux)
    BY <1>6
  <2> HIDE DEF n
  <2> QED
    BY <1>4, <1>5, <1>6, <2>1, VectorRead
<1>8. n < Len(given.aux)
  BY <1>1, <1>5, <1>6, <1>7, GivenTyped
<1>9. x = Described(g.tag, g.val)
  <2>1. stack[argv + 1] = given.argv[2]
    BY <1>1, <1>5, StackRead DEF MiniInv, Objects
  <2> QED
    BY <1>7, <2>1 DEF NewVal, Described
<1>10. auxv = Vec(given)
  BY <1>4, <1>5, StackRead
<1> HIDE DEF x
<1>11. /\ Framed(stack', given) /\ stack'[Vec(given) + 2 * (n - 1) + 1] = x
       /\ \A i \in 1 .. Len(given.aux) :
            i # n => stack'[Vec(given) + 2 * (i - 1) + 1] = stack[Vec(given) + 2 * (i - 1) + 1]
  BY <1>1, <1>5, <1>6, <1>10, ValueSet
<1>12. reg' \in Regs /\ reg'.at = n + 1 /\ reg'.env_count = reg.env_count
  <2>1. n + 1 \in Nat \ {0} /\ reg' = [reg EXCEPT !.at = n + 1]
    BY <1>1, <1>6
  <2> QED
    BY <1>4, <2>1, RegAt
<1>13. Registers'
  <2>1. reg'.at <= Len(given.aux)
    BY <1>6, <1>8, <1>12
  <2> QED
    BY <1>1, <1>4, <1>12, <2>1 DEF Registers
<1>14. Valued(stack', given, n + 1)
  <2>1. \A i \in n + 1 .. Len(given.aux) : i \in 1 .. Len(given.aux) /\ i # n /\ i \in n .. Len(given.aux)
    BY <1>6
  <2> QED
    BY <1>5, <1>11, <2>1 DEF Valued
<1>15. \A i \in 1 .. n : stack'[Vec(given) + 2 * (i - 1) + 1] = Described(given.aux[i].tag, given.aux[i].val)
  <2>1. \A i \in 1 .. n : i \in 1 .. Len(given.aux) /\ (i = n \/ i \in 1 .. n - 1)
    BY <1>6
  <2> HIDE DEF n
  <2> QED
    BY <1>5, <1>9, <1>11, <2>1
<1>16. OnStack'
  <2>1. \A tag, val : Described(tag, val)' = Described(tag, val)
    BY <1>1, DescribedSame
  <2>2. reg'.at - 1 = n
    BY <1>6, <1>12
  <2>3. (\A i \in 1 .. reg.at - 1 :
            stack[Vec(given) + 2 * (i - 1) + 1] = Described(given.aux[i].tag, given.aux[i].val))'
    BY <1>1, <1>15, <2>1, <2>2 DEF Vec
  <2>4. Framed(stack, given)' /\ Valued(stack, given, reg.at)'
    BY <1>1, <1>11, <1>12, <1>14
  <2> QED
    BY <1>1, <1>5, <2>3, <2>4 DEF OnStack, Early
<1>17. Done(Len(Me.relas))'
  BY <1>1, <1>2 DEF MiniInv, Relocated, Done
<1>18. Relocated'
  BY <1>1, <1>2, <1>17 DEF MiniInv, Relocated
<1> QED
  BY <1>2, <1>3, <1>13, <1>16, <1>18 DEF MiniInv

(* The words as they are moved are what is to be handed over. *)
LEMMA Moved ==
  ASSUME Handed, Objects, pc = "set_aux", Framed(stack, given), NEW stk,
         \A i \in 1 .. Len(given.aux) :
           stack[Vec(given) + 2 * (i - 1) + 1] = Described(given.aux[i].tag, given.aux[i].val),
         stk = [b \in DOMAIN stack |-> IF b = SP THEN Len(given.argv) - 1
                                       ELSE IF b < Vec(given) + 2 * Len(given.aux) - 1 THEN stack[b + 1] ELSE stack[b]]
  PROVE  Framed(stk, Over) /\ Valued(stk, Over, 1)
<1> DEFINE a == Len(given.argv)
           e == Len(given.env)
           m == Len(given.aux)
           v == Vec(given)
           o == Over
           D(i) == Described(given.aux[i].tag, given.aux[i].val)
<1>1. a \in Nat /\ a >= 2 /\ e \in Nat /\ m \in Nat /\ m >= 1 /\ SP \in Nat
  BY GivenTyped, MiniLoaderAssumption DEF Objects
<1>2. v = SP + a + e + 3
  BY DEF Vec
<1>3. SP .. v + 2 * m - 1 \subseteq DOMAIN stack
  BY DEF Framed
<1>4. /\ \A i \in 1 .. a : stack[SP + i] = given.argv[i]
      /\ stack[SP + a + 1] = 0
      /\ \A i \in 1 .. e : stack[SP + a + 1 + i] = given.env[i]
      /\ stack[SP + a + e + 2] = 0
      /\ \A i \in 1 .. m : stack[v + 2 * (i - 1)] = given.aux[i].tag
  BY DEF Framed
<1>5. \A i \in 1 .. m : stack[v + 2 * (i - 1) + 1] = D(i)
  OBVIOUS
<1>6. /\ Len(o.argv) = a - 1 /\ o.env = given.env /\ Len(o.aux) = m /\ Vec(o) = v - 1
      /\ \A i \in 1 .. a - 1 : o.argv[i] = given.argv[i + 1]
      /\ \A i \in 1 .. m : o.aux[i].tag = given.aux[i].tag /\ o.aux[i].val = D(i)
  BY OverShape
<1>7. stk = [b \in DOMAIN stack |-> IF b = SP THEN a - 1 ELSE IF b < v + 2 * m - 1 THEN stack[b + 1] ELSE stack[b]]
  OBVIOUS
<1>8. Len(o.env) = e
  BY <1>6
<1> HIDE DEF a, e, m, v, o, D
<1>9. DOMAIN stk = DOMAIN stack /\ v \in Nat /\ SP \in DOMAIN stack
  <2>1. v \in Nat /\ SP \in SP .. v + 2 * m - 1
    BY <1>1, <1>2
  <2> QED
    BY <1>3, <1>7, <2>1
<1>10. stk[SP] = a - 1
  BY <1>7, <1>9
<1>11. ASSUME NEW b \in SP + 1 .. v + 2 * m - 2 PROVE stk[b] = stack[b + 1]
  <2>1. b \in SP .. v + 2 * m - 1 /\ b # SP /\ b < v + 2 * m - 1
    BY <1>1, <1>2, <1>9
  <2> QED
    BY <1>3, <1>7, <2>1
<1>12. ASSUME NEW i \in 1 .. a - 1 PROVE stk[SP + i] = o.argv[i]
  <2>1. SP + i \in SP + 1 .. v + 2 * m - 2 /\ (SP + i) + 1 = SP + (i + 1) /\ i + 1 \in 1 .. a
    BY <1>1, <1>2
  <2>2. stk[SP + i] = stack[SP + (i + 1)]
    <3>1. stk[SP + i] = stack[(SP + i) + 1]
      BY <1>11, <2>1
    <3> QED
      BY <2>1, <3>1
  <2>3. stack[SP + (i + 1)] = given.argv[i + 1]
    BY <1>4, <2>1
  <2> QED
    BY <1>6, <2>2, <2>3
<1>13. stk[SP + (a - 1) + 1] = 0
  <2>1. SP + (a - 1) + 1 \in SP + 1 .. v + 2 * m - 2 /\ (SP + (a - 1) + 1) + 1 = SP + a + 1
    BY <1>1, <1>2
  <2> QED
    BY <1>4, <1>11, <2>1
<1>14. ASSUME NEW i \in 1 .. e PROVE stk[SP + (a - 1) + 1 + i] = o.env[i]
  <2>1. SP + (a - 1) + 1 + i \in SP + 1 .. v + 2 * m - 2 /\ (SP + (a - 1) + 1 + i) + 1 = SP + a + 1 + i
    BY <1>1, <1>2
  <2> QED
    BY <1>4, <1>6, <1>11, <2>1
<1>15. stk[SP + (a - 1) + e + 2] = 0
  <2>1. SP + (a - 1) + e + 2 \in SP + 1 .. v + 2 * m - 2 /\ (SP + (a - 1) + e + 2) + 1 = SP + a + e + 2
    BY <1>1, <1>2
  <2> QED
    BY <1>4, <1>11, <2>1
<1>16. ASSUME NEW i \in 1 .. m
       PROVE  stk[(v - 1) + 2 * (i - 1)] = o.aux[i].tag /\ stk[(v - 1) + 2 * (i - 1) + 1] = o.aux[i].val
  <2>1. /\ (v - 1) + 2 * (i - 1) \in SP + 1 .. v + 2 * m - 2 /\ ((v - 1) + 2 * (i - 1)) + 1 = v + 2 * (i - 1)
        /\ (v - 1) + 2 * (i - 1) + 1 \in SP + 1 .. v + 2 * m - 2
        /\ ((v - 1) + 2 * (i - 1) + 1) + 1 = v + 2 * (i - 1) + 1
    BY <1>1, <1>2, <1>9
  <2>2. stk[(v - 1) + 2 * (i - 1)] = stack[((v - 1) + 2 * (i - 1)) + 1]
    BY <1>11, <2>1
  <2>3. stk[(v - 1) + 2 * (i - 1) + 1] = stack[((v - 1) + 2 * (i - 1) + 1) + 1]
    BY <1>11, <2>1
  <2>4. stk[(v - 1) + 2 * (i - 1)] = stack[v + 2 * (i - 1)]
    BY <2>1, <2>2
  <2>5. stk[(v - 1) + 2 * (i - 1) + 1] = stack[v + 2 * (i - 1) + 1]
    BY <2>1, <2>3
  <2> QED
    BY <1>4, <1>5, <1>6, <2>4, <2>5
<1>17. SP .. (v - 1) + 2 * m - 1 \subseteq DOMAIN stk
  <2>1. \A b \in SP .. (v - 1) + 2 * m - 1 : b \in SP .. v + 2 * m - 1
    BY <1>1, <1>9
  <2> QED
    BY <1>3, <1>9, <2>1
<1>18. Framed(stk, o)
  BY <1>6, <1>8, <1>10, <1>12, <1>13, <1>14, <1>15, <1>16, <1>17 DEF Framed
<1>19. Valued(stk, o, 1)
  BY <1>6, <1>16 DEF Valued
<1> QED
  BY <1>18, <1>19 DEF o

LEMMA StepAuxSet ==
  ASSUME MiniInv, AuxSet
  PROVE  MiniInv'
<1> DEFINE n == reg.at
<1>1. /\ pc = "set_aux" /\ pc' = "trampoline" /\ UNCHANGED <<sp, given, self, loaded, own, elf, interp>>
      /\ Tag(n) = AT_NULL /\ reg' = [reg EXCEPT !.at = 1]
      /\ stack' = [b \in DOMAIN stack |-> IF b = sp THEN argc - 1
                                          ELSE IF b < sp + (auxv + 2 * n - (sp + 1)) THEN stack[b + 1] ELSE stack[b]]
  BY DEF AuxSet, Goto
<1>2. Handed' /\ Provenance' /\ Me' = Me /\ \A k : File(k)' = File(k)
  BY <1>1, SameWorld DEF MiniInv
<1>3. Objects'
  BY <1>1, <1>2 DEF MiniInv, Objects
<1>4. /\ reg \in Regs /\ reg.env_count = Len(given.env) /\ n <= Len(given.aux)
  BY <1>1 DEF MiniInv, Registers
<1>5. /\ Handed /\ Objects /\ sp = SP /\ Framed(stack, given) /\ Valued(stack, given, n)
      /\ \A i \in 1 .. n - 1 : stack[Vec(given) + 2 * (i - 1) + 1] = Described(given.aux[i].tag, given.aux[i].val)
  BY <1>1 DEF MiniInv, OnStack
<1>6. n \in Nat \ {0} /\ Len(given.aux) \in Nat /\ n \in 1 .. Len(given.aux)
  BY <1>4, <1>5, GivenTyped DEF Regs
<1>7. auxv = Vec(given) /\ argc = Len(given.argv) /\ Tag(n) = given.aux[n].tag
  BY <1>4, <1>5, <1>6, StackRead
<1>8. n = Len(given.aux)
  BY <1>1, <1>5, <1>6, <1>7, GivenTyped
<1>9. ASSUME NEW i \in 1 .. Len(given.aux)
      PROVE  stack[Vec(given) + 2 * (i - 1) + 1] = Described(given.aux[i].tag, given.aux[i].val)
  <2>1. CASE i = n
    <3>1. stack[Vec(given) + 2 * (i - 1) + 1] = given.aux[i].val
      BY <1>5, <1>6, <2>1 DEF Valued
    <3>2. given.aux[i].tag = AT_NULL
      BY <1>1, <1>7, <2>1
    <3>3. Described(given.aux[i].tag, given.aux[i].val) = given.aux[i].val
      BY <3>2 DEF Described, AT_NULL, AT_PHDR, AT_PHNUM, AT_PHENT, AT_ENTRY, AT_EXECFN, AT_BASE
    <3> QED
      BY <3>1, <3>3
  <2>2. CASE i # n
    <3>1. i \in 1 .. n - 1
      BY <1>6, <1>8, <2>2
    <3> QED
      BY <1>5, <3>1
  <2> QED
    BY <2>1, <2>2
<1>10. sp + (auxv + 2 * n - (sp + 1)) = Vec(given) + 2 * Len(given.aux) - 1
  <2>1. Vec(given) \in Nat /\ SP \in Nat
    <3>1. Len(given.argv) \in Nat /\ Len(given.env) \in Nat /\ SP \in Nat
      BY <1>5, GivenTyped, MiniLoaderAssumption
    <3> QED
      BY <3>1, Sums DEF Vec
  <2> QED
    BY <1>5, <1>6, <1>7, <1>8, <2>1
<1>11. stack' = [b \in DOMAIN stack |-> IF b = SP THEN Len(given.argv) - 1
                                        ELSE IF b < Vec(given) + 2 * Len(given.aux) - 1
                                             THEN stack[b + 1] ELSE stack[b]]
  BY <1>1, <1>5, <1>7, <1>10
<1>12. Framed(stack', Over) /\ Valued(stack', Over, 1)
  BY <1>1, <1>5, <1>9, <1>11, Moved
<1>13. Over' = Over
  BY <1>1, DescribedSame
<1>14. OnStack'
  BY <1>1, <1>5, <1>12, <1>13 DEF OnStack, Early
<1>15. reg' \in Regs
  BY <1>1, <1>4, RegAt1
<1>16. Registers'
  BY <1>1, <1>15 DEF Registers
<1>17. Done(Len(Me.relas))'
  BY <1>1, <1>2 DEF MiniInv, Relocated, Done
<1>18. Relocated'
  BY <1>1, <1>2, <1>17 DEF MiniInv, Relocated
<1> QED
  BY <1>2, <1>3, <1>14, <1>16, <1>18 DEF MiniInv

(* What the next mini-loader finds is what is to be handed over. *)
LEMMA NewIsOver ==
  ASSUME Handed, Objects, OnStack, pc \in {"trampoline", "running"}
  PROVE  NewGiven = Over
<1> DEFINE a == Len(given.argv)
           e == Len(given.env)
           m == Len(given.aux)
           X(i) == [tag |-> stack[sp + (a + e + 2) + 2 * (i - 1)], val |-> stack[sp + (a + e + 2) + 2 * (i - 1) + 1]]
           D(i) == [tag |-> given.aux[i].tag, val |-> Described(given.aux[i].tag, given.aux[i].val)]
<1>1. /\ a \in Nat /\ a >= 2 /\ e \in Nat /\ m \in Nat /\ SP \in Nat /\ sp = SP
      /\ DOMAIN given.aux = 1 .. m /\ given.argv \in Seq(DOMAIN Named)
  BY GivenTyped, MiniLoaderAssumption DEF Objects, OnStack, Handed
<1>2. Framed(stack, Over) /\ Valued(stack, Over, 1)
  BY DEF OnStack
<1>3. /\ Len(Over.argv) = a - 1 /\ Over.argv = Tail(given.argv) /\ Len(Over.aux) = m /\ Vec(Over) = Vec(given) - 1
      /\ \A i \in 1 .. m : /\ Over.aux[i].tag = given.aux[i].tag
                           /\ Over.aux[i].val = Described(given.aux[i].tag, given.aux[i].val)
  BY OverShape
<1>4. Vec(Over) = SP + (a + e + 2)
  <2>1. Vec(given) = SP + a + e + 3
    BY DEF Vec
  <2> HIDE DEF a, e
  <2>2. (SP + a + e + 3) - 1 = SP + (a + e + 2)
    BY <1>1
  <2> QED
    BY <1>3, <2>1, <2>2
<1>5. argc = a - 1 /\ \A i \in 1 .. a - 1 : stack[sp + i] = Tail(given.argv)[i]
  BY <1>1, <1>2, <1>3 DEF argc, Framed
<1>6. [i \in 1 .. argc |-> stack[sp + i]] = Tail(given.argv)
  <2>1. Tail(given.argv) = [i \in 1 .. a - 1 |-> Tail(given.argv)[i]]
    <3>1. Tail(given.argv) \in Seq(DOMAIN Named) /\ Len(Tail(given.argv)) = a - 1
      BY <1>1, TailParts
    <3> QED
      BY <3>1
  <2> QED
    BY <1>5, <2>1
<1>7. ASSUME NEW i \in 1 .. m PROVE X(i) = D(i)
  <2>1. stack[Vec(Over) + 2 * (i - 1)] = Over.aux[i].tag
    BY <1>2, <1>3 DEF Framed
  <2>2. stack[Vec(Over) + 2 * (i - 1) + 1] = Over.aux[i].val
    BY <1>2, <1>3 DEF Valued
  <2> QED
    BY <1>1, <1>3, <1>4, <2>1, <2>2
<1>8. NewGiven = [argv |-> [i \in 1 .. argc |-> stack[sp + i]], env |-> given.env, aux |-> [i \in 1 .. m |-> X(i)]]
  BY <1>1 DEF NewGiven
<1>9. Over = [argv |-> Tail(given.argv), env |-> given.env, aux |-> [i \in 1 .. m |-> D(i)]]
  BY <1>1 DEF Over
<1> HIDE DEF X, D
<1>10. [i \in 1 .. m |-> X(i)] = [i \in 1 .. m |-> D(i)]
  BY <1>7
<1> QED
  BY <1>6, <1>8, <1>9, <1>10

(* The values of a tag that are handed over. *)
LEMMA OverVals ==
  ASSUME Handed, Objects, pc \in {"set_aux", "trampoline", "running"}, NEW tag
  PROVE  /\ \A x \in Vals(Over.aux, tag) : \E v \in Nat : x = Described(tag, v)
         /\ Vals(given.aux, tag) # {} => Vals(Over.aux, tag) # {}
<1>1. /\ DOMAIN given.aux = 1 .. Len(given.aux)
      /\ \A i \in 1 .. Len(given.aux) : given.aux[i].val \in Nat
  BY GivenTyped
<1>2. /\ DOMAIN Over.aux = DOMAIN given.aux
      /\ \A i \in DOMAIN given.aux : /\ Over.aux[i].tag = given.aux[i].tag
                                     /\ Over.aux[i].val = Described(given.aux[i].tag, given.aux[i].val)
  BY <1>1, OverShape
<1>3. ASSUME NEW x \in Vals(Over.aux, tag) PROVE \E v \in Nat : x = Described(tag, v)
  <2>1. PICK i \in DOMAIN Over.aux : Over.aux[i].tag = tag /\ x = Over.aux[i].val
    BY DEF Vals
  <2> QED
    BY <1>1, <1>2, <2>1
<1>4. ASSUME Vals(given.aux, tag) # {} PROVE Vals(Over.aux, tag) # {}
  <2>1. PICK i \in DOMAIN given.aux : given.aux[i].tag = tag
    BY <1>4 DEF Vals
  <2>2. Over.aux[i].val \in Vals(Over.aux, tag)
    BY <1>2, <2>1 DEF Vals
  <2> QED
    BY <2>2
<1> QED
  BY <1>3, <1>4

LEMMA HasDynamic ==
  ASSUME NEW f \in DOMAIN Files, Files[f].relas # <<>>
  PROVE  Len(Files[f].dynamic) \in Nat /\ 1 <= Len(Files[f].dynamic)
<1>1. \E i \in DOMAIN Files[f].dynamic : Files[f].dynamic[i].tag = "NULL"
  BY MiniLoaderAssumption DEF FileMade
<1> QED
  BY <1>1, FileTyped

LEMMA StepAgain ==
  ASSUME MiniInv, Again
  PROVE  MiniInv'
<1>1. /\ pc = "trampoline" /\ File(Target).relas # <<>> /\ given' = NewGiven
      /\ self' = Target /\ own' = Unrelocated(loaded[Target].file)
      /\ pc' = "dynamic" /\ reg' = NoReg /\ elf' = 0 /\ interp' = 0
      /\ UNCHANGED <<stack, sp, loaded>>
  BY DEF Again
<1>2. Handed /\ Objects /\ Provenance /\ OnStack
  BY DEF MiniInv
<1>3. given' = Over
  BY <1>1, <1>2, NewIsOver
<1>4. /\ elf > 1 /\ elf \in DOMAIN loaded /\ (interp = 0 \/ (interp > 1 /\ interp \in DOMAIN loaded))
  BY <1>1, <1>2 DEF Objects
<1>5. Target > 1 /\ Target \in DOMAIN loaded
  BY <1>4 DEF Target
<1>6. Handed'
  <2>1. /\ Over.argv \in Seq(DOMAIN Named) /\ Over.argv # <<>> /\ Over.env = given.env
        /\ Over.aux \in Seq([tag : Nat, val : Nat]) /\ Len(Over.aux) = Len(given.aux)
        /\ DOMAIN Over.aux = 1 .. Len(given.aux)
        /\ \A i \in 1 .. Len(given.aux) : Over.aux[i].tag = given.aux[i].tag
    BY <1>1, <1>2, OverShape
  <2>2. Len(given.aux) \in Nat /\ Len(given.aux) >= 1 /\ DOMAIN given.aux = 1 .. Len(given.aux)
    BY <1>2, GivenTyped
  <2>3. Over.aux # <<>>
    <3>1. 1 \in DOMAIN Over.aux
      BY <2>1, <2>2
    <3> QED
      BY <3>1
  <2>4. \A i \in DOMAIN Over.aux : Over.aux[i].tag = AT_NULL <=> i = Len(Over.aux)
    BY <1>2, <2>1, <2>2 DEF Handed
  <2>5. given.env \in Seq(Nat \ {0})
    BY <1>2 DEF Handed
  <2> QED
    BY <1>3, <2>1, <2>3, <2>4, <2>5 DEF Handed
<1>7. \A k : File(k)' = File(k) /\ PhdrPtr(k)' = PhdrPtr(k)
  BY <1>1 DEF File, PhdrPtr
<1>8. Me' = File(Target)
  BY <1>1 DEF Me, File
<1>9. Objects'
  BY <1>1, <1>2, <1>5, <1>7, <1>8 DEF Objects
<1>10. Provenance'
  <2>1. ASSUME NEW tag PROVE Given(tag)' = Vals(Over.aux, tag)
    BY <1>3 DEF Given
  <2>2. ASSUME NEW tag
        PROVE  /\ \A x \in Given(tag)' : \E v \in Nat : x = Described(tag, v)
               /\ Given(tag) # {} => Given(tag)' # {}
    BY <1>1, <1>2, <2>1, OverVals DEF Given
  <2>3. (Given(AT_BASE) # {} \/ Given(AT_PHDR) # {})'
    BY <1>2, <2>2 DEF Provenance
  <2>4. Given(AT_BASE)' \subseteq Nat \ {0}
    <3>1. \A v \in Nat : Described(AT_BASE, v) \in Nat \ {0}
      BY <1>1, <1>2, DescribedTyped
    <3> QED
      BY <2>2, <3>1
  <2>5. \A v : Described(AT_PHDR, v) = PhdrPtr(elf) /\ Described(AT_PHNUM, v) = Len(File(elf).phdrs)
    BY DEF Described, AT_PHDR, AT_PHNUM, AT_PHENT, AT_ENTRY, AT_EXECFN, AT_BASE
  <2>6. Given(AT_PHDR)' \subseteq {PhdrPtr(elf)} /\ Given(AT_PHNUM)' \subseteq {Len(File(elf).phdrs)}
    BY <2>2, <2>5
  <2>7. \E k \in DOMAIN loaded' : Given(AT_PHDR)' \subseteq {PhdrPtr(k)'} /\ Given(AT_PHNUM)' \subseteq {Len(File(k)'.phdrs)}
    BY <1>1, <1>4, <1>7, <2>6
  <2>8. self' > 1 /\ self' # 1
    <3>1. Target \in Nat
      BY <1>2, <1>5, ObjectTyped
    <3> QED
      BY <1>1, <1>5, <3>1
  <2> QED
    BY <2>3, <2>4, <2>7, <2>8 DEF Provenance
<1>11. OnStack'
  BY <1>1, <1>2, <1>3 DEF OnStack, Early
<1>12. Registers'
  <2>1. NoReg \in Regs
    BY DEF NoReg, Regs
  <2>2. loaded[Target].file \in DOMAIN Files
    BY <1>2, <1>5, ObjectTyped
  <2>3. Len(Me'.dynamic) \in Nat /\ 1 <= Len(Me'.dynamic)
    BY <1>1, <1>8, <2>2, HasDynamic DEF File
  <2>4. /\ NoReg.rela_count = <<>> /\ NoReg.base = 0 /\ NoReg.ph = 0 /\ NoReg.phnum = 0 /\ NoReg.env_count = 0
        /\ NoReg.at = 1
    BY DEF NoReg
  <2> QED
    BY <1>1, <2>1, <2>3, <2>4 DEF Registers, Counts
<1>13. Relocated'
  <2>1. DOMAIN own' = {Files[loaded[Target].file].relas[i].off : i \in DOMAIN Files[loaded[Target].file].relas}
    BY <1>1 DEF Unrelocated
  <2>2. DOMAIN own' = {Me'.relas[i].off : i \in DOMAIN Me'.relas}
    BY <1>8, <2>1 DEF File
  <2> QED
    BY <1>1, <2>2 DEF Relocated
<1> QED
  BY <1>6, <1>9, <1>10, <1>11, <1>12, <1>13 DEF MiniInv

-----------------------------------------------------------------------------
(* The stack a kernel makes. *)
LEMMA KernelStack ==
  ASSUME NEW s \in Starts, NEW g, g = [argv |-> s.argv, env |-> s.env, aux |-> s.aux]
  PROVE  Framed(StackOf(s), g) /\ Valued(StackOf(s), g, 1)
<1> DEFINE a == Len(s.argv)
           e == Len(s.env)
           m == Len(s.aux)
           str == SP + a + 1
           last == str + e + 1
           Aux(n) == IF n % 2 = 0 THEN s.aux[n \div 2 + 1].tag ELSE s.aux[n \div 2 + 1].val
           W(b) == IF b = SP THEN a
                   ELSE IF b \in {str, last} THEN 0
                   ELSE IF b < str THEN s.argv[b - SP]
                   ELSE IF b < last THEN s.env[b - str]
                   ELSE Aux(b - last - 1)
           stk == StackOf(s)
<1>1. a \in Nat /\ e \in Nat /\ m \in Nat /\ SP \in Nat
  BY SeqTyped, MiniLoaderAssumption DEF StartMade
<1>2. stk = [b \in SP .. last + 2 * m |-> W(b)]
  BY DEF StackOf
<1>3. Vec(g) = last + 1
  <2>1. Vec(g) = SP + a + e + 3
    BY DEF Vec
  <2> HIDE DEF a, e
  <2>2. SP + a + e + 3 = last + 1
    BY <1>1
  <2> QED
    BY <2>1, <2>2
<1>4. g.argv = s.argv /\ g.env = s.env /\ g.aux = s.aux
  OBVIOUS
<1> HIDE DEF stk, a, e, m, Aux
<1>5. str \in Nat /\ last \in Nat /\ str > SP /\ last > str
  BY <1>1
<1>6. ASSUME NEW b \in SP .. last + 2 * m PROVE stk[b] = W(b)
  BY <1>2
<1>7. stk[SP] = a
  BY <1>1, <1>5, <1>6
<1>8. ASSUME NEW i \in 1 .. a PROVE stk[SP + i] = s.argv[i]
  <2>1. /\ SP + i \in SP .. last + 2 * m /\ SP + i # SP /\ SP + i \notin {str, last} /\ SP + i < str
        /\ (SP + i) - SP = i
    BY <1>1
  <2> HIDE DEF str, last
  <2> QED
    BY <1>6, <2>1
<1>9. stk[str] = 0 /\ stk[last] = 0
  <2>1. str \in SP .. last + 2 * m /\ last \in SP .. last + 2 * m /\ str # SP /\ last # SP
    BY <1>1
  <2> HIDE DEF str, last
  <2> QED
    BY <1>6, <2>1
<1>10. ASSUME NEW i \in 1 .. e PROVE stk[str + i] = s.env[i]
  <2>1. /\ str + i \in SP .. last + 2 * m /\ str + i # SP /\ str + i \notin {str, last}
        /\ ~(str + i < str) /\ str + i < last /\ (str + i) - str = i
    BY <1>1
  <2> HIDE DEF str, last
  <2> QED
    BY <1>6, <2>1
<1>11. ASSUME NEW i \in 1 .. m
       PROVE  stk[last + 1 + 2 * (i - 1)] = s.aux[i].tag /\ stk[last + 1 + 2 * (i - 1) + 1] = s.aux[i].val
  <2> DEFINE n == 2 * (i - 1)
  <2>1. n % 2 = 0 /\ n \div 2 + 1 = i /\ (n + 1) % 2 # 0 /\ (n + 1) \div 2 + 1 = i
    BY <1>1
  <2>2. Aux(n) = s.aux[i].tag /\ Aux(n + 1) = s.aux[i].val
    BY <2>1 DEF Aux
  <2>3. /\ \A c \in {n, n + 1} :
             /\ last + 1 + c \in SP .. last + 2 * m /\ last + 1 + c # SP /\ last + 1 + c \notin {str, last}
             /\ ~(last + 1 + c < str) /\ ~(last + 1 + c < last) /\ (last + 1 + c) - last - 1 = c
    BY <1>1, <1>5
  <2>4. last + 1 + n + 1 = last + 1 + (n + 1)
    BY <1>1, <1>5
  <2> HIDE DEF n, str, last
  <2>5. \A c \in {n, n + 1} : stk[last + 1 + c] = Aux(c)
    BY <1>6, <2>3
  <2>6. stk[last + 1 + n] = Aux(n) /\ stk[last + 1 + n + 1] = Aux(n + 1)
    BY <2>4, <2>5
  <2> QED
    BY <2>2, <2>6 DEF n
<1>12. SP .. (last + 1) + 2 * m - 1 \subseteq DOMAIN stk
  <2>1. (last + 1) + 2 * m - 1 = last + 2 * m
    BY <1>1, <1>5
  <2> HIDE DEF str, last
  <2> QED
    BY <1>2, <2>1
<1>13. SP + a + e + 2 = last /\ \A i \in 1 .. e : SP + a + 1 + i = str + i
  BY <1>1
<1>14. Framed(stk, g)
  <2>1. /\ stk[SP] = Len(g.argv)
        /\ \A i \in 1 .. Len(g.argv) : stk[SP + i] = g.argv[i]
    BY <1>4, <1>7, <1>8 DEF a
  <2>2. stk[SP + Len(g.argv) + 1] = 0 /\ stk[SP + Len(g.argv) + Len(g.env) + 2] = 0
    BY <1>4, <1>9, <1>13 DEF a, e
  <2>3. \A i \in 1 .. Len(g.env) : stk[SP + Len(g.argv) + 1 + i] = g.env[i]
    BY <1>4, <1>10 DEF a, e
  <2>4. \A i \in 1 .. Len(g.aux) : stk[Vec(g) + 2 * (i - 1)] = g.aux[i].tag
    BY <1>3, <1>4, <1>11 DEF m
  <2>5. SP .. Vec(g) + 2 * Len(g.aux) - 1 \subseteq DOMAIN stk
    BY <1>3, <1>4, <1>12 DEF m
  <2> QED
    BY <2>1, <2>2, <2>3, <2>4, <2>5 DEF Framed
<1>15. Valued(stk, g, 1)
  BY <1>3, <1>4, <1>11 DEF Valued, m
<1> QED
  BY <1>14, <1>15 DEF stk

LEMMA InitInv == Init => MiniInv
<1> SUFFICES ASSUME Init PROVE MiniInv
  OBVIOUS
<1>1. PICK s \in Starts :
        /\ stack = StackOf(s) /\ sp = SP
        /\ given = [argv |-> s.argv, env |-> s.env, aux |-> s.aux]
        /\ loaded = <<[file |-> s.file, base |-> Apart]>> /\ self = 1
        /\ own = Unrelocated(s.file)
        /\ pc = "dynamic" /\ reg = NoReg /\ elf = 0 /\ interp = 0
  BY DEF Init
<1>2. StartMade(s) /\ Apart \in Nat \ {0}
  BY MiniLoaderAssumption
<1>3. given.argv = s.argv /\ given.env = s.env /\ given.aux = s.aux
  BY <1>1
<1>4. Handed
  BY <1>2, <1>3 DEF Handed, StartMade
<1>5. s.file \in DOMAIN Files /\ Files[s.file].pie /\ Files[s.file].relas # <<>>
  BY <1>2 DEF StartMade
<1>6. /\ loaded \in Seq([file : DOMAIN Files, base : Nat]) /\ DOMAIN loaded = {1}
      /\ loaded[1].file = s.file /\ loaded[1].base = Apart
  <2> DEFINE o == [file |-> s.file, base |-> Apart]
             O == [file : DOMAIN Files, base : Nat]
  <2>1. o \in O /\ o.file = s.file /\ o.base = Apart
    BY <1>2, <1>5
  <2>2. loaded = <<o>>
    BY <1>1
  <2> HIDE DEF o, O
  <2>3. loaded \in Seq(O) /\ DOMAIN loaded = {1} /\ loaded[1] = o
    BY <2>1, <2>2
  <2> QED
    BY <2>1, <2>3 DEF O
<1>7. Me = Files[s.file] /\ File(1) = Files[s.file]
  BY <1>1, <1>6 DEF Me, File
<1>8. Objects
  <2>1. Apart * 1 = Apart
    BY <1>2
  <2>2. \A k \in DOMAIN loaded : loaded[k].base = IF File(k).pie THEN Apart * k ELSE 0
    BY <1>5, <1>6, <1>7, <2>1
  <2> QED
    BY <1>1, <1>5, <1>6, <1>7, <2>2 DEF Objects
<1>9. Provenance
  <2>1. \A tag : Given(tag) = Vals(s.aux, tag)
    BY <1>3 DEF Given
  <2>2. PhdrPtr(self) = Apart + Files[s.file].phoff
    BY <1>1, <1>6, <1>7 DEF PhdrPtr
  <2>3. \/ Given(AT_BASE) = {loaded[self].base}
        \/ /\ Given(AT_BASE) \subseteq {0} /\ Given(AT_PHDR) = {PhdrPtr(self)}
           /\ Given(AT_PHNUM) \subseteq {Len(Me.phdrs)}
    BY <1>1, <1>2, <1>6, <1>7, <2>1, <2>2 DEF StartMade
  <2> QED
    BY <1>1, <1>5, <1>7, <2>3 DEF Provenance
<1>10. OnStack
  <2>1. Framed(stack, given) /\ Valued(stack, given, 1)
    BY <1>1, KernelStack
  <2> QED
    BY <1>1, <2>1 DEF OnStack, Early
<1>11. Registers
  <2>1. NoReg \in Regs
    BY DEF NoReg, Regs
  <2>2. Len(Me.dynamic) \in Nat /\ 1 <= Len(Me.dynamic)
    BY <1>5, <1>7, HasDynamic
  <2>3. /\ NoReg.rela_count = <<>> /\ NoReg.base = 0 /\ NoReg.ph = 0 /\ NoReg.phnum = 0 /\ NoReg.env_count = 0
        /\ NoReg.at = 1
    BY DEF NoReg
  <2> QED
    BY <1>1, <2>1, <2>2, <2>3 DEF Registers, Counts
<1>12. Relocated
  <2>1. DOMAIN own = {Me.relas[i].off : i \in DOMAIN Me.relas}
    BY <1>1, <1>7 DEF Unrelocated
  <2> QED
    BY <1>1, <2>1 DEF Relocated
<1> QED
  BY <1>4, <1>8, <1>9, <1>10, <1>11, <1>12 DEF MiniInv

LEMMA StepInv == MiniInv /\ [Next]_vars => MiniInv'
<1> SUFFICES ASSUME MiniInv, [Next]_vars PROVE MiniInv'
  OBVIOUS
<1>1. CASE ScanDynamic \/ DynamicRead
  BY <1>1, StepDynamic
<1>2. CASE CountEnv \/ EnvCounted
  BY <1>2, StepEnv
<1>3. CASE ScanAux \/ AuxRead
  BY <1>3, StepAux
<1>4. CASE FindBase
  BY <1>4, StepBase
<1>5. CASE Relocate
  BY <1>5, StepRelocate
<1>6. CASE SelfRelocated
  BY <1>6, StepSelfRelocated
<1>7. CASE NoRelocations \/ NoDynamicPhdr \/ WildRelocation \/ NoInputFile \/ LoadFails
  BY <1>7, StepStops
<1>8. CASE LoadElf \/ LoadInterp
  BY <1>8, StepLoad
<1>9. CASE NoInterp
  BY <1>9, StepNoInterp
<1>10. CASE SetAux
  BY <1>10, StepSetAux
<1>11. CASE AuxSet
  BY <1>11, StepAuxSet
<1>12. CASE Trampoline
  BY <1>12, StepTrampoline
<1>13. CASE Again
  BY <1>13, StepAgain
<1>14. CASE UNCHANGED vars
  <2>1. UNCHANGED <<stack, sp, given, self, loaded, own, pc, reg, elf, interp>>
    BY <1>14 DEF vars
  <2>2. Handed' /\ Provenance' /\ Me' = Me /\ (\A k : File(k)' = File(k)) /\ (\A tag : Given(tag)' = Given(tag))
        /\ (Explained => Explained')
    BY <2>1, SameWorld DEF MiniInv
  <2>3. Objects'
    BY <2>1, <2>2 DEF MiniInv, Objects
  <2>4. (\A tag, val : Described(tag, val)' = Described(tag, val)) /\ Over' = Over
    BY <2>1, DescribedSame
  <2>5. OnStack'
    <3>1. (\A i \in 1 .. reg.at - 1 :
             stack[Vec(given) + 2 * (i - 1) + 1] = Described(given.aux[i].tag, given.aux[i].val))'
          <=> (\A i \in 1 .. reg.at - 1 :
                 stack[Vec(given) + 2 * (i - 1) + 1] = Described(given.aux[i].tag, given.aux[i].val))
      BY <2>1, <2>4 DEF Vec
    <3> QED
      BY <2>1, <2>4, <3>1 DEF MiniInv, OnStack
  <2>6. Registers'
    BY <2>1, <2>2 DEF MiniInv, Registers, Counts, Noted, Learned, TableFound
  <2>7. Relocated'
    BY <2>1, <2>2 DEF MiniInv, Relocated, Done
  <2> QED
    BY <2>2, <2>3, <2>5, <2>6, <2>7 DEF MiniInv
<1> QED
  BY <1>1, <1>2, <1>3, <1>4, <1>5, <1>6, <1>7, <1>8, <1>9, <1>10, <1>11, <1>12, <1>13, <1>14 DEF Next

-----------------------------------------------------------------------------
(* In every reachable state, for any files, any arguments and any vector   *)
(* a kernel makes, however many mini-loaders have started each other.      *)
THEOREM MiniInvariant == Spec => []MiniInv
BY InitInv, StepInv, PTL DEF Spec

(* rust_main relocates itself right before it calls anything, and writes   *)
(* elsewhere only in the cases that Bootstrapped names.                    *)
THEOREM SelfRelocationRight == Spec => []Bootstrapped
<1>1. ASSUME MiniInv PROVE Bootstrapped
  <2>1. /\ loaded[self].file \in DOMAIN Files /\ Me = Files[loaded[self].file]
    BY <1>1, ObjectTyped DEF MiniInv, Objects, Me, File
  <2>2. Len(Me.relas) \in Nat /\ DOMAIN Me.relas = 1 .. Len(Me.relas)
    BY <2>1, FileTyped
  <2>3. \A i \in DOMAIN Me.relas : i <= Len(Me.relas)
    BY <2>2
  <2>4. pc \in {"load", "interp", "set_aux", "trampoline"} => Done(Len(Me.relas))
    BY <1>1 DEF MiniInv, Relocated
  <2>5. pc = "wild" => Explained
    BY <1>1 DEF MiniInv, Relocated
  <2> QED
    BY <2>3, <2>4, <2>5 DEF Bootstrapped, Done, Explained
<1> QED
  BY <1>1, MiniInvariant, PTL

(* At the jump the stack is what a kernel that had been asked to start the *)
(* program would have made of it, for any length of its three parts.       *)
THEOREM StackHandedOver == Spec => []HandsOver
<1>1. ASSUME MiniInv PROVE HandsOver
  <2> SUFFICES ASSUME pc \in {"trampoline", "running"} PROVE HandsOver
    BY DEF HandsOver
  <2> DEFINE n == Len(given.aux)
             new == Over.aux
             a == Len(given.argv)
             e == Len(given.env)
  <2>1. Handed /\ Objects /\ OnStack /\ NewGiven = Over
    BY <1>1, NewIsOver DEF MiniInv
  <2>2. sp = SP /\ Framed(stack, Over)
    BY <2>1 DEF OnStack
  <2>3. /\ a \in Nat /\ e \in Nat /\ SP \in Nat /\ SP % 2 = 0 /\ DOMAIN given.env = 1 .. e
        /\ DOMAIN given.aux = 1 .. n
    BY <2>1, GivenTyped, MiniLoaderAssumption
  <2>4. /\ Over.argv = Tail(given.argv) /\ Over.env = given.env /\ Len(Over.argv) = a - 1
        /\ \A i \in 1 .. n : /\ new[i].tag = given.aux[i].tag
                             /\ new[i].val = Described(given.aux[i].tag, given.aux[i].val)
    BY <2>1, OverShape
  <2>5. elf \in DOMAIN loaded /\ loaded[elf].file = Named[given.argv[2]]
    BY <2>1 DEF Objects
  <2>6. sp % 2 = 0 /\ stack[sp] = a - 1
    BY <2>2, <2>3, <2>4 DEF Framed
  <2>7. \A i \in 1 .. e : stack[SP + (a - 1) + 1 + i] = given.env[i]
    BY <2>2, <2>4 DEF Framed
  <2>8. stack[SP + (a - 1) + 1] = 0 /\ stack[SP + (a - 1) + e + 2] = 0
    BY <2>2, <2>4 DEF Framed
  <2>9. /\ \A i \in DOMAIN given.env : stack[sp + a + i] = given.env[i]
        /\ stack[sp + a] = 0 /\ stack[sp + a + e + 1] = 0
    <3> HIDE DEF a, e
    <3>1. SP + (a - 1) + 1 = SP + a /\ SP + (a - 1) + e + 2 = SP + a + e + 1
      BY <2>3
    <3>2. \A i \in 1 .. e : SP + (a - 1) + 1 + i = SP + a + i
      BY <2>3
    <3> QED
      BY <2>2, <2>3, <2>7, <2>8, <3>1, <3>2
  <2>10. ASSUME NEW i \in DOMAIN given.aux
         PROVE  /\ new[i].tag = given.aux[i].tag
                /\ given.aux[i].tag \notin {AT_PHDR, AT_PHENT, AT_PHNUM, AT_BASE, AT_ENTRY, AT_EXECFN} =>
                     new[i].val = given.aux[i].val
    BY <2>3, <2>4 DEF Described
  <2>11. \A tag : \A x \in Vals(new, tag) : \E v : x = Described(tag, v)
    BY <2>1, OverVals
  <2>12. \A v : /\ Described(AT_PHDR, v) = PhdrPtr(elf) /\ Described(AT_PHNUM, v) = Len(File(elf).phdrs)
                /\ Described(AT_EXECFN, v) = given.argv[2] /\ Described(AT_ENTRY, v) = Entry(elf)
                /\ Described(AT_PHENT, v) = PhdrSize
    BY DEF Described, AT_PHDR, AT_PHNUM, AT_PHENT, AT_ENTRY, AT_EXECFN, AT_BASE
  <2>13. /\ \A x \in Vals(new, AT_PHDR) : \E k \in DOMAIN loaded :
              loaded[k].file = Named[given.argv[2]] /\ x = PhdrPtr(k)
         /\ \A x \in Vals(new, AT_ENTRY) : \E k \in DOMAIN loaded :
              loaded[k].file = Named[given.argv[2]] /\ x = Entry(k)
    BY <2>5, <2>11, <2>12
  <2>14. Vals(new, AT_PHENT) \subseteq {PhdrSize} /\ Vals(new, AT_EXECFN) \subseteq {given.argv[2]}
    BY <2>11, <2>12
  <2>15. Vals(new, AT_PHNUM) \subseteq {Len(Files[Named[given.argv[2]]].phdrs)}
    <3>1. File(elf) = Files[Named[given.argv[2]]]
      BY <2>5 DEF File
    <3> QED
      BY <2>11, <2>12, <3>1
  <2> QED
    BY <2>1, <2>4, <2>6, <2>9, <2>10, <2>13, <2>14, <2>15 DEF HandsOver
<1> QED
  BY <1>1, MiniInvariant, PTL

=============================================================================
