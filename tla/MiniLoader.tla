----------------------------- MODULE MiniLoader -----------------------------
(***************************************************************************)
(* The mini-loader (mini-loader/src/main.rs): a static PIE that relocates  *)
(* itself, loads the program its first argument names and, if the program  *)
(* has one, its interpreter, rewrites the auxiliary vector, removes itself *)
(* from the arguments and jumps.  The program may be a mini-loader again.  *)
(*                                                                         *)
(* Memory is counted in words.  A pointer to a string is the number that   *)
(* Named maps to a file; load! is the model of module Loader, of which     *)
(* only the outcome matters here.  What print_str writes is left out.      *)
(***************************************************************************)
EXTENDS Integers, Sequences

CONSTANTS
  Files,      \* Files[f]: [ok, pie, entry, phoff, phdrs, dynamic, relas, interp]
  Named,      \* Named[p]: the file that the string at p names
  Starts,     \* how the kernel starts a mini-loader: [file, argv, env, aux]
  SP,         \* the stack pointer it gives
  Apart       \* distance of the addresses of two loaded objects

NoFile == "none"

AT_NULL   == 0
AT_PHDR   == 3
AT_PHENT  == 4
AT_PHNUM  == 5
AT_BASE   == 7
AT_ENTRY  == 9
AT_EXECFN == 31
PhdrSize  == 56

(* The values an auxiliary vector has for a tag. *)
Vals(aux, tag) == {aux[i].val : i \in {j \in DOMAIN aux : aux[j].tag = tag}}

(* A file.  Objects lie apart, so headers of two of them are at different  *)
(* addresses.  One with relocations is a mini-loader, a static PIE: it has *)
(* PT_DYNAMIC, its dynamic section ends, DT_RELACOUNT, if there is one,    *)
(* counts all relocations, and each is for a word of its own.              *)
FileMade(f) ==
  /\ f.ok \in BOOLEAN /\ f.pie \in BOOLEAN /\ f.entry \in Nat \ {0} /\ f.phoff \in 0 .. Apart - 1
  /\ f.phdrs \in Seq([p_type : STRING, p_vaddr : Nat])
  /\ \A i, j \in DOMAIN f.phdrs :
       f.phdrs[i].p_type = "DYNAMIC" /\ f.phdrs[j].p_type = "DYNAMIC" => f.phdrs[i].p_vaddr = f.phdrs[j].p_vaddr
  /\ f.dynamic \in Seq([tag : STRING, val : Nat]) /\ f.relas \in Seq([off : Nat, addend : Nat])
  /\ f.interp \in DOMAIN Files \cup {NoFile}
  /\ f.relas # <<>> =>
       /\ \E i \in DOMAIN f.phdrs : f.phdrs[i].p_type = "DYNAMIC"
       /\ \E i \in DOMAIN f.dynamic : f.dynamic[i].tag = "NULL"
       /\ \A i \in DOMAIN f.dynamic : f.dynamic[i].tag = "RELACOUNT" => f.dynamic[i].val = Len(f.relas)
       /\ \A i, j \in DOMAIN f.relas : f.relas[i].off = f.relas[j].off => i = j

(* What kernels do: AT_NULL ends the vector, and either AT_BASE is where   *)
(* the mini-loader is or it is 0 or missing and AT_PHDR has its headers.   *)
StartMade(s) ==
  /\ s.file \in DOMAIN Files /\ Files[s.file].pie /\ Files[s.file].relas # <<>>
  /\ s.argv \in Seq(DOMAIN Named) /\ s.argv # <<>> /\ s.env \in Seq(Nat \ {0})
  /\ s.aux \in Seq([tag : Nat, val : Nat]) /\ s.aux # <<>>
  /\ \A i \in DOMAIN s.aux : s.aux[i].tag = AT_NULL <=> i = Len(s.aux)
  /\ \/ Vals(s.aux, AT_BASE) = {Apart}
     \/ /\ Vals(s.aux, AT_BASE) \subseteq {0}
        /\ Vals(s.aux, AT_PHDR) = {Apart + Files[s.file].phoff}
        /\ Vals(s.aux, AT_PHNUM) \subseteq {Len(Files[s.file].phdrs)}

ASSUME MiniLoaderAssumption ==
  /\ SP \in Nat /\ SP % 2 = 0 /\ Apart \in Nat \ {0}
  /\ NoFile \notin DOMAIN Files /\ DOMAIN Named \subseteq Nat
  /\ \A p \in DOMAIN Named : Named[p] \in DOMAIN Files
  /\ \A f \in DOMAIN Files : FileMade(Files[f])
  /\ \A f, g \in DOMAIN Files : ~Files[f].pie /\ ~Files[g].pie /\ Files[f].phoff = Files[g].phoff =>
                                  Files[f].phdrs = Files[g].phdrs
  /\ \A s \in Starts : StartMade(s)

VARIABLES
  stack,    \* the words from SP on
  sp,       \* the stack pointer handed over
  given,    \* what the running mini-loader was given: [argv, env, aux]
  self,     \* itself: the position of its object in loaded
  loaded,   \* the objects in memory: [file, base]
  own,      \* its words that have a relocation: offset -> value
  pc,
  reg,      \* locals of rust_main
  elf,      \* what load! returned: position in loaded, 0: none
  interp

vars == <<stack, sp, given, self, loaded, own, pc, reg, elf, interp>>

-----------------------------------------------------------------------------
(* What the kernel puts on the stack of a new process (external). *)
StackOf(s) ==
  LET arg  == SP                        \* the word before the arguments
      str  == arg + Len(s.argv) + 1     \* the 0 before the environment
      last == str + Len(s.env) + 1      \* the 0 before the vector
      Aux(n) == IF n % 2 = 0 THEN s.aux[n \div 2 + 1].tag ELSE s.aux[n \div 2 + 1].val
  IN  [ a \in SP .. last + 2 * Len(s.aux) |->
          IF a = arg THEN Len(s.argv)
          ELSE IF a \in {str, last} THEN 0
          ELSE IF a < str THEN s.argv[a - arg]
          ELSE IF a < last THEN s.env[a - str]
          ELSE Aux(a - last - 1) ]

File(k) == Files[loaded[k].file]
Me == File(self)

(* ElfCommonPart::entry and phdrs (for an object without a dynamic section *)
(* phoff stands for where the copy of the headers is).                     *)
Entry(k) == loaded[k].base + File(k).entry
PhdrPtr(k) == loaded[k].base + File(k).phoff

Unrelocated(f) == [r \in {Files[f].relas[i].off : i \in DOMAIN Files[f].relas} |-> 0]

NoReg == [ at |-> 1, rela |-> <<>>, rela_count |-> <<>>, base |-> 0, ph |-> 0, phnum |-> 0,
           env_count |-> 0 ]

Init ==
  \E s \in Starts :
    /\ stack = StackOf(s) /\ sp = SP
    /\ given = [argv |-> s.argv, env |-> s.env, aux |-> s.aux]
    /\ loaded = <<[file |-> s.file, base |-> Apart]>> /\ self = 1
    /\ own = Unrelocated(s.file)
    /\ pc = "dynamic" /\ reg = NoReg /\ elf = 0 /\ interp = 0

argc == stack[sp]
argv == sp + 1
env == sp + argc + 1 + 1
auxv == env + reg.env_count + 1
Tag(i) == stack[auxv + 2 * (i - 1)]
Val(i) == stack[auxv + 2 * (i - 1) + 1]

Goto(label) == pc' = label /\ reg' = [reg EXCEPT !.at = 1]
Panic == pc' = "panic" /\ UNCHANGED <<stack, sp, given, self, loaded, own, reg, elf, interp>>

-----------------------------------------------------------------------------
(* The first loop: DT_RELA and DT_RELACOUNT of its own dynamic section. *)
ScanDynamic ==
  /\ pc = "dynamic"
  /\ LET d == Me.dynamic[reg.at]
     IN  /\ d.tag # "NULL"
         /\ reg' = [reg EXCEPT !.at = @ + 1,
                               !.rela = IF d.tag = "RELA" THEN <<d.val>> ELSE @,
                               !.rela_count = IF d.tag = "RELACOUNT" THEN <<d.val>> ELSE @]
  /\ UNCHANGED <<stack, sp, given, self, loaded, own, pc, elf, interp>>

DynamicRead ==
  /\ pc = "dynamic" /\ Me.dynamic[reg.at].tag = "NULL"
  /\ reg.rela # <<>> /\ reg.rela_count # <<>>
  /\ Goto("env")
  /\ UNCHANGED <<stack, sp, given, self, loaded, own, elf, interp>>

NoRelocations ==
  /\ pc = "dynamic" /\ Me.dynamic[reg.at].tag = "NULL"
  /\ reg.rela = <<>> \/ reg.rela_count = <<>>
  /\ Panic

CountEnv ==
  /\ pc = "env" /\ stack[env + reg.env_count] # 0
  /\ reg' = [reg EXCEPT !.env_count = @ + 1]
  /\ UNCHANGED <<stack, sp, given, self, loaded, own, pc, elf, interp>>

EnvCounted ==
  /\ pc = "env" /\ stack[env + reg.env_count] = 0
  /\ Goto("auxv")
  /\ UNCHANGED <<stack, sp, given, self, loaded, own, elf, interp>>

ScanAux ==
  /\ pc = "auxv" /\ Tag(reg.at) # AT_NULL
  /\ reg' = [reg EXCEPT !.at = @ + 1,
                        !.ph = IF Tag(reg.at) = AT_PHDR THEN Val(reg.at) ELSE @,
                        !.phnum = IF Tag(reg.at) = AT_PHNUM THEN Val(reg.at) ELSE @,
                        !.base = IF Tag(reg.at) = AT_BASE THEN Val(reg.at) ELSE @]
  /\ UNCHANGED <<stack, sp, given, self, loaded, own, pc, elf, interp>>

AuxRead_Trusting ==              \* mutant: a base of zero is taken as it is
  /\ pc = "auxv" /\ Tag(reg.at) = AT_NULL
  /\ Goto("relocate")
  /\ UNCHANGED <<stack, sp, given, self, loaded, own, elf, interp>>

AuxRead ==
  /\ pc = "auxv" /\ Tag(reg.at) = AT_NULL
  /\ Goto(IF reg.base = 0 THEN "base" ELSE "relocate")
  /\ UNCHANGED <<stack, sp, given, self, loaded, own, elf, interp>>

(* The program headers at address ph. *)
PhdrsAt(ph) == LET here == {k \in DOMAIN loaded : PhdrPtr(k) = ph}
               IN  IF here = {} THEN <<>> ELSE File(CHOOSE k \in here : TRUE).phdrs

dynv == LET i == CHOOSE j \in DOMAIN Me.phdrs : Me.phdrs[j].p_type = "DYNAMIC"
        IN  loaded[self].base + Me.phdrs[i].p_vaddr

(* base, if the kernel gave none: from where PT_DYNAMIC was to be. *)
FindBase ==
  /\ pc = "base" /\ reg.at <= reg.phnum
  /\ LET phdr == PhdrsAt(reg.ph)[reg.at]
     IN  IF phdr.p_type = "DYNAMIC"
         THEN pc' = "relocate" /\ reg' = [reg EXCEPT !.base = dynv - phdr.p_vaddr, !.at = 1]
         ELSE pc' = pc /\ reg' = [reg EXCEPT !.at = @ + 1]
  /\ UNCHANGED <<stack, sp, given, self, loaded, own, elf, interp>>

NoDynamicPhdr ==
  /\ pc = "base" /\ reg.at > reg.phnum
  /\ Panic

(* One relative relocation; another type is only reported.  A table read   *)
(* or a word written elsewhere than in the running object is undefined.    *)
TableFound == reg.base = loaded[self].base

Relocate ==
  /\ pc = "relocate" /\ reg.at <= reg.rela_count[1] /\ TableFound
  /\ own' = [own EXCEPT ![Me.relas[reg.at].off] = reg.base + Me.relas[reg.at].addend]
  /\ reg' = [reg EXCEPT !.at = @ + 1]
  /\ UNCHANGED <<stack, sp, given, self, loaded, pc, elf, interp>>

WildRelocation ==
  /\ pc = "relocate" /\ reg.at <= reg.rela_count[1] /\ ~TableFound
  /\ pc' = "wild"
  /\ UNCHANGED <<stack, sp, given, self, loaded, own, reg, elf, interp>>

SelfRelocated ==
  /\ pc = "relocate" /\ reg.at > reg.rela_count[1]
  /\ Goto("load")
  /\ UNCHANGED <<stack, sp, given, self, loaded, own, elf, interp>>

-----------------------------------------------------------------------------
NoInputFile == pc = "load" /\ argc = 1 /\ Panic

LoadFails ==
  /\ \/ pc = "load" /\ argc # 1 /\ ~Files[Named[stack[argv + 1]]].ok
     \/ pc = "interp" /\ File(elf).interp # NoFile /\ ~Files[File(elf).interp].ok
  /\ Panic

(* load! of f: an executable where it wants to be, else at a free address. *)
Loaded(f) == Append(loaded, [file |-> f, base |-> IF Files[f].pie THEN Apart * (Len(loaded) + 1) ELSE 0])

LoadElf ==
  /\ pc = "load" /\ argc # 1 /\ Files[Named[stack[argv + 1]]].ok
  /\ loaded' = Loaded(Named[stack[argv + 1]]) /\ elf' = Len(loaded) + 1
  /\ Goto("interp")
  /\ UNCHANGED <<stack, sp, given, self, own, interp>>

LoadInterp ==
  /\ pc = "interp" /\ File(elf).interp # NoFile /\ Files[File(elf).interp].ok
  /\ loaded' = Loaded(File(elf).interp) /\ interp' = Len(loaded) + 1
  /\ Goto("set_aux")
  /\ UNCHANGED <<stack, sp, given, self, own, elf>>

NoInterp ==
  /\ pc = "interp" /\ File(elf).interp = NoFile
  /\ Goto("set_aux")
  /\ UNCHANGED <<stack, sp, given, self, loaded, own, elf, interp>>

Target == IF interp = 0 THEN elf ELSE interp

NewVal(tag, val) ==
  CASE tag = AT_PHDR   -> PhdrPtr(elf)
    [] tag = AT_PHNUM  -> Len(File(elf).phdrs)
    [] tag = AT_PHENT  -> PhdrSize
    [] tag = AT_ENTRY  -> Entry(elf)
    [] tag = AT_EXECFN -> stack[argv + 1]
    [] tag = AT_BASE   -> Entry(Target)
    [] OTHER           -> val

SetAux_Stay ==                   \* mutant: the pointer is not advanced
  /\ pc = "set_aux" /\ Tag(reg.at) # AT_NULL
  /\ stack' = [stack EXCEPT ![auxv + 2 * (reg.at - 1) + 1] = NewVal(Tag(reg.at), Val(reg.at))]
  /\ UNCHANGED <<sp, given, self, loaded, own, pc, reg, elf, interp>>

SetAux ==
  /\ pc = "set_aux" /\ Tag(reg.at) # AT_NULL
  /\ stack' = [stack EXCEPT ![auxv + 2 * (reg.at - 1) + 1] = NewVal(Tag(reg.at), Val(reg.at))]
  /\ reg' = [reg EXCEPT !.at = @ + 1]
  /\ UNCHANGED <<sp, given, self, loaded, own, pc, elf, interp>>

AuxSet_Short ==                \* mutant: the tag that ends the vector is not copied
  /\ pc = "set_aux" /\ Tag(reg.at) = AT_NULL
  /\ LET size == auxv + 2 * (reg.at - 1) - (sp + 1)
     IN  stack' = [a \in DOMAIN stack |-> IF a = sp THEN argc - 1
                                          ELSE IF a < sp + size THEN stack[a + 1] ELSE stack[a]]
  /\ Goto("trampoline")
  /\ UNCHANGED <<sp, given, self, loaded, own, elf, interp>>

(* All words up to and with AT_NULL's entry move down by one.              *)
AuxSet ==
  /\ pc = "set_aux" /\ Tag(reg.at) = AT_NULL
  /\ LET size == auxv + 2 * reg.at - (sp + 1)
     IN  stack' = [a \in DOMAIN stack |-> IF a = sp THEN argc - 1
                                          ELSE IF a < sp + size THEN stack[a + 1] ELSE stack[a]]
  /\ Goto("trampoline")
  /\ UNCHANGED <<sp, given, self, loaded, own, elf, interp>>

(* The jump, to a program that is not modelled. *)
Trampoline ==
  /\ pc = "trampoline" /\ File(Target).relas = <<>>
  /\ pc' = "running"
  /\ UNCHANGED <<stack, sp, given, self, loaded, own, reg, elf, interp>>

(* The jump, to _start of a mini-loader, which finds what is on the stack. *)
NewGiven ==
  LET n == Len(given.argv) + Len(given.env) + 2       \* words before the vector
  IN  [ argv |-> [i \in 1 .. argc |-> stack[sp + i]], env |-> given.env,
        aux |-> [i \in DOMAIN given.aux |-> [tag |-> stack[sp + n + 2 * (i - 1)],
                                             val |-> stack[sp + n + 2 * (i - 1) + 1]]] ]

Again ==
  /\ pc = "trampoline" /\ File(Target).relas # <<>>
  /\ given' = NewGiven
  /\ self' = Target /\ own' = Unrelocated(loaded[Target].file)
  /\ pc' = "dynamic" /\ reg' = NoReg /\ elf' = 0 /\ interp' = 0
  /\ UNCHANGED <<stack, sp, loaded>>

Next == \/ ScanDynamic \/ DynamicRead \/ NoRelocations \/ CountEnv \/ EnvCounted
        \/ ScanAux \/ AuxRead \/ FindBase \/ NoDynamicPhdr
        \/ Relocate \/ WildRelocation \/ SelfRelocated
        \/ NoInputFile \/ LoadFails \/ LoadElf \/ LoadInterp \/ NoInterp
        \/ SetAux \/ AuxSet \/ Trampoline \/ Again

(* A single thread that nothing holds up. *)
Spec == Init /\ [][Next]_vars /\ WF_vars(Next)

-----------------------------------------------------------------------------
Given(tag) == Vals(given.aux, tag)

(***************************************************************************)
(* When rust_main goes on to call functions, every word of its image that  *)
(* has a relocation points to where the object really is, whether the      *)
(* kernel gave the base or it was worked out from the program headers.     *)
(* The self-relocation writes outside the mini-loader only if a mini-      *)
(* loader started it: that one puts an entry point, not a base, in AT_BASE,*)
(* and where there is none, the headers it describes may be those of the   *)
(* program whose interpreter this one is.                                  *)
(***************************************************************************)
Bootstrapped ==
  /\ pc \in {"load", "interp", "set_aux", "trampoline"} =>
       \A i \in DOMAIN Me.relas : own[Me.relas[i].off] = loaded[self].base + Me.relas[i].addend
  /\ pc = "wild" => self > 1 /\ (Given(AT_BASE) # {} \/ Given(AT_PHDR) # {PhdrPtr(self)})

(***************************************************************************)
(* The stack at the jump is what a kernel that had been asked to start the *)
(* program would have made: aligned to two words, argc, the arguments      *)
(* without the mini-loader, the environment, and an auxiliary vector that  *)
(* describes the program (not its interpreter) and otherwise is unchanged, *)
(* up to and with AT_NULL.  AT_BASE is left to Bootstrapped.               *)
(***************************************************************************)
HandsOver ==
  pc \in {"trampoline", "running"} =>
    LET new == NewGiven.aux
    IN  /\ sp % 2 = 0 /\ stack[sp] = Len(given.argv) - 1
        /\ NewGiven.argv = Tail(given.argv)
        /\ \A i \in DOMAIN given.env : stack[sp + Len(given.argv) + i] = given.env[i]
        /\ stack[sp + Len(given.argv)] = 0 /\ stack[sp + Len(given.argv) + Len(given.env) + 1] = 0
        /\ \A i \in DOMAIN given.aux :
             /\ new[i].tag = given.aux[i].tag
             /\ given.aux[i].tag \notin {AT_PHDR, AT_PHENT, AT_PHNUM, AT_BASE, AT_ENTRY, AT_EXECFN} =>
                  new[i].val = given.aux[i].val
        /\ \A a \in Vals(new, AT_PHDR) : \E k \in DOMAIN loaded :
             loaded[k].file = Named[given.argv[2]] /\ a = PhdrPtr(k)
        /\ Vals(new, AT_PHNUM) \subseteq {Len(Files[Named[given.argv[2]]].phdrs)}
        /\ Vals(new, AT_PHENT) \subseteq {PhdrSize} /\ Vals(new, AT_EXECFN) \subseteq {given.argv[2]}
        /\ \A a \in Vals(new, AT_ENTRY) : \E k \in DOMAIN loaded :
             loaded[k].file = Named[given.argv[2]] /\ a = Entry(k)

(* Every start ends in a jump to a program, a panic or the undefined       *)
(* behaviour that Bootstrapped names: all loops end, and a mini-loader     *)
(* that starts a mini-loader has one argument less each time.              *)
Ends == <>(pc \in {"running", "panic", "wild"})

=============================================================================
