----------------------------- MODULE Relocation -----------------------------
(***************************************************************************)
(* One call of relocate / easy_relocate on a loaded object: relocate_impl  *)
(* in src/relocation.rs with its callers in src/format/{dylib,exec}.rs,    *)
(* one relocation entry, one initialiser, one check a step.                *)
(*                                                                         *)
(* A slot is a word a relocation writes.  The values written are kept      *)
(* symbolic: what was computed from what.                                  *)
(***************************************************************************)
EXTENDS Integers, Sequences

CONSTANTS
  Names,    \* symbol names
  Slots,    \* r_offset values
  Addends,  \* r_addend values
  Libs,     \* libraries a scope may list
  Self,     \* the object under relocation, a member of Libs
  Kind,     \* Kind[n]: the object's own dynsym for n
  Defs,     \* Defs[l]: the names lookup_filter finds in l
  IFuncs,   \* names whose definitions are STT_GNU_IFUNC
  Far,      \* names whose st_value lies outside the object's segments
  Trips,    \* Trips[l]: names whose version check_match cannot look up in l:
            \* l has no version tables, or an index past their end
  Valued,   \* weak undefined names whose st_value is not 0
  Broken,   \* names whose version index the object's own tables lack
  Inputs    \* the objects and arguments a call may be given

RelTypes == { "RELATIVE", "GOT", "SYMBOLIC", "DTPOFF", "COPY", "NONE", "JUMP_SLOT",
              "IRELATIVE", "OTHER" }

Rela == [ r_type : RelTypes, r_offset : Slots, r_sym : Names, r_addend : Addends ]

(***************************************************************************)
(* rela, plt: DT_RELA and DT_JMPREL; overlap: DT_RELASZ runs on over the   *)
(* table of DT_JMPREL; rela_count: DT_RELACOUNT.  deals: deal_unknown      *)
(* answers Ok.  local, global: a lazy scope is given, GLOBAL_SCOPE is set. *)
(***************************************************************************)
Input == [ dylib : BOOLEAN, lazy : BOOLEAN, got : BOOLEAN, overlap : BOOLEAN,
           rela : Seq(Rela), rela_count : Nat, plt : Seq(Rela),
           relro : BOOLEAN, inits : Seq({"init_fn", "init_array"}),
           scope : Seq(Libs), pre_find : SUBSET Names, deals : BOOLEAN,
           local : BOOLEAN, global : BOOLEAN ]

Kinds == {"local", "defined", "undef", "weak"}    \* weak: weak and undefined

ASSUME SymbolsAssumption ==
  /\ Self \in Libs /\ IFuncs \subseteq Names /\ Far \subseteq Names
  /\ Valued \subseteq Names /\ Broken \subseteq Names
  /\ \A l \in Libs : l \notin {"null", "none", "panic", "pre_find"}    \* answers that are no library
  /\ Trips \in [Libs -> SUBSET Names] /\ \A l \in Libs : Trips[l] \cap Defs[l] = {}
  /\ Kind \in [Names -> Kinds]
  /\ Defs \in [Libs -> SUBSET Names]
  /\ Defs[Self] = {n \in Names : Kind[n] = "defined"}

(* What ElfRelocation::new slices by, and linkers keep to. *)
Sane(in) ==
  /\ in.rela_count <= Len(in.rela)
  /\ \A i \in 1 .. in.rela_count : in.rela[i].r_type = "RELATIVE"
  /\ \A i, j \in 1 .. Len(in.rela) + Len(in.plt) : i # j =>
       (in.rela \o in.plt)[i].r_offset # (in.rela \o in.plt)[j].r_offset

ASSUME InputsAssumption == Inputs \subseteq Input /\ \A in \in Inputs : Sane(in)

-----------------------------------------------------------------------------
(* Values of a slot. *)
Orig      == <<"orig">>                  \* what the file has there
Based(a)  == <<"base+", a>>              \* B + A
Address(l, n, a) == <<"address", l, n, a>>  \* S + A, of n as l defines it
Resolved(l, n)   == <<"resolved", l, n>> \* what the IFUNC resolver returned
Null      == <<"null">>
TlsOffset(l, n, a) == <<"tls", l, n, a>>
CopyOf(l, n) == <<"copy", l, n>>         \* the bytes l's segments hold at n's st_value
Stub      == <<"stub">>                  \* Orig + B: back into the PLT
Junk      == <<"junk">>                  \* base added twice
Dealt     == <<"dealt">>                 \* left to deal_unknown

PreFind == "pre_find"   \* the closure, as the place a symbol was found

Value == {Orig, Null, Stub, Junk, Dealt}
         \cup {Based(a) : a \in Addends \cup {0}}
         \cup {Address(l, n, a) : l \in Libs \cup {PreFind}, n \in Names, a \in Addends \cup {0}}
         \cup {Resolved(l, n) : l \in Libs, n \in Names}
         \cup {TlsOffset(l, n, a) : l \in Libs, n \in Names, a \in Addends \cup {0}}
         \cup {CopyOf(l, n) : l \in Libs, n \in Names}

VARIABLES
  input,    \* the object and the arguments
  pc,       \* the loop or check under way
  idx,      \* its position
  slots,    \* the object's relocatable words
  sealed,   \* relro was applied
  ran,      \* code of the object that was called, in order
  bound     \* prepare_lazy_bind and set_lazy_scope have been called

vars == <<input, pc, idx, slots, sealed, ran, bound>>

(* ElfRelocation::new: the two tables made into three that share no entry. *)
relative(in) == SubSeq(in.rela, 1, in.rela_count)

dynrel_Whole(in) ==              \* mutant: the overlapping tail is not cut off
  LET old == IF in.overlap THEN in.rela \o in.plt ELSE in.rela
  IN  SubSeq(old, in.rela_count + 1, Len(old))

dynrel(in) ==
  LET old == IF in.overlap THEN in.rela \o in.plt ELSE in.rela
  IN  SubSeq(old, in.rela_count + 1, Len(old) - (IF in.overlap THEN Len(in.plt) ELSE 0))

pltrel(in) == in.plt

is_empty(in) == relative(in) = <<>> /\ dynrel(in) = <<>> /\ pltrel(in) = <<>>

(* The scope relocate builds: an executable looks into itself first. *)
helper(in) == IF in.dylib THEN in.scope ELSE <<Self>> \o in.scope

(***************************************************************************)
(* find_symdef: where n is found, "none" if nowhere, "null" for a weak     *)
(* symbol that is nowhere defined; "panic" if the walk comes to a library  *)
(* where check_match panics before it finds n, or the assert on st_value   *)
(* fails.                                                                  *)
(***************************************************************************)
Hits(in, n) == {i \in DOMAIN helper(in) : n \in Defs[helper(in)[i]] \cup Trips[helper(in)[i]]}

FoundIn(l, n) == IF n \in Trips[l] THEN "panic" ELSE l

NotFound(n) ==
  IF Kind[n] # "weak" THEN "none" ELSE IF n \in Valued THEN "panic" ELSE "null"

find_symdef_Last(in, n) ==       \* mutant: the last definition wins
  IF Kind[n] = "local" THEN Self
  ELSE IF Hits(in, n) # {}
       THEN FoundIn(helper(in)[CHOOSE i \in Hits(in, n) : \A j \in Hits(in, n) : j <= i], n)
       ELSE NotFound(n)

find_symdef(in, n) ==
  IF Kind[n] = "local" THEN Self
  ELSE IF Hits(in, n) # {}
       THEN FoundIn(helper(in)[CHOOSE i \in Hits(in, n) : \A j \in Hits(in, n) : i <= j], n)
       ELSE NotFound(n)

(* symbol_idx, which reads the version of the symbol, and find_symdef. *)
symdef(in, n) == IF n \in Broken THEN "panic" ELSE find_symdef(in, n)

(* symbol_idx, then pre_find(name).or_else(|| find_symdef(..).map(convert)); *)
(* the addend of the entry is not added.                                   *)
Found(in, n) == n \notin Broken /\ (n \in in.pre_find \/ symdef(in, n) \notin {"none", "panic"})
Panics(in, n) == n \in Broken \/ (n \notin in.pre_find /\ symdef(in, n) = "panic")

Symbol(in, n) ==
  LET l == symdef(in, n) IN
  IF n \in in.pre_find THEN Address(PreFind, n, 0)
  ELSE IF l = "null"   THEN Null
  ELSE IF n \in IFuncs THEN Resolved(l, n)
  ELSE Address(l, n, 0)

(* convert calls the resolver of an IFUNC in the middle of the relocation. *)
ResolverCalls(in, n) ==
  IF n \in IFuncs /\ n \notin in.pre_find /\ symdef(in, n) # "null"
  THEN <<"resolver">> ELSE <<>>

-----------------------------------------------------------------------------
Init ==
  /\ input \in Inputs
  /\ pc = "start" /\ idx = 1
  /\ slots = [s \in Slots |-> Orig]
  /\ sealed = FALSE /\ bound = FALSE
  /\ ran = <<>>

Go(l)    == pc' = l /\ idx' = 1
Write(r, v) == slots' = [slots EXCEPT ![r.r_offset] = v]
NextRela == idx' = idx + 1 /\ UNCHANGED <<input, pc, sealed, bound>>

(* The object is dropped on the way out; no initialiser has run. *)
Stop(outcome) == Go(outcome) /\ UNCHANGED <<input, slots, sealed, ran, bound>>

(* An executable without relocations is returned as it is, uninitialised. *)
Relocate ==
  /\ pc = "start"
  /\ Go(IF ~input.dylib /\ is_empty(input) THEN "returned" ELSE "relative")
  /\ UNCHANGED <<input, slots, sealed, ran, bound>>

LoopEnd(from, table, to) ==
  pc = from /\ idx > Len(table) /\ Go(to) /\ UNCHANGED <<input, slots, sealed, ran, bound>>

RelocateRelative_NoBase ==       \* mutant: A is written, not B + A
  /\ pc = "relative" /\ idx <= Len(relative(input))
  /\ LET r == relative(input)[idx] IN Write(r, <<"addend", r.r_addend>>)
  /\ NextRela /\ UNCHANGED ran

RelocateRelative ==
  /\ pc = "relative" /\ idx <= Len(relative(input))
  /\ LET r == relative(input)[idx] IN Write(r, Based(r.r_addend))
  /\ NextRela /\ UNCHANGED ran

RelativeDone == LoopEnd("relative", relative(input), "dynrel")

-----------------------------------------------------------------------------
(* relocate_dynrel, by type of the entry. *)
AtDynrel == pc = "dynrel" /\ idx <= Len(dynrel(input))
dyn_rela == dynrel(input)[idx]

DynSymbol ==
  /\ AtDynrel /\ dyn_rela.r_type \in {"GOT", "SYMBOLIC"}
  /\ Found(input, dyn_rela.r_sym)
  /\ Write(dyn_rela, Symbol(input, dyn_rela.r_sym))
  /\ ran' = ran \o ResolverCalls(input, dyn_rela.r_sym)
  /\ NextRela

(* pre_find is not asked; symdef.sym.unwrap() panics on a weak undefined. *)
DynTls ==
  /\ AtDynrel /\ dyn_rela.r_type = "DTPOFF"
  /\ symdef(input, dyn_rela.r_sym) \in Libs
  /\ Write(dyn_rela, TlsOffset(symdef(input, dyn_rela.r_sym), dyn_rela.r_sym, dyn_rela.r_addend))
  /\ NextRela /\ UNCHANGED ran

(* COPY: source and destination are both taken from the object's own       *)
(* segments, whichever library defines the symbol.                         *)
DynCopy ==
  /\ AtDynrel /\ dyn_rela.r_type = "COPY"
  /\ symdef(input, dyn_rela.r_sym) \in Libs
  /\ symdef(input, dyn_rela.r_sym) = Self \/ dyn_rela.r_sym \notin Far
  /\ Write(dyn_rela, CopyOf(Self, dyn_rela.r_sym))
  /\ NextRela /\ UNCHANGED ran

(* get_slice beyond the segments: the debug assertion, else a wild read. *)
DynCopyOutside ==
  /\ AtDynrel /\ dyn_rela.r_type = "COPY"
  /\ symdef(input, dyn_rela.r_sym) \in Libs \ {Self} /\ dyn_rela.r_sym \in Far
  /\ Stop("outside")

(* A lookup that panics, or symdef.sym.unwrap(). *)
DynPanics ==
  /\ AtDynrel
  /\ \/ dyn_rela.r_type \in {"GOT", "SYMBOLIC"} /\ Panics(input, dyn_rela.r_sym)
     \/ dyn_rela.r_type \in {"DTPOFF", "COPY"} /\ symdef(input, dyn_rela.r_sym) \in {"null", "panic"}
  /\ Stop("panic")

DynRelative ==
  /\ AtDynrel /\ dyn_rela.r_type = "RELATIVE"
  /\ Write(dyn_rela, Based(dyn_rela.r_addend))
  /\ NextRela /\ UNCHANGED ran

DynNone ==
  /\ AtDynrel /\ dyn_rela.r_type = "NONE"
  /\ NextRela /\ UNCHANGED <<slots, ran>>

(* What is left for deal_unknown: no symbol found, or a type not handled. *)
DynLeftOver ==
  \/ /\ dyn_rela.r_type \in {"GOT", "SYMBOLIC"}
     /\ ~Found(input, dyn_rela.r_sym) /\ ~Panics(input, dyn_rela.r_sym)
  \/ dyn_rela.r_type \in {"DTPOFF", "COPY"} /\ symdef(input, dyn_rela.r_sym) = "none"
  \/ dyn_rela.r_type \in {"JUMP_SLOT", "IRELATIVE", "OTHER"}

DynDealt == /\ AtDynrel /\ DynLeftOver /\ input.deals
            /\ Write(dyn_rela, Dealt) /\ NextRela /\ UNCHANGED ran

(* The message of the error names the symbol: symbol_idx once more. *)
reloc_error(r) == IF r.r_sym \in Broken THEN "panic" ELSE "err"

DynRefused == AtDynrel /\ DynLeftOver /\ ~input.deals /\ Stop(reloc_error(dyn_rela))

DynrelDone_Seals ==              \* mutant: relro is applied before .rela.plt is processed
  /\ pc = "dynrel" /\ idx > Len(dynrel(input))
  /\ Go(IF input.lazy THEN "got" ELSE "pltrel")
  /\ sealed' = input.relro
  /\ UNCHANGED <<input, slots, ran, bound>>

DynrelDone == LoopEnd("dynrel", dynrel(input), IF input.lazy THEN "got" ELSE "pltrel")

-----------------------------------------------------------------------------
(* relocate_pltrel: everything is bound now. *)
AtPltrel(l) == pc = l /\ idx <= Len(pltrel(input))
plt_rela == pltrel(input)[idx]

PltSymbol ==
  /\ AtPltrel("pltrel") /\ plt_rela.r_type = "JUMP_SLOT"
  /\ Found(input, plt_rela.r_sym)
  /\ Write(plt_rela, Symbol(input, plt_rela.r_sym))
  /\ ran' = ran \o ResolverCalls(input, plt_rela.r_sym)
  /\ NextRela

PltIfunc(l) ==
  /\ AtPltrel(l) /\ plt_rela.r_type = "IRELATIVE"
  /\ Write(plt_rela, Resolved(Self, plt_rela.r_sym))
  /\ ran' = Append(ran, "resolver")
  /\ NextRela

PltPanics ==
  /\ AtPltrel("pltrel") /\ plt_rela.r_type = "JUMP_SLOT"
  /\ Panics(input, plt_rela.r_sym)
  /\ Stop("panic")

PltLeftOver ==
  \/ plt_rela.r_type \notin {"JUMP_SLOT", "IRELATIVE"}
  \/ /\ plt_rela.r_type = "JUMP_SLOT"
     /\ ~Found(input, plt_rela.r_sym) /\ ~Panics(input, plt_rela.r_sym)

PltDealt == /\ AtPltrel("pltrel") /\ PltLeftOver /\ input.deals
            /\ Write(plt_rela, Dealt) /\ NextRela /\ UNCHANGED ran

PltRefused == /\ AtPltrel("pltrel") /\ PltLeftOver /\ ~input.deals
              /\ Stop(reloc_error(plt_rela))

PltrelDone == LoopEnd("pltrel", pltrel(input), IF input.relro THEN "relro" ELSE "init")

(* relro makes the pages read-only; mprotect may fail. *)
Relro ==
  /\ pc = "relro" /\ Go("init")
  /\ sealed' = TRUE
  /\ UNCHANGED <<input, slots, ran, bound>>

RelroFails == pc = "relro" /\ Stop("err")

-----------------------------------------------------------------------------
(* relocate_pltrel_lazy: the slots are only moved by the base. *)
GotUnwrap == pc = "got" /\ input.got /\ Stop("pltrel_lazy")
GotUnwrapPanics == pc = "got" /\ ~input.got /\ Stop("panic")

LazyStub ==
  /\ AtPltrel("pltrel_lazy") /\ plt_rela.r_type = "JUMP_SLOT"
  /\ Write(plt_rela, IF slots[plt_rela.r_offset] = Orig THEN Stub ELSE Junk)
  /\ NextRela /\ UNCHANGED ran

LazyUnreachable ==
  AtPltrel("pltrel_lazy") /\ plt_rela.r_type \notin {"JUMP_SLOT", "IRELATIVE"} /\ Stop("panic")

(* prepare_lazy_bind, the assertion that some scope is there, and          *)
(* set_lazy_scope, which stores whatever it was given.                     *)
ScopeThere == pltrel(input) = <<>> \/ input.local \/ input.global

SetLazyScope ==
  /\ pc = "pltrel_lazy" /\ idx > Len(pltrel(input)) /\ ScopeThere
  /\ bound' = TRUE
  /\ Go("init")
  /\ UNCHANGED <<input, slots, sealed, ran>>

NoScopePanics ==
  pc = "pltrel_lazy" /\ idx > Len(pltrel(input)) /\ ~ScopeThere /\ Stop("panic")

-----------------------------------------------------------------------------
(* call_init: .init, then .init_array; then set_init. *)
CallInit_Skip ==                 \* mutant: relro and init swapped for the first initialiser
  /\ pc \in {"init", "relro"} /\ idx <= Len(input.inits)
  /\ ran' = Append(ran, input.inits[idx])
  /\ idx' = idx + 1
  /\ UNCHANGED <<input, pc, slots, sealed, bound>>

CallInit ==
  /\ pc = "init" /\ idx <= Len(input.inits)
  /\ ran' = Append(ran, input.inits[idx])
  /\ idx' = idx + 1
  /\ UNCHANGED <<input, pc, slots, sealed, bound>>

SetInit == LoopEnd("init", input.inits, "done")

Next ==
  \/ Relocate \/ RelocateRelative \/ RelativeDone
  \/ DynSymbol \/ DynTls \/ DynCopy \/ DynCopyOutside \/ DynPanics
  \/ DynRelative \/ DynNone \/ DynDealt \/ DynRefused \/ DynrelDone
  \/ PltSymbol \/ PltPanics \/ PltIfunc("pltrel") \/ PltDealt \/ PltRefused \/ PltrelDone
  \/ Relro \/ RelroFails
  \/ GotUnwrap \/ GotUnwrapPanics \/ LazyStub \/ PltIfunc("pltrel_lazy")
  \/ LazyUnreachable \/ SetLazyScope \/ NoScopePanics
  \/ CallInit \/ SetInit

Spec == Init /\ [][Next]_vars

-----------------------------------------------------------------------------
Ended == {"done", "returned", "err", "panic", "outside"}

(* Every variable holds a value of its type; the positions never leave the *)
(* tables they walk.                                                       *)
TypeOK ==
  /\ input \in Input
  /\ pc \in Ended \cup {"start", "relative", "dynrel", "pltrel", "relro", "got",
                        "pltrel_lazy", "init"}
  /\ idx \in Nat \ {0}
  /\ slots \in [Slots -> Value]
  /\ sealed \in BOOLEAN /\ bound \in BOOLEAN
  /\ ran \in Seq({"resolver", "init_fn", "init_array"})

(***************************************************************************)
(* What the ABI wants in the slot of r, said of the tables as the file has *)
(* them and of the libraries as the caller lists them.                     *)
(***************************************************************************)
DefiningLib(in, n) ==     \* the library that n binds to, "null" or "none"
  LET order == IF in.dylib THEN in.scope ELSE <<Self>> \o in.scope
      hits  == {i \in DOMAIN order : n \in Defs[order[i]]}
  IN  IF Kind[n] = "local" THEN Self
      ELSE IF \E i \in hits : TRUE
           THEN order[CHOOSE i \in hits : ~\E j \in hits : j < i]
           ELSE IF Kind[n] = "weak" THEN "null" ELSE "none"

Definer(in, n) == IF n \in in.pre_find THEN PreFind ELSE DefiningLib(in, n)

WantedSymbol(in, r, a) ==
  LET l == Definer(in, r.r_sym) IN
  IF l = "null" THEN Null
  ELSE IF r.r_sym \in IFuncs /\ l # PreFind THEN Resolved(l, r.r_sym)
  ELSE Address(l, r.r_sym, a)

(* The library whose bytes a COPY relocation is for: never the object. *)
CopySources(in, n) == {i \in DOMAIN in.scope : in.scope[i] # Self /\ n \in Defs[in.scope[i]]}

(* What the relocation calls for. *)
Wanted(in, r) ==
  LET l == DefiningLib(in, r.r_sym) IN
  CASE r.r_type = "RELATIVE"  -> {Based(r.r_addend)}
    [] r.r_type = "GOT"       -> {WantedSymbol(in, r, 0)}
    [] r.r_type = "SYMBOLIC"  -> {WantedSymbol(in, r, r.r_addend)}
    [] r.r_type = "JUMP_SLOT" -> {WantedSymbol(in, r, 0)}
    [] r.r_type = "IRELATIVE" -> {Resolved(Self, r.r_sym)}
    [] r.r_type = "DTPOFF"    -> {TlsOffset(l, r.r_sym, r.r_addend)}
    [] r.r_type = "COPY"      -> {CopyOf(in.scope[i], r.r_sym) :
                                    i \in {k \in CopySources(in, r.r_sym) :
                                            \A j \in CopySources(in, r.r_sym) : k <= j}}
    [] OTHER                  -> {Orig}

(* The entries that are left to deal_unknown: of a type that is unknown or *)
(* belongs into the other table, or of a symbol that nothing defines.      *)
PltTypes == {"JUMP_SLOT", "IRELATIVE"}

Unresolved(in, r, is_plt) ==
  \/ r.r_type = "OTHER"
  \/ is_plt <=> r.r_type \notin PltTypes
  \/ r.r_type \in {"GOT", "SYMBOLIC"} /\ Definer(in, r.r_sym) = "none"
  \/ r.r_type = "JUMP_SLOT" /\ ~in.lazy /\ Definer(in, r.r_sym) = "none"
  \/ r.r_type \in {"DTPOFF", "COPY"} /\ DefiningLib(in, r.r_sym) = "none"

SlotFinal(in, r, is_plt) ==
  IF Unresolved(in, r, is_plt) THEN slots[r.r_offset] = Dealt
  ELSE IF is_plt /\ in.lazy /\ r.r_type = "JUMP_SLOT" THEN slots[r.r_offset] = Stub
  ELSE slots[r.r_offset] \in Wanted(in, r)

(* Two kinds of entries never get what they want: the addend of a SYMBOLIC *)
(* entry is not added (SymbolicIsSPlusA), and a COPY entry is given bytes  *)
(* of the object itself, not the library's (DynCopy).                      *)
Deviates(in, r) ==
  \/ r.r_type = "SYMBOLIC" /\ r.r_addend # 0
  \/ /\ r.r_type = "COPY" /\ ~Unresolved(in, r, FALSE)
     /\ CopyOf(Self, r.r_sym) \notin Wanted(in, r)

(***************************************************************************)
(* When the first initialiser is called, and from then on, every word any  *)
(* table names, but those that deviate, has its final value: a relative, a *)
(* bound symbol, the PLT stub of a lazy slot (moved by the base exactly    *)
(* once), or what deal_unknown made of it, although the tables overlap and *)
(* are walked in three loops.                                              *)
(***************************************************************************)
RelocatedBeforeInit ==
  pc \in {"init", "done"} =>
    /\ \A i \in DOMAIN input.rela :
         ~Deviates(input, input.rela[i]) => SlotFinal(input, input.rela[i], FALSE)
    /\ \A i \in DOMAIN input.plt : SlotFinal(input, input.plt[i], TRUE)

(* Refusable: deal_unknown is asked about some entry. *)
Refusable(in) ==
  \/ \E i \in DOMAIN in.rela : Unresolved(in, in.rela[i], FALSE)
  \/ ~in.lazy /\ \E i \in DOMAIN in.plt : Unresolved(in, in.plt[i], TRUE)

(***************************************************************************)
(* A lookup of n comes to an answer: before the library that defines it    *)
(* there is none whose version tables check_match cannot read, and a weak  *)
(* undefined n has the value 0.                                            *)
(***************************************************************************)
Answers(in, n) ==
  \/ Kind[n] = "local"
  \/ /\ \A i \in DOMAIN helper(in) : n \in Trips[helper(in)[i]] =>
          \E j \in DOMAIN helper(in) : j < i /\ n \in Defs[helper(in)[j]]
     /\ DefiningLib(in, n) = "null" => n \notin Valued

(* The symbol of an entry has a version its object's tables know, and its  *)
(* lookup, if pre_find does not spare it, comes to an answer.              *)
Readable(in, r) ==
  /\ r.r_sym \notin Broken
  /\ r.r_sym \notin in.pre_find \/ r.r_type \in {"DTPOFF", "COPY"} => Answers(in, r.r_sym)

(* Supported: the entries of a lazily bound .rela.plt are of the two usual *)
(* types, DT_PLTGOT and some scope are there, every symbol that is looked  *)
(* up is readable, and none of DTPOFF or COPY is weak and undefined.       *)
Supported(in) ==
  /\ in.lazy => /\ in.got /\ (in.local \/ in.global)
                /\ \A i \in DOMAIN in.plt : in.plt[i].r_type \in PltTypes
  /\ \A i \in DOMAIN in.rela :
       /\ in.rela[i].r_type \notin {"RELATIVE", "NONE"} => Readable(in, in.rela[i])
       /\ in.rela[i].r_type \in {"DTPOFF", "COPY"} => DefiningLib(in, in.rela[i].r_sym) # "null"
  /\ ~in.lazy => \A i \in DOMAIN in.plt :
                   in.plt[i].r_type # "IRELATIVE" => Readable(in, in.plt[i])

(***************************************************************************)
(* relocate fails only for a reason the caller can see: it returns an Err  *)
(* for an entry that deal_unknown refuses or a failed mprotect, although   *)
(* the tables overlap, and it panics only on an object it does not support.*)
(***************************************************************************)
FailsOnlyForCause ==
  /\ pc = "err" => (input.relro /\ ~input.lazy) \/ (~input.deals /\ Refusable(input))
  /\ pc = "panic" => ~Supported(input)

(***************************************************************************)
(* Initialisers run only in an object that is fully relocated and sealed   *)
(* or, if it is lazily bound, has the scope its PLT slots need; in the     *)
(* order .init, .init_array, behind the last IFUNC resolver; and never in  *)
(* one that relocate returns as an error.                                  *)
(***************************************************************************)
InitOrder ==
  \E k \in 0 .. Len(ran) :                 \* so many calls of resolvers, then
    LET called == Len(ran) - k IN           \* so many of initialisers
    /\ \A i \in 1 .. k : ran[i] = "resolver"
    /\ called <= Len(input.inits) /\ \A i \in 1 .. called : ran[k + i] = input.inits[i]
    /\ called > 0 =>
         /\ pc \in {"init", "done"}
         /\ input.relro /\ ~input.lazy => sealed
         /\ input.lazy /\ input.plt # <<>> => bound /\ (input.local \/ input.global)
    /\ pc = "done" => called = Len(input.inits)

(* Once the relro pages are sealed no relocation is written any more. *)
SealedMeansFinal == [][sealed => UNCHANGED slots]_vars

(* REL_SYMBOLIC: S + A. *)
SymbolicIsSPlusA ==
  pc = "done" => \A i \in DOMAIN input.rela : LET r == input.rela[i] IN
    r.r_type = "SYMBOLIC" /\ ~Unresolved(input, r, FALSE) =>
      slots[r.r_offset] \in Wanted(input, r)

=============================================================================
