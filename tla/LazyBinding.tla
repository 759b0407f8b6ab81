---------------------------- MODULE LazyBinding -----------------------------
(***************************************************************************)
(* Lazy binding at run time: any number of threads call through the PLT    *)
(* slots of lazily bound objects and meet in dl_fixup, while the program   *)
(* may call set_global_scope (src/relocation.rs, src/lib.rs,               *)
(* create_lazy_scope in src/format/mod.rs, dl_runtime_resolve in           *)
(* src/arch).  A step is one access to shared state or one lookup.         *)
(***************************************************************************)
EXTENDS Integers, Sequences

CONSTANTS
  Threads, Names, Libs,
  Symbols,    \* the definitions the objects have; several may share a name
  Slots,      \* the JUMP_SLOTs of all lazily bound objects
  NameOf,     \* NameOf[s]: the name of the slot's symbol
  Scope,      \* Scope[s]: the libraries easy_relocate got for the slot's object
  PreFind,    \* PreFind[s]: the names its pre_find closure knows
  Local,      \* slots of objects that have a lazy scope of their own
  Bad,        \* slots whose entry fails the assert of dl_fixup, or has no symbol
  Get,        \* Get[l][n]: what lib.get(n), which names no version, finds in l
  GetFor,     \* GetFor[s][l]: what l has for the slot's name and version
  Own,        \* Own[s]: what the object itself has: a local symbol, or in an
              \* executable any definition
  Weak,       \* slots of weak undefined symbols
  Globals,    \* functions the program passes to set_global_scope
  Provides    \* Provides[g]: the names that g knows

Unset == "unset"                \* GLOBAL_SCOPE is 0
Scopes == Globals \cup {Unset}
NoSym == "no symbol"            \* None of lookup_filter
MaybeSym == Symbols \cup {NoSym}

ASSUME NamesAssumption ==
  /\ NameOf \in [Slots -> Names]
  /\ Scope \in [Slots -> Seq(Libs)]
  /\ PreFind \in [Slots -> SUBSET Names]
  /\ Local \subseteq Slots /\ Bad \subseteq Slots /\ Weak \subseteq Slots
  /\ Get \in [Libs -> [Names -> MaybeSym]]
  /\ GetFor \in [Slots -> [Libs -> MaybeSym]]
  /\ Own \in [Slots -> MaybeSym]
  /\ Provides \in [Globals -> SUBSET Names]
  /\ Unset \notin Globals /\ NoSym \notin Symbols

(* Addresses, by who answered. *)
Stub       == <<"stub">>        \* back into the PLT, as relocate_pltrel_lazy left it
Nowhere    == <<"nowhere">>     \* None
Null       == <<"null">>        \* 0, for a weak symbol nobody defines
InGlobal(g, n) == <<"global", g, n>>
FromPreFind(n) == <<"pre_find", n>>
InLib(l, d)    == <<"lib", l, d>>
InSelf(d)      == <<"self", d>>

VARIABLES
  global,     \* GLOBAL_SCOPE
  slots,      \* the words of .got.plt
  th,         \* th[t]: where thread t is in the call it makes
  gone,       \* libraries whose last handle was dropped: unmapped
  aborted,    \* the slot whose call ended the process: a panic in an extern "C"
              \* fn, or a jump into a library that is gone
  seen,       \* history: what GLOBAL_SCOPE was since t's dl_fixup began
  published   \* history: every value it ever had

vars == <<global, slots, th, gone, aborted, seen, published>>

Idle == [pc |-> "idle", slot |-> "none", scope |-> Unset, lib |-> 1, sym |-> Nowhere]

Init ==
  /\ global = Unset
  /\ slots = [s \in Slots |-> Stub]
  /\ th = [t \in Threads |-> Idle]
  /\ gone = {}
  /\ aborted = {}
  /\ seen = [t \in Threads |-> {}]
  /\ published = {Unset}

Running == aborted = {}

name(t) == NameOf[th[t].slot]
Move(t, r) == th' = [th EXCEPT ![t] = r]

-----------------------------------------------------------------------------
(* The store is atomic; dl_fixups under way keep what they have loaded. *)
SetGlobalScope(g) ==
  /\ Running
  /\ global' = g
  /\ published' = published \cup {g}
  /\ seen' = [t \in Threads |-> IF th[t].pc \in {"idle", "jump"} THEN {} ELSE seen[t] \cup {g}]
  /\ UNCHANGED <<slots, th, gone, aborted>>

(* Elsewhere the last handle of a library is dropped (Lifetime). *)
DropLib(l) ==
  /\ Running /\ l \notin gone
  /\ gone' = gone \cup {l}
  /\ UNCHANGED <<global, slots, th, aborted, seen, published>>

(* A call of the object's code through the PLT: the jump goes where the    *)
(* slot says, by way of the stub into dl_runtime_resolve.                  *)
CallPlt(t, s) ==
  /\ Running /\ th[t].pc = "idle"
  /\ Move(t, [Idle EXCEPT !.pc = IF slots[s] = Stub THEN "fixup" ELSE "jump",
                          !.slot = s,
                          !.sym = IF slots[s] = Stub THEN Nowhere ELSE slots[s]])
  /\ seen' = [seen EXCEPT ![t] = IF slots[s] = Stub THEN {global} ELSE {}]
  /\ UNCHANGED <<global, slots, gone, aborted, published>>

(* The process ends, and every thread with it. *)
Abort(t) ==
  /\ aborted' = {th[t].slot}
  /\ th' = [u \in Threads |-> Idle]
  /\ seen' = [u \in Threads |-> {}]
  /\ UNCHANGED <<global, slots, gone, published>>

(* dl_fixup: assert!(r_type == REL_JUMP_SLOT && r_sym != 0), symbol_idx.   *)
BadEntry(t) == Running /\ th[t].pc = "fixup" /\ th[t].slot \in Bad /\ Abort(t)

LoadScope_LocalFirst(t) ==       \* mutant: the local scope is asked and no other
  /\ Running /\ th[t].pc = "fixup" /\ th[t].slot \notin Bad
  /\ Move(t, [th[t] EXCEPT !.scope = global, !.pc = "local"])
  /\ UNCHANGED <<global, slots, gone, aborted, seen, published>>

(* The scope is loaded once. *)
LoadScope(t) ==
  /\ Running /\ th[t].pc = "fixup" /\ th[t].slot \notin Bad
  /\ Move(t, [th[t] EXCEPT !.scope = global, !.pc = IF global = Unset THEN "local" ELSE "global"])
  /\ UNCHANGED <<global, slots, gone, aborted, seen, published>>

Found(t, a) == Move(t, [th[t] EXCEPT !.sym = a, !.pc = "write"])

AskGlobal_NoCheck(t) ==          \* mutant: None of the global scope is taken for an address
  /\ Running /\ th[t].pc = "global"
  /\ Found(t, IF name(t) \in Provides[th[t].scope]
              THEN InGlobal(th[t].scope, name(t)) ELSE <<"null">>)
  /\ UNCHANGED <<global, slots, gone, aborted, seen, published>>

AskGlobal(t) ==
  /\ Running /\ th[t].pc = "global"
  /\ IF name(t) \in Provides[th[t].scope]
     THEN Found(t, InGlobal(th[t].scope, name(t)))
     ELSE Move(t, [th[t] EXCEPT !.pc = "local"])
  /\ UNCHANGED <<global, slots, gone, aborted, seen, published>>

(* The closure of create_lazy_scope: for each library in turn, pre_find    *)
(* and then the library, which must still be there.                        *)
AskLib_LibFirst(t) ==            \* mutant: the library before the closure
  /\ Running /\ th[t].pc = "local" /\ th[t].slot \in Local
  /\ th[t].lib <= Len(Scope[th[t].slot])
  /\ LET l == Scope[th[t].slot][th[t].lib] IN
     /\ l \notin gone
     /\ IF Get[l][name(t)] # NoSym THEN Found(t, InLib(l, Get[l][name(t)]))
        ELSE IF name(t) \in PreFind[th[t].slot] THEN Found(t, FromPreFind(name(t)))
        ELSE Move(t, [th[t] EXCEPT !.lib = @ + 1])
  /\ UNCHANGED <<global, slots, gone, aborted, seen, published>>

AskLib(t) ==
  /\ Running /\ th[t].pc = "local" /\ th[t].slot \in Local
  /\ th[t].lib <= Len(Scope[th[t].slot])
  /\ LET l == Scope[th[t].slot][th[t].lib] IN
     \/ name(t) \in PreFind[th[t].slot] /\ Found(t, FromPreFind(name(t)))
     \/ /\ name(t) \notin PreFind[th[t].slot] /\ l \notin gone
        /\ IF Get[l][name(t)] # NoSym THEN Found(t, InLib(l, Get[l][name(t)]))
           ELSE Move(t, [th[t] EXCEPT !.lib = @ + 1])
  /\ UNCHANGED <<global, slots, gone, aborted, seen, published>>

UpgradeFails_First(t) ==         \* mutant: the libraries are upgraded before pre_find is asked
  /\ Running /\ th[t].pc = "local" /\ th[t].slot \in Local
  /\ th[t].lib <= Len(Scope[th[t].slot])
  /\ Scope[th[t].slot][th[t].lib] \in gone
  /\ Abort(t)

(* lib.upgrade().unwrap() of a library that is gone. *)
UpgradeFails(t) ==
  /\ Running /\ th[t].pc = "local" /\ th[t].slot \in Local
  /\ th[t].lib <= Len(Scope[th[t].slot])
  /\ name(t) \notin PreFind[th[t].slot] /\ Scope[th[t].slot][th[t].lib] \in gone
  /\ Abort(t)

(* lazy_scope.as_ref().unwrap() without a scope, or expect("lazy bind fail") *)
(* at the end of the libraries.                                            *)
Panic(t) ==
  /\ Running /\ th[t].pc = "local"
  /\ th[t].slot \in Local => th[t].lib > Len(Scope[th[t].slot])
  /\ Abort(t)

(* The symbol is returned to dl_runtime_resolve; dl_fixup is over. *)
Resolved(t) ==
  /\ Move(t, [Idle EXCEPT !.pc = "jump", !.slot = th[t].slot, !.sym = th[t].sym])
  /\ seen' = [seen EXCEPT ![t] = {}]

WriteSlot_Other(t) ==            \* mutant: the index of another slot
  /\ Running /\ th[t].pc = "write"
  /\ slots' = [slots EXCEPT ![CHOOSE s \in Slots : s # th[t].slot] = th[t].sym]
  /\ Resolved(t)
  /\ UNCHANGED <<global, gone, aborted, published>>

WriteSlot_Retry(t) ==            \* mutant: a lookup that a new scope overtook is repeated
  /\ Running /\ th[t].pc = "write"
  /\ IF global = th[t].scope
     THEN slots' = [slots EXCEPT ![th[t].slot] = th[t].sym] /\ Resolved(t)
     ELSE Move(t, [th[t] EXCEPT !.pc = "fixup", !.lib = 1]) /\ UNCHANGED <<slots, seen>>
  /\ UNCHANGED <<global, gone, aborted, published>>

(* ptr.write(symbol): no lock, no comparison with what is there by now. *)
WriteSlot(t) ==
  /\ Running /\ th[t].pc = "write"
  /\ slots' = [slots EXCEPT ![th[t].slot] = th[t].sym]
  /\ Resolved(t)
  /\ UNCHANGED <<global, gone, aborted, published>>

Unmapped(a) == \E l \in gone, d \in Symbols : a = InLib(l, d)

(* jmp rax: the call is made, and returns. *)
Jump(t) ==
  /\ Running /\ th[t].pc = "jump" /\ ~Unmapped(th[t].sym)
  /\ Move(t, Idle)
  /\ UNCHANGED <<global, slots, gone, aborted, seen, published>>

(* The function went with its library: a fault. *)
JumpFaults(t) == Running /\ th[t].pc = "jump" /\ Unmapped(th[t].sym) /\ Abort(t)

Step(t) == \/ BadEntry(t) \/ LoadScope(t) \/ AskGlobal(t) \/ AskLib(t) \/ UpgradeFails(t)
           \/ Panic(t) \/ WriteSlot(t) \/ Jump(t) \/ JumpFaults(t)

Next == \/ \E g \in Globals : SetGlobalScope(g)
        \/ \E l \in Libs : DropLib(l)
        \/ \E t \in Threads, s \in Slots : CallPlt(t, s)
        \/ \E t \in Threads : Step(t)

(* Threads are scheduled; dl_fixup never waits for anyone. *)
Spec == Init /\ [][Next]_vars /\ \A t \in Threads : WF_vars(Step(t))

-----------------------------------------------------------------------------
(***************************************************************************)
(* What relocate_pltrel would have written into the slot at load time:     *)
(* the symbol is looked up with its version, first in the closure, then in *)
(* the object itself, then in the libraries.                               *)
(***************************************************************************)
First(P) == CHOOSE i \in P : \A j \in P : i <= j

EagerDefiners(s) == {i \in 1 .. Len(Scope[s]) : GetFor[s][Scope[s][i]] # NoSym}

Eager(s) ==
  IF NameOf[s] \in PreFind[s] THEN FromPreFind(NameOf[s])
  ELSE IF Own[s] # NoSym THEN InSelf(Own[s])
  ELSE IF EagerDefiners(s) # {}
       THEN LET l == Scope[s][First(EagerDefiners(s))] IN InLib(l, GetFor[s][l])
  ELSE IF s \in Weak THEN Null ELSE Nowhere

(***************************************************************************)
(* The reference for dl_fixup: the documented order of a lazy lookup, the  *)
(* global scope, then pre_find, then the libraries in their order; and     *)
(* what a slot is bound to while GLOBAL_SCOPE is g.                        *)
(***************************************************************************)
Definers(s) == {i \in 1 .. Len(Scope[s]) : Get[Scope[s][i]][NameOf[s]] # NoSym}

LocalAnswer(s) ==
  IF s \notin Local THEN Nowhere
  ELSE IF NameOf[s] \in PreFind[s] THEN FromPreFind(NameOf[s])
  ELSE IF Definers(s) # {}
       THEN LET l == Scope[s][First(Definers(s))] IN InLib(l, Get[l][NameOf[s]])
  ELSE Nowhere

Provided(s, g) == g # Unset /\ NameOf[s] \in Provides[g]

Answer == [s \in Slots |-> [g \in Scopes |->
             IF Provided(s, g) THEN InGlobal(g, NameOf[s]) ELSE LocalAnswer(s)]]

Address == {InGlobal(g, n) : g \in Globals, n \in Names}
           \cup {FromPreFind(n) : n \in Names} \cup {InLib(l, d) : l \in Libs, d \in Symbols}

Call == [ pc : {"idle", "fixup", "global", "local", "write", "jump"},
          slot : Slots \cup {"none"}, scope : Scopes, lib : Nat \ {0},
          sym : Address \cup {Nowhere} ]

(* Every variable holds a value of its type. *)
TypeOK ==
  /\ global \in Scopes
  /\ slots \in [Slots -> Address \cup {Stub}]
  /\ th \in [Threads -> Call]
  /\ gone \subseteq Libs
  /\ aborted \subseteq Slots
  /\ seen \in [Threads -> SUBSET Scopes]
  /\ published \subseteq Scopes

(***************************************************************************)
(* The answer dl_fixup is about to write is the one GLOBAL_SCOPE, as it    *)
(* was at some moment of this very dl_fixup, gives: set_global_scope in    *)
(* the middle of it is seen entirely or not at all.                        *)
(***************************************************************************)
FreshBinding ==
  \A t \in Threads : th[t].pc = "write" =>
    \E g \in seen[t] : th[t].sym = Answer[th[t].slot][g]

(***************************************************************************)
(* The lazy and the eager lookup ask the same tables the same question:    *)
(* the object has no definition of its own that only the eager scope       *)
(* holds, and in no library does the version make a difference.            *)
(***************************************************************************)
SameQuestion(s) ==
  /\ Own[s] = NoSym
  /\ \A i \in 1 .. Len(Scope[s]) : GetFor[s][Scope[s][i]] = Get[Scope[s][i]][NameOf[s]]

(***************************************************************************)
(* Where no global scope knows the symbol and the two lookups ask the same *)
(* question, a slot is bound lazily to what relocate_pltrel would have     *)
(* written at load time, or is still a stub.                               *)
(***************************************************************************)
SameAsEager ==
  \A s \in Slots :
    SameQuestion(s) /\ (\A g \in published : ~Provided(s, g)) => slots[s] \in {Stub, Eager(s)}

(* A library the lookup of the slot comes to is gone. *)
Dangling(s) ==
  /\ NameOf[s] \notin PreFind[s]
  /\ \E i \in 1 .. Len(Scope[s]) :
       Scope[s][i] \in gone /\ \A j \in 1 .. i - 1 : Get[Scope[s][j]][NameOf[s]] = NoSym

(***************************************************************************)
(* dl_fixup, and the jump after it, end the process only on an entry it    *)
(* does not accept, a scope without a library, a symbol that the closure   *)
(* and the libraries lack, or a library on the way to it that is gone.     *)
(***************************************************************************)
AbortOnlyIfUnbound ==
  \A s \in aborted : s \in Bad \/ Scope[s] = <<>> \/ LocalAnswer(s) = Nowhere \/ Dangling(s)

(* "the symbol is first searched in the function closure pre_find": what   *)
(* the closure knows does not fail to bind.                                *)
PreFindFirst == \A s \in aborted : s \in Local \ Bad => NameOf[s] \notin PreFind[s]

(* Neither a race of two dl_fixups nor a new scope unbinds a bound slot. *)
BoundForever == [][\A s \in Slots : slots[s] # Stub => slots'[s] # Stub]_vars

(* The threads together do no more than PltSlots allows. *)
Abstract == INSTANCE PltSlots WITH Start <- Unset
ImplementsPltSlots == Abstract!Spec

(* A call through the PLT reaches its function, or the process aborts. *)
CallsEnd == \A t \in Threads : th[t].pc # "idle" ~> (th[t].pc = "idle" \/ ~Running)

=============================================================================
