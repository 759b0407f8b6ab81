------------------------------ MODULE Lifetime ------------------------------
(***************************************************************************)
(* Who keeps a loaded object alive, and in which order objects are         *)
(* finalised and unmapped (src/format/{mod,dylib,exec}.rs, src/segment.rs).*)
(*                                                                         *)
(* An object sits behind an Arc<CoreComponentInner>.  The ElfDylib or      *)
(* ElfExec that load returns becomes a RelocatedDylib<'lib> /              *)
(* RelocatedExec<'lib>; it and its clones are the handles <<o, k>>.  Its   *)
(* 'lib borrows the handles it was relocated against and, since these      *)
(* have a lifetime too, those that they borrow.  A CoreComponent is a      *)
(* handle without a lifetime, and a CoreComponentRef a weak one.  Handles  *)
(* may be held, used and dropped by any thread.                            *)
(*                                                                         *)
(* What Rust enforces (external: the borrow checker): a handle whose       *)
(* borrows are over cannot be used again, but it can be dropped, for it    *)
(* has no Drop of its own and 'lib stands only in a PhantomData.           *)
(***************************************************************************)
EXTENDS Integers, FiniteSets

CONSTANTS
  Objs,        \* objects, each loaded once
  Execs,       \* those that may be executables without relocations
  Foreign,     \* those that another loader may have loaded
  Deps,        \* Deps[o]: the objects o may be relocated against
  MaxHandles,  \* MaxHandles[o]: bound on the relocated handles of o, clones included
  MaxBare,     \* MaxBare[o]: bound on the CoreComponent handles of o
  MaxCalls     \* bound on the calls under way at a time

ASSUME LifetimeAssumption ==
  /\ Execs \subseteq Objs /\ Foreign \subseteq Objs
  /\ Deps \in [Objs -> SUBSET Objs]
  /\ MaxHandles \in [Objs -> Nat \ {0}] /\ MaxBare \in [Objs -> Nat] /\ MaxCalls \in Nat

Handle == Objs \X (Nat \ {0})

(* Code that runs: a call through a handle, or <<o, 0>>, o's finaliser. *)
Thread == Objs \X Nat

VARIABLES
  elf,      \* elf[o]: the handle load returned: none, held, spent
  made,     \* made[o]: how many relocated handles o has had
  live,     \* the relocated handles that are not dropped
  bare,     \* bare[o]: CoreComponent handles
  weak,     \* objects some CoreComponentRef refers to
  scope,    \* scope[o]: the handles o was relocated against
  lent,     \* lent[o]: the handles 'lib of o borrows
  calls,    \* the handles a function of the object is called through, by a Symbol<'lib>
  fixup,    \* <<r, d>>: a dl_fixup in r looks into d, through an upgraded Weak
  exec,     \* the executables that relocate returned as they were
  is_init,  \* objects whose initialisers this loader has run
  life,     \* life[o]: absent, live, dropping, finished, freed
  dropper,  \* dropper[o]: the kind of handle whose drop was the last
  finis,    \* finis[o]: how often o's finalisers were called
  crashed   \* code that called into a library that was gone

vars == <<elf, made, live, bare, weak, scope, lent, calls, fixup,
          exec, is_init, life, dropper, finis, crashed>>

Init ==
  /\ elf = [o \in Objs |-> "none"] /\ life = [o \in Objs |-> "absent"]
  /\ made = [o \in Objs |-> 0]     /\ bare = [o \in Objs |-> 0]
  /\ live = {} /\ calls = {} /\ weak = {} /\ fixup = {} /\ exec = {} /\ is_init = {}
  /\ crashed = {}
  /\ scope = [o \in Objs |-> {}]   /\ lent = [o \in Objs |-> {}]
  /\ dropper = [o \in Objs |-> "nobody"]
  /\ finis = [o \in Objs |-> 0]

Running == crashed = {}

HandlesOf(o) == {h \in live : h[1] = o}
Lookups(o)   == {p \in fixup : p[2] = o}

(* The strong count of the Arc is not zero. *)
Held(o) == elf[o] = "held" \/ bare[o] > 0 \/ HandlesOf(o) # {} \/ Lookups(o) # {}

(* Using a handle of o keeps alive the borrows of 'lib: none is over yet. *)
Usable(o) == lent[o] \subseteq live

(* r is running code of its object, and is not inside dl_fixup. *)
Executing(r) ==
  /\ \/ r \in calls
     \/ r[2] = 0 /\ r[1] \in is_init /\ life[r[1]] = "dropping"
  /\ \A p \in fixup : p[1] # r

(* Objects the code of o may get into, and those their slots are bound to. *)
Libs(o)  == {h[1] : h \in scope[o]}
Reach(o) == {o} \cup {h[1] : h \in lent[o]}

Gone(d) == life[d] \in {"dropping", "finished", "freed"}

(* Drop of an Arc: the last one starts the drop of the inner value. *)
Release(o, kind) ==
  /\ life' = [life EXCEPT ![o] = IF Held(o)' THEN @ ELSE "dropping"]
  /\ dropper' = [dropper EXCEPT ![o] = IF Held(o)' THEN @ ELSE kind]
  /\ UNCHANGED <<made, weak, scope, lent, calls, exec, is_init, finis, crashed>>

-----------------------------------------------------------------------------
Load_Leak(o) ==                  \* mutant: load keeps a handle of its own
  /\ Running /\ elf[o] = "none"
  /\ elf' = [elf EXCEPT ![o] = "held"]
  /\ bare' = [bare EXCEPT ![o] = 1]
  /\ life' = [life EXCEPT ![o] = "live"]
  /\ UNCHANGED <<made, live, weak, scope, lent, calls, fixup, exec, is_init, dropper, finis, crashed>>

Load(o) ==
  /\ Running /\ elf[o] = "none"
  /\ elf' = [elf EXCEPT ![o] = "held"]
  /\ life' = [life EXCEPT ![o] = "live"]
  /\ UNCHANGED <<made, live, bare, weak, scope, lent, calls, fixup,
                 exec, is_init, dropper, finis, crashed>>

(* RelocatedDylib::new_uncheck, CoreComponent::from_raw: an object another *)
(* loader has initialised is adopted, with no scope and with no finalisers *)
(* of its own (is_init is set, fini_fn and fini_array_fn are None).        *)
NewUncheck(o) ==
  /\ Running /\ elf[o] = "none" /\ o \in Foreign
  /\ elf' = [elf EXCEPT ![o] = "spent"]
  /\ made' = [made EXCEPT ![o] = 1] /\ live' = live \cup {<<o, 1>>}
  /\ life' = [life EXCEPT ![o] = "live"]
  /\ UNCHANGED <<bare, weak, scope, lent, calls, fixup, exec, is_init, dropper, finis, crashed>>

(* The libraries of the scope are passed as references to their handles,   *)
(* originals or clones: &'iter RelocatedDylib<'scope>, 'scope: 'iter.      *)
Borrowable(S) == \A h \in S : h[1] \notin exec /\ Usable(h[1])

(* 'scope: 'iter and 'iter: 'lib. *)
Loans_Direct(S) == S             \* mutant: 'scope: 'iter is missing

Loans(S) == S \cup UNION {lent[h[1]] : h \in S}

Relocate(o, S) ==
  /\ Running /\ elf[o] = "held" /\ Borrowable(S) /\ \A h \in S : h[1] \in Deps[o]
  /\ elf' = [elf EXCEPT ![o] = "spent"]
  /\ made' = [made EXCEPT ![o] = 1] /\ live' = live \cup {<<o, 1>>}
  /\ scope' = [scope EXCEPT ![o] = S] /\ lent' = [lent EXCEPT ![o] = Loans(S)]
  /\ is_init' = is_init \cup {o}
  /\ UNCHANGED <<bare, weak, calls, fixup, exec, life, dropper, finis, crashed>>

(* An executable without relocations is returned before anything is done:  *)
(* it has the borrows, but no scope, and its initialisers are not run.     *)
RelocateNothing(o, S) ==
  /\ Running /\ elf[o] = "held" /\ o \in Execs
  /\ Borrowable(S) /\ \A h \in S : h[1] \in Deps[o]
  /\ elf' = [elf EXCEPT ![o] = "spent"]
  /\ made' = [made EXCEPT ![o] = 1] /\ live' = live \cup {<<o, 1>>}
  /\ lent' = [lent EXCEPT ![o] = Loans(S)]
  /\ exec' = exec \cup {o}
  /\ UNCHANGED <<bare, weak, scope, calls, fixup, is_init, life, dropper, finis, crashed>>

(* An Err or a panic drops the object on the way, as the caller may itself. *)
DropElf(o) ==
  /\ Running /\ elf[o] = "held"
  /\ elf' = [elf EXCEPT ![o] = "spent"]
  /\ UNCHANGED <<live, bare, fixup>>
  /\ Release(o, "elf")

(***************************************************************************)
(* A handle is dropped at the end of its owner's block or by a move.  The  *)
(* Symbol<'lib> of a call under way keeps the handle it came from and all  *)
(* that its 'lib borrows; nothing else does.                               *)
(***************************************************************************)
DropRelocated_OwnCalls(h) ==     \* mutant: 'iter: 'lib is missing from the signature
  /\ Running /\ h \in live
  /\ h \notin calls
  /\ live' = live \ {h}
  /\ UNCHANGED <<elf, bare, fixup>>
  /\ Release(h[1], "relocated")

DropRelocated(h) ==
  /\ Running /\ h \in live
  /\ \A c \in calls : h # c /\ h \notin lent[c[1]]
  /\ live' = live \ {h}
  /\ UNCHANGED <<elf, bare, fixup>>
  /\ Release(h[1], "relocated")

CloneRelocated(o) ==
  /\ Running /\ HandlesOf(o) # {} /\ Usable(o) /\ made[o] < MaxHandles[o]
  /\ made' = [made EXCEPT ![o] = @ + 1] /\ live' = live \cup {<<o, made[o] + 1>>}
  /\ UNCHANGED <<elf, bare, weak, scope, lent, calls, fixup,
                 exec, is_init, life, dropper, finis, crashed>>

(* A CoreComponent, or a reference to one, is at hand: the elf handle and  *)
(* relocated handles deref to it.                                          *)
AtHand(o) == \/ elf[o] = "held" \/ bare[o] > 0
             \/ HandlesOf(o) # {} /\ Usable(o)

(* ElfCommonPart::core_component, or a clone of what a relocated handle    *)
(* derefs to: safe calls, and the copy carries no lifetime.                *)
CoreComponent(o) ==
  /\ Running /\ AtHand(o) /\ bare[o] < MaxBare[o]
  /\ bare' = [bare EXCEPT ![o] = @ + 1]
  /\ UNCHANGED <<elf, made, live, weak, scope, lent, calls, fixup,
                 exec, is_init, life, dropper, finis, crashed>>

DropCore_Twice(o) ==             \* mutant: the count is decremented twice
  /\ Running /\ bare[o] > 0
  /\ bare' = [bare EXCEPT ![o] = @ - 2]
  /\ UNCHANGED <<elf, live, fixup>>
  /\ Release(o, "bare")

DropCore(o) ==
  /\ Running /\ bare[o] > 0
  /\ bare' = [bare EXCEPT ![o] = @ - 1]
  /\ UNCHANGED <<elf, live, fixup>>
  /\ Release(o, "bare")

Downgrade(o) ==
  /\ Running /\ AtHand(o) /\ o \notin weak /\ MaxBare[o] > 0
  /\ weak' = weak \cup {o}
  /\ UNCHANGED <<elf, made, live, bare, scope, lent, calls, fixup,
                 exec, is_init, life, dropper, finis, crashed>>

Upgrade(o) ==
  /\ Running /\ o \in weak /\ Held(o) /\ bare[o] < MaxBare[o]
  /\ bare' = [bare EXCEPT ![o] = @ + 1]
  /\ UNCHANGED <<elf, made, live, weak, scope, lent, calls, fixup,
                 exec, is_init, life, dropper, finis, crashed>>

-----------------------------------------------------------------------------
(* RelocatedDylib::get, and a call of the Symbol<'lib> it returns. *)
Call(h) ==
  /\ Running /\ h \in live \ calls /\ h[1] \notin exec /\ Usable(h[1])
  /\ Cardinality(calls) < MaxCalls
  /\ calls' = calls \cup {h}
  /\ UNCHANGED <<elf, made, live, bare, weak, scope, lent, fixup,
                 exec, is_init, life, dropper, finis, crashed>>

Return(h) ==
  /\ Running /\ h \in calls /\ Executing(h)
  /\ calls' = calls \ {h}
  /\ UNCHANGED <<elf, made, live, bare, weak, scope, lent, fixup,
                 exec, is_init, life, dropper, finis, crashed>>

(* dl_fixup of some object the code has got into upgrades the              *)
(* CoreComponentRef of d for the time of one lookup.                       *)
FixupUpgrade(r, d) ==
  /\ Running /\ Executing(r)
  /\ \E x \in Reach(r[1]) : d \in Libs(x) /\ life[x] # "freed"
  /\ Held(d)
  /\ fixup' = fixup \cup {<<r, d>>}
  /\ UNCHANGED <<elf, made, live, bare, weak, scope, lent, calls,
                 exec, is_init, life, dropper, finis, crashed>>

FixupDone(r, d) ==
  /\ Running /\ <<r, d>> \in fixup
  /\ fixup' = fixup \ {<<r, d>>}
  /\ UNCHANGED <<elf, live, bare>>
  /\ Release(d, IF r[2] = 0 THEN "fini" ELSE "call")

(* The code gets to a library that is being dropped or is unmapped: the    *)
(* failed upgrade().unwrap() inside dl_fixup, or a jump into nothing.      *)
Crash(r) ==
  /\ Running /\ Executing(r)
  /\ \E h \in lent[r[1]] : Gone(h[1])
  /\ crashed' = {r}
  /\ UNCHANGED <<elf, made, live, bare, weak, scope, lent, calls, fixup,
                 exec, is_init, life, dropper, finis>>

-----------------------------------------------------------------------------
(* Drop for CoreComponentInner, then its fields: segments unmaps itself.   *)
Fini_Always(o) ==                \* mutant: is_init is not looked at
  /\ Running /\ life[o] = "dropping"
  /\ \A p \in fixup : p[1] # <<o, 0>>
  /\ finis' = [finis EXCEPT ![o] = @ + 1]
  /\ life' = [life EXCEPT ![o] = "finished"]
  /\ UNCHANGED <<elf, made, live, bare, weak, scope, lent, calls, fixup,
                 exec, is_init, dropper, crashed>>

Fini(o) ==
  /\ Running /\ life[o] = "dropping"
  /\ \A p \in fixup : p[1] # <<o, 0>>
  /\ finis' = [finis EXCEPT ![o] = @ + IF o \in is_init THEN 1 ELSE 0]
  /\ life' = [life EXCEPT ![o] = "finished"]
  /\ UNCHANGED <<elf, made, live, bare, weak, scope, lent, calls, fixup,
                 exec, is_init, dropper, crashed>>

Munmap_Never(o) ==               \* mutant: ElfSegments has no Drop
  Running /\ life[o] = "finished" /\ UNCHANGED vars

Munmap(o) ==
  /\ Running /\ life[o] = "finished"
  /\ life' = [life EXCEPT ![o] = "freed"]
  /\ UNCHANGED <<elf, made, live, bare, weak, scope, lent, calls, fixup,
                 exec, is_init, dropper, finis, crashed>>

Handles(o) == \/ Load(o) \/ NewUncheck(o) \/ DropElf(o) \/ CloneRelocated(o)
              \/ CoreComponent(o) \/ DropCore(o) \/ Downgrade(o) \/ Upgrade(o)
              \/ \E S \in SUBSET live : Relocate(o, S) \/ RelocateNothing(o, S)

Code(r) == \/ Crash(r)
           \/ \E d \in Objs : FixupUpgrade(r, d) \/ FixupDone(r, d)

Next == \/ \E o \in Objs : Handles(o) \/ Fini(o) \/ Munmap(o)
        \/ \E h \in live : DropRelocated(h) \/ Call(h) \/ Return(h)
        \/ \E r \in calls \cup {<<o, 0>> : o \in is_init} : Code(r)

(* A drop that has begun runs to its end: lookups do, and so do finalisers *)
(* (each slot is looked up once; that their code ends is assumed).         *)
Spec == Init /\ [][Next]_vars
             /\ \A o \in Objs : /\ SF_vars(Fini(o) \/ Crash(<<o, 0>>)) /\ WF_vars(Munmap(o))
                                /\ \A d \in Objs : WF_vars(FixupDone(<<o, 0>>, d))

-----------------------------------------------------------------------------
(* Every variable holds a value of its type. *)
TypeOK ==
  /\ elf \in [Objs -> {"none", "held", "spent"}]
  /\ made \in [Objs -> Nat] /\ bare \in [Objs -> Nat] /\ finis \in [Objs -> Nat]
  /\ live \subseteq Handle /\ calls \subseteq Handle
  /\ weak \subseteq Objs /\ exec \subseteq Objs /\ is_init \subseteq Objs
  /\ crashed \subseteq Thread
  /\ scope \in [Objs -> SUBSET Handle] /\ lent \in [Objs -> SUBSET Handle]
  /\ fixup \subseteq Thread \X Objs
  /\ life \in [Objs -> {"absent", "live", "dropping", "finished", "freed"}]
  /\ dropper \in [Objs -> {"nobody", "elf", "relocated", "bare", "call", "fini"}]

(***************************************************************************)
(* A call finds all it needs: the object it is in, the libraries its slots *)
(* are bound to, those their slots are bound to and so on are all alive    *)
(* until it returns, whoever else drops handles meanwhile.                 *)
(***************************************************************************)
CallsFindLibraries ==
  \A c \in calls : \E K \in SUBSET Objs :
    /\ c[1] \in K
    /\ \A x \in K : Libs(x) \subseteq K /\ life[x] = "live"

(* Only a finaliser ever meets a library that is gone, never a call: the   *)
(* failing upgrade().unwrap() of dl_fixup is out of a call's reach.        *)
CrashOnlyInFini == \A r \in crashed : r[2] = 0

(* An object is mapped exactly as long as something holds it, and then its *)
(* finalisers are called once if its initialisers were, else never.        *)
FiniMatchesInit ==
  \A o \in Objs :
    /\ life[o] = "live" <=> Held(o)
    /\ finis[o] = IF o \in is_init /\ life[o] \in {"finished", "freed"} THEN 1 ELSE 0

(* The lookup of a dl_fixup inside a call is never what finalises a        *)
(* library; inside a finaliser it may be.                                  *)
FixupNeverLast == \A o \in Objs : dropper[o] # "call"

(* No handle comes back to an object whose drop has begun. *)
NoRevival == [][\A o \in Objs : Gone(o) => ~Held(o)']_vars

(* Whatever nothing holds any more is unmapped in the end. *)
Unloaded ==
  \A o \in Objs : (elf[o] = "spent" /\ ~Held(o)) ~> (life[o] = "freed" \/ ~Running)

(***************************************************************************)
(* All handles together do what ObjectLife promises: every operation on a  *)
(* handle takes the object into use once more, or once less, or leaves its *)
(* count alone, none does so to an object that is not in use, and an       *)
(* object at zero is finalised, then unmapped.                             *)
(***************************************************************************)
Strong(o) == (IF elf[o] = "held" THEN 1 ELSE 0) + bare[o]
               + Cardinality(HandlesOf(o)) + Cardinality(Lookups(o))

Life == INSTANCE ObjectLife WITH
  Objects <- Objs,
  refs    <- [o \in Objs |-> Strong(o)],
  inited  <- is_init,
  ended   <- {o \in Objs : life[o] \in {"finished", "freed"}},
  called  <- {o \in Objs : finis[o] > 0},
  mapped  <- {o \in Objs : life[o] \in {"live", "dropping", "finished"}}

ImplementsObjectLife == Life!Spec

(* README.md:74: a library is not dropped before the one that depends on   *)
(* it, or the program does not compile.  So nothing that was written       *)
(* without unsafe code ever runs into a library that is gone.              *)
NoPrematureDrop == crashed = {}

=============================================================================
