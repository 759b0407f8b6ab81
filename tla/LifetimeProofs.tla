--------------------------- MODULE LifetimeProofs ---------------------------
(***************************************************************************)
(* For any set of objects and any number of handles and calls: the borrows *)
(* of a call under way keep everything it can reach alive, finalisers run  *)
(* once, in time, and the handles together implement ObjectLife.           *)
(***************************************************************************)
EXTENDS Lifetime, FiniteSetTheorems, TLAPS

(* An object has handles, a scope and initialisers only after relocation. *)
Stages ==
  \A o \in Objs :
    /\ elf[o] = "none" <=> life[o] = "absent"
    /\ elf[o] # "spent" => made[o] = 0 /\ scope[o] = {} /\ lent[o] = {} /\ o \notin is_init
    /\ Gone(o) <=> dropper[o] # "nobody"

(* A handle belongs to a relocated object, and its number was given out. *)
HandlesNumbered ==
  \A h \in live : elf[h[1]] = "spent" /\ h[2] <= made[h[1]]

(* 'lib borrows the scope, and whatever a borrowed handle itself borrows. *)
LoansClosed ==
  \A o \in Objs :
    /\ scope[o] \subseteq lent[o]
    /\ \A h \in lent[o] : elf[h[1]] = "spent" /\ lent[h[1]] \subseteq lent[o]

(* A call under way keeps its handle and the borrows of its 'lib. *)
CallsBorrow == \A c \in calls : c \in live /\ lent[c[1]] \subseteq live

(* A lookup inside a call is in a library that call has borrowed. *)
LookupsBorrowed ==
  \A p \in fixup : p[1][2] # 0 =>
    p[1] \in calls /\ \E h \in lent[p[1][1]] : h[1] = p[2]

BorrowInv == Stages /\ HandlesNumbered /\ LoansClosed /\ CallsBorrow /\ LookupsBorrowed

LifetimeInv == /\ TypeOK /\ BorrowInv
               /\ FiniMatchesInit /\ FixupNeverLast /\ CrashOnlyInFini

-----------------------------------------------------------------------------
(* What a call has borrowed is held, so it is alive. *)
LEMMA BorrowedAlive ==
  ASSUME LifetimeInv, NEW c \in calls, NEW h \in lent[c[1]]
  PROVE  h[1] \in Objs /\ h \in HandlesOf(h[1]) /\ life[h[1]] = "live"
<1>1. c[1] \in Objs /\ h \in live /\ h[1] \in Objs
  BY DEF LifetimeInv, TypeOK, BorrowInv, CallsBorrow, Handle
<1>2. Held(h[1]) /\ h \in HandlesOf(h[1])
  BY <1>1 DEF Held, HandlesOf
<1> QED
  BY <1>1, <1>2 DEF LifetimeInv, FiniMatchesInit

(* Whoever has none of its handles touched is held as before. *)
LEMMA HeldAsBefore ==
  ASSUME NEW u \in Objs, elf'[u] = elf[u], bare'[u] = bare[u],
         HandlesOf(u)' = HandlesOf(u), Lookups(u)' = Lookups(u)
  PROVE  Held(u)' <=> Held(u)
BY DEF Held

LEMMA SameSets ==
  /\ live' = live => \A u \in Objs : HandlesOf(u)' = HandlesOf(u)
  /\ fixup' = fixup => \A u \in Objs : Lookups(u)' = Lookups(u)
BY DEF HandlesOf, Lookups

LEMMA HandleAdded ==
  ASSUME NEW o \in Objs, NEW k, live' = live \cup {<<o, k>>}
  PROVE  /\ \A u \in Objs \ {o} : HandlesOf(u)' = HandlesOf(u)
         /\ HandlesOf(o)' = HandlesOf(o) \cup {<<o, k>>}
BY DEF HandlesOf

LEMMA HandleRemoved ==
  ASSUME NEW h \in live, live' = live \ {h}
  PROVE  /\ \A u \in Objs \ {h[1]} : HandlesOf(u)' = HandlesOf(u)
         /\ HandlesOf(h[1])' = HandlesOf(h[1]) \ {h} /\ h \in HandlesOf(h[1])
BY DEF HandlesOf

LEMMA LookupAdded ==
  ASSUME NEW r, NEW d \in Objs, fixup' = fixup \cup {<<r, d>>}
  PROVE  /\ \A u \in Objs \ {d} : Lookups(u)' = Lookups(u)
         /\ Lookups(d)' = Lookups(d) \cup {<<r, d>>}
BY DEF Lookups

LEMMA LookupRemoved ==
  ASSUME NEW r, NEW d \in Objs, <<r, d>> \in fixup, fixup' = fixup \ {<<r, d>>}
  PROVE  /\ \A u \in Objs \ {d} : Lookups(u)' = Lookups(u)
         /\ Lookups(d)' = Lookups(d) \ {<<r, d>>} /\ <<r, d>> \in Lookups(d)
BY DEF Lookups

(* The life of an object that is and stays held, or is not touched. *)
LEMMA NothingEnds ==
  ASSUME FiniMatchesInit, UNCHANGED <<life, finis>>,
         \A o \in Objs : Held(o)' <=> Held(o),
         \A o \in Objs : life[o] \in {"finished", "freed"} => (o \in is_init' <=> o \in is_init)
  PROVE  FiniMatchesInit'
BY DEF FiniMatchesInit

(* A drop of one strong handle of o. *)
LEMMA ReleaseKeeps ==
  ASSUME LifetimeInv, NEW o \in Objs, NEW kind, Release(o, kind), Held(o),
         kind \in {"elf", "relocated", "bare", "call", "fini"},
         kind = "call" => Held(o)',
         \A u \in Objs \ {o} : Held(u)' <=> Held(u)
  PROVE  /\ FiniMatchesInit' /\ FixupNeverLast' /\ CrashOnlyInFini'
         /\ life' \in [Objs -> {"absent", "live", "dropping", "finished", "freed"}]
         /\ dropper' \in [Objs -> {"nobody", "elf", "relocated", "bare", "call", "fini"}]
         /\ \A u \in Objs : /\ life'[u] = "absent" <=> life[u] = "absent"
                            /\ Gone(u)' <=> dropper'[u] # "nobody"
<1> USE DEF LifetimeInv, Release
<1>1. life[o] = "live" /\ dropper[o] = "nobody"
  BY DEF FiniMatchesInit, BorrowInv, Stages, Gone
<1>2. /\ life' = [life EXCEPT ![o] = IF Held(o)' THEN "live" ELSE "dropping"]
      /\ dropper' = [dropper EXCEPT ![o] = IF Held(o)' THEN "nobody" ELSE kind]
      /\ is_init' = is_init /\ finis' = finis /\ crashed' = crashed
  BY <1>1
<1>3. /\ life \in [Objs -> {"absent", "live", "dropping", "finished", "freed"}]
      /\ dropper \in [Objs -> {"nobody", "elf", "relocated", "bare", "call", "fini"}]
  BY DEF TypeOK
<1> DEFINE H == Held(o)'
<1>4. H \in BOOLEAN
  BY DEF Held
<1> HIDE DEF H
<1>5. /\ life' = [life EXCEPT ![o] = IF H THEN "live" ELSE "dropping"]
      /\ dropper' = [dropper EXCEPT ![o] = IF H THEN "nobody" ELSE kind]
  BY <1>2 DEF H
<1>6. /\ life' \in [Objs -> {"absent", "live", "dropping", "finished", "freed"}]
      /\ dropper' \in [Objs -> {"nobody", "elf", "relocated", "bare", "call", "fini"}]
  BY <1>3, <1>5
<1>7. ASSUME NEW u \in Objs
      PROVE  /\ life'[u] = "absent" <=> life[u] = "absent"
             /\ Gone(u)' <=> dropper'[u] # "nobody"
  <2>1. CASE u = o
    BY <1>1, <1>3, <1>4, <1>5, <2>1 DEF Gone
  <2>2. CASE u # o
    BY <1>3, <1>5, <2>2 DEF Gone, BorrowInv, Stages
  <2> QED
    BY <2>1, <2>2
<1>8. FiniMatchesInit'
  <2> SUFFICES ASSUME NEW u \in Objs
               PROVE  /\ life'[u] = "live" <=> Held(u)'
                      /\ finis[u] = IF u \in is_init /\ life'[u] \in {"finished", "freed"}
                                    THEN 1 ELSE 0
    BY <1>2 DEF FiniMatchesInit
  <2>1. CASE u = o
    <3>1. life'[o] = "live" <=> H
      BY <1>3, <1>4, <1>5
    <3>2. finis[o] = 0 /\ life'[o] \in {"live", "dropping"}
      BY <1>1, <1>3, <1>5 DEF FiniMatchesInit
    <3> QED
      BY <2>1, <3>1, <3>2 DEF H
  <2>2. CASE u # o
    BY <1>3, <1>5, <2>2 DEF FiniMatchesInit
  <2> QED
    BY <2>1, <2>2
<1>9. FixupNeverLast'
  <2> SUFFICES ASSUME NEW u \in Objs PROVE dropper'[u] # "call"
    BY DEF FixupNeverLast
  <2>1. H \/ kind # "call"
    BY DEF H
  <2>2. u # o => dropper'[u] = dropper[u]
    BY <1>3, <1>5
  <2>3. dropper'[o] = IF H THEN "nobody" ELSE kind
    BY <1>3, <1>5
  <2> QED
    BY <2>1, <2>2, <2>3 DEF FixupNeverLast
<1> QED
  BY <1>2, <1>6, <1>7, <1>8, <1>9 DEF CrashOnlyInFini

(* No borrow is touched where these variables are not. *)
LEMMA BorrowsUnchanged ==
  ASSUME BorrowInv, UNCHANGED <<elf, made, live, scope, lent, calls, fixup, is_init>>,
         \A u \in Objs : /\ life'[u] = "absent" <=> life[u] = "absent"
                         /\ Gone(u)' <=> dropper'[u] # "nobody"
  PROVE  BorrowInv'
<1>1. Stages'
  BY DEF BorrowInv, Stages
<1>2. HandlesNumbered' /\ LoansClosed' /\ CallsBorrow' /\ LookupsBorrowed'
  BY DEF BorrowInv, HandlesNumbered, LoansClosed, CallsBorrow, LookupsBorrowed
<1> QED
  BY <1>1, <1>2 DEF BorrowInv

-----------------------------------------------------------------------------
LEMMA InitLifetime == Init => LifetimeInv
<1> SUFFICES ASSUME Init PROVE LifetimeInv
  OBVIOUS
<1>1. TypeOK
  BY DEF Init, TypeOK
<1>2. BorrowInv
  BY DEF Init, BorrowInv, Stages, HandlesNumbered, LoansClosed, CallsBorrow, LookupsBorrowed, Gone
<1>3. FiniMatchesInit
  <2>1. \A o \in Objs : HandlesOf(o) = {} /\ Lookups(o) = {}
    BY DEF Init, HandlesOf, Lookups
  <2> QED
    BY <2>1 DEF Init, FiniMatchesInit, Held
<1> QED
  BY <1>1, <1>2, <1>3 DEF LifetimeInv, Init, FixupNeverLast, CrashOnlyInFini

(* Load and NewUncheck: the first handle of an object. *)
LEMMA LoadKeeps ==
  ASSUME LifetimeInv, NEW o \in Objs, Load(o)
  PROVE  LifetimeInv'
<1> USE DEF LifetimeInv, Load
<1>1. TypeOK'
  BY DEF TypeOK
<1>2. BorrowInv'
  <2>1. \A u \in Objs : elf[u] = "spent" <=> elf'[u] = "spent"
    BY DEF TypeOK
  <2>2. Stages'
    BY DEF TypeOK, BorrowInv, Stages, Gone
  <2>3. HandlesNumbered'
    BY <2>1 DEF TypeOK, Handle, BorrowInv, HandlesNumbered
  <2>4. LoansClosed'
    BY <2>1 DEF TypeOK, Handle, BorrowInv, LoansClosed
  <2> QED
    BY <2>2, <2>3, <2>4 DEF BorrowInv, CallsBorrow, LookupsBorrowed
<1>3. FiniMatchesInit'
  <2>1. life[o] = "absent"
    BY DEF BorrowInv, Stages
  <2>2. Held(o)' /\ life'[o] = "live"
    BY DEF Held, TypeOK
  <2>3. \A u \in Objs \ {o} : (Held(u)' <=> Held(u)) /\ life'[u] = life[u]
    BY HeldAsBefore, SameSets DEF TypeOK
  <2> QED
    BY <2>1, <2>2, <2>3 DEF FiniMatchesInit
<1> QED
  BY <1>1, <1>2, <1>3 DEF FixupNeverLast, CrashOnlyInFini

LEMMA NewUncheckKeeps ==
  ASSUME LifetimeInv, NEW o \in Objs, NewUncheck(o)
  PROVE  LifetimeInv'
<1> USE DEF LifetimeInv, NewUncheck
<1>1. TypeOK'
  BY DEF TypeOK, Handle
<1>2. BorrowInv'
  <2>1. \A u \in Objs : elf[u] = "spent" => elf'[u] = "spent" /\ made'[u] = made[u]
    BY DEF TypeOK
  <2>2. Stages'
    BY DEF TypeOK, BorrowInv, Stages, Gone
  <2>3. HandlesNumbered'
    <3> SUFFICES ASSUME NEW h \in live' PROVE elf'[h[1]] = "spent" /\ h[2] <= made'[h[1]]
      BY DEF HandlesNumbered
    <3>1. CASE h = <<o, 1>>
      BY <3>1 DEF TypeOK
    <3>2. CASE h \in live
      BY <2>1, <3>2 DEF TypeOK, Handle, BorrowInv, HandlesNumbered
    <3> QED
      BY <3>1, <3>2
  <2>4. LoansClosed'
    BY <2>1 DEF TypeOK, Handle, BorrowInv, LoansClosed
  <2>5. CallsBorrow' /\ LookupsBorrowed'
    BY DEF BorrowInv, CallsBorrow, LookupsBorrowed
  <2> QED
    BY <2>2, <2>3, <2>4, <2>5 DEF BorrowInv
<1>3. FiniMatchesInit'
  <2>1. life[o] = "absent"
    BY DEF BorrowInv, Stages
  <2>2. Held(o)' /\ life'[o] = "live"
    BY HandleAdded DEF Held, TypeOK
  <2>3. \A u \in Objs \ {o} : (Held(u)' <=> Held(u)) /\ life'[u] = life[u]
    BY HeldAsBefore, HandleAdded, SameSets DEF TypeOK
  <2> QED
    BY <2>1, <2>2, <2>3 DEF FiniMatchesInit
<1> QED
  BY <1>1, <1>2, <1>3 DEF FixupNeverLast, CrashOnlyInFini

(* What both forms of relocate do to handles and borrows. *)
LEMMA RelocatedBorrows ==
  ASSUME LifetimeInv, NEW o \in Objs, NEW S \in SUBSET live, Borrowable(S), elf[o] = "held",
         elf' = [elf EXCEPT ![o] = "spent"], made' = [made EXCEPT ![o] = 1],
         live' = live \cup {<<o, 1>>},
         scope' = scope \/ scope' = [scope EXCEPT ![o] = S],
         lent' = [lent EXCEPT ![o] = Loans(S)],
         is_init' \subseteq is_init \cup {o},
         UNCHANGED <<bare, calls, fixup, life, dropper>>
  PROVE  /\ BorrowInv' /\ \A u \in Objs : Held(u)' <=> Held(u)
         /\ elf' \in [Objs -> {"none", "held", "spent"}] /\ made' \in [Objs -> Nat]
         /\ live' \subseteq Handle
         /\ scope' \in [Objs -> SUBSET Handle] /\ lent' \in [Objs -> SUBSET Handle]
<1> USE DEF LifetimeInv
<1>1. /\ \A u \in Objs : elf[u] = "spent" => /\ u # o /\ elf'[u] = "spent" /\ made'[u] = made[u]
                                             /\ lent'[u] = lent[u]
      /\ elf'[o] = "spent" /\ made'[o] = 1 /\ lent'[o] = Loans(S)
  BY DEF TypeOK
<1>2. /\ S \subseteq live /\ \A h \in S : h[1] \in Objs /\ elf[h[1]] = "spent"
      /\ \A h \in S : lent[h[1]] \in SUBSET Handle
  BY DEF TypeOK, Handle, BorrowInv, HandlesNumbered
<1>3. Loans(S) \subseteq Handle
  BY <1>2 DEF Loans, TypeOK
<1>4. \A h \in Loans(S) : /\ h[1] \in Objs /\ elf[h[1]] = "spent" /\ lent[h[1]] \subseteq Loans(S)
  <2> SUFFICES ASSUME NEW h \in Loans(S)
               PROVE  h[1] \in Objs /\ elf[h[1]] = "spent" /\ lent[h[1]] \subseteq Loans(S)
    OBVIOUS
  <2>1. CASE h \in S
    BY <1>2, <2>1 DEF Loans
  <2>2. CASE \E g \in S : h \in lent[g[1]]
    <3>1. PICK g \in S : h \in lent[g[1]]
      BY <2>2
    <3>2. g[1] \in Objs /\ h \in Handle
      BY <1>2, <3>1
    <3>3. elf[h[1]] = "spent" /\ lent[h[1]] \subseteq lent[g[1]] /\ h[1] \in Objs
      BY <3>1, <3>2 DEF BorrowInv, LoansClosed, Handle
    <3>4. lent[g[1]] \subseteq Loans(S)
      BY DEF Loans
    <3> QED
      BY <3>3, <3>4
  <2> QED
    BY <2>1, <2>2 DEF Loans
<1>5. Stages'
  <2>1. \A u \in Objs \ {o} : elf'[u] = elf[u] /\ made'[u] = made[u] /\ scope'[u] = scope[u]
                              /\ lent'[u] = lent[u] /\ (u \in is_init' => u \in is_init)
    BY DEF TypeOK
  <2>2. elf[o] # "none"
    OBVIOUS
  <2> QED
    BY <1>1, <2>1, <2>2 DEF BorrowInv, Stages, Gone
<1>6. HandlesNumbered'
  <2> SUFFICES ASSUME NEW h \in live' PROVE elf'[h[1]] = "spent" /\ h[2] <= made'[h[1]]
    BY DEF HandlesNumbered
  <2>1. CASE h = <<o, 1>>
    BY <1>1, <2>1
  <2>2. CASE h \in live
    BY <1>1, <2>2 DEF TypeOK, Handle, BorrowInv, HandlesNumbered
  <2> QED
    BY <2>1, <2>2
<1>7. LoansClosed'
  <2> SUFFICES ASSUME NEW u \in Objs
               PROVE  /\ scope'[u] \subseteq lent'[u]
                      /\ \A h \in lent'[u] : elf'[h[1]] = "spent" /\ lent'[h[1]] \subseteq lent'[u]
    BY DEF LoansClosed
  <2>1. CASE u = o
    <3>1. scope'[o] \subseteq Loans(S)
      <4>1. scope[o] = {}
        BY DEF BorrowInv, Stages
      <4>2. scope'[o] = {} \/ scope'[o] = S
        BY <4>1 DEF TypeOK
      <4> QED
        BY <4>2 DEF Loans
    <3>2. \A h \in Loans(S) : elf'[h[1]] = "spent" /\ lent'[h[1]] \subseteq Loans(S)
      BY <1>1, <1>4
    <3> QED
      BY <1>1, <2>1, <3>1, <3>2
  <2>2. CASE u # o
    <3>1. scope'[u] = scope[u] /\ lent'[u] = lent[u]
      BY <2>2 DEF TypeOK
    <3>2. \A h \in lent[u] : h[1] \in Objs /\ elf[h[1]] = "spent" /\ lent[h[1]] \subseteq lent[u]
      BY DEF TypeOK, Handle, BorrowInv, LoansClosed
    <3>3. scope[u] \subseteq lent[u]
      BY DEF BorrowInv, LoansClosed
    <3> QED
      BY <1>1, <3>1, <3>2, <3>3
  <2> QED
    BY <2>1, <2>2
<1>8. \A c \in calls : c[1] \in Objs /\ lent'[c[1]] = lent[c[1]]
  BY <1>1 DEF TypeOK, Handle, BorrowInv, CallsBorrow, HandlesNumbered
<1>9. CallsBorrow'
  BY <1>8 DEF BorrowInv, CallsBorrow
<1>10. LookupsBorrowed'
  BY <1>8 DEF BorrowInv, LookupsBorrowed
<1>11. ASSUME NEW u \in Objs PROVE Held(u)' <=> Held(u)
  <2>1. CASE u = o
    <3>1. Held(o)
      BY DEF Held
    <3>2. Held(o)'
      BY HandleAdded DEF Held
    <3> QED
      BY <2>1, <3>1, <3>2
  <2>2. CASE u # o
    <3>1. elf'[u] = elf[u]
      BY <2>2 DEF TypeOK
    <3> QED
      BY <2>2, <3>1, HeldAsBefore, HandleAdded, SameSets
  <2> QED
    BY <2>1, <2>2
<1>12. /\ elf' \in [Objs -> {"none", "held", "spent"}] /\ made' \in [Objs -> Nat]
       /\ live' \subseteq Handle
  BY DEF TypeOK, Handle
<1>13. scope' \in [Objs -> SUBSET Handle] /\ lent' \in [Objs -> SUBSET Handle]
  <2>1. S \in SUBSET Handle
    BY DEF TypeOK
  <2> QED
    BY <1>3, <2>1 DEF TypeOK
<1> QED
  BY <1>5, <1>6, <1>7, <1>9, <1>10, <1>11, <1>12, <1>13 DEF BorrowInv

LEMMA RelocateKeeps ==
  ASSUME LifetimeInv, NEW o \in Objs, NEW S \in SUBSET live,
         Relocate(o, S) \/ RelocateNothing(o, S)
  PROVE  LifetimeInv'
<1>1. /\ Borrowable(S) /\ elf[o] = "held"
      /\ elf' = [elf EXCEPT ![o] = "spent"] /\ made' = [made EXCEPT ![o] = 1]
      /\ live' = live \cup {<<o, 1>>}
      /\ scope' = scope \/ scope' = [scope EXCEPT ![o] = S]
      /\ lent' = [lent EXCEPT ![o] = Loans(S)]
      /\ is_init' = is_init \/ is_init' = is_init \cup {o}
      /\ exec' = exec \/ exec' = exec \cup {o}
      /\ UNCHANGED <<bare, weak, calls, fixup, life, dropper, finis, crashed>>
  BY DEF Relocate, RelocateNothing
<1>2. is_init' \subseteq is_init \cup {o}
  BY <1>1
<1>3. /\ BorrowInv' /\ \A u \in Objs : Held(u)' <=> Held(u)
      /\ elf' \in [Objs -> {"none", "held", "spent"}] /\ made' \in [Objs -> Nat]
      /\ live' \subseteq Handle
      /\ scope' \in [Objs -> SUBSET Handle] /\ lent' \in [Objs -> SUBSET Handle]
  BY <1>1, <1>2, RelocatedBorrows
<1>4. TypeOK'
  BY <1>1, <1>3 DEF LifetimeInv, TypeOK
<1>5. life[o] = "live"
  BY <1>1 DEF LifetimeInv, FiniMatchesInit, Held
<1>6. FiniMatchesInit'
  BY <1>1, <1>3, <1>5, NothingEnds DEF LifetimeInv
<1> QED
  BY <1>1, <1>3, <1>4, <1>6 DEF LifetimeInv, FixupNeverLast, CrashOnlyInFini

LEMMA DropElfKeeps ==
  ASSUME LifetimeInv, NEW o \in Objs, DropElf(o)
  PROVE  LifetimeInv'
<1>1. /\ elf[o] = "held" /\ elf' = [elf EXCEPT ![o] = "spent"]
      /\ UNCHANGED <<live, bare, fixup, made, weak, scope, lent, calls, exec, is_init, finis, crashed>>
      /\ Release(o, "elf") /\ Held(o)
  BY DEF DropElf, Release, Held
<1>2. \A u \in Objs \ {o} : elf'[u] = elf[u]
  BY <1>1 DEF LifetimeInv, TypeOK
<1>3. \A u \in Objs \ {o} : Held(u)' <=> Held(u)
  BY <1>1, <1>2, HeldAsBefore, SameSets
<1>4. /\ FiniMatchesInit' /\ FixupNeverLast' /\ CrashOnlyInFini'
      /\ life' \in [Objs -> {"absent", "live", "dropping", "finished", "freed"}]
      /\ dropper' \in [Objs -> {"nobody", "elf", "relocated", "bare", "call", "fini"}]
      /\ \A u \in Objs : /\ life'[u] = "absent" <=> life[u] = "absent"
                         /\ Gone(u)' <=> dropper'[u] # "nobody"
  BY <1>1, <1>3, ReleaseKeeps
<1>5. TypeOK'
  BY <1>1, <1>4 DEF LifetimeInv, TypeOK
<1>6. BorrowInv'
  <2>0. \A u \in Objs : /\ elf[u] = "spent" => elf'[u] = "spent"
                        /\ elf'[u] # "spent" => elf[u] # "spent"
                        /\ elf'[u] = "none" <=> elf[u] = "none"
    BY <1>1 DEF LifetimeInv, TypeOK
  <2>1. Stages'
    BY <1>1, <1>4, <2>0 DEF LifetimeInv, BorrowInv, Stages
  <2>2. HandlesNumbered'
    BY <1>1, <2>0 DEF LifetimeInv, TypeOK, Handle, BorrowInv, HandlesNumbered
  <2>3. LoansClosed'
    BY <1>1, <2>0 DEF LifetimeInv, TypeOK, Handle, BorrowInv, LoansClosed
  <2> QED
    BY <1>1, <2>1, <2>2, <2>3 DEF LifetimeInv, BorrowInv, CallsBorrow, LookupsBorrowed
<1> QED
  BY <1>4, <1>5, <1>6 DEF LifetimeInv

LEMMA DropCoreKeeps ==
  ASSUME LifetimeInv, NEW o \in Objs, DropCore(o)
  PROVE  LifetimeInv'
<1>1. /\ bare[o] > 0 /\ bare' = [bare EXCEPT ![o] = @ - 1]
      /\ UNCHANGED <<elf, live, fixup, made, weak, scope, lent, calls, exec, is_init, finis, crashed>>
      /\ Release(o, "bare") /\ Held(o)
  BY DEF DropCore, Release, Held
<1>2. bare' \in [Objs -> Nat] /\ \A u \in Objs \ {o} : bare'[u] = bare[u]
  BY <1>1 DEF LifetimeInv, TypeOK
<1>3. \A u \in Objs \ {o} : Held(u)' <=> Held(u)
  BY <1>1, <1>2, HeldAsBefore, SameSets
<1>4. /\ FiniMatchesInit' /\ FixupNeverLast' /\ CrashOnlyInFini'
      /\ life' \in [Objs -> {"absent", "live", "dropping", "finished", "freed"}]
      /\ dropper' \in [Objs -> {"nobody", "elf", "relocated", "bare", "call", "fini"}]
      /\ \A u \in Objs : /\ life'[u] = "absent" <=> life[u] = "absent"
                         /\ Gone(u)' <=> dropper'[u] # "nobody"
  BY <1>1, <1>3, ReleaseKeeps
<1>5. TypeOK'
  BY <1>1, <1>2, <1>4 DEF LifetimeInv, TypeOK
<1>6. BorrowInv'
  BY <1>1, <1>4, BorrowsUnchanged DEF LifetimeInv
<1> QED
  BY <1>4, <1>5, <1>6 DEF LifetimeInv

(* A handle that no call under way rests on is dropped. *)
LEMMA DropRelocatedKeeps ==
  ASSUME LifetimeInv, NEW h \in live, DropRelocated(h)
  PROVE  LifetimeInv'
<1>1. /\ h[1] \in Objs /\ live' = live \ {h} /\ \A c \in calls : h # c /\ h \notin lent[c[1]]
      /\ UNCHANGED <<elf, bare, fixup, made, weak, scope, lent, calls, exec, is_init, finis, crashed>>
      /\ Release(h[1], "relocated") /\ Held(h[1])
  BY HandleRemoved DEF DropRelocated, Release, Held, LifetimeInv, TypeOK, Handle
<1>3. \A u \in Objs \ {h[1]} : Held(u)' <=> Held(u)
  BY <1>1, HeldAsBefore, HandleRemoved, SameSets
<1>4. /\ FiniMatchesInit' /\ FixupNeverLast' /\ CrashOnlyInFini'
      /\ life' \in [Objs -> {"absent", "live", "dropping", "finished", "freed"}]
      /\ dropper' \in [Objs -> {"nobody", "elf", "relocated", "bare", "call", "fini"}]
      /\ \A u \in Objs : /\ life'[u] = "absent" <=> life[u] = "absent"
                         /\ Gone(u)' <=> dropper'[u] # "nobody"
  BY <1>1, <1>3, ReleaseKeeps
<1>5. TypeOK'
  BY <1>1, <1>4 DEF LifetimeInv, TypeOK
<1>6. BorrowInv'
  <2>1. Stages' /\ LoansClosed'
    BY <1>1, <1>4 DEF LifetimeInv, BorrowInv, Stages, LoansClosed
  <2>2. HandlesNumbered'
    BY <1>1 DEF LifetimeInv, BorrowInv, HandlesNumbered
  <2>3. CallsBorrow' /\ LookupsBorrowed'
    BY <1>1 DEF LifetimeInv, BorrowInv, CallsBorrow, LookupsBorrowed
  <2> QED
    BY <2>1, <2>2, <2>3 DEF BorrowInv
<1> QED
  BY <1>4, <1>5, <1>6 DEF LifetimeInv

(* The end of a lookup in a call leaves the library to its borrowed handle. *)
LEMMA FixupDoneKeeps ==
  ASSUME LifetimeInv, NEW r, NEW d \in Objs, FixupDone(r, d)
  PROVE  LifetimeInv'
<1> DEFINE kind == IF r[2] = 0 THEN "fini" ELSE "call"
<1>1. /\ <<r, d>> \in fixup /\ fixup' = fixup \ {<<r, d>>}
      /\ UNCHANGED <<elf, live, bare, made, weak, scope, lent, calls, exec, is_init, finis, crashed>>
      /\ Release(d, kind) /\ Held(d)
  BY LookupRemoved DEF FixupDone, Release, Held
<1>2. kind = "call" => Held(d)'
  <2> SUFFICES ASSUME r[2] # 0 PROVE Held(d)'
    OBVIOUS
  <2>1. r \in calls /\ \E h \in lent[r[1]] : h[1] = d
    BY <1>1 DEF LifetimeInv, BorrowInv, LookupsBorrowed
  <2>2. PICK h \in lent[r[1]] : h[1] = d
    BY <2>1
  <2>3. h \in HandlesOf(d)
    BY <2>1, <2>2, BorrowedAlive
  <2> QED
    BY <1>1, <2>3, SameSets DEF Held
<1>3. \A u \in Objs \ {d} : Held(u)' <=> Held(u)
  BY <1>1, HeldAsBefore, LookupRemoved, SameSets
<1>4. /\ FiniMatchesInit' /\ FixupNeverLast' /\ CrashOnlyInFini'
      /\ life' \in [Objs -> {"absent", "live", "dropping", "finished", "freed"}]
      /\ dropper' \in [Objs -> {"nobody", "elf", "relocated", "bare", "call", "fini"}]
      /\ \A u \in Objs : /\ life'[u] = "absent" <=> life[u] = "absent"
                         /\ Gone(u)' <=> dropper'[u] # "nobody"
  <2>1. kind \in {"elf", "relocated", "bare", "call", "fini"}
    OBVIOUS
  <2> HIDE DEF kind
  <2> QED
    BY <1>1, <1>2, <1>3, <2>1, ReleaseKeeps
<1>5. TypeOK'
  BY <1>1, <1>4 DEF LifetimeInv, TypeOK
<1>6. BorrowInv'
  <2>1. Stages' /\ LoansClosed' /\ HandlesNumbered' /\ CallsBorrow'
    BY <1>1, <1>4 DEF LifetimeInv, BorrowInv, Stages, LoansClosed, HandlesNumbered, CallsBorrow
  <2>2. LookupsBorrowed'
    BY <1>1 DEF LifetimeInv, BorrowInv, LookupsBorrowed
  <2> QED
    BY <2>1, <2>2 DEF BorrowInv
<1> QED
  BY <1>4, <1>5, <1>6 DEF LifetimeInv

LEMMA CloneRelocatedKeeps ==
  ASSUME LifetimeInv, NEW o \in Objs, CloneRelocated(o)
  PROVE  LifetimeInv'
<1>1. /\ HandlesOf(o) # {} /\ made' = [made EXCEPT ![o] = @ + 1]
      /\ live' = live \cup {<<o, made[o] + 1>>}
      /\ UNCHANGED <<elf, bare, weak, scope, lent, calls, fixup, exec,
                     is_init, life, dropper, finis, crashed>>
  BY DEF CloneRelocated
<1>2. elf[o] = "spent" /\ made[o] \in Nat
  BY <1>1 DEF LifetimeInv, TypeOK, BorrowInv, HandlesNumbered, HandlesOf
<1>3. TypeOK'
  BY <1>1, <1>2 DEF LifetimeInv, TypeOK, Handle
<1>4. ASSUME NEW u \in Objs PROVE Held(u)' <=> Held(u)
  <2>1. CASE u = o
    BY <1>1, <2>1, HandleAdded DEF Held
  <2>2. CASE u # o
    BY <1>1, <2>2, HandleAdded, HeldAsBefore, SameSets
  <2> QED
    BY <2>1, <2>2
<1>5. BorrowInv'
  <2>1. Stages'
    BY <1>1, <1>2 DEF LifetimeInv, TypeOK, BorrowInv, Stages, Gone
  <2>2. HandlesNumbered'
    <3> SUFFICES ASSUME NEW h \in live' PROVE elf[h[1]] = "spent" /\ h[2] <= made'[h[1]]
      BY <1>1 DEF HandlesNumbered
    <3>1. CASE h = <<o, made[o] + 1>>
      BY <1>1, <1>2, <3>1 DEF LifetimeInv, TypeOK
    <3>2. CASE h \in live
      <4>1. h[1] \in Objs /\ h[2] \in Nat /\ elf[h[1]] = "spent" /\ h[2] <= made[h[1]]
        BY <3>2 DEF LifetimeInv, TypeOK, Handle, BorrowInv, HandlesNumbered
      <4>2. made[h[1]] \in Nat /\ made'[h[1]] \in Nat /\ made[h[1]] <= made'[h[1]]
        BY <1>1, <4>1 DEF LifetimeInv, TypeOK
      <4> QED
        BY <4>1, <4>2
    <3> QED
      BY <1>1, <3>1, <3>2
  <2>3. LoansClosed' /\ CallsBorrow' /\ LookupsBorrowed'
    BY <1>1 DEF LifetimeInv, BorrowInv, LoansClosed, CallsBorrow, LookupsBorrowed
  <2> QED
    BY <2>1, <2>2, <2>3 DEF BorrowInv
<1>6. FiniMatchesInit'
  BY <1>1, <1>4, NothingEnds DEF LifetimeInv
<1> QED
  BY <1>1, <1>3, <1>5, <1>6 DEF LifetimeInv, FixupNeverLast, CrashOnlyInFini

(* One more CoreComponent of an object that is held. *)
LEMMA CoreTakenKeeps ==
  ASSUME LifetimeInv, NEW o \in Objs, CoreComponent(o) \/ Upgrade(o)
  PROVE  LifetimeInv'
<1>1. /\ bare' = [bare EXCEPT ![o] = @ + 1] /\ Held(o)
      /\ UNCHANGED <<elf, made, live, weak, scope, lent, calls, fixup, exec,
                     is_init, life, dropper, finis, crashed>>
  BY DEF CoreComponent, Upgrade, AtHand, Held
<1>2. bare' \in [Objs -> Nat] /\ bare'[o] > 0 /\ \A u \in Objs \ {o} : bare'[u] = bare[u]
  BY <1>1 DEF LifetimeInv, TypeOK
<1>3. TypeOK'
  BY <1>1, <1>2 DEF LifetimeInv, TypeOK
<1>4. ASSUME NEW u \in Objs PROVE Held(u)' <=> Held(u)
  <2>1. CASE u = o
    BY <1>1, <1>2, <2>1 DEF Held
  <2>2. CASE u # o
    BY <1>1, <1>2, <2>2, HeldAsBefore, SameSets
  <2> QED
    BY <2>1, <2>2
<1>5. BorrowInv'
  BY <1>1, BorrowsUnchanged DEF LifetimeInv, BorrowInv, Stages, Gone
<1>6. FiniMatchesInit'
  BY <1>1, <1>4, NothingEnds DEF LifetimeInv
<1> QED
  BY <1>1, <1>3, <1>5, <1>6 DEF LifetimeInv, FixupNeverLast, CrashOnlyInFini

LEMMA DowngradeKeeps ==
  ASSUME LifetimeInv, NEW o \in Objs, Downgrade(o)
  PROVE  LifetimeInv'
<1>1. /\ weak' = weak \cup {o}
      /\ UNCHANGED <<elf, made, live, bare, scope, lent, calls, fixup, exec,
                     is_init, life, dropper, finis, crashed>>
  BY DEF Downgrade
<1>2. TypeOK'
  BY <1>1 DEF LifetimeInv, TypeOK
<1>3. \A u \in Objs : Held(u)' <=> Held(u)
  BY <1>1, HeldAsBefore, SameSets
<1>4. BorrowInv'
  BY <1>1, BorrowsUnchanged DEF LifetimeInv, BorrowInv, Stages, Gone
<1>5. FiniMatchesInit'
  BY <1>1, <1>3, NothingEnds DEF LifetimeInv
<1> QED
  BY <1>1, <1>2, <1>4, <1>5 DEF LifetimeInv, FixupNeverLast, CrashOnlyInFini

LEMMA CallKeeps ==
  ASSUME LifetimeInv, NEW h \in live, Call(h) \/ Return(h)
  PROVE  LifetimeInv'
<1>1. UNCHANGED <<elf, made, live, bare, weak, scope, lent, fixup, exec,
                  is_init, life, dropper, finis, crashed>>
  BY DEF Call, Return
<1>2. calls' \subseteq calls \cup {h}
  BY DEF Call, Return
<1>3. TypeOK'
  BY <1>1, <1>2 DEF LifetimeInv, TypeOK
<1>4. \A u \in Objs : Held(u)' <=> Held(u)
  BY <1>1, HeldAsBefore, SameSets
<1>5. FiniMatchesInit'
  BY <1>1, <1>4, NothingEnds DEF LifetimeInv
<1>6. Stages' /\ HandlesNumbered' /\ LoansClosed'
  BY <1>1 DEF LifetimeInv, BorrowInv, Stages, Gone, HandlesNumbered, LoansClosed
<1>7. CallsBorrow'
  <2>1. CASE Call(h)
    BY <1>1, <2>1 DEF Call, Usable, LifetimeInv, BorrowInv, CallsBorrow
  <2>2. CASE Return(h)
    BY <1>1, <2>2 DEF Return, LifetimeInv, BorrowInv, CallsBorrow
  <2> QED
    BY <2>1, <2>2
<1>8. LookupsBorrowed'
  <2> SUFFICES ASSUME NEW p \in fixup, p[1][2] # 0
               PROVE  p[1] \in calls' /\ \E g \in lent[p[1][1]] : g[1] = p[2]
    BY <1>1 DEF LookupsBorrowed
  <2>1. p[1] \in calls /\ \E g \in lent[p[1][1]] : g[1] = p[2]
    BY DEF LifetimeInv, BorrowInv, LookupsBorrowed
  <2>2. CASE Call(h)
    BY <2>1, <2>2 DEF Call
  <2>3. CASE Return(h)
    BY <2>1, <2>3 DEF Return, Executing
  <2> QED
    BY <2>1, <2>2, <2>3
<1> QED
  BY <1>1, <1>3, <1>5, <1>6, <1>7, <1>8 DEF LifetimeInv, BorrowInv, FixupNeverLast, CrashOnlyInFini

(* Running code is a call or a finaliser. *)
LEMMA ThreadType ==
  ASSUME LifetimeInv, NEW r \in calls \cup {<<o, 0>> : o \in is_init}
  PROVE  r \in Thread /\ r[1] \in Objs /\ (r[2] # 0 => r \in calls)
<1>1. CASE r \in calls
  BY <1>1 DEF LifetimeInv, TypeOK, Handle, Thread
<1>2. CASE r \in {<<o, 0>> : o \in is_init}
  BY <1>2 DEF LifetimeInv, TypeOK, Thread
<1> QED
  BY <1>1, <1>2

LEMMA FixupUpgradeKeeps ==
  ASSUME LifetimeInv, NEW r \in calls \cup {<<o, 0>> : o \in is_init}, NEW d \in Objs,
         FixupUpgrade(r, d)
  PROVE  LifetimeInv'
<1>1. /\ fixup' = fixup \cup {<<r, d>>} /\ Held(d) /\ Executing(r)
      /\ \E x \in Reach(r[1]) : d \in Libs(x)
      /\ UNCHANGED <<elf, made, live, bare, weak, scope, lent, calls, exec,
                     is_init, life, dropper, finis, crashed>>
  BY DEF FixupUpgrade
<1>2. TypeOK'
  BY <1>1, ThreadType DEF LifetimeInv, TypeOK
<1>3. ASSUME NEW u \in Objs PROVE Held(u)' <=> Held(u)
  <2>1. CASE u = d
    BY <1>1, <2>1, LookupAdded DEF Held
  <2>2. CASE u # d
    BY <1>1, <2>2, LookupAdded, HeldAsBefore, SameSets
  <2> QED
    BY <2>1, <2>2
<1>4. FiniMatchesInit'
  BY <1>1, <1>3, NothingEnds DEF LifetimeInv
<1>5. Stages' /\ HandlesNumbered' /\ LoansClosed' /\ CallsBorrow'
  BY <1>1 DEF LifetimeInv, BorrowInv, Stages, Gone, HandlesNumbered, LoansClosed, CallsBorrow
<1>6. \E h \in lent[r[1]] : h[1] = d
  <2>0. r[1] \in Objs /\ lent[r[1]] \subseteq Handle
    BY ThreadType DEF LifetimeInv, TypeOK
  <2>1. PICK x \in Reach(r[1]) : d \in Libs(x)
    BY <1>1
  <2>2. PICK g \in scope[x] : g[1] = d
    BY <2>1 DEF Libs
  <2>3. CASE x = r[1]
    BY <2>0, <2>2, <2>3 DEF LifetimeInv, BorrowInv, LoansClosed
  <2>4. ASSUME NEW h \in lent[r[1]], x = h[1] PROVE \E f \in lent[r[1]] : f[1] = d
    <3>1. x \in Objs
      BY <2>0, <2>4 DEF Handle
    <3>2. scope[x] \subseteq lent[x] /\ lent[x] \subseteq lent[r[1]]
      BY <2>0, <2>4, <3>1 DEF LifetimeInv, BorrowInv, LoansClosed
    <3> QED
      BY <2>2, <3>2
  <2> QED
    BY <2>1, <2>3, <2>4 DEF Reach
<1>7. LookupsBorrowed'
  <2> SUFFICES ASSUME NEW p \in fixup', p[1][2] # 0
               PROVE  p[1] \in calls /\ \E h \in lent[p[1][1]] : h[1] = p[2]
    BY <1>1 DEF LookupsBorrowed
  <2>1. CASE p \in fixup
    BY <2>1 DEF LifetimeInv, BorrowInv, LookupsBorrowed
  <2>2. CASE p = <<r, d>>
    BY <1>6, <2>2, ThreadType
  <2> QED
    BY <1>1, <2>1, <2>2
<1> QED
  BY <1>1, <1>2, <1>4, <1>5, <1>7 DEF LifetimeInv, BorrowInv, FixupNeverLast, CrashOnlyInFini

(* What is gone is not borrowed, so the code is not that of a call. *)
LEMMA CrashKeeps ==
  ASSUME LifetimeInv, NEW r \in calls \cup {<<o, 0>> : o \in is_init}, Crash(r)
  PROVE  LifetimeInv'
<1>1. /\ crashed' = {r} /\ \E h \in lent[r[1]] : Gone(h[1])
      /\ UNCHANGED <<elf, made, live, bare, weak, scope, lent, calls, fixup, exec,
                     is_init, life, dropper, finis>>
  BY DEF Crash
<1>2. TypeOK'
  BY <1>1, ThreadType DEF LifetimeInv, TypeOK
<1>3. \A u \in Objs : Held(u)' <=> Held(u)
  BY <1>1, HeldAsBefore, SameSets
<1>4. FiniMatchesInit'
  BY <1>1, <1>3, NothingEnds DEF LifetimeInv
<1>5. BorrowInv'
  BY <1>1, BorrowsUnchanged DEF LifetimeInv, BorrowInv, Stages, Gone
<1>6. r \notin calls
  <2> SUFFICES ASSUME r \in calls PROVE FALSE
    OBVIOUS
  <2>1. PICK h \in lent[r[1]] : Gone(h[1])
    BY <1>1
  <2>2. life[h[1]] = "live"
    BY BorrowedAlive
  <2> QED
    BY <2>1, <2>2 DEF Gone
<1>7. CrashOnlyInFini'
  BY <1>1, <1>6, ThreadType DEF CrashOnlyInFini
<1> QED
  BY <1>1, <1>2, <1>4, <1>5, <1>7 DEF LifetimeInv, FixupNeverLast

LEMMA FiniKeeps ==
  ASSUME LifetimeInv, NEW o \in Objs, Fini(o) \/ Munmap(o)
  PROVE  LifetimeInv'
<1>1. UNCHANGED <<elf, made, live, bare, weak, scope, lent, calls, fixup, exec,
                  is_init, dropper, crashed>>
  BY DEF Fini, Munmap
<1>2. TypeOK'
  BY <1>1 DEF LifetimeInv, TypeOK, Fini, Munmap
<1>3. \A u \in Objs : Held(u)' <=> Held(u)
  BY <1>1, HeldAsBefore, SameSets
<1>4. \A u \in Objs : /\ life'[u] = "absent" <=> life[u] = "absent"
                      /\ Gone(u)' <=> Gone(u)
  BY DEF LifetimeInv, TypeOK, Fini, Munmap, Gone
<1>5. BorrowInv'
  BY <1>1, <1>4, BorrowsUnchanged DEF LifetimeInv, BorrowInv, Stages
<1>6. FiniMatchesInit'
  <2> SUFFICES ASSUME NEW u \in Objs
               PROVE  /\ life'[u] = "live" <=> Held(u)
                      /\ finis'[u] = IF u \in is_init /\ life'[u] \in {"finished", "freed"}
                                    THEN 1 ELSE 0
    BY <1>1, <1>3 DEF FiniMatchesInit
  <2>1. CASE u # o
    BY <2>1 DEF LifetimeInv, TypeOK, FiniMatchesInit, Fini, Munmap
  <2>2. CASE u = o /\ Fini(o)
    BY <2>2 DEF LifetimeInv, TypeOK, FiniMatchesInit, Fini
  <2>3. CASE u = o /\ Munmap(o)
    BY <2>3 DEF LifetimeInv, TypeOK, FiniMatchesInit, Munmap
  <2> QED
    BY <2>1, <2>2, <2>3
<1> QED
  BY <1>1, <1>2, <1>5, <1>6 DEF LifetimeInv, FixupNeverLast, CrashOnlyInFini

LEMMA StutterKeeps ==
  ASSUME LifetimeInv, UNCHANGED vars
  PROVE  LifetimeInv'
<1>1. UNCHANGED <<elf, made, live, bare, weak, scope, lent, calls, fixup,
                  exec, is_init, life, dropper, finis, crashed>>
  BY DEF vars
<1>2. TypeOK'
  BY <1>1 DEF LifetimeInv, TypeOK
<1>3. \A u \in Objs : Held(u)' <=> Held(u)
  BY <1>1, HeldAsBefore, SameSets
<1>4. BorrowInv'
  BY <1>1, BorrowsUnchanged DEF LifetimeInv, BorrowInv, Stages, Gone
<1>5. FiniMatchesInit'
  BY <1>1, <1>3, NothingEnds DEF LifetimeInv
<1> QED
  BY <1>1, <1>2, <1>4, <1>5 DEF LifetimeInv, FixupNeverLast, CrashOnlyInFini

LEMMA NextKeeps == LifetimeInv /\ [Next]_vars => LifetimeInv'
<1> SUFFICES ASSUME LifetimeInv, [Next]_vars PROVE LifetimeInv'
  OBVIOUS
<1>1. ASSUME NEW o \in Objs, Handles(o) PROVE LifetimeInv'
  <2>1. ASSUME NEW S \in SUBSET live, Relocate(o, S) \/ RelocateNothing(o, S) PROVE LifetimeInv'
    BY <2>1, RelocateKeeps
  <2> QED
    BY <1>1, <2>1, LoadKeeps, NewUncheckKeeps, DropElfKeeps, CloneRelocatedKeeps,
       CoreTakenKeeps, DropCoreKeeps, DowngradeKeeps DEF Handles
<1>2. ASSUME NEW o \in Objs, Fini(o) \/ Munmap(o) PROVE LifetimeInv'
  BY <1>2, FiniKeeps
<1>3. ASSUME NEW h \in live, DropRelocated(h) \/ Call(h) \/ Return(h) PROVE LifetimeInv'
  BY <1>3, DropRelocatedKeeps, CallKeeps
<1>4. ASSUME NEW r \in calls \cup {<<o, 0>> : o \in is_init}, Code(r) PROVE LifetimeInv'
  <2>1. ASSUME NEW d \in Objs, FixupUpgrade(r, d) \/ FixupDone(r, d) PROVE LifetimeInv'
    BY <2>1, FixupUpgradeKeeps, FixupDoneKeeps
  <2>2. CASE Crash(r)
    BY <2>2, CrashKeeps
  <2> QED
    BY <1>4, <2>1, <2>2 DEF Code
<1>5. CASE UNCHANGED vars
  BY <1>5, StutterKeeps
<1> QED
  BY <1>1, <1>2, <1>3, <1>4, <1>5 DEF Next

(* The inductive invariant holds in every reachable state: the borrows of  *)
(* 'lib, as the signature of relocate chains them, follow the scopes, and  *)
(* every call under way keeps all of its own.                              *)
THEOREM LifetimeInvariant == Spec => []LifetimeInv
BY InitLifetime, NextKeeps, PTL DEF Spec

-----------------------------------------------------------------------------
(* Type correctness of the handle bookkeeping. *)
THEOREM LifetimeTypeCorrect == Spec => []TypeOK
BY LifetimeInvariant, PTL DEF LifetimeInv

(* Until a call returns, the object it is in and every library it can get  *)
(* into are alive, whatever handles other threads drop.                    *)
THEOREM CallsKeepLibraries == Spec => []CallsFindLibraries
<1>1. LifetimeInv => CallsFindLibraries
  <2> SUFFICES ASSUME LifetimeInv, NEW c \in calls
               PROVE  \E K \in SUBSET Objs :
                        /\ c[1] \in K
                        /\ \A x \in K : Libs(x) \subseteq K /\ life[x] = "live"
    BY DEF CallsFindLibraries
  <2>1. c[1] \in Objs /\ c \in live /\ lent[c[1]] \subseteq Handle
    BY DEF LifetimeInv, TypeOK, Handle, BorrowInv, CallsBorrow
  <2> DEFINE K == Reach(c[1])
  <2>2. K \in SUBSET Objs /\ c[1] \in K
    BY <2>1 DEF Reach, Handle
  <2>3. life[c[1]] = "live"
    BY <2>1 DEF LifetimeInv, FiniMatchesInit, Held, HandlesOf
  <2>4. ASSUME NEW x \in K PROVE scope[x] \subseteq lent[c[1]] /\ life[x] = "live"
    <3>1. CASE x = c[1]
      BY <2>1, <2>3, <3>1 DEF LifetimeInv, BorrowInv, LoansClosed
    <3>2. ASSUME NEW h \in lent[c[1]], x = h[1] PROVE scope[x] \subseteq lent[c[1]] /\ life[x] = "live"
      <4>1. x \in Objs /\ life[x] = "live"
        BY <3>2, BorrowedAlive
      <4>2. scope[x] \subseteq lent[x] /\ lent[x] \subseteq lent[c[1]]
        BY <2>1, <3>2, <4>1 DEF LifetimeInv, BorrowInv, LoansClosed
      <4> QED
        BY <4>1, <4>2
    <3> QED
      BY <2>4, <3>1, <3>2 DEF Reach
  <2>5. ASSUME NEW x \in K PROVE Libs(x) \subseteq K
    BY <2>4 DEF Libs, Reach
  <2> QED
    BY <2>2, <2>4, <2>5
<1> QED
  BY <1>1, LifetimeInvariant, PTL

(* No call ever meets a library that is gone: only finalisers do. *)
THEOREM CallsNeverCrash == Spec => []CrashOnlyInFini
BY LifetimeInvariant, PTL DEF LifetimeInv

(* A lookup by dl_fixup in a call is never the last to let go of a library. *)
THEOREM LookupsNeverFinalise == Spec => []FixupNeverLast
BY LifetimeInvariant, PTL DEF LifetimeInv

(* Finalisers run exactly once if initialisers did, and only when nothing  *)
(* holds the object any more.                                              *)
THEOREM FinalisedOnce == Spec => []FiniMatchesInit
BY LifetimeInvariant, PTL DEF LifetimeInv

(* An object whose drop has begun is never held again. *)
THEOREM NeverRevived == Spec => NoRevival
<1>1. LifetimeInv /\ LifetimeInv' /\ [Next]_vars =>
        [\A o \in Objs : Gone(o) => ~Held(o)']_vars
  <2> SUFFICES ASSUME LifetimeInv, LifetimeInv', [Next]_vars, NEW o \in Objs, Gone(o)
               PROVE  ~Held(o)'
    OBVIOUS
  <2>1. life'[o] # "live"
    <3>1. elf[o] # "none" /\ ~Held(o) /\ life[o] # "live"
      BY DEF LifetimeInv, BorrowInv, Stages, FiniMatchesInit, Gone
    <3>2. ASSUME NEW u, NEW kind, Release(u, kind) PROVE life'[o] # "live"
      BY <3>1, <3>2 DEF LifetimeInv, TypeOK, Release
    <3>3. CASE UNCHANGED life
      BY <3>1, <3>3
    <3>4. ASSUME NEW u \in Objs, Handles(u) PROVE life'[o] # "live"
      <4>1. CASE Load(u) \/ NewUncheck(u)
        BY <3>1, <4>1 DEF LifetimeInv, TypeOK, Load, NewUncheck
      <4>2. CASE DropElf(u) \/ DropCore(u)
        BY <3>2, <4>2 DEF DropElf, DropCore
      <4> QED
        BY <3>3, <3>4, <4>1, <4>2 DEF Handles, Relocate, RelocateNothing, CloneRelocated,
           CoreComponent, Downgrade, Upgrade
    <3>5. ASSUME NEW u \in Objs, Fini(u) \/ Munmap(u) PROVE life'[o] # "live"
      BY <3>1, <3>5 DEF LifetimeInv, TypeOK, Fini, Munmap
    <3>6. ASSUME NEW h \in live, DropRelocated(h) \/ Call(h) \/ Return(h) PROVE life'[o] # "live"
      BY <3>2, <3>3, <3>6 DEF DropRelocated, Call, Return
    <3>7. ASSUME NEW r, Code(r) PROVE life'[o] # "live"
      BY <3>2, <3>3, <3>7 DEF Code, Crash, FixupUpgrade, FixupDone
    <3>8. CASE UNCHANGED vars
      BY <3>3, <3>8 DEF vars
    <3> QED
      BY <3>4, <3>5, <3>6, <3>7, <3>8 DEF Next
  <2> QED
    BY <2>1 DEF LifetimeInv, FiniMatchesInit
<1> QED
  BY <1>1, LifetimeInvariant, PTL DEF Spec, NoRevival

-----------------------------------------------------------------------------
(***************************************************************************)
(* The handles implement ObjectLife.  The count of the Arc is the sum of   *)
(* four parts; each operation changes one of them, for one object, by one. *)
(***************************************************************************)
ElfCount(o) == IF elf[o] = "held" THEN 1 ELSE 0
Refs == [o \in Objs |-> Strong(o)]

(* Handles and lookups are finitely many: the count is a number. *)
LifeInv == LifetimeInv /\ IsFiniteSet(live) /\ IsFiniteSet(fixup)

LEMMA StrongIsSum ==
  ASSUME NEW o \in Objs
  PROVE  /\ Strong(o) = ElfCount(o) + bare[o] + Cardinality(HandlesOf(o)) + Cardinality(Lookups(o))
         /\ Strong(o)' = ElfCount(o)' + bare'[o] + Cardinality(HandlesOf(o)')
                           + Cardinality(Lookups(o)')
BY DEF Strong, ElfCount

LEMMA CountTypes ==
  ASSUME LifeInv, NEW o \in Objs
  PROVE  /\ ElfCount(o) \in {0, 1} /\ bare[o] \in Nat
         /\ IsFiniteSet(HandlesOf(o)) /\ IsFiniteSet(Lookups(o))
         /\ Cardinality(HandlesOf(o)) \in Nat /\ Cardinality(Lookups(o)) \in Nat
         /\ Cardinality(HandlesOf(o)) = 0 <=> HandlesOf(o) = {}
         /\ Cardinality(Lookups(o)) = 0 <=> Lookups(o) = {}
<1>1. HandlesOf(o) \subseteq live /\ Lookups(o) \subseteq fixup
  BY DEF HandlesOf, Lookups
<1>2. IsFiniteSet(HandlesOf(o)) /\ IsFiniteSet(Lookups(o))
  BY <1>1, FS_Subset DEF LifeInv
<1> QED
  BY <1>2, FS_CardinalityType, FS_EmptySet DEF LifeInv, LifetimeInv, TypeOK, ElfCount

(* The strong count is a natural number, positive while the object lives. *)
LEMMA CountPositive ==
  ASSUME LifeInv, NEW o \in Objs
  PROVE  Strong(o) \in Nat /\ (Strong(o) > 0 <=> life[o] = "live")
<1>1. life[o] = "live" <=> Held(o)
  BY DEF LifeInv, LifetimeInv, FiniMatchesInit
<1>2. Held(o) <=> \/ ElfCount(o) = 1 \/ bare[o] > 0 \/ HandlesOf(o) # {} \/ Lookups(o) # {}
  BY DEF Held, ElfCount
<1> DEFINE e == ElfCount(o)
           b == bare[o]
           h == Cardinality(HandlesOf(o))
           u == Cardinality(Lookups(o))
<1>3. /\ e \in {0, 1} /\ b \in Nat /\ h \in Nat /\ u \in Nat
      /\ (h = 0 <=> HandlesOf(o) = {}) /\ (u = 0 <=> Lookups(o) = {})
  BY CountTypes
<1>4. Strong(o) = e + b + h + u
  BY StrongIsSum
<1>5. Held(o) <=> e = 1 \/ b > 0 \/ h # 0 \/ u # 0
  BY <1>2, <1>3
<1> HIDE DEF e, b, h, u
<1> QED
  BY <1>1, <1>3, <1>4, <1>5

(* How the count of one object changes, and no other's. *)
LEMMA OnlyOne ==
  ASSUME NEW o \in Objs,
         \A u \in Objs \ {o} : /\ elf'[u] = elf[u] /\ bare'[u] = bare[u]
                               /\ HandlesOf(u)' = HandlesOf(u) /\ Lookups(u)' = Lookups(u)
  PROVE  \A u \in Objs : u # o => Strong(u)' = Strong(u)
BY DEF Strong

LEMMA InitLife == Init => LifeInv
BY InitLifetime, FS_EmptySet DEF LifeInv, Init

LEMMA NextKeepsLife == LifeInv /\ [Next]_vars => LifeInv'
<1> SUFFICES ASSUME LifeInv, [Next]_vars PROVE IsFiniteSet(live') /\ IsFiniteSet(fixup')
  BY NextKeeps DEF LifeInv
<1>1. IsFiniteSet(live')
  <2>1. CASE live' = live
    BY <2>1 DEF LifeInv
  <2>2. ASSUME NEW h, live' = live \cup {h} PROVE IsFiniteSet(live')
    BY <2>2, FS_AddElement DEF LifeInv
  <2>3. ASSUME NEW h, live' = live \ {h} PROVE IsFiniteSet(live')
    BY <2>3, FS_RemoveElement DEF LifeInv
  <2>4. ASSUME NEW o \in Objs, Handles(o) PROVE IsFiniteSet(live')
    BY <2>1, <2>2, <2>4 DEF Handles, Load, NewUncheck, DropElf, CloneRelocated, CoreComponent,
       DropCore, Downgrade, Upgrade, Relocate, RelocateNothing
  <2>5. ASSUME NEW h \in live, DropRelocated(h) \/ Call(h) \/ Return(h) PROVE IsFiniteSet(live')
    BY <2>1, <2>3, <2>5 DEF DropRelocated, Call, Return
  <2>6. ASSUME NEW r, Code(r) PROVE IsFiniteSet(live')
    BY <2>1, <2>6 DEF Code, Crash, FixupUpgrade, FixupDone
  <2> QED
    BY <2>1, <2>4, <2>5, <2>6 DEF Next, Fini, Munmap, vars
<1>2. IsFiniteSet(fixup')
  <2>1. CASE fixup' = fixup
    BY <2>1 DEF LifeInv
  <2>2. ASSUME NEW p, fixup' = fixup \cup {p} PROVE IsFiniteSet(fixup')
    BY <2>2, FS_AddElement DEF LifeInv
  <2>3. ASSUME NEW p, fixup' = fixup \ {p} PROVE IsFiniteSet(fixup')
    BY <2>3, FS_RemoveElement DEF LifeInv
  <2>4. ASSUME NEW o \in Objs, Handles(o) PROVE IsFiniteSet(fixup')
    BY <2>1, <2>4 DEF Handles, Load, NewUncheck, DropElf, CloneRelocated, CoreComponent,
       DropCore, Downgrade, Upgrade, Relocate, RelocateNothing
  <2>5. ASSUME NEW h \in live, DropRelocated(h) \/ Call(h) \/ Return(h) PROVE IsFiniteSet(fixup')
    BY <2>1, <2>5 DEF DropRelocated, Call, Return
  <2>6. ASSUME NEW r, Code(r) PROVE IsFiniteSet(fixup')
    BY <2>1, <2>2, <2>3, <2>6 DEF Code, Crash, FixupUpgrade, FixupDone
  <2> QED
    BY <2>1, <2>4, <2>5, <2>6 DEF Next, Fini, Munmap, vars
<1> QED
  BY <1>1, <1>2

(* One object's count changes, those of the others do not. *)
LEMMA OneCount ==
  ASSUME NEW o \in Objs, NEW n, Strong(o)' = n,
         \A p \in Objs : p # o => Strong(p)' = Strong(p)
  PROVE  Refs' = [Refs EXCEPT ![o] = n]
BY DEF Refs

(* The abstract variables, under names of their own. *)
Ended  == {o \in Objs : life[o] \in {"finished", "freed"}}
Called == {o \in Objs : finis[o] > 0}
Mapped == {o \in Objs : life[o] \in {"live", "dropping", "finished"}}

LEMMA LoadRefines ==
  ASSUME LifeInv, NEW o \in Objs, Load(o) \/ NewUncheck(o)
  PROVE  Life!New(o)
<1>1. /\ elf[o] = "none" /\ life' = [life EXCEPT ![o] = "live"]
      /\ \A p \in Objs \ {o} : elf'[p] = elf[p] /\ HandlesOf(p)' = HandlesOf(p)
      /\ UNCHANGED <<bare, is_init, fixup, finis>>
  BY HandleAdded, SameSets DEF Load, NewUncheck, LifeInv, LifetimeInv, TypeOK
<1>2. life[o] = "absent" /\ life \in [Objs -> {"absent", "live", "dropping", "finished", "freed"}]
  BY <1>1 DEF LifeInv, LifetimeInv, BorrowInv, Stages, TypeOK
<1>3. o \notin Mapped /\ o \notin Ended
  BY <1>2 DEF Mapped, Ended
<1>4. Mapped' = Mapped \cup {o} /\ Ended' = Ended
  BY <1>1, <1>2 DEF Mapped, Ended
<1>5. Called' = Called
  BY <1>1 DEF Called
<1>6. Strong(o)' = 1
  <2>1. ~Held(o)
    BY <1>2 DEF LifeInv, LifetimeInv, FiniMatchesInit
  <2>2. bare'[o] = 0 /\ HandlesOf(o) = {} /\ Lookups(o)' = {} /\ ElfCount(o) = 0
    BY <1>1, <2>1, SameSets, CountTypes DEF Held, ElfCount
  <2>3. Cardinality(Lookups(o)') = 0
    BY <2>2, FS_EmptySet
  <2>4. CASE Load(o)
    <3>1. ElfCount(o)' = 1 /\ HandlesOf(o)' = {}
      BY <2>2, <2>4, SameSets DEF Load, ElfCount, LifeInv, LifetimeInv, TypeOK
    <3> QED
      BY <2>2, <2>3, <3>1, FS_EmptySet, StrongIsSum
  <2>5. CASE NewUncheck(o)
    <3>1. ElfCount(o)' = 0 /\ HandlesOf(o)' = {<<o, 1>>}
      BY <2>2, <2>5, HandleAdded DEF NewUncheck, ElfCount, LifeInv, LifetimeInv, TypeOK
    <3>2. Cardinality(HandlesOf(o)') = 1
      BY <3>1, FS_Singleton
    <3> QED
      BY <2>2, <2>3, <3>1, <3>2, StrongIsSum
  <2> QED
    BY <2>4, <2>5
<1>7. \A p \in Objs : p # o => Strong(p)' = Strong(p)
  BY <1>1, OnlyOne, SameSets
<1>8. Refs' = [Refs EXCEPT ![o] = 1]
  BY <1>6, <1>7, OneCount
<1> QED
  BY <1>1, <1>3, <1>4, <1>5, <1>8 DEF Life!New, Refs, Mapped, Ended, Called

LEMMA AcquireRefines ==
  ASSUME LifeInv, NEW o \in Objs, life[o] = "live", UNCHANGED <<life, is_init, finis>>,
         Strong(o)' = Strong(o) + 1, \A p \in Objs : p # o => Strong(p)' = Strong(p)
  PROVE  Life!Acquire(o)
<1>1. Refs' = [Refs EXCEPT ![o] = Strong(o) + 1] /\ Refs[o] = Strong(o)
  BY OneCount DEF Refs
<1>2. Refs[o] > 0 /\ Refs' = [Refs EXCEPT ![o] = @ + 1]
  BY <1>1, CountPositive
<1>3. Mapped' = Mapped /\ Ended' = Ended /\ Called' = Called
  BY DEF Mapped, Ended, Called
<1> QED
  BY <1>2, <1>3 DEF Life!Acquire, Refs, Mapped, Ended, Called

LEMMA ReleaseRefines ==
  ASSUME LifeInv, NEW o \in Objs, NEW kind, Release(o, kind), life[o] = "live",
         Strong(o)' = Strong(o) - 1, \A p \in Objs : p # o => Strong(p)' = Strong(p)
  PROVE  Life!Release(o)
<1>1. Refs' = [Refs EXCEPT ![o] = Strong(o) - 1] /\ Refs[o] = Strong(o)
  BY OneCount DEF Refs
<1>2. Refs[o] > 0 /\ Refs' = [Refs EXCEPT ![o] = @ - 1]
  BY <1>1, CountPositive
<1>3. /\ life \in [Objs -> {"absent", "live", "dropping", "finished", "freed"}]
      /\ life'[o] \in {"live", "dropping"} /\ \A p \in Objs : p # o => life'[p] = life[p]
      /\ UNCHANGED <<is_init, finis>>
  BY DEF Release, LifeInv, LifetimeInv, TypeOK
<1>4. Mapped' = Mapped /\ Ended' = Ended /\ Called' = Called
  BY <1>3 DEF Mapped, Ended, Called
<1> QED
  BY <1>2, <1>3, <1>4 DEF Life!Release, Refs, Mapped, Ended, Called

(* The handles that count the object once more. *)
LEMMA CloneRefines ==
  ASSUME LifeInv, NEW o \in Objs, CloneRelocated(o)
  PROVE  Life!Acquire(o)
<1>1. /\ HandlesOf(o) # {} /\ live' = live \cup {<<o, made[o] + 1>>}
      /\ UNCHANGED <<elf, bare, fixup, life, is_init, finis>>
  BY DEF CloneRelocated
<1>2. life[o] = "live"
  BY <1>1 DEF LifeInv, LifetimeInv, FiniMatchesInit, Held
<1>3. <<o, made[o] + 1>> \notin HandlesOf(o)
  <2>1. made[o] \in Nat /\ \A h \in live : h[2] <= made[h[1]]
    BY DEF LifeInv, LifetimeInv, TypeOK, BorrowInv, HandlesNumbered
  <2> QED
    BY <2>1 DEF HandlesOf
<1>4. HandlesOf(o)' = HandlesOf(o) \cup {<<o, made[o] + 1>>}
  BY <1>1, HandleAdded
<1>5. Cardinality(HandlesOf(o)') = Cardinality(HandlesOf(o)) + 1
  BY <1>3, <1>4, CountTypes, FS_AddElement
<1>6. Strong(o)' = Strong(o) + 1
  <2>1. ElfCount(o)' = ElfCount(o) /\ bare'[o] = bare[o] /\ Lookups(o)' = Lookups(o)
    BY <1>1, SameSets DEF ElfCount
  <2>2. Strong(o)' = ElfCount(o) + bare[o] + Cardinality(HandlesOf(o)') + Cardinality(Lookups(o))
    BY <2>1, StrongIsSum
  <2> QED
    BY <1>5, <2>2, CountTypes, StrongIsSum
<1>7. \A p \in Objs : p # o => Strong(p)' = Strong(p)
  BY <1>1, OnlyOne, HandleAdded, SameSets
<1> QED
  BY <1>1, <1>2, <1>6, <1>7, AcquireRefines

LEMMA CoreTakenRefines ==
  ASSUME LifeInv, NEW o \in Objs, CoreComponent(o) \/ Upgrade(o)
  PROVE  Life!Acquire(o)
<1>1. /\ Held(o) /\ bare' = [bare EXCEPT ![o] = @ + 1]
      /\ UNCHANGED <<elf, live, fixup, life, is_init, finis>>
  BY DEF CoreComponent, Upgrade, AtHand, Held
<1>2. life[o] = "live"
  BY <1>1 DEF LifeInv, LifetimeInv, FiniMatchesInit
<1>3. /\ bare[o] \in Nat /\ bare'[o] = bare[o] + 1
      /\ \A p \in Objs \ {o} : bare'[p] = bare[p]
  BY <1>1 DEF LifeInv, LifetimeInv, TypeOK
<1>4. Strong(o)' = Strong(o) + 1
  <2>1. ElfCount(o)' = ElfCount(o) /\ HandlesOf(o)' = HandlesOf(o) /\ Lookups(o)' = Lookups(o)
    BY <1>1, SameSets DEF ElfCount
  <2>2. Strong(o)' = ElfCount(o) + bare'[o] + Cardinality(HandlesOf(o)) + Cardinality(Lookups(o))
    BY <2>1, StrongIsSum
  <2> QED
    BY <1>3, <2>2, CountTypes, StrongIsSum
<1>5. \A p \in Objs : p # o => Strong(p)' = Strong(p)
  BY <1>1, <1>3, OnlyOne, SameSets
<1> QED
  BY <1>1, <1>2, <1>4, <1>5, AcquireRefines

LEMMA FixupUpgradeRefines ==
  ASSUME LifeInv, NEW r, NEW d \in Objs, FixupUpgrade(r, d)
  PROVE  Life!Acquire(d)
<1>1. /\ \A p \in fixup : p[1] # r
      /\ Held(d) /\ fixup' = fixup \cup {<<r, d>>}
      /\ UNCHANGED <<elf, live, bare, life, is_init, finis>>
  BY DEF FixupUpgrade, Executing
<1>2. life[d] = "live"
  BY <1>1 DEF LifeInv, LifetimeInv, FiniMatchesInit
<1>3. <<r, d>> \notin Lookups(d) /\ Lookups(d)' = Lookups(d) \cup {<<r, d>>}
  <2>1. <<r, d>> \notin fixup
    BY <1>1
  <2> QED
    BY <1>1, <2>1, LookupAdded DEF Lookups
<1>4. Cardinality(Lookups(d)') = Cardinality(Lookups(d)) + 1
  BY <1>3, CountTypes, FS_AddElement
<1>5. Strong(d)' = Strong(d) + 1
  <2>1. ElfCount(d)' = ElfCount(d) /\ bare'[d] = bare[d] /\ HandlesOf(d)' = HandlesOf(d)
    BY <1>1, SameSets DEF ElfCount
  <2>2. Strong(d)' = ElfCount(d) + bare[d] + Cardinality(HandlesOf(d)) + Cardinality(Lookups(d)')
    BY <2>1, StrongIsSum
  <2> QED
    BY <1>4, <2>2, CountTypes, StrongIsSum
<1>6. \A p \in Objs : p # d => Strong(p)' = Strong(p)
  BY <1>1, OnlyOne, LookupAdded, SameSets
<1> QED
  BY <1>1, <1>2, <1>5, <1>6, AcquireRefines

(* The drops. *)
LEMMA DropElfRefines ==
  ASSUME LifeInv, NEW o \in Objs, DropElf(o)
  PROVE  Life!Release(o)
<1>1. /\ Release(o, "elf") /\ Held(o) /\ elf[o] = "held" /\ elf' = [elf EXCEPT ![o] = "spent"]
      /\ UNCHANGED <<live, bare, fixup>>
  BY DEF DropElf, Held
<1>2. life[o] = "live"
  BY <1>1 DEF LifeInv, LifetimeInv, FiniMatchesInit
<1>3. ElfCount(o) = 1 /\ ElfCount(o)' = 0 /\ \A p \in Objs \ {o} : elf'[p] = elf[p]
  BY <1>1 DEF ElfCount, LifeInv, LifetimeInv, TypeOK
<1>4. Strong(o)' = Strong(o) - 1
  <2>1. bare'[o] = bare[o] /\ HandlesOf(o)' = HandlesOf(o) /\ Lookups(o)' = Lookups(o)
    BY <1>1, SameSets
  <2> QED
    BY <1>3, <2>1, CountTypes, StrongIsSum
<1>5. \A p \in Objs : p # o => Strong(p)' = Strong(p)
  BY <1>1, <1>3, OnlyOne, SameSets
<1> QED
  BY <1>1, <1>2, <1>4, <1>5, ReleaseRefines

LEMMA DropCoreRefines ==
  ASSUME LifeInv, NEW o \in Objs, DropCore(o)
  PROVE  Life!Release(o)
<1>1. /\ Release(o, "bare") /\ Held(o) /\ bare' = [bare EXCEPT ![o] = @ - 1]
      /\ UNCHANGED <<live, elf, fixup>>
  BY DEF DropCore, Held
<1>2. life[o] = "live"
  BY <1>1 DEF LifeInv, LifetimeInv, FiniMatchesInit
<1>3. /\ bare[o] \in Nat /\ bare'[o] = bare[o] - 1
      /\ \A p \in Objs \ {o} : bare'[p] = bare[p]
  BY <1>1 DEF LifeInv, LifetimeInv, TypeOK
<1>4. Strong(o)' = Strong(o) - 1
  <2>1. ElfCount(o)' = ElfCount(o) /\ HandlesOf(o)' = HandlesOf(o) /\ Lookups(o)' = Lookups(o)
    BY <1>1, SameSets DEF ElfCount
  <2>2. Strong(o)' = ElfCount(o) + bare'[o] + Cardinality(HandlesOf(o)) + Cardinality(Lookups(o))
    BY <2>1, StrongIsSum
  <2> QED
    BY <1>3, <2>2, CountTypes, StrongIsSum
<1>5. \A p \in Objs : p # o => Strong(p)' = Strong(p)
  BY <1>1, <1>3, OnlyOne, SameSets
<1> QED
  BY <1>1, <1>2, <1>4, <1>5, ReleaseRefines

LEMMA DropRelocatedRefines ==
  ASSUME LifeInv, NEW h \in live, DropRelocated(h)
  PROVE  h[1] \in Objs /\ Life!Release(h[1])
<1> DEFINE o == h[1]
<1>1. /\ o \in Objs /\ Release(o, "relocated") /\ live' = live \ {h}
      /\ UNCHANGED <<elf, bare, fixup>>
  BY DEF DropRelocated, LifeInv, LifetimeInv, TypeOK, Handle
<1>2. /\ HandlesOf(o)' = HandlesOf(o) \ {h} /\ h \in HandlesOf(o)
      /\ \A p \in Objs \ {o} : HandlesOf(p)' = HandlesOf(p)
  BY <1>1, HandleRemoved
<1> HIDE DEF o
<1>3. life[o] = "live"
  BY <1>1, <1>2 DEF LifeInv, LifetimeInv, FiniMatchesInit, Held
<1>4. Cardinality(HandlesOf(o)') = Cardinality(HandlesOf(o)) - 1
  BY <1>1, <1>2, CountTypes, FS_RemoveElement
<1>5. Strong(o)' = Strong(o) - 1
  <2>1. ElfCount(o)' = ElfCount(o) /\ bare'[o] = bare[o] /\ Lookups(o)' = Lookups(o)
    BY <1>1, SameSets DEF ElfCount
  <2>2. Strong(o)' = ElfCount(o) + bare[o] + Cardinality(HandlesOf(o)') + Cardinality(Lookups(o))
    BY <1>1, <2>1, StrongIsSum
  <2> QED
    BY <1>1, <1>4, <2>2, CountTypes, StrongIsSum
<1>6. \A p \in Objs : p # o => Strong(p)' = Strong(p)
  BY <1>1, <1>2, OnlyOne, SameSets
<1>7. Life!Release(o)
  BY <1>1, <1>3, <1>5, <1>6, ReleaseRefines
<1> QED
  BY <1>1, <1>7 DEF o

LEMMA FixupDoneRefines ==
  ASSUME LifeInv, NEW r, NEW d \in Objs, FixupDone(r, d)
  PROVE  Life!Release(d)
<1>1. /\ <<r, d>> \in fixup /\ fixup' = fixup \ {<<r, d>>} /\ UNCHANGED <<elf, live, bare>>
      /\ Release(d, IF r[2] = 0 THEN "fini" ELSE "call")
  BY DEF FixupDone
<1>2. /\ Lookups(d)' = Lookups(d) \ {<<r, d>>} /\ <<r, d>> \in Lookups(d)
      /\ \A p \in Objs \ {d} : Lookups(p)' = Lookups(p)
  BY <1>1, LookupRemoved
<1>3. life[d] = "live"
  BY <1>2 DEF LifeInv, LifetimeInv, FiniMatchesInit, Held
<1>4. Cardinality(Lookups(d)') = Cardinality(Lookups(d)) - 1
  BY <1>2, CountTypes, FS_RemoveElement
<1>5. Strong(d)' = Strong(d) - 1
  <2>1. ElfCount(d)' = ElfCount(d) /\ bare'[d] = bare[d] /\ HandlesOf(d)' = HandlesOf(d)
    BY <1>1, SameSets DEF ElfCount
  <2>2. Strong(d)' = ElfCount(d) + bare[d] + Cardinality(HandlesOf(d)) + Cardinality(Lookups(d)')
    BY <2>1, StrongIsSum
  <2> QED
    BY <1>4, <2>2, CountTypes, StrongIsSum
<1>6. \A p \in Objs : p # d => Strong(p)' = Strong(p)
  BY <1>1, <1>2, OnlyOne, SameSets
<1> QED
  BY <1>1, <1>3, <1>5, <1>6, ReleaseRefines

(* Where no count changes. *)
LEMMA CountsUnchanged ==
  ASSUME UNCHANGED <<elf, live, bare, fixup>>
  PROVE  Refs' = Refs
<1>1. ASSUME NEW p \in Objs PROVE Strong(p)' = Strong(p)
  BY SameSets DEF Strong
<1> QED
  BY <1>1 DEF Refs

(* relocate exchanges the elf handle for a relocated one. *)
LEMMA RelocateRefines ==
  ASSUME LifeInv, NEW o \in Objs, NEW S, Relocate(o, S) \/ RelocateNothing(o, S)
  PROVE  Life!Initialise(o) \/ UNCHANGED Life!vars
<1>1. /\ elf[o] = "held" /\ elf' = [elf EXCEPT ![o] = "spent"] /\ live' = live \cup {<<o, 1>>}
      /\ UNCHANGED <<bare, fixup, life, finis>>
      /\ is_init' = is_init \/ is_init' = is_init \cup {o}
  BY DEF Relocate, RelocateNothing
<1>2. /\ ElfCount(o) = 1 /\ ElfCount(o)' = 0 /\ \A p \in Objs \ {o} : elf'[p] = elf[p]
  BY <1>1 DEF ElfCount, LifeInv, LifetimeInv, TypeOK
<1>3. HandlesOf(o) = {} /\ HandlesOf(o)' = {<<o, 1>>}
  <2>1. HandlesOf(o) = {}
    BY <1>1 DEF HandlesOf, LifeInv, LifetimeInv, BorrowInv, HandlesNumbered
  <2> QED
    BY <1>1, <2>1, HandleAdded
<1>4. Cardinality(HandlesOf(o)) = 0 /\ Cardinality(HandlesOf(o)') = 1
  BY <1>3, FS_EmptySet, FS_Singleton
<1>5. Strong(o)' = Strong(o)
  <2>1. bare'[o] = bare[o] /\ Lookups(o)' = Lookups(o)
    BY <1>1, SameSets
  <2> QED
    BY <1>2, <1>4, <2>1, CountTypes, StrongIsSum
<1>6. \A p \in Objs : p # o => Strong(p)' = Strong(p)
  BY <1>1, <1>2, OnlyOne, HandleAdded, SameSets
<1>7. Refs' = Refs
  BY <1>5, <1>6 DEF Refs
<1>8. Mapped' = Mapped /\ Ended' = Ended /\ Called' = Called
  BY <1>1 DEF Mapped, Ended, Called
<1>9. o \notin is_init /\ life[o] = "live"
  BY <1>1 DEF LifeInv, LifetimeInv, BorrowInv, Stages, FiniMatchesInit, Held
<1>10. Refs[o] > 0
  BY <1>9, CountPositive DEF Refs
<1>11. CASE is_init' = is_init
  BY <1>7, <1>8, <1>11 DEF Life!vars, Refs, Mapped, Ended, Called
<1>12. CASE is_init' = is_init \cup {o}
  BY <1>7, <1>8, <1>9, <1>10, <1>12 DEF Life!Initialise, Refs, Mapped, Ended, Called
<1> QED
  BY <1>1, <1>11, <1>12

LEMMA FiniRefines ==
  ASSUME LifeInv, NEW o \in Objs, Fini(o)
  PROVE  Life!Finalise(o)
<1>1. /\ life[o] = "dropping" /\ life' = [life EXCEPT ![o] = "finished"]
      /\ finis' = [finis EXCEPT ![o] = @ + IF o \in is_init THEN 1 ELSE 0]
      /\ UNCHANGED <<elf, live, bare, fixup, is_init>>
  BY DEF Fini
<1>2. /\ life \in [Objs -> {"absent", "live", "dropping", "finished", "freed"}]
      /\ finis \in [Objs -> Nat] /\ finis[o] = 0
  BY <1>1 DEF LifeInv, LifetimeInv, TypeOK, FiniMatchesInit
<1>3. Refs[o] = 0
  BY <1>1, CountPositive DEF Refs
<1>4. Refs' = Refs
  BY <1>1, CountsUnchanged
<1>5. o \in Mapped /\ o \notin Ended /\ Mapped' = Mapped /\ Ended' = Ended \cup {o}
  BY <1>1, <1>2 DEF Mapped, Ended
<1>6. Called' = Called \cup ({o} \cap is_init)
  BY <1>1, <1>2 DEF Called
<1> QED
  BY <1>1, <1>3, <1>4, <1>5, <1>6 DEF Life!Finalise, Refs, Mapped, Ended, Called

LEMMA MunmapRefines ==
  ASSUME LifeInv, NEW o \in Objs, Munmap(o)
  PROVE  Life!Unmap(o)
<1>1. /\ life[o] = "finished" /\ life' = [life EXCEPT ![o] = "freed"]
      /\ UNCHANGED <<elf, live, bare, fixup, is_init, finis>>
  BY DEF Munmap
<1>2. life \in [Objs -> {"absent", "live", "dropping", "finished", "freed"}]
  BY DEF LifeInv, LifetimeInv, TypeOK
<1>3. Refs' = Refs
  BY <1>1, CountsUnchanged
<1>4. o \in Ended /\ o \in Mapped /\ Mapped' = Mapped \ {o} /\ Ended' = Ended /\ Called' = Called
  BY <1>1, <1>2 DEF Mapped, Ended, Called
<1> QED
  BY <1>1, <1>3, <1>4 DEF Life!Unmap, Refs, Mapped, Ended, Called

LEMMA SilentRefines ==
  ASSUME UNCHANGED <<elf, live, bare, fixup, life, is_init, finis>>
  PROVE  UNCHANGED Life!vars
<1>1. Refs' = Refs
  BY CountsUnchanged
<1>2. Mapped' = Mapped /\ Ended' = Ended /\ Called' = Called
  BY DEF Mapped, Ended, Called
<1> QED
  BY <1>1, <1>2 DEF Life!vars, Refs, Mapped, Ended, Called

(* The handles of a loaded object, taken together, implement ObjectLife:   *)
(* whichever threads clone, drop, upgrade and look up in which order, an   *)
(* object is taken into use only by who has it in use, and at zero it is   *)
(* finalised once and then unmapped.                                       *)
THEOREM HandlesImplementObjectLife == Spec => ImplementsObjectLife
<1>1. Init => Life!Init
  <2> SUFFICES ASSUME Init PROVE Life!Init
    OBVIOUS
  <2>1. LifeInv /\ \A o \in Objs : life[o] = "absent" /\ finis[o] = 0
    BY InitLife DEF Init
  <2>2. \A o \in Objs : Strong(o) = 0
    BY <2>1, CountPositive
  <2>3. Refs = [o \in Objs |-> 0]
    BY <2>2 DEF Refs
  <2>4. Mapped = {} /\ Ended = {} /\ Called = {} /\ is_init = {}
    BY <2>1 DEF Mapped, Ended, Called, Init
  <2> QED
    BY <2>3, <2>4 DEF Life!Init, Refs, Mapped, Ended, Called
<1>2. LifeInv /\ [Next]_vars => [Life!Next]_Life!vars
  <2> SUFFICES ASSUME LifeInv, [Next]_vars PROVE Life!Next \/ UNCHANGED Life!vars
    OBVIOUS
  <2>1. ASSUME NEW o \in Objs, Handles(o) PROVE Life!Next \/ UNCHANGED Life!vars
    <3>1. CASE Load(o) \/ NewUncheck(o)
      BY <3>1, LoadRefines DEF Life!Next
    <3>2. CASE DropElf(o) \/ DropCore(o)
      BY <3>2, DropElfRefines, DropCoreRefines DEF Life!Next
    <3>3. CASE CloneRelocated(o) \/ CoreComponent(o) \/ Upgrade(o)
      BY <3>3, CloneRefines, CoreTakenRefines DEF Life!Next
    <3>4. CASE Downgrade(o)
      BY <3>4, SilentRefines DEF Downgrade
    <3>5. ASSUME NEW S \in SUBSET live, Relocate(o, S) \/ RelocateNothing(o, S)
          PROVE  Life!Next \/ UNCHANGED Life!vars
      BY <3>5, RelocateRefines DEF Life!Next
    <3> QED
      BY <2>1, <3>1, <3>2, <3>3, <3>4, <3>5 DEF Handles
  <2>2. ASSUME NEW o \in Objs, Fini(o) \/ Munmap(o) PROVE Life!Next
    BY <2>2, FiniRefines, MunmapRefines DEF Life!Next
  <2>3. ASSUME NEW h \in live, DropRelocated(h) \/ Call(h) \/ Return(h)
        PROVE  Life!Next \/ UNCHANGED Life!vars
    <3>1. CASE DropRelocated(h)
      BY <3>1, DropRelocatedRefines DEF Life!Next
    <3>2. CASE Call(h) \/ Return(h)
      BY <3>2, SilentRefines DEF Call, Return
    <3> QED
      BY <2>3, <3>1, <3>2
  <2>4. ASSUME NEW r, Code(r) PROVE Life!Next \/ UNCHANGED Life!vars
    <3>1. CASE Crash(r)
      BY <3>1, SilentRefines DEF Crash
    <3>2. ASSUME NEW d \in Objs, FixupUpgrade(r, d) \/ FixupDone(r, d) PROVE Life!Next
      BY <3>2, FixupUpgradeRefines, FixupDoneRefines DEF Life!Next
    <3> QED
      BY <2>4, <3>1, <3>2 DEF Code
  <2>5. CASE UNCHANGED vars
    BY <2>5, SilentRefines DEF vars
  <2> QED
    BY <2>1, <2>2, <2>3, <2>4, <2>5 DEF Next
<1>3. Spec => []LifeInv
  BY InitLife, NextKeepsLife, PTL DEF Spec
<1> QED
  BY <1>1, <1>2, <1>3, PTL DEF Spec, ImplementsObjectLife, Life!Spec

=============================================================================
