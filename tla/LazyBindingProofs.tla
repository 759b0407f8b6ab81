------------------------- MODULE LazyBindingProofs --------------------------
(***************************************************************************)
(* For any threads, libraries, slots and global scopes: the bindings of    *)
(* dl_fixup are fresh, agree with binding at load time, and implement      *)
(* PltSlots.                                                               *)
(***************************************************************************)
EXTENDS LazyBinding, NaturalsInduction, WellFoundedInduction, TLAPS

(* dl_fixup has loaded a scope and is looking the symbol up, or has it. *)
Looking == {"global", "local", "write"}

(* dl_fixup is under way. *)
Fixing == {"fixup"} \cup Looking

(* The scope a call has loaded was GLOBAL_SCOPE at some time since it began: *)
(* sn is its history, g what GLOBAL_SCOPE is now.                          *)
CallScope(c, sn, g) ==
  /\ c.pc # "idle" => c.slot \in Slots
  /\ c.pc \in Fixing => g \in sn
  /\ c.pc \in Looking => c.scope \in sn
  /\ c.pc = "global" => c.scope # Unset

ScopeSeen ==
  /\ global \in published
  /\ \A t \in Threads : seen[t] \subseteq published /\ CallScope(th[t], seen[t], global)

(* What has been asked so far does not know the symbol. *)
AskedInVain(s, g, i) ==
  /\ ~Provided(s, g)
  /\ i > 1 => NameOf[s] \notin PreFind[s]
  /\ \A j \in 1 .. Len(Scope[s]) : j < i => Get[Scope[s][j]][NameOf[s]] = NoSym

CallLookup(c) ==
  /\ c.pc \in {"fixup", "global"} => c.lib = 1
  /\ c.pc = "local" => AskedInVain(c.slot, c.scope, c.lib)
  /\ c.pc = "write" => c.sym = Answer[c.slot][c.scope] /\ c.sym # Nowhere
  /\ c.pc = "jump" => \E g \in Scopes : c.sym = Answer[c.slot][g]

Lookup == \A t \in Threads : CallLookup(th[t])

(* A bound slot holds the answer of a published scope. *)
BoundToAnswer ==
  \A s \in Slots : slots[s] # Stub =>
    \E g \in published : slots[s] = Answer[s][g]

BindingInv == TypeOK /\ ScopeSeen /\ Lookup /\ BoundToAnswer /\ AbortOnlyIfUnbound

-----------------------------------------------------------------------------
(* Every nonempty set of naturals has a least element. *)
LEMMA LeastNat ==
  ASSUME NEW S \in SUBSET Nat, S # {}
  PROVE  \E m \in S : \A n \in S : m <= n
<1> DEFINE R == {ss \in Nat \X Nat : ss[1] < ss[2]}
<1>1. IsWellFoundedOn(R, Nat)
  BY NatLessThanWellFounded DEF OpToRel
<1>2. PICK m \in S : \A n \in S : ~(<<n, m>> \in R)
  <2> HIDE DEF R
  <2> QED
    BY <1>1, WFMin
<1>3. \A n \in S : ~(n < m)
  <2> SUFFICES ASSUME NEW n \in S, n < m PROVE FALSE
    OBVIOUS
  <2>1. <<n, m>> \in Nat \X Nat /\ <<n, m>>[1] < <<n, m>>[2]
    OBVIOUS
  <2>2. <<n, m>> \in R
    BY <2>1, Zenon
  <2> HIDE DEF R
  <2> QED
    BY <1>2, <2>2
<1> QED
  BY <1>3

(* The first library that defines the symbol is the one CHOOSE picks. *)
LEMMA FirstDefiner ==
  ASSUME NEW s \in Slots, NEW i \in Definers(s), \A j \in Definers(s) : i <= j
  PROVE  First(Definers(s)) = i
<1> DEFINE k == First(Definers(s))
<1>1. k \in Definers(s) /\ \A j \in Definers(s) : k <= j
  BY Zenon DEF First
<1>2. k <= i /\ i <= k
  BY <1>1
<1>3. k \in Int /\ i \in Int
  <2>1. Definers(s) \subseteq Int
    BY DEF Definers
  <2> QED
    BY <1>1, <2>1, Zenon
<1> HIDE DEF k
<1>4. k = i
  BY <1>2, <1>3
<1> QED
  BY <1>4 DEF k

(* A non-empty set of definers has a first one. *)
LEMMA FirstExists ==
  ASSUME NEW s \in Slots, Definers(s) # {}
  PROVE  /\ First(Definers(s)) \in Definers(s)
         /\ \A j \in Definers(s) : First(Definers(s)) <= j
<1>1. Definers(s) \subseteq Nat
  BY DEF Definers
<1>2. PICK m \in Definers(s) : \A j \in Definers(s) : m <= j
  BY <1>1, LeastNat
<1> QED
  BY <1>2, FirstDefiner

(* If the closure and the libraries before i do not know the symbol and    *)
(* library i does, library i is the answer of the local scope.             *)
LEMMA LibAnswers ==
  ASSUME NEW s \in Local, NEW i \in 1 .. Len(Scope[s]),
         NameOf[s] \notin PreFind[s], Get[Scope[s][i]][NameOf[s]] # NoSym,
         \A j \in 1 .. Len(Scope[s]) : j < i => Get[Scope[s][j]][NameOf[s]] = NoSym
  PROVE  LocalAnswer(s) = InLib(Scope[s][i], Get[Scope[s][i]][NameOf[s]])
<1>1. s \in Slots /\ Scope[s] \in Seq(Libs)
  BY NamesAssumption
<1>2. i \in Definers(s)
  BY DEF Definers
<1>3. \A j \in Definers(s) : i <= j
  BY <1>1 DEF Definers
<1>4. First(Definers(s)) = i
  BY <1>1, <1>2, <1>3, FirstDefiner
<1> QED
  BY <1>1, <1>2, <1>4 DEF LocalAnswer

(* At the end of a scope that has libraries there is no answer. *)
LEMMA NobodyAnswers ==
  ASSUME NEW s \in Slots, NEW g \in Scopes, NEW i \in Nat \ {0},
         AskedInVain(s, g, i), s \in Local => i > Len(Scope[s]), Scope[s] # <<>>
  PROVE  LocalAnswer(s) = Nowhere
<1>1. Scope[s] \in Seq(Libs) /\ Len(Scope[s]) \in Nat
  BY NamesAssumption
<1>2. CASE s \notin Local
  BY <1>2 DEF LocalAnswer
<1>3. CASE s \in Local
  <2>1. Len(Scope[s]) > 0
    BY <1>1
  <2>2. NameOf[s] \notin PreFind[s]
    BY <1>1, <1>3, <2>1 DEF AskedInVain
  <2>3. Definers(s) = {}
    BY <1>1, <1>3 DEF AskedInVain, Definers
  <2> QED
    BY <2>2, <2>3, <1>3 DEF LocalAnswer
<1> QED
  BY <1>2, <1>3

LEMMA AddressIsNotNowhere == Nowhere \notin Address /\ Stub \notin Address
BY DEF Address, Nowhere, Stub, InGlobal, FromPreFind, InLib

-----------------------------------------------------------------------------
(* The invariant holds at first. *)
LEMMA InitBinding == Init => BindingInv
<1> SUFFICES ASSUME Init PROVE BindingInv
  OBVIOUS
<1>0. Idle \in Call
  BY DEF Idle, Call, Scopes
<1>1. TypeOK
  BY <1>0 DEF Init, TypeOK, Scopes
<1>2. ScopeSeen
  BY DEF Init, ScopeSeen, CallScope, Idle, Fixing, Looking
<1>3. Lookup
  BY DEF Init, Lookup, CallLookup, Idle
<1>4. BoundToAnswer /\ AbortOnlyIfUnbound
  BY DEF Init, BoundToAnswer, AbortOnlyIfUnbound
<1> QED
  BY <1>1, <1>2, <1>3, <1>4 DEF BindingInv

(* One thread's move leaves the others, and what is said of them, alone. *)
LEMMA ThreadMoves ==
  ASSUME BindingInv, NEW t \in Threads, NEW c \in Call, Move(t, c),
         UNCHANGED <<global, published>>,
         \A u \in Threads \ {t} : seen'[u] = seen[u],
         seen'[t] \subseteq published, CallScope(c, seen'[t], global), CallLookup(c)
  PROVE  th' \in [Threads -> Call] /\ ScopeSeen' /\ Lookup'
<1>1. /\ th' \in [Threads -> Call]
      /\ th'[t] = c
      /\ \A u \in Threads \ {t} : th'[u] = th[u]
  BY DEF BindingInv, TypeOK, Move
<1>2. ScopeSeen'
  <2> SUFFICES ASSUME NEW u \in Threads 
      PROVE seen'[u] \subseteq published /\ CallScope(th'[u], seen'[u], global)
    BY DEF BindingInv, ScopeSeen, CallScope
  <2>1. CASE u = t
    BY <2>1, <1>1 DEF CallScope
  <2>2. CASE u # t
    BY <2>2, <1>1 DEF CallScope, BindingInv, ScopeSeen
  <2> QED
    BY <2>1, <2>2
<1>3. Lookup'
  <2> SUFFICES ASSUME NEW u \in Threads PROVE CallLookup(th'[u])
    BY DEF Lookup, CallLookup, AskedInVain
  <2>1. CASE u = t
    BY <2>1, <1>1
  <2>2. CASE u # t
    BY <2>2, <1>1 DEF BindingInv, Lookup
  <2> QED
    BY <2>1, <2>2
<1> QED
  BY <1>1, <1>2, <1>3

(* A new global scope: the history grows, nothing is looked up anew. *)
LEMMA SetGlobalScopeKeeps ==
  ASSUME BindingInv, NEW g \in Globals, SetGlobalScope(g)
  PROVE  BindingInv'
<1> USE DEF BindingInv, SetGlobalScope
<1>1. TypeOK'
  BY DEF TypeOK, Scopes
<1>2. ScopeSeen'
  BY DEF ScopeSeen, CallScope, TypeOK, Call, Fixing, Looking
<1>3. Lookup'
  BY DEF Lookup, CallLookup, AskedInVain
<1>4. BoundToAnswer'
  BY DEF BoundToAnswer
<1>5. AbortOnlyIfUnbound'
  BY DEF AbortOnlyIfUnbound, Dangling
<1> QED
  BY <1>1, <1>2, <1>3, <1>4, <1>5

(* A library that goes changes nothing here until a lookup comes to it. *)
LEMMA DropLibKeeps ==
  ASSUME BindingInv, NEW l \in Libs, DropLib(l)
  PROVE  BindingInv'
<1> USE DEF BindingInv, DropLib
<1>1. TypeOK'
  BY DEF TypeOK
<1>2. ScopeSeen' /\ Lookup' /\ BoundToAnswer'
  BY DEF ScopeSeen, CallScope, Lookup, CallLookup, AskedInVain, BoundToAnswer
<1>3. AbortOnlyIfUnbound'
  BY DEF AbortOnlyIfUnbound, Running
<1> QED
  BY <1>1, <1>2, <1>3

LEMMA CallPltKeeps ==
  ASSUME BindingInv, NEW t \in Threads, NEW s \in Slots, CallPlt(t, s)
  PROVE  BindingInv'
<1> DEFINE c == [Idle EXCEPT !.pc = IF slots[s] = Stub THEN "fixup" ELSE "jump",
                             !.slot = s,
                             !.sym = IF slots[s] = Stub THEN Nowhere ELSE slots[s]]
<1>0. (IF slots[s] = Stub THEN Nowhere ELSE slots[s]) \in Address \cup {Nowhere}
  BY DEF BindingInv, TypeOK
<1>i. Idle \in Call
  BY DEF Idle, Call, Scopes
<1>1. c \in Call
  BY <1>0, <1>i DEF Call
<1>2. c.pc \in {"fixup", "jump"} /\ c.slot = s /\ c.lib = 1
  BY DEF Idle
<1>b. /\ c.pc = "fixup" <=> slots[s] = Stub
      /\ c.pc = "jump" => c.sym = slots[s] /\ slots[s] # Stub
  BY DEF Idle
<1>3. seen' = [seen EXCEPT ![t] = IF slots[s] = Stub THEN {global} ELSE {}] /\ Move(t, c)
  BY DEF CallPlt
<1>4. /\ seen' \in [Threads -> SUBSET Scopes] /\ seen'[t] \subseteq published
      /\ slots[s] = Stub => seen'[t] = {global}
  BY <1>3 DEF BindingInv, TypeOK, ScopeSeen
<1>5. \A u \in Threads \ {t} : seen'[u] = seen[u]
  BY <1>3 DEF BindingInv, TypeOK
<1> HIDE DEF c
<1>6. CallScope(c, seen'[t], global)
  BY <1>2, <1>4, <1>b DEF CallScope, Fixing, Looking
<1>8. CallLookup(c)
  BY <1>2, <1>b DEF CallLookup, BindingInv, BoundToAnswer, TypeOK
<1>7. th' \in [Threads -> Call] /\ ScopeSeen' /\ Lookup'
  BY <1>1, <1>3, <1>4, <1>5, <1>6, <1>8, ThreadMoves DEF CallPlt
<1> QED
  BY <1>4, <1>7 DEF BindingInv, CallPlt, TypeOK, BoundToAnswer, AbortOnlyIfUnbound, Dangling

(* What the steps inside dl_fixup leave alone. *)
LEMMA FixupMoves ==
  ASSUME BindingInv, NEW t \in Threads, NEW c \in Call, Move(t, c),
         UNCHANGED <<global, slots, gone, aborted, seen, published>>,
         CallScope(c, seen[t], global), CallLookup(c)
  PROVE  BindingInv'
<1>1. th' \in [Threads -> Call] /\ ScopeSeen' /\ Lookup'
  BY ThreadMoves DEF BindingInv, ScopeSeen
<1> QED
  BY <1>1 DEF BindingInv, TypeOK, BoundToAnswer, AbortOnlyIfUnbound, Dangling

LEMMA LoadScopeKeeps ==
  ASSUME BindingInv, NEW t \in Threads, LoadScope(t)
  PROVE  BindingInv'
<1> DEFINE c == [th[t] EXCEPT !.scope = global, !.pc = IF global = Unset THEN "local" ELSE "global"]
<1>0. /\ th[t] \in Call /\ global \in Scopes /\ th[t].pc = "fixup"
      /\ CallScope(th[t], seen[t], global) /\ CallLookup(th[t])
  BY DEF BindingInv, TypeOK, LoadScope, ScopeSeen, Lookup
<1>1. c \in Call
  BY <1>0 DEF Call
<1>2. /\ c.pc = IF global = Unset THEN "local" ELSE "global"
      /\ c.slot = th[t].slot /\ c.scope = global /\ c.lib = th[t].lib
  BY <1>0 DEF Call
<1> HIDE DEF c
<1>3. CallScope(c, seen[t], global)
  BY <1>0, <1>2 DEF CallScope, Fixing, Looking
<1>4. CallLookup(c)
  BY <1>0, <1>2, NamesAssumption DEF CallLookup, CallScope, AskedInVain, Provided
<1> QED
  BY <1>1, <1>3, <1>4, FixupMoves DEF LoadScope, c

LEMMA AskGlobalKeeps ==
  ASSUME BindingInv, NEW t \in Threads, AskGlobal(t)
  PROVE  BindingInv'
<1> DEFINE s == th[t].slot
           g == th[t].scope
<1>0. /\ th[t] \in Call /\ th[t].pc = "global"
      /\ CallScope(th[t], seen[t], global) /\ CallLookup(th[t])
  BY DEF BindingInv, TypeOK, AskGlobal, ScopeSeen, Lookup
<1>s. s \in Slots /\ g \in Globals /\ g # Unset /\ g \in Scopes /\ NameOf[s] \in Names
  BY <1>0, NamesAssumption DEF CallScope, Call, Scopes
<1>1. CASE NameOf[s] \in Provides[g]
  <2> DEFINE a == InGlobal(g, NameOf[s])
             c == [th[t] EXCEPT !.sym = a, !.pc = "write"]
  <2>1. a \in Address
    BY <1>s DEF Address
  <2>2. a = Answer[s][g]
    BY <1>1, <1>s DEF Answer, Provided
  <2> HIDE DEF a
  <2>3. c \in Call /\ c.pc = "write" /\ c.slot = s /\ c.scope = g /\ c.sym = a
    BY <1>0, <2>1 DEF Call
  <2>4. Move(t, c)
    BY <1>1 DEF AskGlobal, Found, name, a
  <2> HIDE DEF c
  <2>5. CallScope(c, seen[t], global)
    BY <1>0, <2>3 DEF CallScope, Fixing, Looking
  <2>6. CallLookup(c)
    BY <2>1, <2>2, <2>3, AddressIsNotNowhere DEF CallLookup
  <2> QED
    BY <2>3, <2>4, <2>5, <2>6, FixupMoves DEF AskGlobal
<1>2. CASE NameOf[s] \notin Provides[g]
  <2> DEFINE c == [th[t] EXCEPT !.pc = "local"]
  <2>1. c \in Call /\ c.pc = "local" /\ c.slot = s /\ c.scope = g /\ c.lib = 1
    BY <1>0 DEF Call, CallLookup
  <2>2. Move(t, c)
    BY <1>2 DEF AskGlobal, name
  <2> HIDE DEF c
  <2>3. CallScope(c, seen[t], global)
    BY <1>0, <2>1 DEF CallScope, Fixing, Looking
  <2>4. CallLookup(c)
    BY <1>2, <2>1 DEF CallLookup, AskedInVain, Provided
  <2> QED
    BY <2>1, <2>2, <2>3, <2>4, FixupMoves DEF AskGlobal
<1> QED
  BY <1>1, <1>2

LEMMA AskLibKeeps ==
  ASSUME BindingInv, NEW t \in Threads, AskLib(t)
  PROVE  BindingInv'
<1> DEFINE s == th[t].slot
           i == th[t].lib
           g == th[t].scope
           n == NameOf[s]
           l == Scope[s][i]
<1>0. /\ th[t] \in Call /\ th[t].pc = "local" /\ s \in Local
      /\ CallScope(th[t], seen[t], global) /\ CallLookup(th[t])
  BY DEF BindingInv, TypeOK, AskLib, ScopeSeen, Lookup
<1>s. /\ s \in Slots /\ n \in Names /\ Scope[s] \in Seq(Libs)
      /\ i \in 1 .. Len(Scope[s]) /\ l \in Libs /\ g \in Scopes
      /\ Get[l][n] \in MaybeSym
  BY <1>0, NamesAssumption DEF Call, AskLib
<1>v. AskedInVain(s, g, i)
  BY <1>0 DEF CallLookup
<1>a. Answer[s][g] = LocalAnswer(s)
  BY <1>s, <1>v DEF Answer, AskedInVain
<1>f. ASSUME NEW a \in Address, a = LocalAnswer(s), Found(t, a)
      PROVE  BindingInv'
  <2> DEFINE c == [th[t] EXCEPT !.sym = a, !.pc = "write"]
  <2>1. c \in Call /\ c.pc = "write" /\ c.slot = s /\ c.scope = g /\ c.sym = a
    BY <1>0 DEF Call
  <2>2. Move(t, c)
    BY <1>f DEF Found
  <2> HIDE DEF c
  <2>3. CallScope(c, seen[t], global)
    BY <1>0, <2>1 DEF CallScope, Fixing, Looking
  <2>4. CallLookup(c)
    BY <1>a, <1>f, <2>1, AddressIsNotNowhere DEF CallLookup
  <2> QED
    BY <2>1, <2>2, <2>3, <2>4, FixupMoves DEF AskLib
<1>1. CASE n \in PreFind[s]
  <2>1. LocalAnswer(s) = FromPreFind(n) /\ FromPreFind(n) \in Address
    BY <1>0, <1>1, <1>s DEF LocalAnswer, Address
  <2>2. Found(t, FromPreFind(n))
    BY <1>1 DEF AskLib, name
  <2> QED
    BY <2>1, <2>2, <1>f
<1>2. CASE n \notin PreFind[s] /\ Get[l][n] # NoSym
  <2>1. LocalAnswer(s) = InLib(l, Get[l][n])
    BY <1>0, <1>2, <1>s, <1>v, LibAnswers DEF AskedInVain
  <2>2. InLib(l, Get[l][n]) \in Address
    <3>1. l \in Libs /\ Get[l][n] \in Symbols
      BY <1>2, <1>s DEF MaybeSym
    <3> QED
      BY <3>1 DEF Address
  <2>3. Found(t, InLib(l, Get[l][n]))
    BY <1>2 DEF AskLib, name
  <2> QED
    BY <2>1, <2>2, <2>3, <1>f
<1>3. CASE n \notin PreFind[s] /\ Get[l][n] = NoSym
  <2> DEFINE c == [th[t] EXCEPT !.lib = i + 1]
  <2>1. c \in Call /\ c.pc = "local" /\ c.slot = s /\ c.scope = g /\ c.lib = i + 1
    BY <1>0 DEF Call
  <2>2. Move(t, c)
    BY <1>3 DEF AskLib, name
  <2>3. AskedInVain(s, g, i + 1)
    BY <1>3, <1>s, <1>v DEF AskedInVain
  <2> HIDE DEF c
  <2>4. CallScope(c, seen[t], global)
    BY <1>0, <2>1 DEF CallScope, Fixing, Looking
  <2>5. CallLookup(c)
    BY <2>1, <2>3 DEF CallLookup
  <2> QED
    BY <2>1, <2>2, <2>4, <2>5, FixupMoves DEF AskLib
<1> QED
  BY <1>1, <1>2, <1>3

(* The end of the process, with a cause. *)
LEMMA AbortKeeps ==
  ASSUME BindingInv, NEW t \in Threads, Abort(t), th[t].slot \in Slots,
         \/ th[t].slot \in Bad \/ Scope[th[t].slot] = <<>>
         \/ LocalAnswer(th[t].slot) = Nowhere \/ Dangling(th[t].slot)
  PROVE  BindingInv'
<1>1. Idle \in Call /\ Idle.pc = "idle"
  BY DEF Idle, Call, Scopes
<1>2. /\ th' = [u \in Threads |-> Idle] /\ seen' = [u \in Threads |-> {}]
      /\ aborted' = {th[t].slot} /\ UNCHANGED <<global, slots, gone, published>>
  BY DEF Abort
<1>3. TypeOK'
  BY <1>1, <1>2 DEF BindingInv, TypeOK
<1>4. ScopeSeen'
  BY <1>1, <1>2 DEF BindingInv, ScopeSeen, CallScope, Fixing, Looking
<1>5. Lookup'
  BY <1>1, <1>2 DEF Lookup, CallLookup
<1>6. AbortOnlyIfUnbound'
  BY <1>2 DEF AbortOnlyIfUnbound, Dangling
<1>7. BoundToAnswer'
  BY <1>2 DEF BindingInv, BoundToAnswer
<1> QED
  BY <1>3, <1>4, <1>5, <1>6, <1>7 DEF BindingInv

LEMMA BadEntryKeeps ==
  ASSUME BindingInv, NEW t \in Threads, BadEntry(t)
  PROVE  BindingInv'
BY AbortKeeps, NamesAssumption DEF BadEntry

LEMMA PanicKeeps ==
  ASSUME BindingInv, NEW t \in Threads, Panic(t)
  PROVE  BindingInv'
<1>1. /\ th[t] \in Call /\ th[t].pc = "local"
      /\ CallScope(th[t], seen[t], global) /\ CallLookup(th[t])
  BY DEF BindingInv, TypeOK, Panic, ScopeSeen, Lookup
<1>2. /\ th[t].slot \in Slots /\ th[t].scope \in Scopes /\ th[t].lib \in Nat \ {0}
      /\ AskedInVain(th[t].slot, th[t].scope, th[t].lib)
  BY <1>1 DEF CallScope, CallLookup, Call
<1>3. Scope[th[t].slot] = <<>> \/ LocalAnswer(th[t].slot) = Nowhere
  BY <1>2, NobodyAnswers DEF Panic
<1> QED
  BY <1>2, <1>3, AbortKeeps DEF Panic

(* The lookup has come to a library that is gone. *)
LEMMA UpgradeFailsKeeps ==
  ASSUME BindingInv, NEW t \in Threads, UpgradeFails(t)
  PROVE  BindingInv'
<1> DEFINE s == th[t].slot
           i == th[t].lib
<1>1. /\ th[t] \in Call /\ th[t].pc = "local" /\ s \in Local
      /\ CallScope(th[t], seen[t], global) /\ CallLookup(th[t])
  BY DEF BindingInv, TypeOK, UpgradeFails, ScopeSeen, Lookup
<1>2. /\ s \in Slots /\ Scope[s] \in Seq(Libs) /\ i \in 1 .. Len(Scope[s])
      /\ AskedInVain(s, th[t].scope, i)
  BY <1>1, NamesAssumption DEF Call, CallLookup, UpgradeFails
<1>3. \A j \in 1 .. i - 1 : Get[Scope[s][j]][NameOf[s]] = NoSym
  BY <1>2 DEF AskedInVain
<1>4. Dangling(s)
  BY <1>2, <1>3 DEF Dangling, UpgradeFails, name
<1> QED
  BY <1>2, <1>4, AbortKeeps DEF UpgradeFails

(* An answer inside a library is the first library that has the symbol. *)
LEMMA AnswerInLib ==
  ASSUME NEW s \in Slots, NEW g \in Scopes, NEW l \in Libs, NEW d \in Symbols,
         Answer[s][g] = InLib(l, d)
  PROVE  /\ NameOf[s] \notin PreFind[s]
         /\ \E i \in 1 .. Len(Scope[s]) :
              Scope[s][i] = l /\ \A j \in 1 .. i - 1 : Get[Scope[s][j]][NameOf[s]] = NoSym
<1>0. Scope[s] \in Seq(Libs) /\ Len(Scope[s]) \in Nat
  BY NamesAssumption
<1>1. LocalAnswer(s) = InLib(l, d)
  BY DEF Answer, InGlobal, InLib
<1>2. NameOf[s] \notin PreFind[s] /\ Definers(s) # {}
  BY <1>1 DEF LocalAnswer, InLib, FromPreFind, Nowhere
<1> DEFINE i == First(Definers(s))
<1>3. LocalAnswer(s) = InLib(Scope[s][i], Get[Scope[s][i]][NameOf[s]])
  BY <1>1, <1>2 DEF LocalAnswer, InLib, Nowhere
<1>4. i \in Definers(s) /\ \A j \in Definers(s) : i <= j
  BY <1>2, FirstExists
<1> HIDE DEF i
<1>5. Scope[s][i] = l
  BY <1>1, <1>3 DEF InLib
<1>6. i \in 1 .. Len(Scope[s])
  BY <1>4 DEF Definers
<1>7. ASSUME NEW j \in 1 .. i - 1 PROVE Get[Scope[s][j]][NameOf[s]] = NoSym
  <2>1. j \in 1 .. Len(Scope[s]) /\ ~(i <= j)
    BY <1>0, <1>6
  <2>2. j \notin Definers(s)
    BY <1>4, <2>1
  <2> QED
    BY <2>1, <2>2 DEF Definers
<1> QED
  BY <1>2, <1>5, <1>6, <1>7

(* The jump goes into a library that is gone. *)
LEMMA JumpFaultsKeeps ==
  ASSUME BindingInv, NEW t \in Threads, JumpFaults(t)
  PROVE  BindingInv'
<1> DEFINE s == th[t].slot
<1>1. th[t].pc = "jump" /\ CallScope(th[t], seen[t], global) /\ CallLookup(th[t])
  BY DEF BindingInv, JumpFaults, ScopeSeen, Lookup
<1>2. PICK g \in Scopes : th[t].sym = Answer[s][g]
  BY <1>1 DEF CallLookup
<1>3. PICK l \in gone, d \in Symbols : th[t].sym = InLib(l, d)
  BY DEF JumpFaults, Unmapped
<1>4. s \in Slots /\ l \in Libs
  BY <1>1 DEF CallScope, BindingInv, TypeOK
<1>7. Answer[s][g] = InLib(l, d)
  BY <1>2, <1>3
<1> HIDE DEF s
<1>5. /\ NameOf[s] \notin PreFind[s]
      /\ \E i \in 1 .. Len(Scope[s]) :
           Scope[s][i] = l /\ \A j \in 1 .. i - 1 : Get[Scope[s][j]][NameOf[s]] = NoSym
  BY <1>4, <1>7, AnswerInLib
<1>6. Dangling(s)
  BY <1>5 DEF Dangling
<1> QED
  BY <1>4, <1>6, AbortKeeps DEF JumpFaults, s

(* The slot gets the answer of a published scope. *)
LEMMA WriteSlotKeeps ==
  ASSUME BindingInv, NEW t \in Threads, WriteSlot(t)
  PROVE  BindingInv'
<1> DEFINE c == [Idle EXCEPT !.pc = "jump", !.slot = th[t].slot, !.sym = th[t].sym]
<1>1. /\ th[t] \in Call /\ th[t].pc = "write" /\ seen[t] \subseteq published
      /\ CallScope(th[t], seen[t], global) /\ CallLookup(th[t])
  BY DEF BindingInv, TypeOK, WriteSlot, ScopeSeen, Lookup
<1>2. /\ th[t].slot \in Slots /\ th[t].scope \in published /\ th[t].scope \in Scopes
      /\ th[t].sym = Answer[th[t].slot][th[t].scope] /\ th[t].sym \in Address
  BY <1>1 DEF CallScope, CallLookup, Call, Fixing, Looking
<1>i. Idle \in Call
  BY DEF Idle, Call, Scopes
<1>3. c \in Call /\ c.pc = "jump" /\ c.slot = th[t].slot /\ c.sym = th[t].sym
  BY <1>2, <1>i DEF Call
<1>m. Move(t, c) /\ seen' = [seen EXCEPT ![t] = {}]
  BY DEF WriteSlot, Resolved
<1> HIDE DEF c
<1>s. /\ seen' \in [Threads -> SUBSET Scopes] /\ seen'[t] = {}
      /\ \A u \in Threads \ {t} : seen'[u] = seen[u]
  BY <1>m DEF BindingInv, TypeOK
<1>4. CallScope(c, seen'[t], global) /\ CallLookup(c)
  BY <1>2, <1>3 DEF CallScope, CallLookup, Fixing, Looking
<1>5. th' \in [Threads -> Call] /\ ScopeSeen' /\ Lookup'
  BY <1>3, <1>4, <1>m, <1>s, ThreadMoves DEF WriteSlot
<1>6. slots' \in [Slots -> Address \cup {Stub}] /\ BoundToAnswer'
  BY <1>2 DEF BindingInv, TypeOK, WriteSlot, BoundToAnswer
<1> QED
  BY <1>5, <1>6, <1>s DEF BindingInv, TypeOK, WriteSlot, AbortOnlyIfUnbound, Dangling

LEMMA JumpKeeps ==
  ASSUME BindingInv, NEW t \in Threads, Jump(t)
  PROVE  BindingInv'
<1>1. Idle \in Call /\ Idle.pc = "idle"
  BY DEF Idle, Call, Scopes
<1>2. CallScope(Idle, seen[t], global) /\ CallLookup(Idle)
  BY <1>1 DEF CallScope, CallLookup, Fixing, Looking
<1> QED
  BY <1>1, <1>2, FixupMoves DEF Jump

LEMMA StutterKeeps == BindingInv /\ UNCHANGED vars => BindingInv'
BY DEF BindingInv, vars, TypeOK, ScopeSeen, CallScope, Lookup, CallLookup, AskedInVain,
       BoundToAnswer, AbortOnlyIfUnbound, Dangling

(* The inductive invariant of lazy binding holds in every reachable state. *)
THEOREM BindingInvariant == Spec => []BindingInv
<1>1. BindingInv /\ [Next]_vars => BindingInv'
  <2> SUFFICES ASSUME BindingInv, [Next]_vars PROVE BindingInv'
    OBVIOUS
  <2>1. ASSUME NEW g \in Globals, SetGlobalScope(g) PROVE BindingInv'
    BY <2>1, SetGlobalScopeKeeps
  <2>2. ASSUME NEW t \in Threads, NEW s \in Slots, CallPlt(t, s) PROVE BindingInv'
    BY <2>2, CallPltKeeps
  <2>3. ASSUME NEW t \in Threads, Step(t) PROVE BindingInv'
    BY <2>3, BadEntryKeeps, LoadScopeKeeps, AskGlobalKeeps, AskLibKeeps, UpgradeFailsKeeps,
       PanicKeeps, WriteSlotKeeps, JumpKeeps, JumpFaultsKeeps DEF Step
  <2>5. ASSUME NEW l \in Libs, DropLib(l) PROVE BindingInv'
    BY <2>5, DropLibKeeps
  <2>4. CASE UNCHANGED vars
    BY <2>4, StutterKeeps
  <2> QED
    BY <2>1, <2>2, <2>3, <2>4, <2>5 DEF Next
<1> QED
  BY <1>1, InitBinding, PTL DEF Spec

-----------------------------------------------------------------------------
(* Type correctness of the threads, the slots and the scope. *)
THEOREM LazyTypeCorrect == Spec => []TypeOK
BY BindingInvariant, PTL DEF BindingInv

(* The answer dl_fixup writes is that of a scope current while it ran,     *)
(* however set_global_scope interleaves with it.                           *)
THEOREM Fresh == Spec => []FreshBinding
<1>1. BindingInv => FreshBinding
  BY DEF BindingInv, FreshBinding, ScopeSeen, CallScope, Lookup, CallLookup, Fixing, Looking
<1> QED
  BY <1>1, BindingInvariant, PTL

(* The process ends in dl_fixup, or in the jump after it, only for one of  *)
(* the named causes.                                                       *)
THEOREM AbortsJustified == Spec => []AbortOnlyIfUnbound
BY BindingInvariant, PTL DEF BindingInv

(* Lazy binding agrees with binding at load time wherever no global scope  *)
(* provides the symbol and the two ask the same tables the same question.  *)
THEOREM AgreesWithEager == Spec => []SameAsEager
<1>1. BindingInv => SameAsEager
  <2> SUFFICES ASSUME BindingInv, NEW s \in Slots, SameQuestion(s),
                      \A g \in published : ~Provided(s, g), slots[s] # Stub
               PROVE  slots[s] = Eager(s)
    BY DEF SameAsEager
  <2>1. PICK g \in published : slots[s] = Answer[s][g]
    BY DEF BindingInv, BoundToAnswer
  <2>2. g \in Scopes /\ slots[s] \in Address
    BY DEF BindingInv, TypeOK
  <2>3. slots[s] = LocalAnswer(s) /\ LocalAnswer(s) # Nowhere
    BY <2>1, <2>2, AddressIsNotNowhere DEF Answer
  <2>4. EagerDefiners(s) = Definers(s)
    BY DEF SameQuestion, EagerDefiners, Definers
  <2>5. CASE NameOf[s] \in PreFind[s]
    BY <2>3, <2>5 DEF LocalAnswer, Eager
  <2>6. CASE NameOf[s] \notin PreFind[s]
    <3>1. s \in Local /\ Definers(s) # {}
      BY <2>3, <2>6 DEF LocalAnswer
    <3> DEFINE i == First(Definers(s))
    <3>2. i \in 1 .. Len(Scope[s])
      BY <3>1, FirstExists DEF Definers
    <3>3. GetFor[s][Scope[s][i]] = Get[Scope[s][i]][NameOf[s]] /\ Own[s] = NoSym
      BY <3>2 DEF SameQuestion
    <3>4. Eager(s) = InLib(Scope[s][i], GetFor[s][Scope[s][i]])
      BY <2>4, <2>6, <3>1, <3>3 DEF Eager
    <3>5. LocalAnswer(s) = InLib(Scope[s][i], Get[Scope[s][i]][NameOf[s]])
      BY <2>6, <3>1 DEF LocalAnswer
    <3> QED
      BY <2>3, <3>3, <3>4, <3>5
  <2> QED
    BY <2>5, <2>6
<1> QED
  BY <1>1, BindingInvariant, PTL

(* Nothing unbinds a bound slot. *)
THEOREM StaysBound == Spec => BoundForever
<1>1. BindingInv /\ [Next]_vars => [\A s \in Slots : slots[s] # Stub => slots'[s] # Stub]_vars
  <2> SUFFICES ASSUME BindingInv, [Next]_vars, NEW s \in Slots, slots[s] # Stub
               PROVE  slots'[s] # Stub
    OBVIOUS
  <2>1. ASSUME NEW t \in Threads, WriteSlot(t) PROVE slots'[s] # Stub
    <3>1. th[t] \in Call /\ th[t].pc = "write" /\ CallLookup(th[t])
      BY <2>1 DEF BindingInv, TypeOK, WriteSlot, Lookup
    <3>2. th[t].sym \in Address
      BY <3>1 DEF Call, CallLookup
    <3> QED
      BY <2>1, <3>2, AddressIsNotNowhere DEF WriteSlot, BindingInv, TypeOK
  <2>2. ASSUME NEW t \in Threads, Step(t), ~WriteSlot(t) PROVE slots'[s] # Stub
    BY <2>2 DEF Step, BadEntry, LoadScope, AskGlobal, AskLib, UpgradeFails, Panic, Jump, JumpFaults,
               Abort
  <2>3. CASE UNCHANGED vars
    BY <2>3 DEF vars
  <2> QED
    BY <2>1, <2>2, <2>3 DEF Next, SetGlobalScope, DropLib, CallPlt
<1> QED
  BY <1>1, BindingInvariant, PTL DEF Spec, BoundForever

(* The threads in dl_fixup implement PltSlots: every step of theirs binds  *)
(* a slot to a published answer, publishes a scope, or changes neither.    *)
THEOREM Refinement == Spec => ImplementsPltSlots
<1>1. Init => Abstract!Init
  BY DEF Init, Abstract!Init
<1>2. BindingInv /\ [Next]_vars => [Abstract!Next]_Abstract!vars
  <2> SUFFICES ASSUME BindingInv, [Next]_vars, ~(UNCHANGED Abstract!vars)
               PROVE  Abstract!Next
    OBVIOUS
  <2>1. ASSUME NEW g \in Globals, SetGlobalScope(g) PROVE Abstract!Next
    BY <2>1 DEF SetGlobalScope, Abstract!Next, Abstract!Publish, Scopes
  <2>2. ASSUME NEW t \in Threads, WriteSlot(t) PROVE Abstract!Next
    <3>1. /\ th[t] \in Call /\ th[t].pc = "write" /\ seen[t] \subseteq published
          /\ CallScope(th[t], seen[t], global) /\ CallLookup(th[t])
      BY <2>2 DEF BindingInv, TypeOK, WriteSlot, ScopeSeen, Lookup
    <3>2. /\ th[t].slot \in Slots /\ th[t].scope \in published /\ th[t].scope \in Scopes
          /\ th[t].sym = Answer[th[t].slot][th[t].scope] /\ th[t].sym # Nowhere
      BY <3>1 DEF CallScope, CallLookup, Call, Fixing, Looking
    <3>3. Abstract!Bind(th[t].slot, th[t].scope)
      BY <3>2, <2>2 DEF WriteSlot, Abstract!Bind
    <3> QED
      BY <3>2, <3>3 DEF Abstract!Next
  <2>3. ASSUME NEW t \in Threads, NEW s \in Slots, CallPlt(t, s) PROVE FALSE
    BY <2>3 DEF CallPlt, Abstract!vars
  <2>4. ASSUME NEW t \in Threads, Step(t), ~WriteSlot(t) PROVE FALSE
    BY <2>4 DEF Step, BadEntry, LoadScope, AskGlobal, AskLib, UpgradeFails, Panic, Jump, JumpFaults,
               Abort, Abstract!vars
  <2>6. ASSUME NEW l \in Libs, DropLib(l) PROVE FALSE
    BY <2>6 DEF DropLib, Abstract!vars
  <2>5. CASE UNCHANGED vars
    BY <2>5 DEF vars, Abstract!vars
  <2> QED
    BY <2>1, <2>2, <2>3, <2>4, <2>5, <2>6 DEF Next
<1> QED
  BY <1>1, <1>2, BindingInvariant, PTL DEF Spec, ImplementsPltSlots, Abstract!Spec
=============================================================================
