-------------------------- MODULE RelocationProofs --------------------------
(***************************************************************************)
(* For every object with well-formed tables, every list of libraries and   *)
(* every way of calling relocate: each word has its final value before the *)
(* first initialiser runs, and relocate fails only for a cause.            *)
(*                                                                         *)
(* The argument: the three loops walk .rela.dyn and .rela.plt from front   *)
(* to back without a gap (RelaDone, PltDone); what lies behind the walk    *)
(* has its final value, and what lies ahead is as the file has it          *)
(* (Progress), which NONE entries and lazy stubs rely on.                  *)
(***************************************************************************)
EXTENDS Relocation, SequenceTheorems, NaturalsInduction, WellFoundedInduction, TLAPS

(* How many entries of the two tables have been processed. *)
RelaDone ==
  CASE pc = "start"    -> 0
    [] pc = "relative" -> idx - 1
    [] pc = "dynrel"   -> input.rela_count + idx - 1
    [] OTHER           -> Len(input.rela)

PltDone ==
  CASE pc \in {"pltrel", "pltrel_lazy"}   -> idx - 1
    [] pc \in {"relro", "init", "done"}  -> Len(input.plt)
    [] OTHER                              -> 0

(* SlotFinal, of a value instead of the slot. *)
FinalValue(in, r, is_plt, v) ==
  IF Unresolved(in, r, is_plt) THEN v = Dealt
  ELSE IF is_plt /\ in.lazy /\ r.r_type = "JUMP_SLOT" THEN v = Stub
  ELSE v \in Wanted(in, r)

Underway == {"start", "relative", "dynrel", "pltrel", "relro", "got", "pltrel_lazy", "init", "done"}

RelaProgress ==
  \A i \in 1 .. Len(input.rela) :
    IF i <= RelaDone
    THEN ~Deviates(input, input.rela[i]) =>
           FinalValue(input, input.rela[i], FALSE, slots[input.rela[i].r_offset])
    ELSE slots[input.rela[i].r_offset] = Orig

PltProgress ==
  \A i \in 1 .. Len(input.plt) :
    IF i <= PltDone
    THEN FinalValue(input, input.plt[i], TRUE, slots[input.plt[i].r_offset])
    ELSE slots[input.plt[i].r_offset] = Orig

Progress == pc \in Underway => RelaProgress /\ PltProgress

(* What has been decided by the time each loop runs. *)
Control ==
  /\ pc = "relative" => idx <= input.rela_count + 1
  /\ pc = "dynrel"   => input.rela_count + idx <= Len(input.rela) + 1
  /\ pc \in {"pltrel", "pltrel_lazy"} => idx <= Len(input.plt) + 1
  /\ pc \in {"pltrel", "relro"} => ~input.lazy
  /\ pc = "relro" => input.relro
  /\ pc \in {"got", "pltrel_lazy"} => input.lazy
  /\ sealed => pc \in {"init", "done"}
  /\ pc \in {"init", "done"} =>
       /\ input.relro /\ ~input.lazy => sealed
       /\ input.lazy => bound /\ (input.plt = <<>> \/ input.local \/ input.global)

(* Resolvers first, then as many initialisers as the loop has called. *)
InitsCalled == CASE pc = "init" -> idx - 1 [] pc = "done" -> Len(input.inits) [] OTHER -> 0

RanShape ==
  \E k \in 0 .. Len(ran) :
    /\ \A i \in 1 .. k : ran[i] = "resolver"
    /\ Len(ran) - k = InitsCalled
    /\ InitsCalled <= Len(input.inits)
    /\ \A i \in 1 .. InitsCalled : ran[k + i] = input.inits[i]

RelocationInv ==
  /\ TypeOK /\ input \in Inputs
  /\ Control /\ Progress /\ RanShape /\ FailsOnlyForCause

-----------------------------------------------------------------------------
(* The helpers of the model. *)

(* Every nonempty set of naturals has a least element: the induction the   *)
(* other lemmas need.                                                      *)
LEMMA LeastNat ==
  ASSUME NEW S \in SUBSET Nat, S # {}
  PROVE  \E m \in S : \A n \in S : m <= n
<1> DEFINE R == {ss \in Nat \X Nat : ss[1] < ss[2]}
<1>1. IsWellFoundedOn(R, Nat)
  BY NatLessThanWellFounded DEF OpToRel
<1>2. PICK m \in S : \A n \in S : ~(<<n, m>> \in R)
  <2> HIDE DEF R
  <2> QED
    BY <1>1, WFMin
<1>3. \A n \in S : ~(n < m)
  <2> SUFFICES ASSUME NEW n \in S, n < m PROVE FALSE
    OBVIOUS
  <2>1. <<n, m>> \in Nat \X Nat /\ <<n, m>>[1] < <<n, m>>[2]
    OBVIOUS
  <2>2. <<n, m>> \in R
    BY <2>1, Zenon
  <2> HIDE DEF R
  <2> QED
    BY <1>2, <2>2
<1> QED
  BY <1>3

LEMMA InputFacts ==
  ASSUME NEW in \in Inputs
  PROVE  /\ in \in Input /\ Sane(in)
         /\ in.rela \in Seq(Rela) /\ in.plt \in Seq(Rela)
         /\ Len(in.rela) \in Nat /\ Len(in.plt) \in Nat /\ in.rela_count \in 0 .. Len(in.rela)
         /\ \A i \in 1 .. Len(in.rela) : in.rela[i] \in Rela
         /\ \A i \in 1 .. Len(in.plt) : in.plt[i] \in Rela
<1>1. in \in Input /\ Sane(in)
  BY InputsAssumption
<1>2. in.rela \in Seq(Rela) /\ in.plt \in Seq(Rela) /\ in.rela_count \in Nat
  BY <1>1 DEF Input
<1>3. in.rela_count <= Len(in.rela)
  BY <1>1 DEF Sane
<1> QED
  BY <1>1, <1>2, <1>3, LenProperties, ElementOfSeq

(* No two entries of the two tables name the same word. *)
LEMMA OffsetsDiffer ==
  ASSUME NEW in \in Inputs
  PROVE  /\ \A i, j \in 1 .. Len(in.rela) : i # j => in.rela[i].r_offset # in.rela[j].r_offset
         /\ \A i, j \in 1 .. Len(in.plt) : i # j => in.plt[i].r_offset # in.plt[j].r_offset
         /\ \A i \in 1 .. Len(in.rela), j \in 1 .. Len(in.plt) :
              in.rela[i].r_offset # in.plt[j].r_offset
<1> DEFINE both == in.rela \o in.plt
           n == Len(in.rela)
           p == Len(in.plt)
<1>1. n \in Nat /\ p \in Nat
  BY InputFacts
<1>2. \A i \in 1 .. n + p : both[i] = IF i <= n THEN in.rela[i] ELSE in.plt[i - n]
  BY InputFacts, ConcatProperties
<1>3. \A i, j \in 1 .. n + p : i # j => both[i].r_offset # both[j].r_offset
  BY InputFacts DEF Sane
<1> HIDE DEF both, n, p
<1>4. \A i \in 1 .. n : i \in 1 .. n + p /\ both[i] = in.rela[i]
  BY <1>1, <1>2
<1>5. \A j \in 1 .. p : n + j \in 1 .. n + p /\ both[n + j] = in.plt[j]
  <2> SUFFICES ASSUME NEW j \in 1 .. p
               PROVE  n + j \in 1 .. n + p /\ both[n + j] = in.plt[j]
    OBVIOUS
  <2>1. n + j \in 1 .. n + p /\ ~(n + j <= n) /\ (n + j) - n = j
    BY <1>1
  <2> QED
    BY <1>2, <2>1
<1>6. \A i, j \in 1 .. n : i # j => in.rela[i].r_offset # in.rela[j].r_offset
  BY <1>3, <1>4
<1>7. \A i, j \in 1 .. p : i # j => in.plt[i].r_offset # in.plt[j].r_offset
  BY <1>1, <1>3, <1>5
<1>8. \A i \in 1 .. n, j \in 1 .. p : in.rela[i].r_offset # in.plt[j].r_offset
  BY <1>1, <1>3, <1>4, <1>5
<1> QED
  BY <1>6, <1>7, <1>8 DEF n, p

(* ElfRelocation::new: relative and dynrel are the two parts of .rela.dyn, *)
(* whether or not DT_RELASZ counts the entries of .rela.plt too.           *)
LEMMA TablesSplit ==
  ASSUME NEW in \in Inputs
  PROVE  /\ Len(relative(in)) = in.rela_count
         /\ \A i \in 1 .. in.rela_count : relative(in)[i] = in.rela[i]
         /\ Len(dynrel(in)) = Len(in.rela) - in.rela_count
         /\ \A i \in 1 .. Len(in.rela) - in.rela_count : dynrel(in)[i] = in.rela[in.rela_count + i]
<1> DEFINE n == Len(in.rela)
           c == in.rela_count
<1>1. n \in Nat /\ c \in 0 .. n /\ Len(in.plt) \in Nat
  BY InputFacts
<1>2. /\ Len(in.rela \o in.plt) = n + Len(in.plt)
      /\ \A i \in 1 .. n + Len(in.plt) :
           (in.rela \o in.plt)[i] = IF i <= n THEN in.rela[i] ELSE in.plt[i - n]
  BY InputFacts, ConcatProperties
<1>3. \A i \in 1 .. n : in.rela[i] \in Rela
  BY InputFacts
<1>4. PICK old : /\ dynrel(in) = SubSeq(old, c + 1, n)
                 /\ \A i \in 1 .. n : old[i] = in.rela[i]
  <2>1. CASE in.overlap
    <3>1. dynrel(in) = SubSeq(in.rela \o in.plt, c + 1, Len(in.rela \o in.plt) - Len(in.plt))
      BY <2>1 DEF dynrel
    <3> HIDE DEF n, c
    <3>2. Len(in.rela \o in.plt) - Len(in.plt) = n
      BY <1>1, <1>2
    <3>3. ASSUME NEW i \in 1 .. n PROVE (in.rela \o in.plt)[i] = in.rela[i]
      <4>1. i \in 1 .. n + Len(in.plt) /\ i <= n
        BY <1>1
      <4> QED
        BY <1>2, <4>1
    <3> QED
      BY <3>1, <3>2, <3>3
  <2>2. CASE ~in.overlap
    <3>1. dynrel(in) = SubSeq(in.rela, c + 1, n - 0)
      BY <2>2 DEF dynrel
    <3> HIDE DEF n, c
    <3>2. n - 0 = n
      BY <1>1
    <3>3. dynrel(in) = SubSeq(in.rela, c + 1, n)
      BY <3>1, <3>2, Zenon
    <3> QED
      BY <3>3, Zenon
  <2> QED
    BY <2>1, <2>2
<1> HIDE DEF n, c
<1>5. /\ Len(dynrel(in)) = n - c
      /\ \A i \in 1 .. n - c : dynrel(in)[i] = in.rela[c + i]
  <2>1. c + 1 \in Int /\ n \in Int /\ \A i \in c + 1 .. n : old[i] \in Rela
    BY <1>1, <1>3, <1>4
  <2>2. /\ Len(SubSeq(old, c + 1, n)) = IF c + 1 <= n THEN n - (c + 1) + 1 ELSE 0
        /\ \A i \in 1 .. n - (c + 1) + 1 : SubSeq(old, c + 1, n)[i] = old[(c + 1) + i - 1]
    BY <2>1, SubSeqProperties
  <2>3. \A i \in 1 .. n - c : i \in 1 .. n - (c + 1) + 1 /\ (c + 1) + i - 1 = c + i /\ c + i \in 1 .. n
    BY <1>1
  <2>4. (IF c + 1 <= n THEN n - (c + 1) + 1 ELSE 0) = n - c
    BY <1>1
  <2> QED
    BY <1>4, <2>2, <2>3, <2>4
<1>6. /\ Len(relative(in)) = c
      /\ \A i \in 1 .. c : relative(in)[i] = in.rela[i]
  <2>1. c \in Int /\ \A i \in 1 .. c : in.rela[i] \in Rela
    BY <1>1, <1>3
  <2>2. /\ Len(SubSeq(in.rela, 1, c)) = IF 1 <= c THEN c - 1 + 1 ELSE 0
        /\ \A i \in 1 .. c - 1 + 1 : SubSeq(in.rela, 1, c)[i] = in.rela[1 + i - 1]
    BY <2>1, SubSeqProperties
  <2>3. relative(in) = SubSeq(in.rela, 1, c)
    BY DEF relative, c
  <2> QED
    BY <1>1, <2>2, <2>3
<1> QED
  BY <1>5, <1>6 DEF n, c

(* The two ways to say "the first library in scope order" agree unless the *)
(* lookup panics, and then it has a cause.                                 *)
LEMMA FirstDefinition ==
  ASSUME NEW in \in Inputs, NEW n \in Names
  PROVE  /\ find_symdef(in, n) \in Libs \cup {"null", "none", "panic"}
         /\ find_symdef(in, n) # "panic" => find_symdef(in, n) = DefiningLib(in, n)
         /\ find_symdef(in, n) = "panic" => ~Answers(in, n)
<1> DEFINE S == Hits(in, n)
           D == {i \in DOMAIN helper(in) : n \in Defs[helper(in)[i]]}
           h == helper(in)
<1>1. in.scope \in Seq(Libs) /\ Self \in Libs /\ "panic" \notin Libs
  BY InputFacts, SymbolsAssumption DEF Input
<1>2. helper(in) \in Seq(Libs)
  <2>1. <<Self>> \in Seq(Libs)
    BY <1>1
  <2>2. <<Self>> \o in.scope \in Seq(Libs)
    BY <1>1, <2>1, ConcatProperties
  <2> QED
    BY <1>1, <2>2 DEF helper
<1>d. DOMAIN h = 1 .. Len(h) /\ Len(h) \in Nat /\ \A i \in DOMAIN h : h[i] \in Libs
  <2>1. DOMAIN h = 1 .. Len(h) /\ Len(h) \in Nat
    BY <1>2, LenProperties
  <2> QED
    BY <1>2, <2>1, ElementOfSeq
<1>s. /\ S \subseteq DOMAIN h /\ D \subseteq S
      /\ \A i \in DOMAIN h : i \in S <=> n \in Defs[h[i]] \/ n \in Trips[h[i]]
      /\ \A i \in DOMAIN h : i \in D <=> n \in Defs[h[i]]
  BY DEF Hits
<1>3. S \in SUBSET Nat /\ D \in SUBSET Nat
  BY <1>d, <1>s
<1>t. \A i \in DOMAIN h : ~(n \in Defs[h[i]] /\ n \in Trips[h[i]])
  BY <1>d, SymbolsAssumption
<1>4. DefiningLib(in, n) =
        IF Kind[n] = "local" THEN Self
        ELSE IF \E i \in D : TRUE
             THEN h[CHOOSE i \in D : ~\E j \in D : j < i]
             ELSE IF Kind[n] = "weak" THEN "null" ELSE "none"
  BY DEF DefiningLib, helper
<1>5. find_symdef(in, n) =
        IF Kind[n] = "local" THEN Self
        ELSE IF S # {}
             THEN FoundIn(h[CHOOSE i \in S : \A j \in S : i <= j], n)
             ELSE NotFound(n)
  BY DEF find_symdef
<1>6. Answers(in, n) <=>
        \/ Kind[n] = "local"
        \/ /\ \A i \in DOMAIN h : n \in Trips[h[i]] => \E j \in DOMAIN h : j < i /\ n \in Defs[h[j]]
           /\ DefiningLib(in, n) = "null" => n \notin Valued
  BY DEF Answers
<1> HIDE DEF S, D, h
<1>7. CASE Kind[n] = "local"
  BY <1>1, <1>4, <1>5, <1>7
<1>8. CASE Kind[n] # "local" /\ S = {}
  <2>1. D = {}
    BY <1>s, <1>8
  <2>2. DefiningLib(in, n) = IF Kind[n] = "weak" THEN "null" ELSE "none"
    BY <1>4, <1>8, <2>1
  <2>3. find_symdef(in, n) = NotFound(n)
    BY <1>5, <1>8
  <2> QED
    BY <1>6, <1>8, <2>2, <2>3 DEF NotFound
<1>9. CASE Kind[n] # "local" /\ S # {}
  <2>1. PICK m \in S : \A j \in S : m <= j
    BY <1>3, <1>9, LeastNat
  <2>2. \A i \in S : (\A j \in S : i <= j) => i = m
    BY <1>3, <2>1
  <2>3. (CHOOSE i \in S : \A j \in S : i <= j) = m
    BY <2>1, <2>2
  <2>4. find_symdef(in, n) = FoundIn(h[m], n)
    BY <1>5, <1>9, <2>3
  <2>5. m \in DOMAIN h /\ h[m] \in Libs
    BY <1>d, <1>s, <2>1
  <2>6. CASE n \in Trips[h[m]]
    <3>1. ~\E j \in DOMAIN h : j < m /\ n \in Defs[h[j]]
      <4> SUFFICES ASSUME NEW j \in DOMAIN h, j < m, n \in Defs[h[j]] PROVE FALSE
        OBVIOUS
      <4>1. j \in S /\ m <= j
        BY <1>s, <2>1
      <4>2. j \in Nat /\ m \in Nat
        BY <1>3, <2>1, <4>1
      <4> QED
        BY <4>1, <4>2
    <3>2. ~Answers(in, n)
      BY <1>6, <1>9, <2>5, <2>6, <3>1
    <3> QED
      BY <2>4, <2>6, <3>2 DEF FoundIn
  <2>7. CASE n \notin Trips[h[m]]
    <3>1. m \in D
      BY <1>s, <2>1, <2>5, <2>7
    <3>2. \A i \in D : (~\E j \in D : j < i) => i = m
      BY <1>3, <1>s, <2>1, <3>1
    <3>3. ~\E j \in D : j < m
      BY <1>3, <1>s, <2>1
    <3>4. (CHOOSE i \in D : ~\E j \in D : j < i) = m
      BY <3>1, <3>2, <3>3
    <3>5. \E i \in D : TRUE
      BY <3>1, Zenon
    <3>6. DefiningLib(in, n) = h[m]
      BY <1>4, <1>9, <3>4, <3>5, Zenon
    <3> QED
      BY <1>1, <2>4, <2>5, <2>7, <3>6 DEF FoundIn
  <2> QED
    BY <2>6, <2>7
<1> QED
  BY <1>7, <1>8, <1>9

(* The same of the lookup with the symbol's version read first. *)
LEMMA SymdefFacts ==
  ASSUME NEW in \in Inputs, NEW n \in Names
  PROVE  /\ symdef(in, n) \in Libs \cup {"null", "none", "panic"}
         /\ symdef(in, n) # "panic" => symdef(in, n) = DefiningLib(in, n)
         /\ symdef(in, n) = "panic" => n \in Broken \/ ~Answers(in, n)
BY FirstDefinition DEF symdef

(* What is written for a symbol is what the ABI wants, and a value. *)
LEMMA SymbolWanted ==
  ASSUME NEW in \in Inputs, NEW r \in Rela
  PROVE  /\ Found(in, r.r_sym) => /\ Definer(in, r.r_sym) # "none"
                                  /\ Symbol(in, r.r_sym) \in Value
                                  /\ Symbol(in, r.r_sym) = WantedSymbol(in, r, 0)
         /\ ~Found(in, r.r_sym) /\ ~Panics(in, r.r_sym) => Definer(in, r.r_sym) = "none"
         /\ Panics(in, r.r_sym) => ~Readable(in, r)
<1> DEFINE n == r.r_sym
           l == symdef(in, n)
<1>1. n \in Names
  BY DEF Rela
<1>2. /\ l \in Libs \cup {"null", "none", "panic"}
      /\ l # "panic" => l = DefiningLib(in, n)
      /\ l = "panic" => n \in Broken \/ ~Answers(in, n)
  BY <1>1, SymdefFacts
<1>3. PreFind \notin Libs \cup {"null", "none", "panic"}
  BY SymbolsAssumption DEF PreFind
<1>4. Definer(in, n) = IF n \in in.pre_find THEN PreFind ELSE DefiningLib(in, n)
  BY DEF Definer
<1>5. Symbol(in, n) = IF n \in in.pre_find THEN Address(PreFind, n, 0)
                      ELSE IF l = "null"   THEN Null
                      ELSE IF n \in IFuncs THEN Resolved(l, n) ELSE Address(l, n, 0)
  BY DEF Symbol
<1>6. WantedSymbol(in, r, 0) = IF Definer(in, n) = "null" THEN Null
        ELSE IF n \in IFuncs /\ Definer(in, n) # PreFind THEN Resolved(Definer(in, n), n)
        ELSE Address(Definer(in, n), n, 0)
  BY DEF WantedSymbol
<1>7. /\ Found(in, n) <=> n \notin Broken /\ (n \in in.pre_find \/ l \notin {"none", "panic"})
      /\ Panics(in, n) <=> n \in Broken \/ (n \notin in.pre_find /\ l = "panic")
  BY DEF Found, Panics
<1>p. Panics(in, n) => ~Readable(in, r)
  BY <1>2, <1>7 DEF Readable
<1> HIDE DEF n, l
<1>8. /\ Found(in, n) => Definer(in, n) # "none"
      /\ ~Found(in, n) /\ ~Panics(in, n) => Definer(in, n) = "none"
  BY <1>2, <1>3, <1>4, <1>7
<1>9. Found(in, n) => Symbol(in, n) = WantedSymbol(in, r, 0)
  BY <1>2, <1>3, <1>4, <1>5, <1>6, <1>7
<1>10. ASSUME Found(in, n) PROVE Symbol(in, n) \in Value
  <2>1. CASE n \in in.pre_find
    BY <1>1, <1>5, <2>1 DEF Value
  <2>2. CASE n \notin in.pre_find
    <3>1. l \in Libs \cup {"null"}
      BY <1>2, <1>7, <1>10, <2>2
    <3> QED
      BY <1>1, <1>5, <2>2, <3>1 DEF Value
  <2> QED
    BY <2>1, <2>2
<1> QED
  BY <1>8, <1>9, <1>10, <1>p DEF n

-----------------------------------------------------------------------------
(* One entry processed: the walk is one further, nothing else moves. *)

LEMMA RelaStep ==
  ASSUME RelocationInv, pc \in Underway, NEW k \in 1 .. Len(input.rela), NEW v \in Value,
         RelaDone = k - 1, RelaDone' = k, PltDone' = PltDone, input' = input,
         Write(input.rela[k], v),
         ~Deviates(input, input.rela[k]) => FinalValue(input, input.rela[k], FALSE, v)
  PROVE  slots' \in [Slots -> Value] /\ RelaProgress' /\ PltProgress'
<1> DEFINE r == input.rela[k]
<1>1. input \in Inputs /\ RelaProgress /\ PltProgress /\ slots \in [Slots -> Value]
  BY DEF RelocationInv, Progress, TypeOK
<1>2. r \in Rela /\ r.r_offset \in Slots
  BY <1>1, InputFacts DEF Rela
<1>3. slots' = [slots EXCEPT ![r.r_offset] = v]
  BY DEF Write
<1>4. slots'[r.r_offset] = v /\ \A s \in Slots : s # r.r_offset => slots'[s] = slots[s]
  BY <1>1, <1>2, <1>3
<1>5. \A i \in 1 .. Len(input.rela) : input.rela[i].r_offset \in Slots
  BY <1>1, InputFacts DEF Rela
<1>6. \A i \in 1 .. Len(input.plt) : input.plt[i].r_offset \in Slots
  BY <1>1, InputFacts DEF Rela
<1>7. \A i \in 1 .. Len(input.rela) : i # k =>
        slots'[input.rela[i].r_offset] = slots[input.rela[i].r_offset]
  BY <1>1, <1>4, <1>5, OffsetsDiffer
<1>8. \A i \in 1 .. Len(input.plt) :
        slots'[input.plt[i].r_offset] = slots[input.plt[i].r_offset]
  BY <1>1, <1>4, <1>6, OffsetsDiffer
<1>9. Len(input.rela) \in Nat
  BY <1>1, InputFacts
<1>10. RelaProgress'
  <2> SUFFICES ASSUME NEW i \in 1 .. Len(input.rela)
               PROVE  IF i <= k
                      THEN ~Deviates(input, input.rela[i]) =>
                             FinalValue(input, input.rela[i], FALSE, slots'[input.rela[i].r_offset])
                      ELSE slots'[input.rela[i].r_offset] = Orig
    BY DEF RelaProgress
  <2>1. CASE i = k
    <3>1. i <= k
      BY <1>9, <2>1
    <3>2. slots'[input.rela[i].r_offset] = v
      BY <1>4, <2>1
    <3> QED
      BY <2>1, <3>1, <3>2, Zenon
  <2>2. CASE i # k
    <3>1. (i <= k) <=> (i <= RelaDone)
      BY <1>9, <2>2
    <3> QED
      BY <1>1, <1>7, <2>2, <3>1 DEF RelaProgress
  <2> QED
    BY <2>1, <2>2
<1>11. PltProgress'
  BY <1>1, <1>8 DEF PltProgress
<1> QED
  BY <1>1, <1>2, <1>3, <1>10, <1>11

LEMMA PltStep ==
  ASSUME RelocationInv, pc \in Underway, NEW k \in 1 .. Len(input.plt), NEW v \in Value,
         PltDone = k - 1, PltDone' = k, RelaDone' = RelaDone, input' = input,
         Write(input.plt[k], v), FinalValue(input, input.plt[k], TRUE, v)
  PROVE  slots' \in [Slots -> Value] /\ RelaProgress' /\ PltProgress'
<1> DEFINE r == input.plt[k]
<1>1. input \in Inputs /\ RelaProgress /\ PltProgress /\ slots \in [Slots -> Value]
  BY DEF RelocationInv, Progress, TypeOK
<1>2. r \in Rela /\ r.r_offset \in Slots
  BY <1>1, InputFacts DEF Rela
<1>3. slots' = [slots EXCEPT ![r.r_offset] = v]
  BY DEF Write
<1>4. slots'[r.r_offset] = v /\ \A s \in Slots : s # r.r_offset => slots'[s] = slots[s]
  BY <1>1, <1>2, <1>3
<1>5. \A i \in 1 .. Len(input.rela) : input.rela[i].r_offset \in Slots
  BY <1>1, InputFacts DEF Rela
<1>6. \A i \in 1 .. Len(input.plt) : input.plt[i].r_offset \in Slots
  BY <1>1, InputFacts DEF Rela
<1>7. \A i \in 1 .. Len(input.rela) :
        slots'[input.rela[i].r_offset] = slots[input.rela[i].r_offset]
  BY <1>1, <1>4, <1>5, OffsetsDiffer
<1>8. \A i \in 1 .. Len(input.plt) : i # k =>
        slots'[input.plt[i].r_offset] = slots[input.plt[i].r_offset]
  BY <1>1, <1>4, <1>6, OffsetsDiffer
<1>9. Len(input.plt) \in Nat
  BY <1>1, InputFacts
<1>10. RelaProgress'
  BY <1>1, <1>7 DEF RelaProgress
<1>11. PltProgress'
  <2> SUFFICES ASSUME NEW i \in 1 .. Len(input.plt)
               PROVE  IF i <= k
                      THEN FinalValue(input, input.plt[i], TRUE, slots'[input.plt[i].r_offset])
                      ELSE slots'[input.plt[i].r_offset] = Orig
    BY DEF PltProgress
  <2>1. CASE i = k
    <3>1. i <= k
      BY <1>9, <2>1
    <3>2. slots'[input.plt[i].r_offset] = v
      BY <1>4, <2>1
    <3> QED
      BY <2>1, <3>1, <3>2, Zenon
  <2>2. CASE i # k
    <3>1. (i <= k) <=> (i <= PltDone)
      BY <1>9, <2>2
    <3> QED
      BY <1>1, <1>8, <2>2, <3>1 DEF PltProgress
  <2> QED
    BY <2>1, <2>2
<1> QED
  BY <1>1, <1>2, <1>3, <1>10, <1>11

(* A call of a resolver before the first initialiser. *)
LEMMA ResolverStep ==
  ASSUME RelocationInv, pc \notin {"init", "done"}, pc' \notin {"init", "done"}, input' = input,
         NEW more \in {<<>>, <<"resolver">>}, ran' = ran \o more
  PROVE  ran' \in Seq({"resolver", "init_fn", "init_array"}) /\ RanShape'
<1> DEFINE Code == {"resolver", "init_fn", "init_array"}
<1>1. ran \in Seq(Code) /\ more \in Seq(Code) /\ input \in Inputs
  <2>1. ran \in Seq(Code) /\ input \in Inputs
    BY DEF RelocationInv, TypeOK
  <2>2. <<>> \in Seq(Code) /\ <<"resolver">> \in Seq(Code)
    OBVIOUS
  <2> QED
    BY <2>1, <2>2
<1>2. InitsCalled = 0 /\ InitsCalled' = 0
  BY DEF InitsCalled
<1>3. PICK k \in 0 .. Len(ran) : Len(ran) - k = 0 /\ \A i \in 1 .. k : ran[i] = "resolver"
  BY <1>2 DEF RelocationInv, RanShape
<1>4. k = Len(ran) /\ Len(ran) \in Nat /\ Len(more) \in Nat
  BY <1>1, <1>3, LenProperties
<1>5. \A i \in 1 .. Len(more) : more[i] = "resolver"
  OBVIOUS
<1>6. /\ ran' \in Seq(Code) /\ Len(ran') = Len(ran) + Len(more)
      /\ \A i \in 1 .. Len(ran) + Len(more) :
           ran'[i] = IF i <= Len(ran) THEN ran[i] ELSE more[i - Len(ran)]
  BY <1>1, ConcatProperties
<1>7. \A i \in 1 .. Len(ran') : ran'[i] = "resolver"
  <2> SUFFICES ASSUME NEW i \in 1 .. Len(ran') PROVE ran'[i] = "resolver"
    OBVIOUS
  <2>1. CASE i <= Len(ran)
    BY <1>3, <1>4, <1>6, <2>1
  <2>2. CASE ~(i <= Len(ran))
    <3>1. i - Len(ran) \in 1 .. Len(more)
      BY <1>4, <1>6, <2>2
    <3> QED
      BY <1>5, <1>6, <2>2, <3>1
  <2> QED
    BY <2>1, <2>2
<1>8. Len(input.inits) \in Nat
  BY <1>1, InputFacts, LenProperties DEF Input
<1>9. Len(ran') \in 0 .. Len(ran') /\ Len(ran') - Len(ran') = 0
  BY <1>4, <1>6
<1>10. \A i \in 1 .. 0 : FALSE
  OBVIOUS
<1> QED
  BY <1>2, <1>6, <1>7, <1>8, <1>9, <1>10 DEF RanShape

-----------------------------------------------------------------------------
(* The steps by their kind: an entry of .rela.dyn, an entry of .rela.plt,  *)
(* the end of a loop, a failure.                                           *)

LEMMA RelaKeeps ==
  ASSUME RelocationInv, NEW k \in 1 .. Len(input.rela), NEW v \in Value,
         \/ pc = "relative" /\ k = idx /\ k <= input.rela_count
         \/ pc = "dynrel" /\ k = input.rela_count + idx,
         Write(input.rela[k], v), NextRela,
         NEW more \in {<<>>, <<"resolver">>}, ran' = ran \o more,
         ~Deviates(input, input.rela[k]) => FinalValue(input, input.rela[k], FALSE, v)
  PROVE  RelocationInv'
<1>1. /\ TypeOK /\ input \in Inputs /\ Control /\ FailsOnlyForCause
      /\ idx' = idx + 1 /\ UNCHANGED <<input, pc, sealed, bound>>
  BY DEF RelocationInv, NextRela
<1>2. idx \in Nat /\ input.rela_count \in Nat /\ Len(input.rela) \in Nat
  BY <1>1, InputFacts DEF TypeOK
<1>3. RelaDone = k - 1 /\ RelaDone' = k
  BY <1>1, <1>2 DEF RelaDone
<1>4. PltDone' = PltDone
  BY <1>1 DEF PltDone
<1>5. slots' \in [Slots -> Value] /\ RelaProgress' /\ PltProgress'
  BY <1>1, <1>3, <1>4, RelaStep DEF Underway
<1>6. ran' \in Seq({"resolver", "init_fn", "init_array"}) /\ RanShape'
  BY <1>1, ResolverStep
<1>7. TypeOK'
  BY <1>1, <1>2, <1>5, <1>6 DEF TypeOK
<1>8. Control'
  BY <1>1, <1>2 DEF Control
<1>9. FailsOnlyForCause'
  BY <1>1 DEF FailsOnlyForCause
<1> QED
  BY <1>1, <1>5, <1>6, <1>7, <1>8, <1>9 DEF RelocationInv, Progress

LEMMA PltKeeps ==
  ASSUME RelocationInv, NEW k \in 1 .. Len(input.plt), NEW v \in Value,
         pc \in {"pltrel", "pltrel_lazy"}, k = idx,
         Write(input.plt[k], v), NextRela,
         NEW more \in {<<>>, <<"resolver">>}, ran' = ran \o more,
         FinalValue(input, input.plt[k], TRUE, v)
  PROVE  RelocationInv'
<1>1. /\ TypeOK /\ input \in Inputs /\ Control /\ FailsOnlyForCause
      /\ idx' = idx + 1 /\ UNCHANGED <<input, pc, sealed, bound>>
  BY DEF RelocationInv, NextRela
<1>2. idx \in Nat /\ Len(input.plt) \in Nat
  BY <1>1, InputFacts DEF TypeOK
<1>3. PltDone = k - 1 /\ PltDone' = k
  BY <1>1, <1>2 DEF PltDone
<1>4. RelaDone' = RelaDone
  BY <1>1 DEF RelaDone
<1>5. slots' \in [Slots -> Value] /\ RelaProgress' /\ PltProgress'
  BY <1>1, <1>3, <1>4, PltStep DEF Underway
<1>6. ran' \in Seq({"resolver", "init_fn", "init_array"}) /\ RanShape'
  BY <1>1, ResolverStep
<1>7. TypeOK'
  BY <1>1, <1>2, <1>5, <1>6 DEF TypeOK
<1>8. Control'
  BY <1>1, <1>2 DEF Control
<1>9. FailsOnlyForCause'
  BY <1>1 DEF FailsOnlyForCause
<1> QED
  BY <1>1, <1>5, <1>6, <1>7, <1>8, <1>9 DEF RelocationInv, Progress

LEMMA Unmoved ==
  ASSUME RelocationInv, pc \in Underway, UNCHANGED <<input, slots, ran>>,
         RelaDone' = RelaDone, PltDone' = PltDone, InitsCalled' = InitsCalled
  PROVE  Progress' /\ RanShape'
<1>1. RelaProgress /\ PltProgress /\ RanShape
  BY DEF RelocationInv, Progress
<1>2. RelaProgress'
  BY <1>1 DEF RelaProgress
<1>3. PltProgress'
  BY <1>1 DEF PltProgress
<1>4. RanShape'
  BY <1>1 DEF RanShape
<1> QED
  BY <1>2, <1>3, <1>4 DEF Progress

LEMMA FailKeeps ==
  ASSUME RelocationInv, pc \notin {"init", "done"}, NEW out \in {"err", "panic", "outside", "returned"},
         Stop(out),
         out = "err" => (input.relro /\ ~input.lazy) \/ (~input.deals /\ Refusable(input)),
         out = "panic" => ~Supported(input)
  PROVE  RelocationInv'
<1>1. /\ pc' = out /\ idx' = 1 /\ UNCHANGED <<input, slots, sealed, ran, bound>>
  BY DEF Stop, Go
<1>2. TypeOK /\ input \in Inputs /\ Control /\ RanShape
  BY DEF RelocationInv
<1>3. TypeOK'
  BY <1>1, <1>2 DEF TypeOK, Ended
<1>4. Control'
  BY <1>1, <1>2 DEF Control
<1>5. Progress'
  BY <1>1 DEF Progress, Underway
<1>6. InitsCalled = 0 /\ InitsCalled' = 0
  BY <1>1 DEF InitsCalled
<1>7. RanShape'
  BY <1>1, <1>2, <1>6 DEF RanShape
<1>8. FailsOnlyForCause'
  BY <1>1 DEF FailsOnlyForCause
<1> QED
  BY <1>1, <1>2, <1>3, <1>4, <1>5, <1>7, <1>8 DEF RelocationInv

-----------------------------------------------------------------------------
(* When an entry of .rela.dyn is left to deal_unknown, and what is final   *)
(* for it when it is not.                                                  *)
LEMMA DynUnresolved ==
  ASSUME NEW in \in Inputs, NEW r \in Rela
  PROVE  /\ \/ r.r_type \in {"GOT", "SYMBOLIC"} /\ ~Found(in, r.r_sym) /\ ~Panics(in, r.r_sym)
            \/ r.r_type \in {"DTPOFF", "COPY"} /\ symdef(in, r.r_sym) = "none"
            \/ r.r_type \in {"JUMP_SLOT", "IRELATIVE", "OTHER"}
            => Unresolved(in, r, FALSE)
         /\ \/ r.r_type \in {"GOT", "SYMBOLIC"} /\ Found(in, r.r_sym)
            \/ r.r_type \in {"DTPOFF", "COPY"} /\ symdef(in, r.r_sym) \in Libs
            \/ r.r_type \in {"RELATIVE", "NONE"}
            => ~Unresolved(in, r, FALSE)
<1>1. r.r_sym \in Names
  BY DEF Rela
<1>2. /\ symdef(in, r.r_sym) = "none" => DefiningLib(in, r.r_sym) = "none"
      /\ symdef(in, r.r_sym) \in Libs => DefiningLib(in, r.r_sym) # "none"
  BY <1>1, SymdefFacts, SymbolsAssumption
<1>3. /\ Found(in, r.r_sym) => Definer(in, r.r_sym) # "none"
      /\ ~Found(in, r.r_sym) /\ ~Panics(in, r.r_sym) => Definer(in, r.r_sym) = "none"
  BY SymbolWanted
<1> QED
  BY <1>2, <1>3 DEF Unresolved, PltTypes

LEMMA PltUnresolved ==
  ASSUME NEW in \in Inputs, NEW r \in Rela
  PROVE  /\ \/ r.r_type \notin {"JUMP_SLOT", "IRELATIVE"}
            \/ r.r_type = "JUMP_SLOT" /\ ~in.lazy /\ ~Found(in, r.r_sym) /\ ~Panics(in, r.r_sym)
            => Unresolved(in, r, TRUE)
         /\ \/ r.r_type = "IRELATIVE"
            \/ r.r_type = "JUMP_SLOT" /\ (in.lazy \/ Found(in, r.r_sym))
            => ~Unresolved(in, r, TRUE)
<1>1. /\ Found(in, r.r_sym) => Definer(in, r.r_sym) # "none"
      /\ ~Found(in, r.r_sym) /\ ~Panics(in, r.r_sym) => Definer(in, r.r_sym) = "none"
  BY SymbolWanted
<1> QED
  BY <1>1 DEF Unresolved, PltTypes

LEMMA WantedByType ==
  ASSUME NEW in \in Inputs, NEW r \in Rela
  PROVE  /\ r.r_type = "RELATIVE" => Based(r.r_addend) \in Wanted(in, r)
         /\ r.r_type \in {"GOT", "JUMP_SLOT"} /\ Found(in, r.r_sym) =>
              Symbol(in, r.r_sym) \in Wanted(in, r)
         /\ r.r_type = "SYMBOLIC" /\ r.r_addend = 0 /\ Found(in, r.r_sym) =>
              Symbol(in, r.r_sym) \in Wanted(in, r)
         /\ r.r_type = "IRELATIVE" => Resolved(Self, r.r_sym) \in Wanted(in, r)
         /\ r.r_type = "DTPOFF" /\ symdef(in, r.r_sym) \in Libs =>
              TlsOffset(symdef(in, r.r_sym), r.r_sym, r.r_addend) \in Wanted(in, r)
         /\ r.r_type = "NONE" => Orig \in Wanted(in, r)
<1>1. r.r_sym \in Names
  BY DEF Rela
<1>2. symdef(in, r.r_sym) \in Libs => DefiningLib(in, r.r_sym) = symdef(in, r.r_sym)
  BY <1>1, SymdefFacts, SymbolsAssumption
<1>3. Found(in, r.r_sym) => Symbol(in, r.r_sym) = WantedSymbol(in, r, 0)
  BY SymbolWanted
<1>5. /\ r.r_type = "RELATIVE"  => Wanted(in, r) = {Based(r.r_addend)}
      /\ r.r_type = "GOT"       => Wanted(in, r) = {WantedSymbol(in, r, 0)}
      /\ r.r_type = "SYMBOLIC"  => Wanted(in, r) = {WantedSymbol(in, r, r.r_addend)}
      /\ r.r_type = "JUMP_SLOT" => Wanted(in, r) = {WantedSymbol(in, r, 0)}
      /\ r.r_type = "IRELATIVE" => Wanted(in, r) = {Resolved(Self, r.r_sym)}
      /\ r.r_type = "DTPOFF" =>
           Wanted(in, r) = {TlsOffset(DefiningLib(in, r.r_sym), r.r_sym, r.r_addend)}
      /\ r.r_type = "NONE" => Wanted(in, r) = {Orig}
  BY DEF Wanted
<1> QED
  BY <1>2, <1>3, <1>5

LEMMA DynEntry ==
  ASSUME RelocationInv, AtDynrel
  PROVE  /\ pc = "dynrel" /\ input \in Inputs
         /\ input.rela_count + idx \in 1 .. Len(input.rela)
         /\ dyn_rela = input.rela[input.rela_count + idx] /\ dyn_rela \in Rela
         /\ dyn_rela.r_sym \in Names /\ dyn_rela.r_addend \in Addends
         /\ dyn_rela.r_type \in RelTypes
<1>1. pc = "dynrel" /\ input \in Inputs /\ idx \in Nat \ {0} /\ idx <= Len(dynrel(input))
  BY DEF RelocationInv, AtDynrel, TypeOK
<1>2. input.rela_count \in Nat /\ Len(input.rela) \in Nat
  BY <1>1, InputFacts
<1>3. idx \in 1 .. Len(input.rela) - input.rela_count
  BY <1>1, <1>2, TablesSplit
<1>4. input.rela_count + idx \in 1 .. Len(input.rela)
  BY <1>2, <1>3
<1>5. dyn_rela = input.rela[input.rela_count + idx]
  BY <1>1, <1>3, TablesSplit DEF dyn_rela
<1>6. dyn_rela \in Rela
  BY <1>1, <1>4, <1>5, InputFacts
<1> QED
  BY <1>1, <1>4, <1>5, <1>6 DEF Rela

(* An entry of .rela.dyn that is given its final value. *)
LEMMA DynKeeps ==
  ASSUME RelocationInv, AtDynrel, NEW v \in Value, Write(dyn_rela, v), NextRela,
         NEW more \in {<<>>, <<"resolver">>}, ran' = ran \o more,
         ~Deviates(input, dyn_rela) => FinalValue(input, dyn_rela, FALSE, v)
  PROVE  RelocationInv'
<1> DEFINE k == input.rela_count + idx
<1>1. pc = "dynrel" /\ k \in 1 .. Len(input.rela) /\ dyn_rela = input.rela[k]
  BY DynEntry
<1> QED
  BY <1>1, RelaKeeps

LEMMA NoCall == ran \in Seq({"resolver", "init_fn", "init_array"}) => ran = ran \o <<>>
BY ConcatEmptySeq

LEMMA ResolverCallsOneOrNone ==
  ASSUME NEW in, NEW n PROVE ResolverCalls(in, n) \in {<<>>, <<"resolver">>}
BY DEF ResolverCalls

-----------------------------------------------------------------------------
(* One lemma per action. *)
LEMMA InitRelocation == Init => RelocationInv
<1> SUFFICES ASSUME Init PROVE RelocationInv
  OBVIOUS
<1>1. /\ input \in Inputs /\ pc = "start" /\ idx = 1 /\ slots = [s \in Slots |-> Orig]
      /\ sealed = FALSE /\ bound = FALSE /\ ran = <<>>
  BY DEF Init
<1>2. TypeOK
  <2>1. Orig \in Value
    BY DEF Value
  <2>2. slots \in [Slots -> Value]
    BY <1>1, <2>1
  <2>3. input \in Input
    BY <1>1, InputFacts
  <2>4. ran \in Seq({"resolver", "init_fn", "init_array"})
    BY <1>1
  <2>5. sealed \in BOOLEAN /\ bound \in BOOLEAN /\ pc = "start"
    BY <1>1, Zenon
  <2>6. idx \in Nat \ {0}
    BY <1>1
  <2> QED
    BY <2>2, <2>3, <2>4, <2>5, <2>6 DEF TypeOK
<1>3. Control
  BY <1>1 DEF Control
<1>4. RelaDone = 0 /\ PltDone = 0 /\ InitsCalled = 0
  BY <1>1 DEF RelaDone, PltDone, InitsCalled
<1>5. Progress
  <2>1. \A i \in 1 .. Len(input.rela) : input.rela[i].r_offset \in Slots
    BY <1>1, InputFacts DEF Rela
  <2>2. \A i \in 1 .. Len(input.plt) : input.plt[i].r_offset \in Slots
    BY <1>1, InputFacts DEF Rela
  <2> DEFINE n == Len(input.rela)
             p == Len(input.plt)
  <2>3. /\ \A i \in 1 .. n : ~(i <= RelaDone) /\ slots[input.rela[i].r_offset] = Orig
        /\ \A i \in 1 .. p : ~(i <= PltDone) /\ slots[input.plt[i].r_offset] = Orig
    <3> HIDE DEF n, p
    <3>1. /\ \A i \in 1 .. n : ~(i <= RelaDone)
          /\ \A i \in 1 .. p : ~(i <= PltDone)
      BY <1>4
    <3> QED
      BY <1>1, <2>1, <2>2, <3>1 DEF n, p
  <2>4. RelaProgress
    BY <2>3, Zenon DEF RelaProgress
  <2>5. PltProgress
    BY <2>3, Zenon DEF PltProgress
  <2> QED
    BY <2>4, <2>5 DEF Progress
<1>6. RanShape
  <2>1. Len(input.inits) \in Nat
    BY <1>1, InputFacts, LenProperties DEF Input
  <2>2. Len(ran) = 0
    BY <1>1
  <2>3. 0 \in 0 .. Len(ran) /\ Len(ran) - 0 = InitsCalled /\ InitsCalled <= Len(input.inits)
    BY <1>4, <2>1, <2>2
  <2>4. /\ \A i \in 1 .. 0 : ran[i] = "resolver"
        /\ \A i \in 1 .. InitsCalled : ran[0 + i] = input.inits[i]
    BY <1>4
  <2> QED
    BY <2>3, <2>4, Zenon DEF RanShape
<1>7. FailsOnlyForCause
  BY <1>1 DEF FailsOnlyForCause
<1> QED
  BY <1>1, <1>2, <1>3, <1>5, <1>6, <1>7 DEF RelocationInv

LEMMA RelocateKeeps == ASSUME RelocationInv, Relocate PROVE RelocationInv'
<1>1. pc = "start" /\ pc' \in {"returned", "relative"} /\ idx' = 1
      /\ UNCHANGED <<input, slots, sealed, ran, bound>>
  BY DEF Relocate, Go
<1>2. CASE pc' = "returned"
  BY <1>1, <1>2, FailKeeps DEF Stop, Go
<1>3. CASE pc' = "relative"
  <2>1. TypeOK /\ input \in Inputs /\ Control /\ idx \in Nat
    BY DEF RelocationInv, TypeOK
  <2>2. TypeOK' /\ FailsOnlyForCause'
    BY <1>1, <1>3, <2>1 DEF TypeOK, FailsOnlyForCause
  <2>3. input.rela_count \in Nat
    BY <2>1, InputFacts
  <2>4. Control'
    BY <1>1, <1>3, <2>1, <2>3 DEF Control
  <2>5. RelaDone' = RelaDone /\ PltDone' = PltDone /\ InitsCalled' = InitsCalled
    BY <1>1, <1>3 DEF RelaDone, PltDone, InitsCalled
  <2>6. Progress' /\ RanShape'
    BY <1>1, <2>5, Unmoved DEF Underway
  <2> QED
    BY <1>1, <2>1, <2>2, <2>4, <2>6 DEF RelocationInv
<1> QED
  BY <1>1, <1>2, <1>3

LEMMA RelocateRelativeKeeps == ASSUME RelocationInv, RelocateRelative PROVE RelocationInv'
<1> DEFINE r == input.rela[idx]
<1>1. /\ pc = "relative" /\ idx <= Len(relative(input)) /\ NextRela /\ UNCHANGED ran
      /\ Write(relative(input)[idx], Based(relative(input)[idx].r_addend))
  BY DEF RelocateRelative
<1>2. TypeOK /\ input \in Inputs /\ idx \in Nat \ {0}
  BY DEF RelocationInv, TypeOK
<1>3. input.rela_count \in 0 .. Len(input.rela) /\ Len(input.rela) \in Nat
  BY <1>2, InputFacts
<1>4. idx \in 1 .. input.rela_count /\ idx \in 1 .. Len(input.rela) /\ relative(input)[idx] = r
  BY <1>1, <1>2, <1>3, TablesSplit
<1>5. r \in Rela /\ r.r_type = "RELATIVE" /\ r.r_addend \in Addends
  BY <1>2, <1>4, InputFacts DEF Rela, Sane
<1>6. Based(r.r_addend) \in Value
  BY <1>5 DEF Value
<1>7. FinalValue(input, r, FALSE, Based(r.r_addend))
  BY <1>2, <1>5, DynUnresolved, WantedByType DEF FinalValue
<1>8. ran' = ran \o <<>>
  BY <1>1, <1>2, NoCall DEF TypeOK
<1>9. Write(input.rela[idx], Based(r.r_addend)) /\ idx <= input.rela_count
  BY <1>1, <1>3, <1>4
<1> QED
  BY <1>1, <1>4, <1>6, <1>7, <1>8, <1>9, RelaKeeps

LEMMA RelativeDoneKeeps == ASSUME RelocationInv, RelativeDone PROVE RelocationInv'
<1>1. /\ pc = "relative" /\ idx > Len(relative(input)) /\ pc' = "dynrel" /\ idx' = 1
      /\ UNCHANGED <<input, slots, sealed, ran, bound>>
  BY DEF RelativeDone, LoopEnd, Go
<1>2. TypeOK /\ input \in Inputs /\ Control /\ idx \in Nat
  BY DEF RelocationInv, TypeOK
<1>3. input.rela_count \in 0 .. Len(input.rela) /\ Len(input.rela) \in Nat
  BY <1>2, InputFacts
<1>4. idx = input.rela_count + 1
  BY <1>1, <1>2, <1>3, TablesSplit DEF Control
<1>5. TypeOK' /\ FailsOnlyForCause'
  BY <1>1, <1>2 DEF TypeOK, FailsOnlyForCause
<1>6. Control'
  BY <1>1, <1>2, <1>3 DEF Control
<1>7. RelaDone' = RelaDone /\ PltDone' = PltDone /\ InitsCalled' = InitsCalled
  BY <1>1, <1>3, <1>4 DEF RelaDone, PltDone, InitsCalled
<1>8. Progress' /\ RanShape'
  BY <1>1, <1>7, Unmoved DEF Underway
<1> QED
  BY <1>1, <1>2, <1>5, <1>6, <1>8 DEF RelocationInv

LEMMA DynSymbolKeeps == ASSUME RelocationInv, DynSymbol PROVE RelocationInv'
<1>1. /\ AtDynrel /\ dyn_rela.r_type \in {"GOT", "SYMBOLIC"} /\ Found(input, dyn_rela.r_sym)
      /\ Write(dyn_rela, Symbol(input, dyn_rela.r_sym)) /\ NextRela
      /\ ran' = ran \o ResolverCalls(input, dyn_rela.r_sym)
  BY DEF DynSymbol
<1>2. input \in Inputs /\ dyn_rela \in Rela
  BY <1>1, DynEntry
<1>3. Symbol(input, dyn_rela.r_sym) \in Value
  BY <1>1, <1>2, SymbolWanted
<1>4. ~Deviates(input, dyn_rela) => FinalValue(input, dyn_rela, FALSE, Symbol(input, dyn_rela.r_sym))
  BY <1>1, <1>2, DynUnresolved, WantedByType DEF FinalValue, Deviates
<1> QED
  BY <1>1, <1>3, <1>4, ResolverCallsOneOrNone, DynKeeps

LEMMA DynTlsKeeps == ASSUME RelocationInv, DynTls PROVE RelocationInv'
<1> DEFINE v == TlsOffset(symdef(input, dyn_rela.r_sym), dyn_rela.r_sym, dyn_rela.r_addend)
<1>1. /\ AtDynrel /\ dyn_rela.r_type = "DTPOFF" /\ symdef(input, dyn_rela.r_sym) \in Libs
      /\ Write(dyn_rela, v) /\ NextRela /\ UNCHANGED ran
  BY DEF DynTls
<1>2. /\ input \in Inputs /\ dyn_rela \in Rela
      /\ dyn_rela.r_sym \in Names /\ dyn_rela.r_addend \in Addends
  BY <1>1, DynEntry
<1>3. v \in Value
  BY <1>1, <1>2 DEF Value
<1>4. symdef(input, dyn_rela.r_sym) # "none"
  BY <1>1, SymbolsAssumption
<1>5. FinalValue(input, dyn_rela, FALSE, v)
  BY <1>1, <1>2, <1>4, DynUnresolved, WantedByType DEF FinalValue
<1>6. ran' = ran \o <<>>
  BY <1>1, NoCall DEF RelocationInv, TypeOK
<1> QED
  BY <1>1, <1>3, <1>5, <1>6, DynKeeps

LEMMA DynCopyKeeps == ASSUME RelocationInv, DynCopy PROVE RelocationInv'
<1> DEFINE v == CopyOf(Self, dyn_rela.r_sym)
<1>1. /\ AtDynrel /\ dyn_rela.r_type = "COPY" /\ symdef(input, dyn_rela.r_sym) \in Libs
      /\ Write(dyn_rela, v) /\ NextRela /\ UNCHANGED ran
  BY DEF DynCopy
<1>2. input \in Inputs /\ dyn_rela \in Rela /\ dyn_rela.r_sym \in Names
  BY <1>1, DynEntry
<1>3. v \in Value
  BY <1>2, SymbolsAssumption DEF Value
<1>4. ~Unresolved(input, dyn_rela, FALSE)
  BY <1>1, <1>2, DynUnresolved
<1>5. ~Deviates(input, dyn_rela) => FinalValue(input, dyn_rela, FALSE, v)
  BY <1>1, <1>4 DEF FinalValue, Deviates
<1>6. ran' = ran \o <<>>
  BY <1>1, NoCall DEF RelocationInv, TypeOK
<1> QED
  BY <1>1, <1>3, <1>5, <1>6, DynKeeps

LEMMA DynCopyOutsideKeeps == ASSUME RelocationInv, DynCopyOutside PROVE RelocationInv'
BY DynEntry, FailKeeps DEF DynCopyOutside

LEMMA DynPanicsKeeps == ASSUME RelocationInv, DynPanics PROVE RelocationInv'
<1> DEFINE k == input.rela_count + idx
<1>1. /\ AtDynrel /\ Stop("panic")
      /\ \/ dyn_rela.r_type \in {"GOT", "SYMBOLIC"} /\ Panics(input, dyn_rela.r_sym)
         \/ /\ dyn_rela.r_type \in {"DTPOFF", "COPY"}
            /\ symdef(input, dyn_rela.r_sym) \in {"null", "panic"}
  BY DEF DynPanics
<1>2. /\ pc = "dynrel" /\ input \in Inputs /\ k \in 1 .. Len(input.rela)
      /\ dyn_rela = input.rela[k] /\ dyn_rela.r_sym \in Names /\ dyn_rela \in Rela
  BY <1>1, DynEntry
<1>4. k \in DOMAIN input.rela
  BY <1>2, InputFacts, LenProperties
<1> HIDE DEF k
<1>5. CASE dyn_rela.r_type \in {"GOT", "SYMBOLIC"}
  <2>1. ~Readable(input, input.rela[k])
    BY <1>1, <1>2, <1>5, SymbolWanted
  <2> QED
    BY <1>1, <1>2, <1>4, <1>5, <2>1, FailKeeps DEF Supported
<1>6. CASE dyn_rela.r_type \in {"DTPOFF", "COPY"} /\ symdef(input, dyn_rela.r_sym) = "null"
  <2>1. DefiningLib(input, input.rela[k].r_sym) = "null"
    BY <1>2, <1>6, SymdefFacts
  <2> QED
    BY <1>1, <1>2, <1>4, <1>6, <2>1, FailKeeps DEF Supported
<1>7. CASE dyn_rela.r_type \in {"DTPOFF", "COPY"} /\ symdef(input, dyn_rela.r_sym) = "panic"
  <2>1. ~Readable(input, input.rela[k])
    BY <1>2, <1>7, SymdefFacts DEF Readable
  <2> QED
    BY <1>1, <1>2, <1>4, <1>7, <2>1, FailKeeps DEF Supported
<1> QED
  BY <1>1, <1>5, <1>6, <1>7

LEMMA DynRelativeKeeps == ASSUME RelocationInv, DynRelative PROVE RelocationInv'
<1> DEFINE v == Based(dyn_rela.r_addend)
<1>1. /\ AtDynrel /\ dyn_rela.r_type = "RELATIVE"
      /\ Write(dyn_rela, v) /\ NextRela /\ UNCHANGED ran
  BY DEF DynRelative
<1>2. input \in Inputs /\ dyn_rela \in Rela /\ dyn_rela.r_addend \in Addends
  BY <1>1, DynEntry
<1>3. v \in Value
  BY <1>2 DEF Value
<1>4. FinalValue(input, dyn_rela, FALSE, v)
  BY <1>1, <1>2, DynUnresolved, WantedByType DEF FinalValue
<1>5. ran' = ran \o <<>>
  BY <1>1, NoCall DEF RelocationInv, TypeOK
<1> QED
  BY <1>1, <1>3, <1>4, <1>5, DynKeeps

(* A NONE entry leaves a word that no other entry has touched. *)
LEMMA DynNoneKeeps == ASSUME RelocationInv, DynNone PROVE RelocationInv'
<1> DEFINE k == input.rela_count + idx
<1>1. AtDynrel /\ dyn_rela.r_type = "NONE" /\ NextRela /\ UNCHANGED <<slots, ran>>
  BY DEF DynNone
<1>2. /\ pc = "dynrel" /\ input \in Inputs /\ dyn_rela \in Rela
      /\ k \in 1 .. Len(input.rela) /\ dyn_rela = input.rela[k]
  BY <1>1, DynEntry
<1>3. idx \in Nat /\ input.rela_count \in Nat /\ slots \in [Slots -> Value]
  BY <1>2, InputFacts DEF RelocationInv, TypeOK
<1>4. ~(k <= RelaDone)
  BY <1>2, <1>3 DEF RelaDone
<1>5. slots[dyn_rela.r_offset] = Orig
  BY <1>2, <1>4 DEF RelocationInv, Progress, Underway, RelaProgress
<1>6. Write(dyn_rela, Orig)
  BY <1>1, <1>3, <1>5 DEF Write
<1>7. FinalValue(input, dyn_rela, FALSE, Orig)
  BY <1>1, <1>2, DynUnresolved, WantedByType DEF FinalValue
<1>8. ran' = ran \o <<>> /\ Orig \in Value
  BY <1>1, NoCall DEF RelocationInv, TypeOK, Value
<1> QED
  BY <1>1, <1>6, <1>7, <1>8, DynKeeps

LEMMA DynDealtKeeps == ASSUME RelocationInv, DynDealt PROVE RelocationInv'
<1>1. AtDynrel /\ DynLeftOver /\ Write(dyn_rela, Dealt) /\ NextRela /\ UNCHANGED ran
  BY DEF DynDealt
<1>2. input \in Inputs /\ dyn_rela \in Rela
  BY <1>1, DynEntry
<1>3. FinalValue(input, dyn_rela, FALSE, Dealt)
  BY <1>1, <1>2, DynUnresolved DEF FinalValue, DynLeftOver
<1>4. ran' = ran \o <<>> /\ Dealt \in Value
  BY <1>1, NoCall DEF RelocationInv, TypeOK, Value
<1> QED
  BY <1>1, <1>3, <1>4, DynKeeps

LEMMA DynRefusedKeeps == ASSUME RelocationInv, DynRefused PROVE RelocationInv'
<1> DEFINE k == input.rela_count + idx
<1>1. AtDynrel /\ DynLeftOver /\ ~input.deals /\ Stop(reloc_error(dyn_rela))
  BY DEF DynRefused
<1>2. /\ pc = "dynrel" /\ input \in Inputs /\ k \in 1 .. Len(input.rela)
      /\ dyn_rela = input.rela[k] /\ dyn_rela \in Rela
  BY <1>1, DynEntry
<1>3. Unresolved(input, input.rela[k], FALSE)
  BY <1>1, <1>2, DynUnresolved DEF DynLeftOver
<1>4. k \in DOMAIN input.rela
  BY <1>2, InputFacts, LenProperties
<1>5. Refusable(input)
  BY <1>3, <1>4 DEF Refusable
<1>6. CASE dyn_rela.r_sym \in Broken
  <2>1. ~Readable(input, input.rela[k]) /\ input.rela[k].r_type \notin {"RELATIVE", "NONE"}
    BY <1>1, <1>2, <1>6 DEF Readable, DynLeftOver
  <2>2. ~Supported(input)
    BY <1>4, <2>1 DEF Supported
  <2> QED
    BY <1>1, <1>2, <1>6, <2>2, FailKeeps DEF reloc_error
<1>7. CASE dyn_rela.r_sym \notin Broken
  BY <1>1, <1>2, <1>5, <1>7, FailKeeps DEF reloc_error
<1> QED
  BY <1>6, <1>7

LEMMA DynrelDoneKeeps == ASSUME RelocationInv, DynrelDone PROVE RelocationInv'
<1>1. /\ pc = "dynrel" /\ idx > Len(dynrel(input)) /\ idx' = 1
      /\ pc' = IF input.lazy THEN "got" ELSE "pltrel"
      /\ UNCHANGED <<input, slots, sealed, ran, bound>>
  BY DEF DynrelDone, LoopEnd, Go
<1>2. TypeOK /\ input \in Inputs /\ Control /\ idx \in Nat
  BY DEF RelocationInv, TypeOK
<1>3. input.rela_count \in 0 .. Len(input.rela) /\ Len(input.rela) \in Nat /\ Len(input.plt) \in Nat
  BY <1>2, InputFacts
<1>4. input.rela_count + idx = Len(input.rela) + 1
  <2>1. Len(dynrel(input)) = Len(input.rela) - input.rela_count
    BY <1>2, TablesSplit
  <2>2. input.rela_count + idx <= Len(input.rela) + 1
    BY <1>1, <1>2 DEF Control
  <2> QED
    BY <1>1, <1>2, <1>3, <2>1, <2>2
<1>5. pc' \in {"got", "pltrel"}
  BY <1>1
<1>6. TypeOK' /\ FailsOnlyForCause'
  BY <1>1, <1>2, <1>5 DEF TypeOK, FailsOnlyForCause
<1>7. Control'
  BY <1>1, <1>2, <1>3 DEF Control
<1>8. RelaDone' = RelaDone
  BY <1>1, <1>2, <1>3, <1>4, <1>5 DEF RelaDone
<1>9. PltDone' = PltDone /\ InitsCalled' = InitsCalled
  BY <1>1, <1>5 DEF PltDone, InitsCalled
<1>10. Progress' /\ RanShape'
  BY <1>1, <1>8, <1>9, Unmoved DEF Underway
<1> QED
  BY <1>1, <1>2, <1>6, <1>7, <1>10 DEF RelocationInv

LEMMA PltEntry ==
  ASSUME RelocationInv, NEW l \in {"pltrel", "pltrel_lazy"}, AtPltrel(l)
  PROVE  /\ pc = l /\ input \in Inputs /\ idx \in 1 .. Len(input.plt)
         /\ plt_rela = input.plt[idx] /\ plt_rela \in Rela /\ plt_rela.r_sym \in Names
         /\ (l = "pltrel") <=> ~input.lazy
<1>1. /\ pc = l /\ input \in Inputs /\ idx \in Nat \ {0} /\ idx <= Len(input.plt) /\ Control
  BY DEF RelocationInv, AtPltrel, TypeOK, pltrel
<1>2. Len(input.plt) \in Nat
  BY <1>1, InputFacts
<1>3. idx \in 1 .. Len(input.plt)
  BY <1>1, <1>2
<1>4. plt_rela = input.plt[idx]
  BY DEF plt_rela, pltrel
<1>5. plt_rela \in Rela
  BY <1>1, <1>3, <1>4, InputFacts
<1>6. (l = "pltrel") <=> ~input.lazy
  BY <1>1 DEF Control
<1> QED
  BY <1>1, <1>3, <1>4, <1>5, <1>6 DEF Rela

LEMMA PltSymbolKeeps == ASSUME RelocationInv, PltSymbol PROVE RelocationInv'
<1> DEFINE v == Symbol(input, plt_rela.r_sym)
<1>1. /\ AtPltrel("pltrel") /\ plt_rela.r_type = "JUMP_SLOT" /\ Found(input, plt_rela.r_sym)
      /\ Write(plt_rela, v) /\ NextRela
      /\ ran' = ran \o ResolverCalls(input, plt_rela.r_sym)
  BY DEF PltSymbol
<1>2. /\ pc = "pltrel" /\ input \in Inputs /\ idx \in 1 .. Len(input.plt) /\ ~input.lazy
      /\ plt_rela = input.plt[idx] /\ plt_rela \in Rela
  BY <1>1, PltEntry
<1>3. v \in Value
  BY <1>1, <1>2, SymbolWanted
<1>4. FinalValue(input, plt_rela, TRUE, v)
  BY <1>1, <1>2, PltUnresolved, WantedByType DEF FinalValue
<1> QED
  BY <1>1, <1>2, <1>3, <1>4, ResolverCallsOneOrNone, PltKeeps

LEMMA PltIfuncKeeps ==
  ASSUME RelocationInv, NEW l \in {"pltrel", "pltrel_lazy"}, PltIfunc(l) PROVE RelocationInv'
<1> DEFINE v == Resolved(Self, plt_rela.r_sym)
<1>1. /\ AtPltrel(l) /\ plt_rela.r_type = "IRELATIVE" /\ Write(plt_rela, v) /\ NextRela
      /\ ran' = Append(ran, "resolver")
  BY DEF PltIfunc
<1>2. /\ pc = l /\ input \in Inputs /\ idx \in 1 .. Len(input.plt)
      /\ plt_rela = input.plt[idx] /\ plt_rela \in Rela /\ plt_rela.r_sym \in Names
  BY <1>1, PltEntry
<1>3. v \in Value
  BY <1>2, SymbolsAssumption DEF Value
<1>4. FinalValue(input, plt_rela, TRUE, v)
  BY <1>1, <1>2, PltUnresolved, WantedByType DEF FinalValue
<1>5. ran \in Seq({"resolver", "init_fn", "init_array"})
  BY DEF RelocationInv, TypeOK
<1>6. ran' = ran \o <<"resolver">>
  BY <1>1, <1>5, AppendIsConcat
<1> QED
  BY <1>1, <1>2, <1>3, <1>4, <1>6, PltKeeps

LEMMA PltDealtKeeps == ASSUME RelocationInv, PltDealt PROVE RelocationInv'
<1>1. AtPltrel("pltrel") /\ PltLeftOver /\ Write(plt_rela, Dealt) /\ NextRela /\ UNCHANGED ran
  BY DEF PltDealt
<1>2. /\ pc = "pltrel" /\ input \in Inputs /\ idx \in 1 .. Len(input.plt) /\ ~input.lazy
      /\ plt_rela = input.plt[idx] /\ plt_rela \in Rela
  BY <1>1, PltEntry
<1>3. FinalValue(input, plt_rela, TRUE, Dealt)
  BY <1>1, <1>2, PltUnresolved DEF FinalValue, PltLeftOver
<1>4. ran' = ran \o <<>> /\ Dealt \in Value
  BY <1>1, NoCall DEF RelocationInv, TypeOK, Value
<1> QED
  BY <1>1, <1>2, <1>3, <1>4, PltKeeps

LEMMA PltPanicsKeeps == ASSUME RelocationInv, PltPanics PROVE RelocationInv'
<1>1. /\ AtPltrel("pltrel") /\ plt_rela.r_type = "JUMP_SLOT" /\ Panics(input, plt_rela.r_sym)
      /\ Stop("panic")
  BY DEF PltPanics
<1>2. /\ pc = "pltrel" /\ input \in Inputs /\ idx \in 1 .. Len(input.plt) /\ ~input.lazy
      /\ plt_rela = input.plt[idx] /\ plt_rela \in Rela
  BY <1>1, PltEntry
<1>3. ~Readable(input, input.plt[idx])
  BY <1>1, <1>2, SymbolWanted
<1>4. idx \in DOMAIN input.plt
  BY <1>2, InputFacts, LenProperties
<1>5. ~Supported(input)
  BY <1>1, <1>2, <1>3, <1>4 DEF Supported
<1> QED
  BY <1>1, <1>2, <1>5, FailKeeps

LEMMA PltRefusedKeeps == ASSUME RelocationInv, PltRefused PROVE RelocationInv'
<1>1. AtPltrel("pltrel") /\ PltLeftOver /\ ~input.deals /\ Stop(reloc_error(plt_rela))
  BY DEF PltRefused
<1>2. /\ pc = "pltrel" /\ input \in Inputs /\ idx \in 1 .. Len(input.plt) /\ ~input.lazy
      /\ plt_rela = input.plt[idx] /\ plt_rela \in Rela
  BY <1>1, PltEntry
<1>3. Unresolved(input, input.plt[idx], TRUE)
  BY <1>1, <1>2, PltUnresolved DEF PltLeftOver
<1>4. idx \in DOMAIN input.plt
  BY <1>2, InputFacts, LenProperties
<1>5. Refusable(input)
  BY <1>2, <1>3, <1>4 DEF Refusable
<1>6. CASE plt_rela.r_sym \in Broken
  <2>1. ~Readable(input, input.plt[idx]) /\ input.plt[idx].r_type # "IRELATIVE"
    BY <1>1, <1>2, <1>6 DEF Readable, PltLeftOver
  <2>2. ~Supported(input)
    BY <1>2, <1>4, <2>1 DEF Supported
  <2> QED
    BY <1>1, <1>2, <1>6, <2>2, FailKeeps DEF reloc_error
<1>7. CASE plt_rela.r_sym \notin Broken
  BY <1>1, <1>2, <1>5, <1>7, FailKeeps DEF reloc_error
<1> QED
  BY <1>6, <1>7

LEMMA PltrelDoneKeeps == ASSUME RelocationInv, PltrelDone PROVE RelocationInv'
<1>1. /\ pc = "pltrel" /\ idx > Len(input.plt) /\ idx' = 1
      /\ pc' = IF input.relro THEN "relro" ELSE "init"
      /\ UNCHANGED <<input, slots, sealed, ran, bound>>
  BY DEF PltrelDone, LoopEnd, Go, pltrel
<1>2. TypeOK /\ input \in Inputs /\ Control /\ idx \in Nat
  BY DEF RelocationInv, TypeOK
<1>3. Len(input.plt) \in Nat
  BY <1>2, InputFacts
<1>4. idx = Len(input.plt) + 1
  BY <1>1, <1>2, <1>3 DEF Control
<1>5. pc' \in {"relro", "init"}
  BY <1>1
<1>6. TypeOK' /\ FailsOnlyForCause'
  BY <1>1, <1>2, <1>5 DEF TypeOK, FailsOnlyForCause
<1>7. Control'
  BY <1>1, <1>2, <1>3 DEF Control
<1>8. PltDone' = PltDone
  BY <1>1, <1>3, <1>4, <1>5 DEF PltDone
<1>9. RelaDone' = RelaDone /\ InitsCalled' = InitsCalled
  BY <1>1, <1>5 DEF RelaDone, InitsCalled
<1>10. Progress' /\ RanShape'
  BY <1>1, <1>8, <1>9, Unmoved DEF Underway
<1> QED
  BY <1>1, <1>2, <1>6, <1>7, <1>10 DEF RelocationInv

LEMMA RelroKeeps == ASSUME RelocationInv, Relro PROVE RelocationInv'
<1>1. /\ pc = "relro" /\ idx' = 1 /\ pc' = "init" /\ sealed' = TRUE
      /\ UNCHANGED <<input, slots, ran, bound>>
  BY DEF Relro, Go
<1>2. TypeOK /\ input \in Inputs /\ Control
  BY DEF RelocationInv
<1>3. TypeOK' /\ FailsOnlyForCause'
  BY <1>1, <1>2 DEF TypeOK, FailsOnlyForCause
<1>4. Control'
  BY <1>1, <1>2 DEF Control
<1>5. RelaDone' = RelaDone /\ PltDone' = PltDone /\ InitsCalled' = InitsCalled
  BY <1>1 DEF RelaDone, PltDone, InitsCalled
<1>6. Progress' /\ RanShape'
  BY <1>1, <1>5, Unmoved DEF Underway
<1> QED
  BY <1>1, <1>2, <1>3, <1>4, <1>6 DEF RelocationInv

LEMMA RelroFailsKeeps == ASSUME RelocationInv, RelroFails PROVE RelocationInv'
BY FailKeeps DEF RelroFails, RelocationInv, Control

LEMMA GotUnwrapKeeps == ASSUME RelocationInv, GotUnwrap PROVE RelocationInv'
<1>1. /\ pc = "got" /\ idx' = 1 /\ pc' = "pltrel_lazy"
      /\ UNCHANGED <<input, slots, sealed, ran, bound>>
  BY DEF GotUnwrap, Stop, Go
<1>2. TypeOK /\ input \in Inputs /\ Control
  BY DEF RelocationInv
<1>3. TypeOK' /\ FailsOnlyForCause'
  BY <1>1, <1>2 DEF TypeOK, FailsOnlyForCause
<1>4. Len(input.plt) \in Nat
  BY <1>2, InputFacts
<1>5. Control'
  BY <1>1, <1>2, <1>4 DEF Control
<1>6. RelaDone' = RelaDone /\ PltDone' = PltDone /\ InitsCalled' = InitsCalled
  BY <1>1 DEF RelaDone, PltDone, InitsCalled
<1>7. Progress' /\ RanShape'
  BY <1>1, <1>6, Unmoved DEF Underway
<1> QED
  BY <1>1, <1>2, <1>3, <1>5, <1>7 DEF RelocationInv

LEMMA GotUnwrapPanicsKeeps == ASSUME RelocationInv, GotUnwrapPanics PROVE RelocationInv'
BY FailKeeps DEF GotUnwrapPanics, RelocationInv, Control, Supported

(* The base is added to a lazy slot exactly once: no earlier entry has     *)
(* written it.                                                             *)
LEMMA LazyStubKeeps == ASSUME RelocationInv, LazyStub PROVE RelocationInv'
<1>1. /\ AtPltrel("pltrel_lazy") /\ plt_rela.r_type = "JUMP_SLOT"
      /\ Write(plt_rela, IF slots[plt_rela.r_offset] = Orig THEN Stub ELSE Junk)
      /\ NextRela /\ UNCHANGED ran
  BY DEF LazyStub
<1>2. /\ pc = "pltrel_lazy" /\ input \in Inputs /\ idx \in 1 .. Len(input.plt) /\ input.lazy
      /\ plt_rela = input.plt[idx] /\ plt_rela \in Rela
  BY <1>1, PltEntry
<1>3. ~(idx <= PltDone)
  BY <1>2, InputFacts DEF PltDone
<1>4. slots[plt_rela.r_offset] = Orig
  BY <1>2, <1>3 DEF RelocationInv, Progress, Underway, PltProgress
<1>5. Write(plt_rela, Stub)
  BY <1>1, <1>4
<1>6. FinalValue(input, plt_rela, TRUE, Stub)
  BY <1>1, <1>2, PltUnresolved DEF FinalValue
<1>7. ran' = ran \o <<>> /\ Stub \in Value
  BY <1>1, NoCall DEF RelocationInv, TypeOK, Value
<1> QED
  BY <1>1, <1>2, <1>5, <1>6, <1>7, PltKeeps

LEMMA LazyUnreachableKeeps == ASSUME RelocationInv, LazyUnreachable PROVE RelocationInv'
<1>1. /\ AtPltrel("pltrel_lazy") /\ plt_rela.r_type \notin {"JUMP_SLOT", "IRELATIVE"}
      /\ Stop("panic")
  BY DEF LazyUnreachable
<1>2. /\ pc = "pltrel_lazy" /\ input \in Inputs /\ idx \in 1 .. Len(input.plt) /\ input.lazy
      /\ plt_rela = input.plt[idx]
  BY <1>1, PltEntry
<1>3. idx \in DOMAIN input.plt
  BY <1>2, InputFacts, LenProperties
<1>4. ~Supported(input)
  BY <1>1, <1>2, <1>3 DEF Supported, PltTypes
<1> QED
  BY <1>1, <1>2, <1>4, FailKeeps

LEMMA SetLazyScopeKeeps == ASSUME RelocationInv, SetLazyScope PROVE RelocationInv'
<1>1. /\ pc = "pltrel_lazy" /\ idx > Len(input.plt) /\ idx' = 1 /\ pc' = "init" /\ bound' = TRUE
      /\ input.plt = <<>> \/ input.local \/ input.global
      /\ UNCHANGED <<input, slots, sealed, ran>>
  BY DEF SetLazyScope, ScopeThere, Go, pltrel
<1>2. TypeOK /\ input \in Inputs /\ Control /\ idx \in Nat
  BY DEF RelocationInv, TypeOK
<1>3. Len(input.plt) \in Nat
  BY <1>2, InputFacts
<1>4. idx = Len(input.plt) + 1
  BY <1>1, <1>2, <1>3 DEF Control
<1>5. TypeOK' /\ FailsOnlyForCause'
  BY <1>1, <1>2 DEF TypeOK, FailsOnlyForCause
<1>6. Control'
  BY <1>1, <1>2 DEF Control
<1>7. RelaDone' = RelaDone /\ PltDone' = PltDone /\ InitsCalled' = InitsCalled
  BY <1>1, <1>3, <1>4 DEF RelaDone, PltDone, InitsCalled
<1>8. Progress' /\ RanShape'
  BY <1>1, <1>7, Unmoved DEF Underway
<1> QED
  BY <1>1, <1>2, <1>5, <1>6, <1>8 DEF RelocationInv

LEMMA NoScopePanicsKeeps == ASSUME RelocationInv, NoScopePanics PROVE RelocationInv'
BY FailKeeps DEF NoScopePanics, RelocationInv, Control, Supported, ScopeThere

LEMMA CallInitKeeps == ASSUME RelocationInv, CallInit PROVE RelocationInv'
<1> DEFINE Code == {"resolver", "init_fn", "init_array"}
<1>1. /\ pc = "init" /\ idx <= Len(input.inits) /\ ran' = Append(ran, input.inits[idx])
      /\ idx' = idx + 1 /\ UNCHANGED <<input, pc, slots, sealed, bound>>
  BY DEF CallInit
<1>2. /\ TypeOK /\ input \in Inputs /\ Control /\ RanShape /\ FailsOnlyForCause /\ Progress
      /\ idx \in Nat \ {0} /\ ran \in Seq(Code)
  BY DEF RelocationInv, TypeOK
<1>3. input.inits \in Seq({"init_fn", "init_array"}) /\ Len(input.inits) \in Nat
  BY <1>2, InputFacts, LenProperties DEF Input
<1>4. idx \in 1 .. Len(input.inits) /\ input.inits[idx] \in Code
  BY <1>1, <1>2, <1>3, ElementOfSeq
<1>5. /\ ran' \in Seq(Code) /\ Len(ran') = Len(ran) + 1 /\ Len(ran) \in Nat
      /\ \A i \in 1 .. Len(ran) : ran'[i] = ran[i]
      /\ ran'[Len(ran) + 1] = input.inits[idx]
  BY <1>1, <1>2, <1>4, AppendProperties, LenProperties
<1>6. TypeOK'
  BY <1>1, <1>2, <1>5 DEF TypeOK
<1>7. Control' /\ FailsOnlyForCause'
  BY <1>1, <1>2 DEF Control, FailsOnlyForCause
<1>8. RelaDone' = RelaDone /\ PltDone' = PltDone
  BY <1>1 DEF RelaDone, PltDone
<1>9. Progress'
  <2>1. RelaProgress /\ PltProgress
    BY <1>1, <1>2 DEF Progress, Underway
  <2>2. RelaProgress'
    BY <1>1, <1>8, <2>1 DEF RelaProgress
  <2>3. PltProgress'
    BY <1>1, <1>8, <2>1 DEF PltProgress
  <2> QED
    BY <2>2, <2>3 DEF Progress
<1>10. RanShape'
  <2>1. InitsCalled = idx - 1 /\ InitsCalled' = idx
    BY <1>1, <1>2 DEF InitsCalled
  <2>2. PICK k \in 0 .. Len(ran) :
          /\ \A i \in 1 .. k : ran[i] = "resolver"
          /\ Len(ran) - k = idx - 1
          /\ \A i \in 1 .. idx - 1 : ran[k + i] = input.inits[i]
    BY <1>2, <2>1 DEF RanShape
  <2>3. k \in 0 .. Len(ran') /\ Len(ran') - k = idx
    BY <1>2, <1>5, <2>2
  <2>4. \A i \in 1 .. k : ran'[i] = "resolver"
    <3>1. \A i \in 1 .. k : i \in 1 .. Len(ran)
      BY <1>5
    <3> QED
      BY <1>5, <2>2, <3>1
  <2>5. \A i \in 1 .. idx : ran'[k + i] = input.inits[i]
    <3> SUFFICES ASSUME NEW i \in 1 .. idx PROVE ran'[k + i] = input.inits[i]
      OBVIOUS
    <3>1. CASE i = idx
      <4>1. k + i = Len(ran) + 1
        BY <1>2, <1>5, <2>2, <3>1
      <4> QED
        BY <1>5, <3>1, <4>1
    <3>2. CASE i # idx
      <4>1. i \in 1 .. idx - 1 /\ k + i \in 1 .. Len(ran)
        BY <1>2, <1>5, <2>2, <3>2
      <4> QED
        BY <1>5, <2>2, <4>1
    <3> QED
      BY <3>1, <3>2
  <2>6. idx <= Len(input.inits')
    BY <1>1
  <2> QED
    BY <1>1, <2>1, <2>3, <2>4, <2>5, <2>6 DEF RanShape
<1> QED
  BY <1>1, <1>2, <1>6, <1>7, <1>9, <1>10 DEF RelocationInv

LEMMA SetInitKeeps == ASSUME RelocationInv, SetInit PROVE RelocationInv'
<1>1. /\ pc = "init" /\ idx > Len(input.inits) /\ idx' = 1 /\ pc' = "done"
      /\ UNCHANGED <<input, slots, sealed, ran, bound>>
  BY DEF SetInit, LoopEnd, Go
<1>2. TypeOK /\ input \in Inputs /\ Control /\ RanShape /\ idx \in Nat
  BY DEF RelocationInv, TypeOK
<1>3. Len(input.inits) \in Nat
  BY <1>2, InputFacts, LenProperties DEF Input
<1>4. InitsCalled = idx - 1
  BY <1>1 DEF InitsCalled
<1>5. InitsCalled <= Len(input.inits)
  BY <1>2 DEF RanShape
<1>6. InitsCalled' = InitsCalled
  BY <1>1, <1>2, <1>3, <1>4, <1>5 DEF InitsCalled
<1>7. TypeOK' /\ FailsOnlyForCause'
  BY <1>1, <1>2 DEF TypeOK, Ended, FailsOnlyForCause
<1>8. Control'
  BY <1>1, <1>2 DEF Control
<1>9. RelaDone' = RelaDone /\ PltDone' = PltDone
  BY <1>1 DEF RelaDone, PltDone
<1>10. Progress' /\ RanShape'
  BY <1>1, <1>6, <1>9, Unmoved DEF Underway
<1> QED
  BY <1>1, <1>2, <1>7, <1>8, <1>10 DEF RelocationInv

-----------------------------------------------------------------------------
LEMMA NextKeepsRelocation == RelocationInv /\ [Next]_vars => RelocationInv'
<1> SUFFICES ASSUME RelocationInv, [Next]_vars PROVE RelocationInv'
  OBVIOUS
<1>1. CASE UNCHANGED vars
  <2>1. UNCHANGED <<input, pc, idx, slots, sealed, ran, bound>>
    BY <1>1 DEF vars
  <2>2. RelaDone' = RelaDone /\ PltDone' = PltDone /\ InitsCalled' = InitsCalled
    BY <2>1 DEF RelaDone, PltDone, InitsCalled
  <2>3. TypeOK' /\ Control' /\ FailsOnlyForCause'
    BY <2>1 DEF RelocationInv, TypeOK, Control, FailsOnlyForCause
  <2>4. Progress'
    <3>1. CASE pc \in Underway
      BY <2>1, <2>2, <3>1, Unmoved
    <3>2. CASE pc \notin Underway
      BY <2>1, <3>2 DEF Progress
    <3> QED
      BY <3>1, <3>2
  <2>5. RanShape'
    BY <2>1, <2>2 DEF RelocationInv, RanShape
  <2> QED
    BY <2>1, <2>3, <2>4, <2>5 DEF RelocationInv
<1>2. CASE Relocate \/ RelocateRelative \/ RelativeDone
  BY <1>2, RelocateKeeps, RelocateRelativeKeeps, RelativeDoneKeeps
<1>3. CASE DynSymbol \/ DynTls \/ DynCopy \/ DynCopyOutside \/ DynPanics
  BY <1>3, DynSymbolKeeps, DynTlsKeeps, DynCopyKeeps, DynCopyOutsideKeeps, DynPanicsKeeps
<1>4. CASE DynRelative \/ DynNone \/ DynDealt \/ DynRefused \/ DynrelDone
  BY <1>4, DynRelativeKeeps, DynNoneKeeps, DynDealtKeeps, DynRefusedKeeps, DynrelDoneKeeps
<1>5. CASE PltSymbol \/ PltPanics \/ PltIfunc("pltrel") \/ PltDealt \/ PltRefused \/ PltrelDone
  BY <1>5, PltSymbolKeeps, PltPanicsKeeps, PltIfuncKeeps, PltDealtKeeps, PltRefusedKeeps, PltrelDoneKeeps
<1>6. CASE Relro \/ RelroFails
  BY <1>6, RelroKeeps, RelroFailsKeeps
<1>7. CASE GotUnwrap \/ GotUnwrapPanics \/ LazyStub \/ PltIfunc("pltrel_lazy")
  BY <1>7, GotUnwrapKeeps, GotUnwrapPanicsKeeps, LazyStubKeeps, PltIfuncKeeps
<1>8. CASE LazyUnreachable \/ SetLazyScope \/ NoScopePanics
  BY <1>8, LazyUnreachableKeeps, SetLazyScopeKeeps, NoScopePanicsKeeps
<1>9. CASE CallInit \/ SetInit
  BY <1>9, CallInitKeeps, SetInitKeeps
<1> QED
  BY <1>1, <1>2, <1>3, <1>4, <1>5, <1>6, <1>7, <1>8, <1>9 DEF Next

(* The walk of relocate_impl over the tables is without a gap, whatever    *)
(* the object and the arguments.                                           *)
THEOREM RelocationInvariant == Spec => []RelocationInv
BY InitRelocation, NextKeepsRelocation, PTL DEF Spec

(* The variables of relocate_impl keep their types: what a relocation      *)
(* writes is a value the ABI knows.                                        *)
THEOREM RelocationTypes == Spec => []TypeOK
<1>1. RelocationInv => TypeOK
  BY DEF RelocationInv
<1> QED
  BY <1>1, RelocationInvariant, PTL

(* Before the first initialiser is called every word that .rela.dyn or     *)
(* .rela.plt names has its final value, for tables of any length, also     *)
(* when DT_RELASZ counts both.                                             *)
THEOREM WordsFinalBeforeInit == Spec => []RelocatedBeforeInit
<1>1. RelocationInv => RelocatedBeforeInit
  <2> SUFFICES ASSUME RelocationInv, pc \in {"init", "done"}
               PROVE  /\ \A i \in DOMAIN input.rela : ~Deviates(input, input.rela[i]) =>
                            SlotFinal(input, input.rela[i], FALSE)
                      /\ \A i \in DOMAIN input.plt : SlotFinal(input, input.plt[i], TRUE)
    BY DEF RelocatedBeforeInit
  <2>1. input \in Inputs /\ RelaProgress /\ PltProgress
    BY DEF RelocationInv, Progress, Underway
  <2>2. RelaDone = Len(input.rela) /\ PltDone = Len(input.plt)
    BY DEF RelaDone, PltDone
  <2>3. /\ Len(input.rela) \in Nat /\ Len(input.plt) \in Nat
        /\ DOMAIN input.rela = 1 .. Len(input.rela) /\ DOMAIN input.plt = 1 .. Len(input.plt)
    BY <2>1, InputFacts, LenProperties
  <2>4. \A r, p : SlotFinal(input, r, p) <=> FinalValue(input, r, p, slots[r.r_offset])
    BY Zenon DEF SlotFinal, FinalValue
  <2>5. \A i \in DOMAIN input.rela : ~Deviates(input, input.rela[i]) =>
          FinalValue(input, input.rela[i], FALSE, slots[input.rela[i].r_offset])
    <3>1. \A i \in DOMAIN input.rela : i \in 1 .. Len(input.rela) /\ i <= RelaDone
      BY <2>2, <2>3
    <3> QED
      BY <2>1, <3>1, Zenon DEF RelaProgress
  <2>6. \A i \in DOMAIN input.plt :
          FinalValue(input, input.plt[i], TRUE, slots[input.plt[i].r_offset])
    <3>1. \A i \in DOMAIN input.plt : i \in 1 .. Len(input.plt) /\ i <= PltDone
      BY <2>2, <2>3
    <3> QED
      BY <2>1, <3>1, Zenon DEF PltProgress
  <2> QED
    BY <2>4, <2>5, <2>6, Zenon
<1> QED
  BY <1>1, RelocationInvariant, PTL

(* relocate returns an error, or panics, only for the causes its caller    *)
(* can see in the object and the arguments.                                *)
THEOREM FailureHasCause == Spec => []FailsOnlyForCause
<1>1. RelocationInv => FailsOnlyForCause
  BY DEF RelocationInv
<1> QED
  BY <1>1, RelocationInvariant, PTL

(* call_init's functions run in order, behind the last resolver, in an     *)
(* object that is sealed or has the scope its lazy slots need.             *)
THEOREM InitialisersInOrder == Spec => []InitOrder
<1>1. RelocationInv => InitOrder
  <2> SUFFICES ASSUME RelocationInv PROVE InitOrder
    OBVIOUS
  <2>1. PICK k \in 0 .. Len(ran) :
          /\ \A i \in 1 .. k : ran[i] = "resolver"
          /\ Len(ran) - k = InitsCalled
          /\ InitsCalled <= Len(input.inits)
          /\ \A i \in 1 .. InitsCalled : ran[k + i] = input.inits[i]
    BY DEF RelocationInv, RanShape
  <2>2. pc \notin {"init", "done"} => InitsCalled = 0
    BY DEF InitsCalled
  <2>3. pc = "done" => InitsCalled = Len(input.inits)
    BY DEF InitsCalled
  <2>4. pc \in {"init", "done"} =>
          /\ input.relro /\ ~input.lazy => sealed
          /\ input.lazy /\ input.plt # <<>> => bound /\ (input.local \/ input.global)
    BY DEF RelocationInv, Control
  <2>5. InitsCalled > 0 => pc \in {"init", "done"}
    BY <2>2
  <2> QED
    BY <2>1, <2>3, <2>4, <2>5 DEF InitOrder
<1> QED
  BY <1>1, RelocationInvariant, PTL

(* Behind ELFRelro::relro no relocation writes a word of the object. *)
THEOREM NothingWrittenWhenSealed == Spec => SealedMeansFinal
<1>1. RelocationInv /\ [Next]_vars => [sealed => UNCHANGED slots]_vars
  <2> SUFFICES ASSUME RelocationInv, Next, sealed PROVE UNCHANGED slots
    BY DEF vars
  <2>1. pc \in {"init", "done"}
    BY DEF RelocationInv, Control
  <2>2. CallInit \/ SetInit
    BY <2>1 DEF Next, Relocate, RelocateRelative, RelativeDone, LoopEnd, AtDynrel, DynSymbol,
                DynTls, DynCopy, DynCopyOutside, DynPanics, DynRelative, DynNone,
                DynDealt, DynRefused, DynrelDone, AtPltrel, PltSymbol, PltPanics, PltIfunc, PltDealt,
                PltRefused, PltrelDone, Relro, RelroFails, GotUnwrap, GotUnwrapPanics,
                LazyStub, LazyUnreachable, SetLazyScope, NoScopePanics
  <2> QED
    BY <2>2 DEF CallInit, SetInit, LoopEnd
<1> QED
  BY <1>1, RelocationInvariant, PTL DEF Spec, SealedMeansFinal
=============================================================================
