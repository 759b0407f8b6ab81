------------------------- MODULE SymbolTableProofs -------------------------
(***************************************************************************)
(* Proofs about module SymbolTable: what ElfDynamic::new makes of any      *)
(* dynamic section, and what lookups and count_syms make of any GNU hash   *)
(* table and any version tables.                                           *)
(***************************************************************************)
EXTENDS SymbolTable, FiniteSetTheorems, SequenceTheorems, NaturalsInduction, WellFoundedInduction, TLAPS

(***************************************************************************)
(* The inductive invariant, first part: the parser of the dynamic section. *)
(* Seen(t) is where tag t stands among the entries read so far.            *)
(***************************************************************************)
OptTags == NonZeroTags \cup {"GNU_HASH"}

Seen(t) == {i \in 1 .. pos - 1 : image.dynamic[i].tag = t}

Typed ==
  /\ image \in Images
  /\ build \in [debug : BOOLEAN, version : BOOLEAN]
  /\ pos \in Nat
  /\ acc \in [opt : [OptTags -> SUBSET Nat], val : [PlainTags -> Nat], needed : Seq(Nat)]

(* Where the parser is, and what it has passed. *)
Position ==
  /\ 1 <= pos /\ pos <= Len(image.dynamic) + 1
  /\ \A j \in 1 .. pos - 1 : image.dynamic[j].tag # "NULL"
  /\ pc = "finish" \/ dyn # NoDyn => pos <= Len(image.dynamic) /\ image.dynamic[pos].tag = "NULL"

(* What has been kept of the entries passed. *)
Accumulated ==
  /\ \A t \in OptTags : acc.opt[t] = {v \in LastValue(Seen(t)) : v # 0 \/ t = "GNU_HASH"}
  /\ \A t \in PlainTags : /\ Seen(t) = {} => acc.val[t] = 0
                          /\ \A v \in LastValue(Seen(t)) : acc.val[t] = v
  /\ Len(acc.needed) = Cardinality(Seen("NEEDED"))
  /\ \A i \in Seen("NEEDED") :
       acc.needed[Cardinality(Seen("NEEDED") \cap 1 .. i)] = image.dynamic[i].val

(* Which stages have an ElfDynamic. *)
Stage ==
  /\ pc \in {"dynamic", "finish", "parsed", "idle", "walk", "count"} \cup {"err", "panic", "abort", "wild"}
  /\ pc \in {"dynamic", "finish"} => dyn = NoDyn
  /\ pc \in {"parsed", "idle", "walk", "count"} => dyn # NoDyn

DynInv == Typed /\ Position /\ Accumulated /\ Stage /\ DynamicParsed

(***************************************************************************)
(* Second part: the symbol table that New builds of an image linkers make, *)
(* the lookup and the count under way.  Trusted is when the answer of a    *)
(* lookup is promised.                                                     *)
(***************************************************************************)
LibVersions == [at |-> Base + Place["versym"], ids |-> image.ids, slots |-> Slots(image.defs, image.needs)]

TabRight ==
  Made /\ pc \in {"idle", "walk", "count"} =>
    /\ tab.symtab = Base + Place["sym"] /\ tab.strtab = Base + Place["str"]
    /\ tab.version = IF build.version /\ Final("VERSYM") # {} THEN {LibVersions} ELSE {}

QueryRight ==
  /\ query.version = {} \/ \E w \in query.version : query.version = {w}
  /\ ~build.version => query.version = {}
  /\ pc = "walk" => query.name \in Names
  /\ pc \in {"dynamic", "finish", "parsed", "walk", "count"} => answer = Nothing

Trusted == HashRight /\ (garbage = {} \/ \A w \in query.version : ~w.hidden)

(* The walk is in the bucket of the name and has passed no candidate. *)
WalkRight ==
  Made /\ pc = "walk" =>
    /\ cur \in Hashed /\ BucketOf(cur) = GnuHash[query.name] % hash.nbucket
    /\ Trusted => \A j \in Hashed : j < cur => j \notin Candidates

(* The count is in the last bucket that has a symbol. *)
CountRight ==
  Made /\ pc = "count" =>
    cur \in Hashed /\ \A j \in Hashed : j > cur => BucketOf(j) = BucketOf(cur)

TableInv == /\ TabRight /\ QueryRight /\ WalkRight /\ CountRight
            /\ LookupMatches /\ StaysInTables /\ PanicsExplained /\ CountExact

SymbolInv == DynInv /\ TableInv

-----------------------------------------------------------------------------
(* An entry of the dynamic section, as ImagesAssumption has it. *)
LEMMA EntryType ==
  ASSUME NEW im \in Images
  PROVE  /\ im.dynamic \in Seq([tag : Tags, val : Nat])
         /\ Len(im.dynamic) \in Nat
         /\ DOMAIN im.dynamic = 1 .. Len(im.dynamic)
         /\ \A i \in 1 .. Len(im.dynamic) : im.dynamic[i].tag \in Tags /\ im.dynamic[i].val \in Nat
         /\ im.len \in Nat
<1>1. im.dynamic \in Seq([tag : Tags, val : Nat]) /\ im.len \in Nat
  BY ImagesAssumption
<1>2. \A i \in 1 .. Len(im.dynamic) : im.dynamic[i] \in [tag : Tags, val : Nat]
  BY <1>1, ElementOfSeq
<1> QED
  BY <1>1, <1>2

(* Once the terminating entry is reached, what was seen is what is listed. *)
LEMMA SeenIsListed ==
  ASSUME Typed, Position, pos <= Len(image.dynamic), image.dynamic[pos].tag = "NULL", NEW t \in Tags, t # "NULL"
  PROVE  Listed(t) = Seen(t)
<1>1. DOMAIN image.dynamic = 1 .. Len(image.dynamic) /\ Len(image.dynamic) \in Nat
  BY EntryType DEF Typed
<1>2. ASSUME NEW i \in Listed(t) PROVE i \in Seen(t)
  <2>1. i \in 1 .. Len(image.dynamic) /\ image.dynamic[i].tag = t /\ \A j \in 1 .. i : image.dynamic[j].tag # "NULL"
    BY <1>1 DEF Listed
  <2>2. ~(pos \in 1 .. i)
    BY <2>1
  <2> QED
    BY <1>1, <2>1, <2>2 DEF Seen, Typed, Position
<1>3. ASSUME NEW i \in Seen(t) PROVE i \in Listed(t)
  BY <1>1 DEF Listed, Seen, Typed, Position
<1> QED
  BY <1>2, <1>3

(* A set of numbers that is not empty has a least. *)
LEMMA LeastNat ==
  ASSUME NEW S \in SUBSET Nat, S # {}
  PROVE  \E m \in S : \A n \in S : m <= n
<1> DEFINE R == {ss \in Nat \X Nat : ss[1] < ss[2]}
<1>1. IsWellFoundedOn(R, Nat)
  BY NatLessThanWellFounded DEF OpToRel
<1>2. PICK m \in S : \A n \in S : ~(<<n, m>> \in R)
  <2> HIDE DEF R
  <2> QED
    BY <1>1, WFMin
<1>3. \A n \in S : ~(n < m)
  <2> SUFFICES ASSUME NEW n \in S, n < m PROVE FALSE
    OBVIOUS
  <2>1. <<n, m>> \in Nat \X Nat /\ <<n, m>>[1] < <<n, m>>[2]
    OBVIOUS
  <2>2. <<n, m>> \in R
    BY <2>1, Zenon
  <2> HIDE DEF R
  <2> QED
    BY <1>2, <2>2
<1> QED
  BY <1>3

(* A bounded set of numbers has a greatest, and LastValue is a singleton.  *)
LEMMA Greatest ==
  ASSUME NEW S, NEW n \in Nat, S \subseteq 1 .. n, S # {}
  PROVE  \E m \in S : \A k \in S : k <= m
<1> DEFINE U == {b \in Nat : \A k \in S : k <= b}
<1>1. U \in SUBSET Nat /\ n \in U
  OBVIOUS
<1>2. PICK b \in U : \A c \in U : b <= c
  BY <1>1, LeastNat
<1>3. CASE b \in S
  BY <1>3
<1>4. CASE b \notin S
  <2>1. \A k \in S : k \in Nat /\ 1 <= k /\ k < b
    BY <1>4
  <2> PICK x \in S : TRUE
    OBVIOUS
  <2>2. b \in Nat /\ b - 1 \in Nat
    <3>1. b \in Nat
      OBVIOUS
    <3>2. x \in Nat /\ 1 <= x /\ x < b
      BY <2>1
    <3> HIDE DEF U
    <3> QED
      BY <3>1, <3>2
  <2>3. \A k \in S : k <= b - 1
    BY <2>1, <2>2
  <2>4. b - 1 \in U
    BY <2>2, <2>3
  <2> QED
    BY <1>2, <2>2, <2>4
<1> QED
  BY <1>3, <1>4

(* What reading one more entry adds to the tags seen. *)
LEMMA SeenStep ==
  ASSUME Typed, Position, pos <= Len(image.dynamic), pos' = pos + 1, image' = image, NEW t
  PROVE  /\ image.dynamic[pos].tag = t => /\ Seen(t)' = Seen(t) \cup {pos}
                                          /\ LastValue(Seen(t))' = {image.dynamic[pos].val}
         /\ image.dynamic[pos].tag # t => /\ Seen(t)' = Seen(t)
                                          /\ LastValue(Seen(t))' = LastValue(Seen(t))
         /\ Seen(t) \subseteq 1 .. pos - 1
<1> USE DEF Typed, Position
<1>1. Seen(t)' = {i \in 1 .. pos : image.dynamic[i].tag = t}
  BY DEF Seen
<1>2. Seen(t) \subseteq 1 .. pos - 1
  BY DEF Seen
<1>3. CASE image.dynamic[pos].tag = t
  <2>1. Seen(t)' = Seen(t) \cup {pos}
    BY <1>1, <1>3 DEF Seen
  <2>2. {k \in Seen(t)' : \A j \in Seen(t)' : j <= k} = {pos}
    BY <1>2, <2>1
  <2>3. LastValue(Seen(t))' = {image.dynamic[pos].val}
    BY <2>2 DEF LastValue
  <2> QED
    BY <1>2, <1>3, <2>1, <2>3
<1>4. CASE image.dynamic[pos].tag # t
  <2>1. Seen(t)' = Seen(t)
    BY <1>1, <1>4 DEF Seen
  <2>2. LastValue(Seen(t))' = LastValue(Seen(t))
    BY <2>1 DEF LastValue
  <2> QED
    BY <1>2, <1>4, <2>1, <2>2
<1> QED
  BY <1>3, <1>4

(* Append adds one element, at the end. *)
LEMMA AppendAt ==
  ASSUME NEW T, NEW s \in Seq(T), NEW x \in T
  PROVE  /\ Append(s, x) \in Seq(T) /\ Len(Append(s, x)) = Len(s) + 1
         /\ Append(s, x)[Len(s) + 1] = x
         /\ \A k \in 1 .. Len(s) : Append(s, x)[k] = s[k]
OBVIOUS

(* One more entry in the list of libraries: its place in the list is the   *)
(* number of DT_NEEDED up to it.                                           *)
LEMMA NeededStep ==
  ASSUME Typed, Position, Accumulated, pos <= Len(image.dynamic), pos' = pos + 1, image' = image,
         image.dynamic[pos].tag = "NEEDED", acc'.needed = Append(acc.needed, image.dynamic[pos].val)
  PROVE  /\ Len(acc'.needed) = Cardinality(Seen("NEEDED")')
         /\ \A i \in Seen("NEEDED")' :
              acc'.needed[Cardinality(Seen("NEEDED")' \cap 1 .. i)] = image.dynamic[i].val
<1> DEFINE S == Seen("NEEDED")
           n == acc.needed
           v == image.dynamic[pos].val
<1>1. Seen("NEEDED")' = S \cup {pos} /\ S \subseteq 1 .. pos - 1
  BY SeenStep
<1>2. pos \in Nat /\ n \in Seq(Nat) /\ v \in Nat
  BY EntryType DEF Typed, Position
<1>3. IsFiniteSet(S) /\ pos \notin S
  <2>1. IsFiniteSet(1 .. pos - 1)
    BY <1>2, FS_Interval
  <2> QED
    BY <1>1, <1>2, <2>1, FS_Subset
<1>4. Cardinality(S \cup {pos}) = Cardinality(S) + 1 /\ Cardinality(S) \in Nat
  BY <1>3, FS_AddElement, FS_CardinalityType
<1>5. Len(n) = Cardinality(S)
  BY DEF Accumulated
<1>6. ASSUME NEW i \in S \cup {pos}
      PROVE  Append(n, v)[Cardinality((S \cup {pos}) \cap 1 .. i)] = image.dynamic[i].val
  <2>1. CASE i = pos
    <3>1. (S \cup {pos}) \cap 1 .. i = S \cup {pos}
      BY <1>1, <1>2, <2>1 DEF Position
    <3>2. Append(n, v)[Len(n) + 1] = v
      BY <1>2, AppendAt
    <3>3. Cardinality((S \cup {pos}) \cap 1 .. i) = Len(n) + 1
      BY <1>4, <1>5, <3>1
    <3> QED
      BY <2>1, <3>2, <3>3
  <2>2. CASE i \in S
    <3>1. (S \cup {pos}) \cap 1 .. i = S \cap 1 .. i /\ i \in S \cap 1 .. i
      BY <1>1, <1>2, <2>2
    <3>2. IsFiniteSet(S \cap 1 .. i) /\ Cardinality(S \cap 1 .. i) <= Cardinality(S)
      <4>1. S \cap 1 .. i \subseteq S
        OBVIOUS
      <4> HIDE DEF S
      <4> QED
        BY <1>3, <4>1, FS_Subset
    <3>3. Cardinality(S \cap 1 .. i) \in Nat /\ Cardinality(S \cap 1 .. i) # 0
      <4> HIDE DEF S
      <4> QED
        BY <3>1, <3>2, FS_CardinalityType, FS_EmptySet
    <3>4. n[Cardinality(S \cap 1 .. i)] = image.dynamic[i].val
      BY <2>2 DEF Accumulated
    <3>5. Cardinality(S \cap 1 .. i) \in 1 .. Len(n)
      BY <1>4, <1>5, <3>2, <3>3
    <3>6. Append(n, v)[Cardinality(S \cap 1 .. i)] = n[Cardinality(S \cap 1 .. i)]
      BY <1>2, <3>5, AppendAt
    <3> QED
      BY <3>1, <3>4, <3>6
  <2> QED
    BY <2>1, <2>2
<1>7. Len(Append(n, v)) = Len(n) + 1
  BY <1>2, AppendAt
<1> QED
  BY <1>1, <1>4, <1>5, <1>6, <1>7

(* LastValue picks one of the places, if there is any. *)
LEMMA LastOf ==
  ASSUME Typed, Position, NEW t
  PROVE  /\ Seen(t) = {} => LastValue(Seen(t)) = {}
         /\ Seen(t) # {} => \E i \in Seen(t) : LastValue(Seen(t)) = {image.dynamic[i].val}
         /\ \A i \in Seen(t) : image.dynamic[i].tag = t /\ image.dynamic[i].val \in Nat
<1>1. pos - 1 \in Nat /\ Seen(t) \subseteq 1 .. pos - 1
  BY DEF Seen, Typed, Position
<1>2. Seen(t) = {} => LastValue(Seen(t)) = {}
  BY DEF LastValue
<1>3. ASSUME Seen(t) # {} PROVE \E i \in Seen(t) : LastValue(Seen(t)) = {image.dynamic[i].val}
  <2>1. PICK m \in Seen(t) : \A k \in Seen(t) : k <= m
    BY <1>1, <1>3, Greatest
  <2>2. {k \in Seen(t) : \A j \in Seen(t) : j <= k} = {m}
    BY <1>1, <2>1
  <2> QED
    BY <2>2 DEF LastValue
<1>4. \A i \in Seen(t) : i \in 1 .. Len(image.dynamic) /\ image.dynamic[i].tag = t
  BY EntryType DEF Seen, Typed, Position
<1> QED
  BY <1>2, <1>3, <1>4, EntryType DEF Typed

(* What is in an object's file never changes. *)
LEMMA EmittedKept ==
  ASSUME image' = image
  PROVE  /\ Emitted' = Emitted
         /\ \A t : Listed(t)' = Listed(t) /\ Final(t)' = Final(t)
<1>1. \A t : Listed(t)' = Listed(t)
  BY DEF Listed
<1>2. \A t : Final(t)' = Final(t)
  BY <1>1 DEF Final, LastValue
<1>3. \A t : Has(t)' = Has(t)
  BY <1>1 DEF Has
<1>4. Terminated' = Terminated
  BY DEF Terminated
<1> QED
  BY <1>1, <1>2, <1>3, <1>4 DEF Emitted

(* At the terminating entry of an emitted section, what was kept is what   *)
(* the section says.                                                       *)
LEMMA KeptIsFinal ==
  ASSUME Typed, Position, Accumulated, pos <= Len(image.dynamic), image.dynamic[pos].tag = "NULL"
  PROVE  /\ Emitted => \A t \in OptTags : acc.opt[t] = Final(t)
         /\ \A t \in OptTags : acc.opt[t] # {} => Final(t) # {}
         /\ \A t \in OptTags \cup PlainTags : Has(t) <=> Final(t) # {}
         /\ \A t \in PlainTags : IF Has(t) THEN Final(t) = {acc.val[t]} ELSE Final(t) = {} /\ acc.val[t] = 0
         /\ Listed("NEEDED") = Seen("NEEDED")
<1>1. \A t \in OptTags \cup PlainTags \cup {"NEEDED"} : t \in Tags /\ t # "NULL"
  BY DEF OptTags, PlainTags, Tags, NonZeroTags, AddressTags, SizeTags, NumberTags
<1>2. \A t \in OptTags \cup PlainTags \cup {"NEEDED"} : Listed(t) = Seen(t) /\ Final(t) = LastValue(Seen(t))
  BY <1>1, SeenIsListed DEF Final
<1>3. \A t \in OptTags \cup PlainTags : Has(t) <=> Final(t) # {}
  <2> SUFFICES ASSUME NEW t \in OptTags \cup PlainTags PROVE Has(t) <=> Final(t) # {}
    OBVIOUS
  <2>1. Listed(t) = Seen(t) /\ Final(t) = LastValue(Seen(t))
    BY <1>2
  <2>2. Seen(t) = {} <=> LastValue(Seen(t)) = {}
    BY LastOf
  <2> QED
    BY <2>1, <2>2 DEF Has
<1>4. ASSUME Emitted, NEW t \in OptTags PROVE acc.opt[t] = Final(t)
  <2>1. acc.opt[t] = {v \in LastValue(Seen(t)) : v # 0 \/ t = "GNU_HASH"}
    BY DEF Accumulated
  <2>2. t # "GNU_HASH" => \A v \in LastValue(Seen(t)) : v # 0
    <3>1. t # "GNU_HASH" => \A i \in Listed(t) : image.dynamic[i].val # 0
      BY <1>4 DEF Emitted, OptTags
    <3>2. \A v \in LastValue(Seen(t)) : \E i \in Seen(t) : v = image.dynamic[i].val
      BY DEF LastValue
    <3> QED
      BY <1>2, <3>1, <3>2
  <2> QED
    BY <1>2, <2>1, <2>2
<1>5. ASSUME NEW t \in PlainTags
      PROVE  IF Has(t) THEN Final(t) = {acc.val[t]} ELSE Final(t) = {} /\ acc.val[t] = 0
  <2>1. /\ Seen(t) = {} => acc.val[t] = 0
        /\ \A v \in LastValue(Seen(t)) : acc.val[t] = v
    BY DEF Accumulated
  <2> QED
    BY <1>2, <2>1, LastOf DEF Has
<1>6. \A t \in OptTags : acc.opt[t] # {} => Final(t) # {}
  BY <1>2 DEF Accumulated
<1> QED
  BY <1>2, <1>3, <1>4, <1>5, <1>6

-----------------------------------------------------------------------------
(* The steps of ElfDynamic::new. *)

(* What an entry does to the values kept, a zero included. *)
NonZero(tag, val) == {v \in {val} : v # 0 \/ tag = "GNU_HASH"}

Keep(a, tag, val) ==
  IF tag \in OptTags THEN [a EXCEPT !.opt[tag] = NonZero(tag, val)]
  ELSE IF tag \in PlainTags THEN [a EXCEPT !.val[tag] = val]
  ELSE IF tag = "NEEDED" THEN [a EXCEPT !.needed = Append(@, val)]
  ELSE a

Kept == [opt : [OptTags -> SUBSET Nat], val : [PlainTags -> Nat], needed : Seq(Nat)]

LEMMA KeepType ==
  ASSUME NEW a \in Kept, NEW tag, NEW val \in Nat
  PROVE  /\ Keep(a, tag, val) \in Kept
         /\ \A t \in OptTags : Keep(a, tag, val).opt[t] =
              IF t = tag THEN NonZero(tag, val) ELSE a.opt[t]
         /\ \A t \in PlainTags : Keep(a, tag, val).val[t] = IF t = tag THEN val ELSE a.val[t]
         /\ Keep(a, tag, val).needed = IF tag = "NEEDED" THEN Append(a.needed, val) ELSE a.needed
<1> DEFINE b == Keep(a, tag, val)
<1>1. /\ a = [opt |-> a.opt, val |-> a.val, needed |-> a.needed]
      /\ a.opt \in [OptTags -> SUBSET Nat] /\ a.val \in [PlainTags -> Nat] /\ a.needed \in Seq(Nat)
  BY DEF Kept
<1>2. "NEEDED" \notin OptTags \cup PlainTags /\ OptTags \cap PlainTags = {}
  BY DEF OptTags, PlainTags, NonZeroTags, AddressTags, SizeTags, NumberTags
<1>3. CASE tag \in OptTags
  <2> DEFINE o == [a.opt EXCEPT ![tag] = NonZero(tag, val)]
  <2>1. b = [a EXCEPT !.opt = o]
    BY <1>3 DEF Keep
  <2>2. o \in [OptTags -> SUBSET Nat]
    BY <1>1 DEF NonZero
  <2>3. \A t \in OptTags : o[t] = IF t = tag THEN NonZero(tag, val) ELSE a.opt[t]
    BY <1>1
  <2> HIDE DEF o, b
  <2>4. b \in Kept /\ b.opt = o /\ b.val = a.val /\ b.needed = a.needed
    BY <1>1, <2>1, <2>2 DEF Kept
  <2> QED
    BY <1>2, <1>3, <2>3, <2>4 DEF b
<1>4. CASE tag \in PlainTags
  <2> DEFINE o == [a.val EXCEPT ![tag] = val]
  <2>1. b = [a EXCEPT !.val = o]
    BY <1>2, <1>4 DEF Keep
  <2>2. o \in [PlainTags -> Nat]
    BY <1>1
  <2>3. \A t \in PlainTags : o[t] = IF t = tag THEN val ELSE a.val[t]
    BY <1>1
  <2> HIDE DEF o, b
  <2>4. b \in Kept /\ b.opt = a.opt /\ b.val = o /\ b.needed = a.needed
    BY <1>1, <2>1, <2>2 DEF Kept
  <2> QED
    BY <1>2, <1>4, <2>3, <2>4 DEF b
<1>5. CASE tag = "NEEDED"
  <2> DEFINE o == Append(a.needed, val)
  <2>1. b = [a EXCEPT !.needed = o]
    BY <1>2, <1>5 DEF Keep
  <2>2. o \in Seq(Nat)
    BY <1>1, AppendAt
  <2> HIDE DEF o, b
  <2>3. b \in Kept /\ b.opt = a.opt /\ b.val = a.val /\ b.needed = o
    BY <1>1, <2>1, <2>2 DEF Kept
  <2> QED
    BY <1>2, <1>5, <2>3 DEF o, b
<1>6. CASE tag \notin OptTags \cup PlainTags \cup {"NEEDED"}
  <2>1. b = a
    BY <1>6 DEF Keep
  <2> QED
    BY <1>6, <2>1
<1> QED
  BY <1>3, <1>4, <1>5, <1>6

(* Reading an entry: the value kept of its tag, or its place in the list.  *)
LEMMA ReadKeeps ==
  ASSUME DynInv, pc = "dynamic", Mapped, Here.tag # "NULL",
         image' = image, build' = build, dyn' = dyn, pc' = pc, pos' = pos + 1,
         acc' = Keep(acc, Here.tag, Here.val)
  PROVE  DynInv'
<1> DEFINE tag == Here.tag
           val == Here.val
<1>1. /\ Typed /\ Position /\ Accumulated /\ Stage /\ dyn = NoDyn
      /\ pos \in Nat /\ pos <= Len(image.dynamic)
      /\ tag = image.dynamic[pos].tag /\ val = image.dynamic[pos].val
      /\ tag \in Tags /\ val \in Nat /\ Len(image.dynamic) \in Nat
  BY EntryType DEF DynInv, Typed, Position, Stage, Here, Mapped
<1> HIDE DEF tag, val
<1>5. /\ acc' \in Kept
      /\ \A t \in OptTags : acc'.opt[t] = IF t = tag THEN NonZero(tag, val) ELSE acc.opt[t]
      /\ \A t \in PlainTags : acc'.val[t] = IF t = tag THEN val ELSE acc.val[t]
      /\ acc'.needed = IF tag = "NEEDED" THEN Append(acc.needed, val) ELSE acc.needed
  <2>1. acc \in Kept
    BY <1>1 DEF Typed, Kept
  <2>2. acc' = Keep(acc, tag, val)
    BY DEF tag, val
  <2>3. val \in Nat
    BY <1>1
  <2> QED
    BY <2>1, <2>2, <2>3, KeepType
<1>6. Typed'
  <2>1. image' \in Images /\ build' \in [debug : BOOLEAN, version : BOOLEAN] /\ pos' \in Nat
    BY <1>1 DEF Typed
  <2> QED
    BY <1>5, <2>1 DEF Typed, Kept
<1>7. Position'
  <2>1. \A j \in 1 .. pos : image.dynamic[j].tag # "NULL"
    BY <1>1 DEF Position, Here
  <2> QED
    BY <1>1, <2>1 DEF Position, DynInv
<1>8. Accumulated'
  <2>1. ASSUME NEW t \in OptTags
        PROVE  acc'.opt[t] = {v \in LastValue(Seen(t))' : v # 0 \/ t = "GNU_HASH"}
    <3>1. acc.opt[t] = {v \in LastValue(Seen(t)) : v # 0 \/ t = "GNU_HASH"}
      BY <1>1 DEF Accumulated
    <3>2. LastValue(Seen(t))' = IF tag = t THEN {val} ELSE LastValue(Seen(t))
      BY <1>1, SeenStep
    <3> QED
      BY <1>5, <3>1, <3>2 DEF NonZero
  <2>2. ASSUME NEW t \in PlainTags
        PROVE  /\ Seen(t)' = {} => acc'.val[t] = 0
               /\ \A v \in LastValue(Seen(t))' : acc'.val[t] = v
    <3>1. /\ Seen(t) = {} => acc.val[t] = 0
          /\ \A v \in LastValue(Seen(t)) : acc.val[t] = v
      BY <1>1 DEF Accumulated
    <3>2. /\ tag = t => Seen(t)' = Seen(t) \cup {pos} /\ LastValue(Seen(t))' = {val}
          /\ tag # t => Seen(t)' = Seen(t) /\ LastValue(Seen(t))' = LastValue(Seen(t))
      BY <1>1, SeenStep
    <3>3. acc'.val[t] = IF t = tag THEN val ELSE acc.val[t]
      BY <1>5
    <3>4. CASE t = tag
      BY <3>2, <3>3, <3>4
    <3>5. CASE t # tag
      BY <3>1, <3>2, <3>3, <3>5
    <3> QED
      BY <3>4, <3>5
  <2>3. /\ Len(acc'.needed) = Cardinality(Seen("NEEDED")')
        /\ \A i \in Seen("NEEDED")' :
             acc'.needed[Cardinality(Seen("NEEDED")' \cap 1 .. i)] = image.dynamic[i].val
    <3>1. CASE tag = "NEEDED"
      BY <1>1, <1>5, <3>1, NeededStep
    <3>2. CASE tag # "NEEDED"
      <4>1. Seen("NEEDED")' = Seen("NEEDED")
        BY <1>1, <3>2, SeenStep
      <4> QED
        BY <1>1, <1>5, <3>2, <4>1 DEF Accumulated
    <3> QED
      BY <3>1, <3>2
  <2> QED
    BY <2>1, <2>2, <2>3 DEF Accumulated
<1>9. Stage' /\ DynamicParsed'
  BY <1>1 DEF Stage, DynamicParsed, Failed, DynInv
<1> QED
  BY <1>6, <1>7, <1>8, <1>9 DEF DynInv

(* What was kept of what was seen is state of the parser alone. *)
LEMMA SameKept ==
  ASSUME Typed, Accumulated, UNCHANGED <<image, build, pos, acc>>
  PROVE  Typed' /\ Accumulated'
<1>1. image' = image /\ build' = build /\ pos' = pos /\ acc' = acc
  OBVIOUS
<1>2. \A t : Seen(t)' = Seen(t)
  BY <1>1 DEF Seen
<1>3. \A t : LastValue(Seen(t))' = LastValue(Seen(t))
  BY <1>1, <1>2 DEF LastValue
<1>4. Typed'
  BY <1>1 DEF Typed
<1>5. Accumulated'
  BY <1>1, <1>2, <1>3 DEF Accumulated
<1> QED
  BY <1>4, <1>5

(* Leaving the parser for a failure keeps all but the stage. *)
LEMMA FailKeeps ==
  ASSUME DynInv, pc \in {"dynamic", "finish"}, pc' \in {"err", "panic", "abort", "wild"},
         UNCHANGED <<image, build, pos, acc, dyn>>, ~Emitted
  PROVE  DynInv'
<1>1. Typed' /\ Accumulated'
  BY SameKept DEF DynInv
<1>2. dyn = NoDyn
  BY DEF DynInv, Stage
<1>3. Position' /\ Stage'
  BY <1>2 DEF DynInv, Position, Stage
<1>4. DynamicParsed'
  BY <1>2, EmittedKept DEF DynamicParsed
<1> QED
  BY <1>1, <1>3, <1>4 DEF DynInv

LEMMA ReadZeroKeeps ==
  ASSUME DynInv, ReadZero
  PROVE  DynInv'
<1>1. /\ pc = "dynamic" /\ Mapped /\ Here.tag \in NonZeroTags \cup {"NEEDED"} /\ Here.val = 0
      /\ image' = image /\ build' = build /\ dyn' = dyn
  BY DEF ReadZero, IsZero
<1>2. CASE build.debug
  <2>1. pc' = "abort" /\ pos' = pos /\ acc' = acc
    BY <1>2 DEF ReadZero
  <2>2. pos \in Listed(Here.tag)
    BY <1>1, EntryType DEF Listed, Here, Mapped, DynInv, Typed, Position, NonZeroTags, AddressTags, SizeTags, NumberTags
  <2>3. ~Emitted
    BY <1>1, <2>2 DEF Emitted, Here
  <2> QED
    BY <1>1, <2>1, <2>3, FailKeeps
<1>3. CASE ~build.debug
  <2>1. /\ pc' = pc /\ pos' = pos + 1
        /\ acc' = IF Here.tag = "NEEDED" THEN [acc EXCEPT !.needed = Append(@, 0)]
                  ELSE [acc EXCEPT !.opt[Here.tag] = {}]
    BY <1>3 DEF ReadZero
  <2>2. Here.tag \in OptTags \cup {"NEEDED"} /\ Here.tag # "GNU_HASH" /\ "NEEDED" \notin OptTags \cup PlainTags
    BY <1>1 DEF OptTags, PlainTags, NonZeroTags, AddressTags, SizeTags, NumberTags
  <2>3. NonZero(Here.tag, 0) = {}
    BY <2>2 DEF NonZero
  <2>4. acc' = Keep(acc, Here.tag, Here.val)
    BY <1>1, <2>1, <2>2, <2>3 DEF Keep
  <2>5. Here.tag # "NULL"
    BY <1>1 DEF NonZeroTags, AddressTags, SizeTags, NumberTags
  <2> QED
    BY <1>1, <2>1, <2>4, <2>5, ReadKeeps
<1> QED
  BY <1>2, <1>3

LEMMA ReadTagKeeps ==
  ASSUME DynInv, ReadTag
  PROVE  DynInv'
<1>1. /\ pc = "dynamic" /\ Mapped /\ Here.tag # "NULL" /\ ~IsZero
      /\ image' = image /\ build' = build /\ dyn' = dyn /\ pc' = pc /\ pos' = pos + 1
  BY DEF ReadTag
<1>2. DOMAIN acc.opt = OptTags
  BY DEF DynInv, Typed
<1>3. Here.tag \in OptTags => NonZero(Here.tag, Here.val) = {Here.val}
  BY <1>1 DEF IsZero, OptTags, NonZero
<1>4. acc' = Keep(acc, Here.tag, Here.val)
  BY <1>2, <1>3 DEF ReadTag, Keep
<1> QED
  BY <1>1, <1>4, ReadKeeps

LEMMA ReadEndKeeps ==
  ASSUME DynInv, ReadNull \/ ReadPastEnd
  PROVE  DynInv'
<1>1. pc = "dynamic" /\ UNCHANGED <<image, build, pos, acc, dyn>> /\ dyn = NoDyn
  BY DEF ReadNull, ReadPastEnd, DynInv, Stage
<1>2. CASE ReadNull
  <2>1. pc' = "finish" /\ pos <= Len(image.dynamic) /\ image.dynamic[pos].tag = "NULL"
    BY <1>2 DEF ReadNull, Mapped, Here
  <2>2. Typed' /\ Accumulated'
    BY <1>1, SameKept DEF DynInv
  <2>3. Position' /\ Stage'
    BY <1>1, <2>1 DEF DynInv, Position, Stage
  <2>4. DynamicParsed'
    BY <1>1, <2>1 DEF DynamicParsed, Failed
  <2> QED
    BY <2>2, <2>3, <2>4 DEF DynInv
<1>3. CASE ReadPastEnd
  <2>1. pc' = "wild" /\ pos > Len(image.dynamic)
    BY <1>3, EntryType DEF ReadPastEnd, Mapped, DynInv, Typed
  <2>2. \A j \in 1 .. Len(image.dynamic) : image.dynamic[j].tag # "NULL"
    BY <2>1, EntryType DEF DynInv, Typed, Position
  <2>3. ~Emitted
    BY <2>2, EntryType DEF Emitted, Terminated, DynInv, Typed
  <2> QED
    BY <1>1, <2>1, <2>3, FailKeeps
<1> QED
  BY <1>2, <1>3

(* An error or panic when the tables are put together. *)
LEMMA FinishFailsKeeps ==
  ASSUME DynInv, FinishErr \/ FinishPanic
  PROVE  DynInv'
<1>1. /\ pc = "finish" /\ UNCHANGED <<image, build, pos, acc, dyn>> /\ dyn = NoDyn
      /\ pc' \in {"err", "panic", "abort", "wild"}
  BY DEF FinishErr, FinishPanic, DynInv, Stage
<1>2. Typed /\ Position /\ Accumulated /\ pos <= Len(image.dynamic) /\ image.dynamic[pos].tag = "NULL"
  BY <1>1 DEF DynInv, Position
<1>3. SUFFICES ASSUME Emitted PROVE FALSE
  BY <1>1, FailKeeps
<1>4. /\ \A t \in OptTags : acc.opt[t] = Final(t)
      /\ \A t \in OptTags : Has(t) <=> Final(t) # {}
  BY <1>2, <1>3, KeptIsFinal
<1>5. DOMAIN SizeOf \cup {SizeOf[t] : t \in DOMAIN SizeOf} \subseteq OptTags
  BY DEF SizeOf, OptTags, NonZeroTags, AddressTags, SizeTags, NumberTags
<1>6. DOMAIN CountOf \cup {CountOf[t] : t \in DOMAIN CountOf} \cup {"INIT", "FINI", "GNU_HASH"} \subseteq OptTags
  BY DEF CountOf, OptTags, NonZeroTags, AddressTags, SizeTags, NumberTags
<1>7. acc.opt["GNU_HASH"] # {}
  BY <1>3, <1>4, <1>6 DEF Emitted
<1>8. ~SizeMissing
  BY <1>3, <1>4, <1>5 DEF SizeMissing, Emitted
<1>9. ~CountMissing
  BY <1>3, <1>4, <1>6 DEF CountMissing, Emitted
<1>10. ~OutOfImage
  <2>1. \A t \in OptTags : acc.opt[t] \in SUBSET Nat
    BY <1>2 DEF Typed
  <2>2. image.len \in Nat
    BY <1>2, EntryType DEF Typed
  <2>3. \A t \in DOMAIN SizeOf : \A off \in acc.opt[t], sz \in acc.opt[SizeOf[t]] :
          ~(off + sz > image.len \/ off >= image.len)
    <3> SUFFICES ASSUME NEW t \in DOMAIN SizeOf, NEW off \in acc.opt[t], NEW sz \in acc.opt[SizeOf[t]]
                 PROVE  ~(off + sz > image.len \/ off >= image.len)
      OBVIOUS
    <3>1. off \in Final(t) /\ sz \in Final(SizeOf[t]) /\ off \in Nat /\ sz \in Nat
      BY <1>4, <1>5, <2>1
    <3>2. off < image.len /\ off + sz <= image.len
      BY <1>3, <3>1 DEF Emitted
    <3> QED
      BY <2>2, <3>1, <3>2
  <2>4. \A t \in {"INIT", "FINI"} : \A off \in acc.opt[t] : ~(off >= image.len)
    <3> SUFFICES ASSUME NEW t \in {"INIT", "FINI"}, NEW off \in acc.opt[t] PROVE ~(off >= image.len)
      OBVIOUS
    <3>1. off \in Final(t) /\ off \in Nat
      BY <1>4, <1>6, <2>1
    <3>2. off < image.len
      BY <1>3, <3>1 DEF Emitted
    <3> QED
      BY <2>2, <3>1, <3>2
  <2> QED
    BY <2>3, <2>4 DEF OutOfImage
<1> QED
  BY <1>7, <1>8, <1>9, <1>10 DEF FinishErr, FinishPanic

(* What was built of the tags, one kind of field at a time. *)
LEMMA BuiltSays ==
  ASSUME Typed, Position, Accumulated, pos <= Len(image.dynamic), image.dynamic[pos].tag = "NULL",
         Emitted, NEW hash_off \in acc.opt["GNU_HASH"]
  PROVE  Says(Built(hash_off))
<1> DEFINE d == Built(hash_off)
<1>1. /\ \A t \in OptTags : acc.opt[t] = Final(t)
      /\ \A t \in OptTags \cup PlainTags : Has(t) <=> Final(t) # {}
      /\ \A t \in PlainTags : IF Has(t) THEN Final(t) = {acc.val[t]} ELSE Final(t) = {} /\ acc.val[t] = 0
      /\ Listed("NEEDED") = Seen("NEEDED")
  BY KeptIsFinal
<1>2. /\ {"GNU_HASH", "VERSYM", "INIT", "FINI", "PLTGOT"} \subseteq OptTags
      /\ {"RELACOUNT", "RPATH", "RUNPATH"} \subseteq OptTags
      /\ {"SYMTAB", "STRTAB", "FLAGS"} \subseteq PlainTags
  BY DEF OptTags, PlainTags, NonZeroTags, AddressTags, SizeTags, NumberTags
<1>3. /\ d.hashtab = Base + hash_off /\ d.symtab = Base + acc.val["SYMTAB"] /\ d.strtab = Base + acc.val["STRTAB"]
      /\ d.bind_now = ((acc.val["FLAGS"] \div DF_BIND_NOW) % 2 = 1) /\ d.needed = acc.needed
      /\ d.pltrel = Slice("JMPREL") /\ d.dynrel = Slice("RELA") /\ d.version_idx = At("VERSYM")
      /\ d.init_array = Slice("INIT_ARRAY") /\ d.fini_array = Slice("FINI_ARRAY")
      /\ d.init = At("INIT") /\ d.fini = At("FINI")
      /\ d.verneed = Count("VERNEED") /\ d.verdef = Count("VERDEF") /\ d.got = At("PLTGOT")
      /\ d.rela_count = acc.opt["RELACOUNT"] /\ d.rpath = acc.opt["RPATH"]
      /\ d.runpath = acc.opt["RUNPATH"]
  BY DEF Built
<1> HIDE DEF d
<1>4. {d.hashtab} = Addresses("GNU_HASH")
  <2>1. hash_off \in LastValue(Seen("GNU_HASH"))
    BY <1>2 DEF Accumulated
  <2>2. LastValue(Seen("GNU_HASH")) = {hash_off}
    BY <2>1, LastOf
  <2>3. Final("GNU_HASH") = {hash_off}
    BY <1>1, <1>2, <2>2 DEF Accumulated
  <2> QED
    BY <1>3, <2>3 DEF Addresses
<1>5. {d.symtab} = Addresses("SYMTAB") /\ {d.strtab} = Addresses("STRTAB")
  <2>1. Final("SYMTAB") = {acc.val["SYMTAB"]} /\ Final("STRTAB") = {acc.val["STRTAB"]}
    BY <1>1, <1>2 DEF Emitted
  <2> QED
    BY <1>3, <2>1 DEF Addresses
<1>6. d.bind_now = BindNow
  <2>1. IF Final("FLAGS") # {} THEN Final("FLAGS") = {acc.val["FLAGS"]} ELSE acc.val["FLAGS"] = 0
    BY <1>1, <1>2
  <2>2. ~((0 \div DF_BIND_NOW) % 2 = 1)
    BY DEF DF_BIND_NOW
  <2>3. CASE Final("FLAGS") = {}
    BY <1>3, <2>1, <2>2, <2>3 DEF BindNow
  <2>4. CASE Final("FLAGS") = {acc.val["FLAGS"]}
    BY <1>3, <2>4 DEF BindNow
  <2> QED
    BY <2>1, <2>3, <2>4
<1>7. /\ Len(d.needed) = Cardinality(Listed("NEEDED"))
      /\ \A i \in Listed("NEEDED") :
           d.needed[Cardinality(Listed("NEEDED") \cap 1 .. i)] = image.dynamic[i].val
  BY <1>1, <1>3 DEF Accumulated
<1>8. ASSUME NEW t \in DOMAIN SizeOf PROVE Slice(t) = Tables(t, SizeOf[t])
  <2>1. t \in OptTags /\ SizeOf[t] \in OptTags
    BY DEF SizeOf, OptTags, NonZeroTags, AddressTags, SizeTags, NumberTags
  <2>2. acc.opt[t] = Final(t) /\ acc.opt[SizeOf[t]] = Final(SizeOf[t])
    BY <1>1, <2>1
  <2> QED
    BY <2>2 DEF Slice, Tables
<1>9. ASSUME NEW t \in DOMAIN CountOf PROVE Count(t) = Tables(t, CountOf[t])
  <2>1. CountOf[t] \in OptTags /\ t \in OptTags
    BY DEF CountOf, OptTags, NonZeroTags, AddressTags, SizeTags, NumberTags
  <2>2. acc.opt[t] = Final(t) /\ acc.opt[CountOf[t]] = Final(CountOf[t])
    BY <1>1, <2>1
  <2>3. Final(t) # {} => Final(CountOf[t]) # {}
    BY <1>1, <2>1 DEF Emitted
  <2>4. CASE Final(t) = {}
    BY <2>2, <2>4 DEF Count, Tables, Sized
  <2>5. CASE Final(CountOf[t]) # {}
    BY <2>2, <2>5 DEF Count, Tables
  <2> QED
    BY <2>3, <2>4, <2>5
<1>10. /\ d.pltrel = Tables("JMPREL", "PLTRELSZ") /\ d.dynrel = Tables("RELA", "RELASZ")
       /\ d.init_array = Tables("INIT_ARRAY", "INIT_ARRAYSZ")
       /\ d.fini_array = Tables("FINI_ARRAY", "FINI_ARRAYSZ")
       /\ d.verneed = Tables("VERNEED", "VERNEEDNUM") /\ d.verdef = Tables("VERDEF", "VERDEFNUM")
  <2>1. /\ "JMPREL" \in DOMAIN SizeOf /\ SizeOf["JMPREL"] = "PLTRELSZ"
        /\ "RELA" \in DOMAIN SizeOf /\ SizeOf["RELA"] = "RELASZ"
        /\ "INIT_ARRAY" \in DOMAIN SizeOf /\ SizeOf["INIT_ARRAY"] = "INIT_ARRAYSZ"
        /\ "FINI_ARRAY" \in DOMAIN SizeOf /\ SizeOf["FINI_ARRAY"] = "FINI_ARRAYSZ"
    BY DEF SizeOf
  <2>2. /\ "VERNEED" \in DOMAIN CountOf /\ CountOf["VERNEED"] = "VERNEEDNUM"
        /\ "VERDEF" \in DOMAIN CountOf /\ CountOf["VERDEF"] = "VERDEFNUM"
    BY DEF CountOf
  <2>3. /\ d.pltrel = Tables("JMPREL", "PLTRELSZ") /\ d.dynrel = Tables("RELA", "RELASZ")
        /\ d.init_array = Tables("INIT_ARRAY", "INIT_ARRAYSZ")
        /\ d.fini_array = Tables("FINI_ARRAY", "FINI_ARRAYSZ")
    BY <1>3, <1>8, <2>1
  <2>4. d.verneed = Tables("VERNEED", "VERNEEDNUM") /\ d.verdef = Tables("VERDEF", "VERDEFNUM")
    BY <1>3, <1>9, <2>2
  <2> QED
    BY <2>3, <2>4
<1>11. ASSUME NEW t \in OptTags PROVE At(t) = Addresses(t)
  <2>1. acc.opt[t] = Final(t)
    BY <1>1
  <2> QED
    BY <2>1, Zenon DEF At, Addresses
<1>12. /\ d.version_idx = Addresses("VERSYM") /\ d.init = Addresses("INIT")
       /\ d.fini = Addresses("FINI") /\ d.got = Addresses("PLTGOT")
  BY <1>2, <1>3, <1>11
<1>13. /\ d.rela_count = Final("RELACOUNT") /\ d.rpath = Final("RPATH")
       /\ d.runpath = Final("RUNPATH")
  BY <1>1, <1>2, <1>3
<1>14. Says(d)
  BY <1>4, <1>5, <1>6, <1>7, <1>10, <1>12, <1>13 DEF Says
<1> QED
  BY <1>14 DEF d

(* What a section says is in the file. *)
LEMMA SaysKept ==
  ASSUME image' = image, NEW d, Says(d)
  PROVE  Says(d)'
<1>1. \A t : Listed(t)' = Listed(t) /\ Final(t)' = Final(t)
  BY EmittedKept
<1>2. \A t : Addresses(t)' = Addresses(t)
  BY <1>1 DEF Addresses
<1>3. \A t, s : Tables(t, s)' = Tables(t, s)
  BY <1>1 DEF Tables
<1>4. BindNow' = BindNow
  BY <1>1 DEF BindNow
<1> QED
  BY <1>1, <1>2, <1>3, <1>4 DEF Says

LEMMA FinishOkKeeps ==
  ASSUME DynInv, FinishOk
  PROVE  DynInv'
<1>1. /\ pc = "finish" /\ UNCHANGED <<image, build, pos, acc>> /\ pc' = "parsed"
      /\ Typed /\ Position /\ Accumulated /\ pos <= Len(image.dynamic) /\ image.dynamic[pos].tag = "NULL"
  BY DEF FinishOk, DynInv, Position
<1>2. PICK hash_off \in acc.opt["GNU_HASH"] : dyn' = Built(hash_off)
  BY DEF FinishOk
<1>3. dyn' # NoDyn
  <2>1. acc.opt["GNU_HASH"] \in SUBSET Nat
    BY <1>1 DEF Typed, OptTags
  <2>2. Base + hash_off # 0
    BY <2>1, BaseAssumption
  <2>3. dyn'.hashtab = Base + hash_off
    BY <1>2 DEF Built
  <2> QED
    BY <2>2, <2>3 DEF NoDyn
<1>4. Typed' /\ Accumulated'
  BY <1>1, SameKept
<1>5. Position' /\ Stage'
  BY <1>1, <1>3 DEF Position, Stage
<1>6. DynamicParsed'
  <2>1. Emitted => Says(dyn')
    BY <1>1, <1>2, BuiltSays
  <2>2. Emitted' => Says(dyn)'
    <3>1. Emitted' = Emitted /\ image' = image
      BY <1>1, EmittedKept
    <3> QED
      BY <2>1, <3>1, SaysKept
  <2> QED
    BY <1>1, <1>3, <2>2 DEF DynamicParsed, Failed
<1> QED
  BY <1>4, <1>5, <1>6 DEF DynInv

(* Everything after the parser leaves the ElfDynamic alone. *)
LEMMA AfterKeeps ==
  ASSUME DynInv, UNCHANGED <<image, build, pos, acc, dyn>>, dyn # NoDyn,
         pc' \in {"parsed", "idle", "walk", "count", "err", "panic", "abort", "wild"}
  PROVE  DynInv'
<1>1. image' = image /\ dyn' = dyn /\ pos' = pos
  OBVIOUS
<1>2. Typed' /\ Accumulated'
  BY SameKept DEF DynInv
<1>3. Position' /\ Stage'
  BY <1>1 DEF DynInv, Position, Stage
<1>4. Emitted => Says(dyn)
  BY DEF DynInv, DynamicParsed
<1>5. Emitted' => Says(dyn)'
  <2>1. Emitted' = Emitted
    BY <1>1, EmittedKept
  <2> QED
    BY <1>1, <1>4, <2>1, SaysKept
<1>6. DynamicParsed'
  BY <1>1, <1>5 DEF DynamicParsed
<1> QED
  BY <1>2, <1>3, <1>6 DEF DynInv

-----------------------------------------------------------------------------
(* The array of versions. *)

LEMMA GreatestFromZero ==
  ASSUME NEW S, NEW n \in Nat, S \subseteq 0 .. n, S # {}
  PROVE  \E m \in S : \A k \in S : k <= m
<1> DEFINE T == {k + 1 : k \in S}
<1>1. T \subseteq 1 .. n + 1 /\ T # {} /\ n + 1 \in Nat
  <2>1. T \subseteq 1 .. n + 1
    <3> SUFFICES ASSUME NEW k \in S PROVE k + 1 \in 1 .. n + 1
      OBVIOUS
    <3>1. k \in Int /\ 0 <= k /\ k <= n
      OBVIOUS
    <3> QED
      BY <3>1
  <2>2. PICK k \in S : TRUE
    OBVIOUS
  <2>3. k + 1 \in T
    OBVIOUS
  <2> HIDE DEF T
  <2> QED
    BY <2>1, <2>3
<1>2. PICK m \in T : \A k \in T : k <= m
  <2> HIDE DEF T
  <2> QED
    BY <1>1, Greatest
<1>3. PICK p \in S : m = p + 1
  OBVIOUS
<1>4. \A k \in S : k + 1 <= p + 1
  BY <1>2, <1>3
<1> QED
  BY <1>4

(* The element of a nonempty sequence of elements of T. *)
LEMMA FirstOf ==
  ASSUME NEW T, NEW s \in Seq(T), s # <<>>
  PROVE  1 \in DOMAIN s /\ s[1] \in T
OBVIOUS

LEMMA SeqTyped ==
  ASSUME NEW T, NEW s \in Seq(T)
  PROVE  Len(s) \in Nat /\ DOMAIN s = 1 .. Len(s) /\ \A i \in 1 .. Len(s) : s[i] \in T
OBVIOUS

LEMMA TablesTyped ==
  ASSUME NEW im, VersionTables(im)
  PROVE  /\ Len(im.ids) \in Nat /\ DOMAIN im.ids = 1 .. Len(im.ids)
         /\ Len(im.defs) \in Nat /\ DOMAIN im.defs = 1 .. Len(im.defs)
         /\ Len(im.needs) \in Nat /\ DOMAIN im.needs = 1 .. Len(im.needs)
         /\ \A i \in DOMAIN im.ids : im.ids[i].ndx \in Ndx /\ im.ids[i].hidden \in BOOLEAN
         /\ \A i \in DOMAIN im.defs : im.defs[i].ndx \in Ndx /\ im.defs[i].names \in Seq(DOMAIN VerHash)
         /\ \A i \in DOMAIN im.needs :
              /\ Len(im.needs[i]) \in Nat /\ DOMAIN im.needs[i] = 1 .. Len(im.needs[i])
              /\ \A j \in DOMAIN im.needs[i] : im.needs[i][j].ndx \in Ndx
<1> DEFINE I == [ndx : Ndx, hidden : BOOLEAN]
           D == [ndx : Ndx, hash : Nat, names : Seq(DOMAIN VerHash)]
           N == [ndx : Ndx, hash : Nat, name : DOMAIN VerHash]
<1>1. im.ids \in Seq(I) /\ im.defs \in Seq(D) /\ im.needs \in Seq(Seq(N))
  BY DEF VersionTables
<1>2. /\ \A r \in I : r.ndx \in Ndx /\ r.hidden \in BOOLEAN
      /\ \A r \in D : r.ndx \in Ndx /\ r.names \in Seq(DOMAIN VerHash)
      /\ \A r \in N : r.ndx \in Ndx
  OBVIOUS
<1> HIDE DEF I, D, N
<1>3. /\ Len(im.ids) \in Nat /\ DOMAIN im.ids = 1 .. Len(im.ids)
      /\ \A i \in 1 .. Len(im.ids) : im.ids[i] \in I
  BY <1>1, SeqTyped
<1>4. /\ Len(im.defs) \in Nat /\ DOMAIN im.defs = 1 .. Len(im.defs)
      /\ \A i \in 1 .. Len(im.defs) : im.defs[i] \in D
  BY <1>1, SeqTyped
<1>5. /\ Len(im.needs) \in Nat /\ DOMAIN im.needs = 1 .. Len(im.needs)
      /\ \A i \in 1 .. Len(im.needs) : im.needs[i] \in Seq(N)
  BY <1>1, SeqTyped
<1>6. ASSUME NEW i \in 1 .. Len(im.needs)
      PROVE  /\ Len(im.needs[i]) \in Nat /\ DOMAIN im.needs[i] = 1 .. Len(im.needs[i])
             /\ \A j \in 1 .. Len(im.needs[i]) : im.needs[i][j] \in N
  <2>1. im.needs[i] \in Seq(N)
    BY <1>5
  <2> QED
    BY <2>1, SeqTyped
<1>7. \A i \in DOMAIN im.ids : im.ids[i].ndx \in Ndx /\ im.ids[i].hidden \in BOOLEAN
  BY <1>2, <1>3
<1>8. \A i \in DOMAIN im.defs : im.defs[i].ndx \in Ndx /\ im.defs[i].names \in Seq(DOMAIN VerHash)
  BY <1>2, <1>4
<1>9. \A i \in DOMAIN im.needs :
        /\ Len(im.needs[i]) \in Nat /\ DOMAIN im.needs[i] = 1 .. Len(im.needs[i])
        /\ \A j \in DOMAIN im.needs[i] : im.needs[i][j].ndx \in Ndx
  BY <1>2, <1>5, <1>6
<1> QED
  BY <1>3, <1>4, <1>5, <1>7, <1>8, <1>9

(* Every write has its place in the array. *)
LEMMA NdxMaxBounds ==
  ASSUME NEW im, VersionTables(im)
  PROVE  /\ NdxMax(im.defs, im.needs) \in Nat
         /\ \A i \in DOMAIN im.defs : im.defs[i].ndx <= NdxMax(im.defs, im.needs)
         /\ \A i \in DOMAIN im.needs : \A j \in DOMAIN im.needs[i] :
              im.needs[i][j].ndx <= NdxMax(im.defs, im.needs)
<1> DEFINE D == {im.defs[i].ndx : i \in DOMAIN im.defs}
           N == UNION {{im.needs[i][j].ndx : j \in DOMAIN im.needs[i]} : i \in DOMAIN im.needs}
           S == {0} \cup D \cup N
<1>1. D \subseteq Ndx
  BY TablesTyped
<1>2. N \subseteq Ndx
  <2> SUFFICES ASSUME NEW x \in N PROVE x \in Ndx
    OBVIOUS
  <2>1. PICK i \in DOMAIN im.needs : x \in {im.needs[i][j].ndx : j \in DOMAIN im.needs[i]}
    OBVIOUS
  <2> QED
    BY <2>1, TablesTyped
<1>3. \A i \in DOMAIN im.needs : \A j \in DOMAIN im.needs[i] : im.needs[i][j].ndx \in N
  OBVIOUS
<1>4. \A i \in DOMAIN im.defs : im.defs[i].ndx \in D
  OBVIOUS
<1>5. NdxMax(im.defs, im.needs) = CHOOSE x \in S : \A y \in S : x >= y
  BY DEF NdxMax, Max
<1> HIDE DEF D, N
<1>6. S \subseteq Ndx /\ S # {} /\ VER_NDX_VERSION \in Nat
  <2>1. VER_NDX_VERSION \in Nat
    BY DEF VER_NDX_VERSION
  <2>2. 0 \in Ndx
    BY <2>1 DEF Ndx
  <2> QED
    BY <1>1, <1>2, <2>1, <2>2
<1> HIDE DEF S
<1>7. PICK m \in S : \A k \in S : k <= m
  BY <1>6, GreatestFromZero DEF Ndx
<1>8. m \in S /\ \A y \in S : m >= y
  BY <1>6, <1>7 DEF Ndx
<1>9. NdxMax(im.defs, im.needs) \in S /\ \A y \in S : NdxMax(im.defs, im.needs) >= y
  BY <1>5, <1>8
<1>10. NdxMax(im.defs, im.needs) \in Nat /\ \A y \in S : y <= NdxMax(im.defs, im.needs)
  <2> DEFINE top == NdxMax(im.defs, im.needs)
  <2>1. top \in S /\ \A y \in S : top >= y
    BY <1>9
  <2> HIDE DEF top
  <2>2. top \in Nat /\ \A y \in S : y <= top
    BY <1>6, <2>1 DEF Ndx
  <2> QED
    BY <2>2 DEF top
<1> QED
  BY <1>3, <1>4, <1>10 DEF S

(* Of a set of writes that is not empty there is a latest. *)
LEMMA LatestOf ==
  ASSUME NEW im, VersionTables(im), NEW ws, ws \subseteq Writes(im.defs, im.needs), ws # {}
  PROVE  Latest(ws) \in ws
<1>1. \A w \in ws : /\ w = <<w[1], w[2]>> /\ w[1] \in 0 .. Len(im.needs) /\ w[2] \in Nat
                    /\ w[1] = 0 => w[2] \in 1 .. Len(im.defs)
                    /\ w[1] # 0 => w[1] \in DOMAIN im.needs /\ w[2] \in 1 .. Len(im.needs[w[1]])
  <2> SUFFICES ASSUME NEW w \in ws
               PROVE  /\ w = <<w[1], w[2]>> /\ w[1] \in 0 .. Len(im.needs) /\ w[2] \in Nat
                      /\ w[1] = 0 => w[2] \in 1 .. Len(im.defs)
                      /\ w[1] # 0 => w[1] \in DOMAIN im.needs /\ w[2] \in 1 .. Len(im.needs[w[1]])
    OBVIOUS
  <2>1. w \in {0} \X DOMAIN im.defs \/ \E i \in DOMAIN im.needs : w \in {i} \X DOMAIN im.needs[i]
    BY DEF Writes
  <2>2. CASE w \in {0} \X DOMAIN im.defs
    BY <2>2, TablesTyped
  <2>3. CASE \E i \in DOMAIN im.needs : w \in {i} \X DOMAIN im.needs[i]
    BY <2>3, TablesTyped
  <2> QED
    BY <2>1, <2>2, <2>3
<1>2. Len(im.needs) \in Nat /\ Len(im.defs) \in Nat
  BY TablesTyped
<1> DEFINE A == {w[1] : w \in ws}
<1>3. A \subseteq 0 .. Len(im.needs) /\ A # {}
  BY <1>1
<1> HIDE DEF A
<1>4. PICK a \in A : \A k \in A : k <= a
  BY <1>2, <1>3, GreatestFromZero
<1> DEFINE B == {w[2] : w \in {x \in ws : x[1] = a}}
           len == IF a = 0 THEN Len(im.defs) ELSE Len(im.needs[a])
<1>5. B \subseteq 0 .. len /\ B # {} /\ len \in Nat
  <2>1. PICK w \in ws : w[1] = a
    BY DEF A
  <2>2. len \in Nat
    BY <1>1, <1>2, <2>1, TablesTyped
  <2>3. \A x \in ws : x[1] = a => x[2] \in 0 .. len
    BY <1>1, <1>2, TablesTyped
  <2> HIDE DEF len
  <2> QED
    BY <2>1, <2>2, <2>3
<1> HIDE DEF B, len
<1>6. PICK b \in B : \A k \in B : k <= b
  BY <1>5, GreatestFromZero
<1>7. PICK w \in ws : w[1] = a /\ w[2] = b
  BY DEF B
<1>8. \A x \in ws : x[1] < w[1] \/ (x[1] = w[1] /\ x[2] <= w[2])
  <2> SUFFICES ASSUME NEW x \in ws PROVE x[1] < w[1] \/ (x[1] = w[1] /\ x[2] <= w[2])
    OBVIOUS
  <2>1. x[1] \in A /\ x[1] <= a
    BY <1>4 DEF A
  <2>2. x[1] = a => x[2] \in B /\ x[2] <= b
    BY <1>6 DEF B
  <2> QED
    BY <1>1, <1>7, <2>1, <2>2
<1> QED
  BY <1>8 DEF Latest

(* What the array holds at an index: the latest write to it, if any. *)
LEMMA SlotIs ==
  ASSUME NEW im, VersionTables(im), NEW k \in Nat
  PROVE  LET at == {w \in Writes(im.defs, im.needs) : Written(im.defs, im.needs, w).ndx = k}
         IN  /\ DOMAIN Slots(im.defs, im.needs) = 0 .. NdxMax(im.defs, im.needs)
             /\ at # {} => k \in DOMAIN Slots(im.defs, im.needs)
             /\ at # {} => \E w \in at : Slots(im.defs, im.needs)[k] =
                             {[name |-> Written(im.defs, im.needs, w).name,
                               hash |-> Written(im.defs, im.needs, w).hash]}
             /\ at = {} /\ k \in DOMAIN Slots(im.defs, im.needs) => Slots(im.defs, im.needs)[k] = {}
<1> DEFINE W == Writes(im.defs, im.needs)
           E(w) == Written(im.defs, im.needs, w)
           at == {w \in W : E(w).ndx = k}
<1>1. DOMAIN Slots(im.defs, im.needs) = 0 .. NdxMax(im.defs, im.needs)
  BY DEF Slots
<1>2. k \in DOMAIN Slots(im.defs, im.needs) =>
        Slots(im.defs, im.needs)[k] = IF at = {} THEN {}
                                      ELSE {[name |-> E(Latest(at)).name, hash |-> E(Latest(at)).hash]}
  BY DEF Slots, Slot
<1>3. ASSUME at # {} PROVE k \in DOMAIN Slots(im.defs, im.needs) /\ Latest(at) \in at
  <2>1. PICK w \in W : E(w).ndx = k
    BY <1>3
  <2>2. E(w).ndx <= NdxMax(im.defs, im.needs)
    <3>1. w \in {0} \X DOMAIN im.defs \/ \E i \in DOMAIN im.needs : w \in {i} \X DOMAIN im.needs[i]
      BY DEF Writes
    <3>2. CASE w \in {0} \X DOMAIN im.defs
      BY <3>2, NdxMaxBounds DEF Written
    <3>3. CASE \E i \in DOMAIN im.needs : w \in {i} \X DOMAIN im.needs[i]
      <4>1. PICK i \in DOMAIN im.needs : w \in {i} \X DOMAIN im.needs[i]
        BY <3>3
      <4>2. w[1] = i /\ w[2] \in DOMAIN im.needs[i] /\ w[1] # 0
        BY <4>1, TablesTyped
      <4> QED
        BY <4>2, NdxMaxBounds DEF Written
    <3> QED
      BY <3>1, <3>2, <3>3
  <2>3. at \subseteq Writes(im.defs, im.needs)
    OBVIOUS
  <2> HIDE DEF at
  <2>4. Latest(at) \in at
    BY <1>3, <2>3, LatestOf
  <2> QED
    BY <1>1, <2>1, <2>2, <2>4, NdxMaxBounds
<1> QED
  BY <1>1, <1>2, <1>3

(* An index of an object with sound tables: one version, or none at all    *)
(* and then it is that of an unversioned symbol.                           *)
LEMMA SlotMade ==
  ASSUME NEW im, VersionTables(im), VersionsMade(im), NEW i \in DOMAIN im.ids,
         NEW S, S = Slots(im.defs, im.needs)
  PROVE  /\ im.ids[i].ndx > 1 => im.ids[i].ndx \in DOMAIN S /\ S[im.ids[i].ndx] # {}
         /\ im.ids[i].ndx \in DOMAIN S /\ S[im.ids[i].ndx] # {} =>
              \E s : /\ S[im.ids[i].ndx] = {s} /\ VersionsOf(im, i) = {s.name}
                     /\ s.hash = VerHash[s.name]
         /\ im.ids[i].ndx \in DOMAIN S /\ S[im.ids[i].ndx] = {} =>
              /\ im.ids[i].ndx <= 1 /\ ~im.ids[i].hidden /\ VersionsOf(im, i) = {}
              /\ \A k \in DOMAIN im.defs : im.defs[k].ndx # im.ids[i].ndx
<1> DEFINE k == im.ids[i].ndx
           E(w) == Written(im.defs, im.needs, w)
           at == {w \in Writes(im.defs, im.needs) : E(w).ndx = k}
<1>1. k \in Nat
  <2>1. k \in Ndx
    BY TablesTyped
  <2> QED
    BY <2>1 DEF Ndx
<1>2. ASSUME NEW w \in at PROVE E(w).name \in VersionsOf(im, i) /\ E(w).hash = VerHash[E(w).name]
  <2>1. w \in {0} \X DOMAIN im.defs \/ \E m \in DOMAIN im.needs : w \in {m} \X DOMAIN im.needs[m]
    BY DEF Writes
  <2>2. CASE w \in {0} \X DOMAIN im.defs
    <3>1. w[2] \in DOMAIN im.defs /\ E(w).ndx = im.defs[w[2]].ndx
          /\ E(w).name = im.defs[w[2]].names[1] /\ E(w).hash = im.defs[w[2]].hash
      BY <2>2 DEF Written
    <3>2. im.defs[w[2]].ndx = k /\ im.defs[w[2]].hash = VerHash[im.defs[w[2]].names[1]]
      BY <3>1 DEF VersionsMade
    <3>3. im.defs[w[2]].names[1] \in VersionsOf(im, i)
      BY <3>1, <3>2, Zenon DEF VersionsOf
    <3> QED
      BY <3>1, <3>2, <3>3, Zenon
  <2>3. CASE \E m \in DOMAIN im.needs : w \in {m} \X DOMAIN im.needs[m]
    <3>1. PICK m \in DOMAIN im.needs : w \in {m} \X DOMAIN im.needs[m]
      BY <2>3
    <3>2. w[1] = m /\ w[2] \in DOMAIN im.needs[m] /\ w[1] # 0 /\ E(w) = im.needs[m][w[2]]
      BY <3>1, TablesTyped DEF Written
    <3>3. im.needs[m][w[2]].name \in VersionsOf(im, i)
      BY <3>2 DEF VersionsOf
    <3>4. im.needs[m][w[2]].hash = VerHash[im.needs[m][w[2]].name]
      BY <3>2 DEF VersionsMade
    <3> QED
      BY <3>2, <3>3, <3>4
  <2> QED
    BY <2>1, <2>2, <2>3
<1>3. ASSUME NEW d \in DOMAIN im.defs, im.defs[d].ndx = k PROVE at # {}
  <2>1. <<0, d>> \in Writes(im.defs, im.needs)
    BY DEF Writes
  <2>2. E(<<0, d>>).ndx = k
    BY <1>3 DEF Written
  <2> QED
    BY <2>1, <2>2
<1>4. ASSUME NEW m \in DOMAIN im.needs, NEW j \in DOMAIN im.needs[m], im.needs[m][j].ndx = k PROVE at # {}
  <2>1. <<m, j>> \in Writes(im.defs, im.needs)
    BY DEF Writes
  <2>2. m # 0
    BY TablesTyped
  <2>3. E(<<m, j>>).ndx = k
    BY <1>4, <2>2 DEF Written
  <2> QED
    BY <2>1, <2>3
<1>5. ASSUME at = {} PROVE VersionsOf(im, i) = {}
  <2> SUFFICES ASSUME NEW v \in VersionsOf(im, i) PROVE FALSE
    OBVIOUS
  <2>1. \/ \E d \in DOMAIN im.defs : im.defs[d].ndx = k
        \/ \E m \in DOMAIN im.needs : \E j \in DOMAIN im.needs[m] : im.needs[m][j].ndx = k
    BY DEF VersionsOf
  <2> HIDE DEF at
  <2> QED
    BY <1>3, <1>4, <1>5, <2>1
<1>6. /\ at # {} => k \in DOMAIN S
      /\ at # {} => \E w \in at : S[k] = {[name |-> E(w).name, hash |-> E(w).hash]}
      /\ at = {} /\ k \in DOMAIN S => S[k] = {}
  BY <1>1, SlotIs
<1>7. k > 1 => at # {}
  <2> HIDE DEF at
  <2> QED
    BY <1>1, <1>5 DEF VersionsMade
<1>8. ASSUME at # {}
      PROVE  \E s : S[k] = {s} /\ VersionsOf(im, i) = {s.name} /\ s.hash = VerHash[s.name]
  <2>1. PICK w \in at : S[k] = {[name |-> E(w).name, hash |-> E(w).hash]}
    BY <1>6, <1>8
  <2>2. E(w).name \in VersionsOf(im, i) /\ E(w).hash = VerHash[E(w).name]
    BY <1>2
  <2>3. VersionsOf(im, i) = {E(w).name}
    BY <2>2 DEF VersionsMade
  <2> DEFINE s == [name |-> E(w).name, hash |-> E(w).hash]
  <2>4. s.name = E(w).name /\ s.hash = E(w).hash /\ S[k] = {s}
    BY <2>1
  <2> HIDE DEF s, at, E, k
  <2> QED
    BY <2>2, <2>3, <2>4
<1>9. ASSUME at = {}
      PROVE  /\ k <= 1 /\ ~im.ids[i].hidden /\ VersionsOf(im, i) = {}
             /\ \A d \in DOMAIN im.defs : im.defs[d].ndx # k
  <2>1. k <= 1
    BY <1>1, <1>7, <1>9
  <2>2. ~im.ids[i].hidden
    BY <2>1 DEF VersionsMade
  <2> HIDE DEF at
  <2> QED
    BY <1>3, <1>5, <1>9, <2>1, <2>2
<1>10. at # {} => S[k] # {}
  BY <1>6
<1> HIDE DEF at, E
<1> QED
  BY <1>6, <1>7, <1>8, <1>9, <1>10

-----------------------------------------------------------------------------
(* The hash table. *)

LEMMA ImageTyped ==
  ASSUME NEW im \in Images
  PROVE  /\ VersionTables(im)
         /\ Len(im.syms) \in Nat /\ DOMAIN im.syms = 1 .. Len(im.syms)
         /\ \A i \in 1 .. Len(im.syms) : im.syms[i].name \in Names
         /\ im.hash.symbias \in Nat /\ im.hash.nbucket \in Nat
         /\ Len(im.hash.buckets) \in Nat /\ DOMAIN im.hash.buckets = 1 .. Len(im.hash.buckets)
         /\ \A b \in 1 .. Len(im.hash.buckets) : im.hash.buckets[b] \in Nat
         /\ Len(im.hash.chains) \in Nat
<1> DEFINE S == [name : Names, shndx : Nat, st_bind : STRING, st_type : STRING]
           C == [h : Nat, stop : BOOLEAN]
<1>1. /\ VersionTables(im) /\ im.syms \in Seq(S) /\ im.hash.symbias \in Nat /\ im.hash.nbucket \in Nat
      /\ im.hash.buckets \in Seq(Nat) /\ im.hash.chains \in Seq(C)
  BY TableAssumption
<1>2. \A s \in S : s.name \in Names
  OBVIOUS
<1> HIDE DEF S, C
<1>3. /\ Len(im.syms) \in Nat /\ DOMAIN im.syms = 1 .. Len(im.syms)
      /\ \A i \in 1 .. Len(im.syms) : im.syms[i] \in S
  BY <1>1, SeqTyped
<1>4. /\ Len(im.hash.buckets) \in Nat /\ DOMAIN im.hash.buckets = 1 .. Len(im.hash.buckets)
      /\ \A b \in 1 .. Len(im.hash.buckets) : im.hash.buckets[b] \in Nat
  BY <1>1, SeqTyped
<1>5. Len(im.hash.chains) \in Nat
  BY <1>1, SeqTyped
<1> QED
  BY <1>1, <1>2, <1>3, <1>4, <1>5

LEMMA Remainder ==
  ASSUME NEW h \in Nat, NEW n \in Nat, n >= 1
  PROVE  h % n \in 0 .. n - 1
OBVIOUS

(* The hashed symbols of an image linkers make. *)
LEMMA HashFacts ==
  ASSUME image \in Images, HashMade
  PROVE  /\ Len(image.syms) \in Nat /\ hash.symbias \in Nat /\ hash.symbias >= 1
         /\ hash.nbucket \in Nat /\ hash.nbucket >= 1 /\ hash.nbucket = Len(hash.buckets)
         /\ Hashed \subseteq Nat \ {0}
         /\ \A i \in Hashed : image.syms[i].name \in Names /\ BucketOf(i) \in 0 .. hash.nbucket - 1
         /\ \A n \in Names : GnuHash[n] \in Nat /\ GnuHash[n] % hash.nbucket \in 0 .. hash.nbucket - 1
         /\ \A i \in Hashed : i - hash.symbias + 1 \in 1 .. Len(hash.chains)
<1>1. /\ Len(image.syms) \in Nat /\ hash.symbias \in Nat /\ hash.symbias >= 1
      /\ hash.nbucket \in Nat /\ hash.nbucket >= 1 /\ hash.nbucket = Len(hash.buckets)
      /\ Len(hash.chains) = Len(image.syms) - hash.symbias + 1
  BY ImageTyped DEF HashMade, hash
<1>2. \A n \in Names : GnuHash[n] \in Nat
  BY TableAssumption
<1>3. \A n \in Names : GnuHash[n] % hash.nbucket \in 0 .. hash.nbucket - 1
  BY <1>1, <1>2, Remainder
<1>4. \A i \in Hashed : i \in 1 .. Len(image.syms) /\ i - hash.symbias + 1 \in 1 .. Len(hash.chains)
  BY <1>1 DEF Hashed
<1>5. \A i \in Hashed : image.syms[i].name \in Names
  BY <1>4, ImageTyped
<1>6. \A i \in Hashed : BucketOf(i) \in 0 .. hash.nbucket - 1
  BY <1>3, <1>5, Zenon DEF BucketOf
<1>7. Hashed \subseteq Nat \ {0}
  BY <1>1 DEF Hashed
<1> QED
  BY <1>1, <1>2, <1>3, <1>4, <1>5, <1>6, <1>7, Zenon

(* A bucket is the first of its symbols, or 0 if it has none. *)
LEMMA BucketStart ==
  ASSUME image \in Images, HashMade, NEW b \in 0 .. hash.nbucket - 1
  PROVE  \/ hash.buckets[b + 1] = 0 /\ \A i \in Hashed : BucketOf(i) # b
         \/ /\ hash.buckets[b + 1] \in Hashed /\ BucketOf(hash.buckets[b + 1]) = b
            /\ \A j \in Hashed : BucketOf(j) = b => hash.buckets[b + 1] <= j
<1> DEFINE I == InBucket(b)
<1>1. hash.buckets[b + 1] = IF I = {} THEN 0 ELSE Min(I)
  BY DEF HashMade
<1>2. CASE I = {}
  BY <1>1, <1>2 DEF InBucket
<1>3. CASE I # {}
  <2>1. hash.buckets[b + 1] = CHOOSE x \in I : \A y \in I : x <= y
    BY <1>1, <1>3 DEF Min
  <2>2. I \in SUBSET Nat
    BY HashFacts DEF InBucket
  <2>3. PICK m \in I : \A y \in I : m <= y
    <3> HIDE DEF I
    <3> QED
      BY <1>3, <2>2, LeastNat
  <2>4. hash.buckets[b + 1] \in I /\ \A y \in I : hash.buckets[b + 1] <= y
    <3> HIDE DEF I
    <3> QED
      BY <2>1, <2>3
  <2> QED
    BY <2>4 DEF InBucket
<1> QED
  BY <1>2, <1>3

(* A symbol of the name asked for has the hash asked for. *)
LEMMA SameNameSameHash ==
  ASSUME image \in Images, HashMade, NEW i \in Hashed, NEW n, image.syms[i].name = n
  PROVE  /\ BucketOf(i) = GnuHash[n] % hash.nbucket /\ Bloom(GnuHash[n])
         /\ hash.chains[i - hash.symbias + 1].h = GnuHash[n] \div 2
<1>1. LET h == GnuHash[image.syms[i].name]
          c == hash.chains[i - hash.symbias + 1]
      IN  Bits(h) \subseteq Word(h) /\ c.h = h \div 2
  BY DEF HashMade
<1> QED
  BY <1>1 DEF BucketOf, Bloom

(* The stop bit ends the symbols of a bucket. *)
LEMMA StopBit ==
  ASSUME image \in Images, HashMade, NEW i \in Hashed
  PROVE  IF hash.chains[i - hash.symbias + 1].stop
         THEN \A j \in Hashed : j > i => BucketOf(j) # BucketOf(i)
         ELSE i + 1 \in Hashed /\ BucketOf(i + 1) = BucketOf(i)
<1>1. hash.chains[i - hash.symbias + 1].stop <=> (i + 1 \in Hashed => BucketOf(i + 1) # BucketOf(i))
  BY DEF HashMade
<1>2. ASSUME i + 1 \in Hashed => BucketOf(i + 1) # BucketOf(i), NEW j \in Hashed, j > i
      PROVE  BucketOf(j) # BucketOf(i)
  <2>0. hash.symbias \in Nat /\ Len(image.syms) \in Nat
    BY HashFacts, Zenon
  <2>1. i + 1 \in Hashed /\ i \in Nat /\ j \in Nat
    BY <1>2, <2>0 DEF Hashed
  <2>2. BucketOf(i) <= BucketOf(i + 1)
    BY <2>1 DEF HashMade
  <2>3. j = i + 1 \/ BucketOf(i + 1) <= BucketOf(j)
    BY <1>2, <2>1 DEF HashMade
  <2> QED
    BY <1>2, <2>1, <2>2, <2>3, HashFacts
<1> QED
  BY <1>1, <1>2

LEMMA MadeKept ==
  ASSUME image' = image
  PROVE  /\ Made' = Made /\ hash' = hash /\ Hashed' = Hashed
         /\ \A i : BucketOf(i)' = BucketOf(i)
<1>1. hash' = hash /\ nbloom' = nbloom /\ Hashed' = Hashed
  BY DEF hash, nbloom, Hashed
<1>2. \A i : BucketOf(i)' = BucketOf(i)
  BY <1>1 DEF BucketOf
<1>3. \A h : Bits(h)' = Bits(h) /\ Word(h)' = Word(h)
  BY <1>1 DEF Bits, Word
<1>4. HashMade' = HashMade
  <2>1. \A b : InBucket(b)' = InBucket(b)
    BY <1>1, <1>2 DEF InBucket
  <2> QED
    BY <1>1, <1>2, <1>3, <2>1 DEF HashMade
<1>5. Emitted' = Emitted /\ \A t : Final(t)' = Final(t)
  BY EmittedKept
<1>6. Made' = Made
  BY <1>4, <1>5 DEF Made
<1> QED
  BY <1>1, <1>2, <1>6

-----------------------------------------------------------------------------
(* What the answers depend on. *)

LEMMA VersionsOfKept ==
  ASSUME image' = image, NEW i
  PROVE  VersionsOf(image, i)' = VersionsOf(image, i)
BY DEF VersionsOf

LEMMA CandidatesKept ==
  ASSUME UNCHANGED <<image, tab, query>>
  PROVE  Candidates' = Candidates /\ HashRight' = HashRight
<1>1. image' = image /\ tab' = tab /\ query' = query
  OBVIOUS
<1>2. \A i, w : Accepts(i, w)' = Accepts(i, w)
  BY <1>1, VersionsOfKept DEF Accepts
<1>3. Hashed' = Hashed
  BY <1>1, MadeKept
<1> QED
  BY <1>1, <1>2, <1>3 DEF Candidates, HashRight

LEMMA AnswersKept ==
  ASSUME UNCHANGED <<image, tab, query, answer, garbage>>, LookupMatches, CountExact
  PROVE  LookupMatches' /\ CountExact'
<1>1. image' = image /\ tab' = tab /\ query' = query /\ answer' = answer /\ garbage' = garbage
  OBVIOUS
<1>2. Candidates' = Candidates /\ HashRight' = HashRight
  BY CandidatesKept
<1>3. Made' = Made /\ Hashed' = Hashed
  BY <1>1, MadeKept
<1>4. Answered' = Answered
  BY <1>1 DEF Answered
<1>5. LookupMatches'
  BY <1>1, <1>2, <1>3, <1>4 DEF LookupMatches
<1>6. CountExact'
  BY <1>1, <1>3 DEF CountExact
<1> QED
  BY <1>5, <1>6

(* A step that leaves the tables, the query and the answer alone, to a     *)
(* stage that promises nothing of the image.                               *)
LEMMA ElsewhereKept ==
  ASSUME TableInv, UNCHANGED <<image, build, tabVars>>,
         pc' \notin {"idle", "walk", "count"}, pc' \in {"panic", "wild"} => ~Made,
         pc' \in {"dynamic", "finish", "parsed"} => pc \in {"dynamic", "finish"}
  PROVE  TableInv'
<1>1. image' = image /\ build' = build /\ tab' = tab /\ query' = query /\ answer' = answer /\ garbage' = garbage
  BY DEF tabVars
<1>2. LookupMatches' /\ CountExact'
  BY <1>1, AnswersKept DEF TableInv
<1>3. Made' = Made
  BY <1>1, MadeKept
<1>4. TabRight' /\ WalkRight' /\ CountRight'
  BY DEF TabRight, WalkRight, CountRight
<1>5. QueryRight'
  BY <1>1 DEF QueryRight, TableInv
<1>6. StaysInTables' /\ PanicsExplained'
  BY <1>1, <1>3 DEF StaysInTables, PanicsExplained, TableInv
<1> QED
  BY <1>2, <1>4, <1>5, <1>6 DEF TableInv

LEMMA ParseKeeps ==
  ASSUME SymbolInv, Parse
  PROVE  SymbolInv'
<1>1. DynInv /\ TableInv
  BY DEF SymbolInv
<1>2. DynInv'
  BY <1>1, ReadZeroKeeps, ReadTagKeeps, ReadEndKeeps, FinishFailsKeeps, FinishOkKeeps DEF Parse, DynNext
<1>3. pc \in {"dynamic", "finish"} /\ image' = image /\ build' = build /\ UNCHANGED tabVars
  BY DEF Parse, DynNext, ReadZero, ReadTag, ReadNull, ReadPastEnd, FinishErr, FinishPanic, FinishOk
<1>4. pc' \in {"dynamic", "finish", "parsed", "err", "panic", "abort", "wild"}
  BY <1>3 DEF Parse, DynNext, ReadZero, ReadTag, ReadNull, ReadPastEnd, FinishErr, FinishPanic, FinishOk
<1>5. dyn = NoDyn
  BY <1>1, <1>3 DEF DynInv, Stage
<1>6. pc' \in {"panic", "wild"} => dyn' = NoDyn
  BY <1>5 DEF Parse, DynNext, ReadZero, ReadTag, ReadNull, ReadPastEnd, FinishErr, FinishPanic, FinishOk
<1>7. pc' \in {"panic", "wild"} => ~Emitted'
  BY <1>2, <1>6 DEF DynInv, DynamicParsed, Failed
<1>8. pc' \in {"panic", "wild"} => ~Made
  BY <1>3, <1>7, EmittedKept DEF Made
<1>9. TableInv'
  BY <1>1, <1>3, <1>4, <1>8, ElsewhereKept
<1> QED
  BY <1>2, <1>9 DEF SymbolInv

-----------------------------------------------------------------------------
(* SymbolTable::new *)

(* The entries of a table, all of them. *)
LEMMA WalkAll ==
  ASSUME NEW T, NEW s \in Seq(T)
  PROVE  Walk(s, Len(s)) = s
<1>1. Len(s) \in Nat /\ DOMAIN s = 1 .. Len(s) /\ s = [i \in 1 .. Len(s) |-> s[i]]
  OBVIOUS
<1>2. \A i \in 1 .. Len(s) : s[IF i <= Len(s) THEN i ELSE Len(s)] = s[i]
  BY <1>1
<1> QED
  BY <1>1, <1>2 DEF Walk

LEMMA OnlyOne ==
  ASSUME NEW x, NEW S, S = {x}
  PROVE  (CHOOSE p \in S : TRUE) = x
OBVIOUS

LEMMA OnlyPair ==
  ASSUME NEW x, NEW y, NEW S, S = {<<x, y>>}
  PROVE  (CHOOSE p \in S : TRUE)[2] = y
<1> DEFINE c == CHOOSE p \in S : TRUE
<1>1. c = <<x, y>>
  BY OnlyOne
<1> HIDE DEF c
<1>2. c[2] = y
  BY <1>1
<1> QED
  BY <1>2 DEF c

LEMMA DynOfMade ==
  ASSUME DynInv, dyn # NoDyn, Made
  PROVE  /\ Is(dyn.hashtab, "hash") /\ Is(dyn.symtab, "sym") /\ Is(dyn.strtab, "str")
         /\ dyn.version_idx = {Base + o : o \in Final("VERSYM")}
         /\ Final("VERSYM") \subseteq {Place["versym"]}
         /\ Final("VERSYM") # {} =>
              /\ defs = image.defs /\ needs = image.needs
              /\ \A p \in dyn.verdef : Is(p[1], "verdef")
              /\ \A p \in dyn.verneed : Is(p[1], "verneed")
<1>1. Says(dyn)
  BY DEF DynInv, DynamicParsed, Made
<1>2. Is(dyn.hashtab, "hash")
  <2>1. {dyn.hashtab} = {Base + v : v \in {Place["hash"]}}
    BY <1>1 DEF Says, Addresses, Made
  <2> QED
    BY <2>1 DEF Is
<1>3. Is(dyn.symtab, "sym")
  <2>1. {dyn.symtab} = {Base + v : v \in {Place["sym"]}}
    BY <1>1 DEF Says, Addresses, Made
  <2> QED
    BY <2>1 DEF Is
<1>4. Is(dyn.strtab, "str")
  <2>1. {dyn.strtab} = {Base + v : v \in {Place["str"]}}
    BY <1>1 DEF Says, Addresses, Made
  <2> QED
    BY <2>1 DEF Is
<1>5. dyn.version_idx = {Base + o : o \in Final("VERSYM")} /\ Final("VERSYM") \subseteq {Place["versym"]}
  BY <1>1 DEF Says, Addresses, Made
<1>6. ASSUME Final("VERSYM") # {} PROVE defs = image.defs /\ \A p \in dyn.verdef : Is(p[1], "verdef")
  <2>1. dyn.verdef = Sized(Final("VERDEF"), Final("VERDEFNUM"))
    BY <1>1 DEF Says, Tables
  <2>2. CASE image.defs = <<>>
    <3>1. dyn.verdef = {}
      BY <1>6, <2>1, <2>2 DEF Made, Sized
    <3> QED
      BY <2>2, <3>1 DEF defs
  <2>3. CASE image.defs # <<>>
    <3>1. dyn.verdef = Sized({Place["verdef"]}, {Len(image.defs)})
      BY <1>6, <2>1, <2>3 DEF Made
    <3>2. dyn.verdef = {<<Base + Place["verdef"], Len(image.defs)>>}
      BY <3>1 DEF Sized
    <3>3. defs = Walk(image.defs, Len(image.defs))
      <4>1. dyn.verdef # {}
        BY <3>2
      <4>2. (CHOOSE p \in dyn.verdef : TRUE)[2] = Len(image.defs)
        BY <3>2, OnlyPair
      <4> QED
        BY <4>1, <4>2, Zenon DEF defs
    <3>4. defs = image.defs
      BY <3>3, ImageTyped, WalkAll DEF VersionTables, DynInv, Typed
    <3> QED
      BY <3>2, <3>4 DEF Is
  <2> QED
    BY <2>2, <2>3
<1>7. ASSUME Final("VERSYM") # {} PROVE needs = image.needs /\ \A p \in dyn.verneed : Is(p[1], "verneed")
  <2>1. dyn.verneed = Sized(Final("VERNEED"), Final("VERNEEDNUM"))
    BY <1>1 DEF Says, Tables
  <2>2. CASE image.needs = <<>>
    <3>1. dyn.verneed = {}
      BY <1>7, <2>1, <2>2 DEF Made, Sized
    <3> QED
      BY <2>2, <3>1 DEF needs
  <2>3. CASE image.needs # <<>>
    <3>1. dyn.verneed = Sized({Place["verneed"]}, {Len(image.needs)})
      BY <1>7, <2>1, <2>3 DEF Made
    <3>2. dyn.verneed = {<<Base + Place["verneed"], Len(image.needs)>>}
      BY <3>1 DEF Sized
    <3>3. needs = Walk(image.needs, Len(image.needs))
      <4>1. dyn.verneed # {}
        BY <3>2
      <4>2. (CHOOSE p \in dyn.verneed : TRUE)[2] = Len(image.needs)
        BY <3>2, OnlyPair
      <4> QED
        BY <4>1, <4>2, Zenon DEF needs
    <3>4. needs = image.needs
      BY <3>3, ImageTyped, WalkAll DEF VersionTables, DynInv, Typed
    <3> QED
      BY <3>2, <3>4 DEF Is
  <2> QED
    BY <2>2, <2>3
<1> QED
  BY <1>2, <1>3, <1>4, <1>5, <1>6, <1>7

LEMMA NewFailsKeeps ==
  ASSUME SymbolInv, NewWild \/ NewPanic
  PROVE  SymbolInv'
<1>1. /\ DynInv /\ TableInv /\ pc = "parsed" /\ UNCHANGED <<image, build, pos, acc, dyn, tabVars>>
      /\ pc' \in {"panic", "wild"}
  BY DEF SymbolInv, NewWild, NewPanic
<1>2. dyn # NoDyn
  BY <1>1 DEF DynInv, Stage
<1>3. DynInv'
  BY <1>1, <1>2, AfterKeeps
<1>4. ~Made
  <2> SUFFICES ASSUME Made PROVE FALSE
    OBVIOUS
  <2>1. /\ Is(dyn.hashtab, "hash") /\ Is(dyn.strtab, "str")
        /\ dyn.version_idx = {Base + o : o \in Final("VERSYM")}
        /\ Final("VERSYM") # {} =>
              /\ defs = image.defs /\ needs = image.needs
              /\ \A p \in dyn.verdef : Is(p[1], "verdef")
              /\ \A p \in dyn.verneed : Is(p[1], "verneed")
    BY <1>1, <1>2, DynOfMade
  <2>2. VersionRead => Final("VERSYM") # {}
    BY <2>1 DEF VersionRead
  <2>3. ~NewReadsWild
    BY <2>1, <2>2 DEF NewReadsWild
  <2>4. VersionRead /\ NewPanics(image.defs, image.needs)
    BY <2>1, <2>2, <2>3 DEF NewWild, NewPanic
  <2>5. VersionsMade(image) /\ VersionTables(image)
    BY <1>1, <2>2, <2>4, ImageTyped DEF Made, DynInv, Typed
  <2>6. ASSUME NEW w \in Writes(image.defs, image.needs)
        PROVE  Written(image.defs, image.needs, w).ndx <= NdxMax(image.defs, image.needs)
    <3>1. w \in {0} \X DOMAIN image.defs \/ \E i \in DOMAIN image.needs : w \in {i} \X DOMAIN image.needs[i]
      BY DEF Writes
    <3>2. CASE w \in {0} \X DOMAIN image.defs
      BY <2>5, <3>2, NdxMaxBounds DEF Written
    <3>3. CASE \E i \in DOMAIN image.needs : w \in {i} \X DOMAIN image.needs[i]
      <4>1. PICK i \in DOMAIN image.needs : w \in {i} \X DOMAIN image.needs[i]
        BY <3>3
      <4>2. w[1] = i /\ w[2] \in DOMAIN image.needs[i] /\ w[1] # 0
        BY <2>5, <4>1, TablesTyped
      <4> QED
        BY <2>5, <4>2, NdxMaxBounds DEF Written
    <3> QED
      BY <3>1, <3>2, <3>3
  <2>7. \A i \in DOMAIN image.defs : image.defs[i].names # <<>>
    BY <2>5 DEF VersionsMade
  <2> QED
    BY <2>4, <2>6, <2>7 DEF NewPanics
<1>5. TableInv'
  BY <1>1, <1>4, ElsewhereKept
<1> QED
  BY <1>3, <1>5 DEF SymbolInv

LEMMA NewKeeps ==
  ASSUME SymbolInv, New
  PROVE  SymbolInv'
<1>1. /\ DynInv /\ TableInv /\ pc = "parsed" /\ pc' = "idle"
      /\ image' = image /\ build' = build /\ pos' = pos /\ acc' = acc /\ dyn' = dyn
      /\ query' = query /\ answer' = answer /\ garbage' = garbage
  BY DEF SymbolInv, New
<1>2. dyn # NoDyn
  BY <1>1 DEF DynInv, Stage
<1>3. DynInv'
  BY <1>1, <1>2, AfterKeeps
<1>4. Made' = Made /\ Final("VERSYM")' = Final("VERSYM")
  BY <1>1, MadeKept, EmittedKept
<1>5. TabRight'
  <2> SUFFICES ASSUME Made
               PROVE  /\ tab'.symtab = Base + Place["sym"] /\ tab'.strtab = Base + Place["str"]
                      /\ tab'.version = IF build.version /\ Final("VERSYM") # {} THEN {LibVersions} ELSE {}
    BY <1>1, <1>4 DEF TabRight, LibVersions
  <2> DEFINE T(a) == [at |-> a, ids |-> image.ids, slots |-> Slots(defs, needs)]
  <2>1. /\ tab'.symtab = dyn.symtab /\ tab'.strtab = dyn.strtab
        /\ tab'.version = IF VersionRead THEN {T(a) : a \in dyn.version_idx} ELSE {}
    BY DEF New
  <2>2. /\ Is(dyn.symtab, "sym") /\ Is(dyn.strtab, "str")
        /\ dyn.version_idx = {Base + o : o \in Final("VERSYM")} /\ Final("VERSYM") \subseteq {Place["versym"]}
        /\ Final("VERSYM") # {} => defs = image.defs /\ needs = image.needs
    BY <1>1, <1>2, DynOfMade
  <2>3. VersionRead = (build.version /\ Final("VERSYM") # {})
    <3>1. dyn.version_idx # {} <=> Final("VERSYM") # {}
      BY <2>2
    <3> QED
      BY <3>1 DEF VersionRead
  <2>4. ASSUME Final("VERSYM") # {} PROVE {T(a) : a \in dyn.version_idx} = {LibVersions}
    <3>1. dyn.version_idx = {Base + Place["versym"]}
      BY <2>2, <2>4
    <3>2. T(Base + Place["versym"]) = LibVersions
      BY <2>2, <2>4 DEF LibVersions
    <3> HIDE DEF T
    <3> QED
      BY <3>1, <3>2
  <2> HIDE DEF T
  <2> QED
    BY <2>1, <2>2, <2>3, <2>4 DEF Is
<1>6. WalkRight' /\ CountRight'
  BY <1>1 DEF WalkRight, CountRight
<1>7. QueryRight'
  BY <1>1 DEF QueryRight, TableInv
<1>8. StaysInTables' /\ PanicsExplained'
  BY <1>1, <1>4 DEF StaysInTables, PanicsExplained, TableInv
<1>9. LookupMatches' /\ CountExact'
  <2>1. answer' = Nothing
    BY <1>1 DEF QueryRight, TableInv
  <2> QED
    BY <2>1 DEF LookupMatches, CountExact, Answered, Nothing
<1> QED
  BY <1>3, <1>5, <1>6, <1>7, <1>8, <1>9 DEF SymbolInv, TableInv

-----------------------------------------------------------------------------
(* Lookups. *)

(* From the bloom filter and the bucket to the chain. *)
LEMMA LookupKeeps ==
  ASSUME SymbolInv, pc = "idle", NEW q, Lookup(q), q.name \in Names,
         q.version = {} \/ \E w \in q.version : q.version = {w}, ~build.version => q.version = {}
  PROVE  SymbolInv'
<1> DEFINE h == GnuHash[q.name]
           b == h % hash.nbucket
<1>1. /\ DynInv /\ TableInv /\ query' = q
      /\ image' = image /\ build' = build /\ pos' = pos /\ acc' = acc /\ dyn' = dyn
      /\ tab' = tab /\ garbage' = garbage
      /\ \/ Bloom(h) /\ Bucket(h) # 0 /\ pc' = "walk" /\ cur' = Bucket(h) /\ answer' = Nothing
         \/ ~(Bloom(h) /\ Bucket(h) # 0) /\ pc' = "idle" /\ answer' = NotFound
  BY DEF SymbolInv, Lookup
<1>2. dyn # NoDyn
  BY <1>1 DEF DynInv, Stage
<1>3. DynInv'
  BY <1>1, <1>2, AfterKeeps
<1>4. Made' = Made /\ hash' = hash /\ Hashed' = Hashed /\ \A i : BucketOf(i)' = BucketOf(i)
  BY <1>1, MadeKept
<1>5. ASSUME Made PROVE /\ b \in 0 .. hash.nbucket - 1 /\ Bucket(h) = hash.buckets[b + 1]
                        /\ image \in Images /\ HashMade
  <2>1. image \in Images /\ HashMade
    BY <1>1, <1>5 DEF DynInv, Typed, Made
  <2> QED
    BY <2>1, HashFacts DEF Bucket
<1>6. ASSUME NEW i \in Candidates' PROVE i \in Hashed /\ image.syms[i].name = q.name
  BY <1>1, <1>4 DEF Candidates
<1>7. ASSUME Made, NEW i \in Candidates' PROVE BucketOf(i) = b /\ Bloom(h) /\ i \in Hashed
  BY <1>5, <1>6, <1>7, SameNameSameHash
<1> HIDE DEF h, b
<1>8. ASSUME Made, answer' = NotFound PROVE Candidates' = {}
  <2> SUFFICES ASSUME NEW i \in Candidates' PROVE FALSE
    OBVIOUS
  <2>1. Bucket(h) = 0
    BY <1>1, <1>7, <1>8 DEF NotFound, Nothing
  <2>2. \A j \in Hashed : BucketOf(j) # b
    BY <1>5, <1>8, <2>1, BucketStart, HashFacts
  <2> QED
    BY <1>7, <1>8, <2>2
<1>9. LookupMatches' /\ CountExact'
  <2>1. CASE answer' = Nothing
    BY <2>1 DEF LookupMatches, CountExact, Answered, Nothing
  <2>2. CASE answer' = NotFound
    BY <1>4, <1>8, <2>2 DEF LookupMatches, CountExact, NotFound
  <2> QED
    BY <1>1, <2>1, <2>2
<1>10. WalkRight'
  <2> SUFFICES ASSUME Made, pc' = "walk"
               PROVE  /\ cur' \in Hashed /\ BucketOf(cur') = b
                      /\ \A j \in Hashed : j < cur' => j \notin Candidates'
    BY <1>1, <1>4 DEF WalkRight, BucketOf, h, b
  <2>1. cur' = Bucket(h) /\ Bucket(h) # 0
    BY <1>1
  <2>2. cur' \in Hashed /\ BucketOf(cur') = b /\ \A j \in Hashed : BucketOf(j) = b => cur' <= j
    BY <1>5, <2>1, BucketStart
  <2>3. Hashed \subseteq Nat
    BY <1>5, HashFacts
  <2> QED
    BY <1>7, <2>2, <2>3
<1>11. TabRight'
  <2>1. LibVersions' = LibVersions /\ Final("VERSYM")' = Final("VERSYM")
    BY <1>1, EmittedKept DEF LibVersions
  <2> QED
    BY <1>1, <1>4, <2>1 DEF TabRight, TableInv
<1>12. QueryRight' /\ CountRight'
  BY <1>1 DEF QueryRight, CountRight
<1>13. StaysInTables' /\ PanicsExplained'
  BY <1>1, <1>4 DEF StaysInTables, PanicsExplained, TableInv
<1> QED
  BY <1>3, <1>9, <1>10, <1>11, <1>12, <1>13 DEF SymbolInv, TableInv

(* get, get_version *)
LEMMA GetKeeps ==
  ASSUME SymbolInv, NEW n \in Names, Get(n) \/ \E v \in Versions : GetVersion(n, v)
  PROVE  SymbolInv'
<1>1. CASE Get(n)
  <2> DEFINE q == [name |-> n, version |-> {}]
  <2>1. pc = "idle" /\ Lookup(q)
    BY <1>1 DEF Get
  <2>2. q.name = n /\ q.version = {}
    OBVIOUS
  <2> HIDE DEF q
  <2> QED
    BY <2>1, <2>2, LookupKeeps
<1>2. ASSUME NEW v \in Versions, GetVersion(n, v) PROVE SymbolInv'
  <2> DEFINE q == [name |-> n, version |-> {NewVersion(v)}]
  <2>1. pc = "idle" /\ build.version /\ Lookup(q)
    BY <1>2 DEF GetVersion
  <2>2. q.name = n /\ q.version = {NewVersion(v)}
    OBVIOUS
  <2>3. \E w \in q.version : q.version = {w}
    BY <2>2
  <2> HIDE DEF q
  <2> QED
    BY <2>1, <2>2, <2>3, LookupKeeps
<1> QED
  BY <1>1, <1>2

LEMMA ImporterTyped ==
  ASSUME NEW imp \in Importers, NEW i \in DOMAIN imp.names
  PROVE  /\ VersionTables(imp) /\ imp.names[i] \in Names /\ i \in DOMAIN imp.ids
         /\ imp.ids[i].ndx \in Nat
<1>1. VersionTables(imp) /\ imp.names \in Seq(Names) /\ Len(imp.ids) = Len(imp.names)
  BY TableAssumption
<1>2. i \in 1 .. Len(imp.names) /\ imp.names[i] \in Names
  BY <1>1, SeqTyped
<1>3. i \in DOMAIN imp.ids /\ imp.ids[i].ndx \in Ndx
  BY <1>1, <1>2, TablesTyped
<1> QED
  BY <1>1, <1>2, <1>3 DEF Ndx

(* A relocation of an importing object. *)
LEMMA ResolveKeeps ==
  ASSUME SymbolInv, NEW imp \in Importers, NEW i \in DOMAIN imp.names, Resolve(imp, i)
  PROVE  SymbolInv'
<1> DEFINE q == [name |-> imp.names[i], version |-> Requirement(imp, i)]
           k == imp.ids[i].ndx
<1>1. pc = "idle" /\ Lookup(q) /\ (Indexed(imp, i) => k \in DOMAIN Array(imp) /\ Array(imp)[k] # {})
  BY DEF Resolve
<1>2. q.name \in Names /\ q.version = Requirement(imp, i)
  BY ImporterTyped
<1>3. ~build.version => Requirement(imp, i) = {}
  BY DEF Requirement
<1>4. ASSUME Requirement(imp, i) # {}
      PROVE  \E w \in Requirement(imp, i) : Requirement(imp, i) = {w}
  <2>1. build.version /\ k > 1
    BY <1>4, ImporterTyped DEF Requirement, GetRequirement
  <2>2. k \in DOMAIN Array(imp) /\ Array(imp)[k] # {}
    BY <1>1, <2>1 DEF Indexed
  <2>3. \E s : Array(imp)[k] = {s}
    <3> DEFINE E(w) == Written(imp.defs, imp.needs, w)
               at == {w \in Writes(imp.defs, imp.needs) : E(w).ndx = k}
               S == Slots(imp.defs, imp.needs)
    <3>1. VersionTables(imp) /\ k \in Nat /\ S = Array(imp)
      BY ImporterTyped DEF Array
    <3>2. /\ at = {} /\ k \in DOMAIN S => S[k] = {}
          /\ at # {} => \E w \in at : S[k] = {[name |-> E(w).name, hash |-> E(w).hash]}
      BY <3>1, SlotIs
    <3> HIDE DEF at, E, S
    <3> QED
      BY <2>2, <3>1, <3>2
  <2>4. PICK s : Array(imp)[k] = {s}
    BY <2>3
  <2> DEFINE w == [name |-> s.name, hash |-> s.hash, hidden |-> imp.ids[i].hidden]
  <2>5. Requirement(imp, i) = {w}
    BY <2>1, <2>4, ImporterTyped DEF Requirement, GetRequirement
  <2> HIDE DEF w
  <2> QED
    BY <2>5
<1> HIDE DEF q
<1> QED
  BY <1>1, <1>2, <1>3, <1>4, LookupKeeps

LEMMA ResolveFailsKeeps ==
  ASSUME SymbolInv, NEW imp \in Importers, NEW i \in DOMAIN imp.names, ResolveFails(imp, i)
  PROVE  SymbolInv'
<1>1. /\ DynInv /\ TableInv /\ pc = "idle" /\ pc' \in {"wild", "panic"} /\ answer' = Refused(imp)
      /\ UNCHANGED <<image, build, pos, acc, dyn>>
      /\ image' = image /\ build' = build /\ dyn' = dyn
      /\ tab' = tab /\ query' = query /\ garbage' = garbage
  BY DEF SymbolInv, ResolveFails
<1>2. dyn # NoDyn
  BY <1>1 DEF DynInv, Stage
<1>3. DynInv'
  BY <1>1, <1>2, AfterKeeps
<1>4. Made' = Made
  BY <1>1, MadeKept
<1>5. ~VersionsMade(imp)
  <2> SUFFICES ASSUME VersionsMade(imp) PROVE FALSE
    OBVIOUS
  <2>1. imp.ids[i].ndx \in DOMAIN Array(imp) /\ Array(imp)[imp.ids[i].ndx] # {}
    BY ImporterTyped, SlotMade DEF ResolveFails, Indexed, Array
  <2> QED
    BY <2>1 DEF ResolveFails
<1>6. answer'.kind = "importer" /\ answer'.imp = imp
  BY <1>1 DEF Refused
<1>7. StaysInTables' /\ PanicsExplained'
  BY <1>1, <1>4, <1>5, <1>6 DEF StaysInTables, PanicsExplained, TableInv
<1>8. LookupMatches' /\ CountExact'
  BY <1>6 DEF LookupMatches, CountExact, Answered
<1>9. QueryRight' /\ TabRight' /\ WalkRight' /\ CountRight'
  BY <1>1 DEF QueryRight, TabRight, WalkRight, CountRight, TableInv
<1> QED
  BY <1>3, <1>7, <1>8, <1>9 DEF SymbolInv, TableInv

-----------------------------------------------------------------------------
(* One link of a chain. *)

(* With version tables, every index has its place in the array. *)
LEMMA IndexInArray ==
  ASSUME image \in Images, Made, Final("VERSYM") # {}, NEW i \in Hashed
  PROVE  i \in DOMAIN image.ids /\ image.ids[i].ndx \in DOMAIN Slots(image.defs, image.needs)
<1>1. /\ VersionTables(image) /\ VersionsMade(image) /\ HashMade
      /\ Len(image.ids) = Len(image.syms) /\ (image.defs # <<>> \/ image.needs # <<>>)
  BY ImageTyped DEF Made
<1>2. i \in DOMAIN image.ids /\ image.ids[i].ndx \in Nat
  <2>1. i \in 1 .. Len(image.syms)
    BY <1>1, HashFacts DEF Hashed
  <2>2. i \in DOMAIN image.ids /\ image.ids[i].ndx \in Ndx
    BY <1>1, <2>1, TablesTyped
  <2> QED
    BY <2>2 DEF Ndx
<1>3. CASE image.ids[i].ndx > 1
  BY <1>1, <1>2, <1>3, SlotMade
<1>4. CASE image.ids[i].ndx <= 1
  <2>1. NdxMax(image.defs, image.needs) \in Nat /\ NdxMax(image.defs, image.needs) >= 1
    <3>1. CASE image.defs # <<>>
      <4>1. 1 \in DOMAIN image.defs
        BY <1>1, <3>1, FirstOf DEF VersionTables
      <4>2. image.defs[1].ndx >= 1 /\ image.defs[1].ndx <= NdxMax(image.defs, image.needs)
        BY <1>1, <4>1, NdxMaxBounds DEF VersionsMade
      <4>3. image.defs[1].ndx \in Nat
        BY <1>1, <4>1, TablesTyped DEF Ndx
      <4> QED
        BY <1>1, <4>2, <4>3, NdxMaxBounds
    <3>2. CASE image.needs # <<>>
      <4>1. 1 \in DOMAIN image.needs
        BY <1>1, <3>2, FirstOf DEF VersionTables
      <4>2. 1 \in DOMAIN image.needs[1]
        <5>1. image.needs[1] # <<>>
          BY <1>1, <4>1 DEF VersionsMade
        <5>2. image.needs[1] \in Seq([ndx : Ndx, hash : Nat, name : DOMAIN VerHash])
          BY <1>1, <3>2, FirstOf DEF VersionTables
        <5> QED
          BY <5>1, <5>2, FirstOf
      <4>3. image.needs[1][1].ndx >= 2 /\ image.needs[1][1].ndx <= NdxMax(image.defs, image.needs)
        BY <1>1, <4>1, <4>2, NdxMaxBounds DEF VersionsMade
      <4>4. image.needs[1][1].ndx \in Nat
        BY <1>1, <4>1, <4>2, TablesTyped DEF Ndx
      <4> QED
        BY <1>1, <4>3, <4>4, NdxMaxBounds
    <3> QED
      BY <1>1, <3>1, <3>2
  <2>2. DOMAIN Slots(image.defs, image.needs) = 0 .. NdxMax(image.defs, image.needs)
    BY DEF Slots
  <2> QED
    BY <1>2, <1>4, <2>1, <2>2
<1> QED
  BY <1>2, <1>3, <1>4

(* The one entry check_match looks at. *)
Entry(i) == Slots(image.defs, image.needs)[image.ids[i].ndx]

(* check_match of a symbol of the name, against a version: it reads what   *)
(* nobody wrote, or it says yes to what is acceptable and no to the rest.  *)
LEMMA MatchOf ==
  ASSUME image \in Images, Made, Final("VERSYM") # {}, NEW i \in Hashed, NEW w, NEW O,
         O = CheckMatch({LibVersions}, i, {w})
  PROVE  /\ i \in DOMAIN image.ids /\ image.ids[i].ndx \in DOMAIN Slots(image.defs, image.needs)
         /\ "panic" \notin O
         /\ Entry(i) = {} => /\ image.ids[i].ndx <= 1
                             /\ \A k \in DOMAIN image.defs : image.defs[k].ndx # image.ids[i].ndx
                             /\ "no" \in O => w.hidden
                             /\ ~w.hidden => Accepts(i, {w})
         /\ Entry(i) # {} => /\ O \subseteq {"yes", "no"}
                             /\ w.hash = VerHash[w.name] =>
                                  ("yes" \in O => Accepts(i, {w})) /\ ("no" \in O => ~Accepts(i, {w}))
<1> DEFINE id == image.ids[i]
           S == Slots(image.defs, image.needs)
           default == ~w.hidden /\ ~id.hidden
<1>1. i \in DOMAIN image.ids /\ id.ndx \in DOMAIN S
  BY IndexInArray
<1>2. VersionTables(image) /\ VersionsMade(image)
  BY ImageTyped DEF Made
<1>3. /\ S[id.ndx] # {} => \E s : /\ S[id.ndx] = {s} /\ VersionsOf(image, i) = {s.name}
                                  /\ s.hash = VerHash[s.name]
      /\ S[id.ndx] = {} => /\ id.ndx <= 1 /\ ~id.hidden
                           /\ \A k \in DOMAIN image.defs : image.defs[k].ndx # id.ndx
  <2>1. S = Slots(image.defs, image.needs)
    OBVIOUS
  <2> HIDE DEF S
  <2>2. /\ id.ndx \in DOMAIN S /\ S[id.ndx] # {} =>
              \E s : /\ S[id.ndx] = {s} /\ VersionsOf(image, i) = {s.name} /\ s.hash = VerHash[s.name]
        /\ id.ndx \in DOMAIN S /\ S[id.ndx] = {} =>
              /\ id.ndx <= 1 /\ ~id.hidden /\ VersionsOf(image, i) = {}
              /\ \A k \in DOMAIN image.defs : image.defs[k].ndx # id.ndx
    BY <1>1, <1>2, <2>1, SlotMade
  <2> QED
    BY <1>1, <2>2
<1>4. O = IF S[id.ndx] = {} THEN {"yes", "wild"} \cup IF default THEN {} ELSE {"no"}
          ELSE { IF (\E s \in S[id.ndx] : s.hash = w.hash /\ s.name = w.name) \/ default
                 THEN "yes" ELSE "no" }
  <2>1. LibVersions.ids = image.ids /\ LibVersions.slots = S
    BY DEF LibVersions
  <2> HIDE DEF S
  <2> QED
    BY <1>1, <2>1 DEF CheckMatch
<1>5. Accepts(i, {w}) <=> (w.name \in VersionsOf(image, i) \/ default)
  BY DEF Accepts
<1>6. Entry(i) = S[id.ndx]
  BY DEF Entry
<1> HIDE DEF S, id
<1>7. "panic" \notin O
  BY <1>4
<1>8. CASE S[id.ndx] = {}
  BY <1>1, <1>3, <1>4, <1>5, <1>6, <1>7, <1>8 DEF S, id
<1>9. CASE S[id.ndx] # {}
  <2>1. PICK s : S[id.ndx] = {s} /\ VersionsOf(image, i) = {s.name} /\ s.hash = VerHash[s.name]
    BY <1>3, <1>9
  <2>2. O = {IF (s.hash = w.hash /\ s.name = w.name) \/ default THEN "yes" ELSE "no"}
    BY <1>4, <1>9, <2>1
  <2>3. Accepts(i, {w}) <=> (w.name = s.name \/ default)
    BY <1>5, <2>1
  <2> QED
    BY <1>1, <1>6, <1>7, <1>9, <2>1, <2>2, <2>3 DEF S, id
<1> QED
  BY <1>8, <1>9

(* Where a walk through an image linkers make may be. *)
LEMMA WalkState ==
  ASSUME SymbolInv, pc = "walk", Made
  PROVE  /\ image \in Images /\ HashMade /\ cur \in Hashed /\ InChains
         /\ Is(tab.symtab, "sym") /\ Is(tab.strtab, "str")
         /\ tab.version = {} \/ (Final("VERSYM") # {} /\ tab.version = {LibVersions})
         /\ Is(LibVersions.at, "versym")
         /\ SameName => SameHash
<1>1. image \in Images /\ HashMade
  BY DEF SymbolInv, DynInv, Typed, Made
<1>2. cur \in Hashed
  BY DEF SymbolInv, TableInv, WalkRight
<1>3. InChains
  <2>1. cur - hash.symbias + 1 \in 1 .. Len(hash.chains) /\ cur \in Nat /\ hash.symbias \in Nat
    BY <1>1, <1>2, HashFacts
  <2> QED
    BY <1>1, <1>2, <2>1 DEF InChains, Hashed
<1>4. /\ tab.symtab = Base + Place["sym"] /\ tab.strtab = Base + Place["str"]
      /\ tab.version = IF build.version /\ Final("VERSYM") # {} THEN {LibVersions} ELSE {}
  BY DEF SymbolInv, TableInv, TabRight
<1>5. Is(LibVersions.at, "versym")
  BY DEF LibVersions, Is
<1>6. SameName => SameHash
  BY <1>1, <1>2, SameNameSameHash DEF SameName, SameHash, Link
<1> QED
  BY <1>1, <1>2, <1>3, <1>4, <1>5, <1>6 DEF Is

LEMMA WalkWildKeeps ==
  ASSUME SymbolInv, WalkWild \/ CountWild
  PROVE  SymbolInv'
<1>1. /\ DynInv /\ TableInv /\ pc \in {"walk", "count"} /\ pc' = "wild"
      /\ UNCHANGED <<image, build, pos, acc, dyn, tabVars>>
  BY DEF SymbolInv, WalkWild, CountWild
<1>2. dyn # NoDyn
  BY <1>1 DEF DynInv, Stage
<1>3. DynInv'
  BY <1>1, <1>2, AfterKeeps
<1>4. ~Made
  <2> SUFFICES ASSUME Made PROVE FALSE
    OBVIOUS
  <2>1. CASE WalkWild
    <3>1. pc = "walk"
      BY <2>1 DEF WalkWild
    <3>2. /\ InChains /\ Is(tab.symtab, "sym") /\ Is(tab.strtab, "str")
          /\ \A t \in tab.version : Is(t.at, "versym")
      BY <3>1, WalkState
    <3> QED
      BY <2>1, <3>2 DEF WalkWild
  <2>2. CASE CountWild
    <3>1. pc = "count" /\ ~InChains
      BY <2>2 DEF CountWild
    <3>2. cur \in Hashed /\ image \in Images /\ HashMade
      BY <3>1 DEF SymbolInv, TableInv, CountRight, DynInv, Typed, Made
    <3>3. cur - hash.symbias + 1 \in 1 .. Len(hash.chains) /\ cur >= hash.symbias
      BY <3>2, HashFacts DEF Hashed
    <3>4. InChains
      BY <3>2, <3>3, HashFacts DEF InChains
    <3> QED
      BY <3>1, <3>4
  <2> QED
    BY <2>1, <2>2
<1>5. TableInv'
  BY <1>1, <1>4, ElsewhereKept
<1> QED
  BY <1>3, <1>5 DEF SymbolInv

(* When a link of the chain reads a version nobody wrote. *)
LEMMA GarbageIs ==
  ASSUME SymbolInv, pc = "walk", Made
  PROVE  /\ ReadsGarbage \subseteq {cur}
         /\ cur \in ReadsGarbage <=>
              /\ SameHash /\ SameName /\ query.version # {} /\ tab.version # {} /\ Entry(cur) = {}
<1>1. /\ image \in Images /\ cur \in Hashed
      /\ tab.version = {} \/ (Final("VERSYM") # {} /\ tab.version = {LibVersions})
  BY WalkState
<1>2. CASE tab.version = {}
  BY <1>2 DEF ReadsGarbage
<1>3. CASE Final("VERSYM") # {} /\ tab.version = {LibVersions}
  <2> DEFINE S == Slots(image.defs, image.needs)
  <2>1. cur \in DOMAIN image.ids /\ image.ids[cur].ndx \in DOMAIN S
    BY <1>1, <1>3, IndexInArray
  <2>2. LibVersions.ids = image.ids /\ LibVersions.slots = S
    BY DEF LibVersions
  <2>3. Entry(cur) = S[image.ids[cur].ndx]
    BY DEF Entry
  <2> HIDE DEF S
  <2> QED
    BY <1>3, <2>1, <2>2, <2>3 DEF ReadsGarbage
<1> QED
  BY <1>1, <1>2, <1>3

(* What every step of a walk leaves right. *)
LEMMA WalkStep ==
  ASSUME SymbolInv, Reading, garbage' = garbage \cup ReadsGarbage,
         UNCHANGED <<image, build, pos, acc, dyn, tab, query>>, pc' \in {"idle", "walk", "panic", "wild"}
  PROVE  /\ DynInv' /\ TabRight' /\ CountRight'
         /\ Made' = Made /\ Hashed' = Hashed /\ hash' = hash /\ \A i : BucketOf(i)' = BucketOf(i)
         /\ Candidates' = Candidates /\ HashRight' = HashRight
         /\ Trusted' => Trusted
         /\ Made => \A i \in garbage' : /\ image.ids[i].ndx <= 1
                                        /\ \A k \in DOMAIN image.defs : image.defs[k].ndx # image.ids[i].ndx
<1>1. /\ DynInv /\ TableInv /\ pc = "walk" /\ image' = image /\ build' = build /\ dyn' = dyn
      /\ tab' = tab /\ query' = query
  BY DEF SymbolInv, Reading
<1>2. dyn # NoDyn
  BY <1>1 DEF DynInv, Stage
<1>3. DynInv'
  BY <1>1, <1>2, AfterKeeps
<1>4. Made' = Made /\ Hashed' = Hashed /\ hash' = hash /\ \A i : BucketOf(i)' = BucketOf(i)
  BY <1>1, MadeKept
<1>5. Candidates' = Candidates /\ HashRight' = HashRight
  BY CandidatesKept
<1>6. TabRight'
  <2>1. LibVersions' = LibVersions /\ Final("VERSYM")' = Final("VERSYM")
    BY <1>1, EmittedKept DEF LibVersions
  <2> QED
    BY <1>1, <1>4, <2>1 DEF TabRight, TableInv
<1>7. CountRight'
  BY DEF CountRight
<1>8. Trusted' => Trusted
  BY <1>1, <1>5 DEF Trusted
<1>9. ASSUME Made, NEW i \in garbage'
      PROVE  image.ids[i].ndx <= 1 /\ \A k \in DOMAIN image.defs : image.defs[k].ndx # image.ids[i].ndx
  <2>1. CASE i \in garbage
    BY <1>1, <1>9, <2>1 DEF TableInv, StaysInTables
  <2>2. CASE i \in ReadsGarbage
    <3>1. i = cur /\ query.version # {} /\ tab.version # {} /\ Entry(cur) = {}
      BY <1>1, <1>9, <2>2, GarbageIs
    <3>2. /\ image \in Images /\ cur \in Hashed /\ Final("VERSYM") # {}
      BY <1>1, <1>9, <3>1, WalkState
    <3>3. image.ids[cur].ndx <= 1 /\ \A k \in DOMAIN image.defs : image.defs[k].ndx # image.ids[cur].ndx
      BY <1>9, <3>1, <3>2, MatchOf
    <3> QED
      BY <3>1, <3>3
  <2> QED
    BY <2>1, <2>2
<1> QED
  BY <1>3, <1>4, <1>5, <1>6, <1>7, <1>8, <1>9

(* What check_match may answer at a link, and what that says of it. *)
LEMMA WalkOutcomes ==
  ASSUME SymbolInv, pc = "walk", Made, garbage' = garbage \cup ReadsGarbage, query' = query
  PROVE  /\ "panic" \in Outcomes => tab.version = {} /\ query.version # {} /\ SameName
         /\ "wild" \in Outcomes => cur \in garbage'
         /\ "yes" \in Outcomes /\ Trusted' => cur \in Candidates
         /\ "no" \in Outcomes /\ Trusted' => cur \notin Candidates
<1>1. /\ image \in Images /\ cur \in Hashed /\ (SameName => SameHash)
      /\ tab.version = {} \/ (Final("VERSYM") # {} /\ tab.version = {LibVersions})
  BY WalkState
<1>2. cur \in Candidates <=> SameName /\ (tab.version # {} => Accepts(cur, query.version))
  BY <1>1 DEF Candidates, SameName
<1>3. CASE ~(SameHash /\ SameName)
  BY <1>1, <1>2, <1>3 DEF Outcomes
<1>4. CASE SameHash /\ SameName /\ query.version = {}
  <2>1. Outcomes = {"yes"}
    BY <1>4 DEF Outcomes, CheckMatch
  <2>2. Accepts(cur, query.version)
    BY <1>4 DEF Accepts
  <2> QED
    BY <1>2, <1>4, <2>1, <2>2
<1>5. CASE SameHash /\ SameName /\ query.version # {} /\ tab.version = {}
  BY <1>5 DEF Outcomes, CheckMatch
<1>6. CASE SameHash /\ SameName /\ query.version # {} /\ tab.version # {}
  <2>1. PICK w \in query.version : query.version = {w}
    BY <1>6 DEF SymbolInv, TableInv, QueryRight
  <2>2. Outcomes = CheckMatch({LibVersions}, cur, {w}) /\ Final("VERSYM") # {}
    BY <1>1, <1>6, <2>1 DEF Outcomes
  <2>3. /\ "panic" \notin Outcomes
        /\ Entry(cur) = {} => /\ "no" \in Outcomes => w.hidden
                              /\ ~w.hidden => Accepts(cur, {w})
        /\ Entry(cur) # {} => /\ Outcomes \subseteq {"yes", "no"}
                              /\ w.hash = VerHash[w.name] =>
                                   /\ "yes" \in Outcomes => Accepts(cur, {w})
                                   /\ "no" \in Outcomes => ~Accepts(cur, {w})
    BY <1>1, <2>2, MatchOf
  <2>4. Trusted' => w.hash = VerHash[w.name] /\ (garbage' = {} \/ ~w.hidden)
    BY <2>1 DEF Trusted, HashRight
  <2>5. CASE Entry(cur) = {}
    <3>1. cur \in garbage'
      BY <1>6, <2>5, GarbageIs
    <3> QED
      BY <1>2, <1>6, <2>1, <2>3, <2>4, <2>5, <3>1
  <2>6. CASE Entry(cur) # {}
    BY <1>2, <1>6, <2>1, <2>3, <2>4, <2>6
  <2> QED
    BY <2>5, <2>6
<1> QED
  BY <1>3, <1>4, <1>5, <1>6

LEMMA WalkFailsKeeps ==
  ASSUME SymbolInv, WalkFails
  PROVE  SymbolInv'
<1>1. /\ Reading /\ pc = "walk" /\ pc' \in Outcomes /\ pc' \in {"panic", "wild"}
      /\ garbage' = garbage \cup ReadsGarbage
      /\ UNCHANGED <<image, build, pos, acc, dyn, tab, query>>
      /\ image' = image /\ build' = build /\ tab' = tab /\ query' = query /\ answer' = answer
  BY DEF WalkFails, Reading
<1>2. /\ DynInv' /\ TabRight' /\ CountRight' /\ Made' = Made /\ Hashed' = Hashed
      /\ Made => \A i \in garbage' : /\ image.ids[i].ndx <= 1
                                     /\ \A k \in DOMAIN image.defs : image.defs[k].ndx # image.ids[i].ndx
  BY <1>1, WalkStep
<1>3. QueryRight /\ answer = Nothing
  BY <1>1 DEF SymbolInv, TableInv, QueryRight
<1>4. QueryRight' /\ WalkRight'
  BY <1>1, <1>3 DEF QueryRight, WalkRight
<1>5. LookupMatches' /\ CountExact'
  BY <1>1, <1>3 DEF LookupMatches, CountExact, Answered, Nothing
<1>6. StaysInTables'
  <2>1. Made /\ pc' = "wild" => garbage' # {}
    BY <1>1, WalkOutcomes
  <2> QED
    BY <1>1, <1>2, <2>1 DEF StaysInTables
<1>7. PanicsExplained'
  <2> SUFFICES ASSUME Made, pc' = "panic"
               PROVE  /\ tab.version = {} /\ query.version # {}
                      /\ \E i \in Hashed : image.syms[i].name = query.name
    BY <1>1, <1>2 DEF PanicsExplained
  <2>1. tab.version = {} /\ query.version # {} /\ SameName
    BY <1>1, WalkOutcomes
  <2>2. cur \in Hashed
    BY <1>1, WalkState
  <2> QED
    BY <2>1, <2>2 DEF SameName
<1> QED
  BY <1>2, <1>4, <1>5, <1>6, <1>7 DEF SymbolInv, TableInv

LEMMA MinIs ==
  ASSUME NEW S \in SUBSET Nat, NEW c \in S, \A j \in S : c <= j
  PROVE  Min(S) = c
<1> DEFINE m == CHOOSE x \in S : \A y \in S : x <= y
<1>1. m \in S /\ \A y \in S : m <= y
  OBVIOUS
<1>2. Min(S) = m
  BY DEF Min
<1> HIDE DEF m
<1> QED
  BY <1>1, <1>2

LEMMA WalkHitKeeps ==
  ASSUME SymbolInv, WalkHit
  PROVE  SymbolInv'
<1>1. /\ Reading /\ pc = "walk" /\ "yes" \in Outcomes /\ pc' = "idle"
      /\ garbage' = garbage \cup ReadsGarbage
      /\ UNCHANGED <<image, build, pos, acc, dyn, tab, query>>
      /\ image' = image /\ build' = build /\ tab' = tab /\ query' = query
      /\ answer' = IF Usable(image.syms[cur]) THEN Found(cur) ELSE NotFound
  BY DEF WalkHit, Reading
<1>2. /\ DynInv' /\ TabRight' /\ CountRight' /\ Made' = Made
      /\ Candidates' = Candidates /\ HashRight' = HashRight /\ (Trusted' => Trusted)
      /\ Made => \A i \in garbage' : /\ image.ids[i].ndx <= 1
                                     /\ \A k \in DOMAIN image.defs : image.defs[k].ndx # image.ids[i].ndx
  BY <1>1, WalkStep
<1>3. QueryRight' /\ WalkRight'
  BY <1>1 DEF QueryRight, WalkRight, SymbolInv, TableInv
<1>4. StaysInTables' /\ PanicsExplained'
  BY <1>1, <1>2 DEF StaysInTables, PanicsExplained
<1>5. CountExact'
  BY <1>1 DEF CountExact, Found, NotFound
<1>6. LookupMatches'
  <2> SUFFICES ASSUME Made, Trusted'
               PROVE  Candidates # {} /\ Min(Candidates) = cur
    BY <1>1, <1>2 DEF LookupMatches, Trusted, Usable
  <2>1. cur \in Candidates
    BY <1>1, WalkOutcomes
  <2>2. \A j \in Hashed : j < cur => j \notin Candidates
    BY <1>1, <1>2 DEF SymbolInv, TableInv, WalkRight
  <2>3. image \in Images /\ HashMade
    BY <1>1, WalkState
  <2>4. Candidates \subseteq Hashed /\ Hashed \subseteq Nat
    BY <2>3, HashFacts DEF Candidates
  <2>5. \A j \in Candidates : cur <= j
    BY <2>1, <2>2, <2>4
  <2> QED
    BY <2>1, <2>4, <2>5, MinIs
<1> QED
  BY <1>2, <1>3, <1>4, <1>5, <1>6 DEF SymbolInv, TableInv

LEMMA WalkOnKeeps ==
  ASSUME SymbolInv, WalkOn
  PROVE  SymbolInv'
<1>1. /\ Reading /\ pc = "walk" /\ "no" \in Outcomes /\ pc' \in {"idle", "walk"}
      /\ garbage' = garbage \cup ReadsGarbage
      /\ UNCHANGED <<image, build, pos, acc, dyn, tab, query>>
      /\ image' = image /\ build' = build /\ tab' = tab /\ query' = query
      /\ \/ Link.stop /\ pc' = "idle" /\ answer' = NotFound
         \/ ~Link.stop /\ pc' = "walk" /\ cur' = cur + 1 /\ answer' = answer
  BY DEF WalkOn, Reading
<1>2. /\ DynInv' /\ TabRight' /\ CountRight' /\ Made' = Made /\ Hashed' = Hashed /\ hash' = hash
      /\ \A i : BucketOf(i)' = BucketOf(i)
      /\ Candidates' = Candidates /\ HashRight' = HashRight /\ (Trusted' => Trusted)
      /\ Made => \A i \in garbage' : /\ image.ids[i].ndx <= 1
                                     /\ \A k \in DOMAIN image.defs : image.defs[k].ndx # image.ids[i].ndx
  BY <1>1, WalkStep
<1>3. QueryRight'
  BY <1>1 DEF QueryRight, SymbolInv, TableInv
<1>4. StaysInTables' /\ PanicsExplained'
  BY <1>1, <1>2 DEF StaysInTables, PanicsExplained
<1>5. CountExact'
  <2>1. answer' = NotFound \/ answer' = Nothing
    BY <1>1 DEF SymbolInv, TableInv, QueryRight
  <2> QED
    BY <2>1 DEF CountExact, NotFound, Nothing
<1>6. ASSUME Made
      PROVE  /\ image \in Images /\ HashMade /\ cur \in Hashed /\ Hashed \subseteq Nat
             /\ BucketOf(cur) = GnuHash[query.name] % hash.nbucket
             /\ Trusted' => \A j \in Hashed : j <= cur => j \notin Candidates
             /\ \A j \in Candidates : j \in Hashed /\ BucketOf(j) = BucketOf(cur)
  <2>1. image \in Images /\ HashMade /\ cur \in Hashed
    BY <1>1, <1>6, WalkState
  <2>2. /\ BucketOf(cur) = GnuHash[query.name] % hash.nbucket
        /\ Trusted => \A j \in Hashed : j < cur => j \notin Candidates
    BY <1>1, <1>6 DEF SymbolInv, TableInv, WalkRight
  <2>3. Trusted' => cur \notin Candidates
    BY <1>1, <1>6, WalkOutcomes
  <2>4. Hashed \subseteq Nat
    BY <2>1, HashFacts
  <2>5. \A j \in Candidates : j \in Hashed /\ image.syms[j].name = query.name
    BY DEF Candidates
  <2>6. \A j \in Candidates : BucketOf(j) = GnuHash[query.name] % hash.nbucket
    BY <2>1, <2>5, SameNameSameHash
  <2>7. Trusted' => \A j \in Hashed : j <= cur => j \notin Candidates
    BY <1>2, <2>1, <2>2, <2>3, <2>4
  <2> QED
    BY <2>1, <2>2, <2>4, <2>5, <2>6, <2>7
<1>7. CASE Link.stop
  <2>1. pc' = "idle" /\ answer' = NotFound
    BY <1>1, <1>7
  <2>2. LookupMatches'
    <3> SUFFICES ASSUME Made, Trusted' PROVE Candidates = {}
      BY <1>2, <2>1 DEF LookupMatches, Trusted
    <3>1. \A j \in Hashed : j > cur => BucketOf(j) # BucketOf(cur)
      BY <1>6, <1>7, StopBit DEF Link
    <3> QED
      BY <1>6, <3>1
  <2>3. WalkRight'
    BY <2>1 DEF WalkRight
  <2> QED
    BY <1>2, <1>3, <1>4, <1>5, <2>2, <2>3 DEF SymbolInv, TableInv
<1>8. CASE ~Link.stop
  <2>1. pc' = "walk" /\ cur' = cur + 1 /\ answer' = Nothing
    BY <1>1, <1>8 DEF SymbolInv, TableInv, QueryRight
  <2>2. LookupMatches'
    BY <2>1 DEF LookupMatches, Answered, Nothing
  <2>3. WalkRight'
    <3> SUFFICES ASSUME Made
                 PROVE  /\ cur + 1 \in Hashed /\ BucketOf(cur + 1) = GnuHash[query.name] % hash.nbucket
                        /\ Trusted' => \A j \in Hashed : j < cur + 1 => j \notin Candidates
      <4>1. BucketOf(cur)' = BucketOf(cur + 1)
        BY <1>1, <1>2, <2>1 DEF BucketOf
      <4> QED
        BY <1>1, <1>2, <2>1, <4>1 DEF WalkRight
    <3>1. cur + 1 \in Hashed /\ BucketOf(cur + 1) = BucketOf(cur)
      BY <1>6, <1>8, StopBit DEF Link
    <3> QED
      BY <1>6, <3>1
  <2> QED
    BY <1>2, <1>3, <1>4, <1>5, <2>2, <2>3 DEF SymbolInv, TableInv
<1> QED
  BY <1>7, <1>8

-----------------------------------------------------------------------------
(* count_syms *)

(* The largest bucket starts the last group of symbols. *)
LEMMA LastBucketIs ==
  ASSUME image \in Images, HashMade
  PROVE  \/ LastBucket = 0 /\ Hashed = {}
         \/ /\ LastBucket \in Hashed /\ LastBucket > 0
            /\ \A j \in Hashed : j > LastBucket => BucketOf(j) = BucketOf(LastBucket)
<1> DEFINE B == {hash.buckets[b] : b \in DOMAIN hash.buckets}
           S == {0} \cup B
<1>1. /\ Len(image.syms) \in Nat /\ hash.nbucket \in Nat /\ hash.nbucket = Len(hash.buckets)
      /\ Hashed \subseteq Nat \ {0}
      /\ \A i \in Hashed : BucketOf(i) \in 0 .. hash.nbucket - 1
      /\ DOMAIN hash.buckets = 1 .. hash.nbucket
  BY HashFacts, ImageTyped DEF hash
<1>2. \A b \in DOMAIN hash.buckets : b - 1 \in 0 .. hash.nbucket - 1 /\ (b - 1) + 1 = b
  BY <1>1
<1>3. \A i \in Hashed : i \in 0 .. Len(image.syms)
  BY <1>1 DEF Hashed
<1>4. ASSUME NEW x \in B, x # 0
      PROVE  x \in Hashed
  <2>1. PICK b \in DOMAIN hash.buckets : x = hash.buckets[b]
    OBVIOUS
  <2>2. hash.buckets[(b - 1) + 1] = x /\ b - 1 \in 0 .. hash.nbucket - 1
    BY <1>2, <2>1
  <2> HIDE DEF B
  <2> QED
    BY <1>4, <2>2, BucketStart
<1>5. ASSUME NEW i \in Hashed
      PROVE  \E x \in B : x \in Hashed /\ BucketOf(x) = BucketOf(i) /\ x <= i
  <2> DEFINE b == BucketOf(i)
  <2>1. b \in 0 .. hash.nbucket - 1 /\ b + 1 \in DOMAIN hash.buckets
    BY <1>1
  <2>2. hash.buckets[b + 1] \in B
    BY <2>1
  <2> HIDE DEF B, b
  <2>3. BucketOf(i) = b
    BY DEF b
  <2> QED
    BY <2>1, <2>2, <2>3, BucketStart
<1>6. LastBucket = CHOOSE x \in S : \A y \in S : x >= y
  BY DEF LastBucket, Max
<1> HIDE DEF B
<1>7. S \subseteq 0 .. Len(image.syms) /\ S # {}
  <2>1. 0 \in 0 .. Len(image.syms)
    BY <1>1
  <2>2. \A x \in B : x \in 0 .. Len(image.syms)
    <3> SUFFICES ASSUME NEW x \in B PROVE x \in 0 .. Len(image.syms)
      OBVIOUS
    <3>1. x = 0 \/ x \in Hashed
      BY <1>4
    <3> QED
      BY <1>3, <2>1, <3>1
  <2> QED
    BY <2>1, <2>2
<1>8. PICK m \in S : \A y \in S : y <= m
  <2> HIDE DEF S
  <2> QED
    BY <1>1, <1>7, GreatestFromZero
<1>9. m \in S /\ \A y \in S : m >= y
  BY <1>1, <1>7, <1>8
<1> DEFINE top == LastBucket
<1>10. top \in S /\ \A y \in S : top >= y
  BY <1>6, <1>9
<1>11. top \in Nat /\ top \in {0} \cup B /\ \A y \in B : y <= top /\ y \in Nat
  <2> HIDE DEF top
  <2> QED
    BY <1>1, <1>7, <1>10
<1> HIDE DEF S, top
<1>12. CASE top = 0
  <2>1. Hashed = {}
    BY <1>1, <1>5, <1>11, <1>12
  <2> QED
    BY <1>12, <2>1 DEF top
<1>13. CASE top # 0
  <2>1. top \in Hashed /\ top > 0
    BY <1>4, <1>11, <1>13
  <2>2. ASSUME NEW j \in Hashed, j > top PROVE BucketOf(j) = BucketOf(top)
    <3>1. PICK x \in B : x \in Hashed /\ BucketOf(x) = BucketOf(j)
      BY <1>5
    <3>2. x = top \/ x < top
      BY <1>11
    <3>3. BucketOf(top) <= BucketOf(j)
      BY <2>1, <2>2 DEF HashMade
    <3>4. x < top => BucketOf(x) <= BucketOf(top)
      BY <2>1, <3>1 DEF HashMade
    <3> QED
      BY <1>1, <2>1, <3>1, <3>2, <3>3, <3>4
  <2> QED
    BY <2>1, <2>2 DEF top
<1> QED
  BY <1>12, <1>13

LEMMA CountSymsKeeps ==
  ASSUME SymbolInv, CountSyms
  PROVE  SymbolInv'
<1>1. /\ DynInv /\ TableInv /\ pc = "idle" /\ query' = NoQuery
      /\ image' = image /\ build' = build /\ pos' = pos /\ acc' = acc /\ dyn' = dyn
      /\ tab' = tab /\ garbage' = garbage
      /\ \/ LastBucket > 0 /\ pc' = "count" /\ cur' = LastBucket /\ answer' = Nothing
         \/ ~(LastBucket > 0) /\ pc' = "idle" /\ answer' = Counted(1)
  BY DEF SymbolInv, CountSyms
<1>2. dyn # NoDyn
  BY <1>1 DEF DynInv, Stage
<1>3. DynInv'
  BY <1>1, <1>2, AfterKeeps
<1>4. Made' = Made /\ hash' = hash /\ Hashed' = Hashed /\ \A i : BucketOf(i)' = BucketOf(i)
  BY <1>1, MadeKept
<1>5. Made => image \in Images /\ HashMade
  BY <1>1 DEF DynInv, Typed, Made
<1>6. TabRight'
  <2>1. LibVersions' = LibVersions /\ Final("VERSYM")' = Final("VERSYM")
    BY <1>1, EmittedKept DEF LibVersions
  <2> QED
    BY <1>1, <1>4, <2>1 DEF TabRight, TableInv
<1>7. QueryRight' /\ WalkRight'
  BY <1>1 DEF QueryRight, WalkRight, NoQuery
<1>8. CountRight'
  <2> SUFFICES ASSUME Made, pc' = "count"
               PROVE  /\ LastBucket \in Hashed
                      /\ \A j \in Hashed : j > LastBucket => BucketOf(j) = BucketOf(LastBucket)
    <3>1. pc' = "count" => cur' = LastBucket /\ BucketOf(cur)' = BucketOf(LastBucket)
      BY <1>1, <1>4 DEF BucketOf
    <3> QED
      BY <1>4, <3>1 DEF CountRight
  <2>1. LastBucket > 0
    BY <1>1
  <2> QED
    BY <1>5, <2>1, LastBucketIs
<1>9. LookupMatches'
  BY <1>1 DEF LookupMatches, Answered, Nothing, Counted
<1>10. CountExact'
  <2>1. CASE answer' = Nothing
    BY <2>1 DEF CountExact, Nothing
  <2>2. CASE ~(LastBucket > 0)
    BY <1>4, <1>5, <2>2, LastBucketIs DEF CountExact
  <2> QED
    BY <1>1, <2>1, <2>2
<1>11. StaysInTables' /\ PanicsExplained'
  BY <1>1, <1>4 DEF StaysInTables, PanicsExplained, TableInv
<1> QED
  BY <1>3, <1>6, <1>7, <1>8, <1>9, <1>10, <1>11 DEF SymbolInv, TableInv

LEMMA CountOnKeeps ==
  ASSUME SymbolInv, CountOn
  PROVE  SymbolInv'
<1>1. /\ DynInv /\ TableInv /\ pc = "count"
      /\ image' = image /\ build' = build /\ pos' = pos /\ acc' = acc /\ dyn' = dyn
      /\ tab' = tab /\ garbage' = garbage /\ query' = query
      /\ \/ Link.stop /\ pc' = "idle" /\ answer' = Counted(cur + 1)
         \/ ~Link.stop /\ pc' = "count" /\ cur' = cur + 1 /\ answer' = Nothing
  BY DEF SymbolInv, CountOn, TableInv, QueryRight
<1>2. dyn # NoDyn
  BY <1>1 DEF DynInv, Stage
<1>3. DynInv'
  BY <1>1, <1>2, AfterKeeps
<1>4. Made' = Made /\ hash' = hash /\ Hashed' = Hashed /\ \A i : BucketOf(i)' = BucketOf(i)
  BY <1>1, MadeKept
<1>5. ASSUME Made
      PROVE  /\ image \in Images /\ HashMade /\ cur \in Hashed
             /\ \A j \in Hashed : j > cur => BucketOf(j) = BucketOf(cur)
  BY <1>1, <1>5 DEF DynInv, Typed, Made, TableInv, CountRight
<1>6. TabRight'
  <2>1. LibVersions' = LibVersions /\ Final("VERSYM")' = Final("VERSYM")
    BY <1>1, EmittedKept DEF LibVersions
  <2> QED
    BY <1>1, <1>4, <2>1 DEF TabRight, TableInv
<1>7. QueryRight' /\ WalkRight'
  BY <1>1 DEF QueryRight, WalkRight, TableInv
<1>8. CountRight'
  <2> SUFFICES ASSUME Made, pc' = "count"
               PROVE  /\ cur + 1 \in Hashed
                      /\ \A j \in Hashed : j > cur + 1 => BucketOf(j) = BucketOf(cur + 1)
    <3>1. pc' = "count" => cur' = cur + 1 /\ BucketOf(cur)' = BucketOf(cur + 1)
      BY <1>1, <1>4 DEF BucketOf
    <3> QED
      BY <1>4, <3>1 DEF CountRight
  <2>1. ~Link.stop
    BY <1>1
  <2>2. cur + 1 \in Hashed /\ BucketOf(cur + 1) = BucketOf(cur)
    BY <1>5, <2>1, StopBit DEF Link
  <2>3. cur \in Nat /\ Hashed \subseteq Nat
    BY <1>5, HashFacts
  <2>4. ASSUME NEW j \in Hashed, j > cur + 1 PROVE BucketOf(j) = BucketOf(cur + 1)
    <3>1. j > cur
      BY <2>3, <2>4
    <3>2. BucketOf(j) = BucketOf(cur)
      BY <1>5, <3>1
    <3> QED
      BY <2>2, <3>2
  <2> QED
    BY <2>2, <2>4
<1>9. LookupMatches'
  BY <1>1 DEF LookupMatches, Answered, Nothing, Counted
<1>10. CountExact'
  <2>1. CASE answer' = Nothing
    BY <2>1 DEF CountExact, Nothing
  <2>2. CASE Link.stop /\ answer' = Counted(cur + 1)
    <3> SUFFICES ASSUME Made PROVE cur = Len(image.syms)
      BY <1>1, <1>4, <2>2 DEF CountExact, Counted
    <3>1. \A j \in Hashed : ~(j > cur)
      BY <1>5, <2>2, StopBit DEF Link
    <3>2. /\ Len(image.syms) \in Nat /\ hash.symbias \in Nat
      BY <1>5, HashFacts
    <3> QED
      BY <1>5, <3>1, <3>2 DEF Hashed
  <2> QED
    BY <1>1, <2>1, <2>2
<1>11. StaysInTables' /\ PanicsExplained'
  BY <1>1, <1>4 DEF StaysInTables, PanicsExplained, TableInv
<1> QED
  BY <1>3, <1>6, <1>7, <1>8, <1>9, <1>10, <1>11 DEF SymbolInv, TableInv

-----------------------------------------------------------------------------
LEMMA InitTables ==
  ASSUME Init
  PROVE  TableInv
<1>1. pc = "dynamic" /\ query = NoQuery /\ answer = Nothing /\ garbage = {}
  BY DEF Init, DynInit
<1>2. TabRight /\ QueryRight /\ WalkRight /\ CountRight
  BY <1>1 DEF TabRight, QueryRight, WalkRight, CountRight, NoQuery
<1>3. LookupMatches /\ CountExact
  BY <1>1 DEF LookupMatches, CountExact, Answered, Nothing
<1>4. StaysInTables /\ PanicsExplained
  BY <1>1 DEF StaysInTables, PanicsExplained
<1> QED
  BY <1>2, <1>3, <1>4 DEF TableInv

LEMMA InitDynamic ==
  ASSUME Init
  PROVE  DynInv
<1>1. /\ image \in Images /\ build \in [debug : BOOLEAN, version : BOOLEAN]
      /\ pc = "dynamic" /\ pos = 1 /\ dyn = NoDyn
      /\ acc = [ opt |-> [t \in OptTags |-> {}], val |-> [t \in PlainTags |-> 0], needed |-> <<>> ]
  BY DEF Init, DynInit, OptTags
<1>2. Typed
  BY <1>1 DEF Typed
<1>3. Position
  BY <1>1, EntryType DEF Position
<1>4. \A t : Seen(t) = {} /\ LastValue(Seen(t)) = {}
  BY <1>1 DEF Seen, LastValue
<1>5. Accumulated
  BY <1>1, <1>4, FS_EmptySet DEF Accumulated
<1>6. Stage /\ DynamicParsed
  BY <1>1 DEF Stage, DynamicParsed, Failed
<1> QED
  BY <1>2, <1>3, <1>5, <1>6 DEF DynInv

LEMMA SymbolStep ==
  ASSUME SymbolInv, [Next]_vars
  PROVE  SymbolInv'
<1>1. CASE Parse
  BY <1>1, ParseKeeps
<1>2. ASSUME NEW n \in Names, Get(n) \/ \E v \in Versions : GetVersion(n, v) PROVE SymbolInv'
  BY <1>2, GetKeeps
<1>3. ASSUME NEW imp \in Importers, NEW i \in DOMAIN imp.names, Resolve(imp, i) PROVE SymbolInv'
  BY <1>3, ResolveKeeps
<1>4. ASSUME NEW imp \in Importers, NEW i \in DOMAIN imp.names, ResolveFails(imp, i) PROVE SymbolInv'
  BY <1>4, ResolveFailsKeeps
<1>5. CASE CountSyms
  BY <1>5, CountSymsKeeps
<1>6. CASE NewWild \/ NewPanic
  BY <1>6, NewFailsKeeps
<1>7. CASE New
  BY <1>7, NewKeeps
<1>8. CASE WalkWild \/ CountWild
  BY <1>8, WalkWildKeeps
<1>9. CASE WalkFails
  BY <1>9, WalkFailsKeeps
<1>10. CASE WalkHit
  BY <1>10, WalkHitKeeps
<1>11. CASE WalkOn
  BY <1>11, WalkOnKeeps
<1>12. CASE CountOn
  BY <1>12, CountOnKeeps
<1>13. CASE UNCHANGED vars
  <2>1. /\ image' = image /\ build' = build /\ pc' = pc /\ pos' = pos /\ acc' = acc /\ dyn' = dyn
        /\ tab' = tab /\ query' = query /\ cur' = cur /\ answer' = answer /\ garbage' = garbage
    BY <1>13 DEF vars
  <2>2. DynInv /\ TableInv
    BY DEF SymbolInv
  <2>3. DynInv'
    <3>1. Typed' /\ Accumulated'
      BY <2>1, <2>2, SameKept DEF DynInv
    <3>2. Position' /\ Stage'
      BY <2>1, <2>2 DEF DynInv, Position, Stage
    <3>3. Emitted' = Emitted /\ (Says(dyn) => Says(dyn)')
      BY <2>1, EmittedKept, SaysKept
    <3>4. DynamicParsed'
      BY <2>1, <2>2, <3>3 DEF DynInv, DynamicParsed, Failed
    <3> QED
      BY <3>1, <3>2, <3>4 DEF DynInv
  <2>4. Made' = Made /\ hash' = hash /\ Hashed' = Hashed /\ \A i : BucketOf(i)' = BucketOf(i)
    BY <2>1, MadeKept
  <2>5. LookupMatches' /\ CountExact'
    BY <2>1, <2>2, AnswersKept DEF TableInv
  <2>6. Candidates' = Candidates /\ Trusted' = Trusted
    BY <2>1, CandidatesKept DEF Trusted
  <2>7. TabRight'
    <3>1. LibVersions' = LibVersions /\ Final("VERSYM")' = Final("VERSYM")
      BY <2>1, EmittedKept DEF LibVersions
    <3> QED
      BY <2>1, <2>2, <2>4, <3>1 DEF TabRight, TableInv
  <2>8. WalkRight' /\ CountRight' /\ QueryRight'
    <3>1. BucketOf(cur)' = BucketOf(cur)
      BY <2>1 DEF BucketOf, hash
    <3> QED
      BY <2>1, <2>2, <2>4, <2>6, <3>1 DEF WalkRight, CountRight, QueryRight, TableInv
  <2>9. StaysInTables' /\ PanicsExplained'
    BY <2>1, <2>2, <2>4 DEF StaysInTables, PanicsExplained, TableInv
  <2> QED
    BY <2>3, <2>5, <2>7, <2>8, <2>9 DEF SymbolInv, TableInv
<1> QED
  BY <1>1, <1>2, <1>3, <1>4, <1>5, <1>6, <1>7, <1>8, <1>9, <1>10, <1>11, <1>12, <1>13 DEF Next, Ask, Run

-----------------------------------------------------------------------------
(* ElfDynamic::new and the lookups keep the inductive invariant: what was  *)
(* read so far is what is kept, and a walk is in the bucket of the name,   *)
(* past no symbol it should have answered with.                            *)
THEOREM SymbolInvariant == Spec => []SymbolInv
<1>1. Init => SymbolInv
  BY InitTables, InitDynamic DEF SymbolInv
<1>2. SymbolInv /\ [Next]_vars => SymbolInv'
  BY SymbolStep
<1> QED
  BY <1>1, <1>2, PTL DEF Spec

(* Of every dynamic section that linkers emit, of any length and order,    *)
(* ElfDynamic::new holds what it says.                                     *)
THEOREM SectionParsed == Spec => []DynamicParsed
<1>1. SymbolInv => DynamicParsed
  BY DEF SymbolInv, DynInv
<1> QED
  BY <1>1, SymbolInvariant, PTL

(* In every hash table that linkers make, of any number of buckets, bloom  *)
(* words and symbols, a lookup finds what a search of .dynsym would.       *)
THEOREM LookupsRight == Spec => []LookupMatches
<1>1. SymbolInv => LookupMatches
  BY DEF SymbolInv, TableInv
<1> QED
  BY <1>1, SymbolInvariant, PTL

(* No lookup in such a table reads outside it, but for the versions nobody *)
(* wrote.                                                                  *)
THEOREM ReadsStayInTables == Spec => []StaysInTables
<1>1. SymbolInv => StaysInTables
  BY DEF SymbolInv, TableInv
<1> QED
  BY <1>1, SymbolInvariant, PTL

(* What panics is a versioned lookup in a library without version tables,  *)
(* or an importer with broken ones.                                        *)
THEOREM PanicsHaveCause == Spec => []PanicsExplained
<1>1. SymbolInv => PanicsExplained
  BY DEF SymbolInv, TableInv
<1> QED
  BY <1>1, SymbolInvariant, PTL

(* count_syms counts every entry of .dynsym. *)
THEOREM CountIsExact == Spec => []CountExact
<1>1. SymbolInv => CountExact
  BY DEF SymbolInv, TableInv
<1> QED
  BY <1>1, SymbolInvariant, PTL

=============================================================================
