---------------------------- MODULE SymbolTable ----------------------------
(***************************************************************************)
(* From the dynamic section of a library to its symbols: ElfDynamic::new,  *)
(* SymbolTable::new, then any number of lookups through the GNU hash table *)
(* (src/symbol.rs) under the rules of symbol versions, one link of a chain *)
(* a step.  Queries come from get and get_version of RelocatedDylib, and   *)
(* from relocations of an importing object, whose own version tables say   *)
(* which version it wants.                                                 *)
(***************************************************************************)
EXTENDS Dynamic, Version

CONSTANTS
  Names,      \* symbol names
  Versions,   \* version names get_version is called with
  Importers,  \* objects that import symbols: [names, ids, defs, needs]
  GnuHash,    \* GnuHash[n]: gnu_hash of a name
  WordBits,   \* bits of a bloom word, 8 * size_of::<usize>()
  Place       \* Place[t]: the offset of a table in every image

ASSUME TableAssumption ==
  /\ WordBits \in Nat \ {0} /\ GnuHash \in [Names -> Nat]
  /\ Versions \subseteq DOMAIN VerHash
  /\ DOMAIN Place = {"hash", "sym", "str", "versym", "verdef", "verneed"}
  /\ \A s, t \in DOMAIN Place : Place[s] = Place[t] => s = t
  /\ \A im \in Images :
       /\ VersionTables(im)
       /\ im.syms \in Seq([name : Names, shndx : Nat, st_bind : STRING, st_type : STRING])
       /\ im.hash.symbias \in Nat /\ im.hash.nbucket \in Nat /\ im.hash.nshift \in Nat
       /\ im.hash.blooms \in Seq(SUBSET Nat) /\ im.hash.buckets \in Seq(Nat)
       /\ im.hash.chains \in Seq([h : Nat, stop : BOOLEAN])
  /\ \A imp \in Importers :
       VersionTables(imp) /\ imp.names \in Seq(Names) /\ Len(imp.ids) = Len(imp.names)

(***************************************************************************)
(* An image has, besides its dynamic section:                              *)
(*   syms     .dynsym from index 1 on: [name, shndx, st_bind, st_type]     *)
(*   ids      .gnu.version, indexed alike: [ndx, hidden]                   *)
(*   defs, needs   .gnu.version_d and .gnu.version_r                       *)
(*   hash     .gnu.hash: symbias, nbucket, nshift, blooms (the bits of     *)
(*            each word), buckets, and chains with the entry of symbol     *)
(*            symbias first: [h, stop], the hash without its lowest bit    *)
(*            and that bit.                                                *)
(***************************************************************************)
VARIABLES
  tab,      \* the SymbolTable: where its parts are, and the version table
  query,    \* the SymbolInfo of the lookup under way
  cur,      \* dynsym_idx, or nsym of count_syms
  answer,   \* what the last lookup returned, or what count_syms did
  garbage   \* symbols for which a slot of the version array was read that nobody wrote

tabVars == <<tab, query, cur, answer, garbage>>
vars == <<image, build, pc, pos, acc, dyn, tab, query, cur, answer, garbage>>

NoTab   == [symtab |-> 0, strtab |-> 0, version |-> {}]
NoQuery == [name |-> "", version |-> {}]
Nothing == [kind |-> "none"]

Init == DynInit /\ tab = NoTab /\ query = NoQuery /\ cur = 0 /\ answer = Nothing /\ garbage = {}

hash == image.hash
nbloom == Len(hash.blooms)

Parse == DynNext /\ UNCHANGED tabVars

(***************************************************************************)
(* SymbolTable::new reads the header of the hash table and, with the       *)
(* feature, all version tables, through the addresses of the ElfDynamic.   *)
(***************************************************************************)
Is(addr, t) == addr = Base + Place[t]

defs  == IF dyn.verdef = {} THEN <<>> ELSE Walk(image.defs, (CHOOSE p \in dyn.verdef : TRUE)[2])
needs == IF dyn.verneed = {} THEN <<>> ELSE Walk(image.needs, (CHOOSE p \in dyn.verneed : TRUE)[2])

VersionRead == build.version /\ dyn.version_idx # {}

NewReadsWild ==
  \/ ~Is(dyn.hashtab, "hash")
  \/ /\ VersionRead
     /\ \/ \E p \in dyn.verdef : ~Is(p[1], "verdef")
        \/ \E p \in dyn.verneed : ~Is(p[1], "verneed")
        \/ (defs # <<>> \/ needs # <<>>) /\ ~Is(dyn.strtab, "str")

NewWild ==
  /\ pc = "parsed" /\ NewReadsWild
  /\ pc' = "wild" /\ UNCHANGED <<image, build, pos, acc, dyn, tabVars>>

NewPanic ==
  /\ pc = "parsed" /\ ~NewReadsWild /\ VersionRead /\ NewPanics(defs, needs)
  /\ pc' = "panic" /\ UNCHANGED <<image, build, pos, acc, dyn, tabVars>>

New ==
  /\ pc = "parsed" /\ ~NewReadsWild
  /\ VersionRead => ~NewPanics(defs, needs)
  /\ tab' = [ symtab |-> dyn.symtab, strtab |-> dyn.strtab,
              version |-> IF VersionRead
                          THEN {[at |-> a, ids |-> image.ids, slots |-> Slots(defs, needs)] :
                                  a \in dyn.version_idx}
                          ELSE {} ]
  /\ pc' = "idle"
  /\ UNCHANGED <<image, build, pos, acc, dyn, query, cur, answer, garbage>>

-----------------------------------------------------------------------------
(* lookup up to the chain: the bloom filter's two bits and the bucket.     *)
Bits(h) == {h % WordBits, (h \div 2^hash.nshift) % WordBits}

(* nbloom is a power of two, so that & (nbloom - 1) is a remainder.        *)
Word(h) == hash.blooms[((h \div WordBits) % nbloom) + 1]

Bloom_Shift(h) ==                \* mutant: the second bit is taken without the shift count
  {h % WordBits, (h \div 2) % WordBits} \subseteq Word(h)

Bloom(h) == Bits(h) \subseteq Word(h)

Bucket(h) == hash.buckets[(h % hash.nbucket) + 1]

Found(i) == [kind |-> "symbol", idx |-> i]
NotFound == [kind |-> "notfound"]
Refused(imp) == [kind |-> "importer", imp |-> imp]

Lookup(q) ==
  LET h == GnuHash[q.name]
  IN  /\ query' = q
      /\ IF Bloom(h) /\ Bucket(h) # 0
         THEN pc' = "walk" /\ cur' = Bucket(h) /\ answer' = Nothing
         ELSE pc' = "idle" /\ cur' = 0 /\ answer' = NotFound
      /\ UNCHANGED <<image, build, pos, acc, dyn, tab, garbage>>

(* RelocatedDylib::get, get_version *)
Get(n) == pc = "idle" /\ Lookup([name |-> n, version |-> {}])

GetVersion(n, v) ==
  pc = "idle" /\ build.version /\ Lookup([name |-> n, version |-> {NewVersion(v)}])

(* symbol_idx of the importing object, then a lookup in this one.  Its own *)
(* version array is indexed with a check, and may hold what nobody wrote.  *)
Array(imp) == Slots(imp.defs, imp.needs)

Requirement(imp, i) ==
  IF build.version THEN GetRequirement(imp.ids, Array(imp), i) ELSE {}

Indexed(imp, i) == build.version /\ imp.ids[i].ndx > 1

Resolve(imp, i) ==
  /\ pc = "idle"
  /\ Indexed(imp, i) => imp.ids[i].ndx \in DOMAIN Array(imp) /\ Array(imp)[imp.ids[i].ndx] # {}
  /\ Lookup([name |-> imp.names[i], version |-> Requirement(imp, i)])

ResolveFails(imp, i) ==
  /\ pc = "idle" /\ Indexed(imp, i)
  /\ imp.ids[i].ndx \in DOMAIN Array(imp) => Array(imp)[imp.ids[i].ndx] = {}
  /\ pc' = IF imp.ids[i].ndx \in DOMAIN Array(imp) THEN "wild" ELSE "panic"
  /\ answer' = Refused(imp)
  /\ UNCHANGED <<image, build, pos, acc, dyn, tab, query, cur, garbage>>

(* lookup_filter, with OK_BINDS and OK_TYPES of src/arch/mod.rs *)
OkBinds == {"GLOBAL", "WEAK", "GNU_UNIQUE"}
OkTypes == {"NOTYPE", "OBJECT", "FUNC", "COMMON", "TLS", "GNU_IFUNC"}

Usable(s) == s.shndx # 0 /\ s.st_bind \in OkBinds /\ s.st_type \in OkTypes

Link == hash.chains[cur - hash.symbias + 1]
InChains == cur >= hash.symbias /\ cur - hash.symbias + 1 <= Len(hash.chains)

SameHash == Link.h = GnuHash[query.name] \div 2

SameName == image.syms[cur].name = query.name

Reading == pc = "walk" /\ InChains

(* The symbol's name, or its version index, is read from where the dynamic *)
(* section said, whatever is there.                                        *)
WalkWild ==
  /\ pc = "walk"
  /\ \/ ~InChains
     \/ SameHash /\ ~(Is(tab.symtab, "sym") /\ Is(tab.strtab, "str"))
     \/ SameHash /\ SameName /\ query.version # {} /\ \E t \in tab.version : ~Is(t.at, "versym")
  /\ pc' = "wild" /\ UNCHANGED <<image, build, pos, acc, dyn, tabVars>>

TablesRight ==
  SameHash => /\ Is(tab.symtab, "sym") /\ Is(tab.strtab, "str")
              /\ SameName /\ query.version # {} => \A t \in tab.version : Is(t.at, "versym")

Outcomes == IF SameHash /\ SameName
            THEN CheckMatch(tab.version, cur, query.version) ELSE {"no"}

ReadsGarbage ==
  IF SameHash /\ SameName /\ query.version # {}
  THEN {cur} \cap {i \in DOMAIN image.ids : \E t \in tab.version :
                     t.ids[i].ndx \in DOMAIN t.slots /\ t.slots[t.ids[i].ndx] = {}}
  ELSE {}

WalkFails ==
  /\ Reading /\ TablesRight
  /\ pc' \in Outcomes \cap {"panic", "wild"}
  /\ garbage' = garbage \cup ReadsGarbage
  /\ UNCHANGED <<image, build, pos, acc, dyn, tab, query, cur, answer>>

WalkHit ==
  /\ Reading /\ TablesRight /\ "yes" \in Outcomes
  /\ answer' = IF Usable(image.syms[cur]) THEN Found(cur) ELSE NotFound
  /\ garbage' = garbage \cup ReadsGarbage
  /\ pc' = "idle" /\ cur' = 0
  /\ UNCHANGED <<image, build, pos, acc, dyn, tab, query>>

WalkOn_Stop ==                   \* mutant: the stop bit of the chain is not looked at
  /\ Reading /\ TablesRight /\ "no" \in Outcomes
  /\ garbage' = garbage \cup ReadsGarbage
  /\ cur' = cur + 1 /\ UNCHANGED <<pc, answer>>
  /\ UNCHANGED <<image, build, pos, acc, dyn, tab, query>>

WalkOn_Stay ==                   \* mutant: the chain pointer is not advanced
  /\ Reading /\ TablesRight /\ "no" \in Outcomes
  /\ garbage' = garbage \cup ReadsGarbage
  /\ IF Link.stop THEN pc' = "idle" /\ cur' = 0 /\ answer' = NotFound
     ELSE UNCHANGED <<pc, cur, answer>>
  /\ UNCHANGED <<image, build, pos, acc, dyn, tab, query>>

WalkOn ==
  /\ Reading /\ TablesRight /\ "no" \in Outcomes
  /\ garbage' = garbage \cup ReadsGarbage
  /\ IF Link.stop THEN pc' = "idle" /\ cur' = 0 /\ answer' = NotFound
     ELSE cur' = cur + 1 /\ UNCHANGED <<pc, answer>>
  /\ UNCHANGED <<image, build, pos, acc, dyn, tab, query>>

-----------------------------------------------------------------------------
(* count_syms *)
Counted(n) == [kind |-> "count", n |-> n]

LastBucket == Max({0} \cup {hash.buckets[b] : b \in DOMAIN hash.buckets})

CountSyms ==
  /\ pc = "idle" /\ query' = NoQuery
  /\ IF LastBucket > 0 THEN pc' = "count" /\ cur' = LastBucket /\ answer' = Nothing
     ELSE answer' = Counted(1) /\ UNCHANGED <<pc, cur>>
  /\ UNCHANGED <<image, build, pos, acc, dyn, tab, garbage>>

CountOn_Short ==                 \* mutant: the last symbol is not counted
  /\ pc = "count" /\ InChains
  /\ IF Link.stop THEN pc' = "idle" /\ cur' = 0 /\ answer' = Counted(cur)
     ELSE cur' = cur + 1 /\ UNCHANGED <<pc, answer>>
  /\ UNCHANGED <<image, build, pos, acc, dyn, tab, query, garbage>>

CountOn ==
  /\ pc = "count" /\ InChains
  /\ IF Link.stop THEN pc' = "idle" /\ cur' = 0 /\ answer' = Counted(cur + 1)
     ELSE cur' = cur + 1 /\ UNCHANGED <<pc, answer>>
  /\ UNCHANGED <<image, build, pos, acc, dyn, tab, query, garbage>>

CountWild ==
  /\ pc = "count" /\ ~InChains
  /\ pc' = "wild" /\ UNCHANGED <<image, build, pos, acc, dyn, tabVars>>

Ask == \/ \E n \in Names : Get(n) \/ \E v \in Versions : GetVersion(n, v)
       \/ \E imp \in Importers : \E i \in DOMAIN imp.names : Resolve(imp, i) \/ ResolveFails(imp, i)
       \/ CountSyms

Run == NewWild \/ NewPanic \/ New \/ WalkWild \/ WalkFails \/ WalkHit \/ WalkOn
       \/ CountOn \/ CountWild

Next == Parse \/ Ask \/ Run

(* A call runs to its end once it was made. *)
Spec == Init /\ [][Next]_vars /\ WF_vars(Parse \/ Run)

-----------------------------------------------------------------------------
(***************************************************************************)
(* An image as linkers make it: the hashed symbols grouped by bucket, with *)
(* their hashes in the chains and the last of a group marked, their bits   *)
(* in the bloom filter, and every version index explained by one entry of  *)
(* the version tables.                                                     *)
(***************************************************************************)
Hashed == hash.symbias .. Len(image.syms)

BucketOf(i) == GnuHash[image.syms[i].name] % hash.nbucket

InBucket(b) == {i \in Hashed : BucketOf(i) = b}

HashMade ==
  /\ hash.symbias >= 1 /\ nbloom >= 1
  /\ hash.nbucket >= 1 /\ hash.nbucket = Len(hash.buckets)
  /\ Len(hash.chains) = Len(image.syms) - hash.symbias + 1
  /\ \A i, j \in Hashed : i < j => BucketOf(i) <= BucketOf(j)
  /\ \A b \in 0 .. hash.nbucket - 1 :
       hash.buckets[b + 1] = IF InBucket(b) = {} THEN 0 ELSE Min(InBucket(b))
  /\ \A i \in Hashed :
       LET h == GnuHash[image.syms[i].name]
           c == hash.chains[i - hash.symbias + 1]
       IN  /\ Bits(h) \subseteq Word(h) /\ c.h = h \div 2
           /\ c.stop <=> (i + 1 \in Hashed => BucketOf(i + 1) # BucketOf(i))

VersionsOf(im, i) ==
  {im.defs[k].names[1] : k \in {d \in DOMAIN im.defs : im.defs[d].ndx = im.ids[i].ndx}}
  \cup UNION {{need[k].name : k \in {d \in DOMAIN need : need[d].ndx = im.ids[i].ndx}} :
                need \in {im.needs[m] : m \in DOMAIN im.needs}}

VersionsMade(im) ==
  /\ \A k \in DOMAIN im.defs : /\ im.defs[k].names # <<>> /\ im.defs[k].ndx >= 1
                               /\ im.defs[k].hash = VerHash[im.defs[k].names[1]]
  /\ \A m \in DOMAIN im.needs :
       /\ im.needs[m] # <<>>
       /\ \A k \in DOMAIN im.needs[m] : /\ im.needs[m][k].ndx >= 2
                                        /\ im.needs[m][k].hash = VerHash[im.needs[m][k].name]
  /\ \A i \in DOMAIN im.ids :
       /\ \A u, v \in VersionsOf(im, i) : u = v
       /\ IF im.ids[i].ndx <= 1 THEN ~im.ids[i].hidden ELSE VersionsOf(im, i) # {}

Made ==
  /\ Emitted /\ HashMade
  /\ Final("GNU_HASH") = {Place["hash"]} /\ Final("SYMTAB") = {Place["sym"]}
  /\ Final("STRTAB") = {Place["str"]} /\ Final("VERSYM") \subseteq {Place["versym"]}
  /\ Final("VERSYM") # {} =>
       /\ VersionsMade(image) /\ Len(image.ids) = Len(image.syms)
       /\ image.defs # <<>> \/ image.needs # <<>>
       /\ Final("VERDEF") = IF image.defs = <<>> THEN {} ELSE {Place["verdef"]}
       /\ Final("VERDEFNUM") = IF image.defs = <<>> THEN {} ELSE {Len(image.defs)}
       /\ Final("VERNEED") = IF image.needs = <<>> THEN {} ELSE {Place["verneed"]}
       /\ Final("VERNEEDNUM") = IF image.needs = <<>> THEN {} ELSE {Len(image.needs)}

Answered == answer.kind \in {"symbol", "notfound"}

(***************************************************************************)
(* What the bloom filter, the buckets and the chain give is what a search  *)
(* of .dynsym from its first hashed entry would: the first symbol of that  *)
(* name with an acceptable version, or nothing if that one is undefined,   *)
(* local or of a kind no relocation may use.  An uninitialised version can *)
(* change the answer only of get_version.  HashRight: the version tables   *)
(* of the importer have the hash that belongs to the name.                 *)
(***************************************************************************)
Accepts(i, want) ==
  \A w \in want : w.name \in VersionsOf(image, i) \/ (~w.hidden /\ ~image.ids[i].hidden)

Candidates == {i \in Hashed : /\ image.syms[i].name = query.name
                              /\ tab.version # {} => Accepts(i, query.version)}

HashRight == \A w \in query.version : w.hash = VerHash[w.name]

LookupMatches ==
  Answered /\ HashRight /\ (garbage = {} \/ \A w \in query.version : ~w.hidden) /\ Made =>
    answer = IF Candidates # {} /\ Usable(image.syms[Min(Candidates)])
             THEN Found(Min(Candidates)) ELSE NotFound

(***************************************************************************)
(* Of an image that linkers make, no lookup reads outside the tables, if   *)
(* it does not first read a version that was never written, in the library *)
(* or in an importer whose tables do not explain its own indices; and the  *)
(* versions read though nobody wrote them are those of unversioned symbols *)
(* in a library with version tables that defines no version itself.        *)
(***************************************************************************)
StaysInTables ==
  Made =>
    /\ pc = "wild" => garbage # {} \/ (answer.kind = "importer" /\ ~VersionsMade(answer.imp))
    /\ \A i \in garbage : /\ image.ids[i].ndx <= 1
                          /\ \A k \in DOMAIN image.defs : image.defs[k].ndx # image.ids[i].ndx

(* A library that linkers make is never the cause of a panic by its own    *)
(* tables: what panics is a lookup with a version, of a symbol it has, in  *)
(* a library without version tables, or an importer with broken ones.      *)
PanicsExplained ==
  pc = "panic" /\ Made =>
    \/ answer.kind = "importer" /\ ~VersionsMade(answer.imp)
    \/ /\ tab.version = {} /\ query.version # {}
       /\ \E i \in Hashed : image.syms[i].name = query.name

(* count_syms is the number of entries of .dynsym, the null one included,  *)
(* as soon as one of them is hashed.                                       *)
CountExact ==
  answer.kind = "count" /\ Hashed # {} /\ Made => answer.n = Len(image.syms) + 1

(* Parsing and every lookup come to an end. *)
LookupEnds == pc \in {"dynamic", "finish", "parsed", "walk", "count"} ~> (pc = "idle" \/ Failed)

(***************************************************************************)
(* A symbol that the library defines in the version asked for is the one   *)
(* that is found (what the feature "version" is there for).                *)
(***************************************************************************)
VersionRespected ==
  Answered /\ garbage = {} /\ Made =>
    \A w \in query.version :
      (\E i \in Hashed : /\ image.syms[i].name = query.name /\ Usable(image.syms[i])
                         /\ VersionsOf(image, i) = {w.name})
        => answer.kind = "symbol" /\ VersionsOf(image, answer.idx) = {w.name}

=============================================================================
