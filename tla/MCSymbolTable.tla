--------------------------- MODULE MCSymbolTable ---------------------------
(***************************************************************************)
(* f and g differ only in the lowest bit of their hashes; V1 and V2 have   *)
(* the same hash.  h shares a bucket with f.                               *)
(***************************************************************************)
EXTENDS SymbolTable, SequencesExt

MCNames    == {"f", "g", "h"}
MCGnuHash  == [n \in MCNames |-> CASE n = "f" -> 10 [] n = "g" -> 11 [] n = "h" -> 4]
MCVersions == {"V1", "V2"}
MCVerHash  == [v \in {"lib", "V1", "V2", "G"} |-> CASE v = "lib" -> 5 [] v = "G" -> 2 [] OTHER -> 1]
MCPlace    == [ hash |-> 1, sym |-> 2, str |-> 3, versym |-> 4, verdef |-> 5, verneed |-> 6 ]
MapLen     == 20

(* Version tables *)
Def(n, v)  == [ndx |-> n, hash |-> MCVerHash[v], names |-> <<v>>]
Need(n, v) == [ndx |-> n, hash |-> MCVerHash[v], name |-> v]
Defs       == <<Def(1, "lib"), Def(2, "V1"), Def(3, "V2")>>
Needs      == << <<Need(2, "G")>>, <<Need(3, "V1"), Need(4, "V2")>> >>

(* Symbols, with their version index *)
S(n, ndx, hid) == [ name |-> n, shndx |-> 1, st_bind |-> "GLOBAL", st_type |-> "FUNC",
                    id |-> [ndx |-> ndx, hidden |-> hid] ]
Undef(n, ndx)  == [S(n, ndx, FALSE) EXCEPT !.shndx = 0]

Versioned == {S(n, 1, FALSE) : n \in {"f", "h"}}
             \cup {S(n, d, hid) : n \in {"f", "g"}, d \in {2, 3}, hid \in BOOLEAN}
Plain     == {S(n, 1, FALSE) : n \in MCNames}
Odd       == { [S("f", 1, FALSE) EXCEPT !.st_bind = "LOCAL"], [S("f", 1, FALSE) EXCEPT !.st_type = "SECTION"],
               [S("f", 1, FALSE) EXCEPT !.st_bind = "WEAK"], Undef("f", 1) }

UpTo(set, n) == UNION {[1 .. k -> set] : k \in 0 .. n}

B(s, nbucket) == MCGnuHash[s.name] % nbucket

(* No two definitions of one symbol in one version, and sorted by bucket. *)
Sorted(seq, nbucket) ==
  \A i, j \in DOMAIN seq : i < j =>
    /\ B(seq[i], nbucket) <= B(seq[j], nbucket)
    /\ <<seq[i].name, seq[i].id.ndx>> # <<seq[j].name, seq[j].id.ndx>>

(* The linker: .gnu.hash of the hashed symbols, which follow the imports. *)
NShift == 2
GnuHashOf(imports, seq, nbucket, nbl) ==
  LET bias == Len(imports) + 1
      In(b) == {i \in DOMAIN seq : B(seq[i], nbucket) = b}
      H(i) == MCGnuHash[seq[i].name]
  IN  [ symbias |-> bias, nbucket |-> nbucket, nshift |-> NShift,
        blooms |-> [w \in 1 .. nbl |->
                      UNION {{H(i) % WordBits, (H(i) \div 2^NShift) % WordBits} :
                               i \in {j \in DOMAIN seq : (H(j) \div WordBits) % nbl = w - 1}}],
        buckets |-> [b \in 1 .. nbucket |-> IF In(b - 1) = {} THEN 0 ELSE Min(In(b - 1)) + bias - 1],
        chains |-> [i \in DOMAIN seq |->
                      [h |-> H(i) \div 2, stop |-> i = Max(In(B(seq[i], nbucket)))]] ]

E(t, v) == [tag |-> t, val |-> v]

Basic  == <<E("NEEDED", 7), E("GNU_HASH", 1), E("STRTAB", 3), E("SYMTAB", 2)>>
VerSym == <<E("VERSYM", 4)>>
VerDef == <<E("VERDEF", 5), E("VERDEFNUM", 3)>>
VerNeed == <<E("VERNEED", 6), E("VERNEEDNUM", 2)>>
Null   == <<E("NULL", 0)>>

Image(dynamic, imports, seq, nbucket, nbl, ds, ns) ==
  LET all == imports \o seq
  IN  [ dynamic |-> dynamic, len |-> MapLen,
        syms |-> [i \in DOMAIN all |-> [name |-> all[i].name, shndx |-> all[i].shndx,
                                        st_bind |-> all[i].st_bind, st_type |-> all[i].st_type]],
        ids |-> [i \in DOMAIN all |-> all[i].id], defs |-> ds, needs |-> ns,
        hash |-> GnuHashOf(imports, seq, nbucket, nbl) ]

Shapes == {<<1, 1>>, <<2, 2>>}          \* nbucket, nbloom

(* A library with its own versions, one that only needs some, one without. *)
Defining(imports, seq, sh) ==
  Image(Basic \o VerSym \o VerDef \o Null, imports, seq, sh[1], sh[2], Defs, <<>>)
Needing(imports, seq, sh) ==
  Image(Basic \o VerSym \o VerNeed \o Null, imports, seq, sh[1], sh[2], <<>>, Needs)
Unversioned(imports, seq, sh) ==
  Image(Basic \o Null, imports, seq, sh[1], sh[2], <<>>, <<>>)

Libraries(n) ==
  UNION { {Defining(<<>>, q, sh) : q \in {s \in UpTo(Versioned, n) : Sorted(s, sh[1])}}
          \cup {Needing(<<Undef("h", 2)>>, q, sh) : q \in {s \in UpTo(Plain, n) : Sorted(s, sh[1])}}
          \cup {Unversioned(im, q, sh) : im \in {<<>>, <<Undef("g", 0)>>},
                                         q \in {s \in UpTo(Plain \cup Odd, 2) : Sorted(s, sh[1])}}
          : sh \in Shapes }

(* One library, and dynamic sections that lack an entry, have a zero in    *)
(* it, or have a tag twice.                                                *)
Sizes == <<E("FLAGS", 8), E("PLTGOT", 9), E("JMPREL", 10), E("PLTRELSZ", 2), E("RELA", 12),
           E("RELASZ", 4), E("RELACOUNT", 1), E("INIT", 14), E("FINI", 15),
           E("INIT_ARRAY", 16), E("INIT_ARRAYSZ", 1), E("FINI_ARRAY", 17), E("FINI_ARRAYSZ", 1),
           E("RPATH", 8), E("RUNPATH", 9), E("NEEDED", 5), E("OTHER", 0)>>

Long == Basic \o VerSym \o VerDef \o VerNeed \o Sizes \o Null

Variants ==
  {Long} \cup {RemoveAt(Long, i) : i \in DOMAIN Long}
         \cup {[Long EXCEPT ![i].val = 0] : i \in DOMAIN Long}
         \cup {<<[Long[i] EXCEPT !.val = @ + 1]>> \o Long : i \in DOMAIN Long}
         \cup {[Long EXCEPT ![i].val = @ + 10] : i \in DOMAIN Long}

Broken ==
  {Image(d, <<Undef("h", 4)>>, <<S("f", 2, TRUE), S("f", 3, FALSE)>>, 1, 1, Defs, << <<Need(4, "G")>> >>) :
     d \in Variants \cup {[x \in DOMAIN Long |-> IF Long[x].tag = "VERNEEDNUM" THEN E("VERNEEDNUM", 1) ELSE Long[x]]}}
  \cup {Image(Basic \o VerSym \o VerDef \o Null, <<>>, <<S("f", 2, FALSE)>>, 1, 1,
              <<Def(1, "lib"), [Def(2, "V1") EXCEPT !.names = <<>>]>>, <<>>)}

(* A chain that runs out of the table: no stop bit on its last entry. *)
Endless == {[Unversioned(<<>>, <<S("f", 1, FALSE)>>, <<1, 1>>) EXCEPT !.hash.chains[1].stop = FALSE]}

MCImages == Libraries(3) \cup Broken \cup Endless

(* What importers want: their .gnu.version and .gnu.version_r.  The second *)
(* and the third have indices their tables do not explain.                 *)
Imp(names, ids, ns) == [ names |-> names, ids |-> [i \in DOMAIN ids |-> [ndx |-> ids[i], hidden |-> FALSE]],
                         defs |-> <<>>, needs |-> ns ]

MCImporters == { Imp(<<"f", "f", "g", "h">>, <<3, 4, 3, 1>>, Needs),
                 Imp(<<"f">>, <<5>>, Needs),
                 Imp(<<"f">>, <<2>>, << <<Need(3, "V1")>> >>) }

(* f@@V2 before f@V1, as linkers may order them. *)
TwoVersions == {Defining(<<>>, <<S("f", 3, FALSE), S("f", 2, TRUE)>>, <<1, 1>>)}

=============================================================================
