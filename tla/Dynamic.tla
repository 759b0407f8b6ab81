------------------------------ MODULE Dynamic ------------------------------
(***************************************************************************)
(* ElfDynamic::new (src/dynamic.rs): the entries of .dynamic are read one  *)
(* a step up to DT_NULL, the last value of a tag wins, and the tables are  *)
(* put together at the end.  An Option is a set of at most one element.    *)
(***************************************************************************)
EXTENDS Integers, Sequences, FiniteSets

CONSTANTS
  Images,   \* the objects whose dynamic section may be parsed
  Base      \* the address they are mapped at

ASSUME BaseAssumption == Base \in Nat \ {0}

(* Tags kept in an Option<NonZeroUsize>. *)
AddressTags == { "PLTGOT", "JMPREL", "RELA", "INIT", "FINI", "INIT_ARRAY", "FINI_ARRAY",
                 "VERSYM", "VERNEED", "VERDEF" }
SizeTags    == { "PLTRELSZ", "RELASZ", "INIT_ARRAYSZ", "FINI_ARRAYSZ" }
NumberTags  == { "RELACOUNT", "VERNEEDNUM", "VERDEFNUM", "RPATH", "RUNPATH" }
NonZeroTags == AddressTags \cup SizeTags \cup NumberTags
PlainTags   == { "FLAGS", "SYMTAB", "STRTAB" }         \* 0 if missing

Tags == NonZeroTags \cup PlainTags \cup { "GNU_HASH", "NEEDED", "NULL", "OTHER" }

ASSUME ImagesAssumption ==
  \A im \in Images : im.dynamic \in Seq([tag : Tags, val : Nat]) /\ im.len \in Nat

DF_BIND_NOW == 8

VARIABLES
  image,    \* the object: its dynamic section, its length and its tables
  build,    \* debug assertions and the feature "version", on or off
  pc,       \* what is being done
  pos,      \* cur_dyn_ptr
  acc,      \* the values seen so far
  dyn       \* the ElfDynamic that was built

NoDyn == [ hashtab |-> 0, symtab |-> 0, strtab |-> 0, bind_now |-> FALSE, got |-> {},
           needed |-> <<>>, pltrel |-> {}, dynrel |-> {}, init |-> {}, init_array |-> {},
           fini |-> {}, fini_array |-> {}, rela_count |-> {}, rpath |-> {}, runpath |-> {},
           version_idx |-> {}, verneed |-> {}, verdef |-> {} ]

DynInit ==
  /\ image \in Images
  /\ build \in [debug : BOOLEAN, version : BOOLEAN]
  /\ pc = "dynamic" /\ pos = 1
  /\ acc = [ opt |-> [t \in NonZeroTags \cup {"GNU_HASH"} |-> {}],
             val |-> [t \in PlainTags |-> 0], needed |-> <<>> ]
  /\ dyn = NoDyn

Here == image.dynamic[pos]
Mapped == pos <= Len(image.dynamic)

(* NonZeroUsize::new_unchecked(0): a debug build aborts, a release build   *)
(* holds the value that means None, in DT_NEEDED's Vec just a 0.           *)
IsZero == Here.tag \in NonZeroTags \cup {"NEEDED"} /\ Here.val = 0

ReadZero ==
  /\ pc = "dynamic" /\ Mapped /\ IsZero
  /\ IF build.debug THEN pc' = "abort" /\ UNCHANGED <<pos, acc>>
     ELSE /\ acc' = IF Here.tag = "NEEDED" THEN [acc EXCEPT !.needed = Append(@, 0)]
                    ELSE [acc EXCEPT !.opt[Here.tag] = {}]
          /\ pos' = pos + 1 /\ UNCHANGED pc
  /\ UNCHANGED <<image, build, dyn>>

ReadTag_FirstWins ==             \* mutant: a tag that was seen is not overwritten
  /\ pc = "dynamic" /\ Mapped /\ Here.tag # "NULL" /\ ~IsZero
  /\ acc' = IF Here.tag \in DOMAIN acc.opt
            THEN [acc EXCEPT !.opt[Here.tag] = IF @ = {} THEN {Here.val} ELSE @]
            ELSE IF Here.tag \in PlainTags
            THEN [acc EXCEPT !.val[Here.tag] = IF @ = 0 THEN Here.val ELSE @]
            ELSE IF Here.tag = "NEEDED" THEN [acc EXCEPT !.needed = Append(@, Here.val)]
            ELSE acc
  /\ pos' = pos + 1
  /\ UNCHANGED <<image, build, pc, dyn>>

ReadTag ==
  /\ pc = "dynamic" /\ Mapped /\ Here.tag # "NULL" /\ ~IsZero
  /\ acc' = IF Here.tag \in DOMAIN acc.opt THEN [acc EXCEPT !.opt[Here.tag] = {Here.val}]
            ELSE IF Here.tag \in PlainTags THEN [acc EXCEPT !.val[Here.tag] = Here.val]
            ELSE IF Here.tag = "NEEDED" THEN [acc EXCEPT !.needed = Append(@, Here.val)]
            ELSE acc
  /\ pos' = pos + 1
  /\ UNCHANGED <<image, build, pc, dyn>>

ReadNull ==
  /\ pc = "dynamic" /\ Mapped /\ Here.tag = "NULL"
  /\ pc' = "finish"
  /\ UNCHANGED <<image, build, pos, acc, dyn>>

(* No DT_NULL: the entries run on into whatever follows. *)
ReadPastEnd ==
  /\ pc = "dynamic" /\ ~Mapped
  /\ pc' = "wild"
  /\ UNCHANGED <<image, build, pos, acc, dyn>>

-----------------------------------------------------------------------------
(* The four tables that are a slice of the segments, and their sizes. *)
SizeOf == [ JMPREL |-> "PLTRELSZ", RELA |-> "RELASZ",
            INIT_ARRAY |-> "INIT_ARRAYSZ", FINI_ARRAY |-> "FINI_ARRAYSZ" ]
CountOf == [ VERNEED |-> "VERNEEDNUM", VERDEF |-> "VERDEFNUM" ]

(* size.unwrap() *)
SizeMissing == \E t \in DOMAIN SizeOf : acc.opt[t] # {} /\ acc.opt[SizeOf[t]] = {}

(* num.unwrap_unchecked(): a debug build aborts, a release build has 0. *)
CountMissing == \E t \in DOMAIN CountOf : acc.opt[t] # {} /\ acc.opt[CountOf[t]] = {}

(* debug_assert! of get_slice and get_ptr *)
OutOfImage ==
  \/ \E t \in DOMAIN SizeOf : \E off \in acc.opt[t], sz \in acc.opt[SizeOf[t]] :
       off + sz > image.len \/ off >= image.len
  \/ \E t \in {"INIT", "FINI"} : \E off \in acc.opt[t] : off >= image.len

At(t) == {Base + off : off \in acc.opt[t]}

(* An address and how much is there, if both are known. *)
Sized(offs, sizes) == {<<Base + off, sz>> : off \in offs, sz \in sizes}

Slice(t) == Sized(acc.opt[t], acc.opt[SizeOf[t]])

Count(t) == Sized(acc.opt[t], IF acc.opt[CountOf[t]] = {} THEN {0} ELSE acc.opt[CountOf[t]])

Built(hash_off) ==
  [ hashtab |-> Base + hash_off, symtab |-> Base + acc.val["SYMTAB"],
    strtab |-> Base + acc.val["STRTAB"],
    bind_now |-> (acc.val["FLAGS"] \div DF_BIND_NOW) % 2 = 1, got |-> At("PLTGOT"),
    needed |-> acc.needed, pltrel |-> Slice("JMPREL"), dynrel |-> Slice("RELA"),
    init |-> At("INIT"), init_array |-> Slice("INIT_ARRAY"),
    fini |-> At("FINI"), fini_array |-> Slice("FINI_ARRAY"),
    rela_count |-> acc.opt["RELACOUNT"], rpath |-> acc.opt["RPATH"],
    runpath |-> acc.opt["RUNPATH"], version_idx |-> At("VERSYM"),
    verneed |-> Count("VERNEED"), verdef |-> Count("VERDEF") ]

FinishErr ==
  /\ pc = "finish" /\ acc.opt["GNU_HASH"] = {}
  /\ pc' = "err" /\ UNCHANGED <<image, build, pos, acc, dyn>>

FinishPanic ==
  /\ pc = "finish" /\ acc.opt["GNU_HASH"] # {}
  /\ SizeMissing \/ (build.debug /\ (OutOfImage \/ CountMissing))
  /\ pc' = "panic" /\ UNCHANGED <<image, build, pos, acc, dyn>>

FinishOk ==
  /\ pc = "finish" /\ ~SizeMissing
  /\ build.debug => ~OutOfImage /\ ~CountMissing
  /\ \E hash_off \in acc.opt["GNU_HASH"] : dyn' = Built(hash_off)
  /\ pc' = "parsed" /\ UNCHANGED <<image, build, pos, acc>>

DynNext == \/ ReadZero \/ ReadTag \/ ReadNull \/ ReadPastEnd
           \/ FinishErr \/ FinishPanic \/ FinishOk

-----------------------------------------------------------------------------
(* Where a tag stands before the first DT_NULL, and its last value there.  *)
Terminated == \E i \in DOMAIN image.dynamic : image.dynamic[i].tag = "NULL"

Listed(t) == {i \in DOMAIN image.dynamic : /\ image.dynamic[i].tag = t
                                           /\ \A j \in 1 .. i : image.dynamic[j].tag # "NULL"}

Has(t) == Listed(t) # {}

LastValue(places) == {image.dynamic[i].val : i \in {k \in places : \A j \in places : j <= k}}

Final(t) == LastValue(Listed(t))

(* A section as linkers emit it: terminated, no zero where the code has a  *)
(* NonZeroUsize, every table with its size, the mandatory tables there and *)
(* everything inside the image.                                            *)
Emitted ==
  /\ Terminated
  /\ \A t \in NonZeroTags \cup {"NEEDED"} : \A i \in Listed(t) : image.dynamic[i].val # 0
  /\ Has("GNU_HASH") /\ Has("SYMTAB") /\ Has("STRTAB")
  /\ \A t \in DOMAIN SizeOf : Has(t) => Has(SizeOf[t])
  /\ \A t \in DOMAIN CountOf : Has(t) => Has(CountOf[t])
  /\ \A t \in DOMAIN SizeOf : \A off \in Final(t), sz \in Final(SizeOf[t]) :
       off < image.len /\ off + sz <= image.len
  /\ \A t \in {"INIT", "FINI"} : \A off \in Final(t) : off < image.len

Failed == pc \in {"err", "panic", "abort", "wild"}

(* The ElfDynamic d holds what the section says. *)
Addresses(t) == {Base + v : v \in Final(t)}

Tables(t, size) == Sized(Final(t), Final(size))

BindNow == \E v \in Final("FLAGS") : (v \div DF_BIND_NOW) % 2 = 1

Says(d) ==
  /\ {d.hashtab} = Addresses("GNU_HASH")
  /\ {d.symtab} = Addresses("SYMTAB") /\ {d.strtab} = Addresses("STRTAB")
  /\ d.bind_now = BindNow
  /\ Len(d.needed) = Cardinality(Listed("NEEDED"))
  /\ \A i \in Listed("NEEDED") :
       d.needed[Cardinality(Listed("NEEDED") \cap 1 .. i)] = image.dynamic[i].val
  /\ d.pltrel = Tables("JMPREL", "PLTRELSZ") /\ d.dynrel = Tables("RELA", "RELASZ")
  /\ d.init_array = Tables("INIT_ARRAY", "INIT_ARRAYSZ") /\ d.init = Addresses("INIT")
  /\ d.fini_array = Tables("FINI_ARRAY", "FINI_ARRAYSZ") /\ d.fini = Addresses("FINI")
  /\ d.verneed = Tables("VERNEED", "VERNEEDNUM") /\ d.verdef = Tables("VERDEF", "VERDEFNUM")
  /\ d.version_idx = Addresses("VERSYM") /\ d.got = Addresses("PLTGOT")
  /\ d.rela_count = Final("RELACOUNT") /\ d.rpath = Final("RPATH") /\ d.runpath = Final("RUNPATH")

(***************************************************************************)
(* A dynamic section as linkers emit it is accepted, by debug and release  *)
(* builds alike, and what ElfDynamic holds is what the section says: the   *)
(* last value of each tag, mapped where it is an address, each size with   *)
(* its own table, and DT_NEEDED complete and in order.                     *)
(***************************************************************************)
DynamicParsed ==
  /\ Failed /\ dyn = NoDyn => ~Emitted
  /\ dyn # NoDyn /\ Emitted => Says(dyn)

=============================================================================
