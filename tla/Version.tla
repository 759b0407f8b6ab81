------------------------------ MODULE Version ------------------------------
(***************************************************************************)
(* GNU symbol versions (src/version.rs): the array ELFVersion::new builds  *)
(* from .gnu.version_d and .gnu.version_r, and the two questions asked of  *)
(* it, get_requirement by the object that imports a symbol and check_match *)
(* by the one that defines it.                                             *)
(*                                                                         *)
(* An Option is a set of at most one element.  A version definition is     *)
(* [ndx, hash, names], names being its VerDefAux entries, and an entry of  *)
(* .gnu.version_r a sequence of [ndx, hash, name].                         *)
(***************************************************************************)
EXTENDS Integers, Sequences, FiniteSetsExt

CONSTANT VerHash     \* VerHash[v]: dl_elf_hash of a version name

(* The version tables of an object, as they lie in memory: an index is     *)
(* what the mask leaves of 16 bits.                                        *)
VER_NDX_VERSION == 32767

Ndx == 0 .. VER_NDX_VERSION

VersionTables(im) ==
  /\ im.ids \in Seq([ndx : Ndx, hidden : BOOLEAN])
  /\ im.defs \in Seq([ndx : Ndx, hash : Nat, names : Seq(DOMAIN VerHash)])
  /\ im.needs \in Seq(Seq([ndx : Ndx, hash : Nat, name : DOMAIN VerHash]))

(* What VerDefIterator and VerNeedIterator visit: num entries, and the     *)
(* last entry again when num is too large, as its vd_next is 0.            *)
Walk(table, num) ==
  [i \in 1 .. num |-> table[IF i <= Len(table) THEN i ELSE Len(table)]]

(* The writes into the array, by when they are made: first those of the    *)
(* definitions, <<0, i>>, then those of entry i of .gnu.version_r, <<i, j>>*)
Writes(defs, needs) ==
  ({0} \X DOMAIN defs) \cup UNION {{i} \X DOMAIN needs[i] : i \in DOMAIN needs}

Written(defs, needs, w) ==
  IF w[1] = 0 THEN [ndx |-> defs[w[2]].ndx, hash |-> defs[w[2]].hash, name |-> defs[w[2]].names[1]]
  ELSE needs[w[1]][w[2]]

Latest(ws) == CHOOSE w \in ws : \A x \in ws : x[1] < w[1] \/ (x[1] = w[1] /\ x[2] <= w[2])

NdxMax_DefsOnly(defs, needs) ==  \* mutant: .gnu.version_r is left out of the maximum
  Max({0} \cup {defs[i].ndx : i \in DOMAIN defs})

NdxMax(defs, needs) ==
  Max({0} \cup {defs[i].ndx : i \in DOMAIN defs}
          \cup UNION {{needs[i][j].ndx : j \in DOMAIN needs[i]} : i \in DOMAIN needs})

(* versions: reserve and set_len leave the slots that are never written    *)
(* uninitialised, here {}.                                                 *)
Slot(defs, needs, k) ==
  LET at == {w \in Writes(defs, needs) : Written(defs, needs, w).ndx = k}
      v  == Written(defs, needs, Latest(at))
  IN  IF at = {} THEN {} ELSE {[name |-> v.name, hash |-> v.hash]}

Slots(defs, needs) == [k \in 0 .. NdxMax(defs, needs) |-> Slot(defs, needs, k)]

(* ELFVersion::new panics on a definition without a name, and on an index  *)
(* past the array.                                                         *)
NewPanics(defs, needs) ==
  ~ /\ \A i \in DOMAIN defs : defs[i].names # <<>>
    /\ \A w \in Writes(defs, needs) : Written(defs, needs, w).ndx <= NdxMax(defs, needs)

-----------------------------------------------------------------------------
(* SymbolVersion::new, for get_version: only the very version will do. *)
NewVersion(v) == [name |-> v, hash |-> VerHash[v], hidden |-> TRUE]

(* get_requirement of symbol i, for an object with the array slots: the    *)
(* version asked for, if any.  An index past the array and a slot nobody   *)
(* wrote are steps of their own in SymbolTable.                            *)
GetRequirement(ids, slots, i) ==
  IF ids[i].ndx <= 1 THEN {}
  ELSE {[name |-> s.name, hash |-> s.hash, hidden |-> ids[i].hidden] : s \in slots[ids[i].ndx]}

(* check_match of symbol i against the version wanted: what may come of it.*)
(* A slot that was never written holds whatever the allocator left there:  *)
(* an old version, or a hash that differs, or a name that points nowhere.  *)
CheckMatch(table, i, want) ==
  IF want = {} THEN {"yes"}
  ELSE IF table = {} THEN {"panic"}                             \* unwrap
  ELSE UNION { LET id      == t.ids[i]
                   default == \A w \in want : ~w.hidden /\ ~id.hidden
               IN  IF id.ndx \notin DOMAIN t.slots THEN {"panic"}
                   ELSE IF t.slots[id.ndx] = {}
                        THEN {"yes", "wild"} \cup IF default THEN {} ELSE {"no"}
                   ELSE { IF \/ \E s \in t.slots[id.ndx], w \in want :
                                   s.hash = w.hash /\ s.name = w.name
                             \/ default
                          THEN "yes" ELSE "no" } : t \in table }

=============================================================================
