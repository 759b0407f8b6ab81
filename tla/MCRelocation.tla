---------------------------- MODULE MCRelocation ----------------------------
(***************************************************************************)
(* Symbols: f defined by two libraries, g an IFUNC of one, u nowhere, w    *)
(* weak and nowhere, l local, d defined by the object and by a library, t  *)
(* with a version that a cannot look up and b has, v weak with a value, x  *)
(* with a version index past the object's tables.                          *)
(***************************************************************************)
EXTENDS Relocation

MCNames == {"f", "g", "u", "w", "l", "d", "t", "v", "x"}
MCLibs  == {"self", "a", "b"}
MCKind  == [n \in MCNames |-> CASE n \in {"w", "v"} -> "weak" [] n = "l" -> "local"
                                [] n = "d" -> "defined" [] OTHER -> "undef"]
MCDefs  == [l \in MCLibs |-> CASE l = "self" -> {"d"} [] l = "a" -> {"f", "d"}
                               [] OTHER -> {"f", "g", "t"}]
MCTrips == [l \in MCLibs |-> IF l = "a" THEN {"t"} ELSE {}]
MCIFuncs == {"g"}
MCSlots  == 1 .. 5

R(t, s, n, a) == [r_type |-> t, r_offset |-> s, r_sym |-> n, r_addend |-> a]

(* Entries of .rela.dyn: relatives first. *)
DynTables(types, addend) ==
  {<<R("RELATIVE", 1, "l", 1), R(t, 2, n, addend)>> : t \in types, n \in MCNames}
  \cup {<<R("RELATIVE", 1, "l", 1), R("GOT", 2, n, 0), R(t, 3, m, addend)>> :
           t \in {"RELATIVE", "NONE"}, n \in {"f", "u"}, m \in {"l"}}

PltTables ==
  {<<R("JUMP_SLOT", 4, n, 0)>> : n \in MCNames}
  \cup {<<R("IRELATIVE", 4, "l", 0), R("JUMP_SLOT", 5, n, 0)>> : n \in {"f", "u", "g"}}

Arg(rela, plt) == [ dylib |-> TRUE, lazy |-> FALSE, got |-> TRUE, overlap |-> FALSE,
                    rela |-> rela, rela_count |-> IF rela = <<>> THEN 0 ELSE 1, plt |-> plt,
                    relro |-> TRUE, inits |-> <<"init_fn", "init_array">>,
                    scope |-> <<"b", "a">>, pre_find |-> {}, deals |-> FALSE,
                    local |-> TRUE, global |-> FALSE ]

Bools == {TRUE, FALSE}

(* How an object may be relocated, for one pair of tables. *)
Ways(rela, plt) ==
  { [Arg(rela, plt) EXCEPT !.dylib = d, !.lazy = z, !.overlap = o, !.deals = k,
                           !.scope = s, !.pre_find = p] :
    d \in Bools, z \in Bools, o \in Bools, k \in Bools,
    s \in {<<>>, <<"a", "b">>, <<"b", "self", "a">>}, p \in {{}, {"f", "u", "t", "v"}} }

Lacking(rela, plt) ==
  { [Arg(rela, plt) EXCEPT !.lazy = z, !.got = g, !.local = l, !.global = b, !.relro = r,
                           !.inits = <<>>] :
    z \in Bools, g \in Bools, l \in Bools, b \in Bools, r \in Bools }

AllInputs ==
  UNION { Ways(t, <<R("JUMP_SLOT", 4, "f", 0)>>) :
          t \in DynTables({"GOT", "SYMBOLIC", "DTPOFF", "COPY", "IRELATIVE", "OTHER"}, 0) }
  \cup UNION { Ways(<<R("RELATIVE", 1, "l", 1)>>, p) : p \in PltTables }
  \cup UNION { Lacking(t, p) : t \in {<<>>, <<R("RELATIVE", 1, "l", 1)>>},
                               p \in {<<>>, <<R("JUMP_SLOT", 4, "f", 0)>>,
                                      <<R("OTHER", 4, "f", 0)>>} }
  \cup { [Arg(<<>>, <<>>) EXCEPT !.dylib = FALSE] }

(* Every one of them has well-formed tables. *)
MCInputs == {in \in AllInputs : Sane(in)}

(* A symbolic relocation with an addend, as in a pointer into an array. *)
WithAddend == { Arg(<<R("RELATIVE", 1, "l", 1), R("SYMBOLIC", 2, "f", 8)>>, <<>>) }

=============================================================================
