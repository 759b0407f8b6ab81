---------------------------- MODULE MCMiniLoader ----------------------------
(***************************************************************************)
(* A mini-loader, one without DT_RELACOUNT, an executable, a PIE, a        *)
(* program with an interpreter, one whose interpreter is broken, one that  *)
(* has the mini-loader for interpreter; the kernel starts the mini-loader  *)
(* by itself (AT_BASE zero or absent) or as the interpreter of another     *)
(* program (AT_BASE is its base).                                          *)
(***************************************************************************)
EXTENDS MiniLoader, SequencesExt

D(t, v) == [tag |-> t, val |-> v]
P(t, v) == [p_type |-> t, p_vaddr |-> v]

Program == [ ok |-> TRUE, pie |-> TRUE, entry |-> 2, phoff |-> 1, dynamic |-> <<>>, relas |-> <<>>,
             phdrs |-> <<P("LOAD", 0), P("DYNAMIC", 8)>>, interp |-> NoFile ]

Mini == [ Program EXCEPT !.entry = 5,
            !.dynamic = <<D("STRTAB", 3), D("RELACOUNT", 2), D("RELA", 40), D("RELAENT", 24), D("NULL", 0)>>,
            !.relas = <<[off |-> 50, addend |-> 7], [off |-> 51, addend |-> 0]>>,
            !.phdrs = <<P("PHDR", 1), P("LOAD", 0), P("DYNAMIC", 30)>> ]

MCFiles ==
  [ mini  |-> Mini,
    odd   |-> [Mini EXCEPT !.dynamic = <<D("RELA", 40), D("NULL", 0)>>],
    exec  |-> [Program EXCEPT !.pie = FALSE, !.entry = 60, !.phoff = 61,
                                !.phdrs = <<P("LOAD", 0)>>],
    pie   |-> Program,
    dyn   |-> [Program EXCEPT !.interp = "ld"],
    ld    |-> [Program EXCEPT !.entry = 9, !.phdrs = <<P("LOAD", 4), P("DYNAMIC", 4)>>],
    torn  |-> [Program EXCEPT !.interp = "junk"],
    nest  |-> [Program EXCEPT !.interp = "mini"],
    junk  |-> [Program EXCEPT !.ok = FALSE] ]

(* Argument strings are at 201 ..., environment strings at 301 ... *)
MCNamed == [ p \in 201 .. 209 |->
               CASE p = 201 -> "mini" [] p = 202 -> "odd" [] p = 203 -> "exec" [] p = 204 -> "pie"
                 [] p = 205 -> "dyn" [] p = 206 -> "ld" [] p = 207 -> "torn" [] p = 208 -> "nest" [] OTHER -> "junk" ]

A(t, v) == [tag |-> t, val |-> v]
PAGESZ  == 6
RANDOM  == 25

(* mini-loader run as a program, mapped at 100 *)
Kernel  == << A(PAGESZ, 4096), A(AT_PHDR, 101), A(AT_PHENT, 56), A(AT_PHNUM, 3), A(AT_BASE, 0),
              A(AT_ENTRY, 105), A(RANDOM, 400), A(AT_EXECFN, 201), A(AT_NULL, 0) >>
(* as the interpreter of a program whose headers are at 800 *)
AsInterp == [Kernel EXCEPT ![2].val = 800, ![5].val = 100, ![6].val = 810]
NoBase   == RemoveAt(Kernel, 5)
NoPhnum  == RemoveAt(NoBase, 4)

UpTo(set, n) == UNION {[1 .. k -> set] : k \in 0 .. n}

MCStarts ==
  {[file |-> f, argv |-> <<201>> \o args, env |-> e, aux |-> x] :
     f \in {"mini", "odd"}, args \in UpTo(DOMAIN MCNamed, 2),
     e \in {<<>>, <<301>>, <<301, 302>>}, x \in {Kernel, AsInterp, NoBase, NoPhnum}}

=============================================================================
