------------------------------ MODULE MCReader ------------------------------
(***************************************************************************)
(* A buffer of four bytes, of which the header takes two.  Files: one      *)
(* whose program headers end with the buffer, one whose program headers    *)
(* end past it, one shorter than the buffer and without program headers,   *)
(* one for the syscall build, one whose descriptor somebody else uses      *)
(* as well.  In memory: a whole object, one cut off in its program         *)
(* headers, one that is no ELF object.                                     *)
(***************************************************************************)
EXTENDS Reader

File(kind, len, start, end) ==
  [kind |-> kind, len |-> len, valid |-> TRUE, phdr_start |-> start, phdr_end |-> end, shared |-> FALSE]

MCObj == [ fits   |-> File("libc", 5, 2, 4),
           over   |-> File("libc", 5, 2, 5),
           short  |-> File("libc", 3, 2, 2),
           raw    |-> File("syscall", 5, 3, 5),
           shared |-> [File("libc", 5, 3, 5) EXCEPT !.shared = TRUE],
           memory |-> File("binary", 6, 5, 6),
           cut    |-> File("binary", 5, 4, 6),
           no_elf |-> [File("binary", 4, 2, 4) EXCEPT !.valid = FALSE] ]

MCObjects == DOMAIN MCObj

=============================================================================
