----------------------------- MODULE ObjectLife -----------------------------
(***************************************************************************)
(* What the handles of a loaded object promise, with no handle in sight:   *)
(* the object is counted.  It can be taken into use only by who has it in  *)
(* use, it is initialised while it is in use, and when its count is zero   *)
(* it is finalised, if it was initialised, and unmapped, in this order.    *)
(***************************************************************************)
EXTENDS Naturals

CONSTANT Objects

VARIABLES
  refs,    \* refs[o]: how often o is in use
  inited,  \* the objects that were initialised
  ended,   \* the objects whose finalisation is over
  called,  \* the objects whose finalisers were called
  mapped   \* the objects in memory

vars == <<refs, inited, ended, called, mapped>>

Init == /\ refs = [o \in Objects |-> 0]
        /\ inited = {} /\ ended = {} /\ called = {} /\ mapped = {}

New(o) ==
  /\ o \notin mapped /\ o \notin ended
  /\ mapped' = mapped \cup {o} /\ refs' = [refs EXCEPT ![o] = 1]
  /\ UNCHANGED <<inited, ended, called>>

Initialise(o) ==
  /\ refs[o] > 0 /\ o \notin inited
  /\ inited' = inited \cup {o}
  /\ UNCHANGED <<refs, ended, called, mapped>>

Acquire(o) ==
  /\ refs[o] > 0 /\ refs' = [refs EXCEPT ![o] = @ + 1]
  /\ UNCHANGED <<inited, ended, called, mapped>>

Release(o) ==
  /\ refs[o] > 0 /\ refs' = [refs EXCEPT ![o] = @ - 1]
  /\ UNCHANGED <<inited, ended, called, mapped>>

Finalise(o) ==
  /\ refs[o] = 0 /\ o \in mapped /\ o \notin ended
  /\ ended' = ended \cup {o}
  /\ called' = called \cup ({o} \cap inited)
  /\ UNCHANGED <<refs, inited, mapped>>

Unmap(o) ==
  /\ o \in ended /\ o \in mapped
  /\ mapped' = mapped \ {o}
  /\ UNCHANGED <<refs, inited, ended, called>>

Next == \E o \in Objects : \/ New(o) \/ Initialise(o) \/ Acquire(o) \/ Release(o)
                           \/ Finalise(o) \/ Unmap(o)

Spec == Init /\ [][Next]_vars

=============================================================================
