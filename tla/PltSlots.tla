------------------------------ MODULE PltSlots ------------------------------
(***************************************************************************)
(* What lazy binding promises, with no thread and no lookup in sight: a    *)
(* slot of the PLT is a stub until it is bound, and it is bound only to    *)
(* what one of the scopes that have been published answers for it.         *)
(***************************************************************************)
CONSTANTS
  Slots,     \* the JUMP_SLOTs of all lazily bound objects
  Scopes,    \* values GLOBAL_SCOPE may have
  Start,     \* the one it has at first: no global scope
  Stub,      \* the value of an unbound slot
  Nowhere,   \* the answer of a scope that does not know the symbol
  Answer     \* Answer[s][g]: what s is bound to while GLOBAL_SCOPE is g

VARIABLES slots, published

vars == <<slots, published>>

Init == slots = [s \in Slots |-> Stub] /\ published = {Start}

Publish(g) == published' = published \cup {g} /\ UNCHANGED slots

Bind(s, g) ==
  /\ g \in published /\ Answer[s][g] # Nowhere
  /\ slots' = [slots EXCEPT ![s] = Answer[s][g]]
  /\ UNCHANGED published

Next == \/ \E g \in Scopes : Publish(g)
        \/ \E s \in Slots, g \in Scopes : Bind(s, g)

Spec == Init /\ [][Next]_vars

=============================================================================
