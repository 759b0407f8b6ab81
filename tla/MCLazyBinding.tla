--------------------------- MODULE MCLazyBinding ----------------------------
(***************************************************************************)
(* Slots: s1 of a symbol two libraries, the closure and a global scope     *)
(* know; s2 of one that only the second library has; s3 of an object       *)
(* without a lazy scope; s4 of an executable that defines the symbol and   *)
(* was relocated against no library; s5 of an entry without a symbol.      *)
(***************************************************************************)
EXTENDS LazyBinding

MCNameOf  == [s \in Slots |-> CASE s \in {"s1", "s4"} -> "f" [] s = "s3" -> "h" [] OTHER -> "g"]
MCScope   == [s \in Slots |-> CASE s \in {"s1", "s2"} -> <<"a", "b">>
                                [] OTHER              -> <<>>]
MCPreFind == [s \in Slots |-> IF s \in {"s1", "s4"} THEN {"f"} ELSE {}]
MCGet     == [l \in Libs |-> [n \in Names |->
                CASE n = "f" -> "f" [] n = "g" /\ l = "b" -> "g" [] OTHER -> NoSym]]
MCGetFor  == [s \in Slots |-> [l \in Libs |-> MCGet[l][MCNameOf[s]]]]
MCOwn     == [s \in Slots |-> IF s = "s4" THEN "f" ELSE NoSym]
MCProvides == [g \in Globals |-> IF g = "G1" THEN {"f"} ELSE {"g"}]

=============================================================================
