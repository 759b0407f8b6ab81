----------------------------- MODULE MCLifetime -----------------------------
(* Three objects: chains and diamonds of dependencies. *)
EXTENDS Lifetime, TLC

CONSTANTS a, b, c

(* Libraries are loaded bottom up. *)
MCDeps == a :> {} @@ b :> {a} @@ c :> {a, b}

(* Clones of the library everything depends on, and of the one between. *)
MCMaxHandles == a :> 2 @@ b :> 1 @@ c :> 1

MCMaxBare == a :> 0 @@ b :> 1 @@ c :> 0
MCNoBare  == a :> 0 @@ b :> 0 @@ c :> 0

=============================================================================
