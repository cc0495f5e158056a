----------------------------- MODULE MCCallClient -----------------------------
(* CallClient for TLC: a conversation of two and a room of three.            *)
EXTENDS CallClient, TLC

CONSTANTS a, b, c, dm, room, i1, i2

MCMembersOf == dm :> {a, b} @@ room :> {a, b, c}
Symmetry == {f @@ g : f \in Permutations({a, b}), g \in Permutations({i1, i2})}
===============================================================================
