------------------------------ MODULE MCKvStore ------------------------------
(* Keys and model values of KvStore for TLC. *)
EXTENDS KvStore, TLC

CONSTANTS empty, s1, s2, binary, text, broken

(* One byte that is not JSON, what is JSON, and what only claims to be JSON. *)
Lengths == [v \in Values |-> IF v = text THEN 2 ELSE 1]

(* No path, a collection with another path below one of its documents, and a
   document written below the empty key.                                    *)
SomeKeys ==
  {<<empty>>, <<empty, s1>>, <<s1>>, <<s1, s1>>, <<s1, s2>>, <<s1, s2, s1>>}

(* A document without a path, and one below it. *)
PathAndPrefix == {<<s1>>, <<s1, s2>>}

(* No action tells these apart. *)
Symmetry ==
  Permutations(Requests) \cup Permutations(Owners) \cup Permutations(Clients)
===============================================================================
