--------------------------- MODULE MCAstArena -----------------------------
(* Strings and hashes for AstArena: "e" is the empty string, "b" has hash 0, *)
(* "e" and "d" collide in every table, and others in the small ones only.      *)
EXTENDS AstArena

Strings == {"e", "b", "c", "d", "f", "g"}
HashOf == [s \in Strings |-> CASE s \in {"e", "c"} -> 3 [] s \in {"b", "g"} -> 0
                               [] s = "d" -> 19 [] s = "f" -> 7]
LengthOf == [s \in Strings |-> CASE s = "e" -> 0 [] s \in {"b", "c", "f"} -> 1
                                 [] s = "d" -> 3 [] s = "g" -> 5]
=============================================================================
