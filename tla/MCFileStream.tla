---------------------------- MODULE MCFileStream ----------------------------
(* Instances of FileStream for TLC. *)
EXTENDS FileStream

CONSTANTS a, b, c

(* A file whose last node is partial, one of whole nodes, an empty one.    *)
Sizes == [f \in Files |-> CASE f = a -> 7 [] f = b -> 4 [] OTHER -> 0]
=============================================================================
