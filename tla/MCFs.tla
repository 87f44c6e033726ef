-------------------------------- MODULE MCFs --------------------------------
(* Model values for Fs. *)
EXTENDS Fs, TLC

CONSTANTS p1, p2, a, b

Gives(c1, c2) == [p \in Proc |-> IF p = p1 THEN c1 ELSE c2]

(* One process builds and the other takes away: in a tree with links, in a *)
(* tree with current directories, and with files that stay open.           *)
BuildAndUnlink ==
  {Gives({"create", "mkdir", "link"}, {"unlink"}),
   Gives({"create", "mkdir", "chdir"}, {"unlink"}),
   Gives({"create", "open"}, {"unlink", "link"})}

Directories == {Gives({"open", "mkdir", "chdir", "unlink"}, {})}

Sym == Permutations({a, b})
====
