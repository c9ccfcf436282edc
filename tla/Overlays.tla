------------------------------ MODULE Overlays ------------------------------
(***************************************************************************)
(* Functions that grow: the files of directories, the fields of a form,    *)
(* the columns of a database.  What :> and @@ of the module TLC are to a   *)
(* run, in a form that proofs can expand.                                  *)
(***************************************************************************)

Single(k, v) == [x \in {k} |-> v]
\* f, and g where f has nothing
f ++ g == [x \in DOMAIN f \cup DOMAIN g |-> IF x \in DOMAIN f THEN f[x] ELSE g[x]]
=============================================================================
