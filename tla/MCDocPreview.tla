---------------------------- MODULE MCDocPreview ----------------------------
(* An instance of DocPreview for TLC: a page with two terms that name one entity
   and one that names another, and a second page with one term. *)
EXTENDS DocPreview, TLC

CONSTANTS a1, a2, b, c, A, B, home, other

MCEntity == a1 :> A @@ a2 :> A @@ b :> B @@ c :> A
MCPage   == a1 :> home @@ a2 :> home @@ b :> home @@ c :> other
=============================================================================
