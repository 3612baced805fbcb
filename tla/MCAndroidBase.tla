---------------------------- MODULE MCAndroidBase ----------------------------
(* AndroidBase for TLC: two replacements with images of their own and one  *)
(* kernel-update hook.                                                     *)
EXTENDS AndroidBase

MCInput == [r \in Replacers |-> IF r = "r1" THEN "newer" ELSE "newest"]
=============================================================================
