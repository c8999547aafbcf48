--------------------------- MODULE MCReplacement ---------------------------
(***************************************************************************)
(* Replacement on three staged entries: a directory, a file beside it and  *)
(* a file inside it.  One more slot inside the directory is not in the     *)
(* archive, so the other process can fill a directory the merge made.      *)
(***************************************************************************)
EXTENDS Replacement, TLC

CONSTANTS d, f, g, extra, root

MCSlots == {d, f, g, extra}
MCUp == (d :> root) @@ (f :> root) @@ (g :> d) @@ (extra :> d)
MCIsDir == <<TRUE, FALSE, FALSE>>
TreeSlotOf == <<d, f, g>>

=============================================================================
