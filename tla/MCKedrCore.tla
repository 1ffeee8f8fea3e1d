----------------------------- MODULE MCKedrCore -----------------------------
(* Instances of KedrCore for TLC. *)
EXTENDS KedrCore, TLC

CONSTANTS m1, m2, s1, eh, eh2, al, hk, fh1, fh2

\* Two sets of event handlers, an allocator, and two plugins with a function in common.
KindRich == (eh :> 0) @@ (eh2 :> 0) @@ (al :> 1) @@ (fh1 :> FH_PLUGIN) @@ (fh2 :> FH_PLUGIN)
FuncsRich == (eh :> {}) @@ (eh2 :> {}) @@ (al :> {}) @@ (fh1 :> {"kmalloc"})
             @@ (fh2 :> {"kmalloc", "kfree"})

\* Hooks only.
KindHooks == hk :> 2
FuncsHooks == hk :> {}
=============================================================================
