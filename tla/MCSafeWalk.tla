---------------------------- MODULE MCSafeWalk ----------------------------
(***************************************************************************)
(* Instances of SafeWalk for TLC: a home with a directory below it, one    *)
(* file, a FIFO, and links of the shapes the walk tells apart.             *)
(***************************************************************************)
EXTENDS SafeFallback, TLC

CONSTANTS r, d1, f, fifo, abs, here, over, a, b

LinkTarget ==
    [l \in Links |-> CASE l = abs  -> Absolute
                       [] l = here -> <<a>>
                       [] l = over -> <<Up, b>>]

ShortPaths == {<<a>>, <<a, b>>}
===========================================================================
