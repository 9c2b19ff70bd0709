---------------------------- MODULE MCTreeOps ----------------------------
(***************************************************************************)
(* Instances of TreeOps for TLC: a home with a directory, one in it, a file *)
(* and room for new directories, and a symlink that leaves the home.        *)
(***************************************************************************)
EXTENDS TreeOps, TLC

CONSTANTS
    home, top, sub, new1, new2, new3,   \* directories
    a, b,                         \* names
    out,                          \* a symlink
    w1, w2

LinkTarget == [l \in Links |-> Outside]

\* home: a -> top;  top: a -> sub, b -> a file;  sub is empty.  The symlink and
\* the FIFO are the shell's to make.
Tree == [d \in Inside |-> [n \in Names |->
    CASE d = home /\ n = a -> top
      [] d = top /\ n = a -> sub
      [] d = top /\ n = b -> Mine
      [] OTHER -> Nothing]]

\* The directory top, which holds the other
Asked == {<<home, a>>}

\* Beside top, and inside what is copied
Empty == {<<home, b>>, <<sub, b>>}
============================================================================
