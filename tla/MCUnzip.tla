------------------------------ MODULE MCUnzip ------------------------------
(***************************************************************************)
(* Instances of Unzip for TLC: archives of up to MaxFiles members, drawn    *)
(* from one of each sort, and some that hold one more, in homes that        *)
(* already hold something in the way.                                       *)
(***************************************************************************)
EXTENDS Unzip

CONSTANTS d, x, z

TwoParts == <<d, z>>
JustD == <<d>>

File(name) == [dir |-> FALSE, link |-> FALSE, rooted |-> FALSE, name |-> name,
               size |-> 1, sound |-> TRUE]
Folder(name) == [File(name) EXCEPT !.dir = TRUE, !.size = 0]

Members ==
    {File(<<x>>), File(<<x, x>>), File(<<z>>), File(<<>>),
     File(<<Up, x>>), File(<<x, Up, Up, x>>), File(<<x, Up>>),
     [File(<<x>>) EXCEPT !.rooted = TRUE],
     [File(<<x>>) EXCEPT !.size = 2],
     [File(<<z, x>>) EXCEPT !.sound = FALSE],
     Folder(<<x>>), Folder(<<Up, x>>), [Folder(<<x>>) EXCEPT !.link = TRUE],
     [File(<<x>>) EXCEPT !.link = TRUE]}

MCArchives == UNION {[1..n -> Members] : n \in 0..MaxFiles}
                \cup [1..(MaxFiles + 1) -> {File(<<x>>), Folder(<<x>>)}]

Bare == [p \in Paths |-> IF p = <<d>> THEN Dir ELSE IF p = ZipPath THEN Kept ELSE Nothing]

MCHomes == {Bare, [Bare EXCEPT ![<<d, x>>] = Dir, ![<<d, x, x>>] = Kept],
            [Bare EXCEPT ![<<d, x>>] = Kept], [Bare EXCEPT ![<<x>>] = Kept]}
=============================================================================
