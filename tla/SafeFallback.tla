--------------------------- MODULE SafeFallback ---------------------------
(***************************************************************************)
(* The portable backend of app/safepath.py: _fallback_path, which refuses  *)
(* absolute links and resolves the path, and what read and list do with    *)
(* the result.  It serves as the reference for the anchored walk: "public  *)
(* operations - identical contract on both backends".                      *)
(***************************************************************************)
EXTENDS SafeWalk

CONSTANTS
    Home, Missing,
    LongestLink         \* components of a symlink's target, which the system limits

ASSUME FallbackOK ==
    /\ LongestLink \in Nat
    /\ \A l \in Links : Target[l] # Absolute => Len(Target[l]) <= LongestLink
    /\ Missing \notin Inodes \cup {None, Outside} /\ None # Outside

\* The directory above d; the home is an entry named Home of a directory of
\* which nothing else is known.
Above(d) ==
    LET Holders == {c \in Dirs : \E n \in Names : entry[c][n] = d} IN
    IF d \in Dirs \ {Root} /\ Holders # {} THEN CHOOSE c \in Holders : TRUE ELSE Outside

At(d, n) ==
    IF d = Outside THEN IF n = Home THEN Root ELSE Missing ELSE entry[d][n]

\* A path half resolved: the place it has led to so far, None when an absolute
\* link or too many links stop it there.
Stopped(s) == s.rest = <<>> \/ s.at \notin Dirs \cup {Outside}

\* The next component, or the target of a link in its place.
Advance(s) ==
    LET x == IF Head(s.rest) = Up THEN Above(s.at) ELSE At(s.at, Head(s.rest)) IN
    CASE Stopped(s) -> s
      [] ~Stopped(s) /\ x \in Links ->
            IF Target[x] = Absolute \/ s.used + 1 > MaxHops
            THEN [s EXCEPT !.at = None]
            ELSE [s EXCEPT !.rest = Target[x] \o Tail(s.rest), !.used = s.used + 1]
      [] ~Stopped(s) /\ \/ x \in Dirs \cup {Outside}
                        \/ x \in Files /\ Len(s.rest) = 1 ->
            [s EXCEPT !.at = x, !.rest = Tail(s.rest)]
      [] OTHER -> [s EXCEPT !.at = Missing]

\* No path takes more steps: each uses up a component, of the path itself or of
\* the target of a link.
Longest(path) == Len(path) + MaxHops * LongestLink

Start(path) == [at |-> Root, rest |-> path, used |-> 0]

\* The path after each step of Path.resolve()
Way(path) ==
    LET go[k \in 0..Longest(path)] == IF k = 0 THEN Start(path) ELSE Advance(go[k - 1])
    IN go

Resolve(path) == Way(path)[Longest(path)].at

Fallback(k, path) ==
    LET x == Resolve(path) IN
    CASE k = "list" -> IF x \in Dirs THEN x ELSE None
      [] k = "read" -> IF x \in Files THEN x ELSE None

Answered == pc = "done" /\ quiet /\ asked.kind \in {"read", "list"}

\* In a tree nobody touches meanwhile, what the anchored walk hands out is what
\* the portable backend hands out for the same path.
WalkWithinFallback ==
    Answered /\ result # None => result = Fallback(asked.kind, asked.path)

\* In a tree nobody touches meanwhile, the two backends answer alike
\* (safepath.py: "identical contract on both backends").  Not kept: the walk
\* refuses to list a symlink to a directory.
BackendsAgree ==
    Answered => result = Fallback(asked.kind, asked.path)
============================================================================
