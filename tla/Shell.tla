------------------------------- MODULE Shell -------------------------------
(***************************************************************************)
(* The page of app/assets.py and what a browser makes of it.  A request    *)
(* for the shell runs in a thread: it reads index.html, takes the          *)
(* fingerprint of that and of every asset, answers from the cache when they *)
(* are those it is kept under, and hashes the assets otherwise.  Requests   *)
(* overlap, and files are edited, touched, removed and rolled back between  *)
(* any two of these steps.  The browser then fetches each asset, unless it  *)
(* has one under the same URL: main.py lets it keep those for a day, and    *)
(* never the shell.  An edit replaces a file at once.                       *)
(***************************************************************************)
EXTENDS Naturals

CONSTANTS
    Index, Assets,   \* index.html, and the files it names
    Requests,        \* threads that render the shell
    Contents,        \* the bytes a file may have; equal bytes, equal hash
    Missing,         \* instead of bytes, where there is no file: hash "dev"
    None,
    MaxEdits         \* bound: edits of a run

ASSUME ShellConstantsOK ==
    /\ Index \notin Assets /\ MaxEdits \in Nat
    /\ Contents # {} /\ Missing \notin Contents
    /\ None \notin Requests \cup (0..MaxEdits) \cup [{Index} \cup Assets -> 0..MaxEdits]

Files == {Index} \cup Assets
Versions == 0..MaxEdits      \* of a file, counted for the model only

\* What a file is at one version: its bytes, and its (mtime, size), where Gone is
\* (-1, -1).  An mtime not had before is numbered after its version.
Gone == MaxEdits + 1
State == {s \in [bytes : Contents \cup {Missing}, stamp : Versions \cup {Gone}] :
             s.bytes = Missing <=> s.stamp = Gone}

VARIABLES
    held,      \* file -> version -> what it was, up to the version it has now
    ver,       \* file -> the version it has now
    key,       \* _cached_key: file -> the version whose fingerprint it is
    html,      \* _cached_html: the version of index.html, and of each hash
    keyBy,     \* the request that stored the key
    req,       \* request -> where it is
    browser,   \* asset -> hash in the URL -> the version kept under it
    edits

vars == <<held, ver, key, html, keyBy, req, browser, edits>>

\* A page is the index.html it was made of and the hash of each asset.
Page == [Files -> Versions]
NoPage == [f \in Files |-> 0]

\* since: the versions when it began.  stats and page fill up file by file.
\* excused: files the cached page it was answered may be behind with.
Request == [pc : {"idle", "read", "stat", "compare", "hit", "hash", "key", "html", "load", "done"},
            since : Page, todo : SUBSET Files, stats : Page, page : Page,
            used : Page, excused : SUBSET Files]

Blank == [pc |-> "idle", since |-> NoPage, todo |-> {}, stats |-> NoPage, page |-> NoPage,
          used |-> NoPage, excused |-> {}]

\* whole: no other request stored its key since this one stored its own.
\* torn: index.html was edited between its being read and its fingerprint.
Cached == [page : Page, whole : BOOLEAN, torn : BOOLEAN]

Bytes(f, v) == held[f][v].bytes
Stamp(f, v) == held[f][v].stamp

Init ==
    /\ \E c \in Contents :
          held = [f \in Files |-> [v \in Versions |-> [bytes |-> c, stamp |-> 0]]]
    /\ ver = NoPage
    /\ key = None
    /\ html = [page |-> NoPage, whole |-> FALSE, torn |-> FALSE]
    /\ keyBy = None
    /\ req = [r \in Requests |-> Blank]
    /\ browser = [a \in Assets |-> [h \in Contents \cup {Missing} |-> None]]
    /\ edits = 0

At(r, pc) == req[r].pc = pc
Becomes(r, q) == req' = [req EXCEPT ![r] = q]

---------------------------------------------------------------------------
(* render.                                                                  *)

Begin(r) ==
    /\ At(r, "idle")
    /\ Becomes(r, [Blank EXCEPT !.pc = "read", !.since = ver])
    /\ UNCHANGED <<held, ver, key, html, keyBy, browser, edits>>

\* Without an index.html the request fails (500).
ReadIndex(r) ==
    /\ At(r, "read")
    /\ Becomes(r, IF Bytes(Index, ver[Index]) = Missing THEN Blank
                  ELSE [req[r] EXCEPT !.pc = "stat", !.page[Index] = ver[Index],
                                      !.todo = Files])
    /\ UNCHANGED <<held, ver, key, html, keyBy, browser, edits>>

\* The index first, then the assets in order; which comes first of those makes
\* no difference.
Ready(r, f) == f \in req[r].todo /\ (f # Index => Index \notin req[r].todo)

\* _fingerprint
Stat(r) ==
    /\ At(r, "stat")
    /\ \E f \in Files :
          /\ Ready(r, f)
          /\ Becomes(r, [req[r] EXCEPT !.stats[f] = ver[f], !.todo = @ \ {f},
                                       !.pc = IF req[r].todo = {f} THEN "compare" ELSE "stat"])
    /\ UNCHANGED <<held, ver, key, html, keyBy, browser, edits>>

\* The fingerprints that r has taken of these files are those of the key.
Same(r, files) ==
    key # None /\ \A f \in files : Stamp(f, req[r].stats[f]) = Stamp(f, key[f])

\* Mutant: the cache is not told the fingerprints of the assets.
Compare_IndexOnly(r) ==
    /\ At(r, "compare")
    /\ Becomes(r, [req[r] EXCEPT !.pc = IF Same(r, {Index}) THEN "hit" ELSE "hash",
                                 !.todo = Assets])
    /\ UNCHANGED <<held, ver, key, html, keyBy, browser, edits>>

Compare(r) ==
    /\ At(r, "compare")
    /\ Becomes(r, [req[r] EXCEPT !.pc = IF Same(r, Files) THEN "hit" ELSE "hash",
                                 !.todo = Assets])
    /\ UNCHANGED <<held, ver, key, html, keyBy, browser, edits>>

\* The cached page is read after its key was compared.  What a render took down
\* is gone when it returns.
Hit(r) ==
    /\ At(r, "hit")
    /\ Becomes(r, [req[r] EXCEPT !.pc = "load", !.page = html.page, !.stats = NoPage,
                                 !.todo = Assets,
                                 !.excused = IF ~html.whole THEN Files
                                             ELSE IF html.torn THEN @ \cup {Index}
                                             ELSE @])
    /\ UNCHANGED <<held, ver, key, html, keyBy, browser, edits>>

Hash(r) ==
    /\ At(r, "hash")
    /\ \E a \in req[r].todo :
          Becomes(r, [req[r] EXCEPT !.page[a] = ver[a], !.todo = @ \ {a},
                                    !.pc = IF req[r].todo = {a} THEN "key" ELSE "hash"])
    /\ UNCHANGED <<held, ver, key, html, keyBy, browser, edits>>

StoreKey(r) ==
    /\ At(r, "key")
    /\ key' = req[r].stats /\ keyBy' = r
    /\ html' = [html EXCEPT !.whole = FALSE]
    /\ req' = [q \in Requests |-> IF q = r THEN [req[q] EXCEPT !.pc = "html"]
                                 ELSE IF At(q, "hit") THEN [req[q] EXCEPT !.excused = Files]
                                 ELSE req[q]]
    /\ UNCHANGED <<held, ver, browser, edits>>

StoreHtml(r) ==
    /\ At(r, "html")
    /\ html' = [page |-> req[r].page, whole |-> keyBy = r,
                torn |-> req[r].page[Index] # req[r].stats[Index]]
    /\ Becomes(r, [req[r] EXCEPT !.pc = "load", !.stats = NoPage, !.todo = Assets])
    /\ UNCHANGED <<held, ver, key, keyBy, browser, edits>>

---------------------------------------------------------------------------
(* The browser and the editor.                                              *)

\* The hash in the URL of a, and the version kept under it
Url(r, a) == Bytes(a, req[r].page[a])
Kept(r, a) == browser[a][Url(r, a)]

\* What is kept under the URL, or what the file holds now: ?v= selects nothing,
\* and a 404 is kept like any other answer.
Fetched(r, a) == IF Kept(r, a) = None THEN ver[a] ELSE Kept(r, a)

\* Version v of f has bytes that f had before, and lost.
CameBack(f, v) ==
    \E x, y \in 0..v : x < y /\ Bytes(f, x) = Bytes(f, v) /\ Bytes(f, y) # Bytes(f, v)

\* The bytes in the page's URL came back, and others are kept under it: they
\* were fetched between a page and an edit, for the page of the first time.
Misfiled(r, a) ==
    /\ Kept(r, a) # None /\ Bytes(a, Kept(r, a)) # Url(r, a)
    /\ CameBack(a, req[r].page[a])

Load(r) ==
    /\ At(r, "load")
    /\ \E a \in req[r].todo :
          /\ browser' = [browser EXCEPT ![a][Url(r, a)] = Fetched(r, a)]
          /\ Becomes(r, [req[r] EXCEPT !.used[a] = Fetched(r, a), !.todo = @ \ {a},
                                       !.used[Index] = req[r].page[Index],
                                       !.excused = IF Misfiled(r, a) THEN @ \cup {a} ELSE @,
                                       !.pc = IF req[r].todo = {a} THEN "done" ELSE "load"])
    /\ UNCHANGED <<held, ver, key, html, keyBy, edits>>

Leave(r) ==
    /\ At(r, "done")
    /\ Becomes(r, Blank)
    /\ UNCHANGED <<held, ver, key, html, keyBy, browser, edits>>

\* A day is over, or the browser needs the room.
Forget ==
    /\ \E a \in Assets, h \in Contents \cup {Missing} :
          /\ browser[a][h] # None
          /\ browser' = [browser EXCEPT ![a][h] = None]
    /\ UNCHANGED <<held, ver, key, html, keyBy, req, edits>>

\* What f can be next: gone, or any bytes with an mtime and size of its own or
\* those of an earlier version (a restored copy, a coarse clock, os.utime).
Nexts(f) ==
    LET had == {Stamp(f, v) : v \in 0..ver[f]} IN
    {s \in State : s # held[f][ver[f]] /\ s.stamp \in had \cup {ver[f] + 1, Gone}}

Edit ==
    /\ edits < MaxEdits /\ edits' = edits + 1
    /\ \E f \in Files : \E s \in Nexts(f) :
          /\ held' = [held EXCEPT ![f][ver[f] + 1] = s]
          /\ ver' = [ver EXCEPT ![f] = @ + 1]
    /\ UNCHANGED <<key, html, keyBy, req, browser>>

Render(r) ==
    \/ Begin(r) \/ ReadIndex(r) \/ Stat(r) \/ Compare(r) \/ Hit(r)
    \/ Hash(r) \/ StoreKey(r) \/ StoreHtml(r) \/ Load(r) \/ Leave(r)

Next == Edit \/ Forget \/ \E r \in Requests : Render(r)

Spec == Init /\ [][Next]_vars

---------------------------------------------------------------------------
(* Properties.                                                              *)

TypeOK ==
    /\ held \in [Files -> [Versions -> State]]
    /\ ver \in Page /\ key \in Page \cup {None} /\ html \in Cached
    /\ keyBy \in Requests \cup {None} /\ req \in [Requests -> Request]
    /\ browser \in [Assets -> [Contents \cup {Missing} -> Versions \cup {None}]]
    /\ edits \in 0..MaxEdits

\* Two versions of f have one (mtime, size), or f was missing twice.
Blurred(f) == \E u, v \in 0..ver[f] : u # v /\ Stamp(f, u) = Stamp(f, v)

\* What a browser loads a file had at some time since it asked for the shell,
\* however requests and edits overlap and whatever it has kept ("Editing an
\* asset changes its URL automatically; nothing has to be remembered").
\* Not kept, of four causes:
\*  - two renders store at once: the page of one stays under the key of the
\*    other, and a request may even get the empty page the cache begins with;
\*  - index.html is edited between its being read and its fingerprint, and the
\*    old one is kept under the new key (with the first, `excused`);
\*  - an edit keeps mtime and size, or brings back earlier ones: the page made
\*    before it, or between, is taken for current (Blurred);
\*  - an edit is rolled back: the browser may hold what it fetched meanwhile
\*    under the URL that is valid again, for its day (Misfiled, `excused`).
LoadsAreCurrent ==
    \A r \in Requests :
        At(r, "done") =>
            \A f \in Files \ req[r].excused :
                \/ Blurred(f)
                \/ \E v \in req[r].since[f]..ver[f] :
                      Bytes(f, req[r].used[f]) = Bytes(f, v)
============================================================================
