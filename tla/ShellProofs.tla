---------------------------- MODULE ShellProofs ----------------------------
(***************************************************************************)
(* What a browser loads is current, for any number of files, requests and  *)
(* edits.                                                                  *)
(***************************************************************************)
EXTENDS Shell, TLAPS

\* Every edit counts once, for one file, and the key is of versions there were.
VerInv ==
    /\ \A f \in Files : ver[f] <= edits
    /\ key \in Page => \A f \in Files : key[f] <= ver[f]

\* A page that is whole is at least as new as the key it is kept under.
HtmlInv ==
    /\ \A f \in Files : html.page[f] <= ver[f]
    /\ html.whole => /\ key \in Page
                     /\ \A a \in Assets : html.page[a] >= key[a]
                     /\ html.torn \/ html.page[Index] = key[Index]

\* What is kept under a URL was fetched when the file had the bytes in it, or later.
BrowserInv ==
    \A a \in Assets, h \in Contents \cup {Missing} :
        browser[a][h] # None =>
            /\ browser[a][h] <= ver[a]
            /\ \E x \in 0..browser[a][h] : Bytes(a, x) = h

\* What was loaded for f is what f had at some time since the request began.
Current(q, f) ==
    Blurred(f) \/ \E v \in q.since[f]..ver[f] : Bytes(f, q.used[f]) = Bytes(f, v)

\* What a request has read is no older than its beginning.
RenderInv(r) ==
    LET q == req[r] IN
    /\ \A f \in Files : /\ q.since[f] <= ver[f]
                        /\ q.page[f] <= ver[f]
                        /\ q.stats[f] <= ver[f]
                        /\ q.used[f] <= ver[f]
    /\ q.pc \in {"hash", "load"} => q.todo \subseteq Assets
    /\ q.pc \in {"stat", "compare", "hash", "key", "html"}
          => q.page[Index] >= q.since[Index]
    /\ q.pc = "stat" => \A f \in Files \ q.todo : q.stats[f] >= q.since[f]
    /\ q.pc = "compare" => \A f \in Files : q.stats[f] >= q.since[f]
    /\ q.pc = "hash" => \A a \in Assets \ q.todo : /\ q.page[a] >= q.since[a]
                                                   /\ q.page[a] >= q.stats[a]
    /\ q.pc \in {"key", "html"} => \A a \in Assets : /\ q.page[a] >= q.since[a]
                                                    /\ q.page[a] >= q.stats[a]
    /\ q.pc = "load" =>
          /\ \A f \in Files \ q.excused : Blurred(f) \/ q.page[f] >= q.since[f]
          /\ \A a \in Assets \ q.todo : a \notin q.excused => Current(q, a)
    /\ q.pc = "done" => \A f \in Files \ q.excused : Current(q, f)

\* The key a request compared with, or stored, is still the one it knows.
KeyInv(r) ==
    /\ At(r, "hit") => \/ req[r].excused = Files
                       \/ /\ key \in Page
                          /\ \A f \in Files : Blurred(f) \/ key[f] >= req[r].since[f]
    /\ At(r, "html") /\ keyBy = r => key = req[r].stats

IInv ==
    /\ TypeOK /\ VerInv /\ HtmlInv /\ BrowserInv
    /\ \A r \in Requests : RenderInv(r) /\ KeyInv(r)

LEMMA PagesAreNumbers == Page \subseteq [Files -> Nat]
BY ShellConstantsOK DEF ShellConstantsOK, Page, Versions

LEMMA InitIInv == Init => IInv
<1> USE ShellConstantsOK DEF ShellConstantsOK
<1> SUFFICES ASSUME Init PROVE IInv
  OBVIOUS
<1>1. NoPage \in Page
  BY DEF NoPage, Page, Versions
<1>2. TypeOK
  BY <1>1 DEF Init, TypeOK, Cached, Request, Blank, Versions, State, Gone
<1>3. VerInv /\ HtmlInv /\ BrowserInv
  <2>1. key \notin Page
    BY DEF Init, Page, Files, Versions
  <2> QED
    BY <2>1 DEF Init, VerInv, HtmlInv, BrowserInv, NoPage
<1>4. \A r \in Requests : RenderInv(r) /\ KeyInv(r)
  BY DEF Init, RenderInv, KeyInv, At, Blank, NoPage, Files
<1> QED
  BY <1>2, <1>3, <1>4 DEF IInv

\* A step of r that touches only its own request, and nothing another one reads,
\* leaves the others' parts of the invariant alone.
LEMMA OthersKeep ==
    ASSUME IInv, NEW r \in Requests, NEW q, Becomes(r, q), ver' = ver,
           held' = held, key' = key, keyBy' = keyBy
    PROVE  \A s \in Requests \ {r} : RenderInv(s)' /\ KeyInv(s)'
<1>1. \A s \in Requests \ {r} : req'[s] = req[s]
  BY DEF Becomes, IInv, TypeOK
<1>2. \A s \in Requests \ {r} : RenderInv(s)'
  BY <1>1 DEF IInv, RenderInv, Current, Blurred, Bytes, Stamp
<1>3. \A s \in Requests \ {r} : KeyInv(s)'
  BY <1>1 DEF IInv, KeyInv, At, Blurred, Stamp
<1> QED
  BY <1>2, <1>3

\* Types, one action at a time
LEMMA TypeStep == IInv /\ [Next]_vars => TypeOK'
<1> USE ShellConstantsOK DEF ShellConstantsOK
<1> SUFFICES ASSUME IInv, [Next]_vars PROVE TypeOK'
  OBVIOUS
<1>1. TypeOK /\ VerInv
  BY DEF IInv
<1>2. CASE UNCHANGED vars
  BY <1>1, <1>2 DEF TypeOK, vars
<1>3. CASE Edit
  <2>1. PICK f \in Files, s \in State : /\ ver' = [ver EXCEPT ![f] = @ + 1]
                                       /\ held' = [held EXCEPT ![f][ver[f] + 1] = s]
    BY <1>3 DEF Edit, Nexts
  <2>2. ver[f] + 1 \in Versions
    BY <1>1, <1>3 DEF TypeOK, VerInv, Edit, Page, Versions
  <2>3. ver' \in Page
    BY <1>1, <2>1, <2>2 DEF TypeOK, Page
  <2>4. held' \in [Files -> [Versions -> State]]
    BY <1>1, <2>1, <2>2 DEF TypeOK
  <2>5. /\ edits' \in 0..MaxEdits
        /\ UNCHANGED <<key, html, keyBy, req, browser>>
    BY <1>1, <1>3 DEF TypeOK, Edit
  <2> QED
    BY <1>1, <2>3, <2>4, <2>5 DEF TypeOK
<1>5. CASE Forget
  <2>1. PICK a \in Assets, h \in Contents \cup {Missing} :
           browser' = [browser EXCEPT ![a][h] = None]
    BY <1>5 DEF Forget
  <2>2. browser' \in [Assets -> [Contents \cup {Missing} -> Versions \cup {None}]]
    BY <1>1, <2>1 DEF TypeOK
  <2> QED
    BY <1>1, <1>5, <2>2 DEF TypeOK, Forget
<1>4. ASSUME NEW r \in Requests, Render(r) PROVE TypeOK'
  <2>1. req[r] \in Request /\ ver \in Page
    BY <1>1 DEF TypeOK
  <2>2. Blank \in Request
    BY DEF Blank, Request, NoPage, Page, Versions
  <2>3. \A q \in Request : Becomes(r, q) => req' \in [Requests -> Request]
    BY <1>1 DEF TypeOK, Becomes
  <2>4. CASE Begin(r)
    BY <1>1, <2>1, <2>2, <2>3, <2>4 DEF TypeOK, Begin, Request
  <2>5. CASE ReadIndex(r)
    <3>1. [req[r] EXCEPT !.pc = "stat", !.page[Index] = ver[Index], !.todo = Files] \in Request
      BY <2>1 DEF Request, Page, Files
    <3> QED
      BY <1>1, <2>2, <2>3, <2>5, <3>1 DEF TypeOK, ReadIndex
  <2>6. CASE Stat(r)
    <3>1. PICK f \in Files :
             Becomes(r, [req[r] EXCEPT !.stats[f] = ver[f], !.todo = @ \ {f},
                                       !.pc = IF req[r].todo = {f} THEN "compare" ELSE "stat"])
      BY <2>6 DEF Stat
    <3>2. [req[r] EXCEPT !.stats[f] = ver[f], !.todo = @ \ {f},
                         !.pc = IF req[r].todo = {f} THEN "compare" ELSE "stat"] \in Request
      BY <2>1 DEF Request, Page
    <3> QED
      BY <1>1, <2>3, <2>6, <3>1, <3>2 DEF TypeOK, Stat
  <2>7. CASE Compare(r)
    <3>1. [req[r] EXCEPT !.pc = IF Same(r, Files) THEN "hit" ELSE "hash",
                         !.todo = Assets] \in Request
      BY <2>1 DEF Request, Files
    <3> QED
      BY <1>1, <2>3, <2>7, <3>1 DEF TypeOK, Compare
  <2>8. CASE Hit(r)
    <3>1. html.page \in Page /\ NoPage \in Page
      BY <1>1 DEF TypeOK, Cached, NoPage, Page, Versions
    <3>2. [req[r] EXCEPT !.pc = "load", !.page = html.page, !.stats = NoPage, !.todo = Assets,
                         !.excused = IF ~html.whole THEN Files
                                     ELSE IF html.torn THEN @ \cup {Index} ELSE @] \in Request
      BY <2>1, <3>1 DEF Request, Files
    <3> QED
      BY <1>1, <2>3, <2>8, <3>2 DEF TypeOK, Hit
  <2>9. CASE Hash(r)
    <3>1. PICK a \in req[r].todo :
             Becomes(r, [req[r] EXCEPT !.page[a] = ver[a], !.todo = @ \ {a},
                                       !.pc = IF req[r].todo = {a} THEN "key" ELSE "hash"])
      BY <2>9 DEF Hash
    <3>2. [req[r] EXCEPT !.page[a] = ver[a], !.todo = @ \ {a},
                         !.pc = IF req[r].todo = {a} THEN "key" ELSE "hash"] \in Request
      BY <2>1 DEF Request, Page
    <3> QED
      BY <1>1, <2>3, <2>9, <3>1, <3>2 DEF TypeOK, Hash
  <2>10. CASE StoreKey(r)
    <3>1. req[r].stats \in Page /\ [html EXCEPT !.whole = FALSE] \in Cached
      BY <1>1, <2>1 DEF TypeOK, Request, Cached
    <3>2. \A q \in Requests : /\ [req[q] EXCEPT !.pc = "html"] \in Request
                              /\ [req[q] EXCEPT !.excused = Files] \in Request
                              /\ req[q] \in Request
      BY <1>1 DEF TypeOK, Request
    <3>3. req' \in [Requests -> Request]
      BY <2>10, <3>2 DEF StoreKey
    <3> QED
      BY <1>1, <2>10, <3>1, <3>3 DEF TypeOK, StoreKey
  <2>11. CASE StoreHtml(r)
    <3>1. [req[r] EXCEPT !.pc = "load", !.stats = NoPage, !.todo = Assets] \in Request
      BY <2>1, <2>2 DEF Request, Files, Blank
    <3>2. html' \in Cached
      BY <2>1, <2>11 DEF StoreHtml, Cached, Request
    <3> QED
      BY <1>1, <2>3, <2>11, <3>1, <3>2 DEF TypeOK, StoreHtml
  <2>12. CASE Load(r)
    <3>1. PICK a \in req[r].todo :
             /\ browser' = [browser EXCEPT ![a][Url(r, a)] = Fetched(r, a)]
             /\ Becomes(r, [req[r] EXCEPT !.used[a] = Fetched(r, a), !.todo = @ \ {a},
                                          !.used[Index] = req[r].page[Index],
                                          !.excused = IF Misfiled(r, a) THEN @ \cup {a} ELSE @,
                                          !.pc = IF req[r].todo = {a} THEN "done" ELSE "load"])
      BY <2>12 DEF Load
    <3>2. a \in Assets
      BY <2>12 DEF IInv, RenderInv, Load, At
    <3>3. Url(r, a) \in Contents \cup {Missing} /\ Fetched(r, a) \in Versions
      <4>1. Url(r, a) \in Contents \cup {Missing}
        BY SMTT(40), <1>1, <2>1, <3>2 DEF TypeOK, Url, Bytes, State, Request, Page, Files
      <4> QED
        BY <1>1, <2>1, <3>2, <4>1 DEF TypeOK, Fetched, Kept, Request, Page, Files
    <3>4. [req[r] EXCEPT !.used[a] = Fetched(r, a), !.todo = @ \ {a},
                         !.used[Index] = req[r].page[Index],
                         !.excused = IF Misfiled(r, a) THEN @ \cup {a} ELSE @,
                         !.pc = IF req[r].todo = {a} THEN "done" ELSE "load"] \in Request
      BY <2>1, <3>2, <3>3 DEF Request, Page, Files
    <3>5. browser' \in [Assets -> [Contents \cup {Missing} -> Versions \cup {None}]]
      BY <1>1, <3>1, <3>3 DEF TypeOK
    <3> QED
      BY <1>1, <2>3, <2>12, <3>1, <3>4, <3>5 DEF TypeOK, Load
  <2>13. CASE Leave(r)
    BY <1>1, <2>2, <2>3, <2>13 DEF TypeOK, Leave
  <2> QED
    BY <1>4, <2>4, <2>5, <2>6, <2>7, <2>8, <2>9, <2>10, <2>11, <2>12, <2>13 DEF Render
<1> QED
  BY <1>2, <1>3, <1>4, <1>5 DEF Next

\* What a step of r does to r itself and to what is shared; the rest is OthersKeep
LEMMA RenderStep ==
    ASSUME IInv, TypeOK', NEW r \in Requests, Render(r)
    PROVE  /\ VerInv' /\ HtmlInv' /\ BrowserInv'
           /\ \A s \in Requests : RenderInv(s)' /\ KeyInv(s)'
<1> USE ShellConstantsOK DEF ShellConstantsOK
<1>1. /\ TypeOK /\ VerInv /\ HtmlInv /\ BrowserInv
      /\ RenderInv(r) /\ KeyInv(r) /\ req[r] \in Request
      /\ req \in [Requests -> Request]
  BY DEF IInv, TypeOK
<1>2. /\ ver \in [Files -> Nat] /\ req[r].since \in [Files -> Nat]
      /\ req[r].page \in [Files -> Nat] /\ req[r].stats \in [Files -> Nat]
      /\ req[r].used \in [Files -> Nat] /\ req[r].todo \subseteq Files
  <2>1. /\ ver \in Page /\ req[r].since \in Page /\ req[r].page \in Page
        /\ req[r].stats \in Page /\ req[r].used \in Page /\ req[r].todo \subseteq Files
    BY <1>1 DEF TypeOK, Request
  <2> QED
    BY <2>1, PagesAreNumbers
<1>3. CASE Begin(r)
  <2>1. VerInv' /\ HtmlInv' /\ BrowserInv'
    BY <1>1, <1>3 DEF Begin, VerInv, HtmlInv, BrowserInv, Bytes
  <2>2. RenderInv(r)' /\ KeyInv(r)'
    BY <1>1, <1>2, <1>3 DEF Begin, Becomes, Blank, NoPage, RenderInv, KeyInv, At
  <2> QED
    BY <1>3, <2>1, <2>2, OthersKeep DEF Begin
<1>4. CASE ReadIndex(r)
  <2>1. VerInv' /\ HtmlInv' /\ BrowserInv'
    BY <1>1, <1>4 DEF ReadIndex, VerInv, HtmlInv, BrowserInv, Bytes
  <2>2. ASSUME Becomes(r, Blank) PROVE RenderInv(r)' /\ KeyInv(r)'
    <3>1. req'[r] = Blank /\ ver' = ver /\ \A f \in Files : NoPage[f] <= ver[f]
      BY <1>1, <1>2, <1>4, <2>2 DEF ReadIndex, Becomes, NoPage
    <3>2. /\ Blank.pc = "idle" /\ Blank.since = NoPage /\ Blank.stats = NoPage
          /\ Blank.page = NoPage /\ Blank.used = NoPage
      BY DEF Blank
    <3> QED
      BY <3>1, <3>2 DEF RenderInv, KeyInv, At
  <2>3. ASSUME Becomes(r, [req[r] EXCEPT !.pc = "stat", !.page[Index] = ver[Index],
                                         !.todo = Files])
        PROVE  RenderInv(r)' /\ KeyInv(r)'
    <3>1. /\ req'[r].pc = "stat" /\ req'[r].since = req[r].since
          /\ req'[r].stats = req[r].stats /\ req'[r].used = req[r].used
          /\ req'[r].page = [req[r].page EXCEPT ![Index] = ver[Index]]
          /\ req'[r].todo = Files
      BY <1>1, <2>3 DEF Becomes, Request
    <3>2. ver' = ver
      BY <1>4 DEF ReadIndex
    <3>3. /\ req'[r].page[Index] = ver[Index] /\ req[r].since[Index] <= ver[Index]
          /\ \A f \in Files : req'[r].page[f] <= ver[f]
      BY <1>1, <1>2, <3>1 DEF RenderInv, Files
    <3>4. ver[Index] \in Nat /\ req[r].since[Index] \in Nat
      BY <1>2 DEF Files
    <3>5. KeyInv(r)'
      BY <3>1 DEF KeyInv, At
    <3>6. RenderInv(r)'
      BY <1>1, <3>1, <3>2, <3>3, <3>4 DEF RenderInv
    <3> QED
      BY <3>5, <3>6
  <2> QED
    BY <1>4, <2>1, <2>2, <2>3, OthersKeep DEF ReadIndex
<1>5. CASE Stat(r)
  <2>1. VerInv' /\ HtmlInv' /\ BrowserInv'
    BY <1>1, <1>5 DEF Stat, VerInv, HtmlInv, BrowserInv, Bytes
  <2>2. PICK f \in Files :
           Becomes(r, [req[r] EXCEPT !.stats[f] = ver[f], !.todo = @ \ {f},
                                     !.pc = IF req[r].todo = {f} THEN "compare" ELSE "stat"])
    BY <1>5 DEF Stat
  <2>3. RenderInv(r)' /\ KeyInv(r)'
    BY <1>1, <1>2, <1>5, <2>2 DEF Stat, Becomes, RenderInv, KeyInv, At
  <2> QED
    BY <1>5, <2>1, <2>2, <2>3, OthersKeep DEF Stat
<1>6. CASE Compare(r)
  <2>1. VerInv' /\ HtmlInv' /\ BrowserInv'
    BY <1>1, <1>6 DEF Compare, VerInv, HtmlInv, BrowserInv, Bytes
  <2>2. RenderInv(r)'
    BY <1>1, <1>2, <1>6 DEF Compare, Becomes, RenderInv, At, Files
  <2>3. KeyInv(r)'
    <3>1. /\ req'[r].since = req[r].since /\ req'[r].stats = req[r].stats
          /\ req'[r].pc = IF Same(r, Files) THEN "hit" ELSE "hash"
      BY <1>1, <1>6 DEF Compare, Becomes, Request
    <3>2. ASSUME Same(r, Files), NEW f \in Files, ~Blurred(f)
          PROVE  key \in Page /\ key[f] >= req[r].since[f]
      <4>1. key \in Page /\ Stamp(f, req[r].stats[f]) = Stamp(f, key[f])
        BY <1>1, <3>2 DEF Same, TypeOK
      <4>2. req[r].stats[f] \in 0..ver[f] /\ key[f] \in 0..ver[f]
        BY <1>1, <1>2, <4>1 DEF RenderInv, VerInv, Page, Versions
      <4>3. req[r].stats[f] = key[f]
        BY <3>2, <4>1, <4>2 DEF Blurred
      <4> QED
        BY <1>1, <1>6, <4>1, <4>3 DEF Compare, RenderInv, At
    <3>3. Same(r, Files) => key \in Page
      BY <1>1 DEF Same, TypeOK
    <3>4. UNCHANGED <<key, keyBy, held, ver>>
      BY <1>6 DEF Compare
    <3>5. \A f \in Files : Blurred(f)' = Blurred(f)
      BY <3>4 DEF Blurred, Stamp
    <3> QED
      BY <3>1, <3>2, <3>3, <3>4, <3>5 DEF KeyInv, At
  <2> QED
    BY <1>6, <2>1, <2>2, <2>3, OthersKeep DEF Compare
<1>7. CASE Hit(r)
  <2>1. VerInv' /\ HtmlInv' /\ BrowserInv'
    BY <1>1, <1>7 DEF Hit, VerInv, HtmlInv, BrowserInv, Bytes
  <2>2. RenderInv(r)'
    <3>1. html.page \in [Files -> Nat] /\ html.whole \in BOOLEAN /\ html.torn \in BOOLEAN
      BY <1>1, PagesAreNumbers DEF TypeOK, Cached
    <3>2. ASSUME html.whole, req[r].excused # Files,
                 NEW f \in Files, f \notin req[r].excused, ~html.torn \/ f # Index,
                 ~Blurred(f)
          PROVE  html.page[f] >= req[r].since[f]
      <4>1. key \in [Files -> Nat] /\ key[f] >= req[r].since[f]
        <5>1. key \in Page /\ key[f] >= req[r].since[f]
          BY <1>1, <1>7, <3>2 DEF Hit, KeyInv
        <5> QED
          BY <5>1, PagesAreNumbers
      <4>2. html.page[f] >= key[f]
        BY <1>1, <3>1, <3>2, <4>1 DEF HtmlInv, Files
      <4> QED
        BY <1>2, <3>1, <4>1, <4>2
    <3>3. /\ req'[r].page = html.page /\ req'[r].todo = Assets /\ req'[r].pc = "load"
          /\ req'[r].since = req[r].since /\ req'[r].stats = NoPage
          /\ req'[r].used = req[r].used
          /\ req'[r].excused = IF ~html.whole THEN Files
                               ELSE IF html.torn THEN req[r].excused \cup {Index}
                               ELSE req[r].excused
      BY <1>1, <1>7 DEF Hit, Becomes, Request
    <3>4. ASSUME NEW f \in Files, f \notin req'[r].excused, ~Blurred(f)
          PROVE  req'[r].page[f] >= req'[r].since[f]
      <4>1. html.whole
        BY <3>3, <3>4
      <4>2. f \notin req[r].excused /\ req[r].excused # Files
        BY <3>3, <3>4, <4>1
      <4>3. ~html.torn \/ f # Index
        BY <3>3, <3>4, <4>1
      <4> QED
        BY <3>2, <3>3, <3>4, <4>1, <4>2, <4>3
    <3>5. /\ held' = held /\ ver' = ver
          /\ \A f \in Files : /\ Blurred(f)' = Blurred(f)
                              /\ html.page[f] <= ver[f] /\ NoPage[f] <= ver[f]
      BY <1>1, <1>2, <1>7 DEF Hit, Blurred, Stamp, HtmlInv, NoPage
    <3> QED
      BY <1>1, <3>3, <3>4, <3>5 DEF RenderInv
  <2>3. KeyInv(r)'
    BY <1>1, <1>7 DEF Hit, Becomes, KeyInv, At
  <2> QED
    BY <1>7, <2>1, <2>2, <2>3, OthersKeep DEF Hit
<1>8. CASE Hash(r)
  <2>1. VerInv' /\ HtmlInv' /\ BrowserInv'
    BY <1>1, <1>8 DEF Hash, VerInv, HtmlInv, BrowserInv, Bytes
  <2>2. PICK a \in req[r].todo :
           Becomes(r, [req[r] EXCEPT !.page[a] = ver[a], !.todo = @ \ {a},
                                     !.pc = IF req[r].todo = {a} THEN "key" ELSE "hash"])
    BY <1>8 DEF Hash
  <2>3. a \in Assets /\ req[r].pc = "hash"
    BY <1>1, <1>8 DEF Hash, RenderInv, At
  <2>4. RenderInv(r)' /\ KeyInv(r)'
    BY <1>1, <1>2, <1>8, <2>2, <2>3 DEF Hash, Becomes, RenderInv, KeyInv, At, Files
  <2> QED
    BY <1>8, <2>1, <2>2, <2>4, OthersKeep DEF Hash
<1>9. CASE StoreKey(r)
  <2>1. VerInv' /\ HtmlInv' /\ BrowserInv'
    <3>1. VerInv'
      BY <1>1, <1>9 DEF StoreKey, VerInv, RenderInv
    <3>2. HtmlInv'
      BY <1>1, <1>9 DEF StoreKey, HtmlInv, TypeOK, Cached
    <3>3. BrowserInv'
      BY <1>1, <1>9 DEF StoreKey, BrowserInv, Bytes
    <3> QED
      BY <3>1, <3>2, <3>3
  <2>2. ASSUME NEW s \in Requests PROVE RenderInv(s)'
    <3>1. RenderInv(s) /\ req[s] \in Request
      BY <1>1 DEF IInv
    <3>2. /\ req'[s].since = req[s].since /\ req'[s].page = req[s].page
          /\ req'[s].stats = req[s].stats /\ req'[s].todo = req[s].todo
          /\ req'[s].used = req[s].used
          /\ \/ s = r /\ req[s].pc = "key" /\ req'[s].pc = "html"
             \/ req'[s].pc = req[s].pc /\ (req[s].pc = "hit" \/ req'[s].excused = req[s].excused)
      BY <1>9, <3>1 DEF StoreKey, At, Request
    <3>3. /\ held' = held /\ ver' = ver
          /\ \A f \in Files : Blurred(f)' = Blurred(f)
      BY <1>9 DEF StoreKey, Blurred, Stamp
    <3> QED
      <4>1. \A f \in Files : Current(req[s], f) => Current(req[s], f)'
        BY <3>2, <3>3 DEF Current, Bytes
      <4> QED
        BY <3>1, <3>2, <3>3, <4>1 DEF RenderInv, Files
  <2>3. ASSUME NEW s \in Requests PROVE KeyInv(s)'
    <3>1. CASE s = r
      BY <1>1, <1>9, <3>1 DEF StoreKey, KeyInv, At, Request
    <3>2. CASE s # r
      BY <1>1, <1>9, <3>2 DEF StoreKey, KeyInv, At, Request
    <3> QED
      BY <3>1, <3>2
  <2> QED
    BY <2>1, <2>2, <2>3
<1>10. CASE StoreHtml(r)
  <2>1. VerInv' /\ BrowserInv'
    BY <1>1, <1>10 DEF StoreHtml, VerInv, BrowserInv, Bytes
  <2>2. HtmlInv'
    BY <1>1, <1>2, <1>10 DEF StoreHtml, HtmlInv, RenderInv, KeyInv, Request, At
  <2>3. RenderInv(r)' /\ KeyInv(r)'
    <3>1. /\ req'[r].pc = "load" /\ req'[r].todo = Assets /\ req'[r].stats = NoPage
          /\ req'[r].since = req[r].since /\ req'[r].page = req[r].page
          /\ req'[r].used = req[r].used /\ req'[r].excused = req[r].excused
      BY <1>1, <1>10 DEF StoreHtml, Becomes, Request
    <3>2. ver' = ver /\ \A f \in Files : NoPage[f] <= ver[f]
      BY <1>2, <1>10 DEF StoreHtml, NoPage
    <3>3. \A f \in Files : req[r].page[f] >= req[r].since[f]
      BY <1>1, <1>10 DEF StoreHtml, RenderInv, At, Files
    <3> QED
      BY <1>1, <3>1, <3>2, <3>3 DEF RenderInv, KeyInv, At
  <2> QED
    BY <1>10, <2>1, <2>2, <2>3, OthersKeep DEF StoreHtml
<1>11. CASE Load(r)
  <2>1. PICK a \in req[r].todo :
           /\ browser' = [browser EXCEPT ![a][Url(r, a)] = Fetched(r, a)]
           /\ Becomes(r, [req[r] EXCEPT !.used[a] = Fetched(r, a), !.todo = @ \ {a},
                                        !.used[Index] = req[r].page[Index],
                                        !.excused = IF Misfiled(r, a) THEN @ \cup {a} ELSE @,
                                        !.pc = IF req[r].todo = {a} THEN "done" ELSE "load"])
    BY <1>11 DEF Load
  <2>2. /\ a \in Assets /\ a \in Files /\ a # Index /\ req[r].pc = "load"
        /\ req[r].page[a] \in Versions
    BY <1>1, <1>11 DEF Load, RenderInv, At, Files, Request, Page
  <2> DEFINE v == req[r].page[a]
             u == Fetched(r, a)
  <2>3. /\ Url(r, a) \in Contents \cup {Missing} /\ Url(r, a) = Bytes(a, v)
        /\ v \in 0..ver[a] /\ u \in 0..ver[a]
        /\ Kept(r, a) = None \/ Kept(r, a) = u
    <3>1. Url(r, a) \in Contents \cup {Missing} /\ Url(r, a) = Bytes(a, v)
      BY <1>1, <2>2 DEF TypeOK, Url, Bytes, State
    <3>2. v \in 0..ver[a]
      BY <1>1, <1>2, <2>2 DEF RenderInv
    <3>3. Kept(r, a) \in Versions \cup {None}
      BY <1>1, <2>2, <3>1 DEF TypeOK, Kept
    <3>4. Kept(r, a) # None => Kept(r, a) \in 0..ver[a]
      BY <1>1, <1>2, <2>2, <3>1, <3>3 DEF BrowserInv, Kept, Versions
    <3> QED
      BY <1>2, <2>2, <3>1, <3>2, <3>4 DEF Fetched
  <2>4. u >= v \/ \E x \in 0..u : Bytes(a, x) = Bytes(a, v)
    <3>1. CASE Kept(r, a) = None
      BY <2>3, <3>1 DEF Fetched
    <3>2. CASE Kept(r, a) # None
      <4>1. browser[a][Url(r, a)] = u
        BY <2>3, <3>2 DEF Kept
      <4>2. u # None
        BY <2>3, <3>2
      <4> QED
        BY <1>1, <2>2, <2>3, <4>1, <4>2 DEF BrowserInv
    <3> QED
      BY <3>1, <3>2
  <2>5. VerInv' /\ HtmlInv' /\ BrowserInv'
    <3>1. VerInv' /\ HtmlInv'
      BY <1>1, <1>11 DEF Load, VerInv, HtmlInv
    <3>2. \E x \in 0..u : Bytes(a, x) = Bytes(a, v)
      BY <2>3, <2>4
    <3>3. held' = held /\ ver' = ver
      BY <1>11 DEF Load
    <3>4. ASSUME NEW b \in Assets, NEW h \in Contents \cup {Missing}, browser'[b][h] # None
          PROVE  /\ browser'[b][h] <= ver[b]
                 /\ \E x \in 0..browser'[b][h] : Bytes(b, x) = h
      <4>1. CASE b = a /\ h = Url(r, a)
        <5>1. browser'[b][h] = u
          BY <1>1, <2>1, <2>3, <4>1 DEF TypeOK
        <5> QED
          BY <1>2, <2>2, <2>3, <3>2, <4>1, <5>1
      <4>2. CASE ~(b = a /\ h = Url(r, a))
        <5>1. browser'[b][h] = browser[b][h]
          BY <1>1, <2>1, <2>3, <4>2 DEF TypeOK
        <5> QED
          BY <1>1, <3>4, <5>1 DEF BrowserInv
      <4> QED
        BY <4>1, <4>2
    <3>5. BrowserInv'
      BY <3>3, <3>4 DEF BrowserInv, Bytes
    <3> QED
      BY <3>1, <3>5
  <2>6. RenderInv(r)'
    <3>1. /\ req'[r].since = req[r].since /\ req'[r].page = req[r].page
          /\ req'[r].stats = req[r].stats
          /\ req'[r].todo = req[r].todo \ {a}
          /\ req'[r].used = [req[r].used EXCEPT ![a] = u, ![Index] = req[r].page[Index]]
          /\ req'[r].pc = IF req[r].todo = {a} THEN "done" ELSE "load"
          /\ req'[r].excused = IF Misfiled(r, a) THEN req[r].excused \cup {a}
                               ELSE req[r].excused
      BY <1>1, <2>1, <2>2 DEF Becomes, Request
    <3>2. /\ req'[r].used[Index] = req[r].page[Index]
          /\ req'[r].used[a] = u
          /\ \A b \in Assets \ {a} : req'[r].used[b] = req[r].used[b]
      BY <1>2, <2>2, <3>1 DEF Files
    <3>3. \A f \in Files \ req[r].excused : Blurred(f) \/ req[r].page[f] >= req[r].since[f]
      BY <1>1, <2>2 DEF RenderInv
    <3>4. ASSUME a \notin req'[r].excused PROVE Current(req'[r], a)
      <4>1. ~Misfiled(r, a) /\ a \notin req[r].excused
        BY <3>1, <3>4
      <4>2. CASE Blurred(a)
        BY <4>2 DEF Current
      <4>3. CASE v >= req[r].since[a] /\ Bytes(a, u) = Bytes(a, v)
        BY <1>2, <2>2, <2>3, <3>1, <3>2, <4>3 DEF Current
      <4>4. CASE v >= req[r].since[a] /\ Bytes(a, u) # Bytes(a, v)
        <5>1. u >= v
          <6>1. SUFFICES ASSUME u < v PROVE FALSE
            BY <2>3
          <6>2. PICK x \in 0..u : Bytes(a, x) = Bytes(a, v)
            BY <2>3, <2>4, <6>1
          <6>3. x < u /\ x \in 0..v /\ u \in 0..v
            BY <1>2, <2>2, <2>3, <4>4, <6>1, <6>2
          <6>4. CameBack(a, v)
            BY <4>4, <6>2, <6>3 DEF CameBack
          <6>5. Kept(r, a) = u /\ Kept(r, a) # None
            BY <1>2, <2>2, <2>3, <6>1 DEF Fetched
          <6> QED
            BY <2>3, <4>1, <4>4, <6>4, <6>5 DEF Misfiled
        <5>2. u \in req[r].since[a]..ver[a]
          BY <1>2, <2>2, <2>3, <4>4, <5>1
        <5> QED
          BY <3>1, <3>2, <5>2 DEF Current
      <4> QED
        BY <2>2, <3>3, <4>1, <4>2, <4>3, <4>4
    <3>5. ASSUME NEW b \in Assets \ req'[r].todo, b \notin req'[r].excused
          PROVE  Current(req'[r], b)
      <4>1. CASE b = a
        BY <3>4, <3>5, <4>1
      <4>2. CASE b # a
        <5>1. b \notin req[r].todo /\ b \notin req[r].excused
          BY <3>1, <3>5, <4>2
        <5>2. Current(req[r], b)
          BY <1>1, <2>2, <5>1 DEF RenderInv
        <5> QED
          BY <3>1, <3>2, <4>2, <5>2 DEF Current
      <4> QED
        BY <4>1, <4>2
    <3>6. ASSUME Index \notin req'[r].excused PROVE Current(req'[r], Index)
      <4>1. Blurred(Index) \/ req[r].page[Index] >= req[r].since[Index]
        BY <3>1, <3>3, <3>6 DEF Files
      <4>2. req[r].page[Index] <= ver[Index]
        BY <1>1 DEF RenderInv, Files
      <4>3. /\ req[r].page[Index] \in Nat /\ req[r].since[Index] \in Nat
            /\ ver[Index] \in Nat
        BY <1>2 DEF Files
      <4> QED
        BY <3>1, <3>2, <4>1, <4>2, <4>3 DEF Current
    <3>7. /\ held' = held /\ ver' = ver
          /\ \A f \in Files : Blurred(f)' = Blurred(f)
          /\ \A f \in Files : Current(req[r], f)' = Current(req'[r], f)
      BY <1>11 DEF Load, Blurred, Stamp, Current, Bytes
    <3>8. \A f \in Files : req'[r].used[f] <= ver[f]
      BY <1>1, <1>2, <2>2, <2>3, <3>2 DEF RenderInv, Files
    <3>9. /\ req'[r].pc \in {"load", "done"}
          /\ req'[r].pc = "done" => req'[r].todo = {}
          /\ req'[r].todo \subseteq Assets
      BY <1>1, <2>2, <3>1 DEF RenderInv
    <3>10. req'[r].pc = "load" => \A f \in Files \ req'[r].excused :
                                    Blurred(f) \/ req'[r].page[f] >= req'[r].since[f]
      BY <3>1, <3>3
    <3>11. req'[r].pc = "done" => \A f \in Files \ req'[r].excused : Current(req'[r], f)
      BY <3>5, <3>6, <3>9 DEF Files
    <3>12. \A f \in Files : /\ req'[r].since[f] <= ver[f] /\ req'[r].page[f] <= ver[f]
                            /\ req'[r].stats[f] <= ver[f]
      BY <1>1, <3>1 DEF RenderInv
    <3> QED
      BY <3>5, <3>7, <3>8, <3>9, <3>10, <3>11, <3>12 DEF RenderInv, Files
  <2>7. KeyInv(r)'
    BY <1>1, <1>11, <2>1, <2>2 DEF Load, Becomes, KeyInv, At
  <2> QED
    BY <1>11, <2>1, <2>5, <2>6, <2>7, OthersKeep DEF Load
<1>12. CASE Leave(r)
  <2>1. VerInv' /\ HtmlInv' /\ BrowserInv'
    BY <1>1, <1>12 DEF Leave, VerInv, HtmlInv, BrowserInv, Bytes
  <2>2. RenderInv(r)' /\ KeyInv(r)'
    BY <1>1, <1>2, <1>12 DEF Leave, Becomes, Blank, NoPage, RenderInv, KeyInv, At
  <2> QED
    BY <1>12, <2>1, <2>2, OthersKeep DEF Leave
<1> QED
  BY <1>3, <1>4, <1>5, <1>6, <1>7, <1>8, <1>9, <1>10, <1>11, <1>12 DEF Render

\* An edit makes files newer, and leaves what they were as it is.
LEMMA EditStep ==
    ASSUME IInv, TypeOK', Edit
    PROVE  /\ VerInv' /\ HtmlInv' /\ BrowserInv'
           /\ \A s \in Requests : RenderInv(s)' /\ KeyInv(s)'
<1>1. PICK g \in Files, new \in State : /\ ver' = [ver EXCEPT ![g] = @ + 1]
                                       /\ held' = [held EXCEPT ![g][ver[g] + 1] = new]
  BY DEF Edit, Nexts
<1>2. /\ ver \in [Files -> Nat] /\ edits \in Nat
      /\ \A f \in Files : ver'[f] \in Nat /\ ver'[f] >= ver[f]
  BY <1>1 DEF IInv, TypeOK, Page, Versions
<1>3. UNCHANGED <<key, html, keyBy, req, browser>> /\ edits' = edits + 1
  BY DEF Edit
<1>4. \A f \in Files, v \in Nat : v <= ver[f] => held'[f][v] = held[f][v]
  BY <1>1, <1>2 DEF IInv, TypeOK
<1>5. \A f \in Files : Blurred(f) => Blurred(f)'
  <2> SUFFICES ASSUME NEW f \in Files, Blurred(f) PROVE Blurred(f)'
    OBVIOUS
  <2>1. PICK x, y \in 0..ver[f] : x # y /\ Stamp(f, x) = Stamp(f, y)
    BY DEF Blurred
  <2>2. x \in 0..ver'[f] /\ y \in 0..ver'[f]
    BY <1>2, <2>1
  <2>3. held'[f][x].stamp = held'[f][y].stamp
    BY <1>2, <1>4, <2>1 DEF Stamp
  <2> QED
    BY <2>1, <2>2, <2>3 DEF Blurred, Stamp
<1>6. VerInv'
  <2>1. \A f \in Files : ver'[f] <= edits'
    BY <1>1, <1>2, <1>3 DEF IInv, VerInv
  <2>2. key \in Page => \A f \in Files : key[f] <= ver'[f]
    <3>1. key \in Page => \A f \in Files : key[f] <= ver[f] /\ key[f] \in Nat
      BY PagesAreNumbers DEF IInv, VerInv
    <3> QED
      BY <1>2, <3>1
  <2>3. Page' = Page
    BY DEF Page
  <2> QED
    BY <1>3, <2>1, <2>2 DEF VerInv
<1>7. HtmlInv'
  <2>1. html.page \in [Files -> Nat]
    BY DEF IInv, TypeOK, Cached, Page, Versions
  <2>2. \A f \in Files : html.page[f] <= ver'[f]
    BY <1>2, <2>1 DEF IInv, HtmlInv
  <2> QED
    BY <1>3, <2>2 DEF IInv, HtmlInv
<1>8. BrowserInv'
  <2> SUFFICES ASSUME NEW a \in Assets, NEW h \in Contents \cup {Missing}, browser[a][h] # None
               PROVE  /\ browser[a][h] <= ver'[a]
                      /\ \E x \in 0..browser[a][h] : held'[a][x].bytes = h
    BY <1>3 DEF BrowserInv, Bytes
  <2>1. browser[a][h] \in Nat /\ browser[a][h] <= ver[a] /\ a \in Files
    BY DEF IInv, BrowserInv, TypeOK, Versions, Files
  <2>2. PICK x \in 0..browser[a][h] : Bytes(a, x) = h
    BY DEF IInv, BrowserInv
  <2>3. x \in Nat /\ x <= ver[a]
    BY <1>2, <2>1, <2>2
  <2> QED
    BY <1>2, <1>4, <2>1, <2>2, <2>3 DEF Bytes
<1>9. ASSUME NEW s \in Requests PROVE RenderInv(s)' /\ KeyInv(s)'
  <2>1. /\ req[s].since \in [Files -> Nat] /\ req[s].page \in [Files -> Nat]
        /\ req[s].stats \in [Files -> Nat] /\ req[s].used \in [Files -> Nat]
    BY PagesAreNumbers DEF IInv, TypeOK, Request
  <2>2. \A f \in Files : /\ req[s].since[f] <= ver[f] /\ req[s].page[f] <= ver[f]
                         /\ req[s].stats[f] <= ver[f] /\ req[s].used[f] <= ver[f]
    BY DEF IInv, RenderInv
  <2>3. \A f \in Files : /\ req[s].since[f] <= ver'[f] /\ req[s].page[f] <= ver'[f]
                         /\ req[s].stats[f] <= ver'[f] /\ req[s].used[f] <= ver'[f]
    BY <1>2, <2>1, <2>2
  <2>4. ASSUME NEW f \in Files, Current(req[s], f) PROVE Current(req[s], f)'
    <3>1. CASE Blurred(f)
      BY <1>5, <3>1 DEF Current
    <3>2. ASSUME NEW v \in req[s].since[f]..ver[f], Bytes(f, req[s].used[f]) = Bytes(f, v)
          PROVE  Current(req[s], f)'
      <4>1. v \in Nat /\ v <= ver[f] /\ v \in req[s].since[f]..ver'[f]
        BY <1>2, <2>1
      <4>2. held'[f][req[s].used[f]].bytes = held'[f][v].bytes
        BY <1>4, <2>1, <2>2, <3>2, <4>1 DEF Bytes
      <4> QED
        BY <1>3, <4>1, <4>2 DEF Current, Bytes
    <3> QED
      BY <2>4, <3>1, <3>2 DEF Current
  <2>6. RenderInv(s)
    BY DEF IInv
  <2>7. RenderInv(s)'
    BY <1>3, <1>5, <2>3, <2>4, <2>6 DEF RenderInv, Files
  <2>8. KeyInv(s)'
    BY <1>3, <1>5 DEF IInv, KeyInv, At
  <2> QED
    BY <2>7, <2>8
<1> QED
  BY <1>6, <1>7, <1>8, <1>9

\* What the browser forgets it will fetch again.
LEMMA ForgetStep ==
    ASSUME IInv, Forget
    PROVE  /\ VerInv' /\ HtmlInv' /\ BrowserInv'
           /\ \A s \in Requests : RenderInv(s)' /\ KeyInv(s)'
<1>1. PICK a \in Assets, h \in Contents \cup {Missing} :
         browser' = [browser EXCEPT ![a][h] = None]
  BY DEF Forget
<1>2. UNCHANGED <<held, ver, key, html, keyBy, req, edits>>
  BY DEF Forget
<1>3. \A b \in Assets, k \in Contents \cup {Missing} :
         browser'[b][k] = None \/ browser'[b][k] = browser[b][k]
  BY <1>1 DEF IInv, TypeOK
<1>4. BrowserInv'
  BY <1>2, <1>3 DEF IInv, BrowserInv, Bytes
<1>5. VerInv' /\ HtmlInv'
  BY <1>2 DEF IInv, VerInv, HtmlInv
<1>6. \A s \in Requests : RenderInv(s)' /\ KeyInv(s)'
  BY <1>2 DEF IInv, RenderInv, KeyInv, At, Current, Blurred, Bytes, Stamp
<1> QED
  BY <1>4, <1>5, <1>6

LEMMA StutterStep ==
    ASSUME IInv, UNCHANGED vars
    PROVE  IInv'
<1>1. TypeOK' /\ VerInv' /\ HtmlInv'
  BY DEF vars, IInv, TypeOK, VerInv, HtmlInv
<1>2. BrowserInv'
  BY DEF vars, IInv, BrowserInv, Bytes
<1>3. \A s \in Requests : RenderInv(s)' /\ KeyInv(s)'
  BY DEF vars, IInv, RenderInv, KeyInv, At, Current, Blurred, Bytes, Stamp
<1> QED
  BY <1>1, <1>2, <1>3 DEF IInv

LEMMA IInvStep == IInv /\ [Next]_vars => IInv'
<1> SUFFICES ASSUME IInv, [Next]_vars PROVE IInv'
  OBVIOUS
<1>1. TypeOK'
  BY TypeStep
<1>2. CASE UNCHANGED vars
  BY <1>2, StutterStep
<1>3. CASE Edit
  BY <1>1, <1>3, EditStep DEF IInv
<1>4. ASSUME NEW r \in Requests, Render(r) PROVE IInv'
  BY <1>1, <1>4, RenderStep DEF IInv
<1>5. CASE Forget
  BY <1>1, <1>5, ForgetStep DEF IInv
<1> QED
  BY <1>2, <1>3, <1>4, <1>5 DEF Next

\* The cache, the browser and what every request has read agree through every
\* step of requests and edits.
THEOREM ShellInvariant == Spec => []IInv
BY InitIInv, IInvStep, PTL DEF Spec

---------------------------------------------------------------------------

\* The type invariant of the shell, for any files, requests and bound on edits.
THEOREM TypeCorrect == Spec => []TypeOK
<1>1. IInv => TypeOK
  BY DEF IInv
<1> QED
  BY <1>1, ShellInvariant, PTL

\* What a browser loads a file had at some time since it asked for the shell,
\* whatever overlaps and however often files are edited, but for four causes:
\* two renders that store at once, an index edited between its being read and
\* its fingerprint, an mtime and size that come back, and, for an asset that is
\* rolled back, what the browser fetched under its URL in between.
THEOREM NothingLoadedIsOld == Spec => []LoadsAreCurrent
<1>1. IInv => LoadsAreCurrent
  BY DEF IInv, RenderInv, LoadsAreCurrent, At, Current
<1> QED
  BY <1>1, ShellInvariant, PTL
=============================================================================
