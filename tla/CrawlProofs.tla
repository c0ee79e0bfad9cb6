---------------------------- MODULE CrawlProofs -----------------------------
(***************************************************************************)
(* Proofs about the crawl, for any site and any failures.                  *)
(***************************************************************************)
EXTENDS Crawl, SelectionProofs, SequenceTheorems, TLAPS

-----------------------------------------------------------------------------
(* Sequences.                                                              *)

LEMMA HeadAndTail ==
    ASSUME NEW X, NEW s \in Seq(X), s # <<>>
    PROVE  /\ Head(s) \in X /\ Tail(s) \in Seq(X) /\ Head(s) = s[1]
           /\ Len(s) \in Nat /\ Len(s) > 0 /\ Len(Tail(s)) = Len(s) - 1
           /\ \A i \in 1..Len(s) - 1 : Tail(s)[i] = s[i + 1]
OBVIOUS

LEMMA InFront ==
    ASSUME NEW X, NEW s \in Seq(X), NEW x \in X
    PROVE  /\ <<x>> \o s \in Seq(X) /\ Len(<<x>> \o s) = Len(s) + 1
           /\ (<<x>> \o s)[1] = x
           /\ \A i \in 1..Len(s) : (<<x>> \o s)[i + 1] = s[i]
OBVIOUS

LEMMA Joined ==
    ASSUME NEW X, NEW s \in Seq(X), NEW t \in Seq(X)
    PROVE  /\ s \o t \in Seq(X) /\ Len(s \o t) = Len(s) + Len(t)
           /\ Len(s) \in Nat /\ Len(t) \in Nat
           /\ \A i \in 1..Len(s) : (s \o t)[i] = s[i]
           /\ \A i \in 1..Len(t) : (s \o t)[Len(s) + i] = t[i]
OBVIOUS

LEMMA PrefixOfItself ==
    ASSUME NEW X, NEW s \in Seq(X)
    PROVE  IsPrefix(s, s)
BY DEF IsPrefix

LEMMA SamePrefix ==
    ASSUME NEW X, NEW s \in Seq(X), NEW Y, NEW t \in Seq(Y), IsPrefix(s, t), Len(t) <= Len(s)
    PROVE  s = t
<1>1. Len(s) = Len(t) /\ SubSeq(s, 1, Len(s)) = SubSeq(t, 1, Len(s))
  BY DEF IsPrefix
<1>2. SubSeq(s, 1, Len(s)) = s
  OBVIOUS
<1>3. SubSeq(t, 1, Len(t)) = t
  OBVIOUS
<1> QED
  BY <1>1, <1>2, <1>3

-----------------------------------------------------------------------------
(* The pages.                                                              *)

\* The server shows the page that is asked for, and does nothing else.
LEMMA ShownAsAsked ==
    ASSUME NEW p \in Pages
    PROVE  Shown(p) = p /\ Served(p) = numbers
<1> DEFINE Best(x) == IsPrefix(x, p) /\ \A q \in Pages : IsPrefix(q, p) => Len(q) <= Len(x)
<1>1. p \in Seq(ToSet(p))
  BY SiteAssumption
<1>2. IsPrefix(p, p)
  BY <1>1, PrefixOfItself
<1>3. Best(p)
  <2>1. ASSUME NEW q \in Pages, IsPrefix(q, p) PROVE Len(q) <= Len(p)
    BY <2>1 DEF IsPrefix
  <2> QED
    BY <1>2, <2>1
<1>4. ASSUME NEW x \in Pages, Best(x)
      PROVE  x = p
  <2>1. x \in Seq(ToSet(x))
    BY SiteAssumption
  <2>2. IsPrefix(x, p) /\ Len(p) <= Len(x)
    BY <1>2, <1>4
  <2> QED
    BY <1>1, <2>1, <2>2, SamePrefix
<1>5. Shown(p) = CHOOSE x \in Pages : Best(x)
  BY DEF Shown
<1> HIDE DEF Best
<1>6. Shown(p) = p
  BY <1>3, <1>4, <1>5
<1>7. Served(p) = numbers
  BY DEF Served
<1> QED
  BY <1>6, <1>7

\* What the client takes for a link to a folder, the server does.
LEMMA FolderLinks ==
    ASSUME NEW link
    PROVE  IsIolFolder(link) <=> AsksForPage(link)
BY DEF IsIolFolder, AsksForPage, Params

\* What is queued after a page are pages, and all that is below the page is below
\* one of them: is_father_folder turns no folder of a page away.
LEMMA FollowedPages ==
    ASSUME NEW l \in Layouts, NEW p \in Pages
    PROVE  /\ Followed[l][p] \in Seq(Pages)
           /\ \A q \in Pages : Below(q, p) =>
                \E i \in 1..Len(Followed[l][p]) : q = Followed[l][p][i] \/ Below(q, Followed[l][p][i])
<1> DEFINE T == ToSet(Links(l, p))
           E == {link \in T : IsIolFolder(link) /\ ~IsFatherFolder(link.text, p)}
           links == SelectIn(Links(l, p), E)
           texts == [i \in DOMAIN links |-> links[i].text]
<1>1. Links(l, p) \in Seq(T) /\ \A link \in T : AsksForPage(link) => link.text \in Pages
  BY LinksAssumption
<1>2. Followed[l][p] = texts
  BY DEF Followed
<1>3. E \subseteq T
  OBVIOUS
<1>4. \A link : link \in E <=> link \in T /\ IsIolFolder(link) /\ ~IsFatherFolder(link.text, p)
  OBVIOUS
<1> HIDE DEF E
<1>5. links \in Seq(T \cap E) /\ ToSet(links) = ToSet(Links(l, p)) \cap E
  <2> HIDE DEF T
  <2> QED
    BY <1>1, SelectInSelects
<1> HIDE DEF links
<1>6. links \in Seq(E) /\ \A link \in E : \E i \in 1..Len(links) : links[i] = link
  <2>1. T \cap E = E
    BY <1>3
  <2>2. links \in Seq(E) /\ ToSet(links) = E
    BY <1>5, <2>1
  <2> QED
    BY <2>2 DEF ToSet
<1>7. \A link \in E : link.text \in Pages
  BY <1>1, <1>4, FolderLinks
<1>8. texts \in Seq(Pages) /\ Len(texts) = Len(links) /\ \A i \in 1..Len(links) : texts[i] = links[i].text
  <2>1. DOMAIN links = 1..Len(links) /\ Len(links) \in Nat /\ \A i \in 1..Len(links) : links[i] \in E
    BY <1>6
  <2>2. \A i \in 1..Len(links) : links[i].text \in Pages
    BY <1>7, <2>1
  <2> QED
    BY <2>1, <2>2
<1>9. ASSUME NEW q \in Pages, Below(q, p)
      PROVE  \E i \in 1..Len(texts) : q = texts[i] \/ Below(q, texts[i])
  <2>1. PICK link \in T : /\ AsksForPage(link) /\ Len(link.text) > Len(p)
                          /\ q = link.text \/ Below(q, link.text)
    BY <1>9, FoldersAssumption
  <2>2. ~IsFatherFolder(link.text, p)
    <3>1. link.text \in Pages
      BY <1>1, <2>1
    <3>2. Len(link.text) \in Nat /\ Len(p) \in Nat
      BY <3>1, SiteAssumption
    <3> QED
      BY <2>1, <3>2 DEF IsFatherFolder, IsPrefix
  <2>3. link \in E
    BY <1>4, <2>1, <2>2, FolderLinks
  <2>4. PICK i \in 1..Len(links) : links[i] = link
    BY <1>6, <2>3
  <2> QED
    BY <1>8, <2>1, <2>4
<1> HIDE DEF texts
<1> QED
  BY <1>2, <1>8, <1>9

-----------------------------------------------------------------------------
(* The types, and what the list of files is worth.                         *)

\* An address the server has given a file up to version v.
Given(f, a, v) == a[1] \in Hosts /\ a[2] \in 1..Versions[f] /\ a[2] <= v /\ a = <<a[1], a[2]>>

OnPages == {f \in Fids : \E p \in Pages : f \in Range(Numbers[p])}
Entries == [fid : Fids, address : Hosts \X Nat]

\* An entry of the list: of a number on the pages, and, without the cache, as new
\* as the crawl and of its host.
Good(e, v, b, without, h) ==
    /\ e.fid \in OnPages /\ Given(e.fid, e.address, v[e.fid])
    /\ without => e.address[1] = h /\ e.address[2] >= b[e.fid]

Typed ==
    /\ layout \in Layouts /\ numbers = Numbers
    /\ version \in [Fids -> Nat] /\ began \in [Fids -> Nat]
    /\ \A f \in Fids : version[f] \in 1..Versions[f] /\ began[f] <= version[f]
    /\ cache \in [Fids -> (Hosts \X Nat) \cup {NoAddress}]
    /\ \A f \in Fids : cache[f] # NoAddress => Given(f, cache[f], version[f])
    /\ noCache \in BOOLEAN /\ host \in Hosts
    /\ pc \in {"idle", "fetch", "resolve"} /\ ret \in {"E_OK", "E_NETWORK"}
    /\ pc = "idle" => pending = <<>>
    /\ pending \in Seq(Pages) /\ page \in Pages
    /\ todo \in Seq(Fids \cup {None}) /\ last \in Fids \cup {None}
    /\ pc = "resolve" => todo # <<>> /\ \A i \in 1..Len(todo) : todo[i] \in Range(Numbers[page])
    /\ files \in Seq(Entries)
    /\ \A i \in 1..Len(files) : Good(files[i], version, began, noCache, host)
    /\ missed \subseteq Fids \cup {None}

LEMMA GoodGrows ==
    ASSUME NEW e \in Entries, NEW v \in [Fids -> Nat], NEW w \in [Fids -> Nat],
           \A f \in Fids : v[f] <= w[f],
           NEW b, NEW without, NEW h, Good(e, v, b, without, h)
    PROVE  Good(e, w, b, without, h)
<1>1. e.fid \in Fids /\ e.fid \in OnPages /\ Given(e.fid, e.address, v[e.fid])
  BY DEF Good, Entries
<1>2. e.address[2] \in Nat
  <2>1. e.address[2] \in 1..Versions[e.fid] /\ Versions[e.fid] \in Nat
    BY <1>1, SiteAssumption DEF Given
  <2> QED
    BY <2>1
<1>3. v[e.fid] \in Nat /\ w[e.fid] \in Nat /\ v[e.fid] <= w[e.fid]
  BY <1>1
<1>4. e.address[2] <= w[e.fid]
  <2>1. e.address[2] <= v[e.fid]
    BY <1>1 DEF Given
  <2> QED
    BY <1>2, <1>3, <2>1
<1>5. Given(e.fid, e.address, w[e.fid])
  BY <1>1, <1>4 DEF Given
<1> QED
  BY <1>1, <1>5 DEF Good

\* An address is a pair.
LEMMA Pair ==
    ASSUME NEW h \in Hosts, NEW n \in Nat
    PROVE  /\ <<h, n>> \in Hosts \X Nat /\ <<h, n>>[1] = h /\ <<h, n>>[2] = n
           /\ <<h, n>> # NoAddress
BY DEF NoAddress

LEMMA InitTyped ==
    ASSUME Init
    PROVE  Typed
<1>1. layout \in Layouts /\ numbers = Numbers /\ host \in Hosts /\ noCache = FALSE
      /\ pc = "idle" /\ ret = "E_NETWORK" /\ page \in Pages /\ last = None /\ missed = {}
  BY SiteAssumption DEF Init
<1>2. version \in [Fids -> Nat] /\ began = version
      /\ \A f \in Fids : version[f] \in 1..Versions[f] /\ began[f] <= version[f]
  <2>1. \A f \in Fids : Versions[f] \in Nat /\ Versions[f] >= 1
    BY SiteAssumption
  <2>2. version = [f \in Fids |-> 1] /\ began = version
    BY DEF Init
  <2> QED
    BY <2>1, <2>2
<1>3. cache \in [Fids -> (Hosts \X Nat) \cup {NoAddress}] /\ \A f \in Fids : cache[f] = NoAddress
  BY DEF Init
<1>4. pending \in Seq(Pages) /\ todo \in Seq(Fids \cup {None}) /\ files \in Seq(Entries)
      /\ Len(files) = 0 /\ pending = <<>>
  <2>1. pending = <<>> /\ todo = <<>> /\ files = <<>>
    BY DEF Init
  <2>2. \A X : <<>> \in Seq(X)
    OBVIOUS
  <2> QED
    BY <2>1, <2>2
<1>5. \A i \in 1..Len(files) : Good(files[i], version, began, noCache, host)
  BY <1>4
<1> QED
  BY <1>1, <1>2, <1>3, <1>4, <1>5 DEF Typed

LEMMA ReplaceTyped ==
    ASSUME Typed, NEW f \in Fids, Replace(f)
    PROVE  Typed'
<1>1. UNCHANGED <<layout, numbers, cache, noCache, host, pc, pending, page, todo, last, files,
                  ret, missed, began>>
  BY DEF Replace, crawl
<1>2. version' = [version EXCEPT ![f] = @ + 1] /\ version[f] < Versions[f]
  BY DEF Replace
<1>3. version \in [Fids -> Nat] /\ began \in [Fids -> Nat]
      /\ \A g \in Fids : version[g] \in 1..Versions[g] /\ began[g] <= version[g]
  BY DEF Typed
<1>4. \A g \in Fids : Versions[g] \in Nat
  BY SiteAssumption
<1>5. version' \in [Fids -> Nat] /\ \A g \in Fids : version[g] <= version'[g]
  BY <1>2, <1>3
<1>6. \A g \in Fids : version'[g] \in 1..Versions[g] /\ began[g] <= version'[g]
  BY <1>2, <1>3, <1>4
<1>7. ASSUME NEW g \in Fids, cache[g] # NoAddress
      PROVE  Given(g, cache[g], version'[g])
  <2>1. Given(g, cache[g], version[g])
    BY <1>7 DEF Typed
  <2>2. cache[g][2] \in Nat
    <3>1. cache[g][2] \in 1..Versions[g]
      BY <2>1 DEF Given
    <3> QED
      BY <1>4, <3>1
  <2>3. cache[g][2] <= version'[g]
    <3>1. cache[g][2] <= version[g]
      BY <2>1 DEF Given
    <3>2. version[g] \in Nat /\ version'[g] \in Nat /\ version[g] <= version'[g]
      BY <1>3, <1>5
    <3> QED
      BY <2>2, <3>1, <3>2
  <2> QED
    BY <2>1, <2>3 DEF Given
<1>8. ASSUME NEW i \in 1..Len(files)
      PROVE  Good(files[i], version', began, noCache, host)
  <2>1. files[i] \in Entries /\ Good(files[i], version, began, noCache, host)
    BY DEF Typed
  <2> QED
    BY <1>3, <1>5, <2>1, GoodGrows
<1> QED
  BY <1>1, <1>3, <1>5, <1>6, <1>7, <1>8 DEF Typed

LEMMA BeginTyped ==
    ASSUME Typed, Begin
    PROVE  Typed'
<1>1. UNCHANGED <<layout, numbers, version, cache, page, todo, last>>
  BY DEF Begin, server
<1>2. /\ noCache' \in BOOLEAN /\ host' \in Hosts /\ pc' = "fetch" /\ pending' = <<Start>>
      /\ files' = <<>> /\ ret' = "E_OK" /\ missed' = {} /\ began' = version
  BY DEF Begin
<1>3. pending' \in Seq(Pages) /\ files' \in Seq(Entries) /\ Len(files') = 0
  <2>1. Start \in Pages
    BY SiteAssumption
  <2>2. <<Start>> \in Seq(Pages)
    BY <2>1
  <2>3. <<>> \in Seq(Entries)
    OBVIOUS
  <2> QED
    BY <1>2, <2>2, <2>3
<1>4. \A i \in 1..Len(files') : Good(files'[i], version', began', noCache', host')
  BY <1>3
<1>5. \A f \in Fids : began'[f] <= version'[f]
  <2>1. \A f \in Fids : version[f] \in Nat
    BY DEF Typed
  <2> QED
    BY <1>1, <1>2, <2>1
<1> QED
  BY <1>1, <1>2, <1>3, <1>4, <1>5 DEF Typed

\* A page, and those to read after it.
LEMMA FetchTyped ==
    ASSUME Typed, Fetch
    PROVE  Typed'
<1>1. UNCHANGED <<layout, version, cache, noCache, host, files, missed, began>>
  BY DEF Fetch
<1>2. pending \in Seq(Pages) /\ pending # <<>> /\ layout \in Layouts /\ numbers = Numbers
  BY DEF Fetch, Typed
<1>3. page' \in Pages /\ Tail(pending) \in Seq(Pages)
  BY <1>2, HeadAndTail DEF Fetch
<1>4. Shown(page') = page' /\ numbers' = Numbers
  <2> DEFINE p == Head(pending)
  <2>1. page' = p /\ numbers' = Served(p)
    BY DEF Fetch
  <2>2. p \in Pages
    BY <1>3, <2>1
  <2> HIDE DEF p
  <2>3. Shown(p) = p /\ Served(p) = numbers
    BY <2>2, ShownAsAsked
  <2> QED
    BY <1>2, <2>1, <2>3
<1>5. CASE /\ pending' = <<>> /\ pc' = "idle" /\ ret' = "E_NETWORK"
           /\ UNCHANGED <<todo, last>>
  <2>1. <<>> \in Seq(Pages)
    OBVIOUS
  <2> QED
    BY <1>1, <1>2, <1>3, <1>4, <1>5, <2>1 DEF Typed
<1>6. CASE /\ pending' = Tail(pending) \o Follows(Shown(page'))
           /\ todo' = numbers'[Shown(page')] /\ last' = None
           /\ pc' = Phase(todo') /\ ret' = ret
  <2>1. Follows(page') \in Seq(Pages)
    BY <1>2, <1>3, FollowedPages DEF Follows
  <2>2. pending' \in Seq(Pages)
    BY <1>3, <1>4, <1>6, <2>1, Joined
  <2>3. todo' = Numbers[page'] /\ todo' \in Seq(Fids \cup {None})
    BY <1>3, <1>4, <1>6, SiteAssumption
  <2>4. \A i \in 1..Len(todo') : todo'[i] \in Range(Numbers[page'])
    BY <2>3 DEF Range
  <2>5. pc' \in {"fetch", "resolve"} /\ (pc' = "resolve" => todo' # <<>>)
    BY <1>6 DEF Phase
  <2> QED
    BY <1>1, <1>2, <1>3, <1>4, <1>6, <2>2, <2>3, <2>4, <2>5 DEF Typed
<1> QED
  BY <1>5, <1>6 DEF Fetch

LEMMA EndTyped ==
    ASSUME Typed, End
    PROVE  Typed'
<1>1. UNCHANGED <<layout, numbers, version, cache, noCache, host, pending, page, todo, last,
                  files, ret, missed, began>> /\ pc' = "idle" /\ pending = <<>>
  BY DEF End, server
<1> QED
  BY <1>1 DEF Typed

\* One more entry.
LEMMA FoundTyped ==
    ASSUME Typed, NEW f \in OnPages, NEW a \in Hosts \X Nat, Found(f, a),
           Given(f, a, version[f]), noCache => a[1] = host /\ a[2] >= began[f]
    PROVE  /\ files' \in Seq(Entries)
           /\ \A i \in 1..Len(files') : Good(files'[i], version, began, noCache, host)
<1> DEFINE e == [fid |-> f, address |-> a]
<1>1. e \in Entries /\ e.fid = f /\ e.address = a
  BY DEF Entries, OnPages
<1>2. files' = <<e>> \o files
  BY DEF Found
<1> HIDE DEF e
<1>3. Good(e, version, began, noCache, host)
  BY <1>1 DEF Good
<1>4. files \in Seq(Entries) /\ \A i \in 1..Len(files) : Good(files[i], version, began, noCache, host)
  BY DEF Typed
<1>5. /\ files' \in Seq(Entries) /\ Len(files') = Len(files) + 1 /\ files'[1] = e
      /\ \A i \in 1..Len(files) : files'[i + 1] = files[i]
  BY <1>1, <1>2, <1>4, InFront
<1>6. ASSUME NEW i \in 1..Len(files')
      PROVE  Good(files'[i], version, began, noCache, host)
  <2>1. CASE i = 1
    BY <1>3, <1>5, <2>1
  <2>2. CASE i # 1
    <3>1. Len(files) \in Nat
      BY <1>4
    <3>2. i - 1 \in 1..Len(files) /\ (i - 1) + 1 = i
      BY <1>5, <2>2, <3>1
    <3>3. files'[i] = files[i - 1]
      BY <1>5, <3>2
    <3> QED
      BY <1>4, <3>2, <3>3
  <2> QED
    BY <2>1, <2>2
<1> QED
  BY <1>5, <1>6

\* The number at the head of what is left is one of the page.
LEMMA HeadOfTodo ==
    ASSUME Typed, pc = "resolve"
    PROVE  /\ Head(todo) \in Fids \cup {None} /\ Head(todo) \in Range(Numbers[page])
           /\ Tail(todo) \in Seq(Fids \cup {None}) /\ Len(Tail(todo)) = Len(todo) - 1
           /\ Len(todo) \in Nat /\ Len(todo) > 0 /\ Head(todo) = todo[1]
           /\ \A i \in 1..Len(todo) - 1 : Tail(todo)[i] = todo[i + 1]
           /\ \A i \in 1..Len(Tail(todo)) : Tail(todo)[i] \in Range(Numbers[page])
<1>1. todo \in Seq(Fids \cup {None}) /\ todo # <<>>
      /\ \A i \in 1..Len(todo) : todo[i] \in Range(Numbers[page])
  BY DEF Typed
<1>2. /\ Head(todo) \in Fids \cup {None} /\ Tail(todo) \in Seq(Fids \cup {None})
      /\ Len(Tail(todo)) = Len(todo) - 1 /\ Len(todo) \in Nat /\ Len(todo) > 0
      /\ Head(todo) = todo[1] /\ \A i \in 1..Len(todo) - 1 : Tail(todo)[i] = todo[i + 1]
  BY <1>1, HeadAndTail
<1>3. Head(todo) \in Range(Numbers[page])
  <2>1. 1 \in 1..Len(todo)
    BY <1>2
  <2> QED
    BY <1>1, <1>2, <2>1
<1>4. ASSUME NEW i \in 1..Len(Tail(todo))
      PROVE  Tail(todo)[i] \in Range(Numbers[page])
  <2>1. i \in 1..Len(todo) - 1 /\ i + 1 \in 1..Len(todo)
    BY <1>2
  <2> QED
    BY <1>1, <1>2, <2>1
<1> QED
  BY <1>2, <1>3, <1>4

\* An address the cache or the server gives.
LEMMA ResolvedTyped ==
    ASSUME Typed, NEW f \in Range(Numbers[page]), FromCache(f) \/ FromServer(f)
    PROVE  /\ files' \in Seq(Entries)
           /\ \A i \in 1..Len(files') : Good(files'[i], version, began, noCache, host)
           /\ cache' \in [Fids -> (Hosts \X Nat) \cup {NoAddress}]
           /\ \A g \in Fids : cache'[g] # NoAddress => Given(g, cache'[g], version[g])
           /\ f \in Fids \cup {None} => missed' \subseteq Fids \cup {None}
<1>1. /\ files \in Seq(Entries) /\ page \in Pages
      /\ \A i \in 1..Len(files) : Good(files[i], version, began, noCache, host)
      /\ cache \in [Fids -> (Hosts \X Nat) \cup {NoAddress}]
      /\ \A g \in Fids : cache[g] # NoAddress => Given(g, cache[g], version[g])
      /\ missed \subseteq Fids \cup {None}
  BY DEF Typed
<1>2. f \in Fids => f \in OnPages
  BY <1>1 DEF OnPages
<1>3. CASE FromCache(f)
  <2>1. ~noCache /\ f \in Fids /\ cache[f] # NoAddress /\ Found(f, cache[f])
        /\ cache' = cache /\ missed' = missed
    BY <1>3 DEF FromCache
  <2>2. cache[f] \in Hosts \X Nat /\ Given(f, cache[f], version[f])
    BY <1>1, <2>1
  <2>3. /\ files' \in Seq(Entries)
        /\ \A i \in 1..Len(files') : Good(files'[i], version, began, noCache, host)
    BY <1>2, <2>1, <2>2, FoundTyped
  <2> QED
    BY <1>1, <2>1, <2>3
<1>4. CASE missed' = missed \cup {f} /\ UNCHANGED <<cache, files>>
  BY <1>1, <1>4
<1>5. CASE /\ f \in Fids /\ Found(f, <<host, version[f]>>)
           /\ AddFile(f, <<host, version[f]>>) /\ UNCHANGED missed
  <2> DEFINE a == <<host, version[f]>>
  <2>1. version[f] \in 1..Versions[f] /\ version[f] \in Nat /\ began[f] <= version[f]
        /\ host \in Hosts
    BY <1>5 DEF Typed
  <2>2. a \in Hosts \X Nat /\ a[1] = host /\ a[2] = version[f] /\ a = <<a[1], a[2]>>
    BY <2>1, Pair
  <2>3. Found(f, a) /\ AddFile(f, a)
    BY <1>5
  <2> HIDE DEF a
  <2>4. Given(f, a, version[f])
    BY <2>1, <2>2 DEF Given
  <2>5. a[2] >= began[f]
    <3>1. began[f] \in Nat
      BY <1>5 DEF Typed
    <3> QED
      BY <2>1, <2>2, <3>1
  <2>6. /\ files' \in Seq(Entries)
        /\ \A i \in 1..Len(files') : Good(files'[i], version, began, noCache, host)
    BY <1>2, <1>5, <2>2, <2>3, <2>4, <2>5, FoundTyped
  <2>7. cache' = cache \/ cache' = [cache EXCEPT ![f] = a]
    BY <2>3 DEF AddFile
  <2>8. cache' \in [Fids -> (Hosts \X Nat) \cup {NoAddress}]
    BY <1>1, <2>2, <2>7
  <2>9. \A g \in Fids : cache'[g] # NoAddress => Given(g, cache'[g], version[g])
    <3>1. \A g \in Fids : cache'[g] = cache[g] \/ (g = f /\ cache'[g] = a)
      BY <1>1, <1>5, <2>7
    <3> QED
      BY <1>1, <2>4, <3>1
  <2> QED
    BY <1>1, <1>5, <2>6, <2>8, <2>9
<1> QED
  BY <1>3, <1>4, <1>5 DEF FromServer

LEMMA ResolveTyped ==
    ASSUME Typed, Resolve
    PROVE  Typed'
<1> DEFINE f == Head(todo)
<1>1. UNCHANGED <<layout, numbers, version, noCache, host, pending, page, ret, began>>
      /\ todo' = Tail(todo) /\ last' = f /\ pc' = Phase(todo') /\ pc = "resolve"
  BY DEF Resolve, server
<1>2. /\ f \in Fids \cup {None} /\ f \in Range(Numbers[page])
      /\ todo' \in Seq(Fids \cup {None})
      /\ \A i \in 1..Len(todo') : todo'[i] \in Range(Numbers[page])
  BY <1>1, HeadOfTodo
<1>3. \/ UNCHANGED <<cache, files, missed>>
      \/ FromCache(f) \/ FromServer(f)
  BY DEF Resolve
<1> HIDE DEF f
<1>4. /\ files' \in Seq(Entries)
      /\ \A i \in 1..Len(files') : Good(files'[i], version, began, noCache, host)
      /\ cache' \in [Fids -> (Hosts \X Nat) \cup {NoAddress}]
      /\ \A g \in Fids : cache'[g] # NoAddress => Given(g, cache'[g], version[g])
      /\ missed' \subseteq Fids \cup {None}
  <2>1. CASE UNCHANGED <<cache, files, missed>>
    BY <2>1 DEF Typed
  <2>2. CASE FromCache(f) \/ FromServer(f)
    BY <1>2, <2>2, ResolvedTyped
  <2> QED
    BY <1>3, <2>1, <2>2
<1>5. pc' \in {"fetch", "resolve"} /\ (pc' = "resolve" => todo' # <<>>)
  BY <1>1 DEF Phase
<1>6. last' \in Fids \cup {None}
  BY <1>1, <1>2
<1> QED
  BY <1>1, <1>2, <1>4, <1>5, <1>6 DEF Typed

LEMMA TypedStep ==
    ASSUME Typed, [Next]_vars
    PROVE  Typed'
<1>1. CASE UNCHANGED vars
  BY <1>1 DEF vars, server, crawl, Typed
<1> QED
  BY <1>1, ReplaceTyped, BeginTyped, FetchTyped, EndTyped, ResolveTyped DEF Next, Step

LEMMA TypedAlways == Spec => []Typed
<1> QED
  BY InitTyped, TypedStep, PTL DEF Spec

\* The variables keep their types whatever the pages link to; and an address is in
\* the list only with its number on some page, and only if the server has given
\* it, however often it moved the file and however the cache was filled.
\* (get_file_list_from_current, cache_db.c)
THEOREM TypeCorrect == Spec => []TypeOK
<1>1. Typed => TypeOK
  <2> SUFFICES ASSUME Typed PROVE TypeOK
    OBVIOUS
  <2>1. numbers \in [Pages -> Seq(Fids \cup {None})]
    BY SiteAssumption DEF Typed
  <2>2. ASSUME NEW f, NEW a, NEW v, Given(f, a, v)
        PROVE  a \in Addresses(f) /\ a[2] <= v
    BY <2>2 DEF Given, Addresses
  <2>3. \A f \in Fids : version[f] \in 1 .. Versions[f] /\ cache[f] \in Addresses(f) \cup {NoAddress}
    BY <2>2 DEF Typed
  <2>4. \A f \in Fids : began[f] <= version[f] /\ (cache[f] # NoAddress => cache[f][2] <= version[f])
    BY <2>2 DEF Typed
  <2>5. ASSUME NEW i \in DOMAIN files
        PROVE  /\ files[i].fid \in Fids /\ files[i].address \in Addresses(files[i].fid)
               /\ files[i].address[2] <= version[files[i].fid]
               /\ \E p \in Pages : files[i].fid \in Range(numbers[p])
    <3>1. i \in 1..Len(files)
      BY DEF Typed
    <3>2. files[i].fid \in OnPages /\ Given(files[i].fid, files[i].address, version[files[i].fid])
      BY <3>1 DEF Typed, Good
    <3>3. numbers = Numbers
      BY DEF Typed
    <3> QED
      BY <2>2, <3>2, <3>3 DEF OnPages
  <2> QED
    BY <2>1, <2>3, <2>4, <2>5 DEF Typed, TypeOK
<1> QED
  BY <1>1, TypedAlways, PTL

\* With --no-cache every address is as new as the crawl and of its host, whatever
\* earlier runs have left in the cache, and whatever they failed to leave there.
\* (_iol_get_url_from_fid)
THEOREM WithoutCacheFresh == Spec => []NoCacheFresh
<1>1. Typed => NoCacheFresh
  BY DEF Typed, Good, NoCacheFresh
<1> QED
  BY <1>1, TypedAlways, PTL

\* Whatever the pages of the material link to, the crawl asks for nothing that
\* changes them.  (link_is_iol_folder)
THEOREM OnlyLooks == Spec => LooksOnly
<1>1. Typed /\ Typed' => [numbers' = numbers]_vars
  BY DEF Typed
<1> QED
  BY <1>1, TypedAlways, PTL DEF LooksOnly

-----------------------------------------------------------------------------
(* That no page is forgotten.                                              *)

\* A number was given an address, or asked for in vain.
Listed(f, list, vain) == f \in vain \/ \E i \in 1..Len(list) : list[i].fid = f

\* All of a page is listed.
Read(p, list, vain) == \A f \in Range(Numbers[p]) \cap Fids : Listed(f, list, vain)

\* A page is in the queue, or in a folder that is.
Queued(p, queue) == \E i \in 1..Len(queue) : p = queue[i] \/ Below(p, queue[i])

\* No page is forgotten: it is read, to be read, or being read; and of the one
\* that is being read no number is.
Covered ==
    /\ ret = "E_OK" =>
         \A p \in Pages : \/ Read(p, files, missed) \/ Queued(p, pending)
                          \/ pc = "resolve" /\ p = page
    /\ pc = "resolve" =>
         /\ last \in Fids => Listed(last, files, missed)
         /\ \A f \in Range(Numbers[page]) \cap Fids :
              Listed(f, files, missed) \/ \E i \in 1..Len(todo) : todo[i] = f

LEMMA InitCovered ==
    ASSUME Init
    PROVE  Covered
BY DEF Init, Covered

LEMMA BeginCovered ==
    ASSUME Typed, Begin
    PROVE  Covered'
<1>1. pending' = <<Start>> /\ pc' = "fetch"
  BY DEF Begin
<1>2. ASSUME NEW p \in Pages
      PROVE  Queued(p, pending')
  <2>1. p = Start \/ Below(p, Start)
    BY DEF Below
  <2>2. Len(<<Start>>) = 1 /\ <<Start>>[1] = Start
    OBVIOUS
  <2>3. 1 \in 1..Len(<<Start>>)
    BY <2>2
  <2> QED
    BY <1>1, <2>1, <2>2, <2>3 DEF Queued
<1> QED
  BY <1>1, <1>2 DEF Covered

\* Reading a page takes it from the queue and puts there what is in it.
LEMMA FetchCovered ==
    ASSUME Typed, Covered, Fetch
    PROVE  Covered'
<1>1. files' = files /\ missed' = missed /\ pc = "fetch"
  BY DEF Fetch
<1>2. pending \in Seq(Pages) /\ pending # <<>> /\ layout \in Layouts /\ numbers = Numbers
  BY DEF Fetch, Typed
<1>3. /\ page' \in Pages /\ Tail(pending) \in Seq(Pages) /\ page' = pending[1]
      /\ Len(pending) \in Nat /\ Len(pending) > 0 /\ Len(Tail(pending)) = Len(pending) - 1
      /\ \A i \in 1..Len(pending) - 1 : Tail(pending)[i] = pending[i + 1]
  BY <1>2, HeadAndTail DEF Fetch
<1>4. Shown(page') = page' /\ numbers' = Numbers
  <2> DEFINE p == Head(pending)
  <2>1. page' = p /\ numbers' = Served(p)
    BY DEF Fetch
  <2>2. p \in Pages
    BY <1>3, <2>1
  <2> HIDE DEF p
  <2>3. Shown(p) = p /\ Served(p) = numbers
    BY <2>2, ShownAsAsked
  <2> QED
    BY <1>2, <2>1, <2>3
<1>5. CASE pc' = "idle" /\ ret' = "E_NETWORK"
  BY <1>5 DEF Covered
<1>6. CASE /\ pending' = Tail(pending) \o Follows(Shown(page'))
           /\ todo' = numbers'[Shown(page')] /\ last' = None
           /\ pc' = Phase(todo') /\ ret' = ret
  <2> DEFINE more == Follows(page')
             rest == Tail(pending)
  <2>1. more \in Seq(Pages) /\ \A q \in Pages : Below(q, page') =>
                \E i \in 1..Len(more) : q = more[i] \/ Below(q, more[i])
    BY <1>2, <1>3, FollowedPages DEF Follows
  <2>2. pending' = rest \o more /\ rest \in Seq(Pages)
    BY <1>3, <1>4, <1>6
  <2> HIDE DEF more
  <2>3. /\ Len(pending') = Len(rest) + Len(more) /\ Len(rest) \in Nat /\ Len(more) \in Nat
        /\ \A i \in 1..Len(rest) : pending'[i] = rest[i]
        /\ \A i \in 1..Len(more) : pending'[Len(rest) + i] = more[i]
    <3> HIDE DEF rest
    <3> QED
      BY <2>1, <2>2, Joined
  <2>4. todo' = Numbers[page'] /\ todo' \in Seq(Fids \cup {None})
    BY <1>3, <1>4, <1>6, SiteAssumption
  <2>5. \A f \in Range(Numbers[page']) : \E i \in 1..Len(todo') : todo'[i] = f
    BY <2>4 DEF Range
  <2>6. ASSUME NEW p \in Pages, Queued(p, pending)
        PROVE  Queued(p, pending') \/ p = page'
    <3>1. PICK i \in 1..Len(pending) : p = pending[i] \/ Below(p, pending[i])
      BY <2>6 DEF Queued
    <3>2. CASE i = 1
      <4>1. p = page' \/ Below(p, page')
        BY <1>3, <3>1, <3>2
      <4>2. ASSUME Below(p, page')
            PROVE  Queued(p, pending')
        <5>1. PICK j \in 1..Len(more) : p = more[j] \/ Below(p, more[j])
          BY <2>1, <4>2
        <5>2. Len(rest) + j \in 1..Len(pending')
          BY <2>3
        <5>3. pending'[Len(rest) + j] = more[j]
          BY <2>3
        <5> QED
          BY <5>1, <5>2, <5>3 DEF Queued
      <4> QED
        BY <4>1, <4>2
    <3>3. CASE i # 1
      <4>1. i - 1 \in 1..Len(pending) - 1 /\ (i - 1) + 1 = i
        BY <1>3, <3>3
      <4>2. rest[i - 1] = pending[i] /\ i - 1 \in 1..Len(rest)
        BY <1>3, <4>1
      <4>3. pending'[i - 1] = pending[i] /\ i - 1 \in 1..Len(pending')
        BY <2>3, <4>2
      <4> QED
        BY <3>1, <4>3 DEF Queued
    <3> QED
      BY <3>2, <3>3
  <2>7. CASE todo' = <<>>
    <3>1. Range(Numbers[page']) = {}
      <4>1. Len(todo') = 0
        BY <2>7
      <4> QED
        BY <2>5, <4>1
    <3>2. Read(page', files', missed')
      BY <3>1 DEF Read
    <3>3. pc' = "fetch"
      BY <1>6, <2>7 DEF Phase
    <3> QED
      BY <1>1, <1>6, <2>6, <3>2, <3>3 DEF Covered
  <2>8. CASE todo' # <<>>
    <3>1. pc' = "resolve"
      BY <1>6, <2>8 DEF Phase
    <3>2. None \notin Fids
      BY SiteAssumption DEF None
    <3> QED
      BY <1>1, <1>6, <2>5, <2>6, <3>1, <3>2 DEF Covered
  <2> QED
    BY <2>7, <2>8
<1> QED
  BY <1>5, <1>6 DEF Fetch

LEMMA EndCovered ==
    ASSUME Typed, Covered, End
    PROVE  Covered'
<1>1. /\ UNCHANGED <<pending, page, files, ret, missed>>
      /\ pc' = "idle" /\ pc = "fetch"
  BY DEF End
<1> QED
  BY <1>1 DEF Covered

\* What is in the list stays there, and what is resolved comes to it.
LEMMA FoundListed ==
    ASSUME Typed, NEW f, FromCache(f) \/ FromServer(f), files' \in Seq(Entries)
    PROVE  /\ \A g : Listed(g, files, missed) => Listed(g, files', missed')
           /\ Listed(f, files', missed')
<1>1. files \in Seq(Entries)
  BY DEF Typed
<1>2. ASSUME NEW a, NEW x \in Entries, x.fid = f, files' = <<x>> \o files, missed' = missed
      PROVE  /\ \A g : Listed(g, files, missed) => Listed(g, files', missed')
             /\ Listed(f, files', missed')
  <2>1. /\ Len(files') = Len(files) + 1 /\ files'[1] = x /\ Len(files) \in Nat
        /\ \A i \in 1..Len(files) : files'[i + 1] = files[i]
    BY <1>1, <1>2, InFront
  <2>2. 1 \in 1..Len(files')
    BY <2>1
  <2>3. Listed(f, files', missed')
    BY <1>2, <2>1, <2>2 DEF Listed
  <2>4. ASSUME NEW g, Listed(g, files, missed)
        PROVE  Listed(g, files', missed')
    <3>1. CASE g \in missed
      BY <1>2, <3>1 DEF Listed
    <3>2. CASE g \notin missed
      <4>1. PICK i \in 1..Len(files) : files[i].fid = g
        BY <2>4, <3>2 DEF Listed
      <4>2. i + 1 \in 1..Len(files') /\ files'[i + 1] = files[i]
        BY <2>1
      <4> QED
        BY <4>1, <4>2 DEF Listed
    <3> QED
      BY <3>1, <3>2
  <2> QED
    BY <2>3, <2>4
<1>3. ASSUME NEW a \in Hosts \X Nat, f \in Fids, Found(f, a), missed' = missed
      PROVE  /\ \A g : Listed(g, files, missed) => Listed(g, files', missed')
             /\ Listed(f, files', missed')
  <2> DEFINE x == [fid |-> f, address |-> a]
  <2>1. x \in Entries /\ x.fid = f
    BY <1>3 DEF Entries
  <2>2. files' = <<x>> \o files
    BY <1>3 DEF Found
  <2> HIDE DEF x
  <2> QED
    BY <1>2, <1>3, <2>1, <2>2
<1>4. CASE FromCache(f)
  <2>1. f \in Fids /\ cache[f] # NoAddress /\ Found(f, cache[f]) /\ missed' = missed
    BY <1>4 DEF FromCache
  <2>2. cache[f] \in Hosts \X Nat
    BY <2>1 DEF Typed
  <2> QED
    BY <1>3, <2>1, <2>2
<1>5. CASE /\ f \in Fids /\ Found(f, <<host, version[f]>>) /\ missed' = missed
  <2>1. host \in Hosts /\ version[f] \in Nat
    BY <1>5 DEF Typed
  <2>2. <<host, version[f]>> \in Hosts \X Nat
    BY <2>1, Pair
  <2> QED
    BY <1>3, <1>5, <2>2
<1>6. CASE missed' = missed \cup {f} /\ files' = files
  BY <1>6 DEF Listed
<1> QED
  BY <1>4, <1>5, <1>6 DEF FromServer

LEMMA ResolveCovered ==
    ASSUME Typed, Covered, Resolve
    PROVE  Covered'
<1> DEFINE f == Head(todo)
<1>1. UNCHANGED <<pending, page, ret>> /\ pc = "resolve"
      /\ todo' = Tail(todo) /\ last' = f /\ pc' = Phase(todo')
      /\ IF f = last THEN UNCHANGED <<cache, files, missed>> ELSE FromCache(f) \/ FromServer(f)
  BY DEF Resolve
<1>2. /\ f \in Fids \cup {None} /\ f = todo[1] /\ Len(todo) \in Nat /\ Len(todo) > 0
      /\ Len(todo') = Len(todo) - 1
      /\ \A i \in 1..Len(todo) - 1 : todo'[i] = todo[i + 1]
  BY <1>1, HeadOfTodo
<1>3. files' \in Seq(Entries)
  BY ResolveTyped DEF Typed
<1> HIDE DEF f
<1>4. /\ \A g : Listed(g, files, missed) => Listed(g, files', missed')
      /\ f \in Fids => Listed(f, files', missed')
  <2>1. CASE f = last
    <3>1. files' = files /\ missed' = missed
      BY <1>1, <2>1
    <3>2. f \in Fids => Listed(f, files, missed)
      BY <1>1, <2>1 DEF Covered
    <3> QED
      BY <3>1, <3>2
  <2>2. CASE f # last
    BY <1>1, <1>3, <2>2, FoundListed
  <2> QED
    BY <2>1, <2>2
<1>5. ASSUME NEW g \in Range(Numbers[page]) \cap Fids
      PROVE  Listed(g, files', missed') \/ \E i \in 1..Len(todo') : todo'[i] = g
  <2>1. CASE Listed(g, files, missed)
    BY <1>4, <2>1
  <2>2. CASE ~Listed(g, files, missed)
    <3>1. PICK i \in 1..Len(todo) : todo[i] = g
      BY <1>1, <1>5, <2>2 DEF Covered
    <3>2. CASE i = 1
      BY <1>2, <1>4, <1>5, <3>1, <3>2
    <3>3. CASE i # 1
      <4>1. i - 1 \in 1..Len(todo) - 1 /\ (i - 1) + 1 = i
        BY <1>2, <3>3
      <4>2. i - 1 \in 1..Len(todo') /\ todo'[i - 1] = todo[i]
        BY <1>2, <4>1
      <4> QED
        BY <3>1, <4>2
    <3> QED
      BY <3>2, <3>3
  <2> QED
    BY <2>1, <2>2
<1>6. \A p \in Pages : Read(p, files, missed) => Read(p, files', missed')
  BY <1>4 DEF Read
<1>7. pc' = "resolve" \/ Read(page, files', missed')
  <2>1. CASE todo' = <<>>
    <3>1. Len(todo') = 0
      BY <2>1
    <3>2. \A g \in Range(Numbers[page]) \cap Fids : Listed(g, files', missed')
      BY <1>5, <3>1
    <3> QED
      BY <3>2 DEF Read
  <2>2. CASE todo' # <<>>
    BY <1>1, <2>2 DEF Phase
  <2> QED
    BY <2>1, <2>2
<1>8. ret' = "E_OK" =>
        \A p \in Pages : \/ Read(p, files', missed') \/ Queued(p, pending')
                         \/ pc' = "resolve" /\ p = page'
  <2>1. ret = "E_OK" => \A p \in Pages : \/ Read(p, files, missed) \/ Queued(p, pending)
                                         \/ pc = "resolve" /\ p = page
    BY DEF Covered
  <2> QED
    BY <1>1, <1>6, <1>7, <2>1
<1>9. pc' = "resolve" =>
        /\ last' \in Fids => Listed(last', files', missed')
        /\ \A g \in Range(Numbers[page']) \cap Fids :
             Listed(g, files', missed') \/ \E i \in 1..Len(todo') : todo'[i] = g
  BY <1>1, <1>4, <1>5
<1> QED
  BY <1>8, <1>9 DEF Covered

LEMMA CoveredStep ==
    ASSUME Typed, Covered, [Next]_vars
    PROVE  Covered'
<1>1. CASE UNCHANGED vars
  BY <1>1 DEF vars, crawl, Covered
<1>2. ASSUME NEW f \in Fids, Replace(f)
      PROVE  Covered'
  BY <1>2 DEF Replace, crawl, Covered
<1> QED
  BY <1>1, <1>2, BeginCovered, FetchCovered, EndCovered, ResolveCovered DEF Next, Step

\* A crawl that ends with E_OK has every file of every folder: what is in the queue
\* or in a folder that is comes to be read, although no set of visited pages is kept
\* and links upwards are turned away.  (get_file_list_from_current)
THEOREM CrawlIsComplete == Spec => []Complete
<1>1. Init => Typed /\ Covered
  BY InitTyped, InitCovered
<1>2. (Typed /\ Covered) /\ [Next]_vars => (Typed /\ Covered)'
  BY TypedStep, CoveredStep
<1>3. Typed /\ Covered => Complete
  <2> SUFFICES ASSUME Typed, Covered, pc = "idle", ret = "E_OK", NEW p \in Pages,
                      NEW f \in (Range(numbers[p]) \cap Fids) \ missed
               PROVE  \E i \in DOMAIN files : files[i].fid = f
    BY DEF Complete
  <2>1. numbers = Numbers /\ pending = <<>>
    BY DEF Typed
  <2>2. ~Queued(p, pending)
    <3>1. Len(pending) = 0
      BY <2>1
    <3> QED
      BY <3>1 DEF Queued
  <2>3. Read(p, files, missed)
    BY <2>2 DEF Covered
  <2>4. PICK i \in 1..Len(files) : files[i].fid = f
    BY <2>1, <2>3 DEF Read, Listed
  <2>5. i \in DOMAIN files
    BY DEF Typed
  <2> QED
    BY <2>4, <2>5
<1> QED
  BY <1>1, <1>2, <1>3, PTL DEF Spec
=============================================================================
