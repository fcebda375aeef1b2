--------------------------- MODULE ScoredCrawlProofs ---------------------------
(***************************************************************************)
(* For any web, caps and failures: the crawl is breadth-first, loses no    *)
(* page within its depth and no candidate of a page it reads, stays on the *)
(* sites of its seeds, and with the score cache keeps the backend from     *)
(* asking the network twice.  The walk has been everywhere nearer than the *)
(* head of its queue (NearerSeen) and nowhere farther (Breadth).           *)
(***************************************************************************)
EXTENDS ScoredCrawl, ListLemmas

(* While the crawl goes on the backend waits; what it has asked for it has *)
(* scored, and nothing that the crawl has kept.                            *)
FetchInv ==
  /\ fetches \in [Urls -> Nat]
  /\ outcome = "running" => \A u \in Urls : fetches[u] = 0
  /\ \A u \in Urls : fetches[u] # 0 =>
       fetches[u] = 1 /\ u \in good \union bad /\ u \notin htmlCache

(* No step of the crawl reaches the backend: it fetches before anything is *)
(* scored (live.py:99, :126).                                              *)
LEMMA CrawlStepKeeps ==
  ASSUME FetchInv, CrawlNext, UNCHANGED scoreVars
  PROVE  FetchInv'
<1>1. outcome = "running"
  BY DEF CrawlNext, SkipSeenPage, FetchFails, CrawlRaises, CrawlPage, Return, Take, GoesOn
<1> QED
  BY <1>1 DEF FetchInv, scoreVars

(* A score leaves a URL scored, and is preceded by a fetch only where      *)
(* neither cache has the URL (heuristic.py:73-87, :112).                   *)
LEMMA ScoreStepKeeps ==
  ASSUME FetchInv, ScoreAgain \/ ScoreStored \/ ScoreFetched \/ ScoreFails
  PROVE  FetchInv'
<1>1. outcome = "returned" /\ UNCHANGED <<outcome, htmlCache>>
  BY DEF ScoreAgain, ScoreStored, ScoreFetched, ScoreFails, Unread, Unscored, Waiting, crawlVars
<1>2. CASE ScoreAgain
  BY <1>1, <1>2 DEF ScoreAgain, FetchInv
<1>3. CASE ScoreStored
  BY <1>1, <1>3 DEF ScoreStored, Rate, FetchInv
<1>4. CASE ScoreFetched \/ ScoreFails
  <2>1. Due \notin good \union bad /\ Due \notin htmlCache
    BY <1>4 DEF ScoreFetched, ScoreFails, Unread, Unscored
  <2>2. /\ fetches' = [fetches EXCEPT ![Due] = @ + 1]
        /\ good \union bad \union {Due} \subseteq good' \union bad'
    BY <1>4 DEF ScoreFetched, ScoreFails, Rate, Ask
  <2>3. Due \in Urls => fetches[Due] = 0
    BY <2>1 DEF FetchInv
  <2>4. fetches' \in [Urls -> Nat]
    <3>1. DOMAIN fetches' = Urls /\ \A u \in Urls : fetches'[u] = fetches[u] \/ fetches'[u] = 1
      BY <2>2, <2>3 DEF FetchInv
    <3>2. fetches' = [u \in Urls |-> fetches'[u]]
      BY <2>2, <3>1 DEF FetchInv
    <3> QED
      BY <3>1, <3>2 DEF FetchInv
  <2>5. ASSUME NEW u \in Urls, fetches'[u] # 0
        PROVE  fetches'[u] = 1 /\ u \in good' \union bad' /\ u \notin htmlCache'
    <3>1. CASE u = Due
      BY <1>1, <2>1, <2>2, <2>3, <3>1 DEF FetchInv
    <3>2. CASE u # Due
      <4>1. fetches'[u] = fetches[u]
        BY <2>2, <3>2 DEF FetchInv
      <4> QED
        BY <1>1, <2>2, <2>5, <4>1 DEF FetchInv
    <3> QED
      BY <3>1, <3>2
  <2> QED
    BY <1>1, <2>4, <2>5 DEF FetchInv
<1> QED
  BY <1>2, <1>3, <1>4

(* The backend asks the network for a URL at most once, and never for a    *)
(* page that the crawler has read (crawler.py:81, heuristic.py:59).        *)
THEOREM FetchesOnce == Spec => []BackendFetchesOnce
<1>1. Init => FetchInv
  BY DEF Init, CrawlInit, FetchInv
<1>2. FetchInv /\ [Next]_vars => FetchInv'
  <2> SUFFICES ASSUME FetchInv, [Next]_vars PROVE FetchInv'
    OBVIOUS
  <2>1. CASE UNCHANGED vars
    BY <2>1 DEF vars, crawlVars, scoreVars, FetchInv
  <2> QED
    BY <2>1, CrawlStepKeeps, ScoreStepKeeps DEF Next
<1>3. FetchInv => BackendFetchesOnce
  BY DEF FetchInv, BackendFetchesOnce
<1> QED
  BY <1>1, <1>2, <1>3, PTL DEF Spec

-----------------------------------------------------------------------------
(* A candidate joins the others, or was there already (crawler.py:156-159). *)
LEMMA EmitKeeps ==
  ASSUME NEW out \in Seq(Candidate), NEW c \in Candidate
  PROVE  /\ Emit(out, c) \in Seq(Candidate)
         /\ Nominated(Emit(out, c), c.url)
         /\ \A url : Nominated(out, url) => Nominated(Emit(out, c), url)
<1>1. CASE Nominated(out, c.url)
  BY <1>1 DEF Emit, AppendIf
<1>2. CASE ~Nominated(out, c.url)
  <2> DEFINE more == Append(out, c)
  <2>1. /\ more \in Seq(Candidate) /\ Len(out) \in Nat
        /\ DOMAIN out = 1..Len(out) /\ DOMAIN more = 1..(Len(out) + 1)
        /\ \A i \in 1..Len(out) : more[i] = out[i]
        /\ more[Len(out) + 1] = c
    <3> HIDE DEF Candidate
    <3> QED
      OBVIOUS
  <2>2. Emit(out, c) = more
    BY <1>2 DEF Emit, AppendIf
  <2> HIDE DEF more
  <2>3. Len(out) + 1 \in DOMAIN more
    BY <2>1
  <2>4. Nominated(more, c.url)
    BY <2>1, <2>3 DEF Nominated
  <2>5. ASSUME NEW url, Nominated(out, url)
        PROVE  Nominated(more, url)
    <3>1. PICK i \in DOMAIN out : out[i].url = url
      BY <2>5 DEF Nominated
    <3>2. i \in DOMAIN more /\ more[i] = out[i]
      BY <2>1
    <3> QED
      BY <3>1, <3>2 DEF Nominated
  <2> QED
    BY <2>1, <2>2, <2>4, <2>5
<1> QED
  BY <1>1, <1>2

(* After all of them everything that was found has been nominated.         *)
LEMMA EmitAllKeeps ==
  ASSUME NEW out \in Seq(Candidate), NEW finds \in Seq(Candidate)
  PROVE  /\ EmitAll(out, finds) \in Seq(Candidate)
         /\ \A url : Nominated(out, url) => Nominated(EmitAll(out, finds), url)
         /\ \A i \in DOMAIN finds : Nominated(EmitAll(out, finds), finds[i].url)
<1> DEFINE n == Len(finds)
           Q == Seq(Candidate)
           Add(c, k) == Emit(c, finds[k])
           step == [k \in 1..n |-> [c \in Q |-> Add(c, k)]]
           Body(f) == [k \in 0..n |-> IF k = 0 THEN out ELSE Add(f[k - 1], k)]
           g == CHOOSE f : f = Body(f)
<1>1. n \in Nat /\ DOMAIN finds = 1..n /\ \A k \in 1..n : finds[k] \in Candidate
  <2> HIDE DEF Candidate
  <2> QED
    OBVIOUS
<1>2. out \in Q
  OBVIOUS
<1>3. ASSUME NEW c \in Q, NEW k \in 1..n PROVE Add(c, k) \in Q
  BY <1>1, EmitKeeps
<1>4. EmitAll(out, finds) = g[n]
  BY DEF EmitAll
<1>5. ASSUME NEW c \in Q, NEW k \in 1..n
      PROVE  /\ Nominated(Add(c, k), finds[k].url)
             /\ \A url : Nominated(c, url) => Nominated(Add(c, k), url)
  BY <1>1, EmitKeeps
<1> HIDE DEF n, Q, Add
<1>6. step \in StepFunctions(n, Q)
  BY <1>3 DEF StepFunctions
<1>7. PICK f \in [0..n -> Q] : Iterates(f, n, out, step)
  <2> HIDE DEF step
  <2> QED
    BY <1>1, <1>2, <1>6, RecursionExists
<1>8. f[0] = out /\ \A k \in 1..n : f[k] = Add(f[k - 1], k)
  <2>1. \A k \in 1..n : f[k - 1] \in Q
    BY <1>1
  <2> QED
    BY <1>7, <2>1 DEF Iterates
<1>9. f = Body(f)
  BY <1>1, <1>8
<1>10. g = Body(g)
  BY <1>9
<1> HIDE DEF g
<1>11. g[0] = out /\ \A k \in 1..n : g[k] = Add(g[k - 1], k)
  BY <1>1, <1>10
<1>12. \A k \in 0..n : g[k] \in Q
  BY <1>1, <1>2, <1>3, <1>11, RecursionKeeps
<1> DEFINE T == {k \in 0..n : /\ \A url : Nominated(out, url) => Nominated(g[k], url)
                              /\ \A i \in 1..k : Nominated(g[k], finds[i].url)}
<1>13. 0 \in T
  BY <1>1, <1>11
<1>14. ASSUME NEW k \in 0..(n - 1), k \in T PROVE k + 1 \in T
  <2>1. k + 1 \in 1..n /\ k + 1 \in 0..n /\ (k + 1) - 1 = k /\ g[k] \in Q
    BY <1>1, <1>12
  <2>2. g[k + 1] = Add(g[k], k + 1)
    BY <1>11, <2>1
  <2>3. /\ Nominated(g[k + 1], finds[k + 1].url)
        /\ \A url : Nominated(g[k], url) => Nominated(g[k + 1], url)
    BY <1>5, <2>1, <2>2
  <2>4. \A i \in 1..(k + 1) : i \in 1..k \/ i = k + 1
    OBVIOUS
  <2> QED
    BY <1>14, <2>1, <2>3, <2>4
<1>15. 0..n \subseteq T
  <2> HIDE DEF T
  <2> QED
    BY <1>1, <1>13, <1>14, BoundedInduction
<1>16. n \in T /\ g[n] \in Q
  BY <1>1, <1>12, <1>15
<1> QED
  BY <1>1, <1>4, <1>16 DEF Q

-----------------------------------------------------------------------------
(* One link more.                                                          *)
Further(links, S, pages) == pages \union UNION {links[u] : u \in pages \cap S}

LinkMaps == [Urls -> SUBSET Urls]

(* The function that Within goes by exists and unfolds.                    *)
LEMMA WithinUnfolds ==
  ASSUME NEW links \in LinkMaps, NEW S
  PROVE  /\ Within(links, S)[0] = ToSet(Seeds)
         /\ \A k \in 1..MaxDepth :
              Within(links, S)[k] = Further(links, S, Within(links, S)[k - 1])
         /\ \A k \in 0..MaxDepth : Within(links, S)[k] \subseteq Urls
<1> DEFINE n == MaxDepth
           Q == SUBSET Urls
           base == ToSet(Seeds)
           Add(c, k) == c \union UNION {links[u] : u \in c \cap S}
           step == [k \in 1..n |-> [c \in Q |-> Add(c, k)]]
           Body(f) == [k \in 0..n |-> IF k = 0 THEN base ELSE Add(f[k - 1], k)]
           g == CHOOSE f : f = Body(f)
<1>1. n \in Nat
  BY CrawlerAssumption DEF CrawlerAssumption
<1>2. base \in Q
  BY CrawlerAssumption, ToSetOfSeq DEF CrawlerAssumption
<1>3. ASSUME NEW c \in Q, NEW k \in 1..n PROVE Add(c, k) \in Q
  BY DEF LinkMaps
<1>4. Within(links, S) = g
  BY DEF Within
<1> HIDE DEF n, Q, Add, base
<1>5. step \in StepFunctions(n, Q)
  BY <1>3 DEF StepFunctions
<1>6. PICK f \in [0..n -> Q] : Iterates(f, n, base, step)
  <2> HIDE DEF step
  <2> QED
    BY <1>1, <1>2, <1>5, RecursionExists
<1>7. f[0] = base /\ \A k \in 1..n : f[k] = Add(f[k - 1], k)
  <2>1. \A k \in 1..n : f[k - 1] \in Q
    BY <1>1
  <2> QED
    BY <1>6, <2>1 DEF Iterates
<1>8. f = Body(f)
  BY <1>1, <1>7
<1>9. g = Body(g)
  BY <1>8
<1> HIDE DEF g
<1>10. g[0] = base /\ \A k \in 1..n : g[k] = Add(g[k - 1], k)
  BY <1>1, <1>9
<1>11. \A k \in 0..n : g[k] \in Q
  BY <1>1, <1>2, <1>3, <1>10, RecursionKeeps
<1> QED
  BY <1>1, <1>4, <1>10, <1>11 DEF n, Q, Add, base, Further

(* What is near is near for anyone who may go farther.                     *)
LEMMA WithinGrows ==
  ASSUME NEW links \in LinkMaps, NEW S, NEW k \in 0..MaxDepth, NEW j \in 0..MaxDepth, k <= j
  PROVE  Within(links, S)[k] \subseteq Within(links, S)[j]
<1> DEFINE w == Within(links, S)
           T == {i \in 0..(MaxDepth - k) : w[k] \subseteq w[k + i]}
<1>1. MaxDepth \in Nat /\ \A i \in 1..MaxDepth : w[i] = Further(links, S, w[i - 1])
  BY WithinUnfolds, CrawlerAssumption DEF CrawlerAssumption
<1> HIDE DEF w
<1>2. 0 \in T
  BY <1>1
<1>3. ASSUME NEW i \in 0..(MaxDepth - k - 1), i \in T PROVE i + 1 \in T
  <2>1. k + i + 1 \in 1..MaxDepth /\ (k + i + 1) - 1 = k + i /\ i + 1 \in 0..(MaxDepth - k)
        /\ k + (i + 1) = k + i + 1
    BY <1>1
  <2>2. w[k + i + 1] = Further(links, S, w[k + i])
    BY <1>1, <2>1
  <2>3. w[k] \subseteq w[k + i + 1]
    BY <1>3, <2>2 DEF Further
  <2> QED
    BY <2>1, <2>3
<1>4. 0..(MaxDepth - k) \subseteq T
  <2> HIDE DEF T
  <2>1. MaxDepth - k \in Nat /\ (MaxDepth - k) - 1 = MaxDepth - k - 1
    BY <1>1
  <2> QED
    BY <1>2, <1>3, <2>1, BoundedInduction
<1>5. j - k \in T /\ k + (j - k) = j
  BY <1>1, <1>4
<1> QED
  BY <1>5 DEF w

(* More pages to go through, more pages that are near.                     *)
LEMMA WithinMonotone ==
  ASSUME NEW links \in LinkMaps, NEW S, NEW R, S \cap Urls \subseteq R
  PROVE  \A k \in 0..MaxDepth : Within(links, S)[k] \subseteq Within(links, R)[k]
<1> DEFINE v == Within(links, S)
           w == Within(links, R)
           T == {k \in 0..MaxDepth : v[k] \subseteq w[k]}
<1>1. /\ MaxDepth \in Nat /\ v[0] = w[0]
      /\ \A i \in 1..MaxDepth : v[i] = Further(links, S, v[i - 1]) /\ w[i] = Further(links, R, w[i - 1])
      /\ \A i \in 0..MaxDepth : v[i] \subseteq Urls
  BY WithinUnfolds, CrawlerAssumption DEF CrawlerAssumption
<1> HIDE DEF v, w
<1>2. 0 \in T
  BY <1>1
<1>3. ASSUME NEW k \in 0..(MaxDepth - 1), k \in T PROVE k + 1 \in T
  <2>1. k + 1 \in 1..MaxDepth /\ (k + 1) - 1 = k /\ k \in 0..MaxDepth
    BY <1>1
  <2>2. v[k + 1] = Further(links, S, v[k]) /\ w[k + 1] = Further(links, R, w[k]) /\ v[k] \subseteq Urls
    BY <1>1, <2>1
  <2> QED
    BY <1>3, <2>1, <2>2 DEF Further
<1>4. 0..MaxDepth \subseteq T
  <2> HIDE DEF T
  <2> QED
    BY <1>1, <1>2, <1>3, BoundedInduction
<1> QED
  BY <1>4 DEF v, w

-----------------------------------------------------------------------------
(* What a page says of other pages.                                        *)
LEMMA PageTypes ==
  ASSUME CrawlTypeOK, NEW page \in Urls
  PROVE  /\ Internal(page) \in Seq(Urls)
         /\ \A l \in ToSet(Internal(page)) : l \in Urls /\ IsInternal(page, l)
         /\ Finds(page) \in Seq(Candidate)
<1> DEFINE inside == {l \in Urls : IsInternal(page, l)}
           outside == {e \in Urls : IsEmbed(page, e)}
           As(kind, urls) == [i \in DOMAIN urls |-> [url |-> urls[i], kind |-> kind]]
<1>1. /\ web[page].manifests \in Seq(Urls) /\ web[page].iframes \in Seq(Urls)
      /\ web[page].hrefs \in Seq(Urls)
  BY CrawlerAssumption DEF CrawlTypeOK, CrawlerAssumption, Page
<1>2. Internal(page) \in Seq(Urls \cap inside) /\ ToSet(Internal(page)) \subseteq inside
  <2>1. Internal(page) = Kept(web[page].hrefs, inside)
    BY DEF Internal
  <2> HIDE DEF inside
  <2> QED
    BY <1>1, <2>1, KeptIsThose
<1>3. Internal(page) \in Seq(Urls)
  <2> HIDE DEF inside
  <2> QED
    BY <1>2, SeqMonotonic
<1>4. Kept(web[page].iframes, outside) \in Seq(Urls)
  <2> HIDE DEF outside
  <2>1. Kept(web[page].iframes, outside) \in Seq(Urls \cap outside)
    BY <1>1, KeptIsThose
  <2> QED
    BY <2>1, SeqMonotonic
<1>5. Kept(Internal(page), EventLike) \in Seq(Urls)
  <2>1. Kept(Internal(page), EventLike) \in Seq(Urls \cap EventLike)
    BY <1>3, KeptIsThose
  <2> QED
    BY <2>1, SeqMonotonic
<1>6. ASSUME NEW kind \in {"manifest", "embed", "event_page"}, NEW urls \in Seq(Urls)
      PROVE  As(kind, urls) \in Seq(Candidate)
  <2>1. \A i \in DOMAIN urls : [url |-> urls[i], kind |-> kind] \in Candidate
    BY DEF Candidate
  <2> QED
    BY <2>1
<1>7. Finds(page) = As("manifest", web[page].manifests)
                    \o As("embed", Kept(web[page].iframes, outside))
                    \o As("event_page", Kept(Internal(page), EventLike))
  BY DEF Finds
<1>8. Finds(page) \in Seq(Candidate)
  <2> HIDE DEF As, outside
  <2>1. /\ As("manifest", web[page].manifests) \in Seq(Candidate)
        /\ As("embed", Kept(web[page].iframes, outside)) \in Seq(Candidate)
        /\ As("event_page", Kept(Internal(page), EventLike)) \in Seq(Candidate)
    BY <1>1, <1>4, <1>5, <1>6
  <2> QED
    BY <1>7, <2>1, ConcatProperties
<1> QED
  BY <1>2, <1>3, <1>8

(* The links of the web chosen lead to its pages.                          *)
LEMMA LinkedType == CrawlTypeOK => Linked \in LinkMaps
<1> SUFFICES ASSUME CrawlTypeOK, NEW u \in Urls PROVE ToSet(Internal(u)) \subseteq Urls
  BY DEF Linked, LinkMaps
<1> QED
  BY PageTypes

(* The links that a page adds to the queue (crawler.py:150).               *)
LEMMA FollowIs ==
  ASSUME CrawlTypeOK, NEW entry \in Entry, NEW seen
  PROVE  /\ Follow(entry, seen) \in Seq(Entry)
         /\ \A x \in ToSet(Follow(entry, seen)) :
              x.depth = entry.depth + 1 /\ x.url \in Linked[entry.url]
         /\ entry.depth < MaxDepth =>
              Linked[entry.url] \subseteq seen \union {x.url : x \in ToSet(Follow(entry, seen))}
<1> DEFINE new == Kept(Internal(entry.url), Urls \ seen)
           follow == [i \in DOMAIN new |-> [url |-> new[i], depth |-> entry.depth + 1]]
<1>1. entry.url \in Urls /\ entry.depth \in 0..MaxDepth /\ MaxDepth \in Nat
  BY CrawlerAssumption DEF Entry, CrawlerAssumption
<1>2. Linked[entry.url] = ToSet(Internal(entry.url)) /\ Internal(entry.url) \in Seq(Urls)
  BY <1>1, PageTypes DEF Linked
<1>3. /\ new \in Seq(Urls \cap (Urls \ seen))
      /\ ToSet(new) = Linked[entry.url] \cap (Urls \ seen)
  BY <1>2, KeptIsThose
<1>4. new \in Seq(Urls) /\ Linked[entry.url] \subseteq Urls
  <2>1. Linked[entry.url] \subseteq Urls
    BY <1>1, LinkedType DEF LinkMaps
  <2> HIDE DEF new
  <2> QED
    BY <1>3, <2>1, SeqMonotonic
<1>5. Follow(entry, seen) = IF entry.depth < MaxDepth THEN follow ELSE <<>>
  BY DEF Follow
<1> HIDE DEF new
<1>6. entry.depth < MaxDepth => follow \in Seq(Entry)
  <2>1. \A i \in DOMAIN new : new[i] \in Urls
    BY <1>4
  <2>2. entry.depth < MaxDepth => entry.depth + 1 \in 0..MaxDepth
    BY <1>1
  <2>3. ASSUME entry.depth < MaxDepth, NEW i \in DOMAIN new
        PROVE  [url |-> new[i], depth |-> entry.depth + 1] \in Entry
    BY <2>1, <2>2, <2>3 DEF Entry
  <2> HIDE DEF Entry
  <2> QED
    BY <1>4, <2>3
<1>7. DOMAIN follow = DOMAIN new /\ \A i \in DOMAIN new : follow[i].url = new[i] /\ follow[i].depth = entry.depth + 1
  OBVIOUS
<1> HIDE DEF follow
<1>8. CASE entry.depth < MaxDepth
  <2>1. Follow(entry, seen) = follow /\ follow \in Seq(Entry)
    BY <1>5, <1>6, <1>8
  <2>2. \A x \in ToSet(follow) : x.depth = entry.depth + 1 /\ x.url \in ToSet(new)
    BY <1>7 DEF ToSet
  <2>3. ASSUME NEW l \in ToSet(new)
        PROVE  \E x \in ToSet(follow) : l = x.url
    <3>1. PICK i \in DOMAIN new : l = new[i]
      BY DEF ToSet
    <3> QED
      BY <1>7, <3>1 DEF ToSet
  <2> QED
    BY <1>3, <1>4, <2>1, <2>2, <2>3
<1>9. CASE ~(entry.depth < MaxDepth)
  <2>1. Follow(entry, seen) = <<>>
    BY <1>5, <1>9
  <2> QED
    BY <1>9, <2>1 DEF ToSet
<1> QED
  BY <1>8, <1>9

-----------------------------------------------------------------------------
(* The queue has no more than two depths, the smaller first.               *)
Sorted(q) ==
  \A i, j \in DOMAIN q : i <= j => q[i].depth <= q[j].depth /\ q[j].depth <= q[i].depth + 1

Queued(q, k) == {x.url : x \in {y \in ToSet(q) : y.depth <= k}}

(* The head of the queue and the rest.                                     *)
LEMMA QueueParts ==
  ASSUME NEW q \in Seq(Entry), q # <<>>
  PROVE  /\ Head(q) \in Entry /\ Tail(q) \in Seq(Entry)
         /\ ToSet(q) = {Head(q)} \union ToSet(Tail(q))
         /\ Len(q) \in Nat /\ Len(Tail(q)) = Len(q) - 1
         /\ DOMAIN Tail(q) = 1..(Len(q) - 1) /\ DOMAIN q = 1..Len(q)
         /\ \A i \in DOMAIN Tail(q) : Tail(q)[i] = q[i + 1]
         /\ Head(q) = q[1] /\ 1 \in DOMAIN q
<1> HIDE DEF Entry
<1> DEFINE rest == Tail(q)
<1>1. /\ Head(q) \in Entry /\ rest \in Seq(Entry)
      /\ Len(q) \in Nat /\ Len(q) > 0 /\ Len(rest) = Len(q) - 1
      /\ DOMAIN rest = 1..(Len(q) - 1) /\ DOMAIN q = 1..Len(q)
      /\ \A i \in 1..(Len(q) - 1) : rest[i] = q[i + 1]
      /\ Head(q) = q[1]
  OBVIOUS
<1> HIDE DEF rest
<1>2. \A i \in DOMAIN q : i = 1 \/ (i - 1 \in DOMAIN rest /\ q[i] = rest[i - 1])
  BY <1>1
<1>3. ToSet(q) \subseteq {Head(q)} \union ToSet(rest)
  BY <1>1, <1>2 DEF ToSet
<1>4. {Head(q)} \union ToSet(rest) \subseteq ToSet(q)
  <2>1. \A i \in DOMAIN rest : i + 1 \in DOMAIN q
    BY <1>1
  <2> QED
    BY <1>1, <2>1 DEF ToSet
<1> QED
  BY <1>1, <1>3, <1>4 DEF rest

(* The queue stays in order when links one level deeper come last.         *)
LEMMA QueueStaysSorted ==
  ASSUME NEW q \in Seq(Entry), q # <<>>, Sorted(q), NEW new \in Seq(Entry),
         \A x \in ToSet(new) : x.depth = Head(q).depth + 1
  PROVE  /\ Sorted(Tail(q) \o new)
         /\ \A x \in ToSet(q) : x.depth >= Head(q).depth
<1> DEFINE rest == Tail(q)
           d == Head(q).depth
           both == rest \o new
<1>1. /\ rest \in Seq(Entry) /\ Len(q) \in Nat /\ Len(rest) = Len(q) - 1
      /\ DOMAIN rest = 1..(Len(q) - 1) /\ DOMAIN q = 1..Len(q)
      /\ \A i \in DOMAIN rest : rest[i] = q[i + 1]
      /\ d = q[1].depth /\ 1 \in DOMAIN q
  BY QueueParts
<1>2. \A i \in DOMAIN q : q[i].depth \in Nat
  <2>1. \A i \in DOMAIN q : q[i] \in Entry
    <3> HIDE DEF Entry
    <3> QED
      BY <1>1
  <2> QED
    BY <2>1, CrawlerAssumption DEF Entry, CrawlerAssumption
<1>3. \A i \in DOMAIN q : d <= q[i].depth /\ q[i].depth <= d + 1
  BY <1>1 DEF Sorted
<1>4. \A x \in ToSet(q) : x.depth >= d
  BY <1>1, <1>2, <1>3 DEF ToSet
<1>5. /\ Len(new) \in Nat /\ DOMAIN new = 1..Len(new)
      /\ DOMAIN both = 1..(Len(q) - 1 + Len(new))
      /\ \A i \in 1..(Len(q) - 1) : both[i] = rest[i]
      /\ \A i \in 1..Len(new) : both[Len(q) - 1 + i] = new[i]
  <2> HIDE DEF Entry, rest
  <2>1. Len(new) \in Nat /\ DOMAIN new = 1..Len(new)
    OBVIOUS
  <2>2. /\ Len(both) = Len(rest) + Len(new)
        /\ \A i \in 1..(Len(rest) + Len(new)) :
             both[i] = IF i <= Len(rest) THEN rest[i] ELSE new[i - Len(rest)]
    BY <1>1, ConcatProperties
  <2>3. both \in Seq(Entry)
    BY <1>1, ConcatProperties
  <2> HIDE DEF both
  <2>4. DOMAIN both = 1..Len(both)
    BY <2>3
  <2>5. \A i \in 1..(Len(q) - 1) : i \in 1..(Len(rest) + Len(new)) /\ i <= Len(rest)
    BY <1>1, <2>1
  <2>6. ASSUME NEW i \in 1..Len(new)
        PROVE  both[Len(q) - 1 + i] = new[i]
    <3>1. /\ Len(q) - 1 + i \in 1..(Len(rest) + Len(new))
          /\ ~(Len(q) - 1 + i <= Len(rest))
          /\ (Len(q) - 1 + i) - Len(rest) = i
      BY <1>1, <2>1
    <3> QED
      BY <2>2, <3>1
  <2> QED
    BY <1>1, <2>1, <2>2, <2>4, <2>5, <2>6
<1>6. \A i \in DOMAIN new : new[i].depth = d + 1
  BY DEF ToSet
<1> HIDE DEF both, rest
<1>7. ASSUME NEW i \in DOMAIN both
      PROVE  \/ i \in 1..(Len(q) - 1) /\ i + 1 \in DOMAIN q /\ both[i] = q[i + 1]
             \/ i > Len(q) - 1 /\ both[i].depth = d + 1
  <2>1. CASE i \in 1..(Len(q) - 1)
    BY <1>1, <1>5, <2>1
  <2>2. CASE i > Len(q) - 1
    <3>1. i - (Len(q) - 1) \in DOMAIN new /\ i = Len(q) - 1 + (i - (Len(q) - 1))
      BY <1>1, <1>5, <2>2
    <3>2. both[i] = new[i - (Len(q) - 1)]
      BY <1>5, <3>1
    <3> QED
      BY <1>6, <2>2, <3>1, <3>2
  <2> QED
    BY <1>1, <1>5, <2>1, <2>2
<1>8. ASSUME NEW i \in DOMAIN both, NEW j \in DOMAIN both, i <= j
      PROVE  both[i].depth <= both[j].depth /\ both[j].depth <= both[i].depth + 1
  <2>1. i \in Int /\ j \in Int
    BY <1>1, <1>5
  <2>4. d \in Nat
    BY <1>1, <1>2
  <2>2. CASE j \in 1..(Len(q) - 1) /\ j + 1 \in DOMAIN q /\ both[j] = q[j + 1]
    <3>1. i \in 1..(Len(q) - 1) /\ i + 1 \in DOMAIN q /\ both[i] = q[i + 1] /\ i + 1 <= j + 1
      BY <1>1, <1>7, <1>8, <2>1, <2>2
    <3> QED
      BY <2>2, <3>1 DEF Sorted
  <2>3. CASE both[j].depth = d + 1
    <3>1. d <= both[i].depth /\ both[i].depth <= d + 1 /\ both[i].depth \in Nat
      BY <1>2, <1>3, <1>7, <2>4
    <3> QED
      BY <2>3, <2>4, <3>1
  <2> QED
    BY <1>7, <2>2, <2>3
<1> QED
  BY <1>4, <1>8 DEF Sorted, both, rest

-----------------------------------------------------------------------------
(* Before the backend scores anything it has added nothing to the store.   *)
Types == TypeOK /\ (outcome = "running" => added = {})

(* The seeds are queued at depth 0 (crawler.py:102).                       *)
LEMMA TypesInit == Init => Types
<1> SUFFICES ASSUME Init PROVE Types
  OBVIOUS
<1>1. MaxPages \in Nat /\ MaxDepth \in Nat /\ Limit \in Nat
  BY CrawlerAssumption, ScoredCrawlAssumption DEF CrawlerAssumption, ScoredCrawlAssumption
<1>2. frontier \in Seq(Entry)
  <2>1. Seeds \in Seq(Urls)
    BY CrawlerAssumption DEF CrawlerAssumption
  <2>2. \A i \in DOMAIN Seeds : [url |-> Seeds[i], depth |-> 0] \in Entry
    BY <1>1, <2>1 DEF Entry
  <2> HIDE DEF Entry
  <2> QED
    BY <2>1, <2>2 DEF Init, CrawlInit
<1>3. emitted \in Seq(Candidate)
  BY DEF Init, CrawlInit
<1> QED
  BY <1>1, <1>2, <1>3 DEF Init, CrawlInit, Types, TypeOK, CrawlTypeOK

(* A step of the crawl keeps its types: links are queued one level deeper  *)
(* than the page and no deeper than max_depth (crawler.py:106-150).        *)
LEMMA CrawlTypesStep ==
  ASSUME CrawlTypeOK, CrawlNext
  PROVE  CrawlTypeOK'
<1>1. MaxPages \in Nat
  BY CrawlerAssumption DEF CrawlerAssumption
<1>2. ASSUME GoesOn
      PROVE  Head(frontier) \in Entry /\ Tail(frontier) \in Seq(Entry) /\ Head(frontier).url \in Urls
  <2>1. Head(frontier) \in Entry /\ Tail(frontier) \in Seq(Entry)
    BY <1>2, QueueParts DEF GoesOn, CrawlTypeOK
  <2> QED
    BY <2>1 DEF Entry
<1>3. ASSUME Take
      PROVE  /\ seenPages' \subseteq Urls /\ pagesFetched' \in 0..MaxPages
             /\ seenPages \union {Head(frontier).url} \subseteq seenPages'
  BY <1>1, <1>2, <1>3 DEF Take, GoesOn, CrawlTypeOK
<1>4. CASE SkipSeenPage
  BY <1>2, <1>4 DEF SkipSeenPage, CrawlTypeOK
<1>5. CASE FetchFails
  BY <1>2, <1>3, <1>5 DEF FetchFails, Take, CrawlTypeOK
<1>6. CASE CrawlRaises
  BY <1>2, <1>3, <1>6 DEF CrawlRaises, Take, CrawlTypeOK
<1>7. CASE CrawlPage
  <2>1. emitted' \in Seq(Candidate)
    <3>1. Finds(Head(frontier).url) \in Seq(Candidate)
      BY <1>2, <1>7, PageTypes DEF CrawlPage, Take
    <3> QED
      BY <1>7, <3>1, EmitAllKeeps DEF CrawlPage, CrawlTypeOK
  <2>2. frontier' \in Seq(Entry)
    <3>1. Follow(Head(frontier), seenPages') \in Seq(Entry)
      BY <1>2, <1>7, FollowIs DEF CrawlPage, Take
    <3>2. Tail(frontier) \in Seq(Entry)
      BY <1>2, <1>7 DEF CrawlPage, Take
    <3> QED
      BY <1>7, <3>1, <3>2, ConcatProperties DEF CrawlPage, Enqueue
  <2> QED
    BY <1>2, <1>3, <1>7, <2>1, <2>2 DEF CrawlPage, Take, CrawlTypeOK
<1>8. CASE Return
  BY <1>8 DEF Return, CrawlTypeOK
<1> QED
  BY <1>4, <1>5, <1>6, <1>7, <1>8 DEF CrawlNext

(* What is to be scored next is a URL, within the limit (live.py:104).     *)
LEMMA DueIsUrl ==
  ASSUME CrawlTypeOK, scored \in Nat, Waiting
  PROVE  Due \in Urls /\ scored + 1 \in 0..Limit
<1> DEFINE nominated == [i \in DOMAIN emitted |-> emitted[i].url]
           all == Given \o nominated
           n == IF Len(all) <= Limit THEN Len(all) ELSE Limit
<1>1. Limit \in Nat /\ Given \in Seq(Urls)
  BY ScoredCrawlAssumption DEF ScoredCrawlAssumption
<1>2. nominated \in Seq(Urls)
  <2>1. emitted \in Seq(Candidate)
    BY DEF CrawlTypeOK
  <2>2. \A i \in DOMAIN emitted : emitted[i] \in Candidate
    <3> HIDE DEF Candidate
    <3> QED
      BY <2>1
  <2>3. \A i \in DOMAIN emitted : emitted[i].url \in Urls
    BY <2>2 DEF Candidate
  <2> HIDE DEF Candidate
  <2> QED
    BY <2>1, <2>3
<1>3. all \in Seq(Urls)
  <2> HIDE DEF nominated
  <2> QED
    BY <1>1, <1>2
<1>4. Observations = SubSeq(all, 1, n)
  BY DEF Observations
<1> HIDE DEF all
<1>5. n \in 0..Len(all) /\ n <= Limit
  BY <1>1, <1>3
<1> HIDE DEF n
<1>6. /\ Len(Observations) = n
      /\ \A i \in 1..n : Observations[i] = all[i] /\ all[i] \in Urls
  BY <1>3, <1>4, <1>5
<1> QED
  BY <1>1, <1>5, <1>6 DEF Waiting, Due

(* A URL gets one of two scores once (heuristic.py:73-87).                 *)
LEMMA ScoreTypesStep ==
  ASSUME Types, FetchInv', ScoreAgain \/ ScoreStored \/ ScoreFetched \/ ScoreFails
  PROVE  Types'
<1>1. /\ outcome = "returned" /\ UNCHANGED crawlVars /\ Waiting
      /\ \E hits : Judge(hits)
  BY DEF ScoreAgain, ScoreStored, ScoreFetched, ScoreFails, Unread, Unscored, Waiting, Rate
<1>2. CrawlTypeOK'
  BY <1>1 DEF Types, TypeOK, CrawlTypeOK, crawlVars
<1>3. Due \in Urls /\ scored + 1 \in 0..Limit /\ scored \in Nat
  <2>1. scored \in Nat
    BY ScoredCrawlAssumption DEF Types, TypeOK, ScoredCrawlAssumption
  <2> QED
    BY <1>1, <2>1, DueIsUrl DEF Types, TypeOK
<1>4. scored' \in 0..Limit /\ matched' \subseteq 1..scored'
  BY <1>1, <1>3 DEF Judge, Types, TypeOK
<1> HIDE DEF Due
<1>5. /\ good' \subseteq Urls /\ bad' \subseteq Urls /\ good' \cap bad' = {}
      /\ added' \subseteq Urls \ htmlCache'
  <2>1. CASE ScoreAgain
    BY <1>1, <2>1 DEF ScoreAgain, Types, TypeOK, crawlVars
  <2>2. CASE ScoreStored
    BY <1>1, <1>3, <2>2 DEF ScoreStored, Rate, Unscored, Types, TypeOK, crawlVars
  <2>3. CASE ScoreFetched
    BY <1>1, <1>3, <2>3 DEF ScoreFetched, Rate, Unread, Unscored, Types, TypeOK, crawlVars
  <2>4. CASE ScoreFails
    BY <1>1, <1>3, <2>4 DEF ScoreFails, Unread, Unscored, Types, TypeOK, crawlVars
  <2> QED
    BY <2>1, <2>2, <2>3, <2>4
<1> QED
  BY <1>1, <1>2, <1>4, <1>5 DEF Types, TypeOK, FetchInv, crawlVars

(* A step of either keeps the types of both.                               *)
LEMMA TypesStep ==
  ASSUME Types, FetchInv', [Next]_vars
  PROVE  Types'
<1>1. CASE CrawlNext /\ UNCHANGED scoreVars
  <2>1. outcome = "running"
    BY <1>1 DEF CrawlNext, SkipSeenPage, FetchFails, CrawlRaises, CrawlPage, Return, Take, GoesOn
  <2> QED
    BY <1>1, <2>1, CrawlTypesStep DEF Types, TypeOK, scoreVars
<1>2. CASE UNCHANGED vars
  BY <1>2 DEF Types, TypeOK, CrawlTypeOK, vars, crawlVars, scoreVars
<1> QED
  BY <1>1, <1>2, ScoreTypesStep DEF Next

-----------------------------------------------------------------------------
(* The step of the crawl that takes the head off the queue, and adds new   *)
(* to it if the head is a page that is read (crawler.py:106-150).          *)
Advance(new) ==
  /\ frontier # <<>>
  /\ web' = web /\ outcome = "running"
  /\ new \in Seq(Entry)
  /\ frontier' = Tail(frontier) \o new
  /\ seenPages' = seenPages \union {Head(frontier).url}
  /\ htmlCache' \in {htmlCache, htmlCache \union {Head(frontier).url}}
  /\ \A x \in ToSet(new) : /\ x.depth = Head(frontier).depth + 1
                           /\ x.url \in Linked[Head(frontier).url]
                           /\ Head(frontier).url \in htmlCache'
  /\ Head(frontier).url \in htmlCache' \ htmlCache =>
       /\ Head(frontier).url \notin seenPages
       /\ Head(frontier).depth < MaxDepth /\ outcome' # "raised" =>
            Linked[Head(frontier).url] \subseteq seenPages' \union {x.url : x \in ToSet(new)}

(* Every step of the loop but the last is one.                             *)
LEMMA LoopAdvances ==
  ASSUME CrawlTypeOK, CrawlNext, ~Return
  PROVE  \E new : Advance(new)
<1>1. /\ frontier # <<>> /\ outcome = "running" /\ web' = web
      /\ Head(frontier) \in Entry /\ Tail(frontier) \in Seq(Entry)
  <2>1. frontier # <<>> /\ outcome = "running" /\ web' = web
    BY DEF CrawlNext, SkipSeenPage, FetchFails, CrawlRaises, CrawlPage, Take, GoesOn
  <2> QED
    BY <2>1, QueueParts DEF CrawlTypeOK
<1>2. <<>> \in Seq(Entry) /\ Tail(frontier) \o <<>> = Tail(frontier) /\ ToSet(<<>>) = {}
  <2>1. <<>> \in Seq(Entry) /\ ToSet(<<>>) = {}
    BY DEF ToSet
  <2> QED
    BY <1>1, <2>1, ConcatEmptySeq
<1>3. htmlCache \subseteq seenPages
  BY DEF CrawlTypeOK
<1>4. CASE SkipSeenPage
  <2>1. Advance(<<>>)
    BY <1>1, <1>2, <1>4 DEF Advance, SkipSeenPage
  <2> QED
    BY <2>1
<1>5. CASE FetchFails
  <2>1. Advance(<<>>)
    BY <1>1, <1>2, <1>5 DEF Advance, FetchFails, Take
  <2> QED
    BY <2>1
<1>6. CASE CrawlRaises
  <2>1. Advance(<<>>)
    BY <1>1, <1>2, <1>3, <1>6 DEF Advance, CrawlRaises, Take
  <2> QED
    BY <2>1
<1>7. CASE CrawlPage
  <2> DEFINE new == Follow(Head(frontier), seenPages')
  <2>1. /\ new \in Seq(Entry)
        /\ \A x \in ToSet(new) : /\ x.depth = Head(frontier).depth + 1
                                 /\ x.url \in Linked[Head(frontier).url]
        /\ Head(frontier).depth < MaxDepth =>
             Linked[Head(frontier).url] \subseteq seenPages' \union {x.url : x \in ToSet(new)}
    BY <1>1, FollowIs
  <2>2. frontier' = Tail(frontier) \o new
    BY <1>7 DEF CrawlPage, Enqueue
  <2> HIDE DEF new
  <2>3. Advance(new)
    BY <1>1, <1>3, <1>7, <2>1, <2>2 DEF Advance, CrawlPage, Take
  <2> QED
    BY <2>3
<1> QED
  BY <1>4, <1>5, <1>6, <1>7 DEF CrawlNext

(* What the queue holds after such a step.                                 *)
LEMMA AdvancedQueue ==
  ASSUME CrawlTypeOK, NEW new, Advance(new)
  PROVE  /\ ToSet(frontier) = {Head(frontier)} \union ToSet(Tail(frontier))
         /\ ToSet(frontier') = ToSet(Tail(frontier)) \union ToSet(new)
         /\ Head(frontier) \in Entry
         /\ \A k : Queued(frontier, k) \subseteq {Head(frontier).url} \union Queued(frontier', k)
<1>1. /\ frontier \in Seq(Entry) /\ frontier # <<>> /\ new \in Seq(Entry)
      /\ frontier' = Tail(frontier) \o new
  BY DEF CrawlTypeOK, Advance
<1>2. /\ Head(frontier) \in Entry /\ Tail(frontier) \in Seq(Entry)
      /\ ToSet(frontier) = {Head(frontier)} \union ToSet(Tail(frontier))
  BY <1>1, QueueParts
<1>3. ToSet(frontier') = ToSet(Tail(frontier)) \union ToSet(new)
  <2>1. \A a, b \in Seq(Entry) : ToSet(a \o b) = ToSet(a) \union ToSet(b)
    BY ToSetConcat
  <2> QED
    BY <1>1, <1>2, <2>1
<1> QED
  BY <1>2, <1>3 DEF Queued

-----------------------------------------------------------------------------
(* The sites of what is queued and of what was visited.                    *)
OnSites == /\ \A x \in ToSet(frontier) : SiteOf[x.url] \in SeedSites
           /\ StaysOnSeedSites

(* The seeds are on their own sites.                                       *)
LEMMA OnSitesInit == Init => OnSites
<1> SUFFICES ASSUME Init PROVE OnSites
  OBVIOUS
<1>1. \A x \in ToSet(frontier) : x.url \in ToSet(Seeds)
  BY DEF Init, CrawlInit, ToSet
<1> QED
  BY <1>1 DEF OnSites, StaysOnSeedSites, SeedSites, Init, CrawlInit

(* Only the links to the site of a page are followed (crawler.py:144-148). *)
LEMMA OnSitesStep ==
  ASSUME CrawlTypeOK, OnSites, CrawlNext
  PROVE  OnSites'
<1>1. CASE Return
  BY <1>1 DEF Return, OnSites, StaysOnSeedSites
<1>2. CASE ~Return
  <2>1. PICK new : Advance(new)
    BY <1>2, LoopAdvances
  <2> DEFINE u == Head(frontier).url
  <2>2. u \in Urls /\ SiteOf[u] \in SeedSites
    BY <2>1, AdvancedQueue DEF Entry, OnSites
  <2>3. \A l \in Linked[u] : SiteOf[l] = SiteOf[u]
    BY <2>2, PageTypes DEF Linked, IsInternal
  <2>4. \A x \in ToSet(new) : SiteOf[x.url] \in SeedSites
    BY <2>1, <2>2, <2>3 DEF Advance
  <2>5. \A x \in ToSet(frontier') : SiteOf[x.url] \in SeedSites
    BY <2>1, <2>4, AdvancedQueue DEF OnSites
  <2>6. \A v \in seenPages' : SiteOf[v] \in SeedSites
    BY <2>1, <2>2 DEF Advance, OnSites, StaysOnSeedSites
  <2> QED
    BY <2>5, <2>6 DEF OnSites, StaysOnSeedSites
<1> QED
  BY <1>1, <1>2

-----------------------------------------------------------------------------
(* A page that is read nominates all it refers to before the next is taken *)
(* off the queue (crawler.py:112-149).                                     *)
LEMMA FindsStep ==
  ASSUME CrawlTypeOK, FindsAreNominated, CrawlNext
  PROVE  FindsAreNominated'
<1>1. web' = web /\ outcome = "running"
  BY DEF CrawlNext, SkipSeenPage, FetchFails, CrawlRaises, CrawlPage, Return, Take, GoesOn
<1>2. ASSUME NEW u \in Urls PROVE Finds(u)' = Finds(u)
  BY <1>1 DEF Finds, Internal
<1>3. htmlCache \subseteq Urls /\ emitted \in Seq(Candidate)
  BY DEF CrawlTypeOK
<1>4. \A u \in htmlCache : \A i \in DOMAIN Finds(u) : Nominated(emitted, Finds(u)[i].url)
  BY <1>1 DEF FindsAreNominated
<1>5. CASE SkipSeenPage \/ FetchFails \/ Return
  <2>1. UNCHANGED <<htmlCache, emitted>>
    BY <1>5 DEF SkipSeenPage, FetchFails, Return
  <2> QED
    BY <1>2, <1>3, <1>4, <2>1 DEF FindsAreNominated, Nominated
<1>6. CASE CrawlRaises
  BY <1>6 DEF CrawlRaises, FindsAreNominated
<1>7. CASE CrawlPage
  <2> DEFINE page == Head(frontier).url
  <2>1. /\ htmlCache' = htmlCache \union {page}
        /\ emitted' = EmitAll(emitted, Finds(page))
    BY <1>7 DEF CrawlPage
  <2>2. page \in Urls
    BY <1>7, QueueParts DEF CrawlPage, Take, GoesOn, CrawlTypeOK, Entry
  <2>3. Finds(page) \in Seq(Candidate)
    BY <2>2, PageTypes
  <2>4. /\ \A url : Nominated(emitted, url) => Nominated(emitted', url)
        /\ \A i \in DOMAIN Finds(page) : Nominated(emitted', Finds(page)[i].url)
    BY <1>3, <2>1, <2>3, EmitAllKeeps
  <2>5. ASSUME NEW u \in htmlCache', NEW i \in DOMAIN Finds(u)'
        PROVE  Nominated(emitted', Finds(u)'[i].url)
    BY <1>2, <1>3, <1>4, <2>1, <2>2, <2>4, <2>5
  <2> QED
    BY <2>5 DEF FindsAreNominated, Nominated
<1> QED
  BY <1>5, <1>6, <1>7 DEF CrawlNext

-----------------------------------------------------------------------------
(* Reached[k]: the pages at most k links away through pages that were read. *)
Reached == Within(Linked, htmlCache)

(* What a page near a seed links to was visited or waits to be.            *)
LinksTaken ==
  \A k \in 0..(MaxDepth - 1) : \A u \in htmlCache \cap Near[k] :
    Linked[u] \subseteq seenPages \union Queued(frontier, k + 1)

(* How a breadth-first walk stands: the queue is in order, nothing that was *)
(* seen is farther away than anything queued, and what is near was seen or  *)
(* leads to the queue.                                                     *)
Breadth ==
  /\ Sorted(frontier)
  /\ ToSet(Seeds) \subseteq seenPages \union Queued(frontier, 0)
  /\ outcome # "raised" => LinksTaken
  /\ \A x \in ToSet(frontier) : x.url \in Reached[x.depth] /\ seenPages \subseteq Reached[x.depth]
  /\ seenPages \subseteq Reached[MaxDepth]
  /\ outcome = "raised" => NearestFirst

(* No link is queued at a depth beyond max_depth (crawler.py:150).         *)
LEMMA QueuedDepths ==
  ASSUME CrawlTypeOK
  PROVE  \A x \in ToSet(frontier) : x.depth \in 0..MaxDepth
<1>1. ToSet(frontier) \subseteq Entry
  <2>1. frontier \in Seq(Entry)
    BY DEF CrawlTypeOK
  <2> QED
    BY <2>1, ToSetOfSeq
<1> QED
  BY <1>1 DEF Entry

(* What is reached is near, as no page that was read has failed.           *)
LEMMA ReachedIsNear ==
  ASSUME CrawlTypeOK
  PROVE  \A k \in 0..MaxDepth : Reached[k] \subseteq Near[k]
<1>1. Linked \in LinkMaps /\ htmlCache \cap Urls \subseteq Urls \ Failed
  BY LinkedType DEF Failed
<1> QED
  BY <1>1, WithinMonotone DEF Reached, Near

(* A depth that the queue has left behind is done with (crawler.py:106).   *)
LEMMA NearerSeen ==
  ASSUME CrawlTypeOK, Breadth, outcome # "raised",
         NEW k \in 0..MaxDepth, \A x \in ToSet(frontier) : k < x.depth
  PROVE  Near[k] \subseteq seenPages
<1> DEFINE T == {j \in 0..k : Near[j] \subseteq seenPages}
<1>1. /\ MaxDepth \in Nat /\ Near[0] = ToSet(Seeds)
      /\ \A j \in 1..MaxDepth : Near[j] = Further(Linked, Urls \ Failed, Near[j - 1])
  BY WithinUnfolds, LinkedType, CrawlerAssumption DEF Near, CrawlerAssumption
<1>2. \A x \in ToSet(frontier) : x.depth \in 0..MaxDepth
  BY QueuedDepths
<1>3. ASSUME NEW j \in 0..k PROVE Queued(frontier, j) = {}
  <2>1. \A x \in ToSet(frontier) : ~(x.depth <= j)
    BY <1>1, <1>2
  <2> QED
    BY <2>1 DEF Queued
<1>4. 0 \in T
  BY <1>1, <1>3 DEF Breadth
<1>5. ASSUME NEW j \in 0..(k - 1), j \in T PROVE j + 1 \in T
  <2>1. j + 1 \in 0..k /\ j + 1 \in 1..MaxDepth /\ (j + 1) - 1 = j /\ j \in 0..(MaxDepth - 1)
    BY <1>1
  <2>2. Near[j + 1] = Further(Linked, Urls \ Failed, Near[j])
    BY <1>1, <2>1
  <2>3. ASSUME NEW u \in Near[j] \cap (Urls \ Failed)
        PROVE  Linked[u] \subseteq seenPages
    <3>1. u \in htmlCache \cap Near[j]
      BY <1>5 DEF Failed
    <3>2. Linked[u] \subseteq seenPages \union Queued(frontier, j + 1)
      BY <2>1, <3>1 DEF Breadth, LinksTaken
    <3> QED
      BY <1>3, <2>1, <3>2
  <2> QED
    BY <1>5, <2>1, <2>2, <2>3 DEF Further
<1>6. 0..k \subseteq T
  <2> HIDE DEF T
  <2> QED
    BY <1>1, <1>4, <1>5, BoundedInduction
<1>7. k \in T
  BY <1>1, <1>6
<1> QED
  BY <1>7

(* Hence what is seen and what is near never lack something of each other. *)
LEMMA BreadthIsNearestFirst ==
  ASSUME CrawlTypeOK, Breadth
  PROVE  NearestFirst
<1> SUFFICES ASSUME outcome # "raised", NEW k \in 0..MaxDepth, ~(Near[k] \subseteq seenPages)
             PROVE  seenPages \subseteq Near[k]
  BY DEF Breadth, NearestFirst
<1>1. MaxDepth \in Nat /\ \A x \in ToSet(frontier) : x.depth \in 0..MaxDepth
  BY QueuedDepths, CrawlerAssumption DEF CrawlerAssumption
<1>2. PICK x \in ToSet(frontier) : ~(k < x.depth)
  BY NearerSeen
<1>3. x.depth \in 0..MaxDepth /\ x.depth <= k
  BY <1>1, <1>2
<1>4. seenPages \subseteq Reached[x.depth]
  BY DEF Breadth
<1>5. Reached[x.depth] \subseteq Reached[k]
  BY <1>3, WithinGrows, LinkedType DEF Reached
<1> QED
  BY <1>4, <1>5, ReachedIsNear

(* With its queue empty the walk has been everywhere within max_depth.     *)
LEMMA BreadthFetchesAll ==
  ASSUME CrawlTypeOK, Breadth
  PROVE  AllNearPagesFetched
<1> SUFFICES ASSUME outcome = "returned", frontier = <<>>
             PROVE  seenPages = Near[MaxDepth]
  BY DEF AllNearPagesFetched
<1>1. MaxDepth \in 0..MaxDepth
  BY CrawlerAssumption DEF CrawlerAssumption
<1>2. \A x \in ToSet(frontier) : MaxDepth < x.depth
  BY DEF ToSet
<1>3. Near[MaxDepth] \subseteq seenPages
  BY <1>1, <1>2, NearerSeen
<1> QED
  BY <1>1, <1>3, ReachedIsNear DEF Breadth

(* At first the seeds are all there is (crawler.py:102).                   *)
LEMMA BreadthInit == Init /\ CrawlTypeOK => Breadth
<1> SUFFICES ASSUME Init, CrawlTypeOK PROVE Breadth
  OBVIOUS
<1>1. /\ frontier = [i \in DOMAIN Seeds |-> [url |-> Seeds[i], depth |-> 0]]
      /\ seenPages = {} /\ htmlCache = {} /\ outcome = "running"
  BY DEF Init, CrawlInit
<1>2. Reached[0] = ToSet(Seeds)
  BY WithinUnfolds, LinkedType DEF Reached
<1>3. DOMAIN frontier = DOMAIN Seeds
      /\ \A i \in DOMAIN frontier : frontier[i].url = Seeds[i] /\ frontier[i].depth = 0
  BY <1>1
<1>4. \A x \in ToSet(frontier) : x.depth = 0 /\ x.url \in ToSet(Seeds)
  BY <1>3 DEF ToSet
<1>5. ASSUME NEW s \in ToSet(Seeds) PROVE s \in Queued(frontier, 0)
  <2>1. PICK i \in DOMAIN Seeds : s = Seeds[i]
    BY DEF ToSet
  <2>2. frontier[i] \in ToSet(frontier) /\ frontier[i].url = s /\ frontier[i].depth <= 0
    BY <1>3, <2>1 DEF ToSet
  <2> QED
    BY <2>2 DEF Queued
<1>6. Sorted(frontier)
  BY <1>3 DEF Sorted
<1> QED
  BY <1>1, <1>2, <1>4, <1>5, <1>6 DEF Breadth, LinksTaken

-----------------------------------------------------------------------------
(* A step takes nothing from what is reached and adds nothing to what is   *)
(* near: only the failed pages become more.                                *)
LEMMA AdvancedDistances ==
  ASSUME CrawlTypeOK, CrawlTypeOK', NEW new, Advance(new)
  PROVE  /\ Linked' = Linked /\ Linked \in LinkMaps
         /\ \A k \in 0..MaxDepth : Near'[k] \subseteq Near[k]
         /\ \A k \in 0..MaxDepth : Reached[k] \subseteq Reached'[k]
         /\ \A k, j \in 0..MaxDepth : k <= j => Reached'[k] \subseteq Reached'[j]
         /\ \A k \in 1..MaxDepth : Reached'[k] = Further(Linked, htmlCache', Reached'[k - 1])
         /\ \A k \in 0..MaxDepth : Reached'[k] \subseteq Near'[k]
         /\ \A x \in ToSet(frontier') : x.depth \in 0..MaxDepth
<1>1. Linked' = Linked
  BY DEF Advance, Linked, Internal
<1>2. Linked \in LinkMaps
  BY LinkedType
<1>3. (Urls \ Failed') \cap Urls \subseteq Urls \ Failed
  BY DEF Advance, Failed, CrawlTypeOK
<1>4. htmlCache \cap Urls \subseteq htmlCache'
  BY DEF Advance
<1>5. Near' = Within(Linked, Urls \ Failed') /\ Reached' = Within(Linked, htmlCache')
  BY <1>1 DEF Near, Reached
<1>6. \A k \in 0..MaxDepth : Near'[k] \subseteq Near[k]
  BY <1>2, <1>3, <1>5, WithinMonotone DEF Near
<1>7. \A k \in 0..MaxDepth : Reached[k] \subseteq Reached'[k]
  BY <1>2, <1>4, <1>5, WithinMonotone DEF Reached
<1>8. \A k, j \in 0..MaxDepth : k <= j => Reached'[k] \subseteq Reached'[j]
  BY <1>2, <1>5, WithinGrows
<1>9. \A k \in 0..MaxDepth : Reached'[k] \subseteq Near'[k]
  <2>1. htmlCache' \cap Urls \subseteq Urls \ Failed'
    BY DEF Failed
  <2> QED
    BY <1>2, <1>5, <2>1, WithinMonotone
<1>10. \A x \in ToSet(frontier') : x.depth \in 0..MaxDepth
  <2>1. frontier' \in Seq(Entry)
    BY DEF CrawlTypeOK
  <2>2. ToSet(frontier') \subseteq Entry
    BY <2>1, ToSetOfSeq
  <2> QED
    BY <2>2 DEF Entry
<1> QED
  BY <1>1, <1>2, <1>5, <1>6, <1>7, <1>8, <1>9, <1>10, WithinUnfolds

(* The head of the queue is as far as anything that was seen, and what is  *)
(* nearer was seen before: the links of the head come at the end, one      *)
(* level deeper (crawler.py:106-109, :150).                                *)
LEMMA BreadthAdvances ==
  ASSUME CrawlTypeOK, CrawlTypeOK', Breadth, NEW new, Advance(new)
  PROVE  Breadth'
<1> DEFINE u == Head(frontier).url
           d == Head(frontier).depth
<1>1. /\ Head(frontier) \in ToSet(frontier)
      /\ ToSet(frontier) = {Head(frontier)} \union ToSet(Tail(frontier))
      /\ ToSet(frontier') = ToSet(Tail(frontier)) \union ToSet(new)
      /\ \A k : Queued(frontier, k) \subseteq {u} \union Queued(frontier', k)
  BY AdvancedQueue
<1>2. u \in Urls /\ d \in 0..MaxDepth /\ d \in Nat /\ MaxDepth \in Nat
  BY AdvancedQueue, CrawlerAssumption DEF Entry, CrawlerAssumption
<1>3. /\ seenPages' = seenPages \union {u}
      /\ htmlCache' \in {htmlCache, htmlCache \union {u}}
      /\ \A x \in ToSet(new) : x.depth = d + 1 /\ x.url \in Linked[u] /\ u \in htmlCache'
      /\ u \in htmlCache' \ htmlCache =>
           /\ u \notin seenPages
           /\ d < MaxDepth /\ outcome' # "raised" =>
                Linked[u] \subseteq seenPages' \union {x.url : x \in ToSet(new)}
      /\ outcome = "running"
  BY DEF Advance
<1>4. Sorted(frontier') /\ \A x \in ToSet(frontier) : x.depth >= d
  <2>1. /\ frontier \in Seq(Entry) /\ frontier # <<>> /\ Sorted(frontier) /\ new \in Seq(Entry)
        /\ frontier' = Tail(frontier) \o new
    BY DEF CrawlTypeOK, Breadth, Advance
  <2>2. Sorted(Tail(frontier) \o new) /\ \A x \in ToSet(frontier) : x.depth >= d
    BY <1>3, <2>1, QueueStaysSorted
  <2> QED
    BY <2>1, <2>2 DEF Sorted
<1>5. \A x \in ToSet(frontier) : x.depth \in 0..MaxDepth
  BY QueuedDepths
<1>6. \A k \in 0..MaxDepth : k < d => Near[k] \subseteq seenPages
  <2> SUFFICES ASSUME NEW k \in 0..MaxDepth, k < d PROVE Near[k] \subseteq seenPages
    OBVIOUS
  <2>1. \A x \in ToSet(frontier) : k < x.depth
    BY <1>2, <1>4, <1>5
  <2> QED
    BY <1>3, <2>1, NearerSeen
<1> HIDE DEF u, d
<1>7. ToSet(Seeds) \subseteq seenPages' \union Queued(frontier', 0)
  BY <1>1, <1>3 DEF Breadth
<1>8. ASSUME outcome' # "raised", NEW k \in 0..(MaxDepth - 1), NEW v \in htmlCache' \cap Near'[k]
      PROVE  Linked[v] \subseteq seenPages' \union Queued(frontier', k + 1)
  <2>1. v \in Near[k] /\ k \in 0..MaxDepth
    BY <1>2, AdvancedDistances
  <2>2. CASE v \in htmlCache
    <3>1. Linked[v] \subseteq seenPages \union Queued(frontier, k + 1)
      BY <1>3, <2>1, <2>2 DEF Breadth, LinksTaken
    <3> QED
      BY <1>1, <1>3, <3>1
  <2>3. CASE v \notin htmlCache
    <3>1. v = u /\ u \in htmlCache' \ htmlCache /\ u \notin seenPages
      BY <1>3, <1>8, <2>3
    <3>2. d <= k /\ d < MaxDepth
      BY <1>2, <1>6, <2>1, <3>1
    <3>3. Linked[u] \subseteq seenPages' \union {x.url : x \in ToSet(new)}
      BY <1>3, <1>8, <3>1, <3>2
    <3>4. \A x \in ToSet(new) : x \in ToSet(frontier') /\ x.depth <= k + 1
      BY <1>1, <1>2, <1>3, <3>2
    <3> QED
      BY <3>1, <3>3, <3>4 DEF Queued
  <2> QED
    BY <2>2, <2>3
<1>9. u \in Reached[d] /\ seenPages \subseteq Reached[d]
  BY <1>1 DEF Breadth, u, d
<1>10. u \in Reached'[d] /\ seenPages' \subseteq Reached'[d]
  BY <1>2, <1>3, <1>9, AdvancedDistances
<1>11. ASSUME NEW x \in ToSet(frontier')
       PROVE  x.url \in Reached'[x.depth] /\ seenPages' \subseteq Reached'[x.depth]
  <2>1. x.depth \in 0..MaxDepth
    BY <1>11, AdvancedDistances
  <2>2. CASE x \in ToSet(Tail(frontier))
    <3>1. x.url \in Reached[x.depth] /\ d <= x.depth
      BY <1>1, <1>4, <2>2 DEF Breadth
    <3> QED
      BY <1>2, <1>10, <2>1, <3>1, AdvancedDistances
  <2>3. CASE x \in ToSet(new)
    <3>1. x.depth = d + 1 /\ x.url \in Linked[u] /\ u \in htmlCache'
      BY <1>3, <2>3
    <3>2. d + 1 \in 1..MaxDepth /\ (d + 1) - 1 = d
      BY <1>2, <2>1, <3>1
    <3>3. Reached'[d + 1] = Further(Linked, htmlCache', Reached'[d])
      BY <3>2, AdvancedDistances
    <3> QED
      BY <1>10, <3>1, <3>3 DEF Further
  <2> QED
    BY <1>1, <1>11, <2>2, <2>3
<1>12. seenPages' \subseteq Reached'[MaxDepth]
  <2>1. d <= MaxDepth /\ MaxDepth \in 0..MaxDepth
    BY <1>2
  <2> QED
    BY <1>2, <1>10, <2>1, AdvancedDistances
<1>13. ASSUME outcome' = "raised", NEW k \in 0..MaxDepth
       PROVE  seenPages' \subseteq Near'[k] \/ Near'[k] \subseteq seenPages'
  <2>1. CASE k < d
    BY <1>3, <1>6, <2>1, AdvancedDistances
  <2>2. CASE d <= k
    <3>1. Reached'[d] \subseteq Reached'[k]
      BY <1>2, <2>2, AdvancedDistances
    <3> QED
      BY <1>10, <3>1, AdvancedDistances
  <2> QED
    BY <1>2, <2>1, <2>2
<1> QED
  BY <1>4, <1>7, <1>8, <1>11, <1>12, <1>13, AdvancedDistances DEF Breadth, LinksTaken, NearestFirst

-----------------------------------------------------------------------------
(* All that is proved of the crawl, whatever is scored after it.           *)
CrawlInv ==
  /\ FetchInv
  /\ Types
  /\ OnSites
  /\ FindsAreNominated
  /\ Breadth

(* Nothing of the crawl changes while the scores are given (live.py:126).  *)
LEMMA CrawlStays ==
  ASSUME CrawlInv, UNCHANGED crawlVars
  PROVE  (OnSites /\ FindsAreNominated /\ Breadth)'
<1>1. /\ web' = web /\ frontier' = frontier /\ seenPages' = seenPages /\ emitted' = emitted
      /\ htmlCache' = htmlCache /\ outcome' = outcome
  BY DEF crawlVars
<1>2. Linked' = Linked
  BY <1>1 DEF Linked, Internal
<1>3. Near' = Near /\ Reached' = Reached
  BY <1>1, <1>2 DEF Near, Reached, Failed
<1>4. ASSUME NEW u \in Urls PROVE Finds(u)' = Finds(u)
  BY <1>1 DEF Finds, Internal
<1>5. htmlCache \subseteq Urls
  BY DEF CrawlInv, Types, TypeOK, CrawlTypeOK
<1>6. OnSites'
  BY <1>1 DEF CrawlInv, OnSites, StaysOnSeedSites
<1>7. FindsAreNominated'
  <2>1. ASSUME outcome # "raised", NEW u \in htmlCache, NEW i \in DOMAIN Finds(u)
        PROVE  Nominated(emitted, Finds(u)[i].url)
    BY <2>1 DEF CrawlInv, FindsAreNominated
  <2> QED
    BY <1>1, <1>4, <1>5, <2>1 DEF FindsAreNominated, Nominated
<1>8. Breadth'
  BY <1>1, <1>2, <1>3 DEF CrawlInv, Breadth, LinksTaken, NearestFirst
<1> QED
  BY <1>6, <1>7, <1>8

(* The seeds are queued and nothing is fetched (crawler.py:95-105).        *)
LEMMA CrawlInvInit == Init => CrawlInv
<1> SUFFICES ASSUME Init PROVE CrawlInv
  OBVIOUS
<1>1. Types /\ CrawlTypeOK
  BY TypesInit DEF Types, TypeOK
<1>2. FetchInv /\ FindsAreNominated
  BY DEF Init, CrawlInit, FetchInv, FindsAreNominated
<1> QED
  BY <1>1, <1>2, OnSitesInit, BreadthInit DEF CrawlInv

(* The steps of the crawl keep the invariant, and scoring leaves the crawl *)
(* alone.                                                                  *)
LEMMA CrawlInvStep == CrawlInv /\ [Next]_vars => CrawlInv'
<1> SUFFICES ASSUME CrawlInv, [Next]_vars PROVE CrawlInv'
  OBVIOUS
<1>1. FetchInv'
  <2>1. CASE UNCHANGED vars
    BY <2>1 DEF vars, crawlVars, scoreVars, CrawlInv, FetchInv
  <2> QED
    BY <2>1, CrawlStepKeeps, ScoreStepKeeps DEF Next, CrawlInv
<1>2. Types' /\ CrawlTypeOK /\ CrawlTypeOK'
  BY <1>1, TypesStep DEF CrawlInv, Types, TypeOK
<1>3. CASE UNCHANGED crawlVars
  BY <1>1, <1>2, <1>3, CrawlStays DEF CrawlInv
<1>4. CASE CrawlNext
  <2>1. OnSites' /\ FindsAreNominated'
    BY <1>2, <1>4, OnSitesStep, FindsStep DEF CrawlInv
  <2>2. Breadth'
    <3>1. CASE Return
      <4>1. UNCHANGED <<web, frontier, seenPages, emitted, htmlCache>> /\ outcome' = "returned"
            /\ outcome = "running"
        BY <3>1 DEF Return
      <4>2. Linked' = Linked
        BY <4>1 DEF Linked, Internal
      <4>3. Near' = Near /\ Reached' = Reached
        BY <4>1, <4>2 DEF Near, Reached, Failed
      <4> QED
        BY <4>1, <4>2, <4>3 DEF CrawlInv, Breadth, LinksTaken
    <3>2. CASE ~Return
      BY <1>2, <1>4, <3>2, LoopAdvances, BreadthAdvances DEF CrawlInv
    <3> QED
      BY <3>1, <3>2
  <2> QED
    BY <1>1, <1>2, <2>1, <2>2 DEF CrawlInv
<1>5. UNCHANGED crawlVars \/ CrawlNext
  BY DEF Next, vars, ScoreAgain, ScoreStored, ScoreFetched, ScoreFails
<1> QED
  BY <1>3, <1>4, <1>5

(* The inductive invariant of the crawl, for any web, caps and failures.   *)
THEOREM CrawlInvariant == Spec => []CrawlInv
  BY CrawlInvInit, CrawlInvStep, PTL DEF Spec

(* The crawl stays within its caps and the scores within the limit: no     *)
(* entry of the queue is deeper than max_depth, and the backend adds only  *)
(* pages that the crawler has not kept (crawler.py:107-150, live.py:104).  *)
THEOREM ScoredCrawlTypeCorrect == Spec => []TypeOK
<1>1. CrawlInv => TypeOK
  BY DEF CrawlInv, Types
<1> QED
  BY <1>1, CrawlInvariant, PTL

(* No page outside the sites of the seeds is ever fetched (crawler.py:147). *)
THEOREM NoForeignPage == Spec => []StaysOnSeedSites
<1>1. CrawlInv => StaysOnSeedSites
  BY DEF CrawlInv, OnSites
<1> QED
  BY <1>1, CrawlInvariant, PTL

(* Under the caps too, all that a page that was read refers to is          *)
(* nominated, unless a malformed reference ends the crawl (crawler.py:107, *)
(* :142).                                                                  *)
THEOREM NothingCutOff == Spec => []FindsAreNominated
<1>1. CrawlInv => FindsAreNominated
  BY DEF CrawlInv
<1> QED
  BY <1>1, CrawlInvariant, PTL

(* The walk is breadth-first for any web, any failures and any caps: what  *)
(* a cap cuts off is what lies farthest from the seeds (crawler.py:106).   *)
THEOREM BreadthFirst == Spec => []NearestFirst
<1>1. CrawlInv => NearestFirst
  BY BreadthIsNearestFirst DEF CrawlInv, Types, TypeOK
<1> QED
  BY <1>1, CrawlInvariant, PTL

(* A crawl that empties its queue has asked for exactly the pages within   *)
(* max_depth links of a seed: that a URL is marked seen where it is met    *)
(* first loses none of the links behind it (crawler.py:109, :150).         *)
THEOREM NothingNearIsLost == Spec => []AllNearPagesFetched
<1>1. CrawlInv => AllNearPagesFetched
  BY BreadthFetchesAll DEF CrawlInv, Types, TypeOK
<1> QED
  BY <1>1, CrawlInvariant, PTL
=============================================================================
