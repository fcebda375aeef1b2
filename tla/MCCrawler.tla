------------------------------- MODULE MCCrawler -------------------------------
(* Bounds for Crawler and ScoredCrawl: see README.md, "Runs".               *)
EXTENDS ScoredCrawl, TLC

CONSTANTS home, a, b, c, other, player, stream, about, broken, site1, site2, foreign

MCUrls == {home, a, b, c, other, player, stream, about, broken}
MCSiteOf == [u \in MCUrls |-> CASE u = other -> site2
                               [] u \in {player, stream} -> foreign
                               [] u \in {about, broken} -> NoSite
                               [] OTHER -> site1]
Events == {a}
Broken == {broken}

(* A web of what home, a, b and other may say; c is a page without links.  *)
WebsOf(homes, as, bs, others) ==
  {[u \in MCUrls |-> CASE u = home -> p [] u = a -> q [] u = b -> r [] u = other -> s
                       [] OTHER -> [manifests |-> <<>>, iframes |-> <<>>, hrefs |-> <<>>]] :
     p \in homes, q \in as, r \in bs, s \in others}
Pages(manifests, iframes, hrefs) ==
  [manifests : manifests, iframes : iframes, hrefs : hrefs]
Links(hrefs) == Pages({<<>>}, {<<>>}, hrefs)

(* Four pages of one site that link to each other and to elsewhere.        *)
LinkWebs ==
  WebsOf(Links({<<>>, <<a>>, <<b>>, <<a, b>>, <<b, player, a>>, <<player, a>>, <<other, a, a>>}),
         Links({<<>>, <<b>>, <<c>>, <<c, b>>, <<home, b>>}),
         Links({<<>>, <<a>>, <<c>>, <<c, a>>, <<a, broken>>}),
         Links({<<>>}))

(* Two portals that embed each other, a player and a stream.               *)
TwoSeeds == <<home, other>>
FindWebs ==
  WebsOf(Pages({<<>>, <<stream>>}, {<<>>, <<player>>, <<other>>, <<about, player>>},
               {<<>>, <<a>>, <<a, about, b>>}),
         Pages({<<>>, <<stream>>}, {<<>>, <<player>>, <<stream>>}, {<<>>}),
         Links({<<>>}),
         Pages({<<>>}, {<<>>, <<home>>, <<player, stream>>}, {<<>>, <<other, a>>}))

AllWebs == LinkWebs \union FindWebs

(* Pages of the portal are on the command line too, one of them twice.     *)
GivenUrls == <<b, player, b>>
GoodUrls == {a, b}
=============================================================================
