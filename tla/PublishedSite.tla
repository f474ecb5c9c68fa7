--------------------------- MODULE PublishedSite ---------------------------
(***************************************************************************)
(* What the store promises to everything that reads it: at every moment    *)
(* the site is a set of published pages, full-text search finds exactly    *)
(* the visible text pages among them as they now read, and a page changes  *)
(* only by being published, removed or moved to a free path.  Drafts,      *)
(* versions, counters and script data do not exist at this level.  Pages   *)
(* of gemtext are told from other text here; the store keeps both as text. *)
(***************************************************************************)
CONSTANTS Paths, HiddenPaths, Contents, NoDoc

VARIABLES
    live,       \* the document published at each path, or NoDoc
    searchable  \* what search can return, as pairs of a path and a content

siteVars == <<live, searchable>>

Doc == [content : Contents, mime : {"gemtext", "text", "binary"}]

FindableIn(site) ==
    {<<p, site[p].content>> :
        p \in {q \in Paths \ HiddenPaths :
                 site[q] # NoDoc /\ site[q].mime # "binary"}}

SiteInit ==
    /\ live = [p \in Paths |-> NoDoc]
    /\ searchable = {}

Publish(p, d) == live' = [live EXCEPT ![p] = d]

Remove(p) == live' = [live EXCEPT ![p] = NoDoc]

Move(p, q) ==
    /\ live[p] # NoDoc
    /\ live[q] = NoDoc
    /\ live' = [live EXCEPT ![q] = live[p], ![p] = NoDoc]

SiteNext ==
    /\ \E p \in Paths :
        \/ \E d \in Doc : Publish(p, d)
        \/ Remove(p)
        \/ \E q \in Paths : Move(p, q)
    /\ searchable' = FindableIn(live')

SiteSpec == SiteInit /\ [][SiteNext]_siteVars
=============================================================================
